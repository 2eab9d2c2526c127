--------------------------- MODULE MCChatDelivery ---------------------------
(* Instances of ChatDelivery for TLC. *)
EXTENDS ChatDelivery, TLC

CONSTANTS r1, r2, r3

MCRequests == {r1, r2, r3}
Symmetry == Permutations(MCRequests)
=============================================================================
