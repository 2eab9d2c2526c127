---------------------------- MODULE MCOrderCards ----------------------------
(* Instances of OrderCards for TLC. *)
EXTENDS OrderCards, TLC

CONSTANTS w1, w2, bot, other

MCWorkers == {w1, w2}
MCHandlers == {bot, other}
MCOneWorker == {w1}
MCOneHandler == {bot}
Symmetry == Permutations(MCWorkers)
=============================================================================
