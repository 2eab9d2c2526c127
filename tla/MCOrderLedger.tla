--------------------------- MODULE MCOrderLedger ---------------------------
(* Small instances of OrderLedger: a customer, the user who invited them,    *)
(* managers, withdrawals of ATXG and plain orders.                           *)
EXTENDS OrderLedger, TLC

CONSTANTS ann, bob, max, moe, t1, t2, p1, p2

MCOwnerOf == [o \in Orders |-> IF o = t1 /\ bob \in Users THEN bob ELSE ann]
MCAmountOf == [o \in Orders |-> IF o = t2 THEN 2 ELSE 1]
MCReferrerOf ==
    LET inviter == IF bob \in Users THEN bob ELSE IF max \in Users THEN max ELSE NoOne
    IN  [u \in Users |-> IF u = ann THEN inviter ELSE NoOne]
MCBonusOf == [o \in Orders |-> IF o \in TokenOrders THEN 0 ELSE 1]
SessionSymmetry == Permutations(Sessions)

MCFunds == [u \in Users |-> IF u \in {ann, bob} THEN 2 ELSE 0]
=============================================================================
