--------------------------- MODULE OrderLifecycle ---------------------------
(***************************************************************************)
(* What the order workflow promises, without sessions, locks or wallets:   *)
(* the money side of an order changes in the same step as its status, and  *)
(* a closed order is never touched again.                                  *)
(***************************************************************************)
CONSTANTS Orders, TokenOrders

VARIABLES
    status,     \* Orders -> the status others see
    settlement  \* Orders -> "none", "held", "debited", "released" or "bonus"

Init ==
    /\ status = [o \in Orders |-> "absent"]
    /\ settlement = [o \in Orders |-> "none"]

\* An order that sells ATXG comes into being with its amount held.
Place(o) ==
    /\ status[o] = "absent"
    /\ status' = [status EXCEPT ![o] = "created"]
    /\ settlement' = [settlement EXCEPT ![o] = IF o \in TokenOrders THEN "held" ELSE "none"]

Take(o) ==
    /\ status[o] = "created"
    /\ status' = [status EXCEPT ![o] = "processing"]
    /\ UNCHANGED settlement

\* A withdrawal is debited; another order may earn its referrer a bonus.
Complete(o) ==
    /\ status[o] = "processing"
    /\ status' = [status EXCEPT ![o] = "completed"]
    /\ \E outcome \in IF o \in TokenOrders THEN {"debited"} ELSE {"none", "bonus"} :
         settlement' = [settlement EXCEPT ![o] = outcome]

Cancel(o) ==
    /\ status[o] \in {"created", "processing"}
    /\ status' = [status EXCEPT ![o] = "cancelled"]
    /\ settlement' = [settlement EXCEPT ![o] = IF o \in TokenOrders THEN "released" ELSE @]

Next == \E o \in Orders : Place(o) \/ Take(o) \/ Complete(o) \/ Cancel(o)

Spec == Init /\ [][Next]_<<status, settlement>>
=============================================================================
