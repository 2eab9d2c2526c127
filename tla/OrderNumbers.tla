---------------------------- MODULE OrderNumbers ----------------------------
(***************************************************************************)
(* Public order numbers: services/order_numbers.py in the transaction of   *)
(* create_order_for_user.  The counter of the year is read without a lock, *)
(* increased in memory and written in the transaction of the order; the    *)
(* number is made of the month the request began in and of the new value,  *)
(* and is unique.                                                          *)
(*                                                                         *)
(* Uncommitted writes are seen by nobody.  The row lock of the UPDATE, or  *)
(* the primary key of the inserted row, makes other writers wait.          *)
(***************************************************************************)
EXTENDS Integers, Sequences, FiniteSets

CONSTANTS
    Sessions,       \* creations that can be in progress at the same time
    MaxOrders,      \* bound on the orders
    LastMonth,      \* bound: months go from 0 to LastMonth
    MonthsPerYear,  \* 12
    Largest,        \* the largest value that fits the column: 9999
    NoOne

ASSUME NumberConstants ==
    /\ MaxOrders \in Nat
    /\ LastMonth \in Nat
    /\ MonthsPerYear \in Nat \ {0}
    /\ Largest \in Nat \ {0}
    /\ NoOne \notin Sessions

VARIABLES
    now,      \* the month it is
    counter,  \* year -> OrderNumberCounters.lastValue, -1 without a row
    orders,   \* the committed orders in the order of their commits: [month, value]
    lock,     \* year -> the session that has written the counter, or NoOne
    session,  \* Sessions -> [at, month, seen]: createdAt and the value it has read
    late      \* history: an order was committed after the month it is numbered in

vars == <<now, counter, orders, lock, session, late>>

YearOf(month) == month \div MonthsPerYear
Months == 0..LastMonth
Years == {YearOf(month) : month \in Months}

Numbers == {orders[i] : i \in DOMAIN orders}

\* The values of those of the first n orders of a sequence that are of a year.
ValuesOf(seq, y, n) == {seq[k].value : k \in {i \in 1..n : YearOf(seq[i].month) = y}}

Idle == [at |-> "idle", month |-> 0, seen |-> 0]
Busy == {s \in Sessions : session[s].at # "idle"}

Init ==
    /\ now = 0
    /\ counter = [y \in Years |-> -1]
    /\ orders = <<>>
    /\ lock = [y \in Years |-> NoOne]
    /\ session = [s \in Sessions |-> Idle]
    /\ late = FALSE

\* createdAt is taken before the counter is looked at.
Begin(s) ==
    /\ session[s].at = "idle"
    /\ Len(orders) + Cardinality(Busy) < MaxOrders
    /\ session' = [session EXCEPT ![s] = [at |-> "begun", month |-> now, seen |-> 0]]
    /\ UNCHANGED <<now, counter, orders, lock, late>>

Read(s) ==
    /\ session[s].at = "begun"
    /\ session' = [session EXCEPT ![s].at = "read",
                                  ![s].seen = counter[YearOf(session[s].month)]]
    /\ UNCHANGED <<now, counter, orders, lock, late>>

Ends(s) ==
    /\ session' = [session EXCEPT ![s] = Idle]
    /\ lock' = [y \in Years |-> IF lock[y] = s THEN NoOne ELSE lock[y]]

\* An exception, a lost connection, a crash.
Rollback(s) ==
    /\ session[s].at # "idle"
    /\ Ends(s)
    /\ UNCHANGED <<now, counter, orders, late>>

\* The counter is flushed.  A session that saw no row inserts one, which fails
\* when another session has committed one since.
Write(s) ==
    LET y == YearOf(session[s].month)
    IN  /\ session[s].at = "read"
        /\ lock[y] = NoOne
        /\ session[s].seen = -1 => counter[y] = -1
        /\ session' = [session EXCEPT ![s].at = "written"]
        /\ lock' = [lock EXCEPT ![y] = s]
        /\ UNCHANGED <<now, counter, orders, late>>

\* A new counter starts at 0 and is increased like any other.
NextValue(s) == IF session[s].seen = -1 THEN 1 ELSE session[s].seen + 1

\* Faulty: the number may be taken.
FitsAnyway(number) == number.value <= Largest

\* Orders.publicNumber is unique and has ten characters.
Fits(number) == number \notin Numbers /\ number.value <= Largest

\* The order is inserted and everything committed.
Commit(s) ==
    LET number == [month |-> session[s].month, value |-> NextValue(s)]
    IN  /\ session[s].at = "written"
        /\ Fits(number)
        /\ orders' = Append(orders, number)
        /\ counter' = [counter EXCEPT ![YearOf(number.month)] = number.value]
        /\ late' = (late \/ number.month # now)
        /\ Ends(s)
        /\ UNCHANGED now

MonthEnds ==
    /\ now < LastMonth
    /\ now' = now + 1
    /\ UNCHANGED <<counter, orders, lock, session, late>>

Next ==
    \/ \E s \in Sessions : Begin(s) \/ Read(s) \/ Write(s) \/ Commit(s) \/ Rollback(s)
    \/ MonthEnds

Spec == Init /\ [][Next]_vars

----------------------------------------------------------------------------
TypeOK ==
    /\ now \in Months
    /\ counter \in [Years -> Nat \cup {-1}]
    /\ orders \in Seq([month : Months, value : 1..Largest])
    /\ lock \in [Years -> Sessions \cup {NoOne}]
    /\ session \in [Sessions -> [at : {"idle", "begun", "read", "written"},
                                 month : Months, seen : Nat \cup {-1}]]
    /\ late \in BOOLEAN

\* Orders of a year are numbered 1, 2, 3... in the order of their commits: an
\* order comes after exactly the values below its own, unless a request was
\* committed in a later month than the one it began in.  Although concurrent
\* requests read the same value, the unique number stops all but one.
Consecutive ==
    ~late => \A i \in DOMAIN orders :
        ValuesOf(orders, YearOf(orders[i].month), i - 1) = 1..(orders[i].value - 1)

\* The next request that runs alone finds its number free.
NextNumberFree ==
    ~late => [month |-> now, value |-> counter[YearOf(now)] + 1] \notin Numbers
=============================================================================
