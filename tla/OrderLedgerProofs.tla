------------------------- MODULE OrderLedgerProofs -------------------------
(***************************************************************************)
(* Proofs about OrderLedger, for any set of users, orders and sessions.    *)
(***************************************************************************)
EXTENDS OrderLedger, FiniteSetTheorems, TLAPS

----------------------------------------------------------------------------
(* Type correctness, together with what the fields of a request mean. *)

JobRecord == [op : Operations \cup {"none"}, order : Orders \cup {NoOne},
              target : Statuses \cup {"none"}, actor : Users \cup {NoOne}]

PlanRecord == [manager : Staff \cup {NoOne}, kind : Kinds \cup {"none"},
               user : Users \cup {NoOne}, amount : Nat]

\* What the handlers see to before a session takes its first lock.
WellFormed(at, j, p) ==
    /\ at = "idle" <=> j.op = "none"
    /\ j.op \in WalletOps => at # "begun" /\ p.kind \in {"credit", "debit", "hold"}
    /\ j.op \in StatusOps \cup {"create"} => j.order \in Orders
    /\ j.op \in StatusOps => j.target \in Statuses
    /\ j.op \in {"take", "set"} => j.actor \in Staff \cup {NoOne}
    /\ j.op = "take" => j.target = "processing"
    /\ j.op = "usercancel" => j.target = "cancelled"
    /\ at = "locking" => p.kind # "none"
    /\ p.kind # "none" => p.user \in Users

Jobs == \A s \in Sessions : WellFormed(pc[s], job[s], plan[s])

\* A request as the handlers start it.
Admissible(j, p, c) ==
    /\ j \in JobRecord
    /\ p \in PlanRecord
    /\ j.op \in Operations
    /\ WellFormed(IF j.op \in WalletOps THEN "locking" ELSE "begun", j, p)
    /\ c \in {NoCopy} \cup {wallet[u] : u \in Users}
    /\ j.op \in StatusOps => p = Nothing
    /\ j.op \in {"take", "set"} => j.actor \in operators \cup {NoOne}
    /\ j.op = "create" =>
         /\ ~Exists(j.order) /\ j.actor = OwnerOf[j.order]
         /\ \A t \in Sessions : job[t].op = "create" => job[t].order # j.order
         /\ p.kind = IF j.order \in TokenOrders THEN "hold" ELSE "none"
         /\ p.kind = "hold" => p.user = OwnerOf[j.order] /\ p.amount = AmountOf[j.order]

Admitted(s) == \E j, p, c : Admissible(j, p, c) /\ Begin(s, j, p, c)

\* The steps that take a lock or pass a check, without their rollbacks.
LimitPassed(s) ==
    /\ pc[s] = "begun"
    /\ job[s].op = "create"
    /\ HasRoom(job[s].actor)
    /\ Proceed(s, plan[s])
    /\ UNCHANGED <<data, roles, locks, job, plan, copy, stale>>

OrderLocked(s) ==
    /\ pc[s] = "begun"
    /\ job[s].op \in StatusOps
    /\ orderLock[job[s].order] = NoOne
    /\ Allowed(job[s])
    /\ orderLock' = [orderLock EXCEPT ![job[s].order] = s]
    /\ plan' = [plan EXCEPT ![s] = Settlement(job[s])]
    /\ Proceed(s, Settlement(job[s]))
    /\ \E c \in LookedUp(s) : copy' = [copy EXCEPT ![s] = c]
    /\ UNCHANGED <<data, roles, walletLock, job, stale>>

WalletLocked(s) ==
    /\ pc[s] = "locking"
    /\ walletLock[plan[s].user] = NoOne
    /\ Covered(plan[s].kind, InMemory(s), plan[s].amount)
    /\ walletLock' = [walletLock EXCEPT ![plan[s].user] = s]
    /\ copy' = [copy EXCEPT ![s] = InMemory(s)]
    /\ stale' = IF InMemory(s) = wallet[plan[s].user] THEN stale
                ELSE stale \cup {plan[s].user}
    /\ pc' = [pc EXCEPT ![s] = "ready"]
    /\ UNCHANGED <<data, roles, orderLock, job, plan>>

LEMMA MovedType ==
    ASSUME NEW kind \in Kinds, NEW w \in WalletRow, NEW amount \in Nat
    PROVE  Moved(kind, w, amount) \in WalletRow
BY DEF Moved, WalletRow, Kinds

LEMMA WrittenType ==
    ASSUME NEW kind \in Kinds, NEW row \in WalletRow, NEW new \in WalletRow
    PROVE  Written(kind, row, new) \in WalletRow
BY DEF Written, WalletRow, Kinds

LEMMA BookedType ==
    ASSUME NEW kind \in Kinds, NEW sums \in [total : Int, held : Int], NEW amount \in Nat
    PROVE  Booked(kind, sums, amount) \in [total : Int, held : Int]
BY DEF Booked, Kinds

LEMMA SettlementType ==
    ASSUME TypeOK, NEW j \in JobRecord, j.op \in StatusOps, j.order \in Orders,
           j.target \in Statuses, j.op \in {"take", "set"} => j.actor \in Staff \cup {NoOne}
    PROVE  /\ Settlement(j) \in PlanRecord
           /\ Settlement(j).kind # "none" => Settlement(j).user \in Users
<1>1. ManagerId(j) \in Staff \cup {NoOne}
  BY DEF ManagerId, StatusOps, JobRecord
<1>2. AssignedManager(j) \in Staff \cup {NoOne}
  BY <1>1 DEF AssignedManager, TypeOK
<1>. QED
  BY <1>2, ConstantsOK DEF Settlement, EarnsBonus, Nothing, TypeOK, Kinds, ConstantsOK, PlanRecord

\* What the check for a takeover leaves in the session is a wallet of a user.
LEMMA LookedUpRows ==
    ASSUME TypeOK, NEW s \in Sessions, job[s].order \in Orders, NEW c \in LookedUp(s)
    PROVE  c \in {NoCopy, copy[s]} \cup {wallet[u] : u \in Users}
<1>. DEFINE o == job[s].order
            u == ReferrerOf[OwnerOf[o]]
<1>1. CASE CanReassign(o, ManagerId(job[s])) /\ u \in {order[o].manager, ManagerId(job[s])}
  <2>1. order[o].manager \in Users
    BY <1>1, ConstantsOK DEF CanReassign, TypeOK, ConstantsOK
  <2>2. ManagerId(job[s]) \in Users
    BY <1>1 DEF CanReassign, ManagerId, TypeOK
  <2>3. c \in {NoCopy, copy[s], wallet[u]}
    BY DEF LookedUp
  <2>. QED
    BY <1>1, <2>1, <2>2, <2>3
<1>2. CASE ~(CanReassign(o, ManagerId(job[s])) /\ u \in {order[o].manager, ManagerId(job[s])})
  BY <1>2 DEF LookedUp
<1>. QED
  BY <1>1, <1>2

LEMMA AdmittedType ==
    ASSUME TypeOK, Jobs, NEW s \in Sessions, Admitted(s)
    PROVE  TypeOK' /\ Jobs'
<1>1. PICK j, p, c : Admissible(j, p, c) /\ Begin(s, j, p, c)
  BY DEF Admitted
<1>2. c \in WalletRow
  BY <1>1 DEF Admissible, NoCopy, WalletRow, TypeOK
<1>3. TypeOK'
  BY <1>1, <1>2 DEF Admissible, TypeOK, Begin, JobRecord, PlanRecord, data, roles, locks
<1>4. Jobs'
  BY <1>1 DEF Admissible, TypeOK, Jobs, Begin
<1>. QED
  BY <1>3, <1>4

LEMMA FinishType ==
    ASSUME TypeOK, Jobs, NEW s \in Sessions, Finish(s)
    PROVE  /\ orderLock' \in [Orders -> Sessions \cup {NoOne}]
           /\ walletLock' \in [Users -> Sessions \cup {NoOne}]
           /\ pc' \in [Sessions -> {"idle", "begun", "locking", "ready"}]
           /\ job' \in [Sessions -> JobRecord]
           /\ plan' \in [Sessions -> PlanRecord]
           /\ copy' \in [Sessions -> WalletRow]
           /\ Jobs'
<1>1. NoJob \in JobRecord /\ Nothing \in PlanRecord /\ NoCopy \in WalletRow
  BY DEF NoJob, JobRecord, Nothing, PlanRecord, NoCopy, WalletRow
<1>2. WellFormed("idle", NoJob, Nothing)
  BY DEF WellFormed, NoJob, Nothing, WalletOps, StatusOps
<1>3. Jobs'
  BY <1>2 DEF Jobs, Finish, TypeOK
<1>. QED
  BY <1>1, <1>3 DEF Finish, TypeOK, JobRecord, PlanRecord

LEMMA RollbackType ==
    ASSUME TypeOK, Jobs, NEW s \in Sessions, Rollback(s)
    PROVE  TypeOK' /\ Jobs'
BY FinishType DEF Rollback, TypeOK, data, roles, JobRecord, PlanRecord

LEMMA MoveMoneyType ==
    ASSUME TypeOK, Jobs, NEW s \in Sessions, MoveMoney(s)
    PROVE  /\ wallet' \in [Users -> WalletRow]
           /\ journal' \in [Users -> [total : Int, held : Int]]
<1>1. CASE plan[s].kind = "none"
  BY <1>1 DEF MoveMoney, TypeOK
<1>2. CASE plan[s].kind # "none"
  <2>1. plan[s].kind \in Kinds /\ plan[s].user \in Users /\ plan[s].amount \in Nat
    BY <1>2 DEF TypeOK, Jobs, WellFormed
  <2>2. Moved(plan[s].kind, copy[s], plan[s].amount) \in WalletRow
    BY <2>1, MovedType DEF TypeOK
  <2>3. Written(plan[s].kind, wallet[plan[s].user],
                Moved(plan[s].kind, copy[s], plan[s].amount)) \in WalletRow
    BY <2>1, <2>2, WrittenType DEF TypeOK
  <2>4. Booked(plan[s].kind, journal[plan[s].user], plan[s].amount) \in [total : Int, held : Int]
    BY <2>1, BookedType DEF TypeOK
  <2>5. wallet' = [wallet EXCEPT ![plan[s].user] =
                     Written(plan[s].kind, wallet[plan[s].user],
                             Moved(plan[s].kind, copy[s], plan[s].amount))]
    BY <1>2 DEF MoveMoney
  <2>6. journal' = [journal EXCEPT ![plan[s].user] =
                      Booked(plan[s].kind, journal[plan[s].user], plan[s].amount)]
    BY <1>2 DEF MoveMoney
  <2>. QED
    BY <2>1, <2>3, <2>4, <2>5, <2>6 DEF TypeOK
<1>. QED
  BY <1>1, <1>2

----------------------------------------------------------------------------
(* The kinds of steps. *)

LEMMA ArriveCases ==
    ASSUME TypeOK, NEW s \in Sessions, Arrive(s)
    PROVE  Admitted(s)
<1>. USE ConstantsOK DEF ConstantsOK, Admitted, Admissible, JobRecord, PlanRecord, WellFormed,
                         Operations, WalletOps, StatusOps, Statuses, OpenStatuses, Kinds, Nothing
<1>1. ASSUME NEW o \in Orders, BeginCreate(s, o)
      PROVE  Admitted(s)
  <2>. DEFINE j == [op |-> "create", order |-> o, target |-> "created", actor |-> OwnerOf[o]]
              p == IF o \in TokenOrders
                   THEN [manager |-> NoOne, kind |-> "hold", user |-> OwnerOf[o],
                         amount |-> AmountOf[o]]
                   ELSE Nothing
  <2>1. PICK c \in Loaded(OwnerOf[o], o \in TokenOrders) : Begin(s, j, p, c)
    BY <1>1 DEF BeginCreate
  <2>2. Admissible(j, p, c)
    BY <1>1 DEF BeginCreate, Loaded
  <2>. QED
    BY <2>1, <2>2
<1>2. ASSUME NEW o \in Orders, NEW a \in Amounts, BeginTransfer(s, o, a)
      PROVE  Admitted(s)
  <2>. DEFINE j == [op |-> "transfer", order |-> o, target |-> "none", actor |-> OwnerOf[o]]
              p == [manager |-> NoOne, kind |-> "hold", user |-> OwnerOf[o], amount |-> a]
  <2>1. Admissible(j, p, wallet[OwnerOf[o]])
    OBVIOUS
  <2>. QED
    BY <1>2, <2>1 DEF BeginTransfer
<1>3. ASSUME NEW kind \in {"credit", "debit"}, NEW u \in Users, NEW a \in Amounts,
             BeginManual(s, kind, u, a)
      PROVE  Admitted(s)
  <2>. DEFINE j == [op |-> kind, order |-> NoOne, target |-> "none", actor |-> NoOne]
              p == [manager |-> NoOne, kind |-> kind, user |-> u, amount |-> a]
  <2>1. Admissible(j, p, NoCopy)
    OBVIOUS
  <2>. QED
    BY <1>3, <2>1 DEF BeginManual
<1>4. ASSUME NEW o \in Orders, NEW m \in Staff, BeginTake(s, o, m)
      PROVE  Admitted(s)
  <2>. DEFINE j == [op |-> "take", order |-> o, target |-> "processing", actor |-> m]
  <2>1. Admissible(j, Nothing, NoCopy)
    BY <1>4 DEF BeginTake
  <2>. QED
    BY <1>4, <2>1 DEF BeginTake
<1>5. ASSUME NEW o \in Orders, NEW status \in Statuses, NEW m \in Staff \cup {NoOne},
             BeginSet(s, o, status, m)
      PROVE  Admitted(s)
  <2>. DEFINE j == [op |-> "set", order |-> o, target |-> status, actor |-> m]
  <2>1. PICK c \in Loaded(m, m # NoOne /\ m = ReferrerOf[OwnerOf[o]]) : Begin(s, j, Nothing, c)
    BY <1>5 DEF BeginSet
  <2>2. Admissible(j, Nothing, c)
    BY <1>5 DEF BeginSet, Loaded
  <2>. QED
    BY <2>1, <2>2
<1>6. ASSUME NEW o \in Orders, BeginUserCancel(s, o)
      PROVE  Admitted(s)
  <2>. DEFINE j == [op |-> "usercancel", order |-> o, target |-> "cancelled",
                    actor |-> OwnerOf[o]]
  <2>1. Admissible(j, Nothing, NoCopy)
    OBVIOUS
  <2>. QED
    BY <1>6, <2>1 DEF BeginUserCancel
<1>. QED
  BY <1>1, <1>2, <1>3, <1>4, <1>5, <1>6 DEF Arrive

Commit(s) == CommitCreate(s) \/ CommitWalletOp(s) \/ CommitStatus(s)

\* What can happen: the case distinction of every proof below.
LEMMA StepCases ==
    ASSUME TypeOK, [Next]_vars
    PROVE  \/ \E s \in Sessions : \/ Admitted(s)
                                \/ Rollback(s)
                                \/ LimitPassed(s)
                                \/ OrderLocked(s)
                                \/ WalletLocked(s)
                                \/ Commit(s)
           \/ \E m \in Staff : SetRole(m)
           \/ UNCHANGED vars
<1>1. ASSUME NEW s \in Sessions, CheckLimit(s)
      PROVE  Rollback(s) \/ LimitPassed(s)
  BY <1>1 DEF CheckLimit, LimitPassed
<1>2. ASSUME NEW s \in Sessions, LockOrder(s)
      PROVE  Rollback(s) \/ OrderLocked(s)
  BY <1>2 DEF LockOrder, OrderLocked, OrderFree
<1>3. ASSUME NEW s \in Sessions, LockWallet(s)
      PROVE  Rollback(s) \/ WalletLocked(s)
  BY <1>3 DEF LockWallet, WalletLocked, WalletFree
<1>4. ASSUME NEW s \in Sessions, Step(s)
      PROVE  \/ Rollback(s) \/ LimitPassed(s) \/ OrderLocked(s) \/ WalletLocked(s) \/ Commit(s)
  BY <1>1, <1>2, <1>3, <1>4 DEF Step, Commit
<1>5. ASSUME NEW s \in Sessions, Abort(s)
      PROVE  Rollback(s)
  BY <1>5 DEF Abort
<1>. QED
  BY <1>4, <1>5, ArriveCases DEF Next

LEMMA TypeStep ==
    ASSUME TypeOK, Jobs, [Next]_vars
    PROVE  TypeOK' /\ Jobs'
<1>1. ASSUME NEW s \in Sessions, Admitted(s)
      PROVE  TypeOK' /\ Jobs'
  BY <1>1, AdmittedType
<1>2. ASSUME NEW s \in Sessions, Rollback(s)
      PROVE  TypeOK' /\ Jobs'
  BY <1>2, RollbackType
<1>3. ASSUME NEW s \in Sessions, LimitPassed(s)
      PROVE  TypeOK' /\ Jobs'
  <2>1. TypeOK'
    BY <1>3 DEF LimitPassed, Proceed, TypeOK, data, roles, locks
  <2>2. Jobs'
    BY <1>3 DEF LimitPassed, Proceed, TypeOK, Jobs, WellFormed, WalletOps, StatusOps
  <2>. QED
    BY <2>1, <2>2
<1>4. ASSUME NEW s \in Sessions, OrderLocked(s)
      PROVE  TypeOK' /\ Jobs'
  <2>1. /\ job[s] \in JobRecord
        /\ job[s].op \in StatusOps
        /\ job[s].order \in Orders
        /\ job[s].target \in Statuses
        /\ job[s].op \in {"take", "set"} => job[s].actor \in Staff \cup {NoOne}
    BY <1>4 DEF OrderLocked, TypeOK, JobRecord, Jobs, WellFormed
  <2>2. /\ Settlement(job[s]) \in PlanRecord
        /\ Settlement(job[s]).kind # "none" => Settlement(job[s]).user \in Users
    BY <2>1, SettlementType
  <2>3. copy' \in [Sessions -> WalletRow]
    <3>1. PICK c \in LookedUp(s) : copy' = [copy EXCEPT ![s] = c]
      BY <1>4 DEF OrderLocked
    <3>2. c \in WalletRow
      BY <2>1, <3>1, LookedUpRows DEF TypeOK, NoCopy, WalletRow
    <3>. QED
      BY <3>1, <3>2 DEF TypeOK
  <2>4. TypeOK'
    BY <1>4, <2>1, <2>2, <2>3 DEF OrderLocked, Proceed, TypeOK, PlanRecord, data, roles
  <2>5. Jobs'
    BY <1>4, <2>1, <2>2 DEF OrderLocked, Proceed, TypeOK, Jobs, WellFormed, StatusOps, WalletOps
  <2>. QED
    BY <2>4, <2>5
<1>5. ASSUME NEW s \in Sessions, WalletLocked(s)
      PROVE  TypeOK' /\ Jobs'
  <2>1. plan[s].user \in Users
    BY <1>5 DEF WalletLocked, Jobs, WellFormed
  <2>2. InMemory(s) \in WalletRow
    BY <2>1 DEF InMemory, TypeOK
  <2>3. TypeOK'
    BY <1>5, <2>1, <2>2 DEF WalletLocked, TypeOK, data, roles
  <2>4. Jobs'
    BY <1>5 DEF WalletLocked, TypeOK, Jobs, WellFormed
  <2>. QED
    BY <2>3, <2>4
<1>6. ASSUME NEW s \in Sessions, CommitCreate(s)
      PROVE  TypeOK' /\ Jobs'
  <2>1. job[s].order \in Orders
    BY <1>6 DEF CommitCreate, Jobs, WellFormed
  <2>2. order' \in [Orders -> [status : Statuses \cup {"absent"}, manager : Staff \cup {NoOne}]]
    BY <1>6, <2>1 DEF CommitCreate, TypeOK, Statuses, OpenStatuses
  <2>3. entries' \in [Orders -> SUBSET {"hold", "debit", "release", "referral"}]
    BY <1>6, <2>1 DEF CommitCreate, TypeOK, Reference
  <2>4. Finish(s) /\ MoveMoney(s) /\ UNCHANGED <<tasks, roles, stale>>
    BY <1>6 DEF CommitCreate
  <2>. QED
    BY <2>2, <2>3, <2>4, FinishType, MoveMoneyType DEF TypeOK, JobRecord, PlanRecord, roles
<1>7. ASSUME NEW s \in Sessions, CommitWalletOp(s)
      PROVE  TypeOK' /\ Jobs'
  BY <1>7, FinishType, MoveMoneyType DEF CommitWalletOp, TypeOK, JobRecord, PlanRecord, roles
<1>8. ASSUME NEW s \in Sessions, CommitStatus(s)
      PROVE  TypeOK' /\ Jobs'
  <2>1. job[s].order \in Orders /\ job[s].target \in Statuses
    BY <1>8 DEF CommitStatus, Jobs, WellFormed
  <2>2. order' \in [Orders -> [status : Statuses \cup {"absent"}, manager : Staff \cup {NoOne}]]
    BY <1>8, <2>1 DEF CommitStatus, TypeOK
  <2>3. entries' \in [Orders -> SUBSET {"hold", "debit", "release", "referral"}]
    BY <1>8, <2>1 DEF CommitStatus, TypeOK, Reference
  <2>4. tasks' \subseteq Orders \X Statuses
    BY <1>8, <2>1 DEF CommitStatus, TypeOK, Announced
  <2>5. Finish(s) /\ MoveMoney(s) /\ UNCHANGED <<roles, stale>>
    BY <1>8 DEF CommitStatus
  <2>. QED
    BY <2>2, <2>3, <2>4, <2>5, FinishType, MoveMoneyType DEF TypeOK, JobRecord, PlanRecord, roles
<1>9. ASSUME NEW m \in Staff, SetRole(m)
      PROVE  TypeOK' /\ Jobs'
  BY <1>9 DEF SetRole, TypeOK, Jobs, data, locks, request
<1>10. ASSUME UNCHANGED vars
      PROVE  TypeOK' /\ Jobs'
  BY <1>10 DEF vars, TypeOK, Jobs, data, roles, locks, request
<1>. QED
  BY <1>1, <1>2, <1>3, <1>4, <1>5, <1>6, <1>7, <1>8, <1>9, <1>10, StepCases DEF Commit

LEMMA TypeInit == Init => TypeOK /\ Jobs
<1>. SUFFICES ASSUME Init PROVE TypeOK /\ Jobs
  OBVIOUS
<1>1. TypeOK
  BY ConstantsOK DEF Init, TypeOK, ConstantsOK, NoJob, Nothing, NoCopy, WalletRow
<1>2. Jobs
  BY DEF Init, Jobs, WellFormed, NoJob, Nothing, WalletOps, StatusOps
<1>. QED
  BY <1>1, <1>2

\* Rows, row locks, requests and the objects of a session stay in range: a status
\* change is never decided for an order or a wallet that is not there.
THEOREM TypeCorrect == Spec => []TypeOK
<1>1. TypeOK /\ Jobs /\ [Next]_vars => (TypeOK /\ Jobs)'
  BY TypeStep
<1>. QED
  BY <1>1, TypeInit, PTL DEF Spec

----------------------------------------------------------------------------
(* The inductive invariant.                                                 *)

Writing(s) == pc[s] \in {"locking", "ready"}
Moves(s) == plan[s].kind # "none"
Staffed == operators \cup revoked \cup {NoOne}

\* Who an order is assigned to, and who asks for a status, had the role once.
Managers ==
    /\ \A o \in Orders : order[o].manager \in IF Exists(o) THEN Staffed ELSE {NoOne}
    /\ \A s \in Sessions : job[s].op \in {"take", "set"} => job[s].actor \in Staffed

\* Orders being created do not exist yet, and each has one session.
Creations ==
    \A s \in Sessions : job[s].op = "create" =>
        /\ ~Exists(job[s].order)
        /\ plan[s].kind = IF job[s].order \in TokenOrders THEN "hold" ELSE "none"
        /\ \A t \in Sessions \ {s} : job[t].op = "create" => job[t].order # job[s].order

\* The money movements a status change may come with.
MoneyOf(o, status, target) ==
    IF status = target THEN {"none"}
    ELSE CASE target = "completed" -> IF o \in TokenOrders THEN {"debit_reserved"}
                                                           ELSE {"none", "credit"}
           [] target = "cancelled" -> IF o \in TokenOrders THEN {"release"} ELSE {"none"}
           [] OTHER                -> {"none"}

\* What a session decided under the lock of the order still fits the order.
Decided(s, o, current) ==
    /\ orderLock[o] = s
    /\ job[s].target \in {current.status} \cup Successors(current.status)
    /\ job[s].op = "usercancel" => current.status = "created"
    /\ plan[s].kind \in MoneyOf(o, current.status, job[s].target)
    /\ plan[s].manager \in Staffed
    /\ current.manager \in {plan[s].manager, NoOne} \cup revoked

Decisions ==
    \A s \in Sessions :
        Writing(s) /\ job[s].op \in StatusOps => Decided(s, job[s].order, order[job[s].order])

\* What a session has in memory of a wallet it locked is what the wallet holds,
\* stale copies aside, and the balances cover what it is about to take.
MoneyMoves ==
    \A s \in Sessions :
        /\ copy[s] = NoCopy \/ (copy[s].available >= 0 /\ copy[s].reserved >= 0)
        /\ pc[s] = "ready" /\ Moves(s) =>
             /\ walletLock[plan[s].user] = s
             /\ copy[s] # NoCopy
             /\ Covered(plan[s].kind, copy[s], plan[s].amount)
             /\ plan[s].user \notin stale => copy[s] = wallet[plan[s].user]

Outbox ==
    /\ OutboxFollowsStatus
    /\ \A o \in Orders : <<o, "created">> \notin tasks

OrderInv == Managers /\ Creations /\ Decisions /\ Outbox /\ SettledWithStatus
MoneyInv == MoneyMoves /\ NeverNegative /\ BooksBalance

IInv == TypeOK /\ Jobs /\ OrderInv /\ MoneyInv

LEMMA InitInv == Init => IInv
<1>. SUFFICES ASSUME Init PROVE IInv
  OBVIOUS
<1>1. TypeOK /\ Jobs
  BY TypeInit
<1>2. OrderInv
  <2>1. Managers /\ Creations /\ Decisions
    BY DEF Init, Managers, Creations, Decisions, Writing, Exists, NoJob
  <2>2. Outbox
    BY DEF Init, Outbox, OutboxFollowsStatus
  <2>3. \A o \in Orders : entries[o] = {} /\ order[o].status = "absent"
    BY DEF Init
  <2>4. SettledWithStatus
    BY <2>3 DEF SettledWithStatus, EntriesIn, OpenStatuses
  <2>. QED
    BY <2>1, <2>2, <2>4 DEF OrderInv
<1>3. MoneyInv
  BY ConstantsOK DEF Init, MoneyInv, MoneyMoves, NeverNegative, BooksBalance, ConstantsOK
<1>. QED
  BY <1>1, <1>2, <1>3 DEF IInv

----------------------------------------------------------------------------
(* Orders. *)

LEMMA OrderInvAdmitted ==
    ASSUME IInv, TypeOK', Jobs', NEW s \in Sessions, Admitted(s)
    PROVE  OrderInv'
<1>. USE DEF IInv, OrderInv
<1>1. PICK j, p, c : Admissible(j, p, c) /\ Begin(s, j, p, c)
  BY DEF Admitted
<1>2. /\ UNCHANGED <<order, entries, tasks, operators, revoked, orderLock>>
      /\ pc' = [pc EXCEPT ![s] = IF j.op \in WalletOps THEN "locking" ELSE "begun"]
      /\ job' = [job EXCEPT ![s] = j]
      /\ plan' = [plan EXCEPT ![s] = p]
  BY <1>1 DEF Begin, data, roles, locks
<1>3. Managers'
  BY <1>1, <1>2 DEF Managers, Admissible, Staffed, Exists, TypeOK
<1>4. Creations'
  BY <1>1, <1>2 DEF Creations, Admissible, Exists, TypeOK
<1>5. Decisions'
  BY <1>1, <1>2 DEF Decisions, Decided, Writing, Staffed, Admissible, WalletOps, StatusOps, TypeOK
<1>6. Outbox' /\ SettledWithStatus'
  BY <1>2 DEF Outbox, OutboxFollowsStatus, SettledWithStatus
<1>. QED
  BY <1>3, <1>4, <1>5, <1>6

LEMMA OrderInvRollback ==
    ASSUME IInv, TypeOK', Jobs', NEW s \in Sessions, Rollback(s)
    PROVE  OrderInv'
<1>. USE DEF IInv, OrderInv
<1>1. /\ UNCHANGED <<order, entries, tasks, operators, revoked>>
      /\ orderLock' = [o \in Orders |-> IF orderLock[o] = s THEN NoOne ELSE orderLock[o]]
      /\ pc' = [pc EXCEPT ![s] = "idle"]
      /\ job' = [job EXCEPT ![s] = NoJob]
      /\ plan' = [plan EXCEPT ![s] = Nothing]
  BY DEF Rollback, Finish, data, roles
<1>2. Managers'
  BY <1>1 DEF Managers, Staffed, Exists, TypeOK, NoJob
<1>3. Creations'
  BY <1>1 DEF Creations, Exists, TypeOK, NoJob
<1>4. Decisions'
  BY <1>1 DEF Decisions, Decided, Writing, Staffed, Jobs, WellFormed, TypeOK, NoJob, StatusOps
<1>5. Outbox' /\ SettledWithStatus'
  BY <1>1 DEF Outbox, OutboxFollowsStatus, SettledWithStatus
<1>. QED
  BY <1>2, <1>3, <1>4, <1>5

\* What is decided under the lock of an order.
LEMMA Decision ==
    ASSUME IInv, NEW s \in Sessions, OrderLocked(s)
    PROVE  LET o == job[s].order IN
           /\ Settlement(job[s]).kind \in MoneyOf(o, order[o].status, job[s].target)
           /\ Settlement(job[s]).manager \in Staffed
           /\ order[o].manager \in {Settlement(job[s]).manager, NoOne} \cup revoked
<1>. DEFINE o == job[s].order
<1>. USE DEF IInv, OrderInv
<1>1. /\ job[s].op \in StatusOps
      /\ o \in Orders
      /\ job[s].target \in Statuses
      /\ Allowed(job[s])
      /\ order[o].status \in Statuses \cup {"absent"}
  BY DEF OrderLocked, Jobs, WellFormed, TypeOK
<1>2. job[s].target \in {order[o].status} \cup Successors(order[o].status)
  BY <1>1 DEF Allowed
<1>3. order[o].status # "absent"
  BY <1>1, <1>2 DEF Successors, Statuses, OpenStatuses
<1>4. Settlement(job[s]).kind \in MoneyOf(o, order[o].status, job[s].target)
  <2>1. CASE job[s].target = order[o].status
    BY <2>1 DEF Settlement, EarnsBonus, MoneyOf, Nothing
  <2>2. CASE job[s].target # order[o].status
    <3>1. order[o].status \in OpenStatuses
      BY <1>1, <1>2, <1>3, <2>2 DEF Successors, Statuses, OpenStatuses
    <3>2. entries[o] = IF o \in TokenOrders THEN {"hold"} ELSE {}
      BY <1>1, <3>1 DEF SettledWithStatus, EntriesIn, OpenStatuses
    <3>3. "debit" \notin entries[o] /\ "release" \notin entries[o]
      BY <3>2
    <3>4. CASE job[s].target = "completed"
      BY <2>2, <3>3, <3>4 DEF Settlement, EarnsBonus, MoneyOf, Nothing
    <3>5. CASE job[s].target = "cancelled"
      BY <2>2, <3>3, <3>5 DEF Settlement, EarnsBonus, MoneyOf, Nothing
    <3>6. CASE job[s].target \notin {"completed", "cancelled"}
      BY <2>2, <3>6 DEF Settlement, EarnsBonus, MoneyOf, Nothing
    <3>. QED
      BY <3>4, <3>5, <3>6
  <2>. QED
    BY <2>1, <2>2
<1>5. Settlement(job[s]).manager = AssignedManager(job[s])
  BY DEF Settlement, Nothing
<1>6. ManagerId(job[s]) \in Staffed
  BY <1>1 DEF ManagerId, Managers, StatusOps, Staffed
<1>7. order[o].manager \in Staffed
  BY <1>1, <1>3 DEF Managers, Exists
<1>8. AssignedManager(job[s]) \in Staffed
  BY <1>6, <1>7 DEF AssignedManager
<1>9. order[o].manager \in {AssignedManager(job[s]), NoOne} \cup revoked
  BY <1>7 DEF AssignedManager, CanReassign, Staffed
<1>. QED
  BY <1>4, <1>5, <1>8, <1>9

LEMMA OrderInvLocked ==
    ASSUME IInv, TypeOK', Jobs', NEW s \in Sessions, OrderLocked(s)
    PROVE  OrderInv'
<1>. DEFINE o == job[s].order
<1>. USE DEF IInv, OrderInv
<1>1. /\ UNCHANGED <<order, entries, tasks, operators, revoked, job>>
      /\ orderLock' = [orderLock EXCEPT ![o] = s]
      /\ plan' = [plan EXCEPT ![s] = Settlement(job[s])]
      /\ orderLock[o] = NoOne
      /\ Allowed(job[s])
      /\ job[s].op \in StatusOps
      /\ Proceed(s, Settlement(job[s]))
  BY DEF OrderLocked, data, roles
<1>2. o \in Orders
  BY <1>1 DEF Jobs, WellFormed
<1>3. Managers'
  BY <1>1 DEF Managers, Staffed, Exists
<1>4. Creations'
  BY <1>1 DEF Creations, Exists, TypeOK, StatusOps
<1>5. Decided(s, o, order[o])'
  BY <1>1, <1>2, Decision DEF Decided, Allowed, Staffed, TypeOK
<1>6. ASSUME NEW t \in Sessions \ {s}, Writing(t)', job[t].op \in StatusOps
      PROVE  Decided(t, job[t].order, order[job[t].order])'
  <2>1. Decided(t, job[t].order, order[job[t].order])
    BY <1>1, <1>6 DEF Decisions, Writing, Proceed, TypeOK
  <2>2. job[t].order \in Orders /\ job[t].order # o
    BY <1>1, <1>6, <2>1, ConstantsOK DEF Decided, Jobs, WellFormed, ConstantsOK
  <2>. QED
    BY <1>1, <2>1, <2>2 DEF Decided, Staffed, TypeOK
<1>7. Decisions'
  BY <1>1, <1>5, <1>6 DEF Decisions
<1>8. Outbox' /\ SettledWithStatus'
  BY <1>1 DEF Outbox, OutboxFollowsStatus, SettledWithStatus
<1>. QED
  BY <1>3, <1>4, <1>7, <1>8

\* A committed order is nobody else's: the other sessions' decisions stand.
LEMMA OthersDecided ==
    ASSUME IInv, NEW s \in Sessions, NEW o \in Orders, Finish(s), UNCHANGED roles,
           orderLock[o] = s \/ ~Exists(o),
           NEW new, order' = [order EXCEPT ![o] = new]
    PROVE  Decisions'
<1>. USE DEF IInv, OrderInv
<1>1. SUFFICES ASSUME NEW t \in Sessions, Writing(t)', job'[t].op \in StatusOps
               PROVE  Decided(t, job[t].order, order[job[t].order])'
  BY DEF Decisions
<1>2. /\ t # s
      /\ job'[t] = job[t]
      /\ pc'[t] = pc[t]
      /\ plan'[t] = plan[t]
  BY <1>1 DEF Finish, TypeOK, Writing
<1>3. job[t].order \in Orders /\ job[t].target \in Statuses
  BY <1>1, <1>2 DEF Jobs, WellFormed
<1>4. Decided(t, job[t].order, order[job[t].order])
  BY <1>1, <1>2 DEF Decisions, Writing
<1>5. job[t].order # o
  BY <1>2, <1>3, <1>4 DEF Decided, Exists, Successors, Statuses, OpenStatuses
<1>6. /\ order'[job[t].order] = order[job[t].order]
      /\ orderLock'[job[t].order] = t
  BY <1>2, <1>3, <1>4, <1>5 DEF Decided, Finish, TypeOK
<1>. QED
  BY <1>2, <1>4, <1>6 DEF Decided, Staffed, roles

LEMMA OrderInvCommitCreate ==
    ASSUME IInv, TypeOK', Jobs', NEW s \in Sessions, CommitCreate(s)
    PROVE  OrderInv'
<1>. DEFINE o == job[s].order
            new == [status |-> "created", manager |-> NoOne]
<1>. USE DEF IInv, OrderInv
<1>1. /\ o \in Orders
      /\ job[s].op = "create"
      /\ Finish(s)
      /\ order' = [order EXCEPT ![o] = new]
      /\ entries' = [entries EXCEPT ![o] = @ \cup Reference(job[s], plan[s].kind)]
      /\ UNCHANGED <<tasks, operators, revoked>>
  BY DEF CommitCreate, Jobs, WellFormed, roles
<1>2. ~Exists(o)
  BY <1>1 DEF Creations
<1>3. Managers'
  BY <1>1 DEF Managers, Finish, NoJob, Exists, Staffed, TypeOK
<1>4. Creations'
  BY <1>1 DEF Creations, Finish, NoJob, Exists, TypeOK
<1>5. Decisions'
  BY <1>1, <1>2, OthersDecided DEF roles
<1>6. Outbox'
  <2>1. \A status \in Statuses : <<o, status>> \notin tasks
    BY <1>1, <1>2 DEF Outbox, OutboxFollowsStatus, Exists, Successors, Statuses, OpenStatuses
  <2>2. order'[o].status = "created"
    BY <1>1 DEF TypeOK
  <2>3. \A p \in Orders : p # o => order'[p] = order[p]
    BY <1>1 DEF TypeOK
  <2>. QED
    BY <1>1, <2>1, <2>2, <2>3 DEF Outbox, OutboxFollowsStatus
<1>7. entries[o] = {}
  <2>1. entries[o] \in EntriesIn(o, "absent")
    BY <1>1, <1>2 DEF SettledWithStatus, Exists
  <2>. QED
    BY <2>1 DEF EntriesIn, OpenStatuses
<1>8. entries'[o] = IF o \in TokenOrders THEN {"hold"} ELSE {}
  BY <1>1, <1>7 DEF Creations, Reference, StatusOps, TypeOK
<1>9. SettledWithStatus'
  <2>1. entries'[o] \in EntriesIn(o, "created")
    BY <1>8 DEF EntriesIn, OpenStatuses
  <2>2. order'[o].status = "created"
    BY <1>1 DEF TypeOK
  <2>3. \A p \in Orders : p # o => entries'[p] = entries[p] /\ order'[p] = order[p]
    BY <1>1 DEF TypeOK
  <2>. QED
    BY <2>1, <2>2, <2>3 DEF SettledWithStatus
<1>. QED
  BY <1>3, <1>4, <1>5, <1>6, <1>9

LEMMA OrderInvCommitWalletOp ==
    ASSUME IInv, TypeOK', Jobs', NEW s \in Sessions, CommitWalletOp(s)
    PROVE  OrderInv'
<1>. USE DEF IInv, OrderInv
<1>1. Finish(s) /\ UNCHANGED <<order, entries, tasks, operators, revoked>>
  BY DEF CommitWalletOp, roles
<1>2. Managers'
  BY <1>1 DEF Managers, Finish, Staffed, Exists, TypeOK, NoJob
<1>3. Creations'
  BY <1>1 DEF Creations, Finish, Exists, TypeOK, NoJob
<1>4. Decisions'
  BY <1>1 DEF Decisions, Decided, Finish, Writing, Staffed, Jobs, WellFormed, TypeOK, NoJob, StatusOps
<1>5. Outbox' /\ SettledWithStatus'
  BY <1>1 DEF Outbox, OutboxFollowsStatus, SettledWithStatus
<1>. QED
  BY <1>2, <1>3, <1>4, <1>5

LEMMA OrderInvCommitStatus ==
    ASSUME IInv, TypeOK', Jobs', NEW s \in Sessions, CommitStatus(s)
    PROVE  OrderInv'
<1>. DEFINE o == job[s].order
            before == order[o].status
            target == job[s].target
            new == [status |-> target, manager |-> plan[s].manager]
<1>. USE DEF IInv, OrderInv
<1>1. /\ o \in Orders
      /\ target \in Statuses
      /\ job[s].op \in StatusOps
      /\ Finish(s)
      /\ order' = [order EXCEPT ![o] = new]
      /\ entries' = [entries EXCEPT ![o] = @ \cup Reference(job[s], plan[s].kind)]
      /\ tasks' = tasks \cup Announced(job[s])
      /\ UNCHANGED <<operators, revoked>>
  BY DEF CommitStatus, Jobs, WellFormed, roles
<1>2. Decided(s, o, order[o])
  BY <1>1 DEF CommitStatus, Decisions, Writing
<1>3. before \in Statuses
  BY <1>1, <1>2 DEF Decided, TypeOK, Successors, Statuses, OpenStatuses
<1>4. Managers'
  BY <1>1, <1>2 DEF Decided, Managers, Finish, NoJob, Exists, Staffed, TypeOK, Statuses, OpenStatuses
<1>5. Creations'
  BY <1>1, <1>3 DEF Creations, Finish, NoJob, Exists, TypeOK, Statuses, OpenStatuses
<1>6. Decisions'
  BY <1>1, <1>2, OthersDecided DEF roles, Decided
<1>7. Outbox'
  <2>1. CASE target = before
    BY <1>1, <2>1 DEF Outbox, OutboxFollowsStatus, Announced, TypeOK
  <2>2. CASE target # before
    <3>1. target \in Successors(before) /\ before \in OpenStatuses
      BY <1>2, <1>3, <2>2 DEF Decided, Successors, Statuses, OpenStatuses
    <3>2. tasks' = IF job[s].op = "take" THEN tasks ELSE tasks \cup {<<o, target>>}
      BY <1>1, <2>2 DEF Announced
    <3>3. job[s].op = "take" => target = "processing"
      BY DEF Jobs, WellFormed
    <3>4. \A status \in Statuses : <<o, status>> \in tasks =>
             status = "processing" /\ before = "processing"
      BY <1>1, <1>3, <3>1 DEF Outbox, OutboxFollowsStatus, Successors, Statuses, OpenStatuses
    <3>5. \A p \in Orders : p # o => order'[p] = order[p]
      BY <1>1 DEF TypeOK
    <3>6. order'[o].status = target
      BY <1>1 DEF TypeOK
    <3>7. target # "created"
      BY <3>1 DEF Successors, OpenStatuses
    <3>8. ASSUME NEW p \in Orders
          PROVE  /\ order'[p].status \in {"completed", "cancelled"} =>
                       <<p, order'[p].status>> \in tasks'
                 /\ \A status \in Statuses : <<p, status>> \in tasks' =>
                       order'[p].status \in {status} \cup Successors(status)
                 /\ <<p, "created">> \notin tasks'
      <4>1. CASE p = o
        BY <3>1, <3>2, <3>3, <3>4, <3>6, <3>7, <4>1 DEF Outbox, Successors, Statuses, OpenStatuses
      <4>2. CASE p # o
        BY <3>2, <3>5, <4>2 DEF Outbox, OutboxFollowsStatus
      <4>. QED
        BY <4>1, <4>2
    <3>. QED
      BY <3>8 DEF Outbox, OutboxFollowsStatus
  <2>. QED
    BY <2>1, <2>2
<1>8. SettledWithStatus'
  <2>1. CASE target = before
    <3>1. entries' = entries
      BY <1>1, <1>2, <2>1 DEF Decided, MoneyOf, Reference, TypeOK
    <3>. QED
      BY <1>1, <2>1, <3>1 DEF SettledWithStatus, TypeOK, Statuses, OpenStatuses
  <2>2. CASE target # before
    <3>1. target \in Successors(before) /\ before \in OpenStatuses
      BY <1>2, <1>3, <2>2 DEF Decided, Successors, Statuses, OpenStatuses
    <3>2. entries[o] = IF o \in TokenOrders THEN {"hold"} ELSE {}
      BY <1>1, <3>1 DEF SettledWithStatus, EntriesIn, OpenStatuses
    <3>3. plan[s].kind \in MoneyOf(o, before, target)
      BY <1>2 DEF Decided
    <3>4. target \in {"processing", "completed", "cancelled"}
      BY <3>1 DEF Successors, OpenStatuses
    <3>5. entries'[o] = entries[o] \cup Reference(job[s], plan[s].kind)
      BY <1>1 DEF TypeOK
    <3>6. entries'[o] \in EntriesIn(o, target)
      <4>1. CASE target = "completed"
        BY <1>1, <2>2, <3>2, <3>3, <3>5, <4>1 DEF EntriesIn, MoneyOf, Reference, StatusOps,
                                                  OpenStatuses
      <4>2. CASE target = "cancelled"
        BY <1>1, <2>2, <3>2, <3>3, <3>5, <4>2 DEF EntriesIn, MoneyOf, Reference, StatusOps,
                                                  OpenStatuses
      <4>3. CASE target = "processing"
        BY <1>1, <2>2, <3>2, <3>3, <3>5, <4>3 DEF EntriesIn, MoneyOf, Reference, StatusOps,
                                                  OpenStatuses
      <4>. QED
        BY <3>4, <4>1, <4>2, <4>3
    <3>7. order'[o].status = target
      BY <1>1 DEF TypeOK
    <3>8. \A p \in Orders : p # o => entries'[p] = entries[p] /\ order'[p] = order[p]
      BY <1>1 DEF TypeOK
    <3>. QED
      BY <3>6, <3>7, <3>8 DEF SettledWithStatus
  <2>. QED
    BY <2>1, <2>2
<1>. QED
  BY <1>4, <1>5, <1>6, <1>7, <1>8

\* Steps that touch neither an order nor who decides about it.
LEMMA OrderInvElsewhere ==
    ASSUME IInv, UNCHANGED <<order, entries, tasks, orderLock, job, plan>>,
           UNCHANGED roles \/ \E m \in Staff : SetRole(m),
           \A s \in Sessions : Writing(s)' => Writing(s) \/ job[s].op = "create"
    PROVE  OrderInv'
<1>. USE DEF IInv, OrderInv
<1>1. revoked \subseteq revoked' /\ Staffed \subseteq Staffed'
  BY DEF SetRole, roles, Staffed
<1>2. Managers'
  BY <1>1 DEF Managers, Exists
<1>3. Creations'
  BY DEF Creations, Exists
<1>4. Decisions'
  BY <1>1 DEF Decisions, Decided, StatusOps
<1>5. Outbox' /\ SettledWithStatus'
  BY DEF Outbox, OutboxFollowsStatus, SettledWithStatus
<1>. QED
  BY <1>2, <1>3, <1>4, <1>5

LEMMA OrderInvStep ==
    ASSUME IInv, TypeOK', Jobs', [Next]_vars
    PROVE  OrderInv'
<1>1. ASSUME NEW s \in Sessions, LimitPassed(s)
      PROVE  OrderInv'
  BY <1>1, OrderInvElsewhere DEF IInv, LimitPassed, Proceed, Writing, TypeOK, data, roles, locks
<1>2. ASSUME NEW s \in Sessions, WalletLocked(s)
      PROVE  OrderInv'
  BY <1>2, OrderInvElsewhere DEF IInv, WalletLocked, Writing, TypeOK, data, roles
<1>3. ASSUME NEW m \in Staff, SetRole(m)
      PROVE  OrderInv'
  BY <1>3, OrderInvElsewhere DEF SetRole, Writing, data, locks, request
<1>4. ASSUME UNCHANGED vars
      PROVE  OrderInv'
  BY <1>4, OrderInvElsewhere DEF vars, Writing, data, roles, locks, request
<1>. QED
  BY <1>1, <1>2, <1>3, <1>4, StepCases, OrderInvAdmitted, OrderInvRollback, OrderInvLocked,
     OrderInvCommitCreate, OrderInvCommitWalletOp, OrderInvCommitStatus DEF Commit, IInv

----------------------------------------------------------------------------
(* Money. *)

Balanced(w, sums) == w.reserved = sums.held /\ w.available = sums.total - sums.held
NotNegative(w) == w.available >= 0 /\ w.reserved >= 0

\* A movement covered by the balances it is computed from leaves none negative,
\* and keeps the books when these balances are those of the row.
LEMMA MovementSound ==
    ASSUME NEW kind \in Kinds, NEW amount \in Nat, NEW row \in WalletRow, NEW c \in WalletRow,
           NEW sums \in [total : Int, held : Int],
           NotNegative(row), NotNegative(c), Covered(kind, c, amount)
    PROVE  /\ NotNegative(Written(kind, row, Moved(kind, c, amount)))
           /\ c = row /\ Balanced(row, sums) =>
                Balanced(Written(kind, row, Moved(kind, c, amount)), Booked(kind, sums, amount))
BY DEF Kinds, WalletRow, NotNegative, Balanced, Covered, Moved, Written, Booked

\* Only the session that has locked a wallet writes it.
LEMMA MoneyInvCommit ==
    ASSUME IInv, NEW s \in Sessions, pc[s] = "ready", MoveMoney(s), Finish(s), UNCHANGED stale
    PROVE  MoneyInv'
<1>. DEFINE p == plan[s]
            u == plan[s].user
            after == Written(p.kind, wallet[u], Moved(p.kind, copy[s], p.amount))
<1>. USE DEF IInv, MoneyInv
<1>1. CASE p.kind = "none"
  <2>1. UNCHANGED <<wallet, journal, stale>>
    BY <1>1 DEF MoveMoney
  <2>2. MoneyMoves'
    <3>1. \A t \in Sessions \ {s} : /\ copy'[t] = copy[t]
                                   /\ pc'[t] = pc[t]
                                   /\ plan'[t] = plan[t]
      BY DEF Finish, TypeOK
    <3>2. pc'[s] = "idle" /\ copy'[s] = NoCopy
      BY DEF Finish, TypeOK
    <3>3. \A t \in Sessions \ {s} : pc[t] = "ready" /\ Moves(t) =>
             walletLock'[plan[t].user] = t
      BY DEF MoneyMoves, Moves, Finish, Jobs, WellFormed
    <3>. QED
      BY <2>1, <3>1, <3>2, <3>3 DEF MoneyMoves, Moves
  <2>. QED
    BY <2>1, <2>2 DEF NeverNegative, BooksBalance
<1>2. CASE p.kind # "none"
  <2>1. /\ p.kind \in Kinds
        /\ p.amount \in Nat
        /\ u \in Users
        /\ wallet[u] \in WalletRow
        /\ copy[s] \in WalletRow
        /\ journal[u] \in [total : Int, held : Int]
    BY <1>2 DEF TypeOK, Jobs, WellFormed
  <2>2. /\ walletLock[u] = s
        /\ NotNegative(copy[s])
        /\ Covered(p.kind, copy[s], p.amount)
        /\ u \notin stale => copy[s] = wallet[u]
    BY <1>2 DEF MoneyMoves, Moves, NotNegative
  <2>3. NotNegative(wallet[u])
    BY <2>1 DEF NeverNegative, NotNegative
  <2>4. /\ wallet' = [wallet EXCEPT ![u] = after]
        /\ journal' = [journal EXCEPT ![u] = Booked(p.kind, journal[u], p.amount)]
    BY <1>2 DEF MoveMoney
  <2>5. /\ wallet'[u] = after
        /\ journal'[u] = Booked(p.kind, journal[u], p.amount)
        /\ \A v \in Users \ {u} : wallet'[v] = wallet[v] /\ journal'[v] = journal[v]
    BY <2>1, <2>4 DEF TypeOK
  <2>6. NeverNegative'
    BY <2>1, <2>2, <2>3, <2>5, MovementSound DEF NeverNegative, NotNegative
  <2>7. BooksBalance'
    BY <2>1, <2>2, <2>3, <2>5, MovementSound DEF BooksBalance, Balanced
  <2>8. MoneyMoves'
    <3>1. SUFFICES ASSUME NEW t \in Sessions
                   PROVE  /\ copy'[t] = NoCopy \/ (copy'[t].available >= 0 /\ copy'[t].reserved >= 0)
                          /\ pc'[t] = "ready" /\ Moves(t)' =>
                               /\ walletLock'[plan'[t].user] = t
                               /\ copy'[t] # NoCopy
                               /\ Covered(plan'[t].kind, copy'[t], plan'[t].amount)
                               /\ plan'[t].user \notin stale' => copy'[t] = wallet'[plan'[t].user]
      BY DEF MoneyMoves
    <3>2. CASE t = s
      BY <3>2 DEF Finish, TypeOK, Moves, Nothing
    <3>3. CASE t # s
      <4>1. /\ copy'[t] = copy[t]
            /\ pc'[t] = pc[t]
            /\ plan'[t] = plan[t]
        BY <3>3 DEF Finish, TypeOK
      <4>2. ASSUME pc[t] = "ready", Moves(t)
            PROVE  /\ walletLock'[plan[t].user] = t
                   /\ wallet'[plan[t].user] = wallet[plan[t].user]
        <5>1. plan[t].user \in Users /\ walletLock[plan[t].user] = t
          BY <4>2 DEF MoneyMoves, Moves, Jobs, WellFormed
        <5>2. plan[t].user # u
          BY <5>1, <2>2, <3>3
        <5>. QED
          BY <5>1, <5>2, <2>5, <3>3 DEF Finish
      <4>. QED
        BY <4>1, <4>2 DEF MoneyMoves, Moves
    <3>. QED
      BY <3>2, <3>3
  <2>. QED
    BY <2>6, <2>7, <2>8
<1>. QED
  BY <1>1, <1>2

LEMMA MoneyInvLocked ==
    ASSUME IInv, NEW s \in Sessions, WalletLocked(s)
    PROVE  MoneyInv'
<1>. DEFINE u == plan[s].user
<1>. USE DEF IInv, MoneyInv
<1>1. /\ pc[s] = "locking"
      /\ walletLock[u] = NoOne
      /\ Covered(plan[s].kind, InMemory(s), plan[s].amount)
      /\ walletLock' = [walletLock EXCEPT ![u] = s]
      /\ copy' = [copy EXCEPT ![s] = InMemory(s)]
      /\ stale' = IF InMemory(s) = wallet[u] THEN stale ELSE stale \cup {u}
      /\ pc' = [pc EXCEPT ![s] = "ready"]
      /\ UNCHANGED <<wallet, journal, plan>>
  BY DEF WalletLocked, data
<1>2. u \in Users
  BY <1>1 DEF Jobs, WellFormed
<1>3. InMemory(s) # NoCopy /\ NotNegative(InMemory(s))
  BY <1>2 DEF InMemory, KeepsCopy, MoneyMoves, NeverNegative, NotNegative, NoCopy
<1>4. NeverNegative' /\ BooksBalance'
  BY <1>1 DEF NeverNegative, BooksBalance
<1>5. ASSUME NEW t \in Sessions, t # s, pc[t] = "ready", Moves(t)
      PROVE  walletLock'[plan[t].user] = t
  BY <1>1, <1>5, ConstantsOK DEF MoneyMoves, ConstantsOK
<1>6. MoneyMoves'
  BY <1>1, <1>2, <1>3, <1>5 DEF MoneyMoves, Moves, NotNegative, TypeOK
<1>. QED
  BY <1>4, <1>6

LEMMA MoneyInvStep ==
    ASSUME IInv, [Next]_vars
    PROVE  MoneyInv'
<1>. USE DEF IInv, MoneyInv
<1>1. ASSUME NEW s \in Sessions, Admitted(s)
      PROVE  MoneyInv'
  <2>1. PICK j, p, c : Admissible(j, p, c) /\ Begin(s, j, p, c)
    BY <1>1 DEF Admitted
  <2>2. UNCHANGED <<wallet, journal, stale, walletLock>>
    BY <2>1 DEF Begin, data, locks
  <2>3. c = NoCopy \/ (c.available >= 0 /\ c.reserved >= 0)
    BY <2>1 DEF Admissible, NeverNegative
  <2>4. MoneyMoves'
    BY <2>1, <2>2, <2>3 DEF Begin, MoneyMoves, Moves, TypeOK
  <2>. QED
    BY <2>2, <2>4 DEF NeverNegative, BooksBalance
<1>2. ASSUME NEW s \in Sessions, Rollback(s)
      PROVE  MoneyInv'
  <2>1. UNCHANGED <<wallet, journal, stale>>
    BY <1>2 DEF Rollback, data
  <2>2. \A t \in Sessions \ {s} : /\ copy'[t] = copy[t]
                                 /\ pc'[t] = pc[t]
                                 /\ plan'[t] = plan[t]
    BY <1>2 DEF Rollback, Finish, TypeOK
  <2>3. pc'[s] = "idle" /\ copy'[s] = NoCopy
    BY <1>2 DEF Rollback, Finish, TypeOK
  <2>4. \A t \in Sessions \ {s} : pc[t] = "ready" /\ Moves(t) => walletLock'[plan[t].user] = t
    BY <1>2 DEF Rollback, MoneyMoves, Moves, Finish, Jobs, WellFormed
  <2>5. MoneyMoves'
    BY <2>1, <2>2, <2>3, <2>4 DEF MoneyMoves, Moves
  <2>. QED
    BY <2>1, <2>5 DEF NeverNegative, BooksBalance
<1>3. ASSUME NEW s \in Sessions, LimitPassed(s)
      PROVE  MoneyInv'
  BY <1>3 DEF LimitPassed, Proceed, data, locks, MoneyMoves, Moves, NeverNegative, BooksBalance,
              TypeOK
<1>4. ASSUME NEW s \in Sessions, OrderLocked(s)
      PROVE  MoneyInv'
  <2>1. PICK c \in LookedUp(s) : copy' = [copy EXCEPT ![s] = c]
    BY <1>4 DEF OrderLocked
  <2>2. c = NoCopy \/ (c.available >= 0 /\ c.reserved >= 0)
    <3>1. job[s].order \in Orders
      BY <1>4 DEF OrderLocked, Jobs, WellFormed
    <3>2. c \in {NoCopy, copy[s]} \cup {wallet[u] : u \in Users}
      BY <2>1, <3>1, LookedUpRows
    <3>. QED
      BY <3>2 DEF MoneyMoves, NeverNegative
  <2>3. MoneyMoves'
    BY <1>4, <2>1, <2>2 DEF OrderLocked, Proceed, data, MoneyMoves, Moves, TypeOK
  <2>. QED
    BY <1>4, <2>3 DEF OrderLocked, data, NeverNegative, BooksBalance
<1>5. ASSUME NEW s \in Sessions, Commit(s)
      PROVE  MoneyInv'
  BY <1>5, MoneyInvCommit DEF Commit, CommitCreate, CommitWalletOp, CommitStatus
<1>6. ASSUME NEW m \in Staff, SetRole(m)
      PROVE  MoneyInv'
  BY <1>6 DEF SetRole, data, locks, request, MoneyMoves, Moves, NeverNegative, BooksBalance
<1>7. ASSUME UNCHANGED vars
      PROVE  MoneyInv'
  BY <1>7 DEF vars, data, locks, request, MoneyMoves, Moves, NeverNegative, BooksBalance
<1>. QED
  BY <1>1, <1>2, <1>3, <1>4, <1>5, <1>6, <1>7, MoneyInvLocked, StepCases

----------------------------------------------------------------------------
(* The theorems. *)

LEMMA StepInv ==
    ASSUME IInv, [Next]_vars
    PROVE  IInv'
<1>1. TypeOK' /\ Jobs'
  BY TypeStep DEF IInv
<1>. QED
  BY <1>1, OrderInvStep, MoneyInvStep DEF IInv

THEOREM Inductive == Spec => []IInv
<1>1. IInv /\ [Next]_vars => IInv'
  BY StepInv
<1>. QED
  BY <1>1, InitInv, PTL DEF Spec

\* Whatever overlaps with it, a withdrawal is held once, settled once, and in
\* the way its status says; a bonus is credited for completed orders only.
THEOREM SettlementCorrect == Spec => []SettledWithStatus
BY Inductive, PTL DEF IInv, OrderInv

\* No balance becomes negative, not even through the stale copies.
THEOREM BalancesCorrect == Spec => []NeverNegative
BY Inductive, PTL DEF IInv, MoneyInv

\* The wallets that no session has locked with an older copy in its memory
\* agree with their ledgers.
THEOREM BooksCorrect == Spec => []BooksBalance
BY Inductive, PTL DEF IInv, MoneyInv

\* The outbox has the rows of every closed order, and of no status it was not in.
THEOREM OutboxCorrect == Spec => []OutboxFollowsStatus
BY Inductive, PTL DEF IInv, OrderInv, Outbox

\* Only commits of status changes and creations touch an order.
LEMMA OrderSteps ==
    ASSUME IInv, [Next]_vars
    PROVE  \/ UNCHANGED <<order, entries>>
           \/ \E s \in Sessions : CommitCreate(s) \/ CommitStatus(s)
<1>1. ASSUME NEW s \in Sessions, Admitted(s) \/ Rollback(s) \/ LimitPassed(s) \/ OrderLocked(s)
                                \/ WalletLocked(s) \/ CommitWalletOp(s)
      PROVE  UNCHANGED <<order, entries>>
  BY <1>1 DEF Admitted, Begin, Rollback, LimitPassed, OrderLocked, WalletLocked, CommitWalletOp,
              data
<1>2. ASSUME NEW m \in Staff, SetRole(m)
      PROVE  UNCHANGED <<order, entries>>
  BY <1>2 DEF SetRole, data
<1>3. ASSUME UNCHANGED vars
      PROVE  UNCHANGED <<order, entries>>
  BY <1>3 DEF vars, data
<1>. QED
  BY <1>1, <1>2, <1>3, StepCases DEF IInv, Commit

\* What a status change does to its order, its decision being still valid.
LEMMA StatusSteps ==
    ASSUME IInv, NEW s \in Sessions, CommitStatus(s)
    PROVE  /\ job[s].order \in Orders
           /\ job[s].op \in StatusOps
           /\ job[s].target \in Statuses
           /\ order'[job[s].order].status = job[s].target
           /\ order'[job[s].order].manager = plan[s].manager
           /\ \A p \in Orders \ {job[s].order} :
                 order'[p] = order[p] /\ entries'[p] = entries[p]
           /\ pc[s] = "ready" /\ pc'[s] = "idle"
           /\ Decided(s, job[s].order, order[job[s].order])
BY DEF IInv, OrderInv, CommitStatus, Finish, Jobs, WellFormed, Decisions, Writing, TypeOK

LEMMA ManagerKeepsOrdersStep ==
    ASSUME IInv, [Next]_vars, NEW o \in Orders, order[o].manager \notin revoked \cup {NoOne}
    PROVE  order'[o].manager = order[o].manager
<1>1. CASE UNCHANGED <<order, entries>>
  BY <1>1
<1>2. ASSUME NEW s \in Sessions, CommitCreate(s)
      PROVE  order'[o].manager = order[o].manager
  <2>1. job[s].order # o
    BY <1>2 DEF IInv, OrderInv, CommitCreate, Creations, Managers
  <2>. QED
    BY <1>2, <2>1 DEF CommitCreate, IInv, TypeOK
<1>3. ASSUME NEW s \in Sessions, CommitStatus(s)
      PROVE  order'[o].manager = order[o].manager
  <2>1. /\ order'[job[s].order].manager = plan[s].manager
        /\ \A p \in Orders \ {job[s].order} : order'[p] = order[p]
        /\ order[job[s].order].manager \in {plan[s].manager, NoOne} \cup revoked
    BY <1>3, StatusSteps DEF Decided
  <2>. QED
    BY <2>1
<1>. QED
  BY <1>1, <1>2, <1>3, OrderSteps

\* A manager who never lost the role keeps the orders assigned to him.
THEOREM AssignmentCorrect == Spec => ManagerKeepsOrders
<1>1. IInv /\ [Next]_vars =>
        [\A o \in Orders : order[o].manager \notin revoked \cup {NoOne} =>
            order'[o].manager = order[o].manager]_vars
  BY ManagerKeepsOrdersStep
<1>. QED
  BY <1>1, Inductive, PTL DEF Spec, ManagerKeepsOrders

LEMMA OwnerCancelsStep ==
    ASSUME IInv, [Next]_vars, NEW o \in Orders, order[o].status = "processing",
           order'[o].status = "cancelled"
    PROVE  \E s \in Sessions : /\ pc[s] = "ready" /\ pc'[s] = "idle"
                             /\ job[s].op = "set" /\ job[s].order = o
<1>1. ASSUME NEW s \in Sessions, CommitCreate(s)
      PROVE  order'[o].status # "cancelled"
  BY <1>1 DEF CommitCreate, IInv, TypeOK, Jobs, WellFormed
<1>2. ASSUME NEW s \in Sessions, CommitStatus(s)
      PROVE  /\ pc[s] = "ready" /\ pc'[s] = "idle"
             /\ job[s].op = "set" /\ job[s].order = o
  <2>1. /\ order'[job[s].order].status = job[s].target
        /\ \A p \in Orders \ {job[s].order} : order'[p] = order[p]
        /\ job[s].op \in StatusOps
        /\ pc[s] = "ready" /\ pc'[s] = "idle"
        /\ job[s].op = "usercancel" => order[job[s].order].status = "created"
    BY <1>2, StatusSteps DEF Decided
  <2>2. job[s].order = o /\ job[s].target = "cancelled"
    BY <2>1
  <2>3. job[s].op # "usercancel" /\ job[s].op # "take"
    BY <2>1, <2>2 DEF IInv, Jobs, WellFormed
  <2>. QED
    BY <2>1, <2>2, <2>3 DEF StatusOps
<1>. QED
  BY <1>1, <1>2, OrderSteps

\* The owner's cancellation never takes an order away from the manager who has
\* taken it in the meantime.
THEOREM OwnerCancelCorrect == Spec => OwnerCancelsOnlyCreated
<1>1. IInv /\ [Next]_vars =>
        [\A o \in Orders :
          order[o].status = "processing" /\ order'[o].status = "cancelled" =>
            \E s \in Sessions : /\ pc[s] = "ready" /\ pc'[s] = "idle"
                               /\ job[s].op = "set" /\ job[s].order = o]_vars
  BY OwnerCancelsStep
<1>. QED
  BY <1>1, Inductive, PTL DEF Spec, OwnerCancelsOnlyCreated

----------------------------------------------------------------------------
(* The refinement. *)

LEMMA SettlementValues ==
    /\ SettlementOf({}) = "none"
    /\ SettlementOf({"hold"}) = "held"
    /\ SettlementOf({"hold", "debit"}) = "debited"
    /\ SettlementOf({"hold", "release"}) = "released"
    /\ SettlementOf({"referral"}) = "bonus"
<1>1. /\ {"hold"} # {}
      /\ {"hold", "debit"} \notin {{}, {"hold"}}
      /\ {"hold", "release"} \notin {{}, {"hold"}, {"hold", "debit"}}
      /\ {"referral"} \notin {{}, {"hold"}, {"hold", "debit"}, {"hold", "release"}}
  OBVIOUS
<1>. QED
  BY <1>1 DEF SettlementOf

\* The settlement an order has in a status.
LEMMA SettlementIn ==
    ASSUME NEW o \in Orders, NEW references
    PROVE  /\ references \in EntriesIn(o, "created") \/ references \in EntriesIn(o, "processing") =>
                SettlementOf(references) = IF o \in TokenOrders THEN "held" ELSE "none"
           /\ references \in EntriesIn(o, "completed") =>
                SettlementOf(references) \in IF o \in TokenOrders THEN {"debited"}
                                             ELSE {"none", "bonus"}
           /\ references \in EntriesIn(o, "cancelled") =>
                SettlementOf(references) = IF o \in TokenOrders THEN "released" ELSE "none"
BY SettlementValues DEF EntriesIn, OpenStatuses

LEMMA InitRefines == Init => Lifecycle!Init
BY SettlementValues DEF Init, Lifecycle!Init

LEMMA CreateRefines ==
    ASSUME IInv, IInv', NEW s \in Sessions, CommitCreate(s)
    PROVE  \E o \in Orders : Lifecycle!Place(o)
<1>0. PICK o \in Orders : o = job[s].order
  BY DEF IInv, CommitCreate, Jobs, WellFormed
<1>1. /\ o \in Orders
      /\ ~Exists(o)
      /\ order' = [order EXCEPT ![o] = [status |-> "created", manager |-> NoOne]]
      /\ entries' = [entries EXCEPT ![o] = @ \cup Reference(job[s], plan[s].kind)]
  BY <1>0 DEF IInv, OrderInv, CommitCreate, Creations, Jobs, WellFormed
<1>2. order'[o].status = "created"
  BY <1>1 DEF IInv, TypeOK
<1>3. entries'[o] \in EntriesIn(o, "created")
  BY <1>1, <1>2 DEF IInv, OrderInv, SettledWithStatus
<1>4. SettlementOf(entries'[o]) = IF o \in TokenOrders THEN "held" ELSE "none"
  BY <1>1, <1>3, SettlementIn
<1>5. \A p \in Orders : p # o => order'[p] = order[p] /\ entries'[p] = entries[p]
  BY <1>1 DEF IInv, TypeOK
<1>6. [p \in Orders |-> order'[p].status]
        = [[p \in Orders |-> order[p].status] EXCEPT ![o] = "created"]
  BY <1>2, <1>5
<1>7. [p \in Orders |-> SettlementOf(entries'[p])]
        = [[p \in Orders |-> SettlementOf(entries[p])] EXCEPT
             ![o] = IF o \in TokenOrders THEN "held" ELSE "none"]
  BY <1>4, <1>5
<1>8. Lifecycle!Place(o)
  BY <1>1, <1>6, <1>7 DEF Lifecycle!Place, Exists
<1>. QED
  BY <1>8

LEMMA StatusRefines ==
    ASSUME IInv, IInv', NEW s \in Sessions, CommitStatus(s)
    PROVE  \/ \E o \in Orders : Lifecycle!Take(o) \/ Lifecycle!Complete(o) \/ Lifecycle!Cancel(o)
           \/ UNCHANGED <<[o \in Orders |-> order[o].status],
                          [o \in Orders |-> SettlementOf(entries[o])]>>
<1>0. PICK o \in Orders : o = job[s].order
  BY StatusSteps
<1>. DEFINE before == order[o].status
            target == job[s].target
<1>1. /\ o \in Orders
      /\ target \in Statuses
      /\ order'[o].status = target
      /\ \A p \in Orders : p # o => order'[p] = order[p] /\ entries'[p] = entries[p]
      /\ Decided(s, o, order[o])
      /\ job[s].op \in StatusOps
  BY <1>0, StatusSteps
<1>2. entries[o] \in EntriesIn(o, before) /\ entries'[o] \in EntriesIn(o, target)
  BY <1>1 DEF IInv, OrderInv, SettledWithStatus
<1>3. CASE target = before
  <2>1. entries'[o] = entries[o]
    BY ZenonT(40), <1>0, <1>1, <1>3 DEF CommitStatus, Decided, MoneyOf, Reference, IInv, TypeOK
  <2>. QED
    BY <1>1, <1>3, <2>1
<1>4. CASE target # before
  <2>1. \/ before = "created" /\ target \in {"processing", "cancelled"}
        \/ before = "processing" /\ target \in {"completed", "cancelled"}
    BY <1>1, <1>4 DEF Decided, Successors
  <2>2. SettlementOf(entries[o]) = IF o \in TokenOrders THEN "held" ELSE "none"
    BY <1>1, <1>2, <2>1, SettlementIn
  <2>3. CASE target = "processing"
    <3>1. SettlementOf(entries'[o]) = SettlementOf(entries[o])
      BY <1>1, <1>2, <2>2, <2>3, SettlementIn
    <3>2. Lifecycle!Take(o)
      BY <1>1, <2>1, <2>3, <3>1 DEF Lifecycle!Take
    <3>. QED
      BY <1>1, <3>2
  <2>4. CASE target = "completed"
    <3>1. SettlementOf(entries'[o]) \in IF o \in TokenOrders THEN {"debited"} ELSE {"none", "bonus"}
      BY <1>1, <1>2, <2>4, SettlementIn
    <3>2. Lifecycle!Complete(o)
      BY <1>1, <2>1, <2>4, <3>1 DEF Lifecycle!Complete
    <3>. QED
      BY <1>1, <3>2
  <2>5. CASE target = "cancelled"
    <3>1. SettlementOf(entries'[o]) = IF o \in TokenOrders THEN "released"
                                     ELSE SettlementOf(entries[o])
      BY <1>1, <1>2, <2>2, <2>5, SettlementIn
    <3>2. Lifecycle!Cancel(o)
      BY <1>1, <2>1, <2>5, <3>1 DEF Lifecycle!Cancel
    <3>. QED
      BY <1>1, <3>2
  <2>. QED
    BY <2>1, <2>3, <2>4, <2>5
<1>. QED
  BY <1>3, <1>4

LEMMA StepRefines ==
    ASSUME IInv, IInv', [Next]_vars
    PROVE  \/ Lifecycle!Next
           \/ UNCHANGED <<[o \in Orders |-> order[o].status],
                          [o \in Orders |-> SettlementOf(entries[o])]>>
<1>1. ASSUME NEW s \in Sessions, CommitCreate(s)
      PROVE  Lifecycle!Next
  BY <1>1, CreateRefines DEF Lifecycle!Next
<1>. QED
  BY <1>1, OrderSteps, StatusRefines DEF Lifecycle!Next

\* The order workflow implements the abstract lifecycle: sessions, row locks,
\* stale objects and rollbacks never show in an order's status and settlement.
THEOREM LifecycleImplemented == Spec => ImplementsLifecycle
<1>1. IInv /\ IInv' /\ [Next]_vars =>
        [Lifecycle!Next]_<<[o \in Orders |-> order[o].status],
                          [o \in Orders |-> SettlementOf(entries[o])]>>
  BY StepRefines
<1>. QED
  BY <1>1, InitRefines, Inductive, PTL DEF Spec, ImplementsLifecycle, Lifecycle!Spec

----------------------------------------------------------------------------
(* Orders that are open, and those a session may still add after its check. *)

Creators == \A s \in Sessions : job[s].op = "create" => job[s].actor = OwnerOf[job[s].order]

\* The creations for a user that have passed the limit and are not committed.
Passed(u) ==
    {s \in Sessions : Writing(s) /\ job[s].op = "create" /\ OwnerOf[job[s].order] = u}

Bounded(u) ==
    /\ IsFiniteSet(OpenOrders(u))
    /\ Cardinality(OpenOrders(u)) + Cardinality(Passed(u))
          <= MaxActive + Cardinality(Sessions) - 1

LimitInv == Creators /\ \A u \in Users : Bounded(u)

LEMMA PassedFinite ==
  ASSUME NEW u \in Users
  PROVE  /\ Cardinality(Sessions) \in Nat /\ MaxActive \in Nat \ {0}
         /\ IsFiniteSet(Passed(u)) /\ Cardinality(Passed(u)) \in Nat
         /\ Cardinality(Passed(u)) <= Cardinality(Sessions)
<1>1. IsFiniteSet(Sessions) /\ MaxActive \in Nat \ {0}
  BY ConstantsOK DEF ConstantsOK
<1>2. Passed(u) \in SUBSET Sessions
  BY DEF Passed
<1> QED
  BY <1>1, <1>2, FS_Subset, FS_CardinalityType

LEMMA LimitInit == Init => LimitInv
<1> SUFFICES ASSUME Init PROVE LimitInv
  OBVIOUS
<1>1. Creators
  BY DEF Init, NoJob, Creators
<1>2. ASSUME NEW u \in Users PROVE Bounded(u)
  <2>1. OpenOrders(u) = {} /\ Passed(u) = {}
    BY DEF Init, OpenOrders, OpenStatuses, Passed, Writing
  <2> QED
    BY <2>1, PassedFinite, FS_EmptySet DEF Bounded
<1> QED
  BY <1>1, <1>2 DEF LimitInv

\* Orders that are closed and creations that end keep the bound.
LEMMA FewerBounded ==
  ASSUME NEW u \in Users, Bounded(u), OpenOrders(u)' \subseteq OpenOrders(u),
         Passed(u)' \subseteq Passed(u)
  PROVE  Bounded(u)'
<1> DEFINE F == OpenOrders(u)
           G == OpenOrders(u)'
           P == Passed(u)
           Q == Passed(u)'
<1>1. IsFiniteSet(F) /\ IsFiniteSet(P) /\ G \in SUBSET F /\ Q \in SUBSET P
  BY PassedFinite DEF Bounded
<1>2. /\ IsFiniteSet(G) /\ Cardinality(G) <= Cardinality(F)
      /\ Cardinality(Q) <= Cardinality(P)
      /\ Cardinality(F) \in Nat /\ Cardinality(G) \in Nat
      /\ Cardinality(P) \in Nat /\ Cardinality(Q) \in Nat
  <2> HIDE DEF F, G, P, Q
  <2>1. IsFiniteSet(G) /\ IsFiniteSet(Q)
    BY <1>1, FS_Subset
  <2> QED
    BY <1>1, <2>1, FS_Subset, FS_CardinalityType
<1>3. Cardinality(F) + Cardinality(P) <= MaxActive + Cardinality(Sessions) - 1
  BY DEF Bounded
<1>4. MaxActive \in Nat /\ Cardinality(Sessions) \in Nat
  BY PassedFinite
<1>5. Cardinality(G) + Cardinality(Q) <= MaxActive + Cardinality(Sessions) - 1
  <2> HIDE DEF F, G, P, Q
  <2> QED
    BY <1>2, <1>3, <1>4
<1> QED
  BY <1>2, <1>5 DEF Bounded

\* A creation that passes the check found room for one order.
LEMMA PassBounded ==
  ASSUME IInv, LimitInv, NEW s \in Sessions, LimitPassed(s), NEW u \in Users
  PROVE  Bounded(u)'
<1>1. /\ UNCHANGED <<order, job>> /\ job[s].op = "create"
      /\ \A t \in Sessions \ {s} : pc'[t] = pc[t]
  BY DEF IInv, TypeOK, LimitPassed, Proceed, data
<1>2. OpenOrders(u)' = OpenOrders(u)
  BY <1>1 DEF OpenOrders
<1>3. CASE job[s].actor = u
  <2>1. Cardinality(OpenOrders(u)) < MaxActive /\ IsFiniteSet(OpenOrders(u))
    BY <1>3 DEF LimitPassed, HasRoom, LimitInv, Bounded
  <2>2. Passed(u)' \in SUBSET Sessions
    BY DEF Passed
  <2>3. Cardinality(OpenOrders(u)) \in Nat
    BY <2>1, FS_CardinalityType
  <2>4. Cardinality(Sessions) \in Nat /\ MaxActive \in Nat /\ IsFiniteSet(Sessions)
    BY PassedFinite, ConstantsOK DEF ConstantsOK
  <2>5. Cardinality(Passed(u)') <= Cardinality(Sessions) /\ Cardinality(Passed(u)') \in Nat
    BY <2>2, <2>4, FS_Subset, FS_CardinalityType
  <2>6. Cardinality(OpenOrders(u)) + Cardinality(Passed(u)')
           <= MaxActive + Cardinality(Sessions) - 1
    BY <2>1, <2>3, <2>4, <2>5
  <2> QED
    BY <1>2, <2>1, <2>6 DEF Bounded
<1>4. CASE job[s].actor # u
  <2>1. s \notin Passed(u) /\ s \notin Passed(u)'
    BY <1>1, <1>4 DEF LimitInv, Creators, Passed
  <2>2. Passed(u)' \subseteq Passed(u)
    BY <1>1, <2>1 DEF Passed, Writing
  <2> QED
    BY <1>2, <2>2, FewerBounded DEF LimitInv
<1> QED
  BY <1>3, <1>4

\* A creation that is committed turns from one that may come into an order.
LEMMA CreateBounded ==
  ASSUME IInv, LimitInv, NEW s \in Sessions, CommitCreate(s), NEW u \in Users
  PROVE  Bounded(u)'
<1> DEFINE o == job[s].order
<1>1. /\ pc[s] = "ready" /\ job[s].op = "create" /\ o \in Orders
      /\ order[o].status = "absent"
      /\ pc'[s] = "idle"
      /\ \A t \in Sessions \ {s} : pc'[t] = pc[t] /\ job'[t] = job[t]
      /\ order'[o].status = "created" /\ \A p \in Orders \ {o} : order'[p] = order[p]
  BY DEF IInv, OrderInv, TypeOK, Jobs, WellFormed, Creations, Exists, CommitCreate, Finish
<1>2. CASE OwnerOf[o] # u
  <2>1. OpenOrders(u)' \subseteq OpenOrders(u)
    BY <1>1, <1>2 DEF OpenOrders
  <2>2. Passed(u)' \subseteq Passed(u)
    BY <1>1 DEF Passed, Writing
  <2> QED
    BY <2>1, <2>2, FewerBounded DEF LimitInv
<1>3. CASE OwnerOf[o] = u
  <2>1. OpenOrders(u)' = OpenOrders(u) \cup {o} /\ o \notin OpenOrders(u)
    BY <1>1, <1>3 DEF OpenOrders, OpenStatuses
  <2>2. Passed(u)' = Passed(u) \ {s} /\ s \in Passed(u)
    BY <1>1, <1>3 DEF Passed, Writing
  <2>3. /\ IsFiniteSet(OpenOrders(u)) /\ IsFiniteSet(Passed(u))
        /\ Cardinality(OpenOrders(u)) \in Nat /\ Cardinality(Passed(u)) \in Nat
        /\ Cardinality(OpenOrders(u)) + Cardinality(Passed(u))
              <= MaxActive + Cardinality(Sessions) - 1
    BY PassedFinite, FS_CardinalityType DEF LimitInv, Bounded
  <2>4. /\ IsFiniteSet(OpenOrders(u)')
        /\ Cardinality(OpenOrders(u)') = Cardinality(OpenOrders(u)) + 1
    <3>1. /\ IsFiniteSet(OpenOrders(u) \cup {o})
          /\ Cardinality(OpenOrders(u) \cup {o}) = Cardinality(OpenOrders(u)) + 1
      <4> HIDE DEF o
      <4> QED
        BY <2>1, <2>3, FS_AddElement
    <3> QED
      BY <2>1, <3>1
  <2>5. Cardinality(Passed(u)') = Cardinality(Passed(u)) - 1
    BY <2>2, <2>3, FS_RemoveElement
  <2>6. Cardinality(OpenOrders(u)') + Cardinality(Passed(u)')
           = Cardinality(OpenOrders(u)) + Cardinality(Passed(u))
    BY <2>3, <2>4, <2>5
  <2> QED
    BY <2>3, <2>4, <2>6 DEF Bounded
<1> QED
  BY <1>2, <1>3

LEMMA CreatorsStep ==
  ASSUME IInv, Creators, [Next]_vars
  PROVE  Creators'
<1>1. ASSUME NEW s \in Sessions, Admitted(s) PROVE Creators'
  BY <1>1 DEF IInv, TypeOK, Admitted, Admissible, Begin, Creators
<1>2. ASSUME NEW s \in Sessions, Rollback(s) \/ Commit(s) PROVE Creators'
  <2>1. Finish(s)
    BY <1>2 DEF Rollback, Commit, CommitCreate, CommitWalletOp, CommitStatus
  <2>2. job'[s].op = "none" /\ \A t \in Sessions \ {s} : job'[t] = job[t]
    BY <2>1 DEF IInv, TypeOK, Finish, NoJob
  <2> QED
    BY <2>2 DEF Creators
<1>3. ASSUME NEW s \in Sessions, LimitPassed(s) \/ OrderLocked(s) \/ WalletLocked(s)
      PROVE  Creators'
  BY <1>3 DEF LimitPassed, OrderLocked, WalletLocked, Creators
<1>4. ASSUME UNCHANGED request PROVE Creators'
  BY <1>4 DEF request, Creators
<1> QED
  BY <1>1, <1>2, <1>3, <1>4, StepCases DEF IInv, SetRole, vars

LEMMA BoundedStep ==
  ASSUME IInv, LimitInv, [Next]_vars, NEW u \in Users
  PROVE  Bounded(u)'
<1>1. ASSUME NEW s \in Sessions, Admitted(s) PROVE Bounded(u)'
  <2>1. UNCHANGED order /\ \A t \in Sessions \ {s} : pc'[t] = pc[t] /\ job'[t] = job[t]
    BY <1>1 DEF IInv, TypeOK, Admitted, Begin, data
  <2>2. ~(Writing(s)' /\ job'[s].op = "create")
    BY <1>1 DEF IInv, TypeOK, Admitted, Begin, Writing, WalletOps
  <2>3. Passed(u)' \subseteq Passed(u)
    BY <2>1, <2>2 DEF Passed, Writing
  <2> QED
    BY <2>1, <2>3, FewerBounded DEF LimitInv, OpenOrders
<1>2. ASSUME NEW s \in Sessions, Finish(s), OpenOrders(u)' \subseteq OpenOrders(u)
      PROVE  Bounded(u)'
  <2>1. pc'[s] = "idle" /\ \A t \in Sessions \ {s} : pc'[t] = pc[t] /\ job'[t] = job[t]
    BY <1>2 DEF IInv, TypeOK, Finish
  <2>2. Passed(u)' \subseteq Passed(u)
    BY <2>1 DEF Passed, Writing
  <2> QED
    BY <1>2, <2>2, FewerBounded DEF LimitInv
<1>3. ASSUME NEW s \in Sessions, Rollback(s) \/ CommitWalletOp(s) PROVE Bounded(u)'
  <2>1. Finish(s) /\ OpenOrders(u)' = OpenOrders(u)
    BY <1>3 DEF Rollback, CommitWalletOp, data, OpenOrders
  <2> QED
    BY <1>2, <2>1
<1>4. ASSUME NEW s \in Sessions, CommitStatus(s) PROVE Bounded(u)'
  <2> DEFINE o == job[s].order
  <2>1. /\ o \in Orders /\ order'[o].status = job[s].target
        /\ job[s].target \in {order[o].status} \cup Successors(order[o].status)
        /\ \A p \in Orders \ {o} : order'[p] = order[p]
    BY <1>4, StatusSteps DEF Decided
  <2>2. job[s].target \in OpenStatuses => order[o].status \in OpenStatuses
    BY <2>1 DEF Successors, OpenStatuses
  <2>3. OpenOrders(u)' \subseteq OpenOrders(u)
    BY <2>1, <2>2 DEF OpenOrders
  <2> QED
    BY <1>2, <1>4, <2>3 DEF CommitStatus
<1>5. ASSUME NEW s \in Sessions, OrderLocked(s) \/ WalletLocked(s) PROVE Bounded(u)'
  <2>1. UNCHANGED <<order, job>> /\ \A t \in Sessions \ {s} : pc'[t] = pc[t]
    BY <1>5 DEF IInv, TypeOK, OrderLocked, WalletLocked, Proceed, data
  <2>2. job[s].op \in StatusOps \/ pc[s] = "locking"
    BY <1>5 DEF OrderLocked, WalletLocked
  <2>3. Passed(u)' \subseteq Passed(u)
    BY <2>1, <2>2 DEF Passed, Writing, StatusOps
  <2> QED
    BY <2>1, <2>3, FewerBounded DEF LimitInv, OpenOrders
<1>6. ASSUME UNCHANGED <<order, request>> PROVE Bounded(u)'
  BY <1>6, FewerBounded DEF LimitInv, OpenOrders, Passed, Writing, request
<1>7. ASSUME NEW s \in Sessions, Commit(s) PROVE Bounded(u)'
  BY <1>3, <1>4, <1>7, CreateBounded DEF Commit
<1>8. ASSUME NEW m \in Staff, SetRole(m) PROVE Bounded(u)'
  BY <1>6, <1>8 DEF SetRole, data
<1>9. ASSUME UNCHANGED vars PROVE Bounded(u)'
  BY <1>6, <1>9 DEF vars, data
<1> QED
  BY <1>1, <1>3, <1>5, <1>7, <1>8, <1>9, PassBounded, StepCases DEF IInv

\* However many creations a user begins at once, the limit is passed by at most one
\* order less than there are sessions (the count of create_order has no lock).
THEOREM LimitCorrect == Spec => []OpenOrdersBounded
<1>1. IInv /\ LimitInv /\ [Next]_vars => LimitInv'
  BY CreatorsStep, BoundedStep DEF LimitInv
<1>2. LimitInv => OpenOrdersBounded
  <2> SUFFICES ASSUME LimitInv, NEW u \in Users
               PROVE  Cardinality(OpenOrders(u)) <= MaxActive + Cardinality(Sessions) - 1
    BY DEF OpenOrdersBounded
  <2>1. Cardinality(OpenOrders(u)) \in Nat
    BY FS_CardinalityType DEF LimitInv, Bounded
  <2> QED
    BY <2>1, PassedFinite DEF LimitInv, Bounded
<1> QED
  BY <1>1, <1>2, LimitInit, Inductive, PTL DEF Spec
----------------------------------------------------------------------------
(* The reserve of the open withdrawals. *)

Withdrawals(u) == OpenOrders(u) \cap TokenOrders

\* A movement of an order's reserve is for its owner and over its amount.
Reserving(s) ==
    job[s].op \in StatusOps \cup {"create"} /\ plan[s].kind \in {"hold", "debit_reserved", "release"} =>
        plan[s].user = OwnerOf[job[s].order] /\ plan[s].amount = AmountOf[job[s].order]

\* What the ledger sets aside covers the open withdrawals.
Funded(u) ==
    /\ IsFiniteSet(Units(Withdrawals(u)))
    /\ SumOfAmounts(Withdrawals(u)) <= journal[u].held

FundsInv ==
    /\ \A s \in Sessions : Reserving(s)
    /\ \A u \in Users : Funded(u)

\* The units of one more order are so many more.
LEMMA UnitsOfOneMore ==
  ASSUME NEW S \in SUBSET Orders, NEW o \in Orders, o \notin S, IsFiniteSet(Units(S))
  PROVE  /\ IsFiniteSet(Units(S \cup {o}))
         /\ SumOfAmounts(S) \in Nat
         /\ SumOfAmounts(S \cup {o}) = SumOfAmounts(S) + AmountOf[o]
<1> DEFINE own == {o} \X (1..AmountOf[o])
<1>1. Units(S \cup {o}) = Units(S) \cup own
  BY DEF Units
<1>2. Units(S) \cap own = {}
  BY DEF Units
<1>3. AmountOf[o] \in Nat
  BY ConstantsOK DEF ConstantsOK
<1>4. IsFiniteSet(own) /\ Cardinality(own) = AmountOf[o]
  <2> DEFINE n == AmountOf[o]
             units == 1..n
  <2>1. n \in Nat
    BY <1>3
  <2>2. IsFiniteSet({o}) /\ Cardinality({o}) = 1
    BY FS_Singleton
  <2> HIDE DEF n
  <2>3. IsFiniteSet(units) /\ Cardinality(units) = n
    BY ONLY <2>1, FS_Interval
  <2> HIDE DEF units
  <2>4. IsFiniteSet({o} \X units) /\ Cardinality({o} \X units) = 1 * n
    BY ONLY <2>2, <2>3, FS_Product
  <2> QED
    BY <2>1, <2>4 DEF n, units
<1> HIDE DEF own
<1>5. Cardinality(Units(S)) \in Nat
  BY FS_CardinalityType
<1>6. Cardinality(Units(S) \cup own) = Cardinality(Units(S)) + Cardinality(own)
      /\ IsFiniteSet(Units(S) \cup own)
  <2> DEFINE former == Units(S)
  <2>1. former \cap own = {} /\ Cardinality({}) = 0 /\ Cardinality(former) \in Nat
    BY <1>2, <1>5, FS_EmptySet
  <2>2. IsFiniteSet(former) /\ IsFiniteSet(own)
    BY <1>4
  <2> HIDE DEF former
  <2>3. /\ IsFiniteSet(former \cup own)
        /\ Cardinality(former \cup own) = Cardinality(former) + Cardinality(own) - Cardinality(former \cap own)
    BY ONLY <2>2, FS_Union
  <2>4. Cardinality(own) \in Nat
    BY <1>3, <1>4
  <2>5. Cardinality(former \cup own) = Cardinality(former) + Cardinality(own)
    <3>1. Cardinality(former \cap own) = 0
      BY ONLY <2>1
    <3> QED
      BY ONLY <2>1, <2>3, <2>4, <3>1
  <2> QED
    BY <2>3, <2>5 DEF former
<1> QED
  BY <1>1, <1>3, <1>4, <1>5, <1>6 DEF SumOfAmounts

\* So are those of one order less.
LEMMA UnitsOfOneLess ==
  ASSUME NEW S \in SUBSET Orders, NEW o \in S, IsFiniteSet(Units(S))
  PROVE  /\ IsFiniteSet(Units(S \ {o}))
         /\ SumOfAmounts(S \ {o}) \in Nat
         /\ SumOfAmounts(S) = SumOfAmounts(S \ {o}) + AmountOf[o]
<1>1. Units(S \ {o}) \in SUBSET Units(S)
  BY DEF Units
<1>2. IsFiniteSet(Units(S \ {o}))
  BY <1>1, FS_Subset
<1>3. (S \ {o}) \cup {o} = S /\ S \ {o} \in SUBSET Orders /\ o \in Orders /\ o \notin S \ {o}
  OBVIOUS
<1> QED
  BY <1>2, <1>3, UnitsOfOneMore

LEMMA FundsInit == Init => FundsInv
<1> SUFFICES ASSUME Init PROVE FundsInv
  OBVIOUS
<1>1. ASSUME NEW s \in Sessions PROVE Reserving(s)
  BY DEF Init, Reserving, NoJob, StatusOps
<1>2. ASSUME NEW u \in Users PROVE Funded(u)
  <2>1. Withdrawals(u) = {}
    BY DEF Init, Withdrawals, OpenOrders, OpenStatuses
  <2>2. Units({}) = {}
    BY DEF Units
  <2>3. journal[u].held = 0
    BY DEF Init
  <2> QED
    BY <2>1, <2>2, <2>3, FS_EmptySet DEF Funded, SumOfAmounts
<1> QED
  BY <1>1, <1>2 DEF FundsInv

\* A settlement releases or debits what its order has set aside.
LEMMA SettlementReserving ==
  ASSUME NEW j, Settlement(j).kind \in {"hold", "debit_reserved", "release"}
  PROVE  Settlement(j).user = OwnerOf[j.order] /\ Settlement(j).amount = AmountOf[j.order]
BY DEF Settlement, Nothing

LEMMA ReservingStep ==
  ASSUME IInv, FundsInv, [Next]_vars, NEW t \in Sessions
  PROVE  Reserving(t)'
<1>1. ASSUME NEW s \in Sessions, Admitted(s) PROVE Reserving(t)'
  <2>1. PICK j, p, c : Admissible(j, p, c) /\ Begin(s, j, p, c)
    BY <1>1 DEF Admitted
  <2>2. CASE t = s
    <3>1. job'[t] = j /\ plan'[t] = p
      BY <2>1, <2>2 DEF IInv, TypeOK, Begin
    <3> QED
      BY <2>1, <3>1 DEF Admissible, Reserving, Nothing, StatusOps
  <2>3. CASE t # s
    <3>1. job'[t] = job[t] /\ plan'[t] = plan[t]
      BY <2>1, <2>3 DEF IInv, TypeOK, Begin
    <3> QED
      BY <3>1 DEF FundsInv, Reserving
  <2> QED
    BY <2>2, <2>3
<1>2. ASSUME NEW s \in Sessions, Finish(s) PROVE Reserving(t)'
  <2>1. \/ job'[t] = NoJob
        \/ job'[t] = job[t] /\ plan'[t] = plan[t]
    BY <1>2 DEF IInv, TypeOK, Finish
  <2> QED
    BY <2>1 DEF FundsInv, Reserving, NoJob, StatusOps
<1>3. ASSUME NEW s \in Sessions, OrderLocked(s) PROVE Reserving(t)'
  <2>1. \/ job'[t] = job[t] /\ plan'[t] = plan[t]
        \/ job'[t] = job[t] /\ plan'[t] = Settlement(job[t])
    BY <1>3 DEF IInv, TypeOK, OrderLocked
  <2> QED
    BY <2>1, SettlementReserving DEF FundsInv, Reserving
<1>4. ASSUME UNCHANGED <<job, plan>> PROVE Reserving(t)'
  BY <1>4 DEF FundsInv, Reserving
<1>5. ASSUME NEW s \in Sessions, Rollback(s) \/ Commit(s) PROVE Reserving(t)'
  BY <1>2, <1>5 DEF Rollback, Commit, CommitCreate, CommitWalletOp, CommitStatus
<1>6. ASSUME NEW s \in Sessions, LimitPassed(s) \/ WalletLocked(s) PROVE Reserving(t)'
  BY <1>4, <1>6 DEF LimitPassed, WalletLocked
<1>7. ASSUME NEW m \in Staff, SetRole(m) PROVE Reserving(t)'
  BY <1>4, <1>7 DEF SetRole, request
<1>8. ASSUME UNCHANGED vars PROVE Reserving(t)'
  BY <1>4, <1>8 DEF vars, request
<1> QED
  BY <1>1, <1>3, <1>5, <1>6, <1>7, <1>8, StepCases DEF IInv

\* What a commit adds to what is set aside for a user.
HeldBy(s, u) ==
    IF plan[s].user # u THEN 0
    ELSE CASE plan[s].kind = "hold"                          -> plan[s].amount
           [] plan[s].kind \in {"release", "debit_reserved"} -> -plan[s].amount
           [] OTHER                                          -> 0

LEMMA HeldMoves ==
  ASSUME IInv, NEW s \in Sessions, MoveMoney(s), NEW u \in Users
  PROVE  journal[u].held \in Int /\ journal'[u].held = journal[u].held + HeldBy(s, u)
<1> DEFINE p == plan[s]
<1>1. /\ journal \in [Users -> [total : Int, held : Int]]
      /\ p.kind \in Kinds \cup {"none"} /\ p.amount \in Nat
      /\ p.kind # "none" => p.user \in Users
  BY DEF IInv, TypeOK, Jobs, WellFormed
<1>2. journal[u].held \in Int
  BY <1>1
<1>3. CASE p.kind = "none"
  BY <1>2, <1>3 DEF MoveMoney, HeldBy
<1>4. CASE p.kind # "none"
  <2>1. journal' = [journal EXCEPT ![p.user] = Booked(p.kind, journal[p.user], p.amount)]
    BY <1>4 DEF MoveMoney
  <2>2. CASE p.user # u
    BY <1>1, <1>2, <2>1, <2>2 DEF HeldBy
  <2>3. CASE p.user = u
    <3>1. journal'[u].held = Booked(p.kind, journal[u], p.amount).held
      BY <1>1, <2>1, <2>3
    <3>2. Booked(p.kind, journal[u], p.amount).held =
            CASE p.kind = "hold"                          -> journal[u].held + p.amount
              [] p.kind \in {"release", "debit_reserved"} -> journal[u].held - p.amount
              [] OTHER                                    -> journal[u].held
      BY DEF Booked
    <3> HIDE DEF p
    <3>3. HeldBy(s, u) = CASE p.kind = "hold"                          -> p.amount
                           [] p.kind \in {"release", "debit_reserved"} -> -p.amount
                           [] OTHER                                    -> 0
      BY <2>3 DEF HeldBy, p
    <3> QED
      BY <1>1, <1>2, <3>1, <3>2, <3>3
  <2> QED
    BY <2>2, <2>3
<1> QED
  BY <1>2, <1>3, <1>4

LEMMA FundedCreate ==
  ASSUME IInv, FundsInv, NEW s \in Sessions, CommitCreate(s), NEW u \in Users
  PROVE  Funded(u)'
<1> DEFINE o == job[s].order
           W == Withdrawals(u)
<1>1. /\ o \in Orders /\ order[o].status = "absent" /\ OwnerOf[o] \in Users
      /\ plan[s].kind = IF o \in TokenOrders THEN "hold" ELSE "none"
      /\ order'[o].status = "created" /\ \A p \in Orders \ {o} : order'[p] = order[p]
      /\ MoveMoney(s)
      /\ job[s].op = "create"
  <2>1. job[s].op = "create" /\ MoveMoney(s)
        /\ order' = [order EXCEPT ![o] = [status |-> "created", manager |-> NoOne]]
    BY DEF CommitCreate
  <2>2. o \in Orders /\ OwnerOf[o] \in Users
    BY <2>1, ConstantsOK DEF ConstantsOK, IInv, Jobs, WellFormed
  <2>3. order[o].status = "absent" /\ plan[s].kind = IF o \in TokenOrders THEN "hold" ELSE "none"
    BY <2>1 DEF IInv, OrderInv, Creations, Exists
  <2> HIDE DEF o
  <2>4. order'[o].status = "created" /\ \A p \in Orders \ {o} : order'[p] = order[p]
    BY <2>1, <2>2 DEF IInv, TypeOK
  <2> QED
    BY <2>1, <2>2, <2>3, <2>4
<1>2. o \in TokenOrders => plan[s].user = OwnerOf[o] /\ plan[s].amount = AmountOf[o]
  BY <1>1 DEF FundsInv, Reserving
<1>3. journal[u].held \in Int /\ journal'[u].held = journal[u].held + HeldBy(s, u)
  BY <1>1, HeldMoves
<1>4. W \in SUBSET Orders /\ o \notin W /\ IsFiniteSet(Units(W)) /\ SumOfAmounts(W) <= journal[u].held
  BY <1>1 DEF FundsInv, Funded, Withdrawals, OpenOrders, OpenStatuses
<1>5. CASE o \in TokenOrders /\ OwnerOf[o] = u
  <2>1. Withdrawals(u)' = W \cup {o}
    BY <1>1, <1>5 DEF Withdrawals, OpenOrders, OpenStatuses
  <2>2. HeldBy(s, u) = AmountOf[o] /\ AmountOf[o] \in Nat
    BY <1>1, <1>2, <1>5, ConstantsOK DEF HeldBy, ConstantsOK
  <2> HIDE DEF W, o
  <2>3. /\ IsFiniteSet(Units(W \cup {o})) /\ SumOfAmounts(W) \in Nat
        /\ SumOfAmounts(W \cup {o}) = SumOfAmounts(W) + AmountOf[o]
    BY <1>1, <1>4, UnitsOfOneMore
  <2>4. SumOfAmounts(W \cup {o}) <= journal'[u].held
    BY <1>3, <1>4, <2>2, <2>3
  <2> QED
    BY <2>1, <2>3, <2>4 DEF Funded, SumOfAmounts, Units
<1>6. CASE ~(o \in TokenOrders /\ OwnerOf[o] = u)
  <2>1. Withdrawals(u)' = W
    BY <1>1, <1>6 DEF Withdrawals, OpenOrders, OpenStatuses
  <2>2. HeldBy(s, u) = 0
    BY <1>1, <1>2, <1>6 DEF HeldBy
  <2> HIDE DEF W
  <2>3. journal'[u].held = journal[u].held
    BY <1>3, <2>2
  <2> QED
    BY <1>4, <2>1, <2>3 DEF Funded, SumOfAmounts, Units
<1> QED
  BY <1>5, <1>6

LEMMA FundedStatus ==
  ASSUME IInv, FundsInv, NEW s \in Sessions, CommitStatus(s), NEW u \in Users
  PROVE  Funded(u)'
<1> DEFINE o == job[s].order
           W == Withdrawals(u)
           closed == {"completed", "cancelled"}
<1>1. /\ o \in Orders /\ OwnerOf[o] \in Users /\ job[s].op \in StatusOps
      /\ order'[o].status = job[s].target /\ \A p \in Orders \ {o} : order'[p] = order[p]
      /\ job[s].target \in {order[o].status} \cup Successors(order[o].status)
      /\ plan[s].kind \in MoneyOf(o, order[o].status, job[s].target)
      /\ MoveMoney(s)
  <2>1. /\ o \in Orders /\ job[s].op \in StatusOps
        /\ order'[o].status = job[s].target /\ \A p \in Orders \ {o} : order'[p] = order[p]
        /\ Decided(s, o, order[o])
    BY StatusSteps
  <2>2. MoveMoney(s)
    BY DEF CommitStatus
  <2>3. OwnerOf[o] \in Users
    BY <2>1, ConstantsOK DEF ConstantsOK
  <2>4. /\ job[s].target \in {order[o].status} \cup Successors(order[o].status)
        /\ plan[s].kind \in MoneyOf(o, order[o].status, job[s].target)
    BY <2>1 DEF Decided
  <2> QED
    BY <2>1, <2>2, <2>3, <2>4
<1>2. plan[s].kind \in {"hold", "debit_reserved", "release"} =>
        plan[s].user = OwnerOf[o] /\ plan[s].amount = AmountOf[o]
  BY <1>1 DEF FundsInv, Reserving
<1>3. journal[u].held \in Int /\ journal'[u].held = journal[u].held + HeldBy(s, u)
  BY <1>1, HeldMoves
<1>4. W \in SUBSET Orders /\ IsFiniteSet(Units(W)) /\ SumOfAmounts(W) <= journal[u].held
  BY DEF FundsInv, Funded, Withdrawals, OpenOrders
<1>5. CASE job[s].target # order[o].status /\ job[s].target \in closed /\ o \in TokenOrders /\ OwnerOf[o] = u
  <2>1. order[o].status \in OpenStatuses
    BY <1>1, <1>5 DEF Successors, OpenStatuses
  <2>2. o \in W /\ Withdrawals(u)' = W \ {o}
    BY <1>1, <1>5, <2>1 DEF Withdrawals, OpenOrders, OpenStatuses
  <2>3. plan[s].kind \in {"debit_reserved", "release"}
    BY <1>1, <1>5 DEF MoneyOf
  <2>4. HeldBy(s, u) = -AmountOf[o] /\ AmountOf[o] \in Nat
    BY <1>1, <1>2, <1>5, <2>3, ConstantsOK DEF HeldBy, ConstantsOK
  <2> HIDE DEF W, o
  <2>5. /\ IsFiniteSet(Units(W \ {o})) /\ SumOfAmounts(W \ {o}) \in Nat
        /\ SumOfAmounts(W) = SumOfAmounts(W \ {o}) + AmountOf[o]
    BY <1>4, <2>2, UnitsOfOneLess
  <2>6. SumOfAmounts(W \ {o}) <= journal'[u].held
    BY <1>3, <1>4, <2>4, <2>5
  <2> QED
    BY <2>2, <2>5, <2>6 DEF Funded, SumOfAmounts, Units
<1>6. CASE ~(job[s].target # order[o].status /\ job[s].target \in closed /\ o \in TokenOrders /\ OwnerOf[o] = u)
  <2>1. OwnerOf[o] = u /\ o \in TokenOrders => (job[s].target \in OpenStatuses <=> order[o].status \in OpenStatuses)
    BY <1>1, <1>6 DEF Successors, OpenStatuses
  <2>2. Withdrawals(u)' = W
    BY <1>1, <2>1 DEF Withdrawals, OpenOrders
  <2>3. plan[s].kind \notin {"hold", "debit_reserved", "release"} \/ plan[s].user # u
    BY <1>1, <1>2, <1>6 DEF MoneyOf
  <2>4. HeldBy(s, u) = 0
    BY <2>3 DEF HeldBy
  <2> HIDE DEF W
  <2>5. journal'[u].held = journal[u].held
    BY <1>3, <2>4
  <2> QED
    BY <1>4, <2>2, <2>5 DEF Funded, SumOfAmounts, Units
<1> QED
  BY <1>5, <1>6

LEMMA FundedStep ==
  ASSUME IInv, FundsInv, [Next]_vars, NEW u \in Users
  PROVE  Funded(u)'
<1>1. ASSUME UNCHANGED <<order, journal>> PROVE Funded(u)'
  BY <1>1 DEF FundsInv, Funded, Withdrawals, OpenOrders, SumOfAmounts, Units
<1>2. ASSUME NEW s \in Sessions, CommitWalletOp(s) PROVE Funded(u)'
  <2>1. plan[s].kind \in {"credit", "debit", "hold"} /\ plan[s].amount \in Nat /\ MoveMoney(s)
        /\ UNCHANGED order
    BY <1>2 DEF IInv, TypeOK, Jobs, WellFormed, CommitWalletOp
  <2>2. journal[u].held \in Int /\ journal'[u].held = journal[u].held + HeldBy(s, u)
    BY <2>1, HeldMoves
  <2>3. HeldBy(s, u) \in Nat
    BY <2>1 DEF HeldBy
  <2>4. Withdrawals(u)' = Withdrawals(u)
    BY <2>1 DEF Withdrawals, OpenOrders
  <2>5. /\ IsFiniteSet(Units(Withdrawals(u))) /\ SumOfAmounts(Withdrawals(u)) <= journal[u].held
        /\ SumOfAmounts(Withdrawals(u)) \in Nat
    BY FS_CardinalityType DEF FundsInv, Funded, SumOfAmounts
  <2>6. SumOfAmounts(Withdrawals(u)) <= journal'[u].held
    BY <2>2, <2>3, <2>5
  <2> QED
    BY <2>4, <2>5, <2>6 DEF Funded, SumOfAmounts, Units
<1>3. ASSUME NEW s \in Sessions, \/ Admitted(s) \/ Rollback(s) \/ LimitPassed(s) \/ OrderLocked(s)
                                 \/ WalletLocked(s)
      PROVE  UNCHANGED <<order, journal>>
  BY <1>3 DEF Admitted, Begin, Rollback, LimitPassed, OrderLocked, WalletLocked, data
<1>4. ASSUME NEW m \in Staff, SetRole(m) PROVE UNCHANGED <<order, journal>>
  BY <1>4 DEF SetRole, data
<1>5. ASSUME UNCHANGED vars PROVE UNCHANGED <<order, journal>>
  BY <1>5 DEF vars, data
<1> QED
  BY <1>1, <1>2, <1>3, <1>4, <1>5, FundedCreate, FundedStatus, StepCases DEF IInv, Commit

\* The reserve of a wallet covers the open withdrawals of its user, whatever transfers,
\* credits and settlements overlap, unless the wallet was locked with an older copy.
THEOREM FundsCorrect == Spec => []OpenOrdersFunded
<1>1. IInv /\ FundsInv /\ [Next]_vars => FundsInv'
  BY ReservingStep, FundedStep DEF FundsInv
<1>2. IInv /\ FundsInv => OpenOrdersFunded
  <2> SUFFICES ASSUME IInv, FundsInv, NEW u \in Users \ stale
               PROVE  wallet[u].reserved >= SumOfAmounts(OpenOrders(u) \cap TokenOrders)
    BY DEF OpenOrdersFunded
  <2>1. wallet[u].reserved = journal[u].held
    BY DEF IInv, MoneyInv, BooksBalance
  <2>2. IsFiniteSet(Units(Withdrawals(u))) /\ SumOfAmounts(Withdrawals(u)) <= journal[u].held
    BY DEF FundsInv, Funded
  <2>3. SumOfAmounts(Withdrawals(u)) \in Nat
    BY <2>2, FS_CardinalityType DEF SumOfAmounts
  <2>4. journal[u].held \in Int
    BY DEF IInv, TypeOK
  <2> QED
    BY <2>1, <2>2, <2>3, <2>4 DEF Withdrawals
<1> QED
  BY <1>1, <1>2, FundsInit, Inductive, PTL DEF Spec
=============================================================================
