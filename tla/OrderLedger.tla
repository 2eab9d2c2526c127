---------------------------- MODULE OrderLedger ----------------------------
(***************************************************************************)
(* The order status workflow together with the ATXG wallets it moves money *)
(* in: services/order_status.py, services/order_flow.py, services/aex.py,  *)
(* services/referral.py and the HTTP and bot handlers that call them.      *)
(*                                                                         *)
(* Every request runs in a database session of its own at READ COMMITTED.  *)
(* A session takes row locks (SELECT ... FOR UPDATE) on an order and on a  *)
(* wallet, decides what to write, and commits or rolls back; its writes    *)
(* are seen by others only from the commit on.  A session also keeps the   *)
(* objects it has loaded: a row that was loaded when the request was       *)
(* authenticated is NOT read again by a later SELECT ... FOR UPDATE.       *)
(*                                                                         *)
(* What never changes about an order (owner, amount, whether it sells      *)
(* ATXG, the bonus it earns) is a constant function of its id.             *)
(***************************************************************************)
EXTENDS Integers, FiniteSets

CONSTANTS
    Users,          \* rows of Users; each has an ATXG wallet
    Staff,          \* the users that may hold an operator role
    Orders,         \* ids an order can get
    TokenOrders,    \* the orders whose currencySell is ATXG
    OwnerOf,        \* Orders -> Users
    AmountOf,       \* Orders -> amountSell
    ReferrerOf,     \* Users -> the user who invited them, or NoOne
    BonusOf,        \* Orders -> ATXG bonus of the referrer, 0 when it rounds to nothing
    Funds,          \* Users -> ATXG credited before the first step
    Amounts,        \* amounts of transfers and of manual credits and debits
    WithdrawLimit,  \* config.aex_withdraw_limit
    MaxActive,      \* MAX_ACTIVE_ORDERS_PER_USER
    Sessions,       \* requests that can be in progress at the same time
    Requests,       \* the operations clients call
    MaxTotal,       \* bound on the sums of a ledger that transfers and manual
                    \* credits and debits lead to
    NoOne           \* no user, no order, no session

Operations == {"create", "transfer", "credit", "debit", "take", "set", "usercancel", "role"}
StatusOps  == {"take", "set", "usercancel"}
WalletOps  == {"transfer", "credit", "debit"}

ASSUME ConstantsOK ==
    /\ Staff \subseteq Users
    /\ TokenOrders \subseteq Orders
    /\ OwnerOf \in [Orders -> Users]
    /\ AmountOf \in [Orders -> Nat \ {0}]
    /\ ReferrerOf \in [Users -> Users \cup {NoOne}]
    /\ BonusOf \in [Orders -> Nat]
    /\ Funds \in [Users -> Nat]
    /\ Amounts \subseteq Nat \ {0}
    /\ WithdrawLimit \in Nat
    /\ MaxActive \in Nat \ {0}
    /\ MaxTotal \in Int
    /\ Requests \subseteq Operations
    /\ IsFiniteSet(Sessions)
    /\ NoOne \notin Users \cup Orders \cup Sessions

VARIABLES
    order,      \* Orders -> [status, manager]; status "absent" before the row exists
    operators,  \* the staff that hold an operator role now
    revoked,    \* history: the staff that ever lost the role
    wallet,     \* Users -> [available, reserved]: the columns of AexWallets
    journal,    \* Users -> [total, held]: what the ledger entries of the wallet add up to
    entries,    \* Orders -> the order's entries under a unique reference
    tasks,      \* <<order, status>> pairs with rows in the Telegram outbox
    orderLock,  \* Orders -> the session holding the row lock, or NoOne
    walletLock, \* Users -> likewise for the wallet row
    pc,         \* Sessions -> where the request is
    job,        \* Sessions -> the request: [op, order, target, actor]
    plan,       \* Sessions -> what it will write: [manager, kind, user, amount]
    copy,       \* Sessions -> the wallet object the session has in memory
    stale       \* history: users whose wallet was locked by a session with an older copy

data == <<order, wallet, journal, entries, tasks>>
locks == <<orderLock, walletLock>>
request == <<pc, job, plan, copy>>
roles == <<operators, revoked>>
vars == <<data, roles, locks, request, stale>>

----------------------------------------------------------------------------
(* The wallet operations of AexService. *)

Kinds == {"credit", "debit", "hold", "release", "debit_reserved"}

\* Faulty: the reserved balance is not checked.
CoveredAvailableOnly(kind, w, amount) == kind \in {"debit", "hold"} => w.available >= amount

\* The checks made under the row lock before a balance is lowered.
Covered(kind, w, amount) ==
    /\ kind \in {"debit", "hold"} => w.available >= amount
    /\ kind \in {"release", "debit_reserved"} => w.reserved >= amount

\* The balances the service computes from the object it has in memory.
Moved(kind, w, amount) ==
    [available |-> CASE kind \in {"credit", "release"} -> w.available + amount
                     [] kind \in {"debit", "hold"}     -> w.available - amount
                     [] OTHER                          -> w.available,
     reserved  |-> CASE kind = "hold"                          -> w.reserved + amount
                     [] kind \in {"release", "debit_reserved"} -> w.reserved - amount
                     [] OTHER                                  -> w.reserved]

\* Faulty: a hold is written to one of the two balances.
WrittenAvailable(kind, row, new) == [row EXCEPT !.available = new.available]

\* The UPDATE names only the columns the service assigned.
Written(kind, row, new) ==
    [available |-> IF kind = "debit_reserved" THEN row.available ELSE new.available,
     reserved  |-> IF kind \in {"credit", "debit"} THEN row.reserved ELSE new.reserved]

\* The ledger entry of the operation, added to the sums of the wallet's ledger:
\* CREDIT and DEBIT entries change what the user owns, HOLD and RELEASE what is
\* set aside, and the DEBIT of a completed withdrawal both.
Booked(kind, sums, amount) ==
    [total |-> CASE kind = "credit"                       -> sums.total + amount
                 [] kind \in {"debit", "debit_reserved"}  -> sums.total - amount
                 [] OTHER                                 -> sums.total,
     held  |-> CASE kind = "hold"                          -> sums.held + amount
                 [] kind \in {"release", "debit_reserved"} -> sums.held - amount
                 [] OTHER                                  -> sums.held]

----------------------------------------------------------------------------
(* Orders. *)

OpenStatuses == {"created", "processing"}
Statuses == OpenStatuses \cup {"completed", "cancelled"}

\* Faulty: an administrator may cancel a completed order.
SuccessorsReopened(status) ==
    CASE status = "created"    -> {"processing", "cancelled"}
      [] status = "processing" -> {"completed", "cancelled"}
      [] status = "completed"  -> {"cancelled"}
      [] OTHER                 -> {}

\* _ALLOWED_STATUS_TRANSITIONS; leaving a final status of an ATXG order is also
\* refused by a check of its own.
Successors(status) ==
    CASE status = "created"    -> {"processing", "cancelled"}
      [] status = "processing" -> {"completed", "cancelled"}
      [] OTHER                 -> {}

OpenOrders(u) == {o \in Orders : OwnerOf[o] = u /\ order[o].status \in OpenStatuses}

\* Faulty: one order too many.
HasRoomInclusive(u) == Cardinality(OpenOrders(u)) <= MaxActive

HasRoom(u) == Cardinality(OpenOrders(u)) < MaxActive

Exists(o) == order[o].status # "absent"

\* Faulty: any operator may take over any open order.
CanReassignAny(o, actor) ==
    /\ actor # NoOne
    /\ order[o].manager \notin {NoOne, actor}
    /\ order[o].status \in OpenStatuses

\* An operator may take over an open order whose manager has lost the role.  The
\* former manager's role is read now; the actor's is that of the object loaded at
\* authentication, when the handlers asked for an operator.
CanReassign(o, actor) ==
    /\ actor # NoOne
    /\ order[o].manager \notin {NoOne, actor}
    /\ order[o].status \in OpenStatuses
    /\ order[o].manager \notin operators

\* The manager_id the handlers pass: none for the owner and for an administrator.
ManagerId(j) == IF j.op = "usercancel" THEN NoOne ELSE j.actor

\* validate_order_status_transition and the caller's allowed source statuses.
Allowed(j) ==
    LET current == order[j.order]
        assignee == current.manager
    IN  /\ j.op = "usercancel" => current.status = "created"
        /\ \/ ManagerId(j) = NoOne
           \/ assignee \in {NoOne, ManagerId(j)}
           \/ CanReassign(j.order, ManagerId(j))
        /\ \/ current.status = j.target
           \/ j.target \in Successors(current.status)

\* The manager the order has when the request is through.
AssignedManager(j) ==
    LET current == order[j.order]
        m == ManagerId(j)
        claims == /\ m # NoOne
                  /\ current.manager = NoOne
                  /\ current.status # j.target
                  /\ "processing" \in {j.target, current.status}
    IN  IF CanReassign(j.order, m) \/ claims THEN m ELSE current.manager

Nothing == [manager |-> NoOne, kind |-> "none", user |-> NoOne, amount |-> 0]

\* credit_referral_bonus: once per order, for an owner somebody has invited.
EarnsBonus(o) ==
    /\ o \notin TokenOrders
    /\ ReferrerOf[OwnerOf[o]] # NoOne
    /\ BonusOf[o] > 0
    /\ "referral" \notin entries[o]

\* The money movement that belongs to a status change, skipped when the order
\* already has the entry.
Settlement(j) ==
    LET o == j.order
        owner == OwnerOf[o]
        move(kind, u, a) ==
            [manager |-> AssignedManager(j), kind |-> kind, user |-> u, amount |-> a]
        nothing == [Nothing EXCEPT !.manager = AssignedManager(j)]
    IN  IF j.target = order[o].status THEN nothing
        ELSE CASE /\ j.target = "completed"
                  /\ o \in TokenOrders
                  /\ "debit" \notin entries[o] -> move("debit_reserved", owner, AmountOf[o])
               [] /\ j.target = "completed"
                  /\ EarnsBonus(o) -> move("credit", ReferrerOf[owner], BonusOf[o])
               [] /\ j.target = "cancelled"
                  /\ o \in TokenOrders
                  /\ "release" \notin entries[o] -> move("release", owner, AmountOf[o])
               [] OTHER -> nothing

\* Faulty: a cancellation is not announced.
AnnouncedUnlessCancelled(j) ==
    IF j.op = "take" \/ j.target \in {order[j.order].status, "cancelled"}
    THEN {}
    ELSE {<<j.order, j.target>>}

\* The outbox rows of a status change; a taken order and a mere change of
\* manager have none.
Announced(j) ==
    IF j.op = "take" \/ j.target = order[j.order].status THEN {} ELSE {<<j.order, j.target>>}

\* The entry under a unique reference that the request adds.
Reference(j, kind) ==
    CASE j.op = "create" /\ kind = "hold" -> {"hold"}
      [] j.op \in StatusOps /\ kind = "debit_reserved" -> {"debit"}
      [] j.op \in StatusOps /\ kind = "release" -> {"release"}
      [] j.op \in StatusOps /\ kind = "credit" -> {"referral"}
      [] OTHER -> {}

----------------------------------------------------------------------------
(* Sessions. *)

NoCopy == [available |-> -1, reserved |-> -1]
NoJob == [op |-> "none", order |-> NoOne, target |-> "none", actor |-> NoOne]

Init ==
    /\ order = [o \in Orders |-> [status |-> "absent", manager |-> NoOne]]
    /\ operators = Staff
    /\ revoked = {}
    /\ wallet = [u \in Users |-> [available |-> Funds[u], reserved |-> 0]]
    /\ journal = [u \in Users |-> [total |-> Funds[u], held |-> 0]]
    /\ entries = [o \in Orders |-> {}]
    /\ tasks = {}
    /\ orderLock = [o \in Orders |-> NoOne]
    /\ walletLock = [u \in Users |-> NoOne]
    /\ pc = [s \in Sessions |-> "idle"]
    /\ job = [s \in Sessions |-> NoJob]
    /\ plan = [s \in Sessions |-> Nothing]
    /\ copy = [s \in Sessions |-> NoCopy]
    /\ stale = {}

Begin(s, j, p, c) ==
    /\ pc[s] = "idle"
    /\ j.op \in Requests
    /\ pc' = [pc EXCEPT ![s] = IF j.op \in WalletOps THEN "locking" ELSE "begun"]
    /\ job' = [job EXCEPT ![s] = j]
    /\ plan' = [plan EXCEPT ![s] = p]
    /\ copy' = [copy EXCEPT ![s] = c]
    /\ UNCHANGED <<data, roles, locks, stale>>

\* The objects a request of u has in memory from the start: get_current_user
\* loads the user's wallet with the user, the bot's check_user does not.  A copy
\* that the request cannot come to use is left out.
Loaded(u, usable) == IF usable THEN {NoCopy, wallet[u]} ELSE {NoCopy}

\* POST /api/orders, POST /api/miniapp/orders, the bot's exchange dialog.
BeginCreate(s, o) ==
    /\ ~Exists(o)
    /\ \A t \in Sessions : job[t].op = "create" => job[t].order # o
    /\ \E c \in Loaded(OwnerOf[o], o \in TokenOrders) :
         Begin(s, [op |-> "create", order |-> o, target |-> "created", actor |-> OwnerOf[o]],
               IF o \in TokenOrders
               THEN [manager |-> NoOne, kind |-> "hold",
                     user |-> OwnerOf[o], amount |-> AmountOf[o]]
               ELSE Nothing,
               c)

\* POST /api/aex/transfer: a hold on one of the user's own orders.
BeginTransfer(s, o, a) ==
    /\ Exists(o)
    /\ journal[OwnerOf[o]].held + a <= MaxTotal
    /\ Begin(s, [op |-> "transfer", order |-> o, target |-> "none", actor |-> OwnerOf[o]],
             [manager |-> NoOne, kind |-> "hold", user |-> OwnerOf[o], amount |-> a],
             wallet[OwnerOf[o]])

\* POST /api/admin/aex/credit and /debit: an administrator has no wallet.
BeginManual(s, kind, u, a) ==
    /\ IF kind = "credit" THEN journal[u].total + a <= MaxTotal
                          ELSE journal[u].total - a >= -MaxTotal
    /\ Begin(s, [op |-> kind, order |-> NoOne, target |-> "none", actor |-> NoOne],
             [manager |-> NoOne, kind |-> kind, user |-> u, amount |-> a],
             NoCopy)

\* The bot's op:take button.
BeginTake(s, o, m) ==
    /\ Exists(o)
    /\ m \in operators
    /\ Begin(s, [op |-> "take", order |-> o, target |-> "processing", actor |-> m],
             Nothing, NoCopy)

\* PATCH .../orders/{id}/status by a manager or an administrator (NoOne), the
\* bot's op:cancel and op:close buttons.
BeginSet(s, o, status, m) ==
    /\ Exists(o)
    /\ m \in operators \cup {NoOne}
    /\ \E c \in Loaded(m, m # NoOne /\ m = ReferrerOf[OwnerOf[o]]) :
         Begin(s, [op |-> "set", order |-> o, target |-> status, actor |-> m], Nothing, c)

\* POST /api/orders/{id}/cancel by the owner.  The locking read of the order
\* reloads its user, so the wallet loaded at authentication is dropped.
BeginUserCancel(s, o) ==
    /\ Exists(o)
    /\ Begin(s, [op |-> "usercancel", order |-> o, target |-> "cancelled",
                 actor |-> OwnerOf[o]],
             Nothing, NoCopy)

----------------------------------------------------------------------------
\* Faulty: the wallet stays locked.
FinishKeepingWallet(s) ==
    /\ orderLock' = [o \in Orders |-> IF orderLock[o] = s THEN NoOne ELSE orderLock[o]]
    /\ pc' = [pc EXCEPT ![s] = "idle"]
    /\ job' = [job EXCEPT ![s] = NoJob]
    /\ plan' = [plan EXCEPT ![s] = Nothing]
    /\ copy' = [copy EXCEPT ![s] = NoCopy]
    /\ UNCHANGED walletLock

\* The end of a request: locks and the session's objects are gone.
Finish(s) ==
    /\ orderLock' = [o \in Orders |-> IF orderLock[o] = s THEN NoOne ELSE orderLock[o]]
    /\ walletLock' = [u \in Users |-> IF walletLock[u] = s THEN NoOne ELSE walletLock[u]]
    /\ pc' = [pc EXCEPT ![s] = "idle"]
    /\ job' = [job EXCEPT ![s] = NoJob]
    /\ plan' = [plan EXCEPT ![s] = Nothing]
    /\ copy' = [copy EXCEPT ![s] = NoCopy]

\* An error response, a lost connection or a crash: the transaction is undone.
Rollback(s) ==
    /\ Finish(s)
    /\ UNCHANGED <<data, roles, stale>>

Abort(s) ==
    /\ pc[s] # "idle"
    /\ Rollback(s)

\* The rows a session goes on to: the wallet when it moves money.
Proceed(s, p) == pc' = [pc EXCEPT ![s] = IF p.kind = "none" THEN "ready" ELSE "locking"]

\* The active orders are counted without a lock.
CheckLimit(s) ==
    /\ pc[s] = "begun"
    /\ job[s].op = "create"
    /\ IF HasRoom(job[s].actor)
       THEN /\ Proceed(s, plan[s])
            /\ UNCHANGED <<data, roles, locks, job, plan, copy, stale>>
       ELSE Rollback(s)

\* Faulty: the rows are read without FOR UPDATE.
OrderUnprotected(o) == TRUE
WalletUnprotected(u) == TRUE

\* SELECT ... FOR UPDATE waits while another session holds the row.
OrderFree(o) == orderLock[o] = NoOne
WalletFree(u) == walletLock[u] = NoOne

\* The wallet object the session has after the check for a takeover, which loads
\* the former manager and the actor with their wallets: that of the referrer to
\* be paid, if he is one of them, his wallet exists and it was not there before.
\* The former manager's object is kept only as long as something refers to it.
LookedUp(s) ==
    LET o == job[s].order
        u == ReferrerOf[OwnerOf[o]]
        actor == ManagerId(job[s])
    IN  IF /\ CanReassign(o, actor)
           /\ Settlement(job[s]).kind = "credit"
           /\ u \in {order[o].manager, actor}
           /\ copy[s] = NoCopy
        THEN {NoCopy, wallet[u]}
        ELSE {copy[s]}

\* The order row is locked and read afresh, the request is validated and what
\* it will write is decided.  Without a change there is nothing to commit.
LockOrder(s) ==
    LET j == job[s]
        o == j.order
    IN  /\ pc[s] = "begun"
        /\ j.op \in StatusOps
        /\ OrderFree(o)
        /\ IF Allowed(j) /\ <<j.target, AssignedManager(j)>> # <<order[o].status, order[o].manager>>
           THEN /\ orderLock' = [orderLock EXCEPT ![o] = s]
                /\ plan' = [plan EXCEPT ![s] = Settlement(j)]
                /\ Proceed(s, Settlement(j))
                /\ \E c \in LookedUp(s) : copy' = [copy EXCEPT ![s] = c]
                /\ UNCHANGED <<data, roles, walletLock, job, stale>>
           ELSE Rollback(s)

\* The session works on the object it already has, always that of the wallet it
\* may come to move money in; the locking read of the order drops the wallet of
\* the order's owner.
KeepsCopy(s) ==
    /\ copy[s] # NoCopy
    /\ job[s].op \in StatusOps => plan[s].user # OwnerOf[job[s].order]

InMemory(s) == IF KeepsCopy(s) THEN copy[s] ELSE wallet[plan[s].user]

\* A new withdrawal needs the configured minimum on the wallet, which is looked
\* up once: the reading and the locking read see the same object.
ReachesLimit(s) == job[s].op = "create" => InMemory(s).available >= WithdrawLimit

\* SELECT ... FOR UPDATE on the wallet and the checks made under the lock.
LockWallet(s) ==
    LET u == plan[s].user
    IN  /\ pc[s] = "locking"
        /\ WalletFree(u)
        /\ IF Covered(plan[s].kind, InMemory(s), plan[s].amount) /\ ReachesLimit(s)
           THEN /\ walletLock' = [walletLock EXCEPT ![u] = s]
                /\ copy' = [copy EXCEPT ![s] = InMemory(s)]
                /\ stale' = IF InMemory(s) = wallet[u] THEN stale ELSE stale \cup {u}
                /\ pc' = [pc EXCEPT ![s] = "ready"]
                /\ UNCHANGED <<data, roles, orderLock, job, plan>>
           ELSE Rollback(s)

\* The wallet UPDATE and the ledger INSERT of the session's money movement.
MoveMoney(s) ==
    LET p == plan[s]
        u == p.user
    IN  IF p.kind = "none"
        THEN UNCHANGED <<wallet, journal>>
        ELSE /\ wallet' = [wallet EXCEPT ![u] =
                             Written(p.kind, wallet[u], Moved(p.kind, copy[s], p.amount))]
             /\ journal' = [journal EXCEPT ![u] = Booked(p.kind, journal[u], p.amount)]

CommitCreate(s) ==
    LET o == job[s].order
    IN  /\ pc[s] = "ready"
        /\ job[s].op = "create"
        /\ MoveMoney(s)
        /\ order' = [order EXCEPT ![o] = [status |-> "created", manager |-> NoOne]]
        /\ entries' = [entries EXCEPT ![o] = @ \cup Reference(job[s], plan[s].kind)]
        /\ Finish(s)
        /\ UNCHANGED <<tasks, roles, stale>>

CommitWalletOp(s) ==
    /\ pc[s] = "ready"
    /\ job[s].op \in WalletOps
    /\ MoveMoney(s)
    /\ Finish(s)
    /\ UNCHANGED <<order, entries, tasks, roles, stale>>

\* One commit for the status, the manager, the money and the outbox rows.
CommitStatus(s) ==
    LET j == job[s]
        o == j.order
        p == plan[s]
    IN  /\ pc[s] = "ready"
        /\ j.op \in StatusOps
        /\ MoveMoney(s)
        /\ order' = [order EXCEPT ![o] = [status |-> j.target, manager |-> p.manager]]
        /\ entries' = [entries EXCEPT ![o] = @ \cup Reference(j, p.kind)]
        /\ tasks' = tasks \cup Announced(j)
        /\ Finish(s)
        /\ UNCHANGED <<roles, stale>>

\* An administrator revokes the operator role, or grants it when nobody has it.
SetRole(m) ==
    /\ "role" \in Requests
    /\ m \in operators \/ operators = {}
    /\ operators' = IF m \in operators THEN operators \ {m} ELSE operators \cup {m}
    /\ revoked' = revoked \cup (operators \ operators')
    /\ UNCHANGED <<data, locks, request, stale>>

Step(s) ==
    \/ CheckLimit(s)
    \/ LockOrder(s)
    \/ LockWallet(s)
    \/ CommitCreate(s)
    \/ CommitWalletOp(s)
    \/ CommitStatus(s)

Arrive(s) ==
    \/ \E o \in Orders : BeginCreate(s, o)
    \/ \E o \in Orders, a \in Amounts : BeginTransfer(s, o, a)
    \/ \E kind \in {"credit", "debit"}, u \in Users, a \in Amounts : BeginManual(s, kind, u, a)
    \/ \E o \in Orders, m \in Staff : BeginTake(s, o, m)
    \/ \E o \in Orders, status \in Statuses, m \in Staff \cup {NoOne} : BeginSet(s, o, status, m)
    \/ \E o \in Orders : BeginUserCancel(s, o)

Next ==
    \/ \E s \in Sessions : Arrive(s) \/ Step(s) \/ Abort(s)
    \/ \E m \in Staff : SetRole(m)

Spec == Init /\ [][Next]_vars

\* Python and PostgreSQL keep running, and a waiter on a row lock gets its turn.
FairSpec == Spec /\ \A s \in Sessions : SF_vars(Step(s))

----------------------------------------------------------------------------
(* What is promised. *)

WalletRow == [available : Int, reserved : Int]

TypeOK ==
    /\ order \in [Orders -> [status : Statuses \cup {"absent"}, manager : Staff \cup {NoOne}]]
    /\ operators \subseteq Staff
    /\ revoked \subseteq Staff
    /\ wallet \in [Users -> WalletRow]
    /\ journal \in [Users -> [total : Int, held : Int]]
    /\ entries \in [Orders -> SUBSET {"hold", "debit", "release", "referral"}]
    /\ tasks \subseteq Orders \X Statuses
    /\ orderLock \in [Orders -> Sessions \cup {NoOne}]
    /\ walletLock \in [Users -> Sessions \cup {NoOne}]
    /\ pc \in [Sessions -> {"idle", "begun", "locking", "ready"}]
    /\ job \in [Sessions -> [op : Operations \cup {"none"},
                             order : Orders \cup {NoOne},
                             target : Statuses \cup {"none"},
                             actor : Users \cup {NoOne}]]
    /\ plan \in [Sessions -> [manager : Staff \cup {NoOne},
                              kind : Kinds \cup {"none"},
                              user : Users \cup {NoOne},
                              amount : Nat]]
    /\ copy \in [Sessions -> WalletRow]
    /\ stale \subseteq Users

\* The ledger entries an order may have in a status.
EntriesIn(o, status) ==
    IF o \in TokenOrders
    THEN CASE status = "absent"       -> {{}}
           [] status \in OpenStatuses -> {{"hold"}}
           [] status = "completed"    -> {{"hold", "debit"}}
           [] status = "cancelled"    -> {{"hold", "release"}}
    ELSE IF status = "completed" THEN {{}, {"referral"}} ELSE {{}}

\* The ledger entries of an order are those its status calls for: a withdrawal
\* is held exactly once and then either debited or released, never both, and a
\* referral bonus exists for completed orders only (so the reversal that
\* update_order_status attempts after a cancellation finds nothing).
SettledWithStatus == \A o \in Orders : entries[o] \in EntriesIn(o, order[o].status)

\* No interleaving drives a balance below zero: the checks under the row lock
\* see the values the UPDATE is computed from.
NeverNegative ==
    \A u \in Users : wallet[u].available >= 0 /\ wallet[u].reserved >= 0

\* The balances of a wallet are what its ledger adds up to, for every wallet
\* that no session has locked while it had an older copy of it in memory.
BooksBalance ==
    \A u \in Users \ stale :
        /\ wallet[u].reserved = journal[u].held
        /\ wallet[u].available = journal[u].total - journal[u].held

\* The amounts of orders together, counted unit by unit.
Units(S) == UNION {{o} \X (1..AmountOf[o]) : o \in S}
SumOfAmounts(S) == Cardinality(Units(S))

\* The reserve covers the open withdrawals of the user, so that completing or
\* cancelling them never fails for want of reserved ATXG.
OpenOrdersFunded ==
    \A u \in Users \ stale :
        wallet[u].reserved >= SumOfAmounts(OpenOrders(u) \cap TokenOrders)

\* The count is taken without a lock, so requests in progress together can each
\* find room; a user never has more orders than that on top of the limit.
OpenOrdersBounded ==
    \A u \in Users :
        Cardinality(OpenOrders(u)) <= MaxActive + Cardinality(Sessions) - 1

\* A closed order always has its rows in the Telegram outbox, and a row is only
\* there for a status the order has reached.
OutboxFollowsStatus ==
    \A o \in Orders :
        /\ order[o].status \in {"completed", "cancelled"} => <<o, order[o].status>> \in tasks
        /\ \A status \in Statuses : <<o, status>> \in tasks =>
             order[o].status \in {status} \cup Successors(status)

\* A manager who has never lost the role keeps the orders assigned to him,
\* whoever else presses the buttons at the same time.
ManagerKeepsOrders ==
    [][\A o \in Orders :
          order[o].manager \notin revoked \cup {NoOne} =>
            order'[o].manager = order[o].manager]_vars

\* An order a manager has taken is cancelled through the status endpoints only:
\* the owner's cancellation loses, however the two requests overlap.
OwnerCancelsOnlyCreated ==
    [][\A o \in Orders :
          order[o].status = "processing" /\ order'[o].status = "cancelled" =>
            \E s \in Sessions : /\ pc[s] = "ready" /\ pc'[s] = "idle"
                               /\ job[s].op = "set" /\ job[s].order = o]_vars

\* What an order's entries say has become of its money.
SettlementOf(references) ==
    CASE references = {}                  -> "none"
      [] references = {"hold"}            -> "held"
      [] references = {"hold", "debit"}   -> "debited"
      [] references = {"hold", "release"} -> "released"
      [] references = {"referral"}        -> "bonus"
      [] OTHER                            -> "confused"

Lifecycle == INSTANCE OrderLifecycle WITH
    status <- [o \in Orders |-> order[o].status],
    settlement <- [o \in Orders |-> SettlementOf(entries[o])]

\* Sessions, locks and rollbacks notwithstanding, others see every order go
\* through the abstract lifecycle, its money settled in the very step in which
\* its status changes, and nothing after the final status.
ImplementsLifecycle == Lifecycle!Spec

\* Every request ends: no two requests wait for each other's row locks.
RequestsEnd == \A s \in Sessions : pc[s] # "idle" ~> pc[s] = "idle"

\* "All balance operations are atomic: SELECT FOR UPDATE + transaction"
\* (services/aex.py): every wallet always agrees with its ledger.
BalanceOperationsAtomic ==
    \A u \in Users :
        /\ wallet[u].reserved = journal[u].held
        /\ wallet[u].available = journal[u].total - journal[u].held
=============================================================================
