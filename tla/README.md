# Verification of the order back end

TLA+ specifications of the back end under `src/app`: a FastAPI service with a
PostgreSQL database (SQLAlchemy sessions at READ COMMITTED), Redis, and an
aiogram Telegram bot in the same process.  Users exchange currencies and the
internal token ATXG by placing *orders*; managers take, complete and cancel them
from the bot or a web panel; wallets, a ledger, notifications, a manager chat and
broadcasts hang on that workflow.

## 1. The system and its parts

| part | state it keeps | operations | talks to | what is hard |
|---|---|---|---|---|
| order status workflow (`services/order_status.py`, `repositories/order.py`) | `Orders.status`, `Orders.managerId` | create, take, set status, owner's cancel, reassign | wallets, outbox, referral bonus, in one transaction | concurrent handlers, roles revoked in between, one commit for five tables |
| ATXG wallets (`services/aex.py`, `models/aex.py`) | `AexWallets.balance_available/reserved`, `AexLedgerEntries` | credit, debit, hold, release, debit_reserved, transfer | orders, referral, admin panel | row locks against objects the session has loaded before |
| referral bonus (`services/referral.py`, `services/aex_rate.py`) | ledger entry per order | credit on completion | wallets, rates | the acting manager may be the referrer |
| order creation and numbers (`services/order_flow.py`, `services/order_numbers.py`) | `Orders`, `OrderNumberCounters` | limit, quote, hold, insert, number, notifications | wallets, Telegram | count without a lock, counter read without a lock, Telegram after the commit |
| Telegram outbox (`services/order_telegram_sync.py`) | `OrderTelegramSyncTasks` | enqueue, claim, deliver, retry, give up | Telegram, orders | leases, crashes, timeouts, repeated deliveries |
| order cards (`services/order_notifications.py`, `telegram/handlers/operator.py`) | message ids in `Orders`, the chats | send, replace, edit | outbox, workflow | two writers of one card; ids stored after the message is sent |
| manager chat (`services/chat*.py`, `repositories/chat.py`) | conversations, messages, delivery claims, unread counters | capture, send, retry, attach, forward, mark read | Telegram, websocket hub | leases, redelivered updates, counters |
| broadcasts (`modules/broadcasts`) | campaign, progress counters, in-memory queue | start, cancel, run, recover | Telegram, shutdown | bounded queue, dying workers, restart |
| chat inbox (`telegram/handlers/chat.py`, `services/chat.py`) | messages, unread counter, one notification | capture, edit, count, notify, mark read | Telegram, Redis, Mini App | two readers of one feed, redelivery |
| bot polling (`telegram/bot.py`) | Redis lock, tasks | acquire, renew, release, retry, stop | Redis, Telegram | non-atomic renew and release |
| exchange dialog (`telegram/handlers/exchange.py`) | FSM state and data | steps, confirm | rates, order creation | stale buttons, overlapping presses |
| administration (`api/routers/admin.py`) | `session_version`, passwords, attempt counter, roles | login, refresh, logout, password, roles | Redis, database | check-then-act, rows written from copies |
| rates and quotes (`services/rate_*.py`, `services/exchange.py`) | `Rates` | fetch, merge, quote | two providers | partial answers, rounding |
| attribution and marketing (`services/attribution.py`, `services/auth.py`, `modules/marketing`) | acquisitions, touches, campaigns | first acquisition, touch, resolve, report | orders, referral | unique constraints under concurrency, reports that must agree |
| site leads (`services/site_leads.py`) | Redis guards, leads | guard, save, notify | Redis, Telegram | guard before save |

Read models, schemas, texts, keyboards, settings, seeds and migrations keep no
state of their own.

What makes each part correct is stated with its module below; the places where
it could go wrong are the `hazards` of `PROJECT.json`.

Where each part is:

| part | modules | runs |
|---|---|---|
| workflow, wallets, referral bonus | `OrderLedger` implements `OrderLifecycle`; `OrderLedgerProofs` | `OrderLedger_lifecycle`, `_money`, `_workflow`, `_atomic` |
| outbox and cards | `OrderCards`, `OrderCardsProofs` | `OrderCards_outbox`, `_settle` |
| delivery of the manager's messages | `ChatDelivery`, `ChatDeliveryProofs` | `ChatDelivery_once` |
| chat inbox | `ChatInbox`, `ChatInboxProofs` | `ChatInbox_feed` |
| broadcasts | `Broadcasts`, `BroadcastsProofs` | `Broadcasts_delivery` |
| bot polling | `PollingLock`, `PollingLockProofs` | `PollingLock_owner` |
| exchange dialog, quotes | `ExchangeDialog` (on `Rates`), `Quotes`; `ExchangeProofs` | `Exchange_dialog` |
| numbers | `OrderNumbers`; `FrontDoorProofs` | `FrontDoor_parts` |
| accounts and marketing | `Accounts` (on `OrderNumbers`); `FrontDoorProofs` | `FrontDoor_parts` |
| administration | `AdminDesk`; `FrontDoorProofs` | `FrontDoor_parts` |
| site leads | `SiteLeads`; `FrontDoorProofs` | `FrontDoor_parts` |
| rates | `Rates`; `FrontDoorProofs` | `FrontDoor_parts`, `Exchange_dialog` |
| the last five together | `FrontDoor`; `FrontDoorProofs` | `FrontDoor_parts` |

## 2. The modules

### OrderLedger - orders and wallets

One database session per request (`Sessions`), at most one request in each.  A
request goes `idle -> begun -> (locking ->) ready -> idle`; every arrow is one
action, and only the last one, the commit, changes what others see.  `Abort`
(an error response, a lost connection, a crash) can happen anywhere and undoes
the session.

| state | code |
|---|---|
| `order[o]` | `Orders.status`, `Orders.managerId`; "absent" before the insert |
| `operators`, `revoked` | users with an operator role now; history of revocations |
| `wallet[u]` | `AexWallets.balance_available`, `balance_reserved` (a missing wallet is an empty one) |
| `journal[u]` | sums of the wallet's `AexLedgerEntries` |
| `entries[o]` | ledger entries under the unique references of an order |
| `tasks` | rows of `OrderTelegramSyncTasks` (what happens to them: `OrderCards`) |
| `orderLock`, `walletLock` | `SELECT ... FOR UPDATE` row locks |
| `pc`, `job`, `plan` | the request, and what it has decided to write |
| `copy` | the wallet object in the session's identity map |
| `stale` | history: wallets locked by a session whose copy was older |

| actions | code |
|---|---|
| `BeginCreate`, `CheckLimit`, `LockWallet`, `CommitCreate` | `create_order_for_user`, `hold_order_withdrawal` |
| `BeginTransfer`, `BeginManual`, `LockWallet`, `CommitWalletOp` | `POST /api/aex/transfer`, `/api/admin/aex/credit`, `/debit` |
| `BeginTake`, `BeginSet`, `BeginUserCancel`, `LockOrder`, `LockWallet`, `CommitStatus` | `take_order_in_work`, `update_order_status` and their handlers |
| `SetRole` | `PATCH /api/admin/users/{id}` |

The important detail is `copy`.  `get_current_user` loads the user's wallet with
the user; a later `SELECT ... FOR UPDATE` of `_get_wallet_for_update` waits for
the row but, without `populate_existing`, returns the object that is already in
the session, with the old balances, and the UPDATE is computed from them.  The
owner's cancellation is not affected (its locking read of the order reloads the
user).  The sessions of the bot and of administrators begin without a wallet; only
the check of a takeover loads two, the former manager's and the actor's, and a
bonus that is credited to one of them afterwards is computed from that copy
(`LookedUp`).  `KeepsCopy` says which requests go on with the copy they have.

`CanReassign` looks at the former manager's role as it is when the order is locked,
but not at the actor's: that one is the role the session has read at
authentication, so a manager who is revoked in between can still take over.

`OrderLifecycle` is the abstract specification: an order's status and what became
of its money, changed in one step.  `OrderLedger` implements it
(`ImplementsLifecycle`).

Runs (module `MCOrderLedger`):

| run | instance | shows |
|---|---|---|
| `OrderLedger_lifecycle` | a plain order of an invited user and a withdrawal of the user who invited them, 2 sessions, with fairness | `SettledWithStatus`, refinement of the lifecycle (`ImplementsLifecycle`), `RequestsEnd` |
| `OrderLedger_money` | two withdrawals and a plain order of one user, transfers and manual debits, limit 1, 2 sessions | `NeverNegative`, `BooksBalance`, `OpenOrdersFunded`; `OpenOrdersBounded`: the limit can be exceeded, by one order for each further request in progress and no more |
| `OrderLedger_workflow` | two managers, administrator and owner on one plain order whose bonus goes to one of the managers, 3 sessions, roles change | `OutboxFollowsStatus`, `ManagerKeepsOrders` |
| `OrderLedger_atomic` | two creations of withdrawals by the web | **violated**: `BalanceOperationsAtomic`, the sentence at the top of `services/aex.py` |

The violated run is the finding of this part: two requests that authenticate
before either commits both hold their amounts; the second UPDATE overwrites the
first.  Afterwards two open withdrawals share one reserve, and the one that is
settled second can be neither completed nor cancelled (`RESERVED_EXCEEDS`).
`BooksBalance` and `OpenOrdersFunded` exempt exactly the wallets this has happened to
(`stale`): what they are about is every other interleaving.

*Bounds.*  One to three orders, two sessions (three for the workflow), amounts 1
and 2 with a credit of 2 so that one withdrawal or transfer fits and the next
does not, ledger sums within `MaxTotal` for the operations that could be
repeated for ever.  All interference in this code is between a request that has
read something and one that commits; two sessions reach every such pair, the
third is there for two managers and the owner.  Deadlock is not checked: when all
orders are closed and roles do not change the system may stop; that requests do
not wait for each other is `RequestsEnd`.

Manual credits (`credit`) are an operation of the module and of the proofs; no
run asks for them, a debit takes the same path with the other sign.

*Fairness.*  `FairSpec` asks for strong fairness of every session's own steps:
Python and PostgreSQL keep running, and a session waiting for a row lock gets it
when it is free again and again (PostgreSQL queues waiters).  Nothing is assumed
about arrivals, aborts or administrators.

*Proofs* (`OrderLedgerProofs`), for any users, orders, sessions and amounts that
satisfy `ConstantsOK`: `TypeCorrect`, `SettlementCorrect`, `BalancesCorrect`,
`BooksCorrect`, `OutboxCorrect`, `AssignmentCorrect`, `OwnerCancelCorrect`,
`LimitCorrect`, `LifecycleImplemented`.  (`TypeOK` and `OwnerCancelsOnlyCreated`,
an order in work is cancelled through the status endpoints only, are proved and
belong to no run.)  They all rest on `Inductive`, the invariant `IInv`:

* `Jobs`: what the fields of a request are at its pc.
* `Creations`: an order being created is absent and no two sessions create it.
* `Decisions`: a status request past `LockOrder` holds the order row, and what it
  has planned is still what the row calls for.  Here the lock is needed: without
  it the row changes under the plan, which is what the mutant `OrderUnprotected`
  shows.
* `Managers`, `Outbox`, `SettledWithStatus`: about the committed rows.
* `MoneyMoves`: the copy of a session that holds a wallet row covers its
  movement, and equals the row unless the wallet is `stale`.
* `NeverNegative`, `BooksBalance`: follow from it at the commit.

`NeverNegative` needs no exception for stale wallets: the balances written are
the copy's, which were checked.  The action properties and the refinement use
`IInv` in the state before the step.

`LimitCorrect` proves `OpenOrdersBounded` by counting (`LimitInv`): the open orders
of a user and the creations past the check that has no lock are never more than
`MaxActive` + |`Sessions`| - 1.  A passing check finds at most `MaxActive` - 1 open
orders and at most all sessions past it; a commit moves one from the second set to
the first; and no status change opens an order again, which is again `Decisions`.
It needs `Sessions` to be finite.

`FundsCorrect` proves `OpenOrdersFunded` from what the ledger has set aside for a user
(`FundsInv`): a creation, a release and a debit of an order are planned for its owner
and its amount (`Reserving`), so a commit moves the held sum by as much as it moves
the amounts of the open withdrawals, and `BooksBalance` turns the held sum into the
reserve.  The sum of the amounts is stated as the number of their units, which the
library's facts about cardinality add up; a fold would need an induction over the set.

Only model-checked: `RequestsEnd` (liveness).

*Left out here*: quotes and rates (`Quotes`, `ExchangeDialog`; the bonus of an
order is a constant), wallet history, what is sent to Telegram (`OrderCards`), the
attribution captured with the order (`Accounts`).  After the
commit of a cancellation `update_order_status` takes back the referral bonus of a
plain order in a second transaction; a completed order has no successor status,
so by `SettledWithStatus` there is never one to take back.

### OrderCards - the outbox and the cards of an order

One order, its outbox rows and the two cards Telegram shows of it.  A worker of
the outbox goes `idle -> claimed -> locked -> sending -> sent -> idle`; from
"locked" on it holds the row of its task, from "sending" on the row of the order.
A handler goes on after its own commit, without any row:
`greeting -> greeted -> storing`, `handoff -> storing -> editing`.

| state | code |
|---|---|
| `status`, `link` | `Orders.status`; the message ids stored with the order |
| `chat` | the messages Telegram has of each card, by id: what it shows, whether it says that the customer was told, whether it is still there |
| `task` | `OrderTelegramSyncTasks`: status, attempts, claim token (`holder`), `leaseUntil` in the future (`leased`) |
| `worker`, `handler` | where the loops and handlers are, and what they carry in memory |
| `faults`, `races` | what went wrong so far; which orderings have happened |

| actions | code |
|---|---|
| `Claim`, `LeaseEnds` | `claim_due` and the passing of its lease |
| `LockTask`, `LockOrder`, `SendUser`, `EditManager`, `Record` | `process_order_telegram_sync_batch` and what it calls |
| `TimeOut`, `CountAttempt`, `Crash` | the timeout of a delivery, the transaction that counts it, a process that dies |
| `Greet`, `StoreGreeting`, `Introduce`, `StoreLinks`, `LoseLinks` | `notify_order_created` after `create_order_for_user` |
| `Take`, `TakeAgain`, `Handoff`, `EditCard` | the take button: `take_order_in_work`, `send_customer_handoff`, the manager's card |
| `Close`, `ChangeByWeb` | every other change of status: the rows are enqueued with it |
| `DeleteCard` | the manager deletes a card from the chat (environment) |

| run | instance | shows |
|---|---|---|
| `OrderCards_outbox` | 2 workers on the rows of one status; timeouts, crashes, outages, refusals, an overrun lease; with fairness | `DuplicatesExplained`, `CardIsHonest`, `TasksEnd` |
| `OrderCards_settle` | 1 worker, 2 handlers, two changes of status by the web or the buttons | `CardsSettle` |

Two orders of steps no test has are written into these properties as their
exceptions.  In the first (`"overtaken"` in `races`) a handler still has to send the card of its status when another request commits the next
status and the outbox delivers it: the card of the older status is sent last and
its id overwrites the newer one, so that even the next replacement deletes the
wrong card.  In the second (`"skipped"`) the second press of the button finds the order in
work, sends nothing and confirms the delivery on the manager's card, although
the first handoff has failed.  `CardsSettle` and `CardIsHonest` say that these
are the only ways for it to happen: they hold in every behaviour in which no
handler was overtaken and no order in work was taken again.

*Bounds.*  `MaxAttempts` 2 (a first attempt, a last one); at most `MaxFaults`
faults, one or two, because each adds at most one repetition and the properties
count them; statuses `processing` and `completed`, one after the other; a worker
outlives its lease at most once ("slow" is counted in `races`).  Cancellation
runs through the same code as completion.

*Fairness.*  Weak fairness of each worker's steps, because every process runs
`order_telegram_sync_loop` until it stops and the rows it waits for are locked
for the time of a delivery only, and of `LeaseEnds`, because time passes.
Handlers, faults and people are not assumed to do anything.

*Proofs* (`OrderCardsProofs`: `CardTypeCorrect`, `DuplicatesCorrect`,
`HonestCorrect`, `SettleCorrect`) for any workers, handlers, buttons, statuses, attempts
and faults, from `CardsInv`:

* `LocksInv`: whoever has a task's row has its claim, a row has one worker, and
  while the order is locked its status is the one the task is for.
* `TasksInv`: no task is there for a status that is still to come, and a status
  has the tasks of both cards or neither; an open task has attempts left.
* `CountInv`: as long as a task may be sent again, one card less was sent than
  the faults allow.  So a repetition is paid for when it becomes possible (an answer
  lost, a process that died with the card sent), not when it is sent.
* `HonestInv`: a "processing" task that was delivered, a worker about to record
  that, or a handler that is about to say so, means that the customer was told.
* `SettleInv`: as long as no handler was overtaken, a handler that has links to store
  finds no task of the order's status, what it is going to edit shows that status,
  and a card that a worker or a delivered task stands for shows it too.

*Left out here*: texts and keyboards, the write-access flag of the customer,
several managers with a card each, the second attempt of a rich message as plain
HTML (one delivery), the waiting time before a retry (a retry may come at once),
presses of a button whose status is already reached.

### OrderNumbers - the public number of an order

The transaction of a creation, as far as the number goes: `Begin` (the time of
creation is taken), `Read` (the counter, without a lock), `Write` (the counter is
flushed: the row is locked until the end of the transaction), `Commit` (the order
is inserted; the number must be free and fit its column), `Rollback`.
`MonthEnds` is the clock.

| state | code |
|---|---|
| `counter[y]` | `OrderNumberCounters.lastValue`, -1 before there is a row |
| `lock[y]` | the row lock or the pending insert of a counter |
| `orders` | the committed numbers, as month and value |
| `session[s]` | a creation: its month, the value it has read |
| `late` | history: an order was committed in a later month than its number's |

The module has no run of its own: `Accounts` creates its orders with these
actions, and `FrontDoor_parts` (two creations at a time, three orders, two months
of one year, numbers that fit up to 2) checks `Consecutive` with it.  The unique
column makes up for the missing lock: two creations that read the same value
write the same number and the second fails, so the numbers of a year are 1, 2,
3... without gaps.  The exception, `late`: the number is unique together with its
month only, and a creation that began before midnight of the last day of a month
can commit after creations of the new month, repeat the value of one of them and
set the counter back; the next creations of the new month then fail on numbers
that are taken.  A value beyond `Largest` (9999) does
not fit the column: from then on creations fail until the year ends; what the
run shows is that none is stored.

*Proofs* (in `FrontDoorProofs`), for any number of sessions, orders, months and
months in a year: `TypeCorrect`, `NumbersConsecutive`, `NextFree` (the number the
next creation would take is free), from the
inductive invariant `NInv`: as long as nothing was late, the numbers up to the
counter of a year are taken and no other (`Counted`), and what a session of this month has read
is either still what the counter holds or leads to a number that is taken
(`SeenOrTaken`): the fact that stands in for the lock.  `NotAhead` makes a
session of an earlier month "late" when it commits.

### ChatDelivery - a manager's message on its way to the customer

One message with the key its client has chosen, and the requests that carry this
key: the first one and its repetitions, from one tab or several.  The row is
inserted and committed before Telegram is called; a *claim* with a lease of two
minutes decides who calls.

| state | code |
|---|---|
| `kind` | a text (`chat.py`), a forward (`chat_forwarding.py`) or an attachment (`chat_attachments.py`) |
| `row` | `ChatMessages`: delivery status, claim token and whether its two minutes are running, whether the bytes are still there |
| `request[r]` | a request: where it is, and the status the object in its session has |
| `copies`, `faults`, `overrun` | history: messages the customer has, faults so far, a lease that ended before its holder did |

| actions | code |
|---|---|
| `Arrive`, `Look` | the endpoints of `api/routers/manager.py` and `manager_attachments.py`; the row by its key |
| `Insert` | insert and commit; on the unique key's `IntegrityError` the row is looked up again |
| `Claim` | `claim_text_delivery` / `claim_attachment_delivery`, commit, refresh |
| `Send` | the Telegram call: delivered, refused, or delivered with the answer lost |
| `Record` | the status if the session sees a change, the payload dropped after success, the claim released if it is still one's own, commit |
| `Crash`, `LeaseEnds` | a process ends at any step; two minutes pass |

`ChatDelivery_once` shows: copies beyond the first are each paid for by a lost
answer, a crash between Telegram and the commit, or an overrun lease
(`CopiesExplained`); a message marked sent is never claimed or marked again
(`SentStays`) and, without faults, a message at rest is marked sent exactly when
the customer has it (`StatusHonest`), which depends on the refresh after the
claim; a message that is not sent can be repeated (`RetryPossible`).  The last
two hold only while no lease has ended before its holder: then the late holder of
a failed call marks a delivered message as failed, and an attachment whose bytes
are gone can be neither sent nor repeated.  The comment at `chat.py:242` promises
that a repetition finds the pending row and sends nothing; after a crash between
Telegram and the last commit it does send, once the lease is over.

*Bounds.*  Three requests (one inserts, one repeats, one finds the claim taken);
two faults, so that faults combine; refusals are not bounded.  aiogram gives up
after 60 seconds, so an overrun lease means a process that was held up ("slow"
counts as a fault).  No fairness is assumed: nothing retries a message by itself,
and there is no liveness to claim.

*Proofs* (`ChatDeliveryProofs`), for any finite number of requests, any kinds of
messages and any number of faults: `TypeCorrect`, `CopiesCorrect`,
`StatusCorrect`, `RetryCorrect`, `SentCorrect`, from `DInv`.  The bound on the
copies is not inductive by itself: a request that is still sending, one whose
call failed (its `Record` will open the message for another claim) and a message
that can be claimed each stand for a copy that may still come.  `CopiesPaid`
counts them together (`Weight`): a claim takes the right of the claimable
message, a failure gives it back, and whatever adds to the sum - a lost answer, a
crash, an overrun lease - is a fault.  `Exclusive` (who delivers holds the claim
and the message is pending) and `PutAway` (a sent message has neither claim nor
bytes) hold until the first overrun lease; `ClaimsWork`, `PendingWorked`,
`RowKnows` and `RequestsKnow` describe the time before the first fault.

*Left out here*: the text and its limits, who may write to whom, the source of a
forward, the event that is published afterwards, the media group.

### Broadcasts - a campaign to all users

| state | code |
|---|---|
| `row[c]` | `Broadcasts`: status, `success_count`, `failed_count` |
| `run[c]` | the task of `run_broadcast` / `deliver_recipients`: where it is, its process, the next recipient, `None`s left to put, the queue, the counters, what it will close the campaign with (the counts of a fatal error, or of the end) |
| `worker[c][w]` | a worker: what it is about to do, its recipient, what came of it |
| `stopper[c]` | a stop request that found the campaign active |
| `up` | processes: two during a deployment |
| `got[c][i]` | what recipient i has received |
| `stuck`, `orphaned`, `late` | history, see below |

| actions | code |
|---|---|
| `Create`, `Schedule` | `create_broadcast_route`: row and commit under `uq_broadcast_active_singleton`, then the task |
| `LookAtRow`, `Begin` | `run_broadcast` up to the commit of `mark_running` |
| `Fetch`, `Put`, `PutStop`, `Join`, `Report` | `deliver_recipients`: the audience, the bounded queue, one `None` per worker, `join`, the cancelled workers, the last progress |
| `LookAgain`, `Close` | the row read again, `mark_completed` or `mark_failed`, commit |
| `Get`, `Send`, `Count`, `Persist`, `Register` | `worker` and `send_to_recipient` with their exceptions, under `processed_lock` |
| `AskToStop`, `Cancel`, `MarkStopped` | `stop_broadcast` |
| `Exit`, `Start` | the end of a process, and `recover_stale_broadcasts_on_startup` |

A step of a worker or task lasts from one `await` to the next; the lock is a
guard (`LockFree`).  What may go wrong is a constant (`Failures`): a refused
message, a lost answer, an unknown exception, the "paid broadcast" error that
ends a worker, a progress that cannot be stored, an audience that cannot be read,
a failed commit, the end of a process.

`Broadcasts_delivery` shows (`RecipientsAccounted`): nobody gets a message twice,
the successes of a row are real, and a completed campaign has counted everybody
once, although a success whose progress cannot be stored is counted as a failure
besides - the campaign then fails.  When a campaign is closed it is silent
(`SilentWhenClosed`) and keeps its status (`ClosedOnce`); and it is closed in the end (`CampaignsEnd`).  The exceptions are
written into the properties, because they are what the code does:

* `orphaned`: `_active_tasks` is local to a process.  A stop request at the other
  process, a request that comes between the commit and `schedule_broadcast`, or
  the recovery at the start of a second process closes the campaign while its
  task goes on delivering.
* `late`: a stop request writes "stopped" on the row as it was read first; when
  the campaign has ended meanwhile that status is overwritten.
* `stuck`: `join` waits until every item has been reported done, so a worker that
  dies of its own exception leaves a campaign that never ends unless the other
  workers drain the queue; a failed commit leaves the row active; and a process
  that ends while another is up leaves it to the next start.

*Fairness.*  Weak fairness of the task, the workers and the stop request, which
the event loop runs as soon as what they wait for is there (Telegram and database
calls have timeouts), and of `Start` when no process is up.  Nobody has to create
or stop a campaign, and processes need not end.

*Bounds.*  Two recipients, two workers and a queue of two (instead of 8 or 64
workers and twice as many places), so that the queue is full when the first
`None` is put; the progress is stored at the second recipient and at the end; two
processes; one campaign, whose row another campaign could only keep from
starting.

*Proofs* (`BroadcastsProofs`: `TypeCorrect`, `RecipientsCorrect`, `SilenceCorrect`,
`ClosingCorrect`) for any campaigns, processes, workers, recipients, queue and
progress interval.  The parts of `BInv` follow a recipient: it has not been put yet
(`Untouched`), or it is in the queue once (`QueuedOnce`), or one worker has it
(`HeldOnce`), or it was tried (`AllTried`: nobody is left when the task closes the
campaign).  The counters of a clean campaign - none of whose counts could not be
stored - are the recipients put less those in the queue or in hands (`CountedOnce`, with
`Outstanding`); successes are never more than recipients who have the message (`SuccessesReal`).
What is closed has no task that delivers (`ClosedIdle`), and a stop request that still wants to
write finds its campaign active or will be late (`LateKnown`); both except the
`orphaned` and `late` campaigns, and no others.

*Left out here*: the rate limiter and flood waits, which only take time, texts
and buttons, the size of the pages the audience is read in; a recipient whose
message was under way when its task was cancelled may still get it.

### ChatInbox - what the customers write to the bot

The feed of updates, the processes that read it (two during a deployment or when
the polling lock has slipped), the conversation and the manager's notification.

| state | code |
|---|---|
| `arrived`, `confirmed` | updates at Telegram; those before the offset of a `getUpdates`, which it forgets |
| `step`, `at`, `last`, `own` | where the dispatcher of a process is, its batch, what the handler holds in memory |
| `stored[m]` | the row of a message in `ChatMessages`: the update whose content it has |
| `unread`, `pending` | `ChatConversations.unread_count`; history: which messages it counts |
| `reading` | a request to mark the conversation read, with the counter it loaded |
| `online`, `viewing` | the presence keys of `ManagerRealtimeHub` |
| `key`, `shown`, `nextId` | the Redis key with the last notification; the notifications the manager sees |

| actions | code |
|---|---|
| `Arrive`, `Start`, `Fetch`, `Conflict` | the feed: a batch is handled one update after the other and confirmed by the next call; `start_polling` begins without an offset |
| `Elsewhere`, `CaptureEdit`, `PublishEdit`, `CaptureInbound`, `LookAtManager`, `Commit`, `Refused` | `capture_inbound`, `capture_edit`, `publish_message_updated`, `touch_inbound`; the unique index on the Telegram message |
| `CaptureFails` | the retry marker that ends `start_polling` before the update is confirmed, before a commit or after it while the message or edit is published |
| `Wake`, `Send`, `Swap`, `Delete`, `NoticeFails` | `publish_message_created`, `_notify_manager`: the new notification is sent, `SET ... GET` swaps the key, the old one is deleted |
| `BeginRead`, `EndRead`, `Stream`, `View`, `Crash` | the manager's Mini App; a process that dies |

`ChatInbox_feed`: what Telegram will not deliver again is stored, in the latest
edit it has confirmed (`ConfirmedIsKept`); the counter counts each message once
(`UnreadExplained`); one notification remains and Redis knows it, as long as
nothing failed (`OneNotification`); no update stops the feed (`FeedDrains`).
Behaviour the properties leave room for, because it is the code's: a message that
comes between the load and the UPDATE of `mark_read` is swept from the counter
unseen; a failure after the commit asks for the update again, but finds it stored
and sends no notification; and Telegram dates edits in seconds, so that of two
edits of one second the batch of a second process can leave the older text.

*Bounds.*  Four updates: one for another dialog, two edits of a message that was
never captured (the older can be handled after the newer), a new one; two
processes; one fault of any kind.  *Fairness.*  Weak fairness of starting, fetching
and handling: a process is restarted, and polling goes on after an error.

*Proofs* (`ChatInboxProofs`: `InboxTypeCorrect`, `ConfirmedCorrect`, `UnreadCorrect`,
`NotificationCorrect`) for any feed, processes and faults.  `FeedInv` says where
a process may be in its batch (`Placed`) and that what is stored is of an update
that has arrived and is of this message (`StoredReal`).  `ConfirmedIsKept` needs what
is kept of a batch before it is confirmed: every update a process has behind it
is stored as late as it says, or the process is about to give up the batch
(`KeptInv`); the dates of the stored content only grow (`Grows`).  `CountInv` finds in `unread`
the size of `pending`, in which a message is counted once because its row is
there; `NoticeInv` says who may still delete which notification.  The one thing assumed of
Telegram (`FeedInOrder`) is that a new message has no date of an edit and that the
feed has the edits of a message in the order of their dates.  The code needs it where it does not compare dates: an edit whose message was not found, and is
found when it should be inserted, is left out, because whoever stored the message meanwhile
had it from a later update.

### PollingLock - who reads the bot's updates

| state | code |
|---|---|
| `lock` | the Redis key: owner and periods to live |
| `main[p]`, `renewer[p]` | the task of `_run_polling_singleton` and that of `_renew_polling_lock_loop` |
| `due` | renewals that belong to the period that is passing |
| `lost` | `_polling_lock_lost` |
| `faults`, `slips` | what went wrong; how much of it was Redis or a stalled event loop |

`Acquire` (SET NX EX), `Confirm` and `Enter` (GET and EXPIRE of the first renewal,
whose answer nobody looks at, then polling), `Check` and
`Renew` (GET, EXPIRE), `LoseLock`, `Leave` and `Free` (GET, DELETE),
`PollingFails`, `PollAgain`, `PollingDies`, `Stopped`, `StopBot`, `Exit`, `Tick`.
One period is ten seconds; a process that does not act within it is stalled,
which is a slip.

`PollingLock_owner`: without slips only the owner polls, through crashes,
shutdowns and errors of Telegram (`OnlyOwnerPolls`).  With them another process
may get the key between GET and EXPIRE or GET and DELETE; a process that polls
without the key leaves or gets it back (`IntrudersLeave`) - unless its renewal
task has died of an exception, after which it polls without a lock until it is
stopped; and who waits gets its turn (`Takeover`).  An error of Redis while the
lock is asked for ends the polling task of that process for good.

*Bounds.*  Two processes, a key of three periods, two faults; processes start and
stop without a bound.  *Fairness.*  Weak fairness of the two tasks of a process;
strong fairness of `Tick`, because time passes however often processes restart.

*Proofs* (`PollingLockProofs`: `LockTypeCorrect`, `PollersOwn`) for any processes
and any key that lives at least two periods.  `OnlyOwnerPolls` is not inductive:
a process polls long after it got the key.  The invariant says, until the first
slip, that whoever starts, polls, tries again or frees the key is its owner
(`OwnersRight`), that a process that starts, up to the EXPIRE of its first renewal,
has just set it (`StartsFresh`), and
that the renewal task of one that polls is alive and has renewed the key in this
period, or still will, one period after the last time (`Renewed`) - which is why
the key must outlive a period.

### Rates and Quotes - prices

`Rates`: updaters (one per process) ask CurrencyBeacon, ask again for missing
symbols, take RUB alone from Frankfurter, and save one transaction.  `table` is
`Rates`, each rate being the number of the fetch it was computed from; `job` is
what an updater has got, `found` the rows as it read them (`LoadRows`) before it
writes them (`Save`).  `upsert_many` writes the rows whose new rate differs from
the one that was read.  That is no difference unless another updater has saved in
between: then a row whose new rate happens to be the one that was read keeps the
other's.  `passed` is the history of these rows.  (A row the other one has inserted is an
error of the unique column: nothing is saved.)  `PairsOfOneFetch` (in `FrontDoor_parts`; three fetches,
two updaters): whatever part of the answers is missing, and however two updaters
overlap, the rates of USDT come from one fetch and so do those of RUB, so that
the internal rates are each other's inverse and no cross mixes fetches - but for
the rows that were passed over, until the next save writes them.  It is about
fetches: the last fetch to be saved wins, even if it began earlier.  The admin
panel's edits of single rates are not modelled.  *Proofs* (in `FrontDoorProofs`):
`RatesOfOneFetch`, for any currencies, updaters and fetches; the invariant says
the same pair by pair, without counting.

`Quotes`, on top of `ExchangeDialog`, is the arithmetic of a quote: `Paid` (what an amount brings, minus the
price of a cash delivery below the free limit) and `Sold` (the amount a payout
takes), both rounded half to even.  Whenever a summary is shown, `QuotesAgree`
compares them in its method for every price and payout of the instance: selling more never pays less, and a payout that `Sold` refuses is
brought by no amount at all.  The exception in it is real: an amount that is
worth, without the fee, what the limit of free delivery is worth.  Below the limit it pays the
fee and brings a payout whose inversion lands on the limit and is refused; on the limit,
or a little above, its payout is found for an amount just below, which would pay the fee.

*Bounds.*  10 steps of the sold currency to a price, free delivery from 43 steps,
payouts up to 45 steps of which 2 are a unit, prices 3, 4, 7 and 9: the limit, the
fee and both roundings lie within the payouts compared.

*Proofs* (`ExchangeProofs`: `DirectionsCorrect`, `QuotesCorrect`) for any grid, prices,
fee, limit and payouts.  `Nearest` is off by half a divisor at most (`NearestClose`), and what is off
by less is the nearest (`NearestUnique`); it is monotone.  Because a price is less than `Grid` (a
step sold is worth less than a payout step), the amount an inversion finds is at most half a
step away and comes back to the payout it was made from.  What is left is on which
side of the limit it falls, which is the exception.

### ExchangeDialog - ordering from the bot

The dialog of one customer, on top of `Rates`.  Its state and data are in the
dispatcher's storage; every message keeps its buttons, and only the state decides
which are obeyed.

| state | code |
|---|---|
| `state`, `data` | `ExchangeState`, the FSM data |
| `summaries`, `shown` | the confirmations shown so far; history: what the last one showed |
| `handler[h]` | a press of the confirmation: what it has read, whether its order is committed |
| `orders[s]`, `broken` | how many orders each confirmation made; history: presses that overlapped or broke off |
| `offline`, `accepted` | outside the manager's hours; history: the customer accepted that |

`Start`, `PickCountry`, `PickService`, `PickCity`, `PickCurrency`, `EnterAmount`,
`Back` are the handlers of the steps, `Press`, `Create`, `Refuse`, `BreakOff`,
`Finish` the confirmation, `Shift` and `UpdateRates` the world.

`Exchange_dialog`: one confirmation makes one order, unless presses overlapped or
a handler broke off after the commit (`OneOrderPerSummary`; there is no key that
would make creation idempotent); an order is what its confirmation showed,
whatever old button was pressed, and a cash order has a city of its country
(`OrderAsShown`); none is made off duty without consent
(`NoSilentOfflineOrder`); `QuotesAgree`.  After a commit whose order cannot be
read again, the customer is told that there is no order (`BreakOff`).  A summary may show a
city chosen earlier for an order without cash, which the order does not keep.

*Bounds.*  Two countries, a city in one of them, two presses at a time, one
fetch, two summaries, one fault.  Amounts 1 and 2 lie on both sides of the free
delivery and of one minimum.  Safety only: nobody has to finish an order.

*Proofs* (`ExchangeProofs`: `ExchangeTypeCorrect`, `ShownCorrect`, `OfflineCorrect`,
`OneOrderCorrect`) for any countries, methods, currencies, amounts and presses.
`DialogInv` is the invariant of a customer who may press any button of any message:
while the dialog confirms, its data are what the last summary showed (`DialogRight`,
`AsShown`); a press has in its hands what one of the summaries showed, goes on off duty only with
consent, and has made a cash order only for a city of its country (`PressRight`).  That a summary makes one order needs to know who can still press: as long as
no presses of a summary overlapped and none broke off there is one press of it at most, and once it has
made the order the dialog shows the summary only until that press has cleared it (`Settled`).

Every update but the confirmation is one step.  A process handles the updates of its
feed one after the other (`handle_as_tasks=False` in `bot.py`), so that two amounts,
however quickly they are sent, are handled in turn by one process; only while two
processes poll (`PollingLock`) could two such handlers interleave between their
awaits, or one break off between two writes of the storage - with a state
"confirming" whose summary was never sent, while the button of an older one is
still there.  These are left out; `shown` is the summary the dialog
has sent last, and the button of an older one orders what that one shows.

*Left out*: the price is computed again at creation, so the amounts may differ
from the summary when rates have moved; the limit on active orders is in
`OrderLedger`; methods other than cash are one ("qrcode"); the state of the
handler that would choose a method is never set.

### Accounts - where users and orders come from

On top of `OrderNumbers`.  A month stands for every date.

| state | code |
|---|---|
| `registered`, `source`, `since` | `Users`, `UserAcquisitions` |
| `touches`, `campaign` | `MarketingTouches`, `MarketingCampaigns.status` |
| `spent` | the Redis keys of Mini App data that were used |
| `visit[s]` | a login, a bot start or a late referral: its link and what it decided |
| `buyer`, `attributed` | the user of an order; `OrderAttributions` |
| `crossed` | history: users who named each other as inviter at the same time |

`OpenMiniApp`, `StartBot`, `FindUser`, `Decide`, `CommitVisit`, `FailVisit`,
`BindLater`, `SetCampaign` are `telegram_auth`, `check_user`, the referral endpoint and
the panel, which creates a campaign in any status and may change it at any time, back to active
too ("inactive" stands for draft, paused and archived); `BeginOrder`, `ContinueOrder`, `CommitOrder`, `FailOrder` a creation.
`Report`, `Aggregates`, `Series`, `UniqueCounts`, `ApplicationRows`, `UserCard` are the
queries of the panel as operators on these tables.

`NoMutualReferral`, `SourcesAgree` and `ReportsAddUp` (in `FrontDoor_parts`):
nobody invites who invited them, unless both bind at the same moment; source,
touches and orders tell one story; and the queries agree with each other for any
dates.  The code allows cycles of three; a new user whose first link
carries a refused code has no source and may bind one later; Mini App data are
marked as used before the commit, so that a request that fails cannot be repeated
with them.

*Proofs* (in `FrontDoorProofs`: `AccountTypeCorrect`, `ReferralsCorrect`,
`SourcesCorrect`) for any users, campaigns, links and sessions.  What the queries
promise needs what the sessions know: one that has found a row is alone at it, and
if the user is new he stays unknown until its commit (`AloneAtRow`, `Honest`), so
that a decision still holds when it is committed (`Decided`); of two late
referrals that face each other both began before either ended (`BindersKnown`).
That an order's touch is well defined - among any touches there is a latest -
would be an induction over sequences; it is part of the invariant instead
(`LatestExists`) and proved as touches are appended.

`ReportsCorrect` proves `ReportsAddUp` from what the rows say (`ReportInv`): the users
with a source are finitely many, an order that a touch brought follows that touch, is
of its user and campaign and has a type, and among any orders there is a latest
one.  A sum in a report is stated as the number of the things it counts (`Total`); a
set told apart in parts then has as many members as its parts together
(`CountedByParts`), by a bijection picked part by part instead of an induction, so that
sums over campaigns and over days are both the size of the same set.

*Left out*: spend and completed orders of reports, deleted orders, a source that
cannot be written after its touch.

### AdminDesk - administrators

`account` is `Admins`, `tokens` the issued tokens, `duty` the requests in
progress with the row each has read, `managers` the users with the role; `ended`,
`chosen`, `mixed`, `tangled` are histories.  Actions: `BeginLogin`/`EndLogin`
(with the new hash of an old password), `BeginLogout`, `BeginPassword` and their
`EndRevocation`, `BeginDelete`/`EndDelete`, `BeginGrant`/`EndGrant`, `RevokeRole`,
`FailDuty`.

`RevocationHolds`: after a logout or a new password neither the old tokens nor
the old password open the account - unless two requests wrote its row from
copies of the same version (`mixed`): then the version counts one revocation for
two, and a login with an old kind of hash puts the old password back.
`OneManager`: the check before a role is written has no lock; two requests at a
time make two managers (`tangled`).

*Proofs* (in `FrontDoorProofs`: `DeskTypeCorrect`, `RevocationCorrect`,
`ManagerAlone`).  The invariant: until two writers of an account overlap, whoever
will write it has the row as it is (`CopiesFresh`, `NothingAhead`), revoked tokens
are behind the row's version (`EndedBehind`), its password is the one chosen last
(`PasswordKept`); and a grant that passed the check found no manager
(`GrantsAlone`).

### SiteLeads - the form of the site

`tries`, `expiring`, `solved` and `taken` are the Redis keys, `saved` the leads,
`post` the requests; each action is one command of `_guard_site_lead_submission`,
of the captcha or the commit.  `LeadsKept`: a fingerprint that refuses others
has its lead saved or about to be, none is saved twice, and the counter of a
client runs out.  The exceptions are what the code does: a request that dies between key
and commit leaves its lead refused for the day; one that dies between INCR and
EXPIRE leaves a counter that blocks its client for good; outside production an
error of Redis skips the guard.  (`Production` is FALSE in the run: in production
the error is an answer 503, the same steps as a request that dies.)

*Proofs* (in `FrontDoorProofs`: `LeadTypeCorrect`, `LeadsCorrect`), in production and
outside.  The invariant: while Redis works one request at most has passed with a
lead, before it is saved and after its fingerprint was taken (`OnePasses`,
`TakenBeforeSaved`), every fingerprint belongs to a lead that is saved, under way
or lost (`TakenAccounted`, `LostUnsaved`), and a counter without expiry has the
request that will set it (`CountersEnd`).

### FrontDoor - the parts together

`Accounts`, `AdminDesk`, `SiteLeads` and `Rates` have no table and no key in common, so
their steps commute; a behaviour of `FrontDoor` goes through one of four doors.
`FrontDoor_parts`: two workers, four requests, two users, one campaign, two
administrators with two passwords, one lead with two challenges of one client,
three fetches.  Four requests are two overlapping pairs, or a pair whose outcome
two later requests meet (a login, two revocations at once, a use of the token).
Safety only.

*Proofs* (`FrontDoorProofs`): the steps of the processes, seen from a part, are
steps of its specification or leave it alone (`FrontNumbers`, `FrontDesk`,
`FrontLeads`, `FrontRates`), from the one assumption that the places of requests
are the same set everywhere; so what is proved of the parts holds of the whole
(`FrontPartsCorrect`).  `FrontInit` restricts where `DeskInit` starts, never what
it may do.

## 3. What is checked, proved and left

*Proved.*  Type correctness of every component, and every safety invariant and
action property the passing runs check, for any value of the constants that satisfies
the named assumptions of the module.  The theorems are in eight modules,
one to a component or to a group of components that share a specification; each
begins with its inductive invariant, in named parts that say what the property
itself does not.  The sums of `OpenOrdersFunded` and `ReportsAddUp` are stated as
numbers of units, which the library's facts about finite sets add up; a fold over a
set would have needed an induction over data, which the prover cannot do.

*What is delimited and not excluded.*  Some hazards of this code do happen, and the
property about them then says that they are the only way to go wrong: it holds
for everything but what a history variable marks.  These are `stale`
(`BooksBalance`, `OpenOrdersFunded`), `overtaken` (`CardsSettle`), `skipped`
(`CardIsHonest`), `overrun` (`SentStays`, `RetryPossible`), `stuck`
(`CampaignsEnd`), `orphaned` and `late` (`SilentWhenClosed`, `ClosedOnce`), a
"broken" renewal (`IntrudersLeave`), `broken` (`OneOrderPerSummary`), `mixed`
(`RevocationHolds`), `tangled` (`OneManager`), `late` of `OrderNumbers`
(`Consecutive`), `crossed` (`NoMutualReferral`) and `passed` (`PairsOfOneFetch`);
messages that `mark_read` has swept leave `pending` (`UnreadExplained`).  Such a
property would not notice if that one thing became more frequent; it does
notice any other way.  Of the lost update of a wallet there is the violated run besides.

*Only model-checked.*  Liveness (`RequestsEnd`, `TasksEnd`, `CampaignsEnd`,
`FeedDrains`, `IntrudersLeave`, `Takeover`), because fairness and ENABLED are
beyond the prover.

*Not modelled.*  Read models (`services/miniapp.py`, histories, lists), schemas,
texts and keyboards, settings, seeds and migrations: they keep no state that
others change.  Closing a conversation, opening one for an order, media
downloads and the fan-out of events to websockets.  Edits of single rates in the
panel.  The limit on logins, which is one atomic Redis transaction.
Cryptography (signatures of Mini App data, tokens, password hashes).  The order in
which the lifespan of the application starts and stops its tasks.

*Plan.*  Conversations opened by an order, as the composition of `OrderLedger` with
`ChatInbox`.

Every module is written so that it can be proved about: parameters are CONSTANTS
with a named assumption, one action per step of the code, invariants as
conjunctions of named parts, no RECURSIVE operators.
