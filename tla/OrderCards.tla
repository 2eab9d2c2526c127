----------------------------- MODULE OrderCards -----------------------------
(***************************************************************************)
(* What Telegram shows of one order: the customer's card, replaced with    *)
(* every status, and the manager's card, edited in place.  Two kinds of    *)
(* writers keep them: the workers of the outbox                            *)
(* (services/order_telegram_sync.py), which claim the rows a status change *)
(* enqueues, and the handlers that create, take and close the order        *)
(* (services/order_flow.py, services/order_status.py,                      *)
(* telegram/handlers/operator.py), which call Telegram after their commit. *)
(*                                                                         *)
(* A row lock is held by the worker whose place in its program says so:    *)
(* the row of its task from "locked" on, the row of the order from         *)
(* "sending" on.  What a status change does besides is in OrderLedger.     *)
(***************************************************************************)
EXTENDS Integers, Sequences, FiniteSets

CONSTANTS
    Workers,      \* outbox loops, one per process of the application
    Handlers,     \* handlers that call Telegram themselves
    Creator,      \* the handler that has just created the order
    Buttons,      \* which handlers there are: "take", "close", "web"
    Changes,      \* the statuses they set
    MaxAttempts,  \* settings.order_telegram_sync_max_attempts
    Faults,       \* what may go wrong
    MaxFaults,    \* bound on how often
    NoOne

FaultKinds == {"outage", "refusal", "undeleted", "deleted", "timeout", "crash", "slow"}

ASSUME CardConstants ==
    /\ Creator \in Handlers
    /\ Workers \cap Handlers = {}
    /\ NoOne \notin Workers
    /\ Buttons \subseteq {"take", "close", "web"}
    /\ Changes \subseteq {"processing", "completed", "cancelled"}
    /\ MaxAttempts \in Nat \ {0}
    /\ Faults \subseteq FaultKinds
    /\ MaxFaults \in Nat

VARIABLES
    status,   \* Orders.status
    link,     \* target -> message id stored with the order, 0 when there is none
    chat,     \* target -> the messages sent, by id: [shows, notified, alive]
    task,     \* <<status, target>> -> the outbox row: [state, attempts, holder, leased]
    worker,   \* Workers -> [at, task, result, message]
    handler,  \* Handlers -> [at, shows, notified, links, card]
    faults,   \* how often something went wrong
    races     \* history: "overtaken" once a status was committed while a handler
              \* still had a card to send or edit, "skipped" once an order in
              \* work was taken again, "slow" once a worker outlived its lease

vars == <<status, link, chat, task, worker, handler, faults, races>>

Targets == {"user", "manager"}
Statuses == {"created", "processing", "completed", "cancelled"}
Tasks == Changes \X Targets

Successors(s) ==
    CASE s = "created"    -> {"processing", "cancelled"}
      [] s = "processing" -> {"completed", "cancelled"}
      [] OTHER            -> {}

----------------------------------------------------------------------------
(* Telegram. *)

NextId(t) == Len(chat[t]) + 1
Message(s, notified) == [shows |-> s, notified |-> notified, alive |-> TRUE]
Alive(t, id) == id \in DOMAIN chat[t] /\ chat[t][id].alive

Removed(messages, id) ==
    [i \in DOMAIN messages |-> [messages[i] EXCEPT !.alive = @ /\ i # id]]

Fault(kind) ==
    /\ kind \in Faults
    /\ faults < MaxFaults
    /\ faults' = faults + 1

\* _replace_user_status_message: the new card, then the previous one is deleted,
\* if Telegram lets it.
CardReplaced(previous, s) ==
    LET sent == Append(chat["user"], Message(s, TRUE))
    IN  \/ /\ chat' = [chat EXCEPT !["user"] = Removed(sent, previous)]
           /\ UNCHANGED faults
        \/ /\ Fault("undeleted")
           /\ chat' = [chat EXCEPT !["user"] = sent]

CardSent(s, notified) ==
    /\ chat' = [chat EXCEPT !["manager"] = Append(@, Message(s, notified))]
    /\ UNCHANGED faults

CardEdited(id, s, notified) ==
    /\ chat' = [chat EXCEPT !["manager"][id] = Message(s, notified)]
    /\ UNCHANGED faults

NothingSent(kind) == Fault(kind) /\ UNCHANGED chat

----------------------------------------------------------------------------
(* The outbox. *)

NoTask == [state |-> "none", attempts |-> 0, holder |-> NoOne, leased |-> FALSE]
Open == {"pending", "retry", "processing"}
Closed == {"delivered", "failed"}

Idle == [at |-> "idle", task |-> <<"none", "none">>, result |-> "none", message |-> 0]

Goes(w, place) == worker' = [worker EXCEPT ![w].at = place]
Stops(w) == worker' = [worker EXCEPT ![w] = Idle]

\* Faulty: the task's row is not locked during the delivery.
TaskUnprotected(k) == TRUE

TaskFree(k) ==
    \A w \in Workers : worker[w].task = k => worker[w].at \notin {"locked", "sending", "sent"}

OrderFree == \A w \in Workers : worker[w].at \notin {"sending", "sent"}

\* enqueue: one row for each target, unless it is there.
Enqueued(s) ==
    [k \in Tasks |-> IF k[1] = s /\ task[k].state = "none"
                     THEN [NoTask EXCEPT !.state = "pending"]
                     ELSE task[k]]

\* Faulty: what a dead worker has claimed is never claimed again.
DueOnlyFresh(k) == task[k].state \in {"pending", "retry"}

\* Due tasks, and those whose lease is over.
Due(k) ==
    \/ task[k].state \in {"pending", "retry"}
    \/ task[k].state = "processing" /\ ~task[k].leased

\* claim_due skips the rows that are locked.
Claim(w, k) ==
    /\ worker[w].at = "idle"
    /\ Due(k)
    /\ TaskFree(k)
    /\ task' = [task EXCEPT ![k].state = "processing", ![k].holder = w, ![k].leased = TRUE]
    /\ worker' = [worker EXCEPT ![w] = [Idle EXCEPT !.at = "claimed", !.task = k]]
    /\ UNCHANGED <<status, link, chat, handler, faults, races>>

\* _owns_claim
Owns(w) ==
    LET k == worker[w].task
    IN  task[k].state = "processing" /\ task[k].holder = w

LockTask(w) ==
    LET k == worker[w].task
    IN  /\ worker[w].at = "claimed"
        /\ TaskFree(k)
        /\ IF Owns(w) /\ task[k].leased
           THEN Goes(w, "locked")
           ELSE Stops(w)
        /\ UNCHANGED <<status, link, chat, task, handler, faults, races>>

\* The manager's card of an order in work waits for the customer's.
WaitsForUser(k) ==
    /\ k = <<"processing", "manager">>
    /\ task[<<"processing", "user">>].state \in Open

ClosedAs(state, k) == [task[k] EXCEPT !.state = state, !.holder = NoOne, !.leased = FALSE]

\* The order row is locked; a task of an earlier status has nothing to deliver.
LockOrder(w) ==
    LET k == worker[w].task
    IN  /\ worker[w].at = "locked"
        /\ OrderFree
        /\ IF status # k[1]
           THEN /\ task' = [task EXCEPT ![k] = ClosedAs("delivered", k)]
                /\ Stops(w)
           ELSE /\ IF WaitsForUser(k)
                   THEN worker' = [worker EXCEPT ![w].at = "sent", ![w].result = "retry"]
                   ELSE Goes(w, "sending")
                /\ UNCHANGED task
        /\ UNCHANGED <<status, link, chat, handler, faults, races>>

Answered(w, result, message) ==
    worker' = [worker EXCEPT ![w].at = "sent", ![w].result = result, ![w].message = message]

SendUser(w) ==
    /\ worker[w].at = "sending"
    /\ worker[w].task[2] = "user"
    /\ \/ CardReplaced(link["user"], worker[w].task[1])
          /\ Answered(w, "delivered", NextId("user"))
       \/ NothingSent("outage") /\ Answered(w, "retry", 0)
       \/ NothingSent("refusal") /\ Answered(w, "failed", 0)
    /\ UNCHANGED <<status, link, task, handler, races>>

\* Faulty: nobody looks how the customer's task ended.
CustomerNotifiedAnyway(s) == TRUE

CustomerNotified(s) == s = "processing" => task[<<s, "user">>].state \in {"none", "delivered"}

\* A card somebody has deleted is replaced by a new one.
EditManager(w) ==
    LET s == worker[w].task[1]
        id == link["manager"]
        notified == CustomerNotified(s)
    IN  /\ worker[w].at = "sending"
        /\ worker[w].task[2] = "manager"
        /\ \/ id = 0 /\ Answered(w, "retry", 0) /\ UNCHANGED <<chat, faults>>
           \/ Alive("manager", id) /\ CardEdited(id, s, notified) /\ Answered(w, "delivered", 0)
           \/ /\ id # 0 /\ ~Alive("manager", id)
              /\ CardSent(s, notified)
              /\ Answered(w, "delivered", NextId("manager"))
           \/ id # 0 /\ NothingSent("outage") /\ Answered(w, "retry", 0)
           \/ Alive("manager", id) /\ NothingSent("refusal") /\ Answered(w, "failed", 0)
        /\ UNCHANGED <<status, link, task, handler, races>>

\* A delivery attempt that came to an end, in one commit with the message id.
Attempted(k, result) ==
    LET n == task[k].attempts + 1
    IN  [ClosedAs(IF result = "retry" /\ n >= MaxAttempts THEN "failed" ELSE result, k)
            EXCEPT !.attempts = n]

\* Faulty: the id of the new message is not stored.
LinkKept(t, message) == link

LinkTo(t, message) == IF message = 0 THEN link ELSE [link EXCEPT ![t] = message]

Record(w) ==
    LET k == worker[w].task
    IN  /\ worker[w].at = "sent"
        /\ task' = [task EXCEPT ![k] = Attempted(k, worker[w].result)]
        /\ link' = LinkTo(k[2], worker[w].message)
        /\ Stops(w)
        /\ UNCHANGED <<status, chat, handler, faults, races>>

\* The time for the delivery is over: rollback, whatever Telegram has done.
TimeOut(w) ==
    /\ worker[w].at \in {"locked", "sending", "sent"}
    /\ Fault("timeout")
    /\ Goes(w, "interrupted")
    /\ UNCHANGED <<status, link, chat, task, handler, races>>

CountAttempt(w) ==
    LET k == worker[w].task
    IN  /\ worker[w].at = "interrupted"
        /\ TaskFree(k)
        /\ task' = IF Owns(w) THEN [task EXCEPT ![k] = Attempted(k, "retry")] ELSE task
        /\ Stops(w)
        /\ UNCHANGED <<status, link, chat, handler, faults, races>>

\* The process dies, or the commit fails and the loop starts over.
Crash(w) ==
    /\ worker[w].at # "idle"
    /\ Fault("crash")
    /\ Stops(w)
    /\ UNCHANGED <<status, link, chat, task, handler, races>>

\* The lease of a worker that has died ends in time, that of a living one only
\* when the worker is held up.
LeaseEnds(k) ==
    /\ task[k].state = "processing"
    /\ task[k].leased
    /\ IF \E w \in Workers : worker[w].task = k /\ task[k].holder = w
       THEN "slow" \in Faults \ races /\ races' = races \cup {"slow"}
       ELSE UNCHANGED races
    /\ task' = [task EXCEPT ![k].leased = FALSE]
    /\ UNCHANGED <<status, link, chat, worker, handler, faults>>

----------------------------------------------------------------------------
(* The handlers. *)

Done == [at |-> "idle", shows |-> "none", notified |-> FALSE,
         links |-> [t \in Targets |-> 0], card |-> 0]

Ends(h) == handler' = [handler EXCEPT ![h] = Done]

\* notify_order_created: the customer's card, then the manager's.
Greet(h) ==
    /\ handler[h].at = "greeting"
    /\ \/ CardReplaced(handler[h].links["user"], "created")
          /\ handler' = [handler EXCEPT ![h].at = "greeted", ![h].links["user"] = NextId("user")]
       \/ (NothingSent("outage") \/ NothingSent("refusal"))
          /\ handler' = [handler EXCEPT ![h].at = "greeted"]
    /\ UNCHANGED <<status, link, task, worker, races>>

\* The bot's dialog stores the id of the customer's card before it goes on.
StoreGreeting(h) ==
    /\ handler[h].at = "greeted"
    /\ handler[h].links["user"] # 0
    /\ OrderFree
    /\ link' = LinkTo("user", handler[h].links["user"])
    /\ handler' = [handler EXCEPT ![h].links["user"] = 0]
    /\ UNCHANGED <<status, chat, task, worker, faults, races>>

Introduce(h) ==
    /\ handler[h].at = "greeted"
    /\ \/ CardSent("created", FALSE)
          /\ handler' = [handler EXCEPT ![h].at = "storing",
                                        ![h].links["manager"] = NextId("manager")]
       \/ (NothingSent("outage") \/ NothingSent("refusal"))
          /\ handler' = [handler EXCEPT ![h].at = "storing"]
    /\ UNCHANGED <<status, link, task, worker, races>>

\* The second commit of a handler: the ids of what it has sent.
StoreLinks(h) ==
    /\ handler[h].at = "storing"
    /\ OrderFree
    /\ link' = [t \in Targets |->
                   IF handler[h].links[t] = 0 THEN link[t] ELSE handler[h].links[t]]
    /\ IF handler[h].card = 0 THEN Ends(h) ELSE handler' = [handler EXCEPT ![h].at = "editing"]
    /\ UNCHANGED <<status, chat, task, worker, faults, races>>

\* When that commit fails the ids are lost.
LoseLinks(h) ==
    /\ handler[h].at = "storing"
    /\ Fault("crash")
    /\ IF handler[h].card = 0 THEN Ends(h) ELSE handler' = [handler EXCEPT ![h].at = "editing"]
    /\ UNCHANGED <<status, link, chat, task, worker, races>>

\* A status is committed while others are still busy with their cards.
Overtakes == IF \E h \in Handlers : handler[h].at # "idle" THEN {"overtaken"} ELSE {}

Pressed(h, button, card) ==
    /\ handler[h].at = "idle"
    /\ button \in Buttons
    /\ OrderFree
    /\ Alive("manager", card)

\* take_order_in_work: the status is committed without outbox rows and the
\* handler tells the customer itself.
Take(h, card) ==
    /\ Pressed(h, "take", card)
    /\ chat["manager"][card].shows = "created"
    /\ status = "created" /\ "processing" \in Changes
    /\ status' = "processing"
    /\ handler' = [handler EXCEPT ![h] = [at |-> "handoff", shows |-> "processing",
                                          notified |-> FALSE, links |-> link, card |-> card]]
    /\ races' = races \cup Overtakes
    /\ UNCHANGED <<link, chat, task, worker, faults>>

\* An order in work already is not announced again (SKIPPED).
TakeAgain(h, card) ==
    /\ Pressed(h, "take", card)
    /\ chat["manager"][card].shows = "created"
    /\ status = "processing"
    /\ handler' = [handler EXCEPT ![h] = [Done EXCEPT !.at = "editing", !.shows = "processing",
                                                      !.notified = TRUE, !.card = card]]
    /\ races' = races \cup {"skipped"}
    /\ UNCHANGED <<status, link, chat, task, worker, faults>>

\* send_customer_handoff deletes the card whose id the handler has in memory.
Handoff(h) ==
    /\ handler[h].at = "handoff"
    /\ \/ CardReplaced(handler[h].links["user"], "processing")
          /\ handler' = [handler EXCEPT ![h].at = "storing", ![h].notified = TRUE,
                                        ![h].links = [t \in Targets |->
                                           IF t = "user" THEN NextId("user") ELSE 0]]
       \/ (NothingSent("outage") \/ NothingSent("refusal"))
          /\ handler' = [handler EXCEPT ![h].at = "editing"]
    /\ UNCHANGED <<status, link, task, worker, races>>

\* The card whose button was pressed, as the handler's order has it.
EditCard(h) ==
    /\ handler[h].at = "editing"
    /\ \/ /\ Alive("manager", handler[h].card)
          /\ CardEdited(handler[h].card, handler[h].shows, handler[h].notified)
       \/ ~Alive("manager", handler[h].card) /\ UNCHANGED <<chat, faults>>
       \/ NothingSent("outage")
    /\ Ends(h)
    /\ UNCHANGED <<status, link, task, worker, races>>

Changed(s) ==
    /\ status' = s
    /\ task' = Enqueued(s)
    /\ races' = races \cup Overtakes

\* The bot's cancel and close buttons.
Close(h, s, card) ==
    /\ Pressed(h, "close", card)
    /\ s \in (Successors(status) \cap Changes) \ {"processing"}
    /\ Changed(s)
    /\ handler' = [handler EXCEPT ![h] = [Done EXCEPT !.at = "editing", !.shows = s,
                                                      !.notified = TRUE, !.card = card]]
    /\ UNCHANGED <<link, chat, worker, faults>>

\* The web panels of managers and administrators, the owner's cancellation.
ChangeByWeb(s) ==
    /\ "web" \in Buttons
    /\ OrderFree
    /\ s \in Successors(status) \cap Changes
    /\ Changed(s)
    /\ UNCHANGED <<link, chat, worker, handler, faults>>

\* The manager deletes a card from the chat.
DeleteCard(id) ==
    /\ Alive("manager", id)
    /\ Fault("deleted")
    /\ chat' = [chat EXCEPT !["manager"] = Removed(@, id)]
    /\ UNCHANGED <<status, link, task, worker, handler, races>>

----------------------------------------------------------------------------
Init ==
    /\ status = "created"
    /\ link = [t \in Targets |-> 0]
    /\ chat = [t \in Targets |-> <<>>]
    /\ task = [k \in Tasks |-> NoTask]
    /\ worker = [w \in Workers |-> Idle]
    /\ handler = [h \in Handlers |-> IF h = Creator THEN [Done EXCEPT !.at = "greeting"] ELSE Done]
    /\ faults = 0
    /\ races = {}

Work(w) ==
    \/ \E k \in Tasks : Claim(w, k)
    \/ LockTask(w) \/ LockOrder(w) \/ SendUser(w) \/ EditManager(w)
    \/ Record(w) \/ CountAttempt(w)

Handle(h) ==
    \/ Greet(h) \/ StoreGreeting(h) \/ Introduce(h) \/ StoreLinks(h)
    \/ Handoff(h) \/ EditCard(h)

Press(h) ==
    \E card \in DOMAIN chat["manager"] :
        Take(h, card) \/ TakeAgain(h, card) \/ \E s \in Statuses : Close(h, s, card)

Next ==
    \/ \E w \in Workers : Work(w) \/ TimeOut(w) \/ Crash(w)
    \/ \E h \in Handlers : Handle(h) \/ LoseLinks(h) \/ Press(h)
    \/ \E k \in Tasks : LeaseEnds(k)
    \/ \E s \in Statuses : ChangeByWeb(s)
    \/ \E id \in DOMAIN chat["manager"] : DeleteCard(id)

Spec == Init /\ [][Next]_vars

\* The loops run in every process, and leases end.
FairSpec ==
    /\ Spec
    /\ \A w \in Workers : WF_vars(Work(w))
    /\ \A k \in Tasks : WF_vars(LeaseEnds(k))

----------------------------------------------------------------------------
(* What is promised. *)

MessageRow == [shows : Statuses, notified : BOOLEAN, alive : BOOLEAN]

TypeOK ==
    /\ status \in Statuses
    /\ link \in [Targets -> Nat]
    /\ chat \in [Targets -> Seq(MessageRow)]
    /\ task \in [Tasks -> [state : Open \cup Closed \cup {"none"}, attempts : 0..MaxAttempts,
                           holder : Workers \cup {NoOne}, leased : BOOLEAN]]
    /\ worker \in [Workers ->
          [at : {"idle", "claimed", "locked", "sending", "sent", "interrupted"},
           task : Tasks \cup {Idle.task},
           result : {"none", "delivered", "retry", "failed"},
           message : Nat]]
    /\ handler \in [Handlers ->
          [at : {"idle", "greeting", "greeted", "handoff", "storing", "editing"},
           shows : Statuses \cup {"none"},
           notified : BOOLEAN,
           links : [Targets -> Nat],
           card : Nat]]
    /\ faults \in 0..MaxFaults
    /\ races \subseteq {"overtaken", "skipped", "slow"}

CardsShowing(t, s) == {i \in DOMAIN chat[t] : chat[t][i].shows = s}

\* The customer is told a status twice only after something went wrong: of two
\* workers that had the same task, the one that lost the claim sends nothing.
DuplicatesExplained ==
    \A s \in Statuses : Cardinality(CardsShowing("user", s)) <= 1 + faults

\* The manager reads that the customer knows of the order being in work only
\* when the customer was sent that card; a second "take" is left out.
CardIsHonest ==
    "skipped" \notin races =>
        \A i \in CardsShowing("manager", "processing") :
            chat["manager"][i].notified => CardsShowing("user", "processing") # {}

\* A delivered task means that the card whose id is stored shows the order's
\* status, provided no status change overtook a handler on its way to Telegram.
CardsSettle ==
    "overtaken" \notin races =>
        \A t \in Targets, s \in {status} \cap Changes :
            task[<<s, t>>].state = "delivered" =>
                /\ link[t] \in DOMAIN chat[t]
                /\ Alive(t, link[t]) => chat[t][link[t]].shows = status

\* Every enqueued task is delivered or given up in the end, whatever workers die.
TasksEnd == \A k \in Tasks : task[k].state \in Open ~> task[k].state \in Closed
=============================================================================
