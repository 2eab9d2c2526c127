--------------------------- MODULE OrderCardsProofs ---------------------------
(***************************************************************************)
(* Proofs about OrderCards, for any number of workers and handlers and any *)
(* combination of buttons, statuses and faults.                            *)
(***************************************************************************)
EXTENDS OrderCards, FiniteSetTheorems, TLAPS

----------------------------------------------------------------------------
(* The inductive invariant. *)

\* The statuses an order can still reach.
After(s) ==
    CASE s = "created"    -> {"processing", "completed", "cancelled"}
      [] s = "processing" -> {"completed", "cancelled"}
      [] OTHER            -> {}

HasTask(w) == worker[w].at \in {"locked", "sending", "sent"}
HasOrder(w) == worker[w].at \in {"sending", "sent"}

\* What the row locks are for: a task has one worker, which holds the claim, and
\* while the order is locked its status is the one the task is for.
LocksInv ==
    /\ \A w \in Workers : worker[w].at # "idle" => worker[w].task \in Tasks
    /\ \A w \in Workers : HasTask(w) =>
          /\ task[worker[w].task].state = "processing"
          /\ task[worker[w].task].holder = w
    /\ \A v, w \in Workers :
          HasTask(v) /\ HasTask(w) /\ worker[v].task = worker[w].task => v = w
    /\ \A w \in Workers : HasOrder(w) => worker[w].task[1] = status
    /\ \A v, w \in Workers : HasOrder(v) /\ HasOrder(w) => v = w
    /\ \A w \in Workers : worker[w].at = "sent" => worker[w].result # "none"

\* Tasks are there for no status that is still to come, and for both targets.
TasksInv ==
    /\ \A k \in Tasks : task[k].state \in Open => task[k].attempts < MaxAttempts
    /\ \A k \in Tasks : task[k].state # "none" => k[1] \notin After(status)
    /\ \A s \in Changes : \A t, u \in Targets :
          task[<<s, t>>].state # "none" => task[<<s, u>>].state # "none"

Cards(s) == Cardinality(CardsShowing("user", s))

\* The task's card has been sent, and the task is about to be closed.
Delivered(w, s) ==
    /\ worker[w].at = "sent"
    /\ worker[w].result = "delivered"
    /\ worker[w].task = <<s, "user">>

\* As long as a task may be sent again, one card less has been sent than faults
\* allow.  A status that has no task has no card; the exception is the card of
\* the handoff, which is sent once.
CountInv ==
    /\ DuplicatesExplained
    /\ \A s \in Changes :
          task[<<s, "user">>].state \in Open /\ (\A w \in Workers : ~Delivered(w, s))
             => Cards(s) <= faults
    /\ \A s \in Changes \cap After(status) : Cards(s) = 0
    /\ \A h \in Handlers :
          handler[h].at = "greeting" => h = Creator /\ Cards("created") = 0
    /\ \A h \in Handlers : handler[h].at = "handoff" =>
          /\ status # "created"
          /\ "processing" \in Changes
          /\ task[<<"processing", "user">>].state = "none"
          /\ Cards("processing") = 0
    /\ \A g, h \in Handlers :
          handler[g].at = "handoff" /\ handler[h].at = "handoff" => g = h

Told == CardsShowing("user", "processing") # {}

HonestInv ==
    /\ CardIsHonest
    /\ status = "processing" /\ "processing" \in Changes
          /\ task[<<"processing", "user">>].state = "delivered" => Told
    /\ \A w \in Workers : Delivered(w, "processing") => Told
    /\ "skipped" \notin races =>
          \A h \in Handlers : handler[h].shows = "processing" /\ handler[h].notified => Told

\* The card of a target, if it is still there, shows the status s.
Shows(t, id, s) ==
    /\ id \in DOMAIN chat[t]
    /\ chat[t][id].alive => chat[t][id].shows = s

\* The card that a worker's task ends with.
CardOf(w) ==
    IF worker[w].message = 0 THEN link[worker[w].task[2]] ELSE worker[w].message

\* A handler that has links to store, or may have; one that has a card to edit.
WillStore(h) == handler[h].at \in {"greeting", "greeted", "handoff", "storing"}
WillEdit(h) ==
    \/ handler[h].at \in {"handoff", "editing"}
    \/ handler[h].at # "idle" /\ handler[h].card # 0

\* Who edits a card has something to show.
HandlersInv == \A h \in Handlers : WillEdit(h) => handler[h].shows \in Statuses

\* Nobody has overtaken a handler: while it has links to store the status has no
\* task, and what it edits shows the status.
SettleInv ==
    "overtaken" \notin races =>
        /\ \A t \in Targets :
              status \in Changes /\ task[<<status, t>>].state = "delivered"
                 => Shows(t, link[t], status)
        /\ \A w \in Workers :
              worker[w].at = "sent" /\ worker[w].result = "delivered"
                 => Shows(worker[w].task[2], CardOf(w), status)
        /\ \A h \in Handlers : WillStore(h) /\ status \in Changes
              => \A t \in Targets : task[<<status, t>>].state = "none"
        /\ \A h \in Handlers : WillEdit(h) => handler[h].shows = status

CardsInv ==
    TypeOK /\ LocksInv /\ TasksInv /\ HandlersInv /\ CountInv /\ HonestInv /\ SettleInv

----------------------------------------------------------------------------
(* Tasks and statuses. *)

LEMMA TaskOf ==
  /\ \A k \in Tasks : k[1] \in Changes /\ k[2] \in Targets /\ k = <<k[1], k[2]>>
  /\ \A s \in Changes, t \in Targets : <<s, t>> \in Tasks
  /\ Idle.task \notin Tasks
  /\ \A s \in Changes : s \in Statuses /\ s # "created"
<1>1. Changes \subseteq {"processing", "completed", "cancelled"}
  BY CardConstants
<1>2. Changes \subseteq Statuses /\ "none" \notin Changes /\ "created" \notin Changes
  BY <1>1 DEF Statuses
<1> QED
  BY <1>2 DEF Tasks, Idle

LEMMA StatusOrder ==
  /\ \A s \in Statuses : \A r \in Successors(s) : After(r) \subseteq After(s)
  /\ \A s \in Statuses : Successors(s) \subseteq After(s)
  /\ \A s \in Statuses : s \notin After(s)
  /\ \A s \in Statuses : \A r \in After(s) : r # s /\ s \notin After(r) /\ "created" \notin After(r)
  /\ \A s \in Statuses : After(s) \subseteq Statuses \ {"created"}
  /\ After("created") = {"processing", "completed", "cancelled"}
  /\ After("processing") = {"completed", "cancelled"}
BY DEF Statuses, Successors, After

----------------------------------------------------------------------------
(* Telegram. *)

\* What a message says does not change when messages are removed.
LEMMA RemovedKeeps ==
  ASSUME NEW messages \in Seq(MessageRow), NEW id
  PROVE  /\ Removed(messages, id) \in Seq(MessageRow)
         /\ Len(Removed(messages, id)) = Len(messages)
         /\ DOMAIN Removed(messages, id) = 1..Len(messages)
         /\ \A i \in 1..Len(messages) :
               /\ Removed(messages, id)[i].shows = messages[i].shows
               /\ Removed(messages, id)[i].notified = messages[i].notified
               /\ Removed(messages, id)[i].alive => messages[i].alive
<1> DEFINE after == Removed(messages, id)
<1>1. PICK n \in Nat : n = Len(messages) /\ DOMAIN messages = 1..n
  OBVIOUS
<1>2. \A i \in 1..n : messages[i] \in MessageRow
  BY <1>1
<1>3. after = [i \in 1..n |-> [messages[i] EXCEPT !.alive = @ /\ i # id]]
  BY <1>1 DEF Removed
<1>4. \A i \in 1..n : /\ after[i] \in MessageRow
                      /\ after[i].shows = messages[i].shows
                      /\ after[i].notified = messages[i].notified
                      /\ after[i].alive => messages[i].alive
  <2> TAKE i \in 1..n
  <2>1. after[i] = [messages[i] EXCEPT !.alive = @ /\ i # id]
    BY <1>3
  <2>2. (messages[i].alive /\ i # id) \in BOOLEAN
    OBVIOUS
  <2> QED
    BY <1>2, <2>1, <2>2 DEF MessageRow
<1>5. after \in [1..n -> MessageRow]
  BY <1>3, <1>4
<1>6. after \in Seq(MessageRow) /\ Len(after) = n /\ DOMAIN after = 1..n
  <2> HIDE DEF after
  <2> QED
    BY <1>1, <1>5
<1> QED
  BY <1>1, <1>4, <1>6

LEMMA CardsFinite ==
  ASSUME NEW messages \in Seq(MessageRow), NEW s
  PROVE  /\ IsFiniteSet({i \in DOMAIN messages : messages[i].shows = s})
         /\ Cardinality({i \in DOMAIN messages : messages[i].shows = s}) \in Nat
<1>1. DOMAIN messages = 1..Len(messages) /\ Len(messages) \in Nat
  OBVIOUS
<1>2. IsFiniteSet(1..Len(messages))
  BY <1>1, FS_Interval
<1>3. {i \in DOMAIN messages : messages[i].shows = s} \subseteq 1..Len(messages)
  BY <1>1
<1> QED
  BY <1>2, <1>3, FS_Subset, FS_CardinalityType

LEMMA CountType ==
  ASSUME TypeOK, NEW s
  PROVE  IsFiniteSet(CardsShowing("user", s)) /\ Cards(s) \in Nat
<1>1. chat["user"] \in Seq(MessageRow)
  BY DEF TypeOK, Targets
<1> QED
  BY <1>1, CardsFinite DEF CardsShowing, Cards

LEMMA FaultCounts ==
  ASSUME TypeOK, NEW kind, Fault(kind)
  PROVE  faults' = faults + 1 /\ faults' \in 0..MaxFaults
BY CardConstants DEF TypeOK, Fault

\* A customer's card is sent.
LEMMA UserSent ==
  ASSUME TypeOK, NEW previous, NEW s \in Statuses, CardReplaced(previous, s)
  PROVE  /\ chat' \in [Targets -> Seq(MessageRow)]
         /\ chat'["manager"] = chat["manager"]
         /\ faults' \in 0..MaxFaults /\ faults' >= faults
         /\ DOMAIN chat'["user"] = 1..NextId("user")
         /\ NextId("user") \in Nat \ {0}
         /\ \A i \in DOMAIN chat["user"] :
               i \in DOMAIN chat'["user"] /\ chat'["user"][i].shows = chat["user"][i].shows
         /\ chat'["user"][NextId("user")].shows = s
         /\ Cards(s)' = Cards(s) + 1
         /\ \A r : r # s => Cards(r)' = Cards(r)
         /\ CardsShowing("user", s)' # {}
         /\ \A r : CardsShowing("user", r) # {} => CardsShowing("user", r)' # {}
<1> DEFINE old == chat["user"]
           sent == Append(old, Message(s, TRUE))
<1>1. PICK n \in Nat : n = Len(old) /\ DOMAIN old = 1..n
  BY DEF TypeOK, Targets
<1>2. old \in Seq(MessageRow) /\ Message(s, TRUE) \in MessageRow
  BY DEF TypeOK, Targets, Message, MessageRow
<1>3. /\ sent \in Seq(MessageRow) /\ Len(sent) = n + 1 /\ DOMAIN sent = 1..(n + 1)
      /\ \A i \in 1..n : sent[i] = old[i]
      /\ sent[n + 1].shows = s
  BY <1>1, <1>2 DEF Message
<1> HIDE DEF sent
<1>4. PICK new \in Seq(MessageRow) :
        /\ chat' = [chat EXCEPT !["user"] = new]
        /\ DOMAIN new = 1..(n + 1)
        /\ \A i \in 1..(n + 1) : new[i].shows = sent[i].shows
  <2>1. CASE chat' = [chat EXCEPT !["user"] = Removed(sent, previous)]
    <3> DEFINE new == Removed(sent, previous)
    <3>1. /\ new \in Seq(MessageRow)
          /\ DOMAIN new = 1..(n + 1)
          /\ \A i \in 1..(n + 1) : new[i].shows = sent[i].shows
      BY <1>3, RemovedKeeps
    <3> HIDE DEF new
    <3>2. chat' = [chat EXCEPT !["user"] = new]
      BY <2>1 DEF new
    <3> QED
      BY <3>1, <3>2
  <2>2. CASE chat' = [chat EXCEPT !["user"] = sent]
    BY <1>3, <2>2
  <2> QED
    BY <2>1, <2>2 DEF CardReplaced, sent
<1>5. chat' \in [Targets -> Seq(MessageRow)] /\ chat'["user"] = new
      /\ chat'["manager"] = chat["manager"]
  BY <1>4 DEF TypeOK, Targets
<1>6. faults' \in 0..MaxFaults /\ faults' >= faults
  <2>1. CASE UNCHANGED faults
    BY <2>1 DEF TypeOK
  <2>2. CASE Fault("undeleted")
    BY <2>2, FaultCounts DEF TypeOK
  <2> QED
    BY <2>1, <2>2 DEF CardReplaced
<1>7. NextId("user") = n + 1
  BY <1>1 DEF NextId
<1>8. /\ CardsShowing("user", s)' = CardsShowing("user", s) \cup {n + 1}
      /\ \A r : r # s => CardsShowing("user", r)' = CardsShowing("user", r)
  <2> SUFFICES ASSUME NEW r
               PROVE  /\ r = s => CardsShowing("user", r)' = CardsShowing("user", r) \cup {n + 1}
                      /\ r # s => CardsShowing("user", r)' = CardsShowing("user", r)
    OBVIOUS
  <2>1. CardsShowing("user", r)' = {i \in 1..(n + 1) : new[i].shows = r}
    BY <1>4, <1>5 DEF CardsShowing
  <2>2. CardsShowing("user", r) = {i \in 1..n : new[i].shows = r}
    BY <1>1, <1>3, <1>4 DEF CardsShowing
  <2>3. new[n + 1].shows = s
    BY <1>3, <1>4
  <2>4. \A i : i \in 1..(n + 1) <=> i \in 1..n \/ i = n + 1
    OBVIOUS
  <2>5. CASE r = s
    BY <2>1, <2>2, <2>3, <2>4, <2>5
  <2>6. CASE r # s
    BY <2>1, <2>2, <2>3, <2>4, <2>6
  <2> QED
    BY <2>5, <2>6
<1>9. n + 1 \notin CardsShowing("user", s)
  BY <1>1 DEF CardsShowing
<1>10. Cardinality(CardsShowing("user", s) \cup {n + 1})
         = Cardinality(CardsShowing("user", s)) + 1
  BY <1>9, CountType, FS_AddElement
<1>11. /\ Cards(s)' = Cards(s) + 1
       /\ \A r : r # s => Cards(r)' = Cards(r)
  BY <1>8, <1>10 DEF Cards
<1>12. /\ CardsShowing("user", s)' # {}
       /\ \A r : CardsShowing("user", r) # {} => CardsShowing("user", r)' # {}
  BY <1>8
<1>13. /\ DOMAIN chat'["user"] = 1..(n + 1)
       /\ \A i \in DOMAIN old : i \in DOMAIN chat'["user"] /\ chat'["user"][i].shows = old[i].shows
       /\ chat'["user"][n + 1].shows = s
  BY <1>1, <1>3, <1>4, <1>5
<1> QED
  BY SMTT(30), <1>5, <1>6, <1>7, <1>11, <1>12, <1>13

\* The customer's chat is left alone.
LEMMA UserKept ==
  ASSUME chat'["user"] = chat["user"]
  PROVE  \A r : CardsShowing("user", r)' = CardsShowing("user", r) /\ Cards(r)' = Cards(r)
BY DEF CardsShowing, Cards

\* A manager's card is sent.
LEMMA ManagerSent ==
  ASSUME TypeOK, NEW s \in Statuses, NEW b \in BOOLEAN, CardSent(s, b)
  PROVE  /\ chat' \in [Targets -> Seq(MessageRow)]
         /\ chat'["user"] = chat["user"]
         /\ faults' = faults
         /\ NextId("manager") \in Nat \ {0}
         /\ DOMAIN chat'["manager"] = 1..NextId("manager")
         /\ DOMAIN chat["manager"] = 1..(NextId("manager") - 1)
         /\ \A i \in DOMAIN chat["manager"] : chat'["manager"][i] = chat["manager"][i]
         /\ chat'["manager"][NextId("manager")] = Message(s, b)
<1>1. PICK n \in Nat : n = Len(chat["manager"]) /\ DOMAIN chat["manager"] = 1..n
  BY DEF TypeOK, Targets
<1>2. chat["manager"] \in Seq(MessageRow) /\ Message(s, b) \in MessageRow
  BY DEF TypeOK, Targets, Message, MessageRow
<1> DEFINE new == Append(chat["manager"], Message(s, b))
<1>3. /\ new \in Seq(MessageRow) /\ DOMAIN new = 1..(n + 1)
      /\ \A i \in 1..n : new[i] = chat["manager"][i]
      /\ new[n + 1] = Message(s, b)
  BY <1>1, <1>2
<1>4. chat' = [chat EXCEPT !["manager"] = new] /\ faults' = faults
  BY DEF CardSent
<1> HIDE DEF new
<1>5. chat' \in [Targets -> Seq(MessageRow)] /\ chat'["manager"] = new
      /\ chat'["user"] = chat["user"]
  BY <1>3, <1>4 DEF TypeOK, Targets
<1>6. NextId("manager") = n + 1 /\ NextId("manager") - 1 = n
  BY <1>1 DEF NextId
<1> QED
  BY <1>1, <1>3, <1>4, <1>5, <1>6

\* A manager's card is replaced in its place.
LEMMA ManagerEdited ==
  ASSUME TypeOK, NEW s \in Statuses, NEW b \in BOOLEAN, NEW id \in DOMAIN chat["manager"],
         CardEdited(id, s, b)
  PROVE  /\ chat' \in [Targets -> Seq(MessageRow)]
         /\ chat'["user"] = chat["user"]
         /\ faults' = faults
         /\ DOMAIN chat'["manager"] = DOMAIN chat["manager"]
         /\ \A i \in DOMAIN chat["manager"] :
               chat'["manager"][i] = IF i = id THEN Message(s, b) ELSE chat["manager"][i]
<1>1. chat["manager"] \in Seq(MessageRow) /\ Message(s, b) \in MessageRow
  BY DEF TypeOK, Targets, Message, MessageRow
<1>2. PICK new : new = [chat["manager"] EXCEPT ![id] = Message(s, b)]
  OBVIOUS
<1>3. /\ new \in Seq(MessageRow) /\ DOMAIN new = DOMAIN chat["manager"]
      /\ \A i \in DOMAIN chat["manager"] :
            new[i] = IF i = id THEN Message(s, b) ELSE chat["manager"][i]
  BY <1>1, <1>2
<1>4. chat' = [chat EXCEPT !["manager"] = new] /\ faults' = faults
  BY <1>2 DEF CardEdited, TypeOK, Targets
<1>5. chat' \in [Targets -> Seq(MessageRow)] /\ chat'["manager"] = new
      /\ chat'["user"] = chat["user"]
  BY <1>3, <1>4 DEF TypeOK, Targets
<1> QED
  BY <1>3, <1>4, <1>5

\* A manager's card is deleted.
LEMMA ManagerRemoved ==
  ASSUME TypeOK, NEW id, chat' = [chat EXCEPT !["manager"] = Removed(@, id)]
  PROVE  /\ chat' \in [Targets -> Seq(MessageRow)]
         /\ chat'["user"] = chat["user"]
         /\ DOMAIN chat'["manager"] = DOMAIN chat["manager"]
         /\ \A i \in DOMAIN chat["manager"] :
               /\ chat'["manager"][i].shows = chat["manager"][i].shows
               /\ chat'["manager"][i].notified = chat["manager"][i].notified
               /\ chat'["manager"][i].alive => chat["manager"][i].alive
<1>1. chat["manager"] \in Seq(MessageRow)
  BY DEF TypeOK, Targets
<1>2. PICK new : new = Removed(chat["manager"], id)
  OBVIOUS
<1>3. /\ new \in Seq(MessageRow) /\ DOMAIN new = DOMAIN chat["manager"]
      /\ \A i \in DOMAIN chat["manager"] :
            /\ new[i].shows = chat["manager"][i].shows
            /\ new[i].notified = chat["manager"][i].notified
            /\ new[i].alive => chat["manager"][i].alive
  <2>1. DOMAIN chat["manager"] = 1..Len(chat["manager"])
    BY <1>1
  <2> QED
    BY <1>1, <1>2, <2>1, RemovedKeeps
<1>4. chat' \in [Targets -> Seq(MessageRow)] /\ chat'["manager"] = new
      /\ chat'["user"] = chat["user"]
  BY <1>2, <1>3 DEF TypeOK, Targets
<1> QED
  BY <1>3, <1>4

----------------------------------------------------------------------------
(* Types. *)

TaskRow ==
    [state : Open \cup Closed \cup {"none"}, attempts : 0..MaxAttempts,
     holder : Workers \cup {NoOne}, leased : BOOLEAN]

WorkerRow ==
    [at : {"idle", "claimed", "locked", "sending", "sent", "interrupted"},
     task : Tasks \cup {Idle.task},
     result : {"none", "delivered", "retry", "failed"},
     message : Nat]

HandlerRow ==
    [at : {"idle", "greeting", "greeted", "handoff", "storing", "editing"},
     shows : Statuses \cup {"none"},
     notified : BOOLEAN,
     links : [Targets -> Nat],
     card : Nat]

LEMMA RowTypes ==
  TypeOK <=> /\ status \in Statuses
             /\ link \in [Targets -> Nat]
             /\ chat \in [Targets -> Seq(MessageRow)]
             /\ task \in [Tasks -> TaskRow]
             /\ worker \in [Workers -> WorkerRow]
             /\ handler \in [Handlers -> HandlerRow]
             /\ faults \in 0..MaxFaults
             /\ races \subseteq {"overtaken", "skipped", "slow"}
BY DEF TypeOK, TaskRow, WorkerRow, HandlerRow

LEMMA TypeNext ==
  ASSUME status' \in Statuses, link' \in [Targets -> Nat], chat' \in [Targets -> Seq(MessageRow)],
         task' \in [Tasks -> TaskRow], worker' \in [Workers -> WorkerRow],
         handler' \in [Handlers -> HandlerRow], faults' \in 0..MaxFaults,
         races' \subseteq {"overtaken", "skipped", "slow"}
  PROVE  TypeOK'
BY DEF TypeOK, TaskRow, WorkerRow, HandlerRow

\* Where a worker's task goes at the end of an attempt, and where one goes that
\* has nothing to deliver.
LEMMA TaskEnds ==
  ASSUME TypeOK, NEW k \in Tasks
  PROVE  /\ ClosedAs("delivered", k) \in TaskRow
         /\ ClosedAs("delivered", k).state = "delivered"
         /\ \A result \in {"delivered", "retry", "failed"} : task[k].attempts < MaxAttempts =>
               /\ Attempted(k, result) \in TaskRow
               /\ Attempted(k, result).state \in {"delivered", "retry", "failed"}
               /\ Attempted(k, result).state = "delivered" <=> result = "delivered"
               /\ Attempted(k, result).state = "retry" => Attempted(k, result).attempts < MaxAttempts
<1>1. task[k] \in TaskRow /\ task[k].attempts \in 0..MaxAttempts /\ MaxAttempts \in Nat
  BY RowTypes, CardConstants DEF TaskRow
<1>2. \A state \in Closed \cup {"retry"} :
         /\ ClosedAs(state, k) \in TaskRow
         /\ ClosedAs(state, k).state = state
         /\ ClosedAs(state, k).attempts = task[k].attempts
  BY <1>1 DEF ClosedAs, TaskRow, Closed, Open
<1>3. ASSUME NEW result \in {"delivered", "retry", "failed"}, task[k].attempts < MaxAttempts
      PROVE  /\ Attempted(k, result) \in TaskRow
             /\ Attempted(k, result).state \in {"delivered", "retry", "failed"}
             /\ Attempted(k, result).state = "delivered" <=> result = "delivered"
             /\ Attempted(k, result).state = "retry" => Attempted(k, result).attempts < MaxAttempts
  <2> DEFINE n == task[k].attempts + 1
  <2>1. n \in 0..MaxAttempts
    BY <1>1, <1>3
  <2> HIDE DEF n
  <2>2. PICK state \in {"delivered", "retry", "failed"} :
          /\ state = IF result = "retry" /\ n >= MaxAttempts THEN "failed" ELSE result
          /\ Attempted(k, result) = [ClosedAs(state, k) EXCEPT !.attempts = n]
    BY DEF Attempted, n
  <2>3. state \in Closed \cup {"retry"}
    BY DEF Closed
  <2>4. ClosedAs(state, k) \in TaskRow /\ ClosedAs(state, k).state = state
    BY <1>2, <2>3
  <2>5. /\ Attempted(k, result) \in TaskRow
        /\ Attempted(k, result).state = state
        /\ Attempted(k, result).attempts = n
    BY <2>1, <2>2, <2>4 DEF TaskRow
  <2> QED
    BY <1>1, <2>1, <2>2, <2>5
<1> QED
  BY <1>2, <1>3 DEF Closed

----------------------------------------------------------------------------
(* Locks and tasks. *)

Base == TypeOK /\ LocksInv /\ TasksInv

\* A worker moves to another place, with or without a change of its task.
LEMMA LocksStep ==
  ASSUME Base, NEW w \in Workers, NEW row \in WorkerRow,
         worker' = [worker EXCEPT ![w] = row], status' = status,
         \A v \in Workers \ {w} : HasTask(v) =>
            /\ task'[worker[v].task].state = task[worker[v].task].state
            /\ task'[worker[v].task].holder = task[worker[v].task].holder,
         row.at # "idle" => row.task \in Tasks,
         row.at \in {"locked", "sending", "sent"} =>
            /\ task'[row.task].state = "processing"
            /\ task'[row.task].holder = w
            /\ \A v \in Workers \ {w} : HasTask(v) => worker[v].task # row.task,
         row.at \in {"sending", "sent"} =>
            row.task[1] = status /\ \A v \in Workers \ {w} : ~HasOrder(v),
         row.at = "sent" => row.result # "none"
  PROVE  LocksInv'
<1>1. /\ worker'[w] = row
      /\ \A v \in Workers \ {w} : worker'[v] = worker[v]
  BY DEF Base, TypeOK
<1>2. \A v \in Workers \ {w} : (HasTask(v)' <=> HasTask(v)) /\ (HasOrder(v)' <=> HasOrder(v))
  BY <1>1 DEF HasTask, HasOrder
<1>3. /\ HasTask(w)' <=> row.at \in {"locked", "sending", "sent"}
      /\ HasOrder(w)' <=> row.at \in {"sending", "sent"}
  BY <1>1 DEF HasTask, HasOrder
<1>4. LocksInv
  BY DEF Base
<1>5. \A v \in Workers : worker'[v].at # "idle" => worker'[v].task \in Tasks
  BY <1>1, <1>4 DEF LocksInv
<1>6. \A v \in Workers : HasTask(v)' =>
        /\ task'[worker'[v].task].state = "processing"
        /\ task'[worker'[v].task].holder = v
  BY <1>1, <1>2, <1>3, <1>4 DEF LocksInv
<1>7. \A u, v \in Workers :
        HasTask(u)' /\ HasTask(v)' /\ worker'[u].task = worker'[v].task => u = v
  BY <1>1, <1>2, <1>3, <1>4 DEF LocksInv
<1>8. \A v \in Workers : HasOrder(v)' => worker'[v].task[1] = status'
  BY <1>1, <1>2, <1>3, <1>4 DEF LocksInv
<1>9. \A u, v \in Workers : HasOrder(u)' /\ HasOrder(v)' => u = v
  BY <1>1, <1>2, <1>3, <1>4 DEF LocksInv
<1>10. \A v \in Workers : worker'[v].at = "sent" => worker'[v].result # "none"
  BY <1>1, <1>4 DEF LocksInv
<1> QED
  BY <1>5, <1>6, <1>7, <1>8, <1>9, <1>10 DEF LocksInv

\* A task that is there goes from one state to another.
LEMMA TasksStep ==
  ASSUME Base, NEW k \in Tasks, NEW row \in TaskRow,
         task' = [task EXCEPT ![k] = row], status' = status,
         task[k].state # "none", row.state # "none",
         row.state \in Open => row.attempts < MaxAttempts
  PROVE  TasksInv' /\ task' \in [Tasks -> TaskRow]
<1>1. /\ task'[k] = row
      /\ \A j \in Tasks : j # k => task'[j] = task[j]
      /\ task' \in [Tasks -> TaskRow]
  BY RowTypes DEF Base
<1>2. TasksInv
  BY DEF Base
<1>3. \A j \in Tasks : task'[j].state # "none" <=> task[j].state # "none"
  BY <1>1
<1>4. \A j \in Tasks : task'[j].state \in Open => task'[j].attempts < MaxAttempts
  BY <1>1, <1>2 DEF TasksInv
<1>5. \A j \in Tasks : task'[j].state # "none" => j[1] \notin After(status')
  BY <1>2, <1>3 DEF TasksInv
<1>6. \A s \in Changes : \A t, u \in Targets :
         task'[<<s, t>>].state # "none" => task'[<<s, u>>].state # "none"
  BY <1>2, <1>3, TaskOf DEF TasksInv
<1> QED
  BY <1>1, <1>4, <1>5, <1>6 DEF TasksInv

LEMMA ClaimBase ==
  ASSUME Base, NEW w \in Workers, NEW k \in Tasks, Claim(w, k)
  PROVE  Base'
<1>0. TypeOK /\ LocksInv /\ TasksInv
  BY DEF Base
<1>1. PICK row \in TaskRow :
        /\ task' = [task EXCEPT ![k] = row]
        /\ row.state = "processing" /\ row.holder = w
        /\ row.attempts = task[k].attempts
  <2> DEFINE row == [task[k] EXCEPT !.state = "processing", !.holder = w, !.leased = TRUE]
  <2>1. task' = [task EXCEPT ![k] = row]
    BY <1>0, RowTypes DEF Claim
  <2>2. row \in TaskRow /\ row.state = "processing" /\ row.holder = w
        /\ row.attempts = task[k].attempts
    BY <1>0, RowTypes DEF TaskRow, Open
  <2> QED
    BY <2>1, <2>2
<1>2. PICK move \in WorkerRow :
        /\ worker' = [worker EXCEPT ![w] = move]
        /\ move.at = "claimed" /\ move.task = k
  <2> DEFINE move == [Idle EXCEPT !.at = "claimed", !.task = k]
  <2>1. worker' = [worker EXCEPT ![w] = move]
    BY DEF Claim
  <2>2. move \in WorkerRow /\ move.at = "claimed" /\ move.task = k
    BY DEF WorkerRow, Idle
  <2> QED
    BY <2>1, <2>2
<1>3. task[k].state \in Open
  BY DEF Claim, Due, Open
<1>4. TasksInv' /\ task' \in [Tasks -> TaskRow]
  BY <1>0, <1>1, <1>3, TasksStep DEF Claim, TasksInv, Open
<1>5. \A v \in Workers : HasTask(v) => worker[v].task # k
  BY DEF Claim, TaskFree, HasTask
<1>6. LocksInv'
  <2>1. \A v \in Workers \ {w} : HasTask(v) => task'[worker[v].task] = task[worker[v].task]
    BY <1>0, <1>1, <1>5, RowTypes DEF LocksInv, HasTask
  <2> QED
    BY ZenonT(40), <1>2, <2>1, LocksStep DEF Claim
<1>7. TypeOK'
  <2>1. worker' \in [Workers -> WorkerRow]
    BY <1>0, <1>2, RowTypes
  <2> QED
    BY <1>0, <1>4, <2>1, RowTypes, TypeNext DEF Claim
<1> QED
  BY <1>4, <1>6, <1>7 DEF Base

\* The ways a worker moves.
LEMMA Moved ==
  ASSUME TypeOK, NEW w \in Workers, NEW place,
         place \in {"locked", "sending", "interrupted"}, Goes(w, place)
  PROVE  \E row \in WorkerRow :
            /\ worker' = [worker EXCEPT ![w] = row]
            /\ row.at = place
            /\ row.task = worker[w].task /\ row.result = worker[w].result
            /\ row.message = worker[w].message
<1> DEFINE row == [worker[w] EXCEPT !.at = place]
<1>1. worker' = [worker EXCEPT ![w] = row]
  BY RowTypes DEF Goes
<1>2. /\ row \in WorkerRow /\ row.at = place
      /\ row.task = worker[w].task /\ row.result = worker[w].result
      /\ row.message = worker[w].message
  BY RowTypes DEF WorkerRow
<1> QED
  BY <1>1, <1>2

LEMMA Stopped ==
  ASSUME TypeOK, NEW w \in Workers, Stops(w)
  PROVE  /\ Idle \in WorkerRow /\ Idle.at = "idle"
         /\ worker' = [worker EXCEPT ![w] = Idle]
BY DEF WorkerRow, Idle, Stops

LEMMA HasAnswer ==
  ASSUME TypeOK, NEW w \in Workers, NEW result \in {"delivered", "retry", "failed"},
         NEW message \in Nat, Answered(w, result, message)
  PROVE  \E row \in WorkerRow :
            /\ worker' = [worker EXCEPT ![w] = row]
            /\ row.at = "sent" /\ row.result = result /\ row.message = message
            /\ row.task = worker[w].task
<1> DEFINE row == [worker[w] EXCEPT !.at = "sent", !.result = result, !.message = message]
<1>1. worker' = [worker EXCEPT ![w] = row]
  BY RowTypes DEF Answered
<1>2. /\ row \in WorkerRow /\ row.at = "sent" /\ row.result = result /\ row.message = message
      /\ row.task = worker[w].task
  BY RowTypes DEF WorkerRow
<1> QED
  BY <1>1, <1>2

\* A worker moves and nothing else that the locks are about changes.
LEMMA MoveBase ==
  ASSUME Base, NEW w \in Workers, NEW row \in WorkerRow,
         worker' = [worker EXCEPT ![w] = row], UNCHANGED <<status, task, link, handler>>,
         chat' \in [Targets -> Seq(MessageRow)], faults' \in 0..MaxFaults, races' = races,
         row.at # "idle" => row.task \in Tasks,
         row.at \in {"locked", "sending", "sent"} =>
            /\ task[row.task].state = "processing"
            /\ task[row.task].holder = w
            /\ \A v \in Workers \ {w} : HasTask(v) => worker[v].task # row.task,
         row.at \in {"sending", "sent"} =>
            row.task[1] = status /\ \A v \in Workers \ {w} : ~HasOrder(v),
         row.at = "sent" => row.result # "none"
  PROVE  Base'
<1>1. LocksInv'
  <2>1. task' = task /\ status' = status
    OBVIOUS
  <2> QED
    BY <2>1, LocksStep
<1>2. TasksInv'
  BY DEF Base, TasksInv
<1>3. TypeOK'
  BY RowTypes, TypeNext DEF Base
<1> QED
  BY <1>1, <1>2, <1>3 DEF Base

LEMMA LockTaskBase ==
  ASSUME Base, NEW w \in Workers, LockTask(w)
  PROVE  Base'
<1> DEFINE k == worker[w].task
<1>1. TypeOK /\ LocksInv /\ faults' \in 0..MaxFaults /\ chat' \in [Targets -> Seq(MessageRow)]
  BY RowTypes DEF Base, LockTask
<1>2. k \in Tasks
  BY <1>1 DEF LockTask, LocksInv
<1>3. CASE Goes(w, "locked") /\ Owns(w)
  <2>1. \A v \in Workers : HasTask(v) => worker[v].task # k
    BY DEF LockTask, TaskFree, HasTask
  <2>2. PICK row \in WorkerRow : worker' = [worker EXCEPT ![w] = row] /\ row.at = "locked"
                                 /\ row.task = k
    BY <1>1, <1>3, Moved
  <2>3. task[k].state = "processing" /\ task[k].holder = w
    BY <1>3 DEF Owns
  <2> HIDE DEF k
  <2>4. UNCHANGED <<status, task, link, handler>> /\ races' = races
    BY DEF LockTask
  <2> QED
    BY <1>1, <1>2, <2>1, <2>2, <2>3, <2>4, MoveBase
<1>4. CASE Stops(w)
  BY <1>1, <1>4, Stopped, MoveBase DEF LockTask
<1> QED
  BY <1>3, <1>4 DEF LockTask

LEMMA LockOrderBase ==
  ASSUME Base, NEW w \in Workers, LockOrder(w)
  PROVE  Base'
<1> DEFINE k == worker[w].task
<1>1. TypeOK /\ LocksInv /\ faults' \in 0..MaxFaults /\ chat' \in [Targets -> Seq(MessageRow)]
      /\ UNCHANGED <<status, link, handler>> /\ races' = races
  BY RowTypes DEF Base, LockOrder
<1>2. k \in Tasks /\ HasTask(w) /\ task[k].state = "processing" /\ task[k].holder = w
  BY <1>1 DEF LockOrder, LocksInv, HasTask
<1>3. \A v \in Workers \ {w} : HasTask(v) => worker[v].task # k /\ worker[v].task \in Tasks
  BY <1>1, <1>2 DEF LocksInv, HasTask
<1>4. \A v \in Workers : ~HasOrder(v)
  BY DEF LockOrder, OrderFree, HasOrder
<1>5. ASSUME status = k[1], task' = task, NEW place \in {"sending", "sent"}, NEW row \in WorkerRow,
             worker' = [worker EXCEPT ![w] = row], row.at = place, row.task = k,
             place = "sent" => row.result # "none"
      PROVE  Base'
  <2> HIDE DEF k
  <2> QED
    BY <1>1, <1>2, <1>3, <1>4, <1>5, MoveBase
<1>6. CASE status # k[1]
  <2>1. task' = [task EXCEPT ![k] = ClosedAs("delivered", k)] /\ Stops(w)
    BY <1>6 DEF LockOrder
  <2>2. ClosedAs("delivered", k) \in TaskRow /\ ClosedAs("delivered", k).state = "delivered"
    BY <1>1, <1>2, TaskEnds
  <2>3. TasksInv' /\ task' \in [Tasks -> TaskRow]
    BY <1>1, <1>2, <2>1, <2>2, TasksStep DEF Open
  <2>4. \A v \in Workers \ {w} : HasTask(v) => task'[worker[v].task] = task[worker[v].task]
    BY <1>1, <1>3, <2>1, RowTypes
  <2>5. LocksInv'
    BY <1>1, <2>1, <2>4, Stopped, LocksStep
  <2>6. worker' \in [Workers -> WorkerRow]
    BY <1>1, <2>1, Stopped, RowTypes
  <2>7. TypeOK'
    BY <1>1, <2>3, <2>6, RowTypes, TypeNext
  <2> QED
    BY <2>3, <2>5, <2>7 DEF Base
<1>7. CASE status = k[1] /\ WaitsForUser(k)
  <2>1. task' = task /\ worker' = [worker EXCEPT ![w].at = "sent", ![w].result = "retry"]
    BY <1>7 DEF LockOrder
  <2> DEFINE row == [worker[w] EXCEPT !.at = "sent", !.result = "retry"]
  <2>2. row \in WorkerRow /\ row.at = "sent" /\ row.task = k /\ row.result = "retry"
        /\ worker' = [worker EXCEPT ![w] = row]
    BY <1>1, <2>1, RowTypes DEF WorkerRow
  <2> QED
    BY <1>5, <1>7, <2>1, <2>2
<1>8. CASE status = k[1] /\ ~WaitsForUser(k)
  <2>1. task' = task /\ Goes(w, "sending")
    BY <1>8 DEF LockOrder
  <2> QED
    BY <1>1, <1>5, <1>8, <2>1, Moved
<1> QED
  BY <1>6, <1>7, <1>8

\* A worker that has the order has its task too, and it is the order's status.
LEMMA Holding ==
  ASSUME Base, NEW w \in Workers, HasOrder(w)
  PROVE  /\ worker[w].task \in Tasks
         /\ worker[w].task = <<status, worker[w].task[2]>>
         /\ worker[w].task[2] \in Targets
         /\ status \in Changes /\ status \in Statuses
         /\ task[worker[w].task].state = "processing"
         /\ task[worker[w].task].holder = w
         /\ task[worker[w].task].attempts < MaxAttempts
         /\ \A v \in Workers \ {w} : ~HasOrder(v)
         /\ \A v \in Workers \ {w} : HasTask(v) => worker[v].task # worker[w].task
<1>1. TypeOK /\ LocksInv /\ TasksInv
  BY DEF Base
<1>2. HasTask(w) /\ worker[w].at # "idle"
  BY DEF HasOrder, HasTask
<1>3. worker[w].task \in Tasks /\ worker[w].task[1] = status
  BY <1>1, <1>2 DEF LocksInv
<1>4. /\ worker[w].task = <<status, worker[w].task[2]>>
      /\ worker[w].task[2] \in Targets
      /\ status \in Changes /\ status \in Statuses
  BY <1>3, TaskOf
<1>5. task[worker[w].task].state = "processing" /\ task[worker[w].task].holder = w
  BY <1>1, <1>2 DEF LocksInv
<1>6. task[worker[w].task].attempts < MaxAttempts
  BY <1>1, <1>3, <1>5 DEF TasksInv, Open
<1>7. /\ \A v \in Workers \ {w} : ~HasOrder(v)
      /\ \A v \in Workers \ {w} : HasTask(v) => worker[v].task # worker[w].task
  BY <1>1, <1>2 DEF LocksInv
<1> QED
  BY <1>3, <1>4, <1>5, <1>6, <1>7

LEMMA AnswerBase ==
  ASSUME Base, NEW w \in Workers, worker[w].at = "sending", NEW row \in WorkerRow,
         worker' = [worker EXCEPT ![w] = row], row.at = "sent", row.result # "none",
         row.task = worker[w].task, UNCHANGED <<status, task, link, handler>>, races' = races,
         chat' \in [Targets -> Seq(MessageRow)], faults' \in 0..MaxFaults
  PROVE  Base'
<1>1. HasOrder(w)
  BY DEF HasOrder
<1>2. PICK k : k = worker[w].task
  OBVIOUS
<1>3. /\ k \in Tasks /\ k[1] = status
      /\ task[k].state = "processing" /\ task[k].holder = w
      /\ \A v \in Workers \ {w} : ~HasOrder(v)
      /\ \A v \in Workers \ {w} : HasTask(v) => worker[v].task # k
  BY <1>1, <1>2, Holding
<1> QED
  BY <1>2, <1>3, MoveBase

\* What the two deliveries do.
LEMMA UserDelivery ==
  ASSUME Base, NEW w \in Workers, SendUser(w)
  PROVE  /\ HasOrder(w)
         /\ worker[w].task = <<status, "user">>
         /\ UNCHANGED <<status, task, link, handler>> /\ races' = races
         /\ \E row \in WorkerRow :
               /\ worker' = [worker EXCEPT ![w] = row]
               /\ row.at = "sent" /\ row.task = worker[w].task
               /\ \/ /\ CardReplaced(link["user"], status)
                     /\ row.result = "delivered" /\ row.message = NextId("user")
                  \/ /\ chat' = chat /\ (\E kind : Fault(kind))
                     /\ row.result \in {"retry", "failed"}
<1>1. HasOrder(w) /\ UNCHANGED <<status, task, link, handler>> /\ races' = races
  BY DEF SendUser, HasOrder
<1>2. worker[w].task = <<status, "user">> /\ status \in Statuses
  BY <1>1, Holding DEF SendUser
<1>3. TypeOK
  BY DEF Base
<1>4. CASE CardReplaced(link["user"], worker[w].task[1])
           /\ Answered(w, "delivered", NextId("user"))
  <2>1. CardReplaced(link["user"], status)
    BY <1>2, <1>4
  <2>2. NextId("user") \in Nat
    BY <1>2, <1>3, <2>1, UserSent
  <2> QED
    BY <1>1, <1>2, <1>3, <1>4, <2>1, <2>2, HasAnswer
<1>5. CASE NothingSent("outage") /\ Answered(w, "retry", 0)
  BY <1>1, <1>2, <1>3, <1>5, HasAnswer DEF NothingSent
<1>6. CASE NothingSent("refusal") /\ Answered(w, "failed", 0)
  BY <1>1, <1>2, <1>3, <1>6, HasAnswer DEF NothingSent
<1> QED
  BY <1>4, <1>5, <1>6 DEF SendUser

LEMMA ManagerDelivery ==
  ASSUME Base, NEW w \in Workers, EditManager(w)
  PROVE  /\ HasOrder(w)
         /\ worker[w].task = <<status, "manager">>
         /\ UNCHANGED <<status, task, link, handler>> /\ races' = races
         /\ CustomerNotified(status) \in BOOLEAN
         /\ \E row \in WorkerRow :
               /\ worker' = [worker EXCEPT ![w] = row]
               /\ row.at = "sent" /\ row.task = worker[w].task
               /\ \/ /\ link["manager"] \in DOMAIN chat["manager"]
                     /\ CardEdited(link["manager"], status, CustomerNotified(status))
                     /\ row.result = "delivered" /\ row.message = 0
                  \/ /\ CardSent(status, CustomerNotified(status))
                     /\ row.result = "delivered" /\ row.message = NextId("manager")
                  \/ /\ chat' = chat /\ (UNCHANGED faults \/ \E kind : Fault(kind))
                     /\ row.result \in {"retry", "failed"}
<1>1. HasOrder(w) /\ UNCHANGED <<status, task, link, handler>> /\ races' = races
  BY DEF EditManager, HasOrder
<1>2. worker[w].task = <<status, "manager">> /\ worker[w].task[1] = status /\ status \in Statuses
  BY <1>1, Holding DEF EditManager
<1>3. TypeOK
  BY DEF Base
<1>4. CustomerNotified(status) \in BOOLEAN
  BY DEF CustomerNotified
<1> DEFINE notified == CustomerNotified(status)
           id == link["manager"]
<1>5. \/ Answered(w, "retry", 0) /\ chat' = chat /\ UNCHANGED faults
      \/ /\ Alive("manager", id) /\ CardEdited(id, status, notified)
         /\ Answered(w, "delivered", 0)
      \/ CardSent(status, notified) /\ Answered(w, "delivered", NextId("manager"))
      \/ NothingSent("outage") /\ Answered(w, "retry", 0)
      \/ NothingSent("refusal") /\ Answered(w, "failed", 0)
  BY <1>2 DEF EditManager
<1> HIDE DEF notified
<1>6. CASE Answered(w, "retry", 0) /\ chat' = chat /\ UNCHANGED faults
  BY <1>1, <1>2, <1>3, <1>4, <1>6, HasAnswer
<1>7. CASE Alive("manager", id) /\ CardEdited(id, status, notified) /\ Answered(w, "delivered", 0)
  BY <1>1, <1>2, <1>3, <1>4, <1>7, HasAnswer DEF Alive, notified
<1>8. CASE CardSent(status, notified) /\ Answered(w, "delivered", NextId("manager"))
  <2>1. NextId("manager") \in Nat
    BY <1>2, <1>3, <1>4, <1>8, ManagerSent DEF notified
  <2> QED
    BY <1>1, <1>2, <1>3, <1>4, <1>8, <2>1, HasAnswer DEF notified
<1>9. CASE NothingSent("outage") /\ Answered(w, "retry", 0)
  BY <1>1, <1>2, <1>3, <1>4, <1>9, HasAnswer DEF NothingSent
<1>10. CASE NothingSent("refusal") /\ Answered(w, "failed", 0)
  BY <1>1, <1>2, <1>3, <1>4, <1>10, HasAnswer DEF NothingSent
<1> QED
  BY <1>5, <1>6, <1>7, <1>8, <1>9, <1>10

LEMMA SendUserBase ==
  ASSUME Base, NEW w \in Workers, SendUser(w)
  PROVE  Base'
<1>1. TypeOK /\ worker[w].at = "sending" /\ status \in Statuses
      /\ UNCHANGED <<status, task, link, handler>> /\ races' = races
  BY DEF Base, TypeOK, SendUser
<1>2. PICK row \in WorkerRow :
         /\ worker' = [worker EXCEPT ![w] = row]
         /\ row.at = "sent" /\ row.task = worker[w].task
         /\ \/ CardReplaced(link["user"], status) /\ row.result = "delivered"
            \/ /\ chat' = chat /\ (\E kind : Fault(kind))
               /\ row.result \in {"retry", "failed"}
  BY UserDelivery
<1>3. row.result # "none"
  BY <1>2
<1>4. chat' \in [Targets -> Seq(MessageRow)] /\ faults' \in 0..MaxFaults
  <2>1. CASE CardReplaced(link["user"], status)
    BY <1>1, <2>1, UserSent
  <2>2. CASE chat' = chat /\ (\E kind : Fault(kind))
    BY <1>1, <2>2, FaultCounts, RowTypes
  <2> QED
    BY <1>2, <2>1, <2>2
<1> QED
  BY <1>1, <1>2, <1>3, <1>4, AnswerBase

LEMMA EditManagerBase ==
  ASSUME Base, NEW w \in Workers, EditManager(w)
  PROVE  Base'
<1>1. TypeOK /\ worker[w].at = "sending" /\ status \in Statuses
      /\ UNCHANGED <<status, task, link, handler>> /\ races' = races
  BY DEF Base, TypeOK, EditManager
<1>2. PICK b \in BOOLEAN : b = CustomerNotified(status)
  BY DEF CustomerNotified
<1>3. PICK row \in WorkerRow :
         /\ worker' = [worker EXCEPT ![w] = row]
         /\ row.at = "sent" /\ row.task = worker[w].task /\ row.result # "none"
         /\ \/ link["manager"] \in DOMAIN chat["manager"] /\ CardEdited(link["manager"], status, b)
            \/ CardSent(status, b)
            \/ chat' = chat /\ (UNCHANGED faults \/ \E kind : Fault(kind))
  BY <1>2, ManagerDelivery
<1>4. chat' \in [Targets -> Seq(MessageRow)] /\ faults' \in 0..MaxFaults
  <2>1. CASE link["manager"] \in DOMAIN chat["manager"] /\ CardEdited(link["manager"], status, b)
    BY <1>1, <2>1, ManagerEdited, RowTypes
  <2>2. CASE CardSent(status, b)
    BY <1>1, <2>2, ManagerSent, RowTypes
  <2>3. CASE chat' = chat /\ (UNCHANGED faults \/ \E kind : Fault(kind))
    BY <1>1, <2>3, FaultCounts, RowTypes
  <2> QED
    BY <1>3, <2>1, <2>2, <2>3
<1> QED
  BY <1>1, <1>3, <1>4, AnswerBase

LEMMA RecordBase ==
  ASSUME Base, NEW w \in Workers, Record(w)
  PROVE  Base'
<1>1. TypeOK /\ LocksInv /\ HasOrder(w) /\ worker[w].at = "sent"
  BY DEF Base, Record, HasOrder
<1>2. PICK k : k = worker[w].task
  OBVIOUS
<1>3. /\ k \in Tasks /\ k[2] \in Targets
      /\ task[k].state = "processing" /\ task[k].attempts < MaxAttempts
      /\ \A v \in Workers \ {w} : HasTask(v) => worker[v].task # k
  BY <1>1, <1>2, Holding
<1>4. PICK row \in TaskRow :
        /\ task' = [task EXCEPT ![k] = row]
        /\ row.state # "none"
        /\ row.state \in Open => row.attempts < MaxAttempts
  <2>1. worker[w].result \in {"delivered", "retry", "failed"}
    BY <1>1, RowTypes DEF LocksInv, WorkerRow
  <2>2. /\ Attempted(k, worker[w].result) \in TaskRow
        /\ Attempted(k, worker[w].result).state \in {"delivered", "retry", "failed"}
        /\ Attempted(k, worker[w].result).state = "retry"
              => Attempted(k, worker[w].result).attempts < MaxAttempts
    BY <1>1, <1>3, <2>1, TaskEnds
  <2> QED
    BY <1>2, <2>2 DEF Record, Open
<1>5. TasksInv' /\ task' \in [Tasks -> TaskRow]
  BY <1>3, <1>4, TasksStep DEF Record
<1>6. LocksInv'
  <2>1. \A v \in Workers \ {w} : HasTask(v) => task'[worker[v].task] = task[worker[v].task]
    BY <1>1, <1>3, <1>4, RowTypes DEF LocksInv, HasTask
  <2> QED
    BY <1>1, <2>1, Stopped, LocksStep DEF Record
<1>7. TypeOK'
  <2>1. worker' \in [Workers -> WorkerRow]
    BY <1>1, Stopped, RowTypes DEF Record
  <2>2. link' \in [Targets -> Nat]
    BY <1>1, <1>2, <1>3, RowTypes DEF Record, LinkTo, WorkerRow
  <2> QED
    BY <1>1, <1>5, <2>1, <2>2, RowTypes, TypeNext DEF Record
<1> QED
  BY <1>5, <1>6, <1>7 DEF Base

LEMMA TimeOutBase ==
  ASSUME Base, NEW w \in Workers, TimeOut(w)
  PROVE  Base'
<1>1. TypeOK /\ LocksInv /\ worker[w].task \in Tasks
  BY DEF Base, TimeOut, LocksInv
<1>2. PICK row \in WorkerRow :
        worker' = [worker EXCEPT ![w] = row] /\ row.at = "interrupted" /\ row.task = worker[w].task
  BY <1>1, Moved DEF TimeOut
<1>3. faults' \in 0..MaxFaults /\ chat' \in [Targets -> Seq(MessageRow)]
      /\ UNCHANGED <<status, task, link, handler>> /\ races' = races
  BY <1>1, FaultCounts, RowTypes DEF TimeOut
<1> QED
  BY <1>1, <1>2, <1>3, MoveBase

LEMMA CrashBase ==
  ASSUME Base, NEW w \in Workers, Crash(w)
  PROVE  Base'
<1>1. TypeOK
  BY DEF Base
<1>2. faults' \in 0..MaxFaults /\ chat' \in [Targets -> Seq(MessageRow)]
      /\ UNCHANGED <<status, task, link, handler>> /\ races' = races
  BY <1>1, FaultCounts, RowTypes DEF Crash
<1> QED
  BY <1>1, <1>2, Stopped, MoveBase DEF Crash

LEMMA CountAttemptBase ==
  ASSUME Base, NEW w \in Workers, CountAttempt(w)
  PROVE  Base'
<1>1. TypeOK /\ LocksInv /\ worker[w].at = "interrupted"
  BY DEF Base, CountAttempt
<1>2. PICK k \in Tasks : k = worker[w].task
  BY <1>1 DEF LocksInv
<1>3. \A v \in Workers : HasTask(v) => worker[v].task # k
  BY <1>2 DEF CountAttempt, TaskFree, HasTask
<1>4. CASE ~Owns(w)
  <2>1. faults' \in 0..MaxFaults /\ chat' \in [Targets -> Seq(MessageRow)]
        /\ UNCHANGED <<status, task, link, handler>> /\ races' = races
    BY <1>1, <1>4, RowTypes DEF CountAttempt
  <2> QED
    BY <1>1, <2>1, Stopped, MoveBase DEF CountAttempt
<1>5. CASE Owns(w)
  <2>1. task[k].state = "processing" /\ task[k].attempts < MaxAttempts
    BY <1>2, <1>5 DEF Owns, Base, TasksInv, Open
  <2>2. PICK row \in TaskRow :
          /\ task' = [task EXCEPT ![k] = row]
          /\ row.state # "none"
          /\ row.state \in Open => row.attempts < MaxAttempts
    <3>1. /\ Attempted(k, "retry") \in TaskRow
          /\ Attempted(k, "retry").state \in {"delivered", "retry", "failed"}
          /\ Attempted(k, "retry").state = "retry" => Attempted(k, "retry").attempts < MaxAttempts
      BY <1>1, <2>1, TaskEnds
    <3> QED
      BY <1>2, <1>5, <3>1 DEF CountAttempt, Open
  <2>3. TasksInv' /\ task' \in [Tasks -> TaskRow]
    BY <2>1, <2>2, TasksStep DEF CountAttempt
  <2>4. LocksInv'
    <3>1. \A v \in Workers \ {w} : HasTask(v) => task'[worker[v].task] = task[worker[v].task]
      BY <1>1, <1>3, <2>2, RowTypes DEF LocksInv, HasTask
    <3> QED
      BY <1>1, <3>1, Stopped, LocksStep DEF CountAttempt
  <2>5. TypeOK'
    <3>1. worker' \in [Workers -> WorkerRow]
      BY <1>1, Stopped, RowTypes DEF CountAttempt
    <3> QED
      BY <1>1, <2>3, <3>1, RowTypes, TypeNext DEF CountAttempt
  <2> QED
    BY <2>3, <2>4, <2>5 DEF Base
<1> QED
  BY <1>4, <1>5

LEMMA LeaseEndsBase ==
  ASSUME Base, NEW k \in Tasks, LeaseEnds(k)
  PROVE  Base'
<1>1. TypeOK /\ LocksInv /\ TasksInv
  BY DEF Base
<1>2. PICK row \in TaskRow :
        /\ task' = [task EXCEPT ![k] = row]
        /\ row.state = task[k].state /\ row.holder = task[k].holder
        /\ row.attempts = task[k].attempts
  <2> DEFINE row == [task[k] EXCEPT !.leased = FALSE]
  <2>1. task' = [task EXCEPT ![k] = row]
    BY <1>1, RowTypes DEF LeaseEnds
  <2>2. /\ row \in TaskRow
        /\ row.state = task[k].state /\ row.holder = task[k].holder
        /\ row.attempts = task[k].attempts
    BY <1>1, RowTypes DEF TaskRow
  <2> QED
    BY <2>1, <2>2
<1>3. TasksInv' /\ task' \in [Tasks -> TaskRow]
  BY <1>1, <1>2, TasksStep DEF LeaseEnds, TasksInv
<1>4. \A j \in Tasks : task'[j].state = task[j].state /\ task'[j].holder = task[j].holder
  BY <1>1, <1>2, RowTypes
<1>5. LocksInv'
  BY <1>1, <1>4 DEF LeaseEnds, LocksInv, HasTask, HasOrder
<1>6. races' \subseteq {"overtaken", "skipped", "slow"}
  <2>1. CASE races' = races \cup {"slow"}
    BY <1>1, <2>1 DEF TypeOK
  <2>2. CASE races' = races
    BY <1>1, <2>2 DEF TypeOK
  <2> QED
    BY <2>1, <2>2 DEF LeaseEnds
<1>7. TypeOK'
  BY <1>1, <1>3, <1>6, RowTypes, TypeNext DEF LeaseEnds
<1> QED
  BY <1>3, <1>5, <1>7 DEF Base

----------------------------------------------------------------------------
(* Status changes. *)

LEMMA OrderFreeMeans == OrderFree <=> \A w \in Workers : ~HasOrder(w)
BY DEF OrderFree, HasOrder

\* No task of a status that is still to come is there.
LEMMA NoTaskYet ==
  ASSUME Base, NEW s \in Changes, s \in After(status), NEW t \in Targets
  PROVE  task[<<s, t>>].state = "none"
<1>1. <<s, t>> \in Tasks
  BY TaskOf
<1>2. <<s, t>>[1] = s
  OBVIOUS
<1> QED
  BY <1>1, <1>2 DEF Base, TasksInv

LEMMA ChangedBase ==
  ASSUME Base, OrderFree, NEW s \in Successors(status) \cap Changes,
         status' = s, task' = task \/ task' = Enqueued(s),
         UNCHANGED <<link, chat, worker, faults>>, handler' \in [Handlers -> HandlerRow],
         races' \subseteq {"overtaken", "skipped", "slow"}
  PROVE  Base'
<1>1. TypeOK /\ LocksInv /\ TasksInv /\ status \in Statuses /\ task \in [Tasks -> TaskRow]
  BY RowTypes DEF Base
<1>2. s \in Statuses /\ After(s) \subseteq After(status) /\ s \notin After(s)
  BY <1>1, TaskOf, StatusOrder
<1>3. [NoTask EXCEPT !.state = "pending"] \in TaskRow
      /\ [NoTask EXCEPT !.state = "pending"].state = "pending"
      /\ [NoTask EXCEPT !.state = "pending"].attempts = 0
  <2>1. 0 \in 0..MaxAttempts
    BY CardConstants
  <2> QED
    BY <2>1 DEF NoTask, TaskRow, Open
<1>4. /\ task' \in [Tasks -> TaskRow]
      /\ \A k \in Tasks : \/ task'[k] = task[k]
                          \/ /\ task[k].state = "none" /\ k[1] = s
                             /\ task'[k].state = "pending" /\ task'[k].attempts = 0
      /\ \/ task' = task
         \/ \A t \in Targets : task'[<<s, t>>].state # "none"
  <2>1. CASE task' = task
    BY <1>1, <2>1
  <2>2. CASE task' = Enqueued(s)
    <3>1. \A k \in Tasks : task'[k] = IF k[1] = s /\ task[k].state = "none"
                                     THEN [NoTask EXCEPT !.state = "pending"] ELSE task[k]
      BY <2>2 DEF Enqueued
    <3>2. task' \in [Tasks -> TaskRow]
      BY <1>1, <1>3, <2>2 DEF Enqueued
    <3>3. \A t \in Targets : <<s, t>> \in Tasks /\ <<s, t>>[1] = s
      BY TaskOf
    <3>4. \A k \in Tasks : \/ task'[k] = task[k]
                          \/ /\ task[k].state = "none" /\ k[1] = s
                             /\ task'[k].state = "pending" /\ task'[k].attempts = 0
      BY <1>3, <3>1
    <3>5. \A t \in Targets : task'[<<s, t>>].state # "none"
      BY <1>3, <3>1, <3>3
    <3> QED
      BY <3>2, <3>4, <3>5
  <2> QED
    BY <2>1, <2>2
<1>5. LocksInv'
  <2>1. \A w \in Workers : HasTask(w) =>
          /\ task'[worker[w].task].state = "processing"
          /\ task'[worker[w].task].holder = w
    <3> SUFFICES ASSUME NEW w \in Workers, HasTask(w)
                 PROVE  /\ task'[worker[w].task].state = "processing"
                        /\ task'[worker[w].task].holder = w
      OBVIOUS
    <3>1. worker[w].task \in Tasks /\ task[worker[w].task].state = "processing"
          /\ task[worker[w].task].holder = w
      BY <1>1 DEF LocksInv, HasTask
    <3> QED
      BY <1>4, <3>1
  <2>2. \A w \in Workers : ~HasOrder(w)
    BY OrderFreeMeans
  <2> QED
    BY <1>1, <2>1, <2>2 DEF LocksInv, HasTask, HasOrder
<1>6. TasksInv'
  <2>1. \A k \in Tasks : task'[k].state \in Open => task'[k].attempts < MaxAttempts
    BY <1>1, <1>4, CardConstants DEF TasksInv
  <2>2. \A k \in Tasks : task'[k].state # "none" => k[1] \notin After(status')
    BY <1>1, <1>2, <1>4 DEF TasksInv
  <2>3. \A r \in Changes : \A t, u \in Targets :
          task'[<<r, t>>].state # "none" => task'[<<r, u>>].state # "none"
    <3> SUFFICES ASSUME NEW r \in Changes, NEW t \in Targets, NEW u \in Targets,
                        task'[<<r, t>>].state # "none"
                 PROVE  task'[<<r, u>>].state # "none"
      OBVIOUS
    <3>1. <<r, t>> \in Tasks /\ <<r, t>>[1] = r /\ <<r, u>> \in Tasks /\ <<r, u>>[1] = r
      BY TaskOf
    <3>2. task[<<r, t>>].state # "none" => task[<<r, u>>].state # "none"
      BY <1>1 DEF TasksInv
    <3> QED
      BY <1>4, <3>1, <3>2
  <2> QED
    BY <2>1, <2>2, <2>3 DEF TasksInv
<1>7. TypeOK'
  <2>1. /\ link' \in [Targets -> Nat] /\ chat' \in [Targets -> Seq(MessageRow)]
        /\ worker' \in [Workers -> WorkerRow] /\ faults' \in 0..MaxFaults
        /\ status' \in Statuses
    BY <1>1, <1>2, RowTypes
  <2> QED
    BY <1>4, <2>1, TypeNext
<1> QED
  BY <1>5, <1>6, <1>7 DEF Base

----------------------------------------------------------------------------
(* What the handlers do, in terms of their rows. *)

\* A handler goes on to a place with what it shows and edits.
GoesOn(h, row, place) ==
    /\ handler' = [handler EXCEPT ![h] = row]
    /\ row.at = place
    /\ row.shows = handler[h].shows
    /\ row.card = handler[h].card

LEMMA DoneType == Done \in HandlerRow /\ Done.at = "idle" /\ Done.shows = "none" /\ ~Done.notified
BY DEF Done, HandlerRow

LEMMA GreetEffect ==
  ASSUME TypeOK, NEW h \in Handlers, Greet(h)
  PROVE  /\ handler[h].at = "greeting" /\ UNCHANGED <<status, link, task, worker>> /\ races' = races
         /\ \/ \E previous : CardReplaced(previous, "created")
            \/ chat' = chat /\ \E kind : Fault(kind)
         /\ \E row \in HandlerRow : GoesOn(h, row, "greeted") /\ row.notified = handler[h].notified
<1>1. CASE /\ CardReplaced(handler[h].links["user"], "created")
           /\ handler' = [handler EXCEPT ![h].at = "greeted", ![h].links["user"] = NextId("user")]
  <2>1. NextId("user") \in Nat
    BY <1>1, UserSent DEF Statuses
  <2> DEFINE row == [handler[h] EXCEPT !.at = "greeted", !.links["user"] = NextId("user")]
  <2>2. handler' = [handler EXCEPT ![h] = row]
    BY <1>1, RowTypes
  <2>3. /\ row \in HandlerRow /\ row.at = "greeted" /\ row.shows = handler[h].shows
        /\ row.card = handler[h].card /\ row.notified = handler[h].notified
    BY <2>1, RowTypes DEF HandlerRow, Targets
  <2> HIDE DEF row
  <2> QED
    BY <1>1, <2>2, <2>3 DEF Greet, GoesOn
<1>2. CASE /\ NothingSent("outage") \/ NothingSent("refusal")
           /\ handler' = [handler EXCEPT ![h].at = "greeted"]
  <2> DEFINE row == [handler[h] EXCEPT !.at = "greeted"]
  <2>2. handler' = [handler EXCEPT ![h] = row]
    BY <1>2, RowTypes
  <2>3. /\ row \in HandlerRow /\ row.at = "greeted" /\ row.shows = handler[h].shows
        /\ row.card = handler[h].card /\ row.notified = handler[h].notified
    BY RowTypes DEF HandlerRow
  <2> HIDE DEF row
  <2> QED
    BY <1>2, <2>2, <2>3 DEF Greet, GoesOn, NothingSent
<1> QED
  BY <1>1, <1>2 DEF Greet

LEMMA StoreGreetingEffect ==
  ASSUME TypeOK, NEW h \in Handlers, StoreGreeting(h)
  PROVE  /\ handler[h].at = "greeted" /\ OrderFree
         /\ UNCHANGED <<status, chat, task, worker, faults>> /\ races' = races
         /\ link' \in [Targets -> Nat]
         /\ \E row \in HandlerRow : GoesOn(h, row, "greeted") /\ row.notified = handler[h].notified
<1> DEFINE row == [handler[h] EXCEPT !.links["user"] = 0]
<1>1. handler' = [handler EXCEPT ![h] = row]
  BY RowTypes DEF StoreGreeting
<1>2. /\ row \in HandlerRow /\ row.at = "greeted" /\ row.shows = handler[h].shows
      /\ row.card = handler[h].card /\ row.notified = handler[h].notified
  BY ZenonT(40), RowTypes DEF HandlerRow, Targets, StoreGreeting
<1>3. link' \in [Targets -> Nat]
  <2>1. handler[h].links["user"] \in Nat
    BY RowTypes DEF HandlerRow, Targets
  <2> QED
    BY <2>1, RowTypes DEF StoreGreeting, LinkTo
<1> HIDE DEF row
<1> QED
  BY <1>1, <1>2, <1>3 DEF StoreGreeting, GoesOn

LEMMA IntroduceEffect ==
  ASSUME TypeOK, NEW h \in Handlers, Introduce(h)
  PROVE  /\ handler[h].at = "greeted" /\ UNCHANGED <<status, link, task, worker>> /\ races' = races
         /\ \/ CardSent("created", FALSE)
            \/ chat' = chat /\ \E kind : Fault(kind)
         /\ \E row \in HandlerRow : GoesOn(h, row, "storing") /\ row.notified = handler[h].notified
<1>1. CASE /\ CardSent("created", FALSE)
           /\ handler' = [handler EXCEPT ![h].at = "storing",
                                         ![h].links["manager"] = NextId("manager")]
  <2>1. NextId("manager") \in Nat
    BY <1>1, ManagerSent DEF Statuses
  <2> DEFINE row == [handler[h] EXCEPT !.at = "storing", !.links["manager"] = NextId("manager")]
  <2>2. handler' = [handler EXCEPT ![h] = row]
    BY <1>1, RowTypes
  <2>3. /\ row \in HandlerRow /\ row.at = "storing" /\ row.shows = handler[h].shows
        /\ row.card = handler[h].card /\ row.notified = handler[h].notified
    BY ZenonT(40), <2>1, RowTypes DEF HandlerRow, Targets
  <2> HIDE DEF row
  <2> QED
    BY <1>1, <2>2, <2>3 DEF Introduce, GoesOn
<1>2. CASE /\ NothingSent("outage") \/ NothingSent("refusal")
           /\ handler' = [handler EXCEPT ![h].at = "storing"]
  <2> DEFINE row == [handler[h] EXCEPT !.at = "storing"]
  <2>2. handler' = [handler EXCEPT ![h] = row]
    BY <1>2, RowTypes
  <2>3. /\ row \in HandlerRow /\ row.at = "storing" /\ row.shows = handler[h].shows
        /\ row.card = handler[h].card /\ row.notified = handler[h].notified
    BY RowTypes DEF HandlerRow
  <2> HIDE DEF row
  <2> QED
    BY <1>2, <2>2, <2>3 DEF Introduce, GoesOn, NothingSent
<1> QED
  BY <1>1, <1>2 DEF Introduce

\* Both ways out of "storing".
LEMMA StoredEffect ==
  ASSUME TypeOK, NEW h \in Handlers, handler[h].at = "storing",
         IF handler[h].card = 0 THEN Ends(h) ELSE handler' = [handler EXCEPT ![h].at = "editing"]
  PROVE  \E row \in HandlerRow :
            \/ handler' = [handler EXCEPT ![h] = row] /\ row = Done
            \/ /\ GoesOn(h, row, "editing") /\ row.notified = handler[h].notified
               /\ handler[h].card # 0
<1>1. CASE handler[h].card = 0
  BY <1>1, DoneType DEF Ends
<1>2. CASE handler[h].card # 0
  <2> DEFINE row == [handler[h] EXCEPT !.at = "editing"]
  <2>2. handler' = [handler EXCEPT ![h] = row]
    BY <1>2, RowTypes
  <2>3. /\ row \in HandlerRow /\ row.at = "editing" /\ row.shows = handler[h].shows
        /\ row.card = handler[h].card /\ row.notified = handler[h].notified
    BY ZenonT(40), RowTypes DEF HandlerRow
  <2> HIDE DEF row
  <2> QED
    BY <1>2, <2>2, <2>3 DEF GoesOn
<1> QED
  BY <1>1, <1>2

LEMMA HandoffEffect ==
  ASSUME TypeOK, NEW h \in Handlers, Handoff(h)
  PROVE  /\ handler[h].at = "handoff" /\ UNCHANGED <<status, link, task, worker>> /\ races' = races
         /\ \E row \in HandlerRow :
               \/ /\ \E previous : CardReplaced(previous, "processing")
                  /\ GoesOn(h, row, "storing")
               \/ /\ chat' = chat /\ \E kind : Fault(kind)
                  /\ GoesOn(h, row, "editing") /\ row.notified = handler[h].notified
<1>1. CASE /\ CardReplaced(handler[h].links["user"], "processing")
           /\ handler' = [handler EXCEPT ![h].at = "storing", ![h].notified = TRUE,
                                         ![h].links = [t \in Targets |->
                                            IF t = "user" THEN NextId("user") ELSE 0]]
  <2>1. NextId("user") \in Nat
    BY <1>1, UserSent DEF Statuses
  <2>2. PICK links \in [Targets -> Nat] :
          links = [t \in Targets |-> IF t = "user" THEN NextId("user") ELSE 0]
    BY <2>1
  <2> DEFINE row == [handler[h] EXCEPT !.at = "storing", !.notified = TRUE, !.links = links]
  <2>3. handler' = [handler EXCEPT ![h] = row]
    BY <1>1, <2>2, RowTypes
  <2>4. /\ row \in HandlerRow /\ row.at = "storing" /\ row.shows = handler[h].shows
        /\ row.card = handler[h].card
    BY RowTypes DEF HandlerRow
  <2> HIDE DEF row
  <2> QED
    BY <1>1, <2>3, <2>4 DEF Handoff, GoesOn
<1>2. CASE /\ NothingSent("outage") \/ NothingSent("refusal")
           /\ handler' = [handler EXCEPT ![h].at = "editing"]
  <2> DEFINE row == [handler[h] EXCEPT !.at = "editing"]
  <2>2. handler' = [handler EXCEPT ![h] = row]
    BY <1>2, RowTypes
  <2>3. /\ row \in HandlerRow /\ row.at = "editing" /\ row.shows = handler[h].shows
        /\ row.card = handler[h].card /\ row.notified = handler[h].notified
    BY RowTypes DEF HandlerRow
  <2> HIDE DEF row
  <2> QED
    BY <1>2, <2>2, <2>3 DEF Handoff, GoesOn, NothingSent
<1> QED
  BY <1>1, <1>2 DEF Handoff

LEMMA EditCardEffect ==
  ASSUME TypeOK, HandlersInv, NEW h \in Handlers, EditCard(h)
  PROVE  /\ handler[h].at = "editing" /\ UNCHANGED <<status, link, task, worker>> /\ races' = races
         /\ handler' = [handler EXCEPT ![h] = Done]
         /\ handler[h].shows \in Statuses /\ handler[h].notified \in BOOLEAN
         /\ \/ /\ handler[h].card \in DOMAIN chat["manager"]
               /\ CardEdited(handler[h].card, handler[h].shows, handler[h].notified)
            \/ chat' = chat /\ (UNCHANGED faults \/ \E kind : Fault(kind))
<1>1. handler[h].at = "editing" /\ UNCHANGED <<status, link, task, worker>> /\ races' = races
      /\ handler' = [handler EXCEPT ![h] = Done]
  BY DEF EditCard, Ends
<1>2. handler[h].shows \in Statuses /\ handler[h].notified \in BOOLEAN
  BY <1>1, RowTypes DEF HandlersInv, WillEdit, HandlerRow
<1> QED
  BY <1>1, <1>2 DEF EditCard, Alive, NothingSent

\* The three buttons.
LEMMA TakeEffect ==
  ASSUME TypeOK, NEW h \in Handlers, NEW card \in DOMAIN chat["manager"], Take(h, card)
  PROVE  /\ handler[h].at = "idle" /\ OrderFree /\ UNCHANGED <<link, chat, task, worker, faults>>
         /\ status = "created" /\ status' = "processing" /\ "processing" \in Changes
         /\ races' = races \cup Overtakes
         /\ \E row \in HandlerRow :
               /\ handler' = [handler EXCEPT ![h] = row]
               /\ row.at = "handoff" /\ row.shows = "processing" /\ ~row.notified
<1> DEFINE row == [at |-> "handoff", shows |-> "processing", notified |-> FALSE,
                   links |-> link, card |-> card]
<1>1. card \in Nat
  BY RowTypes DEF Targets
<1>2. row \in HandlerRow /\ row.at = "handoff" /\ row.shows = "processing" /\ ~row.notified
  BY <1>1, RowTypes DEF HandlerRow, Statuses
<1>3. handler' = [handler EXCEPT ![h] = row]
  BY DEF Take
<1> HIDE DEF row
<1> QED
  BY <1>2, <1>3 DEF Take, Pressed

LEMMA TakeAgainEffect ==
  ASSUME TypeOK, NEW h \in Handlers, NEW card \in DOMAIN chat["manager"], TakeAgain(h, card)
  PROVE  /\ handler[h].at = "idle" /\ UNCHANGED <<status, link, chat, task, worker, faults>>
         /\ status = "processing" /\ races' = races \cup {"skipped"}
         /\ \E row \in HandlerRow :
               /\ handler' = [handler EXCEPT ![h] = row]
               /\ row.at = "editing" /\ row.shows = "processing"
<1> DEFINE row == [Done EXCEPT !.at = "editing", !.shows = "processing",
                               !.notified = TRUE, !.card = card]
<1>1. card \in Nat
  BY RowTypes DEF Targets
<1>2. row \in HandlerRow /\ row.at = "editing" /\ row.shows = "processing"
  BY <1>1 DEF HandlerRow, Statuses, Done
<1>3. handler' = [handler EXCEPT ![h] = row]
  BY DEF TakeAgain
<1> HIDE DEF row
<1> QED
  BY <1>2, <1>3 DEF TakeAgain, Pressed

LEMMA CloseEffect ==
  ASSUME TypeOK, NEW h \in Handlers, NEW card \in DOMAIN chat["manager"],
         NEW s \in Statuses, Close(h, s, card)
  PROVE  /\ handler[h].at = "idle" /\ OrderFree /\ UNCHANGED <<link, chat, worker, faults>>
         /\ s \in (Successors(status) \cap Changes) \ {"processing"}
         /\ status' = s /\ task' = Enqueued(s) /\ races' = races \cup Overtakes
         /\ \E row \in HandlerRow :
               /\ handler' = [handler EXCEPT ![h] = row]
               /\ row.at = "editing" /\ row.shows = s
<1> DEFINE row == [Done EXCEPT !.at = "editing", !.shows = s, !.notified = TRUE, !.card = card]
<1>1. card \in Nat
  BY RowTypes DEF Targets
<1>2. row \in HandlerRow /\ row.at = "editing" /\ row.shows = s
  BY <1>1 DEF HandlerRow, Statuses, Done
<1>3. handler' = [handler EXCEPT ![h] = row]
  BY DEF Close
<1> HIDE DEF row
<1> QED
  BY <1>2, <1>3 DEF Close, Pressed, Changed

LEMMA OvertakesType == Overtakes \subseteq {"overtaken"}
BY DEF Overtakes

LEMMA RacesType ==
  ASSUME TypeOK, races' = races \/ races' = races \cup Overtakes \/ races' = races \cup {"skipped"}
  PROVE  races' \subseteq {"overtaken", "skipped", "slow"}
BY OvertakesType DEF TypeOK

\* A handler does something while statuses, tasks and workers stay as they are.
LEMMA HandlerBase ==
  ASSUME Base, HandlersInv, NEW h \in Handlers, NEW row \in HandlerRow,
         handler' = [handler EXCEPT ![h] = row], UNCHANGED <<status, task, worker>>,
         link' \in [Targets -> Nat], chat' \in [Targets -> Seq(MessageRow)],
         faults' \in 0..MaxFaults, races' \subseteq {"overtaken", "skipped", "slow"},
         \/ row.at = "idle"
         \/ row.at \notin {"handoff", "editing"} /\ row.card = 0
         \/ row.shows \in Statuses
  PROVE  Base' /\ HandlersInv'
<1>1. LocksInv' /\ TasksInv'
  BY DEF Base, LocksInv, TasksInv, HasTask, HasOrder
<1>2. handler' \in [Handlers -> HandlerRow]
      /\ handler'[h] = row /\ \A g \in Handlers \ {h} : handler'[g] = handler[g]
  BY RowTypes DEF Base
<1>3. TypeOK'
  BY <1>2, RowTypes, TypeNext DEF Base
<1>4. HandlersInv'
  BY <1>2 DEF HandlersInv, WillEdit
<1> QED
  BY <1>1, <1>3, <1>4 DEF Base

LEMMA HandlerSteps ==
  ASSUME Base, HandlersInv, NEW h \in Handlers, Handle(h) \/ LoseLinks(h) \/ Press(h)
  PROVE  Base' /\ HandlersInv'
<1>0. TypeOK /\ link \in [Targets -> Nat] /\ chat \in [Targets -> Seq(MessageRow)]
      /\ faults \in 0..MaxFaults /\ races \subseteq {"overtaken", "skipped", "slow"}
  BY RowTypes DEF Base
<1>1. ASSUME NEW row \in HandlerRow, NEW place, GoesOn(h, row, place),
             place \notin {"handoff", "editing"} \/ WillEdit(h), handler[h].at # "idle"
      PROVE  \/ row.at \notin {"handoff", "editing"} /\ row.card = 0
             \/ row.shows \in Statuses
  BY <1>1 DEF GoesOn, HandlersInv, WillEdit
<1>2. ASSUME NEW s \in Statuses, \E previous : CardReplaced(previous, s)
      PROVE  chat' \in [Targets -> Seq(MessageRow)] /\ faults' \in 0..MaxFaults
  BY <1>0, <1>2, UserSent
<1>3. ASSUME chat' = chat, UNCHANGED faults \/ \E kind : Fault(kind)
      PROVE  chat' \in [Targets -> Seq(MessageRow)] /\ faults' \in 0..MaxFaults
  BY <1>0, <1>3, FaultCounts
<1>4. CASE Greet(h)
  <2>1. chat' \in [Targets -> Seq(MessageRow)] /\ faults' \in 0..MaxFaults
    BY <1>0, <1>2, <1>3, <1>4, GreetEffect DEF Statuses
  <2>2. PICK row \in HandlerRow : GoesOn(h, row, "greeted")
    BY <1>0, <1>4, GreetEffect
  <2> QED
    BY ZenonT(40), <1>0, <1>1, <1>4, <2>1, <2>2, GreetEffect, HandlerBase DEF GoesOn
<1>5. CASE StoreGreeting(h)
  <2>1. PICK row \in HandlerRow : GoesOn(h, row, "greeted")
    BY <1>0, <1>5, StoreGreetingEffect
  <2> QED
    BY <1>0, <1>1, <1>5, <2>1, StoreGreetingEffect, HandlerBase DEF GoesOn
<1>6. CASE Introduce(h)
  <2>1. CASE CardSent("created", FALSE)
    <3>1. chat' \in [Targets -> Seq(MessageRow)] /\ faults' \in 0..MaxFaults
      BY <1>0, <2>1, ManagerSent DEF Statuses
    <3>2. PICK row \in HandlerRow : GoesOn(h, row, "storing")
      BY <1>0, <1>6, IntroduceEffect
    <3> QED
      BY ZenonT(40), <1>0, <1>1, <1>6, <3>1, <3>2, IntroduceEffect, HandlerBase DEF GoesOn
  <2>2. CASE chat' = chat /\ \E kind : Fault(kind)
    <3>1. chat' \in [Targets -> Seq(MessageRow)] /\ faults' \in 0..MaxFaults
      BY <1>3, <2>2
    <3>2. PICK row \in HandlerRow : GoesOn(h, row, "storing")
      BY <1>0, <1>6, IntroduceEffect
    <3> QED
      BY ZenonT(40), <1>0, <1>1, <1>6, <3>1, <3>2, IntroduceEffect, HandlerBase DEF GoesOn
  <2> QED
    BY <1>0, <1>6, <2>1, <2>2, IntroduceEffect
<1>7. CASE StoreLinks(h) \/ LoseLinks(h)
  <2>1. /\ handler[h].at = "storing" /\ UNCHANGED <<status, chat, task, worker>> /\ races' = races
        /\ IF handler[h].card = 0 THEN Ends(h)
           ELSE handler' = [handler EXCEPT ![h].at = "editing"]
    BY <1>7 DEF StoreLinks, LoseLinks
  <2>2. link' \in [Targets -> Nat] /\ faults' \in 0..MaxFaults
    <3>1. CASE StoreLinks(h)
      <4>1. \A t \in Targets : handler[h].links[t] \in Nat
        BY <1>0, RowTypes DEF HandlerRow
      <4> QED
        BY <1>0, <3>1, <4>1 DEF StoreLinks
    <3>2. CASE LoseLinks(h)
      BY <1>0, <3>2, FaultCounts DEF LoseLinks
    <3> QED
      BY <1>7, <3>1, <3>2
  <2>3. PICK row \in HandlerRow :
          \/ handler' = [handler EXCEPT ![h] = row] /\ row = Done
          \/ GoesOn(h, row, "editing") /\ handler[h].card # 0
    BY <1>0, <2>1, StoredEffect
  <2>4. CASE handler' = [handler EXCEPT ![h] = row] /\ row = Done
    BY <1>0, <2>1, <2>2, <2>4, DoneType, HandlerBase
  <2>5. CASE GoesOn(h, row, "editing") /\ handler[h].card # 0
    <3>1. row.shows \in Statuses
      BY <1>1, <2>1, <2>5 DEF WillEdit, GoesOn
    <3> QED
      BY <1>0, <2>1, <2>2, <2>5, <3>1, HandlerBase DEF GoesOn
  <2> QED
    BY <2>3, <2>4, <2>5
<1>8. CASE Handoff(h)
  <2>1. PICK row \in HandlerRow :
          /\ \/ \E previous : CardReplaced(previous, "processing")
             \/ chat' = chat /\ \E kind : Fault(kind)
          /\ handler' = [handler EXCEPT ![h] = row] /\ row.shows = handler[h].shows
    BY <1>0, <1>8, HandoffEffect DEF GoesOn
  <2>2. chat' \in [Targets -> Seq(MessageRow)] /\ faults' \in 0..MaxFaults
    BY <1>0, <1>2, <1>3, <2>1 DEF Statuses
  <2>3. row.shows \in Statuses
    BY <1>0, <1>8, <2>1, HandoffEffect DEF HandlersInv, WillEdit
  <2> QED
    BY <1>0, <1>8, <2>1, <2>2, <2>3, HandoffEffect, HandlerBase
<1>9. CASE EditCard(h)
  <2>1. chat' \in [Targets -> Seq(MessageRow)] /\ faults' \in 0..MaxFaults
    <3>1. CASE /\ handler[h].card \in DOMAIN chat["manager"]
               /\ CardEdited(handler[h].card, handler[h].shows, handler[h].notified)
      BY <1>0, <1>9, <3>1, EditCardEffect, ManagerEdited
    <3> QED
      BY <1>0, <1>3, <1>9, <3>1, EditCardEffect
  <2> QED
    BY ZenonT(40), <1>0, <1>9, <2>1, EditCardEffect, DoneType, HandlerBase
<1>10. ASSUME NEW card \in DOMAIN chat["manager"], Take(h, card)
       PROVE  Base' /\ HandlersInv'
  <2>1. PICK row \in HandlerRow :
          handler' = [handler EXCEPT ![h] = row] /\ row.shows = "processing"
    BY <1>0, <1>10, TakeEffect
  <2>2. /\ handler' \in [Handlers -> HandlerRow] /\ handler'[h] = row
        /\ \A g \in Handlers \ {h} : handler'[g] = handler[g]
    BY <1>0, <2>1, RowTypes
  <2>3. HandlersInv'
    BY <2>1, <2>2 DEF HandlersInv, WillEdit, Statuses
  <2>4. "processing" \in Successors(status) \cap Changes
    BY <1>0, <1>10, TakeEffect DEF Successors
  <2>5. /\ races' \subseteq {"overtaken", "skipped", "slow"} /\ OrderFree
        /\ status' = "processing" /\ task' = task /\ UNCHANGED <<link, chat, worker, faults>>
    BY <1>0, <1>10, TakeEffect, RacesType
  <2> QED
    BY <2>2, <2>3, <2>4, <2>5, ChangedBase
<1>11. ASSUME NEW card \in DOMAIN chat["manager"], TakeAgain(h, card)
       PROVE  Base' /\ HandlersInv'
  <2>1. races' \subseteq {"overtaken", "skipped", "slow"}
    BY <1>0, <1>11, TakeAgainEffect, RacesType
  <2>2. PICK row \in HandlerRow :
          handler' = [handler EXCEPT ![h] = row] /\ row.shows = "processing"
    BY <1>0, <1>11, TakeAgainEffect
  <2>3. UNCHANGED <<status, link, chat, task, worker, faults>>
    BY <1>0, <1>11, TakeAgainEffect
  <2>4. /\ link' \in [Targets -> Nat] /\ chat' \in [Targets -> Seq(MessageRow)]
        /\ faults' \in 0..MaxFaults /\ row.shows \in Statuses
    BY <1>0, <2>2, <2>3 DEF Statuses
  <2> QED
    BY <2>1, <2>2, <2>3, <2>4, HandlerBase
<1>12. ASSUME NEW card \in DOMAIN chat["manager"], NEW s \in Statuses, Close(h, s, card)
       PROVE  Base' /\ HandlersInv'
  <2>1. PICK row \in HandlerRow : handler' = [handler EXCEPT ![h] = row] /\ row.shows = s
    BY <1>0, <1>12, CloseEffect
  <2>2. /\ handler' \in [Handlers -> HandlerRow] /\ handler'[h] = row
        /\ \A g \in Handlers \ {h} : handler'[g] = handler[g]
    BY <1>0, <2>1, RowTypes
  <2>3. HandlersInv'
    BY <2>1, <2>2 DEF HandlersInv, WillEdit
  <2>4. /\ races' \subseteq {"overtaken", "skipped", "slow"} /\ OrderFree
        /\ status' = s /\ task' = Enqueued(s) /\ UNCHANGED <<link, chat, worker, faults>>
        /\ s \in Successors(status) \cap Changes
    BY <1>0, <1>12, CloseEffect, RacesType
  <2> QED
    BY <2>2, <2>3, <2>4, ChangedBase
<1> QED
  BY <1>4, <1>5, <1>6, <1>7, <1>8, <1>9, <1>10, <1>11, <1>12 DEF Handle, Press

LEMMA ChangeByWebBase ==
  ASSUME Base, HandlersInv, NEW s \in Statuses, ChangeByWeb(s)
  PROVE  Base' /\ HandlersInv'
<1>1. TypeOK /\ handler' \in [Handlers -> HandlerRow] /\ handler' = handler
  BY RowTypes DEF Base, ChangeByWeb
<1>2. /\ races' \subseteq {"overtaken", "skipped", "slow"} /\ OrderFree
      /\ status' = s /\ task' = Enqueued(s) /\ UNCHANGED <<link, chat, worker, faults>>
      /\ s \in Successors(status) \cap Changes
  BY <1>1, RacesType DEF ChangeByWeb, Changed
<1> QED
  BY <1>1, <1>2, ChangedBase DEF HandlersInv, WillEdit

LEMMA DeleteCardBase ==
  ASSUME Base, HandlersInv, NEW id, DeleteCard(id)
  PROVE  Base' /\ HandlersInv'
<1>1. TypeOK /\ UNCHANGED <<status, link, task, worker, handler>> /\ races' = races
  BY DEF Base, DeleteCard
<1>2. chat' \in [Targets -> Seq(MessageRow)] /\ faults' \in 0..MaxFaults
  BY <1>1, ManagerRemoved, FaultCounts DEF DeleteCard
<1>3. TypeOK'
  BY <1>1, <1>2, RowTypes, TypeNext
<1>4. LocksInv' /\ TasksInv' /\ HandlersInv'
  BY <1>1 DEF Base, LocksInv, TasksInv, HasTask, HasOrder, HandlersInv, WillEdit
<1> QED
  BY <1>3, <1>4 DEF Base

LEMMA BaseInit == Init => Base /\ HandlersInv
<1> SUFFICES ASSUME Init PROVE Base /\ HandlersInv
  OBVIOUS
<1>1. 0 \in 0..MaxAttempts /\ 0 \in 0..MaxFaults /\ MaxAttempts \in Nat \ {0}
  BY CardConstants
<1>2. NoTask \in TaskRow /\ Idle \in WorkerRow /\ Done \in HandlerRow
  BY <1>1, DoneType DEF NoTask, TaskRow, Idle, WorkerRow
<1>3. [Done EXCEPT !.at = "greeting"] \in HandlerRow
  BY DEF Done, HandlerRow
<1>4. chat \in [Targets -> Seq(MessageRow)]
  <2>1. <<>> \in Seq(MessageRow)
    OBVIOUS
  <2> QED
    BY <2>1 DEF Init
<1>5. TypeOK
  <2>1. /\ task \in [Tasks -> TaskRow] /\ worker \in [Workers -> WorkerRow]
        /\ handler \in [Handlers -> HandlerRow]
    BY <1>2, <1>3 DEF Init
  <2>2. link \in [Targets -> Nat] /\ status \in Statuses
    BY DEF Init, Statuses
  <2> QED
    BY <1>1, <1>4, <2>1, <2>2, RowTypes DEF Init
<1>6. \A w \in Workers : worker[w].at = "idle"
  BY DEF Init, Idle
<1>7. LocksInv
  BY <1>6 DEF LocksInv, HasTask, HasOrder
<1>8. \A k \in Tasks : task[k].state = "none" /\ task[k].attempts = 0
  BY DEF Init, NoTask
<1>9. TasksInv
  BY <1>1, <1>8, TaskOf DEF TasksInv, Open
<1>10. \A h \in Handlers : handler[h].at \notin {"handoff", "editing"} /\ handler[h].card = 0
  BY DEF Init, Done
<1>11. HandlersInv
  BY <1>10 DEF HandlersInv, WillEdit
<1> QED
  BY <1>5, <1>7, <1>9, <1>11 DEF Base

LEMMA BaseStep == Base /\ HandlersInv /\ [Next]_vars => Base' /\ HandlersInv'
<1> SUFFICES ASSUME Base, HandlersInv, [Next]_vars PROVE Base' /\ HandlersInv'
  OBVIOUS
<1>1. ASSUME handler' = handler PROVE HandlersInv'
  BY <1>1 DEF HandlersInv, WillEdit
<1>2. ASSUME NEW w \in Workers, Work(w) PROVE Base' /\ HandlersInv'
  <2>1. handler' = handler
    BY <1>2 DEF Work, Claim, LockTask, LockOrder, SendUser, EditManager, Record, CountAttempt
  <2> QED
    BY <1>1, <1>2, <2>1, ClaimBase, LockTaskBase, LockOrderBase, SendUserBase, EditManagerBase,
       RecordBase, CountAttemptBase DEF Work
<1>3. ASSUME NEW w \in Workers, TimeOut(w) \/ Crash(w) PROVE Base' /\ HandlersInv'
  <2>1. handler' = handler
    BY <1>3 DEF TimeOut, Crash
  <2> QED
    BY <1>1, <1>3, <2>1, TimeOutBase, CrashBase
<1>4. ASSUME NEW k \in Tasks, LeaseEnds(k) PROVE Base' /\ HandlersInv'
  <2>1. handler' = handler
    BY <1>4 DEF LeaseEnds
  <2> QED
    BY <1>1, <1>4, <2>1, LeaseEndsBase
<1>5. ASSUME UNCHANGED vars PROVE Base' /\ HandlersInv'
  <2>1. LocksInv' /\ TasksInv' /\ HandlersInv'
    BY <1>5 DEF vars, Base, LocksInv, TasksInv, HasTask, HasOrder, HandlersInv, WillEdit
  <2>2. TypeOK'
    BY <1>5 DEF vars, Base, TypeOK
  <2> QED
    BY <2>1, <2>2 DEF Base
<1> QED
  BY <1>2, <1>3, <1>4, <1>5, HandlerSteps, ChangeByWebBase, DeleteCardBase DEF Next

----------------------------------------------------------------------------
(* How often the customer is told. *)

Core == Base /\ HandlersInv

LEMMA CountMeans ==
  CountInv <=>
    /\ \A s \in Statuses : Cards(s) <= 1 + faults
    /\ \A s \in Changes :
          task[<<s, "user">>].state \in Open /\ (\A w \in Workers : ~Delivered(w, s))
             => Cards(s) <= faults
    /\ \A s \in Changes \cap After(status) : Cards(s) = 0
    /\ \A h \in Handlers :
          handler[h].at = "greeting" => h = Creator /\ Cards("created") = 0
    /\ \A h \in Handlers : handler[h].at = "handoff" =>
          /\ status # "created"
          /\ "processing" \in Changes
          /\ task[<<"processing", "user">>].state = "none"
          /\ Cards("processing") = 0
    /\ \A g, h \in Handlers :
          handler[g].at = "handoff" /\ handler[h].at = "handoff" => g = h
BY DEF CountInv, DuplicatesExplained, Cards

\* The same of the next state, whose faults and cards are given.
LEMMA CountNext ==
  ASSUME NEW f, faults' = f, NEW count, \A s \in Statuses : Cards(s)' = count[s],
         \A s \in Statuses : count[s] <= 1 + f,
         \A s \in Changes :
            task'[<<s, "user">>].state \in Open /\ (\A w \in Workers : ~Delivered(w, s)')
               => count[s] <= f,
         \A s \in Changes \cap After(status') : count[s] = 0,
         \A h \in Handlers :
            handler'[h].at = "greeting" => h = Creator /\ count["created"] = 0,
         \A h \in Handlers : handler'[h].at = "handoff" =>
            /\ status' # "created"
            /\ "processing" \in Changes
            /\ task'[<<"processing", "user">>].state = "none"
            /\ count["processing"] = 0,
         \A g, h \in Handlers :
            handler'[g].at = "handoff" /\ handler'[h].at = "handoff" => g = h
  PROVE  CountInv'
<1>1. DuplicatesExplained'
  BY DEF DuplicatesExplained, Cards
<1>2. "created" \in Statuses /\ "processing" \in Statuses /\ Changes \subseteq Statuses
  BY TaskOf DEF Statuses
<1> QED
  BY <1>1, <1>2 DEF CountInv

\* Nobody sends the customer a card: what could be wrong is a card that has been
\* sent by a worker whose task stays open.
LEMMA CountQuiet ==
  ASSUME Core, CountInv, chat'["user"] = chat["user"], status' = status,
         faults' \in 0..MaxFaults, faults' >= faults,
         \A s \in Changes :
            /\ task'[<<s, "user">>].state \in Open => task[<<s, "user">>].state \in Open
            /\ task[<<s, "user">>].state = "none" => task'[<<s, "user">>].state = "none"
            /\ \A w \in Workers : Delivered(w, s) =>
                  \/ Delivered(w, s)'
                  \/ task'[<<s, "user">>].state \notin Open
                  \/ faults' > faults,
         \A h \in Handlers :
            /\ handler'[h].at = "greeting" => handler[h].at = "greeting"
            /\ handler'[h].at = "handoff" => handler[h].at = "handoff"
  PROVE  CountInv'
<1>1. PICK f \in Nat : f = faults' /\ f >= faults /\ (faults' > faults => f >= faults + 1)
  <2>1. PICK f \in 0..MaxFaults : f = faults'
    OBVIOUS
  <2>2. faults \in Nat /\ f \in Nat
    BY <2>1, CardConstants DEF Core, Base, TypeOK
  <2> QED
    BY <2>1, <2>2
<1>2. PICK count : count = [s \in Statuses |-> Cards(s)]
  OBVIOUS
<1>3. \A s \in Statuses : count[s] = Cards(s) /\ Cards(s)' = count[s] /\ count[s] \in Nat
  BY <1>2, UserKept, CountType DEF Core, Base
<1>4. faults \in Nat
  BY CardConstants DEF Core, Base, TypeOK
<1>5. "created" \in Statuses /\ "processing" \in Statuses /\ Changes \subseteq Statuses
  BY TaskOf DEF Statuses
<1>6. \A s \in Statuses : count[s] <= 1 + f
  BY <1>1, <1>3, <1>4, CountMeans
<1>7. ASSUME NEW s \in Changes, task'[<<s, "user">>].state \in Open,
             \A w \in Workers : ~Delivered(w, s)'
      PROVE  count[s] <= f
  <2>1. CASE \A w \in Workers : ~Delivered(w, s)
    BY <1>1, <1>3, <1>4, <1>5, <1>7, <2>1, CountMeans
  <2>2. CASE \E w \in Workers : Delivered(w, s)
    <3>1. f >= faults + 1
      BY <1>1, <1>7, <2>2
    <3>2. count[s] <= 1 + faults
      BY <1>3, <1>5, CountMeans
    <3> QED
      BY <1>1, <1>3, <1>4, <1>5, <3>1, <3>2
  <2> QED
    BY <2>1, <2>2
<1>8. \A s \in Changes \cap After(status') : count[s] = 0
  BY <1>3, <1>5, CountMeans
<1>9. \A h \in Handlers : handler'[h].at = "greeting" => h = Creator /\ count["created"] = 0
  BY <1>3, <1>5, CountMeans
<1>10. \A h \in Handlers : handler'[h].at = "handoff" =>
            /\ status' # "created"
            /\ "processing" \in Changes
            /\ task'[<<"processing", "user">>].state = "none"
            /\ count["processing"] = 0
  BY <1>3, <1>5, CountMeans
<1>11. \A g, h \in Handlers :
            handler'[g].at = "handoff" /\ handler'[h].at = "handoff" => g = h
  BY CountMeans
<1> QED
  BY <1>1, <1>3, <1>6, <1>7, <1>8, <1>9, <1>10, <1>11, CountNext

\* A worker moves without sending the customer anything.
LEMMA WorkerCount ==
  ASSUME Core, CountInv, NEW w \in Workers, NEW row,
         worker' = [worker EXCEPT ![w] = row], chat'["user"] = chat["user"],
         UNCHANGED <<status, handler>>, faults' \in 0..MaxFaults, faults' >= faults,
         \A k \in Tasks :
            /\ task'[k].state \in Open => task[k].state \in Open
            /\ task[k].state = "none" => task'[k].state = "none",
         \A s \in Changes : Delivered(w, s) =>
            task'[<<s, "user">>].state \notin Open \/ faults' > faults
  PROVE  CountInv'
<1>1. \A s \in Changes : <<s, "user">> \in Tasks
  BY TaskOf DEF Targets
<1>2. \A v \in Workers \ {w} : \A s : Delivered(v, s)' <=> Delivered(v, s)
  BY DEF Delivered, Core, Base, TypeOK
<1>3. \A s \in Changes :
            /\ task'[<<s, "user">>].state \in Open => task[<<s, "user">>].state \in Open
            /\ task[<<s, "user">>].state = "none" => task'[<<s, "user">>].state = "none"
            /\ \A v \in Workers : Delivered(v, s) =>
                  \/ Delivered(v, s)'
                  \/ task'[<<s, "user">>].state \notin Open
                  \/ faults' > faults
  BY <1>1, <1>2
<1>4. status' = status /\ handler' = handler
  OBVIOUS
<1> QED
  BY <1>3, <1>4, CountQuiet

\* The customer is sent a card that may still be sent.
LEMMA CountSent ==
  ASSUME Core, CountInv, NEW s \in Statuses, NEW previous, CardReplaced(previous, s),
         status' = status, task' = task, Cards(s) <= faults, s \notin After(status),
         s \in Changes =>
            task[<<s, "user">>].state \notin Open \/ \E w \in Workers : Delivered(w, s)',
         \A r \in Changes : \A w \in Workers : Delivered(w, r) => Delivered(w, r)',
         \A h \in Handlers :
            /\ handler'[h].at = "greeting" => handler[h].at = "greeting" /\ s # "created"
            /\ handler'[h].at = "handoff" => handler[h].at = "handoff" /\ s # "processing"
  PROVE  CountInv'
<1>1. TypeOK /\ faults \in Nat
  BY CardConstants DEF Core, Base, TypeOK
<1>2. PICK f \in Nat : f = faults' /\ f >= faults
  <2>1. faults' \in 0..MaxFaults /\ faults' >= faults
    BY <1>1, UserSent
  <2>2. PICK f \in 0..MaxFaults : f = faults'
    BY <2>1
  <2> QED
    BY <2>1, <2>2, CardConstants
<1>3. PICK count : count = [r \in Statuses |-> IF r = s THEN Cards(r) + 1 ELSE Cards(r)]
  OBVIOUS
<1>4. \A r \in Statuses : /\ Cards(r) \in Nat
                          /\ Cards(r)' = count[r]
                          /\ count[r] = IF r = s THEN Cards(r) + 1 ELSE Cards(r)
  <2>1. Cards(s)' = Cards(s) + 1 /\ \A r : r # s => Cards(r)' = Cards(r)
    BY <1>1, UserSent
  <2> QED
    BY <1>1, <1>3, <2>1, CountType
<1>5. "created" \in Statuses /\ "processing" \in Statuses /\ Changes \subseteq Statuses
  BY TaskOf DEF Statuses
<1>6. \A r \in Statuses : count[r] <= 1 + f
  BY <1>1, <1>2, <1>4, CountMeans
<1>7. ASSUME NEW r \in Changes, task'[<<r, "user">>].state \in Open,
             \A w \in Workers : ~Delivered(w, r)'
      PROVE  count[r] <= f
  <2>1. r # s
    BY <1>7
  <2>2. Cards(r) <= faults
    BY <1>7, CountMeans
  <2> QED
    BY <1>1, <1>2, <1>4, <1>5, <2>1, <2>2
<1>8. \A r \in Changes \cap After(status') : count[r] = 0
  BY <1>4, <1>5, CountMeans
<1>9. \A h \in Handlers : handler'[h].at = "greeting" => h = Creator /\ count["created"] = 0
  BY <1>4, <1>5, CountMeans
<1>10. \A h \in Handlers : handler'[h].at = "handoff" =>
            /\ status' # "created"
            /\ "processing" \in Changes
            /\ task'[<<"processing", "user">>].state = "none"
            /\ count["processing"] = 0
  BY <1>4, <1>5, CountMeans
<1>11. \A g, h \in Handlers :
            handler'[g].at = "handoff" /\ handler'[h].at = "handoff" => g = h
  BY CountMeans
<1>12. \A r \in Statuses : Cards(r)' = count[r]
  BY <1>4
<1> QED
  BY <1>2, <1>6, <1>7, <1>8, <1>9, <1>10, <1>11, <1>12, CountNext

\* The status changes.
LEMMA CountChanged ==
  ASSUME Core, CountInv, NEW s \in Successors(status) \cap Changes,
         status' = s, task' = task \/ task' = Enqueued(s), UNCHANGED <<chat, worker, faults>>,
         \A h \in Handlers : handler'[h].at = "greeting" => handler[h].at = "greeting",
         \/ \A h \in Handlers : handler'[h].at = "handoff" => handler[h].at = "handoff"
         \/ /\ status = "created" /\ s = "processing" /\ task' = task
            /\ \E g \in Handlers : \A h \in Handlers :
                  handler'[h].at = "handoff" => h = g \/ handler[h].at = "handoff"
  PROVE  CountInv'
<1>1. TypeOK /\ faults \in Nat /\ status \in Statuses
  BY CardConstants DEF Core, Base, TypeOK
<1>2. PICK f \in Nat : f = faults' /\ f = faults
  BY <1>1
<1>3. PICK count : count = [r \in Statuses |-> Cards(r)]
  OBVIOUS
<1>4. \A r \in Statuses : count[r] = Cards(r) /\ Cards(r)' = count[r] /\ count[r] \in Nat
  BY <1>1, <1>3, UserKept, CountType
<1>5. "created" \in Statuses /\ "processing" \in Statuses /\ Changes \subseteq Statuses
  BY TaskOf DEF Statuses
<1>6. s \in After(status) /\ After(s) \subseteq After(status) /\ s # "created" /\ s # status
  BY <1>1, StatusOrder
<1>7. \A r \in Statuses : count[r] <= 1 + f
  BY <1>2, <1>4, CountMeans
<1>8. \A r \in Changes : \/ task'[<<r, "user">>] = task[<<r, "user">>]
                         \/ r = s /\ task' = Enqueued(s)
  <2> SUFFICES ASSUME NEW r \in Changes, r # s, task' = Enqueued(s)
               PROVE  task'[<<r, "user">>] = task[<<r, "user">>]
    OBVIOUS
  <2>1. <<r, "user">> \in Tasks /\ <<r, "user">>[1] = r
    BY TaskOf DEF Targets
  <2> QED
    BY <2>1 DEF Enqueued
<1>9. ASSUME NEW r \in Changes, task'[<<r, "user">>].state \in Open,
             \A w \in Workers : ~Delivered(w, r)'
      PROVE  count[r] <= f
  <2>1. CASE r = s
    BY <1>2, <1>4, <1>5, <1>6, <2>1, CountMeans
  <2>2. CASE r # s
    <3>1. \A w \in Workers : ~Delivered(w, r)
      BY <1>9 DEF Delivered
    <3> QED
      BY <1>2, <1>4, <1>5, <1>8, <1>9, <2>2, <3>1, CountMeans
  <2> QED
    BY <2>1, <2>2
<1>10. \A r \in Changes \cap After(status') : count[r] = 0
  BY <1>4, <1>5, <1>6, CountMeans
<1>11. \A h \in Handlers : handler'[h].at = "greeting" => h = Creator /\ count["created"] = 0
  BY <1>4, <1>5, CountMeans
<1>12. ASSUME NEW h \in Handlers, handler'[h].at = "handoff"
       PROVE  /\ status' # "created"
              /\ "processing" \in Changes
              /\ task'[<<"processing", "user">>].state = "none"
              /\ count["processing"] = 0
  <2>1. CASE handler[h].at = "handoff"
    <3>1. status # "created" /\ "processing" \in Changes
          /\ task[<<"processing", "user">>].state = "none" /\ Cards("processing") = 0
      BY <2>1, CountMeans
    <3>2. s # "processing"
      BY <1>1, <1>6, <3>1 DEF After
    <3> QED
      BY <1>4, <1>5, <1>6, <1>8, <3>1, <3>2
  <2>2. CASE handler[h].at # "handoff"
    <3>1. s = "processing" /\ task' = task
      BY <1>12, <2>2
    <3>2. task[<<"processing", "user">>].state = "none"
      BY <1>6, <3>1, NoTaskYet DEF Core, Targets
    <3> QED
      BY <1>4, <1>5, <1>6, <3>1, <3>2, CountMeans
  <2> QED
    BY <2>1, <2>2
<1>13. \A g, h \in Handlers :
            handler'[g].at = "handoff" /\ handler'[h].at = "handoff" => g = h
  <2>1. CASE \A h \in Handlers : handler'[h].at = "handoff" => handler[h].at = "handoff"
    BY <2>1, CountMeans
  <2>2. CASE /\ status = "created"
             /\ \E g \in Handlers : \A h \in Handlers :
                   handler'[h].at = "handoff" => h = g \/ handler[h].at = "handoff"
    BY <2>2, CountMeans
  <2> QED
    BY <2>1, <2>2
<1>14. \A r \in Statuses : Cards(r)' = count[r]
  BY <1>4
<1> QED
  BY <1>2, <1>7, <1>9, <1>10, <1>11, <1>12, <1>13, <1>14, CountNext

LEMMA CountWork ==
  ASSUME Core, CountInv, NEW w \in Workers, Work(w) \/ TimeOut(w) \/ Crash(w)
  PROVE  CountInv'
<1>0. Base /\ TypeOK /\ LocksInv /\ faults \in 0..MaxFaults /\ faults >= faults /\ task \in [Tasks -> TaskRow]
  BY RowTypes, CardConstants DEF Core, Base
<1>1. ASSUME NEW kind, Fault(kind) PROVE faults' \in 0..MaxFaults /\ faults' > faults
  BY <1>0, <1>1, FaultCounts
<1>2. ASSUME NEW k \in Tasks, Claim(w, k) PROVE CountInv'
  <2>1. PICK move : worker' = [worker EXCEPT ![w] = move]
    BY <1>2 DEF Claim
  <2>2. \A s : ~Delivered(w, s)
    BY <1>2 DEF Claim, Delivered
  <2>3. \A j \in Tasks : /\ task'[j].state \in Open => task[j].state \in Open
                         /\ task[j].state = "none" => task'[j].state = "none"
    <3>1. task[k].state \in Open /\ task[k].state # "none"
      BY <1>2 DEF Claim, Due, Open
    <3>2. \A j \in Tasks : j # k => task'[j] = task[j]
      BY <1>0, <1>2 DEF Claim
    <3> QED
      BY <3>1, <3>2
  <2> QED
    BY <1>0, <1>2, <2>1, <2>2, <2>3, WorkerCount DEF Claim
<1>3. CASE LockTask(w)
  <2>1. PICK move : worker' = [worker EXCEPT ![w] = move]
    BY <1>0, <1>3, Moved DEF LockTask, Stops
  <2>2. \A s : ~Delivered(w, s)
    BY <1>3 DEF LockTask, Delivered
  <2> QED
    BY <1>0, <1>3, <2>1, <2>2, WorkerCount DEF LockTask
<1>4. CASE LockOrder(w)
  <2>1. worker[w].at = "locked" /\ worker[w].task \in Tasks
        /\ task[worker[w].task].state = "processing"
    BY <1>0, <1>4 DEF LockOrder, LocksInv, HasTask
  <2>2. PICK move : worker' = [worker EXCEPT ![w] = move]
    <3>1. CASE Stops(w)
      BY <3>1 DEF Stops
    <3>2. CASE worker' = [worker EXCEPT ![w].at = "sent", ![w].result = "retry"]
      <4>1. worker' = [worker EXCEPT ![w] = [worker[w] EXCEPT !.at = "sent", !.result = "retry"]]
        BY <1>0, <3>2, RowTypes
      <4> QED
        BY <4>1
    <3>3. CASE Goes(w, "sending")
      BY <1>0, <3>3, Moved
    <3> QED
      BY <1>4, <3>1, <3>2, <3>3 DEF LockOrder
  <2>3. \A s : ~Delivered(w, s)
    BY <2>1 DEF Delivered
  <2>4. \A j \in Tasks : /\ task'[j].state \in Open => task[j].state \in Open
                         /\ task[j].state = "none" => task'[j].state = "none"
    <3>1. PICK k \in Tasks : k = worker[w].task
      BY <2>1
    <3>2. \A j \in Tasks : j # k => task'[j] = task[j]
      BY <1>0, <1>4, <3>1 DEF LockOrder
    <3> QED
      BY <2>1, <3>1, <3>2 DEF Open
  <2> QED
    BY <1>0, <1>4, <2>2, <2>3, <2>4, WorkerCount DEF LockOrder
<1>5. CASE SendUser(w)
  <2>1. /\ HasOrder(w) /\ worker[w].at = "sending" /\ worker[w].task = <<status, "user">>
        /\ UNCHANGED <<status, task, link, handler>> /\ status \in Statuses /\ status \in Changes
    BY <1>0, <1>5, UserDelivery, Holding DEF SendUser
  <2>2. PICK row \in WorkerRow :
               /\ worker' = [worker EXCEPT ![w] = row]
               /\ row.at = "sent" /\ row.task = worker[w].task
               /\ \/ CardReplaced(link["user"], status) /\ row.result = "delivered"
                  \/ chat' = chat /\ \E kind : Fault(kind)
    BY <1>0, <1>5, UserDelivery
  <2>3. CASE CardReplaced(link["user"], status) /\ row.result = "delivered"
    <3>1. PICK s \in Statuses : s = status
      BY <2>1
    <3>2. \A r : Delivered(w, r)' <=> r = s
      BY <1>0, <2>1, <2>2, <2>3, <3>1 DEF Delivered, TypeOK
    <3>3. \A v \in Workers : \A r : Delivered(v, r) => Delivered(v, r)'
      BY <1>0, <2>1, <2>2 DEF Delivered, TypeOK
    <3>4. \A v \in Workers : ~Delivered(v, s)
      <4>1. \A v \in Workers \ {w} : ~HasOrder(v)
        BY <1>0, <2>1, Holding
      <4> QED
        BY <2>1, <4>1 DEF Delivered, HasOrder
    <3>5. task[<<s, "user">>].state = "processing"
      BY <1>0, <2>1, <3>1, Holding
    <3>6. Cards(s) <= faults
      BY <2>1, <3>1, <3>4, <3>5, CountMeans DEF Open
    <3>7. \A h \in Handlers : handler[h].at = "handoff" => s # "processing"
      BY <3>5, CountMeans
    <3>8. s \notin After(status) /\ s # "created"
      BY <2>1, <3>1, TaskOf, StatusOrder
    <3>9. CardReplaced(link["user"], s)
      BY <2>3, <3>1
    <3>10. \A h \in Handlers :
            /\ handler'[h].at = "greeting" => handler[h].at = "greeting" /\ s # "created"
            /\ handler'[h].at = "handoff" => handler[h].at = "handoff" /\ s # "processing"
      BY <2>1, <3>7, <3>8
    <3>11. \E v \in Workers : Delivered(v, s)'
      BY <3>2
    <3>12. status' = status /\ task' = task
      BY <2>1
    <3> QED
      BY <3>3, <3>6, <3>8, <3>9, <3>10, <3>11, <3>12, CountSent
  <2>4. CASE chat' = chat /\ \E kind : Fault(kind)
    <3>1. \A s : ~Delivered(w, s)
      BY <2>1 DEF Delivered
    <3>2. faults' \in 0..MaxFaults /\ faults' >= faults
      BY <1>0, <2>4, FaultCounts
    <3> QED
      BY <2>1, <2>2, <2>4, <3>1, <3>2, WorkerCount
  <2> QED
    BY <2>2, <2>3, <2>4
<1>6. CASE EditManager(w)
  <2>1. UNCHANGED <<status, task, link, handler>> /\ status \in Statuses
        /\ worker[w].at = "sending" /\ CustomerNotified(status) \in BOOLEAN
    BY <1>0, <1>6, ManagerDelivery DEF TypeOK, EditManager
  <2>2. PICK b \in BOOLEAN : b = CustomerNotified(status)
    BY <2>1
  <2>3. PICK row \in WorkerRow :
           /\ worker' = [worker EXCEPT ![w] = row]
           /\ \/ link["manager"] \in DOMAIN chat["manager"] /\ CardEdited(link["manager"], status, b)
              \/ CardSent(status, b)
              \/ chat' = chat /\ (UNCHANGED faults \/ \E kind : Fault(kind))
    BY <1>0, <1>6, <2>2, ManagerDelivery
  <2>4. chat'["user"] = chat["user"] /\ faults' \in 0..MaxFaults /\ faults' >= faults
    <3>1. CASE link["manager"] \in DOMAIN chat["manager"] /\ CardEdited(link["manager"], status, b)
      BY <1>0, <2>1, <3>1, ManagerEdited
    <3>2. CASE CardSent(status, b)
      BY <1>0, <2>1, <3>2, ManagerSent
    <3>3. CASE chat' = chat /\ (UNCHANGED faults \/ \E kind : Fault(kind))
      BY <1>0, <3>3, FaultCounts
    <3> QED
      BY <2>3, <3>1, <3>2, <3>3
  <2>5. \A s : ~Delivered(w, s)
    BY <2>1 DEF Delivered
  <2> QED
    BY <2>1, <2>3, <2>4, <2>5, WorkerCount
<1>7. CASE Record(w)
  <2>1. HasOrder(w) /\ UNCHANGED <<status, chat, handler, faults>>
    BY <1>7 DEF Record, HasOrder
  <2>2. PICK k \in Tasks : /\ k = worker[w].task /\ task[k].state = "processing"
                           /\ task[k].attempts < MaxAttempts
    BY <1>0, <2>1, Holding
  <2>3. worker[w].result \in {"delivered", "retry", "failed"}
    BY <1>0, <1>7, RowTypes DEF LocksInv, WorkerRow, Record
  <2>4. task' = [task EXCEPT ![k] = Attempted(k, worker[w].result)]
    BY <1>7, <2>2 DEF Record
  <2>5. /\ task'[k] = Attempted(k, worker[w].result)
        /\ \A j \in Tasks : j # k => task'[j] = task[j]
    BY <1>0, <2>4
  <2>6. \A s \in Changes : Delivered(w, s) => task'[<<s, "user">>].state \notin Open
    <3> SUFFICES ASSUME NEW s \in Changes, Delivered(w, s)
                 PROVE  task'[<<s, "user">>].state \notin Open
      OBVIOUS
    <3>1. k = <<s, "user">> /\ worker[w].result = "delivered"
      BY <2>2 DEF Delivered
    <3>2. Attempted(k, "delivered").state = "delivered"
      BY <1>0, <2>2, TaskEnds
    <3> QED
      BY <2>5, <3>1, <3>2 DEF Open
  <2>7. \A j \in Tasks : /\ task'[j].state \in Open => task[j].state \in Open
                         /\ task[j].state = "none" => task'[j].state = "none"
    BY <2>2, <2>5 DEF Open
  <2>8. worker' = [worker EXCEPT ![w] = Idle]
    BY <1>7 DEF Record, Stops
  <2> QED
    BY <1>0, <2>1, <2>6, <2>7, <2>8, WorkerCount
<1>8. CASE CountAttempt(w)
  <2>1. /\ UNCHANGED <<status, chat, handler, faults>> /\ worker' = [worker EXCEPT ![w] = Idle]
        /\ worker[w].at = "interrupted"
    BY <1>8 DEF CountAttempt, Stops
  <2>2. \A s : ~Delivered(w, s)
    BY <2>1 DEF Delivered
  <2>3. \A j \in Tasks : /\ task'[j].state \in Open => task[j].state \in Open
                         /\ task[j].state = "none" => task'[j].state = "none"
    <3>1. CASE task' = task
      BY <3>1
    <3>2. CASE Owns(w) /\ task' # task
      <4>1. PICK k \in Tasks : k = worker[w].task
        BY <1>0, <2>1 DEF LocksInv
      <4>2. task[k].state = "processing" /\ task' = [task EXCEPT ![k] = Attempted(k, "retry")]
        BY <1>8, <3>2, <4>1 DEF CountAttempt, Owns
      <4>3. \A j \in Tasks : j # k => task'[j] = task[j]
        BY <1>0, <4>2
      <4> QED
        BY <4>2, <4>3 DEF Open
    <3> QED
      BY <1>8, <3>1, <3>2 DEF CountAttempt
  <2> QED
    BY <1>0, <2>1, <2>2, <2>3, WorkerCount
<1>9. CASE TimeOut(w)
  <2>1. /\ UNCHANGED <<status, chat, task, handler>> /\ Goes(w, "interrupted")
        /\ faults' \in 0..MaxFaults /\ faults' > faults /\ faults' >= faults
    BY <1>1, <1>9, <1>0 DEF TimeOut
  <2>2. PICK move : worker' = [worker EXCEPT ![w] = move]
    BY <1>0, <2>1, Moved
  <2> QED
    BY <2>1, <2>2, WorkerCount
<1>10. CASE Crash(w)
  <2>1. /\ UNCHANGED <<status, chat, task, handler>> /\ worker' = [worker EXCEPT ![w] = Idle]
        /\ faults' \in 0..MaxFaults /\ faults' > faults /\ faults' >= faults
    BY <1>1, <1>10, <1>0 DEF Crash, Stops
  <2> QED
    BY <2>1, WorkerCount
<1> QED
  BY <1>2, <1>3, <1>4, <1>5, <1>6, <1>7, <1>8, <1>9, <1>10 DEF Work

\* A handler moves without sending the customer anything.
LEMMA HandlerCount ==
  ASSUME Core, CountInv, NEW h \in Handlers, NEW row,
         handler' = [handler EXCEPT ![h] = row],
         row.at = "greeting" => handler[h].at = "greeting",
         row.at = "handoff" => handler[h].at = "handoff",
         chat'["user"] = chat["user"], UNCHANGED <<status, task, worker>>,
         faults' \in 0..MaxFaults, faults' >= faults
  PROVE  CountInv'
<1>1. \A g \in Handlers :
            /\ handler'[g].at = "greeting" => handler[g].at = "greeting"
            /\ handler'[g].at = "handoff" => handler[g].at = "handoff"
  BY DEF Core, Base, TypeOK
<1>2. \A v \in Workers : \A s : Delivered(v, s) => Delivered(v, s)'
  BY DEF Delivered
<1>3. status' = status /\ task' = task
  OBVIOUS
<1> QED
  BY <1>1, <1>2, <1>3, CountQuiet

LEMMA CountHandlers ==
  ASSUME Core, CountInv, NEW h \in Handlers, Handle(h) \/ LoseLinks(h) \/ Press(h)
  PROVE  CountInv'
<1>0. /\ Base /\ TypeOK /\ HandlersInv /\ faults \in 0..MaxFaults /\ faults >= faults
      /\ status \in Statuses /\ chat \in [Targets -> Seq(MessageRow)]
      /\ handler \in [Handlers -> HandlerRow] /\ faults \in Nat
  BY RowTypes, CardConstants DEF Core, Base
<1>1. ASSUME chat' = chat, UNCHANGED faults \/ \E kind : Fault(kind)
      PROVE  chat'["user"] = chat["user"] /\ faults' \in 0..MaxFaults /\ faults' >= faults
  BY <1>0, <1>1, FaultCounts
<1>2. \A v \in Workers : \A s : worker' = worker => (Delivered(v, s) => Delivered(v, s)')
  BY DEF Delivered
<1>3. CASE Greet(h)
  <2>1. /\ handler[h].at = "greeting" /\ UNCHANGED <<status, task, worker>>
        /\ \/ \E previous : CardReplaced(previous, "created")
           \/ chat' = chat /\ \E kind : Fault(kind)
    BY <1>0, <1>3, GreetEffect
  <2>2. PICK row \in HandlerRow :
          handler' = [handler EXCEPT ![h] = row] /\ row.at = "greeted"
    BY <1>0, <1>3, GreetEffect DEF GoesOn
  <2>3. CASE chat' = chat /\ \E kind : Fault(kind)
    BY <1>1, <2>1, <2>2, <2>3, HandlerCount
  <2>4. ASSUME NEW previous, CardReplaced(previous, "created") PROVE CountInv'
    <3>1. h = Creator /\ Cards("created") <= faults
      BY <1>0, <2>1, CountMeans
    <3>2. \A g \in Handlers :
            /\ handler'[g].at # "greeting"
            /\ handler'[g].at = "handoff" => handler[g].at = "handoff"
      BY <1>0, <2>2, <3>1, CountMeans
    <3>3. "created" \in Statuses /\ "created" \notin Changes /\ "created" \notin After(status)
      BY <1>0, TaskOf, StatusOrder DEF Statuses
    <3>4. status' = status /\ task' = task /\ worker' = worker
      BY <2>1
    <3>5. "created" # "processing"
      OBVIOUS
    <3> QED
      BY <1>2, <2>4, <3>1, <3>2, <3>3, <3>4, <3>5, CountSent
  <2> QED
    BY <2>1, <2>3, <2>4
<1>4. CASE StoreGreeting(h)
  <2>1. PICK row \in HandlerRow :
          handler' = [handler EXCEPT ![h] = row] /\ row.at = "greeted"
    BY <1>0, <1>4, StoreGreetingEffect DEF GoesOn
  <2> QED
    BY <1>0, <1>1, <1>4, <2>1, StoreGreetingEffect, HandlerCount
<1>5. CASE Introduce(h)
  <2>1. PICK row \in HandlerRow :
          handler' = [handler EXCEPT ![h] = row] /\ row.at = "storing"
    BY <1>0, <1>5, IntroduceEffect DEF GoesOn
  <2>2. chat'["user"] = chat["user"] /\ faults' \in 0..MaxFaults /\ faults' >= faults
    <3>1. CASE CardSent("created", FALSE)
      BY <1>0, <3>1, ManagerSent DEF Statuses
    <3>2. CASE chat' = chat /\ \E kind : Fault(kind)
      BY <1>1, <3>2
    <3> QED
      BY <1>0, <1>5, <3>1, <3>2, IntroduceEffect
  <2> QED
    BY <1>0, <1>5, <2>1, <2>2, IntroduceEffect, HandlerCount
<1>6. CASE StoreLinks(h) \/ LoseLinks(h)
  <2>1. /\ handler[h].at = "storing" /\ UNCHANGED <<status, chat, task, worker>>
        /\ IF handler[h].card = 0 THEN Ends(h)
           ELSE handler' = [handler EXCEPT ![h].at = "editing"]
        /\ UNCHANGED faults \/ \E kind : Fault(kind)
    BY <1>6 DEF StoreLinks, LoseLinks
  <2>2. PICK row \in HandlerRow :
          handler' = [handler EXCEPT ![h] = row] /\ row.at \in {"idle", "editing"}
    BY <1>0, <2>1, StoredEffect, DoneType DEF GoesOn
  <2> QED
    BY <1>1, <2>1, <2>2, HandlerCount
<1>7. CASE Handoff(h)
  <2>1. handler[h].at = "handoff" /\ UNCHANGED <<status, task, worker>>
    BY <1>0, <1>7, HandoffEffect
  <2>2. PICK row \in HandlerRow :
          /\ \/ \E previous : CardReplaced(previous, "processing")
             \/ chat' = chat /\ \E kind : Fault(kind)
          /\ handler' = [handler EXCEPT ![h] = row] /\ row.at \in {"storing", "editing"}
    BY <1>0, <1>7, HandoffEffect DEF GoesOn
  <2>3. CASE chat' = chat /\ \E kind : Fault(kind)
    BY <1>1, <2>1, <2>2, <2>3, HandlerCount
  <2>4. ASSUME NEW previous, CardReplaced(previous, "processing") PROVE CountInv'
    <3>1. /\ status # "created" /\ task[<<"processing", "user">>].state = "none"
          /\ Cards("processing") = 0
      BY <2>1, CountMeans
    <3>2. \A g \in Handlers :
            /\ handler'[g].at = "greeting" => handler[g].at = "greeting"
            /\ handler'[g].at # "handoff"
      BY <1>0, <2>1, <2>2, CountMeans
    <3>3. "processing" \in Statuses /\ "processing" \notin After(status)
      BY <1>0, <3>1 DEF Statuses, After
    <3>4. status' = status /\ task' = task /\ worker' = worker
      BY <2>1
    <3>5. "created" # "processing" /\ "none" \notin Open
      BY DEF Open
    <3>6. Cards("processing") <= faults
      BY <1>0, <3>1
    <3> QED
      BY <1>2, <2>4, <3>1, <3>2, <3>3, <3>4, <3>5, <3>6, CountSent
  <2> QED
    BY <2>2, <2>3, <2>4
<1>8. CASE EditCard(h)
  <2>1. /\ UNCHANGED <<status, task, worker>> /\ handler' = [handler EXCEPT ![h] = Done]
        /\ Done.at = "idle"
    BY <1>0, <1>8, EditCardEffect, DoneType
  <2>2. chat'["user"] = chat["user"] /\ faults' \in 0..MaxFaults /\ faults' >= faults
    <3>1. CASE /\ handler[h].card \in DOMAIN chat["manager"]
               /\ CardEdited(handler[h].card, handler[h].shows, handler[h].notified)
      BY <1>0, <1>8, <3>1, EditCardEffect, ManagerEdited
    <3>2. CASE chat' = chat /\ (UNCHANGED faults \/ \E kind : Fault(kind))
      BY <1>1, <3>2
    <3> QED
      BY <1>0, <1>8, <3>1, <3>2, EditCardEffect
  <2> QED
    BY <2>1, <2>2, HandlerCount
<1>9. ASSUME NEW card \in DOMAIN chat["manager"], Take(h, card) PROVE CountInv'
  <2>1. /\ UNCHANGED <<chat, task, worker, faults>> /\ status = "created"
        /\ status' = "processing" /\ "processing" \in Changes
    BY <1>0, <1>9, TakeEffect
  <2>2. PICK row \in HandlerRow :
          handler' = [handler EXCEPT ![h] = row] /\ row.at = "handoff"
    BY <1>0, <1>9, TakeEffect
  <2>3. \A g \in Handlers :
          /\ handler'[g].at = "greeting" => handler[g].at = "greeting"
          /\ handler'[g].at = "handoff" => g = h \/ handler[g].at = "handoff"
    BY <1>0, <2>2
  <2>4. "processing" \in Successors(status) \cap Changes
    BY <2>1 DEF Successors
  <2> QED
    BY <2>1, <2>3, <2>4, CountChanged
<1>10. ASSUME NEW card \in DOMAIN chat["manager"], TakeAgain(h, card) PROVE CountInv'
  <2>1. PICK row \in HandlerRow :
          handler' = [handler EXCEPT ![h] = row] /\ row.at = "editing"
    BY <1>0, <1>10, TakeAgainEffect
  <2> QED
    BY <1>0, <1>1, <1>10, <2>1, TakeAgainEffect, HandlerCount
<1>11. ASSUME NEW card \in DOMAIN chat["manager"], NEW s \in Statuses, Close(h, s, card)
       PROVE  CountInv'
  <2>1. /\ UNCHANGED <<chat, worker, faults>> /\ s \in Successors(status) \cap Changes
        /\ status' = s /\ task' = Enqueued(s)
    BY <1>0, <1>11, CloseEffect
  <2>2. PICK row \in HandlerRow :
          handler' = [handler EXCEPT ![h] = row] /\ row.at = "editing"
    BY <1>0, <1>11, CloseEffect
  <2>3. \A g \in Handlers :
          /\ handler'[g].at = "greeting" => handler[g].at = "greeting"
          /\ handler'[g].at = "handoff" => handler[g].at = "handoff"
    BY <1>0, <2>2
  <2> QED
    BY <2>1, <2>3, CountChanged
<1> QED
  BY <1>3, <1>4, <1>5, <1>6, <1>7, <1>8, <1>9, <1>10, <1>11 DEF Handle, Press

LEMMA CountStep ==
  ASSUME Core, CountInv, [Next]_vars
  PROVE  CountInv'
<1>0. /\ Base /\ TypeOK /\ task \in [Tasks -> TaskRow] /\ faults \in 0..MaxFaults
      /\ faults >= faults /\ \A s \in Changes : <<s, "user">> \in Tasks
  <2>1. Base /\ TypeOK
    BY DEF Core, Base
  <2>2. task \in [Tasks -> TaskRow] /\ faults \in 0..MaxFaults
    BY <2>1, RowTypes
  <2>3. faults >= faults
    BY <2>2, CardConstants
  <2>4. \A s \in Changes : <<s, "user">> \in Tasks
    BY TaskOf DEF Targets
  <2> QED
    BY <2>1, <2>2, <2>3, <2>4
<1>1. ASSUME NEW k \in Tasks, LeaseEnds(k) PROVE CountInv'
  <2>1. \A j \in Tasks : task'[j].state = task[j].state
    <3>1. task' = [task EXCEPT ![k].leased = FALSE]
      BY <1>1 DEF LeaseEnds
    <3> QED
      BY <1>0, <3>1 DEF TaskRow
  <2>2. UNCHANGED <<status, chat, worker, handler, faults>>
    BY <1>1 DEF LeaseEnds
  <2>3. \A s \in Changes : \A w \in Workers : Delivered(w, s) => Delivered(w, s)'
    BY <2>2 DEF Delivered
  <2> QED
    BY <1>0, <2>1, <2>2, <2>3, CountQuiet
<1>2. ASSUME NEW s \in Statuses, ChangeByWeb(s) PROVE CountInv'
  <2>1. /\ s \in Successors(status) \cap Changes /\ status' = s /\ task' = Enqueued(s)
        /\ UNCHANGED <<chat, worker, faults>> /\ handler' = handler
    BY <1>2 DEF ChangeByWeb, Changed
  <2> QED
    BY <2>1, CountChanged
<1>3. ASSUME NEW id, DeleteCard(id) PROVE CountInv'
  <2>1. /\ UNCHANGED <<status, task, worker, handler>> /\ chat'["user"] = chat["user"]
        /\ faults' \in 0..MaxFaults /\ faults' >= faults
    BY <1>0, <1>3, ManagerRemoved, FaultCounts DEF DeleteCard
  <2>2. \A s \in Changes : \A w \in Workers : Delivered(w, s) => Delivered(w, s)'
    BY <2>1 DEF Delivered
  <2> QED
    BY <2>1, <2>2, CountQuiet
<1>4. CASE UNCHANGED vars
  <2>1. UNCHANGED <<status, task, worker, handler, chat, faults>>
    BY <1>4 DEF vars
  <2>2. \A s \in Changes : \A w \in Workers : Delivered(w, s) => Delivered(w, s)'
    BY <2>1 DEF Delivered
  <2> QED
    BY <1>0, <2>1, <2>2, CountQuiet
<1> QED
  BY <1>1, <1>2, <1>3, <1>4, CountWork, CountHandlers DEF Next

----------------------------------------------------------------------------
(* What the manager reads of the customer. *)

\* A manager's card that says the customer knows of the order being in work.
Claims(i) ==
    i \in CardsShowing("manager", "processing") /\ chat["manager"][i].notified

LEMMA HonestMeans ==
  HonestInv <=>
    /\ "skipped" \notin races => \A i : Claims(i) => Told
    /\ status = "processing" /\ "processing" \in Changes
          /\ task[<<"processing", "user">>].state = "delivered" => Told
    /\ \A w \in Workers : Delivered(w, "processing") => Told
    /\ "skipped" \notin races =>
          \A h \in Handlers : handler[h].shows = "processing" /\ handler[h].notified => Told
BY DEF HonestInv, CardIsHonest, Claims, Told

\* A step that makes no new claim, or makes one of a customer who is told.
LEMMA HonestNext ==
  ASSUME HonestInv, Told => Told', races \subseteq races',
         \A i : Claims(i)' => Claims(i) \/ Told' \/ "skipped" \in races',
         \/ status' # "processing"
         \/ task'[<<"processing", "user">>].state # "delivered"
         \/ status' = status
            /\ task'[<<"processing", "user">>].state = task[<<"processing", "user">>].state
         \/ Told' \/ "processing" \notin Changes,
         \A w \in Workers : Delivered(w, "processing")' => Delivered(w, "processing") \/ Told',
         \A h \in Handlers : handler'[h].shows = "processing" /\ handler'[h].notified =>
            \/ handler[h].shows = "processing" /\ handler[h].notified
            \/ Told' \/ "skipped" \in races'
  PROVE  HonestInv'
<1>1. "skipped" \notin races' => \A i : Claims(i)' => Told'
  BY HonestMeans
<1>2. status' = "processing" /\ "processing" \in Changes
          /\ task'[<<"processing", "user">>].state = "delivered" => Told'
  BY HonestMeans
<1>3. \A w \in Workers : Delivered(w, "processing")' => Told'
  BY HonestMeans
<1>4. "skipped" \notin races' =>
          \A h \in Handlers : handler'[h].shows = "processing" /\ handler'[h].notified => Told'
  BY HonestMeans
<1> QED
  BY <1>1, <1>2, <1>3, <1>4 DEF HonestInv, CardIsHonest, Claims, Told

LEMMA UserToldKept ==
  ASSUME TypeOK,
         \/ chat'["user"] = chat["user"]
         \/ \E previous : \E s \in Statuses : CardReplaced(previous, s)
  PROVE  Told => Told'
<1>1. CASE chat'["user"] = chat["user"]
  BY <1>1, UserKept DEF Told
<1>2. ASSUME NEW previous, NEW s \in Statuses, CardReplaced(previous, s) PROVE Told => Told'
  BY <1>2, UserSent DEF Told
<1> QED
  BY <1>1, <1>2

LEMMA UserToldNow ==
  ASSUME TypeOK, NEW previous, CardReplaced(previous, "processing")
  PROVE  Told'
BY UserSent DEF Told, Statuses

LEMMA NoNewClaim ==
  ASSUME chat'["manager"] = chat["manager"]
  PROVE  \A i : Claims(i)' => Claims(i)
BY DEF Claims, CardsShowing

LEMMA UserCardsOnly ==
  ASSUME TypeOK, \E previous : \E s \in Statuses : CardReplaced(previous, s)
  PROVE  chat'["manager"] = chat["manager"]
BY UserSent

\* A manager's card is sent or edited.
LEMMA CardClaims ==
  ASSUME TypeOK, NEW s \in Statuses, NEW b \in BOOLEAN,
         CardSent(s, b) \/ \E id \in DOMAIN chat["manager"] : CardEdited(id, s, b)
  PROVE  /\ chat'["user"] = chat["user"]
         /\ \A i : Claims(i)' => Claims(i) \/ (s = "processing" /\ b)
<1>0. Message(s, b).shows = s /\ Message(s, b).notified = b
  BY DEF Message
<1>1. CASE CardSent(s, b)
  <2>1. /\ chat'["user"] = chat["user"]
        /\ DOMAIN chat'["manager"] = 1..NextId("manager")
        /\ DOMAIN chat["manager"] = 1..(NextId("manager") - 1)
        /\ NextId("manager") \in Nat
        /\ \A i \in DOMAIN chat["manager"] : chat'["manager"][i] = chat["manager"][i]
        /\ chat'["manager"][NextId("manager")] = Message(s, b)
    BY <1>1, ManagerSent
  <2>2. ASSUME NEW i, Claims(i)' PROVE Claims(i) \/ (s = "processing" /\ b)
    <3>1. i \in DOMAIN chat'["manager"] /\ chat'["manager"][i].shows = "processing"
          /\ chat'["manager"][i].notified
      BY <2>2 DEF Claims, CardsShowing
    <3>2. i \in DOMAIN chat["manager"] \/ i = NextId("manager")
      BY <2>1, <3>1
    <3>3. CASE i \in DOMAIN chat["manager"]
      BY <2>1, <3>1, <3>3 DEF Claims, CardsShowing
    <3>4. CASE i = NextId("manager")
      BY <1>0, <2>1, <3>1, <3>4
    <3> QED
      BY <3>2, <3>3, <3>4
  <2> QED
    BY <2>1, <2>2
<1>2. ASSUME NEW id \in DOMAIN chat["manager"], CardEdited(id, s, b)
      PROVE  /\ chat'["user"] = chat["user"]
             /\ \A i : Claims(i)' => Claims(i) \/ (s = "processing" /\ b)
  <2>1. /\ chat'["user"] = chat["user"]
        /\ DOMAIN chat'["manager"] = DOMAIN chat["manager"]
        /\ \A i \in DOMAIN chat["manager"] :
               chat'["manager"][i] = IF i = id THEN Message(s, b) ELSE chat["manager"][i]
    BY <1>2, ManagerEdited
  <2>2. ASSUME NEW i, Claims(i)' PROVE Claims(i) \/ (s = "processing" /\ b)
    <3>1. i \in DOMAIN chat["manager"] /\ chat'["manager"][i].shows = "processing"
          /\ chat'["manager"][i].notified
      BY <2>1, <2>2 DEF Claims, CardsShowing
    <3>3. CASE i # id
      BY <2>1, <3>1, <3>3 DEF Claims, CardsShowing
    <3>4. CASE i = id
      BY <1>0, <2>1, <3>1, <3>4
    <3> QED
      BY <3>3, <3>4
  <2> QED
    BY <2>1, <2>2
<1> QED
  BY <1>1, <1>2

----------------------------------------------------------------------------
(* What a worker does besides talking to Telegram. *)

Silent(w) ==
    \/ \E k \in Tasks : Claim(w, k)
    \/ LockTask(w) \/ LockOrder(w) \/ Record(w) \/ CountAttempt(w) \/ TimeOut(w) \/ Crash(w)

\* A task of the order's status is delivered only when its worker was told so,
\* and tasks neither appear nor vanish.
TasksGoOn(w) ==
    \A k \in Tasks :
       /\ task'[k].state = "delivered" =>
             \/ task[k].state = "delivered"
             \/ k[1] # status
             \/ /\ Record(w) /\ worker[w].task = k
                /\ worker[w].at = "sent" /\ worker[w].result = "delivered"
       /\ task'[k].state = "none" <=> task[k].state = "none"

LEMMA OneTask ==
  ASSUME Base, NEW w \in Workers, NEW k \in Tasks, NEW row \in TaskRow,
         task' = [task EXCEPT ![k] = row],
         task[k].state # "none", row.state # "none",
         row.state = "delivered" =>
            \/ k[1] # status
            \/ /\ Record(w) /\ worker[w].task = k
               /\ worker[w].at = "sent" /\ worker[w].result = "delivered"
  PROVE  TasksGoOn(w)
<1>1. /\ task'[k] = row
      /\ \A j \in Tasks : j # k => task'[j] = task[j]
  BY RowTypes DEF Base
<1> QED
  BY <1>1 DEF TasksGoOn

LEMMA RecordEffect ==
  ASSUME Base, NEW w \in Workers, Record(w)
  PROVE  TasksGoOn(w) /\ HasOrder(w) /\ worker[w].result # "none"
<1>0. Base /\ TypeOK /\ LocksInv
  BY DEF Base
<1>1. HasOrder(w) /\ worker[w].at = "sent"
  BY DEF Record, HasOrder
<1>2. PICK k \in Tasks : /\ k = worker[w].task /\ task[k].state = "processing"
                         /\ task[k].attempts < MaxAttempts
  BY <1>0, <1>1, Holding
<1>3. PICK result \in {"delivered", "retry", "failed"} : result = worker[w].result
  BY <1>0, <1>1, RowTypes DEF LocksInv, WorkerRow
<1>4. /\ Attempted(k, result) \in TaskRow
      /\ Attempted(k, result).state # "none"
      /\ Attempted(k, result).state = "delivered" <=> result = "delivered"
  BY <1>0, <1>2, TaskEnds
<1>5. task' = [task EXCEPT ![k] = Attempted(k, result)]
  BY <1>2, <1>3 DEF Record
<1>6. task[k].state # "none"
  BY <1>2
<1>7. Attempted(k, result).state = "delivered" =>
         worker[w].at = "sent" /\ worker[w].result = "delivered" /\ worker[w].task = k
  BY <1>1, <1>2, <1>3, <1>4
<1> QED
  BY <1>0, <1>1, <1>3, <1>4, <1>5, <1>6, <1>7, OneTask

LEMMA SilentEffect ==
  ASSUME Base, NEW w \in Workers, Silent(w)
  PROVE  /\ UNCHANGED <<status, chat, handler>> /\ races' = races
         /\ TasksGoOn(w)
         /\ \E row : worker' = [worker EXCEPT ![w] = row]
                     /\ ~(row.at = "sent" /\ row.result = "delivered")
         /\ Record(w) \/ link' = link
<1>0. Base /\ TypeOK /\ LocksInv /\ TasksInv
  BY DEF Base
<1>1. ASSUME task' = task PROVE TasksGoOn(w)
  BY <1>1 DEF TasksGoOn
<1>2. ASSUME NEW k \in Tasks, Claim(w, k)
      PROVE  /\ UNCHANGED <<status, chat, handler>> /\ races' = races
             /\ TasksGoOn(w)
             /\ \E row : worker' = [worker EXCEPT ![w] = row]
                         /\ ~(row.at = "sent" /\ row.result = "delivered")
             /\ link' = link
  <2>1. task[k].state # "none"
    BY <1>2 DEF Claim, Due
  <2>2. PICK row \in TaskRow : task' = [task EXCEPT ![k] = row] /\ row.state = "processing"
    <3> DEFINE row == [task[k] EXCEPT !.state = "processing", !.holder = w, !.leased = TRUE]
    <3>1. task' = [task EXCEPT ![k] = row]
      BY <1>0, <1>2, RowTypes DEF Claim
    <3>2. row \in TaskRow /\ row.state = "processing"
      BY <1>0, RowTypes DEF TaskRow, Open
    <3> HIDE DEF row
    <3> QED
      BY <3>1, <3>2
  <2>3. TasksGoOn(w)
    BY <1>0, <2>1, <2>2, OneTask
  <2>4. [Idle EXCEPT !.at = "claimed", !.task = k].at # "sent"
    BY DEF Idle
  <2> QED
    BY <1>2, <2>3, <2>4 DEF Claim
<1>3. CASE LockTask(w)
  <2>1. /\ UNCHANGED <<status, chat, task, handler, link>> /\ races' = races
        /\ Goes(w, "locked") \/ Stops(w)
    BY <1>3 DEF LockTask
  <2>2. \E row : worker' = [worker EXCEPT ![w] = row] /\ row.at # "sent"
    BY <1>0, <2>1, Moved, Stopped
  <2> QED
    BY <1>1, <2>1, <2>2
<1>4. CASE LockOrder(w)
  <2>1. /\ worker[w].at = "locked" /\ UNCHANGED <<status, chat, handler, link>> /\ races' = races
    BY <1>4 DEF LockOrder
  <2>2. PICK k \in Tasks : k = worker[w].task /\ task[k].state = "processing"
    BY <1>0, <2>1 DEF LocksInv, HasTask
  <2>3. CASE status # k[1]
    <3>1. task' = [task EXCEPT ![k] = ClosedAs("delivered", k)] /\ Stops(w)
      BY <1>4, <2>2, <2>3 DEF LockOrder
    <3>2. ClosedAs("delivered", k) \in TaskRow /\ ClosedAs("delivered", k).state = "delivered"
      BY <1>0, TaskEnds
    <3>3. task[k].state # "none" /\ ClosedAs("delivered", k).state # "none"
      BY <2>2, <3>2
    <3>4. TasksGoOn(w)
      BY <1>0, <2>3, <3>1, <3>2, <3>3, OneTask
    <3>5. \E row : worker' = [worker EXCEPT ![w] = row] /\ row.at # "sent"
      BY <1>0, <3>1, Stopped
    <3> QED
      BY <2>1, <3>4, <3>5
  <2>4. CASE status = k[1]
    <3>1. task' = task
      BY <1>4, <2>2, <2>4 DEF LockOrder
    <3>2. CASE worker' = [worker EXCEPT ![w].at = "sent", ![w].result = "retry"]
      <4> DEFINE row == [worker[w] EXCEPT !.at = "sent", !.result = "retry"]
      <4>1. row.result = "retry" /\ worker' = [worker EXCEPT ![w] = row]
        BY <1>0, <3>2, RowTypes DEF WorkerRow
      <4> HIDE DEF row
      <4>2. \E new : worker' = [worker EXCEPT ![w] = new]
                     /\ ~(new.at = "sent" /\ new.result = "delivered")
        BY <4>1
      <4> QED
        BY <1>1, <2>1, <3>1, <4>2
    <3>3. CASE Goes(w, "sending")
      <4>1. \E row : worker' = [worker EXCEPT ![w] = row] /\ row.at # "sent"
        BY <1>0, <3>3, Moved
      <4> QED
        BY <1>1, <2>1, <3>1, <4>1
    <3> QED
      BY <1>4, <2>2, <2>4, <3>2, <3>3 DEF LockOrder
  <2> QED
    BY <2>3, <2>4
<1>5. CASE Record(w)
  <2>1. UNCHANGED <<status, chat, handler>> /\ races' = races
    BY <1>5 DEF Record
  <2>2. \E row : worker' = [worker EXCEPT ![w] = row] /\ row.at # "sent"
    BY <1>0, <1>5, Stopped DEF Record
  <2> QED
    BY <1>0, <1>5, <2>1, <2>2, RecordEffect
<1>6. CASE CountAttempt(w)
  <2>1. /\ UNCHANGED <<status, chat, handler, link>> /\ races' = races
        /\ worker[w].at = "interrupted"
    BY <1>6 DEF CountAttempt
  <2>2. \E row : worker' = [worker EXCEPT ![w] = row] /\ row.at # "sent"
    BY <1>0, <1>6, Stopped DEF CountAttempt
  <2>3. CASE task' = task
    BY <1>1, <2>1, <2>2, <2>3
  <2>4. CASE Owns(w) /\ task' = [task EXCEPT ![worker[w].task] = Attempted(worker[w].task, "retry")]
    <3>1. PICK k \in Tasks : k = worker[w].task
      BY <1>0, <2>1 DEF LocksInv
    <3>2. task[k].state = "processing" /\ task[k].attempts < MaxAttempts
      BY <1>0, <2>4, <3>1 DEF Owns, TasksInv, Open
    <3>3. /\ Attempted(k, "retry") \in TaskRow
          /\ Attempted(k, "retry").state \in {"retry", "failed"}
      BY <1>0, <3>2, TaskEnds
    <3>4. task' = [task EXCEPT ![k] = Attempted(k, "retry")]
      BY <2>4, <3>1
    <3>5. /\ task[k].state # "none" /\ Attempted(k, "retry").state # "none"
          /\ Attempted(k, "retry").state # "delivered"
      BY <3>2, <3>3
    <3>6. TasksGoOn(w)
      BY <1>0, <3>3, <3>4, <3>5, OneTask
    <3> QED
      BY <2>1, <2>2, <3>6
  <2> QED
    BY <1>6, <2>3, <2>4 DEF CountAttempt
<1>7. CASE TimeOut(w)
  <2>1. /\ UNCHANGED <<status, chat, task, handler, link>> /\ races' = races
        /\ Goes(w, "interrupted")
    BY <1>7 DEF TimeOut
  <2>2. \E row : worker' = [worker EXCEPT ![w] = row] /\ row.at # "sent"
    BY <1>0, <2>1, Moved
  <2> QED
    BY <1>1, <2>1, <2>2
<1>8. CASE Crash(w)
  <2>1. UNCHANGED <<status, chat, task, handler, link>> /\ races' = races
    BY <1>8 DEF Crash
  <2>2. \E row : worker' = [worker EXCEPT ![w] = row] /\ row.at # "sent"
    BY <1>0, <1>8, Stopped DEF Crash
  <2> QED
    BY <1>1, <2>1, <2>2
<1> QED
  BY <1>2, <1>3, <1>4, <1>5, <1>6, <1>7, <1>8 DEF Silent

----------------------------------------------------------------------------
(* HonestInv is inductive. *)

LEMMA HonestWork ==
  ASSUME Core, HonestInv, NEW w \in Workers, Work(w) \/ TimeOut(w) \/ Crash(w)
  PROVE  HonestInv'
<1>0. Base /\ TypeOK /\ TasksInv /\ <<"processing", "user">>[1] = "processing"
  BY DEF Core, Base
<1>1. ASSUME NEW row, worker' = [worker EXCEPT ![w] = row], row.at = "sent",
             row.task = worker[w].task, worker[w].task[2] = "manager"
      PROVE  \A v \in Workers : Delivered(v, "processing")' => Delivered(v, "processing")
  BY <1>0, <1>1 DEF Delivered, TypeOK
<1>2. CASE Silent(w)
  <2>1. UNCHANGED <<status, chat, handler>> /\ races' = races /\ TasksGoOn(w)
    BY <1>0, <1>2, SilentEffect
  <2>2. PICK row : worker' = [worker EXCEPT ![w] = row]
                   /\ ~(row.at = "sent" /\ row.result = "delivered")
    BY <1>0, <1>2, SilentEffect
  <2>3. \A v \in Workers : Delivered(v, "processing")' => Delivered(v, "processing")
    BY <1>0, <2>2 DEF Delivered, TypeOK
  <2>4. (Told => Told') /\ \A i : Claims(i)' => Claims(i)
    BY <1>0, <2>1, UserToldKept, NoNewClaim
  <2>5. \/ status' # "processing"
        \/ task'[<<"processing", "user">>].state # "delivered"
        \/ status' = status
            /\ task'[<<"processing", "user">>].state = task[<<"processing", "user">>].state
        \/ Told'
        \/ "processing" \notin Changes
    <3>1. CASE "processing" \in Changes /\ Delivered(w, "processing")
      BY <2>4, <3>1, HonestMeans
    <3>2. CASE "processing" \in Changes /\ ~Delivered(w, "processing")
      <4>1. <<"processing", "user">> \in Tasks
        BY <3>2, TaskOf DEF Targets
      <4> QED
        BY <1>0, <2>1, <3>2, <4>1 DEF TasksGoOn, Delivered
    <3> QED
      BY <3>1, <3>2
  <2> QED
    BY <2>1, <2>3, <2>4, <2>5, HonestNext
<1>3. CASE SendUser(w)
  <2>1. /\ HasOrder(w) /\ worker[w].task = <<status, "user">>
        /\ UNCHANGED <<status, task, handler>> /\ races' = races /\ status \in Statuses
    BY <1>0, <1>3, UserDelivery, Holding
  <2>2. PICK row : /\ worker' = [worker EXCEPT ![w] = row]
                   /\ row.at = "sent" /\ row.task = worker[w].task
                   /\ \/ CardReplaced(link["user"], status) /\ row.result = "delivered"
                      \/ chat' = chat /\ row.result \in {"retry", "failed"}
    BY <1>0, <1>3, UserDelivery
  <2>3. (Told => Told') /\ \A i : Claims(i)' => Claims(i)
    <3>1. CASE CardReplaced(link["user"], status)
      BY <1>0, <2>1, <3>1, UserToldKept, UserCardsOnly, NoNewClaim
    <3>2. CASE chat' = chat
      BY <1>0, <3>2, UserToldKept, NoNewClaim
    <3> QED
      BY <2>2, <3>1, <3>2
  <2>4. \A v \in Workers : Delivered(v, "processing")' => Delivered(v, "processing") \/ Told'
    <3>1. CASE CardReplaced(link["user"], status) /\ status = "processing"
      BY <1>0, <3>1, UserToldNow
    <3>2. CASE status # "processing" \/ row.result # "delivered"
      <4>1. ~(row.result = "delivered" /\ row.task = <<"processing", "user">>)
        BY <2>1, <2>2, <3>2
      <4> QED
        BY <1>0, <2>2, <4>1 DEF Delivered, TypeOK
    <3> QED
      BY <2>2, <3>1, <3>2
  <2> QED
    BY <2>1, <2>3, <2>4, HonestNext
<1>4. CASE EditManager(w)
  <2>1. /\ HasOrder(w) /\ worker[w].task = <<status, "manager">> /\ task[worker[w].task].state # "none"
        /\ UNCHANGED <<status, task, handler>> /\ races' = races
        /\ status \in Statuses /\ status \in Changes /\ CustomerNotified(status) \in BOOLEAN
    BY <1>0, <1>4, ManagerDelivery, Holding
  <2>2. PICK b \in BOOLEAN : b = CustomerNotified(status)
    BY <2>1
  <2>3. PICK row : /\ worker' = [worker EXCEPT ![w] = row]
                   /\ row.at = "sent" /\ row.task = worker[w].task
                   /\ \/ \E id \in DOMAIN chat["manager"] : CardEdited(id, status, b)
                      \/ CardSent(status, b)
                      \/ chat' = chat
    BY <1>0, <1>4, <2>2, ManagerDelivery
  <2>4. (status = "processing" /\ b) => Told
    <3> SUFFICES ASSUME status = "processing", b PROVE Told
      OBVIOUS
    <3>1. task[<<"processing", "user">>].state \in {"none", "delivered"}
      BY <2>2 DEF CustomerNotified
    <3>2. task[<<"processing", "user">>].state # "none"
      <4>1. task[<<"processing", "manager">>].state # "none" /\ "processing" \in Changes
        BY <2>1
      <4> QED
        BY <1>0, <4>1 DEF TasksInv, Targets
    <3> QED
      BY <2>1, <3>1, <3>2, HonestMeans
  <2>5. chat'["user"] = chat["user"]
        /\ \A i : Claims(i)' => Claims(i) \/ (status = "processing" /\ b)
    <3>1. CASE chat' = chat
      BY <3>1, NoNewClaim
    <3>2. CASE CardSent(status, b) \/ \E id \in DOMAIN chat["manager"] : CardEdited(id, status, b)
      BY <1>0, <2>1, <3>2, CardClaims
    <3> QED
      BY <2>3, <3>1, <3>2
  <2>6. (Told => Told') /\ \A i : Claims(i)' => Claims(i) \/ Told'
    BY <1>0, <2>4, <2>5, UserToldKept
  <2>7. \A v \in Workers : Delivered(v, "processing")' => Delivered(v, "processing")
    <3>1. worker[w].task[2] = "manager"
      BY <2>1
    <3> QED
      BY <1>1, <2>3, <3>1
  <2> QED
    BY <2>1, <2>6, <2>7, HonestNext
<1> QED
  BY <1>2, <1>3, <1>4 DEF Work, Silent

\* A handler's step, with what it will say of the customer afterwards.
LEMMA HonestHandler ==
  ASSUME Core, HonestInv, NEW h \in Handlers, NEW row,
         handler' = [handler EXCEPT ![h] = row], UNCHANGED <<status, task, worker>>,
         races \subseteq races', Told => Told',
         \A i : Claims(i)' => Claims(i) \/ Told',
         row.shows = "processing" /\ row.notified =>
            \/ handler[h].shows = "processing" /\ handler[h].notified
            \/ Told' \/ "skipped" \in races'
  PROVE  HonestInv'
<1>1. \A g \in Handlers : handler'[g].shows = "processing" /\ handler'[g].notified =>
         \/ handler[g].shows = "processing" /\ handler[g].notified
         \/ Told' \/ "skipped" \in races'
  BY DEF Core, Base, TypeOK
<1>2. \A v \in Workers : Delivered(v, "processing")' => Delivered(v, "processing")
  BY DEF Delivered
<1> QED
  BY <1>1, <1>2, HonestNext

\* A status change: its tasks are new, and nothing was told yet.
LEMMA HonestChanged ==
  ASSUME Core, HonestInv, NEW s \in Successors(status) \cap Changes, UNCHANGED <<chat, worker>>,
         status' = s, races \subseteq races', task' = task \/ task' = Enqueued(s),
         \/ handler' = handler
         \/ \E h \in Handlers : \E row :
               handler' = [handler EXCEPT ![h] = row] /\ ~(row.shows = "processing" /\ row.notified)
  PROVE  HonestInv'
<1>0. Base /\ TypeOK
  BY DEF Core, Base
<1>1. s \in Statuses /\ s \in After(status) /\ <<s, "user">> \in Tasks
  BY <1>0, TaskOf, StatusOrder DEF Targets, TypeOK
<1>2. task[<<s, "user">>].state = "none"
  BY <1>0, <1>1, NoTaskYet DEF Targets
<1>3. task'[<<s, "user">>].state # "delivered"
  <2>1. CASE task' = task
    BY <1>2, <2>1
  <2>2. CASE task' = Enqueued(s)
    <3>1. task'[<<s, "user">>] = [NoTask EXCEPT !.state = "pending"]
      BY <1>1, <1>2, <2>2 DEF Enqueued
    <3> QED
      BY <3>1 DEF NoTask
  <2> QED
    BY <2>1, <2>2
<1>4. (Told => Told') /\ \A i : Claims(i)' => Claims(i)
  BY <1>0, UserToldKept, NoNewClaim
<1>5. \A v \in Workers : Delivered(v, "processing")' => Delivered(v, "processing")
  BY DEF Delivered
<1>6. \A g \in Handlers : handler'[g].shows = "processing" /\ handler'[g].notified =>
         handler[g].shows = "processing" /\ handler[g].notified
  BY <1>0 DEF TypeOK
<1>7. status' # "processing" \/ task'[<<"processing", "user">>].state # "delivered"
  BY <1>3
<1> QED
  BY <1>4, <1>5, <1>6, <1>7, HonestNext

LEMMA HonestHandlers ==
  ASSUME Core, HonestInv, NEW h \in Handlers, Handle(h) \/ LoseLinks(h) \/ Press(h)
  PROVE  HonestInv'
<1>0. Base /\ TypeOK /\ HandlersInv
  BY DEF Core, Base
<1>1. ASSUME chat' = chat PROVE (Told => Told') /\ \A i : Claims(i)' => Claims(i)
  BY <1>0, <1>1, UserToldKept, NoNewClaim
<1>2. ASSUME NEW previous, NEW s \in Statuses, CardReplaced(previous, s)
      PROVE  (Told => Told') /\ \A i : Claims(i)' => Claims(i)
  BY <1>0, <1>2, UserToldKept, UserCardsOnly, NoNewClaim
<1>3. CASE Greet(h)
  <2>1. UNCHANGED <<status, task, worker>> /\ races' = races
    BY <1>0, <1>3, GreetEffect
  <2>2. PICK row : /\ handler' = [handler EXCEPT ![h] = row]
                   /\ row.shows = handler[h].shows /\ row.notified = handler[h].notified
    BY <1>0, <1>3, GreetEffect DEF GoesOn
  <2>3. (Told => Told') /\ \A i : Claims(i)' => Claims(i)
    <3>1. "created" \in Statuses
      BY DEF Statuses
    <3> QED
      BY <1>0, <1>1, <1>2, <1>3, <3>1, GreetEffect
  <2> QED
    BY <2>1, <2>2, <2>3, HonestHandler
<1>4. CASE StoreGreeting(h)
  <2>1. UNCHANGED <<status, task, worker, chat>> /\ races' = races
    BY <1>0, <1>4, StoreGreetingEffect
  <2>2. PICK row : /\ handler' = [handler EXCEPT ![h] = row]
                   /\ row.shows = handler[h].shows /\ row.notified = handler[h].notified
    BY <1>0, <1>4, StoreGreetingEffect DEF GoesOn
  <2> QED
    BY <1>1, <2>1, <2>2, HonestHandler
<1>5. CASE Introduce(h)
  <2>1. UNCHANGED <<status, task, worker>> /\ races' = races
    BY <1>0, <1>5, IntroduceEffect
  <2>2. PICK row : /\ handler' = [handler EXCEPT ![h] = row]
                   /\ row.shows = handler[h].shows /\ row.notified = handler[h].notified
    BY <1>0, <1>5, IntroduceEffect DEF GoesOn
  <2>3. (Told => Told') /\ \A i : Claims(i)' => Claims(i)
    <3>1. CASE CardSent("created", FALSE)
      <4>1. /\ chat'["user"] = chat["user"]
            /\ \A i : Claims(i)' => Claims(i) \/ ("created" = "processing" /\ FALSE)
        BY <1>0, <3>1, CardClaims DEF Statuses
      <4> QED
        BY <1>0, <4>1, UserToldKept
    <3>2. CASE chat' = chat
      BY <1>1, <3>2
    <3> QED
      BY <1>0, <1>5, <3>1, <3>2, IntroduceEffect
  <2> QED
    BY <2>1, <2>2, <2>3, HonestHandler
<1>6. CASE StoreLinks(h) \/ LoseLinks(h)
  <2>1. /\ handler[h].at = "storing" /\ UNCHANGED <<status, chat, task, worker>> /\ races' = races
        /\ IF handler[h].card = 0 THEN Ends(h)
           ELSE handler' = [handler EXCEPT ![h].at = "editing"]
    BY <1>6 DEF StoreLinks, LoseLinks
  <2>2. PICK row : /\ handler' = [handler EXCEPT ![h] = row]
                   /\ \/ row = Done
                      \/ row.shows = handler[h].shows /\ row.notified = handler[h].notified
    BY <1>0, <2>1, StoredEffect DEF GoesOn
  <2> QED
    BY <1>1, <2>1, <2>2, DoneType, HonestHandler
<1>7. CASE Handoff(h)
  <2>1. UNCHANGED <<status, task, worker>> /\ races' = races
    BY <1>0, <1>7, HandoffEffect
  <2>2. PICK row :
          /\ handler' = [handler EXCEPT ![h] = row]
          /\ row.shows = handler[h].shows
          /\ \/ \E previous : CardReplaced(previous, "processing")
             \/ chat' = chat /\ row.notified = handler[h].notified
    BY <1>0, <1>7, HandoffEffect DEF GoesOn
  <2>3. CASE \E previous : CardReplaced(previous, "processing")
    <3>1. "processing" \in Statuses
      BY DEF Statuses
    <3>2. Told' /\ (Told => Told') /\ \A i : Claims(i)' => Claims(i)
      BY <1>0, <1>2, <2>3, <3>1, UserToldNow
    <3> QED
      BY <2>1, <2>2, <3>2, HonestHandler
  <2>4. CASE chat' = chat /\ row.notified = handler[h].notified
    BY <1>1, <2>1, <2>2, <2>4, HonestHandler
  <2> QED
    BY <2>2, <2>3, <2>4
<1>8. CASE EditCard(h)
  <2>1. /\ UNCHANGED <<status, task, worker>> /\ races' = races
        /\ handler' = [handler EXCEPT ![h] = Done]
        /\ handler[h].shows \in Statuses /\ handler[h].notified \in BOOLEAN
        /\ \/ \E id \in DOMAIN chat["manager"] :
                 CardEdited(id, handler[h].shows, handler[h].notified)
           \/ chat' = chat
    BY <1>0, <1>8, EditCardEffect
  <2>2. CASE chat' = chat
    BY <1>1, <2>1, <2>2, DoneType, HonestHandler
  <2>3. CASE \E id \in DOMAIN chat["manager"] :
                CardEdited(id, handler[h].shows, handler[h].notified)
    <3>1. /\ chat'["user"] = chat["user"]
          /\ \A i : Claims(i)' => Claims(i) \/
                (handler[h].shows = "processing" /\ handler[h].notified)
      BY <1>0, <2>1, <2>3, CardClaims
    <3>2. Told => Told'
      BY <1>0, <3>1, UserToldKept
    <3>3. CASE "skipped" \in races
      <4>1. /\ \A i : Claims(i)' => Claims(i) \/ Told' \/ "skipped" \in races'
            /\ \A v \in Workers : Delivered(v, "processing")' => Delivered(v, "processing")
        BY <2>1, <3>3 DEF Delivered
      <4>2. \A g \in Handlers : handler'[g].shows = "processing" /\ handler'[g].notified =>
                \/ handler[g].shows = "processing" /\ handler[g].notified
                \/ Told' \/ "skipped" \in races'
        BY <2>1, <3>3
      <4> QED
        BY <2>1, <3>2, <4>1, <4>2, HonestNext
    <3>4. CASE "skipped" \notin races
      <4>1. handler[h].shows = "processing" /\ handler[h].notified => Told
        BY <3>4, HonestMeans
      <4>2. \A i : Claims(i)' => Claims(i) \/ Told'
        BY <3>1, <3>2, <4>1
      <4> QED
        BY <2>1, <3>2, <4>2, DoneType, HonestHandler
    <3> QED
      BY <3>3, <3>4
  <2> QED
    BY <2>1, <2>2, <2>3
<1>9. ASSUME NEW card \in DOMAIN chat["manager"], TakeAgain(h, card) PROVE HonestInv'
  <2>1. /\ UNCHANGED <<status, chat, task, worker>> /\ "skipped" \in races' /\ races \subseteq races'
    BY <1>0, <1>9, TakeAgainEffect
  <2>2. \E row : handler' = [handler EXCEPT ![h] = row]
    BY <1>0, <1>9, TakeAgainEffect
  <2> QED
    BY <1>1, <2>1, <2>2, HonestHandler
<1>10. ASSUME NEW card \in DOMAIN chat["manager"],
              Take(h, card) \/ \E s \in Statuses : Close(h, s, card)
       PROVE  HonestInv'
  <2>1. PICK s \in Statuses, row \in HandlerRow :
          /\ UNCHANGED <<chat, worker>> /\ status' = s /\ races \subseteq races'
          /\ s \in Successors(status) \cap Changes
          /\ task' = task \/ task' = Enqueued(s)
          /\ handler' = [handler EXCEPT ![h] = row]
          /\ ~(row.shows = "processing" /\ row.notified)
    <3>1. CASE Take(h, card)
      <4>1. "processing" \in Statuses /\ "processing" \in Successors(status)
        BY <1>0, <3>1, TakeEffect DEF Statuses, Successors
      <4>2. UNCHANGED <<chat, worker, task>> /\ status' = "processing" /\ races \subseteq races'
            /\ "processing" \in Changes
        BY <1>0, <3>1, TakeEffect
      <4>3. PICK row \in HandlerRow : handler' = [handler EXCEPT ![h] = row] /\ ~row.notified
        BY <1>0, <3>1, TakeEffect
      <4> QED
        BY <4>1, <4>2, <4>3
    <3>2. ASSUME NEW s \in Statuses, Close(h, s, card)
          PROVE  /\ UNCHANGED <<chat, worker>> /\ status' = s /\ races \subseteq races'
                 /\ s \in Successors(status) \cap Changes
                 /\ task' = task \/ task' = Enqueued(s)
                 /\ \E row \in HandlerRow : /\ handler' = [handler EXCEPT ![h] = row]
                                            /\ row.shows # "processing"
      <4>1. /\ UNCHANGED <<chat, worker>> /\ status' = s /\ races \subseteq races'
            /\ s \in (Successors(status) \cap Changes) \ {"processing"}
            /\ task' = Enqueued(s)
        BY <1>0, <3>2, CloseEffect
      <4>2. \E row \in HandlerRow : handler' = [handler EXCEPT ![h] = row] /\ row.shows = s
        BY <1>0, <3>2, CloseEffect
      <4> QED
        BY <4>1, <4>2
    <3> QED
      BY <1>10, <3>1, <3>2
  <2> QED
    BY <1>0, <2>1, HonestChanged
<1> QED
  BY <1>3, <1>4, <1>5, <1>6, <1>7, <1>8, <1>9, <1>10 DEF Handle, Press

LEMMA HonestStep ==
  ASSUME Core, HonestInv, [Next]_vars
  PROVE  HonestInv'
<1>0. Base /\ TypeOK
  BY DEF Core, Base
<1>1. ASSUME UNCHANGED <<status, worker, handler>>, races \subseteq races',
             chat'["user"] = chat["user"], \A i : Claims(i)' => Claims(i),
             \A s \in Changes : task'[<<s, "user">>].state = task[<<s, "user">>].state
      PROVE  HonestInv'
  <2>1. \A v \in Workers : Delivered(v, "processing")' => Delivered(v, "processing")
    BY <1>1 DEF Delivered
  <2>2. Told => Told'
    BY <1>0, <1>1, UserToldKept
  <2> QED
    BY <1>1, <2>1, <2>2, HonestNext
<1>2. ASSUME NEW k \in Tasks, LeaseEnds(k) PROVE HonestInv'
  <2>1. UNCHANGED <<status, chat, worker, handler>> /\ races \subseteq races'
        /\ task' = [task EXCEPT ![k].leased = FALSE]
    BY <1>2 DEF LeaseEnds
  <2>2. \A j \in Tasks : task'[j].state = task[j].state
    BY <1>0, <2>1, RowTypes DEF TaskRow
  <2>3. \A s \in Changes : task'[<<s, "user">>].state = task[<<s, "user">>].state
    BY <2>2, TaskOf DEF Targets
  <2> QED
    BY <1>1, <2>1, <2>3, NoNewClaim
<1>3. ASSUME NEW s \in Statuses, ChangeByWeb(s) PROVE HonestInv'
  <2>1. /\ s \in Successors(status) \cap Changes /\ status' = s /\ task' = Enqueued(s)
        /\ UNCHANGED <<chat, worker>> /\ handler' = handler /\ races \subseteq races'
    BY <1>3 DEF ChangeByWeb, Changed
  <2> QED
    BY <2>1, HonestChanged
<1>4. ASSUME NEW id, DeleteCard(id) PROVE HonestInv'
  <2>1. /\ UNCHANGED <<status, task, worker, handler>> /\ races' = races
        /\ chat' = [chat EXCEPT !["manager"] = Removed(@, id)]
    BY <1>4 DEF DeleteCard
  <2>2. /\ chat'["user"] = chat["user"]
        /\ DOMAIN chat'["manager"] = DOMAIN chat["manager"]
        /\ \A i \in DOMAIN chat["manager"] :
               /\ chat'["manager"][i].shows = chat["manager"][i].shows
               /\ chat'["manager"][i].notified = chat["manager"][i].notified
    BY <1>0, <2>1, ManagerRemoved
  <2>3. \A i : Claims(i)' => Claims(i)
    BY <2>2 DEF Claims, CardsShowing
  <2> QED
    BY <1>1, <2>1, <2>2, <2>3
<1>5. CASE UNCHANGED vars
  <2>1. UNCHANGED <<status, chat, task, worker, handler>> /\ races' = races
    BY <1>5 DEF vars
  <2> QED
    BY <1>1, <2>1, NoNewClaim
<1> QED
  BY <1>2, <1>3, <1>4, <1>5, HonestWork, HonestHandlers DEF Next

----------------------------------------------------------------------------
(* Cards that keep showing the status. *)

Right(t, id) == Shows(t, id, status)
Sent(w) == worker[w].at = "sent" /\ worker[w].result = "delivered"

CardsStay == \A t \in Targets : \A id : Right(t, id) => Right(t, id)'

LEMMA StayUnchanged ==
  ASSUME UNCHANGED <<status, chat>>
  PROVE  CardsStay
BY DEF CardsStay, Right, Shows

\* A message that is sent changes no other; at most one is deleted.
LEMMA StaySentUser ==
  ASSUME TypeOK, NEW previous, NEW s \in Statuses, CardReplaced(previous, s), status' = status
  PROVE  CardsStay /\ \A n : n = NextId("user") /\ s = status => Right("user", n)'
<1>1. /\ chat'["manager"] = chat["manager"]
      /\ \A i \in DOMAIN chat["user"] :
            i \in DOMAIN chat'["user"] /\ chat'["user"][i].shows = chat["user"][i].shows
      /\ DOMAIN chat'["user"] = 1..NextId("user") /\ NextId("user") \in Nat \ {0}
      /\ chat'["user"][NextId("user")].shows = s
  BY UserSent
<1>2. \A i \in DOMAIN chat["user"] : chat'["user"][i].alive => chat["user"][i].alive
  <2> DEFINE sent == Append(chat["user"], Message(s, TRUE))
  <2>1. chat \in [Targets -> Seq(MessageRow)] /\ chat["user"] \in Seq(MessageRow)
    BY RowTypes DEF Targets
  <2>2. Message(s, TRUE) \in MessageRow
    BY DEF Message, MessageRow
  <2>3. sent \in Seq(MessageRow) /\ Len(sent) = Len(chat["user"]) + 1
        /\ \A i \in DOMAIN chat["user"] : sent[i] = chat["user"][i] /\ i \in 1..Len(sent)
    <3>1. PICK old \in Seq(MessageRow), message \in MessageRow :
            old = chat["user"] /\ message = Message(s, TRUE)
      BY <2>1, <2>2
    <3>2. /\ Append(old, message) \in Seq(MessageRow)
          /\ Len(Append(old, message)) = Len(old) + 1 /\ Len(old) \in Nat
          /\ DOMAIN old = 1..Len(old)
          /\ \A i \in 1..Len(old) : Append(old, message)[i] = old[i]
      OBVIOUS
    <3>3. sent = Append(old, message)
      BY <3>1
    <3> HIDE DEF sent
    <3>4. \A n \in Nat : \A i \in 1..n : i \in 1..(n + 1)
      OBVIOUS
    <3>5. /\ sent \in Seq(MessageRow) /\ Len(sent) = Len(old) + 1
          /\ \A i \in DOMAIN old : sent[i] = old[i] /\ i \in 1..Len(sent)
      BY <3>2, <3>3, <3>4
    <3> QED
      BY <3>1, <3>5
  <2> HIDE DEF sent
  <2>4. chat'["user"] = sent \/ chat'["user"] = Removed(sent, previous)
    <3>1. \/ chat' = [chat EXCEPT !["user"] = Removed(sent, previous)]
          \/ chat' = [chat EXCEPT !["user"] = sent]
      BY DEF CardReplaced, sent
    <3> QED
      BY <2>1, <3>1 DEF Targets
  <2>5. \A i \in 1..Len(sent) : Removed(sent, previous)[i].alive => sent[i].alive
    BY <2>3, RemovedKeeps
  <2> QED
    BY <2>3, <2>4, <2>5
<1>3. ASSUME NEW t \in Targets, NEW id, Right(t, id) PROVE Right(t, id)'
  <2>1. CASE t = "user"
    <3>1. id \in DOMAIN chat["user"] /\ (chat["user"][id].alive => chat["user"][id].shows = status)
      BY <1>3, <2>1 DEF Right, Shows
    <3>2. /\ id \in DOMAIN chat'["user"]
          /\ chat'["user"][id].shows = chat["user"][id].shows
          /\ chat'["user"][id].alive => chat["user"][id].alive
      BY <1>1, <1>2, <3>1
    <3> QED
      BY <2>1, <3>1, <3>2 DEF Right, Shows
  <2>2. CASE t = "manager"
    BY <1>1, <1>3, <2>2 DEF Right, Shows
  <2> QED
    BY <2>1, <2>2 DEF Targets
<1>4. \A n : n = NextId("user") /\ s = status => Right("user", n)'
  BY <1>1 DEF Right, Shows
<1> QED
  BY <1>3, <1>4 DEF CardsStay

LEMMA StaySentManager ==
  ASSUME TypeOK, NEW s \in Statuses, NEW b \in BOOLEAN, CardSent(s, b), status' = status
  PROVE  CardsStay /\ \A n : n = NextId("manager") /\ s = status => Right("manager", n)'
<1>0. Message(s, b).shows = s
  BY DEF Message
<1>1. /\ chat'["user"] = chat["user"]
      /\ NextId("manager") \in Nat \ {0}
      /\ DOMAIN chat'["manager"] = 1..NextId("manager")
      /\ DOMAIN chat["manager"] = 1..(NextId("manager") - 1)
      /\ \A i \in DOMAIN chat["manager"] : chat'["manager"][i] = chat["manager"][i]
      /\ chat'["manager"][NextId("manager")].shows = s
  BY <1>0, ManagerSent
<1>2. ASSUME NEW t \in Targets, NEW id, Right(t, id) PROVE Right(t, id)'
  <2>1. CASE t = "user"
    BY <1>1, <1>2, <2>1 DEF Right, Shows
  <2>2. CASE t = "manager"
    <3>1. id \in DOMAIN chat["manager"]
          /\ (chat["manager"][id].alive => chat["manager"][id].shows = status)
      BY <1>2, <2>2 DEF Right, Shows
    <3>2. id \in DOMAIN chat'["manager"] /\ chat'["manager"][id] = chat["manager"][id]
      BY <1>1, <3>1
    <3> QED
      BY <2>2, <3>1, <3>2 DEF Right, Shows
  <2> QED
    BY <2>1, <2>2 DEF Targets
<1>3. \A n : n = NextId("manager") /\ s = status => Right("manager", n)'
  BY <1>1 DEF Right, Shows
<1> QED
  BY <1>2, <1>3 DEF CardsStay

\* An edit may spoil a card, unless what it writes is the order's status.
LEMMA StayEdited ==
  ASSUME TypeOK, NEW s \in Statuses, NEW b \in BOOLEAN, NEW id \in DOMAIN chat["manager"],
         CardEdited(id, s, b), s = status, status' = status
  PROVE  CardsStay /\ Right("manager", id)'
<1>1. /\ chat'["user"] = chat["user"]
      /\ DOMAIN chat'["manager"] = DOMAIN chat["manager"]
      /\ \A i \in DOMAIN chat["manager"] :
             chat'["manager"][i] = IF i = id THEN Message(s, b) ELSE chat["manager"][i]
      /\ Message(s, b).shows = s
  BY ManagerEdited DEF Message
<1>2. ASSUME NEW t \in Targets, NEW i, Right(t, i) PROVE Right(t, i)'
  <2>1. CASE t = "user"
    BY <1>1, <1>2, <2>1 DEF Right, Shows
  <2>2. CASE t = "manager"
    <3>1. i \in DOMAIN chat["manager"]
          /\ (chat["manager"][i].alive => chat["manager"][i].shows = status)
      BY <1>2, <2>2 DEF Right, Shows
    <3>2. i \in DOMAIN chat'["manager"]
          /\ (chat'["manager"][i].alive => chat'["manager"][i].shows = status)
      BY <1>1, <3>1
    <3> QED
      BY <2>2, <3>2 DEF Right, Shows
  <2> QED
    BY <2>1, <2>2 DEF Targets
<1>3. Right("manager", id)'
  BY <1>1 DEF Right, Shows
<1> QED
  BY <1>2, <1>3 DEF CardsStay

LEMMA StayRemoved ==
  ASSUME TypeOK, NEW id, chat' = [chat EXCEPT !["manager"] = Removed(@, id)], status' = status
  PROVE  CardsStay
<1>1. /\ chat'["user"] = chat["user"]
      /\ DOMAIN chat'["manager"] = DOMAIN chat["manager"]
      /\ \A i \in DOMAIN chat["manager"] :
            /\ chat'["manager"][i].shows = chat["manager"][i].shows
            /\ chat'["manager"][i].alive => chat["manager"][i].alive
  BY ManagerRemoved
<1>2. ASSUME NEW t \in Targets, NEW i, Right(t, i) PROVE Right(t, i)'
  <2>1. CASE t = "user"
    BY <1>1, <1>2, <2>1 DEF Right, Shows
  <2>2. CASE t = "manager"
    BY <1>1, <1>2, <2>2 DEF Right, Shows
  <2> QED
    BY <2>1, <2>2 DEF Targets
<1> QED
  BY <1>2 DEF CardsStay

----------------------------------------------------------------------------
(* SettleInv is inductive. *)

LEMMA SettleMeans ==
  SettleInv <=>
    ("overtaken" \notin races =>
        /\ \A t \in Targets :
              status \in Changes /\ task[<<status, t>>].state = "delivered" => Right(t, link[t])
        /\ \A w \in Workers : Sent(w) => Right(worker[w].task[2], CardOf(w))
        /\ \A h \in Handlers : WillStore(h) /\ status \in Changes
              => \A t \in Targets : task[<<status, t>>].state = "none"
        /\ \A h \in Handlers : WillEdit(h) => handler[h].shows = status)
BY DEF SettleInv, Right, Sent

LEMMA SettleNext ==
  ASSUME SettleInv, races \subseteq races', status' = status,
         "overtaken" \notin races' => CardsStay,
         \A t \in Targets : status \in Changes /\ task'[<<status, t>>].state = "delivered" =>
            \/ task[<<status, t>>].state = "delivered" /\ link'[t] = link[t]
            \/ Right(t, link[t])' \/ "overtaken" \in races',
         \A w \in Workers : Sent(w)' =>
            \/ Sent(w) /\ worker[w].task[2] \in Targets /\ worker'[w] = worker[w] /\ link' = link
            \/ Right(worker[w].task[2], CardOf(w))',
         \A h \in Handlers : WillStore(h)' => WillStore(h),
         \A t \in Targets : status \in Changes /\ task[<<status, t>>].state = "none" =>
            task'[<<status, t>>].state = "none",
         \A h \in Handlers : WillEdit(h)' =>
            \/ WillEdit(h) /\ handler'[h].shows = handler[h].shows
            \/ handler'[h].shows = status
  PROVE  SettleInv'
<1> SUFFICES ASSUME "overtaken" \notin races' PROVE SettleInv'
  BY DEF SettleInv
<1>0. "overtaken" \notin races /\ CardsStay
  OBVIOUS
<1>1. ASSUME NEW t \in Targets, status \in Changes, task'[<<status, t>>].state = "delivered"
      PROVE  Right(t, link[t])'
  <2>1. CASE task[<<status, t>>].state = "delivered" /\ link'[t] = link[t]
    <3>1. PICK id : id = link[t] /\ id = link'[t]
      BY <2>1
    <3>2. Right(t, id)
      BY <1>0, <1>1, <2>1, <3>1, SettleMeans
    <3>3. Right(t, id)'
      BY <1>0, <3>2 DEF CardsStay
    <3> QED
      BY <3>1, <3>3 DEF Right
  <2> QED
    BY <1>0, <1>1, <2>1
<1>2. ASSUME NEW w \in Workers, Sent(w)' PROVE Right(worker[w].task[2], CardOf(w))'
  <2>1. CASE Sent(w) /\ worker[w].task[2] \in Targets /\ worker'[w] = worker[w] /\ link' = link
    <3>1. PICK id : id = CardOf(w) /\ id = CardOf(w)'
      BY <2>1 DEF CardOf
    <3>2. PICK t \in Targets : t = worker[w].task[2] /\ t = worker'[w].task[2]
      BY <2>1
    <3>3. Right(t, id)
      BY <1>0, <2>1, <3>1, <3>2, SettleMeans
    <3>4. Right(t, id)'
      BY <1>0, <3>3 DEF CardsStay
    <3> QED
      BY <3>1, <3>2, <3>4 DEF Right
  <2> QED
    BY <1>2, <2>1
<1>3. ASSUME NEW h \in Handlers, WillStore(h)', status \in Changes, NEW t \in Targets
      PROVE  task'[<<status, t>>].state = "none"
  BY <1>0, <1>3, SettleMeans
<1>4. \A h \in Handlers : WillEdit(h)' => handler'[h].shows = status
  BY <1>0, SettleMeans
<1> QED
  BY <1>1, <1>2, <1>3, <1>4 DEF SettleInv, Right, Sent

\* A worker's step that leaves the status, the handlers and the history alone.
LEMMA SettleWorker ==
  ASSUME Core, SettleInv, NEW w \in Workers, NEW row, worker' = [worker EXCEPT ![w] = row],
         UNCHANGED <<status, handler>>, races' = races, CardsStay, TasksGoOn(w),
         link' = link \/ Record(w),
         row.at = "sent" /\ row.result = "delivered" =>
            link' = link /\ \A t, id :
               t = row.task[2] /\ id = (IF row.message = 0 THEN link[t] ELSE row.message)
                  => Right(t, id)'
  PROVE  SettleInv'
<1>0. Base /\ TypeOK /\ worker \in [Workers -> WorkerRow] /\ link \in [Targets -> Nat]
  BY RowTypes DEF Core, Base
<1>1. worker'[w] = row /\ \A v \in Workers \ {w} : worker'[v] = worker[v]
  BY <1>0
<1>2. \A h \in Handlers : /\ WillStore(h)' => WillStore(h)
                          /\ WillEdit(h)' => WillEdit(h) /\ handler'[h].shows = handler[h].shows
  BY DEF WillStore, WillEdit
<1>3. \A t \in Targets : status \in Changes /\ task[<<status, t>>].state = "none" =>
         task'[<<status, t>>].state = "none"
  BY TaskOf DEF TasksGoOn
<1>4. ASSUME Sent(w)' PROVE Right(worker[w].task[2], CardOf(w))'
  <2>1. row.at = "sent" /\ row.result = "delivered" /\ link' = link
    BY <1>1, <1>4 DEF Sent
  <2>2. PICK t, id : t = row.task[2] /\ id = (IF row.message = 0 THEN link[t] ELSE row.message)
    OBVIOUS
  <2>3. t = worker'[w].task[2] /\ id = CardOf(w)'
    BY <1>1, <2>1, <2>2 DEF CardOf
  <2>4. Right(t, id)'
    BY <2>1, <2>2
  <2> QED
    BY <2>3, <2>4 DEF Right
<1>5. CASE link' = link /\ ~Record(w)
  <2>1. \A t \in Targets : status \in Changes /\ task'[<<status, t>>].state = "delivered" =>
           task[<<status, t>>].state = "delivered" /\ link'[t] = link[t]
    BY <1>5, TaskOf DEF TasksGoOn
  <2>2. ASSUME NEW v \in Workers, Sent(v)'
        PROVE  \/ Sent(v) /\ worker[v].task[2] \in Targets /\ worker'[v] = worker[v] /\ link' = link
               \/ Right(worker[v].task[2], CardOf(v))'
    <3>1. CASE v = w
      BY <1>4, <2>2, <3>1
    <3>2. CASE v # w
      <4>1. Sent(v) /\ HasOrder(v) /\ worker'[v] = worker[v]
        BY <1>1, <2>2, <3>2 DEF Sent, HasOrder
      <4> QED
        BY <1>0, <1>5, <4>1, Holding
    <3> QED
      BY <3>1, <3>2
  <2> QED
    BY <1>2, <1>3, <2>1, <2>2, SettleNext
<1>6. CASE Record(w)
  <2>1. HasOrder(w) /\ worker[w].at = "sent"
    BY <1>6 DEF Record, HasOrder
  <2>2. /\ worker[w].task = <<status, worker[w].task[2]>> /\ worker[w].task \in Tasks
        /\ worker[w].task[2] \in Targets /\ status \in Changes
        /\ task[worker[w].task].state = "processing"
        /\ \A v \in Workers \ {w} : ~HasOrder(v)
    BY <1>0, <2>1, Holding
  <2>3. PICK target \in Targets : target = worker[w].task[2]
    BY <2>2
  <2>4. worker[w].task = <<status, target>> /\ task[<<status, target>>].state = "processing"
    BY <2>2, <2>3
  <2>5. link' = LinkTo(target, worker[w].message)
    BY <1>6, <2>3 DEF Record
  <2>6. link'[target] = CardOf(w) /\ \A t \in Targets \ {target} : link'[t] = link[t]
    BY <1>0, <2>3, <2>5 DEF LinkTo, CardOf
  <2>7. ASSUME NEW t \in Targets, status \in Changes, task'[<<status, t>>].state = "delivered",
               "overtaken" \notin races'
        PROVE  \/ task[<<status, t>>].state = "delivered" /\ link'[t] = link[t]
               \/ Right(t, link[t])'
    <3>1. <<status, t>> \in Tasks
      BY <2>7, TaskOf
    <3>2. CASE t = target
      <4>1. Sent(w)
        BY <2>4, <2>7, <3>1, <3>2 DEF TasksGoOn, Sent
      <4>2. Right(target, CardOf(w))
        BY <2>3, <2>7, <4>1, SettleMeans
      <4>3. PICK id : id = CardOf(w) /\ id = link'[target]
        BY <2>6
      <4>4. Right(target, id)'
        BY <4>2, <4>3 DEF CardsStay
      <4> QED
        BY <3>2, <4>3, <4>4 DEF Right
    <3>3. CASE t # target
      <4>1. worker[w].task # <<status, t>>
        BY <2>4, <3>3
      <4>2. task[<<status, t>>].state = "delivered"
        BY <2>7, <3>1, <4>1 DEF TasksGoOn
      <4> QED
        BY <2>6, <3>3, <4>2
    <3> QED
      BY <3>2, <3>3
  <2>8. ASSUME NEW v \in Workers, Sent(v)' PROVE Right(worker[v].task[2], CardOf(v))'
    <3>1. v = w
      BY <1>1, <2>2, <2>8 DEF Sent, HasOrder
    <3> QED
      BY <1>4, <2>8, <3>1
  <2> QED
    BY <1>2, <1>3, <2>7, <2>8, SettleNext
<1> QED
  BY <1>5, <1>6

LEMMA SettleWork ==
  ASSUME Core, SettleInv, NEW w \in Workers, Work(w) \/ TimeOut(w) \/ Crash(w)
  PROVE  SettleInv'
<1>0. Base /\ TypeOK
  BY DEF Core, Base
<1>1. ASSUME task' = task PROVE TasksGoOn(w)
  BY <1>1 DEF TasksGoOn
<1>2. CASE Silent(w)
  <2>1. /\ UNCHANGED <<status, chat, handler>> /\ races' = races /\ TasksGoOn(w)
        /\ Record(w) \/ link' = link
    BY <1>0, <1>2, SilentEffect
  <2>2. PICK row : worker' = [worker EXCEPT ![w] = row]
                   /\ ~(row.at = "sent" /\ row.result = "delivered")
    BY <1>0, <1>2, SilentEffect
  <2>3. CardsStay
    BY <2>1, StayUnchanged
  <2> QED
    BY <2>1, <2>2, <2>3, SettleWorker
<1>3. CASE SendUser(w)
  <2>1. /\ worker[w].task = <<status, "user">> /\ worker[w].task[2] = "user"
        /\ UNCHANGED <<status, task, link, handler>> /\ races' = races /\ status \in Statuses
    <3>1. HasOrder(w) /\ worker[w].task = <<status, "user">>
          /\ UNCHANGED <<status, task, link, handler>> /\ races' = races
      BY <1>0, <1>3, UserDelivery
    <3> QED
      BY <1>0, <3>1, Holding
  <2>2. PICK row : /\ worker' = [worker EXCEPT ![w] = row]
                   /\ row.at = "sent" /\ row.task = worker[w].task
                   /\ \/ /\ CardReplaced(link["user"], status)
                         /\ row.result = "delivered" /\ row.message = NextId("user")
                      \/ chat' = chat /\ row.result \in {"retry", "failed"}
    BY <1>0, <1>3, UserDelivery
  <2>3. CASE /\ CardReplaced(link["user"], status)
             /\ row.result = "delivered" /\ row.message = NextId("user")
    <3>1. PICK s \in Statuses : s = status
      BY <2>1
    <3>2. CardReplaced(link["user"], s)
      BY <2>3, <3>1
    <3>3. CardsStay /\ \A n : n = NextId("user") => Right("user", n)'
      BY <1>0, <2>1, <3>1, <3>2, StaySentUser
    <3>4. NextId("user") # 0
      BY <1>0, <3>2, UserSent
    <3>5. \A t, id : t = row.task[2] /\ id = (IF row.message = 0 THEN link[t] ELSE row.message)
            => Right(t, id)'
      BY <2>1, <2>2, <2>3, <3>3, <3>4
    <3> QED
      BY <1>1, <2>1, <2>2, <3>3, <3>5, SettleWorker
  <2>4. CASE chat' = chat /\ row.result \in {"retry", "failed"}
    <3>1. CardsStay /\ row.result # "delivered"
      BY <2>1, <2>4, StayUnchanged
    <3> QED
      BY <1>1, <2>1, <2>2, <3>1, SettleWorker
  <2> QED
    BY <2>2, <2>3, <2>4
<1>4. CASE EditManager(w)
  <2>1. /\ worker[w].task[2] = "manager" /\ CustomerNotified(status) \in BOOLEAN
        /\ UNCHANGED <<status, task, link, handler>> /\ races' = races /\ status \in Statuses
    <3>1. HasOrder(w) /\ worker[w].task = <<status, "manager">> /\ CustomerNotified(status) \in BOOLEAN
          /\ UNCHANGED <<status, task, link, handler>> /\ races' = races
      BY <1>0, <1>4, ManagerDelivery
    <3> QED
      BY <1>0, <3>1, Holding
  <2>2. PICK s \in Statuses, b \in BOOLEAN : s = status /\ b = CustomerNotified(status)
    BY <2>1
  <2>3. PICK row : /\ worker' = [worker EXCEPT ![w] = row]
                   /\ row.at = "sent" /\ row.task = worker[w].task
                   /\ \/ /\ link["manager"] \in DOMAIN chat["manager"]
                         /\ CardEdited(link["manager"], s, b) /\ row.message = 0
                      \/ CardSent(s, b) /\ row.message = NextId("manager")
                      \/ chat' = chat /\ row.result \in {"retry", "failed"}
    BY <1>0, <1>4, <2>2, ManagerDelivery
  <2>4. CASE /\ link["manager"] \in DOMAIN chat["manager"]
             /\ CardEdited(link["manager"], s, b) /\ row.message = 0
    <3>1. PICK card \in DOMAIN chat["manager"] : card = link["manager"] /\ CardEdited(card, s, b)
      BY <2>4
    <3>2. CardsStay /\ Right("manager", card)'
      BY <1>0, <2>1, <2>2, <3>1, StayEdited
    <3>3. \A t, id : t = row.task[2] /\ id = (IF row.message = 0 THEN link[t] ELSE row.message)
            => Right(t, id)'
      BY <2>1, <2>3, <2>4, <3>1, <3>2
    <3> QED
      BY <1>1, <2>1, <2>3, <3>2, <3>3, SettleWorker
  <2>5. CASE CardSent(s, b) /\ row.message = NextId("manager")
    <3>1. CardsStay /\ \A n : n = NextId("manager") => Right("manager", n)'
      BY <1>0, <2>1, <2>2, <2>5, StaySentManager
    <3>2. NextId("manager") # 0
      BY <1>0, <2>5, ManagerSent
    <3>3. \A t, id : t = row.task[2] /\ id = (IF row.message = 0 THEN link[t] ELSE row.message)
            => Right(t, id)'
      BY <2>1, <2>3, <2>5, <3>1, <3>2
    <3> QED
      BY <1>1, <2>1, <2>3, <3>1, <3>3, SettleWorker
  <2>6. CASE chat' = chat /\ row.result \in {"retry", "failed"}
    <3>1. CardsStay /\ row.result # "delivered"
      BY <2>1, <2>6, StayUnchanged
    <3> QED
      BY <1>1, <2>1, <2>3, <3>1, SettleWorker
  <2> QED
    BY <2>3, <2>4, <2>5, <2>6
<1> QED
  BY <1>2, <1>3, <1>4 DEF Work, Silent

\* A handler's step that does not change the status; before it stores links no
\* task of the status is there, and no worker has the order.
LEMMA SettleHandler ==
  ASSUME Core, SettleInv, NEW h \in Handlers, NEW row, handler' = [handler EXCEPT ![h] = row],
         UNCHANGED <<status, task, worker>>, races \subseteq races',
         "overtaken" \notin races' => CardsStay,
         link' = link \/ (OrderFree /\ WillStore(h)),
         row.at \in {"greeting", "greeted", "handoff", "storing"} => WillStore(h),
         \/ row.at = "idle"
         \/ WillEdit(h) /\ row.shows = handler[h].shows
         \/ row.at \notin {"handoff", "editing"} /\ row.card = 0
         \/ row.shows = status
  PROVE  SettleInv'
<1>0. Base /\ TypeOK /\ handler \in [Handlers -> HandlerRow]
  BY RowTypes DEF Core, Base
<1>1. handler'[h] = row /\ \A g \in Handlers \ {h} : handler'[g] = handler[g]
  BY <1>0
<1>2. \A g \in Handlers : /\ WillStore(g)' => WillStore(g)
                          /\ WillEdit(g)' => \/ WillEdit(g) /\ handler'[g].shows = handler[g].shows
                                             \/ handler'[g].shows = status
  BY <1>1 DEF WillStore, WillEdit
<1>3. \A w \in Workers : Sent(w)' => Sent(w) /\ HasOrder(w) /\ worker[w].task[2] \in Targets
  BY <1>0, Holding DEF Sent, HasOrder
<1>4. CASE link' = link
  BY <1>2, <1>3, <1>4, SettleNext
<1>5. CASE OrderFree /\ WillStore(h)
  <2>1. \A w \in Workers : ~Sent(w)'
    BY <1>3, <1>5, OrderFreeMeans
  <2>2. \A t \in Targets : status \in Changes /\ task'[<<status, t>>].state = "delivered" =>
           "overtaken" \in races'
    BY <1>5, SettleMeans
  <2> QED
    BY <1>2, <2>1, <2>2, SettleNext
<1> QED
  BY <1>4, <1>5

\* A status change overtakes nobody only when every handler is idle.
LEMMA SettleChanged ==
  ASSUME Core, OrderFree, NEW s \in Successors(status) \cap Changes, UNCHANGED worker,
         status' = s, races' = races \cup Overtakes, task' = task \/ task' = Enqueued(s),
         \/ handler' = handler
         \/ \E h \in Handlers : \E row \in HandlerRow :
               /\ handler' = [handler EXCEPT ![h] = row] /\ row.shows = s
               /\ row.at = "editing" \/ task' = task
  PROVE  SettleInv'
<1>0. Base /\ TypeOK /\ handler \in [Handlers -> HandlerRow]
  BY RowTypes DEF Core, Base
<1>1. s \in After(status) /\ s \in Changes
  BY <1>0, StatusOrder DEF TypeOK
<1>2. ASSUME NEW t \in Targets PROVE task[<<s, t>>].state = "none" /\ <<s, t>> \in Tasks
  BY <1>0, <1>1, NoTaskYet, TaskOf
<1>3. ASSUME NEW t \in Targets PROVE task'[<<s, t>>].state # "delivered"
  <2>1. CASE task' = task
    BY <1>2, <2>1
  <2>2. CASE task' = Enqueued(s)
    <3>1. task'[<<s, t>>] = [NoTask EXCEPT !.state = "pending"]
      BY <1>2, <2>2 DEF Enqueued
    <3> QED
      BY <3>1 DEF NoTask
  <2> QED
    BY <2>1, <2>2
<1>4. \A w \in Workers : ~Sent(w)'
  BY OrderFreeMeans DEF HasOrder, Sent
<1> SUFFICES ASSUME "overtaken" \notin races' PROVE SettleInv'
  BY DEF SettleInv
<1>5. \A h \in Handlers : handler[h].at = "idle"
  BY DEF Overtakes
<1>6. \A h \in Handlers : WillEdit(h)' => handler'[h].shows = s
  BY <1>0, <1>5 DEF WillEdit
<1>7. \A h \in Handlers : WillStore(h)' => task' = task
  BY <1>0, <1>5 DEF WillStore
<1> QED
  BY <1>2, <1>3, <1>4, <1>6, <1>7 DEF SettleInv, Sent

LEMMA SettleHandlers ==
  ASSUME Core, SettleInv, NEW h \in Handlers, Handle(h) \/ LoseLinks(h) \/ Press(h)
  PROVE  SettleInv'
<1>0. Base /\ TypeOK /\ HandlersInv
  BY DEF Core, Base
<1>1. CASE Greet(h)
  <2>1. handler[h].at = "greeting" /\ UNCHANGED <<status, task, worker, link>> /\ races' = races
    BY <1>0, <1>1, GreetEffect
  <2>2. PICK row : GoesOn(h, row, "greeted")
    BY <1>0, <1>1, GreetEffect
  <2>3. CardsStay
    <3>1. CASE \E previous : CardReplaced(previous, "created")
      BY <1>0, <2>1, <3>1, StaySentUser DEF Statuses
    <3>2. CASE chat' = chat
      BY <2>1, <3>2, StayUnchanged
    <3> QED
      BY <1>0, <1>1, <3>1, <3>2, GreetEffect
  <2>4. /\ WillStore(h) /\ row.at = "greeted" /\ handler' = [handler EXCEPT ![h] = row]
        /\ \/ WillEdit(h) /\ row.shows = handler[h].shows
           \/ row.at \notin {"handoff", "editing"} /\ row.card = 0
    BY <2>1, <2>2 DEF WillStore, WillEdit, GoesOn
  <2> QED
    BY <2>1, <2>3, <2>4, SettleHandler
<1>2. CASE StoreGreeting(h)
  <2>1. handler[h].at = "greeted" /\ OrderFree /\ UNCHANGED <<status, task, worker, chat>>
        /\ races' = races
    BY <1>0, <1>2, StoreGreetingEffect
  <2>2. PICK row : GoesOn(h, row, "greeted")
    BY <1>0, <1>2, StoreGreetingEffect
  <2>3. CardsStay
    BY <2>1, StayUnchanged
  <2>4. /\ WillStore(h) /\ row.at = "greeted" /\ handler' = [handler EXCEPT ![h] = row]
        /\ \/ WillEdit(h) /\ row.shows = handler[h].shows
           \/ row.at \notin {"handoff", "editing"} /\ row.card = 0
    BY <2>1, <2>2 DEF WillStore, WillEdit, GoesOn
  <2> QED
    BY <2>1, <2>3, <2>4, SettleHandler
<1>3. CASE Introduce(h)
  <2>1. handler[h].at = "greeted" /\ UNCHANGED <<status, task, worker, link>> /\ races' = races
    BY <1>0, <1>3, IntroduceEffect
  <2>2. PICK row : GoesOn(h, row, "storing")
    BY <1>0, <1>3, IntroduceEffect
  <2>3. CardsStay
    <3>1. CASE CardSent("created", FALSE)
      BY <1>0, <2>1, <3>1, StaySentManager DEF Statuses
    <3>2. CASE chat' = chat
      BY <2>1, <3>2, StayUnchanged
    <3> QED
      BY <1>0, <1>3, <3>1, <3>2, IntroduceEffect
  <2>4. /\ WillStore(h) /\ row.at = "storing" /\ handler' = [handler EXCEPT ![h] = row]
        /\ \/ WillEdit(h) /\ row.shows = handler[h].shows
           \/ row.at \notin {"handoff", "editing"} /\ row.card = 0
    BY <2>1, <2>2 DEF WillStore, WillEdit, GoesOn
  <2> QED
    BY <2>1, <2>3, <2>4, SettleHandler
<1>4. CASE StoreLinks(h) \/ LoseLinks(h)
  <2>1. /\ handler[h].at = "storing" /\ UNCHANGED <<status, chat, task, worker>> /\ races' = races
        /\ IF handler[h].card = 0 THEN Ends(h)
           ELSE handler' = [handler EXCEPT ![h].at = "editing"]
        /\ link' = link \/ OrderFree
    BY <1>4 DEF StoreLinks, LoseLinks
  <2>2. PICK row : /\ handler' = [handler EXCEPT ![h] = row]
                   /\ \/ row = Done
                      \/ /\ row.at = "editing" /\ row.shows = handler[h].shows
                         /\ handler[h].card # 0
    BY <1>0, <2>1, StoredEffect DEF GoesOn
  <2>3. CardsStay
    BY <2>1, StayUnchanged
  <2>4. WillStore(h) /\ (row.at = "idle" \/ (row.at = "editing" /\ WillEdit(h) /\ row.shows = handler[h].shows))
    BY <2>1, <2>2, DoneType DEF WillStore, WillEdit
  <2> QED
    BY <2>1, <2>2, <2>3, <2>4, SettleHandler
<1>5. CASE Handoff(h)
  <2>1. handler[h].at = "handoff" /\ UNCHANGED <<status, task, worker, link>> /\ races' = races
    BY <1>0, <1>5, HandoffEffect
  <2>2. PICK row : /\ handler' = [handler EXCEPT ![h] = row] /\ row.at \in {"storing", "editing"}
                   /\ row.shows = handler[h].shows
                   /\ \/ \E previous : CardReplaced(previous, "processing")
                      \/ chat' = chat
    BY <1>0, <1>5, HandoffEffect DEF GoesOn
  <2>3. CardsStay
    <3>1. CASE \E previous : CardReplaced(previous, "processing")
      BY <1>0, <2>1, <3>1, StaySentUser DEF Statuses
    <3>2. CASE chat' = chat
      BY <2>1, <3>2, StayUnchanged
    <3> QED
      BY <2>2, <3>1, <3>2
  <2>4. WillStore(h) /\ WillEdit(h)
    BY <2>1 DEF WillStore, WillEdit
  <2> QED
    BY <2>1, <2>2, <2>3, <2>4, SettleHandler
<1>6. CASE EditCard(h)
  <2>1. /\ handler[h].at = "editing" /\ UNCHANGED <<status, task, worker, link>> /\ races' = races
        /\ handler' = [handler EXCEPT ![h] = Done]
        /\ handler[h].shows \in Statuses /\ handler[h].notified \in BOOLEAN
        /\ \/ \E id \in DOMAIN chat["manager"] :
                 CardEdited(id, handler[h].shows, handler[h].notified)
           \/ chat' = chat
    BY <1>0, <1>6, EditCardEffect
  <2>2. ASSUME "overtaken" \notin races' PROVE CardsStay
    <3>1. CASE chat' = chat
      BY <2>1, <3>1, StayUnchanged
    <3>2. CASE \E id \in DOMAIN chat["manager"] :
                  CardEdited(id, handler[h].shows, handler[h].notified)
      <4>1. WillEdit(h)
        BY <2>1 DEF WillEdit
      <4>2. handler[h].shows = status
        BY <2>1, <2>2, <4>1, SettleMeans
      <4>3. PICK s \in Statuses, b \in BOOLEAN : s = handler[h].shows /\ b = handler[h].notified
        BY <2>1
      <4> QED
        BY <1>0, <2>1, <3>2, <4>2, <4>3, StayEdited
    <3> QED
      BY <2>1, <3>1, <3>2
  <2> QED
    BY <2>1, <2>2, DoneType, SettleHandler
<1>7. ASSUME NEW card \in DOMAIN chat["manager"], TakeAgain(h, card) PROVE SettleInv'
  <2>1. /\ UNCHANGED <<status, chat, task, worker, link>> /\ races \subseteq races'
        /\ status = "processing"
    BY <1>0, <1>7, TakeAgainEffect
  <2>2. PICK row : /\ handler' = [handler EXCEPT ![h] = row]
                   /\ row.at = "editing" /\ row.shows = "processing"
    BY <1>0, <1>7, TakeAgainEffect
  <2>3. CardsStay
    BY <2>1, StayUnchanged
  <2> QED
    BY <2>1, <2>2, <2>3, SettleHandler
<1>8. ASSUME NEW card \in DOMAIN chat["manager"], Take(h, card) PROVE SettleInv'
  <2>1. /\ UNCHANGED <<worker, task>> /\ status' = "processing" /\ "processing" \in Changes
        /\ races' = races \cup Overtakes /\ OrderFree
    BY <1>0, <1>8, TakeEffect
  <2>2. "processing" \in Successors(status)
    BY <1>0, <1>8, TakeEffect DEF Successors
  <2>3. \E row \in HandlerRow : handler' = [handler EXCEPT ![h] = row] /\ row.shows = "processing"
    BY <1>0, <1>8, TakeEffect
  <2> QED
    BY <2>1, <2>2, <2>3, SettleChanged
<1>9. ASSUME NEW card \in DOMAIN chat["manager"], NEW s \in Statuses, Close(h, s, card)
      PROVE  SettleInv'
  <2>1. /\ UNCHANGED worker /\ status' = s /\ task' = Enqueued(s)
        /\ s \in Successors(status) \cap Changes
        /\ races' = races \cup Overtakes /\ OrderFree
    BY <1>0, <1>9, CloseEffect
  <2>2. \E row \in HandlerRow : /\ handler' = [handler EXCEPT ![h] = row]
                                /\ row.at = "editing" /\ row.shows = s
    BY <1>0, <1>9, CloseEffect
  <2> QED
    BY <2>1, <2>2, SettleChanged
<1> QED
  BY <1>1, <1>2, <1>3, <1>4, <1>5, <1>6, <1>7, <1>8, <1>9 DEF Handle, Press

LEMMA SettleStep ==
  ASSUME Core, SettleInv, [Next]_vars
  PROVE  SettleInv'
<1>0. Base /\ TypeOK
  BY DEF Core, Base
<1>1. ASSUME UNCHANGED <<status, worker, link, handler>>, races \subseteq races', CardsStay,
             \A k \in Tasks : task'[k].state = task[k].state
      PROVE  SettleInv'
  <2>1. \A w \in Workers : Sent(w)' => Sent(w) /\ worker[w].task[2] \in Targets
    BY <1>0, <1>1, Holding DEF Sent, HasOrder
  <2>2. \A h \in Handlers : /\ WillStore(h)' => WillStore(h)
                            /\ WillEdit(h)' => WillEdit(h) /\ handler'[h].shows = handler[h].shows
    BY <1>1 DEF WillStore, WillEdit
  <2>3. \A t \in Targets : status \in Changes =>
           task'[<<status, t>>].state = task[<<status, t>>].state
    BY <1>1, TaskOf
  <2> QED
    BY <1>1, <2>1, <2>2, <2>3, SettleNext
<1>2. ASSUME NEW k \in Tasks, LeaseEnds(k) PROVE SettleInv'
  <2>1. UNCHANGED <<status, chat, worker, handler, link>> /\ races \subseteq races'
        /\ task' = [task EXCEPT ![k].leased = FALSE]
    BY <1>2 DEF LeaseEnds
  <2>2. \A j \in Tasks : task'[j].state = task[j].state
    BY <1>0, <2>1, RowTypes DEF TaskRow
  <2> QED
    BY <1>1, <2>1, <2>2, StayUnchanged
<1>3. ASSUME NEW s \in Statuses, ChangeByWeb(s) PROVE SettleInv'
  <2>1. /\ s \in Successors(status) \cap Changes /\ status' = s /\ task' = Enqueued(s)
        /\ UNCHANGED worker /\ handler' = handler /\ races' = races \cup Overtakes /\ OrderFree
    BY <1>3 DEF ChangeByWeb, Changed
  <2> QED
    BY <2>1, SettleChanged
<1>4. ASSUME NEW id, DeleteCard(id) PROVE SettleInv'
  <2>1. /\ UNCHANGED <<status, task, worker, handler, link>> /\ races' = races
        /\ chat' = [chat EXCEPT !["manager"] = Removed(@, id)]
    BY <1>4 DEF DeleteCard
  <2> QED
    BY <1>0, <1>1, <2>1, StayRemoved
<1>5. CASE UNCHANGED vars
  <2>1. UNCHANGED <<status, chat, task, worker, handler, link>> /\ races' = races
    BY <1>5 DEF vars
  <2> QED
    BY <1>1, <2>1, StayUnchanged
<1> QED
  BY <1>2, <1>3, <1>4, <1>5, SettleWork, SettleHandlers DEF Next

----------------------------------------------------------------------------
(* The theorems. *)

LEMMA CardsInit == Init => CardsInv
<1> SUFFICES ASSUME Init PROVE CardsInv
  OBVIOUS
<1>1. Base /\ HandlersInv
  BY BaseInit
<1>2. /\ chat["user"] = <<>> /\ chat["manager"] = <<>> /\ faults = 0 /\ status = "created"
      /\ \A k \in Tasks : task[k].state = "none"
      /\ \A w \in Workers : worker[w].at = "idle"
      /\ \A h \in Handlers :
            /\ handler[h].at = (IF h = Creator THEN "greeting" ELSE "idle")
            /\ handler[h].shows = "none" /\ handler[h].card = 0
  BY DEF Init, Targets, NoTask, Idle, Done
<1>3. \A s : CardsShowing("user", s) = {} /\ CardsShowing("manager", s) = {}
  BY <1>2 DEF CardsShowing
<1>4. \A s : Cards(s) = 0
  BY <1>3, FS_EmptySet DEF Cards
<1>5. \A s \in Changes, t \in Targets : task[<<s, t>>].state = "none"
  BY <1>2, TaskOf
<1>6. CountInv
  BY <1>2, <1>4, <1>5, CountMeans DEF Open, Targets
<1>7. HonestInv
  <2>1. "processing" \in Changes => task[<<"processing", "user">>].state = "none"
    BY <1>5 DEF Targets
  <2>2. \A i : ~Claims(i)
    BY <1>3 DEF Claims
  <2> QED
    BY <1>2, <2>1, <2>2, HonestMeans DEF Delivered
<1>8. SettleInv
  <2>1. \A h \in Handlers : ~WillEdit(h)
    BY <1>2 DEF WillEdit
  <2> QED
    BY <1>2, <1>5, <2>1, SettleMeans DEF Sent
<1> QED
  BY <1>1, <1>6, <1>7, <1>8 DEF CardsInv, Base

\* All of it is inductive: row locks, tasks, what handlers have in memory, and
\* what the two chats show.
THEOREM CardsCorrect == Spec => []CardsInv
<1>1. Init => CardsInv
  BY CardsInit
<1>2. CardsInv /\ [Next]_vars => CardsInv'
  <2> SUFFICES ASSUME CardsInv, [Next]_vars PROVE CardsInv'
    OBVIOUS
  <2>1. Core /\ CountInv /\ HonestInv /\ SettleInv
    BY DEF CardsInv, Core, Base
  <2>2. Base' /\ HandlersInv'
    BY <2>1, BaseStep DEF Core
  <2>3. CountInv' /\ HonestInv' /\ SettleInv'
    BY <2>1, CountStep, HonestStep, SettleStep
  <2> QED
    BY <2>2, <2>3 DEF CardsInv, Base
<1> QED
  BY <1>1, <1>2, PTL DEF Spec

\* The type of every variable, whatever workers and handlers do.
THEOREM CardTypeCorrect == Spec => []TypeOK
<1>1. CardsInv => TypeOK
  BY DEF CardsInv
<1> QED
  BY <1>1, CardsCorrect, PTL

\* Of two workers with the same task the one that lost the claim sends nothing:
\* a status is told to the customer once more than there were faults, at most.
THEOREM DuplicatesCorrect == Spec => []DuplicatesExplained
<1>1. CardsInv => DuplicatesExplained
  BY DEF CardsInv, CountInv
<1> QED
  BY <1>1, CardsCorrect, PTL

\* A manager's card that says the customer knows follows a card the customer was
\* sent, whichever of the outbox and the handlers wrote either.
THEOREM HonestCorrect == Spec => []CardIsHonest
<1>1. CardsInv => CardIsHonest
  BY DEF CardsInv, HonestInv
<1> QED
  BY <1>1, CardsCorrect, PTL

\* A delivered task leaves the stored card showing the order's status, unless a
\* status change overtook a handler on its way to Telegram.
THEOREM SettleCorrect == Spec => []CardsSettle
<1>1. ASSUME CardsInv PROVE CardsSettle
  <2> SUFFICES ASSUME "overtaken" \notin races, NEW t \in Targets, status \in Changes,
                      task[<<status, t>>].state = "delivered"
               PROVE  /\ link[t] \in DOMAIN chat[t]
                      /\ Alive(t, link[t]) => chat[t][link[t]].shows = status
    BY DEF CardsSettle
  <2>1. Shows(t, link[t], status)
    BY <1>1 DEF CardsInv, SettleInv
  <2> QED
    BY <2>1 DEF Shows, Alive
<1> QED
  BY <1>1, CardsCorrect, PTL
=============================================================================
