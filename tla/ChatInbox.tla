------------------------------ MODULE ChatInbox ------------------------------
(***************************************************************************)
(* What the customers write to the bot: the feed of updates that one or    *)
(* more polling processes read and confirm (src/app/telegram/bot.py), the  *)
(* capture of messages and edits into the conversation with the manager    *)
(* (telegram/handlers/chat.py, services/chat.py, repositories/chat.py),    *)
(* the unread counter the manager clears, and the one notification the     *)
(* manager has in Telegram while the Mini App is closed.  One customer,    *)
(* one manager, one conversation.  A row is written when its transaction   *)
(* commits, where the unique index decides between two writers.            *)
(***************************************************************************)
EXTENDS Naturals, FiniteSets, Sequences

CONSTANTS Processes, Messages,
          Updates,    \* the updates of the feed, in the order Telegram numbers them
          Faults,     \* what may go wrong in this instance
          MaxFaults   \* bound: how often

ASSUME InboxConstants ==
    /\ Updates \in Seq([kind : {"new", "edit", "other"}, message : Messages, date : Nat])
    /\ MaxFaults \in Nat
    /\ Faults \subseteq {"crash", "capture", "publish", "conflict", "send", "redis", "delete"}

\* Telegram's part: a new message has no edit yet (edit_date is None), and the feed has
\* the edits of a message in the order in which they were made.
ASSUME FeedInOrder ==
    \A i \in DOMAIN Updates :
        /\ Updates[i].kind = "new" => Updates[i].date = 0
        /\ \A j \in DOMAIN Updates :
              /\ i < j /\ Updates[i].message = Updates[j].message
              /\ Updates[i].kind # "other" /\ Updates[j].kind # "other"
              => Updates[i].date <= Updates[j].date

VARIABLES
    arrived,    \* how many updates Telegram has received
    confirmed,  \* how many of them it will not deliver again
    step,       \* where each process is
    at, last,   \* the update each process handles and the last one of its batch
    own,        \* what the handler of each process knows: see LookAtManager, Send and Swap
    stored,     \* the update whose content each stored message has (0: not stored)
    unread,     \* chat_conversations.unread_count
    pending,    \* history: the messages counted since the counter was cleared
    reading,    \* the counter as a request to mark the conversation read loaded it
    online, viewing,  \* the manager's Mini App is open, and shows the conversation
    key,        \* the Redis key with the last notification (0: none)
    shown,      \* the notifications in the manager's chat
    nextId,     \* the number Telegram gives to the next notification
    faults

feed == <<arrived, confirmed>>
desk == <<online, viewing>>
chat == <<stored, unread, pending>>
notices == <<key, shown, nextId>>
vars == <<feed, step, at, last, own, notices, chat, reading, desk, faults>>

Steps == {"off", "polling", "handling", "unknown", "edited", "inserting", "counting",
          "publishing", "sent", "swapped"}
Ids == 0..(Len(Updates) + 1)

TypeOK ==
    /\ arrived \in Ids /\ confirmed \in 0..arrived
    /\ step \in [Processes -> Steps]
    /\ at \in [Processes -> Ids] /\ last \in [Processes -> Ids]
    /\ own \in [Processes -> Nat]
    /\ stored \in [Messages -> Ids]
    /\ unread \in Nat /\ pending \subseteq Messages
    /\ reading \in Seq(Nat) /\ Len(reading) <= 1
    /\ online \in BOOLEAN /\ viewing \in BOOLEAN /\ (viewing => online)
    /\ key \in Nat /\ shown \subseteq Nat /\ nextId \in Nat
    /\ faults \in 0..MaxFaults

Init ==
    /\ arrived = 0 /\ confirmed = 0
    /\ step = [p \in Processes |-> "off"]
    /\ at = [p \in Processes |-> 0] /\ last = [p \in Processes |-> 0]
    /\ own = [p \in Processes |-> 0]
    /\ stored = [m \in Messages |-> 0]
    /\ unread = 0 /\ pending = {} /\ reading = <<>>
    /\ online = FALSE /\ viewing = FALSE
    /\ key = 0 /\ shown = {} /\ nextId = 1
    /\ faults = 0

Fault(kind) == kind \in Faults /\ faults < MaxFaults /\ faults' = faults + 1
Fine == UNCHANGED faults

Goes(p, s) == step' = [step EXCEPT ![p] = s]
Handled(p) == Updates[at[p]]
Mine(p) == Handled(p).message

----------------------------------------------------------------------------
(* The feed. *)

Arrive ==
    /\ arrived < Len(Updates)
    /\ arrived' = arrived + 1
    /\ Fine /\ UNCHANGED <<confirmed, step, at, last, own, notices, chat, reading, desk>>

\* A call of dp.start_polling begins without an offset.
Fresh(p) ==
    /\ Goes(p, "polling")
    /\ at' = [at EXCEPT ![p] = 0] /\ last' = [last EXCEPT ![p] = 0]
    /\ own' = [own EXCEPT ![p] = 0]

Start(p) ==
    /\ step[p] = "off" /\ Fresh(p)
    /\ Fine /\ UNCHANGED <<feed, notices, chat, reading, desk>>

\* getUpdates: the offset confirms what lies before it, the answer is what lies behind.
Confirmed(p) == IF at[p] > confirmed THEN at[p] - 1 ELSE confirmed

Fetch(p) ==
    /\ step[p] = "polling"
    /\ confirmed' = Confirmed(p)
    /\ IF confirmed' < arrived
       THEN /\ Goes(p, "handling")
            /\ at' = [at EXCEPT ![p] = confirmed' + 1]
            /\ last' = [last EXCEPT ![p] = arrived]
       ELSE UNCHANGED <<step, at, last>>
    /\ Fine /\ UNCHANGED <<arrived, own, notices, chat, reading, desk>>

\* Two processes poll: one of them gets a conflict and starts again.
Conflict(p) ==
    /\ step[p] = "polling" /\ \E q \in Processes \ {p} : step[q] = "polling"
    /\ Fault("conflict") /\ Fresh(p)
    /\ UNCHANGED <<feed, notices, chat, reading, desk>>

\* The handler returned: the next update of the batch, or the next call of getUpdates.
Done(p) ==
    /\ at' = [at EXCEPT ![p] = @ + 1]
    /\ Goes(p, IF at[p] = last[p] THEN "polling" ELSE "handling")
    /\ own' = [own EXCEPT ![p] = 0] /\ last' = [last EXCEPT ![p] = IF at[p] = @ THEN 0 ELSE @]

\* Mutant: the dispatcher swallows the retry marker like any other exception.
RetriedNot(p) == Done(p)

\* The retry marker ends start_polling before the update is confirmed; so is the
\* rest of the batch, which is delivered again.
Retried(p) == Fresh(p)

\* A command, a message of the staff, a step of another dialog.  A handler that
\* fails there is logged and the update counts as handled.
Elsewhere(p) ==
    /\ step[p] = "handling" /\ Handled(p).kind = "other"
    /\ Done(p)
    /\ Fine /\ UNCHANGED <<feed, notices, chat, reading, desk>>

----------------------------------------------------------------------------
(* Capture. *)

\* Mutant: nobody looks whether the message is stored already.
KnownNever(m) == FALSE

Known(m) == stored[m] # 0

\* Mutant: an edit is written whatever its date.
OutdatedNever(p) == FALSE

\* The stored content is of a later edit.
Outdated(p) == Handled(p).date < Updates[stored[Mine(p)]].date

\* capture_edit locks the message, and its handler commits.
CaptureEdit(p) ==
    /\ step[p] = "handling" /\ Handled(p).kind = "edit"
    /\ IF stored[Mine(p)] # 0
       THEN /\ stored' = [stored EXCEPT ![Mine(p)] = IF Outdated(p) THEN @ ELSE at[p]]
            /\ Goes(p, "edited")
       ELSE Goes(p, "unknown") /\ UNCHANGED stored
    /\ Fine /\ UNCHANGED <<feed, at, last, own, notices, unread, pending, reading, desk>>

\* publish_message_updated reads the conversation and wakes the open Mini App.
PublishEdit(p) ==
    /\ step[p] = "edited" /\ Done(p)
    /\ Fine /\ UNCHANGED <<feed, notices, chat, reading, desk>>

\* Mutant: a message that is delivered again is counted again.
RecountedKnown == unread + 1

\* What the counter is after a delivery of a message that is stored already.
CountedKnown == unread

\* capture_inbound, with an edit of a message that is not stored as well.
CaptureInbound(p) ==
    /\ \/ step[p] = "handling" /\ Handled(p).kind = "new"
       \/ step[p] = "unknown"
    /\ IF Known(Mine(p))
       THEN Done(p) /\ unread' = CountedKnown
       ELSE Goes(p, "inserting") /\ UNCHANGED <<at, last, own, unread>>
    /\ Fine /\ UNCHANGED <<feed, notices, stored, pending, reading, desk>>

\* The manager who has the conversation open reads the message as it comes.
LookAtManager(p) ==
    /\ step[p] = "inserting" /\ Goes(p, "counting")
    /\ own' = [own EXCEPT ![p] = IF viewing THEN 0 ELSE 1]
    /\ Fine /\ UNCHANGED <<feed, at, last, notices, chat, reading, desk>>

\* touch_inbound increases the counter in SQL, not the one it has read.
Counted(p) == unread + own[p]

\* The commit makes message and counter visible.
Commit(p) ==
    /\ step[p] = "counting" /\ stored[Mine(p)] = 0
    /\ stored' = [stored EXCEPT ![Mine(p)] = at[p]]
    /\ unread' = Counted(p)
    /\ pending' = IF own[p] = 1 THEN pending \cup {Mine(p)} ELSE pending
    /\ Goes(p, "publishing") /\ own' = [own EXCEPT ![p] = 0]
    /\ Fine /\ UNCHANGED <<feed, at, last, notices, reading, desk>>

\* Another process stored the message: the unique index refuses it.
Refused(p) ==
    /\ step[p] = "counting" /\ stored[Mine(p)] # 0
    /\ Retried(p)
    /\ Fine /\ UNCHANGED <<feed, notices, chat, reading, desk>>

\* Any exception before the commit rolls back; one after it, outside of the guarded
\* calls, asks for the update again too.
CaptureFails(p) ==
    /\ \/ /\ step[p] \in {"handling", "unknown", "inserting", "counting"}
          /\ Handled(p).kind # "other" /\ Fault("capture")
       \/ step[p] \in {"edited", "publishing"} /\ Fault("publish")
    /\ Retried(p)
    /\ UNCHANGED <<feed, notices, chat, reading, desk>>

----------------------------------------------------------------------------
(* The notification of the manager. *)

\* The Mini App is open: it is woken and nothing is sent.
Wake(p) ==
    /\ step[p] = "publishing" /\ online /\ Done(p)
    /\ Fine /\ UNCHANGED <<feed, notices, chat, reading, desk>>

Send(p) ==
    /\ step[p] = "publishing" /\ ~online
    /\ own' = [own EXCEPT ![p] = nextId]
    /\ shown' = shown \cup {nextId} /\ nextId' = nextId + 1
    /\ Goes(p, "sent")
    /\ Fine /\ UNCHANGED <<feed, at, last, key, chat, reading, desk>>

\* Mutant: only a notification with a smaller number is taken for an older one.
ReplacedOlder(p) == key # 0 /\ key < own[p]

\* SET ... GET returned another notification.
Replaced(p) == key # 0 /\ key # own[p]

Swap(p) ==
    /\ step[p] = "sent"
    /\ key' = own[p]
    /\ IF Replaced(p)
       THEN own' = [own EXCEPT ![p] = key] /\ Goes(p, "swapped") /\ UNCHANGED <<at, last>>
       ELSE Done(p)
    /\ Fine /\ UNCHANGED <<feed, shown, nextId, chat, reading, desk>>

Delete(p) ==
    /\ step[p] = "swapped"
    /\ shown' = shown \ {own[p]}
    /\ Done(p)
    /\ Fine /\ UNCHANGED <<feed, key, nextId, chat, reading, desk>>

\* Failures of Telegram and Redis here are logged and that is all.
NoticeFails(p) ==
    /\ \/ step[p] = "publishing" /\ ~online /\ Fault("send")
       \/ step[p] = "sent" /\ Fault("redis")
       \/ step[p] = "swapped" /\ Fault("delete")
    /\ Done(p)
    /\ UNCHANGED <<feed, notices, chat, reading, desk>>

Crash(p) ==
    /\ step[p] # "off" /\ Fault("crash")
    /\ Goes(p, "off")
    /\ at' = [at EXCEPT ![p] = 0] /\ last' = [last EXCEPT ![p] = 0] /\ own' = [own EXCEPT ![p] = 0]
    /\ UNCHANGED <<feed, notices, chat, reading, desk>>

----------------------------------------------------------------------------
(* The manager. *)

\* POST /manager/chats/{id}/read loads the conversation,
BeginRead ==
    /\ reading = <<>> /\ reading' = <<unread>>
    /\ Fine /\ UNCHANGED <<feed, step, at, last, own, notices, chat, desk>>

\* and clears the counter where the loaded one was not 0: also of the messages that
\* came in between.
EndRead ==
    /\ reading # <<>> /\ reading' = <<>>
    /\ IF Head(reading) # 0 THEN unread' = 0 /\ pending' = {} ELSE UNCHANGED <<unread, pending>>
    /\ Fine /\ UNCHANGED <<feed, step, at, last, own, notices, stored, desk>>

\* The stream registers the manager's presence and drops it when it is closed; when
\* its process dies the keys expire.
Stream ==
    /\ online' = ~online /\ viewing' = FALSE
    /\ Fine /\ UNCHANGED <<feed, step, at, last, own, notices, chat, reading>>

\* PUT /manager/realtime/viewing
View ==
    /\ online /\ viewing' = ~viewing
    /\ Fine /\ UNCHANGED <<feed, step, at, last, own, notices, chat, reading, online>>

----------------------------------------------------------------------------
Handle(p) ==
    \/ Elsewhere(p) \/ CaptureEdit(p) \/ PublishEdit(p) \/ CaptureInbound(p)
    \/ LookAtManager(p) \/ Commit(p) \/ Refused(p) \/ Wake(p) \/ Send(p) \/ Swap(p) \/ Delete(p)

Next ==
    \/ Arrive \/ BeginRead \/ EndRead \/ Stream \/ View
    \/ \E p \in Processes :
          \/ Start(p) \/ Fetch(p) \/ Conflict(p) \/ Handle(p)
          \/ CaptureFails(p) \/ NoticeFails(p) \/ Crash(p)

Spec == Init /\ [][Next]_vars

\* Processes are started again, and a process goes on with what it does.
FairSpec ==
    Spec /\ \A p \in Processes : WF_vars(Start(p)) /\ WF_vars(Fetch(p)) /\ WF_vars(Handle(p))

----------------------------------------------------------------------------
\* What Telegram will not deliver again is stored, in the latest edit that was
\* confirmed, whatever failed, crashed or was handled twice on the way.
ConfirmedIsKept ==
    \A i \in 1..confirmed :
        Updates[i].kind # "other" =>
            LET kept == stored[Updates[i].message]
            IN  kept # 0 /\ Updates[kept].date >= Updates[i].date

\* The counter is the number of messages, each once, that came while the manager did
\* not look and that no clearing has swept away.
UnreadExplained ==
    unread = Cardinality(pending) /\ \A m \in pending : stored[m] # 0

\* When no process is in the middle of it, and as long as nothing failed, the manager
\* has at most one notification, and Redis knows it.
OneNotification ==
    faults = 0 /\ (\A p \in Processes : step[p] \notin {"sent", "swapped"}) =>
        shown \subseteq {key}

\* Every update Telegram received is confirmed at last: no update stops the feed
\* when failures come to an end.
FeedDrains == []<>(confirmed = arrived)
=============================================================================
