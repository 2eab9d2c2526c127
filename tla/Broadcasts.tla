----------------------------- MODULE Broadcasts -----------------------------
(***************************************************************************)
(* Broadcasts to all users (modules/broadcasts): a campaign is created by  *)
(* an administrator, delivered by a task of the process that created it    *)
(* through a bounded queue and a few workers, stopped on demand, and       *)
(* closed at the start of a process when a previous one has left it open.  *)
(* During a deployment two processes may be up for a while.                *)
(*                                                                         *)
(* Code between two awaits runs alone; a worker waiting for processed_lock *)
(* is one whose step is disabled while another worker stores the progress. *)
(***************************************************************************)
EXTENDS Integers, Sequences, FiniteSets

CONSTANTS
    Campaigns,   \* the campaigns that may be created
    Processes,   \* processes of the application
    First,       \* the one that is up at the beginning
    Workers,     \* workers of a campaign (worker_count)
    QueueSize,   \* 2 * worker_count
    Audience,    \* number of recipients
    Batch,       \* DEFAULT_PROGRESS_BATCH_SIZE
    Failures,    \* what may go wrong: "refused", "lost", "broken", "paid",
                 \* "progress", "fetch", "commit", "exit"
    NoOne

ASSUME BroadcastConstants ==
    /\ First \in Processes
    /\ NoOne \notin Processes
    /\ Workers # {} /\ IsFiniteSet(Workers)
    /\ QueueSize \in Nat \ {0}
    /\ Audience \in Nat
    /\ Batch \in Nat \ {0}
    /\ Failures \subseteq {"refused", "lost", "broken", "paid",
                           "progress", "fetch", "commit", "exit"}

VARIABLES
    up,       \* the processes that are up
    row,      \* Campaigns -> the Broadcasts row: [status, success, failed]
    run,      \* Campaigns -> the task: [at, process, next, left, queue, success, failed, result]
    worker,   \* Campaigns -> Workers -> [at, item, outcome]
    stopper,  \* Campaigns -> the stop request in progress: [at, process]
    got,      \* Campaigns -> recipient -> how many messages he got
    stuck,    \* history: campaigns whose worker died, whose last commit failed or whose
              \* process ended while another one was up
    orphaned, \* history: campaigns closed with a task that was not found: it belongs to
              \* another process or was not scheduled yet
    late      \* history: campaigns that were closed while a stop request was at work

vars == <<up, row, run, worker, stopper, got, stuck, orphaned, late>>

Active == {"pending", "running"}
Final == {"completed", "failed", "stopped"}
Recipients == 1..Audience
Stop == 0   \* the None that tells a worker to end

NoRow == [status |-> "absent", success |-> 0, failed |-> 0]
NoCounts == [success |-> 0, failed |-> 0]
NoResult == [success |-> -1, failed |-> -1]
NoRun == [at |-> "none", process |-> NoOne, next |-> 1, left |-> 0, queue |-> <<>>,
          success |-> 0, failed |-> 0, result |-> NoResult]
Waiting == [at |-> "get", item |-> Stop, outcome |-> "none"]
NoWorker == [at |-> "none", item |-> Stop, outcome |-> "none"]
NoStopper == [at |-> "none", process |-> NoOne]

Delivering == {"fetching", "putting", "stopping", "joining"}

May(failure) == failure \in Failures

Init ==
    /\ up = {First}
    /\ row = [c \in Campaigns |-> NoRow]
    /\ run = [c \in Campaigns |-> NoRun]
    /\ worker = [c \in Campaigns |-> [w \in Workers |-> NoWorker]]
    /\ stopper = [c \in Campaigns |-> NoStopper]
    /\ got = [c \in Campaigns |-> [i \in Recipients |-> 0]]
    /\ stuck = {}
    /\ orphaned = {}
    /\ late = {}

----------------------------------------------------------------------------
(* The campaign's task. *)

Goes(c, place) == run' = [run EXCEPT ![c].at = place]

\* A task that ends takes its workers with it.
TaskEnds(c) ==
    /\ run' = [run EXCEPT ![c] = NoRun]
    /\ worker' = [worker EXCEPT ![c] = [w \in Workers |-> NoWorker]]

\* uq_broadcast_active_singleton
NoOtherActive(c) == \A d \in Campaigns \ {c} : row[d].status \notin Active

Create(p, c) ==
    /\ p \in up
    /\ row[c].status = "absent"
    /\ NoOtherActive(c)
    /\ row' = [row EXCEPT ![c].status = "pending"]
    /\ run' = [run EXCEPT ![c].at = "created", ![c].process = p]
    /\ UNCHANGED <<up, worker, stopper, got, stuck, orphaned, late>>

Schedule(c) ==
    /\ run[c].at = "created"
    /\ Goes(c, "scheduled")
    /\ UNCHANGED <<up, row, worker, stopper, got, stuck, orphaned, late>>

\* Faulty: whether the campaign is closed is not looked at.
Known(c) == row[c].status # "absent"

Open(c) == row[c].status \in Active

\* The row is read, then the recipients are counted.
LookAtRow(c) ==
    /\ run[c].at = "scheduled"
    /\ IF Open(c)
       THEN Goes(c, "counted") /\ UNCHANGED worker
       ELSE TaskEnds(c)
    /\ UNCHANGED <<up, row, stopper, got, stuck, orphaned, late>>

\* mark_running, whatever has become of the row; the index may object.
Begin(c) ==
    /\ run[c].at = "counted"
    /\ \/ /\ NoOtherActive(c)
          /\ row' = [row EXCEPT ![c].status = "running"]
          /\ Goes(c, "fetching")
          /\ worker' = [worker EXCEPT ![c] = [w \in Workers |-> Waiting]]
          /\ UNCHANGED stuck
       \/ /\ ~NoOtherActive(c) \/ May("commit")
          /\ TaskEnds(c)
          /\ stuck' = stuck \cup {c}
          /\ UNCHANGED row
    /\ UNCHANGED <<up, stopper, got, orphaned, late>>

\* An exception of the delivery closes the campaign as failed, with these counts.
Raises(c, counts) == run' = [run EXCEPT ![c].at = "failing", ![c].result = counts]

WorkersEnd(c) == worker' = [worker EXCEPT ![c] = [w \in Workers |-> NoWorker]]

\* The next recipient; none after the last one or after a fatal error.
Fetch(c) ==
    /\ run[c].at = "fetching"
    /\ \/ /\ run[c].next <= Audience /\ run[c].result = NoResult
          /\ Goes(c, "putting")
          /\ UNCHANGED worker
       \/ /\ run[c].next > Audience \/ run[c].result # NoResult
          /\ run' = [run EXCEPT ![c].at = "stopping", ![c].left = Cardinality(Workers)]
          /\ UNCHANGED worker
       \/ May("fetch") /\ Raises(c, NoCounts) /\ WorkersEnd(c)
    /\ UNCHANGED <<up, row, stopper, got, stuck, orphaned, late>>

HasRoom(c) == Len(run[c].queue) < QueueSize

Put(c) ==
    /\ run[c].at = "putting"
    /\ HasRoom(c)
    /\ run' = [run EXCEPT ![c].at = "fetching", ![c].queue = Append(@, run[c].next),
                          ![c].next = @ + 1]
    /\ UNCHANGED <<up, row, worker, stopper, got, stuck, orphaned, late>>

PutStop(c) ==
    /\ run[c].at = "stopping"
    /\ HasRoom(c)
    /\ run' = [run EXCEPT ![c].queue = Append(@, Stop), ![c].left = @ - 1,
                          ![c].at = IF run[c].left = 1 THEN "joining" ELSE @]
    /\ UNCHANGED <<up, row, worker, stopper, got, stuck, orphaned, late>>

\* recipient_queue.join: every item was taken and done with.
AllDone(c) == \A w \in Workers : worker[c][w].at \in {"get", "over", "dead"}

\* Faulty: the fatal error is forgotten.
NoVerdict(c) == "reporting"

Verdict(c) == IF run[c].result = NoResult THEN "reporting" ELSE "failing"

\* The workers are cancelled; one that has died raises what it died of.
Join(c) ==
    /\ run[c].at = "joining"
    /\ run[c].queue = <<>>
    /\ AllDone(c)
    /\ IF \E w \in Workers : worker[c][w].at = "dead"
       THEN Raises(c, NoCounts)
       ELSE Goes(c, Verdict(c))
    /\ WorkersEnd(c)
    /\ UNCHANGED <<up, row, stopper, got, stuck, orphaned, late>>

\* The counters of the task, in the row while the campaign is active.
Stored(c) ==
    IF row[c].status \in Active
    THEN [row EXCEPT ![c].success = run[c].success, ![c].failed = run[c].failed]
    ELSE row

\* maybe_emit_progress(force=True)
Report(c) ==
    /\ run[c].at = "reporting"
    /\ \/ /\ row' = Stored(c)
          /\ run' = [run EXCEPT ![c].at = "completing",
                                ![c].result = [success |-> run[c].success,
                                               failed |-> run[c].failed]]
       \/ May("progress") /\ Raises(c, NoCounts) /\ UNCHANGED row
    /\ UNCHANGED <<up, worker, stopper, got, stuck, orphaned, late>>

Closing == {"completing", "failing"}
ClosedAs(place) == IF place \in {"completing", "completed"} THEN "completed" ELSE "failed"

\* The row is read again: only an active one is closed.
LookAgain(c) ==
    /\ run[c].at \in Closing
    /\ IF row[c].status \in Active
       THEN Goes(c, ClosedAs(run[c].at)) /\ UNCHANGED worker
       ELSE TaskEnds(c)
    /\ UNCHANGED <<up, row, stopper, got, stuck, orphaned, late>>

\* Whether a stop request that found the campaign active is still at work.
Late(c) == IF stopper[c].at # "none" THEN {c} ELSE {}

\* mark_completed, mark_failed
Close(c) ==
    /\ run[c].at \in {"completed", "failed"}
    /\ \/ /\ row' = [row EXCEPT ![c] = [status |-> run[c].at,
                                        success |-> run[c].result.success,
                                        failed |-> run[c].result.failed]]
          /\ late' = late \cup Late(c)
          /\ UNCHANGED stuck
       \/ May("commit") /\ stuck' = stuck \cup {c} /\ UNCHANGED <<row, late>>
    /\ TaskEnds(c)
    /\ UNCHANGED <<up, stopper, got, orphaned>>

----------------------------------------------------------------------------
(* The workers. *)

Becomes(c, w, place) == worker' = [worker EXCEPT ![c][w].at = place]

\* Faulty: a worker ends when it learns of a fatal error.
Quit(c, w) == Becomes(c, w, "over")

\* After a fatal error the items are only taken away.
Discard(c, w) == UNCHANGED worker

Get(c, w) ==
    LET item == Head(run[c].queue)
    IN  /\ worker[c][w].at = "get"
        /\ run[c].queue # <<>>
        /\ run' = [run EXCEPT ![c].queue = Tail(@)]
        /\ IF item = Stop THEN Becomes(c, w, "over")
           ELSE IF run[c].result # NoResult THEN Discard(c, w)
           ELSE worker' = [worker EXCEPT ![c][w].at = "sending", ![c][w].item = item]
        /\ UNCHANGED <<up, row, stopper, got, stuck, orphaned, late>>

\* Faulty: a delivery whose answer was lost is tried again.
LostRetried(c, w) == worker' = [worker EXCEPT ![c][w].at = "sending"]

\* TelegramAPIError: whatever has become of the message, it counts as failed.
LostCounted(c, w) ==
    worker' = [worker EXCEPT ![c][w].at = "counting", ![c][w].outcome = "refused"]

Outcome(c, w, outcome) ==
    worker' = [worker EXCEPT ![c][w].at = "counting", ![c][w].outcome = outcome]

Delivered(c, w) == got' = [got EXCEPT ![c][worker[c][w].item] = @ + 1]

Dies(c, w) == Becomes(c, w, "dead") /\ stuck' = stuck \cup {c}

\* A flood limit (TelegramRetryAfter) only takes time.
Send(c, w) ==
    /\ worker[c][w].at = "sending"
    /\ \/ Delivered(c, w) /\ Outcome(c, w, "accepted") /\ UNCHANGED stuck
       \/ May("refused") /\ Outcome(c, w, "refused") /\ UNCHANGED <<got, stuck>>
       \/ May("lost") /\ Delivered(c, w) /\ LostCounted(c, w) /\ UNCHANGED stuck
       \/ May("broken") /\ Outcome(c, w, "broken") /\ UNCHANGED <<got, stuck>>
       \/ May("paid") /\ Dies(c, w) /\ UNCHANGED got
    /\ UNCHANGED <<up, row, run, stopper, orphaned, late>>

LockFree(c) == \A w \in Workers : worker[c][w].at # "persisting"

\* What a worker does when its recipient has been counted.
AfterCount(outcome) == IF outcome = "broken" THEN "registering" ELSE "get"

\* Faulty: whatever was tried is a success.
TallyTried(c, outcome) == run' = [run EXCEPT ![c].success = @ + 1]

Tally(c, outcome) ==
    run' = IF outcome = "accepted" THEN [run EXCEPT ![c].success = @ + 1]
                                   ELSE [run EXCEPT ![c].failed = @ + 1]

\* mark_success, mark_failure; every Batch recipients the progress is stored.
Count(c, w) ==
    LET outcome == worker[c][w].outcome
        total == run[c].success + run[c].failed + 1
    IN  /\ worker[c][w].at = "counting"
        /\ LockFree(c)
        /\ Tally(c, outcome)
        /\ Becomes(c, w, IF total % Batch = 0 THEN "persisting" ELSE AfterCount(outcome))
        /\ UNCHANGED <<up, row, stopper, got, stuck, orphaned, late>>

\* When that fails, a success is counted as a failure besides; a failure ends the
\* worker.
Persist(c, w) ==
    LET outcome == worker[c][w].outcome
    IN  /\ worker[c][w].at = "persisting"
        /\ \/ row' = Stored(c) /\ Becomes(c, w, AfterCount(outcome)) /\ UNCHANGED stuck
           \/ /\ May("progress")
              /\ IF outcome = "accepted"
                 THEN Outcome(c, w, "broken") /\ UNCHANGED stuck
                 ELSE Dies(c, w)
              /\ UNCHANGED row
        /\ UNCHANGED <<up, run, stopper, got, orphaned, late>>

\* The first fatal error, with the counts of that moment.
Register(c, w) ==
    /\ worker[c][w].at = "registering"
    /\ LockFree(c)
    /\ run' = [run EXCEPT ![c].result = IF @ = NoResult THEN [success |-> run[c].success,
                                                              failed |-> run[c].failed]
                                        ELSE @]
    /\ Becomes(c, w, "get")
    /\ UNCHANGED <<up, row, stopper, got, stuck, orphaned, late>>

----------------------------------------------------------------------------
(* Administrators and processes. *)

\* stop_broadcast finds the campaign active.
AskToStop(p, c) ==
    /\ p \in up
    /\ stopper[c].at = "none"
    /\ Open(c)
    /\ stopper' = [stopper EXCEPT ![c] = [at |-> "asked", process |-> p]]
    /\ UNCHANGED <<up, row, run, worker, got, stuck, orphaned, late>>

Alive(c) == run[c].at \notin {"none", "created"}

\* Faulty: the task is not cancelled.
LeaveTask(c) == UNCHANGED <<row, run, worker>>

\* The task is cancelled and awaited.  If a worker has died its exception takes
\* the place of the cancellation and closes the campaign as failed.
CancelTask(c) ==
    /\ TaskEnds(c)
    /\ row' = IF /\ run[c].at \in Delivering
                 /\ \E w \in Workers : worker[c][w].at = "dead"
                 /\ row[c].status \in Active
              THEN [row EXCEPT ![c] = [status |-> "failed", success |-> 0, failed |-> 0]]
              ELSE row

\* Only a task that the same process has scheduled is found.
Finds(c) == Alive(c) /\ run[c].process = stopper[c].process
Missed(c) == IF run[c].at # "none" /\ ~Finds(c) THEN {c} ELSE {}

Cancel(c) ==
    /\ stopper[c].at = "asked"
    /\ stopper' = [stopper EXCEPT ![c].at = "cancelled"]
    /\ IF Finds(c)
       THEN CancelTask(c)
       ELSE UNCHANGED <<row, run, worker>>
    /\ orphaned' = orphaned \cup Missed(c)
    /\ late' = late \cup (IF row'[c].status # row[c].status THEN {c} ELSE {})
    /\ UNCHANGED <<up, got, stuck>>

\* mark_stopped, on the row as it was read at the beginning.
MarkStopped(c) ==
    /\ stopper[c].at = "cancelled"
    /\ stopper' = [stopper EXCEPT ![c] = NoStopper]
    /\ row' = [row EXCEPT ![c].status = "stopped"]
    /\ UNCHANGED <<up, run, worker, got, stuck, orphaned, late>>

\* The campaigns without a task when p has ended.
Left(p) == {c \in Campaigns : row[c].status \in Active /\ run[c].process \in {p, NoOne}}

\* A process ends, by a deployment or a crash, and its tasks and requests with it.
Exit(p) ==
    /\ p \in up
    /\ May("exit")
    /\ up' = up \ {p}
    /\ run' = [c \in Campaigns |-> IF run[c].process = p THEN NoRun ELSE run[c]]
    /\ worker' = [c \in Campaigns |-> IF run[c].process = p THEN [w \in Workers |-> NoWorker]
                                                            ELSE worker[c]]
    /\ stopper' = [c \in Campaigns |-> IF stopper[c].process = p THEN NoStopper ELSE stopper[c]]
    /\ stuck' = stuck \cup (IF up = {p} THEN {} ELSE Left(p))
    /\ UNCHANGED <<row, got, orphaned, late>>

\* recover_stale_broadcasts_on_startup
Start(p) ==
    LET open == {c \in Campaigns : row[c].status \in Active}
    IN  /\ p \notin up
        /\ up' = up \cup {p}
        /\ row' = [c \in Campaigns |-> IF c \in open THEN [row[c] EXCEPT !.status = "failed"]
                                                     ELSE row[c]]
        /\ orphaned' = orphaned \cup {c \in open : run[c].at # "none"}
        /\ late' = late \cup {c \in open : stopper[c].at # "none"}
        /\ UNCHANGED <<run, worker, stopper, got, stuck>>

----------------------------------------------------------------------------
Task(c) ==
    \/ Schedule(c) \/ LookAtRow(c) \/ Begin(c) \/ Fetch(c) \/ Put(c) \/ PutStop(c)
    \/ Join(c) \/ Report(c) \/ LookAgain(c) \/ Close(c)

Work(c, w) == Get(c, w) \/ Send(c, w) \/ Count(c, w) \/ Persist(c, w) \/ Register(c, w)

StopRequest(c) == Cancel(c) \/ MarkStopped(c)

Next ==
    \/ \E c \in Campaigns :
          \/ Task(c) \/ StopRequest(c)
          \/ \E w \in Workers : Work(c, w)
          \/ \E p \in Processes : Create(p, c) \/ AskToStop(p, c)
    \/ \E p \in Processes : Start(p) \/ Exit(p)

Spec == Init /\ [][Next]_vars

\* The event loop runs every task that can go on, Telegram answers in time, and
\* a process is started when none is up.
FairSpec ==
    /\ Spec
    /\ \A c \in Campaigns :
          /\ WF_vars(Task(c)) /\ WF_vars(StopRequest(c))
          /\ \A w \in Workers : WF_vars(Work(c, w))
    /\ WF_vars(up = {} /\ \E p \in Processes : Start(p))

----------------------------------------------------------------------------
(* What is promised. *)

Counts == [success : Nat, failed : Nat]

TypeOK ==
    /\ up \subseteq Processes
    /\ row \in [Campaigns -> [status : Active \cup Final \cup {"absent"},
                              success : Nat, failed : Nat]]
    /\ run \in [Campaigns ->
          [at : Delivering \cup Closing \cup {"none", "created", "scheduled", "counted",
                                              "reporting", "completed", "failed"},
           process : Processes \cup {NoOne},
           next : 1..Audience + 1,
           left : 0..Cardinality(Workers),
           queue : Seq(Recipients \cup {Stop}),
           success : Nat, failed : Nat,
           result : Counts \cup {NoResult}]]
    /\ \A c \in Campaigns : Len(run[c].queue) <= QueueSize
    /\ worker \in [Campaigns -> [Workers ->
          [at : {"none", "get", "sending", "counting", "persisting", "registering",
                 "over", "dead"},
           item : Recipients \cup {Stop},
           outcome : {"none", "accepted", "refused", "broken"}]]]
    /\ stopper \in [Campaigns -> [at : {"none", "asked", "cancelled"},
                                  process : Processes \cup {NoOne}]]
    /\ got \in [Campaigns -> [Recipients -> Nat]]
    /\ stuck \subseteq Campaigns /\ orphaned \subseteq Campaigns /\ late \subseteq Campaigns

\* Nobody gets a message twice, the successes of a row were messages that reached
\* somebody, and a completed campaign has tried every recipient and counted each once.
RecipientsAccounted ==
    \A c \in Campaigns :
        /\ \A i \in Recipients : got[c][i] <= 1
        /\ row[c].success <= Cardinality({i \in Recipients : got[c][i] > 0})
        /\ row[c].status = "completed" => row[c].success + row[c].failed = Audience

\* When a campaign is closed nobody gets its message any more, and so two
\* campaigns are never delivered at once, unless its task was not found.
SilentWhenClosed ==
    \A c \in Campaigns \ orphaned : row[c].status \in Final =>
        \A w \in Workers : worker[c][w].at # "sending"

\* A closed campaign keeps its status, unless a stop request was at work when it
\* was closed or its task was not found.
ClosedOnce ==
    [][\A c \in Campaigns \ (orphaned \cup late) :
          row[c].status \in Final => row'[c].status = row[c].status]_vars

\* Every campaign is closed in the end, except when one of its workers has died,
\* the transaction that should have closed it has failed, or its process ended
\* while another one, which will not look for it again, was up.
CampaignsEnd ==
    \A c \in Campaigns : row[c].status \in Active ~> row[c].status \in Final \/ c \in stuck
=============================================================================
