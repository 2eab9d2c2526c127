-------------------------- MODULE BroadcastsProofs --------------------------
(***************************************************************************)
(* Proofs about Broadcasts, for any campaigns, processes, workers, size of *)
(* the queue and of the audience, batches and failures.                    *)
(***************************************************************************)
EXTENDS Broadcasts, FiniteSetTheorems, SequenceTheorems, TLAPS

----------------------------------------------------------------------------
(* The inductive invariant, campaign by campaign. *)

Preparing == {"created", "scheduled", "counted"}

\* Before it is created there is nothing; a campaign's task runs once.
Unborn(c) ==
    row[c].status = "absent" =>
        run[c].at = "none" /\ stopper[c].at = "none" /\ \A i \in Recipients : got[c][i] = 0

\* The workers are there while the task delivers.
Employed(c) == \A w \in Workers : worker[c][w].at # "none" => run[c].at \in Delivering

\* Where the task is, what it has and has not.
Placed(c) ==
    /\ run[c].at = "none" => run[c] = NoRun
    /\ run[c].at \in Preparing =>
          /\ run[c].next = 1 /\ run[c].queue = <<>> /\ run[c].result = NoResult
          /\ run[c].success = 0 /\ run[c].failed = 0
    /\ run[c].at = "putting" => run[c].next <= Audience
    /\ run[c].at = "stopping" => run[c].left > 0
    /\ run[c].at \in Closing \cup {"completed", "failed"} => run[c].result # NoResult

\* Recipients who were not put into the queue yet have nothing.
Untouched(c) ==
    run[c].at # "none" => \A i \in Recipients : i >= run[c].next => got[c][i] = 0

\* The worker has a recipient of its own.
Holds(c, w) == worker[c][w].at \in {"sending", "counting", "persisting", "registering"}

Queued(c) == {i \in Recipients : \E j \in 1..Len(run[c].queue) : run[c].queue[j] = i}

\* A recipient in the queue is there once, is with no worker and has nothing yet;
QueuedOnce(c) ==
    /\ \A i \in Queued(c) : i < run[c].next /\ got[c][i] = 0
    /\ \A j, k \in 1..Len(run[c].queue) :
          run[c].queue[j] # Stop /\ run[c].queue[j] = run[c].queue[k] => j = k

\* one with a worker is not in the queue, not with another worker, and has nothing
\* until the message is sent.
HeldOnce(c) ==
    \A w \in Workers : Holds(c, w) =>
        LET i == worker[c][w].item
        IN  /\ i \in Recipients /\ i < run[c].next /\ i \notin Queued(c)
            /\ worker[c][w].at = "sending" => got[c][i] = 0
            /\ \A v \in Workers \ {w} : Holds(c, v) => worker[c][v].item # i

\* Whoever was counted as a success, or will be, got the message.
Reached(c) == {i \in Recipients : got[c][i] > 0}
Accepted(c) == {w \in Workers : worker[c][w].at = "counting" /\ worker[c][w].outcome = "accepted"}

SuccessesReal(c) ==
    /\ run[c].success + Cardinality(Accepted(c)) <= Cardinality(Reached(c))
    /\ run[c].result.success <= Cardinality(Reached(c))
    /\ row[c].success <= Cardinality(Reached(c))

\* A worker that died or will register a fatal error may have counted its recipient twice.
Spoilt(c, w) ==
    \/ worker[c][w].at = "dead"
    \/ worker[c][w].at \in {"counting", "persisting", "registering"}
       /\ worker[c][w].outcome = "broken"

Clean(c) ==
    run[c].at \in Delivering /\ run[c].result = NoResult /\ \A w \in Workers : ~Spoilt(c, w)

\* The recipients that were put into the queue and not counted yet.
Outstanding(c) ==
    Queued(c) \cup
    {i \in Recipients : \E w \in Workers :
        worker[c][w].at \in {"sending", "counting"} /\ worker[c][w].item = i}

\* As long as nothing fatal has happened everybody was counted once or is outstanding.
CountedOnce(c) ==
    Clean(c) => run[c].success + run[c].failed + Cardinality(Outstanding(c)) = run[c].next - 1

\* What is completed has counted everybody.
AllTried(c) ==
    /\ run[c].at \in {"stopping", "joining"} /\ run[c].result = NoResult =>
          run[c].next = Audience + 1
    /\ run[c].at = "reporting" => run[c].success + run[c].failed = Audience
    /\ run[c].at \in {"completing", "completed"} =>
          run[c].result.success + run[c].result.failed = Audience
    /\ row[c].status = "completed" =>
          run[c].at = "none" /\ row[c].success + row[c].failed = Audience

\* A closed campaign, or one that is about to be stopped, has no task, unless it was
\* not found.
ClosedIdle(c) ==
    c \notin orphaned /\ (row[c].status \in Final \/ stopper[c].at = "cancelled") =>
        run[c].at = "none"

\* Whoever would still stop a closed campaign is known.
LateKnown(c) ==
    c \notin orphaned \cup late /\ row[c].status \in Final => stopper[c].at = "none"

CampaignInv(c) ==
    /\ Unborn(c) /\ Employed(c) /\ Placed(c) /\ Untouched(c)
    /\ QueuedOnce(c) /\ HeldOnce(c) /\ SuccessesReal(c) /\ CountedOnce(c) /\ AllTried(c)
    /\ ClosedIdle(c) /\ LateKnown(c)

BInv == TypeOK /\ \A c \in Campaigns : CampaignInv(c)

----------------------------------------------------------------------------
(* Types, row by row. *)

Rows == [status : Active \cup Final \cup {"absent"}, success : Nat, failed : Nat]
Runs == [at : Delivering \cup Closing \cup {"none", "created", "scheduled", "counted",
                                            "reporting", "completed", "failed"},
         process : Processes \cup {NoOne},
         next : 1..Audience + 1,
         left : 0..Cardinality(Workers),
         queue : Seq(Recipients \cup {Stop}),
         success : Nat, failed : Nat,
         result : Counts \cup {NoResult}]
Hands == [at : {"none", "get", "sending", "counting", "persisting", "registering",
                "over", "dead"},
          item : Recipients \cup {Stop},
          outcome : {"none", "accepted", "refused", "broken"}]
Requests == [at : {"none", "asked", "cancelled"}, process : Processes \cup {NoOne}]

TypeRow(c) ==
    /\ row[c] \in Rows /\ run[c] \in Runs /\ Len(run[c].queue) <= QueueSize
    /\ worker[c] \in [Workers -> Hands] /\ stopper[c] \in Requests
    /\ got[c] \in [Recipients -> Nat]

Tables ==
    /\ row = [c \in Campaigns |-> row[c]] /\ run = [c \in Campaigns |-> run[c]]
    /\ worker = [c \in Campaigns |-> worker[c]] /\ stopper = [c \in Campaigns |-> stopper[c]]
    /\ got = [c \in Campaigns |-> got[c]]

Histories ==
    up \subseteq Processes /\ stuck \subseteq Campaigns /\ orphaned \subseteq Campaigns
    /\ late \subseteq Campaigns

LEMMA TypeByRow == TypeOK <=> Tables /\ Histories /\ \A c \in Campaigns : TypeRow(c)
BY DEF TypeOK, Tables, Histories, TypeRow, Rows, Runs, Hands, Requests

LEMMA TypeByRowNext == TypeOK' <=> Tables' /\ Histories' /\ \A c \in Campaigns : TypeRow(c)'
BY DEF TypeOK, Tables, Histories, TypeRow, Rows, Runs, Hands, Requests

LEMMA WorkersCounted == Cardinality(Workers) \in Nat \ {0}
BY BroadcastConstants, FS_EmptySet, FS_CardinalityType

\* A step that leaves all campaigns but one alone.
Others(c) ==
    /\ \A d \in Campaigns \ {c} :
          /\ row'[d] = row[d] /\ run'[d] = run[d] /\ worker'[d] = worker[d]
          /\ stopper'[d] = stopper[d] /\ got'[d] = got[d]
    /\ orphaned \subseteq orphaned' /\ late \subseteq late'

LEMMA Apart ==
  ASSUME NEW d \in Campaigns, CampaignInv(d), TypeRow(d),
         row'[d] = row[d], run'[d] = run[d], worker'[d] = worker[d],
         stopper'[d] = stopper[d], got'[d] = got[d],
         orphaned \subseteq orphaned', late \subseteq late'
  PROVE  CampaignInv(d)' /\ TypeRow(d)'
<1>1. Unborn(d)' /\ Employed(d)' /\ Placed(d)' /\ Untouched(d)' /\ AllTried(d)'
  BY DEF CampaignInv, Unborn, Employed, Placed, Untouched, AllTried
<1>2. QueuedOnce(d)' /\ HeldOnce(d)'
  BY DEF CampaignInv, QueuedOnce, HeldOnce, Holds, Queued
<1>3. SuccessesReal(d)'
  BY DEF CampaignInv, SuccessesReal, Accepted, Reached
<1>4. CountedOnce(d)'
  BY DEF CampaignInv, CountedOnce, Clean, Spoilt, Outstanding, Queued
<1>5. ClosedIdle(d)' /\ LateKnown(d)'
  BY DEF CampaignInv, ClosedIdle, LateKnown
<1>6. TypeRow(d)'
  BY DEF TypeRow
<1> QED
  BY <1>1, <1>2, <1>3, <1>4, <1>5, <1>6 DEF CampaignInv

LEMMA OneCampaign ==
  ASSUME BInv, NEW c \in Campaigns, Others(c), Tables', Histories', TypeRow(c)', CampaignInv(c)'
  PROVE  BInv'
<1>1. ASSUME NEW d \in Campaigns PROVE CampaignInv(d)' /\ TypeRow(d)'
  BY Apart, TypeByRow DEF BInv, Others
<1> QED
  BY <1>1, TypeByRowNext DEF BInv

\* What of a campaign's state the parts of the invariant look at.
LEMMA HandsKept ==
  ASSUME NEW c \in Campaigns, CampaignInv(c), TypeRow(c),
         run'[c].queue = run[c].queue, run'[c].next = run[c].next,
         worker'[c] = worker[c], got'[c] = got[c]
  PROVE  /\ QueuedOnce(c)' /\ HeldOnce(c)' /\ Outstanding(c)' = Outstanding(c)
         /\ Accepted(c)' = Accepted(c) /\ Reached(c)' = Reached(c)
         /\ \A w \in Workers : Spoilt(c, w)' <=> Spoilt(c, w)
<1>1. Queued(c)' = Queued(c)
  BY DEF Queued
<1>2. QueuedOnce(c)' /\ HeldOnce(c)' /\ Outstanding(c)' = Outstanding(c)
  BY <1>1 DEF CampaignInv, QueuedOnce, HeldOnce, Holds, Outstanding
<1> QED
  BY <1>2 DEF Accepted, Reached, Spoilt

LEMMA ReachedCounted ==
  ASSUME NEW c \in Campaigns
  PROVE  IsFiniteSet(Reached(c)) /\ Cardinality(Reached(c)) \in Nat
<1>1. Reached(c) \subseteq 1..Audience /\ IsFiniteSet(1..Audience)
  BY BroadcastConstants, FS_Interval DEF Reached, Recipients
<1> QED
  BY <1>1, FS_Subset, FS_CardinalityType

LEMMA AcceptedCounted ==
  ASSUME NEW c \in Campaigns
  PROVE  IsFiniteSet(Accepted(c)) /\ Cardinality(Accepted(c)) \in Nat
<1>1. Accepted(c) \subseteq Workers /\ IsFiniteSet(Workers)
  BY BroadcastConstants DEF Accepted
<1> QED
  BY <1>1, FS_Subset, FS_CardinalityType

LEMMA OutstandingCounted ==
  ASSUME NEW c \in Campaigns
  PROVE  IsFiniteSet(Outstanding(c)) /\ Cardinality(Outstanding(c)) \in Nat
<1>1. Outstanding(c) \subseteq 1..Audience /\ IsFiniteSet(1..Audience)
  BY BroadcastConstants, FS_Interval DEF Outstanding, Queued, Recipients
<1> QED
  BY <1>1, FS_Subset, FS_CardinalityType

\* A campaign whose task is gone, with its workers.
LEMMA Vacated ==
  ASSUME NEW c \in Campaigns, CampaignInv(c), TypeRow(c), got'[c] = got[c],
         run'[c] = NoRun, worker'[c] = [w \in Workers |-> NoWorker]
  PROVE  /\ run'[c] \in Runs /\ worker'[c] \in [Workers -> Hands]
         /\ Len(run'[c].queue) <= QueueSize
         /\ Employed(c)' /\ Placed(c)' /\ Untouched(c)'
         /\ QueuedOnce(c)' /\ HeldOnce(c)' /\ CountedOnce(c)' /\ ClosedIdle(c)'
         /\ Cardinality(Accepted(c)') = 0 /\ Reached(c)' = Reached(c)
<1>1. run'[c] \in Runs /\ Len(run'[c].queue) <= QueueSize
  BY BroadcastConstants, WorkersCounted, EmptySeq DEF NoRun, Runs, NoResult, Counts
<1>2. worker'[c] \in [Workers -> Hands]
  BY DEF NoWorker, Hands, Stop
<1>3. Employed(c)' /\ Placed(c)' /\ Untouched(c)' /\ CountedOnce(c)' /\ ClosedIdle(c)'
  BY DEF NoRun, NoWorker, Employed, Placed, Untouched, CountedOnce, Clean, ClosedIdle,
         Delivering, Preparing, Closing
<1>4. Queued(c)' = {} /\ QueuedOnce(c)'
  BY DEF NoRun, Queued, QueuedOnce
<1>5. HeldOnce(c)' /\ Accepted(c)' = {}
  BY DEF HeldOnce, Holds, NoWorker, Accepted
<1>6. Reached(c)' = Reached(c)
  BY DEF Reached
<1> QED
  BY <1>1, <1>2, <1>3, <1>4, <1>5, <1>6, FS_EmptySet

\* A task that ends.
LEMMA TaskGone ==
  ASSUME NEW c \in Campaigns, CampaignInv(c), TypeRow(c), TaskEnds(c), Tables,
         got'[c] = got[c]
  PROVE  /\ run'[c] = NoRun /\ run'[c] \in Runs /\ worker'[c] \in [Workers -> Hands]
         /\ Len(run'[c].queue) <= QueueSize
         /\ \A d \in Campaigns \ {c} : run'[d] = run[d] /\ worker'[d] = worker[d]
         /\ Employed(c)' /\ Placed(c)' /\ Untouched(c)'
         /\ QueuedOnce(c)' /\ HeldOnce(c)' /\ CountedOnce(c)' /\ ClosedIdle(c)'
         /\ Cardinality(Accepted(c)') = 0 /\ Reached(c)' = Reached(c)
<1>1. /\ run'[c] = NoRun /\ worker'[c] = [w \in Workers |-> NoWorker]
      /\ \A d \in Campaigns \ {c} : run'[d] = run[d] /\ worker'[d] = worker[d]
  BY DEF TaskEnds, Tables
<1> QED
  BY <1>1, Vacated

\* Workers that end; what they left in the queue stays there.
LEMMA HandsGone ==
  ASSUME NEW c \in Campaigns, CampaignInv(c), WorkersEnd(c), Tables,
         run'[c].queue = run[c].queue, run'[c].next = run[c].next, got'[c] = got[c]
  PROVE  /\ worker'[c] = [w \in Workers |-> NoWorker] /\ worker'[c] \in [Workers -> Hands]
         /\ \A d \in Campaigns \ {c} : worker'[d] = worker[d]
         /\ Employed(c)' /\ QueuedOnce(c)' /\ HeldOnce(c)'
         /\ Cardinality(Accepted(c)') = 0 /\ Reached(c)' = Reached(c)
<1>1. /\ worker'[c] = [w \in Workers |-> NoWorker]
      /\ \A d \in Campaigns \ {c} : worker'[d] = worker[d]
  BY DEF WorkersEnd, Tables
<1>2. worker'[c] \in [Workers -> Hands]
  BY <1>1 DEF NoWorker, Hands, Stop
<1>3. Queued(c)' = Queued(c)
  BY DEF Queued
<1>4. QueuedOnce(c)'
  BY <1>3 DEF CampaignInv, QueuedOnce
<1>5. Employed(c)' /\ HeldOnce(c)' /\ Accepted(c)' = {} /\ Reached(c)' = Reached(c)
  BY <1>1 DEF Employed, HeldOnce, Holds, NoWorker, Accepted, Reached
<1> QED
  BY <1>1, <1>2, <1>4, <1>5, FS_EmptySet

\* A step at whose end the task is gone, whatever becomes of the row.
LEMMA TaskEndsStep ==
  ASSUME BInv, NEW c \in Campaigns, TaskEnds(c), got' = got, Tables', Histories',
         \A d \in Campaigns \ {c} : row'[d] = row[d] /\ stopper'[d] = stopper[d],
         stopper'[c] \in Requests, orphaned \subseteq orphaned', late \subseteq late',
         row'[c] \in Rows, row'[c].status # "absent", LateKnown(c)',
         row'[c].success <= Cardinality(Reached(c)),
         row'[c].status = "completed" => row'[c].success + row'[c].failed = Audience
  PROVE  BInv'
<1>1. TypeRow(c) /\ CampaignInv(c) /\ Tables
  BY TypeByRow DEF BInv
<1>2. TypeRow(c)' /\ Others(c)
  BY <1>1, TaskGone DEF TypeRow, Others
<1>3. Unborn(c)' /\ SuccessesReal(c)' /\ AllTried(c)'
  BY <1>1, TaskGone, ReachedCounted
  DEF CampaignInv, Unborn, SuccessesReal, AllTried, NoRun, NoResult, Closing
<1> QED
  BY <1>1, <1>2, <1>3, TaskGone, OneCampaign DEF CampaignInv

\* What was put into the queue and not counted are recipients before the next one.
LEMMA OutstandingBefore ==
  ASSUME NEW c \in Campaigns, CampaignInv(c), NEW i \in Outstanding(c)
  PROVE  i \in Recipients /\ i < run[c].next
BY DEF CampaignInv, QueuedOnce, HeldOnce, Holds, Outstanding, Queued

\* A step of the task that leaves the counts and whom the workers hold alone.
LEMMA TaskMoves ==
  ASSUME BInv, NEW c \in Campaigns, worker' = worker, got' = got, stopper' = stopper,
         Tables', Histories', orphaned' = orphaned, late' = late,
         \A d \in Campaigns \ {c} : row'[d] = row[d] /\ run'[d] = run[d],
         row'[c] \in Rows, row'[c].status = row[c].status,
         row'[c].success <= Cardinality(Reached(c)), row[c].status # "completed",
         run'[c] \in Runs, run[c].at # "none", run'[c].at # "none",
         run'[c].queue = run[c].queue, run'[c].next = run[c].next,
         run'[c].success = run[c].success, run'[c].failed = run[c].failed,
         run'[c].result.success <= Cardinality(Reached(c)),
         Employed(c)', Placed(c)', CountedOnce(c)', AllTried(c)'
  PROVE  BInv'
<1>1. TypeRow(c) /\ CampaignInv(c)
  BY TypeByRow DEF BInv
<1>2. worker'[c] = worker[c] /\ got'[c] = got[c] /\ stopper'[c] = stopper[c] /\ Others(c)
  BY DEF Others
<1>3. TypeRow(c)'
  BY <1>1, <1>2 DEF TypeRow
<1>4. Unborn(c)' /\ Untouched(c)' /\ ClosedIdle(c)' /\ LateKnown(c)'
  BY <1>1, <1>2 DEF CampaignInv, Unborn, Untouched, ClosedIdle, LateKnown
<1>5. QueuedOnce(c)' /\ HeldOnce(c)' /\ SuccessesReal(c)'
  BY <1>1, <1>2, HandsKept DEF CampaignInv, SuccessesReal
<1> QED
  BY <1>2, <1>3, <1>4, <1>5, OneCampaign DEF CampaignInv

----------------------------------------------------------------------------
(* The steps of the task. *)

LEMMA CreateStep ==
  ASSUME BInv, NEW p \in Processes, NEW c \in Campaigns, Create(p, c)
  PROVE  BInv'
<1>1. TypeRow(c) /\ CampaignInv(c) /\ Tables /\ Histories
  BY TypeByRow DEF BInv
<1>2. /\ run'[c] = [run[c] EXCEPT !.at = "created", !.process = p]
      /\ row'[c] = [row[c] EXCEPT !.status = "pending"]
      /\ worker'[c] = worker[c] /\ stopper'[c] = stopper[c] /\ got'[c] = got[c]
      /\ Tables' /\ Histories' /\ Others(c)
  BY <1>1 DEF Create, Tables, Histories, Others
<1>3. /\ row[c].status = "absent" /\ run[c] = NoRun /\ \A i \in Recipients : got[c][i] = 0
      /\ orphaned' = orphaned /\ late' = late
  BY <1>1 DEF Create, CampaignInv, Unborn, Placed
<1>4. TypeRow(c)'
  BY <1>1, <1>2 DEF TypeRow, Rows, Runs, Active
<1>5. Unborn(c)' /\ Employed(c)' /\ Placed(c)' /\ Untouched(c)' /\ AllTried(c)'
  BY <1>1, <1>2, <1>3 DEF CampaignInv, Unborn, Employed, Placed, Untouched, AllTried, NoRun,
     Delivering, Preparing, Closing
<1>6. QueuedOnce(c)' /\ HeldOnce(c)' /\ SuccessesReal(c)'
  BY <1>1, <1>2, HandsKept DEF CampaignInv, SuccessesReal, TypeRow, Runs, Rows
<1>7. CountedOnce(c)' /\ ClosedIdle(c)' /\ LateKnown(c)'
  BY <1>1, <1>2, <1>3 DEF CampaignInv, CountedOnce, Clean, ClosedIdle, LateKnown, Unborn, Delivering,
     Final
<1> QED
  BY <1>2, <1>4, <1>5, <1>6, <1>7, OneCampaign DEF CampaignInv

LEMMA ScheduleStep ==
  ASSUME BInv, NEW c \in Campaigns, Schedule(c)
  PROVE  BInv'
<1>1. TypeRow(c) /\ CampaignInv(c) /\ Tables /\ Histories
  BY TypeByRow DEF BInv
<1>2. /\ run[c].at = "created" /\ run'[c] = [run[c] EXCEPT !.at = "scheduled"]
      /\ row'[c] = row[c]
      /\ worker'[c] = worker[c] /\ stopper'[c] = stopper[c] /\ got'[c] = got[c]
      /\ Tables' /\ Histories' /\ Others(c) /\ orphaned' = orphaned /\ late' = late
  BY <1>1 DEF Schedule, Goes, Tables, Histories, Others
<1>4. TypeRow(c)'
  BY <1>1, <1>2 DEF TypeRow, Rows, Runs
<1>5. Unborn(c)' /\ Employed(c)' /\ Placed(c)' /\ Untouched(c)' /\ AllTried(c)'
  BY <1>1, <1>2 DEF CampaignInv, Unborn, Employed, Placed, Untouched, AllTried,
     Delivering, Preparing, Closing, TypeRow, Runs
<1>6. QueuedOnce(c)' /\ HeldOnce(c)' /\ SuccessesReal(c)'
  BY <1>1, <1>2, HandsKept DEF CampaignInv, SuccessesReal, TypeRow, Runs
<1>7. CountedOnce(c)' /\ ClosedIdle(c)' /\ LateKnown(c)'
  BY <1>1, <1>2 DEF CampaignInv, CountedOnce, Clean, ClosedIdle, LateKnown, Delivering,
     TypeRow, Runs
<1> QED
  BY <1>2, <1>4, <1>5, <1>6, <1>7, OneCampaign DEF CampaignInv

LEMMA LookAtRowStep ==
  ASSUME BInv, NEW c \in Campaigns, LookAtRow(c)
  PROVE  BInv'
<1>1. TypeRow(c) /\ CampaignInv(c) /\ Tables /\ Histories
  BY TypeByRow DEF BInv
<1>2. /\ run[c].at = "scheduled" /\ row'[c] = row[c] /\ stopper'[c] = stopper[c] /\ got'[c] = got[c]
      /\ Histories' /\ orphaned' = orphaned /\ late' = late
  BY <1>1 DEF LookAtRow, Histories
<1>3. CASE Open(c)
  <2>2. /\ run'[c] = [run[c] EXCEPT !.at = "counted"] /\ worker'[c] = worker[c]
        /\ Tables' /\ Others(c)
    BY <1>1, <1>3 DEF LookAtRow, Goes, Tables, Others
  <2>3. TypeRow(c)'
    BY <1>1, <1>2, <2>2 DEF TypeRow, Rows, Runs
  <2>4. Unborn(c)' /\ Employed(c)' /\ Placed(c)' /\ Untouched(c)' /\ AllTried(c)'
    BY <1>1, <1>2, <2>2 DEF CampaignInv, Unborn, Employed, Placed, Untouched, AllTried,
       Delivering, Preparing, Closing, TypeRow, Runs
  <2>5. QueuedOnce(c)' /\ HeldOnce(c)' /\ SuccessesReal(c)'
    BY <1>1, <1>2, <2>2, HandsKept DEF CampaignInv, SuccessesReal, TypeRow, Runs
  <2>6. CountedOnce(c)' /\ ClosedIdle(c)' /\ LateKnown(c)'
    BY <1>1, <1>2, <2>2 DEF CampaignInv, CountedOnce, Clean, ClosedIdle, LateKnown, Delivering,
       TypeRow, Runs
  <2> QED
    BY <1>2, <2>2, <2>3, <2>4, <2>5, <2>6, OneCampaign DEF CampaignInv
<1>4. CASE ~Open(c)
  <2>1. TaskEnds(c) /\ Tables' /\ got' = got
    BY <1>1, <1>4 DEF LookAtRow, TaskEnds, Tables
  <2>2. row'[c] \in Rows /\ row'[c].status # "absent" /\ LateKnown(c)' /\ stopper'[c] \in Requests
    BY <1>1, <1>2 DEF TypeRow, CampaignInv, Unborn, LateKnown
  <2>3. row'[c].status = "completed" => row'[c].success + row'[c].failed = Audience
    BY <1>1, <1>2 DEF CampaignInv, AllTried
  <2> QED
    BY <1>1, <1>2, <2>1, <2>2, <2>3, TaskEndsStep DEF LookAtRow, CampaignInv, SuccessesReal
<1> QED
  BY <1>3, <1>4

LEMMA BeginStep ==
  ASSUME BInv, NEW c \in Campaigns, Begin(c)
  PROVE  BInv'
<1>1. TypeRow(c) /\ CampaignInv(c) /\ Tables /\ Histories
  BY TypeByRow DEF BInv
<1>2. /\ run[c].at = "counted" /\ stopper'[c] = stopper[c] /\ got'[c] = got[c]
      /\ Histories' /\ orphaned' = orphaned /\ late' = late
  BY <1>1 DEF Begin, Histories
<1>3. ASSUME row' = [row EXCEPT ![c].status = "running"], Goes(c, "fetching"),
             worker' = [worker EXCEPT ![c] = [w \in Workers |-> Waiting]]
      PROVE  BInv'
  <2>2. /\ run'[c] = [run[c] EXCEPT !.at = "fetching"] /\ worker'[c] = [w \in Workers |-> Waiting]
        /\ row'[c] = [row[c] EXCEPT !.status = "running"]
        /\ Tables' /\ Others(c)
    BY <1>1, <1>3 DEF Begin, Goes, Tables, Others
  <2>3. TypeRow(c)'
    <3>1. worker'[c] \in [Workers -> Hands]
      BY <2>2 DEF Waiting, Hands, Stop
    <3> QED
      BY <1>1, <1>2, <2>2, <3>1 DEF TypeRow, Rows, Runs, Active, Delivering
  <2>4. Unborn(c)' /\ Employed(c)' /\ Placed(c)' /\ Untouched(c)' /\ AllTried(c)'
    BY <1>1, <1>2, <2>2 DEF CampaignInv, Unborn, Employed, Placed, Untouched, AllTried,
       Delivering, Preparing, Closing, TypeRow, Runs, Rows
  <2>5. /\ Queued(c)' = {} /\ QueuedOnce(c)' /\ HeldOnce(c)' /\ Accepted(c)' = {}
        /\ Outstanding(c)' = {} /\ Reached(c)' = Reached(c)
    BY <1>1, <1>2, <2>2 DEF CampaignInv, Placed, Preparing, Queued, QueuedOnce, HeldOnce, Holds,
       Accepted, Outstanding, Reached, Waiting, TypeRow, Runs
  <2>6. SuccessesReal(c)' /\ CountedOnce(c)'
    BY <1>1, <1>2, <2>2, <2>5, FS_EmptySet, ReachedCounted
    DEF CampaignInv, Placed, Preparing, SuccessesReal, CountedOnce, TypeRow, Runs, Rows
  <2>7. ClosedIdle(c)' /\ LateKnown(c)'
    BY <1>1, <1>2, <2>2 DEF CampaignInv, ClosedIdle, LateKnown, Final, TypeRow, Rows
  <2> QED
    BY <1>2, <2>2, <2>3, <2>4, <2>5, <2>6, <2>7, OneCampaign DEF CampaignInv
<1>4. ASSUME TaskEnds(c), row' = row
      PROVE  BInv'
  <2>1. Tables' /\ got' = got
    BY <1>1, <1>4 DEF Begin, TaskEnds, Tables
  <2>2. row'[c] \in Rows /\ row'[c].status # "absent" /\ LateKnown(c)' /\ stopper'[c] \in Requests
    BY <1>1, <1>2, <1>4 DEF TypeRow, CampaignInv, Unborn, LateKnown
  <2>3. row'[c].status = "completed" => row'[c].success + row'[c].failed = Audience
    BY <1>1, <1>4 DEF CampaignInv, AllTried
  <2> QED
    BY <1>1, <1>2, <1>4, <2>1, <2>2, <2>3, TaskEndsStep DEF Begin, CampaignInv, SuccessesReal
<1> QED
  BY <1>3, <1>4 DEF Begin

LEMMA FetchStep ==
  ASSUME BInv, NEW c \in Campaigns, Fetch(c)
  PROVE  BInv'
<1>1. TypeRow(c) /\ CampaignInv(c) /\ Tables /\ Histories
  BY TypeByRow DEF BInv
<1>2. /\ run[c].at = "fetching" /\ row'[c] = row[c] /\ stopper'[c] = stopper[c] /\ got'[c] = got[c]
      /\ Histories' /\ orphaned' = orphaned /\ late' = late /\ Tables' /\ Others(c)
  BY <1>1 DEF Fetch, Histories, Goes, Raises, WorkersEnd, Tables, Others
<1>3. ASSUME worker' = worker, run'[c] \in Runs,
             run'[c].queue = run[c].queue, run'[c].next = run[c].next,
             run'[c].success = run[c].success, run'[c].failed = run[c].failed,
             run'[c].result = run[c].result,
             \/ run'[c].at = "putting" /\ run[c].next <= Audience
             \/ /\ run'[c].at = "stopping" /\ run'[c].left > 0
                /\ run[c].next > Audience \/ run[c].result # NoResult
      PROVE  BInv'
  <2>1. worker'[c] = worker[c]
    BY <1>3
  <2>2. TypeRow(c)'
    BY <1>1, <1>2, <1>3, <2>1 DEF TypeRow
  <2>3. /\ run[c].at = "fetching" /\ run'[c].at \in {"putting", "stopping"}
        /\ run[c].next \in Nat /\ Audience \in Nat /\ run[c].next <= Audience + 1
    BY <1>1, <1>2, <1>3, BroadcastConstants DEF TypeRow, Runs
  <2>6. Unborn(c)' /\ Employed(c)' /\ Untouched(c)'
    BY <1>1, <1>2, <1>3, <2>1, <2>3 DEF CampaignInv, Unborn, Employed, Untouched, Delivering
  <2>7. Placed(c)'
    BY <1>1, <1>3, <2>3 DEF CampaignInv, Placed, Preparing, Closing
  <2>8. AllTried(c)'
    BY <1>1, <1>2, <1>3, <2>3 DEF CampaignInv, AllTried
  <2>4. QueuedOnce(c)' /\ HeldOnce(c)' /\ SuccessesReal(c)' /\ CountedOnce(c)'
    BY <1>1, <1>2, <1>3, <2>1, HandsKept DEF CampaignInv, SuccessesReal, CountedOnce, Clean, Delivering
  <2>5. ClosedIdle(c)' /\ LateKnown(c)'
    BY <1>1, <1>2 DEF CampaignInv, ClosedIdle, LateKnown
  <2> QED
    BY <1>2, <2>2, <2>4, <2>5, <2>6, <2>7, <2>8, OneCampaign DEF CampaignInv
<1>4. ASSUME Raises(c, NoCounts), WorkersEnd(c)
      PROVE  BInv'
  <2>1. /\ run'[c].at = "failing" /\ run'[c].result = NoCounts
        /\ run'[c].queue = run[c].queue /\ run'[c].next = run[c].next
        /\ run'[c].success = run[c].success
    BY <1>1, <1>4 DEF Raises, Tables, TypeRow, Runs
  <2>6. run'[c] \in Runs
    BY <1>1, <1>4 DEF Raises, Tables, TypeRow, Runs, Closing, Counts, NoCounts
  <2>2. TypeRow(c)'
    BY <1>1, <1>2, <1>4, <2>1, <2>6, HandsGone DEF TypeRow
  <2>3. Unborn(c)' /\ Placed(c)' /\ Untouched(c)' /\ AllTried(c)'
    BY <1>1, <1>2, <2>1 DEF CampaignInv, Unborn, Placed, Untouched, AllTried, Delivering, Preparing,
       Closing, TypeRow, Runs, NoCounts, NoResult
  <2>4. SuccessesReal(c)' /\ CountedOnce(c)'
    <3>1. Cardinality(Accepted(c)') = 0 /\ Reached(c)' = Reached(c) /\ run[c].success \in Nat
      BY <1>1, <1>2, <1>4, <2>1, HandsGone DEF TypeRow, Runs
    <3> QED
      BY <1>1, <1>2, <2>1, <3>1, ReachedCounted, AcceptedCounted
      DEF CampaignInv, SuccessesReal, CountedOnce, Clean, Delivering, NoCounts
  <2>5. ClosedIdle(c)' /\ LateKnown(c)'
    BY <1>1, <1>2 DEF CampaignInv, ClosedIdle, LateKnown
  <2> QED
    BY <1>1, <1>2, <1>4, <2>1, <2>2, <2>3, <2>4, <2>5, HandsGone, OneCampaign DEF CampaignInv
<1>5. ASSUME run[c].next <= Audience, Goes(c, "putting"), worker' = worker
      PROVE  BInv'
  <2>1. run'[c] = [run[c] EXCEPT !.at = "putting"]
    BY <1>1, <1>5 DEF Goes, Tables
  <2> QED
    BY <1>1, <1>5, <2>1, <1>3 DEF TypeRow, Runs, Delivering
<1>6. ASSUME run[c].next > Audience \/ run[c].result # NoResult, worker' = worker,
             run' = [run EXCEPT ![c].at = "stopping", ![c].left = Cardinality(Workers)]
      PROVE  BInv'
  <2>1. run'[c] = [run[c] EXCEPT !.at = "stopping", !.left = Cardinality(Workers)]
    BY <1>1, <1>6 DEF Tables
  <2>2. Cardinality(Workers) \in 0..Cardinality(Workers) /\ Cardinality(Workers) > 0
    BY WorkersCounted
  <2>3. run'[c] \in Runs
    BY <1>1, <2>1, <2>2 DEF TypeRow, Runs, Delivering
  <2>4. /\ run'[c].queue = run[c].queue /\ run'[c].next = run[c].next
        /\ run'[c].success = run[c].success /\ run'[c].failed = run[c].failed
        /\ run'[c].result = run[c].result
        /\ run'[c].at = "stopping" /\ run'[c].left = Cardinality(Workers)
    BY <1>1, <2>1 DEF TypeRow, Runs
  <2> QED
    BY <1>6, <2>2, <2>3, <2>4, <1>3
<1> QED
  BY <1>4, <1>5, <1>6 DEF Fetch

LEMMA PutStep ==
  ASSUME BInv, NEW c \in Campaigns, Put(c)
  PROVE  BInv'
<1> DEFINE i == run[c].next
           q == run[c].queue
<1>1. TypeRow(c) /\ CampaignInv(c) /\ Tables /\ Histories
  BY TypeByRow DEF BInv
<1>2. /\ row'[c] = row[c] /\ stopper'[c] = stopper[c] /\ got'[c] = got[c]
      /\ worker'[c] = worker[c]
      /\ Histories' /\ orphaned' = orphaned /\ late' = late /\ Tables' /\ Others(c)
  BY <1>1 DEF Put, Histories, Tables, Others
<1>3. /\ run[c].at = "putting" /\ Len(q) < QueueSize /\ i \in Recipients
      /\ q \in Seq(Recipients \cup {Stop}) /\ i \in Nat
  BY <1>1, BroadcastConstants DEF Put, HasRoom, TypeRow, Runs, CampaignInv, Placed, Recipients
<1>4. run'[c] = [run[c] EXCEPT !.at = "fetching", !.queue = Append(q, i), !.next = i + 1]
  BY <1>1 DEF Put, Tables
<1>5. /\ Append(q, i) \in Seq(Recipients \cup {Stop}) /\ Len(Append(q, i)) = Len(q) + 1
      /\ \A j \in 1..Len(q) : Append(q, i)[j] = q[j]
      /\ Append(q, i)[Len(q) + 1] = i /\ Len(q) \in Nat
  BY <1>3, AppendProperties, LenProperties
<1>6. run'[c] \in Runs
  <2>1. i + 1 \in 1..Audience + 1
    BY <1>3, BroadcastConstants DEF Recipients
  <2> QED
    BY <1>1, <1>4, <1>5, <2>1 DEF TypeRow, Runs, Delivering
<1>7. /\ run'[c].queue = Append(q, i) /\ run'[c].next = i + 1 /\ run'[c].at = "fetching"
      /\ run'[c].success = run[c].success /\ run'[c].failed = run[c].failed
      /\ run'[c].result = run[c].result
  BY <1>1, <1>4 DEF TypeRow, Runs
<1>8. TypeRow(c)'
  BY <1>1, <1>2, <1>3, <1>5, <1>6, <1>7, BroadcastConstants DEF TypeRow
<1>9. Unborn(c)' /\ Employed(c)' /\ Placed(c)' /\ Untouched(c)' /\ AllTried(c)'
  BY <1>1, <1>2, <1>3, <1>7 DEF CampaignInv, Unborn, Employed, Placed, Untouched, AllTried,
     Delivering, Preparing, Closing, Recipients
<1>10. Queued(c)' = Queued(c) \cup {i}
  BY SMTT(30), <1>3, <1>5, <1>7 DEF Queued
<1>11. \A k \in Recipients : k \in Queued(c) => k < i
  BY <1>1 DEF CampaignInv, QueuedOnce, Queued
<1>12. QueuedOnce(c)'
  <2>1. \A k \in Queued(c)' : k < run'[c].next /\ got'[c][k] = 0
    BY SMTT(30), <1>1, <1>2, <1>3, <1>7, <1>10 DEF CampaignInv, QueuedOnce, Untouched, Queued, Recipients
  <2>2. \A j \in 1..Len(q) : q[j] # i
    BY <1>3, <1>11 DEF Queued, Recipients
  <2>3. ASSUME NEW j \in 1..Len(Append(q, i)), NEW k \in 1..Len(Append(q, i)),
               Append(q, i)[j] # Stop, Append(q, i)[j] = Append(q, i)[k]
        PROVE  j = k
    BY SMTT(30), <1>1, <1>5, <2>2, <2>3 DEF CampaignInv, QueuedOnce
  <2> QED
    BY <1>7, <2>1, <2>3 DEF QueuedOnce
<1>13. HeldOnce(c)'
  BY <1>1, <1>2, <1>3, <1>7, <1>10 DEF CampaignInv, HeldOnce, Holds, Recipients
<1>14. Accepted(c)' = Accepted(c) /\ Reached(c)' = Reached(c) /\ SuccessesReal(c)'
  <2>1. Accepted(c)' = Accepted(c) /\ Reached(c)' = Reached(c)
    BY <1>2 DEF Accepted, Reached
  <2> QED
    BY <1>1, <1>2, <1>7, <2>1 DEF CampaignInv, SuccessesReal
<1>15. CountedOnce(c)'
  <2>1. Outstanding(c)' = Outstanding(c) \cup {i}
    BY <1>2, <1>10 DEF Outstanding
  <2>2. i \notin Outstanding(c)
    BY <1>1, <1>3, OutstandingBefore
  <2>3. Cardinality(Outstanding(c)') = Cardinality(Outstanding(c)) + 1
    BY <2>1, <2>2, OutstandingCounted, FS_AddElement
  <2>4. Clean(c)' => Clean(c)
    BY <1>2, <1>3, <1>7 DEF Clean, Spoilt, Delivering
  <2>5. run[c].success \in Nat /\ run[c].failed \in Nat
    BY <1>1 DEF TypeRow, Runs
  <2> QED
    <3>1. Clean(c) => run[c].success + run[c].failed + Cardinality(Outstanding(c)) = i - 1
      BY <1>1 DEF CampaignInv, CountedOnce
    <3>2. Clean(c)' => run'[c].success + run'[c].failed + Cardinality(Outstanding(c)') = run'[c].next - 1
      <4>1. /\ run'[c].success = run[c].success /\ run'[c].failed = run[c].failed
            /\ run'[c].next = run[c].next + 1 /\ run[c].next \in Nat
            /\ Cardinality(Outstanding(c)) \in Nat
        BY <1>3, <1>7, OutstandingCounted
      <4> QED
        BY <4>1, <2>3, <2>4, <2>5, <3>1
    <3> QED
      BY <3>2 DEF CountedOnce
<1>16. ClosedIdle(c)' /\ LateKnown(c)'
  BY <1>1, <1>2, <1>3 DEF CampaignInv, ClosedIdle, LateKnown
<1> QED
  BY <1>2, <1>8, <1>9, <1>12, <1>13, <1>14, <1>15, <1>16, OneCampaign DEF CampaignInv

LEMMA PutStopStep ==
  ASSUME BInv, NEW c \in Campaigns, PutStop(c)
  PROVE  BInv'
<1> DEFINE q == run[c].queue
           n == run[c].left
<1>1. TypeRow(c) /\ CampaignInv(c) /\ Tables /\ Histories
  BY TypeByRow DEF BInv
<1>2. /\ row'[c] = row[c] /\ stopper'[c] = stopper[c] /\ got'[c] = got[c]
      /\ worker'[c] = worker[c]
      /\ Histories' /\ orphaned' = orphaned /\ late' = late /\ Tables' /\ Others(c)
  BY <1>1 DEF PutStop, Histories, Tables, Others
<1>3. /\ run[c].at = "stopping" /\ Len(q) < QueueSize /\ q \in Seq(Recipients \cup {Stop})
      /\ n \in 0..Cardinality(Workers) /\ n > 0 /\ Stop \in Recipients \cup {Stop}
  BY <1>1 DEF PutStop, HasRoom, TypeRow, Runs, CampaignInv, Placed
<1>4. run'[c] = [run[c] EXCEPT !.queue = Append(q, Stop), !.left = n - 1,
                               !.at = IF n = 1 THEN "joining" ELSE @]
  BY <1>1 DEF PutStop, Tables
<1>5. /\ Append(q, Stop) \in Seq(Recipients \cup {Stop}) /\ Len(Append(q, Stop)) = Len(q) + 1
      /\ \A j \in 1..Len(q) : Append(q, Stop)[j] = q[j]
      /\ Append(q, Stop)[Len(q) + 1] = Stop /\ Len(q) \in Nat
  BY <1>3, AppendProperties, LenProperties
<1>6. run'[c] \in Runs
  <2>1. n - 1 \in 0..Cardinality(Workers)
    BY <1>3, WorkersCounted
  <2> QED
    BY <1>1, <1>4, <1>5, <2>1 DEF TypeRow, Runs, Delivering
<1>7. /\ run'[c].queue = Append(q, Stop) /\ run'[c].next = run[c].next /\ run'[c].left = n - 1
      /\ run'[c].at = (IF n = 1 THEN "joining" ELSE "stopping")
      /\ run'[c].success = run[c].success /\ run'[c].failed = run[c].failed
      /\ run'[c].result = run[c].result
  BY <1>1, <1>3, <1>4 DEF TypeRow, Runs
<1>8. TypeRow(c)'
  BY <1>1, <1>2, <1>3, <1>5, <1>6, <1>7, BroadcastConstants DEF TypeRow
<1>9. Unborn(c)' /\ Employed(c)' /\ Placed(c)' /\ Untouched(c)' /\ AllTried(c)'
  BY <1>1, <1>2, <1>3, <1>7, WorkersCounted
  DEF CampaignInv, Unborn, Employed, Placed, Untouched, AllTried, Delivering, Preparing, Closing
<1>10. Queued(c)' = Queued(c)
  BY <1>3, <1>5, <1>7 DEF Queued, Recipients, Stop
<1>11. QueuedOnce(c)'
  <2>1. \A k \in Queued(c)' : k < run'[c].next /\ got'[c][k] = 0
    BY <1>1, <1>2, <1>7, <1>10 DEF CampaignInv, QueuedOnce
  <2>2. ASSUME NEW j \in 1..Len(Append(q, Stop)), NEW k \in 1..Len(Append(q, Stop)),
               Append(q, Stop)[j] # Stop, Append(q, Stop)[j] = Append(q, Stop)[k]
        PROVE  j = k
    BY SMTT(30), <1>1, <1>5, <2>2 DEF CampaignInv, QueuedOnce
  <2> QED
    BY <1>7, <2>1, <2>2 DEF QueuedOnce
<1>12. HeldOnce(c)' /\ Outstanding(c)' = Outstanding(c)
  BY <1>1, <1>2, <1>7, <1>10 DEF CampaignInv, HeldOnce, Holds, Outstanding
<1>13. SuccessesReal(c)' /\ CountedOnce(c)'
  <2>1. Accepted(c)' = Accepted(c) /\ Reached(c)' = Reached(c) /\ (Clean(c)' => Clean(c))
    BY <1>2, <1>3, <1>7 DEF Accepted, Reached, Clean, Spoilt, Delivering
  <2> QED
    BY <1>1, <1>2, <1>7, <1>12, <2>1 DEF CampaignInv, SuccessesReal, CountedOnce
<1>14. ClosedIdle(c)' /\ LateKnown(c)'
  BY <1>1, <1>2, <1>3 DEF CampaignInv, ClosedIdle, LateKnown
<1> QED
  BY <1>2, <1>8, <1>9, <1>11, <1>12, <1>13, <1>14, OneCampaign DEF CampaignInv

\* When every worker is through with its recipient and the queue is empty, everybody
\* who was put into it was counted.
LEMMA NobodyOutstanding ==
  ASSUME NEW c \in Campaigns, CampaignInv(c), TypeRow(c), run[c].queue = <<>>, AllDone(c)
  PROVE  Cardinality(Outstanding(c)) = 0
<1>1. Outstanding(c) = {}
  BY DEF Outstanding, Queued, AllDone
<1> QED
  BY <1>1, FS_EmptySet

LEMMA JoinStep ==
  ASSUME BInv, NEW c \in Campaigns, Join(c)
  PROVE  BInv'
<1>1. TypeRow(c) /\ CampaignInv(c) /\ Tables /\ Histories
  BY TypeByRow DEF BInv
<1>2. /\ run[c].at = "joining" /\ row'[c] = row[c] /\ stopper'[c] = stopper[c] /\ got'[c] = got[c]
      /\ Histories' /\ orphaned' = orphaned /\ late' = late /\ WorkersEnd(c)
  BY <1>1 DEF Join, Histories
<1>3. Tables' /\ Others(c)
  BY <1>1, <1>2 DEF Join, Goes, Raises, WorkersEnd, Tables, Others
<1>4. /\ run[c].success \in Nat /\ run[c].failed \in Nat
      /\ run[c].result.success <= Cardinality(Reached(c))
      /\ run[c].success <= Cardinality(Reached(c))
  BY <1>1, ReachedCounted, AcceptedCounted DEF TypeRow, Runs, CampaignInv, SuccessesReal
<1>5. ASSUME run'[c] \in Runs, run'[c].queue = run[c].queue, run'[c].next = run[c].next,
             run'[c].success = run[c].success, run'[c].failed = run[c].failed,
             run'[c].result.success <= Cardinality(Reached(c)),
             \/ run'[c].at = "failing" /\ run'[c].result # NoResult
             \/ run'[c].at = "reporting" /\ run[c].success + run[c].failed = Audience
      PROVE  BInv'
  <2>1. TypeRow(c)'
    BY <1>1, <1>2, <1>5, HandsGone DEF TypeRow
  <2>2. Unborn(c)' /\ Placed(c)' /\ Untouched(c)' /\ AllTried(c)'
    BY <1>1, <1>2, <1>5 DEF CampaignInv, Unborn, Placed, Untouched, AllTried, Delivering, Preparing,
       Closing
  <2>3. Cardinality(Accepted(c)') = 0 /\ Reached(c)' = Reached(c)
    BY <1>1, <1>2, <1>5, HandsGone
  <2>4. SuccessesReal(c)' /\ CountedOnce(c)'
    BY <1>1, <1>2, <1>4, <1>5, <2>3 DEF CampaignInv, SuccessesReal, CountedOnce, Clean, Delivering
  <2>5. ClosedIdle(c)' /\ LateKnown(c)'
    BY <1>1, <1>2 DEF CampaignInv, ClosedIdle, LateKnown
  <2> QED
    BY <1>1, <1>2, <1>3, <1>5, <2>1, <2>2, <2>4, <2>5, HandsGone, OneCampaign DEF CampaignInv
<1>6. CASE \E w \in Workers : worker[c][w].at = "dead"
  <2>1. run'[c] = [run[c] EXCEPT !.at = "failing", !.result = NoCounts]
    BY <1>1, <1>6 DEF Join, Raises, Tables
  <2>2. run'[c] \in Runs
    <3>1. NoCounts \in Counts
      BY DEF NoCounts, Counts
    <3> QED
      BY <1>1, <2>1, <3>1 DEF TypeRow, Runs, Closing
  <2>3. /\ run'[c].queue = run[c].queue /\ run'[c].next = run[c].next
        /\ run'[c].success = run[c].success /\ run'[c].failed = run[c].failed
        /\ run'[c].at = "failing" /\ run'[c].result = NoCounts
    BY <1>1, <2>1 DEF TypeRow, Runs
  <2>4. run'[c].result # NoResult /\ run'[c].result.success = 0
    BY <2>3 DEF NoCounts, NoResult
  <2>5. run'[c].result.success <= Cardinality(Reached(c))
    BY <2>4, ReachedCounted
  <2> QED
    BY <1>5, <2>2, <2>3, <2>4, <2>5
<1>7. CASE ~\E w \in Workers : worker[c][w].at = "dead"
  <2>1. run'[c] = [run[c] EXCEPT !.at = Verdict(c)]
    BY <1>1, <1>7 DEF Join, Goes, Tables
  <2>2. run'[c] \in Runs
    BY <1>1, <2>1 DEF TypeRow, Runs, Closing, Verdict
  <2>3. /\ run'[c].queue = run[c].queue /\ run'[c].next = run[c].next
        /\ run'[c].success = run[c].success /\ run'[c].failed = run[c].failed
        /\ run'[c].at = Verdict(c) /\ run'[c].result = run[c].result
    BY <1>1, <2>1 DEF TypeRow, Runs
  <2>4. CASE run[c].result # NoResult
    BY <1>4, <1>5, <2>2, <2>3, <2>4 DEF Verdict
  <2>5. CASE run[c].result = NoResult
    <3>1. Clean(c) /\ run[c].next = Audience + 1
      BY <1>1, <1>2, <1>7, <2>5 DEF Clean, Spoilt, Delivering, Join, AllDone, CampaignInv, AllTried
    <3>2. Cardinality(Outstanding(c)) = 0
      BY <1>1, NobodyOutstanding DEF Join
    <3>3. run[c].success + run[c].failed = Audience
      BY <1>1, <1>4, <3>1, <3>2, BroadcastConstants DEF CampaignInv, CountedOnce
    <3> QED
      BY <1>4, <1>5, <2>2, <2>3, <2>5, <3>3 DEF Verdict
  <2> QED
    BY <2>4, <2>5
<1> QED
  BY <1>6, <1>7

LEMMA ReportStep ==
  ASSUME BInv, NEW c \in Campaigns, Report(c)
  PROVE  BInv'
<1> DEFINE total == [success |-> run[c].success, failed |-> run[c].failed]
<1>1. TypeRow(c) /\ CampaignInv(c) /\ Tables /\ Histories
  BY TypeByRow DEF BInv
<1>2. /\ run[c].at = "reporting" /\ worker' = worker /\ got' = got /\ stopper' = stopper
      /\ Histories' /\ orphaned' = orphaned /\ late' = late
  BY <1>1 DEF Report, Histories
<1>3. /\ run[c].success \in Nat /\ run[c].failed \in Nat /\ row[c].status # "completed"
      /\ run[c].success <= Cardinality(Reached(c)) /\ row[c].success <= Cardinality(Reached(c))
      /\ run[c].success + run[c].failed = Audience
  BY <1>1, <1>2, ReachedCounted, AcceptedCounted
  DEF TypeRow, Runs, CampaignInv, SuccessesReal, AllTried
<1>4. Employed(c)'
  <2>1. \A w \in Workers : worker[c][w].at = "none"
    BY <1>1, <1>2 DEF CampaignInv, Employed, Delivering
  <2> QED
    BY <1>2, <2>1 DEF Employed
<1>5. ASSUME row' = Stored(c),
             run' = [run EXCEPT ![c].at = "completing", ![c].result = total]
      PROVE  BInv'
  <2>1. run'[c] = [run[c] EXCEPT !.at = "completing", !.result = total]
    BY <1>1, <1>5 DEF Tables
  <2>2. run'[c] \in Runs
    <3>1. total \in Counts
      BY <1>3 DEF Counts
    <3> QED
      BY <1>1, <2>1, <3>1 DEF TypeRow, Runs, Closing
  <2>3. /\ run'[c].queue = run[c].queue /\ run'[c].next = run[c].next
        /\ run'[c].success = run[c].success /\ run'[c].failed = run[c].failed
        /\ run'[c].at = "completing" /\ run'[c].result = total
    BY <1>1, <2>1 DEF TypeRow, Runs
  <2>4. /\ row'[c] \in Rows /\ row'[c].status = row[c].status
        /\ row'[c].success <= Cardinality(Reached(c))
    BY <1>1, <1>3, <1>5 DEF Stored, Tables, TypeRow, Rows
  <2>5. Tables' /\ \A d \in Campaigns \ {c} : row'[d] = row[d] /\ run'[d] = run[d]
    BY <1>1, <1>2, <1>5 DEF Stored, Tables
  <2>6. Placed(c)' /\ CountedOnce(c)' /\ AllTried(c)'
    BY <1>3, <2>3, <2>4 DEF Placed, CountedOnce, AllTried, Clean, Delivering, Preparing, NoResult
  <2> QED
    BY <1>2, <1>3, <1>4, <2>2, <2>3, <2>4, <2>5, <2>6, TaskMoves
<1>6. ASSUME Raises(c, NoCounts), row' = row
      PROVE  BInv'
  <2>1. run'[c] = [run[c] EXCEPT !.at = "failing", !.result = NoCounts]
    BY <1>1, <1>6 DEF Tables, Raises
  <2>2. run'[c] \in Runs
    <3>1. NoCounts \in Counts
      BY DEF NoCounts, Counts
    <3> QED
      BY <1>1, <2>1, <3>1 DEF TypeRow, Runs, Closing
  <2>3. /\ run'[c].queue = run[c].queue /\ run'[c].next = run[c].next
        /\ run'[c].success = run[c].success /\ run'[c].failed = run[c].failed
        /\ run'[c].at = "failing" /\ run'[c].result = NoCounts
    BY <1>1, <2>1 DEF TypeRow, Runs
  <2>4. row'[c] \in Rows /\ row'[c] = row[c]
    BY <1>1, <1>6 DEF TypeRow
  <2>5. Tables' /\ \A d \in Campaigns \ {c} : row'[d] = row[d] /\ run'[d] = run[d]
    BY <1>1, <1>2, <1>6 DEF Raises, Tables
  <2>6. Placed(c)' /\ CountedOnce(c)' /\ AllTried(c)' /\ run'[c].result.success = 0
    BY <1>3, <2>3, <2>4 DEF Placed, CountedOnce, AllTried, Clean, Delivering, Preparing, NoResult,
       NoCounts
  <2>7. run'[c].result.success <= Cardinality(Reached(c))
    BY <2>6, ReachedCounted
  <2>8. row'[c].success <= Cardinality(Reached(c)) /\ row'[c].status = row[c].status
    BY <1>3, <2>4
  <2> QED
    BY <1>2, <1>3, <1>4, <2>2, <2>3, <2>4, <2>5, <2>6, <2>7, <2>8, TaskMoves
<1> QED
  BY <1>5, <1>6 DEF Report

LEMMA LookAgainStep ==
  ASSUME BInv, NEW c \in Campaigns, LookAgain(c)
  PROVE  BInv'
<1>1. TypeRow(c) /\ CampaignInv(c) /\ Tables /\ Histories
  BY TypeByRow DEF BInv
<1>2. /\ run[c].at \in Closing /\ row' = row /\ got' = got /\ stopper' = stopper
      /\ Histories' /\ orphaned' = orphaned /\ late' = late
  BY <1>1 DEF LookAgain, Histories
<1>3. /\ row[c] \in Rows /\ row[c].status # "completed" /\ row[c].status # "absent"
      /\ row[c].success <= Cardinality(Reached(c)) /\ LateKnown(c)'
      /\ run[c].result.success <= Cardinality(Reached(c)) /\ stopper'[c] \in Requests
  BY <1>1, <1>2 DEF TypeRow, CampaignInv, SuccessesReal, AllTried, Unborn, LateKnown, Closing
<1>4. CASE row[c].status \in Active
  <2>1. run'[c] = [run[c] EXCEPT !.at = ClosedAs(run[c].at)] /\ worker' = worker
    BY <1>1, <1>4 DEF LookAgain, Goes, Tables
  <2>2. /\ run'[c] \in Runs
        /\ run'[c].queue = run[c].queue /\ run'[c].next = run[c].next
        /\ run'[c].success = run[c].success /\ run'[c].failed = run[c].failed
        /\ run'[c].at = ClosedAs(run[c].at) /\ run'[c].result = run[c].result
    BY <1>1, <2>1 DEF TypeRow, Runs, ClosedAs
  <2>3. Employed(c)'
    <3>1. \A w \in Workers : worker[c][w].at = "none"
      BY <1>1, <1>2 DEF CampaignInv, Employed, Delivering, Closing
    <3> QED
      BY <2>1, <3>1 DEF Employed
  <2>4. Placed(c)' /\ CountedOnce(c)' /\ AllTried(c)'
    BY <1>1, <1>2, <1>3, <2>2 DEF CampaignInv, Placed, CountedOnce, AllTried, Clean, Delivering,
       Preparing, Closing, ClosedAs
  <2>5. Tables' /\ \A d \in Campaigns \ {c} : row'[d] = row[d] /\ run'[d] = run[d]
    BY <1>1, <1>2, <1>4, <2>1 DEF LookAgain, Goes, Tables
  <2>6. run[c].at # "none" /\ run'[c].at # "none"
    BY <1>2, <2>2 DEF Closing, ClosedAs
  <2> QED
    BY <1>2, <1>3, <2>1, <2>2, <2>3, <2>4, <2>5, <2>6, TaskMoves
<1>5. CASE row[c].status \notin Active
  <2>1. TaskEnds(c) /\ Tables'
    BY <1>1, <1>2, <1>5 DEF LookAgain, TaskEnds, Tables
  <2> QED
    BY <1>2, <1>3, <2>1, TaskEndsStep
<1> QED
  BY <1>4, <1>5

LEMMA CloseStep ==
  ASSUME BInv, NEW c \in Campaigns, Close(c)
  PROVE  BInv'
<1>1. TypeRow(c) /\ CampaignInv(c) /\ Tables /\ Histories
  BY TypeByRow DEF BInv
<1>2. /\ run[c].at \in {"completed", "failed"} /\ got' = got /\ stopper' = stopper
      /\ Histories' /\ orphaned' = orphaned /\ late \subseteq late' /\ TaskEnds(c)
  BY <1>1 DEF Close, Histories, Late
<1>3. stopper'[c] \in Requests /\ \A d \in Campaigns \ {c} : stopper'[d] = stopper[d]
  BY <1>1, <1>2 DEF TypeRow
<1>4. ASSUME row' = [row EXCEPT ![c] = [status |-> run[c].at, success |-> run[c].result.success,
                                        failed |-> run[c].result.failed]],
             late' = late \cup Late(c)
      PROVE  BInv'
  <2>1. /\ row'[c].status = run[c].at /\ row'[c].success = run[c].result.success
        /\ row'[c].failed = run[c].result.failed
        /\ row'[c] = [status |-> run[c].at, success |-> run[c].result.success,
                      failed |-> run[c].result.failed]
        /\ \A d \in Campaigns \ {c} : row'[d] = row[d]
    BY <1>1, <1>4 DEF Tables
  <2>2. run[c].result \in Counts
    BY <1>1, <1>2 DEF TypeRow, Runs, CampaignInv, Placed
  <2>3. row'[c] \in Rows
    BY <1>2, <2>1, <2>2 DEF Rows, Counts, Final
  <2>4. LateKnown(c)'
    BY <1>2, <1>4 DEF LateKnown, Late
  <2>5. Tables'
    BY <1>1, <1>2, <1>4 DEF TaskEnds, Tables
  <2>6. /\ row'[c].success <= Cardinality(Reached(c)) /\ row'[c].status # "absent"
        /\ row'[c].status = "completed" => row'[c].success + row'[c].failed = Audience
    BY <1>1, <1>2, <2>1 DEF CampaignInv, SuccessesReal, AllTried
  <2> QED
    BY <1>2, <1>3, <2>1, <2>3, <2>4, <2>5, <2>6, TaskEndsStep
<1>5. ASSUME row' = row, late' = late
      PROVE  BInv'
  <2>1. /\ row'[c] \in Rows /\ row'[c].success <= Cardinality(Reached(c))
        /\ row'[c].status # "absent" /\ row'[c].status # "completed" /\ LateKnown(c)'
    BY <1>1, <1>2, <1>5 DEF TypeRow, CampaignInv, SuccessesReal, Unborn, AllTried, LateKnown
  <2>2. Tables'
    BY <1>1, <1>2, <1>5 DEF TaskEnds, Tables
  <2> QED
    BY <1>2, <1>3, <1>5, <2>1, <2>2, TaskEndsStep
<1> QED
  BY <1>4, <1>5 DEF Close

----------------------------------------------------------------------------
(* The steps of the workers. *)

\* A worker changes what it is at, what it holds and how that ended.
LEMMA HandChanged ==
  ASSUME NEW c \in Campaigns, NEW w \in Workers, Tables, TypeRow(c), NEW hand \in Hands,
         worker' = [worker EXCEPT ![c][w] = hand]
  PROVE  /\ worker'[c] \in [Workers -> Hands] /\ worker'[c][w] = hand
         /\ \A v \in Workers \ {w} : worker'[c][v] = worker[c][v]
         /\ \A d \in Campaigns \ {c} : worker'[d] = worker[d]
         /\ worker' = [d \in Campaigns |-> worker'[d]]
<1>1. worker[c] \in [Workers -> Hands]
  BY DEF TypeRow
<1>2. /\ worker'[c] = [worker[c] EXCEPT ![w] = hand]
      /\ \A d \in Campaigns \ {c} : worker'[d] = worker[d]
      /\ worker' = [d \in Campaigns |-> worker'[d]]
  BY DEF Tables
<1> QED
  BY <1>1, <1>2

\* The same hand, at another place.
LEMMA HandMoved ==
  ASSUME NEW c \in Campaigns, NEW w \in Workers, Tables, TypeRow(c), NEW place,
         [worker[c][w] EXCEPT !.at = place] \in Hands,
         Becomes(c, w, place)
  PROVE  /\ worker'[c] \in [Workers -> Hands]
         /\ worker'[c][w].at = place /\ worker'[c][w].item = worker[c][w].item
         /\ worker'[c][w].outcome = worker[c][w].outcome
         /\ \A v \in Workers \ {w} : worker'[c][v] = worker[c][v]
         /\ \A d \in Campaigns \ {c} : worker'[d] = worker[d]
         /\ worker' = [d \in Campaigns |-> worker'[d]]
<1>1. worker' = [worker EXCEPT ![c][w] = [worker[c][w] EXCEPT !.at = place]]
  BY DEF Becomes, Tables
<1>2. worker[c][w] \in Hands
  BY DEF TypeRow
<1>3. worker'[c][w] = [worker[c][w] EXCEPT !.at = place]
  BY <1>1, HandChanged
<1>4. /\ worker'[c][w].at = place /\ worker'[c][w].item = worker[c][w].item
      /\ worker'[c][w].outcome = worker[c][w].outcome
  BY <1>2, <1>3 DEF Hands
<1> QED
  BY <1>1, <1>4, HandChanged

\* The parts of the invariant that a worker does not disturb.
LEMMA WorkerMoves ==
  ASSUME BInv, NEW c \in Campaigns, run[c].at \in Delivering,
         \A d \in Campaigns \ {c} :
            /\ row'[d] = row[d] /\ run'[d] = run[d] /\ worker'[d] = worker[d] /\ got'[d] = got[d],
         stopper' = stopper, orphaned' = orphaned, late' = late, Tables', Histories',
         row'[c] \in Rows, run'[c] \in Runs, worker'[c] \in [Workers -> Hands],
         got'[c] \in [Recipients -> Nat], Len(run'[c].queue) <= QueueSize,
         row'[c].status = row[c].status, run'[c].at = run[c].at, run'[c].next = run[c].next,
         run'[c].left = run[c].left, run'[c].result = NoResult => run[c].result = NoResult,
         \A i \in Recipients : i >= run[c].next => got'[c][i] = got[c][i],
         QueuedOnce(c)', HeldOnce(c)', SuccessesReal(c)', CountedOnce(c)'
  PROVE  BInv'
<1>1. TypeRow(c) /\ CampaignInv(c)
  BY TypeByRow DEF BInv
<1>2. TypeRow(c)' /\ Others(c)
  BY <1>1 DEF TypeRow, Others
<1>3. row[c].status # "absent" /\ row[c].status # "completed" /\ run[c].at # "none"
  BY <1>1 DEF CampaignInv, Unborn, AllTried, Delivering
<1>4. Unborn(c)' /\ Employed(c)' /\ Untouched(c)' /\ ClosedIdle(c)' /\ LateKnown(c)'
  BY <1>1, <1>3 DEF CampaignInv, Unborn, Employed, Untouched, ClosedIdle, LateKnown
<1>5. Placed(c)' /\ AllTried(c)'
  BY <1>1, <1>3 DEF CampaignInv, Placed, AllTried, Delivering, Preparing, Closing
<1> QED
  BY <1>2, <1>4, <1>5, OneCampaign DEF CampaignInv

\* An item leaves the queue.
LEMMA ItemTaken ==
  ASSUME NEW c \in Campaigns, CampaignInv(c), TypeRow(c), run[c].queue # <<>>,
         run'[c] = [run[c] EXCEPT !.queue = Tail(run[c].queue)], got'[c] = got[c]
  PROVE  /\ run'[c] \in Runs /\ Len(run'[c].queue) <= QueueSize
         /\ Queued(c)' = Queued(c) \ {Head(run[c].queue)} /\ QueuedOnce(c)'
         /\ Head(run[c].queue) \in Recipients \cup {Stop}
         /\ Head(run[c].queue) \in Recipients => Head(run[c].queue) \in Queued(c)
<1> DEFINE q == run[c].queue
<1>1. q \in Seq(Recipients \cup {Stop}) /\ Len(q) <= QueueSize /\ Len(q) \in Nat \ {0}
  BY EmptySeq, LenProperties DEF TypeRow, Runs
<1>2. /\ Head(q) = q[1] /\ q[1] \in Recipients \cup {Stop}
      /\ Tail(q) \in Seq(Recipients \cup {Stop}) /\ Len(Tail(q)) = Len(q) - 1
      /\ \A j \in 1..Len(Tail(q)) : Tail(q)[j] = q[j + 1]
  BY <1>1, HeadTailProperties, ElementOfSeq
<1>3. run'[c] \in Runs /\ run'[c].queue = Tail(q) /\ run'[c].next = run[c].next
  BY <1>2 DEF TypeRow, Runs
<1>4. Stop \notin Recipients
  BY DEF Stop, Recipients
<1>5. \A j, k \in 1..Len(q) : q[j] # Stop /\ q[j] = q[k] => j = k
  BY DEF CampaignInv, QueuedOnce
<1>6. \A i \in Recipients : i \in Queued(c)' => i \in Queued(c) /\ i # q[1]
  <2>1. ASSUME NEW i \in Recipients, i \in Queued(c)' PROVE i \in Queued(c) /\ i # q[1]
    <3>1. PICK j \in 1..Len(Tail(q)) : Tail(q)[j] = i
      BY <1>3, <2>1 DEF Queued
    <3>2. j + 1 \in 1..Len(q) /\ q[j + 1] = i /\ j + 1 # 1 /\ 1 \in 1..Len(q)
      BY <1>1, <1>2, <3>1
    <3>3. i # q[1]
      BY <1>4, <1>5, <3>2
    <3> QED
      BY <3>2, <3>3 DEF Queued
  <2> QED
    BY <2>1
<1>7. \A i \in Recipients : i \in Queued(c) /\ i # q[1] => i \in Queued(c)'
  <2>1. ASSUME NEW i \in Recipients, i \in Queued(c), i # q[1] PROVE i \in Queued(c)'
    <3>1. PICK j \in 1..Len(q) : q[j] = i
      BY <2>1 DEF Queued
    <3>2. j - 1 \in 1..Len(Tail(q)) /\ Tail(q)[j - 1] = i
      BY <1>1, <1>2, <2>1, <3>1
    <3> QED
      BY <1>3, <3>2 DEF Queued
  <2> QED
    BY <2>1
<1>8. Queued(c)' = Queued(c) \ {q[1]}
  BY <1>6, <1>7 DEF Queued
<1>9. QueuedOnce(c)'
  <2>1. \A i \in Queued(c)' : i < run'[c].next /\ got'[c][i] = 0
    BY <1>3, <1>8 DEF CampaignInv, QueuedOnce
  <2>2. ASSUME NEW j \in 1..Len(Tail(q)), NEW k \in 1..Len(Tail(q)),
               Tail(q)[j] # Stop, Tail(q)[j] = Tail(q)[k]
        PROVE  j = k
    <3>1. /\ j + 1 \in 1..Len(q) /\ k + 1 \in 1..Len(q)
          /\ q[j + 1] # Stop /\ q[j + 1] = q[k + 1]
      BY SMTT(30), <1>1, <1>2, <2>2
    <3> QED
      BY <1>5, <3>1
  <2> QED
    BY <1>3, <2>1, <2>2 DEF QueuedOnce
<1>10. q[1] \in Recipients => q[1] \in Queued(c)
  BY SMTT(30), <1>1 DEF Queued
<1>11. Len(run'[c].queue) <= QueueSize
  BY <1>1, <1>2, <1>3, BroadcastConstants
<1> QED
  BY <1>2, <1>3, <1>8, <1>9, <1>10, <1>11

LEMMA GetStep ==
  ASSUME BInv, NEW c \in Campaigns, NEW w \in Workers, Get(c, w)
  PROVE  BInv'
<1> DEFINE item == Head(run[c].queue)
<1>1. TypeRow(c) /\ CampaignInv(c) /\ Tables /\ Histories
  BY TypeByRow DEF BInv
<1>2. /\ worker[c][w].at = "get" /\ run[c].queue # <<>>
      /\ row' = row /\ stopper' = stopper /\ got' = got /\ orphaned' = orphaned /\ late' = late
      /\ Histories' /\ run[c].at \in Delivering
  BY <1>1 DEF Get, Histories, CampaignInv, Employed
<1>3. /\ run'[c] = [run[c] EXCEPT !.queue = Tail(run[c].queue)]
      /\ \A d \in Campaigns \ {c} : run'[d] = run[d]
      /\ run' = [d \in Campaigns |-> run'[d]]
  BY <1>1 DEF Get, Tables
<1>4. /\ run'[c] \in Runs /\ Len(run'[c].queue) <= QueueSize /\ QueuedOnce(c)'
      /\ Queued(c)' = Queued(c) \ {item} /\ item \in Recipients \cup {Stop}
      /\ item \in Recipients => item \in Queued(c)
  BY <1>1, <1>2, <1>3, ItemTaken
<1>5. /\ run'[c].at = run[c].at /\ run'[c].next = run[c].next /\ run'[c].left = run[c].left
      /\ run'[c].result = run[c].result /\ run'[c].success = run[c].success
      /\ run'[c].failed = run[c].failed
  BY <1>1, <1>3 DEF TypeRow, Runs
<1>6. row'[c] \in Rows /\ got'[c] \in [Recipients -> Nat]
  BY <1>1, <1>2 DEF TypeRow
<1>7. ASSUME worker'[c] \in [Workers -> Hands], worker'[c][w].at \in {"get", "over", "sending"},
             \A v \in Workers \ {w} : worker'[c][v] = worker[c][v],
             \A d \in Campaigns \ {c} : worker'[d] = worker[d],
             worker' = [d \in Campaigns |-> worker'[d]],
             worker'[c][w].at = "sending" => item # Stop /\ worker'[c][w].item = item,
             \/ item = Stop \/ run[c].result # NoResult \/ worker'[c][w].at = "sending"
      PROVE  BInv'
  <2>1. HeldOnce(c)'
    <3>1. ASSUME NEW v \in Workers, v # w, Holds(c, v)'
          PROVE  /\ Holds(c, v) /\ worker'[c][v] = worker[c][v]
                 /\ worker[c][v].item \in Recipients /\ worker[c][v].item < run[c].next
                 /\ worker[c][v].item \notin Queued(c)
                 /\ worker[c][v].at = "sending" => got[c][worker[c][v].item] = 0
                 /\ \A u \in Workers \ {v} : Holds(c, u) => worker[c][u].item # worker[c][v].item
      BY <1>1, <1>7, <3>1 DEF CampaignInv, HeldOnce, Holds
    <3>2. Holds(c, w)' => /\ worker'[c][w].item = item /\ item \in Queued(c) /\ item \in Recipients
                          /\ item < run[c].next /\ got[c][item] = 0
      BY <1>1, <1>4, <1>7 DEF Holds, CampaignInv, QueuedOnce
    <3> QED
      BY <1>2, <1>4, <1>5, <3>1, <3>2 DEF HeldOnce
  <2>2. Accepted(c)' = Accepted(c) /\ Reached(c)' = Reached(c)
    BY <1>2, <1>7 DEF Accepted, Reached
  <2>3. SuccessesReal(c)'
    BY <1>1, <1>2, <1>5, <2>2 DEF CampaignInv, SuccessesReal
  <2>4. CountedOnce(c)'
    <3>1. Clean(c)' => Clean(c) /\ run[c].result = NoResult
      BY <1>2, <1>5, <1>7 DEF Clean, Spoilt
    <3>2. run[c].result = NoResult => Outstanding(c)' = Outstanding(c)
      <4>1. item = Stop => item \notin Recipients
        BY DEF Stop, Recipients
      <4> QED
        BY <1>2, <1>4, <1>7, <4>1 DEF Outstanding, Queued
    <3> QED
      BY <1>1, <1>5, <3>1, <3>2 DEF CampaignInv, CountedOnce
  <2>5. Tables'
    BY <1>1, <1>2, <1>3, <1>7 DEF Tables
  <2> QED
    BY <1>2, <1>3, <1>4, <1>5, <1>6, <1>7, <2>1, <2>3, <2>4, <2>5, WorkerMoves
<1>8. worker[c][w] \in Hands /\ worker[c] \in [Workers -> Hands]
  BY <1>1 DEF TypeRow
<1>9. CASE item = Stop
  <2>1. Becomes(c, w, "over")
    BY <1>9 DEF Get
  <2>2. [worker[c][w] EXCEPT !.at = "over"] \in Hands
    BY <1>8 DEF Hands
  <2>3. worker'[c][w].at = "over"
    BY <1>1, <2>1, <2>2, HandMoved
  <2> QED
    BY <1>1, <1>7, <1>9, <2>1, <2>2, <2>3, HandMoved
<1>10. CASE item # Stop /\ run[c].result # NoResult
  <2>1. worker' = worker
    BY <1>10 DEF Get, Discard
  <2>2. worker' = [d \in Campaigns |-> worker'[d]]
    BY <1>1, <2>1 DEF Tables
  <2> QED
    BY <1>2, <1>7, <1>8, <1>10, <2>1, <2>2
<1>11. CASE item # Stop /\ run[c].result = NoResult
  <2> DEFINE hand == [worker[c][w] EXCEPT !.at = "sending", !.item = item]
  <2>1. worker' = [worker EXCEPT ![c][w].at = "sending", ![c][w].item = item]
    BY <1>11 DEF Get
  <2>2. worker' = [worker EXCEPT ![c][w] = hand]
    BY <1>1, <2>1 DEF Tables
  <2>3. hand \in Hands
    BY <1>4, <1>8 DEF Hands
  <2>4. hand.at = "sending" /\ hand.item = item
    BY <1>8 DEF Hands
  <2> HIDE DEF hand
  <2>5. /\ worker'[c][w] = hand /\ worker'[c] \in [Workers -> Hands]
        /\ \A v \in Workers \ {w} : worker'[c][v] = worker[c][v]
        /\ \A d \in Campaigns \ {c} : worker'[d] = worker[d]
        /\ worker' = [d \in Campaigns |-> worker'[d]]
    BY <1>1, <2>2, <2>3, HandChanged
  <2>6. worker'[c][w].at = "sending" /\ worker'[c][w].item = item
    BY <2>4, <2>5
  <2> QED
    BY <1>7, <1>11, <2>5, <2>6
<1> QED
  BY <1>9, <1>10, <1>11

LEMMA HandCounts ==
  ASSUME NEW c \in Campaigns, NEW w \in Workers, Tables, TypeRow(c),
         NEW outcome \in {"accepted", "refused", "broken"}, Outcome(c, w, outcome)
  PROVE  /\ worker'[c] \in [Workers -> Hands]
         /\ worker'[c][w].at = "counting" /\ worker'[c][w].item = worker[c][w].item
         /\ worker'[c][w].outcome = outcome
         /\ \A v \in Workers \ {w} : worker'[c][v] = worker[c][v]
         /\ \A d \in Campaigns \ {c} : worker'[d] = worker[d]
         /\ worker' = [d \in Campaigns |-> worker'[d]]
<1> DEFINE hand == [worker[c][w] EXCEPT !.at = "counting", !.outcome = outcome]
<1>1. worker' = [worker EXCEPT ![c][w] = hand]
  BY DEF Outcome, Tables
<1>2. worker[c][w] \in Hands
  BY DEF TypeRow
<1>3. hand \in Hands /\ hand.at = "counting" /\ hand.item = worker[c][w].item
      /\ hand.outcome = outcome
  BY <1>2 DEF Hands
<1> HIDE DEF hand
<1>4. worker'[c][w] = hand
  BY <1>1, <1>3, HandChanged
<1>5. /\ worker'[c][w].at = "counting" /\ worker'[c][w].item = worker[c][w].item
      /\ worker'[c][w].outcome = outcome
  BY <1>3, <1>4
<1> QED
  BY <1>1, <1>3, <1>5, HandChanged

\* A worker goes on with its recipient, who may get the message meanwhile.
LEMMA ItemKept ==
  ASSUME NEW c \in Campaigns, NEW w \in Workers, CampaignInv(c), Holds(c, w),
         run'[c].queue = run[c].queue, run'[c].next = run[c].next,
         worker'[c][w].item = worker[c][w].item, worker'[c][w].at # "sending",
         \A v \in Workers \ {w} : worker'[c][v] = worker[c][v],
         \A k \in Recipients \ {worker[c][w].item} : got'[c][k] = got[c][k]
  PROVE  QueuedOnce(c)' /\ HeldOnce(c)' /\ Queued(c)' = Queued(c)
<1> DEFINE i == worker[c][w].item
<1>1. /\ i \in Recipients /\ i < run[c].next /\ i \notin Queued(c)
      /\ \A v \in Workers \ {w} : Holds(c, v) => worker[c][v].item # i
  BY DEF CampaignInv, HeldOnce
<1>2. Queued(c)' = Queued(c)
  BY DEF Queued
<1>3. QueuedOnce(c)'
  <2>1. \A k \in Queued(c)' : k < run'[c].next /\ got'[c][k] = 0
    BY <1>1, <1>2 DEF CampaignInv, QueuedOnce, Queued
  <2>2. \A j, k \in 1..Len(run'[c].queue) :
           run'[c].queue[j] # Stop /\ run'[c].queue[j] = run'[c].queue[k] => j = k
    BY DEF CampaignInv, QueuedOnce
  <2> QED
    BY <2>1, <2>2 DEF QueuedOnce
<1>4. ASSUME NEW v \in Workers, v # w, Holds(c, v)'
      PROVE  /\ Holds(c, v) /\ worker'[c][v] = worker[c][v]
             /\ worker[c][v].item \in Recipients /\ worker[c][v].item < run[c].next
             /\ worker[c][v].item \notin Queued(c) /\ worker[c][v].item # i
             /\ worker[c][v].at = "sending" => got'[c][worker[c][v].item] = 0
             /\ \A u \in Workers \ {v} : Holds(c, u) => worker[c][u].item # worker[c][v].item
  <2>1. Holds(c, v) /\ worker'[c][v] = worker[c][v]
    BY <1>4 DEF Holds
  <2> QED
    BY <1>1, <1>4, <2>1 DEF CampaignInv, HeldOnce
<1>5. HeldOnce(c)'
  BY <1>1, <1>2, <1>4 DEF HeldOnce
<1> QED
  BY <1>2, <1>3, <1>5

LEMMA ReachedCountedNext ==
  ASSUME NEW c \in Campaigns
  PROVE  IsFiniteSet(Reached(c)') /\ Cardinality(Reached(c)') \in Nat
<1>1. Reached(c)' \subseteq 1..Audience /\ IsFiniteSet(1..Audience)
  BY BroadcastConstants, FS_Interval DEF Reached, Recipients
<1> QED
  BY <1>1, FS_Subset, FS_CardinalityType

LEMMA SendStep ==
  ASSUME BInv, NEW c \in Campaigns, NEW w \in Workers, Send(c, w)
  PROVE  BInv'
<1> DEFINE i == worker[c][w].item
<1>1. TypeRow(c) /\ CampaignInv(c) /\ Tables /\ Histories
  BY TypeByRow DEF BInv
<1>2. /\ worker[c][w].at = "sending" /\ row' = row /\ run' = run /\ stopper' = stopper
      /\ orphaned' = orphaned /\ late' = late /\ Histories' /\ run[c].at \in Delivering
  BY <1>1 DEF Send, Histories, CampaignInv, Employed, Dies
<1>3. i \in Recipients /\ i < run[c].next /\ got[c][i] = 0 /\ Holds(c, w)
  BY <1>1, <1>2 DEF CampaignInv, HeldOnce, Holds
<1>4. ASSUME worker'[c] \in [Workers -> Hands], worker'[c][w].at \in {"counting", "dead"},
             worker'[c][w].item = i,
             \A v \in Workers \ {w} : worker'[c][v] = worker[c][v],
             \A d \in Campaigns \ {c} : worker'[d] = worker[d],
             worker' = [d \in Campaigns |-> worker'[d]],
             \/ got' = got /\ (worker'[c][w].at = "dead" \/ worker'[c][w].outcome # "accepted")
             \/ Delivered(c, w)
      PROVE  BInv'
  <2>1. /\ \A k \in Recipients \ {i} : got'[c][k] = got[c][k]
        /\ got'[c] = got[c] \/ got'[c] = [got[c] EXCEPT ![i] = 1]
        /\ \A d \in Campaigns \ {c} : got'[d] = got[d]
        /\ got' = [d \in Campaigns |-> got'[d]]
        /\ got'[c] \in [Recipients -> Nat]
    <3>1. CASE got' = got
      <4>1. got' = [d \in Campaigns |-> got'[d]]
        BY <1>1, <3>1 DEF Tables
      <4> QED
        BY <1>1, <3>1, <4>1 DEF TypeRow
    <3>2. CASE Delivered(c, w)
      <4>1. got' = [got EXCEPT ![c] = [got[c] EXCEPT ![i] = got[c][i] + 1]]
        BY <1>1, <3>2 DEF Delivered, Tables
      <4>2. got'[c] = [got[c] EXCEPT ![i] = 1]
        BY <1>1, <1>3, <4>1 DEF Tables, TypeRow
      <4>3. got' = [d \in Campaigns |-> got'[d]] /\ \A d \in Campaigns \ {c} : got'[d] = got[d]
        BY <1>1, <4>1 DEF Tables
      <4>4. got[c] \in [Recipients -> Nat]
        BY <1>1 DEF TypeRow
      <4>5. got'[c] \in [Recipients -> Nat] /\ \A k \in Recipients \ {i} : got'[c][k] = got[c][k]
        BY <1>3, <4>2, <4>4
      <4> QED
        BY <4>2, <4>3, <4>5
    <3> QED
      BY <1>4, <3>1, <3>2
  <2>2. /\ QueuedOnce(c)' /\ HeldOnce(c)' /\ Queued(c)' = Queued(c)
        /\ \A k \in Recipients : k >= run[c].next => got'[c][k] = got[c][k]
    <3>1. worker'[c][w].at # "sending"
      BY <1>4
    <3>2. \A k \in Recipients : k >= run[c].next => k # i
      BY <1>1, <1>3, BroadcastConstants DEF Recipients, TypeRow, Runs
    <3> QED
      BY <1>1, <1>2, <1>3, <1>4, <2>1, <3>1, <3>2, ItemKept
  <2>3. /\ run[c].success \in Nat
        /\ run[c].success + Cardinality(Accepted(c)) <= Cardinality(Reached(c))
        /\ run[c].result.success <= Cardinality(Reached(c))
        /\ row[c].success <= Cardinality(Reached(c))
        /\ run[c].result.success \in Int /\ row[c].success \in Int
    BY <1>1 DEF CampaignInv, SuccessesReal, TypeRow, Runs, Rows, Counts, NoResult
  <2>4. SuccessesReal(c)'
    <3>1. CASE worker'[c][w].at = "counting" /\ worker'[c][w].outcome = "accepted"
      <4>1. got'[c] = [got[c] EXCEPT ![i] = 1]
        BY <1>1, <1>3, <1>4, <3>1 DEF Delivered, Tables, TypeRow
      <4>2. Reached(c)' = Reached(c) \cup {i} /\ i \notin Reached(c)
        BY <1>1, <1>3, <4>1 DEF Reached, TypeRow
      <4>3. Accepted(c)' = Accepted(c) \cup {w} /\ w \notin Accepted(c)
        BY <1>2, <1>4, <3>1 DEF Accepted
      <4>4. /\ Cardinality(Reached(c)') = Cardinality(Reached(c)) + 1
            /\ Cardinality(Accepted(c)') = Cardinality(Accepted(c)) + 1
        BY <4>2, <4>3, ReachedCounted, AcceptedCounted, FS_AddElement
      <4>5. Cardinality(Reached(c)) \in Nat /\ Cardinality(Accepted(c)) \in Nat
        BY ReachedCounted, AcceptedCounted
      <4> QED
        BY <1>2, <2>3, <4>4, <4>5 DEF SuccessesReal
    <3>2. CASE ~(worker'[c][w].at = "counting" /\ worker'[c][w].outcome = "accepted")
      <4>1. Accepted(c)' = Accepted(c)
        BY <1>2, <1>4, <3>2 DEF Accepted
      <4>2. Reached(c) \subseteq Reached(c)'
        BY <1>1, <1>3, <2>1 DEF Reached, TypeRow
      <4>3. Cardinality(Reached(c)) <= Cardinality(Reached(c)')
        BY <4>2, ReachedCountedNext, FS_Subset
      <4>4. /\ Cardinality(Reached(c)) \in Nat /\ Cardinality(Accepted(c)) \in Nat
            /\ Cardinality(Reached(c)') \in Nat
        BY ReachedCounted, AcceptedCounted, ReachedCountedNext
      <4> QED
        BY <1>2, <2>3, <4>1, <4>3, <4>4 DEF SuccessesReal
    <3> QED
      BY <3>1, <3>2
  <2>5. CountedOnce(c)'
    <3>1. Clean(c)' => Clean(c) /\ worker'[c][w].at = "counting"
      BY <1>2, <1>4 DEF Clean, Spoilt
    <3>2. worker'[c][w].at = "counting" => Outstanding(c)' = Outstanding(c)
      BY <1>2, <1>4, <2>2 DEF Outstanding
    <3> QED
      BY <1>1, <1>2, <3>1, <3>2 DEF CampaignInv, CountedOnce
  <2>6. Tables'
    BY <1>1, <1>2, <1>4, <2>1 DEF Tables
  <2>7. row'[c] \in Rows /\ run'[c] \in Runs /\ Len(run'[c].queue) <= QueueSize
    BY <1>1, <1>2 DEF TypeRow
  <2> QED
    BY <1>2, <1>4, <2>1, <2>2, <2>4, <2>5, <2>6, <2>7, WorkerMoves
<1>5. ASSUME NEW outcome \in {"accepted", "refused", "broken"}, Outcome(c, w, outcome),
             (got' = got /\ outcome # "accepted") \/ Delivered(c, w)
      PROVE  BInv'
  BY <1>1, <1>4, <1>5, HandCounts
<1>6. ASSUME Dies(c, w), got' = got
      PROVE  BInv'
  <2>1. [worker[c][w] EXCEPT !.at = "dead"] \in Hands
    BY <1>1 DEF TypeRow, Hands
  <2> QED
    BY <1>1, <1>4, <1>6, <2>1, HandMoved DEF Dies
<1> QED
  BY <1>5, <1>6 DEF Send, LostCounted, Outcome

LEMMA CountStep ==
  ASSUME BInv, NEW c \in Campaigns, NEW w \in Workers, Count(c, w)
  PROVE  BInv'
<1> DEFINE i == worker[c][w].item
           outcome == worker[c][w].outcome
           place == IF (run[c].success + run[c].failed + 1) % Batch = 0 THEN "persisting"
                    ELSE AfterCount(outcome)
<1>1. TypeRow(c) /\ CampaignInv(c) /\ Tables /\ Histories
  BY TypeByRow DEF BInv
<1>2. /\ worker[c][w].at = "counting" /\ row' = row /\ got' = got /\ stopper' = stopper
      /\ orphaned' = orphaned /\ late' = late /\ Histories' /\ run[c].at \in Delivering
  BY <1>1 DEF Count, Histories, CampaignInv, Employed
<1>3. Holds(c, w) /\ i \in Recipients /\ worker[c][w] \in Hands
  BY <1>1, <1>2 DEF CampaignInv, HeldOnce, Holds, TypeRow
<1>4. /\ worker'[c] \in [Workers -> Hands]
      /\ worker'[c][w].at = place /\ worker'[c][w].item = i /\ worker'[c][w].outcome = outcome
      /\ \A v \in Workers \ {w} : worker'[c][v] = worker[c][v]
      /\ \A d \in Campaigns \ {c} : worker'[d] = worker[d]
      /\ worker' = [d \in Campaigns |-> worker'[d]]
  <2>1. Becomes(c, w, place)
    BY DEF Count
  <2>2. [worker[c][w] EXCEPT !.at = place] \in Hands
    <3>1. place \in {"persisting", "registering", "get"}
      BY DEF AfterCount
    <3> HIDE DEF place
    <3> QED
      BY <1>3, <3>1 DEF Hands
  <2> HIDE DEF place
  <2> QED
    BY <1>1, <2>1, <2>2, HandMoved
<1>5. place # "counting" /\ place # "sending" /\ place # "dead" /\ place # "none"
      /\ (outcome = "broken" => place \in {"persisting", "registering"})
  BY DEF AfterCount
<1> HIDE DEF place
<1>6. /\ run' = [d \in Campaigns |-> run'[d]] /\ \A d \in Campaigns \ {c} : run'[d] = run[d]
  BY <1>1 DEF Count, Tally, Tables
<1>7. /\ run'[c] \in Runs
      /\ run'[c].queue = run[c].queue /\ run'[c].next = run[c].next /\ run'[c].at = run[c].at
      /\ run'[c].left = run[c].left /\ run'[c].result = run[c].result
      /\ IF outcome = "accepted"
         THEN run'[c].success = run[c].success + 1 /\ run'[c].failed = run[c].failed
         ELSE run'[c].success = run[c].success /\ run'[c].failed = run[c].failed + 1
  <2>1. CASE outcome = "accepted"
    <3>1. run'[c] = [run[c] EXCEPT !.success = run[c].success + 1]
      BY <1>1, <2>1 DEF Count, Tally, Tables
    <3> QED
      BY SMTT(30), <1>1, <2>1, <3>1 DEF TypeRow, Runs
  <2>2. CASE outcome # "accepted"
    <3>1. run'[c] = [run[c] EXCEPT !.failed = run[c].failed + 1]
      BY <1>1, <2>2 DEF Count, Tally, Tables
    <3>2. run'[c] \in Runs
      BY SMTT(30), <1>1, <3>1 DEF TypeRow, Runs
    <3> QED
      BY <1>1, <2>2, <3>1, <3>2 DEF TypeRow, Runs
  <2> QED
    BY <2>1, <2>2
<1>8. QueuedOnce(c)' /\ HeldOnce(c)' /\ Queued(c)' = Queued(c)
  BY <1>1, <1>2, <1>3, <1>4, <1>5, <1>7, ItemKept
<1>9. SuccessesReal(c)'
  <2>1. Reached(c)' = Reached(c)
    BY <1>2 DEF Reached
  <2>2. Accepted(c)' = Accepted(c) \ {w} /\ (w \in Accepted(c) <=> outcome = "accepted")
    BY <1>2, <1>4, <1>5 DEF Accepted
  <2>3. Cardinality(Accepted(c)') = IF outcome = "accepted" THEN Cardinality(Accepted(c)) - 1
                                    ELSE Cardinality(Accepted(c))
    BY <2>2, AcceptedCounted, FS_RemoveElement
  <2>4. /\ Cardinality(Reached(c)) \in Nat /\ Cardinality(Accepted(c)) \in Nat
        /\ run[c].success \in Nat
        /\ run[c].success + Cardinality(Accepted(c)) <= Cardinality(Reached(c))
    BY <1>1, ReachedCounted, AcceptedCounted DEF TypeRow, Runs, CampaignInv, SuccessesReal
  <2>5. run'[c].success + Cardinality(Accepted(c)') <= Cardinality(Reached(c)')
    BY <1>7, <2>1, <2>3, <2>4
  <2> QED
    BY <1>1, <1>2, <1>7, <2>1, <2>5 DEF CampaignInv, SuccessesReal
<1>10. CountedOnce(c)'
  <2>1. Clean(c)' => Clean(c)
    BY <1>2, <1>4, <1>5, <1>7 DEF Clean, Spoilt
  <2>2. Outstanding(c)' = Outstanding(c) \ {i} /\ i \in Outstanding(c)
    <3>1. /\ i \notin Queued(c)
          /\ \A v \in Workers \ {w} :
                worker[c][v].at \in {"sending", "counting"} => worker[c][v].item # i
      BY <1>1, <1>3 DEF CampaignInv, HeldOnce, Holds
    <3>2. i \in Outstanding(c)
      BY <1>2, <1>3 DEF Outstanding
    <3>3. i \notin Outstanding(c)'
      BY <1>4, <1>5, <1>8, <3>1 DEF Outstanding
    <3>4. \A k \in Recipients \ {i} : k \in Outstanding(c)' <=> k \in Outstanding(c)
      BY <1>2, <1>4, <1>5, <1>8 DEF Outstanding
    <3>5. Outstanding(c) \subseteq Recipients /\ Outstanding(c)' \subseteq Recipients
      BY DEF Outstanding, Queued
    <3> QED
      BY <3>2, <3>3, <3>4, <3>5
  <2>3. Cardinality(Outstanding(c)') = Cardinality(Outstanding(c)) - 1
    <3>1. IsFiniteSet(Outstanding(c))
      BY OutstandingCounted
    <3>2. Cardinality(Outstanding(c) \ {i}) = Cardinality(Outstanding(c)) - 1
      BY <2>2, <3>1, FS_RemoveElement
    <3> QED
      BY <2>2, <3>2
  <2>4. Cardinality(Outstanding(c)) \in Nat /\ run[c].success \in Nat /\ run[c].failed \in Nat
    BY <1>1, OutstandingCounted DEF TypeRow, Runs
  <2>5. /\ run'[c].success + run'[c].failed = run[c].success + run[c].failed + 1
        /\ run'[c].success \in Nat /\ run'[c].failed \in Nat
    BY <1>7, <2>4
  <2>6. Clean(c) => run[c].success + run[c].failed + Cardinality(Outstanding(c)) = run[c].next - 1
    BY <1>1 DEF CampaignInv, CountedOnce
  <2>7. Clean(c)' => run'[c].success + run'[c].failed + Cardinality(Outstanding(c)')
                     = run'[c].next - 1
    BY <1>7, <2>1, <2>3, <2>4, <2>5, <2>6
  <2> QED
    BY <2>7 DEF CountedOnce
<1>11. row'[c] \in Rows /\ got'[c] \in [Recipients -> Nat] /\ Len(run'[c].queue) <= QueueSize
  BY <1>1, <1>2, <1>7 DEF TypeRow
<1>12. Tables'
  BY <1>1, <1>2, <1>4, <1>6 DEF Tables
<1> QED
  BY <1>2, <1>4, <1>6, <1>7, <1>8, <1>9, <1>10, <1>11, <1>12, WorkerMoves

LEMMA PersistStep ==
  ASSUME BInv, NEW c \in Campaigns, NEW w \in Workers, Persist(c, w)
  PROVE  BInv'
<1> DEFINE i == worker[c][w].item
           outcome == worker[c][w].outcome
<1>1. TypeRow(c) /\ CampaignInv(c) /\ Tables /\ Histories
  BY TypeByRow DEF BInv
<1>2. /\ worker[c][w].at = "persisting" /\ run' = run /\ got' = got /\ stopper' = stopper
      /\ orphaned' = orphaned /\ late' = late /\ Histories' /\ run[c].at \in Delivering
  BY <1>1 DEF Persist, Histories, CampaignInv, Employed, Dies
<1>3. Holds(c, w) /\ worker[c][w] \in Hands
  BY <1>1, <1>2 DEF Holds, TypeRow
<1>4. ASSUME worker'[c] \in [Workers -> Hands],
             worker'[c][w].item = i,
             \/ worker'[c][w].at \in {"registering", "get"}
                /\ worker'[c][w].outcome = outcome
                /\ (outcome = "broken" => worker'[c][w].at = "registering")
             \/ worker'[c][w].at = "counting" /\ worker'[c][w].outcome = "broken"
             \/ worker'[c][w].at = "dead",
             \A v \in Workers \ {w} : worker'[c][v] = worker[c][v],
             \A d \in Campaigns \ {c} : worker'[d] = worker[d],
             worker' = [d \in Campaigns |-> worker'[d]],
             row' = row \/ row' = Stored(c)
      PROVE  BInv'
  <2>1. worker'[c][w].at # "sending" /\ worker'[c][w].at # "persisting"
    BY <1>4
  <2>2. QueuedOnce(c)' /\ HeldOnce(c)' /\ Queued(c)' = Queued(c)
    BY <1>1, <1>2, <1>3, <1>4, <2>1, ItemKept
  <2>3. Reached(c)' = Reached(c) /\ Accepted(c)' = Accepted(c)
    BY <1>2, <1>4 DEF Reached, Accepted
  <2>4. /\ row'[c] \in Rows /\ row'[c].status = row[c].status
        /\ row'[c].success \in {row[c].success, run[c].success}
        /\ row' = [d \in Campaigns |-> row'[d]] /\ \A d \in Campaigns \ {c} : row'[d] = row[d]
    <3>1. CASE row' = row
      BY <1>1, <3>1 DEF Tables, TypeRow
    <3>2. CASE row' = [row EXCEPT ![c].success = run[c].success, ![c].failed = run[c].failed]
      <4>1. row'[c] = [row[c] EXCEPT !.success = run[c].success, !.failed = run[c].failed]
        BY <1>1, <3>2 DEF Tables
      <4> QED
        BY <1>1, <3>2, <4>1 DEF Tables, TypeRow, Rows, Runs
    <3> QED
      BY <1>4, <3>1, <3>2 DEF Stored
  <2>5. SuccessesReal(c)'
    <3>1. run[c].success <= Cardinality(Reached(c))
      BY <1>1, ReachedCounted, AcceptedCounted DEF CampaignInv, SuccessesReal, TypeRow, Runs
    <3> QED
      BY <1>1, <1>2, <2>3, <2>4, <3>1 DEF CampaignInv, SuccessesReal
  <2>6. CountedOnce(c)'
    <3>1. Clean(c)' => Clean(c) /\ worker'[c][w].at \in {"registering", "get"}
      BY <1>2, <1>4 DEF Clean, Spoilt
    <3>2. worker'[c][w].at \in {"registering", "get"} => Outstanding(c)' = Outstanding(c)
      BY <1>2, <1>4, <2>2 DEF Outstanding
    <3> QED
      BY <1>1, <1>2, <3>1, <3>2 DEF CampaignInv, CountedOnce
  <2>7. got'[c] \in [Recipients -> Nat] /\ run'[c] \in Runs /\ Len(run'[c].queue) <= QueueSize
    BY <1>1, <1>2 DEF TypeRow
  <2>8. Tables'
    BY <1>1, <1>2, <1>4, <2>4 DEF Tables
  <2> QED
    BY <1>2, <1>4, <2>2, <2>4, <2>5, <2>6, <2>7, <2>8, WorkerMoves
<1>5. ASSUME row' = Stored(c), Becomes(c, w, AfterCount(outcome))
      PROVE  BInv'
  <2>1. AfterCount(outcome) \in {"registering", "get"}
        /\ (outcome = "broken" => AfterCount(outcome) = "registering")
    BY DEF AfterCount
  <2>2. [worker[c][w] EXCEPT !.at = AfterCount(outcome)] \in Hands
    BY <1>3, <2>1 DEF Hands
  <2> QED
    BY <1>1, <1>4, <1>5, <2>1, <2>2, HandMoved
<1>6. ASSUME row' = row, Outcome(c, w, "broken")
      PROVE  BInv'
  BY <1>1, <1>4, <1>6, HandCounts
<1>7. ASSUME row' = row, Dies(c, w)
      PROVE  BInv'
  <2>1. [worker[c][w] EXCEPT !.at = "dead"] \in Hands
    BY <1>3 DEF Hands
  <2> QED
    BY <1>1, <1>4, <1>7, <2>1, HandMoved DEF Dies
<1> QED
  BY <1>5, <1>6, <1>7 DEF Persist

LEMMA RegisterStep ==
  ASSUME BInv, NEW c \in Campaigns, NEW w \in Workers, Register(c, w)
  PROVE  BInv'
<1> DEFINE i == worker[c][w].item
           counts == [success |-> run[c].success, failed |-> run[c].failed]
<1>1. TypeRow(c) /\ CampaignInv(c) /\ Tables /\ Histories
  BY TypeByRow DEF BInv
<1>2. /\ worker[c][w].at = "registering" /\ row' = row /\ got' = got /\ stopper' = stopper
      /\ orphaned' = orphaned /\ late' = late /\ Histories' /\ run[c].at \in Delivering
  BY <1>1 DEF Register, Histories, CampaignInv, Employed
<1>3. Holds(c, w) /\ worker[c][w] \in Hands
  BY <1>1, <1>2 DEF Holds, TypeRow
<1>4. /\ worker'[c] \in [Workers -> Hands]
      /\ worker'[c][w].at = "get" /\ worker'[c][w].item = i
      /\ \A v \in Workers \ {w} : worker'[c][v] = worker[c][v]
      /\ \A d \in Campaigns \ {c} : worker'[d] = worker[d]
      /\ worker' = [d \in Campaigns |-> worker'[d]]
  <2>1. Becomes(c, w, "get") /\ [worker[c][w] EXCEPT !.at = "get"] \in Hands
    BY <1>3 DEF Register, Hands
  <2> QED
    BY <1>1, <2>1, HandMoved
<1>5. /\ run' = [d \in Campaigns |-> run'[d]] /\ \A d \in Campaigns \ {c} : run'[d] = run[d]
  BY <1>1 DEF Register, Tables
<1>6. /\ run[c].success \in Nat /\ run[c].failed \in Nat /\ counts \in Counts
      /\ counts # NoResult /\ counts.success = run[c].success
  BY <1>1 DEF TypeRow, Runs, Counts, NoResult
<1>7. run'[c] = [run[c] EXCEPT !.result = IF run[c].result = NoResult THEN counts
                                          ELSE run[c].result]
  BY <1>1 DEF Register, Tables
<1> HIDE DEF counts
<1>8. /\ run'[c] \in Runs
      /\ run'[c].queue = run[c].queue /\ run'[c].next = run[c].next /\ run'[c].at = run[c].at
      /\ run'[c].left = run[c].left
      /\ run'[c].success = run[c].success /\ run'[c].failed = run[c].failed
      /\ run'[c].result # NoResult /\ run'[c].result \in {run[c].result, counts}
  BY <1>1, <1>6, <1>7 DEF TypeRow, Runs
<1>9. QueuedOnce(c)' /\ HeldOnce(c)' /\ Queued(c)' = Queued(c)
  BY <1>1, <1>2, <1>3, <1>4, <1>8, ItemKept
<1>10. Reached(c)' = Reached(c) /\ Accepted(c)' = Accepted(c)
  BY <1>2, <1>4 DEF Reached, Accepted
<1>11. SuccessesReal(c)'
  <2>1. run[c].success <= Cardinality(Reached(c))
    BY <1>1, ReachedCounted, AcceptedCounted DEF CampaignInv, SuccessesReal, TypeRow, Runs
  <2> QED
    BY <1>1, <1>2, <1>6, <1>8, <1>10, <2>1 DEF CampaignInv, SuccessesReal
<1>12. CountedOnce(c)'
  BY <1>8 DEF CountedOnce, Clean
<1>13. row'[c] \in Rows /\ got'[c] \in [Recipients -> Nat] /\ Len(run'[c].queue) <= QueueSize
  BY <1>1, <1>2, <1>8 DEF TypeRow
<1>14. Tables'
  BY <1>1, <1>2, <1>4, <1>5 DEF Tables
<1> QED
  BY <1>2, <1>4, <1>5, <1>8, <1>9, <1>11, <1>12, <1>13, <1>14, WorkerMoves

----------------------------------------------------------------------------
(* Stop requests and processes. *)

\* What is left of the invariant when task, workers and messages are left alone.
LEMMA TaskKept ==
  ASSUME NEW c \in Campaigns, CampaignInv(c), TypeRow(c),
         run'[c] = run[c], worker'[c] = worker[c], got'[c] = got[c],
         row'[c] \in Rows, row'[c].success = row[c].success,
         row'[c].status = "completed" => row'[c] = row[c],
         stopper'[c] \in Requests, Unborn(c)', ClosedIdle(c)', LateKnown(c)'
  PROVE  CampaignInv(c)' /\ TypeRow(c)'
<1>1. Employed(c)' /\ Placed(c)' /\ Untouched(c)' /\ AllTried(c)'
  BY DEF CampaignInv, Employed, Placed, Untouched, AllTried
<1>2. QueuedOnce(c)' /\ HeldOnce(c)' /\ SuccessesReal(c)' /\ CountedOnce(c)'
  BY HandsKept DEF CampaignInv, SuccessesReal, CountedOnce, Clean
<1>3. TypeRow(c)'
  BY DEF TypeRow
<1> QED
  BY <1>1, <1>2, <1>3 DEF CampaignInv

LEMMA AskToStopStep ==
  ASSUME BInv, NEW c \in Campaigns, NEW p \in Processes, AskToStop(p, c)
  PROVE  BInv'
<1>1. TypeRow(c) /\ CampaignInv(c) /\ Tables /\ Histories
  BY TypeByRow DEF BInv
<1>2. /\ row[c].status \in Active /\ Others(c) /\ Tables' /\ Histories'
      /\ row'[c] = row[c] /\ run'[c] = run[c] /\ worker'[c] = worker[c] /\ got'[c] = got[c]
      /\ stopper'[c] = [at |-> "asked", process |-> p]
  BY <1>1 DEF AskToStop, Open, Others, Tables, Histories
<1>3. stopper'[c] \in Requests /\ row'[c] \in Rows /\ stopper'[c].at = "asked"
  BY <1>1, <1>2 DEF Requests, TypeRow
<1>4. Unborn(c)' /\ ClosedIdle(c)' /\ LateKnown(c)'
  BY <1>2, <1>3 DEF Unborn, ClosedIdle, LateKnown, Active, Final
<1> QED
  BY <1>1, <1>2, <1>3, <1>4, TaskKept, OneCampaign

LEMMA CancelStep ==
  ASSUME BInv, NEW c \in Campaigns, Cancel(c)
  PROVE  BInv'
<1>1. TypeRow(c) /\ CampaignInv(c) /\ Tables /\ Histories
  BY TypeByRow DEF BInv
<1>2. /\ stopper[c].at = "asked" /\ stopper' = [stopper EXCEPT ![c].at = "cancelled"]
      /\ got' = got /\ orphaned' = orphaned \cup Missed(c) /\ Histories'
      /\ late' = late \cup (IF row'[c].status # row[c].status THEN {c} ELSE {})
  BY <1>1 DEF Cancel, Histories, Missed
<1>3. /\ stopper'[c] = [stopper[c] EXCEPT !.at = "cancelled"]
      /\ stopper'[c] \in Requests /\ stopper'[c].at = "cancelled"
      /\ \A d \in Campaigns \ {c} : stopper'[d] = stopper[d]
      /\ stopper' = [d \in Campaigns |-> stopper'[d]]
  BY <1>1, <1>2 DEF Tables, TypeRow, Requests
<1>4. row[c].status # "absent"
  BY <1>1, <1>2 DEF CampaignInv, Unborn
<1>5. row'[c].status = row[c].status => LateKnown(c)'
  BY <1>1, <1>2 DEF CampaignInv, LateKnown
<1>6. row'[c].status # row[c].status => LateKnown(c)'
  BY <1>2 DEF LateKnown
<1>7. CASE Finds(c)
  <2>1. CancelTask(c) /\ run[c].at # "none"
    BY <1>7 DEF Cancel, Finds, Alive
  <2>2. /\ \A d \in Campaigns \ {c} : row'[d] = row[d]
        /\ \/ row'[c] = row[c]
           \/ row'[c] = [status |-> "failed", success |-> 0, failed |-> 0]
        /\ row' = [d \in Campaigns |-> row'[d]]
    BY <1>1, <2>1 DEF CancelTask, Tables
  <2>3. TaskEnds(c) /\ Tables'
    BY <1>1, <1>2, <1>3, <2>1, <2>2 DEF CancelTask, TaskEnds, Tables
  <2>4. /\ row'[c] \in Rows /\ row'[c].status # "absent" /\ row'[c].status # "completed"
        /\ row'[c].success <= Cardinality(Reached(c))
    <3>1. CASE row'[c] = row[c]
      BY <1>1, <1>4, <2>1, <3>1 DEF TypeRow, CampaignInv, AllTried, SuccessesReal
    <3>2. CASE row'[c] = [status |-> "failed", success |-> 0, failed |-> 0]
      BY <3>2, ReachedCounted DEF Rows, Final
    <3> QED
      BY <2>2, <3>1, <3>2
  <2> QED
    BY <1>2, <1>3, <1>5, <1>6, <2>2, <2>3, <2>4, TaskEndsStep
<1>8. CASE ~Finds(c)
  <2>1. row' = row /\ run' = run /\ worker' = worker
    BY <1>8 DEF Cancel
  <2>2. Tables' /\ Others(c)
    BY <1>1, <1>2, <1>3, <2>1 DEF Tables, Others
  <2>3. ClosedIdle(c)' /\ LateKnown(c)' /\ Unborn(c)'
    BY <1>2, <1>4, <1>5, <1>8, <2>1 DEF ClosedIdle, Missed, Unborn
  <2>4. row'[c] \in Rows
    BY <1>1, <2>1 DEF TypeRow
  <2>5. CampaignInv(c)' /\ TypeRow(c)'
    BY <1>1, <1>2, <1>3, <2>1, <2>3, <2>4, TaskKept
  <2> QED
    BY <1>2, <2>2, <2>5, OneCampaign
<1> QED
  BY <1>7, <1>8

LEMMA MarkStoppedStep ==
  ASSUME BInv, NEW c \in Campaigns, MarkStopped(c)
  PROVE  BInv'
<1>1. TypeRow(c) /\ CampaignInv(c) /\ Tables /\ Histories
  BY TypeByRow DEF BInv
<1>2. /\ stopper[c].at = "cancelled" /\ Others(c) /\ Tables' /\ Histories'
      /\ row'[c] = [row[c] EXCEPT !.status = "stopped"] /\ stopper'[c] = NoStopper
      /\ run'[c] = run[c] /\ worker'[c] = worker[c] /\ got'[c] = got[c]
      /\ orphaned' = orphaned /\ late' = late
  BY <1>1 DEF MarkStopped, Others, Tables, Histories
<1>3. /\ stopper'[c] \in Requests /\ row'[c] \in Rows /\ stopper'[c].at = "none"
      /\ row'[c].status = "stopped" /\ row'[c].success = row[c].success
  BY <1>1, <1>2 DEF Requests, NoStopper, TypeRow, Rows, Final
<1>4. Unborn(c)' /\ ClosedIdle(c)' /\ LateKnown(c)'
  BY <1>1, <1>2, <1>3 DEF CampaignInv, Unborn, ClosedIdle, LateKnown
<1>5. CampaignInv(c)' /\ TypeRow(c)'
  BY <1>1, <1>2, <1>3, <1>4, TaskKept
<1> QED
  BY <1>2, <1>5, OneCampaign

LEMMA ExitStep ==
  ASSUME BInv, NEW p \in Processes, Exit(p)
  PROVE  BInv'
<1>1. Tables /\ Histories
  BY TypeByRow DEF BInv
<1>2. Tables' /\ Histories'
  BY <1>1 DEF Exit, Tables, Histories, Left
<1>3. ASSUME NEW c \in Campaigns
      PROVE  CampaignInv(c)' /\ TypeRow(c)'
  <2>1. TypeRow(c) /\ CampaignInv(c)
    BY TypeByRow DEF BInv
  <2>2. /\ row'[c] = row[c] /\ got'[c] = got[c] /\ orphaned' = orphaned /\ late' = late
        /\ stopper'[c] = (IF stopper[c].process = p THEN NoStopper ELSE stopper[c])
        /\ run'[c] = (IF run[c].process = p THEN NoRun ELSE run[c])
        /\ worker'[c] = (IF run[c].process = p THEN [w \in Workers |-> NoWorker] ELSE worker[c])
    BY <1>1 DEF Exit
  <2>3. /\ stopper'[c] \in Requests /\ row'[c] \in Rows
        /\ stopper'[c].at = "none" \/ stopper'[c] = stopper[c]
    BY <2>1, <2>2 DEF TypeRow, Requests, NoStopper
  <2>4. LateKnown(c)'
    BY <2>1, <2>2, <2>3 DEF CampaignInv, LateKnown
  <2>5. CASE run[c].process # p
    <3>1. Unborn(c)' /\ ClosedIdle(c)'
      BY <2>1, <2>2, <2>3, <2>5 DEF CampaignInv, Unborn, ClosedIdle
    <3> QED
      BY <2>1, <2>2, <2>3, <2>4, <2>5, <3>1, TaskKept
  <2>6. CASE run[c].process = p
    <3>1. run'[c] = NoRun /\ worker'[c] = [w \in Workers |-> NoWorker]
      BY <2>2, <2>6
    <3>2. /\ run'[c] \in Runs /\ Len(run'[c].queue) <= QueueSize
          /\ worker'[c] \in [Workers -> Hands]
          /\ Employed(c)' /\ Placed(c)' /\ Untouched(c)'
          /\ QueuedOnce(c)' /\ HeldOnce(c)' /\ CountedOnce(c)' /\ ClosedIdle(c)'
          /\ Cardinality(Accepted(c)') = 0 /\ Reached(c)' = Reached(c)
      BY <2>1, <2>2, <3>1, Vacated
    <3>3. Unborn(c)' /\ SuccessesReal(c)' /\ AllTried(c)'
      BY <2>1, <2>2, <2>3, <3>1, <3>2, ReachedCounted
      DEF CampaignInv, Unborn, SuccessesReal, AllTried, NoRun, NoResult, Closing
    <3>4. TypeRow(c)'
      BY <2>1, <2>2, <2>3, <3>2 DEF TypeRow
    <3> QED
      BY <2>4, <3>2, <3>3, <3>4 DEF CampaignInv
  <2> QED
    BY <2>5, <2>6
<1> QED
  BY <1>2, <1>3, TypeByRowNext DEF BInv

LEMMA StartStep ==
  ASSUME BInv, NEW p \in Processes, Start(p)
  PROVE  BInv'
<1>1. Tables /\ Histories
  BY TypeByRow DEF BInv
<1>2. Tables' /\ Histories'
  BY <1>1 DEF Start, Tables, Histories
<1>3. ASSUME NEW c \in Campaigns
      PROVE  CampaignInv(c)' /\ TypeRow(c)'
  <2>1. TypeRow(c) /\ CampaignInv(c)
    BY TypeByRow DEF BInv
  <2>2. /\ run'[c] = run[c] /\ worker'[c] = worker[c] /\ stopper'[c] = stopper[c]
        /\ got'[c] = got[c] /\ orphaned \subseteq orphaned' /\ late \subseteq late'
        /\ row'[c] = (IF row[c].status \in Active THEN [row[c] EXCEPT !.status = "failed"]
                                                  ELSE row[c])
        /\ row[c].status \in Active /\ run[c].at # "none" => c \in orphaned'
        /\ row[c].status \in Active /\ stopper[c].at # "none" => c \in late'
    BY DEF Start
  <2>3. stopper'[c] \in Requests
    BY <2>1, <2>2 DEF TypeRow
  <2>4. CASE row[c].status \in Active
    <3>1. row'[c] \in Rows /\ row'[c].status = "failed" /\ row'[c].success = row[c].success
      BY <2>1, <2>2, <2>4 DEF TypeRow, Rows, Final
    <3>2. Unborn(c)' /\ ClosedIdle(c)' /\ LateKnown(c)'
      BY <2>2, <2>4, <3>1 DEF Unborn, ClosedIdle, LateKnown
    <3> QED
      BY <2>1, <2>2, <2>3, <3>1, <3>2, TaskKept
  <2>5. CASE row[c].status \notin Active
    <3>1. row'[c] = row[c] /\ row'[c] \in Rows
      BY <2>1, <2>2, <2>5 DEF TypeRow
    <3>2. Unborn(c)' /\ ClosedIdle(c)' /\ LateKnown(c)'
      BY <2>1, <2>2, <3>1 DEF CampaignInv, Unborn, ClosedIdle, LateKnown
    <3> QED
      BY <2>1, <2>2, <2>3, <3>1, <3>2, TaskKept
  <2> QED
    BY <2>4, <2>5
<1> QED
  BY <1>2, <1>3, TypeByRowNext DEF BInv

----------------------------------------------------------------------------
(* The theorems. *)

LEMMA InitInv == Init => BInv
<1> SUFFICES ASSUME Init PROVE BInv
  OBVIOUS
<1>1. Tables /\ Histories
  BY BroadcastConstants DEF Init, Tables, Histories
<1>2. ASSUME NEW c \in Campaigns
      PROVE  CampaignInv(c) /\ TypeRow(c)
  <2>1. /\ row[c] = NoRow /\ run[c] = NoRun /\ worker[c] = [w \in Workers |-> NoWorker]
        /\ stopper[c] = NoStopper /\ got[c] = [i \in Recipients |-> 0]
    BY DEF Init
  <2>2. TypeRow(c)
    <3>1. run[c] \in Runs /\ Len(run[c].queue) <= QueueSize
      BY <2>1, BroadcastConstants, WorkersCounted, EmptySeq DEF NoRun, Runs, NoResult, Counts
    <3>2. row[c] \in Rows /\ stopper[c] \in Requests /\ got[c] \in [Recipients -> Nat]
      BY <2>1 DEF NoRow, Rows, NoStopper, Requests
    <3>3. worker[c] \in [Workers -> Hands]
      BY <2>1 DEF NoWorker, Hands, Stop
    <3> QED
      BY <3>1, <3>2, <3>3 DEF TypeRow
  <2>3. Unborn(c) /\ Employed(c) /\ Placed(c) /\ Untouched(c) /\ AllTried(c)
    BY <2>1 DEF Unborn, Employed, Placed, Untouched, AllTried, NoRow, NoRun, NoWorker, NoStopper,
       Preparing, Closing
  <2>4. QueuedOnce(c) /\ HeldOnce(c) /\ CountedOnce(c) /\ ClosedIdle(c) /\ LateKnown(c)
    BY <2>1 DEF QueuedOnce, Queued, HeldOnce, Holds, CountedOnce, Clean, Delivering, ClosedIdle,
       LateKnown, NoRow, NoRun, NoWorker, NoStopper, Final
  <2>5. SuccessesReal(c)
    <3>1. Accepted(c) = {}
      BY <2>1 DEF Accepted, NoWorker
    <3>2. Cardinality(Accepted(c)) = 0
      BY <3>1, FS_EmptySet
    <3> QED
      BY <2>1, <3>2, ReachedCounted DEF SuccessesReal, NoRow, NoRun, NoResult
  <2> QED
    BY <2>2, <2>3, <2>4, <2>5 DEF CampaignInv
<1> QED
  BY <1>1, <1>2, TypeByRow DEF BInv

LEMMA NextInv == BInv /\ [Next]_vars => BInv'
<1> SUFFICES ASSUME BInv, [Next]_vars PROVE BInv'
  OBVIOUS
<1>1. CASE UNCHANGED vars
  <2>1. \A c \in Campaigns : CampaignInv(c)' /\ TypeRow(c)'
    BY <1>1, TypeByRow, Apart DEF BInv, vars
  <2>2. Tables' /\ Histories'
    BY <1>1, TypeByRow DEF BInv, vars, Tables, Histories
  <2> QED
    BY <2>1, <2>2, TypeByRowNext DEF BInv
<1>2. ASSUME NEW c \in Campaigns, Task(c) PROVE BInv'
  BY <1>2, ScheduleStep, LookAtRowStep, BeginStep, FetchStep, PutStep, PutStopStep, JoinStep,
     ReportStep, LookAgainStep, CloseStep DEF Task
<1>3. ASSUME NEW c \in Campaigns, StopRequest(c) PROVE BInv'
  BY <1>3, CancelStep, MarkStoppedStep DEF StopRequest
<1>4. ASSUME NEW c \in Campaigns, NEW w \in Workers, Work(c, w) PROVE BInv'
  BY <1>4, GetStep, SendStep, CountStep, PersistStep, RegisterStep DEF Work
<1>5. ASSUME NEW c \in Campaigns, NEW p \in Processes, Create(p, c) \/ AskToStop(p, c) PROVE BInv'
  BY <1>5, CreateStep, AskToStopStep
<1>6. ASSUME NEW p \in Processes, Start(p) \/ Exit(p) PROVE BInv'
  BY <1>6, StartStep, ExitStep
<1> QED
  BY <1>1, <1>2, <1>3, <1>4, <1>5, <1>6 DEF Next

\* Whatever is delivered, stopped, restarted or lost, in whatever order, every
\* campaign satisfies the parts of the invariant above, and the variables their types.
THEOREM CampaignsCorrect == Spec => []BInv
<1> QED
  BY InitInv, NextInv, PTL DEF Spec

\* The type invariant of the model of the campaigns.
THEOREM TypeCorrect == Spec => []TypeOK
<1>1. BInv => TypeOK
  BY DEF BInv
<1> QED
  BY <1>1, CampaignsCorrect, PTL

\* Nobody gets the message of a campaign twice: only a worker that took the recipient
\* out of the queue sends it, a recipient is put into the queue once and a delivery whose
\* answer was lost is not tried again.
Once == \A c \in Campaigns : \A i \in Recipients : got[c][i] <= 1

LEMMA OnceInit == Init => Once
BY DEF Init, Once

LEMMA OnceNext == BInv /\ Once /\ [Next]_vars => Once'
<1> SUFFICES ASSUME BInv, Once, [Next]_vars PROVE Once'
  OBVIOUS
<1>1. CASE got' = got
  BY <1>1 DEF Once
<1>2. ASSUME NEW c \in Campaigns, NEW w \in Workers, Delivered(c, w), worker[c][w].at = "sending"
      PROVE  Once'
  <2> DEFINE i == worker[c][w].item
  <2>1. TypeRow(c) /\ CampaignInv(c) /\ Tables
    BY TypeByRow DEF BInv
  <2>2. i \in Recipients /\ got[c][i] = 0 /\ got[c] \in [Recipients -> Nat]
    BY <1>2, <2>1 DEF CampaignInv, HeldOnce, Holds, TypeRow
  <2>3. /\ got'[c] = [got[c] EXCEPT ![i] = got[c][i] + 1]
        /\ \A d \in Campaigns \ {c} : got'[d] = got[d]
    BY <1>2, <2>1 DEF Delivered, Tables
  <2>4. \A k \in Recipients : got'[c][k] <= 1
    BY <2>2, <2>3 DEF Once
  <2> QED
    BY <2>3, <2>4 DEF Once
<1>3. ASSUME NEW c \in Campaigns, NEW w \in Workers, Work(c, w) PROVE Once'
  BY <1>1, <1>2, <1>3 DEF Work, Get, Send, Count, Persist, Register
<1>4. ASSUME NEW c \in Campaigns, Task(c) \/ StopRequest(c) PROVE Once'
  BY <1>1, <1>4 DEF Task, StopRequest, Schedule, LookAtRow, Begin, Fetch, Put, PutStop, Join, Report,
     LookAgain, Close, Cancel, MarkStopped
<1>5. ASSUME NEW c \in Campaigns, NEW p \in Processes, Create(p, c) \/ AskToStop(p, c) PROVE Once'
  BY <1>1, <1>5 DEF Create, AskToStop
<1>6. ASSUME NEW p \in Processes, Start(p) \/ Exit(p) PROVE Once'
  BY <1>1, <1>6 DEF Start, Exit
<1> QED
  BY <1>1, <1>3, <1>4, <1>5, <1>6 DEF Next, vars

\* Nobody gets a message twice, a row never shows more successes than people who got the
\* message, and a completed campaign has tried every recipient and counted each once.
THEOREM RecipientsCorrect == Spec => []RecipientsAccounted
<1>1. BInv /\ Once => RecipientsAccounted
  BY DEF BInv, Once, CampaignInv, SuccessesReal, AllTried, Reached, RecipientsAccounted
<1>2. Spec => []Once
  BY OnceInit, OnceNext, CampaignsCorrect, PTL DEF Spec
<1> QED
  BY <1>1, <1>2, CampaignsCorrect, PTL

\* A closed campaign has no worker that sends, unless its task was not found when it was
\* closed: it belonged to another process or was not scheduled yet.
THEOREM SilenceCorrect == Spec => []SilentWhenClosed
<1>1. BInv => SilentWhenClosed
  <2> SUFFICES ASSUME BInv, NEW c \in Campaigns, c \notin orphaned, row[c].status \in Final,
                      NEW w \in Workers
               PROVE  worker[c][w].at # "sending"
    BY DEF SilentWhenClosed
  <2>1. run[c].at = "none" /\ Employed(c)
    BY DEF BInv, CampaignInv, ClosedIdle
  <2> QED
    BY <2>1 DEF Employed, Delivering
<1> QED
  BY <1>1, CampaignsCorrect, PTL

\* A closed campaign keeps its status, unless a stop request was at work when it was
\* closed or its task was not found.
THEOREM ClosingCorrect == Spec => ClosedOnce
<1>1. ASSUME BInv, [Next]_vars, NEW c \in Campaigns \ (orphaned \cup late), row[c].status \in Final
      PROVE  row'[c].status = row[c].status
  <2>1. /\ run[c].at = "none" /\ stopper[c].at = "none" /\ TypeRow(c) /\ Tables
        /\ row[c].status \notin Active /\ row[c].status # "absent"
    BY <1>1, TypeByRow DEF BInv, CampaignInv, ClosedIdle, LateKnown, Final, Active
  <2>2. CASE row' = row
    BY <2>2
  <2>3. ASSUME NEW d \in Campaigns, row' = Stored(d) PROVE row'[c].status = row[c].status
    <3>1. CASE d # c
      BY <2>1, <2>3, <3>1 DEF Stored, Tables
    <3>2. CASE d = c
      BY <2>1, <2>3, <3>2 DEF Stored
    <3> QED
      BY <3>1, <3>2
  <2>4. ASSUME NEW d \in Campaigns, Task(d) PROVE row'[c].status = row[c].status
    <3>1. CASE Begin(d) \/ Close(d)
      BY <2>1, <2>2, <2>4, <3>1 DEF Begin, Close, Tables
    <3>2. CASE Report(d)
      BY <2>2, <2>3, <3>2 DEF Report
    <3> QED
      BY <2>2, <2>4, <3>1, <3>2 DEF Task, Schedule, LookAtRow, Fetch, Put, PutStop, Join, LookAgain
  <2>5. ASSUME NEW d \in Campaigns, NEW w \in Workers, Work(d, w)
        PROVE  row'[c].status = row[c].status
    BY <2>2, <2>3, <2>5 DEF Work, Get, Send, Count, Persist, Register
  <2>6. ASSUME NEW d \in Campaigns, StopRequest(d) PROVE row'[c].status = row[c].status
    <3>1. d # c
      BY <2>1, <2>6 DEF StopRequest, Cancel, MarkStopped
    <3> QED
      BY <2>1, <2>6, <3>1 DEF StopRequest, Cancel, MarkStopped, CancelTask, Tables
  <2>7. ASSUME NEW d \in Campaigns, NEW p \in Processes, Create(p, d) \/ AskToStop(p, d)
        PROVE  row'[c].status = row[c].status
    BY <2>1, <2>2, <2>7 DEF Create, AskToStop, Tables
  <2>8. ASSUME NEW p \in Processes, Start(p) \/ Exit(p) PROVE row'[c].status = row[c].status
    BY <2>1, <2>2, <2>8 DEF Start, Exit
  <2> QED
    BY <1>1, <2>2, <2>4, <2>5, <2>6, <2>7, <2>8 DEF Next, vars
<1>2. BInv /\ [Next]_vars =>
        [\A c \in Campaigns \ (orphaned \cup late) :
            row[c].status \in Final => row'[c].status = row[c].status]_vars
  BY <1>1
<1> QED
  BY <1>2, CampaignsCorrect, PTL DEF Spec, ClosedOnce
=============================================================================
