-------------------------- MODULE PollingLockProofs --------------------------
(***************************************************************************)
(* Proofs about PollingLock, for any number of processes and faults and    *)
(* any time to live of the key beyond one renewal period.                  *)
(***************************************************************************)
EXTENDS PollingLock, TLAPS

\* Who acts on the key as its owner.
Owns(p) == main[p] \in {"polling", "retrying", "freeing"} \cup Starting

\* As long as Redis and the clock behave, they are right to;
OwnersRight == \A p \in Processes : Owns(p) => lock.owner = p

\* a process that starts has just set the key,
StartsFresh == \A p \in Processes : main[p] \in Starting => lock.left = Ttl

\* and one that polls renews it: in this period, or it has done so already.
Renewed ==
    \A p \in Processes : Polls(p) =>
        /\ renewer[p] \in {"asleep", "checked"}
        /\ p \in due => lock.left >= Ttl - 1
        /\ p \notin due => lock.left = Ttl /\ renewer[p] = "asleep"

LockInv == TypeOK /\ slips <= faults /\ (slips = 0 => OwnersRight /\ StartsFresh /\ Renewed)

----------------------------------------------------------------------------
LEMMA LockInitInv == Init => LockInv
<1> SUFFICES ASSUME Init PROVE LockInv
  OBVIOUS
<1>1. TypeOK
  BY LockConstants DEF Init, TypeOK, NoLock, Places, Starting, Tasks
<1>2. OwnersRight /\ StartsFresh /\ Renewed
  BY DEF Init, OwnersRight, Owns, Starting, StartsFresh, Renewed, Polls
<1> QED
  BY <1>1, <1>2 DEF LockInv, Init

LEMMA KeyType ==
    /\ NoLock \in [owner : Processes \cup {NoOne}, left : 0..Ttl]
    /\ NoLock.owner = NoOne /\ NoLock.left = 0
    /\ \A p \in Processes : /\ Acquired(p) \in [owner : Processes \cup {NoOne}, left : 0..Ttl]
                            /\ Acquired(p).owner = p /\ Acquired(p).left = Ttl /\ p # NoOne
  BY LockConstants DEF NoLock, Acquired

\* EXPIRE keeps the owner.
LEMMA ExtendedType ==
  ASSUME TypeOK
  PROVE  /\ Extended \in [owner : Processes \cup {NoOne}, left : 0..Ttl]
         /\ Extended.owner = lock.owner
         /\ Extended.left = IF lock.owner = NoOne THEN 0 ELSE Ttl
  BY LockConstants DEF TypeOK, Extended, NoLock

\* Faults are counted, and slips among them.
LEMMA FaultType ==
  ASSUME TypeOK, slips <= faults, NEW kind, Fine \/ Harmless(kind) \/ Slip(kind)
  PROVE  /\ faults' \in 0..MaxFaults /\ slips' \in 0..MaxFaults /\ slips' <= faults'
         /\ slips' = 0 => slips = 0 /\ ~Slip(kind)
  BY LockConstants DEF TypeOK, Fine, Harmless, Slip

Keys == [owner : Processes \cup {NoOne}, left : 0..Ttl]

\* A step of one process that leaves the key alone and makes it own nothing.
LEMMA StepAside ==
  ASSUME LockInv, NEW p \in Processes, NEW place \in Places, NEW task \in Tasks, NEW kind,
         Goes(p, place), Renewer(p, task) \/ (task = renewer[p] /\ UNCHANGED renewer),
         due' = due \ {p} \/ UNCHANGED due,
         lost' = lost \cup {p} \/ lost' = lost \ {p} \/ UNCHANGED lost,
         Fine \/ Harmless(kind) \/ Slip(kind),
         UNCHANGED lock,
         place \notin {"polling", "retrying", "freeing"} \cup Starting
  PROVE  LockInv'
<1> USE DEF LockInv, Starting
<1>1. faults' \in 0..MaxFaults /\ slips' \in 0..MaxFaults /\ slips' <= faults'
      /\ (slips' = 0 => slips = 0)
  BY FaultType
<1>2. main' = [main EXCEPT ![p] = place] /\ main \in [Processes -> Places]
      /\ renewer' = [renewer EXCEPT ![p] = task] /\ renewer \in [Processes -> Tasks]
  BY DEF Goes, Renewer, TypeOK
<1>3. TypeOK'
  BY <1>1, <1>2 DEF TypeOK
<1>4. ASSUME slips' = 0 PROVE OwnersRight' /\ StartsFresh' /\ Renewed'
  <2>1. OwnersRight /\ StartsFresh /\ Renewed
    BY <1>1, <1>4
  <2>2. OwnersRight' /\ StartsFresh'
    BY <1>2, <2>1 DEF OwnersRight, StartsFresh, Owns, Starting
  <2>3. Renewed'
    BY <1>2, <2>1 DEF Renewed, Polls
  <2> QED
    BY <2>2, <2>3
<1> QED
  BY <1>1, <1>3, <1>4

\* A step of one process that keeps what it owns, or owns the key when it goes on.
LEMMA StepOn ==
  ASSUME LockInv, NEW p \in Processes, NEW place \in Places, Goes(p, place),
         UNCHANGED <<lock, renewer, due, faults, slips>>,
         lost' \subseteq Processes,
         place \in {"polling", "retrying"} => main[p] \in {"polling", "retrying"},
         place = "freeing" => lock.owner = p,
         place \notin Starting
  PROVE  LockInv'
<1> USE DEF LockInv, Starting
<1>1. main' = [main EXCEPT ![p] = place] /\ main \in [Processes -> Places]
  BY DEF Goes, TypeOK
<1>2. TypeOK'
  BY <1>1 DEF TypeOK
<1>3. ASSUME slips = 0 PROVE OwnersRight' /\ StartsFresh' /\ Renewed'
  <2>1. OwnersRight /\ StartsFresh /\ Renewed
    BY <1>3
  <2>2. OwnersRight' /\ StartsFresh'
    BY <1>1, <2>1 DEF OwnersRight, StartsFresh, Owns, Starting
  <2>3. Renewed'
    BY <1>1, <2>1 DEF Renewed, Polls
  <2> QED
    BY <2>2, <2>3
<1> QED
  BY <1>2, <1>3

LEMMA AcquireInv ==
  ASSUME LockInv, NEW p \in Processes, Acquire(p)
  PROVE  LockInv'
<1> USE DEF LockInv, Acquire, Goes, Fine
<1>1. TypeOK'
  <2>1. lock' \in Keys /\ lock'.owner # NoOne /\ lock'.left # 0
    BY KeyType, LockConstants DEF Keys
  <2>2. main' \in [Processes -> Places]
    BY DEF TypeOK, Places, Starting
  <2> QED
    BY <2>1, <2>2 DEF TypeOK, Keys
<1>2. ASSUME slips = 0 PROVE OwnersRight' /\ StartsFresh' /\ Renewed'
  <2>1. OwnersRight /\ StartsFresh /\ Renewed
    BY <1>2
  <2>2. \A q \in Processes : ~Owns(q)
    BY <2>1, KeyType DEF OwnersRight
  <2>3. lock'.owner = p /\ lock'.left = Ttl
    BY KeyType
  <2>4. \A q \in Processes : main'[q] = IF q = p THEN "starting" ELSE main[q]
    BY DEF TypeOK
  <2> QED
    BY <2>2, <2>3, <2>4 DEF OwnersRight, StartsFresh, Renewed, Owns, Starting, Polls
<1> QED
  BY <1>1, <1>2

\* The polling starts with the key extended, or with one that nobody looked at.
LEMMA PolledInv ==
  ASSUME LockInv, NEW p \in Processes, main[p] \in Starting, Polled(p), Fine, UNCHANGED lost,
         lock' = Extended \/ (lock' = lock /\ lock.owner # p)
  PROVE  LockInv'
<1> USE DEF LockInv, Polled, Goes, Renewer, Fine
<1>1. lock' \in Keys /\ lock'.owner = lock.owner
      /\ (lock'.owner = NoOne <=> lock'.left = 0)
  BY ExtendedType, LockConstants DEF TypeOK, Keys
<1>2. TypeOK'
  BY <1>1 DEF TypeOK, Places, Starting, Tasks, Keys
<1>3. ASSUME slips = 0 PROVE OwnersRight' /\ StartsFresh' /\ Renewed'
  <2>1. OwnersRight /\ StartsFresh /\ Renewed
    BY <1>3
  <2>2. lock.owner = p
    BY <2>1 DEF OwnersRight, Owns, Starting
  <2>3. lock'.owner = p /\ lock'.left = Ttl
    BY <2>2, ExtendedType, LockConstants
  <2>4. \A q \in Processes \ {p} : ~Owns(q)
    BY <2>1, <2>2 DEF OwnersRight
  <2>5. \A q \in Processes : main'[q] = IF q = p THEN "polling" ELSE main[q]
    BY DEF TypeOK
  <2>6. renewer'[p] = "asleep" /\ p \notin due'
    BY DEF TypeOK
  <2> QED
    BY <2>3, <2>4, <2>5, <2>6 DEF OwnersRight, StartsFresh, Renewed, Owns, Polls, Starting
<1> QED
  BY <1>2, <1>3

\* The two awaits of the first renewal.
LEMMA EnterInv ==
  ASSUME LockInv, NEW p \in Processes, Confirm(p) \/ Enter(p)
  PROVE  LockInv'
<1>1. CASE Enter(p)
  BY <1>1, PolledInv DEF Enter, Starting
<1>2. CASE Confirm(p) /\ ~Mine(p)
  BY <1>2, PolledInv DEF Confirm, Mine, Starting
<1>3. CASE Confirm(p) /\ Mine(p)
  <2> USE DEF LockInv, Fine
  <2>1. /\ main' = [main EXCEPT ![p] = "confirmed"]
        /\ main[p] = "starting"
        /\ UNCHANGED <<lock, renewer, due, lost, faults, slips>>
    BY <1>3 DEF Confirm, Goes
  <2>2. TypeOK'
    BY <2>1 DEF TypeOK, Places, Starting
  <2>3. \A q \in Processes : main'[q] = IF q = p THEN "confirmed" ELSE main[q]
    BY <2>1 DEF TypeOK
  <2>4. ASSUME slips = 0 PROVE OwnersRight' /\ StartsFresh' /\ Renewed'
    BY <2>1, <2>3, <2>4 DEF OwnersRight, StartsFresh, Renewed, Owns, Polls, Starting
  <2> QED
    BY <2>1, <2>2, <2>4
<1> QED
  BY <1>1, <1>2, <1>3

\* The key is deleted by its owner, so that nobody else is one.
LEMMA FreeInv ==
  ASSUME LockInv, NEW p \in Processes, Free(p)
  PROVE  LockInv'
<1>1. CASE UNCHANGED lock /\ Slip("redis")
  <2>1. "ended" \in Places /\ renewer[p] \in Tasks
    BY DEF Places, Starting, LockInv, TypeOK
  <2> QED
    BY <1>1, <2>1, StepAside DEF Starting, Free
<1>2. CASE lock' = NoLock /\ Fine
  <2> USE <1>2 DEF LockInv, Free, Goes, Fine
  <2>1. TypeOK'
    BY KeyType DEF TypeOK, Places, Starting
  <2>2. ASSUME slips = 0 PROVE OwnersRight' /\ StartsFresh' /\ Renewed'
    <3>1. OwnersRight
      BY <2>2
    <3>2. lock.owner = p
      BY <3>1 DEF OwnersRight, Owns, Starting
    <3>3. \A q \in Processes \ {p} : ~Owns(q)
      BY <3>1, <3>2 DEF OwnersRight
    <3>4. \A q \in Processes : main'[q] = IF q = p THEN "ended" ELSE main[q]
      BY DEF TypeOK
    <3> QED
      BY <3>3, <3>4 DEF OwnersRight, StartsFresh, Renewed, Owns, Starting, Polls
  <2> QED
    BY <2>1, <2>2
<1> QED
  BY <1>1, <1>2 DEF Free

\* The tasks that renew: with Redis in order only one of a process that does not poll
\* finds the key lost.
LEMMA RenewingInv ==
  ASSUME LockInv, NEW p \in Processes, LoseLock(p) \/ Check(p) \/ Renew(p) \/ RenewalFails(p)
  PROVE  LockInv'
<1> USE DEF LockInv
<1>1. PICK task \in Tasks : Renewer(p, task)
  BY DEF LoseLock, Check, Renew, RenewalFails, Tasks
<1>2. renewer' = [renewer EXCEPT ![p] = task] /\ UNCHANGED main
  BY <1>1 DEF Renewer, LoseLock, Check, Renew, RenewalFails
<1>3. (due' = due \/ due' = due \ {p}) /\ lost' \subseteq Processes
  BY DEF TypeOK, LoseLock, Check, Renew, RenewalFails
<1>4. lock' = lock \/ (lock' = Extended /\ lock.owner # NoOne)
  BY DEF LoseLock, Check, Renew, RenewalFails
<1>5. lock' \in Keys /\ lock'.owner = lock.owner /\ (lock'.owner = NoOne <=> lock'.left = 0)
      /\ (lock'.left = lock.left \/ lock'.left = Ttl)
  BY <1>4, ExtendedType, LockConstants DEF TypeOK, Keys
<1>6. Fine \/ Slip("redis")
  BY DEF LoseLock, Check, Renew, RenewalFails
<1>7. faults' \in 0..MaxFaults /\ slips' \in 0..MaxFaults /\ slips' <= faults'
      /\ (slips' = 0 => slips = 0 /\ ~Slip("redis"))
  BY <1>6, FaultType
<1>8. TypeOK'
  BY <1>1, <1>2, <1>3, <1>5, <1>7 DEF TypeOK, Keys
<1>9. ASSUME slips' = 0 PROVE OwnersRight' /\ StartsFresh' /\ Renewed'
  <2>1. OwnersRight /\ StartsFresh /\ Renewed
    BY <1>7, <1>9
  <2>2. OwnersRight' /\ StartsFresh'
    BY <1>2, <1>5, <2>1 DEF OwnersRight, StartsFresh, Owns, Starting
  <2>3. ~RenewalFails(p)
    BY <1>7, <1>9 DEF RenewalFails
  <2>4. Polls(p) => lock.owner = p /\ p # NoOne
    BY <2>1, LockConstants DEF OwnersRight, Owns, Starting, Polls
  <2>5. Polls(p) => \/ Check(p)
                    \/ Renew(p) /\ lock' = Extended /\ task = "asleep"
    <3>1. Polls(p) => ~LoseLock(p)
      BY <2>4 DEF LoseLock, Mine
    <3>2. Polls(p) /\ Renew(p) => lock' = Extended /\ Renewer(p, "asleep")
      BY <2>4 DEF Renew
    <3>3. Renewer(p, "asleep") => task = "asleep"
      BY <1>1, <1>2 DEF Renewer, TypeOK
    <3> QED
      BY <2>3, <3>1, <3>2, <3>3
  <2>6. Renewed'
    <3> SUFFICES ASSUME NEW q \in Processes, Polls(q)
                 PROVE  /\ renewer'[q] \in {"asleep", "checked"}
                        /\ q \in due' => lock'.left >= Ttl - 1
                        /\ q \notin due' => lock'.left = Ttl /\ renewer'[q] = "asleep"
      BY <1>2 DEF Renewed, Polls
    <3>1. Ttl \in Nat
      BY LockConstants
    <3>2. CASE q # p
      <4>1. renewer'[q] = renewer[q] /\ (q \in due' <=> q \in due)
        BY <1>2, <1>3, <3>2 DEF TypeOK
      <4> QED
        BY <4>1, <1>5, <2>1, <3>1 DEF Renewed
    <3>3. CASE q = p /\ Check(p)
      <4>1. renewer'[q] = "checked" /\ q \in due' /\ lock' = lock /\ due' = due
        BY <3>3 DEF Check, Renewer, TypeOK
      <4> QED
        BY <4>1, <2>1 DEF Renewed
    <3>4. CASE q = p /\ Renew(p) /\ lock' = Extended /\ task = "asleep"
      <4>1. renewer'[q] = "asleep" /\ q \notin due'
        BY <3>4, <1>2 DEF Renew, TypeOK
      <4>2. lock'.left = Ttl
        BY <3>4, <2>4, ExtendedType
      <4> QED
        BY <4>1, <4>2, <3>1
    <3> QED
      BY <2>5, <3>2, <3>3, <3>4
  <2> QED
    BY <2>2, <2>6
<1> QED
  BY <1>7, <1>8, <1>9

\* A period passes: when nobody is late every key that is polled with was renewed.
LEMMA TickInv ==
  ASSUME LockInv, Tick
  PROVE  LockInv'
<1> USE DEF LockInv
<1>1. faults' \in 0..MaxFaults /\ slips' \in 0..MaxFaults /\ slips' <= faults'
      /\ (slips' = 0 => slips = 0 /\ ~Slip("stall"))
  BY FaultType DEF Tick
<1>2. lock' \in Keys /\ (lock'.owner = NoOne <=> lock'.left = 0)
  BY KeyType, LockConstants DEF Tick, TypeOK, Keys, NoLock
<1>3. TypeOK'
  BY <1>1, <1>2 DEF TypeOK, Tick, Keys
<1>4. ASSUME slips' = 0 PROVE OwnersRight' /\ StartsFresh' /\ Renewed'
  <2>1. OwnersRight /\ StartsFresh /\ Renewed
    BY <1>1, <1>4
  <2>2. \A p \in Processes : p \notin due /\ main[p] \notin {"freeing"} \cup Starting
    BY <1>1, <1>4 DEF Tick, Late
  <2>3. UNCHANGED <<main, renewer>>
    BY DEF Tick
  <2>4. ASSUME NEW p \in Processes, Polls(p)
        PROVE  /\ lock'.owner = p /\ lock'.left = Ttl - 1
               /\ renewer[p] = "asleep" /\ p \in due'
    <3>1. lock.owner = p /\ lock.left = Ttl /\ renewer[p] = "asleep"
      BY <2>1, <2>2, <2>4 DEF OwnersRight, Owns, Starting, Polls, Renewed
    <3> QED
      BY <3>1, LockConstants DEF Tick, TypeOK
  <2>5. \A p \in Processes : Owns(p) => Polls(p)
    BY <2>2 DEF Owns, Starting, Polls
  <2>6. OwnersRight' /\ StartsFresh'
    BY <2>2, <2>3, <2>4, <2>5 DEF OwnersRight, StartsFresh, Owns, Starting
  <2>7. Renewed'
    BY <2>3, <2>4, LockConstants DEF Renewed, Polls
  <2> QED
    BY <2>6, <2>7
<1> QED
  BY <1>1, <1>3, <1>4

LEMMA FlushInv ==
  ASSUME LockInv, Flush
  PROVE  LockInv'
<1>1. faults' \in 0..MaxFaults /\ slips' \in 0..MaxFaults /\ slips' <= faults' /\ slips' # 0
  BY FaultType DEF LockInv, Flush
<1> QED
  BY <1>1, KeyType DEF LockInv, Flush, TypeOK

LEMMA PollingInv ==
  ASSUME LockInv, NEW p \in Processes, Polling(p) \/ PollingFails(p)
  PROVE  LockInv'
<1>1. CASE PollAgain(p) \/ PollingFails(p) \/ Stopped(p)
  <2>1. PICK place \in {"leaving", "retrying", "polling"} : Goes(p, place)
    BY <1>1 DEF PollAgain, PollingFails, Stopped
  <2>2. place \in Places /\ main[p] \in {"polling", "retrying"} /\ lost' \subseteq Processes
        /\ UNCHANGED <<lock, renewer, due, faults, slips>>
    BY <1>1 DEF PollAgain, PollingFails, Stopped, Places, Starting, Fine, LockInv, TypeOK
  <2> QED
    BY <2>1, <2>2, StepOn DEF Starting
<1>2. CASE Leave(p)
  <2> USE <1>2 DEF Leave
  <2>1. CASE Goes(p, "freeing") /\ Mine(p) /\ Fine
    <3> USE <2>1 DEF LockInv, Goes, Renewer, Fine, Mine
    <3>1. TypeOK'
      BY DEF TypeOK, Places, Starting, Tasks
    <3>2. \A q \in Processes : /\ main'[q] = IF q = p THEN "freeing" ELSE main[q]
                               /\ q # p => renewer'[q] = renewer[q] /\ (q \in due' <=> q \in due)
      BY DEF TypeOK
    <3> QED
      BY <3>1, <3>2 DEF OwnersRight, StartsFresh, Renewed, Owns, Starting, Polls
  <2>2. CASE Goes(p, "ended")
    <3>1. "ended" \in Places /\ "none" \in Tasks
      BY DEF Places, Starting, Tasks
    <3> QED
      BY <2>2, <3>1, StepAside DEF Starting
  <2> QED
    BY <2>1, <2>2
<1> QED
  BY <1>1, <1>2, AcquireInv, EnterInv, FreeInv DEF Polling

LEMMA OtherInv ==
  ASSUME LockInv, NEW p \in Processes,
         Start(p) \/ AskingFails(p) \/ PollingDies(p) \/ StopBot(p) \/ Exit(p)
  PROVE  LockInv'
<1> USE DEF LockInv
<1>1. /\ {"asking", "ended", "leaving", "down"} \subseteq Places /\ "none" \in Tasks
      /\ renewer[p] \in Tasks
  BY DEF Places, Starting, Tasks, TypeOK
<1>2. CASE Start(p)
  BY <1>1, <1>2, StepAside DEF Starting, Start
<1>3. CASE AskingFails(p)
  BY <1>1, <1>3, StepAside DEF Starting, AskingFails
<1>4. CASE PollingDies(p)
  BY <1>1, <1>4, StepAside DEF Starting, PollingDies
<1>5. CASE StopBot(p)
  <2>1. CASE Goes(p, "ended") /\ Renewer(p, "none") /\ due' = due \ {p}
    BY <1>1, <1>5, <2>1, StepAside DEF Starting, StopBot
  <2>2. CASE Goes(p, "leaving") /\ UNCHANGED <<renewer, due>>
    BY <1>1, <1>5, <2>2, StepAside DEF Starting, StopBot
  <2> QED
    BY <1>5, <2>1, <2>2 DEF StopBot
<1>6. CASE Exit(p)
  BY <1>1, <1>6, StepAside DEF Starting, Exit
<1> QED
  BY <1>2, <1>3, <1>4, <1>5, <1>6

LEMMA LockStepInv == LockInv /\ [Next]_vars => LockInv'
<1> SUFFICES ASSUME LockInv, [Next]_vars PROVE LockInv'
  OBVIOUS
<1>1. CASE UNCHANGED vars
  BY <1>1 DEF vars, LockInv, TypeOK, OwnersRight, StartsFresh, Renewed, Owns, Starting, Polls
<1> QED
  BY <1>1, RenewingInv, PollingInv, OtherInv, TickInv, FlushInv DEF Next, Renewing

----------------------------------------------------------------------------
\* The inductive invariant: who acts as the owner is the owner, and the key of who
\* polls was renewed in this period or the last one.
THEOREM LockInductive == Spec => []LockInv
  BY LockInitInv, LockStepInv, PTL DEF Spec

\* Every variable of the polling lock keeps its type.
THEOREM LockTypeCorrect == Spec => []TypeOK
<1>1. LockInv => TypeOK
  BY DEF LockInv
<1> QED
  BY <1>1, LockInductive, PTL

\* Without a stall or a fault of Redis only the owner of the key polls, through crashes,
\* shutdowns and errors of Telegram (_run_polling_singleton, _renew_polling_lock_loop).
THEOREM PollersOwn == Spec => []OnlyOwnerPolls
<1>1. LockInv => OnlyOwnerPolls
  BY DEF LockInv, OwnersRight, Owns, Starting, Polls, OnlyOwnerPolls
<1> QED
  BY <1>1, LockInductive, PTL
=============================================================================
