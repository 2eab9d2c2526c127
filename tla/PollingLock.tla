----------------------------- MODULE PollingLock -----------------------------
(***************************************************************************)
(* The Redis lock that lets one back-end process at a time read the bot's  *)
(* updates (src/app/telegram/bot.py).  A process asks for the lock with    *)
(* SET NX EX, polls while a second task renews the key by GET and EXPIRE,  *)
(* and gives it up by GET and DELETE.  Time is counted in renewal periods  *)
(* (ten seconds); the key lives Ttl of them.                               *)
(***************************************************************************)
EXTENDS Naturals, FiniteSets

CONSTANTS Processes, NoOne,
          Ttl,        \* POLLING_LOCK_TTL_SECONDS in renewal periods
          Faults,     \* what may go wrong in this instance
          MaxFaults   \* bound: how often

ASSUME LockConstants ==
    /\ NoOne \notin Processes
    /\ Ttl \in Nat \ {0, 1}   \* the key outlives a period
    /\ MaxFaults \in Nat
    /\ Faults \subseteq {"crash", "fatal", "stall", "redis", "flush"}

VARIABLES
    lock,     \* the Redis key: who owns it, and the periods it has to live
    main,     \* where the polling task of each process is
    renewer,  \* where its renewal task is
    due,      \* whose renewal is to happen before the next tick
    lost,     \* _polling_lock_lost is set
    faults,   \* how many faults there were
    slips     \* how many of them Redis or the clock made

vars == <<lock, main, renewer, due, lost, faults, slips>>

Starting == {"starting", "confirmed"}
Places == Starting \cup
    {"down", "asking", "polling", "retrying", "leaving", "freeing", "ended"}
Tasks == {"none", "asleep", "checked", "broken", "over"}
NoLock == [owner |-> NoOne, left |-> 0]

TypeOK ==
    /\ lock \in [owner : Processes \cup {NoOne}, left : 0..Ttl]
    /\ lock.owner = NoOne <=> lock.left = 0
    /\ main \in [Processes -> Places]
    /\ renewer \in [Processes -> Tasks]
    /\ due \subseteq Processes
    /\ lost \subseteq Processes
    /\ faults \in 0..MaxFaults /\ slips \in 0..MaxFaults

Init ==
    /\ lock = NoLock
    /\ main = [p \in Processes |-> "down"]
    /\ renewer = [p \in Processes |-> "none"]
    /\ due = {} /\ lost = {}
    /\ faults = 0 /\ slips = 0

\* Something goes wrong that the protocol is meant to stand,
Harmless(kind) ==
    kind \in Faults /\ faults < MaxFaults /\ faults' = faults + 1 /\ UNCHANGED slips

\* or that undermines it.
Slip(kind) ==
    kind \in Faults /\ faults < MaxFaults /\ faults' = faults + 1 /\ slips' = slips + 1

Fine == UNCHANGED <<faults, slips>>

Goes(p, place) == main' = [main EXCEPT ![p] = place]
Renewer(p, place) == renewer' = [renewer EXCEPT ![p] = place]

----------------------------------------------------------------------------
(* The polling task. *)

\* The application starts: start_polling creates the task.
Start(p) ==
    /\ main[p] = "down"
    /\ Goes(p, "asking")
    /\ lost' = lost \ {p} /\ due' = due \ {p} /\ Renewer(p, "none")
    /\ Fine /\ UNCHANGED lock

\* What SET NX EX makes of the key.
Acquired(p) == [owner |-> p, left |-> Ttl]

Acquire(p) ==
    /\ main[p] = "asking" /\ lock.owner = NoOne
    /\ lock' = Acquired(p) /\ Goes(p, "starting") /\ lost' = lost \ {p}
    /\ Fine /\ UNCHANGED <<renewer, due>>

\* An exception of Redis before the try block ends the task for good.
AskingFails(p) ==
    /\ main[p] \in {"asking"} \cup Starting
    /\ Slip("redis") /\ Goes(p, "ended")
    /\ UNCHANGED <<lock, renewer, due, lost>>

\* Mutant: the renewal does not extend the key.
ExtendedNot == lock

\* EXPIRE: whoever owns the key, it lives on.
Extended == IF lock.owner = NoOne THEN NoLock ELSE [lock EXCEPT !.left = Ttl]

\* GET answers with the identity of this process.
Mine(p) == lock.owner = p

\* The polling starts, and with it the task that renews the key.
Polled(p) == Goes(p, "polling") /\ Renewer(p, "asleep") /\ due' = due \ {p}

\* The first renewal, whose answer nobody looks at: its first await asks whose the
\* key is,
Confirm(p) ==
    /\ main[p] = "starting"
    /\ IF Mine(p) THEN Goes(p, "confirmed") /\ UNCHANGED <<renewer, due>> ELSE Polled(p)
    /\ Fine /\ UNCHANGED <<lock, lost>>

\* its second extends the key, whoever owns it by now.
Enter(p) ==
    /\ main[p] = "confirmed"
    /\ lock' = Extended /\ Polled(p)
    /\ Fine /\ UNCHANGED lost

\* A conflict, a capture to be retried or a network error ends the call of
\* start_polling; it is called again after a pause unless the lock was lost.
PollingFails(p) ==
    /\ main[p] = "polling"
    /\ Goes(p, IF p \in lost THEN "leaving" ELSE "retrying")
    /\ Fine /\ UNCHANGED <<lock, renewer, due, lost>>

PollAgain(p) ==
    /\ main[p] = "retrying"
    /\ Goes(p, IF p \in lost THEN "leaving" ELSE "polling")
    /\ Fine /\ UNCHANGED <<lock, renewer, due, lost>>

\* Any other error is not caught there.
PollingDies(p) ==
    /\ main[p] = "polling"
    /\ Harmless("fatal") /\ Goes(p, "leaving")
    /\ UNCHANGED <<lock, renewer, due, lost>>

\* start_polling returns after stop_polling.
Stopped(p) ==
    /\ main[p] = "polling" /\ p \in lost
    /\ Goes(p, "leaving")
    /\ Fine /\ UNCHANGED <<lock, renewer, due, lost>>

\* Mutant: the finally block forgets to cancel the renewal.
LeaveRenewing(p) ==
    /\ main[p] = "leaving"
    /\ \/ Goes(p, IF renewer[p] # "broken" /\ Mine(p) THEN "freeing" ELSE "ended") /\ Fine
       \/ Goes(p, "ended") /\ Slip("redis")
    /\ UNCHANGED <<lock, lost, renewer, due>>

\* The finally block: the renewal is cancelled; if it had ended with an exception
\* that exception is raised here and the lock is not released.
Leave(p) ==
    /\ main[p] = "leaving"
    /\ Renewer(p, "none") /\ due' = due \ {p}
    /\ \/ Goes(p, IF renewer[p] # "broken" /\ Mine(p) THEN "freeing" ELSE "ended") /\ Fine
       \/ Goes(p, "ended") /\ Slip("redis")
    /\ UNCHANGED <<lock, lost>>

\* The key was this process's own when it asked; it deletes whatever is there now.
Free(p) ==
    /\ main[p] = "freeing"
    /\ Goes(p, "ended")
    /\ \/ lock' = NoLock /\ Fine
       \/ UNCHANGED lock /\ Slip("redis")
    /\ UNCHANGED <<renewer, due, lost>>

----------------------------------------------------------------------------
(* The renewal task. *)

\* Mutant: the renewal notices that the key is lost and ends without a word.
LoseLockQuietly(p) ==
    /\ renewer[p] = "asleep" /\ p \in due /\ ~Mine(p)
    /\ Renewer(p, "over") /\ due' = due \ {p}
    /\ Fine /\ UNCHANGED <<lock, main, lost>>

\* Its first await: the key is not this process's own any more.
LoseLock(p) ==
    /\ renewer[p] = "asleep" /\ p \in due /\ ~Mine(p)
    /\ lost' = lost \cup {p}
    \* stop_polling raises when no polling runs, and the task ends with that
    /\ Renewer(p, IF main[p] = "polling" THEN "over" ELSE "broken") /\ due' = due \ {p}
    /\ Fine /\ UNCHANGED <<lock, main>>

Check(p) ==
    /\ renewer[p] = "asleep" /\ p \in due /\ Mine(p)
    /\ Renewer(p, "checked")
    /\ Fine /\ UNCHANGED <<lock, main, due, lost>>

\* Its second await: EXPIRE answers whether there is a key, whoever owns it.
Renew(p) ==
    /\ renewer[p] = "checked" /\ due' = due \ {p} /\ Fine
    /\ \/ /\ lock.owner # NoOne /\ lock' = Extended
          /\ Renewer(p, "asleep") /\ UNCHANGED <<main, lost>>
       \/ /\ lock.owner = NoOne /\ lost' = lost \cup {p}
          /\ Renewer(p, IF main[p] = "polling" THEN "over" ELSE "broken")
          /\ UNCHANGED <<lock, main>>

\* An exception of Redis ends the loop; the polling goes on.
RenewalFails(p) ==
    /\ renewer[p] \in {"asleep", "checked"} /\ p \in due
    /\ Slip("redis") /\ Renewer(p, "broken") /\ due' = due \ {p}
    /\ UNCHANGED <<lock, main, lost>>

----------------------------------------------------------------------------
(* Shutdown, crashes and time. *)

\* stop_bot: the task is told to stop and cancelled; wherever the cancellation
\* finds it, it may end there and then or run its finally block to the end.
StopBot(p) ==
    /\ main[p] \notin {"down", "ended"}
    /\ lost' = lost \cup {p}
    /\ \/ /\ main[p] \in {"asking", "leaving", "freeing"} \cup Starting
          /\ Goes(p, "ended") /\ Renewer(p, "none") /\ due' = due \ {p}
       \/ /\ main[p] \in {"polling", "retrying"}
          /\ Goes(p, "leaving") /\ UNCHANGED <<renewer, due>>
    /\ Fine /\ UNCHANGED lock

\* The process is gone: after its shutdown, or by a crash.
Exit(p) ==
    /\ main[p] # "down"
    /\ IF main[p] = "ended" THEN Fine ELSE Harmless("crash")
    /\ Goes(p, "down") /\ Renewer(p, "none") /\ due' = due \ {p} /\ lost' = lost \ {p}
    /\ UNCHANGED lock

\* Who has to act before the next period is over: a renewal that is due, and a
\* process between two commands of Redis.
Late(p) == p \in due \/ main[p] \in {"freeing"} \cup Starting

\* A period passes.  Where a process does not act in time its event loop is stalled.
Tick ==
    /\ \/ (\A p \in Processes : ~Late(p)) /\ Fine
       \/ (\E p \in Processes : Late(p)) /\ Slip("stall")
    /\ lock' = IF lock.left <= 1 THEN NoLock ELSE [lock EXCEPT !.left = @ - 1]
    /\ due' = due \cup {p \in Processes : renewer[p] = "asleep"}
    /\ UNCHANGED <<main, renewer, lost>>

\* Redis loses its data.
Flush ==
    /\ Slip("flush") /\ lock' = NoLock
    /\ UNCHANGED <<main, renewer, due, lost>>

Polling(p) == Acquire(p) \/ Confirm(p) \/ Enter(p) \/ PollAgain(p) \/ Stopped(p) \/ Leave(p) \/ Free(p)
Renewing(p) == LoseLock(p) \/ Check(p) \/ Renew(p)

Next ==
    \/ \E p \in Processes :
          \/ Start(p) \/ AskingFails(p) \/ PollingFails(p) \/ PollingDies(p) \/ Polling(p)
          \/ RenewalFails(p) \/ Renewing(p)
          \/ StopBot(p) \/ Exit(p)
    \/ Tick \/ Flush

Spec == Init /\ [][Next]_vars

\* The tasks of a process that runs go on, and time passes, however often processes
\* are started and stopped.
FairSpec ==
    /\ Spec /\ SF_vars(Tick)
    /\ \A p \in Processes : WF_vars(Polling(p)) /\ WF_vars(Renewing(p))

----------------------------------------------------------------------------
Polls(p) == main[p] \in {"polling", "retrying"}

\* As long as Redis answers in time and keeps its data, only the owner of the key
\* polls, through crashes, shutdowns and errors of Telegram.
OnlyOwnerPolls ==
    slips = 0 => \A p \in Processes : Polls(p) => lock.owner = p

\* A process that polls without the key, and whose renewal task is alive, stops or
\* gets the key back: two processes poll at the same time for a while only.
IntrudersLeave ==
    \A p \in Processes :
        LET intrudes == Polls(p) /\ ~Mine(p) /\ renewer[p] # "broken"
        IN  intrudes ~> ~intrudes

\* A process that waits for the key gets its turn once nobody else is running.
Takeover ==
    \A p \in Processes :
        LET alone == main[p] = "asking" /\ \A q \in Processes \ {p} : main[q] \in {"down", "ended"}
        IN  alone ~> ~alone
=============================================================================
