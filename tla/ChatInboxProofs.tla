-------------------------- MODULE ChatInboxProofs ---------------------------
(***************************************************************************)
(* Proofs about ChatInbox, for any processes, messages, feed of updates    *)
(* and number of faults.                                                   *)
(***************************************************************************)
EXTENDS ChatInbox, Integers, FiniteSetTheorems, SequenceTheorems, TLAPS

----------------------------------------------------------------------------
(* Where the processes are in the feed. *)

Busy ==
    {"handling", "unknown", "edited", "inserting", "counting", "publishing", "sent", "swapped"}
Behind == {"edited", "publishing", "sent", "swapped"}

\* A process handles an update that has arrived; after "handling" it is a capture.
Placed(p) ==
    /\ step[p] = "polling" => at[p] <= arrived + 1
    /\ step[p] \in Busy => 1 <= at[p] /\ at[p] <= last[p] /\ last[p] <= arrived
    /\ step[p] \in Busy \ {"handling"} => Handled(p).kind # "other"
    /\ step[p] = "counting" => own[p] \in {0, 1}

\* The content of a stored message came with an update of that message.
StoredReal ==
    \A m \in Messages : stored[m] # 0 =>
        /\ stored[m] \in DOMAIN Updates
        /\ Updates[stored[m]].message = m /\ Updates[stored[m]].kind # "other"

FeedInv ==
    /\ TypeOK /\ arrived <= Len(Updates)
    /\ \A p \in Processes : Placed(p)
    /\ StoredReal

LEMMA UpdatesTyped ==
    /\ Len(Updates) \in Nat /\ DOMAIN Updates = 1..Len(Updates)
    /\ \A i \in DOMAIN Updates :
          /\ Updates[i].kind \in {"new", "edit", "other"}
          /\ Updates[i].message \in Messages /\ Updates[i].date \in Nat
<1> DEFINE Update == [kind : {"new", "edit", "other"}, message : Messages, date : Nat]
<1>1. Updates \in Seq(Update)
  BY InboxConstants
<1>2. Len(Updates) \in Nat /\ DOMAIN Updates = 1..Len(Updates)
  BY <1>1, LenProperties
<1>3. \A i \in DOMAIN Updates : Updates[i] \in Update
  BY <1>1, <1>2, ElementOfSeq
<1> QED
  BY <1>2, <1>3

\* The update a busy process handles.
LEMMA HandledTyped ==
  ASSUME FeedInv, NEW p \in Processes, step[p] \in Busy
  PROVE  /\ at[p] \in DOMAIN Updates /\ at[p] \in Nat /\ at[p] # 0
         /\ Mine(p) \in Messages /\ Handled(p).date \in Nat
         /\ Handled(p).kind \in {"new", "edit", "other"}
<1>1. at[p] \in 1..Len(Updates)
  BY UpdatesTyped DEF FeedInv, TypeOK, Placed, Ids
<1> QED
  BY <1>1, UpdatesTyped DEF Mine, Handled

\* What the steps of a process do to the places.
LEMMA FreshPlaced ==
  ASSUME FeedInv, NEW p \in Processes, Fresh(p), arrived' = arrived
  PROVE  /\ step' \in [Processes -> Steps] /\ at' \in [Processes -> Ids]
         /\ last' \in [Processes -> Ids] /\ own' \in [Processes -> Nat]
         /\ \A q \in Processes : Placed(q)'
<1>1. /\ step' \in [Processes -> Steps] /\ at' \in [Processes -> Ids]
      /\ last' \in [Processes -> Ids] /\ own' \in [Processes -> Nat]
  BY UpdatesTyped DEF FeedInv, TypeOK, Fresh, Goes, Steps, Ids
<1>2. step'[p] = "polling" /\ at'[p] = 0
  BY DEF FeedInv, TypeOK, Fresh, Goes
<1>3. Placed(p)'
  BY <1>2 DEF FeedInv, TypeOK, Placed, Busy, Ids
<1>4. \A q \in Processes \ {p} : Placed(q)'
  BY DEF FeedInv, TypeOK, Fresh, Goes, Placed, Handled
<1> QED
  BY <1>1, <1>3, <1>4

LEMMA DonePlaced ==
  ASSUME FeedInv, NEW p \in Processes, Done(p), step[p] \in Busy, arrived' = arrived
  PROVE  /\ step' \in [Processes -> Steps] /\ at' \in [Processes -> Ids]
         /\ last' \in [Processes -> Ids] /\ own' \in [Processes -> Nat]
         /\ \A q \in Processes : Placed(q)'
<1>1. /\ 1 <= at[p] /\ at[p] <= last[p] /\ last[p] <= arrived /\ arrived <= Len(Updates)
      /\ at[p] \in Nat /\ last[p] \in Nat /\ arrived \in Nat
  BY DEF FeedInv, TypeOK, Placed, Ids
<1>2. /\ step'[p] = (IF at[p] = last[p] THEN "polling" ELSE "handling")
      /\ at'[p] = at[p] + 1 /\ last'[p] = (IF at[p] = last[p] THEN 0 ELSE last[p])
  BY DEF FeedInv, TypeOK, Done, Goes
<1>3. step' \in [Processes -> Steps] /\ own' \in [Processes -> Nat]
  BY DEF FeedInv, TypeOK, Done, Goes, Steps
<1>4. at' \in [Processes -> Ids] /\ last' \in [Processes -> Ids]
  BY <1>1, UpdatesTyped DEF FeedInv, TypeOK, Done, Ids
<1>5. Placed(p)'
  BY <1>1, <1>2 DEF Placed, Busy
<1>6. \A q \in Processes \ {p} : Placed(q)'
  BY DEF FeedInv, TypeOK, Done, Goes, Placed, Handled
<1> QED
  BY <1>3, <1>4, <1>5, <1>6

\* A busy process goes on with its update.
LEMMA GoesPlaced ==
  ASSUME FeedInv, NEW p \in Processes, step[p] \in Busy, Handled(p).kind # "other",
         NEW place \in Busy, Goes(p, place), at' = at, last' = last,
         NEW mine \in Nat, own' = [own EXCEPT ![p] = mine],
         place = "counting" => mine \in {0, 1}, arrived' = arrived
  PROVE  /\ step' \in [Processes -> Steps] /\ own' \in [Processes -> Nat]
         /\ \A q \in Processes : Placed(q)'
<1>1. step' \in [Processes -> Steps] /\ own' \in [Processes -> Nat]
  BY DEF FeedInv, TypeOK, Goes, Steps, Busy
<1>2. step'[p] = place /\ own'[p] = mine
  BY DEF FeedInv, TypeOK, Goes
<1>3. Placed(p)'
  BY <1>2 DEF FeedInv, Placed, Handled, Busy
<1>4. \A q \in Processes \ {p} : Placed(q)'
  BY DEF FeedInv, TypeOK, Goes, Placed, Handled
<1> QED
  BY <1>1, <1>3, <1>4

LEMMA FeedInit == Init => FeedInv
<1> SUFFICES ASSUME Init PROVE FeedInv
  OBVIOUS
<1>1. /\ arrived \in Ids /\ confirmed \in 0..arrived /\ arrived <= Len(Updates)
      /\ step \in [Processes -> Steps] /\ at \in [Processes -> Ids] /\ last \in [Processes -> Ids]
      /\ own \in [Processes -> Nat] /\ stored \in [Messages -> Ids]
  BY UpdatesTyped DEF Init, Ids, Steps
<1>2. reading \in Seq(Nat) /\ Len(reading) <= 1
  BY EmptySeq DEF Init
<1>3. online \in BOOLEAN /\ viewing \in BOOLEAN /\ (viewing => online)
  BY Zenon DEF Init
<1>4. /\ key \in Nat /\ shown \subseteq Nat /\ nextId \in Nat
      /\ unread \in Nat /\ pending \subseteq Messages /\ faults \in 0..MaxFaults
  BY InboxConstants DEF Init
<1>5. TypeOK
  BY <1>1, <1>2, <1>3, <1>4 DEF TypeOK
<1> QED
  BY <1>1, <1>5 DEF Init, FeedInv, Placed, StoredReal, Busy

LEMMA FeedNext == FeedInv /\ [Next]_vars => FeedInv'
<1> SUFFICES ASSUME FeedInv, [Next]_vars PROVE FeedInv'
  OBVIOUS
<1> USE DEF feed, chat, notices, desk
<1>1. CASE UNCHANGED vars
  BY <1>1 DEF vars, FeedInv, TypeOK, Placed, Handled, StoredReal
\* What a step of a process leaves alone.
<1>2. ASSUME /\ step' \in [Processes -> Steps] /\ at' \in [Processes -> Ids]
             /\ last' \in [Processes -> Ids] /\ own' \in [Processes -> Nat]
             /\ \A q \in Processes : Placed(q)',
             arrived' = arrived, confirmed' \in 0..arrived, faults' \in 0..MaxFaults,
             stored' \in [Messages -> Ids], StoredReal', unread' \in Nat, pending' \subseteq Messages,
             key' \in Nat, shown' \subseteq Nat, nextId' \in Nat,
             UNCHANGED <<reading, desk>>
      PROVE  FeedInv'
  BY <1>2 DEF FeedInv, TypeOK
<1>3. ASSUME UNCHANGED stored PROVE stored' \in [Messages -> Ids] /\ StoredReal'
  BY <1>3 DEF FeedInv, TypeOK, StoredReal
<1>4. ASSUME NEW kind, Fine \/ Fault(kind) PROVE faults' \in 0..MaxFaults
  BY <1>4, InboxConstants DEF FeedInv, TypeOK, Fine, Fault
<1>5. CASE Arrive
  <2>1. arrived' = arrived + 1 /\ arrived' <= Len(Updates) /\ arrived' \in Ids /\ arrived \in Nat
    BY <1>5, UpdatesTyped DEF Arrive, FeedInv, TypeOK, Ids
  <2>2. \A q \in Processes : Placed(q)'
    BY <1>5, <2>1 DEF Arrive, FeedInv, TypeOK, Placed, Handled, Ids
  <2> QED
    BY <1>5, <2>1, <2>2 DEF Arrive, Fine, FeedInv, TypeOK, StoredReal
<1>6. CASE BeginRead \/ EndRead \/ Stream \/ View
  <2>1. reading' \in Seq(Nat) /\ Len(reading') <= 1 /\ unread' \in Nat /\ pending' \subseteq Messages
    <3>1. CASE BeginRead
      <4>1. <<unread>> \in Seq(Nat) /\ Len(<<unread>>) = 1
        BY DEF FeedInv, TypeOK
      <4> QED
        BY <3>1, <4>1 DEF BeginRead, FeedInv, TypeOK
    <3>2. CASE EndRead
      BY <3>2, EmptySeq DEF EndRead, FeedInv, TypeOK
    <3>3. CASE Stream \/ View
      BY <3>3 DEF Stream, View, FeedInv, TypeOK
    <3> QED
      BY <1>6, <3>1, <3>2, <3>3
  <2>2. online' \in BOOLEAN /\ viewing' \in BOOLEAN /\ (viewing' => online')
    <3>1. online \in BOOLEAN /\ viewing \in BOOLEAN /\ (viewing => online)
      BY DEF FeedInv, TypeOK
    <3>2. CASE BeginRead \/ EndRead
      BY <3>1, <3>2 DEF BeginRead, EndRead
    <3>3. CASE Stream
      BY <3>1, <3>3 DEF Stream
    <3>4. CASE View
      BY <3>1, <3>4 DEF View
    <3> QED
      BY <1>6, <3>2, <3>3, <3>4
  <2>3. UNCHANGED <<feed, step, at, last, own, notices, stored, faults>>
    BY <1>6 DEF BeginRead, EndRead, Stream, View, Fine
  <2>4. /\ \A q \in Processes : Placed(q)'
        /\ StoredReal'
    BY <2>3 DEF FeedInv, Placed, Handled, StoredReal
  <2> QED
    BY <2>1, <2>2, <2>3, <2>4 DEF FeedInv, TypeOK
<1>7. ASSUME NEW p \in Processes, Start(p) PROVE FeedInv'
  BY <1>2, <1>3, <1>4, <1>7, FreshPlaced DEF Start, FeedInv, TypeOK
<1>8. ASSUME NEW p \in Processes, Fetch(p) PROVE FeedInv'
  <2>1. /\ step[p] = "polling" /\ confirmed' = Confirmed(p) /\ arrived' = arrived
        /\ UNCHANGED <<own, notices, chat, reading, desk, faults>>
    BY <1>8 DEF Fetch, Fine
  <2>2. /\ Confirmed(p) \in 0..arrived /\ arrived \in Nat /\ confirmed' \in 0..arrived
        /\ Confirmed(p) \in Nat
    BY <2>1, UpdatesTyped DEF Confirmed, FeedInv, TypeOK, Placed, Ids
  <2>3. CASE Confirmed(p) < arrived
    <3>1. /\ Goes(p, "handling") /\ at' = [at EXCEPT ![p] = Confirmed(p) + 1]
          /\ last' = [last EXCEPT ![p] = arrived]
      BY <1>8, <2>1, <2>3 DEF Fetch
    <3>2. Confirmed(p) + 1 \in Ids /\ arrived \in Ids
      <4>1. arrived \in Ids /\ arrived <= Len(Updates) /\ Len(Updates) \in Nat
        BY UpdatesTyped DEF FeedInv, TypeOK
      <4> QED
        BY <2>2, <2>3, <4>1 DEF Ids
    <3>3. /\ step' \in [Processes -> Steps] /\ at' \in [Processes -> Ids]
          /\ last' \in [Processes -> Ids] /\ own' \in [Processes -> Nat]
      BY <2>1, <3>1, <3>2 DEF FeedInv, TypeOK, Goes, Steps
    <3>4. step'[p] = "handling" /\ at'[p] = Confirmed(p) + 1 /\ last'[p] = arrived
      BY <3>1 DEF FeedInv, TypeOK, Goes
    <3>5. Placed(p)'
      BY <2>1, <2>2, <2>3, <3>4 DEF Placed, Busy
    <3>6. \A q \in Processes \ {p} : Placed(q)'
      BY <2>1, <3>1 DEF FeedInv, TypeOK, Goes, Placed, Handled
    <3> QED
      BY <1>2, <1>3, <2>1, <2>2, <3>3, <3>5, <3>6 DEF FeedInv, TypeOK
  <2>4. CASE ~(Confirmed(p) < arrived)
    <3>1. UNCHANGED <<step, at, last>>
      BY <1>8, <2>1, <2>4 DEF Fetch
    <3>2. \A q \in Processes : Placed(q)'
      BY <2>1, <3>1 DEF FeedInv, Placed, Handled
    <3> QED
      BY <1>2, <1>3, <2>1, <2>2, <3>1, <3>2 DEF FeedInv, TypeOK
  <2> QED
    BY <2>3, <2>4
<1>9. ASSUME NEW p \in Processes, Conflict(p) \/ CaptureFails(p) PROVE FeedInv'
  <2>1. Fresh(p) /\ UNCHANGED <<feed, notices, chat, reading, desk>> /\ \E kind : Fault(kind)
    BY <1>9 DEF Conflict, CaptureFails, Retried
  <2> QED
    BY <1>2, <1>3, <1>4, <2>1, FreshPlaced DEF FeedInv, TypeOK
<1>10. ASSUME NEW p \in Processes, Elsewhere(p) \/ PublishEdit(p) \/ Wake(p) PROVE FeedInv'
  <2>1. Done(p) /\ Fine /\ UNCHANGED <<feed, notices, chat, reading, desk>> /\ step[p] \in Busy
    BY <1>10 DEF Elsewhere, PublishEdit, Wake, Busy
  <2> QED
    BY <1>2, <1>3, <1>4, <2>1, DonePlaced DEF FeedInv, TypeOK
<1>11. ASSUME NEW p \in Processes, CaptureEdit(p) PROVE FeedInv'
  <2>1. /\ step[p] = "handling" /\ Handled(p).kind = "edit" /\ Fine /\ step[p] \in Busy
        /\ UNCHANGED <<feed, at, last, own, notices, unread, pending, reading, desk>>
    BY <1>11 DEF CaptureEdit, Busy
  <2>2. CASE stored[Mine(p)] # 0
    <3>1. /\ Goes(p, "edited")
          /\ stored' = [stored EXCEPT ![Mine(p)] = IF Outdated(p) THEN stored[Mine(p)] ELSE at[p]]
      BY <1>11, <2>2 DEF CaptureEdit
    <3>2. at[p] \in Ids /\ at[p] \in DOMAIN Updates
      BY <2>1, HandledTyped DEF FeedInv, TypeOK
    <3>3. stored' \in [Messages -> Ids]
      BY <3>1, <3>2 DEF FeedInv, TypeOK
    <3>4. StoredReal'
      BY <2>1, <3>1, <3>2 DEF FeedInv, TypeOK, StoredReal, Mine, Handled
    <3>5. own' = [own EXCEPT ![p] = own[p]] /\ own[p] \in Nat
      BY <2>1 DEF FeedInv, TypeOK
    <3>6. /\ step' \in [Processes -> Steps] /\ own' \in [Processes -> Nat]
          /\ \A q \in Processes : Placed(q)'
      BY <2>1, <3>1, <3>5, GoesPlaced DEF Busy
    <3> QED
      BY <1>2, <1>4, <2>1, <3>3, <3>4, <3>6 DEF FeedInv, TypeOK
  <2>3. CASE stored[Mine(p)] = 0
    <3>1. Goes(p, "unknown") /\ UNCHANGED stored
      BY <1>11, <2>3 DEF CaptureEdit
    <3>2. own' = [own EXCEPT ![p] = own[p]] /\ own[p] \in Nat
      BY <2>1 DEF FeedInv, TypeOK
    <3>3. /\ step' \in [Processes -> Steps] /\ own' \in [Processes -> Nat]
          /\ \A q \in Processes : Placed(q)'
      BY <2>1, <3>1, <3>2, GoesPlaced DEF Busy
    <3> QED
      BY <1>2, <1>3, <1>4, <2>1, <3>1, <3>3 DEF FeedInv, TypeOK
  <2> QED
    BY <2>2, <2>3
<1>12. ASSUME NEW p \in Processes, CaptureInbound(p) PROVE FeedInv'
  <2>1. /\ step[p] \in {"handling", "unknown"} /\ step[p] \in Busy /\ Handled(p).kind # "other"
        /\ Fine /\ UNCHANGED <<feed, notices, stored, pending, reading, desk>>
    BY <1>12 DEF CaptureInbound, Busy, FeedInv, Placed
  <2>2. CASE Known(Mine(p))
    <3>1. Done(p) /\ unread' = unread
      BY <1>12, <2>2 DEF CaptureInbound, CountedKnown
    <3> QED
      BY <1>2, <1>3, <1>4, <2>1, <3>1, DonePlaced DEF FeedInv, TypeOK
  <2>3. CASE ~Known(Mine(p))
    <3>1. Goes(p, "inserting") /\ UNCHANGED <<at, last, own, unread>>
      BY <1>12, <2>3 DEF CaptureInbound
    <3>2. own' = [own EXCEPT ![p] = own[p]] /\ own[p] \in Nat
      BY <3>1 DEF FeedInv, TypeOK
    <3>3. /\ step' \in [Processes -> Steps] /\ own' \in [Processes -> Nat]
          /\ \A q \in Processes : Placed(q)'
      BY <2>1, <3>1, <3>2, GoesPlaced DEF Busy
    <3> QED
      BY <1>2, <1>3, <1>4, <2>1, <3>1, <3>3 DEF FeedInv, TypeOK
  <2> QED
    BY <2>2, <2>3
<1>13. ASSUME NEW p \in Processes, LookAtManager(p) PROVE FeedInv'
  <2>1. /\ step[p] \in Busy /\ Handled(p).kind # "other" /\ Fine
        /\ UNCHANGED <<feed, at, last, notices, chat, reading, desk>> /\ Goes(p, "counting")
    BY <1>13 DEF LookAtManager, Busy, FeedInv, Placed
  <2>2. /\ step' \in [Processes -> Steps] /\ own' \in [Processes -> Nat]
        /\ \A q \in Processes : Placed(q)'
    <3> DEFINE mine == IF viewing THEN 0 ELSE 1
    <3>1. own' = [own EXCEPT ![p] = mine] /\ mine \in {0, 1} /\ mine \in Nat
      BY <1>13 DEF LookAtManager
    <3> HIDE DEF mine
    <3> QED
      BY <2>1, <3>1, GoesPlaced DEF Busy
  <2> QED
    BY <1>2, <1>3, <1>4, <2>1, <2>2 DEF FeedInv, TypeOK
<1>14. ASSUME NEW p \in Processes, Commit(p) PROVE FeedInv'
  <2>1. /\ step[p] = "counting" /\ step[p] \in Busy /\ Handled(p).kind # "other" /\ Fine
        /\ stored' = [stored EXCEPT ![Mine(p)] = at[p]] /\ unread' = Counted(p)
        /\ pending' = IF own[p] = 1 THEN pending \cup {Mine(p)} ELSE pending
        /\ Goes(p, "publishing") /\ own' = [own EXCEPT ![p] = 0]
        /\ UNCHANGED <<feed, at, last, notices, reading, desk>>
    BY <1>14 DEF Commit, Busy, FeedInv, Placed
  <2>2. /\ step' \in [Processes -> Steps] /\ own' \in [Processes -> Nat]
        /\ \A q \in Processes : Placed(q)'
    BY <2>1, GoesPlaced DEF Busy
  <2>3. at[p] \in Ids /\ at[p] \in DOMAIN Updates /\ Mine(p) \in Messages
    BY <2>1, HandledTyped DEF FeedInv, TypeOK
  <2>4. stored' \in [Messages -> Ids] /\ unread' \in Nat /\ pending' \subseteq Messages
    BY <2>1, <2>3 DEF FeedInv, TypeOK, Counted
  <2>5. StoredReal'
    BY <2>1, <2>3 DEF FeedInv, TypeOK, StoredReal, Mine, Handled
  <2> QED
    BY <1>2, <1>4, <2>1, <2>2, <2>4, <2>5 DEF FeedInv, TypeOK
<1>15. ASSUME NEW p \in Processes, Refused(p) PROVE FeedInv'
  BY <1>2, <1>3, <1>4, <1>15, FreshPlaced DEF Refused, Retried, FeedInv, TypeOK
<1>16. ASSUME NEW p \in Processes, Send(p) PROVE FeedInv'
  <2>1. /\ step[p] \in Busy /\ Handled(p).kind # "other" /\ Fine /\ Goes(p, "sent")
        /\ own' = [own EXCEPT ![p] = nextId] /\ nextId \in Nat
        /\ UNCHANGED <<feed, at, last, key, chat, reading, desk>>
    BY <1>16 DEF Send, Busy, FeedInv, TypeOK, Placed
  <2>2. /\ step' \in [Processes -> Steps] /\ own' \in [Processes -> Nat]
        /\ \A q \in Processes : Placed(q)'
    BY <2>1, GoesPlaced DEF Busy
  <2>3. shown' \subseteq Nat /\ nextId' \in Nat
    BY <1>16 DEF Send, FeedInv, TypeOK
  <2> QED
    BY <1>2, <1>3, <1>4, <2>1, <2>2, <2>3 DEF FeedInv, TypeOK
<1>17. ASSUME NEW p \in Processes, Swap(p) PROVE FeedInv'
  <2>1. /\ step[p] \in Busy /\ Handled(p).kind # "other" /\ Fine /\ key' = own[p] /\ key' \in Nat
        /\ UNCHANGED <<feed, shown, nextId, chat, reading, desk>>
    BY <1>17 DEF Swap, Busy, FeedInv, TypeOK, Placed
  <2>2. CASE Replaced(p)
    <3>1. own' = [own EXCEPT ![p] = key] /\ Goes(p, "swapped") /\ UNCHANGED <<at, last>> /\ key \in Nat
      BY <1>17, <2>2 DEF Swap, FeedInv, TypeOK
    <3>2. /\ step' \in [Processes -> Steps] /\ own' \in [Processes -> Nat]
          /\ \A q \in Processes : Placed(q)'
      BY <2>1, <3>1, GoesPlaced DEF Busy
    <3> QED
      BY <1>2, <1>3, <1>4, <2>1, <3>1, <3>2 DEF FeedInv, TypeOK
  <2>3. CASE ~Replaced(p)
    <3>1. Done(p)
      BY <1>17, <2>3 DEF Swap
    <3> QED
      BY <1>2, <1>3, <1>4, <2>1, <3>1, DonePlaced DEF FeedInv, TypeOK
  <2> QED
    BY <2>2, <2>3
<1>18. ASSUME NEW p \in Processes, Delete(p) PROVE FeedInv'
  <2>1. /\ step[p] \in Busy /\ Fine /\ Done(p) /\ shown' \subseteq Nat
        /\ UNCHANGED <<feed, key, nextId, chat, reading, desk>>
    BY <1>18 DEF Delete, Busy, FeedInv, TypeOK
  <2> QED
    BY <1>2, <1>3, <1>4, <2>1, DonePlaced DEF FeedInv, TypeOK
<1>19. ASSUME NEW p \in Processes, NoticeFails(p) PROVE FeedInv'
  <2>1. /\ step[p] \in Busy /\ Done(p) /\ UNCHANGED <<feed, notices, chat, reading, desk>>
        /\ \E kind : Fault(kind)
    BY <1>19 DEF NoticeFails, Busy
  <2> QED
    BY <1>2, <1>3, <1>4, <2>1, DonePlaced DEF FeedInv, TypeOK
<1>20. ASSUME NEW p \in Processes, Crash(p) PROVE FeedInv'
  <2>1. /\ Goes(p, "off") /\ Fault("crash") /\ UNCHANGED <<feed, notices, chat, reading, desk>>
        /\ at' = [at EXCEPT ![p] = 0] /\ last' = [last EXCEPT ![p] = 0] /\ own' = [own EXCEPT ![p] = 0]
    BY <1>20 DEF Crash
  <2>2. /\ step' \in [Processes -> Steps] /\ at' \in [Processes -> Ids]
        /\ last' \in [Processes -> Ids] /\ own' \in [Processes -> Nat]
    BY <2>1, UpdatesTyped DEF FeedInv, TypeOK, Goes, Steps, Ids
  <2>3. step'[p] = "off"
    BY <2>1 DEF FeedInv, TypeOK, Goes
  <2>4. Placed(p)'
    BY <2>3 DEF Placed, Busy
  <2>5. \A q \in Processes \ {p} : Placed(q)'
    BY <2>1 DEF FeedInv, TypeOK, Goes, Placed, Handled
  <2> QED
    BY <1>2, <1>3, <1>4, <2>1, <2>2, <2>4, <2>5 DEF FeedInv, TypeOK
<1> QED
  BY <1>1, <1>5, <1>6, <1>7, <1>8, <1>9, <1>10, <1>11, <1>12, <1>13, <1>14, <1>15, <1>16, <1>17,
     <1>18, <1>19, <1>20 DEF Next, Handle

\* The variables keep their types, a process handles only updates that have arrived,
\* and what a message was stored from is an update of that message.
THEOREM FeedCorrect == Spec => []FeedInv
<1> QED
  BY FeedInit, FeedNext, PTL DEF Spec

----------------------------------------------------------------------------
(* What is confirmed is stored. *)

\* The message of an update is stored with that content or a later one.
Kept(i) ==
    Updates[i].kind # "other" =>
        LET kept == stored[Updates[i].message]
        IN  kept # 0 /\ Updates[kept].date >= Updates[i].date

\* So it is with what a process has confirmed or handled in its batch, with what it has
\* committed, and with an edit it found no message for that came in since.
KeptBy(p) ==
    /\ \A i \in DOMAIN Updates : i < at[p] => Kept(i)
    /\ step[p] \in Behind => Kept(at[p])
    /\ step[p] = "unknown" /\ stored[Mine(p)] # 0 => Kept(at[p])

KeptInv ==
    /\ \A i \in DOMAIN Updates : i <= confirmed => Kept(i)
    /\ \A p \in Processes : KeptBy(p)

\* What was stored stays, in the same or a later edit.
Grows ==
    \A m \in Messages : stored[m] # 0 =>
        stored'[m] # 0 /\ Updates[stored'[m]].date >= Updates[stored[m]].date

LEMMA KeptGrows ==
  ASSUME FeedInv, FeedInv', Grows, NEW i \in DOMAIN Updates, Kept(i)
  PROVE  Kept(i)'
<1> DEFINE m == Updates[i].message
<1>1. CASE Updates[i].kind = "other"
  BY <1>1 DEF Kept
<1>2. CASE Updates[i].kind # "other"
  <2>1. m \in Messages /\ Updates[i].date \in Nat
    BY UpdatesTyped
  <2>2. stored[m] # 0 /\ Updates[stored[m]].date >= Updates[i].date
    BY <1>2 DEF Kept
  <2>3. stored'[m] # 0 /\ Updates[stored'[m]].date >= Updates[stored[m]].date
    BY <2>1, <2>2 DEF Grows
  <2>4. stored[m] \in DOMAIN Updates /\ stored'[m] \in DOMAIN Updates
    BY <2>1, <2>2, <2>3 DEF FeedInv, StoredReal
  <2>5. Updates[stored[m]].date \in Nat /\ Updates[stored'[m]].date \in Nat
    BY <2>4, UpdatesTyped
  <2> QED
    BY <2>1, <2>2, <2>3, <2>5 DEF Kept
<1> QED
  BY <1>1, <1>2

LEMMA GrowsNot == ASSUME FeedInv, stored' = stored PROVE Grows
BY UpdatesTyped DEF FeedInv, StoredReal, Grows

\* Of two updates of a message the later one in the feed has the later date.
LEMMA Ordered ==
  ASSUME NEW i \in DOMAIN Updates, NEW j \in DOMAIN Updates, i <= j,
         Updates[i].message = Updates[j].message,
         Updates[i].kind # "other", Updates[j].kind # "other"
  PROVE  Updates[i].date <= Updates[j].date
<1>1. CASE i = j
  BY <1>1, UpdatesTyped
<1>2. CASE i # j
  <2>1. i < j
    BY <1>2, UpdatesTyped
  <2> QED
    BY <2>1, FeedInOrder
<1> QED
  BY <1>1, <1>2

\* An edit without a message that another process stores from a later update, or from
\* the same one, is kept.
LEMMA UnknownKept ==
  ASSUME FeedInv, KeptInv, NEW p \in Processes, NEW q \in Processes,
         step[p] = "unknown", step[q] = "counting", stored[Mine(q)] = 0, Mine(p) = Mine(q),
         stored' = [stored EXCEPT ![Mine(q)] = at[q]]
  PROVE  \A i \in DOMAIN Updates : i = at[p] => Kept(i)'
<1>1. /\ at[p] \in DOMAIN Updates /\ at[q] \in DOMAIN Updates /\ at[p] \in Nat /\ at[q] \in Nat
      /\ at[q] # 0 /\ Mine(q) \in Messages
  BY HandledTyped DEF Busy
<1>2. Handled(p).kind # "other" /\ Handled(q).kind # "other"
  BY DEF FeedInv, Placed, Busy
<1>3. ~(at[q] < at[p])
  BY <1>1, <1>2 DEF KeptInv, KeptBy, Kept, Mine, Handled, Behind
<1>4. Updates[at[p]].date <= Updates[at[q]].date
  BY <1>1, <1>2, <1>3, Ordered DEF Mine, Handled
<1>5. stored'[Mine(q)] = at[q]
  BY <1>1 DEF FeedInv, TypeOK
<1>6. Updates[at[p]].date \in Nat /\ Updates[at[q]].date \in Nat
  BY <1>1, UpdatesTyped
<1> QED
  BY <1>1, <1>4, <1>5, <1>6 DEF Kept, Mine, Handled

\* A step that leaves the processes but one, and what is confirmed, alone.
LEMMA KeptOthers ==
  ASSUME FeedInv, FeedInv', KeptInv, Grows, NEW p \in Processes, KeptBy(p)',
         confirmed' = confirmed,
         \A q \in Processes \ {p} : at'[q] = at[q] /\ step'[q] = step[q],
         \/ \A m \in Messages : stored'[m] # 0 => stored[m] # 0
         \/ /\ step[p] = "counting" /\ stored[Mine(p)] = 0
            /\ stored' = [stored EXCEPT ![Mine(p)] = at[p]]
  PROVE  KeptInv'
<1>1. \A i \in DOMAIN Updates : i <= confirmed' => Kept(i)'
  BY KeptGrows DEF KeptInv
<1>2. ASSUME NEW q \in Processes \ {p} PROVE KeptBy(q)'
  <2>1. \A i \in DOMAIN Updates : i < at'[q] => Kept(i)'
    BY KeptGrows DEF KeptInv, KeptBy, Behind
  <2>2. ASSUME step'[q] \in Behind PROVE \A i \in DOMAIN Updates : i = at[q] => Kept(i)'
    <3>1. at[q] \in DOMAIN Updates /\ Kept(at[q])
      BY <2>2, HandledTyped DEF KeptInv, KeptBy, Busy, Behind
    <3> QED
      BY <3>1, KeptGrows
  <2>3. ASSUME step'[q] = "unknown", stored'[Mine(q)] # 0 PROVE \A i \in DOMAIN Updates : i = at[q] => Kept(i)'
    <3>1. at[q] \in DOMAIN Updates /\ Mine(q) \in Messages /\ step[q] = "unknown"
      BY <2>3, HandledTyped DEF Busy
    <3>2. CASE stored[Mine(q)] # 0
      BY <3>1, <3>2, KeptGrows DEF KeptInv, KeptBy, Behind
    <3>3. CASE stored[Mine(q)] = 0
      <4>1. /\ step[p] = "counting" /\ stored[Mine(p)] = 0
            /\ stored' = [stored EXCEPT ![Mine(p)] = at[p]]
        BY <2>3, <3>1, <3>3
      <4>2. Mine(p) = Mine(q)
        BY <2>3, <3>1, <3>3, <4>1 DEF FeedInv, TypeOK
      <4> QED
        BY <3>1, <4>1, <4>2, UnknownKept
    <3> QED
      BY <3>2, <3>3
  <2>4. at'[q] = at[q] /\ step'[q] = step[q] /\ Mine(q)' = Mine(q)
    BY DEF Mine, Handled
  <2>5. step[q] \in Busy => at[q] \in DOMAIN Updates
    BY HandledTyped
  <2> QED
    BY <2>1, <2>2, <2>3, <2>4, <2>5 DEF KeptBy, Busy, Behind
<1> QED
  BY <1>1, <1>2 DEF KeptInv

\* A process that begins again has nothing to keep.
LEMMA FreshKept ==
  ASSUME FeedInv, FeedInv', KeptInv, NEW p \in Processes, stored' = stored, confirmed' = confirmed,
         step'[p] \in {"off", "polling"}, at'[p] = 0,
         \A q \in Processes \ {p} : at'[q] = at[q] /\ step'[q] = step[q]
  PROVE  KeptInv'
<1>1. KeptBy(p)'
  BY UpdatesTyped DEF KeptBy, Behind
<1> QED
  BY <1>1, GrowsNot, KeptOthers

\* A process may leave its update when it is kept.
LEMMA DoneKept ==
  ASSUME FeedInv, FeedInv', KeptInv, Grows, NEW p \in Processes, Done(p), step[p] \in Busy,
         confirmed' = confirmed, \A i \in DOMAIN Updates : i = at[p] => Kept(i)',
         \A m \in Messages : stored'[m] # 0 => stored[m] # 0
  PROVE  KeptInv'
<1>1. /\ at'[p] = at[p] + 1 /\ step'[p] \in {"polling", "handling"}
      /\ at[p] \in DOMAIN Updates /\ at[p] \in Nat
      /\ \A q \in Processes \ {p} : at'[q] = at[q] /\ step'[q] = step[q]
  BY HandledTyped DEF FeedInv, TypeOK, Done, Goes
<1>2. \A i \in DOMAIN Updates : i < at[p] => Kept(i)'
  BY KeptGrows DEF KeptInv, KeptBy, Behind
<1>3. \A i \in DOMAIN Updates : i < at[p] + 1 => i < at[p] \/ i = at[p]
  BY <1>1, UpdatesTyped
<1>6. \A i \in DOMAIN Updates : i < at'[p] => Kept(i)'
  BY <1>1, <1>2, <1>3
<1>4. KeptBy(p)'
  BY <1>1, <1>6 DEF KeptBy, Behind
<1> QED
  BY <1>1, <1>4, KeptOthers

LEMMA KeptInit == Init => KeptInv
<1> SUFFICES ASSUME Init PROVE KeptInv
  OBVIOUS
<1>1. \A i \in DOMAIN Updates : i >= 1 /\ i \in Nat
  BY UpdatesTyped
<1> QED
  BY <1>1 DEF Init, KeptInv, KeptBy, Behind

LEMMA KeptNext == FeedInv /\ FeedInv' /\ KeptInv /\ [Next]_vars => KeptInv'
<1> SUFFICES ASSUME FeedInv, FeedInv', KeptInv, [Next]_vars PROVE KeptInv'
  OBVIOUS
<1> USE DEF feed, chat, notices, desk
\* Steps that change neither what is stored nor where anybody is.
<1>1. ASSUME UNCHANGED <<confirmed, step, at, stored>> PROVE KeptInv'
  BY <1>1 DEF KeptInv, KeptBy, Kept, Mine, Handled, Behind
<1>2. CASE UNCHANGED vars
  BY <1>1, <1>2 DEF vars
<1>3. CASE Arrive \/ BeginRead \/ EndRead \/ Stream \/ View
  BY <1>1, <1>3 DEF Arrive, BeginRead, EndRead, Stream, View
<1>4. ASSUME NEW p \in Processes,
             Start(p) \/ Conflict(p) \/ CaptureFails(p) \/ Refused(p) \/ Crash(p)
      PROVE  KeptInv'
  <2>1. /\ step'[p] \in {"off", "polling"} /\ at'[p] = 0 /\ stored' = stored /\ confirmed' = confirmed
        /\ \A q \in Processes \ {p} : at'[q] = at[q] /\ step'[q] = step[q]
    BY <1>4 DEF Start, Conflict, CaptureFails, Refused, Crash, Retried, Fresh, Goes, FeedInv, TypeOK
  <2> QED
    BY <2>1, FreshKept
<1>5. ASSUME NEW p \in Processes, Fetch(p) PROVE KeptInv'
  <2>1. /\ stored' = stored /\ confirmed' = Confirmed(p) /\ step[p] = "polling"
        /\ at[p] \in Nat /\ confirmed \in Nat
    BY <1>5 DEF Fetch, FeedInv, TypeOK, Ids
  <2>2. \A i \in DOMAIN Updates : i <= Confirmed(p) => Kept(i)
    BY <2>1, UpdatesTyped DEF Confirmed, KeptInv, KeptBy, Behind
  <2>3. \A i \in DOMAIN Updates : i <= confirmed' => Kept(i)'
    BY <2>1, <2>2 DEF Kept
  <2>4. /\ \A q \in Processes \ {p} : at'[q] = at[q] /\ step'[q] = step[q]
        /\ \/ at'[p] = at[p] /\ step'[p] = step[p]
           \/ at'[p] = Confirmed(p) + 1 /\ step'[p] = "handling"
    BY <1>5, <2>1 DEF Fetch, Goes, FeedInv, TypeOK
  <2>5. Confirmed(p) \in Nat
    BY <2>1 DEF Confirmed
  <2>6. KeptBy(p)'
    <3>1. \A i \in DOMAIN Updates : Kept(i)' = Kept(i)
      BY <2>1 DEF Kept
    <3>2. step'[p] \in {"polling", "handling"}
      BY <2>1, <2>4
    <3>3. CASE at'[p] = at[p]
      BY <3>1, <3>2, <3>3 DEF KeptInv, KeptBy, Behind
    <3>4. CASE at'[p] = Confirmed(p) + 1
      <4>1. \A i \in DOMAIN Updates : i < at'[p] => i <= Confirmed(p)
        BY <2>5, <3>4, UpdatesTyped
      <4> QED
        BY <2>2, <3>1, <3>2, <4>1 DEF KeptBy, Behind
    <3> QED
      BY <2>4, <3>3, <3>4
  <2>7. \A q \in Processes \ {p} : KeptBy(q)'
    BY <2>1, <2>4 DEF KeptInv, KeptBy, Kept, Mine, Handled, Behind
  <2> QED
    BY <2>3, <2>6, <2>7 DEF KeptInv
<1>6. ASSUME NEW p \in Processes, Elsewhere(p) PROVE KeptInv'
  <2>1. \A i \in DOMAIN Updates : i = at[p] => Kept(i)'
    BY <1>6 DEF Elsewhere, Kept, Handled
  <2> QED
    BY <1>6, <2>1, GrowsNot, DoneKept DEF Elsewhere, Busy
<1>7. ASSUME NEW p \in Processes, step[p] \in Behind, Done(p),
             stored' = stored, confirmed' = confirmed
      PROVE  KeptInv'
  <2>1. \A i \in DOMAIN Updates : i = at[p] => Kept(i)'
    BY <1>7 DEF KeptInv, KeptBy, Kept, Behind
  <2> QED
    BY <1>7, <2>1, GrowsNot, DoneKept DEF Busy, Behind
<1>8. ASSUME NEW p \in Processes,
             PublishEdit(p) \/ Wake(p) \/ Delete(p) \/ NoticeFails(p) \/ (Swap(p) /\ ~Replaced(p))
      PROVE  KeptInv'
  BY <1>7, <1>8 DEF PublishEdit, Wake, Delete, NoticeFails, Swap, Behind
\* A process goes on with its update.
<1>9. ASSUME NEW p \in Processes, NEW place \in Busy, step[p] \in Busy, Goes(p, place), at' = at,
             stored' = stored, confirmed' = confirmed,
             place \in Behind => Kept(at[p]),
             place = "unknown" => stored[Mine(p)] = 0
      PROVE  KeptInv'
  <2>1. step'[p] = place /\ \A q \in Processes \ {p} : at'[q] = at[q] /\ step'[q] = step[q]
    BY <1>9 DEF FeedInv, TypeOK, Goes
  <2>2. KeptBy(p)'
    BY <1>9, <2>1 DEF KeptInv, KeptBy, Kept, Mine, Handled, Behind
  <2> QED
    BY <1>9, <2>1, <2>2, GrowsNot, KeptOthers
<1>10. ASSUME NEW p \in Processes, LookAtManager(p) \/ Send(p) \/ (Swap(p) /\ Replaced(p))
      PROVE  KeptInv'
  <2>1. CASE LookAtManager(p)
    BY <1>9, <2>1 DEF LookAtManager, Busy, Behind
  <2>2. CASE Send(p)
    BY <1>9, <2>2 DEF Send, Busy, KeptInv, KeptBy, Behind
  <2>3. CASE Swap(p) /\ Replaced(p)
    BY <1>9, <2>3 DEF Swap, Busy, KeptInv, KeptBy, Behind
  <2> QED
    BY <1>10, <2>1, <2>2, <2>3
<1>11. ASSUME NEW p \in Processes, CaptureEdit(p) PROVE KeptInv'
  <2> DEFINE m == Mine(p)
             old == stored[m]
  <2>1. /\ step[p] = "handling" /\ step[p] \in Busy /\ Handled(p).kind = "edit"
        /\ confirmed' = confirmed
    BY <1>11 DEF CaptureEdit, Busy
  <2>2. m \in Messages /\ at[p] \in DOMAIN Updates /\ at[p] # 0 /\ Updates[at[p]].date \in Nat
    BY <2>1, HandledTyped DEF Handled
  <2>3. CASE old # 0
    <3>1. /\ Goes(p, "edited") /\ at' = at
          /\ stored' = [stored EXCEPT ![m] = IF Outdated(p) THEN old ELSE at[p]]
      BY <1>11, <2>3 DEF CaptureEdit
    <3>2. /\ stored'[m] = (IF Outdated(p) THEN old ELSE at[p])
          /\ \A n \in Messages \ {m} : stored'[n] = stored[n]
      BY <2>2, <3>1 DEF FeedInv, TypeOK
    <3>3. old \in DOMAIN Updates /\ Updates[old].date \in Nat
      BY <2>2, <2>3, UpdatesTyped DEF FeedInv, StoredReal
    <3>4. /\ Updates[stored'[m]].date >= Updates[old].date /\ stored'[m] # 0
          /\ Updates[stored'[m]].date >= Updates[at[p]].date
      BY <2>2, <2>3, <3>2, <3>3 DEF Outdated, Handled
    <3>5. Grows
      BY <3>2, <3>4, UpdatesTyped DEF Grows, FeedInv, StoredReal
    <3>6. \A i \in DOMAIN Updates : i = at[p] => Kept(i)'
      BY <3>4 DEF Kept, Mine, Handled
    <3>7. \A n \in Messages : stored'[n] # 0 => stored[n] # 0
      BY <2>3, <3>2
    <3>8. step'[p] = "edited" /\ \A q \in Processes \ {p} : at'[q] = at[q] /\ step'[q] = step[q]
      BY <3>1 DEF Goes, FeedInv, TypeOK
    <3>9. \A i \in DOMAIN Updates : i < at[p] => Kept(i)'
      BY <3>5, KeptGrows DEF KeptInv, KeptBy, Behind
    <3>10. KeptBy(p)'
      BY <2>2, <3>1, <3>6, <3>8, <3>9 DEF KeptBy, Behind
    <3> QED
      BY <2>1, <3>5, <3>7, <3>8, <3>10, KeptOthers
  <2>4. CASE old = 0
    BY <1>9, <1>11, <2>1, <2>4 DEF CaptureEdit, Busy, Behind
  <2> QED
    BY <2>3, <2>4
<1>12. ASSUME NEW p \in Processes, CaptureInbound(p) PROVE KeptInv'
  <2>1. /\ step[p] \in Busy /\ stored' = stored /\ confirmed' = confirmed
        /\ (step[p] = "handling" /\ Handled(p).kind = "new") \/ step[p] = "unknown"
    BY <1>12 DEF CaptureInbound, Busy
  <2>2. CASE Known(Mine(p))
    <3>1. Done(p) /\ stored[Mine(p)] # 0
      BY <1>12, <2>2 DEF CaptureInbound, Known
    <3>2. Kept(at[p])
      <4>1. CASE step[p] = "unknown"
        BY <3>1, <4>1 DEF KeptInv, KeptBy, Behind
      <4>2. CASE Handled(p).kind = "new"
        <5>1. at[p] \in DOMAIN Updates /\ Mine(p) \in Messages
          BY <2>1, HandledTyped
        <5>2. stored[Mine(p)] \in DOMAIN Updates
          BY <3>1, <5>1 DEF FeedInv, StoredReal
        <5>3. Updates[stored[Mine(p)]].date \in Nat /\ Updates[at[p]].date = 0
          BY <4>2, <5>1, <5>2, UpdatesTyped, FeedInOrder DEF Handled
        <5> QED
          BY <3>1, <5>3 DEF Kept, Mine, Handled
      <4> QED
        BY <2>1, <4>1, <4>2
    <3>3. \A i \in DOMAIN Updates : i = at[p] => Kept(i)'
      BY <2>1, <3>2 DEF Kept
    <3> QED
      BY <2>1, <3>1, <3>3, GrowsNot, DoneKept
  <2>3. CASE ~Known(Mine(p))
    BY <1>9, <1>12, <2>1, <2>3 DEF CaptureInbound, Busy, Behind
  <2> QED
    BY <2>2, <2>3
<1>13. ASSUME NEW p \in Processes, Commit(p) PROVE KeptInv'
  <2>1. /\ step[p] = "counting" /\ stored[Mine(p)] = 0 /\ step[p] \in Busy
        /\ stored' = [stored EXCEPT ![Mine(p)] = at[p]] /\ Goes(p, "publishing")
        /\ at' = at /\ confirmed' = confirmed
    BY <1>13 DEF Commit, Busy
  <2>2. /\ Mine(p) \in Messages /\ at[p] \in DOMAIN Updates /\ at[p] # 0
        /\ Updates[at[p]].date \in Nat
    BY <2>1, HandledTyped DEF Handled
  <2>3. /\ stored'[Mine(p)] = at[p] /\ \A n \in Messages \ {Mine(p)} : stored'[n] = stored[n]
        /\ step'[p] = "publishing"
        /\ \A q \in Processes \ {p} : at'[q] = at[q] /\ step'[q] = step[q]
    BY <2>1, <2>2 DEF FeedInv, TypeOK, Goes
  <2>4. Grows
    BY <2>1, <2>3, UpdatesTyped DEF Grows, FeedInv, StoredReal
  <2>5. \A i \in DOMAIN Updates : i = at[p] => Kept(i)'
    BY <2>2, <2>3 DEF Kept, Mine, Handled
  <2>6. \A i \in DOMAIN Updates : i < at[p] => Kept(i)'
    BY <2>4, KeptGrows DEF KeptInv, KeptBy, Behind
  <2>7. KeptBy(p)'
    <3>1. at'[p] = at[p] /\ at[p] \in DOMAIN Updates
      BY <2>1, <2>2
    <3> QED
      BY <2>3, <2>5, <2>6, <3>1 DEF KeptBy, Behind
  <2> QED
    BY <2>1, <2>3, <2>4, <2>7, KeptOthers
<1>14. ASSUME NEW p \in Processes, Handle(p) PROVE KeptInv'
  BY <1>4, <1>6, <1>8, <1>10, <1>11, <1>12, <1>13, <1>14 DEF Handle
<1> QED
  BY <1>2, <1>3, <1>4, <1>5, <1>8, <1>14 DEF Next

\* What Telegram will not deliver again is stored, in the latest edit that was confirmed:
\* a handler that fails before its commit gives up the whole batch, so that nothing
\* behind the update is confirmed without it.
THEOREM ConfirmedCorrect == Spec => []ConfirmedIsKept
<1>1. FeedInv /\ KeptInv => ConfirmedIsKept
  <2> SUFFICES ASSUME FeedInv, KeptInv, NEW i \in 1..confirmed, Updates[i].kind # "other"
               PROVE  LET kept == stored[Updates[i].message]
                      IN  kept # 0 /\ Updates[kept].date >= Updates[i].date
    BY DEF ConfirmedIsKept
  <2>1. i \in DOMAIN Updates /\ i <= confirmed
    BY UpdatesTyped DEF FeedInv, TypeOK, Ids
  <2> QED
    BY <2>1 DEF KeptInv, Kept
<1> QED
  BY <1>1, KeptInit, KeptNext, FeedCorrect, PTL DEF Spec

----------------------------------------------------------------------------
(* The counter. *)

\* The counter is the number of a finite set of messages, all of them stored.
CountInv ==
    /\ IsFiniteSet(pending)
    /\ UnreadExplained

\* A message that is counted was not counted before: it was not stored.
LEMMA CommitCounts ==
  ASSUME FeedInv, CountInv, NEW p \in Processes, Commit(p)
  PROVE  CountInv'
<1>1. /\ step[p] = "counting" /\ stored[Mine(p)] = 0 /\ unread' = Counted(p)
      /\ stored' = [stored EXCEPT ![Mine(p)] = at[p]]
      /\ pending' = (IF own[p] = 1 THEN pending \cup {Mine(p)} ELSE pending)
  BY DEF Commit
<1>2. /\ Mine(p) \in Messages /\ at[p] # 0 /\ own[p] \in {0, 1}
  BY <1>1, HandledTyped DEF FeedInv, Placed, Busy
<1>3. stored'[Mine(p)] = at[p] /\ \A n \in Messages \ {Mine(p)} : stored'[n] = stored[n]
  BY <1>1, <1>2 DEF FeedInv, TypeOK
<1>4. \A m \in pending' : stored'[m] # 0
  BY <1>1, <1>2, <1>3 DEF FeedInv, TypeOK, CountInv, UnreadExplained
<1>5. unread \in Nat /\ unread = Cardinality(pending) /\ IsFiniteSet(pending)
  BY DEF FeedInv, TypeOK, CountInv, UnreadExplained
<1>6. CASE own[p] = 1
  <2>1. Mine(p) \notin pending
    BY <1>1 DEF CountInv, UnreadExplained
  <2>2. IsFiniteSet(pending \cup {Mine(p)}) /\ Cardinality(pending \cup {Mine(p)}) = unread + 1
    BY <1>5, <2>1, FS_AddElement
  <2>3. pending' = pending \cup {Mine(p)} /\ unread' = unread + 1
    BY <1>1, <1>6 DEF Counted
  <2> QED
    BY <1>4, <2>2, <2>3 DEF CountInv, UnreadExplained
<1>7. CASE own[p] = 0
  <2>1. pending' = pending /\ unread' = unread
    BY <1>1, <1>5, <1>7 DEF Counted
  <2> QED
    BY <1>4, <1>5, <2>1 DEF CountInv, UnreadExplained
<1> QED
  BY <1>2, <1>6, <1>7

LEMMA CountInit == Init => CountInv
BY FS_EmptySet DEF Init, CountInv, UnreadExplained

LEMMA CountNext == FeedInv /\ CountInv /\ [Next]_vars => CountInv'
<1> SUFFICES ASSUME FeedInv, CountInv, [Next]_vars PROVE CountInv'
  OBVIOUS
<1> USE DEF feed, chat, notices, desk
<1>1. ASSUME UNCHANGED chat PROVE CountInv'
  BY <1>1 DEF CountInv, UnreadExplained
<1>2. CASE UNCHANGED vars
  BY <1>1, <1>2 DEF vars
<1>3. CASE Arrive \/ BeginRead \/ Stream \/ View
  BY <1>1, <1>3 DEF Arrive, BeginRead, Stream, View
<1>4. CASE EndRead
  <2>1. CASE Head(reading) # 0
    BY <1>4, <2>1, FS_EmptySet DEF EndRead, CountInv, UnreadExplained
  <2>2. CASE Head(reading) = 0
    BY <1>1, <1>4, <2>2 DEF EndRead
  <2> QED
    BY <2>1, <2>2
<1>5. ASSUME NEW p \in Processes,
             \/ Start(p) \/ Fetch(p) \/ Conflict(p) \/ CaptureFails(p) \/ NoticeFails(p) \/ Crash(p)
             \/ Elsewhere(p) \/ PublishEdit(p) \/ LookAtManager(p) \/ Refused(p)
             \/ Wake(p) \/ Send(p) \/ Swap(p) \/ Delete(p)
      PROVE  CountInv'
  BY <1>1, <1>5 DEF Start, Fetch, Conflict, CaptureFails, NoticeFails, Crash, Elsewhere,
                    PublishEdit, LookAtManager, Refused, Wake, Send, Swap, Delete
<1>6. ASSUME NEW p \in Processes, CaptureInbound(p) PROVE CountInv'
  BY <1>1, <1>6 DEF CaptureInbound, CountedKnown
<1>7. ASSUME NEW p \in Processes, CaptureEdit(p) PROVE CountInv'
  <2>1. /\ UNCHANGED <<unread, pending>> /\ step[p] \in Busy
        /\ \/ stored' = stored
           \/ /\ stored[Mine(p)] # 0
              /\ stored' = [stored EXCEPT ![Mine(p)] =
                               IF Outdated(p) THEN stored[Mine(p)] ELSE at[p]]
    BY <1>7 DEF CaptureEdit, Busy
  <2>2. Mine(p) \in Messages /\ at[p] # 0
    BY <2>1, HandledTyped
  <2>3. \A m \in Messages : stored[m] # 0 => stored'[m] # 0
    BY <2>1, <2>2 DEF FeedInv, TypeOK
  <2> QED
    BY <2>1, <2>3 DEF FeedInv, TypeOK, CountInv, UnreadExplained
<1>8. ASSUME NEW p \in Processes, Handle(p) PROVE CountInv'
  BY <1>5, <1>6, <1>7, <1>8, CommitCounts DEF Handle
<1> QED
  BY <1>2, <1>3, <1>4, <1>5, <1>8 DEF Next

\* The unread counter is the number of messages, each once, that came while the manager
\* did not look: a delivery that is repeated, or raced by another process, counts nothing.
THEOREM UnreadCorrect == Spec => []UnreadExplained
<1>1. CountInv => UnreadExplained
  BY DEF CountInv
<1> QED
  BY <1>1, CountInit, CountNext, FeedCorrect, PTL DEF Spec

----------------------------------------------------------------------------
(* The notification. *)

\* While nothing failed, a notification in the chat is the one Redis knows or in the
\* hands of a process that goes on to publish or to delete it.
NoticeInv ==
    /\ nextId # 0 /\ \A id \in shown : id # 0
    /\ faults = 0 =>
          \A id \in shown :
              id = key \/ \E p \in Processes : step[p] \in {"sent", "swapped"} /\ id = own[p]

LEMMA NoticeInit == Init => NoticeInv
BY DEF Init, NoticeInv

\* A step of a process that has no notification in its hands.
LEMMA NoticeOther ==
  ASSUME FeedInv, NoticeInv, NEW p \in Processes, step[p] \notin {"sent", "swapped"},
         \A q \in Processes \ {p} : step'[q] = step[q] /\ own'[q] = own[q],
         UNCHANGED notices, faults' = 0 => faults = 0
  PROVE  NoticeInv'
BY DEF NoticeInv, notices

LEMMA NoticeNext == FeedInv /\ NoticeInv /\ [Next]_vars => NoticeInv'
<1> SUFFICES ASSUME FeedInv, NoticeInv, [Next]_vars PROVE NoticeInv'
  OBVIOUS
<1> USE DEF feed, chat, notices, desk
<1>1. ASSUME UNCHANGED <<step, own, notices, faults>> PROVE NoticeInv'
  BY <1>1 DEF NoticeInv
<1>2. CASE UNCHANGED vars
  BY <1>1, <1>2 DEF vars
<1>3. CASE Arrive \/ BeginRead \/ EndRead \/ Stream \/ View
  BY <1>1, <1>3 DEF Arrive, BeginRead, EndRead, Stream, View, Fine
<1>4. ASSUME NEW kind, Fault(kind) PROVE faults' # 0
  BY <1>4, InboxConstants DEF Fault, FeedInv, TypeOK
<1>5. ASSUME NEW p \in Processes, Conflict(p) \/ CaptureFails(p) \/ NoticeFails(p) \/ Crash(p)
      PROVE  NoticeInv'
  <2>1. UNCHANGED notices /\ \E kind : Fault(kind)
    BY <1>5 DEF Conflict, CaptureFails, NoticeFails, Crash
  <2> QED
    BY <1>4, <2>1 DEF NoticeInv
<1>6. ASSUME NEW p \in Processes,
             \/ Start(p) \/ Fetch(p) \/ Elsewhere(p) \/ CaptureEdit(p) \/ PublishEdit(p)
             \/ CaptureInbound(p) \/ LookAtManager(p) \/ Commit(p) \/ Refused(p) \/ Wake(p)
      PROVE  NoticeInv'
  <2>1. UNCHANGED <<notices, faults>> /\ step[p] \notin {"sent", "swapped"}
    BY <1>6 DEF Start, Fetch, Elsewhere, CaptureEdit, PublishEdit, CaptureInbound, LookAtManager, Commit,
                Refused, Wake, Fine
  <2>2. \A q \in Processes \ {p} : step'[q] = step[q] /\ own'[q] = own[q]
    <3>1. CASE Start(p) \/ Fetch(p) \/ Refused(p)
      BY <3>1 DEF Start, Fetch, Refused, Retried, Fresh, Goes, FeedInv, TypeOK
    <3>2. CASE Elsewhere(p) \/ CaptureEdit(p) \/ PublishEdit(p) \/ CaptureInbound(p) \/ Wake(p)
      BY <3>2 DEF Elsewhere, CaptureEdit, PublishEdit, CaptureInbound, Wake, Done, Goes, FeedInv, TypeOK
    <3>3. CASE LookAtManager(p) \/ Commit(p)
      BY <3>3 DEF LookAtManager, Commit, Goes, FeedInv, TypeOK
    <3> QED
      BY <1>6, <3>1, <3>2, <3>3
  <2> QED
    BY <2>1, <2>2, NoticeOther
<1>7. ASSUME NEW p \in Processes, Send(p) PROVE NoticeInv'
  <2>1. /\ step[p] = "publishing" /\ step'[p] = "sent" /\ own'[p] = nextId
        /\ \A q \in Processes \ {p} : step'[q] = step[q] /\ own'[q] = own[q]
        /\ key' = key /\ faults' = faults
        /\ shown' = shown \cup {nextId}
    BY <1>7 DEF Send, Fine, Goes, FeedInv, TypeOK
  <2>2. nextId' # 0
    BY <1>7 DEF Send, FeedInv, TypeOK
  <2> QED
    BY <2>1, <2>2 DEF NoticeInv
<1>8. ASSUME NEW p \in Processes, Swap(p) PROVE NoticeInv'
  <2>1. /\ step[p] = "sent" /\ key' = own[p] /\ faults' = faults
        /\ shown' = shown /\ nextId' = nextId
        /\ \A q \in Processes \ {p} : step'[q] = step[q] /\ own'[q] = own[q]
    BY <1>8 DEF Swap, Fine, Done, Goes, FeedInv, TypeOK
  <2>2. CASE Replaced(p)
    <3>1. own'[p] = key /\ step'[p] = "swapped"
      BY <1>8, <2>2 DEF Swap, Goes, FeedInv, TypeOK
    <3> QED
      BY <2>1, <3>1 DEF NoticeInv
  <2>3. CASE ~Replaced(p)
    <3>1. key = 0 \/ key = own[p]
      BY <2>3 DEF Replaced
    <3> QED
      BY <2>1, <3>1 DEF NoticeInv
  <2> QED
    BY <2>2, <2>3
<1>9. ASSUME NEW p \in Processes, Delete(p) PROVE NoticeInv'
  <2>1. /\ shown' = shown \ {own[p]} /\ key' = key /\ nextId' = nextId /\ faults' = faults
        /\ \A q \in Processes \ {p} : step'[q] = step[q] /\ own'[q] = own[q]
    BY <1>9 DEF Delete, Fine, Done, Goes, FeedInv, TypeOK
  <2> QED
    BY <2>1 DEF NoticeInv
<1>10. ASSUME NEW p \in Processes, Handle(p) PROVE NoticeInv'
  BY <1>6, <1>7, <1>8, <1>9, <1>10 DEF Handle
<1> QED
  BY <1>2, <1>3, <1>5, <1>6, <1>10 DEF Next

\* When no process is in the middle of it and nothing failed, the manager has at most one
\* notification and Redis knows it, however many processes replaced it at the same time.
THEOREM NotificationCorrect == Spec => []OneNotification
<1>1. NoticeInv => OneNotification
  BY DEF NoticeInv, OneNotification
<1> QED
  BY <1>1, NoticeInit, NoticeNext, FeedCorrect, PTL DEF Spec

\* The inbox keeps its types, the places of the processes among them.
THEOREM InboxTypeCorrect == Spec => []TypeOK
<1>1. FeedInv => TypeOK
  BY DEF FeedInv
<1> QED
  BY <1>1, FeedCorrect, PTL
=============================================================================
