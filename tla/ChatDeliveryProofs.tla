------------------------- MODULE ChatDeliveryProofs -------------------------
(***************************************************************************)
(* Proofs about ChatDelivery, for any finite number of requests, any kinds *)
(* of messages and any number of faults.                                   *)
(***************************************************************************)
EXTENDS ChatDelivery, FiniteSetTheorems, TLAPS

----------------------------------------------------------------------------
(* The inductive invariant. *)

\* Before it is stored there is nothing to work on.
NothingYet ==
    row.status = "absent" =>
        row.holder = NoOne /\ copies = 0
        /\ \A r \in Requests : request[r].at \in {"idle", "looking", "new"}

\* What a delivering request remembers of the status.
Remembered ==
    \A r \in Requests :
        /\ request[r].at = "sending" => request[r].status = "pending"
        /\ request[r].at = "answered" => request[r].status \in {"sent", "failed"}

\* Who delivers holds the claim, its lease is running and the message is pending.
Exclusive ==
    ~overrun => \A r \in Requests : Delivers(r) =>
        row.holder = r /\ row.leased /\ row.status = "pending"

\* A delivered message is put away.
PutAway == ~overrun /\ row.status = "sent" => row.holder = NoOne /\ ~row.leased /\ ~row.payload

\* While nothing has gone wrong: a claim is at work,
ClaimsWork == faults = 0 => ~overrun /\ (row.holder # NoOne => Delivers(row.holder))

\* a pending message is worked on,
PendingWorked ==
    faults = 0 /\ row.status = "pending" =>
        \E r \in Requests : request[r].at \in {"stored", "sending", "answered"}

\* the row knows whether the customer has the message,
RowKnows ==
    faults = 0 =>
        /\ row.status = "failed" => copies = 0
        /\ row.status = "sent" => copies # 0

\* and if not yet the row, then a request.
RequestsKnow ==
    faults = 0 =>
        /\ copies # 0 => row.status = "sent"
                         \/ \E r \in Requests : /\ request[r].at = "answered"
                                                /\ request[r].status = "sent"
        /\ \A r \in Requests :
              /\ request[r].at = "sending" => copies = 0
              /\ request[r].at = "answered" => (request[r].status = "sent" <=> copies # 0)

\* The requests that may still deliver the message or open the way to another delivery.
Right(at, status) == at = "sending" \/ (at = "answered" /\ status = "failed")
Rights == {r \in Requests : Right(request[r].at, request[r].status)}

\* Whether a request that delivers nothing yet may come to deliver the message.
Claimable ==
    /\ row.status = "absent" \/ Undelivered
    /\ ~(row.leased /\ Delivers(row.holder))

Weight == copies + Cardinality(Rights) + IF Claimable THEN 1 ELSE 0

\* Every copy there is or that may still come, but one, was paid for by a fault.
CopiesPaid == Weight <= 1 + faults

DInv ==
    /\ TypeOK /\ NothingYet /\ Remembered
    /\ Exclusive /\ PutAway /\ RetryPossible
    /\ ClaimsWork /\ PendingWorked /\ RowKnows /\ RequestsKnow
    /\ CopiesPaid

One(b) == IF b THEN 1 ELSE 0

----------------------------------------------------------------------------
RowRecords == [status : Statuses, holder : Requests \cup {NoOne},
               leased : BOOLEAN, payload : BOOLEAN]
RequestRecords == [at : {"idle", "looking", "new", "stored", "sending", "answered"},
                   status : Statuses]

\* The typing, with the records named.
LEMMA TypeParts ==
  TypeOK <=> /\ kind \in Kinds
             /\ row \in RowRecords
             /\ row.leased => row.holder # NoOne
             /\ request \in [Requests -> RequestRecords]
             /\ copies \in Nat
             /\ faults \in 0..MaxFaults
             /\ overrun \in BOOLEAN
  BY DEF TypeOK, RowRecords, RequestRecords

\* There are finitely many rights, as there are requests.
LEMMA RightsFinite == IsFiniteSet(Rights) /\ Cardinality(Rights) \in Nat
<1>1. Rights \subseteq Requests
  BY DEF Rights
<1> QED
  BY <1>1, DeliveryConstants, FS_Subset, FS_CardinalityType

\* Request r moves.
Moves(r, at, status) ==
    \E q \in RequestRecords :
        q.at = at /\ q.status = status /\ request' = [request EXCEPT ![r] = q]

\* What is known of the requests then.
Now(r, at, status) ==
    /\ request' \in [Requests -> RequestRecords]
    /\ request'[r].at = at /\ request'[r].status = status
    /\ \A x \in Requests : x # r => request'[x] = request[x]

\* What a move makes of the requests.
LEMMA Moved ==
  ASSUME TypeOK, NEW r \in Requests, NEW at, NEW status, Moves(r, at, status)
  PROVE  Now(r, at, status)
<1>1. PICK q \in RequestRecords :
         q.at = at /\ q.status = status /\ request' = [request EXCEPT ![r] = q]
  BY DEF Moves
<1> QED
  BY <1>1, TypeParts DEF Now

\* What that does to the number of rights.
LEMMA RightsChange ==
  ASSUME TypeOK, NEW r \in Requests, NEW at, NEW status, Moves(r, at, status)
  PROVE  Cardinality(Rights)' =
            Cardinality(Rights) + One(Right(at, status)) - One(Right(request[r].at, request[r].status))
<1>1. /\ request'[r].at = at /\ request'[r].status = status
      /\ \A x \in Requests : x # r => request'[x] = request[x]
  BY Moved DEF Now
<1>2. IsFiniteSet(Rights) /\ Cardinality(Rights) \in Nat
  BY RightsFinite
<1>3. r \in Rights <=> Right(request[r].at, request[r].status)
  BY DEF Rights
<1>4. CASE Right(at, status)
  <2>1. Rights' = Rights \cup {r}
    BY <1>1, <1>4 DEF Rights
  <2>2. Cardinality(Rights \cup {r}) = IF r \in Rights THEN Cardinality(Rights) ELSE Cardinality(Rights) + 1
    BY <1>2, FS_AddElement
  <2> QED
    BY <2>1, <2>2, <1>2, <1>3, <1>4 DEF One
<1>5. CASE ~Right(at, status)
  <2>1. Rights' = Rights \ {r}
    BY <1>1, <1>5 DEF Rights
  <2>2. Cardinality(Rights \ {r}) = IF r \in Rights THEN Cardinality(Rights) - 1 ELSE Cardinality(Rights)
    BY <1>2, FS_RemoveElement
  <2> QED
    BY <2>1, <2>2, <1>2, <1>3, <1>5 DEF One
<1> QED
  BY <1>4, <1>5

\* What the request takes and gives must be paid for by a fault.
LEMMA PaidStep ==
  ASSUME TypeOK, TypeOK', CopiesPaid, NEW r \in Requests, NEW at, NEW status,
         Moves(r, at, status),
         copies' + One(Right(at, status)) + One(Claimable)' + faults
            <= copies + One(Right(request[r].at, request[r].status)) + One(Claimable) + faults'
  PROVE  CopiesPaid'
<1>1. Cardinality(Rights)' = Cardinality(Rights) + One(Right(at, status)) - One(Right(request[r].at, request[r].status))
  BY RightsChange
<1>2. Cardinality(Rights) \in Nat
  BY RightsFinite
<1>3. /\ copies \in Nat /\ copies' \in Nat /\ faults \in Nat /\ faults' \in Nat
  BY DeliveryConstants DEF TypeOK
<1>4. Cardinality(Rights)' \in Int
  BY <1>1, <1>2 DEF One
<1>8. Weight = copies + Cardinality(Rights) + One(Claimable)
  BY DEF Weight, One
<1>9. Weight' = copies' + Cardinality(Rights)' + One(Claimable)'
  BY DEF Weight, One
<1> DEFINE a == One(Claimable)
           b == One(Claimable)'
           c == One(Right(at, status))
           d == One(Right(request[r].at, request[r].status))
<1>10. a \in Int /\ b \in Int /\ c \in Int /\ d \in Int
  BY DEF One
<1>11. Weight <= 1 + faults
  BY DEF CopiesPaid
<1>12. copies' + c + b + faults <= copies + d + a + faults'
  OBVIOUS
<1> HIDE DEF a, b, c, d
<1>13. Weight' <= 1 + faults'
  BY <1>1, <1>2, <1>3, <1>4, <1>8, <1>9, <1>10, <1>11, <1>12 DEF a, b, c, d
<1> QED
  BY <1>13 DEF CopiesPaid

\* When no request moves, the rest must be paid for by a fault.
LEMMA PaidRest ==
  ASSUME TypeOK, TypeOK', CopiesPaid, UNCHANGED request,
         copies' + One(Claimable)' + faults <= copies + One(Claimable) + faults'
  PROVE  CopiesPaid'
<1>1. Cardinality(Rights)' = Cardinality(Rights) /\ Cardinality(Rights) \in Nat
  BY RightsFinite DEF Rights
<1>2. /\ copies \in Nat /\ copies' \in Nat /\ faults \in Nat /\ faults' \in Nat
  BY DeliveryConstants DEF TypeOK
<1> DEFINE a == One(Claimable)
           b == One(Claimable)'
<1>3. a \in Int /\ b \in Int
  BY DEF One
<1>4. Weight = copies + Cardinality(Rights) + a /\ Weight' = copies' + Cardinality(Rights)' + b
  BY DEF Weight, One
<1>5. Weight <= 1 + faults
  BY DEF CopiesPaid
<1> HIDE DEF a, b
<1>6. Weight' <= 1 + faults'
  BY <1>1, <1>2, <1>3, <1>4, <1>5 DEF a, b
<1> QED
  BY <1>6 DEF CopiesPaid

----------------------------------------------------------------------------
\* The state before any request satisfies the invariant.
LEMMA InitInv == Init => DInv
<1> SUFFICES ASSUME Init PROVE DInv
  OBVIOUS
<1> USE DeliveryConstants
<1>1. TypeOK
  <2>1. faults \in 0..MaxFaults
    BY DEF Init
  <2>2. NoRow \in RowRecords /\ ~NoRow.leased
    BY DEF RowRecords, NoRow, Statuses
  <2>3. Idle \in RequestRecords
    BY DEF RequestRecords, Idle, Statuses
  <2> QED
    BY <2>1, <2>2, <2>3, TypeParts DEF Init
<1>2. NothingYet /\ Remembered /\ Exclusive /\ PutAway /\ RetryPossible
      /\ ClaimsWork /\ PendingWorked /\ RowKnows /\ RequestsKnow
  BY DEF Init, Idle, NoRow, NothingYet, Remembered, Exclusive, PutAway, RetryPossible,
         ClaimsWork, PendingWorked, RowKnows, RequestsKnow, Delivers
<1>3. CopiesPaid
  <2>1. Rights = {}
    BY DEF Rights, Right, Init, Idle
  <2>2. Cardinality({}) = 0
    BY FS_EmptySet
  <2> QED
    BY <2>1, <2>2 DEF Init, CopiesPaid, Weight
<1> QED
  BY <1>1, <1>2, <1>3 DEF DInv

Fields(R, status, holder, leased, payload) ==
    R.status = status /\ R.holder = holder /\ R.leased = leased /\ R.payload = payload

\* What the steps make of a row.
LEMMA RowUpdates ==
  ASSUME NEW R \in RowRecords, NEW r \in Requests, NEW s \in Statuses, NEW b \in BOOLEAN
  PROVE  /\ [R EXCEPT !.status = s, !.payload = b] \in RowRecords
         /\ Fields([R EXCEPT !.status = s, !.payload = b], s, R.holder, R.leased, b)
         /\ [R EXCEPT !.status = "pending", !.holder = r, !.leased = TRUE] \in RowRecords
         /\ Fields([R EXCEPT !.status = "pending", !.holder = r, !.leased = TRUE],
                   "pending", r, TRUE, R.payload)
         /\ [R EXCEPT !.holder = NoOne, !.leased = FALSE] \in RowRecords
         /\ Fields([R EXCEPT !.holder = NoOne, !.leased = FALSE],
                   R.status, NoOne, FALSE, R.payload)
         /\ [R EXCEPT !.leased = FALSE] \in RowRecords
         /\ Fields([R EXCEPT !.leased = FALSE], R.status, R.holder, FALSE, R.payload)
  BY DEF RowRecords, Statuses, Fields

\* The row before anything is stored has the type of a row.
LEMMA NoRowType == NoRow \in RowRecords
  BY DEF RowRecords, NoRow, Statuses

\* Going to a place keeps the remembered status.
LEMMA GoesMoves ==
  ASSUME TypeOK, NEW r \in Requests,
         NEW place \in {"idle", "looking", "new", "stored", "sending", "answered"},
         Goes(r, place)
  PROVE  Moves(r, place, request[r].status)
<1> DEFINE q == [request[r] EXCEPT !.at = place]
<1>1. request[r] \in RequestRecords
  BY TypeParts
<1>2. q \in RequestRecords /\ q.at = place /\ q.status = request[r].status
  BY <1>1 DEF RequestRecords
<1>3. request' = [request EXCEPT ![r] = q]
  BY TypeParts DEF Goes
<1> QED
  BY <1>2, <1>3 DEF Moves

\* A request that takes up a status moves with it.
LEMMA RecordMoves ==
  ASSUME TypeOK, NEW r \in Requests, NEW status \in Statuses,
         NEW place \in {"idle", "looking", "new", "stored", "sending", "answered"},
         request' = [request EXCEPT ![r] = [at |-> place, status |-> status]]
  PROVE  Moves(r, place, status)
<1> DEFINE q == [at |-> place, status |-> status]
<1>1. q \in RequestRecords /\ q.at = place /\ q.status = status
  BY DEF RequestRecords
<1> QED
  BY <1>1 DEF Moves

\* A request that ends is idle and remembers nothing.
LEMMA EndsMoves ==
  ASSUME TypeOK, NEW r \in Requests, Ends(r)
  PROVE  Moves(r, "idle", "absent")
  BY RecordMoves DEF Ends, Idle, Statuses

----------------------------------------------------------------------------
(* What each action does to the fields. *)

\* Looking the message up.
LEMMA LookEffect ==
  ASSUME TypeOK, NEW r \in Requests, Look(r)
  PROVE  /\ UNCHANGED <<kind, row, copies, faults, overrun>>
         /\ request[r].at = "looking"
         /\ \/ row.status = "absent" /\ Moves(r, "new", request[r].status)
            \/ Moves(r, "idle", "absent")
            \/ row.status \in {"pending", "failed"} /\ Moves(r, "stored", row.status)
  BY GoesMoves, EndsMoves, RecordMoves DEF Look, Statuses

\* Storing it, or finding that another request did.
LEMMA InsertEffect ==
  ASSUME TypeOK, NEW r \in Requests, Insert(r)
  PROVE  /\ UNCHANGED <<kind, copies, faults, overrun>>
         /\ request[r].at = "new"
         /\ \/ /\ row.status = "absent" /\ Moves(r, "stored", "pending")
               /\ row' \in RowRecords
               /\ Fields(row', "pending", NoOne, FALSE, (kind = "attachment"))
            \/ row.status # "absent" /\ Moves(r, "looking", request[r].status) /\ UNCHANGED row
<1>1. UNCHANGED <<kind, copies, faults, overrun>> /\ request[r].at = "new"
  BY DEF Insert
<1>2. CASE row.status = "absent"
  <2> DEFINE p == kind = "attachment"
  <2>1. row' = [NoRow EXCEPT !.status = "pending", !.payload = p]
    BY <1>2 DEF Insert
  <2>2. request' = [request EXCEPT ![r] = [at |-> "stored", status |-> "pending"]]
    BY <1>2 DEF Insert
  <2>3. Moves(r, "stored", "pending")
    BY <2>2, RecordMoves DEF Statuses
  <2>4. p \in BOOLEAN /\ "pending" \in Statuses
    BY DEF Statuses
  <2>5. NoRow.holder = NoOne /\ NoRow.leased = FALSE
    BY DEF NoRow
  <2> HIDE DEF p
  <2>6. row' \in RowRecords /\ Fields(row', "pending", NoOne, FALSE, p)
    BY <2>1, <2>4, <2>5, NoRowType, RowUpdates
  <2> QED
    BY <1>1, <1>2, <2>3, <2>6 DEF p
<1>3. CASE row.status # "absent"
  BY <1>1, <1>3, GoesMoves DEF Insert
<1> QED
  BY <1>2, <1>3

\* Claiming it, or giving up.
LEMMA ClaimEffect ==
  ASSUME TypeOK, NEW r \in Requests, Claim(r)
  PROVE  /\ UNCHANGED <<kind, copies, faults, overrun>>
         /\ request[r].at = "stored"
         /\ \/ /\ Undelivered /\ Free /\ Moves(r, "sending", "pending")
               /\ row' \in RowRecords
               /\ Fields(row', "pending", r, TRUE, row.payload)
            \/ ~(Undelivered /\ Free) /\ Moves(r, "idle", "absent") /\ UNCHANGED row
<1>1. UNCHANGED <<kind, copies, faults, overrun>> /\ request[r].at = "stored"
  BY DEF Claim
<1>2. CASE Undelivered /\ Free
  <2>1. row' = [row EXCEPT !.status = "pending", !.holder = r, !.leased = TRUE]
    BY <1>2, Zenon DEF Claim
  <2>2. request' = [request EXCEPT ![r] = [at |-> "sending", status |-> "pending"]]
    BY <1>2, Zenon DEF Claim, StatusRefreshed
  <2>3. Moves(r, "sending", "pending")
    BY <2>2, RecordMoves DEF Statuses
  <2>4. row' \in RowRecords /\ Fields(row', "pending", r, TRUE, row.payload)
    BY <2>1, TypeParts, RowUpdates DEF Statuses
  <2> QED
    BY <1>1, <1>2, <2>3, <2>4
<1>3. CASE ~(Undelivered /\ Free)
  <2>1. Ends(r) /\ UNCHANGED row
    BY <1>3, Zenon DEF Claim
  <2> QED
    BY <1>1, <1>3, <2>1, EndsMoves
<1> QED
  BY <1>2, <1>3

\* Calling Telegram.
LEMMA SendEffect ==
  ASSUME TypeOK, Remembered, NEW r \in Requests, Send(r)
  PROVE  /\ UNCHANGED <<kind, row, overrun>>
         /\ request[r].at = "sending"
         /\ \/ copies' = copies + 1 /\ Moves(r, "answered", "sent") /\ UNCHANGED faults
            \/ Moves(r, "answered", "failed") /\ UNCHANGED <<copies, faults>>
            \/ Fault("lost") /\ copies' = copies + 1 /\ Moves(r, "answered", "failed")
<1>1. request[r].status = "pending"
  BY DEF Send, Remembered
<1>2. Assigned(r, "sent") = "sent" /\ Assigned(r, "failed") = "failed"
  BY <1>1 DEF Assigned
<1>3. \A s \in {"sent", "failed"} : Answered(r, s) => Moves(r, "answered", s)
  BY RecordMoves DEF Answered, Statuses
<1> QED
  BY <1>2, <1>3 DEF Send

\* Recording what Telegram answered.
LEMMA RecordEffect ==
  ASSUME TypeOK, Remembered, NEW r \in Requests, Record(r)
  PROVE  /\ UNCHANGED <<kind, copies, faults, overrun>>
         /\ request[r].at = "answered" /\ request[r].status \in {"sent", "failed"}
         /\ Moves(r, "idle", "absent")
         /\ row' \in RowRecords
         /\ row'.status = request[r].status
         /\ row'.payload = (row.payload /\ request[r].status # "sent")
         /\ \/ row.holder = r /\ row'.holder = NoOne /\ row'.leased = FALSE
            \/ row.holder # r /\ row'.holder = row.holder /\ row'.leased = row.leased
<1> DEFINE status == request[r].status
           R == Released(r)
           p == PayloadAfter(status)
<1>1. UNCHANGED <<kind, copies, faults, overrun>> /\ request[r].at = "answered"
  BY DEF Record
<1>2. status \in {"sent", "failed"}
  BY <1>1 DEF Remembered
<1>3. Moves(r, "idle", "absent")
  BY EndsMoves DEF Record
<1>4. row' = [R EXCEPT !.status = IF status = "absent" THEN @ ELSE status, !.payload = p]
  BY DEF Record
<1>5. row' = [R EXCEPT !.status = status, !.payload = p]
  BY <1>2, <1>4
<1>6. p \in BOOLEAN /\ p = (row.payload /\ status # "sent")
  BY DEF PayloadAfter
<1>7. row \in RowRecords /\ "pending" \in Statuses
  BY TypeParts DEF Statuses
<1>8. R \in RowRecords
  BY <1>7, RowUpdates DEF Released
<1>9. \/ row.holder = r /\ R.holder = NoOne /\ R.leased = FALSE
      \/ row.holder # r /\ R.holder = row.holder /\ R.leased = row.leased
  BY <1>7, RowUpdates DEF Released, Fields
<1> HIDE DEF status, R, p
<1>10. status \in Statuses
  BY <1>2 DEF Statuses
<1>11. row' \in RowRecords /\ Fields(row', status, R.holder, R.leased, p)
  BY <1>5, <1>6, <1>8, <1>10, RowUpdates
<1> QED
  BY <1>1, <1>2, <1>3, <1>6, <1>9, <1>11 DEF Fields, status

\* The end of a lease.
LEMMA LeaseEffect ==
  ASSUME TypeOK, LeaseEnds
  PROVE  /\ UNCHANGED <<kind, request, copies>>
         /\ row.leased /\ row.holder \in Requests
         /\ row' \in RowRecords
         /\ Fields(row', row.status, row.holder, FALSE, row.payload)
         /\ \/ Delivers(row.holder) /\ Fault("slow") /\ overrun' = TRUE
            \/ ~Delivers(row.holder) /\ UNCHANGED <<faults, overrun>>
<1>1. row.leased /\ row' = [row EXCEPT !.leased = FALSE] /\ UNCHANGED <<kind, request, copies>>
  BY DEF LeaseEnds
<1>2. row \in RowRecords /\ row.holder \in Requests
  BY <1>1, TypeParts DEF RowRecords
<1>3. row' \in RowRecords /\ Fields(row', row.status, row.holder, FALSE, row.payload)
  BY <1>1, <1>2, RowUpdates DEF Statuses
<1>4. (\E r \in Requests : row.holder = r /\ Delivers(r)) <=> Delivers(row.holder)
  BY <1>2
<1>5. \/ Delivers(row.holder) /\ Fault("slow") /\ overrun' = TRUE
      \/ ~Delivers(row.holder) /\ UNCHANGED <<faults, overrun>>
  BY <1>4, Zenon DEF LeaseEnds
<1> QED
  BY <1>1, <1>2, <1>3, <1>5

\* A request arrives.
LEMMA ArriveEffect ==
  ASSUME TypeOK, NEW r \in Requests, Arrive(r)
  PROVE  /\ UNCHANGED <<kind, row, copies, faults, overrun>>
         /\ request[r].at = "idle" /\ Moves(r, "looking", request[r].status)
  BY GoesMoves DEF Arrive

\* A request dies.
LEMMA CrashEffect ==
  ASSUME TypeOK, NEW r \in Requests, Crash(r)
  PROVE  /\ UNCHANGED <<kind, row, copies, overrun>>
         /\ Fault("crash") /\ Moves(r, "idle", "absent")
  BY EndsMoves DEF Crash

----------------------------------------------------------------------------
(* Every action keeps the invariant. *)

\* Arrive preserves the invariant.
LEMMA ArriveStep ==
  ASSUME DInv, NEW r \in Requests, Arrive(r)
  PROVE  DInv'
<1>d. /\ TypeOK /\ NothingYet /\ Remembered
      /\ Exclusive /\ PutAway /\ RetryPossible
      /\ ClaimsWork /\ PendingWorked /\ RowKnows /\ RequestsKnow
      /\ CopiesPaid
  BY DEF DInv
<1>t. /\ kind \in Kinds /\ row \in RowRecords /\ request \in [Requests -> RequestRecords]
      /\ row.leased => row.holder # NoOne
      /\ copies \in Nat /\ faults \in 0..MaxFaults /\ overrun \in BOOLEAN
  BY <1>d, TypeParts
<1>e. /\ UNCHANGED <<kind, row, copies, faults, overrun>>
      /\ request[r].at = "idle"
      /\ Moves(r, "looking", request[r].status)
  BY <1>d, ArriveEffect
<1>n. /\ UNCHANGED <<kind, row, copies, faults, overrun>>
      /\ request[r].at = "idle"
      /\ Now(r, "looking", request[r].status)
  BY <1>d, <1>e, Moved
<1>h. row.leased => row.holder \in Requests
  BY <1>t DEF RowRecords
<1>0. TypeOK'
  <2>1. /\ kind' \in Kinds /\ row' \in RowRecords /\ request' \in [Requests -> RequestRecords]
        /\ row'.leased => row'.holder # NoOne
        /\ copies' \in Nat /\ faults' \in 0..MaxFaults /\ overrun' \in BOOLEAN
    BY <1>t, <1>n DEF Fields, Now
  <2> QED
    BY <2>1 DEF TypeOK, RowRecords, RequestRecords
<1>1. NothingYet'
  BY <1>d, <1>n DEF NothingYet, Now
<1>2. Remembered'
  BY <1>d, <1>n DEF Remembered, Now
<1>3. Exclusive'
  BY <1>d, <1>n DEF Exclusive, Delivers, Now
<1>4. PutAway'
  BY <1>d, <1>n DEF PutAway
<1>5. RetryPossible'
  BY <1>d, <1>n DEF RetryPossible, HasPayload
<1>6. ClaimsWork'
  BY <1>d, <1>t, <1>n DEF ClaimsWork, Delivers, RowRecords, Now
<1>7. PendingWorked'
  BY <1>d, <1>n DEF PendingWorked, Now
<1>8. RowKnows'
  BY <1>d, <1>n DEF RowKnows
<1>9. RequestsKnow'
  BY <1>d, <1>n DEF RequestsKnow, Now
<1>10. CopiesPaid'
  <2>1. Claimable' <=> Claimable
    BY <1>n, <1>h DEF Claimable, Undelivered, Delivers, Now
  <2> QED
    BY <1>d, <1>0, <1>t, <1>e, <2>1, PaidStep DEF One, Right
<1> QED
  BY <1>0, <1>1, <1>2, <1>3, <1>4, <1>5, <1>6, <1>7, <1>8, <1>9, <1>10 DEF DInv

\* Look preserves the invariant.
LEMMA LookStep ==
  ASSUME DInv, NEW r \in Requests, Look(r)
  PROVE  DInv'
<1>d. /\ TypeOK /\ NothingYet /\ Remembered
      /\ Exclusive /\ PutAway /\ RetryPossible
      /\ ClaimsWork /\ PendingWorked /\ RowKnows /\ RequestsKnow
      /\ CopiesPaid
  BY DEF DInv
<1>t. /\ kind \in Kinds /\ row \in RowRecords /\ request \in [Requests -> RequestRecords]
      /\ row.leased => row.holder # NoOne
      /\ copies \in Nat /\ faults \in 0..MaxFaults /\ overrun \in BOOLEAN
  BY <1>d, TypeParts
<1>e. /\ UNCHANGED <<kind, row, copies, faults, overrun>>
      /\ request[r].at = "looking"
      /\ \/ row.status = "absent" /\ Moves(r, "new", request[r].status)
         \/ Moves(r, "idle", "absent")
         \/ row.status \in {"pending", "failed"} /\ Moves(r, "stored", row.status)
  BY <1>d, LookEffect
<1>n. /\ UNCHANGED <<kind, row, copies, faults, overrun>>
      /\ request[r].at = "looking"
      /\ \/ row.status = "absent" /\ Now(r, "new", request[r].status)
         \/ Now(r, "idle", "absent")
         \/ row.status \in {"pending", "failed"} /\ Now(r, "stored", row.status)
  BY <1>d, <1>e, Moved
<1>h. row.leased => row.holder \in Requests
  BY <1>t DEF RowRecords
<1>0. TypeOK'
  <2>1. /\ kind' \in Kinds /\ row' \in RowRecords /\ request' \in [Requests -> RequestRecords]
        /\ row'.leased => row'.holder # NoOne
        /\ copies' \in Nat /\ faults' \in 0..MaxFaults /\ overrun' \in BOOLEAN
    BY <1>t, <1>n DEF Fields, Now
  <2> QED
    BY <2>1 DEF TypeOK, RowRecords, RequestRecords
<1>1. NothingYet'
  BY <1>d, <1>n DEF NothingYet, Now
<1>2. Remembered'
  BY <1>d, <1>n DEF Remembered, Now
<1>3. Exclusive'
  BY <1>d, <1>n DEF Exclusive, Delivers, Now
<1>4. PutAway'
  BY <1>d, <1>n DEF PutAway
<1>5. RetryPossible'
  BY <1>d, <1>n DEF RetryPossible, HasPayload
<1>6. ClaimsWork'
  BY <1>d, <1>t, <1>n DEF ClaimsWork, Delivers, RowRecords, Now
<1>7. PendingWorked'
  BY <1>d, <1>n DEF PendingWorked, Now
<1>8. RowKnows'
  BY <1>d, <1>n DEF RowKnows
<1>9. RequestsKnow'
  BY <1>d, <1>n DEF RequestsKnow, Now
<1>10. CopiesPaid'
  <2>1. Claimable' <=> Claimable
    BY <1>n, <1>h DEF Claimable, Undelivered, Delivers, Now
  <2> QED
    BY <1>d, <1>0, <1>t, <1>e, <2>1, PaidStep DEF One, Right
<1> QED
  BY <1>0, <1>1, <1>2, <1>3, <1>4, <1>5, <1>6, <1>7, <1>8, <1>9, <1>10 DEF DInv

\* Insert preserves the invariant.
LEMMA InsertStep ==
  ASSUME DInv, NEW r \in Requests, Insert(r)
  PROVE  DInv'
<1>d. /\ TypeOK /\ NothingYet /\ Remembered
      /\ Exclusive /\ PutAway /\ RetryPossible
      /\ ClaimsWork /\ PendingWorked /\ RowKnows /\ RequestsKnow
      /\ CopiesPaid
  BY DEF DInv
<1>t. /\ kind \in Kinds /\ row \in RowRecords /\ request \in [Requests -> RequestRecords]
      /\ row.leased => row.holder # NoOne
      /\ copies \in Nat /\ faults \in 0..MaxFaults /\ overrun \in BOOLEAN
  BY <1>d, TypeParts
<1>c. MaxFaults \in Nat /\ NoOne \notin Requests
  BY DeliveryConstants
<1>e. /\ UNCHANGED <<kind, copies, faults, overrun>>
      /\ request[r].at = "new"
      /\ \/ /\ row.status = "absent" /\ Moves(r, "stored", "pending")
            /\ row' \in RowRecords
            /\ Fields(row', "pending", NoOne, FALSE, (kind = "attachment"))
         \/ row.status # "absent" /\ Moves(r, "looking", request[r].status) /\ UNCHANGED row
  BY <1>d, InsertEffect, Zenon
<1>n. /\ UNCHANGED <<kind, copies, faults, overrun>>
      /\ request[r].at = "new"
      /\ \/ /\ row.status = "absent" /\ Now(r, "stored", "pending")
            /\ row' \in RowRecords
            /\ Fields(row', "pending", NoOne, FALSE, (kind = "attachment"))
         \/ row.status # "absent" /\ Now(r, "looking", request[r].status) /\ UNCHANGED row
  BY <1>d, <1>e, Moved
<1>h. row.leased => row.holder \in Requests
  BY <1>t DEF RowRecords
<1>0. TypeOK'
  <2>1. /\ kind' \in Kinds /\ row' \in RowRecords /\ request' \in [Requests -> RequestRecords]
        /\ row'.leased => row'.holder # NoOne
        /\ copies' \in Nat /\ faults' \in 0..MaxFaults /\ overrun' \in BOOLEAN
    BY <1>t, <1>n DEF Fields, Now
  <2> QED
    BY <2>1 DEF TypeOK, RowRecords, RequestRecords
<1>1. NothingYet'
  BY <1>n DEF NothingYet, Fields
<1>2. Remembered'
  BY <1>d, <1>n DEF Remembered, Now
<1>3. Exclusive'
  BY <1>d, <1>n DEF Exclusive, Delivers, Now
<1>4. PutAway'
  BY <1>d, <1>n DEF PutAway, Fields
<1>5. RetryPossible'
  BY <1>d, <1>n DEF RetryPossible, HasPayload, Fields
<1>6. ClaimsWork'
  BY <1>d, <1>t, <1>n DEF ClaimsWork, Fields, Delivers, RowRecords, Now
<1>7. PendingWorked'
  BY <1>d, <1>n DEF PendingWorked, Now
<1>8. RowKnows'
  BY <1>d, <1>n DEF RowKnows, Fields
<1>9. RequestsKnow'
  BY <1>d, <1>n DEF RequestsKnow, Now
<1>10. CopiesPaid'
  <2>2. CASE row.status = "absent"
    <3>1. Claimable
      BY <1>d, <1>c, <1>h, <2>2 DEF Claimable, NothingYet
    <3>2. Moves(r, "stored", "pending")
      BY <1>e, <2>2
    <3>3. copies' + One(Right("stored", "pending")) + One(Claimable)' + faults
             <= copies + One(Right(request[r].at, request[r].status)) + One(Claimable) + faults'
      BY <1>e, <1>t, <3>1 DEF One, Right
    <3> QED
      BY <1>d, <1>0, <3>2, <3>3, PaidStep DEF One
  <2>3. CASE row.status # "absent"
    <3>1. Claimable' <=> Claimable
      BY <1>n, <1>h, <2>3 DEF Claimable, Undelivered, Delivers, Now
    <3>2. Moves(r, "looking", request[r].status)
      BY <1>e, <2>3
    <3>3. copies' + One(Right("looking", request[r].status)) + One(Claimable)' + faults
             <= copies + One(Right(request[r].at, request[r].status)) + One(Claimable) + faults'
      BY <1>e, <1>t, <3>1 DEF One, Right
    <3> QED
      BY <1>d, <1>0, <3>2, <3>3, PaidStep DEF One
  <2> QED
    BY <2>2, <2>3
<1> QED
  BY <1>0, <1>1, <1>2, <1>3, <1>4, <1>5, <1>6, <1>7, <1>8, <1>9, <1>10 DEF DInv

\* Claim preserves the invariant.
LEMMA ClaimStep ==
  ASSUME DInv, NEW r \in Requests, Claim(r)
  PROVE  DInv'
<1>d. /\ TypeOK /\ NothingYet /\ Remembered
      /\ Exclusive /\ PutAway /\ RetryPossible
      /\ ClaimsWork /\ PendingWorked /\ RowKnows /\ RequestsKnow
      /\ CopiesPaid
  BY DEF DInv
<1>t. /\ kind \in Kinds /\ row \in RowRecords /\ request \in [Requests -> RequestRecords]
      /\ row.leased => row.holder # NoOne
      /\ copies \in Nat /\ faults \in 0..MaxFaults /\ overrun \in BOOLEAN
  BY <1>d, TypeParts
<1>c. MaxFaults \in Nat /\ NoOne \notin Requests
  BY DeliveryConstants
<1>e. /\ UNCHANGED <<kind, copies, faults, overrun>>
      /\ request[r].at = "stored"
      /\ \/ /\ Undelivered /\ Free /\ Moves(r, "sending", "pending")
            /\ row' \in RowRecords
            /\ Fields(row', "pending", r, TRUE, row.payload)
         \/ ~(Undelivered /\ Free) /\ Moves(r, "idle", "absent") /\ UNCHANGED row
  BY <1>d, ClaimEffect, Zenon
<1>n. /\ UNCHANGED <<kind, copies, faults, overrun>>
      /\ request[r].at = "stored"
      /\ \/ /\ Undelivered /\ Free /\ Now(r, "sending", "pending")
            /\ row' \in RowRecords
            /\ Fields(row', "pending", r, TRUE, row.payload)
         \/ ~(Undelivered /\ Free) /\ Now(r, "idle", "absent") /\ UNCHANGED row
  BY <1>d, <1>e, Moved
<1>h. row.leased => row.holder \in Requests
  BY <1>t DEF RowRecords
<1>0. TypeOK'
  <2>1. /\ kind' \in Kinds /\ row' \in RowRecords /\ request' \in [Requests -> RequestRecords]
        /\ row'.leased => row'.holder # NoOne
        /\ copies' \in Nat /\ faults' \in 0..MaxFaults /\ overrun' \in BOOLEAN
    BY <1>t, <1>c, <1>n DEF Fields, Now
  <2> QED
    BY <2>1 DEF TypeOK, RowRecords, RequestRecords
<1>1. NothingYet'
  BY <1>d, <1>n DEF NothingYet, Fields
<1>2. Remembered'
  BY <1>d, <1>n DEF Remembered, Now
<1>3. Exclusive'
  BY <1>d, <1>c, <1>n DEF Exclusive, Fields, Delivers, Free, Now
<1>4. PutAway'
  BY <1>d, <1>n DEF PutAway, Fields
<1>5. RetryPossible'
  BY <1>d, <1>n DEF RetryPossible, HasPayload, Fields, Undelivered
<1>6. ClaimsWork'
  BY <1>d, <1>t, <1>n DEF ClaimsWork, Fields, Delivers, RowRecords, Now
<1>7. PendingWorked'
  BY <1>d, <1>t, <1>n DEF PendingWorked, Fields, Delivers, Undelivered, Free, RetryPossible, HasPayload, ClaimsWork, RowRecords, Now
<1>8. RowKnows'
  BY <1>d, <1>n DEF RowKnows, Fields
<1>9. RequestsKnow'
  BY ZenonT(40), <1>d, <1>c, <1>n DEF RequestsKnow, ClaimsWork, PutAway, Exclusive, Undelivered, Free, Delivers, Now
<1>10. CopiesPaid'
  <2>1. CASE Undelivered /\ Free
    <3>1. Claimable /\ ~Claimable'
      BY <1>t, <1>n, <2>1 DEF Claimable, Delivers, Fields, Free, Now
    <3>2. Moves(r, "sending", "pending")
      BY <1>e, <2>1
    <3>3. copies' + One(Right("sending", "pending")) + One(Claimable)' + faults
             <= copies + One(Right(request[r].at, request[r].status)) + One(Claimable) + faults'
      BY <1>e, <1>t, <3>1 DEF One
    <3> QED
      BY <1>d, <1>0, <3>2, <3>3, PaidStep DEF One
  <2>2. CASE ~(Undelivered /\ Free)
    <3>1. Claimable' <=> Claimable
      BY <1>n, <1>h, <2>2 DEF Claimable, Undelivered, Delivers, Now
    <3>2. Moves(r, "idle", "absent")
      BY <1>e, <2>2
    <3>3. copies' + One(Right("idle", "absent")) + One(Claimable)' + faults
             <= copies + One(Right(request[r].at, request[r].status)) + One(Claimable) + faults'
      BY <1>e, <1>t, <3>1 DEF One, Right
    <3> QED
      BY <1>d, <1>0, <3>2, <3>3, PaidStep DEF One
  <2> QED
    BY <2>1, <2>2
<1> QED
  BY <1>0, <1>1, <1>2, <1>3, <1>4, <1>5, <1>6, <1>7, <1>8, <1>9, <1>10 DEF DInv

\* Send preserves the invariant.
LEMMA SendStep ==
  ASSUME DInv, NEW r \in Requests, Send(r)
  PROVE  DInv'
<1>d. /\ TypeOK /\ NothingYet /\ Remembered
      /\ Exclusive /\ PutAway /\ RetryPossible
      /\ ClaimsWork /\ PendingWorked /\ RowKnows /\ RequestsKnow
      /\ CopiesPaid
  BY DEF DInv
<1>t. /\ kind \in Kinds /\ row \in RowRecords /\ request \in [Requests -> RequestRecords]
      /\ row.leased => row.holder # NoOne
      /\ copies \in Nat /\ faults \in 0..MaxFaults /\ overrun \in BOOLEAN
  BY <1>d, TypeParts
<1>c. MaxFaults \in Nat /\ NoOne \notin Requests
  BY DeliveryConstants
<1>e. /\ UNCHANGED <<kind, row, overrun>>
      /\ request[r].at = "sending"
      /\ \/ copies' = copies + 1 /\ Moves(r, "answered", "sent") /\ UNCHANGED faults
         \/ Moves(r, "answered", "failed") /\ UNCHANGED <<copies, faults>>
         \/ Fault("lost") /\ copies' = copies + 1 /\ Moves(r, "answered", "failed")
  BY <1>d, SendEffect
<1>n. /\ UNCHANGED <<kind, row, overrun>>
      /\ request[r].at = "sending"
      /\ \/ copies' = copies + 1 /\ Now(r, "answered", "sent") /\ UNCHANGED faults
         \/ Now(r, "answered", "failed") /\ UNCHANGED <<copies, faults>>
         \/ Fault("lost") /\ copies' = copies + 1 /\ Now(r, "answered", "failed")
  BY <1>d, <1>e, Moved
<1>h. row.leased => row.holder \in Requests
  BY <1>t DEF RowRecords
<1>0. TypeOK'
  <2>1. /\ kind' \in Kinds /\ row' \in RowRecords /\ request' \in [Requests -> RequestRecords]
        /\ row'.leased => row'.holder # NoOne
        /\ copies' \in Nat /\ faults' \in 0..MaxFaults /\ overrun' \in BOOLEAN
    BY <1>t, <1>c, <1>n DEF Fields, Fault, Now
  <2> QED
    BY <2>1 DEF TypeOK, RowRecords, RequestRecords
<1>1. NothingYet'
  BY <1>d, <1>n DEF NothingYet
<1>2. Remembered'
  BY <1>d, <1>n DEF Remembered, Now
<1>3. Exclusive'
  BY <1>d, <1>n DEF Exclusive, Delivers, Now
<1>4. PutAway'
  BY <1>d, <1>n DEF PutAway
<1>5. RetryPossible'
  BY <1>d, <1>n DEF RetryPossible, HasPayload
<1>6. ClaimsWork'
  BY <1>d, <1>t, <1>n DEF ClaimsWork, Exclusive, Delivers, Fault, Now
<1>7. PendingWorked'
  BY <1>n DEF PendingWorked, Now
<1>8. RowKnows'
  BY <1>d, <1>t, <1>n DEF RowKnows, Exclusive, ClaimsWork, Fault, Delivers
<1>9. RequestsKnow'
  BY <1>d, <1>t, <1>n DEF RequestsKnow, ClaimsWork, Exclusive, Fault, Delivers, Now
<1>10. CopiesPaid'
  <2>1. Claimable' <=> Claimable
    BY <1>n, <1>h DEF Claimable, Undelivered, Delivers, Now
  <2> QED
    BY <1>d, <1>0, <1>t, <1>e, <2>1, PaidStep DEF One, Right, Fault
<1> QED
  BY <1>0, <1>1, <1>2, <1>3, <1>4, <1>5, <1>6, <1>7, <1>8, <1>9, <1>10 DEF DInv

\* Record preserves the invariant.
LEMMA RecordStep ==
  ASSUME DInv, NEW r \in Requests, Record(r)
  PROVE  DInv'
<1>d. /\ TypeOK /\ NothingYet /\ Remembered
      /\ Exclusive /\ PutAway /\ RetryPossible
      /\ ClaimsWork /\ PendingWorked /\ RowKnows /\ RequestsKnow
      /\ CopiesPaid
  BY DEF DInv
<1>t. /\ kind \in Kinds /\ row \in RowRecords /\ request \in [Requests -> RequestRecords]
      /\ row.leased => row.holder # NoOne
      /\ copies \in Nat /\ faults \in 0..MaxFaults /\ overrun \in BOOLEAN
  BY <1>d, TypeParts
<1>e. /\ UNCHANGED <<kind, copies, faults, overrun>>
      /\ request[r].at = "answered" /\ request[r].status \in {"sent", "failed"}
      /\ Moves(r, "idle", "absent") /\ row' \in RowRecords
      /\ row'.status = request[r].status
      /\ row'.payload = (row.payload /\ request[r].status # "sent")
      /\ \/ row.holder = r /\ row'.holder = NoOne /\ row'.leased = FALSE
         \/ row.holder # r /\ row'.holder = row.holder /\ row'.leased = row.leased
  BY <1>d, RecordEffect
<1>n. /\ UNCHANGED <<kind, copies, faults, overrun>>
      /\ request[r].at = "answered" /\ request[r].status \in {"sent", "failed"}
      /\ Now(r, "idle", "absent") /\ row' \in RowRecords
      /\ row'.status = request[r].status
      /\ row'.payload = (row.payload /\ request[r].status # "sent")
      /\ \/ row.holder = r /\ row'.holder = NoOne /\ row'.leased = FALSE
         \/ row.holder # r /\ row'.holder = row.holder /\ row'.leased = row.leased
  BY <1>d, <1>e, Moved
<1>0. TypeOK'
  <2>1. /\ kind' \in Kinds /\ row' \in RowRecords /\ request' \in [Requests -> RequestRecords]
        /\ row'.leased => row'.holder # NoOne
        /\ copies' \in Nat /\ faults' \in 0..MaxFaults /\ overrun' \in BOOLEAN
    BY <1>t, <1>n DEF Fields, Now
  <2> QED
    BY <2>1 DEF TypeOK, RowRecords, RequestRecords
<1>1. NothingYet'
  BY <1>n DEF NothingYet
<1>2. Remembered'
  BY <1>d, <1>n DEF Remembered, Now
<1>3. Exclusive'
  BY <1>d, <1>n DEF Exclusive, Delivers, Now
<1>4. PutAway'
  BY <1>d, <1>n DEF PutAway, Exclusive, Delivers
<1>5. RetryPossible'
  BY <1>d, <1>n DEF RetryPossible, HasPayload, Exclusive, Delivers
<1>6. ClaimsWork'
  BY <1>d, <1>n DEF ClaimsWork, Exclusive, Delivers
<1>7. PendingWorked'
  BY <1>n DEF PendingWorked
<1>8. RowKnows'
  BY <1>d, <1>n DEF RowKnows, RequestsKnow
<1>9. RequestsKnow'
  BY <1>d, <1>n DEF RequestsKnow, Now
<1>10. CopiesPaid'
  <2>1. request[r].status = "sent" => ~Claimable'
    BY <1>n DEF Claimable, Undelivered
  <2> QED
    BY <1>d, <1>0, <1>t, <1>e, <2>1, PaidStep DEF One, Right
<1> QED
  BY <1>0, <1>1, <1>2, <1>3, <1>4, <1>5, <1>6, <1>7, <1>8, <1>9, <1>10 DEF DInv

\* Crash preserves the invariant.
LEMMA CrashStep ==
  ASSUME DInv, NEW r \in Requests, Crash(r)
  PROVE  DInv'
<1>d. /\ TypeOK /\ NothingYet /\ Remembered
      /\ Exclusive /\ PutAway /\ RetryPossible
      /\ ClaimsWork /\ PendingWorked /\ RowKnows /\ RequestsKnow
      /\ CopiesPaid
  BY DEF DInv
<1>t. /\ kind \in Kinds /\ row \in RowRecords /\ request \in [Requests -> RequestRecords]
      /\ row.leased => row.holder # NoOne
      /\ copies \in Nat /\ faults \in 0..MaxFaults /\ overrun \in BOOLEAN
  BY <1>d, TypeParts
<1>c. MaxFaults \in Nat /\ NoOne \notin Requests
  BY DeliveryConstants
<1>e. /\ UNCHANGED <<kind, row, copies, overrun>>
      /\ Fault("crash")
      /\ Moves(r, "idle", "absent")
  BY <1>d, CrashEffect
<1>n. /\ UNCHANGED <<kind, row, copies, overrun>>
      /\ Fault("crash")
      /\ Now(r, "idle", "absent")
  BY <1>d, <1>e, Moved
<1>0. TypeOK'
  <2>1. /\ kind' \in Kinds /\ row' \in RowRecords /\ request' \in [Requests -> RequestRecords]
        /\ row'.leased => row'.holder # NoOne
        /\ copies' \in Nat /\ faults' \in 0..MaxFaults /\ overrun' \in BOOLEAN
    BY <1>t, <1>c, <1>n DEF Fields, Fault, Now
  <2> QED
    BY <2>1 DEF TypeOK, RowRecords, RequestRecords
<1>1. NothingYet'
  BY <1>d, <1>n DEF NothingYet, Now
<1>2. Remembered'
  BY <1>d, <1>n DEF Remembered, Now
<1>3. Exclusive'
  BY <1>d, <1>n DEF Exclusive, Delivers, Now
<1>4. PutAway'
  BY <1>d, <1>n DEF PutAway
<1>5. RetryPossible'
  BY <1>d, <1>n DEF RetryPossible, HasPayload
<1>6. ClaimsWork'
  BY <1>t, <1>n DEF ClaimsWork, Fault
<1>7. PendingWorked'
  BY <1>t, <1>n DEF PendingWorked, Fault
<1>8. RowKnows'
  BY <1>t, <1>n DEF RowKnows, Fault
<1>9. RequestsKnow'
  BY <1>t, <1>n DEF RequestsKnow, Fault
<1>10. CopiesPaid'
  BY <1>d, <1>0, <1>t, <1>e, PaidStep DEF One, Right, Fault
<1> QED
  BY <1>0, <1>1, <1>2, <1>3, <1>4, <1>5, <1>6, <1>7, <1>8, <1>9, <1>10 DEF DInv

\* LeaseEnds preserves the invariant.
LEMMA LeaseEndsStep ==
  ASSUME DInv, LeaseEnds
  PROVE  DInv'
<1>d. /\ TypeOK /\ NothingYet /\ Remembered
      /\ Exclusive /\ PutAway /\ RetryPossible
      /\ ClaimsWork /\ PendingWorked /\ RowKnows /\ RequestsKnow
      /\ CopiesPaid
  BY DEF DInv
<1>t. /\ kind \in Kinds /\ row \in RowRecords /\ request \in [Requests -> RequestRecords]
      /\ row.leased => row.holder # NoOne
      /\ copies \in Nat /\ faults \in 0..MaxFaults /\ overrun \in BOOLEAN
  BY <1>d, TypeParts
<1>c. MaxFaults \in Nat /\ NoOne \notin Requests
  BY DeliveryConstants
<1>e. /\ UNCHANGED <<kind, request, copies>>
      /\ row.leased /\ row.holder \in Requests
      /\ row' \in RowRecords
      /\ Fields(row', row.status, row.holder, FALSE, row.payload)
      /\ \/ Delivers(row.holder) /\ Fault("slow") /\ overrun' = TRUE
         \/ ~Delivers(row.holder) /\ UNCHANGED <<faults, overrun>>
  BY <1>d, LeaseEffect
<1>0. TypeOK'
  <2>1. faults' \in 0..MaxFaults
    BY <1>t, <1>c, <1>e DEF Fault
  <2>2. overrun' \in BOOLEAN
    BY <1>d, <1>t, <1>c, <1>e
  <2>3. kind' \in Kinds /\ request' \in [Requests -> RequestRecords] /\ copies' \in Nat
    BY <1>d, <1>t, <1>c, <1>e
  <2>4. row' \in RowRecords /\ ~row'.leased
    BY <1>e DEF Fields
  <2> QED
    BY <2>1, <2>2, <2>3, <2>4 DEF TypeOK, RowRecords, RequestRecords
<1>1. NothingYet'
  BY <1>d, <1>e DEF NothingYet, Fields
<1>2. Remembered'
  BY <1>d, <1>e DEF Remembered
<1>3. Exclusive'
  BY <1>d, <1>e DEF Exclusive, Delivers
<1>4. PutAway'
  BY <1>d, <1>e DEF PutAway, Fields
<1>5. RetryPossible'
  BY <1>d, <1>e DEF RetryPossible, HasPayload, Fields
<1>6. ClaimsWork'
  BY <1>d, <1>t, <1>e DEF ClaimsWork, Fault
<1>7. PendingWorked'
  BY <1>d, <1>t, <1>e DEF PendingWorked, Fault, ClaimsWork
<1>8. RowKnows'
  BY <1>d, <1>t, <1>e DEF RowKnows, Fields, Fault
<1>9. RequestsKnow'
  BY <1>d, <1>t, <1>e DEF RequestsKnow, Fields, Fault
<1>10. CopiesPaid'
  <2>1. ~Delivers(row.holder) => (Claimable' <=> Claimable)
    BY <1>e DEF Claimable, Undelivered, Fields
  <2> QED
    BY <1>d, <1>0, <1>t, <1>e, <2>1, PaidRest DEF One, Fault
<1> QED
  BY <1>0, <1>1, <1>2, <1>3, <1>4, <1>5, <1>6, <1>7, <1>8, <1>9, <1>10 DEF DInv

\* Every step, and every stutter, preserves the invariant.
LEMMA NextStep == DInv /\ [Next]_vars => DInv'
<1> SUFFICES ASSUME DInv, [Next]_vars PROVE DInv'
  OBVIOUS
<1>1. ASSUME NEW r \in Requests,
             Arrive(r) \/ Look(r) \/ Insert(r) \/ Claim(r) \/ Send(r) \/ Record(r) \/ Crash(r)
      PROVE  DInv'
  BY <1>1, ArriveStep, LookStep, InsertStep, ClaimStep, SendStep, RecordStep, CrashStep
<1>2. CASE LeaseEnds
  BY <1>2, LeaseEndsStep
<1>3. CASE UNCHANGED vars
  <2>1. DInv <=> DInv'
    BY <1>3 DEF vars, DInv, TypeOK, NothingYet, Remembered, Exclusive, PutAway, RetryPossible,
                HasPayload, ClaimsWork, PendingWorked, RowKnows, RequestsKnow, Delivers,
                CopiesPaid, Weight, Claimable, Undelivered, Rights
  <2> QED
    BY <2>1
<1> QED
  BY <1>1, <1>2, <1>3 DEF Next

----------------------------------------------------------------------------
(* What follows for every behaviour. *)

\* The inductive invariant holds, for any finite number of requests, any kinds of
\* messages and any number of faults.
THEOREM Inductive == Spec => []DInv
<1>1. Init => DInv
  BY InitInv
<1>2. DInv /\ [Next]_vars => DInv'
  BY NextStep
<1> QED
  BY <1>1, <1>2, PTL DEF Spec

\* Every variable keeps its type; in particular a lease has a holder.
THEOREM TypeCorrect == Spec => []TypeOK
<1>1. DInv => TypeOK
  BY DEF DInv
<1> QED
  BY <1>1, Inductive, PTL

\* However many requests repeat a message, all its copies but one are due to a
\* lost answer, a crash or a lease that was too short (claim_text_delivery and its
\* like decide who may call Telegram).
THEOREM CopiesCorrect == Spec => []CopiesExplained
<1>1. DInv => CopiesExplained
  <2> SUFFICES ASSUME DInv PROVE CopiesExplained
    OBVIOUS
  <2>1. copies \in Nat /\ faults \in Nat
    BY DeliveryConstants DEF DInv, TypeOK
  <2>2. Cardinality(Rights) \in Nat
    BY RightsFinite
  <2>3. Weight <= 1 + faults
    BY DEF DInv, CopiesPaid
  <2>4. copies <= Weight
    BY <2>1, <2>2 DEF Weight
  <2>5. Weight \in Int
    BY <2>1, <2>2 DEF Weight
  <2> QED
    BY <2>1, <2>3, <2>4, <2>5 DEF CopiesExplained
<1> QED
  BY <1>1, Inductive, PTL

\* Without faults a message at rest is marked sent exactly when the customer has it.
THEOREM StatusCorrect == Spec => []StatusHonest
<1>1. DInv => StatusHonest
  <2> SUFFICES ASSUME DInv, faults = 0, row.status # "absent",
                      \A r \in Requests : request[r].at = "idle"
               PROVE  row.status = IF copies = 0 THEN "failed" ELSE "sent"
    BY DEF StatusHonest
  <2>1. row.status \in Statuses
    BY DEF DInv, TypeOK
  <2>2. row.status # "pending"
    BY DEF DInv, PendingWorked
  <2> QED
    BY <2>1, <2>2 DEF DInv, RowKnows, Statuses
<1> QED
  BY <1>1, Inductive, PTL

\* What is not sent can be sent again: an attachment still has its bytes.
THEOREM RetryCorrect == Spec => []RetryPossible
<1>1. DInv => RetryPossible
  BY DEF DInv
<1> QED
  BY <1>1, Inductive, PTL

\* Once sent, always sent: nobody claims or marks a delivered message again.
THEOREM SentCorrect == Spec => SentStays
<1>1. DInv /\ [Next]_vars => [row.status = "sent" /\ ~overrun => row' = row]_vars
  <2> SUFFICES ASSUME DInv, Next, row.status = "sent", ~overrun
               PROVE  row' = row
    BY DEF vars
  <2>1. ~row.leased /\ ~row.payload
    BY DEF DInv, PutAway
  <2>2. \A r \in Requests : ~Delivers(r)
    BY DEF DInv, Exclusive
  <2>3. ASSUME NEW r \in Requests, Claim(r) PROVE row' = row
    <3>1. ~Undelivered
      BY <2>1 DEF Undelivered
    <3> QED
      BY <2>3, <3>1, Zenon DEF Claim
  <2>4. ASSUME NEW r \in Requests, Insert(r) PROVE row' = row
    BY <2>4 DEF Insert
  <2>5. ASSUME NEW r \in Requests, Record(r) PROVE FALSE
    BY <2>2, <2>5 DEF Record, Delivers
  <2>6. ~LeaseEnds
    BY <2>1 DEF LeaseEnds
  <2> QED
    BY <2>3, <2>4, <2>5, <2>6 DEF Next, Arrive, Look, Send, Crash
<1> QED
  BY <1>1, Inductive, PTL DEF Spec, SentStays
=============================================================================
