---------------------------- MODULE ChatDelivery ----------------------------
(***************************************************************************)
(* A message of the manager on its way to a customer's Telegram chat: a    *)
(* text (services/chat.py), a forwarded message                            *)
(* (services/chat_forwarding.py) or an attachment                          *)
(* (services/chat_attachments.py).  The row is found by the key the client *)
(* has chosen, so a request may be repeated; who delivers it is decided by *)
(* a claim with a lease, committed before Telegram is called.              *)
(***************************************************************************)
EXTENDS Integers, FiniteSets

CONSTANTS
    Requests,   \* requests with the client's key: the first one and its repetitions
    Kinds,      \* kinds of messages: "text", "forward", "attachment"
    Faults,     \* what may go wrong: "lost", "crash", "slow"
    MaxFaults,  \* bound on how often
    NoOne

ASSUME DeliveryConstants ==
    /\ Kinds \subseteq {"text", "forward", "attachment"} /\ Kinds # {}
    /\ Faults \subseteq {"lost", "crash", "slow"}
    /\ MaxFaults \in Nat
    /\ IsFiniteSet(Requests) /\ NoOne \notin Requests

VARIABLES
    kind,     \* what is sent
    row,      \* the ChatMessages row: [status, holder, leased, payload]
    request,  \* Requests -> [at, status]: where it is, the status it has in memory
    copies,   \* how often the message has reached the customer
    faults,   \* how often something went wrong
    overrun   \* history: a lease ended before its holder did

vars == <<kind, row, request, copies, faults, overrun>>

Statuses == {"absent", "pending", "sent", "failed"}

NoRow == [status |-> "absent", holder |-> NoOne, leased |-> FALSE, payload |-> FALSE]
Idle == [at |-> "idle", status |-> "absent"]

Delivers(r) == request[r].at \in {"sending", "answered"}
Goes(r, place) == request' = [request EXCEPT ![r].at = place]
Ends(r) == request' = [request EXCEPT ![r] = Idle]

Fault(k) ==
    /\ k \in Faults
    /\ faults < MaxFaults
    /\ faults' = faults + 1

Init ==
    /\ kind \in Kinds
    /\ row = NoRow
    /\ request = [r \in Requests |-> Idle]
    /\ copies = 0
    /\ faults = 0
    /\ overrun = FALSE

----------------------------------------------------------------------------
(* The requests. *)

Arrive(r) ==
    /\ request[r].at = "idle"
    /\ Goes(r, "looking")
    /\ UNCHANGED <<kind, row, copies, faults, overrun>>

\* The bytes of an attachment are in the row until Telegram has it.
HasPayload == kind = "attachment" => row.payload

\* The row of the key: none, delivered, without its bytes, or to be delivered.  A
\* new message may be refused, and so may one whose source cannot be forwarded.
Look(r) ==
    /\ request[r].at = "looking"
    /\ \/ row.status = "absent" /\ Goes(r, "new")
       \/ (row.status = "absent" \/ kind = "forward") /\ Ends(r)
       \/ row.status # "absent" /\ (row.status = "sent" \/ ~HasPayload) /\ Ends(r)
       \/ /\ row.status \in {"pending", "failed"} /\ HasPayload
          /\ request' = [request EXCEPT ![r] = [at |-> "stored", status |-> row.status]]
    /\ UNCHANGED <<kind, row, copies, faults, overrun>>

\* Stored and committed before Telegram is called; the key is unique, and who
\* finds it taken looks again.
Insert(r) ==
    /\ request[r].at = "new"
    /\ IF row.status = "absent"
       THEN /\ row' = [NoRow EXCEPT !.status = "pending", !.payload = kind = "attachment"]
            /\ request' = [request EXCEPT ![r] = [at |-> "stored", status |-> "pending"]]
       ELSE Goes(r, "looking") /\ UNCHANGED row
    /\ UNCHANGED <<kind, copies, faults, overrun>>

\* Faulty: the claim does not look whether the text has been sent.
UndeliveredAnyway == HasPayload

\* An attachment that was delivered has lost its bytes.
Undelivered == IF kind = "attachment" THEN row.payload ELSE row.status # "sent"

\* Faulty: a claim is taken over before its lease has ended.
FreeAnyway == TRUE

Free == row.holder = NoOne \/ ~row.leased

\* Faulty: the object in memory keeps the status it was loaded with.
StatusKept(r) == request[r].status

\* db.refresh after the claim, which the session does not know of.
StatusRefreshed(r) == "pending"

\* claim_text_delivery, claim_attachment_delivery, with their commit.
Claim(r) ==
    /\ request[r].at = "stored"
    /\ IF Undelivered /\ Free
       THEN /\ row' = [row EXCEPT !.status = "pending", !.holder = r, !.leased = TRUE]
            /\ request' = [request EXCEPT ![r] =
                              [at |-> "sending", status |-> StatusRefreshed(r)]]
       ELSE Ends(r) /\ UNCHANGED row
    /\ UNCHANGED <<kind, copies, faults, overrun>>

Answered(r, status) ==
    request' = [request EXCEPT ![r] = [at |-> "answered", status |-> status]]

\* Whether the assignment of a status is a change for the session.
Assigned(r, status) == IF status = request[r].status THEN "absent" ELSE status

\* Telegram delivers, refuses, or delivers and the answer is lost.
Send(r) ==
    /\ request[r].at = "sending"
    /\ \/ copies' = copies + 1 /\ Answered(r, Assigned(r, "sent")) /\ UNCHANGED faults
       \/ Answered(r, Assigned(r, "failed")) /\ UNCHANGED <<copies, faults>>
       \/ /\ Fault("lost")
          /\ copies' = copies + 1
          /\ Answered(r, Assigned(r, "failed"))
    /\ UNCHANGED <<kind, row, overrun>>

\* Faulty: the bytes are dropped after every attempt.
PayloadDropped(status) == FALSE

PayloadAfter(status) == row.payload /\ status # "sent"

\* release_text_delivery, release_attachment_delivery: only the request's own claim.
Released(r) ==
    IF row.holder = r THEN [row EXCEPT !.holder = NoOne, !.leased = FALSE] ELSE row

\* The session writes what has changed, gives back its claim and commits.
Record(r) ==
    LET status == request[r].status
    IN  /\ request[r].at = "answered"
        /\ row' = [Released(r) EXCEPT !.status = IF status = "absent" THEN @ ELSE status,
                                      !.payload = PayloadAfter(status)]
        /\ Ends(r)
        /\ UNCHANGED <<kind, copies, faults, overrun>>

\* The process dies, or the commit fails: a claim stays in the row.
Crash(r) ==
    /\ request[r].at # "idle"
    /\ Fault("crash")
    /\ Ends(r)
    /\ UNCHANGED <<kind, row, copies, overrun>>

\* Two minutes after the claim: its holder is dead, or held up for that long.
LeaseEnds ==
    /\ row.leased
    /\ IF \E r \in Requests : row.holder = r /\ Delivers(r)
       THEN Fault("slow") /\ overrun' = TRUE
       ELSE UNCHANGED <<faults, overrun>>
    /\ row' = [row EXCEPT !.leased = FALSE]
    /\ UNCHANGED <<kind, request, copies>>

Next ==
    \/ \E r \in Requests :
          Arrive(r) \/ Look(r) \/ Insert(r) \/ Claim(r) \/ Send(r) \/ Record(r) \/ Crash(r)
    \/ LeaseEnds

Spec == Init /\ [][Next]_vars

----------------------------------------------------------------------------
(* What is promised. *)

TypeOK ==
    /\ kind \in Kinds
    /\ row \in [status : Statuses, holder : Requests \cup {NoOne},
                leased : BOOLEAN, payload : BOOLEAN]
    /\ row.leased => row.holder # NoOne
    /\ request \in [Requests -> [at : {"idle", "looking", "new", "stored", "sending", "answered"},
                                 status : Statuses]]
    /\ copies \in Nat
    /\ faults \in 0..MaxFaults
    /\ overrun \in BOOLEAN

\* However often and however concurrently a request is repeated, every copy but
\* one is due to a lost answer, a crash before the last commit or a lease that
\* was too short.
CopiesExplained == copies <= 1 + faults

\* A delivered message is never claimed, failed or sent again, unless a lease has
\* ended before its holder did.
SentStays == [][row.status = "sent" /\ ~overrun => row' = row]_vars

\* When nothing went wrong, a message nobody is working on is marked as sent or
\* failed, and as sent exactly when the customer has it.
StatusHonest ==
    faults = 0 /\ row.status # "absent" /\ (\A r \in Requests : request[r].at = "idle") =>
        row.status = IF copies = 0 THEN "failed" ELSE "sent"

\* What was not delivered can be delivered by another request once the lease is
\* over: an attachment still has its bytes.
RetryPossible ==
    row.status \in {"pending", "failed"} /\ ~overrun => HasPayload
=============================================================================
