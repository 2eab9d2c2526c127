--------------------------- MODULE FrontDoorProofs ---------------------------
(***************************************************************************)
(* Proofs about FrontDoor.  First the parts it is made of, each for itself *)
(* and for any values of its constants: OrderNumbers, AdminDesk, SiteLeads *)
(* and Rates, which have no variable in common.  Then, for any number of   *)
(* workers and requests: the processes of the API leave each part as its   *)
(* own specification says, so that what is proved of a part holds of the   *)
(* whole; and what the accounts promise, which have no specification of    *)
(* their own.                                                              *)
(***************************************************************************)
EXTENDS FrontDoor, FiniteSetTheorems, TLAPS

----------------------------------------------------------------------------
(***************************************************************************)
(* Part 1: OrderNumbers.                                                   *)
(***************************************************************************)

(* The inductive invariant. *)

OrderRows == [month : Months, value : 1..Largest]
AllValues(seq, y) == ValuesOf(seq, y, Len(seq))
LastValue(n) == IF n = -1 THEN 0 ELSE n

NotAhead == \A s \in Sessions : session[s].month <= now

\* Up to the counter of a year all its numbers are taken, beyond it none is.
Counted ==
    ~late => \A y \in Years : AllValues(orders, y) = 1..LastValue(counter[y])

NumberOf(s) == [month |-> session[s].month, value |-> NextValue(s)]

\* What a session of this month has read is what the counter still holds, or the
\* number it leads to has been taken.
SeenOrTaken ==
    ~late => \A s \in Sessions :
        session[s].at \in {"read", "written"} /\ session[s].month = now =>
            \/ LastValue(session[s].seen) = LastValue(counter[YearOf(now)])
            \/ NumberOf(s) \in Numbers

NInv == TypeOK /\ NotAhead /\ Counted /\ Consecutive /\ SeenOrTaken

----------------------------------------------------------------------------
LEMMA YearType == \A m \in Months : YearOf(m) \in Years
  BY DEF Years

\* Appending an order leaves the values before it alone and adds its own to its
\* year.
LEMMA ValuesOfAppend ==
  ASSUME NEW seq \in Seq(OrderRows), NEW o \in OrderRows, NEW y, NEW longer,
         longer = Append(seq, o)
  PROVE  /\ \A i \in 0..Len(seq) : ValuesOf(longer, y, i) = ValuesOf(seq, y, i)
         /\ \A v : v \in AllValues(longer, y) <=>
               v \in AllValues(seq, y) \/ (YearOf(o.month) = y /\ v = o.value)
<1>1. PICK n \in Nat : n = Len(seq)
  OBVIOUS
<1>2. /\ Len(longer) = n + 1
      /\ \A k \in 1..n : longer[k] = seq[k]
      /\ longer[n + 1] = o
  BY <1>1
<1>3. \A i \in 0..n : ValuesOf(longer, y, i) = ValuesOf(seq, y, i)
  BY <1>2 DEF ValuesOf
<1>4. \A v : v \in ValuesOf(longer, y, n + 1) <=>
             v \in ValuesOf(longer, y, n) \/ (YearOf(o.month) = y /\ v = o.value)
  BY <1>2 DEF ValuesOf
<1>5. AllValues(longer, y) = ValuesOf(longer, y, n + 1)
  BY <1>2 DEF AllValues
<1>6. AllValues(seq, y) = ValuesOf(longer, y, n)
  BY <1>1, <1>3 DEF AllValues
<1> QED
  BY <1>1, <1>3, <1>4, <1>5, <1>6

\* Without an order of the year there is nothing to count.
LEMMA InitInv == Init => NInv
<1> SUFFICES ASSUME Init PROVE NInv
  OBVIOUS
<1> USE NumberConstants
<1>0. 0 \in Months
  BY DEF Months
<1>1. TypeOK
  <2>1. orders \in Seq(OrderRows)
    BY DEF Init
  <2> QED
    BY <1>0, <2>1 DEF Init, TypeOK, Idle, OrderRows
<1>2. NotAhead
  BY DEF Init, NotAhead, Idle
<1>3. Counted
  <2>1. \A y : AllValues(orders, y) = {}
    BY DEF Init, AllValues, ValuesOf
  <2> QED
    BY <2>1 DEF Init, Counted, LastValue
<1>4. Consecutive
  BY DEF Init, Consecutive
<1>5. SeenOrTaken
  BY DEF Init, SeenOrTaken, Idle
<1> QED
  BY <1>1, <1>2, <1>3, <1>4, <1>5 DEF NInv

----------------------------------------------------------------------------
(* Steps that change no order. *)

LEMMA NumberType ==
  ASSUME NInv, NEW s \in Sessions, Fits(NumberOf(s))
  PROVE  /\ NumberOf(s) \in OrderRows
         /\ session[s].month \in Months
         /\ YearOf(session[s].month) \in Years
BY NumberConstants, YearType DEF NInv, TypeOK, NumberOf, NextValue, Fits, OrderRows

LEMMA QuietStep ==
  ASSUME NInv, TypeOK', NotAhead', UNCHANGED <<counter, orders, late>>,
         SeenOrTaken'
  PROVE  NInv'
<1>1. Counted'
  BY DEF NInv, Counted
<1>2. Consecutive'
  BY DEF NInv, Consecutive
<1> QED
  BY <1>1, <1>2 DEF NInv

LEMMA CommitInv ==
  ASSUME NInv, NEW s \in Sessions, Commit(s)
  PROVE  NInv'
<1> DEFINE o == NumberOf(s)
           y == YearOf(session[s].month)
<1>0. /\ TypeOK /\ NotAhead /\ Counted /\ Consecutive /\ SeenOrTaken
      /\ session[s].at = "written"
      /\ Fits(o)
      /\ orders' = Append(orders, o)
      /\ counter' = [counter EXCEPT ![y] = o.value]
      /\ late' = (late \/ o.month # now)
      /\ session' = [session EXCEPT ![s] = Idle]
      /\ now' = now
      /\ o.month = session[s].month
  BY DEF NInv, Commit, NumberOf, Ends
<1>1. o \in OrderRows /\ y \in Years
  BY <1>0, NumberType
<1>2. o.value = LastValue(session[s].seen) + 1
  BY <1>0 DEF NumberOf, NextValue, LastValue, TypeOK
<1> HIDE DEF o
<1>3. TypeOK'
  BY <1>0, <1>1, NumberConstants DEF TypeOK, Commit, Ends, Idle, Months, OrderRows
<1>4. NotAhead'
  BY <1>0 DEF NotAhead, Idle, TypeOK, Months
<1> SUFFICES ASSUME ~late' PROVE Counted' /\ Consecutive' /\ SeenOrTaken'
  BY <1>3, <1>4 DEF NInv, Counted, Consecutive, SeenOrTaken
<1>5. ~late /\ session[s].month = now
  BY <1>0
<1>6. o \notin Numbers
  BY <1>0 DEF Fits
<1>7. LastValue(session[s].seen) = LastValue(counter[y])
  BY <1>0, <1>5, <1>6 DEF SeenOrTaken, o
<1>8. /\ LastValue(counter[y]) \in Nat
      /\ o.value = LastValue(counter[y]) + 1
      /\ AllValues(orders, y) = 1..(o.value - 1)
  BY <1>0, <1>1, <1>2, <1>5, <1>7 DEF Counted, TypeOK, LastValue
<1>9. \A z : /\ \A i \in 0..Len(orders) : ValuesOf(orders', z, i) = ValuesOf(orders, z, i)
             /\ \A v : v \in AllValues(orders', z) <=>
                   v \in AllValues(orders, z) \/ (YearOf(o.month) = z /\ v = o.value)
  <2>1. orders \in Seq(OrderRows) /\ o \in OrderRows /\ orders' = Append(orders, o)
    BY <1>0, <1>1 DEF TypeOK, OrderRows
  <2> SUFFICES ASSUME NEW z
               PROVE  /\ \A i \in 0..Len(orders) : ValuesOf(orders', z, i) = ValuesOf(orders, z, i)
                      /\ \A v : v \in AllValues(orders', z) <=>
                            v \in AllValues(orders, z) \/ (YearOf(o.month) = z /\ v = o.value)
    OBVIOUS
  <2> QED
    BY ONLY ZenonT(40), <2>1, ValuesOfAppend
<1>10. /\ \A i \in 1..Len(orders) : orders'[i] = orders[i]
       /\ orders'[Len(orders) + 1] = o
       /\ Len(orders) \in Nat
       /\ DOMAIN orders = 1..Len(orders)
       /\ DOMAIN orders' = 1..(Len(orders) + 1)
       /\ Len(orders') = Len(orders) + 1
  BY <1>0, <1>1 DEF TypeOK, OrderRows
<1>11. Numbers' = Numbers \cup {o}
  BY <1>10 DEF Numbers
<1>12. Counted'
  <2> SUFFICES ASSUME NEW z \in Years
               PROVE  AllValues(orders', z) = 1..LastValue(counter'[z])
    BY DEF Counted
  <2>1. CASE z = y
    <3>1. LastValue(counter'[z]) = o.value
      BY <1>0, <1>1, <2>1 DEF TypeOK, OrderRows, LastValue
    <3>2. AllValues(orders', z) = (1..(o.value - 1)) \cup {o.value}
      BY <1>0, <1>8, <1>9, <2>1
    <3>3. o.value \in Nat /\ o.value >= 1
      BY <1>8
    <3> QED
      BY <3>1, <3>2, <3>3
  <2>2. CASE z # y
    <3>1. counter'[z] = counter[z]
      BY <1>0, <2>2 DEF TypeOK
    <3>2. AllValues(orders', z) = AllValues(orders, z)
      <4>1. YearOf(o.month) # z
        BY <1>0, <2>2
      <4>2. \A v : v \in AllValues(orders', z) <=> v \in AllValues(orders, z)
        BY <1>9, <4>1
      <4>3. \A S, T : (\A v : v \in S <=> v \in T) => S = T
        OBVIOUS
      <4> QED
        BY <4>2, <4>3, Zenon
    <3> QED
      BY <1>0, <1>5, <3>1, <3>2 DEF Counted
  <2> QED
    BY <2>1, <2>2
<1>13. Consecutive'
  <2> SUFFICES ASSUME NEW i \in DOMAIN orders'
               PROVE  ValuesOf(orders', YearOf(orders'[i].month), i - 1)
                        = 1..(orders'[i].value - 1)
    BY DEF Consecutive
  <2>0. i - 1 \in 0..Len(orders)
    BY <1>10
  <2>1. ValuesOf(orders', YearOf(orders'[i].month), i - 1)
          = ValuesOf(orders, YearOf(orders'[i].month), i - 1)
    BY <1>9, <2>0
  <2>2. CASE i \in 1..Len(orders)
    BY <1>0, <1>5, <1>10, <2>1, <2>2 DEF Consecutive
  <2>3. CASE i = Len(orders) + 1
    <3>1. orders'[i] = o /\ YearOf(o.month) = y /\ i - 1 = Len(orders)
      BY <1>0, <1>10, <2>3
    <3> QED
      BY <1>8, <2>1, <3>1 DEF AllValues
  <2> QED
    BY <1>10, <2>2, <2>3
<1>14. SeenOrTaken'
  <2> SUFFICES ASSUME NEW t \in Sessions, session'[t].at \in {"read", "written"},
                      session'[t].month = now
               PROVE  \/ LastValue(session'[t].seen) = LastValue(counter'[YearOf(now)])
                      \/ NumberOf(t)' \in Numbers'
    BY <1>0 DEF SeenOrTaken
  <2>1. session'[t] = session[t] /\ NumberOf(t)' = NumberOf(t)
    BY <1>0 DEF Idle, TypeOK, NumberOf, NextValue
  <2>2. CASE NumberOf(t) \in Numbers
    BY <1>11, <2>1, <2>2
  <2>3. CASE LastValue(session[t].seen) = LastValue(counter[YearOf(now)])
    <3>1. NextValue(t) = LastValue(session[t].seen) + 1
      BY <1>0 DEF NextValue, LastValue, TypeOK
    <3>2. NextValue(s) = LastValue(session[s].seen) + 1
      BY <1>0 DEF NextValue, LastValue, TypeOK
    <3>3. NumberOf(t) = o
      BY <1>5, <1>7, <2>1, <2>3, <3>1, <3>2 DEF NumberOf, o
    <3> QED
      BY <1>11, <2>1, <3>3
  <2> QED
    BY <1>0, <1>5, <2>1, <2>2, <2>3 DEF SeenOrTaken
<1> QED
  BY <1>12, <1>13, <1>14

LEMMA StepInv == NInv /\ [Next]_vars => NInv'
<1> SUFFICES ASSUME NInv, [Next]_vars PROVE NInv'
  OBVIOUS
<1> USE NumberConstants
<1>0. TypeOK /\ NotAhead /\ SeenOrTaken
  BY DEF NInv
<1>1. ASSUME NEW s \in Sessions, Begin(s) PROVE NInv'
  <2>1. TypeOK'
    BY <1>0, <1>1 DEF TypeOK, Begin
  <2>2. NotAhead'
    BY <1>0, <1>1 DEF TypeOK, NotAhead, Begin, Months
  <2>3. SeenOrTaken'
    BY <1>0, <1>1 DEF TypeOK, SeenOrTaken, Begin, NumberOf, NextValue, Numbers
  <2> QED
    BY <1>1, <2>1, <2>2, <2>3, QuietStep DEF Begin
<1>2. ASSUME NEW s \in Sessions, Read(s) PROVE NInv'
  <2>1. session[s].month \in Months /\ YearOf(session[s].month) \in Years
    BY <1>0, YearType DEF TypeOK
  <2>2. TypeOK'
    BY ZenonT(40), <1>0, <1>2, <2>1 DEF TypeOK, Read
  <2>3. NotAhead'
    BY <1>0, <1>2 DEF TypeOK, NotAhead, Read
  <2>4. SeenOrTaken'
    BY <1>0, <1>2 DEF TypeOK, SeenOrTaken, Read, NumberOf, NextValue, Numbers
  <2> QED
    BY <1>2, <2>2, <2>3, <2>4, QuietStep DEF Read
<1>3. ASSUME NEW s \in Sessions, Write(s) PROVE NInv'
  <2>1. TypeOK'
    BY <1>0, <1>3 DEF TypeOK, Write
  <2>2. NotAhead'
    BY <1>0, <1>3 DEF TypeOK, NotAhead, Write
  <2>3. SeenOrTaken'
    BY SMTT(30), <1>0, <1>3 DEF TypeOK, SeenOrTaken, Write, NumberOf, NextValue, Numbers
  <2> QED
    BY <1>3, <2>1, <2>2, <2>3, QuietStep DEF Write
<1>4. ASSUME NEW s \in Sessions, Rollback(s) PROVE NInv'
  <2>1. TypeOK'
    BY <1>0, <1>4 DEF TypeOK, Rollback, Ends, Idle, Months
  <2>2. NotAhead'
    BY <1>0, <1>4 DEF TypeOK, NotAhead, Rollback, Ends, Idle, Months
  <2>3. SeenOrTaken'
    BY <1>0, <1>4
    DEF TypeOK, SeenOrTaken, Rollback, Ends, Idle, NumberOf, NextValue, Numbers
  <2> QED
    BY <1>4, <2>1, <2>2, <2>3, QuietStep DEF Rollback
<1>5. ASSUME MonthEnds PROVE NInv'
  <2>1. TypeOK'
    BY <1>0, <1>5 DEF TypeOK, MonthEnds, Months
  <2>2. NotAhead'
    BY <1>0, <1>5 DEF TypeOK, NotAhead, MonthEnds, Months
  <2>3. \A s \in Sessions : session'[s].month # now'
    BY <1>0, <1>5 DEF TypeOK, NotAhead, MonthEnds, Months
  <2>4. SeenOrTaken'
    BY <2>3 DEF SeenOrTaken
  <2> QED
    BY <1>5, <2>1, <2>2, <2>4, QuietStep DEF MonthEnds
<1>6. ASSUME UNCHANGED vars PROVE NInv'
  <2>1. TypeOK' /\ NotAhead' /\ SeenOrTaken'
    BY <1>0, <1>6
    DEF vars, TypeOK, NotAhead, SeenOrTaken, NumberOf, NextValue, Numbers
  <2> QED
    BY <1>6, <2>1, QuietStep DEF vars
<1> QED
  BY <1>1, <1>2, <1>3, <1>4, <1>5, <1>6, CommitInv DEF Next

THEOREM Inductive == Spec => []NInv
BY InitInv, StepInv, PTL DEF Spec

----------------------------------------------------------------------------
(* What follows. *)

\* The types, for every instance.
THEOREM TypeCorrect == Spec => []TypeOK
<1>1. NInv => TypeOK
  BY DEF NInv
<1> QED
  BY <1>1, Inductive, PTL

\* The orders of a year are numbered 1, 2, 3... although the counter is read
\* without a lock, as long as nobody commits in a later month.
THEOREM NumbersConsecutive == Spec => []Consecutive
<1>1. NInv => Consecutive
  BY DEF NInv
<1> QED
  BY <1>1, Inductive, PTL

\* A creation that meets no other is not refused for its number.
THEOREM NextFree == Spec => []NextNumberFree
<1>1. NInv => NextNumberFree
  <2> SUFFICES ASSUME NInv, ~late, NEW i \in DOMAIN orders,
                      orders[i] = [month |-> now, value |-> counter[YearOf(now)] + 1]
               PROVE  FALSE
    BY DEF NextNumberFree, Numbers
  <2> DEFINE y == YearOf(now)
  <2>1. /\ now \in Months /\ y \in Years
        /\ counter[y] \in Nat \cup {-1}
        /\ Len(orders) \in Nat /\ i \in 1..Len(orders)
        /\ orders[i].value \in 1..Largest
    BY NumberConstants, YearType DEF NInv, TypeOK
  <2>2. orders[i].month = now /\ orders[i].value = counter[y] + 1
    OBVIOUS
  <2>3. orders[i].value \in AllValues(orders, y)
    BY <2>1, <2>2 DEF AllValues, ValuesOf
  <2>4. AllValues(orders, y) = 1..LastValue(counter[y])
    BY <2>1 DEF NInv, Counted
  <2> QED
    BY <2>1, <2>2, <2>3, <2>4 DEF LastValue
<1> QED
  BY <1>1, Inductive, PTL

----------------------------------------------------------------------------
(***************************************************************************)
(* Part 2: AdminDesk.                                                      *)
(***************************************************************************)

\* A request that will write an account from the copy it has.
Writes(r) == r.op \in {"logout", "password"} \/ r.legacy

\* As long as no two writers of an account overlapped, whoever will write it has a copy
\* of the row as it is now;
CopiesFresh ==
    \A d \in Desks : LET r == duty[d] IN
        Writes(r) /\ r.admin \notin mixed =>
            /\ r.version = account[r.admin].version
            /\ r.legacy => r.op = "login" /\ r.password = account[r.admin].password

\* no token that exists or will be issued is ahead of its account,
NothingAhead ==
    /\ \A t \in tokens : t.admin \notin mixed => t.version <= account[t.admin].version
    /\ \A d \in Desks : LET r == duty[d] IN
          r.op = "login" /\ r.admin \notin mixed => r.version <= account[r.admin].version

\* and those that were ended are behind it.
EndedBehind == \A t \in ended : t.admin \notin mixed => t.version < account[t.admin].version

PasswordKept == \A a \in Admins : a \notin mixed => account[a].password = chosen[a]

\* A user who is about to become manager is the only one there may be.
GrantsAlone ==
    ~tangled =>
        /\ \A u, v \in managers : u = v
        /\ \A d \in Desks : duty[d].op = "grant" => managers \subseteq {duty[d].user}

\* What a request has read names an account or a user as its operation needs.
Duties ==
    \A d \in Desks : LET r == duty[d] IN
        /\ r.op \in {"login", "logout", "password", "delete"} => r.admin \in Admins
        /\ r.op = "grant" => r.user \in Staff
        /\ r.legacy => r.op = "login"

DeskInv ==
    /\ DeskTypeOK /\ Duties
    /\ CopiesFresh /\ NothingAhead /\ EndedBehind /\ PasswordKept
    /\ GrantsAlone

AccountRows == [exists : BOOLEAN, version : 0..MaxVersion, password : Passwords, legacy : BOOLEAN]
DutyRows == [op : {"none", "login", "logout", "password", "delete", "grant"},
             admin : Admins \cup {Nobody}, version : 0..MaxVersion,
             password : Passwords, legacy : BOOLEAN, user : Staff \cup {Nobody}]

----------------------------------------------------------------------------
LEMMA FreeType ==
    Free \in DutyRows /\ Free.op = "none" /\ Free.legacy = FALSE /\ ~Writes(Free)
  BY DeskConstants DEF Free, DutyRows, Writes

LEMMA DeskInitInv == DeskInit => DeskInv
<1> SUFFICES ASSUME DeskInit PROVE DeskInv
  OBVIOUS
<1>1. DeskTypeOK
  <2>1. account \in [Admins -> AccountRows]
    <3>1. \A legacy \in BOOLEAN : [exists |-> TRUE, version |-> 0, password |-> Original,
                                  legacy |-> legacy] \in AccountRows
      BY DeskConstants DEF AccountRows
    <3> QED
      BY <3>1 DEF DeskInit
  <2>2. duty \in [Desks -> DutyRows]
    BY FreeType DEF DeskInit
  <2> QED
    BY <2>1, <2>2, DeskConstants DEF DeskInit, DeskTypeOK, AccountRows, DutyRows
<1>2. \A d \in Desks : duty[d] = Free
  BY DEF DeskInit
<1>3. Duties /\ CopiesFresh
  BY <1>2, FreeType DEF Duties, CopiesFresh
<1>4. NothingAhead /\ EndedBehind /\ PasswordKept
  BY <1>2, FreeType DEF DeskInit, NothingAhead, EndedBehind, PasswordKept
<1>5. GrantsAlone
  BY <1>2, FreeType DEF DeskInit, GrantsAlone
<1> QED
  BY <1>1, <1>3, <1>4, <1>5 DEF DeskInv

\* A request begins: what it has read is true now.
LEMMA BeginInv ==
  ASSUME DeskInv, NEW d \in Desks, NEW r \in DutyRows, TakesUp(d, r),
         UNCHANGED <<account, tokens, managers, ended, chosen, mixed, tangled>>,
         r.op \in {"login", "logout", "password", "delete"} => r.admin \in Admins,
         r.op = "grant" => r.user \in Staff /\ managers \subseteq {r.user},
         r.legacy => r.op = "login" /\ r.password = account[r.admin].password,
         r.op \in {"login", "logout", "password"} => r.version = account[r.admin].version
  PROVE  DeskInv'
<1> USE DEF DeskInv, TakesUp
<1>1. duty' = [duty EXCEPT ![d] = r] /\ duty \in [Desks -> DutyRows]
  BY DEF DeskTypeOK, DutyRows
<1>2. DeskTypeOK'
  BY <1>1 DEF DeskTypeOK, DutyRows
<1>3. \A e \in Desks : duty'[e] = IF e = d THEN r ELSE duty[e]
  BY <1>1
<1>4. Duties'
  BY <1>3 DEF Duties
<1>5. CopiesFresh'
  BY <1>3 DEF CopiesFresh, Writes
<1>6. NothingAhead'
  <2>1. ASSUME NEW t \in tokens', t.admin \notin mixed'
        PROVE  t.version <= account'[t.admin].version
    BY <2>1 DEF NothingAhead
  <2>2. ASSUME NEW e \in Desks, duty'[e].op = "login", duty'[e].admin \notin mixed'
        PROVE  duty'[e].version <= account'[duty'[e].admin].version
    <3>1. CASE e = d
      <4>1. r.version = account[r.admin].version /\ r.version \in Nat
        BY <2>2, <3>1, <1>3 DEF DutyRows
      <4> QED
        BY <4>1, <3>1, <1>3
    <3>2. CASE e # d
      BY <2>2, <3>2, <1>3 DEF NothingAhead
    <3> QED
      BY <3>1, <3>2
  <2> QED
    BY <2>1, <2>2 DEF NothingAhead
<1>7. EndedBehind' /\ PasswordKept'
  BY DEF EndedBehind, PasswordKept
<1>8. GrantsAlone'
  BY <1>3 DEF GrantsAlone
<1> QED
  BY <1>2, <1>4, <1>5, <1>6, <1>7, <1>8

\* A request ends without writing an account: it fails, deletes one or issues tokens.
LEMMA EndQuietly ==
  ASSUME DeskInv, NEW d \in Desks, Done(d),
         UNCHANGED <<managers, ended, chosen, mixed, tangled>>,
         tokens' = tokens \/ (duty[d].op = "login" /\ tokens' = tokens \cup
             {[admin |-> duty[d].admin, version |-> duty[d].version]}),
         account' \in [Admins -> AccountRows],
         \A a \in Admins : /\ account'[a].version = account[a].version
                           /\ account'[a].password = account[a].password
  PROVE  DeskInv'
<1> USE DEF DeskInv, Done
<1>1. duty' = [duty EXCEPT ![d] = Free] /\ duty \in [Desks -> DutyRows]
  BY DEF DeskTypeOK, DutyRows
<1>2. \A e \in Desks : duty'[e] = IF e = d THEN Free ELSE duty[e]
  BY <1>1
<1>3. duty[d].op = "login" => duty[d].admin \in Admins /\ duty[d].version \in 0..MaxVersion
  BY <1>1 DEF Duties, DutyRows
<1>4. tokens' \subseteq [admin : Admins, version : 0..MaxVersion] /\ tokens \subseteq tokens'
  BY <1>3 DEF DeskTypeOK
<1>5. DeskTypeOK'
  BY <1>1, <1>4, FreeType DEF DeskTypeOK, DutyRows, AccountRows
<1>6. Duties'
  BY <1>2, FreeType DEF Duties
<1>7. CopiesFresh'
  BY <1>2, FreeType DEF CopiesFresh, Duties, Writes
<1>8. NothingAhead'
  <2>1. ASSUME NEW t \in tokens', t.admin \notin mixed'
        PROVE  t.version <= account'[t.admin].version
    <3>1. t.admin \in Admins
      BY <1>4
    <3>2. CASE t \in tokens
      BY <2>1, <3>1, <3>2 DEF NothingAhead
    <3>3. CASE duty[d].op = "login" /\ t = [admin |-> duty[d].admin, version |-> duty[d].version]
      BY <2>1, <3>1, <3>3 DEF NothingAhead
    <3> QED
      BY <3>2, <3>3
  <2>2. ASSUME NEW e \in Desks, duty'[e].op = "login", duty'[e].admin \notin mixed'
        PROVE  duty'[e].version <= account'[duty'[e].admin].version
    BY <2>2, <1>2, FreeType DEF NothingAhead, Duties
  <2> QED
    BY <2>1, <2>2 DEF NothingAhead
<1>9. EndedBehind' /\ PasswordKept'
  BY DEF EndedBehind, PasswordKept, DeskTypeOK
<1>10. GrantsAlone'
  BY <1>2, FreeType DEF GrantsAlone
<1> QED
  BY <1>5, <1>6, <1>7, <1>8, <1>9, <1>10

\* A request writes an account: with nobody else at it, its copy was the row.
LEMMA WriteInv ==
  ASSUME DeskInv, NEW d \in Desks, EndRevocation(d) \/ (duty[d].legacy /\ EndLogin(d))
  PROVE  DeskInv'
<1> DEFINE r == duty[d]
           a == r.admin
<1> USE DEF DeskInv
<1>1. duty \in [Desks -> DutyRows] /\ account \in [Admins -> AccountRows]
  BY DEF DeskTypeOK, DutyRows, AccountRows
<1>2. a \in Admins /\ Writes(r) /\ r.version \in Nat /\ r.password \in Passwords
  BY <1>1 DEF Duties, EndRevocation, Writes, DutyRows
<1>3. duty' = [duty EXCEPT ![d] = Free] /\ UNCHANGED <<managers, tangled>>
  BY DEF EndRevocation, EndLogin, Done
<1>4. \A e \in Desks : duty'[e] = IF e = d THEN Free ELSE duty[e]
  BY <1>1, <1>3
<1>5. Noted(a, d)
  BY DEF EndRevocation, EndLogin
<1>6. /\ mixed \subseteq mixed' /\ mixed' \subseteq mixed \cup {a}
      /\ a \notin mixed' => \A e \in Desks \ {d} : ~(duty[e].admin = a /\ Writes(duty[e]))
  BY <1>5 DEF Noted, Writers, Writes
<1>7. \A b \in Admins \ {a} : account'[b] = account[b] /\ chosen'[b] = chosen[b]
  BY <1>1 DEF EndRevocation, EndLogin, DeskTypeOK
<1>8. a \notin mixed' => r.version = account[a].version
  BY <1>2, <1>6 DEF CopiesFresh
<1>9. Duties'
  BY <1>4, FreeType DEF Duties
<1>10. CopiesFresh'
  <2> SUFFICES ASSUME NEW e \in Desks, Writes(duty'[e]), duty'[e].admin \notin mixed'
               PROVE  /\ duty'[e].version = account'[duty'[e].admin].version
                      /\ duty'[e].legacy => /\ duty'[e].op = "login"
                                            /\ duty'[e].password = account'[duty'[e].admin].password
    BY DEF CopiesFresh
  <2>1. e # d /\ duty'[e] = duty[e]
    BY <1>4, FreeType
  <2>2. duty[e].admin \in Admins \ {a}
    BY <2>1, <1>6 DEF Duties, Writes
  <2> QED
    BY <2>1, <2>2, <1>6, <1>7 DEF CopiesFresh
<1>11. GrantsAlone'
  BY <1>3, <1>4, FreeType DEF GrantsAlone
<1>12. CASE EndRevocation(d)
  <2> USE <1>12 DEF EndRevocation
  <2>1. r.version + 1 \in 0..MaxVersion
    BY <1>2, DeskConstants
  <2>2. account' \in [Admins -> AccountRows] /\ account'[a].version = r.version + 1
    <3>1. account[a] \in AccountRows
      BY ONLY <1>1, <1>2
    <3>2. PICK password \in Passwords, legacy \in BOOLEAN :
            account' = [account EXCEPT ![a].version = r.version + 1, ![a].password = password,
                                       ![a].legacy = legacy]
      <4>1. (IF r.op = "password" THEN r.password ELSE account[a].password) \in Passwords
        BY ONLY <1>2, <3>1 DEF AccountRows
      <4> QED
        BY ONLY <1>2, <1>12, <4>1 DEF EndRevocation, NextVersion
    <3>3. [account[a] EXCEPT !.version = r.version + 1, !.password = password, !.legacy = legacy]
            \in AccountRows
      BY ONLY <2>1, <3>1, <3>2 DEF AccountRows
    <3>4. account'[a] = [account[a] EXCEPT !.version = r.version + 1, !.password = password,
                                           !.legacy = legacy]
      BY ONLY <1>1, <1>2, <3>2
    <3>5. account'[a].version = r.version + 1
      BY ONLY <3>1, <3>4 DEF AccountRows
    <3> QED
      BY ONLY <1>1, <1>2, <3>2, <3>3, <3>4, <3>5
  <2>3. chosen' \in [Admins -> Passwords]
    BY <1>2 DEF DeskTypeOK
  <2>4. DeskTypeOK'
    BY <1>1, <1>2, <1>3, <1>6, <2>2, <2>3, FreeType DEF DeskTypeOK, DutyRows, AccountRows
  <2>a. \A b \in Admins \ mixed' : /\ account[b].version \in Nat /\ account'[b].version \in Nat
                                   /\ account[b].version <= account'[b].version
    <3>0. SUFFICES ASSUME NEW b \in Admins, b \notin mixed'
                   PROVE  /\ account[b].version \in Nat /\ account'[b].version \in Nat
                          /\ account[b].version <= account'[b].version
      OBVIOUS
    <3>1. account[b].version \in Nat /\ account'[b].version \in Nat
      BY ONLY <1>1, <2>2, <3>0, DeskConstants DEF AccountRows
    <3>2. CASE b = a
      <4>1. account[b].version = r.version /\ account'[b].version = r.version + 1
        BY ONLY <3>0, <3>2, <1>8, <2>2
      <4> QED
        BY ONLY <3>1, <4>1, <1>2
    <3>3. CASE b # a
      <4>1. account'[b].version = account[b].version
        BY ONLY <3>0, <3>3, <1>7
      <4> QED
        BY ONLY <3>1, <4>1
    <3> QED
      BY ONLY <3>2, <3>3
  <2>5. NothingAhead'
    <3>1. ASSUME NEW t \in tokens', t.admin \notin mixed'
          PROVE  t.version <= account'[t.admin].version
      <4>1. t.admin \in Admins /\ t.version \in Nat /\ t \in tokens
        BY DEF DeskTypeOK
      <4>2. t.version <= account[t.admin].version
        BY <3>1, <4>1, <1>6 DEF NothingAhead
      <4> QED
        BY ONLY <3>1, <4>1, <4>2, <2>a
    <3>2. ASSUME NEW e \in Desks, duty'[e].op = "login", duty'[e].admin \notin mixed'
          PROVE  duty'[e].version <= account'[duty'[e].admin].version
      <4>1. duty'[e] = duty[e] /\ duty[e].admin \in Admins /\ duty[e].version \in Nat
        BY <3>2, <1>1, <1>4, FreeType DEF Duties, DutyRows
      <4>2. duty[e].version <= account[duty[e].admin].version
        BY <3>2, <4>1, <1>6 DEF NothingAhead
      <4> QED
        BY ONLY <3>2, <4>1, <4>2, <2>a
    <3> QED
      BY <3>1, <3>2 DEF NothingAhead
  <2>6. EndedBehind'
    <3> SUFFICES ASSUME NEW t \in ended', t.admin \notin mixed'
                 PROVE  t.version < account'[t.admin].version
      BY DEF EndedBehind
    <3>1. t.admin \in Admins /\ t.version \in Nat /\ t \in tokens
      BY DEF DeskTypeOK
    <3>2. CASE t.admin = a
      <4>1. a \notin mixed' /\ a \notin mixed
        BY <3>2, <1>6
      <4>2. account[a].version = r.version /\ account'[a].version = r.version + 1
        BY ONLY <4>1, <1>8, <2>2
      <4>3. t.version <= account[a].version
        BY <3>1, <3>2, <4>1 DEF NothingAhead
      <4> QED
        BY ONLY <3>1, <3>2, <4>2, <4>3, <1>2
    <3>3. CASE t.admin # a
      BY <3>1, <3>3, <1>6, <1>7 DEF EndedBehind
    <3> QED
      BY <3>2, <3>3
  <2>7. PasswordKept'
    <3> SUFFICES ASSUME NEW b \in Admins, b \notin mixed'
                 PROVE  account'[b].password = chosen'[b]
      BY DEF PasswordKept
    <3>1. CASE b = a
      BY <3>1, <1>1, <1>2, <1>6 DEF PasswordKept, DeskTypeOK, AccountRows
    <3>2. CASE b # a
      BY ZenonT(40), <3>2, <1>6, <1>7 DEF PasswordKept
    <3> QED
      BY <3>1, <3>2
  <2> QED
    BY <1>9, <1>10, <1>11, <2>4, <2>5, <2>6, <2>7
<1>13. CASE r.legacy /\ EndLogin(d)
  <2> USE <1>13 DEF EndLogin
  <2>1. /\ account' \in [Admins -> AccountRows]
        /\ account'[a].version = account[a].version /\ account'[a].password = r.password
    BY <1>1, <1>2 DEF AccountRows
  <2>2. \A b \in Admins : account'[b].version = account[b].version
    BY <1>7, <2>1
  <2>3. r.version \in 0..MaxVersion
    BY <1>1 DEF DutyRows
  <2>4. DeskTypeOK'
    BY <1>1, <1>2, <1>3, <1>6, <2>1, <2>3, FreeType DEF DeskTypeOK, DutyRows, AccountRows
  <2>5. NothingAhead'
    <3>1. ASSUME NEW t \in tokens', t.admin \notin mixed'
          PROVE  t.version <= account'[t.admin].version
      <4>1. CASE t \in tokens
        BY <3>1, <4>1, <1>6, <2>2 DEF NothingAhead, DeskTypeOK
      <4>2. CASE t = [admin |-> a, version |-> r.version]
        BY <3>1, <4>2, <1>2, <1>6, <2>2 DEF NothingAhead
      <4> QED
        BY <4>1, <4>2
    <3>2. ASSUME NEW e \in Desks, duty'[e].op = "login", duty'[e].admin \notin mixed'
          PROVE  duty'[e].version <= account'[duty'[e].admin].version
      BY <3>2, <1>4, <1>6, <2>2, FreeType DEF NothingAhead, Duties
    <3> QED
      BY <3>1, <3>2 DEF NothingAhead
  <2>6. EndedBehind'
    BY <1>6, <2>2 DEF EndedBehind, DeskTypeOK
  <2>7. PasswordKept'
    <3> SUFFICES ASSUME NEW b \in Admins, b \notin mixed'
                 PROVE  account'[b].password = chosen'[b]
      BY DEF PasswordKept
    <3>1. CASE b = a
      BY <3>1, <1>2, <1>6, <2>1 DEF PasswordKept, CopiesFresh
    <3>2. CASE b # a
      BY <3>2, <1>6, <1>7 DEF PasswordKept
    <3> QED
      BY <3>1, <3>2
  <2> QED
    BY <1>9, <1>10, <1>11, <2>4, <2>5, <2>6, <2>7
<1> QED
  BY <1>12, <1>13

\* A user becomes manager: with nobody else being granted the role, he was the only
\* one there could be.
LEMMA GrantInv ==
  ASSUME DeskInv, NEW d \in Desks, EndGrant(d)
  PROVE  DeskInv'
<1> USE DEF DeskInv, EndGrant, Done
<1>1. duty' = [duty EXCEPT ![d] = Free] /\ duty \in [Desks -> DutyRows]
  BY DEF DeskTypeOK, DutyRows
<1>2. \A e \in Desks : duty'[e] = IF e = d THEN Free ELSE duty[e]
  BY <1>1
<1>3. DeskTypeOK' /\ Duties'
  BY <1>1, <1>2, FreeType DEF DeskTypeOK, DutyRows, Duties
<1>4. CopiesFresh' /\ EndedBehind' /\ PasswordKept'
  BY <1>2, FreeType DEF CopiesFresh, EndedBehind, PasswordKept
<1>5. NothingAhead'
  BY <1>2, FreeType DEF NothingAhead
<1>6. GrantsAlone'
  <2> SUFFICES ASSUME ~tangled'
               PROVE  /\ \A u, v \in managers' : u = v
                      /\ \A e \in Desks : duty'[e].op # "grant"
    BY DEF GrantsAlone
  <2>1. ~tangled /\ \A e \in Desks \ {d} : duty[e].op # "grant"
    OBVIOUS
  <2>2. managers \subseteq {duty[d].user}
    BY <2>1 DEF GrantsAlone
  <2> QED
    BY <2>1, <2>2, <1>2, FreeType
<1> QED
  BY <1>3, <1>4, <1>5, <1>6

LEMMA ArriveInv ==
  ASSUME DeskInv, NEW d \in Desks, AdminArrives(d)
  PROVE  DeskInv'
<1>1. account \in [Admins -> AccountRows] /\ tokens \subseteq [admin : Admins, version : 0..MaxVersion]
  BY DEF DeskInv, DeskTypeOK, AccountRows
<1>2. ASSUME NEW a \in Admins, NEW p \in Passwords, BeginLogin(d, a, p) PROVE DeskInv'
  <2> DEFINE r == [Free EXCEPT !.op = "login", !.admin = a, !.password = p,
                               !.version = account[a].version, !.legacy = account[a].legacy]
  <2>1. account[a].version \in 0..MaxVersion /\ account[a].legacy \in BOOLEAN
    BY <1>1 DEF AccountRows
  <2>2. /\ r \in DutyRows /\ r.op = "login" /\ r.admin = a /\ r.password = p
        /\ r.version = account[a].version
    BY <2>1, DeskConstants DEF Free, DutyRows
  <2> HIDE DEF r
  <2>3. TakesUp(d, r) /\ account[a].password = p
        /\ UNCHANGED <<account, tokens, managers, ended, chosen, mixed, tangled>>
    BY <1>2 DEF BeginLogin, r
  <2> QED
    BY <2>2, <2>3, BeginInv
<1>3. ASSUME NEW a \in Admins, NEW p \in Passwords, BeginPassword(d, a, p) PROVE DeskInv'
  <2> DEFINE r == [Free EXCEPT !.op = "password", !.admin = a, !.password = p,
                               !.version = account[a].version]
  <2>1. account[a].version \in 0..MaxVersion
    BY <1>1 DEF AccountRows
  <2>2. /\ r \in DutyRows /\ r.op = "password" /\ r.admin = a /\ r.legacy = FALSE
        /\ r.version = account[a].version
    BY <2>1, DeskConstants DEF Free, DutyRows
  <2> HIDE DEF r
  <2>3. TakesUp(d, r) /\ UNCHANGED <<account, tokens, managers, ended, chosen, mixed, tangled>>
    BY <1>3 DEF BeginPassword, r
  <2> QED
    BY <2>2, <2>3, BeginInv
<1>4. ASSUME NEW t \in SignedIn, BeginLogout(d, t) PROVE DeskInv'
  <2> DEFINE r == [Free EXCEPT !.op = "logout", !.admin = t.admin,
                               !.version = account[t.admin].version]
  <2>1. t.admin \in Admins
    BY <1>1 DEF SignedIn
  <2>2. account[t.admin].version \in 0..MaxVersion
    BY <1>1, <2>1 DEF AccountRows
  <2>3. /\ r \in DutyRows /\ r.op = "logout" /\ r.admin = t.admin /\ r.legacy = FALSE
        /\ r.version = account[t.admin].version
    BY <2>1, <2>2, DeskConstants DEF Free, DutyRows
  <2> HIDE DEF r
  <2>4. TakesUp(d, r) /\ UNCHANGED <<account, tokens, managers, ended, chosen, mixed, tangled>>
    BY <1>4 DEF BeginLogout, r
  <2> QED
    BY <2>1, <2>3, <2>4, BeginInv
<1>5. ASSUME NEW t \in SignedIn, NEW a \in Admins, BeginDelete(d, t, a) PROVE DeskInv'
  <2> DEFINE r == [Free EXCEPT !.op = "delete", !.admin = a]
  <2>1. r \in DutyRows /\ r.op = "delete" /\ r.admin = a /\ r.legacy = FALSE
    BY FreeType, DeskConstants DEF Free, DutyRows
  <2> HIDE DEF r
  <2>2. TakesUp(d, r) /\ UNCHANGED <<account, tokens, managers, ended, chosen, mixed, tangled>>
    BY <1>5 DEF BeginDelete, r
  <2> QED
    BY <2>1, <2>2, BeginInv
<1>6. ASSUME NEW u \in Staff, BeginGrant(d, u) PROVE DeskInv'
  <2> DEFINE r == [Free EXCEPT !.op = "grant", !.user = u]
  <2>1. r \in DutyRows /\ r.op = "grant" /\ r.user = u /\ r.legacy = FALSE
    BY FreeType, DeskConstants DEF Free, DutyRows
  <2> HIDE DEF r
  <2>2. TakesUp(d, r) /\ UNCHANGED <<account, tokens, managers, ended, chosen, mixed, tangled>>
        /\ managers \subseteq {u}
    BY <1>6 DEF BeginGrant, MayManage, r
  <2> QED
    BY <2>1, <2>2, BeginInv
<1> QED
  BY <1>2, <1>3, <1>4, <1>5, <1>6 DEF AdminArrives

LEMMA ContinueInv ==
  ASSUME DeskInv, NEW d \in Desks, AdminContinues(d)
  PROVE  DeskInv'
<1>1. account \in [Admins -> AccountRows]
  BY DEF DeskInv, DeskTypeOK, AccountRows
<1>2. CASE EndLogin(d)
  <2>1. CASE duty[d].legacy
    BY <1>2, <2>1, WriteInv
  <2>2. CASE ~duty[d].legacy
    BY <1>1, <1>2, <2>2, EndQuietly DEF EndLogin
  <2> QED
    BY <2>1, <2>2
<1>3. CASE EndRevocation(d)
  BY <1>3, WriteInv
<1>4. CASE EndDelete(d)
  <2>1. account' \in [Admins -> AccountRows]
    BY <1>1, <1>4 DEF EndDelete, AccountRows
  <2>2. \A a \in Admins : account'[a].version = account[a].version
                          /\ account'[a].password = account[a].password
    BY <1>1, <1>4 DEF EndDelete, AccountRows
  <2> QED
    BY <1>4, <2>1, <2>2, EndQuietly DEF EndDelete
<1>5. CASE EndGrant(d)
  BY <1>5, GrantInv
<1>6. CASE FailDuty(d)
  BY <1>1, <1>6, EndQuietly DEF FailDuty
<1> QED
  BY <1>2, <1>3, <1>4, <1>5, <1>6 DEF AdminContinues

LEMMA DeskStepInv == DeskInv /\ [DeskNext]_deskVars => DeskInv'
<1> SUFFICES ASSUME DeskInv, [DeskNext]_deskVars PROVE DeskInv'
  OBVIOUS
<1>1. ASSUME NEW u \in Staff, RevokeRole(u) PROVE DeskInv'
  BY <1>1 DEF RevokeRole, DeskInv, DeskTypeOK, Duties, CopiesFresh, NothingAhead,
              EndedBehind, PasswordKept, GrantsAlone
<1>2. CASE UNCHANGED deskVars
  BY <1>2 DEF deskVars, DeskInv, DeskTypeOK, Duties, CopiesFresh, NothingAhead,
              EndedBehind, PasswordKept, GrantsAlone
<1> QED
  BY <1>1, <1>2, ArriveInv, ContinueInv DEF DeskNext

----------------------------------------------------------------------------
\* The inductive invariant: writers of an account whose row nobody else is writing
\* have a fresh copy of it.
THEOREM DeskInductive == DeskSpec => []DeskInv
  BY DeskInitInv, DeskStepInv, PTL DEF DeskSpec

\* Every variable of the administration keeps its type.
THEOREM DeskTypeCorrect == DeskSpec => []DeskTypeOK
<1>1. DeskInv => DeskTypeOK
  BY DEF DeskInv
<1> QED
  BY <1>1, DeskInductive, PTL

\* After a logout or a new password neither the old tokens nor the old password open
\* the account, unless its row was written from two copies (admin_logout,
\* update_admin_password, admin_login with an old hash).
THEOREM RevocationCorrect == DeskSpec => []RevocationHolds
<1>1. DeskInv => RevocationHolds
  <2> SUFFICES ASSUME DeskInv, NEW a \in Admins, a \notin mixed
               PROVE  /\ account[a].password = chosen[a]
                      /\ \A t \in ended : t.admin = a => ~Accepted(t)
    BY DEF RevocationHolds
  <2>1. account[a].password = chosen[a]
    BY DEF DeskInv, PasswordKept
  <2>2. ASSUME NEW t \in ended, t.admin = a PROVE t.version # account[t.admin].version
    <3>1. t.version < account[a].version /\ t.version \in Nat /\ account[a].version \in Nat
      BY <2>2 DEF DeskInv, EndedBehind, DeskTypeOK
    <3> QED
      BY <2>2, <3>1
  <2> QED
    BY <2>1, <2>2 DEF Accepted
<1> QED
  BY <1>1, DeskInductive, PTL

\* There is one manager, unless two users were made manager at the same time
\* (update_user checks get_manager before it writes, without a lock).
THEOREM ManagerAlone == DeskSpec => []OneManager
<1>1. DeskInv => OneManager
  <2> SUFFICES ASSUME DeskInv, ~tangled PROVE ~(Cardinality(managers) > 1)
    BY DEF OneManager
  <2>1. \A u, v \in managers : u = v
    BY DEF DeskInv, GrantsAlone
  <2>2. CASE managers = {}
    BY <2>2, FS_EmptySet
  <2>3. CASE managers # {}
    <3>1. PICK u : u \in managers
      BY <2>3
    <3>2. managers = {u}
      BY <2>1, <3>1
    <3>3. Cardinality({u}) = 1
      BY ONLY FS_Singleton, Zenon
    <3> QED
      BY ONLY <3>2, <3>3
  <2> QED
    BY <2>2, <2>3
<1> QED
  BY <1>1, DeskInductive, PTL

----------------------------------------------------------------------------
(***************************************************************************)
(* Part 3: SiteLeads.                                                      *)
(***************************************************************************)

Posted == [at : {"first", "counted", "proven", "passed"},
           client : Clients, lead : Leads, challenge : Challenges]

Passed(p) == post[p].at = "passed"

\* While Redis works, at most one request has passed the guard with a lead, the lead is
\* not saved yet, and a lead that is saved or under way has its fingerprint taken.
OnePasses ==
    \A p \in Posts : Passed(p) /\ post[p].lead \notin bypassed =>
        /\ post[p].lead \in taken \ lost /\ saved[post[p].lead] = 0
        /\ \A q \in Posts \ {p} : Passed(q) => post[q].lead # post[p].lead

TakenBeforeSaved ==
    \A l \in Leads \ bypassed : (saved[l] # 0 => l \in taken) /\ saved[l] <= 1

TakenAccounted ==
    \A l \in taken \ (lost \cup bypassed) :
        saved[l] = 1 \/ \E p \in Posts : Passed(p) /\ post[p].lead = l

\* What is lost was not saved.
LostUnsaved == \A l \in lost \ bypassed : l \in taken /\ saved[l] = 0

\* A counter without a time to live is about to get one.
CountersEnd ==
    \A c \in Clients \ (expiring \cup blocked) : tries[c] > 0 =>
        \E p \in Posts : post[p].at = "first" /\ post[p].client = c

LeadInv ==
    LeadTypeOK /\ OnePasses /\ TakenBeforeSaved /\ TakenAccounted /\ LostUnsaved /\ CountersEnd

----------------------------------------------------------------------------
LEMMA PostType ==
  ASSUME LeadTypeOK, NEW p \in Posts
  PROVE  /\ post[p] = NoPost \/ post[p] \in Posted
         /\ post[p] # NoPost <=> post[p].at \in {"first", "counted", "proven", "passed"}
         /\ post[p] # NoPost => post[p].client \in Clients /\ post[p].lead \in Leads
  BY DEF LeadTypeOK, NoPost, Posted

\* A request moves on or is answered, and the others stay.
LEMMA MovesType ==
  ASSUME LeadTypeOK, NEW p \in Posts, post[p] # NoPost,
         NEW place \in {"first", "counted", "proven", "passed"},
         Moves(p, place) \/ Answers(p)
  PROVE  /\ post' \in [Posts -> {NoPost} \cup Posted]
         /\ \A q \in Posts \ {p} : post'[q] = post[q]
         /\ Moves(p, place) => post'[p].at = place /\ post'[p].lead = post[p].lead
                               /\ post'[p].client = post[p].client
         /\ Answers(p) => post'[p] = NoPost
<1>1. post[p] \in Posted /\ post \in [Posts -> {NoPost} \cup Posted]
  BY PostType DEF LeadTypeOK, Posted
<1>2. CASE Moves(p, place)
  <2>1. [post[p] EXCEPT !.at = place] \in Posted
    BY <1>1 DEF Posted
  <2>2. post' = [post EXCEPT ![p] = [post[p] EXCEPT !.at = place]]
    BY <1>2 DEF Moves
  <2>3. post'[p] # NoPost
    BY <1>1, <2>1, <2>2 DEF Posted, NoPost
  <2> QED
    BY <1>1, <2>1, <2>2, <2>3 DEF Posted, Answers
<1>3. CASE Answers(p)
  <2>1. post'[p] = NoPost
    BY <1>1, <1>3 DEF Answers
  <2>2. ~Moves(p, place)
    BY <1>1, <2>1 DEF Moves, Posted, NoPost
  <2> QED
    BY <1>1, <1>3, <2>1, <2>2 DEF Answers
<1> QED
  BY <1>2, <1>3

LEMMA LeadInitInv == LeadInit => LeadInv
<1> SUFFICES ASSUME LeadInit PROVE LeadInv
  OBVIOUS
<1> USE DEF LeadInit
<1>1. LeadTypeOK
  BY DEF LeadTypeOK
<1>2. OnePasses
  BY DEF OnePasses, Passed, NoPost
<1> QED
  BY <1>1, <1>2 DEF LeadInv, TakenBeforeSaved, TakenAccounted, LostUnsaved, CountersEnd

LEMMA SubmitInv ==
  ASSUME LeadInv, NEW p \in Posts, NEW c \in Clients, NEW l \in Leads,
         NEW challenge \in Challenges, Submit(p, c, l, challenge)
  PROVE  LeadInv'
<1> USE DEF LeadInv, Submit
<1>1. tries \in [Clients -> Nat] /\ MaxTries \in Nat \ {0} /\ 0 < MaxTries
  BY LeadConstants DEF LeadTypeOK
<1> DEFINE request == [at |-> IF tries[c] = 0 THEN "first" ELSE "counted",
                       client |-> c, lead |-> l, challenge |-> challenge]
<1>2. post' = post \/ post' = [post EXCEPT ![p] = request]
  OBVIOUS
<1>3. request \in Posted /\ post \in [Posts -> {NoPost} \cup Posted]
  BY DEF Posted, LeadTypeOK
<1>4. post' \in [Posts -> {NoPost} \cup Posted]
  BY <1>2, <1>3
<1>5. LeadTypeOK'
  BY <1>1, <1>4 DEF LeadTypeOK, Posted
<1>6. \A q \in Posts : q # p => post'[q] = post[q]
  BY <1>2, <1>3
<1>7. ~Passed(p) /\ ~Passed(p)'
  BY <1>2, <1>3 DEF NoPost, Passed
<1>8. \A q \in Posts : Passed(q)' <=> Passed(q) /\ q # p
  BY <1>6, <1>7 DEF Passed
<1>9. OnePasses'
  BY <1>6, <1>8 DEF OnePasses
<1>10. TakenAccounted'
  BY <1>6, <1>7, <1>8 DEF TakenAccounted
<1>11. CountersEnd'
  <2> SUFFICES ASSUME NEW d \in Clients \ (expiring \cup blocked), tries'[d] > 0
               PROVE  \E q \in Posts : post'[q].at = "first" /\ post'[q].client = d
    BY DEF CountersEnd
  <2>1. CASE tries[d] > 0
    <3>1. PICK q \in Posts : post[q].at = "first" /\ post[q].client = d
      BY <2>1 DEF CountersEnd
    <3>2. q # p
      BY <3>1 DEF NoPost
    <3> QED
      BY <3>1, <3>2, <1>6
  <2>2. CASE tries[d] = 0
    <3>1. d = c
      BY <1>1, <2>2
    <3>2. post' = [post EXCEPT ![p] = request]
      BY <1>1, <2>2, <3>1
    <3> QED
      BY <1>3, <2>2, <3>1, <3>2
  <2> QED
    BY <1>1, <2>1, <2>2
<1> QED
  BY <1>5, <1>9, <1>10, <1>11 DEF TakenBeforeSaved, LostUnsaved

\* EXPIRE and the challenge leave leads and fingerprints alone.
LEMMA GuardInv ==
  ASSUME LeadInv, NEW p \in Posts, SetExpiry(p) \/ CheckChallenge(p)
  PROVE  LeadInv'
<1> USE DEF LeadInv
<1>1. LeadTypeOK /\ post[p] # NoPost /\ post[p].at \in {"first", "counted"}
  BY DEF SetExpiry, CheckChallenge, NoPost
<1>2. Moves(p, "counted") \/ Moves(p, "proven") \/ Answers(p)
  BY DEF SetExpiry, CheckChallenge
<1>3. /\ post' \in [Posts -> {NoPost} \cup Posted]
      /\ \A q \in Posts \ {p} : post'[q] = post[q]
      /\ post'[p].at \in {"none", "counted", "proven"}
  BY <1>1, <1>2, MovesType DEF NoPost
<1>4. post[p].client \in Clients /\ post[p].challenge \in Challenges
  BY <1>1, PostType DEF Posted
<1>5. LeadTypeOK'
  BY <1>1, <1>3, <1>4 DEF LeadTypeOK, Posted, SetExpiry, CheckChallenge
<1>6. UNCHANGED <<tries, taken, saved, lost, blocked, bypassed>> /\ expiring \subseteq expiring'
  BY DEF SetExpiry, CheckChallenge
<1>7. \A q \in Posts : Passed(q)' <=> Passed(q) /\ q # p
  BY <1>3 DEF Passed
<1>8. ~Passed(p)
  BY <1>1 DEF Passed
<1>9. OnePasses'
  BY <1>3, <1>6, <1>7 DEF OnePasses
<1>10. TakenAccounted'
  BY <1>3, <1>6, <1>7, <1>8 DEF TakenAccounted
<1>11. CountersEnd'
  <2> SUFFICES ASSUME NEW d \in Clients \ (expiring' \cup blocked), tries[d] > 0
               PROVE  \E q \in Posts : post'[q].at = "first" /\ post'[q].client = d
    BY <1>6 DEF CountersEnd
  <2>1. PICK q \in Posts : post[q].at = "first" /\ post[q].client = d
    BY <1>6 DEF CountersEnd
  <2>2. q # p
    BY <2>1 DEF SetExpiry, CheckChallenge
  <2> QED
    BY <2>1, <2>2, <1>3
<1> QED
  BY <1>5, <1>6, <1>9, <1>10, <1>11 DEF TakenBeforeSaved, LostUnsaved

\* SET NX: whoever passes is the only one with the lead, and it is not saved.
LEMMA TakeKeyInv ==
  ASSUME LeadInv, NEW p \in Posts, TakeKey(p)
  PROVE  LeadInv'
<1> DEFINE l == post[p].lead
<1> USE DEF LeadInv, TakeKey
<1>1. LeadTypeOK /\ post[p] # NoPost /\ ~Passed(p)
  BY DEF NoPost, Passed
<1>2. l \in Leads
  BY <1>1, PostType
<1>3. Moves(p, "passed") \/ Answers(p)
  OBVIOUS
<1>4. /\ post' \in [Posts -> {NoPost} \cup Posted]
      /\ \A q \in Posts \ {p} : post'[q] = post[q]
      /\ Moves(p, "passed") => Passed(p)' /\ post'[p].lead = l
      /\ Answers(p) => ~Passed(p)'
  BY <1>1, <1>3, MovesType DEF NoPost, Passed
<1>5. LeadTypeOK'
  BY <1>1, <1>2, <1>4 DEF LeadTypeOK, Posted
<1>6. \A q \in Posts \ {p} : Passed(q)' <=> Passed(q)
  BY <1>4 DEF Passed
<1>7. taken \subseteq taken' /\ UNCHANGED <<saved, lost, blocked, bypassed, tries, expiring>>
  OBVIOUS
<1>8. CountersEnd'
  BY <1>4, <1>7 DEF CountersEnd
<1>9. CASE l \in taken
  <2>1. Answers(p) /\ taken' = taken
    BY <1>9 DEF NewLead
  <2>2. OnePasses'
    BY <1>4, <1>6, <1>7, <2>1 DEF OnePasses
  <2>3. TakenAccounted'
    BY <1>1, <1>4, <1>6, <1>7, <2>1 DEF TakenAccounted
  <2> QED
    BY <1>5, <1>7, <1>8, <2>1, <2>2, <2>3 DEF TakenBeforeSaved, LostUnsaved
<1>10. CASE l \notin taken
  <2>1. Moves(p, "passed") /\ taken' = taken \cup {l}
    BY <1>10 DEF NewLead
  <2>2. l \notin bypassed => saved[l] = 0 /\ l \notin lost
    BY <1>2, <1>10 DEF TakenBeforeSaved, LostUnsaved
  <2>3. l \notin bypassed => \A q \in Posts : Passed(q) => post[q].lead # l
    BY <1>10 DEF OnePasses
  <2>4. OnePasses'
    <3> SUFFICES ASSUME NEW q \in Posts, Passed(q)', post'[q].lead \notin bypassed
                 PROVE  /\ post'[q].lead \in taken' \ lost /\ saved[post'[q].lead] = 0
                        /\ \A r \in Posts \ {q} : Passed(r)' => post'[r].lead # post'[q].lead
      BY <1>7 DEF OnePasses
    <3>1. CASE q = p
      BY <3>1, <1>4, <1>6, <2>1, <2>2, <2>3
    <3>2. CASE q # p
      <4>1. Passed(q) /\ post'[q] = post[q]
        BY <3>2, <1>4, <1>6
      <4>2. post[q].lead # l
        BY <4>1, <1>10 DEF OnePasses
      <4> QED
        BY <4>1, <4>2, <1>4, <1>6, <1>7, <2>1 DEF OnePasses
    <3> QED
      BY <3>1, <3>2
  <2>5. TakenAccounted'
    <3> SUFFICES ASSUME NEW k \in taken' \ (lost \cup bypassed), saved[k] # 1
                 PROVE  \E q \in Posts : Passed(q)' /\ post'[q].lead = k
      BY <1>7 DEF TakenAccounted
    <3>1. CASE k = l
      BY <3>1, <1>4, <2>1
    <3>2. CASE k # l
      <4>1. PICK q \in Posts : Passed(q) /\ post[q].lead = k
        BY <3>2, <2>1 DEF TakenAccounted
      <4> QED
        BY <4>1, <1>1, <1>4, <1>6
    <3> QED
      BY <3>1, <3>2
  <2> QED
    BY <1>5, <1>7, <1>8, <2>1, <2>4, <2>5 DEF TakenBeforeSaved, LostUnsaved
<1> QED
  BY <1>9, <1>10

\* The lead is saved by the one request that passed with it.
LEMMA SaveLeadInv ==
  ASSUME LeadInv, NEW p \in Posts, SaveLead(p)
  PROVE  LeadInv'
<1> DEFINE l == post[p].lead
<1> USE DEF LeadInv, SaveLead
<1>1. LeadTypeOK /\ post[p] # NoPost /\ Passed(p)
  BY DEF NoPost, Passed
<1>2. l \in Leads /\ saved \in [Leads -> Nat]
  BY <1>1, PostType DEF LeadTypeOK
<1>3. /\ post' \in [Posts -> {NoPost} \cup Posted]
      /\ \A q \in Posts \ {p} : post'[q] = post[q]
      /\ ~Passed(p)'
  BY <1>1, MovesType DEF NoPost, Passed
<1>4. LeadTypeOK'
  BY <1>1, <1>2, <1>3 DEF LeadTypeOK, Posted
<1>5. \A q \in Posts \ {p} : Passed(q)' <=> Passed(q)
  BY <1>3 DEF Passed
<1>6. saved' = [saved EXCEPT ![l] = saved[l] + 1]
      /\ UNCHANGED <<taken, lost, blocked, bypassed, tries, expiring>>
  OBVIOUS
<1>7. l \notin bypassed => l \in taken \ lost /\ saved'[l] = 1
  BY <1>1, <1>2, <1>6 DEF OnePasses
<1>8. \A k \in Leads : k # l => saved'[k] = saved[k]
  BY <1>2, <1>6
<1>9. OnePasses'
  <2> SUFFICES ASSUME NEW q \in Posts, Passed(q)', post'[q].lead \notin bypassed
               PROVE  /\ post'[q].lead \in taken \ lost /\ saved'[post'[q].lead] = 0
                      /\ \A r \in Posts \ {q} : Passed(r)' => post'[r].lead # post'[q].lead
    BY <1>6 DEF OnePasses
  <2>1. q # p /\ Passed(q) /\ post'[q] = post[q]
    BY <1>3, <1>5
  <2>2. post[q].lead # l
    BY <1>1, <2>1 DEF OnePasses
  <2>3. post[q].lead \in Leads
    BY <1>1, <2>1, PostType DEF Passed, NoPost
  <2> QED
    BY <1>3, <1>5, <1>8, <2>1, <2>2, <2>3 DEF OnePasses
<1>10. TakenBeforeSaved'
  BY <1>2, <1>6, <1>7, <1>8 DEF TakenBeforeSaved
<1>11. TakenAccounted'
  <2> SUFFICES ASSUME NEW k \in taken \ (lost \cup bypassed), saved'[k] # 1
               PROVE  \E q \in Posts : Passed(q)' /\ post'[q].lead = k
    BY <1>6 DEF TakenAccounted
  <2>1. k # l /\ k \in Leads
    BY <1>1, <1>7 DEF LeadTypeOK
  <2>2. PICK q \in Posts : Passed(q) /\ post[q].lead = k
    BY <1>8, <2>1 DEF TakenAccounted
  <2> QED
    BY <1>3, <1>5, <2>1, <2>2
<1>12. LostUnsaved'
  BY <1>1, <1>6, <1>7, <1>8 DEF LostUnsaved, LeadTypeOK
<1>13. CountersEnd'
  BY <1>1, <1>3, <1>6 DEF CountersEnd, Passed
<1> QED
  BY <1>4, <1>9, <1>10, <1>11, <1>12, <1>13

\* An error of Redis ends the request in production; elsewhere it passes unguarded.
LEMMA RedisFailsInv ==
  ASSUME LeadInv, NEW p \in Posts, RedisFails(p)
  PROVE  LeadInv'
<1> DEFINE l == post[p].lead
<1> USE DEF LeadInv, RedisFails
<1>1. LeadTypeOK /\ post[p] # NoPost /\ ~Passed(p)
  BY DEF NoPost, Passed
<1>2. l \in Leads /\ post[p].client \in Clients
  BY <1>1, PostType
<1>3. \/ Answers(p) /\ bypassed' = bypassed
      \/ Moves(p, "proven") /\ bypassed' = bypassed
      \/ Moves(p, "passed") /\ bypassed' = bypassed \cup {l}
  OBVIOUS
<1>4. /\ post' \in [Posts -> {NoPost} \cup Posted]
      /\ \A q \in Posts \ {p} : post'[q] = post[q]
      /\ Passed(p)' => post'[p].lead = l /\ l \in bypassed'
  BY <1>1, <1>3, MovesType DEF NoPost, Passed
<1>5. LeadTypeOK'
  BY <1>1, <1>2, <1>4 DEF LeadTypeOK, Posted
<1>6. \A q \in Posts \ {p} : Passed(q)' <=> Passed(q)
  BY <1>4 DEF Passed
<1>7. bypassed \subseteq bypassed' /\ UNCHANGED <<saved, lost, taken, tries, expiring>>
  OBVIOUS
<1>8. OnePasses'
  <2> SUFFICES ASSUME NEW q \in Posts, Passed(q)', post'[q].lead \notin bypassed'
               PROVE  /\ post'[q].lead \in taken \ lost /\ saved[post'[q].lead] = 0
                      /\ \A r \in Posts \ {q} : Passed(r)' => post'[r].lead # post'[q].lead
    BY <1>7 DEF OnePasses
  <2>1. q # p /\ Passed(q) /\ post'[q] = post[q]
    BY <1>4, <1>6
  <2>2. ASSUME NEW r \in Posts \ {q}, Passed(r)' PROVE post'[r].lead # post'[q].lead
    BY <2>1, <2>2, <1>4, <1>6, <1>7 DEF OnePasses
  <2> QED
    BY <2>1, <2>2, <1>7 DEF OnePasses
<1>9. TakenAccounted'
  BY <1>1, <1>4, <1>6, <1>7 DEF TakenAccounted
<1>10. CountersEnd'
  <2> SUFFICES ASSUME NEW d \in Clients \ (expiring \cup blocked'), tries[d] > 0
               PROVE  \E q \in Posts : post'[q].at = "first" /\ post'[q].client = d
    BY <1>7 DEF CountersEnd
  <2>1. PICK q \in Posts : post[q].at = "first" /\ post[q].client = d
    BY DEF CountersEnd
  <2> QED
    BY <2>1, <1>4
<1> QED
  BY <1>5, <1>7, <1>8, <1>9, <1>10 DEF TakenBeforeSaved, LostUnsaved

\* A request dies: its lead is lost if it had passed.
LEMMA PostDiesInv ==
  ASSUME LeadInv, NEW p \in Posts, PostDies(p)
  PROVE  LeadInv'
<1> DEFINE l == post[p].lead
<1> USE DEF LeadInv, PostDies
<1>1. LeadTypeOK /\ post[p] # NoPost /\ l \in Leads /\ post[p].client \in Clients
  BY PostType
<1>2. /\ post' \in [Posts -> {NoPost} \cup Posted]
      /\ \A q \in Posts \ {p} : post'[q] = post[q]
      /\ ~Passed(p)'
  BY <1>1, MovesType DEF NoPost, Passed
<1>3. LeadTypeOK'
  BY <1>1, <1>2 DEF LeadTypeOK, Posted
<1>4. \A q \in Posts : Passed(q)' <=> Passed(q) /\ q # p
  BY <1>2 DEF Passed
<1>5. /\ UNCHANGED <<saved, taken, bypassed, tries, expiring>>
      /\ lost' = IF Passed(p) THEN lost \cup {l} ELSE lost
  BY DEF Passed
<1>6. OnePasses'
  <2> SUFFICES ASSUME NEW q \in Posts, Passed(q)', post'[q].lead \notin bypassed
               PROVE  /\ post'[q].lead \in taken \ lost' /\ saved[post'[q].lead] = 0
                      /\ \A r \in Posts \ {q} : Passed(r)' => post'[r].lead # post'[q].lead
    BY <1>5 DEF OnePasses
  <2>1. q # p /\ Passed(q) /\ post'[q] = post[q]
    BY <1>2, <1>4
  <2>2. Passed(p) => l # post[q].lead
    BY <2>1 DEF OnePasses
  <2> QED
    BY <2>1, <2>2, <1>2, <1>4, <1>5 DEF OnePasses
<1>7. TakenAccounted'
  BY <1>2, <1>4, <1>5 DEF TakenAccounted
<1>8. LostUnsaved'
  BY <1>5 DEF LostUnsaved, OnePasses
<1>9. CountersEnd'
  <2> SUFFICES ASSUME NEW d \in Clients \ (expiring \cup blocked'), tries[d] > 0
               PROVE  \E q \in Posts : post'[q].at = "first" /\ post'[q].client = d
    BY <1>5 DEF CountersEnd
  <2>1. PICK q \in Posts : post[q].at = "first" /\ post[q].client = d
    BY DEF CountersEnd
  <2> QED
    BY <2>1, <1>2
<1> QED
  BY <1>3, <1>5, <1>6, <1>7, <1>8, <1>9 DEF TakenBeforeSaved

\* Keys expire: no request is under way with the lead whose day is over.
LEMMA LeadsPassInv ==
  ASSUME LeadInv, LeadsPass
  PROVE  LeadInv'
<1> USE DEF LeadInv
<1>1. ASSUME NEW c \in Clients, MinuteEnds(c) PROVE LeadInv'
  <2> USE <1>1 DEF MinuteEnds
  <2>1. LeadTypeOK'
    BY DEF LeadTypeOK
  <2>2. CountersEnd'
    BY DEF CountersEnd, LeadTypeOK
  <2> QED
    BY <2>1, <2>2 DEF OnePasses, Passed, TakenBeforeSaved, TakenAccounted, LostUnsaved
<1>2. ASSUME NEW l \in Leads, DayEnds(l) PROVE LeadInv'
  <2> USE <1>2 DEF DayEnds
  <2>1. LeadTypeOK' /\ saved \in [Leads -> Nat]
    BY DEF LeadTypeOK
  <2>2. \A p \in Posts : Passed(p) => post[p].lead # l /\ post[p].lead \in Leads
    BY PostType DEF Passed, NoPost
  <2>3. OnePasses'
    BY <2>1, <2>2 DEF OnePasses, Passed
  <2>4. TakenBeforeSaved'
    BY <2>1 DEF TakenBeforeSaved
  <2>5. TakenAccounted'
    BY <2>1 DEF TakenAccounted, Passed, LeadTypeOK
  <2>6. LostUnsaved'
    BY <2>1 DEF LostUnsaved, LeadTypeOK
  <2> QED
    BY <2>1, <2>3, <2>4, <2>5, <2>6 DEF CountersEnd
<1> QED
  BY <1>1, <1>2 DEF LeadsPass

LEMMA LeadStepInv == LeadInv /\ [LeadNext]_leadVars => LeadInv'
<1> SUFFICES ASSUME LeadInv, [LeadNext]_leadVars PROVE LeadInv'
  OBVIOUS
<1>1. CASE UNCHANGED leadVars
  BY <1>1 DEF leadVars, LeadInv, LeadTypeOK, OnePasses, Passed, TakenBeforeSaved,
              TakenAccounted, LostUnsaved, CountersEnd
<1>2. ASSUME NEW p \in Posts, LeadArrives(p) PROVE LeadInv'
  BY <1>2, SubmitInv DEF LeadArrives
<1>3. ASSUME NEW p \in Posts, LeadContinues(p) PROVE LeadInv'
  BY <1>3, GuardInv, TakeKeyInv, SaveLeadInv, RedisFailsInv, PostDiesInv DEF LeadContinues
<1> QED
  BY <1>1, <1>2, <1>3, LeadsPassInv DEF LeadNext

----------------------------------------------------------------------------
\* The inductive invariant: one request at most has passed with a lead.
THEOREM LeadInductive == LeadSpec => []LeadInv
  BY LeadInitInv, LeadStepInv, PTL DEF LeadSpec

\* Every variable of the form keeps its type.
THEOREM LeadTypeCorrect == LeadSpec => []LeadTypeOK
<1>1. LeadInv => LeadTypeOK
  BY DEF LeadInv
<1> QED
  BY <1>1, LeadInductive, PTL

\* A lead whose fingerprint refuses others is saved or about to be, none is saved twice,
\* and counters end, but for the deaths and errors that are named
\* (_guard_site_lead_submission, create_site_lead).
THEOREM LeadsCorrect == LeadSpec => []LeadsKept
<1>1. LeadInv => LeadsKept
  <2> SUFFICES ASSUME LeadInv PROVE LeadsKept
    OBVIOUS
  <2>1. \A p \in Posts : /\ Passed(p) => post[p] # NoPost
                         /\ post[p].at = "first" => post[p] # NoPost
    BY DEF Passed, NoPost
  <2> QED
    BY <2>1 DEF LeadInv, LeadsKept, TakenAccounted, TakenBeforeSaved, CountersEnd, Passed
<1> QED
  BY <1>1, LeadInductive, PTL

----------------------------------------------------------------------------
(***************************************************************************)
(* Part 4: Rates.                                                          *)
(***************************************************************************)

\* The same as PairsOfOneFetch without counting.
OneFetch ==
    \A P \in {TargetPairs, RubPairs} : \A p, q \in P \ passed : table[p] = table[q]

RateInv == RateTypeOK /\ OneFetch

----------------------------------------------------------------------------
LEMMA RateInitInv == RateInit => RateInv
<1> SUFFICES ASSUME RateInit PROVE RateInv
  OBVIOUS
<1>1. MaxFetches \in Nat /\ {} \in Parts
  BY RateConstants DEF Parts
<1>2. RateTypeOK
  BY <1>1 DEF RateInit, RateTypeOK, NoJob, NoRows, JobPlaces
<1>3. OneFetch
  BY DEF RateInit, OneFetch, NoRows, Pairs, TargetPairs, RubPairs
<1> QED
  BY <1>2, <1>3 DEF RateInv

\* An updater that goes on keeps its number.
LEMMA BecomesType ==
  ASSUME RateTypeOK, NEW u \in Updaters, NEW place \in JobPlaces, NEW got \in Parts,
         Becomes(u, place, got)
  PROVE  job' \in [Updaters -> [at : JobPlaces, number : 0..MaxFetches, got : Parts]]
BY DEF Becomes, RateTypeOK

\* What is saved with one fetch covers both groups of pairs, or the targets alone,
\* which no pair of RUB belongs to; the rows it passes over are noted.
LEMMA SaveInv ==
  ASSUME RateInv, NEW u \in Updaters, Save(u)
  PROVE  RateInv'
<1> USE DEF RateInv
<1> DEFINE n == job[u].number
           got == job[u].got
<1>1. n \in 0..MaxFetches /\ got \in Parts
  BY DEF RateTypeOK
<1>2. MaxFetches \in Nat /\ {} \in Parts
  BY RateConstants DEF Parts
<1>3. /\ NoJob \in [at : JobPlaces, number : 0..MaxFetches, got : Parts]
      /\ NoRows \in [Pairs -> 0..MaxFetches]
  BY <1>2 DEF NoJob, NoRows, JobPlaces
<1>4. PICK same \in SUBSET Changed(u) :
        /\ table' = [p \in Pairs |-> IF p \in Saved(got) \ same THEN n ELSE table[p]]
        /\ passed' = (passed \ (Saved(got) \ same)) \cup same
  BY DEF Save
<1>5. TargetPairs \subseteq Pairs /\ RubPairs \subseteq Pairs
  BY DEF Pairs
<1>6. Saved(got) \subseteq Pairs /\ same \subseteq Saved(got)
  BY <1>5 DEF Saved, Changed
<1>7. RateTypeOK'
  <2>1. table' \in [Pairs -> 0..MaxFetches] /\ passed' \subseteq Pairs
    BY <1>1, <1>4, <1>6 DEF RateTypeOK
  <2> QED
    BY <1>3, <2>1 DEF RateTypeOK, Save
<1>8. TargetPairs \cap RubPairs = {}
  BY RateConstants DEF TargetPairs, RubPairs, InternalPairs
<1>9. TargetPairs \subseteq Saved(got) /\ (RubPairs \subseteq Saved(got) \/ Saved(got) = TargetPairs)
  BY <1>5 DEF Saved
<1>10. \A p \in Saved(got) \ passed' : table'[p] = n
  BY <1>4, <1>6
<1>11. \A p \in Pairs \ Saved(got) : table'[p] = table[p] /\ (p \in passed' <=> p \in passed)
  BY <1>4, <1>6
<1>12. OneFetch'
  BY <1>5, <1>8, <1>9, <1>10, <1>11 DEF OneFetch
<1> QED
  BY <1>7, <1>12

LEMMA RateStepInv == RateInv /\ [RateNext]_rateVars => RateInv'
<1> SUFFICES ASSUME RateInv, [RateNext]_rateVars PROVE RateInv'
  OBVIOUS
<1> USE DEF RateInv
<1>1. ASSUME NEW u \in Updaters, BeginFetch(u) PROVE RateInv'
  <2>1. fetches + 1 \in 0..MaxFetches /\ {} \in Parts
    BY <1>1, RateConstants DEF BeginFetch, RateTypeOK, Parts
  <2>2. [at |-> "asking", number |-> fetches + 1, got |-> {}]
          \in [at : JobPlaces, number : 0..MaxFetches, got : Parts]
    BY <2>1 DEF JobPlaces
  <2> QED
    BY <1>1, <2>1, <2>2 DEF BeginFetch, RateTypeOK, OneFetch
<1>2. /\ NoJob \in [at : JobPlaces, number : 0..MaxFetches, got : Parts]
      /\ NoRows \in [Pairs -> 0..MaxFetches]
  BY RateConstants DEF NoJob, NoRows, JobPlaces, Parts
<1>3. ASSUME NEW u \in Updaters, Answer(u) PROVE RateInv'
  <2>1. PICK got \in Parts : Answered(u, got)
    BY <1>3 DEF Answer
  <2>2. CASE \E place \in {"saving", "retrying", "falling back"} : Becomes(u, place, got)
    <3>1. PICK place \in JobPlaces : Becomes(u, place, got)
      BY <2>2 DEF JobPlaces
    <3> QED
      BY <3>1, <1>3, BecomesType DEF Answer, RateTypeOK, OneFetch
  <2>3. CASE job' = [job EXCEPT ![u] = NoJob]
    BY <2>3, <1>2, <1>3 DEF Answer, RateTypeOK, OneFetch
  <2> QED
    BY <2>1, <2>2, <2>3 DEF Answered
<1>4. ASSUME NEW u \in Updaters, FetchFails(u) PROVE RateInv'
  BY <1>4, <1>2 DEF FetchFails, RateTypeOK, OneFetch
<1>5. ASSUME NEW u \in Updaters, LoadRows(u) PROVE RateInv'
  <2>1. job' \in [Updaters -> [at : JobPlaces, number : 0..MaxFetches, got : Parts]]
    BY <1>5, BecomesType DEF LoadRows, RateTypeOK, JobPlaces
  <2> QED
    BY <1>5, <2>1 DEF LoadRows, RateTypeOK, OneFetch
<1>6. CASE UNCHANGED rateVars
  BY <1>6 DEF rateVars, RateTypeOK, OneFetch
<1> QED
  BY <1>1, <1>3, <1>4, <1>5, <1>6, SaveInv DEF RateNext

----------------------------------------------------------------------------
THEOREM RateInductive == RateSpec => []RateInv
<1> QED
  BY RateInitInv, RateStepInv, PTL DEF RateSpec

\* Every variable of the rates keeps its type.
THEOREM RateTypeCorrect == RateSpec => []RateTypeOK
<1>1. RateInv => RateTypeOK
  BY DEF RateInv
<1> QED
  BY <1>1, RateInductive, PTL

\* Whatever the providers leave out and however updaters overlap, the rates of USDT
\* are of one fetch and so are those of RUB, but for rows an overlapping save passed
\* over (fetch_and_save_rates, build_market_rates, upsert_many).
THEOREM RatesOfOneFetch == RateSpec => []PairsOfOneFetch
<1>1. RateInv => PairsOfOneFetch
  <2> SUFFICES ASSUME RateInv, NEW P \in {TargetPairs, RubPairs}
               PROVE  Cardinality({table[p] : p \in P \ passed}) <= 1
    BY DEF PairsOfOneFetch
  <2>1. \A p, q \in P \ passed : table[p] = table[q]
    BY DEF RateInv, OneFetch
  <2>2. CASE P \ passed = {}
    <3>1. {table[p] : p \in P \ passed} = {}
      BY <2>2
    <3> QED
      BY <3>1, FS_EmptySet
  <2>3. ASSUME NEW q \in P \ passed PROVE Cardinality({table[p] : p \in P \ passed}) <= 1
    <3>1. {table[p] : p \in P \ passed} = {table[q]}
      BY <2>1
    <3>2. Cardinality({table[q]}) = 1
      BY FS_Singleton
    <3> QED
      BY <3>1, <3>2
  <2> QED
    BY <2>2, <2>3
<1> QED
  BY <1>1, RateInductive, PTL

----------------------------------------------------------------------------
(***************************************************************************)
(* Part 5: the parts in one process.                                       *)
(***************************************************************************)


LEMMA OneSetOfWorkers ==
  Workers = Sessions /\ Workers = Desks /\ Workers = Posts /\ Workers = Updaters
BY FrontConstants

LEMMA UserStepNumbers ==
  ASSUME NEW w \in Sessions, UserArrives(w) \/ UserContinues(w)
  PROVE  [Next]_vars
<1>1. ASSUME UNCHANGED orderingVars PROVE UNCHANGED vars
  BY <1>1 DEF orderingVars
<1>2. ASSUME NEW u \in Users, BeginOrder(w, u) PROVE Next
  BY <1>2 DEF BeginOrder, Next
<1>3. ASSUME ContinueOrder(w) \/ CommitOrder(w) \/ FailOrder(w) PROVE Next
  BY <1>3 DEF ContinueOrder, CommitOrder, FailOrder, Next
<1> QED
  BY <1>1, <1>2, <1>3 DEF UserArrives, UserContinues

LEMMA NumbersStep == [FrontNext]_frontVars => [Next]_vars
<1>1. ASSUME UserDoor PROVE [Next]_vars
  <2>1. UsersPass => [Next]_vars
    BY DEF UsersPass, orderingVars, Next
  <2> QED
    BY <1>1, <2>1, UserStepNumbers, OneSetOfWorkers DEF UserDoor
<1>2. ASSUME UNCHANGED users PROVE UNCHANGED vars
  BY <1>2 DEF users, orderingVars
<1> QED
  BY <1>1, <1>2 DEF FrontNext, AdminDoor, SiteDoor, RateDoor, frontVars

\* Whatever else the processes do, orders are numbered as OrderNumbers says.
THEOREM FrontNumbers == FrontSpec => Spec
<1>1. FrontInit => Init
  BY DEF FrontInit
<1> QED
  BY <1>1, NumbersStep, PTL DEF FrontSpec, Spec

\* The sessions of administrators are those of AdminDesk.
THEOREM FrontDesk == FrontSpec => DeskSpec
<1>1. FrontInit => DeskInit
  BY DEF FrontInit
<1>2. AdminDoor => DeskNext
  BY OneSetOfWorkers DEF AdminDoor, DeskNext
<1>3. [FrontNext]_frontVars => [DeskNext]_deskVars
  BY <1>2 DEF FrontNext, UserDoor, SiteDoor, RateDoor, frontVars
<1> QED
  BY <1>1, <1>3, PTL DEF FrontSpec, DeskSpec

\* The form of the site is that of SiteLeads.
THEOREM FrontLeads == FrontSpec => LeadSpec
<1>1. FrontInit => LeadInit
  BY DEF FrontInit
<1>2. SiteDoor => LeadNext
  BY OneSetOfWorkers DEF SiteDoor, LeadNext
<1>3. [FrontNext]_frontVars => [LeadNext]_leadVars
  BY <1>2 DEF FrontNext, UserDoor, AdminDoor, RateDoor, frontVars
<1> QED
  BY <1>1, <1>3, PTL DEF FrontSpec, LeadSpec

\* The rates are those of Rates.
THEOREM FrontRates == FrontSpec => RateSpec
<1>1. FrontInit => RateInit
  BY DEF FrontInit
<1>2. [FrontNext]_frontVars => [RateNext]_rateVars
  BY DEF FrontNext, UserDoor, AdminDoor, SiteDoor, RateDoor, frontVars
<1> QED
  BY <1>1, <1>2, PTL DEF FrontSpec, RateSpec

\* What is proved of the parts holds of the processes together: numbers without gaps,
\* revocations that last, one manager, leads that are kept, rates of one fetch.
THEOREM FrontPartsCorrect ==
  FrontSpec => [](Consecutive /\ RevocationHolds /\ OneManager /\ LeadsKept /\ PairsOfOneFetch)
BY FrontNumbers, FrontDesk, FrontLeads, FrontRates, NumbersConsecutive, RevocationCorrect,
   ManagerAlone, LeadsCorrect, RatesOfOneFetch, PTL

----------------------------------------------------------------------------
(* The accounts: the inductive invariant. *)

TouchRows == [user : Users, campaign : Campaigns, state : {"new", "returning"}, at : Months]
AttributionRows == [user : Users \cup {NoOne}, campaign : Campaigns \cup {NoOne},
                    touch : Nat, type : {"none", "acquisition", "reengagement"}]

OnRow(s) == visit[s].at \in {"found", "decided"}

\* What a session knows of its user and of the others.
Honest(s) == LET v == visit[s] IN
    /\ v.at # "away" => v.user \in Users
    /\ v.at # "away" /\ v.link # "none" /\ v.at # "binding" =>
          \E n \in 1..Openings : <<v.user, v.link, n>> \in spent
    /\ OnRow(s) => (v.fresh <=> v.user \notin registered)
    /\ v.at = "binding" => v.user \in registered /\ v.touch = "none" /\ v.origin \in Users
    /\ v.at \in {"decided", "binding"} /\ v.origin \in Users =>
          v.origin \in registered \ {v.user}

\* What was decided of a new user, whose row nobody else sees, still holds at its
\* commit; of another one only the touch is written.
Decided(s) == LET v == visit[s] IN v.at = "decided" =>
    /\ ~v.fresh => v.origin = "missing"
    /\ v.fresh /\ v.origin = "missing" => v.link \in {"bad"} \cup Users
    /\ v.origin \in Campaigns => v.touch = "new" /\ v.link = v.origin
    /\ v.touch # "none" => v.link \in Campaigns
    /\ v.touch = "new" => v.link = IF v.fresh THEN v.origin ELSE source[v.user]

Visits == \A s \in Sessions : Honest(s) /\ Decided(s)

AloneAtRow ==
    \A s, t \in Sessions : s # t /\ OnRow(s) /\ OnRow(t) => visit[s].user # visit[t].user

SourcesKnown ==
    \A u \in Users : /\ source[u] # "missing" => u \in registered
                     /\ source[u] \in Users => source[u] \in registered \ {u}

\* An inviter who is about to be bound has not been invited by the user, nor is about
\* to be, unless both began before either ended.
Binds(s, u, r) == visit[s].at = "binding" /\ visit[s].user = u /\ visit[s].origin = r
BindersKnown ==
    \A s \in Sessions, u, r \in Users :
        Binds(s, u, r) /\ (source[r] = u \/ \E t \in Sessions : Binds(t, r, u)) =>
            {u, r} \subseteq crossed

\* Among any touches there is a latest one.
Later(i, k) == touches[k].at < touches[i].at \/ (touches[k].at = touches[i].at /\ k <= i)
LatestExists ==
    \A S \in SUBSET (DOMAIN touches) : S # {} => \E i \in S : \A k \in S : Later(i, k)

\* An order that an acquisition brought has its user and campaign.
AcquisitionsTyped ==
    \A i \in DOMAIN attributed : attributed[i].type = "acquisition" =>
        attributed[i].user \in Users /\ attributed[i].campaign \in Campaigns

AccountInv ==
    /\ AcquisitionsTyped /\ AccountTypeOK /\ Visits /\ AloneAtRow /\ SourcesKnown
    /\ BindersKnown /\ LatestExists /\ NoMutualReferral /\ SourcesAgree

----------------------------------------------------------------------------
(* What the steps have in common. *)

LEMMA AccountInitInv == AccountInit /\ Init => AccountInv
<1> SUFFICES ASSUME AccountInit, Init PROVE AccountInv
  OBVIOUS
<1>1. /\ \A s \in Sessions : visit[s] = Away
      /\ \A u \in Users : source[u] = "missing"
      /\ touches = <<>> /\ attributed = <<>> /\ orders = <<>> /\ registered = {}
  BY DEF AccountInit, Init
<1>2. AccountTypeOK
  BY NumberConstants DEF AccountInit, AccountTypeOK, Init, Away, Origins, Links, Months
<1>3. Visits /\ AloneAtRow /\ BindersKnown
  BY <1>1 DEF Visits, Honest, Decided, AloneAtRow, BindersKnown, Binds, OnRow, Away
<1>4. SourcesKnown /\ NoMutualReferral /\ SourcesAgree /\ LatestExists /\ AcquisitionsTyped
  BY <1>1, AccountConstants
  DEF AcquisitionsTyped, SourcesKnown, NoMutualReferral, SourcesAgree, LatestExists
<1> QED
  BY <1>2, <1>3, <1>4 DEF AccountInv

\* A row that is appended leaves the others in their places.
LEMMA AppendRow ==
  ASSUME NEW Rows, NEW seq \in Seq(Rows), NEW row \in Rows
  PROVE  /\ Append(seq, row) \in Seq(Rows)
         /\ DOMAIN Append(seq, row) = DOMAIN seq \cup {Len(seq) + 1}
         /\ \A i \in DOMAIN seq : Append(seq, row)[i] = seq[i]
         /\ Append(seq, row)[Len(seq) + 1] = row
         /\ Len(seq) \in Nat /\ DOMAIN seq = 1..Len(seq)
OBVIOUS

\* A session alone takes its step.
Alone(s) == \A t \in Sessions \ {s} : visit'[t] = visit[t]

LEMMA NewVisit ==
  ASSUME AccountTypeOK, NEW s \in Sessions, NEW rec, visit' = [visit EXCEPT ![s] = rec]
  PROVE  visit'[s] = rec /\ Alone(s)
BY DEF AccountTypeOK, Alone

\* Nothing about users, touches and orders is written.
Unwritten ==
    /\ UNCHANGED <<registered, source, touches, attributed>>
    /\ spent \subseteq spent' /\ crossed \subseteq crossed'

LEMMA UnwrittenInv ==
  ASSUME AccountInv, Unwritten
  PROVE  SourcesKnown' /\ LatestExists' /\ NoMutualReferral' /\ SourcesAgree'
         /\ AcquisitionsTyped'
<1>1. SourcesKnown' /\ LatestExists' /\ NoMutualReferral'
  BY DEF AccountInv, Unwritten, SourcesKnown, LatestExists, Later, NoMutualReferral
<1>2. SourcesAgree' /\ AcquisitionsTyped'
  BY DEF AccountInv, Unwritten, SourcesAgree, AcquisitionsTyped
<1> QED
  BY <1>1, <1>2

\* What is about visits needs a proof for the session that moves.
LEMMA OthersInv ==
  ASSUME AccountInv, Unwritten, NEW s \in Sessions, Alone(s)
  PROVE  \A t \in Sessions \ {s} : Honest(t)' /\ Decided(t)'
BY DEF AccountInv, Unwritten, Visits, Honest, Decided, OnRow, Alone

\* One that neither binds nor takes a row another session has.
LEMMA MoveInv ==
  ASSUME AccountInv, Unwritten, AccountTypeOK', NEW s \in Sessions, Alone(s),
         Honest(s)', Decided(s)',
         OnRow(s)' => (OnRow(s) /\ visit'[s].user = visit[s].user) \/ RowFree(visit'[s].user),
         visit'[s].at # "binding"
  PROVE  AccountInv'
<1>1. \A t \in Sessions \ {s} : Honest(t)' /\ Decided(t)'
  BY OthersInv
<1>2. AloneAtRow'
  BY DEF AccountInv, AloneAtRow, OnRow, Alone, RowFree
<1>3. BindersKnown'
  BY DEF AccountInv, Unwritten, BindersKnown, Binds, Alone
<1> QED
  BY <1>1, <1>2, <1>3, UnwrittenInv DEF AccountInv, Visits

----------------------------------------------------------------------------
(* The steps of a login. *)

\* A visit as the types say.
VisitRow(v) ==
    v \in [at : {"away", "asking", "starting", "found", "decided", "binding"},
           user : Users \cup {NoOne}, link : Links, fresh : BOOLEAN,
           origin : Origins, touch : {"none", "new", "returning"}]

LEMMA ArriveUserInv ==
  ASSUME AccountInv, NEW s \in Sessions, NEW u \in Users, UNCHANGED orderingVars,
         StartBot(s, u) \/ \E link \in Links, n \in 1..Openings : OpenMiniApp(s, u, link, n)
  PROVE  AccountInv'
<1>0. AccountTypeOK
  BY DEF AccountInv
<1>1. CASE StartBot(s, u)
  <2> DEFINE rec == [Away EXCEPT !.at = "starting", !.user = u]
  <2>1. visit' = [visit EXCEPT ![s] = rec] /\ Unwritten /\ VisitRow(rec)
    BY <1>1 DEF StartBot, Comes, Unwritten, orderingVars, VisitRow, Away, Links, Origins
  <2>2. visit'[s] = rec /\ Alone(s)
    BY <1>0, <2>1, NewVisit
  <2>3. AccountTypeOK'
    BY <1>0, <1>1, <2>1 DEF StartBot, AccountTypeOK, VisitRow, orderingVars, vars
  <2>4. Honest(s)' /\ Decided(s)'
    BY <2>2, AccountConstants DEF Honest, Decided, OnRow, Away
  <2>5. visit'[s].at = "starting" /\ ~OnRow(s)'
    BY <2>2 DEF OnRow, Away
  <2> QED
    BY <2>1, <2>2, <2>3, <2>4, <2>5, MoveInv
<1>2. ASSUME NEW link \in Links, NEW n \in 1..Openings, OpenMiniApp(s, u, link, n)
      PROVE  AccountInv'
  <2> DEFINE rec == [Away EXCEPT !.at = "asking", !.user = u, !.link = link]
  <2>1. visit' = [visit EXCEPT ![s] = rec] /\ Unwritten /\ VisitRow(rec)
    BY <1>2 DEF OpenMiniApp, Comes, Unwritten, orderingVars, VisitRow, Away, Links, Origins
  <2>2. visit'[s] = rec /\ Alone(s)
    BY <1>0, <2>1, NewVisit
  <2>3. spent' \subseteq Users \X Links \X (1..Openings)
    <3>1. <<u, link, n>> \in Users \X Links \X (1..Openings)
      OBVIOUS
    <3> QED
      BY <1>0, <1>2, <3>1 DEF OpenMiniApp, AccountTypeOK
  <2>4. AccountTypeOK'
    BY <1>0, <1>2, <2>1, <2>3 DEF OpenMiniApp, AccountTypeOK, VisitRow, orderingVars, vars
  <2>5. Honest(s)' /\ Decided(s)'
    BY <1>2, <2>2, AccountConstants DEF OpenMiniApp, Honest, Decided, OnRow, Away
  <2>6. visit'[s].at = "asking" /\ ~OnRow(s)'
    BY <2>2 DEF OnRow, Away
  <2> QED
    BY <2>1, <2>2, <2>4, <2>5, <2>6, MoveInv
<1> QED
  BY <1>1, <1>2

LEMMA FindUserInv ==
  ASSUME AccountInv, NEW s \in Sessions, UNCHANGED orderingVars, FindUser(s)
  PROVE  AccountInv'
<1>0. AccountTypeOK /\ visit[s].at \in {"asking", "starting"} /\ RowFree(visit[s].user)
  BY DEF AccountInv, FindUser
<1> DEFINE rec == [visit[s] EXCEPT !.at = "found", !.fresh = visit[s].user \notin registered]
<1>1. visit' = [visit EXCEPT ![s] = rec] /\ Unwritten /\ VisitRow(rec)
  BY ZenonT(40), <1>0 DEF FindUser, Unwritten, orderingVars, AccountTypeOK, VisitRow
<1>2. visit'[s] = rec /\ Alone(s)
  BY <1>0, <1>1, NewVisit
<1>3. AccountTypeOK'
  BY <1>0, <1>1 DEF FindUser, AccountTypeOK, VisitRow, orderingVars, vars
<1>4. /\ visit'[s].at = "found" /\ visit'[s].user = visit[s].user
      /\ visit'[s].link = visit[s].link /\ visit'[s].touch = visit[s].touch
      /\ visit'[s].fresh = (visit[s].user \notin registered)
  BY <1>0, <1>2 DEF AccountTypeOK
<1>5. visit'[s].fresh <=> visit[s].user \notin registered
  BY <1>4, Zenon
<1>6. Honest(s)' /\ Decided(s)'
  BY <1>0, <1>1, <1>4, <1>5 DEF AccountInv, Visits, Honest, Decided, OnRow, Unwritten
<1> QED
  BY <1>0, <1>1, <1>2, <1>3, <1>4, <1>6, MoveInv

\* What the new user's source may be.
LEMMA OriginType ==
  ASSUME AccountTypeOK, NEW u \in Users, NEW link \in Links
  PROVE  /\ OriginOf(u, link) \in Origins
         /\ OriginOf(u, link) \in Users => OriginOf(u, link) \in registered \ {u}
         /\ OriginOf(u, link) = "missing" => link \in {"bad"} \cup Users
         /\ OriginOf(u, link) \in Campaigns => OriginOf(u, link) = link
         /\ link \in Campaigns /\ campaign[link] = "active" => OriginOf(u, link) = link
         /\ OriginOf(u, link) \in Campaigns => campaign[link] = "active"
<1>1. CASE link \in Users
  BY <1>1, AccountConstants DEF OriginOf, Invitable, Origins
<1>2. CASE link \in Campaigns
  <2>1. OriginOf(u, link) = IF campaign[link] = "active" THEN link ELSE "direct"
    BY <1>2, AccountConstants DEF OriginOf
  <2> QED
    BY <1>2, <2>1, AccountConstants DEF Origins
<1>3. CASE link \in {"none", "bad"}
  BY <1>3, AccountConstants DEF OriginOf, Origins
<1> QED
  BY <1>1, <1>2, <1>3 DEF Links

LEMMA DecideInv ==
  ASSUME AccountInv, NEW s \in Sessions, UNCHANGED orderingVars, Decide(s)
  PROVE  AccountInv'
<1> DEFINE v == visit[s]
           touched == v.link \in Campaigns /\ campaign[v.link] = "active"
           origin == IF v.fresh THEN OriginOf(v.user, v.link) ELSE "missing"
           touch == IF touched THEN TouchState(v.user, v.link, v.fresh) ELSE "none"
           rec == [v EXCEPT !.at = "decided", !.origin = origin, !.touch = touch]
<1>0. AccountTypeOK /\ v.at = "found" /\ v.user \in Users /\ v.link \in Links /\ Honest(s)
  BY DEF AccountInv, Decide, Visits, Honest, AccountTypeOK
<1>1. visit' = [visit EXCEPT ![s] = rec] /\ Unwritten
  BY <1>0 DEF Decide, Unwritten, orderingVars, AccountTypeOK
<1>2. visit'[s] = rec /\ Alone(s)
  <2> HIDE DEF rec
  <2> QED
    BY <1>0, <1>1, NewVisit
<1>3. /\ touch \in {"none", "new", "returning"} /\ origin \in Origins
      /\ touch = "new" /\ ~v.fresh => v.link = source[v.user]
      /\ touch = "new" /\ v.fresh => v.link = origin
      /\ touch # "none" => v.link \in Campaigns
      /\ ~v.fresh => origin = "missing"
      /\ v.fresh /\ origin = "missing" => v.link \in {"bad"} \cup Users
      /\ origin \in Users => origin \in registered \ {v.user}
      /\ origin \in Campaigns => touch = "new" /\ v.link = origin
  BY <1>0, OriginType, AccountConstants DEF TouchState, Origins
<1> HIDE DEF touch, origin
<1>4. VisitRow(rec)
  <2>1. VisitRow(v)
    BY <1>0 DEF AccountTypeOK, VisitRow
  <2>2. touch \in {"none", "new", "returning"} /\ origin \in Origins
    BY <1>3
  <2> HIDE DEF v
  <2> QED
    BY ONLY <2>1, <2>2 DEF VisitRow
<1>5. AccountTypeOK'
  <2> HIDE DEF rec
  <2>1. visit' \in [Sessions -> [at : {"away", "asking", "starting", "found", "decided", "binding"},
                                 user : Users \cup {NoOne}, link : Links, fresh : BOOLEAN,
                                 origin : Origins, touch : {"none", "new", "returning"}]]
    BY <1>0, <1>1, <1>4 DEF AccountTypeOK, VisitRow
  <2>2. UNCHANGED <<registered, source, since, touches, campaign, spent, crossed,
                    orders, buyer, attributed>>
    BY DEF Decide, orderingVars, vars
  <2> QED
    BY <1>0, <2>1, <2>2 DEF AccountTypeOK
<1>6. /\ visit'[s].at = "decided" /\ visit'[s].user = v.user /\ visit'[s].link = v.link
      /\ visit'[s].fresh = v.fresh /\ visit'[s].touch = touch /\ visit'[s].origin = origin
  BY <1>0, <1>2 DEF AccountTypeOK
<1>7. Honest(s)' /\ Decided(s)'
  BY <1>0, <1>1, <1>3, <1>6 DEF Honest, Decided, OnRow, Unwritten
<1> QED
  BY <1>0, <1>1, <1>2, <1>5, <1>6, <1>7, MoveInv DEF OnRow

LEMMA FailVisitInv ==
  ASSUME AccountInv, NEW s \in Sessions, UNCHANGED orderingVars, FailVisit(s)
  PROVE  AccountInv'
<1>0. AccountTypeOK
  BY DEF AccountInv
<1>1. visit' = [visit EXCEPT ![s] = Away] /\ Unwritten /\ VisitRow(Away)
  BY DEF FailVisit, Leaves, Unwritten, orderingVars, VisitRow, Away, Links, Origins
<1>2. visit'[s] = Away /\ Alone(s)
  BY <1>0, <1>1, NewVisit
<1>3. AccountTypeOK'
  BY <1>0, <1>1 DEF FailVisit, AccountTypeOK, VisitRow, orderingVars, vars
<1>4. Honest(s)' /\ Decided(s)' /\ ~OnRow(s)' /\ visit'[s].at # "binding"
  BY <1>2 DEF Honest, Decided, OnRow, Away
<1> QED
  BY <1>1, <1>2, <1>3, <1>4, MoveInv

LEMMA SetCampaignInv ==
  ASSUME AccountInv, NEW c \in Campaigns, NEW status \in Statuses,
         SetCampaign(c, status), UNCHANGED orderingVars
  PROVE  AccountInv'
<1>1. Unwritten /\ UNCHANGED visit
  BY DEF SetCampaign, Unwritten, orderingVars
<1>2. AccountTypeOK'
  BY DEF AccountInv, SetCampaign, AccountTypeOK, orderingVars, vars
<1>3. Visits' /\ AloneAtRow' /\ BindersKnown'
  BY <1>1 DEF AccountInv, Unwritten, Visits, Honest, Decided, AloneAtRow, BindersKnown,
              Binds, OnRow
<1> QED
  BY <1>1, <1>2, <1>3, UnwrittenInv DEF AccountInv

----------------------------------------------------------------------------
(* A user names an inviter later. *)

LEMMA BindLaterInv ==
  ASSUME AccountInv, NEW s \in Sessions, NEW u \in Users, NEW r \in Users,
         UNCHANGED orderingVars, BindLater(s, u, r)
  PROVE  AccountInv'
<1> DEFINE rec == [Away EXCEPT !.at = "binding", !.user = u, !.link = r, !.origin = r]
<1>0. /\ AccountTypeOK
      /\ u \in registered /\ r \in registered \ {u} /\ source[r] # u /\ source[u] = "missing"
      /\ visit[s] = Away
  BY DEF AccountInv, BindLater, Comes, Invitable
<1>1. visit' = [visit EXCEPT ![s] = rec] /\ VisitRow(rec)
  BY DEF BindLater, Comes, VisitRow, Away, Links, Origins
<1>2. visit'[s] = rec /\ Alone(s)
  BY <1>0, <1>1, NewVisit
<1>3. /\ crossed' \subseteq Users /\ Unwritten
      /\ \A t \in Sessions : Binds(t, r, u) => {u, r} \subseteq crossed'
  BY <1>0 DEF BindLater, Unwritten, orderingVars, Binds, AccountTypeOK
<1>4. AccountTypeOK'
  BY <1>0, <1>1, <1>3 DEF BindLater, AccountTypeOK, VisitRow, orderingVars, vars
<1>5. /\ visit'[s].at = "binding" /\ visit'[s].user = u /\ visit'[s].origin = r
      /\ visit'[s].touch = "none"
  BY <1>2 DEF Away
<1>6. Honest(s)' /\ Decided(s)'
  BY <1>0, <1>3, <1>5 DEF Honest, Decided, OnRow, Unwritten
<1>7. \A t \in Sessions \ {s} : Honest(t)' /\ Decided(t)'
  BY <1>2, <1>3, OthersInv
<1>8. AloneAtRow'
  <2>1. ~OnRow(s)' /\ \A t \in Sessions \ {s} : /\ OnRow(t)' => OnRow(t)
                                               /\ visit'[t].user = visit[t].user
    BY <1>2, <1>5 DEF OnRow, Alone
  <2> QED
    BY <2>1 DEF AccountInv, AloneAtRow
<1>9. BindersKnown'
  <2> SUFFICES ASSUME NEW t \in Sessions, NEW a \in Users, NEW b \in Users, Binds(t, a, b)',
                      (source'[b] = a \/ \E t2 \in Sessions : Binds(t2, b, a)')
               PROVE  {a, b} \subseteq crossed'
    BY DEF BindersKnown
  <2>1. source' = source /\ crossed \subseteq crossed'
    BY <1>3 DEF Unwritten
  <2>2. \A t2 \in Sessions \ {s} : \A x, y \in Users : Binds(t2, x, y)' <=> Binds(t2, x, y)
    BY <1>2 DEF Binds, Alone
  <2>3. \A x, y \in Users : Binds(s, x, y)' <=> x = u /\ y = r
    BY <1>5 DEF Binds
  <2>4. CASE t = s
    <3>1. a = u /\ b = r
      BY <2>3, <2>4
    <3>2. PICK t2 \in Sessions : Binds(t2, r, u)'
      BY <1>0, <2>1, <3>1
    <3>3. t2 # s
      BY <1>0, <2>3, <3>2
    <3> QED
      BY <1>3, <2>2, <3>1, <3>2, <3>3
  <2>5. CASE t # s /\ Binds(s, b, a)'
    BY <1>3, <2>2, <2>3, <2>5
  <2>6. CASE t # s /\ ~Binds(s, b, a)'
    BY <2>1, <2>2, <2>6 DEF AccountInv, BindersKnown
  <2> QED
    BY <2>4, <2>5, <2>6
<1> QED
  BY <1>3, <1>4, <1>6, <1>7, <1>8, <1>9, UnwrittenInv DEF AccountInv, Visits

----------------------------------------------------------------------------
(* A visit is committed. *)

\* A source and a touch may have been written.
LEMMA CommitVisitInv ==
  ASSUME AccountInv, now \in Months, NEW s \in Sessions, UNCHANGED orderingVars, CommitVisit(s)
  PROVE  AccountInv'
<1> DEFINE v == visit[s]
           first == source[v.user] = "missing" /\ v.origin # "missing"
           row == [user |-> v.user, campaign |-> v.link, state |-> v.touch, at |-> now]
<1>0. /\ AccountTypeOK /\ Visits /\ SourcesKnown /\ Honest(s) /\ Decided(s)
      /\ v.at \in {"decided", "binding"} /\ v.user \in Users /\ v.origin \in Origins
      /\ v.touch \in {"none", "new", "returning"} /\ v.fresh \in BOOLEAN
  BY DEF AccountInv, CommitVisit, Visits, Honest, AccountTypeOK
<1>1. /\ registered' = registered \cup {v.user} /\ visit' = [visit EXCEPT ![s] = Away]
      /\ VisitRow(Away) /\ UNCHANGED <<campaign, spent, crossed, attributed, orders, buyer>>
  BY DEF CommitVisit, Leaves, VisitRow, Away, Links, Origins, orderingVars, vars
<1>2. visit'[s] = Away /\ Alone(s)
  BY <1>0, <1>1, NewVisit
<1>3. /\ \A u \in Users : source'[u] = IF u = v.user /\ first THEN v.origin ELSE source[u]
      /\ source' \in [Users -> Origins] /\ since' \in [Users -> Months]
  BY <1>0 DEF CommitVisit, AccountTypeOK
<1>4. /\ v.touch = "none" => touches' = touches
      /\ v.touch # "none" => touches' = Append(touches, row) /\ v.link \in Campaigns
      /\ v.touch # "none" => v.at = "decided"
  BY <1>0 DEF CommitVisit, Honest, Decided
<1>5. /\ touches' \in Seq(TouchRows)
      /\ \A i \in DOMAIN touches : i \in DOMAIN touches' /\ touches'[i] = touches[i]
      /\ \A i \in DOMAIN touches' : i \in DOMAIN touches \/
            (i = Len(touches) + 1 /\ v.touch # "none" /\ touches'[i] = row)
      /\ v.touch # "none" => Len(touches) + 1 \in DOMAIN touches'
      /\ \A i \in DOMAIN touches' : touches'[i] \in TouchRows
  <2>1. touches \in Seq(TouchRows)
    BY <1>0 DEF AccountTypeOK, TouchRows
  <2>2. v.touch # "none" => row \in TouchRows
    BY <1>0, <1>4 DEF TouchRows
  <2> HIDE DEF row
  <2>3. CASE v.touch = "none"
    BY <1>4, <2>1, <2>3
  <2>4. CASE v.touch # "none"
    <3>1. touches' = Append(touches, row)
      BY <1>4, <2>4
    <3> QED
      BY <2>1, <2>2, <2>4, <3>1, AppendRow
  <2> QED
    BY <2>3, <2>4
<1>6. AccountTypeOK'
  <2>1. visit' \in [Sessions -> [at : {"away", "asking", "starting", "found", "decided", "binding"},
                                 user : Users \cup {NoOne}, link : Links, fresh : BOOLEAN,
                                 origin : Origins, touch : {"none", "new", "returning"}]]
    BY <1>0, <1>1 DEF AccountTypeOK, VisitRow
  <2> QED
    BY <1>0, <1>1, <1>3, <1>5, <2>1 DEF AccountTypeOK, TouchRows
\* A source that is there stays, and a new one is written for a user who was not known,
\* or by the user who was.
<1>7. /\ \A u \in Users : source[u] # "missing" => source'[u] = source[u]
      /\ registered \subseteq registered'
      /\ v.at = "decided" /\ first => v.user \notin registered
      /\ v.at = "decided" /\ v.fresh => v.user \notin registered /\ source[v.user] = "missing"
  BY <1>0, <1>1, <1>3 DEF SourcesKnown, Honest, Decided, OnRow
<1>8. \A t \in Sessions \ {s} : Honest(t)' /\ Decided(t)'
  <2> SUFFICES ASSUME NEW t \in Sessions \ {s} PROVE Honest(t)' /\ Decided(t)'
    OBVIOUS
  <2>1. /\ visit'[t] = visit[t] /\ Honest(t) /\ Decided(t)
        /\ OnRow(t) => visit[t].user # v.user \/ v.user \in registered
    BY <1>0, <1>2 DEF Alone, AccountInv, Visits, AloneAtRow, OnRow, Honest
  <2>2. Honest(t)'
    BY <1>1, <1>7, <2>1 DEF Honest, OnRow
  <2>3. Decided(t)'
    <3>1. visit[t].at = "decided" => visit[t].user \in Users /\ OnRow(t)
      BY <2>1 DEF Honest, OnRow
    <3>2. visit[t].at = "decided" /\ visit[t].touch = "new" /\ ~visit[t].fresh =>
             source'[visit[t].user] = visit[t].link
      BY <1>7, <2>1, <3>1, AccountConstants DEF Decided
    <3> QED
      BY <2>1, <3>2 DEF Decided
  <2> QED
    BY <2>2, <2>3
<1>9. Honest(s)' /\ Decided(s)' /\ AloneAtRow'
  <2>1. Honest(s)' /\ Decided(s)' /\ ~OnRow(s)'
    BY <1>2 DEF Honest, Decided, OnRow, Away
  <2>2. \A t \in Sessions \ {s} : (OnRow(t)' => OnRow(t)) /\ visit'[t].user = visit[t].user
    BY <1>2 DEF OnRow, Alone
  <2> QED
    BY <2>1, <2>2 DEF AccountInv, AloneAtRow
<1>10. SourcesKnown'
  BY <1>0, <1>1, <1>3 DEF SourcesKnown, Honest
<1>11. BindersKnown'
  <2> SUFFICES ASSUME NEW t \in Sessions, NEW a \in Users, NEW b \in Users, Binds(t, a, b)',
                      (source'[b] = a \/ \E t2 \in Sessions : Binds(t2, b, a)')
               PROVE  {a, b} \subseteq crossed'
    BY DEF BindersKnown
  <2>1. \A t2 \in Sessions, x, y \in Users : Binds(t2, x, y)' => Binds(t2, x, y) /\ t2 # s
    BY <1>2 DEF Binds, Alone, Away
  <2>2. CASE source'[b] = a /\ source[b] # a
    <3>1. b = v.user /\ first /\ v.origin = a
      BY <1>3, <2>2
    <3>2. Binds(t, a, b) /\ b \in registered
      BY <1>0, <2>1 DEF Binds, Visits, Honest
    <3>3. Binds(s, b, a)
      BY <1>0, <1>7, <3>1, <3>2 DEF Binds
    <3> QED
      BY <1>1, <3>2, <3>3 DEF AccountInv, BindersKnown
  <2> QED
    BY <1>1, <2>1, <2>2 DEF AccountInv, BindersKnown
<1>12. NoMutualReferral'
  <2> SUFFICES ASSUME NEW a \in Users, NEW b \in Users, source'[a] = b, source'[b] = a
               PROVE  a \in crossed
    BY <1>1 DEF NoMutualReferral
  <2>1. CASE source[a] = b /\ source[b] = a
    BY <2>1 DEF AccountInv, NoMutualReferral
  <2>2. ASSUME NEW x \in Users, NEW y \in Users, {x, y} = {a, b},
               source[x] # y, source'[x] = y, source'[y] = x
        PROVE  a \in crossed
    <3>1. x = v.user /\ first /\ v.origin = y /\ y # x
      BY <1>0, <1>3, <2>2 DEF Honest
    <3>2. source[y] = x
      BY <1>3, <2>2, <3>1
    <3>3. x \in registered
      BY <1>0, <3>2, AccountConstants DEF SourcesKnown
    <3>4. Binds(s, x, y)
      BY <1>0, <1>7, <3>1, <3>3 DEF Binds
    <3> QED
      BY <2>2, <3>2, <3>4 DEF AccountInv, BindersKnown
  <2> QED
    BY <2>1, <2>2
<1>13. LatestExists'
  <2> SUFFICES ASSUME NEW S \in SUBSET (DOMAIN touches'), S # {}
               PROVE  \E i \in S : \A k \in S : Later(i, k)'
    BY DEF LatestExists
  <2>n. PICK n \in Int : n = Len(touches) + 1
    BY <1>0 DEF AccountTypeOK
  <2> DEFINE Old == S \cap DOMAIN touches
  <2>1. /\ S \subseteq DOMAIN touches \cup {n}
        /\ Len(touches) \in Nat /\ DOMAIN touches = 1..Len(touches) /\ n \notin DOMAIN touches
    BY <1>0, <1>5, <2>n DEF AccountTypeOK
  <2>0. \A i \in S : touches'[i].at \in Nat
    <3>1. \A i \in S : touches'[i].at \in Months
      BY <1>5 DEF TouchRows
    <3> QED
      BY <3>1, NumberConstants DEF Months
  <2>2. CASE Old = {}
    BY <2>0, <2>1, <2>2 DEF Later
  <2>3. CASE Old # {}
    <3>1. PICK i \in Old : \A k \in Old : Later(i, k)
      BY <2>3 DEF AccountInv, LatestExists
    <3>2. \A k \in Old : Later(i, k)'
      BY <1>5, <3>1 DEF Later
    <3>3. CASE n \notin S
      BY <2>1, <3>2, <3>3
    <3>4. CASE n \in S /\ touches'[n].at < touches'[i].at
      BY <2>0, <2>1, <3>2, <3>4 DEF Later
    <3>5. CASE n \in S /\ ~(touches'[n].at < touches'[i].at)
      <4>1. \A k \in Old : k <= n /\ i <= n
        BY <2>1, <2>n
      <4>2. \A k \in Old : Later(n, k)'
        BY <2>0, <3>2, <3>5, <4>1 DEF Later
      <4>3. Later(n, n)'
        BY <2>0, <3>5 DEF Later
      <4> QED
        BY <2>1, <3>5, <4>2, <4>3
    <3> QED
      BY <3>3, <3>4, <3>5
  <2> QED
    BY <2>2, <2>3
<1>14. SourcesAgree'
  <2>1. \A u \in registered' : source'[u] = "missing" =>
          \E link \in {"bad"} \cup Users, m \in 1..Openings : <<u, link, m>> \in spent'
    <3>1. CASE v.user \in registered
      <4>1. \A u \in registered' : u \in Users /\ u \in registered
        BY <1>0, <1>1, <3>1 DEF AccountTypeOK
      <4>2. \A u \in Users : source'[u] = "missing" => source[u] = "missing"
        BY <1>3
      <4> QED
        BY <1>1, <4>1, <4>2 DEF AccountInv, SourcesAgree
    <3>2. CASE v.user \notin registered
      <4>1. v.at = "decided" /\ v.fresh
        BY <1>0, <3>2 DEF Honest, OnRow
      <4>2. source'[v.user] = "missing" => v.link \in {"bad"} \cup Users
        BY <1>0, <1>3, <1>7, <4>1 DEF Decided
      <4>3. source'[v.user] = "missing" =>
              \E m \in 1..Openings : <<v.user, v.link, m>> \in spent
        BY <1>0, <4>1, <4>2, AccountConstants DEF Honest
      <4>4. \A u \in registered : u \in Users /\ u # v.user
        BY <1>0, <3>2 DEF AccountTypeOK
      <4> QED
        BY ZenonT(40), <1>1, <1>3, <4>2, <4>3, <4>4 DEF AccountInv, SourcesAgree
    <3> QED
      BY <3>1, <3>2
  <2>2. \A u \in Users : source'[u] \in Campaigns =>
          \E i \in DOMAIN touches' : /\ touches'[i].user = u /\ touches'[i].state = "new"
                                     /\ touches'[i].campaign = source'[u]
    <3> SUFFICES ASSUME NEW u \in Users, source'[u] \in Campaigns
                 PROVE  \E i \in DOMAIN touches' :
                            /\ touches'[i].user = u /\ touches'[i].state = "new"
                            /\ touches'[i].campaign = source'[u]
      OBVIOUS
    <3>1. CASE source'[u] = source[u]
      BY <1>5, <3>1 DEF AccountInv, SourcesAgree
    <3>2. CASE source'[u] # source[u]
      <4>1. u = v.user /\ first /\ source'[u] = v.origin
        BY <1>3, <3>2
      <4>2. v.at = "decided"
        BY <1>0, <4>1, AccountConstants DEF Honest
      <4>3. v.touch = "new" /\ v.link = v.origin
        BY <1>0, <4>1, <4>2 DEF Decided
      <4>4. /\ Len(touches) + 1 \in DOMAIN touches' /\ touches'[Len(touches) + 1] = row
        BY <1>0, <1>4, <1>5, <4>3 DEF AccountTypeOK
      <4> QED
        BY <4>1, <4>3, <4>4
    <3> QED
      BY <3>1, <3>2
  <2>3. \A i \in DOMAIN touches' :
          touches'[i].state = "new" => source'[touches'[i].user] = touches'[i].campaign
    <3> SUFFICES ASSUME NEW i \in DOMAIN touches', touches'[i].state = "new"
                 PROVE  source'[touches'[i].user] = touches'[i].campaign
      OBVIOUS
    <3>1. CASE i \in DOMAIN touches
      <4>0. /\ touches'[i] = touches[i]
            /\ touches'[i] \in TouchRows
        BY <1>5, <3>1
      <4>1. /\ touches[i].state = "new" /\ touches'[i] = touches[i]
            /\ touches[i].user \in Users /\ touches[i].campaign \in Campaigns
        BY <4>0 DEF TouchRows
      <4>2. source[touches[i].user] = touches[i].campaign
        BY <3>1, <4>1 DEF AccountInv, SourcesAgree
      <4> QED
        BY <1>7, <4>1, <4>2, AccountConstants
    <3>2. CASE i \notin DOMAIN touches
      <4>1. v.touch = "new" /\ touches'[i] = row
        BY <1>5, <3>2
      <4>2. v.at = "decided" /\ v.link \in Campaigns
        BY <1>4, <4>1
      <4>3. v.link = IF v.fresh THEN v.origin ELSE source[v.user]
        BY <1>0, <4>1, <4>2 DEF Decided
      <4>4. CASE v.fresh
        <5>1. source[v.user] = "missing" /\ v.link = v.origin /\ v.origin # "missing"
          BY <1>7, <4>2, <4>3, <4>4, AccountConstants
        <5>2. source'[v.user] = v.link
          BY <1>0, <1>3, <5>1
        <5> QED
          BY <4>1, <5>2
      <4>5. CASE ~v.fresh
        BY <1>7, <1>0, <4>1, <4>2, <4>3, <4>5, AccountConstants
      <4> QED
        BY <4>4, <4>5
    <3> QED
      BY <3>1, <3>2
  <2>4. \A i \in DOMAIN attributed :
          attributed[i].type = "acquisition" =>
              source'[attributed[i].user] = attributed[i].campaign
    BY <1>7, AccountConstants DEF AccountInv, SourcesAgree, AcquisitionsTyped
  <2> QED
    BY <1>1, <2>1, <2>2, <2>3, <2>4 DEF SourcesAgree
<1>15. AcquisitionsTyped'
  BY <1>1 DEF AccountInv, AcquisitionsTyped
<1> QED
  BY <1>6, <1>8, <1>9, <1>10, <1>11, <1>12, <1>13, <1>14, <1>15 DEF AccountInv, Visits

----------------------------------------------------------------------------
(* The other steps. *)

\* An order that an acquisition brought is of the campaign of the source.
LEMMA AttributionOfSource ==
  ASSUME AccountInv, NEW u \in Users \cup {NoOne}, NEW month
  PROVE  LET a == AttributionOf(u, month) IN
         /\ a \in AttributionRows
         /\ a.type = "acquisition" => /\ a.user \in Users /\ a.campaign \in Campaigns
                                      /\ source[a.user] = a.campaign
<1> DEFINE S == Recent(u, month)
           t == LatestTouch(S)
<1>1. CASE S = {}
  BY <1>1 DEF AttributionOf, AttributionRows
<1>2. CASE S # {}
  <2>1. S \in SUBSET (DOMAIN touches) /\ \A i \in S : touches[i].user = u
    BY DEF Recent
  <2>2. \E i \in S : \A k \in S : Later(i, k)
    BY <1>2, <2>1 DEF AccountInv, LatestExists
  <2>3. t \in S
    BY <2>2 DEF LatestTouch, Later
  <2>4. t \in DOMAIN touches /\ touches[t].user = u
    BY <2>1, <2>3
  <2> HIDE DEF t
  <2>5. touches \in Seq(TouchRows)
    BY DEF AccountInv, AccountTypeOK, TouchRows
  <2>7. t \in Nat /\ touches[t] \in TouchRows
    BY <2>4, <2>5
  <2>8. touches[t].state = "new" => source[u] = touches[t].campaign
    BY <2>4 DEF AccountInv, SourcesAgree
  <2>6. AttributionOf(u, month) =
          [user |-> u, campaign |-> touches[t].campaign, touch |-> t,
           type |-> IF touches[t].state = "new" THEN "acquisition" ELSE "reengagement"]
    BY <1>2 DEF AttributionOf, t
  <2> QED
    BY <2>4, <2>6, <2>7, <2>8 DEF TouchRows, AttributionRows
<1> QED
  BY <1>1, <1>2

LEMMA OrderingInv ==
  ASSUME AccountInv, TypeOK, NEW s \in Sessions, UNCHANGED accountVars,
         (\E u \in Users : BeginOrder(s, u)) \/ ContinueOrder(s) \/ CommitOrder(s)
            \/ FailOrder(s)
  PROVE  AccountInv'
<1>1. UNCHANGED <<registered, source, since, touches, campaign, spent, visit, crossed>>
  BY DEF accountVars
<1>2. Visits' /\ AloneAtRow' /\ SourcesKnown' /\ BindersKnown' /\ LatestExists'
      /\ NoMutualReferral'
  <2>1. Visits' /\ AloneAtRow'
    BY <1>1 DEF AccountInv, Visits, Honest, Decided, OnRow, AloneAtRow
  <2>2. SourcesKnown' /\ NoMutualReferral'
    BY <1>1 DEF AccountInv, SourcesKnown, NoMutualReferral
  <2>3. BindersKnown'
    BY <1>1 DEF AccountInv, BindersKnown, Binds
  <2>4. LatestExists'
    BY <1>1 DEF AccountInv, LatestExists, Later
  <2> QED
    BY <2>1, <2>2, <2>3, <2>4
<1>3. buyer' \in [Sessions -> Users \cup {NoOne}]
  BY DEF AccountInv, AccountTypeOK, BeginOrder, ContinueOrder, CommitOrder, FailOrder
<1>4. CASE CommitOrder(s)
  <2> DEFINE a == AttributionOf(buyer[s], session[s].month)
  <2>1. /\ orders' = Append(orders, [month |-> session[s].month, value |-> NextValue(s)])
        /\ attributed' = Append(attributed, a)
    BY <1>4 DEF CommitOrder, Commit
  <2>2. buyer[s] \in Users \cup {NoOne} /\ attributed \in Seq(AttributionRows)
        /\ Len(attributed) = Len(orders) /\ orders \in Seq(OrderRows)
    BY DEF AccountInv, AccountTypeOK, AttributionRows, TypeOK, OrderRows
  <2>3. /\ a \in AttributionRows
        /\ a.type = "acquisition" => /\ a.user \in Users /\ a.campaign \in Campaigns
                                     /\ source[a.user] = a.campaign
    BY <2>2, AttributionOfSource
  <2> HIDE DEF a
  <2>4. /\ attributed' \in Seq(AttributionRows)
        /\ \A i \in DOMAIN attributed' : (i \in DOMAIN attributed /\ attributed'[i] = attributed[i])
                                          \/ attributed'[i] = a
    BY <2>1, <2>2, <2>3, AppendRow
  <2>5. Len(attributed') = Len(orders')
    BY <2>1, <2>2
  <2>6. AccountTypeOK'
    BY <1>1, <1>3, <2>4, <2>5 DEF AccountInv, AccountTypeOK, AttributionRows
  <2>7. AcquisitionsTyped'
    BY <2>3, <2>4 DEF AccountInv, AcquisitionsTyped
  <2>8. SourcesAgree'
    BY ZenonT(40), <1>1, <2>3, <2>4 DEF AccountInv, SourcesAgree
  <2> QED
    BY <1>2, <2>6, <2>7, <2>8 DEF AccountInv
<1>5. CASE ~CommitOrder(s)
  <2>1. UNCHANGED <<orders, attributed>>
    BY <1>5 DEF BeginOrder, ContinueOrder, FailOrder, Begin, Read, Write, Rollback
  <2> QED
    <3>1. AccountTypeOK'
      BY <1>1, <1>3, <2>1 DEF AccountInv, AccountTypeOK
    <3>2. SourcesAgree' /\ AcquisitionsTyped'
      BY <1>1, <2>1 DEF AccountInv, SourcesAgree, AcquisitionsTyped
    <3> QED
      BY <1>2, <3>1, <3>2 DEF AccountInv
<1> QED
  BY <1>4, <1>5

\* Neither accounts nor orders.
LEMMA AccountsStay ==
  ASSUME AccountInv, UNCHANGED accountVars, UNCHANGED <<buyer, attributed, orders>>
  PROVE  AccountInv'
<1>1. Unwritten /\ UNCHANGED visit /\ UNCHANGED <<since, campaign, spent, crossed, orders, buyer>>
  BY DEF accountVars, Unwritten
<1>2. AccountTypeOK'
  BY <1>1 DEF AccountInv, AccountTypeOK, Unwritten
<1>3. Visits' /\ AloneAtRow' /\ BindersKnown'
  BY <1>1 DEF AccountInv, Unwritten, Visits, Honest, Decided, AloneAtRow, BindersKnown,
              Binds, OnRow
<1> QED
  BY <1>2, <1>3, <1>1, UnwrittenInv DEF AccountInv

LEMMA VisitStep ==
  ASSUME AccountInv, TypeOK, NEW w \in Sessions, UserArrives(w) \/ UserContinues(w)
  PROVE  AccountInv'
<1>1. now \in Months
  BY DEF TypeOK
<1>2. CASE UserArrives(w)
  <2>1. ASSUME NEW u \in Users, BeginOrder(w, u), UNCHANGED accountVars PROVE AccountInv'
    BY <2>1, OrderingInv
  <2>2. ASSUME NEW u \in Users, NEW r \in Users, BindLater(w, u, r), UNCHANGED orderingVars
        PROVE  AccountInv'
    BY <2>2, BindLaterInv
  <2>3. ASSUME NEW u \in Users, UNCHANGED orderingVars,
               StartBot(w, u) \/ \E link \in Links, n \in 1..Openings : OpenMiniApp(w, u, link, n)
        PROVE  AccountInv'
    BY <2>3, ArriveUserInv
  <2> QED
    BY <1>2, <2>1, <2>2, <2>3 DEF UserArrives
<1>3. CASE UserContinues(w)
  BY <1>1, <1>3, FindUserInv, DecideInv, CommitVisitInv, FailVisitInv, OrderingInv
  DEF UserContinues
<1> QED
  BY <1>2, <1>3

LEMMA AccountStep == AccountInv /\ TypeOK /\ [FrontNext]_frontVars => AccountInv'
<1> SUFFICES ASSUME AccountInv, TypeOK, [FrontNext]_frontVars PROVE AccountInv'
  OBVIOUS
<1>1. CASE UserDoor
  <2>1. ASSUME UsersPass PROVE AccountInv'
    <3>1. ASSUME NEW c \in Campaigns, NEW status \in Statuses,
                 SetCampaign(c, status), UNCHANGED orderingVars
          PROVE  AccountInv'
      BY <3>1, SetCampaignInv
    <3>2. ASSUME MonthEnds, UNCHANGED <<buyer, attributed, accountVars>> PROVE AccountInv'
      BY <3>2, AccountsStay DEF MonthEnds
    <3> QED
      BY <2>1, <3>1, <3>2 DEF UsersPass
  <2> QED
    BY <1>1, <2>1, VisitStep, OneSetOfWorkers DEF UserDoor
<1>2. CASE UNCHANGED users
  BY <1>2, AccountsStay DEF users, orderingVars, vars
<1> QED
  BY <1>1, <1>2 DEF FrontNext, AdminDoor, SiteDoor, RateDoor, frontVars

THEOREM AccountInductive == FrontSpec => []AccountInv
<1>1. FrontInit => AccountInv
  BY AccountInitInv DEF FrontInit
<1> QED
  BY <1>1, AccountStep, FrontNumbers, TypeCorrect, PTL DEF FrontSpec

\* The rows of users, sources, touches and attributions keep their types.
THEOREM AccountTypeCorrect == FrontSpec => []AccountTypeOK
<1>1. AccountInv => AccountTypeOK
  BY DEF AccountInv
<1> QED
  BY <1>1, AccountInductive, PTL

\* Two users never invite each other, although bind_referral looks at the inviter without
\* a lock, unless both named each other at the same time.
THEOREM ReferralsCorrect == FrontSpec => []NoMutualReferral
<1>1. AccountInv => NoMutualReferral
  BY DEF AccountInv
<1> QED
  BY <1>1, AccountInductive, PTL

\* Sources, touches and the attributions of orders agree, however logins and orders of any
\* number of users overlap, fail and meet campaigns that end.
THEOREM SourcesCorrect == FrontSpec => []SourcesAgree
<1>1. AccountInv => SourcesAgree
  BY DEF AccountInv
<1> QED
  BY <1>1, AccountInductive, PTL

----------------------------------------------------------------------------
(* The reports. *)

\* Users with a source are as many as have come.
Sourced == {u \in Users : source[u] # "missing"}

\* An order that a touch brought is of its user and campaign and followed it in time.
Follows(i) ==
    LET a == attributed[i]
    IN  /\ a.campaign = NoOne => a.type = "none"
        /\ a.campaign # NoOne =>
              /\ a.touch \in DOMAIN touches /\ touches[a.touch].user = a.user
              /\ touches[a.touch].campaign = a.campaign
              /\ a.type \in {"acquisition", "reengagement"}
              /\ touches[a.touch].at <= orders[i].month
              /\ orders[i].month <= touches[a.touch].at + Window

\* Among any orders there is a latest one.
Newer(i, k) == orders[k].month < orders[i].month \/ (orders[k].month = orders[i].month /\ k <= i)
NewestExists ==
    \A S \in SUBSET (DOMAIN orders) : S # {} => \E i \in S : \A k \in S : Newer(i, k)

ReportInv ==
    /\ IsFiniteSet(Sourced)
    /\ \A i \in DOMAIN attributed : Follows(i)
    /\ NewestExists

----------------------------------------------------------------------------
(* How many there are of what is counted in parts. *)

\* Whatever is told apart in parts is as much as its parts together.
LEMMA CountedByParts ==
  ASSUME NEW S, NEW part, DOMAIN part = S, IsFiniteSet(UNION {part[x] : x \in S}),
         \A x, y \in S : x # y => part[x] \cap part[y] = {}
  PROVE  Cardinality(UNION {{x} \X (1..Cardinality(part[x])) : x \in S})
            = Cardinality(UNION {part[x] : x \in S})
<1> DEFINE all == UNION {part[x] : x \in S}
           size(x) == Cardinality(part[x])
           units == UNION {{x} \X (1..size(x)) : x \in S}
           place == [x \in S |-> CHOOSE f : f \in Bijection(1..size(x), part[x])]
           pick == [p \in units |-> place[p[1]][p[2]]]
<1>1. \A x \in S : place[x] \in Bijection(1..size(x), part[x])
  <2> SUFFICES ASSUME NEW x \in S PROVE place[x] \in Bijection(1..size(x), part[x])
    OBVIOUS
  <2>1. part[x] \in SUBSET all
    OBVIOUS
  <2>2. IsFiniteSet(part[x])
    BY <2>1, FS_Subset
  <2>3. ExistsBijection(1..size(x), part[x])
    <3> DEFINE T == part[x]
    <3>1. IsFiniteSet(T)
      BY <2>2
    <3> HIDE DEF T
    <3>2. ExistsBijection(1..Cardinality(T), T)
      BY ONLY <3>1, FS_CardinalityType
    <3> QED
      BY <3>2 DEF T
  <2> QED
    BY <2>3 DEF ExistsBijection
<1> HIDE DEF place
<1>2. \A x \in S : \A n \in 1..size(x) : <<x, n>> \in units
  OBVIOUS
<1>3. \A p \in units : p = <<p[1], p[2]>> /\ p[1] \in S /\ p[2] \in 1..size(p[1])
  OBVIOUS
<1> HIDE DEF units, size
<1>4. \A x \in S : /\ \A n \in 1..size(x) : place[x][n] \in part[x]
                   /\ \A m, n \in 1..size(x) : place[x][m] = place[x][n] => m = n
                   /\ \A z \in part[x] : \E n \in 1..size(x) : place[x][n] = z
  <2> SUFFICES ASSUME NEW x \in S
               PROVE  /\ \A n \in 1..size(x) : place[x][n] \in part[x]
                      /\ \A m, n \in 1..size(x) : place[x][m] = place[x][n] => m = n
                      /\ \A z \in part[x] : \E n \in 1..size(x) : place[x][n] = z
    OBVIOUS
  <2> DEFINE f == place[x]
             N == 1..size(x)
             T == part[x]
  <2>1. f \in Bijection(N, T)
    BY <1>1
  <2> HIDE DEF f, N, T
  <2>2. /\ \A n \in N : f[n] \in T
        /\ \A m, n \in N : f[m] = f[n] => m = n
        /\ \A z \in T : \E n \in N : f[n] = z
    BY ONLY <2>1 DEF Bijection, Injection, Surjection, IsInjective
  <2> QED
    BY <2>2 DEF f, N, T
<1>5. pick \in [units -> all]
  BY <1>3, <1>4
<1>6. \A p, q \in units : pick[p] = pick[q] => p = q
  <2> SUFFICES ASSUME NEW p \in units, NEW q \in units, pick[p] = pick[q] PROVE p = q
    OBVIOUS
  <2>1. place[p[1]][p[2]] = place[q[1]][q[2]]
    OBVIOUS
  <2>2. p[1] = q[1]
    BY <1>3, <1>4, <2>1
  <2>3. p[2] = q[2]
    BY <1>3, <1>4, <2>1, <2>2
  <2> QED
    BY <1>3, <2>2, <2>3
<1>7. \A z \in all : \E p \in units : pick[p] = z
  <2> SUFFICES ASSUME NEW z \in all PROVE \E p \in units : pick[p] = z
    OBVIOUS
  <2>1. PICK x \in S : z \in part[x]
    OBVIOUS
  <2>2. PICK n \in 1..size(x) : place[x][n] = z
    BY <1>4, <2>1
  <2>3. <<x, n>> \in units /\ pick[<<x, n>>] = place[x][n]
    BY <1>2
  <2> QED
    BY <2>2, <2>3
<1> HIDE DEF pick
<1>8. pick \in Injection(units, all) /\ pick \in Surjection(units, all)
  BY <1>5, <1>6, <1>7 DEF Injection, Surjection, IsInjective
<1>9. IsFiniteSet(all)
  OBVIOUS
<1> HIDE DEF all
<1>10. Cardinality(units) = Cardinality(all)
  BY ONLY <1>8, <1>9, FS_Injection
<1> QED
  BY <1>10 DEF units, size, all

\* Parts that are counted add up to the whole.
LEMMA PartsAddUp ==
  ASSUME NEW S, NEW part, DOMAIN part = S, NEW all, IsFiniteSet(all),
         all = UNION {part[x] : x \in S},
         \A x, y \in S : x # y => part[x] \cap part[y] = {}
  PROVE  Total([x \in S |-> Cardinality(part[x])]) = Cardinality(all)
<1> DEFINE f == [x \in S |-> Cardinality(part[x])]
<1>1. Cardinality(UNION {{x} \X (1..Cardinality(part[x])) : x \in S})
         = Cardinality(UNION {part[x] : x \in S})
  BY CountedByParts
<1>2. {{x} \X (1..f[x]) : x \in DOMAIN f} = {{x} \X (1..Cardinality(part[x])) : x \in S}
  OBVIOUS
<1> HIDE DEF f
<1>3. Total(f) = Cardinality(all)
  BY <1>1, <1>2 DEF Total
<1> QED
  BY <1>3 DEF f

----------------------------------------------------------------------------
(* The rows the reports count. *)

LEMMA ReportInitInv == FrontInit => ReportInv
<1> SUFFICES ASSUME FrontInit PROVE ReportInv
  OBVIOUS
<1>1. /\ \A u \in Users : source[u] = "missing"
      /\ attributed = <<>> /\ orders = <<>>
  BY DEF FrontInit, AccountInit, Init
<1>2. Sourced = {}
  BY <1>1 DEF Sourced
<1>3. DOMAIN attributed = {} /\ DOMAIN orders = {}
  BY <1>1
<1> QED
  BY <1>2, <1>3, FS_EmptySet DEF ReportInv, NewestExists

LEMMA RowsKept ==
  ASSUME ReportInv, UNCHANGED <<source, touches, orders, attributed>>
  PROVE  ReportInv'
<1>1. Sourced' = Sourced /\ NewestExists'
  BY DEF ReportInv, Sourced, NewestExists, Newer
<1>2. \A i \in DOMAIN attributed' : Follows(i)'
  BY DEF ReportInv, Follows
<1> QED
  BY <1>1, <1>2 DEF ReportInv

\* A user may get a source and a touch; the touches of orders stay where they are.
LEMMA CommitVisitRows ==
  ASSUME AccountInv, ReportInv, NEW s \in Sessions, UNCHANGED orderingVars, CommitVisit(s)
  PROVE  ReportInv'
<1> DEFINE v == visit[s]
           row == [user |-> v.user, campaign |-> v.link, state |-> v.touch, at |-> now]
<1>1. /\ touches' = touches \/ touches' = Append(touches, row)
      /\ \A u \in Users : u # v.user => source'[u] = source[u]
      /\ UNCHANGED <<orders, attributed>>
  BY DEF AccountInv, AccountTypeOK, CommitVisit, orderingVars, vars
<1>2. IsFiniteSet(Sourced')
  <2>1. Sourced' \in SUBSET (Sourced \cup {v.user})
    BY <1>1 DEF Sourced
  <2>2. IsFiniteSet(Sourced \cup {v.user})
    BY FS_AddElement DEF ReportInv
  <2> QED
    BY <2>1, <2>2, FS_Subset
<1>3. \A i \in DOMAIN touches : i \in DOMAIN touches' /\ touches'[i] = touches[i]
  <2>1. touches \in Seq(TouchRows)
    BY DEF AccountInv, AccountTypeOK, TouchRows
  <2> HIDE DEF row
  <2> QED
    BY <1>1, <2>1
<1>4. \A i \in DOMAIN attributed' : Follows(i)'
  BY <1>1, <1>3 DEF ReportInv, Follows
<1>5. NewestExists'
  BY <1>1 DEF ReportInv, NewestExists, Newer
<1> QED
  BY <1>2, <1>4, <1>5 DEF ReportInv

\* The touch of an order is recent in the month the order is of.
LEMMA AttributionFollows ==
  ASSUME AccountInv, NEW u \in Users \cup {NoOne}, NEW month
  PROVE  LET a == AttributionOf(u, month) IN
         \/ a.campaign = NoOne /\ a.type = "none"
         \/ /\ a.touch \in DOMAIN touches /\ touches[a.touch].user = a.user
            /\ touches[a.touch].campaign = a.campaign /\ a.campaign # NoOne
            /\ a.type \in {"acquisition", "reengagement"}
            /\ touches[a.touch].at <= month /\ month <= touches[a.touch].at + Window
<1> DEFINE S == Recent(u, month)
           t == LatestTouch(S)
<1>1. CASE S = {}
  BY <1>1 DEF AttributionOf
<1>2. CASE S # {}
  <2>1. S \in SUBSET (DOMAIN touches)
    BY DEF Recent
  <2>2. \E i \in S : \A k \in S : Later(i, k)
    BY <1>2, <2>1 DEF AccountInv, LatestExists
  <2>3. t \in S
    BY <2>2 DEF LatestTouch, Later
  <2>4. /\ t \in DOMAIN touches /\ touches[t].user = u
        /\ touches[t].at <= month /\ month <= touches[t].at + Window
    BY <2>3 DEF Recent
  <2> HIDE DEF t
  <2>5. AttributionOf(u, month) =
          [user |-> u, campaign |-> touches[t].campaign, touch |-> t,
           type |-> IF touches[t].state = "new" THEN "acquisition" ELSE "reengagement"]
    BY <1>2 DEF AttributionOf, t
  <2>6. touches[t].campaign # NoOne
    <3>1. touches \in Seq(TouchRows)
      BY DEF AccountInv, AccountTypeOK, TouchRows
    <3>2. touches[t] \in TouchRows
      BY <2>4, <3>1
    <3> QED
      BY <3>2, AccountConstants DEF TouchRows
  <2> QED
    BY <2>4, <2>5, <2>6
<1> QED
  BY <1>1, <1>2

LEMMA CommitOrderRows ==
  ASSUME AccountInv, ReportInv, TypeOK, NEW s \in Sessions, UNCHANGED accountVars, CommitOrder(s)
  PROVE  ReportInv'
<1> DEFINE a == AttributionOf(buyer[s], session[s].month)
           number == [month |-> session[s].month, value |-> NextValue(s)]
<1>1. /\ orders' = Append(orders, number) /\ attributed' = Append(attributed, a)
      /\ UNCHANGED <<source, touches>>
  BY DEF CommitOrder, Commit, accountVars
<1>2. /\ orders \in Seq(OrderRows) /\ attributed \in Seq(AttributionRows)
      /\ Len(attributed) = Len(orders)
      /\ buyer[s] \in Users \cup {NoOne} /\ session[s].month \in Months
  BY DEF AccountInv, AccountTypeOK, AttributionRows, TypeOK, OrderRows
<1>3. number.month = session[s].month
  OBVIOUS
<1>4. \/ a.campaign = NoOne /\ a.type = "none"
      \/ /\ a.touch \in DOMAIN touches /\ touches[a.touch].user = a.user
         /\ touches[a.touch].campaign = a.campaign /\ a.campaign # NoOne
         /\ a.type \in {"acquisition", "reengagement"}
         /\ touches[a.touch].at <= number.month /\ number.month <= touches[a.touch].at + Window
  BY <1>2, AttributionFollows
<1> HIDE DEF a, number
<1>n. PICK n \in Nat : n = Len(orders) + 1
  BY <1>2
<1>5. /\ n \notin DOMAIN orders /\ DOMAIN orders = DOMAIN attributed
      /\ DOMAIN orders = 1..(n - 1)
      /\ DOMAIN orders' = DOMAIN orders \cup {n} /\ DOMAIN attributed' = DOMAIN attributed \cup {n}
      /\ \A i \in DOMAIN orders : orders'[i] = orders[i] /\ attributed'[i] = attributed[i]
      /\ orders'[n] = number /\ attributed'[n] = a
  BY <1>1, <1>2, <1>n
<1>6. \A i \in DOMAIN orders : orders[i].month \in Nat
  <2>1. \A i \in DOMAIN orders : orders[i] \in OrderRows
    BY <1>2
  <2> QED
    BY <2>1, NumberConstants DEF OrderRows, Months
<1>7. number.month \in Nat
  BY <1>2, <1>3, NumberConstants DEF Months
<1>8. \A i \in DOMAIN attributed' : Follows(i)'
  <2> SUFFICES ASSUME NEW i \in DOMAIN attributed' PROVE Follows(i)'
    OBVIOUS
  <2>1. CASE i = n
    <3>1. attributed'[i] = a /\ orders'[i] = number /\ touches' = touches
      BY <1>1, <1>5, <2>1
    <3> QED
      BY <1>4, <3>1 DEF Follows
  <2>2. CASE i # n
    <3>1. i \in DOMAIN attributed
      BY <1>5, <2>2
    <3>2. attributed'[i] = attributed[i] /\ orders'[i] = orders[i] /\ touches' = touches
      BY <1>1, <1>5, <3>1
    <3>3. Follows(i)
      BY <3>1 DEF ReportInv
    <3> QED
      BY <3>2, <3>3 DEF Follows
  <2> QED
    BY <2>1, <2>2
<1>9. NewestExists'
  <2> SUFFICES ASSUME NEW S \in SUBSET (DOMAIN orders'), S # {}
               PROVE  \E i \in S : \A k \in S : Newer(i, k)'
    BY DEF NewestExists
  <2> DEFINE Old == S \cap DOMAIN orders
  <2>1. \A i \in DOMAIN orders' : i \in Nat /\ i <= n /\ orders'[i].month \in Nat
    BY <1>5, <1>6, <1>7
  <2>2. CASE Old = {}
    BY <1>5, <2>1, <2>2 DEF Newer
  <2>3. CASE Old # {}
    <3>1. PICK i \in Old : \A k \in Old : Newer(i, k)
      BY <2>3 DEF ReportInv, NewestExists
    <3>2. \A k \in Old : Newer(i, k)'
      BY <1>5, <3>1 DEF Newer
    <3>3. CASE n \notin S
      BY <1>5, <3>2, <3>3
    <3>4. CASE n \in S /\ orders'[n].month < orders'[i].month
      BY <1>5, <2>1, <3>2, <3>4 DEF Newer
    <3>5. CASE n \in S /\ ~(orders'[n].month < orders'[i].month)
      <4>1. \A k \in Old \cup {n} : k \in Nat /\ k <= n /\ orders'[k].month \in Nat
        BY <1>5, <2>1
      <4>2. \A k \in Old : orders'[k].month <= orders'[i].month
        BY <3>2, <4>1 DEF Newer
      <4>3. orders'[i].month <= orders'[n].month
        BY <3>5, <4>1
      <4>4. \A k \in Old \cup {n} : Newer(n, k)'
        <5> SUFFICES ASSUME NEW k \in Old \cup {n} PROVE Newer(n, k)'
          OBVIOUS
        <5>1. orders'[k].month <= orders'[n].month
          BY <4>1, <4>2, <4>3
        <5> QED
          BY <4>1, <5>1 DEF Newer
      <4> QED
        BY <1>5, <3>5, <4>4
    <3> QED
      BY <3>3, <3>4, <3>5
  <2> QED
    BY <2>2, <2>3
<1>10. Sourced' = Sourced
  BY <1>1 DEF Sourced
<1> QED
  BY <1>8, <1>9, <1>10 DEF ReportInv

LEMMA ReportStep ==
  ASSUME AccountInv, ReportInv, TypeOK, [FrontNext]_frontVars
  PROVE  ReportInv'
<1>1. ASSUME NEW w \in Sessions, UserArrives(w) \/ UserContinues(w) PROVE ReportInv'
  <2>1. CASE UserArrives(w)
    <3>1. UNCHANGED <<source, touches, orders, attributed>>
      BY <2>1 DEF UserArrives, OpenMiniApp, StartBot, BindLater, BeginOrder, Begin,
                  orderingVars, accountVars, vars
    <3> QED
      BY <3>1, RowsKept
  <2>2. ASSUME UNCHANGED orderingVars, FindUser(w) \/ Decide(w) \/ FailVisit(w) PROVE ReportInv'
    <3>1. UNCHANGED <<source, touches, orders, attributed>>
      BY <2>2 DEF FindUser, Decide, FailVisit, orderingVars, vars
    <3> QED
      BY <3>1, RowsKept
  <2>3. ASSUME UNCHANGED accountVars, ContinueOrder(w) \/ FailOrder(w) PROVE ReportInv'
    <3>1. UNCHANGED <<source, touches, orders, attributed>>
      BY <2>3 DEF ContinueOrder, FailOrder, Read, Write, Rollback, accountVars
    <3> QED
      BY <3>1, RowsKept
  <2> QED
    BY <1>1, <2>1, <2>2, <2>3, CommitVisitRows, CommitOrderRows DEF UserContinues
<1>2. ASSUME UsersPass PROVE ReportInv'
  <2>1. UNCHANGED <<source, touches, orders, attributed>>
    BY <1>2 DEF UsersPass, SetCampaign, MonthEnds, orderingVars, accountVars, vars
  <2> QED
    BY <2>1, RowsKept
<1>3. CASE UserDoor
  BY <1>1, <1>2, <1>3, OneSetOfWorkers DEF UserDoor
<1>4. CASE UNCHANGED users
  <2>1. UNCHANGED <<source, touches, orders, attributed>>
    BY <1>4 DEF users, orderingVars, accountVars, vars
  <2> QED
    BY <2>1, RowsKept
<1> QED
  BY <1>3, <1>4 DEF FrontNext, AdminDoor, SiteDoor, RateDoor, frontVars

----------------------------------------------------------------------------
(* What the queries promise. *)

\* A report counts finitely many rows.
LEMMA RowsFinite ==
  ASSUME AccountInv, ReportInv
  PROVE  /\ IsFiniteSet(DOMAIN touches) /\ IsFiniteSet(DOMAIN orders)
         /\ DOMAIN orders = DOMAIN attributed
         /\ \A i \in DOMAIN touches : touches[i] \in TouchRows
         /\ \A i \in DOMAIN attributed : attributed[i] \in AttributionRows
         /\ \A C \in SUBSET Campaigns : {u \in Users : source[u] \in C} \in SUBSET Sourced
<1>1. touches \in Seq(TouchRows) /\ attributed \in Seq(AttributionRows)
      /\ Len(attributed) = Len(orders) /\ DOMAIN orders = 1..Len(orders)
  BY DEF AccountInv, AccountTypeOK, TouchRows, AttributionRows
<1>2. IsFiniteSet(1..Len(touches)) /\ IsFiniteSet(1..Len(attributed))
  BY <1>1, FS_Interval
<1> QED
  BY <1>1, <1>2, AccountConstants DEF Sourced

\* The users of finitely many rows are finitely many.
LEMMA UsersFinite ==
  ASSUME NEW S, IsFiniteSet(S)
  PROVE  IsFiniteSet(Touchers(S)) /\ IsFiniteSet(Buyers(S))
<1>1. [i \in S |-> touches[i].user] \in Surjection(S, Touchers(S))
  BY DEF Surjection, Touchers
<1>2. [i \in S |-> attributed[i].user] \in Surjection(S, Buyers(S))
  BY DEF Surjection, Buyers
<1> QED
  BY <1>1, <1>2, FS_Surjection

LEMMA BarsAddUp ==
  ASSUME AccountInv, ReportInv, TypeOK, NEW from \in Months, NEW to \in Months
  PROVE  LET summary == Summary(Campaigns, from, to)
             bars == Bars(Campaigns, from, to)
         IN  /\ \A field \in DOMAIN summary :
                   Total([date \in from..to |-> bars[date][field]]) = summary[field]
             /\ summary["applications"] = Cardinality(Ordered(Campaigns, from, to))
<1> DEFINE days == from..to
           won == [c \in Campaigns |-> Won({c}, from, to)]
           touched == [c \in Campaigns |-> Touched({c}, from, to)]
           ordered == [c \in Campaigns |-> Ordered({c}, from, to)]
           joined == [date \in days |->
                        {u \in Users : source[u] \in Campaigns /\ since[u] = date}]
           seen == [date \in days |->
                        {i \in DOMAIN touches : touches[i].campaign \in Campaigns
                                                /\ touches[i].at = date}]
           bought == [date \in days |->
                        {i \in DOMAIN orders : attributed[i].campaign \in Campaigns
                                               /\ orders[i].month = date}]
           allWon == Won(Campaigns, from, to)
           allTouched == Touched(Campaigns, from, to)
           allOrdered == Ordered(Campaigns, from, to)
<1>1. /\ \A u \in Users : since[u] \in Int
      /\ \A i \in DOMAIN touches : touches[i].at \in Int
      /\ \A i \in DOMAIN orders : orders[i].month \in Int
      /\ from \in Int /\ to \in Int
  <2>1. orders \in Seq(OrderRows)
    BY DEF TypeOK, OrderRows
  <2>2. \A i \in DOMAIN orders : orders[i] \in OrderRows
    BY <2>1
  <2>3. \A i \in DOMAIN touches : touches[i] \in TouchRows
    BY RowsFinite
  <2>4. \A m \in Months : m \in Int
    BY NumberConstants DEF Months
  <2>5. \A u \in Users : since[u] \in Months
    BY DEF AccountInv, AccountTypeOK
  <2> QED
    BY <2>2, <2>3, <2>4, <2>5 DEF TouchRows, OrderRows
<1>2. \A at \in Int : Within(at, from, to) <=> at \in days
  BY <1>1 DEF Within
<1>3. IsFiniteSet(allWon) /\ IsFiniteSet(allTouched) /\ IsFiniteSet(allOrdered)
  <2>1. allWon \in SUBSET Sourced /\ allTouched \in SUBSET (DOMAIN touches)
        /\ allOrdered \in SUBSET (DOMAIN orders)
    BY RowsFinite DEF Won, Touched, Ordered
  <2> HIDE DEF allWon, allTouched, allOrdered
  <2> QED
    BY <2>1, RowsFinite, FS_Subset DEF ReportInv
<1>4. /\ DOMAIN won = Campaigns /\ DOMAIN touched = Campaigns /\ DOMAIN ordered = Campaigns
      /\ allWon = UNION {won[c] : c \in Campaigns}
      /\ allTouched = UNION {touched[c] : c \in Campaigns}
      /\ allOrdered = UNION {ordered[c] : c \in Campaigns}
      /\ \A c, d \in Campaigns : c # d => /\ won[c] \cap won[d] = {}
                                          /\ touched[c] \cap touched[d] = {}
                                          /\ ordered[c] \cap ordered[d] = {}
  BY DEF Won, Touched, Ordered
<1>5. /\ DOMAIN joined = days /\ DOMAIN seen = days /\ DOMAIN bought = days
      /\ allWon = UNION {joined[date] : date \in days}
      /\ allTouched = UNION {seen[date] : date \in days}
      /\ allOrdered = UNION {bought[date] : date \in days}
      /\ \A x, y \in days : x # y => /\ joined[x] \cap joined[y] = {}
                                     /\ seen[x] \cap seen[y] = {}
                                     /\ bought[x] \cap bought[y] = {}
  <2> HIDE DEF days
  <2> QED
    BY <1>1, <1>2 DEF Won, Touched, Ordered
<1> DEFINE summary == Summary(Campaigns, from, to)
           bars == Bars(Campaigns, from, to)
<1>6. /\ DOMAIN summary = {"newUsers", "touches", "applications"}
      /\ summary["newUsers"] = Total([c \in Campaigns |-> Cardinality(won[c])])
      /\ summary["touches"] = Total([c \in Campaigns |-> Cardinality(touched[c])])
      /\ summary["applications"] = Total([c \in Campaigns |-> Cardinality(ordered[c])])
  BY DEF Summary, Comparison, Report
<1>7. /\ [date \in days |-> bars[date]["newUsers"]] = [date \in days |-> Cardinality(joined[date])]
      /\ [date \in days |-> bars[date]["touches"]] = [date \in days |-> Cardinality(seen[date])]
      /\ [date \in days |-> bars[date]["applications"]]
            = [date \in days |-> Cardinality(bought[date])]
  BY DEF Bars, Series
<1> HIDE DEF days, won, touched, ordered, joined, seen, bought, allWon, allTouched, allOrdered,
             summary, bars
\* The sums of the rows of the campaigns and of the bars of the days.
<1>8. /\ Total([c \in Campaigns |-> Cardinality(won[c])]) = Cardinality(allWon)
      /\ Total([c \in Campaigns |-> Cardinality(touched[c])]) = Cardinality(allTouched)
      /\ Total([c \in Campaigns |-> Cardinality(ordered[c])]) = Cardinality(allOrdered)
  <2>1. Total([c \in Campaigns |-> Cardinality(won[c])]) = Cardinality(allWon)
    BY ONLY <1>3, <1>4, PartsAddUp
  <2>2. Total([c \in Campaigns |-> Cardinality(touched[c])]) = Cardinality(allTouched)
    BY ONLY <1>3, <1>4, PartsAddUp
  <2>3. Total([c \in Campaigns |-> Cardinality(ordered[c])]) = Cardinality(allOrdered)
    BY ONLY <1>3, <1>4, PartsAddUp
  <2> QED
    BY <2>1, <2>2, <2>3
<1>9. /\ Total([date \in days |-> Cardinality(joined[date])]) = Cardinality(allWon)
      /\ Total([date \in days |-> Cardinality(seen[date])]) = Cardinality(allTouched)
      /\ Total([date \in days |-> Cardinality(bought[date])]) = Cardinality(allOrdered)
  <2>1. Total([date \in days |-> Cardinality(joined[date])]) = Cardinality(allWon)
    BY ONLY <1>3, <1>5, PartsAddUp
  <2>2. Total([date \in days |-> Cardinality(seen[date])]) = Cardinality(allTouched)
    BY ONLY <1>3, <1>5, PartsAddUp
  <2>3. Total([date \in days |-> Cardinality(bought[date])]) = Cardinality(allOrdered)
    BY ONLY <1>3, <1>5, PartsAddUp
  <2> QED
    BY <2>1, <2>2, <2>3
<1>10. \A field \in DOMAIN summary : Total([date \in days |-> bars[date][field]]) = summary[field]
  BY <1>6, <1>7, <1>8, <1>9
<1> QED
  BY <1>6, <1>8, <1>10 DEF summary, bars, days, allOrdered

\* The listed orders are those of the summary, and each followed its touch in time.
LEMMA OrdersListed ==
  ASSUME AccountInv, ReportInv, TypeOK, NEW from, NEW to
  PROVE  /\ ApplicationRows(Campaigns, from, to) = Ordered(Campaigns, from, to)
         /\ \A i \in Ordered(Campaigns, from, to) :
               /\ Delay(i) \in 0..Window
               /\ attributed[i].touch \in DOMAIN touches
               /\ touches[attributed[i].touch].user = attributed[i].user
               /\ touches[attributed[i].touch].campaign = attributed[i].campaign
               /\ attributed[i].type \in {"acquisition", "reengagement"}
<1> SUFFICES ASSUME NEW i \in Ordered(Campaigns, from, to)
             PROVE  /\ attributed[i].touch # 0 /\ Delay(i) \in 0..Window
                    /\ attributed[i].touch \in DOMAIN touches
                    /\ touches[attributed[i].touch].user = attributed[i].user
                    /\ touches[attributed[i].touch].campaign = attributed[i].campaign
                    /\ attributed[i].type \in {"acquisition", "reengagement"}
  BY DEF ApplicationRows
<1> DEFINE t == attributed[i].touch
<1>1. i \in DOMAIN orders /\ i \in DOMAIN attributed /\ attributed[i].campaign # NoOne
  BY RowsFinite, AccountConstants DEF Ordered
<1>2. /\ t \in DOMAIN touches /\ touches[t].user = attributed[i].user
      /\ touches[t].campaign = attributed[i].campaign
      /\ attributed[i].type \in {"acquisition", "reengagement"}
      /\ touches[t].at <= orders[i].month /\ orders[i].month <= touches[t].at + Window
  BY <1>1 DEF ReportInv, Follows
<1>3. t \in Nat /\ t # 0
  BY <1>2 DEF AccountInv, AccountTypeOK
<1>4. touches[t].at \in Int /\ orders[i].month \in Int /\ Window \in Int
  <2>1. touches[t] \in TouchRows
    BY <1>2, RowsFinite
  <2>2. orders \in Seq(OrderRows)
    BY DEF TypeOK, OrderRows
  <2>3. orders[i] \in OrderRows
    BY <1>1, <2>2
  <2> QED
    BY <2>1, <2>3, NumberConstants, AccountConstants DEF TouchRows, OrderRows, Months
<1>5. Delay(i) = orders[i].month - touches[t].at
  BY DEF Delay
<1> QED
  BY <1>2, <1>3, <1>4, <1>5

\* Every row is within the whole time.
LEMMA WholeTime ==
  ASSUME AccountInv, ReportInv, TypeOK, NEW C
  PROVE  /\ Won(C, 0, LastMonth) = {u \in Users : source[u] \in C}
         /\ Touched(C, 0, LastMonth) = {i \in DOMAIN touches : touches[i].campaign \in C}
         /\ Ordered(C, 0, LastMonth) = {i \in DOMAIN attributed : attributed[i].campaign \in C}
<1>1. \A m \in Months : Within(m, 0, LastMonth)
  BY NumberConstants DEF Months, Within
<1>2. \A u \in Users : since[u] \in Months
  BY DEF AccountInv, AccountTypeOK
<1>3. \A i \in DOMAIN touches : touches[i].at \in Months
  BY RowsFinite DEF TouchRows
<1>4. \A i \in DOMAIN orders : orders[i].month \in Months
  <2>1. orders \in Seq(OrderRows)
    BY DEF TypeOK, OrderRows
  <2>2. \A i \in DOMAIN orders : orders[i] \in OrderRows
    BY <2>1
  <2> QED
    BY <2>2 DEF OrderRows
<1> QED
  BY <1>1, <1>2, <1>3, <1>4, RowsFinite DEF Won, Touched, Ordered

\* The report on a campaign says what the lists of campaigns and users say.
LEMMA WholeReport ==
  ASSUME AccountInv, ReportInv, TypeOK, NEW c \in Campaigns
  PROVE  LET whole == Report(c, 0, LastMonth)
             listed == Aggregates(c)
         IN  /\ \A field \in DOMAIN listed : whole[field] = listed[field]
             /\ whole.newApplications + whole.returningApplications = whole.applications
             /\ whole.newApplicants <= whole.newUsers
             /\ Cardinality({u \in Users : UserCard(u).source = c}) = whole.newUsers
             /\ Cardinality({u \in Users : UserCard(u).touched = c}) <= whole.touchedUsers
             /\ Cardinality({u \in Users : UserCard(u).ordered = c}) <= whole.applicants
<1> DEFINE whole == Report(c, 0, LastMonth)
           listed == Aggregates(c)
           won == Won({c}, 0, LastMonth)
           touched == Touched({c}, 0, LastMonth)
           ordered == Ordered({c}, 0, LastMonth)
           new == OfType(ordered, "acquisition")
           back == OfType(ordered, "reengagement")
<1>1. /\ won = {u \in Users : source[u] = c}
      /\ touched = {i \in DOMAIN touches : touches[i].campaign = c}
      /\ ordered = {i \in DOMAIN attributed : attributed[i].campaign = c}
  BY WholeTime
<1>2. /\ IsFiniteSet(won) /\ IsFiniteSet(ordered)
      /\ IsFiniteSet(Touchers(touched)) /\ IsFiniteSet(Buyers(ordered))
  <2>1. won \in SUBSET Sourced /\ touched \in SUBSET (DOMAIN touches)
        /\ ordered \in SUBSET (DOMAIN orders)
    BY <1>1, RowsFinite, AccountConstants DEF Sourced
  <2> HIDE DEF won, touched, ordered
  <2>2. IsFiniteSet(won) /\ IsFiniteSet(touched) /\ IsFiniteSet(ordered)
    BY <2>1, RowsFinite, FS_Subset DEF ReportInv
  <2> QED
    BY <2>2, UsersFinite
<1>3. \A field \in DOMAIN listed : whole[field] = listed[field]
  <2> HIDE DEF won, touched, ordered
  <2>1. /\ DOMAIN listed = {"newUsers", "returning", "touches", "touchedUsers", "applications"}
        /\ listed.newUsers = Cardinality(won) /\ listed.returning = Cardinality(Returning(touched))
        /\ listed.touches = Cardinality(touched)
        /\ listed.touchedUsers = Cardinality(Touchers(touched))
        /\ listed.applications = Cardinality(ordered)
    BY <1>1 DEF Aggregates
  <2>2. /\ whole.newUsers = Cardinality(won) /\ whole.returning = Cardinality(Returning(touched))
        /\ whole.touches = Cardinality(touched)
        /\ whole.touchedUsers = Cardinality(Touchers(touched))
        /\ whole.applications = Cardinality(ordered)
    BY DEF Report, won, touched, ordered
  <2> HIDE DEF whole, listed
  <2> QED
    BY <2>1, <2>2
<1>4. /\ whole.newUsers = Cardinality(won) /\ whole.applications = Cardinality(ordered)
      /\ whole.touchedUsers = Cardinality(Touchers(touched))
      /\ whole.applicants = Cardinality(Buyers(ordered))
      /\ whole.newApplications = Cardinality(new) /\ whole.newApplicants = Cardinality(Buyers(new))
      /\ whole.returningApplications = Cardinality(back)
  BY DEF Report
\* An order that was brought is by an acquisition or by a later touch.
<1>5. Cardinality(new) + Cardinality(back) = Cardinality(ordered)
  <2>1. \A i \in ordered : attributed[i].type \in {"acquisition", "reengagement"}
    BY <1>1, RowsFinite, AccountConstants DEF ReportInv, Follows
  <2>2. new \cup back = ordered /\ new \cap back = {}
    BY <2>1 DEF OfType
  <2> HIDE DEF ordered, new, back
  <2>3. new \in SUBSET ordered /\ back \in SUBSET ordered
    BY <2>2
  <2>4. IsFiniteSet(new) /\ IsFiniteSet(back)
    BY <1>2, <2>3, FS_Subset
  <2>5. Cardinality(new \cup back) = Cardinality(new) + Cardinality(back) - Cardinality(new \cap back)
    BY ONLY <2>4, FS_Union
  <2>6. Cardinality(new \cap back) = 0
    BY <2>2, FS_EmptySet
  <2>7. Cardinality(new) \in Nat /\ Cardinality(back) \in Nat
    BY <2>4, FS_CardinalityType
  <2>8. Cardinality(new \cup back) = Cardinality(new) + Cardinality(back)
    BY ONLY <2>5, <2>6, <2>7
  <2> QED
    BY <2>2, <2>8
\* Whoever an acquisition brought has its campaign as source.
<1>6. Cardinality(Buyers(new)) <= Cardinality(won)
  <2>1. Buyers(new) \in SUBSET won
    <3> SUFFICES ASSUME NEW i \in new PROVE attributed[i].user \in won
      BY DEF Buyers
    <3>1. i \in DOMAIN attributed /\ attributed[i].type = "acquisition" /\ attributed[i].campaign = c
      BY <1>1 DEF OfType
    <3>2. attributed[i].user \in Users /\ source[attributed[i].user] = c
      BY <3>1 DEF AccountInv, SourcesAgree, AcquisitionsTyped
    <3> QED
      BY <1>1, <3>2
  <2> HIDE DEF won, new
  <2> QED
    BY <1>2, <2>1, FS_Subset
<1>7. {u \in Users : UserCard(u).source = c} = won
  BY <1>1 DEF UserCard
<1>8. {u \in Users : UserCard(u).touched = c} \in SUBSET Touchers(touched)
  <2> SUFFICES ASSUME NEW u \in Users, UserCard(u).touched = c PROVE u \in Touchers(touched)
    OBVIOUS
  <2> DEFINE S == {i \in DOMAIN touches : touches[i].user = u}
             t == LatestTouch(S)
  <2>1. UserCard(u).touched = IF S = {} THEN NoOne ELSE touches[t].campaign
    BY DEF UserCard
  <2>2. S # {} /\ touches[t].campaign = c
    BY <2>1, AccountConstants
  <2>3. \E i \in S : \A k \in S : Later(i, k)
    BY <2>2 DEF AccountInv, LatestExists
  <2>4. t \in S
    BY <2>3 DEF LatestTouch, Later
  <2> HIDE DEF t
  <2> QED
    BY <1>1, <2>2, <2>4 DEF Touchers
<1>9. {u \in Users : UserCard(u).ordered = c} \in SUBSET Buyers(ordered)
  <2> SUFFICES ASSUME NEW u \in Users, UserCard(u).ordered = c PROVE u \in Buyers(ordered)
    OBVIOUS
  <2> DEFINE S == {i \in DOMAIN attributed : attributed[i].user = u}
             latest == CHOOSE i \in S : \A k \in S : Newer(i, k)
  <2>1. UserCard(u).ordered = IF S = {} THEN NoOne ELSE attributed[latest].campaign
    BY DEF UserCard, Newer
  <2>2. S # {} /\ attributed[latest].campaign = c
    BY <2>1, AccountConstants
  <2>3. S \in SUBSET (DOMAIN orders)
    BY RowsFinite
  <2>4. \E i \in S : \A k \in S : Newer(i, k)
    BY <2>2, <2>3 DEF ReportInv, NewestExists
  <2>5. latest \in S
    BY <2>4
  <2> HIDE DEF latest
  <2> QED
    BY <1>1, <2>2, <2>5 DEF Buyers
<1>10. /\ Cardinality({u \in Users : UserCard(u).touched = c}) <= Cardinality(Touchers(touched))
       /\ Cardinality({u \in Users : UserCard(u).ordered = c}) <= Cardinality(Buyers(ordered))
  BY <1>2, <1>8, <1>9, FS_Subset
<1> HIDE DEF whole, listed, won, touched, ordered, new, back
<1> QED
  BY <1>3, <1>4, <1>5, <1>6, <1>7, <1>10 DEF whole, listed

\* No rate is above 100 %: who ordered by a campaign or came back was touched.
LEMMA RatesBounded ==
  ASSUME AccountInv, ReportInv, TypeOK
  PROVE  LET unique == UniqueCounts(Campaigns, 0, LastMonth)
         IN  unique.applicants <= unique.touchedUsers /\ unique.returning <= unique.touchedUsers
<1> DEFINE touched == Touched(Campaigns, 0, LastMonth)
           ordered == Ordered(Campaigns, 0, LastMonth)
<1>1. touched = DOMAIN touches
  <2>1. touched = {i \in DOMAIN touches : touches[i].campaign \in Campaigns}
    BY WholeTime
  <2>2. \A i \in DOMAIN touches : touches[i].campaign \in Campaigns
    BY RowsFinite DEF TouchRows
  <2> QED
    BY ONLY <2>1, <2>2
<1>2. Buyers(ordered) \in SUBSET Touchers(touched)
  <2> SUFFICES ASSUME NEW i \in ordered PROVE attributed[i].user \in Touchers(touched)
    BY DEF Buyers
  <2>1. attributed[i].touch \in touched
        /\ touches[attributed[i].touch].user = attributed[i].user
    BY <1>1, OrdersListed
  <2> QED
    BY <2>1 DEF Touchers
<1>3. Returning(touched) \in SUBSET Touchers(touched)
  BY DEF Returning, Touchers
<1>4. IsFiniteSet(Touchers(touched))
  BY <1>1, RowsFinite, UsersFinite
<1>5. /\ Cardinality(Buyers(ordered)) <= Cardinality(Touchers(touched))
      /\ Cardinality(Returning(touched)) <= Cardinality(Touchers(touched))
  BY <1>2, <1>3, <1>4, FS_Subset
<1> QED
  BY <1>5 DEF UniqueCounts

\* What the reports rest on is an invariant, together with the types.
THEOREM ReportInductive == FrontSpec => [](AccountInv /\ ReportInv /\ TypeOK)
<1>1. FrontInit => ReportInv
  BY ReportInitInv
<1>2. AccountInv /\ ReportInv /\ TypeOK /\ [FrontNext]_frontVars => ReportInv'
  BY ReportStep
<1> QED
  BY <1>1, <1>2, AccountInductive, FrontNumbers, TypeCorrect, PTL DEF FrontSpec

\* The queries of the marketing panel agree for any dates, campaigns, users and orders:
\* sums over campaigns, over days and over the listed orders are the same, the whole time
\* is what the lists say, and no rate is above 100 %.
THEOREM ReportsCorrect == FrontSpec => []ReportsAddUp
<1>1. AccountInv /\ ReportInv /\ TypeOK => ReportsAddUp
  <2> SUFFICES ASSUME AccountInv, ReportInv, TypeOK PROVE ReportsAddUp
    OBVIOUS
  <2>1. \A from, to \in Months : from <= to =>
          LET summary == Summary(Campaigns, from, to)
              bars == Bars(Campaigns, from, to)
              rows == ApplicationRows(Campaigns, from, to)
          IN  /\ \A field \in DOMAIN summary :
                    Total([date \in from..to |-> bars[date][field]]) = summary[field]
              /\ Cardinality(rows) = summary["applications"]
              /\ \A i \in rows : Delay(i) \in 0..Window
    <3> SUFFICES ASSUME NEW from \in Months, NEW to \in Months
                 PROVE  LET summary == Summary(Campaigns, from, to)
                            bars == Bars(Campaigns, from, to)
                            rows == ApplicationRows(Campaigns, from, to)
                        IN  /\ \A field \in DOMAIN summary :
                                  Total([date \in from..to |-> bars[date][field]]) = summary[field]
                            /\ Cardinality(rows) = summary["applications"]
                            /\ \A i \in rows : Delay(i) \in 0..Window
      OBVIOUS
    <3> QED
      BY BarsAddUp, OrdersListed
  <2> QED
    BY <2>1, WholeReport, RatesBounded DEF ReportsAddUp
<1> QED
  BY <1>1, ReportInductive, PTL
=============================================================================
