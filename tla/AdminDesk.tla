------------------------------ MODULE AdminDesk ------------------------------
(***************************************************************************)
(* The administrators: their passwords and tokens, and the role of manager *)
(* they give (api/routers/admin.py, api/deps.py).  A token carries the     *)
(* session_version of its account; a logout or a new password ends the     *)
(* tokens of the account by increasing the version.  A request reads the   *)
(* row, waits (for the hash, for the database) and writes what it computed *)
(* from what it has read.                                                  *)
(***************************************************************************)
EXTENDS Naturals, FiniteSets

CONSTANTS
    Desks,       \* requests that may be in progress at the same time
    Admins,
    Staff,       \* the users who may be made manager
    Passwords, Original,
    MaxVersion,  \* bound on session_version
    Nobody

ASSUME DeskConstants ==
    /\ Original \in Passwords /\ MaxVersion \in Nat
    /\ Nobody \notin Admins \cup Staff

VARIABLES
    account,   \* Admins: is there one, its session_version, its password and hash
    tokens,    \* the tokens that were issued
    duty,      \* what each request does, with what it has read
    managers,  \* the users with the role
    ended,     \* history: tokens a completed logout or new password should have ended
    chosen,    \* history: the password that was set last
    mixed,     \* history: accounts whose rows were written from an older copy
    tangled    \* history: two users were made manager at the same time

deskVars == <<account, tokens, duty, managers, ended, chosen, mixed, tangled>>

Free == [op |-> "none", admin |-> Nobody, version |-> 0, password |-> Original,
         legacy |-> FALSE, user |-> Nobody]

DeskTypeOK ==
    /\ account \in [Admins -> [exists : BOOLEAN, version : 0..MaxVersion,
                               password : Passwords, legacy : BOOLEAN]]
    /\ tokens \subseteq [admin : Admins, version : 0..MaxVersion] /\ ended \subseteq tokens
    /\ duty \in [Desks -> [op : {"none", "login", "logout", "password", "delete", "grant"},
                           admin : Admins \cup {Nobody}, version : 0..MaxVersion,
                           password : Passwords, legacy : BOOLEAN,
                           user : Staff \cup {Nobody}]]
    /\ managers \subseteq Staff /\ mixed \subseteq Admins /\ tangled \in BOOLEAN
    /\ chosen \in [Admins -> Passwords]

\* The accounts are as the seed made them; their hashes may be of the old kind.
DeskInit ==
    /\ account \in [Admins -> {[exists |-> TRUE, version |-> 0, password |-> Original,
                                legacy |-> legacy] : legacy \in BOOLEAN}]
    /\ tokens = {} /\ ended = {}
    /\ duty = [d \in Desks |-> Free]
    /\ managers = {}
    /\ chosen = [a \in Admins |-> Original]
    /\ mixed = {} /\ tangled = FALSE

\* _get_admin_by_token_type
Accepted(t) == account[t.admin].exists /\ t.version = account[t.admin].version
SignedIn == {t \in tokens : Accepted(t)}

TakesUp(d, request) == duty[d] = Free /\ duty' = [duty EXCEPT ![d] = request]
Done(d) == duty' = [duty EXCEPT ![d] = Free]

\* Requests of others that will write this account from what they have read of it.
Writers(a, d) ==
    {e \in Desks \ {d} : duty[e].admin = a /\
                         (duty[e].op \in {"logout", "password"} \/ duty[e].legacy)}

Noted(a, d) == mixed' = IF Writers(a, d) # {} THEN mixed \cup {a} ELSE mixed

\* The right password; the attempts are counted and limited before.
BeginLogin(d, a, p) ==
    /\ account[a].exists /\ account[a].password = p
    /\ TakesUp(d, [Free EXCEPT !.op = "login", !.admin = a, !.password = p,
                               !.version = account[a].version, !.legacy = account[a].legacy])
    /\ UNCHANGED <<account, tokens, managers, ended, chosen, mixed, tangled>>

\* A hash of the old kind is replaced by one of the password that was given.
EndLogin(d) ==
    LET r == duty[d]
    IN  /\ r.op = "login"
        /\ r.legacy => account[r.admin].exists
        /\ IF r.legacy
           THEN /\ account' = [account EXCEPT ![r.admin].password = r.password,
                                              ![r.admin].legacy = FALSE]
                /\ Noted(r.admin, d)
           ELSE UNCHANGED <<account, mixed>>
        /\ tokens' = tokens \cup {[admin |-> r.admin, version |-> r.version]}
        /\ Done(d)
        /\ UNCHANGED <<managers, ended, chosen, tangled>>

BeginLogout(d, t) ==
    /\ t \in SignedIn
    /\ TakesUp(d, [Free EXCEPT !.op = "logout", !.admin = t.admin,
                               !.version = account[t.admin].version])
    /\ UNCHANGED <<account, tokens, managers, ended, chosen, mixed, tangled>>

\* An administrator sets the password of any account.
BeginPassword(d, a, p) ==
    /\ SignedIn # {} /\ account[a].exists
    /\ TakesUp(d, [Free EXCEPT !.op = "password", !.admin = a, !.password = p,
                               !.version = account[a].version])
    /\ UNCHANGED <<account, tokens, managers, ended, chosen, mixed, tangled>>

\* Mutant: a new password leaves the sessions alone.
NextVersionAtLogout(r) == IF r.op = "logout" THEN r.version + 1 ELSE r.version

\* session_version += 1, on the copy of the row.
NextVersion(r) == r.version + 1

EndRevocation(d) ==
    LET r == duty[d]
    IN  /\ r.op \in {"logout", "password"}
        /\ account[r.admin].exists /\ r.version < MaxVersion
        /\ account' = [account EXCEPT
              ![r.admin].version = NextVersion(r),
              ![r.admin].password = IF r.op = "password" THEN r.password ELSE @,
              ![r.admin].legacy = @ /\ r.op = "logout"]
        /\ chosen' = IF r.op = "password" THEN [chosen EXCEPT ![r.admin] = r.password] ELSE chosen
        /\ ended' = ended \cup {t \in tokens : t.admin = r.admin}
        /\ Noted(r.admin, d)
        /\ Done(d)
        /\ UNCHANGED <<tokens, managers, tangled>>

\* Nobody deletes the own account.
BeginDelete(d, t, a) ==
    /\ t \in SignedIn /\ account[a].exists /\ a # t.admin
    /\ TakesUp(d, [Free EXCEPT !.op = "delete", !.admin = a])
    /\ UNCHANGED <<account, tokens, managers, ended, chosen, mixed, tangled>>

EndDelete(d) ==
    /\ duty[d].op = "delete"
    /\ account' = [account EXCEPT ![duty[d].admin].exists = FALSE]
    /\ Done(d)
    /\ UNCHANGED <<tokens, managers, ended, chosen, mixed, tangled>>

\* Mutant: nobody looks whether there is a manager.
MayManageAlways(u) == u \in Staff

\* get_manager finds nobody else.
MayManage(u) == managers \subseteq {u}

\* update_user checks and writes later.
BeginGrant(d, u) ==
    /\ SignedIn # {} /\ MayManage(u)
    /\ TakesUp(d, [Free EXCEPT !.op = "grant", !.user = u])
    /\ UNCHANGED <<account, tokens, managers, ended, chosen, mixed, tangled>>

EndGrant(d) ==
    /\ duty[d].op = "grant"
    /\ managers' = managers \cup {duty[d].user}
    /\ tangled' = (tangled \/ \E e \in Desks \ {d} : duty[e].op = "grant")
    /\ Done(d)
    /\ UNCHANGED <<account, tokens, ended, chosen, mixed>>

RevokeRole(u) ==
    /\ SignedIn # {} /\ u \in managers
    /\ managers' = managers \ {u}
    /\ UNCHANGED <<account, tokens, duty, ended, chosen, mixed, tangled>>

\* The request fails before its commit.
FailDuty(d) ==
    /\ duty[d] # Free /\ Done(d)
    /\ UNCHANGED <<account, tokens, managers, ended, chosen, mixed, tangled>>

----------------------------------------------------------------------------
AdminArrives(d) ==
    \/ \E a \in Admins, p \in Passwords : BeginLogin(d, a, p) \/ BeginPassword(d, a, p)
    \/ \E t \in SignedIn : BeginLogout(d, t) \/ \E a \in Admins : BeginDelete(d, t, a)
    \/ \E u \in Staff : BeginGrant(d, u)

AdminContinues(d) ==
    EndLogin(d) \/ EndRevocation(d) \/ EndDelete(d) \/ EndGrant(d) \/ FailDuty(d)

DeskNext ==
    \/ \E d \in Desks : AdminArrives(d) \/ AdminContinues(d)
    \/ \E u \in Staff : RevokeRole(u)

DeskSpec == DeskInit /\ [][DeskNext]_deskVars

----------------------------------------------------------------------------
\* Once a logout or a change of the password is committed, neither the tokens issued
\* before nor the old password open the account again, unless the row was written at
\* the same time from an older copy.
RevocationHolds ==
    \A a \in Admins : account[a].exists /\ a \notin mixed =>
        /\ account[a].password = chosen[a]
        /\ \A t \in ended : t.admin = a => ~Accepted(t)

\* There is one manager, unless two users were made manager at the same time.
OneManager == Cardinality(managers) > 1 => tangled
=============================================================================
