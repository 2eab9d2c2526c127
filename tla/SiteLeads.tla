------------------------------ MODULE SiteLeads ------------------------------
(***************************************************************************)
(* The form of the site (services/site_leads.py, site_lead_captcha.py).    *)
(* Before a lead is saved three keys of Redis guard it: a counter of the   *)
(* client's tries, the solved challenge, which serves once, and the        *)
(* fingerprint of the lead, which is taken for a day.  A request may die   *)
(* between any two of these commands; outside production an error of Redis *)
(* lets it pass unguarded.                                                 *)
(***************************************************************************)
EXTENDS Naturals

CONSTANTS
    Posts,       \* requests that may be in progress at the same time
    Clients, Leads, Challenges,
    MaxTries,    \* 3 a minute
    Production   \* settings.app_env

ASSUME LeadConstants == MaxTries \in Nat \ {0} /\ Production \in BOOLEAN

VARIABLES
    tries,     \* site-lead:rate, 0 without a key
    expiring,  \* the clients whose counter has a time to live
    solved,    \* site-lead:altcha
    taken,     \* site-lead:duplicate
    saved,     \* how often each lead was saved since its key was set
    post,      \* what each request does
    lost,      \* history: leads whose request died between the key and the commit
    blocked,   \* history: clients whose first request died before EXPIRE
    bypassed   \* history: leads that passed while Redis failed

leadVars == <<tries, expiring, solved, taken, saved, post, lost, blocked, bypassed>>

NoPost == [at |-> "none"]

LeadTypeOK ==
    /\ tries \in [Clients -> Nat] /\ expiring \subseteq Clients
    /\ solved \subseteq Challenges /\ taken \subseteq Leads
    /\ saved \in [Leads -> Nat]
    /\ post \in [Posts -> {NoPost} \cup [at : {"first", "counted", "proven", "passed"},
                                         client : Clients, lead : Leads,
                                         challenge : Challenges]]
    /\ lost \subseteq Leads /\ blocked \subseteq Clients /\ bypassed \subseteq Leads

LeadInit ==
    /\ tries = [c \in Clients |-> 0] /\ expiring = {}
    /\ solved = {} /\ taken = {}
    /\ saved = [l \in Leads |-> 0]
    /\ post = [p \in Posts |-> NoPost]
    /\ lost = {} /\ blocked = {} /\ bypassed = {}

Moves(p, place) == post' = [post EXCEPT ![p].at = place]
Answers(p) == post' = [post EXCEPT ![p] = NoPost]

\* INCR.  The fourth try of the minute is refused.
Submit(p, c, l, challenge) ==
    LET request == [at |-> IF tries[c] = 0 THEN "first" ELSE "counted",
                    client |-> c, lead |-> l, challenge |-> challenge]
    IN  /\ post[p] = NoPost
        /\ tries' = [tries EXCEPT ![c] = @ + 1]
        /\ post' = IF tries[c] < MaxTries THEN [post EXCEPT ![p] = request] ELSE post
        /\ UNCHANGED <<expiring, solved, taken, saved, lost, blocked, bypassed>>

\* EXPIRE, only after the INCR that made the key.
SetExpiry(p) ==
    /\ post[p].at = "first"
    /\ expiring' = expiring \cup {post[p].client}
    /\ Moves(p, "counted")
    /\ UNCHANGED <<tries, solved, taken, saved, lost, blocked, bypassed>>

\* verify_site_lead_captcha
CheckChallenge(p) ==
    /\ post[p].at = "counted"
    /\ solved' = solved \cup {post[p].challenge}
    /\ IF post[p].challenge \in solved THEN Answers(p) ELSE Moves(p, "proven")
    /\ UNCHANGED <<tries, expiring, taken, saved, lost, blocked, bypassed>>

\* Mutant: SET without NX.
NewLeadAlways(l) == l \in Leads

\* SET NX of the fingerprint.
NewLead(l) == l \notin taken

TakeKey(p) ==
    /\ post[p].at = "proven"
    /\ taken' = taken \cup {post[p].lead}
    /\ IF NewLead(post[p].lead) THEN Moves(p, "passed") ELSE Answers(p)
    /\ UNCHANGED <<tries, expiring, solved, saved, lost, blocked, bypassed>>

\* The lead is committed; the manager's message is best effort.
SaveLead(p) ==
    /\ post[p].at = "passed"
    /\ saved' = [saved EXCEPT ![post[p].lead] = @ + 1]
    /\ Answers(p)
    /\ UNCHANGED <<tries, expiring, solved, taken, lost, blocked, bypassed>>

\* A command of Redis fails.  In production the answer is 503; elsewhere a failure of
\* the challenge's key skips that key and any other failure skips the rest of the guard.
RedisFails(p) ==
    /\ post[p].at \in {"first", "counted", "proven"}
    /\ blocked' = IF post[p].at = "first" THEN blocked \cup {post[p].client} ELSE blocked
    /\ IF Production
       THEN Answers(p) /\ UNCHANGED bypassed
       ELSE /\ Moves(p, IF post[p].at = "counted" THEN "proven" ELSE "passed")
            /\ bypassed' = IF post[p].at = "counted" THEN bypassed
                           ELSE bypassed \cup {post[p].lead}
    /\ UNCHANGED <<tries, expiring, solved, taken, saved, lost>>

\* The process or the database fails.
PostDies(p) ==
    /\ post[p] # NoPost
    /\ blocked' = IF post[p].at = "first" THEN blocked \cup {post[p].client} ELSE blocked
    /\ lost' = IF post[p].at = "passed" THEN lost \cup {post[p].lead} ELSE lost
    /\ Answers(p)
    /\ UNCHANGED <<tries, expiring, solved, taken, saved, bypassed>>

MinuteEnds(c) ==
    /\ c \in expiring
    /\ tries' = [tries EXCEPT ![c] = 0] /\ expiring' = expiring \ {c}
    /\ UNCHANGED <<solved, taken, saved, post, lost, blocked, bypassed>>

\* No request lasts a day.
DayEnds(l) ==
    /\ l \in taken /\ \A p \in Posts : post[p] # NoPost => post[p].lead # l
    /\ taken' = taken \ {l} /\ saved' = [saved EXCEPT ![l] = 0]
    /\ lost' = lost \ {l} /\ bypassed' = bypassed \ {l}
    /\ UNCHANGED <<tries, expiring, solved, post, blocked>>

----------------------------------------------------------------------------
LeadArrives(p) ==
    \E c \in Clients, l \in Leads, challenge \in Challenges : Submit(p, c, l, challenge)

LeadContinues(p) ==
    SetExpiry(p) \/ CheckChallenge(p) \/ TakeKey(p) \/ SaveLead(p) \/ RedisFails(p) \/ PostDies(p)

LeadsPass == (\E c \in Clients : MinuteEnds(c)) \/ (\E l \in Leads : DayEnds(l))

LeadNext == LeadsPass \/ \E p \in Posts : LeadArrives(p) \/ LeadContinues(p)

LeadSpec == LeadInit /\ [][LeadNext]_leadVars

----------------------------------------------------------------------------
\* However requests overlap and fail, a lead whose fingerprint refuses all others is
\* saved or about to be, unless its request died in between (it is then refused for the
\* rest of the day); nothing is saved twice under one fingerprint, unless Redis failed;
\* and a client's counter runs out, unless its first request died before EXPIRE.
LeadsKept ==
    /\ \A l \in taken \ (lost \cup bypassed) :
          saved[l] = 1 \/ \E p \in Posts : post[p] # NoPost /\ post[p].at = "passed"
                                           /\ post[p].lead = l
    /\ \A l \in Leads \ bypassed : saved[l] <= 1
    /\ \A c \in Clients \ (expiring \cup blocked) : tries[c] > 0 =>
          \E p \in Posts : post[p] # NoPost /\ post[p].at = "first" /\ post[p].client = c
=============================================================================
