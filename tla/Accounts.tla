------------------------------- MODULE Accounts -------------------------------
(***************************************************************************)
(* Where users come from (services/auth.py, attribution.py, referral.py,   *)
(* telegram/services/user_service.py): the first login writes the one      *)
(* source of a user, a link of a campaign leaves a touch, an order keeps   *)
(* the touch that brought it, and the reports of the marketing panel count *)
(* all three (modules/marketing).  Orders are numbered as OrderNumbers     *)
(* says; the month stands for every date.                                  *)
(*                                                                         *)
(* A request reads what others have committed, decides, and commits.  Two  *)
(* of them that write the row of one user wait for each other.             *)
(***************************************************************************)
EXTENDS OrderNumbers

CONSTANTS
    Users, Campaigns,
    Openings,   \* how often a user opens the Mini App by one link
    Window      \* marketing_attribution_window_days, in months

ASSUME AccountConstants ==
    /\ Window \in Nat /\ Openings \in Nat
    /\ Users \cap Campaigns = {}
    /\ ({"none", "bad", "missing", "direct"} \cup {NoOne}) \cap (Users \cup Campaigns) = {}

VARIABLES
    registered,  \* the users there are
    source,      \* UserAcquisitions: the user or campaign that brought each, or how
    since,       \* the month of that row
    touches,     \* MarketingTouches in the order of their ids
    campaign,    \* MarketingCampaigns.status
    spent,       \* Redis: the Mini App data that were used
    visit,       \* what each session does for which user, and what it decided
    buyer,       \* the user whose order a session creates
    attributed,  \* OrderAttributions, in the order of the orders
    crossed      \* history: users who bound an inviter while the inviter did too

accountVars == <<registered, source, since, touches, campaign, spent, visit, crossed>>
orderingVars == <<vars, buyer, attributed>>

\* What a start parameter may say: nothing, a code nobody has, the code of a user or
\* that of a campaign.
Links == {"none", "bad"} \cup Users \cup Campaigns
Origins == {"missing", "direct"} \cup Users \cup Campaigns

\* A campaign brings users while it is active: not as a draft, paused or archived.
Statuses == {"active", "inactive"}

Away == [at |-> "away", user |-> NoOne, link |-> "none", fresh |-> FALSE,
         origin |-> "missing", touch |-> "none"]

AccountTypeOK ==
    /\ registered \subseteq Users
    /\ source \in [Users -> Origins] /\ since \in [Users -> Months]
    /\ touches \in Seq([user : Users, campaign : Campaigns, state : {"new", "returning"},
                        at : Months])
    /\ campaign \in [Campaigns -> {"absent"} \cup Statuses]
    /\ spent \subseteq Users \X Links \X (1..Openings)
    /\ visit \in [Sessions -> [at : {"away", "asking", "starting", "found", "decided", "binding"},
                               user : Users \cup {NoOne}, link : Links, fresh : BOOLEAN,
                               origin : Origins, touch : {"none", "new", "returning"}]]
    /\ buyer \in [Sessions -> Users \cup {NoOne}]
    /\ attributed \in Seq([user : Users \cup {NoOne}, campaign : Campaigns \cup {NoOne},
                           touch : Nat, type : {"none", "acquisition", "reengagement"}])
    /\ Len(attributed) = Len(orders)
    /\ crossed \subseteq Users

AccountInit ==
    /\ registered = {} /\ source = [u \in Users |-> "missing"] /\ since = [u \in Users |-> 0]
    /\ touches = <<>> /\ campaign = [c \in Campaigns |-> "absent"]
    /\ spent = {} /\ visit = [s \in Sessions |-> Away]
    /\ buyer = [s \in Sessions |-> NoOne] /\ attributed = <<>>
    /\ crossed = {}

Goes(s, place) == visit' = [visit EXCEPT ![s].at = place]
Leaves(s) == visit' = [visit EXCEPT ![s] = Away]
Comes(s, visitor) == visit[s] = Away /\ visit' = [visit EXCEPT ![s] = visitor]

\* Nobody else has written the row of the user and not committed yet.
RowFree(u) == \A s \in Sessions : visit[s].at \in {"found", "decided"} => visit[s].user # u

----------------------------------------------------------------------------
(* Logins. *)

\* telegram_auth: the data of one opening are accepted once.
OpenMiniApp(s, u, link, n) ==
    /\ <<u, link, n>> \notin spent
    /\ spent' = spent \cup {<<u, link, n>>}
    /\ Comes(s, [Away EXCEPT !.at = "asking", !.user = u, !.link = link])
    /\ UNCHANGED <<registered, source, since, touches, campaign, crossed>>

\* A message to the bot: check_user.
StartBot(s, u) ==
    /\ u \notin registered
    /\ Comes(s, [Away EXCEPT !.at = "starting", !.user = u])
    /\ UNCHANGED <<registered, source, since, touches, campaign, spent, crossed>>

\* find_or_create: the row is locked, or inserted; who loses the race finds it.
FindUser(s) ==
    /\ visit[s].at \in {"asking", "starting"} /\ RowFree(visit[s].user)
    /\ visit' = [visit EXCEPT ![s].at = "found", ![s].fresh = visit[s].user \notin registered]
    /\ UNCHANGED <<registered, source, since, touches, campaign, spent, crossed>>

\* Mutant: whoever is invited by somebody may still invite them.
InvitableAnyway(u, r) == r \in registered \ {u}

\* bind_referral: the inviter exists, is another one, and was not invited by the user.
Invitable(u, r) == r \in registered \ {u} /\ source[r] # u

\* The source a new user gets.  A code of an inviter that is refused leaves none.
OriginOf(u, link) ==
    CASE link \in Users -> IF Invitable(u, link) THEN link ELSE "missing"
      [] link = "bad" -> "missing"
      [] link \in Campaigns -> IF campaign[link] = "active" THEN link ELSE "direct"
      [] OTHER -> "direct"

\* Mutant: whoever has no source counts as new.
TouchStateUnsourced(u, link, fresh) ==
    IF fresh \/ source[u] \in {link, "missing"} THEN "new" ELSE "returning"

\* A touch counts as new in the first login and, later, for the campaign of the source.
TouchState(u, link, fresh) == IF fresh \/ source[u] = link THEN "new" ELSE "returning"

Decide(s) ==
    LET v == visit[s]
        touched == v.link \in Campaigns /\ campaign[v.link] = "active"
    IN  /\ v.at = "found"
        /\ visit' = [visit EXCEPT
              ![s].at = "decided",
              ![s].origin = IF v.fresh THEN OriginOf(v.user, v.link) ELSE "missing",
              ![s].touch = IF touched THEN TouchState(v.user, v.link, v.fresh) ELSE "none"]
        /\ UNCHANGED <<registered, source, since, touches, campaign, spent, crossed>>

\* POST /referral/bind: a user without a source names an inviter.
BindLater(s, u, r) ==
    /\ u \in registered /\ source[u] = "missing" /\ Invitable(u, r)
    /\ Comes(s, [Away EXCEPT !.at = "binding", !.user = u, !.link = r, !.origin = r])
    /\ crossed' = crossed \cup
          UNION {{u, r} : t \in {t \in Sessions : visit[t].at = "binding" /\ visit[t].user = r
                                                  /\ visit[t].origin = u}}
    /\ UNCHANGED <<registered, source, since, touches, campaign, spent>>

\* The transaction is committed; a source that is there already stays.
CommitVisit(s) ==
    LET v == visit[s]
        first == source[v.user] = "missing" /\ v.origin # "missing"
    IN  /\ v.at \in {"decided", "binding"}
        /\ registered' = registered \cup {v.user}
        /\ source' = IF first THEN [source EXCEPT ![v.user] = v.origin] ELSE source
        /\ since' = IF first THEN [since EXCEPT ![v.user] = now] ELSE since
        /\ touches' = IF v.touch = "none" THEN touches
                      ELSE Append(touches, [user |-> v.user, campaign |-> v.link,
                                            state |-> v.touch, at |-> now])
        /\ Leaves(s)
        /\ UNCHANGED <<campaign, spent, crossed>>

\* An error or a crash: nothing is kept but that the data were used.
FailVisit(s) ==
    /\ visit[s].at # "away" /\ Leaves(s)
    /\ UNCHANGED <<registered, source, since, touches, campaign, spent, crossed>>

\* The marketing panel saves a campaign under the code it generated, in any status, or
\* changes the status of one, back to active too.
SetCampaign(c, status) ==
    /\ campaign[c] # status
    /\ campaign' = [campaign EXCEPT ![c] = status]
    /\ UNCHANGED <<registered, source, since, touches, spent, visit, crossed>>

----------------------------------------------------------------------------
(* Orders and reports. *)

\* Which touches count for an order, and the latest of them: the last one of its month.
Recent(u, month) ==
    {i \in DOMAIN touches : /\ touches[i].user = u
                            /\ touches[i].at <= month /\ month <= touches[i].at + Window}
LatestTouch(S) ==
    CHOOSE i \in S : \A k \in S :
        touches[k].at < touches[i].at \/ (touches[k].at = touches[i].at /\ k <= i)

\* resolve_order_attribution
AttributionOf(u, month) ==
    IF Recent(u, month) = {}
    THEN [user |-> u, campaign |-> NoOne, touch |-> 0, type |-> "none"]
    ELSE LET t == LatestTouch(Recent(u, month))
         IN  [user |-> u, campaign |-> touches[t].campaign, touch |-> t,
              type |-> IF touches[t].state = "new" THEN "acquisition" ELSE "reengagement"]

BeginOrder(s, u) ==
    /\ u \in registered /\ Begin(s)
    /\ buyer' = [buyer EXCEPT ![s] = u] /\ UNCHANGED attributed

ContinueOrder(s) == (Read(s) \/ Write(s)) /\ UNCHANGED <<buyer, attributed>>

FailOrder(s) == Rollback(s) /\ buyer' = [buyer EXCEPT ![s] = NoOne] /\ UNCHANGED attributed

CommitOrder(s) ==
    /\ Commit(s)
    /\ attributed' = Append(attributed, AttributionOf(buyer[s], session[s].month))
    /\ buyer' = [buyer EXCEPT ![s] = NoOne]

\* Mutant: the day after the last one is in the report.
WithinInclusive(at, from, to) == from <= at /\ at <= to + 1

\* A report goes from the beginning of its first day to the end of its last one.
Within(at, from, to) == from <= at /\ at < to + 1

Won(C, from, to) == {u \in Users : source[u] \in C /\ Within(since[u], from, to)}
Touched(C, from, to) ==
    {i \in DOMAIN touches : touches[i].campaign \in C /\ Within(touches[i].at, from, to)}
Ordered(C, from, to) ==
    {i \in DOMAIN orders : attributed[i].campaign \in C /\ Within(orders[i].month, from, to)}
Touchers(S) == {touches[i].user : i \in S}
Buyers(S) == {attributed[i].user : i \in S}
Returning(S) == Touchers({i \in S : touches[i].state = "returning"})
OfType(S, type) == {i \in S : attributed[i].type = type}

\* application_report: the row of a campaign.
Report(c, from, to) ==
    LET touched == Touched({c}, from, to)
        ordered == Ordered({c}, from, to)
    IN  [newUsers |-> Cardinality(Won({c}, from, to)),
         returning |-> Cardinality(Returning(touched)),
         touches |-> Cardinality(touched),
         touchedUsers |-> Cardinality(Touchers(touched)),
         applications |-> Cardinality(ordered),
         applicants |-> Cardinality(Buyers(ordered)),
         newApplications |-> Cardinality(OfType(ordered, "acquisition")),
         newApplicants |-> Cardinality(Buyers(OfType(ordered, "acquisition"))),
         returningApplications |-> Cardinality(OfType(ordered, "reengagement"))]

\* campaign_aggregates: what the list of campaigns says, without dates.
Aggregates(c) ==
    LET touched == {i \in DOMAIN touches : touches[i].campaign = c}
    IN  [newUsers |-> Cardinality({u \in Users : source[u] = c}),
         returning |-> Cardinality(Returning(touched)),
         touches |-> Cardinality(touched),
         touchedUsers |-> Cardinality(Touchers(touched)),
         applications |-> Cardinality({i \in DOMAIN attributed : attributed[i].campaign = c})]

\* daily_series: the bars of the dashboard, grouped by date.
Series(C, date) ==
    LET touched == {i \in DOMAIN touches : touches[i].campaign \in C /\ touches[i].at = date}
    IN  [newUsers |-> Cardinality({u \in Users : source[u] \in C /\ since[u] = date}),
         touches |-> Cardinality(touched),
         returning |-> Cardinality(Returning(touched)),
         applications |-> Cardinality({i \in DOMAIN orders : attributed[i].campaign \in C
                                                             /\ orders[i].month = date})]

\* dashboard_unique_counts: users of all campaigns together.
UniqueCounts(C, from, to) ==
    [touchedUsers |-> Cardinality(Touchers(Touched(C, from, to))),
     returning |-> Cardinality(Returning(Touched(C, from, to))),
     applicants |-> Cardinality(Buyers(Ordered(C, from, to)))]

\* application_attribution_rows: the orders one by one, each with its touch.
ApplicationRows(C, from, to) == {i \in Ordered(C, from, to) : attributed[i].touch # 0}

\* "hoursToApplication", in months.
Delay(i) == orders[i].month - touches[attributed[i].touch].at

\* What the numbers of f add up to, counted one by one.
Total(f) == Cardinality(UNION {{x} \X (1..f[x]) : x \in DOMAIN f})

\* The rows of the dashboard's campaigns, their sums, and the bars of its days.
Comparison(C, from, to) == [c \in C |-> Report(c, from, to)]
Summary(C, from, to) ==
    LET rows == Comparison(C, from, to)
    IN  [field \in {"newUsers", "touches", "applications"} |->
            Total([c \in C |-> rows[c][field]])]
Bars(C, from, to) == [date \in from..to |-> Series(C, date)]

\* admin_summaries: what the list of users says of one, its source, the campaign of the
\* latest touch and of the latest order.
UserCard(u) ==
    LET touched == {i \in DOMAIN touches : touches[i].user = u}
        ordered == {i \in DOMAIN attributed : attributed[i].user = u}
        latest == CHOOSE i \in ordered : \A k \in ordered : orders[k].month < orders[i].month
                                             \/ (orders[k].month = orders[i].month /\ k <= i)
    IN  [source |-> source[u],
         touched |-> IF touched = {} THEN NoOne ELSE touches[LatestTouch(touched)].campaign,
         ordered |-> IF ordered = {} THEN NoOne ELSE attributed[latest].campaign]

----------------------------------------------------------------------------
\* Two users never invite each other, unless they named each other at the same time.
NoMutualReferral ==
    \A u, r \in Users : source[u] = r /\ source[r] = u => u \in crossed

\* The source of a user, the touches and the orders tell one story however logins, the
\* bot, campaigns and orders overlap: every registered user whose first link was not a
\* refused code has a source; who came by a campaign has a new touch of it, new touches
\* are of the campaign of the source, and an order brought by an acquisition is, too.
SourcesAgree ==
    /\ \A u \in registered : source[u] = "missing" =>
          \E link \in {"bad"} \cup Users, n \in 1..Openings : <<u, link, n>> \in spent
    /\ \A u \in Users : source[u] \in Campaigns =>
          \E i \in DOMAIN touches :
              touches[i].user = u /\ touches[i].campaign = source[u] /\ touches[i].state = "new"
    /\ \A i \in DOMAIN touches :
          touches[i].state = "new" => source[touches[i].user] = touches[i].campaign
    /\ \A i \in DOMAIN attributed :
          attributed[i].type = "acquisition" => source[attributed[i].user] = attributed[i].campaign

\* The queries of the marketing panel agree, for any dates: the bars of the dashboard and
\* the listed orders add up to its summary, the report on the whole time is what the list
\* of campaigns and the list of users say, an order follows its touch within the window,
\* and no rate of the whole time exceeds 100 %.
ReportsAddUp ==
    /\ \A from, to \in Months : from <= to =>
          LET summary == Summary(Campaigns, from, to)
              bars == Bars(Campaigns, from, to)
              rows == ApplicationRows(Campaigns, from, to)
          IN  /\ \A field \in DOMAIN summary :
                    Total([date \in from..to |-> bars[date][field]]) = summary[field]
              /\ Cardinality(rows) = summary["applications"]
              /\ \A i \in rows : Delay(i) \in 0..Window
    /\ \A c \in Campaigns :
          LET whole == Report(c, 0, LastMonth)
              listed == Aggregates(c)
          IN  /\ \A field \in DOMAIN listed : whole[field] = listed[field]
              /\ whole.newApplications + whole.returningApplications = whole.applications
              /\ whole.newApplicants <= whole.newUsers
              /\ Cardinality({u \in Users : UserCard(u).source = c}) = whole.newUsers
              /\ Cardinality({u \in Users : UserCard(u).touched = c}) <= whole.touchedUsers
              /\ Cardinality({u \in Users : UserCard(u).ordered = c}) <= whole.applicants
    /\ LET unique == UniqueCounts(Campaigns, 0, LastMonth)
       IN  unique.applicants <= unique.touchedUsers /\ unique.returning <= unique.touchedUsers
=============================================================================
