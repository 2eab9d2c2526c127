------------------------------ MODULE FrontDoor ------------------------------
(***************************************************************************)
(* What the processes of the API do besides orders and chats (main.py,     *)
(* api/routers): logins and orders of users with the campaigns that bring  *)
(* them, administrators, the form of the site, the updater of the rates.   *)
(* The four have no table and no key of Redis in common, so that their     *)
(* steps commute: a behaviour goes through one door.  A worker is a place  *)
(* among the requests in progress; MaxRequests bounds how many arrive.     *)
(***************************************************************************)
EXTENDS Accounts, AdminDesk, SiteLeads, Rates

CONSTANTS Workers, MaxRequests

ASSUME FrontConstants ==
    MaxRequests \in Nat /\ Workers \in {Sessions} \cap {Desks} \cap {Posts} \cap {Updaters}

VARIABLES
    door,     \* whose requests these are
    requests  \* how many have arrived

users == <<accountVars, orderingVars>>
frontVars == <<users, deskVars, leadVars, rateVars, door, requests>>

FrontInit ==
    /\ Init /\ AccountInit /\ DeskInit /\ LeadInit /\ RateInit
    /\ door \in {"users", "admins", "site", "rates"} /\ requests = 0
    /\ door # "admins" => \A a \in Admins : ~account[a].legacy

Arrives == requests < MaxRequests /\ requests' = requests + 1
Stays == UNCHANGED requests

UserArrives(w) ==
    \/ /\ session[w] = Idle
       /\ \/ \E u \in Users, link \in Links, n \in 1..Openings : OpenMiniApp(w, u, link, n)
          \/ \E u \in Users : StartBot(w, u)
          \/ \E u, r \in Users : BindLater(w, u, r)
       /\ UNCHANGED orderingVars
    \/ visit[w] = Away /\ (\E u \in Users : BeginOrder(w, u)) /\ UNCHANGED accountVars

UserContinues(w) ==
    \/ /\ FindUser(w) \/ Decide(w) \/ CommitVisit(w) \/ FailVisit(w)
       /\ UNCHANGED orderingVars
    \/ /\ ContinueOrder(w) \/ CommitOrder(w) \/ FailOrder(w)
       /\ UNCHANGED accountVars

\* What happens without a request of a user: the panel saves campaigns, time passes.
UsersPass ==
    \/ \E c \in Campaigns, status \in Statuses :
          SetCampaign(c, status) /\ UNCHANGED orderingVars
    \/ MonthEnds /\ UNCHANGED <<buyer, attributed, accountVars>>

UserDoor ==
    /\ door = "users" /\ UNCHANGED <<deskVars, leadVars, rateVars, door>>
    /\ \/ \E w \in Workers : (Arrives /\ UserArrives(w)) \/ (Stays /\ UserContinues(w))
       \/ Stays /\ UsersPass

AdminDoor ==
    /\ door = "admins" /\ UNCHANGED <<users, leadVars, rateVars, door>>
    /\ \/ \E w \in Workers : (Arrives /\ AdminArrives(w)) \/ (Stays /\ AdminContinues(w))
       \/ Stays /\ \E u \in Staff : RevokeRole(u)

SiteDoor ==
    /\ door = "site" /\ UNCHANGED <<users, deskVars, rateVars, door>>
    /\ \/ \E w \in Workers : (Arrives /\ LeadArrives(w)) \/ (Stays /\ LeadContinues(w))
       \/ Stays /\ LeadsPass

RateDoor ==
    /\ door = "rates" /\ RateNext
    /\ UNCHANGED <<users, deskVars, leadVars, door, requests>>

FrontNext == UserDoor \/ AdminDoor \/ SiteDoor \/ RateDoor

FrontSpec == FrontInit /\ [][FrontNext]_frontVars
=============================================================================
