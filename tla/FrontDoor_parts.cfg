SPECIFICATION FrontSpec
CONSTANTS
    w1 = w1
    w2 = w2
    u1 = u1
    u2 = u2
    c1 = c1
    a1 = a1
    a2 = a2
    p1 = p1
    p2 = p2
    l1 = l1
    h1 = h1
    h2 = h2
    ip = ip
    NoOne = NoOne
    Nobody = Nobody
    Workers <- MCWorkers
    Sessions <- MCWorkers
    Desks <- MCWorkers
    Posts <- MCWorkers
    Updaters <- MCWorkers
    Targets <- MCTargets
    MaxFetches = 3
    Users <- MCUsers
    Staff <- MCUsers
    Campaigns <- MCCampaigns
    Admins <- MCAdmins
    Passwords <- MCPasswords
    Original = p1
    Leads <- MCLeads
    Challenges <- MCChallenges
    Clients <- MCClients
    Production = FALSE
    MaxTries = 2
    MaxVersion = 2
    Openings = 1
    Window = 1
    MaxOrders = 3
    LastMonth = 1
    MonthsPerYear = 2
    Largest = 2
    MaxRequests = 4
SYMMETRY MCSymmetry
INVARIANTS
    Consecutive
    NoMutualReferral
    SourcesAgree
    ReportsAddUp
    RevocationHolds
    OneManager
    LeadsKept
    PairsOfOneFetch
CHECK_DEADLOCK FALSE
