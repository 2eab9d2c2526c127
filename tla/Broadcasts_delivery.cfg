SPECIFICATION FairSpec
CONSTANTS
    c1 = c1
    c2 = c2
    old = old
    new = new
    w1 = w1
    w2 = w2
    NoOne = NoOne
    Campaigns = {c1}
    Processes <- MCProcesses
    First = old
    Workers <- MCWorkers
    QueueSize = 2
    Audience = 2
    Batch = 2
    Failures = {"refused", "lost", "broken", "paid", "progress", "fetch", "commit", "exit"}
INVARIANTS
    RecipientsAccounted
    SilentWhenClosed
PROPERTIES
    ClosedOnce
    CampaignsEnd
CHECK_DEADLOCK FALSE
