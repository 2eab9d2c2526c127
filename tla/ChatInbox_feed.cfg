SPECIFICATION FairSpec
CONSTANTS
    old_process = old_process
    new_process = new_process
    m1 = m1
    m2 = m2
    Processes <- MCProcesses
    Messages <- MCMessages
    Updates <- MCUpdates
    Faults = {"crash", "capture", "publish", "conflict", "send", "redis", "delete"}
    MaxFaults = 1
INVARIANTS
    ConfirmedIsKept
    UnreadExplained
    OneNotification
PROPERTIES
    FeedDrains
CHECK_DEADLOCK FALSE
