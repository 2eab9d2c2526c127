SPECIFICATION Spec
CONSTANTS
    r1 = r1
    r2 = r2
    r3 = r3
    NoOne = NoOne
    Requests <- MCRequests
    Kinds = {"text", "forward", "attachment"}
    Faults = {"lost", "crash", "slow"}
    MaxFaults = 2
SYMMETRY Symmetry
INVARIANTS
    CopiesExplained
    StatusHonest
    RetryPossible
PROPERTY SentStays
CHECK_DEADLOCK FALSE
