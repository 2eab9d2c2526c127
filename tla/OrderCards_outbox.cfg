SPECIFICATION FairSpec
CONSTANTS
    w1 = w1
    w2 = w2
    bot = bot
    other = other
    NoOne = NoOne
    Workers <- MCWorkers
    Handlers <- MCOneHandler
    Creator = bot
    Buttons = {"web"}
    Changes = {"processing"}
    MaxAttempts = 2
    Faults = {"timeout", "crash", "slow", "refusal", "outage"}
    MaxFaults = 2
INVARIANTS
    DuplicatesExplained
    CardIsHonest
PROPERTIES
    TasksEnd
CHECK_DEADLOCK FALSE
