SPECIFICATION Spec
CONSTANTS
    w1 = w1
    w2 = w2
    bot = bot
    other = other
    NoOne = NoOne
    Workers <- MCOneWorker
    Handlers <- MCHandlers
    Creator = bot
    Buttons = {"web", "take", "close"}
    Changes = {"processing", "completed"}
    MaxAttempts = 2
    Faults = {"timeout", "crash", "deleted"}
    MaxFaults = 1
INVARIANTS
    CardsSettle
CHECK_DEADLOCK FALSE
