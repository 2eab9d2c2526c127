SPECIFICATION FairSpec
CONSTANTS
    old = old
    new = new
    NoOne = NoOne
    Processes <- MCProcesses
    Ttl = 3
    Faults = {"crash", "fatal", "stall", "redis", "flush"}
    MaxFaults = 2
INVARIANTS
    OnlyOwnerPolls
PROPERTIES
    IntrudersLeave
    Takeover
CHECK_DEADLOCK FALSE
