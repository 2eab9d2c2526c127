SPECIFICATION FairSpec
CONSTANTS
    ann = ann
    bob = bob
    max = max
    moe = moe
    t1 = t1
    t2 = t2
    p1 = p1
    p2 = p2
    Users = {ann, bob, max}
    Staff = {max}
    Orders = {t1, p1}
    TokenOrders = {t1}
    Sessions = {s1, s2}
    NoOne = NoOne
    OwnerOf <- MCOwnerOf
    AmountOf <- MCAmountOf
    ReferrerOf <- MCReferrerOf
    BonusOf <- MCBonusOf
    Funds <- MCFunds
    Amounts = {1}
    WithdrawLimit = 1
    MaxActive = 1
    MaxTotal = 2
    Requests = {"create", "take", "set", "usercancel"}
INVARIANTS
    SettledWithStatus
PROPERTIES
    ImplementsLifecycle
    RequestsEnd
CHECK_DEADLOCK FALSE
