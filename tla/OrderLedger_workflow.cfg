SPECIFICATION Spec
CONSTANTS
    ann = ann
    bob = bob
    max = max
    moe = moe
    t1 = t1
    t2 = t2
    p1 = p1
    p2 = p2
    Users = {ann, max, moe}
    Staff = {max, moe}
    Orders = {p1}
    TokenOrders = {}
    Sessions = {s1, s2, s3}
    NoOne = NoOne
    OwnerOf <- MCOwnerOf
    AmountOf <- MCAmountOf
    ReferrerOf <- MCReferrerOf
    BonusOf <- MCBonusOf
    Funds <- MCFunds
    Amounts = {1}
    WithdrawLimit = 1
    MaxActive = 1
    MaxTotal = 2
    Requests = {"create", "take", "set", "usercancel", "role"}
SYMMETRY SessionSymmetry
INVARIANTS
    OutboxFollowsStatus
PROPERTIES
    ManagerKeepsOrders
CHECK_DEADLOCK FALSE
