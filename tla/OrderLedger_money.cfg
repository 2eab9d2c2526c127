SPECIFICATION Spec
CONSTANTS
    ann = ann
    bob = bob
    max = max
    moe = moe
    t1 = t1
    t2 = t2
    p1 = p1
    p2 = p2
    Users = {ann}
    Staff = {}
    Orders = {t1, t2, p1}
    TokenOrders = {t1, t2}
    Sessions = {s1, s2}
    NoOne = NoOne
    OwnerOf <- MCOwnerOf
    AmountOf <- MCAmountOf
    ReferrerOf <- MCReferrerOf
    BonusOf <- MCBonusOf
    Funds <- MCFunds
    Amounts = {1}
    WithdrawLimit = 1
    MaxActive = 1
    MaxTotal = 1
    Requests = {"create", "transfer", "debit", "set"}
SYMMETRY SessionSymmetry
INVARIANTS
    NeverNegative
    BooksBalance
    OpenOrdersFunded
    OpenOrdersBounded
CHECK_DEADLOCK FALSE
