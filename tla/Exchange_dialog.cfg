SPECIFICATION Spec
CONSTANTS
    thailand = thailand
    georgia = georgia
    bangkok = bangkok
    h1 = h1
    h2 = h2
    u1 = u1
    thb = thb
    gel = gel
    None = None
    Handlers <- MCHandlers
    Updaters <- MCUpdaters
    Targets <- MCTargets
    Countries <- MCCountries
    Cities <- MCCities
    Buys <- MCBuys
    CityCountry <- MCCityCountry
    UserCity = bangkok
    Sells = {"RUB"}
    Amounts = {1, 2}
    MinAmount <- MCMinAmount
    FreeDelivery = 2
    Grid = 10
    Coin = 2
    FreeFrom = 43
    DeliveryUsdt = 1
    Prices = {3, 4, 7, 9}
    LargestPayout = 45
    MaxFetches = 1
    MaxSummaries = 2
    MaxFaults = 1
SYMMETRY MCSymmetry
INVARIANTS
    OneOrderPerSummary
    OrderAsShown
    NoSilentOfflineOrder
    QuotesAgree
CHECK_DEADLOCK FALSE
