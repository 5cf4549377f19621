SPECIFICATION MCSpec
CONSTANTS
    a = a
    b = b
    Symbols = {a, b}
    Prices = {40, 51}
    Capital = 120
    MaxPositions = 1
    MaxNewPerDay = 1
    PosPct = 90
    CashPct = 10
    CancelPct = 2
    HoldDays = 1
    OrderDays = 1
    Plans <- MCPlans
    Scans <- MCScans
    None = None
    Strategies = {"trend"}
    Scores = {70, 80}
    Top = 1
    Jump = 10
    Cooldown <- MCCooldown
    MinAge = 1
    MaxDay = 2
    MaxScans = 2
    MaxFaults = 1
    Rows = {1, 2}
    MaxCrashes = 1
CHECK_DEADLOCK FALSE
INVARIANTS
    StocksTypeOK
    BooksAgree
PROPERTIES
    NothingWaits
