SPECIFICATION MCSpec
CONSTANTS
    Parts = {"store"}
    Coins = {"a"}
    TaskHours = {0, 48}
    None = None
    MaxRuns = 2
    MaxCrashes = 1
    MaxFaults = 1
    StopLevel = 0
    Target1 = 2
    Target2 = 3
    Served = 2
    TaskTargets = {"a"}
    Emitting = {"hotlist_momentum_v3", "rsd_long", "rsd_short", "wave_long", "classic_c1", "classic_k1", "classic_k2", "xau_sma120"}
    TaskScans <- MCTaskScans
    TaskBatch = 2
    WaveCoins = {"a"}
    Reach <- MCReach
    Skip <- MCSkip
    SettleBars <- MCSettle
    HoldBars <- MCHold
    Quarter = 2
    KeepBars = 2
    WaveEnd = 5
    MaxLag = 1
    ListExpiry <- MCExpiry
    MaxTtl <- MCTtl
    Refresh = 1
    Horizons = {1, 2, 3}
    PlanExpiry = 2
    Creations = {0, 1}
    LastHour = 4
    StoreSymbols = {"a"}
    Forks <- MCForks
    MaxManual = 1
    LedgerEnd = 3
    Day = 2
    Page = 2
    Newest = 2
    Span = 4
    DayBars = 2
    PastEnd = 5
    PoolWatch = 1
    Cadence = 2
    ReviewGap = 2
    OpenHours = 3
    MaxCands = 1
    DeskPrices = {0, 1, 3}
    Cap = 2
    Passing = 2
    TradeHours = 1
    MeetingGap = 1
    DeskEnd = 2
    CenterPrices = {0, 1, 2, 3}
    StartPrice = 1
    Timeout = 2
    Limit = 2
    Closings = {"STOP"}
    CenterEnd = 4
    MaxMoves = 2
    CenterRows = 1
    V2Candles = {{"entry"}, {"entry", "stop"}, {"tp1"}}
    Window = 1
    HoldTime = 1
    MaxOpen = 2
    V2End = 2
    MaxSignals = 2
    ChatUpdates <- MCUpdates
    PaperOnly = {"sma120"}
    PollPage = 2
    MaxChat = 3
    CopiedTables <- MCTables
    Legacy = {1, 2}
    Own = {3, 4}
    MaxStarts = 2
CHECK_DEADLOCK FALSE
INVARIANTS
    StoreRegimeShared
