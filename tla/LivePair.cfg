SPECIFICATION Spec
CONSTANTS
    Orders = {o1, o2}
    Strategies = {s1}
    Symbols = {m}
    None = None
    Prices <- TwoPrices
    AllowedDirs <- AnyDirection
    MaxPending = 1
    MaxPositions = 1
    AttachRetries = 1
    MaxLegs = 1
    FaultKinds = {}
    MaxFaults = 0
    MaxCrashes = 1
    MaxToggles = 0
SYMMETRY OrderSymmetry
INVARIANTS
    TypeOK
    OneActivePerSymbol
    HandlerUpToDate
    NothingUntracked
    EntriesCapped
PROPERTIES
    ImplementsLifecycle
