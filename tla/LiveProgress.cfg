SPECIFICATION FairSpec
CONSTANTS
    Orders = {o1}
    Strategies = {s1}
    Symbols = {m}
    None = None
    Prices <- OnePrice
    AllowedDirs <- LongOnly
    MaxPending = 1
    MaxPositions = 1
    AttachRetries = 2
    MaxLegs = 3
    FaultKinds = {"reject", "timeout"}
    MaxFaults = 1
    MaxCrashes = 1
    MaxToggles = 1
INVARIANTS
    ClosedByItsLeg
PROPERTIES
    PendingResolves
    NakedRepaired
    CleanedUp
