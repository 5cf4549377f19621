SPECIFICATION Spec
CONSTANTS
    Orders = {o1, o2}
    Strategies = {s1}
    Symbols = {m}
    None = None
    Prices <- TwoPrices
    AllowedDirs <- LongOnly
    MaxPending = 2
    MaxPositions = 2
    AttachRetries = 1
    MaxLegs = 1
    FaultKinds = {}
    MaxFaults = 0
    MaxCrashes = 0
    MaxToggles = 0
SYMMETRY OrderSymmetry
INVARIANTS
    NoPyramiding
