SPECIFICATION FairSpec
CONSTANTS
    Targets = {a, b, c}
    None = None
    Stops = {"ok"}
    Caps = {1}
    Windows = {1, 2}
    MaxBatch = 2
    MaxIds = 3
    MaxTime = 2
    MaxFaults = 1
CHECK_DEADLOCK FALSE
INVARIANTS
    TypeOK
    OneOrderPerTarget
    DedupRespected
    OverfillBounded
PROPERTIES
    SignalsServed
