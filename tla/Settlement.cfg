SPECIFICATION FairSpec
CONSTANTS
    Orders = {o1}
    None = None
    Books <- TwoBooks
    Bars <- MixedBars
    Width = 2
    Limit = 8
    Hold = 3
    MinHold = 1
    MaxTicks = 7
    LastPlace = 1
    MaxLag = 1
    MaxFaults = 1
CHECK_DEADLOCK FALSE
INVARIANTS
    TypeOK
    FillIsReal
    TargetCameFirst
    StopCameFirst
    EventsFollowRows
PROPERTIES
    EventuallyClosed
