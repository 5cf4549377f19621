SPECIFICATION FairSpec
CONSTANTS
    Procs = {p, q}
    TaskList <- TwoTasks
    Startup <- AtStart
    Interval <- Hours
    MaxTries = 2
    MaxStarts = 3
    MaxTime = 3
INVARIANTS
    TypeOK
    OwnEventOnly
    StartupServed
PROPERTIES
    Spaced
    CaughtUp
