SPECIFICATION Spec
CONSTANTS
    Procs = {p, q}
    TaskList <- TwoTasks
    Startup <- AtStart
    Interval <- Hours
    MaxTries = 2
    MaxStarts = 2
    MaxTime = 0
INVARIANTS
    OneRunner
