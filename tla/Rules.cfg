SPECIFICATION MCSpec
CONSTANTS
 Bars <- WaveBars
 Trends <- WaveTrends
 Hours <- WaveHours
 Quarters <- WaveQuarters
 Levels = {99, 101}
 None = None
CHECK_DEADLOCK FALSE
INVARIANTS PlansSound SidesMirrored WatchAgrees CopiesAgree CutsKeepBest PastIsPast
