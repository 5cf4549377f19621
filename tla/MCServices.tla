------------------------------ MODULE MCServices ------------------------------
(* The services beside the live engine, one behaviour for each of them: what     *)
(* their modules describe shares no table and no process, so a behaviour is     *)
(* that of one service, its part, while the others rest.  The windows, caps and  *)
(* bounds are constants; the configurations give each service its shortest        *)
(* windows and two of whatever can be doubled.                                    *)
EXTENDS Integers, FiniteSets, TaskBuilders

CONSTANTS
  None, Parts,                        \* the services looked at
  Coins,                              \* of the lists and the ledger
  MaxRuns, MaxCrashes, MaxFaults,     \* bounds of several services
  StopLevel, Target1, Target2, Served,     \* levels of a trade; candles one request returns
  TaskHours, TaskTargets, Emitting, TaskScans, TaskBatch,                      \* "tasks"
  WaveCoins, Reach, Skip, SettleBars, HoldBars, Quarter, KeepBars, WaveEnd, MaxLag,\* "watch"
  ListExpiry, MaxTtl, Refresh,                                                \* "list"
  Horizons, PlanExpiry, Creations, LastHour,                                  \* "plan"
  StoreSymbols, Forks, MaxManual,                                             \* "store"
  LedgerEnd, Day,                                                             \* "ledger"
  Page, Newest, Span, DayBars, PastEnd,                                       \* "past"
  PoolWatch, Cadence, ReviewGap, OpenHours, MaxCands,                         \* "board"
  DeskPrices, Cap, Passing, TradeHours, MeetingGap, DeskEnd,                  \* "desk"
  CenterPrices, StartPrice, Timeout, Limit, Closings, CenterEnd, MaxMoves, CenterRows, \* "center"
  V2Candles, Window, HoldTime, MaxOpen, V2End, MaxSignals,                    \* "v2"
  ChatUpdates, PaperOnly, PollPage, MaxChat,                                  \* "chat"
  CopiedTables, Legacy, Own, MaxStarts                                        \* "copy"
VARIABLES
  part,
  active, now, rows, orders, events, compared, live, job, scans, paused, faults,   \* "tasks"
  time, broken, watched, call, emitted, watchFaults,               \* the part "watch"
  ranked, items, run, plans,                                       \* "list"
  halves, created, candles, check, outcomes,                       \* "plan"
  runs, snaps, saved, signals, proc, crashes,                      \* "store"
  clock, taken, booked, evals, trades, account, simulating, stops, \* "ledger"
  closed, have, ingest, universes, command, requests, ends,        \* "past"
  pool, reviews, last, review, due,                                \* "board"
  day, macro, commands, verdicts, failures,                        \* "desk"
  bars, moves, sources, results, center, centerFaults,             \* "center"
  tape, alerts, tickets, trail, worker, workerFaults,              \* "v2"
  chat, told, offset, batch, settings, handled, writeFaults, restarts, \* "chat"
  old, refused, pg, step, verdict, starts                          \* "copy"

Room == Cardinality(Coins) + 1    \* rows of the tables of observations and of trades
MCGroups == {{V3Tasks}, {RsdTasks}, {WaveLongTasks}, {ClassicTasks}, {KTasks}, {Sma120Tasks}}
Tasks == INSTANCE StrategyTasks WITH
  Groups <- MCGroups, Targets <- TaskTargets, Times <- TaskHours, MaxBatch <- TaskBatch, MaxScans <- TaskScans
Waves == INSTANCE WaveWatch WITH
  rows <- watched, faults <- watchFaults, Strategies <- {"wave", "rsd"}, Symbols <- WaveCoins,
  Settle <- SettleBars, Hold <- HoldBars, Keep <- KeepBars, MaxTime <- WaveEnd, MaxRows <- Room
List == INSTANCE HotWatch WITH Symbols <- Coins, Strategies <- {"v66", "v664"}, Expiry <- ListExpiry
Plan == INSTANCE HotOutcome WITH
  clock <- halves, bars <- candles, job <- check, Expiry <- PlanExpiry
Store == INSTANCE ScanStore WITH rows <- saved, Symbols <- StoreSymbols
Ledger == INSTANCE PaperLedger WITH
  scans <- taken, signals <- booked, crashes <- stops, Symbols <- Coins, MaxTime <- LedgerEnd
Past == INSTANCE History WITH
  now <- closed, job <- command, faults <- requests, crashes <- ends, MaxNow <- PastEnd
Board == INSTANCE Leaderboard WITH
  items <- pool, Symbols <- Coins, Watch <- PoolWatch, Cooldown <- ReviewGap, Timeout <- OpenHours
Desk == INSTANCE ResearchDesks WITH
  now <- day, trades <- macro, reviews <- verdicts, faults <- failures,
  Prices <- DeskPrices, Stop <- StopLevel, Expiry <- TradeHours, Cooldown <- MeetingGap, MaxTime <- DeskEnd, MaxRows <- Room
Center == INSTANCE PerformanceCenter WITH
  rows <- sources, faults <- centerFaults,
  Prices <- CenterPrices, Start <- StartPrice, Stop <- StopLevel, MaxBars <- CenterEnd, MaxRows <- CenterRows
V2 == INSTANCE V2Paper WITH
  signals <- alerts, orders <- tickets, events <- trail, task <- worker, faults <- workerFaults,
  Symbols <- Coins, Candles <- V2Candles, Hold <- HoldTime, MaxBars <- V2End
Chat == INSTANCE CommandServer WITH
  faults <- writeFaults, crashes <- restarts, Updates <- ChatUpdates, Page <- PollPage
Copy == INSTANCE Migration WITH Tables <- CopiedTables

\* The values no configuration can write.  Two strategies' rows, of which only sma120 takes the
\* paper commands.
MCTaskScans == [pipeline |-> 2, classic |-> 2, sma120 |-> 4]
MCReach == [wave |-> 1, rsd |-> 2]
MCSkip == [wave |-> 0, rsd |-> 1]
MCSettle == [wave |-> 1, rsd |-> 2]
MCHold == [wave |-> 3, rsd |-> 2]
MCExpiry == [v66 |-> 2, v664 |-> 5]
MCTtl == [v66 |-> 3, v664 |-> 5]
MCForks == <<"f", "g">>
MCTables == <<"orders", "events">>
Sent(admin, cmd, strategy, value) == [admin |-> admin, cmd |-> cmd, strategy |-> strategy, value |-> value]
MCUpdates == {Sent(TRUE, "dedup", "sma120", "12"), Sent(TRUE, "paper", "v3", "on"),
              Sent(TRUE, "paper", "sma120", "off"), Sent(TRUE, "livemode", "sma120", "on"),
              Sent(FALSE, "setlive", "v3", "9"), Sent(TRUE, "reset", "sma120", "")}

\* A task settles whatever it opens, and no two tasks open orders of the same strategy.
AllBuilders == {V3Tasks, V66Tasks, V662Tasks, V663Tasks, V664Tasks, ReversalTasks, WaveLongTasks,
                WaveShortTasks, RsdTasks, ClassicTasks, KTasks, Sma120Tasks}
OpenedBy(b) == (UNION {s.ids : s \in b.scans}) \cup UNION {{s.shadow[id] : id \in DOMAIN s.shadow} : s \in b.scans}
ASSUME ServicesAssumption ==
  /\ Tasks!StrategyTasksAssumption /\ Waves!WatchAssumption
  /\ List!HotWatchAssumption /\ Plan!HotOutcomeAssumption
ASSUME TasksAssumption ==
  /\ \A b, c \in AllBuilders : /\ OpenedBy(b) \subseteq ElementsOf(b.settle.ids)
                               /\ b # c => OpenedBy(b) \cap OpenedBy(c) = {}
  /\ IsFiniteSet(TaskTargets)

\* What the code makes sure of: the tasks give their rows ids the old file does not use.
ASSUME CopyAssumption ==
  /\ CopiedTables \in Seq(STRING) /\ MaxStarts \in Nat
  /\ IsFiniteSet(Legacy) /\ IsFiniteSet(Own) /\ Legacy \cap Own = {}
  /\ None \notin BOOLEAN /\ None \notin {"copied", "own"}

ASSUME BoardAssumption ==
  /\ IsFiniteSet(Coins) /\ None \notin Coins
  /\ PoolWatch \in Nat /\ Cadence \in Nat /\ OpenHours \in Nat
  /\ None \notin [status : {"NEW", "ACTIVE", "OPEN", "CLOSED", "EXPIRED"}, seen : 0..(PoolWatch + 1), moves : BOOLEAN]

ASSUME V2Assumption ==
  /\ Window \in Nat /\ HoldTime \in Nat /\ Served \in Nat /\ MaxOpen \in Nat
  /\ V2End \in Nat /\ MaxSignals \in Nat /\ MaxFaults \in Nat

ASSUME DeskAssumption ==
  /\ DeskEnd \in Nat /\ Cap \in Nat /\ Passing \in Nat /\ MaxFaults \in Nat

ASSUME CenterAssumption ==
  /\ CenterPrices \subseteq Nat /\ StartPrice \in CenterPrices
  /\ StopLevel \in Nat /\ Target1 \in Nat /\ Target2 \in Nat
  /\ Timeout \in Nat /\ Limit \in Nat /\ CenterEnd \in Nat \ {0} /\ MaxMoves \in Nat /\ CenterRows \in Nat

ASSUME StoreAssumption ==
  /\ MaxRuns \in Nat /\ MaxCrashes \in Nat
  /\ Forks \in Seq(STRING) /\ \A i \in DOMAIN Forks : Forks[i] # "manual"

ASSUME LedgerAssumption == LedgerEnd \in Nat /\ Day \in Nat

ASSUME PastAssumption ==
  /\ Page \in Nat \ {0} /\ Newest \in Nat /\ Span \in Nat /\ DayBars \in Nat \ {0} /\ PastEnd \in Nat

ASSUME ChatAssumption ==
  /\ PollPage \in Nat /\ MaxFaults \in Nat /\ MaxCrashes \in Nat
  /\ \A u \in ChatUpdates : u.value # None
  /\ None \notin [Chat!Fields -> {u.value : u \in ChatUpdates} \cup {None}]

tasksVars == <<active, now, rows, orders, events, compared, live, job, scans, paused, faults>>
watchVars == <<time, broken, watched, call, emitted, watchFaults>>
listVars == <<ranked, items, run, plans>>
planVars == <<halves, created, candles, check, outcomes>>
storeVars == <<runs, snaps, saved, signals, proc, crashes>>
ledgerVars == <<clock, taken, booked, evals, trades, account, simulating, stops>>
pastVars == <<closed, have, ingest, universes, command, requests, ends>>
boardVars == <<pool, reviews, last, review, due>>
deskVars == <<day, macro, commands, verdicts, failures>>
centerVars == <<bars, moves, sources, results, center, centerFaults>>
v2Vars == <<tape, alerts, tickets, trail, worker, workerFaults>>
chatVars == <<chat, told, offset, batch, settings, handled, writeFaults, restarts>>
copyVars == <<old, refused, pg, step, verdict, starts>>
all == <<part, tasksVars, watchVars, listVars, planVars, storeVars, ledgerVars,
         pastVars, boardVars, deskVars, centerVars, v2Vars, chatVars, copyVars>>
Is(p) == part = p

MCInit ==
  /\ part \in Parts
  /\ Tasks!Init /\ (~Is("tasks") => active = {V3Tasks})
  /\ Plan!Init /\ (~Is("plan") => created = 0)
  /\ Waves!Init /\ List!Init /\ Store!Init /\ Ledger!Init /\ Past!Init
  /\ Board!Init /\ Desk!Init /\ Center!Init /\ V2!Init /\ Chat!Init
  /\ Copy!Init /\ (~Is("copy") => refused = {} /\ \A t \in DOMAIN old : old[t] = {})

\* A step of the service whose behaviour this is; the others rest.
Turn(tasks, watch, list, plan, store, ledger, past, board, desk, aCenter, v2, aChat, copy) ==
  /\ part' = part
  /\ IF Is("tasks")  THEN tasks   ELSE UNCHANGED tasksVars
  /\ IF Is("watch")  THEN watch   ELSE UNCHANGED watchVars
  /\ IF Is("list")   THEN list    ELSE UNCHANGED listVars
  /\ IF Is("plan")   THEN plan    ELSE UNCHANGED planVars
  /\ IF Is("store")  THEN store   ELSE UNCHANGED storeVars
  /\ IF Is("ledger") THEN ledger  ELSE UNCHANGED ledgerVars
  /\ IF Is("past")   THEN past    ELSE UNCHANGED pastVars
  /\ IF Is("board")  THEN board   ELSE UNCHANGED boardVars
  /\ IF Is("desk")   THEN desk    ELSE UNCHANGED deskVars
  /\ IF Is("center") THEN aCenter ELSE UNCHANGED centerVars
  /\ IF Is("v2")     THEN v2      ELSE UNCHANGED v2Vars
  /\ IF Is("chat")   THEN aChat   ELSE UNCHANGED chatVars
  /\ IF Is("copy")   THEN copy    ELSE UNCHANGED copyVars

MCNext == Turn(Tasks!Next, Waves!Next, List!Next, Plan!Next, Store!Next, Ledger!Next, Past!Next,
               Board!Next, Desk!Next, Center!Next, V2!Next, Chat!Next, Copy!Next)

\* The fairness of every module.  As no behaviour changes its part, one condition holds one
\* fair action of each service, FALSE where a service has no more of them.
MCFairness ==
  /\ WF_all(Turn(Tasks!ScanStep, Waves!Tick, List!Review \/ List!BreakOff, FALSE, Store!Resume, Ledger!SimulateOne, FALSE,
                 Board!RunGemini, Desk!Tick, Center!Tick, \E candle \in V2Candles : V2!Tick(candle), Chat!Poll, FALSE))
  /\ WF_all(Turn(\E b \in active : Tasks!Settle(b), Waves!CallStep, FALSE, FALSE, FALSE, Ledger!EndSimulate, FALSE,
                 Board!SaveReview, Desk!SettleStart, Center!CenterBegin, V2!Step, Chat!Handle, FALSE))
  /\ WF_all(Turn(FALSE, FALSE, FALSE, FALSE, FALSE, FALSE, FALSE, Board!Tick, Desk!SettleOne, Center!CenterStep, FALSE, FALSE, FALSE))
  /\ SF_all(Turn(FALSE, Waves!StartCall("wave"), List!Start("v66"), FALSE, FALSE, Ledger!StartSimulate, FALSE,
                 FALSE, FALSE, Center!ImportEnd, V2!StartSettle, FALSE, FALSE))
  /\ SF_all(Turn(FALSE, Waves!StartCall("rsd"), List!Start("v664"), FALSE, FALSE, FALSE, FALSE, FALSE, FALSE, FALSE, FALSE,
                 FALSE, FALSE))
  /\ SF_all(Turn(FALSE, FALSE, \E r \in [Coins -> {1, 0, -1}] : List!Tick(r), FALSE, FALSE, FALSE, FALSE,
                 FALSE, FALSE, FALSE, FALSE, FALSE, FALSE))
MCSpec == MCInit /\ [][MCNext]_all
MCFairSpec == MCSpec /\ MCFairness

-----------------------------------------------------------------------------
\* The tables hold what their columns admit, and each service is at a known step.
ServicesTypeOK ==
  /\ Is("tasks") => Tasks!TypeOK
  /\ Is("watch") => Waves!TypeOK
  /\ Is("list") => List!TypeOK
  /\ Is("plan") => Plan!TypeOK
  /\ Is("store") => Store!TypeOK
  /\ Is("ledger") => Ledger!TypeOK
  /\ Is("past") => Past!TypeOK
  /\ Is("board") => Board!TypeOK
  /\ Is("desk") => Desk!TypeOK
  /\ Is("center") => Center!TypeOK
  /\ Is("v2") => V2!TypeOK
  /\ Is("chat") => Chat!TypeOK
  /\ Is("copy") => Copy!TypeOK

\* Nothing is done twice or beyond its cap: one open order of a strategy on a target and one in
\* its window, one observation of a coin, one booking of a signal, one universe a day, one open
\* recommendation, one handling of a command for each start, however scans, settlements, failures and restarts follow one another
\* (tasks.py, wave_watchlist, paper_trades, leaderboard_watch, v2/risk).
NoDoubles ==
  /\ Is("tasks") => Tasks!OneOpen /\ Tasks!OncePerWindow /\ Tasks!DailyKept
  /\ Is("watch") => Waves!OneWatching /\ Waves!FailedStaysOut
  /\ Is("ledger") => Ledger!Lineage
  /\ Is("past") => Past!DaySavedOnce
  /\ Is("board") => Board!OneOpenTrade
  /\ Is("desk") => Desk!OpenCapped /\ Desk!OneRecommendation
  /\ Is("v2") => V2!OrdersCapped /\ V2!SignalsApart
  /\ Is("chat") => Chat!RepeatsAreRestarts

\* What one table says agrees with the others and with the market it was read from: an order with
\* its event and its comparison, an entry with its observation, a verdict with the bars that
\* decide it, an account with its trades, a collection with the bars it stored, the settings with the
\* admins' last commands; what a failure left half done is one thing for each failure.
RecordsAgree ==
  /\ Is("tasks") => Tasks!OneHalfPerFault /\ Tasks!ShadowPairs /\ Tasks!LiveHasOrder
  /\ Is("watch") => Waves!EntryInTime /\ Waves!EnteredIsEmitted
  /\ Is("list") => List!PlansInTime /\ List!SeenLately
  /\ Is("plan") => Plan!WholeIsTruth /\ Plan!HorizonsAgree /\ Plan!NotBeforeTime
  /\ Is("store") => Store!NothingLeftOpen
  /\ Is("ledger") => Ledger!LedgerAgrees
  /\ Is("past") => Past!PassComplete /\ Past!LosesOneBar /\ Past!DaysAreWhole /\ Past!RunsAreClosed
  /\ Is("board") => Board!OpenHasReview
  /\ Is("center") => Center!FirstTouchCounts
  /\ Is("v2") => V2!TrailKept /\ V2!ClosedWasFilled
  /\ Is("chat") => Chat!LatestStands
  /\ Is("copy") => Copy!WholeOrNothing

\* What is final stays: a finalized snapshot with its rows, a coin kept away from the model, a
\* closed trade, a booked result, a migrated row that has moved on (sqlite_repository.py,
\* leaderboard_watch, ai_macro, performance, migration.py).
FinalStays == Store!FinalKept /\ Board!NeverAgain /\ Desk!NeverReopened /\ Center!ResultIsFinal /\ Copy!NewKept

\* Everything that was begun ends: an order held for its time is closed, an observation is over,
\* a coin no longer ranked leaves the list (one coin stands for all, they are alike), a command
\* is over, an outcome is booked, the model is asked again, trades, results and orders that are
\* due are decided.  Tables are bounded and their rows used once, so that there is always a
\* moment at which none of them waits.
Waiting ==
  \/ Is("tasks") /\ Tasks!Overdue
  \/ Is("watch") /\ Waves!Overdue
  \/ Is("list") /\ List!Leaving("a")
  \/ Is("store") /\ Store!Busy
  \/ Is("ledger") /\ Ledger!Pending # {}
  \/ Is("board") /\ Board!Idling
  \/ Is("desk") /\ Desk!Due
  \/ Is("center") /\ Center!Due
  \/ Is("v2") /\ V2!Due
  \/ Is("chat") /\ Chat!Unread
AllEnds == Waiting ~> ~Waiting

\* The further strategies share the market data of the baseline, only the filters differ
\* (config.py:48): the regime they are given is the run's.
StoreRegimeShared == Store!RegimeShared
=============================================================================
