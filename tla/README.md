# TLA+ models of the Binance AI trader

The repository runs one process, `run_server.py`, that scans Binance futures for
signals, trades them on paper and mirrors some strategies to a real futures
account. Beside it stand the command line of version 1 (scans, research desks,
back-tests), version 2's paper trading and a second program, us-stock-hunter.
These modules model what of this decides, trades or keeps records; paths below
are relative to `src/binance_ai_trader/` of the repository unless they begin
with `us-stock-hunter/`.

## The system

The core, where money is:

| component | state it keeps | operations | modelled in |
|---|---|---|---|
| live mirror engine `v3/live/engine.py` | none of its own; `live_orders` and the exchange | `try_place`, `sync_all` (expire, pending, filled), `cleanup_dangling_algo_orders` | `LiveMirror` |
| order manager `v3/live/order_manager.py` | none | `resolve`, the decision table | `LiveMirror` |
| live order repository `v3/live/repository.py` | table `live_orders` | save, status updates, queries by status and symbol | `LiveMirror` |
| futures client `v3/live/client.py` | the account at Binance | place, cancel and read entries, SL/TP algo orders, positions | `LiveMirror` |
| paper orders `v3/paper/repository.py` | `v3_paper_orders`, `v3_order_events` | save, fill, settle, expire, move stop, append event | `PaperSettlement` |
| settler `v3/settlement/settler.py` | none | `settle_all` over the candles of a symbol | `PaperSettlement` |
| pipeline `v3/pipeline.py`, `v3/risk`, `v3/dedup`, `v3/candidates`, `v3/push_queue` | `v3_candidates`, `v3_signal_id_seq`, `v3_push_queue` | stop filter, risk check, dedup check, save, enqueue | `SignalPipeline` |
| task builders `v3/runner/tasks.py` | `classic_signal_log` and the order tables | scan, shadow, comparison, settle, live sync of twelve builders | `TaskBuilders`, `StrategyTasks` |
| runner `runner/engine.py`, `run_server.py` | `runner_events`, the lock file | lock, orphan cleanup, tick, schedules | `ProductionRunner` |
| commands `v3/telegram/command_server.py`, settings `v3/settings/repository.py` | `v3_runtime_settings`, an offset in memory | poll, handle, the commands that write | `CommandServer` |
| migration `v3/storage/migration.py` | copies of the old SQLite tables | `run_migration` at every start | `Migration` |

What decides on a trade, as operators over bars, lists and scores:

| component | modelled in |
|---|---|
| indicators of `v3/strategies`, `classic` | `Indicators` |
| breakout strategies `v3/strategies/wave_*`; their watchlist | `WaveRules`; `WaveWatch` |
| divergence strategies `v3/strategies/rsd_*` | `RsdRules` (watchlist: `WaveWatch`) |
| reversal strategy `v3/strategies/reversal*` | `ReversalRules` |
| classic strategies `classic/` | `ClassicRules` |
| hot list `hotlist/`, `v3/strategies/v66*`; its watchlist; its verdicts | `HotRules`; `HotWatch`; `HotOutcome` |
| gold strategy `sma120/`, macro score `ai_macro/score_engine.py` | `GoldRules` |
| common score `v3/scoring/` | `ScoreRules` |
| regimes, sectors, signals of version 1 `regime`, `sectors`, `signals` | `SignalRules` |
| evaluation, replay, walk-forward `evaluation`, `backtest`, `walk_forward` | `ReplayRules` |

What keeps records and trades on paper outside the core:

| component | modelled in |
|---|---|
| scan and its SQLite store `entrypoints/cli.py`, `infrastructure/sqlite_repository.py` | `ScanStore` |
| paper account of version 1 `paper/service.py` | `PaperLedger` |
| history collection `application/collect_history.py` | `History` |
| leaderboard watch `leaderboard_watch/` | `Leaderboard` |
| AI macro trader and Gemini committee `ai_macro/`, `gemini_committee/` | `ResearchDesks` |
| performance center `performance_center/` | `PerformanceCenter` |
| version 2 `v2/` | `V2Paper` |
| us-stock-hunter: fund; scan; rules of a stock | `PaperFund`; `StockScan`; `StockSignals` |

`PROJECT.json` lists the components one by one with what each model leaves out,
and the five that are not modelled.

How they interact. All tasks run one after the other in the runner's thread. The
Telegram command thread writes settings at any moment, the exchange fills and
triggers orders at any moment, people close positions and cancel orders by hand,
and the process may end between any two calls. Each repository call is a
transaction of its own, so is each exchange call. A scan makes candidates, the
pipeline gates them, the scan task makes a paper order for each and asks the live
mirror for a real one; settlement closes paper orders from candles, the live sync
closes live rows from what the exchange says. Paper and live rows are never
reconciled. The services outside the core each have tables of their own and are
driven by runner tasks or by commands; the performance center reads the tables
of three others.

What is hard here: rows read before exchange calls and written after them, calls
that took effect without an answer, restarts between the exchange and the table,
decisions on candles that precede the order, chains of separate transactions per
signal, two processes at a redeployment, rules written twice (long and short,
first and second version, scan and replay) that must agree, and tables that
several strategies write with times of their own. `PROJECT.json` lists each such
hazard at its line with the property that covers it.

What makes each part correct, in a sentence each: the live mirror keeps one
order at work per strategy and symbol, knows every order it has on the exchange
and closes rows for the reason they were closed; settlement gives an order the
outcome its candles show, once, and always in the end; the pipeline neither
repeats nor drops a signal and keeps to its limits; the runner is alone, keeps
intervals across restarts and starves no task; a strategy's plan can be traded,
its mirror image decides alike and its copies agree with it; a service does
nothing twice, its tables agree with each other and with the market, and what it
began ends.

## Modules

The core, one module per component:

- `LiveMirror` - `row` is the table, `ent`, `leg` and `pos` the account, `sig`
  what each order id was made for, `live` the switch, `job` the handler under
  way. One action per exchange call or table write of a handler; `Outcome` says
  what a call may answer and whether it took effect. `Resolve` is the order
  manager's decision table as a function of the orders at work and the new
  candidate: FILLED rules before PENDING ones, prices compared with the margin
  of the code. `World` is everything the code does not decide: fills, triggers, manual actions, `/livemode`, crashes.
- `OrderLifecycle` - the abstract specification of `live_orders`: the statuses a
  row may pass through and the exclusive booking per strategy and symbol.
  `LiveMirror` implements it under `status <- [o |-> row[o].status]`.
- `PaperSettlement` - `tape` is the market as 1m bars over the four price levels
  an order tells apart (stop, entry, trigger, target); `Candles` groups them in
  15m candles, keeps the last `Limit` of them and leaves the open one out, as the
  client does. A settle pass reads the time once, takes the orders one by one,
  and writes rows and events in separate steps. Three kinds of order: plain,
  reversal, and sma120, whose metadata sends it down the reversal path.
- `SignalPipeline` - a scan from the settings it reads to the messages it sends,
  with one step per transaction: gate, save, enqueue for each candidate, then
  order, send and mark for each pushed one.
- `ProductionRunner` - processes that start, take the lock of an inode, clean up
  orphaned events and tick. Removing the lock file changes `file`, not the locks
  that are held: that is what `flock` does. `shared` is a history variable, true
  once two processes have held a lock at a time.

Rules. A rule module has one variable, `case`: a step picks one input (the bars
of a coin, a list of coins, a score) and the invariants speak of what the
operators make of it. Periods and lengths are the record `Bars`, prices are
whole numbers, means and ratios exact fractions. A `side` of 1 or -1 is used where the
code is one rule with a direction, and two definitions where it is written
twice, so that the mirror properties compare what is there.

Services. Their variables are the tables, the clock or the bars, and one record
for the command or task under way (`job`, `run`, `proc`, ...) with the step it
is at; an action is one transaction or one answer of the outside. Crashes drop
that record, failures leave the step out; each is counted and bounded.
`TaskBuilders` is data: the twelve builders as rows of what they differ in, which
`StrategyTasks` interprets. Rows a command has read and will work through one by one
are the set of their numbers, `Oldest` the next one, as the queries order them.

The MC modules give the constants their values; those of `MCServices` and `MCStocks`
leave them to the configurations, so that theorems about the composition hold for
all of them. `MCRules` and `MCServices`
compose: `MCRules` has the rule modules share the variable `case`, `MCServices`
and `MCStocks` have a variable `part` that picks the service a behaviour is
about, because these services share no table; what is shared (the wave and rsd
strategies on one watchlist, four hot-list strategies on another, the commands
of one desk) is inside a module. Their properties are named conjunctions of
the modules' own:

| composite | conjuncts |
|---|---|
| `PlansSound` | `WavePlanSound` `StopBehindRetest` `RsdPlanSound` `ClassicPlanSound` `HotPlanSound` `StopBehindLevel` `TargetsPay` `StopBehindAverage` `WideStopsFail` |
| `SidesMirrored` | `MirrorImage` `ScoreHasNoSide` `RegimeMirrored` `GoldMirrored` |
| `WatchAgrees` | `BreakoutSurvives` `WatchIsTheBreak` `SpikeStandsOut` |
| `CopiesAgree` | `LooserTakesToo` `ShadowOnlyAdds` `FunnelExplains` `MappingKeepsOrder` `ReplayIsTheScan` `ReclaimIsPullback` |
| `CutsKeepBest` | `CycleKeepsBest` `OnlyBreakoutOpposes` `LiveComesFirst` `StricterIsStricter` `OneRowPerCoin` `BlindIsNeverBest` `FocusIsSound` `ScoreMonotone` |
| `PastIsPast` | `VerdictStands` `NothingLeaks` |
| `BooksAgree` | `SlotsKept` `OnePositionPerOrder` `NoShareSoldTwice` `CashMatchesTrades` `CashCovers` `CooldownKept` `RepeatsAreFaults` `ResultsHaveSignals` |
| `NoDoubles` | `OneOpen` `OncePerWindow` `DailyKept` (tasks), `OneWatching` `FailedStaysOut` (wave watch), `Lineage` (ledger), `DaySavedOnce` (history), `OneOpenTrade` (leaderboard), `OpenCapped` `OneRecommendation` (desks), `OrdersCapped` `SignalsApart` (version 2), `RepeatsAreRestarts` (commands) |
| `RecordsAgree` | `OneHalfPerFault` `ShadowPairs` `LiveHasOrder` (tasks), `EntryInTime` `EnteredIsEmitted` (wave watch), `PlansInTime` `SeenLately` (hot watch), `WholeIsTruth` `HorizonsAgree` `NotBeforeTime` (hot outcomes), `NothingLeftOpen` (store), `LedgerAgrees`, `PassComplete` `LosesOneBar` `DaysAreWhole` `RunsAreClosed` (history), `OpenHasReview` (leaderboard), `FirstTouchCounts` (center), `TrailKept` `ClosedWasFilled` (version 2), `LatestStands` (commands), `WholeOrNothing` (migration) |
| `FinalStays` | `FinalKept` (store), `NeverAgain` (leaderboard), `NeverReopened` (desks), `ResultIsFinal` (center), `NewKept` (migration) |
| `AllEnds` | the predicate of what is waiting in each service: `Overdue`, `Leaving`, `Busy`, `Pending`, `Idling`, `Due`, `Unread` |

Each conjunct is stated with a comment in the module it belongs to.

Proofs: `LiveMirrorProofs`, `PaperSettlementProofs`, `SignalPipelineProofs`,
`ProductionRunnerProofs`, `StocksProofs`, `ServicesTables` and `ServicesProofs`
(the services of `MCServices`, eight in the first, five and the theorems in the second),
and `Extremes` (greatest and least elements of finite sets of integers, which the
runner's latest start, the settler's first candle, the last day of a cooldown and the
next row of a command rest on).

Operators whose names end in `Bug` are distortions of the definition before
them by a mistake the code could have made. No specification uses them: they are
there to show that the properties notice such a mistake.

## Runs

| run | what it asks | bounds |
|---|---|---|
| LivePair | safety and refinement of the live mirror | 2 orders of one strategy and symbol, both directions, 2 prices, 1 crash |
| LiveProgress | true outcomes and progress | 1 order, 3 leg ids a kind, one failed call (rejected or timed out), 1 crash, 1 use of the switch |
| Settlement | fills and outcomes follow the market, events the rows, every order is closed | 1 order of a plain LONG or a reversal SHORT book, 7 ticks in candles of 2, lag 1, 1 fault |
| Pipeline | duplicates, dedup, limit, no lost signal | 3 targets, batches of 2, 3 signal ids, 2 hours, windows of 1 and 2, 1 fault |
| Runner | orphans, intervals, startup tasks, no starvation | 2 slots, 3 launches, 2 tasks, 3 hours, 2 attempts at the lock |
| Rules | plans, mirrors, copies, cuts, verdicts of all rule modules | inputs named in `MCRules`, periods of 2 to 8 bars |
| Stocks | the books and messages of us-stock-hunter, nothing waits for ever | 2 symbols, 2 prices, 2 rows, 1 slot, 1 crash; 3 days, 2 scans, 2 scores, 1 fault |
| Services | doubles, agreement of tables, finality | 13 services, 2 coins, 1 fault or crash each |
| ServicesLive | what begins ends | 10 services, 1 coin, 1 fault |
| ClaimPyramid | "no pyramiding", which fails | 2 orders |
| ClaimLock | one process at a time, which fails | 2 processes |
| ClaimRegime | the further strategies share the run's regime, which fails | 1 scan |

Bounds are the constants marked so in each module, and enough for this reason:

- Live mirror: its rules relate an order to at most one rival on its symbol, so two
  orders show every decision; a fault or crash leaves the table and the account
  as a later one would find them, so one at a time shows each window. Three leg
  ids are the first placement, a lost one and its replacement. `SYMMETRY` is used
  for the order ids of LivePair and ClaimPyramid only, runs without liveness
  properties under fairness.
- Settlement: an order needs a candle before, at and after its fill, and all orders
  of touching the levels inside a candle, which two ticks a candle give. `Limit`
  is 8 as in the code, so with seven ticks no candle leaves the window that the
  client returns; the theorems below hold for every `Limit`, also when the window
  has slid past the fill.
- Pipeline: the dedup and risk checks relate two candidates; a third lets the limit
  be passed.
- Runner: two processes show both succession and overlap, three launches a crash on
  top of either.
- Rules: each rule is a conjunction of comparisons; the inputs have for each
  of them a value on either side and the boundary itself, and lists are as long as
  the cut plus one or two.
- Stocks, Services: each service is left its shortest windows and two of whatever
  can be doubled, one fault or crash, and time for the longest window to pass once.

The theorems do not have these bounds.

`CHECK_DEADLOCK FALSE` stands where the run's bounds let the system stop: the
tape, the signal ids, the rows or the days are used up, or a rule module has
picked its one input.

What passes, and what it means:

- `OneActivePerSymbol`, `HandlerUpToDate`, `ImplementsLifecycle`: rows cannot
  be overtaken by what the world does during a handler.
- `NothingUntracked`, `EntriesCapped`: with no failed call (and, for the first,
  no crash) the table knows everything open on the exchange, and the account
  keeps to `max_pending`. With failures they do not hold, as the hazards say.
- `ClosedByItsLeg`, `PendingResolves`, `NakedRepaired`, `CleanedUp`: with a
  fault, a crash and the switch. The three progress properties are stated up to
  the switch being off, when the code leaves the orders alone; `CleanedUp` is
  about the rows the sweep covers.
- `FillIsReal`, `TargetCameFirst`, `StopCameFirst`: fills and outcomes against
  the tape, as far as the settling pass was shown it and with the trigger and
  target in one 15m candle decided on the 1m chart; `EventsFollowRows`: an event
  never runs ahead of its row and none is repeated; `EventuallyClosed`.
- `OneOrderPerTarget`, `DedupRespected`, `OverfillBounded`, `SignalsServed`. The
  limit of open orders is exceeded by up to a batch less one, because all
  candidates are gated before the first order is made: the property states
  that bound.
- `OwnEventOnly`, `Spaced`: as long as runners follow one another, an event of
  a dead process neither stays RUNNING nor lets its task start again early.
  `StartupServed` and `CaughtUp` hold even with two runners.
- Where a failure or a crash leaves something the code never repairs, the property
  says what still holds and does not exclude it: an entry whose call failed may be
  unknown (`NothingUntracked`), an event missing (`EventsFollowRows`), a pushed
  signal without its order (`SignalsServed`).
- The composites of `MCRules`, `MCStocks` and `MCServices`. Where the code is
  weaker than one would wish, a conjunct says exactly how weak: an incremental
  collection may lose one bar, a faulty step leaves one half-done record for each
  fault, a restart repeats a command once.

## Known disagreements

Three claims of the repository have a run of their own that refutes them
(`findings` in `PROJECT.json` quotes the lines): a REPLACE that loses the race with
a fill leaves two positions; the next process removes the lock file of a running
one and gets a lock of its own; the further strategies of a scan are given the
regime OBSERVE whatever the run's regime is.

Further ones, met while the modules were written. The models do what the code does:

- Live mirror: an order with one leg missing becomes MANUAL_CLOSED though its other
  leg closed it (`v3/live/engine.py:528`); legs of MANUAL_CLOSED and
  DIRECTION_CONFLICT rows are looked at by no sweep (`v3/live/repository.py:129`).
- Settlement: with no candle after the fill the filter returns all candles, those of
  before the fill included (`settler.py:545`); a stop moved to the entry is compared
  with candles of before the move (`settler.py:311`); an outage longer than eight
  candles is forgotten (`settler.py:31`); each scan rebuilds the `RiskConfig`
  without its stop limits, so the stop cap never applies (`tasks.py:141`, `:354`,
  `:525`, `:684`, `:853`).
- Task builders: a classic scan row gets its signal id before the order is saved; a
  failed save of an order ends the batch; an error in rsd's long settlement skips
  the short one; when the settings cannot be read, a paused sma120 scans.
- `klines` leaves the open bar out already, so `[:-1]` in rsd, classic, scoring and
  sma120 drops the last closed bar; the daily score is thereby never given.
- Strategies: rsd's "assume OK if no resistance found" yields 2.0 where 2.20 is
  required; an rsd or wave entry that was ended can be watched again from the same
  break; v664's docstring says both directions and 60 minutes, the code LONG and
  480; v663's docstring asks a volume ratio of 1.2, the code for SHORT under 0.9;
  reversal's "3 x 5-minute points" are hourly; `ShortSignalEngine` hard-codes the
  limits of the entry's distance; sma120's H1 filter removes nothing; `max_per_strategy` is unused;
  an AI macro stop of 7 to 8 per cent never reaches the score it needs.
- Walk-forward: the embargo counts points of the leading coins, so with bars missing
  a training outcome reads the validation period (`walk_forward/engine.py:148`).
- Stores: an incremental collection looks at the newest close alone; a crash leaves a
  scan's snapshot open and its run RUNNING; migration's report counts rows, so
  `ok` may be true though nothing was copied; `/setlimit reset` deletes the whole
  row of a strategy, its live switch and pause included.
- Version 2: a filled order is judged by candles of before its fill
  (`v2/settlement/settler.py:102`); a strategy disabled by hand is enabled again at every
  start. Performance center: 500 candles of 15 minutes are 5.2 days, its timeout 7.
- us-stock-hunter: an order queued "for tomorrow's open" is filled at today's open when
  the day's run is repeated (`paper_fund/fund.py:239`, `:8`); the cash reserve of 10 per
  cent, "never bypassed" (`:12`), is looked at when an order is queued and not when it is
  filled (`:272`), and what earlier runs queued is not set aside, so fills may use it up:
  `CashCovers` promises no more than that cash does not run out; and the limit of 30 days
  does not end a position whose symbol has no price (`:332`); `paper_holdings` is
  written by nobody.

## Fairness

- `LiveMirror`: a handler goes on (weak, `JobStep`); the sync task of each
  strategy and the sweep start again and again (strong: other handlers may be
  under way whenever one looks); a pending order that stays reaches 24 hours.
  The scheduler justifies the first three, see `CaughtUp`.
- `PaperSettlement`: time passes, a pass that has begun goes on and the settle
  task is run again.
- `SignalPipeline`: a scan that has begun goes on. No candidate is assumed.
- `ProductionRunner`: a process goes on, a callback returns, and the deployment
  starts a process when none is left. The second is an assumption: the runner
  has no timeout for a callback. The third is what the hosting does with a
  process that ended.
- `MCStocks`, `MCServices`: a command under way goes on, time passes, and the
  runner task or the daily command that ends things is started again (strong where
  another command may be under way at the time). No command that a person has to
  give is fair: the store only has to come to the end of the command that runs,
  the ledger is simulated by a scheduled command.

Fills, triggers, user commands, faults and crashes are never fair.

## Proofs

Every theorem is about `Spec` without fairness (those of `us-stock-hunter` and of the
services about `MCSpec`), holds for all values of the
constants that satisfy the named assumption of its module, and rests on an
inductive invariant: `Init => IInv`, `IInv /\ [Next]_vars => IInv'`, with one lemma per
action or group of actions. The assumptions (`ConstantsOK`, `PipelineConstants`,
`SettlementConstants`, `RunnerConstants`, `FundAssumption`, `ScanConstants` and the eleven of
`MCServices`) say no more than what kind of value a
constant is: numbers natural or positive, lists without repetition, sets finite where
the code counts them. Those of the services also say what the tables of the code
make true of them: no two builders open orders of one strategy and each settles what
it opens (`TasksAssumption`), a task's row ids are not the old file's
(`CopyAssumption`).

### Live mirror

| theorem | states | inductive invariant |
|---|---|---|
| `TypeCorrect` | `Spec => []TypeOK` | `Inv` |
| `OneOrderAtWork` | `Spec => []OneActivePerSymbol` | `Inv` |
| `HandlersUpToDate` | `Spec => []HandlerUpToDate` | `Inv` |
| `LifecycleImplemented` | `Spec => ImplementsLifecycle` | `Inv` |
| `PendingEntriesCapped` | `Spec => []EntriesCapped` | `Inv`, `Cap` |
| `ClosedAsItWas` | `Spec => []ClosedByItsLeg` | `Inv`, `Books`, `Warranted`, itself |
| `AllTracked` | `Spec => []NothingUntracked` | all of these and `Tracked` |

`Inv == TypeOK /\ OneActivePerSymbol /\ HandlerUpToDate`. `OneActivePerSymbol` is
not inductive: the step that could break it is the write of a new PENDING row,
many calls after `try_place` looked at the table. `HandlerUpToDate` carries what was
seen across those calls: while an order is being placed no rival is active
(`PlacingUpToDate`), a row about to be withdrawn is still PENDING and one about to be
closed still FILLED (`MarkingUpToDate`), and the rows a loop still has to visit have
the status they were loaded with (`LoopsUpToDate`). It holds because all handlers
share one thread and the world writes no rows. `LiveMirrorProofs` has the type
lemmas, then the safety lemmas per group of actions; its `...Refines` lemmas map each step to a step of `OrderLifecycle` or a stutter.

The last three theorems are about the exchange.

- `Cap`: that the count of open entries is below the limit at the step that places
  one, with no failure so far. The count is taken a step earlier; what comes in
  between only closes entries (`ClosingSteps`). The second placement of the
  fallback path is why the claim ends with the first failed call.
- `Books`: which ids a row and the handler hold at each step: an active or
  closed row has an entry, a row that does not exist has no legs, the handler that
  completes a row holds the row's legs and has not yet those it still needs.
- `Warranted`: the reason of a status, from the read that gives it to the write that
  records it: the handler that completes an order has seen its entry filled, the one
  about to write CLOSED_SL (CLOSED_TP) that leg triggered. That the reason still holds
  at the write needs that ids are not used twice and that what is filled stays filled
  (`FilledStays`).
- `Tracked` strengthens `NothingUntracked`. The property accepts an id the handler
  holds at any step; to be inductive the id has to be handed over: known to the
  handler only while it still collects (`Collecting`), to the row from the write on, and
  a row about to be withdrawn has no entry at work any more. `HandlerMoves` lists
  from which step to which the handler goes and what it holds afterwards; `RowMoves`
  what each write does to a row; `WentWell` that without failures the call of
  this step did what it was asked. With these `StillTracked` carries an id over every
  step that does not touch it.

### Paper settlement

| theorem | states |
|---|---|
| `SettlementTypes` | `Spec => []TypeOK` |
| `FillsAreReal` | `Spec => []FillIsReal` |
| `TargetsCameFirst` | `Spec => []TargetCameFirst` |
| `StopsCameFirst` | `Spec => []StopCameFirst` |
| `TrailsFollow` | `Spec => []EventsFollowRows` |

`IInv == TypeOK /\ RowsSound /\ PlanSound /\ Trails /\ Clock /\ Writing`. The
properties speak of rows in the table; a row is written a step after it was
decided on, while the tape grows, so the rows of the plan have to be as sound as
those of the table (`PlanSound`), and what is sound has to stay so when a bar is
added. `Clock` bounds the time since the pass read it, which decides how far the
window has slid. `Writing` relates plan, row and event while they are written: each
row of the plan succeeds the one before, the last one backs the event, and the trail
has earlier events only. The `flag` in it is why a breakeven move whose second
update failed, and which the next pass begins again, still leaves one event. The
lemmas about `Candles`, `After` and the first touch are stated for any tape and any
`Limit`, so that they cover outages longer than the window, which TLC's run does not
reach.

### Signal pipeline

| theorem | states | inductive invariant |
|---|---|---|
| `PipelineTyped` | `Spec => []TypeOK` | `Inv` |
| `OneOrderEach` | `Spec => []OneOrderPerTarget` | `Inv` |
| `DedupKept` | `Spec => []DedupRespected` | `Inv` |
| `OverfillLimited` | `Spec => []OverfillBounded` | `Inv`, `Room` |

`Inv` adds two parts to the three properties. `FreshIds`: an id that has not been
given out has no candidate and no order, and the id being saved is the newest one;
without it a save could overwrite an earlier signal and `OneOrderPerTarget` could break
at a reused id. `Checked`: between the gate and the save of a candidate no signal of
its target is inside the window the scan works with; check and save are separate
transactions, and the fact survives because no other scan runs and the clock only
makes signals older. `Room`: once a candidate of the scan has been let through, orders
at work and candidates left together are fewer than the scan's cap and its batch; the
cap is the one the scan read, which `/setlimit` may have changed since.

### Runner

| theorem | states | inductive invariant |
|---|---|---|
| `RunnerTyped` | `Spec => []TypeOK` | `Inv` |
| `OwnEvents` | `Spec => []OwnEventOnly` | `Inv` |
| `IntervalsKept` | `Spec => Spaced` | `Inv` |
| `StartupsServed` | `Spec => []StartupServed` | `Inv`, `Served` |

`Inv` is `TypeOK`, `Stepping` (a running task is one of the list) and, while `shared`
is false, `Alone` and `OwnEventOnly`: one process holds a lock, and at most one
event is RUNNING. The step that could break it is `Acquire` after a crash, which leaves
the dead runner's event in the table; the new holder has to pass `Cleanup` before its
first tick, and nothing else writes events meanwhile. `IntervalsKept` follows because a
due task starts when nothing is RUNNING (`BegunTyped`): only then is the latest ended
start, all that `_is_due` looks at, the latest start. `Served` says for each process how
far its tick has come: the startup tasks it has passed were started since it began, by
whichever process, and `ReachedKept` that no end, cleanup or crash makes a start be
forgotten. `FreeInode` is the pigeonhole argument that `Acquire` always finds an inode
for a new lock file.

### us-stock-hunter

| theorem | states | inductive invariant |
|---|---|---|
| `StocksTypes` | `MCSpec => []StocksTypeOK` | `FundInv`, `ScanInv` |
| `StocksBooks` | `MCSpec => []BooksAgree` | `FundInv`, `ScanInv` |

Fund and scan share no table, so each has an invariant of its own and a behaviour of
`MCStocks` keeps both: one part steps, the other rests.

`FundInv` adds to the five properties of the fund what a run still knows between two
of its commits. `Filling`: from the row of the order that becomes `filled` to the row of the
position, the slot and the symbol are still free and no position has the order,
although nothing in the tables says so at that point; a run broken off there leaves a
filled order without a position, which is why `OnePositionPerOrder` says at most one.
`Selling`: shares that have left a position are not in the trades yet, so a run broken
off there loses shares and never sells them twice. `RunWhole`: the orders still to be visited are
pending ones, also after the run has filled earlier ones; and cash is a natural number, which
the two commits between decision and payment keep because the run spends nothing else.
`RowsWhole`: a position has a plan and a filled order.

`ScanInv` needs for the messages that what was true of a hit when it was chosen
(`Due`: its result is saved, its cooldown is over, its score is a jump above the
log of today) is still true when the message goes out, several commits later. That rests
on a hit being in the lists of a scan once (`Lined`): the row written for another hit never
has its key. `Remembered`: until the first fault every message sent today is in the log or
still to be written there with at least its score, and this makes a second message of the day
rise by `Jump`. `CooldownOver` goes from the last result of the table, which is all
`is_in_cooldown` looks at, to every earlier one.

### The services

| theorem | states |
|---|---|
| `ServicesTypes` | `MCSpec => []ServicesTypeOK` |
| `ServicesDoNotDouble` | `MCSpec => []NoDoubles` |
| `ServicesRecords` | `MCSpec => []RecordsAgree` |
| `ServicesFinality` | `MCSpec => FinalStays` |

`ServicesInv` is the conjunction of thirteen invariants, one for each service. They share
no variable, so a step of the composition is for each of them a step of its own or none
(`Turns`), and each is kept on its own. The properties are about whole tables, the
commands write them row by row: what has to be added each time is what the command under
way still knows of the rows it read.

- Tasks (`TaskInv`): the rows of a scan have its hour, the signals it has left are
  new, and for the signal that passed the gate, until its order is saved, no order of its
  target is open and no row of an earlier scan was sent within the window (`TaskTimes`,
  `TaskLeft`, `TaskUnsent`); so `OneOpen` and `OncePerWindow` survive the commits between
  gate and order. `TaskBusy` gives for
  each step of a signal the row, order and event it has made so far, hence the order a
  live trade rests on and the order a shadow is compared with. `TaskCounted`: signals
  half done, the one in progress left aside, are no more than the failures.
- Wave watch (`WatchInv`): `WatchGoes`, what a call has still to look at is under
  observation, what it has still to search is not; `WatchRows`, of a coin's rows only
  the last is under observation and an invalidated breakout lies before the last hour,
  so that the search cannot find it again; `WatchSent`, `WatchKept` account for every
  entered row by an emitted signal, the call under way or a fault.
- Hot watch (`ListInv`): what a coin has left never reaches past the most patient
  strategy's limit, during a review past nothing (`ListLeft`).
- Hot outcomes (`PlanInv`): a stored verdict is what the bars of its horizon say
  (`PlanTrue`, kept because later bars do not belong to it), and the evaluation was
  answered after it began.
- Store (`StoreInv`): a scan has one open snapshot and forks only from final ones
  (`StoreGoes`), a run's further snapshots come after final ones (`StoreOrder`), open
  snapshots are counted against crashes, failed runs and the command at work
  (`StoreCounted`).
- Ledger (`LedgerInv`): the account's losses are those of the trades booked, its mode
  follows from them, so that the risk of each trade fits the history before it.
- History (`PastInv`): the bars between the start and the cursor are stored
  (`PastGoes`); one run has the plain id of a span; the first run of a day that has a
  further one never succeeded (`PastOnce`); a day's universe has all the day's bars
  (`PastWhole`).
- Leaderboard (`BoardInv`): a coin under review is not shut out and no review has
  recommended yet while one is open.
- Desks (`DeskInv`): a scan's count is at least the open trades and below the cap, also
  while reviews and settlements close trades between its commits.
- Performance center (`CenterInv`): `Touched` for the verdicts still to be written as
  for the results written; a judged row is open until its one verdict is written.
- Version 2 (`V2Inv`): what is still to be written belongs to one order and fits what
  the order is by now (`Fits`); orders that are `Behind`, whose transitions made and to
  be made exceed their events, are no more than the faults.
- Commands (`ChatInv`): the batch follows the cursor without a gap; what lies before it
  was handled, by this process once; a setting the scans see is the default or a
  command that no later one before the cursor follows (`ChatStands`).
- Migration (`CopyInv`): the rows a table has of the old file are that table's.

Counts are by way of bijections and subsets (`CountTail`, `CountLess`): the services
append to tables and the properties count rows of them. Where the model folded or
filtered a sequence only to visit rows in order, it now has a set and its least
element, which the provers can follow.

### What is only model-checked

- Liveness (`PendingResolves`, `NakedRepaired`, `CleanedUp`, `EventuallyClosed`,
  `SignalsServed`, `CaughtUp`, `NothingWaits`, `AllEnds`): the proof system has no rule for
  fairness and ENABLED.
- The composites of `MCRules`: they are about what means, averages, swings and
  rankings come to on series of bars. That is induction over data, whose library
  theorems take an operator as parameter, which none of the provers can instantiate.

## Not modelled

In the core: quantities, prices and profit beyond the comparisons the code makes on
them; partial fills as quantities; several strategies that share a hedge-mode
position; messages and reports; `cross_strategy` dedup, blacklist and regime, which no
deployed task uses; `daily_at` schedules, which only the old command line uses; the
truncation of start times to milliseconds. In the rules: texts of reasons, the fetching
of candles, and the tables of score points by which capital and space are weighed. In
the services: amounts where only their sign is compared, prompts, charts and reports.

Several reads of the account or calls are one step where nothing between them is
looked at again: the counts of `RiskCheck`, the two legs of `CheckLegs`, the
cancellations of `CancelBinanceOrder` and `CleanRow`, and in `History` the start of a run
with its universe and a failed one with its snapshot. Failures of the live table's
own writes, of the last finalize of a collection and the truncation of creation times
to seconds are left out, so are the trades the performance center finds closed already.
The wave and, but for the divergences, the rsd strategies are written out in the code for
each side; the models have one rule with a direction, read off the code of both, and
`SidesMirrored` does not compare them.

Whole components: the feature store (written once per signal, a failure is swallowed
and no decision reads it), performance calculator and debug tools, health servers,
capital and space scores, diagnostics and analysis scripts (read-only).

## Plan

Done in this order: live mirror, settlement, pipeline, runner; the rules; the services;
the proofs of the core, then of what the core's tables say of the exchange, the market
and the limits; the proofs of us-stock-hunter, then of the services. What is left, in the order it should be done:

1. A composition of the scan, the live mirror and settlement for one signal: what a
   crash between paper and live leaves, and the paper/live divergence note.
2. Two strategies that share a position, with quantities: `_sync_filled`'s use of the
   position, partial fills, `LIVE_DIRECTION_FILTER`.
