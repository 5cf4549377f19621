-------------------------- MODULE PaperSettlement --------------------------
(***************************************************************************)
(* Paper orders and their settlement: v3_paper_orders, v3_order_events and *)
(* V3Settler, over the candles of one symbol.                              *)
(*                                                                         *)
(* Time passes in ticks, the bars of the 1m chart; Width ticks make one    *)
(* candle of the 15m chart.  Prices are the four levels an order tells     *)
(* apart.  The scan and settle tasks run in one thread (job), and each     *)
(* strategy's settler is the only writer of its orders, so a row read at   *)
(* the start of a pass is still the row of the table when it is handled.   *)
(***************************************************************************)
EXTENDS Integers, Sequences, FiniteSetsExt

CONSTANTS
    Orders,      \* order_ids
    None,        \* no order
    Books,       \* strategies, by how their orders are settled, and directions
    Bars,        \* bars the market can draw: lo, hi and close levels
    Width,       \* ticks of a candle (_15M_MS)
    Limit,       \* _KLINE_LIMIT
    Hold,        \* hold hours, or max_hold_minutes, in ticks
    MinHold,     \* ticks before the breakeven move (5 minutes)
    MaxTicks,    \* bound: length of the tape
    LastPlace,   \* bound: last tick at which an order is made
    MaxLag,      \* bound: ticks a task may last
    MaxFaults    \* bound: failed fetches and writes, and restarts

(* "plain" orders have no max_hold_minutes in metadata_json, "reversal"    *)
(* ones do, and "sma120" ones do without orig_stop_loss.                   *)
AllKinds == {"plain", "reversal", "sma120"}
Directions == {"LONG", "SHORT"}
Levels == 1..4
AllBars == {b \in [lo : Levels, hi : Levels, close : Levels] :
                b.lo <= b.close /\ b.close <= b.hi}

ASSUME SettlementConstants ==
    /\ None \notin Orders
    /\ Books \subseteq AllKinds \X Directions
    /\ Bars \subseteq AllBars
    /\ Width \in Nat \ {0} /\ Limit \in Nat \ {0}
    /\ Hold \in Nat \ {0} /\ MinHold \in Nat
    /\ MaxTicks \in Nat /\ LastPlace \in Nat
    /\ MaxLag \in Nat /\ MaxFaults \in Nat

Results == {"TP1", "SL", "TIMEOUT", "TIMEOUT_FORCED", "EXPIRED_NOT_FILLED"}
EventTypes == {"CREATED", "FILLED", "BREAKEVEN_MOVED"} \cup Results
Times == 0..(MaxTicks + Width)

(* A row of v3_paper_orders; filled and closed are 0 while NULL.           *)
Row == [st : {"NONE", "OPEN", "FILLED", "CLOSED"}, res : Results \cup {"NONE"},
        dir : Directions, kind : AllKinds,
        made : Times, filled : Times, closed : Times,
        atEntry : BOOLEAN,     \* stop_loss has been moved to the entry
        flag : BOOLEAN]        \* metadata_json: breakeven_activated
NoRow == [st |-> "NONE", res |-> "NONE", dir |-> "LONG", kind |-> "plain",
          made |-> 0, filled |-> 0, closed |-> 0, atEntry |-> FALSE, flag |-> FALSE]

VARIABLES
    tape,     \* the 1m bars drawn so far: Len(tape) is the present
    orders,   \* v3_paper_orders
    events,   \* v3_order_events of each order: their types, oldest first
    job,      \* the task under way
    faults    \* failures so far

vars == <<tape, orders, events, job, faults>>
Now == Len(tape)

(* The task under way: "pass" between two orders, "write" while the rows   *)
(* of plan and then the event ev of order o are being written.             *)
IdleJob == [pc |-> "idle", now |-> 0, todo |-> {}, o |-> None,
            plan |-> <<>>, ev |-> "CREATED"]

-----------------------------------------------------------------------------
(* Levels of an order, from the stop to the target.                        *)
Stop(r)    == IF r.dir = "LONG" THEN IF r.atEntry THEN 2 ELSE 1
                                ELSE IF r.atEntry THEN 3 ELSE 4
Entry(r)   == IF r.dir = "LONG" THEN 2 ELSE 3
Trigger(r) == IF r.dir = "LONG" THEN 3 ELSE 2   \* breakeven_trigger_r x risk
Target(r)  == IF r.dir = "LONG" THEN 4 ELSE 1

(* Ticks at which the market came down (up) to a level, or up (down) to it. *)
Against(r, level) ==
    {t \in 1..Now : IF r.dir = "LONG" THEN tape[t].lo <= level ELSE tape[t].hi >= level}
Towards(r, level) ==
    {t \in 1..Now : IF r.dir = "LONG" THEN tape[t].hi >= level ELSE tape[t].lo <= level}
EntryTicks(r)  == Against(r, Entry(r))
StopTicks(r)   == Against(r, Stop(r))
TargetTicks(r) == Towards(r, Target(r))

(* Candle c opens at time c * Width; the client leaves out the open one.   *)
Ticks(c) == (c * Width + 1)..((c + 1) * Width)
Candles == {c \in 0..(Now \div Width - 1) : c >= Now \div Width - (Limit - 1)}
Touching(cs, ticks) == {c \in cs : Ticks(c) \cap ticks # {}}
Close(c) == tape[(c + 1) * Width].close

(* _filter_klines_after: the whole list when nothing is left of it.        *)
After(cs, at) ==
    LET kept == {c \in cs : c * Width >= (at \div Width) * Width}
    IN  IF kept = {} THEN cs ELSE kept

(* _resolve_same_candle: the first 1m bar that touches one level only; SL  *)
(* when there is none or the 1m chart cannot be read.                      *)
SameCandleBug(r, c) == {"TP1"}
SameCandle(r, c) ==
    LET tp == TargetTicks(r)
        sl == StopTicks(r)
        clear == (Ticks(c) \cap (tp \cup sl)) \ (tp \cap sl)
    IN  {"SL"} \cup (IF clear # {} /\ Min(clear) \in tp THEN {"TP1"} ELSE {})

(* What the candles cs say of a filled order.                              *)
VerdictsBug(r, cs) ==
    IF Touching(cs, StopTicks(r)) # {} THEN {"SL"}
    ELSE IF Touching(cs, TargetTicks(r)) # {} THEN {"TP1"} ELSE {"none"}
Verdicts(r, cs) ==
    LET hit == Touching(cs, TargetTicks(r) \cup StopTicks(r))
        c == Min(hit)
    IN  IF hit = {} THEN {"none"}
        ELSE IF Ticks(c) \cap StopTicks(r) = {} THEN {"TP1"}
        ELSE IF Ticks(c) \cap TargetTicks(r) = {} THEN {"SL"}
        ELSE SameCandle(r, c)

-----------------------------------------------------------------------------
(* Steps of a pass: Carry starts the writes of an order, Skip leaves the   *)
(* order as it is; either way the pass goes on with the others.            *)
Carry(o, plan, ev) ==
    job' = [job EXCEPT !.pc = "write", !.todo = @ \ {o}, !.o = o, !.plan = plan, !.ev = ev]
GoOn(todo) == job' = IF todo = {} THEN IdleJob
                     ELSE [IdleJob EXCEPT !.pc = "pass", !.now = job.now, !.todo = todo]
Skip(o) == GoOn(job.todo \ {o})
Settle(o, res) ==
    Carry(o, <<[orders[o] EXCEPT !.st = "CLOSED", !.res = res, !.closed = job.now]>>, res)

Fault == faults < MaxFaults /\ faults' = faults + 1

(* The scan task makes an order, unless the strategy has one at work in    *)
(* this direction.                                                         *)
Place(o, k, d) ==
    /\ job.pc = "idle" /\ Now <= LastPlace /\ orders[o].st = "NONE"
    /\ \A p \in Orders : orders[p].st \in {"OPEN", "FILLED"} =>
                            orders[p].dir # d \/ orders[p].kind # k
    /\ job' = [IdleJob EXCEPT !.pc = "write", !.now = Now, !.o = o, !.ev = "CREATED",
                  !.plan = <<[NoRow EXCEPT !.st = "OPEN", !.dir = d, !.kind = k, !.made = Now]>>]
    /\ UNCHANGED <<tape, orders, events, faults>>

(* settle_all reads its orders and the clock once.                         *)
AtWorkBug(k) == {o \in Orders : orders[o].st = "OPEN" /\ orders[o].kind = k}
AtWork(k) == {o \in Orders : orders[o].st \in {"OPEN", "FILLED"} /\ orders[o].kind = k}
StartPass(k) ==
    /\ job.pc = "idle" /\ AtWork(k) # {}
    /\ job' = [IdleJob EXCEPT !.pc = "pass", !.now = Now, !.todo = AtWork(k)]
    /\ UNCHANGED <<tape, orders, events, faults>>

(* The candles cannot be fetched: the order stays as it is. *)
FetchFails(o) ==
    /\ job.pc = "pass" /\ o \in job.todo
    /\ orders[o].st = "OPEN" => job.now < orders[o].made + Hold
    /\ Fault /\ Skip(o)
    /\ UNCHANGED <<tape, orders, events>>

(* _settle_one, OPEN: the first candle since the order was made that comes  *)
(* to its entry fills it, as of the next candle's open.                    *)
FillsBug(r) == Touching(After(Candles, r.made), EntryTicks(r))
Fills(r) == Touching({c \in Candles : c * Width >= r.made}, EntryTicks(r))
FilledAtBug(c) == 1000 * (c + 1) * Width     \* milliseconds
FilledAt(c) == (c + 1) * Width
SettleOpen(o) ==
    /\ job.pc = "pass" /\ o \in job.todo /\ orders[o].st = "OPEN"
    /\ LET r == orders[o] IN
       IF job.now >= r.made + Hold THEN Settle(o, "EXPIRED_NOT_FILLED")
       ELSE IF Fills(r) = {} THEN Skip(o)
       ELSE Carry(o, <<[r EXCEPT !.st = "FILLED", !.filled = FilledAt(Min(Fills(r)))]>>, "FILLED")
    /\ UNCHANGED <<tape, orders, events, faults>>

(* _settle_one, FILLED: target, stop, or the end of the holding time.      *)
TimedOut(r) == job.now >= r.made + Hold
SettleFilled(o) ==
    /\ job.pc = "pass" /\ o \in job.todo
    /\ orders[o].st = "FILLED" /\ orders[o].kind = "plain"
    /\ LET r == orders[o] IN
       \E v \in Verdicts(r, After(Candles, r.filled)) :
          IF v # "none" THEN Settle(o, v)
          ELSE IF TimedOut(r) /\ Candles # {} THEN Settle(o, "TIMEOUT")
          ELSE Skip(o)
    /\ UNCHANGED <<tape, orders, events, faults>>

(* Held long enough and far enough in profit for the stop to move.         *)
MoveStop(r) ==
    /\ ~r.flag
    /\ job.now >= r.filled + MinHold \/ job.now >= r.filled + Width
    /\ r.kind = "sma120" => ~r.atEntry          \* risk > 0
    /\ LET last == Close(Max(Candles)) IN
       IF r.dir = "LONG" THEN last >= Trigger(r) ELSE last <= Trigger(r)

(* _settle_filled_reversal: forced close first, then target and stop, then *)
(* the breakeven move, written as stop, metadata and event.                *)
SettleReversal(o) ==
    /\ job.pc = "pass" /\ o \in job.todo
    /\ orders[o].st = "FILLED" /\ orders[o].kind # "plain"
    /\ LET r == orders[o]
           stopMoved == [r EXCEPT !.atEntry = TRUE]
       IN
       IF Candles = {} THEN Skip(o)
       ELSE IF job.now >= r.filled + Hold THEN Settle(o, "TIMEOUT_FORCED")
       ELSE \E v \in Verdicts(r, After(Candles, r.filled)) :
               IF v # "none" THEN Settle(o, v)
               ELSE IF MoveStop(r)
               THEN Carry(o, <<stopMoved, [stopMoved EXCEPT !.flag = TRUE]>>, "BREAKEVEN_MOVED")
               ELSE Skip(o)
    /\ UNCHANGED <<tape, orders, events, faults>>

(* The next transaction of an order: one of its row updates. *)
Write ==
    /\ job.pc = "write" /\ job.plan # <<>>
    /\ orders' = [orders EXCEPT ![job.o] = Head(job.plan)]
    /\ job' = [job EXCEPT !.plan = Tail(@)]
    /\ UNCHANGED <<tape, events, faults>>

(* append_event, in a transaction of its own. *)
AppendEvent ==
    /\ job.pc = "write" /\ job.plan = <<>>
    /\ events' = [events EXCEPT ![job.o] = Append(@, job.ev)]
    /\ GoOn(job.todo)
    /\ UNCHANGED <<tape, orders, faults>>

(* A transaction fails: settle_all logs the error and goes on with the      *)
(* next order.                                                             *)
AbandonBug == job' = [job EXCEPT !.plan = <<>>]
Abandon == GoOn(job.todo)
WriteFails ==
    /\ job.pc = "write" /\ Fault /\ Abandon
    /\ UNCHANGED <<tape, orders, events>>

(* The process restarts; the tables stay. *)
Crash ==
    /\ job.pc # "idle" /\ Fault /\ job' = IdleJob
    /\ UNCHANGED <<tape, orders, events>>

(* The market draws a bar.  The tape ends with the last order.             *)
Tick ==
    /\ Now < MaxTicks /\ (job.pc # "idle" => Now < job.now + MaxLag)
    /\ \/ job.pc # "idle" \/ \E o \in Orders : orders[o].st \in {"OPEN", "FILLED"}
       \/ Now < LastPlace /\ \E o \in Orders : orders[o].st = "NONE"
    /\ \E b \in Bars : tape' = Append(tape, b)
    /\ UNCHANGED <<orders, events, job, faults>>

Init ==
    /\ tape = <<>>
    /\ orders = [o \in Orders |-> NoRow]
    /\ events = [o \in Orders |-> <<>>]
    /\ job = IdleJob
    /\ faults = 0

SettleOne(o) == SettleOpen(o) \/ SettleFilled(o) \/ SettleReversal(o)
Next ==
    \/ \E o \in Orders :
          \/ \E b \in Books : Place(o, b[1], b[2])
          \/ FetchFails(o) \/ SettleOne(o)
    \/ \E k \in AllKinds : StartPass(k)
    \/ Write \/ AppendEvent \/ WriteFails \/ Crash \/ Tick

Spec == Init /\ [][Next]_vars

(* The runner is one thread that always comes back to every task (settle   *)
(* passes are due every few minutes), and time does not stop.              *)
FairSpec ==
    /\ Spec
    /\ WF_vars(Tick)
    /\ \A k \in AllKinds : WF_vars(StartPass(k))
    /\ \A o \in Orders : WF_vars(SettleOne(o))
    /\ WF_vars(Write) /\ WF_vars(AppendEvent)

-----------------------------------------------------------------------------
Jobs == [pc : {"idle", "pass", "write"}, now : Times, todo : SUBSET Orders,
         o : Orders \cup {None}, plan : Seq(Row), ev : EventTypes]

TypeOK ==
    /\ tape \in Seq(Bars) /\ Len(tape) <= MaxTicks
    /\ orders \in [Orders -> Row]
    /\ \A o \in Orders : events[o] \in Seq(EventTypes)
    /\ job \in Jobs /\ (job.pc = "write" => job.o \in Orders)
    /\ faults \in 0..MaxFaults

(* A paper fill is one a limit order would have had: the market came to    *)
(* the entry in a candle that opened after the order was made, and the     *)
(* order counts as filled from the end of that candle (the two fixes in    *)
(* _settle_one).                                                           *)
RealFill(r) ==
    r.filled # 0 =>
        \E c \in 0..(Now \div Width) :
            /\ r.filled = (c + 1) * Width /\ c * Width >= r.made
            /\ Ticks(c) \cap EntryTicks(r) # {}
FillIsReal == \A o \in Orders : RealFill(orders[o])

(* The ticks of a settled order that its result may rest on: once a candle *)
(* has closed after the fill, those after the fill; and those of them that *)
(* the last Limit candles still showed the pass that settled it, however   *)
(* long it lasted.                                                         *)
Since(r, ticks) == {t \in ticks : t > r.filled}
Shown(r, ticks) ==
    {t \in Since(r, ticks) :
        t > ((r.closed + MaxLag) \div Width - (Limit - 1)) * Width}
Settled(r, res) == r.res = res /\ r.closed >= r.filled + Width
CandleOf(t) == (t - 1) \div Width

(* An order that made its target had not clearly been stopped out before   *)
(* in what the pass saw: every bar of it that touched the stop earlier     *)
(* touched the target as well.                                             *)
TargetFirst(r) ==
    Settled(r, "TP1") =>
        \E t \in Since(r, TargetTicks(r)) :
            \A s \in Shown(r, StopTicks(r)) : s < t => s \in TargetTicks(r)
TargetCameFirst == \A o \in Orders : TargetFirst(orders[o])

(* An order that was stopped out had not made its target in an earlier     *)
(* candle that the pass saw.                                               *)
StopFirst(r) ==
    Settled(r, "SL") =>
        \E s \in Since(r, StopTicks(r)) :
            \A t \in Shown(r, TargetTicks(r)) : CandleOf(t) >= CandleOf(s)
StopCameFirst == \A o \in Orders : StopFirst(orders[o])

(* The trail of an order never runs ahead of its row and repeats nothing,  *)
(* whichever transaction fails and wherever the process stops.             *)
RankOf(type) ==
    IF type = "CREATED" THEN 1 ELSE IF type = "FILLED" THEN 2
    ELSE IF type = "BREAKEVEN_MOVED" THEN 3 ELSE 4
RowRank(r) ==
    IF r.st = "NONE" THEN 0 ELSE IF r.st = "OPEN" THEN 1 ELSE IF r.st = "CLOSED" THEN 4
    ELSE IF r.atEntry THEN 3 ELSE 2
EventsFollowRows ==
    \A o \in Orders : LET e == events[o] IN
        /\ \A i, j \in DOMAIN e : i < j => RankOf(e[i]) < RankOf(e[j])
        /\ \A i \in DOMAIN e :
              /\ RankOf(e[i]) <= RowRank(orders[o])
              /\ e[i] \in Results => e[i] = orders[o].res

(* Every order is closed in the end, filled or not, whatever fails.        *)
EventuallyClosed ==
    \A o \in Orders : (orders[o].st = "OPEN") ~> (orders[o].st = "CLOSED")
=============================================================================
