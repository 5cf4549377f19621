------------------------------- MODULE V2Paper -------------------------------
(***************************************************************************)
(* The version 2 pipeline (v2/): a scan that writes signals and turns them *)
(* into paper orders, and a settlement that fills and closes the orders by *)
(* 15-minute candles and keeps an append-only trail of their transitions.  *)
(* Both are tasks of one single-threaded runner; every write is a          *)
(* transaction of its own, and the process may die between any two.        *)
(*                                                                         *)
(* One tape of candles stands for every contract, a candle is the set of   *)
(* levels it touches, and a SHORT mirrors a LONG.                          *)
(***************************************************************************)
EXTENDS Naturals, Sequences, FiniteSets

CONSTANTS Symbols,
          Candles,     \* what a candle may touch: sets of levels
          Window,      \* bars a signal keeps its symbol from another (24 h)
          Hold,        \* bars until an order expires (24 h)
          Served,      \* candles one request returns (200)
          MaxOpen,     \* open orders allowed (max_open_orders)
          MaxBars,     \* a bound on time
          MaxSignals,  \* a bound on signals
          MaxFaults    \* a bound on failures and crashes

VARIABLES tape,        \* the candles that have closed
          signals,     \* v2_signals
          orders,      \* v2_paper_orders
          events,      \* v2_order_events
          task,        \* the task that is running
          faults

vars == <<tape, signals, orders, events, task, faults>>

Results == {"SL", "TP1", "TP2", "TIMEOUT"}
Open == {"OPEN", "FILLED"}
Statuses == Open \cup Results \cup {"EXPIRED_NOT_FILLED"}
Now == Len(tape)
Idle == [is |-> "idle", plans |-> {}, new |-> <<>>, todo |-> {}, writes |-> <<>>]

TypeOK ==
  /\ Len(tape) <= MaxBars /\ \A k \in 1..Now : tape[k] \in Candles
  /\ Len(signals) <= MaxSignals
  /\ \A k \in 1..Len(signals) : signals[k].symbol \in Symbols /\ signals[k].at \in 0..Now
  /\ Len(orders) <= Len(signals)
  /\ \A i \in 1..Len(orders) :
       /\ orders[i].symbol \in Symbols /\ orders[i].created \in 0..Now
       /\ orders[i].status \in Statuses /\ orders[i].filled \in 0..Now
  /\ \A k \in 1..Len(events) :
       /\ events[k].order \in 1..Len(orders)
       /\ events[k].old \in Open \cup {"none"} /\ events[k].new \in Statuses
  /\ task.is \in {"idle", "scan", "orders", "settle"}
  /\ task.plans \subseteq Symbols
  /\ faults \in 0..MaxFaults

\* A task goes on to its next part, and ends, as soon as it has nothing left.
Onward(t) ==
  IF t.plans # {} \/ t.todo # {} \/ t.writes # <<>> THEN t
  ELSE IF t.new # <<>> THEN [t EXCEPT !.is = "orders"] ELSE Idle

-----------------------------------------------------------------------------
(* The scan. *)

Event(i, old, new) == [order |-> i, old |-> old, new |-> new]

\* The ranking fills; the watcher's answer is a set of symbols whose plans pass
\* the reward and stop limits.  A failed request is an empty answer.
StartScan(plans) ==
  /\ task.is = "idle" /\ plans # {}
  /\ task' = [Idle EXCEPT !.is = "scan", !.plans = plans]
  /\ UNCHANGED <<tape, signals, orders, events, faults>>

RecentSignal(s) ==
  \E k \in 1..Len(signals) : signals[k].symbol = s /\ Now - signals[k].at <= Window

\* One plan: a signal is saved unless the symbol had one in the window; the
\* scan stops when it has as many as the strategy may hold orders.
SaveSignal(s) ==
  /\ task.is = "scan" /\ s \in task.plans
  /\ IF RecentSignal(s) \/ Len(signals) = MaxSignals
       THEN /\ task' = Onward([task EXCEPT !.plans = @ \ {s}])
            /\ UNCHANGED signals
       ELSE /\ signals' = Append(signals, [symbol |-> s, at |-> Now])
            /\ task' = Onward([task EXCEPT !.new = Append(@, s),
                          !.plans = IF Len(task.new) + 1 >= MaxOpen THEN {} ELSE @ \ {s}])
  /\ UNCHANGED <<tape, orders, events, faults>>

OpenOrders == {i \in 1..Len(orders) : orders[i].status \in Open}

\* V2RiskEngine.check: no second open order of the symbol, and room for one more.
RiskAllows(s) ==
  /\ \A i \in OpenOrders : orders[i].symbol # s
  /\ Cardinality(OpenOrders) < MaxOpen

\* The next new signal: refused, or its order is saved and the event is left to
\* be written.
SaveOrder ==
  /\ task.is = "orders" /\ task.writes = <<>> /\ task.new # <<>>
  /\ IF RiskAllows(Head(task.new))
       THEN /\ orders' = Append(orders, [symbol |-> Head(task.new), created |-> Now,
                                         status |-> "OPEN", filled |-> 0])
            /\ task' = [task EXCEPT !.new = Tail(@),
                          !.writes = <<[is |-> "event", data |-> Event(Len(orders) + 1, "none", "OPEN")]>>]
       ELSE /\ task' = Onward([task EXCEPT !.new = Tail(@)])
            /\ UNCHANGED orders
  /\ UNCHANGED <<tape, signals, events, faults>>


-----------------------------------------------------------------------------
(* The settlement. *)

StartSettle ==
  /\ task.is = "idle" /\ OpenOrders # {}
  /\ task' = [Idle EXCEPT !.is = "settle", !.todo = OpenOrders]
  /\ UNCHANGED <<tape, signals, orders, events, faults>>

Relevant(i) == {k \in 1..Now : k > orders[i].created /\ k > Now - Served}

MinOf(S) == CHOOSE k \in S : \A m \in S : k <= m

Write(is, i, status, bar) ==
  [is |-> is, data |-> [order |-> i, status |-> status, bar |-> bar]]

Wrote(i, old, new) == [is |-> "event", data |-> Event(i, old, new)]

\* _check_settle on a set of candles: the first stop or far target decides,
\* the stop first within a candle; then the near target, then the expiry.
SettleResult(i, candles) ==
  LET final == {k \in candles : tape[k] \cap {"stop", "tp2"} # {}} IN
  IF final # {} THEN IF "stop" \in tape[MinOf(final)] THEN "SL" ELSE "TP2"
  ELSE IF \E k \in candles : "tp1" \in tape[k] THEN "TP1"
  ELSE IF candles # {} /\ Now >= orders[i].created + Hold THEN "TIMEOUT" ELSE "none"

\* Closing writes the row, then the event.
CloseWrites(i, old, result) ==
  IF result = "none" THEN <<>>
  ELSE <<Write("settled", i, result, 0), Wrote(i, old, result)>>

\* An order that was filled in an earlier run is judged by every candle since
\* it was created, the ones before its fill among them.
FilledWrites(i) == CloseWrites(i, "FILLED", SettleResult(i, Relevant(i)))

\* _check_fill: filled by the first candle that touches the entry and judged at
\* once by the candles after that one; without a touch it expires.
FillWrites(i) ==
  LET touched == {k \in Relevant(i) : "entry" \in tape[k]}
      fill == MinOf(touched)
      after == {k \in Relevant(i) : k > fill}
  IN  IF touched # {}
        THEN <<Write("filled", i, "FILLED", fill), Wrote(i, "OPEN", "FILLED")>>
             \o CloseWrites(i, "FILLED", SettleResult(i, after))
      ELSE IF Now >= orders[i].created + Hold
        THEN CloseWrites(i, "OPEN", "EXPIRED_NOT_FILLED")
      ELSE <<>>

\* The next order, in the order of creation.
Oldest == MinOf(task.todo)

\* _settle_one: the candles are fetched once and decide every write.
SettleOne ==
  /\ task.is = "settle" /\ task.writes = <<>> /\ task.todo # {}
  /\ LET i == Oldest IN
       task' = Onward([task EXCEPT !.todo = @ \ {i},
                  !.writes = IF Relevant(i) = {} THEN <<>>
                             ELSE IF orders[i].status = "OPEN" THEN FillWrites(i)
                             ELSE FilledWrites(i)])
  /\ UNCHANGED <<tape, signals, orders, events, faults>>

\* An exception while one order is settled is caught and the next one is taken.
SettleFails ==
  /\ task.is = "settle" /\ faults < MaxFaults
  /\ task' = Onward(IF task.writes # <<>> THEN [task EXCEPT !.writes = <<>>]
                    ELSE [task EXCEPT !.todo = @ \ {Oldest}])
  /\ faults' = faults + 1
  /\ UNCHANGED <<tape, signals, orders, events>>

\* The next write of either task.
WriteNext ==
  /\ task.writes # <<>>
  /\ LET w == Head(task.writes).data IN
       CASE Head(task.writes).is = "event" ->
              events' = Append(events, w) /\ UNCHANGED orders
         [] Head(task.writes).is = "filled" ->
              /\ orders' = [orders EXCEPT ![w.order].status = "FILLED",
                                          ![w.order].filled = w.bar]
              /\ UNCHANGED events
         [] Head(task.writes).is = "settled" ->
              orders' = [orders EXCEPT ![w.order].status = w.status] /\ UNCHANGED events
  /\ task' = Onward([task EXCEPT !.writes = Tail(@)])
  /\ UNCHANGED <<tape, signals, faults>>

\* The process dies, or a write of the scan fails and ends the task.
Crash ==
  /\ task.is # "idle" /\ faults < MaxFaults
  /\ task' = Idle /\ faults' = faults + 1
  /\ UNCHANGED <<tape, signals, orders, events>>

-----------------------------------------------------------------------------
\* The next candle closes.
Tick(candle) ==
  /\ Now < MaxBars
  /\ tape' = Append(tape, candle)
  /\ UNCHANGED <<signals, orders, events, task, faults>>

Init ==
  /\ tape = <<>> /\ signals = <<>> /\ orders = <<>> /\ events = <<>>
  /\ task = Idle /\ faults = 0

Scan == \E s \in Symbols : SaveSignal(s)

Next ==
  \/ \E plans \in SUBSET Symbols : StartScan(plans)
  \/ Scan \/ SaveOrder
  \/ StartSettle \/ SettleOne \/ SettleFails
  \/ WriteNext \/ Crash
  \/ \E candle \in Candles : Tick(candle)

Step == Scan \/ SaveOrder \/ SettleOne \/ WriteNext

\* Candles go on closing, a running task goes on, and the runner takes the
\* settlement up again whenever it is free often enough.
Fairness ==
  WF_vars(\E candle \in Candles : Tick(candle)) /\ WF_vars(Step) /\ SF_vars(StartSettle)

Spec == Init /\ [][Next]_vars /\ Fairness

-----------------------------------------------------------------------------
(* Properties. *)

\* However signals, fills and crashes interleave, the strategy never holds two
\* orders of one symbol nor more orders than it may (V2RiskEngine.check).
OrdersCapped ==
  /\ Cardinality(OpenOrders) <= MaxOpen
  /\ \A i, j \in OpenOrders : orders[i].symbol = orders[j].symbol => i = j

\* Two signals of one symbol are farther apart than the window, whatever became
\* of the first one's order (exists_recent, "dedup window").
SignalsApart ==
  \A j, k \in 1..Len(signals) :
    (j < k /\ signals[j].symbol = signals[k].symbol)
      => signals[k].at - signals[j].at > Window

\* The writes that are still to come for order i.
Pending(i) ==
  {k \in 1..Len(task.writes) : task.writes[k].data.order = i /\ task.writes[k].is = "event"}

\* How many transitions order i has made, its creation included.
Transitions(i) ==
  1 + (IF orders[i].filled > 0 THEN 1 ELSE 0) + (IF orders[i].status \in Open THEN 0 ELSE 1)

\* Every transition an order made has its event, or is about to get it; only a
\* failure or a crash between the two writes loses one (_append_event, "Every
\* state transition writes an append-only row").
TrailKept ==
  LET missing(i) == Transitions(i) - Cardinality({k \in 1..Len(events) : events[k].order = i})
      lost == {i \in 1..Len(orders) : missing(i) > Cardinality(Pending(i))}
  IN  Cardinality(lost) <= faults

\* No order is closed on a target, a stop or a timeout unless a candle after
\* its creation touched its entry (_check_fill).
ClosedWasFilled ==
  \A i \in 1..Len(orders) :
    orders[i].status \in Results =>
      \E k \in (orders[i].created + 1)..Now : "entry" \in tape[k]

\* An order that is open although it will expire within the bound on time.
Due == \E i \in OpenOrders : orders[i].created + Hold < MaxBars
=============================================================================
