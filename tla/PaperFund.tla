------------------------------ MODULE PaperFund ------------------------------
(* The paper fund of us-stock-hunter (market_hunter/paper_fund): one daily run  *)
(* fills or cancels the orders queued before, applies the sell rules, queues    *)
(* new orders from the scan and stores the day's equity.  Every statement on    *)
(* the database is a transaction of its own, so a run can end between any two.  *)
(* Money is a natural number; dates are kept as ages in days.                   *)
EXTENDS Integers, FiniteSets, Sequences

CONSTANTS Symbols, Prices, Capital,
          MaxPositions, MaxNewPerDay,   \* 5 and 2
          PosPct, CashPct, CancelPct,   \* 20, 10 and 2 per cent
          HoldDays, OrderDays,          \* 30 and 3
          Plans,                        \* entry plans a signal can carry
          Scans,                        \* results of a scan: lists of signals
          None,
          Rows, MaxCrashes              \* bounds: rows of a table, crashes

(* Risk, volume and reward ratios in tenths. *)
Signal == [plan : Plans, status : {"focus", "watch", "risk"}, score : Nat, rr : Nat,
           risk : Nat, vol : Nat]

ASSUME FundAssumption ==
  /\ Capital \in Nat /\ Prices \subseteq Nat \ {0} /\ Rows \subseteq Nat
  /\ MaxPositions \in Nat /\ MaxNewPerDay \in Nat /\ MaxCrashes \in Nat
  /\ PosPct \in Nat /\ CashPct \in Nat /\ CancelPct \in Nat
  /\ HoldDays \in Nat /\ OrderDays \in Nat
  /\ Plans \subseteq [symbol : Symbols, trigger : Nat \ {0}, stop : Nat, target : Nat]
  /\ Scans \subseteq Seq(Signal)
  /\ None \notin Nat /\ None \notin Scans /\ None \notin Seq(Plans) /\ None \notin Plans

VARIABLES cash,        \* paper_fund.current_cash, None before paper-init
          orders,      \* paper_orders
          positions,   \* paper_positions
          trades,      \* paper_trades, summed: shares per position, money in all
          equity,      \* the latest row of paper_equity
          pc, todo, list, made, job,   \* the run: its step, its loop, its locals
          crashes

disk == <<cash, orders, positions, trades, equity>>
run  == <<pc, todo, list, made, job>>
vars == <<disk, run, crashes>>

OrderStatus == {"free", "pending", "filled", "cancelled"}
Order == [status : OrderStatus, plan : Plans \cup {None}, shares : Nat, age : 0..(OrderDays + 1)]
Position == [status : {"free", "open", "closed"}, plan : Plans \cup {None},
             order : Rows \cup {None},
             shares : Nat, half : BOOLEAN, age : 0..HoldDays]
Job == [row : Rows, shares : Nat, amount : Nat]

Pending == {o \in Rows : orders[o].status = "pending"}
Open    == {p \in Rows : positions[p].status = "open"}
Held(s) == \E p \in Open : positions[p].plan.symbol = s
Queued(s) == \E o \in Pending : orders[o].plan.symbol = s
FirstOf(i, S) == i \in S /\ \A j \in S : i <= j
Free(table) == {r \in Rows : table[r].status = "free"}

InitTrades == [bought |-> [p \in Rows |-> 0], sold |-> [p \in Rows |-> 0], paid |-> 0, got |-> 0]
NothingMade == [count |-> 0, reserved |-> 0, worth |-> 0]
Rest == /\ pc' = "idle" /\ todo' = {} /\ list' = None
        /\ made' = NothingMade /\ job' = None

Init ==
  /\ cash = None /\ equity = None
  /\ orders = [o \in Rows |-> [status |-> "free", plan |-> None, shares |-> 0, age |-> 0]]
  /\ positions = [p \in Rows |-> [status |-> "free", plan |-> None, order |-> None,
                                  shares |-> 0, half |-> FALSE, age |-> 0]]
  /\ trades = InitTrades
  /\ pc = "idle" /\ todo = {} /\ list = None
  /\ made = NothingMade /\ job = None
  /\ crashes = 0

-----------------------------------------------------------------------------
(* paper-init: INSERT OR IGNORE of the fund row. *)
InitFund ==
  /\ pc = "idle" /\ cash = None
  /\ cash' = Capital
  /\ UNCHANGED <<orders, positions, trades, equity, run, crashes>>

(* Step 3, the buy filter: what is left of a scan, best first; equals keep the   *)
(* order of the scan (three strategies, so a symbol may come twice).            *)
Stars(sig) ==
  CASE sig.score >= 90 /\ sig.rr >= 25 /\ sig.risk <= 50 /\ sig.vol >= 15 -> 5
    [] sig.score >= 85 /\ sig.rr >= 20 /\ sig.risk <= 60 -> 4
    [] sig.status = "focus" -> 3
    [] sig.status = "risk" -> 2
    [] OTHER -> 1

Buyable(sig) == /\ sig.status = "focus" /\ Stars(sig) >= 3 /\ sig.score >= 75
                /\ sig.rr >= 20 /\ sig.risk <= 70 /\ sig.vol >= 12

Merit(sig) == <<Stars(sig), sig.score, sig.rr, sig.vol>>
Outranks(x, y) ==
  \E k \in 1..4 : /\ Merit(x)[k] > Merit(y)[k]
                  /\ \A j \in 1..(k - 1) : Merit(x)[j] = Merit(y)[j]

Shortlists(scan) ==
  LET Kept == {i \in DOMAIN scan : Buyable(scan[i])}
      Rankings == {f \in [1..Cardinality(Kept) -> Kept] :
        \A i, j \in 1..Cardinality(Kept) : i < j =>
          \/ Outranks(scan[f[i]], scan[f[j]])
          \/ f[i] < f[j] /\ ~Outranks(scan[f[j]], scan[f[i]])}
  IN  {[i \in 1..Cardinality(Kept) |-> scan[f[i]].plan] : f \in Rankings}

(* run_daily, called by the scheduler with the scan's shortlist, and by         *)
(* paper-daily (or after a failed scan) without one.  A run with a scan starts  *)
(* only while the table has room for its orders: the bound Rows.                *)
StartRun(l) ==
  /\ pc = "idle" /\ cash # None
  /\ l # None => Cardinality(Free(orders)) >= MaxNewPerDay
  /\ pc' = "orders" /\ todo' = Pending /\ list' = l
  /\ UNCHANGED <<disk, made, job, crashes>>

-----------------------------------------------------------------------------
(* Step 1: the pending orders, oldest first, at the day's open. *)
Limit(plan) == (plan.trigger * (100 + CancelPct)) \div 100
Cost(o, open) == orders[o].shares * open

RefusedUncovered(o, open) ==
  \/ open > Limit(orders[o].plan) \/ Cardinality(Open) >= MaxPositions
  \/ Held(orders[o].plan.symbol)

Refused(o, open) ==
  \/ open > Limit(orders[o].plan)
  \/ Cardinality(Open) >= MaxPositions
  \/ Held(orders[o].plan.symbol)
  \/ cash < Cost(o, open)

Cancel(o) == orders' = [orders EXCEPT ![o].status = "cancelled"]

Expire(o) ==
  /\ orders[o].age > OrderDays
  /\ Cancel(o)
  /\ todo' = todo \ {o} /\ UNCHANGED <<pc, job>>

NoOpenPrice(o) ==
  /\ orders[o].age <= OrderDays
  /\ todo' = todo \ {o} /\ UNCHANGED <<orders, pc, job>>

RefuseOrder(o) ==
  /\ orders[o].age <= OrderDays
  /\ \E open \in Prices : Refused(o, open)
  /\ Cancel(o)
  /\ todo' = todo \ {o} /\ UNCHANGED <<pc, job>>

FillOrder(o) ==
  /\ orders[o].age <= OrderDays
  /\ \E open \in Prices :
       /\ ~Refused(o, open)
       /\ job' = [row |-> o, shares |-> orders[o].shares, amount |-> Cost(o, open)]
  /\ orders' = [orders EXCEPT ![o].status = "filled"]
  /\ pc' = "position" /\ todo' = todo \ {o}

ProcessOrder ==
  /\ pc = "orders"
  /\ \E o \in todo : /\ FirstOf(o, todo)
                    /\ \/ Expire(o) \/ NoOpenPrice(o) \/ RefuseOrder(o) \/ FillOrder(o)
  /\ UNCHANGED <<cash, positions, trades, equity, list, made, crashes>>

NewPosition(o, n) ==
  [status |-> "open", plan |-> orders[o].plan, order |-> o, shares |-> n, half |-> FALSE, age |-> 0]

InsertPosition ==
  /\ pc = "position"
  /\ \E p \in Rows :
       /\ FirstOf(p, Free(positions))
       /\ positions' = [positions EXCEPT ![p] = NewPosition(job.row, job.shares)]
       /\ job' = [job EXCEPT !.row = p]
  /\ pc' = "buy"
  /\ UNCHANGED <<cash, orders, trades, equity, todo, list, made, crashes>>

RecordBuy ==
  /\ pc = "buy"
  /\ trades' = [trades EXCEPT !.bought[job.row] = @ + job.shares, !.paid = @ + job.amount]
  /\ pc' = "pay"
  /\ UNCHANGED <<cash, orders, positions, equity, todo, list, made, job, crashes>>

Pay ==
  /\ pc = "pay"
  /\ cash' = cash - job.amount
  /\ pc' = "orders" /\ job' = None
  /\ UNCHANGED <<orders, positions, trades, equity, todo, list, made, crashes>>

OrdersDone ==
  /\ pc = "orders" /\ todo = {}
  /\ pc' = "sells" /\ todo' = Open
  /\ UNCHANGED <<disk, list, made, job, crashes>>

-----------------------------------------------------------------------------
(* Step 2: the sell rules at the day's close. *)
(* Shares to sell: all of them at the stop or after HoldDays, half on reaching   *)
(* the target, the other half when the close, at the target again, is under its  *)
(* 20-day average (which may be on either side of it).                          *)
EndedAtStop(pos, close) == close <= pos.plan.stop
Ended(pos, close) == close <= pos.plan.stop \/ pos.age >= HoldDays
Reached(pos, close) == ~Ended(pos, close) /\ close >= pos.plan.target
SellAll(pos, close) ==
  \/ Ended(pos, close)
  \/ Reached(pos, close) /\ pos.half
SellHalf(pos, close) == Reached(pos, close) /\ ~pos.half
Half(n) == IF n \div 2 >= 1 THEN n \div 2 ELSE 1

Sale(p, close, n) ==
  /\ job' = [row |-> p, shares |-> n, amount |-> n * close]
  /\ pc' = "sell"

(* The row of a closed position keeps no shares. *)
ClosePosition(p) == positions' = [positions EXCEPT ![p].status = "closed", ![p].shares = 0]

CloseAt(p, close) ==
  /\ positions[p].shares > 0 /\ SellAll(positions[p], close)
  /\ Sale(p, close, positions[p].shares)
  /\ ClosePosition(p)

(* update_position: the row stays open, even when its only share was sold. *)
CutAt(p, close) ==
  /\ positions[p].shares > 0 /\ SellHalf(positions[p], close)
  /\ LET n == Half(positions[p].shares) IN
       /\ Sale(p, close, n)
       /\ positions' = [positions EXCEPT ![p].shares = @ - n, ![p].half = TRUE]

NextSell(p) == /\ pc = "sells" /\ FirstOf(p, todo)
               /\ todo' = todo \ {p}
               /\ UNCHANGED <<cash, orders, trades, equity, list, made, crashes>>

(* No rule applies: the average may also be above the close, or missing. *)
KeepAt(p, close) ==
  /\ positions[p].shares > 0 => ~Ended(positions[p], close) /\ ~SellHalf(positions[p], close)
  /\ UNCHANGED <<positions, job, pc>>

EvaluatePosition(p) ==
  NextSell(p) /\ \E close \in Prices : CloseAt(p, close) \/ CutAt(p, close) \/ KeepAt(p, close)

NoClosePrice(p) == NextSell(p) /\ UNCHANGED <<positions, job, pc>>

RecordSell ==
  /\ pc = "sell"
  /\ trades' = [trades EXCEPT !.sold[job.row] = @ + job.shares, !.got = @ + job.amount]
  /\ pc' = "credit"
  /\ UNCHANGED <<cash, orders, positions, equity, todo, list, made, job, crashes>>

Credit ==
  /\ pc = "credit"
  /\ cash' = cash + job.amount
  /\ pc' = "sells" /\ job' = None
  /\ UNCHANGED <<orders, positions, trades, equity, todo, list, made, crashes>>

SellsDone ==
  /\ pc = "sells" /\ todo = {}
  /\ IF list # None /\ Cardinality(Open) < MaxPositions
       THEN pc' = "buys" /\ todo' = {} ELSE pc' = "value" /\ todo' = Open
  /\ UNCHANGED <<disk, list, made, job, crashes>>

-----------------------------------------------------------------------------
(* Steps 3 and 4: orders for the best signals of the shortlist.  The size is     *)
(* taken from the last stored equity; only this loop's orders are reserved.     *)
Total   == IF equity = None THEN cash ELSE equity
Reserve == (Total * CashPct) \div 100
Lesser(a, b) == IF a < b THEN a ELSE b
Budget  == Lesser((Total * PosPct) \div 100, cash - made.reserved - Reserve)

Full == \/ made.count >= MaxNewPerDay
        \/ MaxPositions - Cardinality(Open) - made.count <= 0

PassOver(plan) == Held(plan.symbol) \/ Queued(plan.symbol) \/ Budget < plan.trigger

NewOrder(plan, n) ==
  [status |-> "pending", plan |-> plan, shares |-> n, age |-> 0]

Queue(plan) ==
  LET n == Budget \div plan.trigger IN
  \E o \in Rows :
      /\ FirstOf(o, Free(orders))
      /\ orders' = [orders EXCEPT ![o] = NewOrder(plan, n)]
      /\ made' = [made EXCEPT !.count = @ + 1, !.reserved = @ + n * plan.trigger]

BuyNext ==
  /\ pc = "buys" /\ list # <<>> /\ ~Full
  /\ IF PassOver(Head(list)) THEN UNCHANGED <<orders, made>> ELSE Queue(Head(list))
  /\ list' = Tail(list)
  /\ UNCHANGED <<cash, positions, trades, equity, pc, todo, job, crashes>>

BuysDone ==
  /\ pc = "buys" /\ (list = <<>> \/ Full)
  /\ pc' = "value" /\ todo' = Open
  /\ UNCHANGED <<disk, list, made, job, crashes>>

(* Step 5: the row of paper_equity; a position without a close counts nothing.   *)
ValuePosition ==
  /\ pc = "value"
  /\ \E p \in todo, close \in Prices \cup {0} :
       /\ FirstOf(p, todo)
       /\ made' = [made EXCEPT !.worth = @ + positions[p].shares * close]
       /\ todo' = todo \ {p}
  /\ UNCHANGED <<disk, pc, list, job, crashes>>

Snapshot ==
  /\ pc = "value" /\ todo = {}
  /\ equity' = cash + made.worth
  /\ Rest
  /\ UNCHANGED <<cash, orders, positions, trades, crashes>>

-----------------------------------------------------------------------------
(* The process ends, or an exception leaves the run, before its next statement. *)
Crash ==
  /\ pc # "idle" /\ crashes < MaxCrashes
  /\ Rest
  /\ crashes' = crashes + 1
  /\ UNCHANGED disk

(* The scheduler's next day; the market need not have drawn a bar since. *)
NextDay ==
  /\ pc = "idle"
  /\ orders' = [o \in Rows |->
       IF orders[o].status # "pending" THEN orders[o]
       ELSE [orders[o] EXCEPT !.age = Lesser(@ + 1, OrderDays + 1)]]
  /\ positions' = [p \in Rows |->
       IF positions[p].status # "open" THEN positions[p]
       ELSE [positions[p] EXCEPT !.age = Lesser(@ + 1, HoldDays)]]
  /\ UNCHANGED <<cash, trades, equity, run, crashes>>

Step == \/ ProcessOrder \/ InsertPosition \/ RecordBuy \/ Pay \/ OrdersDone
        \/ \E p \in Rows : EvaluatePosition(p) \/ NoClosePrice(p)
        \/ RecordSell \/ Credit \/ SellsDone \/ BuyNext \/ BuysDone \/ ValuePosition \/ Snapshot

Next == \/ InitFund \/ StartRun(None) \/ (\E scan \in Scans : \E l \in Shortlists(scan) : StartRun(l)) \/ Step \/ Crash
        \/ NextDay

Spec == Init /\ [][Next]_vars

(* A run goes on to its end, the scheduler starts one a day and days pass; the   *)
(* close of a position is known on infinitely many days, whatever it is.        *)
FairSpec ==
  /\ Spec
  /\ WF_vars(InitFund) /\ WF_vars(Step) /\ WF_vars(StartRun(None))
  /\ SF_vars(NextDay)
  /\ \A p \in Rows : SF_vars(EvaluatePosition(p))
-----------------------------------------------------------------------------
TypeOK ==
  /\ cash \in Int \cup {None} /\ equity \in Int \cup {None}
  /\ orders \in [Rows -> Order] /\ positions \in [Rows -> Position]
  /\ trades \in [bought : [Rows -> Nat], sold : [Rows -> Nat], paid : Nat, got : Nat]
  /\ pc \in {"idle", "orders", "position", "buy", "pay", "sells", "sell", "credit",
             "buys", "value"}
  /\ todo \subseteq Rows /\ list \in Seq(Plans) \cup {None}
  /\ made \in [count : Nat, reserved : Nat, worth : Nat]
  /\ job \in Job \cup {None}
  /\ crashes \in 0..MaxCrashes

(* The five slots are never exceeded and a symbol is held once, although orders  *)
(* queued on different days are not counted against the slots before they fill. *)
SlotsKept ==
  /\ Cardinality(Open) <= MaxPositions
  /\ \A p, q \in Open : positions[p].plan.symbol = positions[q].plan.symbol => p = q

(* However runs are repeated or broken off, an order opens at most one position. *)
OnePositionPerOrder ==
  \A p, q \in Rows :
    /\ positions[p].status # "free" /\ positions[q].status # "free"
    /\ positions[p].order = positions[q].order
    => p = q

(* No share is sold twice: what is held and what was sold never exceed what the  *)
(* fill brought, even when a run ends between a sale and its row in the trades. *)
NoShareSoldTwice ==
  \A p \in Rows : positions[p].status # "free" =>
    positions[p].shares + trades.sold[p] <= orders[positions[p].order].shares

(* While no run was broken off the cash is what the trades say: every purchase   *)
(* and every sale in paper_trades is booked once, each against the cash read     *)
(* after the one before.                                                        *)
Unbooked == CASE pc = "pay" -> -job.amount [] pc = "credit" -> job.amount [] OTHER -> 0
CashMatchesTrades ==
  cash # None /\ crashes = 0 => cash + Unbooked = Capital - trades.paid + trades.got

(* The fund never spends cash it does not have, although queued orders of        *)
(* earlier runs are not reserved.                                               *)
CashCovers == cash # None => cash >= IF pc \in {"position", "buy", "pay"} THEN job.amount ELSE 0
=============================================================================
