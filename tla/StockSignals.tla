---------------------------- MODULE StockSignals ----------------------------
(* The rules of us-stock-hunter for one stock: the three strategies, the score,   *)
(* the entry plan and the trade readiness, as operators over a day's figures.    *)
(* Prices are in cents, ratios in hundredths, returns and distances in per cent, *)
(* scores in tenths; a price level is rounded to the cent as the code rounds it. *)
EXTENDS Integers, FiniteSets, Sequences

CONSTANTS Stocks,      \* figures of a stock with moving averages and a 52-week high
          Paths,       \* closes in per cent of the 60-day average, oldest first
          Window, Lead, LeadDays, MinBelow,   \* 15, 30, 10 and 3 bars
          None

VARIABLE case          \* the stock or the path looked at

Max2(x, y) == IF x > y THEN x ELSE y
Level(price, mille) == (price * mille + 500) \div 1000

-----------------------------------------------------------------------------
(* Strategy A on a path: the latest crossing of the average from below, after    *)
(* MinBelow closes under it, not longer ago than Window, and a pullback since.   *)
Recent(path) == IF Len(path) <= Window + Lead THEN path
                ELSE SubSeq(path, Len(path) - Window - Lead + 1, Len(path))
Crossings(r) == {i \in 2..Len(r) : r[i - 1] < 100 /\ r[i] >= 100}
Cross(r) == CHOOSE i \in Crossings(r) : \A j \in Crossings(r) : j <= i
Below(r, i) == {j \in Max2(1, i - LeadDays)..(i - 1) : r[j] < 100}
PeakSince(r, i) == CHOOSE p \in {r[j] : j \in i..Len(r)} : \A j \in i..Len(r) : r[j] <= p

Ma60Reclaim(path) ==
  LET r == Recent(path)
      last == r[Len(r)]
  IN  /\ Crossings(r) # {}
      /\ Cardinality(Below(r, Cross(r))) >= MinBelow
      /\ Len(r) - Cross(r) <= Window
      /\ 94 <= last /\ last <= 110
      /\ Cross(r) < Len(r)
      /\ PeakSince(r, Cross(r)) * 100 > last * 101

(* Strategy B: averages in order, close over the 50-day one, near one of two,    *)
(* at most 15 per cent under the 52-week high.                                  *)
Near(close, ma) == 20 * (IF close >= ma THEN close - ma ELSE ma - close) <= ma

StrongTrend(s) ==
  /\ s.ma200 # None /\ s.ma20 > s.ma50 /\ s.ma50 > s.ma200
  /\ s.close >= s.ma50
  /\ 100 * (s.high52 - s.close) <= 15 * s.high52
  /\ Near(s.close, s.ma20) \/ Near(s.close, s.ma50)

(* Strategy C: today's high over the 52-week high before today, with volume.     *)
NewHigh(s) ==
  /\ s.high > s.prior52 /\ 100 * s.close > 99 * s.prior52
  /\ s.vol >= 150
  /\ s.close >= s.ma20 /\ s.close >= s.ma50

-----------------------------------------------------------------------------
(* The score, 0 to 100 points in tenths. *)
Points(cond, n) == IF cond THEN n ELSE 0
TrendScore(s) ==
  Points(s.close > s.ma20, 80) + Points(s.close > s.ma50, 80)
  + Points(s.ma200 # None /\ s.close > s.ma200, 70) + Points(s.ma20 > s.ma50, 40)
  + Points(s.ma200 # None /\ s.ma20 > s.ma50 /\ s.ma50 > s.ma200, 30)

Strength(lead, weight) ==
  CASE lead > 10 -> 10 * weight
    [] lead > 5 /\ lead <= 10 -> 8 * weight
    [] lead > 2 /\ lead <= 5 -> 6 * weight
    [] lead > 0 /\ lead <= 2 -> 3 * weight
    [] OTHER -> 0
RelativeStrength(s) == Strength(s.lead20, 12) + Strength(s.lead60, 13)

VolumeScore(s) ==
  CASE s.vol >= 200 -> 200
    [] s.vol >= 150 /\ s.vol < 200 -> 150
    [] s.vol >= 120 /\ s.vol < 150 -> 100
    [] s.vol >= 100 /\ s.vol < 120 -> 70
    [] s.vol >= 80 /\ s.vol < 100 -> 40
    [] OTHER -> 20

Within(s, percent) == 100 * (s.high52 - s.close) <= percent * s.high52
PullbackScore(s) ==
  IF Within(s, 3) THEN 150 ELSE IF Within(s, 7) THEN 120 ELSE IF Within(s, 12) THEN 90
  ELSE IF Within(s, 20) THEN 60 ELSE IF Within(s, 30) THEN 30 ELSE 10

TotalScore(s) == TrendScore(s) + RelativeStrength(s) + VolumeScore(s) + PullbackScore(s) + s.sector

-----------------------------------------------------------------------------
(* The entry plan of a strategy. *)
Plan(low, high, trigger, stop, target) ==
  [low |-> low, high |-> high, trigger |-> trigger, stop |-> stop, target |-> target,
   risk |-> Max2(trigger - stop, 1), reward |-> Max2(target - trigger, 0)]

PlanStrongTrend(s) ==
  LET anchor == IF Near(s.close, s.ma20) THEN s.ma20 ELSE s.ma50 IN
  Plan(Level(anchor, 980), Level(anchor, 1020), s.yhigh,
       Max2(Level(s.low5, 990), Level(s.ma50, 980)), Level(s.close, 1100))

PlanNewHigh(s) ==
  LET trigger == Max2(s.close, s.prior52) IN
  Plan(s.prior52, Level(s.prior52, 1050), trigger, Level(s.prior52, 935), Level(trigger, 1150))

(* The code rounds reward / risk to a tenth and risk / trigger to a hundredth.   *)
RR(plan)   == (20 * plan.reward + plan.risk) \div (2 * plan.risk)          \* tenths
Risk(plan) == (20000 * plan.risk + plan.trigger) \div (2 * plan.trigger)   \* hundredths of %

Readiness(plan, close, vol, score) ==
  CASE 100 * close > 102 * plan.high -> "wait"
    [] close < plan.low /\ 100 * close <= 102 * plan.high -> "early"
    [] OTHER ->
       IF /\ close <= plan.high \/ 100 * close <= 101 * plan.trigger
          /\ RR(plan) >= 18 /\ Risk(plan) <= 800 /\ vol >= 120 /\ score >= 700
       THEN "focus"
       ELSE IF Risk(plan) > 800 THEN "risk" ELSE "watch"

-----------------------------------------------------------------------------
Init == case = None
Look == case = None /\ case' \in [kind : {"stock"}, stock : Stocks]
                            \cup [kind : {"path"}, path : Paths]
Next == Look
Spec == Init /\ [][Next]_case

Stock == case # None /\ case.kind = "stock"
Path  == case # None /\ case.kind = "path"
Focus(plan) == Readiness(plan, case.stock.close, case.stock.vol, TotalScore(case.stock)) = "focus"
Sound(plan) == plan.stop < plan.trigger /\ plan.trigger < plan.target /\ plan.low <= plan.high

(* A stock to be bought has its stop under the trigger and its target over it.    *)
(* The strong trend's trigger is yesterday's high: after a gap up from under the *)
(* 50-day average the stop lies over it, and the floor under the risk makes the  *)
(* reward look large; that is the only way to an upside-down plan.               *)
FocusIsSound ==
  Stock => /\ NewHigh(case.stock) /\ Focus(PlanNewHigh(case.stock)) => Sound(PlanNewHigh(case.stock))
           /\ StrongTrend(case.stock) /\ Focus(PlanStrongTrend(case.stock))
                /\ case.stock.yhigh > Level(case.stock.ma50, 980)
              => Sound(PlanStrongTrend(case.stock))

(* A stock whose close, strength or volume is better never scores less. *)
ScoreMonotone ==
  Stock => LET s == case.stock
               Rises == {[s EXCEPT !.close = @ + d] : d \in {1, 100, 400}}
                        \cup {[s EXCEPT !.vol = @ + d] : d \in {1, 30, 60}}
                        \cup {[s EXCEPT !.lead20 = @ + d, !.lead60 = @ + d] : d \in {1, 4}}
           IN  /\ TotalScore(s) \in 0..1000
               /\ \A t \in Rises : TotalScore(t) >= TotalScore(s)

(* A reclaim is one: the price was under the average, rose over it inside the     *)
(* window, stayed over it or fell back once, and is under its high since.        *)
ReclaimIsPullback ==
  Path /\ Ma60Reclaim(case.path) =>
    LET p == case.path  n == Len(p) IN
    \E i \in Max2(2, n - Window)..(n - 1) :
      /\ p[i] >= 100 /\ p[i - 1] < 100
      /\ \A j \in i..(n - 1) : p[j] < 100 => p[j + 1] < 100
      /\ \E j \in i..(n - 1) : p[j] > p[n]
=============================================================================
