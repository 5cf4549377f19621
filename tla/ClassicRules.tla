---------------------------- MODULE ClassicRules ----------------------------
(* The classic strategies (classic/scanner.py, scoring.py, shadow.py and          *)
(* strategies/): the context of a coin, the eleven strategies on its bars, their  *)
(* score, and the choice of a cycle's signals.  side 1 is LONG, -1 SHORT; a       *)
(* position in the 30-day range is in hundredths where it is compared.            *)
EXTENDS Indicators

CONSTANTS Bars,       \* how many bars the code asks for: see BarsAssumption
          Coins,      \* bars of a coin: [d1, h4, h1, m15]
          Cycles,     \* ranked coins of a cycle: [main, week, position, scores]
          None

BarsAssumption == /\ DOMAIN Bars = {"need", "days", "week", "fast", "slow", "slope", "atr", "volume", "swing",
                                    "stop", "platform", "recent", "tail", "half", "quiet", "dip", "back", "month", "pool", "cap"}
                  /\ \A b \in DOMAIN Bars : Bars[b] \in Nat \ {0}

VARIABLE case         \* the coin or the cycle looked at

-----------------------------------------------------------------------------
(* The context of a coin. *)
HasContext(coin) == /\ Len(coin.m15) >= Bars.need /\ Len(coin.h1) >= Bars.need
                    /\ Len(coin.h4) >= Bars.need /\ Len(coin.d1) >= Bars.days

Over(a, b) == <<a[1] * b[2], a[2] * b[1]>>                \* a / b, for b > 0
Absolute(a) == <<AbsDiff(a[1], 0), a[2]>>
Distance(price, h4) ==      \* of the price from the 4-hour average, in ranges
  IF Atr(h4, Bars.atr)[1] = 0 THEN Whole(0)
  ELSE Over(Absolute(Plus(Ema(Closes(h4), Bars.fast), Whole(-price))), Atr(h4, Bars.atr))

HigherLow(bars) == Retreats(-1, bars, Bars.swing)
LowerHigh(bars) == Retreats(1, bars, Bars.swing)
Volume(m15) == ClassicVolRatio(m15, Bars.volume)

Context(coin) ==
  [week |-> Change(coin.d1, Bars.week), position |-> RangePosition(Upto(coin.d1, Bars.month)),
   streak |-> Streak(coin.d1), rising |-> Up(coin.d1[Len(coin.d1)]),
   fast |-> Ema(Closes(coin.h4), Bars.fast), slow |-> Ema(Closes(coin.h4), Bars.slow),
   up |-> EmaRises(Closes(coin.h4), Bars.fast, Bars.slope),
   price |-> coin.m15[Len(coin.m15)].c, distance |-> Distance(coin.m15[Len(coin.m15)].c, coin.h4),
   higherLow |-> HigherLow(coin.h1), lowerHigh |-> LowerHigh(coin.h1), volume |-> Volume(coin.m15)]

AtLeast(f, n) == AtMost(<<n, 100>>, f)        \* of a ratio and hundredths
Exceeds(f, n) == Less(<<n, 100>>, f)
Percent(f, n) == AtMost(Whole(n), f)          \* of a change and per cents
Between(f, lo, hi) == AtLeast(f, lo) /\ ~Exceeds(f, hi)

-----------------------------------------------------------------------------
(* The score: time and space, trend, pattern, volume.  The code asks which        *)
(* strategy it is by the letters in its name, in this order, so that "k3v2" is    *)
(* taken for "k3" before its own branch is reached, and "k4v2" for "k4" but in    *)
(* the first table.                                                              *)
Points(best, good, rest) == CASE best -> 10 [] ~best /\ good -> 6 [] OTHER -> rest
TopIds == {"c4_top", "k3", "k3v2"}
BottomIds == {"c4_bot", "k4", "k4v2"}
TrendIds == {"c1", "c2", "k2"}

PositionPoints(id, p) ==
  CASE id \in TrendIds -> Points(Between(p, 40, 80), Between(p, 30, 90), 2)
    [] id = "k1" -> Points(Between(p, 20, 55), Between(p, 15, 65), 0)
    [] id = "c3" -> Points(Between(p, 20, 60), Between(p, 15, 70), 2)
    [] id \in TopIds -> Points(AtLeast(p, 85), AtLeast(p, 75), 0)
    [] id = "k4v2" -> Points(~Exceeds(p, 10), ~Exceeds(p, 20), 0)
    [] OTHER -> Points(~Exceeds(p, 15), ~Exceeds(p, 25), 0)

WeekPoints(id, week) ==
  LET w == Absolute(week)  AtMostPct(n) == AtMost(w, Whole(n)) IN
  CASE id \in TopIds -> IF Percent(w, 40) THEN 10 ELSE IF Percent(w, 30) THEN 7 ELSE 3
    [] id \in BottomIds -> IF Percent(w, 35) THEN 10 ELSE IF Percent(w, 25) THEN 7 ELSE 3
    [] id = "k1" -> Points(Percent(w, 5) /\ AtMostPct(25), Percent(w, 2) /\ AtMostPct(35), 2)
    [] OTHER -> Points(Percent(w, 10) /\ AtMostPct(35), Percent(w, 5) /\ AtMostPct(50), 2)

StreakPoints(id, streak) ==
  IF id \in TopIds \cup BottomIds THEN Min({10, 3 * streak})
  ELSE CASE streak \in 2..6 -> 10 [] streak > 6 -> 5 [] OTHER -> 2
TimeSpace(id, x) == PositionPoints(id, x.position) + WeekPoints(id, x.week) + StreakPoints(id, x.streak)

AlignmentPoints(id, x) ==
  LET above == Less(x.fast, Whole(x.price))  below == Less(Whole(x.price), x.fast) IN
  CASE id \in TrendIds -> IF ~above THEN 0 ELSE IF Less(x.slow, x.fast) THEN 10 ELSE 5
    [] id = "k1" -> IF Exceeds(x.distance, 200) THEN 0 ELSE IF above THEN 8 ELSE 4
    [] id = "c3" -> IF ~below THEN 0 ELSE IF Less(x.fast, x.slow) THEN 10 ELSE 5
    [] OTHER -> IF AtLeast(x.distance, 150) THEN 10 ELSE IF AtLeast(x.distance, 100) THEN 5 ELSE 0
SlopePoints(id, x) ==
  CASE id \in TrendIds \cup {"k1"} -> IF x.up THEN 5 ELSE 0
    [] id \in {"c3", "k3", "k3v2"} -> IF x.up THEN 0 ELSE 5
    [] OTHER -> 3
StructurePoints(id, x) ==
  IF (IF id \in TopIds \cup {"c3"} THEN x.lowerHigh ELSE x.higherLow) THEN 10 ELSE 3
TrendPoints(id, x) == AlignmentPoints(id, x) + SlopePoints(id, x) + StructurePoints(id, x)

(* A signal has its pattern and its trigger; only C4's pullback may be missing.   *)
PatternPoints(quality) == IF quality THEN 25 ELSE 17

VolumePoints(side, volume, pullback, location) ==
  (CASE AtLeast(volume, 400) -> 10
     [] AtLeast(volume, 200) /\ ~AtLeast(volume, 400) -> 8
     [] AtLeast(volume, 150) /\ ~AtLeast(volume, 200) -> 6
     [] AtLeast(volume, 120) /\ ~AtLeast(volume, 150) -> 3
     [] OTHER -> 0)
  + (IF (IF side = 1 THEN AtLeast(location, 70) ELSE ~Exceeds(location, 30)) THEN 5
     ELSE IF Between(location, 40, 60) THEN 2 ELSE 0)
  + (IF ~Exceeds(pullback, 80) THEN 5 ELSE IF ~Exceeds(pullback, 100) THEN 2 ELSE 0)

Score(id, side, x, quality, pullback, location) ==
  TimeSpace(id, x) + TrendPoints(id, x) + PatternPoints(quality)
  + VolumePoints(side, x.volume, pullback, location)

-----------------------------------------------------------------------------
(* The plan all strategies share: the stop is 0.2 of the range behind the last    *)
(* bars; targets are in tenths of the risk, further away on a large volume.       *)
Stops(side, m15) ==
  Plus(Whole(side * (m15[Len(m15)].c - Extreme(-side, Upto(m15, Bars.stop)))), Times(Atr(m15, Bars.atr), 2, 10))
Allowed(risk, entry) == Less(Whole(0), risk) /\ AtMost(Times(risk, 100, 1), Whole(6 * entry))
Signal(id, side, coin, x, quality, pullback) ==
  LET last  == coin.m15[Len(coin.m15)]
      risk  == Stops(side, coin.m15)
      large == IF id \in {"c4_top", "c4_bot"} THEN AtLeast(x.volume, 400) ELSE AtLeast(x.volume, 200)
      small == IF id \in {"c4_top", "c4_bot"} THEN <<20, 30>> ELSE <<15, 20>>
      wide  == IF id \in {"c4_top", "c4_bot"} THEN <<30, 50>> ELSE <<20, 30>>
  IN  IF ~Allowed(risk, last.c) THEN None
      ELSE [entry |-> last.c, risk |-> risk, targets |-> IF large THEN wide ELSE small,
            score |-> Score(id, side, x, quality, pullback, CloseLocation(last))]

If(condition, signal) == IF condition THEN signal ELSE None

FirstHalf(bars)  == SubSeq(bars, 1, Len(bars) \div 2)
SecondHalf(bars) == SubSeq(bars, Len(bars) \div 2 + 1, Len(bars))
Restart(x) == AtLeast(x.volume, 120)
Ema15(coin) == Ema(Closes(coin.m15), Bars.fast)
Ema1(coin)  == Ema(Closes(coin.h1), Bars.fast)
TwoOfThree(a, b, c) == (a /\ b) \/ (a /\ c) \/ (b /\ c)
Loudest(bars) ==      \* the first bar of the largest volume
  LET top == {i \in DOMAIN bars : bars[i].v = MaxOf(Volumes(bars))} IN bars[Min(top)]

(* Without a baseline each bar of a segment is compared with those before it.     *)
MedianRatio(ratios) ==      \* of ratios in their order
  LET n == Len(ratios) IN
  IF n = 0 THEN Whole(0)
  ELSE IF n % 2 = 1 THEN ratios[(n + 1) \div 2]
  ELSE Times(Plus(ratios[n \div 2], ratios[n \div 2 + 1]), 1, 2)
OwnVolRatio(segment) ==
  LET ratio(i) == <<2 * segment[i].v, MedianOf(Volumes(SubSeq(segment, Max({1, i - Bars.volume}), i - 1)))>> IN
  MedianRatio(SortSeq(SelectSeq([k \in 1..(Len(segment) - 1) |-> ratio(k + 1)], LAMBDA r : r[2] # 0), Less))

-----------------------------------------------------------------------------
(* C1, C2, C3: with the trend. *)
Chased(x, week, distance) ==
  TwoOfThree(Less(Whole(week), x.week), Exceeds(x.position, 90), Exceeds(x.distance, distance))

C1(coin, x) ==
  LET pullback == SegmentVolRatio(SecondHalf(coin.h1), coin.h1) IN
  If(/\ Less(x.slow, x.fast) /\ x.up /\ Less(x.fast, Whole(x.price))
     /\ ~Exceeds(x.distance, 150) /\ ~Chased(x, 40, 200)
     /\ AtLeast(SegmentVolRatio(FirstHalf(coin.h1), coin.h1), 150) /\ ~Exceeds(pullback, 80)
     /\ HigherLow(coin.h1)
     /\ Less(Ema15(coin), Whole(x.price)) /\ Restart(x),
     Signal("c1", 1, coin, x, TRUE, pullback))

C2(coin, x) ==
  LET before   == SubSeq(coin.h1, 1, Len(coin.h1) - Bars.recent)
      platform == Newest(before, Bars.platform)
      high     == Extreme(1, platform)
      low      == Extreme(-1, platform)
      breakout == Loudest(Newest(coin.h1, Bars.recent))
      pullback == OwnVolRatio(Upto(coin.h1, Bars.dip))
  IN  If(/\ ~Chased(x, 30, 100)
         /\ Len(coin.h1) >= Bars.platform + Bars.recent
         /\ 100 * (high - low) <= 8 * low
         /\ PlatformTests(1, platform) >= 2 /\ PlatformTests(-1, platform) >= 2
         /\ breakout.c > high
         /\ AtLeast(ClassicVolRatio(Append(before, breakout), Bars.volume), 200)
         /\ AtLeast(CloseLocation(breakout), 70) /\ ~Exceeds(UpperWick(breakout), 30)
         /\ ~Exceeds(x.distance, 200)
         /\ 100 * x.price >= 98 * high \/ AtMost(Ema15(coin), Whole(x.price))
         /\ ~Exceeds(pullback, 80) /\ HigherLow(Upto(coin.h1, Bars.back)) /\ Restart(x),
         Signal("c2", 1, coin, x, TRUE, pullback))

C3(coin, x) ==
  LET rally == SegmentVolRatio(SecondHalf(coin.h1), coin.h1) IN
  If(/\ Less(x.fast, x.slow) /\ ~x.up /\ Less(Whole(x.price), x.fast)
     /\ ~TwoOfThree(Less(x.week, Whole(-35)), Less(x.position, <<15, 100>>), Exceeds(x.distance, 200))
     /\ AtLeast(SegmentVolRatio(FirstHalf(coin.h1), coin.h1), 150) /\ ~Exceeds(rally, 80)
     /\ LowerHigh(coin.h1)
     /\ Less(Whole(x.price), Ema15(coin)) /\ Restart(x),
     Signal("c3", -1, coin, x, TRUE, rally))

(* C4: against it, at the top and at the bottom. *)
C4Loudest(coin) == Loudest(Upto(coin.h1, Bars.recent))
C4Volume(coin) ==
  ClassicVolRatio(Append(SubSeq(coin.h1, 1, Len(coin.h1) - Bars.recent), C4Loudest(coin)), Bars.volume)

C4Top(coin, x) ==
  LET bar == C4Loudest(coin)  rally == OwnVolRatio(Upto(coin.h1, Bars.tail)) IN
  If(/\ x.streak >= 3 /\ Percent(x.week, 30) /\ AtLeast(x.position, 85) /\ AtLeast(x.distance, 150)
     /\ AtLeast(C4Volume(coin), 300)
     /\ AtLeast(UpperWick(bar), 30) \/ ~Exceeds(CloseLocation(bar), 50) \/ bar.c <= bar.o
     /\ Less(Whole(coin.h1[Len(coin.h1)].c), Ema1(coin)) /\ LowerHigh(coin.h1)
     /\ Less(Whole(x.price), Ema15(coin)) /\ Restart(x),
     Signal("c4_top", -1, coin, x, ~Exceeds(rally, 300) /\ x.lowerHigh, rally))

C4Bot(coin, x) ==
  LET bar == C4Loudest(coin)  bounce == OwnVolRatio(Upto(coin.h1, Bars.tail)) IN
  If(/\ x.streak >= 3 /\ AtMost(x.week, Whole(-25)) /\ ~Exceeds(x.position, 15) /\ AtLeast(x.distance, 150)
     /\ AtLeast(C4Volume(coin), 300)
     /\ AtLeast(LowerWick(bar), 30) \/ AtLeast(CloseLocation(bar), 50) \/ bar.c >= bar.o
     /\ HigherLow(coin.h1)
     /\ Less(Ema15(coin), Whole(x.price)) /\ Restart(x),
     Signal("c4_bot", 1, coin, x, ~Exceeds(bounce, 100) /\ x.higherLow, bounce))

-----------------------------------------------------------------------------
(* K1: a launch from the lower part of the range; K2: a pullback in a trend.      *)
K1(coin, x) ==
  LET n        == Len(coin.h1)
      platform == SubSeq(coin.h1, Max({1, n - 2 * Bars.half + 1}), n - Bars.half)
      over     == SelectSeq(Newest(coin.h1, Bars.half), LAMBDA b : b.c > Extreme(1, platform))
      breakout == Loudest(over)
      m        == Len(coin.m15)
      pullback == SegmentVolRatio(SubSeq(coin.m15, Max({1, m - Bars.quiet + 1}), m - 2), coin.m15)
  IN  If(/\ Between(x.position, 15, 65) /\ AtMost(x.week, Whole(35)) /\ ~Exceeds(x.distance, 200)
         /\ over # <<>>
         /\ AtLeast(SegmentVolRatio(<<breakout>>, coin.h1), 200) /\ AtLeast(CloseLocation(breakout), 70)
         /\ AtMost(Ema15(coin), Whole(x.price)) /\ Restart(x)
         /\ ~Exceeds(pullback, 130)
         /\ x.price >= Extreme(-1, platform)
         /\ HigherLow(coin.h1),
         Signal("k1", 1, coin, x, TRUE, pullback))

K2(coin, x) ==
  LET pullback == SegmentVolRatio(SecondHalf(coin.h1), coin.h1) IN
  If(/\ Less(x.slow, x.fast) /\ x.up /\ AtMost(x.fast, Whole(x.price)) /\ ~Exceeds(x.distance, 200)
     /\ ~Chased(x, 40, 200)
     /\ AtLeast(SegmentVolRatio(FirstHalf(coin.h1), coin.h1), 150) /\ ~Exceeds(pullback, 80)
     /\ HigherLow(coin.h1)
     /\ AtMost(Ema15(coin), Whole(x.price)) /\ Restart(x),
     Signal("k2", 1, coin, x, TRUE, pullback))

(* K3 and K3v2: exhaustion at the top.  K4 and K4v2: panic at the bottom.  The    *)
(* second versions ask for two of three signs of a mature trend instead of all.   *)
Peak(coin) == Loudest(Upto(coin.h1, Bars.recent))
PeakVolume(coin) == SegmentVolRatio(<<Peak(coin)>>, coin.h1)
Recent(coin) == SegmentVolRatio(Upto(coin.h1, Bars.tail), coin.h1)

K3(coin, x) ==
  If(/\ x.rising /\ x.streak >= 3 /\ Percent(x.week, 30) /\ AtLeast(x.position, 85) /\ AtLeast(x.distance, 150)
     /\ AtLeast(PeakVolume(coin), 300)
     /\ Less(CloseLocation(Peak(coin)), <<1, 2>>) \/ Exceeds(UpperWick(Peak(coin)), 35)
     /\ Less(Whole(coin.h1[Len(coin.h1)].c), Ema1(coin)) \/ LowerHigh(coin.h1)
     /\ ~Exceeds(Recent(coin), 150)
     /\ Less(Whole(x.price), Ema15(coin)) /\ Restart(x),
     Signal("k3", -1, coin, x, TRUE, Recent(coin)))

K3v2AllSigns(coin, x) ==
  If(/\ AtLeast(x.position, 80)
     /\ TrendAge(-1, coin.d1, 2) >= 3 /\ Percent(x.week, 30) /\ AtLeast(x.distance, 150)
     /\ AtLeast(PeakVolume(coin), 300)
     /\ Less(CloseLocation(Peak(coin)), <<1, 2>>) \/ Exceeds(UpperWick(Peak(coin)), 35)
     /\ Less(Whole(coin.h1[Len(coin.h1)].c), Ema1(coin)) \/ LowerHigh(coin.h1)
     /\ ~Exceeds(Recent(coin), 150)
     /\ Less(Whole(x.price), Ema15(coin)) /\ Restart(x),
     Signal("k3v2", -1, coin, x, TRUE, Recent(coin)))
K3v2(coin, x) ==
  If(/\ AtLeast(x.position, 80)
     /\ TwoOfThree(TrendAge(-1, coin.d1, 2) >= 3, Percent(x.week, 30), AtLeast(x.distance, 150))
     /\ AtLeast(PeakVolume(coin), 300)
     /\ Less(CloseLocation(Peak(coin)), <<1, 2>>) \/ Exceeds(UpperWick(Peak(coin)), 35)
     /\ Less(Whole(coin.h1[Len(coin.h1)].c), Ema1(coin)) \/ LowerHigh(coin.h1)
     /\ ~Exceeds(Recent(coin), 150)
     /\ Less(Whole(x.price), Ema15(coin)) /\ Restart(x),
     Signal("k3v2", -1, coin, x, TRUE, Recent(coin)))

Reclaimed(coin) ==
  \E b \in Range(Upto(coin.h1, Bars.tail)) : AtMost(Ema1(coin), Whole(b.c))

K4(coin, x) ==
  If(/\ ~x.rising /\ x.streak >= 3 /\ AtMost(x.week, Whole(-25)) /\ ~Exceeds(x.position, 15)
     /\ Less(Whole(x.price), x.fast) /\ AtLeast(x.distance, 150)
     /\ AtLeast(PeakVolume(coin), 300)
     /\ Exceeds(CloseLocation(Peak(coin)), 50) \/ Exceeds(LowerWick(Peak(coin)), 35)
     /\ HigherLow(coin.h1) /\ Reclaimed(coin)
     /\ AtMost(Ema15(coin), Whole(x.price)) /\ Restart(x) /\ HigherLow(coin.m15),
     Signal("k4", 1, coin, x, TRUE, Whole(1)))

K4v2(coin, x) ==
  If(/\ ~Exceeds(x.position, 20)
     /\ TwoOfThree(TrendAge(1, coin.d1, 2) >= 3, AtMost(x.week, Whole(-25)),
                   Less(Whole(x.price), x.fast) /\ AtLeast(x.distance, 150))
     /\ AtLeast(PeakVolume(coin), 300)
     /\ Exceeds(CloseLocation(Peak(coin)), 50) \/ Exceeds(LowerWick(Peak(coin)), 35)
     /\ HigherLow(coin.h1) /\ Reclaimed(coin)
     /\ AtMost(Ema15(coin), Whole(x.price)) /\ Restart(x) /\ HigherLow(coin.m15),
     Signal("k4v2", 1, coin, x, TRUE, Whole(1)))

(* Why the shadow of K1 or K2 refuses a signal of its strategy. *)
K1Shadow(coin) ==
  LET last == coin.m15[Len(coin.m15)] IN
  (IF Up(last) THEN {} ELSE {"CANDLE_NOT_BULLISH"})
  \cup (IF AtMost(Ema15(coin), Whole(last.c)) THEN {} ELSE {"NOT_ABOVE_EMA20"})
  \cup (IF last.c > coin.m15[Len(coin.m15) - 1].h THEN {} ELSE {"NOT_BREAK_PREVIOUS_HIGH"})
K2Shadow(x) == IF AtLeast(x.position, 35) THEN {} ELSE {"RANGE_POS_TOO_LOW"}
Refusals(id, coin, x) == IF id = "k1" THEN K1Shadow(coin) ELSE K2Shadow(x)

-----------------------------------------------------------------------------
(* The choice of a cycle.  Gainers and losers have strategies of their own; the   *)
(* second versions look at the union of three rankings of a longer list.          *)
GainerLongs  == {"c1", "c2", "k1", "k2"}
GainerShorts == {"c4_top", "k3", "k3v2"}
LoserLongs   == {"c4_bot", "k4", "k4v2"}
LoserShorts  == {"c3"}
AllIds == GainerLongs \cup GainerShorts \cup LoserLongs \cup LoserShorts
Evaluate(id, coin, x) ==
  CASE id = "c1" -> C1(coin, x) [] id = "c2" -> C2(coin, x) [] id = "c3" -> C3(coin, x)
    [] id = "c4_top" -> C4Top(coin, x) [] id = "c4_bot" -> C4Bot(coin, x)
    [] id = "k1" -> K1(coin, x) [] id = "k2" -> K2(coin, x) [] id = "k3" -> K3(coin, x)
    [] id = "k4" -> K4(coin, x) [] id = "k3v2" -> K3v2(coin, x) [] OTHER -> K4v2(coin, x)
SignalsIn(coin, x, ids) == {id \in ids : HasContext(coin) /\ Evaluate(id, coin, x) # None}
Signals(coin, ids) == SignalsIn(coin, Context(coin), ids)

(* A cycle over ranked coins: those of the main list for each strategy, then the   *)
(* second version on the coins that rank high in one of three orders.             *)
Ids(side) == IF side = 1 THEN <<"c1", "c2", "c4_top", "k1", "k2", "k3">> ELSE <<"c3", "c4_bot", "k4">>
Row(id, coins, k) == [id |-> id, coin |-> k, score |-> coins[k].scores[id]]
MainRows(side, coins) ==
  FlattenSeq([k \in DOMAIN coins |->
    IF coins[k].main THEN [j \in DOMAIN Ids(side) |-> Row(Ids(side)[j], coins, k)] ELSE <<>>])

Leading(coins, Before2(_, _)) ==
  {k \in DOMAIN coins : Cardinality({j \in DOMAIN coins : Before2(j, k)}) < Bars.pool}
Pool(side, coins) ==
  LET by(f, j, k) == LET a == side * f[j]  b == side * f[k] IN a > b \/ (a = b /\ j < k)
      week == [k \in DOMAIN coins |-> coins[k].week]  position == [k \in DOMAIN coins |-> coins[k].position]
  IN  Leading(coins, <) \cup Leading(coins, LAMBDA j, k : by(week, j, k))
      \cup Leading(coins, LAMBDA j, k : by(position, j, k))
SecondRows(side, coins) ==
  LET id == IF side = 1 THEN "k3v2" ELSE "k4v2" IN
  FlattenSeq([k \in DOMAIN coins |-> IF k \in Pool(side, coins) THEN <<Row(id, coins, k)>> ELSE <<>>])
Rows(gainers, losers) == MainRows(1, gainers) \o MainRows(-1, losers)
                         \o SecondRows(1, gainers) \o SecondRows(-1, losers)

(* The first best row of each strategy, and of these the first best ones. *)
PassedRows(rows) == SelectSeq(rows, LAMBDA r : r.score >= 75)
BestIsFirst(rows, id) == Min({i \in DOMAIN rows : rows[i].id = id})
Best(rows, id) ==
  LET mine == {i \in DOMAIN rows : rows[i].id = id}
      top  == {i \in mine : \A j \in mine : rows[j].score <= rows[i].score}
  IN  Min(top)
Chosen(rows) ==
  LET ids == {r.id : r \in Range(rows)}
      seen(id) == Min({i \in DOMAIN rows : rows[i].id = id})
      score(id) == rows[Best(rows, id)].score
      ahead(a, b) == score(a) > score(b) \/ (score(a) = score(b) /\ seen(a) < seen(b))
  IN  {rows[Best(rows, id)] : id \in {id \in ids : Cardinality({o \in ids : ahead(o, id)}) < Bars.cap}}

-----------------------------------------------------------------------------
LookCoin  == case = None /\ case' \in [kind : {"coin"}, coin : Coins]
LookCycle == case = None /\ case' \in [kind : {"cycle"}, gainers : Cycles, losers : Cycles]
Init == case = None
Next == LookCoin \/ LookCycle
Spec == Init /\ [][Next]_case

Is(kind) == case # None /\ case.kind = kind

(* K3v2 and K4v2 loosen K3 and K4: what the first version takes the second takes   *)
(* too, with the same plan; at the top even with the same score.                 *)
LooserTakesToo ==
  Is("coin") /\ HasContext(case.coin) =>
    \A x \in {Context(case.coin)} :
      \A k3 \in {K3(case.coin, x)}, k3v2 \in {K3v2(case.coin, x)}, k4 \in {K4(case.coin, x)}, k4v2 \in {K4v2(case.coin, x)} :
        /\ k3 # None => k3v2 = k3
        /\ k4 # None => k4v2 # None /\ [k4v2 EXCEPT !.score = k4.score] = k4

(* A shadow only adds conditions: where it repeats one of its strategy, the two    *)
(* computations agree, and it never refuses a signal for being under the average. *)
ShadowOnlyAdds ==
  Is("coin") =>
    \A id \in Signals(case.coin, {"k1", "k2"}) :
      "NOT_ABOVE_EMA20" \notin Refusals(id, case.coin, Context(case.coin))

(* On one coin's bars a strategy of the gainers that buys and one that sells, or   *)
(* two of the losers, never agree to trade, but for C2, which may buy under the   *)
(* 15-minute average.                                                           *)
OnlyBreakoutOpposes ==
  Is("coin") =>
    \A taken \in {Signals(case.coin, AllIds)} :
      /\ taken \cap GainerShorts # {} => taken \cap GainerLongs \subseteq {"c2"}
      /\ taken \cap LoserShorts # {} => taken \cap LoserLongs = {}

(* A signal's stop is behind every bar it was taken from, by at most 6 per cent,    *)
(* its second target is further than its first, and its score is out of 100.      *)
ClassicPlanSound ==
  Is("coin") /\ HasContext(case.coin) =>
    \A x \in {Context(case.coin)} : \A id \in AllIds : \A s \in {Evaluate(id, case.coin, x)} :
      LET side == IF id \in GainerLongs \cup LoserLongs THEN 1 ELSE -1
          m15 == case.coin.m15
      IN  s # None =>
            /\ \A i \in Max({1, Len(m15) - Bars.stop + 1})..Len(m15) :
                 Less(Whole(side * s.entry + Tip(-side, m15[i])), s.risk)
            /\ AtMost(Times(s.risk, 100, 6), Whole(s.entry))
            /\ 10 < s.targets[1] /\ s.targets[1] < s.targets[2]
            /\ s.score \in 17..100

(* Nothing that was left out of a cycle scored more than what was taken of its      *)
(* strategy, or, when its strategy was left out, than any signal taken.            *)
CycleKeepsBest ==
  Is("cycle") =>
    LET rows == PassedRows(Rows(case.gainers, case.losers))
        kept == Chosen(rows)
    IN  /\ Cardinality(kept) = Min({Bars.cap, Cardinality({r.id : r \in Range(rows)})})
        /\ \A r \in Range(rows) : \A k \in kept :
             r.score > k.score => r.id # k.id /\ \E b \in kept : b.id = r.id /\ b.score >= r.score
=============================================================================
