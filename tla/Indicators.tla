----------------------------- MODULE Indicators -----------------------------
(* The indicators the strategies share (v3/strategies/wave_common.py,            *)
(* reversal_indicators.py, rsd_common.py, classic/indicators.py) on bars and     *)
(* series of whole numbers.  A mean, a ratio or an average is a fraction, as the *)
(* code's Decimals are exact at this size; undefined values are <<0, 1>>, or     *)
(* None where the code tells them apart.                                        *)
EXTENDS Integers, Sequences, SequencesExt, FiniteSetsExt

Bar(o, h, l, c, v) == [o |-> o, h |-> h, l |-> l, c |-> c, v |-> v]
Closes(bars) == [i \in DOMAIN bars |-> bars[i].c]
Newest(s, n) == SubSeq(s, Len(s) - n + 1, Len(s))   \* s[-n:], for n <= Len(s)
Upto(s, n)   == IF Len(s) <= n THEN s ELSE Newest(s, n)   \* s[-n:]
SumOf(s)     == FoldSeq(LAMBDA x, y : x + y, 0, s)
MaxOf(s)     == Max({s[i] : i \in DOMAIN s})
MinOf(s)     == Min({s[i] : i \in DOMAIN s})
Highs(bars)  == [i \in DOMAIN bars |-> bars[i].h]
Volumes(bars) == [i \in DOMAIN bars |-> bars[i].v]
AbsDiff(x, y) == IF x > y THEN x - y ELSE y - x

(* Fractions with positive denominators; side 1 is a rise, side -1 a fall. *)
Whole(x)    == <<x, 1>>
Plus(a, b)  == <<a[1] * b[2] + b[1] * a[2], a[2] * b[2]>>
Times(a, n, d) == <<a[1] * n, a[2] * d>>
Minus(a, b)  == Plus(a, Times(b, -1, 1))
Less(a, b)  == a[1] * b[2] < b[1] * a[2]
AtMost(a, b) == ~Less(b, a)
Beyond(side, a, b) == IF side = 1 THEN Less(b, a) ELSE Less(a, b)

-----------------------------------------------------------------------------
(* The exponential average of a series, 2 / (period + 1) to the newest value,    *)
(* starting from the first one.                                                 *)
Smoothed(start, values, period) ==
  FoldLeft(LAMBDA e, v : <<2 * v * e[2] + (period - 1) * e[1], (period + 1) * e[2]>>, start, values)
Ema(values, period) == Smoothed(<<values[1], 1>>, Tail(values), period)
(* Other parts start it from the mean of the first period values. *)
SeededEma(values, period) ==
  Smoothed(<<SumOf(SubSeq(values, 1, period)), period>>, SubSeq(values, period + 1, Len(values)), period)

EmaRises(values, period, lookback) ==
  Len(values) >= period + lookback
  /\ Less(Ema(SubSeq(values, 1, Len(values) - lookback), period), Ema(values, period))

(* Relative strength: gains of the last changes over gains and losses.  Without  *)
(* a loss it is 100, also when nothing has changed.                             *)
Rsi(closes, period) ==
  LET n     == Len(closes)
      gains == [i \in 1..period |-> IF closes[n - i + 1] > closes[n - i] THEN closes[n - i + 1] - closes[n - i] ELSE 0]
      drops == [i \in 1..period |-> IF closes[n - i + 1] < closes[n - i] THEN closes[n - i] - closes[n - i + 1] ELSE 0]
  IN  IF SumOf(drops) = 0 THEN <<100, 1>> ELSE <<100 * SumOf(gains), SumOf(gains) + SumOf(drops)>>

TrueRange(bars, i) ==
  Max({bars[i].h - bars[i].l, AbsDiff(bars[i].h, bars[i - 1].c), AbsDiff(bars[i].l, bars[i - 1].c)})
Atr(bars, period) == <<SumOf([i \in 1..period |-> TrueRange(bars, Len(bars) - period + i)]), period>>

(* The newest volume against the mean of the period bars before it. *)
Before(bars, period) == SubSeq(bars, Len(bars) - period, Len(bars) - 1)
VolMa(bars, period) == IF Len(bars) < period + 1 THEN <<0, 1>>
                       ELSE <<SumOf(Volumes(Before(bars, period))), period>>
VolRatio(bars, period) ==
  LET m == VolMa(bars, period) IN IF m[1] = 0 THEN <<0, 1>> ELSE <<bars[Len(bars)].v * m[2], m[1]>>

(* The classic strategies compare with the median instead. *)
MiddleOf(t) == LET n == Len(t) IN IF n % 2 = 1 THEN 2 * t[(n + 1) \div 2] ELSE t[n \div 2] + t[n \div 2 + 1]
MedianOf(s) == MiddleOf(SortSeq(s, LAMBDA x, y : x < y))      \* twice the median
Over0(x, y) == IF y = 0 THEN <<0, 1>> ELSE <<x, y>>
ClassicVolRatio(bars, period) ==
  IF Len(bars) < period + 1 THEN <<0, 1>>
  ELSE Over0(2 * bars[Len(bars)].v, MedianOf(Volumes(Before(bars, period))))
SegmentVolRatio(segment, baseline) ==
  IF segment = <<>> \/ baseline = <<>> THEN <<0, 1>>
  ELSE Over0(MedianOf(Volumes(segment)), MedianOf(Volumes(baseline)))

-----------------------------------------------------------------------------
(* Shapes of a bar, each a fraction of its range. *)
Top(b)    == IF b.o > b.c THEN b.o ELSE b.c
Bottom(b) == IF b.o > b.c THEN b.c ELSE b.o
OfRange(b, x)   == IF b.h = b.l THEN <<0, 1>> ELSE <<x, b.h - b.l>>
UpperWick(b)    == OfRange(b, b.h - Top(b))
LowerWick(b)    == OfRange(b, Bottom(b) - b.l)
BodyRatio(b)    == OfRange(b, Top(b) - Bottom(b))
CloseLocation(b) == OfRange(b, b.c - b.l)

(* Extremes: side 1 looks up, side -1 down. *)
Tip(side, b)  == IF side = 1 THEN b.h ELSE -b.l      \* larger is more extreme
Extreme(side, bars) == side * MaxOf([i \in DOMAIN bars |-> Tip(side, bars[i])])

(* Pivots: strictly beyond two bars on either side. *)
Pivots(side, bars) ==
  {i \in 3..(Len(bars) - 2) : \A d \in {1, 2} : /\ Tip(side, bars[i]) > Tip(side, bars[i - d])
                                               /\ Tip(side, bars[i]) > Tip(side, bars[i + d])}
(* Swings of the classic strategies: not beyond by a neighbour within window. *)
Swings(side, bars, window) ==
  {i \in (window + 1)..(Len(bars) - window) : \A d \in 1..window :
      /\ Tip(side, bars[i]) >= Tip(side, bars[i - d]) /\ Tip(side, bars[i]) >= Tip(side, bars[i + d])}
LastOf(S)   == Max(S)
BeforeLast(S) == Max(S \ {Max(S)})
TwoOf(S)    == \E i, j \in S : i # j

(* The newest swing low is higher, the newest swing high lower than the one      *)
(* before: side is that of the swings.                                          *)
Retreats(side, bars, window) ==
  LET S == Swings(side, bars, window) IN
  TwoOf(S) /\ Tip(side, bars[LastOf(S)]) < Tip(side, bars[BeforeLast(S)])

TrendAge(side, bars, window) ==      \* of the trend away from the last swing
  LET S == Swings(side, bars, window) IN IF S = {} THEN 0 ELSE Len(bars) - LastOf(S)

(* Days in a row with the colour of the last one. *)
Up(b) == b.c > b.o
Streak(bars) ==
  IF Len(bars) < 2 THEN 0
  ELSE Max({n \in 1..Len(bars) : \A i \in (Len(bars) - n + 1)..Len(bars) : Up(bars[i]) = Up(bars[Len(bars)])})

RangePosition(bars) ==
  LET lo == Extreme(-1, bars)  hi == Extreme(1, bars) IN
  IF hi = lo THEN <<1, 2>> ELSE <<bars[Len(bars)].c - lo, hi - lo>>
Change(bars, n) ==
  IF Len(bars) < n + 1 THEN <<0, 1>>
  ELSE <<100 * (bars[Len(bars)].c - bars[Len(bars) - n].c), bars[Len(bars) - n].c>>

(* A consolidation: how often its bounds were touched, within a tenth.           *)
PlatformTests(side, bars) ==
  LET width == Extreme(1, bars) - Extreme(-1, bars) IN
  Cardinality({i \in DOMAIN bars : 10 * Tip(side, bars[i]) >= 10 * side * Extreme(side, bars) - width})
=============================================================================
