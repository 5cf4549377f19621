------------------------------ MODULE ScoreRules ------------------------------
(* The unified score of a signal (v3/scoring/engine.py, models.py and the mapping  *)
(* of classic/telegram_push.py): volume 30, trend 25, entry position 20, risk and  *)
(* reward 15, fit to the strategy 10.  Ratios are in hundredths, quote volume in   *)
(* millions, the stop and the distance from an average in tenths of a per cent,    *)
(* reward in tenths; 0 stands for a field the candidate does not have.            *)
EXTENDS Indicators

CONSTANTS Bars,        \* what the code asks for: periods, lengths and fetch limits
          Candidates,  \* [id, side, quote, ratio, reward, stop, change, fast, slow, regime]
          Histories,   \* [d1, h4, h1, m15], the last bar of each still open
          Breakdowns,  \* of the classic score: [volume, trend, space, pattern, stop, reward]
          None

Frames == {"d1", "h4", "h1", "m15"}
ScoreAssumption == /\ \A f \in Frames : Bars.limit[f] \in Nat /\ Bars.need[f] \in Nat \ {0}
                   /\ \A p \in {"e10", "e20", "e50", "atr", "prior", "recent", "swing", "high1", "high15"} : Bars[p] \in Nat \ {0}

VARIABLE case

(* The client fetches up to a limit and leaves out the open bar; the scorer         *)
(* leaves out one more.                                                          *)
Fetched(history) == [f \in Frames |-> Front(Front(Upto(history[f], Bars.limit[f])))]

(* The points of the first threshold that is reached. *)
Tier(Reached(_), table, rest) ==
  LET hit == {i \in DOMAIN table : Reached(table[i][1])} IN IF hit = {} THEN rest ELSE table[Min(hit)][2]
FromUp(n, table, rest)  == Tier(LAMBDA t : n >= t, table, rest)
Under(n, table, rest)   == Tier(LAMBDA t : n < t, table, rest)
Within(n, table, rest)  == Tier(LAMBDA t : n <= t, table, rest)
OfRatio(f, table, rest) == Tier(LAMBDA t : AtMost(<<t, 100>>, f), table, rest)
Farther(f, table, rest) == Tier(LAMBDA t : Less(<<t, 10>>, f), table, rest)
Capped(n, most) == Min({n, most})

-----------------------------------------------------------------------------
QuotePoints(c) == FromUp(c.quote, <<<<100, 10>>, <<50, 8>>, <<20, 6>>, <<10, 4>>, <<5, 2>>>>, 0)
RatioPoints(c) ==
  CASE c.ratio = 0 -> 0
    [] c.ratio # 0 /\ c.id = "v664" -> Under(c.ratio, <<<<60, 10>>, <<80, 8>>, <<100, 6>>, <<120, 4>>>>, 2)
    [] OTHER -> FromUp(c.ratio, <<<<400, 10>>, <<300, 8>>, <<200, 7>>, <<150, 6>>, <<120, 4>>, <<100, 2>>>>, 0)
ContinuityPoints(h1) ==
  LET n == Len(h1)  r == Bars.recent  p == Bars.prior
      prior == MedianOf(Volumes(SubSeq(h1, n - r - p + 1, n - r)))
  IN  IF n < r + p \/ prior = 0 THEN 0
      ELSE OfRatio(<<2 * SumOf(Volumes(Newest(h1, r))), r * prior>>, <<<<150, 6>>, <<120, 4>>, <<100, 2>>>>, 0)
BodyPoints(m15) ==
  IF m15 = <<>> THEN 0 ELSE OfRatio(BodyRatio(m15[Len(m15)]), <<<<60, 4>>, <<40, 2>>>>, 0)
Volume(c, bars) ==
  Capped(QuotePoints(c) + RatioPoints(c)
         + (IF bars = None THEN 0 ELSE ContinuityPoints(bars.h1) + BodyPoints(bars.m15)), 30)

-----------------------------------------------------------------------------
Ahead(side, a, b) == Beyond(side, a, b)      \* on the signal's side
CloseOf(bars) == Whole(bars[Len(bars)].c)

BlindTrend(c) ==
  (IF c.regime = c.side THEN 14 ELSE 8)
  + (IF c.fast # 0 /\ c.slow # 0 /\ c.side * c.fast > c.side * c.slow THEN 4 ELSE 0)

DayPoints(side, d1) ==
  IF Len(d1) >= Bars.need.d1 /\ Ahead(side, CloseOf(d1), Ema(Closes(d1), Bars.e50)) THEN 5 ELSE 0
FourPoints(side, h4) ==
  LET e10 == Ema(Closes(h4), Bars.e10)  e20 == Ema(Closes(h4), Bars.e20)  e50 == Ema(Closes(h4), Bars.e50) IN
  CASE Len(h4) < Bars.need.h4 -> 0
    [] Len(h4) >= Bars.need.h4 ->
         IF Ahead(side, e10, e20) /\ Ahead(side, e20, e50) THEN 8 ELSE IF Ahead(side, CloseOf(h4), e20) THEN 5 ELSE 2
HourPointsOfLows(side, h1) ==
  CASE Len(h1) < Bars.need.h1 -> 0
    [] Len(h1) >= Bars.need.h1 ->
         IF Retreats(-1, h1, Bars.swing) THEN 8
         ELSE IF Ahead(side, CloseOf(h1), Ema(Closes(h1), Bars.e20)) THEN 4 ELSE 1
HourPoints(side, h1) ==
  CASE Len(h1) < Bars.need.h1 -> 0
    [] Len(h1) >= Bars.need.h1 ->
         IF Retreats(-side, h1, Bars.swing) THEN 8
         ELSE IF Ahead(side, CloseOf(h1), Ema(Closes(h1), Bars.e20)) THEN 4 ELSE 1
QuarterPoints(side, m15) ==
  LET last == m15[Len(m15)] IN
  IF Len(m15) < Bars.need.m15 \/ ~Ahead(side, CloseOf(m15), Ema(Closes(m15), Bars.e20)) THEN 0
  ELSE IF side * last.c > side * last.o THEN 4 ELSE 2
Trend(c, bars) ==
  IF bars = None THEN BlindTrend(c)
  ELSE DayPoints(c.side, bars.d1) + FourPoints(c.side, bars.h4) + HourPoints(c.side, bars.h1) + QuarterPoints(c.side, bars.m15)

-----------------------------------------------------------------------------
(* How far, in ranges, the price is from the extreme the trade runs towards. *)
Room(side, bars, n) == <<side * (Extreme(side, Upto(bars, n)) - bars[Len(bars)].c) * Atr(bars, Bars.atr)[2], Atr(bars, Bars.atr)[1]>>
HasRoom(bars) == Len(bars) >= Bars.atr + 2 /\ Atr(bars, Bars.atr)[1] > 0
BlindPosition(c) == Under(c.change, <<<<5, 14>>, <<15, 12>>, <<25, 10>>, <<40, 7>>>>, 4)
Position(c, bars) ==
  IF bars = None THEN BlindPosition(c)
  ELSE (IF HasRoom(bars.h1)
        THEN Farther(Room(c.side, bars.h1, Bars.high1), <<<<30, 8>>, <<20, 6>>, <<10, 4>>, <<0, 2>>>>, 1) ELSE 0)
     + (IF HasRoom(bars.m15)
        THEN Farther(Room(c.side, bars.m15, Bars.high15), <<<<40, 12>>, <<30, 10>>, <<20, 8>>, <<10, 6>>, <<5, 4>>>>, 2) ELSE 0)

StopPoints(stop) == CASE stop \in 15..30 -> 7 [] stop \in 31..50 -> 5 [] stop \in 8..14 -> 4 [] stop > 50 -> 3
                      [] stop \in 1..7 -> 2 [] OTHER -> 0
Reward(stop, reward) == StopPoints(stop) + FromUp(reward, <<<<30, 8>>, <<25, 7>>, <<20, 6>>, <<15, 4>>>>, 2)

-----------------------------------------------------------------------------
(* The fit, by adapter.  Every identifier of the V66 family contains that of V66,  *)
(* which is asked for first; the name that is reported asks for it last.         *)
Family == {"v66", "v662", "v663", "v664"}
Named  == {"v3", "wave_long", "wave_short", "classic"}
Used(id)     == CASE id \in Named -> id [] id \in Family -> "v66" [] OTHER -> "other"

AlignedEmas(side, c) == side * c.fast > side * c.slow
FitV3(c)  == FromUp(c.change, <<<<15, 3>>, <<10, 2>>, <<5, 1>>>>, 0) + FromUp(c.ratio, <<<<200, 3>>, <<150, 2>>, <<120, 1>>>>, 0)
             + (IF c.stop <= 50 THEN 2 ELSE 0) + (IF AlignedEmas(c.side, c) THEN 2 ELSE 0)
FitV66(c) == FromUp(c.change, <<<<5, 2>>, <<2, 1>>>>, 0) + FromUp(c.ratio, <<<<150, 3>>, <<120, 2>>, <<100, 1>>>>, 0)
             + (IF c.reward >= 20 THEN 3 ELSE 2) + Within(c.stop, <<<<50, 2>>, <<80, 1>>>>, 0)
FitTrend(c, ratios) ==
  FromUp(c.change, <<<<5, 2>>, <<3, 1>>>>, 0) + FromUp(c.ratio, ratios, 0) + 3 + Within(c.stop, <<<<30, 2>>, <<40, 1>>>>, 0)
FitV662(c) == FitTrend(c, <<<<120, 3>>, <<100, 1>>>>)
FitV663(c) == FitTrend(c, <<<<150, 3>>, <<120, 2>>, <<100, 1>>>>)
FitV664(c) == (IF c.fast > 0 THEN Within(c.away, <<<<3, 4>>, <<8, 3>>, <<15, 2>>>>, 1) ELSE 0)
              + Under(c.ratio, <<<<80, 3>>, <<100, 2>>, <<120, 1>>>>, 0) + 3
FitWave(side, c) == FromUp(c.ratio, <<<<150, 4>>, <<120, 2>>>>, 1) + (IF AlignedEmas(side, c) THEN 3 ELSE 1) + 3
Fit(adapter, c) ==
  Capped(CASE adapter = "v3" -> FitV3(c) [] adapter = "v66" -> FitV66(c) [] adapter = "v662" -> FitV662(c)
           [] adapter = "v663" -> FitV663(c) [] adapter = "v664" -> FitV664(c)
           [] adapter = "wave_long" -> FitWave(1, c) [] adapter = "wave_short" -> FitWave(-1, c)
           [] OTHER -> 5, 10)

-----------------------------------------------------------------------------
Grade(total) == FromUp(total, <<<<85, "A">>, <<70, "B">>, <<55, "C">>>>, "D")
Total(c, bars) ==
  Capped(Volume(c, bars) + Capped(Trend(c, bars), 25) + Position(c, bars)
         + Reward(c.stop, c.reward) + Fit(Used(c.id), c), 100)

(* The classic breakdown in the new categories; round takes a half to the even. *)
Rounded(n, d) == LET q == n \div d  r == n % d IN
                 IF 2 * r > d \/ (2 * r = d /\ q % 2 = 1) THEN q + 1 ELSE q
ClassicTotal(b) ==
  Capped(Capped(Rounded(3 * b.volume, 2), 30) + b.trend + Capped(Rounded(2 * b.space, 3), 20)
         + Reward(b.stop, b.reward) + Capped(Rounded(4 * b.pattern, 10), 10), 100)

-----------------------------------------------------------------------------
LookSignal  == case = None /\ case' \in [kind : {"scored"}, candidate : Candidates, history : Histories]
LookBlind   == case = None /\ case' \in [kind : {"blind"}, candidate : Candidates]
LookClassic == case = None /\ case' \in [kind : {"mapped"}, breakdown : Breakdowns]
Init == case = None
Next == LookSignal \/ LookBlind \/ LookClassic
Spec == Init /\ [][Next]_case
Is(kind) == case # None /\ case.kind = kind

(* A short signal on the reflected bars scores what the long one does: no category *)
(* has a side of its own.                                                        *)
Reflect(p, bars) ==
  [i \in DOMAIN bars |-> Bar(p - bars[i].o, p - bars[i].l, p - bars[i].h, p - bars[i].c, bars[i].v)]
Other(id) == CASE id = "wave_long" -> "wave_short" [] id = "wave_short" -> "wave_long" [] OTHER -> id
Opposite(c, p) == [c EXCEPT !.side = -c.side, !.regime = -c.regime, !.id = Other(c.id),
                            !.fast = IF @ = 0 THEN 0 ELSE p - @, !.slow = IF @ = 0 THEN 0 ELSE p - @]
ScoreHasNoSide ==
  Is("scored") =>
    LET bars == Fetched(case.history)  p == 400 IN
    Total(case.candidate, bars) = Total(Opposite(case.candidate, p), [f \in Frames |-> Reflect(p, bars[f])])

(* A signal whose bars could not be used is never given the best grade, whatever    *)
(* its own numbers are.                                                          *)
BlindIsNeverBest == Is("blind") => Grade(Total(case.candidate, None)) # "A"

(* The classic score keeps its order of merit in the new categories when the plan  *)
(* is the same: a breakdown with more points everywhere never gets fewer.         *)
MappingKeepsOrder ==
  Is("mapped") =>
    \A b \in Breakdowns :
      (/\ b.volume >= case.breakdown.volume /\ b.trend >= case.breakdown.trend
       /\ b.space >= case.breakdown.space /\ b.pattern >= case.breakdown.pattern
       /\ b.stop = case.breakdown.stop /\ b.reward >= case.breakdown.reward)
      => ClassicTotal(b) >= ClassicTotal(case.breakdown)
=============================================================================
