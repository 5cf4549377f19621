------------------------------ MODULE GoldRules ------------------------------
(* Two rules that plan a trade at fixed or limited risk: the gold strategy on the   *)
(* 120-bar average (sma120/strategy.py, indicators.py) and the score of a macro      *)
(* candidate (ai_macro/score_engine.py).  Prices are in points; the macro score      *)
(* looks at moves in per cent and volumes in millions.                              *)
EXTENDS Indicators

CONSTANTS Bars,      \* periods and lengths: [sma, atr, fast, slow, m5, m15, h1, back, need, ema, swing]
          Golds,     \* [m5, m15, h1 : bars, young : hours not over when the signal bar opened]
          Tapes,     \* 15-minute bars of a macro candidate
          Moves, Volumes24,
          None

GoldAssumption == /\ \A p \in DOMAIN Bars : Bars[p] \in Nat \ {0}
                  /\ Moves \subseteq Nat /\ Volumes24 \subseteq Nat

VARIABLE case

-----------------------------------------------------------------------------
(* The gold strategy.  The newest bar of every chart is dropped. *)
Closed(bars) == SubSeq(bars, 1, Len(bars) - 1)
SmaLast(values, period) == <<SumOf(Newest(values, period)), period>>
AtrLast(bars, period) ==      \* smoothed: each range counts for one part in period
  FoldLeft(LAMBDA a, i : <<a[1] * (period - 1) + TrueRange(bars, i) * a[2], a[2] * period>>,
           <<SumOf([k \in 1..period |-> TrueRange(bars, k + 1)]), period>>,
           [k \in 1..(Len(bars) - period - 1) |-> period + 1 + k])
InRange(atr) == AtMost(<<1, 10>>, atr) /\ AtMost(atr, <<2, 1>>)

(* Before the signal bar some bar came back to the average, within a thousandth, and   *)
(* the signal bar closed beyond it.                                                *)
CheckPullbackBreakout(side, m5) ==
  LET average == SeededEma(Closes(m5), Bars.fast) IN
  /\ \E b \in Range(Upto(Closed(m5), Bars.back)) : ~Beyond(side, Whole(-side * Tip(-side, b)), Times(average, 1000 + side, 1000))
  /\ Beyond(side, Whole(m5[Len(m5)].c), average)

Trending(side, bars) ==
  LET c == Closes(bars)  fast == SeededEma(c, Bars.fast) IN
  /\ Beyond(side, fast, SeededEma(c, Bars.slow))
  /\ Beyond(side, fast, SeededEma(Closed(c), Bars.fast))
  /\ Beyond(side, Whole(c[Len(c)]), fast)
HoursAgree(g) ==
  LET over == SubSeq(Closed(g.h1), 1, Len(g.h1) - 1 - g.young) IN
  Len(over) >= Bars.slow + 3 /\ Trending(1, over)

SideOf(m5) ==
  LET close == Whole(m5[Len(m5)].c)  sma == SmaLast(Closes(m5), Bars.sma) IN
  CASE Less(sma, close) -> 1 [] Less(close, sma) -> -1 [] OTHER -> 0
Extension(side, m5) == Times(Minus(Whole(m5[Len(m5)].c), SmaLast(Closes(m5), Bars.sma)), side, 1)
Scan(g) ==
  LET m5 == Closed(g.m5)  m15 == Closed(g.m15)  side == SideOf(m5)  close == m5[Len(m5)].c IN
  IF /\ Len(m5) >= Bars.m5 /\ Len(m15) >= Bars.m15 /\ Len(g.h1) > Bars.h1
     /\ InRange(AtrLast(m5, Bars.atr))
     /\ side # 0 /\ AtMost(Extension(side, m5), Times(AtrLast(m5, Bars.atr), 3, 1))
     /\ CheckPullbackBreakout(side, m5) /\ Trending(side, m15)
     /\ side = 1 => HoursAgree(g)
  THEN [side |-> side, entry |-> close, stop |-> close - 8 * side, target |-> close + 16 * side] ELSE None

-----------------------------------------------------------------------------
(* The macro candidate: entry behind the price or at the average, stop behind the      *)
(* swing and a full range away, targets at one and two risks.                         *)
Rearmost(side, a, b) == IF Beyond(side, a, b) THEN b ELSE a
LevelsAt(side, entry, stop) == [entry |-> entry, stop |-> stop, risk |-> Times(Minus(entry, stop), side, 1)]
TradeLevels(side, bars) ==
  LET last == bars[Len(bars)].c
      atr  == Atr(bars, Bars.atr)
      swing == Extreme(-side, Before(bars, Bars.swing))
      entry == Rearmost(side, SeededEma(Closes(bars), Bars.ema), Minus(Whole(last), Times(atr, side, 4)))
  IN  LevelsAt(side, entry, Rearmost(side, Whole(swing), Minus(entry, Times(atr, side, 1))))
(* 100 * part over whole, at most n *)
Percent(part, whole, n) == 100 * part[1] * whole[2] <= n * whole[1] * part[2]

TrendPoints(average, back) ==      \* back: how far price is behind the average
  CASE back[1] <= 0 -> 20
    [] back[1] > 0 /\ Percent(back, average, 2) -> 15
    [] ~Percent(back, average, 2) /\ Percent(back, average, 5) -> 10
    [] OTHER -> 5
ScoreTrend(side, bars) ==
  LET average == SeededEma(Closes(bars), Bars.ema) IN
  TrendPoints(average, Times(Minus(average, Whole(bars[Len(bars)].c)), side, 1))
(* The points of the last of some steps that x reaches. *)
Reached(x, steps, least) ==
  LET S == {s \in steps : x >= s[1]} IN IF S = {} THEN least ELSE Max({s[2] : s \in S})
ScoreMomentum(move) == Reached(move, {<<30, 20>>, <<20, 17>>, <<15, 14>>, <<10, 10>>, <<5, 6>>}, 3)
ScoreVolume(volume) == Reached(volume, {<<100, 20>>, <<50, 18>>, <<20, 15>>, <<10, 12>>, <<5, 8>>}, 4)
ScoreStructure(ratio) == Reached(ratio, {<<30, 20>>, <<25, 17>>, <<20, 14>>, <<15, 10>>, <<10, 5>>}, 0)   \* in tenths
ScoreRisk(risk, entry) ==
  Max({0} \cup {s[2] : s \in {s \in {<<2, 20>>, <<3, 17>>, <<5, 14>>, <<7, 10>>, <<8, 5>>} : Percent(risk, entry, s[1])}})
ScoreLevels(side, bars, move, volume, l) ==
  IF \/ Len(bars) < Bars.need \/ Atr(bars, Bars.atr)[1] <= 0
     \/ l.entry[1] <= 0 \/ l.stop[1] <= 0 \/ l.risk[1] <= 0
     \/ ~Percent(l.risk, l.entry, 8)
  THEN 0
  ELSE ScoreTrend(side, bars) + ScoreMomentum(move) + ScoreVolume(volume) + ScoreStructure(20) + ScoreRisk(l.risk, l.entry)
ScoreCandidate(side, bars, move, volume) == ScoreLevels(side, bars, move, volume, TradeLevels(side, bars))
Approved(score) == score >= 80

-----------------------------------------------------------------------------
LookGold  == case = None /\ case' \in [kind : {"gold"}, gold : Golds]
LookMacro == case = None /\ case' \in [kind : {"macro"}, side : {1, -1}, tape : Tapes, move : Moves, volume : Volumes24]
Init == case = None
Next == LookGold \/ LookMacro
Spec == Init /\ [][Next]_case
Is(kind) == case # None /\ case.kind = kind

(* The stop is a fixed distance away, the average that decides the direction is not:    *)
(* the limits of range and extension together keep it between entry and stop, so that  *)
(* no trade is stopped while its reason holds.                                       *)
StopBehindAverage ==
  Is("gold") => \A s \in {Scan(case.gold)} :
    LET sma == SmaLast(Closes(Closed(case.gold.m5)), Bars.sma) IN
    s # None => Beyond(s.side, Whole(s.entry), sma) /\ Beyond(s.side, sma, Whole(s.stop))

(* Rise and fall are judged alike but for the hourly filter, which only a LONG has to   *)
(* pass: the reflection of a LONG is a SHORT, that of a SHORT a LONG when the hours     *)
(* agree.                                                                         *)
Reflect(p, bars) ==
  [i \in DOMAIN bars |-> Bar(p - bars[i].o, p - bars[i].l, p - bars[i].h, p - bars[i].c, bars[i].v)]
GoldMirrored ==
  Is("gold") =>
    LET p == 400  g == case.gold
        m == [g EXCEPT !.m5 = Reflect(p, g.m5), !.m15 = Reflect(p, g.m15), !.h1 = Reflect(p, g.h1)]
    IN  \A s \in {Scan(g)}, t \in {Scan(m)} :
          s # None /\ (s.side = 1 \/ HoursAgree(m)) => t # None /\ t.side = -s.side /\ t.stop = p - s.stop

(* The limit of 8 per cent never decides: a stop more than 7 per cent away costs so      *)
(* many points that the best of everything else is not enough.                        *)
WideStopsFail ==
  Is("macro") =>
    \A l \in {TradeLevels(case.side, case.tape)} :
    Approved(ScoreCandidate(case.side, case.tape, case.move, case.volume)) => Percent(l.risk, l.entry, 7)
=============================================================================
