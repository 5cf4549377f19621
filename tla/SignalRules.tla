----------------------------- MODULE SignalRules -----------------------------
(* The signals of the scan: the regime of the two leading coins (regime/engine.py), *)
(* the gates and the ranking (signals/regime_gate.py, sector_gate.py, ranking.py),   *)
(* the strength of sectors (sectors/engine.py), the entry, stop and targets of a     *)
(* pullback or a rebound (signals/engine.py, short_engine.py), and the choice of     *)
(* signals, which is written twice: for the scan (application/generate_signals.py)   *)
(* and for the replay of the past (backtest/engine.py), here without a strategy       *)
(* configuration.  Side 1 is LONG, -1 SHORT.                                       *)
EXTENDS Indicators

CONSTANTS Bars,      \* periods: [least, fast, slow, atr, need, near, swing, stop, target, range]
          Leaders,   \* markets of a leading coin: [m15, h1, h4 : bars]
          Markets,   \* markets of a coin, likewise
          Lists,     \* lists of scored coins: [name, sector, score, trend, capital, space, up, down]
          Tick,      \* smallest price step
          Leading, Middle,  \* ranks of the strongest sectors and of the next ones
          Most,      \* signals of a direction in a scan
          None

SignalAssumption == /\ \A p \in DOMAIN Bars : Bars[p] \in Nat \ {0}
                    /\ Tick \in Nat \ {0} /\ Leading \in Nat /\ Middle \in Nat /\ Leading <= Middle /\ Most \in Nat

VARIABLE case

-----------------------------------------------------------------------------
(* The regime of a leading coin. *)
InOrder(last, fast, slow) ==
  CASE Less(fast, last) /\ Less(slow, fast) -> 1
    [] Less(last, fast) /\ Less(fast, slow) -> -1
    [] OTHER -> 0
TrendOf(bars) ==
  InOrder(Whole(bars[Len(bars)].c), SeededEma(Closes(bars), Bars.fast), SeededEma(Closes(bars), Bars.slow))
CalmerThan(bars, pct) == LET a == Atr(bars, Bars.atr) IN 100 * a[1] <= pct * a[2] * bars[Len(bars)].c
EnoughBars(m) == \A s \in {m.m15, m.h1, m.h4} : Len(s) >= Bars.least
RegimeOf(q, h, f) ==
  CASE h = 1 /\ f = 1   -> IF q = -1 THEN "OBSERVE" ELSE "BULL"
    [] h = -1 /\ f = -1 -> IF q = 1 THEN "OBSERVE" ELSE "BEAR"
    [] h * f = -1       -> "OBSERVE"
    [] OTHER            -> "RANGE"
AssetRegime(m) ==
  IF ~EnoughBars(m) \/ ~CalmerThan(m.h1, 5) \/ ~CalmerThan(m.h4, 8) THEN "OBSERVE"
  ELSE RegimeOf(TrendOf(m.m15), TrendOf(m.h1), TrendOf(m.h4))
Combine(a, b) ==
  CASE a = b /\ a \in {"BULL", "BEAR"} -> a
    [] "OBSERVE" \in {a, b} \/ {a, b} = {"BULL", "BEAR"} -> "OBSERVE"
    [] OTHER -> "RANGE"

(* The regime gate; range is the score asked for without a trend. *)
AllowsLong(regime, score, range) == regime = "BULL" \/ (regime = "RANGE" /\ score >= range)
AllowsShort(regime, weakness, range) == regime = "BEAR" \/ (regime = "RANGE" /\ weakness >= range)
AllowedSides(regime, score, range) ==
  {s \in {1, -1} : IF s = 1 THEN AllowsLong(regime, score, range) ELSE AllowsShort(regime, 100 - score, range)}

-----------------------------------------------------------------------------
(* Prices of a signal. *)
RoundDown(x) == (x[1] \div (x[2] * Tick)) * Tick
RoundUp(x)   == -RoundDown(<<-x[1], x[2]>>)
RoundNearest(x) == ((2 * x[1] + x[2] * Tick) \div (2 * x[2] * Tick)) * Tick
Away(side, x)   == IF side = 1 THEN RoundUp(x) ELSE RoundDown(x)
Toward(side, x) == Away(-side, x)
Nearer(side, a, b) == IF Beyond(side, a, b) THEN b ELSE a     \* the one side comes to first
Farther(side, a, b) == IF Beyond(side, a, b) THEN a ELSE b

(* The swing the entry is put at: the nearest to the last price within 3 per cent    *)
(* behind it and 1 per cent ahead, the 15-minute chart first, the older first.      *)
InReach(side, price, latest) == LET d == 100 * side * (price - latest) IN d >= -3 * latest /\ d <= latest
SwingPrices(side, bars, hour) ==
  {[price |-> side * Tip(side, bars[i]), hour |-> hour, at |-> i] : i \in Pivots(side, bars)}
EntryLevel(side, m) ==
  LET latest == m.m15[Len(m.m15)].c
      key(c) == (AbsDiff(c.price, latest) * 2 + c.hour) * 100 + c.at
      found == {c \in SwingPrices(-side, Upto(m.m15, Bars.near), 0) \cup SwingPrices(-side, Upto(m.h1, Bars.swing), 1) :
                  InReach(side, c.price, latest)}
  IN  IF found = {} THEN None ELSE (CHOOSE c \in found : \A d \in found : key(c) <= key(d)).price
Entry(side, level) == RoundNearest(<<level * (1000 + side), 1000>>)

(* The stop: behind the newest hourly swing behind the entry by a quarter of the     *)
(* average range, or two ranges if that is nearer, but at least 2 per cent away.    *)
StopAsFound(side, h1, entry) ==
  LET a == Atr(h1, Bars.atr)
      S == {i \in Pivots(-side, Upto(h1, Bars.stop)) : side * (-side * Tip(-side, Upto(h1, Bars.stop)[i]) - entry) < 0}
      level == -side * Tip(-side, Upto(h1, Bars.stop)[Max(S)])
      wide == Plus(Whole(entry), Times(a, -side * 2, 1))
  IN  IF S = {} THEN wide
      ELSE Nearer(-side, Plus(Whole(level), Times(a, -side, 4)), wide)
StopLoss(side, h1, entry) ==
  Toward(side, Farther(-side, StopAsFound(side, h1, entry), <<entry * (100 - side * 2), 100>>))

(* The targets: the first price ahead where the market turned that pays twice the     *)
(* risk, and the first before it that pays the risk, or the risk itself.             *)
Ahead(side, m, entry) ==
  LET h1 == Upto(m.h1, Bars.target)  h4 == Upto(m.h4, Bars.target) IN
  {p \in {c.price : c \in SwingPrices(side, h1, 0) \cup SwingPrices(side, h4, 0)}
         \cup {Extreme(side, Before(m.h1, Bars.range)), Extreme(side, Before(m.h4, Bars.range))} :
     side * (p - entry) > 0}
First(side, S) == IF side = 1 THEN Min(S) ELSE Max(S)
Targets(side, m, entry, risk) ==
  LET second == {p \in Ahead(side, m, entry) : side * (p - entry) >= 2 * risk}
      raw2 == First(side, second)
      first == {p \in Ahead(side, m, entry) : side * (p - entry) >= risk /\ side * (p - raw2) < 0}
  IN  IF second = {} THEN None
      ELSE [tp1 |-> Away(side, Whole(IF first = {} THEN entry + side * risk ELSE First(side, first))),
            tp2 |-> Away(side, Whole(raw2))]

PlanAt(side, m, level, entry, stop) ==
  IF \/ \E s \in {m.m15, m.h1, m.h4} : Len(s) < Bars.need
     \/ level = None \/ ~InReach(side, entry, m.m15[Len(m.m15)].c)
     \/ stop <= 0 \/ side * (entry - stop) <= 0
     \/ 100 * side * (entry - stop) > 7 * entry
  THEN None ELSE [level |-> level, entry |-> entry, stop |-> stop, risk |-> side * (entry - stop)]
Planned(side, m) ==      \* entry and stop, before the targets are looked for
  LET level == EntryLevel(side, m)  entry == Entry(side, level) IN
  PlanAt(side, m, level, entry, StopLoss(side, m.h1, entry))
PaysEnough(side, p, t) ==
  LET gain(x) == side * (x - p.entry) IN
  /\ gain(t.tp1) > 0 /\ gain(t.tp2) > gain(t.tp1)
  /\ gain(t.tp1) >= p.risk /\ gain(t.tp2) >= 2 * p.risk
WithTargets(side, p, t) ==
  IF t = None THEN None ELSE IF PaysEnough(side, p, t) THEN [plan |-> p, targets |-> t] ELSE None
Completed(side, m, p) == IF p = None THEN None ELSE WithTargets(side, p, Targets(side, m, p.entry, p.risk))
Generate(m)      == Completed(1, m, Planned(1, m))
GenerateShort(m) == Completed(-1, m, Planned(-1, m))

-----------------------------------------------------------------------------
(* Sectors by the mean of their three best scores, then median, mean and name.        *)
Members(coins, sector) == SortSeq(SelectSeq(coins, LAMBDA c : c.sector = sector), LAMBDA c, d : c.score > d.score)
Scores(cs) == [i \in DOMAIN cs |-> cs[i].score]
Best3(cs) == LET s == Scores(cs) IN <<SumOf(SubSeq(s, 1, Min({3, Len(s)}))), Min({3, Len(s)})>>
Mean(cs) == <<SumOf(Scores(cs)), Len(cs)>>
Equal(a, b) == ~Less(a, b) /\ ~Less(b, a)
Stronger(coins, s, t) ==
  LET a == Members(coins, s)  b == Members(coins, t) IN
  \/ Less(Best3(b), Best3(a))
  \/ Equal(Best3(a), Best3(b)) /\ MedianOf(Scores(a)) > MedianOf(Scores(b))
  \/ /\ Equal(Best3(a), Best3(b)) /\ MedianOf(Scores(a)) = MedianOf(Scores(b))
     /\ (Less(Mean(b), Mean(a)) \/ (Equal(Mean(a), Mean(b)) /\ s < t))
SectorsOf(coins) == {coins[i].sector : i \in DOMAIN coins}
SectorRank(coins, s) == 1 + Cardinality({t \in SectorsOf(coins) \ {s} : Stronger(coins, t, s)})
SectorAllowsLong(sector, rank, score) ==
  CASE sector = 0 \/ rank > Middle -> score >= 90      \* sector 0 is OTHER
    [] rank <= Leading -> TRUE
    [] OTHER -> score >= 85

SectorScore(rank, side) ==
  LET points == CASE rank <= Leading -> 100 [] rank > Leading /\ rank <= Middle -> 70 [] OTHER -> 40
  IN  IF side = -1 /\ points # 70 THEN 140 - points ELSE points
FinalSignalScore(c, side, rank, regime) ==      \* in tenths
  3 * c.capital + 3 * c.space + 2 * (IF side = 1 THEN c.trend ELSE 100 - c.trend)
  + SectorScore(rank, side) + (IF regime = "RANGE" THEN 70 ELSE 100)

(* What is in reach of a signal: a coin and a side the gates let through. *)
Opportunities(coins, regime) ==
  {[rank |-> i, side |-> s, coin |-> coins[i],
    final |-> FinalSignalScore(coins[i], s, SectorRank(coins, coins[i].sector), regime)] :
     i \in DOMAIN coins, s \in {1, -1}}
Passing(coins, regime, range) ==
  {o \in Opportunities(coins, regime) :
     /\ o.side \in AllowedSides(regime, o.coin.score, range)
     /\ o.side = 1 => SectorAllowsLong(o.coin.sector, SectorRank(coins, o.coin.sector), o.coin.score)}
Priced(o) == IF o.side = 1 THEN o.coin.up ELSE o.coin.down     \* an engine finds prices for it

(* The scan takes them by final score, LONG first, then rank; the replay by final     *)
(* score, LONG first, then name.  What no prices are found for leaves its place.     *)
ScanBefore(o, p) == \/ o.final > p.final
                    \/ o.final = p.final /\ (o.side > p.side \/ (o.side = p.side /\ o.rank < p.rank))
ReplayBefore(o, p) == \/ o.final > p.final
                      \/ o.final = p.final /\ (o.side > p.side \/ (o.side = p.side /\ o.coin.name < p.coin.name))
CountOf(chosen, side) == Len(SelectSeq(chosen, LAMBDA o : o.side = side))
TakeIfRoom(chosen, o) == IF CountOf(chosen, o.side) < Most /\ Priced(o) THEN Append(chosen, o) ELSE chosen
GenerateLatest(coins, regime, range) ==
  FoldLeft(TakeIfRoom, <<>>, SetToSortSeq(Passing(coins, regime, range), ScanBefore))
EvaluatePoint(coins, regime, range) ==
  FoldLeft(TakeIfRoom, <<>>, SetToSortSeq(Passing(coins, regime, range), ReplayBefore))

-----------------------------------------------------------------------------
LookLeaders == case = None /\ case' \in [kind : {"leaders"}, btc : Leaders, eth : Leaders, score : {10, 50, 90}]
LookMarket  == case = None /\ case' \in [kind : {"setup"}, side : {1, -1}, market : Markets]
LookScan    == case = None /\ case' \in [kind : {"ranking"}, coins : Lists, regime : {"BULL", "BEAR", "RANGE", "OBSERVE"},
                                         range : {50, 85}]
Init == case = None
Next == LookLeaders \/ LookMarket \/ LookScan
Spec == Init /\ [][Next]_case
Is(kind) == case # None /\ case.kind = kind

(* Rising and falling markets are judged alike: where a LONG with a score is let       *)
(* through, the reflected market lets the SHORT with that weakness through, as long   *)
(* as both markets are calm enough.                                               *)
Reflect(p, bars) ==
  [i \in DOMAIN bars |-> Bar(p - bars[i].o, p - bars[i].l, p - bars[i].h, p - bars[i].c, bars[i].v)]
Reflected(p, m) == [m15 |-> Reflect(p, m.m15), h1 |-> Reflect(p, m.h1), h4 |-> Reflect(p, m.h4)]
Calm(m) == EnoughBars(m) => CalmerThan(m.h1, 5) /\ CalmerThan(m.h4, 8)
RegimeMirrored ==
  Is("leaders") =>
    LET p == 2000  b == case.btc  e == case.eth
        sides(x, y, score) == AllowedSides(Combine(AssetRegime(x), AssetRegime(y)), score, 85)
    IN  (\A m \in {b, e} : Calm(m) /\ Calm(Reflected(p, m))) =>
          (1 \in sides(b, e, case.score)) = (-1 \in sides(Reflected(p, b), Reflected(p, e), 100 - case.score))

(* The stop is behind the level the entry was taken from, though it is found at        *)
(* another swing of another chart, and at least 2 per cent away.                     *)
SignalOf(c) == IF c.side = 1 THEN Generate(c.market) ELSE GenerateShort(c.market)
StopBehindLevel ==
  Is("setup") => \A s \in {SignalOf(case)} :
    s # None => /\ case.side * (s.plan.level - s.plan.stop) > 0
                /\ 100 * s.plan.risk >= 2 * s.plan.entry

(* The search for targets and the test of the rewards agree, rounding included: what   *)
(* has targets fails the test only because both fall on the same tick.               *)
TargetsPay ==
  Is("setup") => \A p \in {Planned(case.side, case.market)} :
    p # None => \A t \in {Targets(case.side, case.market, p.entry, p.risk)} :
      t # None => PaysEnough(case.side, p, t) \/ t.tp1 = t.tp2

(* A point of the replay has a coin once: its table is keyed by time and coin, and a   *)
(* second row would lose the whole run.  With a range score of 50 it can have two.   *)
OneRowPerCoin ==
  Is("ranking") /\ case.range > 50 =>
    LET s == EvaluatePoint(case.coins, case.regime, case.range) IN
    \A i, j \in DOMAIN s : i # j => s[i].coin # s[j].coin

(* The replay chooses what the scan chooses, unless scores tie.                       *)
ReplayIsTheScan ==
  Is("ranking") =>
    LET P == Passing(case.coins, case.regime, case.range)
        chosen(s) == {s[i] : i \in DOMAIN s}
    IN  (\A o, p \in P : o # p /\ o.side = p.side => o.final # p.final) =>
          chosen(EvaluatePoint(case.coins, case.regime, case.range)) = chosen(GenerateLatest(case.coins, case.regime, case.range))
=============================================================================
