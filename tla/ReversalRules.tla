---------------------------- MODULE ReversalRules ----------------------------
(* The reversal strategy (v3/strategies/reversal.py with reversal_indicators.py): *)
(* five layers of one market, from the daily range down to the fall of the open   *)
(* interest.  Both directions are written out, as they are in the code.           *)
EXTENDS Indicators

CONSTANTS Bars,       \* the periods: [day, rsi, boll, atr, volume]
          Markets,    \* [ticker : [usdt, main : BOOLEAN, quoteVolume : millions],
                      \*  d1, h4, h1, m15 : bars, oi : open interest, newest last]
          None

ReversalAssumption == \A p \in {"day", "rsi", "boll", "atr", "volume"} : Bars[p] \in Nat \ {0}

VARIABLE case

MidCap(t) == t.usdt /\ ~t.main /\ t.quoteVolume \in 30..200

-----------------------------------------------------------------------------
Range1(bars) == bars[Len(bars)].h - bars[Len(bars)].l
DayIsExtreme(d1) ==
  /\ Len(d1) >= Bars.day + 1
  /\ Atr(d1, Bars.day)[1] > 0
  /\ AtMost(Times(Atr(d1, Bars.day), 15, 10), Whole(Range1(d1)))

SideAt(rsi) == CASE Less(Whole(80), rsi) -> -1 [] Less(rsi, Whole(20)) -> 1 [] OTHER -> 0
Side(h4) ==      \* 0 when the 4-hour strength is not extreme
  IF Len(h4) < Bars.rsi + 1 THEN 0 ELSE SideAt(Rsi(Closes(h4), Bars.rsi))

(* Beyond three standard deviations of the last n closes: with S their sum and Q   *)
(* that of their squares, n * price - S is more than 3 * sqrt(n * Q - S * S).      *)
Outside(x, bars) ==
  LET n == Bars.boll  c == Newest(Closes(bars), n)
      s == SumOf(c)   q == SumOf([i \in 1..n |-> c[i] * c[i]])
  IN  (n * x - s) * (n * x - s) > 9 * (n * q - s * s)
Pierced(side, h1) ==
  LET last == h1[Len(h1)]  s == SumOf(Newest(Closes(h1), Bars.boll)) IN
  CASE side = -1 -> Bars.boll * last.h > s /\ Outside(last.h, h1)
    [] side = 1  -> Bars.boll * last.l < s /\ Outside(last.l, h1)
BandPierced(side, h1) == Len(h1) >= Bars.boll /\ Pierced(side, h1)

Pinned(side, m15) ==
  LET last == m15[Len(m15)]
      wick == IF side = -1 THEN UpperWick(last) ELSE LowerWick(last)
  IN  /\ Len(m15) >= Bars.volume + 1
      /\ AtMost(<<60, 100>>, wick)
      /\ VolMa(m15, Bars.volume)[1] > 0
      /\ AtMost(Times(VolMa(m15, Bars.volume), 4, 1), Whole(last.v))

InterestFell(oi) == /\ oi # None /\ Len(oi) >= 2 /\ oi[1] # 0
                    /\ 100 * (oi[Len(oi)] - oi[1]) <= -10 * oi[1]

Plan(side, m15) ==
  LET last == m15[Len(m15)]
      room == Times(Atr(m15, Bars.atr), 15, 10)
      stop == IF side = -1 THEN Plus(Whole(last.h), room) ELSE Plus(Whole(last.l), Times(room, -1, 1))
      risk == IF side = -1 THEN Plus(stop, Whole(-last.c)) ELSE Plus(Whole(last.c), Times(stop, -1, 1))
      gain == Times(risk, 22, 10)
  IN  IF ~Less(Whole(0), risk) THEN None
      ELSE [side |-> side, entry |-> last.c, stop |-> stop,
            target |-> IF side = -1 THEN Plus(Whole(last.c), Times(gain, -1, 1)) ELSE Plus(Whole(last.c), gain)]

EvaluateSide(m, side) ==
  IF /\ MidCap(m.ticker)
     /\ DayIsExtreme(m.d1)
     /\ side # 0
     /\ BandPierced(side, m.h1)
     /\ Pinned(side, m.m15)
     /\ InterestFell(m.oi)
     /\ Len(m.m15) >= Bars.atr + 1 /\ Atr(m.m15, Bars.atr)[1] > 0
  THEN Plan(side, m.m15) ELSE None
Evaluate(m) == EvaluateSide(m, Side(m.h4))

-----------------------------------------------------------------------------
LookMarket == case = None /\ case' \in [kind : {"market"}, market : Markets]
Init == case = None
Next == LookMarket
Spec == Init /\ [][Next]_case
Is(kind) == case # None /\ case.kind = kind

(* Up and down are judged alike: the market reflected in a price gives the         *)
(* reflected plan.  The one exception is a 4-hour series without a change, which   *)
(* counts as overbought and not as oversold.                                     *)
Reflect(p, bars) ==
  [i \in DOMAIN bars |-> Bar(p - bars[i].o, p - bars[i].l, p - bars[i].h, p - bars[i].c, bars[i].v)]
Reflected(p, m) == [ticker |-> m.ticker, d1 |-> Reflect(p, m.d1), h4 |-> Reflect(p, m.h4), h1 |-> Reflect(p, m.h1),
                    m15 |-> Reflect(p, m.m15), oi |-> m.oi]
Same(p, a, b) == Plus(a, b)[1] = p * Plus(a, b)[2]
MirrorImage ==
  Is("market") /\ Cardinality(Range(Newest(Closes(case.market.h4), Min({Len(case.market.h4), Bars.rsi + 1})))) > 1 =>
    LET p == 400 IN
    \A a \in {Evaluate(case.market)}, b \in {Evaluate(Reflected(p, case.market))} :
    IF a = None THEN b = None
    ELSE b # None /\ b.side = -a.side /\ b.entry = p - a.entry /\ Same(p, a.stop, b.stop) /\ Same(p, a.target, b.target)

(* What a signal reacts to stands out from what went before: the newest daily       *)
(* range is half as large again as the mean of the days before it, although that   *)
(* day is itself part of the average it is compared with.                        *)
SpikeStandsOut ==
  Is("market") /\ Evaluate(case.market) # None =>
    LET d1 == case.market.d1  n == Len(d1)  p == Bars.day IN
    2 * (p - 1) * Range1(d1) > 3 * SumOf([i \in 1..(p - 1) |-> TrueRange(d1, n - i)])
=============================================================================
