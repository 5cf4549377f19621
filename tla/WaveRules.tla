----------------------------- MODULE WaveRules -----------------------------
(* The decisions of the two breakout strategies (v3/strategies/wave_long.py and  *)
(* wave_short.py) on the bars they fetch: which symbol has broken out of its     *)
(* platform, when a watched breakout fails, and which entry a retest gives.      *)
(* side 1 is wave_long, side -1 wave_short; stops and targets are in thousandths *)
(* of the price unit, as a stop is 0.2 per cent beyond a low.                    *)
EXTENDS Indicators

CONSTANTS Bars,       \* how many bars the code asks for: see BarsAssumption
          Trends,     \* daily and 4-hour series
          Hours,      \* 1-hour series
          Quarters,   \* 15-minute series
          Levels,     \* platform levels
          None

BarsAssumption == /\ DOMAIN Bars = {"trend", "fast", "slow", "platform", "retest", "volume"}
                  /\ \A b \in DOMAIN Bars : Bars[b] \in Nat \ {0}
ASSUME BarsAssumption

VARIABLE case         \* the bars looked at

-----------------------------------------------------------------------------
Trend(side, bars) ==
  /\ Len(bars) >= Bars.trend
  /\ Beyond(side, Ema(Closes(bars), Bars.fast), Ema(Closes(bars), Bars.slow))

(* The 4-hour close is not behind the slow average, and the bar has not moved    *)
(* more than 12 per cent already.                                               *)
NotChased(side, h4) ==
  LET last == h4[Len(h4)] IN
  /\ ~Beyond(side, Ema(Closes(h4), Bars.slow), Whole(last.c))
  /\ 100 * side * (last.c - last.o) <= 12 * last.o

Platform(side, h1) == Extreme(side, Before(h1, Bars.platform))

Against(side, b) == side * (b.c - b.o) < 0
Heavy(bars, period) == AtMost(<<3, 2>>, VolRatio(bars, period))

BreaksOutAnyColour(side, h1) ==
  LET last == h1[Len(h1)]  level == Platform(side, h1) IN
  /\ Len(h1) >= Bars.platform + 2
  /\ side * (last.c - level) > 0
  /\ 100 * side * (last.c - level) <= 5 * level
  /\ Heavy(h1, Bars.platform)
BreaksOut(side, h1) ==
  LET last == h1[Len(h1)]  level == Platform(side, h1) IN
  /\ Len(h1) >= Bars.platform + 2
  /\ side * (last.c - level) > 0
  /\ ~Against(side, last)
  /\ 100 * side * (last.c - level) <= 5 * level
  /\ Heavy(h1, Bars.platform)

ScanSymbol(side, d1, h4, h1) == Trend(side, d1) /\ Trend(side, h4) /\ NotChased(side, h4)
                                /\ BreaksOut(side, h1)
ScanSymbolShort(d1, h4, h1) == ScanSymbol(-1, d1, h4, h1)

-----------------------------------------------------------------------------
(* A watched breakout fails when a bar after it (those past since) closes back   *)
(* over the level or the average, or has the wrong colour while the newest bar   *)
(* is heavy.                                                                     *)
AtMostOf(n, m) == IF n < m THEN n ELSE m
ShouldInvalidate(side, level, h1, since) ==
  \E i \in (since + 1)..Len(h1) :
    \/ side * (h1[i].c - level) < 0
    \/ Beyond(side, Ema(Closes(h1), AtMostOf(Bars.fast, Len(h1))), Whole(h1[i].c))
    \/ Against(side, h1[i]) /\ Heavy(h1, AtMostOf(Bars.volume, Len(h1) - 1))
ShouldInvalidateShort(level, h1, since) == ShouldInvalidate(-1, level, h1, since)

-----------------------------------------------------------------------------
(* The stop, kept between 2 and 5 per cent of the entry: a wider one drops the   *)
(* entry, a tighter one is moved out to 2 per cent.                              *)
ClampStop(side, entry, stop) ==
  LET distance == side * (1000 * entry - stop) IN
  IF distance > 50 * entry THEN None
  ELSE IF distance < 20 * entry THEN 1000 * entry - side * 20 * entry
  ELSE stop

Plan(side, entry, stop) ==
  LET risk == side * (1000 * entry - stop) IN
  [entry |-> 1000 * entry, stop |-> stop, tp1 |-> 1000 * entry + side * risk,
   tp2 |-> 1000 * entry + side * 2 * risk]

Retest(bars, since) == SubSeq(bars, since + 1, Len(bars) - 1)   \* post[:-1]
OnLevel(b, level) == 100 * b.l <= 101 * level /\ 100 * b.h >= 99 * level

Triggers(side, level, bars, since) ==
  LET last == bars[Len(bars)]  prev == bars[Len(bars) - 1]  retest == Retest(bars, since) IN
  /\ Len(bars) >= Bars.retest /\ Len(bars) >= since + 2
  /\ \E i \in DOMAIN retest : OnLevel(retest[i], level)
  /\ \E i \in DOMAIN retest : Less(Whole(retest[i].v), VolMa(bars, Bars.volume))
  /\ side * (last.c - level) > 0
  /\ side * (last.c - last.o) > 0
  /\ side * (last.c - (IF side = 1 THEN prev.h ELSE prev.l)) > 0
  /\ Heavy(bars, Bars.volume)

StopOfLastBar(side, bars, since) == -side * Tip(-side, bars[Len(bars) - 1]) * (1000 - side * 2)
RetestStop(side, bars, since) == Extreme(-side, Retest(bars, since)) * (1000 - side * 2)

CheckEntry(side, level, bars, since) ==
  LET entry == bars[Len(bars)].c
      stop  == ClampStop(side, entry, RetestStop(side, bars, since))
  IN  IF Triggers(side, level, bars, since) /\ stop # None THEN Plan(side, entry, stop) ELSE None
CheckEntryShort(level, bars, since) == CheckEntry(-1, level, bars, since)

-----------------------------------------------------------------------------
Scans   == [kind : {"scan"}, side : {1, -1}, d1 : Trends, h4 : Trends, h1 : Hours]
Watches == [kind : {"watch"}, side : {1, -1}, level : Levels, h1 : Hours, since : 0..2]
Retests == [kind : {"retest"}, side : {1, -1}, level : Levels, bars : Quarters, since : 0..2]

Init == case = None
LookScan   == case = None /\ case' \in Scans
LookWatch  == case = None /\ case' \in Watches
LookRetest == case = None /\ case' \in Retests
Next == LookScan \/ LookWatch \/ LookRetest
Spec == Init /\ [][Next]_case

Is(kind) == case # None /\ case.kind = kind
Taken(c)   == IF c.side = 1 THEN ScanSymbol(1, c.d1, c.h4, c.h1) ELSE ScanSymbolShort(c.d1, c.h4, c.h1)
Failed(side, level, h1, since) ==
  IF side = 1 THEN ShouldInvalidate(1, level, h1, since) ELSE ShouldInvalidateShort(level, h1, since)
Entered(c) == IF c.side = 1 THEN CheckEntry(1, c.level, c.bars, c.since) ELSE CheckEntryShort(c.level, c.bars, c.since)

(* A plan has its stop behind the entry by 2 to 5 per cent of it, its first       *)
(* target as far before it as the stop is behind, and the second twice as far.   *)
WavePlanSound ==
  Is("retest") =>
    LET p == Entered(case)
        ahead(x) == case.side * (x - p.entry)
    IN  p # None => /\ -ahead(p.stop) * 100 \in (2 * p.entry)..(5 * p.entry)
                    /\ ahead(p.tp1) = -ahead(p.stop) /\ ahead(p.tp2) = 2 * ahead(p.tp1)

(* The stop is behind every bar of the retest: price has come back from there.   *)
StopBehindRetest ==
  Is("retest") =>
    LET p == Entered(case) IN
    p # None => \A i \in (case.since + 1)..(Len(case.bars) - 1) :
                  Tip(-case.side, case.bars[i]) * 1000 < -case.side * p.stop

(* A breakout that is taken passes the test for failing, its own bar included:    *)
(* the two rules never disagree about one hour, however many bars are fetched.   *)
BreakoutSurvives ==
  Is("scan") /\ Taken(case) =>
    \A n \in 2..Len(case.h1) :
      ~Failed(case.side, Platform(case.side, case.h1), Newest(case.h1, n), n - 1)
=============================================================================
