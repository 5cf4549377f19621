------------------------------ MODULE RsdRules ------------------------------
(* The decisions of the divergence strategies (v3/strategies/rsd_common.py,       *)
(* rsd_long.py and rsd_short.py) on the bars they fetch: the structure of the    *)
(* higher bars, the break of structure that is watched, how the watchlist row    *)
(* carries it, and the divergence that gives an entry.  side 1 is rsd_long,      *)
(* side -1 rsd_short.  Everything but the slippage looks at bars[:-1], which     *)
(* the code takes for the closed ones.                                          *)
EXTENDS Indicators

CONSTANTS Bars,      \* how many bars the code asks for: see BarsAssumption
          Days, FourHours, Hours, Quarters, Ahead,   \* bars of each length; Ahead: hours at an entry
          Watches,   \* breaks watched: [level, origin, impulse]
          None

BarsAssumption == /\ DOMAIN Bars = {"days", "season", "month", "streak", "high", "h4", "h1", "reach", "nearest",
                                    "atr", "volume", "rsi", "gap", "wide", "post", "quarters"}
                  /\ \A b \in DOMAIN Bars : Bars[b] \in Nat \ {0}

VARIABLE case        \* the bars looked at

-----------------------------------------------------------------------------
(* Structure of the days and of the 4-hour bars. *)
SwingLowIntact(d1) ==
  LET w == Upto(Front(d1), Bars.season)  lows == {w[i].l : i \in Pivots(-1, w)} IN
  Len(d1) > Bars.days /\ (lows = {} \/ w[Len(w)].c > Min(lows))

NotStrongBull(d1) ==
  LET w == Front(d1)  n == Len(w) IN
  \/ n < Bars.month
  \/ \E i \in (n - Bars.streak + 1)..n : ~Up(w[i])
  \/ w[n].c <= MaxOf(Highs(Before(w, Bars.high)))

Adjacent(S) == {p \in S \X S : p[1] < p[2] /\ \A k \in S : k <= p[1] \/ k >= p[2]}
H4Uptrend(h4) ==
  LET w == Front(h4) IN
  /\ Len(w) >= Bars.h4
  /\ \E p \in Adjacent(Pivots(-1, w)) : w[p[2]].l > w[p[1]].l
  /\ \E p \in Adjacent(Pivots(1, w)) : w[p[2]].h > w[p[1]].h

H4Downtrend(h4) ==
  LET w == Front(h4)  highs == Pivots(1, w)  lows == Pivots(-1, w) IN
  /\ Len(w) >= Bars.h4
  /\ \/ TwoOf(highs) /\ w[LastOf(highs)].h < w[BeforeLast(highs)].h
     \/ TwoOf(lows) /\ w[Len(w)].c < w[BeforeLast(lows)].l

-----------------------------------------------------------------------------
(* The newest break of structure within reach: a bar of the right colour that    *)
(* closes over everything before it in the window by 0.15 of the average range,  *)
(* on 1.2 times the mean volume.                                                *)
Breaks(side, w, atr, volume) ==
  {i \in 2..Len(w) :
     LET level == Extreme(side, SubSeq(w, 1, i - 1)) IN
     /\ side * (w[i].c - w[i].o) > 0
     /\ side * (w[i].c - level) > 0
     /\ AtMost(Times(atr, 15, 100), Whole(side * (w[i].c - level)))
     /\ AtMost(Times(volume, 12, 10), Whole(w[i].v))}

Bos(side, h1) ==
  LET closed == Front(h1)
      w      == Upto(closed, Bars.reach)
      found  == Breaks(side, w, Atr(closed, Bars.atr), VolMa(closed, Bars.volume))
      i      == Max(found)
  IN  IF \/ Len(closed) < Bars.h1 \/ Atr(closed, Bars.atr)[1] = 0
         \/ VolMa(closed, Bars.volume)[1] = 0 \/ found = {}
      THEN None
      ELSE [level |-> Extreme(side, SubSeq(w, 1, i - 1)), impulse |-> w[i].c,
            origin |-> Extreme(-side, SubSeq(w, 1, i))]
DownwardBos(h1) == Bos(-1, h1)

ScanForBos(side, d1, h4, h1) ==
  IF Len(d1) < Bars.days \/ Len(h4) < Bars.h4 \/ Len(h1) < Bars.h1 THEN None
  ELSE IF side = 1 /\ SwingLowIntact(d1) /\ H4Uptrend(h4) THEN Bos(1, h1)
  ELSE IF side = -1 /\ NotStrongBull(d1) /\ H4Downtrend(h4) THEN DownwardBos(h1)
  ELSE None
ScanForBosShort(d1, h4, h1) == ScanForBos(-1, d1, h4, h1)

(* The row has the columns of a platform: the long side keeps the level in the   *)
(* high and the origin in the low, the short side the other way round.           *)
Row(side, bos) == [high |-> IF side = 1 THEN bos.level ELSE bos.origin,
                   low |-> IF side = 1 THEN bos.origin ELSE bos.level, close |-> bos.impulse]
Watch(side, row) == [level |-> IF side = 1 THEN row.high ELSE row.low,
                     origin |-> IF side = 1 THEN row.low ELSE row.high, impulse |-> row.close]

(* The break fails when the newest closed hour is 0.5 per cent back over it. *)
ShouldInvalidate(side, watch, h1) ==
  Len(h1) > 1 /\ side * (1000 * h1[Len(h1) - 1].c - watch.level * (1000 - side * 5)) < 0
ShouldInvalidateShort(watch, h1) == ShouldInvalidate(-1, watch, h1)

-----------------------------------------------------------------------------
(* The divergence: two pivots against the trade after the break, the second      *)
(* further out but with less momentum, in the retracement and close to the level *)
(* that broke, and a bar that closes over everything between them on volume,     *)
(* after quiet bars.                                                            *)
Momentum(side, bars, i) ==       \* as for the long side
  LET r == Rsi(Closes(SubSeq(bars, 1, i)), Bars.rsi) IN
  IF side = 1 THEN r ELSE Plus(Whole(100), Times(r, -1, 1))

Diverges(side, w, watch, i, j) ==
  LET atr  == Atr(w, Bars.atr)
      out(k) == Tip(-side, w[k])               \* grows against the trade
      low  == -side * out(j)                   \* price of the second pivot
      first == Momentum(side, w, i)  second == Momentum(side, w, j)
      span == side * (watch.impulse - watch.origin)
      back == side * (watch.impulse - low)
  IN  /\ j - i \in Bars.gap..Bars.wide
      /\ i > Bars.rsi
      /\ Less(Times(atr, 5, 100), Whole(out(j) - out(i)))
      /\ Less(Plus(first, Whole(4)), second)
      /\ Less(first, Whole(50)) /\ Less(second, Whole(50))
      /\ AtMost(first, Whole(40)) \/ AtMost(second, Whole(40))
      /\ 10 * back >= 3 * span /\ 10 * back <= 6 * span
      /\ AtMost(Whole(AbsDiff(low, watch.level)), Times(atr, 30, 100))

Confirms(side, w, i, j, t) ==
  LET volume == VolMa(w, Bars.volume)
      inner  == Extreme(side, SubSeq(w, i, j))
      quiet  == SubSeq(w, Max({j, t - 3}), t - 1)
  IN  /\ side * (w[t].c - inner) > 0 /\ side * (w[t].c - w[t].o) > 0
      /\ volume[1] > 0 =>
           /\ AtMost(<<SumOf(Volumes(quiet)), Len(quiet)>>, Times(volume, 9, 10))
           /\ AtMost(Times(volume, 12, 10), Whole(w[t].v))

(* The newest second pivot, with it the newest first, with them the newest bar.  *)
Found(side, w, watch, since) ==
  LET pivots == {i \in Pivots(-side, w) : i > since}
      pairs  == {p \in pivots \X pivots : p[2] < p[1] /\ Diverges(side, w, watch, p[2], p[1])}
  IN  UNION {{<<p[1], p[2], t>> : t \in {t \in (p[1] + 2)..Len(w) : Confirms(side, w, p[2], p[1], t)}} : p \in pairs}
Later(p, q) == \/ p[1] > q[1]
               \/ p[1] = q[1] /\ (p[2] > q[2] \/ (p[2] = q[2] /\ p[3] >= q[3]))
NewestOf(found) == IF found = {} THEN None ELSE CHOOSE p \in found : \A q \in found : Later(p, q)
Divergence(side, w, watch, since) ==
  IF Len(w) - since < Bars.post \/ side * (watch.impulse - watch.origin) <= 0 THEN None
  ELSE NewestOf(Found(side, w, watch, since))
BearishDivergence(w, watch, since) == Divergence(-1, w, watch, since)
DivergenceOf(side, w, watch, since) ==
  IF side = 1 THEN Divergence(1, w, watch, since) ELSE BearishDivergence(w, watch, since)

-----------------------------------------------------------------------------
(* The nearest pivot of the last hours in the way of the trade. *)
Obstacle(side, h1, entry) ==
  LET w == Upto(Front(h1), Bars.nearest)
      tips == {side * Tip(side, w[i]) : i \in Pivots(side, w)}
      ahead == {x \in tips : side * (x - entry) > 0}
  IN  IF ahead = {} THEN None ELSE IF side = 1 THEN Min(ahead) ELSE Max(ahead)
Support(h1, entry) == Obstacle(-1, h1, entry)

(* Targets are two risks away; without an obstacle the room is the target. *)
Room(side, h1, entry, risk) ==
  LET o == IF side = 1 THEN Obstacle(1, h1, entry) ELSE Support(h1, entry) IN
  IF o = None THEN <<2, 1>> ELSE <<side * (o - entry) * risk[2], risk[1]>>

Risk(side, w, p, atr) ==
  Plus(Whole(side * w[p[3]].c + Tip(-side, w[p[1]])), Times(atr, 15, 100))
TooTight(risk, atr)   == Less(risk, Times(atr, 60, 100))
TooWide(risk, entry)  == Less(Whole(5 * entry), Times(risk, 100, 1))

EntryAt(side, m15, h1, p, atr) ==      \* p is the divergence, or None
  LET entry == m15[p[3]].c
      risk  == Risk(side, m15, p, atr)
  IN  IF Len(m15) < Bars.quarters \/ atr[1] = 0 THEN [is |-> "nothing"]
      ELSE IF p = None THEN [is |-> "nothing"]
      ELSE IF Less(Times(atr, 20, 100), Whole(side * (m15[Len(m15)].o - entry))) THEN [is |-> "cancel"]
      ELSE IF TooTight(risk, atr) \/ TooWide(risk, entry) \/ Less(Room(side, h1, entry, risk), <<22, 10>>)
      THEN [is |-> "nothing"]
      ELSE [is |-> "entry", entry |-> entry, risk |-> risk, by |-> p]
CheckEntry(side, watch, m15, h1, since) ==
  EntryAt(side, m15, h1, DivergenceOf(side, Front(m15), watch, since), Atr(Front(m15), Bars.atr))

-----------------------------------------------------------------------------
Scans   == [kind : {"structure"}, side : {1, -1}, d1 : Days, h4 : FourHours, h1 : Hours]
Entries == [kind : {"divergence"}, side : {1, -1}, watch : Watches, m15 : Quarters, h1 : Ahead, since : {0}]

Init == case = None
LookScan  == case = None /\ case' \in Scans
LookEntry == case = None /\ case' \in Entries
Next == LookScan \/ LookEntry
Spec == Init /\ [][Next]_case

Is(kind) == case # None /\ case.kind = kind
Broken(c)  == IF c.side = 1 THEN ScanForBos(1, c.d1, c.h4, c.h1) ELSE ScanForBosShort(c.d1, c.h4, c.h1)
Failed(side, watch, h1) == IF side = 1 THEN ShouldInvalidate(1, watch, h1) ELSE ShouldInvalidateShort(watch, h1)

(* An entry's risk is positive and at most 5 per cent of the price, its stop is   *)
(* behind both pivots of the divergence, and the target of two risks is reached  *)
(* before the nearest pivot in the way.                                         *)
SoundEntry(plan, side, m15, obstacle) ==
  LET behind(x) == side * (plan.entry - x) IN
  /\ Less(Whole(0), plan.risk) /\ AtMost(Times(plan.risk, 100, 5), Whole(plan.entry))
  /\ \A i \in {plan.by[1], plan.by[2]} : Less(Whole(behind(-side * Tip(-side, m15[i]))), plan.risk)
  /\ obstacle # None /\ Less(Times(plan.risk, 2, 1), Whole(-behind(obstacle)))
RsdPlanSound ==
  Is("divergence") =>
    \A plan \in {CheckEntry(case.side, case.watch, case.m15, case.h1, case.since)} :
      plan.is = "entry" => SoundEntry(plan, case.side, case.m15, Obstacle(case.side, case.h1, plan.entry))

(* What the scan writes, the entry check reads back: a level between the start    *)
(* of the impulse and its close, which is beyond both; and the same bars do not   *)
(* make the watch fail while the newest closed hour is beyond the level.         *)
WatchIsTheBreak ==
  Is("structure") =>
    \A bos \in {Broken(case)} :
    bos # None => LET w == Watch(case.side, Row(case.side, bos)) IN
                  /\ w = bos
                  /\ case.side * (w.impulse - w.level) > 0
                  /\ case.side * (w.level - w.origin) >= 0
                  /\ case.side * (Front(case.h1)[Len(case.h1) - 1].c - w.level) >= 0 => ~Failed(case.side, w, case.h1)
=============================================================================
