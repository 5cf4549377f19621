------------------------------- MODULE HotRules -------------------------------
(* The hot-list strategies: the plan of hotlist/service.py on a coin's bars, what  *)
(* each strategy of the watchlist takes from the plans (hotlist/watchlist.py,      *)
(* v3/strategies/v66.py to v664.py), the momentum strategy (v3/strategies/         *)
(* hotlist.py) and the diagnostic funnel (hotlist/funnel.py).  Percentages are in  *)
(* tenths and volume ratios in hundredths.                                        *)
EXTENDS Indicators

CONSTANTS Bars,      \* periods and lengths: [e10, e20, e50, atr, swing, m15, h1, triple]
          Coins,     \* [source : {1, -1}, m15, h1, h4 : bars]
          Lists,     \* sequences of listed coins: see Listed below
          Most,      \* opportunities of a review, signals of a scan
          Width,     \* coins in the momentum strategy's pool
          None

(* Listed: [valid, planned, t1, t4, x1, x4 : BOOLEAN, source, change, quote, stop,  *)
(* ratio, distance], in the order of symbols.                                     *)
HotAssumption == /\ \A p \in {"e10", "e20", "e50", "atr", "swing", "m15", "h1", "triple"} : Bars[p] \in Nat \ {0}
                 /\ Most \in Nat \ {0} /\ Width \in Nat \ {0}

VARIABLE case

-----------------------------------------------------------------------------
Larger(a, b) == IF Less(a, b) THEN b ELSE a

Triple(side, bars) ==      \* taken for aligned while there are too few bars
  Len(bars) >= Bars.triple =>
    LET c == Closes(bars) IN
    /\ Beyond(side, SeededEma(c, Bars.e10), SeededEma(c, Bars.e20))
    /\ Beyond(side, SeededEma(c, Bars.e20), SeededEma(c, Bars.e50))
Above(side, price, average) == IF side = 1 THEN AtMost(average, Whole(price)) ELSE Less(Whole(price), average)

Planned(coin) == Len(coin.m15) >= Bars.m15 /\ Len(coin.h1) >= Bars.h1
(* How far the entry is behind the price, and the stop behind the entry.           *)
Gap(side, m15) ==
  Larger(Times(Minus(Whole(m15[Len(m15)].c), SeededEma(Closes(m15), Bars.e20)), side, 1), Times(Atr(m15, Bars.atr), 1, 4))
Plan(side, coin) ==
  LET m15    == coin.m15
      price  == m15[Len(m15)].c
      recent == Before(m15, Bars.swing)
      entry  == Minus(Whole(price), Times(Gap(side, m15), side, 1))
      stop   == Times(Larger(Minus(Times(entry, side, 1), Whole(side * Extreme(-side, recent))), Atr(m15, Bars.atr)), -side, 1)
  IN  [entry |-> entry, stop |-> Plus(entry, stop), first |-> Minus(entry, stop), second |-> Minus(entry, Times(stop, 2, 1)),
       ratio |-> VolRatio(m15, Bars.swing),
       t1 |-> Above(side, price, SeededEma(Closes(coin.h1), Bars.e20)),
       t4 |-> Len(coin.h4) >= Bars.triple => Above(side, price, SeededEma(Closes(coin.h4), Bars.e50)),
       x1 |-> Triple(side, coin.h1), x4 |-> Triple(side, coin.h4)]

-----------------------------------------------------------------------------
(* The strategies of the watchlist.  A limit of 0 is none. *)
Free == [move |-> 0, stop |-> 50, ratio |-> 0, t1 |-> FALSE, t4 |-> FALSE, triple |-> FALSE, distance |-> 1000, quiet |-> FALSE]
V66  == [Free EXCEPT !.ratio = 120]
V662 == [Free EXCEPT !.move = 50, !.stop = 30, !.ratio = 120, !.t1 = TRUE, !.t4 = TRUE]
V663 == [Free EXCEPT !.move = 50, !.stop = 30, !.triple = TRUE]
V664 == [Free EXCEPT !.move = 50, !.stop = 25, !.triple = TRUE, !.distance = 15, !.quiet = TRUE]
Policy(id) == CASE id = "v66" -> V66 [] id = "v662" -> V662 [] id = "v663" -> V663 [] id = "v664" -> V664 [] OTHER -> Free

Size(change) == AbsDiff(change, 0)
Liquid(c) == c.quote >= 5
Passes(p, c) ==
  /\ Liquid(c) /\ Size(c.change) >= p.move
  /\ c.planned
  /\ c.stop <= p.stop /\ c.ratio >= p.ratio
  /\ p.t1 => c.t1
  /\ p.t4 => c.t4
  /\ p.triple => c.x1 /\ c.x4
  /\ c.distance <= p.distance
  /\ p.quiet => c.ratio < 100
Ahead(list, i, j) ==      \* larger move, then larger volume, then symbol
  LET a == list[i]  b == list[j] IN
  \/ Size(a.change) > Size(b.change)
  \/ Size(a.change) = Size(b.change) /\ (a.quote > b.quote \/ (a.quote = b.quote /\ i < j))
Leading(S, n, Before2(_, _)) == {i \in S : Cardinality({j \in S : Before2(j, i)}) < n}
Review(p, list) == Leading({i \in DOMAIN list : Passes(p, list[i])}, Most, LAMBDA i, j : Ahead(list, i, j))

(* What a strategy still refuses of the plans it is given. *)
Kept(id, c) ==
  CASE id = "v66"  -> c.source = -1 => c.ratio <= 250
    [] id = "v663" -> IF c.source = 1 THEN c.ratio >= 120 ELSE c.ratio < 90
    [] id = "v664" -> c.source = 1
    [] OTHER -> TRUE
Generate(id, list) == {i \in Review(Policy(id), list) : Kept(id, list[i])}

(* The momentum strategy: the coins that moved most, the tighter stops first.      *)
Pool(list) ==
  Leading({i \in DOMAIN list : list[i].valid /\ Liquid(list[i]) /\ Size(list[i].change) >= 150}, Width,
          LAMBDA i, j : Ahead(list, i, j))
Direction(c) == IF c.change > 0 THEN 1 ELSE -1
Tradable(c) == c.planned /\ c.stop <= 200 /\ (Direction(c) = -1 => c.stop <= 60)
LiveEligible(c) == c.stop <= 80
Tighter(list, i, j) ==
  LET a == list[i]  b == list[j]
      key(c) == <<IF LiveEligible(c) THEN 0 ELSE 1, c.stop, -c.quote, IF c.t1 THEN 0 ELSE 1, -Size(c.change)>>
      earlier(x, y) == \E n \in 1..5 : x[n] < y[n] /\ \A m \in 1..(n - 1) : x[m] = y[m]
  IN  earlier(key(a), key(b)) \/ (key(a) = key(b) /\ i < j)
Momentum(list) ==
  Leading({i \in Pool(list) : Tradable(list[i])}, Most, LAMBDA i, j : Tighter(list, i, j))

(* The funnel repeats the review, without the limits a strategy may set, on the    *)
(* contracts that may be traded, and counts what each step leaves.                *)
Universe(list) == {i \in DOMAIN list : list[i].valid}
Moved(list)    == {i \in Universe(list) : Size(list[i].change) >= 150}
Sold(list)     == {i \in Moved(list) : Liquid(list[i])}
Looked(list)   == {i \in Universe(list) : Liquid(list[i]) /\ list[i].planned}
Narrow(list)   == {i \in Looked(list) : list[i].stop <= 50}
Funnel(list)   == Leading(Narrow(list), Most, LAMBDA i, j : Ahead(list, i, j))
Steps(list) ==
  <<Len(list), Cardinality(Universe(list)), Cardinality(Moved(list)), Cardinality(Sold(list)),
    Cardinality(Looked(list)), Cardinality(Narrow(list)), Cardinality(Funnel(list))>>

-----------------------------------------------------------------------------
LookHotCoin == case = None /\ case' \in [kind : {"hotcoin"}, coin : Coins]
LookList    == case = None /\ case' \in [kind : {"list"}, list : Lists]
Init == case = None
Next == LookHotCoin \/ LookList
Spec == Init /\ [][Next]_case
Is(kind) == case # None /\ case.kind = kind

(* The entry waits behind the price and behind the average, the stop is behind the *)
(* swing and a full range behind the entry, and the second target pays for two     *)
(* risks, even for a market that does not move.                                  *)
HotPlanSound ==
  Is("hotcoin") /\ Planned(case.coin) =>
    \A plan \in {Plan(case.coin.source, case.coin)} :
    LET m15 == case.coin.m15  s == case.coin.source
        behind(a, b) == ~Beyond(s, a, b)
    IN  /\ behind(plan.entry, Whole(m15[Len(m15)].c)) /\ behind(plan.entry, SeededEma(Closes(m15), Bars.e20))
        /\ \A b \in Range(Before(m15, Bars.swing)) : behind(plan.stop, Whole((-s) * Tip(-s, b)))
        /\ AtMost(Atr(m15, Bars.atr), Times(Minus(plan.entry, plan.stop), s, 1))
        /\ Minus(plan.second, plan.entry)[1] * Minus(plan.entry, plan.stop)[2]
             = 2 * Minus(plan.entry, plan.stop)[1] * Minus(plan.second, plan.entry)[2]

(* The funnel explains the list: on contracts that may be traded it ends with what  *)
(* a review without limits of its own returns, and no step adds to the one before. *)
FunnelExplains ==
  Is("list") =>
    /\ (\A i \in DOMAIN case.list : case.list[i].valid) => Funnel(case.list) = Review(Free, case.list)
    /\ \A n \in 2..4 : Steps(case.list)[n] <= Steps(case.list)[n - 1]
    /\ \A n \in 6..7 : Steps(case.list)[n] <= Steps(case.list)[n - 1]

(* The momentum strategy leaves out a coin the live engine would trade only for     *)
(* others it would trade, none with a wider stop; and of two coins it could take,  *)
(* a stricter strategy of the watchlist takes no coin V66 had to refuse outright.  *)
LiveComesFirst ==
  Is("list") =>
    LET taken == Momentum(case.list)  left == {i \in Pool(case.list) : Tradable(case.list[i])} \ taken IN
    \A i \in left : \A j \in taken : case.list[j].stop <= case.list[i].stop

StricterIsStricter ==
  Is("list") =>
    \A i \in Generate("v662", case.list) :
      Passes(V66, case.list[i]) /\ (i \notin Generate("v66", case.list) =>
        \/ case.list[i].source = -1 /\ case.list[i].ratio > 250
        \/ Cardinality(Review(V66, case.list)) = Most)
=============================================================================
