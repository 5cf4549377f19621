-------------------------------- MODULE MCRules --------------------------------
(* The decision rules on small bars: one step picks one input of one rule module.   *)
(* The periods are cut down, the shape of the series is chosen so that every rule   *)
(* takes some of them and refuses others at each of its conditions.                *)
EXTENDS WaveRules

Candle(o, c, u, d, v) == Bar(o, (IF o > c THEN o ELSE c) + u, (IF o > c THEN c ELSE o) - d, c, v)

(* Stock *)
StockStocks ==
  {[close |-> c, high |-> c + 100, ma20 |-> m20, ma50 |-> m50, ma200 |-> m200, prior52 |-> p,
    high52 |-> (IF p > c + 100 THEN p ELSE c + 100), yhigh |-> y, low5 |-> (IF y < c THEN y ELSE c) - d,
    vol |-> v, lead20 |-> l, lead60 |-> l, sector |-> 100] :
    c \in {9400, 10000, 10500, 11500}, m20 \in {9800, 10200}, m50 \in {9600, 10000, 10300},
    m200 \in {9000, None}, p \in {10000, 11000, 14000}, y \in {9300, 10100, 10600},
    d \in {50, 400}, v \in {90, 160, 210}, l \in {-1, 4, 11}}
StockPaths == [1..6 -> {92, 98, 100, 104, 112}]

(* Wave *)
WaveBars == [trend |-> 2, fast |-> 2, slow |-> 3, platform |-> 2, retest |-> 4, volume |-> 2]
WaveTrends == {<<Candle(100, 100, 1, 1, 1), Candle(o, c, 1, 1, 1)>> : o \in {90, 100, 110}, c \in {85, 95, 105, 115}}
WaveHours == {<<Candle(100, 100, 1, 1, 4), Candle(100, c2, 1, 1, v2), Candle(c2, c3, 1, 1, 4), Candle(o4, c4, 1, 1, v4)>> :
              c2 \in {98, 103}, v2 \in {4, 6}, c3 \in {97, 100, 104}, o4 \in {97, 100, 103, 107}, c4 \in {93, 96, 100, 104, 106,
    111}, v4 \in {4, 9}}
WaveQ == {Candle(o, c, w, w, v) : o \in {99, 102}, c \in {97, 99, 102, 103}, w \in {0, 2}, v \in {2, 4, 8}}
WaveQuarters == {<<Candle(100, 100, 1, 1, 4), a, b, d>> : a \in {Candle(100, 102, 1, 1, 4), Candle(100, 97, 1, 1, 2)},
    b \in WaveQ, d \in {Candle(o, c, 0, 0, v) : o \in {98, 100, 104}, c \in {95, 97, 103, 105}, v \in {4, 9}}}

(* Rsd *)
RsdBars == [days |-> 6, season |-> 8, month |-> 4, streak |-> 2, high |-> 2, h4 |-> 6, h1 |-> 5, reach |-> 3, nearest |-> 6,
           atr |-> 2, volume |-> 4, rsi |-> 2, gap |-> 3, wide |-> 4, post |-> 6, quarters |-> 8]
RsdB(o, c, v) == IF c < o THEN Bar(o, o, c - 2, c, v) ELSE IF c > o THEN Bar(o, c + 2, o, c, v) ELSE Bar(o, o, o, c, v)
RsdPath(cs, v) == [i \in DOMAIN cs |-> RsdB(cs[IF i = 1 THEN 1 ELSE i - 1], cs[i], v[i])]
RsdMirror(b) == Bar(2000 - b.o, 2000 - b.l, 2000 - b.h, 2000 - b.c, b.v)
RsdBoth(S) == S \cup {[i \in DOMAIN s |-> RsdMirror(s[i])] : s \in S}
RsdLow(S) == {[i \in DOMAIN s |-> Bar(s[i].o - 800, s[i].h - 800, s[i].l - 800, s[i].c - 800, s[i].v)] : s \in S}
RsdVols == {<<5, 5, 5, 5, 5, 4, 4, 9, 5, 5>>, <<5, 5, 5, 5, 5, 8, 8, 9, 5, 5>>, <<5, 5, 5, 5, 5, 4, 4, 4, 4, 5>>}
RsdQ == {RsdPath(<<1012, 1010, t1, x, y, t2, z, t, u, r>>, v) :
          t1 \in {1004, 1006}, x \in {1007, 1010}, y \in {1009, 1012}, t2 \in {1000, 1003}, z \in {1004, 1008}, t \in {1013, 1016},
          u \in {1014}, r \in {1003}, v \in RsdVols}
       \cup {Append(SubSeq(p, 1, 8), RsdB(o, o, 5)) : o \in {1012, 1020}, p \in {RsdPath(<<1012, 1010, t1, 1007, 1012, 1003,
    1006, t>>, v) : t1 \in {1004, 1006}, t \in {1013, 1016}, v \in RsdVols}}
RsdQuarters == RsdBoth(RsdQ) \cup RsdLow(RsdQ)
RsdH(p) == RsdPath(<<1000, 1010, p, 1000, 1000, 1001, 1000>>, [i \in 1..7 |-> 5])
RsdAhead == RsdBoth({RsdH(1015), RsdH(1030), RsdH(1045), RsdH(1060)}) \cup RsdLow({RsdH(1030), RsdH(1045)})
RsdHours == RsdBoth({RsdPath(<<1000, 1000, 1000, 1000, b, c, d, 1000>>, <<5, 5, 5, 5, 5, w, z, 5>>) : b \in {998, 1003},
    c \in {997, 1006, 1010}, d \in {990, 1000, 1007, 1012}, w \in {5, 8}, z \in {5, 8}})
RsdWn(l, o, i) == [level |-> l, origin |-> o, impulse |-> i]
RsdWatches == {RsdWn(1001, 990, 1010), RsdWn(1001, 995, 1010), RsdWn(999, 990, 1010), RsdWn(1001, 1010, 1010)}
  \cup {RsdWn(999, 1010, 990), RsdWn(999, 1005, 990), RsdWn(201, 190, 210)}
RsdWave(e, f) == RsdPath(<<1010, 1005, 1000, 1006, 1012, 1018, 1012, 1006, 1012, 1018, e, 1018, 1012, f, 1000>>, [i \in 1..15 |-> 5])
RsdDays == RsdBoth({RsdWave(1024, 1010), RsdWave(1018, 1012), RsdWave(1024, 990)})

(* Classic *)
ClassicBars == [need |-> 5, days |-> 5, week |-> 3, month |-> 8, fast |-> 2, slow |-> 3, slope |-> 1, atr |-> 2, volume |-> 3,
           swing |-> 1, stop |-> 2, platform |-> 2, recent |-> 3, tail |-> 2, half |-> 3, quiet |-> 4, dip |-> 3, back |-> 6,
           pool |-> 2, cap |-> 2]
ClassicPath(cs) == [i \in DOMAIN cs |-> Candle(cs[IF i = 1 THEN 1 ELSE i - 1], cs[i], 1, 1, 1)]
ClassicMirror(s) == [i \in DOMAIN s |-> Bar(400 - s[i].o, 400 - s[i].l, 400 - s[i].h, 400 - s[i].c, s[i].v)]
ClassicBoth(S) == S \cup {ClassicMirror(s) : s \in S}
ClassicDays == ClassicBoth({ClassicPath(cs) : cs \in {<<180, 180, 181, 180, 180, 210, 250, 270>>, <<150, 180, 170, 176, 180, 250,
    270, 256>>,
                                   <<150, 176, 170, 180, 220, 210, 250, 260>>, <<190, 210, 220, 200, 190, 190, 195, 200>>}})
ClassicH4 == ClassicBoth({ClassicPath(cs) : cs \in {<<188, 188, 189, 189, 190>>, <<198, 198, 196, 200, 202>>, <<190, 191, 192, 194, 196>>}})
ClassicSix(s, v) == [i \in 1..6 |-> Candle(s[i][1], s[i][2], s[i][3], s[i][4], v[i])]
ClassicLoud == {<<12, 12, 12, 4, 4, 4>>, <<4, 4, 4, 16, 4, 4>>, <<12, 12, 4, 30, 4, 4>>}
\* the top of a wave, and a platform that breaks; the fourth bar may be loud
ClassicH1 == ClassicBoth({ClassicSix(s, v) : s \in
  {<<<<200, 200, 0, 0>>, <<200, 212, 0, 0>>, <<202, 200, 0, 0>>, <<200, 204, 4, 0>>, <<201, 200, 0, 0>>, <<200, 198, 0, 0>>>>,
   <<<<205, 205, 0, 0>>, <<200, 210, 0, 0>>, <<209, 201, 0, 0>>, <<201, 214, 0, 0>>, <<213, 212, 0, 0>>, <<212, 213, 0, 0>>>>,
   <<<<200, 201, 0, 0>>, <<200, 196, 0, 0>>, <<204, 212, 0, 0>>, <<200, 206, 4, 0>>, <<206, 210, 0, 0>>, <<208, 206, 0, 0>>>>},
    v \in ClassicLoud})
ClassicFive(s, v) == [i \in 1..5 |-> Candle(s[i][1], s[i][2], 0, 0, IF i = 5 THEN v ELSE 4)]
ClassicM15 == ClassicBoth({ClassicFive(s, v) : s \in
  {<<<<200, 200>>, <<200, 194>>, <<200, 202>>, <<202, 198>>, <<200, 204>>>>,
   <<<<204, 202>>, <<204, 206>>, <<206, 206>>, <<206, 200>>, <<200, 203>>>>,
   <<<<200, 200>>, <<204, 206>>, <<206, 206>>, <<206, 185>>, <<185, 204>>>>}, v \in {4, 5, 9, 17}})
ClassicCoins == [d1 : ClassicDays, h4 : ClassicH4, h1 : ClassicH1, m15 : ClassicM15]
ClassicIds == {"c1", "c2", "c4_top", "k1", "k2", "k3", "k3v2", "c3", "c4_bot", "k4", "k4v2"}
ClassicSc(a, b, c) == [id \in ClassicIds |-> CASE id \in {"c1", "c3"} -> a [] id \in {"k3", "k4"} -> b [] id \in {"k3v2",
    "k4v2"} -> c [] OTHER -> 0]
ClassicCycles == {<<>>} \cup {<<[main |-> TRUE, week |-> 1, position |-> 1, scores |-> ClassicSc(a, b, 80)], [main |-> TRUE,
    week |-> w, position |-> 2, scores |-> ClassicSc(b, 80, a)],
   [main |-> FALSE, week |-> 2, position |-> p, scores |-> ClassicSc(99, 99, c)]>> : a \in {0, 80, 90}, b \in {70, 85}, w \in {0,
    3}, p \in {0, 2}, c \in {80, 90}}

(* Reversal *)
ReversalBars == [day |-> 4, rsi |-> 3, boll |-> 11, atr |-> 2, volume |-> 3]
ReversalPath(cs, u, d) == [i \in DOMAIN cs |-> Candle(cs[IF i = 1 THEN 1 ELSE i - 1], cs[i], u, d, 1)]
ReversalD1 == {[ReversalPath(<<200, 201, 200, 201, 200, x>>, 1, 1) EXCEPT ![6] = Candle(200, x, u, d, 1), ![5] = Candle(201, 200,
    y, y, 1)] : x \in {200, 210}, u \in {0, 10}, d \in {0}, y \in {1, 10}}
ReversalH4 == {ReversalPath(cs, 1, 1) : cs \in {<<200, 200, 200, 200>>, <<200, 202, 204, 206>>, <<206, 204, 202, 200>>, <<200,
    210, 208, 218>>, <<200, 190, 192, 182>>, <<200, 208, 206, 210>>}}
ReversalH1 == {ReversalPath([i \in 1..11 |-> IF i = 11 THEN x ELSE 200], u, d) : x \in {200}, u \in {0, 20}, d \in {0, 20}}
ReversalM15 == {[ReversalPath(<<200, 201, 200, 201, 200>>, 0, 0) EXCEPT ![5] = Candle(200, x, u, d, v)] : x \in {198, 200},
    u \in {0, 6}, d \in {0, 6}, v \in {3, 4}}
ReversalOI == {None, <<100, 95, 90>>, <<100, 80, 95>>}
ReversalMarkets == [ticker : {[usdt |-> TRUE, main |-> FALSE, quoteVolume |-> q] : q \in {30, 201}}, d1 : ReversalD1,
    h4 : ReversalH4, h1 : ReversalH1, m15 : ReversalM15, oi : ReversalOI]

(* Score *)
ScoreBars == [limit |-> [d1 |-> 5, h4 |-> 7, h1 |-> 8, m15 |-> 6], need |-> [d1 |-> 6, h4 |-> 4, h1 |-> 4, m15 |-> 3],
   e10 |-> 2, e20 |-> 3, e50 |-> 4, atr |-> 2, prior |-> 3, recent |-> 2, swing |-> 1, high1 |-> 3, high15 |-> 2]
ScorePath(cs, v) == [i \in DOMAIN cs |-> Candle(cs[IF i = 1 THEN 1 ELSE i - 1], cs[i], 1, 1, IF i > Len(cs) - 4 THEN v ELSE 2)]
ScoreCandidates == {[id |-> id, side |-> side, quote |-> q, ratio |-> r, reward |-> w, stop |-> s, change |-> g, fast |-> e[1],
    slow |-> e[2], regime |-> side, away |-> 5]
   : id \in {"v3", "v66", "v664", "wave_long", "rsd"}, side \in {1, -1}, q \in {0, 100}, r \in {0, 90, 400}, w \in {15, 30},
    s \in {20, 60}, g \in {4, 16}, e \in {<<0, 0>>, <<201, 199>>}}
ScoreHistories == [d1 : {ScorePath(<<200, 201, 202, 203, 204, 205, 206, 207>>, 2)}, h4 : {ScorePath(<<200, 201, 202, 203, 204,
    203>>, 2), ScorePath(<<204, 201, 202, 203, 202, 203>>, 2)},
  h1 : {ScorePath(<<200, 203, 201, 205, 202, 206, 203, 204>>, v) : v \in {2, 4}} \cup {ScorePath(<<200, 200, 199, 199, 198, 198,
    197, 190>>, 3)}, m15 : {ScorePath(<<200, 202, 201, x, y, 200>>, 2) : x \in {199, 203}, y \in {198, 204}}]
ScoreBreakdowns == [volume : {0, 7, 20}, trend : {3, 25}, space : {4, 10, 30}, pattern : {17, 25}, stop : {10, 20, 60}, reward : {15, 30}]

(* Hot *)
HotBars == [e10 |-> 2, e20 |-> 3, e50 |-> 4, atr |-> 2, swing |-> 3, m15 |-> 4, h1 |-> 3, triple |-> 4]
HotPath(cs, u, d) == [i \in DOMAIN cs |-> Candle(cs[IF i = 1 THEN 1 ELSE i - 1], cs[i], u, d, i)]
HotCoins == [source : {1, -1}, m15 : {HotPath(cs, u, d) : cs \in {<<100, 101, 102, 103>>, <<100, 100, 100, 100>>, <<100, 102,
    101, 104>>, <<104, 101, 103, 99>>, <<100, 99>>}, u \in {0, 2}, d \in {0, 2}},
  h1 : {HotPath(<<100, 101, 102, 103>>, 1, 1), HotPath(<<100, 101, 99>>, 1, 1)}, h4 : {HotPath(<<100, 101, 102, 103>>, 1, 1), <<>>}]
HotL(v, s, c, q, st, r, g) == [valid |-> v, planned |-> TRUE, t1 |-> g, t4 |-> g, x1 |-> g, x4 |-> TRUE, source |-> s,
    change |-> c, quote |-> q, stop |-> st, ratio |-> r, distance |-> 10]
HotListed == {HotL(TRUE, 1, 160, 9, 30, 120, TRUE), HotL(TRUE, 1, 200, 9, 70, 130, TRUE), HotL(TRUE, -1, -160, 7, 25, 260, TRUE),
    HotL(TRUE, -1, 60, 9, 30, 90, TRUE), HotL(FALSE, 1, 250, 9, 20, 150, TRUE), HotL(TRUE, 1, 180, 4, 20, 150, TRUE), HotL(TRUE,
    1, 170, 8, 90, 130, FALSE), HotL(TRUE, 1, 55, 6, 20, 130, TRUE),
              HotL(TRUE, 1, 60, 9, 20, 90, TRUE)}
HotLists == {<<a, b, c, d>> : a, b, c, d \in HotListed}

(* Signal *)
SignalBars == [least |-> 4, fast |-> 2, slow |-> 3, atr |-> 2, need |-> 5, near |-> 7, swing |-> 6, stop |-> 8, target |-> 9, range |-> 4]
SignalPath(cs, u) == [i \in DOMAIN cs |-> Candle(cs[IF i = 1 THEN 1 ELSE i - 1], cs[i], u, u, 1)]
SignalDots(cs, u) == [i \in DOMAIN cs |-> Candle(cs[i], cs[i], u, u, 1)]
SignalBoth(S) == S \cup {[i \in DOMAIN s |-> RsdMirror(s[i])] : s \in S}
SignalRise == SignalBoth({SignalPath(<<990, 994, 998, 1004>>, 1)})
SignalLevel == SignalPath(<<1000, 1000, 1000, 1000>>, 2)
SignalLead == SignalRise \cup SignalBoth({SignalPath(<<1000, 1004, 1004, 1001>>, 1), SignalPath(<<980, 985, 990, 1020>>, 40)})
              \cup {SignalLevel, SignalPath(<<1000, 1001>>, 1)}
SignalLeaders == [m15 : SignalRise \cup {SignalLevel}, h1 : SignalRise \cup {SignalLevel}, h4 : SignalRise \cup {SignalLevel}]
                 \cup {[m15 |-> q, h1 |-> q, h4 |-> q] : q \in SignalLead}
SignalM15 == SignalBoth({SignalDots(<<1010, 1005, x, 1004, 1008, c>>, u) : x \in {972, 985, 1000}, c \in {1000, 1006, 1020}, u \in {0, 3}})
SignalH1 == SignalBoth({SignalDots(<<1010, 1000, a, 1015, y, 1010, 1004, b, 1006, 1008>>, u) :
                          a \in {940, 978, 998}, b \in {984, 1005}, y \in {1035, 1060, 1160}, u \in {0, 7}})
SignalH4 == SignalBoth({SignalDots(<<1000, 1000, z, 1005, 1020, 1000, 1010>>, 2) : z \in {1012, 1041, 1090}})
SignalMarkets == [m15 : SignalM15, h1 : SignalH1, h4 : SignalH4]
SignalCoins(n) == {[name |-> n, sector |-> s, score |-> x, trend |-> x, capital |-> c, space |-> 50, up |-> g, down |-> ~g \/ x = 50] :
                     s \in {0, 1}, x \in {8, 50, 86, 95}, c \in {50 + n}, g \in BOOLEAN}
SignalLists == {<<a, b, c>> : a \in {x \in SignalCoins(3) : x.sector = 1}, b \in SignalCoins(1), c \in {x \in SignalCoins(2) : x.sector = 1}}

(* Replay *)
ReplayPolicy == [train |-> 1, validation |-> 1, test |-> 1, step |-> 1, embargo |-> 2]
ReplayTouched == {{}, {"entry"}, {"entry", "tp1"}, {"stop"}, {"tp1", "tp2"}}
ReplayLater == {{}, {"entry", "stop"}, {"entry", "tp1", "tp2"}}

(* Gold *)
GoldBars == [sma |-> 4, atr |-> 2, fast |-> 2, slow |-> 3, m5 |-> 8, m15 |-> 6, h1 |-> 6, back |-> 3, need |-> 5, ema |-> 3, swing |-> 3]
GoldPath(cs, u) == [i \in DOMAIN cs |-> Candle(cs[IF i = 1 THEN 1 ELSE i - 1], cs[i], u, u, 1)]
GoldM5 == ClassicBoth({GoldPath(<<200, 200, x, 201, y, z, w, c, 200>>, u) :
                         x \in {198, 200}, y \in {201, 204}, z \in {200, 203}, w \in {201, 205}, c \in {199, 202, 206, 216}, u \in {0, 1}})
GoldM15 == ClassicBoth({GoldPath(<<200, 200, 200, 201, x, y, 200>>, 0) : x \in {200, 202}, y \in {201, 203}})
GoldH1 == ClassicBoth({GoldPath(<<200, 200, 200, 201, x, 202, y, 200>>, 0) : x \in {199, 202}, y \in {201, 204}})
GoldGolds == [m5 : GoldM5, m15 : GoldM15, h1 : GoldH1, young : {0, 1}]
GoldTapes == ClassicBoth({GoldPath(<<200, x, y, 200, c>>, u) : x \in {200, 190}, y \in {196, 204, 198}, c \in {196, 200, 203, 206}, u \in {0, 2, 3}})

-----------------------------------------------------------------------------
Stock == INSTANCE StockSignals WITH Stocks <- StockStocks, Paths <- StockPaths, Window <- 3, Lead <- 2, LeadDays <- 3, MinBelow <- 2
Rsd == INSTANCE RsdRules WITH Bars <- RsdBars, Days <- RsdDays, FourHours <- RsdDays, Hours <- RsdHours,
                              Quarters <- RsdQuarters, Ahead <- RsdAhead, Watches <- RsdWatches
Classic == INSTANCE ClassicRules WITH Bars <- ClassicBars, Coins <- ClassicCoins, Cycles <- ClassicCycles
Reversal == INSTANCE ReversalRules WITH Bars <- ReversalBars, Markets <- ReversalMarkets
Score == INSTANCE ScoreRules WITH Bars <- ScoreBars, Candidates <- ScoreCandidates, Histories <- ScoreHistories, Breakdowns <- ScoreBreakdowns
Hot == INSTANCE HotRules WITH Bars <- HotBars, Coins <- HotCoins, Lists <- HotLists, Most <- 2, Width <- 3
Gold == INSTANCE GoldRules WITH Bars <- GoldBars, Golds <- GoldGolds, Tapes <- GoldTapes, Moves <- {4, 12, 31}, Volumes24 <- {3, 60, 100}
Signal == INSTANCE SignalRules WITH Bars <- SignalBars, Leaders <- SignalLeaders, Markets <- SignalMarkets, Lists <- SignalLists,
                                    Tick <- 5, Leading <- 1, Middle <- 1, Most <- 1
Replay == INSTANCE ReplayRules WITH Windows <- {1, 2}, Policy <- ReplayPolicy, Span <- 1..10, Gaps <- {{}, {2}, {3, 4}},
                                    Leads <- {1..9, (1..10) \ {3}}, Early <- {2, 4, 5, 6, 8}, Quiet <- {{}, {"entry", "tp1", "tp2"}},
                                    Touched <- ReplayTouched, Later <- ReplayLater

ASSUME /\ Rsd!BarsAssumption /\ Classic!BarsAssumption /\ Reversal!ReversalAssumption
       /\ Score!ScoreAssumption /\ Hot!HotAssumption /\ Gold!GoldAssumption
       /\ Signal!SignalAssumption /\ Replay!ReplayAssumption

MCNext == Next \/ Stock!Next \/ Rsd!Next \/ Classic!Next \/ Reversal!Next \/ Score!Next \/ Hot!Next
          \/ Gold!Next \/ Signal!Next \/ Replay!Next
MCSpec == Init /\ [][MCNext]_case

\* Every plan that leaves a strategy can be traded: the stop lies on the losing side, behind
\* the level, the retest or the average that justified the trade; the targets lie on the other
\* side in their order and pay their multiple; a stop too wide for its score is refused.  Each
\* of the plans is written by hand, and mirrored by hand for the other side
\* (wave_common.py, rsd_*.py, classic/strategies, hotlist/service.py, signals/engine.py, gold).
PlansSound == /\ WavePlanSound /\ StopBehindRetest
              /\ Rsd!RsdPlanSound /\ Classic!ClassicPlanSound /\ Hot!HotPlanSound
              /\ Signal!StopBehindLevel /\ Signal!TargetsPay
              /\ Gold!StopBehindAverage /\ Gold!WideStopsFail

\* What a rule says of a market it says, with sides exchanged, of the mirrored market: the
\* reversal, the points of a score, the regime and its gates, and the gold strategy.
SidesMirrored == /\ Reversal!MirrorImage /\ Score!ScoreHasNoSide
                 /\ Signal!RegimeMirrored /\ Gold!GoldMirrored

\* The scan that puts a break on a watchlist and the check that reads it later use different
\* windows of the same chart: the check never throws a breakout out for the bar that made it,
\* never reads another break than the one found, and an extreme day stands out of its average.
WatchAgrees == BreakoutSurvives /\ Rsd!WatchIsTheBreak /\ Reversal!SpikeStandsOut

\* Code written twice decides alike: a strategy's second version takes what the first took, a
\* shadow refuses for its own reasons only,
\* the funnel that explains an empty list counts what the review lists, the classic score keeps
\* its order in the common scale, a replay chooses what the scan chooses, and a reclaimed
\* average is a pullback.
CopiesAgree == /\ Classic!LooserTakesToo /\ Classic!ShadowOnlyAdds /\ Hot!FunnelExplains /\ Score!MappingKeepsOrder
               /\ Signal!ReplayIsTheScan /\ Stock!ReclaimIsPullback

\* Every cut to a few signals keeps the better ones: the cap of a cycle, the live places before
\* the others, stricter filters within looser ones, one direction for a coin, and no score that
\* improves when data are missing or fall.
CutsKeepBest == /\ Classic!CycleKeepsBest /\ Classic!OnlyBreakoutOpposes
                /\ Hot!LiveComesFirst /\ Hot!StricterIsStricter
                /\ Signal!OneRowPerCoin /\ Score!BlindIsNeverBest
                /\ Stock!FocusIsSound /\ Stock!ScoreMonotone

\* A verdict on a signal does not change when more bars are known, and a parameter chosen on
\* the training windows is chosen without a bar of the validation or test windows.
PastIsPast == Replay!VerdictStands /\ Replay!NothingLeaks
=============================================================================
