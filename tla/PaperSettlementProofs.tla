----------------------- MODULE PaperSettlementProofs -----------------------
(* Type correctness of PaperSettlement, and what holds of a paper order     *)
(* whatever transaction fails and however long a pass lasts: its fill is    *)
(* real, its result is the one that came first in the candles the pass saw, *)
(* and its trail of events never runs ahead of its row.                     *)
EXTENDS PaperSettlement, Extremes

(* What is so of a row, in the table or about to be written. *)
Sound(r) ==
    /\ RealFill(r) /\ TargetFirst(r) /\ StopFirst(r)
    /\ r.st = "FILLED" => r.filled # 0
    /\ r.st # "CLOSED" => r.res = "NONE"
    /\ r.st = "NONE" => ~ r.flag

(* A row that the event type may follow, and a row that may replace r. *)
Backs(r, type) ==
    /\ RankOf(type) <= RowRank(r)
    /\ type \in Results => type = r.res
    /\ type = "BREAKEVEN_MOVED" => r.flag
Succeeds(q, r) == RowRank(r) <= RowRank(q) /\ (r.flag => q.flag)

Rising(e) == \A i, j \in DOMAIN e : i < j => RankOf(e[i]) < RankOf(e[j])

RowsSound == \A o \in Orders : Sound(orders[o])
PlanSound == \A k \in DOMAIN job.plan : Sound(job.plan[k])
Trails ==
    \A o \in Orders :
        Rising(events[o]) /\ \A i \in DOMAIN events[o] : Backs(orders[o], events[o][i])
Clock == job.pc # "idle" => job.now <= Now /\ Now <= job.now + MaxLag

(* While an order is written, every row of the plan succeeds the one        *)
(* before it, the last one backs the event, and the trail has only earlier  *)
(* events.  The flag is why a breakeven move whose second update failed,    *)
(* and which is then begun again, still leaves one event.                   *)
Writing ==
    job.pc = "write" =>
        /\ \A i \in DOMAIN events[job.o] : RankOf(events[job.o][i]) < RankOf(job.ev)
        /\ Len(job.plan) <= 2
        /\ \A k \in DOMAIN job.plan : Succeeds(job.plan[k], orders[job.o])
        /\ Len(job.plan) = 2 => Succeeds(job.plan[2], job.plan[1])
        /\ Backs(IF job.plan = <<>> THEN orders[job.o] ELSE job.plan[Len(job.plan)], job.ev)

IInv == TypeOK /\ RowsSound /\ PlanSound /\ Trails /\ Clock /\ Writing

-----------------------------------------------------------------------------
(* Whole candles: what division by Width does. *)
LEMMA Scaled ==
    ASSUME NEW k \in Int, NEW m \in Int, k <= m
    PROVE  k * Width <= m * Width
BY SettlementConstants

LEMMA Divided ==
    ASSUME NEW n \in Nat, NEW k \in Nat
    PROVE  /\ n \div Width \in Nat
           /\ k * Width <= n <=> k <= n \div Width
<1> DEFINE q == n \div Width
<1>1. Width \in Nat /\ Width > 0
    BY SettlementConstants
<1>2. q \in Int /\ q * Width <= n /\ n < q * Width + Width
    BY <1>1
<1>3. q \in Nat
    BY <1>1, <1>2
<1>4. k <= q => k * Width <= n
    BY <1>1, <1>2, <1>3
<1>5. k >= q + 1 => k * Width >= q * Width + Width
    BY <1>1, <1>2, <1>3
<1> QED BY <1>1, <1>2, <1>3, <1>4, <1>5

(* The candle of a tick. *)
LEMMA CandleOfTick ==
    ASSUME NEW c \in Nat, NEW t \in Nat \ {0}
    PROVE  CandleOf(t) \in Nat /\ (t \in Ticks(c) <=> CandleOf(t) = c)
<1> DEFINE d == CandleOf(t)
<1>1. Width \in Nat /\ t - 1 \in Nat /\ c + 1 \in Nat
    BY SettlementConstants
<1>2. d \in Nat /\ (c * Width <= t - 1 <=> c <= d)
    BY <1>1, Divided DEF CandleOf
<1>3. (c + 1) * Width <= t - 1 <=> c + 1 <= d
    BY <1>1, Divided DEF CandleOf
<1>4. c * Width \in Nat /\ (c + 1) * Width \in Nat
    BY <1>1
<1>5. t \in Ticks(c) <=> c * Width <= t - 1 /\ ~ ((c + 1) * Width <= t - 1)
    BY <1>4 DEF Ticks
<1> QED BY <1>2, <1>3, <1>5

-----------------------------------------------------------------------------
(* Typing. *)
LEMMA Small ==
    /\ 0 \in Times /\ MaxTicks \in Times /\ 0..MaxTicks \subseteq Times
    /\ Times \subseteq Nat
BY SettlementConstants DEF Times

LEMMA IdleTyped == IdleJob \in Jobs /\ IdleJob.pc = "idle" /\ IdleJob.plan = <<>>
BY Small DEF IdleJob, Jobs, EventTypes

LEMMA GoOnJob ==
    ASSUME NEW todo \in SUBSET Orders, job \in Jobs, GoOn(todo)
    PROVE  /\ job' \in Jobs /\ job'.plan = <<>>
           /\ job'.pc # "idle" => job'.pc = "pass" /\ job'.now = job.now
<1>1. CASE todo = {}
    BY <1>1, IdleTyped DEF GoOn
<1>2. CASE todo # {}
  <2>1. job' = [IdleJob EXCEPT !.pc = "pass", !.now = job.now, !.todo = todo]
      BY <1>2 DEF GoOn
  <2> QED BY <2>1, IdleTyped DEF Jobs, IdleJob
<1> QED BY <1>1, <1>2

LEMMA CarryJob ==
    ASSUME NEW o \in Orders, NEW plan \in Seq(Row), NEW ev \in EventTypes,
           job \in Jobs, Carry(o, plan, ev)
    PROVE  /\ job' \in Jobs /\ job'.pc = "write" /\ job'.o = o
           /\ job'.plan = plan /\ job'.ev = ev /\ job'.now = job.now
BY DEF Carry, Jobs

(* The rows that the steps make of a row r. *)
ClosedOf(r, res, n) == [r EXCEPT !.st = "CLOSED", !.res = res, !.closed = n]
FilledOf(r, n) == [r EXCEPT !.st = "FILLED", !.filled = n]
StopMoved(r) == [r EXCEPT !.atEntry = TRUE]
Flagged(r) == [r EXCEPT !.flag = TRUE]
Placed(d, k, n) == [NoRow EXCEPT !.st = "OPEN", !.dir = d, !.kind = k, !.made = n]

LEMMA ClosedRow ==
    ASSUME NEW r \in Row, NEW res \in Results, NEW n \in Times
    PROVE  LET q == ClosedOf(r, res, n) IN
           /\ q \in Row
           /\ q.st = "CLOSED" /\ q.res = res /\ q.closed = n
           /\ q.dir = r.dir /\ q.kind = r.kind /\ q.made = r.made
           /\ q.filled = r.filled /\ q.atEntry = r.atEntry /\ q.flag = r.flag
BY DEF Row, ClosedOf

LEMMA FilledRow ==
    ASSUME NEW r \in Row, NEW n \in Times
    PROVE  LET q == FilledOf(r, n) IN
           /\ q \in Row
           /\ q.st = "FILLED" /\ q.filled = n
           /\ q.dir = r.dir /\ q.kind = r.kind /\ q.made = r.made /\ q.res = r.res
           /\ q.closed = r.closed /\ q.atEntry = r.atEntry /\ q.flag = r.flag
BY DEF Row, FilledOf

LEMMA MovedRow ==
    ASSUME NEW r \in Row
    PROVE  LET q == StopMoved(r) IN
           /\ q \in Row
           /\ q.st = r.st /\ q.dir = r.dir /\ q.kind = r.kind /\ q.made = r.made
           /\ q.res = r.res /\ q.filled = r.filled /\ q.closed = r.closed
           /\ q.atEntry /\ q.flag = r.flag
BY DEF Row, StopMoved

LEMMA FlaggedRow ==
    ASSUME NEW r \in Row
    PROVE  LET q == Flagged(r) IN
           /\ q \in Row
           /\ q.st = r.st /\ q.dir = r.dir /\ q.kind = r.kind /\ q.made = r.made
           /\ q.res = r.res /\ q.filled = r.filled /\ q.closed = r.closed
           /\ q.atEntry = r.atEntry /\ q.flag
BY DEF Row, Flagged

LEMMA PlacedRow ==
    ASSUME NEW d \in Directions, NEW k \in AllKinds, NEW n \in Times
    PROVE  LET q == Placed(d, k, n) IN
           /\ q \in Row /\ q.st = "OPEN" /\ q.res = "NONE" /\ q.filled = 0
           /\ q.closed = 0 /\ q.flag = FALSE
BY Small DEF Row, NoRow, Placed

(* Levels and ticks depend on the direction of a row and on its stop only,  *)
(* and are ticks of the tape.                                              *)
LEMMA SameLevels ==
    ASSUME NEW r, NEW q, q.dir = r.dir
    PROVE  /\ EntryTicks(q) = EntryTicks(r) /\ TargetTicks(q) = TargetTicks(r)
           /\ q.atEntry = r.atEntry => StopTicks(q) = StopTicks(r)
BY DEF EntryTicks, TargetTicks, StopTicks, Against, Towards, Entry, Target, Stop

LEMMA TicksOfTape ==
    ASSUME NEW r
    PROVE  /\ EntryTicks(r) \subseteq 1..Now /\ TargetTicks(r) \subseteq 1..Now
           /\ StopTicks(r) \subseteq 1..Now
BY DEF EntryTicks, TargetTicks, StopTicks, Against, Towards

LEMMA CandlesFinite ==
    ASSUME TypeOK, NEW S \in SUBSET Candles
    PROVE  /\ Now \in Nat /\ Now \div Width \in Nat
           /\ S \in SUBSET Nat /\ S \in SUBSET Int /\ IsFiniteSet(S)
<1>1. Now \in Nat
    BY DEF TypeOK, Now
<1>2. Now \div Width \in Nat
    BY <1>1, Divided
<1>3. Candles \subseteq 0..(Now \div Width - 1)
    BY DEF Candles
<1>4. IsFiniteSet(0..(Now \div Width - 1))
    BY <1>2, FS_Interval
<1>5. Candles \subseteq Nat /\ S \in SUBSET Nat /\ S \in SUBSET Int
    BY <1>2, <1>3
<1>6. S \in SUBSET (0..(Now \div Width - 1))
    BY <1>3, Zenon
<1>7. IsFiniteSet(S)
    BY <1>4, <1>6, FS_Subset, Zenon
<1> QED BY <1>1, <1>2, <1>5, <1>7

Hits(r, ticks) == Touching(After(Candles, r.filled), ticks)

(* The first candle that touched a level of a filled order, once a candle   *)
(* has closed after its fill: it opened after the fill, and no tick that    *)
(* the pass saw and that touched a level is in an earlier candle.           *)
LEMMA FirstHit ==
    ASSUME TypeOK, Clock, job.pc = "pass",
           NEW r \in Row, RealFill(r), r.filled # 0,
           job.now >= r.filled + Width,
           NEW q \in Row, q.closed = job.now, q.filled = r.filled,
           NEW ticks \in SUBSET (1..Now), Hits(r, ticks) # {}
    PROVE  LET c == Min(Hits(r, ticks)) IN
           /\ c \in Nat /\ Ticks(c) \cap ticks # {}
           /\ \A t \in Ticks(c) : t \in Nat \ {0} /\ t > r.filled
           /\ \A t \in Shown(q, ticks) : CandleOf(t) >= c
           /\ \A t, u \in Nat \ {0} : CandleOf(t) >= c /\ u \in Ticks(c) /\ t < u
                                       => t \in Ticks(c)
<1> DEFINE hit == Hits(r, ticks)
           c == Min(hit)
           N == Now \div Width
           cs == After(Candles, r.filled)
<1>1. Now \in Nat /\ N \in Nat /\ Width \in Nat \ {0} /\ Limit \in Nat \ {0} /\ MaxLag \in Nat
    BY CandlesFinite, SettlementConstants
<1>2. job.now \in Nat /\ job.now <= Now /\ Now <= job.now + MaxLag
    BY Small DEF TypeOK, Jobs, Clock
<1>3. PICK F \in Nat \ {0} : r.filled = F * Width
  <2>1. PICK d \in 0..N : r.filled = (d + 1) * Width
      BY DEF RealFill
  <2> QED BY <1>1, <2>1
<1>4. r.filled \in Nat /\ r.filled \div Width = F
  <2>1. r.filled \in Nat
      BY <1>1, <1>3
  <2>2. F <= r.filled \div Width
      BY <1>3, <2>1, Divided
  <2>3. (F + 1) * Width > r.filled
      BY <1>1, <1>3
  <2>4. F + 1 \in Nat /\ (F + 1) * Width \in Nat
      BY <1>1
  <2>5. ~ (F + 1 <= r.filled \div Width)
      BY <2>1, <2>3, <2>4, Divided
  <2>6. r.filled \div Width \in Nat
      BY <2>1, Divided
  <2> QED BY <2>1, <2>2, <2>5, <2>6
<1>5. F + 1 <= N
  <2>1. (F + 1) * Width = r.filled + Width
      BY <1>1, <1>3
  <2>2. (F + 1) * Width <= Now
      BY <1>1, <1>2, <1>4, <2>1
  <2> QED BY <1>1, <2>2, Divided
<1>6. hit \subseteq cs /\ cs \subseteq Candles
    BY DEF Hits, Touching, After
<1>7. N - 1 \in Candles /\ (N - 1) * Width >= F * Width
  <2>1. PICK d \in Candles : TRUE
      BY <1>6
  <2>2. d \in 0..(N - 1) /\ d >= N - (Limit - 1)
      BY DEF Candles
  <2>3. N - 1 \in 0..(N - 1) /\ N - 1 >= N - (Limit - 1)
      BY <1>1, <2>2
  <2> QED BY <1>1, <1>5, <2>3, Scaled DEF Candles
<1>8. cs = {d \in Candles : d * Width >= F * Width}
    BY <1>4, <1>7 DEF After
<1>9. \A d \in Nat : d * Width >= F * Width <=> d >= F
  <2> SUFFICES ASSUME NEW d \in Nat PROVE d * Width >= F * Width <=> d >= F
      OBVIOUS
  <2>1. d >= F => d * Width >= F * Width
      BY <1>1, Scaled
  <2>2. d < F => (d + 1) * Width <= F * Width
      BY <1>1, Scaled
  <2>3. (d + 1) * Width = d * Width + Width /\ d * Width \in Nat /\ F * Width \in Nat
      BY <1>1
  <2> QED BY <1>1, <2>1, <2>2, <2>3
<1>10. c \in hit /\ \A d \in hit : c <= d
    BY <1>6, CandlesFinite, MinExists
<1>11. c \in Nat /\ c >= F /\ c \in 0..(N - 1)
  <2>1. c \in Candles /\ c * Width >= F * Width
      BY <1>6, <1>8, <1>10
  <2>2. c \in 0..(N - 1) /\ c \in Nat
      BY <1>1, <2>1 DEF Candles
  <2> HIDE DEF c
  <2> QED BY <1>9, <2>1, <2>2
<1>12. Ticks(c) \cap ticks # {}
    BY <1>10 DEF Hits, Touching
<1>13. \A t \in Ticks(c) : t \in Nat \ {0} /\ t > r.filled
  <2>1. c * Width >= F * Width /\ c * Width \in Nat /\ (c + 1) * Width \in Nat
      BY <1>1, <1>9, <1>11
  <2> QED BY <1>3, <1>4, <2>1 DEF Ticks
<1>14. \A t \in Shown(q, ticks) : CandleOf(t) >= c
  <2> SUFFICES ASSUME NEW t \in Shown(q, ticks) PROVE CandleOf(t) >= c
      OBVIOUS
  <2> DEFINE d == CandleOf(t)
             L == (job.now + MaxLag) \div Width
  <2>1. t \in ticks /\ t \in 1..Now /\ t > r.filled /\ t > (L - (Limit - 1)) * Width
      BY DEF Shown, Since
  <2>2. t \in Nat \ {0} /\ t - 1 \in Nat /\ d \in Nat /\ t \in Ticks(d)
      BY <1>1, <2>1, CandleOfTick, Divided DEF CandleOf
  <2>3. F <= d
      BY <1>1, <1>3, <2>1, <2>2, Divided DEF CandleOf
  <2>4. L \in Nat /\ N <= L
    <3>1. N * Width <= Now
        BY <1>1, Divided
    <3>2. N * Width <= job.now + MaxLag /\ job.now + MaxLag \in Nat
        BY <1>1, <1>2, <3>1
    <3> QED BY <1>1, <3>2, Divided
  <2>5. L - (Limit - 1) <= d
    <3>1. CASE L - (Limit - 1) <= 0
        BY <1>1, <2>2, <2>4, <3>1
    <3>2. CASE L - (Limit - 1) > 0
      <4>1. L - (Limit - 1) \in Nat
          BY <1>1, <2>4, <3>2
      <4>2. (L - (Limit - 1)) * Width \in Nat
          BY <1>1, <4>1
      <4>3. (L - (Limit - 1)) * Width <= t - 1
          BY <2>1, <2>2, <4>2
      <4> QED BY <2>2, <4>1, <4>3, Divided DEF CandleOf
    <3> QED BY <1>1, <2>4, <3>1, <3>2
  <2>6. CASE d < c
    <3>1. d \in Candles
        BY <1>1, <1>11, <2>2, <2>4, <2>5, <2>6 DEF Candles
    <3>2. d \in cs
        BY <1>8, <1>9, <2>2, <2>3, <3>1
    <3>3. d \in hit
        BY <2>1, <2>2, <3>2 DEF Hits, Touching
    <3> QED BY <1>10, <1>11, <2>2, <2>6, <3>3
  <2> QED BY <1>11, <2>2, <2>6
<1>15. ASSUME NEW t \in Nat \ {0}, NEW u \in Nat \ {0},
              CandleOf(t) >= c, u \in Ticks(c), t < u
       PROVE  t \in Ticks(c)
  <2>1. c * Width <= t - 1
    <3>1. c <= (t - 1) \div Width /\ t - 1 \in Nat
        BY <1>15 DEF CandleOf
    <3> QED BY <1>11, <3>1, Divided
  <2>2. c * Width \in Nat /\ (c + 1) * Width \in Nat
      BY <1>1, <1>11
  <2> QED BY <1>15, <2>1, <2>2 DEF Ticks
<1> QED BY <1>11, <1>12, <1>13, <1>14, <1>15

(* The verdict of a pass on a filled order is the level that came first in  *)
(* what the pass saw: by candle for a stop, by bar for a target.            *)
LEMMA VerdictSound ==
    ASSUME TypeOK, Clock, job.pc = "pass",
           NEW r \in Row, RealFill(r), r.filled # 0,
           NEW v \in Verdicts(r, After(Candles, r.filled)), v # "none",
           NEW q \in Row, q.res = v, q.closed = job.now, q.filled = r.filled,
           q.dir = r.dir, q.atEntry = r.atEntry
    PROVE  v \in {"TP1", "SL"} /\ TargetFirst(q) /\ StopFirst(q)
<1> DEFINE tp == TargetTicks(r)
           sl == StopTicks(r)
           hit == Hits(r, tp \cup sl)
           c == Min(hit)
           clear == (Ticks(c) \cap (tp \cup sl)) \ (tp \cap sl)
<1>1. TargetTicks(q) = tp /\ StopTicks(q) = sl /\ tp \cup sl \subseteq 1..Now
      /\ tp \subseteq 1..Now /\ sl \subseteq 1..Now
    BY SameLevels, TicksOfTape
<1>2. hit # {}
    BY DEF Verdicts, Hits
<1>3. /\ v \in {"TP1", "SL"}
      /\ v = "TP1" => \/ Ticks(c) \cap sl = {}
                      \/ clear # {} /\ Min(clear) \in tp
      /\ v = "SL" => Ticks(c) \cap sl # {}
    BY <1>2 DEF Verdicts, SameCandle, Hits
<1> SUFFICES ASSUME job.now >= r.filled + Width
             PROVE  TargetFirst(q) /\ StopFirst(q)
    BY <1>3 DEF TargetFirst, StopFirst, Settled
<1>4. /\ c \in Nat /\ Ticks(c) \cap (tp \cup sl) # {}
      /\ \A t \in Ticks(c) : t \in Nat \ {0} /\ t > r.filled
      /\ \A t \in Shown(q, tp \cup sl) : CandleOf(t) >= c
      /\ \A t, u \in Nat \ {0} : CandleOf(t) >= c /\ u \in Ticks(c) /\ t < u
                                  => t \in Ticks(c)
  <2> HIDE DEF tp, sl
  <2> QED BY <1>1, <1>2, FirstHit
<1>5. \A t \in Shown(q, tp) \cup Shown(q, sl) :
          t \in Nat \ {0} /\ t \in tp \cup sl /\ CandleOf(t) >= c
  <2> HIDE DEF tp, sl, c
  <2> QED BY <1>1, <1>4 DEF Shown, Since
<1>6. TargetFirst(q)
  <2> HIDE DEF tp, sl, hit, c
  <2> SUFFICES ASSUME v = "TP1"
               PROVE  \E t \in Since(q, tp) : \A s \in Shown(q, sl) : s < t => s \in tp
      BY <1>1 DEF TargetFirst, Settled
  <2>1. CASE Ticks(c) \cap sl = {}
    <3>1. PICK t \in Ticks(c) : t \in tp
        BY <1>4, <2>1
    <3>2. \A s \in Shown(q, sl) : s \in sl /\ (s < t => s \in Ticks(c))
        BY <1>4, <1>5, <3>1 DEF Shown, Since
    <3>3. t \in Since(q, tp)
        BY <1>4, <3>1 DEF Since
    <3> QED BY <2>1, <3>2, <3>3
  <2>2. CASE clear # {} /\ Min(clear) \in tp
    <3> DEFINE t == Min(clear)
    <3>1. IsFiniteSet(clear) /\ clear \in SUBSET Int
      <4>1. clear \subseteq 1..Now
          BY <1>1
      <4>2. Now \in Nat
          BY DEF TypeOK, Now
      <4>3. IsFiniteSet(1..Now)
          BY <4>2, FS_Interval
      <4> HIDE DEF clear
      <4>4. IsFiniteSet(clear)
          BY <4>1, <4>3, FS_Subset, Zenon
      <4> QED BY <4>1, <4>2, <4>4
    <3>2. t \in clear /\ \A s \in clear : t <= s
      <4> HIDE DEF clear
      <4> QED BY <2>2, <3>1, MinExists
    <3>3. t \in Ticks(c) /\ t \in Since(q, tp)
        BY <1>4, <2>2, <3>2 DEF Since
    <3>4. ASSUME NEW s \in Shown(q, sl), s < t PROVE s \in tp
      <4>1. s \in sl /\ s \in Ticks(c)
          BY <1>4, <1>5, <3>3, <3>4 DEF Shown, Since
      <4>2. CASE s \notin tp
        <5>1. s \in clear
            BY <4>1, <4>2
        <5>2. t <= s /\ t \in Int /\ s \in Int
            BY <3>1, <3>2, <5>1
        <5> QED BY <3>4, <5>2
      <4> QED BY <4>2
    <3> QED BY <3>3, <3>4
  <2> QED BY <1>3, <2>1, <2>2
<1>7. StopFirst(q)
  <2> HIDE DEF tp, sl, hit, c
  <2> SUFFICES ASSUME v = "SL"
               PROVE  \E s \in Since(q, sl) : \A t \in Shown(q, tp) : CandleOf(t) >= CandleOf(s)
      BY <1>1 DEF StopFirst, Settled
  <2>1. PICK s \in Ticks(c) : s \in sl
      BY <1>3
  <2>2. s \in Since(q, sl) /\ CandleOf(s) = c
      BY <1>4, <2>1, CandleOfTick DEF Since
  <2> QED BY <1>5, <2>2
<1> QED BY <1>6, <1>7

-----------------------------------------------------------------------------
(* What does not change with the tape, and what a tick keeps. *)
LEMMA SoundKept ==
    ASSUME tape' = tape
    PROVE  \A r : Sound(r)' <=> Sound(r)
BY DEF Sound, RealFill, TargetFirst, StopFirst, Since, Shown, EntryTicks, TargetTicks,
       StopTicks, Against, Towards, Now

LEMMA TickGrows ==
    ASSUME TypeOK, Tick
    PROVE  /\ Now \in Nat /\ Now' = Now + 1 /\ Now' <= MaxTicks /\ tape' \in Seq(Bars)
           /\ \A t \in 1..Now : tape'[t] = tape[t]
<1>1. PICK b \in Bars : tape' = Append(tape, b)
    BY DEF Tick
<1> QED BY <1>1, SettlementConstants DEF TypeOK, Tick, Now

LEMMA TicksGrow ==
    ASSUME TypeOK, Tick, NEW r
    PROVE  /\ EntryTicks(r)' \cap (1..Now) = EntryTicks(r)
           /\ TargetTicks(r)' \cap (1..Now) = TargetTicks(r)
           /\ StopTicks(r)' \cap (1..Now) = StopTicks(r)
           /\ EntryTicks(r)' \cup TargetTicks(r)' \cup StopTicks(r)' \subseteq 1..(Now + 1)
BY TickGrows DEF EntryTicks, TargetTicks, StopTicks, Against, Towards

LEMMA TickKeeps ==
    ASSUME TypeOK, Tick, NEW r \in Row, Sound(r)
    PROVE  Sound(r)'
<1>1. Now \in Nat /\ Now' = Now + 1
    BY TickGrows
<1>2. RealFill(r)'
  <2> SUFFICES ASSUME r.filled # 0 PROVE RealFill(r)'
      BY DEF RealFill
  <2>1. PICK c \in 0..(Now \div Width) :
            /\ r.filled = (c + 1) * Width /\ c * Width >= r.made
            /\ Ticks(c) \cap EntryTicks(r) # {}
      BY DEF Sound, RealFill
  <2>2. c \in 0..(Now' \div Width)
    <3>1. c \in Nat /\ c * Width <= Now
        BY <1>1, <2>1, Divided
    <3>2. c * Width <= Now' /\ Now' \in Nat
        BY <1>1, <3>1, SettlementConstants
    <3>3. c <= Now' \div Width /\ Now' \div Width \in Nat
        BY <3>1, <3>2, Divided
    <3> QED BY <3>1, <3>3
  <2>3. Ticks(c) \cap EntryTicks(r)' # {}
      BY <2>1, TicksGrow
  <2> QED BY <2>1, <2>2, <2>3 DEF RealFill
<1>3. \A t \in Shown(r, StopTicks(r))' : t \in Shown(r, StopTicks(r)) \/ t = Now + 1
    BY <1>1, TicksGrow DEF Shown, Since
<1>4. \A t \in Shown(r, TargetTicks(r))' : t \in Shown(r, TargetTicks(r)) \/ t = Now + 1
    BY <1>1, TicksGrow DEF Shown, Since
<1>5. TargetTicks(r) \subseteq TargetTicks(r)' /\ StopTicks(r) \subseteq StopTicks(r)'
    BY TicksGrow
<1>6. TargetFirst(r)'
  <2> SUFFICES ASSUME Settled(r, "TP1")
               PROVE  \E t \in Since(r, TargetTicks(r)') :
                         \A s \in Shown(r, StopTicks(r))' : s < t => s \in TargetTicks(r)'
      BY DEF TargetFirst, Settled, Since
  <2>1. PICK t \in Since(r, TargetTicks(r)) :
            \A s \in Shown(r, StopTicks(r)) : s < t => s \in TargetTicks(r)
      BY DEF Sound, TargetFirst
  <2>2. t \in 1..Now /\ t \in Since(r, TargetTicks(r)')
      BY <1>5, <2>1, TicksOfTape DEF Since
  <2>3. ~ (Now + 1 < t)
      BY <1>1, <2>2
  <2> QED BY <1>3, <1>5, <2>1, <2>2, <2>3
<1>7. StopFirst(r)'
  <2> SUFFICES ASSUME Settled(r, "SL")
               PROVE  \E s \in Since(r, StopTicks(r)') :
                         \A t \in Shown(r, TargetTicks(r))' : CandleOf(t) >= CandleOf(s)
      BY DEF StopFirst, Settled, Since
  <2>1. PICK s \in Since(r, StopTicks(r)) :
            \A t \in Shown(r, TargetTicks(r)) : CandleOf(t) >= CandleOf(s)
      BY DEF Sound, StopFirst
  <2>2. s \in 1..Now /\ s \in Since(r, StopTicks(r)')
      BY <1>5, <2>1, TicksOfTape DEF Since
  <2>3. CandleOf(Now + 1) >= CandleOf(s)
    <3>1. s - 1 \in Nat /\ Now \in Nat /\ s - 1 <= Now /\ (Now + 1) - 1 = Now
        BY <1>1, <2>2
    <3>2. CandleOf(s) \in Nat /\ CandleOf(s) * Width <= s - 1
        BY <3>1, Divided DEF CandleOf
    <3>3. CandleOf(s) * Width <= Now
        BY <3>1, <3>2, SettlementConstants
    <3>4. CandleOf(s) <= Now \div Width
        BY <3>1, <3>2, <3>3, Divided
    <3> QED BY <3>1, <3>2, <3>4 DEF CandleOf
  <2> QED BY <1>4, <2>1, <2>2, <2>3
<1> QED BY <1>2, <1>6, <1>7 DEF Sound

LEMMA Ranks ==
    /\ \A type : RankOf(type) \in 1..4
    /\ \A r : RowRank(r) \in 0..4
    /\ \A res \in Results : RankOf(res) = 4
    /\ \A type \in EventTypes : RankOf(type) = 3 => type = "BREAKEVEN_MOVED"
BY DEF RankOf, RowRank, Results, EventTypes

(* A task begins to write the rows of plan and the event ev of order o. *)
LEMMA BeginWrite ==
    ASSUME IInv, UNCHANGED <<tape, orders, events, faults>>,
           NEW o \in Orders, NEW plan \in Seq(Row), NEW ev \in EventTypes,
           job' \in Jobs, job'.pc = "write", job'.o = o, job'.plan = plan, job'.ev = ev,
           job'.now <= Now, Now <= job'.now + MaxLag,
           plan # <<>>, Len(plan) <= 2,
           \A k \in DOMAIN plan : Sound(plan[k]) /\ Succeeds(plan[k], orders[o]),
           Len(plan) = 2 => Succeeds(plan[2], plan[1]),
           Backs(plan[Len(plan)], ev),
           \A i \in DOMAIN events[o] : RankOf(events[o][i]) < RankOf(ev)
    PROVE  IInv'
<1>1. TypeOK'
    BY DEF IInv, TypeOK
<1>2. RowsSound' /\ PlanSound'
    BY SoundKept DEF IInv, RowsSound, PlanSound
<1>3. Trails'
    BY DEF IInv, Trails
<1>4. Clock'
    BY DEF Clock, Now
<1>5. Writing'
    BY DEF Writing, Succeeds, Backs, RowRank, RankOf
<1> QED BY <1>1, <1>2, <1>3, <1>4, <1>5 DEF IInv

(* A task ends or goes on with its other orders. *)
LEMMA GoesOn ==
    ASSUME IInv, UNCHANGED <<tape, orders, events>>, faults' \in 0..MaxFaults,
           job' \in Jobs, job'.plan = <<>>, job'.pc # "write",
           job'.pc # "idle" => job.pc # "idle" /\ job'.now = job.now
    PROVE  IInv'
<1>1. TypeOK'
    BY DEF IInv, TypeOK
<1>2. RowsSound' /\ PlanSound'
    BY SoundKept DEF IInv, RowsSound, PlanSound
<1>3. Trails'
    BY DEF IInv, Trails
<1>4. Clock'
    BY DEF IInv, Clock, Now
<1>5. Writing'
    BY DEF Writing
<1> QED BY <1>1, <1>2, <1>3, <1>4, <1>5 DEF IInv

LEMMA Faulted ==
    ASSUME TypeOK, Fault
    PROVE  faults' \in 0..MaxFaults
BY SettlementConstants DEF TypeOK, Fault

LEMMA Skipped ==
    ASSUME IInv, UNCHANGED <<tape, orders, events>>, faults' \in 0..MaxFaults,
           job.pc = "pass", NEW o \in Orders, Skip(o)
    PROVE  IInv'
<1>1. job.todo \ {o} \in SUBSET Orders /\ job \in Jobs
    BY DEF IInv, TypeOK, Jobs
<1>2. /\ job' \in Jobs /\ job'.plan = <<>>
      /\ job'.pc # "idle" => job'.pc = "pass" /\ job'.now = job.now
    BY <1>1, GoOnJob DEF Skip
<1>3. job'.pc # "write" /\ (job'.pc # "idle" => job.pc # "idle" /\ job'.now = job.now)
    BY <1>2
<1> QED BY <1>2, <1>3, GoesOn

(* An order at work that is settled: the row closes, and no event is later *)
(* than the result's.                                                      *)
LEMMA SettleStep ==
    ASSUME IInv, UNCHANGED <<tape, orders, events, faults>>, job.pc = "pass",
           NEW o \in Orders, orders[o].st \in {"OPEN", "FILLED"}, NEW res \in Results,
           \A q \in Row : /\ q.res = res /\ q.closed = job.now /\ q.st = "CLOSED"
                          /\ q.filled = orders[o].filled /\ q.made = orders[o].made
                          /\ q.dir = orders[o].dir /\ q.atEntry = orders[o].atEntry
                          => TargetFirst(q) /\ StopFirst(q),
           Settle(o, res)
    PROVE  IInv'
<1> DEFINE r == orders[o]
           q == ClosedOf(r, res, job.now)
           plan == <<q>>
<1>1. r \in Row /\ job \in Jobs /\ job.now \in Times /\ Sound(r)
    BY DEF IInv, TypeOK, Jobs, RowsSound
<1>2. /\ q \in Row
      /\ q.st = "CLOSED" /\ q.res = res /\ q.closed = job.now
      /\ q.dir = r.dir /\ q.made = r.made
      /\ q.filled = r.filled /\ q.atEntry = r.atEntry /\ q.flag = r.flag
  <2> HIDE DEF r
  <2> QED BY <1>1, ClosedRow
<1>3. Carry(o, plan, res)
    BY Zenon DEF Settle, ClosedOf
<1> HIDE DEF q
<1>4. RealFill(q)
    BY <1>1, <1>2, SameLevels DEF Sound, RealFill
<1>5. Sound(q)
    BY <1>2, <1>4 DEF Sound
<1>6. Succeeds(q, r) /\ Backs(q, res)
    BY <1>2, Ranks DEF Succeeds, Backs, RowRank, Results
<1>7. plan \in Seq(Row) /\ Len(plan) = 1 /\ DOMAIN plan = {1} /\ plan[1] = q
      /\ res \in EventTypes
    BY <1>2 DEF EventTypes
<1>8. /\ job' \in Jobs /\ job'.pc = "write" /\ job'.o = o
      /\ job'.plan = plan /\ job'.ev = res /\ job'.now = job.now
  <2> HIDE DEF plan
  <2> QED BY <1>1, <1>3, <1>7, CarryJob
<1>9. job'.now <= Now /\ Now <= job'.now + MaxLag
    BY <1>8 DEF IInv, Clock
<1>10. \A i \in DOMAIN events[o] : RankOf(events[o][i]) < RankOf(res)
  <2> SUFFICES ASSUME NEW i \in DOMAIN events[o] PROVE RankOf(events[o][i]) < RankOf(res)
      OBVIOUS
  <2>1. RankOf(events[o][i]) <= RowRank(r)
      BY DEF IInv, Trails, Backs
  <2>2. RowRank(r) \in 1..3 /\ RankOf(res) = 4 /\ RankOf(events[o][i]) \in 1..4
      BY Ranks DEF RowRank
  <2> QED BY <2>1, <2>2
<1> HIDE DEF plan, r
<1>11. /\ plan # <<>> /\ Len(plan) <= 2 /\ (Len(plan) = 2 => Succeeds(plan[2], plan[1]))
       /\ \A k \in DOMAIN plan : Sound(plan[k]) /\ Succeeds(plan[k], orders[o])
       /\ Backs(plan[Len(plan)], res)
    BY <1>5, <1>6, <1>7 DEF r
<1> QED BY <1>7, <1>8, <1>9, <1>10, <1>11, BeginWrite

(* An order that fills: at the end of a candle that opened after the order  *)
(* was made and touched its entry.                                         *)
LEMMA FillStep ==
    ASSUME IInv, UNCHANGED <<tape, orders, events, faults>>, job.pc = "pass",
           NEW o \in Orders, orders[o].st = "OPEN", Fills(orders[o]) # {},
           Carry(o, <<FilledOf(orders[o], FilledAt(Min(Fills(orders[o]))))>>, "FILLED")
    PROVE  IInv'
<1> DEFINE r == orders[o]
           c == Min(Fills(r))
           n == FilledAt(c)
           q == FilledOf(r, n)
           plan == <<q>>
<1>1. r \in Row /\ job \in Jobs /\ job.now \in Times /\ Sound(r)
    BY DEF IInv, TypeOK, Jobs, RowsSound
<1>2. c \in Fills(r)
  <2>1. Fills(r) \in SUBSET Candles
      BY DEF Fills, Touching
  <2>2. IsFiniteSet(Fills(r)) /\ Fills(r) \in SUBSET Int
      BY <2>1, CandlesFinite DEF IInv
  <2> QED BY <2>2, MinExists
<1>3. /\ c \in 0..(Now \div Width - 1) /\ c * Width >= r.made
      /\ Ticks(c) \cap EntryTicks(r) # {}
    BY <1>2 DEF Fills, Touching, Candles
<1>4. /\ Now \in Nat /\ Now <= MaxTicks /\ Now \div Width \in Nat
      /\ Width \in Nat \ {0} /\ c \in Nat
    BY <1>3, CandlesFinite, SettlementConstants DEF IInv, TypeOK, Now
<1>5. n = (c + 1) * Width /\ n \in Times /\ n # 0
  <2>1. c + 1 \in Nat /\ c + 1 <= Now \div Width
      BY <1>3, <1>4
  <2>2. (c + 1) * Width <= Now
      BY <1>4, <2>1, Divided
  <2>3. (c + 1) * Width \in Nat \ {0}
      BY <1>4
  <2> QED BY <1>4, <2>2, <2>3, Small DEF FilledAt
<1>6. /\ q \in Row
      /\ q.st = "FILLED" /\ q.filled = n
      /\ q.dir = r.dir /\ q.made = r.made /\ q.res = r.res
      /\ q.atEntry = r.atEntry /\ q.flag = r.flag
  <2> HIDE DEF r, n
  <2> QED BY <1>1, <1>5, FilledRow
<1> HIDE DEF q, n
<1>7. RealFill(q)
  <2>1. EntryTicks(q) = EntryTicks(r) /\ c \in 0..(Now \div Width)
      BY <1>3, <1>4, <1>6, SameLevels
  <2> QED BY <1>3, <1>5, <1>6, <2>1 DEF RealFill
<1>8. r.res = "NONE"
    BY <1>1 DEF Sound
<1>9. Sound(q)
    BY <1>5, <1>6, <1>7, <1>8 DEF Sound, TargetFirst, StopFirst, Settled
<1>10. Succeeds(q, r) /\ Backs(q, "FILLED")
    BY <1>6 DEF Succeeds, Backs, RowRank, RankOf, Results
<1>11. plan \in Seq(Row) /\ Len(plan) = 1 /\ DOMAIN plan = {1} /\ plan[1] = q
       /\ plan # <<>> /\ "FILLED" \in EventTypes
    BY <1>6 DEF EventTypes
<1>12. /\ job' \in Jobs /\ job'.pc = "write" /\ job'.o = o
       /\ job'.plan = plan /\ job'.ev = "FILLED" /\ job'.now = job.now
  <2>1. Carry(o, plan, "FILLED")
      BY DEF q, n
  <2> HIDE DEF plan
  <2> QED BY <1>1, <1>11, <2>1, CarryJob
<1>13. job'.now <= Now /\ Now <= job'.now + MaxLag
    BY <1>12 DEF IInv, Clock
<1>14. \A i \in DOMAIN events[o] : RankOf(events[o][i]) < RankOf("FILLED")
  <2> SUFFICES ASSUME NEW i \in DOMAIN events[o] PROVE RankOf(events[o][i]) < RankOf("FILLED")
      OBVIOUS
  <2>1. RankOf(events[o][i]) <= RowRank(r)
      BY DEF IInv, Trails, Backs
  <2>2. RowRank(r) = 1 /\ RankOf("FILLED") = 2 /\ RankOf(events[o][i]) \in 1..4
      BY Ranks DEF RowRank, RankOf
  <2> QED BY <2>1, <2>2
<1> HIDE DEF plan, r
<1>15. /\ plan # <<>> /\ Len(plan) <= 2 /\ (Len(plan) = 2 => Succeeds(plan[2], plan[1]))
       /\ \A k \in DOMAIN plan : Sound(plan[k]) /\ Succeeds(plan[k], orders[o])
       /\ Backs(plan[Len(plan)], "FILLED")
    BY <1>9, <1>10, <1>11 DEF r
<1> QED BY <1>11, <1>12, <1>13, <1>14, <1>15, BeginWrite

(* A stop that moves to the entry, and then the flag.  The trail may stand  *)
(* behind a stop that has been moved before without its flag.              *)
LEMMA MoveStep ==
    ASSUME IInv, UNCHANGED <<tape, orders, events, faults>>, job.pc = "pass",
           NEW o \in Orders, orders[o].st = "FILLED", MoveStop(orders[o]),
           Carry(o, <<StopMoved(orders[o]), Flagged(StopMoved(orders[o]))>>, "BREAKEVEN_MOVED")
    PROVE  IInv'
<1> DEFINE r == orders[o]
           q == StopMoved(r)
           p == Flagged(q)
           plan == <<q, p>>
           ev == "BREAKEVEN_MOVED"
<1>1. r \in Row /\ job \in Jobs /\ Sound(r) /\ ~ r.flag /\ r.res = "NONE"
    BY DEF IInv, TypeOK, RowsSound, MoveStop, Sound
<1>2. /\ q \in Row /\ q.st = "FILLED" /\ q.dir = r.dir /\ q.made = r.made /\ q.res = "NONE"
      /\ q.filled = r.filled /\ q.atEntry
  <2> HIDE DEF r
  <2> QED BY <1>1, MovedRow DEF r
<1> HIDE DEF q
<1>3. /\ p \in Row /\ p.st = "FILLED" /\ p.dir = r.dir /\ p.made = r.made /\ p.res = "NONE"
      /\ p.filled = r.filled /\ p.atEntry /\ p.flag
    BY <1>2, FlaggedRow
<1> HIDE DEF p
<1>4. RealFill(q) /\ RealFill(p)
  <2>1. EntryTicks(q) = EntryTicks(r) /\ EntryTicks(p) = EntryTicks(r)
      BY <1>2, <1>3, SameLevels
  <2> QED BY <1>1, <1>2, <1>3, <2>1 DEF Sound, RealFill
<1>5. r.filled # 0
    BY <1>1 DEF Sound
<1>6. Sound(q) /\ Sound(p)
    BY <1>2, <1>3, <1>4, <1>5 DEF Sound, TargetFirst, StopFirst, Settled
<1>7. Succeeds(q, r) /\ Succeeds(p, r) /\ Succeeds(p, q) /\ Backs(p, ev)
    BY <1>1, <1>2, <1>3 DEF Succeeds, Backs, RowRank, RankOf, Results
<1>8. plan \in Seq(Row) /\ Len(plan) = 2 /\ DOMAIN plan = {1, 2} /\ plan[1] = q
      /\ plan[2] = p /\ plan # <<>> /\ ev \in EventTypes
    BY <1>2, <1>3 DEF EventTypes
<1>9. /\ job' \in Jobs /\ job'.pc = "write" /\ job'.o = o
      /\ job'.plan = plan /\ job'.ev = ev /\ job'.now = job.now
  <2>1. Carry(o, plan, ev)
      BY DEF q, p
  <2> HIDE DEF plan, ev
  <2> QED BY <1>1, <1>8, <2>1, CarryJob
<1>10. job'.now <= Now /\ Now <= job'.now + MaxLag
    BY <1>9 DEF IInv, Clock
<1>11. \A i \in DOMAIN events[o] : RankOf(events[o][i]) < RankOf(ev)
  <2> SUFFICES ASSUME NEW i \in DOMAIN events[o] PROVE RankOf(events[o][i]) < RankOf(ev)
      OBVIOUS
  <2>1. Backs(r, events[o][i]) /\ events[o][i] \in EventTypes
      BY DEF IInv, Trails, TypeOK
  <2>2. RankOf(events[o][i]) # 3
      BY <1>1, <2>1, Ranks DEF Backs
  <2>3. RankOf(events[o][i]) <= RowRank(r) /\ RowRank(r) \in 2..3 /\ RankOf(ev) = 3
        /\ RankOf(events[o][i]) \in 1..4
      BY <2>1, Ranks DEF Backs, RowRank, RankOf
  <2> QED BY <2>2, <2>3
<1> HIDE DEF plan, r
<1>12. Len(plan) <= 2 /\ Succeeds(plan[2], plan[1]) /\ Backs(plan[Len(plan)], ev)
    BY <1>7, <1>8
<1>13. \A k \in DOMAIN plan : Sound(plan[k]) /\ Succeeds(plan[k], orders[o])
  <2>1. \A k \in DOMAIN plan : plan[k] = q \/ plan[k] = p
      BY <1>8
  <2> QED BY <1>6, <1>7, <2>1 DEF r
<1> QED BY <1>8, <1>9, <1>10, <1>11, <1>12, <1>13, BeginWrite

(* No order, and one that is not at work, has a result to be judged. *)
LEMMA SettleUnfilled ==
    ASSUME IInv, UNCHANGED <<tape, orders, events, faults>>, job.pc = "pass",
           NEW o \in Orders, orders[o].st \in {"OPEN", "FILLED"},
           NEW res \in Results \ {"TP1", "SL"}, Settle(o, res)
    PROVE  IInv'
<1>1. \A q \in Row : q.res = res => TargetFirst(q) /\ StopFirst(q)
    BY DEF TargetFirst, StopFirst, Settled
<1> QED BY <1>1, SettleStep

LEMMA SettleVerdict ==
    ASSUME IInv, UNCHANGED <<tape, orders, events, faults>>, job.pc = "pass",
           NEW o \in Orders, orders[o].st = "FILLED",
           NEW v \in Verdicts(orders[o], After(Candles, orders[o].filled)),
           v # "none", Settle(o, v)
    PROVE  IInv'
<1> DEFINE r == orders[o]
<1>1. r \in Row /\ RealFill(r) /\ r.filled # 0 /\ TypeOK /\ Clock
    BY DEF IInv, TypeOK, RowsSound, Sound
<1>2. \A q \in Row : /\ q.res = v /\ q.closed = job.now /\ q.filled = r.filled
                     /\ q.dir = r.dir /\ q.atEntry = r.atEntry
                     => v \in {"TP1", "SL"} /\ TargetFirst(q) /\ StopFirst(q)
  <2> HIDE DEF r
  <2> QED BY <1>1, VerdictSound DEF r
<1>3. v \in Results
    BY DEF Verdicts, SameCandle, Results
<1> QED BY <1>2, <1>3, SettleStep

LEMMA SettleOpenStep == IInv /\ (\E o \in Orders : SettleOpen(o)) => IInv'
<1> SUFFICES ASSUME IInv, NEW o \in Orders, SettleOpen(o) PROVE IInv'
    OBVIOUS
<1> DEFINE r == orders[o]
<1>1. /\ job.pc = "pass" /\ r.st = "OPEN" /\ UNCHANGED <<tape, orders, events, faults>>
      /\ faults' \in 0..MaxFaults
    BY DEF SettleOpen, IInv, TypeOK
<1>2. CASE job.now >= r.made + Hold
  <2>1. Settle(o, "EXPIRED_NOT_FILLED")
      BY <1>2 DEF SettleOpen
  <2> QED BY <1>1, <2>1, SettleUnfilled DEF Results
<1>3. CASE ~ (job.now >= r.made + Hold) /\ Fills(r) = {}
  <2>1. Skip(o)
      BY <1>3 DEF SettleOpen
  <2> QED BY <1>1, <2>1, Skipped
<1>4. CASE ~ (job.now >= r.made + Hold) /\ Fills(r) # {}
  <2>1. Carry(o, <<FilledOf(r, FilledAt(Min(Fills(r))))>>, "FILLED")
      BY <1>4, Zenon DEF SettleOpen, FilledOf
  <2> QED BY <1>1, <1>4, <2>1, FillStep
<1> QED BY <1>2, <1>3, <1>4

LEMMA SettleFilledStep == IInv /\ (\E o \in Orders : SettleFilled(o)) => IInv'
<1> SUFFICES ASSUME IInv, NEW o \in Orders, SettleFilled(o) PROVE IInv'
    OBVIOUS
<1> DEFINE r == orders[o]
<1>1. /\ job.pc = "pass" /\ r.st = "FILLED" /\ UNCHANGED <<tape, orders, events, faults>>
      /\ faults' \in 0..MaxFaults
    BY DEF SettleFilled, IInv, TypeOK
<1>2. PICK v \in Verdicts(r, After(Candles, r.filled)) :
          IF v # "none" THEN Settle(o, v)
          ELSE IF TimedOut(r) /\ Candles # {} THEN Settle(o, "TIMEOUT")
          ELSE Skip(o)
    BY DEF SettleFilled
<1>3. CASE v # "none"
    BY <1>1, <1>2, <1>3, SettleVerdict
<1>4. CASE v = "none" /\ TimedOut(r) /\ Candles # {}
  <2>1. Settle(o, "TIMEOUT")
      BY <1>2, <1>4
  <2> QED BY <1>1, <2>1, SettleUnfilled DEF Results
<1>5. CASE v = "none" /\ ~ (TimedOut(r) /\ Candles # {})
  <2>1. Skip(o)
      BY <1>2, <1>5
  <2> QED BY <1>1, <2>1, Skipped
<1> QED BY <1>3, <1>4, <1>5

LEMMA SettleReversalStep == IInv /\ (\E o \in Orders : SettleReversal(o)) => IInv'
<1> SUFFICES ASSUME IInv, NEW o \in Orders, SettleReversal(o) PROVE IInv'
    OBVIOUS
<1> DEFINE r == orders[o]
<1>1. /\ job.pc = "pass" /\ r.st = "FILLED" /\ UNCHANGED <<tape, orders, events, faults>>
      /\ faults' \in 0..MaxFaults
    BY DEF SettleReversal, IInv, TypeOK
<1>2. CASE Candles = {}
  <2>1. Skip(o)
      BY <1>2 DEF SettleReversal
  <2> QED BY <1>1, <2>1, Skipped
<1>3. CASE Candles # {} /\ job.now >= r.filled + Hold
  <2>1. Settle(o, "TIMEOUT_FORCED")
      BY <1>3 DEF SettleReversal
  <2> QED BY <1>1, <2>1, SettleUnfilled DEF Results
<1>4. CASE Candles # {} /\ ~ (job.now >= r.filled + Hold)
  <2>1. PICK v \in Verdicts(r, After(Candles, r.filled)) :
            IF v # "none" THEN Settle(o, v)
            ELSE IF MoveStop(r)
            THEN Carry(o, <<StopMoved(r), Flagged(StopMoved(r))>>, "BREAKEVEN_MOVED")
            ELSE Skip(o)
      BY <1>4, Zenon DEF SettleReversal, StopMoved, Flagged
  <2>2. CASE v # "none"
      BY <1>1, <2>1, <2>2, SettleVerdict
  <2>3. CASE v = "none" /\ MoveStop(r)
      BY <1>1, <2>1, <2>3, MoveStep
  <2>4. CASE v = "none" /\ ~ MoveStop(r)
    <3>1. Skip(o)
        BY <2>1, <2>4
    <3> QED BY <1>1, <3>1, Skipped
  <2> QED BY <2>2, <2>3, <2>4
<1> QED BY <1>2, <1>3, <1>4

LEMMA PlaceStep ==
    IInv /\ (\E o \in Orders : \E b \in Books : Place(o, b[1], b[2])) => IInv'
<1> SUFFICES ASSUME IInv, NEW o \in Orders, NEW b \in Books, Place(o, b[1], b[2])
             PROVE  IInv'
    OBVIOUS
<1> DEFINE q == Placed(b[2], b[1], Now)
           plan == <<q>>
           ev == "CREATED"
<1>1. b[1] \in AllKinds /\ b[2] \in Directions
    BY SettlementConstants
<1>2. Now \in Nat /\ Now \in Times /\ Now <= Now + MaxLag
    BY Small, SettlementConstants DEF IInv, TypeOK, Now
<1>3. /\ q \in Row /\ q.st = "OPEN" /\ q.res = "NONE" /\ q.filled = 0
      /\ q.closed = 0 /\ q.flag = FALSE
    BY <1>1, <1>2, PlacedRow
<1>4. job' = [IdleJob EXCEPT !.pc = "write", !.now = Now, !.o = o, !.ev = ev, !.plan = plan]
    BY Zenon DEF Place, Placed
<1>5. orders[o].st = "NONE" /\ UNCHANGED <<tape, orders, events, faults>>
    BY DEF Place
<1> HIDE DEF q
<1>6. plan \in Seq(Row) /\ Len(plan) = 1 /\ DOMAIN plan = {1} /\ plan[1] = q
      /\ plan # <<>> /\ ev \in EventTypes
    BY <1>3 DEF EventTypes
<1>7. /\ job' \in Jobs /\ job'.pc = "write" /\ job'.o = o
      /\ job'.plan = plan /\ job'.ev = ev /\ job'.now = Now
  <2> HIDE DEF plan, ev
  <2> QED BY <1>2, <1>4, <1>6 DEF IdleJob, Jobs
<1>8. Sound(q)
    BY <1>3 DEF Sound, RealFill, TargetFirst, StopFirst, Settled
<1>9. \A i \in DOMAIN events[o] : RankOf(events[o][i]) < RankOf(ev)
  <2> SUFFICES ASSUME NEW i \in DOMAIN events[o] PROVE FALSE
      OBVIOUS
  <2>1. RankOf(events[o][i]) <= RowRank(orders[o])
      BY DEF IInv, Trails, Backs
  <2>2. RowRank(orders[o]) = 0 /\ RankOf(events[o][i]) \in 1..4
      BY <1>5, Ranks DEF RowRank
  <2> QED BY <2>1, <2>2
<1>10. ~ orders[o].flag
    BY <1>5 DEF IInv, RowsSound, Sound
<1>11. Succeeds(q, orders[o]) /\ Backs(q, ev)
    BY <1>3, <1>5, <1>10 DEF Succeeds, Backs, RowRank, RankOf, Results
<1> HIDE DEF plan
<1>12. /\ Len(plan) <= 2 /\ (Len(plan) = 2 => Succeeds(plan[2], plan[1]))
       /\ \A k \in DOMAIN plan : Sound(plan[k]) /\ Succeeds(plan[k], orders[o])
       /\ Backs(plan[Len(plan)], ev)
    BY <1>6, <1>8, <1>11
<1> QED BY <1>2, <1>5, <1>6, <1>7, <1>9, <1>12, BeginWrite

LEMMA StartPassStep == IInv /\ (\E k \in AllKinds : StartPass(k)) => IInv'
<1> SUFFICES ASSUME IInv, NEW k \in AllKinds, StartPass(k) PROVE IInv'
    OBVIOUS
<1>1. job' = [IdleJob EXCEPT !.pc = "pass", !.now = Now, !.todo = AtWork(k)]
    BY Zenon DEF StartPass
<1>2. UNCHANGED <<tape, orders, events, faults>>
    BY DEF StartPass
<1>3. Now \in Nat /\ Now \in Times /\ Now <= Now + MaxLag /\ AtWork(k) \in SUBSET Orders
    BY Small, SettlementConstants DEF IInv, TypeOK, Now, AtWork
<1>4. job' \in Jobs /\ job'.plan = <<>> /\ job'.pc = "pass" /\ job'.now = Now
    BY <1>1, <1>3, IdleTyped DEF IdleJob, Jobs
<1>5. TypeOK'
    BY <1>2, <1>4 DEF IInv, TypeOK
<1>6. RowsSound' /\ PlanSound'
    BY <1>2, <1>4, SoundKept DEF IInv, RowsSound, PlanSound
<1>7. Trails' /\ Clock' /\ Writing'
    BY <1>2, <1>3, <1>4 DEF IInv, Trails, Clock, Writing, Now
<1> QED BY <1>5, <1>6, <1>7 DEF IInv

LEMMA FetchFailsStep == IInv /\ (\E o \in Orders : FetchFails(o)) => IInv'
<1> SUFFICES ASSUME IInv, NEW o \in Orders, FetchFails(o) PROVE IInv'
    OBVIOUS
<1>1. job.pc = "pass" /\ Fault /\ Skip(o) /\ UNCHANGED <<tape, orders, events>>
    BY DEF FetchFails
<1> QED BY <1>1, Faulted, Skipped DEF IInv

(* One row of the plan is written: the next one succeeds it, and the trail, *)
(* which has no later event than the old row, has none later than the new. *)
LEMMA WriteStep == IInv /\ Write => IInv'
<1> SUFFICES ASSUME IInv, Write PROVE IInv'
    OBVIOUS
<1> DEFINE w == job.o
           old == job.plan
           q == Head(old)
           rest == Tail(old)
<1>1. /\ job.pc = "write" /\ old # <<>> /\ w \in Orders /\ old \in Seq(Row)
      /\ job \in Jobs /\ UNCHANGED <<tape, events, faults>>
      /\ orders' = [orders EXCEPT ![w] = q]
    BY DEF IInv, TypeOK, Jobs, Write
<1>2. /\ q = old[1] /\ q \in Row /\ 1 \in DOMAIN old /\ Len(old) \in {1, 2}
      /\ rest \in Seq(Row) /\ Len(rest) = Len(old) - 1
      /\ \A k \in DOMAIN rest : rest[k] = old[k + 1] /\ k + 1 \in DOMAIN old
  <2>1. Len(old) <= 2
      BY <1>1 DEF IInv, Writing
  <2> HIDE DEF old
  <2>2. Len(old) \in Nat /\ Len(old) # 0 /\ DOMAIN old = 1..Len(old)
      BY <1>1
  <2> QED BY <1>1, <2>1, <2>2
<1>3. /\ job' \in Jobs /\ job'.pc = "write" /\ job'.o = w /\ job'.plan = rest
      /\ job'.ev = job.ev /\ job'.now = job.now
  <2>1. job' = [job EXCEPT !.plan = rest]
      BY DEF Write
  <2> HIDE DEF rest
  <2> QED BY <1>1, <1>2, <2>1 DEF Jobs
<1>4. orders \in [Orders -> Row] /\ orders'[w] = q /\ \A o \in Orders : o # w => orders'[o] = orders[o]
    BY <1>1 DEF IInv, TypeOK
<1>5. /\ \A i \in DOMAIN events[w] : RankOf(events[w][i]) < RankOf(job.ev)
      /\ \A k \in DOMAIN old : Succeeds(old[k], orders[w])
      /\ Len(old) = 2 => Succeeds(old[2], old[1])
      /\ Backs(old[Len(old)], job.ev)
    BY <1>1 DEF IInv, Writing
<1>6. Sound(q) /\ \A k \in DOMAIN rest : Sound(rest[k])
    BY <1>2 DEF IInv, PlanSound
<1> HIDE DEF q, rest, w, old
<1>7. TypeOK'
    BY <1>1, <1>2, <1>3 DEF IInv, TypeOK
<1>8. RowsSound' /\ PlanSound'
  <2>1. \A o \in Orders : Sound(orders'[o])
      BY <1>4, <1>6 DEF IInv, RowsSound
  <2>2. \A k \in DOMAIN job'.plan : Sound(job'.plan[k])
      BY <1>3, <1>6
  <2> QED BY <1>1, <2>1, <2>2, SoundKept DEF RowsSound, PlanSound
<1>9. Trails'
  <2> SUFFICES ASSUME NEW o \in Orders
               PROVE  Rising(events[o]) /\ \A i \in DOMAIN events[o] : Backs(orders'[o], events[o][i])
      BY <1>1 DEF Trails, Rising, Backs, RowRank, RankOf
  <2>1. Rising(events[o]) /\ \A i \in DOMAIN events[o] : Backs(orders[o], events[o][i])
      BY DEF IInv, Trails
  <2>2. CASE o # w
      BY <1>4, <2>1, <2>2
  <2>3. CASE o = w
    <3> SUFFICES ASSUME NEW i \in DOMAIN events[w] PROVE Backs(q, events[w][i])
        BY <1>4, <2>1, <2>3
    <3>1. Succeeds(q, orders[w])
        BY <1>2, <1>5
    <3>2. RankOf(events[w][i]) <= RowRank(q)
        BY <2>1, <2>3, <3>1, Ranks DEF Backs, Succeeds
    <3>3. events[w][i] \notin Results
      <4>1. RankOf(events[w][i]) < RankOf(job.ev) /\ RankOf(job.ev) \in 1..4
          BY <1>5, Ranks
      <4> QED BY <4>1, Ranks
    <3> QED BY <2>1, <2>3, <3>1, <3>2, <3>3 DEF Backs, Succeeds
  <2> QED BY <2>2, <2>3
<1>10. Clock'
    BY <1>1, <1>3 DEF IInv, Clock, Now
<1>11. Writing'
  <2>1. CASE Len(old) = 1
    <3>1. rest = <<>> /\ Backs(q, job.ev)
        BY <1>2, <1>5, <2>1
    <3> QED BY <1>1, <1>3, <1>4, <1>5, <3>1 DEF Writing, Backs, RowRank, RankOf, Succeeds
  <2>2. CASE Len(old) = 2
    <3>1. /\ rest # <<>> /\ Len(rest) = 1 /\ DOMAIN rest = {1} /\ rest[1] = old[2]
        BY <1>2, <2>2
    <3>2. Succeeds(rest[1], q) /\ Backs(rest[Len(rest)], job.ev)
        BY <1>2, <1>5, <2>2, <3>1
    <3> QED BY <1>1, <1>3, <1>4, <1>5, <3>1, <3>2 DEF Writing, Backs, RowRank, RankOf, Succeeds
  <2> QED BY <1>2, <2>1, <2>2
<1> QED BY <1>7, <1>8, <1>9, <1>10, <1>11 DEF IInv

LEMMA AppendEventStep == IInv /\ AppendEvent => IInv'
<1> SUFFICES ASSUME IInv, AppendEvent PROVE IInv'
    OBVIOUS
<1> DEFINE w == job.o
           e == events[w]
           f == Append(e, job.ev)
<1>1. /\ job.pc = "write" /\ job.plan = <<>> /\ w \in Orders /\ job \in Jobs
      /\ job.todo \in SUBSET Orders /\ job.ev \in EventTypes
      /\ UNCHANGED <<tape, orders, faults>> /\ GoOn(job.todo)
      /\ events' = [events EXCEPT ![w] = f] /\ e \in Seq(EventTypes)
    BY DEF IInv, TypeOK, Jobs, AppendEvent
<1>2. /\ job' \in Jobs /\ job'.plan = <<>>
      /\ job'.pc # "idle" => job'.pc = "pass" /\ job'.now = job.now
    BY <1>1, GoOnJob
<1>3. /\ f \in Seq(EventTypes) /\ Len(f) = Len(e) + 1 /\ f[Len(e) + 1] = job.ev
      /\ \A i \in DOMAIN e : f[i] = e[i]
      /\ \A i \in DOMAIN f : i \in DOMAIN e \/ i = Len(e) + 1
      /\ Len(e) \in Nat /\ DOMAIN e = 1..Len(e)
    BY <1>1
<1>4. \A i \in DOMAIN e : RankOf(e[i]) < RankOf(job.ev)
    BY <1>1 DEF IInv, Writing
<1>5. Backs(orders[w], job.ev)
    BY <1>1 DEF IInv, Writing
<1>6. Rising(e) /\ \A i \in DOMAIN e : Backs(orders[w], e[i])
    BY <1>1 DEF IInv, Trails
<1>7. \A o \in Orders : /\ o # w => events'[o] = events[o]
                        /\ o = w /\ w \in DOMAIN events => events'[o] = f
                        /\ w \notin DOMAIN events => events'[o] = events[o]
  <2> HIDE DEF f
  <2> QED BY <1>1
<1>8. TypeOK'
  <2>1. \A o \in Orders : events'[o] \in Seq(EventTypes)
      BY <1>3, <1>7 DEF IInv, TypeOK
  <2> QED BY <1>1, <1>2, <2>1 DEF IInv, TypeOK
<1>9. RowsSound' /\ PlanSound'
    BY <1>1, <1>2, SoundKept DEF IInv, RowsSound, PlanSound
<1>10. Rising(f) /\ \A i \in DOMAIN f : Backs(orders[w], f[i])
  <2> HIDE DEF e, f
  <2>1. \A i \in DOMAIN f : Backs(orders[w], f[i])
      BY <1>3, <1>5, <1>6
  <2>2. ASSUME NEW i \in DOMAIN f, NEW j \in DOMAIN f, i < j
        PROVE  RankOf(f[i]) < RankOf(f[j])
    <3>1. i \in DOMAIN e /\ f[i] = e[i]
        BY <1>3, <2>2
    <3>2. CASE j \in DOMAIN e
        BY <1>3, <1>6, <2>2, <3>1, <3>2 DEF Rising
    <3>3. CASE j = Len(e) + 1
        BY <1>3, <1>4, <3>1, <3>3
    <3> QED BY <1>3, <3>2, <3>3
  <2> QED BY <2>1, <2>2 DEF Rising
<1>11. Trails'
  <2>1. \A o \in Orders : Rising(events'[o]) /\ \A i \in DOMAIN events'[o] : Backs(orders[o], events'[o][i])
    <3> HIDE DEF f, e
    <3> QED BY <1>7, <1>10 DEF IInv, Trails
  <2> QED BY <1>1, <2>1 DEF Trails, Rising, Backs, RowRank, RankOf
<1>12. Clock' /\ Writing'
    BY <1>1, <1>2 DEF IInv, Clock, Writing, Now
<1> QED BY <1>8, <1>9, <1>11, <1>12 DEF IInv

LEMMA WriteFailsStep == IInv /\ WriteFails => IInv'
<1> SUFFICES ASSUME IInv, WriteFails PROVE IInv'
    OBVIOUS
<1>1. /\ job.pc = "write" /\ Fault /\ GoOn(job.todo) /\ job.todo \in SUBSET Orders
      /\ job \in Jobs /\ UNCHANGED <<tape, orders, events>>
    BY DEF WriteFails, Abandon, IInv, TypeOK, Jobs
<1>2. /\ job' \in Jobs /\ job'.plan = <<>>
      /\ job'.pc # "idle" => job'.pc = "pass" /\ job'.now = job.now
    BY <1>1, GoOnJob
<1>3. job'.pc # "write" /\ (job'.pc # "idle" => job.pc # "idle" /\ job'.now = job.now)
    BY <1>1, <1>2
<1> QED BY <1>1, <1>2, <1>3, Faulted, GoesOn DEF IInv

LEMMA CrashStep == IInv /\ Crash => IInv'
<1> SUFFICES ASSUME IInv, Crash PROVE IInv'
    OBVIOUS
<1>1. Fault /\ job' = IdleJob /\ UNCHANGED <<tape, orders, events>>
    BY DEF Crash
<1> QED BY <1>1, Faulted, IdleTyped, GoesOn DEF IInv

LEMMA TickStep == IInv /\ Tick => IInv'
<1> SUFFICES ASSUME IInv, Tick PROVE IInv'
    OBVIOUS
<1>1. UNCHANGED <<orders, events, job, faults>>
    BY DEF Tick
<1>2. TypeOK'
    BY <1>1, TickGrows DEF IInv, TypeOK, Now
<1>3. RowsSound'
  <2>1. \A o \in Orders : orders[o] \in Row /\ Sound(orders[o])
      BY DEF IInv, TypeOK, RowsSound
  <2>2. \A o \in Orders : Sound(orders[o])'
      BY <1>1, <2>1, TickKeeps DEF IInv
  <2> QED BY <2>2 DEF RowsSound
<1>4. PlanSound'
  <2>1. \A k \in DOMAIN job.plan : job.plan[k] \in Row /\ Sound(job.plan[k])
      BY DEF IInv, TypeOK, Jobs, PlanSound
  <2>2. \A k \in DOMAIN job.plan : Sound(job.plan[k])'
      BY <1>1, <2>1, TickKeeps DEF IInv
  <2> QED BY <1>1, <2>2 DEF PlanSound
<1>5. Trails' /\ Writing'
    BY <1>1 DEF IInv, Trails, Writing
<1>6. Clock'
  <2>1. job.pc # "idle" => job.now <= Now /\ Now < job.now + MaxLag /\ job.now \in Nat
      BY Small DEF Tick, IInv, Clock, TypeOK, Jobs
  <2> QED BY <1>1, <2>1, TickGrows, SettlementConstants DEF IInv, Clock
<1> QED BY <1>2, <1>3, <1>4, <1>5, <1>6 DEF IInv

-----------------------------------------------------------------------------
LEMMA InitIInv == Init => IInv
<1> SUFFICES ASSUME Init PROVE IInv
    OBVIOUS
<1>1. /\ tape = <<>> /\ orders = [o \in Orders |-> NoRow]
      /\ events = [o \in Orders |-> <<>>] /\ job = IdleJob /\ faults = 0
    BY DEF Init
<1>2. NoRow \in Row /\ Sound(NoRow)
  <2>1. NoRow \in Row
      BY Small DEF Row, NoRow, Directions, AllKinds
  <2>2. NoRow.st = "NONE" /\ NoRow.res = "NONE" /\ NoRow.filled = 0 /\ NoRow.flag = FALSE
      BY DEF NoRow
  <2> QED BY <2>1, <2>2 DEF Sound, RealFill, TargetFirst, StopFirst, Settled
<1>3. TypeOK
  <2>1. tape \in Seq(Bars) /\ Len(tape) <= MaxTicks
      BY <1>1, SettlementConstants
  <2>2. orders \in [Orders -> Row] /\ \A o \in Orders : events[o] \in Seq(EventTypes)
      BY <1>1, <1>2
  <2> QED BY <1>1, <2>1, <2>2, IdleTyped, SettlementConstants DEF TypeOK
<1>4. RowsSound /\ PlanSound
    BY <1>1, <1>2, IdleTyped DEF RowsSound, PlanSound
<1>5. Trails
  <2>1. \A o \in Orders : events[o] = <<>>
      BY <1>1
  <2> QED BY <2>1 DEF Trails, Rising
<1>6. Clock /\ Writing
    BY <1>1, IdleTyped DEF Clock, Writing
<1> QED BY <1>3, <1>4, <1>5, <1>6 DEF IInv

LEMMA NextIInv == IInv /\ [Next]_vars => IInv'
<1> SUFFICES ASSUME IInv, [Next]_vars PROVE IInv'
    OBVIOUS
<1>1. CASE UNCHANGED vars
  <2>1. TypeOK' /\ RowsSound' /\ PlanSound'
      BY <1>1, SoundKept DEF IInv, TypeOK, RowsSound, PlanSound, vars
  <2>2. Trails' /\ Clock' /\ Writing'
      BY <1>1 DEF IInv, Trails, Clock, Writing, Now, vars
  <2> QED BY <2>1, <2>2 DEF IInv
<1>2. CASE Next
    BY <1>2, PlaceStep, FetchFailsStep, SettleOpenStep, SettleFilledStep,
       SettleReversalStep, StartPassStep, WriteStep, AppendEventStep, WriteFailsStep,
       CrashStep, TickStep DEF Next, SettleOne
<1> QED BY <1>1, <1>2

(* The tables, the task under way and the clock stay within their types.    *)
THEOREM SettlementTypes == Spec => []TypeOK
<1>1. IInv => TypeOK
    BY DEF IInv
<1> QED BY InitIInv, NextIInv, <1>1, PTL DEF Spec

(* Every paper fill is one a limit order would have had, whatever candles   *)
(* the client still returns, whatever write fails, and after a restart too. *)
THEOREM FillsAreReal == Spec => []FillIsReal
<1>1. IInv => FillIsReal
    BY DEF IInv, RowsSound, Sound, FillIsReal
<1> QED BY InitIInv, NextIInv, <1>1, PTL DEF Spec

(* An order that made its target had not clearly been stopped out before,   *)
(* in what the pass that settled it saw.                                   *)
THEOREM TargetsCameFirst == Spec => []TargetCameFirst
<1>1. IInv => TargetCameFirst
    BY DEF IInv, RowsSound, Sound, TargetCameFirst
<1> QED BY InitIInv, NextIInv, <1>1, PTL DEF Spec

(* An order that was stopped out had not made its target in a candle before *)
(* that one, in what the pass that settled it saw.                         *)
THEOREM StopsCameFirst == Spec => []StopCameFirst
<1>1. IInv => StopCameFirst
    BY DEF IInv, RowsSound, Sound, StopCameFirst
<1> QED BY InitIInv, NextIInv, <1>1, PTL DEF Spec

(* The trail of events of an order repeats nothing, never runs ahead of its *)
(* row and names the result of the row, with each transaction and the       *)
(* process itself failing anywhere.                                        *)
THEOREM TrailsFollow == Spec => []EventsFollowRows
<1>1. IInv => EventsFollowRows
    BY DEF IInv, Trails, Rising, Backs, EventsFollowRows
<1> QED BY InitIInv, NextIInv, <1>1, PTL DEF Spec
=============================================================================
