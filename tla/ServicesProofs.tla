--------------------------- MODULE ServicesProofs ---------------------------
(* Inductive invariants of the other services of MCServices: hot outcomes, ledger,   *)
(* history, commands and tasks; and the theorems about all thirteen, whose invariant *)
(* ServicesInv is the conjunction of theirs.                                          *)
EXTENDS ServicesTables

-----------------------------------------------------------------------------
(* The outcomes of a plan for a hot coin. *)
PlanHour == halves \div 2
PlanBars == 0..PlanHour - 1
PlanTimes == 0..2 * LastHour
PlanJob == [now : PlanTimes, got : (SUBSET Plan!Hours) \cup {None}, todo : SUBSET Horizons]
PlanTyped ==
  /\ halves \in PlanTimes /\ (halves < 2 * LastHour \/ halves = 0) /\ created \in Creations
  /\ DOMAIN candles = PlanBars /\ \A b \in PlanBars : candles[b] \in Plan!Possible
  /\ outcomes \in [Horizons -> Plan!Row \cup {None}]
(* How far evaluation p got: its horizons are over, and it was answered after it began. *)
PlanGoes(p) ==
  p = None \/ /\ p \in PlanJob /\ p.now <= halves /\ created <= p.now
              /\ \A h \in p.todo : p.now >= created + 2 * h
              /\ p.got # None => \E k \in 0..PlanHour : p.now \div 2 <= k /\ p.got = Plan!LastServed(k)
(* The bars of a horizon, and what they say. *)
PlanRelevant(h) == {b \in Plan!Hours : Plan!CloseOf(b) > created /\ Plan!CloseOf(b) <= created + 2 * h}
PlanFinal(h) == {b \in PlanRelevant(h) : Plan!Final(b)}
PlanTouched(h) == \E b \in PlanRelevant(h) : "tp1" \in candles[b]
PlanSays(relevant, final, stopped, touched, late) ==
  IF final # {} THEN IF stopped THEN Plan!Judged("SL_HIT", "stop", -1) ELSE Plan!Judged("TP2_HIT", "tp2", -1)
  ELSE IF touched THEN Plan!Judged("TP1_HIT", "tp1", -1)
  ELSE IF relevant = {} THEN Plan!Judged("OPEN", "entry", -1)
  ELSE Plan!Judged(IF late THEN "EXPIRED" ELSE "OPEN", "close", Max(relevant))
PlanTruth(h, n) == PlanSays(PlanRelevant(h), PlanFinal(h), "stop" \in candles[Min(PlanFinal(h))],
                            PlanTouched(h), n >= created + PlanExpiry)
(* What was stored at a horizon was said when it was over, and from all its bars it is true. *)
PlanTrue ==
  \A h \in Horizons : outcomes[h] # None =>
    /\ outcomes[h].at >= created + 2 * h /\ outcomes[h].at <= halves
    /\ outcomes[h].first <= created \div 2
       => LET v == PlanTruth(h, outcomes[h].at) IN
          outcomes[h].status = v.status /\ outcomes[h].exit = v.exit /\ outcomes[h].bar = v.bar
PlanInv == PlanTyped /\ PlanGoes(check) /\ PlanTrue

LEMMA PlanConstants ==
  /\ IsFiniteSet(Horizons) /\ Horizons \subseteq Nat \ {0} /\ Served \in Nat \ {0} /\ PlanExpiry \in Nat
  /\ Creations \subseteq 0..1 /\ LastHour \in Nat
<1>1. Plan!IsFiniteSet(Horizons)
  BY ServicesAssumption DEF Plan!HotOutcomeAssumption
<1>2. IsFiniteSet(Horizons)
  BY <1>1 DEF Plan!IsFiniteSet, IsFiniteSet
<1> QED BY <1>2, ServicesAssumption DEF Plan!HotOutcomeAssumption
LEMMA PlanMax == \A S : Plan!Max(S) = Max(S) /\ Plan!Min(S) = Min(S)
  BY DEF Plan!Max, Max, Plan!Min, Min

LEMMA PlanFacts == ASSUME PlanInv
    PROVE  /\ halves \in Nat /\ PlanHour \in Nat /\ PlanHour <= LastHour /\ created \in {0, 1} /\ created \div 2 = 0
           /\ PlanBars \subseteq Plan!Hours
<1>1. halves \in Nat /\ created \in {0, 1} /\ (halves < 2 * LastHour \/ halves = 0) /\ LastHour \in Nat
  BY PlanConstants DEF PlanInv, PlanTyped, PlanTimes
<1>2. PlanHour \in Nat /\ PlanHour <= LastHour
  BY <1>1 DEF PlanHour
<1>3. PlanBars \subseteq Plan!Hours
  BY <1>1, <1>2 DEF PlanBars, Plan!Hours
<1>4. created \div 2 = 0
  BY <1>1
<1> QED BY <1>1, <1>2, <1>3, <1>4

(* As soon as a horizon is over its bars are closed, and a set of bars that begins with the *)
(* first one and goes on to its end has all of them.                                     *)
LEMMA PlanClosed ==
    ASSUME PlanInv, NEW h \in Horizons, NEW n \in Nat, n >= created + 2 * h, NEW k \in Nat, n \div 2 <= k, k <= LastHour
    PROVE  PlanRelevant(h) \subseteq 0..k - 1
<1> SUFFICES ASSUME NEW b \in PlanRelevant(h) PROVE b \in 0..k - 1
  OBVIOUS
<1>1. h \in Nat /\ created \in {0, 1} /\ LastHour \in Nat
  BY PlanConstants, PlanFacts
<1>2. b \in Nat /\ 2 * (b + 1) <= created + 2 * h
  BY <1>1 DEF PlanRelevant, Plan!Hours, Plan!CloseOf
<1>3. 2 * (b + 1) <= n
  BY <1>1, <1>2
<1>4. b + 1 <= n \div 2
  BY <1>2, <1>3
<1> QED BY <1>2, <1>4

LEMMA PlanAll ==
    ASSUME PlanInv, NEW h \in Horizons, NEW n, NEW G \in SUBSET Plan!Hours, PlanRelevant(h) \subseteq G
    PROVE  Plan!Verdict(G, h, n) = PlanTruth(h, n)
<1>1. Plan!Relevant(G, h) = PlanRelevant(h)
  BY DEF Plan!Relevant, PlanRelevant
<1>2. {b \in Plan!Relevant(G, h) : Plan!Final(b)} = PlanFinal(h)
  BY <1>1 DEF PlanFinal
<1>3. (\E b \in Plan!Relevant(G, h) : "tp1" \in candles[b]) <=> PlanTouched(h)
  BY <1>1 DEF PlanTouched
<1>4. Plan!Min(PlanFinal(h)) = Min(PlanFinal(h)) /\ Plan!Max(PlanRelevant(h)) = Max(PlanRelevant(h))
  BY PlanMax
<1>5. PICK R, F : R = PlanRelevant(h) /\ F = PlanFinal(h)
  OBVIOUS
<1>6. Plan!Verdict(G, h, n) = IF F # {} THEN IF "stop" \in candles[Min(F)] THEN Plan!Judged("SL_HIT", "stop", -1)
                                                                        ELSE Plan!Judged("TP2_HIT", "tp2", -1)
                             ELSE IF PlanTouched(h) THEN Plan!Judged("TP1_HIT", "tp1", -1)
                             ELSE IF R = {} THEN Plan!Judged("OPEN", "entry", -1)
                             ELSE Plan!Judged(IF n >= created + PlanExpiry THEN "EXPIRED" ELSE "OPEN", "close", Max(R))
  BY <1>1, <1>2, <1>3, <1>4, <1>5 DEF Plan!Verdict
<1> QED BY <1>5, <1>6 DEF PlanTruth, PlanSays

(* A set of hours is finite and has its first and last one. *)
LEMMA PlanEnds == ASSUME NEW S \in SUBSET Plan!Hours, S # {}
    PROVE  Min(S) \in S /\ (\A b \in S : Min(S) <= b) /\ Max(S) \in S /\ IsFiniteSet(S)
<1>1. LastHour \in Nat
  BY PlanConstants
<1>2. IsFiniteSet(Plan!Hours) /\ Plan!Hours \subseteq Int
  BY <1>1, FS_Interval DEF Plan!Hours
<1>3. IsFiniteSet(S)
  BY <1>2, FS_Subset, Zenon
<1>4. S \in SUBSET Int
  BY <1>2
<1>5. Min(S) \in S /\ \A b \in S : Min(S) <= b
  BY <1>3, <1>4, MinExists
<1>6. Max(S) \in S
  BY <1>3, <1>4, MaxExists
<1> QED BY <1>3, <1>5, <1>6

(* A stop or second target at one horizon is that of every longer one. *)
LEMMA PlanAgrees ==
    ASSUME PlanInv, NEW g \in Horizons, NEW h \in Horizons, g < h, NEW n, NEW m,
           PlanTruth(g, n).status \in {"SL_HIT", "TP2_HIT"}
    PROVE  PlanTruth(h, m).status = PlanTruth(g, n).status
<1>1. PICK F, H : F = PlanFinal(g) /\ H = PlanFinal(h)
  OBVIOUS
<1>2. F # {}
  BY <1>1 DEF PlanTruth, PlanSays, Plan!Judged
<1>3. g \in Nat /\ h \in Nat /\ created \in {0, 1} /\ LastHour \in Nat
  BY PlanConstants, PlanFacts
<1>4. F \in SUBSET Plan!Hours /\ H \in SUBSET Plan!Hours /\ Plan!Hours \subseteq Nat
  BY <1>1, <1>3 DEF PlanFinal, PlanRelevant, Plan!Hours
<1>5. Min(F) \in F /\ \A b \in F : Min(F) <= b
  BY <1>2, <1>4, PlanEnds
<1>6. F \subseteq H
  <2> SUFFICES ASSUME NEW b \in F PROVE b \in H
    OBVIOUS
  <2>1. b \in Nat /\ b \in Plan!Hours /\ Plan!Final(b) /\ 2 * (b + 1) > created /\ 2 * (b + 1) <= created + 2 * g
    BY <1>1, <1>4 DEF PlanFinal, PlanRelevant, Plan!CloseOf
  <2>2. 2 * (b + 1) <= created + 2 * h
    BY <1>3, <2>1
  <2> QED BY <1>1, <2>1, <2>2 DEF PlanFinal, PlanRelevant, Plan!CloseOf
<1>7. H # {}
  BY <1>2, <1>6
<1>8. Min(H) \in H /\ \A b \in H : Min(H) <= b
  BY <1>4, <1>7, PlanEnds
<1>9. PICK x, y : x = Min(F) /\ y = Min(H)
  OBVIOUS
<1>10. x \in Nat /\ y \in Nat /\ y <= x
  BY <1>4, <1>5, <1>6, <1>8, <1>9, Zenon
<1>11. y \in F
  <2>1. x \in PlanRelevant(g) /\ y \in PlanRelevant(h) /\ Plan!Final(y)
    BY <1>1, <1>5, <1>8, <1>9 DEF PlanFinal
  <2>2. 2 * (x + 1) <= created + 2 * g /\ y \in Plan!Hours /\ 2 * (y + 1) > created
    BY <2>1 DEF PlanRelevant, Plan!CloseOf
  <2>3. 2 * (y + 1) <= created + 2 * g
    BY <1>3, <1>10, <2>2
  <2> QED BY <1>1, <2>1, <2>2, <2>3 DEF PlanFinal, PlanRelevant, Plan!CloseOf
<1>12. x = y
  BY <1>5, <1>9, <1>10, <1>11
<1> QED BY <1>1, <1>2, <1>7, <1>9, <1>12 DEF PlanTruth, PlanSays, Plan!Judged

LEMMA PlanMeans == ASSUME PlanInv PROVE Plan!TypeOK /\ Plan!WholeIsTruth /\ Plan!HorizonsAgree /\ Plan!NotBeforeTime
<1>1. Plan!TypeOK
  BY DEF PlanInv, PlanTyped, PlanGoes, PlanJob, PlanTimes, PlanBars, PlanHour, Plan!TypeOK
<1>2. ASSUME NEW h \in Horizons, Plan!Whole(h)
      PROVE  LET v == PlanTruth(h, outcomes[h].at) IN
             /\ outcomes[h].status = v.status /\ outcomes[h].exit = v.exit /\ outcomes[h].bar = v.bar
             /\ Plan!Verdict(DOMAIN candles, h, outcomes[h].at) = v
  <2>1. outcomes[h] # None /\ outcomes[h].first <= created \div 2
    BY <1>2 DEF Plan!Whole, Plan!Reached
  <2>2. PICK n : n = outcomes[h].at
    OBVIOUS
  <2>3. n >= created + 2 * h /\ n <= halves
    BY <2>1, <2>2 DEF PlanInv, PlanTrue
  <2>4. outcomes[h] \in Plan!Row
    BY <2>1 DEF PlanInv, PlanTyped
  <2>5. n \in Nat /\ n \div 2 <= PlanHour
    <3>1. n \in Nat /\ halves \in Nat
      BY <2>2, <2>4, PlanConstants, PlanFacts DEF Plan!Row
    <3> QED BY <2>3, <3>1 DEF PlanHour
  <2>6. PICK k : k = PlanHour
    OBVIOUS
  <2>7. PlanRelevant(h) \subseteq 0..k - 1
    BY <2>3, <2>5, <2>6, PlanClosed, PlanFacts
  <2>8. PlanRelevant(h) \subseteq PlanBars /\ DOMAIN candles = PlanBars
    BY <2>6, <2>7 DEF PlanBars, PlanInv, PlanTyped
  <2>9. PICK G : G = PlanBars
    OBVIOUS
  <2>10. Plan!Verdict(G, h, n) = PlanTruth(h, n)
    BY <2>8, <2>9, PlanAll, PlanFacts
  <2> QED BY <2>1, <2>2, <2>8, <2>9, <2>10 DEF PlanInv, PlanTrue
<1>3. Plan!WholeIsTruth
  BY <1>2 DEF Plan!WholeIsTruth
<1>4. Plan!HorizonsAgree
  <2> SUFFICES ASSUME NEW g \in Horizons, NEW h \in Horizons, g < h, Plan!Decided(g), Plan!Whole(g), Plan!Whole(h)
               PROVE  outcomes[h].status = outcomes[g].status
    BY DEF Plan!HorizonsAgree
  <2>1. PICK n, m : n = outcomes[g].at /\ m = outcomes[h].at
    OBVIOUS
  <2>2. outcomes[g].status = PlanTruth(g, n).status /\ outcomes[h].status = PlanTruth(h, m).status
    BY <1>2, <2>1
  <2>3. PlanTruth(g, n).status \in {"SL_HIT", "TP2_HIT"}
    BY <2>2 DEF Plan!Decided
  <2> QED BY <2>2, <2>3, PlanAgrees
<1>5. Plan!NotBeforeTime
  BY DEF PlanInv, PlanTrue, Plan!NotBeforeTime, Plan!Reached
<1> QED BY <1>1, <1>3, <1>4, <1>5

LEMMA PlanInit == ASSUME Plan!Init PROVE PlanInv
<1> USE PlanConstants DEF Plan!Init
<1>1. halves = 0 /\ PlanHour = 0 /\ PlanBars = {} /\ DOMAIN candles = {} /\ check = None
  BY DEF PlanHour, PlanBars
<1>2. PlanTyped
  BY <1>1 DEF PlanTyped, PlanTimes
<1> QED BY <1>1, <1>2 DEF PlanInv, PlanGoes, PlanTrue

(* What the bars of a horizon say does not depend on later ones. *)
LEMMA PlanTruthKept ==
    ASSUME PlanInv, created' = created, NEW h \in Horizons, PlanRelevant(h) \subseteq PlanBars,
           \A b \in PlanBars : candles'[b] = candles[b], NEW n
    PROVE  PlanTruth(h, n)' = PlanTruth(h, n)
<1>1. PlanRelevant(h)' = PlanRelevant(h)
  BY DEF PlanRelevant, Plan!CloseOf
<1>2. PlanFinal(h)' = PlanFinal(h)
  BY <1>1 DEF PlanFinal, Plan!Final
<1>3. PlanTouched(h)' <=> PlanTouched(h)
  BY <1>1 DEF PlanTouched
<1>4. PICK R, F : R = PlanRelevant(h) /\ F = PlanFinal(h)
  OBVIOUS
<1>5. CASE F = {}
  BY <1>1, <1>2, <1>3, <1>4, <1>5 DEF PlanTruth, PlanSays
<1>6. CASE F # {}
  <2>1. F \in SUBSET Plan!Hours
    BY <1>4 DEF PlanFinal, PlanRelevant
  <2>2. Min(F) \in PlanBars
    BY <1>4, <1>6, <2>1, PlanEnds DEF PlanFinal
  <2>3. candles'[Min(F)] = candles[Min(F)]
    BY <2>2
  <2> QED BY <1>1, <1>2, <1>4, <1>6, <2>3 DEF PlanTruth, PlanSays
<1> QED BY <1>5, <1>6

(* What is stored goes on to be true while bars are added. *)
LEMMA PlanKept ==
    ASSUME PlanInv, created' = created, halves' >= halves, halves' \in Nat, outcomes' = outcomes,
           \A b \in PlanBars : candles'[b] = candles[b]
    PROVE  PlanTrue'
<1> SUFFICES ASSUME NEW h \in Horizons, outcomes[h] # None
             PROVE  /\ outcomes[h].at >= created + 2 * h /\ outcomes[h].at <= halves'
                    /\ outcomes[h].first <= created \div 2
                       => LET v == PlanTruth(h, outcomes[h].at)' IN
                          outcomes[h].status = v.status /\ outcomes[h].exit = v.exit /\ outcomes[h].bar = v.bar
  BY DEF PlanTrue
<1>1. PICK n, k : n = outcomes[h].at /\ k = PlanHour
  OBVIOUS
<1>2. n >= created + 2 * h /\ n <= halves /\ halves \in Nat /\ k \in Nat /\ k <= LastHour
  BY <1>1, PlanFacts DEF PlanInv, PlanTrue
<1>3. n \in Nat
  <2>1. outcomes[h] \in Plan!Row
    BY DEF PlanInv, PlanTyped
  <2> QED BY <1>1, <2>1, PlanConstants DEF Plan!Row
<1>4. n \div 2 <= k
  BY <1>1, <1>2, <1>3 DEF PlanHour
<1>5. PlanRelevant(h) \subseteq PlanBars
  <2>1. PlanRelevant(h) \subseteq 0..k - 1
    BY <1>2, <1>3, <1>4, PlanClosed
  <2> QED BY <1>1, <2>1 DEF PlanBars
<1>6. PlanTruth(h, n)' = PlanTruth(h, n)
  BY <1>5, PlanTruthKept
<1>7. outcomes[h].at <= halves'
  BY <1>1, <1>2, <1>3
<1>8. outcomes'[h].at = n
  BY <1>1
<1> QED BY <1>1, <1>2, <1>6, <1>7, <1>8 DEF PlanInv, PlanTrue

(* An evaluation begins, is answered, or is left; its time and its horizons stay. *)
LEMMA PlanQuiet == ASSUME PlanInv, Plan!Evaluate \/ Plan!Klines \/ Plan!Leave PROVE PlanInv'
<1>1. UNCHANGED <<halves, created, candles, outcomes>>
  BY DEF Plan!Evaluate, Plan!Klines, Plan!Leave
<1>2. PlanTyped' /\ PlanTrue'
  <2>1. halves' >= halves /\ halves' \in Nat
    BY <1>1, PlanFacts
  <2>2. PlanTrue'
    BY <1>1, <2>1, PlanKept
  <2>3. PlanTyped'
    BY <1>1 DEF PlanInv, PlanTyped, PlanBars, PlanHour
  <2> QED BY <2>2, <2>3
<1>3. halves \in PlanTimes /\ halves \in Nat /\ created \in {0, 1} /\ PlanHour \in Nat
  BY PlanFacts DEF PlanInv, PlanTyped
<1>4. PlanHour' = PlanHour
  BY <1>1 DEF PlanHour
<1>5. CASE Plan!Evaluate
  <2>1. PICK q : q = check'
    OBVIOUS
  <2>2. PICK t : t = Plan!Due(halves)
    OBVIOUS
  <2>3. q = [now |-> halves, got |-> None, todo |-> t] /\ halves >= created
    BY <1>5, <2>1, <2>2 DEF Plan!Evaluate
  <2>4. t \subseteq Horizons /\ \A h \in t : halves >= created + 2 * h
    <3>1. \A h \in Horizons : h \in Nat
      BY PlanConstants
    <3> QED BY <1>3, <2>2, <3>1 DEF Plan!Due
  <2>5. q \in PlanJob
    BY <1>3, <2>3, <2>4 DEF PlanJob
  <2>6. PlanGoes(q)'
    BY <1>1, <1>3, <1>4, <2>3, <2>4, <2>5 DEF PlanGoes
  <2> QED BY <1>2, <2>1, <2>6 DEF PlanInv
<1>6. CASE Plan!Klines
  <2>1. PICK p, k, g : p = check /\ k = PlanHour /\ g = Plan!LastServed(k)
    OBVIOUS
  <2>2. p # None /\ check' = [p EXCEPT !.got = g]
    BY <1>6, <2>1 DEF Plan!Klines, PlanHour
  <2>3. p \in PlanJob /\ p.now <= halves /\ created <= p.now /\ \A h \in p.todo : p.now >= created + 2 * h
    BY <2>1, <2>2 DEF PlanInv, PlanGoes
  <2>4. PICK q : q = [now |-> p.now, got |-> g, todo |-> p.todo]
    BY Zenon
  <2>5. check' = q
    BY <2>2, <2>3, <2>4 DEF PlanJob
  <2>6. g \subseteq Plan!Hours
    BY <2>1 DEF Plan!LastServed
  <2>7. q \in PlanJob
    BY <2>3, <2>4, <2>6 DEF PlanJob
  <2>8. p.now \in Nat /\ p.now \div 2 <= k /\ k \in 0..k
    <3>1. p.now \in Nat
      BY <2>3, PlanConstants DEF PlanJob, PlanTimes
    <3> QED BY <1>3, <2>1, <2>3, <3>1 DEF PlanHour
  <2>9. PlanGoes(q)'
    BY <1>1, <1>4, <2>1, <2>3, <2>4, <2>7, <2>8 DEF PlanGoes
  <2> QED BY <1>2, <2>5, <2>9 DEF PlanInv
<1>7. CASE Plan!Leave
  BY <1>2, <1>7 DEF PlanInv, PlanGoes, Plan!Leave
<1> QED BY <1>5, <1>6, <1>7

(* Half an hour passes, on the hour a bar closes. *)
LEMMA PlanTick == ASSUME PlanInv, NEW hit \in Plan!Possible, Plan!Tick(hit) PROVE PlanInv'
<1>1. PICK n, m, k : n = halves /\ m = halves' /\ k = PlanHour
  OBVIOUS
<1>2. /\ n < 2 * LastHour - 1 /\ m = n + 1 /\ UNCHANGED <<created, check, outcomes>>
      /\ candles' = IF m % 2 = 1 THEN candles ELSE [b \in 0..(m \div 2) - 1 |-> IF b \in DOMAIN candles THEN candles[b] ELSE hit]
  BY <1>1 DEF Plan!Tick
<1>3. n \in Nat /\ m \in Nat /\ LastHour \in Nat /\ k = n \div 2 /\ k \in Nat
  BY <1>1, <1>2, PlanFacts, PlanConstants DEF PlanHour
<1>4. PlanHour' = m \div 2
  BY <1>1 DEF PlanHour
<1>5. DOMAIN candles = 0..k - 1 /\ \A b \in 0..k - 1 : candles[b] \in Plan!Possible
  BY <1>1 DEF PlanInv, PlanTyped, PlanBars
<1>6. /\ DOMAIN candles' = 0..(m \div 2) - 1 /\ \A b \in 0..(m \div 2) - 1 : candles'[b] \in Plan!Possible
      /\ \A b \in 0..k - 1 : candles'[b] = candles[b]
  <2>1. CASE m % 2 = 1
    <3>1. m \div 2 = k
      BY <1>2, <1>3, <2>1
    <3> QED BY <1>2, <1>5, <2>1, <3>1
  <2>2. CASE m % 2 # 1
    <3>1. m \div 2 = k + 1
      BY <1>2, <1>3, <2>2
    <3>2. PICK l : l = m \div 2
      OBVIOUS
    <3>3. candles' = [b \in 0..l - 1 |-> IF b \in DOMAIN candles THEN candles[b] ELSE hit]
      BY <1>2, <2>2, <3>2
    <3>4. \A b \in 0..k - 1 : b \in 0..l - 1
      BY <1>3, <3>1, <3>2
    <3> QED BY <1>5, <3>2, <3>3, <3>4
  <2> QED BY <2>1, <2>2
<1>7. PlanTyped'
  <2>1. halves' \in PlanTimes /\ halves' < 2 * LastHour
    BY <1>1, <1>2, <1>3 DEF PlanTimes
  <2> QED BY <1>2, <1>4, <1>6, <2>1 DEF PlanInv, PlanTyped, PlanBars
<1>8. PlanTrue'
  <2>1. \A b \in PlanBars : candles'[b] = candles[b]
    BY <1>1, <1>6 DEF PlanBars
  <2> QED BY <1>1, <1>2, <1>3, <2>1, PlanKept
<1>9. PlanGoes(check)'
  <2>1. PICK p : p = check
    OBVIOUS
  <2>2. CASE p = None
    BY <1>2, <2>1, <2>2 DEF PlanGoes
  <2>3. CASE p # None
    <3>1. /\ p \in PlanJob /\ p.now <= halves /\ created <= p.now /\ \A h \in p.todo : p.now >= created + 2 * h
          /\ p.got # None => \E j \in 0..PlanHour : p.now \div 2 <= j /\ p.got = Plan!LastServed(j)
      BY <2>1, <2>3 DEF PlanInv, PlanGoes
    <3>2. p.now \in Nat
      BY <3>1, PlanConstants DEF PlanJob, PlanTimes
    <3>3. p.now <= halves'
      BY <1>1, <1>2, <1>3, <3>1, <3>2
    <3>4. \A j \in 0..PlanHour : j \in 0..PlanHour'
      <4>1. k <= m \div 2
        BY <1>2, <1>3
      <4>2. m \div 2 \in Nat
        BY <1>3
      <4>3. PICK l : l = m \div 2
        OBVIOUS
      <4>4. PlanHour = k /\ PlanHour' = l /\ l \in Nat /\ k <= l
        BY <1>1, <1>4, <4>1, <4>2, <4>3
      <4> QED BY <1>3, <4>4
    <3>5. PlanGoes(p)'
      BY <1>2, <3>1, <3>3, <3>4 DEF PlanGoes
    <3> QED BY <1>2, <2>1, <3>5
  <2> QED BY <2>2, <2>3
<1> QED BY <1>7, <1>8, <1>9 DEF PlanInv

(* A verdict has its type. *)
LEMMA PlanVerdict == ASSUME NEW G \in SUBSET Plan!Hours, NEW h, NEW n
    PROVE  Plan!Verdict(G, h, n) \in [status : Plan!Statuses, exit : {"entry", "stop", "tp1", "tp2", "close"}, bar : -1..LastHour - 1]
<1>1. PICK R, b : R = Plan!Relevant(G, h) /\ b = Plan!Max(R)
  OBVIOUS
<1>2. R \in SUBSET Plan!Hours
  BY <1>1 DEF Plan!Relevant
<1>3. R # {} => b \in -1..LastHour - 1
  <2> SUFFICES ASSUME R # {} PROVE b \in -1..LastHour - 1
    OBVIOUS
  <2>1. b = Max(R)
    BY <1>1, PlanMax
  <2>2. b \in Plan!Hours
    BY <1>2, <2>1, PlanEnds
  <2> QED BY <2>2, PlanConstants DEF Plan!Hours
<1>4. -1 \in -1..LastHour - 1
  BY PlanConstants
<1>5. Plan!Verdict(G, h, n) \in {Plan!Judged("SL_HIT", "stop", -1), Plan!Judged("TP2_HIT", "tp2", -1),
                                 Plan!Judged("TP1_HIT", "tp1", -1), Plan!Judged("OPEN", "entry", -1)}
      \/ (R # {} /\ Plan!Verdict(G, h, n) \in {Plan!Judged("EXPIRED", "close", b), Plan!Judged("OPEN", "close", b)})
  BY <1>1 DEF Plan!Verdict
<1> QED BY <1>3, <1>4, <1>5 DEF Plan!Judged, Plan!Statuses

LEMMA PlanSaves == ASSUME PlanInv, Plan!SaveOutcome PROVE PlanInv'
<1>1. PICK p, t, G, n : p = check /\ t = p.todo /\ G = p.got /\ n = p.now
  OBVIOUS
<1>2. p # None /\ G # None /\ t # {} /\ UNCHANGED <<halves, created, candles>>
  BY <1>1 DEF Plan!SaveOutcome
<1>3. /\ p \in PlanJob /\ n <= halves /\ created <= n /\ \A h \in t : n >= created + 2 * h
      /\ \E j \in 0..PlanHour : n \div 2 <= j /\ G = Plan!LastServed(j)
  BY <1>1, <1>2 DEF PlanInv, PlanGoes
<1>4. PICK k \in 0..PlanHour : n \div 2 <= k /\ G = Plan!LastServed(k)
  BY <1>3
<1>5. t \subseteq Horizons /\ G \in SUBSET Plan!Hours /\ n \in PlanTimes /\ n \in Nat /\ k \in Nat /\ k <= LastHour /\ LastHour \in Nat
  <2>1. t \subseteq Horizons /\ n \in PlanTimes
    BY <1>1, <1>3 DEF PlanJob
  <2>2. G \in SUBSET Plan!Hours
    BY <1>4 DEF Plan!LastServed
  <2>3. k \in Nat /\ k <= LastHour
    <3>1. PlanHour \in Nat /\ PlanHour <= LastHour
      BY PlanFacts
    <3> QED BY <1>4, <3>1, PlanConstants
  <2> QED BY <2>1, <2>2, <2>3, PlanConstants DEF PlanTimes
<1>6. PICK h : h = Min(t)
  OBVIOUS
<1>7. h \in t
  <2>1. IsFiniteSet(t)
    BY <1>5, PlanConstants, FS_Subset, Zenon
  <2>2. t \in SUBSET Int
    BY <1>5, PlanConstants
  <2> QED BY <1>2, <1>6, <2>1, <2>2, MinExists
<1>8. h \in Horizons /\ h \in Nat /\ n >= created + 2 * h
  BY <1>3, <1>5, <1>7, PlanConstants
<1>9. PICK v, f : v = Plan!Verdict(G, h, n) /\ f = (IF G = {} THEN 0 ELSE Min(G))
  OBVIOUS
<1>10. PICK w : w = [status |-> v.status, exit |-> v.exit, bar |-> v.bar, at |-> n, first |-> f]
  BY Zenon
<1>11. outcomes' = [outcomes EXCEPT ![h] = w] /\ check' = [p EXCEPT !.todo = t \ {h}]
  <2>1. Plan!Min(t) = h /\ Plan!Min(G) = Min(G)
    BY <1>6, PlanMax
  <2> QED BY <1>1, <1>9, <1>10, <2>1 DEF Plan!SaveOutcome
<1>12. f \in 0..LastHour /\ (G # {} => f \in G)
  <2>1. CASE G = {}
    BY <1>5, <1>9, <2>1
  <2>2. CASE G # {}
    <3>1. Min(G) \in G
      BY <1>5, <2>2, PlanEnds
    <3>2. f = Min(G)
      BY <1>9, <2>2
    <3>3. f \in Plan!Hours
      BY <1>5, <3>1, <3>2
    <3> QED BY <1>5, <3>1, <3>2, <3>3 DEF Plan!Hours
  <2> QED BY <2>1, <2>2
<1>13. w \in Plan!Row
  <2>1. v \in [status : Plan!Statuses, exit : {"entry", "stop", "tp1", "tp2", "close"}, bar : -1..LastHour - 1]
    BY <1>5, <1>9, PlanVerdict
  <2>2. v.status \in Plan!Statuses /\ v.exit \in {"entry", "stop", "tp1", "tp2", "close"} /\ v.bar \in -1..LastHour - 1
    BY <2>1
  <2>3. n \in 0..2 * LastHour
    BY <1>5 DEF PlanTimes
  <2> QED BY <1>10, <1>12, <2>2, <2>3 DEF Plan!Row
<1>14. f <= created \div 2 => v = PlanTruth(h, n)
  <2> SUFFICES ASSUME f <= created \div 2 PROVE v = PlanTruth(h, n)
    OBVIOUS
  <2>1. f = 0
    BY <1>12, PlanFacts
  <2>2. \A b \in 0..k - 1 : b \in G
    <3> SUFFICES ASSUME NEW b \in 0..k - 1 PROVE b \in G
      OBVIOUS
    <3>1. Served \in Nat \ {0}
      BY PlanConstants
    <3>2. k - 1 \in G
      BY <1>4, <1>5, <3>1 DEF Plan!LastServed, Plan!Hours
    <3>3. 0 \in G
      BY <1>12, <2>1, <3>2
    <3>4. 0 >= k - Served
      BY <1>4, <3>3 DEF Plan!LastServed
    <3> QED BY <1>4, <1>5, <3>1, <3>4 DEF Plan!LastServed, Plan!Hours
  <2>3. PlanRelevant(h) \subseteq 0..k - 1
    BY <1>4, <1>5, <1>8, PlanClosed
  <2>4. PlanRelevant(h) \subseteq G
    BY <2>2, <2>3
  <2> QED BY <1>5, <1>8, <1>9, <2>4, PlanAll
<1>15. PlanTyped'
  BY <1>2, <1>8, <1>11, <1>13 DEF PlanInv, PlanTyped, PlanBars, PlanHour
<1>16. outcomes'[h] = w /\ \A g \in Horizons : g # h => outcomes'[g] = outcomes[g]
  BY <1>8, <1>11 DEF PlanInv, PlanTyped
<1>17. \A g \in Horizons, m \in Nat : PlanTruth(g, m)' = PlanTruth(g, m)
  BY <1>2 DEF PlanTruth, PlanRelevant, PlanFinal, PlanTouched, Plan!CloseOf, Plan!Final
<1>18. PlanTrue'
  <2> SUFFICES ASSUME NEW g \in Horizons, outcomes'[g] # None
               PROVE  /\ outcomes'[g].at >= created + 2 * g /\ outcomes'[g].at <= halves
                      /\ outcomes'[g].first <= created \div 2
                         => LET u == PlanTruth(g, outcomes[g].at)' IN
                            outcomes'[g].status = u.status /\ outcomes'[g].exit = u.exit /\ outcomes'[g].bar = u.bar
    BY <1>2 DEF PlanTrue
  <2>1. CASE g = h
    <3>1. w.at = n /\ w.first = f /\ w.status = v.status /\ w.exit = v.exit /\ w.bar = v.bar
      BY <1>10
    <3>2. PlanTruth(h, n)' = PlanTruth(h, n)
      BY <1>5, <1>8, <1>17
    <3>3. outcomes'[g].at = n
      BY <1>16, <2>1, <3>1
    <3> QED BY <1>3, <1>8, <1>14, <1>16, <2>1, <3>1, <3>2, <3>3
  <2>2. CASE g # h
    <3>1. outcomes'[g] = outcomes[g]
      BY <1>16, <2>2
    <3>2. PICK m : m = outcomes[g].at
      OBVIOUS
    <3>3. m \in Nat
      <4>1. outcomes[g] \in Plan!Row
        BY <3>1 DEF PlanInv, PlanTyped
      <4> QED BY <3>2, <4>1, PlanConstants DEF Plan!Row
    <3>4. PlanTruth(g, m)' = PlanTruth(g, m) /\ outcomes'[g].at = m
      BY <1>17, <3>1, <3>2, <3>3
    <3> QED BY <3>1, <3>2, <3>4 DEF PlanInv, PlanTrue
  <2> QED BY <2>1, <2>2
<1>19. PlanGoes(check)'
  <2>1. PICK u : u = t \ {h}
    BY Zenon
  <2>2. PICK q : q = [now |-> n, got |-> G, todo |-> u]
    BY Zenon
  <2>3. check' = q
    <3>1. p = [now |-> n, got |-> G, todo |-> t]
      BY <1>1, <1>3, Zenon DEF PlanJob
    <3>2. [p EXCEPT !.todo = u] = q
      BY <2>2, <3>1
    <3> QED BY <1>11, <2>1, <3>2
  <2>4. q \in PlanJob
    BY <1>1, <1>3, <2>1, <2>2, Zenon DEF PlanJob
  <2>5. PlanHour' = PlanHour
    BY <1>2 DEF PlanHour
  <2>6. PlanGoes(q)'
    BY <1>2, <1>3, <2>1, <2>2, <2>4, <2>5 DEF PlanGoes
  <2> QED BY <2>3, <2>6
<1> QED BY <1>15, <1>18, <1>19 DEF PlanInv

LEMMA PlanStep == ASSUME PlanInv, [Plan!Next]_planVars PROVE PlanInv'
<1>1. CASE UNCHANGED planVars
  <2>1. UNCHANGED <<halves, created, candles, check, outcomes>>
    BY <1>1 DEF planVars
  <2>2. PlanTrue'
    <3>1. halves' >= halves /\ halves' \in Nat
      BY <2>1, PlanFacts
    <3> QED BY <2>1, <3>1, PlanKept
  <2> QED BY <2>1, <2>2 DEF PlanInv, PlanTyped, PlanGoes, PlanHour, PlanBars
<1>2. CASE Plan!Next
  BY <1>2, PlanQuiet, PlanSaves, PlanTick DEF Plan!Next
<1> QED BY <1>1, <1>2

-----------------------------------------------------------------------------
(* The paper ledger. *)
LedgerTrade == [run : 1..MaxRuns, sym : Coins, result : Ledger!Results, action : Ledger!Results \cup {"SKIPPED_PAUSED"},
                at : 0..LedgerEnd, risk : {0, 3, 5}]
LedgerRows == 1..Len(trades)
LedgerTyped ==
  /\ Ledger!TypeOK
  /\ trades \in Seq(LedgerTrade)
(* The mode of the account is the one of its losses in a row. *)
LedgerMode == account.mode = "AGGRESSIVE" <=> account.losses < 2
LedgerLoss(n) == {i \in 1..n : Ledger!Taken(i) /\ \A j \in i..n : Ledger!Taken(j) => trades[j].result = "LOSS"}
LedgerBooks ==
  /\ account.losses = Cardinality(LedgerLoss(Len(trades)))
  /\ \A i \in LedgerRows : Ledger!Taken(i) => (trades[i].risk = 5 <=> Cardinality(LedgerLoss(i - 1)) < 2)
LedgerInv == LedgerTyped /\ LedgerMode /\ LedgerBooks /\ Ledger!Lineage

LEMMA LedgerFacts == ASSUME LedgerInv
    PROVE  /\ clock \in Nat /\ Len(trades) \in Nat /\ DOMAIN trades = LedgerRows
           /\ \A i \in LedgerRows : trades[i] \in LedgerTrade
           /\ \A i \in LedgerRows : trades[i].risk \in {0, 3, 5}
           /\ account \in Ledger!Account /\ account.losses \in Nat /\ account.until \in 0..(LedgerEnd + Day)
           /\ LedgerEnd \in Nat /\ Day \in Nat /\ MaxRuns \in Nat /\ MaxCrashes \in Nat
<1>1. clock \in Nat /\ Len(trades) \in Nat /\ DOMAIN trades = LedgerRows
  BY LedgerAssumption DEF LedgerInv, LedgerTyped, Ledger!TypeOK, LedgerRows
<1>2. \A i \in LedgerRows : trades[i] \in LedgerTrade
  BY DEF LedgerInv, LedgerTyped, LedgerRows
<1>3. \A i \in LedgerRows : trades[i].risk \in {0, 3, 5}
  BY <1>2 DEF LedgerTrade
<1>4. account \in Ledger!Account
  BY DEF LedgerInv, LedgerTyped, Ledger!TypeOK
<1>5. account.losses \in Nat /\ account.until \in 0..(LedgerEnd + Day)
  BY <1>4 DEF Ledger!Account
<1> QED BY <1>1, <1>2, <1>3, <1>4, <1>5, LedgerAssumption, StoreAssumption

(* The losses of the first trades are among their rows. *)
LEMMA LedgerCounts == ASSUME NEW n \in Nat
    PROVE  /\ IsFiniteSet(LedgerLoss(n)) /\ Cardinality(LedgerLoss(n)) \in Nat
           /\ IsFiniteSet(LedgerLoss(n) \cup {n + 1}) /\ Cardinality(LedgerLoss(n) \cup {n + 1}) = Cardinality(LedgerLoss(n)) + 1
<1>1. PICK I : I = LedgerLoss(n)
  OBVIOUS
<1>2. I \in SUBSET (1..n)
  BY <1>1 DEF LedgerLoss
<1> QED BY <1>1, <1>2, CountMore

LEMMA LedgerMeans == ASSUME LedgerInv PROVE Ledger!TypeOK /\ Ledger!Lineage /\ Ledger!LedgerAgrees
<1>1. \A n : Ledger!Streak(n) = Cardinality(LedgerLoss(n))
  BY DEF Ledger!Streak, LedgerLoss, Ledger!Cardinality, Cardinality
<1>2. \A i \in LedgerRows : Ledger!Taken(i) => (trades[i].risk = 5) = (Cardinality(LedgerLoss(i - 1)) < 2)
  <2> SUFFICES ASSUME NEW i \in LedgerRows, Ledger!Taken(i)
               PROVE  (trades[i].risk = 5) = (Cardinality(LedgerLoss(i - 1)) < 2)
    OBVIOUS
  <2>1. trades[i].risk = 5 <=> Cardinality(LedgerLoss(i - 1)) < 2
    BY DEF LedgerInv, LedgerBooks
  <2>2. (Cardinality(LedgerLoss(i - 1)) < 2) \in BOOLEAN
    <3>1. i - 1 \in Nat
      BY LedgerFacts DEF LedgerRows
    <3> QED BY <3>1, LedgerCounts
  <2> QED BY <2>1, <2>2, Zenon
<1>3. Ledger!LedgerAgrees
  BY <1>1, <1>2, LedgerFacts DEF LedgerInv, LedgerBooks, Ledger!LedgerAgrees
<1> QED BY <1>3 DEF LedgerInv, LedgerTyped

LEMMA LedgerInit == ASSUME Ledger!Init PROVE LedgerInv
<1> USE LedgerAssumption, StoreAssumption DEF Ledger!Init
<1>1. /\ trades = <<>> /\ LedgerRows = {} /\ booked = {} /\ evals = {}
      /\ account = [mode |-> "AGGRESSIVE", losses |-> 0, until |-> 0]
  BY DEF LedgerRows
<1>2. LedgerTyped
  <2>1. account \in Ledger!Account
    BY <1>1 DEF Ledger!Account
  <2>2. clock \in 0..LedgerEnd /\ taken \in 0..MaxRuns /\ stops \in 0..MaxCrashes
    OBVIOUS
  <2>3. simulating \in BOOLEAN
    BY Zenon
  <2> QED BY <1>1, <2>1, <2>2, <2>3 DEF LedgerTyped, Ledger!TypeOK
<1>3. LedgerBooks
  <2>1. LedgerLoss(Len(trades)) = {}
    BY <1>1 DEF LedgerLoss
  <2>2. Cardinality({}) = 0
    BY FS_EmptySet
  <2>3. account.losses = 0
    BY <1>1
  <2> QED BY <1>1, <2>1, <2>2, <2>3, Zenon DEF LedgerBooks
<1>4. Ledger!Lineage
  BY <1>1 DEF Ledger!Lineage
<1> QED BY <1>1, <1>2, <1>3, <1>4 DEF LedgerInv, LedgerMode

(* A step that books no trade. *)
LEMMA LedgerQuiet ==
    ASSUME LedgerInv, trades' = trades, account' \in Ledger!Account, account'.losses = account.losses,
           account'.mode = "AGGRESSIVE" <=> account.mode = "AGGRESSIVE", Ledger!TypeOK',
           booked \subseteq booked', evals \subseteq evals', \A e \in evals' : \E x \in booked' : x.run = e.run /\ x.sym = e.sym
    PROVE  LedgerInv'
<1>1. LedgerTyped'
  BY DEF LedgerInv, LedgerTyped
<1>2. LedgerMode'
  BY DEF LedgerInv, LedgerMode
<1>3. LedgerBooks'
  BY DEF LedgerInv, LedgerBooks, LedgerLoss, LedgerRows, Ledger!Taken
<1>4. Ledger!Lineage'
  BY DEF LedgerInv, Ledger!Lineage
<1> QED BY <1>1, <1>2, <1>3, <1>4 DEF LedgerInv

LEMMA LedgerQuietSteps ==
    ASSUME LedgerInv, Ledger!SaveSignals \/ Ledger!EvaluateAll \/ Ledger!StartSimulate \/ Ledger!EndSimulate \/ Ledger!Crash \/ Ledger!Tick
    PROVE  LedgerInv'
<1>0. Ledger!TypeOK /\ \A e \in evals : \E x \in booked : x.run = e.run /\ x.sym = e.sym
  BY DEF LedgerInv, LedgerTyped, Ledger!Lineage
<1>1. CASE Ledger!SaveSignals
  <2>1. /\ taken < MaxRuns /\ taken' = taken + 1 /\ UNCHANGED <<clock, evals, trades, account, simulating, stops>>
        /\ \E S \in SUBSET Coins : booked' = booked \cup {[run |-> taken', sym |-> y, at |-> clock] : y \in S}
    BY <1>1, Zenon DEF Ledger!SaveSignals
  <2>2. taken' \in 0..MaxRuns /\ taken' \in 1..MaxRuns
    BY <1>0, <2>1, LedgerFacts DEF Ledger!TypeOK
  <2>3. booked' \subseteq Ledger!Signal /\ booked \subseteq booked'
    BY <1>0, <2>1, <2>2 DEF Ledger!TypeOK, Ledger!Signal
  <2>4. Ledger!TypeOK'
    BY <1>0, <2>1, <2>2, <2>3 DEF Ledger!TypeOK
  <2> QED BY <1>0, <2>1, <2>3, <2>4, LedgerQuiet, LedgerFacts
<1>2. CASE Ledger!EvaluateAll
  <2>1. UNCHANGED <<clock, taken, booked, trades, account, simulating, stops>>
    BY <1>2 DEF Ledger!EvaluateAll
  <2>2. PICK D \in SUBSET booked : \E v \in [D -> Ledger!Results] :
           evals' = evals \cup {[run |-> x.run, sym |-> x.sym, result |-> v[x]] : x \in D}
    BY <1>2 DEF Ledger!EvaluateAll
  <2>3. PICK v \in [D -> Ledger!Results] : evals' = evals \cup {[run |-> x.run, sym |-> x.sym, result |-> v[x]] : x \in D}
    BY <2>2
  <2>4. \A e \in evals' : e \in evals \/ \E x \in D : e = [run |-> x.run, sym |-> x.sym, result |-> v[x]]
    BY <2>3
  <2>5. \A x \in D : x \in booked /\ x.run \in 1..MaxRuns /\ x.sym \in Coins /\ v[x] \in Ledger!Results
    BY <1>0 DEF Ledger!TypeOK, Ledger!Signal
  <2>6. evals' \subseteq [run : 1..MaxRuns, sym : Coins, result : Ledger!Results]
    BY <1>0, <2>4, <2>5 DEF Ledger!TypeOK
  <2>7. \A e \in evals' : \E x \in booked' : x.run = e.run /\ x.sym = e.sym
    <3> SUFFICES ASSUME NEW e \in evals' PROVE \E x \in booked : x.run = e.run /\ x.sym = e.sym
      BY <2>1
    <3>1. CASE e \in evals
      BY <1>0, <3>1
    <3>2. ASSUME NEW x \in D, e = [run |-> x.run, sym |-> x.sym, result |-> v[x]] PROVE \E y \in booked : y.run = e.run /\ y.sym = e.sym
      <4>1. x \in booked /\ x.run = e.run /\ x.sym = e.sym
        BY <2>5, <3>2
      <4> QED BY <4>1
    <3> QED BY <2>4, <3>1, <3>2
  <2>8. Ledger!TypeOK'
    BY <1>0, <2>1, <2>6 DEF Ledger!TypeOK
  <2> QED BY <2>1, <2>3, <2>7, <2>8, LedgerQuiet, LedgerFacts
<1>3. CASE Ledger!StartSimulate
  <2>1. PICK a, b : a = account /\ b = account'
    OBVIOUS
  <2>2. /\ b = IF a.mode = "PAUSED" /\ a.until <= clock THEN [a EXCEPT !.mode = "NORMAL", !.until = 0] ELSE a
        /\ simulating' = TRUE /\ UNCHANGED <<clock, taken, booked, evals, trades, stops>>
    BY <1>3, <2>1 DEF Ledger!StartSimulate
  <2>3. a \in Ledger!Account
    BY <2>1, LedgerFacts
  <2>4. [a EXCEPT !.mode = "NORMAL", !.until = 0] = [mode |-> "NORMAL", losses |-> a.losses, until |-> 0]
    <3>1. PICK m, l, u : m = a.mode /\ l = a.losses /\ u = a.until
      OBVIOUS
    <3>2. a = [mode |-> m, losses |-> l, until |-> u]
      BY <2>3, <3>1 DEF Ledger!Account
    <3>3. PICK c : c = [a EXCEPT !.mode = "NORMAL"]
      BY Zenon
    <3>4. c = [mode |-> "NORMAL", losses |-> l, until |-> u]
      BY <3>2, <3>3
    <3>5. [c EXCEPT !.until = 0] = [mode |-> "NORMAL", losses |-> l, until |-> 0]
      BY <3>4
    <3>6. [a EXCEPT !.mode = "NORMAL", !.until = 0] = [c EXCEPT !.until = 0]
      BY <3>3, Zenon
    <3> QED BY <3>1, <3>5, <3>6
  <2>5. b = a \/ (a.mode = "PAUSED" /\ b = [mode |-> "NORMAL", losses |-> a.losses, until |-> 0])
    BY <2>2, <2>4
  <2>6. b \in Ledger!Account /\ b.losses = a.losses /\ (b.mode = "AGGRESSIVE" <=> a.mode = "AGGRESSIVE")
    BY <2>3, <2>5, LedgerFacts DEF Ledger!Account
  <2>7. Ledger!TypeOK'
    BY <1>0, <2>1, <2>2, <2>6 DEF Ledger!TypeOK
  <2> QED BY <1>0, <2>1, <2>2, <2>6, <2>7, LedgerQuiet
<1>4. CASE Ledger!EndSimulate \/ Ledger!Crash \/ Ledger!Tick
  <2>1. UNCHANGED <<taken, booked, evals, trades, account>>
    BY <1>4 DEF Ledger!EndSimulate, Ledger!Crash, Ledger!Tick
  <2>2. clock' \in 0..LedgerEnd /\ stops' \in 0..MaxCrashes /\ simulating' \in BOOLEAN
    <3>1. clock \in 0..LedgerEnd /\ stops \in 0..MaxCrashes /\ simulating \in BOOLEAN /\ LedgerEnd \in Nat /\ MaxCrashes \in Nat
      BY <1>0, LedgerFacts DEF Ledger!TypeOK
    <3>2. CASE Ledger!EndSimulate
      BY <3>1, <3>2, Zenon DEF Ledger!EndSimulate
    <3>3. CASE Ledger!Crash
      <4>1. clock' \in 0..LedgerEnd /\ stops' \in 0..MaxCrashes
        BY <3>1, <3>3 DEF Ledger!Crash
      <4>2. simulating' \in BOOLEAN
        BY <3>3, Zenon DEF Ledger!Crash
      <4> QED BY <4>1, <4>2
    <3>4. CASE Ledger!Tick
      BY <3>1, <3>4 DEF Ledger!Tick
    <3> QED BY <1>4, <3>2, <3>3, <3>4
  <2>3. Ledger!TypeOK'
    BY <1>0, <2>1, <2>2 DEF Ledger!TypeOK
  <2> QED BY <1>0, <2>1, <2>3, LedgerQuiet, LedgerFacts
<1> QED BY <1>1, <1>2, <1>3, <1>4

(* A booking adds to the losses in a row, ends them, or leaves them. *)
LEMMA LedgerAppends ==
    ASSUME NEW n \in Nat, n = Len(trades), trades \in Seq(LedgerTrade), NEW w \in LedgerTrade, trades' = Append(trades, w)
    PROVE  /\ \A k \in 0..n : LedgerLoss(k)' = LedgerLoss(k)
           /\ w.action = "SKIPPED_PAUSED" => LedgerLoss(n + 1)' = LedgerLoss(n)
           /\ w.action # "SKIPPED_PAUSED" /\ w.result = "LOSS" => LedgerLoss(n + 1)' = LedgerLoss(n) \cup {n + 1}
           /\ w.action # "SKIPPED_PAUSED" /\ w.result # "LOSS" => LedgerLoss(n + 1)' = {}
<1>1. trades'[n + 1] = w /\ \A i \in 1..n : trades'[i] = trades[i]
  OBVIOUS
<1>2. \A k \in 0..n : LedgerLoss(k)' = LedgerLoss(k)
  <2> SUFFICES ASSUME NEW k \in 0..n PROVE LedgerLoss(k)' = LedgerLoss(k)
    OBVIOUS
  <2>1. \A i \in 1..k : Ledger!Taken(i)' <=> Ledger!Taken(i)
    BY <1>1 DEF Ledger!Taken
  <2>2. \A i \in 1..k : \A j \in i..k : j \in 1..k /\ trades'[j] = trades[j]
    BY <1>1
  <2>3. \A i \in 1..k : (\A j \in i..k : Ledger!Taken(j)' => trades'[j].result = "LOSS") <=> (\A j \in i..k : Ledger!Taken(j) => trades[j].result = "LOSS")
    BY <2>1, <2>2
  <2> QED BY <2>1, <2>3 DEF LedgerLoss
<1>3. \A i \in 1..n : Ledger!Taken(i)' <=> Ledger!Taken(i)
  BY <1>1 DEF Ledger!Taken
<1>4. Ledger!Taken(n + 1)' <=> w.action # "SKIPPED_PAUSED"
  BY <1>1 DEF Ledger!Taken
<1>5. \A i \in 1..n : \A j \in i..(n + 1) : (j \in i..n /\ j \in 1..n) \/ j = n + 1
  OBVIOUS
<1>6. \A i \in 1..n : (\A j \in i..(n + 1) : Ledger!Taken(j)' => trades'[j].result = "LOSS")
                       <=> /\ \A j \in i..n : Ledger!Taken(j) => trades[j].result = "LOSS"
                           /\ Ledger!Taken(n + 1)' => w.result = "LOSS"
  <2> SUFFICES ASSUME NEW i \in 1..n
               PROVE  (\A j \in i..(n + 1) : Ledger!Taken(j)' => trades'[j].result = "LOSS")
                       <=> /\ \A j \in i..n : Ledger!Taken(j) => trades[j].result = "LOSS"
                           /\ Ledger!Taken(n + 1)' => w.result = "LOSS"
    BY Zenon
  <2>1. n + 1 \in i..(n + 1) /\ \A j \in i..n : j \in i..(n + 1) /\ j \in 1..n
    OBVIOUS
  <2> QED BY <1>1, <1>3, <1>5, <2>1
<1>7. \A i \in 1..(n + 1) : i \in 1..n \/ i = n + 1
  OBVIOUS
<1>8. LedgerLoss(n + 1)' = {i \in 1..(n + 1) : Ledger!Taken(i)' /\ \A j \in i..(n + 1) : Ledger!Taken(j)' => trades'[j].result = "LOSS"}
  BY DEF LedgerLoss
<1>9. \A j \in (n + 1)..(n + 1) : j = n + 1
  OBVIOUS
<1>10. 1..n \subseteq 1..(n + 1) /\ n + 1 \in 1..(n + 1) /\ n + 1 \notin 1..n
  OBVIOUS
<1>11. CASE w.action = "SKIPPED_PAUSED"
  BY <1>2, <1>3, <1>4, <1>6, <1>7, <1>8, <1>10, <1>11, Zenon DEF LedgerLoss
<1>12. CASE w.action # "SKIPPED_PAUSED" /\ w.result = "LOSS"
  BY <1>1, <1>2, <1>3, <1>4, <1>6, <1>7, <1>8, <1>9, <1>10, <1>12 DEF LedgerLoss
<1>13. CASE w.action # "SKIPPED_PAUSED" /\ w.result # "LOSS"
  <2>1. n + 1 \in (n + 1)..(n + 1)
    OBVIOUS
  <2>2. \A i \in 1..(n + 1) : ~(\A j \in i..(n + 1) : Ledger!Taken(j)' => trades'[j].result = "LOSS")
    BY <1>1, <1>4, <1>6, <1>7, <1>13, <2>1
  <2> QED BY <1>2, <1>8, <1>13, <2>2
<1> QED BY <1>11, <1>12, <1>13

(* A trade and its account are booked together. *)
LEMMA LedgerBook ==
    ASSUME LedgerInv, NEW e \in evals, ~Ledger!Traded(e), NEW w \in LedgerTrade, trades' = Append(trades, w),
           w.run = e.run, w.sym = e.sym, w.result = e.result,
           account' \in Ledger!Account,
           account'.mode = "AGGRESSIVE" <=> account'.losses < 2,
           w.action = "SKIPPED_PAUSED" => account'.losses = account.losses,
           w.action # "SKIPPED_PAUSED" => account'.losses = IF w.result = "LOSS" THEN account.losses + 1 ELSE 0,
           w.action # "SKIPPED_PAUSED" => (w.risk = 5 <=> account.losses < 2),
           UNCHANGED <<clock, taken, booked, evals, simulating, stops>>
    PROVE  LedgerInv'
<1>1. PICK n : n = Len(trades)
  OBVIOUS
<1>2. n \in Nat /\ trades \in Seq(LedgerTrade) /\ LedgerRows = 1..n /\ DOMAIN trades = LedgerRows /\ account.losses \in Nat
  BY <1>1, LedgerFacts DEF LedgerInv, LedgerTyped, LedgerRows
<1>3. /\ trades' \in Seq(LedgerTrade) /\ Len(trades') = n + 1 /\ trades'[n + 1] = w /\ \A i \in 1..n : trades'[i] = trades[i]
      /\ DOMAIN trades' = 1..(n + 1) /\ LedgerRows' = 1..(n + 1)
  BY <1>1, <1>2 DEF LedgerRows
<1>4. LedgerTyped'
  BY <1>3 DEF LedgerInv, LedgerTyped, Ledger!TypeOK
<1>5. LedgerMode'
  BY DEF LedgerMode
<1>6. /\ \A k \in 0..n : LedgerLoss(k)' = LedgerLoss(k)
      /\ w.action = "SKIPPED_PAUSED" => LedgerLoss(n + 1)' = LedgerLoss(n)
      /\ w.action # "SKIPPED_PAUSED" /\ w.result = "LOSS" => LedgerLoss(n + 1)' = LedgerLoss(n) \cup {n + 1}
      /\ w.action # "SKIPPED_PAUSED" /\ w.result # "LOSS" => LedgerLoss(n + 1)' = {}
  BY <1>1, <1>2, LedgerAppends
<1>7. account.losses = Cardinality(LedgerLoss(n))
  BY <1>1 DEF LedgerInv, LedgerBooks
<1>8. account'.losses = Cardinality(LedgerLoss(n + 1)')
  <2>1. Cardinality({}) = 0 /\ Cardinality(LedgerLoss(n) \cup {n + 1}) = Cardinality(LedgerLoss(n)) + 1
    BY <1>2, LedgerCounts, FS_EmptySet, Zenon
  <2> QED BY <1>6, <1>7, <2>1, Zenon
<1>9. LedgerBooks'
  <2>1. ASSUME NEW i \in 1..(n + 1), Ledger!Taken(i)'
        PROVE  trades'[i].risk = 5 <=> Cardinality(LedgerLoss(i - 1)') < 2
    <3>1. CASE i = n + 1
      <4>1. trades'[i] = w /\ w.action # "SKIPPED_PAUSED" /\ i - 1 = n /\ n \in 0..n
        BY <1>2, <1>3, <2>1, <3>1 DEF Ledger!Taken
      <4> QED BY <1>6, <1>7, <4>1
    <3>2. CASE i \in 1..n
      <4>1. trades'[i] = trades[i] /\ i - 1 \in 0..n
        BY <1>2, <1>3, <3>2
      <4>2. Ledger!Taken(i)
        BY <2>1, <4>1 DEF Ledger!Taken
      <4>3. trades[i].risk = 5 <=> Cardinality(LedgerLoss(i - 1)) < 2
        BY <1>2, <3>2, <4>2 DEF LedgerInv, LedgerBooks
      <4> QED BY <1>6, <4>1, <4>3
    <3> QED BY <1>2, <3>1, <3>2
  <2> QED BY <1>3, <1>8, <2>1 DEF LedgerBooks
<1>10. Ledger!Lineage'
  <2>1. \A i \in 1..n : ~(trades[i].run = e.run /\ trades[i].sym = e.sym)
    BY <1>2, Zenon DEF Ledger!Traded
  <2>2. \A i \in 1..n : \E f \in evals : f.run = trades[i].run /\ f.sym = trades[i].sym /\ f.result = trades[i].result
    BY <1>2, Zenon DEF LedgerInv, Ledger!Lineage
  <2>3. \A i, j \in 1..n : i # j => <<trades[i].run, trades[i].sym>> # <<trades[j].run, trades[j].sym>>
    BY <1>2 DEF LedgerInv, Ledger!Lineage
  <2>4. \A i \in 1..(n + 1) : i \in 1..n \/ i = n + 1
    BY <1>2
  <2>5. \A i \in 1..(n + 1) : \E f \in evals : f.run = trades'[i].run /\ f.sym = trades'[i].sym /\ f.result = trades'[i].result
    BY <1>3, <2>2, <2>4
  <2>6. ASSUME NEW i \in 1..(n + 1), NEW j \in 1..(n + 1), i # j
        PROVE  <<trades'[i].run, trades'[i].sym>> # <<trades'[j].run, trades'[j].sym>>
    <3>1. CASE i \in 1..n /\ j \in 1..n
      BY <1>3, <2>3, <2>6, <3>1
    <3>2. CASE i = n + 1 /\ j \in 1..n
      BY <1>3, <2>1, <3>2
    <3>3. CASE j = n + 1 /\ i \in 1..n
      BY <1>3, <2>1, <3>3
    <3> QED BY <2>4, <2>6, <3>1, <3>2, <3>3, Zenon
  <2>7. \A f \in evals : \E x \in booked : x.run = f.run /\ x.sym = f.sym
    BY DEF LedgerInv, Ledger!Lineage
  <2> QED BY <1>3, <2>5, <2>6, <2>7 DEF Ledger!Lineage
<1> QED BY <1>4, <1>5, <1>9, <1>10 DEF LedgerInv

LEMMA LedgerSimulates == ASSUME LedgerInv, Ledger!SimulateOne PROVE LedgerInv'
<1>1. PICK e \in evals : /\ ~Ledger!Traded(e)
                         /\ IF Ledger!Skipped(e)
                            THEN trades' = Append(trades, Ledger!Trade(e, "SKIPPED_PAUSED")) /\ UNCHANGED account
                            ELSE trades' = Append(trades, Ledger!Trade(e, e.result)) /\ account' = Ledger!Booked(e.result, Ledger!TimeOf(e))
  BY DEF Ledger!SimulateOne, Ledger!Pending
<1>2. UNCHANGED <<clock, taken, booked, evals, simulating, stops>>
  BY DEF Ledger!SimulateOne
<1>3. PICK t : t = Ledger!TimeOf(e)
  OBVIOUS
<1>4. t \in 0..LedgerEnd /\ t \in Nat
  <2>1. \E x \in booked : x.run = e.run /\ x.sym = e.sym
    BY DEF LedgerInv, Ledger!Lineage
  <2>2. PICK x : x = (CHOOSE y \in booked : y.run = e.run /\ y.sym = e.sym)
    OBVIOUS
  <2>3. x \in booked
    BY <2>1, <2>2
  <2>4. x \in Ledger!Signal
    BY <2>3 DEF LedgerInv, LedgerTyped, Ledger!TypeOK
  <2>5. t = x.at
    BY <1>3, <2>2 DEF Ledger!TimeOf
  <2> QED BY <2>4, <2>5, LedgerFacts DEF Ledger!Signal
<1>5. e.run \in 1..MaxRuns /\ e.sym \in Coins /\ e.result \in Ledger!Results
  BY DEF LedgerInv, LedgerTyped, Ledger!TypeOK
<1>6. PICK a : a = account
  OBVIOUS
<1>7. /\ a \in Ledger!Account /\ a.losses \in Nat /\ a.mode \in {"AGGRESSIVE", "NORMAL", "PAUSED"}
      /\ (a.mode = "AGGRESSIVE" <=> a.losses < 2) /\ LedgerEnd \in Nat /\ Day \in Nat
  BY <1>6, LedgerFacts DEF LedgerInv, LedgerMode, Ledger!Account
<1>8. CASE Ledger!Skipped(e)
  <2>1. PICK w : w = Ledger!Trade(e, "SKIPPED_PAUSED")
    OBVIOUS
  <2>2. w = [run |-> e.run, sym |-> e.sym, result |-> e.result, action |-> "SKIPPED_PAUSED", at |-> t, risk |-> 0]
    BY <1>3, <2>1 DEF Ledger!Trade
  <2>3. w \in LedgerTrade
    BY <1>4, <1>5, <2>2 DEF LedgerTrade
  <2>4. trades' = Append(trades, w) /\ account' = account
    BY <1>1, <1>8, <2>1
  <2> QED BY <1>1, <1>2, <1>6, <1>7, <2>2, <2>3, <2>4, LedgerBook
<1>9. CASE ~Ledger!Skipped(e)
  <2>1. PICK w, r : w = Ledger!Trade(e, e.result) /\ r = e.result
    OBVIOUS
  <2>2. r # "SKIPPED_PAUSED"
    BY <1>5, <2>1 DEF Ledger!Results
  <2>3. w = [run |-> e.run, sym |-> e.sym, result |-> r, action |-> r, at |-> t, risk |-> IF a.mode = "AGGRESSIVE" THEN 5 ELSE 3]
    BY <1>3, <1>6, <2>1, <2>2 DEF Ledger!Trade
  <2>4. w \in LedgerTrade
    BY <1>4, <1>5, <2>1, <2>3 DEF LedgerTrade
  <2>5. PICK b : b = account'
    OBVIOUS
  <2>6. trades' = Append(trades, w) /\ b = Ledger!Booked(r, t)
    BY <1>1, <1>3, <1>9, <2>1, <2>5
  <2>7. b = IF r # "LOSS" THEN [mode |-> "AGGRESSIVE", losses |-> 0, until |-> 0]
            ELSE IF a.losses + 1 >= 3 THEN [mode |-> "PAUSED", losses |-> a.losses + 1, until |-> t + Day]
            ELSE [mode |-> IF a.losses + 1 >= 2 THEN "NORMAL" ELSE IF a.mode = "PAUSED" THEN "NORMAL" ELSE a.mode,
                  losses |-> a.losses + 1, until |-> 0]
    BY <1>6, <2>6 DEF Ledger!Booked
  <2>8. 0 \in 0..(LedgerEnd + Day) /\ t + Day \in 0..(LedgerEnd + Day) /\ a.losses + 1 \in Nat
    BY <1>4, <1>7
  <2>9. /\ b \in Ledger!Account /\ (b.mode = "AGGRESSIVE" <=> b.losses < 2)
        /\ b.losses = IF r = "LOSS" THEN a.losses + 1 ELSE 0
    <3>1. CASE r # "LOSS"
      BY <2>7, <2>8, <3>1 DEF Ledger!Account
    <3>2. CASE r = "LOSS" /\ a.losses + 1 >= 3
      BY <1>7, <2>7, <2>8, <3>2 DEF Ledger!Account
    <3>3. CASE r = "LOSS" /\ ~(a.losses + 1 >= 3)
      BY <1>7, <2>7, <2>8, <3>3 DEF Ledger!Account
    <3> QED BY <3>1, <3>2, <3>3
  <2>10. w.risk = 5 <=> a.losses < 2
    BY <1>7, <2>3
  <2>11. w.run = e.run /\ w.sym = e.sym /\ w.result = e.result /\ w.action # "SKIPPED_PAUSED" /\ w.result = r
    BY <2>1, <2>2, <2>3
  <2> QED BY <1>1, <1>2, <1>6, <2>4, <2>5, <2>6, <2>9, <2>10, <2>11, LedgerBook, Zenon
<1> QED BY <1>8, <1>9

LEMMA LedgerStep == ASSUME LedgerInv, [Ledger!Next]_ledgerVars PROVE LedgerInv'
<1>1. CASE UNCHANGED ledgerVars
  <2>1. UNCHANGED <<clock, taken, booked, evals, trades, account, simulating, stops>>
    BY <1>1 DEF ledgerVars
  <2>2. Ledger!TypeOK' /\ \A e \in evals' : \E x \in booked' : x.run = e.run /\ x.sym = e.sym
    BY <2>1 DEF LedgerInv, LedgerTyped, Ledger!TypeOK, Ledger!Lineage
  <2> QED BY <2>1, <2>2, LedgerQuiet, LedgerFacts
<1>2. CASE Ledger!Next
  BY <1>2, LedgerQuietSteps, LedgerSimulates DEF Ledger!Next
<1> QED BY <1>1, <1>2

-----------------------------------------------------------------------------
(* The historical data. *)
PastRun == [base : BOOLEAN, end : Nat, status : {"RUNNING", "SUCCEEDED", "PARTIAL", "FAILED"}, final : BOOLEAN]
PastDay == [day : Nat, status : {"RUNNING", "SUCCEEDED"}, final : BOOLEAN]
PastSteps == {"none", "klines", "capital", "days", "universe", "finalize", "final"}
PastJob == [cmd : {"none", "incremental", "collect"}, step : PastSteps, from : Nat, to : Nat, cursor : Nat,
            newest : Int, run : Nat, left : SUBSET Nat, failed : BOOLEAN]
PastIds == 1..Len(ingest)
PastDays == 1..Len(universes)
PastTyped ==
  /\ closed \in 0..PastEnd /\ have \subseteq 0..(closed - 1) /\ requests \in 0..MaxFaults /\ ends \in 0..MaxCrashes
  /\ ingest \in Seq(PastRun) /\ \A i \in PastIds : ingest[i].end \in 1..closed
  /\ universes \in Seq(PastDay)
(* How far command p got: the bars behind its cursor are stored, an incremental one's begin *)
(* two after the newest one, and a collection works on an open run.                        *)
PastGoes(p) ==
  /\ p \in PastJob
  /\ p.to <= closed /\ p.newest \in -1..(closed - 1) /\ p.run <= Len(ingest) /\ p.left \subseteq 0..closed
  /\ p.cmd = "none" => p = Past!Idle
  /\ p.cmd = "incremental" => p.step = "klines" /\ (p.newest >= 0 => p.newest \in have /\ p.from = p.newest + 2)
  /\ p.cmd = "collect" => p.step # "none" /\ p.run \in PastIds /\ ~ingest[p.run].final
  /\ p.cmd # "none" /\ p.step = "klines" => p.from..(p.cursor - 1) \subseteq have
  /\ p.cmd = "collect" /\ p.step # "klines" /\ ~p.failed => p.from..(p.to - 1) \subseteq have
  /\ p.step \in {"universe", "finalize"} => Len(universes) >= 1
(* One run at most has the plain id of a span. *)
PastBases == \A i, j \in PastIds : ingest[i].base /\ ingest[j].base /\ ingest[i].end = ingest[j].end => i = j
PastOpen == {i \in PastIds : ~ingest[i].final}
PastWorking(p) == IF p.cmd = "collect" THEN 1 ELSE 0
PastCounted(p) == Cardinality(PastOpen) <= ends + PastWorking(p)
(* The first run of a day that has a further one never succeeded. *)
PastFirst(i) == \A k \in 1..(i - 1) : universes[k].day # universes[i].day
PastOnce == \A i, j \in PastDays : i < j /\ universes[i].day = universes[j].day /\ PastFirst(i) => universes[i].status = "RUNNING"
PastWhole == \A i \in PastDays : Past!BarsOf(universes[i].day) \subseteq have
PastInv == PastTyped /\ PastGoes(command) /\ PastBases /\ PastCounted(command) /\ PastOnce /\ PastWhole

LEMMA PastConstants ==
  /\ Page \in Nat \ {0} /\ Newest \in Nat /\ Span \in Nat /\ DayBars \in Nat \ {0} /\ PastEnd \in Nat
  /\ MaxRuns \in Nat /\ MaxCrashes \in Nat /\ MaxFaults \in Nat
  BY PastAssumption, StoreAssumption, V2Assumption

LEMMA PastFacts == ASSUME PastInv
    PROVE  /\ closed \in Nat /\ Len(ingest) \in Nat /\ Len(universes) \in Nat /\ ends \in Nat
           /\ DOMAIN ingest = PastIds /\ DOMAIN universes = PastDays
           /\ \A i \in PastIds : ingest[i] \in PastRun /\ ingest[i].end \in Nat /\ ingest[i].base \in BOOLEAN /\ ingest[i].final \in BOOLEAN
           /\ \A i \in PastDays : universes[i] \in PastDay /\ universes[i].day \in Nat /\ universes[i].status \in {"RUNNING", "SUCCEEDED"}
           /\ have \subseteq 0..(closed - 1) /\ have \subseteq Nat /\ command \in PastJob
<1>1. /\ closed \in Nat /\ Len(ingest) \in Nat /\ Len(universes) \in Nat /\ ends \in Nat
      /\ DOMAIN ingest = PastIds /\ DOMAIN universes = PastDays
  BY PastConstants DEF PastInv, PastTyped, PastIds, PastDays
<1>2. \A i \in PastIds : ingest[i] \in PastRun
  BY DEF PastInv, PastTyped, PastIds
<1>3. \A i \in PastDays : universes[i] \in PastDay
  BY DEF PastInv, PastTyped, PastDays
<1>4. \A i \in PastIds : ingest[i].end \in Nat /\ ingest[i].base \in BOOLEAN /\ ingest[i].final \in BOOLEAN
  BY <1>2 DEF PastRun
<1>5. \A i \in PastDays : universes[i].day \in Nat /\ universes[i].status \in {"RUNNING", "SUCCEEDED"}
  BY <1>3 DEF PastDay
<1>6. have \subseteq 0..(closed - 1) /\ command \in PastJob
  BY DEF PastInv, PastTyped, PastGoes
<1>7. have \subseteq Nat
  BY <1>1, <1>6
<1> QED BY <1>1, <1>2, <1>3, <1>4, <1>5, <1>6, <1>7

LEMMA PastMax == \A S : Past!Max(S) = Max(S) /\ Past!Min(S) = Min(S) /\ Past!Cardinality(S) = Cardinality(S)
  BY DEF Past!Max, Max, Past!Min, Min, Past!Cardinality, Cardinality

(* The bars stored and the runs are finite sets. *)
LEMMA PastEnds == ASSUME NEW n \in Nat, NEW S \in SUBSET (0..n), S # {}
    PROVE  /\ Max(S) \in S /\ (\A b \in S : b <= Max(S)) /\ Min(S) \in S /\ \A b \in S : Min(S) <= b
<1>1. IsFiniteSet(0..n)
  BY FS_Interval
<1>2. IsFiniteSet(S)
  BY <1>1, FS_Subset, Zenon
<1>3. S \in SUBSET Int
  OBVIOUS
<1>4. Max(S) \in S /\ \A b \in S : Max(S) >= b
  BY <1>2, <1>3, MaxExists
<1>5. Min(S) \in S /\ \A b \in S : Min(S) <= b
  BY <1>2, <1>3, MinExists
<1> QED BY <1>3, <1>4, <1>5

LEMMA PastCounts == ASSUME PastInv
    PROVE  IsFiniteSet(PastOpen) /\ Cardinality(PastOpen) \in Nat
<1>1. PICK n, S : n = Len(ingest) /\ S = PastOpen
  BY Zenon
<1>2. n \in Nat /\ S \in SUBSET (1..n)
  BY <1>1, PastFacts DEF PastOpen, PastIds
<1>3. IsFiniteSet(S) /\ Cardinality(S) \in Nat
  BY <1>2, CountMore, Zenon
<1> QED BY <1>1, <1>3

(* When no page is left the cursor is past the end. *)
LEMMA PastPaged == ASSUME PastInv, Past!NextPage = {} PROVE command.cursor >= command.to
<1>1. command.cursor \in Nat /\ command.to \in Nat
  BY PastFacts DEF PastJob
<1>2. ASSUME command.cursor < command.to PROVE command.cursor \in Past!NextPage
  BY <1>1, <1>2, PastConstants DEF Past!NextPage
<1> QED BY <1>1, <1>2

LEMMA PastMeans == ASSUME PastInv
    PROVE  /\ Past!TypeOK /\ Past!PassComplete /\ Past!LosesOneBar /\ Past!DaySavedOnce /\ Past!DaysAreWhole /\ Past!RunsAreClosed
<1>1. PICK p : p = command
  OBVIOUS
<1>2. p \in PastJob /\ PastGoes(p)
  BY <1>1, PastFacts DEF PastInv
<1>3. /\ p.cmd \in {"none", "incremental", "collect"} /\ p.step \in PastSteps /\ p.from \in Nat /\ p.to \in Nat /\ p.cursor \in Nat
      /\ p.newest \in Int /\ p.run \in Nat /\ p.failed \in BOOLEAN
  BY <1>2 DEF PastJob
<1>4. Past!TypeOK
  <2>1. /\ closed \in 0..PastEnd /\ have \subseteq Past!Closed /\ requests \in 0..MaxFaults /\ ends \in 0..MaxCrashes
    BY DEF PastInv, PastTyped, Past!Closed
  <2>2. \A i \in DOMAIN ingest : ingest[i] \in [base : BOOLEAN, end : 1..closed, final : BOOLEAN,
                                                status : {"RUNNING", "SUCCEEDED", "PARTIAL", "FAILED"}]
    <3> SUFFICES ASSUME NEW i \in PastIds
                 PROVE  ingest[i] \in [base : BOOLEAN, end : 1..closed, final : BOOLEAN,
                                       status : {"RUNNING", "SUCCEEDED", "PARTIAL", "FAILED"}]
      BY PastFacts
    <3>1. ingest[i] \in PastRun /\ ingest[i].end \in 1..closed
      BY PastFacts DEF PastInv, PastTyped
    <3> QED BY <3>1 DEF PastRun
  <2>3. \A i \in DOMAIN universes : universes[i] \in [day : Nat, status : {"RUNNING", "SUCCEEDED"}, final : BOOLEAN]
    BY PastFacts DEF PastDay
  <2>4. p \in [cmd : {"none", "incremental", "collect"},
               step : {"none", "klines", "capital", "days", "universe", "finalize", "final"},
               from : Nat, to : 0..closed, cursor : Nat, newest : -1..(closed - 1),
               run : 0..Len(ingest), left : SUBSET (0..closed), failed : BOOLEAN]
    <3>1. p.to \in 0..closed /\ p.newest \in -1..(closed - 1) /\ p.run \in 0..Len(ingest) /\ p.left \subseteq 0..closed
      BY <1>2, <1>3, PastFacts DEF PastGoes
    <3> QED BY <1>2, <3>1 DEF PastJob, PastSteps
  <2> QED BY <1>1, <2>1, <2>2, <2>3, <2>4 DEF Past!TypeOK
<1>5. Past!PassComplete
  <2>1. CASE p.step = "klines" /\ Past!NextPage = {}
    <3>1. p.cmd # "none" /\ p.from..(p.cursor - 1) \subseteq have
      BY <1>2, <2>1 DEF PastGoes, Past!Idle
    <3>2. p.cursor >= p.to
      BY <1>1, <2>1, PastPaged
    <3> QED BY <1>1, <1>3, <3>1, <3>2 DEF Past!PassComplete
  <2>2. CASE p.cmd = "collect" /\ p.step # "klines" /\ ~p.failed
    BY <1>1, <1>2, <2>2 DEF PastGoes, Past!PassComplete
  <2> QED BY <1>1, <2>1, <2>2 DEF Past!PassComplete
<1>6. Past!LosesOneBar
  <2> SUFFICES ASSUME p.cmd = "incremental", Past!NextPage = {}, p.newest >= 0
               PROVE  Cardinality((p.newest..(p.to - 1)) \ have) <= 1
    BY <1>1, PastMax DEF Past!LosesOneBar
  <2>1. p.newest \in have /\ p.from = p.newest + 2 /\ p.from..(p.cursor - 1) \subseteq have
    BY <1>2 DEF PastGoes
  <2>2. p.cursor >= p.to
    BY <1>1, PastPaged
  <2>3. \A b \in (p.newest..(p.to - 1)) \ have : b = p.newest + 1
    BY <1>3, <2>1, <2>2
  <2>4. PICK S : S = (p.newest..(p.to - 1)) \ have
    BY Zenon
  <2>5. \A x, y \in S : x = y
    BY <2>3, <2>4
  <2> QED BY <2>4, <2>5, OneAtMost
<1>7. Past!DaySavedOnce
  <2> SUFFICES ASSUME NEW i \in PastDays, NEW j \in PastDays, i < j, universes[i].day = universes[j].day
               PROVE  universes[Past!Min(Past!RunsOf(universes[i].day))].status = "RUNNING"
    BY PastFacts DEF Past!DaySavedOnce
  <2>1. PICK d, S, n : d = universes[i].day /\ S = Past!RunsOf(d) /\ n = Len(universes)
    BY Zenon
  <2>2. n \in Nat /\ S \in SUBSET (0..n) /\ i \in S /\ S = {k \in PastDays : universes[k].day = d}
    BY <2>1, PastFacts DEF Past!RunsOf, PastDays
  <2>3. PICK m : m = Min(S)
    OBVIOUS
  <2>4. m \in S /\ \A k \in S : m <= k
    BY <2>2, <2>3, PastEnds, Zenon
  <2>5. m \in PastDays /\ universes[m].day = d /\ m <= i
    BY <2>2, <2>4
  <2>6. m < j
    BY <2>2, <2>5 DEF PastDays
  <2>7. PastFirst(m)
    <3> SUFFICES ASSUME NEW k \in 1..(m - 1), universes[k].day = d PROVE FALSE
      BY <2>5 DEF PastFirst
    <3>1. k \in PastDays /\ k < m
      BY <2>1, <2>2, <2>5 DEF PastDays
    <3>2. k \in S
      BY <2>2, <3>1
    <3> QED BY <2>4, <2>5, <3>1, <3>2 DEF PastDays
  <2>8. universes[m].status = "RUNNING"
    BY <2>1, <2>5, <2>6, <2>7 DEF PastInv, PastOnce
  <2>9. Past!Min(S) = m
    BY <2>3, PastMax
  <2> QED BY <2>1, <2>8, <2>9
<1>8. Past!DaysAreWhole
  BY PastFacts DEF PastInv, PastWhole, Past!DaysAreWhole
<1>9. Past!RunsAreClosed
  <2>1. {i \in DOMAIN ingest : ~ingest[i].final} = PastOpen
    BY PastFacts DEF PastOpen
  <2> QED BY <2>1, PastMax DEF PastInv, PastCounted, PastWorking, Past!RunsAreClosed
<1> QED BY <1>4, <1>5, <1>6, <1>7, <1>8, <1>9

LEMMA PastInit == ASSUME Past!Init PROVE PastInv
<1> USE PastConstants DEF Past!Init
<1>1. /\ closed = 0 /\ have = {} /\ ingest = <<>> /\ universes = <<>> /\ command = Past!Idle /\ requests = 0 /\ ends = 0
      /\ PastIds = {} /\ PastDays = {} /\ PastOpen = {}
  BY DEF PastIds, PastDays, PastOpen
<1>2. PastTyped
  BY <1>1 DEF PastTyped
<1>3. PastGoes(command)
  <2>1. Past!Idle \in PastJob
    BY DEF Past!Idle, PastJob, PastSteps
  <2> QED BY <1>1, <2>1 DEF PastGoes, Past!Idle
<1>4. PastCounted(command)
  <2>1. Cardinality({}) = 0 /\ PastWorking(command) = 0
    BY <1>1, FS_EmptySet DEF PastWorking, Past!Idle
  <2> QED BY <1>1, <2>1 DEF PastCounted
<1> QED BY <1>1, <1>2, <1>3, <1>4 DEF PastInv, PastBases, PastOnce, PastWhole

(* A command's record after a step. *)
PastWith(p, s, c, l, g) == [cmd |-> p.cmd, step |-> s, from |-> p.from, to |-> p.to, cursor |-> c,
                            newest |-> p.newest, run |-> p.run, left |-> l, failed |-> g]
LEMMA PastSets ==
    ASSUME NEW p \in PastJob, NEW s, NEW c, NEW l
    PROVE  /\ [p EXCEPT !.cursor = c] = PastWith(p, p.step, c, p.left, p.failed)
           /\ [p EXCEPT !.left = l] = PastWith(p, p.step, p.cursor, l, p.failed)
           /\ [p EXCEPT !.step = s] = PastWith(p, s, p.cursor, p.left, p.failed)
           /\ [p EXCEPT !.step = s, !.left = l] = PastWith(p, s, p.cursor, l, p.failed)
           /\ [p EXCEPT !.step = s, !.left = l, !.failed = TRUE] = PastWith(p, s, p.cursor, l, TRUE)
           /\ [[p EXCEPT !.step = s] EXCEPT !.failed = TRUE] = PastWith(p, s, p.cursor, p.left, TRUE)
<1>1. PICK a, b, e, t, u, n, r, k, g : /\ a = p.cmd /\ b = p.step /\ e = p.from /\ t = p.to /\ u = p.cursor /\ n = p.newest
                                       /\ r = p.run /\ k = p.left /\ g = p.failed
  OBVIOUS
<1>2. p = [cmd |-> a, step |-> b, from |-> e, to |-> t, cursor |-> u, newest |-> n, run |-> r, left |-> k, failed |-> g]
  BY <1>1 DEF PastJob
<1>3. [p EXCEPT !.cursor = c] = [cmd |-> a, step |-> b, from |-> e, to |-> t, cursor |-> c, newest |-> n, run |-> r, left |-> k, failed |-> g]
  BY <1>2
<1>4. [p EXCEPT !.left = l] = [cmd |-> a, step |-> b, from |-> e, to |-> t, cursor |-> u, newest |-> n, run |-> r, left |-> l, failed |-> g]
  BY <1>2
<1>5. PICK v : v = [p EXCEPT !.step = s]
  BY Zenon
<1>6. v = [cmd |-> a, step |-> s, from |-> e, to |-> t, cursor |-> u, newest |-> n, run |-> r, left |-> k, failed |-> g]
  BY <1>2, <1>5
<1>7. PICK w : w = [v EXCEPT !.left = l]
  BY Zenon
<1>8. w = [cmd |-> a, step |-> s, from |-> e, to |-> t, cursor |-> u, newest |-> n, run |-> r, left |-> l, failed |-> g]
  BY <1>6, <1>7
<1>8a. PICK yes : yes = TRUE
  BY Zenon
<1>9. [w EXCEPT !.failed = yes] = [cmd |-> a, step |-> s, from |-> e, to |-> t, cursor |-> u, newest |-> n, run |-> r, left |-> l, failed |-> yes]
  BY <1>8
<1>10. [v EXCEPT !.failed = yes] = [cmd |-> a, step |-> s, from |-> e, to |-> t, cursor |-> u, newest |-> n, run |-> r, left |-> k, failed |-> yes]
  BY <1>6
<1>11. /\ [p EXCEPT !.step = s, !.left = l] = w
       /\ [p EXCEPT !.step = s, !.left = l, !.failed = TRUE] = [w EXCEPT !.failed = yes]
       /\ [[p EXCEPT !.step = s] EXCEPT !.failed = TRUE] = [v EXCEPT !.failed = yes]
  BY <1>5, <1>7, <1>8a, Zenon
<1>13. [p EXCEPT !.cursor = c] = PastWith(p, p.step, c, p.left, p.failed)
  BY <1>1, <1>3 DEF PastWith
<1>14. [p EXCEPT !.left = l] = PastWith(p, p.step, p.cursor, l, p.failed)
  BY <1>1, <1>4 DEF PastWith
<1>15. [p EXCEPT !.step = s] = PastWith(p, s, p.cursor, p.left, p.failed)
  BY <1>1, <1>5, <1>6, Zenon DEF PastWith
<1>16. [p EXCEPT !.step = s, !.left = l] = PastWith(p, s, p.cursor, l, p.failed)
  BY <1>1, <1>8, <1>11 DEF PastWith
<1>17. [p EXCEPT !.step = s, !.left = l, !.failed = TRUE] = PastWith(p, s, p.cursor, l, TRUE)
  BY <1>1, <1>9, <1>11, <1>8a DEF PastWith
<1>18. [[p EXCEPT !.step = s] EXCEPT !.failed = TRUE] = PastWith(p, s, p.cursor, p.left, TRUE)
  BY <1>1, <1>10, <1>11, <1>8a DEF PastWith
<1> QED BY <1>13, <1>14, <1>15, <1>16, <1>17, <1>18, Zenon

LEMMA PastTypes ==
    ASSUME NEW p \in PastJob, NEW s \in PastSteps, NEW c \in Nat, NEW l \in SUBSET Nat, NEW g \in BOOLEAN,
           NEW q, q = PastWith(p, s, c, l, g)
    PROVE  /\ q \in PastJob /\ q.cmd = p.cmd /\ q.step = s /\ q.from = p.from /\ q.to = p.to /\ q.cursor = c
           /\ q.newest = p.newest /\ q.run = p.run /\ q.left = l /\ q.failed = g
<1>1. /\ p.cmd \in {"none", "incremental", "collect"} /\ p.from \in Nat /\ p.to \in Nat /\ p.newest \in Int /\ p.run \in Nat
  BY DEF PastJob
<1>2. q \in PastJob
  BY <1>1 DEF PastWith, PastJob
<1>3. /\ q.cmd = p.cmd /\ q.step = s /\ q.from = p.from /\ q.to = p.to /\ q.cursor = c
      /\ q.newest = p.newest /\ q.run = p.run /\ q.left = l
  BY DEF PastWith
<1>4. q.failed = g
  BY Zenon DEF PastWith
<1> QED BY <1>2, <1>3, <1>4

(* Bars stored before stay stored, so that the days' universes stay whole. *)
LEMMA PastStores ==
    ASSUME PastInv, have \subseteq have', have' \subseteq 0..(closed' - 1), closed' \in 0..PastEnd, closed' >= closed,
           requests' \in 0..MaxFaults, ends' \in 0..MaxCrashes, UNCHANGED <<ingest, universes>>
    PROVE  PastTyped' /\ PastBases' /\ PastOpen' = PastOpen /\ PastOnce' /\ PastWhole'
<1>1. PastTyped'
  <2>1. \A i \in PastIds : ingest[i].end \in 1..closed'
    BY PastFacts, PastConstants DEF PastInv, PastTyped
  <2> QED BY <2>1, Zenon DEF PastInv, PastTyped, PastIds
<1>2. PastBases' /\ PastOpen' = PastOpen
  BY DEF PastInv, PastBases, PastOpen, PastIds
<1>3. PastOnce'
  BY Zenon DEF PastInv, PastOnce, PastDays, PastFirst
<1>4. PastWhole'
  BY DEF PastInv, PastWhole, PastDays, Past!BarsOf
<1> QED BY <1>1, <1>2, <1>3, <1>4

(* A step that touches neither the runs of collect nor the days' universes. *)
LEMMA PastSame ==
    ASSUME PastInv, have \subseteq have', have' \subseteq 0..(closed' - 1), closed' \in 0..PastEnd, closed' >= closed,
           requests' \in 0..MaxFaults, ends' \in 0..MaxCrashes, UNCHANGED <<ingest, universes>>,
           NEW q, PastGoes(q)', command' = q, ends' + PastWorking(q) >= ends + PastWorking(command)
    PROVE  PastInv'
<1>1. PastTyped' /\ PastBases' /\ PastOpen' = PastOpen /\ PastOnce' /\ PastWhole'
  BY PastStores, Zenon
<1>2. PastCounted(command)'
  <2>1. ends' \in Nat /\ ends \in Nat /\ PastWorking(q) \in Nat /\ PastWorking(command) \in Nat
    BY PastFacts, PastConstants DEF PastWorking
  <2>2. Cardinality(PastOpen) <= ends' + PastWorking(q)
    BY <2>1, PastCounts DEF PastInv, PastCounted
  <2> QED BY <1>1, <2>2 DEF PastCounted
<1> QED BY <1>1, <1>2 DEF PastInv

LEMMA PastStops ==
    ASSUME PastInv, closed' \in Nat, Len(ingest)' \in Nat
    PROVE  PastWorking(Past!Idle) = 0 /\ Past!Idle.cmd = "none" /\ PastGoes(Past!Idle)'
<1>1. PICK q : q = Past!Idle
  OBVIOUS
<1>2. /\ q.to = 0 /\ q.newest = -1 /\ q.run = 0 /\ q.left = {} /\ q.cmd = "none" /\ q.step = "none" /\ q \in PastJob
  BY <1>1 DEF Past!Idle, PastJob, PastSteps
<1>3. PICK k, n : k = closed' /\ n = Len(ingest)'
  OBVIOUS
<1>5. k \in Nat /\ n \in Nat
  BY <1>3
<1>6. 0 <= k /\ -1 \in -1..(k - 1) /\ 0 <= n /\ {} \subseteq 0..k
  BY <1>5
<1>4. PastGoes(q)'
  BY <1>1, <1>2, <1>3, <1>6, Zenon DEF PastGoes
<1> QED BY <1>1, <1>2, <1>4 DEF PastWorking

(* How far a command gets. *)
LEMMA PastMove ==
    ASSUME PastInv, closed' = closed, have \subseteq have', NEW p, p = command, p.cmd # "none",
           Len(ingest)' \in Nat, Len(ingest)' >= Len(ingest),
           p.cmd = "collect" => p.run \in PastIds' /\ ~ingest'[p.run].final,
           NEW s \in PastSteps, NEW c \in Nat, NEW l \in SUBSET (0..closed), NEW g \in BOOLEAN,
           NEW q, q = PastWith(p, s, c, l, g), s # "none", p.cmd = "incremental" => s = "klines",
           s = "klines" => p.from..(c - 1) \subseteq have',
           p.cmd = "collect" /\ s # "klines" /\ ~g => p.from..(p.to - 1) \subseteq have',
           s \in {"universe", "finalize"} => Len(universes)' >= 1
    PROVE  PastGoes(q)' /\ PastWorking(q) = PastWorking(command)
<1>1. p \in PastJob /\ closed \in Nat /\ Len(ingest) \in Nat /\ l \in SUBSET Nat
  BY PastFacts
<1>2. /\ q \in PastJob /\ q.cmd = p.cmd /\ q.step = s /\ q.from = p.from /\ q.to = p.to /\ q.cursor = c
      /\ q.newest = p.newest /\ q.run = p.run /\ q.left = l /\ q.failed = g
  BY <1>1, PastTypes
<1>3. PastGoes(p)
  BY DEF PastInv
<1>4. q.to <= closed' /\ q.newest \in -1..(closed' - 1) /\ q.run <= Len(ingest') /\ q.left \subseteq 0..closed'
  <2>1. p.to <= closed /\ p.newest \in -1..(closed - 1) /\ p.run <= Len(ingest) /\ p.run \in Nat
    BY <1>1, <1>3 DEF PastGoes, PastJob
  <2> QED BY <1>1, <1>2, <2>1
<1>5. q.cmd = "incremental" => q.step = "klines" /\ (q.newest >= 0 => q.newest \in have' /\ q.from = q.newest + 2)
  BY <1>2, <1>3 DEF PastGoes
<1>6. q.cmd = "collect" => q.step # "none" /\ q.run \in PastIds' /\ ~ingest'[q.run].final
  BY <1>2
<1>7. PastGoes(q)'
  BY <1>2, <1>4, <1>5, <1>6 DEF PastGoes
<1>8. PastWorking(q) = PastWorking(command)
  BY <1>2 DEF PastWorking
<1> QED BY <1>7, <1>8

LEMMA PastStays == ASSUME PastInv, UNCHANGED <<closed, have, ingest, universes>>
    PROVE  /\ closed' = closed /\ have \subseteq have' /\ have' \subseteq 0..(closed' - 1) /\ closed' \in 0..PastEnd /\ closed' >= closed
           /\ closed' \in Nat /\ Len(ingest)' \in Nat /\ Len(ingest)' >= Len(ingest) /\ Len(universes)' = Len(universes)
           /\ PastIds' = PastIds
  BY PastFacts DEF PastInv, PastTyped, PastIds

LEMMA PastFault == ASSUME PastInv, NEW t \in {0, 1}, requests' = requests + t, t = 1 => requests < MaxFaults
    PROVE  requests' \in 0..MaxFaults
  BY PastConstants DEF PastInv, PastTyped

LEMMA PastRests == ASSUME PastInv PROVE /\ requests \in 0..MaxFaults /\ ends \in 0..MaxCrashes /\ ends \in Nat /\ PastWorking(command) \in {0, 1}
                                        /\ closed \in 0..PastEnd /\ PastEnd \in Nat
  BY PastFacts, PastConstants DEF PastInv, PastTyped, PastWorking

LEMMA PastScan == ASSUME PastInv, Past!ScanSaves PROVE PastInv'
<1> USE DEF Past!ScanSaves
<1>1. PICK m : m = Past!Max({0, closed - Newest})
  OBVIOUS
<1>2. m \in Nat
  <2>1. closed \in Nat /\ Newest \in Nat
    BY PastFacts, PastConstants
  <2>2. Max({0, closed - Newest}) = IF 0 >= closed - Newest THEN 0 ELSE closed - Newest
    BY <2>1, MaxOfTwoA
  <2> QED BY <1>1, <2>1, <2>2, PastMax
<1>3. have' = have \cup (m..(closed - 1)) /\ closed' = closed /\ UNCHANGED <<ingest, universes>>
  BY <1>1
<1>4. have \subseteq have' /\ have' \subseteq 0..(closed' - 1) /\ closed' \in 0..PastEnd /\ closed' >= closed /\ closed' \in Nat
  <2>1. closed \in Nat /\ have \subseteq 0..(closed - 1)
    BY PastFacts
  <2>2. m..(closed - 1) \subseteq 0..(closed - 1)
    BY <1>2, <2>1
  <2>3. have \subseteq have' /\ have' \subseteq 0..(closed - 1)
    BY <1>3, <2>1, <2>2, Zenon
  <2> QED BY <1>3, <2>1, <2>3, PastRests
<1>5. PastGoes(Past!Idle)'
  <2>1. Len(ingest)' \in Nat
    BY <1>3, PastFacts
  <2> QED BY <1>4, <2>1, PastStops
<1>6. requests' \in 0..MaxFaults /\ ends' \in 0..MaxCrashes /\ ends' + PastWorking(Past!Idle) >= ends + PastWorking(command)
  BY PastRests
<1>7. PICK q : q = Past!Idle
  OBVIOUS
<1> QED BY <1>3, <1>4, <1>5, <1>6, <1>7, PastSame

LEMMA PastTick == ASSUME PastInv, Past!Tick PROVE PastInv'
<1> USE DEF Past!Tick
<1>1. closed' = closed + 1 /\ closed < PastEnd /\ UNCHANGED <<have, ingest, universes, command>> /\ requests' = requests /\ ends' = ends
  OBVIOUS
<1>2. have \subseteq have' /\ have' \subseteq 0..(closed' - 1) /\ closed' \in 0..PastEnd /\ closed' >= closed /\ closed \in Nat
  BY <1>1, PastFacts, PastRests
<1>3. PICK q : q = command
  OBVIOUS
<1>4. PastGoes(q)'
  <2>1. PastGoes(q) /\ q \in PastJob
    BY <1>3, PastFacts DEF PastInv
  <2>2. q.to \in Nat /\ q.newest \in Int
    BY <2>1 DEF PastJob
  <2>3. q.to <= closed' /\ q.newest \in -1..(closed' - 1) /\ q.left \subseteq 0..closed'
    BY <1>1, <1>2, <2>1, <2>2 DEF PastGoes
  <2> QED BY <1>1, <2>1, <2>3 DEF PastGoes, PastIds
<1>5. ends' + PastWorking(q) >= ends + PastWorking(command) /\ requests' \in 0..MaxFaults /\ ends' \in 0..MaxCrashes
  BY <1>1, <1>3, PastRests
<1> QED BY <1>1, <1>2, <1>3, <1>4, <1>5, PastSame

(* A command that ends, and one a crash ends. *)
LEMMA PastCrash == ASSUME PastInv, Past!Crash PROVE PastInv'
<1> USE DEF Past!Crash
<1>1. PICK q : q = Past!Idle
  OBVIOUS
<1>2. UNCHANGED <<closed, have, ingest, universes>> /\ requests' = requests /\ command' = q /\ ends' = ends + 1 /\ ends < MaxCrashes
  BY <1>1
<1>3. requests' \in 0..MaxFaults /\ ends' \in 0..MaxCrashes
  BY <1>2, PastRests, PastConstants
<1>4. PastWorking(q) = 0 /\ PastGoes(q)'
  BY <1>1, <1>2, PastStays, PastStops
<1>5. ends' + PastWorking(q) >= ends + PastWorking(command)
  BY <1>2, <1>4, PastRests
<1> QED BY <1>2, <1>3, <1>4, <1>5, PastStays, PastSame

LEMMA PastBegun ==
    ASSUME PastInv, UNCHANGED <<closed, have, universes>>, Len(ingest)' \in Nat, closed > 0,
           NEW c \in {"incremental", "collect"}, NEW f \in Nat, NEW i \in Nat, NEW q, q = Past!Begun(c, f, i),
           i <= Len(ingest)', c = "incremental" => (have # {} => f = Past!Latest + 2),
           c = "collect" => i \in PastIds' /\ ~ingest'[i].final
    PROVE  PastGoes(q)' /\ q.cmd = c
<1>1. PICK n, z : n = Past!Latest /\ z = closed
  OBVIOUS
<1>2. z \in Nat /\ n \in -1..(z - 1) /\ (n >= 0 => have # {} /\ n \in have)
  <2>1. CASE have = {}
    BY <1>1, <2>1, PastFacts DEF Past!Latest
  <2>2. CASE have # {}
    <3>1. PICK S : S = have
      OBVIOUS
    <3>2. z \in Nat /\ S \in SUBSET (0..z) /\ S \subseteq 0..(z - 1) /\ S # {}
      BY <1>1, <2>2, <3>1, PastFacts
    <3>3. Max(S) \in S
      BY <3>2, PastEnds, Zenon
    <3>4. n = Max(S)
      BY <1>1, <2>2, <3>1, PastMax DEF Past!Latest
    <3>5. n = Max(S) /\ n \in S
      BY <1>1, <3>3, <3>4
    <3>6. n \in 0..(z - 1)
      BY <3>2, <3>5
    <3> QED BY <2>2, <3>1, <3>2, <3>5, <3>6
  <2> QED BY <2>1, <2>2
<1>3. q = [cmd |-> c, step |-> "klines", from |-> f, to |-> z, cursor |-> f, newest |-> n, run |-> i, left |-> {}, failed |-> FALSE]
  BY <1>1 DEF Past!Begun
<1>4. n \in Int /\ f \in Nat
  BY <1>2
<1>5. q \in PastJob
  <2>1. PICK no : no = FALSE
    BY Zenon
  <2>2. no \in BOOLEAN
    BY <2>1, Zenon
  <2> QED BY <1>2, <1>3, <1>4, <2>1, <2>2 DEF PastJob, PastSteps
<1>6. /\ q.cmd = c /\ q.step = "klines" /\ q.from = f /\ q.to = z /\ q.cursor = f /\ q.newest = n /\ q.run = i /\ q.left = {}
  BY <1>3
<1>7. f..(f - 1) = {}
  BY <1>4
<1>8. closed' = z /\ have' = have
  BY <1>1
<1> QED BY <1>1, <1>2, <1>5, <1>6, <1>7, <1>8 DEF PastGoes

(* The start of the span is a bar. *)
LEMMA PastSpan == ASSUME PastInv PROVE Past!SpanStart(closed) \in Nat
<1>1. closed \in Nat /\ Span \in Nat
  BY PastFacts, PastConstants
<1>2. PICK k : k = closed - Span + 1
  OBVIOUS
<1>3. k \in Int
  BY <1>1, <1>2
<1>4. Max({0, k}) = IF 0 >= k THEN 0 ELSE k
  BY <1>3, MaxOfTwoA
<1> QED BY <1>2, <1>3, <1>4, PastMax DEF Past!SpanStart

LEMMA PastStartIncremental == ASSUME PastInv, Past!StartIncremental PROVE PastInv'
<1> USE DEF Past!StartIncremental
<1>1. PICK f : f = IF have = {} THEN Past!SpanStart(closed) ELSE Past!GapStart
  OBVIOUS
<1>2. f \in Nat /\ (have # {} => f = Past!Latest + 2)
  <2>1. CASE have = {}
    BY <1>1, <2>1, PastSpan
  <2>2. CASE have # {}
    <3>1. PICK S, z : S = have /\ z = closed
      OBVIOUS
    <3>2. z \in Nat /\ S \in SUBSET (0..z) /\ S # {}
      BY <3>1, <2>2, PastFacts
    <3>3. Max(S) \in S
      BY <3>2, PastEnds, Zenon
    <3>4. Past!Latest = Max(S)
      BY <2>2, <3>1, PastMax DEF Past!Latest
    <3>5. PICK y : y = Past!Latest
      OBVIOUS
    <3>8. Max(S) \in 0..z
      BY <3>2, <3>3, Zenon
    <3>6. y \in Nat
      BY <3>4, <3>5, <3>8
    <3>7. f = y + 2
      BY <1>1, <2>2, <3>5 DEF Past!GapStart
    <3> QED BY <3>5, <3>6, <3>7
  <2> QED BY <2>1, <2>2
<1>3. PICK q : q = Past!Begun("incremental", f, 0)
  OBVIOUS
<1>4. command' = q /\ UNCHANGED <<closed, have, ingest, universes>> /\ requests' = requests /\ ends' = ends /\ closed > 0
  BY <1>1, <1>3
<1>5. Len(ingest)' \in Nat /\ 0 <= Len(ingest)'
  BY <1>4, PastFacts
<1>6. PastGoes(q)' /\ q.cmd = "incremental"
  BY <1>2, <1>3, <1>4, <1>5, PastBegun
<1>7. ends' + PastWorking(q) >= ends + PastWorking(command)
  <2>1. command.cmd = "none"
    BY DEF Past!Idle
  <2> QED BY <1>4, <1>6, <2>1, PastFacts DEF PastWorking
<1>8. requests' \in 0..MaxFaults /\ ends' \in 0..MaxCrashes
  BY <1>4, PastRests
<1> QED BY <1>4, <1>6, <1>7, <1>8, PastStays, PastSame

(* The next page is saved, and the cursor stands behind it. *)
LEMMA PastKlines == ASSUME PastInv, Past!Klines PROVE PastInv'
<1> USE DEF Past!Klines
<1>1. PICK p, S, m : p = command /\ S = Past!NextPage /\ m = Max(S) + 1
  OBVIOUS
<1>2. p \in PastJob /\ PastGoes(p) /\ p.cursor \in Nat /\ p.to \in Nat /\ p.from \in Nat /\ p.to <= closed /\ p.left \subseteq 0..closed /\ p.failed \in BOOLEAN
  BY <1>1, PastFacts, Zenon DEF PastInv, PastGoes, PastJob
<1>3. p.step = "klines" /\ S # {} /\ have' = have \cup S /\ UNCHANGED <<closed, ingest, universes>>
  BY <1>1
<1>4. closed \in Nat /\ have \subseteq 0..(closed - 1)
  BY PastFacts
<1>5. S = {b \in p.cursor..(p.to - 1) : b < p.cursor + Page}
  BY <1>1 DEF Past!NextPage
<1>6. S \in SUBSET (0..closed) /\ S \subseteq 0..(closed - 1)
  BY <1>2, <1>4, <1>5
<1>7. m - 1 \in S /\ (\A b \in S : b <= m - 1) /\ m \in Nat
  <2>1. Max(S) \in S /\ \A b \in S : b <= Max(S)
    BY <1>3, <1>4, <1>6, PastEnds
  <2> QED BY <1>1, <1>6, <2>1
<1>8. p.cursor..(m - 1) \subseteq S
  BY <1>2, <1>5, <1>7, PastConstants
<1>9. p.cmd # "none"
  BY <1>2, <1>3 DEF PastGoes, Past!Idle
<1>10. p.from..(m - 1) \subseteq have'
  <2>1. p.from..(p.cursor - 1) \subseteq have
    BY <1>2, <1>3, <1>9 DEF PastGoes
  <2> QED BY <1>2, <1>3, <1>7, <1>8, <2>1
<1>11. PICK q : q = PastWith(p, p.step, m, p.left, p.failed)
  OBVIOUS
<1>12. command' = q
  <2>1. command' = [p EXCEPT !.cursor = m]
    BY <1>1, PastMax
  <2> QED BY <1>2, <1>11, <2>1, PastSets, Zenon
<1>13. PastGoes(q)' /\ PastWorking(q) = PastWorking(command)
  <2>1. p.cmd = "collect" => p.run \in PastIds' /\ ~ingest'[p.run].final
    BY <1>2, <1>3 DEF PastGoes, PastIds
  <2>2. "klines" \in PastSteps /\ Len(ingest)' \in Nat /\ Len(ingest)' >= Len(ingest)
    BY <1>3, PastFacts DEF PastSteps
  <2>3. have \subseteq have' /\ p.left \in SUBSET (0..closed) /\ closed' = closed
    BY <1>2, <1>3
  <2>4. q = PastWith(p, "klines", m, p.left, p.failed)
    BY <1>3, <1>11
  <2> QED BY <1>1, <1>2, <1>7, <1>9, <1>10, <2>1, <2>2, <2>3, <2>4, PastMove
<1>14. have \subseteq have' /\ have' \subseteq 0..(closed' - 1) /\ closed' \in 0..PastEnd /\ closed' >= closed
  BY <1>3, <1>4, <1>6, PastRests
<1>15. requests' \in 0..MaxFaults /\ ends' \in 0..MaxCrashes /\ ends' + PastWorking(q) >= ends + PastWorking(command)
  BY <1>13, PastRests
<1> QED BY <1>3, <1>12, <1>13, <1>14, <1>15, PastSame

LEMMA PastDone == ASSUME PastInv, Past!KlinesDone \/ Past!KlinesFail \/ Past!Capital PROVE PastInv'
<1>1. PICK p, D : p = command /\ D = Past!PastDays
  OBVIOUS
<1>2. /\ p \in PastJob /\ PastGoes(p) /\ p.cursor \in Nat /\ p.to \in Nat /\ p.from \in Nat /\ p.left \subseteq 0..closed /\ p.failed \in BOOLEAN
      /\ p.cmd \in {"none", "incremental", "collect"} /\ p.step \in PastSteps
  BY <1>1, PastFacts, Zenon DEF PastInv, PastGoes, PastJob
<1>3. UNCHANGED <<closed, have, ingest, universes>> /\ ends' = ends
  BY DEF Past!KlinesDone, Past!KlinesFail, Past!Capital
<1>4. requests' \in 0..MaxFaults /\ ends' \in 0..MaxCrashes
  <2>1. \/ requests' = requests + 0
        \/ requests' = requests + 1 /\ requests < MaxFaults
    BY PastRests DEF Past!KlinesDone, Past!KlinesFail, Past!Capital, Past!Fault, Past!NoFault
  <2> QED BY <1>3, <2>1, PastFault, PastRests
<1>5. p.cmd # "none"
  <2>1. p.step # "none"
    BY <1>1 DEF Past!KlinesDone, Past!KlinesFail, Past!Capital
  <2> QED BY <1>2, <2>1 DEF PastGoes, Past!Idle
<1>6. CASE command' = Past!Idle /\ p.cmd = "incremental"
  <2>1. PICK q : q = Past!Idle
    OBVIOUS
  <2>2. PastWorking(q) = 0 /\ PastGoes(q)'
    BY <1>3, <2>1, PastStays, PastStops
  <2>3. PastWorking(command) = 0
    BY <1>1, <1>6 DEF PastWorking
  <2> QED BY <1>3, <1>4, <1>6, <2>1, <2>2, <2>3, PastRests, PastStays, PastSame
<1>7. ASSUME NEW s \in {"capital", "days"}, NEW g \in BOOLEAN, NEW l \in SUBSET (0..closed),
             p.cmd = "collect", ~g => p.from..(p.to - 1) \subseteq have, command' = PastWith(p, s, p.cursor, l, g)
      PROVE  PastInv'
  <2>1. PICK q : q = PastWith(p, s, p.cursor, l, g)
    OBVIOUS
  <2>2. p.run \in PastIds' /\ ~ingest'[p.run].final
    BY <1>2, <1>3, <1>7 DEF PastGoes, PastIds
  <2>3. s \in PastSteps /\ s # "none" /\ s # "klines" /\ s \notin {"universe", "finalize"} /\ p.cmd # "incremental"
    BY <1>7 DEF PastSteps
  <2>4. p.from..(p.to - 1) \subseteq have' \/ g
    BY <1>3, <1>7
  <2>5. PastGoes(q)' /\ PastWorking(q) = PastWorking(command)
    BY <1>1, <1>2, <1>3, <1>5, <2>1, <2>2, <2>3, <2>4, PastStays, PastMove
  <2> QED BY <1>3, <1>4, <1>7, <2>1, <2>5, PastRests, PastStays, PastSame
<1>8. CASE Past!KlinesDone /\ p.cmd = "collect"
  <2>1. p.from..(p.to - 1) \subseteq have
    <3>1. p.from..(p.cursor - 1) \subseteq have /\ p.cursor >= p.to
      BY <1>1, <1>2, <1>8, PastPaged DEF PastGoes, Past!KlinesDone
    <3> QED BY <1>2, <3>1
  <2>2. command' = [p EXCEPT !.step = "capital"]
    BY <1>1, <1>8 DEF Past!KlinesDone, Past!Behind
  <2>3. command' = PastWith(p, "capital", p.cursor, p.left, p.failed)
    BY <1>2, <2>2, PastSets, Zenon
  <2>4. "capital" \in {"capital", "days"}
    OBVIOUS
  <2> QED BY <1>2, <1>7, <1>8, <2>1, <2>3, <2>4
<1>9. CASE Past!KlinesFail /\ p.cmd = "collect"
  <2>1. command' = [[p EXCEPT !.step = "capital"] EXCEPT !.failed = TRUE]
    BY <1>1, <1>9 DEF Past!KlinesFail, Past!Behind
  <2>2. command' = PastWith(p, "capital", p.cursor, p.left, TRUE)
    BY <1>2, <2>1, PastSets, Zenon
  <2>3. "capital" \in {"capital", "days"} /\ TRUE \in BOOLEAN
    OBVIOUS
  <2> QED BY <1>2, <1>7, <1>9, <2>2, <2>3, Zenon
<1>10. CASE (Past!KlinesDone \/ Past!KlinesFail) /\ p.cmd # "collect"
  <2>1. command' = Past!Idle
    BY <1>1, <1>10 DEF Past!KlinesDone, Past!KlinesFail, Past!Behind
  <2> QED BY <1>2, <1>5, <1>6, <1>10, <2>1
<1>11. CASE Past!Capital
  <2>1. p.step = "capital" /\ p.cmd = "collect"
    BY <1>1, <1>2, <1>5, <1>11 DEF PastGoes, Past!Capital
  <2>2. D \in SUBSET (0..closed)
    <3>1. p.to <= closed /\ closed \in Nat
      BY <1>2, PastFacts DEF PastGoes
    <3>2. ASSUME NEW d \in D PROVE d \in 0..closed
      <4>1. d \in Nat /\ (d + 1) * DayBars <= p.to
        BY <1>1, PastConstants DEF Past!PastDays
      <4>2. (d + 1) * DayBars >= d + 1
        BY <4>1, PastConstants
      <4>3. (d + 1) * DayBars \in Nat
        BY <4>1, PastConstants
      <4> QED BY <1>2, <3>1, <4>1, <4>2, <4>3
    <3> QED BY <3>2
  <2>3. p.failed = FALSE => p.from..(p.to - 1) \subseteq have
    BY <1>2, <2>1 DEF PastGoes
  <2>4. \/ command' = [p EXCEPT !.step = "days", !.left = D]
        \/ command' = [p EXCEPT !.step = "days", !.left = D, !.failed = TRUE]
    BY <1>1, <1>11 DEF Past!Capital
  <2>5. \/ command' = PastWith(p, "days", p.cursor, D, p.failed)
        \/ command' = PastWith(p, "days", p.cursor, D, TRUE)
    <3>1. [p EXCEPT !.step = "days", !.left = D] = PastWith(p, "days", p.cursor, D, p.failed)
      BY <1>2, PastSets, Zenon
    <3>2. [p EXCEPT !.step = "days", !.left = D, !.failed = TRUE] = PastWith(p, "days", p.cursor, D, TRUE)
      BY <1>2, PastSets, Zenon
    <3> QED BY <2>4, <3>1, <3>2, Zenon
  <2>6. "days" \in {"capital", "days"} /\ TRUE \in BOOLEAN /\ (~p.failed => p.from..(p.to - 1) \subseteq have)
    BY <1>2, <2>3
  <2> QED BY <1>2, <1>7, <2>1, <2>2, <2>5, <2>6, Zenon
<1> QED BY <1>8, <1>9, <1>10, <1>11

(* A step of the days' universes. *)
LEMMA PastDayStep ==
    ASSUME PastInv, UNCHANGED <<closed, have, ingest, requests, ends>>, universes' \in Seq(PastDay), PastOnce', PastWhole',
           NEW q, PastGoes(q)', command' = q, PastWorking(q) = PastWorking(command)
    PROVE  PastInv'
<1>1. PastTyped' /\ PastBases'
  BY DEF PastInv, PastTyped, PastBases, PastIds
<1>2. PastCounted(command)'
  <2>1. PastOpen' = PastOpen
    BY DEF PastOpen, PastIds
  <2>2. Cardinality(PastOpen) <= ends + PastWorking(q)
    BY DEF PastInv, PastCounted
  <2> QED BY <2>1, <2>2 DEF PastCounted
<1> QED BY <1>1, <1>2 DEF PastInv

(* The last run of the days' universes gets another status, or is final. *)
LEMMA PastLast ==
    ASSUME PastInv, have' = have, NEW n, n = Len(universes), n >= 1, NEW x \in PastDay, x.day = universes[n].day,
           universes' = [universes EXCEPT ![n] = x]
    PROVE  universes' \in Seq(PastDay) /\ PastOnce' /\ PastWhole' /\ Len(universes)' = n
<1>1. PICK f : f = universes'
  OBVIOUS
<1>2. universes \in Seq(PastDay) /\ n \in Nat /\ n \in 1..Len(universes)
  BY PastFacts DEF PastInv, PastTyped
<1>3. f \in Seq(PastDay) /\ Len(f) = n /\ f[n] = x /\ \A i \in 1..n : i # n => f[i] = universes[i]
  BY <1>1, <1>2
<1>4. \A i \in 1..n : f[i].day = universes[i].day
  BY <1>3
<1>5. PastDays' = PastDays /\ PastDays = 1..n
  BY <1>1, <1>3 DEF PastDays
<1>6. PastOnce'
  <2> SUFFICES ASSUME NEW i \in 1..n, NEW j \in 1..n, i < j, f[i].day = f[j].day, \A k \in 1..(i - 1) : f[k].day # f[i].day
               PROVE  f[i].status = "RUNNING"
    BY <1>1, <1>5 DEF PastOnce, PastFirst
  <2>1. i # n /\ f[i] = universes[i] /\ universes[i].day = universes[j].day
    BY <1>2, <1>3, <1>4
  <2>2. PastFirst(i)
    <3> SUFFICES ASSUME NEW k \in 1..(i - 1) PROVE universes[k].day # universes[i].day
      BY DEF PastFirst
    <3>1. k \in 1..n
      BY <1>2
    <3> QED BY <1>4, <3>1
  <2> QED BY <1>5, <2>1, <2>2 DEF PastInv, PastOnce
<1>7. PastWhole'
  BY <1>1, <1>4, <1>5 DEF PastInv, PastWhole, Past!BarsOf
<1> QED BY <1>1, <1>3, <1>6, <1>7

LEMMA PastNext == ASSUME PastInv, Past!NextDay PROVE PastInv'
<1> USE DEF Past!NextDay
<1>1. PICK p, d, n : p = command /\ d = Past!Min(p.left) /\ n = Len(universes)
  BY Zenon
<1>2. /\ p \in PastJob /\ PastGoes(p) /\ p.cursor \in Nat /\ p.to \in Nat /\ p.from \in Nat /\ p.left \subseteq 0..closed /\ p.failed \in BOOLEAN
      /\ p.cmd \in {"none", "incremental", "collect"}
  BY <1>1, PastFacts, Zenon DEF PastInv, PastGoes, PastJob
<1>3. UNCHANGED <<closed, have, ingest>> /\ requests' = requests /\ ends' = ends /\ p.step = "days" /\ p.left # {}
  BY <1>1
<1>4. p.cmd = "collect" /\ p.run \in PastIds /\ ~ingest[p.run].final /\ (~p.failed => p.from..(p.to - 1) \subseteq have)
  BY <1>2, <1>3 DEF PastGoes, Past!Idle
<1>5. d \in p.left /\ d \in Nat /\ closed \in Nat
  <2>1. PICK S, z : S = p.left /\ z = closed
    OBVIOUS
  <2>2. z \in Nat /\ S \in SUBSET (0..z) /\ S # {}
    BY <1>2, <1>3, <2>1, PastFacts
  <2>3. Min(S) \in S
    BY <2>2, PastEnds
  <2> QED BY <1>1, <1>2, <2>1, <2>2, <2>3, PastMax
<1>6. CASE Past!Done(d) \/ ~Past!HasBars(d)
  <2>1. PICK q : q = PastWith(p, "days", p.cursor, p.left \ {d}, p.failed)
    OBVIOUS
  <2>2. command' = q /\ universes' = universes
    <3>1. command' = [p EXCEPT !.left = @ \ {d}] /\ universes' = universes
      BY <1>1, <1>6
    <3>2. [p EXCEPT !.left = @ \ {d}] = [p EXCEPT !.left = p.left \ {d}]
      BY <1>2, Zenon DEF PastJob
    <3>3. [p EXCEPT !.left = p.left \ {d}] = PastWith(p, p.step, p.cursor, p.left \ {d}, p.failed)
      BY <1>2, PastSets, Zenon
    <3> QED BY <1>3, <2>1, <3>1, <3>2, <3>3
  <2>3. "days" \in PastSteps /\ p.left \ {d} \in SUBSET (0..closed)
    BY <1>2 DEF PastSteps
  <2>4. p.run \in PastIds' /\ ~ingest'[p.run].final /\ (~p.failed => p.from..(p.to - 1) \subseteq have')
    BY <1>3, <1>4 DEF PastIds
  <2>5. PastGoes(q)' /\ PastWorking(q) = PastWorking(command)
    BY <1>1, <1>2, <1>3, <1>4, <2>1, <2>2, <2>3, <2>4, PastStays, PastMove
  <2> QED BY <1>3, <2>2, <2>5, PastRests, PastStays, PastSame
<1>7. CASE ~Past!Done(d) /\ Past!HasBars(d)
  <2>1. PICK x : x = [day |-> d, status |-> "RUNNING", final |-> FALSE]
    BY Zenon
  <2>2. x \in PastDay /\ x.day = d /\ x.status = "RUNNING"
    <3>1. PICK no : no = FALSE
      OBVIOUS
    <3>2. x = [day |-> d, status |-> "RUNNING", final |-> no] /\ no \in BOOLEAN
      BY <2>1, <3>1, Zenon
    <3> QED BY <1>5, <3>2 DEF PastDay
  <2>3. PICK f : f = universes'
    OBVIOUS
  <2>4. universes' = Append(universes, x) /\ command' = [p EXCEPT !.step = "universe"]
    BY <1>1, <1>7, <2>1
  <2>5. universes \in Seq(PastDay) /\ n \in Nat
    BY <1>1, PastFacts DEF PastInv, PastTyped
  <2>6. f \in Seq(PastDay) /\ Len(f) = n + 1 /\ f[n + 1] = x /\ \A i \in 1..n : f[i] = universes[i]
    BY <1>1, <2>2, <2>3, <2>4, <2>5
  <2>7. PastDays' = 1..(n + 1) /\ PastDays = 1..n
    BY <1>1, <2>3, <2>6 DEF PastDays
  <2>8. PastOnce'
    <3> SUFFICES ASSUME NEW i \in 1..(n + 1), NEW j \in 1..(n + 1), i < j, f[i].day = f[j].day,
                        \A k \in 1..(i - 1) : f[k].day # f[i].day
                 PROVE  f[i].status = "RUNNING"
      BY <2>3, <2>7 DEF PastOnce, PastFirst
    <3>1. i \in 1..n /\ f[i] = universes[i]
      BY <2>5, <2>6
    <3>2. PastFirst(i)
      <4> SUFFICES ASSUME NEW k \in 1..(i - 1) PROVE universes[k].day # universes[i].day
        BY DEF PastFirst
      <4>1. k \in 1..n
        BY <2>5, <3>1
      <4> QED BY <2>6, <3>1, <4>1
    <3>3. CASE j \in 1..n
      BY <2>6, <2>7, <3>1, <3>2, <3>3 DEF PastInv, PastOnce
    <3>4. CASE j = n + 1
      <4>1. PICK S : S = Past!RunsOf(d)
        OBVIOUS
      <4>2. S \in SUBSET (0..n) /\ i \in S /\ S = {k \in 1..n : universes[k].day = d}
        BY <2>2, <2>6, <2>7, <3>1, <3>4, <4>1, PastFacts DEF Past!RunsOf
      <4>3. PICK m : m = Min(S)
        OBVIOUS
      <4>4. m \in S /\ \A k \in S : m <= k
        BY <2>5, <4>2, <4>3, PastEnds, Zenon
      <4>5. m = i
        <5>1. m \in 1..n /\ m <= i /\ universes[m].day = universes[i].day
          BY <4>2, <4>4
        <5>2. ~(m < i)
          BY <3>1, <3>2, <5>1 DEF PastFirst
        <5> QED BY <5>1, <5>2
      <4>6. universes[m].status # "SUCCEEDED"
        <5>1. Past!Min(S) = m
          BY <4>3, PastMax
        <5> QED BY <1>7, <4>1, <4>2, <5>1 DEF Past!Done
      <4> QED BY <2>7, <3>1, <4>5, <4>6, PastFacts
    <3> QED BY <2>5, <3>3, <3>4
  <2>9. PastWhole'
    <3> SUFFICES ASSUME NEW i \in 1..(n + 1) PROVE Past!BarsOf(f[i].day) \subseteq have
      BY <1>3, <2>3, <2>7 DEF PastWhole, Past!BarsOf
    <3>1. CASE i \in 1..n
      BY <2>6, <2>7, <3>1 DEF PastInv, PastWhole
    <3>2. CASE i = n + 1
      BY <1>7, <2>2, <2>6, <3>2 DEF Past!HasBars
    <3> QED BY <2>5, <3>1, <3>2
  <2>10. PICK q : q = PastWith(p, "universe", p.cursor, p.left, p.failed)
    OBVIOUS
  <2>11. command' = q
    BY <1>2, <2>4, <2>10, PastSets, Zenon
  <2>12. PastGoes(q)' /\ PastWorking(q) = PastWorking(command)
    <3>1. "universe" \in PastSteps /\ p.left \in SUBSET (0..closed) /\ Len(universes)' >= 1
      BY <1>2, <2>3, <2>5, <2>6 DEF PastSteps
    <3>2. p.run \in PastIds' /\ ~ingest'[p.run].final /\ (~p.failed => p.from..(p.to - 1) \subseteq have')
      BY <1>3, <1>4 DEF PastIds
    <3>3. closed' = closed /\ have \subseteq have' /\ Len(ingest)' \in Nat /\ Len(ingest)' >= Len(ingest)
      BY <1>3, PastFacts
    <3>4. p = command /\ p.cmd # "none" /\ p.cmd # "incremental" /\ p.cursor \in Nat /\ p.failed \in BOOLEAN
      BY <1>1, <1>2, <1>3, <1>4
    <3> QED BY <2>10, <3>1, <3>2, <3>3, <3>4, PastMove
  <2> QED BY <1>3, <2>3, <2>6, <2>8, <2>9, <2>11, <2>12, PastDayStep
<1> QED BY <1>6, <1>7

LEMMA PastDaySets == ASSUME NEW x \in PastDay
    PROVE  /\ [x EXCEPT !.status = "SUCCEEDED"] \in PastDay /\ [x EXCEPT !.status = "SUCCEEDED"].day = x.day
           /\ [x EXCEPT !.final = TRUE] \in PastDay /\ [x EXCEPT !.final = TRUE].day = x.day
<1>1. PICK a, b, c, yes : a = x.day /\ b = x.status /\ c = x.final /\ yes = TRUE
  BY Zenon
<1>2. x = [day |-> a, status |-> b, final |-> c] /\ a \in Nat /\ b \in {"RUNNING", "SUCCEEDED"} /\ c \in BOOLEAN /\ yes \in BOOLEAN
  BY <1>1 DEF PastDay
<1>3. [x EXCEPT !.status = "SUCCEEDED"] = [day |-> a, status |-> "SUCCEEDED", final |-> c]
  BY <1>2
<1>4. [x EXCEPT !.final = yes] = [day |-> a, status |-> b, final |-> yes]
  BY <1>2
<1>5. [day |-> a, status |-> "SUCCEEDED", final |-> c] \in PastDay /\ [day |-> a, status |-> b, final |-> yes] \in PastDay
  BY <1>2 DEF PastDay
<1>6. [x EXCEPT !.final = TRUE] = [x EXCEPT !.final = yes]
  BY <1>1, Zenon
<1> QED BY <1>1, <1>3, <1>4, <1>5, <1>6

LEMMA PastFinish == ASSUME PastInv, Past!FinishDay \/ Past!FinalizeDay PROVE PastInv'
<1>1. PICK p, n : p = command /\ n = Len(universes)
  BY Zenon
<1>2. /\ p \in PastJob /\ PastGoes(p) /\ p.cursor \in Nat /\ p.to \in Nat /\ p.from \in Nat /\ p.left \subseteq 0..closed /\ p.failed \in BOOLEAN
      /\ p.cmd \in {"none", "incremental", "collect"}
  BY <1>1, PastFacts, Zenon DEF PastInv, PastGoes, PastJob
<1>3. UNCHANGED <<closed, have, ingest>> /\ requests' = requests /\ ends' = ends /\ p.step \in {"universe", "finalize"}
  BY <1>1 DEF Past!FinishDay, Past!FinalizeDay
<1>4. /\ p.cmd = "collect" /\ p.run \in PastIds /\ ~ingest[p.run].final /\ (~p.failed => p.from..(p.to - 1) \subseteq have)
      /\ n >= 1 /\ n \in Nat /\ n \in PastDays
  BY <1>1, <1>2, <1>3, PastFacts DEF PastGoes, Past!Idle, PastDays
<1>5. PICK x : /\ x \in PastDay /\ x.day = universes[n].day
               /\ universes' = [universes EXCEPT ![n] = x]
  <2>1. PICK u : u = universes[n]
    OBVIOUS
  <2>2. u \in PastDay
    BY <1>4, <2>1, PastFacts
  <2>3. \/ universes' = [universes EXCEPT ![n] = [u EXCEPT !.status = "SUCCEEDED"]]
        \/ universes' = [universes EXCEPT ![n] = [u EXCEPT !.final = TRUE]]
    BY <1>1, <2>1, Zenon DEF Past!FinishDay, Past!FinalizeDay
  <2> QED BY <2>1, <2>2, <2>3, PastDaySets, Zenon
<1>6. universes' \in Seq(PastDay) /\ PastOnce' /\ PastWhole' /\ Len(universes)' = n
  BY <1>1, <1>3, <1>4, <1>5, PastLast, Zenon
<1>7. ASSUME NEW s \in {"finalize", "days"}, NEW l \in SUBSET (0..closed), command' = PastWith(p, s, p.cursor, l, p.failed)
      PROVE  PastInv'
  <2>1. PICK q : q = PastWith(p, s, p.cursor, l, p.failed)
    OBVIOUS
  <2>2. p.run \in PastIds' /\ ~ingest'[p.run].final /\ (~p.failed => p.from..(p.to - 1) \subseteq have')
    BY <1>3, <1>4 DEF PastIds
  <2>3. closed' = closed /\ have \subseteq have' /\ Len(ingest)' \in Nat /\ Len(ingest)' >= Len(ingest)
    BY <1>3, PastFacts
  <2>4. s \in PastSteps /\ s # "none" /\ s # "klines" /\ p.cmd # "incremental" /\ Len(universes)' >= 1
    BY <1>4, <1>6 DEF PastSteps
  <2>5. PastGoes(q)' /\ PastWorking(q) = PastWorking(command)
    BY <1>1, <1>2, <1>4, <2>1, <2>2, <2>3, <2>4, PastMove
  <2> QED BY <1>3, <1>6, <1>7, <2>1, <2>5, PastDayStep
<1>8. CASE Past!FinishDay
  <2>1. command' = [p EXCEPT !.step = "finalize"]
    BY <1>1, <1>8 DEF Past!FinishDay
  <2>2. command' = PastWith(p, "finalize", p.cursor, p.left, p.failed)
    BY <1>2, <2>1, PastSets, Zenon
  <2> QED BY <1>2, <1>7, <2>2
<1>9. CASE Past!FinalizeDay
  <2>1. PICK l : l = p.left \ {Past!Min(p.left)}
    BY Zenon
  <2>2. command' = [p EXCEPT !.step = "days", !.left = l]
    <3>1. command' = [p EXCEPT !.step = "days", !.left = @ \ {Past!Min(@)}]
      BY <1>1, <1>9 DEF Past!FinalizeDay
    <3>2. [p EXCEPT !.step = "days", !.left = @ \ {Past!Min(@)}] = [p EXCEPT !.step = "days", !.left = p.left \ {Past!Min(p.left)}]
      <4>1. PICK w : w = [p EXCEPT !.step = "days"]
        BY Zenon
      <4>2. w.left = p.left
        BY <1>2, <4>1 DEF PastJob
      <4> QED BY <4>1, <4>2
    <3> QED BY <2>1, <3>1, <3>2
  <2>3. command' = PastWith(p, "days", p.cursor, l, p.failed)
    BY <1>2, <2>2, PastSets, Zenon
  <2>4. l \in SUBSET (0..closed)
    BY <1>2, <2>1
  <2> QED BY <1>7, <2>3, <2>4
<1> QED BY <1>8, <1>9

(* A step of the runs of collect. *)
LEMMA PastRunStep ==
    ASSUME PastInv, UNCHANGED <<closed, have, universes, ends>>, requests' \in 0..MaxFaults,
           ingest' \in Seq(PastRun), \A i \in PastIds' : ingest'[i].end \in 1..closed, PastBases',
           NEW q, PastGoes(q)', command' = q, Cardinality(PastOpen)' <= ends + PastWorking(q)
    PROVE  PastInv'
<1>1. PastTyped'
  BY DEF PastInv, PastTyped
<1>2. PastOnce' /\ PastWhole'
  BY DEF PastInv, PastOnce, PastWhole, PastDays, PastFirst, Past!BarsOf
<1>3. PastCounted(command)'
  BY DEF PastCounted
<1> QED BY <1>1, <1>2, <1>3 DEF PastInv

(* The run of the command gets another status; with g it is final then. *)
LEMMA PastRunChange ==
    ASSUME PastInv, closed' = closed, NEW r \in PastIds, ~ingest[r].final, NEW x \in PastRun,
           x.base = ingest[r].base, x.end = ingest[r].end, ingest' = [ingest EXCEPT ![r] = x]
    PROVE  /\ ingest' \in Seq(PastRun) /\ (\A i \in PastIds' : ingest'[i].end \in 1..closed) /\ PastBases'
           /\ PastIds' = PastIds /\ Len(ingest)' = Len(ingest) /\ Len(ingest)' \in Nat /\ ingest'[r] = x
           /\ x.final => Cardinality(PastOpen)' = Cardinality(PastOpen) - 1
           /\ ~x.final => Cardinality(PastOpen)' = Cardinality(PastOpen)
<1>1. PICK f, n : f = ingest' /\ n = Len(ingest)
  BY Zenon
<1>2. ingest \in Seq(PastRun) /\ n \in Nat /\ PastIds = 1..n /\ r \in 1..n
  BY <1>1, PastFacts DEF PastInv, PastTyped, PastIds
<1>3. f \in Seq(PastRun) /\ Len(f) = n /\ f[r] = x /\ \A i \in 1..n : i # r => f[i] = ingest[i]
  BY <1>1, <1>2
<1>4. \A i \in 1..n : f[i].end = ingest[i].end /\ f[i].base = ingest[i].base
  BY <1>3
<1>5. PastIds' = 1..n /\ Len(ingest)' = n
  BY <1>1, <1>3 DEF PastIds
<1>6. \A i \in PastIds' : ingest'[i].end \in 1..closed
  BY <1>1, <1>2, <1>4, <1>5 DEF PastInv, PastTyped
<1>7. PastBases'
  <2> SUFFICES ASSUME NEW i \in 1..n, NEW j \in 1..n, f[i].base, f[j].base, f[i].end = f[j].end PROVE i = j
    BY <1>1, <1>5 DEF PastBases
  <2>1. ingest[i].base /\ ingest[j].base /\ ingest[i].end = ingest[j].end
    BY <1>4
  <2> QED BY <1>2, <2>1 DEF PastInv, PastBases
<1>8. PastOpen' = {i \in 1..n : ~f[i].final} /\ PastOpen = {i \in 1..n : ~ingest[i].final}
  BY <1>1, <1>2, <1>5 DEF PastOpen
<1>9. ASSUME x.final PROVE Cardinality(PastOpen)' = Cardinality(PastOpen) - 1
  <2>1. PICK S : S = PastOpen
    OBVIOUS
  <2>2. PastOpen' = S \ {r} /\ r \in S
    BY <1>2, <1>3, <1>8, <1>9, <2>1
  <2>3. IsFiniteSet(S)
    BY <2>1, PastCounts
  <2>4. Cardinality(S \ {r}) = Cardinality(S) - 1
    BY <2>2, <2>3, FS_RemoveElement, Zenon
  <2> QED BY <2>1, <2>2, <2>4
<1>10. ASSUME ~x.final PROVE Cardinality(PastOpen)' = Cardinality(PastOpen)
  <2>1. PastOpen' = PastOpen
    BY <1>2, <1>3, <1>8, <1>10
  <2> QED BY <2>1
<1> QED BY <1>1, <1>2, <1>3, <1>5, <1>6, <1>7, <1>9, <1>10

LEMMA PastRunSets ==
    ASSUME NEW x \in PastRun, NEW s \in {"RUNNING", "SUCCEEDED", "PARTIAL", "FAILED"}
    PROVE  /\ [x EXCEPT !.status = s] \in PastRun /\ [x EXCEPT !.status = s].base = x.base /\ [x EXCEPT !.status = s].end = x.end
           /\ [x EXCEPT !.status = s].final = x.final
           /\ [x EXCEPT !.final = TRUE] \in PastRun /\ [x EXCEPT !.final = TRUE].base = x.base /\ [x EXCEPT !.final = TRUE].end = x.end
           /\ [x EXCEPT !.final = TRUE].final
<1>1. PICK a, b, c, d, yes : a = x.base /\ b = x.end /\ c = x.status /\ d = x.final /\ yes = TRUE
  BY Zenon
<1>2. /\ x = [base |-> a, end |-> b, status |-> c, final |-> d]
      /\ a \in BOOLEAN /\ b \in Nat /\ c \in {"RUNNING", "SUCCEEDED", "PARTIAL", "FAILED"} /\ d \in BOOLEAN /\ yes \in BOOLEAN
  BY <1>1 DEF PastRun
<1>3. PICK v : v = [x EXCEPT !.status = s]
  BY Zenon
<1>4. v = [base |-> a, end |-> b, status |-> s, final |-> d]
  BY <1>2, <1>3
<1>5. PICK w : w = [x EXCEPT !.final = yes]
  BY Zenon
<1>6. w = [base |-> a, end |-> b, status |-> c, final |-> yes]
  BY <1>2, <1>5
<1>7. v \in PastRun /\ w \in PastRun
  BY <1>2, <1>4, <1>6 DEF PastRun
<1>8. v.base = a /\ v.end = b /\ v.final = d
  BY <1>4
<1>9. w.base = a /\ w.end = b /\ w.final = yes
  BY <1>6
<1>10. [x EXCEPT !.final = TRUE] = w
  BY <1>1, <1>5, Zenon
<1>11. w.final
  BY <1>1, <1>9, Zenon
<1> QED BY <1>1, <1>3, <1>7, <1>8, <1>9, <1>10, <1>11, Zenon

LEMMA PastRunEnds == ASSUME PastInv, Past!FinishRun \/ Past!FinalizeRun \/ Past!CollectFails PROVE PastInv'
<1>1. PICK p, r, u : p = command /\ r = p.run /\ u = ingest[r]
  OBVIOUS
<1>2. /\ p \in PastJob /\ PastGoes(p) /\ p.cursor \in Nat /\ p.to \in Nat /\ p.from \in Nat /\ p.left \subseteq 0..closed /\ p.failed \in BOOLEAN
      /\ p.cmd \in {"none", "incremental", "collect"}
  BY <1>1, PastFacts, Zenon DEF PastInv, PastGoes, PastJob
<1>3. UNCHANGED <<closed, have, universes>> /\ ends' = ends
  BY DEF Past!FinishRun, Past!FinalizeRun, Past!CollectFails
<1>4. p.step \in {"days", "final"} \/ p.cmd = "collect"
  BY <1>1 DEF Past!FinishRun, Past!FinalizeRun, Past!CollectFails
<1>5. p.cmd = "collect" /\ r \in PastIds /\ ~u.final /\ u \in PastRun
  BY <1>1, <1>2, <1>4, PastFacts DEF PastGoes, Past!Idle
<1>6. requests' \in 0..MaxFaults
  <2>1. \/ requests' = requests + 0
        \/ requests' = requests + 1 /\ requests < MaxFaults
    BY PastRests DEF Past!FinishRun, Past!FinalizeRun, Past!CollectFails, Past!Fault
  <2> QED BY <2>1, PastFault
<1>7. Cardinality(PastOpen) <= ends + 1 /\ Cardinality(PastOpen) \in Nat /\ ends \in Nat
  BY <1>1, <1>5, PastCounts, PastFacts DEF PastInv, PastCounted, PastWorking
<1>8. CASE Past!FinishRun
  <2>1. PICK s : s \in {"SUCCEEDED", "PARTIAL"} /\ s = IF p.failed THEN "PARTIAL" ELSE "SUCCEEDED"
    OBVIOUS
  <2>2. PICK x : x = [u EXCEPT !.status = s]
    BY Zenon
  <2>3. x \in PastRun /\ x.base = u.base /\ x.end = u.end /\ ~x.final
    BY <1>5, <2>1, <2>2, PastRunSets, Zenon
  <2>4. ingest' = [ingest EXCEPT ![r] = x] /\ command' = [p EXCEPT !.step = "final"]
    <3>1. ingest' = [ingest EXCEPT ![r].status = s]
      BY <1>1, <1>8, <2>1 DEF Past!FinishRun
    <3> QED BY <1>1, <1>8, <2>2, <3>1, Zenon DEF Past!FinishRun
  <2>5. /\ ingest' \in Seq(PastRun) /\ (\A i \in PastIds' : ingest'[i].end \in 1..closed) /\ PastBases'
        /\ PastIds' = PastIds /\ Len(ingest)' = Len(ingest) /\ Len(ingest)' \in Nat /\ ingest'[r] = x
        /\ Cardinality(PastOpen)' = Cardinality(PastOpen)
    BY <1>1, <1>3, <1>5, <2>3, <2>4, PastRunChange, Zenon
  <2>6. PICK q : q = PastWith(p, "final", p.cursor, p.left, p.failed)
    OBVIOUS
  <2>7. command' = q
    BY <1>2, <2>4, <2>6, PastSets, Zenon
  <2>8. PastGoes(q)' /\ PastWorking(q) = PastWorking(command)
    <3>1. p.run \in PastIds' /\ ~ingest'[p.run].final
      BY <1>1, <1>5, <2>3, <2>5
    <3>2. p.step # "klines"
      BY <1>1, <1>8 DEF Past!FinishRun
    <3>3. ~p.failed => p.from..(p.to - 1) \subseteq have'
      BY <1>2, <1>3, <1>5, <3>2 DEF PastGoes
    <3>4. closed' = closed /\ have \subseteq have' /\ Len(ingest)' >= Len(ingest) /\ "final" \in PastSteps
      BY <1>3, <2>5 DEF PastSteps
    <3> QED BY <1>1, <1>2, <1>5, <2>5, <2>6, <3>1, <3>3, <3>4, PastMove
  <2>9. PastWorking(q) = 1
    BY <1>1, <1>5, <2>8 DEF PastWorking
  <2> QED BY <1>3, <1>6, <1>7, <2>5, <2>7, <2>8, <2>9, PastRunStep
<1>9. ASSUME NEW x \in PastRun, x.base = u.base, x.end = u.end, x.final, ingest' = [ingest EXCEPT ![r] = x], command' = Past!Idle
      PROVE  PastInv'
  <2>1. /\ ingest' \in Seq(PastRun) /\ (\A i \in PastIds' : ingest'[i].end \in 1..closed) /\ PastBases'
        /\ Len(ingest)' \in Nat /\ Cardinality(PastOpen)' = Cardinality(PastOpen) - 1
    BY <1>1, <1>3, <1>5, <1>9, PastRunChange, Zenon
  <2>2. PICK q : q = Past!Idle
    OBVIOUS
  <2>3. PastWorking(q) = 0 /\ PastGoes(q)'
    BY <1>3, <2>1, <2>2, PastFacts, PastStops
  <2>4. Cardinality(PastOpen)' <= ends + PastWorking(q)
    BY <1>7, <2>1, <2>3
  <2> QED BY <1>3, <1>6, <1>9, <2>1, <2>2, <2>3, <2>4, PastRunStep
<1>10. CASE Past!FinalizeRun
  <2>1. ingest' = [ingest EXCEPT ![r].final = TRUE] /\ command' = Past!Idle
    BY <1>1, <1>10 DEF Past!FinalizeRun
  <2>2. ingest' = [ingest EXCEPT ![r] = [u EXCEPT !.final = TRUE]]
    BY <1>1, <2>1, Zenon
  <2> QED BY <1>5, <1>9, <2>1, <2>2, PastRunSets, Zenon
<1>11. CASE Past!CollectFails
  <2>1. ingest' = [ingest EXCEPT ![r].status = "FAILED", ![r].final = TRUE] /\ command' = Past!Idle
    BY <1>1, <1>11 DEF Past!CollectFails
  <2>2. PICK v : v = [u EXCEPT !.status = "FAILED"]
    BY Zenon
  <2>3. v \in PastRun /\ v.base = u.base /\ v.end = u.end
    BY <1>5, <2>2, PastRunSets, Zenon
  <2>4. PICK w : w = [v EXCEPT !.final = TRUE]
    BY Zenon
  <2>5. w \in PastRun /\ w.base = u.base /\ w.end = u.end /\ w.final
    BY <2>3, <2>4, PastRunSets, Zenon
  <2>6. ingest' = [ingest EXCEPT ![r] = w]
    <3>1. PICK one : one = [ingest EXCEPT ![r] = v]
      BY Zenon
    <3>2. [ingest EXCEPT ![r].status = "FAILED"] = one
      BY <1>1, <2>2, <3>1
    <3>3. ingest' = [one EXCEPT ![r].final = TRUE]
      BY <2>1, <3>2, Zenon
    <3>4. one[r] = v
      BY <1>5, <3>1, PastFacts
    <3>5. ingest' = [one EXCEPT ![r] = w]
      BY <2>4, <3>3, <3>4, Zenon
    <3> QED BY <3>1, <3>5, PastFacts, Zenon
  <2> QED BY <1>9, <2>1, <2>5, <2>6, Zenon
<1> QED BY <1>8, <1>10, <1>11

LEMMA PastStartCollect == ASSUME PastInv, Past!StartCollect PROVE PastInv'
<1>1. PICK given \in BOOLEAN :
         LET O == {i \in DOMAIN ingest : given /\ ingest[i].base /\ ingest[i].end = closed}
             i == IF \E k \in O : ~ingest[k].final THEN Past!Max(O) ELSE Len(ingest) + 1
         IN  /\ ingest' = IF i \in DOMAIN ingest THEN ingest
                          ELSE Append(ingest, [base |-> given /\ O = {}, end |-> closed, status |-> "RUNNING", final |-> FALSE])
             /\ command' = Past!Begun("collect", Past!SpanStart(closed), i)
  BY Zenon DEF Past!StartCollect
<1>2. PICK O, r, n, f : /\ O = {i \in DOMAIN ingest : given /\ ingest[i].base /\ ingest[i].end = closed}
                        /\ r = (IF \E k \in O : ~ingest[k].final THEN Past!Max(O) ELSE Len(ingest) + 1)
                        /\ n = Len(ingest) /\ f = Past!SpanStart(closed)
  BY Zenon
<1>3. PICK b, q : b = (given /\ O = {}) /\ q = Past!Begun("collect", f, r)
  OBVIOUS
<1>4. /\ ingest' = IF r \in DOMAIN ingest THEN ingest
                   ELSE Append(ingest, [base |-> b, end |-> closed, status |-> "RUNNING", final |-> FALSE])
      /\ command' = q
  BY <1>1, <1>2, <1>3
<1>5. /\ UNCHANGED <<closed, have, universes>> /\ requests' = requests /\ ends' = ends /\ closed > 0
      /\ command = Past!Idle
  BY DEF Past!StartCollect
<1>6. f \in Nat /\ n \in Nat /\ closed \in Nat /\ PastIds = 1..n /\ DOMAIN ingest = 1..n /\ ingest \in Seq(PastRun)
  BY <1>2, PastSpan, PastFacts, Zenon DEF PastInv, PastTyped, PastIds
<1>7. Cardinality(PastOpen) <= ends /\ Cardinality(PastOpen) \in Nat /\ ends \in Nat
  <2>1. PastWorking(command) = 0
    BY <1>5 DEF PastWorking, Past!Idle
  <2> QED BY <2>1, PastCounts, PastFacts DEF PastInv, PastCounted
<1>8. requests' \in 0..MaxFaults /\ ends' \in 0..MaxCrashes
  BY <1>5, PastRests
<1>9. q.cmd = "collect" => PastWorking(q) = 1
  BY DEF PastWorking
<1>10. CASE \E k \in O : ~ingest[k].final
  <2>1. PICK k \in O : ~ingest[k].final
    BY <1>10
  <2>2. \A i \in O : i = k
    <3> SUFFICES ASSUME NEW i \in O PROVE i = k
      OBVIOUS
    <3>1. i \in PastIds /\ k \in PastIds /\ ingest[i].base /\ ingest[k].base /\ ingest[i].end = ingest[k].end
      BY <1>2, <1>6, <2>1
    <3> QED BY <3>1 DEF PastInv, PastBases
  <2>3. r = k
    <3>1. O \in SUBSET (0..n) /\ O # {}
      BY <1>2, <1>6, <2>1
    <3>2. Max(O) \in O
      BY <1>6, <3>1, PastEnds, Zenon
    <3>3. r = Max(O)
      BY <1>2, <1>10, PastMax
    <3> QED BY <2>2, <3>2, <3>3
  <2>4. r \in 1..n /\ ~ingest[r].final /\ r \in Nat
    BY <1>2, <1>6, <2>1, <2>3
  <2>5. ingest' = ingest
    BY <1>4, <1>6, <2>4
  <2>6. Len(ingest)' = n /\ Len(ingest)' \in Nat /\ r <= Len(ingest)' /\ r \in PastIds' /\ ~ingest'[r].final
    BY <1>2, <1>6, <2>4, <2>5 DEF PastIds
  <2>7. PastGoes(q)' /\ q.cmd = "collect"
    BY <1>3, <1>5, <1>6, <2>4, <2>6, PastBegun
  <2>8. ends' + PastWorking(q) >= ends + PastWorking(command)
    BY <1>5, <1>9, <2>7, PastRests
  <2> QED BY <1>4, <1>5, <1>8, <2>5, <2>7, <2>8, PastStays, PastSame
<1>11. CASE ~ \E k \in O : ~ingest[k].final
  <2>1. r = n + 1
    BY <1>2, <1>11
  <2>2. PICK no : no = FALSE
    BY Zenon
  <2>3. b \in BOOLEAN /\ (b => given /\ O = {})
    BY <1>3, Zenon
  <2>4. PICK x : x = [base |-> b, end |-> closed, status |-> "RUNNING", final |-> no]
    BY Zenon
  <2>5. x \in PastRun /\ x.base = b /\ x.end = closed /\ x.final = no /\ no \in BOOLEAN
    BY <1>6, <2>2, <2>3, <2>4, Zenon DEF PastRun
  <2>6. PICK g : g = ingest'
    OBVIOUS
  <2>7. ingest' = Append(ingest, x)
    <3>1. r \notin DOMAIN ingest
      BY <1>6, <2>1
    <3>2. x = [base |-> b, end |-> closed, status |-> "RUNNING", final |-> FALSE]
      BY <2>2, <2>4, Zenon
    <3> QED BY <1>4, <3>1, <3>2, Zenon
  <2>8. g \in Seq(PastRun) /\ Len(g) = n + 1 /\ g[n + 1] = x /\ \A i \in 1..n : g[i] = ingest[i]
    BY <1>2, <1>6, <2>5, <2>6, <2>7
  <2>9. PastIds' = 1..(n + 1) /\ Len(ingest)' = n + 1
    BY <2>6, <2>8 DEF PastIds
  <2>10. \A i \in PastIds' : ingest'[i].end \in 1..closed
    <3> SUFFICES ASSUME NEW i \in 1..(n + 1) PROVE g[i].end \in 1..closed
      BY <2>6, <2>9
    <3>1. CASE i \in 1..n
      BY <1>6, <2>8, <3>1 DEF PastInv, PastTyped
    <3>2. CASE i = n + 1
      BY <1>5, <1>6, <2>5, <2>8, <3>2
    <3> QED BY <1>6, <3>1, <3>2
  <2>11. PastBases'
    <3> SUFFICES ASSUME NEW i \in 1..(n + 1), NEW j \in 1..(n + 1), g[i].base, g[j].base, g[i].end = g[j].end PROVE i = j
      BY <2>6, <2>9 DEF PastBases
    <3>1. ASSUME NEW k \in 1..n, b PROVE ~(g[k].base /\ g[k].end = closed)
      BY <1>2, <1>6, <2>3, <2>8, <3>1, Zenon
    <3>2. CASE i \in 1..n /\ j \in 1..n
      BY <1>6, <2>8, <3>2 DEF PastInv, PastBases
    <3>3. CASE i = n + 1 /\ j \in 1..n
      BY <2>5, <2>8, <3>1, <3>3
    <3>4. CASE i \in 1..n /\ j = n + 1
      BY <2>5, <2>8, <3>1, <3>4
    <3> QED BY <1>6, <3>2, <3>3, <3>4
  <2>12. Cardinality(PastOpen)' = Cardinality(PastOpen) + 1
    <3>1. PICK S : S = PastOpen
      OBVIOUS
    <3>2. PastOpen' = S \cup {n + 1} /\ S \in SUBSET (1..n)
      <4>1. PastOpen' = {i \in 1..(n + 1) : ~g[i].final} /\ S = {i \in 1..n : ~ingest[i].final}
        BY <1>6, <2>6, <2>9, <3>1 DEF PastOpen
      <4>2. ~g[n + 1].final
        BY <2>2, <2>5, <2>8, Zenon
      <4> QED BY <1>6, <2>8, <4>1, <4>2
    <3>3. Cardinality(S \cup {n + 1}) = Cardinality(S) + 1
      BY <1>6, <3>2, CountMore, Zenon
    <3> QED BY <3>1, <3>2, <3>3
  <2>13. r \in PastIds' /\ ~ingest'[r].final /\ r \in Nat /\ r <= Len(ingest)' /\ Len(ingest)' \in Nat
    <3>1. ~g[n + 1].final
      BY <2>2, <2>5, <2>8, Zenon
    <3> QED BY <1>6, <2>1, <2>6, <2>9, <3>1
  <2>14. PastGoes(q)' /\ q.cmd = "collect"
    BY <1>3, <1>5, <1>6, <2>13, PastBegun
  <2>15. Cardinality(PastOpen)' <= ends + PastWorking(q)
    BY <1>7, <1>9, <2>12, <2>14
  <2> QED BY <1>4, <1>5, <1>8, <2>6, <2>8, <2>10, <2>11, <2>14, <2>15, PastRunStep, Zenon
<1> QED BY <1>10, <1>11

LEMMA PastStep == ASSUME PastInv, [Past!Next]_pastVars PROVE PastInv'
<1>1. CASE UNCHANGED pastVars
  <2>1. UNCHANGED <<closed, have, ingest, universes, requests, ends, command>>
    BY <1>1 DEF pastVars
  <2> QED BY <2>1 DEF PastInv, PastTyped, PastGoes, PastBases, PastCounted, PastOnce, PastWhole, PastIds, PastDays, PastFirst, PastOpen, Past!BarsOf
<1>2. CASE Past!Next
  BY <1>2, PastScan, PastTick, PastCrash, PastStartIncremental, PastStartCollect, PastKlines, PastDone, PastNext, PastFinish, PastRunEnds
     DEF Past!Next, Past!JobStep
<1> QED BY <1>1, <1>2

-----------------------------------------------------------------------------
(* The command server. *)
ChatIds == 1..Len(chat)
ChatValues == {u.value : u \in ChatUpdates}
ChatRows == [Chat!Fields -> ChatValues \cup {None}]
(* The next update to be handled: behind the offset, or what Telegram has not been told of. *)
ChatCursor == IF offset = 0 THEN told + 1 ELSE offset
ChatTyped ==
  /\ chat \in Seq(ChatUpdates) /\ handled \in Seq(Nat) /\ Len(handled) = Len(chat)
  /\ told \in 0..Len(chat) /\ offset \in 0..(Len(chat) + 1) /\ (offset # 0 => told < offset)
  /\ settings \in [Chat!Strategies -> ChatRows \cup {None}]
  /\ writeFaults \in Nat /\ restarts \in Nat
(* The batch is what follows, without a gap. *)
ChatFollows ==
  /\ batch \in Seq(Nat) /\ Len(batch) <= PollPage
  /\ \A k \in 1..Len(batch) : batch[k] = ChatCursor + k - 1 /\ batch[k] \in ChatIds
(* What lies before the cursor was handled, and by this process once at most. *)
ChatCounted ==
  \A i \in ChatIds : /\ handled[i] <= restarts + IF i < ChatCursor THEN 1 ELSE 0
                     /\ i < ChatCursor => handled[i] > 0
ChatSays(u) == IF u.cmd = "reset" THEN "default" ELSE u.value
(* Of a setting the scans see the default while no command before the cursor writes it, *)
(* else a command that no further one before the cursor follows.                       *)
ChatStands(s, f) ==
  \/ (\A x \in Chat!Writers(s, f) : x >= ChatCursor) /\ Chat!Resolved(s, f) = "default"
  \/ \E w \in Chat!Writers(s, f) : /\ Chat!Resolved(s, f) = ChatSays(chat[w])
                                   /\ \A x \in Chat!Writers(s, f) : x < ChatCursor => x <= w
ChatAll == writeFaults = 0 => \A s \in Chat!Strategies : \A f \in Chat!Fields : ChatStands(s, f)
ChatInv == ChatTyped /\ ChatFollows /\ ChatCounted /\ ChatAll

LEMMA ChatFacts == ASSUME ChatInv
    PROVE  /\ Len(chat) \in Nat /\ Len(handled) = Len(chat) /\ told \in Nat /\ offset \in Nat /\ ChatCursor \in Nat
           /\ told < ChatCursor /\ offset <= ChatCursor /\ ChatCursor <= Len(chat) + 1 /\ told <= Len(chat)
           /\ DOMAIN chat = ChatIds /\ DOMAIN handled = ChatIds /\ (\A i \in ChatIds : chat[i] \in ChatUpdates /\ handled[i] \in Nat)
           /\ Len(batch) \in Nat /\ restarts \in Nat /\ writeFaults \in Nat
<1>1. Len(chat) \in Nat /\ Len(handled) = Len(chat) /\ told \in Nat /\ offset \in Nat /\ told <= Len(chat) /\ offset <= Len(chat) + 1
  BY DEF ChatInv, ChatTyped
<1>2. DOMAIN chat = ChatIds /\ DOMAIN handled = ChatIds
  BY DEF ChatInv, ChatTyped, ChatIds
<1>3. \A i \in ChatIds : chat[i] \in ChatUpdates /\ handled[i] \in Nat
  BY DEF ChatInv, ChatTyped, ChatIds
<1>4. ChatCursor \in Nat /\ told < ChatCursor /\ offset <= ChatCursor /\ ChatCursor <= Len(chat) + 1
  BY <1>1 DEF ChatInv, ChatTyped, ChatCursor
<1>5. Len(batch) \in Nat /\ restarts \in Nat /\ writeFaults \in Nat
  BY DEF ChatInv, ChatFollows, ChatTyped
<1> QED BY <1>1, <1>2, <1>3, <1>4, <1>5

LEMMA ChatMax == \A S : Chat!Max(S) = Max(S) /\ Chat!Min(S) = Min(S)
  BY DEF Chat!Max, Max, Chat!Min, Min

(* Of the places of a sequence, a set that has one has a last one. *)
LEMMA ChatLast == ASSUME NEW n \in Nat, NEW S \in SUBSET (1..n), S # {}
    PROVE  Max(S) \in S /\ \A x \in S : x <= Max(S)
<1>1. IsFiniteSet(1..n)
  BY FS_Interval
<1>2. IsFiniteSet(S)
  BY <1>1, FS_Subset, Zenon
<1>3. S \in SUBSET Int
  OBVIOUS
<1>4. Max(S) \in S /\ \A x \in S : Max(S) >= x
  BY <1>2, <1>3, MaxExists
<1> QED BY <1>3, <1>4

LEMMA ChatMeans == ASSUME ChatInv PROVE Chat!TypeOK /\ Chat!RepeatsAreRestarts /\ Chat!LatestStands
<1>1. Chat!TypeOK
  <2>1. \A s \in Chat!Strategies : settings[s] = None \/ DOMAIN settings[s] = Chat!Fields
    BY DEF ChatInv, ChatTyped, ChatRows
  <2> QED BY <2>1 DEF ChatInv, ChatTyped, ChatFollows, Chat!TypeOK
<1>2. Chat!RepeatsAreRestarts
  <2> SUFFICES ASSUME NEW i \in ChatIds PROVE handled[i] <= 1 + restarts
    BY ChatFacts DEF Chat!RepeatsAreRestarts
  <2>1. handled[i] \in Nat /\ restarts \in Nat /\ handled[i] <= restarts + IF i < ChatCursor THEN 1 ELSE 0
    BY ChatFacts DEF ChatInv, ChatCounted
  <2> QED BY <2>1
<1>3. Chat!LatestStands
  <2> SUFFICES ASSUME Chat!Settled
               PROVE  /\ \A i \in DOMAIN chat : handled[i] > 0
                      /\ writeFaults = 0 => \A s \in Chat!Strategies, f \in Chat!Fields : Chat!Resolved(s, f) = Chat!LastCommand(s, f)
    BY DEF Chat!LatestStands
  <2>1. \A i \in ChatIds : i < ChatCursor
    BY ChatFacts DEF Chat!Settled, ChatIds
  <2>2. \A i \in DOMAIN chat : handled[i] > 0
    BY <2>1, ChatFacts DEF ChatInv, ChatCounted
  <2>3. ASSUME writeFaults = 0, NEW s \in Chat!Strategies, NEW f \in Chat!Fields
        PROVE  Chat!Resolved(s, f) = Chat!LastCommand(s, f)
    <3>1. PICK W, n : W = Chat!Writers(s, f) /\ n = Len(chat)
      BY Zenon
    <3>2. n \in Nat /\ W \in SUBSET (1..n) /\ \A x \in W : x < ChatCursor /\ x \in Nat
      BY <2>1, <3>1, ChatFacts DEF Chat!Writers, ChatIds
    <3>3. ChatStands(s, f)
      BY <2>3 DEF ChatInv, ChatAll
    <3>4. CASE W = {}
      BY <3>1, <3>3, <3>4 DEF ChatStands, Chat!LastCommand
    <3>5. CASE W # {}
      <4>1. PICK m : m = Max(W)
        OBVIOUS
      <4>2. m \in W /\ \A x \in W : x <= m
        BY <3>2, <3>5, <4>1, ChatLast
      <4>3. \E w \in W : Chat!Resolved(s, f) = ChatSays(chat[w]) /\ \A x \in W : x <= w
        BY <3>1, <3>2, <3>3, <3>5, ChatFacts DEF ChatStands
      <4>4. PICK w \in W : Chat!Resolved(s, f) = ChatSays(chat[w]) /\ \A x \in W : x <= w
        BY <4>3
      <4>5. w = m
        BY <3>2, <4>2, <4>4
      <4>6. Chat!Max(W) = m
        BY <4>1, ChatMax
      <4> QED BY <3>1, <3>5, <4>4, <4>5, <4>6 DEF ChatSays, Chat!LastCommand
    <3> QED BY <3>4, <3>5
  <2> QED BY <2>2, <2>3
<1> QED BY <1>1, <1>2, <1>3

LEMMA ChatInit == ASSUME Chat!Init PROVE ChatInv
<1> USE DEF Chat!Init
<1>1. chat = <<>> /\ told = 0 /\ offset = 0 /\ batch = <<>> /\ handled = <<>> /\ writeFaults = 0 /\ restarts = 0 /\ ChatIds = {}
  BY DEF ChatIds
<1>2. ChatTyped
  BY <1>1 DEF ChatTyped
<1>3. ChatFollows
  BY <1>1, ChatAssumption DEF ChatFollows
<1>4. ChatCounted
  BY <1>1 DEF ChatCounted
<1>5. ASSUME NEW s \in Chat!Strategies, NEW f \in Chat!Fields PROVE ChatStands(s, f)
  <2>1. Chat!Writers(s, f) = {}
    BY <1>1 DEF Chat!Writers
  <2>2. settings[s] = None
    OBVIOUS
  <2> QED BY <2>1, <2>2 DEF ChatStands, Chat!Resolved
<1> QED BY <1>2, <1>3, <1>4, <1>5 DEF ChatInv, ChatAll

(* A step that handles nothing keeps what stands, when the cursor falls or stays. *)
LEMMA ChatKeeps ==
    ASSUME ChatInv, UNCHANGED <<chat, settings, handled, writeFaults>>, restarts' \in Nat, restarts' >= restarts,
           told' \in 0..Len(chat), offset' \in 0..(Len(chat) + 1), offset' # 0 => told' < offset',
           ChatCursor' \in Nat, ChatCursor' <= ChatCursor, ChatCursor' < ChatCursor => restarts' >= restarts + 1,
           ChatFollows'
    PROVE  ChatInv'
<1>1. ChatTyped'
  BY DEF ChatInv, ChatTyped
<1>2. ChatCounted'
  <2> SUFFICES ASSUME NEW i \in ChatIds
               PROVE  /\ handled[i] <= restarts' + IF i < ChatCursor' THEN 1 ELSE 0
                      /\ i < ChatCursor' => handled[i] > 0
    BY DEF ChatCounted, ChatIds
  <2>1. /\ handled[i] <= restarts + (IF i < ChatCursor THEN 1 ELSE 0) /\ (i < ChatCursor => handled[i] > 0)
        /\ handled[i] \in Nat /\ i \in Nat /\ restarts \in Nat /\ ChatCursor \in Nat
    BY ChatFacts DEF ChatInv, ChatCounted, ChatIds
  <2> QED BY <2>1
<1>3. ASSUME NEW s \in Chat!Strategies, NEW f \in Chat!Fields, ChatStands(s, f) PROVE ChatStands(s, f)'
  <2>1. Chat!Writers(s, f)' = Chat!Writers(s, f) /\ Chat!Resolved(s, f)' = Chat!Resolved(s, f)
    BY DEF Chat!Writers, Chat!Resolved
  <2>2. \A x \in Chat!Writers(s, f) : x \in Nat
    BY ChatFacts DEF Chat!Writers, ChatIds
  <2>3. \A x \in Chat!Writers(s, f) : (x >= ChatCursor => x >= ChatCursor') /\ (x < ChatCursor' => x < ChatCursor)
    BY <2>2, ChatFacts
  <2> QED BY <1>3, <2>1, <2>3 DEF ChatStands
<1>4. ChatAll'
  BY <1>3 DEF ChatInv, ChatAll
<1> QED BY <1>1, <1>2, <1>4 DEF ChatInv

LEMMA ChatSend == ASSUME ChatInv, NEW u \in ChatUpdates, Chat!Send(u) PROVE ChatInv'
<1> USE DEF Chat!Send
<1>1. PICK g, h, n : g = chat' /\ h = handled' /\ n = Len(chat)
  BY Zenon
<1>2. g = Append(chat, u) /\ h = Append(handled, 0) /\ UNCHANGED <<told, offset, batch, settings, writeFaults, restarts>>
  BY <1>1
<1>3. chat \in Seq(ChatUpdates) /\ handled \in Seq(Nat) /\ n \in Nat /\ Len(handled) = n /\ ChatIds = 1..n
  BY <1>1, ChatFacts DEF ChatInv, ChatTyped, ChatIds
<1>4. /\ g \in Seq(ChatUpdates) /\ Len(g) = n + 1 /\ g[n + 1] = u /\ (\A i \in 1..n : g[i] = chat[i])
      /\ h \in Seq(Nat) /\ Len(h) = n + 1 /\ h[n + 1] = 0 /\ \A i \in 1..n : h[i] = handled[i]
  BY <1>1, <1>2, <1>3
<1>5. ChatIds' = 1..(n + 1) /\ ChatCursor' = ChatCursor /\ ChatCursor <= n + 1 /\ ChatCursor \in Nat
  BY <1>1, <1>2, <1>4, ChatFacts DEF ChatIds, ChatCursor
<1>6. ChatTyped'
  BY <1>1, <1>2, <1>3, <1>4 DEF ChatInv, ChatTyped
<1>7. ChatFollows'
  BY <1>2, <1>3, <1>5 DEF ChatInv, ChatFollows
<1>8. ChatCounted'
  <2> SUFFICES ASSUME NEW i \in 1..(n + 1)
               PROVE  /\ h[i] <= restarts + IF i < ChatCursor THEN 1 ELSE 0
                      /\ i < ChatCursor => h[i] > 0
    BY <1>1, <1>2, <1>5, Zenon DEF ChatCounted
  <2>1. CASE i \in 1..n
    BY <1>3, <1>4, <2>1, Zenon DEF ChatInv, ChatCounted
  <2>2. CASE i = n + 1
    BY <1>4, <1>5, <2>2, ChatFacts
  <2> QED BY <1>3, <2>1, <2>2
<1>9. ASSUME NEW s \in Chat!Strategies, NEW f \in Chat!Fields, ChatStands(s, f) PROVE ChatStands(s, f)'
  <2>1. PICK W, V : W = Chat!Writers(s, f) /\ V = Chat!Writers(s, f)'
    OBVIOUS
  <2>2. W \subseteq V /\ V \subseteq W \cup {n + 1} /\ W \subseteq 1..n
    <3>1. DOMAIN g = 1..(n + 1) /\ DOMAIN chat = 1..n
      BY <1>3, <1>4, ChatFacts
    <3>2. /\ W = {i \in 1..n : /\ Chat!Accepted(chat[i]) /\ chat[i].strategy = s
                               /\ chat[i].cmd = "reset" \/ Chat!FieldOf[chat[i].cmd] = f}
          /\ V = {i \in 1..(n + 1) : /\ Chat!Accepted(g[i]) /\ g[i].strategy = s
                                     /\ g[i].cmd = "reset" \/ Chat!FieldOf[g[i].cmd] = f}
      BY <1>1, <2>1, <3>1 DEF Chat!Writers
    <3>3. ASSUME NEW i \in 1..n PROVE i \in V <=> i \in W
      BY <1>3, <1>4, <3>2
    <3>4. W \subseteq 1..n
      BY <3>2
    <3>5. W \subseteq V
      BY <3>3, <3>4
    <3>6. \A x \in V : x \in 1..n \/ x = n + 1
      BY <1>3, <3>2
    <3>7. V \subseteq W \cup {n + 1}
      BY <3>3, <3>6
    <3> QED BY <3>4, <3>5, <3>7
  <2>3. Chat!Resolved(s, f)' = Chat!Resolved(s, f)
    BY <1>2 DEF Chat!Resolved
  <2>4. \A x \in V : x < ChatCursor => x \in W
    BY <1>3, <1>5, <2>2
  <2>5. CASE (\A x \in W : x >= ChatCursor) /\ Chat!Resolved(s, f) = "default"
    <3>1. \A x \in V : x >= ChatCursor
      BY <1>3, <1>5, <2>2, <2>5
    <3> QED BY <1>5, <2>1, <2>3, <2>5, <3>1 DEF ChatStands
  <2>6. ASSUME NEW w \in W, Chat!Resolved(s, f) = ChatSays(chat[w]), \A x \in W : x < ChatCursor => x <= w
        PROVE  ChatStands(s, f)'
    <3>1. w \in V /\ g[w] = chat[w] /\ \A x \in V : x < ChatCursor => x <= w
      BY <1>4, <2>2, <2>4, <2>6
    <3> QED BY <1>1, <1>5, <2>1, <2>3, <2>6, <3>1, Zenon DEF ChatStands, ChatSays
  <2> QED BY <1>9, <2>1, <2>5, <2>6, Zenon DEF ChatStands
<1>10. ChatAll'
  BY <1>2, <1>9 DEF ChatInv, ChatAll
<1> QED BY <1>6, <1>7, <1>8, <1>10 DEF ChatInv

(* What a poll confirms is what this process has handled. *)
LEMMA ChatConfirm == ASSUME ChatInv, Chat!Confirm
    PROVE  told' \in 0..Len(chat) /\ told' = IF offset = 0 THEN told ELSE offset - 1
<1>1. told \in Nat /\ offset \in Nat /\ Len(chat) \in Nat /\ told <= Len(chat) /\ offset <= Len(chat) + 1 /\ (offset # 0 => told < offset)
  BY ChatFacts DEF ChatInv, ChatTyped
<1>2. PICK k : k = offset - 1
  OBVIOUS
<1>3. Max({told, k}) = IF told >= k THEN told ELSE k
  BY <1>1, <1>2, MaxOfTwoA
<1>4. told' = IF told >= k THEN told ELSE k
  BY <1>2, <1>3, ChatMax DEF Chat!Confirm
<1> QED BY <1>1, <1>2, <1>4

LEMMA ChatPoll == ASSUME ChatInv, Chat!Poll \/ Chat!PollLost PROVE ChatInv'
<1>1. UNCHANGED <<chat, offset, settings, handled, writeFaults, restarts>> /\ batch = <<>> /\ Chat!Confirm
  BY DEF Chat!Poll, Chat!PollLost
<1>2. told' \in 0..Len(chat) /\ told' = (IF offset = 0 THEN told ELSE offset - 1)
  BY <1>1, ChatConfirm
<1>3. /\ told \in Nat /\ offset \in Nat /\ Len(chat) \in Nat /\ told <= Len(chat) /\ offset <= Len(chat) + 1 /\ (offset # 0 => told < offset)
      /\ restarts \in Nat
  BY ChatFacts DEF ChatInv, ChatTyped
<1>4. ChatCursor' = told' + 1 /\ ChatCursor = told' + 1
  BY <1>1, <1>2, <1>3 DEF ChatCursor
<1>5. ChatFollows'
  <2>1. CASE Chat!PollLost
    <3>1. batch' = <<>>
      BY <2>1 DEF Chat!PollLost
    <3> QED BY <3>1, ChatAssumption DEF ChatFollows
  <2>2. CASE Chat!Poll
    <3>1. PICK t, n, b : t = told' /\ n = Chat!Min({PollPage, Len(chat) - t}) /\ b = batch'
      BY Zenon
    <3>2. b = [i \in 1..n |-> t + i]
      BY <2>2, <3>1 DEF Chat!Poll
    <3>3. t \in Nat /\ t <= Len(chat)
      BY <1>2, <1>3, <3>1
    <3>4. n \in Nat /\ n <= PollPage /\ t + n <= Len(chat)
      <4>1. PICK k : k = Len(chat) - t
        OBVIOUS
      <4>2. k \in Nat /\ PollPage \in Nat
        BY <1>3, <3>3, <4>1, ChatAssumption
      <4>3. Min({PollPage, k}) = IF PollPage <= k THEN PollPage ELSE k
        BY <4>2, MinOfTwo
      <4>4. n = IF PollPage <= k THEN PollPage ELSE k
        BY <3>1, <4>1, <4>3, ChatMax
      <4> QED BY <1>3, <3>3, <4>1, <4>2, <4>4
    <3>5. b \in Seq(Nat) /\ Len(b) = n
      BY <3>2, <3>3, <3>4
    <3>6. \A i \in 1..n : b[i] = t + i /\ b[i] \in 1..Len(chat)
      BY <1>3, <3>2, <3>3, <3>4
    <3>7. \A i \in 1..n : b[i] = ChatCursor' + i - 1
      <4>1. PICK c : c = ChatCursor'
        OBVIOUS
      <4>2. c = t + 1
        BY <1>4, <3>1, <4>1
      <4>3. \A i \in 1..n : b[i] = c + i - 1
        BY <3>3, <3>4, <3>6, <4>2
      <4> QED BY <4>1, <4>3
    <3>8. ChatIds' = 1..Len(chat)
      BY <1>1 DEF ChatIds
    <3> QED BY <3>1, <3>4, <3>5, <3>6, <3>7, <3>8, Zenon DEF ChatFollows
  <2> QED BY <2>1, <2>2
<1>6. ChatCursor' \in Nat /\ ChatCursor' = ChatCursor
  BY <1>2, <1>3, <1>4
<1>7. offset' \in 0..(Len(chat) + 1) /\ (offset' # 0 => told' < offset') /\ restarts' = restarts
  BY <1>1, <1>2, <1>3
<1> QED BY <1>1, <1>2, <1>3, <1>5, <1>6, <1>7, ChatKeeps

LEMMA ChatRestart == ASSUME ChatInv, Chat!Restart PROVE ChatInv'
<1>1. UNCHANGED <<chat, told, settings, handled, writeFaults>> /\ offset' = 0 /\ batch' = <<>> /\ restarts' = restarts + 1
  BY DEF Chat!Restart
<1>2. told \in 0..Len(chat) /\ Len(chat) \in Nat /\ restarts \in Nat /\ ChatCursor \in Nat /\ told < ChatCursor /\ told \in Nat
  BY ChatFacts DEF ChatInv, ChatTyped
<1>3. ChatCursor' = told + 1
  BY <1>1 DEF ChatCursor
<1>4. ChatFollows'
  BY <1>1, ChatAssumption DEF ChatFollows
<1>5. /\ restarts' \in Nat /\ restarts' >= restarts + 1 /\ told' \in 0..Len(chat) /\ offset' \in 0..(Len(chat) + 1)
      /\ ChatCursor' \in Nat /\ ChatCursor' <= ChatCursor /\ restarts' >= restarts /\ (offset' # 0 => told' < offset')
  BY <1>1, <1>2, <1>3
<1> QED BY <1>1, <1>4, <1>5, ChatKeeps

(* What a command leaves of the settings of its strategy. *)
LEMMA ChatAfter ==
    ASSUME ChatInv, NEW u \in ChatUpdates, Chat!Accepted(u), settings' = [settings EXCEPT ![u.strategy] = Chat!After(u)]
    PROVE  /\ settings' \in [Chat!Strategies -> ChatRows \cup {None}]
           /\ \A s \in Chat!Strategies : s # u.strategy => settings'[s] = settings[s]
           /\ u.strategy \in Chat!Strategies
           /\ u.cmd = "reset" => \A f \in Chat!Fields : Chat!Resolved(u.strategy, f)' = "default"
           /\ u.cmd # "reset" => \A f \in Chat!Fields :
                Chat!Resolved(u.strategy, f)' = IF f = Chat!FieldOf[u.cmd] THEN u.value ELSE Chat!Resolved(u.strategy, f)
<1>1. PICK s, r, F, v, g : s = u.strategy /\ r = settings[s] /\ F = Chat!FieldOf[u.cmd] /\ v = u.value /\ g = settings'
  OBVIOUS
<1>2. s \in Chat!Strategies /\ settings \in [Chat!Strategies -> ChatRows \cup {None}] /\ r \in ChatRows \cup {None}
  BY <1>1 DEF Chat!Strategies, ChatInv, ChatTyped
<1>3. v \in ChatValues /\ v # None /\ None \notin ChatRows
  BY <1>1, ChatAssumption DEF ChatValues, ChatRows
<1>4. CASE u.cmd = "reset"
  <2>1. g = [settings EXCEPT ![s] = None]
    BY <1>1, <1>4 DEF Chat!After
  <2>2. g \in [Chat!Strategies -> ChatRows \cup {None}] /\ g[s] = None /\ \A t \in Chat!Strategies : t # s => g[t] = settings[t]
    BY <1>2, <2>1
  <2> QED BY <1>1, <1>2, <1>4, <2>2 DEF Chat!Resolved
<1>5. CASE u.cmd # "reset"
  <2>1. PICK o, q : o = (IF r = None THEN [f \in Chat!Fields |-> None] ELSE r) /\ q = [o EXCEPT ![F] = v]
    BY Zenon
  <2>2. g = [settings EXCEPT ![s] = q]
    BY <1>1, <1>5, <2>1 DEF Chat!After, Chat!Upsert
  <2>3. F \in Chat!Fields
    <3>1. u.cmd \in {"dedup", "maxorders", "livemode", "paper", "setlive"}
      BY <1>5 DEF Chat!Accepted, Chat!SetLimit, Chat!LiveMode, Chat!PaperSwitch, Chat!SetLive
    <3>2. u.cmd \in DOMAIN Chat!FieldOf
      BY <3>1 DEF Chat!FieldOf
    <3> QED BY <1>1, <3>2 DEF Chat!Fields
  <2>4. o \in ChatRows
    BY <1>2, <2>1 DEF ChatRows
  <2>5. q \in ChatRows /\ q[F] = v /\ \A f \in Chat!Fields : f # F => q[f] = o[f]
    BY <1>3, <2>1, <2>3, <2>4 DEF ChatRows
  <2>6. q # None
    BY <1>3, <2>5
  <2>7. g \in [Chat!Strategies -> ChatRows \cup {None}] /\ g[s] = q /\ \A t \in Chat!Strategies : t # s => g[t] = settings[t]
    BY <1>2, <2>2, <2>5
  <2>8. ASSUME NEW f \in Chat!Fields
        PROVE  Chat!Resolved(s, f)' = IF f = F THEN v ELSE Chat!Resolved(s, f)
    <3>1. Chat!Resolved(s, f)' = IF q[f] = None THEN "default" ELSE q[f]
      BY <1>1, <2>6, <2>7 DEF Chat!Resolved
    <3>2. CASE f = F
      BY <1>3, <2>5, <3>1, <3>2
    <3>3. CASE f # F
      <4>1. q[f] = o[f]
        BY <2>5, <3>3
      <4>2. CASE r = None
        <5>1. o[f] = None
          BY <2>1, <4>2
        <5> QED BY <1>1, <3>1, <3>3, <4>1, <4>2, <5>1 DEF Chat!Resolved
      <4>3. CASE r # None
        BY <1>1, <2>1, <3>1, <3>3, <4>1, <4>3 DEF Chat!Resolved
      <4> QED BY <4>2, <4>3
    <3> QED BY <3>2, <3>3
  <2> QED BY <1>1, <1>2, <1>5, <2>7, <2>8
<1> QED BY <1>4, <1>5

LEMMA ChatHandle == ASSUME ChatInv, Chat!Handle PROVE ChatInv'
<1>1. PICK i, u, n, b, g : i = Head(batch) /\ u = chat[i] /\ n = Len(batch) /\ b = batch' /\ g = handled'
  BY Zenon
<1>2. /\ batch # <<>> /\ offset' = i + 1 /\ b = Tail(batch) /\ g = [handled EXCEPT ![i] = @ + 1]
      /\ \/ ~Chat!Accepted(u) /\ UNCHANGED <<settings, writeFaults>>
         \/ Chat!Accepted(u) /\ settings' = [settings EXCEPT ![u.strategy] = Chat!After(u)] /\ UNCHANGED writeFaults
         \/ Chat!Accepted(u) /\ writeFaults' = writeFaults + 1 /\ UNCHANGED settings
      /\ UNCHANGED <<chat, told, restarts>>
  BY <1>1 DEF Chat!Handle
<1>3. /\ batch \in Seq(Nat) /\ n \in Nat /\ n <= PollPage /\ PollPage \in Nat
      /\ \A k \in 1..n : batch[k] = ChatCursor + k - 1 /\ batch[k] \in ChatIds
  BY <1>1, ChatAssumption DEF ChatInv, ChatFollows
<1>4. n >= 1 /\ i = ChatCursor /\ i \in ChatIds /\ i \in Nat /\ i >= 1
  <2>1. n >= 1 /\ i = batch[1]
    BY <1>1, <1>2, <1>3
  <2>2. batch[1] = ChatCursor + 1 - 1 /\ batch[1] \in ChatIds
    BY <1>3, <2>1
  <2> QED BY <2>1, <2>2, ChatFacts DEF ChatIds
<1>5. /\ u \in ChatUpdates /\ ChatIds' = ChatIds /\ Len(chat) \in Nat /\ i <= Len(chat) /\ told \in Nat /\ told < i /\ ChatCursor' = i + 1
      /\ restarts \in Nat /\ writeFaults \in Nat
  <2>1. ChatCursor' = i + 1
    BY <1>2, <1>4 DEF ChatCursor
  <2> QED BY <1>1, <1>2, <1>4, <2>1, ChatFacts DEF ChatIds
<1>6. settings' \in [Chat!Strategies -> ChatRows \cup {None}] /\ writeFaults' \in Nat
  <2>1. settings \in [Chat!Strategies -> ChatRows \cup {None}]
    BY DEF ChatInv, ChatTyped
  <2>2. CASE Chat!Accepted(u) /\ settings' = [settings EXCEPT ![u.strategy] = Chat!After(u)] /\ UNCHANGED writeFaults
    BY <1>5, <2>2, ChatAfter, Zenon
  <2> QED BY <1>2, <1>5, <2>1, <2>2
<1>7. g \in Seq(Nat) /\ Len(g) = Len(chat) /\ g[i] = handled[i] + 1 /\ \A k \in ChatIds : k # i => g[k] = handled[k]
  <2>1. handled \in Seq(Nat) /\ Len(handled) = Len(chat) /\ i \in 1..Len(handled) /\ handled[i] \in Nat
    BY <1>4, ChatFacts DEF ChatInv, ChatTyped, ChatIds
  <2>2. PICK y : y = handled[i] + 1
    OBVIOUS
  <2>3. g = [handled EXCEPT ![i] = y]
    BY <1>2, <2>2, Zenon
  <2> QED BY <2>1, <2>2, <2>3 DEF ChatIds
<1>8. ChatTyped'
  <2>1. told' \in 0..Len(chat) /\ offset' \in 0..(Len(chat) + 1) /\ (offset' # 0 => told' < offset')
    BY <1>2, <1>4, <1>5
  <2> QED BY <1>1, <1>2, <1>5, <1>6, <1>7, <2>1 DEF ChatInv, ChatTyped
<1>9. ChatFollows'
  <2>1. b \in Seq(Nat) /\ Len(b) = n - 1 /\ \A k \in 1..(n - 1) : b[k] = batch[k + 1]
    BY <1>1, <1>2, <1>3
  <2>2. PICK c : c = ChatCursor'
    OBVIOUS
  <2>3. \A k \in 1..(n - 1) : b[k] = c + k - 1 /\ b[k] \in ChatIds
    <3> SUFFICES ASSUME NEW k \in 1..(n - 1) PROVE b[k] = c + k - 1 /\ b[k] \in ChatIds
      OBVIOUS
    <3>1. k + 1 \in 1..n /\ b[k] = batch[k + 1]
      BY <1>3, <2>1
    <3>2. batch[k + 1] = ChatCursor + (k + 1) - 1 /\ batch[k + 1] \in ChatIds
      BY <1>3, <3>1
    <3> QED BY <1>4, <1>5, <2>2, <3>1, <3>2
  <2>4. Len(b) <= PollPage
    BY <1>3, <2>1
  <2> QED BY <1>1, <1>5, <2>1, <2>2, <2>3, <2>4 DEF ChatFollows
<1>10. ChatCounted'
  <2> SUFFICES ASSUME NEW k \in ChatIds
               PROVE  /\ g[k] <= restarts + IF k < i + 1 THEN 1 ELSE 0
                      /\ k < i + 1 => g[k] > 0
    BY <1>1, <1>2, <1>5 DEF ChatCounted
  <2>1. /\ handled[k] <= restarts + (IF k < i THEN 1 ELSE 0) /\ (k < i => handled[k] > 0)
        /\ handled[k] \in Nat /\ k \in Nat
    BY <1>4, ChatFacts DEF ChatInv, ChatCounted, ChatIds
  <2>2. CASE k = i
    BY <1>4, <1>5, <1>7, <2>1, <2>2
  <2>3. CASE k # i
    BY <1>4, <1>5, <1>7, <2>1, <2>3
  <2> QED BY <2>2, <2>3
<1>11. ASSUME writeFaults' = 0, NEW s \in Chat!Strategies, NEW f \in Chat!Fields PROVE ChatStands(s, f)'
  <2>1. PICK W, R : W = Chat!Writers(s, f) /\ R = Chat!Resolved(s, f)'
    OBVIOUS
  <2>2. Chat!Writers(s, f)' = W /\ \A x \in W : x \in Nat /\ (x < i + 1 => x <= i)
    <3>1. Chat!Writers(s, f)' = W
      BY <1>2, <2>1 DEF Chat!Writers
    <3>2. \A x \in W : x \in Nat
      BY <2>1, ChatFacts DEF Chat!Writers, ChatIds
    <3> QED BY <1>4, <3>1, <3>2
  <2>3. writeFaults = 0 /\ ChatStands(s, f)
    BY <1>2, <1>5, <1>11 DEF ChatInv, ChatAll
  <2>4. ASSUME R = Chat!Resolved(s, f), i \notin W PROVE ChatStands(s, f)'
    <3>1. \A x \in W : (x >= i => x >= i + 1) /\ (x < i + 1 => x < i)
      BY <1>4, <2>2, <2>4
    <3>2. CASE (\A x \in W : x >= i) /\ R = "default"
      BY <1>5, <2>1, <2>2, <3>1, <3>2 DEF ChatStands
    <3>3. ASSUME NEW w \in W, R = ChatSays(chat[w]), \A x \in W : x < i => x <= w
          PROVE  ChatStands(s, f)'
      BY <1>2, <1>5, <2>1, <2>2, <3>1, <3>3 DEF ChatStands, ChatSays
    <3> QED BY <1>4, <2>1, <2>3, <2>4, <3>2, <3>3 DEF ChatStands
  <2>5. ASSUME i \in W, R = ChatSays(u) PROVE ChatStands(s, f)'
    BY <1>1, <1>2, <1>5, <2>1, <2>2, <2>5, Zenon DEF ChatStands, ChatSays
  <2>6. i \in W <=> Chat!Accepted(u) /\ u.strategy = s /\ (u.cmd = "reset" \/ Chat!FieldOf[u.cmd] = f)
    BY <1>1, <1>4, <2>1, ChatFacts DEF Chat!Writers
  <2>7. CASE ~Chat!Accepted(u) /\ UNCHANGED <<settings, writeFaults>>
    <3>1. R = Chat!Resolved(s, f)
      BY <2>1, <2>7 DEF Chat!Resolved
    <3> QED BY <2>4, <2>6, <2>7, <3>1
  <2>8. CASE Chat!Accepted(u) /\ settings' = [settings EXCEPT ![u.strategy] = Chat!After(u)] /\ UNCHANGED writeFaults
    <3>1. CASE u.strategy # s
      <4>1. settings'[s] = settings[s]
        BY <1>5, <2>8, <3>1, ChatAfter
      <4>2. R = Chat!Resolved(s, f)
        BY <2>1, <4>1 DEF Chat!Resolved
      <4> QED BY <2>4, <2>6, <3>1, <4>2
    <3>2. CASE u.strategy = s /\ u.cmd = "reset"
      <4>1. R = "default"
        BY <1>5, <2>1, <2>8, <3>2, ChatAfter, Zenon
      <4> QED BY <2>5, <2>6, <2>8, <3>2, <4>1 DEF ChatSays
    <3>3. CASE u.strategy = s /\ u.cmd # "reset"
      <4>1. R = IF f = Chat!FieldOf[u.cmd] THEN u.value ELSE Chat!Resolved(s, f)
        BY <1>5, <2>1, <2>8, <3>3, ChatAfter, Zenon
      <4>2. CASE f = Chat!FieldOf[u.cmd]
        BY <2>5, <2>6, <2>8, <3>3, <4>1, <4>2 DEF ChatSays
      <4>3. CASE f # Chat!FieldOf[u.cmd]
        BY <2>4, <2>6, <3>3, <4>1, <4>3
      <4> QED BY <4>2, <4>3
    <3> QED BY <3>1, <3>2, <3>3
  <2>9. CASE writeFaults' = writeFaults + 1
    BY <1>5, <1>11, <2>9
  <2> QED BY <1>2, <2>7, <2>8, <2>9
<1>12. ChatAll'
  BY <1>11 DEF ChatAll
<1> QED BY <1>8, <1>9, <1>10, <1>12 DEF ChatInv

LEMMA ChatStep == ASSUME ChatInv, [Chat!Next]_chatVars PROVE ChatInv'
<1>1. CASE UNCHANGED chatVars
  <2>1. UNCHANGED <<chat, told, offset, batch, settings, handled, writeFaults, restarts>>
    BY <1>1 DEF chatVars
  <2>2. ChatTyped' /\ ChatFollows' /\ ChatCounted'
    BY <2>1 DEF ChatInv, ChatTyped, ChatFollows, ChatCounted, ChatIds, ChatCursor
  <2>3. ChatAll'
    BY <2>1 DEF ChatInv, ChatAll, ChatStands, Chat!Writers, Chat!Resolved, ChatCursor
  <2> QED BY <2>2, <2>3 DEF ChatInv
<1>2. CASE Chat!Next
  BY <1>2, ChatSend, ChatPoll, ChatHandle, ChatRestart DEF Chat!Next
<1> QED BY <1>1, <1>2

-----------------------------------------------------------------------------
(* The strategies' tasks. *)
TaskAll == UNION {b.scans : b \in active}
TaskKeyOf(x) == <<x[1], x[2], scans>>
TaskSteps == {"next", "mark", "save", "event", "place", "shadow", "shadowEvent"}
TaskLefts == SUBSET (Tasks!Ids \X TaskTargets)
(* A scan before its first signal, within one, and one that has a shadow to compare. *)
TaskShort == [pc : {"next"}, task : TaskAll, left : TaskLefts, kept : {Tasks!NoKey}]
TaskFull == [pc : TaskSteps, task : TaskAll, left : TaskLefts, kept : Tasks!Keys, blind : BOOLEAN]
TaskPair == [pc : {"next", "compare"}, task : TaskAll, left : TaskLefts, kept : Tasks!Keys, blind : BOOLEAN,
             pass : BOOLEAN, order : {Tasks!NoKey} \cup Tasks!Keys]
TaskJobs == {Tasks!Idle} \cup TaskShort \cup TaskFull \cup TaskPair

TaskTyped ==
  /\ active \in MCGroups /\ now \in TaskHours
  /\ (\A r \in rows : r \in Tasks!Row) /\ (\A o \in orders : o \in Tasks!Order) /\ IsFiniteSet(orders)
  /\ events \subseteq Tasks!Made /\ live \subseteq Tasks!Keys
  /\ (\A c \in compared : c.source \in Tasks!Keys /\ c.order \in {Tasks!NoKey} \cup Tasks!Keys)
  /\ scans \in {0} \cup Tasks!Scans /\ faults \in 0..MaxFaults
(* What is made in one scan is made at one time, and a shadow in the scan of its source. *)
TaskTimes(j) ==
  /\ \A x \in rows \cup orders : x.scan <= scans /\ (j.pc # "idle" /\ x.scan = scans => x.at = now)
  /\ \A r \in rows : \A o \in orders : r.scan = o.scan => r.at = o.at
TaskSources == \A o \in orders : o.src = Tasks!NoKey \/ o.src[3] = o.scan
(* The signals that are left are new: nothing was shadowed under their keys. *)
TaskLeft(j) ==
  \A x \in j.left : x[1] \in j.task.ids /\ TaskKeyOf(x) # j.kept /\ \A o \in orders : o.src # TaskKeyOf(x)
TaskToday == Cardinality(Tasks!CreatedOn("xau_sma120", now \div 24)) < 3
TaskDaily(j) ==
  j.task.kind = "sma120" => /\ (\A x, y \in j.left : x = y) /\ (j.pc # "next" => j.left = {})
                            /\ (j.left # {} \/ j.pc = "save" => TaskToday)
(* No row of an earlier scan was sent within the window. *)
TaskUnsent(j) ==
  j.blind \/ \A r \in rows : r.sent /\ r.sid = j.kept[1] /\ r.tgt = j.kept[2] /\ r.scan # scans => r.at < now - 24
TaskPcs == {"event", "place", "shadow", "shadowEvent", "compare"}
TaskShadowKey(j) == <<j.task.shadow[j.kept[1]], j.kept[2], j.kept[3]>>
TaskBusy(j) ==
  /\ scans \in Tasks!Scans
  /\ TaskLeft(j) /\ TaskDaily(j)
  /\ j.pc # "next" => j.kept[1] \in j.task.ids /\ j.kept[3] = scans
  /\ j.pc \in {"mark", "save"} => ~Tasks!HasOpen(j.kept[1], j.kept[2])
  /\ j.pc = "mark" => j.task.kind = "classic"
  /\ j.pc \in {"mark", "save"} /\ j.task.kind = "classic" => TaskUnsent(j)
  /\ j.pc \in TaskPcs => j.kept \in Tasks!Made
  /\ j.pc \in TaskPcs \ {"event"} => j.kept \in events
  /\ j.pc \in {"mark", "save", "event", "place", "shadow"} => \A o \in orders : o.src # j.kept
  /\ j.pc \in {"shadow", "shadowEvent", "compare"} => j.kept[1] \in DOMAIN j.task.shadow
  /\ j.pc = "shadowEvent" => /\ \E o \in orders : Tasks!Key(o) = TaskShadowKey(j) /\ o.src = j.kept
                             /\ \A o \in orders : o.src = j.kept => Tasks!Key(o) = TaskShadowKey(j)
  /\ j.pc = "compare" => /\ \A o \in orders : o.src = j.kept => Tasks!Key(o) \in events
                         /\ j.order # Tasks!NoKey => /\ j.pass /\ j.order = TaskShadowKey(j)
                                                     /\ \E o \in orders : Tasks!Key(o) = j.order /\ o.src = j.kept
TaskGoes(j) == j \in TaskJobs /\ (j.pc # "idle" => TaskBusy(j))
(* A failure or a restart leaves one signal half done. *)
TaskHalves(j) == IF j.pc \in {"idle", "next"} THEN Tasks!Halves ELSE Tasks!Halves \ {j.kept}
TaskCounted(j) == IsFiniteSet(Tasks!Halves) /\ Cardinality(TaskHalves(j)) <= faults
TaskKept == Tasks!OneOpen /\ Tasks!OncePerWindow /\ Tasks!DailyKept /\ Tasks!ShadowPairs /\ Tasks!LiveHasOrder
TaskInv == TaskTyped /\ TaskTimes(job) /\ TaskSources /\ TaskGoes(job) /\ TaskCounted(job) /\ TaskKept

LEMMA TaskConstants ==
  /\ TaskHours \subseteq Nat /\ MaxFaults \in Nat /\ IsFiniteSet(TaskTargets)
  /\ \A k \in {"pipeline", "classic", "sma120"} : TaskScans[k] \in Nat /\ k \in DOMAIN TaskScans
  /\ DOMAIN TaskScans = {"pipeline", "classic", "sma120"}
  /\ \A n \in Tasks!Scans : n \in Nat
<1>1. TaskHours \subseteq Nat /\ MaxFaults \in Nat /\ IsFiniteSet(TaskTargets) /\ TaskScans \in [{"pipeline", "classic", "sma120"} -> Nat]
  BY ServicesAssumption, TasksAssumption DEF Tasks!StrategyTasksAssumption
<1>2. \A n \in Tasks!Scans : n \in Nat
  BY <1>1 DEF Tasks!Scans
<1> QED BY <1>1, <1>2

(* What the builders of a process have in common. *)
TaskFits(s) ==
  /\ s.kind \in {"pipeline", "classic", "sma120"} /\ s.hold \in Nat /\ s.ids \subseteq Tasks!Ids
  /\ "xau_sma120" \in s.ids => s.kind = "sma120"
  /\ s.kind = "sma120" => s.ids = {"xau_sma120"}
  /\ s.ids \cap ElementsOf(ShadowIds) = {}
  /\ \A id \in s.ids : id \in DOMAIN ShadowOf => id \in DOMAIN s.shadow
  /\ \A id \in DOMAIN s.shadow : id \in DOMAIN ShadowOf /\ s.shadow[id] = ShadowOf[id]

LEMMA TaskSequences ==
  /\ ElementsOf(ShadowIds) = {"classic_k1_shadow_v2", "classic_k2_shadow_v2"}
  /\ ElementsOf(ClassicIds) = {"classic_c1", "classic_c2", "classic_c3", "classic_c4_top", "classic_c4_bot"}
  /\ ElementsOf(KIds) = {"classic_k1", "classic_k2", "classic_k3", "classic_k4", "classic_k3v2", "classic_k4v2"}
<1>1. DOMAIN ShadowIds = {1, 2} /\ ShadowIds[1] = "classic_k1_shadow_v2" /\ ShadowIds[2] = "classic_k2_shadow_v2"
  BY DEF ShadowIds
<1>2. /\ DOMAIN ClassicIds = {1, 2, 3, 4, 5} /\ ClassicIds[1] = "classic_c1" /\ ClassicIds[2] = "classic_c2" /\ ClassicIds[3] = "classic_c3"
      /\ ClassicIds[4] = "classic_c4_top" /\ ClassicIds[5] = "classic_c4_bot"
  BY DEF ClassicIds
<1>3. /\ DOMAIN KIds = {1, 2, 3, 4, 5, 6} /\ KIds[1] = "classic_k1" /\ KIds[2] = "classic_k2" /\ KIds[3] = "classic_k3"
      /\ KIds[4] = "classic_k4" /\ KIds[5] = "classic_k3v2" /\ KIds[6] = "classic_k4v2"
  BY DEF KIds
<1> QED BY <1>1, <1>2, <1>3 DEF ElementsOf

LEMMA TaskNames == Tasks!ElementsOf(Tasks!ShadowIds) = ElementsOf(ShadowIds) /\ Tasks!ShadowOf = ShadowOf
<1>1. Tasks!ShadowIds = ShadowIds
  BY DEF Tasks!ShadowIds, ShadowIds
<1> QED BY <1>1 DEF Tasks!ElementsOf, ElementsOf, Tasks!ShadowOf, ShadowOf

LEMMA TaskShadows ==
  \A id \in DOMAIN ShadowOf : /\ ShadowOf[id] \in ElementsOf(ShadowIds) /\ ShadowOf[id] \notin DOMAIN ShadowOf
                              /\ ShadowOf[id] # "xau_sma120" /\ ShadowOf[id] \in Tasks!Ids
<1> SUFFICES ASSUME NEW id \in {"classic_k1", "classic_k2"}
             PROVE  /\ ShadowOf[id] \in ElementsOf(ShadowIds) /\ ShadowOf[id] \notin {"classic_k1", "classic_k2"}
                    /\ ShadowOf[id] # "xau_sma120" /\ ShadowOf[id] \in Tasks!Ids
  BY DEF ShadowOf
<1>1. ShadowOf[id] = IF id = "classic_k1" THEN "classic_k1_shadow_v2" ELSE "classic_k2_shadow_v2"
  BY DEF ShadowOf
<1>2. ElementsOf(ShadowIds) \subseteq Tasks!Ids
  BY TaskNames DEF Tasks!Ids
<1> QED BY <1>1, <1>2, TaskSequences

LEMMA TaskBuilt == ASSUME active \in MCGroups
    PROVE  (\A s \in TaskAll : TaskFits(s)) /\ \A s, t \in TaskAll : s.kind = t.kind
<1> DEFINE Fine(s) == /\ s.kind \in {"pipeline", "classic", "sma120"} /\ s.hold \in Nat
                      /\ "xau_sma120" \in s.ids => s.kind = "sma120"
                      /\ s.kind = "sma120" => s.ids = {"xau_sma120"}
                      /\ s.ids \cap ElementsOf(ShadowIds) = {}
                      /\ \A id \in s.ids : id \in DOMAIN ShadowOf => id \in DOMAIN s.shadow
                      /\ \A id \in DOMAIN s.shadow : id \in DOMAIN ShadowOf /\ s.shadow[id] = ShadowOf[id]
<1>1. Fine(V3Scan) /\ V3Scan.kind = "pipeline"
  BY TaskSequences DEF V3Scan, PipelineScan, ShadowOf
<1>2. Fine(RsdLongScan) /\ RsdLongScan.kind = "pipeline" /\ Fine(RsdShortScan) /\ RsdShortScan.kind = "pipeline"
  BY TaskSequences DEF RsdLongScan, RsdShortScan, PipelineScan, ShadowOf
<1>3. Fine(WaveLongScan) /\ WaveLongScan.kind = "pipeline"
  BY TaskSequences DEF WaveLongScan, PipelineScan, ShadowOf
<1>4. Fine(ClassicScan) /\ ClassicScan.kind = "classic"
  BY TaskSequences DEF ClassicScan, ShadowOf
<1>5. Fine(KScan) /\ KScan.kind = "classic"
  BY TaskSequences DEF KScan, ShadowOf
<1>6. Fine(Sma120Scan) /\ Sma120Scan.kind = "sma120"
  BY TaskSequences DEF Sma120Scan, ShadowOf
<1>7. /\ V3Tasks.scans = {V3Scan} /\ RsdTasks.scans = {RsdLongScan, RsdShortScan} /\ WaveLongTasks.scans = {WaveLongScan}
      /\ ClassicTasks.scans = {ClassicScan} /\ KTasks.scans = {KScan} /\ Sma120Tasks.scans = {Sma120Scan}
  BY DEF V3Tasks, RsdTasks, WaveLongTasks, ClassicTasks, KTasks, Sma120Tasks
<1> HIDE DEF Fine
<1>8. (\A s \in TaskAll : Fine(s)) /\ \A s, t \in TaskAll : s.kind = t.kind
  <2>1. PICK b : active = {b} /\ b \in {V3Tasks, RsdTasks, WaveLongTasks, ClassicTasks, KTasks, Sma120Tasks}
    BY DEF MCGroups
  <2>2. TaskAll = b.scans
    BY <2>1 DEF TaskAll
  <2> QED BY <1>1, <1>2, <1>3, <1>4, <1>5, <1>6, <1>7, <2>1, <2>2
<1>9. \A s \in TaskAll : s.ids \subseteq Tasks!Ids
  BY DEF TaskAll, Tasks!Ids
<1> QED BY <1>8, <1>9 DEF Fine, TaskFits

LEMMA TaskFacts == ASSUME TaskInv
    PROVE  /\ now \in Nat /\ scans \in Nat /\ faults \in Nat /\ faults \in 0..MaxFaults
           /\ \A r \in rows : /\ r \in Tasks!Row /\ r.sid \in Tasks!Ids /\ r.tgt \in TaskTargets /\ r.scan \in Nat /\ r.at \in Nat
           /\ \A o \in orders : /\ o \in Tasks!Order /\ o.sid \in Tasks!Ids /\ o.tgt \in TaskTargets /\ o.scan \in Nat /\ o.at \in Nat
                                /\ Tasks!Key(o) \in Tasks!Keys
           /\ (\A s \in TaskAll : TaskFits(s)) /\ \A s, t \in TaskAll : s.kind = t.kind
<1>1. now \in Nat /\ scans \in Nat /\ faults \in Nat /\ faults \in 0..MaxFaults
  BY TaskConstants DEF TaskInv, TaskTyped
<1>2. \A r \in rows : r \in Tasks!Row
  BY DEF TaskInv, TaskTyped
<1>3. \A r \in rows : r.sid \in Tasks!Ids /\ r.tgt \in TaskTargets /\ r.scan \in Nat /\ r.at \in Nat
  BY <1>2, TaskConstants, Zenon DEF Tasks!Row
<1>4. \A o \in orders : o \in Tasks!Order
  BY DEF TaskInv, TaskTyped
<1>5. \A o \in orders : o.sid \in Tasks!Ids /\ o.tgt \in TaskTargets /\ o.scan \in Tasks!Scans /\ o.at \in Nat
  BY <1>4, TaskConstants, Zenon DEF Tasks!Order
<1>6. \A o \in orders : Tasks!Key(o) \in Tasks!Keys /\ o.scan \in Nat
  BY <1>5, TaskConstants DEF Tasks!Key, Tasks!Keys
<1>7. (\A s \in TaskAll : TaskFits(s)) /\ \A s, t \in TaskAll : s.kind = t.kind
  BY TaskBuilt DEF TaskInv, TaskTyped
<1> QED BY <1>1, <1>2, <1>3, <1>4, <1>5, <1>6, <1>7

LEMMA TaskMeans == ASSUME TaskInv
    PROVE  /\ Tasks!TypeOK /\ Tasks!OneOpen /\ Tasks!OncePerWindow /\ Tasks!DailyKept
           /\ Tasks!OneHalfPerFault /\ Tasks!ShadowPairs /\ Tasks!LiveHasOrder
<1>1. Tasks!TypeOK
  BY DEF TaskInv, TaskTyped, Tasks!TypeOK, Tasks!Made
<1>2. Tasks!OneHalfPerFault
  <2>1. PICK H, K, w : H = Tasks!Halves /\ K = TaskHalves(job) /\ w = Tasks!Working
    OBVIOUS
  <2>2. IsFiniteSet(H) /\ Cardinality(K) <= faults /\ K \in SUBSET H
    BY <2>1 DEF TaskInv, TaskCounted, TaskHalves
  <2>3. H \ {w} \in SUBSET K
    <3>1. CASE job.pc \in {"idle", "next"}
      BY <2>1, <3>1 DEF TaskHalves
    <3>2. CASE job.pc \notin {"idle", "next"}
      <4>1. job # Tasks!Idle
        BY <3>2 DEF Tasks!Idle
      <4>2. w = job.kept
        BY <2>1, <4>1 DEF Tasks!Working
      <4> QED BY <2>1, <3>2, <4>2 DEF TaskHalves
    <3> QED BY <3>1, <3>2
  <2>4. IsFiniteSet(K)
    BY <2>2, FS_Subset
  <2>5. Cardinality(H \ {w}) <= Cardinality(K) /\ Cardinality(H \ {w}) \in Nat /\ Cardinality(K) \in Nat
    BY <2>3, <2>4, CountLess
  <2>6. Cardinality(H \ {w}) <= faults
    BY <2>2, <2>5, TaskFacts
  <2>7. \A S : Tasks!Cardinality(S) = Cardinality(S)
    BY DEF Tasks!Cardinality, Cardinality
  <2> QED BY <2>1, <2>6, <2>7 DEF Tasks!OneHalfPerFault
<1> QED BY <1>1, <1>2 DEF TaskInv, TaskKept

LEMMA TaskInit == ASSUME active \in MCGroups, Tasks!Init PROVE TaskInv
<1> USE DEF Tasks!Init
<1>1. /\ now = 0 /\ rows = {} /\ orders = {} /\ events = {} /\ compared = {} /\ live = {}
      /\ job = Tasks!Idle /\ scans = 0 /\ faults = 0 /\ job.pc = "idle"
  BY DEF Tasks!Idle
<1>2. TaskTyped
  BY <1>1, TaskConstants, ServicesAssumption, FS_EmptySet DEF TaskTyped, Tasks!Made, Tasks!StrategyTasksAssumption
<1>3. Tasks!Halves = {} /\ IsFiniteSet({}) /\ Cardinality({}) = 0
  BY <1>1, FS_EmptySet DEF Tasks!Halves
<1>4. TaskCounted(job)
  BY <1>1, <1>3 DEF TaskCounted, TaskHalves
<1>5. TaskKept
  <2>1. Tasks!DailyKept
    <3>1. \A t : {o \in orders : o.sid = "xau_sma120" /\ o.at \div 24 = t \div 24} = {}
      BY <1>1
    <3>2. Cardinality({}) <= Tasks!MaxDailyTrades
      BY <1>3 DEF Tasks!MaxDailyTrades
    <3>3. \A S : Tasks!Cardinality(S) = Cardinality(S)
      BY DEF Tasks!Cardinality, Cardinality
    <3>4. ASSUME NEW t \in TaskHours
          PROVE  Cardinality({o \in orders : o.sid = "xau_sma120" /\ o.at \div 24 = t \div 24}) <= Tasks!MaxDailyTrades
      BY <3>1, <3>2
    <3> QED BY <3>3, <3>4, Zenon DEF Tasks!DailyKept
  <2> QED BY <1>1, <2>1 DEF TaskKept, Tasks!OneOpen, Tasks!OncePerWindow, Tasks!ShadowPairs, Tasks!LiveHasOrder
<1>6. TaskTimes(job) /\ TaskSources
  BY <1>1 DEF TaskTimes, TaskSources
<1>7. TaskGoes(job)
  BY <1>1 DEF TaskGoes, TaskJobs
<1> QED BY <1>2, <1>4, <1>5, <1>6, <1>7 DEF TaskInv

LEMMA TaskTriples == \A a, b, c : <<a, b, c>> # Tasks!NoKey /\ <<a, b, c>>[1] = a /\ <<a, b, c>>[2] = b /\ <<a, b, c>>[3] = c
  BY DEF Tasks!NoKey

(* A job's record with another step, or with fewer signals left. *)
LEMMA TaskTo ==
    ASSUME NEW j \in TaskJobs, j.pc # "idle", NEW p, (j \in TaskFull /\ p \in TaskSteps) \/ p = "next",
           NEW k, k = [j EXCEPT !.pc = p]
    PROVE  /\ k \in TaskJobs /\ k.pc = p /\ k.task = j.task /\ k.left = j.left /\ k.kept = j.kept /\ p # "idle"
           /\ j \in TaskFull => k \in TaskFull /\ k.blind = j.blind
<1>1. j \in TaskShort \/ j \in TaskFull \/ j \in TaskPair
  BY DEF TaskJobs, Tasks!Idle
<1>2. CASE j \in TaskShort
  <2>1. PICK a, b, c : a = j.task /\ b = j.left /\ c = j.kept
    OBVIOUS
  <2>2. j = [pc |-> "next", task |-> a, left |-> b, kept |-> c]
    BY <1>2, <2>1 DEF TaskShort
  <2>3. p = "next"
    BY <1>2, <2>2 DEF TaskFull
  <2>4. k = j
    BY <2>2, <2>3
  <2> QED BY <2>2, <2>3, <2>4, <1>2 DEF TaskFull
<1>3. CASE j \in TaskFull
  <2>1. PICK a, b, c, d, e : a = j.task /\ b = j.left /\ c = j.kept /\ d = j.blind /\ e = j.pc
    OBVIOUS
  <2>2. j = [pc |-> e, task |-> a, left |-> b, kept |-> c, blind |-> d]
    BY <1>3, <2>1 DEF TaskFull
  <2>3. k = [pc |-> p, task |-> a, left |-> b, kept |-> c, blind |-> d]
    BY <2>2
  <2>4. p \in TaskSteps
    BY DEF TaskSteps
  <2>5. k \in TaskFull
    BY <1>3, <2>1, <2>3, <2>4 DEF TaskFull
  <2>6. k.pc = p /\ k.task = a /\ k.left = b /\ k.kept = c /\ k.blind = d
    BY <2>3
  <2> QED BY <2>1, <2>4, <2>5, <2>6 DEF TaskJobs, TaskSteps
<1>4. CASE j \in TaskPair /\ j \notin TaskFull
  <2>1. PICK a, b, c, d, e, f, g : a = j.task /\ b = j.left /\ c = j.kept /\ d = j.blind /\ e = j.pc /\ f = j.pass /\ g = j.order
    OBVIOUS
  <2>2. j = [pc |-> e, task |-> a, left |-> b, kept |-> c, blind |-> d, pass |-> f, order |-> g]
    BY <1>4, <2>1 DEF TaskPair
  <2>3. p = "next"
    BY <1>4
  <2>4. k = [pc |-> p, task |-> a, left |-> b, kept |-> c, blind |-> d, pass |-> f, order |-> g]
    BY <2>2
  <2>5. k \in TaskPair
    BY <1>4, <2>1, <2>3, <2>4 DEF TaskPair
  <2>6. k.pc = p /\ k.task = a /\ k.left = b /\ k.kept = c
    BY <2>4
  <2> QED BY <1>4, <2>1, <2>3, <2>5, <2>6 DEF TaskJobs
<1> QED BY <1>1, <1>2, <1>3, <1>4

LEMMA TaskSame == ASSUME active' = active
    PROVE  /\ Tasks!Ids' = Tasks!Ids /\ Tasks!Keys' = Tasks!Keys /\ Tasks!Row' = Tasks!Row /\ Tasks!Order' = Tasks!Order
           /\ TaskAll' = TaskAll /\ TaskLefts' = TaskLefts /\ TaskJobs' = TaskJobs /\ TaskFull' = TaskFull /\ TaskPair' = TaskPair
<1>1. Tasks!Ids' = Tasks!Ids /\ TaskAll' = TaskAll
  BY DEF Tasks!Ids, TaskAll
<1>2. Tasks!Keys' = Tasks!Keys
  BY <1>1 DEF Tasks!Keys
<1>3. Tasks!Row' = Tasks!Row /\ Tasks!Order' = Tasks!Order /\ TaskLefts' = TaskLefts
  BY <1>1, <1>2 DEF Tasks!Row, Tasks!Order, TaskLefts
<1>4. TaskFull' = TaskFull /\ TaskPair' = TaskPair /\ TaskShort' = TaskShort
  BY <1>1, <1>2, <1>3 DEF TaskFull, TaskPair, TaskShort
<1>5. TaskJobs' = TaskJobs
  BY <1>4 DEF TaskJobs
<1> QED BY <1>1, <1>2, <1>3, <1>4, <1>5

(* One half more at most, the signal's that is in progress. *)
LEMMA TaskMore ==
    ASSUME NEW H, IsFiniteSet(H), NEW x, NEW n \in Nat, Cardinality(H \ {x}) <= n, NEW J \in SUBSET (H \cup {x})
    PROVE  IsFiniteSet(J) /\ Cardinality(J \ {x}) <= n /\ Cardinality(J) <= n + 1
<1>1. IsFiniteSet(H \ {x}) /\ IsFiniteSet(H \cup {x})
  BY FS_AddElement, FS_RemoveElement
<1>2. IsFiniteSet(J)
  BY <1>1, FS_Subset
<1>3. J \ {x} \in SUBSET (H \ {x})
  OBVIOUS
<1>4. Cardinality(J \ {x}) <= Cardinality(H \ {x}) /\ Cardinality(J \ {x}) \in Nat /\ Cardinality(H \ {x}) \in Nat
  BY <1>1, <1>3, CountLess
<1>5. Cardinality(J \ {x}) = IF x \in J THEN Cardinality(J) - 1 ELSE Cardinality(J)
  BY <1>2, FS_RemoveElement
<1>6. Cardinality(J) \in Nat
  BY <1>2, FS_CardinalityType
<1> QED BY <1>2, <1>4, <1>5, <1>6

LEMMA TaskCounts ==
    ASSUME TaskInv, Tasks!Halves' \subseteq Tasks!Halves \cup {job.kept}, job.pc \notin {"idle", "next"},
           faults' \in Nat, faults' >= faults, NEW k,
           \/ faults' >= faults + 1
           \/ k.pc \notin {"idle", "next"} /\ k.kept = job.kept
           \/ job.kept \notin Tasks!Halves'
    PROVE  TaskCounted(k)'
<1>1. PICK H, J, x, n : H = Tasks!Halves /\ J = Tasks!Halves' /\ x = job.kept /\ n = faults
  OBVIOUS
<1>2. IsFiniteSet(H) /\ Cardinality(H \ {x}) <= n /\ n \in Nat /\ J \in SUBSET (H \cup {x})
  BY <1>1, TaskFacts DEF TaskInv, TaskCounted, TaskHalves
<1>3. IsFiniteSet(J) /\ Cardinality(J \ {x}) <= n /\ Cardinality(J) <= n + 1
  BY <1>2, TaskMore, Zenon
<1>4. PICK T : T = TaskHalves(k)'
  OBVIOUS
<1>5. T = J \/ T = J \ {k.kept}
  BY <1>1, <1>4 DEF TaskHalves
<1>6. IsFiniteSet(T) /\ T \in SUBSET J
  BY <1>3, <1>5, FS_Subset
<1>7. Cardinality(T) <= Cardinality(J) /\ Cardinality(T) \in Nat /\ Cardinality(J) \in Nat
  BY <1>3, <1>6, CountLess
<1>8. CASE faults' >= faults + 1
  <2>1. Cardinality(T) <= faults'
    BY <1>1, <1>2, <1>3, <1>7, <1>8
  <2> QED BY <1>1, <1>3, <1>4, <2>1 DEF TaskCounted
<1>9. CASE k.pc \notin {"idle", "next"} /\ k.kept = job.kept
  <2>1. T = J \ {x}
    BY <1>1, <1>4, <1>9 DEF TaskHalves
  <2>2. Cardinality(T) <= faults'
    BY <1>1, <1>2, <1>3, <1>7, <2>1
  <2> QED BY <1>1, <1>3, <1>4, <2>2 DEF TaskCounted
<1>10. CASE job.kept \notin Tasks!Halves'
  <2>1. J \ {x} = J
    BY <1>1, <1>10
  <2>2. Cardinality(T) <= faults'
    BY <1>1, <1>2, <1>3, <1>7, <2>1
  <2> QED BY <1>1, <1>3, <1>4, <2>2 DEF TaskCounted
<1> QED BY <1>8, <1>9, <1>10

LEMMA TaskCountsAll ==
    ASSUME TaskInv, Tasks!Halves' \subseteq Tasks!Halves, job.pc \in {"idle", "next"}, faults' \in Nat, faults' >= faults, NEW k
    PROVE  TaskCounted(k)'
<1>1. PICK H, J, n, T : H = Tasks!Halves /\ J = Tasks!Halves' /\ n = faults /\ T = TaskHalves(k)'
  OBVIOUS
<1>2. IsFiniteSet(H) /\ Cardinality(H) <= n /\ n \in Nat /\ J \in SUBSET H
  BY <1>1, TaskFacts DEF TaskInv, TaskCounted, TaskHalves
<1>3. IsFiniteSet(J) /\ T \in SUBSET H
  BY <1>1, <1>2, FS_Subset DEF TaskHalves
<1>4. Cardinality(T) <= Cardinality(H) /\ Cardinality(T) \in Nat /\ Cardinality(H) \in Nat
  BY <1>2, <1>3, CountLess
<1>5. Cardinality(T) <= faults'
  BY <1>1, <1>2, <1>4
<1> QED BY <1>1, <1>3, <1>5 DEF TaskCounted

(* A step that touches no table. *)
LEMMA TaskRests ==
    ASSUME TaskInv, UNCHANGED <<active, rows, orders, events, compared, live>>, now' \in TaskHours,
           scans' \in {0} \cup Tasks!Scans, faults' \in 0..MaxFaults, NEW k, job' = k,
           TaskTimes(k)', TaskGoes(k)', TaskCounted(k)'
    PROVE  TaskInv'
<1>1. TaskTyped'
  BY TaskSame DEF TaskInv, TaskTyped, Tasks!Made, Tasks!Key
<1>2. TaskSources'
  BY DEF TaskInv, TaskSources
<1>3. TaskKept'
  BY DEF TaskInv, TaskKept, Tasks!OneOpen, Tasks!OncePerWindow, Tasks!DailyKept, Tasks!ShadowPairs, Tasks!LiveHasOrder, Tasks!Made, Tasks!Key
<1> QED BY <1>1, <1>2, <1>3 DEF TaskInv

LEMMA TaskHalvesSame == ASSUME UNCHANGED <<rows, orders, events, compared>>
    PROVE  Tasks!Halves' = Tasks!Halves /\ Tasks!Made' = Tasks!Made
  BY DEF Tasks!Halves, Tasks!Made, Tasks!Key

LEMMA TaskFaults == ASSUME TaskInv, Tasks!Fault \/ Tasks!NoFault
    PROVE  faults' \in 0..MaxFaults /\ faults' \in Nat /\ faults' >= faults /\ (Tasks!Fault => faults' >= faults + 1)
  BY TaskFacts, TaskConstants DEF Tasks!Fault, Tasks!NoFault

(* The scan ends, by itself, by a failure or a restart. *)
LEMMA TaskIdles ==
    ASSUME TaskInv, UNCHANGED <<active, rows, orders, events, compared, live, scans>>, now' \in TaskHours, job' = Tasks!Idle,
           Tasks!Fault \/ Tasks!NoFault, Tasks!Fault \/ job.pc \in {"idle", "next"}
    PROVE  TaskInv'
<1>1. PICK k : k = Tasks!Idle
  OBVIOUS
<1>2. k.pc = "idle"
  BY <1>1 DEF Tasks!Idle
<1>3. TaskTimes(k)'
  <2>1. \A x \in rows \cup orders : x.scan <= scans
    BY DEF TaskInv, TaskTimes
  <2>2. \A r \in rows : \A o \in orders : r.scan = o.scan => r.at = o.at
    BY DEF TaskInv, TaskTimes
  <2> QED BY <1>2, <2>1, <2>2 DEF TaskTimes
<1>4. TaskGoes(k)'
  <2>1. k \in TaskJobs
    BY <1>1 DEF TaskJobs
  <2> QED BY <1>2, <2>1, TaskSame DEF TaskGoes
<1>5. TaskCounted(k)'
  <2>1. faults' \in Nat /\ faults' >= faults /\ (Tasks!Fault => faults' >= faults + 1)
    BY TaskFaults
  <2>2. Tasks!Halves' = Tasks!Halves
    BY TaskHalvesSame
  <2>3. CASE job.pc \in {"idle", "next"}
    BY <2>1, <2>2, <2>3, TaskCountsAll
  <2>4. CASE job.pc \notin {"idle", "next"}
    BY <2>1, <2>2, <2>4, TaskCounts
  <2> QED BY <2>3, <2>4
<1>6. scans' \in {0} \cup Tasks!Scans /\ faults' \in 0..MaxFaults
  BY TaskFaults DEF TaskInv, TaskTyped
<1> QED BY <1>1, <1>3, <1>4, <1>5, <1>6, TaskRests

LEMMA TaskEnds == ASSUME TaskInv, Tasks!EndScan \/ Tasks!Crash \/ Tasks!Tick PROVE TaskInv'
<1>1. CASE Tasks!EndScan
  BY <1>1, TaskIdles DEF Tasks!EndScan, Tasks!Step, Tasks!tables, TaskInv, TaskTyped
<1>2. CASE Tasks!Crash
  BY <1>2, TaskIdles DEF Tasks!Crash, Tasks!Abort, Tasks!tables, TaskInv, TaskTyped
<1>3. CASE Tasks!Tick
  <2>1. job = Tasks!Idle /\ job' = job /\ job.pc = "idle" /\ now' \in TaskHours /\ Tasks!NoFault
        /\ UNCHANGED <<active, rows, orders, events, compared, live, scans>>
    BY <1>3 DEF Tasks!Tick, Tasks!tables, Tasks!Idle, Tasks!NoFault
  <2> QED BY <2>1, TaskIdles
<1> QED BY <1>1, <1>2, <1>3

TaskCut(j, m) == [j EXCEPT !.pc = "next", !.left = m]
LEMMA TaskDropped ==
    ASSUME NEW j \in TaskJobs, j.pc = "next", NEW m, m \in SUBSET j.left, NEW k, k = TaskCut(j, m)
    PROVE  k \in TaskJobs /\ k.pc = "next" /\ k.task = j.task /\ k.left = m /\ k.kept = j.kept
<1>3. ASSUME NEW a, NEW b, NEW c, j = [pc |-> "next", task |-> a, left |-> b, kept |-> c]
      PROVE  [j EXCEPT !.pc = "next", !.left = m] = [pc |-> "next", task |-> a, left |-> m, kept |-> c]
  <2>1. PICK i : i = [j EXCEPT !.pc = "next"]
    BY Zenon
  <2>2. i = [pc |-> "next", task |-> a, left |-> b, kept |-> c]
    BY <1>3, <2>1
  <2>3. [i EXCEPT !.left = m] = [pc |-> "next", task |-> a, left |-> m, kept |-> c]
    BY <2>2
  <2>4. [j EXCEPT !.pc = "next", !.left = m] = [i EXCEPT !.left = m]
    BY <2>1, Zenon
  <2> QED BY <2>3, <2>4
<1>4. ASSUME NEW a, NEW b, NEW c, NEW d, j = [pc |-> "next", task |-> a, left |-> b, kept |-> c, blind |-> d]
      PROVE  [j EXCEPT !.pc = "next", !.left = m] = [pc |-> "next", task |-> a, left |-> m, kept |-> c, blind |-> d]
  <2>1. PICK i : i = [j EXCEPT !.pc = "next"]
    BY Zenon
  <2>2. i = [pc |-> "next", task |-> a, left |-> b, kept |-> c, blind |-> d]
    BY <1>4, <2>1
  <2>3. [i EXCEPT !.left = m] = [pc |-> "next", task |-> a, left |-> m, kept |-> c, blind |-> d]
    BY <2>2
  <2>4. [j EXCEPT !.pc = "next", !.left = m] = [i EXCEPT !.left = m]
    BY <2>1, Zenon
  <2> QED BY <2>3, <2>4
<1>5. ASSUME NEW a, NEW b, NEW c, NEW d, NEW f, NEW g, j = [pc |-> "next", task |-> a, left |-> b, kept |-> c, blind |-> d, pass |-> f, order |-> g]
      PROVE  [j EXCEPT !.pc = "next", !.left = m] = [pc |-> "next", task |-> a, left |-> m, kept |-> c, blind |-> d, pass |-> f, order |-> g]
  <2>1. PICK i : i = [j EXCEPT !.pc = "next"]
    BY Zenon
  <2>2. i = [pc |-> "next", task |-> a, left |-> b, kept |-> c, blind |-> d, pass |-> f, order |-> g]
    BY <1>5, <2>1
  <2>3. [i EXCEPT !.left = m] = [pc |-> "next", task |-> a, left |-> m, kept |-> c, blind |-> d, pass |-> f, order |-> g]
    BY <2>2
  <2>4. [j EXCEPT !.pc = "next", !.left = m] = [i EXCEPT !.left = m]
    BY <2>1, Zenon
  <2> QED BY <2>3, <2>4
<1>6. k = [j EXCEPT !.pc = "next", !.left = m]
  BY Zenon DEF TaskCut
<1>8. j \in TaskShort \/ j \in TaskFull \/ j \in TaskPair
  BY DEF TaskJobs, Tasks!Idle
<1>9. CASE j \in TaskShort
  <2>1. PICK a, b, c : a = j.task /\ b = j.left /\ c = j.kept
    OBVIOUS
  <2>2. j = [pc |-> "next", task |-> a, left |-> b, kept |-> c]
    BY <1>9, <2>1 DEF TaskShort
  <2>5. k = [pc |-> "next", task |-> a, left |-> m, kept |-> c]
    BY <1>6, <1>3, <2>2
  <2>6. k \in TaskShort
    BY <1>9, <2>1, <2>5 DEF TaskShort, TaskLefts
  <2>7. k.pc = "next" /\ k.task = a /\ k.left = m /\ k.kept = c
    BY <2>5
  <2> QED BY <2>1, <2>6, <2>7 DEF TaskJobs
<1>10. CASE j \in TaskFull
  <2>1. PICK a, b, c, d : a = j.task /\ b = j.left /\ c = j.kept /\ d = j.blind
    OBVIOUS
  <2>2. j = [pc |-> "next", task |-> a, left |-> b, kept |-> c, blind |-> d]
    BY <1>10, <2>1 DEF TaskFull
  <2>5. k = [pc |-> "next", task |-> a, left |-> m, kept |-> c, blind |-> d]
    BY <1>6, <1>4, <2>2
  <2>6. k \in TaskFull
    BY <1>10, <2>1, <2>5 DEF TaskFull, TaskLefts, TaskSteps
  <2>7. k.pc = "next" /\ k.task = a /\ k.left = m /\ k.kept = c
    BY <2>5
  <2> QED BY <2>1, <2>6, <2>7 DEF TaskJobs
<1>11. CASE j \in TaskPair
  <2>1. PICK a, b, c, d, f, g : a = j.task /\ b = j.left /\ c = j.kept /\ d = j.blind /\ f = j.pass /\ g = j.order
    OBVIOUS
  <2>2. j = [pc |-> "next", task |-> a, left |-> b, kept |-> c, blind |-> d, pass |-> f, order |-> g]
    BY <1>11, <2>1 DEF TaskPair
  <2>5. k = [pc |-> "next", task |-> a, left |-> m, kept |-> c, blind |-> d, pass |-> f, order |-> g]
    BY <1>6, <1>5, <2>2
  <2>6. k \in TaskPair
    BY <1>11, <2>1, <2>5 DEF TaskPair, TaskLefts
  <2>7. k.pc = "next" /\ k.task = a /\ k.left = m /\ k.kept = c
    BY <2>5
  <2> QED BY <2>1, <2>6, <2>7 DEF TaskJobs
<1> QED BY <1>8, <1>9, <1>10, <1>11

LEMMA TaskStart == ASSUME TaskInv, NEW b \in active, NEW s \in b.scans, Tasks!StartScan(s) PROVE TaskInv'
<1>1. /\ job = Tasks!Idle /\ scans < TaskScans[s.kind] /\ scans' = scans + 1
      /\ s.kind = "sma120" => Tasks!Sma120Runs
      /\ UNCHANGED <<active, now, orders, events, compared, live>>
  BY DEF Tasks!StartScan
<1>2. PICK B \in Tasks!Batch(s) :
        /\ IF s.kind = "sma120" /\ paused THEN Tasks!Fault /\ UNCHANGED rows ELSE Tasks!SaveRecords(s, B)
        /\ job' = [pc |-> "next", task |-> s, left |-> B, kept |-> Tasks!NoKey]
  BY DEF Tasks!StartScan
<1>3. PICK k : k = [pc |-> "next", task |-> s, left |-> B, kept |-> Tasks!NoKey]
  BY Zenon
<1>4. k.pc = "next" /\ k.task = s /\ k.left = B /\ k.kept = Tasks!NoKey
  BY <1>3
<1>5. s \in TaskAll /\ TaskFits(s) /\ scans \in Nat /\ now \in Nat /\ now \in TaskHours
  BY TaskFacts DEF TaskAll, TaskInv, TaskTyped
<1>6. B \in SUBSET ((s.ids \cap Emitting) \X TaskTargets) /\ Tasks!Cardinality(B) <= IF s.kind = "sma120" THEN 1 ELSE TaskBatch
  BY DEF Tasks!Batch
<1>7. PICK New : /\ rows' \subseteq rows \cup New
                 /\ New = {[sid |-> x[1], tgt |-> x[2], scan |-> scans + 1, at |-> now, sent |-> FALSE] : x \in B}
                 /\ rows \subseteq rows'
  BY <1>2, Zenon DEF Tasks!SaveRecords
<1>8. \A r \in New : r.scan = scans + 1 /\ r.at = now /\ r.sent = FALSE
  BY <1>7
<1>9. scans' \in Tasks!Scans
  BY <1>1, <1>5, TaskConstants DEF TaskFits, Tasks!Scans
<1>10. \A r \in New : r \in Tasks!Row
  <2>1. \A x \in B : x[1] \in Tasks!Ids /\ x[2] \in TaskTargets
    BY <1>5, <1>6 DEF TaskFits
  <2>2. scans + 1 \in Tasks!Scans /\ now \in TaskHours
    BY <1>1, <1>5, <1>9
  <2>3. ASSUME NEW x \in B
        PROVE  [sid |-> x[1], tgt |-> x[2], scan |-> scans + 1, at |-> now, sent |-> FALSE] \in Tasks!Row
    BY <2>1, <2>2 DEF Tasks!Row
  <2> QED BY <1>7, <2>3
<1>11. faults' \in 0..MaxFaults /\ faults' \in Nat /\ faults' >= faults
  <2>1. Tasks!Fault \/ Tasks!NoFault
    BY <1>2 DEF Tasks!SaveRecords
  <2> QED BY <2>1, TaskFaults
<1>12. TaskTyped'
  <2>1. \A r \in rows' : r \in Tasks!Row
    BY <1>7, <1>10 DEF TaskInv, TaskTyped
  <2>2. Tasks!Made' = Tasks!Made
    BY <1>1 DEF Tasks!Made, Tasks!Key
  <2> QED BY <1>1, <1>9, <1>11, <2>1, <2>2, TaskSame DEF TaskInv, TaskTyped
<1>13. TaskTimes(k)'
  <2>1. ASSUME NEW x \in rows' \cup orders' PROVE x.scan <= scans' /\ (x.scan = scans' => x.at = now')
    <3>1. CASE x \in New
      BY <1>1, <1>5, <1>8, <3>1
    <3>2. CASE x \notin New
      <4>1. x \in rows \cup orders /\ x.scan \in Nat
        BY <1>1, <1>7, <3>2, TaskFacts
      <4>2. x.scan <= scans
        BY <4>1 DEF TaskInv, TaskTimes
      <4> QED BY <1>1, <1>5, <4>1, <4>2
    <3> QED BY <3>1, <3>2
  <2>2. ASSUME NEW r \in rows', NEW o \in orders', r.scan = o.scan PROVE r.at = o.at
    <3>1. o \in orders /\ o.scan \in Nat /\ o.scan <= scans
      BY <1>1, TaskFacts DEF TaskInv, TaskTimes
    <3>2. r \notin New
      BY <1>5, <1>8, <2>2, <3>1
    <3> QED BY <1>7, <2>2, <3>1, <3>2 DEF TaskInv, TaskTimes
  <2> QED BY <1>1, <2>1, <2>2 DEF TaskTimes
<1>14. TaskSources'
  BY <1>1 DEF TaskInv, TaskSources
<1>15. TaskGoes(k)'
  <2>1. k \in TaskJobs
    <3>1. B \in TaskLefts
      BY <1>5, <1>6 DEF TaskLefts, TaskFits
    <3>2. k \in TaskShort
      BY <1>3, <1>5, <3>1 DEF TaskShort
    <3> QED BY <3>2 DEF TaskJobs
  <2>2. TaskLeft(k)'
    <3>1. ASSUME NEW x \in B, NEW o \in orders PROVE o.src # <<x[1], x[2], scans + 1>>
      <4>1. o.src = Tasks!NoKey \/ o.src[3] = o.scan
        BY DEF TaskInv, TaskSources
      <4>2. o.scan <= scans /\ o.scan \in Nat
        BY TaskFacts DEF TaskInv, TaskTimes
      <4>3. PICK q : q = scans + 1
        OBVIOUS
      <4>4. q # o.scan
        BY <1>5, <4>2, <4>3
      <4> QED BY <4>1, <4>3, <4>4, TaskTriples
    <3>2. \A x \in B : x[1] \in s.ids /\ <<x[1], x[2], scans + 1>> # Tasks!NoKey
      BY <1>6, TaskTriples
    <3> QED BY <1>1, <1>4, <3>1, <3>2 DEF TaskLeft, TaskKeyOf
  <2>3. TaskDaily(k)'
    <3> SUFFICES ASSUME s.kind = "sma120" PROVE (\A x, y \in B : x = y) /\ TaskToday'
      BY <1>4 DEF TaskDaily
    <3>0. \A S : Tasks!Cardinality(S) = Cardinality(S)
      BY DEF Tasks!Cardinality, Cardinality
    <3>1. IsFiniteSet({"xau_sma120"} \X TaskTargets)
      <4>1. IsFiniteSet({"xau_sma120"})
        BY FS_Singleton, Zenon
      <4> QED BY <4>1, FS_Product, TaskConstants
    <3>2. B \in SUBSET ({"xau_sma120"} \X TaskTargets)
      BY <1>5, <1>6 DEF TaskFits
    <3>3. IsFiniteSet(B)
      BY <3>1, <3>2, FS_Subset
    <3>4. Cardinality(B) <= 1
      BY <1>6, <3>0
    <3>5. \A x, y \in B : x = y
      BY <3>3, <3>4, OneIsOne
    <3>6. TaskToday
      BY <1>1, <3>0 DEF TaskToday, Tasks!Sma120Runs, Tasks!MaxDailyTrades
    <3>7. TaskToday'
      BY <1>1, <3>6 DEF TaskToday, Tasks!CreatedOn
    <3> QED BY <3>5, <3>7
  <2>4. TaskBusy(k)'
    BY <1>4, <1>9, <2>2, <2>3 DEF TaskBusy, TaskPcs
  <2>5. k \in TaskJobs'
    BY <1>1, <2>1, TaskSame
  <2> QED BY <2>4, <2>5 DEF TaskGoes
<1>16. TaskCounted(k)'
  <2>1. \A r \in rows' : r.sent => r \in rows
    BY <1>7, <1>8
  <2>2. Tasks!Made' = Tasks!Made
    BY <1>1 DEF Tasks!Made, Tasks!Key
  <2>3. Tasks!Halves' \subseteq Tasks!Halves
    BY <1>1, <2>1, <2>2, Zenon DEF Tasks!Halves, Tasks!Key
  <2>4. job.pc = "idle"
    BY <1>1 DEF Tasks!Idle
  <2> QED BY <1>11, <2>3, <2>4, TaskCountsAll
<1>17. TaskKept'
  <2>1. \A r \in rows' : r.sent => r \in rows
    BY <1>7, <1>8
  <2>2. Tasks!OncePerWindow'
    <3>1. Tasks!OncePerWindow
      BY DEF TaskInv, TaskKept
    <3>2. \A key : (\E r \in rows : r.sent /\ Tasks!Key(r) = key) <=> \E r \in rows' : r.sent /\ Tasks!Key(r) = key
      BY <1>7, <2>1
    <3> QED BY <1>1, <3>1, <3>2, Zenon DEF Tasks!OncePerWindow, Tasks!Key
  <2>3. Tasks!OneOpen' /\ Tasks!DailyKept' /\ Tasks!ShadowPairs' /\ Tasks!LiveHasOrder'
    BY <1>1 DEF TaskInv, TaskKept, Tasks!OneOpen, Tasks!DailyKept, Tasks!ShadowPairs, Tasks!LiveHasOrder, Tasks!Made, Tasks!Key
  <2> QED BY <2>2, <2>3 DEF TaskKept
<1> QED BY <1>2, <1>3, <1>12, <1>13, <1>14, <1>15, <1>16, <1>17 DEF TaskInv

LEMMA TaskKeeps ==
    ASSUME TaskInv, job.pc = "next", NEW x \in job.left, ~Tasks!HasOpen(x[1], x[2]), NEW p, NEW d \in BOOLEAN, Tasks!Keep(x, p, d),
           \/ p = "save" /\ job.task.kind # "classic"
           \/ p = "mark" /\ job.task.kind = "classic" /\ (d \/ ~Tasks!SentSince(x[1], x[2], now - Tasks!DedupHours)),
           Tasks!Fault \/ Tasks!NoFault, UNCHANGED <<active, now, scans, rows, orders, events, compared, live>>
    PROVE  TaskInv'
<1>1. PICK s, left, key : s = job.task /\ left = job.left \ {x} /\ key = <<x[1], x[2], scans>>
  BY Zenon
<1>2. PICK k : k = [pc |-> p, task |-> s, left |-> left, kept |-> key, blind |-> d]
  BY Zenon
<1>3. k.pc = p /\ k.task = s /\ k.left = left /\ k.kept = key /\ k.blind = d
  BY <1>2
<1>4. job' = k
  BY <1>1, <1>2 DEF Tasks!Keep
<1>5. job \in TaskJobs /\ TaskBusy(job)
  BY DEF TaskInv, TaskGoes
<1>6. job.task \in TaskAll /\ job.left \in TaskLefts
  BY <1>5 DEF TaskJobs, Tasks!Idle, TaskShort, TaskFull, TaskPair
<1>7. TaskFits(s) /\ x[1] \in s.ids /\ x \in Tasks!Ids \X TaskTargets
  BY <1>1, <1>5, <1>6, TaskFacts DEF TaskBusy, TaskLeft, TaskLefts
<1>8. scans \in Tasks!Scans
  BY <1>5 DEF TaskBusy
<1>9. key \in Tasks!Keys
  BY <1>1, <1>7, <1>8 DEF Tasks!Keys
<1>10. k \in TaskFull
  BY <1>1, <1>2, <1>6, <1>9 DEF TaskFull, TaskSteps, TaskLefts
<1>11. TaskTimes(k)'
  <2>1. \A y \in rows \cup orders : y.scan <= scans /\ (y.scan = scans => y.at = now)
    BY DEF TaskInv, TaskTimes
  <2>2. \A r \in rows : \A o \in orders : r.scan = o.scan => r.at = o.at
    BY DEF TaskInv, TaskTimes
  <2> QED BY <2>1, <2>2 DEF TaskTimes
<1>12. TaskLeft(k)
  <2>1. ASSUME NEW y \in left PROVE TaskKeyOf(y) # key
    <3>1. y \in Tasks!Ids \X TaskTargets /\ y # x
      BY <1>1, <1>6 DEF TaskLefts
    <3> QED BY <1>1, <1>7, <3>1 DEF TaskKeyOf
  <2> QED BY <1>1, <1>3, <1>5, <2>1 DEF TaskBusy, TaskLeft
<1>13. TaskDaily(k)
  BY <1>1, <1>3, <1>5 DEF TaskBusy, TaskDaily
<1>14. p = "mark" => TaskUnsent(k)
  <2> SUFFICES ASSUME p = "mark", ~d, NEW r \in rows, r.sent, r.sid = x[1], r.tgt = x[2] PROVE r.at < now - 24
    BY <1>1, <1>3, TaskTriples DEF TaskUnsent
  <2>1. ~(r.at >= now - 24)
    BY DEF Tasks!SentSince, Tasks!DedupHours
  <2> QED BY <2>1, TaskFacts
<1>15. \A o \in orders : o.src # key
  BY <1>1, <1>5 DEF TaskBusy, TaskLeft, TaskKeyOf
<1>16. TaskBusy(k)
  <2>1. key[1] = x[1] /\ key[2] = x[2] /\ key[3] = scans
    BY <1>1
  <2>2. p \in {"mark", "save"} /\ p \notin TaskPcs /\ p # "compare" /\ p # "next"
    BY DEF TaskPcs
  <2> QED BY <1>1, <1>3, <1>7, <1>8, <1>12, <1>13, <1>14, <1>15, <2>1, <2>2 DEF TaskBusy
<1>17. TaskGoes(k)'
  <2>1. k \in TaskJobs'
    BY <1>10, TaskSame DEF TaskJobs
  <2>2. TaskBusy(k)'
    BY <1>16 DEF TaskBusy, TaskLeft, TaskKeyOf, TaskDaily, TaskToday, Tasks!CreatedOn, TaskUnsent, Tasks!HasOpen, Tasks!Made, Tasks!Key, TaskShadowKey
  <2> QED BY <2>1, <2>2 DEF TaskGoes
<1>18. faults' \in 0..MaxFaults /\ faults' \in Nat /\ faults' >= faults
  BY TaskFaults
<1>19. TaskCounted(k)'
  BY <1>18, TaskHalvesSame, TaskCountsAll
<1>20. now' \in TaskHours /\ scans' \in {0} \cup Tasks!Scans
  BY DEF TaskInv, TaskTyped
<1> QED BY <1>4, <1>11, <1>17, <1>18, <1>19, <1>20, TaskRests

LEMMA TaskDrops ==
    ASSUME TaskInv, job.pc = "next", NEW x \in job.left, Tasks!Drop(x),
           Tasks!Fault \/ Tasks!NoFault, UNCHANGED <<active, now, scans, rows, orders, events, compared, live>>
    PROVE  TaskInv'
<1>1. job \in TaskJobs /\ TaskBusy(job)
  BY DEF TaskInv, TaskGoes
<1>0. PICK m : m = job.left \ {x}
  BY Zenon
<1>2. PICK k, j : k = TaskCut(j, m) /\ j = job
  OBVIOUS
<1>3. job' = k
  BY <1>0, <1>2, Zenon DEF Tasks!Drop, TaskCut
<1>4. k \in TaskJobs /\ k.pc = "next" /\ k.task = job.task /\ k.left = job.left \ {x} /\ k.kept = job.kept
  <2>1. m \in SUBSET j.left /\ j \in TaskJobs /\ j.pc = "next"
    BY <1>0, <1>1, <1>2
  <2>3. k \in TaskJobs /\ k.pc = "next" /\ k.task = j.task /\ k.left = m /\ k.kept = j.kept
    BY <1>2, <2>1, TaskDropped
  <2> QED BY <1>0, <1>2, <2>3
<1>5. TaskTimes(k)'
  <2>1. \A y \in rows \cup orders : y.scan <= scans /\ (y.scan = scans => y.at = now)
    BY DEF TaskInv, TaskTimes
  <2>2. \A r \in rows : \A o \in orders : r.scan = o.scan => r.at = o.at
    BY DEF TaskInv, TaskTimes
  <2> QED BY <2>1, <2>2 DEF TaskTimes
<1>6. TaskBusy(k)
  <2>1. TaskLeft(k)
    BY <1>1, <1>4 DEF TaskBusy, TaskLeft
  <2>2. TaskDaily(k)
    BY <1>1, <1>4 DEF TaskBusy, TaskDaily
  <2> QED BY <1>1, <1>4, <2>1, <2>2 DEF TaskBusy, TaskPcs
<1>7. TaskGoes(k)'
  <2>1. k \in TaskJobs'
    BY <1>4, TaskSame
  <2>2. TaskBusy(k)'
    BY <1>6 DEF TaskBusy, TaskLeft, TaskKeyOf, TaskDaily, TaskToday, Tasks!CreatedOn, TaskUnsent, Tasks!HasOpen, Tasks!Made, Tasks!Key, TaskShadowKey
  <2> QED BY <2>1, <2>2 DEF TaskGoes
<1>8. faults' \in 0..MaxFaults /\ faults' \in Nat /\ faults' >= faults
  BY TaskFaults
<1>9. TaskCounted(k)'
  BY <1>8, TaskHalvesSame, TaskCountsAll
<1>10. now' \in TaskHours /\ scans' \in {0} \cup Tasks!Scans
  BY DEF TaskInv, TaskTyped
<1> QED BY <1>3, <1>5, <1>7, <1>8, <1>9, <1>10, TaskRests

LEMMA TaskSignal == ASSUME TaskInv, Tasks!NextSignal PROVE TaskInv'
<1>1. job.pc = "next" /\ UNCHANGED <<active, now, scans, rows, orders, events, compared, live>>
  BY DEF Tasks!NextSignal, Tasks!tables
<1>2. PICK x \in job.left :
        \/ Tasks!Drop(x) /\ (Tasks!NoFault \/ Tasks!Fault)
        \/ /\ ~Tasks!HasOpen(x[1], x[2])
           /\ \/ job.task.kind # "classic" /\ Tasks!Keep(x, "save", FALSE) /\ Tasks!NoFault
              \/ /\ job.task.kind = "classic"
                 /\ \/ ~Tasks!SentSince(x[1], x[2], now - Tasks!DedupHours) /\ Tasks!Keep(x, "mark", FALSE) /\ Tasks!NoFault
                    \/ Tasks!Keep(x, "mark", TRUE) /\ Tasks!Fault
  BY Zenon DEF Tasks!NextSignal
<1>3. CASE Tasks!Drop(x) /\ (Tasks!NoFault \/ Tasks!Fault)
  BY <1>1, <1>3, TaskDrops, Zenon
<1>4. ASSUME ~Tasks!HasOpen(x[1], x[2]), job.task.kind # "classic", Tasks!Keep(x, "save", FALSE), Tasks!NoFault PROVE TaskInv'
  <2>1. PICK no \in BOOLEAN : no = FALSE
    BY Zenon
  <2>2. Tasks!Keep(x, "save", no)
    BY <1>4, <2>1, Zenon
  <2> QED BY <1>1, <1>4, <2>2, TaskKeeps
<1>5. ASSUME ~Tasks!HasOpen(x[1], x[2]), job.task.kind = "classic", Tasks!Keep(x, "mark", FALSE), Tasks!NoFault,
             ~Tasks!SentSince(x[1], x[2], now - Tasks!DedupHours) PROVE TaskInv'
  <2>1. PICK no \in BOOLEAN : no = FALSE
    BY Zenon
  <2>2. Tasks!Keep(x, "mark", no)
    BY <1>5, <2>1, Zenon
  <2> QED BY <1>1, <1>5, <2>2, TaskKeeps
<1>6. ASSUME ~Tasks!HasOpen(x[1], x[2]), job.task.kind = "classic", Tasks!Keep(x, "mark", TRUE), Tasks!Fault PROVE TaskInv'
  <2>1. PICK yes \in BOOLEAN : yes = TRUE
    BY Zenon
  <2>2. Tasks!Keep(x, "mark", yes) /\ yes
    BY <1>6, <2>1, Zenon
  <2> QED BY <1>1, <1>6, <2>2, TaskKeeps, Zenon
<1> QED BY <1>2, <1>3, <1>4, <1>5, <1>6, Zenon

(* What holds of a signal in progress. *)
LEMMA TaskAt == ASSUME TaskInv, job.pc \notin {"idle", "next"}
    PROVE  /\ TaskBusy(job) /\ job \in TaskJobs /\ (job.pc # "compare" => job \in TaskFull) /\ (job.pc = "compare" => job \in TaskPair)
           /\ job.task \in TaskAll /\ TaskFits(job.task) /\ job.left \in TaskLefts /\ scans \in Tasks!Scans
           /\ job.kept \in Tasks!Keys /\ job.kept = <<job.kept[1], job.kept[2], scans>> /\ job.kept # Tasks!NoKey
           /\ job.kept[1] \in job.task.ids /\ job.kept[1] \in Tasks!Ids /\ job.kept[2] \in TaskTargets /\ job.kept[3] = scans
           /\ job.task.hold \in Nat
<1>1. TaskBusy(job) /\ job \in TaskJobs
  BY DEF TaskInv, TaskGoes
<1>2. (job.pc # "compare" => job \in TaskFull) /\ (job.pc = "compare" => job \in TaskPair)
  BY <1>1 DEF TaskJobs, Tasks!Idle, TaskShort, TaskFull, TaskPair, TaskSteps
<1>3. job.task \in TaskAll /\ job.left \in TaskLefts /\ job.kept \in Tasks!Keys
  BY <1>2 DEF TaskFull, TaskPair
<1>4. TaskFits(job.task) /\ job.task.hold \in Nat
  BY <1>3, TaskFacts DEF TaskFits
<1>5. scans \in Tasks!Scans /\ job.kept[1] \in job.task.ids /\ job.kept[3] = scans
  BY <1>1 DEF TaskBusy
<1>6. \A y \in Tasks!Keys : y = <<y[1], y[2], y[3]>> /\ y[1] \in Tasks!Ids /\ y[2] \in TaskTargets
  BY DEF Tasks!Keys
<1>7. job.kept = <<job.kept[1], job.kept[2], scans>> /\ job.kept[1] \in Tasks!Ids /\ job.kept[2] \in TaskTargets
  BY <1>3, <1>5, <1>6
<1>8. job.kept # Tasks!NoKey
  BY <1>7, TaskTriples
<1> QED BY <1>1, <1>2, <1>3, <1>4, <1>5, <1>7, <1>8

(* One row more or less, and the hours of what is made stay those of its scan. *)
LEMMA TaskTimesKept ==
    ASSUME TaskInv, job.pc # "idle", UNCHANGED <<now, scans>>, NEW k,
           \A r \in rows' : \E q \in rows : r.scan = q.scan /\ r.at = q.at,
           \A o \in orders' : (\E p \in orders : o.scan = p.scan /\ o.at = p.at) \/ (o.scan = scans /\ o.at = now)
    PROVE  TaskTimes(k)'
<1>1. \A y \in rows \cup orders : y.scan <= scans /\ (y.scan = scans => y.at = now)
  BY DEF TaskInv, TaskTimes
<1>2. \A r \in rows : \A o \in orders : r.scan = o.scan => r.at = o.at
  BY DEF TaskInv, TaskTimes
<1>3. scans \in Nat
  BY TaskFacts
<1>4. \A r \in rows' : r.scan <= scans /\ (r.scan = scans => r.at = now)
  BY <1>1
<1>5. \A o \in orders' : o.scan <= scans /\ (o.scan = scans => o.at = now)
  BY <1>1, <1>3
<1>6. \A r \in rows' : \A o \in orders' : r.scan = o.scan => r.at = o.at
  BY <1>1, <1>2
<1> QED BY <1>4, <1>5, <1>6 DEF TaskTimes

LEMMA TaskMark == ASSUME TaskInv, Tasks!Mark PROVE TaskInv'
<1>1. job.pc = "mark" /\ UNCHANGED <<active, now, scans, orders, events, compared, live>> /\ (Tasks!NoFault \/ Tasks!Fault)
  BY DEF Tasks!Mark, Tasks!Step
<1>2. PICK k : k = [job EXCEPT !.pc = "save"]
  BY Zenon
<1>3. job' = k
  BY <1>2, Zenon DEF Tasks!Mark, Tasks!To
<1>4. /\ TaskBusy(job) /\ job \in TaskJobs /\ job \in TaskFull /\ scans \in Tasks!Scans
      /\ job.kept[1] \in job.task.ids /\ job.kept[3] = scans /\ job.kept = <<job.kept[1], job.kept[2], scans>>
  BY <1>1, TaskAt
<1>5. k \in TaskFull /\ k.pc = "save" /\ k.task = job.task /\ k.left = job.left /\ k.kept = job.kept /\ k.blind = job.blind
  <2>1. PICK j : j = job
    OBVIOUS
  <2>2. j \in TaskFull /\ j \in TaskJobs /\ j.pc # "idle" /\ k = [j EXCEPT !.pc = "save"] /\ "save" \in TaskSteps
    BY <1>1, <1>2, <1>4, <2>1 DEF TaskSteps
  <2>3. k \in TaskFull /\ k.pc = "save" /\ k.task = j.task /\ k.left = j.left /\ k.kept = j.kept /\ k.blind = j.blind
    BY <2>2, TaskTo
  <2> QED BY <2>1, <2>3
<1>6. \A r \in rows : /\ Tasks!Marked(r) \in Tasks!Row
                      /\ Tasks!Marked(r).sid = r.sid /\ Tasks!Marked(r).tgt = r.tgt /\ Tasks!Marked(r).scan = r.scan /\ Tasks!Marked(r).at = r.at
                      /\ Tasks!Marked(r).sent => r.sent \/ Tasks!Key(r) = job.kept
                      /\ r.sent \in BOOLEAN
  <2> SUFFICES ASSUME NEW r \in rows
               PROVE  /\ Tasks!Marked(r) \in Tasks!Row
                      /\ Tasks!Marked(r).sid = r.sid /\ Tasks!Marked(r).tgt = r.tgt /\ Tasks!Marked(r).scan = r.scan /\ Tasks!Marked(r).at = r.at
                      /\ Tasks!Marked(r).sent => r.sent \/ Tasks!Key(r) = job.kept
                      /\ r.sent \in BOOLEAN
    OBVIOUS
  <2>1. r \in Tasks!Row
    BY TaskFacts
  <2>2. PICK yes \in BOOLEAN : yes = TRUE
    BY Zenon
  <2>3. PICK a, b, c, d, e : a = r.sid /\ b = r.tgt /\ c = r.scan /\ d = r.at /\ e = r.sent
    OBVIOUS
  <2>4. r = [sid |-> a, tgt |-> b, scan |-> c, at |-> d, sent |-> e]
    BY <2>1, <2>3 DEF Tasks!Row
  <2>5. PICK q : q = [r EXCEPT !.sent = yes]
    BY Zenon
  <2>6. q = [sid |-> a, tgt |-> b, scan |-> c, at |-> d, sent |-> yes]
    BY <2>4, <2>5
  <2>7. q \in Tasks!Row /\ q.sid = r.sid /\ q.tgt = r.tgt /\ q.scan = r.scan /\ q.at = r.at
    BY <2>1, <2>3, <2>6 DEF Tasks!Row
  <2>8. Tasks!Marked(r) = IF Tasks!Key(r) = job.kept THEN q ELSE r
    BY <2>2, <2>5, Zenon DEF Tasks!Marked
  <2>9. r.sent \in BOOLEAN
    BY <2>1 DEF Tasks!Row
  <2>10. CASE Tasks!Key(r) = job.kept
    BY <2>7, <2>8, <2>9, <2>10
  <2>11. CASE Tasks!Key(r) # job.kept
    <3>1. Tasks!Marked(r) = r
      BY <2>8, <2>11
    <3> QED BY <2>1, <2>9, <3>1
  <2> QED BY <2>10, <2>11
<1>7. rows' = rows \/ rows' = {Tasks!Marked(r) : r \in rows}
  BY DEF Tasks!Mark
<1>8. \A q \in rows' : \E r \in rows : /\ q.sid = r.sid /\ q.tgt = r.tgt /\ q.scan = r.scan /\ q.at = r.at
                                       /\ q.sent => r.sent \/ Tasks!Key(r) = job.kept
  BY <1>6, <1>7
<1>9. \A r \in rows' : r \in Tasks!Row
  BY <1>6, <1>7, TaskFacts
<1>10. faults' \in 0..MaxFaults /\ faults' \in Nat /\ faults' >= faults
  BY <1>1, TaskFaults
<1>11. Tasks!Made' = Tasks!Made
  BY <1>1 DEF Tasks!Made, Tasks!Key
<1>12. TaskTyped'
  BY <1>1, <1>9, <1>10, <1>11, TaskSame DEF TaskInv, TaskTyped
<1>13. TaskTimes(k)'
  <2>1. \A r \in rows' : \E q \in rows : r.scan = q.scan /\ r.at = q.at
    BY <1>8
  <2>2. \A o \in orders' : \E p \in orders : o.scan = p.scan /\ o.at = p.at
    BY <1>1
  <2> QED BY <1>1, <2>1, <2>2, TaskTimesKept
<1>14. TaskSources'
  BY <1>1 DEF TaskInv, TaskSources
<1>15. TaskGoes(k)'
  <2>1. k \in TaskJobs'
    BY <1>1, <1>5, TaskSame DEF TaskJobs
  <2>2. TaskLeft(k)'
    BY <1>1, <1>4, <1>5 DEF TaskBusy, TaskLeft, TaskKeyOf
  <2>3. job.task.kind = "classic"
    BY <1>1, <1>4 DEF TaskBusy
  <2>4. TaskDaily(k)'
    BY <1>5, <2>3 DEF TaskDaily
  <2>5. TaskUnsent(k)'
    <3> SUFFICES ASSUME ~job.blind, NEW q \in rows', q.sent, q.sid = job.kept[1], q.tgt = job.kept[2], q.scan # scans
                 PROVE  q.at < now - 24
      BY <1>1, <1>5 DEF TaskUnsent
    <3>1. PICK r \in rows : /\ q.sid = r.sid /\ q.tgt = r.tgt /\ q.scan = r.scan /\ q.at = r.at
                            /\ q.sent => r.sent \/ Tasks!Key(r) = job.kept
      BY <1>8
    <3>2. Tasks!Key(r) # job.kept
      BY <1>4, <3>1 DEF Tasks!Key
    <3>3. TaskUnsent(job)
      BY <1>1, <1>4, <2>3 DEF TaskBusy
    <3> QED BY <3>1, <3>2, <3>3 DEF TaskUnsent
  <2>6. ~Tasks!HasOpen(k.kept[1], k.kept[2])' /\ \A o \in orders' : o.src # k.kept
    BY <1>1, <1>4, <1>5 DEF TaskBusy, Tasks!HasOpen
  <2>7. TaskBusy(k)'
    BY <1>1, <1>4, <1>5, <2>2, <2>4, <2>5, <2>6 DEF TaskBusy, TaskPcs
  <2> QED BY <2>1, <2>7 DEF TaskGoes
<1>16. TaskCounted(k)'
  <2>1. Tasks!Halves' \subseteq Tasks!Halves \cup {job.kept}
    <3>1. ASSUME NEW q \in rows', q.sent, Tasks!Key(q) \notin Tasks!Made, Tasks!Key(q) # job.kept
          PROVE  \E r \in rows : r.sent /\ Tasks!Key(r) \notin Tasks!Made /\ Tasks!Key(r) = Tasks!Key(q)
      <4>1. PICK r \in rows : /\ q.sid = r.sid /\ q.tgt = r.tgt /\ q.scan = r.scan /\ q.at = r.at
                              /\ q.sent => r.sent \/ Tasks!Key(r) = job.kept
        BY <1>8
      <4>2. Tasks!Key(r) = Tasks!Key(q)
        BY <4>1 DEF Tasks!Key
      <4> QED BY <3>1, <4>1, <4>2
    <3>2. \A q : Tasks!Key(q)' = Tasks!Key(q)
      BY DEF Tasks!Key
    <3>3. PICK A, B : Tasks!Halves = {Tasks!Key(r) : r \in {q \in rows : q.sent /\ Tasks!Key(q) \notin Tasks!Made}} \cup A \cup B
                      /\ A = {IF o.src = Tasks!NoKey THEN Tasks!Key(o) ELSE o.src : o \in {p \in orders : Tasks!Key(p) \notin events}}
                      /\ B = {Tasks!Key(o) : o \in {p \in orders : p.sid \in DOMAIN Tasks!ShadowOf /\ ~\E c \in compared : c.source = Tasks!Key(p)}}
      BY Zenon DEF Tasks!Halves
    <3>4. Tasks!Halves' = {Tasks!Key(r) : r \in {q \in rows' : q.sent /\ Tasks!Key(q) \notin Tasks!Made}} \cup A \cup B
      BY <1>1, <1>11, <3>3 DEF Tasks!Halves, Tasks!Key
    <3> QED BY <3>1, <3>3, <3>4
  <2> QED BY <1>1, <1>5, <1>10, <2>1, TaskCounts
<1>17. TaskKept'
  <2>1. Tasks!OncePerWindow'
    <3> SUFFICES ASSUME NEW o \in orders, NEW p \in orders, o.sid = p.sid, o.tgt = p.tgt, o.scan < p.scan, p.at - o.at <= Tasks!DedupHours,
                        o.src = Tasks!NoKey, \E b \in active : \E s \in b.scans : s.kind = "classic" /\ o.sid \in s.ids, ~p.blind,
                        NEW q \in rows', q.sent, Tasks!Key(q) = Tasks!Key(o)
                 PROVE  FALSE
      BY <1>1 DEF Tasks!OncePerWindow, Tasks!Key
    <3>1. PICK r \in rows : /\ q.sid = r.sid /\ q.tgt = r.tgt /\ q.scan = r.scan /\ q.at = r.at
                            /\ q.sent => r.sent \/ Tasks!Key(r) = job.kept
      BY <1>8
    <3>2. Tasks!Key(r) = Tasks!Key(o)
      BY <3>1 DEF Tasks!Key
    <3>3. p.scan <= scans /\ p.scan \in Nat /\ o.scan \in Nat /\ scans \in Nat
      BY TaskFacts DEF TaskInv, TaskTimes
    <3>4. o.scan # scans
      BY <3>3
    <3>5. Tasks!Key(r) # job.kept
      BY <1>4, <3>2, <3>4 DEF Tasks!Key
    <3>6. r.sent
      BY <3>1, <3>5
    <3>7. Tasks!OncePerWindow
      BY DEF TaskInv, TaskKept
    <3> QED BY <3>2, <3>6, <3>7 DEF Tasks!OncePerWindow
  <2>2. Tasks!OneOpen' /\ Tasks!DailyKept' /\ Tasks!ShadowPairs' /\ Tasks!LiveHasOrder'
    BY <1>1 DEF TaskInv, TaskKept, Tasks!OneOpen, Tasks!DailyKept, Tasks!ShadowPairs, Tasks!LiveHasOrder, Tasks!Made, Tasks!Key
  <2> QED BY <2>1, <2>2 DEF TaskKept
<1> QED BY <1>3, <1>12, <1>13, <1>14, <1>15, <1>16, <1>17 DEF TaskInv

(* An order more, of the scan in progress, on a target without an open one. *)
TaskNew(n) ==
  /\ n \in Tasks!Order /\ n.scan = scans /\ n.at = now /\ n.open /\ (n.src = Tasks!NoKey \/ n.src[3] = n.scan)
  /\ ~Tasks!HasOpen(n.sid, n.tgt)
  /\ n.sid = "xau_sma120" => TaskToday
  /\ (\A b \in active : \A s \in b.scans : s.kind = "classic" => n.sid \notin s.ids)
     \/ n.blind \/ \A r \in rows : r.sent /\ r.sid = n.sid /\ r.tgt = n.tgt /\ r.scan # scans => r.at < now - 24

LEMMA TaskAdd ==
    ASSUME TaskInv, NEW n, TaskNew(n), orders' = orders \cup {n}, job.pc # "idle",
           UNCHANGED <<active, now, scans, rows, events, compared, live>>, NEW k
    PROVE  TaskTimes(k)' /\ TaskSources' /\ TaskKept' /\ Tasks!Made \subseteq Tasks!Made' /\ Tasks!Made' \subseteq Tasks!Made \cup {Tasks!Key(n)}
           /\ (faults' \in 0..MaxFaults => TaskTyped')
<1>1. n \in Tasks!Order /\ n.scan = scans /\ n.at = now /\ (n.src = Tasks!NoKey \/ n.src[3] = n.scan)
  BY DEF TaskNew
<1>2. TaskTimes(k)'
  <2>1. \A r \in rows' : \E q \in rows : r.scan = q.scan /\ r.at = q.at
    OBVIOUS
  <2>2. \A o \in orders' : (\E p \in orders : o.scan = p.scan /\ o.at = p.at) \/ (o.scan = scans /\ o.at = now)
    BY <1>1
  <2> QED BY <2>1, <2>2, TaskTimesKept
<1>3. TaskSources'
  BY <1>1 DEF TaskInv, TaskSources
<1>4. Tasks!Made \subseteq Tasks!Made' /\ Tasks!Made' \subseteq Tasks!Made \cup {Tasks!Key(n)}
  BY DEF Tasks!Made, Tasks!Key
<1>5. ASSUME faults' \in 0..MaxFaults PROVE TaskTyped'
  <2>1. IsFiniteSet(orders')
    BY FS_AddElement DEF TaskInv, TaskTyped
  <2> QED BY <1>1, <1>4, <1>5, <2>1, TaskSame DEF TaskInv, TaskTyped
<1>6. Tasks!OneOpen'
  <2>1. \A o \in orders : o.open => ~(o.sid = n.sid /\ o.tgt = n.tgt)
    BY DEF TaskNew, Tasks!HasOpen
  <2>2. Tasks!OneOpen
    BY DEF TaskInv, TaskKept
  <2> QED BY <2>1, <2>2 DEF Tasks!OneOpen
<1>7. Tasks!OncePerWindow'
  <2> SUFFICES ASSUME NEW o \in orders', NEW p \in orders', o.sid = p.sid, o.tgt = p.tgt, o.scan < p.scan, p.at - o.at <= 24,
                      o.src = Tasks!NoKey, NEW b \in active, NEW s \in b.scans, s.kind = "classic", o.sid \in s.ids, ~p.blind,
                      NEW r \in rows, r.sent, Tasks!Key(r) = Tasks!Key(o)
               PROVE  FALSE
    BY DEF Tasks!OncePerWindow, Tasks!Key, Tasks!DedupHours
  <2>1. \A q \in orders : q.scan <= scans /\ q.scan \in Nat /\ scans \in Nat
    BY TaskFacts DEF TaskInv, TaskTimes
  <2>2. o # n
    <3>0. scans \in Nat
      BY TaskFacts
    <3>1. p.scan <= scans /\ p.scan \in Nat
      BY <1>1, <2>1, <3>0
    <3> QED BY <1>1, <2>1, <3>1, TaskFacts
  <2>3. o \in orders
    BY <2>2
  <2>4. CASE p = n
    <3>1. r.sid = n.sid /\ r.tgt = n.tgt /\ r.scan = o.scan
      BY <2>4, TaskTriples DEF Tasks!Key
    <3>2. r.scan # scans
      BY <1>1, <2>1, <2>3, <2>4, <3>1
    <3>3. r.at < now - 24
      BY <2>4, <3>1, <3>2 DEF TaskNew
    <3>4. r.at = o.at /\ r.at \in Nat /\ now \in Nat
      BY <2>3, <3>1, TaskFacts DEF TaskInv, TaskTimes
    <3> QED BY <1>1, <2>4, <3>3, <3>4
  <2>5. CASE p \in orders
    <3>1. Tasks!OncePerWindow
      BY DEF TaskInv, TaskKept
    <3> QED BY <2>3, <2>5, <3>1 DEF Tasks!OncePerWindow, Tasks!DedupHours
  <2> QED BY <2>4, <2>5
<1>8. Tasks!DailyKept'
  <2>0. \A S : Tasks!Cardinality(S) = Cardinality(S)
    BY DEF Tasks!Cardinality, Cardinality
  <2>1. ASSUME NEW t \in TaskHours
        PROVE  Cardinality({o \in orders' : o.sid = "xau_sma120" /\ o.at \div 24 = t \div 24}) <= 3
    <3>1. PICK S, T : S = {o \in orders : o.sid = "xau_sma120" /\ o.at \div 24 = t \div 24}
                      /\ T = {o \in orders' : o.sid = "xau_sma120" /\ o.at \div 24 = t \div 24}
      BY Zenon
    <3>2. Cardinality(S) <= 3
      BY <2>0, <3>1 DEF TaskInv, TaskKept, Tasks!DailyKept, Tasks!MaxDailyTrades
    <3>3. CASE n.sid = "xau_sma120" /\ n.at \div 24 = t \div 24
      <4>1. S = Tasks!CreatedOn("xau_sma120", now \div 24)
        BY <1>1, <3>1, <3>3 DEF Tasks!CreatedOn
      <4>2. Cardinality(S) < 3
        BY <3>3, <4>1 DEF TaskNew, TaskToday
      <4>3. T = S \cup {n}
        BY <3>1, <3>3
      <4>4. IsFiniteSet(S)
        <5>1. IsFiniteSet(orders) /\ S \in SUBSET orders
          BY <3>1 DEF TaskInv, TaskTyped
        <5> QED BY <5>1, FS_Subset
      <4>5. Cardinality(T) = IF n \in S THEN Cardinality(S) ELSE Cardinality(S) + 1
        BY <4>3, <4>4, FS_AddElement, Zenon
      <4>6. Cardinality(S) \in Nat
        BY <4>4, FS_CardinalityType
      <4> QED BY <3>1, <4>2, <4>5, <4>6
    <3>4. CASE ~(n.sid = "xau_sma120" /\ n.at \div 24 = t \div 24)
      <4>1. T = S
        BY <3>1, <3>4
      <4> QED BY <3>1, <3>2, <4>1, Zenon
    <3> QED BY <3>3, <3>4
  <2>2. \A t \in TaskHours : Tasks!Cardinality({o \in orders' : o.sid = "xau_sma120" /\ o.at \div 24 = t \div 24}) <= 3
    BY <2>0, <2>1
  <2> QED BY <2>2 DEF Tasks!DailyKept, Tasks!MaxDailyTrades
<1>9. Tasks!ShadowPairs'
  BY DEF TaskInv, TaskKept, Tasks!ShadowPairs, Tasks!Key
<1>10. Tasks!LiveHasOrder'
  BY <1>4 DEF TaskInv, TaskKept, Tasks!LiveHasOrder
<1> QED BY <1>2, <1>3, <1>4, <1>5, <1>6, <1>7, <1>8, <1>9, <1>10 DEF TaskKept

(* The record of an order. *)
LEMMA TaskOrder ==
    ASSUME TaskInv, job.pc \notin {"idle", "next"}, job \in TaskFull, NEW key, NEW src, key \in Tasks!Keys, src \in {Tasks!NoKey} \cup Tasks!Keys, NEW n,
           n = Tasks!NewOrder(key, src)
    PROVE  /\ n \in Tasks!Order /\ n.sid = key[1] /\ n.tgt = key[2] /\ n.scan = key[3] /\ n.at = now /\ n.src = src /\ n.open
           /\ n.blind = job.blind /\ Tasks!Key(n) = key
<1>1. PICK yes \in BOOLEAN : yes = TRUE
  BY Zenon
<1>2. PICK a, b, c, d, e, f : a = key[1] /\ b = key[2] /\ c = key[3] /\ d = now /\ e = job.task.hold /\ f = job.blind
  OBVIOUS
<1>3. n = [sid |-> a, tgt |-> b, scan |-> c, at |-> d, hold |-> e, src |-> src, open |-> yes, blind |-> f]
  BY <1>1, <1>2, Zenon DEF Tasks!NewOrder
<1>4. a \in Tasks!Ids /\ b \in TaskTargets /\ c \in Tasks!Scans /\ key = <<a, b, c>>
  BY <1>2 DEF Tasks!Keys
<1>5. d \in TaskHours /\ e \in Nat /\ f \in BOOLEAN
  BY <1>2, TaskAt DEF TaskInv, TaskTyped, TaskFull
<1>6. n \in Tasks!Order
  BY <1>3, <1>4, <1>5 DEF Tasks!Order
<1>7. n.sid = a /\ n.tgt = b /\ n.scan = c /\ n.at = d /\ n.src = src /\ n.blind = f /\ n.open = yes
  BY <1>3
<1> QED BY <1>1, <1>2, <1>4, <1>6, <1>7, Zenon DEF Tasks!Key

(* The next step of a signal. *)
LEMMA TaskSteps1 ==
    ASSUME job \in TaskFull, job.pc # "idle", NEW p \in TaskSteps, Tasks!To(p)
    PROVE  \E k \in TaskFull : /\ job' = k /\ k.pc = p /\ k.task = job.task /\ k.left = job.left /\ k.kept = job.kept
                               /\ k.blind = job.blind
<1>1. PICK j, k : j = job /\ k = [j EXCEPT !.pc = p]
  BY Zenon
<1>2. job' = k
  BY <1>1, Zenon DEF Tasks!To
<1>3. j \in TaskFull /\ j \in TaskJobs /\ j.pc # "idle"
  BY <1>1 DEF TaskJobs
<1>4. k \in TaskFull /\ k.pc = p /\ k.task = j.task /\ k.left = j.left /\ k.kept = j.kept /\ k.blind = j.blind
  BY <1>1, <1>3, TaskTo
<1> QED BY <1>1, <1>2, <1>4, Zenon

LEMMA TaskSave == ASSUME TaskInv, Tasks!SaveOrder PROVE TaskInv'
<1>1. job.pc = "save" /\ UNCHANGED <<active, now, scans, rows, events, compared, live>>
  BY DEF Tasks!SaveOrder, Tasks!Step
<1>2. CASE UNCHANGED orders /\ Tasks!Abort /\ Tasks!Fault
  <2>1. now' \in TaskHours
    BY <1>1 DEF TaskInv, TaskTyped
  <2> QED BY <1>1, <1>2, <2>1, TaskIdles DEF Tasks!Abort
<1>3. CASE orders' = orders \cup {Tasks!NewOrder(job.kept, Tasks!NoKey)} /\ Tasks!To("event") /\ Tasks!NoFault
  <2>1. /\ TaskBusy(job) /\ job \in TaskJobs /\ job \in TaskFull /\ scans \in Tasks!Scans /\ job.task \in TaskAll /\ TaskFits(job.task)
        /\ job.kept[1] \in job.task.ids /\ job.kept[3] = scans /\ job.kept \in Tasks!Keys /\ job.kept # Tasks!NoKey
    BY <1>1, TaskAt
  <2>2. PICK k \in TaskFull : /\ job' = k /\ k.pc = "event" /\ k.task = job.task /\ k.left = job.left /\ k.kept = job.kept
                              /\ k.blind = job.blind
    <3>1. "event" \in TaskSteps /\ Tasks!To("event") /\ job.pc # "idle"
      BY <1>1, <1>3 DEF TaskSteps
    <3> QED BY <2>1, <3>1, TaskSteps1
  <2>3. PICK key, n : key = job.kept /\ n = Tasks!NewOrder(key, Tasks!NoKey)
    OBVIOUS
  <2>4. /\ n \in Tasks!Order /\ n.sid = key[1] /\ n.tgt = key[2] /\ n.scan = key[3] /\ n.at = now /\ n.src = Tasks!NoKey /\ n.open
        /\ n.blind = job.blind /\ Tasks!Key(n) = key
    <3>1. key \in Tasks!Keys /\ job.pc \notin {"idle", "next"} /\ Tasks!NoKey \in {Tasks!NoKey} \cup Tasks!Keys
      BY <1>1, <2>1, <2>3
    <3> QED BY <2>1, <2>3, <3>1, TaskOrder
  <2>5. TaskNew(n)
    <3>1. ~Tasks!HasOpen(n.sid, n.tgt)
      BY <1>1, <2>1, <2>3, <2>4 DEF TaskBusy
    <3>2. n.sid = "xau_sma120" => TaskToday
      BY <1>1, <2>1, <2>3, <2>4 DEF TaskBusy, TaskDaily, TaskFits
    <3>3. CASE job.task.kind = "classic"
      <4>1. TaskUnsent(job)
        BY <1>1, <2>1, <3>3 DEF TaskBusy
      <4>2. n.blind \/ \A r \in rows : r.sent /\ r.sid = n.sid /\ r.tgt = n.tgt /\ r.scan # scans => r.at < now - 24
        BY <2>3, <2>4, <4>1 DEF TaskUnsent
      <4> QED BY <2>1, <2>3, <2>4, <3>1, <3>2, <4>2 DEF TaskNew
    <3>4. CASE job.task.kind # "classic"
      <4>1. \A b \in active : \A s \in b.scans : s.kind # "classic"
        BY <2>1, <3>4, TaskFacts DEF TaskAll
      <4> QED BY <2>1, <2>3, <2>4, <3>1, <3>2, <4>1 DEF TaskNew
    <3> QED BY <3>3, <3>4
  <2>6. orders' = orders \cup {n}
    BY <1>3, <2>3, Zenon
  <2>7. faults' \in 0..MaxFaults /\ faults' \in Nat /\ faults' >= faults
    BY <1>3, TaskFaults
  <2>8. TaskTimes(k)' /\ TaskSources' /\ TaskKept' /\ Tasks!Made \subseteq Tasks!Made' /\ TaskTyped'
    BY <1>1, <2>5, <2>6, <2>7, TaskAdd
  <2>9. TaskGoes(k)'
    <3>1. k \in TaskJobs'
      BY <1>1, <2>2, TaskSame DEF TaskJobs
    <3>2. TaskLeft(k)'
      <4>1. \A x \in k.left : TaskKeyOf(x) # Tasks!NoKey
        BY TaskTriples DEF TaskKeyOf
      <4> QED BY <1>1, <2>1, <2>2, <2>4, <2>6, <4>1, Zenon DEF TaskBusy, TaskLeft, TaskKeyOf
    <3>3. TaskDaily(k)'
      BY <1>1, <2>1, <2>2 DEF TaskBusy, TaskDaily
    <3>4. k.kept \in Tasks!Made'
      <4>1. Tasks!Key(n)' = Tasks!Key(n)
        BY DEF Tasks!Key
      <4> QED BY <2>2, <2>3, <2>4, <2>6, <4>1 DEF Tasks!Made
    <3>5. \A o \in orders' : o.src # k.kept
      BY <1>1, <2>1, <2>2, <2>4, <2>6 DEF TaskBusy
    <3>6. TaskBusy(k)'
      BY <1>1, <2>1, <2>2, <3>2, <3>3, <3>4, <3>5 DEF TaskBusy, TaskPcs
    <3> QED BY <3>1, <3>6 DEF TaskGoes
  <2>10. TaskCounted(k)'
    <3>1. Tasks!Halves' \subseteq Tasks!Halves \cup {job.kept}
      <4>1. Tasks!Key(n) = job.kept
        BY <2>3, <2>4
      <4>2. Tasks!Made \subseteq Tasks!Made'
        BY <2>8
      <4> QED BY <1>1, <2>4, <2>6, <4>1, <4>2, Zenon DEF Tasks!Halves, Tasks!Key
    <3> QED BY <1>1, <2>2, <2>7, <3>1, TaskCounts
  <2> QED BY <2>2, <2>8, <2>9, <2>10 DEF TaskInv
<1> QED BY <1>2, <1>3 DEF Tasks!SaveOrder

LEMMA TaskEvent == ASSUME TaskInv, Tasks!AppendEvent PROVE TaskInv'
<1>1. job.pc = "event" /\ UNCHANGED <<active, now, scans, rows, orders, compared, live>>
  BY DEF Tasks!AppendEvent, Tasks!Step
<1>2. CASE UNCHANGED events /\ Tasks!Abort /\ Tasks!Fault
  <2>1. now' \in TaskHours
    BY <1>1 DEF TaskInv, TaskTyped
  <2> QED BY <1>1, <1>2, <2>1, TaskIdles DEF Tasks!Abort
<1>3. CASE events' = events \cup {job.kept} /\ Tasks!To("place") /\ Tasks!NoFault
  <2>1. /\ TaskBusy(job) /\ job \in TaskJobs /\ job \in TaskFull /\ scans \in Tasks!Scans
        /\ job.kept[1] \in job.task.ids /\ job.kept[3] = scans
    BY <1>1, TaskAt
  <2>2. PICK k \in TaskFull : /\ job' = k /\ k.pc = "place" /\ k.task = job.task /\ k.left = job.left /\ k.kept = job.kept
                              /\ k.blind = job.blind
    <3>1. "place" \in TaskSteps /\ Tasks!To("place") /\ job.pc # "idle"
      BY <1>1, <1>3 DEF TaskSteps
    <3> QED BY <2>1, <3>1, TaskSteps1
  <2>3. job.kept \in Tasks!Made /\ Tasks!Made' = Tasks!Made
    BY <1>1, <2>1 DEF TaskBusy, TaskPcs, Tasks!Made, Tasks!Key
  <2>4. faults' \in 0..MaxFaults /\ faults' \in Nat /\ faults' >= faults
    BY <1>3, TaskFaults
  <2>5. TaskTyped'
    BY <1>1, <1>3, <2>3, <2>4, TaskSame DEF TaskInv, TaskTyped
  <2>6. TaskTimes(k)'
    <3>1. \A r \in rows' : \E q \in rows : r.scan = q.scan /\ r.at = q.at
      BY <1>1
    <3>2. \A o \in orders' : \E p \in orders : o.scan = p.scan /\ o.at = p.at
      BY <1>1
    <3> QED BY <1>1, <3>1, <3>2, TaskTimesKept
  <2>7. TaskSources'
    BY <1>1 DEF TaskInv, TaskSources
  <2>8. TaskGoes(k)'
    <3>1. k \in TaskJobs'
      BY <1>1, <2>2, TaskSame DEF TaskJobs
    <3>2. TaskLeft(k)' /\ TaskDaily(k)'
      BY <1>1, <2>1, <2>2 DEF TaskBusy, TaskLeft, TaskKeyOf, TaskDaily
    <3>3. TaskBusy(k)'
      BY <1>1, <1>3, <2>1, <2>2, <2>3, <3>2 DEF TaskBusy, TaskPcs
    <3> QED BY <3>1, <3>3 DEF TaskGoes
  <2>9. TaskCounted(k)'
    <3>1. Tasks!Halves' \subseteq Tasks!Halves \cup {job.kept}
      BY <1>1, <1>3, <2>3, Zenon DEF Tasks!Halves, Tasks!Key
    <3> QED BY <1>1, <2>2, <2>4, <3>1, TaskCounts
  <2>10. TaskKept'
    BY <1>1, <1>3, <2>3 DEF TaskInv, TaskKept, Tasks!OneOpen, Tasks!OncePerWindow, Tasks!DailyKept, Tasks!ShadowPairs, Tasks!LiveHasOrder, Tasks!Key
  <2> QED BY <2>2, <2>5, <2>6, <2>7, <2>8, <2>9, <2>10 DEF TaskInv
<1> QED BY <1>2, <1>3 DEF Tasks!AppendEvent

LEMMA TaskPlace == ASSUME TaskInv, Tasks!TryPlace PROVE TaskInv'
<1>1. job.pc = "place" /\ UNCHANGED <<active, now, scans, rows, orders, events, compared>> /\ Tasks!NoFault
  BY DEF Tasks!TryPlace, Tasks!Step
<1>2. /\ TaskBusy(job) /\ job \in TaskJobs /\ job \in TaskFull /\ scans \in Tasks!Scans /\ TaskFits(job.task) /\ job.task \in TaskAll
      /\ job.kept[1] \in job.task.ids /\ job.kept[3] = scans /\ job.kept \in Tasks!Keys
  BY <1>1, TaskAt
<1>3. PICK p : p = IF Tasks!HasShadow THEN "shadow" ELSE "next"
  OBVIOUS
<1>4. PICK k \in TaskFull : /\ job' = k /\ k.pc = p /\ k.task = job.task /\ k.left = job.left /\ k.kept = job.kept
                            /\ k.blind = job.blind
  <2>1. p \in TaskSteps /\ job.pc # "idle"
    BY <1>1, <1>3 DEF TaskSteps
  <2>2. Tasks!To(p)
    BY <1>3, Zenon DEF Tasks!TryPlace
  <2> QED BY <1>2, <2>1, <2>2, TaskSteps1
<1>5. job.kept \in Tasks!Made /\ job.kept \in events /\ \A o \in orders : o.src # job.kept
  BY <1>1, <1>2 DEF TaskBusy, TaskPcs
<1>6. Tasks!Made' = Tasks!Made /\ Tasks!Halves' = Tasks!Halves
  BY <1>1, TaskHalvesSame
<1>7. faults' \in 0..MaxFaults /\ faults' \in Nat /\ faults' >= faults
  BY <1>1, TaskFaults
<1>8. \A key \in live' : key \in live \/ (key = job.kept /\ job.kept[1] \in job.task.live)
  BY DEF Tasks!TryPlace
<1>9. TaskTyped'
  <2>1. live' \subseteq Tasks!Keys
    BY <1>2, <1>8 DEF TaskInv, TaskTyped
  <2> QED BY <1>1, <1>6, <1>7, <2>1, TaskSame DEF TaskInv, TaskTyped
<1>10. TaskTimes(k)'
  <2>1. \A r \in rows' : \E q \in rows : r.scan = q.scan /\ r.at = q.at
    BY <1>1
  <2>2. \A o \in orders' : \E q \in orders : o.scan = q.scan /\ o.at = q.at
    BY <1>1
  <2> QED BY <1>1, <2>1, <2>2, TaskTimesKept
<1>11. TaskSources'
  BY <1>1 DEF TaskInv, TaskSources
<1>12. TaskGoes(k)'
  <2>1. k \in TaskJobs'
    BY <1>1, <1>4, TaskSame DEF TaskJobs
  <2>2. TaskLeft(k)' /\ TaskDaily(k)'
    <3>1. p \in {"shadow", "next"}
      BY <1>3
    <3>2. job.task.kind = "sma120" => job.left = {}
      BY <1>1, <1>2 DEF TaskBusy, TaskDaily
    <3>3. TaskLeft(k)'
      BY <1>1, <1>2, <1>4 DEF TaskBusy, TaskLeft, TaskKeyOf
    <3> QED BY <1>4, <3>1, <3>2, <3>3 DEF TaskDaily
  <2>3. p = "shadow" => job.kept[1] \in DOMAIN job.task.shadow
    BY <1>3 DEF Tasks!HasShadow
  <2>4. p \in {"shadow", "next"}
    BY <1>3
  <2>5. TaskBusy(k)'
    BY <1>1, <1>2, <1>4, <1>5, <1>6, <2>2, <2>3, <2>4 DEF TaskBusy, TaskPcs
  <2> QED BY <2>1, <2>5 DEF TaskGoes
<1>13. TaskCounted(k)'
  <2>1. p = "shadow" \/ job.kept \notin Tasks!Halves
    <3> SUFFICES ASSUME p # "shadow" PROVE job.kept \notin Tasks!Halves
      OBVIOUS
    <3>1. job.kept[1] \notin DOMAIN ShadowOf
      BY <1>2, <1>3 DEF Tasks!HasShadow, TaskFits
    <3>2. ASSUME NEW o \in orders, o.sid \in DOMAIN ShadowOf PROVE Tasks!Key(o) # job.kept
      BY <3>1, <3>2, TaskTriples DEF Tasks!Key
    <3>3. ASSUME NEW o \in orders, Tasks!Key(o) \notin events
          PROVE  (IF o.src = Tasks!NoKey THEN Tasks!Key(o) ELSE o.src) # job.kept
      BY <1>5, <3>3
    <3>4. \A r \in rows : Tasks!Key(r) \notin Tasks!Made => Tasks!Key(r) # job.kept
      BY <1>5
    <3> QED BY <3>2, <3>3, <3>4, TaskNames DEF Tasks!Halves
  <2>2. Tasks!Halves' \subseteq Tasks!Halves \cup {job.kept}
    BY <1>6
  <2> QED BY <1>1, <1>4, <1>6, <1>7, <2>1, <2>2, TaskCounts
<1>14. TaskKept'
  <2>1. Tasks!LiveHasOrder'
    <3>1. Tasks!LiveHasOrder
      BY DEF TaskInv, TaskKept
    <3>2. job.kept[1] \in job.task.live => \E b \in active : \E s \in b.scans : job.kept[1] \in s.live
      BY <1>2 DEF TaskAll
    <3> QED BY <1>1, <1>5, <1>6, <1>8, <3>1, <3>2 DEF Tasks!LiveHasOrder
  <2> QED BY <1>1, <2>1 DEF TaskInv, TaskKept, Tasks!OneOpen, Tasks!OncePerWindow, Tasks!DailyKept, Tasks!ShadowPairs, Tasks!Key
<1> QED BY <1>4, <1>9, <1>10, <1>11, <1>12, <1>13, <1>14 DEF TaskInv

LEMMA TaskPairs ==
    ASSUME job \in TaskFull, NEW d \in BOOLEAN, NEW x \in {Tasks!NoKey} \cup Tasks!Keys, Tasks!ToCompare(d, x)
    PROVE  \E k \in TaskPair : /\ job' = k /\ k.pc = "compare" /\ k.task = job.task /\ k.left = job.left /\ k.kept = job.kept
                               /\ k.pass = d /\ k.order = x
<1>1. PICK a, b, c, e : a = job.task /\ b = job.left /\ c = job.kept /\ e = job.blind
  OBVIOUS
<1>2. PICK k : k = [pc |-> "compare", task |-> a, left |-> b, kept |-> c, blind |-> e, pass |-> d, order |-> x]
  BY Zenon
<1>3. job' = k
  BY <1>1, <1>2 DEF Tasks!ToCompare
<1>4. k \in TaskPair
  BY <1>1, <1>2 DEF TaskFull, TaskPair
<1>5. k.pc = "compare" /\ k.task = a /\ k.left = b /\ k.kept = c /\ k.pass = d /\ k.order = x
  BY <1>2
<1> QED BY <1>1, <1>3, <1>4, <1>5

(* The signal is compared, its shadow without an order. *)
LEMMA TaskCompares ==
    ASSUME TaskInv, job.pc = "shadow", NEW d \in BOOLEAN, Tasks!ToCompare(d, Tasks!NoKey), Tasks!Fault \/ Tasks!NoFault,
           UNCHANGED <<active, now, scans, rows, orders, events, compared, live>>
    PROVE  TaskInv'
<1>1. /\ TaskBusy(job) /\ job \in TaskFull /\ scans \in Tasks!Scans /\ job.kept[1] \in job.task.ids /\ job.kept[3] = scans
  BY TaskAt
<1>2. PICK k \in TaskPair : /\ job' = k /\ k.pc = "compare" /\ k.task = job.task /\ k.left = job.left /\ k.kept = job.kept
                            /\ k.pass = d /\ k.order = Tasks!NoKey
  <2>1. Tasks!NoKey \in {Tasks!NoKey} \cup Tasks!Keys
    OBVIOUS
  <2> QED BY <1>1, <2>1, TaskPairs
<1>3. faults' \in 0..MaxFaults /\ faults' \in Nat /\ faults' >= faults
  BY TaskFaults
<1>4. TaskTimes(k)'
  <2>1. \A r \in rows' : \E q \in rows : r.scan = q.scan /\ r.at = q.at
    OBVIOUS
  <2>2. \A o \in orders' : \E q \in orders : o.scan = q.scan /\ o.at = q.at
    OBVIOUS
  <2> QED BY <2>1, <2>2, TaskTimesKept
<1>5. TaskGoes(k)'
  <2>1. k \in TaskJobs'
    BY <1>2, TaskSame DEF TaskJobs
  <2>2. TaskLeft(k)' /\ TaskDaily(k)'
    BY <1>1, <1>2 DEF TaskBusy, TaskLeft, TaskKeyOf, TaskDaily
  <2>3. Tasks!Made' = Tasks!Made
    BY DEF Tasks!Made, Tasks!Key
  <2>4. TaskBusy(k)'
    BY <1>1, <1>2, <2>2, <2>3 DEF TaskBusy, TaskPcs, Tasks!Key
  <2> QED BY <2>1, <2>4 DEF TaskGoes
<1>6. TaskCounted(k)'
  <2>1. Tasks!Halves' = Tasks!Halves
    BY TaskHalvesSame
  <2> QED BY <1>2, <1>3, <2>1, TaskCounts
<1>7. now' \in TaskHours /\ scans' \in {0} \cup Tasks!Scans
  BY DEF TaskInv, TaskTyped
<1> QED BY <1>2, <1>3, <1>4, <1>5, <1>6, <1>7, TaskRests

(* The signal is left by a failure, and its scan goes on. *)
LEMMA TaskLeaves ==
    ASSUME TaskInv, job.pc \in {"shadow", "shadowEvent", "compare"}, NEW k \in TaskJobs, job' = k, k.pc = "next", k.task = job.task,
           k.left = job.left, k.kept = job.kept, Tasks!Fault,
           UNCHANGED <<active, now, scans, rows, orders, events, compared, live>>
    PROVE  TaskInv'
<1>1. /\ TaskBusy(job) /\ scans \in Tasks!Scans
  BY TaskAt
<1>3. faults' \in 0..MaxFaults /\ faults' \in Nat /\ faults' >= faults /\ faults' >= faults + 1
  BY TaskFaults
<1>4. TaskTimes(k)'
  <2>1. \A r \in rows' : \E q \in rows : r.scan = q.scan /\ r.at = q.at
    OBVIOUS
  <2>2. \A o \in orders' : \E q \in orders : o.scan = q.scan /\ o.at = q.at
    OBVIOUS
  <2> QED BY <2>1, <2>2, TaskTimesKept
<1>5. TaskGoes(k)'
  <2>1. k \in TaskJobs'
    BY TaskSame
  <2>2. TaskLeft(k)' /\ TaskDaily(k)'
    BY <1>1 DEF TaskBusy, TaskLeft, TaskKeyOf, TaskDaily
  <2>4. TaskBusy(k)'
    BY <1>1, <2>2 DEF TaskBusy, TaskPcs
  <2> QED BY <2>1, <2>4 DEF TaskGoes
<1>6. TaskCounted(k)'
  <2>1. Tasks!Halves' = Tasks!Halves
    BY TaskHalvesSame
  <2> QED BY <1>3, <2>1, TaskCounts
<1>7. now' \in TaskHours /\ scans' \in {0} \cup Tasks!Scans
  BY DEF TaskInv, TaskTyped
<1> QED BY <1>3, <1>4, <1>5, <1>6, <1>7, TaskRests

(* The key of a shadow's order. *)
LEMMA TaskShadowed == ASSUME TaskInv, job.pc \in {"shadow", "shadowEvent", "compare"}
    PROVE  /\ Tasks!ShadowKey = TaskShadowKey(job) /\ Tasks!ShadowKey \in Tasks!Keys
           /\ Tasks!ShadowKey[1] = ShadowOf[job.kept[1]] /\ Tasks!ShadowKey[1] \in ElementsOf(ShadowIds)
           /\ Tasks!ShadowKey[1] \notin DOMAIN ShadowOf /\ Tasks!ShadowKey[1] # "xau_sma120"
           /\ Tasks!ShadowKey[2] = job.kept[2] /\ Tasks!ShadowKey[3] = scans
<1>1. TaskBusy(job) /\ TaskFits(job.task) /\ job.kept[2] \in TaskTargets /\ job.kept[3] = scans /\ scans \in Tasks!Scans
  BY TaskAt
<1>2. job.kept[1] \in DOMAIN job.task.shadow
  BY <1>1 DEF TaskBusy
<1>3. PICK a, b : a = job.task.shadow[job.kept[1]] /\ b = job.kept[2]
  OBVIOUS
<1>4. job.kept[1] \in DOMAIN ShadowOf /\ a = ShadowOf[job.kept[1]]
  BY <1>1, <1>2, <1>3 DEF TaskFits
<1>5. a \in ElementsOf(ShadowIds) /\ a \notin DOMAIN ShadowOf /\ a # "xau_sma120" /\ a \in Tasks!Ids
  BY <1>4, TaskShadows
<1>6. Tasks!ShadowKey = <<a, b, scans>> /\ TaskShadowKey(job) = <<a, b, scans>>
  BY <1>1, <1>3 DEF Tasks!ShadowKey, TaskShadowKey
<1>7. <<a, b, scans>> \in Tasks!Keys
  BY <1>1, <1>3, <1>5 DEF Tasks!Keys
<1> QED BY <1>3, <1>4, <1>5, <1>6, <1>7, TaskTriples

LEMMA TaskShadowOrder ==
    ASSUME TaskInv, job.pc = "shadow", Tasks!ShadowMayOpen, orders' = orders \cup {Tasks!NewOrder(Tasks!ShadowKey, job.kept)},
           Tasks!To("shadowEvent"), Tasks!NoFault, UNCHANGED <<active, now, scans, rows, events, compared, live>>
    PROVE  TaskInv'
<1>1. /\ TaskBusy(job) /\ job \in TaskJobs /\ job \in TaskFull /\ scans \in Tasks!Scans /\ job.task \in TaskAll
      /\ job.kept[1] \in job.task.ids /\ job.kept[3] = scans /\ job.kept \in Tasks!Keys /\ job.kept # Tasks!NoKey
  BY TaskAt
<1>2. PICK k \in TaskFull : /\ job' = k /\ k.pc = "shadowEvent" /\ k.task = job.task /\ k.left = job.left /\ k.kept = job.kept
                            /\ k.blind = job.blind
  <2>1. "shadowEvent" \in TaskSteps /\ job.pc # "idle"
    BY DEF TaskSteps
  <2> QED BY <1>1, <2>1, TaskSteps1
<1>3. PICK key, src, n : key = Tasks!ShadowKey /\ src = job.kept /\ n = Tasks!NewOrder(key, src)
  OBVIOUS
<1>4. /\ key = TaskShadowKey(job) /\ key \in Tasks!Keys /\ key[1] \in ElementsOf(ShadowIds)
      /\ key[1] \notin DOMAIN ShadowOf /\ key[1] # "xau_sma120" /\ key[3] = scans
  BY <1>3, TaskShadowed
<1>5. /\ n \in Tasks!Order /\ n.sid = key[1] /\ n.tgt = key[2] /\ n.scan = key[3] /\ n.at = now /\ n.src = src /\ n.open
      /\ n.blind = job.blind /\ Tasks!Key(n) = key
  <2>1. src \in {Tasks!NoKey} \cup Tasks!Keys
    BY <1>1, <1>3
  <2> QED BY <1>1, <1>3, <1>4, <2>1, TaskOrder
<1>6. TaskNew(n)
  <2>1. ~Tasks!HasOpen(n.sid, n.tgt)
    BY <1>3, <1>5 DEF Tasks!ShadowMayOpen
  <2>2. \A b \in active : \A s \in b.scans : n.sid \notin s.ids
    BY <1>4, <1>5, TaskFacts DEF TaskAll, TaskFits
  <2>3. n.src[3] = n.scan
    BY <1>1, <1>3, <1>4, <1>5
  <2> QED BY <1>4, <1>5, <2>1, <2>2, <2>3 DEF TaskNew
<1>7. orders' = orders \cup {n}
  BY <1>3, Zenon
<1>8. faults' \in 0..MaxFaults /\ faults' \in Nat /\ faults' >= faults
  BY TaskFaults
<1>9. TaskTimes(k)' /\ TaskSources' /\ TaskKept' /\ Tasks!Made \subseteq Tasks!Made' /\ TaskTyped'
  BY <1>6, <1>7, <1>8, TaskAdd
<1>10. TaskGoes(k)'
  <2>1. k \in TaskJobs'
    BY <1>2, TaskSame DEF TaskJobs
  <2>2. TaskLeft(k)'
    <3>1. \A x \in job.left : TaskKeyOf(x) # src
      BY <1>1, <1>3 DEF TaskBusy, TaskLeft
    <3> QED BY <1>1, <1>2, <1>5, <1>7, <3>1, Zenon DEF TaskBusy, TaskLeft, TaskKeyOf
  <2>3. TaskDaily(k)'
    BY <1>1, <1>2 DEF TaskBusy, TaskDaily
  <2>4. k.kept \in Tasks!Made' /\ k.kept \in events'
    BY <1>1, <1>2, <1>9 DEF TaskBusy, TaskPcs
  <2>5. TaskShadowKey(k) = key
    BY <1>2, <1>4 DEF TaskShadowKey
  <2>6. \A o \in orders' : o.src = k.kept => o = n
    BY <1>1, <1>2, <1>7 DEF TaskBusy
  <2>7. (Tasks!Key(n) = TaskShadowKey(k))' /\ n.src = k.kept /\ n \in orders'
    BY <1>2, <1>3, <1>5, <1>7, <2>5 DEF Tasks!Key, TaskShadowKey
  <2>8. job.kept[1] \in DOMAIN job.task.shadow
    BY <1>1 DEF TaskBusy
  <2>9. TaskBusy(k)'
    BY <1>1, <1>2, <2>2, <2>3, <2>4, <2>6, <2>7, <2>8 DEF TaskBusy, TaskPcs
  <2> QED BY <2>1, <2>9 DEF TaskGoes
<1>11. TaskCounted(k)'
  <2>1. Tasks!Halves' \subseteq Tasks!Halves \cup {job.kept}
    <3>1. n.src = job.kept /\ n.src # Tasks!NoKey /\ n.sid \notin DOMAIN Tasks!ShadowOf
      BY <1>1, <1>3, <1>4, <1>5, TaskNames
    <3>2. Tasks!Made \subseteq Tasks!Made'
      BY <1>9
    <3> QED BY <1>7, <3>1, <3>2, Zenon DEF Tasks!Halves, Tasks!Key
  <2> QED BY <1>2, <1>8, <2>1, TaskCounts
<1> QED BY <1>2, <1>9, <1>10, <1>11 DEF TaskInv

LEMMA TaskShadow == ASSUME TaskInv, Tasks!Shadow PROVE TaskInv'
<1>1. job.pc = "shadow" /\ UNCHANGED <<active, now, scans, rows, events, compared, live>>
  BY DEF Tasks!Shadow, Tasks!Step
<1>2. \/ Tasks!ToCompare(FALSE, Tasks!NoKey) /\ UNCHANGED orders /\ Tasks!NoFault
      \/ Tasks!ToCompare(TRUE, Tasks!NoKey) /\ UNCHANGED orders /\ (Tasks!Fault \/ Tasks!NoFault)
      \/ /\ Tasks!ShadowMayOpen /\ orders' = orders \cup {Tasks!NewOrder(Tasks!ShadowKey, job.kept)}
         /\ Tasks!To("shadowEvent") /\ Tasks!NoFault
      \/ Tasks!To("next") /\ UNCHANGED orders /\ Tasks!Fault
  BY Zenon DEF Tasks!Shadow
<1>3. CASE Tasks!ToCompare(FALSE, Tasks!NoKey) /\ UNCHANGED orders /\ Tasks!NoFault
  <2>1. PICK no \in BOOLEAN : no = FALSE
    BY Zenon
  <2>2. Tasks!ToCompare(no, Tasks!NoKey)
    BY <1>3, <2>1, Zenon
  <2> QED BY <1>1, <1>3, <2>2, TaskCompares
<1>4. CASE Tasks!ToCompare(TRUE, Tasks!NoKey) /\ UNCHANGED orders /\ (Tasks!Fault \/ Tasks!NoFault)
  <2>1. PICK yes \in BOOLEAN : yes = TRUE
    BY Zenon
  <2>2. Tasks!ToCompare(yes, Tasks!NoKey)
    BY <1>4, <2>1, Zenon
  <2> QED BY <1>1, <1>4, <2>2, TaskCompares
<1>5. CASE /\ Tasks!ShadowMayOpen /\ orders' = orders \cup {Tasks!NewOrder(Tasks!ShadowKey, job.kept)}
           /\ Tasks!To("shadowEvent") /\ Tasks!NoFault
  BY <1>1, <1>5, TaskShadowOrder
<1>6. CASE Tasks!To("next") /\ UNCHANGED orders /\ Tasks!Fault
  <2>1. job \in TaskFull /\ "next" \in TaskSteps /\ job.pc # "idle"
    BY <1>1, TaskAt DEF TaskSteps
  <2>2. PICK k \in TaskFull : /\ job' = k /\ k.pc = "next" /\ k.task = job.task /\ k.left = job.left /\ k.kept = job.kept
                              /\ k.blind = job.blind
    BY <1>6, <2>1, TaskSteps1
  <2>3. k \in TaskJobs
    BY <2>2 DEF TaskJobs
  <2> QED BY <1>1, <1>6, <2>2, <2>3, TaskLeaves
<1> QED BY <1>2, <1>3, <1>4, <1>5, <1>6, Zenon

LEMMA TaskShadowEvent == ASSUME TaskInv, Tasks!ShadowEvent PROVE TaskInv'
<1>1. job.pc = "shadowEvent" /\ UNCHANGED <<active, now, scans, rows, orders, compared, live>>
  BY DEF Tasks!ShadowEvent, Tasks!Step
<1>2. /\ TaskBusy(job) /\ job \in TaskJobs /\ job \in TaskFull /\ scans \in Tasks!Scans
      /\ job.kept[1] \in job.task.ids /\ job.kept[3] = scans /\ job.kept \in Tasks!Keys
  BY <1>1, TaskAt
<1>3. CASE UNCHANGED events /\ Tasks!To("next") /\ Tasks!Fault
  <2>1. "next" \in TaskSteps /\ job.pc # "idle"
    BY <1>1 DEF TaskSteps
  <2>2. PICK k \in TaskFull : /\ job' = k /\ k.pc = "next" /\ k.task = job.task /\ k.left = job.left /\ k.kept = job.kept
                              /\ k.blind = job.blind
    BY <1>2, <1>3, <2>1, TaskSteps1
  <2>3. k \in TaskJobs
    BY <2>2 DEF TaskJobs
  <2> QED BY <1>1, <1>3, <2>2, <2>3, TaskLeaves
<1>4. CASE events' = events \cup {Tasks!ShadowKey} /\ Tasks!ToCompare(TRUE, Tasks!ShadowKey) /\ Tasks!NoFault
  <2>1. PICK yes, key : yes = TRUE /\ key = Tasks!ShadowKey
    OBVIOUS
  <2>2. key = TaskShadowKey(job) /\ key \in Tasks!Keys
    BY <1>1, <2>1, TaskShadowed
  <2>3. PICK k \in TaskPair : /\ job' = k /\ k.pc = "compare" /\ k.task = job.task /\ k.left = job.left /\ k.kept = job.kept
                              /\ k.pass = yes /\ k.order = key
    <3>1. Tasks!ToCompare(yes, key)
      BY <1>4, <2>1, Zenon
    <3>2. yes \in BOOLEAN /\ key \in {Tasks!NoKey} \cup Tasks!Keys
      BY <2>1, <2>2
    <3> QED BY <1>2, <3>1, <3>2, TaskPairs
  <2>4. events' = events \cup {key}
    BY <1>4, <2>1, Zenon
  <2>5. (\E o \in orders : Tasks!Key(o) = key /\ o.src = job.kept) /\ \A o \in orders : o.src = job.kept => Tasks!Key(o) = key
    BY <1>1, <1>2, <2>2 DEF TaskBusy
  <2>6. Tasks!Made' = Tasks!Made /\ key \in Tasks!Made
    BY <1>1, <2>5 DEF Tasks!Made, Tasks!Key
  <2>7. faults' \in 0..MaxFaults /\ faults' \in Nat /\ faults' >= faults
    BY <1>4, TaskFaults
  <2>8. TaskTyped'
    BY <1>1, <2>4, <2>6, <2>7, TaskSame DEF TaskInv, TaskTyped
  <2>9. TaskTimes(k)'
    <3>1. \A r \in rows' : \E q \in rows : r.scan = q.scan /\ r.at = q.at
      BY <1>1
    <3>2. \A o \in orders' : \E p \in orders : o.scan = p.scan /\ o.at = p.at
      BY <1>1
    <3> QED BY <1>1, <3>1, <3>2, TaskTimesKept
  <2>10. TaskSources'
    BY <1>1 DEF TaskInv, TaskSources
  <2>11. TaskGoes(k)'
    <3>1. k \in TaskJobs'
      BY <1>1, <2>3, TaskSame DEF TaskJobs
    <3>2. TaskLeft(k)' /\ TaskDaily(k)'
      BY <1>1, <1>2, <2>3 DEF TaskBusy, TaskLeft, TaskKeyOf, TaskDaily
    <3>3. (\A o \in orders : o.src = k.kept => Tasks!Key(o) \in events)'
      BY <1>1, <2>3, <2>4, <2>5 DEF Tasks!Key
    <3>4. k.pass /\ k.order = TaskShadowKey(k)
      BY <2>1, <2>2, <2>3 DEF TaskShadowKey
    <3>5. (\E o \in orders : Tasks!Key(o) = k.order /\ o.src = k.kept)'
      BY <1>1, <2>3, <2>5 DEF Tasks!Key
    <3>6. job.kept \in Tasks!Made /\ job.kept \in events /\ job.kept[1] \in DOMAIN job.task.shadow
      BY <1>1, <1>2 DEF TaskBusy, TaskPcs
    <3>7. (k.order = TaskShadowKey(k))'
      BY <3>4 DEF TaskShadowKey
    <3>8. TaskBusy(k)'
      BY <1>1, <1>2, <2>3, <2>4, <2>6, <3>2, <3>3, <3>4, <3>5, <3>6, <3>7 DEF TaskBusy, TaskPcs
    <3> QED BY <3>1, <3>8 DEF TaskGoes
  <2>12. TaskCounted(k)'
    <3>1. Tasks!Halves' \subseteq Tasks!Halves \cup {job.kept}
      BY <1>1, <2>4, <2>6, Zenon DEF Tasks!Halves, Tasks!Key
    <3> QED BY <1>1, <2>3, <2>7, <3>1, TaskCounts
  <2>13. TaskKept'
    BY <1>1, <2>4, <2>6 DEF TaskInv, TaskKept, Tasks!OneOpen, Tasks!OncePerWindow, Tasks!DailyKept, Tasks!ShadowPairs, Tasks!LiveHasOrder, Tasks!Key
  <2> QED BY <2>3, <2>8, <2>9, <2>10, <2>11, <2>12, <2>13 DEF TaskInv
<1> QED BY <1>3, <1>4, Zenon DEF Tasks!ShadowEvent

LEMMA TaskCompared == ASSUME TaskInv, Tasks!SaveShadow PROVE TaskInv'
<1>1. job.pc = "compare" /\ UNCHANGED <<active, now, scans, rows, orders, events, live>>
  BY DEF Tasks!SaveShadow, Tasks!Step
<1>2. /\ TaskBusy(job) /\ job \in TaskJobs /\ job \in TaskPair /\ scans \in Tasks!Scans /\ job.kept = <<job.kept[1], job.kept[2], scans>>
      /\ job.kept[1] \in job.task.ids /\ job.kept[3] = scans /\ job.kept \in Tasks!Keys
  BY <1>1, TaskAt
<1>3. PICK j, p, k : j = job /\ p = "next" /\ k = [j EXCEPT !.pc = p]
  BY Zenon
<1>4. job' = k /\ k.pc = "next" /\ k.task = job.task /\ k.left = job.left /\ k.kept = job.kept /\ k \in TaskJobs
  <2>1. job' = k
    BY <1>3, Zenon DEF Tasks!SaveShadow, Tasks!To
  <2>2. j \in TaskJobs /\ j.pc # "idle"
    BY <1>1, <1>2, <1>3
  <2>3. k \in TaskJobs /\ k.pc = p /\ k.task = j.task /\ k.left = j.left /\ k.kept = j.kept
    BY <1>3, <2>2, TaskTo
  <2> QED BY <1>3, <2>1, <2>3
<1>5. CASE UNCHANGED compared /\ Tasks!Fault
  BY <1>1, <1>4, <1>5, TaskLeaves
<1>6. CASE compared' = compared \cup {[source |-> job.kept, pass |-> job.pass, order |-> job.order]} /\ Tasks!NoFault
  <2>1. PICK c : c = [source |-> job.kept, pass |-> job.pass, order |-> job.order]
    BY Zenon
  <2>2. c.source = job.kept /\ c.pass = job.pass /\ c.order = job.order /\ compared' = compared \cup {c}
    BY <1>6, <2>1
  <2>3. job.order \in {Tasks!NoKey} \cup Tasks!Keys
    BY <1>2 DEF TaskPair
  <2>4. job.kept \in Tasks!Made /\ job.kept \in events
    BY <1>1, <1>2 DEF TaskBusy, TaskPcs
  <2>5. Tasks!Made' = Tasks!Made
    BY <1>1 DEF Tasks!Made, Tasks!Key
  <2>6. faults' \in 0..MaxFaults /\ faults' \in Nat /\ faults' >= faults
    BY <1>6, TaskFaults
  <2>7. TaskTyped'
    BY <1>1, <1>2, <2>2, <2>3, <2>5, <2>6, TaskSame DEF TaskInv, TaskTyped
  <2>8. TaskTimes(k)'
    <3>1. \A r \in rows' : \E q \in rows : r.scan = q.scan /\ r.at = q.at
      BY <1>1
    <3>2. \A o \in orders' : \E q \in orders : o.scan = q.scan /\ o.at = q.at
      BY <1>1
    <3> QED BY <1>1, <3>1, <3>2, TaskTimesKept
  <2>9. TaskSources'
    BY <1>1 DEF TaskInv, TaskSources
  <2>10. TaskGoes(k)'
    <3>1. k \in TaskJobs'
      BY <1>1, <1>4, TaskSame
    <3>2. TaskLeft(k)' /\ TaskDaily(k)'
      BY <1>1, <1>2, <1>4 DEF TaskBusy, TaskLeft, TaskKeyOf, TaskDaily
    <3>3. TaskBusy(k)'
      BY <1>1, <1>2, <1>4, <3>2 DEF TaskBusy, TaskPcs
    <3> QED BY <3>1, <3>3 DEF TaskGoes
  <2>11. TaskCounted(k)'
    <3>1. Tasks!Halves' \subseteq Tasks!Halves
      BY <1>1, <2>2, <2>5, Zenon DEF Tasks!Halves, Tasks!Key
    <3>2. job.kept \notin Tasks!Halves'
      <4>1. \A r \in rows' : Tasks!Key(r) \notin Tasks!Made' => Tasks!Key(r) # job.kept
        BY <2>4, <2>5
      <4>2. \A o \in orders' : Tasks!Key(o) \notin events' => (IF o.src = Tasks!NoKey THEN Tasks!Key(o) ELSE o.src) # job.kept
        BY <1>1, <1>2, <2>4 DEF TaskBusy
      <4>3. \A o \in orders' : (~\E d \in compared' : d.source = Tasks!Key(o)) => Tasks!Key(o) # job.kept
        BY <2>2
      <4> QED BY <4>1, <4>2, <4>3, Zenon DEF Tasks!Halves, Tasks!Key
    <3> QED BY <1>1, <2>6, <3>1, <3>2, TaskCounts
  <2>12. TaskKept'
    <3>1. Tasks!ShadowPairs'
      <4>1. Tasks!ShadowPairs
        BY DEF TaskInv, TaskKept
      <4>2. ASSUME job.order # Tasks!NoKey
            PROVE  job.pass /\ \E o \in orders : \E q \in orders :
                      Tasks!Key(o) = job.order /\ Tasks!Key(q) = job.kept /\ o.src = job.kept /\ o.sid = ShadowOf[q.sid] /\ o.tgt = q.tgt /\ o.at = q.at
        <5>1. job.pass /\ job.order = TaskShadowKey(job)
          BY <1>1, <1>2, <4>2 DEF TaskBusy
        <5>2. PICK o \in orders : Tasks!Key(o) = job.order /\ o.src = job.kept
          BY <1>1, <1>2, <4>2 DEF TaskBusy
        <5>3. PICK q \in orders : Tasks!Key(q) = job.kept
          BY <2>4 DEF Tasks!Made
        <5>4. Tasks!ShadowKey = TaskShadowKey(job) /\ Tasks!ShadowKey[1] = ShadowOf[job.kept[1]] /\ Tasks!ShadowKey[2] = job.kept[2]
              /\ Tasks!ShadowKey[3] = scans
          BY <1>1, TaskShadowed
        <5>5. o.sid = ShadowOf[job.kept[1]] /\ o.tgt = job.kept[2] /\ o.scan = scans
          BY <5>1, <5>2, <5>4, TaskTriples DEF Tasks!Key
        <5>6. q.sid = job.kept[1] /\ q.tgt = job.kept[2] /\ q.scan = scans
          BY <1>2, <5>3, TaskTriples DEF Tasks!Key
        <5>7. o.at = now /\ q.at = now
          BY <1>1, <5>5, <5>6 DEF TaskInv, TaskTimes
        <5> QED BY <5>1, <5>2, <5>3, <5>5, <5>6, <5>7
      <4> QED BY <1>1, <2>2, <4>1, <4>2, TaskNames DEF Tasks!ShadowPairs, Tasks!Key
    <3> QED BY <1>1, <2>5, <3>1 DEF TaskInv, TaskKept, Tasks!OneOpen, Tasks!OncePerWindow, Tasks!DailyKept, Tasks!LiveHasOrder, Tasks!Key
  <2> QED BY <1>4, <2>7, <2>8, <2>9, <2>10, <2>11, <2>12 DEF TaskInv
<1> QED BY <1>5, <1>6 DEF Tasks!SaveShadow

(* The image of a finite set has no more elements than the set. *)
LEMMA ImageCount ==
    ASSUME NEW S, NEW T, NEW f, IsFiniteSet(S), \A x \in S : f[x] \in T, \A y \in T : \E x \in S : f[x] = y
    PROVE  IsFiniteSet(T) /\ Cardinality(T) <= Cardinality(S) /\ Cardinality(T) \in Nat /\ Cardinality(S) \in Nat
<1>1. PICK g : g = [x \in S |-> f[x]]
  BY Zenon
<1>2. g \in [S -> T] /\ \A y \in T : \E x \in S : g[x] = y
  BY <1>1
<1>3. g \in Surjection(S, T)
  BY <1>2 DEF Surjection
<1>4. IsFiniteSet(T) /\ Cardinality(T) <= Cardinality(S)
  BY <1>3, FS_Surjection
<1> QED BY <1>4, FS_CardinalityType

(* A settlement or a synchronisation: orders are closed, live trades end. *)
TaskShut(o, hit) == IF o \in hit THEN [o EXCEPT !.open = FALSE] ELSE o

TaskAlike(p, o) ==
  /\ p \in Tasks!Order /\ p.sid = o.sid /\ p.tgt = o.tgt /\ p.scan = o.scan /\ p.at = o.at /\ p.src = o.src /\ p.blind = o.blind
  /\ Tasks!Key(p) = Tasks!Key(o) /\ (p.open => p = o /\ o.open)

LEMMA TaskShuts ==
    ASSUME \A o \in orders : o \in Tasks!Order, NEW hit, hit \subseteq orders,
           orders' = (orders \ hit) \cup {[o EXCEPT !.open = FALSE] : o \in hit}
    PROVE  \E f : /\ \A o \in orders : f[o] \in orders' /\ TaskAlike(f[o], o)
                  /\ \A p \in orders' : \E o \in orders : f[o] = p
<1>1. PICK f : f = [o \in orders |-> TaskShut(o, hit)]
  BY Zenon
<1>2. ASSUME NEW o \in orders PROVE f[o] \in orders' /\ TaskAlike(f[o], o)
  <2>1. o \in Tasks!Order
    OBVIOUS
  <2>2. CASE o \in hit
    <3>1. PICK no \in BOOLEAN : no = FALSE
      BY Zenon
    <3>2. PICK a, b, c, d, e, g, h, i : a = o.sid /\ b = o.tgt /\ c = o.scan /\ d = o.at /\ e = o.hold /\ g = o.src /\ h = o.open /\ i = o.blind
      OBVIOUS
    <3>3. o = [sid |-> a, tgt |-> b, scan |-> c, at |-> d, hold |-> e, src |-> g, open |-> h, blind |-> i]
      BY <2>1, <3>2 DEF Tasks!Order
    <3>4. PICK q : q = [o EXCEPT !.open = no]
      BY Zenon
    <3>5. q = [sid |-> a, tgt |-> b, scan |-> c, at |-> d, hold |-> e, src |-> g, open |-> no, blind |-> i]
      BY <3>3, <3>4
    <3>6. q \in Tasks!Order
      BY <2>1, <3>2, <3>5 DEF Tasks!Order
    <3>7. q.sid = a /\ q.tgt = b /\ q.scan = c /\ q.at = d /\ q.src = g /\ q.blind = i /\ q.open = no
      BY <3>5
    <3>8. q = [o EXCEPT !.open = FALSE]
      BY <3>1, <3>4, Zenon
    <3>9. f[o] = q
      <4>1. f[o] = TaskShut(o, hit)
        BY <1>1
      <4> QED BY <2>2, <3>8, <4>1, Zenon DEF TaskShut
    <3>10. q \in orders'
      <4>1. [o EXCEPT !.open = FALSE] \in {[p EXCEPT !.open = FALSE] : p \in hit}
        BY <2>2, Zenon
      <4>2. \A A, B, C : C = A \cup B => B \subseteq C
        OBVIOUS
      <4>3. {[p EXCEPT !.open = FALSE] : p \in hit} \subseteq orders'
        BY <4>2, Zenon
      <4> QED BY <3>8, <4>1, <4>3, Zenon
    <3> QED BY <3>1, <3>2, <3>6, <3>7, <3>9, <3>10 DEF TaskAlike, Tasks!Key
  <2>3. CASE o \notin hit
    <3>1. f[o] = o
      BY <1>1, <2>3 DEF TaskShut
    <3>2. o \in orders'
      BY <2>3
    <3> QED BY <2>1, <3>1, <3>2 DEF TaskAlike
  <2> QED BY <2>2, <2>3
<1>3. ASSUME NEW p \in orders' PROVE \E o \in orders : f[o] = p
  <2>1. CASE p \in orders \ hit
    <3>1. f[p] = p
      BY <1>1, <2>1 DEF TaskShut
    <3> QED BY <2>1, <3>1
  <2>2. CASE p \in {[o EXCEPT !.open = FALSE] : o \in hit}
    <3>1. PICK o \in hit : p = [o EXCEPT !.open = FALSE]
      BY <2>2, Zenon
    <3>2. f[o] = TaskShut(o, hit) /\ o \in orders
      BY <1>1
    <3>3. TaskShut(o, hit) = p
      BY <3>1, Zenon DEF TaskShut
    <3> QED BY <3>2, <3>3
  <2>3. p \in orders \ hit \/ p \in {[o EXCEPT !.open = FALSE] : o \in hit}
    <3>1. \A A, B, C : C = A \cup B => \A x \in C : x \in A \/ x \in B
      OBVIOUS
    <3> QED BY <3>1, Zenon
  <2> QED BY <2>1, <2>2, <2>3
<1> QED BY <1>2, <1>3, Zenon

LEMMA TaskCloses ==
    ASSUME TaskInv, job = Tasks!Idle, UNCHANGED <<active, now, rows, events, compared, scans, job>>, live' \subseteq live,
           Tasks!Fault \/ Tasks!NoFault, NEW f, \A o \in orders : f[o] \in orders' /\ TaskAlike(f[o], o),
           \A p \in orders' : \E o \in orders : f[o] = p
    PROVE  TaskInv'
<1>1. ASSUME NEW p \in orders' PROVE \E o \in orders : f[o] = p /\ TaskAlike(p, o)
  OBVIOUS
<1>2. \A x : Tasks!Key(x)' = Tasks!Key(x)
  BY DEF Tasks!Key
<1>3. faults' \in 0..MaxFaults /\ faults' \in Nat /\ faults' >= faults
  BY TaskFaults
<1>4. job.pc = "idle"
  BY DEF Tasks!Idle
<1>5. Tasks!Made' = Tasks!Made
  <2>1. \A o \in orders : \E p \in orders' : Tasks!Key(p) = Tasks!Key(o)
    BY DEF TaskAlike
  <2>2. \A p \in orders' : \E o \in orders : Tasks!Key(p) = Tasks!Key(o)
    BY <1>1 DEF TaskAlike
  <2>3. Tasks!Made' = {Tasks!Key(o) : o \in orders'}
    BY <1>2 DEF Tasks!Made, Tasks!Key
  <2> QED BY <2>1, <2>2, <2>3 DEF Tasks!Made
<1>6. TaskTyped'
  <2>1. IsFiniteSet(orders')
    BY ImageCount DEF TaskInv, TaskTyped
  <2>2. \A o \in orders' : o \in Tasks!Order
    BY <1>1 DEF TaskAlike
  <2> QED BY <1>3, <1>5, <2>1, <2>2, TaskSame DEF TaskInv, TaskTyped
<1>7. TaskTimes(job)'
  <2>1. \A y \in rows \cup orders : y.scan <= scans
    BY DEF TaskInv, TaskTimes
  <2>2. \A r \in rows : \A o \in orders : r.scan = o.scan => r.at = o.at
    BY DEF TaskInv, TaskTimes
  <2>3. \A r \in rows : \A p \in orders' : r.scan = p.scan => r.at = p.at
    BY <1>1, <2>2 DEF TaskAlike
  <2>4. \A p \in orders' : p.scan <= scans
    BY <1>1, <2>1 DEF TaskAlike
  <2> QED BY <1>4, <2>1, <2>3, <2>4 DEF TaskTimes
<1>8. TaskSources'
  BY <1>1 DEF TaskInv, TaskSources, TaskAlike
<1>9. TaskGoes(job)'
  BY <1>4, TaskSame DEF TaskInv, TaskGoes
<1>10. TaskCounted(job)'
  <2>1. {IF o.src = Tasks!NoKey THEN Tasks!Key(o) ELSE o.src : o \in {p \in orders' : Tasks!Key(p) \notin events}}
        \subseteq {IF o.src = Tasks!NoKey THEN Tasks!Key(o) ELSE o.src : o \in {p \in orders : Tasks!Key(p) \notin events}}
    BY <1>1 DEF TaskAlike
  <2>2. {Tasks!Key(o) : o \in {p \in orders' : p.sid \in DOMAIN Tasks!ShadowOf /\ ~\E c \in compared : c.source = Tasks!Key(p)}}
        \subseteq {Tasks!Key(o) : o \in {p \in orders : p.sid \in DOMAIN Tasks!ShadowOf /\ ~\E c \in compared : c.source = Tasks!Key(p)}}
    BY <1>1 DEF TaskAlike
  <2>3. Tasks!Halves' \subseteq Tasks!Halves
    BY <1>2, <1>5, <2>1, <2>2, Zenon DEF Tasks!Halves, Tasks!Key
  <2> QED BY <1>3, <1>4, <2>3, TaskCountsAll
<1>11. Tasks!OneOpen'
  BY <1>1 DEF TaskInv, TaskKept, Tasks!OneOpen, TaskAlike
<1>12. Tasks!OncePerWindow'
  <2> SUFFICES ASSUME NEW q \in orders', NEW p \in orders', q.sid = p.sid, q.tgt = p.tgt, q.scan < p.scan, p.at - q.at <= 24,
                      q.src = Tasks!NoKey, NEW b \in active, NEW s \in b.scans, s.kind = "classic", q.sid \in s.ids, ~p.blind,
                      NEW r \in rows, r.sent, Tasks!Key(r) = Tasks!Key(q)
               PROVE  FALSE
    BY DEF Tasks!OncePerWindow, Tasks!Key, Tasks!DedupHours
  <2>1. PICK o \in orders : f[o] = q /\ TaskAlike(q, o)
    BY <1>1
  <2>2. PICK u \in orders : f[u] = p /\ TaskAlike(p, u)
    BY <1>1
  <2>3. Tasks!OncePerWindow
    BY DEF TaskInv, TaskKept
  <2>4. /\ o.sid = u.sid /\ o.tgt = u.tgt /\ o.scan < u.scan /\ u.at - o.at <= 24 /\ o.src = Tasks!NoKey /\ o.sid \in s.ids /\ ~u.blind
        /\ Tasks!Key(r) = Tasks!Key(o)
    BY <2>1, <2>2, Zenon DEF TaskAlike
  <2> QED BY <2>3, <2>4 DEF Tasks!OncePerWindow, Tasks!DedupHours
<1>13. Tasks!DailyKept'
  <2>0. \A S : Tasks!Cardinality(S) = Cardinality(S)
    BY DEF Tasks!Cardinality, Cardinality
  <2>1. ASSUME NEW t \in TaskHours
        PROVE  Cardinality({o \in orders' : o.sid = "xau_sma120" /\ o.at \div 24 = t \div 24}) <= 3
    <3>1. PICK S, T : S = {o \in orders : o.sid = "xau_sma120" /\ o.at \div 24 = t \div 24}
                      /\ T = {o \in orders' : o.sid = "xau_sma120" /\ o.at \div 24 = t \div 24}
      BY Zenon
    <3>2. Cardinality(S) <= 3
      BY <2>0, <3>1 DEF TaskInv, TaskKept, Tasks!DailyKept, Tasks!MaxDailyTrades
    <3>3. IsFiniteSet(S)
      <4>1. IsFiniteSet(orders) /\ S \in SUBSET orders
        BY <3>1 DEF TaskInv, TaskTyped
      <4> QED BY <4>1, FS_Subset
    <3>4. \A o \in S : f[o] \in T
      BY <3>1 DEF TaskAlike
    <3>5. \A p \in T : \E o \in S : f[o] = p
      BY <1>1, <3>1 DEF TaskAlike
    <3>6. Cardinality(T) <= Cardinality(S) /\ Cardinality(T) \in Nat /\ Cardinality(S) \in Nat
      BY <3>3, <3>4, <3>5, ImageCount
    <3> QED BY <3>1, <3>2, <3>6
  <2>2. \A t \in TaskHours : Tasks!Cardinality({o \in orders' : o.sid = "xau_sma120" /\ o.at \div 24 = t \div 24}) <= 3
    BY <2>0, <2>1
  <2> QED BY <2>2 DEF Tasks!DailyKept, Tasks!MaxDailyTrades
<1>14. Tasks!ShadowPairs'
  <2> SUFFICES ASSUME NEW c \in compared, c.order # Tasks!NoKey
               PROVE  /\ c.pass
                      /\ \E o \in orders' : \E p \in orders' :
                           Tasks!Key(o) = c.order /\ Tasks!Key(p) = c.source /\ o.src = c.source /\ o.sid = Tasks!ShadowOf[p.sid] /\ o.tgt = p.tgt /\ o.at = p.at
    BY DEF Tasks!ShadowPairs, Tasks!Key
  <2>1. c.pass /\ \E o \in orders : \E p \in orders :
           Tasks!Key(o) = c.order /\ Tasks!Key(p) = c.source /\ o.src = c.source /\ o.sid = Tasks!ShadowOf[p.sid] /\ o.tgt = p.tgt /\ o.at = p.at
    BY DEF TaskInv, TaskKept, Tasks!ShadowPairs
  <2>2. PICK o \in orders, p \in orders :
           Tasks!Key(o) = c.order /\ Tasks!Key(p) = c.source /\ o.src = c.source /\ o.sid = Tasks!ShadowOf[p.sid] /\ o.tgt = p.tgt /\ o.at = p.at
    BY <2>1
  <2>3. f[o] \in orders' /\ f[p] \in orders' /\ TaskAlike(f[o], o) /\ TaskAlike(f[p], p)
    OBVIOUS
  <2> QED BY <2>1, <2>2, <2>3 DEF TaskAlike
<1>15. Tasks!LiveHasOrder'
  BY <1>5 DEF TaskInv, TaskKept, Tasks!LiveHasOrder
<1> QED BY <1>3, <1>6, <1>7, <1>8, <1>9, <1>10, <1>11, <1>12, <1>13, <1>14, <1>15 DEF TaskInv, TaskKept

LEMMA TaskSettle == ASSUME TaskInv, NEW b \in active, Tasks!Settle(b) \/ Tasks!Sync(b) PROVE TaskInv'
<1>1. \A o \in orders : o \in Tasks!Order
  BY TaskFacts
<1>2. CASE Tasks!Settle(b)
  <2>1. job = Tasks!Idle /\ UNCHANGED <<active, now, rows, events, compared, scans, job>> /\ live' \subseteq live
    BY <1>2 DEF Tasks!Settle
  <2>2. PICK hit : /\ hit \subseteq orders /\ (Tasks!Fault \/ Tasks!NoFault)
                   /\ orders' = (orders \ hit) \cup {[o EXCEPT !.open = FALSE] : o \in hit}
    <3>1. PICK bad : \E hit \in SUBSET {o \in orders : o.open /\ o.sid \in Tasks!Reached(b.settle, bad)} :
             /\ (Tasks!NoFault \/ Tasks!Fault)
             /\ orders' = (orders \ hit) \cup {[o EXCEPT !.open = FALSE] : o \in hit}
      BY <1>2, Zenon DEF Tasks!Settle
    <3>2. \A hit, A : hit \in SUBSET {o \in orders : o.open /\ o.sid \in A} => hit \subseteq orders
      OBVIOUS
    <3> QED BY <3>1, <3>2, Zenon
  <2>3. PICK f : /\ \A o \in orders : f[o] \in orders' /\ TaskAlike(f[o], o)
                 /\ \A p \in orders' : \E o \in orders : f[o] = p
    BY <1>1, <2>2, TaskShuts, Zenon
  <2> QED BY <2>1, <2>2, <2>3, TaskCloses, Zenon
<1>3. CASE Tasks!Sync(b)
  <2>1. job = Tasks!Idle /\ UNCHANGED <<active, now, rows, orders, events, compared, scans, job>> /\ live' \subseteq live /\ Tasks!NoFault
    BY <1>3 DEF Tasks!Sync, Tasks!NoFault
  <2>2. PICK f : f = [o \in orders |-> o]
    BY Zenon
  <2>3. \A o \in orders : f[o] \in orders' /\ TaskAlike(f[o], o)
    BY <1>1, <2>1, <2>2 DEF TaskAlike
  <2>4. \A p \in orders' : \E o \in orders : f[o] = p
    BY <2>1, <2>2
  <2> QED BY <2>1, <2>3, <2>4, TaskCloses
<1> QED BY <1>2, <1>3

LEMMA TaskToggle == ASSUME TaskInv, UNCHANGED <<active, now, job, scans, faults, rows, orders, events, compared, live>> PROVE TaskInv'
<1>1. PICK k : k = job
  OBVIOUS
<1>2. TaskTimes(k)' /\ TaskGoes(k)' /\ TaskCounted(k)'
  <2>1. TaskTimes(k) /\ TaskGoes(k) /\ TaskCounted(k)
    BY <1>1 DEF TaskInv
  <2>2. TaskTimes(k)'
    BY <2>1 DEF TaskTimes
  <2>3. TaskGoes(k)'
    BY <2>1, TaskSame DEF TaskGoes, TaskBusy, TaskLeft, TaskKeyOf, TaskDaily, TaskToday, Tasks!CreatedOn, TaskUnsent, Tasks!HasOpen, Tasks!Made, Tasks!Key, TaskShadowKey
  <2>4. TaskCounted(k)'
    BY <2>1, TaskHalvesSame DEF TaskCounted, TaskHalves
  <2> QED BY <2>2, <2>3, <2>4
<1>3. now' \in TaskHours /\ scans' \in {0} \cup Tasks!Scans /\ faults' \in 0..MaxFaults
  BY DEF TaskInv, TaskTyped
<1>4. job' = k
  BY <1>1
<1> QED BY <1>2, <1>3, <1>4, TaskRests

LEMMA TaskStep == ASSUME TaskInv, [Tasks!Next]_tasksVars PROVE TaskInv'
<1>1. CASE Tasks!Next
  <2>1. ASSUME NEW b \in active, NEW s \in b.scans, Tasks!StartScan(s) PROVE TaskInv'
    BY <2>1, TaskStart
  <2>2. CASE Tasks!ScanStep
    BY <2>2, TaskSignal, TaskMark, TaskSave, TaskEvent, TaskPlace, TaskShadow, TaskShadowEvent, TaskCompared, TaskEnds DEF Tasks!ScanStep
  <2>3. ASSUME NEW b \in active, Tasks!Settle(b) \/ Tasks!Sync(b) PROVE TaskInv'
    BY <2>3, TaskSettle
  <2>4. CASE Tasks!TogglePaused
    BY <2>4, TaskToggle DEF Tasks!TogglePaused, Tasks!tables
  <2>5. CASE Tasks!Crash \/ Tasks!Tick
    BY <2>5, TaskEnds
  <2> QED BY <1>1, <2>1, <2>2, <2>3, <2>4, <2>5 DEF Tasks!Next, Tasks!SettleAny
<1>2. CASE UNCHANGED tasksVars
  BY <1>2, TaskToggle DEF tasksVars
<1> QED BY <1>1, <1>2

-----------------------------------------------------------------------------
(* Every behaviour is that of one service, whose steps keep its invariant; the *)
(* invariants of the services that rest are kept with their variables.         *)
ServicesInv ==
  /\ TaskInv /\ WatchInv /\ ListInv /\ PlanInv /\ StoreInv /\ LedgerInv /\ PastInv
  /\ BoardInv /\ DeskInv /\ CenterInv /\ V2Inv /\ ChatInv /\ CopyInv

LEMMA ServicesInit == MCInit => ServicesInv
<1>1. MCInit => active \in MCGroups
  BY DEF MCInit, Tasks!Init
<1> QED BY <1>1, TaskInit, WatchInit, ListInit, PlanInit, StoreInit, LedgerInit, PastInit, BoardInit, DeskInit, CenterInit,
           V2Init, ChatInit, CopyInit DEF MCInit, ServicesInv

LEMMA ServicesStep == ServicesInv /\ [MCNext]_all => ServicesInv'
<1> SUFFICES ASSUME ServicesInv, [MCNext]_all PROVE ServicesInv'
  OBVIOUS
<1>1. /\ [Tasks!Next]_tasksVars /\ [Waves!Next]_watchVars /\ [List!Next]_listVars
      /\ [Plan!Next]_planVars /\ [Store!Next]_storeVars /\ [Ledger!Next]_ledgerVars
      /\ [Past!Next]_pastVars /\ [Board!Next]_boardVars /\ [Desk!Next]_deskVars
      /\ [Center!Next]_centerVars /\ [V2!Next]_v2Vars /\ [Chat!Next]_chatVars
      /\ [Copy!Next]_copyVars
  BY Turns
<1>2. TaskInv' /\ WatchInv' /\ ListInv' /\ PlanInv'
  BY <1>1, TaskStep, WatchStep, ListStep, PlanStep DEF ServicesInv
<1>3. StoreInv' /\ LedgerInv' /\ PastInv' /\ BoardInv' /\ DeskInv'
  BY <1>1, StoreStep, LedgerStep, PastStep, BoardStep, DeskStep DEF ServicesInv
<1>4. CenterInv' /\ V2Inv' /\ ChatInv' /\ CopyInv'
  BY <1>1, CenterStep, V2Step, ChatStep, CopyStep DEF ServicesInv
<1> QED BY <1>2, <1>3, <1>4 DEF ServicesInv

LEMMA ServicesMean == ServicesInv => ServicesTypeOK /\ NoDoubles /\ RecordsAgree
<1> SUFFICES ASSUME ServicesInv PROVE ServicesTypeOK /\ NoDoubles /\ RecordsAgree
  OBVIOUS
<1>1. /\ Tasks!TypeOK /\ Tasks!OneOpen /\ Tasks!OncePerWindow /\ Tasks!DailyKept
      /\ Tasks!OneHalfPerFault /\ Tasks!ShadowPairs /\ Tasks!LiveHasOrder
  BY TaskMeans DEF ServicesInv
<1>2. Waves!TypeOK /\ Waves!OneWatching /\ Waves!FailedStaysOut /\ Waves!EntryInTime /\ Waves!EnteredIsEmitted
  BY WatchMeans DEF ServicesInv
<1>3. List!TypeOK /\ List!PlansInTime /\ List!SeenLately
  BY ListMeans DEF ServicesInv
<1>4. Plan!TypeOK /\ Plan!WholeIsTruth /\ Plan!HorizonsAgree /\ Plan!NotBeforeTime
  BY PlanMeans DEF ServicesInv
<1>5. Store!TypeOK /\ Store!NothingLeftOpen /\ Ledger!TypeOK /\ Ledger!Lineage /\ Ledger!LedgerAgrees
  BY StoreMeans, LedgerMeans DEF ServicesInv
<1>6. Past!TypeOK /\ Past!PassComplete /\ Past!LosesOneBar /\ Past!DaySavedOnce /\ Past!DaysAreWhole /\ Past!RunsAreClosed
  BY PastMeans DEF ServicesInv
<1>7. Board!TypeOK /\ Board!OpenHasReview /\ Board!OneOpenTrade
  BY OneTradeMeans DEF ServicesInv, BoardInv
<1>8. Desk!TypeOK /\ Desk!OpenCapped /\ Desk!OneRecommendation /\ Center!TypeOK /\ Center!FirstTouchCounts
  BY DeskMeans, CenterMeans DEF ServicesInv
<1>9. V2!TypeOK /\ V2!TrailKept /\ V2!ClosedWasFilled /\ V2!OrdersCapped /\ V2!SignalsApart
  BY V2Means DEF ServicesInv, V2Inv
<1>10. Chat!TypeOK /\ Chat!RepeatsAreRestarts /\ Chat!LatestStands /\ Copy!TypeOK /\ Copy!WholeOrNothing
  BY ChatMeans DEF ServicesInv, CopyInv
<1> QED BY <1>1, <1>2, <1>3, <1>4, <1>5, <1>6, <1>7, <1>8, <1>9, <1>10 DEF ServicesTypeOK, NoDoubles, RecordsAgree

(* The tables hold what their columns admit, and every service is at a known   *)
(* step of its command, for any symbols, hours, limits and bounds.             *)
THEOREM ServicesTypes == MCSpec => []ServicesTypeOK
<1> QED BY ServicesInit, ServicesStep, ServicesMean, PTL DEF MCSpec

(* However scans, settlements, failures and restarts follow one another: a     *)
(* strategy has one open order on a target and, the classic ones, one in 24    *)
(* hours; sma120 makes three orders a day at most; a coin is under one          *)
(* observation; a signal is booked once; a day's universe is saved once; one    *)
(* recommendation stands open; version 2 keeps its caps; a command is handled   *)
(* once more for a restart only (tasks.py, wave_watchlist_repo, paper_trades,   *)
(* leaderboard_watch, v2/risk, command_server).                                *)
THEOREM ServicesDoNotDouble == MCSpec => []NoDoubles
<1> QED BY ServicesInit, ServicesStep, ServicesMean, PTL DEF MCSpec

(* What one table says agrees with the others and with the market it was read   *)
(* from: an order with its event and its comparison, an entry with its          *)
(* observation, an outcome with the candles that decide it, an account with its *)
(* trades, a collection with the bars it stored, a migrated table with the old  *)
(* file, the settings with the admins' last commands; a failure or a restart    *)
(* leaves one thing half done.                                                  *)
THEOREM ServicesRecords == MCSpec => []RecordsAgree
<1> QED BY ServicesInit, ServicesStep, ServicesMean, PTL DEF MCSpec

LEMMA ServicesFinal ==
    ServicesInv /\ [MCNext]_all =>
      /\ [\A i \in DOMAIN snaps : snaps[i].final =>
            /\ snaps'[i] = snaps[i]
            /\ {x \in signals' : x.snap = i} = {x \in signals : x.snap = i}
            /\ snaps[i].run # 0 => saved'[snaps[i].run] = saved[snaps[i].run]]_(Store!vars)
      /\ [\A s \in Coins : Board!ShutOut(s) => Board!ShutOut(s)' /\ (review' = None \/ s \notin review')]_(Board!vars)
      /\ [\A i \in Desk!Ids : macro[i].status # "OPEN" => macro'[i].status # "OPEN"]_(Desk!vars)
      /\ [\A i \in 1..CenterRows : results[i].result \notin {"none", "OPEN"} => results'[i] = results[i]]_(Center!vars)
      /\ [\A t \in Copy!Names, r \in Copy!Rows : pg[t][r] # None => pg'[t][r] \in {pg[t][r], "own"}]_(Copy!vars)
<1> SUFFICES ASSUME ServicesInv, [MCNext]_all
             PROVE  /\ \A i \in DOMAIN snaps : snaps[i].final =>
                          /\ snaps'[i] = snaps[i]
                          /\ {x \in signals' : x.snap = i} = {x \in signals : x.snap = i}
                          /\ snaps[i].run # 0 => saved'[snaps[i].run] = saved[snaps[i].run]
                    /\ \A s \in Coins : Board!ShutOut(s) => Board!ShutOut(s)' /\ (review' = None \/ s \notin review')
                    /\ \A i \in Desk!Ids : macro[i].status # "OPEN" => macro'[i].status # "OPEN"
                    /\ \A i \in 1..CenterRows : results[i].result \notin {"none", "OPEN"} => results'[i] = results[i]
                    /\ \A t \in Copy!Names, r \in Copy!Rows : pg[t][r] # None => pg'[t][r] \in {pg[t][r], "own"}
  OBVIOUS
<1>1. /\ [Store!Next]_storeVars /\ [Board!Next]_boardVars /\ [Desk!Next]_deskVars /\ [Center!Next]_centerVars
      /\ [Copy!Next]_copyVars
  BY Turns
<1>2. StoreKept /\ DOMAIN snaps = StoreSnaps
  BY <1>1, StoreStep DEF ServicesInv, StoreInv, StoreTyped, StoreSnaps
<1>3. \A s \in Coins : Board!ShutOut(s) => Board!ShutOut(s)' /\ (review' = None \/ s \notin review')
  BY <1>1, BoardStep DEF ServicesInv
<1>4. \A i \in Desk!Ids : macro[i].status # "OPEN" => macro'[i].status # "OPEN"
  BY <1>1, DeskStep DEF ServicesInv
<1>5. \A i \in 1..CenterRows : results[i].result \notin {"none", "OPEN"} => results'[i] = results[i]
  BY <1>1, CenterStep DEF ServicesInv
<1>6. \A t \in Copy!Names, r \in Copy!Rows : pg[t][r] # None => pg'[t][r] \in {pg[t][r], "own"}
  BY <1>1, CopyKeeps DEF ServicesInv
<1> QED BY <1>2, <1>3, <1>4, <1>5, <1>6 DEF StoreKept

(* What is final stays, in every step: a finalized snapshot with its rows, a    *)
(* coin kept away from the model, a closed trade, a booked result, a migrated   *)
(* row that a task has moved on (sqlite_repository.py, leaderboard_watch,       *)
(* ai_macro, performance, migration.py).                                        *)
THEOREM ServicesFinality == MCSpec => FinalStays
<1> QED BY ServicesInit, ServicesStep, ServicesFinal, PTL
        DEF MCSpec, FinalStays, Store!FinalKept, Board!NeverAgain, Desk!NeverReopened, Center!ResultIsFinal, Copy!NewKept
=============================================================================
