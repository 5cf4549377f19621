--------------------------- MODULE ServicesTables ---------------------------
(* Inductive invariants of the services of MCServices whose commands work through    *)
(* the rows of one table: migration, leaderboard, version 2, desks, performance       *)
(* center, scan store, wave watch and hot watch.  Before them, that a step of the     *)
(* composition is a step of each service or none, and how appended rows are counted. *)
EXTENDS MCServices, Extremes, SequenceTheorems

-----------------------------------------------------------------------------
(* A step of the behaviour is, for every service, one of its own steps or none. *)
LEMMA Turns ==
    ASSUME [MCNext]_all
    PROVE  /\ [Tasks!Next]_tasksVars /\ [Waves!Next]_watchVars /\ [List!Next]_listVars
           /\ [Plan!Next]_planVars /\ [Store!Next]_storeVars /\ [Ledger!Next]_ledgerVars
           /\ [Past!Next]_pastVars /\ [Board!Next]_boardVars /\ [Desk!Next]_deskVars
           /\ [Center!Next]_centerVars /\ [V2!Next]_v2Vars /\ [Chat!Next]_chatVars
           /\ [Copy!Next]_copyVars
<1>1. CASE UNCHANGED all
  BY <1>1 DEF all
<1>2. CASE MCNext
  BY <1>2 DEF MCNext, Turn
<1> QED BY <1>1, <1>2

(* Of two integers, one is the least and one the greatest. *)
LEMMA MinOfTwo ==
    ASSUME NEW a \in Int, NEW b \in Int PROVE Min({a, b}) = IF a <= b THEN a ELSE b
<1> DEFINE m == IF a <= b THEN a ELSE b
<1>1. \A x \in {a, b} : (\A y \in {a, b} : x <= y) <=> x = m
  OBVIOUS
<1>2. m \in {a, b}
  OBVIOUS
<1> HIDE DEF m
<1>3. Min({a, b}) = m
  BY <1>1, <1>2, Zenon DEF Min
<1> QED BY <1>3 DEF m
LEMMA MaxOfTwoA ==
    ASSUME NEW a \in Int, NEW b \in Int PROVE Max({a, b}) = IF a >= b THEN a ELSE b
<1> DEFINE m == IF a >= b THEN a ELSE b
<1>1. \A x \in {a, b} : (\A y \in {a, b} : x >= y) <=> x = m
  OBVIOUS
<1>2. m \in {a, b}
  OBVIOUS
<1> HIDE DEF m
<1>3. Max({a, b}) = m
  BY <1>1, <1>2, Zenon DEF Max
<1> QED BY <1>3 DEF m

(* A set of which any two elements are the same has one at most. *)
LEMMA OneAtMost ==
    ASSUME NEW S, \A x, y \in S : x = y PROVE IsFiniteSet(S) /\ Cardinality(S) <= 1
<1>1. CASE S = {}
  BY <1>1, FS_EmptySet
<1>2. CASE S # {}
  <2>1. PICK x : x \in S
    BY <1>2
  <2>2. S = {x}
    BY <2>1
  <2>3. IsFiniteSet({x}) /\ Cardinality({x}) = 1
    BY FS_Singleton
  <2> QED BY <2>2, <2>3
<1> QED BY <1>1, <1>2
LEMMA OneIsOne ==
    ASSUME NEW S, IsFiniteSet(S), Cardinality(S) <= 1 PROVE \A x, y \in S : x = y
<1> SUFFICES ASSUME NEW x \in S, NEW y \in S, x # y PROVE FALSE
  OBVIOUS
<1>1. IsFiniteSet({x}) /\ Cardinality({x}) = 1 /\ {x} \in SUBSET S /\ {x} # S
  BY FS_Singleton, Zenon
<1>2. Cardinality({x}) < Cardinality(S)
  <2>1. Cardinality({x}) <= Cardinality(S) /\ (Cardinality({x}) = Cardinality(S) => {x} = S)
    BY <1>1, FS_Subset
  <2>2. Cardinality(S) \in Nat
    BY FS_CardinalityType
  <2> QED BY <1>1, <2>1, <2>2
<1> QED BY <1>1, <1>2, FS_CardinalityType

(* Of the places 1..n those in I, counted without the first place. *)
LEMMA CountTail ==
    ASSUME NEW n \in Nat, NEW I \in SUBSET (1..n)
    PROVE  LET J == {k \in 1..(n - 1) : k + 1 \in I} IN
           /\ IsFiniteSet(I) /\ IsFiniteSet(J) /\ Cardinality(I) \in Nat /\ Cardinality(J) \in Nat
           /\ Cardinality(I) = Cardinality(J) + IF 1 \in I THEN 1 ELSE 0
<1> DEFINE J == {k \in 1..(n - 1) : k + 1 \in I}
           f == [k \in J |-> k + 1]
<1>1. IsFiniteSet(1..n)
  BY FS_Interval
<1>2. IsFiniteSet(I) /\ IsFiniteSet(I \ {1})
  BY <1>1, FS_Subset, Zenon
<1>3. f \in Bijection(J, I \ {1})
  <2>1. f \in [J -> I \ {1}]
    OBVIOUS
  <2>2. \A x, y \in J : f[x] = f[y] => x = y
    OBVIOUS
  <2>3. ASSUME NEW y \in I \ {1} PROVE \E x \in J : f[x] = y
    <3>1. y - 1 \in J /\ f[y - 1] = y
      OBVIOUS
    <3> QED BY <3>1
  <2> HIDE DEF f, J
  <2> QED BY <2>1, <2>2, <2>3 DEF Bijection, Injection, IsInjective, Surjection
<1> HIDE DEF f, J
<1>4. IsFiniteSet(J) /\ Cardinality(J) = Cardinality(I \ {1})
  <2>1. ExistsBijection(J, I \ {1})
    BY <1>3 DEF ExistsBijection
  <2>2. J \in SUBSET (1..n)
    BY DEF J
  <2>3. IsFiniteSet(J)
    BY <1>1, <2>2, FS_Subset, Zenon
  <2>4. IsFiniteSet(I \ {1}) /\ Cardinality(I \ {1}) = Cardinality(J)
    BY <2>1, <2>3, FS_Bijection
  <2> QED BY <2>3, <2>4
<1>5. Cardinality(I) \in Nat /\ Cardinality(J) \in Nat
  BY <1>2, <1>4, FS_CardinalityType
<1>6. Cardinality(I \ {1}) = IF 1 \in I THEN Cardinality(I) - 1 ELSE Cardinality(I)
  BY <1>2, FS_RemoveElement
<1>7. Cardinality(I) = Cardinality(J) + IF 1 \in I THEN 1 ELSE 0
  BY <1>4, <1>5, <1>6
<1> QED BY <1>2, <1>4, <1>5, <1>7 DEF J

(* One place more. *)
LEMMA CountMore ==
    ASSUME NEW n \in Nat, NEW I \in SUBSET (1..n)
    PROVE  /\ IsFiniteSet(I) /\ Cardinality(I) \in Nat
           /\ IsFiniteSet(I \cup {n + 1}) /\ Cardinality(I \cup {n + 1}) = Cardinality(I) + 1
<1>1. IsFiniteSet(1..n)
  BY FS_Interval
<1>2. IsFiniteSet(I)
  BY <1>1, FS_Subset, Zenon
<1>3. Cardinality(I) \in Nat
  BY <1>2, FS_CardinalityType
<1>4. n + 1 \notin I
  OBVIOUS
<1>5. IsFiniteSet(I \cup {n + 1}) /\ Cardinality(I \cup {n + 1}) = Cardinality(I) + 1
  BY <1>2, <1>4, FS_AddElement
<1> QED BY <1>2, <1>3, <1>5

(* Of a set of places of a finite set, fewer are not more. *)
LEMMA CountLess ==
    ASSUME NEW I, IsFiniteSet(I), NEW J \in SUBSET I
    PROVE  IsFiniteSet(J) /\ Cardinality(J) \in Nat /\ Cardinality(I) \in Nat /\ Cardinality(J) <= Cardinality(I)
  BY FS_Subset, FS_CardinalityType

(* The migration. *)

(* The rows a table has of the old file are that table's. *)
CopyInv ==
  /\ Copy!TypeOK /\ Copy!WholeOrNothing
  /\ old \in [Copy!Names -> SUBSET Legacy]
  /\ \A t \in Copy!Names : Copy!In(t) \ Own \subseteq old[t]

LEMMA CopyConstants ==
    /\ \A S : Copy!Cardinality(S) = Cardinality(S)
    /\ IsFiniteSet(Copy!Rows) /\ Len(CopiedTables) \in Nat /\ DOMAIN CopiedTables = 1..Len(CopiedTables)
    /\ \A i \in DOMAIN CopiedTables : CopiedTables[i] \in Copy!Names
<1>1. \A S : Copy!Cardinality(S) = Cardinality(S)
  BY DEF Copy!Cardinality, Cardinality
<1>2. IsFiniteSet(Legacy \cup Own)
  BY CopyAssumption, FS_Union, Zenon
<1>3. Len(CopiedTables) \in Nat /\ DOMAIN CopiedTables = 1..Len(CopiedTables)
  BY CopyAssumption
<1> QED BY <1>1, <1>2, <1>3 DEF Copy!Rows, Copy!Names

LEMMA CopyInit == ASSUME Copy!Init PROVE CopyInv
<1> USE CopyAssumption, CopyConstants DEF Copy!Init
<1>1. Copy!TypeOK
  BY DEF Copy!TypeOK, Copy!Running
<1>2. \A t \in Copy!Names : Copy!In(t) = {} /\ verdict[t] # TRUE
  BY Zenon DEF Copy!In
<1>3. Copy!WholeOrNothing
  BY <1>2, Zenon DEF Copy!WholeOrNothing
<1> QED BY <1>1, <1>2, <1>3, Zenon DEF CopyInv

(* With the rows as they were, or more of them, what is said of a table stays. *)
LEMMA TableStays ==
    ASSUME CopyInv, UNCHANGED old, NEW t \in Copy!Names, verdict'[t] = verdict[t] \/ verdict'[t] # TRUE,
           Copy!In(t) \subseteq Copy!In(t)', Copy!In(t)' \subseteq Copy!In(t) \cup Own
    PROVE  /\ Copy!In(t)' \ Own \subseteq old[t]
           /\ old[t] \subseteq Copy!In(t)' \/ old[t] \cap Copy!In(t)' = {}
           /\ verdict'[t] = TRUE /\ ~(old[t] \subseteq Copy!In(t)')
                => Cardinality(Copy!In(t)' \cap Own) >= Cardinality(old[t])
<1> USE CopyAssumption, CopyConstants DEF CopyInv
<1>1. old[t] \subseteq Legacy
  OBVIOUS
<1>2. /\ Copy!In(t) \ Own \subseteq old[t]
      /\ old[t] \subseteq Copy!In(t) \/ old[t] \cap Copy!In(t) = {}
      /\ verdict[t] = TRUE /\ ~(old[t] \subseteq Copy!In(t))
            => Cardinality(Copy!In(t) \cap Own) >= Cardinality(old[t])
  BY DEF Copy!WholeOrNothing
<1>3. IsFiniteSet(Copy!In(t)' \cap Own) /\ IsFiniteSet(old[t])
  BY <1>1, FS_Subset
<1>4. Cardinality(Copy!In(t) \cap Own) <= Cardinality(Copy!In(t)' \cap Own)
  <2>1. Copy!In(t) \cap Own \in SUBSET (Copy!In(t)' \cap Own)
    OBVIOUS
  <2> QED BY <1>3, <2>1, FS_Subset
<1>5. Cardinality(Copy!In(t) \cap Own) \in Nat /\ Cardinality(Copy!In(t)' \cap Own) \in Nat /\ Cardinality(old[t]) \in Nat
  <2>1. IsFiniteSet(Copy!In(t) \cap Own)
    BY FS_Subset
  <2> QED BY <1>3, <2>1, FS_CardinalityType
<1>6. verdict'[t] = TRUE /\ ~(old[t] \subseteq Copy!In(t)')
        => Cardinality(Copy!In(t)' \cap Own) >= Cardinality(old[t])
  <2> SUFFICES ASSUME verdict'[t] = TRUE, ~(old[t] \subseteq Copy!In(t)')
               PROVE  Cardinality(Copy!In(t)' \cap Own) >= Cardinality(old[t])
    BY Zenon
  <2>1. verdict[t] = TRUE /\ ~(old[t] \subseteq Copy!In(t))
    BY Zenon
  <2>2. Cardinality(Copy!In(t) \cap Own) >= Cardinality(old[t])
    BY <1>2, <2>1
  <2> QED BY <1>4, <1>5, <2>2
<1> QED BY <1>1, <1>2, <1>6

LEMMA CopyTableStep == ASSUME CopyInv, Copy!CopyTable PROVE CopyInv'
<1> USE CopyAssumption, CopyConstants
<1>0. PICK t : t = CopiedTables[step]
  OBVIOUS
<1>1. /\ step \in DOMAIN CopiedTables /\ step \in Nat /\ step' = step + 1
      /\ pg' = [pg EXCEPT ![t] = Copy!Inserted(t)]
      /\ verdict' = [verdict EXCEPT ![t] = Cardinality({r \in Copy!Rows : Copy!Inserted(t)[r] # None}) >= Cardinality(old[t])]
      /\ UNCHANGED <<old, refused, starts>>
  <2>1. step \in DOMAIN CopiedTables
    BY DEF Copy!CopyTable
  <2>2. step \in Nat
    BY <2>1
  <2> QED BY <1>0, <2>1, <2>2, Zenon DEF Copy!CopyTable
<1>2. t \in Copy!Names
  BY <1>0, <1>1
<1>3. Copy!Inserted(t) \in [Copy!Rows -> {None, "copied", "own"}]
  BY <1>2 DEF CopyInv, Copy!TypeOK, Copy!Inserted
<1>4. Copy!TypeOK'
  <2>1. pg' \in [Copy!Names -> [Copy!Rows -> {None, "copied", "own"}]]
    BY <1>1, <1>2, <1>3 DEF CopyInv, Copy!TypeOK
  <2>2. verdict' \in [Copy!Names -> {TRUE, FALSE, None}]
    <3>1. verdict \in [Copy!Names -> {TRUE, FALSE, None}]
      BY Zenon DEF CopyInv, Copy!TypeOK
    <3>0. {r \in Copy!Rows : Copy!Inserted(t)[r] # None} \in SUBSET Copy!Rows /\ old[t] \in SUBSET Legacy
      BY <1>2 DEF CopyInv
    <3>4. IsFiniteSet({r \in Copy!Rows : Copy!Inserted(t)[r] # None}) /\ IsFiniteSet(old[t])
      BY <3>0, FS_Subset
    <3>5. /\ Cardinality({r \in Copy!Rows : Copy!Inserted(t)[r] # None}) \in Nat
          /\ Cardinality(old[t]) \in Nat
      BY <3>4, FS_CardinalityType
    <3> DEFINE b == Cardinality({r \in Copy!Rows : Copy!Inserted(t)[r] # None}) >= Cardinality(old[t])
    <3>6. \A m, n \in Nat : (m >= n) = TRUE \/ (m >= n) = FALSE
      OBVIOUS
    <3>2. b \in {TRUE, FALSE, None}
      BY <3>5, <3>6, Zenon
    <3> HIDE DEF b
    <3>3. [verdict EXCEPT ![t] = b] \in [Copy!Names -> {TRUE, FALSE, None}]
      BY <3>1, <3>2, Zenon
    <3> QED BY <1>1, <3>3, Zenon DEF b
  <2>3. step' \in 0..Copy!Running
    BY <1>1 DEF Copy!Running
  <2> QED BY <2>1, <2>2, <2>3, Zenon DEF Copy!TypeOK
<1>5. pg'[t] = Copy!Inserted(t) /\ \A u \in Copy!Names : u # t => pg'[u] = pg[u] /\ verdict'[u] = verdict[u]
  BY <1>1, <1>2 DEF CopyInv, Copy!TypeOK
<1>6. Copy!In(t)' = IF t \in refused THEN Copy!In(t) ELSE Copy!In(t) \cup old[t]
  <2>1. old[t] \subseteq Copy!Rows
    BY <1>2 DEF CopyInv, Copy!Rows
  <2>2. \A r \in Copy!Rows : pg'[t][r] # None <=> pg[t][r] # None \/ (r \in old[t] /\ t \notin refused)
    BY <1>5 DEF Copy!Inserted
  <2> QED BY <2>1, <2>2 DEF Copy!In
<1>7. verdict'[t] = (Cardinality(Copy!In(t)') >= Cardinality(old[t]))
  <2>1. Copy!In(t)' = {r \in Copy!Rows : Copy!Inserted(t)[r] # None}
    BY <1>5 DEF Copy!In
  <2>2. t \in DOMAIN verdict
    BY <1>2 DEF CopyInv, Copy!TypeOK
  <2> QED BY <1>1, <2>1, <2>2
<1>8. \A u \in Copy!Names : u # t => Copy!In(u)' = Copy!In(u)
  BY <1>5 DEF Copy!In
<1> DEFINE Said(u) == /\ Copy!In(u)' \ Own \subseteq old[u]
                      /\ old[u] \subseteq Copy!In(u)' \/ old[u] \cap Copy!In(u)' = {}
                      /\ verdict'[u] = TRUE /\ ~(old[u] \subseteq Copy!In(u)')
                            => Cardinality(Copy!In(u)' \cap Own) >= Cardinality(old[u])
<1>9. \A u \in Copy!Names : u # t => Said(u)
  BY <1>1, <1>5, <1>8, TableStays, Zenon
<1>10. Said(t)
  <2>1. /\ Copy!In(t) \ Own \subseteq old[t]
        /\ old[t] \subseteq Copy!In(t) \/ old[t] \cap Copy!In(t) = {}
        /\ old[t] \subseteq Legacy /\ Copy!In(t) \subseteq Legacy \cup Own
    BY <1>2, Zenon DEF CopyInv, Copy!WholeOrNothing, Copy!In, Copy!Rows
  <2>2. ~(old[t] \subseteq Copy!In(t)') => Copy!In(t)' \cap Own = Copy!In(t)'
    BY <1>6, <2>1
  <2> QED BY <1>6, <1>7, <2>1, <2>2, Zenon
<1>11. \A u \in Copy!Names : Said(u)
  <2> SUFFICES ASSUME NEW u \in Copy!Names PROVE Said(u)
    BY Zenon
  <2> HIDE DEF Said
  <2> QED BY <1>9, <1>10
<1>12. Copy!WholeOrNothing'
  BY <1>1, <1>11, Zenon DEF Copy!WholeOrNothing
<1> QED BY <1>1, <1>4, <1>11, <1>12, Zenon DEF CopyInv

LEMMA CopyStep == ASSUME CopyInv, [Copy!Next]_copyVars PROVE CopyInv'
<1> USE CopyAssumption, CopyConstants
<1> DEFINE Grows == /\ UNCHANGED old /\ Copy!TypeOK'
                    /\ \A t \in Copy!Names : /\ verdict'[t] = verdict[t] \/ verdict'[t] # TRUE
                                             /\ Copy!In(t) \subseteq Copy!In(t)'
                                             /\ Copy!In(t)' \subseteq Copy!In(t) \cup Own
<1>1. ASSUME Grows PROVE CopyInv'
  <2>1. \A t \in Copy!Names :
          /\ Copy!In(t)' \ Own \subseteq old[t]
          /\ old[t] \subseteq Copy!In(t)' \/ old[t] \cap Copy!In(t)' = {}
          /\ verdict'[t] = TRUE /\ ~(old[t] \subseteq Copy!In(t)')
               => Cardinality(Copy!In(t)' \cap Own) >= Cardinality(old[t])
    BY <1>1, TableStays, Zenon
  <2>2. Copy!WholeOrNothing'
    BY <1>1, <2>1 DEF Copy!WholeOrNothing
  <2> QED BY <1>1, <2>1, <2>2, Zenon DEF CopyInv
<1>2. CASE Copy!Start
  <2>1. UNCHANGED <<old, pg>> /\ step' = 1 /\ verdict' = [t \in Copy!Names |-> None]
    BY <1>2 DEF Copy!Start
  <2>2. Copy!TypeOK'
    BY <2>1 DEF CopyInv, Copy!TypeOK, Copy!Running
  <2>3. \A t \in Copy!Names : Copy!In(t)' = Copy!In(t) /\ verdict'[t] # TRUE
    BY <2>1, Zenon DEF Copy!In
  <2> QED BY <1>1, <2>1, <2>2, <2>3, Zenon
<1>3. CASE Copy!CopyFails \/ Copy!Stop \/ UNCHANGED copyVars
  <2>1. UNCHANGED <<old, pg, verdict>> /\ (step' = step \/ step' = 0 \/ step' = Copy!Running)
    BY <1>3 DEF Copy!CopyFails, Copy!Stop, copyVars
  <2>2. Copy!TypeOK'
    <3>1. step \in 0..Copy!Running /\ 0 \in 0..Copy!Running /\ Copy!Running \in 0..Copy!Running
      BY DEF CopyInv, Copy!TypeOK, Copy!Running
    <3>2. step' \in 0..Copy!Running
      BY <2>1, <3>1
    <3> QED BY <2>1, <3>2, Zenon DEF CopyInv, Copy!TypeOK
  <2>3. \A t \in Copy!Names : Copy!In(t)' = Copy!In(t)
    BY <2>1 DEF Copy!In
  <2> QED BY <1>1, <2>1, <2>2, <2>3
<1>4. ASSUME NEW u \in Copy!Names, NEW r \in Copy!Rows, Copy!Work(u, r) PROVE CopyInv'
  <2>1. pg'[u] = [pg[u] EXCEPT ![r] = "own"] /\ \A t \in Copy!Names : t # u => pg'[t] = pg[t]
    BY <1>4 DEF Copy!Work, CopyInv, Copy!TypeOK
  <2>2. Copy!TypeOK'
    BY <1>4, <2>1, Zenon DEF Copy!Work, CopyInv, Copy!TypeOK
  <2>3. \A t \in Copy!Names : Copy!In(t) \subseteq Copy!In(t)' /\ Copy!In(t)' \subseteq Copy!In(t) \cup Own
    BY <1>4, <2>1 DEF Copy!Work, CopyInv, Copy!TypeOK, Copy!In
  <2> QED BY <1>1, <1>4, <2>2, <2>3 DEF Copy!Work
<1> QED BY <1>2, <1>3, <1>4, CopyTableStep DEF Copy!Next

(* What a task wrote stays a task's, and no row is lost. *)
LEMMA CopyKeeps ==
    ASSUME CopyInv, [Copy!Next]_copyVars
    PROVE  \A t \in Copy!Names, r \in Copy!Rows : pg[t][r] # None => pg'[t][r] \in {pg[t][r], "own"}
<1> USE CopyAssumption, CopyConstants DEF CopyInv, Copy!TypeOK
<1>1. CASE UNCHANGED pg
  BY <1>1
<1>2. CASE Copy!CopyTable
  BY <1>2 DEF Copy!CopyTable, Copy!Inserted
<1>3. CASE \E t \in Copy!Names, r \in Copy!Rows : Copy!Work(t, r)
  BY <1>3 DEF Copy!Work
<1> QED BY <1>1, <1>2, <1>3 DEF Copy!Next, copyVars, Copy!Start, Copy!CopyFails, Copy!Stop

(* The leaderboard watch. *)

(* No coin under review has been recommended: only the review itself recommends. *)
OneTrade == \A r, q \in reviews : r.trade /\ q.trade => r = q
BoardInv ==
  /\ Board!TypeOK /\ Board!OpenHasReview
  /\ OneTrade /\ (review # None => \A r \in reviews : ~r.trade)
  /\ review # None => \A s \in review : s \in Coins /\ ~Board!ShutOut(s)

LEMMA BoardConstants ==
    /\ \A S : Board!Cardinality(S) = Cardinality(S)
    /\ \A S : Board!Min(S) = Min(S)
    /\ Board!Longest \in Nat /\ Board!Longest = OpenHours + 1
<1>1. \A S : Board!Cardinality(S) = Cardinality(S)
  BY DEF Board!Cardinality, Cardinality
<1>2. \A S : Board!Min(S) = Min(S)
  BY DEF Board!Min, Min
<1>3. Board!Longest \in Nat /\ Board!Longest = OpenHours + 1
  BY BoardAssumption DEF Board!Longest
<1> QED BY <1>1, <1>2, <1>3

LEMMA OneTradeMeans == ASSUME BoardInv PROVE Board!OneOpenTrade
<1>1. \A x, y \in {r \in reviews : r.trade} : x = y
  BY DEF OneTrade, BoardInv
<1>2. Cardinality({r \in reviews : r.trade}) <= 1
  BY <1>1, OneAtMost
<1> QED BY <1>2, BoardConstants DEF Board!OneOpenTrade, BoardInv

LEMMA BoardOlder ==
    ASSUME NEW n \in 0..Board!Longest \cup {None}
    PROVE  Board!Older(n) \in 0..Board!Longest \cup {None} /\ (n # None => Board!Older(n) \in 0..Board!Longest)
<1>1. CASE n = None
  BY <1>1 DEF Board!Older
<1>2. CASE n # None
  <2>1. n + 1 \in Int /\ Board!Longest \in Int /\ n \in Nat
    BY <1>2, BoardConstants
  <2>2. Min({n + 1, Board!Longest}) \in 0..Board!Longest
    BY <2>1, MinOfTwo, BoardConstants
  <2> QED BY <1>2, <2>2, BoardConstants DEF Board!Older
<1> QED BY <1>1, <1>2

Item == [status : {"NEW", "ACTIVE", "OPEN", "CLOSED", "EXPIRED"}, seen : 0..(PoolWatch + 1), moves : BOOLEAN]
Recommendation == [trade : BOOLEAN, should : BOOLEAN, sym : Coins \cup {None}, age : 0..Board!Longest]
LEMMA BoardTypes == /\ Board!TypeOK <=> /\ pool \in [Coins -> Item \cup {None}] /\ reviews \subseteq Recommendation
                                        /\ last \in 0..Board!Longest \cup {None}
                                        /\ review \in (SUBSET Coins) \cup {None} /\ due \in 0..Cadence
  BY DEF Board!TypeOK, Item, Recommendation

LEMMA ItemIsSome == None \notin Item
  BY BoardAssumption DEF Item

LEMMA BoardInit == ASSUME Board!Init PROVE BoardInv
<1>1. pool \in [Coins -> Item \cup {None}] /\ reviews \subseteq Recommendation
  BY DEF Board!Init
<1>2. last \in {None} /\ review \in {None} /\ due \in 0..Cadence
  BY BoardAssumption DEF Board!Init
<1>3. Board!TypeOK
  BY <1>1, <1>2, BoardTypes
<1> QED BY <1>3 DEF Board!Init, BoardInv, Board!OpenHasReview, OneTrade

(* Of the coins the first three conditions speak, of the reviews the rest. *)
LEMMA BoardUpdate ==
    ASSUME BoardInv, NEW top \in SUBSET Coins, NEW moving \in SUBSET top, Board!Update(top, moving)
    PROVE  BoardInv' /\ \A s \in Coins : Board!ShutOut(s) <=> Board!ShutOut(s)'
<1> USE BoardAssumption
<1>0. UNCHANGED <<reviews, last, review, due>>
  BY DEF Board!Update
<1>1. \A s \in Coins : pool[s] # None => pool[s] \in Item
  BY BoardTypes DEF BoardInv
<1>2. ASSUME NEW s \in Coins
      PROVE  /\ pool'[s] \in Item \cup {None}
             /\ Board!ShutOut(s) <=> pool'[s] # None /\ pool'[s].status \in {"OPEN", "CLOSED"}
             /\ pool'[s] # None /\ pool'[s].status = "OPEN" => pool[s] # None /\ pool[s].status = "OPEN"
  <2>1. pool'[s] = IF s \in top THEN Board!Upserted(s, s \in moving)
                   ELSE IF pool[s] = None THEN None ELSE Board!Lapsed(pool[s])
    BY DEF Board!Update
  <2>2. CASE s \in top /\ pool[s] = None
    <3>1. pool'[s] = [status |-> "NEW", seen |-> 0, moves |-> s \in moving]
      BY <2>1, <2>2 DEF Board!Upserted
    <3>2. (s \in moving) \in BOOLEAN
      OBVIOUS
    <3>3. pool'[s] \in Item /\ pool'[s].status = "NEW"
      BY <3>1, <3>2 DEF Item
    <3> QED BY <2>2, <3>3 DEF Board!ShutOut
  <2>3. CASE s \in top /\ pool[s] # None
    <3> DEFINE st == IF pool[s].status \in {"OPEN", "CLOSED"} THEN pool[s].status ELSE "ACTIVE"
    <3>1. pool'[s] = [status |-> st, seen |-> 0, moves |-> s \in moving]
      BY <2>1, <2>3 DEF Board!Upserted
    <3>2. (s \in moving) \in BOOLEAN /\ st \in {"ACTIVE", "OPEN", "CLOSED"}
      OBVIOUS
    <3>3. pool'[s] \in Item /\ pool'[s].status = st
      BY <3>1, <3>2 DEF Item
    <3>4. Board!ShutOut(s) <=> st \in {"OPEN", "CLOSED"}
      BY <2>3 DEF Board!ShutOut
    <3>5. st = "OPEN" <=> pool[s].status = "OPEN"
      OBVIOUS
    <3> HIDE DEF st
    <3> QED BY <2>3, <3>3, <3>4, <3>5, ItemIsSome
  <2>4. CASE s \notin top /\ pool[s] = None
    BY <2>1, <2>4 DEF Board!ShutOut
  <2>5. CASE s \notin top /\ pool[s] # None
    <3>1. pool[s] \in Item
      BY <1>1, <2>5
    <3>2. pool'[s] = Board!Lapsed(pool[s])
      BY <2>1, <2>5
    <3>3. pool'[s] \in Item /\ (pool'[s].status \in {"OPEN", "CLOSED"} <=> pool[s].status \in {"OPEN", "CLOSED"})
          /\ (pool'[s].status = "OPEN" => pool[s].status = "OPEN")
      BY <3>1, <3>2 DEF Board!Lapsed, Item
    <3> QED BY <2>5, <3>3, ItemIsSome DEF Board!ShutOut
  <2> QED BY <2>2, <2>3, <2>4, <2>5
<1>3. Board!TypeOK'
  <2>1. pool' = [s \in Coins |-> pool'[s]]
    BY DEF Board!Update
  <2>2. pool' \in [Coins -> Item \cup {None}]
    BY <1>2, <2>1
  <2> QED BY <1>0, <2>2, BoardTypes DEF BoardInv, Board!TypeOK, Item
<1>4. \A s \in Coins : Board!ShutOut(s) <=> Board!ShutOut(s)'
  BY <1>2 DEF Board!ShutOut
<1>5. Board!OpenHasReview'
  BY <1>0, <1>2 DEF Board!OpenHasReview, BoardInv
<1> QED BY <1>0, <1>3, <1>4, <1>5 DEF BoardInv, OneTrade

LEMMA BoardAsk ==
    ASSUME BoardInv, Board!RunGemini \/ Board!CommandGemini
    PROVE  BoardInv' /\ UNCHANGED pool /\ (review' = None \/ \A s \in review' : ~Board!ShutOut(s))
<1>1. UNCHANGED <<pool, reviews>> /\ (review' = review \/ Board!Ask)
      /\ review = None /\ (due' = due \/ due' = Cadence) /\ last' = last
  BY DEF Board!RunGemini, Board!CommandGemini, Board!Ask
<1>2. ASSUME Board!Ask
      PROVE  review' \in SUBSET Coins /\ (\A s \in review' : ~Board!ShutOut(s)) /\ \A r \in reviews : ~r.trade
  <2>1. review' \in SUBSET Board!ItemsForGemini
    BY <1>2, Zenon DEF Board!Ask, Board!kSubset
  <2>2. \A s \in Board!ItemsForGemini : s \in Coins /\ ~Board!ShutOut(s)
    BY DEF Board!ItemsForGemini, Board!ShutOut
  <2>3. \A r \in reviews : ~r.trade
    BY <1>2 DEF Board!Ask, Board!MayReview, Board!HasOpenReview
  <2> QED BY <2>1, <2>2, <2>3
<1>3. Board!TypeOK'
  <2>1. due' \in 0..Cadence
    BY <1>1, BoardAssumption, BoardTypes DEF BoardInv
  <2> QED BY <1>1, <1>2, <2>1 DEF BoardInv, Board!TypeOK
<1>4. \A s \in Coins : Board!ShutOut(s) <=> Board!ShutOut(s)'
  BY <1>1 DEF Board!ShutOut
<1>5. Board!OpenHasReview' /\ OneTrade'
  BY <1>1 DEF BoardInv, Board!OpenHasReview, OneTrade
<1>6. CASE review' = review
  BY <1>1, <1>3, <1>5, <1>6 DEF BoardInv
<1>7. CASE Board!Ask
  BY <1>1, <1>2, <1>3, <1>4, <1>5, <1>7 DEF BoardInv
<1> QED BY <1>1, <1>6, <1>7

LEMMA BoardSave ==
    ASSUME BoardInv, Board!SaveReview
    PROVE  BoardInv' /\ review' = None /\ \A s \in Coins : Board!ShutOut(s) => Board!ShutOut(s)'
<1> USE BoardAssumption
<1>1. PICK a \in Board!Answers :
         /\ reviews' = IF a.trade \/ (a.should /\ a.sym # None)
                       THEN reviews \cup {[trade |-> a.trade, should |-> a.should, sym |-> a.sym, age |-> 0]} ELSE reviews
         /\ pool' = [s \in Coins |-> IF a.should /\ s = a.sym /\ pool[s] # None
                                        THEN [pool[s] EXCEPT !.status = "OPEN"] ELSE pool[s]]
  BY Zenon DEF Board!SaveReview
<1>2. review # None /\ review' = None /\ last' = 0 /\ due' = due
  BY DEF Board!SaveReview
<1>3. a.trade \in BOOLEAN /\ a.should \in BOOLEAN /\ a.sym \in Coins \cup {None}
  BY DEF Board!Answers
<1>4. [trade |-> a.trade, should |-> a.should, sym |-> a.sym, age |-> 0] \in Recommendation
  BY <1>3, BoardConstants DEF Recommendation
<1>5. \A s \in Coins : pool[s] # None => pool[s] \in Item /\ [pool[s] EXCEPT !.status = "OPEN"] \in Item
                                         /\ [pool[s] EXCEPT !.status = "OPEN"].status = "OPEN"
  BY BoardTypes DEF BoardInv, Item
<1>6. pool' \in [Coins -> Item \cup {None}]
  BY <1>1, <1>5, BoardTypes DEF BoardInv
<1>7. Board!TypeOK'
  <2>1. reviews' \subseteq Recommendation
    BY <1>1, <1>4, BoardTypes DEF BoardInv
  <2>2. last' \in 0..Board!Longest
    BY <1>2, BoardConstants
  <2>3. review' \in (SUBSET Coins) \cup {None} /\ due' \in 0..Cadence
    BY <1>2, BoardTypes DEF BoardInv
  <2> QED BY <1>6, <2>1, <2>2, <2>3 DEF Board!TypeOK, Item, Recommendation
<1>8. OneTrade'
  BY <1>1, <1>2 DEF BoardInv, OneTrade
<1>9. ASSUME NEW s \in Coins, pool'[s] # None, pool'[s].status = "OPEN"
      PROVE  \E r \in reviews' : r.should /\ r.sym = s
  <2>1. CASE a.should /\ s = a.sym
    <3> DEFINE r == [trade |-> a.trade, should |-> a.should, sym |-> a.sym, age |-> 0]
    <3>1. r.should /\ r.sym = s /\ a.sym # None
      BY <2>1
    <3>2. r \in reviews'
      BY <1>1, <2>1, <3>1
    <3> HIDE DEF r
    <3> QED BY <3>1, <3>2
  <2>2. CASE ~(a.should /\ s = a.sym)
    <3>1. pool'[s] = pool[s]
      BY <1>1, <2>2
    <3>2. PICK r \in reviews : r.should /\ r.sym = s
      BY <1>9, <3>1 DEF BoardInv, Board!OpenHasReview
    <3> QED BY <1>1, <3>2
  <2> QED BY <2>1, <2>2
<1>10. \A s \in Coins : Board!ShutOut(s) => Board!ShutOut(s)'
  BY <1>1, <1>5, ItemIsSome DEF Board!ShutOut
<1>11. Board!OpenHasReview'
  BY <1>9 DEF Board!OpenHasReview
<1> QED BY <1>2, <1>7, <1>8, <1>10, <1>11 DEF BoardInv

LEMMA BoardSettle ==
    ASSUME BoardInv, Board!Settle
    PROVE  BoardInv' /\ \A s \in Coins : Board!ShutOut(s) => Board!ShutOut(s)' /\ review' = None
<1>1. /\ Board!TimedOut # {} /\ reviews' = reviews \ Board!TimedOut /\ UNCHANGED <<last, review, due>>
      /\ pool' = [s \in Coins |-> IF pool[s] # None /\ Board!Closes(s) THEN Board!Closed(pool[s]) ELSE pool[s]]
  BY DEF Board!Settle
<1>2. review = None
  BY <1>1 DEF BoardInv, Board!TimedOut
<1>3. \A s \in Coins : pool[s] # None => pool[s] \in Item /\ Board!Closed(pool[s]) \in Item
                                         /\ Board!Closed(pool[s]).status = "CLOSED"
  BY BoardTypes DEF BoardInv, Item, Board!Closed
<1>4. pool' \in [Coins -> Item \cup {None}]
  BY <1>1, <1>3, BoardTypes DEF BoardInv
<1>5. Board!TypeOK'
  BY <1>1, <1>4 DEF BoardInv, Board!TypeOK, Item
<1>6. ASSUME NEW s \in Coins, pool'[s] # None, pool'[s].status = "OPEN"
      PROVE  \E r \in reviews' : r.should /\ r.sym = s
  <2>1. ~Board!Closes(s) /\ pool'[s] = pool[s]
    BY <1>1, <1>3, <1>6
  <2>2. PICK r \in reviews : r.should /\ r.sym = s
    BY <1>6, <2>1 DEF BoardInv, Board!OpenHasReview
  <2> QED BY <1>1, <2>1, <2>2 DEF Board!Closes
<1>7. \A s \in Coins : Board!ShutOut(s) => Board!ShutOut(s)'
  BY <1>1, <1>3, ItemIsSome DEF Board!ShutOut
<1>8. Board!OpenHasReview' /\ OneTrade'
  BY <1>1, <1>6 DEF Board!OpenHasReview, OneTrade, BoardInv
<1> QED BY <1>1, <1>2, <1>5, <1>7, <1>8 DEF BoardInv

LEMMA BoardTick ==
    ASSUME BoardInv, Board!Tick
    PROVE  BoardInv' /\ UNCHANGED review /\ \A s \in Coins : Board!ShutOut(s) <=> Board!ShutOut(s)'
<1> USE BoardAssumption
<1> DEFINE aged(r) == [r EXCEPT !.age = Board!Older(r.age)]
           seen(i) == [i EXCEPT !.seen = Board!Min({i.seen + 1, PoolWatch + 1})]
<1>1. /\ due > 0 /\ due' = due - 1 /\ last' = Board!Older(last) /\ UNCHANGED review
      /\ pool' = [s \in Coins |-> IF pool[s] = None THEN None ELSE seen(pool[s])]
      /\ reviews' = {aged(r) : r \in reviews}
  BY DEF Board!Tick
<1>2. ASSUME NEW i \in Item PROVE seen(i) \in Item /\ seen(i).status = i.status
  <2>1. i.seen \in 0..(PoolWatch + 1) /\ i.seen + 1 \in Int /\ PoolWatch + 1 \in Int
    BY DEF Item
  <2>2. Board!Min({i.seen + 1, PoolWatch + 1}) \in 0..(PoolWatch + 1)
    BY <2>1, BoardConstants, MinOfTwo
  <2> QED BY <2>2 DEF Item
<1>3. ASSUME NEW r \in Recommendation
      PROVE  aged(r) \in Recommendation /\ aged(r).trade = r.trade /\ aged(r).should = r.should /\ aged(r).sym = r.sym
  <2>1. r.age \in 0..Board!Longest
    BY DEF Recommendation
  <2>2. Board!Older(r.age) \in 0..Board!Longest
    <3>1. CASE r.age = None
      BY <2>1, <3>1 DEF Board!Older
    <3>2. CASE r.age # None
      BY <2>1, <3>2, BoardOlder
    <3> QED BY <3>1, <3>2
  <2> QED BY <2>2 DEF Recommendation
<1>4. reviews \subseteq Recommendation /\ pool \in [Coins -> Item \cup {None}]
  BY BoardTypes DEF BoardInv
<1> HIDE DEF aged, seen
<1>5. Board!TypeOK'
  <2>1. pool' \in [Coins -> Item \cup {None}]
    BY <1>1, <1>2, <1>4
  <2>2. reviews' \subseteq Recommendation
    BY <1>1, <1>3, <1>4
  <2>3. last' \in 0..Board!Longest \cup {None}
    BY <1>1, BoardOlder, BoardTypes, Zenon DEF BoardInv
  <2>4. due' \in 0..Cadence
    BY <1>1, BoardTypes DEF BoardInv
  <2> QED BY <1>1, <2>1, <2>2, <2>3, <2>4, BoardTypes DEF BoardInv, Board!TypeOK, Item, Recommendation
<1>6. OneTrade' /\ (review # None => \A r \in reviews' : ~r.trade)
  BY <1>1, <1>3, <1>4 DEF BoardInv, OneTrade
<1>7. \A s \in Coins : Board!ShutOut(s) <=> Board!ShutOut(s)'
  <2> SUFFICES ASSUME NEW s \in Coins PROVE Board!ShutOut(s) <=> Board!ShutOut(s)'
    OBVIOUS
  <2>1. CASE pool[s] = None
    BY <1>1, <2>1 DEF Board!ShutOut
  <2>2. CASE pool[s] # None
    <3>1. pool'[s] \in Item /\ pool'[s].status = pool[s].status
      BY <1>1, <1>2, <1>4, <2>2
    <3> QED BY <2>2, <3>1, ItemIsSome DEF Board!ShutOut
  <2> QED BY <2>1, <2>2
<1>8. Board!OpenHasReview'
  <2> SUFFICES ASSUME NEW s \in Coins, pool'[s] # None, pool'[s].status = "OPEN"
               PROVE  \E r \in reviews' : r.should /\ r.sym = s
    BY DEF Board!OpenHasReview
  <2>1. pool[s] # None /\ pool[s].status = "OPEN"
    BY <1>1, <1>2, <1>4
  <2>2. PICK r \in reviews : r.should /\ r.sym = s
    BY <2>1 DEF BoardInv, Board!OpenHasReview
  <2>3. aged(r) \in reviews' /\ aged(r).should /\ aged(r).sym = s
    BY <1>1, <1>3, <1>4, <2>2
  <2> QED BY <2>3
<1> QED BY <1>1, <1>5, <1>6, <1>7, <1>8 DEF BoardInv

LEMMA BoardStep ==
    ASSUME BoardInv, [Board!Next]_boardVars
    PROVE  /\ BoardInv'
           /\ \A s \in Coins : Board!ShutOut(s) => Board!ShutOut(s)' /\ (review' = None \/ s \notin review')
<1>0. review # None => \A s \in Coins : Board!ShutOut(s) => s \notin review
  BY DEF BoardInv
<1>1. CASE UNCHANGED boardVars
  <2>1. BoardInv'
    BY <1>1 DEF boardVars, BoardInv, Board!TypeOK, Board!OpenHasReview, OneTrade, Board!ShutOut
  <2>2. \A s \in Coins : Board!ShutOut(s) => Board!ShutOut(s)'
    BY <1>1 DEF boardVars, Board!ShutOut
  <2> QED BY <1>0, <1>1, <2>1, <2>2 DEF boardVars
<1>2. CASE \E top \in SUBSET Coins : \E moving \in SUBSET top : Board!Update(top, moving)
  <2>1. UNCHANGED review
    BY <1>2 DEF Board!Update
  <2> QED BY <1>0, <1>2, <2>1, BoardUpdate
<1>3. CASE Board!RunGemini \/ Board!CommandGemini
  <2>1. BoardInv' /\ UNCHANGED pool /\ (review' = None \/ \A s \in review' : ~Board!ShutOut(s))
    BY <1>3, BoardAsk
  <2> QED BY <2>1 DEF Board!ShutOut
<1>4. CASE Board!SaveReview
  BY <1>4, BoardSave
<1>5. CASE Board!Settle
  BY <1>5, BoardSettle
<1>6. CASE Board!Tick
  BY <1>0, <1>6, BoardTick
<1> QED BY <1>1, <1>2, <1>3, <1>4, <1>5, <1>6 DEF Board!Next

(* The version 2 pipeline. *)

V2Alert == [symbol : Coins, at : Nat]
V2Order == [symbol : Coins, created : Nat, status : V2!Statuses, filled : Nat]
V2Event == [order : Nat, old : V2!Open \cup {"none"}, new : V2!Statuses]
V2Put == [order : Nat, status : V2!Statuses, bar : Nat]
V2Write == [is : {"event"}, data : V2Event] \cup [is : {"filled", "settled"}, data : V2Put]
V2Worker == [is : {"idle", "scan", "orders", "settle"}, plans : SUBSET Coins, new : Seq(Coins),
             todo : SUBSET Nat, writes : Seq(V2Write)]
V2Typed ==
  /\ tape \in Seq(V2Candles) /\ Len(tape) <= V2End
  /\ alerts \in Seq(V2Alert) /\ Len(alerts) <= MaxSignals
  /\ \A k \in 1..Len(alerts) : alerts[k].at <= Len(tape)
  /\ tickets \in Seq(V2Order) /\ Len(tickets) + Len(worker.new) <= Len(alerts)
  /\ \A i \in 1..Len(tickets) : tickets[i].created <= Len(tape) /\ tickets[i].filled <= Len(tape)
  /\ trail \in Seq(V2Event) /\ \A k \in 1..Len(trail) : trail[k].order \in 1..Len(tickets)
  /\ worker \in V2Worker /\ workerFaults \in 0..MaxFaults

(* What is still to be written belongs to one order and fits what the order is by now. *)
Fillable(i, b) == b \in (tickets[i].created + 1)..Len(tape) /\ "entry" \in tape[b]
ToFill(i, w) ==
  \E b \in Nat : /\ Fillable(i, b)
                 /\ \/ w = <<V2!Write("filled", i, "FILLED", b), V2!Wrote(i, "OPEN", "FILLED")>>
                    \/ \E r \in V2!Results :
                         w = <<V2!Write("filled", i, "FILLED", b), V2!Wrote(i, "OPEN", "FILLED"),
                               V2!Write("settled", i, r, 0), V2!Wrote(i, "FILLED", r)>>
ToClose(i, w) ==
  \/ w = <<V2!Wrote(i, "OPEN", "FILLED")>>
  \/ \E r \in V2!Results :
       \/ w = <<V2!Wrote(i, "OPEN", "FILLED"), V2!Write("settled", i, r, 0), V2!Wrote(i, "FILLED", r)>>
       \/ w = <<V2!Write("settled", i, r, 0), V2!Wrote(i, "FILLED", r)>>
ToExpire(i, w) ==
  w = <<V2!Write("settled", i, "EXPIRED_NOT_FILLED", 0), V2!Wrote(i, "OPEN", "EXPIRED_NOT_FILLED")>>
Fits(i, w) ==
  \/ tickets[i].status = "OPEN" /\ (w = <<V2!Wrote(i, "none", "OPEN")>> \/ ToFill(i, w) \/ ToExpire(i, w))
  \/ tickets[i].status = "FILLED" /\ ToClose(i, w)
  \/ tickets[i].status \in V2!Results \cup {"EXPIRED_NOT_FILLED"}
     /\ \E was \in V2!Open : w = <<V2!Wrote(i, was, tickets[i].status)>>
V2Busy ==
  /\ worker.is = "idle" => worker = V2!Idle
  /\ worker.is = "scan" => worker.writes = <<>>
  /\ worker.is # "settle" => worker.todo = {}
  /\ worker.is = "settle" => worker.new = <<>> /\ worker.plans = {} /\ (worker.todo # {} \/ worker.writes # <<>>)
  /\ \A i \in worker.todo : i \in V2!OpenOrders
  /\ worker.writes # <<>> => \E i \in 1..Len(tickets) : i \notin worker.todo /\ Fits(i, worker.writes)

(* An order is filled by a candle after its creation, or not at all. *)
V2Filled ==
  \A i \in 1..Len(tickets) :
    /\ tickets[i].status = "OPEN" => tickets[i].filled = 0
    /\ tickets[i].status \in V2!Results \cup {"FILLED"} => Fillable(i, tickets[i].filled)

(* The orders whose transitions, made and to be made, are more than their events. *)
PutsIn(w, i) == {k \in 1..Len(w) : w[k].data.order = i /\ w[k].is # "event"}
EventsIn(w, i) == {k \in 1..Len(w) : w[k].data.order = i /\ w[k].is = "event"}
EventsOf(i) == {k \in 1..Len(trail) : trail[k].order = i}
Short(i) == V2!Transitions(i) + Cardinality(PutsIn(worker.writes, i))
              > Cardinality(EventsOf(i)) + Cardinality(EventsIn(worker.writes, i))
Behind == {i \in 1..Len(tickets) : Short(i)}
V2Inv == /\ V2Typed /\ V2Busy /\ V2Filled /\ V2!OrdersCapped /\ V2!SignalsApart
         /\ Cardinality(Behind) <= workerFaults

LEMMA V2Constants ==
    /\ \A S : V2!Cardinality(S) = Cardinality(S)
    /\ \A S : V2!MinOf(S) = Min(S)
    /\ \A w, i : Len(w) \in Nat => IsFiniteSet(PutsIn(w, i)) /\ IsFiniteSet(EventsIn(w, i))
<1>1. \A S : V2!Cardinality(S) = Cardinality(S)
  BY DEF V2!Cardinality, Cardinality
<1>2. \A S : V2!MinOf(S) = Min(S)
  BY DEF V2!MinOf, Min
<1>3. ASSUME NEW w, NEW i, Len(w) \in Nat
      PROVE  IsFiniteSet(PutsIn(w, i)) /\ IsFiniteSet(EventsIn(w, i))
  <2>1. IsFiniteSet(1..Len(w))
    BY <1>3, FS_Interval
  <2>2. PutsIn(w, i) \in SUBSET (1..Len(w)) /\ EventsIn(w, i) \in SUBSET (1..Len(w))
    BY DEF PutsIn, EventsIn
  <2> QED BY <2>1, <2>2, FS_Subset
<1> QED BY <1>1, <1>2, <1>3

(* What the properties say follows. *)
LEMMA V2Means == ASSUME V2Inv PROVE V2!TypeOK /\ V2!TrailKept /\ V2!ClosedWasFilled
<1> USE V2Assumption
<1>1. V2!TypeOK
  <2>1. \A k \in 1..Len(alerts) : alerts[k] \in V2Alert
    BY DEF V2Inv, V2Typed
  <2>2. \A i \in 1..Len(tickets) : tickets[i] \in V2Order
    BY DEF V2Inv, V2Typed
  <2>3. \A k \in 1..Len(trail) : trail[k] \in V2Event
    BY DEF V2Inv, V2Typed
  <2>4. Len(alerts) \in Nat /\ Len(tickets) \in Nat /\ Len(worker.new) \in Nat /\ Len(tape) \in Nat
    BY DEF V2Inv, V2Typed, V2Worker
  <2>5. \A k \in 1..Len(tape) : tape[k] \in V2Candles
    BY DEF V2Inv, V2Typed
  <2>6. worker.is \in {"idle", "scan", "orders", "settle"} /\ worker.plans \subseteq Coins
    BY DEF V2Inv, V2Typed, V2Worker
  <2>7. \A k \in 1..Len(alerts) : alerts[k].symbol \in Coins /\ alerts[k].at \in 0..Len(tape)
    BY <2>1, <2>4 DEF V2Inv, V2Typed, V2Alert
  <2>8. \A i \in 1..Len(tickets) : /\ tickets[i].symbol \in Coins /\ tickets[i].created \in 0..Len(tape)
                                   /\ tickets[i].status \in V2!Statuses /\ tickets[i].filled \in 0..Len(tape)
    BY <2>2, <2>4 DEF V2Inv, V2Typed, V2Order
  <2>9. \A k \in 1..Len(trail) : /\ trail[k].order \in 1..Len(tickets)
                                 /\ trail[k].old \in V2!Open \cup {"none"} /\ trail[k].new \in V2!Statuses
    BY <2>3, Zenon DEF V2Inv, V2Typed, V2Event
  <2>10. Len(tape) <= V2End /\ Len(alerts) <= MaxSignals /\ Len(tickets) <= Len(alerts) /\ workerFaults \in 0..MaxFaults
    BY <2>4 DEF V2Inv, V2Typed
  <2> QED BY <2>5, <2>6, <2>7, <2>8, <2>9, <2>10 DEF V2!TypeOK, V2!Now
<1>2. V2!ClosedWasFilled
  BY DEF V2Inv, V2Filled, V2!ClosedWasFilled, V2!Now, Fillable
<1>3. V2!TrailKept
  <2> DEFINE missing(i) == V2!Transitions(i) - V2!Cardinality({k \in 1..Len(trail) : trail[k].order = i})
             lost == {i \in 1..Len(tickets) : missing(i) > V2!Cardinality(V2!Pending(i))}
  <2>1. IsFiniteSet(Behind)
    <3>1. Behind \in SUBSET (1..Len(tickets)) /\ Len(tickets) \in Nat
      BY DEF Behind, V2Inv, V2Typed
    <3>2. IsFiniteSet(1..Len(tickets))
      BY <3>1, FS_Interval
    <3> QED BY <3>1, <3>2, FS_Subset, Zenon
  <2>2. lost \subseteq Behind
    <3> SUFFICES ASSUME NEW i \in 1..Len(tickets), missing(i) > V2!Cardinality(V2!Pending(i))
                 PROVE  Short(i)
      BY DEF Behind
    <3>1. Len(worker.writes) \in Nat /\ Len(trail) \in Nat
      BY DEF V2Inv, V2Typed, V2Worker
    <3>2. V2!Pending(i) = EventsIn(worker.writes, i)
      BY DEF V2!Pending, EventsIn
    <3>3. Cardinality(PutsIn(worker.writes, i)) \in Nat /\ Cardinality(EventsIn(worker.writes, i)) \in Nat
      BY <3>1, V2Constants, FS_CardinalityType
    <3>4. EventsOf(i) \in SUBSET (1..Len(trail))
      BY DEF EventsOf
    <3>5. Cardinality(EventsOf(i)) \in Nat
      BY <3>1, <3>4, CountMore, Zenon
    <3>6. V2!Transitions(i) \in Nat
      BY DEF V2!Transitions
    <3>7. V2!Transitions(i) - Cardinality(EventsOf(i)) > Cardinality(EventsIn(worker.writes, i))
      BY <3>2, V2Constants DEF EventsOf
    <3> QED BY <3>3, <3>5, <3>6, <3>7 DEF Short
  <2>3. Cardinality(lost) <= Cardinality(Behind) /\ Cardinality(lost) \in Nat /\ Cardinality(Behind) \in Nat
    <3> HIDE DEF lost
    <3> QED BY <2>1, <2>2, CountLess
  <2>4. Cardinality(lost) <= workerFaults
    <3> HIDE DEF lost
    <3> QED BY <2>3 DEF V2Inv, V2Typed
  <2> QED BY <2>4, V2Constants DEF V2!TrailKept
<1> QED BY <1>1, <1>2, <1>3

LEMMA V2Init == ASSUME V2!Init PROVE V2Inv
<1> USE V2Assumption DEF V2!Init
<1>1. V2!Idle \in V2Worker
  BY DEF V2!Idle, V2Worker
<1>2. V2Typed
  BY <1>1 DEF V2Typed, V2!Idle
<1>3. V2Busy /\ V2Filled /\ V2!SignalsApart
  BY DEF V2Busy, V2Filled, V2!SignalsApart, V2!Idle
<1>4. V2!OrdersCapped
  <2>1. V2!OpenOrders = {}
    BY DEF V2!OpenOrders
  <2> QED BY <2>1, FS_EmptySet, V2Constants DEF V2!OrdersCapped
<1>5. Cardinality(Behind) <= workerFaults
  <2>1. Behind = {}
    BY DEF Behind
  <2> QED BY <2>1, FS_EmptySet
<1> QED BY <1>2, <1>3, <1>4, <1>5 DEF V2Inv

LEMMA V2WorkerIs ==
    ASSUME NEW i \in {"idle", "scan", "orders", "settle"}, NEW p \in SUBSET Coins, NEW n \in Seq(Coins),
           NEW d \in SUBSET Nat, NEW w \in Seq(V2Write)
    PROVE  [is |-> i, plans |-> p, new |-> n, todo |-> d, writes |-> w] \in V2Worker
  BY DEF V2Worker

LEMMA V2WorkerEmpty == <<>> \in Seq(Coins) /\ <<>> \in Seq(V2Write) /\ {} \in SUBSET Nat /\ {} \in SUBSET Coins
  OBVIOUS

LEMMA V2WorkerFields ==
    ASSUME NEW t \in V2Worker
    PROVE  /\ t = [is |-> t.is, plans |-> t.plans, new |-> t.new, todo |-> t.todo, writes |-> t.writes]
           /\ t.is \in {"idle", "scan", "orders", "settle"} /\ t.plans \in SUBSET Coins
           /\ t.new \in Seq(Coins) /\ t.todo \in SUBSET Nat /\ t.writes \in Seq(V2Write)
  BY DEF V2Worker

LEMMA V2WorkerSets ==
    ASSUME NEW t \in V2Worker, NEW x
    PROVE  /\ [t EXCEPT !.plans = x] = [is |-> t.is, plans |-> x, new |-> t.new, todo |-> t.todo, writes |-> t.writes]
           /\ [t EXCEPT !.new = x] = [is |-> t.is, plans |-> t.plans, new |-> x, todo |-> t.todo, writes |-> t.writes]
           /\ [t EXCEPT !.todo = x] = [is |-> t.is, plans |-> t.plans, new |-> t.new, todo |-> x, writes |-> t.writes]
           /\ [t EXCEPT !.writes = x] = [is |-> t.is, plans |-> t.plans, new |-> t.new, todo |-> t.todo, writes |-> x]
  BY DEF V2Worker
LEMMA V2SetsNewPlans ==
    ASSUME NEW t \in V2Worker, NEW x, NEW y
    PROVE  [t EXCEPT !.new = x, !.plans = y] = [is |-> t.is, plans |-> y, new |-> x, todo |-> t.todo, writes |-> t.writes]
<1>1. PICK i, p, n, d, w : i = t.is /\ p = t.plans /\ n = t.new /\ d = t.todo /\ w = t.writes
  OBVIOUS
<1>2. t = [is |-> i, plans |-> p, new |-> n, todo |-> d, writes |-> w]
  BY <1>1 DEF V2Worker
<1>3. PICK u : u = [t EXCEPT !.new = x]
  BY Zenon
<1>4. u = [is |-> i, plans |-> p, new |-> x, todo |-> d, writes |-> w]
  BY <1>2, <1>3
<1>5. [u EXCEPT !.plans = y] = [is |-> i, plans |-> y, new |-> x, todo |-> d, writes |-> w]
  BY <1>4
<1>6. [t EXCEPT !.new = x, !.plans = y] = [u EXCEPT !.plans = y]
  BY <1>3, Zenon
<1> QED BY <1>1, <1>5, <1>6

LEMMA V2SetsNewWrites ==
    ASSUME NEW t \in V2Worker, NEW x, NEW y
    PROVE  [t EXCEPT !.new = x, !.writes = y] = [is |-> t.is, plans |-> t.plans, new |-> x, todo |-> t.todo, writes |-> y]
<1>1. PICK i, p, n, d, w : i = t.is /\ p = t.plans /\ n = t.new /\ d = t.todo /\ w = t.writes
  OBVIOUS
<1>2. t = [is |-> i, plans |-> p, new |-> n, todo |-> d, writes |-> w]
  BY <1>1 DEF V2Worker
<1>3. PICK u : u = [t EXCEPT !.new = x]
  BY Zenon
<1>4. u = [is |-> i, plans |-> p, new |-> x, todo |-> d, writes |-> w]
  BY <1>2, <1>3
<1>5. [u EXCEPT !.writes = y] = [is |-> i, plans |-> p, new |-> x, todo |-> d, writes |-> y]
  BY <1>4
<1>6. [t EXCEPT !.new = x, !.writes = y] = [u EXCEPT !.writes = y]
  BY <1>3, Zenon
<1> QED BY <1>1, <1>5, <1>6

LEMMA V2SetsTodoWrites ==
    ASSUME NEW t \in V2Worker, NEW x, NEW y
    PROVE  [t EXCEPT !.todo = x, !.writes = y] = [is |-> t.is, plans |-> t.plans, new |-> t.new, todo |-> x, writes |-> y]
<1>1. PICK i, p, n, d, w : i = t.is /\ p = t.plans /\ n = t.new /\ d = t.todo /\ w = t.writes
  OBVIOUS
<1>2. t = [is |-> i, plans |-> p, new |-> n, todo |-> d, writes |-> w]
  BY <1>1 DEF V2Worker
<1>3. PICK u : u = [t EXCEPT !.todo = x]
  BY Zenon
<1>4. u = [is |-> i, plans |-> p, new |-> n, todo |-> x, writes |-> w]
  BY <1>2, <1>3
<1>5. [u EXCEPT !.writes = y] = [is |-> i, plans |-> p, new |-> n, todo |-> x, writes |-> y]
  BY <1>4
<1>6. [t EXCEPT !.todo = x, !.writes = y] = [u EXCEPT !.writes = y]
  BY <1>3, Zenon
<1> QED BY <1>1, <1>5, <1>6

(* What a task goes on to. *)
LEMMA V2Onward ==
    ASSUME NEW t \in V2Worker
    PROVE  \/ (t.plans # {} \/ t.todo # {} \/ t.writes # <<>>) /\ V2!Onward(t) = t
           \/ /\ t.plans = {} /\ t.todo = {} /\ t.writes = <<>> /\ t.new # <<>>
              /\ V2!Onward(t) = [is |-> "orders", plans |-> {}, new |-> t.new, todo |-> {}, writes |-> <<>>]
           \/ t.plans = {} /\ t.todo = {} /\ t.writes = <<>> /\ t.new = <<>> /\ V2!Onward(t) = V2!Idle
  BY Zenon DEF V2!Onward, V2Worker

(* With orders, events and writes as they were, what is said of them stays. *)
LEMMA V2Same ==
    ASSUME V2Inv, UNCHANGED <<tickets, trail, workerFaults>>, worker'.writes = worker.writes
    PROVE  V2!OrdersCapped' /\ Cardinality(Behind') <= workerFaults'
<1>1. V2!OrdersCapped'
  BY DEF V2Inv, V2!OrdersCapped, V2!OpenOrders
<1>2. Behind' = Behind
  BY DEF Behind, Short, V2!Transitions, PutsIn, EventsIn, EventsOf
<1> QED BY <1>1, <1>2 DEF V2Inv

LEMMA V2Tick == ASSUME V2Inv, NEW candle \in V2Candles, V2!Tick(candle) PROVE V2Inv'
<1> USE V2Assumption
<1>1. /\ Len(tape) < V2End /\ tape' = Append(tape, candle)
      /\ UNCHANGED <<alerts, tickets, trail, worker, workerFaults>>
  BY DEF V2!Tick, V2!Now
<1>2. tape' \in Seq(V2Candles) /\ Len(tape') = Len(tape) + 1 /\ Len(tape) \in Nat
      /\ \A k \in 1..Len(tape) : tape'[k] = tape[k]
  BY <1>1 DEF V2Inv, V2Typed
<1>3. /\ \A i \in 1..Len(tickets) : tickets[i] \in V2Order
      /\ \A k \in 1..Len(alerts) : alerts[k] \in V2Alert
  BY DEF V2Inv, V2Typed
<1>4. V2Typed'
  <2>1. \A k \in 1..Len(alerts) : alerts[k].at <= Len(tape')
    BY <1>2, <1>3 DEF V2Inv, V2Typed, V2Alert
  <2>2. \A i \in 1..Len(tickets) : tickets[i].created <= Len(tape') /\ tickets[i].filled <= Len(tape')
    <3>1. \A i \in 1..Len(tickets) : tickets[i].created <= Len(tape) /\ tickets[i].filled <= Len(tape)
      BY Zenon DEF V2Inv, V2Typed
    <3>2. \A i \in 1..Len(tickets) : tickets[i].created \in Nat /\ tickets[i].filled \in Nat
      BY <1>3 DEF V2Order
    <3> QED BY <1>2, <3>1, <3>2
  <2>3. Len(tape') <= V2End
    BY <1>1, <1>2
  <2> QED BY <1>1, <1>2, <2>1, <2>2, <2>3 DEF V2Inv, V2Typed
<1>5. \A i \in 1..Len(tickets), b \in Nat : Fillable(i, b) => Fillable(i, b)'
  BY <1>1, <1>2, <1>3 DEF Fillable, V2Order
<1>6. V2Filled'
  <2>1. \A i \in 1..Len(tickets) : tickets[i].filled \in Nat
    BY <1>3 DEF V2Order
  <2>2. \A i \in 1..Len(tickets) : Fillable(i, tickets[i].filled) => Fillable(i, tickets[i].filled)'
    BY <1>1, <1>2, <1>3 DEF Fillable, V2Order
  <2> QED BY <1>1, <2>2 DEF V2Inv, V2Filled
<1>7. V2Busy'
  <2>1. V2!OpenOrders' = V2!OpenOrders
    BY <1>1 DEF V2!OpenOrders
  <2>2. ASSUME NEW i \in 1..Len(tickets), NEW w, Fits(i, w) PROVE Fits(i, w)'
    <3>1. ToFill(i, w) => ToFill(i, w)'
      BY <1>5 DEF ToFill
    <3>2. (ToClose(i, w) <=> ToClose(i, w)') /\ (ToExpire(i, w) <=> ToExpire(i, w)')
      BY DEF ToClose, ToExpire
    <3> QED BY <1>1, <2>2, <3>1, <3>2 DEF Fits
  <2>3. PICK w : w = worker.writes
    OBVIOUS
  <2>4. w # <<>> => \E i \in 1..Len(tickets) : i \notin worker.todo /\ Fits(i, w)
    BY <2>3 DEF V2Inv, V2Busy
  <2>5. w # <<>> => \E i \in 1..Len(tickets) : i \notin worker.todo /\ Fits(i, w)'
    BY <2>2, <2>4
  <2>6. worker'.writes = w
    BY <1>1, <2>3
  <2>7. worker'.writes # <<>> => \E i \in 1..Len(tickets') : i \notin worker'.todo /\ Fits(i, worker.writes)'
    BY <1>1, <2>5, <2>6
  <2> QED BY <1>1, <2>1, <2>7 DEF V2Inv, V2Busy
<1>8. V2!SignalsApart'
  BY <1>1 DEF V2Inv, V2!SignalsApart
<1> QED BY <1>1, <1>4, <1>6, <1>7, <1>8, V2Same DEF V2Inv

(* The beginnings of a task, and its end by a crash. *)
LEMMA V2Starts ==
    ASSUME V2Inv, (\E ps \in SUBSET Coins : V2!StartScan(ps)) \/ V2!StartSettle PROVE V2Inv'
<1>1. /\ worker = V2!Idle /\ UNCHANGED <<tape, alerts, tickets, trail, workerFaults>>
  BY Zenon DEF V2!StartScan, V2!StartSettle, V2Inv, V2Busy
<1>2. \/ /\ worker' \in V2Worker /\ worker'.is = "scan" /\ worker'.new = <<>>
         /\ worker'.todo = {} /\ worker'.writes = <<>>
      \/ /\ worker' \in V2Worker /\ worker'.is = "settle" /\ worker'.new = <<>> /\ worker'.plans = {}
         /\ worker'.todo = V2!OpenOrders /\ worker'.writes = <<>> /\ V2!OpenOrders # {}
  <2>1. ASSUME NEW ps \in SUBSET Coins, V2!StartScan(ps)
        PROVE  worker' = [is |-> "scan", plans |-> ps, new |-> <<>>, todo |-> {}, writes |-> <<>>]
    BY <2>1, Zenon DEF V2!StartScan, V2!Idle
  <2>2. ASSUME V2!StartSettle
        PROVE  /\ worker' = [is |-> "settle", plans |-> {}, new |-> <<>>, todo |-> V2!OpenOrders, writes |-> <<>>]
               /\ V2!OpenOrders # {}
    BY <2>2, Zenon DEF V2!StartSettle, V2!Idle
  <2>3. V2!OpenOrders \in SUBSET Nat
    BY DEF V2!OpenOrders
  <2>4. CASE \E ps \in SUBSET Coins : V2!StartScan(ps)
    <3>1. PICK ps \in SUBSET Coins : V2!StartScan(ps)
      BY <2>4
    <3>2. worker' = [is |-> "scan", plans |-> ps, new |-> <<>>, todo |-> {}, writes |-> <<>>]
      BY <2>1, <3>1
    <3>3. [is |-> "scan", plans |-> ps, new |-> <<>>, todo |-> {}, writes |-> <<>>] \in V2Worker
      BY V2WorkerIs, V2WorkerEmpty, Zenon
    <3> QED BY <3>2, <3>3
  <2>5. CASE V2!StartSettle
    <3>1. [is |-> "settle", plans |-> {}, new |-> <<>>, todo |-> V2!OpenOrders, writes |-> <<>>] \in V2Worker
      <4>1. PICK o : o = V2!OpenOrders
        OBVIOUS
      <4> QED BY <2>3, <4>1, V2WorkerIs, V2WorkerEmpty, Zenon
    <3> QED BY <2>2, <2>5, <3>1
  <2> QED BY <2>4, <2>5
<1>3. V2!OpenOrders' = V2!OpenOrders
  BY <1>1 DEF V2!OpenOrders
<1>4. V2Busy'
  BY <1>2, <1>3 DEF V2Busy
<1>5. worker.new = <<>> /\ worker'.new = <<>> /\ worker.writes = <<>> /\ worker'.writes = worker.writes
  BY <1>1, <1>2 DEF V2!Idle
<1>6. V2Typed'
  BY <1>1, <1>2, <1>5 DEF V2Inv, V2Typed
<1>7. V2Filled' /\ V2!SignalsApart'
  BY <1>1 DEF V2Inv, V2Filled, V2!SignalsApart, Fillable
<1> QED BY <1>1, <1>4, <1>5, <1>6, <1>7, V2Same DEF V2Inv

LEMMA V2SaveSignal == ASSUME V2Inv, NEW s \in Coins, V2!SaveSignal(s) PROVE V2Inv'
<1> USE V2Assumption
<1>1. worker \in V2Worker /\ worker.is = "scan" /\ worker.writes = <<>> /\ worker.todo = {}
      /\ UNCHANGED <<tape, tickets, trail, workerFaults>>
  BY Zenon DEF V2!SaveSignal, V2Inv, V2Typed, V2Busy
<1>2. ASSUME NEW t \in V2Worker, t.is = "scan", t.writes = <<>>, t.todo = {}, worker' = V2!Onward(t)
      PROVE  /\ worker' \in V2Worker /\ V2Busy' /\ worker'.writes = worker.writes /\ worker'.new = t.new
  <2>1. t.new \in Seq(Coins)
    BY DEF V2Worker
  <2>2. CASE worker' = t
    BY <1>1, <1>2, <2>2 DEF V2Busy
  <2>3. CASE worker' = [is |-> "orders", plans |-> {}, new |-> t.new, todo |-> {}, writes |-> <<>>]
    <3>1. worker' \in V2Worker /\ worker'.is = "orders" /\ worker'.writes = <<>> /\ worker'.todo = {} /\ worker'.new = t.new
      BY <2>1, <2>3 DEF V2Worker
    <3> QED BY <1>1, <3>1 DEF V2Busy
  <2>4. CASE t.new = <<>> /\ worker' = V2!Idle
    <3>1. V2!Idle \in V2Worker
      BY DEF V2!Idle, V2Worker
    <3> QED BY <1>1, <2>4, <3>1 DEF V2Busy, V2!Idle
  <2> QED BY <1>2, <2>2, <2>3, <2>4, V2Onward
<1>3. CASE /\ worker' = V2!Onward([worker EXCEPT !.plans = @ \ {s}])
           /\ UNCHANGED alerts
  <2> DEFINE t == [worker EXCEPT !.plans = @ \ {s}]
  <2>1. t \in V2Worker /\ t.is = "scan" /\ t.writes = <<>> /\ t.todo = {} /\ t.new = worker.new
    BY <1>1, Zenon DEF V2Worker
  <2> HIDE DEF t
  <2>2. worker' \in V2Worker /\ V2Busy' /\ worker'.writes = worker.writes /\ worker'.new = worker.new
    <3>1. worker' = V2!Onward(t)
      BY <1>3 DEF t
    <3>2. PICK u : u = t
      OBVIOUS
    <3> QED BY <1>2, <2>1, <3>1, <3>2
  <2>3. V2Typed'
    BY <1>1, <1>3, <2>2, Zenon DEF V2Inv, V2Typed
  <2>4. V2Filled' /\ V2!SignalsApart'
    BY <1>1, <1>3 DEF V2Inv, V2Filled, V2!SignalsApart, Fillable
  <2> QED BY <1>1, <2>2, <2>3, <2>4, V2Same DEF V2Inv
<1>4. CASE /\ ~V2!RecentSignal(s) /\ Len(alerts) # MaxSignals
           /\ alerts' = Append(alerts, [symbol |-> s, at |-> V2!Now])
           /\ worker' = V2!Onward([worker EXCEPT !.new = Append(@, s),
                          !.plans = IF Len(worker.new) + 1 >= MaxOpen THEN {} ELSE @ \ {s}])
  <2> DEFINE p == IF Len(worker.new) + 1 >= MaxOpen THEN {} ELSE worker.plans \ {s}
             t == [is |-> "scan", plans |-> p, new |-> Append(worker.new, s), todo |-> {}, writes |-> <<>>]
  <2>1. worker.new \in Seq(Coins) /\ p \in SUBSET Coins
    BY <1>1 DEF V2Worker
  <2>2. [worker EXCEPT !.new = Append(@, s),
                          !.plans = IF Len(worker.new) + 1 >= MaxOpen THEN {} ELSE @ \ {s}] = t
    <3>1. worker = [is |-> "scan", plans |-> worker.plans, new |-> worker.new, todo |-> {}, writes |-> <<>>]
      BY <1>1, V2WorkerFields
    <3>2. PICK m, o : m = Append(worker.new, s)
                     /\ o = IF Len(worker.new) + 1 >= MaxOpen THEN {} ELSE worker.plans \ {s}
      BY Zenon
    <3>3. [worker EXCEPT !.new = Append(@, s),
                          !.plans = IF Len(worker.new) + 1 >= MaxOpen THEN {} ELSE @ \ {s}]
            = [worker EXCEPT !.new = m, !.plans = o]
      BY <3>2, Zenon
    <3>4. [worker EXCEPT !.new = m, !.plans = o]
            = [is |-> worker.is, plans |-> o, new |-> m, todo |-> worker.todo, writes |-> worker.writes]
      <4>1. worker \in V2Worker
        BY <1>1
      <4> QED BY <4>1, V2SetsNewPlans, Zenon
    <3> QED BY <1>1, <3>2, <3>3, <3>4
  <2> HIDE DEF p
  <2>3. t \in V2Worker /\ t.is = "scan" /\ t.writes = <<>> /\ t.todo = {} /\ t.new = Append(worker.new, s)
    BY <2>1 DEF V2Worker
  <2> HIDE DEF t
  <2>4. worker' \in V2Worker /\ V2Busy' /\ worker'.writes = worker.writes /\ worker'.new = Append(worker.new, s)
    <3>1. worker' = V2!Onward(t)
      BY <1>4, <2>2
    <3>2. PICK u : u = t
      OBVIOUS
    <3> QED BY <1>2, <2>3, <3>1, <3>2
  <2>5. /\ alerts' \in Seq(V2Alert) /\ Len(alerts') = Len(alerts) + 1 /\ Len(alerts) \in Nat /\ Len(tape) \in Nat
        /\ \A k \in 1..Len(alerts) : alerts'[k] = alerts[k] /\ alerts[k] \in V2Alert
        /\ alerts'[Len(alerts) + 1] = [symbol |-> s, at |-> Len(tape)]
    <3>1. Len(tape) \in Nat
      BY DEF V2Inv, V2Typed
    <3>2. [symbol |-> s, at |-> Len(tape)] \in V2Alert
      BY <3>1 DEF V2Alert
    <3> QED BY <1>4, <3>1, <3>2 DEF V2Inv, V2Typed, V2!Now
  <2>6. V2Typed'
    <3>1. Len(alerts') <= MaxSignals
      BY <1>4, <2>5 DEF V2Inv, V2Typed
    <3>2. \A k \in 1..Len(alerts') : alerts'[k].at <= Len(tape')
      <4>1. \A k \in 1..Len(alerts') : k \in 1..Len(alerts) \/ k = Len(alerts) + 1
        BY <2>5
      <4>2. \A k \in 1..Len(alerts) : alerts'[k].at <= Len(tape')
        BY <1>1, <2>5, Zenon DEF V2Inv, V2Typed
      <4>3. alerts'[Len(alerts) + 1].at <= Len(tape')
        BY <1>1, <2>5
      <4> QED BY <4>1, <4>2, <4>3
    <3>3. Len(tickets') + Len(worker'.new) <= Len(alerts')
      <4>1. Len(Append(worker.new, s)) = Len(worker.new) + 1 /\ Len(worker.new) \in Nat /\ Len(tickets) \in Nat
        BY <2>1 DEF V2Inv, V2Typed
      <4> QED BY <1>1, <2>4, <2>5, <4>1 DEF V2Inv, V2Typed
    <3> QED BY <1>1, <2>4, <2>5, <3>1, <3>2, <3>3 DEF V2Inv, V2Typed
  <2>7. V2!SignalsApart'
    <3> SUFFICES ASSUME NEW j \in 1..Len(alerts'), NEW k \in 1..Len(alerts'), j < k,
                        alerts'[j].symbol = alerts'[k].symbol
                 PROVE  alerts'[k].at - alerts'[j].at > Window
      BY DEF V2!SignalsApart
    <3>1. j \in 1..Len(alerts)
      BY <2>5
    <3>2. CASE k \in 1..Len(alerts)
      BY <2>5, <3>1, <3>2 DEF V2Inv, V2!SignalsApart
    <3>3. CASE k = Len(alerts) + 1
      <4>1. alerts[j].symbol = s /\ alerts[j].at \in Nat
        BY <2>5, <3>1, <3>3 DEF V2Alert
      <4>2. ~(Len(tape) - alerts[j].at <= Window)
        BY <1>4, <3>1, <4>1, Zenon DEF V2!RecentSignal, V2!Now
      <4> QED BY <2>5, <3>1, <3>3, <4>1, <4>2
    <3> QED BY <2>5, <3>2, <3>3
  <2>8. V2Filled'
    BY <1>1 DEF V2Inv, V2Filled, Fillable
  <2> QED BY <1>1, <2>4, <2>6, <2>7, <2>8, V2Same DEF V2Inv
<1> QED BY <1>3, <1>4 DEF V2!SaveSignal

(* A step of a task that leaves t to go on with. *)
LEMMA V2Goes ==
    ASSUME V2Inv, NEW t \in V2Worker, t.is # "idle", t.is = "scan" => t.writes = <<>>, t.is # "settle" => t.todo = {},
           t.is = "settle" => t.new = <<>> /\ t.plans = {}, \A i \in t.todo : i \in V2!OpenOrders',
           t.writes # <<>> => \E i \in 1..Len(tickets') : i \notin t.todo /\ Fits(i, t.writes)',
           worker' = V2!Onward(t)
    PROVE  worker' \in V2Worker /\ V2Busy' /\ worker'.writes = t.writes /\ worker'.new = t.new
<1>1. t.new \in Seq(Coins)
  BY DEF V2Worker
<1>2. CASE (t.plans # {} \/ t.todo # {} \/ t.writes # <<>>) /\ worker' = t
  BY <1>2 DEF V2Busy
<1>3. CASE /\ t.plans = {} /\ t.todo = {} /\ t.writes = <<>>
           /\ t.new # <<>> /\ worker' = [is |-> "orders", plans |-> {}, new |-> t.new, todo |-> {}, writes |-> <<>>]
  <2>1. worker' \in V2Worker
    BY <1>1, <1>3, V2WorkerIs, V2WorkerEmpty, Zenon
  <2>2. worker'.is = "orders" /\ worker'.writes = <<>> /\ worker'.todo = {} /\ worker'.new = t.new
    BY <1>3
  <2> QED BY <1>3, <2>1, <2>2 DEF V2Busy
<1>4. CASE t.new = <<>> /\ t.writes = <<>> /\ worker' = V2!Idle
  <2>1. worker' \in V2Worker
    <3>1. [is |-> "idle", plans |-> {}, new |-> <<>>, todo |-> {}, writes |-> <<>>] \in V2Worker
      BY V2WorkerIs, V2WorkerEmpty, Zenon
    <3> QED BY <1>4, <3>1 DEF V2!Idle
  <2>2. worker'.is = "idle" /\ worker'.writes = <<>> /\ worker'.todo = {} /\ worker'.new = t.new
    BY <1>4 DEF V2!Idle
  <2> QED BY <1>4, <2>1, <2>2 DEF V2Busy
<1> QED BY <1>2, <1>3, <1>4, V2Onward

(* The orders behind after a step are the same ones, or one more after a failure. *)
LEMMA V2BehindFinite == ASSUME V2Inv PROVE IsFiniteSet(Behind) /\ Cardinality(Behind) \in Nat
<1>1. Behind \in SUBSET (1..Len(tickets)) /\ Len(tickets) \in Nat
  BY DEF Behind, V2Inv, V2Typed
<1>2. IsFiniteSet(1..Len(tickets))
  BY <1>1, FS_Interval
<1>3. IsFiniteSet(Behind)
  BY <1>1, <1>2, FS_Subset, Zenon
<1> QED BY <1>3, FS_CardinalityType

LEMMA V2Kept ==
    ASSUME V2Inv, \A i \in 1..Len(tickets') : Short(i)' => i \in 1..Len(tickets) /\ Short(i), workerFaults' = workerFaults
    PROVE  Cardinality(Behind') <= workerFaults'
<1> USE V2Assumption
<1>1. PICK b : b = Behind'
  OBVIOUS
<1>2. b \in SUBSET Behind
  BY <1>1 DEF Behind
<1>3. Cardinality(b) \in Nat /\ Cardinality(Behind) \in Nat /\ Cardinality(b) <= Cardinality(Behind)
  BY <1>2, V2BehindFinite, CountLess
<1> QED BY <1>1, <1>3 DEF V2Inv, V2Typed

LEMMA V2OneMore ==
    ASSUME V2Inv, NEW i, \A j \in 1..Len(tickets') : Short(j)' => j = i \/ (j \in 1..Len(tickets) /\ Short(j)),
           workerFaults' = workerFaults + 1
    PROVE  Cardinality(Behind') <= workerFaults'
<1> USE V2Assumption
<1>1. PICK b : b = Behind'
  OBVIOUS
<1>2. b \in SUBSET (Behind \cup {i})
  BY <1>1 DEF Behind
<1>3. PICK c : c = Behind
  OBVIOUS
<1>4. IsFiniteSet(c) /\ Cardinality(c) \in Nat
  BY <1>3, V2BehindFinite
<1>5. IsFiniteSet(c \cup {i}) /\ Cardinality(c \cup {i}) <= Cardinality(c) + 1
  <2>1. CASE i \in c
    <3>1. c \cup {i} = c
      BY <2>1
    <3>2. Cardinality(c \cup {i}) = Cardinality(c)
      BY <3>1, Zenon
    <3>3. IsFiniteSet(c \cup {i})
      BY <1>4, <3>1, Zenon
    <3> QED BY <1>4, <3>2, <3>3
  <2>2. CASE i \notin c
    <3>1. IsFiniteSet(c \cup {i}) /\ Cardinality(c \cup {i}) = Cardinality(c) + 1
      BY <1>4, <2>2, FS_AddElement
    <3> QED BY <1>4, <3>1
  <2> QED BY <2>1, <2>2
<1>6. Cardinality(b) \in Nat /\ Cardinality(c \cup {i}) \in Nat /\ Cardinality(b) <= Cardinality(c \cup {i})
  <2>1. b \in SUBSET (c \cup {i})
    BY <1>2, <1>3
  <2> QED BY <1>5, <2>1, CountLess
<1>7. Cardinality(c) <= workerFaults /\ workerFaults \in Nat
  BY <1>3 DEF V2Inv, V2Typed
<1> QED BY <1>1, <1>4, <1>5, <1>6, <1>7

(* Nothing to be written, and as many of the one as of the other. *)
LEMMA V2NoneIn == \A i : PutsIn(<<>>, i) = {} /\ EventsIn(<<>>, i) = {}
  BY DEF PutsIn, EventsIn

Even(w) == \A j : Cardinality(PutsIn(w, j)) = Cardinality(EventsIn(w, j))
LEMMA V2Even ==
    ASSUME NEW i, NEW r, NEW s, NEW a, NEW b, NEW c, NEW d, NEW bb
    PROVE  /\ Even(<<>>)
           /\ Even(<<V2!Write("filled", i, r, b), V2!Wrote(i, a, c)>>)
           /\ Even(<<V2!Write("settled", i, r, b), V2!Wrote(i, a, c)>>)
           /\ Even(<<V2!Write("filled", i, r, b), V2!Wrote(i, a, c), V2!Write("settled", i, s, bb), V2!Wrote(i, c, d)>>)
<1>1. Even(<<>>)
  BY V2NoneIn, Zenon DEF Even
<1>2. ASSUME NEW w, NEW j, Len(w) = 2, w[1].is # "event", w[2].is = "event", w[1].data.order = i, w[2].data.order = i
      PROVE  Cardinality(PutsIn(w, j)) = Cardinality(EventsIn(w, j))
  <2>1. CASE i = j
    <3>1. PutsIn(w, j) = {1} /\ EventsIn(w, j) = {2}
      BY <1>2, <2>1 DEF PutsIn, EventsIn
    <3>2. Cardinality({1}) = 1 /\ Cardinality({2}) = 1
      BY FS_Singleton, Zenon
    <3> QED BY <3>1, <3>2
  <2>2. CASE i # j
    <3>1. PutsIn(w, j) = {} /\ EventsIn(w, j) = {}
      BY <1>2, <2>2 DEF PutsIn, EventsIn
    <3> QED BY <3>1
  <2> QED BY <2>1, <2>2
<1>3. ASSUME NEW w, NEW j, Len(w) = 4, w[1].is # "event", w[2].is = "event", w[3].is # "event", w[4].is = "event",
             w[1].data.order = i, w[2].data.order = i, w[3].data.order = i, w[4].data.order = i
      PROVE  Cardinality(PutsIn(w, j)) = Cardinality(EventsIn(w, j))
  <2>1. CASE i = j
    <3>1. PutsIn(w, j) = {1, 3} /\ EventsIn(w, j) = {2, 4}
      BY <1>3, <2>1 DEF PutsIn, EventsIn
    <3>2. Cardinality({1, 3}) = 2 /\ Cardinality({2, 4}) = 2
      <4>1. IsFiniteSet({1}) /\ Cardinality({1}) = 1 /\ IsFiniteSet({2}) /\ Cardinality({2}) = 1
        BY FS_Singleton, Zenon
      <4>2. 3 \notin {1} /\ 4 \notin {2}
        OBVIOUS
      <4>3. Cardinality({1} \cup {3}) = 1 + 1
        BY <4>1, <4>2, FS_AddElement
      <4>4. Cardinality({2} \cup {4}) = 1 + 1
        BY <4>1, <4>2, FS_AddElement
      <4>5. {1} \cup {3} = {1, 3} /\ {2} \cup {4} = {2, 4}
        OBVIOUS
      <4> QED BY <4>3, <4>4, <4>5
    <3> QED BY <3>1, <3>2
  <2>2. CASE i # j
    <3>1. PutsIn(w, j) = {} /\ EventsIn(w, j) = {}
      BY <1>3, <2>2 DEF PutsIn, EventsIn
    <3> QED BY <3>1
  <2> QED BY <2>1, <2>2
<1>4. Even(<<V2!Write("filled", i, r, b), V2!Wrote(i, a, c)>>)
  <2> DEFINE w == <<V2!Write("filled", i, r, b), V2!Wrote(i, a, c)>>
  <2>1. /\ Len(w) = 2 /\ w[1].is # "event" /\ w[2].is = "event" /\ w[1].data.order = i /\ w[2].data.order = i
    BY DEF V2!Write, V2!Wrote, V2!Event
  <2> HIDE DEF w
  <2>2. Even(w)
    BY <1>2, <2>1 DEF Even
  <2> QED BY <2>2 DEF w
<1>5. Even(<<V2!Write("settled", i, r, b), V2!Wrote(i, a, c)>>)
  <2> DEFINE w == <<V2!Write("settled", i, r, b), V2!Wrote(i, a, c)>>
  <2>1. /\ Len(w) = 2 /\ w[1].is # "event" /\ w[2].is = "event" /\ w[1].data.order = i /\ w[2].data.order = i
    BY DEF V2!Write, V2!Wrote, V2!Event
  <2> HIDE DEF w
  <2>2. Even(w)
    BY <1>2, <2>1 DEF Even
  <2> QED BY <2>2 DEF w
<1>6. Even(<<V2!Write("filled", i, r, b), V2!Wrote(i, a, c), V2!Write("settled", i, s, bb), V2!Wrote(i, c, d)>>)
  <2> DEFINE w == <<V2!Write("filled", i, r, b), V2!Wrote(i, a, c), V2!Write("settled", i, s, bb), V2!Wrote(i, c, d)>>
  <2>1. /\ Len(w) = 4 /\ w[1].is # "event" /\ w[2].is = "event" /\ w[1].data.order = i /\ w[2].data.order = i
        /\ w[3].is # "event" /\ w[4].is = "event" /\ w[3].data.order = i /\ w[4].data.order = i
    BY DEF V2!Write, V2!Wrote, V2!Event
  <2> HIDE DEF w
  <2>2. Even(w)
    BY <1>3, <2>1 DEF Even
  <2> QED BY <2>2 DEF w
<1> QED BY <1>1, <1>4, <1>5, <1>6

LEMMA V2SaveOrder == ASSUME V2Inv, V2!SaveOrder PROVE V2Inv'
<1> USE V2Assumption
<1>1. /\ worker \in V2Worker /\ worker.is = "orders" /\ worker.writes = <<>> /\ worker.todo = {} /\ worker.new # <<>>
      /\ UNCHANGED <<tape, alerts, trail, workerFaults>>
  BY Zenon DEF V2!SaveOrder, V2Inv, V2Typed, V2Busy
<1>2. /\ worker.new \in Seq(Coins) /\ Tail(worker.new) \in Seq(Coins) /\ Head(worker.new) \in Coins
      /\ Len(Tail(worker.new)) = Len(worker.new) - 1 /\ Len(worker.new) \in Nat /\ Len(worker.new) > 0
      /\ Len(tickets) \in Nat /\ Len(alerts) \in Nat /\ Len(tape) \in Nat /\ Len(trail) \in Nat
  BY <1>1 DEF V2Inv, V2Typed, V2Worker
<1>3. PICK m : m = Tail(worker.new)
  BY Zenon
<1>4. CASE ~V2!RiskAllows(Head(worker.new)) /\ worker' = V2!Onward([worker EXCEPT !.new = Tail(@)]) /\ UNCHANGED tickets
  <2>1. PICK t : t = [is |-> worker.is, plans |-> worker.plans, new |-> m, todo |-> worker.todo, writes |-> worker.writes]
    BY Zenon
  <2>2. [worker EXCEPT !.new = Tail(@)] = t
    <3>1. [worker EXCEPT !.new = m] = t
      <4>1. worker \in V2Worker
        BY <1>1
      <4> QED BY <2>1, <4>1, V2WorkerSets, Zenon
    <3>2. [worker EXCEPT !.new = Tail(@)] = [worker EXCEPT !.new = m]
      BY <1>3, Zenon
    <3> QED BY <3>1, <3>2
  <2>3. t \in V2Worker /\ t.is = "orders" /\ t.writes = <<>> /\ t.todo = {} /\ t.new = m
    BY <1>1, <1>2, <1>3, <2>1 DEF V2Worker
  <2>4. worker' = V2!Onward(t)
    BY <1>4, <2>2, Zenon
  <2>5. worker' \in V2Worker /\ V2Busy' /\ worker'.writes = worker.writes /\ worker'.new = m
    BY <1>1, <2>3, <2>4, V2Goes
  <2>6. V2Typed'
    <3>1. Len(tickets) + Len(m) <= Len(alerts)
      BY <1>2, <1>3 DEF V2Inv, V2Typed
    <3> QED BY <1>1, <1>4, <2>5, <3>1, Zenon DEF V2Inv, V2Typed
  <2>7. V2Filled' /\ V2!SignalsApart'
    BY <1>1, <1>4 DEF V2Inv, V2Filled, V2!SignalsApart, Fillable
  <2> QED BY <1>1, <1>4, <2>5, <2>6, <2>7, V2Same DEF V2Inv
<1>5. CASE /\ V2!RiskAllows(Head(worker.new))
           /\ tickets' = Append(tickets, [symbol |-> Head(worker.new), created |-> V2!Now,
                                         status |-> "OPEN", filled |-> 0])
           /\ worker' = [worker EXCEPT !.new = Tail(@),
                          !.writes = <<[is |-> "event", data |-> V2!Event(Len(tickets) + 1, "none", "OPEN")]>>]
  <2>0. PICK n : n = Len(tickets) + 1
    OBVIOUS
  <2>1. PICK w : w = <<[is |-> "event", data |-> V2!Event(Len(tickets) + 1, "none", "OPEN")]>>
    BY Zenon
  <2>2. w = <<V2!Wrote(n, "none", "OPEN")>> /\ w \in Seq(V2Write) /\ w # <<>> /\ Len(w) = 1
        /\ w[1].is = "event" /\ w[1].data.order = n
    <3>1. V2!Event(n, "none", "OPEN") \in V2Event
      BY <1>2, <2>0 DEF V2!Event, V2Event, V2!Statuses, V2!Open
    <3>2. V2!Wrote(n, "none", "OPEN") \in V2Write
      BY <3>1 DEF V2!Wrote, V2Write
    <3>3. w = <<V2!Wrote(n, "none", "OPEN")>>
      BY <2>0, <2>1 DEF V2!Wrote
    <3> QED BY <3>2, <3>3 DEF V2!Wrote, V2!Event
  <2>3. PICK t : t = [is |-> worker.is, plans |-> worker.plans, new |-> m, todo |-> worker.todo, writes |-> w]
    BY Zenon
  <2>4. worker' = t
    <3>1. [worker EXCEPT !.new = m, !.writes = w] = t
      <4>1. worker \in V2Worker
        BY <1>1
      <4>2. [worker EXCEPT !.new = m, !.writes = w]
              = [is |-> worker.is, plans |-> worker.plans, new |-> m, todo |-> worker.todo, writes |-> w]
        BY <4>1, V2SetsNewWrites, Zenon
      <4> QED BY <2>3, <4>2
    <3>2. worker' = [worker EXCEPT !.new = m, !.writes = w]
      BY <1>3, <1>5, <2>1, Zenon
    <3> QED BY <3>1, <3>2
  <2>5. t \in V2Worker /\ t.is = "orders" /\ t.writes = w /\ t.todo = {} /\ t.new = m
    BY <1>1, <1>2, <1>3, <2>2, <2>3 DEF V2Worker
  <2>6. /\ tickets' \in Seq(V2Order) /\ Len(tickets') = n /\ n \in 1..Len(tickets')
        /\ \A i \in 1..Len(tickets) : tickets'[i] = tickets[i] /\ tickets[i] \in V2Order
        /\ tickets'[n] = [symbol |-> Head(worker.new), created |-> Len(tape), status |-> "OPEN", filled |-> 0]
        /\ 1..Len(tickets') = (1..Len(tickets)) \cup {n} /\ n \notin 1..Len(tickets)
    <3>1. [symbol |-> Head(worker.new), created |-> Len(tape), status |-> "OPEN", filled |-> 0] \in V2Order
      BY <1>2 DEF V2Order, V2!Statuses, V2!Open
    <3>2. tickets \in Seq(V2Order) /\ \A i \in 1..Len(tickets) : tickets[i] \in V2Order
      BY DEF V2Inv, V2Typed
    <3>3. PICK o : o = [symbol |-> Head(worker.new), created |-> Len(tape), status |-> "OPEN", filled |-> 0]
      BY Zenon
    <3>4. tickets' = Append(tickets, o) /\ o \in V2Order
      BY <1>5, <3>1, <3>3 DEF V2!Now
    <3> HIDE <1>5
    <3>5. tickets' \in Seq(V2Order) /\ Len(tickets') = n /\ tickets'[n] = o
          /\ \A i \in 1..Len(tickets) : tickets'[i] = tickets[i]
      BY <1>2, <2>0, <3>2, <3>4
    <3> QED BY <1>2, <2>0, <3>2, <3>3, <3>5
  <2>7. V2!Onward(t) = t
    BY <2>2, <2>5, V2Onward, Zenon
  <2>8. Fits(n, w)'
    <3>1. tickets'[n].status = "OPEN"
      BY <2>6
    <3> QED BY <2>2, <3>1 DEF Fits
  <2>9. worker' \in V2Worker /\ V2Busy' /\ worker'.writes = w /\ worker'.new = m
    <3>1. worker' = V2!Onward(t)
      BY <2>4, <2>7
    <3>2. t.writes # <<>> => \E i \in 1..Len(tickets') : i \notin t.todo /\ Fits(i, t.writes)'
      <4>1. Fits(n, t.writes)'
        BY <2>5, <2>8
      <4> QED BY <2>5, <2>6, <4>1
    <3>3. worker' \in V2Worker /\ V2Busy' /\ worker'.writes = t.writes /\ worker'.new = t.new
      BY <2>5, <3>1, <3>2, V2Goes
    <3> QED BY <2>5, <3>3
  <2>10. V2Typed'
    <3>1. \A i \in 1..Len(tickets') : tickets'[i].created <= Len(tape') /\ tickets'[i].filled <= Len(tape')
      <4>1. \A i \in 1..Len(tickets) : tickets'[i].created <= Len(tape') /\ tickets'[i].filled <= Len(tape')
        BY <1>1, <2>6, Zenon DEF V2Inv, V2Typed
      <4>2. tickets'[n].created <= Len(tape') /\ tickets'[n].filled <= Len(tape')
        BY <1>1, <1>2, <2>6
      <4> QED BY <2>6, <4>1, <4>2
    <3>2. \A k \in 1..Len(trail') : trail'[k].order \in 1..Len(tickets')
      BY <1>1, <2>6, Zenon DEF V2Inv, V2Typed
    <3>3. Len(tickets') + Len(worker'.new) <= Len(alerts')
      <4>1. Len(tickets) + Len(worker.new) <= Len(alerts)
        BY DEF V2Inv, V2Typed
      <4>2. Len(m) = Len(worker.new) - 1 /\ worker'.new = m /\ alerts' = alerts /\ Len(tickets') = Len(tickets) + 1
        BY <1>1, <1>2, <1>3, <2>0, <2>6, <2>9
      <4> QED BY <1>2, <4>1, <4>2
    <3> QED BY <1>1, <2>6, <2>9, <3>1, <3>2, <3>3 DEF V2Inv, V2Typed
  <2>11. V2Filled'
    <3>1. \A i \in 1..Len(tickets) : /\ tickets[i].status = "OPEN" => tickets[i].filled = 0
                                     /\ tickets[i].status \in V2!Results \cup {"FILLED"} => Fillable(i, tickets[i].filled)
      BY DEF V2Inv, V2Filled
    <3>2. \A i \in 1..Len(tickets) : Fillable(i, tickets[i].filled) => Fillable(i, tickets[i].filled)'
      BY <1>1, <2>6 DEF Fillable
    <3>3. "OPEN" \notin V2!Results \cup {"FILLED"}
      BY DEF V2!Results
    <3> QED BY <2>6, <3>1, <3>2, <3>3 DEF V2Filled
  <2>12. V2!OrdersCapped'
    <3>1. V2!OpenOrders' = V2!OpenOrders \cup {n} /\ V2!OpenOrders \in SUBSET (1..Len(tickets))
      BY <2>6 DEF V2!OpenOrders, V2!Open
    <3>2. Cardinality(V2!OpenOrders \cup {n}) = Cardinality(V2!OpenOrders) + 1 /\ Cardinality(V2!OpenOrders) \in Nat
      BY <1>2, <2>0, <3>1, CountMore, Zenon
    <3>3. Cardinality(V2!OpenOrders) < MaxOpen
      BY <1>5, V2Constants DEF V2!RiskAllows
    <3>4. Cardinality(V2!OpenOrders') <= MaxOpen
      BY <3>1, <3>2, <3>3
    <3>5. \A i \in V2!OpenOrders : tickets[i].symbol # Head(worker.new)
      BY <1>5 DEF V2!RiskAllows
    <3>6. \A i, j \in V2!OpenOrders' : tickets'[i].symbol = tickets'[j].symbol => i = j
      BY <2>6, <3>1, <3>5 DEF V2Inv, V2!OrdersCapped
    <3> QED BY <3>4, <3>6, V2Constants DEF V2!OrdersCapped
  <2>13. Cardinality(Behind') <= workerFaults'
    <3>1. ASSUME NEW i \in 1..Len(tickets'), Short(i)' PROVE i \in 1..Len(tickets) /\ Short(i)
      <4>1. PICK b, p, q : b = EventsOf(i) /\ p = PutsIn(w, i) /\ q = EventsIn(w, i)
        OBVIOUS
      <4>2. b = EventsOf(i)' /\ p = PutsIn(worker.writes, i)' /\ q = EventsIn(worker.writes, i)'
        BY <1>1, <2>9, <4>1 DEF EventsOf, PutsIn, EventsIn
      <4>3. p = {}
        BY <2>2, <4>1 DEF PutsIn
      <4>4. b \in SUBSET (1..Len(trail)) /\ q \in SUBSET (1..1)
        BY <2>2, <4>1 DEF EventsOf, EventsIn
      <4>5. Cardinality(b) \in Nat
        BY <1>2, <4>4, CountMore, Zenon
      <4>6. Cardinality(q) \in Nat
        BY <4>4, CountMore, Zenon
      <4>7. Cardinality(p) = 0
        BY <4>3, FS_EmptySet
      <4>8. V2!Transitions(i)' + 0 > Cardinality(b) + Cardinality(q)
        BY <3>1, <4>2, <4>7 DEF Short
      <4>9. CASE i = n
        <5>1. V2!Transitions(i)' = 1
          BY <2>6, <4>9 DEF V2!Transitions, V2!Open
        <5>2. q = {1}
          BY <2>2, <4>1, <4>9 DEF EventsIn
        <5>3. Cardinality(q) = 1
          BY <5>2, FS_Singleton, Zenon
        <5> QED BY <4>5, <4>8, <5>1, <5>3
      <4>10. CASE i \in 1..Len(tickets)
        <5>1. V2!Transitions(i)' = V2!Transitions(i) /\ V2!Transitions(i) \in Nat
          BY <2>6, <4>10 DEF V2!Transitions
        <5>2. PutsIn(worker.writes, i) = {} /\ EventsIn(worker.writes, i) = {}
          BY <1>1, V2NoneIn
        <5>3. Cardinality(PutsIn(worker.writes, i)) = 0 /\ Cardinality(EventsIn(worker.writes, i)) = 0
          BY <5>2, FS_EmptySet
        <5>4. Short(i)
          BY <4>1, <4>5, <4>6, <4>8, <5>1, <5>3 DEF Short
        <5> QED BY <4>10, <5>4
      <4> QED BY <2>6, <4>9, <4>10
    <3> QED BY <1>1, <3>1, V2Kept
  <2>14. V2!SignalsApart'
    BY <1>1 DEF V2Inv, V2!SignalsApart
  <2> QED BY <2>9, <2>10, <2>11, <2>12, <2>13, <2>14 DEF V2Inv
<1> QED BY <1>4, <1>5, Zenon DEF V2!SaveOrder

LEMMA TwoAndTwo == ASSUME NEW a, NEW b, NEW c, NEW d PROVE <<a, b>> \o <<c, d>> = <<a, b, c, d>>
<1> DEFINE S == {a, b, c, d}
<1>1. PICK x, y, z : x = <<a, b>> /\ y = <<c, d>> /\ z = <<a, b, c, d>>
  BY Zenon
<1>2. x \in Seq(S) /\ Len(x) = 2 /\ x[1] = a /\ x[2] = b
  BY <1>1
<1>3. y \in Seq(S) /\ Len(y) = 2 /\ y[1] = c /\ y[2] = d
  BY <1>1
<1>4. z \in Seq(S) /\ Len(z) = 4 /\ z[1] = a /\ z[2] = b /\ z[3] = c /\ z[4] = d
  BY <1>1
<1> HIDE DEF S
<1>5. PICK u : u = x \o y
  BY Zenon
<1>6. u \in Seq(S) /\ Len(u) = 4 /\ u[1] = a /\ u[2] = b /\ u[3] = c /\ u[4] = d
  <2>1. u \in Seq(S) /\ Len(u) = Len(x) + Len(y)
        /\ \A k \in 1..(Len(x) + Len(y)) : u[k] = IF k <= Len(x) THEN x[k] ELSE y[k - Len(x)]
    BY <1>2, <1>3, <1>5, ConcatProperties, Zenon
  <2>2. \A k \in 1..4 : u[k] = IF k <= 2 THEN x[k] ELSE y[k - 2]
    BY <1>2, <1>3, <2>1
  <2> QED BY <1>2, <1>3, <2>1, <2>2
<1>7. \A k \in 1..4 : k = 1 \/ k = 2 \/ k = 3 \/ k = 4
  OBVIOUS
<1>8. \A k \in 1..Len(u) : u[k] = z[k]
  BY <1>4, <1>6, <1>7
<1>9. u = z
  BY <1>4, <1>6, <1>8, SeqEqual
<1> QED BY <1>1, <1>5, <1>9, Zenon
LEMMA V2Smallest ==
    ASSUME NEW n \in Nat, NEW S \in SUBSET (1..n), S # {} PROVE V2!MinOf(S) \in S
<1>1. IsFiniteSet(1..n)
  BY FS_Interval
<1>2. IsFiniteSet(S)
  BY <1>1, FS_Subset, Zenon
<1>3. S \in SUBSET Int
  OBVIOUS
<1>4. Min(S) \in S
  BY <1>2, <1>3, MinExists
<1> QED BY <1>4, V2Constants

(* What the settlement of an order leaves to be written. *)
V2Shapes(i, w) == \/ w = <<>>
                  \/ tickets[i].status = "OPEN" /\ (ToFill(i, w) \/ ToExpire(i, w))
                  \/ /\ tickets[i].status = "FILLED"
                     /\ \E r \in V2!Results : w = <<V2!Write("settled", i, r, 0), V2!Wrote(i, "FILLED", r)>>
LEMMA V2Settled ==
    ASSUME V2Inv, NEW i \in V2!OpenOrders
    PROVE  V2Shapes(i, IF V2!Relevant(i) = {} THEN <<>>
                       ELSE IF tickets[i].status = "OPEN" THEN V2!FillWrites(i) ELSE V2!FilledWrites(i))
<1>1. i \in 1..Len(tickets) /\ tickets[i].status \in {"OPEN", "FILLED"} /\ tickets[i] \in V2Order /\ Len(tape) \in Nat
  BY DEF V2Inv, V2Typed, V2!OpenOrders, V2!Open
<1>2. \A c : V2!SettleResult(i, c) \in V2!Results \cup {"none"}
  BY DEF V2!SettleResult, V2!Results
<1>3. CASE tickets[i].status = "FILLED"
  <2>1. PICK r : r = V2!SettleResult(i, V2!Relevant(i))
    OBVIOUS
  <2>2. r \in V2!Results \cup {"none"} /\ V2!FilledWrites(i) = V2!CloseWrites(i, "FILLED", r)
    BY <1>2, <2>1 DEF V2!FilledWrites
  <2>3. V2!FilledWrites(i) = <<>>
        \/ (r \in V2!Results /\ V2!FilledWrites(i) = <<V2!Write("settled", i, r, 0), V2!Wrote(i, "FILLED", r)>>)
    BY <2>2 DEF V2!CloseWrites
  <2>4. V2Shapes(i, <<>>)
    BY DEF V2Shapes
  <2>5. V2Shapes(i, V2!FilledWrites(i))
    BY <1>3, <2>3 DEF V2Shapes
  <2> QED BY <1>3, <2>4, <2>5
<1>4. CASE tickets[i].status = "OPEN" /\ V2!Relevant(i) # {}
  <2>1. PICK touched : touched = {k \in V2!Relevant(i) : "entry" \in tape[k]}
    BY Zenon
  <2>2. PICK fill : fill = V2!MinOf(touched)
    OBVIOUS
  <2>3. PICK r : r = V2!SettleResult(i, {k \in V2!Relevant(i) : k > fill})
    OBVIOUS
  <2>4. r \in V2!Results \cup {"none"}
    BY <1>2, <2>3
  <2>5. CASE touched # {}
    <3>1. touched \in SUBSET (1..Len(tape))
      BY <2>1 DEF V2!Relevant, V2!Now
    <3>2. fill \in touched
      BY <1>1, <2>2, <2>5, <3>1, V2Smallest, Zenon
    <3>3. fill \in Nat /\ Fillable(i, fill)
      BY <1>1, <2>1, <3>2 DEF V2!Relevant, V2!Now, Fillable, V2Order
    <3>4. V2!FillWrites(i) = <<V2!Write("filled", i, "FILLED", fill), V2!Wrote(i, "OPEN", "FILLED")>>
                              \o V2!CloseWrites(i, "FILLED", r)
      BY <2>1, <2>2, <2>3, <2>5 DEF V2!FillWrites
    <3>5. CASE r = "none"
      <4>1. V2!FillWrites(i) = <<V2!Write("filled", i, "FILLED", fill), V2!Wrote(i, "OPEN", "FILLED")>>
        BY <3>4, <3>5 DEF V2!CloseWrites
      <4>2. ToFill(i, V2!FillWrites(i))
        BY <3>3, <4>1 DEF ToFill
      <4> QED BY <1>4, <4>2 DEF V2Shapes
    <3>6. CASE r \in V2!Results /\ r # "none"
      <4>1. V2!FillWrites(i) = <<V2!Write("filled", i, "FILLED", fill), V2!Wrote(i, "OPEN", "FILLED"),
                               V2!Write("settled", i, r, 0), V2!Wrote(i, "FILLED", r)>>
        <5>1. V2!CloseWrites(i, "FILLED", r) = <<V2!Write("settled", i, r, 0), V2!Wrote(i, "FILLED", r)>>
          BY <3>6 DEF V2!CloseWrites
        <5> QED BY <3>4, <5>1, TwoAndTwo, Zenon
      <4>2. ToFill(i, V2!FillWrites(i))
        BY <3>3, <3>6, <4>1 DEF ToFill
      <4> QED BY <1>4, <4>2 DEF V2Shapes
    <3> QED BY <2>4, <3>5, <3>6
  <2>6. CASE touched = {}
    <3>1. V2!FillWrites(i) = <<>>
          \/ V2!FillWrites(i) = <<V2!Write("settled", i, "EXPIRED_NOT_FILLED", 0), V2!Wrote(i, "OPEN", "EXPIRED_NOT_FILLED")>>
      BY <2>1, <2>6 DEF V2!FillWrites, V2!CloseWrites
    <3> QED BY <1>4, <3>1 DEF V2Shapes, ToExpire
  <2> QED BY <1>4, <2>5, <2>6
<1>5. CASE V2!Relevant(i) = {}
  BY <1>5 DEF V2Shapes
<1> QED BY <1>1, <1>3, <1>4, <1>5

LEMMA V2ShapeFits ==
    ASSUME V2Inv, NEW i \in V2!OpenOrders, NEW w, V2Shapes(i, w)
    PROVE  w \in Seq(V2Write) /\ Even(w) /\ (w # <<>> => Fits(i, w))
<1>0. i \in 1..Len(tickets) /\ i \in Nat
  BY DEF V2!OpenOrders, V2Inv, V2Typed
<1>1. ASSUME NEW a \in {"filled", "settled"}, NEW s \in V2!Statuses, NEW b \in Nat PROVE V2!Write(a, i, s, b) \in V2Write
  <2>1. [order |-> i, status |-> s, bar |-> b] \in V2Put
    BY <1>0 DEF V2Put
  <2> QED BY <2>1 DEF V2!Write, V2Write
<1>2. ASSUME NEW a \in V2!Open \cup {"none"}, NEW b \in V2!Statuses PROVE V2!Wrote(i, a, b) \in V2Write
  <2>1. [order |-> i, old |-> a, new |-> b] \in V2Event
    BY <1>0 DEF V2Event
  <2> QED BY <2>1 DEF V2!Wrote, V2Write, V2!Event
<1>3. /\ "FILLED" \in V2!Statuses /\ "EXPIRED_NOT_FILLED" \in V2!Statuses /\ V2!Results \subseteq V2!Statuses
      /\ "OPEN" \in V2!Open \cup {"none"} /\ "FILLED" \in V2!Open \cup {"none"} /\ 0 \in Nat
      /\ "filled" \in {"filled", "settled"} /\ "settled" \in {"filled", "settled"}
  BY DEF V2!Statuses, V2!Open, V2!Results
<1>4. CASE w = <<>>
  BY <1>4, V2Even, V2WorkerEmpty, Zenon
<1>5. CASE tickets[i].status = "OPEN" /\ ToFill(i, w)
  <2>1. PICK b \in Nat : /\ Fillable(i, b)
                         /\ \/ w = <<V2!Write("filled", i, "FILLED", b), V2!Wrote(i, "OPEN", "FILLED")>>
                            \/ \E r \in V2!Results :
                                 w = <<V2!Write("filled", i, "FILLED", b), V2!Wrote(i, "OPEN", "FILLED"),
                                       V2!Write("settled", i, r, 0), V2!Wrote(i, "FILLED", r)>>
    BY <1>5 DEF ToFill
  <2>2. V2!Write("filled", i, "FILLED", b) \in V2Write /\ V2!Wrote(i, "OPEN", "FILLED") \in V2Write
    BY <1>1, <1>2, <1>3
  <2>3. CASE w = <<V2!Write("filled", i, "FILLED", b), V2!Wrote(i, "OPEN", "FILLED")>>
    <3>1. w \in Seq(V2Write)
      BY <2>2, <2>3
    <3>2. Even(w)
      BY <2>3, V2Even, Zenon
    <3> QED BY <1>5, <3>1, <3>2 DEF Fits
  <2>4. ASSUME NEW r \in V2!Results,
               w = <<V2!Write("filled", i, "FILLED", b), V2!Wrote(i, "OPEN", "FILLED"),
                     V2!Write("settled", i, r, 0), V2!Wrote(i, "FILLED", r)>>
        PROVE  w \in Seq(V2Write) /\ Even(w)
    <3>1. r \in V2!Statuses
      BY <1>3
    <3>2. V2!Write("settled", i, r, 0) \in V2Write /\ V2!Wrote(i, "FILLED", r) \in V2Write
      BY <1>1, <1>2, <1>3, <3>1
    <3>3. w \in Seq(V2Write)
      BY <2>2, <2>4, <3>2
    <3>4. Even(w)
      BY <2>4, V2Even, Zenon
    <3> QED BY <3>3, <3>4
  <2> QED BY <1>5, <2>1, <2>3, <2>4 DEF Fits
<1>6. CASE tickets[i].status = "OPEN" /\ ToExpire(i, w)
  <2>1. V2!Write("settled", i, "EXPIRED_NOT_FILLED", 0) \in V2Write /\ V2!Wrote(i, "OPEN", "EXPIRED_NOT_FILLED") \in V2Write
    BY <1>1, <1>2, <1>3
  <2>2. w \in Seq(V2Write)
    BY <1>6, <2>1 DEF ToExpire
  <2>3. Even(w)
    BY <1>6, V2Even, Zenon DEF ToExpire
  <2> QED BY <1>6, <2>2, <2>3 DEF Fits
<1>7. ASSUME tickets[i].status = "FILLED", NEW r \in V2!Results,
             w = <<V2!Write("settled", i, r, 0), V2!Wrote(i, "FILLED", r)>>
      PROVE  w \in Seq(V2Write) /\ Even(w) /\ (w # <<>> => Fits(i, w))
  <2>1. r \in V2!Statuses
    BY <1>3
  <2>2. V2!Write("settled", i, r, 0) \in V2Write /\ V2!Wrote(i, "FILLED", r) \in V2Write
    BY <1>1, <1>2, <1>3, <2>1
  <2>3. w \in Seq(V2Write)
    BY <1>7, <2>2
  <2>4. Even(w)
    BY <1>7, V2Even, Zenon
  <2>5. Fits(i, w)
    BY <1>7 DEF Fits, ToClose
  <2> QED BY <2>3, <2>4, <2>5
<1> QED BY <1>4, <1>5, <1>6, <1>7 DEF V2Shapes

(* With orders and events as they were, an order falls behind by what is no longer to be written. *)
LEMMA V2SettleOne == ASSUME V2Inv, V2!SettleOne PROVE V2Inv'
<1> USE V2Assumption
<1>1. /\ worker \in V2Worker /\ worker.is = "settle" /\ worker.writes = <<>> /\ worker.todo # {}
      /\ worker.new = <<>> /\ worker.plans = {} /\ \A i \in worker.todo : i \in V2!OpenOrders
      /\ UNCHANGED <<tape, alerts, tickets, trail, workerFaults>>
  BY Zenon DEF V2!SettleOne, V2Inv, V2Typed, V2Busy
<1>2. PICK i : i = V2!Oldest
  OBVIOUS
<1>3. i \in worker.todo
  <2>1. worker.todo \in SUBSET (1..Len(tickets)) /\ Len(tickets) \in Nat
    BY <1>1 DEF V2!OpenOrders, V2Inv, V2Typed
  <2> QED BY <1>1, <1>2, <2>1, V2Smallest, Zenon DEF V2!Oldest
<1>4. PICK w : w = IF V2!Relevant(i) = {} THEN <<>>
                   ELSE IF tickets[i].status = "OPEN" THEN V2!FillWrites(i) ELSE V2!FilledWrites(i)
  OBVIOUS
<1>5. V2Shapes(i, w)
  <2>1. i \in V2!OpenOrders
    BY <1>1, <1>3
  <2> QED BY <1>4, <2>1, V2Settled
<1>6. w \in Seq(V2Write) /\ Even(w) /\ (w # <<>> => Fits(i, w)) /\ i \in V2!OpenOrders /\ i \in 1..Len(tickets)
  <2>1. i \in V2!OpenOrders
    BY <1>1, <1>3
  <2> QED BY <1>5, <2>1, V2ShapeFits DEF V2!OpenOrders
<1>7. PICK d : d = worker.todo \ {i}
  BY Zenon
<1>8. PICK t : t = [is |-> worker.is, plans |-> worker.plans, new |-> worker.new, todo |-> d, writes |-> w]
  BY Zenon
<1>9. worker' = V2!Onward(t)
  <2>1. worker \in V2Worker
    BY <1>1
  <2>2. [worker EXCEPT !.todo = d, !.writes = w]
          = [is |-> worker.is, plans |-> worker.plans, new |-> worker.new, todo |-> d, writes |-> w]
    BY <2>1, V2SetsTodoWrites, Zenon
  <2>3. worker' = V2!Onward([worker EXCEPT !.todo = d, !.writes = w])
    <3>1. worker' = V2!Onward([worker EXCEPT !.todo = @ \ {i},
                  !.writes = IF V2!Relevant(i) = {} THEN <<>>
                             ELSE IF tickets[i].status = "OPEN" THEN V2!FillWrites(i)
                             ELSE V2!FilledWrites(i)])
      BY <1>2 DEF V2!SettleOne
    <3> QED BY <1>4, <1>7, <3>1, Zenon
  <2> QED BY <1>8, <2>2, <2>3
<1>10. t \in V2Worker /\ t.is = "settle" /\ t.writes = w /\ t.new = <<>> /\ t.plans = {} /\ t.todo = d
  BY <1>1, <1>6, <1>7, <1>8 DEF V2Worker
<1>11. V2!OpenOrders' = V2!OpenOrders /\ (w # <<>> => Fits(i, w)')
  <2>1. Fits(i, w)' <=> Fits(i, w)
    BY <1>1 DEF Fits, ToFill, ToClose, ToExpire, Fillable
  <2> QED BY <1>1, <1>6, <2>1 DEF V2!OpenOrders
<1>12. worker' \in V2Worker /\ V2Busy' /\ worker'.writes = w /\ worker'.new = <<>>
  <2>1. \A j \in t.todo : j \in V2!OpenOrders'
    BY <1>1, <1>7, <1>10, <1>11
  <2>2. t.writes # <<>> => \E j \in 1..Len(tickets') : j \notin t.todo /\ Fits(j, t.writes)'
    <3>1. t.writes # <<>> => i \notin t.todo /\ Fits(i, t.writes)' /\ i \in 1..Len(tickets')
      BY <1>1, <1>6, <1>7, <1>10, <1>11
    <3> QED BY <3>1
  <2>3. worker' \in V2Worker /\ V2Busy' /\ worker'.writes = t.writes /\ worker'.new = t.new
    BY <1>9, <1>10, <2>1, <2>2, V2Goes
  <2> QED BY <1>10, <2>3
<1>13. V2Typed'
  BY <1>1, <1>12 DEF V2Inv, V2Typed
<1>14. V2Filled' /\ V2!SignalsApart' /\ V2!OrdersCapped'
  BY <1>1 DEF V2Inv, V2Filled, V2!SignalsApart, Fillable, V2!OrdersCapped, V2!OpenOrders
<1>15. Cardinality(Behind') <= workerFaults'
  <2>1. ASSUME NEW j \in 1..Len(tickets'), Short(j)' PROVE j \in 1..Len(tickets) /\ Short(j)
    <3>1. PICK b, p, q : b = Cardinality(EventsOf(j)) /\ p = Cardinality(PutsIn(w, j)) /\ q = Cardinality(EventsIn(w, j))
      OBVIOUS
    <3>2. EventsOf(j)' = EventsOf(j) /\ PutsIn(worker.writes, j)' = PutsIn(w, j) /\ EventsIn(worker.writes, j)' = EventsIn(w, j)
          /\ V2!Transitions(j)' = V2!Transitions(j)
      BY <1>1, <1>12 DEF EventsOf, PutsIn, EventsIn, V2!Transitions
    <3>3. V2!Transitions(j) + p > b + q /\ p = q
      BY <1>6, <2>1, <3>1, <3>2 DEF Short, Even
    <3>4. b \in Nat /\ q \in Nat /\ V2!Transitions(j) \in Nat
      <4>1. Len(trail) \in Nat /\ EventsOf(j) \in SUBSET (1..Len(trail))
        BY DEF V2Inv, V2Typed, EventsOf
      <4>2. b \in Nat
        BY <3>1, <4>1, CountMore, Zenon
      <4>3. Len(w) \in Nat
        BY <1>6
      <4>4. q \in Nat
        BY <3>1, <4>3, V2Constants, FS_CardinalityType
      <4> QED BY <4>2, <4>4 DEF V2!Transitions
    <3>5. Cardinality(PutsIn(worker.writes, j)) = 0 /\ Cardinality(EventsIn(worker.writes, j)) = 0
      BY <1>1, V2NoneIn, FS_EmptySet, Zenon
    <3>6. Short(j)
      BY <3>1, <3>3, <3>4, <3>5 DEF Short
    <3> QED BY <1>1, <3>6
  <2> QED BY <1>1, <2>1, V2Kept
<1> QED BY <1>12, <1>13, <1>14, <1>15 DEF V2Inv

(* A task that drops its writes leaves one order behind at most. *)
LEMMA V2Drops ==
    ASSUME V2Inv, NEW t \in V2Worker, t.writes = <<>>, worker' \in V2Worker, worker'.writes = <<>>,
           UNCHANGED <<tickets, trail>>, workerFaults' = workerFaults + 1
    PROVE  Cardinality(Behind') <= workerFaults'
<1>1. PICK i : worker.writes # <<>> => Fits(i, worker.writes)
  BY DEF V2Inv, V2Busy
<1>2. \A k \in 1..Len(worker.writes) : worker.writes[k].data.order = i
  <2>1. CASE worker.writes = <<>>
    BY <2>1
  <2>2. CASE worker.writes # <<>>
    <3>1. Fits(i, worker.writes)
      BY <1>1, <2>2
    <3>2. PICK w : w = worker.writes
      OBVIOUS
    <3>3. ASSUME NEW b, ToFill(i, w) PROVE \A k \in 1..Len(w) : w[k].data.order = i
      BY <3>3 DEF ToFill, V2!Write, V2!Wrote, V2!Event
    <3>4. ASSUME ToClose(i, w) PROVE \A k \in 1..Len(w) : w[k].data.order = i
      BY <3>4 DEF ToClose, V2!Write, V2!Wrote, V2!Event
    <3>5. ASSUME ToExpire(i, w) PROVE \A k \in 1..Len(w) : w[k].data.order = i
      BY <3>5 DEF ToExpire, V2!Write, V2!Wrote, V2!Event
    <3>6. ASSUME NEW a, NEW b, w = <<V2!Wrote(i, a, b)>> PROVE \A k \in 1..Len(w) : w[k].data.order = i
      BY <3>6 DEF V2!Wrote, V2!Event
    <3>7. \/ \E a, b : w = <<V2!Wrote(i, a, b)>>
          \/ ToFill(i, w) \/ ToClose(i, w) \/ ToExpire(i, w)
      BY <3>1, <3>2, Zenon DEF Fits
    <3>8. \A k \in 1..Len(w) : w[k].data.order = i
      BY <3>3, <3>4, <3>5, <3>6, <3>7
    <3> QED BY <3>2, <3>8
  <2> QED BY <2>1, <2>2
<1>3. ASSUME NEW j \in 1..Len(tickets'), Short(j)', j # i PROVE j \in 1..Len(tickets) /\ Short(j)
  <2>1. PutsIn(worker.writes, j) = {} /\ EventsIn(worker.writes, j) = {}
    BY <1>2, <1>3 DEF PutsIn, EventsIn
  <2>2. PutsIn(worker.writes, j)' = {} /\ EventsIn(worker.writes, j)' = {}
    BY V2NoneIn DEF PutsIn, EventsIn
  <2>3. EventsOf(j)' = EventsOf(j) /\ V2!Transitions(j)' = V2!Transitions(j)
    BY DEF EventsOf, V2!Transitions
  <2>4. Short(j)
    BY <1>3, <2>1, <2>2, <2>3, Zenon DEF Short
  <2> QED BY <1>3, <2>4
<1> QED BY <1>3, V2OneMore, Zenon

LEMMA V2Rest ==
    ASSUME V2Inv, worker' \in V2Worker, Len(worker'.new) <= Len(worker.new),
           UNCHANGED <<tape, alerts, tickets, trail>>, workerFaults' \in 0..MaxFaults
    PROVE  V2Typed' /\ V2Filled' /\ V2!SignalsApart' /\ V2!OrdersCapped'
<1> USE V2Assumption
<1>1. V2Typed'
  <2>1. worker \in V2Worker
    BY DEF V2Inv, V2Typed
  <2>2. Len(worker.new) \in Nat /\ Len(worker'.new) \in Nat /\ Len(tickets) \in Nat /\ Len(alerts) \in Nat
    BY <2>1 DEF V2Inv, V2Typed, V2Worker
  <2>3. Len(tickets) + Len(worker.new) <= Len(alerts)
    BY DEF V2Inv, V2Typed
  <2>4. Len(tickets) + Len(worker'.new) <= Len(alerts)
    BY <2>2, <2>3
  <2> QED BY <2>4 DEF V2Inv, V2Typed
<1>2. V2Filled' /\ V2!SignalsApart' /\ V2!OrdersCapped'
  BY DEF V2Inv, V2Filled, V2!SignalsApart, Fillable, V2!OrdersCapped, V2!OpenOrders
<1> QED BY <1>1, <1>2

LEMMA V2Crash == ASSUME V2Inv, V2!Crash PROVE V2Inv'
<1> USE V2Assumption
<1>1. /\ worker \in V2Worker /\ worker' = V2!Idle /\ workerFaults' = workerFaults + 1
      /\ workerFaults < MaxFaults /\ workerFaults \in Nat
      /\ UNCHANGED <<tape, alerts, tickets, trail>>
  BY DEF V2!Crash, V2Inv, V2Typed
<1>2. V2!Idle \in V2Worker /\ V2!Idle.writes = <<>> /\ V2!Idle.new = <<>> /\ V2!Idle.is = "idle" /\ V2!Idle.todo = {}
  <2>1. [is |-> "idle", plans |-> {}, new |-> <<>>, todo |-> {}, writes |-> <<>>] \in V2Worker
    BY V2WorkerIs, V2WorkerEmpty, Zenon
  <2> QED BY <2>1 DEF V2!Idle
<1>3. V2Busy'
  BY <1>1, <1>2 DEF V2Busy
<1>4. V2Typed' /\ V2Filled' /\ V2!SignalsApart' /\ V2!OrdersCapped'
  <2>1. Len(worker'.new) <= Len(worker.new)
    BY <1>1, <1>2 DEF V2Worker
  <2>2. workerFaults' \in 0..MaxFaults
    BY <1>1
  <2> QED BY <1>1, <1>2, <2>1, <2>2, V2Rest
<1>5. Cardinality(Behind') <= workerFaults'
  <2>1. PICK t : t = V2!Idle
    OBVIOUS
  <2>2. t \in V2Worker /\ t.writes = <<>> /\ worker' = t
    BY <1>1, <1>2, <2>1
  <2>3. worker' \in V2Worker /\ worker'.writes = <<>>
    BY <1>1, <1>2
  <2> QED BY <1>1, <2>2, <2>3, V2Drops
<1> QED BY <1>3, <1>4, <1>5 DEF V2Inv

LEMMA V2SettleFails == ASSUME V2Inv, V2!SettleFails PROVE V2Inv'
<1> USE V2Assumption
<1>1. /\ worker \in V2Worker /\ worker.is = "settle" /\ workerFaults' = workerFaults + 1
      /\ workerFaults < MaxFaults /\ workerFaults \in Nat /\ worker.new = <<>> /\ worker.plans = {}
      /\ UNCHANGED <<tape, alerts, tickets, trail>>
      /\ \A i \in worker.todo : i \in V2!OpenOrders
  BY DEF V2!SettleFails, V2Inv, V2Typed, V2Busy
<1>2. PICK t : t = IF worker.writes # <<>> THEN [worker EXCEPT !.writes = <<>>]
                    ELSE [worker EXCEPT !.todo = @ \ {V2!Oldest}]
  BY Zenon
<1>3. t \in V2Worker /\ t.is = "settle" /\ t.new = <<>> /\ t.plans = {} /\ t.writes = <<>> /\ t.todo \subseteq worker.todo
  <2>0. worker \in V2Worker
    BY <1>1
  <2>1. CASE worker.writes # <<>>
    <3>1. [worker EXCEPT !.writes = <<>>]
            = [is |-> worker.is, plans |-> worker.plans, new |-> worker.new, todo |-> worker.todo, writes |-> <<>>]
      BY <2>0, V2WorkerSets, Zenon
    <3>2. t = [is |-> worker.is, plans |-> worker.plans, new |-> worker.new, todo |-> worker.todo, writes |-> <<>>]
      BY <1>2, <2>1, <3>1
    <3>3. worker.plans \in SUBSET Coins /\ worker.new \in Seq(Coins) /\ worker.todo \in SUBSET Nat
      BY <2>0 DEF V2Worker
    <3>4. t \in V2Worker
      BY <1>1, <3>2, <3>3, V2WorkerEmpty DEF V2Worker
    <3> QED BY <1>1, <3>2, <3>4
  <2>2. CASE worker.writes = <<>>
    <3>0. PICK d : d = worker.todo \ {V2!Oldest}
      BY Zenon
    <3>1. [worker EXCEPT !.todo = d]
            = [is |-> worker.is, plans |-> worker.plans, new |-> worker.new, todo |-> d, writes |-> worker.writes]
      BY <2>0, V2WorkerSets, Zenon
    <3>2. t = [worker EXCEPT !.todo = d]
      BY <1>2, <2>2, <3>0, Zenon
    <3>3. worker.plans \in SUBSET Coins /\ worker.new \in Seq(Coins) /\ worker.todo \in SUBSET Nat
          /\ d \in SUBSET Nat /\ d \subseteq worker.todo
      BY <2>0, <3>0 DEF V2Worker
    <3>4. t = [is |-> worker.is, plans |-> worker.plans, new |-> worker.new, todo |-> d, writes |-> worker.writes]
      BY <3>1, <3>2
    <3>5. t \in V2Worker
      BY <1>1, <2>2, <3>3, <3>4, V2WorkerEmpty DEF V2Worker
    <3> QED BY <1>1, <2>2, <3>3, <3>4, <3>5
  <2> QED BY <2>1, <2>2
<1>4. worker' = V2!Onward(t)
  BY <1>2, Zenon DEF V2!SettleFails
<1>5. worker' \in V2Worker /\ V2Busy' /\ worker'.writes = <<>> /\ worker'.new = <<>>
  <2>1. V2!OpenOrders' = V2!OpenOrders
    BY <1>1 DEF V2!OpenOrders
  <2>2. \A j \in t.todo : j \in V2!OpenOrders'
    BY <1>1, <1>3, <2>1
  <2>3. worker' \in V2Worker /\ V2Busy' /\ worker'.writes = t.writes /\ worker'.new = t.new
    BY <1>3, <1>4, <2>2, V2Goes
  <2> QED BY <1>3, <2>3
<1>6. V2Typed' /\ V2Filled' /\ V2!SignalsApart' /\ V2!OrdersCapped'
  <2>1. Len(worker'.new) <= Len(worker.new)
    BY <1>1, <1>5
  <2>2. workerFaults' \in 0..MaxFaults
    BY <1>1
  <2> QED BY <1>1, <1>5, <2>1, <2>2, V2Rest
<1>7. Cardinality(Behind') <= workerFaults'
  BY <1>1, <1>3, <1>5, V2Drops
<1> QED BY <1>5, <1>6, <1>7 DEF V2Inv

(* What a write does to its order, and what is left of the writes. *)
LEMMA V2Head ==
    ASSUME V2Inv, NEW w \in Seq(V2Write), w # <<>>, NEW i \in 1..Len(tickets), Fits(i, w)
    PROVE  /\ Head(w).data.order = i
           /\ \/ /\ Head(w).is = "event" /\ Head(w).data \in V2Event
                 /\ Tail(w) # <<>> => Fits(i, Tail(w))
              \/ /\ Head(w).is = "filled" /\ tickets[i].status = "OPEN" /\ Fillable(i, Head(w).data.bar)
                 /\ Head(w).data.bar \in Nat /\ ToClose(i, Tail(w))
              \/ /\ Head(w).is = "settled" /\ Head(w).data.status \in V2!Results \cup {"EXPIRED_NOT_FILLED"}
                 /\ Tail(w) # <<>> => \E was \in V2!Open : Tail(w) = <<V2!Wrote(i, was, Head(w).data.status)>>
                 /\ \/ tickets[i].status = "OPEN" /\ Head(w).data.status = "EXPIRED_NOT_FILLED"
                    \/ tickets[i].status = "FILLED" /\ Head(w).data.status \in V2!Results
<1>1. Head(w) \in V2Write
  OBVIOUS
<1>2. Head(w).is = "event" => Head(w).data \in V2Event
  BY <1>1 DEF V2Write
<1>3. \A a, b : /\ V2!Wrote(i, a, b).is = "event" /\ V2!Wrote(i, a, b).data.order = i
                /\ V2!Write("filled", i, a, b).is = "filled" /\ V2!Write("filled", i, a, b).data.order = i
                /\ V2!Write("settled", i, a, b).is = "settled" /\ V2!Write("settled", i, a, b).data.order = i
                /\ V2!Write("settled", i, a, b).data.status = a /\ V2!Write("filled", i, a, b).data.bar = b
  BY DEF V2!Wrote, V2!Write, V2!Event
<1>4. \A a, b, c, d : /\ Head(<<a>>) = a /\ Tail(<<a>>) = <<>> /\ Head(<<a, b>>) = a /\ Tail(<<a, b>>) = <<b>>
                      /\ Head(<<a, b, c>>) = a /\ Tail(<<a, b, c>>) = <<b, c>>
                      /\ Head(<<a, b, c, d>>) = a /\ Tail(<<a, b, c, d>>) = <<b, c, d>>
  OBVIOUS
<1>5. ASSUME NEW a, NEW b, w = <<V2!Wrote(i, a, b)>>
      PROVE  Head(w).data.order = i /\ Head(w).is = "event" /\ Tail(w) = <<>>
  BY <1>3, <1>4, <1>5
<1>6. CASE tickets[i].status = "OPEN" /\ ToFill(i, w)
  <2>1. PICK b \in Nat : /\ Fillable(i, b)
                         /\ \/ w = <<V2!Write("filled", i, "FILLED", b), V2!Wrote(i, "OPEN", "FILLED")>>
                            \/ \E r \in V2!Results :
                                 w = <<V2!Write("filled", i, "FILLED", b), V2!Wrote(i, "OPEN", "FILLED"),
                                       V2!Write("settled", i, r, 0), V2!Wrote(i, "FILLED", r)>>
    BY <1>6 DEF ToFill
  <2>2. Head(w) = V2!Write("filled", i, "FILLED", b)
       /\ \/ Tail(w) = <<V2!Wrote(i, "OPEN", "FILLED")>>
          \/ \E r \in V2!Results :
               Tail(w) = <<V2!Wrote(i, "OPEN", "FILLED"), V2!Write("settled", i, r, 0), V2!Wrote(i, "FILLED", r)>>
    <3>1. CASE w = <<V2!Write("filled", i, "FILLED", b), V2!Wrote(i, "OPEN", "FILLED")>>
      BY <1>4, <3>1
    <3>2. CASE \E r \in V2!Results :
                 w = <<V2!Write("filled", i, "FILLED", b), V2!Wrote(i, "OPEN", "FILLED"),
                       V2!Write("settled", i, r, 0), V2!Wrote(i, "FILLED", r)>>
      <4>1. PICK r \in V2!Results :
                 w = <<V2!Write("filled", i, "FILLED", b), V2!Wrote(i, "OPEN", "FILLED"),
                       V2!Write("settled", i, r, 0), V2!Wrote(i, "FILLED", r)>>
        BY <3>2
      <4>2. /\ Head(w) = V2!Write("filled", i, "FILLED", b)
            /\ Tail(w) = <<V2!Wrote(i, "OPEN", "FILLED"), V2!Write("settled", i, r, 0), V2!Wrote(i, "FILLED", r)>>
        BY <1>4, <4>1
      <4> QED BY <4>2
    <3> QED BY <2>1, <3>1, <3>2, Zenon
  <2>3. ToClose(i, Tail(w))
    BY <2>2 DEF ToClose
  <2>4. V2!Write("filled", i, "FILLED", b).is = "filled" /\ V2!Write("filled", i, "FILLED", b).data.order = i
        /\ V2!Write("filled", i, "FILLED", b).data.bar = b
    BY DEF V2!Write
  <2>5. Head(w).is = "filled" /\ Head(w).data.order = i /\ Head(w).data.bar = b
    BY <2>2, <2>4
  <2> QED BY <1>6, <2>1, <2>3, <2>5
<1>7. CASE tickets[i].status = "OPEN" /\ ToExpire(i, w)
  <2>1. Head(w) = V2!Write("settled", i, "EXPIRED_NOT_FILLED", 0) /\ Tail(w) = <<V2!Wrote(i, "OPEN", "EXPIRED_NOT_FILLED")>>
    BY <1>4, <1>7, Zenon DEF ToExpire
  <2>2. Head(w).is = "settled" /\ Head(w).data.order = i /\ Head(w).data.status = "EXPIRED_NOT_FILLED"
    BY <2>1 DEF V2!Write
  <2>3. "OPEN" \in V2!Open
    BY DEF V2!Open
  <2> QED BY <1>7, <2>1, <2>2, <2>3
<1>8. CASE tickets[i].status = "FILLED" /\ ToClose(i, w)
  <2>1. CASE w = <<V2!Wrote(i, "OPEN", "FILLED")>>
    BY <1>2, <1>5, <2>1
  <2>2. ASSUME NEW r \in V2!Results,
               w = <<V2!Wrote(i, "OPEN", "FILLED"), V2!Write("settled", i, r, 0), V2!Wrote(i, "FILLED", r)>>
        PROVE  Head(w).data.order = i /\ Head(w).is = "event" /\ Fits(i, Tail(w))
    <3>1. Head(w) = V2!Wrote(i, "OPEN", "FILLED") /\ Tail(w) = <<V2!Write("settled", i, r, 0), V2!Wrote(i, "FILLED", r)>>
      BY <1>4, <2>2
    <3>2. ToClose(i, Tail(w))
      BY <3>1, Zenon DEF ToClose
    <3>3. Head(w).data.order = i /\ Head(w).is = "event"
      BY <3>1 DEF V2!Wrote, V2!Event
    <3> QED BY <1>8, <3>2, <3>3 DEF Fits
  <2>3. ASSUME NEW r \in V2!Results, w = <<V2!Write("settled", i, r, 0), V2!Wrote(i, "FILLED", r)>>
        PROVE  /\ Head(w).data.order = i /\ Head(w).is = "settled" /\ Head(w).data.status = r
               /\ Tail(w) = <<V2!Wrote(i, "FILLED", r)>> /\ "FILLED" \in V2!Open
    <3>1. Head(w) = V2!Write("settled", i, r, 0) /\ Tail(w) = <<V2!Wrote(i, "FILLED", r)>>
      BY <1>4, <2>3, Zenon
    <3>2. Head(w).data.order = i /\ Head(w).is = "settled" /\ Head(w).data.status = r
      BY <3>1 DEF V2!Write
    <3> QED BY <3>1, <3>2 DEF V2!Open
  <2>4. \/ w = <<V2!Wrote(i, "OPEN", "FILLED")>>
        \/ \E r \in V2!Results : w = <<V2!Wrote(i, "OPEN", "FILLED"), V2!Write("settled", i, r, 0), V2!Wrote(i, "FILLED", r)>>
        \/ \E r \in V2!Results : w = <<V2!Write("settled", i, r, 0), V2!Wrote(i, "FILLED", r)>>
    BY <1>8 DEF ToClose
  <2>5. CASE \E r \in V2!Results : w = <<V2!Wrote(i, "OPEN", "FILLED"), V2!Write("settled", i, r, 0), V2!Wrote(i, "FILLED", r)>>
    <3>1. Head(w).data.order = i /\ Head(w).is = "event" /\ Fits(i, Tail(w))
      BY <2>2, <2>5
    <3> QED BY <1>2, <3>1
  <2>6. CASE \E r \in V2!Results : w = <<V2!Write("settled", i, r, 0), V2!Wrote(i, "FILLED", r)>>
    <3>1. PICK r \in V2!Results : w = <<V2!Write("settled", i, r, 0), V2!Wrote(i, "FILLED", r)>>
      BY <2>6
    <3>2. /\ Head(w).data.order = i /\ Head(w).is = "settled" /\ Head(w).data.status = r
          /\ Tail(w) = <<V2!Wrote(i, "FILLED", r)>> /\ "FILLED" \in V2!Open
      BY <2>3, <3>1
    <3>3. \E was \in V2!Open : Tail(w) = <<V2!Wrote(i, was, Head(w).data.status)>>
      BY <3>2, Zenon
    <3> QED BY <1>8, <3>1, <3>2, <3>3
  <2> QED BY <2>1, <2>4, <2>5, <2>6, Zenon
<1>9. CASE \E a, b : w = <<V2!Wrote(i, a, b)>>
  BY <1>2, <1>5, <1>9
<1> QED BY <1>6, <1>7, <1>8, <1>9, Zenon DEF Fits

LEMMA V2Shift ==
    ASSUME NEW w, NEW m, Len(m) = Len(w) - 1, Len(w) \in Nat, \A k \in 1..Len(m) : m[k] = w[k + 1], NEW j
    PROVE  /\ PutsIn(m, j) = {k \in 1..(Len(w) - 1) : k + 1 \in PutsIn(w, j)}
           /\ EventsIn(m, j) = {k \in 1..(Len(w) - 1) : k + 1 \in EventsIn(w, j)}
  BY DEF PutsIn, EventsIn
LEMMA V2Counts ==
    ASSUME NEW w, NEW m, Len(m) = Len(w) - 1, Len(w) \in Nat, \A k \in 1..Len(m) : m[k] = w[k + 1], NEW j
    PROVE  /\ Cardinality(PutsIn(w, j)) \in Nat /\ Cardinality(PutsIn(m, j)) \in Nat
           /\ Cardinality(PutsIn(w, j)) = Cardinality(PutsIn(m, j)) + IF 1 \in PutsIn(w, j) THEN 1 ELSE 0
           /\ Cardinality(EventsIn(w, j)) \in Nat /\ Cardinality(EventsIn(m, j)) \in Nat
           /\ Cardinality(EventsIn(w, j)) = Cardinality(EventsIn(m, j)) + IF 1 \in EventsIn(w, j) THEN 1 ELSE 0
<1>1. /\ PutsIn(m, j) = {k \in 1..(Len(w) - 1) : k + 1 \in PutsIn(w, j)}
      /\ EventsIn(m, j) = {k \in 1..(Len(w) - 1) : k + 1 \in EventsIn(w, j)}
  BY V2Shift
<1>2. PutsIn(w, j) \in SUBSET (1..Len(w)) /\ EventsIn(w, j) \in SUBSET (1..Len(w))
  BY DEF PutsIn, EventsIn
<1>3. PICK n : n = Len(w)
  OBVIOUS
<1>4. PICK p, q, pp, qq : /\ p = PutsIn(w, j) /\ q = EventsIn(w, j) /\ pp = PutsIn(m, j) /\ qq = EventsIn(m, j)
  OBVIOUS
<1>5. n \in Nat /\ p \in SUBSET (1..n) /\ q \in SUBSET (1..n)
      /\ pp = {k \in 1..(n - 1) : k + 1 \in p} /\ qq = {k \in 1..(n - 1) : k + 1 \in q}
  BY <1>1, <1>2, <1>3, <1>4, Zenon
<1>6. Cardinality(p) \in Nat /\ Cardinality(pp) \in Nat /\ Cardinality(p) = Cardinality(pp) + IF 1 \in p THEN 1 ELSE 0
  BY <1>5, CountTail, Zenon
<1>7. Cardinality(q) \in Nat /\ Cardinality(qq) \in Nat /\ Cardinality(q) = Cardinality(qq) + IF 1 \in q THEN 1 ELSE 0
  BY <1>5, CountTail, Zenon
<1> QED BY <1>4, <1>6, <1>7, Zenon

LEMMA V2WriteNext == ASSUME V2Inv, V2!WriteNext PROVE V2Inv'
<1> USE V2Assumption
<1>1. /\ worker \in V2Worker /\ worker.writes # <<>> /\ worker.is # "idle" /\ worker.is # "scan"
      /\ worker.is # "settle" => worker.todo = {}
      /\ worker.is = "settle" => worker.new = <<>> /\ worker.plans = {}
      /\ \A j \in worker.todo : j \in V2!OpenOrders
      /\ UNCHANGED <<tape, alerts, workerFaults>>
      /\ tickets \in Seq(V2Order) /\ Len(tickets) \in Nat /\ Len(tape) \in Nat
      /\ trail \in Seq(V2Event) /\ Len(trail) \in Nat /\ \A j \in 1..Len(tickets) : tickets[j] \in V2Order
  <2>1. /\ worker \in V2Worker /\ tickets \in Seq(V2Order) /\ trail \in Seq(V2Event) /\ tape \in Seq(V2Candles)
    BY Zenon DEF V2Inv, V2Typed
  <2>2. worker.writes # <<>> /\ UNCHANGED <<tape, alerts, workerFaults>>
    BY Zenon DEF V2!WriteNext
  <2>3. /\ worker.is # "idle" /\ worker.is # "scan"
        /\ worker.is # "settle" => worker.todo = {}
        /\ worker.is = "settle" => worker.new = <<>> /\ worker.plans = {}
        /\ \A j \in worker.todo : j \in V2!OpenOrders
    BY <2>2 DEF V2Inv, V2Busy, V2!Idle
  <2>4. Len(tickets) \in Nat /\ Len(tape) \in Nat /\ Len(trail) \in Nat /\ \A j \in 1..Len(tickets) : tickets[j] \in V2Order
    BY <2>1
  <2> QED BY <2>1, <2>2, <2>3, <2>4
<1>2. PICK w : w = worker.writes
  OBVIOUS
<1>3. w \in Seq(V2Write) /\ w # <<>>
  BY <1>1, <1>2 DEF V2Worker
<1>4. PICK i \in 1..Len(tickets) : i \notin worker.todo /\ Fits(i, w)
  BY <1>2, <1>3 DEF V2Inv, V2Busy
<1>5. PICK h, m : h = Head(w) /\ m = Tail(w)
  BY Zenon
<1>6. /\ h.data.order = i
      /\ \/ h.is = "event" /\ h.data \in V2Event /\ (m # <<>> => Fits(i, m))
         \/ /\ h.is = "filled" /\ tickets[i].status = "OPEN" /\ Fillable(i, h.data.bar)
            /\ h.data.bar \in Nat /\ ToClose(i, m)
         \/ /\ h.is = "settled" /\ h.data.status \in V2!Results \cup {"EXPIRED_NOT_FILLED"}
            /\ m # <<>> => \E was \in V2!Open : m = <<V2!Wrote(i, was, h.data.status)>>
            /\ \/ tickets[i].status = "OPEN" /\ h.data.status = "EXPIRED_NOT_FILLED"
               \/ tickets[i].status = "FILLED" /\ h.data.status \in V2!Results
  BY <1>3, <1>4, <1>5, V2Head
<1>7. m \in Seq(V2Write) /\ Len(m) = Len(w) - 1 /\ Len(w) \in Nat /\ h = w[1]
      /\ \A k \in 1..Len(m) : m[k] = w[k + 1]
  BY <1>3, <1>5
<1>8. PICK t : t = [is |-> worker.is, plans |-> worker.plans, new |-> worker.new, todo |-> worker.todo, writes |-> m]
  BY Zenon
<1>9. worker' = V2!Onward(t)
  <2>0. worker \in V2Worker
    BY <1>1
  <2>1. [worker EXCEPT !.writes = m]
          = [is |-> worker.is, plans |-> worker.plans, new |-> worker.new, todo |-> worker.todo, writes |-> m]
    BY <2>0, V2WorkerSets, Zenon
  <2>2. worker' = V2!Onward([worker EXCEPT !.writes = Tail(@)])
    BY Zenon DEF V2!WriteNext
  <2>3. [worker EXCEPT !.writes = Tail(@)] = [worker EXCEPT !.writes = m]
    BY <1>2, <1>5, Zenon
  <2> QED BY <1>8, <2>1, <2>2, <2>3
<1>10. t \in V2Worker /\ t.is = worker.is /\ t.new = worker.new /\ t.plans = worker.plans
       /\ t.todo = worker.todo /\ t.writes = m
  BY <1>1, <1>7, <1>8 DEF V2Worker
<1>13. \A j : /\ Cardinality(PutsIn(w, j)) \in Nat /\ Cardinality(PutsIn(m, j)) \in Nat
              /\ Cardinality(PutsIn(w, j)) = Cardinality(PutsIn(m, j)) + IF 1 \in PutsIn(w, j) THEN 1 ELSE 0
              /\ Cardinality(EventsIn(w, j)) \in Nat /\ Cardinality(EventsIn(m, j)) \in Nat
              /\ Cardinality(EventsIn(w, j)) = Cardinality(EventsIn(m, j)) + IF 1 \in EventsIn(w, j) THEN 1 ELSE 0
  BY <1>7, V2Counts, Zenon
(* What is written. *)
<1>11. CASE h.is = "event"
  <2>1. trail' = Append(trail, h.data) /\ tickets' = tickets
    BY <1>2, <1>5, <1>11, Zenon DEF V2!WriteNext
  <2>2. h.data \in V2Event /\ (m # <<>> => Fits(i, m))
    BY <1>6, <1>11
  <2>3. trail' \in Seq(V2Event) /\ Len(trail') = Len(trail) + 1 /\ trail'[Len(trail) + 1] = h.data
        /\ \A k \in 1..Len(trail) : trail'[k] = trail[k]
    BY <1>1, <2>1, <2>2
  <2>4. V2!OpenOrders' = V2!OpenOrders /\ (m # <<>> => Fits(i, m)')
    <3>1. Fits(i, m)' <=> Fits(i, m)
      BY <1>1, <2>1 DEF Fits, ToFill, ToClose, ToExpire, Fillable
    <3> QED BY <2>1, <2>2, <3>1 DEF V2!OpenOrders
  <2>5. worker' \in V2Worker /\ V2Busy' /\ worker'.writes = m /\ worker'.new = worker.new
    <3>1. \A j \in t.todo : j \in V2!OpenOrders'
      BY <1>1, <1>10, <2>4
    <3>2. t.writes # <<>> => \E j \in 1..Len(tickets') : j \notin t.todo /\ Fits(j, t.writes)'
      <4>1. t.writes # <<>> => i \notin t.todo /\ Fits(i, t.writes)' /\ i \in 1..Len(tickets')
        BY <1>4, <1>10, <2>1, <2>4
      <4> QED BY <4>1
    <3>3. worker' \in V2Worker /\ V2Busy' /\ worker'.writes = t.writes /\ worker'.new = t.new
      BY <1>1, <1>9, <1>10, <3>1, <3>2, V2Goes
    <3> QED BY <1>10, <3>3
  <2>6. V2Typed'
    <3>1. \A k \in 1..Len(trail') : trail'[k].order \in 1..Len(tickets')
      <4>1. \A k \in 1..Len(trail') : k \in 1..Len(trail) \/ k = Len(trail) + 1
        BY <1>1, <2>3
      <4>2. \A k \in 1..Len(trail) : trail[k].order \in 1..Len(tickets)
        BY DEF V2Inv, V2Typed
      <4> QED BY <1>4, <1>6, <2>1, <2>3, <4>1, <4>2
    <3> QED BY <1>1, <2>1, <2>3, <2>5, <3>1, Zenon DEF V2Inv, V2Typed
  <2>7. V2Filled' /\ V2!SignalsApart' /\ V2!OrdersCapped'
    BY <1>1, <2>1 DEF V2Inv, V2Filled, V2!SignalsApart, Fillable, V2!OrdersCapped, V2!OpenOrders
  <2>8. Cardinality(Behind') <= workerFaults'
    <3>1. ASSUME NEW j \in 1..Len(tickets'), Short(j)' PROVE j \in 1..Len(tickets) /\ Short(j)
      <4>1. PICK b, c, p, q, pp, qq : /\ b = EventsOf(j) /\ c = EventsOf(j)' /\ p = PutsIn(w, j) /\ q = EventsIn(w, j)
                                     /\ pp = PutsIn(m, j) /\ qq = EventsIn(m, j)
        OBVIOUS
      <4>2. b \in SUBSET (1..Len(trail)) /\ p \in SUBSET (1..Len(w)) /\ q \in SUBSET (1..Len(w))
        BY <4>1 DEF EventsOf, PutsIn, EventsIn
      <4>3. c = IF j = i THEN b \cup {Len(trail) + 1} ELSE b
        <5>1. \A k \in 1..Len(trail') : k \in 1..Len(trail) \/ k = Len(trail) + 1
          BY <1>1, <2>3
        <5>2. 1..Len(trail) \subseteq 1..Len(trail') /\ Len(trail) + 1 \in 1..Len(trail')
          BY <1>1, <2>3
        <5>3. \A k \in 1..Len(trail) : trail'[k].order = j <=> trail[k].order = j
          BY <2>3
        <5>4. trail'[Len(trail) + 1].order = j <=> i = j
          BY <1>6, <2>3
        <5>5. c = {k \in 1..Len(trail') : trail'[k].order = j}
          BY <4>1 DEF EventsOf
        <5>6. b = {k \in 1..Len(trail) : trail[k].order = j}
          BY <4>1 DEF EventsOf
        <5> QED BY <5>1, <5>2, <5>3, <5>4, <5>5, <5>6, Zenon
      <4>4. 1 \notin p
        BY <1>7, <1>11, <4>1 DEF PutsIn
      <4>5. 1 \in q <=> i = j
        <5>1. 1 \in 1..Len(w) /\ w[1].data.order = i /\ w[1].is = "event"
          BY <1>3, <1>6, <1>7, <1>11
        <5> QED BY <4>1, <5>1 DEF EventsIn
      <4>6. Cardinality(b) \in Nat /\ Cardinality(b \cup {Len(trail) + 1}) = Cardinality(b) + 1
        BY <1>1, <4>2, CountMore, Zenon
      <4>7. Cardinality(p) \in Nat /\ Cardinality(pp) \in Nat /\ Cardinality(p) = Cardinality(pp) + IF 1 \in p THEN 1 ELSE 0
        BY <1>13, <4>1, Zenon
      <4>8. Cardinality(q) \in Nat /\ Cardinality(qq) \in Nat /\ Cardinality(q) = Cardinality(qq) + IF 1 \in q THEN 1 ELSE 0
        BY <1>13, <4>1, Zenon
      <4>9. V2!Transitions(j)' = V2!Transitions(j) /\ V2!Transitions(j) \in Nat
        BY <2>1 DEF V2!Transitions
      <4>10. PutsIn(worker.writes, j)' = pp /\ EventsIn(worker.writes, j)' = qq
        BY <2>5, <4>1 DEF PutsIn, EventsIn
      <4>11. V2!Transitions(j) + Cardinality(pp) > Cardinality(c) + Cardinality(qq)
        BY <3>1, <4>1, <4>9, <4>10 DEF Short
      <4>12. Cardinality(c) = Cardinality(b) + IF j = i THEN 1 ELSE 0
        <5>1. CASE j = i
          BY <4>3, <4>6, <5>1
        <5>2. CASE j # i
          BY <4>3, <4>6, <5>2
        <5> QED BY <5>1, <5>2
      <4>13. V2!Transitions(j) + Cardinality(p) > Cardinality(b) + Cardinality(q)
        BY <4>4, <4>5, <4>6, <4>7, <4>8, <4>9, <4>11, <4>12
      <4>14. Short(j)
        BY <1>2, <4>1, <4>13 DEF Short
      <4> QED BY <2>1, <4>14
    <3> QED BY <1>1, <3>1, V2Kept
  <2> QED BY <2>5, <2>6, <2>7, <2>8 DEF V2Inv
<1>12. CASE h.is \in {"filled", "settled"}
  <2>1. /\ trail' = trail /\ Len(tickets') = Len(tickets) /\ tickets' \in Seq(V2Order)
        /\ \A j \in 1..Len(tickets) : j # i => tickets'[j] = tickets[j]
        /\ tickets'[i].symbol = tickets[i].symbol /\ tickets'[i].created = tickets[i].created
        /\ h.is = "filled" => tickets'[i].status = "FILLED" /\ tickets'[i].filled = h.data.bar
        /\ h.is = "settled" => tickets'[i].status = h.data.status /\ tickets'[i].filled = tickets[i].filled
    <3>1. PICK o : o = tickets[i]
      OBVIOUS
    <3>2. o \in V2Order
      BY <1>1, <3>1
    <3>3. PICK u : /\ h.is = "filled" => u = [symbol |-> o.symbol, created |-> o.created, status |-> "FILLED", filled |-> h.data.bar]
                   /\ h.is = "settled" => u = [symbol |-> o.symbol, created |-> o.created, status |-> h.data.status, filled |-> o.filled]
      BY <1>12, Zenon
    <3>4. u \in V2Order
      BY <1>6, <1>12, <3>2, <3>3 DEF V2Order, V2!Statuses, V2!Open, V2!Results
    <3>5. tickets' = [tickets EXCEPT ![i] = u] /\ trail' = trail
      <4>1. CASE h.is = "filled"
        <5>1. tickets' = [tickets EXCEPT ![i].status = "FILLED", ![i].filled = h.data.bar] /\ trail' = trail
          BY <1>2, <1>5, <1>6, <4>1, Zenon DEF V2!WriteNext
        <5>2. u = [[o EXCEPT !.status = "FILLED"] EXCEPT !.filled = h.data.bar]
          <6>1. [o EXCEPT !.status = "FILLED"] = [symbol |-> o.symbol, created |-> o.created, status |-> "FILLED", filled |-> o.filled]
            BY <3>2 DEF V2Order
          <6>2. PICK v, b, x, y, z : v = [o EXCEPT !.status = "FILLED"] /\ b = h.data.bar
                                     /\ x = o.symbol /\ y = o.created /\ z = o.filled
            BY Zenon
          <6>3. v = [symbol |-> x, created |-> y, status |-> "FILLED", filled |-> z]
            BY <6>1, <6>2
          <6>4. [v EXCEPT !.filled = b] = [symbol |-> x, created |-> y, status |-> "FILLED", filled |-> b]
            BY <6>3
          <6> QED BY <3>3, <4>1, <6>2, <6>4
        <5>3. [tickets EXCEPT ![i].status = "FILLED", ![i].filled = h.data.bar] = [tickets EXCEPT ![i] = u]
          BY <1>1, <1>4, <3>1, <5>2, Zenon
        <5> QED BY <5>1, <5>3
      <4>2. CASE h.is = "settled"
        <5>1. tickets' = [tickets EXCEPT ![i].status = h.data.status] /\ trail' = trail
          BY <1>2, <1>5, <1>6, <4>2, Zenon DEF V2!WriteNext
        <5>2. u = [o EXCEPT !.status = h.data.status]
          BY <3>2, <3>3, <4>2 DEF V2Order
        <5> QED BY <3>1, <5>1, <5>2
      <4> QED BY <1>12, <4>1, <4>2
    <3>6. tickets' \in Seq(V2Order) /\ Len(tickets') = Len(tickets) /\ tickets'[i] = u
          /\ \A j \in 1..Len(tickets) : j # i => tickets'[j] = tickets[j]
      BY <1>1, <1>4, <3>4, <3>5
    <3> QED BY <1>12, <3>1, <3>3, <3>5, <3>6
  <2>2. \/ h.is = "filled" /\ tickets[i].status = "OPEN" /\ Fillable(i, h.data.bar) /\ h.data.bar \in Nat /\ ToClose(i, m)
        \/ /\ h.is = "settled" /\ h.data.status \in V2!Results \cup {"EXPIRED_NOT_FILLED"}
           /\ m # <<>> => \E was \in V2!Open : m = <<V2!Wrote(i, was, h.data.status)>>
           /\ \/ tickets[i].status = "OPEN" /\ h.data.status = "EXPIRED_NOT_FILLED"
              \/ tickets[i].status = "FILLED" /\ h.data.status \in V2!Results
    BY <1>6, <1>12
  <2>3. \A j \in V2!OpenOrders' : j \in V2!OpenOrders
    BY <1>1, <2>1, <2>2 DEF V2!OpenOrders, V2!Open, V2!Results
  <2>4. \A j \in V2!OpenOrders : j # i => j \in V2!OpenOrders'
    BY <1>1, <2>1 DEF V2!OpenOrders
  <2>5. m # <<>> => Fits(i, m)'
    <3>1. CASE h.is = "filled"
      <4>1. ToClose(i, m)' /\ tickets'[i].status = "FILLED"
        BY <2>1, <2>2, <3>1 DEF ToClose
      <4> QED BY <4>1 DEF Fits
    <3>2. CASE h.is = "settled"
      <4>1. tickets'[i].status = h.data.status
        BY <2>1, <3>2
      <4> QED BY <2>2, <3>2, <4>1 DEF Fits
    <3> QED BY <1>12, <3>1, <3>2
  <2>6. worker' \in V2Worker /\ V2Busy' /\ worker'.writes = m /\ worker'.new = worker.new
    <3>1. \A j \in t.todo : j \in V2!OpenOrders'
      BY <1>1, <1>4, <1>10, <2>4
    <3>2. t.writes # <<>> => \E j \in 1..Len(tickets') : j \notin t.todo /\ Fits(j, t.writes)'
      <4>1. t.writes # <<>> => i \notin t.todo /\ Fits(i, t.writes)' /\ i \in 1..Len(tickets')
        BY <1>4, <1>10, <2>1, <2>5
      <4> QED BY <4>1
    <3>3. worker' \in V2Worker /\ V2Busy' /\ worker'.writes = t.writes /\ worker'.new = t.new
      BY <1>1, <1>9, <1>10, <3>1, <3>2, V2Goes
    <3> QED BY <1>10, <3>3
  <2>7. \A j \in 1..Len(tickets) : tickets'[j].created = tickets[j].created /\ tickets'[j].symbol = tickets[j].symbol
    BY <2>1
  <2>8. V2Filled'
    <3>1. \A j \in 1..Len(tickets), b \in Nat : Fillable(j, b)' <=> Fillable(j, b)
      BY <1>1, <2>7 DEF Fillable
    <3>2. ASSUME NEW j \in 1..Len(tickets)
          PROVE  /\ tickets'[j].status = "OPEN" => tickets'[j].filled = 0
                 /\ tickets'[j].status \in V2!Results \cup {"FILLED"} => Fillable(j, tickets[j].filled)'
      <4>1. /\ tickets[j].status = "OPEN" => tickets[j].filled = 0
            /\ tickets[j].status \in V2!Results \cup {"FILLED"} => Fillable(j, tickets[j].filled)
        BY DEF V2Inv, V2Filled
      <4>2. CASE j # i
        BY <1>1, <2>1, <2>7, <4>1, <4>2 DEF Fillable
      <4>3. CASE j = i /\ h.is = "filled"
        BY <1>1, <2>1, <2>2, <2>7, <4>3 DEF Fillable, V2!Results
      <4>4. CASE j = i /\ h.is = "settled"
        BY <1>1, <2>1, <2>2, <2>7, <4>1, <4>4 DEF Fillable, V2!Results
      <4> QED BY <1>12, <4>2, <4>3, <4>4
    <3> QED BY <2>1, <3>2 DEF V2Filled
  <2>9. V2Typed'
    <3>1. Fillable(i, h.data.bar) => h.data.bar <= Len(tape)
      BY <1>1 DEF Fillable, V2Order
    <3>2. \A j \in 1..Len(tickets') : tickets'[j].created <= Len(tape') /\ tickets'[j].filled <= Len(tape')
      <4>1. \A j \in 1..Len(tickets) : tickets[j].created <= Len(tape) /\ tickets[j].filled <= Len(tape)
        BY Zenon DEF V2Inv, V2Typed
      <4>2. \A j \in 1..Len(tickets) : j # i => tickets'[j].created <= Len(tape') /\ tickets'[j].filled <= Len(tape')
        BY <1>1, <2>1, <4>1
      <4>3. tickets'[i].created <= Len(tape') /\ tickets'[i].filled <= Len(tape')
        BY <1>1, <2>1, <2>2, <3>1, <4>1
      <4> QED BY <2>1, <4>2, <4>3
    <3>3. /\ tape' \in Seq(V2Candles) /\ Len(tape') <= V2End /\ alerts' \in Seq(V2Alert) /\ Len(alerts') <= MaxSignals
          /\ \A k \in 1..Len(alerts') : alerts'[k].at <= Len(tape')
          /\ Len(tickets') + Len(worker'.new) <= Len(alerts')
          /\ trail' \in Seq(V2Event) /\ \A k \in 1..Len(trail') : trail'[k].order \in 1..Len(tickets')
          /\ workerFaults' \in 0..MaxFaults
      BY <1>1, <2>1, <2>6 DEF V2Inv, V2Typed
    <3> QED BY <2>1, <2>6, <3>2, <3>3 DEF V2Typed
  <2>10. V2!OrdersCapped'
    <3>1. PICK o, oo : o = V2!OpenOrders /\ oo = V2!OpenOrders'
      OBVIOUS
    <3>2. oo \in SUBSET o /\ o \in SUBSET (1..Len(tickets))
      BY <2>3, <3>1 DEF V2!OpenOrders
    <3>3. IsFiniteSet(o)
      BY <1>1, <3>2, CountMore, Zenon
    <3>4. Cardinality(oo) <= Cardinality(o) /\ Cardinality(oo) \in Nat /\ Cardinality(o) \in Nat
      BY <3>2, <3>3, CountLess, Zenon
    <3>5. Cardinality(o) <= MaxOpen
      BY <3>1, V2Constants DEF V2Inv, V2!OrdersCapped
    <3>6. Cardinality(oo) <= MaxOpen
      BY <3>4, <3>5
    <3>7. \A j, k \in oo : tickets'[j].symbol = tickets'[k].symbol => j = k
      BY <2>7, <3>1, <3>2 DEF V2Inv, V2!OrdersCapped
    <3> QED BY <3>1, <3>6, <3>7, V2Constants DEF V2!OrdersCapped
  <2>11. V2!SignalsApart'
    BY <1>1, Zenon DEF V2Inv, V2!SignalsApart
  <2>12. Cardinality(Behind') <= workerFaults'
    <3>1. ASSUME NEW j \in 1..Len(tickets'), Short(j)' PROVE j \in 1..Len(tickets) /\ Short(j)
      <4>1. PICK p, q, pp, qq : /\ p = PutsIn(w, j) /\ q = EventsIn(w, j) /\ pp = PutsIn(m, j) /\ qq = EventsIn(m, j)
        OBVIOUS
      <4>2. p \in SUBSET (1..Len(w)) /\ q \in SUBSET (1..Len(w)) /\ EventsOf(j) \in SUBSET (1..Len(trail))
        BY <4>1 DEF EventsOf, PutsIn, EventsIn
      <4>3. EventsOf(j)' = EventsOf(j)
        BY <2>1 DEF EventsOf
      <4>4. 1 \in p <=> i = j
        <5>1. 1 \in 1..Len(w) /\ w[1].data.order = i /\ w[1].is # "event"
          BY <1>3, <1>6, <1>7, <1>12
        <5> QED BY <4>1, <5>1 DEF PutsIn
      <4>5. 1 \notin q
        BY <1>7, <1>12, <4>1 DEF EventsIn
      <4>6. Cardinality(EventsOf(j)) \in Nat
        BY <1>1, <4>2, CountMore, Zenon
      <4>7. Cardinality(p) \in Nat /\ Cardinality(pp) \in Nat /\ Cardinality(p) = Cardinality(pp) + IF 1 \in p THEN 1 ELSE 0
        BY <1>13, <4>1, Zenon
      <4>8. Cardinality(q) \in Nat /\ Cardinality(qq) \in Nat /\ Cardinality(q) = Cardinality(qq) + IF 1 \in q THEN 1 ELSE 0
        BY <1>13, <4>1, Zenon
      <4>9. /\ V2!Transitions(j) \in Nat
            /\ V2!Transitions(j)' = V2!Transitions(j) + IF j = i THEN 1 ELSE 0
        <5>1. CASE j # i
          BY <2>1, <3>1, <5>1 DEF V2!Transitions
        <5>2. CASE j = i /\ h.is = "filled"
          <6>1. tickets[i].filled = 0
            BY <2>2, <5>2 DEF V2Inv, V2Filled
          <6>2. h.data.bar > 0
            <7>1. tickets[i].created \in Nat
              BY <1>1, Zenon DEF V2Order
            <7>2. h.data.bar \in (tickets[i].created + 1)..Len(tape) /\ Len(tape) \in Nat
              BY <1>1, <2>2, <5>2, Zenon DEF Fillable
            <7> QED BY <7>1, <7>2
          <6> QED BY <2>1, <2>2, <5>2, <6>1, <6>2 DEF V2!Transitions, V2!Open
        <5>3. CASE j = i /\ h.is = "settled"
          BY <2>1, <2>2, <5>3 DEF V2!Transitions, V2!Open, V2!Results
        <5> QED BY <1>12, <5>1, <5>2, <5>3
      <4>10. PutsIn(worker.writes, j)' = pp /\ EventsIn(worker.writes, j)' = qq
        BY <2>6, <4>1 DEF PutsIn, EventsIn
      <4>11. V2!Transitions(j)' + Cardinality(pp) > Cardinality(EventsOf(j)) + Cardinality(qq)
        BY <3>1, <4>1, <4>3, <4>10 DEF Short
      <4>13. V2!Transitions(j) + Cardinality(p) > Cardinality(EventsOf(j)) + Cardinality(q)
        BY <4>4, <4>5, <4>6, <4>7, <4>8, <4>9, <4>11
      <4>14. Short(j)
        BY <1>2, <4>1, <4>13 DEF Short
      <4> QED BY <2>1, <3>1, <4>14
    <3> QED BY <1>1, <3>1, V2Kept
  <2> QED BY <2>6, <2>8, <2>9, <2>10, <2>11, <2>12 DEF V2Inv
<1> QED BY <1>6, <1>11, <1>12

LEMMA V2Step == ASSUME V2Inv, [V2!Next]_v2Vars PROVE V2Inv'
<1>1. CASE UNCHANGED v2Vars
  <2>1. UNCHANGED <<tape, alerts, tickets, trail, worker, workerFaults>>
    BY <1>1 DEF v2Vars
  <2>2. worker' \in V2Worker /\ V2Busy'
    <3>1. V2!OpenOrders' = V2!OpenOrders
      BY <2>1 DEF V2!OpenOrders
    <3>2. \A i, w : Fits(i, w)' <=> Fits(i, w)
      BY <2>1 DEF Fits, ToFill, ToClose, ToExpire, Fillable
    <3>3. worker'.writes # <<>> => \E i \in 1..Len(tickets') : i \notin worker'.todo /\ Fits(i, worker.writes)'
      <4>1. PICK w : w = worker.writes
        OBVIOUS
      <4>2. w # <<>> => \E i \in 1..Len(tickets) : i \notin worker.todo /\ Fits(i, w)
        BY <4>1 DEF V2Inv, V2Busy
      <4>3. w # <<>> => \E i \in 1..Len(tickets') : i \notin worker'.todo /\ Fits(i, w)'
        BY <2>1, <3>2, <4>2
      <4>4. worker'.writes = w
        BY <2>1, <4>1
      <4> QED BY <4>3, <4>4
    <3> QED BY <2>1, <3>1, <3>3 DEF V2Inv, V2Typed, V2Busy
  <2>3. V2Typed' /\ V2Filled' /\ V2!SignalsApart'
    BY <2>1 DEF V2Inv, V2Typed, V2Filled, V2!SignalsApart, Fillable
  <2> QED BY <2>1, <2>2, <2>3, V2Same DEF V2Inv
<1>2. CASE V2!Next
  BY <1>2, V2Starts, V2SaveSignal, V2SaveOrder, V2SettleOne, V2SettleFails, V2WriteNext, V2Crash, V2Tick
     DEF V2!Next, V2!Scan
<1> QED BY <1>1, <1>2

(* The research desks. *)
DeskTrade == [opened : Nat, status : Desk!Statuses]
DeskReview == [created : Nat, trade : BOOLEAN, should : BOOLEAN]
DeskCommand == [left : 0..Passing, count : 0..Cap, todo : SUBSET Nat]
DeskTyped ==
  /\ day \in 0..DeskEnd /\ failures \in 0..MaxFaults
  /\ macro \in Seq(DeskTrade) /\ \A i \in 1..Len(macro) : macro[i].opened <= day
  /\ verdicts \in Seq(DeskReview) /\ \A k \in 1..Len(verdicts) : verdicts[k].created <= day
  /\ Len(macro) + Len(verdicts) <= Room
  /\ commands \in [Desk!Commands -> DeskCommand]
  /\ \A c \in Desk!Commands : commands[c].todo \subseteq 1..Len(macro)
(* A running scan has counted every open trade, or more, and still has room. *)
DeskCounted ==
  /\ Desk!Busy("scan") => Cardinality(Desk!OpenTrades) <= commands["scan"].count /\ commands["scan"].count < Cap
                          /\ commands["scan"].left > 0
  /\ Cardinality(Desk!OpenTrades) <= Cap
DeskAgreed == \A j, k \in 1..Len(verdicts) : verdicts[j].trade /\ verdicts[k].trade => j = k
DeskInv == DeskTyped /\ DeskCounted /\ DeskAgreed

LEMMA DeskConstants ==
    /\ \A S : Desk!Cardinality(S) = Cardinality(S)
    /\ Room \in Nat
<1> USE BoardAssumption
<1>1. \A S : Desk!Cardinality(S) = Cardinality(S)
  BY DEF Desk!Cardinality, Cardinality
<1>2. Cardinality(Coins) \in Nat
  BY FS_CardinalityType
<1> QED BY <1>1, <1>2 DEF Room

LEMMA DeskMeans == ASSUME DeskInv PROVE Desk!TypeOK /\ Desk!OpenCapped /\ Desk!OneRecommendation
<1> USE DeskAssumption
<1>1. Desk!TypeOK
  <2>1. \A i \in 1..Len(macro) : macro[i] \in DeskTrade
    BY DEF DeskInv, DeskTyped
  <2>2. \A k \in 1..Len(verdicts) : verdicts[k] \in DeskReview
    BY DEF DeskInv, DeskTyped
  <2>3. \A c \in Desk!Commands : commands[c] \in DeskCommand
    BY DEF DeskInv, DeskTyped
  <2>4. \A i \in 1..Len(macro) : macro[i].opened \in 0..day /\ macro[i].status \in Desk!Statuses
    BY <2>1 DEF DeskInv, DeskTyped, DeskTrade
  <2>5. \A k \in 1..Len(verdicts) : verdicts[k].created \in 0..day /\ {verdicts[k].trade, verdicts[k].should} \subseteq BOOLEAN
    BY <2>2 DEF DeskInv, DeskTyped, DeskReview
  <2>6. \A c \in Desk!Commands : commands[c].left \in 0..Passing /\ commands[c].count \in 0..Cap
                                 /\ commands[c].todo \subseteq 1..Len(macro)
    BY <2>3 DEF DeskInv, DeskTyped, DeskCommand
  <2> QED BY <2>4, <2>5, <2>6 DEF Desk!TypeOK, Desk!Ids, DeskInv, DeskTyped
<1>2. Desk!OpenCapped
  BY DeskConstants DEF DeskInv, DeskCounted, Desk!OpenCapped
<1>3. Desk!OneRecommendation
  <2>1. PICK S : S = {k \in 1..Len(verdicts) : verdicts[k].trade}
    BY Zenon
  <2>2. \A x, y \in S : x = y
    BY <2>1 DEF DeskInv, DeskAgreed
  <2>3. Cardinality(S) <= 1
    BY <2>2, OneAtMost
  <2> QED BY <2>1, <2>3, DeskConstants DEF Desk!OneRecommendation
<1> QED BY <1>1, <1>2, <1>3

LEMMA DeskInit == ASSUME Desk!Init PROVE DeskInv
<1> USE DeskAssumption DEF Desk!Init
<1>1. Desk!Quiet \in DeskCommand /\ Desk!Quiet.todo = {}
  BY DEF Desk!Quiet, DeskCommand
<1>2. DeskTyped
  BY <1>1, DeskConstants DEF DeskTyped
<1>3. DeskCounted
  <2>1. ~Desk!Busy("scan")
    BY DEF Desk!Busy, Desk!Commands
  <2>2. Desk!OpenTrades = {}
    BY DEF Desk!OpenTrades, Desk!Ids
  <2> QED BY <2>1, <2>2, FS_EmptySet DEF DeskCounted
<1> QED BY <1>2, <1>3 DEF DeskInv, DeskAgreed

LEMMA DeskFinite ==
    ASSUME DeskInv
    PROVE  /\ Len(macro) \in Nat /\ Desk!OpenTrades \in SUBSET (1..Len(macro))
           /\ IsFiniteSet(Desk!OpenTrades) /\ Cardinality(Desk!OpenTrades) \in Nat
<1>1. Len(macro) \in Nat /\ Desk!OpenTrades \in SUBSET (1..Len(macro))
  BY DEF DeskInv, DeskTyped, Desk!OpenTrades, Desk!Ids
<1> QED BY <1>1, CountMore, Zenon

(* A step of a command that leaves the table as it was, or closes a trade. *)
LEMMA DeskCloses ==
    ASSUME DeskInv, NEW i, macro' = macro \/ (i \in 1..Len(macro) /\ \E s \in Desk!Statuses \ {"OPEN"} : macro' = [macro EXCEPT ![i].status = s])
    PROVE  /\ macro' \in Seq(DeskTrade) /\ Len(macro') = Len(macro) /\ \A j \in 1..Len(macro) : macro'[j].opened = macro[j].opened
           /\ \A j \in 1..Len(macro) : macro[j].status # "OPEN" => macro'[j].status # "OPEN"
           /\ Cardinality(Desk!OpenTrades') <= Cardinality(Desk!OpenTrades)
<1>1. /\ macro' \in Seq(DeskTrade) /\ Len(macro') = Len(macro) /\ \A j \in 1..Len(macro) : macro'[j].opened = macro[j].opened
      /\ \A j \in 1..Len(macro) : macro[j].status # "OPEN" => macro'[j].status # "OPEN"
  <2>1. CASE macro' = macro
    BY <2>1 DEF DeskInv, DeskTyped
  <2>2. ASSUME i \in 1..Len(macro), NEW s \in Desk!Statuses \ {"OPEN"}, macro' = [macro EXCEPT ![i].status = s]
        PROVE  /\ macro' \in Seq(DeskTrade) /\ Len(macro') = Len(macro) /\ \A j \in 1..Len(macro) : macro'[j].opened = macro[j].opened
               /\ \A j \in 1..Len(macro) : macro[j].status # "OPEN" => macro'[j].status # "OPEN"
    <3>1. PICK o, u : o = macro[i] /\ u = [o EXCEPT !.status = s]
      BY Zenon
    <3>2. o \in DeskTrade /\ macro \in Seq(DeskTrade)
      BY <2>2, <3>1 DEF DeskInv, DeskTyped
    <3>3. u \in DeskTrade /\ u.opened = o.opened /\ u.status = s
      BY <3>1, <3>2 DEF DeskTrade
    <3>4. macro' = [macro EXCEPT ![i] = u]
      BY <2>2, <3>1
    <3> QED BY <2>2, <3>1, <3>2, <3>3, <3>4
  <2> QED BY <2>1, <2>2
<1>2. PICK o, oo : o = Desk!OpenTrades /\ oo = Desk!OpenTrades'
  OBVIOUS
<1>3. oo \in SUBSET o
  BY <1>1, <1>2 DEF Desk!OpenTrades, Desk!Ids
<1>4. Cardinality(oo) <= Cardinality(o)
  BY <1>2, <1>3, DeskFinite, CountLess
<1> QED BY <1>1, <1>2, <1>4

(* One command of the three goes on to the record m. *)
LEMMA DeskCommandStep ==
    ASSUME DeskInv, NEW c \in Desk!Commands, NEW m \in DeskCommand, commands' = [commands EXCEPT ![c] = m],
           m.todo \subseteq 1..Len(macro'), Len(macro') >= Len(macro)
    PROVE  /\ commands' \in [Desk!Commands -> DeskCommand]
           /\ \A d \in Desk!Commands : commands'[d].todo \subseteq 1..Len(macro')
           /\ commands'[c] = m /\ \A d \in Desk!Commands : d # c => commands'[d] = commands[d]
<1>1. commands \in [Desk!Commands -> DeskCommand] /\ \A d \in Desk!Commands : commands[d].todo \subseteq 1..Len(macro)
  BY DEF DeskInv, DeskTyped
<1>2. /\ commands' \in [Desk!Commands -> DeskCommand] /\ commands'[c] = m
      /\ \A d \in Desk!Commands : d # c => commands'[d] = commands[d]
  BY <1>1
<1>3. ASSUME NEW d \in Desk!Commands PROVE commands'[d].todo \subseteq 1..Len(macro')
  <2>1. CASE d = c
    BY <1>2, <2>1
  <2>2. CASE d # c
    <3>1. commands'[d].todo \subseteq 1..Len(macro)
      BY <1>1, <1>2, <2>2
    <3> QED BY <3>1, DeskFinite
  <2> QED BY <2>1, <2>2
<1> QED BY <1>2, <1>3

LEMMA DeskIs ==
    ASSUME NEW l \in 0..Passing, NEW n \in 0..Cap, NEW d \in SUBSET Nat
    PROVE  [left |-> l, count |-> n, todo |-> d] \in DeskCommand
  BY DEF DeskCommand

LEMMA DeskSets ==
    ASSUME NEW m \in DeskCommand, NEW x, NEW y
    PROVE  /\ [m EXCEPT !.todo = x] = [left |-> m.left, count |-> m.count, todo |-> x]
           /\ [m EXCEPT !.left = x, !.count = y] = [left |-> x, count |-> y, todo |-> m.todo]
<1>1. PICK l, n, d : l = m.left /\ n = m.count /\ d = m.todo
  OBVIOUS
<1>2. m = [left |-> l, count |-> n, todo |-> d]
  BY <1>1 DEF DeskCommand
<1>3. [m EXCEPT !.todo = x] = [left |-> l, count |-> n, todo |-> x]
  BY <1>2
<1>4. PICK u : u = [m EXCEPT !.left = x]
  BY Zenon
<1>5. u = [left |-> x, count |-> n, todo |-> d]
  BY <1>2, <1>4
<1>6. [u EXCEPT !.count = y] = [left |-> x, count |-> y, todo |-> d]
  BY <1>5
<1>7. [m EXCEPT !.left = x, !.count = y] = [u EXCEPT !.count = y]
  BY <1>4, Zenon
<1> QED BY <1>1, <1>3, <1>6, <1>7

LEMMA DeskClose ==
    ASSUME DeskInv, NEW c \in {"review", "settle"}, NEW s \in Desk!Statuses, commands[c].todo # {}, Desk!Close(c, s)
    PROVE  DeskInv' /\ \A i \in 1..Len(macro) : macro[i].status # "OPEN" => macro'[i].status # "OPEN"
<1> USE DeskAssumption
<1>1. c \in Desk!Commands /\ commands \in [Desk!Commands -> DeskCommand] /\ commands[c] \in DeskCommand
      /\ commands[c].todo \subseteq 1..Len(macro) /\ UNCHANGED <<day, verdicts, failures>>
  BY DEF DeskInv, DeskTyped, Desk!Commands, Desk!Close
<1>2. PICK i, t, m : i = Desk!Oldest(c) /\ t = commands[c].todo /\ m = commands[c]
  OBVIOUS
<1>3. i \in 1..Len(macro)
  <2>1. t \in SUBSET (1..Len(macro)) /\ t # {} /\ Len(macro) \in Nat
    BY <1>1, <1>2, DeskFinite
  <2>3. IsFiniteSet(t)
    <3>1. Len(macro) \in Nat
      BY DeskFinite
    <3> QED BY <2>1, <3>1, CountMore, Zenon
  <2>4. t \in SUBSET Int
    BY <2>1
  <2>5. Min(t) \in t
    BY <2>1, <2>3, <2>4, MinExists
  <2>6. i = Min(t)
    BY <1>2 DEF Desk!Oldest, Min
  <2> QED BY <2>1, <2>5, <2>6, Zenon
<1>4. macro' = macro \/ (i \in 1..Len(macro) /\ \E x \in Desk!Statuses \ {"OPEN"} : macro' = [macro EXCEPT ![i].status = x])
  BY <1>2, <1>3, Zenon DEF Desk!Close
<1>5. /\ macro' \in Seq(DeskTrade) /\ Len(macro') = Len(macro) /\ \A j \in 1..Len(macro) : macro'[j].opened = macro[j].opened
      /\ \A j \in 1..Len(macro) : macro[j].status # "OPEN" => macro'[j].status # "OPEN"
      /\ Cardinality(Desk!OpenTrades') <= Cardinality(Desk!OpenTrades)
  BY <1>4, DeskCloses
<1>6. PICK d, n : d = t \ {i} /\ n = [left |-> m.left, count |-> m.count, todo |-> d]
  BY Zenon
<1>7. n \in DeskCommand /\ n.todo = d /\ d \subseteq 1..Len(macro)
  BY <1>1, <1>2, <1>6 DEF DeskCommand
<1>8. commands' = [commands EXCEPT ![c] = n]
  <2>1. [m EXCEPT !.todo = d] = n
    BY <1>1, <1>2, <1>6, DeskSets, Zenon
  <2>2. commands' = [commands EXCEPT ![c].todo = @ \ {i}]
    BY <1>2 DEF Desk!Close
  <2>3. [commands EXCEPT ![c].todo = @ \ {i}] = [commands EXCEPT ![c] = [m EXCEPT !.todo = d]]
    BY <1>1, <1>2, <1>6
  <2> QED BY <2>1, <2>2, <2>3, Zenon
<1>9. /\ commands' \in [Desk!Commands -> DeskCommand]
      /\ \A e \in Desk!Commands : commands'[e].todo \subseteq 1..Len(macro')
      /\ commands'[c] = n /\ \A e \in Desk!Commands : e # c => commands'[e] = commands[e]
  <2>1. n.todo \subseteq 1..Len(macro') /\ Len(macro') >= Len(macro)
    BY <1>5, <1>7, DeskFinite
  <2> QED BY <1>1, <1>7, <1>8, <2>1, DeskCommandStep, Zenon
<1>10. DeskTyped'
  BY <1>1, <1>5, <1>9 DEF DeskInv, DeskTyped
<1>11. DeskCounted'
  <2>1. commands'["scan"] = commands["scan"] /\ (Desk!Busy("scan")' <=> Desk!Busy("scan"))
    BY <1>9 DEF Desk!Commands, Desk!Busy
  <2>2. PICK a, b : a = Cardinality(Desk!OpenTrades') /\ b = Cardinality(Desk!OpenTrades)
    OBVIOUS
  <2>3. a <= b /\ b \in Nat
    BY <1>5, <2>2, DeskFinite
  <2>4. a \in Nat
    <3>1. PICK o : o = Desk!OpenTrades'
      OBVIOUS
    <3>2. o \in SUBSET (1..Len(macro))
      BY <1>5, <3>1 DEF Desk!OpenTrades, Desk!Ids
    <3> QED BY <2>2, <3>1, <3>2, DeskFinite, CountMore, Zenon
  <2>5. commands["scan"].count \in Nat
    BY <1>1 DEF Desk!Commands, DeskCommand
  <2> QED BY <2>1, <2>2, <2>3, <2>4, <2>5 DEF DeskInv, DeskCounted
<1>12. DeskAgreed'
  BY <1>1 DEF DeskInv, DeskAgreed
<1> QED BY <1>5, <1>10, <1>11, <1>12 DEF DeskInv

LEMMA DeskStarts ==
    ASSUME DeskInv, \/ \E n \in 1..Passing : Desk!ScanStart(n)
                    \/ Desk!ReviewStart \/ Desk!SettleStart
                    \/ \E c \in Desk!Commands : Desk!CommandFails(c)
    PROVE  DeskInv' /\ macro' = macro
<1> USE DeskAssumption
<1>1. UNCHANGED <<day, macro, verdicts>> /\ failures' \in 0..MaxFaults
  BY DEF Desk!ScanStart, Desk!ReviewStart, Desk!SettleStart, Desk!ReadOpen, Desk!CommandFails, DeskInv, DeskTyped
<1>2. Desk!OpenTrades' = Desk!OpenTrades /\ commands \in [Desk!Commands -> DeskCommand] /\ Len(macro) \in Nat
  BY <1>1, DeskFinite DEF Desk!OpenTrades, Desk!Ids, DeskInv, DeskTyped
<1>3. ASSUME NEW c \in Desk!Commands, NEW m \in DeskCommand, commands' = [commands EXCEPT ![c] = m], m.todo \subseteq 1..Len(macro),
             c = "scan" /\ m # Desk!Quiet => Cardinality(Desk!OpenTrades) <= m.count /\ m.count < Cap /\ m.left > 0
      PROVE  DeskInv'
  <2>1. /\ commands' \in [Desk!Commands -> DeskCommand]
        /\ \A d \in Desk!Commands : commands'[d].todo \subseteq 1..Len(macro')
        /\ commands'[c] = m /\ \A d \in Desk!Commands : d # c => commands'[d] = commands[d]
    <3>1. m.todo \subseteq 1..Len(macro') /\ Len(macro') >= Len(macro)
      BY <1>1, <1>2, <1>3
    <3> QED BY <1>3, <3>1, DeskCommandStep, Zenon
  <2>2. DeskTyped'
    BY <1>1, <2>1 DEF DeskInv, DeskTyped
  <2>3. DeskCounted'
    <3>1. CASE c = "scan"
      BY <1>2, <1>3, <2>1, <3>1 DEF DeskInv, DeskCounted, Desk!Busy
    <3>2. CASE c # "scan"
      <4>1. commands'["scan"] = commands["scan"]
        BY <2>1, <3>2 DEF Desk!Commands
      <4> QED BY <1>2, <4>1 DEF DeskInv, DeskCounted, Desk!Busy
    <3> QED BY <3>1, <3>2
  <2>4. DeskAgreed'
    BY <1>1 DEF DeskInv, DeskAgreed
  <2> QED BY <2>2, <2>3, <2>4 DEF DeskInv
<1>4. ASSUME NEW n \in 1..Passing, Desk!ScanStart(n) PROVE DeskInv'
  <2>1. CASE commands' = commands
    <3>1. Desk!Busy("scan")' <=> Desk!Busy("scan")
      BY <2>1 DEF Desk!Busy
    <3>2. failures' = failures
      BY <1>4 DEF Desk!ScanStart
    <3> QED BY <1>1, <1>2, <2>1, <3>1, <3>2 DEF DeskInv, DeskTyped, DeskCounted, DeskAgreed
  <2>2. CASE /\ Desk!Cardinality(Desk!OpenTrades) < Cap
             /\ commands' = [commands EXCEPT !["scan"] = [left |-> n, count |-> Desk!Cardinality(Desk!OpenTrades), todo |-> {}]]
    <3>1. PICK k : k = Cardinality(Desk!OpenTrades)
      OBVIOUS
    <3>2. k \in 0..Cap /\ k < Cap
      BY <2>2, <3>1, DeskConstants, DeskFinite
    <3>3. PICK m : m = [left |-> n, count |-> k, todo |-> {}]
      BY Zenon
    <3>4. m \in DeskCommand /\ m.todo \subseteq 1..Len(macro) /\ m.count = k /\ m.left = n
      BY <3>2, <3>3, DeskIs
    <3>5. commands' = [commands EXCEPT !["scan"] = m]
      BY <2>2, <3>1, <3>3, DeskConstants, Zenon
    <3>6. "scan" \in Desk!Commands
      BY DEF Desk!Commands
    <3>7. Cardinality(Desk!OpenTrades) <= m.count /\ m.count < Cap /\ m.left > 0
      BY <3>1, <3>2, <3>4
    <3> QED BY <1>3, <3>4, <3>5, <3>6, <3>7, Zenon
  <2>3. Desk!Cardinality(Desk!OpenTrades) \in Nat
    BY DeskConstants, DeskFinite
  <2> QED BY <1>4, <2>1, <2>2, <2>3 DEF Desk!ScanStart
<1>5. ASSUME NEW c \in {"review", "settle"}, NEW S \in SUBSET Desk!OpenTrades, Desk!ReadOpen(c, S) PROVE DeskInv'
  <2>1. c \in Desk!Commands /\ commands[c] \in DeskCommand /\ S \subseteq 1..Len(macro) /\ S \in SUBSET Nat
    BY <1>2, <1>5, DeskFinite DEF Desk!Commands
  <2>2. PICK l, k, m : l = commands[c].left /\ k = commands[c].count /\ m = [left |-> l, count |-> k, todo |-> S]
    BY Zenon
  <2>3. m \in DeskCommand /\ m.todo = S
    BY <2>1, <2>2 DEF DeskCommand
  <2>4. commands' = [commands EXCEPT ![c] = m]
    <3>1. [commands[c] EXCEPT !.todo = S] = m
      BY <2>1, <2>2, DeskSets, Zenon
    <3>2. commands' = [commands EXCEPT ![c] = [commands[c] EXCEPT !.todo = S]]
      BY <1>2, <1>5, <2>1 DEF Desk!ReadOpen
    <3> QED BY <3>1, <3>2, Zenon
  <2> QED BY <1>3, <1>5, <2>1, <2>3, <2>4, Zenon
<1>6. ASSUME NEW c \in Desk!Commands, Desk!CommandFails(c) PROVE DeskInv'
  <2>1. PICK m : m = Desk!Quiet
    OBVIOUS
  <2>2. m \in DeskCommand /\ m.todo = {} /\ commands' = [commands EXCEPT ![c] = m]
    <3>1. [left |-> 0, count |-> 0, todo |-> {}] \in DeskCommand
      BY DeskIs
    <3> QED BY <1>6, <2>1, <3>1 DEF Desk!CommandFails, Desk!Quiet
  <2> QED BY <1>3, <1>6, <2>1, <2>2, Zenon
<1>7. ASSUME Desk!ReviewStart PROVE DeskInv'
  BY <1>5, <1>7 DEF Desk!ReviewStart
<1>8. ASSUME Desk!SettleStart PROVE DeskInv'
  <2>1. PICK S : S = Desk!Expired
    OBVIOUS
  <2>2. S \in SUBSET Desk!OpenTrades
    BY <2>1 DEF Desk!Expired
  <2> QED BY <1>5, <1>8, <2>1, <2>2 DEF Desk!SettleStart
<1> QED BY <1>1, <1>4, <1>6, <1>7, <1>8

LEMMA DeskScanSave ==
    ASSUME DeskInv, Desk!ScanSave
    PROVE  DeskInv' /\ \A i \in 1..Len(macro) : macro'[i] = macro[i]
<1> USE DeskAssumption
<1>1. /\ UNCHANGED <<day, verdicts, failures>> /\ macro \in Seq(DeskTrade) /\ Len(macro) \in Nat /\ day \in Nat
      /\ "scan" \in Desk!Commands /\ commands \in [Desk!Commands -> DeskCommand] /\ Len(verdicts) \in Nat
  BY DEF Desk!ScanSave, DeskInv, DeskTyped, Desk!Commands
<1>2. Cardinality(Desk!OpenTrades) <= commands["scan"].count /\ commands["scan"].count < Cap /\ commands["scan"].left > 0
  BY DEF Desk!ScanSave, DeskInv, DeskCounted
<1>3. PICK m, l, k : m = commands["scan"] /\ l = m.left /\ k = m.count
  OBVIOUS
<1>4. m \in DeskCommand /\ l \in 1..Passing /\ k \in 0..Cap /\ k < Cap /\ m.todo \in SUBSET Nat /\ m.todo \subseteq 1..Len(macro)
  BY <1>1, <1>2, <1>3 DEF DeskCommand, DeskInv, DeskTyped
<1>5. PICK t : t = [opened |-> day, status |-> "OPEN"]
  BY Zenon
<1>6. /\ macro' \in Seq(DeskTrade) /\ Len(macro') = Len(macro) + 1 /\ macro'[Len(macro) + 1] = t
      /\ \A i \in 1..Len(macro) : macro'[i] = macro[i]
      /\ \A i \in 1..Len(macro') : i \in 1..Len(macro) \/ i = Len(macro) + 1
  <2>1. t \in DeskTrade
    BY <1>1, <1>5 DEF DeskTrade, Desk!Statuses
  <2>2. macro' = Append(macro, t)
    BY <1>5 DEF Desk!ScanSave, Desk!NewTrade
  <2> QED BY <1>1, <2>1, <2>2
<1>7. PICK n : n = Desk!Scanned(m, k + 1)
  OBVIOUS
<1>8. commands' = [commands EXCEPT !["scan"] = n]
  BY <1>1, <1>3, <1>7 DEF Desk!ScanSave
<1>9. /\ n \in DeskCommand /\ n.todo \subseteq 1..Len(macro)
      /\ n # Desk!Quiet => n.count = k + 1 /\ k + 1 < Cap /\ n.left > 0
  <2>1. CASE n = Desk!Quiet
    <3>1. [left |-> 0, count |-> 0, todo |-> {}] \in DeskCommand
      BY DeskIs
    <3> QED BY <2>1, <3>1 DEF Desk!Quiet
  <2>2. CASE n # Desk!Quiet
    <3>1. n = [m EXCEPT !.left = @ - 1, !.count = k + 1] /\ l # 1 /\ k + 1 < Cap
      BY <1>3, <1>4, <1>7, <2>2 DEF Desk!Scanned
    <3>2. PICK x, y : x = l - 1 /\ y = k + 1
      OBVIOUS
    <3>3. n = [m EXCEPT !.left = x, !.count = y]
      BY <1>3, <3>1, <3>2, Zenon
    <3>4. n = [left |-> x, count |-> y, todo |-> m.todo]
      BY <1>4, <3>3, DeskSets, Zenon
    <3>5. x \in 0..Passing /\ y \in 0..Cap /\ x > 0
      BY <1>4, <3>1, <3>2
    <3>6. n \in DeskCommand
      BY <1>4, <3>4, <3>5, DeskIs
    <3>7. n.todo = m.todo /\ n.count = y /\ n.left = x
      BY <3>4
    <3> QED BY <1>4, <3>1, <3>2, <3>5, <3>6, <3>7
  <2> QED BY <2>1, <2>2
<1>10. /\ commands' \in [Desk!Commands -> DeskCommand]
       /\ \A d \in Desk!Commands : commands'[d].todo \subseteq 1..Len(macro')
       /\ commands'["scan"] = n
  <2>1. n.todo \subseteq 1..Len(macro') /\ Len(macro') >= Len(macro)
    BY <1>1, <1>6, <1>9
  <2> QED BY <1>1, <1>8, <1>9, <2>1, DeskCommandStep, Zenon
<1>11. DeskTyped'
  <2>1. \A i \in 1..Len(macro') : macro'[i].opened <= day'
    BY <1>1, <1>5, <1>6 DEF DeskInv, DeskTyped
  <2>2. Len(macro') + Len(verdicts') <= Room
    BY <1>1, <1>6, DeskConstants DEF Desk!ScanSave, Desk!Full
  <2> QED BY <1>1, <1>6, <1>10, <2>1, <2>2 DEF DeskInv, DeskTyped
<1>12. DeskCounted'
  <2>1. PICK o, oo : o = Desk!OpenTrades /\ oo = Desk!OpenTrades'
    OBVIOUS
  <2>2. oo = o \cup {Len(macro) + 1}
    BY <1>1, <1>5, <1>6, <2>1 DEF Desk!OpenTrades, Desk!Ids
  <2>3. o \in SUBSET (1..Len(macro)) /\ Cardinality(o) \in Nat
    BY <2>1, DeskFinite
  <2>4. Cardinality(o \cup {Len(macro) + 1}) = Cardinality(o) + 1
    BY <1>1, <2>3, CountMore, Zenon
  <2>5. Cardinality(oo) = Cardinality(o) + 1 /\ Cardinality(o) <= k
    BY <1>2, <1>3, <2>1, <2>2, <2>4
  <2>6. Cardinality(oo) <= k + 1 /\ Cardinality(oo) <= Cap
    BY <1>4, <2>3, <2>5
  <2> QED BY <1>9, <1>10, <2>1, <2>6 DEF DeskCounted, Desk!Busy
<1>13. DeskAgreed'
  BY <1>1 DEF DeskInv, DeskAgreed
<1> QED BY <1>6, <1>11, <1>12, <1>13 DEF DeskInv

LEMMA DeskReviewed ==
    ASSUME DeskInv, NEW trade \in BOOLEAN, NEW should \in BOOLEAN, Desk!Review(trade, should)
    PROVE  DeskInv' /\ macro' = macro
<1> USE DeskAssumption
<1>1. /\ UNCHANGED <<day, macro, commands, failures>> /\ verdicts \in Seq(DeskReview) /\ Len(verdicts) \in Nat
      /\ Len(macro) \in Nat /\ day \in Nat /\ \A k \in 1..Len(verdicts) : ~verdicts[k].trade
  BY DEF Desk!Review, DeskInv, DeskTyped, Desk!CheckSkips, Desk!HasOpenRecommendation
<1>2. PICK v : v = [created |-> day, trade |-> trade, should |-> should]
  BY Zenon
<1>3. /\ verdicts' \in Seq(DeskReview) /\ Len(verdicts') = Len(verdicts) + 1 /\ verdicts'[Len(verdicts) + 1] = v
      /\ \A k \in 1..Len(verdicts) : verdicts'[k] = verdicts[k]
      /\ \A k \in 1..Len(verdicts') : k \in 1..Len(verdicts) \/ k = Len(verdicts) + 1
  <2>1. v \in DeskReview
    BY <1>1, <1>2 DEF DeskReview
  <2>2. verdicts' = Append(verdicts, v)
    BY <1>2 DEF Desk!Review
  <2> QED BY <1>1, <2>1, <2>2
<1>4. DeskTyped'
  <2>1. \A k \in 1..Len(verdicts') : verdicts'[k].created <= day'
    BY <1>1, <1>2, <1>3 DEF DeskInv, DeskTyped
  <2>2. Len(macro') + Len(verdicts') <= Room
    BY <1>1, <1>3, DeskConstants DEF Desk!Review, Desk!Full
  <2> QED BY <1>1, <1>3, <2>1, <2>2 DEF DeskInv, DeskTyped
<1>5. DeskCounted'
  <2>1. Desk!OpenTrades' = Desk!OpenTrades /\ (Desk!Busy("scan")' <=> Desk!Busy("scan"))
    BY <1>1 DEF Desk!OpenTrades, Desk!Ids, Desk!Busy
  <2> QED BY <1>1, <2>1 DEF DeskInv, DeskCounted
<1>6. DeskAgreed'
  BY <1>1, <1>3 DEF DeskAgreed
<1> QED BY <1>1, <1>4, <1>5, <1>6 DEF DeskInv

LEMMA DeskStep ==
    ASSUME DeskInv, [Desk!Next]_deskVars
    PROVE  /\ DeskInv'
           /\ \A i \in Desk!Ids : macro[i].status # "OPEN" => macro'[i].status # "OPEN"
<1> USE DeskAssumption
<1>0. Desk!Ids = 1..Len(macro)
  BY DEF Desk!Ids
<1>1. CASE UNCHANGED deskVars \/ Desk!Tick
  <2>1. UNCHANGED <<macro, commands, verdicts, failures>> /\ day' \in 0..DeskEnd /\ day' >= day /\ day \in Nat
    BY <1>1 DEF deskVars, Desk!Tick, DeskInv, DeskTyped
  <2>2. DeskTyped'
    <3>1. \A i \in 1..Len(macro) : macro[i].opened \in Nat
      <4>1. \A i \in 1..Len(macro) : macro[i] \in DeskTrade
        BY DEF DeskInv, DeskTyped
      <4> QED BY <4>1 DEF DeskTrade
    <3>2. \A i \in 1..Len(verdicts) : verdicts[i].created \in Nat
      <4>1. \A i \in 1..Len(verdicts) : verdicts[i] \in DeskReview
        BY DEF DeskInv, DeskTyped
      <4> QED BY <4>1 DEF DeskReview
    <3>3. \A i \in 1..Len(macro) : macro[i].opened <= day'
      BY <2>1, <3>1 DEF DeskInv, DeskTyped
    <3>4. \A i \in 1..Len(verdicts) : verdicts[i].created <= day'
      BY <2>1, <3>2 DEF DeskInv, DeskTyped
    <3> QED BY <2>1, <3>3, <3>4 DEF DeskInv, DeskTyped
  <2>3. DeskCounted'
    <3>1. Desk!OpenTrades' = Desk!OpenTrades /\ (Desk!Busy("scan")' <=> Desk!Busy("scan"))
      BY <2>1 DEF Desk!OpenTrades, Desk!Ids, Desk!Busy
    <3> QED BY <2>1, <3>1 DEF DeskInv, DeskCounted
  <2> QED BY <2>1, <2>2, <2>3 DEF DeskInv, DeskAgreed
<1>2. ASSUME NEW p, Desk!ReviewOne(p)
      PROVE  DeskInv' /\ \A i \in 1..Len(macro) : macro[i].status # "OPEN" => macro'[i].status # "OPEN"
  <2>1. PICK s : s = Desk!ReviewVerdict(p)
    OBVIOUS
  <2>2. s \in Desk!Statuses
    BY <2>1 DEF Desk!ReviewVerdict, Desk!Statuses
  <2> QED BY <1>2, <2>1, <2>2, DeskClose DEF Desk!ReviewOne
<1>3. ASSUME Desk!SettleOne
      PROVE  DeskInv' /\ \A i \in 1..Len(macro) : macro[i].status # "OPEN" => macro'[i].status # "OPEN"
  BY <1>3, DeskClose DEF Desk!SettleOne, Desk!Statuses
<1>4. CASE Desk!Next
  BY <1>0, <1>1, <1>2, <1>3, <1>4, DeskStarts, DeskScanSave, DeskReviewed DEF Desk!Next
<1> QED BY <1>1, <1>4

(* The performance center. *)
CenterBar == [high : CenterPrices, low : CenterPrices, close : CenterPrices]
CenterRow == [kind : Center!Kinds, opened : 1..CenterEnd, status : Center!Statuses]
CenterResult == [result : Center!Statuses \cup Center!Hits \cup {"TIMEOUT", "none"}, bar : 0..CenterEnd,
                 by : {"none", "source", "center"}]
CenterJudged == [id : Nat, verdict : CenterResult]
CenterWork == [at : {"idle", "import", "judge", "write"}, read : Seq(CenterRow), todo : SUBSET Nat, judged : Seq(CenterJudged)]
CenterTyped ==
  /\ bars \in Seq(CenterBar) /\ Len(bars) \in 1..CenterEnd /\ moves \in 0..MaxMoves
  /\ \A k \in 1..Len(bars) : bars[k].low <= bars[k].close /\ bars[k].close <= bars[k].high
  /\ sources \in Seq(CenterRow) /\ Len(sources) <= CenterRows
  /\ results \in [1..CenterRows -> CenterResult]
  /\ \A i \in 1..CenterRows : i \notin 1..Len(sources) => results[i] = Center!NotImported
  /\ center \in CenterWork /\ centerFaults \in 0..MaxFaults

(* What the first candle to touch a level says of row i. *)
Touched(i, v) ==
  v.by = "center" /\ v.result \in Center!Hits =>
    /\ v.bar \in (sources[i].opened + 1)..Len(bars)
    /\ \A k \in (sources[i].opened + 1)..(v.bar - 1) : bars[k].low > StopLevel /\ bars[k].high < Target1
    /\ v.result = "SL" => bars[v.bar].low <= StopLevel
    /\ v.result = "TP1" => bars[v.bar].high >= Target1
    /\ v.result = "TP2" => bars[v.bar].high >= Target2
(* A row that is judged is open until its one verdict is written. *)
CenterGoes(c) ==
  /\ c.todo \subseteq 1..Len(sources)
  /\ c.at = "idle" => c = Center!Idle
  /\ c.at = "import" => c.judged = <<>> /\ \A i \in c.todo : i \in 1..Len(c.read)
  /\ c.at \in {"judge", "write"} => \A i \in c.todo : results[i].result = "OPEN"
  /\ \A k \in 1..Len(c.judged) :
       LET d == c.judged[k] IN
       /\ d.id \in 1..Len(sources) /\ d.id \notin c.todo /\ results[d.id].result = "OPEN"
       /\ Touched(d.id, d.verdict)
       /\ \A m \in 1..Len(c.judged) : m # k => c.judged[m].id # d.id
  /\ c.at = "write" => c.judged # <<>>
CenterBusy == CenterGoes(center)
CenterTouched == \A i \in 1..Len(sources) : Touched(i, results[i])
CenterInv == CenterTyped /\ CenterBusy /\ CenterTouched

LEMMA CenterMeans == ASSUME CenterInv PROVE Center!TypeOK /\ Center!FirstTouchCounts
<1> USE CenterAssumption
<1>0. Len(sources) \in Nat /\ Len(bars) \in Nat
  BY DEF CenterInv, CenterTyped
<1>1. Center!TypeOK
  <2>1. \A i \in 1..Len(bars) : bars[i] \in CenterBar
    BY DEF CenterInv, CenterTyped
  <2>2. \A i \in 1..Len(sources) : sources[i] \in CenterRow
    BY DEF CenterInv, CenterTyped
  <2>3. \A i \in 1..CenterRows : results[i] \in CenterResult
    BY DEF CenterInv, CenterTyped
  <2>4. \A i \in 1..Len(bars) : {bars[i].high, bars[i].low, bars[i].close} \subseteq CenterPrices
    BY <2>1 DEF CenterBar
  <2>5. \A i \in 1..Len(sources) : /\ sources[i].kind \in Center!Kinds /\ sources[i].status \in Center!Statuses
                                   /\ sources[i].opened \in 1..CenterEnd
    BY <2>2 DEF CenterRow
  <2>6. \A i \in 1..CenterRows : /\ results[i].result \in Center!Statuses \cup Center!Hits \cup {"TIMEOUT", "none"}
                                 /\ results[i].bar \in 0..CenterEnd
    BY <2>3 DEF CenterResult
  <2>7. center.at \in {"idle", "import", "judge", "write"}
    BY DEF CenterInv, CenterTyped, CenterWork
  <2> QED BY <2>4, <2>5, <2>6, <2>7 DEF Center!TypeOK, Center!Ids, CenterInv, CenterTyped
<1>2. Center!FirstTouchCounts
  <2> SUFFICES ASSUME NEW i \in 1..Len(sources), results[i].by = "center", results[i].result \in Center!Hits
               PROVE  LET b == results[i].bar IN
                      /\ b > sources[i].opened
                      /\ \A k \in (sources[i].opened + 1)..(b - 1) : bars[k].low > StopLevel /\ bars[k].high < Target1
                      /\ results[i].result = "SL" => bars[b].low <= StopLevel
                      /\ results[i].result = "TP1" => bars[b].high >= Target1
                      /\ results[i].result = "TP2" => bars[b].high >= Target2
    BY DEF Center!FirstTouchCounts, Center!Ids
  <2>1. Touched(i, results[i])
    BY DEF CenterInv, CenterTouched
  <2>2. sources[i] \in CenterRow
    BY DEF CenterInv, CenterTyped
  <2>3. sources[i].opened \in Nat
    BY <2>2 DEF CenterRow
  <2> QED BY <1>0, <2>1, <2>3 DEF Touched
<1> QED BY <1>1, <1>2

LEMMA CenterInit == ASSUME Center!Init PROVE CenterInv
<1> USE CenterAssumption, DeskAssumption DEF Center!Init
<1>1. Center!Bar(StartPrice) \in CenterBar
  BY DEF Center!Bar, CenterBar
<1>2. Center!NotImported \in CenterResult
  BY DEF Center!NotImported, CenterResult
<1>3. Center!Idle \in CenterWork /\ Center!Idle.todo = {} /\ Center!Idle.at = "idle" /\ Center!Idle.judged = <<>>
  BY DEF Center!Idle, CenterWork
<1>4. CenterTyped
  <2>1. bars \in Seq(CenterBar) /\ Len(bars) = 1 /\ bars[1] = Center!Bar(StartPrice)
    BY <1>1
  <2>2. \A k \in 1..Len(bars) : bars[k].low <= bars[k].close /\ bars[k].close <= bars[k].high
    BY <2>1 DEF Center!Bar
  <2>3. results \in [1..CenterRows -> CenterResult] /\ \A i \in 1..CenterRows : results[i] = Center!NotImported
    BY <1>2
  <2>4. sources \in Seq(CenterRow) /\ Len(sources) <= CenterRows
    OBVIOUS
  <2> QED BY <1>3, <2>1, <2>2, <2>3, <2>4 DEF CenterTyped
<1>5. CenterBusy
  BY <1>3 DEF CenterBusy, CenterGoes
<1>6. CenterTouched
  BY DEF CenterTouched
<1> QED BY <1>4, <1>5, <1>6 DEF CenterInv

(* While the sources keep their openings and the closed candles stay, what was said of them holds. *)
LEMMA CenterStays ==
    ASSUME CenterInv, NEW i \in 1..Len(sources), NEW v \in CenterResult, Touched(i, v),
           sources'[i].opened = sources[i].opened, Len(bars') >= Len(bars), Len(bars') \in Nat,
           \A k \in 1..(Len(bars) - 1) : bars'[k] = bars[k],
           \A k \in 1..Len(bars) : bars'[k].low <= bars[k].low /\ bars'[k].high >= bars[k].high /\ bars'[k] \in CenterBar
    PROVE  Touched(i, v)'
<1> USE CenterAssumption
<1> SUFFICES ASSUME v.by = "center", v.result \in Center!Hits
             PROVE  /\ v.bar \in (sources'[i].opened + 1)..Len(bars')
                    /\ \A k \in (sources'[i].opened + 1)..(v.bar - 1) : bars'[k].low > StopLevel /\ bars'[k].high < Target1
                    /\ v.result = "SL" => bars'[v.bar].low <= StopLevel
                    /\ v.result = "TP1" => bars'[v.bar].high >= Target1
                    /\ v.result = "TP2" => bars'[v.bar].high >= Target2
  BY DEF Touched, Center!Hits
<1>1. sources[i].opened \in 1..CenterEnd /\ Len(bars) \in Nat /\ CenterEnd \in Nat
  <2>1. sources[i] \in CenterRow
    BY DEF CenterInv, CenterTyped
  <2> QED BY <2>1 DEF CenterRow, CenterInv, CenterTyped
<1>2. PICK b, o : b = v.bar /\ o = sources[i].opened
  OBVIOUS
<1>3. /\ b \in (o + 1)..Len(bars)
      /\ \A k \in (o + 1)..(b - 1) : bars[k].low > StopLevel /\ bars[k].high < Target1
      /\ v.result = "SL" => bars[b].low <= StopLevel
      /\ v.result = "TP1" => bars[b].high >= Target1
      /\ v.result = "TP2" => bars[b].high >= Target2
  BY <1>2 DEF Touched
<1>4. o \in Nat /\ b \in Nat /\ b \in 1..Len(bars) /\ b \in (o + 1)..Len(bars')
  BY <1>1, <1>2, <1>3
<1>5. ASSUME NEW k \in (o + 1)..(b - 1) PROVE bars'[k].low > StopLevel /\ bars'[k].high < Target1
  <2>1. k \in 1..(Len(bars) - 1)
    BY <1>1, <1>4
  <2> QED BY <1>3, <2>1, Zenon
<1>6. bars[b] \in CenterBar /\ bars'[b] \in CenterBar /\ bars'[b].low <= bars[b].low /\ bars'[b].high >= bars[b].high
  BY <1>4 DEF CenterInv, CenterTyped
<1>7. bars[b].low \in Nat /\ bars[b].high \in Nat /\ bars'[b].low \in Nat /\ bars'[b].high \in Nat
  BY <1>6, Zenon DEF CenterBar
<1>7a. PICK l, h, ll, hh : l = bars[b].low /\ h = bars[b].high /\ ll = bars'[b].low /\ hh = bars'[b].high
  OBVIOUS
<1>7b. l \in Nat /\ h \in Nat /\ ll \in Nat /\ hh \in Nat /\ ll <= l /\ hh >= h
  BY <1>6, <1>7, <1>7a
<1>7c. (l <= StopLevel => ll <= StopLevel) /\ (h >= Target1 => hh >= Target1) /\ (h >= Target2 => hh >= Target2)
  BY <1>7b
<1>8. /\ v.result = "SL" => bars'[b].low <= StopLevel
      /\ v.result = "TP1" => bars'[b].high >= Target1
      /\ v.result = "TP2" => bars'[b].high >= Target2
  BY <1>3, <1>7a, <1>7c
<1> QED BY <1>2, <1>4, <1>5, <1>8

(* A step of the market or of the sources. *)
LEMMA CenterOutside ==
    ASSUME CenterInv, UNCHANGED <<results, center, centerFaults>>,
           bars' \in Seq(CenterBar), Len(bars') \in 1..CenterEnd, moves' \in 0..MaxMoves,
           \A k \in 1..Len(bars') : bars'[k].low <= bars'[k].close /\ bars'[k].close <= bars'[k].high,
           Len(bars') >= Len(bars), \A k \in 1..(Len(bars) - 1) : bars'[k] = bars[k],
           \A k \in 1..Len(bars) : bars'[k].low <= bars[k].low /\ bars'[k].high >= bars[k].high,
           sources' \in Seq(CenterRow), Len(sources') \in Len(sources)..CenterRows,
           \A i \in 1..Len(sources) : sources'[i].opened = sources[i].opened
    PROVE  CenterInv'
<1> USE CenterAssumption
<1>0. Len(sources) \in Nat /\ Len(bars) \in Nat /\ Len(sources') \in Nat /\ Len(bars') \in Nat
      /\ \A i \in 1..Len(sources) : i \in 1..Len(sources')
      /\ \A k \in 1..Len(bars) : bars'[k] \in CenterBar
  BY DEF CenterInv, CenterTyped
<1>1. CenterTyped'
  BY <1>0 DEF CenterInv, CenterTyped
<1>2. ASSUME NEW i \in 1..Len(sources), NEW v \in CenterResult, Touched(i, v) PROVE Touched(i, v)'
  BY <1>0, <1>2, CenterStays, Zenon
<1>3. CenterTouched'
  <2> SUFFICES ASSUME NEW i \in 1..Len(sources') PROVE Touched(i, results[i])'
    BY Zenon DEF CenterTouched
  <2>1. i \in 1..CenterRows
    BY <1>0 DEF CenterInv, CenterTyped
  <2>2. PICK v : v = results[i]
    BY Zenon
  <2>3. v \in CenterResult
    BY <2>1, <2>2 DEF CenterInv, CenterTyped
  <2>4. CASE i \in 1..Len(sources)
    <3>1. Touched(i, v)
      BY <2>2, <2>4, Zenon DEF CenterInv, CenterTouched
    <3>2. Touched(i, v)'
      BY <1>2, <2>3, <2>4, <3>1
    <3>3. results'[i] = v
      BY <2>2
    <3> QED BY <3>2, <3>3 DEF Touched
  <2>5. CASE i \notin 1..Len(sources)
    <3>1. results'[i] = Center!NotImported
      BY <2>1, <2>5 DEF CenterInv, CenterTyped
    <3>2. results'[i].by # "center"
      BY <3>1 DEF Center!NotImported
    <3> QED BY <3>2 DEF Touched
  <2> QED BY <2>4, <2>5
<1>4. CenterBusy'
  <2>1. /\ center'.todo \subseteq 1..Len(sources')
        /\ center'.at = "idle" => center' = Center!Idle
        /\ center'.at = "import" => center'.judged = <<>> /\ \A i \in center'.todo : i \in 1..Len(center'.read)
        /\ center'.at \in {"judge", "write"} => \A i \in center'.todo : results'[i].result = "OPEN"
        /\ center'.at = "write" => center'.judged # <<>>
    BY <1>0, Zenon DEF CenterInv, CenterBusy, CenterGoes
  <2>2. PICK w : w = center
    OBVIOUS
  <2>3. ASSUME NEW k \in 1..Len(w.judged), NEW d, d = w.judged[k]
        PROVE  /\ d.id \in 1..Len(sources') /\ d.id \notin w.todo /\ results'[d.id].result = "OPEN"
               /\ Touched(d.id, d.verdict)'
               /\ \A m \in 1..Len(w.judged) : m # k => w.judged[m].id # d.id
    <3>2. /\ d.id \in 1..Len(sources) /\ d.id \notin center.todo /\ results[d.id].result = "OPEN"
          /\ Touched(d.id, d.verdict)
          /\ \A m \in 1..Len(center.judged) : m # k => center.judged[m].id # d.id
      BY <2>2, <2>3, Zenon DEF CenterInv, CenterBusy, CenterGoes
    <3>3. d.verdict \in CenterResult
      <4>1. d \in CenterJudged
        BY <2>2, <2>3 DEF CenterInv, CenterTyped, CenterWork
      <4> QED BY <4>1 DEF CenterJudged
    <3>5. Touched(d.id, d.verdict)'
      BY <1>2, <3>2, <3>3
    <3> QED BY <1>0, <2>2, <3>2, <3>5
  <2>4. \A k \in 1..Len(w.judged) :
          LET d == w.judged[k] IN
          /\ d.id \in 1..Len(sources') /\ d.id \notin w.todo /\ results'[d.id].result = "OPEN"
          /\ Touched(d.id, d.verdict)'
          /\ \A m \in 1..Len(w.judged) : m # k => w.judged[m].id # d.id
    BY <2>3, Zenon
  <2>5. center' = w
    BY <2>2
  <2> QED BY <2>1, <2>4, <2>5 DEF CenterBusy, CenterGoes, Touched
<1> QED BY <1>1, <1>3, <1>4 DEF CenterInv

LEMMA CenterMarket == ASSUME CenterInv, Center!Market \/ Center!Sources PROVE CenterInv'
<1> USE CenterAssumption
<1>0. /\ bars \in Seq(CenterBar) /\ Len(bars) \in 1..CenterEnd /\ Len(bars) \in Nat /\ moves \in 0..MaxMoves
      /\ \A k \in 1..Len(bars) : bars[k].low <= bars[k].close /\ bars[k].close <= bars[k].high /\ bars[k] \in CenterBar
      /\ sources \in Seq(CenterRow) /\ Len(sources) \in Nat /\ Len(sources) <= CenterRows
      /\ \A i \in 1..Len(sources) : sources[i] \in CenterRow
  BY DEF CenterInv, CenterTyped
<1>1. \A k \in 1..Len(bars) : bars[k].low \in Nat /\ bars[k].high \in Nat /\ bars[k].close \in Nat
  BY <1>0, Zenon DEF CenterBar
<1>2. ASSUME Center!Tick PROVE CenterInv'
  <2>1. PICK b : b = Center!Bar(bars[Len(bars)].close)
    OBVIOUS
  <2>2. b \in CenterBar /\ b.low <= b.close /\ b.close <= b.high
    <3>0. bars[Len(bars)] \in CenterBar
      BY <1>0
    <3>1. bars[Len(bars)].close \in CenterPrices
      BY <3>0 DEF CenterBar
    <3>2. PICK c : c = bars[Len(bars)].close
      OBVIOUS
    <3>3. c \in CenterPrices /\ c \in Nat /\ b = [high |-> c, low |-> c, close |-> c]
      BY <2>1, <3>1, <3>2, Zenon DEF Center!Bar
    <3> QED BY <3>3 DEF CenterBar
  <2>3. bars' = Append(bars, b) /\ Len(bars) < CenterEnd /\ UNCHANGED <<moves, sources, results, center, centerFaults>>
    BY <1>2, <2>1 DEF Center!Tick, Center!Forming
  <2>4. /\ bars' \in Seq(CenterBar) /\ Len(bars') = Len(bars) + 1 /\ bars'[Len(bars) + 1] = b
        /\ \A k \in 1..Len(bars) : bars'[k] = bars[k]
        /\ \A k \in 1..Len(bars') : k \in 1..Len(bars) \/ k = Len(bars) + 1
    BY <1>0, <2>2, <2>3
  <2>5. \A k \in 1..Len(bars') : bars'[k].low <= bars'[k].close /\ bars'[k].close <= bars'[k].high
    BY <1>0, <2>2, <2>4, Zenon
  <2>6. \A k \in 1..Len(bars) : bars'[k].low <= bars[k].low /\ bars'[k].high >= bars[k].high
    BY <1>1, <2>4
  <2>7. Len(bars') \in 1..CenterEnd /\ Len(bars') >= Len(bars) /\ \A k \in 1..(Len(bars) - 1) : bars'[k] = bars[k]
    BY <1>0, <2>3, <2>4
  <2>8. sources' \in Seq(CenterRow) /\ Len(sources') \in Len(sources)..CenterRows /\ moves' \in 0..MaxMoves
        /\ \A i \in 1..Len(sources) : sources'[i].opened = sources[i].opened
    BY <1>0, <2>3
  <2> QED BY <2>3, <2>4, <2>5, <2>6, <2>7, <2>8, CenterOutside
<1>3. ASSUME NEW p \in CenterPrices, Center!Move(p) PROVE CenterInv'
  <2>1. PICK n, o : n = Len(bars) /\ o = bars[n]
    BY Zenon
  <2>2. PICK b : b = [high |-> Center!Higher(o.high, p), low |-> Center!Lower(o.low, p), close |-> p]
    BY Zenon
  <2>2a. o \in CenterBar /\ n \in Nat /\ n \in 1..Len(bars)
    BY <1>0, <2>1
  <2>3. /\ o \in CenterBar /\ o.low \in Nat /\ o.high \in Nat /\ p \in Nat /\ n \in Nat /\ n \in 1..Len(bars)
        /\ o.low \in CenterPrices /\ o.high \in CenterPrices
    BY <2>2a, Zenon DEF CenterBar
  <2>4. b \in CenterBar /\ b.low <= b.close /\ b.close <= b.high /\ b.low <= o.low /\ b.high >= o.high
    <3>1. /\ Center!Higher(o.high, p) \in CenterPrices /\ Center!Higher(o.high, p) >= p /\ Center!Higher(o.high, p) >= o.high
          /\ Center!Lower(o.low, p) \in CenterPrices /\ Center!Lower(o.low, p) <= p /\ Center!Lower(o.low, p) <= o.low
      BY <2>3 DEF Center!Higher, Center!Lower
    <3> QED BY <2>2, <3>1 DEF CenterBar
  <2>5. bars' = [bars EXCEPT ![n] = b] /\ moves < MaxMoves /\ moves' = moves + 1
        /\ UNCHANGED <<sources, results, center, centerFaults>>
    BY <1>0, <1>3, <2>1, <2>2 DEF Center!Move, Center!Forming
  <2>6. /\ bars' \in Seq(CenterBar) /\ Len(bars') = Len(bars) /\ bars'[n] = b
        /\ \A k \in 1..Len(bars) : k # n => bars'[k] = bars[k]
    BY <1>0, <2>3, <2>4, <2>5
  <2>7. \A k \in 1..Len(bars') : bars'[k].low <= bars'[k].close /\ bars'[k].close <= bars'[k].high
    BY <1>0, <2>4, <2>6, Zenon
  <2>8. \A k \in 1..Len(bars) : bars'[k].low <= bars[k].low /\ bars'[k].high >= bars[k].high
    BY <1>1, <2>1, <2>4, <2>6
  <2>9. Len(bars') \in 1..CenterEnd /\ Len(bars') >= Len(bars) /\ \A k \in 1..(Len(bars) - 1) : bars'[k] = bars[k]
    BY <1>0, <2>1, <2>6
  <2>10. sources' \in Seq(CenterRow) /\ Len(sources') \in Len(sources)..CenterRows /\ moves' \in 0..MaxMoves
         /\ \A i \in 1..Len(sources) : sources'[i].opened = sources[i].opened
    BY <1>0, <2>5
  <2> QED BY <2>5, <2>6, <2>7, <2>8, <2>9, <2>10, CenterOutside
<1>4. \A k \in 1..Len(bars) : bars[k].low <= bars[k].low /\ bars[k].high >= bars[k].high
  BY <1>1
<1>5. ASSUME NEW kind \in Center!Kinds, Center!OpenSource(kind) PROVE CenterInv'
  <2>1. PICK r : r = [kind |-> kind, opened |-> Len(bars), status |-> "OPEN"]
    BY Zenon
  <2>2. r \in CenterRow
    BY <1>0, <2>1 DEF CenterRow, Center!Statuses
  <2>3. sources' = Append(sources, r) /\ Len(sources) < CenterRows /\ UNCHANGED <<bars, moves, results, center, centerFaults>>
    BY <1>5, <2>1 DEF Center!OpenSource, Center!Forming
  <2>4. sources' \in Seq(CenterRow) /\ Len(sources') = Len(sources) + 1 /\ \A i \in 1..Len(sources) : sources'[i] = sources[i]
    BY <1>0, <2>2, <2>3
  <2>5. Len(sources') \in Len(sources)..CenterRows /\ \A i \in 1..Len(sources) : sources'[i].opened = sources[i].opened
    BY <1>0, <2>3, <2>4
  <2>6. /\ bars' \in Seq(CenterBar) /\ Len(bars') \in 1..CenterEnd /\ moves' \in 0..MaxMoves
        /\ \A k \in 1..Len(bars') : bars'[k].low <= bars'[k].close /\ bars'[k].close <= bars'[k].high
        /\ Len(bars') >= Len(bars) /\ \A k \in 1..(Len(bars) - 1) : bars'[k] = bars[k]
        /\ \A k \in 1..Len(bars) : bars'[k].low <= bars[k].low /\ bars'[k].high >= bars[k].high
    BY <1>0, <1>4, <2>3
  <2> QED BY <2>3, <2>4, <2>5, <2>6, CenterOutside
<1>6. ASSUME NEW i \in 1..Len(sources), NEW s \in Closings, Center!CloseSource(i, s) PROVE CenterInv'
  <2>1. PICK o, r : o = sources[i] /\ r = [o EXCEPT !.status = s]
    BY Zenon
  <2>2. o \in CenterRow
    BY <1>0, <2>1
  <2>3. r \in CenterRow /\ r.opened = o.opened
    BY <2>1, <2>2, Zenon DEF CenterRow, Center!Statuses
  <2>4. sources' = [sources EXCEPT ![i] = r] /\ UNCHANGED <<bars, moves, results, center, centerFaults>>
    BY <1>6, <2>1 DEF Center!CloseSource
  <2>5. sources' \in Seq(CenterRow) /\ Len(sources') = Len(sources) /\ \A j \in 1..Len(sources) : sources'[j].opened = sources[j].opened
    BY <1>0, <2>1, <2>3, <2>4
  <2>6. Len(sources') \in Len(sources)..CenterRows
    BY <1>0, <2>5
  <2>7. /\ bars' \in Seq(CenterBar) /\ Len(bars') \in 1..CenterEnd /\ moves' \in 0..MaxMoves
        /\ \A k \in 1..Len(bars') : bars'[k].low <= bars'[k].close /\ bars'[k].close <= bars'[k].high
        /\ Len(bars') >= Len(bars) /\ \A k \in 1..(Len(bars) - 1) : bars'[k] = bars[k]
        /\ \A k \in 1..Len(bars) : bars'[k].low <= bars[k].low /\ bars'[k].high >= bars[k].high
    BY <1>0, <1>4, <2>4
  <2> QED BY <2>4, <2>5, <2>6, <2>7, CenterOutside
<1> QED BY <1>2, <1>3, <1>5, <1>6 DEF Center!Market, Center!Sources, Center!Ids

-----------------------------------------------------------------------------
(* The steps of the center itself. *)
LEMMA CenterFacts == ASSUME CenterInv
    PROVE  /\ Len(sources) \in Nat /\ Len(bars) \in Nat /\ Len(sources) <= CenterRows
           /\ center \in CenterWork /\ CenterGoes(center) /\ centerFaults \in 0..MaxFaults
           /\ \A i \in 1..Len(sources) : sources[i] \in CenterRow /\ sources[i].opened \in 1..CenterEnd /\ results[i] \in CenterResult
           /\ \A k \in 1..Len(bars) : bars[k] \in CenterBar /\ bars[k].low \in Nat /\ bars[k].high \in Nat
<1> USE CenterAssumption
<1>1. \A i \in 1..Len(sources) : sources[i] \in CenterRow
  BY DEF CenterInv, CenterTyped
<1>2. \A k \in 1..Len(bars) : bars[k] \in CenterBar
  BY DEF CenterInv, CenterTyped
<1>3. Len(sources) \in Nat /\ Len(bars) \in Nat /\ Len(sources) <= CenterRows
  BY DEF CenterInv, CenterTyped
<1>4. \A i \in 1..Len(sources) : results[i] \in CenterResult
  BY <1>3 DEF CenterInv, CenterTyped
<1>5. \A i \in 1..Len(sources) : sources[i].opened \in 1..CenterEnd
  BY <1>1 DEF CenterRow
<1>6. \A k \in 1..Len(bars) : bars[k].low \in Nat /\ bars[k].high \in Nat
  BY <1>2, Zenon DEF CenterBar
<1> QED BY <1>1, <1>2, <1>3, <1>4, <1>5, <1>6, Zenon DEF CenterInv, CenterTyped, CenterBusy

LEMMA CenterSets ==
    ASSUME NEW c \in CenterWork, NEW x
    PROVE  /\ [c EXCEPT !.todo = x] = [at |-> c.at, read |-> c.read, todo |-> x, judged |-> c.judged]
           /\ [c EXCEPT !.judged = x] = [at |-> c.at, read |-> c.read, todo |-> c.todo, judged |-> x]
           /\ [c EXCEPT !.at = x] = [at |-> x, read |-> c.read, todo |-> c.todo, judged |-> c.judged]
<1>1. PICK a, r, t, j : a = c.at /\ r = c.read /\ t = c.todo /\ j = c.judged
  OBVIOUS
<1>2. c = [at |-> a, read |-> r, todo |-> t, judged |-> j]
  BY <1>1 DEF CenterWork
<1>7. /\ [c EXCEPT !.todo = x] = [at |-> a, read |-> r, todo |-> x, judged |-> j]
      /\ [c EXCEPT !.judged = x] = [at |-> a, read |-> r, todo |-> t, judged |-> x]
      /\ [c EXCEPT !.at = x] = [at |-> x, read |-> r, todo |-> t, judged |-> j]
  BY <1>2
<1> QED BY <1>1, <1>7

LEMMA CenterSetsTwo ==
    ASSUME NEW c \in CenterWork, NEW x, NEW y
    PROVE  [c EXCEPT !.todo = x, !.judged = y] = [at |-> c.at, read |-> c.read, todo |-> x, judged |-> y]
<1>1. PICK a, r, t, j : a = c.at /\ r = c.read /\ t = c.todo /\ j = c.judged
  OBVIOUS
<1>2. c = [at |-> a, read |-> r, todo |-> t, judged |-> j]
  BY <1>1 DEF CenterWork
<1>3. PICK u : u = [c EXCEPT !.todo = x]
  BY Zenon
<1>4. u = [at |-> a, read |-> r, todo |-> x, judged |-> j]
  BY <1>2, <1>3
<1>5. [u EXCEPT !.judged = y] = [at |-> a, read |-> r, todo |-> x, judged |-> y]
  BY <1>4
<1>6. [c EXCEPT !.todo = x, !.judged = y] = [u EXCEPT !.judged = y]
  BY <1>3, Zenon
<1> QED BY <1>1, <1>5, <1>6

LEMMA CenterNew ==
    ASSUME NEW x, NEW y, NEW z
    PROVE  /\ [Center!Idle EXCEPT !.at = x, !.read = y, !.todo = z] = [at |-> x, read |-> y, todo |-> z, judged |-> <<>>]
           /\ [Center!Idle EXCEPT !.at = x, !.todo = z] = [at |-> x, read |-> <<>>, todo |-> z, judged |-> <<>>]
<1>1. PICK e, j : e = "idle" /\ j = <<>>
  OBVIOUS
<1>2. PICK i : i = Center!Idle
  OBVIOUS
<1>3. i = [at |-> e, read |-> j, todo |-> {}, judged |-> j]
  BY <1>1, <1>2 DEF Center!Idle
<1>4. PICK u : u = [i EXCEPT !.at = x]
  BY Zenon
<1>5. u = [at |-> x, read |-> j, todo |-> {}, judged |-> j]
  BY <1>3, <1>4
<1>5a. PICK v : v = [u EXCEPT !.read = y]
  BY Zenon
<1>6. v = [at |-> x, read |-> y, todo |-> {}, judged |-> j]
  BY <1>5, <1>5a
<1>7. [v EXCEPT !.todo = z] = [at |-> x, read |-> y, todo |-> z, judged |-> j]
  BY <1>6
<1>8. [u EXCEPT !.todo = z] = [at |-> x, read |-> j, todo |-> z, judged |-> j]
  BY <1>5
<1>9. [i EXCEPT !.at = x, !.read = y, !.todo = z] = [v EXCEPT !.todo = z]
  BY <1>4, <1>5a, Zenon
<1>10. [i EXCEPT !.at = x, !.todo = z] = [u EXCEPT !.todo = z]
  BY <1>4, Zenon
<1> QED BY <1>1, <1>2, <1>7, <1>8, <1>9, <1>10

(* A step that only goes on with the command. *)
LEMMA CenterOn ==
    ASSUME CenterInv, NEW c \in CenterWork, CenterGoes(c), center' = c, centerFaults' \in 0..MaxFaults,
           UNCHANGED <<bars, moves, sources, results>>
    PROVE  CenterInv'
<1>1. CenterTyped'
  BY DEF CenterInv, CenterTyped
<1>2. CenterBusy'
  BY DEF CenterBusy, CenterGoes, Touched
<1>3. CenterTouched'
  BY DEF CenterInv, CenterTouched, Touched
<1> QED BY <1>1, <1>2, <1>3 DEF CenterInv

LEMMA CenterRests == Center!Idle \in CenterWork /\ CenterGoes(Center!Idle)
<1>1. Center!Idle \in CenterWork /\ Center!Idle.todo = {} /\ Center!Idle.at = "idle" /\ Center!Idle.judged = <<>>
  BY DEF Center!Idle, CenterWork
<1> QED BY <1>1 DEF CenterGoes

LEMMA CenterOldest == ASSUME CenterInv, center.todo # {} PROVE Center!Oldest \in center.todo
<1>1. PICK t : t = center.todo
  OBVIOUS
<1>2. t \in SUBSET (1..Len(sources)) /\ Len(sources) \in Nat /\ t # {}
  BY <1>1, CenterFacts DEF CenterGoes
<1>3. IsFiniteSet(t)
  BY <1>2, CountMore, Zenon
<1>3a. t \in SUBSET Int
  BY <1>2
<1>4. Min(t) \in t
  BY <1>2, <1>3, <1>3a, MinExists
<1>5. Center!Oldest = Min(t)
  BY <1>1 DEF Center!Oldest, Min
<1> QED BY <1>1, <1>4, <1>5

LEMMA CenterBegins == ASSUME CenterInv, Center!CenterBegin PROVE CenterInv'
<1>1. PICK r, s, c : r = sources /\ s = 1..Len(sources) /\ c = [at |-> "import", read |-> r, todo |-> s, judged |-> <<>>]
  BY Zenon
<1>2. center' = c /\ UNCHANGED <<bars, moves, sources, results, centerFaults>>
  <2>1. center' = [Center!Idle EXCEPT !.at = "import", !.read = r, !.todo = s]
    BY <1>1 DEF Center!CenterBegin, Center!Ids
  <2>1a. c = [at |-> "import", read |-> r, todo |-> s, judged |-> <<>>]
    BY <1>1
  <2>2. center' = c
    BY <2>1, <2>1a, CenterNew, Zenon
  <2> QED BY <2>2 DEF Center!CenterBegin
<1>3. c \in CenterWork
  <2>1. s \in SUBSET Nat /\ sources \in Seq(CenterRow)
    BY <1>1, CenterFacts DEF CenterInv, CenterTyped
  <2> QED BY <1>1, <2>1 DEF CenterWork
<1>4. CenterGoes(c)
  BY <1>1 DEF CenterGoes
<1> QED BY <1>2, <1>3, <1>4, CenterFacts, CenterOn

LEMMA CenterEnds == ASSUME CenterInv, Center!SummaryEnd \/ Center!CenterCrash \/ Center!JudgeEnd \/ Center!ImportEnd PROVE CenterInv'
<1> USE CenterFacts
<1>1. CASE Center!SummaryEnd
  BY <1>1, CenterRests, CenterOn DEF Center!SummaryEnd
<1>2. CASE Center!CenterCrash
  <2>1. centerFaults' \in 0..MaxFaults
    BY <1>2, CenterAssumption, DeskAssumption DEF Center!CenterCrash
  <2> QED BY <1>2, <2>1, CenterRests, CenterOn DEF Center!CenterCrash
<1>3. CASE Center!JudgeEnd
  <2>1. CASE center.judged = <<>>
    BY <1>3, <2>1, CenterRests, CenterOn DEF Center!JudgeEnd
  <2>2. CASE center.judged # <<>>
    <3>1. PICK m, c : m = center /\ c = [at |-> "write", read |-> m.read, todo |-> m.todo, judged |-> m.judged]
      BY Zenon
    <3>2. center' = c
      BY <1>3, <2>2, <3>1, CenterSets, Zenon DEF Center!JudgeEnd
    <3>3. m \in CenterWork /\ m.at = "judge" /\ CenterGoes(m) /\ m.judged # <<>>
      BY <1>3, <2>2, <3>1 DEF Center!JudgeEnd
    <3>4. c \in CenterWork /\ c.at = "write" /\ c.todo = m.todo /\ c.judged = m.judged
      BY <3>1, <3>3 DEF CenterWork
    <3>5. CenterGoes(c)
      BY <3>3, <3>4 DEF CenterGoes
    <3> QED BY <1>3, <3>2, <3>4, <3>5, CenterOn DEF Center!JudgeEnd
  <2> QED BY <2>1, <2>2
<1>4. CASE Center!ImportEnd
  <2>1. PICK s, c : s = {i \in 1..Len(sources) : results[i].result = "OPEN"} /\ c = [at |-> "judge", read |-> <<>>, todo |-> s, judged |-> <<>>]
    BY Zenon
  <2>2. center' = c
    <3>1. center' = [Center!Idle EXCEPT !.at = "judge", !.todo = s]
      BY <1>4, <2>1 DEF Center!ImportEnd, Center!Ids
    <3> QED BY <2>1, <3>1, CenterNew, Zenon
  <2>3. c \in CenterWork
    BY <2>1 DEF CenterWork
  <2>4. CenterGoes(c)
    BY <2>1 DEF CenterGoes
  <2> QED BY <1>4, <2>2, <2>3, <2>4, CenterOn, Zenon DEF Center!ImportEnd
<1> QED BY <1>1, <1>2, <1>3, <1>4

LEMMA CenterImports == ASSUME CenterInv, Center!ImportOne
    PROVE  CenterInv' /\ \A j \in 1..CenterRows : results[j].result \notin {"none", "OPEN"} => results'[j] = results[j]
<1>1. PICK m, t, i : m = center /\ t = center.todo /\ i = Center!Oldest
  OBVIOUS
<1>2. m \in CenterWork /\ CenterGoes(m) /\ m.at = "import" /\ i \in t /\ i \in 1..Len(sources) /\ i \in 1..Len(m.read)
  BY <1>1, CenterFacts, CenterOldest DEF Center!ImportOne, CenterGoes
<1>3. PICK c : c = [at |-> m.at, read |-> m.read, todo |-> t \ {i}, judged |-> m.judged]
  BY Zenon
<1>4. center' = c /\ UNCHANGED <<bars, moves, sources, centerFaults>>
  <2>1. PICK d : d = t \ {i}
    BY Zenon
  <2>2. center' = [m EXCEPT !.todo = d]
    BY <1>1, <2>1 DEF Center!ImportOne
  <2>3. [m EXCEPT !.todo = d] = [at |-> m.at, read |-> m.read, todo |-> d, judged |-> m.judged]
    BY <1>2, CenterSets, Zenon
  <2> QED BY <1>3, <2>1, <2>2, <2>3, Zenon DEF Center!ImportOne
<1>5. PICK r : r = Center!Imported(m.read[i])
  OBVIOUS
<1>6. r \in CenterResult /\ r.by = "source"
  <2>1. m.read[i] \in CenterRow
    BY <1>2 DEF CenterWork
  <2>2. m.read[i].status \in Center!Statuses
    BY <2>1 DEF CenterRow
  <2> QED BY <1>5, <2>2, CenterAssumption DEF Center!Imported, CenterResult
<1>7. results' = results \/ (results[i].result = "none" /\ results' = [results EXCEPT ![i] = r])
  BY <1>1, <1>5 DEF Center!ImportOne
<1>8. i \in 1..CenterRows /\ \A j \in 1..CenterRows : j = i \/ j # i
  BY <1>2, CenterFacts, CenterAssumption
<1>9. results \in [1..CenterRows -> CenterResult]
  BY DEF CenterInv, CenterTyped
<1>10. /\ results' \in [1..CenterRows -> CenterResult]
       /\ \A j \in 1..CenterRows : results'[j] = results[j] \/ (j = i /\ results[i].result = "none" /\ results'[j] = r)
  BY <1>6, <1>7, <1>8, <1>9, Zenon
<1>11. CenterTyped'
  <2>1. c \in CenterWork
    BY <1>1, <1>2, <1>3 DEF CenterWork
  <2>2. \A j \in 1..CenterRows : j \notin 1..Len(sources) => results'[j] = Center!NotImported
    BY <1>2, <1>10 DEF CenterInv, CenterTyped
  <2> QED BY <1>4, <1>10, <2>1, <2>2 DEF CenterInv, CenterTyped
<1>12. CenterBusy'
  <2>1. c.at = "import" /\ c.judged = <<>> /\ c.todo \subseteq 1..Len(sources) /\ c.read = m.read /\ \A j \in c.todo : j \in 1..Len(m.read)
    BY <1>1, <1>2, <1>3 DEF CenterGoes
  <2> QED BY <1>4, <2>1 DEF CenterBusy, CenterGoes
<1>13. CenterTouched'
  <2>1. ASSUME NEW j \in 1..Len(sources) PROVE Touched(j, results[j])'
    <3>1. j \in 1..CenterRows
      BY CenterFacts, CenterAssumption
    <3>2. CASE results'[j] = results[j]
      BY <1>4, <3>2, Zenon DEF CenterInv, CenterTouched, Touched
    <3>3. CASE results'[j] = r
      BY <1>6, <3>3 DEF Touched
    <3> QED BY <1>10, <3>1, <3>2, <3>3
  <2> QED BY <1>4, <2>1 DEF CenterTouched
<1> QED BY <1>10, <1>11, <1>12, <1>13 DEF CenterInv

LEMMA CenterJudgedRows ==
    ASSUME NEW m, NEW j, CenterGoes(m), j = m.judged
    PROVE  \A k \in 1..Len(j) :
             /\ j[k].id \in 1..Len(sources) /\ j[k].id \notin m.todo /\ results[j[k].id].result = "OPEN"
             /\ Touched(j[k].id, j[k].verdict)
             /\ \A n \in 1..Len(j) : n # k => j[n].id # j[k].id
  BY DEF CenterGoes

(* What the candles say of a trade. *)
LEMMA CenterSettles ==
    ASSUME CenterInv, NEW i \in 1..Len(sources), NEW F \in SUBSET Center!Fetched(i), F = {} \/ F = Center!Fetched(i),
           NEW v, v = Center!SettleVerdict(i, F)
    PROVE  v \in CenterResult /\ Touched(i, v)
<1> USE CenterAssumption
<1>1. PICK o, n : o = sources[i].opened /\ n = Len(bars)
  BY Zenon
<1>2. o \in Nat /\ o >= 1 /\ n \in Nat /\ n \in 1..CenterEnd
  BY <1>1, CenterFacts DEF CenterInv, CenterTyped
<1>3. PICK f : f = Center!Lower(n, o + Limit)
  OBVIOUS
<1>4. f \in Nat /\ f <= n /\ Center!Fetched(i) = (o + 1)..f
  <2>1. o + Limit \in Nat
    BY <1>2
  <2>2. f \in Nat /\ f <= n
    BY <1>2, <1>3, <2>1 DEF Center!Lower
  <2>3. Center!Fetched(i) = (o + 1)..f
    BY <1>1, <1>3, Zenon DEF Center!Fetched, Center!Forming
  <2> QED BY <2>2, <2>3
<1>5. F \subseteq 1..n /\ \A k \in F : k \in (o + 1)..n
  BY <1>2, <1>4
<1>6. PICK hit : hit = {k \in F : Center!CheckCandle(bars[k]) # "none"}
  BY Zenon
<1>7. CASE n - o > Timeout
  <2>1. v = Center!Verdict("TIMEOUT", n)
    BY <1>1, <1>7 DEF Center!SettleVerdict, Center!Forming
  <2>2. n \in 0..CenterEnd
    BY <1>2
  <2>3. v.result = "TIMEOUT" /\ v \in CenterResult
    BY <2>1, <2>2 DEF Center!Verdict, CenterResult
  <2> QED BY <2>3 DEF Touched, Center!Hits
<1>8. CASE ~(n - o > Timeout) /\ hit = {}
  <2>1. v = Center!Verdict("OPEN", 0)
    BY <1>1, <1>6, <1>8 DEF Center!SettleVerdict, Center!Forming
  <2>2. v.result = "OPEN" /\ v \in CenterResult
    BY <2>1 DEF Center!Verdict, CenterResult, Center!Statuses
  <2> QED BY <2>2 DEF Touched, Center!Hits
<1>9. CASE ~(n - o > Timeout) /\ hit # {}
  <2>1. PICK first : first = CHOOSE k \in hit : \A m \in hit : k <= m
    OBVIOUS
  <2>2. first = Min(hit)
    BY <2>1 DEF Min
  <2>3. hit \in SUBSET (1..n)
    BY <1>5, <1>6, Zenon
  <2>4. IsFiniteSet(hit)
    BY <1>2, <2>3, CountMore, Zenon
  <2>5. hit \in SUBSET Int
    BY <2>3
  <2>6. Min(hit) \in hit /\ \A m \in hit : Min(hit) <= m
    BY <1>9, <2>4, <2>5, MinExists
  <2>6a. first \in hit /\ (\A m \in hit : first <= m)
    BY <2>2, <2>6
  <2>6b. first \in F
    BY <1>6, <2>6a
  <2>6c. first \in (o + 1)..n /\ first \in Nat /\ first \in 1..n
    BY <1>2, <1>5, <2>6b
  <2>7. first \in hit /\ (\A m \in hit : first <= m) /\ first \in (o + 1)..n /\ first \in Nat /\ first \in 1..n
    BY <2>6a, <2>6c
  <2>8. PICK w : w = Center!CheckCandle(bars[first])
    OBVIOUS
  <2>9. v = Center!Verdict(w, first)
    BY <1>1, <1>6, <1>9, <2>1, <2>8 DEF Center!SettleVerdict, Center!Forming
  <2>10. bars[first].low \in Nat /\ bars[first].high \in Nat
    BY <1>1, <2>7, CenterFacts
  <2>11. w # "none" /\ w \in Center!Hits
    BY <1>6, <2>7, <2>8 DEF Center!CheckCandle, Center!Hits
  <2>12. /\ w = "SL" => bars[first].low <= StopLevel
         /\ w = "TP1" => bars[first].high >= Target1
         /\ w = "TP2" => bars[first].high >= Target2
    BY <2>8, <2>10 DEF Center!CheckCandle
  <2>13. first \in 0..CenterEnd
    BY <1>2, <2>7
  <2>14. v \in CenterResult /\ v.result = w /\ v.bar = first
    BY <2>9, <2>11, <2>13 DEF Center!Verdict, CenterResult
  <2>15. ASSUME NEW k \in (o + 1)..(first - 1) PROVE bars[k].low > StopLevel /\ bars[k].high < Target1
    <3>1. F = Center!Fetched(i)
      BY <2>6b
    <3>1a. F = (o + 1)..f
      BY <1>4, <3>1
    <3>1b. first <= f /\ f \in Int /\ k \in Int /\ k >= o + 1 /\ k <= first - 1
      BY <1>2, <1>4, <2>6b, <2>7, <3>1a
    <3>2. k \in F
      BY <1>2, <2>7, <3>1a, <3>1b
    <3>3. k \notin hit
      BY <1>2, <2>7
    <3>4. Center!CheckCandle(bars[k]) = "none" /\ k \in 1..Len(bars)
      BY <1>1, <1>5, <1>6, <3>2, <3>3
    <3>5. bars[k].low \in Nat /\ bars[k].high \in Nat
      BY <3>4, CenterFacts
    <3> QED BY <3>4, <3>5 DEF Center!CheckCandle
  <2> QED BY <1>1, <2>7, <2>12, <2>14, <2>15 DEF Touched
<1> QED BY <1>7, <1>8, <1>9

LEMMA CenterJudges == ASSUME CenterInv, NEW served \in BOOLEAN, Center!JudgeOne(served) PROVE CenterInv'
<1>1. PICK m, t, i, j : m = center /\ t = center.todo /\ i = Center!Oldest /\ j = m.judged
  OBVIOUS
<1>2. m \in CenterWork /\ CenterGoes(m) /\ m.at = "judge" /\ i \in t /\ i \in 1..Len(sources) /\ results[i].result = "OPEN"
  BY <1>1, CenterFacts, CenterOldest DEF Center!JudgeOne, CenterGoes
<1>3. PICK v : v = Center!SettleVerdict(i, IF served THEN Center!Fetched(i) ELSE {})
  OBVIOUS
<1>4. v \in CenterResult /\ Touched(i, v)
  <2>1. PICK F : F = IF served THEN Center!Fetched(i) ELSE {}
    BY Zenon
  <2> QED BY <1>2, <1>3, <2>1, CenterSettles
<1>5. PICK d, e : d = t \ {i} /\ e = [id |-> i, verdict |-> v]
  BY Zenon
<1>6. PICK g : g = IF v.result = "OPEN" THEN j ELSE Append(j, e)
  BY Zenon
<1>7. PICK c : c = [at |-> m.at, read |-> m.read, todo |-> d, judged |-> g]
  BY Zenon
<1>8. center' = c
  <2>1. center' = [m EXCEPT !.todo = d, !.judged = g]
    BY <1>1, <1>3, <1>5, <1>6 DEF Center!JudgeOne
  <2>1a. m \in CenterWork
    BY <1>2
  <2>2. [m EXCEPT !.todo = d, !.judged = g] = [at |-> m.at, read |-> m.read, todo |-> d, judged |-> g]
    BY <2>1a, CenterSetsTwo, Zenon
  <2> QED BY <1>7, <2>1, <2>2
<1>9. j \in Seq(CenterJudged) /\ e \in CenterJudged /\ Len(j) \in Nat
  BY <1>1, <1>2, <1>4, <1>5, CenterFacts DEF CenterWork, CenterJudged
<1>10. g = j \/ g = Append(j, e)
  BY <1>6
<1>11. g \in Seq(CenterJudged) /\ \A k \in 1..Len(g) : (k \in 1..Len(j) /\ g[k] = j[k]) \/ (k = Len(j) + 1 /\ g[k] = e)
  BY <1>9, <1>10
<1>12. c \in CenterWork
  <2>1. d \in SUBSET Nat
    BY <1>1, <1>2, <1>5 DEF CenterWork
  <2> QED BY <1>2, <1>7, <1>11, <2>1 DEF CenterWork
<1>13. CenterGoes(c)
  <2>1. c.todo = d /\ c.at = "judge" /\ c.judged = g /\ d \subseteq t /\ i \notin d
    BY <1>2, <1>5, <1>7
  <2>2. d \subseteq 1..Len(sources) /\ \A k \in d : results[k].result = "OPEN"
    BY <1>1, <1>2, <2>1 DEF CenterGoes
  <2>3. \A k \in 1..Len(j) :
          /\ j[k].id \in 1..Len(sources) /\ j[k].id \notin m.todo /\ results[j[k].id].result = "OPEN"
          /\ Touched(j[k].id, j[k].verdict)
          /\ \A n \in 1..Len(j) : n # k => j[n].id # j[k].id
    BY <1>1, <1>2, CenterJudgedRows
  <2>3a. i \in m.todo /\ d \subseteq m.todo
    BY <1>1, <1>2, <2>1
  <2>4. e.id = i /\ e.verdict = v
    BY <1>5
  <2>5. ASSUME NEW k \in 1..Len(g)
        PROVE  /\ g[k].id \in 1..Len(sources) /\ g[k].id \notin d /\ results[g[k].id].result = "OPEN"
               /\ Touched(g[k].id, g[k].verdict)
               /\ \A n \in 1..Len(g) : n # k => g[n].id # g[k].id
    <3>1. CASE k \in 1..Len(j) /\ g[k] = j[k]
      <4>1. ASSUME NEW n \in 1..Len(g), n # k PROVE g[n].id # g[k].id
        <5>1. CASE n \in 1..Len(j) /\ g[n] = j[n]
          BY <2>3, <3>1, <4>1, <5>1
        <5>2. CASE g[n] = e
          BY <2>3, <2>3a, <2>4, <3>1, <5>2
        <5> QED BY <1>11, <5>1, <5>2
      <4> QED BY <2>1, <2>3, <2>3a, <3>1, <4>1
    <3>2. CASE k = Len(j) + 1 /\ g[k] = e
      <4>1. ASSUME NEW n \in 1..Len(g), n # k PROVE g[n].id # g[k].id
        <5>1. n \in 1..Len(j) /\ g[n] = j[n]
          BY <1>11, <3>2, <4>1
        <5> QED BY <2>3, <2>3a, <2>4, <3>2, <5>1
      <4> QED BY <1>2, <1>4, <2>1, <2>4, <3>2, <4>1
    <3> QED BY <1>11, <3>1, <3>2
  <2> QED BY <2>1, <2>2, <2>5, Zenon DEF CenterGoes
<1>14. centerFaults' \in 0..MaxFaults /\ UNCHANGED <<bars, moves, sources, results>>
  BY CenterFacts, CenterAssumption, DeskAssumption DEF Center!JudgeOne
<1> QED BY <1>8, <1>12, <1>13, <1>14, CenterOn

LEMMA CenterWrites == ASSUME CenterInv, Center!WriteOne
    PROVE  CenterInv' /\ \A j \in 1..CenterRows : results[j].result \notin {"none", "OPEN"} => results'[j] = results[j]
<1>1. PICK m, j, d : m = center /\ j = m.judged /\ d = Head(j)
  OBVIOUS
<1>2. m \in CenterWork /\ CenterGoes(m) /\ m.at = "write" /\ j \in Seq(CenterJudged) /\ Len(j) \in Nat /\ j # <<>>
  BY <1>1, CenterFacts DEF Center!WriteOne, CenterGoes, CenterWork
<1>3. Len(j) >= 1 /\ d = j[1] /\ 1 \in 1..Len(j)
  BY <1>1, <1>2
<1>4. PICK i, v : i = d.id /\ v = d.verdict
  OBVIOUS
<1>5. \A k \in 1..Len(j) :
        /\ j[k].id \in 1..Len(sources) /\ j[k].id \notin m.todo /\ results[j[k].id].result = "OPEN"
        /\ Touched(j[k].id, j[k].verdict)
        /\ \A n \in 1..Len(j) : n # k => j[n].id # j[k].id
  BY <1>1, <1>2, CenterJudgedRows
<1>6. i \in 1..Len(sources) /\ i \notin m.todo /\ results[i].result = "OPEN" /\ Touched(i, v)
      /\ \A k \in 1..Len(j) : k # 1 => j[k].id # i
  BY <1>3, <1>4, <1>5
<1>7. v \in CenterResult
  <2>1. d \in CenterJudged
    BY <1>2, <1>3
  <2> QED BY <1>4, <2>1 DEF CenterJudged
<1>8. results' = [results EXCEPT ![i] = v] /\ UNCHANGED <<bars, moves, sources, centerFaults>>
  BY <1>1, <1>4 DEF Center!WriteOne
<1>9. results \in [1..CenterRows -> CenterResult] /\ i \in 1..CenterRows
  BY <1>6, CenterFacts, CenterAssumption DEF CenterInv, CenterTyped
<1>10. /\ results' \in [1..CenterRows -> CenterResult] /\ results'[i] = v
       /\ \A k \in 1..CenterRows : k # i => results'[k] = results[k]
  BY <1>7, <1>8, <1>9
<1>11. PICK c : c = center'
  OBVIOUS
<1>12. c \in CenterWork /\ CenterGoes(c)'
  <2>1. CASE Len(j) = 1
    <3>1. c = Center!Idle
      BY <1>1, <1>11, <2>1 DEF Center!WriteOne
    <3>2. c.todo = {} /\ c.at = "idle" /\ c.judged = <<>>
      BY <3>1 DEF Center!Idle
    <3> QED BY <3>1, <3>2, CenterRests DEF CenterGoes
  <2>2. CASE Len(j) # 1
    <3>1. PICK g : g = Tail(j)
      BY Zenon
    <3>2. c = [at |-> m.at, read |-> m.read, todo |-> m.todo, judged |-> g]
      <4>1. c = [m EXCEPT !.judged = g]
        BY <1>1, <1>11, <2>2, <3>1 DEF Center!WriteOne
      <4> QED BY <1>2, <4>1, CenterSets, Zenon
    <3>2a. g \in Seq(CenterJudged) /\ Len(g) = Len(j) - 1 /\ \A k \in 1..Len(g) : g[k] = j[k + 1]
      BY <1>2, <3>1, HeadTailProperties
    <3>3. g \in Seq(CenterJudged) /\ Len(g) = Len(j) - 1 /\ Len(g) >= 1 /\ \A k \in 1..Len(g) : g[k] = j[k + 1] /\ k + 1 \in 1..Len(j) /\ k + 1 # 1
      BY <1>2, <1>3, <2>2, <3>2a
    <3>4. c \in CenterWork
      BY <1>2, <3>2, <3>3 DEF CenterWork
    <3>5. c.at = "write" /\ c.todo = m.todo /\ c.judged = g /\ g # <<>>
      BY <1>2, <3>2, <3>3
    <3>6. m.todo \subseteq 1..Len(sources') /\ \A k \in m.todo : results'[k].result = "OPEN"
      <4>1. \A k \in m.todo : k \in 1..Len(sources) /\ k # i /\ results[k].result = "OPEN"
        BY <1>2, <1>6 DEF CenterGoes
      <4>2. \A k \in 1..Len(sources) : k \in 1..CenterRows
        BY CenterFacts, CenterAssumption
      <4> QED BY <1>8, <1>10, <4>1, <4>2
    <3>7. ASSUME NEW k \in 1..Len(g)
          PROVE  /\ g[k].id \in 1..Len(sources') /\ g[k].id \notin m.todo /\ results'[g[k].id].result = "OPEN"
                 /\ Touched(g[k].id, g[k].verdict)'
                 /\ \A n \in 1..Len(g) : n # k => g[n].id # g[k].id
      <4>1. PICK l : l = k + 1
        OBVIOUS
      <4>2. l \in 1..Len(j) /\ l # 1 /\ g[k] = j[l]
        BY <3>3, <4>1
      <4>3. ASSUME NEW n \in 1..Len(g), n # k PROVE g[n].id # g[k].id
        <5>1. n + 1 \in 1..Len(j) /\ n + 1 # l /\ g[n] = j[n + 1]
          BY <3>3, <4>1, <4>3
        <5> QED BY <1>5, <4>2, <5>1
      <4>4. g[k].id \in 1..Len(sources) /\ g[k].id # i /\ g[k].id \in 1..CenterRows
        BY <1>5, <1>6, <4>2, CenterFacts, CenterAssumption
      <4>5. g[k].id \notin m.todo /\ results[g[k].id].result = "OPEN" /\ Touched(g[k].id, g[k].verdict)
        BY <1>5, <4>2
      <4>6. Touched(g[k].id, g[k].verdict)'
        BY <1>8, <4>5 DEF Touched
      <4> QED BY <1>8, <1>10, <4>3, <4>4, <4>5, <4>6
    <3> QED BY <3>4, <3>5, <3>6, <3>7 DEF CenterGoes
  <2> QED BY <2>1, <2>2
<1>13. CenterTyped'
  <2>1. \A k \in 1..CenterRows : k \notin 1..Len(sources) => results'[k] = Center!NotImported
    BY <1>6, <1>10 DEF CenterInv, CenterTyped
  <2> QED BY <1>8, <1>10, <1>11, <1>12, <2>1 DEF CenterInv, CenterTyped
<1>14. CenterBusy'
  BY <1>11, <1>12 DEF CenterBusy, CenterGoes, Touched
<1>15. CenterTouched'
  <2>1. ASSUME NEW k \in 1..Len(sources) PROVE Touched(k, results[k])'
    <3>1. k \in 1..CenterRows
      BY CenterFacts, CenterAssumption
    <3>2. CASE k # i
      BY <1>8, <1>10, <3>1, <3>2 DEF CenterInv, CenterTouched, Touched
    <3>3. CASE k = i
      BY <1>6, <1>8, <1>10, <3>3 DEF Touched
    <3> QED BY <3>2, <3>3
  <2> QED BY <1>8, <2>1 DEF CenterTouched
<1>16. \A k \in 1..CenterRows : results[k].result \notin {"none", "OPEN"} => results'[k] = results[k]
  BY <1>6, <1>10
<1> QED BY <1>13, <1>14, <1>15, <1>16 DEF CenterInv

LEMMA CenterStep ==
    ASSUME CenterInv, [Center!Next]_centerVars
    PROVE  CenterInv' /\ \A j \in 1..CenterRows : results[j].result \notin {"none", "OPEN"} => results'[j] = results[j]
<1>1. CASE UNCHANGED centerVars
  BY <1>1 DEF centerVars, CenterInv, CenterTyped, CenterBusy, CenterGoes, CenterTouched, Touched
<1>2. CASE Center!ImportOne \/ Center!WriteOne
  BY <1>2, CenterImports, CenterWrites
<1>3. CASE Center!Market \/ Center!Sources
  <2>1. results' = results
    BY <1>3, Zenon DEF Center!Market, Center!Sources, Center!Tick, Center!Move, Center!OpenSource, Center!CloseSource
  <2> QED BY <1>3, <2>1, CenterMarket
<1>4. CASE Center!CenterBegin \/ Center!SummaryEnd \/ Center!CenterCrash \/ Center!JudgeEnd \/ Center!ImportEnd
  <2>1. results' = results
    BY <1>4 DEF Center!CenterBegin, Center!SummaryEnd, Center!CenterCrash, Center!JudgeEnd, Center!ImportEnd
  <2> QED BY <1>4, <2>1, CenterBegins, CenterEnds
<1>5. CASE Center!JudgeOne(TRUE) \/ Center!JudgeOne(FALSE)
  <2>1. results' = results
    BY <1>5 DEF Center!JudgeOne
  <2> QED BY <1>5, <2>1, CenterJudges, Zenon
<1> QED BY <1>1, <1>2, <1>3, <1>4, <1>5, Zenon DEF Center!Next, Center!Center, Center!CenterStep

(* The store of the scans. *)
StoreStatus == {"RUNNING", "SUCCEEDED", "FAILED"}
StoreRow == [Store!Kinds -> {"no", "scan", "command"}]
StoreSignal(n) == [run : 1..MaxRuns, snap : 1..n, sym : StoreSymbols]
StoreEarly == {"universe", "klines", "regime", "scores", "sectors", "capital", "space"}
StoreProc == [cmd : {"idle", "scan", "regime"}, step : StoreEarly \cup {"", "signals", "empty", "finalize", "fork", "save"},
              run : Nat, snap : Nat, fork : Nat]
StoreSnaps == 1..Len(snaps)
StoreTyped ==
  /\ crashes \in 0..MaxCrashes
  /\ runs \in Seq(StoreStatus) /\ Len(runs) <= MaxRuns
  /\ snaps \in Seq(Store!Snapshot)
  /\ \A i \in StoreSnaps : (snaps[i].run = 0 <=> snaps[i].strategy = "manual") /\ snaps[i].run <= Len(runs)
  /\ saved \in Seq(StoreRow) /\ Len(saved) = Len(runs)
  /\ signals \subseteq StoreSignal(Len(snaps))
(* How far command p got: before its signals a scan has one snapshot, an open one, and it *)
(* forks only from final ones.                                                           *)
StoreGoes(p) ==
  /\ p \in StoreProc
  /\ p.cmd = "idle" => p = Store!Idle
  /\ p.cmd = "scan" =>
       /\ p.run \in 1..Len(runs) /\ p.snap \in StoreSnaps /\ snaps[p.snap].run = p.run /\ p.fork <= Len(Forks)
       /\ \A i \in StoreSnaps : snaps[i].run = p.run => i <= p.snap
       /\ p.step \in StoreEarly => \A i \in StoreSnaps : snaps[i].run = p.run => i = p.snap /\ ~snaps[i].final
       /\ p.step \in {"universe", "klines"} => runs[p.run] = "RUNNING"
       /\ p.step = "fork" => p.fork >= 1 /\ \A i \in StoreSnaps : snaps[i].run = p.run => snaps[i].final
  /\ p.cmd = "regime" => p.snap \in StoreSnaps /\ snaps[p.snap].run = 0 /\ p.step # "fork"
(* A run has a further snapshot only after the ones before are final. *)
StoreOrder == \A i, j \in StoreSnaps : i < j /\ snaps[i].run = snaps[j].run /\ snaps[i].run # 0 => snaps[i].final
StoreUnfinished == {i \in StoreSnaps : ~snaps[i].final}
StoreFailed == {r \in 1..Len(runs) : runs[r] = "FAILED"}
StoreWorking(p) == IF p.cmd = "idle" \/ p.step = "fork" THEN 0 ELSE 1
StoreCounted == Cardinality(StoreUnfinished) <= crashes + Cardinality(StoreFailed) + StoreWorking(proc)
StoreInv == StoreTyped /\ StoreGoes(proc) /\ StoreOrder /\ StoreCounted

LEMMA StoreFacts == ASSUME StoreInv
    PROVE  /\ Len(snaps) \in Nat /\ Len(runs) \in Nat /\ Len(saved) = Len(runs) /\ MaxRuns \in Nat /\ MaxCrashes \in Nat /\ crashes \in Nat
           /\ \A i \in StoreSnaps : snaps[i] \in Store!Snapshot
           /\ \A i \in StoreSnaps : snaps[i].run \in Nat /\ snaps[i].final \in BOOLEAN
           /\ \A i \in StoreSnaps : snaps[i].run <= Len(runs)
           /\ DOMAIN snaps = StoreSnaps /\ DOMAIN runs = 1..Len(runs)
           /\ proc \in StoreProc /\ Len(Forks) \in Nat
<1> USE StoreAssumption
<1>1. /\ Len(snaps) \in Nat /\ Len(runs) \in Nat /\ Len(saved) = Len(runs) /\ crashes \in Nat
      /\ DOMAIN snaps = StoreSnaps /\ DOMAIN runs = 1..Len(runs) /\ Len(Forks) \in Nat
  BY DEF StoreInv, StoreTyped, StoreSnaps
<1>2. \A i \in StoreSnaps : snaps[i] \in Store!Snapshot
  BY DEF StoreInv, StoreTyped, StoreSnaps
<1>3. \A i \in StoreSnaps : snaps[i].run \in Nat /\ snaps[i].final \in BOOLEAN
  BY <1>2 DEF Store!Snapshot
<1> QED BY <1>1, <1>2, <1>3 DEF StoreInv, StoreTyped, StoreGoes

LEMMA StoreCounts == ASSUME StoreInv
    PROVE  /\ IsFiniteSet(StoreUnfinished) /\ Cardinality(StoreUnfinished) \in Nat
           /\ IsFiniteSet(StoreFailed) /\ Cardinality(StoreFailed) \in Nat
<1>1. Len(snaps) \in Nat /\ Len(runs) \in Nat
  BY StoreFacts
<1>2. PICK m, n, U, F : m = Len(snaps) /\ n = Len(runs) /\ U = StoreUnfinished /\ F = StoreFailed
  BY Zenon
<1>3. m \in Nat /\ n \in Nat /\ U \in SUBSET (1..m) /\ F \in SUBSET (1..n)
  BY <1>1, <1>2 DEF StoreUnfinished, StoreFailed, StoreSnaps
<1>4. IsFiniteSet(U) /\ Cardinality(U) \in Nat
  BY <1>3, CountMore, Zenon
<1>5. IsFiniteSet(F) /\ Cardinality(F) \in Nat
  BY <1>3, CountMore, Zenon
<1> QED BY <1>2, <1>4, <1>5

LEMMA StoreMeans == ASSUME StoreInv PROVE Store!TypeOK /\ Store!NothingLeftOpen
<1>1. Store!TypeOK
  <2>1. \A i \in DOMAIN snaps : snaps[i].run = 0 <=> snaps[i].strategy = "manual"
    BY StoreFacts DEF StoreInv, StoreTyped
  <2>2. signals \subseteq Store!Signal
    BY StoreFacts DEF StoreInv, StoreTyped, StoreSignal, Store!Signal, StoreSnaps
  <2> QED BY <2>1, <2>2 DEF StoreInv, StoreTyped, StoreRow, StoreStatus, Store!TypeOK
<1>2. Store!NothingLeftOpen
  <2> SUFFICES ASSUME proc = Store!Idle
               PROVE  Store!Cardinality({i \in DOMAIN snaps : ~snaps[i].final})
                        <= crashes + Store!Cardinality({r \in DOMAIN runs : runs[r] = "FAILED"})
    BY DEF Store!NothingLeftOpen
  <2>1. \A S : Store!Cardinality(S) = Cardinality(S)
    BY DEF Store!Cardinality, Cardinality
  <2>2. {i \in DOMAIN snaps : ~snaps[i].final} = StoreUnfinished /\ {r \in DOMAIN runs : runs[r] = "FAILED"} = StoreFailed
    BY StoreFacts DEF StoreUnfinished, StoreFailed
  <2>3. proc.cmd = "idle"
    BY Zenon DEF Store!Idle
  <2>4. Cardinality(StoreUnfinished) <= crashes + Cardinality(StoreFailed)
    BY <2>3, StoreCounts, StoreFacts DEF StoreInv, StoreCounted, StoreWorking
  <2> QED BY <2>1, <2>2, <2>4, Zenon
<1> QED BY <1>1, <1>2

LEMMA StoreInit == ASSUME Store!Init PROVE StoreInv
<1> USE StoreAssumption DEF Store!Init
<1>1. StoreTyped
  BY DEF StoreTyped, StoreSnaps
<1>2. StoreGoes(proc)
  BY Zenon DEF StoreGoes, Store!Idle, StoreProc
<1>3. StoreOrder
  BY DEF StoreOrder, StoreSnaps
<1>4. StoreCounted
  <2>1. StoreUnfinished = {} /\ StoreFailed = {}
    BY DEF StoreUnfinished, StoreFailed, StoreSnaps
  <2>2. Cardinality({}) = 0
    BY FS_EmptySet
  <2>3. proc.cmd = "idle" /\ StoreWorking(proc) = 0
    BY Zenon DEF Store!Idle, StoreWorking
  <2>4. crashes = 0
    OBVIOUS
  <2> QED BY <2>1, <2>2, <2>3, <2>4 DEF StoreCounted
<1> QED BY <1>1, <1>2, <1>3, <1>4 DEF StoreInv

(* A step that changes no snapshot. *)
LEMMA StoreQuiet ==
    ASSUME StoreInv, UNCHANGED snaps, runs' \in Seq(StoreStatus), Len(runs') = Len(runs),
           saved' \in Seq(StoreRow), Len(saved') = Len(saved), signals' \subseteq StoreSignal(Len(snaps)),
           crashes' \in 0..MaxCrashes, StoreGoes(proc)',
           Cardinality(StoreUnfinished) <= crashes' + Cardinality(StoreFailed') + StoreWorking(proc')
    PROVE  StoreInv'
<1>1. StoreTyped'
  BY DEF StoreInv, StoreTyped, StoreSnaps
<1>3. StoreOrder'
  BY Zenon DEF StoreInv, StoreOrder, StoreSnaps
<1>4. StoreCounted'
  BY DEF StoreCounted, StoreUnfinished, StoreSnaps
<1> QED BY <1>1, <1>3, <1>4 DEF StoreInv

LEMMA StoreSets ==
    ASSUME NEW p \in StoreProc, NEW s
    PROVE  [p EXCEPT !.step = s] = [cmd |-> p.cmd, step |-> s, run |-> p.run, snap |-> p.snap, fork |-> p.fork]
<1>1. PICK c, t, r, n, f : c = p.cmd /\ t = p.step /\ r = p.run /\ n = p.snap /\ f = p.fork
  OBVIOUS
<1>2. p = [cmd |-> c, step |-> t, run |-> r, snap |-> n, fork |-> f]
  BY <1>1, Zenon DEF StoreProc
<1>3. [p EXCEPT !.step = s] = [cmd |-> c, step |-> s, run |-> r, snap |-> n, fork |-> f]
  BY <1>2
<1> QED BY <1>1, <1>3

(* A scan goes on to its next step, its snapshots staying. *)
LEMMA StoreGoto ==
    ASSUME StoreInv, NEW s \in StoreEarly \cup {"signals", "empty", "finalize"}, proc.cmd = "scan", proc.step # "fork",
           s \in StoreEarly => proc.step \in StoreEarly, s \in {"universe", "klines"} => proc.step \in {"universe", "klines"} /\ runs' = runs,
           Store!Goto(s), Len(runs') = Len(runs), UNCHANGED snaps
    PROVE  /\ StoreGoes(proc)' /\ StoreWorking(proc) = 1 /\ StoreWorking(proc') = 1
<1>1. PICK p, q : p = proc /\ q = [cmd |-> p.cmd, step |-> s, run |-> p.run, snap |-> p.snap, fork |-> p.fork]
  BY Zenon
<1>2. p \in StoreProc /\ StoreGoes(p)
  BY <1>1, StoreFacts DEF StoreInv
<1>3. proc' = q
  <2>1. proc' = [p EXCEPT !.step = s]
    BY <1>1 DEF Store!Goto
  <2> QED BY <1>1, <1>2, <2>1, StoreSets
<1>4. /\ q \in StoreProc /\ q.cmd = "scan" /\ q.step = s /\ q.run = p.run /\ q.snap = p.snap /\ q.fork = p.fork
  BY <1>1, <1>2, Zenon DEF StoreProc
<1>5. s # "fork"
  BY DEF StoreEarly
<1>6. StoreGoes(q)'
  <2>1. /\ p.run \in 1..Len(runs) /\ p.snap \in StoreSnaps /\ snaps[p.snap].run = p.run /\ p.fork <= Len(Forks)
        /\ \A i \in StoreSnaps : snaps[i].run = p.run => i <= p.snap
        /\ p.step \in StoreEarly => \A i \in StoreSnaps : snaps[i].run = p.run => i = p.snap /\ ~snaps[i].final
        /\ p.step \in {"universe", "klines"} => runs[p.run] = "RUNNING"
    BY <1>1, <1>2, <1>4 DEF StoreGoes
  <2> QED BY <1>1, <1>4, <1>5, <2>1 DEF StoreGoes, StoreSnaps
<1> QED BY <1>1, <1>3, <1>4, <1>5, <1>6 DEF StoreWorking

(* The rows of a run are written. *)
LEMMA StoreWrites ==
    ASSUME StoreInv, NEW r \in 1..Len(runs), NEW kind \in Store!Kinds, NEW by \in {"scan", "command"}, Store!Write(r, kind, by)
    PROVE  saved' \in Seq(StoreRow) /\ Len(saved') = Len(saved) /\ \A q \in 1..Len(runs) : q # r => saved'[q] = saved[q]
<1>1. saved \in Seq(StoreRow) /\ Len(saved) = Len(runs) /\ Len(saved) \in Nat
  BY DEF StoreInv, StoreTyped
<1>2. PICK o, w : o = saved[r] /\ w = [o EXCEPT ![kind] = by]
  BY Zenon
<1>3. o \in StoreRow
  BY <1>1, <1>2
<1>4. w \in StoreRow
  BY <1>2, <1>3 DEF StoreRow
<1>5. saved' = [saved EXCEPT ![r] = w]
  BY <1>2 DEF Store!Write
<1> QED BY <1>1, <1>4, <1>5

(* What is final keeps its rows while those of a run are written that has none. *)
StoreKept == \A i \in StoreSnaps : snaps[i].final =>
  /\ snaps'[i] = snaps[i]
  /\ {x \in signals' : x.snap = i} = {x \in signals : x.snap = i}
  /\ snaps[i].run # 0 => saved'[snaps[i].run] = saved[snaps[i].run]

LEMMA StoreSpares ==
    ASSUME StoreInv, NEW r \in 1..Len(runs), NEW kind \in Store!Kinds, NEW by \in {"scan", "command"}, Store!Write(r, kind, by),
           UNCHANGED <<snaps, signals>>, \A i \in StoreSnaps : snaps[i].run = r => ~snaps[i].final
    PROVE  StoreKept
<1> SUFFICES ASSUME NEW i \in StoreSnaps, snaps[i].final, snaps[i].run # 0
             PROVE  saved'[snaps[i].run] = saved[snaps[i].run]
  BY DEF StoreKept
<1>1. PICK q : q = snaps[i].run
  OBVIOUS
<1>2. q \in 1..Len(runs) /\ q # r
  BY <1>1, StoreFacts
<1> QED BY <1>1, <1>2, StoreWrites

(* A command that ends, whether it is done or broken off. *)
LEMMA StoreEnds ==
    ASSUME StoreInv, proc' = Store!Idle
    PROVE  StoreGoes(proc)' /\ StoreWorking(proc') = 0
<1>1. Store!Idle.cmd = "idle" /\ Store!Idle \in StoreProc
  BY Zenon DEF Store!Idle, StoreProc
<1> QED BY <1>1 DEF StoreGoes, StoreWorking

(* The run a scan works on, and what its snapshot allows. *)
LEMMA StoreScan == ASSUME StoreInv, proc.cmd = "scan"
    PROVE  /\ proc.run \in 1..Len(runs) /\ proc.snap \in StoreSnaps /\ snaps[proc.snap].run = proc.run /\ proc.run \in Nat
           /\ proc.snap \in Nat /\ proc.fork \in Nat
           /\ proc.step \in StoreEarly => \A i \in StoreSnaps : snaps[i].run = proc.run => i = proc.snap /\ ~snaps[i].final
<1>1. proc.run \in Nat /\ proc.snap \in Nat /\ proc.fork \in Nat
  BY StoreFacts, Zenon DEF StoreProc
<1> QED BY <1>1 DEF StoreInv, StoreGoes

LEMMA StoreScanWrites ==
    ASSUME StoreInv, proc.cmd = "scan", proc.step \in StoreEarly,
           NEW s \in StoreEarly \cup {"signals", "empty", "finalize"}, s \in {"universe", "klines"} => proc.step \in {"universe", "klines"},
           Store!Goto(s), UNCHANGED <<runs, snaps, signals, crashes>>,
           saved' = saved \/ \E kind \in Store!Kinds : Store!Write(proc.run, kind, "scan")
    PROVE  StoreInv' /\ StoreKept
<1>1. PICK r : r = proc.run
  OBVIOUS
<1>2. r \in 1..Len(runs) /\ \A i \in StoreSnaps : snaps[i].run = r => ~snaps[i].final
  BY <1>1, StoreScan
<1>3. proc.step # "fork"
  BY DEF StoreEarly
<1>4. StoreGoes(proc)' /\ StoreWorking(proc) = 1 /\ StoreWorking(proc') = 1
  BY <1>3, StoreGoto
<1>5. Cardinality(StoreUnfinished) <= crashes' + Cardinality(StoreFailed') + StoreWorking(proc')
  BY <1>4 DEF StoreInv, StoreCounted, StoreFailed
<1>6. signals' \subseteq StoreSignal(Len(snaps)) /\ crashes' \in 0..MaxCrashes /\ runs' \in Seq(StoreStatus) /\ Len(runs') = Len(runs)
  BY DEF StoreInv, StoreTyped
<1>7. CASE saved' = saved
  <2>1. saved' \in Seq(StoreRow) /\ Len(saved') = Len(saved)
    BY <1>7 DEF StoreInv, StoreTyped
  <2>2. StoreInv'
    BY <1>4, <1>5, <1>6, <2>1, StoreQuiet
  <2> QED BY <1>7, <2>2 DEF StoreKept
<1>8. ASSUME NEW kind \in Store!Kinds, Store!Write(proc.run, kind, "scan") PROVE StoreInv' /\ StoreKept
  <2>1. Store!Write(r, kind, "scan")
    BY <1>1, <1>8
  <2>2. saved' \in Seq(StoreRow) /\ Len(saved') = Len(saved)
    BY <1>2, <2>1, StoreWrites
  <2>3. StoreKept
    BY <1>2, <2>1, StoreSpares
  <2>4. StoreInv'
    BY <1>4, <1>5, <1>6, <2>2, StoreQuiet
  <2> QED BY <2>3, <2>4
<1> QED BY <1>7, <1>8

LEMMA StoreEarlySteps ==
    ASSUME StoreInv, \/ Store!SaveUniverse \/ Store!ScoreRun
                     \/ Store!Analyze("sectors", "capital") \/ Store!Analyze("capital", "space") \/ Store!Analyze("space", "signals")
    PROVE  StoreInv' /\ StoreKept
<1>1. CASE Store!SaveUniverse
  <2>1. proc.cmd = "scan" /\ proc.step = "universe" /\ Store!Goto("klines") /\ UNCHANGED <<runs, snaps, signals, crashes>>
        /\ Store!Write(proc.run, "universe", "scan")
    BY <1>1 DEF Store!SaveUniverse, Store!At
  <2> QED BY <2>1, StoreScanWrites DEF StoreEarly, Store!Kinds
<1>2. CASE Store!ScoreRun
  <2>1. proc.cmd = "scan" /\ proc.step = "scores" /\ UNCHANGED <<runs, snaps, signals, crashes>>
        /\ ((Store!Write(proc.run, "scores", "scan") /\ Store!Goto("sectors")) \/ (Store!Goto("empty") /\ saved' = saved))
    BY <1>2 DEF Store!ScoreRun, Store!At
  <2> QED BY <2>1, StoreScanWrites DEF StoreEarly, Store!Kinds
<1>3. ASSUME NEW kind \in {"sectors", "capital", "space"}, NEW s \in {"capital", "space", "signals"}, Store!Analyze(kind, s)
      PROVE  StoreInv' /\ StoreKept
  <2>1. proc.cmd = "scan" /\ proc.step = kind /\ UNCHANGED <<runs, snaps, signals, crashes>>
        /\ Store!Write(proc.run, kind, "scan") /\ Store!Goto(s)
    BY <1>3 DEF Store!Analyze, Store!At
  <2> QED BY <2>1, StoreScanWrites DEF StoreEarly, Store!Kinds
<1> QED BY <1>1, <1>2, <1>3

LEMMA StoreDownload == ASSUME StoreInv, Store!CollectFails \/ Store!FinishCollect PROVE StoreInv' /\ StoreKept
<1>1. PICK r : r = proc.run
  OBVIOUS
<1>2. proc.cmd = "scan" /\ proc.step \in {"universe", "klines"} /\ UNCHANGED <<snaps, saved, signals, crashes>>
  BY DEF Store!CollectFails, Store!FinishCollect, Store!At
<1>3. r \in 1..Len(runs) /\ runs[r] = "RUNNING" /\ proc.step # "fork"
  BY <1>1, <1>2, StoreScan DEF StoreInv, StoreGoes
<1>4. StoreKept
  BY <1>2 DEF StoreKept
<1>5. /\ saved' \in Seq(StoreRow) /\ Len(saved') = Len(saved) /\ signals' \subseteq StoreSignal(Len(snaps)) /\ crashes' \in 0..MaxCrashes
      /\ runs \in Seq(StoreStatus)
  BY <1>2 DEF StoreInv, StoreTyped
<1>6. PICK n, F : n = Len(runs) /\ F = StoreFailed
  BY Zenon
<1>7. n \in Nat /\ F \in SUBSET (1..n) /\ r \notin F /\ r \in 1..n
  BY <1>3, <1>6, StoreFacts DEF StoreFailed
<1>8. CASE Store!CollectFails
  <2>1. runs' = [runs EXCEPT ![r] = "FAILED"] /\ proc' = Store!Idle
    BY <1>1, <1>8 DEF Store!CollectFails, Store!Stop
  <2>2. runs' \in Seq(StoreStatus) /\ Len(runs') = Len(runs) /\ runs'[r] = "FAILED" /\ \A q \in 1..Len(runs) : q # r => runs'[q] = runs[q]
    BY <1>3, <1>5, <2>1 DEF StoreStatus
  <2>3. StoreFailed' = F \cup {r}
    BY <1>6, <1>7, <2>2 DEF StoreFailed
  <2>4. IsFiniteSet(F)
    BY <1>7, CountMore, Zenon
  <2>5. Cardinality(F \cup {r}) = Cardinality(F) + 1
    BY <1>7, <2>4, FS_AddElement
  <2>6. StoreGoes(proc)' /\ StoreWorking(proc') = 0
    BY <2>1, StoreEnds
  <2>7. StoreWorking(proc) = 1
    BY <1>2, <1>3 DEF StoreWorking
  <2>8. Cardinality(StoreUnfinished) <= crashes' + Cardinality(StoreFailed') + StoreWorking(proc')
    BY <1>2, <1>6, <2>3, <2>5, <2>6, <2>7, StoreCounts, StoreFacts DEF StoreInv, StoreCounted
  <2> QED BY <1>2, <1>4, <1>5, <2>2, <2>6, <2>8, StoreQuiet
<1>9. CASE Store!FinishCollect
  <2>1. runs' = [runs EXCEPT ![r] = "SUCCEEDED"] /\ Store!Goto("regime")
    BY <1>1, <1>9 DEF Store!FinishCollect
  <2>2. runs' \in Seq(StoreStatus) /\ Len(runs') = Len(runs) /\ runs'[r] = "SUCCEEDED" /\ \A q \in 1..Len(runs) : q # r => runs'[q] = runs[q]
    BY <1>3, <1>5, <2>1 DEF StoreStatus
  <2>3. StoreFailed' = F
    BY <1>6, <1>7, <2>2 DEF StoreFailed
  <2>4. StoreGoes(proc)' /\ StoreWorking(proc) = 1 /\ StoreWorking(proc') = 1
    BY <1>2, <1>3, <2>1, <2>2, StoreGoto DEF StoreEarly
  <2>5. Cardinality(StoreUnfinished) <= crashes' + Cardinality(StoreFailed') + StoreWorking(proc')
    BY <1>2, <1>6, <2>3, <2>4 DEF StoreInv, StoreCounted
  <2> QED BY <1>2, <1>4, <1>5, <2>2, <2>4, <2>5, StoreQuiet
<1> QED BY <1>8, <1>9

LEMMA StoreSignals == ASSUME StoreInv, Store!GenerateSignals PROVE StoreInv' /\ StoreKept
<1>1. PICK s, r : s = proc.snap /\ r = snaps[s].run
  OBVIOUS
<1>2. proc.cmd = "scan" /\ proc.step \in {"signals", "empty"} /\ Store!Goto("finalize") /\ UNCHANGED <<runs, snaps, saved, crashes>>
  BY DEF Store!GenerateSignals, Store!At
<1>3. s \in StoreSnaps /\ r \in 1..Len(runs) /\ proc.step # "fork" /\ r \in 1..MaxRuns
  <2>1. s \in StoreSnaps /\ r \in 1..Len(runs)
    BY <1>1, <1>2, StoreScan
  <2> QED BY <1>2, <2>1, StoreFacts DEF StoreInv, StoreTyped
<1>4. PICK syms \in SUBSET StoreSymbols : Store!SaveSignals(s, syms)
  <2>1. PICK syms \in IF proc.step = "empty" THEN {{}} ELSE Store!Candidates(proc.snap) : Store!SaveSignals(proc.snap, syms)
    BY DEF Store!GenerateSignals
  <2>2. syms \in SUBSET StoreSymbols
    BY <2>1 DEF Store!Candidates
  <2> QED BY <1>1, <2>1, <2>2
<1>5. PICK kept, new : kept = {x \in signals : x.snap # s} /\ new = {[run |-> r, snap |-> s, sym |-> y] : y \in syms}
  BY Zenon
<1>6. signals' = kept \cup new /\ ~snaps[s].final
  BY <1>1, <1>4, <1>5 DEF Store!SaveSignals, Store!Writable
<1>7. signals' \subseteq StoreSignal(Len(snaps))
  <2>1. new \subseteq StoreSignal(Len(snaps))
    BY <1>3, <1>4, <1>5 DEF StoreSignal, StoreSnaps
  <2> QED BY <1>5, <1>6, <2>1 DEF StoreInv, StoreTyped
<1>8. StoreKept
  <2> SUFFICES ASSUME NEW i \in StoreSnaps, snaps[i].final
               PROVE  {x \in signals' : x.snap = i} = {x \in signals : x.snap = i}
    BY <1>2 DEF StoreKept
  <2>1. i # s
    BY <1>6
  <2>2. \A x \in new : x.snap = s
    BY <1>5
  <2> QED BY <1>5, <1>6, <2>1, <2>2
<1>9. StoreGoes(proc)' /\ StoreWorking(proc) = 1 /\ StoreWorking(proc') = 1
  BY <1>2, <1>3, StoreGoto DEF StoreEarly
<1>10. Cardinality(StoreUnfinished) <= crashes' + Cardinality(StoreFailed') + StoreWorking(proc')
  BY <1>2, <1>9 DEF StoreInv, StoreCounted, StoreFailed
<1>11. saved' \in Seq(StoreRow) /\ Len(saved') = Len(saved) /\ crashes' \in 0..MaxCrashes /\ runs' \in Seq(StoreStatus) /\ Len(runs') = Len(runs)
  BY <1>2 DEF StoreInv, StoreTyped
<1> QED BY <1>2, <1>7, <1>8, <1>9, <1>10, <1>11, StoreQuiet

(* The first snapshot of a run is final if any of them is. *)
LEMMA StoreFirst ==
    ASSUME StoreInv, NEW r \in Nat \ {0}, NEW j \in StoreSnaps, snaps[j].run = r, ~snaps[Store!SnapshotForRun(r)].final
    PROVE  ~snaps[j].final
<1>1. PICK n, I : n = Len(snaps) /\ I = {i \in StoreSnaps : snaps[i].run = r}
  BY Zenon
<1>2. n \in Nat /\ I \in SUBSET (1..n) /\ I # {}
  BY <1>1, StoreFacts, Zenon DEF StoreSnaps
<1>3. IsFiniteSet(I)
  BY <1>2, CountMore, Zenon
<1>4. I \in SUBSET Int
  BY <1>2
<1>5. PICK i : i = Min(I)
  OBVIOUS
<1>6. i \in I /\ \A k \in I : i <= k
  BY <1>2, <1>3, <1>4, <1>5, MinExists
<1>7. i \in StoreSnaps /\ snaps[i].run = r /\ \A k \in StoreSnaps : snaps[k].run = r => i <= k
  BY <1>1, <1>6
<1>8. \A x \in DOMAIN snaps : (snaps[x].run = r /\ \A k \in 1..(x - 1) : snaps[k].run # r) <=> x = i
  <2> SUFFICES ASSUME NEW x \in StoreSnaps PROVE (snaps[x].run = r /\ \A k \in 1..(x - 1) : snaps[k].run # r) <=> x = i
    BY StoreFacts, Zenon
  <2>1. x \in Nat /\ i \in Nat /\ n \in Nat /\ StoreSnaps = 1..n
    BY <1>1, <1>2, <1>7 DEF StoreSnaps
  <2>2. ASSUME x = i, NEW k \in 1..(x - 1) PROVE snaps[k].run # r
    <3>1. k \in StoreSnaps /\ ~(i <= k)
      BY <2>1, <2>2
    <3> QED BY <1>7, <3>1
  <2>3. ASSUME snaps[x].run = r, \A k \in 1..(x - 1) : snaps[k].run # r PROVE x = i
    <3>1. i <= x
      BY <1>7, <2>3
    <3>2. CASE i < x
      <4>1. i \in 1..(x - 1)
        BY <1>7, <2>1, <3>2
      <4> QED BY <1>7, <2>3, <4>1
    <3> QED BY <2>1, <3>1, <3>2
  <2> QED BY <1>7, <2>2, <2>3
<1>9. Store!SnapshotForRun(r) = i
  BY <1>7, <1>8, StoreFacts, Zenon DEF Store!SnapshotForRun
<1>10. ~snaps[i].final /\ i <= j
  BY <1>7, <1>9
<1>11. i \in Nat /\ j \in Nat
  BY StoreFacts, <1>7 DEF StoreSnaps
<1>12. CASE i = j
  BY <1>10, <1>12
<1>13. CASE i # j
  <2>1. i < j
    BY <1>10, <1>11, <1>13
  <2>2. r # 0
    OBVIOUS
  <2> QED BY <1>7, <1>10, <2>1, <2>2 DEF StoreInv, StoreOrder
<1> QED BY <1>12, <1>13

LEMMA StoreCommands ==
    ASSUME StoreInv, NEW kind \in {"sectors", "capital", "space"}, Store!Command(kind)
    PROVE  StoreInv' /\ StoreKept
<1>1. PICK s, r : s = Store!LatestSnapshot /\ r = snaps[s].run
  OBVIOUS
<1>2. /\ proc = Store!Idle /\ UNCHANGED <<runs, snaps, signals, proc, crashes>> /\ Store!Write(r, kind, "command")
      /\ ~snaps[Store!SnapshotForRun(r)].final /\ Store!ScanSnapshots # {}
  BY <1>1 DEF Store!Command, Store!Writable
<1>3. s \in StoreSnaps /\ r # 0
  <2>1. PICK n, I : n = Len(snaps) /\ I = Store!ScanSnapshots
    BY Zenon
  <2>2. n \in Nat /\ I \in SUBSET (1..n) /\ I # {}
    BY <1>2, <2>1, StoreFacts DEF Store!ScanSnapshots, StoreSnaps
  <2>3. IsFiniteSet(I)
    BY <2>2, CountMore, Zenon
  <2>4. I \in SUBSET Int
    BY <2>2
  <2>4a. PICK m : m = Max(I)
    OBVIOUS
  <2>5. m \in I /\ \A y \in I : m >= y
    BY <2>2, <2>3, <2>4, <2>4a, MaxExists
  <2>5a. \A x \in I : (\A j \in I : j <= x) <=> x = m
    BY <2>4, <2>5
  <2>6. s = m
    BY <1>1, <2>1, <2>5, <2>5a DEF Store!LatestSnapshot
  <2>7. s \in Store!ScanSnapshots
    BY <2>1, <2>5, <2>6
  <2> QED BY <1>1, <2>7, StoreFacts DEF Store!ScanSnapshots
<1>4. r \in 1..Len(runs) /\ r \in Nat \ {0}
  BY <1>1, <1>3, StoreFacts
<1>5. \A j \in StoreSnaps : snaps[j].run = r => ~snaps[j].final
  BY <1>2, <1>4, StoreFirst
<1>6. kind \in Store!Kinds
  BY DEF Store!Kinds
<1>7. saved' \in Seq(StoreRow) /\ Len(saved') = Len(saved)
  BY <1>2, <1>4, <1>6, StoreWrites
<1>8. StoreKept
  BY <1>2, <1>4, <1>5, <1>6, StoreSpares
<1>9. StoreGoes(proc)' /\ StoreWorking(proc') = 0
  <2>1. proc' = Store!Idle
    BY <1>2
  <2> QED BY <2>1, StoreEnds
<1>10. Cardinality(StoreUnfinished) <= crashes' + Cardinality(StoreFailed') + StoreWorking(proc')
  BY <1>2 DEF StoreInv, StoreCounted, StoreFailed
<1>11. signals' \subseteq StoreSignal(Len(snaps)) /\ crashes' \in 0..MaxCrashes /\ runs' \in Seq(StoreStatus) /\ Len(runs') = Len(runs)
  BY <1>2 DEF StoreInv, StoreTyped
<1> QED BY <1>2, <1>7, <1>8, <1>9, <1>10, <1>11, StoreQuiet

LEMMA StoreCrash == ASSUME StoreInv, Store!Crash PROVE StoreInv' /\ StoreKept
<1>1. proc' = Store!Idle /\ crashes < MaxCrashes /\ crashes' = crashes + 1 /\ UNCHANGED <<runs, snaps, saved, signals>>
  BY DEF Store!Crash, Store!Stop
<1>2. StoreGoes(proc)' /\ StoreWorking(proc') = 0
  BY <1>1, StoreEnds
<1>3. StoreWorking(proc) <= 1 /\ StoreWorking(proc) \in Nat
  BY DEF StoreWorking
<1>4. StoreFailed' = StoreFailed
  BY <1>1 DEF StoreFailed
<1>5. Cardinality(StoreUnfinished) <= crashes' + Cardinality(StoreFailed') + StoreWorking(proc')
  BY <1>1, <1>2, <1>3, <1>4, StoreCounts, StoreFacts DEF StoreInv, StoreCounted
<1>6. /\ saved' \in Seq(StoreRow) /\ Len(saved') = Len(saved) /\ signals' \subseteq StoreSignal(Len(snaps)) /\ crashes' \in 0..MaxCrashes
      /\ runs' \in Seq(StoreStatus) /\ Len(runs') = Len(runs)
  BY <1>1, StoreFacts DEF StoreInv, StoreTyped
<1> QED BY <1>1, <1>2, <1>5, <1>6, StoreQuiet DEF StoreKept

(* An open snapshot is written to or becomes final. *)
LEMMA StoreRewritten ==
    ASSUME StoreInv, NEW s \in StoreSnaps, NEW t \in Store!Snapshot, t.run = snaps[s].run, t.strategy = snaps[s].strategy,
           snaps' = [snaps EXCEPT ![s] = t]
    PROVE  /\ snaps' \in Seq(Store!Snapshot) /\ Len(snaps') = Len(snaps) /\ snaps'[s] = t
           /\ \A i \in StoreSnaps : snaps'[i].run = snaps[i].run /\ snaps'[i].strategy = snaps[i].strategy
           /\ \A i \in StoreSnaps : i # s => snaps'[i] = snaps[i]
<1>1. snaps \in Seq(Store!Snapshot)
  BY DEF StoreInv, StoreTyped
<1>2. /\ snaps' \in Seq(Store!Snapshot) /\ Len(snaps') = Len(snaps) /\ snaps'[s] = t
      /\ \A i \in StoreSnaps : i # s => snaps'[i] = snaps[i]
  BY <1>1 DEF StoreSnaps
<1>3. ASSUME NEW i \in StoreSnaps PROVE snaps'[i].run = snaps[i].run /\ snaps'[i].strategy = snaps[i].strategy
  BY <1>2
<1> QED BY <1>2, <1>3

LEMMA StoreRewrites ==
    ASSUME StoreInv, NEW s \in StoreSnaps, ~snaps[s].final, NEW t \in Store!Snapshot, t.run = snaps[s].run, t.strategy = snaps[s].strategy,
           snaps' = [snaps EXCEPT ![s] = t], UNCHANGED <<runs, saved, signals, crashes>>, StoreGoes(proc)',
           StoreWorking(proc) = 1, StoreWorking(proc') = IF t.final THEN 0 ELSE 1
    PROVE  StoreInv' /\ StoreKept
<1>1. /\ snaps' \in Seq(Store!Snapshot) /\ Len(snaps') = Len(snaps) /\ snaps'[s] = t
      /\ \A i \in StoreSnaps : snaps'[i].run = snaps[i].run /\ snaps'[i].strategy = snaps[i].strategy
      /\ \A i \in StoreSnaps : i # s => snaps'[i] = snaps[i]
  BY StoreRewritten, Zenon
<1>2. StoreTyped'
  BY <1>1 DEF StoreInv, StoreTyped, StoreSnaps
<1>3. StoreOrder'
  <2> SUFFICES ASSUME NEW i \in StoreSnaps, NEW j \in StoreSnaps, i < j, snaps'[i].run = snaps'[j].run, snaps'[i].run # 0
               PROVE  snaps'[i].final
    BY <1>1 DEF StoreOrder, StoreSnaps
  <2>1. snaps[i].final
    BY <1>1 DEF StoreInv, StoreOrder
  <2> QED BY <1>1, <2>1
<1>4. StoreCounted'
  <2>1. PICK n, U : n = Len(snaps) /\ U = StoreUnfinished
    BY Zenon
  <2>2. n \in Nat /\ U \in SUBSET (1..n) /\ s \in U
    BY <2>1, StoreFacts DEF StoreUnfinished, StoreSnaps
  <2>3. IsFiniteSet(U)
    BY <2>2, CountMore, Zenon
  <2>4. StoreFailed' = StoreFailed
    BY DEF StoreFailed
  <2>5. CASE t.final
    <3>1. StoreUnfinished' = U \ {s}
      BY <1>1, <2>1, <2>5 DEF StoreUnfinished, StoreSnaps
    <3>2. Cardinality(U \ {s}) = Cardinality(U) - 1
      BY <2>2, <2>3, FS_RemoveElement, Zenon
    <3> QED BY <2>1, <2>4, <2>5, <3>1, <3>2, StoreCounts, StoreFacts DEF StoreInv, StoreCounted
  <2>6. CASE ~t.final
    <3>1. StoreUnfinished' = U
      BY <1>1, <2>1, <2>6 DEF StoreUnfinished, StoreSnaps
    <3> QED BY <2>1, <2>4, <2>6, <3>1 DEF StoreInv, StoreCounted
  <2> QED BY <2>5, <2>6
<1>5. StoreKept
  BY <1>1 DEF StoreKept
<1> QED BY <1>2, <1>3, <1>4, <1>5 DEF StoreInv

LEMMA StoreSnapSets ==
    ASSUME NEW o \in Store!Snapshot, NEW g \in Store!Regimes, NEW t, t = [o EXCEPT !.regime = g]
    PROVE  t \in Store!Snapshot /\ t.run = o.run /\ t.strategy = o.strategy /\ t.final = o.final
  BY DEF Store!Snapshot
LEMMA StoreSnapEnds ==
    ASSUME NEW o \in Store!Snapshot, NEW t, t = [o EXCEPT !.final = TRUE]
    PROVE  t \in Store!Snapshot /\ t.run = o.run /\ t.strategy = o.strategy /\ t.final = TRUE
  BY Zenon DEF Store!Snapshot

LEMMA StoreRegime == ASSUME StoreInv, Store!AnalyzeRegime \/ Store!RegimeSaves PROVE StoreInv' /\ StoreKept
<1>1. PICK s, o : s = proc.snap /\ o = snaps[s]
  OBVIOUS
<1>2. PICK g \in Store!Regimes : snaps' = [snaps EXCEPT ![proc.snap].regime = g]
  BY Zenon DEF Store!AnalyzeRegime, Store!RegimeSaves
<1>3. PICK t : t = [o EXCEPT !.regime = g]
  BY Zenon
<1>4. snaps' = [snaps EXCEPT ![s] = t] /\ UNCHANGED <<runs, saved, signals, crashes>> /\ ~snaps[s].final
  BY <1>1, <1>2, <1>3 DEF Store!AnalyzeRegime, Store!RegimeSaves, Store!Writable
<1>5. s \in StoreSnaps
  <2>1. CASE proc.cmd = "scan"
    BY <1>1, <2>1, StoreScan
  <2>2. CASE proc.cmd = "regime"
    BY <1>1, <2>2 DEF StoreInv, StoreGoes
  <2> QED BY <2>1, <2>2 DEF Store!AnalyzeRegime, Store!RegimeSaves, Store!At
<1>6. o \in Store!Snapshot
  BY <1>1, <1>5, StoreFacts
<1>7. t \in Store!Snapshot /\ t.run = snaps[s].run /\ t.strategy = snaps[s].strategy /\ ~t.final
  <2>1. g \in Store!Regimes
    BY <1>2
  <2>2. t \in Store!Snapshot /\ t.run = o.run /\ t.strategy = o.strategy /\ t.final = o.final
    BY <1>3, <1>6, <2>1, StoreSnapSets
  <2> QED BY <1>1, <1>4, <2>2
<1>8. /\ Len(snaps') = Len(snaps) /\ snaps'[s] = t
      /\ \A i \in StoreSnaps : snaps'[i].run = snaps[i].run
      /\ \A i \in StoreSnaps : i # s => snaps'[i] = snaps[i]
  BY <1>4, <1>5, <1>7, StoreRewritten, Zenon
<1>9. StoreGoes(proc)' /\ StoreWorking(proc) = 1 /\ StoreWorking(proc') = 1
  <2>1. PICK p, step1 : p = proc /\ step1 = IF proc.cmd = "scan" THEN "scores" ELSE "finalize"
    OBVIOUS
  <2>2. PICK q : q = [cmd |-> p.cmd, step |-> step1, run |-> p.run, snap |-> p.snap, fork |-> p.fork]
    BY Zenon
  <2>3. p \in StoreProc /\ StoreGoes(p) /\ ((p.cmd = "scan" /\ p.step = "regime") \/ (p.cmd = "regime" /\ p.step = "save"))
    <3>1. p \in StoreProc /\ StoreGoes(p)
      BY <2>1, StoreFacts DEF StoreInv
    <3>2. (p.cmd = "scan" /\ p.step = "regime") \/ (p.cmd = "regime" /\ p.step = "save")
      BY <2>1 DEF Store!AnalyzeRegime, Store!RegimeSaves, Store!At
    <3> QED BY <3>1, <3>2
  <2>4. proc' = q
    <3>1. proc' = [p EXCEPT !.step = step1]
      BY <2>1, <2>3 DEF Store!AnalyzeRegime, Store!RegimeSaves, Store!At, Store!Goto
    <3> QED BY <2>2, <2>3, <3>1, StoreSets
  <2>5. step1 \in StoreEarly \cup {"finalize"} /\ step1 \in {"scores", "finalize"}
    BY <2>1 DEF StoreEarly
  <2>6. q \in StoreProc /\ q.cmd = p.cmd /\ q.step = step1 /\ q.run = p.run /\ q.snap = p.snap /\ q.fork = p.fork
    BY <2>2, <2>3, <2>5, Zenon DEF StoreProc
  <2>7. ~snaps'[s].final
    BY <1>7, <1>8
  <2>8. StoreGoes(q)'
    <3>1. CASE p.cmd = "scan"
      <4>1. /\ p.run \in 1..Len(runs) /\ p.snap \in StoreSnaps /\ snaps[p.snap].run = p.run /\ p.fork <= Len(Forks)
            /\ \A i \in StoreSnaps : snaps[i].run = p.run => i <= p.snap
            /\ \A i \in StoreSnaps : snaps[i].run = p.run => i = p.snap
        BY <2>3, <3>1 DEF StoreGoes, StoreEarly
      <4>2. p.snap = s
        BY <1>1, <2>1
      <4> QED BY <1>4, <1>8, <2>5, <2>6, <2>7, <3>1, <4>1, <4>2 DEF StoreGoes, StoreSnaps
    <3>2. CASE p.cmd = "regime"
      <4>1. p.snap \in StoreSnaps /\ snaps[p.snap].run = 0
        BY <2>3, <3>2 DEF StoreGoes
      <4> QED BY <1>4, <1>8, <2>5, <2>6, <3>2, <4>1 DEF StoreGoes, StoreSnaps
    <3> QED BY <2>3, <3>1, <3>2
  <2> QED BY <2>1, <2>3, <2>4, <2>5, <2>6, <2>8 DEF StoreWorking
<1> QED BY <1>4, <1>5, <1>7, <1>9, StoreRewrites, Zenon

LEMMA StoreFinalizes == ASSUME StoreInv, Store!Finalize \/ Store!RegimeEnds PROVE StoreInv' /\ StoreKept
<1>1. PICK p, s, o : p = proc /\ s = p.snap /\ o = snaps[s]
  OBVIOUS
<1>2. PICK t : t = [o EXCEPT !.final = TRUE]
  BY Zenon
<1>3. snaps' = [snaps EXCEPT ![s] = t] /\ UNCHANGED <<runs, saved, signals, crashes>> /\ ~snaps[s].final
  BY <1>1, <1>2 DEF Store!Finalize, Store!RegimeEnds, Store!FinalizeSnapshot, Store!Writable
<1>4. p \in StoreProc /\ StoreGoes(p)
  BY <1>1, StoreFacts DEF StoreInv
<1>5. p.step = "finalize" /\ (p.cmd = "scan" \/ p.cmd = "regime")
  BY <1>1 DEF Store!Finalize, Store!RegimeEnds, Store!At
<1>6. s \in StoreSnaps
  BY <1>1, <1>4, <1>5 DEF StoreGoes
<1>7. o \in Store!Snapshot
  BY <1>1, <1>6, StoreFacts
<1>8. t \in Store!Snapshot /\ t.run = snaps[s].run /\ t.strategy = snaps[s].strategy /\ t.final = TRUE
  BY <1>1, <1>2, <1>7, StoreSnapEnds, Zenon
<1>9. /\ Len(snaps') = Len(snaps) /\ snaps'[s] = t
      /\ \A i \in StoreSnaps : snaps'[i].run = snaps[i].run
      /\ \A i \in StoreSnaps : i # s => snaps'[i] = snaps[i]
  BY <1>3, <1>6, <1>8, StoreRewritten, Zenon
<1>10. StoreGoes(proc)' /\ StoreWorking(proc') = 0
  <2>1. CASE proc' = Store!Idle
    BY <2>1, StoreEnds
  <2>2. CASE proc' # Store!Idle
    <3>1. p.cmd = "scan" /\ p.fork < Len(Forks) /\ proc' = [p EXCEPT !.step = "fork", !.fork = @ + 1]
      BY <1>1, <2>2 DEF Store!Finalize, Store!RegimeEnds, Store!At, Store!Stop
    <3>2. PICK f, u : f = p.fork + 1 /\ u = [p EXCEPT !.step = "fork"]
      BY Zenon
    <3>3. p.fork \in Nat /\ f \in Nat /\ f <= Len(Forks) /\ f >= 1
      <4>1. p.fork \in Nat /\ Len(Forks) \in Nat
        BY <1>4, StoreFacts, Zenon DEF StoreProc
      <4> QED BY <3>1, <3>2, <4>1
    <3>4. u = [cmd |-> p.cmd, step |-> "fork", run |-> p.run, snap |-> p.snap, fork |-> p.fork]
      BY <1>4, <3>2, StoreSets
    <3>5. [u EXCEPT !.fork = f] = [cmd |-> p.cmd, step |-> "fork", run |-> p.run, snap |-> p.snap, fork |-> f]
      BY <3>4
    <3>6. proc' = [u EXCEPT !.fork = f]
      <4>1. proc' = [u EXCEPT !.fork = u.fork + 1]
        BY <3>1, <3>2, Zenon
      <4>2. u.fork + 1 = f
        BY <3>2, <3>4
      <4> QED BY <4>1, <4>2
    <3>7. PICK q : q = [cmd |-> p.cmd, step |-> "fork", run |-> p.run, snap |-> p.snap, fork |-> f]
      BY Zenon
    <3>8. q \in StoreProc /\ q.cmd = "scan" /\ q.step = "fork" /\ q.run = p.run /\ q.snap = s /\ q.fork = f
      BY <1>1, <1>4, <3>1, <3>3, <3>7, Zenon DEF StoreProc
    <3>9. /\ p.run \in 1..Len(runs) /\ s \in StoreSnaps /\ snaps[s].run = p.run
          /\ \A i \in StoreSnaps : snaps[i].run = p.run => i <= s
      BY <1>1, <1>4, <3>1 DEF StoreGoes
    <3>10. ASSUME NEW i \in StoreSnaps, snaps'[i].run = p.run PROVE snaps'[i].final
      <4>1. CASE i = s
        BY <1>8, <1>9, <4>1
      <4>2. CASE i # s
        <5>1. i < s /\ snaps[i].run = snaps[s].run /\ snaps[i].run # 0
          <6>1. i <= s /\ snaps[i].run = p.run
            BY <1>9, <3>9, <3>10
          <6>2. i \in Nat /\ s \in Nat
            BY <3>9, StoreFacts DEF StoreSnaps
          <6> QED BY <3>9, <4>2, <6>1, <6>2, StoreFacts
        <5>2. snaps[i].final
          BY <3>9, <5>1 DEF StoreInv, StoreOrder
        <5> QED BY <1>9, <4>2, <5>2
      <4> QED BY <4>1, <4>2
    <3>11. StoreGoes(q)'
      BY <1>3, <1>9, <3>3, <3>8, <3>9, <3>10 DEF StoreGoes, StoreSnaps, StoreEarly
    <3>12. proc' = q
      BY <3>5, <3>6, <3>7
    <3> QED BY <3>8, <3>11, <3>12 DEF StoreWorking
  <2> QED BY <2>1, <2>2
<1>11. StoreWorking(proc) = 1
  BY <1>1, <1>5 DEF StoreWorking
<1> QED BY <1>3, <1>6, <1>8, <1>10, <1>11, StoreRewrites, Zenon

(* A command begins a snapshot. *)
LEMMA StoreAppends ==
    ASSUME StoreInv, NEW t \in Store!Snapshot, ~t.final, t.run = 0 <=> t.strategy = "manual", t.run <= Len(runs'),
           t.run # 0 => \A i \in StoreSnaps : snaps[i].run = t.run => snaps[i].final,
           snaps' = Append(snaps, t), UNCHANGED <<signals, crashes>>,
           runs' \in Seq(StoreStatus), Len(runs') \in Len(runs)..MaxRuns, \A r \in 1..Len(runs') : (runs'[r] = "FAILED") <=> r \in StoreFailed,
           saved' \in Seq(StoreRow), Len(saved') = Len(runs'), \A r \in 1..Len(runs) : saved'[r] = saved[r],
           StoreGoes(proc)', StoreWorking(proc) = 0, StoreWorking(proc') = 1
    PROVE  StoreInv' /\ StoreKept
<1>1. PICK n : n = Len(snaps)
  OBVIOUS
<1>2. n \in Nat /\ snaps \in Seq(Store!Snapshot) /\ StoreSnaps = 1..n
  BY <1>1 DEF StoreInv, StoreTyped, StoreSnaps
<1>3. /\ snaps' \in Seq(Store!Snapshot) /\ Len(snaps') = n + 1 /\ snaps'[n + 1] = t
      /\ \A i \in 1..n : snaps'[i] = snaps[i]
      /\ \A i \in 1..(n + 1) : i \in 1..n \/ i = n + 1
  BY <1>1, <1>2
<1>4. StoreTyped'
  <2>1. ASSUME NEW i \in 1..(n + 1) PROVE (snaps'[i].run = 0 <=> snaps'[i].strategy = "manual") /\ snaps'[i].run <= Len(runs')
    <3>1. CASE i \in 1..n
      <4>1. (snaps[i].run = 0 <=> snaps[i].strategy = "manual") /\ snaps[i].run <= Len(runs) /\ snaps[i].run \in Nat
        BY <1>2, <3>1, StoreFacts DEF StoreInv, StoreTyped
      <4> QED BY <1>3, <3>1, <4>1, StoreFacts
    <3>2. CASE i = n + 1
      BY <1>3, <3>2
    <3> QED BY <1>3, <3>1, <3>2
  <2>2. signals' \subseteq StoreSignal(n + 1)
    BY <1>1, <1>2 DEF StoreInv, StoreTyped, StoreSignal
  <2>3. Len(runs') <= MaxRuns
    BY StoreFacts
  <2> QED BY <1>3, <2>1, <2>2, <2>3 DEF StoreInv, StoreTyped, StoreSnaps
<1>5. StoreOrder'
  <2> SUFFICES ASSUME NEW i \in 1..(n + 1), NEW j \in 1..(n + 1), i < j, snaps'[i].run = snaps'[j].run, snaps'[i].run # 0
               PROVE  snaps'[i].final
    BY <1>3, Zenon DEF StoreOrder, StoreSnaps
  <2>1. i \in 1..n /\ snaps'[i] = snaps[i]
    BY <1>2, <1>3
  <2>2. CASE j = n + 1
    BY <1>2, <1>3, <2>1, <2>2
  <2>3. CASE j \in 1..n
    BY <1>2, <1>3, <2>1, <2>3 DEF StoreInv, StoreOrder
  <2> QED BY <1>3, <2>2, <2>3
<1>6. StoreCounted'
  <2>1. PICK U, F : U = StoreUnfinished /\ F = StoreFailed
    OBVIOUS
  <2>2. U \in SUBSET (1..n)
    BY <1>2, <2>1 DEF StoreUnfinished
  <2>3. StoreUnfinished' = U \cup {n + 1}
    BY <1>2, <1>3, <2>1 DEF StoreUnfinished, StoreSnaps
  <2>4. Cardinality(U \cup {n + 1}) = Cardinality(U) + 1
    BY <1>2, <2>2, CountMore, Zenon
  <2>5. StoreFailed' = F
    <3>1. \A r \in F : r \in 1..Len(runs')
      BY <2>1, StoreFacts DEF StoreFailed
    <3> QED BY <2>1, <3>1 DEF StoreFailed
  <2> QED BY <2>1, <2>3, <2>4, <2>5, StoreCounts, StoreFacts DEF StoreInv, StoreCounted
<1>7. StoreKept
  <2>1. \A i \in 1..n : snaps[i].run # 0 => snaps[i].run \in 1..Len(runs)
    BY <1>2, StoreFacts
  <2> QED BY <1>2, <1>3, <2>1 DEF StoreKept
<1> QED BY <1>4, <1>5, <1>6, <1>7 DEF StoreInv

LEMMA StoreBegins == ASSUME StoreInv, Store!StartScan PROVE StoreInv' /\ StoreKept
<1>1. PICK m, n : m = Len(snaps) /\ n = Len(runs)
  BY Zenon
<1>2. m \in Nat /\ n \in Nat /\ StoreSnaps = 1..m /\ runs \in Seq(StoreStatus) /\ saved \in Seq(StoreRow) /\ Len(saved) = n /\ n < MaxRuns
  BY <1>1, StoreFacts DEF StoreInv, StoreTyped, StoreSnaps, Store!StartScan
<1>3. PICK t, w, q : /\ t = Store!NewSnapshot(n + 1, "baseline_v1") /\ w = [k \in Store!Kinds |-> "no"]
                     /\ q = [cmd |-> "scan", step |-> "universe", run |-> n + 1, snap |-> m + 1, fork |-> 0]
  BY Zenon
<1>4. /\ proc = Store!Idle /\ runs' = Append(runs, "RUNNING") /\ snaps' = Append(snaps, t) /\ saved' = Append(saved, w)
      /\ proc' = q /\ UNCHANGED <<signals, crashes>>
  BY <1>1, <1>3, Zenon DEF Store!StartScan
<1>5. t \in Store!Snapshot /\ t.run = n + 1 /\ t.strategy = "baseline_v1" /\ ~t.final
  BY <1>2, <1>3, StoreAssumption DEF Store!NewSnapshot, Store!Snapshot, Store!Regimes
<1>6. /\ runs' \in Seq(StoreStatus) /\ Len(runs') = n + 1 /\ runs'[n + 1] = "RUNNING" /\ \A r \in 1..n : runs'[r] = runs[r]
      /\ \A r \in 1..(n + 1) : r \in 1..n \/ r = n + 1
  BY <1>1, <1>2, <1>4 DEF StoreStatus
<1>7. /\ saved' \in Seq(StoreRow) /\ Len(saved') = n + 1 /\ \A r \in 1..n : saved'[r] = saved[r]
  BY <1>2, <1>3, <1>4 DEF StoreRow
<1>8. snaps \in Seq(Store!Snapshot) /\ Len(snaps') = m + 1 /\ snaps'[m + 1] = t /\ (\A i \in 1..m : snaps'[i] = snaps[i])
      /\ \A i \in 1..(m + 1) : i \in 1..m \/ i = m + 1
  BY <1>1, <1>2, <1>4, <1>5 DEF StoreInv, StoreTyped
<1>9. \A r \in 1..(n + 1) : (runs'[r] = "FAILED") <=> r \in StoreFailed
  BY <1>1, <1>2, <1>6 DEF StoreFailed
<1>10. \A i \in StoreSnaps : snaps[i].run # n + 1
  BY <1>1, <1>2, StoreFacts
<1>11. StoreGoes(proc)'
  <2>1. q \in StoreProc /\ q.cmd = "scan" /\ q.step = "universe" /\ q.run = n + 1 /\ q.snap = m + 1 /\ q.fork = 0
    BY <1>2, <1>3 DEF StoreProc, StoreEarly
  <2>2. \A i \in 1..(m + 1) : snaps'[i].run = n + 1 => i = m + 1 /\ ~snaps'[i].final
    BY <1>2, <1>5, <1>8, <1>10, Zenon
  <2>3. 0 <= Len(Forks) /\ n + 1 \in 1..Len(runs') /\ m + 1 \in 1..(m + 1) /\ m + 1 <= m + 1
    BY <1>2, <1>6, StoreFacts
  <2>4. StoreGoes(q)'
    BY <1>5, <1>6, <1>8, <2>1, <2>2, <2>3 DEF StoreGoes, StoreSnaps
  <2> QED BY <1>4, <2>4
<1>12. StoreWorking(proc) = 0 /\ StoreWorking(proc') = 1
  BY <1>3, <1>4, Zenon DEF StoreWorking, Store!Idle
<1>13. Len(runs') \in Len(runs)..MaxRuns /\ t.run <= Len(runs') /\ t.run # 0
  BY <1>1, <1>2, <1>5, <1>6, StoreFacts
<1>14. t.run # 0 => \A i \in StoreSnaps : snaps[i].run = t.run => snaps[i].final
  BY <1>5, <1>10
<1>15. (\A r \in 1..Len(runs') : (runs'[r] = "FAILED") <=> r \in StoreFailed) /\ Len(saved') = Len(runs')
       /\ \A r \in 1..Len(runs) : saved'[r] = saved[r]
  BY <1>1, <1>6, <1>7, <1>9
<1>16. t.run = 0 <=> t.strategy = "manual"
  BY <1>5, <1>13
<1> QED BY <1>4, <1>5, <1>6, <1>7, <1>11, <1>12, <1>13, <1>14, <1>15, <1>16, StoreAppends

LEMMA StoreForks == ASSUME StoreInv, Store!Fork PROVE StoreInv' /\ StoreKept
<1>1. PICK m, p : m = Len(snaps) /\ p = proc
  BY Zenon
<1>2. m \in Nat /\ StoreSnaps = 1..m /\ p \in StoreProc /\ StoreGoes(p) /\ p.cmd = "scan" /\ p.step = "fork"
  BY <1>1, StoreFacts DEF StoreInv, Store!Fork, Store!At, StoreSnaps
<1>3. /\ p.run \in 1..Len(runs) /\ p.fork <= Len(Forks) /\ p.fork >= 1 /\ p.fork \in Nat /\ p.run \in Nat
      /\ \A i \in StoreSnaps : snaps[i].run = p.run => snaps[i].final
  BY <1>2, Zenon DEF StoreGoes, StoreProc
<1>4. PICK t, s : t = Store!NewSnapshot(p.run, Forks[p.fork]) /\ s = IF saved[p.run]["scores"] = "no" THEN "empty" ELSE "signals"
  OBVIOUS
<1>5. PICK q : q = [cmd |-> p.cmd, step |-> s, run |-> p.run, snap |-> m + 1, fork |-> p.fork]
  BY Zenon
<1>6. snaps' = Append(snaps, t) /\ UNCHANGED <<runs, saved, signals, crashes>>
  BY <1>1, <1>4 DEF Store!Fork
<1>7. proc' = q
  <2>1. PICK u, k : u = [p EXCEPT !.step = s] /\ k = m + 1
    BY Zenon
  <2>2. u = [cmd |-> p.cmd, step |-> s, run |-> p.run, snap |-> p.snap, fork |-> p.fork]
    BY <1>2, <2>1, StoreSets
  <2>3. proc' = [p EXCEPT !.step = s, !.snap = k]
    BY <1>1, <1>4, <2>1 DEF Store!Fork
  <2>4. [p EXCEPT !.step = s, !.snap = k] = [u EXCEPT !.snap = k]
    BY <2>1, Zenon
  <2>5. [u EXCEPT !.snap = k] = [cmd |-> p.cmd, step |-> s, run |-> p.run, snap |-> k, fork |-> p.fork]
    BY <2>2
  <2> QED BY <1>5, <2>1, <2>3, <2>4, <2>5
<1>8. t \in Store!Snapshot /\ t.run = p.run /\ t.strategy # "manual" /\ ~t.final
  <2>1. PICK f : f = p.fork
    OBVIOUS
  <2>2. f \in DOMAIN Forks /\ Len(Forks) \in Nat
    BY <1>3, <2>1, StoreFacts, StoreAssumption
  <2>3. Forks[f] \in {Forks[i] : i \in DOMAIN Forks} /\ Forks[f] # "manual"
    BY <2>2, StoreAssumption
  <2>4. p.run \in 0..MaxRuns
    BY <1>3, StoreFacts DEF StoreInv, StoreTyped
  <2> QED BY <1>4, <2>1, <2>3, <2>4 DEF Store!NewSnapshot, Store!Snapshot, Store!Regimes
<1>9. /\ Len(snaps') = m + 1 /\ snaps'[m + 1] = t /\ (\A i \in 1..m : snaps'[i] = snaps[i])
      /\ \A i \in 1..(m + 1) : i \in 1..m \/ i = m + 1
  BY <1>1, <1>2, <1>6, <1>8 DEF StoreInv, StoreTyped
<1>10. s \in {"empty", "signals"}
  BY <1>4
<1>11. StoreGoes(q)' /\ StoreWorking(q) = 1
  <2>1. q \in StoreProc /\ q.cmd = "scan" /\ q.step = s /\ q.run = p.run /\ q.snap = m + 1 /\ q.fork = p.fork
    <3>1. p.run \in Nat /\ p.fork \in Nat /\ m + 1 \in Nat
      BY <1>2, <1>3
    <3>2. s \in StoreEarly \cup {"", "signals", "empty", "finalize", "fork", "save"}
      BY <1>10, Zenon
    <3> QED BY <1>2, <1>5, <3>1, <3>2, Zenon DEF StoreProc
  <2>2. m + 1 \in 1..(m + 1) /\ \A i \in 1..(m + 1) : i <= m + 1
    BY <1>2
  <2> QED BY <1>3, <1>6, <1>8, <1>9, <1>10, <2>1, <2>2 DEF StoreGoes, StoreSnaps, StoreEarly, StoreWorking
<1>12. StoreWorking(proc) = 0
  BY <1>1, <1>2 DEF StoreWorking
<1>13. /\ runs' \in Seq(StoreStatus) /\ Len(runs') \in Len(runs)..MaxRuns /\ saved' \in Seq(StoreRow) /\ Len(saved') = Len(runs')
       /\ \A r \in 1..Len(runs) : saved'[r] = saved[r]
  BY <1>6, StoreFacts DEF StoreInv, StoreTyped
<1>14. \A r \in 1..Len(runs') : (runs'[r] = "FAILED") <=> r \in StoreFailed
  BY <1>6 DEF StoreFailed
<1>15. t.run <= Len(runs') /\ (t.run # 0 => \A i \in StoreSnaps : snaps[i].run = t.run => snaps[i].final)
       /\ (t.run = 0 <=> t.strategy = "manual")
  BY <1>3, <1>6, <1>8
<1> QED BY <1>6, <1>7, <1>8, <1>11, <1>12, <1>13, <1>14, <1>15, StoreAppends

LEMMA StoreManual == ASSUME StoreInv, Store!RegimeCommand PROVE StoreInv' /\ StoreKept
<1>1. PICK m : m = Len(snaps)
  BY Zenon
<1>2. m \in Nat /\ StoreSnaps = 1..m
  BY <1>1, StoreFacts DEF StoreSnaps
<1>3. PICK t, q, k : t = Store!NewSnapshot(0, "manual") /\ k = m + 1 /\ q = [cmd |-> "regime", step |-> "save", run |-> 0, snap |-> k, fork |-> 0]
  BY Zenon
<1>4. proc = Store!Idle /\ snaps' = Append(snaps, t) /\ UNCHANGED <<runs, saved, signals, crashes>>
  BY <1>1, <1>3 DEF Store!RegimeCommand, Store!NewManual
<1>5. proc' = q
  <2>1. PICK i, e : i = Store!Idle /\ e = ""
    BY Zenon
  <2>2. i = [cmd |-> "idle", step |-> e, run |-> 0, snap |-> 0, fork |-> 0]
    BY <2>1, Zenon DEF Store!Idle
  <2>2a. PICK u : u = [i EXCEPT !.cmd = "regime"]
    BY Zenon
  <2>3. u = [cmd |-> "regime", step |-> e, run |-> 0, snap |-> 0, fork |-> 0]
    BY <2>2, <2>2a
  <2>3a. PICK v : v = [u EXCEPT !.step = "save"]
    BY Zenon
  <2>4. v = [cmd |-> "regime", step |-> "save", run |-> 0, snap |-> 0, fork |-> 0]
    BY <2>3, <2>3a
  <2>5. proc' = [i EXCEPT !.cmd = "regime", !.step = "save", !.snap = k]
    BY <1>1, <1>3, <2>1, Zenon DEF Store!RegimeCommand
  <2>6. [i EXCEPT !.cmd = "regime", !.step = "save", !.snap = k] = [v EXCEPT !.snap = k]
    BY <2>2a, <2>3a, Zenon
  <2>7. [v EXCEPT !.snap = k] = q
    BY <1>3, <2>4
  <2> QED BY <2>5, <2>6, <2>7
<1>6. t \in Store!Snapshot /\ t.run = 0 /\ t.strategy = "manual" /\ ~t.final
  BY <1>3, StoreAssumption DEF Store!NewSnapshot, Store!Snapshot, Store!Regimes
<1>7. /\ Len(snaps') = m + 1 /\ snaps'[m + 1] = t /\ (\A i \in 1..m : snaps'[i] = snaps[i])
      /\ \A i \in 1..(m + 1) : i \in 1..m \/ i = m + 1
  BY <1>1, <1>2, <1>4, <1>6 DEF StoreInv, StoreTyped
<1>8. StoreGoes(q)' /\ StoreWorking(q) = 1
  <2>1. q \in StoreProc /\ q.cmd = "regime" /\ q.step = "save" /\ q.snap = m + 1
    BY <1>2, <1>3 DEF StoreProc
  <2>2. m + 1 \in 1..(m + 1)
    BY <1>2
  <2> QED BY <1>6, <1>7, <2>1, <2>2 DEF StoreGoes, StoreSnaps, StoreWorking
<1>9. StoreWorking(proc) = 0
  BY <1>4, Zenon DEF StoreWorking, Store!Idle
<1>10. /\ runs' \in Seq(StoreStatus) /\ Len(runs') \in Len(runs)..MaxRuns /\ saved' \in Seq(StoreRow) /\ Len(saved') = Len(runs')
       /\ \A r \in 1..Len(runs) : saved'[r] = saved[r]
  BY <1>4, StoreFacts DEF StoreInv, StoreTyped
<1>11. \A r \in 1..Len(runs') : (runs'[r] = "FAILED") <=> r \in StoreFailed
  BY <1>4 DEF StoreFailed
<1>12. t.run <= Len(runs') /\ (t.run = 0 <=> t.strategy = "manual")
  BY <1>4, <1>6, StoreFacts
<1> QED BY <1>4, <1>5, <1>6, <1>8, <1>9, <1>10, <1>11, <1>12, StoreAppends

LEMMA StoreStep == ASSUME StoreInv, [Store!Next]_storeVars PROVE StoreInv' /\ StoreKept
<1>1. CASE UNCHANGED storeVars
  BY <1>1 DEF storeVars, StoreInv, StoreTyped, StoreGoes, StoreOrder, StoreCounted, StoreUnfinished, StoreFailed, StoreSnaps, StoreKept
<1>2. CASE Store!Scan
  BY <1>2, StoreBegins, StoreEarlySteps, StoreDownload, StoreRegime, StoreSignals, StoreFinalizes, StoreForks DEF Store!Scan
<1>3. ASSUME NEW kind \in {"sectors", "capital", "space"}, Store!Command(kind) PROVE StoreInv' /\ StoreKept
  BY <1>3, StoreCommands
<1> QED BY <1>1, <1>2, <1>3, StoreManual, StoreRegime, StoreFinalizes, StoreCrash DEF Store!Next

-----------------------------------------------------------------------------
(* The observations of the two-stage strategies. *)

(* Whole hours: a time that is one is its last one, and the last one never goes back. *)
LEMMA HourOf ==
    ASSUME NEW t \in Nat, NEW q \in Nat \ {0}
    PROVE  /\ t \div q \in Nat /\ t = ((t \div q) * q) + (t % q) /\ t % q \in 0..(q - 1)
           /\ (t \div q) * q <= t /\ t < ((t \div q) * q) + q
<1>1. t \div q \in Nat /\ t % q \in 0..(q - 1)
  OBVIOUS
<1>2. t = ((t \div q) * q) + (t % q)
  OBVIOUS
<1>3. PICK a : a = (t \div q) * q
  OBVIOUS
<1>4. a \in Int
  BY <1>1, <1>3
<1> QED BY <1>1, <1>2, <1>3, <1>4
LEMMA HourGrows ==
    ASSUME NEW t \in Nat, NEW q \in Nat \ {0}
    PROVE  (t \div q) * q <= ((t + 1) \div q) * q
<1>1. t \div q <= (t + 1) \div q /\ t \div q \in Nat /\ (t + 1) \div q \in Nat
  OBVIOUS
<1> QED BY <1>1
LEMMA HourSame ==
    ASSUME NEW a \in Nat, NEW t \in Nat, NEW q \in Nat \ {0}, a % q = 0,
           a <= (t \div q) * q, a > ((t \div q) * q) - q
    PROVE  a = (t \div q) * q
<1>1. PICK m, n : m = a \div q /\ n = t \div q
  OBVIOUS
<1>2. m \in Nat /\ n \in Nat /\ a = m * q
  BY <1>1, HourOf
<1>3. m * q <= n * q /\ m * q > (n - 1) * q
  BY <1>1, <1>2
<1>4. m = n
  BY <1>2, <1>3
<1> QED BY <1>1, <1>2, <1>4

WatchStrategies == {"wave", "rsd"}
WatchTimes == 0..WaveEnd
WatchIds == 1..Len(watched)
WatchLast == (time \div Quarter) * Quarter
WatchCall == [step : {"watch", "scan"}, strategy : WatchStrategies, now : WatchTimes,
              left : SUBSET (Nat \cup WaveCoins), got : SUBSET Nat]
WatchTyped ==
  /\ time \in WatchTimes /\ watchFaults \in 0..MaxFaults
  /\ broken \subseteq WatchStrategies \X WaveCoins \X WatchTimes
  /\ \A s \in WatchStrategies, c \in WaveCoins, t \in WatchTimes : <<s, c, t>> \in broken => t % Quarter = 0
  /\ watched \in Seq(Waves!Row) /\ Len(watched) <= Room
  /\ \A i \in WatchIds : watched[i].at % Quarter = 0
  /\ emitted \subseteq [row : WatchIds, start : WatchTimes, time : WatchTimes]
(* How far call p got: what it has left to look at is under observation, what it has left *)
(* to search is not, and what it found entered has not reached the pipeline.             *)
WatchGoes(p) ==
  \/ p = Waves!Idle
  \/ /\ p \in WatchCall
     /\ p.got \subseteq WatchIds
     /\ \A i \in p.got : /\ watched[i].status = "ENTERED" /\ p.now <= Waves!Ends(watched[i])
                         /\ watched[i].at + SettleBars[watched[i].strategy] <= time
                         /\ \A e \in emitted : e.row # i
     /\ p.step = "watch" => /\ p.left \subseteq WatchIds
                            /\ \A i \in p.left : /\ watched[i].status = "WATCHING" /\ watched[i].strategy = p.strategy
                                                 /\ p.now <= Waves!Ends(watched[i])
     /\ p.step = "scan" => /\ p.left \subseteq WaveCoins
                           /\ \A i \in WatchIds : watched[i].status = "WATCHING" /\ watched[i].strategy = p.strategy
                                                  => watched[i].symbol \notin p.left
WatchAlike(i, j) == watched[i].strategy = watched[j].strategy /\ watched[i].symbol = watched[j].symbol
WatchLate(i) == Reach[watched[i].strategy] = 1 /\ Skip[watched[i].strategy] = 0
(* Of a coin's rows only the last is under observation; a breakout that has fallen back   *)
(* is older than the last hour, so that the search no longer finds it.                    *)
WatchRows ==
  /\ \A i, j \in WatchIds : i < j /\ WatchAlike(i, j) => watched[i].status # "WATCHING"
  /\ \A i \in WatchIds : watched[i].status = "INVALIDATED" /\ WatchLate(i) => WatchLast > watched[i].at
  /\ \A i, j \in WatchIds : i < j /\ WatchAlike(i, j) /\ WatchLate(i) /\ watched[i].at = watched[j].at
       => /\ watched[i].status \in {"ENTERED", "EXPIRED", "DELETED"}
          /\ watched[j].created < watched[i].at + Quarter
WatchSent ==
  /\ \A e \in emitted : /\ watched[e.row].status \in {"ENTERED", "DELETED"}
                        /\ e.start <= Waves!Ends(watched[e.row])
                        /\ watched[e.row].at + SettleBars[watched[e.row].strategy] <= e.time
  /\ \A e, g \in emitted : e.row = g.row => e = g
WatchKept(p) ==
  \A i \in WatchIds : watched[i].status = "ENTERED" =>
    (\E e \in emitted : e.row = i) \/ (p.step # "idle" /\ i \in p.got) \/ watchFaults > 0
WatchInv == WatchTyped /\ WatchGoes(call) /\ WatchRows /\ WatchSent /\ WatchKept(call)

LEMMA WatchConstants ==
  /\ Reach \in [WatchStrategies -> Nat \ {0}] /\ Skip \in [WatchStrategies -> {0, 1}]
  /\ SettleBars \in [WatchStrategies -> Nat \ {0}] /\ HoldBars \in [WatchStrategies -> Nat]
  /\ Quarter \in Nat \ {0} /\ KeepBars \in Nat /\ WaveEnd \in Nat /\ Room \in Nat /\ MaxFaults \in Nat
  BY ServicesAssumption DEF Waves!WatchAssumption, WatchStrategies

LEMMA WatchFacts == ASSUME WatchInv
    PROVE  /\ time \in Nat /\ Len(watched) \in Nat /\ DOMAIN watched = WatchIds
           /\ \A i \in WatchIds : watched[i] \in Waves!Row
           /\ \A i \in WatchIds : /\ watched[i].at \in Nat /\ watched[i].at \in WatchTimes /\ watched[i].created \in Nat
                                  /\ watched[i].strategy \in WatchStrategies /\ watched[i].symbol \in WaveCoins
                                  /\ Waves!Ends(watched[i]) \in Nat /\ SettleBars[watched[i].strategy] \in Nat
                                  /\ HoldBars[watched[i].strategy] \in Nat
           /\ \A e \in emitted : e.row \in WatchIds /\ e.start \in Nat /\ e.time \in Nat
           /\ watchFaults \in Nat
<1>1. time \in Nat /\ Len(watched) \in Nat /\ DOMAIN watched = WatchIds /\ watchFaults \in Nat
  BY WatchConstants DEF WatchInv, WatchTyped, WatchTimes, WatchIds
<1>2. \A i \in WatchIds : watched[i] \in Waves!Row
  BY DEF WatchInv, WatchTyped, WatchIds
<1>3. \A i \in WatchIds : /\ watched[i].at \in Nat /\ watched[i].at \in WatchTimes /\ watched[i].created \in Nat
                          /\ watched[i].strategy \in WatchStrategies /\ watched[i].symbol \in WaveCoins
  BY <1>2, WatchConstants DEF Waves!Row, Waves!Times, WatchTimes, WatchStrategies
<1>4. \A i \in WatchIds : HoldBars[watched[i].strategy] \in Nat /\ SettleBars[watched[i].strategy] \in Nat
  BY <1>3, WatchConstants
<1>5. \A i \in WatchIds : Waves!Ends(watched[i]) \in Nat
  BY <1>3, <1>4 DEF Waves!Ends
<1>6. \A e \in emitted : e.row \in WatchIds /\ e.start \in Nat /\ e.time \in Nat
  BY WatchConstants DEF WatchInv, WatchTyped, WatchTimes
<1> QED BY <1>1, <1>2, <1>3, <1>4, <1>5, <1>6

LEMMA WatchMeans == ASSUME WatchInv
    PROVE  Waves!TypeOK /\ Waves!OneWatching /\ Waves!FailedStaysOut /\ Waves!EntryInTime /\ Waves!EnteredIsEmitted
<1>1. Waves!TypeOK
  <2>1. emitted \subseteq [row : Nat, start : Waves!Times, time : Waves!Times]
    BY WatchFacts DEF WatchInv, WatchTyped, WatchTimes, Waves!Times, WatchIds
  <2>2. \/ call = Waves!Idle
        \/ /\ call.step \in {"watch", "scan"} /\ call.strategy \in WatchStrategies
           /\ call.now \in Waves!Times /\ call.got \subseteq WatchIds
           /\ call.left \subseteq IF call.step = "watch" THEN WatchIds ELSE WaveCoins
    BY DEF WatchInv, WatchGoes, WatchCall, WatchTimes, Waves!Times
  <2> QED BY <2>1, <2>2, WatchFacts DEF WatchInv, WatchTyped, Waves!TypeOK, Waves!Times, Waves!Ids, WatchTimes, WatchStrategies
<1>2. Waves!OneWatching
  <2> SUFFICES ASSUME NEW i \in WatchIds, NEW j \in WatchIds, watched[i].status = "WATCHING", watched[j].status = "WATCHING",
                      WatchAlike(i, j), i # j
               PROVE  FALSE
    BY WatchFacts DEF Waves!OneWatching, Waves!Ids, WatchAlike
  <2>1. WatchAlike(j, i) /\ (i < j \/ j < i)
    BY DEF WatchAlike, WatchIds
  <2> QED BY <2>1 DEF WatchInv, WatchRows
<1>3. Waves!FailedStaysOut
  BY WatchFacts, Zenon DEF WatchInv, WatchRows, Waves!FailedStaysOut, Waves!Ids, WatchAlike, WatchLate
<1>4. Waves!EntryInTime
  BY DEF WatchInv, WatchSent, Waves!EntryInTime
<1>5. Waves!EnteredIsEmitted
  BY WatchFacts DEF WatchInv, WatchKept, Waves!EnteredIsEmitted, Waves!Ids
<1> QED BY <1>1, <1>2, <1>3, <1>4, <1>5

LEMMA WatchInit == ASSUME Waves!Init PROVE WatchInv
<1> USE WatchConstants DEF Waves!Init
<1>1. watched = <<>> /\ WatchIds = {} /\ emitted = {} /\ broken = {} /\ watchFaults = 0 /\ time = 0 /\ call = Waves!Idle
  BY DEF WatchIds
<1>2. WatchTyped
  BY <1>1 DEF WatchTyped, WatchTimes
<1> QED BY <1>1, <1>2 DEF WatchInv, WatchGoes, WatchRows, WatchSent, WatchKept

(* How a row may change: only its status, and never back. *)
WatchMoves(i) ==
  /\ watched'[i].strategy = watched[i].strategy /\ watched'[i].symbol = watched[i].symbol
  /\ watched'[i].at = watched[i].at /\ watched'[i].created = watched[i].created
  /\ \/ watched'[i].status = watched[i].status
     \/ watched'[i].status = "DELETED"
     \/ watched[i].status = "WATCHING" /\ watched'[i].status \in {"ENTERED", "EXPIRED"}
     \/ /\ watched[i].status = "WATCHING" /\ watched'[i].status = "INVALIDATED"
        /\ Skip[watched[i].strategy] = 0 => WatchLast > watched[i].at

LEMMA WatchChange ==
    ASSUME WatchInv, UNCHANGED <<time, broken, emitted>>, watched' \in Seq(Waves!Row), Len(watched') = Len(watched),
           \A i \in WatchIds : WatchMoves(i),
           \A e \in emitted : watched'[e.row].status \in {"ENTERED", "DELETED"}, watchFaults' \in 0..MaxFaults
    PROVE  WatchTyped' /\ WatchRows' /\ WatchSent'
<1>1. WatchIds' = WatchIds /\ WatchLast' = WatchLast
  BY DEF WatchIds, WatchLast
<1>2. WatchTyped'
  <2>1. \A i \in WatchIds : watched'[i].at % Quarter = 0
    BY DEF WatchInv, WatchTyped, WatchMoves
  <2> QED BY <1>1, <2>1 DEF WatchInv, WatchTyped
<1>3. WatchRows'
  <2>1. \A i, j \in WatchIds : WatchAlike(i, j)' <=> WatchAlike(i, j)
    BY DEF WatchAlike, WatchMoves
  <2>2. \A i \in WatchIds : WatchLate(i)' <=> WatchLate(i)
    BY DEF WatchLate, WatchMoves
  <2>3. \A i, j \in WatchIds : i < j /\ WatchAlike(i, j) => watched'[i].status # "WATCHING"
    BY DEF WatchInv, WatchRows, WatchMoves
  <2>4. \A i \in WatchIds : watched'[i].status = "INVALIDATED" /\ WatchLate(i) => WatchLast > watched'[i].at
    BY DEF WatchInv, WatchRows, WatchMoves, WatchLate
  <2>5. \A i, j \in WatchIds : i < j /\ WatchAlike(i, j) /\ WatchLate(i) /\ watched[i].at = watched[j].at
          => /\ watched[i].status \in {"ENTERED", "EXPIRED", "DELETED"}
             /\ watched[j].created < watched[i].at + Quarter
    BY DEF WatchInv, WatchRows
  <2>6. \A i, j \in WatchIds : i < j /\ WatchAlike(i, j) /\ WatchLate(i) /\ watched'[i].at = watched'[j].at
          => /\ watched'[i].status \in {"ENTERED", "EXPIRED", "DELETED"}
             /\ watched'[j].created < watched'[i].at + Quarter
    BY <2>5 DEF WatchMoves
  <2> QED BY <1>1, <2>1, <2>2, <2>3, <2>4, <2>6 DEF WatchRows
<1>4. WatchSent'
  <2>1. \A i \in WatchIds : Waves!Ends(watched'[i]) = Waves!Ends(watched[i])
    BY DEF Waves!Ends, WatchMoves
  <2>2. \A e \in emitted : /\ e.start <= Waves!Ends(watched'[e.row])
                           /\ watched'[e.row].at + SettleBars[watched'[e.row].strategy] <= e.time
    BY <2>1, WatchFacts DEF WatchInv, WatchSent, WatchMoves
  <2>3. \A e, g \in emitted : e.row = g.row => e = g
    BY DEF WatchInv, WatchSent
  <2> QED BY <2>2, <2>3 DEF WatchSent, Waves!Ends
<1> QED BY <1>2, <1>3, <1>4

(* A step that leaves the table alone. *)
LEMMA WatchQuiet ==
    ASSUME WatchInv, UNCHANGED <<watched, emitted>>, time' = time \/ (time' = time + 1 /\ time' \in WatchTimes),
           watchFaults' \in 0..MaxFaults, broken' \subseteq WatchStrategies \X WaveCoins \X WatchTimes,
           \A s \in WatchStrategies, c \in WaveCoins, t \in WatchTimes : <<s, c, t>> \in broken' => t % Quarter = 0
    PROVE  WatchTyped' /\ WatchRows' /\ WatchSent'
<1>1. WatchIds' = WatchIds
  BY DEF WatchIds
<1>2. WatchLast <= WatchLast'
  <2>1. PICK t : t = time
    OBVIOUS
  <2>2. t \in Nat /\ Quarter \in Nat \ {0}
    BY <2>1, WatchFacts, WatchConstants
  <2>3. (t \div Quarter) * Quarter <= ((t + 1) \div Quarter) * Quarter
    BY <2>2, HourGrows
  <2>4. (t \div Quarter) * Quarter \in Int
    <3>1. t \div Quarter \in Nat
      BY <2>2, HourOf
    <3> QED BY <2>2, <3>1
  <2> QED BY <2>1, <2>3, <2>4 DEF WatchLast
<1>3. WatchLast \in Int /\ WatchLast' \in Int
  <2>1. PICK t, u : t = time /\ u = time'
    OBVIOUS
  <2>2. t \in Nat /\ u \in Nat /\ Quarter \in Nat \ {0}
    BY <2>1, WatchFacts, WatchConstants
  <2>3. t \div Quarter \in Nat /\ u \div Quarter \in Nat
    BY <2>2, HourOf
  <2> QED BY <2>1, <2>2, <2>3 DEF WatchLast
<1>4. WatchTyped'
  BY <1>1 DEF WatchInv, WatchTyped
<1>5. WatchRows'
  <2>1. \A i \in WatchIds : watched[i].status = "INVALIDATED" /\ WatchLate(i) => WatchLast > watched[i].at
    BY DEF WatchInv, WatchRows
  <2>2. \A i \in WatchIds : watched[i].status = "INVALIDATED" /\ WatchLate(i) => WatchLast' > watched[i].at
    BY <1>2, <1>3, <2>1, WatchFacts
  <2> QED BY <1>1, <2>2 DEF WatchInv, WatchRows, WatchAlike, WatchLate
<1>6. WatchSent'
  BY DEF WatchInv, WatchSent, Waves!Ends
<1> QED BY <1>4, <1>5, <1>6

LEMMA WatchSets ==
    ASSUME NEW p \in WatchCall, NEW l, NEW g
    PROVE  /\ [p EXCEPT !.left = l] = [step |-> p.step, strategy |-> p.strategy, now |-> p.now, left |-> l, got |-> p.got]
           /\ [p EXCEPT !.step = "scan"] = [step |-> "scan", strategy |-> p.strategy, now |-> p.now, left |-> p.left, got |-> p.got]
           /\ [p EXCEPT !.step = "scan", !.left = l] = [step |-> "scan", strategy |-> p.strategy, now |-> p.now, left |-> l, got |-> p.got]
           /\ [[p EXCEPT !.left = l] EXCEPT !.got = g]
                = [step |-> p.step, strategy |-> p.strategy, now |-> p.now, left |-> l, got |-> g]
<1>1. PICK a, b, c, d, h : a = p.step /\ b = p.strategy /\ c = p.now /\ d = p.left /\ h = p.got
  OBVIOUS
<1>2. p = [step |-> a, strategy |-> b, now |-> c, left |-> d, got |-> h]
  BY <1>1 DEF WatchCall
<1>3. [p EXCEPT !.left = l] = [step |-> a, strategy |-> b, now |-> c, left |-> l, got |-> h]
  BY <1>2
<1>4. [p EXCEPT !.step = "scan"] = [step |-> "scan", strategy |-> b, now |-> c, left |-> d, got |-> h]
  BY <1>2
<1>5. [p EXCEPT !.step = "scan", !.left = l] = [step |-> "scan", strategy |-> b, now |-> c, left |-> l, got |-> h]
  <2>1. PICK v : v = [p EXCEPT !.step = "scan"]
    BY Zenon
  <2>4. v = [step |-> "scan", strategy |-> b, now |-> c, left |-> d, got |-> h]
    BY <1>4, <2>1
  <2>2. [v EXCEPT !.left = l] = [step |-> "scan", strategy |-> b, now |-> c, left |-> l, got |-> h]
    BY <2>4
  <2>3. [p EXCEPT !.step = "scan", !.left = l] = [v EXCEPT !.left = l]
    BY <2>1, Zenon
  <2> QED BY <2>2, <2>3
<1>6. PICK u : u = [step |-> a, strategy |-> b, now |-> c, left |-> l, got |-> h]
  BY Zenon
<1>7. [u EXCEPT !.got = g] = [step |-> a, strategy |-> b, now |-> c, left |-> l, got |-> g]
  BY <1>6
<1>8. [[p EXCEPT !.left = l] EXCEPT !.got = g] = [u EXCEPT !.got = g]
  BY <1>3, <1>6, Zenon
<1> QED BY <1>1, <1>3, <1>4, <1>5, <1>7, <1>8, Zenon

(* An hour passes; whoever has broken out closes it. *)
LEMMA WatchTick == ASSUME WatchInv, Waves!Tick PROVE WatchInv'
<1>1. time' = time + 1 /\ time' \in WatchTimes /\ UNCHANGED <<watched, call, emitted, watchFaults>>
  BY WatchConstants DEF WatchInv, WatchTyped, Waves!Tick, WatchTimes
<1>2. /\ broken' \subseteq WatchStrategies \X WaveCoins \X WatchTimes
      /\ \A s \in WatchStrategies, c \in WaveCoins, t \in WatchTimes : <<s, c, t>> \in broken' => t % Quarter = 0
  <2>1. CASE broken' = broken
    BY <2>1 DEF WatchInv, WatchTyped
  <2>2. ASSUME (time + 1) % Quarter = 0, NEW B \in SUBSET (WatchStrategies \X WaveCoins),
               broken' = broken \cup {<<b[1], b[2], time + 1>> : b \in B}
        PROVE  /\ broken' \subseteq WatchStrategies \X WaveCoins \X WatchTimes
               /\ \A s \in WatchStrategies, c \in WaveCoins, t \in WatchTimes : <<s, c, t>> \in broken' => t % Quarter = 0
    BY <1>1, <2>2 DEF WatchInv, WatchTyped
  <2>3. \/ broken' = broken
        \/ /\ (time + 1) % Quarter = 0
           /\ \E B \in SUBSET (WatchStrategies \X WaveCoins) : broken' = broken \cup {<<b[1], b[2], time + 1>> : b \in B}
    BY DEF Waves!Tick, WatchStrategies
  <2> QED BY <2>1, <2>2, <2>3
<1>3. watchFaults' \in 0..MaxFaults
  BY <1>1 DEF WatchInv, WatchTyped
<1>4. WatchTyped' /\ WatchRows' /\ WatchSent'
  BY <1>1, <1>2, <1>3, WatchQuiet
<1>5. WatchIds' = WatchIds
  BY <1>1 DEF WatchIds
<1>6. WatchGoes(call)'
  <2>1. PICK p : p = call
    OBVIOUS
  <2>2. CASE p = Waves!Idle
    BY <1>1, <2>1, <2>2 DEF WatchGoes
  <2>3. CASE p # Waves!Idle
    <3>1. p \in WatchCall /\ p.got \subseteq WatchIds
      BY <2>1, <2>3 DEF WatchInv, WatchGoes
    <3>2. \A i \in p.got : watched[i].at + SettleBars[watched[i].strategy] <= time
      BY <2>1, <2>3 DEF WatchInv, WatchGoes
    <3>3. \A i \in p.got : watched[i].at + SettleBars[watched[i].strategy] <= time + 1
      BY <3>1, <3>2, WatchFacts
    <3>4. WatchGoes(p)
      BY <2>1 DEF WatchInv
    <3>5. WatchGoes(p)'
      BY <1>1, <1>5, <2>3, <3>1, <3>3, <3>4 DEF WatchGoes, Waves!Ends
    <3> QED BY <1>1, <2>1, <3>5
  <2> QED BY <2>2, <2>3
<1>7. WatchKept(call)'
  BY <1>1, <1>5 DEF WatchInv, WatchKept
<1> QED BY <1>4, <1>6, <1>7 DEF WatchInv

(* The call begins with the observations that are not over. *)
LEMMA WatchExpires == ASSUME WatchInv, NEW i \in WatchIds, watched'[i] = Waves!Expire(watched[i])
    PROVE  /\ WatchMoves(i) /\ watched'[i] \in Waves!Row
           /\ watched'[i].status = "WATCHING" => time <= Waves!Ends(watched'[i])
           /\ watched'[i].status = "ENTERED" => watched[i].status = "ENTERED"
           /\ watched[i].status \in {"ENTERED", "DELETED"} => watched'[i].status \in {"ENTERED", "DELETED"}
<1>1. PICK o, n, w : o = watched[i] /\ n = Waves!Ended(o) /\ w = Waves!Purged(n)
  OBVIOUS
<1>2. o \in Waves!Row /\ Waves!Ends(o) \in Nat /\ time \in Nat
  BY <1>1, WatchFacts
<1>3. PICK a, b, c, d, s : a = o.strategy /\ b = o.symbol /\ c = o.at /\ d = o.created /\ s = o.status
  OBVIOUS
<1>4. o = [strategy |-> a, symbol |-> b, at |-> c, status |-> s, created |-> d]
  BY <1>2, <1>3 DEF Waves!Row
<1>5. [o EXCEPT !.status = "EXPIRED"] = [strategy |-> a, symbol |-> b, at |-> c, status |-> "EXPIRED", created |-> d]
  BY <1>4
<1>6. PICK t : n = [strategy |-> a, symbol |-> b, at |-> c, status |-> t, created |-> d]
               /\ (t = s \/ (t = "EXPIRED" /\ s = "WATCHING")) /\ (t = "WATCHING" => ~(Waves!Ends(o) < time))
  <2>1. CASE o.status = "WATCHING" /\ Waves!Ends(o) < time
    BY <1>1, <1>3, <1>5, <2>1 DEF Waves!Ended
  <2>2. CASE ~(o.status = "WATCHING" /\ Waves!Ends(o) < time)
    BY <1>1, <1>3, <1>4, <2>2 DEF Waves!Ended
  <2> QED BY <2>1, <2>2
<1>7. [n EXCEPT !.status = "DELETED"] = [strategy |-> a, symbol |-> b, at |-> c, status |-> "DELETED", created |-> d]
  BY <1>6
<1>8. PICK u : w = [strategy |-> a, symbol |-> b, at |-> c, status |-> u, created |-> d] /\ (u = t \/ (u = "DELETED" /\ t # "WATCHING"))
  <2>1. CASE n.status # "WATCHING" /\ n.created < time - KeepBars
    BY <1>1, <1>6, <1>7, <2>1 DEF Waves!Purged
  <2>2. CASE ~(n.status # "WATCHING" /\ n.created < time - KeepBars)
    BY <1>1, <1>6, <2>2 DEF Waves!Purged
  <2> QED BY <2>1, <2>2
<1>9. watched'[i] = w
  BY <1>1 DEF Waves!Expire
<1>10. a \in WatchStrategies /\ b \in WaveCoins /\ c \in Waves!Times /\ d \in Waves!Times /\ s \in Waves!Statuses
  BY <1>2, <1>3 DEF Waves!Row, WatchStrategies
<1>11. w \in Waves!Row
  BY <1>6, <1>8, <1>10 DEF Waves!Row, Waves!Statuses, WatchStrategies
<1>12. Waves!Ends(w) = Waves!Ends(o)
  BY <1>4, <1>8 DEF Waves!Ends
<1>13. watched'[i].status = "WATCHING" => time <= Waves!Ends(watched'[i])
  BY <1>2, <1>6, <1>8, <1>9, <1>12
<1>14. WatchMoves(i)
  BY <1>1, <1>3, <1>6, <1>8, <1>9 DEF WatchMoves
<1> QED BY <1>1, <1>3, <1>6, <1>8, <1>9, <1>11, <1>13, <1>14

LEMMA WatchStarts == ASSUME WatchInv, NEW s \in WatchStrategies, Waves!StartCall(s) PROVE WatchInv'
<1>1. /\ call = Waves!Idle /\ watched' = [i \in WatchIds |-> Waves!Expire(watched[i])] /\ UNCHANGED <<time, broken, emitted, watchFaults>>
      /\ call' = [step |-> "watch", strategy |-> s, now |-> time, left |-> Waves!Active(s, watched'), got |-> {}]
  <2>1. call.step = "idle"
    BY DEF Waves!StartCall
  <2>2. call = Waves!Idle
    BY <2>1 DEF WatchInv, WatchGoes, WatchCall
  <2> QED BY <2>2, WatchFacts DEF Waves!StartCall, Waves!Ids
<1>2. \A i \in WatchIds : watched'[i] = Waves!Expire(watched[i])
  BY <1>1
<1>3. \A i \in WatchIds : /\ WatchMoves(i) /\ watched'[i] \in Waves!Row
                          /\ watched'[i].status = "WATCHING" => time <= Waves!Ends(watched'[i])
                          /\ watched'[i].status = "ENTERED" => watched[i].status = "ENTERED"
                          /\ watched[i].status \in {"ENTERED", "DELETED"} => watched'[i].status \in {"ENTERED", "DELETED"}
  BY <1>2, WatchExpires
<1>4. watched' \in Seq(Waves!Row) /\ Len(watched') = Len(watched)
  <2>1. PICK n, t : n = Len(watched) /\ t = watched'
    BY Zenon
  <2>2. n \in Nat /\ t = [i \in 1..n |-> Waves!Expire(watched[i])]
    BY <1>1, <2>1, WatchFacts DEF WatchIds
  <2>3. \A i \in 1..n : t[i] \in Waves!Row
    BY <1>3, <2>1 DEF WatchIds
  <2>4. t \in [1..n -> Waves!Row]
    BY <2>2, <2>3
  <2> QED BY <2>1, <2>2, <2>4
<1>5. WatchTyped' /\ WatchRows' /\ WatchSent'
  <2>1. \A e \in emitted : watched'[e.row].status \in {"ENTERED", "DELETED"}
    BY <1>3, WatchFacts DEF WatchInv, WatchSent
  <2>2. watchFaults' \in 0..MaxFaults
    BY <1>1 DEF WatchInv, WatchTyped
  <2> QED BY <1>1, <1>3, <1>4, <2>1, <2>2, WatchChange, Zenon
<1>6. WatchIds' = WatchIds /\ DOMAIN watched' = WatchIds
  BY <1>1, <1>4 DEF WatchIds
<1>7. WatchGoes(call)'
  <2>1. PICK l, q : l = Waves!Active(s, watched') /\ q = call'
    OBVIOUS
  <2>2. l \subseteq WatchIds /\ \A i \in l : watched'[i].status = "WATCHING" /\ watched'[i].strategy = s
    BY <1>6, <2>1 DEF Waves!Active
  <2>3. q = [step |-> "watch", strategy |-> s, now |-> time, left |-> l, got |-> {}]
    BY <1>1, <2>1
  <2>4. q \in WatchCall
    BY <2>2, <2>3 DEF WatchCall, WatchInv, WatchTyped, WatchIds
  <2>5. WatchGoes(q)'
    BY <1>3, <1>6, <2>2, <2>3, <2>4 DEF WatchGoes
  <2> QED BY <2>1, <2>5
<1>8. WatchKept(call)'
  <2>1. \A i \in WatchIds : watched'[i].status = "ENTERED" => (\E e \in emitted : e.row = i) \/ watchFaults > 0
    BY <1>1, <1>3 DEF WatchInv, WatchKept, Waves!Idle
  <2> QED BY <1>1, <1>6, <2>1 DEF WatchKept
<1> QED BY <1>5, <1>7, <1>8 DEF WatchInv

(* A call that is under way is a record, and its work is rows or coins. *)
LEMMA WatchBusy == ASSUME WatchInv, call.step # "idle"
    PROVE  /\ call \in WatchCall /\ call.got \subseteq WatchIds /\ call # Waves!Idle
           /\ call.step = "watch" => call.left \subseteq WatchIds
           /\ call.step = "scan" => call.left \subseteq WaveCoins
  BY DEF WatchInv, WatchGoes, Waves!Idle

(* A row that was looked at gets a verdict. *)
LEMMA WatchLooks ==
    ASSUME WatchInv, NEW i, Waves!NextRow(i), NEW v \in {"ENTERED", "INVALIDATED"}, Waves!SetStatus(i, v),
           UNCHANGED <<time, broken, emitted, watchFaults>>,
           v = "INVALIDATED" /\ Skip[watched[i].strategy] = 0 => WatchLast > watched[i].at,
           v = "ENTERED" => watched[i].at + SettleBars[watched[i].strategy] <= time,
           NEW q, q = [step |-> "watch", strategy |-> call.strategy, now |-> call.now, left |-> call.left \ {i},
                       got |-> IF v = "ENTERED" THEN call.got \cup {i} ELSE call.got],
           call' = q
    PROVE  WatchInv'
<1>1. PICK p : p = call
  OBVIOUS
<1>2. p \in WatchCall /\ p.step = "watch" /\ i \in p.left /\ i \in WatchIds /\ p # Waves!Idle /\ p.got \subseteq WatchIds /\ p.left \subseteq WatchIds
  <2>1. call.step = "watch" /\ i \in call.left
    BY DEF Waves!NextRow
  <2> QED BY <1>1, <2>1, WatchBusy
<1>3. /\ \A j \in p.got : /\ watched[j].status = "ENTERED" /\ p.now <= Waves!Ends(watched[j])
                          /\ watched[j].at + SettleBars[watched[j].strategy] <= time
                          /\ \A e \in emitted : e.row # j
      /\ \A j \in p.left : /\ watched[j].status = "WATCHING" /\ watched[j].strategy = p.strategy
                           /\ p.now <= Waves!Ends(watched[j])
  BY <1>1, <1>2 DEF WatchInv, WatchGoes
<1>4. \A e \in emitted : e.row # i
  BY <1>2, <1>3 DEF WatchInv, WatchSent
<1>5. PICK o, w : o = watched[i] /\ w = [o EXCEPT !.status = v]
  BY Zenon
<1>6. o \in Waves!Row
  BY <1>2, <1>5, WatchFacts
<1>7. w = [strategy |-> o.strategy, symbol |-> o.symbol, at |-> o.at, status |-> v, created |-> o.created]
  <2>1. PICK a, b, c, d, s : a = o.strategy /\ b = o.symbol /\ c = o.at /\ d = o.created /\ s = o.status
    OBVIOUS
  <2>2. o = [strategy |-> a, symbol |-> b, at |-> c, status |-> s, created |-> d]
    BY <1>6, <2>1 DEF Waves!Row
  <2>3. [o EXCEPT !.status = v] = [strategy |-> a, symbol |-> b, at |-> c, status |-> v, created |-> d]
    BY <2>2
  <2> QED BY <1>5, <2>1, <2>3
<1>8. w \in Waves!Row
  BY <1>6, <1>7 DEF Waves!Row, Waves!Statuses
<1>9. watched' = [watched EXCEPT ![i] = w]
  BY <1>5 DEF Waves!SetStatus
<1>10. watched \in Seq(Waves!Row)
  BY DEF WatchInv, WatchTyped
<1>11. /\ watched' \in Seq(Waves!Row) /\ Len(watched') = Len(watched) /\ watched'[i] = w
       /\ \A j \in WatchIds : j # i => watched'[j] = watched[j]
  BY <1>2, <1>8, <1>9, <1>10 DEF WatchIds
<1>12. \A j \in WatchIds : WatchMoves(j)
  <2>1. WatchMoves(i)
    BY <1>2, <1>3, <1>5, <1>7, <1>11 DEF WatchMoves
  <2>2. ASSUME NEW j \in WatchIds, j # i PROVE WatchMoves(j)
    BY <1>11, <2>2 DEF WatchMoves
  <2> QED BY <2>1, <2>2
<1>13. WatchTyped' /\ WatchRows' /\ WatchSent'
  <2>1. \A e \in emitted : watched'[e.row].status \in {"ENTERED", "DELETED"}
    BY <1>4, <1>11, WatchFacts, Zenon DEF WatchInv, WatchSent
  <2>2. watchFaults' \in 0..MaxFaults
    BY DEF WatchInv, WatchTyped
  <2> QED BY <1>11, <1>12, <2>1, <2>2, WatchChange
<1>14. WatchIds' = WatchIds
  BY <1>11 DEF WatchIds
<1>15. WatchGoes(q)'
  <2>1. \A j \in WatchIds : Waves!Ends(watched'[j]) = Waves!Ends(watched[j])
    BY <1>12 DEF Waves!Ends, WatchMoves
  <2>2. q \in WatchCall /\ q.got \subseteq WatchIds
    BY <1>1, <1>2 DEF WatchCall, WatchIds
  <2>3. \A j \in q.left : /\ watched'[j].status = "WATCHING" /\ watched'[j].strategy = q.strategy
                          /\ q.now <= Waves!Ends(watched'[j])
    BY <1>1, <1>2, <1>3, <1>11, <2>1
  <2>4. \A j \in q.got : /\ watched'[j].status = "ENTERED" /\ q.now <= Waves!Ends(watched'[j])
                         /\ watched'[j].at + SettleBars[watched'[j].strategy] <= time
                         /\ \A e \in emitted : e.row # j
    <3> SUFFICES ASSUME NEW j \in q.got
                 PROVE  /\ watched'[j].status = "ENTERED" /\ q.now <= Waves!Ends(watched'[j])
                        /\ watched'[j].at + SettleBars[watched'[j].strategy] <= time
                        /\ \A e \in emitted : e.row # j
      OBVIOUS
    <3>1. CASE j = i /\ v = "ENTERED"
      BY <1>1, <1>2, <1>3, <1>4, <1>5, <1>7, <1>11, <2>1, <3>1
    <3>2. CASE j \in p.got
      <4>1. j # i
        BY <1>2, <1>3, <3>2
      <4> QED BY <1>1, <1>2, <1>3, <1>11, <2>1, <3>2, <4>1
    <3>3. j \in p.got \/ (j = i /\ v = "ENTERED")
      BY <1>1
    <3> QED BY <3>1, <3>2, <3>3
  <2>5. q.step = "watch" /\ q.left \subseteq WatchIds
    BY <1>1, <1>2
  <2> QED BY <1>14, <2>2, <2>3, <2>4, <2>5 DEF WatchGoes
<1>16. WatchKept(q)'
  <2> SUFFICES ASSUME NEW j \in WatchIds, watched'[j].status = "ENTERED"
               PROVE  (\E e \in emitted : e.row = j) \/ (q.step # "idle" /\ j \in q.got) \/ watchFaults > 0
    BY <1>14 DEF WatchKept
  <2>1. CASE j = i
    BY <1>7, <1>11, <2>1
  <2>2. CASE j # i
    BY <1>1, <1>11, <2>2 DEF WatchInv, WatchKept
  <2> QED BY <2>1, <2>2
<1> QED BY <1>13, <1>15, <1>16 DEF WatchInv

LEMMA WatchVerdicts ==
    ASSUME WatchInv, NEW i \in Waves!Ids, Waves!Invalidate(i) \/ Waves!Enter(i) \/ Waves!CancelEntry(i)
    PROVE  WatchInv'
<1>1. PICK p, l : p = call /\ l = p.left \ {i}
  BY Zenon
<1>2. call.step = "watch" /\ i \in call.left /\ Waves!NextRow(i)
  BY DEF Waves!NextRow, Waves!Invalidate, Waves!Enter, Waves!CancelEntry
<1>3. p \in WatchCall /\ p.step = "watch" /\ i \in WatchIds
  BY <1>1, <1>2, WatchBusy
<1>4. watched[i].strategy = p.strategy
  BY <1>1, <1>2, WatchBusy DEF WatchInv, WatchGoes
<1>5. PICK u : u = Waves!Looked(i)
  OBVIOUS
<1>6. u = [step |-> "watch", strategy |-> p.strategy, now |-> p.now, left |-> l, got |-> p.got]
  <2>1. u = [p EXCEPT !.left = l]
    BY <1>1, <1>5, Zenon DEF Waves!Looked
  <2> QED BY <1>3, <2>1, WatchSets, Zenon
<1>7. /\ p.strategy \in WatchStrategies /\ Skip[p.strategy] \in {0, 1} /\ SettleBars[p.strategy] \in Nat /\ time \in Nat
      /\ watched[i].at \in Nat
  BY <1>3, WatchConstants, WatchFacts DEF WatchCall
<1>8. CASE Waves!Invalidate(i)
  <2>1. Waves!SetStatus(i, "INVALIDATED") /\ call' = u /\ UNCHANGED <<time, broken, emitted, watchFaults>>
        /\ Waves!LastBar(p.strategy) > watched[i].at
    BY <1>1, <1>5, <1>8 DEF Waves!Invalidate
  <2>2. Skip[p.strategy] = 0 => WatchLast > watched[i].at
    <3>1. ASSUME Skip[p.strategy] = 0 PROVE WatchLast = Waves!LastBar(p.strategy)
      <4>1. time \div Quarter \in Nat
        BY <1>7, WatchConstants, HourOf, Zenon
      <4> QED BY <3>1, <4>1 DEF WatchLast, Waves!LastBar
    <3> QED BY <2>1, <3>1
  <2>3. PICK q : q = [step |-> "watch", strategy |-> call.strategy, now |-> call.now, left |-> call.left \ {i},
                      got |-> IF "INVALIDATED" = "ENTERED" THEN call.got \cup {i} ELSE call.got]
    BY Zenon
  <2>4. call' = q
    BY <1>1, <1>6, <2>1, <2>3
  <2> QED BY <1>2, <1>4, <2>1, <2>2, <2>3, <2>4, WatchLooks
<1>9. CASE Waves!CancelEntry(i)
  <2>1. Waves!SetStatus(i, "INVALIDATED") /\ call' = u /\ UNCHANGED <<time, broken, emitted, watchFaults>> /\ Skip[p.strategy] = 1
    BY <1>1, <1>5, <1>9 DEF Waves!CancelEntry
  <2>3. PICK q : q = [step |-> "watch", strategy |-> call.strategy, now |-> call.now, left |-> call.left \ {i},
                      got |-> IF "INVALIDATED" = "ENTERED" THEN call.got \cup {i} ELSE call.got]
    BY Zenon
  <2>4. call' = q
    BY <1>1, <1>6, <2>1, <2>3
  <2> QED BY <1>2, <1>4, <2>1, <2>3, <2>4, WatchLooks
<1>10. CASE Waves!Enter(i)
  <2>1. Waves!SetStatus(i, "ENTERED") /\ call' = [u EXCEPT !.got = @ \cup {i}] /\ UNCHANGED <<time, broken, emitted, watchFaults>>
        /\ time - watched[i].at - Skip[p.strategy] >= SettleBars[p.strategy]
    BY <1>1, <1>5, <1>10 DEF Waves!Enter, Waves!EnoughBars
  <2>2. watched[i].at + SettleBars[watched[i].strategy] <= time
    BY <1>4, <1>7, <2>1
  <2>3. PICK q : q = [step |-> "watch", strategy |-> call.strategy, now |-> call.now, left |-> call.left \ {i},
                      got |-> IF "ENTERED" = "ENTERED" THEN call.got \cup {i} ELSE call.got]
    BY Zenon
  <2>4. call' = q
    <3>1. PICK g : g = p.got \cup {i}
      BY Zenon
    <3>2. [u EXCEPT !.got = g] = [step |-> "watch", strategy |-> p.strategy, now |-> p.now, left |-> l, got |-> g]
      BY <1>6
    <3>3. u.got = p.got
      BY <1>6
    <3>4. call' = [u EXCEPT !.got = u.got \cup {i}]
      BY <2>1, Zenon
    <3>5. call' = [u EXCEPT !.got = g]
      BY <3>1, <3>3, <3>4, Zenon
    <3> QED BY <1>1, <2>3, <3>1, <3>2, <3>5
  <2> QED BY <1>2, <1>4, <2>1, <2>2, <2>3, <2>4, WatchLooks
<1> QED BY <1>8, <1>9, <1>10

(* A step of the call alone. *)
LEMMA WatchCalls ==
    ASSUME WatchInv, call.step # "idle", UNCHANGED <<time, broken, watched, emitted, watchFaults>>,
           NEW q, q \in WatchCall, q.got = call.got, q.now = call.now, q.strategy = call.strategy, call' = q,
           q.step = "watch" => call.step = "watch" /\ q.left \subseteq call.left,
           q.step = "scan" => /\ q.left \subseteq WaveCoins
                              /\ \A i \in WatchIds : watched[i].status = "WATCHING" /\ watched[i].strategy = q.strategy
                                                     => watched[i].symbol \notin q.left
    PROVE  WatchInv'
<1>1. PICK p : p = call
  OBVIOUS
<1>2. p \in WatchCall /\ p.got \subseteq WatchIds /\ p # Waves!Idle /\ WatchGoes(p)
  BY <1>1, WatchBusy DEF WatchInv
<1>3. /\ \A i \in p.got : /\ watched[i].status = "ENTERED" /\ p.now <= Waves!Ends(watched[i])
                          /\ watched[i].at + SettleBars[watched[i].strategy] <= time
                          /\ \A e \in emitted : e.row # i
      /\ p.step = "watch" => /\ p.left \subseteq WatchIds
                             /\ \A i \in p.left : /\ watched[i].status = "WATCHING" /\ watched[i].strategy = p.strategy
                                                  /\ p.now <= Waves!Ends(watched[i])
  BY <1>2 DEF WatchGoes
<1>4. WatchIds' = WatchIds
  BY DEF WatchIds
<1>5. WatchTyped' /\ WatchRows' /\ WatchSent'
  <2>1. watchFaults' \in 0..MaxFaults /\ broken' \subseteq WatchStrategies \X WaveCoins \X WatchTimes
        /\ \A s \in WatchStrategies, c \in WaveCoins, t \in WatchTimes : <<s, c, t>> \in broken' => t % Quarter = 0
    BY DEF WatchInv, WatchTyped
  <2> QED BY <2>1, WatchQuiet
<1>6. WatchGoes(q)'
  BY <1>1, <1>2, <1>3, <1>4 DEF WatchGoes, Waves!Ends
<1>7. WatchKept(q)'
  <2>1. q.step # "idle"
    BY DEF WatchCall
  <2> QED BY <1>4, <2>1 DEF WatchInv, WatchKept
<1> QED BY <1>5, <1>6, <1>7 DEF WatchInv

LEMMA WatchQuietSteps ==
    ASSUME WatchInv, \/ \E i \in Waves!Ids : Waves!KeepWatching(i)
                     \/ Waves!StartSearch \/ Waves!NoTickers
                     \/ \E sym \in WaveCoins : Waves!PassOver(sym)
    PROVE  WatchInv'
<1>1. PICK p : p = call
  OBVIOUS
<1>2. ASSUME NEW i \in Waves!Ids, Waves!KeepWatching(i) PROVE WatchInv'
  <2>1. p.step = "watch" /\ call.step # "idle" /\ call' = [p EXCEPT !.left = p.left \ {i}] /\ UNCHANGED <<time, broken, watched, emitted, watchFaults>>
    BY <1>1, <1>2 DEF Waves!KeepWatching, Waves!NextRow, Waves!Looked
  <2>2. p \in WatchCall
    BY <1>1, <2>1, WatchBusy
  <2>3. PICK l : l = p.left \ {i}
    BY Zenon
  <2>4. PICK q : q = [step |-> p.step, strategy |-> p.strategy, now |-> p.now, left |-> l, got |-> p.got]
    BY Zenon
  <2>5. call' = q
    BY <2>1, <2>2, <2>3, <2>4, WatchSets, Zenon
  <2>6. q \in WatchCall /\ q.left \subseteq p.left
    BY <2>2, <2>3, <2>4 DEF WatchCall
  <2> QED BY <1>1, <2>1, <2>4, <2>5, <2>6, WatchCalls
<1>3. CASE Waves!StartSearch
  <2>1. PICK l : l = WaveCoins \ {watched[i].symbol : i \in Waves!Active(call.strategy, watched)}
    BY Zenon
  <2>2. p.step = "watch" /\ call.step # "idle" /\ UNCHANGED <<time, broken, watched, emitted, watchFaults>>
        /\ call' = [p EXCEPT !.step = "scan", !.left = l]
    BY <1>1, <1>3, <2>1 DEF Waves!StartSearch
  <2>3. p \in WatchCall
    BY <1>1, <2>2, WatchBusy
  <2>4. PICK q : q = [step |-> "scan", strategy |-> p.strategy, now |-> p.now, left |-> l, got |-> p.got]
    BY Zenon
  <2>5. call' = q
    BY <2>2, <2>3, <2>4, WatchSets, Zenon
  <2>6. q \in WatchCall /\ q.left \subseteq WaveCoins
    BY <2>1, <2>3, <2>4 DEF WatchCall
  <2>7. \A i \in WatchIds : watched[i].status = "WATCHING" /\ watched[i].strategy = q.strategy => watched[i].symbol \notin q.left
    BY <1>1, <2>1, <2>4, WatchFacts DEF Waves!Active
  <2>8. q.step = "scan" /\ q.got = call.got /\ q.now = call.now /\ q.strategy = call.strategy
    BY <1>1, <2>4
  <2> QED BY <2>2, <2>5, <2>6, <2>7, <2>8, WatchCalls
<1>4. CASE Waves!NoTickers
  <2>2. p.step = "watch" /\ p.left = {} /\ call.step # "idle" /\ UNCHANGED <<time, broken, watched, emitted, watchFaults>>
        /\ call' = [p EXCEPT !.step = "scan"]
    BY <1>1, <1>4 DEF Waves!NoTickers
  <2>3. p \in WatchCall
    BY <1>1, <2>2, WatchBusy
  <2>4. PICK q : q = [step |-> "scan", strategy |-> p.strategy, now |-> p.now, left |-> p.left, got |-> p.got]
    BY Zenon
  <2>5. call' = q
    BY <2>2, <2>3, <2>4, WatchSets, Zenon
  <2>6. q \in WatchCall /\ q.left = {}
    BY <2>2, <2>3, <2>4 DEF WatchCall
  <2> QED BY <1>1, <2>2, <2>4, <2>5, <2>6, WatchCalls
<1>5. ASSUME NEW sym \in WaveCoins, Waves!PassOver(sym) PROVE WatchInv'
  <2>1. p.step = "scan" /\ call.step # "idle" /\ call' = [p EXCEPT !.left = p.left \ {sym}] /\ UNCHANGED <<time, broken, watched, emitted, watchFaults>>
    BY <1>1, <1>5 DEF Waves!PassOver
  <2>2. p \in WatchCall /\ p.left \subseteq WaveCoins
    BY <1>1, <2>1, WatchBusy
  <2>3. PICK l : l = p.left \ {sym}
    BY Zenon
  <2>4. PICK q : q = [step |-> p.step, strategy |-> p.strategy, now |-> p.now, left |-> l, got |-> p.got]
    BY Zenon
  <2>5. call' = q
    BY <2>1, <2>2, <2>3, <2>4, WatchSets, Zenon
  <2>6. q \in WatchCall /\ q.left \subseteq p.left
    BY <2>2, <2>3, <2>4 DEF WatchCall
  <2>7. \A i \in WatchIds : watched[i].status = "WATCHING" /\ watched[i].strategy = q.strategy => watched[i].symbol \notin q.left
    BY <1>1, <2>1, <2>4, <2>6, WatchBusy DEF WatchInv, WatchGoes
  <2> QED BY <1>1, <2>1, <2>2, <2>4, <2>5, <2>6, <2>7, WatchCalls
<1> QED BY <1>2, <1>3, <1>4, <1>5

(* A breakout is added: it is the last hour's, or one further back where the strategy looks that far. *)
LEMMA WatchAdds == ASSUME WatchInv, NEW sym \in WaveCoins, Waves!AddWatch(sym) PROVE WatchInv'
<1>1. PICK p, n : p = call /\ n = Len(watched)
  BY Zenon
<1>2. p.step = "scan" /\ call.step # "idle" /\ sym \in p.left /\ n < Room /\ UNCHANGED <<time, broken, emitted, watchFaults>>
      /\ call' = [p EXCEPT !.left = p.left \ {sym}]
  BY <1>1 DEF Waves!AddWatch
<1>3. p \in WatchCall /\ p.left \subseteq WaveCoins /\ p.got \subseteq WatchIds /\ p # Waves!Idle /\ p.strategy \in WatchStrategies /\ n \in Nat
  BY <1>1, <1>2, WatchBusy, WatchFacts DEF WatchCall
<1>4. PICK t \in Waves!Seen(p.strategy, sym) :
        watched' = Append(watched, [strategy |-> p.strategy, symbol |-> sym, at |-> t, status |-> "WATCHING", created |-> time])
  BY <1>1 DEF Waves!AddWatch
<1>5. /\ t \in WatchTimes /\ t \in Nat /\ <<p.strategy, sym, t>> \in broken
      /\ t <= Waves!LastBar(p.strategy) /\ t > Waves!LastBar(p.strategy) - Reach[p.strategy] * Quarter
  BY <1>4, WatchConstants DEF Waves!Seen, Waves!Times, WatchTimes
<1>6. t % Quarter = 0
  BY <1>3, <1>5 DEF WatchInv, WatchTyped
<1>7. PICK w : w = [strategy |-> p.strategy, symbol |-> sym, at |-> t, status |-> "WATCHING", created |-> time]
  BY Zenon
<1>8. w \in Waves!Row
  BY <1>3, <1>5, <1>7 DEF Waves!Row, Waves!Times, Waves!Statuses, WatchInv, WatchTyped, WatchTimes, WatchStrategies
<1>9. /\ watched' \in Seq(Waves!Row) /\ Len(watched') = n + 1 /\ watched'[n + 1] = w /\ \A i \in WatchIds : watched'[i] = watched[i]
      /\ WatchIds' = WatchIds \cup {n + 1}
  <2>1. watched \in Seq(Waves!Row) /\ watched' = Append(watched, w)
    BY <1>4, <1>7 DEF WatchInv, WatchTyped
  <2>2. watched' \in Seq(Waves!Row) /\ Len(watched') = n + 1 /\ watched'[n + 1] = w /\ \A i \in WatchIds : watched'[i] = watched[i]
    BY <1>1, <1>8, <2>1 DEF WatchIds
  <2> QED BY <1>1, <1>3, <2>2 DEF WatchIds
<1>10. ASSUME Reach[p.strategy] = 1, Skip[p.strategy] = 0 PROVE t = WatchLast /\ time < t + Quarter
  <2>1. PICK u, b : u = time /\ b = (u \div Quarter) * Quarter
    OBVIOUS
  <2>2. u \in Nat /\ Quarter \in Nat \ {0}
    BY <2>1, WatchFacts, WatchConstants
  <2>3. u \div Quarter \in Nat /\ u < b + Quarter
    BY <2>1, <2>2, HourOf
  <2>4. Waves!LastBar(p.strategy) = b
    BY <1>10, <2>1, <2>3 DEF Waves!LastBar
  <2>5. t <= b /\ t > b - Quarter
    BY <1>5, <1>10, <2>2, <2>4
  <2>6. t = b
    BY <1>5, <1>6, <2>1, <2>2, <2>5, HourSame, Zenon
  <2> QED BY <2>1, <2>3, <2>6 DEF WatchLast
<1>11. \A i \in WatchIds : i # n + 1 /\ i < n + 1
  BY <1>1 DEF WatchIds
<1>12. WatchTyped'
  <2>1. \A i \in WatchIds' : watched'[i].at % Quarter = 0
    BY <1>6, <1>7, <1>9 DEF WatchInv, WatchTyped
  <2>2. emitted' \subseteq [row : WatchIds', start : WatchTimes, time : WatchTimes]
    BY <1>2, <1>9 DEF WatchInv, WatchTyped
  <2>3. Len(watched') <= Room
    BY <1>2, <1>3, <1>9, WatchConstants
  <2> QED BY <1>2, <1>9, <2>1, <2>2, <2>3 DEF WatchInv, WatchTyped
<1>13. \A i \in WatchIds : watched[i].strategy = p.strategy /\ watched[i].symbol = sym => watched[i].status # "WATCHING"
  BY <1>1, <1>2, <1>3 DEF WatchInv, WatchGoes
<1>14. WatchRows'
  <2> DEFINE row(i) == watched'[i]
             alike(i, j) == row(i).strategy = row(j).strategy /\ row(i).symbol = row(j).symbol
             late(i) == Reach[row(i).strategy] = 1 /\ Skip[row(i).strategy] = 0
  <2>1. \A i, j \in WatchIds : (alike(i, j) <=> WatchAlike(i, j)) /\ (late(i) <=> WatchLate(i))
    BY <1>9 DEF WatchAlike, WatchLate
  <2>2. ASSUME NEW i \in WatchIds', NEW j \in WatchIds', i < j, alike(i, j) PROVE row(i).status # "WATCHING"
    <3>1. i \in WatchIds
      BY <1>1, <1>3, <1>9, <1>11, <2>2 DEF WatchIds
    <3>2. CASE j \in WatchIds
      BY <1>9, <2>1, <2>2, <3>1, <3>2 DEF WatchInv, WatchRows
    <3>3. CASE j = n + 1
      BY <1>7, <1>9, <1>13, <2>2, <3>1, <3>3
    <3> QED BY <1>9, <3>2, <3>3
  <2>3. ASSUME NEW i \in WatchIds', row(i).status = "INVALIDATED", late(i) PROVE WatchLast > row(i).at
    <3>1. i \in WatchIds
      BY <1>7, <1>9, <2>3
    <3> QED BY <1>9, <2>1, <2>3, <3>1 DEF WatchInv, WatchRows
  <2>4. ASSUME NEW i \in WatchIds', NEW j \in WatchIds', i < j, alike(i, j), late(i), row(i).at = row(j).at
        PROVE  /\ row(i).status \in {"ENTERED", "EXPIRED", "DELETED"}
               /\ row(j).created < row(i).at + Quarter
    <3>1. i \in WatchIds
      BY <1>1, <1>3, <1>9, <1>11, <2>4 DEF WatchIds
    <3>2. CASE j \in WatchIds
      BY <1>9, <2>1, <2>4, <3>1, <3>2 DEF WatchInv, WatchRows
    <3>3. CASE j = n + 1
      <4>1. row(i) = watched[i] /\ row(j) = w
        BY <1>9, <3>1, <3>3
      <4>2. watched[i].strategy = p.strategy /\ watched[i].symbol = sym /\ watched[i].at = t
        BY <1>7, <2>4, <4>1
      <4>3. t = WatchLast /\ time < t + Quarter
        BY <1>10, <2>4, <4>1, <4>2
      <4>4. watched[i].status # "WATCHING"
        BY <1>13, <3>1, <4>2
      <4>5. watched[i].status # "INVALIDATED"
        <5>1. watched[i].status = "INVALIDATED" /\ WatchLate(i) => WatchLast > watched[i].at
          BY <3>1 DEF WatchInv, WatchRows
        <5> QED BY <1>5, <2>1, <2>4, <3>1, <4>2, <4>3, <5>1
      <4>6. watched[i].status \in Waves!Statuses
        BY <3>1, WatchFacts DEF Waves!Row
      <4> QED BY <1>7, <4>1, <4>2, <4>3, <4>4, <4>5, <4>6 DEF Waves!Statuses
    <3> QED BY <1>9, <3>2, <3>3
  <2>5. WatchLast' = WatchLast
    BY <1>2 DEF WatchLast
  <2> QED BY <2>2, <2>3, <2>4, <2>5 DEF WatchRows, WatchAlike, WatchLate
<1>15. WatchSent'
  <2>1. \A e \in emitted : e.row \in WatchIds /\ watched'[e.row] = watched[e.row]
    BY <1>9, WatchFacts
  <2> QED BY <1>2, <2>1 DEF WatchInv, WatchSent, Waves!Ends
<1>16. PICK l, q : l = p.left \ {sym} /\ q = [step |-> p.step, strategy |-> p.strategy, now |-> p.now, left |-> l, got |-> p.got]
  BY Zenon
<1>17. call' = q
  BY <1>2, <1>3, <1>16, WatchSets, Zenon
<1>18. WatchGoes(q)'
  <2>1. q \in WatchCall /\ q.got \subseteq WatchIds /\ q.left \subseteq WaveCoins /\ q.step = "scan" /\ q.got = p.got /\ q.now = p.now
    BY <1>2, <1>3, <1>16 DEF WatchCall
  <2>2. \A i \in p.got : /\ watched[i].status = "ENTERED" /\ p.now <= Waves!Ends(watched[i])
                         /\ watched[i].at + SettleBars[watched[i].strategy] <= time
                         /\ \A e \in emitted : e.row # i
    BY <1>1, <1>3 DEF WatchInv, WatchGoes
  <2>3. \A i \in q.got : /\ watched'[i].status = "ENTERED" /\ q.now <= Waves!Ends(watched'[i])
                         /\ watched'[i].at + SettleBars[watched'[i].strategy] <= time
                         /\ \A e \in emitted : e.row # i
    BY <1>9, <2>1, <2>2
  <2>4. ASSUME NEW i \in WatchIds', watched'[i].status = "WATCHING", watched'[i].strategy = q.strategy
        PROVE  watched'[i].symbol \notin q.left
    <3>1. CASE i = n + 1
      BY <1>7, <1>9, <1>16, <3>1
    <3>2. CASE i \in WatchIds
      BY <1>1, <1>2, <1>3, <1>9, <1>16, <2>4, <3>2 DEF WatchInv, WatchGoes
    <3> QED BY <1>9, <3>1, <3>2
  <2> QED BY <1>2, <1>9, <2>1, <2>3, <2>4 DEF WatchGoes, Waves!Ends
<1>19. WatchKept(q)'
  <2> SUFFICES ASSUME NEW i \in WatchIds', watched'[i].status = "ENTERED"
               PROVE  (\E e \in emitted : e.row = i) \/ (q.step # "idle" /\ i \in q.got) \/ watchFaults > 0
    BY <1>2 DEF WatchKept
  <2>1. i \in WatchIds
    BY <1>7, <1>9
  <2>2. q.step # "idle" /\ q.got = p.got
    BY <1>2, <1>16
  <2> QED BY <1>1, <1>9, <2>1, <2>2 DEF WatchInv, WatchKept
<1> QED BY <1>12, <1>14, <1>15, <1>17, <1>18, <1>19 DEF WatchInv

(* The call returns what it entered, or is lost with it. *)
LEMMA WatchEnds == ASSUME WatchInv, Waves!Return \/ Waves!Crash PROVE WatchInv'
<1>1. PICK p : p = call
  OBVIOUS
<1>2. call.step # "idle" /\ call' = Waves!Idle /\ UNCHANGED <<time, broken, watched>>
  BY DEF Waves!Return, Waves!Crash
<1>3. p \in WatchCall /\ p.got \subseteq WatchIds /\ p # Waves!Idle
  BY <1>1, <1>2, WatchBusy
<1>4. \A i \in p.got : /\ watched[i].status = "ENTERED" /\ p.now <= Waves!Ends(watched[i])
                       /\ watched[i].at + SettleBars[watched[i].strategy] <= time
                       /\ \A e \in emitted : e.row # i
  BY <1>1, <1>3 DEF WatchInv, WatchGoes
<1>5. WatchIds' = WatchIds
  BY <1>2 DEF WatchIds
<1>6. WatchGoes(call)'
  BY <1>2 DEF WatchGoes
<1>7. CASE Waves!Crash
  <2>1. watchFaults' = watchFaults + 1 /\ watchFaults < MaxFaults /\ emitted' = emitted
    BY <1>7 DEF Waves!Crash, Waves!Fault
  <2>2. watchFaults' \in 0..MaxFaults /\ watchFaults' > 0
    BY <2>1, WatchConstants DEF WatchInv, WatchTyped
  <2>3. broken' \subseteq WatchStrategies \X WaveCoins \X WatchTimes
        /\ \A s \in WatchStrategies, c \in WaveCoins, t \in WatchTimes : <<s, c, t>> \in broken' => t % Quarter = 0
    BY <1>2 DEF WatchInv, WatchTyped
  <2>4. WatchTyped' /\ WatchRows' /\ WatchSent'
    BY <1>2, <2>1, <2>2, <2>3, WatchQuiet
  <2> QED BY <1>6, <2>2, <2>4 DEF WatchInv, WatchKept
<1>8. CASE Waves!Return
  <2>1. emitted' = emitted \cup {[row |-> i, start |-> p.now, time |-> time] : i \in p.got} /\ watchFaults' = watchFaults
    BY <1>1, <1>8 DEF Waves!Return
  <2>2. \A e \in emitted' : e \in emitted \/ \E i \in p.got : e = [row |-> i, start |-> p.now, time |-> time]
    BY <2>1
  <2>3. WatchTyped'
    <3>1. emitted' \subseteq [row : WatchIds, start : WatchTimes, time : WatchTimes]
      <4>1. p.now \in WatchTimes /\ time \in WatchTimes
        BY <1>3 DEF WatchCall, WatchInv, WatchTyped
      <4> QED BY <1>3, <2>2, <4>1 DEF WatchInv, WatchTyped
    <3> QED BY <1>2, <1>5, <2>1, <3>1 DEF WatchInv, WatchTyped
  <2>4. WatchRows'
    BY <1>2, <1>5 DEF WatchInv, WatchRows, WatchAlike, WatchLate, WatchLast
  <2>5. WatchSent'
    <3>1. \A e \in emitted' : /\ watched[e.row].status \in {"ENTERED", "DELETED"}
                              /\ e.start <= Waves!Ends(watched[e.row])
                              /\ watched[e.row].at + SettleBars[watched[e.row].strategy] <= e.time
      BY <1>4, <2>2 DEF WatchInv, WatchSent
    <3>2. ASSUME NEW e \in emitted', NEW g \in emitted', e.row = g.row PROVE e = g
      <4>1. CASE e \in emitted /\ g \in emitted
        BY <3>2, <4>1 DEF WatchInv, WatchSent
      <4>2. CASE e \notin emitted
        BY <1>4, <2>2, <3>2, <4>2
      <4>3. CASE g \notin emitted
        BY <1>4, <2>2, <3>2, <4>3
      <4> QED BY <4>1, <4>2, <4>3
    <3> QED BY <1>2, <3>1, <3>2 DEF WatchSent, Waves!Ends
  <2>6. WatchKept(call)'
    <3> SUFFICES ASSUME NEW i \in WatchIds, watched[i].status = "ENTERED"
                 PROVE  (\E e \in emitted' : e.row = i) \/ watchFaults > 0
      BY <1>2, <1>5, <2>1 DEF WatchKept
    <3>1. CASE \E e \in emitted : e.row = i
      BY <2>1, <3>1
    <3>2. CASE i \in p.got
      <4>1. PICK e : e = [row |-> i, start |-> p.now, time |-> time]
        BY Zenon
      <4>2. e \in emitted' /\ e.row = i
        BY <2>1, <3>2, <4>1
      <4> QED BY <4>2
    <3> QED BY <1>1, <3>1, <3>2 DEF WatchInv, WatchKept
  <2> QED BY <1>6, <2>3, <2>4, <2>5, <2>6 DEF WatchInv
<1> QED BY <1>7, <1>8

LEMMA WatchStep == ASSUME WatchInv, [Waves!Next]_watchVars PROVE WatchInv'
<1>1. CASE UNCHANGED watchVars
  BY <1>1 DEF watchVars, WatchInv, WatchTyped, WatchGoes, WatchRows, WatchSent, WatchKept, WatchIds, WatchLast, WatchAlike,
              WatchLate, Waves!Ends
<1>2. CASE Waves!Next
  <2>1. CASE Waves!Tick
    BY <2>1, WatchTick
  <2>2. CASE \E s \in WatchStrategies : Waves!StartCall(s)
    BY <2>2, WatchStarts
  <2>3. CASE Waves!CallStep
    BY <2>3, WatchVerdicts, WatchQuietSteps, WatchAdds, WatchEnds DEF Waves!CallStep
  <2>4. CASE Waves!Crash
    BY <2>4, WatchEnds
  <2> QED BY <1>2, <2>1, <2>2, <2>3, <2>4 DEF Waves!Next, WatchStrategies
<1> QED BY <1>1, <1>2

-----------------------------------------------------------------------------
(* The rolling list of hot coins. *)
ListStrategies == {"v66", "v664"}
ListPatience == Max({ListExpiry[s] : s \in ListStrategies})
ListLongest == List!Longest
ListAges == 0..ListLongest
ListActive == [source : {1, -1}, status : {"ACTIVE"}, first : ListAges, last : ListAges, left : ListAges]
ListWatched(c) == items[c] # None /\ items[c].status = "ACTIVE"
ListTyped ==
  /\ ranked \in [Coins -> {1, 0, -1}]
  /\ items \in [Coins -> ListActive \cup {List!Gone, None}]
  /\ run = None \/ run \in [id : ListStrategies, todo : SUBSET Coins]
  /\ plans \subseteq [symbol : Coins, id : ListStrategies, side : {1, -1}, first : ListAges, last : ListAges]
  /\ run # None => \A c \in run.todo : ranked[c] # 0
(* What is left of a watch never reaches past the longest one, nor, as long as it lasts, *)
(* past the most patient strategy's; during a review no coin is watched that is past it. *)
ListLeft ==
  \A c \in Coins : ListWatched(c) =>
    /\ items[c].first + items[c].left <= ListLongest
    /\ items[c].left > 0 => items[c].last + items[c].left <= ListPatience
    /\ run # None => items[c].first < ListLongest /\ items[c].last < ListPatience
ListPlanned == \A p \in plans : p.first < ListLongest /\ p.last < ListPatience
ListInv == ListTyped /\ ListLeft /\ ListPlanned

LEMMA ListBest ==
    ASSUME NEW g, \A s \in ListStrategies : g[s] \in Nat
    PROVE  /\ Max({g[s] : s \in ListStrategies}) \in Nat
           /\ \A s \in ListStrategies : g[s] <= Max({g[t] : t \in ListStrategies})
<1>1. PICK a, b : a = g["v66"] /\ b = g["v664"]
  OBVIOUS
<1>2. a \in Nat /\ b \in Nat
  BY <1>1 DEF ListStrategies
<1>3. {g[s] : s \in ListStrategies} = {a, b}
  BY <1>1 DEF ListStrategies
<1>4. Max({a, b}) = IF a >= b THEN a ELSE b
  BY <1>2, MaxOfTwoA
<1>5. Max({a, b}) \in Nat /\ a <= Max({a, b}) /\ b <= Max({a, b})
  BY <1>2, <1>4
<1> QED BY <1>1, <1>3, <1>5 DEF ListStrategies

LEMMA ListMax == \A S : List!Max(S) = Max(S) /\ List!Min(S) = Min(S)
  BY DEF List!Max, Max, List!Min, Min

LEMMA ListConstants ==
  /\ ListLongest \in Nat \ {0} /\ ListPatience \in Nat \ {0} /\ ListPatience <= ListLongest /\ Refresh \in Nat
  /\ \A s \in ListStrategies : /\ ListExpiry[s] \in Nat \ {0} /\ MaxTtl[s] \in Nat /\ ListExpiry[s] <= MaxTtl[s]
                               /\ ListExpiry[s] <= ListPatience /\ MaxTtl[s] <= ListLongest
  /\ List!Max({ListExpiry[s] : s \in {"v66", "v664"}}) = ListPatience
<1>1. \A s \in ListStrategies : ListExpiry[s] \in Nat \ {0} /\ MaxTtl[s] \in Nat /\ ListExpiry[s] <= MaxTtl[s]
  BY ServicesAssumption DEF List!HotWatchAssumption, ListStrategies
<1>2. ListLongest = Max({MaxTtl[s] : s \in ListStrategies})
  BY ListMax DEF ListLongest, List!Longest, ListStrategies
<1>3. ListLongest \in Nat /\ \A s \in ListStrategies : MaxTtl[s] <= ListLongest
  BY <1>1, <1>2, ListBest
<1>4. ListPatience \in Nat /\ \A s \in ListStrategies : ListExpiry[s] <= ListPatience
  BY <1>1, ListBest DEF ListPatience
<1>5. ListPatience = ListExpiry["v66"] \/ ListPatience = ListExpiry["v664"]
  <2>1. PICK a, b : a = ListExpiry["v66"] /\ b = ListExpiry["v664"]
    OBVIOUS
  <2>2. a \in Nat /\ b \in Nat
    BY <1>1, <2>1 DEF ListStrategies
  <2>3. {ListExpiry[s] : s \in ListStrategies} = {a, b}
    BY <2>1 DEF ListStrategies
  <2>4. Max({a, b}) = IF a >= b THEN a ELSE b
    BY <2>2, MaxOfTwoA
  <2> QED BY <2>1, <2>3, <2>4 DEF ListPatience
<1>6. ListPatience <= ListLongest /\ ListPatience > 0
  <2>1. "v66" \in ListStrategies /\ "v664" \in ListStrategies
    BY DEF ListStrategies
  <2> QED BY <1>1, <1>3, <1>4, <1>5, <2>1
<1>7. Refresh \in Nat
  BY ServicesAssumption DEF List!HotWatchAssumption
<1> QED BY <1>1, <1>3, <1>4, <1>6, <1>7, ListMax DEF ListPatience, ListStrategies

LEMMA ListFacts == ASSUME ListInv
    PROVE  /\ \A c \in Coins : ListWatched(c) =>
                /\ items[c] \in ListActive /\ items[c].first \in Nat /\ items[c].last \in Nat /\ items[c].left \in Nat
                /\ items[c].source \in {1, -1} /\ items[c].first \in ListAges /\ items[c].last \in ListAges
           /\ List!Watched = {c \in Coins : ListWatched(c)}
<1>1. \A c \in Coins : ListWatched(c) => items[c] \in ListActive
  BY DEF ListInv, ListTyped, ListWatched, List!Gone
<1>2. \A c \in Coins : ListWatched(c) =>
        /\ items[c] \in ListActive /\ items[c].first \in Nat /\ items[c].last \in Nat /\ items[c].left \in Nat
        /\ items[c].source \in {1, -1} /\ items[c].first \in ListAges /\ items[c].last \in ListAges
  BY <1>1, ListConstants DEF ListActive, ListAges
<1> QED BY <1>2 DEF List!Watched, ListWatched

LEMMA ListMeans == ASSUME ListInv PROVE List!TypeOK /\ List!PlansInTime /\ List!SeenLately
<1>1. List!TypeOK
  BY DEF ListInv, ListTyped, List!TypeOK, List!Row, ListActive, List!Ages, ListAges, ListLongest, ListStrategies
<1>2. List!PlansInTime
  BY DEF ListInv, ListPlanned, List!PlansInTime, ListLongest
<1>3. List!SeenLately
  BY ListConstants DEF ListInv, ListPlanned, List!SeenLately
<1> QED BY <1>1, <1>2, <1>3

LEMMA ListInit == ASSUME List!Init PROVE ListInv
  BY DEF List!Init, ListInv, ListTyped, ListLeft, ListPlanned, ListWatched

(* The rows a review or a tick writes. *)
LEMMA ListNew ==
    ASSUME NEW s \in ListStrategies, NEW side \in {1, -1}
    PROVE  LET w == List!New(s, side) IN
           /\ w \in ListActive /\ w.first + w.left <= ListLongest /\ w.last + w.left <= ListPatience
           /\ w.first < ListLongest /\ w.last < ListPatience
<1>1. PICK w, x : w = List!New(s, side) /\ x = ListExpiry[s]
  OBVIOUS
<1>2. w = [source |-> side, status |-> "ACTIVE", first |-> 0, last |-> 0, left |-> x]
  BY <1>1 DEF List!New
<1>3. x \in Nat \ {0} /\ x <= ListPatience /\ ListPatience <= ListLongest /\ ListPatience \in Nat /\ ListLongest \in Nat
  BY <1>1, ListConstants
<1>4. w \in ListActive
  BY <1>2, <1>3 DEF ListActive, ListAges
<1>5. w.first = 0 /\ w.last = 0 /\ w.left = x
  BY <1>2
<1> QED BY <1>1, <1>3, <1>4, <1>5

LEMMA ListAgain ==
    ASSUME NEW s \in ListStrategies, NEW side \in {1, -1}, NEW o \in ListActive
    PROVE  LET w == List!Again(s, side, o) IN
           /\ w \in ListActive /\ w.first = o.first /\ w.last = 0 /\ w.last + w.left <= ListPatience
           /\ w.first + w.left <= ListLongest
<1>1. PICK w, x, m, f, e : w = List!Again(s, side, o) /\ x = ListExpiry[s] /\ m = MaxTtl[s] /\ f = o.first /\ e = List!Extended(s, o.first)
  OBVIOUS
<1>2. /\ x \in Nat \ {0} /\ m \in Nat /\ x <= m /\ x <= ListPatience /\ m <= ListLongest
      /\ ListPatience \in Nat /\ ListLongest \in Nat /\ ListPatience <= ListLongest
  BY <1>1, ListConstants
<1>3. f \in Nat /\ f <= ListLongest
  BY <1>1, <1>2 DEF ListActive, ListAges
<1>4. e = Max({0, Min({x, m - f})})
  BY <1>1, ListMax, Zenon DEF List!Extended
<1>5. PICK y : y = Min({x, m - f})
  OBVIOUS
<1>6. y = IF x <= m - f THEN x ELSE m - f
  BY <1>2, <1>3, <1>5, MinOfTwo
<1>7. y \in Int
  BY <1>2, <1>3, <1>6
<1>8. e = IF 0 >= y THEN 0 ELSE y
  BY <1>4, <1>5, <1>7, MaxOfTwoA
<1>9. e \in Nat /\ e <= x /\ f + e <= ListLongest
  BY <1>2, <1>3, <1>6, <1>8
<1>10. w = [source |-> side, status |-> "ACTIVE", first |-> f, last |-> 0, left |-> e]
  <2>1. PICK a, l, t : a = o.source /\ l = o.last /\ t = o.left
    OBVIOUS
  <2>2. o = [source |-> a, status |-> "ACTIVE", first |-> f, last |-> l, left |-> t]
    BY <1>1, <2>1 DEF ListActive
  <2>3. PICK u : u = [o EXCEPT !.source = side]
    BY Zenon
  <2>4. u = [source |-> side, status |-> "ACTIVE", first |-> f, last |-> l, left |-> t]
    BY <2>2, <2>3
  <2>5. PICK v : v = [u EXCEPT !.last = 0]
    BY Zenon
  <2>6. v = [source |-> side, status |-> "ACTIVE", first |-> f, last |-> 0, left |-> t]
    BY <2>4, <2>5
  <2>7. [v EXCEPT !.left = e] = [source |-> side, status |-> "ACTIVE", first |-> f, last |-> 0, left |-> e]
    BY <2>6
  <2>8. w = [v EXCEPT !.left = e]
    BY <1>1, <2>3, <2>5, Zenon DEF List!Again
  <2> QED BY <2>7, <2>8
<1>11. w \in ListActive
  BY <1>2, <1>3, <1>9, <1>10 DEF ListActive, ListAges
<1>12. w.first = f /\ w.last = 0 /\ w.left = e
  BY <1>10
<1>13. 0 + e <= ListPatience
  BY <1>2, <1>9
<1> QED BY <1>1, <1>9, <1>11, <1>12, <1>13

(* A review begins by ending what has run out. *)
LEMMA ListStart == ASSUME ListInv, NEW s \in ListStrategies, List!Start(s) PROVE ListInv'
<1>1. /\ run = None /\ plans' = {} /\ ranked' = ranked
      /\ items' = [c \in Coins |-> IF List!Lapsed(items[c]) THEN List!Gone ELSE items[c]]
      /\ run' = [id |-> s, todo |-> {c \in Coins : ranked[c] # 0}]
  BY DEF List!Start
<1>2. ListTyped'
  <2>1. items' \in [Coins -> ListActive \cup {List!Gone, None}]
    BY <1>1 DEF ListInv, ListTyped
  <2> QED BY <1>1, <2>1 DEF ListInv, ListTyped
<1>3. ListLeft'
  <2> SUFFICES ASSUME NEW c \in Coins, ListWatched(c)'
               PROVE  /\ items'[c].first + items'[c].left <= ListLongest
                      /\ items'[c].left > 0 => items'[c].last + items'[c].left <= ListPatience
                      /\ items'[c].first < ListLongest /\ items'[c].last < ListPatience
    BY <1>1 DEF ListLeft
  <2>1. ~List!Lapsed(items[c]) /\ items'[c] = items[c] /\ ListWatched(c)
    BY <1>1 DEF ListWatched, List!Gone
  <2>2. items[c].first \in Nat /\ items[c].last \in Nat /\ items[c].left \in Nat
    BY <2>1, ListFacts
  <2>3. items[c].left # 0
    BY <2>1 DEF List!Lapsed, ListWatched
  <2>4. /\ items[c].first + items[c].left <= ListLongest
        /\ items[c].left > 0 => items[c].last + items[c].left <= ListPatience
    BY <2>1 DEF ListInv, ListLeft
  <2>5. ListLongest \in Nat /\ ListPatience \in Nat
    BY ListConstants
  <2> QED BY <2>1, <2>2, <2>3, <2>4, <2>5
<1> QED BY <1>1, <1>2, <1>3 DEF ListInv, ListPlanned

(* One coin is observed: it is new, it has been seen lately, or its watch goes on. *)
LEMMA ListObserve == ASSUME ListInv, NEW c \in Coins, List!Observe(c) PROVE ListInv'
<1>1. PICK s, o, t, w : s = run.id /\ o = items[c] /\ t = run.todo \ {c} /\ w = List!Observed(s, ranked[c], o)
  BY Zenon
<1>2. /\ run # None /\ c \in run.todo /\ UNCHANGED <<ranked, plans>>
      /\ items' = [items EXCEPT ![c] = w] /\ run' = [run EXCEPT !.todo = t]
  BY <1>1 DEF List!Observe
<1>3. run \in [id : ListStrategies, todo : SUBSET Coins] /\ s \in ListStrategies /\ ranked[c] \in {1, -1}
  BY <1>1, <1>2 DEF ListInv, ListTyped
<1>4. run' = [id |-> s, todo |-> t]
  BY <1>1, <1>2, <1>3
<1>5. run' \in [id : ListStrategies, todo : SUBSET Coins] /\ run'.todo \subseteq run.todo
  BY <1>1, <1>3, <1>4
<1>6. items'[c] = w /\ \A d \in Coins : d # c => items'[d] = items[d]
  BY <1>2 DEF ListInv, ListTyped
<1>7. o = None \/ o = List!Gone \/ (o \in ListActive /\ ListWatched(c))
  BY <1>1 DEF ListInv, ListTyped, ListWatched, ListActive
<1>8. PICK a, b : a = List!New(s, ranked[c]) /\ b = List!Again(s, ranked[c], o)
  OBVIOUS
<1>9. w = a \/ (ListWatched(c) /\ (w = o \/ w = b))
  BY <1>1, <1>7, <1>8 DEF List!Observed, List!Gone
<1>10. ListPatience \in Nat \ {0} /\ ListLongest \in Nat \ {0}
  BY ListConstants
<1>11. /\ w \in ListActive
       /\ w.first + w.left <= ListLongest /\ (w.left > 0 => w.last + w.left <= ListPatience)
       /\ w.first < ListLongest /\ w.last < ListPatience
  <2>1. CASE w = a
    <3>1. /\ a \in ListActive /\ a.first + a.left <= ListLongest /\ a.last + a.left <= ListPatience
          /\ a.first < ListLongest /\ a.last < ListPatience
      BY <1>3, <1>8, ListNew
    <3> QED BY <2>1, <3>1
  <2>2. CASE ListWatched(c) /\ w = o
    BY <1>1, <1>2, <2>2, ListFacts DEF ListInv, ListLeft
  <2>3. CASE ListWatched(c) /\ w = b
    <3>1. o \in ListActive /\ o.first < ListLongest
      BY <1>1, <1>2, <2>3, ListFacts DEF ListInv, ListLeft
    <3>2. /\ b \in ListActive /\ b.first = o.first /\ b.last = 0 /\ b.last + b.left <= ListPatience
          /\ b.first + b.left <= ListLongest
      BY <1>3, <1>8, <3>1, ListAgain
    <3> QED BY <1>10, <2>3, <3>1, <3>2
  <2> QED BY <1>9, <2>1, <2>2, <2>3
<1>12. ListTyped'
  <2>1. items' \in [Coins -> ListActive \cup {List!Gone, None}]
    BY <1>2, <1>11 DEF ListInv, ListTyped
  <2>2. \A d \in run'.todo : ranked'[d] # 0
    BY <1>2, <1>5 DEF ListInv, ListTyped
  <2> QED BY <1>2, <1>5, <2>1, <2>2 DEF ListInv, ListTyped
<1>13. ListLeft'
  <2> SUFFICES ASSUME NEW d \in Coins, ListWatched(d)'
               PROVE  /\ items'[d].first + items'[d].left <= ListLongest
                      /\ items'[d].left > 0 => items'[d].last + items'[d].left <= ListPatience
                      /\ items'[d].first < ListLongest /\ items'[d].last < ListPatience
    BY DEF ListLeft
  <2>1. CASE d = c
    BY <1>6, <1>11, <2>1
  <2>2. CASE d # c
    BY <1>2, <1>6, <2>2 DEF ListInv, ListLeft, ListWatched
  <2> QED BY <2>1, <2>2
<1> QED BY <1>2, <1>12, <1>13 DEF ListInv, ListPlanned

(* The review returns plans of coins it watches, or breaks off. *)
LEMMA ListEnds == ASSUME ListInv, (\E S \in SUBSET Coins : List!Reviewed(S)) \/ List!BreakOff PROVE ListInv'
<1>1. run # None /\ run' = None /\ UNCHANGED <<ranked, items>>
  BY DEF List!Reviewed, List!BreakOff
<1>2. ListLeft'
  BY <1>1 DEF ListInv, ListLeft, ListWatched
<1>3. CASE List!BreakOff
  BY <1>1, <1>2, <1>3 DEF ListInv, ListTyped, ListPlanned, List!BreakOff
<1>4. ASSUME NEW S \in SUBSET Coins, List!Reviewed(S) PROVE ListInv'
  <2>1. S \subseteq List!Watched /\ plans' = {List!PlanOf(run.id, c) : c \in S}
    BY <1>4 DEF List!Reviewed
  <2>2. run.id \in ListStrategies
    BY <1>1 DEF ListInv, ListTyped
  <2>3. ASSUME NEW p \in plans'
        PROVE  /\ p \in [symbol : Coins, id : ListStrategies, side : {1, -1}, first : ListAges, last : ListAges]
               /\ p.first < ListLongest /\ p.last < ListPatience
    <3>1. PICK c \in S : p = List!PlanOf(run.id, c)
      BY <2>1
    <3>2. c \in Coins /\ ListWatched(c)
      BY <2>1, ListFacts
    <3>3. p = [symbol |-> c, id |-> run.id, side |-> items[c].source, first |-> items[c].first, last |-> items[c].last]
      BY <3>1 DEF List!PlanOf
    <3>4. items[c].source \in {1, -1} /\ items[c].first \in ListAges /\ items[c].last \in ListAges
      BY <3>2, ListFacts
    <3>5. items[c].first < ListLongest /\ items[c].last < ListPatience
      BY <1>1, <3>2 DEF ListInv, ListLeft
    <3> QED BY <2>2, <3>2, <3>3, <3>4, <3>5
  <2>4. ListTyped'
    BY <1>1, <2>3 DEF ListInv, ListTyped
  <2> QED BY <1>2, <2>3, <2>4 DEF ListInv, ListPlanned
<1> QED BY <1>3, <1>4

(* Time passes between two reviews: every watch is older and has less left. *)
LEMMA ListOlder ==
    ASSUME NEW o \in ListActive, o.first + o.left <= ListLongest, o.left > 0 => o.last + o.left <= ListPatience,
           NEW w, w = [o EXCEPT !.first = List!Older(@), !.last = List!Older(@), !.left = List!Max({0, @ - 1})]
    PROVE  /\ w \in ListActive /\ w.first + w.left <= ListLongest
           /\ w.left > 0 => w.last + w.left <= ListPatience
<1>1. PICK a, f, l, t : a = o.source /\ f = o.first /\ l = o.last /\ t = o.left
  OBVIOUS
<1>2. o = [source |-> a, status |-> "ACTIVE", first |-> f, last |-> l, left |-> t]
  BY <1>1 DEF ListActive
<1>3. f \in Nat /\ l \in Nat /\ t \in Nat /\ f <= ListLongest /\ l <= ListLongest /\ t <= ListLongest
      /\ ListLongest \in Nat /\ ListPatience \in Nat /\ a \in {1, -1}
  BY <1>1, ListConstants DEF ListActive, ListAges
<1>4. PICK g, m, u : g = List!Older(f) /\ m = List!Older(l) /\ u = List!Max({0, t - 1})
  OBVIOUS
<1>5. g = IF ListLongest <= f + 1 THEN ListLongest ELSE f + 1
  <2>1. Min({ListLongest, f + 1}) = IF ListLongest <= f + 1 THEN ListLongest ELSE f + 1
    BY <1>3, MinOfTwo
  <2> QED BY <1>4, <2>1, ListMax DEF List!Older, ListLongest
<1>6. m = IF ListLongest <= l + 1 THEN ListLongest ELSE l + 1
  <2>1. Min({ListLongest, l + 1}) = IF ListLongest <= l + 1 THEN ListLongest ELSE l + 1
    BY <1>3, MinOfTwo
  <2> QED BY <1>4, <2>1, ListMax DEF List!Older, ListLongest
<1>7. u = IF 0 >= t - 1 THEN 0 ELSE t - 1
  <2>1. Max({0, t - 1}) = IF 0 >= t - 1 THEN 0 ELSE t - 1
    BY <1>3, MaxOfTwoA
  <2> QED BY <1>4, <2>1, ListMax
<1>8. w = [source |-> a, status |-> "ACTIVE", first |-> g, last |-> m, left |-> u]
  <2>1. PICK x : x = [o EXCEPT !.first = g]
    BY Zenon
  <2>2. x = [source |-> a, status |-> "ACTIVE", first |-> g, last |-> l, left |-> t]
    BY <1>2, <2>1
  <2>3. PICK y : y = [x EXCEPT !.last = m]
    BY Zenon
  <2>4. y = [source |-> a, status |-> "ACTIVE", first |-> g, last |-> m, left |-> t]
    BY <2>2, <2>3
  <2>5. [y EXCEPT !.left = u] = [source |-> a, status |-> "ACTIVE", first |-> g, last |-> m, left |-> u]
    BY <2>4
  <2>6. [o EXCEPT !.first = List!Older(@), !.last = List!Older(@), !.left = List!Max({0, @ - 1})]
          = [o EXCEPT !.first = List!Older(o.first), !.last = List!Older(o.last), !.left = List!Max({0, o.left - 1})]
    BY Zenon
  <2>7. w = [o EXCEPT !.first = g, !.last = m, !.left = u]
    BY <1>1, <1>4, <2>6, Zenon
  <2>8. w = [y EXCEPT !.left = u]
    BY <2>1, <2>3, <2>7, Zenon
  <2> QED BY <2>5, <2>8, Zenon
<1>9. g \in Nat /\ g <= ListLongest /\ m \in Nat /\ m <= ListLongest /\ u \in Nat /\ u <= ListLongest
  BY <1>3, <1>5, <1>6, <1>7
<1>10. w \in ListActive
  BY <1>3, <1>8, <1>9 DEF ListActive, ListAges
<1>11. f + t <= ListLongest /\ (t > 0 => l + t <= ListPatience)
  BY <1>1
<1>12. g + u <= ListLongest /\ (u > 0 => m + u <= ListPatience)
  BY <1>3, <1>5, <1>6, <1>7, <1>11
<1>13. w.first = g /\ w.last = m /\ w.left = u
  <2>1. PICK z : z = [source |-> a, status |-> "ACTIVE", first |-> g, last |-> m, left |-> u]
    BY Zenon
  <2>2. z.first = g /\ z.last = m /\ z.left = u
    BY <2>1
  <2> QED BY <1>8, <2>1, <2>2, Zenon
<1> QED BY <1>10, <1>12, <1>13

LEMMA ListTick == ASSUME ListInv, NEW r \in [Coins -> {1, 0, -1}], List!Tick(r) PROVE ListInv'
<1> DEFINE older(c) == [items[c] EXCEPT !.first = List!Older(@), !.last = List!Older(@), !.left = List!Max({0, @ - 1})]
<1>1. /\ run = None /\ run' = None /\ ranked' = r /\ plans' = {}
      /\ items' = [c \in Coins |-> IF c \in List!Watched THEN older(c) ELSE items[c]]
  BY Zenon DEF List!Tick
<1>2. ASSUME NEW c \in Coins, ListWatched(c)
      PROVE  /\ items'[c] \in ListActive /\ items'[c].first + items'[c].left <= ListLongest
             /\ items'[c].left > 0 => items'[c].last + items'[c].left <= ListPatience
  <2>1. PICK o, w : o = items[c] /\ w = older(c)
    OBVIOUS
  <2>2. o \in ListActive /\ o.first + o.left <= ListLongest /\ (o.left > 0 => o.last + o.left <= ListPatience)
    BY <1>2, <2>1, ListFacts DEF ListInv, ListLeft
  <2>3. w = [o EXCEPT !.first = List!Older(@), !.last = List!Older(@), !.left = List!Max({0, @ - 1})]
    BY <2>1, Zenon
  <2>4. /\ w \in ListActive /\ w.first + w.left <= ListLongest
        /\ w.left > 0 => w.last + w.left <= ListPatience
    BY <2>2, <2>3, ListOlder, Zenon
  <2>5. items'[c] = w
    BY <1>1, <1>2, <2>1, ListFacts, Zenon
  <2> QED BY <2>4, <2>5
<1>3. \A c \in Coins : ~ListWatched(c) => items'[c] = items[c]
  BY <1>1, ListFacts, Zenon
<1>4. DOMAIN items' = Coins /\ items' = [c \in Coins |-> items'[c]]
  BY <1>1, Zenon
<1>5. ListTyped'
  <2>1. \A c \in Coins : items'[c] \in ListActive \cup {List!Gone, None}
    BY <1>2, <1>3 DEF ListInv, ListTyped
  <2>2. items' \in [Coins -> ListActive \cup {List!Gone, None}]
    BY <1>4, <2>1
  <2> QED BY <1>1, <2>2, Zenon DEF ListInv, ListTyped
<1>6. ListLeft'
  BY <1>1, <1>2, <1>3, Zenon DEF ListInv, ListLeft, ListWatched
<1> QED BY <1>1, <1>5, <1>6, Zenon DEF ListInv, ListPlanned

LEMMA ListStep == ASSUME ListInv, [List!Next]_listVars PROVE ListInv'
<1>1. CASE UNCHANGED listVars
  BY <1>1 DEF listVars, ListInv, ListTyped, ListLeft, ListPlanned, ListWatched
<1>2. CASE List!Next
  BY <1>2, ListStart, ListObserve, ListEnds, ListTick DEF List!Next, List!Review, ListStrategies
<1> QED BY <1>1, <1>2
=============================================================================
