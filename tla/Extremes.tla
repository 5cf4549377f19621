------------------------------ MODULE Extremes ------------------------------
(* The greatest and the least element of a finite set of integers: what     *)
(* the proofs about candles and inodes need of Max and Min.                *)
EXTENDS Integers, FiniteSetsExt, FiniteSetTheorems, TLAPS

(* A finite set of integers has a largest element: the one with as many     *)
(* elements up to it as the set has.                                       *)
LEMMA MaxExists ==
    ASSUME NEW S \in SUBSET Int, IsFiniteSet(S), S # {}
    PROVE  Max(S) \in S /\ \A y \in S : Max(S) >= y
<1> DEFINE upto(x) == {y \in S : y <= x}
           n == Cardinality(S)
           rank == [x \in S |-> Cardinality(upto(x))]
<1>1. n \in Nat /\ n # 0
    BY FS_CardinalityType, FS_EmptySet
<1>2. \A x \in S : IsFiniteSet(upto(x)) /\ Cardinality(upto(x)) <= n
                  /\ (Cardinality(upto(x)) = n => upto(x) = S)
  <2> SUFFICES ASSUME NEW x \in S
               PROVE  IsFiniteSet(upto(x)) /\ Cardinality(upto(x)) <= n
                      /\ (Cardinality(upto(x)) = n => upto(x) = S)
      OBVIOUS
  <2>1. upto(x) \in SUBSET S
      OBVIOUS
  <2> QED BY <2>1, FS_Subset
<1>3. \A x \in S : Cardinality(upto(x)) \in 1..n
  <2> SUFFICES ASSUME NEW x \in S PROVE Cardinality(upto(x)) \in 1..n
      OBVIOUS
  <2>1. x \in upto(x)
      OBVIOUS
  <2>2. Cardinality(upto(x)) \in Nat /\ Cardinality(upto(x)) # 0
      BY <1>2, <2>1, FS_CardinalityType, FS_EmptySet
  <2> QED BY <1>1, <1>2, <2>2
<1>4. \A x, z \in S : x < z => Cardinality(upto(x)) # Cardinality(upto(z))
  <2> SUFFICES ASSUME NEW x \in S, NEW z \in S, x < z
               PROVE  Cardinality(upto(x)) # Cardinality(upto(z))
      OBVIOUS
  <2>1. \A y \in upto(x) : y \in upto(z)
      OBVIOUS
  <2>2. z \in upto(z) /\ z \notin upto(x)
      OBVIOUS
  <2>3. IsFiniteSet(upto(z))
      BY <1>2
  <2> HIDE DEF upto
  <2>4. upto(x) \in SUBSET upto(z) /\ upto(x) # upto(z)
      BY <2>1, <2>2
  <2> QED BY <2>3, <2>4, FS_Subset
<1>5. rank \in Injection(S, 1..n)
  <2>1. rank \in [S -> 1..n]
      BY <1>3
  <2>2. \A x, z \in S : rank[x] = rank[z] => x = z
    <3> SUFFICES ASSUME NEW x \in S, NEW z \in S, x # z PROVE rank[x] # rank[z]
        OBVIOUS
    <3>1. x < z \/ z < x
        OBVIOUS
    <3>2. rank[x] = Cardinality(upto(x)) /\ rank[z] = Cardinality(upto(z))
        OBVIOUS
    <3> HIDE DEF upto, rank
    <3> QED BY <1>4, <3>1, <3>2
  <2> HIDE DEF rank
  <2> QED BY <2>1, <2>2 DEF Injection, IsInjective
<1>6. IsFiniteSet(1..n) /\ Cardinality(1..n) = n
    BY <1>1, FS_Interval
<1>7. rank \in Surjection(S, 1..n)
  <2> HIDE DEF rank
  <2> QED BY <1>5, <1>6, FS_Injection
<1>8. \E x \in S : rank[x] = n
  <2>1. n \in 1..n
      BY <1>1
  <2> HIDE DEF rank, n
  <2> QED BY <1>7, <2>1 DEF Surjection
<1>9. PICK x \in S : Cardinality(upto(x)) = n
    BY <1>8
<1>10. upto(x) = S
    BY <1>2, <1>9
<1>11. \A y \in S : x >= y
    BY <1>10
<1> QED BY <1>11 DEF Max

(* The least element is the greatest of the set mirrored at 0. *)
LEMMA MinExists ==
    ASSUME NEW S \in SUBSET Int, IsFiniteSet(S), S # {}
    PROVE  Min(S) \in S /\ \A y \in S : Min(S) <= y
<1> DEFINE T == {0 - x : x \in S}
           f == [x \in S |-> 0 - x]
<1>1. IsFiniteSet(T)
  <2>1. f \in Surjection(S, T)
      BY DEF Surjection
  <2> HIDE DEF f, T
  <2> QED BY <2>1, FS_Surjection
<1>2. T \in SUBSET Int /\ T # {}
  <2>1. \E x \in S : 0 - x \in T
      OBVIOUS
  <2>2. \A y \in T : y \in Int
      OBVIOUS
  <2> QED BY <2>1, <2>2
<1>3. Max(T) \in T /\ \A y \in T : Max(T) >= y
  <2> HIDE DEF T
  <2> QED BY <1>1, <1>2, MaxExists
<1>4. PICK x \in S : Max(T) = 0 - x
    BY <1>3
<1>5. \A y \in S : x <= y
  <2> SUFFICES ASSUME NEW y \in S PROVE x <= y
      OBVIOUS
  <2>1. 0 - y \in T
      OBVIOUS
  <2>2. 0 - x >= 0 - y
      BY <1>3, <1>4, <2>1
  <2> QED BY <2>2
<1> QED BY <1>5 DEF Min
=============================================================================
