----------------------- MODULE ProductionRunnerProofs -----------------------
(* Type correctness of ProductionRunner and, as long as the runners follow  *)
(* one another, the events a runner leaves and the intervals tasks keep.    *)
EXTENDS ProductionRunner, Extremes

Process == [pc : {"off", "lock", "retry", "clean", "tick", "run"},
            ino : Inodes \cup {NoFile}, since : 0..MaxTime, cur : 0..MaxTime,
            k : 1..(Len(TaskList) + 1), tries : 0..(MaxTries - 1)]

(* A task that runs is one of the list. *)
Stepping == \A p \in Procs : procs[p].pc = "run" => procs[p].k <= Len(TaskList)

(* While the lock has had one holder at a time, there is at most one       *)
(* RUNNING event: each runner begins by ending those of the one before.    *)
Alone ==
    /\ \A p, q \in Procs : Holding(p) /\ Holding(q) => p = q
    /\ \A r, s \in running : r = s

Inv == TypeOK /\ Stepping /\ (~shared => Alone /\ OwnEventOnly)

-----------------------------------------------------------------------------
(* There are more inodes than processes to hold them. *)
LEMMA FreeInode ==
    ASSUME NEW held, held = {procs[q].ino : q \in {r \in Procs : Holding(r)}}
    PROVE  Min(Inodes \ held) \in Inodes \ held
<1>1. Inodes \ held # {}
  <2> SUFFICES ASSUME Inodes \subseteq held PROVE FALSE
      OBVIOUS
  <2> DEFINE holder == [i \in Inodes |-> CHOOSE q \in Procs : procs[q].ino = i]
  <2>1. \A i \in Inodes : holder[i] \in Procs /\ procs[holder[i]].ino = i
      OBVIOUS
  <2>2. IsFiniteSet(Procs) /\ Cardinality(Procs) \in Nat
      BY RunnerConstants, FS_CardinalityType
  <2>3. IsFiniteSet(Inodes) /\ Cardinality(Inodes) = Cardinality(Procs) + 1
      BY <2>2, FS_Interval DEF Inodes
  <2>4. holder \in [Inodes -> Procs]
      BY <2>1
  <2> HIDE DEF holder
  <2>5. Cardinality(Procs) < Cardinality(Inodes)
      BY <2>2, <2>3
  <2>6. \E i, j \in Inodes : i # j /\ holder[i] = holder[j]
      BY <2>2, <2>3, <2>4, <2>5, FS_PigeonHole
  <2> QED BY <2>1, <2>6
<1>2. Cardinality(Procs) \in Nat
    BY RunnerConstants, FS_CardinalityType
<1>3. Inodes \ held \in SUBSET (1..(Cardinality(Procs) + 1))
    BY DEF Inodes
<1>4. IsFiniteSet(1..(Cardinality(Procs) + 1))
    BY <1>2, FS_Interval
<1>5. IsFiniteSet(Inodes \ held)
    BY <1>3, <1>4, FS_Subset
<1>6. Inodes \ held \in SUBSET Int
    BY <1>3
<1> QED BY <1>1, <1>5, <1>6, MinExists

LEMMA BegunFinite ==
    ASSUME TypeOK, NEW t \in Tasks
    PROVE  LET S == {last[t]} \cup {r.at : r \in {s \in running : s.task = t}}
           IN  S \in SUBSET ((-1)..MaxTime) /\ S \in SUBSET Int /\ S # {} /\ IsFiniteSet(S)
<1> DEFINE S == {last[t]} \cup {r.at : r \in {s \in running : s.task = t}}
<1>1. MaxTime \in Nat
    BY RunnerConstants
<1>2. S \in SUBSET ((-1)..MaxTime) /\ S \in SUBSET Int /\ S # {}
  <2>1. last[t] \in (-1)..MaxTime
      BY <1>1 DEF TypeOK, Never
  <2>2. \A r \in running : r.at \in (-1)..MaxTime
      BY <1>1 DEF TypeOK
  <2>3. \A y \in S : y \in (-1)..MaxTime
      BY <2>1, <2>2
  <2>4. last[t] \in S
      OBVIOUS
  <2> HIDE DEF S
  <2> QED BY <1>1, <2>3, <2>4
<1> HIDE DEF S
<1>3. IsFiniteSet(S)
  <2>1. IsFiniteSet((-1)..MaxTime)
      BY <1>1, FS_Interval
  <2> QED BY <1>2, <2>1, FS_Subset
<1> QED BY <1>2, <1>3 DEF S

LEMMA BegunTyped ==
    ASSUME TypeOK, NEW t \in Tasks
    PROVE  /\ Begun(t) \in {Never} \cup 0..MaxTime
           /\ running = {} => Begun(t) = last[t]
<1> DEFINE S == {last[t]} \cup {r.at : r \in {s \in running : s.task = t}}
<1>1. MaxTime \in Nat
    BY RunnerConstants
<1>2. S \in SUBSET ((-1)..MaxTime) /\ S \in SUBSET Int /\ S # {} /\ IsFiniteSet(S)
    BY BegunFinite
<1>3. running = {} => S = {last[t]}
    OBVIOUS
<1>4. Begun(t) = Max(S)
    BY DEF Begun
<1> HIDE DEF S
<1>6. Max(S) \in S
    BY <1>2, MaxExists
<1>7. Begun(t) \in {Never} \cup 0..MaxTime
  <2>1. Begun(t) \in (-1)..MaxTime
      BY <1>2, <1>4, <1>6
  <2>2. \A b \in (-1)..MaxTime : b = -1 \/ b \in 0..MaxTime
      BY <1>1
  <2> QED BY <2>1, <2>2 DEF Never
<1>8. running = {} => Begun(t) = last[t]
    BY <1>3, <1>4, <1>6
<1> QED BY <1>7, <1>8

LEMMA MaxOfTwo ==
    ASSUME NEW a \in Int, NEW b \in Int
    PROVE  Max({a, b}) \in {a, b} /\ Max({a, b}) >= a /\ Max({a, b}) >= b
<1>1. {a, b} = {a} \cup {b}
    OBVIOUS
<1>2. IsFiniteSet({a, b})
  <2>1. IsFiniteSet({a})
      BY FS_Singleton
  <2> QED BY <1>1, <2>1, FS_AddElement
<1>3. {a, b} \in SUBSET Int /\ {a, b} # {} /\ a \in {a, b} /\ b \in {a, b}
    OBVIOUS
<1> QED BY <1>2, <1>3, MaxExists

LEMMA TaskTyped ==
    ASSUME TypeOK, NEW p \in Procs, procs[p].k <= Len(TaskList)
    PROVE  TaskOf(p) \in Tasks /\ RowOf(p) \in [by : Procs, task : Tasks, at : 0..MaxTime]
<1>1. procs[p].k \in 1..Len(TaskList) /\ procs[p].cur \in 0..MaxTime
    BY RunnerConstants DEF TypeOK
<1>2. TaskOf(p) \in Tasks
    BY <1>1, RunnerConstants DEF TaskOf, Tasks
<1> QED BY <1>1, <1>2 DEF RowOf

(* A process changes alone. *)
LEMMA ProcsKept ==
    ASSUME TypeOK, NEW p \in Procs, NEW new \in Process, procs' = [procs EXCEPT ![p] = new]
    PROVE  /\ procs' \in [Procs -> Process]
           /\ procs'[p] = new
           /\ \A q \in Procs : q # p => procs'[q] = procs[q]
BY DEF TypeOK, Process

LEMMA ProcTyped ==
    ASSUME TypeOK, NEW p \in Procs
    PROVE  /\ procs[p].pc \in {"off", "lock", "retry", "clean", "tick", "run"}
           /\ procs[p].ino \in Inodes \cup {NoFile}
           /\ procs[p].since \in 0..MaxTime /\ procs[p].cur \in 0..MaxTime
           /\ procs[p].k \in 1..(Len(TaskList) + 1) /\ procs[p].tries \in 0..(MaxTries - 1)
           /\ procs[p] = [pc |-> procs[p].pc, ino |-> procs[p].ino, since |-> procs[p].since,
                          cur |-> procs[p].cur, k |-> procs[p].k, tries |-> procs[p].tries]
           /\ Len(TaskList) \in Nat /\ MaxTries \in Nat \ {0} /\ MaxTime \in Nat
BY RunnerConstants DEF TypeOK

(* What the updates of a process amount to. *)
LEMMA ProcUpdated ==
    ASSUME TypeOK, NEW p \in Procs, NEW c
    PROVE  /\ [procs[p] EXCEPT !.pc = c]
               = [pc |-> c, ino |-> procs[p].ino, since |-> procs[p].since,
                  cur |-> procs[p].cur, k |-> procs[p].k, tries |-> procs[p].tries]
           /\ \A t : [procs[p] EXCEPT !.pc = c, !.tries = t]
               = [pc |-> c, ino |-> procs[p].ino, since |-> procs[p].since,
                  cur |-> procs[p].cur, k |-> procs[p].k, tries |-> t]
<1>1. procs[p] = [pc |-> procs[p].pc, ino |-> procs[p].ino, since |-> procs[p].since,
                  cur |-> procs[p].cur, k |-> procs[p].k, tries |-> procs[p].tries]
    BY ProcTyped
<1>2. [procs[p] EXCEPT !.pc = c]
          = [pc |-> c, ino |-> procs[p].ino, since |-> procs[p].since,
             cur |-> procs[p].cur, k |-> procs[p].k, tries |-> procs[p].tries]
    BY <1>1
<1>3. ASSUME NEW t
      PROVE  [procs[p] EXCEPT !.pc = c, !.tries = t]
          = [pc |-> c, ino |-> procs[p].ino, since |-> procs[p].since,
             cur |-> procs[p].cur, k |-> procs[p].k, tries |-> t]
  <2>1. PICK z : z = [procs[p] EXCEPT !.pc = c, !.tries = t]
      BY Zenon
  <2>2. z = [pc |-> c, ino |-> procs[p].ino, since |-> procs[p].since,
               cur |-> procs[p].cur, k |-> procs[p].k, tries |-> t]
      BY <1>1, <2>1, Zenon
  <2> QED BY <2>1, <2>2
<1> QED BY <1>2, <1>3

LEMMA ProcNumbers ==
    ASSUME TypeOK, NEW p \in Procs
    PROVE  /\ procs[p].since \in Int /\ procs[p].since >= 0 /\ procs[p].cur \in Int
           /\ procs[p].k \in Int /\ procs[p].k \in 1..(Len(TaskList) + 1)
           /\ Len(TaskList) \in Nat
<1>1. /\ procs[p].since \in 0..MaxTime /\ procs[p].cur \in 0..MaxTime
      /\ procs[p].k \in 1..(Len(TaskList) + 1) /\ Len(TaskList) \in Nat
    BY ProcTyped
<1> QED BY <1>1

LEMMA OffTyped == Off \in Process
<1>1. Len(TaskList) \in Nat /\ MaxTries \in Nat \ {0} /\ MaxTime \in Nat
    BY RunnerConstants
<1>2. 1 \in 1..(Len(TaskList) + 1) /\ 0 \in 0..(MaxTries - 1) /\ 0 \in 0..MaxTime
    BY <1>1
<1> QED BY <1>2 DEF Off, Process, NoFile

LEMMA InitInv == Init => Inv
<1> SUFFICES ASSUME Init PROVE Inv
    OBVIOUS
<1>1. TypeOK
  <2>1. procs \in [Procs -> Process]
      BY OffTyped DEF Init
  <2>2. last \in [Tasks -> {Never} \cup 0..MaxTime] /\ running = {} /\ shared \in BOOLEAN
      BY DEF Init
  <2>3. now \in 0..MaxTime /\ starts \in 0..MaxStarts /\ file \in Inodes \cup {NoFile}
      BY RunnerConstants DEF Init
  <2> QED BY <2>1, <2>2, <2>3 DEF TypeOK, Process
<1>2. Stepping /\ Alone /\ OwnEventOnly
    BY DEF Init, Stepping, Alone, OwnEventOnly, Holding, Off
<1> QED BY <1>1, <1>2 DEF Inv

-----------------------------------------------------------------------------
(* What the steps that leave the events alone keep. *)
LEMMA ProcessStep ==
    ASSUME Inv, NEW p \in Procs, NEW new \in Process,
           procs' = [procs EXCEPT ![p] = new],
           new.pc \in {"off", "lock", "retry"},
           starts' \in 0..MaxStarts, file' \in Inodes \cup {NoFile},
           UNCHANGED <<now, last, running, shared>>
    PROVE  Inv'
<1>1. /\ procs' \in [Procs -> Process] /\ procs'[p] = new
      /\ \A q \in Procs : q # p => procs'[q] = procs[q]
    BY ProcsKept DEF Inv
<1>2. TypeOK'
    BY <1>1 DEF Inv, TypeOK, Process
<1>3. Stepping'
    BY <1>1 DEF Inv, Stepping
<1>4. ~shared => Alone'
    BY <1>1 DEF Inv, Alone, Holding
<1>5. ~shared => OwnEventOnly'
    BY <1>1 DEF Inv, OwnEventOnly, RowOf, TaskOf
<1> QED BY <1>2, <1>3, <1>4, <1>5 DEF Inv

LEMMA LaunchStep == ASSUME Inv, NEW p \in Procs, Launch(p) PROVE Inv'
<1> DEFINE new == [pc |-> "lock", ino |-> procs[p].ino, since |-> procs[p].since,
                   cur |-> procs[p].cur, k |-> procs[p].k, tries |-> procs[p].tries]
<1>1. TypeOK
    BY DEF Inv
<1>2. procs' = [procs EXCEPT ![p] = [procs[p] EXCEPT !.pc = "lock"]]
    BY DEF Launch
<1>3. [procs[p] EXCEPT !.pc = "lock"] = new
    BY <1>1, ProcUpdated
<1>4. new \in Process /\ new.pc = "lock"
    BY <1>1, ProcTyped DEF Process
<1>5. starts' \in 0..MaxStarts
  <2>1. starts \in 0..MaxStarts /\ starts < MaxStarts /\ starts' = starts + 1
      BY <1>1 DEF Launch, TypeOK
  <2> QED BY <2>1, RunnerConstants
<1> HIDE DEF new
<1> QED BY <1>2, <1>3, <1>4, <1>5, ProcessStep DEF Launch

LEMMA RetryStep == ASSUME Inv, NEW p \in Procs, Retry(p) PROVE Inv'
<1> DEFINE again == [pc |-> "lock", ino |-> procs[p].ino, since |-> procs[p].since,
                     cur |-> procs[p].cur, k |-> procs[p].k, tries |-> procs[p].tries + 1]
           new == IF procs[p].tries + 1 = MaxTries THEN Off ELSE again
<1>1. TypeOK
    BY DEF Inv
<1>2. procs' = [procs EXCEPT ![p] = IF procs[p].tries + 1 = MaxTries THEN Off
                   ELSE [procs[p] EXCEPT !.pc = "lock", !.tries = procs[p].tries + 1]]
  <2>1. CASE procs[p].tries + 1 = MaxTries
      BY <2>1 DEF Retry
  <2>2. CASE procs[p].tries + 1 # MaxTries
    <3>1. procs' = [procs EXCEPT ![p].pc = "lock", ![p].tries = @ + 1]
        BY <2>2 DEF Retry
    <3> QED BY <1>1, <2>2, <3>1 DEF TypeOK
  <2> QED BY <2>1, <2>2
<1>3. [procs[p] EXCEPT !.pc = "lock", !.tries = procs[p].tries + 1] = again
    BY <1>1, ProcUpdated
<1>4. procs[p].tries + 1 # MaxTries => procs[p].tries + 1 \in 0..(MaxTries - 1)
  <2>1. procs[p].tries \in 0..(MaxTries - 1) /\ MaxTries \in Nat
      BY <1>1, ProcTyped
  <2> QED BY <2>1
<1>5. procs[p].tries + 1 # MaxTries => again \in Process
    BY <1>1, <1>4, ProcTyped DEF Process
<1>6. new \in Process /\ new.pc \in {"off", "lock"}
    BY <1>5, OffTyped DEF Off
<1>7. procs' = [procs EXCEPT ![p] = new]
    BY <1>2, <1>3
<1>8. starts' \in 0..MaxStarts /\ file' \in Inodes \cup {NoFile}
    BY <1>1 DEF Retry, TypeOK
<1> HIDE DEF new
<1> QED BY <1>6, <1>7, <1>8, ProcessStep DEF Retry

LEMMA DieStep == ASSUME Inv, NEW p \in Procs, Die(p) PROVE Inv'
<1>1. procs' = [procs EXCEPT ![p] = Off] /\ Off.pc = "off"
    BY DEF Die, Off
<1>2. starts' \in 0..MaxStarts /\ file' \in Inodes \cup {NoFile}
    BY DEF Die, Inv, TypeOK
<1> QED BY <1>1, <1>2, OffTyped, ProcessStep DEF Die

LEMMA AcquireStep == ASSUME Inv, NEW p \in Procs, Acquire(p) PROVE Inv'
<1> DEFINE held == {procs[q].ino : q \in {r \in Procs : Holding(r)}}
           ino == IF file # NoFile THEN file ELSE Min(Inodes \ held)
           wait == [pc |-> "retry", ino |-> procs[p].ino, since |-> procs[p].since,
                    cur |-> procs[p].cur, k |-> procs[p].k, tries |-> procs[p].tries]
           take == [pc |-> "clean", ino |-> ino, since |-> now,
                    cur |-> procs[p].cur, k |-> procs[p].k, tries |-> procs[p].tries]
<1>1. TypeOK
    BY DEF Inv
<1>2. ino \in Inodes
  <2>1. file # NoFile => file \in Inodes
      BY <1>1 DEF TypeOK
  <2>2. Min(Inodes \ held) \in Inodes
      BY FreeInode
  <2> HIDE DEF held
  <2> QED BY <2>1, <2>2
<1>3. file' = ino /\ UNCHANGED <<now, starts, last, running>>
    BY DEF Acquire
<1>4. wait \in Process /\ take \in Process
  <2>1. now \in 0..MaxTime
      BY <1>1 DEF TypeOK
  <2> HIDE DEF ino
  <2> QED BY <1>1, <1>2, <2>1, ProcTyped DEF Process
<1>5. \/ procs' = [procs EXCEPT ![p] = wait] /\ UNCHANGED shared
      \/ procs' = [procs EXCEPT ![p] = take] /\ shared' = (shared \/ held # {})
  <2>1. \/ procs' = [procs EXCEPT ![p] = [procs[p] EXCEPT !.pc = "retry"]]
            /\ UNCHANGED shared
        \/ procs' = [procs EXCEPT ![p] = [procs[p] EXCEPT !.pc = "clean", !.ino = ino,
                                                         !.since = now]]
            /\ shared' = (shared \/ held # {})
    <3>1. CASE ino \in held
        BY <3>1 DEF Acquire
    <3>2. CASE ino \notin held
      <4>1. procs' = [procs EXCEPT ![p].pc = "clean", ![p].ino = ino, ![p].since = now]
            /\ shared' = (shared \/ held # {})
          BY <3>2 DEF Acquire
      <4> HIDE DEF ino, held
      <4> QED BY <1>1, <4>1 DEF TypeOK
    <3> QED BY <3>1, <3>2
  <2>2. [procs[p] EXCEPT !.pc = "retry"] = wait
      BY <1>1, ProcUpdated
  <2>3. [procs[p] EXCEPT !.pc = "clean", !.ino = ino, !.since = now] = take
    <3> HIDE DEF ino
    <3>1. PICK z : z = [procs[p] EXCEPT !.pc = "clean", !.ino = ino, !.since = now]
        BY Zenon
    <3>2. procs[p] = [pc |-> procs[p].pc, ino |-> procs[p].ino, since |-> procs[p].since,
                      cur |-> procs[p].cur, k |-> procs[p].k, tries |-> procs[p].tries]
        BY <1>1, ProcTyped
    <3>3. z = take
        BY <3>1, <3>2, Zenon
    <3> QED BY <3>1, <3>3
  <2> HIDE DEF wait, take, held
  <2> QED BY <2>1, <2>2, <2>3
<1>6. CASE procs' = [procs EXCEPT ![p] = wait] /\ UNCHANGED shared
  <2>1. wait.pc = "retry" /\ starts' \in 0..MaxStarts /\ file' \in Inodes \cup {NoFile}
    <3> HIDE DEF ino
    <3> QED BY <1>1, <1>2, <1>3 DEF TypeOK
  <2> HIDE DEF wait
  <2> QED BY <1>3, <1>4, <1>6, <2>1, ProcessStep
<1>7. CASE procs' = [procs EXCEPT ![p] = take] /\ shared' = (shared \/ held # {})
  <2>1. take.pc = "clean"
      OBVIOUS
  <2>2. ~shared' => \A q \in Procs : ~Holding(q)
    <3> SUFFICES ASSUME ~shared', NEW q \in Procs, Holding(q) PROVE FALSE
        OBVIOUS
    <3>1. procs[q].ino \in held
        BY Zenon
    <3> HIDE DEF held
    <3> QED BY <1>7, <3>1
  <2> HIDE DEF take, held
  <2>3. /\ procs' \in [Procs -> Process] /\ procs'[p] = take
        /\ \A q \in Procs : q # p => procs'[q] = procs[q]
      BY <1>1, <1>4, <1>7, ProcsKept
  <2>4. TypeOK'
    <3>1. shared' \in BOOLEAN
        BY <1>1, <1>7 DEF TypeOK
    <3>2. file' \in Inodes
        BY <1>2, <1>3
    <3> HIDE DEF ino
    <3> QED BY <1>1, <1>3, <2>3, <3>1, <3>2 DEF TypeOK, Process
  <2>5. Stepping'
      BY <2>1, <2>3 DEF Inv, Stepping
  <2>6. ~shared' => ~shared
      BY <1>7
  <2>7. ~shared' => Alone'
      BY <1>3, <2>1, <2>2, <2>3, <2>6 DEF Inv, Alone, Holding
  <2>8. ~shared' => OwnEventOnly'
    <3> SUFFICES ASSUME ~shared', NEW q \in Procs, procs'[q].pc \in {"tick", "run"}
                 PROVE  FALSE
        BY DEF OwnEventOnly
    <3> QED BY <2>1, <2>2, <2>3 DEF Holding
  <2> QED BY <2>4, <2>5, <2>7, <2>8 DEF Inv
<1> HIDE DEF wait, take, held
<1> QED BY <1>5, <1>6, <1>7

LEMMA CleanupStep == ASSUME Inv, NEW p \in Procs, Cleanup(p) PROVE Inv'
<1> DEFINE new == [pc |-> "tick", ino |-> procs[p].ino, since |-> procs[p].since,
                   cur |-> now, k |-> 1, tries |-> procs[p].tries]
<1>1. TypeOK /\ procs[p].pc = "clean"
    BY DEF Inv, Cleanup
<1>2. procs' = [procs EXCEPT ![p] = new]
  <2>1. procs' = [procs EXCEPT ![p].pc = "tick", ![p].cur = now, ![p].k = 1]
      BY DEF Cleanup
  <2>2. procs' = [procs EXCEPT ![p] = [procs[p] EXCEPT !.pc = "tick", !.cur = now, !.k = 1]]
      BY <1>1, <2>1 DEF TypeOK
  <2>3. PICK z : z = [procs[p] EXCEPT !.pc = "tick", !.cur = now, !.k = 1]
      BY Zenon
  <2>4. procs[p] = [pc |-> procs[p].pc, ino |-> procs[p].ino, since |-> procs[p].since,
                    cur |-> procs[p].cur, k |-> procs[p].k, tries |-> procs[p].tries]
      BY <1>1, ProcTyped
  <2>5. z = new
      BY <2>3, <2>4, Zenon
  <2> QED BY <2>2, <2>3, <2>5
<1>3. new \in Process /\ new.pc = "tick"
  <2>1. now \in 0..MaxTime /\ 1 \in 1..(Len(TaskList) + 1)
      BY <1>1, RunnerConstants DEF TypeOK
  <2> QED BY <1>1, <2>1, ProcTyped DEF Process
<1> HIDE DEF new
<1>4. /\ procs' \in [Procs -> Process] /\ procs'[p] = new
      /\ \A q \in Procs : q # p => procs'[q] = procs[q]
    BY <1>1, <1>2, <1>3, ProcsKept
<1>5. UNCHANGED <<now, starts, file, shared>> /\ running' = {}
    BY DEF Cleanup
<1>6. TypeOK'
  <2>1. last' \in [Tasks -> {Never} \cup 0..MaxTime]
      BY <1>1, BegunTyped DEF Cleanup
  <2> QED BY <1>1, <1>4, <1>5, <2>1 DEF TypeOK, Process
<1>7. Stepping'
    BY <1>3, <1>4 DEF Inv, Stepping
<1>8. ~shared => Alone'
    BY <1>1, <1>3, <1>4, <1>5 DEF Inv, Alone, Holding
<1>9. ~shared => OwnEventOnly'
  <2> SUFFICES ASSUME ~shared, NEW q \in Procs, procs'[q].pc \in {"tick", "run"}
               PROVE  q = p
      BY <1>3, <1>4, <1>5 DEF OwnEventOnly
  <2> QED BY <1>1, <1>4 DEF Inv, Alone, Holding
<1> QED BY <1>5, <1>6, <1>7, <1>8, <1>9 DEF Inv

(* A tick moves on: past a task that is not due, or to its beginning. *)
LEMMA TickOnStep == ASSUME Inv, NEW p \in Procs, SkipTask(p) \/ NextTick(p) PROVE Inv'
<1>1. TypeOK /\ procs[p].pc = "tick"
    BY DEF Inv, SkipTask, NextTick
<1>2. now \in 0..MaxTime /\ Len(TaskList) \in Nat /\ procs[p].k \in 1..(Len(TaskList) + 1)
    BY <1>1, ProcTyped DEF TypeOK
<1>3. PICK cur \in 0..MaxTime, k \in 1..(Len(TaskList) + 1) :
          procs' = [procs EXCEPT ![p] = [procs[p] EXCEPT !.pc = "tick", !.cur = cur, !.k = k]]
  <2>1. CASE SkipTask(p)
    <3>1. procs[p].k + 1 \in 1..(Len(TaskList) + 1)
      <4>1. procs[p].k <= Len(TaskList)
          BY <2>1 DEF SkipTask
      <4> QED BY <1>2, <4>1
    <3>2. procs' = [procs EXCEPT ![p] = [procs[p] EXCEPT !.k = procs[p].k + 1]]
        BY <2>1 DEF SkipTask
    <3>3. [procs[p] EXCEPT !.k = procs[p].k + 1]
              = [procs[p] EXCEPT !.pc = "tick", !.cur = procs[p].cur, !.k = procs[p].k + 1]
        BY <1>1, ProcUpdated
    <3>4. procs[p].cur \in 0..MaxTime
        BY <1>1, ProcTyped
    <3> QED BY <3>1, <3>2, <3>3, <3>4
  <2>2. CASE NextTick(p)
    <3>1. procs' = [procs EXCEPT ![p] = [procs[p] EXCEPT !.cur = now, !.k = 1]]
        BY <1>1, <2>2 DEF NextTick, TypeOK
    <3>2. [procs[p] EXCEPT !.cur = now, !.k = 1]
              = [procs[p] EXCEPT !.pc = "tick", !.cur = now, !.k = 1]
        BY <1>1, ProcUpdated
    <3>3. 1 \in 1..(Len(TaskList) + 1)
        BY <1>2
    <3> QED BY <1>2, <3>1, <3>2, <3>3
  <2> QED BY <2>1, <2>2
<1> DEFINE new == [pc |-> "tick", ino |-> procs[p].ino, since |-> procs[p].since,
                   cur |-> cur, k |-> k, tries |-> procs[p].tries]
<1>4. [procs[p] EXCEPT !.pc = "tick", !.cur = cur, !.k = k] = new
  <2>1. PICK z : z = [procs[p] EXCEPT !.pc = "tick", !.cur = cur, !.k = k]
      BY Zenon
  <2>2. procs[p] = [pc |-> procs[p].pc, ino |-> procs[p].ino, since |-> procs[p].since,
                    cur |-> procs[p].cur, k |-> procs[p].k, tries |-> procs[p].tries]
      BY <1>1, ProcTyped
  <2>3. z = new
      BY <2>1, <2>2, Zenon
  <2> QED BY <2>1, <2>3
<1>5. new \in Process /\ new.pc = "tick"
    BY <1>1, ProcTyped DEF Process
<1> HIDE DEF new
<1>6. /\ procs' \in [Procs -> Process] /\ procs'[p] = new
      /\ \A q \in Procs : q # p => procs'[q] = procs[q]
    BY <1>1, <1>3, <1>4, <1>5, ProcsKept
<1>7. UNCHANGED <<now, starts, file, last, running, shared>>
    BY DEF SkipTask, NextTick
<1>8. TypeOK' /\ Stepping'
    BY <1>1, <1>5, <1>6, <1>7 DEF Inv, TypeOK, Process, Stepping
<1>9. ~shared => Alone'
    BY <1>1, <1>5, <1>6, <1>7 DEF Inv, Alone, Holding
<1>10. ~shared => OwnEventOnly'
  <2> SUFFICES ASSUME ~shared, NEW q \in Procs, procs'[q].pc \in {"tick", "run"}
               PROVE  q = p /\ running = {}
      BY <1>5, <1>6, <1>7 DEF OwnEventOnly
  <2>1. q = p
      BY <1>1, <1>6 DEF Inv, Alone, Holding
  <2>2. running = {}
      BY <1>1 DEF Inv, OwnEventOnly
  <2> QED BY <2>1, <2>2
<1> QED BY <1>7, <1>8, <1>9, <1>10 DEF Inv

LEMMA StartTaskStep == ASSUME Inv, NEW p \in Procs, StartTask(p) PROVE Inv'
<1> DEFINE new == [pc |-> "run", ino |-> procs[p].ino, since |-> procs[p].since,
                   cur |-> procs[p].cur, k |-> procs[p].k, tries |-> procs[p].tries]
<1>1. TypeOK /\ procs[p].pc = "tick" /\ procs[p].k <= Len(TaskList)
    BY DEF Inv, StartTask
<1>2. procs' = [procs EXCEPT ![p] = new]
  <2>1. procs' = [procs EXCEPT ![p] = [procs[p] EXCEPT !.pc = "run"]]
      BY DEF StartTask
  <2>2. [procs[p] EXCEPT !.pc = "run"] = new
      BY <1>1, ProcUpdated
  <2> QED BY <2>1, <2>2
<1>3. new \in Process /\ new.pc = "run" /\ new.k = procs[p].k /\ new.cur = procs[p].cur
    BY <1>1, ProcTyped DEF Process
<1> HIDE DEF new
<1>4. /\ procs' \in [Procs -> Process] /\ procs'[p] = new
      /\ \A q \in Procs : q # p => procs'[q] = procs[q]
    BY <1>1, <1>2, <1>3, ProcsKept
<1>5. UNCHANGED <<now, starts, file, last, shared>> /\ running' = running \cup {RowOf(p)}
    BY DEF StartTask
<1>6. TypeOK'
    BY <1>1, <1>4, <1>5, TaskTyped DEF TypeOK, Process
<1>7. Stepping'
    BY <1>1, <1>3, <1>4 DEF Inv, Stepping
<1>8. ~shared => running' = {RowOf(p)}
    BY <1>1, <1>5 DEF Inv, OwnEventOnly
<1>9. ~shared => Alone'
    BY <1>1, <1>3, <1>4, <1>8 DEF Inv, Alone, Holding
<1>10. ~shared => OwnEventOnly'
  <2>1. RowOf(p)' = RowOf(p)
      BY <1>3, <1>4 DEF RowOf, TaskOf
  <2> SUFFICES ASSUME ~shared, NEW q \in Procs, procs'[q].pc \in {"tick", "run"}
               PROVE  q = p
      BY <1>3, <1>4, <1>5, <1>8, <2>1 DEF OwnEventOnly
  <2> QED BY <1>1, <1>4 DEF Inv, Alone, Holding
<1> QED BY <1>5, <1>6, <1>7, <1>9, <1>10 DEF Inv

LEMMA FinishTaskStep == ASSUME Inv, NEW p \in Procs, FinishTask(p) PROVE Inv'
<1> DEFINE new == [pc |-> "tick", ino |-> procs[p].ino, since |-> procs[p].since,
                   cur |-> procs[p].cur, k |-> procs[p].k + 1, tries |-> procs[p].tries]
<1>1. TypeOK /\ procs[p].pc = "run" /\ procs[p].k <= Len(TaskList)
    BY DEF Inv, FinishTask, Stepping
<1>2. procs' = [procs EXCEPT ![p] = new]
  <2>1. procs' = [procs EXCEPT ![p].pc = "tick", ![p].k = @ + 1]
      BY DEF FinishTask
  <2>2. procs' = [procs EXCEPT ![p] = [procs[p] EXCEPT !.pc = "tick", !.k = procs[p].k + 1]]
      BY <1>1, <2>1 DEF TypeOK
  <2>3. PICK z : z = [procs[p] EXCEPT !.pc = "tick", !.k = procs[p].k + 1]
      BY Zenon
  <2>4. procs[p] = [pc |-> procs[p].pc, ino |-> procs[p].ino, since |-> procs[p].since,
                    cur |-> procs[p].cur, k |-> procs[p].k, tries |-> procs[p].tries]
      BY <1>1, ProcTyped
  <2>5. z = new
      BY <2>3, <2>4, Zenon
  <2> QED BY <2>2, <2>3, <2>5
<1>3. new \in Process /\ new.pc = "tick"
  <2>1. procs[p].k + 1 \in 1..(Len(TaskList) + 1)
    <3>1. procs[p].k \in 1..(Len(TaskList) + 1) /\ Len(TaskList) \in Nat
        BY <1>1, ProcTyped
    <3> QED BY <1>1, <3>1
  <2> QED BY <1>1, <2>1, ProcTyped DEF Process
<1> HIDE DEF new
<1>4. /\ procs' \in [Procs -> Process] /\ procs'[p] = new
      /\ \A q \in Procs : q # p => procs'[q] = procs[q]
    BY <1>1, <1>2, <1>3, ProcsKept
<1>5. UNCHANGED <<now, starts, file, shared>> /\ running' = running \ {RowOf(p)}
    BY DEF FinishTask
<1>6. TypeOK'
  <2> DEFINE t == TaskOf(p)
             S == {last[t], procs[p].cur}
  <2>1. t \in Tasks
      BY <1>1, TaskTyped
  <2>2. last[t] \in {Never} \cup 0..MaxTime /\ procs[p].cur \in 0..MaxTime
      BY <1>1, <2>1, ProcTyped DEF TypeOK
  <2>3. S \in SUBSET Int /\ S # {}
      BY <2>2 DEF Never
  <2>4. IsFiniteSet(S)
    <3>1. S = {last[t]} \cup {procs[p].cur}
        OBVIOUS
    <3>2. IsFiniteSet({last[t]})
        BY FS_Singleton
    <3> HIDE DEF S
    <3> QED BY <3>1, <3>2, FS_AddElement
  <2>5. Max(S) \in S
    <3> HIDE DEF S
    <3> QED BY <2>3, <2>4, MaxExists
  <2>6. Max(S) \in {Never} \cup 0..MaxTime
      BY <2>2, <2>5
  <2>7. last' = [last EXCEPT ![t] = Max(S)]
      BY DEF FinishTask
  <2> HIDE DEF t, S
  <2>8. last' \in [Tasks -> {Never} \cup 0..MaxTime]
      BY <1>1, <2>6, <2>7 DEF TypeOK
  <2> QED BY <1>1, <1>4, <1>5, <2>8 DEF TypeOK, Process
<1>7. Stepping'
    BY <1>3, <1>4 DEF Inv, Stepping
<1>8. ~shared => running' = {}
    BY <1>1, <1>5 DEF Inv, OwnEventOnly
<1>9. ~shared => Alone'
    BY <1>1, <1>3, <1>4, <1>8 DEF Inv, Alone, Holding
<1>10. ~shared => OwnEventOnly'
  <2> SUFFICES ASSUME ~shared, NEW q \in Procs, procs'[q].pc \in {"tick", "run"}
               PROVE  q = p
      BY <1>3, <1>4, <1>5, <1>8 DEF OwnEventOnly
  <2> QED BY <1>1, <1>4 DEF Inv, Alone, Holding
<1> QED BY <1>5, <1>6, <1>7, <1>9, <1>10 DEF Inv

LEMMA TickStep == Inv /\ Tick => Inv'
<1> SUFFICES ASSUME Inv, Tick PROVE Inv'
    OBVIOUS
<1>1. now' \in 0..MaxTime
  <2>1. now \in 0..MaxTime /\ now < MaxTime /\ now' = now + 1
      BY DEF Inv, TypeOK, Tick
  <2> QED BY <2>1, RunnerConstants
<1>2. UNCHANGED <<starts, file, procs, last, running, shared>>
    BY DEF Tick
<1>3. TypeOK'
    BY <1>1, <1>2 DEF Inv, TypeOK
<1>4. Stepping' /\ (~shared => Alone' /\ OwnEventOnly')
    BY <1>2 DEF Inv, Stepping, Alone, Holding, OwnEventOnly, RowOf, TaskOf
<1> QED BY <1>2, <1>3, <1>4 DEF Inv

LEMMA InvStep == Inv /\ [Next]_vars => Inv'
<1> SUFFICES ASSUME Inv, [Next]_vars PROVE Inv'
    OBVIOUS
<1>1. ASSUME NEW p \in Procs, Launch(p) \/ Proceed(p) \/ Die(p) PROVE Inv'
  <2>1. CASE Launch(p)
      BY <2>1, LaunchStep
  <2>2. CASE Die(p)
      BY <2>2, DieStep
  <2>3. CASE Acquire(p)
      BY <2>3, AcquireStep
  <2>4. CASE Retry(p)
      BY <2>4, RetryStep
  <2>5. CASE Cleanup(p)
      BY <2>5, CleanupStep
  <2>6. CASE SkipTask(p) \/ NextTick(p)
      BY <2>6, TickOnStep
  <2>7. CASE StartTask(p)
      BY <2>7, StartTaskStep
  <2>8. CASE FinishTask(p)
      BY <2>8, FinishTaskStep
  <2> QED BY <1>1, <2>1, <2>2, <2>3, <2>4, <2>5, <2>6, <2>7, <2>8 DEF Proceed
<1>2. CASE UNCHANGED vars
    BY <1>2 DEF vars, Inv, TypeOK, Stepping, Alone, Holding, OwnEventOnly, RowOf, TaskOf
<1> QED BY <1>1, <1>2, TickStep DEF Next

-----------------------------------------------------------------------------
(* The start of a task, ended or not, in terms of its events. *)
Reached(t, s) == last[t] >= s \/ \E r \in running : r.task = t /\ r.at >= s

LEMMA BegunReaches ==
    ASSUME TypeOK, NEW t \in Tasks, NEW s \in Int
    PROVE  Begun(t) >= s <=> Reached(t, s)
<1> DEFINE S == {last[t]} \cup {r.at : r \in {q \in running : q.task = t}}
<1>1. S \in SUBSET Int /\ S # {} /\ IsFiniteSet(S)
    BY BegunFinite
<1>2. Begun(t) = Max(S)
    BY DEF Begun
<1>3. \A x \in S : x = last[t] \/ \E r \in running : r.task = t /\ x = r.at
    OBVIOUS
<1>4. last[t] \in S /\ \A r \in running : r.task = t => r.at \in S
    OBVIOUS
<1> HIDE DEF S
<1>5. Max(S) \in S /\ \A x \in S : Max(S) >= x
    BY <1>1, MaxExists
<1>6. ASSUME Begun(t) >= s PROVE Reached(t, s)
    BY <1>2, <1>3, <1>5, <1>6 DEF Reached
<1>7. ASSUME Reached(t, s) PROVE Begun(t) >= s
  <2>1. PICK x \in S : x >= s
      BY <1>4, <1>7 DEF Reached
  <2>2. Max(S) \in Int /\ x \in Int /\ Max(S) >= x
      BY <1>1, <1>5
  <2> QED BY <1>2, <2>1, <2>2
<1> QED BY <1>6, <1>7

(* Every startup task a tick has passed has been started since the process *)
(* began: by the process, or by another whose start it has seen.           *)
Passed(p, j) == j < procs[p].k \/ (procs[p].pc = "run" /\ j = procs[p].k)

Served ==
    \A p \in Procs :
        /\ procs[p].since <= now
        /\ procs[p].pc \in {"tick", "run"} =>
               /\ procs[p].since <= procs[p].cur
               /\ \A j \in 1..Len(TaskList) :
                      TaskList[j] \in Startup /\ Passed(p, j)
                      => Reached(TaskList[j], procs[p].since)

(* The start of a task is not forgotten: an event that ends, in whatever   *)
(* way, keeps its started_at.                                              *)
LEMMA ReachedKept ==
    ASSUME Inv, [Next]_vars, NEW t \in Tasks, NEW s \in Int, Reached(t, s)
    PROVE  Reached(t, s)'
<1>1. TypeOK
    BY DEF Inv
<1>2. CASE UNCHANGED last /\ running \subseteq running'
    BY <1>2 DEF Reached
<1>3. ASSUME NEW p \in Procs, Cleanup(p) PROVE Reached(t, s)'
  <2>1. Begun(t) >= s
      BY <1>1, BegunReaches
  <2>2. last'[t] = Begun(t)
      BY <1>3 DEF Cleanup
  <2> QED BY <2>1, <2>2 DEF Reached
<1>4. ASSUME NEW p \in Procs, FinishTask(p) PROVE Reached(t, s)'
  <2>1. procs[p].k <= Len(TaskList)
      BY <1>4 DEF Inv, Stepping, FinishTask
  <2>2. TaskOf(p) \in Tasks
      BY <1>1, <2>1, TaskTyped
  <2>3. last[TaskOf(p)] \in Int /\ procs[p].cur \in Int
      BY <1>1, <2>2, ProcTyped DEF TypeOK, Never
  <2>4. /\ Max({last[TaskOf(p)], procs[p].cur}) \in Int
        /\ Max({last[TaskOf(p)], procs[p].cur}) >= last[TaskOf(p)]
        /\ Max({last[TaskOf(p)], procs[p].cur}) >= procs[p].cur
      BY <2>3, MaxOfTwo
  <2>5. last' = [last EXCEPT ![TaskOf(p)] = Max({last[TaskOf(p)], procs[p].cur})]
      BY <1>4 DEF FinishTask
  <2>6. running' = running \ {RowOf(p)}
      BY <1>4 DEF FinishTask
  <2>7. CASE last[t] >= s
    <3>1. last[t] \in Int /\ last'[t] >= last[t] /\ last'[t] \in Int
        BY <1>1, <2>3, <2>4, <2>5 DEF TypeOK, Never
    <3> QED BY <2>7, <3>1 DEF Reached
  <2>8. CASE \E r \in running : r.task = t /\ r.at >= s
    <3>1. PICK r \in running : r.task = t /\ r.at >= s
        BY <2>8
    <3>2. CASE r = RowOf(p)
      <4>1. t = TaskOf(p) /\ procs[p].cur >= s
          BY <3>1, <3>2 DEF RowOf
      <4>2. last'[t] \in Int /\ last'[t] >= procs[p].cur
          BY <1>1, <2>2, <2>4, <2>5, <4>1 DEF TypeOK
      <4>3. last'[t] >= s
          BY <2>3, <4>1, <4>2
      <4> QED BY <4>3 DEF Reached
    <3>3. CASE r # RowOf(p)
        BY <2>6, <3>1, <3>3 DEF Reached
    <3> QED BY <3>2, <3>3
  <2> QED BY <2>7, <2>8 DEF Reached
<1>5. CASE UNCHANGED vars \/ Tick
    BY <1>2, <1>5 DEF vars, Tick
<1>6. ASSUME NEW p \in Procs, Launch(p) \/ Proceed(p) \/ Die(p) PROVE Reached(t, s)'
  <2>1. CASE Launch(p) \/ Die(p) \/ Acquire(p) \/ Retry(p) \/ SkipTask(p) \/ NextTick(p)
      BY <1>2, <2>1 DEF Launch, Die, Acquire, Retry, SkipTask, NextTick
  <2>2. CASE StartTask(p)
      BY <1>2, <2>2 DEF StartTask
  <2> QED BY <1>3, <1>4, <1>6, <2>1, <2>2 DEF Proceed
<1> QED BY <1>5, <1>6 DEF Next

(* What a step does to the process that takes it. *)
LEMMA ProcMoves ==
    ASSUME TypeOK, NEW p \in Procs
    PROVE  /\ Launch(p) => procs'[p].pc = "lock" /\ procs'[p].since = procs[p].since
           /\ Retry(p) => procs'[p].pc \in {"off", "lock"}
                          /\ procs'[p].since \in {0, procs[p].since}
           /\ Acquire(p) => procs'[p].pc \in {"retry", "clean"}
                            /\ procs'[p].since \in {now, procs[p].since}
           /\ Cleanup(p) \/ NextTick(p) =>
                  /\ procs'[p].pc = "tick" /\ procs'[p].since = procs[p].since
                  /\ procs'[p].cur = now /\ procs'[p].k = 1
           /\ SkipTask(p) \/ FinishTask(p) =>
                  /\ procs'[p].pc = "tick" /\ procs'[p].since = procs[p].since
                  /\ procs'[p].cur = procs[p].cur /\ procs'[p].k = procs[p].k + 1
           /\ StartTask(p) =>
                  /\ procs'[p].pc = "run" /\ procs'[p].since = procs[p].since
                  /\ procs'[p].cur = procs[p].cur /\ procs'[p].k = procs[p].k
           /\ Die(p) => procs'[p].pc = "off" /\ procs'[p].since = 0
<1>1. Launch(p) => procs'[p].pc = "lock" /\ procs'[p].since = procs[p].since
    BY DEF TypeOK, Launch
<1>2. Retry(p) => procs'[p].pc \in {"off", "lock"} /\ procs'[p].since \in {0, procs[p].since}
    BY DEF TypeOK, Retry, Off
<1>3. Acquire(p) => procs'[p].pc \in {"retry", "clean"}
                    /\ procs'[p].since \in {now, procs[p].since}
  <2>1. Acquire(p) => \E ino :
            \/ procs' = [procs EXCEPT ![p].pc = "retry"]
            \/ procs' = [procs EXCEPT ![p].pc = "clean", ![p].ino = ino, ![p].since = now]
      BY Zenon DEF Acquire
  <2> QED BY <2>1 DEF TypeOK
<1>4. Cleanup(p) \/ NextTick(p) =>
          /\ procs'[p].pc = "tick" /\ procs'[p].since = procs[p].since
          /\ procs'[p].cur = now /\ procs'[p].k = 1
    BY DEF TypeOK, Cleanup, NextTick
<1>5. SkipTask(p) \/ FinishTask(p) =>
          /\ procs'[p].pc = "tick" /\ procs'[p].since = procs[p].since
          /\ procs'[p].cur = procs[p].cur /\ procs'[p].k = procs[p].k + 1
    BY DEF TypeOK, SkipTask, FinishTask
<1>6. StartTask(p) =>
          /\ procs'[p].pc = "run" /\ procs'[p].since = procs[p].since
          /\ procs'[p].cur = procs[p].cur /\ procs'[p].k = procs[p].k
    BY DEF TypeOK, StartTask
<1>7. Die(p) => procs'[p].pc = "off" /\ procs'[p].since = 0
    BY DEF TypeOK, Die, Off
<1> QED BY <1>1, <1>2, <1>3, <1>4, <1>5, <1>6, <1>7

LEMMA ServedStep == Inv /\ Served /\ [Next]_vars => Served'
<1> SUFFICES ASSUME Inv, Served, [Next]_vars PROVE Served'
    OBVIOUS
<1>1. TypeOK /\ now \in Int
    BY DEF Inv, TypeOK
<1>2. now' \in Int /\ now' >= now
  <2>1. \A p \in Procs : Launch(p) \/ Proceed(p) \/ Die(p) => now' = now
      BY DEF Proceed, Launch, Acquire, Retry, Cleanup, SkipTask, StartTask, FinishTask, NextTick,
             Die
  <2>2. now' = now \/ now' = now + 1
      BY <2>1 DEF Next, Tick, vars
  <2> QED BY <1>1, <2>2
(* A process that does nothing keeps what it has. *)
<1>3. ASSUME NEW q \in Procs, procs'[q] = procs[q]
      PROVE  /\ procs'[q].since <= now'
             /\ procs'[q].pc \in {"tick", "run"} =>
                    /\ procs'[q].since <= procs'[q].cur
                    /\ \A j \in 1..Len(TaskList) :
                           TaskList[j] \in Startup /\ Passed(q, j)'
                           => Reached(TaskList[j], procs[q].since)'
  <2>1. PICK since \in Int : since = procs[q].since
      BY <1>1, ProcNumbers
  <2>2. procs[q].since <= now'
      BY <1>1, <1>2, <2>1 DEF Served
  <2>3. ASSUME NEW j \in 1..Len(TaskList), procs[q].pc \in {"tick", "run"},
               TaskList[j] \in Startup, Passed(q, j)'
        PROVE  Reached(TaskList[j], since)'
    <3>1. TaskList[j] \in Tasks
        BY RunnerConstants
    <3>2. Passed(q, j)
        BY <1>3, <2>3 DEF Passed
    <3>3. Reached(TaskList[j], since)
        BY <2>1, <2>3, <3>2 DEF Served
    <3> QED BY <3>1, <3>3, ReachedKept
  <2>4. procs'[q].since = since
      BY <1>3, <2>1
  <2> QED BY <1>3, <2>2, <2>3, <2>4 DEF Served, Reached
<1>4. ASSUME NEW p \in Procs, Launch(p) \/ Proceed(p) \/ Die(p)
      PROVE  Served'
  <2>1. \A q \in Procs : q # p => procs'[q] = procs[q]
      BY <1>1, <1>4 DEF TypeOK, Proceed, Launch, Acquire, Retry, Cleanup, SkipTask, StartTask,
                        FinishTask, NextTick, Die
  <2>2. /\ procs[p].since \in Int /\ procs[p].since >= 0 /\ procs[p].since <= now
        /\ procs[p].cur \in Int /\ procs[p].k \in 1..(Len(TaskList) + 1)
        /\ Len(TaskList) \in Nat
      BY <1>1, ProcNumbers DEF Served
  <2>3. PICK since \in Int : since = procs[p].since
      BY <2>2
  <2>4. procs'[p].since <= now'
    <3>1. procs'[p].since \in {0, now, procs[p].since}
        BY <1>1, <1>4, ProcMoves DEF Proceed
    <3> QED BY <1>1, <1>2, <2>2, <3>1
  <2>5. ASSUME procs'[p].pc \in {"tick", "run"}
        PROVE  /\ procs'[p].since <= procs'[p].cur
               /\ \A j \in 1..Len(TaskList) :
                      TaskList[j] \in Startup /\ Passed(p, j)'
                      => Reached(TaskList[j], since)'
               /\ procs'[p].since = procs[p].since
    <3>1. CASE Cleanup(p) \/ NextTick(p)
      <4>1. /\ procs'[p].pc = "tick" /\ procs'[p].since = procs[p].since
            /\ procs'[p].cur = now /\ procs'[p].k = 1
          BY <1>1, <3>1, ProcMoves
      <4>2. \A j \in 1..Len(TaskList) : ~Passed(p, j)'
          BY <2>2, <4>1 DEF Passed
      <4> QED BY <2>2, <4>1, <4>2
    <3>2. CASE SkipTask(p)
      <4>1. /\ procs'[p].pc = "tick" /\ procs'[p].since = procs[p].since
            /\ procs'[p].cur = procs[p].cur /\ procs'[p].k = procs[p].k + 1
          BY <1>1, <3>2, ProcMoves
      <4>2. procs[p].pc = "tick" /\ procs[p].k <= Len(TaskList) /\ ~IsDue(p)
          BY <3>2 DEF SkipTask
      <4>3. procs[p].since <= procs[p].cur
          BY <4>2 DEF Served
      <4>4. ASSUME NEW j \in 1..Len(TaskList), TaskList[j] \in Startup, Passed(p, j)'
            PROVE  Reached(TaskList[j], since)'
        <5>1. TaskList[j] \in Tasks
            BY RunnerConstants
        <5>2. j < procs[p].k \/ j = procs[p].k
            BY <2>2, <4>1, <4>4 DEF Passed
        <5>3. Reached(TaskList[j], since)
          <6>1. CASE j < procs[p].k
              BY <2>3, <4>2, <4>4, <6>1 DEF Served, Passed
          <6>2. CASE j = procs[p].k
            <7>1. ~(last[TaskList[j]] < procs[p].since)
                BY <4>2, <4>4, <6>2 DEF IsDue, TaskOf
            <7>2. last[TaskList[j]] \in Int
                BY <1>1, <5>1 DEF TypeOK, Never
            <7> QED BY <2>3, <7>1, <7>2 DEF Reached
          <6> QED BY <5>2, <6>1, <6>2
        <5> QED BY <5>1, <5>3, ReachedKept
      <4> QED BY <4>1, <4>3, <4>4
    <3>3. CASE StartTask(p)
      <4>1. /\ procs'[p].pc = "run" /\ procs'[p].since = procs[p].since
            /\ procs'[p].cur = procs[p].cur /\ procs'[p].k = procs[p].k
          BY <1>1, <3>3, ProcMoves
      <4>2. procs[p].pc = "tick" /\ RowOf(p) \in running'
          BY <3>3 DEF StartTask
      <4>3. procs[p].since <= procs[p].cur
          BY <4>2 DEF Served
      <4>4. ASSUME NEW j \in 1..Len(TaskList), TaskList[j] \in Startup, Passed(p, j)'
            PROVE  Reached(TaskList[j], since)'
        <5>1. TaskList[j] \in Tasks
            BY RunnerConstants
        <5>2. CASE j < procs[p].k
          <6>1. Reached(TaskList[j], since)
              BY <2>3, <4>2, <4>4, <5>2 DEF Served, Passed
          <6> QED BY <5>1, <6>1, ReachedKept
        <5>3. CASE j = procs[p].k
          <6>1. RowOf(p).task = TaskList[j] /\ RowOf(p).at >= since
              BY <2>2, <2>3, <4>3, <5>3 DEF RowOf, TaskOf
          <6> QED BY <4>2, <6>1 DEF Reached
        <5> QED BY <4>1, <4>4, <5>2, <5>3 DEF Passed
      <4> QED BY <4>1, <4>3, <4>4
    <3>4. CASE FinishTask(p)
      <4>1. /\ procs'[p].pc = "tick" /\ procs'[p].since = procs[p].since
            /\ procs'[p].cur = procs[p].cur /\ procs'[p].k = procs[p].k + 1
          BY <1>1, <3>4, ProcMoves
      <4>2. procs[p].pc = "run"
          BY <3>4 DEF FinishTask
      <4>3. procs[p].since <= procs[p].cur
          BY <4>2 DEF Served
      <4>4. ASSUME NEW j \in 1..Len(TaskList), TaskList[j] \in Startup, Passed(p, j)'
            PROVE  Reached(TaskList[j], since)'
        <5>1. TaskList[j] \in Tasks
            BY RunnerConstants
        <5>2. Passed(p, j)
            BY <2>2, <4>1, <4>2, <4>4 DEF Passed
        <5>3. Reached(TaskList[j], since)
            BY <2>3, <4>2, <4>4, <5>2 DEF Served
        <5> QED BY <5>1, <5>3, ReachedKept
      <4> QED BY <4>1, <4>3, <4>4
    <3>5. CASE Launch(p) \/ Retry(p) \/ Acquire(p) \/ Die(p)
        BY <1>1, <2>5, <3>5, ProcMoves
    <3> QED BY <1>4, <3>1, <3>2, <3>3, <3>4, <3>5 DEF Proceed
  <2> QED
    <3>1. procs'[p].pc \in {"tick", "run"} => procs'[p].since = since
        BY <2>5, <2>3
    <3> QED BY <1>3, <2>1, <2>4, <2>5, <3>1 DEF Served, Reached
<1>5. CASE UNCHANGED vars \/ Tick
  <2>1. procs' = procs
      BY <1>5 DEF vars, Tick
  <2> QED BY <1>3, <2>1 DEF Served
<1> QED BY <1>4, <1>5 DEF Next

-----------------------------------------------------------------------------
LEMMA InvAlways == Spec => []Inv
<1> QED BY InitInv, InvStep, PTL DEF Spec

(* The variables keep their types, however many processes there are. *)
THEOREM RunnerTyped == Spec => []TypeOK
<1>1. Inv => TypeOK
    BY DEF Inv
<1> QED BY InvAlways, <1>1, PTL

(* While runners follow one another, the RUNNING event in the table is     *)
(* that of the task being run: cleanup_orphaned_runner_events has ended    *)
(* those of dead runners before the first task starts.                     *)
THEOREM OwnEvents == Spec => []OwnEventOnly
<1>1. Inv => OwnEventOnly
    BY DEF Inv, OwnEventOnly
<1> QED BY InvAlways, <1>1, PTL

(* While runners follow one another, a task starts again only when its     *)
(* interval has passed since it last started, though _is_due looks at ended *)
(* events only: when a task is due no event is RUNNING.                    *)
THEOREM IntervalsKept == Spec => Spaced
<1> DEFINE Step == \A p \in Procs : StartTask(p) /\ ~shared =>
           LET t == TaskOf(p) IN
           \/ Begun(t) = Never \/ procs[p].cur - Begun(t) >= Interval[t]
           \/ t \in Startup /\ Begun(t) < procs[p].since
<1>1. Inv /\ [Next]_vars => [Step]_vars
  <2> SUFFICES ASSUME Inv, NEW p \in Procs, StartTask(p), ~shared
               PROVE  \/ Begun(TaskOf(p)) = Never
                      \/ procs[p].cur - Begun(TaskOf(p)) >= Interval[TaskOf(p)]
                      \/ TaskOf(p) \in Startup /\ Begun(TaskOf(p)) < procs[p].since
      OBVIOUS
  <2>1. running = {}
      BY DEF Inv, OwnEventOnly, StartTask
  <2>2. TaskOf(p) \in Tasks
      BY TaskTyped DEF Inv, StartTask
  <2>3. Begun(TaskOf(p)) = last[TaskOf(p)]
      BY <2>1, <2>2, BegunTyped DEF Inv
  <2> QED BY <2>3 DEF StartTask, IsDue
<1>2. Spaced <=> [][Step]_vars
    BY DEF Spaced
<1> QED BY InvAlways, <1>1, <1>2, PTL DEF Spec

(* After its first tick every startup task has been started since the      *)
(* process began, though _is_due compares the ended events only and other  *)
(* processes end, start and clean up events in between.                    *)
THEOREM StartupsServed == Spec => []StartupServed
<1>1. Init => Served
    BY RunnerConstants DEF Init, Served, Off
<1>2. Inv /\ Served => StartupServed
  <2> SUFFICES ASSUME Inv, Served, NEW p \in Procs, procs[p].pc = "tick",
                      procs[p].k > Len(TaskList), NEW t \in Startup
               PROVE  Begun(t) >= procs[p].since
      BY DEF StartupServed
  <2>1. t \in Tasks /\ Len(TaskList) \in Nat
      BY RunnerConstants
  <2>2. PICK j \in 1..Len(TaskList) : TaskList[j] = t
      BY <2>1, RunnerConstants DEF Tasks
  <2>3. procs[p].since \in Int /\ procs[p].k \in Int
      BY ProcNumbers DEF Inv
  <2>4. Passed(p, j)
      BY <2>1, <2>2, <2>3 DEF Passed
  <2>5. Reached(t, procs[p].since)
      BY <2>2, <2>4 DEF Served
  <2> QED BY <2>1, <2>3, <2>5, BegunReaches DEF Inv
<1> QED BY InvAlways, ServedStep, <1>1, <1>2, PTL DEF Spec
=============================================================================
