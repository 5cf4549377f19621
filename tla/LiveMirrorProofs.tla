-------------------------- MODULE LiveMirrorProofs --------------------------
(***************************************************************************)
(* What holds of the live mirror for every set of orders, strategies,      *)
(* symbols and prices, every limit, and every number of failed calls,      *)
(* restarts and uses of /livemode.                                         *)
(*                                                                         *)
(* One invariant carries everything.  OneActivePerSymbol alone is not      *)
(* inductive: a row becomes PENDING several steps after resolve() found    *)
(* the symbol free, so the invariant also says what the handler under way  *)
(* still knows about the table (HandlerUpToDate).                          *)
(***************************************************************************)
EXTENDS LiveMirror, FiniteSetTheorems, TLAPS

-----------------------------------------------------------------------------
(* Lemmas about the operators the handlers are built from. *)

(* The idle handler is a handler. *)
LEMMA IdleType == IdleJob \in Job
BY ConstantsOK DEF IdleJob, Job, Steps, PlaceSteps, Phases, Statuses, NoLegs, LegIds0, Kinds

(* The numbers and program counters a placement uses. *)
LEMMA Members ==
    /\ 0 \in 0..2 /\ 1 \in 0..2 /\ 2 \in 0..2 /\ 0 \in LegIds0
    /\ \A n \in LegIds : n \in LegIds0
    /\ PlaceSteps \subseteq Steps
    /\ \A pc \in {"idle", "cancel", "mark", "status", "pass", "attach", "markFilled",
                  "remaining", "risk", "entry", "fallback", "leg", "save"} : pc \in Steps
BY ConstantsOK DEF LegIds, LegIds0, Steps, PlaceSteps

(* A sync or cleanup loop over any rows is a handler. *)
LEMMA PassType ==
    ASSUME NEW phase \in Phases, NEW s \in Strategies \cup {None}, NEW todo \in SUBSET Orders
    PROVE  Pass(phase, s, todo) \in Job
BY IdleType DEF Pass, Job, IdleJob, Steps

(* So is a placement at any of its steps. *)
LEMMA PlaceType ==
    ASSUME NEW o \in Orders \cup {None}, NEW s \in Strategies \cup {None}, NEW pc \in Steps,
           NEW old \in Orders \cup {None}, NEW mark \in Statuses
    PROVE  PlaceJob(o, s, pc, old, mark) \in Job
BY IdleType DEF PlaceJob, Job, IdleJob, Phases

(* The fields of the handler under way. *)
LEMMA JobFields ==
    ASSUME TypeOK
    PROVE  /\ job.pc \in Steps /\ job.phase \in Phases /\ job.strat \in Strategies \cup {None}
           /\ job.todo \in SUBSET Orders /\ job.o \in Orders \cup {None}
           /\ job.tgt \in Orders \cup {None} /\ job.mark \in Statuses
           /\ job.need \in SUBSET Kinds /\ job.entry \in 0..2
           /\ job.leg \in [Kinds -> LegIds0] /\ job.qty \in Nat /\ job.tries \in Nat
BY DEF TypeOK, Job

(* Any number of failed cancels is a number. *)
LEMMA FailedCounts ==
    \A S \in SUBSET ({"ENTRY"} \cup Kinds) : Cardinality(S) \in Nat
<1>1. IsFiniteSet({"ENTRY"} \cup Kinds)
  BY FS_Singleton, FS_AddElement, {"ENTRY"} \cup Kinds = ({"ENTRY"} \cup {"SL"}) \cup {"TP"}
  DEF Kinds
<1> QED BY <1>1, FS_Subset, FS_CardinalityType

(* Charging a failed call keeps the budgets numbers. *)
LEMMA ChargeType ==
    ASSUME used \in [faults : Nat, crashes : Nat, toggles : Nat]
    PROVE  /\ \A r \in Outcome : Charge(r) => used' \in [faults : Nat, crashes : Nat, toggles : Nat]
           /\ \A n \in Nat : ChargeN(n) => used' \in [faults : Nat, crashes : Nat, toggles : Nat]
BY DEF Charge, ChargeN

(* A nested update with a value of the right type keeps a table's type. *)
LEMMA NestedUpdate ==
    ASSUME NEW A, NEW B, NEW C, NEW R, NEW f \in [A -> [B -> [C -> R]]],
           NEW a, NEW b, NEW c, NEW v \in R
    PROVE  [f EXCEPT ![a][b][c] = v] \in [A -> [B -> [C -> R]]]
<1> DEFINE g == [f[a][b] EXCEPT ![c] = v]
           h == [f[a] EXCEPT ![b] = g]
<1>1. ASSUME a \in A, b \in B
      PROVE  g \in [C -> R]
  BY <1>1
<1>2. ASSUME a \in A
      PROVE  h \in [B -> [C -> R]]
  BY <1>1, <1>2
<1>3. [f EXCEPT ![a][b][c] = v] = [f EXCEPT ![a] = h]
  OBVIOUS
<1> HIDE DEF h
<1> QED BY <1>2, <1>3

(* The entry of an order opens, or its POST had no effect. *)
LEMMA EntryOpens ==
    ASSUME ent \in [Orders -> [Attempts -> EntryStates]], NEW o, NEW n, NEW eff \in BOOLEAN,
           ent' = IF eff THEN [ent EXCEPT ![o][n] = "open"] ELSE ent
    PROVE  ent' \in [Orders -> [Attempts -> EntryStates]]
<1>1. o \in Orders => [ent[o] EXCEPT ![n] = "open"] \in [Attempts -> EntryStates]
  BY DEF EntryStates
<1>2. eff => ent' = [ent EXCEPT ![o] = [ent[o] EXCEPT ![n] = "open"]]
  OBVIOUS
<1> QED BY <1>1, <1>2

(* Cancelling and opening orders on the exchange. *)
LEMMA ExchangeType ==
    ASSUME TypeOK
    PROVE  /\ \A o, n : \A hit \in BOOLEAN :
                 CancelEntry(o, n, hit) => ent' \in [Orders -> [Attempts -> EntryStates]]
           /\ \A o, ks : CancelLegs(o, ks) =>
                 leg' \in [Orders -> [Kinds -> [LegIds -> [st : LegStates, qty : Nat]]]]
           /\ \A o, k, n : \A qty \in Nat : OpenLeg(o, k, n, qty) =>
                 leg' \in [Orders -> [Kinds -> [LegIds -> [st : LegStates, qty : Nat]]]]
<1>1. ASSUME NEW o, NEW n, NEW hit \in BOOLEAN, CancelEntry(o, n, hit)
      PROVE  ent' \in [Orders -> [Attempts -> EntryStates]]
  BY <1>1 DEF TypeOK, CancelEntry, EntryStates
<1>2. ASSUME NEW o, NEW ks, CancelLegs(o, ks)
      PROVE  leg' \in [Orders -> [Kinds -> [LegIds -> [st : LegStates, qty : Nat]]]]
  <2>1. NoLeg \in [st : LegStates, qty : Nat]
    BY DEF NoLeg, LegStates
  <2> DEFINE L == [k \in Kinds |-> [n \in LegIds |->
                     IF k \in ks /\ n = row[o].leg[k] /\ leg[o][k][n].st = "open"
                     THEN NoLeg ELSE leg[o][k][n]]]
  <2>2. ASSUME o \in Orders
        PROVE  L \in [Kinds -> [LegIds -> [st : LegStates, qty : Nat]]]
    <3>1. \A k \in Kinds, n \in LegIds : leg[o][k][n] \in [st : LegStates, qty : Nat]
      BY <2>2 DEF TypeOK
    <3>2. \A k \in Kinds : L[k] \in [LegIds -> [st : LegStates, qty : Nat]]
      BY <2>1, <3>1
    <3> QED BY <3>2
  <2>3. leg' = [leg EXCEPT ![o] = L]
    BY <1>2 DEF CancelLegs
  <2> HIDE DEF L
  <2> QED BY <2>2, <2>3 DEF TypeOK
<1>3. ASSUME NEW o, NEW k, NEW n, NEW qty \in Nat, OpenLeg(o, k, n, qty)
      PROVE  leg' \in [Orders -> [Kinds -> [LegIds -> [st : LegStates, qty : Nat]]]]
  <2> DEFINE R == [st : LegStates, qty : Nat]
             v == [st |-> "open", qty |-> qty]
  <2>1. v \in R
    BY DEF LegStates
  <2>2. leg \in [Orders -> [Kinds -> [LegIds -> R]]]
    BY DEF TypeOK
  <2>3. leg' = [leg EXCEPT ![o][k][n] = v]
    BY <1>3 DEF OpenLeg
  <2> HIDE DEF R, v
  <2>4. leg' \in [Orders -> [Kinds -> [LegIds -> R]]]
    BY ONLY <2>1, <2>2, <2>3, NestedUpdate
  <2> QED BY <2>4 DEF R
<1> QED BY <1>1, <1>2, <1>3

(* An algo order triggered or cancelled. *)
LEMMA LegUpdate ==
    ASSUME TypeOK, NEW o, NEW k, NEW n
    PROVE  /\ [leg EXCEPT ![o][k][n] = [st |-> "filled", qty |-> 0]]
                 \in [Orders -> [Kinds -> [LegIds -> [st : LegStates, qty : Nat]]]]
           /\ [leg EXCEPT ![o][k][n] = NoLeg]
                 \in [Orders -> [Kinds -> [LegIds -> [st : LegStates, qty : Nat]]]]
<1> DEFINE R == [st : LegStates, qty : Nat]
           v == [st |-> "filled", qty |-> 0]
<1>1. v \in R /\ NoLeg \in R
  BY DEF LegStates, NoLeg
<1>2. leg \in [Orders -> [Kinds -> [LegIds -> R]]]
  BY DEF TypeOK
<1> HIDE DEF R, v
<1>3. /\ [leg EXCEPT ![o][k][n] = v] \in [Orders -> [Kinds -> [LegIds -> R]]]
      /\ [leg EXCEPT ![o][k][n] = NoLeg] \in [Orders -> [Kinds -> [LegIds -> R]]]
  BY ONLY <1>1, <1>2, NestedUpdate
<1> QED BY <1>3 DEF R, v

(* A position grows or shrinks. *)
LEMMA PositionUpdate ==
    ASSUME TypeOK, NEW sym, NEW d, NEW qty \in Nat
    PROVE  /\ [pos EXCEPT ![sym][d] = @ + 1] \in [Symbols -> [Directions -> Nat]]
           /\ [pos EXCEPT ![sym][d] = IF qty < pos[sym][d] THEN pos[sym][d] - qty ELSE 0]
                 \in [Symbols -> [Directions -> Nat]]
<1> DEFINE held == pos[sym][d]
           rest == IF qty < held THEN held - qty ELSE 0
<1>1. ASSUME sym \in Symbols, d \in Directions
      PROVE  held + 1 \in Nat /\ rest \in Nat
  <2>1. held \in Nat
    BY <1>1 DEF TypeOK
  <2> QED BY <2>1
<1>2. \A m : (sym \in Symbols /\ d \in Directions => m \in Nat)
         => [pos EXCEPT ![sym][d] = m] \in [Symbols -> [Directions -> Nat]]
  <2> SUFFICES ASSUME NEW m, sym \in Symbols /\ d \in Directions => m \in Nat
               PROVE  [pos EXCEPT ![sym][d] = m] \in [Symbols -> [Directions -> Nat]]
    OBVIOUS
  <2>1. sym \in Symbols => [pos[sym] EXCEPT ![d] = m] \in [Directions -> Nat]
    BY DEF TypeOK
  <2>2. [pos EXCEPT ![sym][d] = m] = [pos EXCEPT ![sym] = [pos[sym] EXCEPT ![d] = m]]
    OBVIOUS
  <2> QED BY <2>1, <2>2 DEF TypeOK
<1>3. [pos EXCEPT ![sym][d] = @ + 1] = [pos EXCEPT ![sym][d] = held + 1]
  OBVIOUS
<1> HIDE DEF rest
<1>4. [pos EXCEPT ![sym][d] = rest] \in [Symbols -> [Directions -> Nat]]
  BY <1>1, <1>2
<1>5. [pos EXCEPT ![sym][d] = held + 1] \in [Symbols -> [Directions -> Nat]]
  BY <1>1, <1>2
<1> QED BY <1>3, <1>4, <1>5 DEF rest

(* Updates of one row of live_orders. *)
LEMMA RowUpdate ==
    ASSUME row \in [Orders -> Row], NEW o
    PROVE  /\ \A st \in Statuses : [row EXCEPT ![o].status = st] \in [Orders -> Row]
           /\ \A r \in Row : [row EXCEPT ![o] = r] \in [Orders -> Row]
           /\ \A l \in [Kinds -> LegIds0] : [row EXCEPT ![o].leg = l] \in [Orders -> Row]
BY DEF Row

(* Updates of several fields of the handler. *)
LEMMA JobUpdate ==
    ASSUME job \in Job
    PROVE  /\ \A pc \in Steps, e \in 0..2 :
                 /\ [job EXCEPT !.pc = pc, !.entry = e] \in Job
                 /\ [job EXCEPT !.pc = pc, !.entry = e, !.need = Kinds] \in Job
           /\ \A pc \in Steps, m \in LegIds0 : \A k :
                 /\ [job EXCEPT !.pc = pc, !.need = @ \ {k}, !.leg[k] = m] \in Job
                 /\ [job EXCEPT !.pc = pc, !.need = @ \ {k}, !.tries = 0, !.leg[k] = m] \in Job
           /\ [job EXCEPT !.tries = @ + 1] \in Job
<1>1. ASSUME NEW pc \in Steps, NEW e \in 0..2
      PROVE  [job EXCEPT !.pc = pc, !.entry = e] \in Job
  BY DEF Job
<1>2. ASSUME NEW pc \in Steps, NEW e \in 0..2
      PROVE  [job EXCEPT !.pc = pc, !.entry = e, !.need = Kinds] \in Job
  BY DEF Job
<1>3. ASSUME NEW pc \in Steps, NEW k, NEW m \in LegIds0
      PROVE  /\ [job EXCEPT !.pc = pc, !.need = @ \ {k}, !.leg[k] = m] \in Job
             /\ [job EXCEPT !.pc = pc, !.need = @ \ {k}, !.tries = 0, !.leg[k] = m] \in Job
  <2> DEFINE l == [job.leg EXCEPT ![k] = m]
  <2>1. l \in [Kinds -> LegIds0] /\ job.need \ {k} \in SUBSET Kinds
    BY DEF Job
  <2>2. /\ [job EXCEPT !.pc = pc, !.need = @ \ {k}, !.leg = l] \in Job
        /\ [job EXCEPT !.pc = pc, !.need = @ \ {k}, !.tries = 0, !.leg = l] \in Job
    <3> HIDE DEF l
    <3> QED BY <2>1 DEF Job
  <2> QED BY <2>2
<1>4. [job EXCEPT !.tries = @ + 1] \in Job
  BY DEF Job
<1> QED BY <1>1, <1>2, <1>3, <1>4

(* A new program counter keeps the handler's type. *)
LEMMA GotoType ==
    ASSUME job \in Job, NEW pc \in Steps, Goto(pc)
    PROVE  job' \in Job
BY DEF Goto, Job

(* So does ending a row's turn in a loop. *)
LEMMA DoneType ==
    ASSUME TypeOK, NEW o, Done(o)
    PROVE  job' \in Job
BY JobFields, PassType DEF Done

(* And giving a placement up. *)
LEMMA RejectType ==
    ASSUME TypeOK, Reject
    PROVE  job' \in Job
<1>1. "status" \in Steps /\ "REJECTED" \in Statuses
  BY DEF Steps, Statuses, Terminal, Refused
<1> QED BY <1>1, JobFields, PlaceType DEF Reject

(* Taking up the missing legs of a row. *)
LEMMA StartAttachType ==
    ASSUME TypeOK, NEW o \in Orders, NEW qty \in Nat, StartAttach(o, qty)
    PROVE  job' \in Job
<1>1. row[o].leg \in [Kinds -> LegIds0] /\ "attach" \in Steps
  BY Members DEF TypeOK, Row
<1> QED BY <1>1 DEF TypeOK, StartAttach, Job

-----------------------------------------------------------------------------
(* Type correctness, one lemma per part of the engine. *)

(* Placing: try_place and what it calls. *)
LEMMA PlacingTypes ==
    ASSUME TypeOK,
           \/ CancelBinanceOrder \/ SaveStatusRow \/ RiskCheck \/ PlaceEntry
           \/ PlaceFallback \/ PlaceLeg \/ SaveOrder
    PROVE  TypeOK'
<1>1. CASE CancelBinanceOrder
  <2> DEFINE t == job.tgt
  <2>1. PICK failed \in SUBSET ({"ENTRY"} \cup Recorded(t)) :
          /\ ChargeN(Cardinality(failed))
          /\ CancelEntry(t, row[t].entry, "ENTRY" \notin failed)
          /\ CancelLegs(t, Recorded(t) \ failed)
    BY <1>1 DEF CancelBinanceOrder
  <2>2. Cardinality(failed) \in Nat
    BY FailedCounts DEF Recorded
  <2>3. Goto("mark") /\ "mark" \in Steps
    BY <1>1 DEF CancelBinanceOrder, Steps
  <2> QED BY <1>1, <2>1, <2>2, <2>3, ChargeType, ExchangeType, GotoType
          DEF TypeOK, CancelBinanceOrder
<1>2. CASE SaveStatusRow
  <2>1. [NoRow EXCEPT !.status = job.mark] \in Row
    BY JobFields, Members DEF NoRow, Row, NoLegs
  <2> QED BY <1>2, <2>1, RowUpdate, IdleType DEF TypeOK, SaveStatusRow, exchange
<1>3. CASE RiskCheck
  <2>1. FailedReads \in Nat
    BY DEF FailedReads
  <2>2. "entry" \in Steps
    BY DEF Steps, PlaceSteps
  <2> QED BY <1>3, <2>1, <2>2, ChargeType, GotoType, RejectType DEF TypeOK, RiskCheck, exchange
<1>4. CASE PlaceEntry
  <2>1. PICK r \in Outcome :
          /\ Charge(r)
          /\ ent' = IF r.eff THEN [ent EXCEPT ![job.o][1] = "open"] ELSE ent
          /\ \/ job' = [job EXCEPT !.pc = "leg", !.entry = 1, !.need = Kinds]
             \/ Goto("fallback")
             \/ Reject
    BY <1>4 DEF PlaceEntry
  <2>2. r.eff \in BOOLEAN
    BY DEF Outcome
  <2>3. ent' \in [Orders -> [Attempts -> EntryStates]]
    BY <2>1, <2>2, EntryOpens DEF TypeOK
  <2>4. [job EXCEPT !.pc = "leg", !.entry = 1, !.need = Kinds] \in Job
    BY JobUpdate, Members DEF TypeOK
  <2>5. job' \in Job
    BY <2>1, <2>4, GotoType, RejectType DEF TypeOK, Steps, PlaceSteps
  <2> QED BY <1>4, <2>1, <2>3, <2>5, ChargeType DEF TypeOK, PlaceEntry
<1>5. CASE PlaceFallback
  <2>1. PICK r \in Outcome :
          /\ Charge(r)
          /\ ent' = IF r.eff THEN [ent EXCEPT ![job.o][2] = "open"] ELSE ent
          /\ \/ job' = [job EXCEPT !.pc = "save", !.entry = 2]
             \/ Reject
    BY <1>5 DEF PlaceFallback
  <2>2. r.eff \in BOOLEAN
    BY DEF Outcome
  <2>3. ent' \in [Orders -> [Attempts -> EntryStates]]
    BY <2>1, <2>2, EntryOpens DEF TypeOK
  <2>4. [job EXCEPT !.pc = "save", !.entry = 2] \in Job
    BY JobUpdate, Members DEF TypeOK
  <2>5. job' \in Job
    BY <2>1, <2>4, RejectType
  <2> QED BY <1>5, <2>1, <2>3, <2>5, ChargeType DEF TypeOK, PlaceFallback
<1>6. CASE PlaceLeg
  <2> DEFINE k == NextLeg(job.need)
  <2>1. PICK n \in Fresh(job.o, k), r \in Outcome :
          /\ Charge(r)
          /\ IF r.eff THEN OpenLeg(job.o, k, n, 1) ELSE leg' = leg
          /\ IF r.res = "exc" THEN Reject
             ELSE job' = [job EXCEPT !.pc = IF job.need = {k} THEN "save" ELSE "leg",
                                     !.need = @ \ {k},
                                     !.leg[k] = IF r.res = "ok" THEN n ELSE 0]
    BY <1>6 DEF PlaceLeg
  <2>2. n \in LegIds0 /\ 0 \in LegIds0
    BY ConstantsOK DEF Fresh, LegIds, LegIds0
  <2>3. job' \in Job
    <3>1. \A pc \in Steps, m \in LegIds0 :
            [job EXCEPT !.pc = pc, !.need = @ \ {k}, !.leg[k] = m] \in Job
      BY JobUpdate DEF TypeOK
    <3> DEFINE pc == IF job.need = {k} THEN "save" ELSE "leg"
               m == IF r.res = "ok" THEN n ELSE 0
    <3>2. pc \in Steps /\ m \in LegIds0
      BY <2>2, Members
    <3>3. [job EXCEPT !.pc = pc, !.need = @ \ {k}, !.leg[k] = m] \in Job
      BY <3>1, <3>2
    <3> QED BY <2>1, <3>3, RejectType
  <2>4. leg' \in [Orders -> [Kinds -> [LegIds -> [st : LegStates, qty : Nat]]]]
    BY <2>1, ExchangeType DEF TypeOK
  <2> QED BY <1>6, <2>1, <2>3, <2>4, ChargeType DEF TypeOK, PlaceLeg
<1>7. CASE SaveOrder
  <2>1. [status |-> "PENDING", entry |-> job.entry, leg |-> job.leg] \in Row
    BY JobFields DEF Row, Statuses, Active
  <2> QED BY <1>7, <2>1, RowUpdate, IdleType DEF TypeOK, SaveOrder, exchange
<1> QED BY <1>1, <1>2, <1>3, <1>4, <1>5, <1>6, <1>7

(***************************************************************************)
(* What resolve() can answer: the order it names is one of the rows it was *)
(* given, an open position always blocks, and only without any open row    *)
(* (with stored prices positive) is a signal simply placed.                *)
(***************************************************************************)
LEMMA ResolveAnswers ==
    ASSUME NEW cand, NEW sigOf, NEW pending, NEW filled, NEW nobody,
           NEW d \in Resolve(cand, sigOf, pending, filled, nobody)
    PROVE  /\ d.action \in {"PLACE", "REPLACE", "CANCEL_CONFLICT"} \cup DOMAIN StatusOf
           /\ d.action = "PLACE" /\ (\A x \in pending : sigOf[x].price \in Nat \ {0})
                 => pending = {} /\ filled = {}
           /\ d.action \in {"REPLACE", "CANCEL_CONFLICT"} => d.old \in pending
<1>0. DOMAIN StatusOf = {"IGNORE_DUPLICATE", "IGNORE_WORSE_ENTRY", "CANCEL_CONFLICT",
                         "POSITION_SAME_SIDE", "POSITION_OPPOSITE_SIDE"}
  BY DEF StatusOf
<1>1. CASE filled # {}
  <2>1. PICK x \in filled : d = [action |-> FilledAction(cand, sigOf[x]), old |-> x]
    BY <1>1 DEF Resolve
  <2> QED BY <1>0, <1>1, <2>1 DEF FilledAction
<1>2. CASE filled = {} /\ pending # {}
  <2>1. PICK x \in pending : d = [action |-> PendingAction(cand, sigOf[x]), old |-> x]
    BY <1>2 DEF Resolve
  <2>2. d.action = PendingAction(cand, sigOf[x]) /\ d.old = x
    BY <2>1
  <2>3. sigOf[x].price \in Nat \ {0} => ~(sigOf[x].price <= 0)
    OBVIOUS
  <2> QED BY <1>0, <1>2, <2>2, <2>3 DEF PendingAction
<1>3. CASE filled = {} /\ pending = {}
  BY <1>3 DEF Resolve
<1> QED BY <1>1, <1>2, <1>3

(* The row written for a signal that is not placed says why. *)
LEMMA StatusOfType == \A a \in DOMAIN StatusOf : StatusOf[a] \in Refused
BY DEF StatusOf, Refused

(* The candidate of an order. *)
LEMMA SignalType ==
    ASSUME TypeOK, NEW o \in Orders, sig[o] # None
    PROVE  /\ sig[o] \in Signals
           /\ sig[o].strat \in Strategies /\ sig[o].sym \in Symbols
           /\ sig[o].dir \in Directions /\ sig[o].price \in Nat \ {0}
BY ConstantsOK DEF TypeOK, Signals

LEMMA TryPlaceTypes ==
    ASSUME TypeOK, NEW o \in Orders, NEW c \in Signals, TryPlace(o, c)
    PROVE  TypeOK'
<1>1. sig' \in [Orders -> Signals \cup {None}]
  BY DEF TypeOK, TryPlace
<1>2. c.strat \in Strategies
  BY DEF Signals
<1>3. "REJECTED" \in Statuses /\ "NONE" \in Statuses /\ "REPLACED" \in Statuses
      /\ "DIRECTION_CONFLICT" \in Statuses /\ Refused \subseteq Statuses
  BY DEF Statuses, Terminal, Refused, Withdrawn
<1>4. job' \in Job
  <2>1. CASE job' = PlaceJob(o, c.strat, "status", None, "REJECTED")
    BY <1>2, <1>3, <2>1, PlaceType, Members
  <2>2. ASSUME NEW d \in Resolve(c, sig, RowsOf("PENDING", c.strat, c.sym),
                                 RowsOf("FILLED", c.strat, c.sym), None),
               job' = AfterDecision(o, c.strat, d)
        PROVE  job' \in Job
    <3>1. RowsOf("PENDING", c.strat, c.sym) \subseteq Orders
      BY DEF RowsOf, Rows
    <3>2. /\ d.action \in {"PLACE", "REPLACE", "CANCEL_CONFLICT"} \cup DOMAIN StatusOf
          /\ d.action \in {"REPLACE", "CANCEL_CONFLICT"} => d.old \in Orders
      BY <2>2, <3>1, ResolveAnswers
    <3> QED BY <1>2, <1>3, <2>2, <3>2, PlaceType, Members, StatusOfType DEF AfterDecision
  <2> QED BY <2>1, <2>2 DEF TryPlace
<1> QED BY <1>1, <1>4 DEF TypeOK, TryPlace, exchange

(* The loops of the sync and the cleanup task. *)
LEMMA LoopTypes ==
    ASSUME TypeOK,
           \/ MarkStatus \/ NextPhase \/ StartCleanup
           \/ \E s \in Strategies : StartSync(s)
           \/ \E o \in Orders : Expire(o) \/ KeepPending(o) \/ CleanRow(o) \/ SyncPending(o)
    PROVE  TypeOK'
<1> DEFINE Ph == {"pending", "filled", "expire", "clean"}
<1>0. Ph \subseteq Phases /\ \A status, s : Rows(status, s) \subseteq Orders
  BY DEF Phases, Rows
<1>1. CASE MarkStatus
  <2>1. row' \in [Orders -> Row]
    BY <1>1, JobFields, RowUpdate DEF TypeOK, MarkStatus
  <2>2. job' \in Job
    <3>1. "NONE" \in Statuses
      BY DEF Statuses
    <3>2. \/ Done(job.tgt)
          \/ job' = PlaceJob(job.o, job.strat, "risk", None, "NONE")
          \/ job' = PlaceJob(job.o, job.strat, "status", None, job.mark)
      BY <1>1 DEF MarkStatus
    <3>3. /\ PlaceJob(job.o, job.strat, "risk", None, "NONE") \in Job
          /\ PlaceJob(job.o, job.strat, "status", None, job.mark) \in Job
      BY <3>1, JobFields, Members, PlaceType
    <3> QED BY <3>2, <3>3, DoneType
  <2> QED BY <1>1, <2>1, <2>2 DEF TypeOK, MarkStatus, exchange
<1>2. CASE NextPhase
  <2>1. job' \in Job
    BY <1>0, <1>2, JobFields, PassType, IdleType DEF NextPhase
  <2> QED BY <1>2, <2>1 DEF TypeOK, NextPhase, exchange
<1>3. CASE StartCleanup
  <2>1. job' \in Job
    BY <1>0, <1>3, PassType DEF StartCleanup
  <2> QED BY <1>3, <2>1 DEF TypeOK, StartCleanup, exchange
<1>4. ASSUME NEW s \in Strategies, StartSync(s)
      PROVE  TypeOK'
  <2>1. job' \in Job
    BY <1>0, <1>4, PassType DEF StartSync
  <2> QED BY <1>4, <2>1 DEF TypeOK, StartSync, exchange
<1>5. ASSUME NEW o \in Orders, Expire(o)
      PROVE  TypeOK'
  <2>1. "CANCELED_EXPIRED" \in Statuses
    BY DEF Statuses, Terminal, Withdrawn
  <2>2. job' \in Job
    BY <1>5, <2>1, Members DEF TypeOK, Expire, Job
  <2> QED BY <1>5, <2>2 DEF TypeOK, Expire, exchange
<1>6. ASSUME NEW o \in Orders, KeepPending(o)
      PROVE  TypeOK'
  BY <1>6, DoneType DEF TypeOK, KeepPending, exchange
<1>7. ASSUME NEW o \in Orders, CleanRow(o)
      PROVE  TypeOK'
  <2>1. PICK failed \in SUBSET Recorded(o) :
          /\ ChargeN(Cardinality(failed))
          /\ CancelLegs(o, Recorded(o) \ failed)
          /\ row' = [row EXCEPT ![o].leg =
                        [k \in Kinds |-> IF k \in failed THEN row[o].leg[k] ELSE 0]]
    BY <1>7 DEF CleanRow
  <2>2. Cardinality(failed) \in Nat
    BY FailedCounts DEF Recorded
  <2>3. [k \in Kinds |-> IF k \in failed THEN row[o].leg[k] ELSE 0] \in [Kinds -> LegIds0]
    BY <1>7, Members DEF TypeOK, Row
  <2>4. row' \in [Orders -> Row]
    BY <2>1, <2>3, RowUpdate DEF TypeOK
  <2>5. job' \in Job
    BY <1>7, DoneType DEF CleanRow
  <2> QED BY <1>7, <2>1, <2>2, <2>4, <2>5, ChargeType, ExchangeType DEF TypeOK, CleanRow
<1>8. ASSUME NEW o \in Orders, SyncPending(o)
      PROVE  TypeOK'
  <2>1. "FILLED" \in Statuses /\ "CANCELED" \in Statuses
    BY DEF Statuses, Active, Terminal, Withdrawn
  <2>2. row' \in [Orders -> Row]
    <3>1. \/ row' = [row EXCEPT ![o].status = "FILLED"]
          \/ row' = [row EXCEPT ![o].status = "CANCELED"]
          \/ row' = row
      BY <1>8 DEF SyncPending
    <3>2. row \in [Orders -> Row]
      BY DEF TypeOK
    <3> QED BY <2>1, <3>1, <3>2, RowUpdate
  <2>3. job' \in Job
    BY <1>8, DoneType, StartAttachType DEF SyncPending
  <2>4. used' \in [faults : Nat, crashes : Nat, toggles : Nat]
    BY <1>8, ChargeType, 1 \in Nat DEF TypeOK, SyncPending
  <2> QED BY <1>8, <2>2, <2>3, <2>4 DEF TypeOK, SyncPending, exchange
<1> QED BY <1>1, <1>2, <1>3, <1>4, <1>5, <1>6, <1>7, <1>8

(* Re-attaching legs, closing rows. *)
LEMMA LegTypes ==
    ASSUME TypeOK, \A o \in Orders : InPhase("filled", o) => sig[o] # None,
           \/ AttachLeg \/ MarkFilled \/ CancelRemaining
           \/ \E o \in Orders : CheckNaked(o) \/ CheckLegs(o)
    PROVE  TypeOK'
<1>0. /\ {"CLOSED_SL", "CLOSED_TP", "MANUAL_CLOSED", "FILLED"} \subseteq Statuses
      /\ \A o : Recorded(o) \subseteq Kinds
  BY DEF Statuses, Active, Terminal, Closed, Recorded
<1>1. CASE AttachLeg
  <2> DEFINE k == NextLeg(job.need)
  <2>1. ASSUME NEW m \in LegIds0, LegSettled(k, m)
        PROVE  job' \in Job
    <3>1. AfterAttach(job.need \ {k}, m # 0) \in Steps
      BY Members DEF AfterAttach
    <3> DEFINE next == AfterAttach(job.need \ {k}, m # 0)
    <3>2. \/ Done(job.o)
          \/ job' = [job EXCEPT !.pc = next, !.need = @ \ {k}, !.tries = 0, !.leg[k] = m]
      BY <2>1 DEF LegSettled
    <3>3. \A pc \in Steps :
            [job EXCEPT !.pc = pc, !.need = @ \ {k}, !.tries = 0, !.leg[k] = m] \in Job
      BY JobUpdate DEF TypeOK
    <3> HIDE DEF next
    <3> QED BY <3>1, <3>2, <3>3, DoneType DEF next
  <2>2. CASE Fresh(job.o, k) = {} /\ LegSettled(k, 0) /\ UNCHANGED <<leg, used>>
    BY <1>1, <2>1, <2>2, Members DEF TypeOK, AttachLeg
  <2>3. CASE \E n \in Fresh(job.o, k), r \in Outcome :
               /\ Charge(r)
               /\ IF r.eff THEN OpenLeg(job.o, k, n, job.qty) ELSE leg' = leg
               /\ \/ LegSettled(k, n) \/ LegSettled(k, 0) \/ Done(job.o)
                  \/ job' = [job EXCEPT !.tries = @ + 1]
    <3>1. PICK n \in Fresh(job.o, k), r \in Outcome :
               /\ Charge(r)
               /\ IF r.eff THEN OpenLeg(job.o, k, n, job.qty) ELSE leg' = leg
               /\ \/ LegSettled(k, n) \/ LegSettled(k, 0) \/ Done(job.o)
                  \/ job' = [job EXCEPT !.tries = @ + 1]
      BY <2>3
    <3>2. n \in LegIds0
      BY Members DEF Fresh
    <3>3. job' \in Job
      BY <2>1, <3>1, <3>2, Members, DoneType, JobUpdate DEF TypeOK
    <3>4. leg' \in [Orders -> [Kinds -> [LegIds -> [st : LegStates, qty : Nat]]]]
      BY <3>1, JobFields, ExchangeType DEF TypeOK
    <3> QED BY <1>1, <3>1, <3>3, <3>4, ChargeType DEF TypeOK, AttachLeg
  <2> QED BY <1>1, <2>2, <2>3 DEF AttachLeg
<1>2. CASE MarkFilled
  <2> DEFINE ids == [k \in Kinds |-> IF job.leg[k] # 0 THEN job.leg[k] ELSE row[job.o].leg[k]]
  <2>1. row' = [row EXCEPT ![job.o].status = "FILLED", ![job.o].leg = ids]
    BY <1>2 DEF MarkFilled
  <2>2. job.o \in Orders => ids \in [Kinds -> LegIds0]
    BY JobFields DEF TypeOK, Row
  <2>3. row' \in [Orders -> Row]
    <3> HIDE DEF ids
    <3>1. job.o \in Orders => [row[job.o] EXCEPT !.status = "FILLED", !.leg = ids] \in Row
      <4>1. job.o \in Orders => row[job.o] \in Row
        BY DEF TypeOK
      <4>2. "FILLED" \in Statuses
        BY <1>0
      <4> QED BY ONLY <2>2, <4>1, <4>2 DEF Row
    <3>2. row' = [row EXCEPT ![job.o] = [row[job.o] EXCEPT !.status = "FILLED", !.leg = ids]]
      BY <2>1
    <3> QED BY <3>1, <3>2 DEF TypeOK
  <2>4. job' \in Job
    BY <1>2, DoneType, GotoType, Members DEF TypeOK, MarkFilled
  <2> QED BY <1>2, <2>3, <2>4 DEF TypeOK, MarkFilled, exchange
<1>3. CASE CancelRemaining
  <2>1. PICK failed \in SUBSET job.need :
          ChargeN(Cardinality(failed)) /\ CancelLegs(job.tgt, job.need \ failed)
    BY <1>3 DEF CancelRemaining
  <2>2. Cardinality(failed) \in Nat
    BY JobFields, FailedCounts
  <2>3. job' \in Job
    BY <1>3, GotoType, Members DEF TypeOK, CancelRemaining
  <2> QED BY <1>3, <2>1, <2>2, <2>3, ChargeType, ExchangeType DEF TypeOK, CancelRemaining
<1>4. ASSUME NEW o \in Orders, NEW mark \in {"CLOSED_SL", "CLOSED_TP", "MANUAL_CLOSED"},
             NEW ks \in SUBSET Kinds, CloseJob(o, mark, ks)
      PROVE  job' \in Job
  BY <1>0, <1>4, Members DEF TypeOK, CloseJob, Job
<1>5. ASSUME NEW o \in Orders, CheckNaked(o)
      PROVE  TypeOK'
  <2> DEFINE qty == pos[sig[o].sym][sig[o].dir]
  <2>1. \/ CloseJob(o, "MANUAL_CLOSED", Recorded(o)) /\ UNCHANGED used
        \/ qty > 0 /\ StartAttach(o, qty) /\ UNCHANGED used
        \/ ChargeN(1) /\ StartAttach(o, 1)
    BY <1>5 DEF CheckNaked
  <2>2. qty \in Nat
    BY <1>5, SignalType DEF TypeOK, CheckNaked, InPhase
  <2>3. job' \in Job
    BY <1>0, <1>4, <2>1, <2>2, StartAttachType
  <2>4. used' \in [faults : Nat, crashes : Nat, toggles : Nat]
    BY <2>1, ChargeType DEF TypeOK
  <2> QED BY <1>5, <2>3, <2>4 DEF TypeOK, CheckNaked, exchange
<1>6. ASSUME NEW o \in Orders, CheckLegs(o)
      PROVE  TypeOK'
  <2>1. PICK sl \in Answers(o, "SL"), tp \in Answers(o, "TP") :
          /\ ChargeN(Cardinality({k \in Kinds : (IF k = "SL" THEN sl ELSE tp) # Truth(o, k)}))
          /\ \/ ClearLeg(o, "SL")
             \/ CloseJob(o, "CLOSED_SL", {"TP"}) /\ UNCHANGED row
             \/ ClearLeg(o, "TP")
             \/ CloseJob(o, "CLOSED_TP", {"SL"}) /\ UNCHANGED row
             \/ Done(o) /\ UNCHANGED row
    BY <1>6 DEF CheckLegs
  <2>2. Cardinality({k \in Kinds : (IF k = "SL" THEN sl ELSE tp) # Truth(o, k)}) \in Nat
    BY FailedCounts
  <2>3. ASSUME NEW k \in Kinds, ClearLeg(o, k)
        PROVE  row' \in [Orders -> Row] /\ job' \in Job
    <3>1. [row[o].leg EXCEPT ![k] = 0] \in [Kinds -> LegIds0]
      BY Members DEF TypeOK, Row
    <3> DEFINE l == [row[o].leg EXCEPT ![k] = 0]
    <3>2. row' = [row EXCEPT ![o].leg = l]
      BY <2>3 DEF ClearLeg
    <3>3. row \in [Orders -> Row] /\ Done(o)
      BY <2>3 DEF TypeOK, ClearLeg
    <3> HIDE DEF l
    <3>4. l \in [Kinds -> LegIds0]
      BY <3>1 DEF l
    <3> QED BY <3>2, <3>3, <3>4, RowUpdate, DoneType
  <2>4. row' \in [Orders -> Row] /\ job' \in Job
    BY <1>4, <2>1, <2>3, DoneType DEF TypeOK, Kinds
  <2> QED BY <1>6, <2>1, <2>2, <2>4, ChargeType DEF TypeOK, CheckLegs, exchange
<1> QED BY <1>1, <1>2, <1>3, <1>5, <1>6

(* The exchange, its users, the live switch and crashes. *)
LEMMA WorldTypes ==
    ASSUME TypeOK, World
    PROVE  TypeOK'
<1>1. ASSUME NEW o \in Orders, NEW n \in Attempts, FillEntry(o, n)
      PROVE  TypeOK'
  <2>1. ent' \in [Orders -> [Attempts -> EntryStates]]
    <3>1. \E st \in EntryStates : ent' = [ent EXCEPT ![o][n] = st]
      BY <1>1 DEF FillEntry, EntryStates
    <3> QED BY <3>1 DEF TypeOK
  <2>2. pos' \in [Symbols -> [Directions -> Nat]]
    <3>1. \/ pos' = [pos EXCEPT ![sig[o].sym][sig[o].dir] = @ + 1]
          \/ pos' = pos
      BY <1>1 DEF FillEntry
    <3>2. [pos EXCEPT ![sig[o].sym][sig[o].dir] = @ + 1] \in [Symbols -> [Directions -> Nat]]
      BY PositionUpdate, 0 \in Nat
    <3> QED BY <3>1, <3>2 DEF TypeOK
  <2> QED BY <1>1, <2>1, <2>2 DEF TypeOK, FillEntry
<1>2. ASSUME NEW o \in Orders, NEW n \in Attempts, DropEntry(o, n)
      PROVE  TypeOK'
  <2>1. "absent" \in EntryStates
    BY DEF EntryStates
  <2> QED BY <1>2, <2>1 DEF TypeOK, DropEntry
<1>3. ASSUME NEW o \in Orders, NEW k \in Kinds, NEW n \in LegIds, TriggerLeg(o, k, n)
      PROVE  TypeOK'
  <2>1. leg' \in [Orders -> [Kinds -> [LegIds -> [st : LegStates, qty : Nat]]]]
    BY <1>3, LegUpdate DEF TriggerLeg
  <2>2. leg[o][k][n].qty \in Nat
    BY DEF TypeOK
  <2>3. pos' \in [Symbols -> [Directions -> Nat]]
    BY <1>3, <2>2, PositionUpdate DEF TypeOK, TriggerLeg
  <2> QED BY <1>3, <2>1, <2>3 DEF TypeOK, TriggerLeg
<1>4. ASSUME NEW o \in Orders, NEW k \in Kinds, NEW n \in LegIds, DropLeg(o, k, n)
      PROVE  TypeOK'
  <2>1. leg' \in [Orders -> [Kinds -> [LegIds -> [st : LegStates, qty : Nat]]]]
    BY <1>4, LegUpdate DEF DropLeg
  <2> QED BY <1>4, <2>1 DEF TypeOK, DropLeg
<1>5. ASSUME NEW sym \in Symbols, NEW d \in Directions, ManualClose(sym, d)
      PROVE  TypeOK'
  BY <1>5 DEF TypeOK, ManualClose
<1>6. ASSUME NEW s \in Strategies, SetLive(s)
      PROVE  TypeOK'
  BY <1>6 DEF TypeOK, SetLive, exchange
<1>7. CASE Crash
  BY <1>7, IdleType DEF TypeOK, Crash, exchange
<1> QED BY <1>1, <1>2, <1>3, <1>4, <1>5, <1>6, <1>7 DEF World

-----------------------------------------------------------------------------
(* One active order for a symbol. *)

Inv == TypeOK /\ OneActivePerSymbol /\ HandlerUpToDate

Safe == OneActivePerSymbol /\ HandlerUpToDate

status == [o \in Orders |-> row[o].status]

-----------------------------------------------------------------------------
(* The initial state is well typed, with no row and no handler. *)
LEMMA InitInv == Init => Inv
<1> SUFFICES ASSUME Init PROVE Inv
  OBVIOUS
<1>1. TypeOK
  <2>1. NoRow \in Row
    BY Members DEF NoRow, Row, NoLegs, Statuses
  <2>2. NoLeg \in [st : LegStates, qty : Nat]
    BY DEF NoLeg, LegStates
  <2> QED BY <2>1, <2>2, IdleType DEF Init, TypeOK, EntryStates
<1>2. \A o \in Orders : row[o].status = "NONE"
  BY DEF Init, NoRow
<1>3. OneActivePerSymbol
  BY <1>2 DEF OneActivePerSymbol, Active
<1>4. job.pc = "idle" /\ job.phase = "none"
  BY DEF Init, IdleJob
<1>5. HandlerUpToDate
  BY <1>2, <1>4 DEF HandlerUpToDate, PlacingUpToDate, MarkingUpToDate, LoopsUpToDate, PlaceSteps
<1> QED BY <1>1, <1>3, <1>5 DEF Inv

(* Every step keeps the types. *)
LEMMA TypeStep == Inv /\ [Next]_vars => TypeOK'
<1> SUFFICES ASSUME Inv, [Next]_vars PROVE TypeOK'
  OBVIOUS
<1> USE DEF Inv
<1>1. CASE UNCHANGED vars
  BY <1>1 DEF TypeOK, vars, exchange
<1>2. ASSUME \/ CancelBinanceOrder \/ SaveStatusRow \/ RiskCheck \/ PlaceEntry
             \/ PlaceFallback \/ PlaceLeg \/ SaveOrder
      PROVE  TypeOK'
  BY <1>2, PlacingTypes
<1>3. ASSUME \/ MarkStatus \/ NextPhase \/ StartCleanup
             \/ \E s \in Strategies : StartSync(s)
             \/ \E o \in Orders : Expire(o) \/ KeepPending(o) \/ CleanRow(o) \/ SyncPending(o)
      PROVE  TypeOK'
  BY <1>3, LoopTypes
<1>4. \A o \in Orders : InPhase("filled", o) => sig[o] # None
  BY DEF InPhase, HandlerUpToDate, LoopsUpToDate
<1>5. ASSUME \/ AttachLeg \/ MarkFilled \/ CancelRemaining
             \/ \E o \in Orders : CheckNaked(o) \/ CheckLegs(o)
      PROVE  TypeOK'
  BY <1>4, <1>5, LegTypes
<1>6. CASE World
  BY <1>6, WorldTypes
<1>7. ASSUME NEW o \in Orders, NEW c \in Signals, TryPlace(o, c)
      PROVE  TypeOK'
  BY <1>7, TryPlaceTypes
<1> QED BY <1>1, <1>2, <1>3, <1>4, <1>5, <1>6, <1>7 DEF Next, JobStep

-----------------------------------------------------------------------------
(* Facts about the next handler. *)

NoSignalNoRow == \A o \in Orders : sig[o] = None => row[o].status = "NONE"

(* The program counter and phase of the handlers the engine starts. *)
LEMMA JobShapes ==
    /\ IdleJob.pc = "idle" /\ IdleJob.phase = "none"
    /\ \A phase, s, todo : /\ Pass(phase, s, todo).pc = "pass"
                           /\ Pass(phase, s, todo).phase = phase
                           /\ Pass(phase, s, todo).todo = todo
    /\ \A o, s, pc, old, mark : /\ PlaceJob(o, s, pc, old, mark).pc = pc
                                /\ PlaceJob(o, s, pc, old, mark).phase = "place"
                                /\ PlaceJob(o, s, pc, old, mark).todo = {}
                                /\ PlaceJob(o, s, pc, old, mark).o = o
                                /\ PlaceJob(o, s, pc, old, mark).tgt = old
                                /\ PlaceJob(o, s, pc, old, mark).mark = mark
BY DEF IdleJob, Pass, PlaceJob

(* With no handler there is nothing to be up to date. *)
LEMMA IdleUpToDate ==
    ASSUME job' = IdleJob, NoSignalNoRow'
    PROVE  HandlerUpToDate'
BY JobShapes DEF NoSignalNoRow, HandlerUpToDate, PlacingUpToDate, MarkingUpToDate, LoopsUpToDate,
                 PlaceSteps

(* A loop is up to date if its rows have the status it loaded. *)
LEMMA PassUpToDate ==
    ASSUME NEW phase \in Phases \ {"place"}, NEW s, NEW todo, job' = Pass(phase, s, todo),
           NoSignalNoRow',
           phase \in {"pending", "expire"} => \A o \in todo : row'[o].status = "PENDING",
           phase = "filled" => \A o \in todo : row'[o].status = "FILLED"
    PROVE  HandlerUpToDate'
BY JobShapes DEF NoSignalNoRow, HandlerUpToDate, PlacingUpToDate, MarkingUpToDate, LoopsUpToDate,
                 PlaceSteps

(* It stays so when one row is done with and no other row has changed. *)
LEMMA DoneUpToDate ==
    ASSUME Inv, NEW o, Done(o), job.phase # "place", NoSignalNoRow',
           \A x \in Orders \ {o} : row'[x].status = row[x].status
    PROVE  HandlerUpToDate'
<1> DEFINE todo == job.todo \ {o}
<1>1. job.phase \in Phases /\ todo \subseteq Orders \ {o}
  BY JobFields DEF Inv
<1>2. /\ job.phase \in {"pending", "expire"} => \A x \in todo : row[x].status = "PENDING"
      /\ job.phase = "filled" => \A x \in todo : row[x].status = "FILLED"
  BY DEF Inv, HandlerUpToDate, LoopsUpToDate
<1>3. job' = Pass(job.phase, job.strat, todo)
  BY DEF Done
<1> HIDE DEF todo
<1> QED BY <1>1, <1>2, <1>3, PassUpToDate

(* A placement that is about to be refused is up to date. *)
LEMMA RefusalUpToDate ==
    ASSUME NEW o \in Orders, NEW s, NEW mark \in Refused, NoSignalNoRow',
           job' = PlaceJob(o, s, "status", None, mark),
           sig'[o] # None, row'[o].status = "NONE"
    PROVE  HandlerUpToDate'
BY JobShapes DEF NoSignalNoRow, HandlerUpToDate, PlacingUpToDate, MarkingUpToDate, LoopsUpToDate,
                 PlaceSteps

(* Giving a placement up is one of those refusals. *)
LEMMA RejectUpToDate ==
    ASSUME Inv, job.phase = "place", Reject, UNCHANGED <<sig, row>>
    PROVE  HandlerUpToDate'
<1>1. "REJECTED" \in Refused
  BY DEF Refused
<1>2. job.o \in Orders /\ sig[job.o] # None /\ row[job.o].status = "NONE"
  BY DEF Inv, HandlerUpToDate, PlacingUpToDate
<1>3. NoSignalNoRow'
  BY DEF Inv, HandlerUpToDate, NoSignalNoRow
<1> QED BY <1>1, <1>2, <1>3, RefusalUpToDate DEF Reject

(* A placement may go to its next step while nobody else is at work. *)
LEMMA PlacingGoesOn ==
    ASSUME Inv, job.pc \in PlaceSteps, job'.pc \in PlaceSteps,
           job'.phase = job.phase, job'.o = job.o, job'.todo = job.todo,
           UNCHANGED <<sig, row>>
    PROVE  HandlerUpToDate'
<1>1. \A p \in Orders : row'[p].status \in Active => Key(p)' # <<sig'[job'.o].strat, sig'[job'.o].sym>>
  BY DEF Inv, HandlerUpToDate, PlacingUpToDate, Key
<1> QED BY <1>1 DEF Inv, HandlerUpToDate, PlacingUpToDate, MarkingUpToDate, LoopsUpToDate,
                    PlaceSteps, Key

(* No two orders at work: kept while statuses and signals are. *)
LEMMA StillOneActive ==
    ASSUME Inv, sig' = sig,
           \A o \in Orders : row'[o].status \in Active => row[o].status \in Active
    PROVE  OneActivePerSymbol'
BY DEF Inv, OneActivePerSymbol, Key

(* Only one row is written at a time. *)
LEMMA RowWrite ==
    ASSUME row \in [Orders -> Row], NEW o \in Orders
    PROVE  /\ \A st : row' = [row EXCEPT ![o].status = st]
                 => /\ row'[o].status = st
                    /\ \A x \in Orders \ {o} : row'[x].status = row[x].status
           /\ \A r : row' = [row EXCEPT ![o] = r]
                 => row'[o] = r /\ \A x \in Orders \ {o} : row'[x].status = row[x].status
           /\ \A l : row' = [row EXCEPT ![o].leg = l]
                 => \A x \in Orders : row'[x].status = row[x].status
BY DEF Row

-----------------------------------------------------------------------------
(* The steps of a placement after the decision. *)
LEMMA PlacingSafe ==
    ASSUME Inv,
           RiskCheck \/ PlaceEntry \/ PlaceFallback \/ PlaceLeg
    PROVE  Safe'
<1>1. job.pc \in PlaceSteps /\ job.phase = "place"
  BY DEF Inv, HandlerUpToDate, PlacingUpToDate, RiskCheck, PlaceEntry, PlaceFallback, PlaceLeg,
         PlaceSteps
<1>2. UNCHANGED <<sig, row>>
  BY DEF RiskCheck, PlaceEntry, PlaceFallback, PlaceLeg, exchange
<1>3. OneActivePerSymbol'
  BY <1>2, StillOneActive
<1>4. \/ Reject
      \/ \E pc \in PlaceSteps : Goto(pc)
      \/ job' = [job EXCEPT !.pc = "leg", !.entry = 1, !.need = Kinds]
      \/ job' = [job EXCEPT !.pc = "save", !.entry = 2]
      \/ \E pc \in PlaceSteps : \E k, m :
            job' = [job EXCEPT !.pc = pc, !.need = @ \ {k}, !.leg[k] = m]
  <2>1. {"entry", "fallback", "leg", "save"} \subseteq PlaceSteps
    BY DEF PlaceSteps
  <2>2. CASE RiskCheck \/ PlaceEntry \/ PlaceFallback
    BY <2>1, <2>2 DEF RiskCheck, PlaceEntry, PlaceFallback
  <2>3. CASE PlaceLeg
    <3> DEFINE k == NextLeg(job.need)
    <3>1. PICK n \in Fresh(job.o, k), r \in Outcome :
            IF r.res = "exc" THEN Reject
            ELSE job' = [job EXCEPT !.pc = IF job.need = {k} THEN "save" ELSE "leg",
                                    !.need = @ \ {k},
                                    !.leg[k] = IF r.res = "ok" THEN n ELSE 0]
      BY <2>3 DEF PlaceLeg
    <3> DEFINE pc == IF job.need = {k} THEN "save" ELSE "leg"
               m == IF r.res = "ok" THEN n ELSE 0
    <3>2. pc \in PlaceSteps
      BY <2>1
    <3>3. Reject \/ job' = [job EXCEPT !.pc = pc, !.need = @ \ {k}, !.leg[k] = m]
      BY <3>1
    <3> HIDE DEF k, pc, m
    <3> QED BY <3>2, <3>3
  <2> QED BY <2>2, <2>3
<1>5. Reject \/ (job'.pc \in PlaceSteps /\ job'.phase = job.phase /\ job'.o = job.o
                 /\ job'.todo = job.todo)
  BY <1>4 DEF Inv, TypeOK, Job, Goto, PlaceSteps
<1>6. HandlerUpToDate'
  BY <1>1, <1>2, <1>5, RejectUpToDate, PlacingGoesOn
<1> QED BY <1>3, <1>6 DEF Safe

(* A row is written for the order placed: PENDING, or a refusal. *)
LEMMA SavingSafe ==
    ASSUME Inv, SaveStatusRow \/ SaveOrder
    PROVE  Safe'
<1>1. job.o \in Orders /\ sig[job.o] # None /\ sig' = sig /\ job' = IdleJob
  BY DEF Inv, HandlerUpToDate, PlacingUpToDate, SaveStatusRow, SaveOrder, PlaceSteps
<1>2. \A x \in Orders \ {job.o} : row'[x].status = row[x].status
  BY <1>1, RowWrite DEF Inv, TypeOK, SaveStatusRow, SaveOrder
<1>3. HandlerUpToDate'
  BY <1>1, <1>2, IdleUpToDate DEF Inv, HandlerUpToDate, NoSignalNoRow
<1>4. OneActivePerSymbol'
  <2>1. CASE SaveStatusRow
    <3>1. row'[job.o].status \in Refused
      BY <1>1, <2>1, RowWrite
      DEF Inv, TypeOK, HandlerUpToDate, PlacingUpToDate, SaveStatusRow, NoRow
    <3>2. row'[job.o].status \notin Active
      BY <3>1 DEF Refused, Active
    <3> QED BY <1>1, <1>2, <3>2, StillOneActive
  <2>2. CASE SaveOrder
    <3>1. \A p \in Orders : row[p].status \in Active => Key(p) # Key(job.o)
      BY <2>2 DEF Inv, HandlerUpToDate, PlacingUpToDate, SaveOrder, PlaceSteps
    <3> QED BY <1>1, <1>2, <3>1 DEF Inv, OneActivePerSymbol, Key
  <2> QED BY <2>1, <2>2
<1> QED BY <1>3, <1>4 DEF Safe

(* The old order is cancelled, the legs of a closed row are. *)
LEMMA CancellingSafe ==
    ASSUME Inv, CancelBinanceOrder \/ CancelRemaining
    PROVE  Safe'
<1>1. Goto("mark") /\ UNCHANGED <<sig, row>>
  BY DEF CancelBinanceOrder, CancelRemaining
<1>2. job' = [job EXCEPT !.pc = "mark"] /\ job \in Job
  BY <1>1 DEF Goto, Inv, TypeOK
<1>3. /\ job'.pc = "mark" /\ job'.phase = job.phase /\ job'.todo = job.todo
      /\ job'.o = job.o /\ job'.tgt = job.tgt /\ job'.mark = job.mark
  BY <1>2 DEF Job
<1>4. job.pc \in {"cancel", "remaining"}
  BY DEF CancelBinanceOrder, CancelRemaining
<1>5. HandlerUpToDate'
  BY <1>1, <1>3, <1>4
  DEF Inv, HandlerUpToDate, PlacingUpToDate, MarkingUpToDate, LoopsUpToDate, PlaceSteps, Key
<1> QED BY <1>1, <1>5, StillOneActive DEF Safe

(* The row is marked: at the end of a loop's turn, or before the new order *)
(* is placed in its stead.                                                 *)
LEMMA MarkingSafe ==
    ASSUME Inv, MarkStatus
    PROVE  Safe'
<1>1. /\ job.pc = "mark" /\ job.tgt \in Orders /\ sig' = sig
      /\ row' = [row EXCEPT ![job.tgt].status = job.mark]
  BY DEF MarkStatus, Inv, HandlerUpToDate, MarkingUpToDate
<1>2. /\ row'[job.tgt].status = job.mark
      /\ \A x \in Orders \ {job.tgt} : row'[x].status = row[x].status
  BY <1>1, RowWrite DEF Inv, TypeOK
<1>3. row[job.tgt].status \in Active /\ job.mark \notin Active
  BY <1>1 DEF Inv, HandlerUpToDate, MarkingUpToDate, Active, Closed
<1>4. NoSignalNoRow'
  BY <1>1, <1>2, <1>3 DEF Inv, HandlerUpToDate, NoSignalNoRow, Active
<1>5. HandlerUpToDate'
  <2>1. CASE job.phase # "place"
    BY <1>2, <1>4, <2>1, DoneUpToDate DEF MarkStatus
  <2>2. CASE job.phase = "place"
    <3>1. /\ job.o \in Orders /\ sig[job.o] # None /\ row[job.o].status = "NONE"
          /\ Key(job.tgt) = Key(job.o) /\ job.mark \in {"REPLACED", "DIRECTION_CONFLICT"}
      BY <1>1, <2>2 DEF Inv, HandlerUpToDate, PlacingUpToDate, MarkingUpToDate
    <3>2. row'[job.o].status = "NONE"
      BY <1>2, <1>3, <3>1 DEF Active
    <3>3. CASE job.mark = "DIRECTION_CONFLICT"
      BY <1>1, <1>4, <2>2, <3>1, <3>2, <3>3, RefusalUpToDate DEF MarkStatus, Refused
    <3>4. CASE job.mark = "REPLACED"
      <4>1. \A p \in Orders : row'[p].status \in Active => Key(p) # Key(job.o)
        BY <1>1, <1>2, <1>3, <3>1 DEF Inv, OneActivePerSymbol
      <4>2. job' = PlaceJob(job.o, job.strat, "risk", None, "NONE")
        BY <2>2, <3>4 DEF MarkStatus
      <4> QED BY <1>1, <1>4, <3>1, <3>2, <4>1, <4>2, JobShapes
          DEF NoSignalNoRow, HandlerUpToDate, PlacingUpToDate, MarkingUpToDate, LoopsUpToDate,
              PlaceSteps, Key
    <3> QED BY <3>1, <3>3, <3>4
  <2> QED BY <2>1, <2>2
<1> QED BY <1>1, <1>2, <1>3, <1>5, StillOneActive DEF Safe

(* The loops of the two tasks, and the rows they leave as they are. *)
LEMMA LoopsSafe ==
    ASSUME Inv,
           \/ NextPhase \/ StartCleanup \/ \E s \in Strategies : StartSync(s)
           \/ \E o \in Orders : KeepPending(o) \/ Expire(o) \/ CleanRow(o)
    PROVE  Safe'
<1>1. NoSignalNoRow /\ row \in [Orders -> Row]
  BY DEF Inv, TypeOK, HandlerUpToDate, NoSignalNoRow
<1>2. ASSUME \/ NextPhase \/ StartCleanup \/ \E s \in Strategies : StartSync(s)
      PROVE  HandlerUpToDate'
  <2>1. UNCHANGED <<sig, row>>
    BY <1>2 DEF NextPhase, StartCleanup, StartSync
  <2>2. \/ job' = IdleJob
        \/ \E s : \/ job' = Pass("pending", s, Rows("PENDING", s))
                  \/ job' = Pass("filled", s, Rows("FILLED", s))
                  \/ job' = Pass("expire", s, Rows("PENDING", s))
        \/ \E todo : job' = Pass("clean", None, todo)
    BY <1>2 DEF NextPhase, StartCleanup, StartSync
  <2>3. \A st, s : \A o \in Rows(st, s) : row[o].status = st
    BY DEF Rows
  <2>4. NoSignalNoRow'
    BY <1>1, <2>1 DEF NoSignalNoRow
  <2>5. {"pending", "filled", "expire", "clean"} \subseteq Phases \ {"place"}
    BY DEF Phases
  <2>6. CASE job' = IdleJob
    BY <2>4, <2>6, IdleUpToDate
  <2>7. ASSUME NEW s, NEW ph \in {"pending", "expire"}, job' = Pass(ph, s, Rows("PENDING", s))
        PROVE  HandlerUpToDate'
    BY <2>1, <2>3, <2>4, <2>5, <2>7, PassUpToDate
  <2>8. ASSUME NEW s, job' = Pass("filled", s, Rows("FILLED", s))
        PROVE  HandlerUpToDate'
    BY <2>1, <2>3, <2>4, <2>5, <2>8, PassUpToDate
  <2>9. ASSUME NEW todo, job' = Pass("clean", None, todo)
        PROVE  HandlerUpToDate'
    BY <2>4, <2>5, <2>9, PassUpToDate
  <2> QED BY <2>2, <2>6, <2>7, <2>8, <2>9
<1>3. ASSUME NEW o \in Orders, KeepPending(o) \/ CleanRow(o)
      PROVE  HandlerUpToDate' /\ \A x \in Orders : row'[x].status = row[x].status
  <2>1. sig' = sig /\ Done(o) /\ job.phase # "place"
    BY <1>3 DEF KeepPending, CleanRow, InPhase
  <2>2. \A x \in Orders : row'[x].status = row[x].status
    BY <1>1, <1>3, RowWrite DEF KeepPending, CleanRow
  <2> QED BY <1>1, <2>1, <2>2, DoneUpToDate DEF NoSignalNoRow
<1>4. ASSUME NEW o \in Orders, Expire(o)
      PROVE  HandlerUpToDate'
  <2>1. /\ row[o].status = "PENDING" /\ job.phase = "expire" /\ UNCHANGED <<sig, row>>
    BY <1>4 DEF Expire, InPhase, Inv, HandlerUpToDate, LoopsUpToDate
  <2>2. /\ job'.pc = "cancel" /\ job'.phase = job.phase /\ job'.todo = job.todo
        /\ job'.tgt = o /\ job'.mark = "CANCELED_EXPIRED"
    BY <1>4 DEF Expire, Inv, TypeOK, Job
  <2> QED BY <2>1, <2>2
      DEF Inv, HandlerUpToDate, PlacingUpToDate, MarkingUpToDate, LoopsUpToDate, PlaceSteps
<1>5. HandlerUpToDate'
  BY <1>2, <1>3, <1>4
<1>6. OneActivePerSymbol'
  <2>1. sig' = sig /\ \A x \in Orders : row'[x].status = row[x].status
    BY <1>3 DEF NextPhase, StartCleanup, StartSync, KeepPending, CleanRow, Expire
  <2> QED BY <2>1, StillOneActive
<1> QED BY <1>5, <1>6 DEF Safe

(* A handler starts to attach legs to the row whose turn it is. *)
LEMMA AttachUpToDate ==
    ASSUME Inv, NEW o \in Orders, NEW qty, StartAttach(o, qty), UNCHANGED <<sig, row>>,
           InPhase("pending", o) \/ InPhase("filled", o)
    PROVE  HandlerUpToDate'
<1>1. /\ job'.pc = "attach" /\ job'.phase = job.phase /\ job'.todo = job.todo /\ job'.o = o
  BY DEF StartAttach, Inv, TypeOK, Job
<1>2. \/ job.phase = "pending" /\ row[o].status = "PENDING"
      \/ job.phase = "filled" /\ row[o].status = "FILLED"
  BY DEF InPhase, Inv, HandlerUpToDate, LoopsUpToDate
<1> QED BY <1>1, <1>2
    DEF Inv, HandlerUpToDate, PlacingUpToDate, MarkingUpToDate, LoopsUpToDate, PlaceSteps

(* Or to close it. *)
LEMMA CloseUpToDate ==
    ASSUME Inv, NEW o \in Orders, NEW mark \in Closed, NEW ks, CloseJob(o, mark, ks),
           UNCHANGED <<sig, row>>, InPhase("filled", o)
    PROVE  HandlerUpToDate'
<1>1. /\ job'.pc = "remaining" /\ job'.phase = job.phase /\ job'.todo = job.todo
      /\ job'.tgt = o /\ job'.mark = mark
  BY DEF CloseJob, Inv, TypeOK, Job
<1>2. job.phase = "filled" /\ row[o].status = "FILLED"
  BY DEF InPhase, Inv, HandlerUpToDate, LoopsUpToDate
<1> QED BY <1>1, <1>2
    DEF Inv, HandlerUpToDate, PlacingUpToDate, MarkingUpToDate, LoopsUpToDate, PlaceSteps

(* It goes on with that row while its status stays. *)
LEMMA AttachGoesOn ==
    ASSUME Inv, job.pc \in {"attach", "markFilled"}, job'.pc \in {"attach", "markFilled"},
           job'.phase = job.phase, job'.todo = job.todo, job'.o = job.o,
           job.phase = "pending" /\ job'.pc = "markFilled" => job'.need = {},
           sig' = sig, \A x \in Orders : row'[x].status = row[x].status
    PROVE  HandlerUpToDate'
<1>1. /\ job.o \in Orders
      /\ \/ job.phase = "pending" /\ row[job.o].status = "PENDING"
         \/ job.phase = "filled" /\ row[job.o].status = "FILLED"
  BY DEF Inv, HandlerUpToDate, LoopsUpToDate
<1>2. job.todo \subseteq Orders
  BY JobFields DEF Inv
<1> QED BY <1>1, <1>2
    DEF Inv, HandlerUpToDate, PlacingUpToDate, MarkingUpToDate, LoopsUpToDate, PlaceSteps

(* One attempt at a leg: the handler goes on, or is done with the row. *)
LEMMA AttachSafe ==
    ASSUME Inv, AttachLeg
    PROVE  Safe'
<1> DEFINE k == NextLeg(job.need)
<1>1. job.pc = "attach" /\ UNCHANGED <<sig, row>>
  BY DEF AttachLeg
<1>2. /\ job.o \in Orders
      /\ \/ job.phase = "pending" /\ row[job.o].status = "PENDING"
         \/ job.phase = "filled" /\ row[job.o].status = "FILLED"
  BY <1>1 DEF Inv, HandlerUpToDate, LoopsUpToDate
<1>3. \/ Done(job.o)
      \/ job' = [job EXCEPT !.tries = @ + 1]
      \/ \E m : LegSettled(k, m)
  BY DEF AttachLeg
<1>4. ASSUME Done(job.o) PROVE HandlerUpToDate'
  <2>1. NoSignalNoRow' /\ job.phase # "place"
    BY <1>1, <1>2 DEF Inv, HandlerUpToDate, NoSignalNoRow
  <2> QED BY <1>1, <1>4, <2>1, DoneUpToDate
<1>5. ASSUME job' = [job EXCEPT !.tries = @ + 1] PROVE HandlerUpToDate'
  <2>1. /\ job'.pc = "attach" /\ job'.phase = job.phase /\ job'.todo = job.todo /\ job'.o = job.o
    BY <1>1, <1>5 DEF Inv, TypeOK, Job
  <2> QED BY ONLY Inv, <1>1, <2>1, AttachGoesOn
<1>6. ASSUME NEW m, LegSettled(k, m), ~Done(job.o)
      PROVE  HandlerUpToDate'
  <2> DEFINE next == AfterAttach(job.need \ {k}, m # 0)
  <2>1. job' = [job EXCEPT !.pc = next, !.need = @ \ {k}, !.tries = 0, !.leg[k] = m]
    BY <1>6 DEF LegSettled
  <2>2. /\ job'.pc = next /\ job'.phase = job.phase /\ job'.todo = job.todo
        /\ job'.o = job.o /\ job'.need = job.need \ {k}
    <3> HIDE DEF next, k
    <3> QED BY <2>1 DEF Inv, TypeOK, Job
  <2>3. next # "pass"
    BY <1>6 DEF LegSettled
  <2>4. /\ next \in {"attach", "markFilled"}
        /\ job.phase = "pending" /\ next = "markFilled" => job'.need = {}
    BY <2>2, <2>3 DEF AfterAttach
  <2> HIDE DEF next
  <2> QED BY ONLY Inv, <1>1, <2>2, <2>4, AttachGoesOn
<1> QED BY <1>1, <1>3, <1>4, <1>5, <1>6, StillOneActive DEF Safe

(* The row becomes or stays FILLED, with the legs placed. *)
LEMMA MarkFilledSafe ==
    ASSUME Inv, MarkFilled
    PROVE  Safe'
<1>1. /\ job.pc = "markFilled" /\ sig' = sig /\ job.o \in Orders
      /\ \/ job.phase = "pending" /\ row[job.o].status = "PENDING" /\ job.need = {}
         \/ job.phase = "filled" /\ row[job.o].status = "FILLED"
  BY DEF MarkFilled, Inv, HandlerUpToDate, LoopsUpToDate
<1>2. /\ row'[job.o].status = "FILLED"
      /\ \A x \in Orders \ {job.o} : row'[x].status = row[x].status
  BY <1>1 DEF MarkFilled, Inv, TypeOK, Row
<1>3. NoSignalNoRow'
  BY <1>1, <1>2 DEF Inv, HandlerUpToDate, NoSignalNoRow
<1>4. ASSUME Done(job.o) PROVE HandlerUpToDate'
  <2>1. job.phase # "place"
    BY <1>1
  <2> QED BY ONLY Inv, <1>2, <1>3, <1>4, <2>1, DoneUpToDate
<1>5. ASSUME Goto("attach") /\ job.need # {} PROVE HandlerUpToDate'
  <2>1. /\ job'.pc = "attach" /\ job'.phase = job.phase /\ job'.todo = job.todo /\ job'.o = job.o
    BY <1>5 DEF Goto, Inv, TypeOK, Job
  <2>2. job.phase = "filled" /\ \A x \in Orders : row'[x].status = row[x].status
    BY <1>1, <1>2, <1>5
  <2> QED BY ONLY Inv, <1>1, <2>1, <2>2, AttachGoesOn
<1>6. HandlerUpToDate'
  <2>1. Done(job.o) \/ (Goto("attach") /\ job.need # {})
    BY DEF MarkFilled
  <2> QED BY ONLY <1>4, <1>5, <2>1
<1> QED BY <1>1, <1>2, <1>6, StillOneActive DEF Safe, Active

(* A row's turn in _sync_pending. *)
LEMMA SyncPendingSafe ==
    ASSUME Inv, NEW o \in Orders, SyncPending(o)
    PROVE  Safe'
<1>1. /\ InPhase("pending", o) /\ job.phase = "pending" /\ sig' = sig /\ row[o].status = "PENDING"
  BY DEF SyncPending, InPhase, Inv, HandlerUpToDate, LoopsUpToDate
<1>2. /\ row' = row \/ \E st : row' = [row EXCEPT ![o].status = st]
      /\ Done(o) \/ (row' = row /\ StartAttach(o, 1))
  BY DEF SyncPending
<1>3. \A x \in Orders \ {o} : row'[x].status = row[x].status
  BY <1>2, RowWrite DEF Inv, TypeOK
<1>4. NoSignalNoRow'
  BY <1>1, <1>3 DEF Inv, HandlerUpToDate, NoSignalNoRow
<1>5. HandlerUpToDate'
  BY <1>1, <1>2, <1>3, <1>4, DoneUpToDate, AttachUpToDate
<1> QED BY <1>1, <1>3, <1>5, StillOneActive DEF Safe, Active

(* A row's turn in _sync_filled. *)
LEMMA SyncFilledSafe ==
    ASSUME Inv, NEW o \in Orders, CheckNaked(o) \/ CheckLegs(o)
    PROVE  Safe'
<1>1. /\ InPhase("filled", o) /\ sig' = sig /\ NoSignalNoRow
      /\ {"CLOSED_SL", "CLOSED_TP", "MANUAL_CLOSED"} \subseteq Closed
  BY DEF CheckNaked, CheckLegs, Inv, HandlerUpToDate, NoSignalNoRow, Closed
<1>2. \/ row' = row /\ \E qty : StartAttach(o, qty)
      \/ row' = row /\ \E mark \in Closed, ks \in SUBSET Kinds : CloseJob(o, mark, ks)
      \/ Done(o) /\ \A x \in Orders : row'[x].status = row[x].status
  <2>1. CASE CheckNaked(o)
    BY <1>1, <2>1 DEF CheckNaked, Recorded
  <2>2. CASE CheckLegs(o)
    <3>1. \/ \E k \in Kinds : ClearLeg(o, k)
          \/ row' = row /\ CloseJob(o, "CLOSED_SL", {"TP"})
          \/ row' = row /\ CloseJob(o, "CLOSED_TP", {"SL"})
          \/ row' = row /\ Done(o)
      BY <2>2 DEF CheckLegs, Kinds
    <3>2. ASSUME NEW k \in Kinds, ClearLeg(o, k)
          PROVE  Done(o) /\ \A x \in Orders : row'[x].status = row[x].status
      <4>1. row' = [row EXCEPT ![o].leg = [row[o].leg EXCEPT ![k] = 0]]
        BY <3>2 DEF ClearLeg
      <4> QED BY <3>2, <4>1, RowWrite DEF ClearLeg, Inv, TypeOK
    <3>3. {"TP"} \in SUBSET Kinds /\ {"SL"} \in SUBSET Kinds
      BY DEF Kinds
    <3> QED BY <1>1, <3>1, <3>2, <3>3
  <2> QED BY <2>1, <2>2
<1>3. \A x \in Orders : row'[x].status = row[x].status
  BY <1>2
<1>4. HandlerUpToDate'
  <2>1. CASE Done(o)
    BY <1>1, <1>3, <2>1, DoneUpToDate DEF NoSignalNoRow, InPhase
  <2>2. CASE row' = row /\ \E qty : StartAttach(o, qty)
    BY <1>1, <2>2, AttachUpToDate
  <2>3. CASE row' = row /\ \E mark \in Closed, ks \in SUBSET Kinds : CloseJob(o, mark, ks)
    BY <1>1, <2>3, CloseUpToDate
  <2> QED BY <1>2, <2>1, <2>2, <2>3
<1> QED BY <1>1, <1>3, <1>4, StillOneActive DEF Safe

(* The signal is accepted for placement, blocked, or refused. *)
LEMMA TryPlaceSafe ==
    ASSUME Inv, NEW o \in Orders, NEW c \in Signals, TryPlace(o, c)
    PROVE  Safe'
<1>1. /\ sig[o] = None /\ c # None /\ row' = row /\ row[o].status = "NONE"
      /\ sig'[o] = c /\ \A x \in Orders \ {o} : sig'[x] = sig[x]
  BY ConstantsOK DEF TryPlace, Inv, TypeOK, HandlerUpToDate
<1>2. \A x \in Orders : row[x].status \in Active =>
         x # o /\ sig[x] # None /\ Key(x)' = Key(x)
  BY <1>1 DEF Inv, HandlerUpToDate, Active, Key
<1>3. OneActivePerSymbol'
  BY <1>1, <1>2 DEF Inv, OneActivePerSymbol
<1>4. NoSignalNoRow'
  BY <1>1 DEF Inv, HandlerUpToDate, NoSignalNoRow
<1>5. Key(o)' = <<c.strat, c.sym>>
  BY <1>1 DEF Key
<1>6. ASSUME NEW s, NEW mark \in Refused, job' = PlaceJob(o, s, "status", None, mark)
      PROVE  HandlerUpToDate'
  BY <1>1, <1>4, <1>6, RefusalUpToDate
<1>7. ASSUME NEW d \in Resolve(c, sig, RowsOf("PENDING", c.strat, c.sym),
                               RowsOf("FILLED", c.strat, c.sym), None),
             job' = AfterDecision(o, c.strat, d)
      PROVE  HandlerUpToDate'
  <2> DEFINE P == RowsOf("PENDING", c.strat, c.sym)
             F == RowsOf("FILLED", c.strat, c.sym)
  <2>1. /\ \A x \in P : /\ x \in Orders /\ row[x].status = "PENDING"
                        /\ Key(x) = <<c.strat, c.sym>>
        /\ \A x \in Orders : row[x].status \in Active /\ Key(x) = <<c.strat, c.sym>>
              => x \in P \cup F
    BY DEF RowsOf, Rows, Key, Active
  <2>2. \A x \in P : sig[x].price \in Nat \ {0}
    BY <1>2, <2>1, SignalType DEF Inv, Active
  <2> HIDE DEF P, F
  <2>3. /\ d.action \in {"PLACE", "REPLACE", "CANCEL_CONFLICT"} \cup DOMAIN StatusOf
        /\ d.action = "PLACE" => P = {} /\ F = {}
        /\ d.action \in {"REPLACE", "CANCEL_CONFLICT"} => d.old \in P
    BY <1>7, <2>2, ResolveAnswers DEF P, F
  <2>4. CASE d.action = "PLACE"
    <3>1. job' = PlaceJob(o, c.strat, "risk", None, "NONE")
      BY <1>7, <2>4 DEF AfterDecision
    <3>2. \A x \in Orders : row'[x].status \in Active => Key(x)' # Key(o)'
      BY <1>1, <1>2, <1>5, <2>1, <2>3, <2>4
    <3> QED BY <1>1, <1>4, <3>1, <3>2, JobShapes
        DEF NoSignalNoRow, HandlerUpToDate, PlacingUpToDate, MarkingUpToDate, LoopsUpToDate,
            PlaceSteps, Key
  <2>5. ASSUME NEW mark \in {"REPLACED", "DIRECTION_CONFLICT"},
               job' = PlaceJob(o, c.strat, "cancel", d.old, mark), d.old \in P
        PROVE  HandlerUpToDate'
    <3>1. /\ d.old \in Orders /\ row'[d.old].status = "PENDING" /\ Key(d.old)' = Key(o)'
      BY <1>1, <1>2, <1>5, <2>1, <2>5 DEF Active
    <3> QED BY <1>1, <1>4, <2>5, <3>1, JobShapes
        DEF NoSignalNoRow, HandlerUpToDate, PlacingUpToDate, MarkingUpToDate, LoopsUpToDate,
            PlaceSteps, Key
  <2>6. CASE d.action = "REPLACE"
    BY <1>7, <2>3, <2>5, <2>6 DEF AfterDecision
  <2>7. CASE d.action = "CANCEL_CONFLICT"
    BY <1>7, <2>3, <2>5, <2>7 DEF AfterDecision
  <2>8. CASE d.action \notin {"PLACE", "REPLACE", "CANCEL_CONFLICT"}
    <3>1. job' = PlaceJob(o, c.strat, "status", None, StatusOf[d.action])
      BY <1>7, <2>8 DEF AfterDecision
    <3>2. StatusOf[d.action] \in Refused
      BY <2>3, <2>8, StatusOfType
    <3> QED BY <1>6, <3>1, <3>2
  <2> QED BY <2>4, <2>6, <2>7, <2>8
<1>8. HandlerUpToDate'
  <2>1. "REJECTED" \in Refused
    BY DEF Refused
  <2> QED BY <1>6, <1>7, <2>1 DEF TryPlace
<1> QED BY <1>3, <1>8 DEF Safe

(* Nothing outside the engine writes live_orders; a crash only ends the    *)
(* handler.                                                                *)
LEMMA WorldSafe ==
    ASSUME Inv, World
    PROVE  Safe'
<1>1. UNCHANGED <<sig, row>> /\ (job' = job \/ job' = IdleJob)
  BY DEF World, FillEntry, DropEntry, TriggerLeg, DropLeg, ManualClose, SetLive, Crash, exchange
<1>2. OneActivePerSymbol'
  BY <1>1, StillOneActive
<1>3. CASE job' = job
  BY <1>1, <1>2, <1>3
  DEF Safe, Inv, HandlerUpToDate, PlacingUpToDate, MarkingUpToDate, LoopsUpToDate, Key
<1>4. CASE job' = IdleJob
  BY <1>1, <1>2, <1>4, IdleUpToDate DEF Safe, Inv, HandlerUpToDate, NoSignalNoRow
<1> QED BY <1>1, <1>3, <1>4

(* The invariant is inductive. *)
LEMMA InvStep == Inv /\ [Next]_vars => Inv'
<1> SUFFICES ASSUME Inv, [Next]_vars PROVE Inv'
  OBVIOUS
<1>1. TypeOK'
  BY TypeStep
<1>2. Safe'
  <2>1. CASE UNCHANGED vars
    BY <2>1
    DEF vars, exchange, Safe, Inv, OneActivePerSymbol, HandlerUpToDate, PlacingUpToDate,
        MarkingUpToDate, LoopsUpToDate, Key
  <2>2. CASE JobStep
    BY <2>2, PlacingSafe, SavingSafe, CancellingSafe, MarkingSafe, LoopsSafe, AttachSafe,
       MarkFilledSafe, SyncPendingSafe, SyncFilledSafe DEF JobStep
  <2>3. CASE StartCleanup \/ \E s \in Strategies : StartSync(s)
    BY <2>3, LoopsSafe
  <2>4. CASE \E o \in Orders, c \in Signals : TryPlace(o, c)
    BY <2>4, TryPlaceSafe
  <2>5. CASE World
    BY <2>5, WorldSafe
  <2> QED BY <2>1, <2>2, <2>3, <2>4, <2>5 DEF Next
<1> QED BY <1>1, <1>2 DEF Inv, Safe

-----------------------------------------------------------------------------
(* The state of the live mirror is always well typed, and with it every    *)
(* status written to live_orders is one of LiveOrderStatus.                *)
THEOREM TypeCorrect == Spec => []TypeOK
<1>1. Inv => TypeOK
  BY DEF Inv
<1> QED BY <1>1, InitInv, InvStep, PTL DEF Spec

(* No strategy ever has two orders at work on a symbol (no pyramiding, one *)
(* pending order), however calls to Binance fail and wherever it crashes.  *)
THEOREM OneOrderAtWork == Spec => []OneActivePerSymbol
<1>1. Inv => OneActivePerSymbol
  BY DEF Inv
<1> QED BY <1>1, InitInv, InvStep, PTL DEF Spec

(* No handler ever acts on a status that has become stale under it.        *)
THEOREM HandlersUpToDate == Spec => []HandlerUpToDate
<1>1. Inv => HandlerUpToDate
  BY DEF Inv
<1> QED BY <1>1, InitInv, InvStep, PTL DEF Spec

-----------------------------------------------------------------------------
(* The table implements the abstract lifecycle of its rows. *)

(* A row is written: the abstract status moves. *)
LEMMA StatusMoves ==
    ASSUME Inv, NEW o \in Orders, NEW from, NEW to, sig' = sig,
           row[o].status = from, row'[o].status \in to,
           \A x \in Orders \ {o} : row'[x].status = row[x].status
    PROVE  Lifecycle!Move(o, from, to)
<1>1. status[o] = from
  BY DEF status
<1>2. status' = [status EXCEPT ![o] = row'[o].status]
  BY DEF status
<1> QED BY <1>1, <1>2 DEF Lifecycle!Move, status

(* No status changes: the abstract state stutters. *)
LEMMA StatusStays ==
    ASSUME sig' = sig, \A x \in Orders : row'[x].status = row[x].status
    PROVE  UNCHANGED Lifecycle!vars
BY DEF Lifecycle!vars

(* The sets of statuses are those of the abstract lifecycle. *)
LEMMA SameSets ==
    /\ Lifecycle!Active = Active /\ Lifecycle!Withdrawn = Withdrawn
    /\ Lifecycle!Closed = Closed /\ Lifecycle!Refused = Refused
BY DEF Lifecycle!Active, Active, Lifecycle!Withdrawn, Withdrawn, Lifecycle!Closed, Closed,
       Lifecycle!Refused, Refused

(* Placing writes the order's own row, as a booking or a refusal. *)
LEMMA SavingRefines ==
    ASSUME Inv, SaveStatusRow \/ SaveOrder
    PROVE  Lifecycle!Next
<1>1. /\ job.o \in Orders /\ sig[job.o] # None /\ sig' = sig /\ row[job.o].status = "NONE"
  BY DEF Inv, HandlerUpToDate, PlacingUpToDate, SaveStatusRow, SaveOrder, PlaceSteps
<1>2. \A x \in Orders \ {job.o} : row'[x].status = row[x].status
  BY <1>1, RowWrite DEF Inv, TypeOK, SaveStatusRow, SaveOrder
<1>3. CASE SaveStatusRow
  <2>1. row'[job.o].status \in Refused
    BY <1>1, <1>3, RowWrite
    DEF Inv, TypeOK, HandlerUpToDate, PlacingUpToDate, SaveStatusRow, NoRow
  <2>2. PICK o \in Orders : o = job.o
    BY <1>1
  <2>3. Lifecycle!Move(o, "NONE", Refused)
    BY <1>1, <1>2, <2>1, <2>2, StatusMoves
  <2> QED BY <1>1, <2>2, <2>3, SameSets DEF Lifecycle!Next, Lifecycle!Refuse
<1>4. CASE SaveOrder
  <2>1. row'[job.o].status \in {"PENDING"}
    BY <1>1, <1>4, RowWrite DEF Inv, TypeOK, SaveOrder
  <2>2. PICK o \in Orders : o = job.o
    BY <1>1
  <2>3. Lifecycle!Move(o, "NONE", {"PENDING"})
    BY <1>1, <1>2, <2>1, <2>2, StatusMoves
  <2>4. \A p \in Orders : status[p] \in Active => ~Lifecycle!SameBook(o, p)
    <3>1. \A p \in Orders : row[p].status \in Active => Key(p) # Key(o)
      BY <1>4, <2>2 DEF Inv, HandlerUpToDate, PlacingUpToDate, SaveOrder, PlaceSteps
    <3> QED BY <3>1 DEF Lifecycle!SameBook, Key, status
  <2> QED BY <1>1, <2>2, <2>3, <2>4, SameSets DEF Lifecycle!Next, Lifecycle!Book, status
<1> QED BY <1>3, <1>4

(* Marking withdraws a pending row or closes a filled one. *)
LEMMA MarkingRefines ==
    ASSUME Inv, MarkStatus
    PROVE  Lifecycle!Next
<1>1. PICK o \in Orders : o = job.tgt
  BY DEF MarkStatus, Inv, HandlerUpToDate, MarkingUpToDate
<1>2. row' = [row EXCEPT ![o].status = job.mark] /\ sig' = sig
  BY <1>1 DEF MarkStatus
<1>3. /\ row'[o].status = job.mark
      /\ \A x \in Orders \ {o} : row'[x].status = row[x].status
  BY <1>2, RowWrite DEF Inv, TypeOK
<1>4. \/ row[o].status = "PENDING" /\ job.mark \in Withdrawn
      \/ row[o].status = "FILLED" /\ job.mark \in Closed
  BY <1>1 DEF MarkStatus, Inv, HandlerUpToDate, MarkingUpToDate, Withdrawn
<1>5. Lifecycle!Move(o, "PENDING", Withdrawn) \/ Lifecycle!Move(o, "FILLED", Closed)
  BY <1>2, <1>3, <1>4, StatusMoves
<1> QED BY <1>5, SameSets DEF Lifecycle!Next, Lifecycle!Withdraw, Lifecycle!Close

(* Syncing a pending row fills or withdraws it, or leaves it. *)
LEMMA SyncPendingRefines ==
    ASSUME Inv, NEW o \in Orders, SyncPending(o)
    PROVE  Lifecycle!Next \/ UNCHANGED Lifecycle!vars
<1>1. sig' = sig /\ row[o].status = "PENDING"
  BY DEF SyncPending, InPhase, Inv, HandlerUpToDate, LoopsUpToDate
<1>2. \/ row' = row
      \/ row' = [row EXCEPT ![o].status = "FILLED"]
      \/ row' = [row EXCEPT ![o].status = "CANCELED"]
  BY DEF SyncPending
<1>3. CASE row' = row
  BY <1>1, <1>3, StatusStays
<1>4. CASE row' = [row EXCEPT ![o].status = "FILLED"]
  <2>1. /\ row'[o].status \in {"FILLED"}
        /\ \A x \in Orders \ {o} : row'[x].status = row[x].status
    BY <1>4, RowWrite DEF Inv, TypeOK
  <2>2. Lifecycle!Move(o, "PENDING", {"FILLED"})
    BY <1>1, <2>1, StatusMoves
  <2> QED BY <2>2 DEF Lifecycle!Next, Lifecycle!Fill
<1>5. CASE row' = [row EXCEPT ![o].status = "CANCELED"]
  <2>1. /\ row'[o].status \in Withdrawn
        /\ \A x \in Orders \ {o} : row'[x].status = row[x].status
    BY <1>5, RowWrite DEF Inv, TypeOK, Withdrawn
  <2>2. Lifecycle!Move(o, "PENDING", Withdrawn)
    BY <1>1, <2>1, StatusMoves
  <2> QED BY <2>2, SameSets DEF Lifecycle!Next, Lifecycle!Withdraw
<1> QED BY <1>2, <1>3, <1>4, <1>5

(* A row gets its legs: filled by that, or filled already. *)
LEMMA MarkFilledRefines ==
    ASSUME Inv, MarkFilled
    PROVE  Lifecycle!Next \/ UNCHANGED Lifecycle!vars
<1>1. PICK o \in Orders : o = job.o
  BY DEF MarkFilled, Inv, HandlerUpToDate, LoopsUpToDate
<1>2. /\ sig' = sig /\ row[o].status \in {"PENDING", "FILLED"}
      /\ row'[o].status \in {"FILLED"}
      /\ \A x \in Orders \ {o} : row'[x].status = row[x].status
  BY <1>1 DEF MarkFilled, Inv, HandlerUpToDate, LoopsUpToDate, TypeOK, Row
<1>3. CASE row[o].status = "FILLED"
  BY <1>2, <1>3, StatusStays
<1>4. CASE row[o].status = "PENDING"
  <2>1. Lifecycle!Move(o, "PENDING", {"FILLED"})
    BY <1>2, <1>4, StatusMoves
  <2> QED BY <2>1 DEF Lifecycle!Next, Lifecycle!Fill
<1> QED BY <1>2, <1>3, <1>4

(* A new signal gets its live_order_id. *)
LEMMA TryPlaceRefines ==
    ASSUME Inv, NEW o \in Orders, NEW c \in Signals, TryPlace(o, c)
    PROVE  Lifecycle!Next
<1>1. /\ sig[o] = None /\ row' = row /\ sig' = [sig EXCEPT ![o] = c]
      /\ row[o].status = "NONE"
  BY DEF TryPlace, Inv, HandlerUpToDate
<1> QED BY <1>1 DEF Lifecycle!Next, Lifecycle!Receive

(* No other step touches a signal or a status. *)
LEMMA OthersStutter ==
    ASSUME Inv,
           \/ CancelBinanceOrder \/ RiskCheck \/ PlaceEntry \/ PlaceFallback \/ PlaceLeg
           \/ NextPhase \/ AttachLeg \/ CancelRemaining \/ StartCleanup \/ World
           \/ \E s \in Strategies : StartSync(s)
           \/ \E o \in Orders : \/ CheckNaked(o) \/ CheckLegs(o) \/ Expire(o)
                                \/ KeepPending(o) \/ CleanRow(o)
    PROVE  UNCHANGED Lifecycle!vars
<1>1. CASE \E o \in Orders : CheckLegs(o)
  <2>1. PICK o \in Orders : CheckLegs(o)
    BY <1>1
  <2>2. sig' = sig /\ (row' = row \/ \E k \in Kinds : ClearLeg(o, k))
    BY <2>1 DEF CheckLegs, Kinds
  <2>3. ASSUME NEW k \in Kinds, ClearLeg(o, k)
        PROVE  \A x \in Orders : row'[x].status = row[x].status
    <3>1. row' = [row EXCEPT ![o].leg = [row[o].leg EXCEPT ![k] = 0]]
      BY <2>3 DEF ClearLeg
    <3> QED BY <3>1, RowWrite DEF Inv, TypeOK
  <2> QED BY <2>2, <2>3, StatusStays
<1>2. CASE \E o \in Orders : CleanRow(o)
  <2>1. PICK o \in Orders : CleanRow(o)
    BY <1>2
  <2>2. sig' = sig /\ \A x \in Orders : row'[x].status = row[x].status
    BY <2>1, RowWrite DEF CleanRow, Inv, TypeOK
  <2> QED BY <2>2, StatusStays
<1>3. CASE \/ CancelBinanceOrder \/ RiskCheck \/ PlaceEntry \/ PlaceFallback \/ PlaceLeg
           \/ NextPhase \/ AttachLeg \/ CancelRemaining \/ StartCleanup \/ World
           \/ \E s \in Strategies : StartSync(s)
           \/ \E o \in Orders : CheckNaked(o) \/ Expire(o) \/ KeepPending(o)
  <2>1. UNCHANGED <<sig, row>>
    BY <1>3
    DEF CancelBinanceOrder, RiskCheck, PlaceEntry, PlaceFallback, PlaceLeg, NextPhase, AttachLeg,
        CancelRemaining, StartCleanup, StartSync, CheckNaked, Expire, KeepPending, World,
        FillEntry, DropEntry, TriggerLeg, DropLeg, ManualClose, SetLive, Crash
  <2> QED BY <2>1, StatusStays
<1> QED BY <1>1, <1>2, <1>3

(* Every row goes through the abstract lifecycle, one row per step: no     *)
(* terminal row is written again and no order is at work next to another.  *)
THEOREM LifecycleImplemented == Spec => ImplementsLifecycle
<1>1. Init => Lifecycle!Init
  BY DEF Init, Lifecycle!Init, NoRow
<1>2. Inv /\ [Next]_vars => [Lifecycle!Next]_Lifecycle!vars
  <2> SUFFICES ASSUME Inv, [Next]_vars PROVE Lifecycle!Next \/ UNCHANGED Lifecycle!vars
    OBVIOUS
  <2>1. CASE UNCHANGED vars
    BY <2>1, StatusStays DEF vars
  <2>2. CASE \E o \in Orders, c \in Signals : TryPlace(o, c)
    BY <2>2, TryPlaceRefines
  <2>3. CASE JobStep
    BY <2>3, SavingRefines, MarkingRefines, SyncPendingRefines, MarkFilledRefines, OthersStutter
    DEF JobStep
  <2>4. CASE StartCleanup \/ World \/ \E s \in Strategies : StartSync(s)
    BY <2>4, OthersStutter
  <2> QED BY <2>1, <2>2, <2>3, <2>4 DEF Next
<1> QED BY <1>1, <1>2, InitInv, InvStep, PTL DEF Spec, ImplementsLifecycle, Lifecycle!Spec

-----------------------------------------------------------------------------
(***************************************************************************)
(* What live_orders says of the exchange, for every set of orders,         *)
(* strategies and symbols and every limit: the cap on open entries, what a *)
(* FILLED or closed row stands for, and that no order or leg is forgotten. *)
(*                                                                         *)
(* None of the three is inductive.  The cap needs that a count is taken    *)
(* before every entry (Cap); a status needs that the handler's reason for  *)
(* it still holds when it is written (Warranted); and to say that an id is *)
(* known one must say what the handler holds at each step (Books), up to   *)
(* the step that hands it over to the row (Tracked).                       *)
(***************************************************************************)
-----------------------------------------------------------------------------
(* What the steps do to a single entry or leg of the exchange. *)

AtWork == {"open", "partial"}

(* No entry or leg opens, and what is filled stays so. *)
Closing ==
    /\ \A o \in Orders, n \in Attempts :
          /\ ent'[o][n] \in AtWork => ent[o][n] \in AtWork
          /\ ent[o][n] = "filled" => ent'[o][n] = "filled"
    /\ \A o \in Orders, k \in Kinds, n \in LegIds :
          /\ leg'[o][k][n].st = "open" => leg[o][k][n].st = "open"
          /\ leg[o][k][n].st = "filled" => leg'[o][k][n].st = "filled"

(* Cancelling an entry opens none and undoes no fill; a cancel that takes *)
(* effect leaves nothing of the entry.                                    *)
LEMMA EntryCancelled ==
    ASSUME TypeOK, NEW x \in Orders, NEW m, NEW hit \in BOOLEAN, CancelEntry(x, m, hit),
           NEW o \in Orders, NEW n \in Attempts
    PROVE  /\ ent'[o][n] \in AtWork => ent[o][n] \in AtWork
           /\ ent[o][n] = "filled" => ent'[o][n] = "filled"
           /\ hit /\ x = o /\ m = n => ent'[o][n] \notin AtWork
BY DEF TypeOK, CancelEntry, AtWork

(* Placing an entry changes that entry alone. *)
LEMMA EntryOpened ==
    ASSUME TypeOK, NEW x \in Orders, NEW m \in Attempts, ent' = [ent EXCEPT ![x][m] = "open"],
           NEW o \in Orders, NEW n \in Attempts
    PROVE  ent'[o][n] = IF o = x /\ n = m THEN "open" ELSE ent[o][n]
BY DEF TypeOK

(* Fills and manual cancels open no entry and undo no fill. *)
LEMMA EntryMoves ==
    ASSUME TypeOK, NEW x \in Orders, NEW m \in Attempts, FillEntry(x, m) \/ DropEntry(x, m),
           NEW o \in Orders, NEW n \in Attempts
    PROVE  /\ ent'[o][n] \in AtWork => ent[o][n] \in AtWork
           /\ ent[o][n] = "filled" => ent'[o][n] = "filled"
<1>1. /\ ent[x][m] \in AtWork
      /\ \E st \in {"partial", "filled", "absent"} : ent' = [ent EXCEPT ![x][m] = st]
  BY DEF FillEntry, DropEntry, AtWork
<1>2. ent \in [Orders -> [Attempts -> EntryStates]]
  BY DEF TypeOK
<1> QED BY <1>1, <1>2 DEF AtWork

(* Cancelling takes the recorded open legs of one order off. *)
LEMMA LegsCancelled ==
    ASSUME TypeOK, NEW x \in Orders, NEW ks, CancelLegs(x, ks),
           NEW o \in Orders, NEW k \in Kinds, NEW n \in LegIds
    PROVE  leg'[o][k][n] = IF o = x /\ k \in ks /\ n = row[x].leg[k] /\ leg[o][k][n].st = "open"
                           THEN NoLeg ELSE leg[o][k][n]
BY DEF TypeOK, CancelLegs

(* Writing one leg changes that leg alone. *)
LEMMA LegOpened ==
    ASSUME TypeOK, NEW x \in Orders, NEW j \in Kinds, NEW m \in LegIds, NEW v,
           leg' = [leg EXCEPT ![x][j][m] = v],
           NEW o \in Orders, NEW k \in Kinds, NEW n \in LegIds
    PROVE  leg'[o][k][n] = IF o = x /\ k = j /\ n = m THEN v ELSE leg[o][k][n]
<1>1. leg' = [leg EXCEPT ![x] = [leg[x] EXCEPT ![j] = [leg[x][j] EXCEPT ![m] = v]]]
  BY DEF TypeOK
<1> QED BY <1>1 DEF TypeOK

(* Outside the engine nothing opens either. *)
LEMMA WorldCloses ==
    ASSUME TypeOK, World
    PROVE  Closing
<1>1. ASSUME NEW x \in Orders, NEW m \in Attempts, FillEntry(x, m) \/ DropEntry(x, m)
      PROVE  Closing
  <2>1. leg' = leg
    BY <1>1 DEF FillEntry, DropEntry
  <2> QED BY <1>1, <2>1, EntryMoves DEF Closing
<1>2. ASSUME NEW x \in Orders, NEW j \in Kinds, NEW m \in LegIds,
             TriggerLeg(x, j, m) \/ DropLeg(x, j, m)
      PROVE  Closing
  <2>1. /\ ent' = ent /\ leg[x][j][m].st = "open"
        /\ \/ leg' = [leg EXCEPT ![x][j][m] = [st |-> "filled", qty |-> 0]]
           \/ leg' = [leg EXCEPT ![x][j][m] = NoLeg]
    BY <1>2 DEF TriggerLeg, DropLeg
  <2> QED BY <2>1, LegOpened DEF Closing, NoLeg
<1>3. CASE \/ \E sym \in Symbols, d \in Directions : ManualClose(sym, d)
           \/ \E s \in Strategies : SetLive(s)
           \/ Crash
  BY <1>3 DEF ManualClose, SetLive, Crash, exchange, Closing
<1> QED BY <1>1, <1>2, <1>3 DEF World

(* All steps close, but for the calls that place an entry or a leg. *)
LEMMA ClosingSteps ==
    ASSUME Inv, [Next]_vars, ~(PlaceEntry \/ PlaceFallback \/ PlaceLeg \/ AttachLeg)
    PROVE  Closing
<1>1. TypeOK
  BY DEF Inv
<1>2. CASE UNCHANGED <<ent, leg>>
  BY <1>2 DEF Closing
<1>3. CASE CancelBinanceOrder
  <2>1. job.tgt \in Orders
    BY <1>3 DEF CancelBinanceOrder, Inv, HandlerUpToDate, MarkingUpToDate
  <2>2. PICK failed : CancelEntry(job.tgt, row[job.tgt].entry, "ENTRY" \notin failed)
                      /\ CancelLegs(job.tgt, Recorded(job.tgt) \ failed)
    BY <1>3 DEF CancelBinanceOrder
  <2>3. PICK t \in Orders : t = job.tgt
    BY <2>1
  <2>4. \E hit \in BOOLEAN : CancelEntry(t, row[t].entry, hit)
    BY <2>2, <2>3 DEF CancelEntry
  <2>5. \A o \in Orders, n \in Attempts :
            /\ ent'[o][n] \in AtWork => ent[o][n] \in AtWork
            /\ ent[o][n] = "filled" => ent'[o][n] = "filled"
    BY <1>1, <2>4, EntryCancelled
  <2>6. PICK ks : CancelLegs(t, ks)
    BY <2>2, <2>3
  <2> QED BY <1>1, <2>5, <2>6, LegsCancelled DEF Closing, NoLeg
<1>4. CASE CancelRemaining \/ \E x \in Orders : CleanRow(x)
  <2>1. PICK x \in Orders : \E ks : CancelLegs(x, ks)
    BY <1>4 DEF CancelRemaining, CleanRow, Inv, HandlerUpToDate, MarkingUpToDate
  <2>2. ent' = ent
    BY <1>4 DEF CancelRemaining, CleanRow
  <2> QED BY <1>1, <2>1, <2>2, LegsCancelled DEF Closing, NoLeg
<1>5. CASE World
  BY <1>1, <1>5, WorldCloses
<1>6. CASE \/ MarkStatus \/ SaveStatusRow \/ RiskCheck \/ SaveOrder \/ NextPhase \/ MarkFilled
           \/ StartCleanup \/ UNCHANGED vars
           \/ \E s \in Strategies : StartSync(s)
           \/ \E o \in Orders, c \in Signals : TryPlace(o, c)
           \/ \E o \in Orders : \/ SyncPending(o) \/ CheckNaked(o) \/ CheckLegs(o)
                                \/ Expire(o) \/ KeepPending(o)
  <2>1. UNCHANGED exchange \/ UNCHANGED vars
    BY <1>6 DEF MarkStatus, SaveStatusRow, RiskCheck, SaveOrder, NextPhase, MarkFilled,
                StartCleanup, StartSync, TryPlace, SyncPending, CheckNaked, CheckLegs, Expire,
                KeepPending
  <2> QED BY <1>2, <2>1 DEF exchange, vars
<1> QED BY <1>3, <1>4, <1>5, <1>6 DEF Next, JobStep

(* The calls that place an entry: that of the order being placed. *)
LEMMA EntryPlaced ==
    ASSUME Inv, PlaceEntry \/ PlaceFallback
    PROVE  /\ leg' = leg
           /\ \E n \in Attempts : \A o \in Orders, m \in Attempts :
                 ent'[o][m] # ent[o][m] => o = job.o /\ m = n /\ ent'[o][m] = "open"
<1>1. TypeOK /\ job.o \in Orders
  BY DEF Inv, HandlerUpToDate, PlacingUpToDate, PlaceEntry, PlaceFallback, PlaceSteps
<1>2. PICK n \in Attempts : ent' = ent \/ ent' = [ent EXCEPT ![job.o][n] = "open"]
  <2>1. 1 \in Attempts /\ 2 \in Attempts
    BY DEF Attempts
  <2> QED BY <2>1 DEF PlaceEntry, PlaceFallback
<1>3. \A o \in Orders, m \in Attempts :
          ent'[o][m] # ent[o][m] => o = job.o /\ m = n /\ ent'[o][m] = "open"
  BY <1>1, <1>2, EntryOpened
<1> QED BY <1>3 DEF PlaceEntry, PlaceFallback

(* The calls that place a leg: a fresh one of the order handled. *)
LEMMA LegPlaced ==
    ASSUME Inv, PlaceLeg \/ AttachLeg, job.need # {}
    PROVE  /\ ent' = ent /\ job.o \in Orders /\ NextLeg(job.need) \in job.need
           /\ \/ leg' = leg
              \/ \E n \in Fresh(job.o, NextLeg(job.need)) :
                    \A o \in Orders, k \in Kinds, m \in LegIds :
                       leg'[o][k][m].st
                           = IF o = job.o /\ k = NextLeg(job.need) /\ m = n
                             THEN "open" ELSE leg[o][k][m].st
<1>1. TypeOK /\ job.o \in Orders /\ job.need \in SUBSET Kinds
  BY JobFields DEF Inv, HandlerUpToDate, PlacingUpToDate, LoopsUpToDate, PlaceLeg, AttachLeg,
                   PlaceSteps
<1>2. NextLeg(job.need) \in job.need
  BY <1>1 DEF NextLeg, Kinds
<1>3. leg' = leg \/ \E n \in Fresh(job.o, NextLeg(job.need)), qty \in {1, job.qty} :
                       OpenLeg(job.o, NextLeg(job.need), n, qty)
  BY DEF PlaceLeg, AttachLeg
<1>4. ASSUME NEW n \in Fresh(job.o, NextLeg(job.need)), NEW qty,
             OpenLeg(job.o, NextLeg(job.need), n, qty)
      PROVE  \A o \in Orders, k \in Kinds, m \in LegIds :
                 leg'[o][k][m].st = IF o = job.o /\ k = NextLeg(job.need) /\ m = n
                                    THEN "open" ELSE leg[o][k][m].st
  <2>1. n \in LegIds /\ NextLeg(job.need) \in Kinds
    BY <1>1, <1>2 DEF Fresh
  <2>2. PICK v : v.st = "open" /\ leg' = [leg EXCEPT ![job.o][NextLeg(job.need)][n] = v]
    BY <1>4 DEF OpenLeg
  <2>3. PICK x \in Orders, j \in Kinds : x = job.o /\ j = NextLeg(job.need)
    BY <1>1, <2>1
  <2>4. \A o \in Orders, k \in Kinds, m \in LegIds :
            leg'[o][k][m] = IF o = x /\ k = j /\ m = n THEN v ELSE leg[o][k][m]
    <3>1. leg' = [leg EXCEPT ![x] = [leg[x] EXCEPT ![j] = [leg[x][j] EXCEPT ![n] = v]]]
      BY <1>1, <2>2, <2>3 DEF TypeOK
    <3> QED BY <1>1, <2>1, <3>1 DEF TypeOK
  <2> QED BY <2>2, <2>3, <2>4
<1> QED BY <1>1, <1>2, <1>3, <1>4 DEF PlaceLeg, AttachLeg

-----------------------------------------------------------------------------
(* Where the handler under way can be next, and what it then holds. *)

Resting == {"idle", "pass", "status", "risk", "cancel"}

(* The handler has nothing to place, or starts from scratch. *)
Rests == job'.pc \in Resting /\ (job'.pc = "risk" => job'.entry = 0 /\ job'.leg = NoLegs)

(* It goes on with the same order, or the same row to mark. *)
SameOrder == job'.o = job.o /\ job'.phase = job.phase
SameMark  == job'.tgt = job.tgt /\ job'.mark = job.mark /\ job'.phase = job.phase

Withdrawing == (CancelBinanceOrder \/ CancelRemaining) /\ job'.pc = "mark" /\ SameMark
CloseStarts ==
    \E o \in Orders :
        /\ InPhase("filled", o) /\ row[o].status = "FILLED"
        /\ job'.pc = "remaining" /\ job'.tgt = o /\ job'.phase = "filled"
        /\ UNCHANGED <<row, leg>>
        /\ \/ job'.mark = "MANUAL_CLOSED"
           \/ job'.mark = "CLOSED_SL" /\ Recorded(o) = Kinds /\ LegOf(o, "SL").st = "filled"
           \/ job'.mark = "CLOSED_TP" /\ Recorded(o) = Kinds /\ LegOf(o, "TP").st = "filled"
PlacingMoves ==
    /\ SameOrder
    /\ \/ RiskCheck /\ job'.pc = "entry" /\ job'.entry = job.entry /\ job'.leg = job.leg
       \/ PlaceEntry /\ job'.pc = "fallback" /\ job'.entry = job.entry /\ job'.leg = job.leg
                     /\ used'.faults > 0
       \/ PlaceEntry /\ job'.pc = "leg" /\ job'.entry = 1 /\ job'.need = Kinds
                     /\ job'.leg = job.leg
       \/ PlaceFallback /\ job'.pc = "save" /\ job'.entry = 2 /\ job'.leg = job.leg
LegMoves(k, n) ==
    /\ SameOrder /\ job'.entry = job.entry
    /\ job'.need = job.need \ {k} /\ job'.leg = [job.leg EXCEPT ![k] = n]
AttachStarts ==
    \E o \in Orders :
        /\ SyncPending(o) \/ CheckNaked(o)
        /\ EntryOf(o) = "filled" \/ row[o].status = "FILLED"
        /\ UNCHANGED <<row, exchange>>
        /\ job'.pc = "attach" /\ job'.phase = job.phase /\ job'.o = o
        /\ job'.need = Kinds \ Recorded(o) /\ Recorded(o) # Kinds /\ job'.leg = row[o].leg

LegPlacing ==
    /\ PlaceLeg /\ job'.pc \in {"leg", "save"}
    /\ job.need # {} /\ job'.pc = "leg" => job'.need # {}
    /\ \E m \in LegIds0 : LegMoves(NextLeg(job.need), m)
Attaching ==
    /\ AttachLeg
    /\ \/ /\ SameOrder /\ job'.pc = "attach" /\ job'.need = job.need /\ job'.leg = job.leg
          /\ used'.faults > 0
       \/ \E m \in LegIds0 :
             /\ LegMoves(NextLeg(job.need), m)
             /\ \/ job'.pc = "attach" /\ job'.need # {} /\ (job.phase = "filled" => m = 0)
                \/ job'.pc = "markFilled"
AttachGoesOnAfterMark ==
    /\ MarkFilled /\ SameOrder /\ job'.pc = "attach" /\ job.need # {}
    /\ job'.need = job.need /\ job'.leg = job.leg

(* The handlers the engine starts hold no exchange id. *)
LEMMA RestShapes ==
    /\ job' = IdleJob => Rests
    /\ \A phase, s, todo : job' = Pass(phase, s, todo) => Rests
    /\ \A o, s, old, mark : \A pc \in {"status", "risk", "cancel"} :
          job' = PlaceJob(o, s, pc, old, mark) => Rests
    /\ \A o : Done(o) => Rests
    /\ Reject => Rests
<1>1. /\ IdleJob.pc = "idle"
      /\ \A phase, s, todo : Pass(phase, s, todo).pc = "pass"
      /\ \A o, s, pc, old, mark : /\ PlaceJob(o, s, pc, old, mark).pc = pc
                                  /\ PlaceJob(o, s, pc, old, mark).entry = 0
                                  /\ PlaceJob(o, s, pc, old, mark).leg = NoLegs
  BY DEF IdleJob, Pass, PlaceJob
<1> QED BY <1>1 DEF Done, Reject, Rests, Resting

(* Placing: each call of try_place, and each leg. *)
LEMMA PlacingMove ==
    ASSUME Inv, RiskCheck \/ PlaceEntry \/ PlaceFallback
    PROVE  Rests \/ PlacingMoves
<1>1. job \in Job /\ used.faults \in Nat
  BY DEF Inv, TypeOK
<1>2. CASE RiskCheck
  <2>1. Goto("entry") \/ Reject
    BY <1>2 DEF RiskCheck
  <2>2. ASSUME Goto("entry") PROVE PlacingMoves
    BY <1>1, <1>2, <2>2 DEF Goto, PlacingMoves, SameOrder, Job
  <2> QED BY <2>1, <2>2, RestShapes
<1>3. CASE PlaceEntry
  <2>1. \/ job' = [job EXCEPT !.pc = "leg", !.entry = 1, !.need = Kinds]
        \/ Goto("fallback") /\ used' = [used EXCEPT !.faults = @ + 1]
        \/ Reject
    BY <1>3 DEF PlaceEntry, Charge
  <2>2. ASSUME job' = [job EXCEPT !.pc = "leg", !.entry = 1, !.need = Kinds] PROVE PlacingMoves
    BY <1>1, <1>3, <2>2 DEF PlacingMoves, SameOrder, Job
  <2>3. ASSUME Goto("fallback"), used' = [used EXCEPT !.faults = @ + 1] PROVE PlacingMoves
    <3>1. used'.faults = used.faults + 1
      BY <2>3 DEF Inv, TypeOK
    <3>2. used'.faults > 0
      BY <1>1, <3>1
    <3> QED BY <1>1, <1>3, <2>3, <3>2 DEF Goto, PlacingMoves, SameOrder, Job
  <2> QED BY <2>1, <2>2, <2>3, RestShapes
<1>4. CASE PlaceFallback
  <2>1. job' = [job EXCEPT !.pc = "save", !.entry = 2] \/ Reject
    BY <1>4 DEF PlaceFallback
  <2>2. ASSUME job' = [job EXCEPT !.pc = "save", !.entry = 2] PROVE PlacingMoves
    BY <1>1, <1>4, <2>2 DEF PlacingMoves, SameOrder, Job
  <2> QED BY <2>1, <2>2, RestShapes
<1> QED BY <1>2, <1>3, <1>4

(* One leg of try_place: the handler holds its id, or gives up. *)
LEMMA LegMove ==
    ASSUME Inv, PlaceLeg
    PROVE  Rests \/ LegPlacing
<1> DEFINE k == NextLeg(job.need)
<1>1. job \in Job /\ job.leg \in [Kinds -> LegIds0]
  BY JobFields DEF Inv, TypeOK
<1>2. Reject \/ \E m \in LegIds0, pc \in {"save", "leg"} :
                 /\ pc = IF job.need = {k} THEN "save" ELSE "leg"
                 /\ job' = [job EXCEPT !.pc = pc, !.need = @ \ {k}, !.leg[k] = m]
  BY Members DEF PlaceLeg, Fresh
<1>3. ASSUME NEW m \in LegIds0, NEW pc, pc = IF job.need = {k} THEN "save" ELSE "leg",
             job' = [job EXCEPT !.pc = pc, !.need = @ \ {k}, !.leg[k] = m]
      PROVE  LegPlacing
  <2>1. /\ job'.pc = pc /\ job'.need = job.need \ {k} /\ job'.leg = [job.leg EXCEPT ![k] = m]
        /\ job'.o = job.o /\ job'.phase = job.phase /\ job'.entry = job.entry
    <3> HIDE DEF k
    <3> QED BY <1>1, <1>3 DEF Job
  <2>2. job.need # {} /\ job.need # {k} => job.need \ {k} # {}
    BY JobFields DEF Inv, NextLeg, Kinds
  <2> QED BY <1>3, <2>1, <2>2 DEF LegPlacing, LegMoves, SameOrder
<1> QED BY <1>2, <1>3, RestShapes

(* One attempt at a missing leg: again, the next one, or done. *)
LEMMA AttachMove ==
    ASSUME Inv, AttachLeg
    PROVE  Rests \/ Attaching
<1> DEFINE k == NextLeg(job.need)
<1>1. job \in Job /\ used.faults \in Nat
  BY DEF Inv, TypeOK
<1>2. \/ Done(job.o)
      \/ job' = [job EXCEPT !.tries = @ + 1] /\ used' = [used EXCEPT !.faults = @ + 1]
      \/ \E m \in LegIds0 : LegSettled(k, m)
  BY Members DEF AttachLeg, Charge, Fresh
<1>3. ASSUME job' = [job EXCEPT !.tries = @ + 1], used' = [used EXCEPT !.faults = @ + 1]
      PROVE  Attaching
  <2>1. used'.faults = used.faults + 1
    BY <1>3 DEF Inv, TypeOK
  <2>2. used'.faults > 0
    BY <1>1, <2>1
  <2>3. job.pc = "attach"
    BY DEF AttachLeg
  <2> QED BY <1>1, <1>3, <2>2, <2>3 DEF Attaching, SameOrder, Job
<1>4. ASSUME NEW m \in LegIds0, LegSettled(k, m), ~Done(job.o)
      PROVE  Attaching
  <2> DEFINE next == AfterAttach(job.need \ {k}, m # 0)
  <2>1. job' = [job EXCEPT !.pc = next, !.need = @ \ {k}, !.tries = 0, !.leg[k] = m]
        /\ next # "pass"
    BY <1>4 DEF LegSettled
  <2>2. /\ job'.pc = next /\ job'.need = job.need \ {k} /\ job'.leg = [job.leg EXCEPT ![k] = m]
        /\ job'.o = job.o /\ job'.phase = job.phase /\ job'.entry = job.entry
    <3> HIDE DEF next, k
    <3> QED BY <1>1, <2>1 DEF Job
  <2>3. \/ next = "markFilled"
        \/ next = "attach" /\ job.need \ {k} # {} /\ (job.phase = "filled" => m = 0)
    BY <2>1 DEF AfterAttach
  <2> HIDE DEF next, k
  <2>4. LegMoves(k, m)
    BY <2>2 DEF LegMoves, SameOrder
  <2> QED BY <2>2, <2>3, <2>4 DEF Attaching, k
<1> QED BY <1>2, <1>3, <1>4, RestShapes

(* A row of the sync loops: completed, closed as gone, or left. *)
LEMMA SyncMove ==
    ASSUME Inv, NEW o \in Orders, SyncPending(o) \/ CheckNaked(o)
    PROVE  Rests \/ AttachStarts \/ CloseStarts
<1>1. job \in Job /\ job.pc = "pass"
  BY DEF Inv, TypeOK, SyncPending, CheckNaked, InPhase
<1>2. \/ Done(o)
      \/ /\ \E qty : StartAttach(o, qty)
         /\ Recorded(o) # Kinds /\ UNCHANGED <<row, exchange>>
         /\ EntryOf(o) = "filled" \/ CheckNaked(o)
      \/ CheckNaked(o) /\ CloseJob(o, "MANUAL_CLOSED", Recorded(o))
  BY DEF SyncPending, CheckNaked
<1>3. ASSUME NEW qty, StartAttach(o, qty), Recorded(o) # Kinds, UNCHANGED <<row, exchange>>,
             EntryOf(o) = "filled" \/ CheckNaked(o)
      PROVE  AttachStarts
  <2>1. CheckNaked(o) => row[o].status = "FILLED"
    BY DEF CheckNaked, InPhase, Inv, HandlerUpToDate, LoopsUpToDate
  <2>2. /\ job'.pc = "attach" /\ job'.phase = job.phase /\ job'.o = o
        /\ job'.need = Kinds \ Recorded(o) /\ job'.leg = row[o].leg
    BY <1>1, <1>3 DEF StartAttach, Job
  <2> QED BY <1>3, <2>1, <2>2 DEF AttachStarts
<1>4. ASSUME CheckNaked(o), CloseJob(o, "MANUAL_CLOSED", Recorded(o)) PROVE CloseStarts
  <2>1. InPhase("filled", o) /\ row[o].status = "FILLED" /\ UNCHANGED <<row, leg>>
    BY <1>4 DEF CheckNaked, InPhase, Inv, HandlerUpToDate, LoopsUpToDate, exchange
  <2>2. job'.pc = "remaining" /\ job'.tgt = o /\ job'.mark = "MANUAL_CLOSED"
        /\ job'.phase = job.phase
    BY <1>1, <1>4 DEF CloseJob, Job
  <2> QED BY <2>1, <2>2 DEF CloseStarts, InPhase
<1> QED BY <1>2, <1>3, <1>4, RestShapes

(* A row closes on a leg the exchange reports as triggered. *)
LEMMA LegsMove ==
    ASSUME Inv, NEW o \in Orders, CheckLegs(o)
    PROVE  Rests \/ CloseStarts
<1>1. /\ job \in Job /\ InPhase("filled", o) /\ row[o].status = "FILLED" /\ leg' = leg
      /\ Recorded(o) = Kinds
  BY DEF Inv, TypeOK, CheckLegs, InPhase, HandlerUpToDate, LoopsUpToDate, exchange
<1>2. \/ Done(o)
      \/ /\ row' = row /\ CloseJob(o, "CLOSED_SL", {"TP"}) /\ "filled" \in Answers(o, "SL")
      \/ /\ row' = row /\ CloseJob(o, "CLOSED_TP", {"SL"}) /\ "filled" \in Answers(o, "TP")
  BY DEF CheckLegs, ClearLeg
<1>3. \A k : "filled" \in Answers(o, k) => LegOf(o, k).st = "filled"
  <2> SUFFICES ASSUME NEW k, "filled" \in Answers(o, k) PROVE LegOf(o, k).st = "filled"
    OBVIOUS
  <2>1. Truth(o, k) = "filled"
    BY DEF Answers
  <2> QED BY <2>1 DEF Truth
<1>4. ASSUME NEW mark, NEW ks, CloseJob(o, mark, ks)
      PROVE  job'.pc = "remaining" /\ job'.tgt = o /\ job'.mark = mark /\ job'.phase = "filled"
  BY <1>1, <1>4 DEF CloseJob, Job, InPhase
<1> QED BY <1>1, <1>2, <1>3, <1>4, RestShapes DEF CloseStarts

(* Every step, by where it takes the handler. *)
LEMMA HandlerMoves ==
    ASSUME Inv, [Next]_vars
    PROVE  \/ job' = job \/ Rests
           \/ Withdrawing \/ CloseStarts \/ PlacingMoves \/ LegPlacing
           \/ AttachStarts \/ Attaching \/ AttachGoesOnAfterMark
<1>1. job \in Job
  BY DEF Inv, TypeOK
<1>2. CASE \/ UNCHANGED vars \/ MarkStatus \/ SaveStatusRow \/ SaveOrder \/ NextPhase
           \/ StartCleanup \/ (\E s \in Strategies : StartSync(s))
           \/ \E o \in Orders : KeepPending(o) \/ CleanRow(o)
  <2>1. UNCHANGED vars => job' = job
    BY DEF vars
  <2>2. MarkStatus => Rests
    BY RestShapes DEF MarkStatus
  <2>3. SaveStatusRow \/ SaveOrder => Rests
    BY RestShapes DEF SaveStatusRow, SaveOrder
  <2>4. NextPhase => Rests
    <3>1. ASSUME NextPhase
          PROVE  job' = IdleJob \/ \E phase, s, todo : job' = Pass(phase, s, todo)
      BY <3>1, Zenon DEF NextPhase
    <3> QED BY <3>1, RestShapes
  <2>5. StartCleanup \/ (\E s \in Strategies : StartSync(s)) => Rests
    BY RestShapes DEF StartCleanup, StartSync
  <2>6. (\E o \in Orders : KeepPending(o) \/ CleanRow(o)) => Rests
    BY RestShapes DEF KeepPending, CleanRow
  <2> QED BY <1>2, <2>1, <2>2, <2>3, <2>4, <2>5, <2>6
<1>3. CASE World
  BY <1>3, RestShapes DEF World, FillEntry, DropEntry, TriggerLeg, DropLeg, ManualClose, SetLive,
                          Crash
<1>4. CASE RiskCheck \/ PlaceEntry \/ PlaceFallback
  BY <1>4, PlacingMove
<1>5. CASE PlaceLeg
  BY <1>5, LegMove
<1>6. CASE AttachLeg
  BY <1>6, AttachMove
<1>7. CASE \E o \in Orders : SyncPending(o) \/ CheckNaked(o)
  BY <1>7, SyncMove
<1>8. CASE \E o \in Orders : CheckLegs(o)
  BY <1>8, LegsMove
<1>9. CASE MarkFilled
  <2>1. Done(job.o) \/ (job.need # {} /\ Goto("attach"))
    BY <1>9 DEF MarkFilled
  <2>2. Goto("attach") => /\ job'.pc = "attach" /\ SameOrder /\ job'.need = job.need
                          /\ job'.leg = job.leg
    BY <1>1 DEF Goto, SameOrder, Job
  <2> QED BY <1>9, <2>1, <2>2, RestShapes DEF AttachGoesOnAfterMark
<1>10. CASE CancelBinanceOrder \/ CancelRemaining
  <2>1. Goto("mark")
    BY <1>10 DEF CancelBinanceOrder, CancelRemaining
  <2>2. job'.pc = "mark" /\ SameMark
    BY <1>1, <2>1 DEF Goto, SameMark, Job
  <2> QED BY <1>10, <2>2 DEF Withdrawing
<1>11. CASE \E o \in Orders : Expire(o)
  <2>1. job'.pc = "cancel"
    BY <1>1, <1>11 DEF Expire, Job
  <2> QED BY <2>1 DEF Rests, Resting
<1>12. CASE \E o \in Orders, c \in Signals : TryPlace(o, c)
  <2>1. ASSUME NEW o, NEW s, NEW d, job' = AfterDecision(o, s, d) PROVE Rests
    <3>1. CASE d.action = "PLACE"
      BY <2>1, <3>1, RestShapes DEF AfterDecision
    <3>2. CASE d.action = "REPLACE"
      BY <2>1, <3>2, RestShapes DEF AfterDecision
    <3>3. CASE d.action = "CANCEL_CONFLICT"
      BY <2>1, <3>3, RestShapes DEF AfterDecision
    <3>4. CASE d.action \notin {"PLACE", "REPLACE", "CANCEL_CONFLICT"}
      BY <2>1, <3>4, RestShapes DEF AfterDecision
    <3> QED BY <3>1, <3>2, <3>3, <3>4
  <2> QED BY <1>12, <2>1, RestShapes DEF TryPlace
<1> QED BY <1>2, <1>3, <1>4, <1>5, <1>6, <1>7, <1>8, <1>9, <1>10, <1>11, <1>12
        DEF Next, JobStep

-----------------------------------------------------------------------------
(* max_pending.  The count read by _risk_check is that of the account, and  *)
(* only the entry it lets through is opened before the next count.          *)

(* A failed call is never forgotten; no failures means each call went well. *)
LEMMA FaultsGrow ==
    ASSUME Inv, [Next]_vars
    PROVE  used.faults \in Nat /\ used'.faults \in Nat /\ used.faults <= used'.faults
<1>1. /\ used \in [faults : Nat, crashes : Nat, toggles : Nat]
      /\ used' \in [faults : Nat, crashes : Nat, toggles : Nat]
  BY TypeStep DEF Inv, TypeOK
<1>2. \A n \in Nat : ChargeN(n) => used'.faults = used.faults + n
  BY <1>1 DEF ChargeN
<1>3. \A r \in Outcome : Charge(r) => used'.faults = used.faults \/ used'.faults = used.faults + 1
  BY <1>1 DEF Charge
<1>4. \A S \in SUBSET ({"ENTRY"} \cup Kinds) : Cardinality(S) \in Nat
  BY FailedCounts
<1>5. used'.faults = used.faults \/ \E n \in Nat : used'.faults = used.faults + n
  <2>1. CASE UNCHANGED used \/ UNCHANGED vars
    BY <2>1 DEF vars
  <2>2. CASE CancelBinanceOrder \/ CancelRemaining \/ \E o \in Orders : CleanRow(o)
    <3>1. PICK S \in SUBSET ({"ENTRY"} \cup Kinds) : ChargeN(Cardinality(S))
      BY <2>2, JobFields DEF CancelBinanceOrder, CancelRemaining, CleanRow, Recorded, Inv
    <3> QED BY <1>2, <1>4, <3>1
  <2>3. CASE RiskCheck
    <3>1. FailedReads \in Nat
      BY DEF FailedReads
    <3> QED BY <1>2, <2>3, <3>1 DEF RiskCheck
  <2>4. CASE PlaceEntry \/ PlaceFallback \/ PlaceLeg \/ AttachLeg
    <3>1. UNCHANGED used \/ \E r \in Outcome : Charge(r)
      BY <2>4 DEF PlaceEntry, PlaceFallback, PlaceLeg, AttachLeg
    <3> QED BY <1>1, <1>3, <3>1
  <2>5. CASE \E o \in Orders : SyncPending(o) \/ CheckNaked(o)
    <3>1. UNCHANGED used \/ ChargeN(1)
      BY <2>5 DEF SyncPending, CheckNaked
    <3> QED BY <1>2, <3>1
  <2>6. CASE \E o \in Orders : CheckLegs(o)
    <3>1. PICK S \in SUBSET Kinds : ChargeN(Cardinality(S))
      BY <2>6 DEF CheckLegs
    <3> QED BY <1>2, <1>4, <3>1
  <2>7. CASE (\E s \in Strategies : SetLive(s)) \/ Crash
    BY <1>1, <2>7 DEF SetLive, Crash
  <2>8. CASE \/ MarkStatus \/ SaveStatusRow \/ SaveOrder \/ NextPhase \/ MarkFilled \/ StartCleanup
             \/ (\E s \in Strategies : StartSync(s))
             \/ (\E o \in Orders, c \in Signals : TryPlace(o, c))
             \/ (\E o \in Orders : Expire(o) \/ KeepPending(o))
             \/ (\E o \in Orders, n \in Attempts : FillEntry(o, n) \/ DropEntry(o, n))
             \/ (\E o \in Orders, k \in Kinds, n \in LegIds : TriggerLeg(o, k, n) \/ DropLeg(o, k, n))
             \/ \E sym \in Symbols, d \in Directions : ManualClose(sym, d)
    BY <2>1, <2>8 DEF MarkStatus, SaveStatusRow, SaveOrder, NextPhase, MarkFilled, StartCleanup,
                      StartSync, TryPlace, Expire, KeepPending, FillEntry, DropEntry, TriggerLeg,
                      DropLeg, ManualClose
  <2> QED BY <2>1, <2>2, <2>3, <2>4, <2>5, <2>6, <2>7, <2>8 DEF Next, JobStep, World
<1> QED BY <1>1, <1>5

Cap ==
    /\ IsFiniteSet(OpenEntries)
    /\ job.pc = "fallback" => used.faults > 0
    /\ used.faults = 0 =>
          /\ Cardinality(OpenEntries) <= MaxPending
          /\ job.pc = "entry" => Cardinality(OpenEntries) < MaxPending

(* With no entry opened the cap holds as it did. *)
LEMMA FewerEntries ==
    ASSUME Cap, OpenEntries' \subseteq OpenEntries
    PROVE  /\ IsFiniteSet(OpenEntries)'
           /\ Cardinality(OpenEntries)' <= Cardinality(OpenEntries)
           /\ Cardinality(OpenEntries)' \in Nat /\ Cardinality(OpenEntries) \in Nat
BY FS_Subset, FS_CardinalityType DEF Cap

(* Every step keeps the cap. *)
LEMMA CapStep ==
    ASSUME Inv, Cap, [Next]_vars
    PROVE  Cap'
<1>1. used.faults \in Nat /\ used'.faults \in Nat /\ (used'.faults = 0 => used.faults = 0)
  BY FaultsGrow
<1>2. /\ job'.pc = "entry" => job' = job \/ RiskCheck
      /\ job'.pc = "fallback" => job' = job \/ used'.faults > 0
  BY HandlerMoves DEF Rests, Resting, Withdrawing, CloseStarts, PlacingMoves, LegPlacing,
                      AttachStarts, Attaching, AttachGoesOnAfterMark
<1>3. job'.pc = "fallback" => used'.faults > 0
  BY <1>1, <1>2 DEF Cap
<1>4. CASE ~(PlaceEntry \/ PlaceFallback)
  <2>1. OpenEntries' \subseteq OpenEntries
    <3>1. CASE PlaceLeg \/ AttachLeg
      BY <3>1 DEF PlaceLeg, AttachLeg, OpenEntries
    <3>2. CASE ~(PlaceLeg \/ AttachLeg)
      BY <1>4, <3>2, ClosingSteps DEF Closing, OpenEntries, AtWork
    <3> QED BY <3>1, <3>2
  <2>2. /\ IsFiniteSet(OpenEntries)'
        /\ Cardinality(OpenEntries)' <= Cardinality(OpenEntries)
        /\ Cardinality(OpenEntries)' \in Nat /\ Cardinality(OpenEntries) \in Nat
    BY <2>1, FewerEntries
  <2>3. ASSUME used'.faults = 0, job'.pc = "entry"
        PROVE  Cardinality(OpenEntries) < MaxPending
    <3>1. CASE job' = job
      BY <1>1, <2>3, <3>1 DEF Cap
    <3>2. CASE RiskCheck
      <4>1. job'.pc # "status"
        BY <2>3
      <4>2. ChargeN(FailedReads)
        BY <3>2, <4>1, JobShapes DEF RiskCheck, Reject
      <4>3. used'.faults = used.faults + FailedReads
        BY <4>2 DEF ChargeN, Inv, TypeOK
      <4>4. FailedReads = 0
        BY <1>1, <2>3, <4>3 DEF FailedReads
      <4> QED BY <4>4 DEF FailedReads
    <3> QED BY <1>2, <2>3, <3>1, <3>2
  <2>4. used'.faults = 0 => Cardinality(OpenEntries)' <= MaxPending
    BY <1>1, <2>2, ConstantsOK DEF Cap
  <2>5. used'.faults = 0 /\ job'.pc = "entry" => Cardinality(OpenEntries)' < MaxPending
    BY <2>2, <2>3, ConstantsOK
  <2> QED BY <1>3, <2>2, <2>4, <2>5 DEF Cap
<1>5. CASE PlaceEntry \/ PlaceFallback
  <2>1. PICK n \in Attempts : \A o \in Orders, m \in Attempts :
            ent'[o][m] # ent[o][m] => o = job.o /\ m = n
    BY <1>5, EntryPlaced
  <2>2. PICK x : x = <<job.o, n>>
    OBVIOUS
  <2>3. OpenEntries' \subseteq OpenEntries \cup {x}
    <3>1. ASSUME NEW y \in OpenEntries' PROVE y \in OpenEntries \cup {x}
      <4>1. PICK o \in Orders, m \in Attempts : y = <<o, m>> /\ ent'[o][m] \in {"open", "partial"}
        BY <3>1 DEF OpenEntries
      <4> QED BY <2>1, <2>2, <4>1 DEF OpenEntries
    <3> QED BY <3>1
  <2>4. /\ IsFiniteSet(OpenEntries \cup {x})
        /\ Cardinality(OpenEntries \cup {x}) <= Cardinality(OpenEntries) + 1
        /\ Cardinality(OpenEntries) \in Nat /\ Cardinality(OpenEntries \cup {x}) \in Nat
    <3>1. IsFiniteSet(OpenEntries)
      BY DEF Cap
    <3>2. Cardinality(OpenEntries) \in Nat
      BY <3>1, FS_CardinalityType
    <3>3. /\ IsFiniteSet(OpenEntries \cup {x})
          /\ \/ Cardinality(OpenEntries \cup {x}) = Cardinality(OpenEntries)
             \/ Cardinality(OpenEntries \cup {x}) = Cardinality(OpenEntries) + 1
      BY <3>1, FS_AddElement
    <3> QED BY <3>2, <3>3
  <2>5. /\ IsFiniteSet(OpenEntries)' /\ Cardinality(OpenEntries)' \in Nat
        /\ Cardinality(OpenEntries)' <= Cardinality(OpenEntries \cup {x})
    BY <2>3, <2>4, FS_Subset, FS_CardinalityType
  <2>6. job.pc \in {"entry", "fallback"}
    BY <1>5 DEF PlaceEntry, PlaceFallback
  <2>7. job'.pc # "entry"
    BY <1>2, <1>5, <2>6 DEF PlaceEntry, PlaceFallback, RiskCheck, Reject, PlaceJob, Goto, Inv,
                            TypeOK, Job
  <2>8. used'.faults = 0 => Cardinality(OpenEntries) < MaxPending
    BY <1>1, <2>6 DEF Cap
  <2>9. used'.faults = 0 => Cardinality(OpenEntries)' <= MaxPending
    BY <2>4, <2>5, <2>8, ConstantsOK
  <2> QED BY <1>3, <2>5, <2>7, <2>9 DEF Cap
<1> QED BY <1>4, <1>5

(* The account starts empty. *)
LEMMA CapInit == Init => Cap
<1> SUFFICES ASSUME Init PROVE Cap
  OBVIOUS
<1>1. OpenEntries = {}
  BY DEF Init, OpenEntries
<1>2. Cardinality(OpenEntries) = 0 /\ IsFiniteSet(OpenEntries)
  BY <1>1, FS_EmptySet
<1>3. job.pc = "idle"
  BY DEF Init, IdleJob
<1> QED BY <1>2, <1>3, ConstantsOK DEF Cap

(* max_pending bounds the entries open on the account, for any number of   *)
(* strategies, orders, fills, replacements and restarts, until a call has  *)
(* failed (EntriesCapped).                                                 *)
THEOREM PendingEntriesCapped == Spec => []EntriesCapped
<1>1. Inv /\ Cap /\ [Next]_vars => Inv' /\ Cap'
  BY InvStep, CapStep
<1>2. Cap => EntriesCapped
  BY DEF Cap, EntriesCapped
<1> QED BY InitInv, CapInit, <1>1, <1>2, PTL DEF Spec

-----------------------------------------------------------------------------
(* The rows and the handler as books: what an id in them stands for.       *)

(* An order at work has an entry, one without a row no legs. *)
RowsWhole ==
    \A o \in Orders :
        /\ row[o].status \in Active \cup Closed => row[o].entry \in Attempts
        /\ row[o].status = "NONE" => row[o].leg = NoLegs

(* The handler holds the ids it has collected so far, and those of the row *)
(* it completes.                                                           *)
JobWhole ==
    /\ job.pc \in {"risk", "entry", "fallback"} => job.entry = 0 /\ job.leg = NoLegs
    /\ job.pc \in {"leg", "save"} => job.entry \in Attempts
    /\ job.pc \in {"leg", "attach"} => job.need # {}
    /\ job.pc \in {"leg", "attach", "markFilled"} => \A k \in job.need : job.leg[k] = 0
    /\ job.pc \in {"attach", "markFilled"} =>
          \A k \in Kinds : row[job.o].leg[k] # 0 => job.leg[k] = row[job.o].leg[k]
    /\ job.pc = "attach" /\ job.phase = "filled" => job.leg = row[job.o].leg

Books == RowsWhole /\ JobWhole

SameIds(o) == row'[o].entry = row[o].entry /\ row'[o].leg = row[o].leg

(* What a step writes to a row. *)
Saved(o)     == /\ SaveOrder /\ o = job.o
                /\ row'[o] = [status |-> "PENDING", entry |-> job.entry, leg |-> job.leg]
Turned(o)    == /\ SaveStatusRow /\ o = job.o
                /\ row'[o] = [status |-> job.mark, entry |-> 0, leg |-> NoLegs]
Marked(o)    == MarkStatus /\ o = job.tgt /\ SameIds(o) /\ row'[o].status = job.mark
Resolved(o)  == /\ SyncPending(o) /\ SameIds(o)
                /\ \/ row'[o].status = "FILLED" /\ EntryOf(o) = "filled"
                   \/ row'[o].status = "CANCELED" /\ EntryOf(o) = "absent"
Completed(o) == /\ MarkFilled /\ o = job.o
                /\ row'[o].status = "FILLED" /\ row'[o].entry = row[o].entry
                /\ row'[o].leg = [k \in Kinds |->
                       IF job.leg[k] # 0 THEN job.leg[k] ELSE row[job.o].leg[k]]
Lost(o)      == /\ CheckLegs(o)
                /\ row'[o].status = row[o].status /\ row'[o].entry = row[o].entry
                /\ \E k \in Kinds : /\ "lost" \in Answers(o, k)
                                    /\ row'[o].leg = [row[o].leg EXCEPT ![k] = 0]
Swept(o)     == /\ CleanRow(o)
                /\ row'[o].status = row[o].status /\ row'[o].entry = row[o].entry
                /\ \E failed \in SUBSET Recorded(o) : row'[o].leg =
                      [k \in Kinds |-> IF k \in failed THEN row[o].leg[k] ELSE 0]

(* Every write to the table is one of these. *)
LEMMA RowMoves ==
    ASSUME Inv, [Next]_vars, NEW o \in Orders, row'[o] # row[o]
    PROVE  Saved(o) \/ Turned(o) \/ Marked(o) \/ Resolved(o) \/ Completed(o) \/ Lost(o) \/ Swept(o)
<1>1. row \in [Orders -> Row]
  BY DEF Inv, TypeOK
<1>2. CASE SaveOrder
  BY <1>1, <1>2 DEF SaveOrder, Saved
<1>3. CASE SaveStatusRow
  BY <1>1, <1>3 DEF SaveStatusRow, Turned, NoRow
<1>4. CASE MarkStatus
  BY <1>1, <1>4 DEF MarkStatus, Marked, SameIds, Row
<1>5. CASE MarkFilled
  BY <1>1, <1>5 DEF MarkFilled, Completed, Row
<1>6. CASE \E x \in Orders : SyncPending(x)
  <2>1. PICK x \in Orders : SyncPending(x)
    BY <1>6
  <2>2. \E st : /\ row' = [row EXCEPT ![x].status = st]
                /\ \/ st = "FILLED" /\ EntryOf(x) = "filled"
                   \/ st = "CANCELED" /\ EntryOf(x) = "absent"
    BY <2>1 DEF SyncPending
  <2> QED BY <1>1, <2>1, <2>2 DEF Resolved, SameIds, Row
<1>7. CASE \E x \in Orders : CheckLegs(x)
  <2>1. PICK x \in Orders : CheckLegs(x)
    BY <1>7
  <2>2. PICK k \in Kinds : "lost" \in Answers(x, k) /\ row' = [row EXCEPT ![x].leg[k] = 0]
    BY <2>1 DEF CheckLegs, ClearLeg, Kinds
  <2>3. row' = [row EXCEPT ![x] = [row[x] EXCEPT !.leg = [row[x].leg EXCEPT ![k] = 0]]]
    BY <1>1, <2>2
  <2>4. /\ o = x
        /\ row'[o] = [row[o] EXCEPT !.leg = [row[o].leg EXCEPT ![k] = 0]]
    BY <1>1, <2>3
  <2>5. /\ row'[o].status = row[o].status /\ row'[o].entry = row[o].entry
        /\ row'[o].leg = [row[o].leg EXCEPT ![k] = 0]
    BY <1>1, <2>4 DEF Row
  <2> QED BY <2>1, <2>2, <2>4, <2>5 DEF Lost
<1>8. CASE \E x \in Orders : CleanRow(x)
  <2>1. PICK x \in Orders : CleanRow(x)
    BY <1>8
  <2>2. PICK failed \in SUBSET Recorded(x) :
            row' = [row EXCEPT ![x].leg =
                       [k \in Kinds |-> IF k \in failed THEN row[x].leg[k] ELSE 0]]
    BY <2>1 DEF CleanRow
  <2> QED BY <1>1, <2>1, <2>2 DEF Swept, Row
<1>9. CASE UNCHANGED row \/ UNCHANGED vars
  BY <1>9 DEF vars
<1>10. CASE \/ CancelBinanceOrder \/ RiskCheck \/ PlaceEntry \/ PlaceFallback \/ PlaceLeg
            \/ NextPhase \/ AttachLeg \/ CancelRemaining \/ StartCleanup \/ World
            \/ (\E x \in Orders : CheckNaked(x) \/ Expire(x) \/ KeepPending(x))
            \/ (\E s \in Strategies : StartSync(s))
            \/ \E x \in Orders, c \in Signals : TryPlace(x, c)
  <2>1. UNCHANGED row
    BY <1>10 DEF CancelBinanceOrder, RiskCheck, PlaceEntry, PlaceFallback, PlaceLeg, NextPhase,
                 AttachLeg, CancelRemaining, StartCleanup, World, CheckNaked, Expire, KeepPending,
                 StartSync, TryPlace, FillEntry, DropEntry, TriggerLeg, DropLeg, ManualClose,
                 SetLive, Crash
  <2> QED BY <2>1
<1> QED BY <1>2, <1>3, <1>4, <1>5, <1>6, <1>7, <1>8, <1>9, <1>10 DEF Next, JobStep

(* Every write keeps the rows whole. *)
LEMMA RowsWholeStep ==
    ASSUME Inv, Books, [Next]_vars
    PROVE  RowsWhole'
<1> SUFFICES ASSUME NEW o \in Orders
             PROVE  /\ row'[o].status \in Active \cup Closed => row'[o].entry \in Attempts
                    /\ row'[o].status = "NONE" => row'[o].leg = NoLegs
  BY DEF RowsWhole
<1>1. /\ row[o].status \in Active \cup Closed => row[o].entry \in Attempts
      /\ row[o].status = "NONE" => row[o].leg = NoLegs
  BY DEF Books, RowsWhole
<1>2. CASE row'[o] = row[o]
  BY <1>1, <1>2
<1>3. CASE Saved(o)
  BY <1>3 DEF Saved, SaveOrder, Books, JobWhole
<1>4. CASE Turned(o)
  <2>1. job.mark \in Refused
    BY <1>4 DEF Turned, SaveStatusRow, Inv, HandlerUpToDate, PlacingUpToDate
  <2> QED BY <1>4, <2>1 DEF Turned, Refused, Active, Closed
<1>5. CASE Marked(o)
  <2>1. job.mark # "NONE" /\ row[o].status \in Active
    BY <1>5 DEF Marked, MarkStatus, Inv, HandlerUpToDate, MarkingUpToDate, Active, Closed
  <2> QED BY <1>1, <1>5, <2>1 DEF Marked, SameIds
<1>6. CASE Resolved(o)
  <2>1. row[o].status \in Active
    BY <1>6 DEF Resolved, SyncPending, InPhase, Inv, HandlerUpToDate, LoopsUpToDate, Active
  <2> QED BY <1>1, <1>6, <2>1 DEF Resolved, SameIds
<1>7. CASE Completed(o)
  <2>1. row[o].status \in Active
    BY <1>7 DEF Completed, MarkFilled, Inv, HandlerUpToDate, LoopsUpToDate, Active
  <2> QED BY <1>1, <1>7, <2>1 DEF Completed
<1>8. CASE Lost(o)
  <2>1. row[o].status = "FILLED"
    BY <1>8 DEF Lost, CheckLegs, InPhase, Inv, HandlerUpToDate, LoopsUpToDate
  <2> QED BY <1>1, <1>8, <2>1 DEF Lost
<1>9. CASE Swept(o)
  <2>1. row[o].leg = NoLegs => row'[o].leg = NoLegs
    BY <1>9 DEF Swept, Recorded, NoLegs
  <2> QED BY <1>1, <1>9, <2>1 DEF Swept
<1> QED BY <1>2, <1>3, <1>4, <1>5, <1>6, <1>7, <1>8, <1>9, RowMoves

(* No row is written while the legs of one are placed. *)
LEMMA RowsRest ==
    ASSUME Inv, [Next]_vars, NEW o \in Orders,
           job.pc \notin {"save", "status", "mark", "markFilled", "pass"}
    PROVE  row'[o] = row[o]
BY RowMoves DEF Saved, SaveOrder, Turned, SaveStatusRow, Marked, MarkStatus, Resolved, SyncPending,
                Completed, MarkFilled, Lost, CheckLegs, Swept, CleanRow, InPhase

(* The ids a row gets when it is completed. *)
LEMMA CompletedIds ==
    ASSUME Inv, Books, MarkFilled
    PROVE  row'[job.o].leg = job.leg
<1>1. job.pc = "markFilled" /\ job.o \in Orders
  BY DEF MarkFilled, Inv, HandlerUpToDate, LoopsUpToDate
<1>2. job.leg \in [Kinds -> LegIds0] /\ row \in [Orders -> Row]
  BY JobFields DEF Inv, TypeOK
<1>3. row'[job.o].leg = [k \in Kinds |-> IF job.leg[k] # 0 THEN job.leg[k] ELSE row[job.o].leg[k]]
  BY <1>1, <1>2 DEF MarkFilled, Row
<1>4. \A k \in Kinds : row[job.o].leg[k] # 0 => job.leg[k] = row[job.o].leg[k]
  BY <1>1 DEF Books, JobWhole
<1>5. \A k \in Kinds : row'[job.o].leg[k] = job.leg[k]
  BY <1>3, <1>4
<1> QED BY <1>2, <1>3, <1>5

(* Every step keeps what the handler holds in order. *)
LEMMA JobWholeStep ==
    ASSUME Inv, Books, [Next]_vars
    PROVE  JobWhole'
<1>1. JobWhole /\ job \in Job /\ row \in [Orders -> Row] /\ job.leg \in [Kinds -> LegIds0]
  BY JobFields DEF Books, Inv, TypeOK
<1>2. job.pc \in {"attach", "markFilled"} => job.o \in Orders
  BY DEF Inv, HandlerUpToDate, LoopsUpToDate
<1>3. job.pc = "attach" => row'[job.o] = row[job.o]
  BY <1>2, RowsRest
<1>4. CASE job' = job
  <2>1. job.pc = "markFilled" => row'[job.o] = row[job.o]
    <3>1. ~MarkFilled \/ job.pc # "markFilled"
      <4>1. SUFFICES ASSUME MarkFilled PROVE FALSE
        OBVIOUS
      <4>2. job.pc = "markFilled"
        BY <4>1 DEF MarkFilled
      <4>3. job'.pc # "markFilled"
        BY <1>1, <4>1 DEF MarkFilled, Done, Pass, IdleJob, Goto, Job
      <4> QED BY <1>4, <4>2, <4>3
    <3> QED BY <1>2, <3>1, RowMoves
        DEF Saved, SaveOrder, Turned, SaveStatusRow, Marked, MarkStatus, Resolved, SyncPending,
            Completed, Lost, CheckLegs, Swept, CleanRow, InPhase
  <2> QED BY <1>1, <1>3, <1>4, <2>1 DEF JobWhole
<1>5. CASE Rests
  BY <1>5 DEF Rests, Resting, JobWhole
<1>6. CASE Withdrawing \/ CloseStarts
  BY <1>6 DEF Withdrawing, CloseStarts, JobWhole
<1>7. CASE PlacingMoves
  <2>1. /\ RiskCheck => job.pc = "risk"
        /\ PlaceEntry => job.pc = "entry"
    BY DEF RiskCheck, PlaceEntry
  <2>2. 1 \in Attempts /\ 2 \in Attempts
    BY DEF Attempts
  <2>3. CASE job'.pc \in {"entry", "fallback"}
    BY <1>1, <1>7, <2>1, <2>3 DEF PlacingMoves, JobWhole
  <2>4. CASE job'.pc = "leg"
    <3>1. job'.entry = 1 /\ job'.need = Kinds /\ job'.leg = NoLegs
      BY <1>1, <1>7, <2>1, <2>4 DEF PlacingMoves, JobWhole
    <3> QED BY <2>2, <2>4, <3>1 DEF JobWhole, NoLegs, Kinds
  <2>5. CASE job'.pc = "save"
    BY <1>7, <2>2, <2>5 DEF PlacingMoves, JobWhole
  <2> QED BY <1>7, <2>3, <2>4, <2>5 DEF PlacingMoves
<1>8. CASE LegPlacing
  <2>1. job.pc = "leg" /\ job.need \in SUBSET Kinds
    BY <1>8, JobFields DEF LegPlacing, PlaceLeg, Inv
  <2>2. PICK m \in LegIds0 : LegMoves(NextLeg(job.need), m)
    BY <1>8 DEF LegPlacing
  <2>3. job'.entry \in Attempts
    BY <1>1, <2>1, <2>2 DEF JobWhole, LegMoves
  <2>4. \A k \in job'.need : job'.leg[k] = 0
    BY <1>1, <2>1, <2>2 DEF JobWhole, LegMoves
  <2>5. job'.pc = "leg" => job'.need # {}
    BY <1>1, <1>8, <2>1 DEF LegPlacing, JobWhole
  <2> QED BY <1>8, <2>3, <2>4, <2>5 DEF LegPlacing, JobWhole
<1>9. CASE AttachStarts
  BY <1>9 DEF AttachStarts, JobWhole, Recorded
<1>10. CASE Attaching
  <2>1. job.pc = "attach" /\ job.need \in SUBSET Kinds /\ job'.o = job.o /\ job'.phase = job.phase
    BY <1>10, JobFields DEF Attaching, AttachLeg, Inv, SameOrder, LegMoves
  <2>2. row'[job'.o] = row[job.o]
    BY <1>3, <2>1
  <2>3. CASE job'.pc = "attach" /\ job'.need = job.need /\ job'.leg = job.leg
    BY <1>1, <2>1, <2>2, <2>3 DEF JobWhole
  <2>4. ASSUME NEW m \in LegIds0, LegMoves(NextLeg(job.need), m),
               \/ job'.pc = "attach" /\ job'.need # {} /\ (job.phase = "filled" => m = 0)
               \/ job'.pc = "markFilled"
        PROVE  JobWhole'
    <3>1. /\ job'.need = job.need \ {NextLeg(job.need)}
          /\ job'.leg = [job.leg EXCEPT ![NextLeg(job.need)] = m]
      BY <2>4 DEF LegMoves
    <3>2. NextLeg(job.need) \in Kinds /\ job.leg[NextLeg(job.need)] = 0
      BY <1>1, <2>1 DEF JobWhole, NextLeg, Kinds
    <3>3. /\ \A k \in job'.need : job'.leg[k] = 0
          /\ \A k \in Kinds : row[job.o].leg[k] # 0 => job'.leg[k] = row[job.o].leg[k]
      BY <1>1, <2>1, <3>1, <3>2 DEF JobWhole
    <3>4. job'.pc = "attach" /\ job.phase = "filled" => job'.leg = row[job.o].leg
      BY <1>1, <2>1, <2>4, <3>1, <3>2 DEF JobWhole
    <3> QED BY <2>1, <2>2, <2>4, <3>3, <3>4 DEF JobWhole
  <2> QED BY <1>10, <2>3, <2>4 DEF Attaching
<1>11. CASE AttachGoesOnAfterMark
  <2>1. /\ job.pc = "markFilled" /\ job'.o = job.o /\ job'.pc = "attach"
        /\ job'.need = job.need /\ job.need # {} /\ job'.leg = job.leg
    BY <1>11 DEF AttachGoesOnAfterMark, MarkFilled, SameOrder
  <2>2. row'[job'.o].leg = job'.leg
    BY <1>11, <2>1, CompletedIds DEF AttachGoesOnAfterMark
  <2> QED BY <1>1, <2>1, <2>2 DEF JobWhole
<1> QED BY <1>4, <1>5, <1>6, <1>7, <1>8, <1>9, <1>10, <1>11, HandlerMoves

(* The books start empty. *)
LEMMA BooksInit == Init => Books
BY DEF Init, Books, RowsWhole, JobWhole, NoRow, IdleJob, Active, Closed

(* Every step keeps the books. *)
LEMMA BooksStep ==
    ASSUME Inv, Books, [Next]_vars
    PROVE  Books'
BY RowsWholeStep, JobWholeStep DEF Books

-----------------------------------------------------------------------------
(* What the table says of fills and triggers.                              *)

Triggered(o, k) == \E n \in LegIds : leg[o][k][n].st = "filled"

(* The handler completes an order that was filled, and closes one as a stop *)
(* loss (take profit) because that leg of it was triggered.                 *)
Warranted ==
    /\ job.pc \in {"attach", "markFilled"} => EntryOf(job.o) = "filled"
    /\ job.pc \in {"remaining", "mark"} =>
          /\ job.mark = "CLOSED_SL" => Triggered(job.tgt, "SL")
          /\ job.mark = "CLOSED_TP" => Triggered(job.tgt, "TP")

(* What is filled stays so: ids are never used twice, and an entry is       *)
(* placed only for an order that has no row.                                *)
LEMMA FilledStays ==
    ASSUME Inv, Books, [Next]_vars, NEW o \in Orders
    PROVE  /\ \A n \in Attempts :
                 row[o].status # "NONE" /\ ent[o][n] = "filled" => ent'[o][n] = "filled"
           /\ \A k \in Kinds : Triggered(o, k) => Triggered(o, k)'
<1>1. CASE ~(PlaceEntry \/ PlaceFallback \/ PlaceLeg \/ AttachLeg)
  BY <1>1, ClosingSteps DEF Closing, Triggered
<1>2. CASE PlaceEntry \/ PlaceFallback
  <2>1. row[job.o].status = "NONE"
    BY <1>2 DEF PlaceEntry, PlaceFallback, Inv, HandlerUpToDate, PlacingUpToDate, PlaceSteps
  <2> QED BY <1>2, <2>1, EntryPlaced DEF Triggered
<1>3. CASE PlaceLeg \/ AttachLeg
  <2>1. job.need # {}
    BY <1>3 DEF PlaceLeg, AttachLeg, Books, JobWhole
  <2>2. /\ ent' = ent
        /\ \/ leg' = leg
           \/ \E n \in Fresh(job.o, NextLeg(job.need)) :
                 \A x \in Orders, k \in Kinds, m \in LegIds :
                    leg'[x][k][m].st = IF x = job.o /\ k = NextLeg(job.need) /\ m = n
                                       THEN "open" ELSE leg[x][k][m].st
    BY <1>3, <2>1, LegPlaced
  <2>3. CASE leg' = leg
    BY <2>2, <2>3 DEF Triggered
  <2>4. ASSUME NEW n \in Fresh(job.o, NextLeg(job.need)),
               \A x \in Orders, k \in Kinds, m \in LegIds :
                  leg'[x][k][m].st = IF x = job.o /\ k = NextLeg(job.need) /\ m = n
                                     THEN "open" ELSE leg[x][k][m].st,
               NEW k \in Kinds, Triggered(o, k)
        PROVE  Triggered(o, k)'
    <3>1. PICK m \in LegIds : leg[o][k][m].st = "filled"
      BY <2>4 DEF Triggered
    <3>2. ~(o = job.o /\ k = NextLeg(job.need) /\ m = n)
      BY <3>1 DEF Fresh
    <3>3. leg'[o][k][m].st = "filled"
      BY <2>4, <3>1, <3>2
    <3> QED BY <3>3 DEF Triggered
  <2> QED BY <2>2, <2>3, <2>4
<1> QED BY <1>1, <1>2, <1>3

(* The entry of the order the handler completes. *)
LEMMA CompletingStaysFilled ==
    ASSUME Inv, Books, Warranted, [Next]_vars, job.pc \in {"attach", "markFilled"}
    PROVE  ent'[job.o][row'[job.o].entry] = "filled"
<1>1. job.o \in Orders /\ row[job.o].status \in Active
  BY DEF Inv, HandlerUpToDate, LoopsUpToDate, Active
<1>2. row'[job.o].entry = row[job.o].entry
  BY <1>1, RowMoves
  DEF Saved, SaveOrder, Turned, SaveStatusRow, Marked, MarkStatus, Resolved, SyncPending,
      Completed, Lost, CheckLegs, Swept, CleanRow, InPhase
<1>3. row[job.o].entry \in Attempts /\ ent[job.o][row[job.o].entry] = "filled"
  BY <1>1 DEF Books, RowsWhole, Warranted, EntryOf
<1> QED BY <1>1, <1>2, <1>3, FilledStays DEF Active

(* Every step keeps the reasons of the handler. *)
LEMMA WarrantedStep ==
    ASSUME Inv, Books, Warranted, ClosedByItsLeg, [Next]_vars
    PROVE  Warranted'
<1>1. ASSUME job.tgt \in Orders, job.pc \in {"remaining", "mark"}
      PROVE  /\ job.mark = "CLOSED_SL" => \E n \in LegIds : leg'[job.tgt]["SL"][n].st = "filled"
             /\ job.mark = "CLOSED_TP" => \E n \in LegIds : leg'[job.tgt]["TP"][n].st = "filled"
  <2>1. PICK t \in Orders : t = job.tgt
    BY <1>1
  <2>2. \A k \in Kinds : Triggered(t, k) => \E n \in LegIds : leg'[t][k][n].st = "filled"
    BY FilledStays DEF Triggered
  <2> QED BY <1>1, <2>1, <2>2 DEF Warranted, Kinds
<1>2. job.pc \in {"remaining", "mark", "cancel"} => job.tgt \in Orders
  BY DEF Inv, HandlerUpToDate, MarkingUpToDate
<1>3. CASE job' = job
  BY <1>1, <1>2, <1>3, CompletingStaysFilled DEF Warranted, EntryOf, Triggered
<1>4. CASE Rests \/ PlacingMoves \/ LegPlacing
  BY <1>4 DEF Rests, Resting, PlacingMoves, LegPlacing, Warranted
<1>5. CASE Withdrawing
  <2>1. job'.pc = "mark" /\ job'.tgt = job.tgt /\ job'.mark = job.mark
    BY <1>5 DEF Withdrawing, SameMark
  <2>2. CASE CancelBinanceOrder
    <3>1. job.mark \notin Closed
      BY <2>2 DEF CancelBinanceOrder, Inv, HandlerUpToDate, MarkingUpToDate, Closed
    <3> QED BY <2>1, <3>1 DEF Warranted, Closed
  <2>3. CASE CancelRemaining
    <3>1. job.pc = "remaining"
      BY <2>3 DEF CancelRemaining
    <3> QED BY <1>1, <1>2, <2>1, <3>1 DEF Warranted, Triggered
  <2> QED BY <1>5, <2>2, <2>3 DEF Withdrawing
<1>6. CASE CloseStarts
  <2>1. PICK o \in Orders :
          /\ job'.pc = "remaining" /\ job'.tgt = o /\ leg' = leg
          /\ \/ job'.mark = "MANUAL_CLOSED"
             \/ job'.mark = "CLOSED_SL" /\ Recorded(o) = Kinds /\ LegOf(o, "SL").st = "filled"
             \/ job'.mark = "CLOSED_TP" /\ Recorded(o) = Kinds /\ LegOf(o, "TP").st = "filled"
    BY <1>6 DEF CloseStarts
  <2>2. Recorded(o) = Kinds => \A k \in Kinds : row[o].leg[k] \in LegIds
    <3>1. row[o].leg \in [Kinds -> LegIds0]
      BY DEF Inv, TypeOK, Row
    <3>2. \A n \in LegIds0 : n # 0 => n \in LegIds
      BY ConstantsOK DEF LegIds, LegIds0
    <3> QED BY <3>1, <3>2 DEF Recorded
  <2>3. \A k \in Kinds : Recorded(o) = Kinds /\ LegOf(o, k).st = "filled" => Triggered(o, k)
    BY <2>2 DEF Triggered, LegOf
  <2> QED BY <2>1, <2>3 DEF Warranted, Triggered, Kinds
<1>7. CASE AttachStarts
  <2>1. PICK o \in Orders : /\ EntryOf(o) = "filled" \/ row[o].status = "FILLED"
                            /\ UNCHANGED <<row, exchange>>
                            /\ job'.pc = "attach" /\ job'.o = o
    BY <1>7 DEF AttachStarts
  <2>2. EntryOf(o) = "filled"
    BY <2>1 DEF ClosedByItsLeg
  <2> QED BY <2>1, <2>2 DEF Warranted, EntryOf, exchange
<1>8. CASE Attaching \/ AttachGoesOnAfterMark
  <2>1. job.pc \in {"attach", "markFilled"} /\ job'.pc \in {"attach", "markFilled"}
        /\ job'.o = job.o
    BY <1>8 DEF Attaching, AttachGoesOnAfterMark, AttachLeg, MarkFilled, SameOrder, LegMoves
  <2> QED BY <2>1, CompletingStaysFilled DEF Warranted, EntryOf
<1> QED BY <1>3, <1>4, <1>5, <1>6, <1>7, <1>8, HandlerMoves

(* Every status written has its reason on the exchange. *)
LEMMA ClosedStep ==
    ASSUME Inv, Books, Warranted, ClosedByItsLeg, [Next]_vars
    PROVE  ClosedByItsLeg'
<1> SUFFICES ASSUME NEW o \in Orders
             PROVE  /\ row'[o].status = "CLOSED_SL" => Triggered(o, "SL")'
                    /\ row'[o].status = "CLOSED_TP" => Triggered(o, "TP")'
                    /\ row'[o].status \in Closed \cup {"FILLED"} => EntryOf(o)' = "filled"
  BY DEF ClosedByItsLeg, Triggered
<1>1. /\ row[o].status = "CLOSED_SL" => Triggered(o, "SL")'
      /\ row[o].status = "CLOSED_TP" => Triggered(o, "TP")'
  BY FilledStays DEF ClosedByItsLeg, Triggered, Kinds
<1>2. row[o].status \in Closed \cup {"FILLED"} => ent'[o][row[o].entry] = "filled"
  <2>1. SUFFICES ASSUME row[o].status \in Closed \cup {"FILLED"}
                 PROVE  ent'[o][row[o].entry] = "filled"
    OBVIOUS
  <2>2. row[o].entry \in Attempts /\ ent[o][row[o].entry] = "filled" /\ row[o].status # "NONE"
    BY <2>1 DEF Books, RowsWhole, ClosedByItsLeg, EntryOf, Active, Closed
  <2> QED BY <2>2, FilledStays
<1>3. CASE row'[o].status = row[o].status /\ row'[o].entry = row[o].entry
  BY <1>1, <1>2, <1>3 DEF EntryOf
<1>4. CASE Saved(o) \/ Turned(o)
  <2>1. Turned(o) => job.mark \in Refused
    BY DEF Turned, SaveStatusRow, Inv, HandlerUpToDate, PlacingUpToDate
  <2> QED BY <1>4, <2>1 DEF Saved, Turned, Refused, Closed
<1>5. CASE Marked(o)
  <2>1. job.pc = "mark" /\ o = job.tgt /\ row'[o].status = job.mark
        /\ row'[o].entry = row[o].entry
    BY <1>5 DEF Marked, MarkStatus, SameIds
  <2>2. job.mark \in Closed \cup {"FILLED"} => row[o].status = "FILLED"
    BY <2>1 DEF Inv, HandlerUpToDate, MarkingUpToDate, Closed
  <2>3. /\ job.mark = "CLOSED_SL" => Triggered(o, "SL")'
        /\ job.mark = "CLOSED_TP" => Triggered(o, "TP")'
    BY <2>1, FilledStays DEF Warranted, Kinds
  <2> QED BY <1>2, <2>1, <2>2, <2>3 DEF EntryOf
<1>6. CASE Resolved(o)
  <2>1. row'[o].entry = row[o].entry /\ ent' = ent
    BY <1>6 DEF Resolved, SameIds, SyncPending, exchange
  <2> QED BY <1>6, <2>1 DEF Resolved, EntryOf, Closed
<1>7. CASE Completed(o)
  <2>1. job.pc = "markFilled" /\ o = job.o /\ row'[o].status = "FILLED"
    BY <1>7 DEF Completed, MarkFilled
  <2> QED BY <2>1, CompletingStaysFilled DEF EntryOf
<1> QED BY <1>3, <1>4, <1>5, <1>6, <1>7, RowMoves DEF Lost, Swept

(* A row is FILLED or closed only if its entry was filled, and closed as a  *)
(* stop loss (take profit) only if that leg of it was triggered, whatever   *)
(* fails, is cancelled by hand or crashes (ClosedByItsLeg).                 *)
THEOREM ClosedAsItWas == Spec => []ClosedByItsLeg
<1>1. Init => Warranted /\ ClosedByItsLeg
  BY DEF Init, Warranted, ClosedByItsLeg, NoRow, IdleJob, Closed
<1>2. Inv /\ Books /\ Warranted /\ ClosedByItsLeg /\ [Next]_vars
          => Inv' /\ Books' /\ Warranted' /\ ClosedByItsLeg'
  BY InvStep, BooksStep, WarrantedStep, ClosedStep
<1> QED BY InitInv, BooksInit, <1>1, <1>2, PTL DEF Spec

-----------------------------------------------------------------------------
(* Nothing on the exchange is forgotten until a call fails or the process   *)
(* stops.                                                                   *)

Clean == used.faults = 0 /\ used.crashes = 0

Placing   == {"leg", "save"}
Collecting == {"leg", "save", "attach", "markFilled"}

EntryKnown(o, n) ==
    \/ row[o].status = "PENDING" /\ row[o].entry = n
    \/ job.pc \in Placing /\ job.o = o /\ job.entry = n
LegKnown(o, k, n) ==
    \/ row[o].leg[k] = n
    \/ job.pc \in Collecting /\ job.o = o /\ job.leg[k] = n

(* NothingUntracked, which would also take an id in a handler that is done  *)
(* with it for known, and that a row is withdrawn after its entry.          *)
Tracked ==
    Clean =>
        /\ \A o \in Orders, n \in Attempts : ent[o][n] \in AtWork => EntryKnown(o, n)
        /\ \A o \in Orders, k \in Kinds, n \in LegIds :
              leg[o][k][n].st = "open" => LegKnown(o, k, n)
        /\ job.pc = "mark" /\ job.phase \in {"place", "expire"} =>
              ent[job.tgt][row[job.tgt].entry] \notin AtWork

Sound == Inv /\ Books /\ Warranted /\ ClosedByItsLeg /\ Cap

(* With no failed call and no restart at the end there was none before, and *)
(* the calls of this step went well.                                        *)
LEMMA WentWell ==
    ASSUME Inv, [Next]_vars, Clean'
    PROVE  /\ Clean /\ ~Crash
           /\ \A r \in Outcome : Charge(r) => r.res = "ok" /\ r.eff
           /\ \A S \in SUBSET ({"ENTRY"} \cup Kinds) : ChargeN(Cardinality(S)) => S = {}
           /\ ~ChargeN(1)
<1>1. /\ used \in [faults : Nat, crashes : Nat, toggles : Nat]
      /\ used.faults = 0
  BY FaultsGrow DEF Clean, Inv, TypeOK
<1>2. used'.crashes = used.crashes \/ (Crash /\ used'.crashes = used.crashes + 1)
  <2>1. CASE UNCHANGED used \/ UNCHANGED vars
    BY <2>1 DEF vars
  <2>2. CASE (\E r \in Outcome : Charge(r)) \/ (\E n : ChargeN(n)) \/ (\E s \in Strategies : SetLive(s))
    BY <1>1, <2>2 DEF Charge, ChargeN, SetLive
  <2>3. CASE Crash
    BY <1>1, <2>3 DEF Crash
  <2>4. CASE JobStep
    <3>1. \/ UNCHANGED used \/ (\E r \in Outcome : Charge(r)) \/ \E n : ChargeN(n)
      BY <2>4 DEF JobStep, CancelBinanceOrder, MarkStatus, SaveStatusRow, RiskCheck, PlaceEntry,
                  PlaceFallback, PlaceLeg, SaveOrder, NextPhase, AttachLeg, MarkFilled,
                  CancelRemaining, SyncPending, CheckNaked, CheckLegs, Expire, KeepPending, CleanRow
    <3> QED BY <2>1, <2>2, <3>1
  <2>5. CASE \/ \E o \in Orders, c \in Signals : TryPlace(o, c)
             \/ (\E s \in Strategies : StartSync(s)) \/ StartCleanup
    BY <2>1, <2>5 DEF TryPlace, StartSync, StartCleanup
  <2>6. CASE World
    BY <2>1, <2>2, <2>3, <2>6 DEF World, FillEntry, DropEntry, TriggerLeg, DropLeg, ManualClose
  <2> QED BY <2>1, <2>4, <2>5, <2>6 DEF Next
<1>3. Clean /\ ~Crash
  <2>1. Crash => used'.crashes = used.crashes + 1
    BY <1>1 DEF Crash
  <2>2. used.crashes \in Nat /\ used'.crashes = 0
    BY <1>1 DEF Clean
  <2> QED BY <1>1, <1>2, <2>1, <2>2 DEF Clean
<1>4. \A r \in Outcome : Charge(r) => r.res = "ok" /\ r.eff
  <2> SUFFICES ASSUME NEW r \in Outcome, Charge(r) PROVE r.res = "ok" /\ r.eff
    OBVIOUS
  <2>1. r.res = "ok"
    BY <1>1 DEF Charge, Clean
  <2> QED BY <2>1 DEF Outcome
<1>5. \A n \in Nat : ChargeN(n) => n = 0
  BY <1>1 DEF ChargeN, Clean
<1>6. ASSUME NEW S \in SUBSET ({"ENTRY"} \cup Kinds), ChargeN(Cardinality(S)) PROVE S = {}
  <2>1. Cardinality(S) = 0
    BY <1>5, <1>6, FailedCounts
  <2>2. IsFiniteSet(({"ENTRY"} \cup {"SL"}) \cup {"TP"})
    <3>1. IsFiniteSet({"ENTRY"})
      BY FS_Singleton
    <3>2. IsFiniteSet({"ENTRY"} \cup {"SL"})
      BY <3>1, FS_AddElement
    <3> QED BY <3>2, FS_AddElement
  <2>3. S \subseteq ({"ENTRY"} \cup {"SL"}) \cup {"TP"}
    BY DEF Kinds
  <2> QED BY <2>1, <2>2, <2>3, FS_Subset, FS_EmptySet
<1> QED BY <1>3, <1>4, <1>5, <1>6

(* A step that opens nothing and forgets no id of anything still open.      *)
LEMMA StillTracked ==
    ASSUME Tracked, Clean, Closing, job.pc \notin Collecting,
           \A o \in Orders, n \in Attempts :
              row[o].status = "PENDING" /\ row[o].entry = n /\ ent'[o][n] \in AtWork =>
                  row'[o].status = "PENDING" /\ row'[o].entry = n,
           \A o \in Orders, k \in Kinds, n \in LegIds :
              row[o].leg[k] = n /\ leg'[o][k][n].st = "open" => row'[o].leg[k] = n,
           job'.pc = "mark" /\ job'.phase \in {"place", "expire"} =>
              ent'[job'.tgt][row'[job'.tgt].entry] \notin AtWork
    PROVE  Tracked'
<1>1. \A o \in Orders, n \in Attempts : ent'[o][n] \in AtWork => EntryKnown(o, n)'
  BY DEF Tracked, Closing, EntryKnown, Placing, Collecting, AtWork
<1>2. \A o \in Orders, k \in Kinds, n \in LegIds : leg'[o][k][n].st = "open" => LegKnown(o, k, n)'
  BY DEF Tracked, Closing, LegKnown, Collecting
<1> QED BY <1>1, <1>2 DEF Tracked, AtWork

(* The steps that only read. *)
LEMMA ReadingTracked ==
    ASSUME Sound, Tracked, [Next]_vars, Clean', UNCHANGED <<row, exchange>>,
           job.pc \notin Collecting, job'.pc # "mark"
    PROVE  Tracked'
<1>1. Clean /\ Closing
  BY WentWell DEF Sound, exchange, Closing
<1> QED BY <1>1, StillTracked DEF exchange

(* Fills, triggers, manual actions and the live switch. *)
LEMMA WorldTracked ==
    ASSUME Sound, Tracked, Clean', World
    PROVE  Tracked'
<1>1. [Next]_vars /\ Inv
  BY DEF Next, Sound
<1>2. Clean /\ ~Crash
  BY <1>1, WentWell
<1>3. UNCHANGED <<row, job>>
  BY <1>2 DEF World, FillEntry, DropEntry, TriggerLeg, DropLeg, ManualClose, SetLive
<1>4. Closing
  BY <1>1, WorldCloses DEF Inv
<1>5. job.pc = "mark" /\ job.phase \in {"place", "expire"} =>
          ent'[job.tgt][row[job.tgt].entry] \notin AtWork
  <2>1. job.pc = "mark" /\ job.phase \in {"place", "expire"} =>
            /\ job.tgt \in Orders /\ row[job.tgt].entry \in Attempts
            /\ ent[job.tgt][row[job.tgt].entry] \notin AtWork
    BY <1>2 DEF Sound, Inv, HandlerUpToDate, MarkingUpToDate, Books, RowsWhole, Tracked, Active
  <2> QED BY <1>4, <2>1 DEF Closing
<1> QED BY <1>2, <1>3, <1>4, <1>5 DEF Tracked, Closing, EntryKnown, LegKnown, AtWork

(* Withdrawing a row: its entry goes before its status does. *)
LEMMA CancelTracked ==
    ASSUME Sound, Tracked, [Next]_vars, Clean', CancelBinanceOrder \/ CancelRemaining
    PROVE  Tracked'
<1>1. Clean /\ Closing /\ UNCHANGED row /\ TypeOK
  <2>1. ~(PlaceEntry \/ PlaceFallback \/ PlaceLeg \/ AttachLeg)
    BY DEF CancelBinanceOrder, CancelRemaining, PlaceEntry, PlaceFallback, PlaceLeg, AttachLeg
  <2> QED BY <2>1, WentWell, ClosingSteps DEF Sound, Inv, CancelBinanceOrder, CancelRemaining
<1>2. job'.tgt = job.tgt /\ job'.phase = job.phase /\ job.pc \in {"cancel", "remaining"}
  BY DEF Sound, Inv, TypeOK, Job, CancelBinanceOrder, CancelRemaining, Goto
<1>3. CASE CancelBinanceOrder
  <2>1. job.tgt \in Orders /\ row[job.tgt].status = "PENDING"
    BY <1>3 DEF CancelBinanceOrder, Sound, Inv, HandlerUpToDate, MarkingUpToDate
  <2>2. row[job.tgt].entry \in Attempts
    BY <2>1 DEF Sound, Books, RowsWhole, Active
  <2>3. PICK failed \in SUBSET ({"ENTRY"} \cup Recorded(job.tgt)) :
          /\ ChargeN(Cardinality(failed))
          /\ CancelEntry(job.tgt, row[job.tgt].entry, "ENTRY" \notin failed)
    BY <1>3 DEF CancelBinanceOrder
  <2>4. failed = {}
    BY <2>3, WentWell DEF Sound, Recorded
  <2>5. CancelEntry(job.tgt, row[job.tgt].entry, TRUE)
    BY <2>3, <2>4 DEF CancelEntry
  <2>6. ent'[job.tgt][row[job.tgt].entry] \notin AtWork
    <3>1. PICK t \in Orders, m \in Attempts : t = job.tgt /\ m = row[job.tgt].entry
      BY <2>1, <2>2
    <3>2. CancelEntry(t, m, TRUE)
      BY <2>5, <3>1
    <3>3. ent'[t][m] \notin AtWork
      BY <1>1, <3>2 DEF CancelEntry, TypeOK, AtWork
    <3> QED BY <3>1, <3>3
  <2> QED BY <1>1, <1>2, <2>6, StillTracked DEF Collecting
<1>4. CASE CancelRemaining
  <2>1. job.phase = "filled"
    BY <1>4 DEF CancelRemaining, Sound, Inv, HandlerUpToDate, MarkingUpToDate
  <2> QED BY <1>1, <1>2, <2>1, StillTracked DEF Collecting
<1> QED BY <1>3, <1>4

(* The row is marked: nothing of it is at work any more. *)
LEMMA MarkTracked ==
    ASSUME Sound, Tracked, [Next]_vars, Clean', MarkStatus \/ SaveStatusRow
    PROVE  Tracked'
<1>1. /\ Clean /\ Closing /\ UNCHANGED exchange
      /\ job.pc \in {"mark", "status"} /\ job'.pc # "mark"
  <2>1. UNCHANGED exchange /\ job.pc \in {"mark", "status"}
    BY DEF MarkStatus, SaveStatusRow
  <2>2. job'.pc # "mark"
    BY JobShapes DEF MarkStatus, SaveStatusRow, Done
  <2> QED BY <2>1, <2>2, WentWell DEF Sound, Closing, exchange
<1>2. CASE MarkStatus
  <2>1. job.tgt \in Orders /\ job.pc = "mark"
    BY <1>2 DEF MarkStatus, Sound, Inv, HandlerUpToDate, MarkingUpToDate
  <2>2. /\ \A o \in Orders : row'[o].leg = row[o].leg
        /\ \A o \in Orders \ {job.tgt} : row'[o] = row[o]
    BY <1>2 DEF MarkStatus, Sound, Inv, TypeOK, Row
  <2>3. row[job.tgt].status = "PENDING" => ent[job.tgt][row[job.tgt].entry] \notin AtWork
    BY <1>1, <2>1 DEF Tracked, Sound, Inv, HandlerUpToDate, MarkingUpToDate
  <2> QED BY <1>1, <2>1, <2>2, <2>3, StillTracked DEF exchange, Collecting
<1>3. CASE SaveStatusRow
  <2>1. job.o \in Orders /\ row[job.o].status = "NONE"
    BY <1>3 DEF SaveStatusRow, Sound, Inv, HandlerUpToDate, PlacingUpToDate
  <2>2. row[job.o].leg = NoLegs
    BY <2>1 DEF Sound, Books, RowsWhole
  <2>3. /\ \A o \in Orders \ {job.o} : row'[o] = row[o]
        /\ row'[job.o].leg = NoLegs
    BY <1>3, <2>1 DEF SaveStatusRow, Sound, Inv, TypeOK, NoRow
  <2> QED BY <1>1, <2>1, <2>2, <2>3, StillTracked DEF exchange, Collecting
<1> QED BY <1>2, <1>3

(* The pending loop writes only of entries that are done. *)
LEMMA SyncTracked ==
    ASSUME Sound, Tracked, [Next]_vars, Clean', NEW x \in Orders, SyncPending(x)
    PROVE  Tracked'
<1>1. /\ Clean /\ Closing /\ UNCHANGED exchange /\ job.pc = "pass" /\ job'.pc # "mark"
  <2>1. UNCHANGED exchange /\ job.pc = "pass"
    BY DEF SyncPending, InPhase
  <2>2. job'.pc # "mark"
    BY SyncMove DEF Sound, Rests, Resting, AttachStarts, CloseStarts
  <2> QED BY <2>1, <2>2, WentWell DEF Sound, Closing, exchange
<1>2. ASSUME NEW o \in Orders, row'[o] # row[o]
      PROVE  row'[o].leg = row[o].leg /\ ent[o][row[o].entry] \notin AtWork
  <2>1. Resolved(o)
    BY <1>1, <1>2, RowMoves
    DEF Sound, Saved, SaveOrder, Turned, SaveStatusRow, Marked, MarkStatus, Completed, MarkFilled,
        Lost, CheckLegs, Swept, CleanRow, InPhase, SyncPending
  <2> QED BY <2>1 DEF Resolved, SameIds, EntryOf, AtWork
<1> QED BY <1>1, <1>2, StillTracked DEF exchange, Collecting

(* A column is cleared only when the leg is not on the exchange any more. *)
LEMMA LegsTracked ==
    ASSUME Sound, Tracked, [Next]_vars, Clean', NEW x \in Orders, CheckLegs(x)
    PROVE  Tracked'
<1>1. /\ Clean /\ Closing /\ UNCHANGED exchange /\ job.pc = "pass" /\ job'.pc # "mark"
      /\ row \in [Orders -> Row]
  <2>1. UNCHANGED exchange /\ job.pc = "pass"
    BY DEF CheckLegs, InPhase
  <2>2. job'.pc # "mark"
    BY LegsMove DEF Sound, Rests, Resting, CloseStarts
  <2> QED BY <2>1, <2>2, WentWell DEF Sound, Closing, exchange, Inv, TypeOK
<1>2. PICK sl \in Answers(x, "SL"), tp \in Answers(x, "TP") :
          /\ ChargeN(Cardinality({k \in Kinds : (IF k = "SL" THEN sl ELSE tp) # Truth(x, k)}))
          /\ \/ row' = row
             \/ sl = "lost" /\ ClearLeg(x, "SL")
             \/ tp = "lost" /\ ClearLeg(x, "TP")
  BY DEF CheckLegs
<1>3. {k \in Kinds : (IF k = "SL" THEN sl ELSE tp) # Truth(x, k)} = {}
  BY <1>2, WentWell DEF Sound
<1>4. sl = Truth(x, "SL") /\ tp = Truth(x, "TP")
  BY <1>3 DEF Kinds
<1>5. ASSUME NEW k \in Kinds, Truth(x, k) = "lost" PROVE leg[x][k][row[x].leg[k]].st # "open"
  BY <1>5 DEF Truth, LegOf
<1>6. CASE row' = row
  BY <1>1, <1>6, StillTracked DEF exchange, Collecting
<1>7. ASSUME NEW j \in Kinds, Truth(x, j) = "lost", ClearLeg(x, j) PROVE Tracked'
  <2>1. row' = [row EXCEPT ![x] = [row[x] EXCEPT !.leg = [row[x].leg EXCEPT ![j] = 0]]]
    BY <1>1, <1>7 DEF ClearLeg
  <2>2. /\ \A o \in Orders : row'[o].status = row[o].status /\ row'[o].entry = row[o].entry
        /\ \A o \in Orders, k \in Kinds : (o = x /\ k = j) \/ row'[o].leg[k] = row[o].leg[k]
    BY <1>1, <2>1 DEF Row
  <2>3. \A o \in Orders, k \in Kinds, n \in LegIds :
            row[o].leg[k] = n /\ leg'[o][k][n].st = "open" => row'[o].leg[k] = n
    BY <1>1, <1>5, <1>7, <2>2 DEF exchange
  <2> QED BY <1>1, <2>2, <2>3, StillTracked DEF exchange, Collecting
<1> QED BY <1>2, <1>4, <1>6, <1>7 DEF Kinds

(* The sweep clears the columns of the legs it has cancelled. *)
LEMMA CleanTracked ==
    ASSUME Sound, Tracked, [Next]_vars, Clean', NEW x \in Orders, CleanRow(x)
    PROVE  Tracked'
<1>1. /\ Clean /\ Closing /\ job.pc = "pass" /\ job'.pc # "mark" /\ TypeOK
  <2>1. job.pc = "pass" /\ Rests
    BY RestShapes DEF CleanRow, InPhase
  <2>2. ~(PlaceEntry \/ PlaceFallback \/ PlaceLeg \/ AttachLeg)
    BY <2>1 DEF PlaceEntry, PlaceFallback, PlaceLeg, AttachLeg
  <2> QED BY <2>1, <2>2, WentWell, ClosingSteps DEF Sound, Inv, Rests, Resting
<1>2. PICK failed \in SUBSET Recorded(x) :
          /\ ChargeN(Cardinality(failed)) /\ CancelLegs(x, Recorded(x) \ failed)
          /\ row' = [row EXCEPT ![x].leg =
                        [k \in Kinds |-> IF k \in failed THEN row[x].leg[k] ELSE 0]]
  BY DEF CleanRow
<1>3. failed = {}
  BY <1>2, WentWell DEF Sound, Recorded
<1>4. /\ \A o \in Orders : row'[o].status = row[o].status /\ row'[o].entry = row[o].entry
      /\ \A o \in Orders \ {x} : row'[o].leg = row[o].leg
  BY <1>1, <1>2 DEF TypeOK, Row
<1>5. ASSUME NEW k \in Kinds, NEW n \in LegIds, row[x].leg[k] = n, leg'[x][k][n].st = "open"
      PROVE  FALSE
  <2>1. k \in Recorded(x) \ failed
    BY <1>3, <1>5 DEF Recorded, LegIds
  <2> QED BY <1>1, <1>2, <1>5, <2>1, LegsCancelled DEF NoLeg
<1> QED BY <1>1, <1>4, <1>5, StillTracked DEF Collecting

(* Placing an entry: it is open and in the handler from the same step on. *)
LEMMA EntryTracked ==
    ASSUME Sound, Tracked, [Next]_vars, Clean', PlaceEntry
    PROVE  Tracked'
<1>1. /\ Clean /\ job.pc = "entry" /\ job.o \in Orders /\ TypeOK
      /\ UNCHANGED <<row, leg>> /\ 1 \in Attempts
  BY WentWell DEF PlaceEntry, Sound, Inv, HandlerUpToDate, PlacingUpToDate, PlaceSteps, Attempts
<1>2. /\ ent' = [ent EXCEPT ![job.o][1] = "open"]
      /\ job' = [job EXCEPT !.pc = "leg", !.entry = 1, !.need = Kinds]
  <2>1. \A r \in Outcome : Charge(r) => r.res = "ok" /\ r.eff
    BY WentWell DEF Sound
  <2> QED BY <2>1 DEF PlaceEntry
<1>3. job'.pc = "leg" /\ job'.entry = 1 /\ job'.o = job.o
  BY <1>1, <1>2 DEF TypeOK, Job
<1>4. \A o \in Orders, n \in Attempts :
          ent'[o][n] = IF o = job.o /\ n = 1 THEN "open" ELSE ent[o][n]
  BY <1>1, <1>2, EntryOpened
<1>5. \A o \in Orders, n \in Attempts : ent'[o][n] \in AtWork => EntryKnown(o, n)'
  BY <1>1, <1>3, <1>4 DEF Tracked, EntryKnown, Placing
<1>6. \A o \in Orders, k \in Kinds, n \in LegIds : leg'[o][k][n].st = "open" => LegKnown(o, k, n)'
  BY <1>1 DEF Tracked, LegKnown, Collecting
<1> QED BY <1>3, <1>5, <1>6 DEF Tracked

(* Placing a leg likewise. *)
LEMMA LegTracked ==
    ASSUME Sound, Tracked, [Next]_vars, Clean', PlaceLeg
    PROVE  Tracked'
<1> DEFINE k == NextLeg(job.need)
<1>1. /\ Clean /\ job.pc = "leg" /\ TypeOK /\ UNCHANGED <<row, ent>> /\ job.need # {}
      /\ job.leg \in [Kinds -> LegIds0]
  BY WentWell, JobFields DEF PlaceLeg, Sound, Inv, Books, JobWhole
<1>2. k \in job.need /\ k \in Kinds /\ job.leg[k] = 0 /\ job.o \in Orders
  BY <1>1, JobFields
  DEF NextLeg, Kinds, Sound, Books, JobWhole, Inv, HandlerUpToDate, PlacingUpToDate, PlaceSteps
<1>3. PICK n \in Fresh(job.o, k) :
          /\ leg' = [leg EXCEPT ![job.o][k][n] = [st |-> "open", qty |-> 1]]
          /\ job' = [job EXCEPT !.pc = IF job.need = {k} THEN "save" ELSE "leg",
                                !.need = @ \ {k}, !.leg[k] = n]
  <2>1. \A r \in Outcome : Charge(r) => r.res = "ok" /\ r.eff
    BY WentWell DEF Sound
  <2> QED BY <2>1 DEF PlaceLeg, OpenLeg
<1>4. n \in LegIds /\ n # 0
  BY DEF Fresh, LegIds
<1> HIDE DEF k
<1>5. /\ job'.pc \in Placing /\ job'.o = job.o /\ job'.entry = job.entry
      /\ job'.leg = [job.leg EXCEPT ![k] = n]
  BY <1>1, <1>3 DEF TypeOK, Job, Placing
<1>6. \A o \in Orders, j \in Kinds, m \in LegIds :
          leg'[o][j][m] = IF o = job.o /\ j = k /\ m = n
                          THEN [st |-> "open", qty |-> 1] ELSE leg[o][j][m]
  <2>1. PICK v : v = [st |-> "open", qty |-> 1]
    OBVIOUS
  <2>2. leg' = [leg EXCEPT ![job.o] = [leg[job.o] EXCEPT ![k] = [leg[job.o][k] EXCEPT ![n] = v]]]
    BY <1>1, <1>3, <2>1 DEF TypeOK
  <2>3. \A o \in Orders, j \in Kinds, m \in LegIds :
            leg'[o][j][m] = IF o = job.o /\ j = k /\ m = n THEN v ELSE leg[o][j][m]
    BY <1>1, <1>2, <1>4, <2>2 DEF TypeOK
  <2> QED BY <2>1, <2>3
<1>7. \A o \in Orders, m \in Attempts : ent'[o][m] \in AtWork => EntryKnown(o, m)'
  BY <1>1, <1>5 DEF Tracked, EntryKnown, Placing
<1>8. \A o \in Orders, j \in Kinds, m \in LegIds : leg'[o][j][m].st = "open" => LegKnown(o, j, m)'
  <2> SUFFICES ASSUME NEW o \in Orders, NEW j \in Kinds, NEW m \in LegIds,
                      leg'[o][j][m].st = "open"
               PROVE  row[o].leg[j] = m \/ (job'.o = o /\ job'.leg[j] = m)
    BY <1>1, <1>5 DEF LegKnown, Placing, Collecting
  <2>1. CASE o = job.o /\ j = k /\ m = n
    BY <1>1, <1>5, <2>1
  <2>2. CASE ~(o = job.o /\ j = k /\ m = n)
    <3>1. row[o].leg[j] = m \/ (job.o = o /\ job.leg[j] = m)
      BY <1>1, <1>6, <2>2 DEF Tracked, LegKnown
    <3>2. job.o = o /\ job.leg[j] = m => j # k
      BY <1>2 DEF LegIds
    <3> QED BY <1>1, <1>5, <3>1, <3>2
  <2> QED BY <2>1, <2>2
<1> QED BY <1>5, <1>7, <1>8 DEF Tracked, Placing

(* Saving hands the ids over from the handler to the row. *)
LEMMA SaveTracked ==
    ASSUME Sound, Tracked, [Next]_vars, Clean', SaveOrder
    PROVE  Tracked'
<1>1. /\ Clean /\ job.pc = "save" /\ TypeOK /\ UNCHANGED exchange /\ job.o \in Orders
      /\ row[job.o].status = "NONE" /\ row[job.o].leg = NoLegs
  BY WentWell
  DEF SaveOrder, Sound, Inv, Books, RowsWhole, HandlerUpToDate, PlacingUpToDate, PlaceSteps
<1>2. /\ row'[job.o].status = "PENDING" /\ row'[job.o].entry = job.entry
      /\ row'[job.o].leg = job.leg /\ \A o \in Orders \ {job.o} : row'[o] = row[o]
  BY <1>1 DEF SaveOrder, TypeOK
<1>3. job'.pc = "idle"
  BY JobShapes DEF SaveOrder
<1>4. \A o \in Orders, n \in Attempts : ent'[o][n] \in AtWork => EntryKnown(o, n)'
  BY <1>1, <1>2 DEF Tracked, EntryKnown, exchange
<1>5. \A o \in Orders, k \in Kinds, n \in LegIds : leg'[o][k][n].st = "open" => LegKnown(o, k, n)'
  BY <1>1, <1>2 DEF Tracked, LegKnown, NoLegs, LegIds, exchange
<1> QED BY <1>3, <1>4, <1>5 DEF Tracked

(* Completing a row: its entry is filled, and its legs go into it. *)
LEMMA CompleteTracked ==
    ASSUME Sound, Tracked, [Next]_vars, Clean', MarkFilled
    PROVE  Tracked'
<1>1. /\ Clean /\ job.pc = "markFilled" /\ TypeOK /\ UNCHANGED exchange /\ job.o \in Orders
      /\ EntryOf(job.o) = "filled" /\ row'[job.o].leg = job.leg
  BY WentWell, CompletedIds
  DEF MarkFilled, Sound, Inv, Warranted, HandlerUpToDate, LoopsUpToDate
<1>2. \A o \in Orders \ {job.o} : row'[o] = row[o]
  BY <1>1 DEF MarkFilled, TypeOK
<1>3. job'.pc # "mark"
  <2>1. Done(job.o) => job'.pc = "pass"
    BY JobShapes DEF Done
  <2>2. Goto("attach") => job'.pc = "attach"
    BY <1>1 DEF Goto, TypeOK, Job
  <2> QED BY <2>1, <2>2 DEF MarkFilled
<1>4. \A o \in Orders, n \in Attempts : ent'[o][n] \in AtWork => EntryKnown(o, n)'
  BY <1>1, <1>2 DEF Tracked, EntryKnown, EntryOf, Placing, AtWork, exchange
<1>5. \A k \in Kinds : row[job.o].leg[k] # 0 => job.leg[k] = row[job.o].leg[k]
  BY <1>1 DEF Sound, Books, JobWhole
<1>6. \A o \in Orders, k \in Kinds, n \in LegIds : leg'[o][k][n].st = "open" => LegKnown(o, k, n)'
  BY <1>1, <1>2, <1>5 DEF Tracked, LegKnown, LegIds, exchange
<1> QED BY <1>3, <1>4, <1>6 DEF Tracked

(* One leg of a row under completion: placed and held, or given up.  The    *)
(* handler leaves the row only when it holds what the row holds.            *)
LEMMA AttachTracked ==
    ASSUME Sound, Tracked, [Next]_vars, Clean', AttachLeg
    PROVE  Tracked'
<1> DEFINE k == NextLeg(job.need)
<1>1. /\ Clean /\ job.pc = "attach" /\ TypeOK /\ UNCHANGED <<row, ent>> /\ job.need # {}
      /\ job.leg \in [Kinds -> LegIds0] /\ job.o \in Orders
  BY WentWell, JobFields DEF AttachLeg, Sound, Inv, Books, JobWhole, HandlerUpToDate, LoopsUpToDate
<1>2. k \in job.need /\ k \in Kinds /\ job.leg[k] = 0
  BY <1>1, JobFields DEF NextLeg, Kinds, Sound, Books, JobWhole, Inv
<1>3. PICK m \in LegIds0 :
          /\ LegSettled(k, m)
          /\ \/ m = 0 /\ leg' = leg
             \/ m \in LegIds /\ leg' = [leg EXCEPT ![job.o][k][m] = [st |-> "open", qty |-> job.qty]]
  <2>1. \A r \in Outcome : Charge(r) => r.res = "ok" /\ r.eff
    BY WentWell DEF Sound
  <2> QED BY <2>1, Members DEF AttachLeg, OpenLeg, Fresh
<1> HIDE DEF k
<1>4. \A o \in Orders, j \in Kinds, n \in LegIds :
          leg'[o][j][n].st = "open" => leg[o][j][n].st = "open" \/ (o = job.o /\ j = k /\ n = m)
  <2>1. CASE leg' = leg
    BY <2>1
  <2>2. CASE m \in LegIds /\ leg' = [leg EXCEPT ![job.o][k][m] = [st |-> "open", qty |-> job.qty]]
    <3>1. PICK v : v = [st |-> "open", qty |-> job.qty]
      OBVIOUS
    <3>2. leg' = [leg EXCEPT ![job.o] = [leg[job.o] EXCEPT ![k] = [leg[job.o][k] EXCEPT ![m] = v]]]
      BY <1>1, <2>2, <3>1 DEF TypeOK
    <3>3. \A o \in Orders, j \in Kinds, n \in LegIds :
              leg'[o][j][n] = IF o = job.o /\ j = k /\ n = m THEN v ELSE leg[o][j][n]
      BY <1>1, <1>2, <2>2, <3>2 DEF TypeOK
    <3> QED BY <3>3
  <2> QED BY <1>3, <2>1, <2>2
<1>5. CASE Done(job.o)
  <2>1. job'.pc = "pass"
    BY <1>5, JobShapes DEF Done
  <2>2. m = 0 /\ leg' = leg /\ job.phase = "filled"
    <3>1. \/ AfterAttach(job.need \ {k}, m # 0) = "pass"
          \/ job'.pc = AfterAttach(job.need \ {k}, m # 0)
      <4>1. CASE AfterAttach(job.need \ {k}, m # 0) = "pass"
        BY <4>1
      <4>2. CASE AfterAttach(job.need \ {k}, m # 0) # "pass"
        <5> DEFINE next == AfterAttach(job.need \ {k}, m # 0)
        <5>1. job' = [job EXCEPT !.pc = next, !.need = @ \ {k}, !.tries = 0, !.leg[k] = m]
          BY <1>3, <4>2 DEF LegSettled
        <5> HIDE DEF next
        <5>2. job'.pc = next
          BY <1>1, <5>1 DEF TypeOK, Job
        <5> QED BY <5>2 DEF next
      <4> QED BY <4>1, <4>2
    <3>2. AfterAttach(job.need \ {k}, m # 0) = "pass"
      BY <2>1, <3>1
    <3>3. job.phase = "filled" /\ ~(m # 0)
      BY <3>2 DEF AfterAttach
    <3>4. 0 \notin LegIds
      BY DEF LegIds
    <3> QED BY <1>3, <3>3, <3>4
  <2>3. job.leg = row[job.o].leg
    BY <1>1, <2>2 DEF Sound, Books, JobWhole
  <2>4. \A o \in Orders, n \in Attempts : ent'[o][n] \in AtWork => EntryKnown(o, n)'
    BY <1>1 DEF Tracked, EntryKnown, Placing
  <2>5. \A o \in Orders, j \in Kinds, n \in LegIds : leg'[o][j][n].st = "open" => LegKnown(o, j, n)'
    BY <1>1, <2>2, <2>3 DEF Tracked, LegKnown
  <2> QED BY <2>1, <2>4, <2>5 DEF Tracked
<1>6. CASE ~Done(job.o)
  <2> DEFINE next == AfterAttach(job.need \ {k}, m # 0)
  <2>1. /\ job' = [job EXCEPT !.pc = next, !.need = @ \ {k}, !.tries = 0, !.leg[k] = m]
        /\ next \in {"attach", "markFilled"}
    BY <1>3, <1>6 DEF LegSettled, AfterAttach
  <2> HIDE DEF next
  <2>2. /\ job'.pc \in {"attach", "markFilled"} /\ job'.o = job.o
        /\ job'.leg = [job.leg EXCEPT ![k] = m]
    BY <1>1, <2>1 DEF TypeOK, Job
  <2>3. \A o \in Orders, n \in Attempts : ent'[o][n] \in AtWork => EntryKnown(o, n)'
    BY <1>1 DEF Tracked, EntryKnown, Placing
  <2>4. \A o \in Orders, j \in Kinds, n \in LegIds : leg'[o][j][n].st = "open" => LegKnown(o, j, n)'
    <3> SUFFICES ASSUME NEW o \in Orders, NEW j \in Kinds, NEW n \in LegIds,
                        leg'[o][j][n].st = "open"
                 PROVE  row[o].leg[j] = n \/ (job.o = o /\ job'.leg[j] = n)
      BY <1>1, <2>2 DEF LegKnown, Collecting
    <3>1. CASE o = job.o /\ j = k /\ n = m
      BY <1>1, <1>2, <2>2, <3>1
    <3>2. CASE ~(o = job.o /\ j = k /\ n = m)
      <4>1. row[o].leg[j] = n \/ (job.o = o /\ job.leg[j] = n)
        BY <1>1, <1>4, <3>2 DEF Tracked, LegKnown
      <4>2. job.o = o /\ job.leg[j] = n => j # k
        BY <1>2 DEF LegIds
      <4> QED BY <1>1, <2>2, <4>1, <4>2
    <3> QED BY <3>1, <3>2
  <2> QED BY <2>2, <2>3, <2>4 DEF Tracked
<1> QED BY <1>5, <1>6

(* Every step keeps the exchange known. *)
LEMMA TrackedStep ==
    ASSUME Sound, Tracked, [Next]_vars
    PROVE  Tracked'
<1> SUFFICES ASSUME Clean' PROVE Tracked'
  BY DEF Tracked
<1>1. Inv /\ Clean /\ (job.pc = "fallback" => FALSE)
  BY WentWell DEF Sound, Cap, Clean
<1>2. CASE UNCHANGED vars
  BY <1>1, <1>2 DEF vars, exchange, Tracked, Clean, EntryKnown, LegKnown
<1>3. CASE World
  BY <1>3, WorldTracked
<1>4. CASE CancelBinanceOrder \/ CancelRemaining
  BY <1>4, CancelTracked
<1>5. CASE MarkStatus \/ SaveStatusRow
  BY <1>5, MarkTracked
<1>6. CASE PlaceEntry
  BY <1>6, EntryTracked
<1>7. CASE PlaceFallback
  BY <1>1, <1>7 DEF PlaceFallback
<1>8. CASE PlaceLeg
  BY <1>8, LegTracked
<1>9. CASE SaveOrder
  BY <1>9, SaveTracked
<1>10. CASE AttachLeg
  BY <1>10, AttachTracked
<1>11. CASE MarkFilled
  BY <1>11, CompleteTracked
<1>12. CASE \E x \in Orders : SyncPending(x) \/ CheckLegs(x) \/ CleanRow(x)
  BY <1>12, SyncTracked, LegsTracked, CleanTracked
<1>13. CASE \/ RiskCheck \/ NextPhase \/ StartCleanup
            \/ (\E s \in Strategies : StartSync(s))
            \/ (\E x \in Orders, c \in Signals : TryPlace(x, c))
            \/ \E x \in Orders : CheckNaked(x) \/ Expire(x) \/ KeepPending(x)
  <2>1. UNCHANGED <<row, exchange>> /\ job.pc \in {"risk", "pass", "idle"}
    BY <1>13 DEF RiskCheck, NextPhase, StartCleanup, StartSync, TryPlace, CheckNaked, Expire,
                 KeepPending, InPhase
  <2>2. job'.pc # "mark"
    <3>1. ~(CancelBinanceOrder \/ CancelRemaining)
      BY <2>1 DEF CancelBinanceOrder, CancelRemaining
    <3> QED BY <1>1, <2>1, <3>1, HandlerMoves
        DEF Rests, Resting, Withdrawing, CloseStarts, PlacingMoves, LegPlacing, AttachStarts,
            Attaching, AttachGoesOnAfterMark
  <2> QED BY <2>1, <2>2, ReadingTracked DEF Collecting
<1> QED BY <1>2, <1>3, <1>4, <1>5, <1>6, <1>7, <1>8, <1>9, <1>10, <1>11, <1>12, <1>13
        DEF Next, JobStep

(* Until a call fails or the process stops, every entry and leg open on the *)
(* exchange is recorded in its row or held by the handler that will record  *)
(* it, whatever fills, triggers or is cancelled in between.                 *)
THEOREM AllTracked == Spec => []NothingUntracked
<1>1. Init => Tracked
  <2> SUFFICES ASSUME Init PROVE Tracked
    OBVIOUS
  <2>1. /\ \A o \in Orders, n \in Attempts : ent[o][n] = "absent"
        /\ \A o \in Orders, k \in Kinds, n \in LegIds : leg[o][k][n].st = "absent"
        /\ job.pc = "idle"
    BY DEF Init, NoLeg, IdleJob
  <2> QED BY <2>1 DEF Tracked, AtWork
<1>2. Init => Warranted /\ ClosedByItsLeg /\ Cap
  <2> SUFFICES ASSUME Init PROVE Warranted /\ ClosedByItsLeg /\ Cap
    OBVIOUS
  <2>1. Warranted /\ ClosedByItsLeg
    BY DEF Init, Warranted, ClosedByItsLeg, NoRow, IdleJob, Closed
  <2>2. Cap
    BY CapInit
  <2> QED BY <2>1, <2>2
<1>3. Init => Sound
  BY InitInv, BooksInit, <1>2 DEF Sound
<1>4. Sound /\ Tracked /\ [Next]_vars => Sound' /\ Tracked'
  <2> SUFFICES ASSUME Sound, Tracked, [Next]_vars PROVE Sound' /\ Tracked'
    OBVIOUS
  <2>1. Tracked'
    BY TrackedStep
  <2>2. Inv' /\ Books' /\ Warranted' /\ ClosedByItsLeg' /\ Cap'
    BY InvStep, BooksStep, WarrantedStep, ClosedStep, CapStep DEF Sound
  <2> QED BY <2>1, <2>2 DEF Sound
<1>5. Tracked => NothingUntracked
  BY DEF Tracked, NothingUntracked, Clean, EntryKnown, LegKnown, Placing, AtWork, PlaceSteps
<1> QED BY <1>1, <1>3, <1>4, <1>5, PTL DEF Spec

=============================================================================
