------------------------------ MODULE HotOutcome ------------------------------
(* What became of a plan for a hot coin (hotlist/performance.py on the tables of    *)
(* hotlist/performance_repository.py).  Every run judges the plan again at every     *)
(* horizon reached, from the hourly bars the exchange still serves, and stores each  *)
(* verdict over the one before.  Time goes in half hours; a bar is the set of the   *)
(* plan's levels it touches.                                                     *)
EXTENDS Integers, FiniteSetsExt

CONSTANTS Horizons,    \* in hours
          Served,      \* closed bars an answer holds
          Expiry,      \* half hours the entry is valid
          Creations,   \* half hours at which the plan may be made
          LastHour,    \* bound on time
          None
HotOutcomeAssumption ==
  /\ IsFiniteSet(Horizons) /\ Horizons \subseteq Nat \ {0} /\ Horizons # {}
  /\ Served \in Nat \ {0} /\ Expiry \in Nat /\ Creations \subseteq 0..1
  /\ LastHour \in Nat

VARIABLES clock,      \* half hours
          created,    \* when the plan was made
          bars,       \* closed hourly bars: [hours -> levels touched]
          job,        \* the evaluation in progress, or None
          outcomes    \* rows of hotlist_outcomes: [Horizons -> row or None]
vars == <<clock, created, bars, job, outcomes>>

Levels == {"stop", "tp1", "tp2"}
Possible == {{}, {"stop"}, {"tp1"}, {"tp1", "tp2"}, {"stop", "tp1"}}   \* a bar that reaches TP2 passes TP1
Statuses == {"OPEN", "TP1_HIT", "TP2_HIT", "SL_HIT", "EXPIRED"}
Hours == 0..LastHour - 1
Row ==
  [status : Statuses, exit : {"entry", "stop", "tp1", "tp2", "close"}, bar : -1..LastHour - 1,
   at : 0..2 * LastHour, first : 0..LastHour]

TypeOK ==
  /\ clock \in 0..2 * LastHour /\ created \in Creations
  /\ DOMAIN bars = 0..(clock \div 2) - 1 /\ \A b \in DOMAIN bars : bars[b] \in Possible
  /\ job = None \/ job \in [now : 0..2 * LastHour, got : (SUBSET Hours) \cup {None}, todo : SUBSET Horizons]
  /\ outcomes \in [Horizons -> Row \cup {None}]

-----------------------------------------------------------------------------
(* The bars that close after the plan is made and up to the horizon, in order: the  *)
(* first stop or second target decides, the stop first within a bar.              *)
CloseOf(b) == 2 * (b + 1)
Relevant(got, h) == {b \in got : CloseOf(b) > created /\ CloseOf(b) <= created + 2 * h}
Final(b) == "stop" \in bars[b] \/ "tp2" \in bars[b]
Judged(status, exit, bar) == [status |-> status, exit |-> exit, bar |-> bar]
Verdict(got, h, now) ==
  LET relevant == Relevant(got, h)
      final == {b \in relevant : Final(b)}
      touched == \E b \in relevant : "tp1" \in bars[b]
  IN IF final # {} THEN IF "stop" \in bars[Min(final)] THEN Judged("SL_HIT", "stop", -1)
                                                       ELSE Judged("TP2_HIT", "tp2", -1)
     ELSE IF touched THEN Judged("TP1_HIT", "tp1", -1)
     ELSE IF relevant = {} THEN Judged("OPEN", "entry", -1)
     ELSE Judged(IF now >= created + Expiry THEN "EXPIRED" ELSE "OPEN", "close", Max(relevant))

-----------------------------------------------------------------------------
(* A run: the time is fixed first, then the exchange answers. *)
Due(now) == {h \in Horizons : now - created >= 2 * h}
Evaluate ==
  /\ job = None /\ clock >= created
  /\ job' = [now |-> clock, got |-> None, todo |-> Due(clock)]
  /\ UNCHANGED <<clock, created, bars, outcomes>>
LastServed(hour) == {b \in Hours : b < hour /\ b >= hour - Served}
Klines ==
  /\ job # None /\ job.got = None
  /\ job' = [job EXCEPT !.got = LastServed(clock \div 2)]
  /\ UNCHANGED <<clock, created, bars, outcomes>>
(* Horizons are judged and stored one by one, the shortest first. *)
SaveOutcome ==
  /\ job # None /\ job.got # None /\ job.todo # {}
  /\ LET h == Min(job.todo)
         v == Verdict(job.got, h, job.now)
         first == IF job.got = {} THEN 0 ELSE Min(job.got)
     IN /\ outcomes' = [outcomes EXCEPT ![h] = [status |-> v.status, exit |-> v.exit, bar |-> v.bar,
                                           at |-> job.now, first |-> first]]
        /\ job' = [job EXCEPT !.todo = @ \ {h}]
  /\ UNCHANGED <<clock, created, bars>>
(* Done, or broken off: no answer, or the process ends. *)
Leave ==
  /\ job # None /\ job' = None
  /\ UNCHANGED <<clock, created, bars, outcomes>>

(* Half an hour passes; on the hour a bar closes. *)
Tick(hit) ==
  /\ clock < 2 * LastHour - 1
  /\ clock' = clock + 1
  /\ bars' = IF clock' % 2 = 1 THEN bars
             ELSE [b \in 0..(clock' \div 2) - 1 |-> IF b \in DOMAIN bars THEN bars[b] ELSE hit]
  /\ UNCHANGED <<created, job, outcomes>>

Init == /\ clock = 0 /\ created \in Creations /\ bars = [b \in {} |-> {}]
        /\ job = None /\ outcomes = [h \in Horizons |-> None]
Next == \/ Evaluate \/ Klines \/ SaveOutcome \/ Leave
        \/ \E hit \in Possible : Tick(hit)
Spec == Init /\ [][Next]_vars

-----------------------------------------------------------------------------
Reached(h) == outcomes[h] # None
Whole(h) == Reached(h) /\ outcomes[h].first <= created \div 2
Decided(h) == Reached(h) /\ outcomes[h].status \in {"SL_HIT", "TP2_HIT"}

(* A verdict that was reached from all bars of its horizon is the one the whole     *)
(* history gives, and later bars do not change it, whenever the run was made.       *)
WholeIsTruth ==
  \A h \in Horizons : Whole(h) =>
    LET v == Verdict(DOMAIN bars, h, outcomes[h].at)
    IN outcomes[h].status = v.status /\ outcomes[h].exit = v.exit /\ outcomes[h].bar = v.bar

(* A stop or second target found at one horizon is what every longer horizon of the *)
(* same or a later run that saw all bars reports.                                 *)
HorizonsAgree ==
  \A g, h \in Horizons :
    g < h /\ Decided(g) /\ Whole(g) /\ Whole(h) => outcomes[h].status = outcomes[g].status

(* No verdict is given on a horizon whose time is not over. *)
NotBeforeTime == \A h \in Horizons : Reached(h) => outcomes[h].at >= created + 2 * h
=============================================================================
