------------------------------- MODULE HotWatch -------------------------------
(* The rolling watchlist of hot coins (hotlist/watchlist.py on the table of         *)
(* hotlist/pg_watchlist_repo.py), which the strategies V66, V662, V663 and V664     *)
(* share, each with times of its own.  A row has ages instead of instants: a tick   *)
(* makes every row older.  A review stores its coins one transaction at a time and  *)
(* may break off between two of them.                                            *)
EXTENDS Integers, FiniteSetsExt

CONSTANTS Symbols,
          Strategies,
          Expiry, MaxTtl,  \* [Strategies -> ticks]
          Refresh,         \* ticks before a coin is observed again
          None

HotWatchAssumption ==
  /\ \A s \in Strategies : Expiry[s] \in Nat \ {0} /\ MaxTtl[s] \in Nat /\ Expiry[s] <= MaxTtl[s]
  /\ Refresh \in Nat \ {0}

VARIABLES ranked,    \* the market: among the first gainers (1), losers (-1) or neither
          items,     \* rows of the table, or None
          run,       \* the review in progress, or None
          plans      \* what the last finished review returned
vars == <<ranked, items, run, plans>>

Longest == Max({MaxTtl[s] : s \in Strategies})
Ages == 0..Longest         \* bound: ages are counted up to the longest watch
Gone == [source |-> 1, status |-> "EXPIRED", first |-> 0, last |-> 0, left |-> 0]
Row == [source : {1, -1}, status : {"ACTIVE"}, first : Ages, last : Ages, left : Ages] \cup {Gone}

TypeOK ==
  /\ ranked \in [Symbols -> {1, 0, -1}]
  /\ items \in [Symbols -> Row \cup {None}]
  /\ run = None \/ run \in [id : Strategies, todo : SUBSET Symbols]
  /\ plans \subseteq [symbol : Symbols, id : Strategies, side : {1, -1}, first : Ages, last : Ages]

Watched == {s \in Symbols : items[s] # None /\ items[s].status = "ACTIVE"}

-----------------------------------------------------------------------------
(* review: what has run out is marked first; nothing reads the times of such a row *)
(* again.  Then the coins of both rankings are observed.                          *)
Lapsed(row) == row # None /\ row.status = "ACTIVE" /\ row.left = 0
Start(id) ==
  /\ run = None
  /\ items' = [s \in Symbols |-> IF Lapsed(items[s]) THEN Gone ELSE items[s]]
  /\ run' = [id |-> id, todo |-> {s \in Symbols : ranked[s] # 0}]
  /\ plans' = {}
  /\ UNCHANGED ranked

New(id, side) == [source |-> side, status |-> "ACTIVE", first |-> 0, last |-> 0, left |-> Expiry[id]]
Extended(id, first) == Max({0, Min({Expiry[id], MaxTtl[id] - first})})
Again(id, side, row) == [row EXCEPT !.source = side, !.last = 0, !.left = Extended(id, row.first)]
Observed(id, side, row) ==
  IF row = None THEN New(id, side)
  ELSE IF row.status = "EXPIRED" THEN New(id, side)
  ELSE IF row.last < Refresh THEN row ELSE Again(id, side, row)
Observe(s) ==
  /\ run # None /\ s \in run.todo
  /\ items' = [items EXCEPT ![s] = Observed(run.id, ranked[s], @)]
  /\ run' = [run EXCEPT !.todo = @ \ {s}]
  /\ UNCHANGED <<ranked, plans>>

(* Any of the coins watched may have a plan the strategy takes. *)
PlanOf(id, s) == [symbol |-> s, id |-> id, side |-> items[s].source, first |-> items[s].first, last |-> items[s].last]
Reviewed(S) ==
  /\ run # None /\ run.todo = {}
  /\ S \subseteq Watched
  /\ plans' = {PlanOf(run.id, s) : s \in S}
  /\ run' = None
  /\ UNCHANGED <<ranked, items>>

(* The exchange or the database does not answer, or the process ends. *)
BreakOff == /\ run # None /\ run' = None
            /\ UNCHANGED <<ranked, items, plans>>

Older(age) == Min({Longest, age + 1})
Tick(r) ==
  /\ run = None
  /\ ranked' = r
  /\ items' = [s \in Symbols |->
       IF s \in Watched THEN [items[s] EXCEPT !.first = Older(@), !.last = Older(@), !.left = Max({0, @ - 1})]
       ELSE items[s]]
  /\ plans' = {} /\ UNCHANGED run

Init == /\ ranked = [s \in Symbols |-> 0] /\ items = [s \in Symbols |-> None]
        /\ run = None /\ plans = {}
Review == \/ \E s \in Symbols : Observe(s)
          \/ \E S \in SUBSET Symbols : Reviewed(S)
Next == \/ \E id \in Strategies : Start(id)
        \/ Review \/ BreakOff
        \/ \E r \in [Symbols -> {1, 0, -1}] : Tick(r)
Spec == Init /\ [][Next]_vars
(* The runner gives every strategy its turn and time goes on. *)
Fairness == /\ \A id \in Strategies : SF_vars(Start(id))
            /\ WF_vars(Review \/ BreakOff) /\ SF_vars(\E r \in [Symbols -> {1, 0, -1}] : Tick(r))
FairSpec == Spec /\ Fairness

-----------------------------------------------------------------------------
(* No strategy plans a coin that was first seen longer ago than the longest watch   *)
(* any of them grants, however often the coin is seen again and whichever reviews   *)
(* break off.                                                                    *)
PlansInTime == \A p \in plans : p.first < Longest

(* A plan's coin has been seen within the time the most patient strategy grants     *)
(* after a sighting, whatever the others did to the row since.                    *)
SeenLately == \A p \in plans : p.last < Max({Expiry[s] : s \in Strategies})

(* A coin that is listed although it is no longer ranked. *)
Leaving(s) == ranked[s] = 0 /\ s \in Watched
=============================================================================
