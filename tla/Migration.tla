------------------------------ MODULE Migration ------------------------------
(* run_migration, which every start of run_server.py calls before a task runs: table *)
(* by table the rows of the old SQLite file are inserted into PostgreSQL where they  *)
(* are missing, one transaction for each table.                                      *)
EXTENDS Integers, Sequences, FiniteSets

CONSTANTS
    Tables,       \* _V3_TABLES
    Legacy,       \* ids of rows the SQLite file may hold
    Own,          \* ids of rows the tasks insert
    MaxStarts,    \* bound
    None

VARIABLES
    old,          \* the rows of each table of the file; nothing writes it any more
    refused,      \* the tables of which PostgreSQL refuses a row
    pg,           \* of each table, its rows: "copied", "own" once a task wrote it, or None
    step,         \* the table to be copied next, Len(Tables) + 1 when the tasks run, 0 when nothing does
    verdict,      \* TableMigrationResult.ok of the last start, None before its table
    starts
vars == <<old, refused, pg, step, verdict, starts>>

Names == {Tables[i] : i \in DOMAIN Tables}
Rows == Legacy \cup Own
In(t) == {r \in Rows : pg[t][r] # None}
Running == Len(Tables) + 1
-----------------------------------------------------------------------------

Init ==
    /\ old \in [Names -> SUBSET Legacy] /\ refused \in SUBSET {t \in Names : old[t] # {}}
    /\ pg = [t \in Names |-> [r \in Rows |-> None]]
    /\ step = 0 /\ verdict = [t \in Names |-> None] /\ starts = 0

Start ==
    /\ step = 0 /\ starts < MaxStarts
    /\ step' = 1 /\ starts' = starts + 1 /\ verdict' = [t \in Names |-> None]
    /\ UNCHANGED <<old, refused, pg>>

(* ON CONFLICT DO NOTHING.  A row that is refused aborts the transaction: the rows after *)
(* it are skipped one by one, and the commit takes back those before it.                *)
Inserted(t) ==
    [r \in Rows |-> IF r \in old[t] /\ pg[t][r] = None /\ t \notin refused THEN "copied" ELSE pg[t][r]]

CopyTable ==
    /\ step \in DOMAIN Tables
    /\ LET t == Tables[step] IN
         /\ pg' = [pg EXCEPT ![t] = Inserted(t)]
         /\ verdict' = [verdict EXCEPT ![t] =
                          Cardinality({r \in Rows : Inserted(t)[r] # None}) >= Cardinality(old[t])]
    /\ step' = step + 1
    /\ UNCHANGED <<old, refused, starts>>

(* The connection fails: the migration is over, the start goes on. *)
CopyFails ==
    /\ step \in DOMAIN Tables /\ step' = Running
    /\ UNCHANGED <<old, refused, pg, verdict, starts>>

(* A task inserts a row of its own or updates any. *)
Work(t, r) ==
    /\ step = Running
    /\ r \in Own \/ pg[t][r] # None
    /\ pg' = [pg EXCEPT ![t][r] = "own"]
    /\ UNCHANGED <<old, refused, step, verdict, starts>>

Stop == step # 0 /\ step' = 0 /\ UNCHANGED <<old, refused, pg, verdict, starts>>

Next == Start \/ CopyTable \/ CopyFails \/ (\E t \in Names, r \in Rows : Work(t, r)) \/ Stop
Spec == Init /\ [][Next]_vars

-----------------------------------------------------------------------------
(* Tables, verdicts and the place in the migration are known values. *)
TypeOK ==
    /\ pg \in [Names -> [Rows -> {None, "copied", "own"}]]
    /\ step \in 0..Running /\ verdict \in [Names -> {TRUE, FALSE, None}]

(* Of the old file a table holds everything or nothing, however starts end, and a table  *)
(* reported complete lacks old rows only where rows of the tasks made up the number:     *)
(* the report counts rows, it does not compare them (migration.py:147).                  *)
WholeOrNothing ==
    \A t \in Names :
      /\ old[t] \subseteq In(t) \/ old[t] \cap In(t) = {}
      /\ verdict[t] = TRUE /\ ~(old[t] \subseteq In(t)) => Cardinality(In(t) \cap Own) >= Cardinality(old[t])

(* What a task wrote is never put back to what the old file says by a later start, and  *)
(* no row is lost.                                                                     *)
NewKept == [][\A t \in Names, r \in Rows : pg[t][r] # None => pg'[t][r] \in {pg[t][r], "own"}]_vars
=============================================================================
