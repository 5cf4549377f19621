----------------------------- MODULE ScanStore -----------------------------
(***************************************************************************)
(* The version-1 scan over its SQLite store (entrypoints/cli.py _scan) and *)
(* the commands that write into the newest snapshot.  Every repository     *)
(* method is one transaction; one command runs at a time and may end       *)
(* between any two transactions.                                           *)
(*                                                                         *)
(* A snapshot is open until finalize_snapshot; the snapshots of one run    *)
(* (the baseline's and one fork per further strategy) share the run's      *)
(* rows.  Of the rows only their writer is kept, of a signal its symbol.   *)
(***************************************************************************)
EXTENDS Integers, Sequences, FiniteSets

CONSTANTS
    Symbols,      \* the symbols a scan may score
    Forks,        \* the strategies of config/strategies besides baseline_v1, in load order
    MaxRuns,      \* bound: scans started
    MaxManual,    \* bound: regime commands
    MaxCrashes    \* bound: commands that end between two transactions

VARIABLES
    runs,         \* collection_runs: a sequence of statuses
    snaps,        \* analysis_snapshots in insertion order
    rows,         \* per run, who wrote universe, scores, sectors, capital and space
    signals,      \* table signals
    proc,         \* the command that runs, and how far it got
    crashes

vars == <<runs, snaps, rows, signals, proc, crashes>>

Kinds    == {"universe", "scores", "sectors", "capital", "space"}
Regimes  == {"none", "BULL", "OBSERVE"}
Snapshot == [run : 0..MaxRuns, strategy : {"baseline_v1", "manual"} \cup {Forks[i] : i \in DOMAIN Forks},
             final : BOOLEAN, regime : Regimes]
Signal   == [run : 1..MaxRuns, snap : DOMAIN snaps, sym : Symbols]
Idle     == [cmd |-> "idle", step |-> "", run |-> 0, snap |-> 0, fork |-> 0]

Init ==
    /\ runs = <<>> /\ snaps = <<>> /\ rows = <<>> /\ signals = {}
    /\ proc = Idle /\ crashes = 0

----------------------------------------------------------------------------
\* The repository.

NewSnapshot(run, strategy) == [run |-> run, strategy |-> strategy, final |-> FALSE, regime |-> "none"]

(* No ORDER BY: the table is read in insertion order, the baseline's snapshot first. *)
SnapshotForRun(r) == CHOOSE i \in DOMAIN snaps : snaps[i].run = r /\ \A j \in 1..(i - 1) : snaps[j].run # r

ScanSnapshots == {i \in DOMAIN snaps : snaps[i].run # 0}
LatestSnapshot == CHOOSE i \in ScanSnapshots : \A j \in ScanSnapshots : j <= i

Writable(s) == ~snaps[s].final

Write(run, kind, by) == rows' = [rows EXCEPT ![run][kind] = by]

FinalizeSnapshot(s) == Writable(s) /\ snaps' = [snaps EXCEPT ![s].final = TRUE]

(* The row of market_regimes; a snapshot without one reads OBSERVE. *)
CombinedRegime(s) == IF snaps[s].regime = "none" THEN "OBSERVE" ELSE snaps[s].regime

(* DELETE and INSERT in one transaction; UNIQUE (run_id, rank) is over all   *)
(* snapshots of the run, so a second snapshot with a signal is refused.     *)
SaveSignals(s, syms) ==
    LET r    == snaps[s].run
        kept == {x \in signals : x.snap # s}
    IN  /\ Writable(s)
        /\ syms = {} \/ \A x \in kept : x.run # r
        /\ signals' = kept \cup {[run |-> r, snap |-> s, sym |-> y] : y \in syms}

----------------------------------------------------------------------------
\* The scan.

At(cmd, step) == proc.cmd = cmd /\ proc.step = step
Goto(step)    == proc' = [proc EXCEPT !.step = step]
Stop          == proc' = Idle

StartScan ==
    /\ proc = Idle /\ Len(runs) < MaxRuns
    /\ runs' = Append(runs, "RUNNING")
    /\ snaps' = Append(snaps, NewSnapshot(Len(runs) + 1, "baseline_v1"))
    /\ rows' = Append(rows, [k \in Kinds |-> "no"])
    /\ proc' = [cmd |-> "scan", step |-> "universe", run |-> Len(runs) + 1, snap |-> Len(snaps) + 1, fork |-> 0]
    /\ UNCHANGED <<signals, crashes>>

SaveUniverse ==
    /\ At("scan", "universe") /\ Write(proc.run, "universe", "scan") /\ Goto("klines")
    /\ UNCHANGED <<runs, snaps, signals, crashes>>

(* A failing request leaves the run FAILED and its snapshot open. *)
CollectFails ==
    /\ At("scan", "universe") \/ At("scan", "klines")
    /\ runs' = [runs EXCEPT ![proc.run] = "FAILED"] /\ Stop
    /\ UNCHANGED <<snaps, rows, signals, crashes>>

(* SUCCEEDED stands for PARTIAL, with some series missing, too. *)
FinishCollect ==
    /\ At("scan", "klines") /\ Goto("regime")
    /\ runs' = [runs EXCEPT ![proc.run] = "SUCCEEDED"]
    /\ UNCHANGED <<snaps, rows, signals, crashes>>

(* save_market_regime: of the run's snapshots only the baseline's gets a row. *)
AnalyzeRegime ==
    /\ At("scan", "regime") /\ Writable(proc.snap) /\ Goto("scores")
    /\ \E g \in Regimes \ {"none"} : snaps' = [snaps EXCEPT ![proc.snap].regime = g]
    /\ UNCHANGED <<runs, rows, signals, crashes>>

(* With no symbol scored the analyses after it write nothing. *)
ScoreRun ==
    /\ At("scan", "scores") /\ Writable(SnapshotForRun(proc.run))
    /\ \/ Write(proc.run, "scores", "scan") /\ Goto("sectors")
       \/ Goto("empty") /\ UNCHANGED rows
    /\ UNCHANGED <<runs, snaps, signals, crashes>>

Analyze(kind, next) ==
    /\ At("scan", kind) /\ Writable(SnapshotForRun(proc.run))
    /\ Write(proc.run, kind, "scan") /\ Goto(next)
    /\ UNCHANGED <<runs, snaps, signals, crashes>>

(* generate_latest: nothing without scores, nothing in a regime that allows *)
(* no direction, and for a further strategy nothing outside its regimes.    *)
Candidates(s) == IF CombinedRegime(s) = "OBSERVE" THEN {{}} ELSE SUBSET Symbols

GenerateSignals ==
    /\ At("scan", "signals") \/ At("scan", "empty")
    /\ \E syms \in IF proc.step = "empty" THEN {{}} ELSE Candidates(proc.snap) : SaveSignals(proc.snap, syms)
    /\ Goto("finalize")
    /\ UNCHANGED <<runs, snaps, rows, crashes>>

Finalize ==
    /\ At("scan", "finalize") /\ FinalizeSnapshot(proc.snap)
    /\ proc' = IF proc.fork < Len(Forks) THEN [proc EXCEPT !.step = "fork", !.fork = @ + 1] ELSE Idle
    /\ UNCHANGED <<runs, rows, signals, crashes>>

(* INSERT OR IGNORE of a snapshot for the next strategy of the same run. *)
Fork ==
    /\ At("scan", "fork")
    /\ snaps' = Append(snaps, NewSnapshot(proc.run, Forks[proc.fork]))
    /\ proc' = [proc EXCEPT !.step = IF rows[proc.run]["scores"] = "no" THEN "empty" ELSE "signals",
                            !.snap = Len(snaps) + 1]
    /\ UNCHANGED <<runs, rows, signals, crashes>>

Scan ==
    \/ StartScan \/ SaveUniverse \/ CollectFails \/ FinishCollect \/ AnalyzeRegime \/ ScoreRun
    \/ Analyze("sectors", "capital") \/ Analyze("capital", "space") \/ Analyze("space", "signals")
    \/ GenerateSignals \/ Finalize \/ Fork

----------------------------------------------------------------------------
\* The commands beside it.

NewManual == NewSnapshot(0, "manual")

(* regime: a snapshot of its own, one row, finalized. *)
RegimeCommand ==
    /\ proc = Idle /\ Cardinality({i \in DOMAIN snaps : snaps[i].run = 0}) < MaxManual
    /\ snaps' = Append(snaps, NewManual)
    /\ proc' = [Idle EXCEPT !.cmd = "regime", !.step = "save", !.snap = Len(snaps) + 1]
    /\ UNCHANGED <<runs, rows, signals, crashes>>

RegimeSaves ==
    /\ At("regime", "save") /\ Writable(proc.snap) /\ Goto("finalize")
    /\ \E g \in Regimes \ {"none"} : snaps' = [snaps EXCEPT ![proc.snap].regime = g]
    /\ UNCHANGED <<runs, rows, signals, crashes>>

RegimeEnds ==
    /\ At("regime", "finalize") /\ FinalizeSnapshot(proc.snap) /\ Stop
    /\ UNCHANGED <<runs, rows, signals, crashes>>

(* The mistake of checking the newest snapshot, a fork, and not the run's.  *)
CommandOnFork(kind) ==
    /\ proc = Idle /\ ScanSnapshots # {}
    /\ LET s == LatestSnapshot IN
         rows[snaps[s].run]["scores"] # "no" /\ Writable(s) /\ Write(snaps[s].run, kind, "command")
    /\ UNCHANGED <<runs, snaps, signals, proc, crashes>>

(* sectors, capital, space on the newest scan snapshot: refused when the    *)
(* run's own snapshot is final; capital also needs the newest one open.     *)
Command(kind) ==
    /\ proc = Idle /\ ScanSnapshots # {}
    /\ LET s == LatestSnapshot
           r == snaps[s].run
       IN  /\ rows[r]["scores"] # "no" /\ Writable(SnapshotForRun(r))
           /\ kind = "capital" => Writable(s)
           /\ Write(r, kind, "command")
    /\ UNCHANGED <<runs, snaps, signals, proc, crashes>>

----------------------------------------------------------------------------
Crash ==
    /\ proc # Idle /\ crashes < MaxCrashes
    /\ crashes' = crashes + 1 /\ Stop
    /\ UNCHANGED <<runs, snaps, rows, signals>>

Next ==
    \/ Scan
    \/ RegimeCommand \/ RegimeSaves \/ RegimeEnds
    \/ \E kind \in {"sectors", "capital", "space"} : Command(kind)
    \/ Crash

Spec == Init /\ [][Next]_vars

(* A command that runs takes its next step. *)
Resume == (proc # Idle /\ Scan) \/ RegimeSaves \/ RegimeEnds

FairSpec == Spec /\ WF_vars(Resume)

----------------------------------------------------------------------------
TypeOK ==
    /\ crashes \in 0..MaxCrashes
    /\ runs \in Seq({"RUNNING", "SUCCEEDED", "FAILED"})
    /\ snaps \in Seq(Snapshot) /\ \A i \in DOMAIN snaps : snaps[i].run = 0 <=> snaps[i].strategy = "manual"
    /\ rows \in Seq([Kinds -> {"no", "scan", "command"}]) /\ Len(rows) = Len(runs)
    /\ signals \subseteq Signal

(* What finalize_snapshot promises, over every later command: the rows of   *)
(* its run, its signals and the snapshot itself stay as they are            *)
(* (sqlite_repository.py trg_analysis_snapshot_finalized_update,            *)
(* _assert_snapshot_writable).                                              *)
FinalKept ==
    [][\A i \in DOMAIN snaps : snaps[i].final =>
         /\ snaps'[i] = snaps[i]
         /\ {x \in signals' : x.snap = i} = {x \in signals : x.snap = i}
         /\ snaps[i].run # 0 => rows'[snaps[i].run] = rows[snaps[i].run]]_vars

(* config.py:48: the further strategies share the market data of the        *)
(* baseline; only the filters differ.  The regime they are given is then    *)
(* the run's.                                                               *)
RegimeShared ==
    At("scan", "signals") => CombinedRegime(proc.snap) = CombinedRegime(SnapshotForRun(proc.run))

(* A scan that is not broken off leaves nothing open: whenever no command    *)
(* runs, every open snapshot is one a crash or a failing download left, and   *)
(* no more of them than there were of those (cli.py _scan, generate_latest).  *)
NothingLeftOpen ==
    proc = Idle =>
        Cardinality({i \in DOMAIN snaps : ~snaps[i].final})
            <= crashes + Cardinality({r \in DOMAIN runs : runs[r] = "FAILED"})

(* A command that has not ended. *)
Busy == proc # Idle
=============================================================================
