------------------------------- MODULE History -------------------------------
(* The historical data of version 1, for one series of closed bars 0, 1, ...:        *)
(* application/collect_history.py (the daily job and collect-history --incremental),   *)
(* the newest bars each scan saves, and the universe rebuilt for each past day.         *)
(* One command at a time writes; it may end between any two of its commits.           *)
EXTENDS Integers, Sequences, FiniteSetsExt

CONSTANTS
    Page,         \* bars one request returns: 1500
    Newest,       \* bars a scan saves: 200
    Span,         \* bars in the --days of a collection
    DayBars,      \* bars in a day: 96
    MaxNow, MaxRuns, MaxFaults, MaxCrashes   \* bounds

VARIABLES
    now,          \* bars 0 .. now - 1 have closed
    have,         \* table klines
    ingest,       \* ingestion runs of collect and their snapshots
    universes,    \* runs history-universe-<day> and their snapshots, in order of creation
    job,          \* the command in progress
    faults, crashes
vars == <<now, have, ingest, universes, job, faults, crashes>>

Closed == 0..(now - 1)
Idle   == [cmd |-> "none", step |-> "none", from |-> 0, to |-> 0, cursor |-> 0, newest |-> -1,
           run |-> 0, left |-> {}, failed |-> FALSE]
Latest == IF have = {} THEN -1 ELSE Max(have)
SpanStart(n) == Max({0, n - Span + 1})      \* the first bar to open after the start of the span

Fault   == faults < MaxFaults /\ faults' = faults + 1
NoFault == UNCHANGED faults

Init ==
    /\ now = 0 /\ have = {} /\ ingest = <<>> /\ universes = <<>>
    /\ job = Idle /\ faults = 0 /\ crashes = 0
-----------------------------------------------------------------------------
(* The last Newest closed bars, with one upsert. *)
ScanSaves ==
    /\ job = Idle /\ now > 0
    /\ have' = have \cup Max({0, now - Newest})..(now - 1)
    /\ UNCHANGED <<now, ingest, universes, job, faults, crashes>>

(* latest_close + interval is past the open time of the bar that follows. *)
GapStart == Latest + 2

(* A command begins with the bars between start and the last one closed. *)
Begun(cmd, start, i) == [cmd |-> cmd, step |-> "klines", from |-> start, to |-> now, cursor |-> start,
                         newest |-> Latest, run |-> i, left |-> {}, failed |-> FALSE]

(* Bars no older than two intervals are up to date.   *)
StartIncremental ==
    /\ job = Idle /\ now > 0 /\ (have = {} \/ now - 1 - Latest > 1)
    /\ job' = Begun("incremental", IF have = {} THEN SpanStart(now) ELSE GapStart, 0)
    /\ UNCHANGED <<now, have, ingest, universes, faults, crashes>>

(* _open_ingestion_run: the id names the span.  With the same --end-ms an open run is  *)
(* taken up and a finalized one followed by a resume run.                             *)
StartCollect ==
    /\ job = Idle /\ now > 0
    /\ \E given \in BOOLEAN :
         LET old == {i \in DOMAIN ingest : given /\ ingest[i].base /\ ingest[i].end = now}
             i   == IF \E k \in old : ~ingest[k].final THEN Max(old) ELSE Len(ingest) + 1
         IN  /\ i <= MaxRuns
             /\ ingest' = IF i \in DOMAIN ingest THEN ingest
                          ELSE Append(ingest, [base |-> given /\ old = {}, end |-> now, status |-> "RUNNING", final |-> FALSE])
             /\ job' = Begun("collect", SpanStart(now), i)
    /\ UNCHANGED <<now, have, universes, faults, crashes>>

(* _collect_klines: page by page, each saved by itself, until a page is empty. *)
NextPage == {b \in job.cursor..(job.to - 1) : b < job.cursor + Page}

Klines ==
    /\ job.step = "klines" /\ NextPage # {}
    /\ have' = have \cup NextPage /\ job' = [job EXCEPT !.cursor = Max(NextPage) + 1]
    /\ UNCHANGED <<now, ingest, universes, faults, crashes>>

Behind == IF job.cmd = "collect" THEN [job EXCEPT !.step = "capital"] ELSE Idle

KlinesDone ==
    /\ job.step = "klines" /\ NextPage = {} /\ job' = Behind
    /\ UNCHANGED <<now, have, ingest, universes, faults, crashes>>

(* A series that fails does not stop the others. *)
KlinesFail ==
    /\ job.step = "klines" /\ Fault
    /\ job' = IF job.cmd = "collect" THEN [Behind EXCEPT !.failed = TRUE] ELSE Idle
    /\ UNCHANGED <<now, have, ingest, universes, crashes>>

(* The days that end within the span, the one it starts in included. *)
PastDays == {d \in 0..MaxNow : d >= (job.to - Span) \div DayBars /\ (d + 1) * DayBars <= job.to}

Capital ==
    /\ job.step = "capital"
    /\ \/ job' = [job EXCEPT !.step = "days", !.left = PastDays] /\ NoFault
       \/ job' = [job EXCEPT !.step = "days", !.left = PastDays, !.failed = TRUE] /\ Fault
    /\ UNCHANGED <<now, have, ingest, universes, crashes>>
-----------------------------------------------------------------------------
(* _save_daily_universes. *)
RunsOf(d) == {i \in DOMAIN universes : universes[i].day = d}
BarsOf(d) == (d * DayBars)..((d + 1) * DayBars - 1)

(* Only the run with the plain id tells whether the day is done. *)
Done(d) == RunsOf(d) # {} /\ universes[Min(RunsOf(d))].status = "SUCCEEDED"
HasBars(d) == BarsOf(d) \subseteq have
NextDay ==
    /\ job.step = "days" /\ job.left # {}
    /\ LET d == Min(job.left) IN
         IF Done(d) \/ ~HasBars(d)
         THEN job' = [job EXCEPT !.left = @ \ {d}] /\ UNCHANGED universes
         ELSE /\ universes' = Append(universes, [day |-> d, status |-> "RUNNING", final |-> FALSE])
              /\ job' = [job EXCEPT !.step = "universe"]
    /\ UNCHANGED <<now, have, ingest, faults, crashes>>

FinishDay ==
    /\ job.step = "universe" /\ universes' = [universes EXCEPT ![Len(universes)].status = "SUCCEEDED"]
    /\ job' = [job EXCEPT !.step = "finalize"]
    /\ UNCHANGED <<now, have, ingest, faults, crashes>>

FinalizeDay ==
    /\ job.step = "finalize" /\ universes' = [universes EXCEPT ![Len(universes)].final = TRUE]
    /\ job' = [job EXCEPT !.step = "days", !.left = @ \ {Min(@)}]
    /\ UNCHANGED <<now, have, ingest, faults, crashes>>

(* The run is finished before its snapshot is final. *)
FinishRun ==
    /\ job.step = "days" /\ job.left = {}
    /\ ingest' = [ingest EXCEPT ![job.run].status = IF job.failed THEN "PARTIAL" ELSE "SUCCEEDED"]
    /\ job' = [job EXCEPT !.step = "final"]
    /\ UNCHANGED <<now, have, universes, faults, crashes>>

FinalizeRun ==
    /\ job.step = "final" /\ job' = Idle /\ ingest' = [ingest EXCEPT ![job.run].final = TRUE]
    /\ UNCHANGED <<now, have, universes, faults, crashes>>

(* An error outside a series ends the command: the exchange's lists at its start, the  *)
(* database while the days are saved.                                               *)
CollectFails ==
    /\ job.step \in {"klines", "days", "universe", "finalize"} /\ job.cmd = "collect" /\ Fault
    /\ job.step = "klines" => job.cursor = job.from
    /\ ingest' = [ingest EXCEPT ![job.run].status = "FAILED", ![job.run].final = TRUE] /\ job' = Idle
    /\ UNCHANGED <<now, have, universes, crashes>>

Crash ==
    /\ job # Idle /\ crashes < MaxCrashes
    /\ crashes' = crashes + 1 /\ job' = Idle
    /\ UNCHANGED <<now, have, ingest, universes, faults>>

Tick ==
    /\ now < MaxNow /\ now' = now + 1
    /\ UNCHANGED <<have, ingest, universes, job, faults, crashes>>

JobStep == \/ Klines \/ KlinesDone \/ KlinesFail \/ Capital
           \/ NextDay \/ FinishDay \/ FinalizeDay \/ FinishRun \/ FinalizeRun \/ CollectFails
Next == ScanSaves \/ StartIncremental \/ StartCollect \/ JobStep \/ Crash \/ Tick
Spec == Init /\ [][Next]_vars
-----------------------------------------------------------------------------
TypeOK ==
    /\ now \in 0..MaxNow /\ have \subseteq Closed /\ faults \in 0..MaxFaults /\ crashes \in 0..MaxCrashes
    /\ \A i \in DOMAIN ingest : ingest[i] \in [base : BOOLEAN, end : 1..now, final : BOOLEAN,
                                               status : {"RUNNING", "SUCCEEDED", "PARTIAL", "FAILED"}]
    /\ \A i \in DOMAIN universes : universes[i] \in [day : Nat, status : {"RUNNING", "SUCCEEDED"}, final : BOOLEAN]
    /\ job \in [cmd : {"none", "incremental", "collect"},
                step : {"none", "klines", "capital", "days", "universe", "finalize", "final"},
                from : Nat, to : 0..now, cursor : Nat, newest : -1..(now - 1),
                run : 0..Len(ingest), left : SUBSET (0..now), failed : BOOLEAN]

(* However often it was broken off before, a collection that read its pages     *)
(* without an error leaves no hole between its first bar and its last, and an      *)
(* incremental one none behind the bar it starts at.                              *)
PassComplete ==
    (\/ job.step = "klines" /\ NextPage = {}
     \/ job.cmd = "collect" /\ job.step # "klines" /\ ~job.failed)
    => job.from..(job.to - 1) \subseteq have

(* An incremental collection loses one bar of the outage at most, the first.      *)
LosesOneBar ==
    job.cmd = "incremental" /\ NextPage = {} /\ job.newest >= 0
    => Cardinality(job.newest..(job.to - 1) \ have) <= 1

(* A day's universe is saved again only when the run with its plain id was broken *)
(* off: that run never succeeds later, and every collection adds a further run.    *)
DaySavedOnce ==
    \A i, j \in DOMAIN universes :
        i < j /\ universes[i].day = universes[j].day
        => universes[Min(RunsOf(universes[i].day))].status = "RUNNING"

(* A universe is made of days of which every bar is stored, then and for ever.    *)
DaysAreWhole == \A i \in DOMAIN universes : BarsOf(universes[i].day) \subseteq have

(* Of the runs of collect no snapshot stays open but that of one a crash ended.  *)
RunsAreClosed ==
    Cardinality({i \in DOMAIN ingest : ~ingest[i].final}) <= crashes + IF job.cmd = "collect" THEN 1 ELSE 0

=============================================================================
