-------------------------- MODULE ProductionRunner --------------------------
(***************************************************************************)
(* The scheduler: processes of run_server.py, the lock file they take, the *)
(* ticks of a ProductionRunner and the runner_events they leave.           *)
(*                                                                         *)
(* A lock belongs to an inode and outlives the name of the file: removing  *)
(* the file, which run_server.py does when it starts and before it tries   *)
(* again, leaves the lock of the old inode with its holder.                *)
(***************************************************************************)
EXTENDS Integers, Sequences, FiniteSets, FiniteSetsExt

CONSTANTS
    Procs,       \* process slots of the deployment
    TaskList,    \* the tasks in the order a tick visits them
    Startup,     \* the tasks with startup_immediate
    Interval,    \* the interval of a task
    MaxTries,    \* attempts at the lock (6 in run_server.py)
    MaxStarts,   \* bound: processes launched
    MaxTime      \* bound: the clock

Tasks == {TaskList[k] : k \in DOMAIN TaskList}

ASSUME RunnerConstants ==
    /\ IsFiniteSet(Procs) /\ TaskList \in Seq(Tasks)
    /\ Startup \subseteq Tasks /\ Interval \in [Tasks -> Nat \ {0}]
    /\ \A j, k \in DOMAIN TaskList : TaskList[j] = TaskList[k] => j = k
    /\ MaxTries \in Nat \ {0} /\ MaxStarts \in Nat \ {0} /\ MaxTime \in Nat

Never  == -1
NoFile == 0
Inodes == 1..(Cardinality(Procs) + 1)

VARIABLES
    now,       \* the clock
    starts,    \* processes launched so far
    file,      \* the inode under the name of the lock file
    procs,     \* the processes
    last,      \* runner_events: latest started_at of a task's ended events
    running,   \* runner_events: the rows with status RUNNING
    shared     \* history: two processes have held a lock at once

vars == <<now, starts, file, procs, last, running, shared>>

(* ino is the locked inode, since _started_at, cur the time of the tick and *)
(* k the task it has come to.                                               *)
Off == [pc |-> "off", ino |-> NoFile, since |-> 0, cur |-> 0, k |-> 1, tries |-> 0]

Holding(p) == procs[p].pc \in {"clean", "tick", "run"}
TaskOf(p)  == TaskList[procs[p].k]
RowOf(p)   == [by |-> p, task |-> TaskOf(p), at |-> procs[p].cur]

(* The latest start of a task, ended or not. *)
Begun(t) == Max({last[t]} \cup {r.at : r \in {s \in running : s.task = t}})

-----------------------------------------------------------------------------
(* Definitions that end in Bug are mistakes the code could have made, each  *)
(* one ahead of what it distorts; they serve to test the properties only.  *)

(* _is_due; load_latest_runner_event_time passes over RUNNING rows. *)
IsDueAgainBug(p) == LET t == TaskOf(p) IN
    \/ t \in Startup /\ last[t] <= procs[p].since
    \/ last[t] = Never \/ procs[p].cur - last[t] >= Interval[t]
IsDueStartupBug(p) == LET t == TaskOf(p) IN
    last[t] = Never \/ procs[p].cur - last[t] >= Interval[t]
IsDueFirstBug(p) == LET t == TaskOf(p) IN
    \/ t \in Startup /\ last[t] < procs[p].since
    \/ last[t] # Never /\ procs[p].cur - last[t] >= Interval[t]
IsDue(p) == LET t == TaskOf(p) IN
    \/ t \in Startup /\ last[t] < procs[p].since
    \/ last[t] = Never \/ procs[p].cur - last[t] >= Interval[t]

(* The deployment starts run_server.py, which removes the lock file. *)
Launch(p) ==
    /\ procs[p].pc = "off" /\ starts < MaxStarts
    /\ starts' = starts + 1 /\ file' = NoFile
    /\ procs' = [procs EXCEPT ![p].pc = "lock"]
    /\ UNCHANGED <<now, last, running, shared>>

(* A ProductionRunner and SingleInstanceLock.acquire: open, then flock. *)
Acquire(p) ==
    /\ procs[p].pc = "lock"
    /\ LET held == {procs[q].ino : q \in {r \in Procs : Holding(r)}}
           ino  == IF file # NoFile THEN file ELSE Min(Inodes \ held)
       IN /\ file' = ino
          /\ IF ino \in held
             THEN /\ procs' = [procs EXCEPT ![p].pc = "retry"]
                  /\ UNCHANGED shared
             ELSE /\ procs' = [procs EXCEPT ![p].pc = "clean", ![p].ino = ino,
                                            ![p].since = now]
                  /\ shared' = (shared \/ held # {})
    /\ UNCHANGED <<now, starts, last, running>>

(* run_server.py when the lock is taken: it removes the file and goes on   *)
(* to the next attempt, or ends.                                           *)
RetryBug(p) ==
    /\ procs[p].pc = "retry" /\ file' = NoFile
    /\ IF procs[p].tries = MaxTries
       THEN procs' = [procs EXCEPT ![p] = Off]
       ELSE procs' = [procs EXCEPT ![p].pc = "lock", ![p].tries = @ + 1]
    /\ UNCHANGED <<now, starts, last, running, shared>>
Retry(p) ==
    /\ procs[p].pc = "retry" /\ file' = NoFile
    /\ IF procs[p].tries + 1 = MaxTries
       THEN procs' = [procs EXCEPT ![p] = Off]
       ELSE procs' = [procs EXCEPT ![p].pc = "lock", ![p].tries = @ + 1]
    /\ UNCHANGED <<now, starts, last, running, shared>>

(* cleanup_orphaned_runner_events: what is RUNNING becomes FAILED, and the *)
(* first tick begins.                                                      *)
CleanupBug(p) ==
    /\ procs[p].pc = "clean"
    /\ procs' = [procs EXCEPT ![p].pc = "tick", ![p].cur = now, ![p].k = 1]
    /\ UNCHANGED <<now, starts, file, last, running, shared>>
Cleanup(p) ==
    /\ procs[p].pc = "clean"
    /\ last' = [t \in Tasks |-> Begun(t)] /\ running' = {}
    /\ procs' = [procs EXCEPT ![p].pc = "tick", ![p].cur = now, ![p].k = 1]
    /\ UNCHANGED <<now, starts, file, shared>>

(* A tick goes through the tasks with the time it began at. *)
SkipTask(p) ==
    /\ procs[p].pc = "tick" /\ procs[p].k <= Len(TaskList) /\ ~IsDue(p)
    /\ procs' = [procs EXCEPT ![p].k = @ + 1]
    /\ UNCHANGED <<now, starts, file, last, running, shared>>

StartTask(p) ==
    /\ procs[p].pc = "tick" /\ procs[p].k <= Len(TaskList) /\ IsDue(p)
    /\ running' = running \cup {RowOf(p)}
    /\ procs' = [procs EXCEPT ![p].pc = "run"]
    /\ UNCHANGED <<now, starts, file, last, shared>>

(* The callback has returned or raised: finish_runner_event, whatever the  *)
(* row's status has become meanwhile.                                      *)
FinishTask(p) ==
    /\ procs[p].pc = "run"
    /\ running' = running \ {RowOf(p)}
    /\ last' = [last EXCEPT ![TaskOf(p)] = Max({@, procs[p].cur})]
    /\ procs' = [procs EXCEPT ![p].pc = "tick", ![p].k = @ + 1]
    /\ UNCHANGED <<now, starts, file, shared>>

(* The sleep between two ticks is over. *)
NextTick(p) ==
    /\ procs[p].pc = "tick" /\ procs[p].k > Len(TaskList)
    /\ procs' = [procs EXCEPT ![p].cur = now, ![p].k = 1]
    /\ UNCHANGED <<now, starts, file, last, running, shared>>

(* The process is killed, or the database refuses the event of a task: the *)
(* runner does not catch that.  The system releases the lock.              *)
Die(p) ==
    /\ procs[p].pc # "off" /\ starts < MaxStarts
    /\ procs' = [procs EXCEPT ![p] = Off]
    /\ UNCHANGED <<now, starts, file, last, running, shared>>

Tick ==
    /\ now < MaxTime /\ now' = now + 1
    /\ UNCHANGED <<starts, file, procs, last, running, shared>>

Init ==
    /\ now = 0 /\ starts = 0 /\ file = NoFile /\ shared = FALSE
    /\ procs = [p \in Procs |-> Off]
    /\ last = [t \in Tasks |-> Never] /\ running = {}

(* What a process does by itself. *)
Proceed(p) ==
    \/ Acquire(p) \/ Retry(p) \/ Cleanup(p)
    \/ SkipTask(p) \/ StartTask(p) \/ FinishTask(p) \/ NextTick(p)

Next ==
    \/ \E p \in Procs : Launch(p) \/ Proceed(p) \/ Die(p)
    \/ Tick

Spec == Init /\ [][Next]_vars

(* A process that runs goes on, a callback returns, and the deployment     *)
(* starts a process again when none is left.                               *)
FairSpec ==
    /\ Spec
    /\ \A p \in Procs : WF_vars(Proceed(p))
    /\ WF_vars((\A q \in Procs : procs[q].pc = "off") /\ \E p \in Procs : Launch(p))

-----------------------------------------------------------------------------
TypeOK ==
    /\ now \in 0..MaxTime /\ starts \in 0..MaxStarts /\ shared \in BOOLEAN
    /\ file \in Inodes \cup {NoFile}
    /\ procs \in [Procs -> [pc : {"off", "lock", "retry", "clean", "tick", "run"},
                            ino : Inodes \cup {NoFile}, since : 0..MaxTime, cur : 0..MaxTime,
                            k : 1..(Len(TaskList) + 1), tries : 0..(MaxTries - 1)]]
    /\ last \in [Tasks -> {Never} \cup 0..MaxTime]
    /\ running \subseteq [by : Procs, task : Tasks, at : 0..MaxTime]

(* As long as runners follow one another, the only RUNNING event a runner  *)
(* leaves in the table is that of the task it is running.                  *)
OwnEventOnly ==
    \A p \in Procs :
        ~shared /\ procs[p].pc \in {"tick", "run"}
        => running = IF procs[p].pc = "run" THEN {RowOf(p)} ELSE {}

(* As long as runners follow one another, a task starts again only when    *)
(* its interval has passed since its last start, crash or no crash, or     *)
(* once in a new process if it is a startup task.                          *)
Spaced ==
    [][\A p \in Procs : StartTask(p) /\ ~shared =>
           LET t == TaskOf(p) IN
           \/ Begun(t) = Never \/ procs[p].cur - Begun(t) >= Interval[t]
           \/ t \in Startup /\ Begun(t) < procs[p].since]_vars

(* After the first tick of a process every startup task has been started   *)
(* since the process began, by whatever process.                           *)
StartupServed ==
    \A p \in Procs :
        procs[p].pc = "tick" /\ procs[p].k > Len(TaskList)
        => \A t \in Startup : Begun(t) >= procs[p].since

(* No task stays overdue, whatever processes die, hold the lock or wait    *)
(* for it.                                                                 *)
Overdue(t) == last[t] = Never \/ now - last[t] >= Interval[t]
CaughtUp == \A t \in Tasks : Overdue(t) ~> ~Overdue(t)

(* "A second process exits with code 3 and a JSON LOCKED error"            *)
(* (docs/replit_reserved_vm.md:66): no two processes hold the lock.        *)
OneRunner == \A p, q \in Procs : Holding(p) /\ Holding(q) => p = q
=============================================================================
