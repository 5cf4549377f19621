--------------------------- MODULE SignalPipeline ---------------------------
(***************************************************************************)
(* From a strategy's candidates to paper orders: a scan task with its      *)
(* V3Pipeline (stop filter, risk engine, dedup engine, v3_candidates,      *)
(* v3_push_queue), the orders it makes and the messages it sends.          *)
(*                                                                         *)
(* One strategy; its scan and settle tasks share the runner's thread, the  *)
(* Telegram command thread changes v3_runtime_settings at any moment.      *)
(* Every transaction is a step of its own.  Placing the real order is the  *)
(* live mirror's TryPlace, whose failures the scan task swallows.          *)
(***************************************************************************)
EXTENDS Integers, Sequences, FiniteSets

CONSTANTS
    Targets,     \* symbol and direction pairs the strategy looks at
    None,        \* no target
    Stops,       \* stop_pct inside the limits of the RiskConfig or outside
    Caps,        \* values of max_open_orders
    Windows,     \* values of dedup_hours
    MaxBatch,    \* bound: candidates of a scan
    MaxIds,      \* bound: signal ids
    MaxTime,     \* bound: hours
    MaxFaults    \* bound: failed transactions and messages, restarts

ASSUME PipelineConstants ==
    /\ IsFiniteSet(Targets) /\ None \notin Targets /\ Stops \subseteq {"ok", "wide"}
    /\ Caps \subseteq Nat \ {0} /\ Caps # {}
    /\ Windows \subseteq Nat \ {0} /\ Windows # {}
    /\ MaxBatch \in Nat \ {0} /\ MaxIds \in Nat \ {0}
    /\ MaxTime \in Nat /\ MaxFaults \in Nat

Ids   == 1..MaxIds
Input == [tgt : Targets, stop : Stops]
Verdicts == {"BLOCKED", "DEDUP", "PUSHED"}

(* A row of v3_candidates. *)
Candidate == [tgt : Targets \cup {None}, stop : {"ok", "wide"}, status : Verdicts \cup {"NONE"},
              at : 0..MaxTime]
NoCandidate == [tgt |-> None, stop |-> "ok", status |-> "NONE", at |-> 0]

VARIABLES
    now,      \* the hour
    next,     \* v3_signal_id_seq
    cands,    \* v3_candidates
    queue,    \* v3_push_queue: push_status of each signal
    orders,   \* v3_paper_orders: status of each signal's order
    limits,   \* v3_runtime_settings of the strategy
    job,      \* the scan under way
    faults    \* failures so far

vars == <<now, next, cands, queue, orders, limits, job, faults>>
tables == <<cands, queue, orders>>

(* The scan: "gate" between two candidates and between two orders; batch   *)
(* holds the candidates still to check, out the pushed ones still to order. *)
IdleJob == [pc |-> "idle", cap |-> 0, win |-> 0, filter |-> FALSE, batch |-> {},
            id |-> 0, inp |-> None, verdict |-> "NONE", out |-> <<>>]

Fault == faults < MaxFaults /\ faults' = faults + 1

-----------------------------------------------------------------------------
(* exists_open_for_symbol_direction and _has_open_position; _count_open.   *)
OpenIdsBug == {i \in Ids : orders[i] = "OPEN"}
OpenIds == {i \in Ids : orders[i] \in {"OPEN", "FILLED"}}
HasOpen(t) == \E i \in OpenIds : cands[i].tgt = t

(* Definitions that end in Bug are mistakes the code could have made, each  *)
(* one ahead of what it distorts; they serve to test the properties only.  *)

(* V3RiskEngine.check: the duplicate check and the limit. *)
RiskAllowsBug(t) == ~HasOpen(t) /\ Cardinality(OpenIds) <= job.cap
RiskAllows(t)    == ~HasOpen(t) /\ Cardinality(OpenIds) < job.cap

(* V3DedupEngine.check, with the time of the check. *)
IsDupBug(t) == \E i \in Ids : /\ cands[i].tgt = t /\ cands[i].status = "PUSHED"
                              /\ cands[i].at > now - job.win
IsDup(t) == \E i \in Ids : /\ cands[i].tgt = t /\ cands[i].status = "PUSHED"
                           /\ cands[i].at >= now - job.win

VerdictBug(c) == IF RiskAllows(c.tgt) /\ ~IsDup(c.tgt) THEN "PUSHED" ELSE "SKIPPED"
Verdict(c) ==
    IF (job.filter /\ c.stop = "wide") \/ ~RiskAllows(c.tgt) THEN "BLOCKED"
    ELSE IF IsDup(c.tgt) THEN "DEDUP" ELSE "PUSHED"

(* The scan task reads the limits and the strategy's candidates.  Its      *)
(* RiskConfig has no stop limits, unless the settings cannot be read and   *)
(* the deployed one is used.                                               *)
StartScan ==
    /\ job.pc = "idle"
    /\ \E batch \in SUBSET Input :
          /\ Cardinality(batch) \in 1..MaxBatch
          /\ next + Cardinality(batch) - 1 <= MaxIds
          /\ \A c, d \in batch : c.tgt = d.tgt => c = d
          /\ \/ /\ job' = [IdleJob EXCEPT !.pc = "gate", !.batch = batch,
                              !.cap = limits.cap, !.win = limits.win]
                /\ UNCHANGED faults
             \/ /\ Fault
                /\ \E cap \in Caps, win \in Windows :
                      job' = [IdleJob EXCEPT !.pc = "gate", !.batch = batch,
                                 !.cap = cap, !.win = win, !.filter = TRUE]
    /\ UNCHANGED <<now, next, tables, limits>>

(* The checks of a candidate, and the signal id it is saved under. *)
Gate(c) ==
    /\ job.pc = "gate" /\ c \in job.batch /\ next <= MaxIds
    /\ next' = next + 1
    /\ job' = [job EXCEPT !.pc = "save", !.batch = @ \ {c}, !.id = next,
                          !.inp = c, !.verdict = Verdict(c)]
    /\ UNCHANGED <<now, tables, limits, faults>>

SaveCandidate ==
    /\ job.pc = "save"
    /\ cands' = [cands EXCEPT ![job.id] = [tgt |-> job.inp.tgt, stop |-> job.inp.stop,
                                           status |-> job.verdict, at |-> now]]
    /\ job' = [job EXCEPT !.pc = IF job.verdict = "PUSHED" THEN "enqueue" ELSE "gate"]
    /\ UNCHANGED <<now, next, queue, orders, limits, faults>>

EnqueueBug ==
    /\ job.pc = "enqueue"
    /\ queue' = [queue EXCEPT ![job.id] = "QUEUED"]
    /\ job' = [job EXCEPT !.pc = "gate"]
    /\ UNCHANGED <<now, next, cands, orders, limits, faults>>
Enqueue ==
    /\ job.pc = "enqueue"
    /\ queue' = [queue EXCEPT ![job.id] = "QUEUED"]
    /\ job' = [job EXCEPT !.pc = "gate", !.out = Append(@, job.id)]
    /\ UNCHANGED <<now, next, cands, orders, limits, faults>>

(* An exception in the pipeline: the candidate is dropped, the next one    *)
(* goes on.                                                                *)
CandidateFails ==
    /\ job.pc \in {"gate", "save", "enqueue"} /\ Fault
    /\ \/ job.pc # "gate" /\ job' = [job EXCEPT !.pc = "gate"]
       \/ /\ job.pc = "gate"
          /\ \E c \in job.batch : job' = [job EXCEPT !.batch = @ \ {c}]
    /\ UNCHANGED <<now, next, tables, limits>>

(* The paper order of the next pushed candidate. *)
CreateOrder ==
    /\ job.pc = "gate" /\ job.batch = {} /\ job.out # <<>>
    /\ LET id == Head(job.out) IN
       IF HasOpen(cands[id].tgt)
       THEN /\ job' = [job EXCEPT !.out = Tail(@)]
            /\ UNCHANGED orders
       ELSE /\ orders' = [orders EXCEPT ![id] = "OPEN"]
            /\ job' = [job EXCEPT !.pc = "send"]
    /\ UNCHANGED <<now, next, cands, queue, limits, faults>>

(* send_candidate, and mark_sent once it is through. *)
SendCandidate ==
    /\ job.pc = "send"
    /\ job' = [job EXCEPT !.pc = "mark"]
    /\ UNCHANGED <<now, next, tables, limits, faults>>

MarkSent ==
    /\ job.pc = "mark"
    /\ queue' = [queue EXCEPT ![Head(job.out)] = "SENT"]
    /\ job' = [job EXCEPT !.pc = "gate", !.out = Tail(@)]
    /\ UNCHANGED <<now, next, cands, orders, limits, faults>>

(* An exception in the scan task itself ends it: the runner logs it as     *)
(* FAILED.  A message that cannot be sent is one.                          *)
TaskFails ==
    /\ \/ job.pc \in {"send", "mark"}
       \/ job.pc = "gate" /\ job.batch = {} /\ job.out # <<>>
    /\ Fault /\ job' = IdleJob
    /\ UNCHANGED <<now, next, tables, limits>>

EndScan ==
    /\ job.pc = "gate" /\ job.batch = {} /\ job.out = <<>>
    /\ job' = IdleJob
    /\ UNCHANGED <<now, next, tables, limits, faults>>

(* The settle task fills and closes orders between two scans. *)
SettleOrder(id) ==
    /\ job.pc = "idle"
    /\ \/ orders[id] = "OPEN" /\ orders' = [orders EXCEPT ![id] = "FILLED"]
       \/ orders[id] \in {"OPEN", "FILLED"} /\ orders' = [orders EXCEPT ![id] = "CLOSED"]
    /\ UNCHANGED <<now, next, cands, queue, limits, job, faults>>

(* /setlimit, from the command thread. *)
SetLimit ==
    /\ \E cap \in Caps, win \in Windows : limits' = [cap |-> cap, win |-> win]
    /\ limits' # limits
    /\ UNCHANGED <<now, next, tables, job, faults>>

Tick ==
    /\ now < MaxTime /\ now' = now + 1
    /\ UNCHANGED <<next, tables, limits, job, faults>>

Crash ==
    /\ job.pc # "idle" /\ Fault /\ job' = IdleJob
    /\ UNCHANGED <<now, next, tables, limits>>

Init ==
    /\ now = 0 /\ next = 1 /\ faults = 0
    /\ cands = [i \in Ids |-> NoCandidate]
    /\ queue = [i \in Ids |-> "NONE"]
    /\ orders = [i \in Ids |-> "NONE"]
    /\ limits \in [cap : Caps, win : Windows]
    /\ job = IdleJob

Next ==
    \/ StartScan \/ SaveCandidate \/ Enqueue \/ CandidateFails
    \/ \E c \in Input : Gate(c)
    \/ CreateOrder \/ SendCandidate \/ MarkSent \/ TaskFails \/ EndScan
    \/ \E id \in Ids : SettleOrder(id)
    \/ SetLimit \/ Tick \/ Crash

Spec == Init /\ [][Next]_vars

(* The runner's thread goes on with a scan it has begun. *)
ScanStep ==
    \/ SaveCandidate \/ Enqueue \/ CreateOrder \/ SendCandidate \/ MarkSent \/ EndScan
    \/ \E c \in Input : Gate(c)
FairSpec == Spec /\ WF_vars(ScanStep)

-----------------------------------------------------------------------------
Jobs == [pc : {"idle", "gate", "save", "enqueue", "send", "mark"},
         cap : Caps \cup {0}, win : Windows \cup {0}, filter : BOOLEAN,
         batch : SUBSET Input, id : Ids \cup {0}, inp : Input \cup {None},
         verdict : Verdicts \cup {"NONE"}, out : Seq(Ids)]

TypeOK ==
    /\ now \in 0..MaxTime /\ next \in 1..(MaxIds + 1) /\ faults \in 0..MaxFaults
    /\ cands \in [Ids -> Candidate]
    /\ queue \in [Ids -> {"NONE", "QUEUED", "SENT"}]
    /\ orders \in [Ids -> {"NONE", "OPEN", "FILLED", "CLOSED"}]
    /\ limits \in [cap : Caps, win : Windows]
    /\ job \in Jobs

(* The strategy never has two orders at work on a symbol in one direction, *)
(* however long the first one stays open and whatever the dedup window is. *)
OneOrderPerTarget ==
    \A i, j \in Ids :
        /\ orders[i] \in {"OPEN", "FILLED"} /\ orders[j] \in {"OPEN", "FILLED"}
        /\ cands[i].tgt = cands[j].tgt
        => i = j

(* A signal is not repeated within the dedup window, though the window is  *)
(* measured from the check and the candidate is stamped when it is saved.  *)
DedupRespected ==
    \A i, j \in Ids :
        /\ i < j /\ cands[i].tgt = cands[j].tgt
        /\ cands[i].status = "PUSHED" /\ cands[j].status = "PUSHED"
        => \E win \in Windows : cands[j].at > cands[i].at + win

(* The risk engine does not count the candidates pushed before in the same *)
(* scan: max_open_orders is exceeded, by a batch less one at the most.     *)
OverfillBounded ==
    LET atWork == {i \in Ids : orders[i] \in {"OPEN", "FILLED"}} IN
    \E cap \in Caps : Cardinality(atWork) <= cap + MaxBatch - 1

(* As long as nothing fails, every queued signal is sent: no candidate is  *)
(* dropped on its way through the scan.                                    *)
SignalsServed ==
    \A i \in Ids : (queue[i] = "QUEUED") ~> (queue[i] = "SENT" \/ faults > 0)
=============================================================================
