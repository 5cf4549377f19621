----------------------------- MODULE StrategyTasks -----------------------------
(* What the task builders of v3/runner/tasks.py do with the signals of a scan:      *)
(* checks, the paper order, its event, the live order, the shadow order of K1 and   *)
(* K2, and the settlement that ends the order.  One table row per builder, and one  *)
(* scan and one settlement that read it, because the builders repeat one another.   *)
(* SignalPipeline has the inside of a pipeline's run, LiveMirror that of a live      *)
(* order, ClassicRules that of a classic scan.                                      *)
EXTENDS Integers, FiniteSets, TaskBuilders

CONSTANTS Groups,      \* sets of builders one process is started with
          Emitting,    \* the strategies that find something
          Targets,     \* a symbol and a direction
          Times,       \* the hours at which a task runs
          MaxScans,    \* bound, for each kind of scan
          MaxBatch, MaxFaults   \* bounds

StrategyTasksAssumption ==
  /\ Times \subseteq Nat /\ 0 \in Times
  /\ MaxScans \in [{"pipeline", "classic", "sma120"} -> Nat] /\ MaxBatch \in Nat /\ MaxFaults \in Nat

DedupHours == 24
MaxDailyTrades == 3

-----------------------------------------------------------------------------
VARIABLES active,   \* builders of this process
          now,
          rows,     \* classic_scan_records that passed and were chosen
          orders,   \* v3_paper_orders
          events,   \* CREATED events
          compared, \* classic_shadow_records
          live,     \* trades of the live mirrors that are open
          job,      \* the scan in progress
          scans,    \* scans so far
          paused,   \* /paperoff sma120
          faults
vars == <<active, now, rows, orders, events, compared, live, job, scans, paused, faults>>
tables == <<rows, orders, events, compared, live>>

(* A signal is the target a strategy found in one scan; its order has the same key.  *)
Key(o) == <<o.sid, o.tgt, o.scan>>
NoKey == <<>>
Idle == [pc |-> "idle"]
Ids == (UNION {s.ids : s \in UNION {b.scans : b \in active}}) \cup ElementsOf(ShadowIds)
Scans == UNION {1..MaxScans[k] : k \in DOMAIN MaxScans}
Keys == Ids \X Targets \X Scans
Row == [sid : Ids, tgt : Targets, scan : Scans, at : Times, sent : BOOLEAN]
Order == [sid : Ids, tgt : Targets, scan : Scans, at : Times, hold : Nat, src : {NoKey} \cup Keys, open : BOOLEAN, blind : BOOLEAN]

TypeOK ==
  /\ active \in Groups /\ now \in Times
  /\ \A r \in rows : r \in Row
  /\ \A o \in orders : o \in Order
  /\ events \subseteq {Key(o) : o \in orders}
  /\ live \subseteq Keys
  /\ \A c \in compared : c.source \in Keys /\ c.order \in {NoKey} \cup Keys
  /\ scans \in {0} \cup Scans /\ faults \in 0..MaxFaults

Init == /\ active \in Groups
        /\ now = 0 /\ rows = {} /\ orders = {} /\ events = {} /\ compared = {} /\ live = {}
        /\ job = Idle /\ scans = 0 /\ paused = FALSE /\ faults = 0

Fault == faults < MaxFaults /\ faults' = faults + 1
NoFault == UNCHANGED faults

-----------------------------------------------------------------------------
(* A scan.  The day of sma120 is the UTC date; its setting is taken as on when it    *)
(* cannot be read.                                                                  *)
CreatedOn(id, day) == {o \in orders : o.sid = id /\ o.at \div 24 = day}
Sma120Runs == Cardinality(CreatedOn("xau_sma120", now \div 24)) < MaxDailyTrades
Batch(s) == {b \in SUBSET ((s.ids \cap Emitting) \X Targets) :
               /\ b # {}
               /\ Cardinality(b) <= IF s.kind = "sma120" THEN 1 ELSE MaxBatch
               /\ s.kind = "classic" => \A x, y \in b : x[1] = y[1] => x = y}

(* save_records: one row that cannot be inserted loses all, since the transaction is  *)
(* aborted; the scan goes on.                                                        *)
SaveRecords(s, batch) ==
  IF s.kind # "classic" THEN NoFault /\ UNCHANGED rows
  ELSE \/ NoFault /\ rows' = rows \cup {[sid |-> x[1], tgt |-> x[2], scan |-> scans + 1, at |-> now, sent |-> FALSE] : x \in batch}
       \/ Fault /\ UNCHANGED rows

StartScan(s) ==
  /\ job = Idle /\ scans < MaxScans[s.kind]
  /\ s.kind = "sma120" => Sma120Runs
  /\ \E batch \in Batch(s) :
       /\ IF s.kind = "sma120" /\ paused THEN Fault /\ UNCHANGED rows ELSE SaveRecords(s, batch)
       /\ job' = [pc |-> "next", task |-> s, left |-> batch, kept |-> NoKey]
  /\ scans' = scans + 1
  /\ UNCHANGED <<active, now, orders, events, compared, live, paused>>

HasOpen(sid, tgt) == \E o \in orders : o.open /\ o.sid = sid /\ o.tgt = tgt
SentSince(sid, tgt, since) == \E r \in rows : r.sent /\ r.sid = sid /\ r.tgt = tgt /\ r.at >= since

(* The next signal: refused, without an id, or kept.  A lookup of the last 24 hours    *)
(* that fails is taken for no row.                                                   *)
Keep(x, pc, blind) ==
  job' = [pc |-> pc, task |-> job.task, left |-> job.left \ {x}, kept |-> <<x[1], x[2], scans>>, blind |-> blind]
Drop(x) == job' = [job EXCEPT !.pc = "next", !.left = @ \ {x}]
NextSignal ==
  /\ job.pc = "next"
  /\ \E x \in job.left :
       \/ HasOpen(x[1], x[2]) /\ Drop(x) /\ NoFault
       \/ /\ ~HasOpen(x[1], x[2])
          /\ IF job.task.kind # "classic" THEN Keep(x, "save", FALSE) /\ NoFault
             ELSE \/ SentSince(x[1], x[2], now - DedupHours) /\ Drop(x) /\ NoFault
                  \/ ~SentSince(x[1], x[2], now - DedupHours) /\ Keep(x, "mark", FALSE) /\ NoFault
                  \/ ~SentSince(x[1], x[2], now - DedupHours) /\ Drop(x) /\ Fault
                  \/ Keep(x, "mark", TRUE) /\ Fault
  /\ UNCHANGED <<active, now, scans, paused, tables>>

To(pc) == job' = [job EXCEPT !.pc = pc]
Abort == job' = Idle
Step(pc) == job.pc = pc /\ UNCHANGED <<active, now, scans, paused>>

(* update_signal_id comes before the order; when it fails the order is made all the   *)
(* same.                                                                             *)
MarkedScan(r) == IF r.scan = job.kept[3] THEN [r EXCEPT !.sent = TRUE] ELSE r
Marked(r) == IF Key(r) = job.kept THEN [r EXCEPT !.sent = TRUE] ELSE r
Mark == /\ Step("mark") /\ To("save")
        /\ \/ rows' = {Marked(r) : r \in rows} /\ NoFault
           \/ UNCHANGED rows /\ Fault
        /\ UNCHANGED <<orders, events, compared, live>>

NewOrder(key, src) ==
  [sid |-> key[1], tgt |-> key[2], scan |-> key[3], at |-> now, hold |-> job.task.hold, src |-> src, open |-> TRUE, blind |-> job.blind]
SaveOrder == /\ Step("save")
             /\ \/ orders' = orders \cup {NewOrder(job.kept, NoKey)} /\ To("event") /\ NoFault
                \/ UNCHANGED orders /\ Abort /\ Fault
             /\ UNCHANGED <<rows, events, compared, live>>

AppendEvent == /\ Step("event")
               /\ \/ events' = events \cup {job.kept} /\ To("place") /\ NoFault
                  \/ UNCHANGED events /\ Abort /\ Fault
               /\ UNCHANGED <<rows, orders, compared, live>>

(* The live order, where a mirror is there, on, and lets the signal pass; an error      *)
(* is only logged.                                                                   *)
HasShadow == job.kept[1] \in DOMAIN job.task.shadow
TryPlace == /\ Step("place")
            /\ live' \in {live, live \cup IF job.kept[1] \in job.task.live THEN {job.kept} ELSE {}}
            /\ To(IF HasShadow THEN "shadow" ELSE "next") /\ NoFault
            /\ UNCHANGED <<rows, orders, events, compared>>

(* The shadow of a K1 or K2 order: an order with the same levels when the shadow      *)
(* passes, has no open order of its own and gets an id, then a comparison in any case. *)
(* Whatever fails, the comparison is skipped and the scan goes on.                     *)
ShadowKey == <<job.task.shadow[job.kept[1]], job.kept[2], job.kept[3]>>
ShadowMayOpen == ~HasOpen(ShadowKey[1], ShadowKey[2])
ToCompare(pass, order) ==
  job' = [pc |-> "compare", task |-> job.task, left |-> job.left, kept |-> job.kept, blind |-> job.blind, pass |-> pass, order |-> order]
Shadow == /\ Step("shadow")
          /\ \/ ToCompare(FALSE, NoKey) /\ UNCHANGED orders /\ NoFault
             \/ ~ShadowMayOpen /\ ToCompare(TRUE, NoKey) /\ UNCHANGED orders /\ NoFault
             \/ ShadowMayOpen /\ ToCompare(TRUE, NoKey) /\ UNCHANGED orders /\ Fault
             \/ ShadowMayOpen /\ orders' = orders \cup {NewOrder(ShadowKey, job.kept)} /\ To("shadowEvent") /\ NoFault
             \/ To("next") /\ UNCHANGED orders /\ Fault
          /\ UNCHANGED <<rows, events, compared, live>>
ShadowEvent == /\ Step("shadowEvent")
               /\ \/ events' = events \cup {ShadowKey} /\ ToCompare(TRUE, ShadowKey) /\ NoFault
                  \/ UNCHANGED events /\ To("next") /\ Fault
               /\ UNCHANGED <<rows, orders, compared, live>>
SaveShadow == /\ Step("compare") /\ To("next")
              /\ \/ compared' = compared \cup {[source |-> job.kept, pass |-> job.pass, order |-> job.order]} /\ NoFault
                 \/ UNCHANGED compared /\ Fault
              /\ UNCHANGED <<rows, orders, events, live>>

EndScan == /\ Step("next") /\ job.left = {} /\ job' = Idle /\ NoFault /\ UNCHANGED tables

-----------------------------------------------------------------------------
(* A settlement closes what reached a level and what was held long enough, strategy    *)
(* by strategy; an order whose candles cannot be read stays.  A strategy that fails is *)
(* left as it is, and where a failure stops the task so are those after it and the      *)
(* live trades.                                                                      *)
Expired(o) == o.open /\ now >= o.at + o.hold
Reached(st, bad) == IF st.stops THEN {st.ids[i] : i \in {j \in DOMAIN st.ids : \A k \in 1..j : st.ids[k] \notin bad}}
                    ELSE ElementsOf(st.ids) \ bad
Settle(b) ==
  /\ job = Idle
  /\ \E bad \in {{}} \cup {{id} : id \in ElementsOf(b.settle.ids) \cap (Emitting \cup ElementsOf(ShadowIds))} :
       /\ LET mine == {o \in orders : o.open /\ o.sid \in Reached(b.settle, bad)}
          IN \E hit \in SUBSET mine :
               /\ IF bad = {} /\ (\A o \in mine : Expired(o) => o \in hit) THEN NoFault ELSE Fault
               /\ orders' = (orders \ hit) \cup {[o EXCEPT !.open = FALSE] : o \in hit}
       /\ live' \in IF b.settle.sync /\ ~(b.settle.stops /\ bad # {}) THEN SUBSET live ELSE {live}
  /\ UNCHANGED <<active, now, rows, events, compared, job, scans, paused>>

Sync(b) == /\ job = Idle /\ b.sync /\ live' \in SUBSET live
           /\ UNCHANGED <<active, now, rows, orders, events, compared, job, scans, paused, faults>>

TogglePaused == /\ \E b \in active : Sma120Scan \in b.scans
                /\ paused' = ~paused /\ UNCHANGED <<active, now, job, scans, faults, tables>>
Crash == job # Idle /\ Abort /\ Fault /\ UNCHANGED <<active, now, scans, paused, tables>>

(* A scan takes minutes, an hour passes between two.                                   *)
Tick == /\ job = Idle /\ \E t \in Times : t > now /\ (\A u \in Times : u > now => t <= u) /\ now' = t
        /\ UNCHANGED <<active, job, scans, paused, faults, tables>>

ScanStep == NextSignal \/ Mark \/ SaveOrder \/ AppendEvent \/ TryPlace \/ Shadow \/ ShadowEvent \/ SaveShadow \/ EndScan
SettleAny == \E b \in active : Settle(b)
Next == \/ \E b \in active : \E s \in b.scans : StartScan(s)
        \/ ScanStep
        \/ \E b \in active : Sync(b)
        \/ SettleAny \/ TogglePaused \/ Crash \/ Tick
Spec == Init /\ [][Next]_vars

(* Fairness: the scheduler runs a task that is due (ProductionRunner), a scan ends, and  *)
(* each builder's settlement comes around.                                            *)
Fairness == /\ WF_vars(ScanStep)
            /\ \A b \in UNION Groups : WF_vars(b \in active /\ Settle(b))
FairSpec == Spec /\ Fairness

-----------------------------------------------------------------------------
(* A strategy has one open order on a target at most, shadows and sma120 included,      *)
(* however settlements and scans follow one another.                                 *)
OneOpen == \A o, p \in orders : o.open /\ p.open /\ o.sid = p.sid /\ o.tgt = p.tgt => o = p

(* The classic strategies make no second order on a target within 24 hours, closed or    *)
(* not, except when the lookup failed or the first one's row was not there to be marked. *)
OncePerWindow ==
  \A o, p \in orders :
    /\ o.sid = p.sid /\ o.tgt = p.tgt /\ o.scan < p.scan /\ p.at - o.at <= DedupHours
    /\ o.src = NoKey /\ \E b \in active : \E s \in b.scans : s.kind = "classic" /\ o.sid \in s.ids
    => p.blind \/ ~\E r \in rows : r.sent /\ Key(r) = Key(o)

(* What a failure or a restart leaves half done is one signal: a row with an id and no   *)
(* order, an order without its event, a K1 or K2 order without its comparison.          *)
Made == {Key(o) : o \in orders}
Working == IF job = Idle THEN NoKey ELSE job.kept
Halves == {Key(r) : r \in {q \in rows : q.sent /\ Key(q) \notin Made}}
     \cup {IF o.src = NoKey THEN Key(o) ELSE o.src : o \in {p \in orders : Key(p) \notin events}}
     \cup {Key(o) : o \in {p \in orders : p.sid \in DOMAIN ShadowOf /\ ~\E c \in compared : c.source = Key(p)}}
OneHalfPerFault == Cardinality(Halves \ {Working}) <= faults

(* A comparison names the shadow order of its own signal and of a shadow that passed,    *)
(* and that order has the levels' time and target of the order it shadows.             *)
ShadowPairs ==
  \A c \in compared : c.order # NoKey =>
    /\ c.pass
    /\ \E o \in orders : \E p \in orders :
         Key(o) = c.order /\ Key(p) = c.source /\ o.src = c.source /\ o.sid = ShadowOf[p.sid] /\ o.tgt = p.tgt /\ o.at = p.at

(* sma120 makes three orders a UTC day at most, whatever closes in between.              *)
DailyKept == \A t \in Times : Cardinality({o \in orders : o.sid = "xau_sma120" /\ o.at \div 24 = t \div 24}) <= MaxDailyTrades

(* A live trade belongs to a strategy with a mirror, and its paper order is complete.    *)
LiveHasOrder == \A k \in live : /\ k \in Made \cap events
                                /\ \E b \in active : \E s \in b.scans : k[1] \in s.live

(* An order held for its time is closed in the end, a shadow's too, by its own builder:   *)
(* there is no moment from which some overdue order is always open.                    *)
Overdue == \E o \in orders : Expired(o)
=============================================================================
