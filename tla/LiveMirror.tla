----------------------------- MODULE LiveMirror -----------------------------
(***************************************************************************)
(* The live mirror: LiveMirrorEngine (one per strategy), the live_orders   *)
(* table it keeps, and the Binance futures account it drives.              *)
(*                                                                         *)
(* All engines run in one thread, the runner's: at any moment at most one  *)
(* handler is under way (job).  Every call to Binance and every write to   *)
(* the table is a step of its own, so fills, triggers, manual actions, the *)
(* Telegram live switch and crashes fall between any two of them.          *)
(***************************************************************************)
EXTENDS Integers, FiniteSets

CONSTANTS
    Orders,        \* live_order_ids
    Strategies,
    Symbols,
    Prices,        \* entry prices a candidate can have
    None,          \* no order, no signal, no strategy
    AllowedDirs,   \* direction whitelist of each engine
    MaxPending,    \* max_pending
    MaxPositions,  \* max_positions
    AttachRetries, \* _ATTACH_RETRIES
    MaxLegs,       \* bound: exchange ids of one kind of leg per order
    FaultKinds,    \* the failures of an exchange call a run allows
    MaxFaults,     \* bound: failed calls
    MaxCrashes,    \* bound: restarts of the process
    MaxToggles     \* bound: uses of /livemode

Directions == {"LONG", "SHORT"}
Kinds == {"SL", "TP"}
LegIds == 1..MaxLegs
LegIds0 == 0..MaxLegs            \* 0 is a NULL column
Attempts == 1..2                 \* place_entry_with_sltp, then plain LIMIT

AllFaults == {"reject", "lost", "timeout"}

Signals == [strat : Strategies, sym : Symbols, dir : Directions, price : Prices]

ASSUME ConstantsOK ==
    /\ None \notin Orders \cup Strategies \cup Signals
    /\ Prices \subseteq Nat \ {0}
    /\ AllowedDirs \in [Strategies -> SUBSET Directions]
    /\ MaxPending \in Nat /\ MaxPositions \in Nat
    /\ AttachRetries \in Nat \ {0}
    /\ MaxLegs \in Nat \ {0}
    /\ FaultKinds \subseteq AllFaults
    /\ MaxFaults \in Nat /\ MaxCrashes \in Nat /\ MaxToggles \in Nat

(* Statuses of a live_orders row; "NONE" is no row. *)
Active    == {"PENDING", "FILLED"}
Withdrawn == {"CANCELED", "CANCELED_EXPIRED", "REPLACED", "DIRECTION_CONFLICT"}
Closed    == {"CLOSED_SL", "CLOSED_TP", "MANUAL_CLOSED"}
Refused   == {"REJECTED", "IGNORED_DUPLICATE", "IGNORED_WORSE_ENTRY",
              "DIRECTION_CONFLICT", "POSITION_EXISTS_SAME_SIDE",
              "POSITION_EXISTS_OPPOSITE_SIDE"}
Terminal  == Withdrawn \cup Closed \cup Refused
Statuses  == {"NONE"} \cup Active \cup Terminal

(* _TERMINAL_STATUSES, the statuses the cleanup sweep looks at. *)
TerminalStatuses == {"CANCELED", "CANCELED_EXPIRED", "REJECTED", "REPLACED",
                     "CLOSED_SL", "CLOSED_TP"}

Row == [status : Statuses, entry : 0..2, leg : [Kinds -> LegIds0]]
NoLegs == [k \in Kinds |-> 0]
NoRow  == [status |-> "NONE", entry |-> 0, leg |-> NoLegs]

(* An order of the exchange is "absent" before it is placed and again once *)
(* it is cancelled: a recorded id tells the two apart.                     *)
EntryStates == {"absent", "open", "partial", "filled"}
LegStates   == {"absent", "open", "filled"}
NoLeg == [st |-> "absent", qty |-> 0]

PlaceSteps == {"risk", "entry", "fallback", "leg", "save"}
Steps  == {"idle", "cancel", "mark", "status", "pass", "attach", "markFilled",
           "remaining"} \cup PlaceSteps
Phases == {"none", "place", "pending", "filled", "expire", "clean"}

Job == [pc : Steps, phase : Phases, strat : Strategies \cup {None},
        todo : SUBSET Orders,           \* rows of the loop still to handle
        o : Orders \cup {None},         \* the order handled or placed
        tgt : Orders \cup {None},       \* the row the cancel path will mark,
        mark : Statuses,                \* and the status it will write
        need : SUBSET Kinds,            \* legs still to place or to cancel
        entry : 0..2, leg : [Kinds -> LegIds0],   \* ids collected so far
        qty : Nat, tries : Nat]
IdleJob == [pc |-> "idle", phase |-> "none", strat |-> None, todo |-> {},
            o |-> None, tgt |-> None, mark |-> "NONE", need |-> {},
            entry |-> 0, leg |-> NoLegs, qty |-> 0, tries |-> 0]

-----------------------------------------------------------------------------
(***************************************************************************)
(* Same-symbol conflict resolution: LiveOrderManager in                    *)
(* v3/live/order_manager.py.  Pure decision logic: try_place hands in the  *)
(* candidate and its own strategy's PENDING and FILLED rows of the symbol. *)
(* Prices are positive integers, so the 0.5% tolerance is an exact         *)
(* comparison: 1000 * new <= 995 * old is new <= old * (1 - 0.005).        *)
(***************************************************************************)
(* The new entry is at least 0.5% closer to a favourable fill. *)
Better(dir, new, old) ==
    IF dir = "LONG" THEN 1000 * new <= 995 * old ELSE 1000 * new >= 1005 * old

(* The new entry is more than 0.5% less favourable. *)
Worse(dir, new, old) ==
    IF dir = "LONG" THEN 1000 * new > 1005 * old ELSE 1000 * new < 995 * old

FilledAction(cand, old) ==
    IF old.dir = cand.dir THEN "POSITION_SAME_SIDE" ELSE "POSITION_OPPOSITE_SIDE"

PendingAction(cand, old) ==
    IF old.dir # cand.dir THEN "CANCEL_CONFLICT"
    ELSE IF old.price <= 0 THEN "PLACE"
    ELSE IF Better(cand.dir, cand.price, old.price) THEN "REPLACE"
    ELSE IF Worse(cand.dir, cand.price, old.price) THEN "IGNORE_WORSE_ENTRY"
    ELSE "IGNORE_DUPLICATE"

(***************************************************************************)
(* The decisions open to resolve(): an open position decides first, then a *)
(* pending order, and only then is the signal free to be placed.  The code *)
(* looks at the oldest row of the list; here any member may be that one.   *)
(***************************************************************************)
ResolveBug(cand, sigOf, pending, filled, nobody) ==
    IF filled # {}
    THEN {[action |-> FilledAction(cand, sigOf[x]), old |-> x] : x \in filled}
    ELSE {[action |-> "PLACE", old |-> nobody]}
Resolve(cand, sigOf, pending, filled, nobody) ==
    IF filled # {}
    THEN {[action |-> FilledAction(cand, sigOf[x]), old |-> x] : x \in filled}
    ELSE IF pending # {}
    THEN {[action |-> PendingAction(cand, sigOf[x]), old |-> x] : x \in pending}
    ELSE {[action |-> "PLACE", old |-> nobody]}

-----------------------------------------------------------------------------
VARIABLES
    sig,   \* the candidate each live_order_id was made for
    row,   \* the live_orders table
    ent,   \* Binance: entry orders of each live order
    leg,   \* Binance: SL/TP algo orders of each live order
    pos,   \* Binance: hedge-mode positions, in order quantities
    live,  \* v3_runtime_settings.live_enabled of each strategy
    job,   \* the handler under way
    used   \* how much of each bound is used up

exchange == <<ent, leg, pos>>
vars == <<sig, row, ent, leg, pos, live, job, used>>

-----------------------------------------------------------------------------
Key(o) == <<sig[o].strat, sig[o].sym>>

(* Definitions that end in Bug are mistakes the code could have made, each  *)
(* one ahead of what it distorts; they serve to test the properties only.  *)
RowsBug(status, s) == {o \in Orders : row[o].status \in Active /\ sig[o].strat = s}

(* load_by_status, load_pending_by_symbol, load_filled_by_symbol *)
Rows(status, s) == {o \in Orders : row[o].status = status /\ sig[o].strat = s}
RowsOf(status, s, sym) == {o \in Rows(status, s) : sig[o].sym = sym}

Recorded(o) == {k \in Kinds : row[o].leg[k] # 0}
LegOf(o, k) == leg[o][k][row[o].leg[k]]
EntryOf(o)  == ent[o][row[o].entry]

OpenEntries == {x \in Orders \X Attempts : ent[x[1]][x[2]] \in {"open", "partial"}}
OpenPositions == {x \in Symbols \X Directions : pos[x[1]][x[2]] > 0}

(* An exchange id nobody remembers. *)
Fresh(o, k) == {n \in LegIds : /\ leg[o][k][n].st = "absent"
                               /\ n # row[o].leg[k]
                               /\ n # job.leg[k]}

(***************************************************************************)
(* What the engine sees of an exchange call.  "bfe" is a BinanceFutures-   *)
(* Error, "exc" any other exception (a socket timeout): both may hide a    *)
(* call that took effect (eff).                                            *)
(***************************************************************************)
Outcome == [res : {"ok"}, eff : {TRUE}] \cup [res : {"bfe", "exc"}, eff : BOOLEAN]
FaultOf(r) == IF r.res = "exc" THEN "timeout" ELSE IF r.eff THEN "lost" ELSE "reject"
Possible(r) == r.res = "ok" \/ (FaultOf(r) \in FaultKinds /\ used.faults < MaxFaults)
Charge(r) == used' = [used EXCEPT !.faults = @ + IF r.res = "ok" THEN 0 ELSE 1]
ChargeN(n) == /\ n > 0 => FaultKinds # {} /\ used.faults + n <= MaxFaults
              /\ used' = [used EXCEPT !.faults = @ + n]

CancelEntryBug(o, n, hit) ==
    ent' = IF hit /\ ent[o][n] = "open" THEN [ent EXCEPT ![o][n] = "absent"] ELSE ent
CancelEntry(o, n, hit) ==
    ent' = IF hit /\ ent[o][n] \in {"open", "partial"}
           THEN [ent EXCEPT ![o][n] = "absent"] ELSE ent
CancelLegs(o, ks) ==
    leg' = [leg EXCEPT ![o] = [k \in Kinds |-> [n \in LegIds |->
               IF k \in ks /\ n = row[o].leg[k] /\ leg[o][k][n].st = "open"
               THEN NoLeg ELSE leg[o][k][n]]]]
OpenLeg(o, k, n, qty) ==
    leg' = [leg EXCEPT ![o][k][n] = [st |-> "open", qty |-> qty]]

Goto(pc) == job' = [job EXCEPT !.pc = pc]

(* One of the loops of the sync and cleanup tasks, over the rows todo. *)
Pass(phase, s, todo) ==
    [IdleJob EXCEPT !.pc = "pass", !.phase = phase, !.strat = s, !.todo = todo]
Done(o) == job' = Pass(job.phase, job.strat, job.todo \ {o})

(* try_place, for the order o of strategy s. *)
PlaceJob(o, s, pc, old, mark) ==
    [IdleJob EXCEPT !.pc = pc, !.phase = "place", !.strat = s, !.o = o,
                    !.tgt = old, !.mark = mark]
Reject == job' = PlaceJob(job.o, job.strat, "status", None, "REJECTED")

-----------------------------------------------------------------------------
(* try_place: guards, and the conflict decision on the strategy's own rows. *)
StatusOfBug == [a \in {"IGNORE_DUPLICATE", "IGNORE_WORSE_ENTRY", "CANCEL_CONFLICT",
                      "POSITION_SAME_SIDE", "POSITION_OPPOSITE_SIDE"} |-> a]
StatusOf == [IGNORE_DUPLICATE |-> "IGNORED_DUPLICATE",
             IGNORE_WORSE_ENTRY |-> "IGNORED_WORSE_ENTRY",
             CANCEL_CONFLICT |-> "DIRECTION_CONFLICT",
             POSITION_SAME_SIDE |-> "POSITION_EXISTS_SAME_SIDE",
             POSITION_OPPOSITE_SIDE |-> "POSITION_EXISTS_OPPOSITE_SIDE"]

AfterDecision(o, s, d) ==
    CASE d.action = "PLACE"           -> PlaceJob(o, s, "risk", None, "NONE")
      [] d.action = "REPLACE"         -> PlaceJob(o, s, "cancel", d.old, "REPLACED")
      [] d.action = "CANCEL_CONFLICT" -> PlaceJob(o, s, "cancel", d.old, "DIRECTION_CONFLICT")
      [] OTHER                        -> PlaceJob(o, s, "status", None, StatusOf[d.action])

TryPlace(o, c) ==
    /\ job.pc = "idle" /\ sig[o] = None
    /\ live[c.strat] /\ c.dir \in AllowedDirs[c.strat]
    /\ sig' = [sig EXCEPT ![o] = c]
    /\ \/ \E d \in Resolve(c, sig, RowsOf("PENDING", c.strat, c.sym),
                           RowsOf("FILLED", c.strat, c.sym), None) :
             job' = AfterDecision(o, c.strat, d)
       \/ job' = PlaceJob(o, c.strat, "status", None, "REJECTED") \* entry/SL/TP missing
    /\ UNCHANGED <<row, exchange, live, used>>

(* _cancel_binance_order: each cancel may fail, and no failure stops it. *)
CancelBinanceOrder ==
    /\ job.pc = "cancel"
    /\ LET t == job.tgt IN
       \E failed \in SUBSET ({"ENTRY"} \cup Recorded(t)) :
          /\ ChargeN(Cardinality(failed))
          /\ CancelEntry(t, row[t].entry, "ENTRY" \notin failed)
          /\ CancelLegs(t, Recorded(t) \ failed)
    /\ Goto("mark")
    /\ UNCHANGED <<sig, row, pos, live>>

(* update_status at the end of a conflict, an expiry or a close. *)
MarkStatus ==
    /\ job.pc = "mark"
    /\ row' = [row EXCEPT ![job.tgt].status = job.mark]
    /\ IF job.phase # "place" THEN Done(job.tgt)
       ELSE job' = IF job.mark = "REPLACED"
                   THEN PlaceJob(job.o, job.strat, "risk", None, "NONE")
                   ELSE PlaceJob(job.o, job.strat, "status", None, job.mark)
    /\ UNCHANGED <<sig, exchange, live, used>>

(* _save_status_order: a row that never was an order. *)
SaveStatusRow ==
    /\ job.pc = "status"
    /\ row' = [row EXCEPT ![job.o] = [NoRow EXCEPT !.status = job.mark]]
    /\ job' = IdleJob
    /\ UNCHANGED <<sig, exchange, live, used>>

(* The counts that are at their limit, and so must not have been readable. *)
FailedReadsBug == IF Cardinality(OpenEntries) <= MaxPending THEN 0 ELSE 1
FailedReads ==
    (IF Cardinality(OpenEntries) < MaxPending THEN 0 ELSE 1)
    + (IF Cardinality(OpenPositions) < MaxPositions THEN 0 ELSE 1)

(***************************************************************************)
(* _risk_check.  A count that cannot be read does not block; the stop-     *)
(* distance, balance and quantity checks may reject whatever the counts.   *)
(***************************************************************************)
RiskCheck ==
    /\ job.pc = "risk"
    /\ \/ /\ ChargeN(FailedReads)
          /\ Goto("entry")
       \/ Reject /\ UNCHANGED used
    /\ UNCHANGED <<sig, row, exchange, live>>

(* The entry POST of place_entry_with_sltp. *)
PlaceEntry ==
    /\ job.pc = "entry"
    /\ \E r \in Outcome :
          /\ Possible(r) /\ Charge(r)
          /\ ent' = IF r.eff THEN [ent EXCEPT ![job.o][1] = "open"] ELSE ent
          /\ \/ r.res = "ok" /\ job' = [job EXCEPT !.pc = "leg", !.entry = 1, !.need = Kinds]
             \/ r.res = "bfe" /\ Goto("fallback")
             \/ r.res = "exc" /\ Reject
    /\ UNCHANGED <<sig, row, leg, pos, live>>

(* place_limit, the fallback after a BinanceFuturesError: no legs. *)
PlaceFallback ==
    /\ job.pc = "fallback"
    /\ \E r \in Outcome :
          /\ Possible(r) /\ Charge(r)
          /\ ent' = IF r.eff THEN [ent EXCEPT ![job.o][2] = "open"] ELSE ent
          /\ \/ r.res = "ok" /\ job' = [job EXCEPT !.pc = "save", !.entry = 2]
             \/ r.res # "ok" /\ Reject
    /\ UNCHANGED <<sig, row, leg, pos, live>>

NextLeg(need) == IF "SL" \in need THEN "SL" ELSE "TP"

(***************************************************************************)
(* The SL and then the TP algo order of place_entry_with_sltp.  A Binance- *)
(* FuturesError leaves the id empty; anything else reaches try_place,      *)
(* which records a REJECTED row although the entry is on the exchange.     *)
(***************************************************************************)
PlaceLeg ==
    /\ job.pc = "leg"
    /\ LET k == NextLeg(job.need) IN
       \E n \in Fresh(job.o, k), r \in Outcome :
          /\ Possible(r) /\ Charge(r)
          /\ IF r.eff THEN OpenLeg(job.o, k, n, 1) ELSE leg' = leg
          /\ IF r.res = "exc" THEN Reject
             ELSE job' = [job EXCEPT !.pc = IF job.need = {k} THEN "save" ELSE "leg",
                                     !.need = @ \ {k},
                                     !.leg[k] = IF r.res = "ok" THEN n ELSE 0]
    /\ UNCHANGED <<sig, row, ent, pos, live>>

SaveOrder ==
    /\ job.pc = "save"
    /\ row' = [row EXCEPT ![job.o] =
                 [status |-> "PENDING", entry |-> job.entry, leg |-> job.leg]]
    /\ job' = IdleJob
    /\ UNCHANGED <<sig, exchange, live, used>>

-----------------------------------------------------------------------------
(* sync_all, run by the live-sync task only while the strategy is live. *)
StartSync(s) ==
    /\ job.pc = "idle" /\ live[s]
    /\ job' = Pass("pending", s, Rows("PENDING", s))
    /\ UNCHANGED <<sig, row, exchange, live, used>>

(* The loop is over: the next one loads its rows afresh. *)
NextPhase ==
    /\ job.pc = "pass" /\ job.todo = {}
    /\ job' = CASE job.phase = "pending" -> Pass("filled", job.strat, Rows("FILLED", job.strat))
                [] job.phase = "filled"  -> Pass("expire", job.strat, Rows("PENDING", job.strat))
                [] OTHER -> IdleJob
    /\ UNCHANGED <<sig, row, exchange, live, used>>

InPhase(phase, o) == job.pc = "pass" /\ job.phase = phase /\ o \in job.todo

StartAttach(o, qty) ==
    job' = [job EXCEPT !.pc = "attach", !.o = o, !.need = Kinds \ Recorded(o),
                       !.leg = row[o].leg, !.qty = qty, !.tries = 0]

(* _sync_pending *)
SyncPending(o) ==
    /\ InPhase("pending", o)
    /\ \/ /\ EntryOf(o) = "filled" /\ Recorded(o) = Kinds
          /\ row' = [row EXCEPT ![o].status = "FILLED"]
          /\ Done(o) /\ UNCHANGED used
       \/ /\ EntryOf(o) = "filled" /\ Recorded(o) # Kinds
          /\ StartAttach(o, 1) /\ UNCHANGED <<row, used>>
       \/ /\ EntryOf(o) = "absent"
          /\ row' = [row EXCEPT ![o].status = "CANCELED"]
          /\ Done(o) /\ UNCHANGED used
       \/ /\ EntryOf(o) \in {"open", "partial"}
          /\ Done(o) /\ UNCHANGED <<row, used>>
       \/ ChargeN(1) /\ Done(o) /\ UNCHANGED row       \* get_order failed
    /\ UNCHANGED <<sig, exchange, live>>

(***************************************************************************)
(* One attempt of _attach_sl_with_retry or _attach_tp_with_retry.  After a *)
(* leg is given up or placed the pending path goes on to the other leg and *)
(* writes once; the naked path writes after every leg it places.           *)
(***************************************************************************)
AfterAttach(need, placed) ==
    IF job.phase = "filled" /\ placed THEN "markFilled"
    ELSE IF need # {} THEN "attach"
    ELSE IF job.phase = "filled" THEN "pass" ELSE "markFilled"

LegSettledBug(k, n) ==
    IF job.need = {k} THEN Done(job.o)
    ELSE job' = [job EXCEPT !.need = @ \ {k}, !.tries = 0]
LegSettled(k, n) ==
    LET next == AfterAttach(job.need \ {k}, n # 0) IN
    IF next = "pass" THEN Done(job.o)
    ELSE job' = [job EXCEPT !.pc = next, !.need = @ \ {k}, !.tries = 0, !.leg[k] = n]

AttachLeg ==
    /\ job.pc = "attach"
    /\ LET k == NextLeg(job.need) IN
       \/ \E n \in Fresh(job.o, k), r \in Outcome :
             /\ Possible(r) /\ Charge(r)
             /\ IF r.eff THEN OpenLeg(job.o, k, n, job.qty) ELSE leg' = leg
             /\ \/ r.res = "ok" /\ LegSettled(k, n)
                \/ /\ r.res = "bfe"
                   /\ IF job.tries + 1 < AttachRetries
                      THEN job' = [job EXCEPT !.tries = @ + 1] ELSE LegSettled(k, 0)
                \/ r.res = "exc" /\ Done(job.o)
       \/ Fresh(job.o, k) = {} /\ LegSettled(k, 0) /\ UNCHANGED <<leg, used>> \* bound MaxLegs
    /\ UNCHANGED <<sig, row, ent, pos, live>>

(* update_status(.., "FILLED", ids): COALESCE keeps an id it is not given. *)
MarkFilled ==
    /\ job.pc = "markFilled"
    /\ row' = [row EXCEPT ![job.o].status = "FILLED",
                          ![job.o].leg = [k \in Kinds |->
                              IF job.leg[k] # 0 THEN job.leg[k] ELSE row[job.o].leg[k]]]
    /\ IF job.need # {} THEN Goto("attach") ELSE Done(job.o)
    /\ UNCHANGED <<sig, exchange, live, used>>

(* The legs to cancel (need) before the row is marked. *)
CloseJob(o, mark, ks) ==
    job' = [job EXCEPT !.pc = "remaining", !.tgt = o, !.mark = mark, !.need = ks]

(***************************************************************************)
(* _sync_filled with a leg missing: no position means closed by hand, a    *)
(* position (or an unreadable one) means the missing legs are re-attached  *)
(* for the whole position quantity (for the stored quantity).              *)
(***************************************************************************)
CheckNaked(o) ==
    /\ InPhase("filled", o) /\ Recorded(o) # Kinds
    /\ LET qty == pos[sig[o].sym][sig[o].dir] IN
       \/ qty = 0 /\ CloseJob(o, "MANUAL_CLOSED", Recorded(o)) /\ UNCHANGED used
       \/ qty > 0 /\ StartAttach(o, qty) /\ UNCHANGED used
       \/ ChargeN(1) /\ StartAttach(o, 1)
    /\ UNCHANGED <<sig, row, exchange, live>>

(* get_algo_order: what the leg is, and what the engine may be told it is. *)
TruthBug(o, k) == IF LegOf(o, k).st = "open" THEN "open" ELSE "filled"
Truth(o, k) == CASE LegOf(o, k).st = "filled" -> "filled"
                 [] LegOf(o, k).st = "absent" -> "lost"
                 [] OTHER                     -> "open"
Answers(o, k) == {Truth(o, k)}
                 \cup (IF "reject" \in FaultKinds THEN {"lost"} ELSE {})
                 \cup (IF "timeout" \in FaultKinds THEN {"unread"} ELSE {})
ClearLeg(o, k) == row' = [row EXCEPT ![o].leg[k] = 0] /\ Done(o)

(***************************************************************************)
(* _sync_filled with both legs recorded: the SL is asked first, then the   *)
(* TP.  A lost id, or any BinanceFuturesError, clears the column and ends  *)
(* the handler; another exception is ignored.                              *)
(***************************************************************************)
CheckLegs(o) ==
    /\ InPhase("filled", o) /\ Recorded(o) = Kinds
    /\ \E sl \in Answers(o, "SL"), tp \in Answers(o, "TP") :
          /\ ChargeN(Cardinality({k \in Kinds : (IF k = "SL" THEN sl ELSE tp) # Truth(o, k)}))
          /\ \/ sl = "lost" /\ tp = Truth(o, "TP") /\ ClearLeg(o, "SL")
             \/ sl = "filled" /\ tp = Truth(o, "TP")
                /\ CloseJob(o, "CLOSED_SL", {"TP"}) /\ UNCHANGED row
             \/ sl \in {"open", "unread"} /\ tp = "lost" /\ ClearLeg(o, "TP")
             \/ sl \in {"open", "unread"} /\ tp = "filled"
                /\ CloseJob(o, "CLOSED_TP", {"SL"}) /\ UNCHANGED row
             \/ sl \in {"open", "unread"} /\ tp \in {"open", "unread"}
                /\ Done(o) /\ UNCHANGED row
    /\ UNCHANGED <<sig, exchange, live>>

(* _cancel_remaining_algo_orders *)
CancelRemaining ==
    /\ job.pc = "remaining"
    /\ \E failed \in SUBSET job.need :
          /\ ChargeN(Cardinality(failed))
          /\ CancelLegs(job.tgt, job.need \ failed)
    /\ Goto("mark")
    /\ UNCHANGED <<sig, row, ent, pos, live>>

(* _expire_stale_pending: older than 24h or more than 5% away, or not. *)
ExpireBug(o) ==
    /\ InPhase("expire", o) /\ EntryOf(o) = "open"
    /\ job' = [job EXCEPT !.pc = "cancel", !.tgt = o, !.mark = "CANCELED_EXPIRED"]
    /\ UNCHANGED <<sig, row, exchange, live, used>>
Expire(o) ==
    /\ InPhase("expire", o)
    /\ job' = [job EXCEPT !.pc = "cancel", !.tgt = o, !.mark = "CANCELED_EXPIRED"]
    /\ UNCHANGED <<sig, row, exchange, live, used>>

KeepPending(o) ==
    /\ InPhase("expire", o)
    /\ Done(o)
    /\ UNCHANGED <<sig, row, exchange, live, used>>

-----------------------------------------------------------------------------
(* cleanup_dangling_algo_orders, for every strategy and live or not. *)
StartCleanupBug ==
    /\ job.pc = "idle"
    /\ job' = Pass("clean", None, {o \in Orders : /\ row[o].status \in {"CLOSED_SL", "CLOSED_TP"}
                                                  /\ Recorded(o) # {}})
    /\ UNCHANGED <<sig, row, exchange, live, used>>
StartCleanup ==
    /\ job.pc = "idle"
    /\ job' = Pass("clean", None, {o \in Orders : /\ row[o].status \in TerminalStatuses
                                                  /\ Recorded(o) # {}})
    /\ UNCHANGED <<sig, row, exchange, live, used>>

(* _cancel_and_confirm on each leg, then clear_algo_ids of those gone. *)
CleanRow(o) ==
    /\ InPhase("clean", o)
    /\ \E failed \in SUBSET Recorded(o) :
          /\ ChargeN(Cardinality(failed))
          /\ CancelLegs(o, Recorded(o) \ failed)
          /\ row' = [row EXCEPT ![o].leg =
                        [k \in Kinds |-> IF k \in failed THEN row[o].leg[k] ELSE 0]]
    /\ Done(o)
    /\ UNCHANGED <<sig, ent, pos, live>>

-----------------------------------------------------------------------------
(* The world around the engines. *)
FillEntry(o, n) ==
    /\ \/ ent[o][n] = "open" /\ \E st \in {"partial", "filled"} :
             /\ ent' = [ent EXCEPT ![o][n] = st]
             /\ pos' = [pos EXCEPT ![sig[o].sym][sig[o].dir] = @ + 1]
       \/ ent[o][n] = "partial" /\ ent' = [ent EXCEPT ![o][n] = "filled"] /\ pos' = pos
    /\ UNCHANGED <<sig, row, leg, live, job, used>>

(* Cancelled by hand or ended by the exchange. *)
DropEntry(o, n) ==
    /\ ent[o][n] \in {"open", "partial"}
    /\ ent' = [ent EXCEPT ![o][n] = "absent"]
    /\ UNCHANGED <<sig, row, leg, pos, live, job, used>>

(* The trigger price is reached: the leg closes up to its own quantity. *)
TriggerLeg(o, k, n) ==
    LET held == pos[sig[o].sym][sig[o].dir]
        qty  == leg[o][k][n].qty
    IN /\ leg[o][k][n].st = "open" /\ held > 0
       /\ leg' = [leg EXCEPT ![o][k][n] = [st |-> "filled", qty |-> 0]]
       /\ pos' = [pos EXCEPT ![sig[o].sym][sig[o].dir] = IF qty < held THEN held - qty ELSE 0]
       /\ UNCHANGED <<sig, row, ent, live, job, used>>

(* Cancelled by hand, or triggered with no position to close. *)
DropLeg(o, k, n) ==
    /\ leg[o][k][n].st = "open"
    /\ leg' = [leg EXCEPT ![o][k][n] = NoLeg]
    /\ UNCHANGED <<sig, row, ent, pos, live, job, used>>

ManualClose(sym, d) ==
    /\ pos[sym][d] > 0
    /\ pos' = [pos EXCEPT ![sym][d] = 0]
    /\ UNCHANGED <<sig, row, ent, leg, live, job, used>>

(* /livemode <strategy> on|off from the Telegram thread. *)
SetLive(s) ==
    /\ used.toggles < MaxToggles
    /\ live' = [live EXCEPT ![s] = ~@]
    /\ used' = [used EXCEPT !.toggles = @ + 1]
    /\ UNCHANGED <<sig, row, exchange, job>>

Crash ==
    /\ job.pc # "idle" /\ used.crashes < MaxCrashes
    /\ job' = IdleJob
    /\ used' = [used EXCEPT !.crashes = @ + 1]
    /\ UNCHANGED <<sig, row, exchange, live>>

-----------------------------------------------------------------------------
Init ==
    /\ sig = [o \in Orders |-> None]
    /\ row = [o \in Orders |-> NoRow]
    /\ ent = [o \in Orders |-> [n \in Attempts |-> "absent"]]
    /\ leg = [o \in Orders |-> [k \in Kinds |-> [n \in LegIds |-> NoLeg]]]
    /\ pos = [sym \in Symbols |-> [d \in Directions |-> 0]]
    /\ live = [s \in Strategies |-> TRUE]
    /\ job = IdleJob
    /\ used = [faults |-> 0, crashes |-> 0, toggles |-> 0]

(* A handler under way does its next step. *)
JobStep ==
    \/ CancelBinanceOrder \/ MarkStatus \/ SaveStatusRow
    \/ RiskCheck \/ PlaceEntry \/ PlaceFallback \/ PlaceLeg \/ SaveOrder
    \/ NextPhase \/ AttachLeg \/ MarkFilled \/ CancelRemaining
    \/ \E o \in Orders : \/ SyncPending(o) \/ CheckNaked(o) \/ CheckLegs(o)
                         \/ Expire(o) \/ KeepPending(o) \/ CleanRow(o)

World ==
    \/ \E o \in Orders, n \in Attempts : FillEntry(o, n) \/ DropEntry(o, n)
    \/ \E o \in Orders, k \in Kinds, n \in LegIds : TriggerLeg(o, k, n) \/ DropLeg(o, k, n)
    \/ \E sym \in Symbols, d \in Directions : ManualClose(sym, d)
    \/ \E s \in Strategies : SetLive(s)
    \/ Crash

Next ==
    \/ JobStep
    \/ \E o \in Orders, c \in Signals : TryPlace(o, c)
    \/ \E s \in Strategies : StartSync(s)
    \/ StartCleanup
    \/ World

Spec == Init /\ [][Next]_vars

(***************************************************************************)
(* The scheduler runs the sync task of every strategy and the orphan sweep *)
(* again and again, a handler that was started goes on, and a pending      *)
(* order that stays grows older than 24 hours.                             *)
(***************************************************************************)
FairSpec ==
    /\ Spec
    /\ WF_vars(JobStep)
    /\ \A s \in Strategies : SF_vars(StartSync(s))
    /\ SF_vars(StartCleanup)
    /\ \A o \in Orders : SF_vars(Expire(o))

-----------------------------------------------------------------------------
(* Types of the table, the account, the switch and the handler under way. *)
TypeOK ==
    /\ sig \in [Orders -> Signals \cup {None}]
    /\ row \in [Orders -> Row]
    /\ ent \in [Orders -> [Attempts -> EntryStates]]
    /\ leg \in [Orders -> [Kinds -> [LegIds -> [st : LegStates, qty : Nat]]]]
    /\ pos \in [Symbols -> [Directions -> Nat]]
    /\ live \in [Strategies -> BOOLEAN]
    /\ job \in Job
    /\ used \in [faults : Nat, crashes : Nat, toggles : Nat]

(* Whatever happens, each row goes through the statuses of the abstract    *)
(* lifecycle, one row per step: no terminal row is written again, a FILLED *)
(* row never goes back, nothing is closed that was not filled.             *)
Lifecycle == INSTANCE OrderLifecycle WITH status <- [o \in Orders |-> row[o].status]
ImplementsLifecycle == Lifecycle!Spec

(* A strategy never has two orders at work on one symbol: whatever fills,  *)
(* fails or crashes, try_place keeps at most one PENDING or FILLED row per *)
(* strategy and symbol (order_manager.py, rules 1 and 2).                  *)
OneActivePerSymbol ==
    \A o1, o2 \in Orders :
        /\ row[o1].status \in Active /\ row[o2].status \in Active
        /\ Key(o1) = Key(o2)
        => o1 = o2

(* The handler under way works on rows that still are what it read them    *)
(* as, although fills, crashes and the live switch come in between: the    *)
(* order it places has no row yet and no rival at work, the row it is      *)
(* about to withdraw is PENDING, the one it closes FILLED.                 *)
PlacingUpToDate ==
    /\ job.phase = "place" =>
          /\ job.todo = {} /\ job.pc \in PlaceSteps \cup {"cancel", "mark", "status"}
          /\ job.o \in Orders /\ sig[job.o] # None /\ row[job.o].status = "NONE"
    /\ job.pc \in PlaceSteps \cup {"status"} => job.phase = "place"
    /\ job.pc \in PlaceSteps =>
          \A p \in Orders : row[p].status \in Active => Key(p) # Key(job.o)
    /\ job.pc = "status" => job.mark \in Refused

MarkingUpToDate ==
    /\ job.pc \in {"cancel", "mark", "remaining"} => job.tgt \in Orders
    /\ job.pc \in {"cancel", "mark"} =>
          \/ /\ job.phase = "place" /\ row[job.tgt].status = "PENDING"
             /\ Key(job.tgt) = Key(job.o)
             /\ job.mark \in {"REPLACED", "DIRECTION_CONFLICT"}
          \/ /\ job.phase = "expire" /\ row[job.tgt].status = "PENDING"
             /\ job.mark = "CANCELED_EXPIRED"
          \/ /\ job.phase = "filled" /\ row[job.tgt].status = "FILLED"
             /\ job.mark \in Closed /\ job.pc = "mark"
    /\ job.pc = "remaining" =>
          job.phase = "filled" /\ row[job.tgt].status = "FILLED" /\ job.mark \in Closed

LoopsUpToDate ==
    /\ job.phase \in {"pending", "expire"} => \A o \in job.todo : row[o].status = "PENDING"
    /\ job.phase = "filled" => \A o \in job.todo : row[o].status = "FILLED"
    /\ job.pc \in {"attach", "markFilled"} =>
          /\ job.o \in Orders
          /\ \/ /\ job.phase = "pending" /\ row[job.o].status = "PENDING"
                /\ job.pc = "markFilled" => job.need = {}
             \/ job.phase = "filled" /\ row[job.o].status = "FILLED"

HandlerUpToDate ==
    /\ \A o \in Orders : sig[o] = None => row[o].status = "NONE"
    /\ PlacingUpToDate /\ MarkingUpToDate /\ LoopsUpToDate

(* A row is closed as a stop loss (take profit) only if an SL (TP) leg of  *)
(* that very order was triggered on the exchange, and is FILLED or closed  *)
(* only if its entry was: performance figures rest on these statuses.      *)
ClosedByItsLeg ==
    \A o \in Orders :
        /\ row[o].status = "CLOSED_SL" => \E n \in LegIds : leg[o]["SL"][n].st = "filled"
        /\ row[o].status = "CLOSED_TP" => \E n \in LegIds : leg[o]["TP"][n].st = "filled"
        /\ row[o].status \in Closed \cup {"FILLED"} => EntryOf(o) = "filled"

(* While no call has failed and no handler was cut off, every entry and    *)
(* every leg that is open on the exchange is known: recorded in the row of *)
(* its order, or about to be by the handler under way.                     *)
NothingUntracked ==
    used.faults = 0 /\ used.crashes = 0 =>
        \A o \in Orders :
            /\ \A n \in Attempts : ent[o][n] \in {"open", "partial"} =>
                  \/ row[o].status = "PENDING" /\ row[o].entry = n
                  \/ job.pc \in PlaceSteps /\ job.o = o /\ job.entry = n
            /\ \A k \in Kinds, n \in LegIds : leg[o][k][n].st = "open" =>
                  \/ row[o].leg[k] = n
                  \/ job.o = o /\ job.leg[k] = n

(* max_pending bounds the entries open on the account as long as the count *)
(* could be read: no fill, replacement or restart gets past it.            *)
EntriesCapped == used.faults = 0 => Cardinality(OpenEntries) <= MaxPending

(* While the strategy is live every pending order is filled, cancelled or  *)
(* expired in the end.                                                     *)
PendingResolves ==
    \A o \in Orders : row[o].status = "PENDING"
        ~> row[o].status # "PENDING" \/ ~live[sig[o].strat]

(* While the strategy is live an open order without one of its legs gets   *)
(* it back, or is closed.                                                  *)
NakedRepaired ==
    \A o \in Orders : row[o].status = "FILLED" /\ Recorded(o) # Kinds
        ~> row[o].status # "FILLED" \/ Recorded(o) = Kinds \/ ~live[sig[o].strat]

(* The cleanup sweep ends with no leg of a row it covers recorded. *)
CleanedUp ==
    \A o \in Orders : row[o].status \in TerminalStatuses /\ Recorded(o) # {}
        ~> Recorded(o) = {}

-----------------------------------------------------------------------------
(***************************************************************************)
(* A claim the repository makes that the code does not keep: it is the     *)
(* property of a run of its own, which ends in a counterexample.           *)
(***************************************************************************)

(* "cancel old, place new" and "no pyramiding": a strategy alone on the    *)
(* account never holds more than one order's quantity on a symbol.         *)
NoPyramiding ==
    \A sym \in Symbols, d \in Directions : pos[sym][d] <= 1
=============================================================================
