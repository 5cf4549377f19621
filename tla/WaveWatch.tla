------------------------------ MODULE WaveWatch ------------------------------
(* The observation list of the two-stage strategies (v3/strategies: wave_long,   *)
(* wave_short, rsd_long, rsd_short over wave_watchlist_repo): a call looks first  *)
(* at the breakouts under observation, then for new ones.  The verdicts on bars  *)
(* are those of WaveRules; here they are free as far as the bars allow them.     *)
(* Time counts 15-minute bars, an H1 bar closes every Quarter of them.           *)
EXTENDS Integers, FiniteSets, Sequences

CONSTANTS Strategies, Symbols,
          Reach,     \* H1 bars a new breakout may lie back: wave 1, rsd 12 and 8
          Skip,      \* bars dropped at the end as if still open: wave 0, rsd 1
          Settle,    \* M15 bars an entry needs after the breakout: wave 2, rsd 8
          Hold,      \* length of an observation: wave 8 hours, rsd 6
          Quarter, Keep,            \* 4 bars; rows are kept 7 days
          MaxTime, MaxRows, MaxFaults,  \* bounds
          MaxLag     \* bound: quarters of an hour a call lasts

WatchAssumption ==
  /\ Reach \in [Strategies -> Nat \ {0}] /\ Skip \in [Strategies -> {0, 1}]
  /\ Settle \in [Strategies -> Nat \ {0}] /\ Hold \in [Strategies -> Nat]
  /\ Quarter \in Nat \ {0} /\ Keep \in Nat
  /\ MaxTime \in Nat /\ MaxRows \in Nat /\ MaxFaults \in Nat /\ MaxLag \in Nat

VARIABLES time,
          broken,      \* breakouts: strategy, symbol, time of the closing H1 bar
          rows,        \* wave_watchlist, by watch_id, in order of creation
          call,        \* generate_candidates under way: strategy, now, step, work left
          emitted,     \* candidates handed to the pipeline: row and time
          faults

vars == <<time, broken, rows, call, emitted, faults>>

Times    == 0..MaxTime
Statuses == {"WATCHING", "ENTERED", "EXPIRED", "INVALIDATED", "DELETED"}
Row      == [strategy : Strategies, symbol : Symbols, at : Times, status : Statuses, created : Times]
Idle     == [step |-> "idle"]
Ids      == DOMAIN rows

Init == /\ time = 0 /\ broken = {} /\ rows = <<>> /\ call = Idle
        /\ emitted = {} /\ faults = 0

Fault == faults < MaxFaults /\ faults' = faults + 1
-----------------------------------------------------------------------------
(* The market: at the end of an hour any symbol may have broken out. *)
Tick ==
  /\ time < MaxTime /\ time' = time + 1
  /\ call.step # "idle" => time < call.now + MaxLag
  /\ IF (time + 1) % Quarter = 0
     THEN \E B \in SUBSET (Strategies \X Symbols) :
            broken' = broken \cup {<<b[1], b[2], time + 1>> : b \in B}
     ELSE broken' = broken
  /\ UNCHANGED <<rows, call, emitted, faults>>

(* Definitions no action uses are mistakes the code could have made: they show    *)
(* that the properties notice them.                                             *)

(* The closing times of the H1 bars a strategy sees, newest first. *)
LastBar(s) == (time \div Quarter - Skip[s]) * Quarter

Active(s, table) == {i \in DOMAIN table : table[i].strategy = s /\ table[i].status = "WATCHING"}
Ends(row) == row.at + Hold[row.strategy]

(* expire_old ends the observations of every strategy, then deletes the old rows. *)
Ended(row) == IF row.status = "WATCHING" /\ Ends(row) < time
              THEN [row EXCEPT !.status = "EXPIRED"] ELSE row
Purged(row) == IF row.status # "WATCHING" /\ row.created < time - Keep
               THEN [row EXCEPT !.status = "DELETED"] ELSE row
Expire(row) == Purged(Ended(row))

StartCall(s) ==
  /\ call.step = "idle"
  /\ rows' = [i \in Ids |-> Expire(rows[i])]
  /\ call' = [step |-> "watch", strategy |-> s, now |-> time,
              left |-> Active(s, rows'), got |-> {}]
  /\ UNCHANGED <<time, broken, emitted, faults>>

(* One row under observation, the oldest breakout first. *)
NextRow(i) == /\ call.step = "watch" /\ i \in call.left
              /\ \A j \in call.left : rows[i].at <= rows[j].at
Looked(i)  == [call EXCEPT !.left = @ \ {i}]
SetStatus(i, status) == rows' = [rows EXCEPT ![i].status = status]

(* An H1 bar after the breakout has fallen back. *)
Invalidate(i) ==
  /\ NextRow(i) /\ LastBar(call.strategy) > rows[i].at
  /\ SetStatus(i, "INVALIDATED") /\ call' = Looked(i)
  /\ UNCHANGED <<time, broken, emitted, faults>>

EnoughBars(i) == time - rows[i].at - Skip[call.strategy] >= Settle[call.strategy]

(* The entry, or for rsd a cancellation because the price has run away. *)
Enter(i) ==
  /\ NextRow(i) /\ EnoughBars(i)
  /\ SetStatus(i, "ENTERED") /\ call' = [Looked(i) EXCEPT !.got = @ \cup {i}]
  /\ UNCHANGED <<time, broken, emitted, faults>>

CancelEntry(i) ==
  /\ NextRow(i) /\ EnoughBars(i) /\ Skip[call.strategy] = 1
  /\ SetStatus(i, "INVALIDATED") /\ call' = Looked(i)
  /\ UNCHANGED <<time, broken, emitted, faults>>

(* No verdict yet, or the bars could not be fetched. *)
KeepWatching(i) ==
  /\ NextRow(i) /\ call' = Looked(i)
  /\ UNCHANGED <<time, broken, rows, emitted, faults>>

(* Then the symbols that are not under observation.  When the tickers cannot be  *)
(* fetched nothing new is looked for.                                           *)
StartSearch ==
  /\ call.step = "watch" /\ call.left = {}
  /\ call' = [call EXCEPT !.step = "scan",
                !.left = Symbols \ {rows[i].symbol : i \in Active(call.strategy, rows)}]
  /\ UNCHANGED <<time, broken, rows, emitted, faults>>
NoTickers ==
  /\ call.step = "watch" /\ call.left = {}
  /\ call' = [call EXCEPT !.step = "scan"]
  /\ UNCHANGED <<time, broken, rows, emitted, faults>>

(* The latest breakout within reach is added, also one that was entered or       *)
(* invalidated before; its observation ends Hold after the breakout.            *)
Seen(s, sym) == {t \in Times : /\ <<s, sym, t>> \in broken /\ t <= LastBar(s)
                               /\ t > LastBar(s) - Reach[s] * Quarter}
AddWatch(sym) ==
  /\ call.step = "scan" /\ sym \in call.left /\ Len(rows) < MaxRows
  /\ Seen(call.strategy, sym) # {}
  /\ \E t \in Seen(call.strategy, sym) :
       /\ \A u \in Seen(call.strategy, sym) : u <= t
       /\ rows' = Append(rows, [strategy |-> call.strategy, symbol |-> sym, at |-> t,
                                status |-> "WATCHING", created |-> time])
  /\ call' = [call EXCEPT !.left = @ \ {sym}]
  /\ UNCHANGED <<time, broken, emitted, faults>>

(* The daily or the 4-hour trend is against it, or its bars are missing. *)
PassOver(sym) ==
  /\ call.step = "scan" /\ sym \in call.left
  /\ call' = [call EXCEPT !.left = @ \ {sym}]
  /\ UNCHANGED <<time, broken, rows, emitted, faults>>

Return ==
  /\ call.step = "scan" /\ call.left = {}
  /\ emitted' = emitted \cup {[row |-> i, start |-> call.now, time |-> time] : i \in call.got}
  /\ call' = Idle
  /\ UNCHANGED <<time, broken, rows, faults>>

(* The process ends: candidates already marked as entered are lost. *)
Crash ==
  /\ call.step # "idle" /\ Fault
  /\ call' = Idle /\ UNCHANGED <<time, broken, rows, emitted>>

CallStep == (\E i \in Ids : Invalidate(i) \/ Enter(i) \/ CancelEntry(i) \/ KeepWatching(i))
            \/ StartSearch \/ NoTickers
            \/ (\E sym \in Symbols : AddWatch(sym) \/ PassOver(sym)) \/ Return
Next == Tick \/ (\E s \in Strategies : StartCall(s)) \/ CallStep \/ Crash

Spec == Init /\ [][Next]_vars
FairSpec == Spec /\ WF_vars(Tick) /\ WF_vars(CallStep)
            /\ \A s \in Strategies : SF_vars(StartCall(s))
-----------------------------------------------------------------------------
TypeOK ==
  /\ time \in Times /\ broken \subseteq Strategies \X Symbols \X Times
  /\ rows \in Seq(Row) /\ Len(rows) <= MaxRows /\ faults \in 0..MaxFaults
  /\ emitted \subseteq [row : Nat, start : Times, time : Times]
  /\ \/ call = Idle
     \/ /\ call.step \in {"watch", "scan"} /\ call.strategy \in Strategies
        /\ call.now \in Times /\ call.got \subseteq Ids
        /\ call.left \subseteq IF call.step = "watch" THEN Ids ELSE Symbols

(* A strategy observes a symbol at most once, though nothing in the table says    *)
(* so and the set of observed symbols is read once for the whole search.        *)
OneWatching ==
  \A i, j \in Ids : /\ rows[i].status = "WATCHING" /\ rows[j].status = "WATCHING"
                    /\ rows[i].strategy = rows[j].strategy /\ rows[i].symbol = rows[j].symbol
                    => i = j

(* A candidate comes of an observation that had not ended when its call began,   *)
(* also when the row was added long after its breakout, and from each row once.  *)
EntryInTime ==
  /\ \A e \in emitted : /\ e.start <= Ends(rows[e.row])
                        /\ rows[e.row].at + Settle[rows[e.row].strategy] <= e.time
  /\ \A e, f \in emitted : e.row = f.row => e = f

(* Only the last H1 bar makes a wave breakout, so one that has fallen back is not *)
(* observed again; one that was entered may be, until the next bar closes.      *)
FailedStaysOut ==
  \A i, j \in Ids : /\ i < j /\ Reach[rows[i].strategy] = 1 /\ Skip[rows[i].strategy] = 0
                    /\ rows[i].strategy = rows[j].strategy /\ rows[i].symbol = rows[j].symbol
                    /\ rows[i].at = rows[j].at
                    => /\ rows[i].status \in {"ENTERED", "EXPIRED", "DELETED"}
                       /\ rows[j].created < rows[i].at + Quarter

(* A row marked as entered reaches the pipeline, unless the process ended first. *)
EnteredIsEmitted ==
  \A i \in Ids : rows[i].status = "ENTERED" =>
    \/ \E e \in emitted : e.row = i
    \/ call.step # "idle" /\ i \in call.got
    \/ faults > 0

(* An observation whose time is over and which is still under way. *)
Overdue == \E i \in Ids : Ends(rows[i]) < MaxTime /\ rows[i].status = "WATCHING"
=============================================================================
