---------------------------- MODULE PaperLedger ----------------------------
(***************************************************************************)
(* The evaluation of version-1 signals (application/evaluate_signals.py,   *)
(* evaluation/engine.py) and the paper ledger that books them              *)
(* (paper/service.py).  The scans' save_signals adds signals; evaluate and *)
(* paper-simulate are commands, every repository method one transaction,   *)
(* and a simulation may end between two trades.                            *)
(*                                                                         *)
(* Time is counted in ticks; prices are left out: what a signal comes to   *)
(* is chosen once the bars that decide it can have closed.                 *)
(***************************************************************************)
EXTENDS Integers, Sequences, FiniteSets

CONSTANTS
    Symbols,      \* the symbols of a scan's signals
    MaxRuns,      \* bound: scans
    MaxCrashes,   \* bound: simulations that end between two trades
    MaxTime,      \* bound: ticks of the clock
    Day           \* 96 bars, the evaluation window and the pause, in ticks

VARIABLES
    clock,
    scans,        \* how many scans have saved their signals
    signals,      \* table signals
    evals,        \* table signal_evaluations
    trades,       \* table paper_trades in insertion order
    account,      \* the row of paper_accounts, the one the simulator holds
    simulating,   \* whether paper-simulate runs
    crashes

vars == <<clock, scans, signals, evals, trades, account, simulating, crashes>>

Results == {"LOSS", "WIN_TP2", "EXPIRED"}   \* EXPIRED stands for TP1_HIT too: decided by the last bar
Signal  == [run : 1..MaxRuns, sym : Symbols, at : 0..MaxTime]
Account == [mode : {"AGGRESSIVE", "NORMAL", "PAUSED"}, losses : Nat, until : 0..(MaxTime + Day)]

Init ==
    /\ clock = 0 /\ scans = 0 /\ signals = {} /\ evals = {} /\ trades = <<>>
    /\ account = [mode |-> "AGGRESSIVE", losses |-> 0, until |-> 0]
    /\ simulating = FALSE /\ crashes = 0

(* A scan saves its signals. *)
SaveSignals ==
    /\ scans < MaxRuns /\ ~simulating
    /\ scans' = scans + 1
    /\ \E syms \in SUBSET Symbols \ {{}} :
         signals' = signals \cup {[run |-> scans', sym |-> y, at |-> clock] : y \in syms}
    /\ UNCHANGED <<clock, evals, trades, account, simulating, crashes>>

(* SignalEvaluationEngine: a stop or the second target decides at its bar,   *)
(* the other results only once all 96 bars have closed.                 *)
Verdicts(x) ==
    (IF clock > x.at THEN {"LOSS", "WIN_TP2"} ELSE {}) \cup (IF clock >= x.at + Day THEN {"EXPIRED"} ELSE {})

Evaluated(x) == \E e \in evals : e.run = x.run /\ e.sym = x.sym

(* Closed bars do not change: a signal once decided is decided the same     *)
(* way again, and the last bar leaves none undecided.                       *)
EvaluateAll ==
    /\ ~simulating
    /\ \E decided \in SUBSET {x \in signals : ~Evaluated(x) /\ Verdicts(x) # {}} :
         /\ decided # {}
         /\ \E v \in [decided -> Results] :
              /\ \A x \in decided : v[x] \in Verdicts(x)
              /\ evals' = evals \cup {[run |-> x.run, sym |-> x.sym, result |-> v[x]] : x \in decided}
    /\ UNCHANGED <<clock, scans, signals, trades, account, simulating, crashes>>

Traded(e) == \E i \in DOMAIN trades : trades[i].run = e.run /\ trades[i].sym = e.sym
TimeOf(e) == (CHOOSE x \in signals : x.run = e.run /\ x.sym = e.sym).at
Pending == {e \in evals : ~Traded(e)}

(* load_or_create_paper_account: a pause the clock has passed is over. *)
StartSimulate ==
    /\ ~simulating
    /\ account' = IF account.mode = "PAUSED" /\ account.until <= clock
                  THEN [account EXCEPT !.mode = "NORMAL", !.until = 0] ELSE account
    /\ simulating' = TRUE
    /\ UNCHANGED <<clock, scans, signals, evals, trades, crashes>>

Skipped(e) == account.mode = "PAUSED" /\ TimeOf(e) < account.until

(* The account after a result booked on a signal of time t. *)
Booked(result, t) ==
    LET losses == account.losses + 1
        mode   == IF account.mode = "PAUSED" THEN "NORMAL" ELSE account.mode
    IN  IF result # "LOSS" THEN [mode |-> "AGGRESSIVE", losses |-> 0, until |-> 0]
        ELSE IF losses >= 3 THEN [mode |-> "PAUSED", losses |-> losses, until |-> t + Day]
        ELSE [mode |-> IF losses >= 2 THEN "NORMAL" ELSE mode, losses |-> losses, until |-> 0]

Trade(e, action) ==
    [run |-> e.run, sym |-> e.sym, result |-> e.result, action |-> action, at |-> TimeOf(e),
     risk |-> IF action = "SKIPPED_PAUSED" THEN 0 ELSE IF account.mode = "AGGRESSIVE" THEN 5 ELSE 3]

(* _apply and save_paper_trade: the oldest outcome; trade and account in    *)
(* one transaction.                                                         *)
SimulateOne ==
    /\ simulating
    /\ \E e \in Pending :
         /\ \A f \in Pending : TimeOf(e) <= TimeOf(f)
         /\ IF Skipped(e)
            THEN trades' = Append(trades, Trade(e, "SKIPPED_PAUSED")) /\ UNCHANGED account
            ELSE trades' = Append(trades, Trade(e, e.result)) /\ account' = Booked(e.result, TimeOf(e))
    /\ UNCHANGED <<clock, scans, signals, evals, simulating, crashes>>

EndSimulate ==
    /\ simulating /\ Pending = {} /\ simulating' = FALSE
    /\ UNCHANGED <<clock, scans, signals, evals, trades, account, crashes>>

Crash ==
    /\ simulating /\ crashes < MaxCrashes
    /\ crashes' = crashes + 1 /\ simulating' = FALSE
    /\ UNCHANGED <<clock, scans, signals, evals, trades, account>>

Tick ==
    /\ ~simulating /\ clock < MaxTime
    /\ clock' = clock + 1
    /\ UNCHANGED <<scans, signals, evals, trades, account, simulating, crashes>>

Next ==
    \/ SaveSignals \/ EvaluateAll
    \/ StartSimulate \/ SimulateOne \/ EndSimulate
    \/ Crash \/ Tick

Spec == Init /\ [][Next]_vars

(* The runner starts the simulator every quarter of an hour, among its other *)
(* tasks; one that runs goes on.                                             *)
Fairness == SF_vars(StartSimulate) /\ WF_vars(SimulateOne) /\ WF_vars(EndSimulate)

FairSpec == Spec /\ Fairness

----------------------------------------------------------------------------
TypeOK ==
    /\ clock \in 0..MaxTime /\ scans \in 0..MaxRuns /\ crashes \in 0..MaxCrashes
    /\ signals \subseteq Signal
    /\ evals \subseteq [run : 1..MaxRuns, sym : Symbols, result : Results]
    /\ account \in Account /\ simulating \in BOOLEAN

(* Lineage: an evaluation belongs to a signal, a trade to an                 *)
(* evaluation with the result it was booked with, and no signal is     *)
(* booked twice (paper_trades, signal_evaluations and their triggers).       *)
Lineage ==
    /\ \A e \in evals : \E x \in signals : x.run = e.run /\ x.sym = e.sym
    /\ \A i \in DOMAIN trades :
         /\ \E e \in evals : e.run = trades[i].run /\ e.sym = trades[i].sym /\ e.result = trades[i].result
         /\ \A j \in DOMAIN trades : i # j => <<trades[i].run, trades[i].sym>> # <<trades[j].run, trades[j].sym>>

(* How many losses in a row the trades booked among the first n end with. *)
Taken(i)  == trades[i].action # "SKIPPED_PAUSED"
Streak(n) == Cardinality({i \in 1..n : Taken(i) /\ \A j \in i..n : Taken(j) => trades[j].result = "LOSS"})

(* The ledger: the account's count of losses is the one its trades show, and *)
(* no trade risks the aggressive five per cent after two losses in a row,    *)
(* whatever pauses, resets and crashes lie between (paper/service.py _apply).*)
LedgerAgrees ==
    /\ account.losses = Streak(Len(trades))
    /\ \A i \in DOMAIN trades : Taken(i) => (trades[i].risk = 5) = (Streak(i - 1) < 2)

=============================================================================
