------------------------------ MODULE StockScan ------------------------------
(* The daily scan of us-stock-hunter (market_hunter/scanner.py) with the tables  *)
(* it keeps (market_hunter/database/db.py): which hits of a strategy become      *)
(* signals, which of them are sent to Telegram, and the later evaluation of the  *)
(* signals (market_hunter/evaluator.py).  Every helper commits on its own.       *)
EXTENDS Integers, FiniteSets, Sequences

CONSTANTS Symbols, Strategies,
          Scores,            \* total_score of a stock
          Top,               \* signals kept of a strategy: 5
          Jump,              \* rise of the score that is sent again: 10
          Cooldown,          \* days, for each strategy: 15, 10, 20
          MinAge,            \* days before a signal is evaluated: 5
          None,
          MaxDay, MaxScans, MaxFaults   \* bounds

ScanAssumption ==
  /\ IsFiniteSet(Symbols) /\ IsFiniteSet(Strategies)
  /\ Scores \subseteq Nat /\ Top \in Nat /\ Jump \in Nat /\ MinAge \in Nat
  /\ Cooldown \in [Strategies -> Nat] /\ MaxDay \in Nat /\ MaxScans \in Nat /\ MaxFaults \in Nat

Days     == 0..MaxDay
Statuses == {"focus", "watch"}     \* action_status: to be bought, or anything else
Hit      == [symbol : Symbols, strategy : Strategies, status : Statuses, score : Scores]
Push     == [symbol : Symbols, strategy : Strategies, day : Days, score : Scores]

VARIABLES day,
          signals,       \* keys of the table signals: symbol and day
          results,       \* strategy_results: symbol, strategy, day
          log,           \* signal_push_log
          evaluations,   \* keys of the signals in the table evaluations
          sent,          \* what Telegram delivered, in order
          pc, todo, picks,   \* a scan: its step, the hits to save or record, the picks
          scans, faults

tables == <<signals, results, log, evaluations>>
vars   == <<day, tables, sent, pc, todo, picks, scans, faults>>

Init == /\ day = 0 /\ signals = {} /\ results = {} /\ log = {} /\ evaluations = {}
        /\ sent = <<>> /\ pc = "idle" /\ todo = <<>> /\ picks = <<>>
        /\ scans = 0 /\ faults = 0

-----------------------------------------------------------------------------
(* A stock is looked at when its history, price check, dollar volume and market  *)
(* cap pass; a strategy it then triggers makes a hit.                            *)
Before(x, y) == \/ x.status = "focus" /\ y.status # "focus"
                \/ x.status = y.status /\ x.score > y.score

(* The Top hits of every strategy, one strategy after the other. *)
Best(hits) == {h \in hits : Cardinality({g \in hits : g.strategy = h.strategy /\ Before(g, h)}) < Top}

Lists(S) == {l \in [1..Cardinality(S) -> S] :
               \A i, j \in 1..Cardinality(S) :
                 i < j => l[i] # l[j] /\ (l[i].strategy = l[j].strategy => ~Before(l[j], l[i]))}

(* run_us_scan up to its first row: the universe is there.  One score a stock.   *)
StartScan(hits) ==
  /\ pc = "idle" /\ scans < MaxScans
  /\ \A g, h \in hits : g.symbol = h.symbol =>
       g.score = h.score /\ (g.strategy = h.strategy => g = h)
  /\ \E l \in Lists(Best(hits)) : todo' = l
  /\ pc' = "signal" /\ picks' = <<>> /\ scans' = scans + 1
  /\ UNCHANGED <<day, tables, sent, faults>>

(* The universe cannot be fetched: a failed run is noted and nothing is scanned. *)
NoUniverse ==
  /\ pc = "idle" /\ scans < MaxScans
  /\ scans' = scans + 1
  /\ UNCHANGED <<day, tables, sent, pc, todo, picks, faults>>

(* upsert_signal: INSERT OR IGNORE on the unique symbol and day. *)
SaveSignal ==
  /\ pc = "signal" /\ todo # <<>>
  /\ signals' = signals \cup {<<Head(todo).symbol, day>>}
  /\ pc' = "result"
  /\ UNCHANGED <<day, results, log, evaluations, sent, todo, picks, scans, faults>>

LastDay(h) == LET D == {d \in 0..(day - 1) : <<h.symbol, h.strategy, d>> \in results}
              IN  IF D = {} THEN None ELSE CHOOSE d \in D : \A e \in D : e <= d

InCooldown(h) == LastDay(h) # None /\ day - LastDay(h) < Cooldown[h.strategy]

RowsOf(h) == {p \in log : p.symbol = h.symbol /\ p.strategy = h.strategy /\ p.day = day}

ShouldPush(h) == \A p \in RowsOf(h) : h.score >= p.score + Jump

(* is_holding never holds anyone back: nothing writes its table paper_holdings.  *)
Eligible(h) == h.status = "focus" /\ ~InCooldown(h) /\ ShouldPush(h)

(* insert_strategy_result, INSERT OR IGNORE, then the choice for Telegram.       *)
SaveResult ==
  /\ pc = "result"
  /\ LET h == Head(todo) IN
       /\ results' = results \cup {<<h.symbol, h.strategy, day>>}
       /\ picks' = IF Eligible(h) THEN Append(picks, h) ELSE picks
  /\ todo' = Tail(todo) /\ pc' = "signal"
  /\ UNCHANGED <<day, signals, log, evaluations, sent, scans, faults>>

(* The best scores of all stocks are saved as signals too, with a hit or without. *)
SaveTop(S) ==
  /\ pc = "signal" /\ todo = <<>>
  /\ signals' = signals \cup (S \X {day})
  /\ pc' = "send"
  /\ UNCHANGED <<day, results, log, evaluations, sent, todo, picks, scans, faults>>

(* send_scan_report: its answer is not looked at.  Any message may be lost.      *)
PushThreshold(h) == [symbol |-> h.symbol, strategy |-> h.strategy, day |-> day, score |-> h.score + Jump]
PushOf(h) == [symbol |-> h.symbol, strategy |-> h.strategy, day |-> day, score |-> h.score]

SendReport(lost) ==
  /\ pc = "send"
  /\ LET kept == DOMAIN picks \ lost
         n == Cardinality(kept)
     IN \E f \in [1..n -> kept] :
          /\ \A i, j \in 1..n : i < j => f[i] < f[j]
          /\ sent' = sent \o [i \in 1..n |-> PushOf(picks[f[i]])]
  /\ IF lost = {} THEN faults' = faults ELSE faults < MaxFaults /\ faults' = faults + 1
  /\ todo' = picks /\ picks' = <<>> /\ pc' = "record"
  /\ UNCHANGED <<day, tables, scans>>

(* record_push replaces the row of its symbol, strategy and day. *)
RecordPush ==
  /\ pc = "record" /\ todo # <<>>
  /\ LET h == Head(todo) IN log' = (log \ RowsOf(h)) \cup {PushOf(h)}
  /\ todo' = Tail(todo)
  /\ UNCHANGED <<day, signals, results, evaluations, sent, pc, picks, scans, faults>>

EndScan ==
  /\ pc = "record" /\ todo = <<>>
  /\ pc' = "idle"
  /\ UNCHANGED <<day, tables, sent, todo, picks, scans, faults>>

-----------------------------------------------------------------------------
(* run_evaluation: one signal of at least MinAge days that has no evaluation,    *)
(* when its prices can be fetched.                                              *)
Unevaluated == {s \in signals : day - s[2] >= MinAge /\ s \notin evaluations}

Evaluate(s) ==
  /\ pc = "idle" /\ s \in Unevaluated
  /\ evaluations' = evaluations \cup {s}
  /\ UNCHANGED <<day, signals, results, log, sent, pc, todo, picks, scans, faults>>

-----------------------------------------------------------------------------
Crash ==
  /\ pc # "idle" /\ faults < MaxFaults
  /\ pc' = "idle" /\ todo' = <<>> /\ picks' = <<>> /\ faults' = faults + 1
  /\ UNCHANGED <<day, tables, sent, scans>>

NextDay ==
  /\ pc = "idle" /\ day < MaxDay
  /\ day' = day + 1
  /\ UNCHANGED <<tables, sent, pc, todo, picks, scans, faults>>

Step == SaveSignal \/ SaveResult \/ (\E S \in SUBSET Symbols : SaveTop(S))
        \/ (\E lost \in SUBSET DOMAIN picks : SendReport(lost))
        \/ RecordPush \/ EndScan

Next == (\E hits \in SUBSET Hit : StartScan(hits)) \/ NoUniverse \/ Step
        \/ (\E s \in signals : Evaluate(s)) \/ Crash \/ NextDay

Spec == Init /\ [][Next]_vars
FairSpec == Spec /\ WF_vars(Step) /\ WF_vars(NextDay)
            /\ \A s \in Symbols \X Days : WF_vars(Evaluate(s))
-----------------------------------------------------------------------------
TypeOK ==
  /\ day \in Days /\ signals \subseteq Symbols \X Days
  /\ results \subseteq Symbols \X Strategies \X Days /\ log \subseteq Push
  /\ evaluations \subseteq Symbols \X Days
  /\ sent \in Seq(Push) /\ pc \in {"idle", "signal", "result", "send", "record"}
  /\ todo \in Seq(Hit) /\ picks \in Seq(Hit)
  /\ scans \in 0..MaxScans /\ faults \in 0..MaxFaults

Same(p, q) == p.symbol = q.symbol /\ p.strategy = q.strategy

(* A stock is not sent again for a strategy on a later day before its cooldown   *)
(* is over, whatever the scans between saw and wherever one was broken off.      *)
CooldownKept ==
  \A i, j \in DOMAIN sent : Same(sent[i], sent[j]) /\ sent[i].day < sent[j].day =>
    sent[j].day - sent[i].day >= Cooldown[sent[j].strategy]

(* On one day it is sent again only when its score has risen by Jump; otherwise  *)
(* a scan was broken off between the message and its row in signal_push_log.     *)
Repeats == {j \in DOMAIN sent : \E i \in 1..(j - 1) :
              Same(sent[i], sent[j]) /\ sent[i].day = sent[j].day /\ sent[j].score < sent[i].score + Jump}
RepeatsAreFaults == faults = 0 => Repeats = {}

(* Every result and every message belongs to a saved signal: the signal is      *)
(* written first, also when the scan ends after it.                             *)
ResultsHaveSignals ==
  /\ \A r \in results : <<r[1], r[3]>> \in signals
  /\ \A i \in DOMAIN sent : <<sent[i].symbol, sent[i].strategy, sent[i].day>> \in results
=============================================================================
