------------------------------ MODULE MCStocks ------------------------------
(* The two halves of us-stock-hunter, one behaviour for each part: the scan and  *)
(* the paper fund share no table, so a behaviour is that of one of them while   *)
(* the other rests.                                                            *)
(* The fund's prices lie at the stop, at the limit of the trigger and at a's     *)
(* target, so that every rule applies; its scan lists the better symbol last    *)
(* but for a signal with too little volume for the buy filter.  Two stocks are  *)
(* scanned by one strategy, with scores one jump apart.                        *)
EXTENDS PaperFund

CONSTANTS a, b,
          Strategies, Scores, Top, Jump, Cooldown, MinAge, MaxDay, MaxScans, MaxFaults  \* of the scan
VARIABLES part, day, signals, results, log, evaluations, sent, step, rows, picks, scans, faults

Plan(s) == [symbol |-> s, trigger |-> 50, stop |-> 40, target |-> IF s = a THEN 51 ELSE 60]
MCPlans == {Plan(s) : s \in Symbols}
Sig(s, score, vol) == [plan |-> Plan(s), status |-> "focus", score |-> score, rr |-> 25,
                       risk |-> 50, vol |-> vol]
MCScans == {<<Sig(b, 86, 15), Sig(a, 91, 15), Sig(b, 92, 11)>>}

MCCooldown == [trend |-> 2]

Scan == INSTANCE StockScan WITH pc <- step, todo <- rows
ASSUME ScanConstants == Scan!ScanAssumption

scanVars == <<day, signals, results, log, evaluations, sent, step, rows, picks, scans, faults>>

MCInit == Init /\ Scan!Init /\ part \in {"fund", "scan"}
MCNext == /\ part' = part
          /\ \/ part = "fund" /\ Next /\ UNCHANGED scanVars
             \/ part = "scan" /\ Scan!Next /\ UNCHANGED vars
MCSpec ==
  /\ MCInit /\ [][MCNext]_<<part, vars, scanVars>>
  /\ WF_vars(part = "fund" /\ InitFund) /\ WF_vars(part = "fund" /\ Step)
  /\ WF_vars(part = "fund" /\ StartRun(None)) /\ SF_vars(part = "fund" /\ NextDay)
  /\ \A p \in Rows : SF_vars(part = "fund" /\ EvaluatePosition(p))
  /\ WF_scanVars(part = "scan" /\ Scan!Step) /\ WF_scanVars(part = "scan" /\ Scan!NextDay)
  /\ \A s \in Symbols \X (0..2) : WF_scanVars(part = "scan" /\ Scan!Evaluate(s))

\* The tables hold what their columns admit, and each process is at a known step.
StocksTypeOK == TypeOK /\ Scan!TypeOK

\* However runs are repeated or broken off between two commits: slots, orders, shares and cash
\* of the fund stay consistent, and a scan's messages keep their cooldown, repeat only after a
\* fault, and never lack the rows they rest on (fund.py, scanner.py).
BooksAgree ==
  /\ SlotsKept /\ OnePositionPerOrder /\ NoShareSoldTwice /\ CashMatchesTrades /\ CashCovers
  /\ Scan!CooldownKept /\ Scan!RepeatsAreFaults /\ Scan!ResultsHaveSignals

\* Every queued order is filled or cancelled, every share bought is sold, every signal is
\* evaluated: nothing waits for ever for a price, a day or a run.  A row is used once and the
\* tables are bounded, so once they are full none of their rows is waiting.
Waiting == \/ Pending # {} \/ \E p \in Rows : positions[p].shares > 0
           \/ Scan!Unevaluated # {}
NothingWaits == Waiting ~> ~Waiting
=============================================================================
