-------------------------- MODULE PerformanceCenter --------------------------
(***************************************************************************)
(* The performance center (performance_center/): it imports the trades of  *)
(* the AI macro trader, the recommendations of the Gemini committee (both  *)
(* in module ResearchDesks) and the hotlist's opportunities (HotOutcome)   *)
(* into one table and judges what is still open by candles of its own.     *)
(*                                                                         *)
(* One contract and LONG trades with one set of levels stand for all; a    *)
(* SHORT mirrors them.  The last element of bars is the candle that is     *)
(* still forming.  The sources go on changing while the center works; the  *)
(* runner is the only one that runs the center.                            *)
(***************************************************************************)
EXTENDS Naturals, Sequences, FiniteSets

CONSTANTS Prices,     \* the prices the market visits
          Start,      \* the price before the first bar
          Stop, Target1, Target2,   \* the levels of every trade
          Timeout,    \* bars after which the center gives up (7 days)
          Limit,      \* bars one request returns (500, fewer than Timeout)
          Closings,   \* the statuses a closed source may have
          MaxBars,    \* a bound on time
          MaxMoves,   \* a bound on changes of the price
          MaxRows,    \* a bound on trades, of all sources
          MaxFaults   \* a bound on crashes and failed requests

VARIABLES bars,       \* [high, low] of each bar and its close, the last one forming
          moves,      \* changes of the price so far
          rows,       \* the sources' tables, in order of creation
          results,    \* strategy_results: one row for each imported source
          center,     \* the command in progress
          faults

vars == <<bars, moves, rows, results, center, faults>>

Kinds == {"macro", "other"}
Hits == {"TP1", "TP2", "SL"}
Statuses == {"OPEN"} \cup Closings
Ids == 1..Len(rows)
Forming == Len(bars)
NotImported == [result |-> "none", bar |-> 0, by |-> "none"]
Idle == [at |-> "idle", read |-> <<>>, todo |-> {}, judged |-> <<>>]

TypeOK ==
  /\ \A i \in 1..Len(bars) :
       /\ {bars[i].high, bars[i].low, bars[i].close} \subseteq Prices
       /\ bars[i].low <= bars[i].close /\ bars[i].close <= bars[i].high
  /\ Len(bars) \in 1..MaxBars /\ moves \in 0..MaxMoves
  /\ Len(rows) <= MaxRows
  /\ \A i \in Ids : /\ rows[i].kind \in Kinds /\ rows[i].status \in Statuses
                    /\ rows[i].opened \in 1..MaxBars
  /\ \A i \in 1..MaxRows :
       /\ results[i].result \in Statuses \cup Hits \cup {"TIMEOUT", "none"}
       /\ results[i].bar \in 0..MaxBars
       /\ i \notin Ids => results[i] = NotImported
  /\ center.at \in {"idle", "import", "judge", "write"}
  /\ faults \in 0..MaxFaults

-----------------------------------------------------------------------------
(* The market. *)

Bar(p) == [high |-> p, low |-> p, close |-> p]

Higher(x, y) == IF x >= y THEN x ELSE y
Lower(x, y) == IF x <= y THEN x ELSE y

\* The forming bar visits price p.
Move(p) ==
  /\ moves < MaxMoves /\ p # bars[Forming].close
  /\ bars' = [bars EXCEPT ![Forming] = [high |-> Higher(@.high, p),
                                        low |-> Lower(@.low, p), close |-> p]]
  /\ moves' = moves + 1
  /\ UNCHANGED <<rows, results, center, faults>>

\* The forming bar closes and the next one opens.
Tick ==
  /\ Forming < MaxBars
  /\ bars' = Append(bars, Bar(bars[Forming].close))
  /\ UNCHANGED <<moves, rows, results, center, faults>>

-----------------------------------------------------------------------------
(* The sources. *)

\* A desk opens a trade or the tracker an opportunity.
OpenSource(kind) ==
  /\ Len(rows) < MaxRows
  /\ rows' = Append(rows, [kind |-> kind, opened |-> Forming, status |-> "OPEN"])
  /\ UNCHANGED <<bars, moves, results, center, faults>>

\* The AI macro trader closes a trade, or its other command closes it again;
\* the committee and the tracker close nothing in the columns the center reads.
CloseSource(i, status) ==
  /\ rows[i].kind = "macro"
  /\ rows' = [rows EXCEPT ![i].status = status]
  /\ UNCHANGED <<bars, moves, results, center, faults>>

-----------------------------------------------------------------------------
(* The performance center. *)

\* The next row a command goes on with, in the order of creation.
Oldest == CHOOSE i \in center.todo : \A j \in center.todo : i <= j

\* normalize_result: STOP is no alias of SL and passes through; an opportunity
\* and a recommendation are open whatever became of them.
Imported(row) == [result |-> row.status, bar |-> 0, by |-> "source"]

\* A command begins: every source is read before anything is imported.
CenterBegin ==
  /\ center.at = "idle" /\ rows # <<>>
  /\ center' = [Idle EXCEPT !.at = "import", !.read = rows, !.todo = Ids]
  /\ UNCHANGED <<bars, moves, rows, results, faults>>

\* A source is imported once, as it was when it was read.
ImportOne ==
  /\ center.at = "import" /\ center.todo # {}
  /\ results' = IF results[Oldest].result # "none" THEN results
                ELSE [results EXCEPT ![Oldest] = Imported(center.read[Oldest])]
  /\ center' = [center EXCEPT !.todo = @ \ {Oldest}]
  /\ UNCHANGED <<bars, moves, rows, faults>>

\* A settle goes on with get_open; a summary or a leaderboard ends here.
ImportEnd ==
  /\ center.at = "import" /\ center.todo = {}
  /\ center' = [Idle EXCEPT !.at = "judge", !.todo = {i \in Ids : results[i].result = "OPEN"}]
  /\ UNCHANGED <<bars, moves, rows, results, faults>>

SummaryEnd ==
  /\ center.at = "import" /\ center.todo = {}
  /\ center' = Idle
  /\ UNCHANGED <<bars, moves, rows, results, faults>>

\* One candle against the levels, the stop first and the far target next.
CheckCandle(bar) ==
  IF bar.low <= Stop THEN "SL"
  ELSE IF bar.high >= Target2 THEN "TP2"
  ELSE IF bar.high >= Target1 THEN "TP1" ELSE "none"

\* The candles one request returns: from the first that opens after the trade,
\* the forming one among them.
Fetched(i) == (rows[i].opened + 1)..Lower(Forming, rows[i].opened + Limit)

Verdict(result, bar) == [result |-> result, bar |-> bar, by |-> "center"]

\* settle_one: too old is a timeout before any candle is asked for, then the
\* first candle that hits a level.  A failed request returns no candles.
SettleVerdict(i, candles) ==
  LET hit == {k \in candles : CheckCandle(bars[k]) # "none"}
      first == CHOOSE k \in hit : \A m \in hit : k <= m
  IN  IF Forming - rows[i].opened > Timeout THEN Verdict("TIMEOUT", Forming)
      ELSE IF hit = {} THEN Verdict("OPEN", 0)
      ELSE Verdict(CheckCandle(bars[first]), first)

JudgeOne(served) ==
  /\ center.at = "judge" /\ center.todo # {}
  /\ served \/ faults < MaxFaults
  /\ LET v == SettleVerdict(Oldest, IF served THEN Fetched(Oldest) ELSE {}) IN
       center' = [center EXCEPT !.todo = @ \ {Oldest},
                    !.judged = IF v.result = "OPEN" THEN @
                               ELSE Append(@, [id |-> Oldest, verdict |-> v])]
  /\ faults' = IF served THEN faults ELSE faults + 1
  /\ UNCHANGED <<bars, moves, rows, results>>

JudgeEnd ==
  /\ center.at = "judge" /\ center.todo = {}
  /\ center' = IF center.judged = <<>> THEN Idle ELSE [center EXCEPT !.at = "write"]
  /\ UNCHANGED <<bars, moves, rows, results, faults>>

\* One changed row is written, in a transaction of its own.
WriteOne ==
  /\ center.at = "write"
  /\ LET d == Head(center.judged) IN
       results' = [results EXCEPT ![d.id] = d.verdict]
  /\ center' = IF Len(center.judged) = 1 THEN Idle
               ELSE [center EXCEPT !.judged = Tail(@)]
  /\ UNCHANGED <<bars, moves, rows, faults>>

CenterCrash ==
  /\ center.at # "idle" /\ faults < MaxFaults
  /\ center' = Idle /\ faults' = faults + 1
  /\ UNCHANGED <<bars, moves, rows, results>>

-----------------------------------------------------------------------------
Init ==
  /\ bars = <<Bar(Start)>> /\ moves = 0
  /\ rows = <<>>
  /\ results = [i \in 1..MaxRows |-> NotImported]
  /\ center = Idle
  /\ faults = 0

Market == Tick \/ \E p \in Prices : Move(p)

Sources ==
  \/ \E kind \in Kinds : OpenSource(kind)
  \/ \E i \in Ids, status \in Closings : CloseSource(i, status)

CenterStep == ImportOne \/ JudgeOne(TRUE) \/ JudgeEnd \/ WriteOne

Center ==
  \/ CenterBegin \/ ImportEnd \/ SummaryEnd
  \/ CenterStep \/ JudgeOne(FALSE) \/ CenterCrash

Next == Market \/ Sources \/ Center

\* The bars go on, and among the runner's commands of the center its settle
\* task comes round again and finishes.
Fairness ==
  WF_vars(Tick) /\ WF_vars(CenterBegin) /\ WF_vars(CenterStep) /\ SF_vars(ImportEnd)

Spec == Init /\ [][Next]_vars /\ Fairness

-----------------------------------------------------------------------------
(* Properties. *)

\* What the center books from candles is what the first candle after the
\* opening that touched any level did: although candles keep forming while it
\* judges, although requests fail and processes die (settle_one).
FirstTouchCounts ==
  \A i \in Ids : (results[i].by = "center" /\ results[i].result \in Hits) =>
    LET b == results[i].bar IN
    /\ b > rows[i].opened
    /\ \A k \in (rows[i].opened + 1)..(b - 1) : bars[k].low > Stop /\ bars[k].high < Target1
    /\ results[i].result = "SL" => bars[b].low <= Stop
    /\ results[i].result = "TP1" => bars[b].high >= Target1
    /\ results[i].result = "TP2" => bars[b].high >= Target2

\* A booked result never changes again, neither by a later synchronisation with
\* its source, whose status goes on changing, nor by a later settlement.
ResultIsFinal ==
  [][\A i \in 1..MaxRows : results[i].result \notin {"none", "OPEN"} =>
       results'[i] = results[i]]_vars

\* An imported trade that is not decided although its time will be up; the bound on time
\* lets that happen for trades that are opened early enough.
Due == \E i \in Ids : results[i].result = "OPEN" /\ rows[i].opened + Timeout < MaxBars
=============================================================================
