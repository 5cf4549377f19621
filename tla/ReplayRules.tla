----------------------------- MODULE ReplayRules -----------------------------
(* The judgement of past signals (evaluation/engine.py), the times a replay looks at   *)
(* (infrastructure/sqlite_repository.py), its metrics (backtest/engine.py), and the     *)
(* walk-forward validation that picks a strategy on training points and tests it on    *)
(* later ones (walk_forward/engine.py).  Time goes in 15-minute bars; a bar is the set  *)
(* of the signal's prices it touches.                                               *)
EXTENDS Integers, Sequences, SequencesExt, FiniteSetsExt

CONSTANTS Windows,      \* evaluation windows of the strategies, in bars
          Policy,       \* [train, validation, test, step, embargo : points]
          Span,        \* bars of the tape
          Gaps,         \* sets of bars the coin may lack
          Leads,        \* sets of bars the leading coins both have
          Early, Quiet, \* bars whose content varies, before the test, and what they may touch
          Touched,      \* what a bar may touch
          Later,        \* what the bars past the training outcomes may touch
          None

ReplayAssumption == /\ Windows \subseteq Nat \ {0} /\ Windows # {} /\ IsFiniteSet(Span)
                    /\ Policy.step > 0 /\ \A w \in Windows : Policy.embargo >= w

VARIABLE case

-----------------------------------------------------------------------------
(* A signal judged by bars, in order: active from the first that touches the entry,    *)
(* lost by a bar that touches the stop, won at the second target; the first target    *)
(* counts when the window is over.  None while the window is neither.               *)
ActiveFrom(bars) == {i \in DOMAIN bars : \E j \in 1..i : "entry" \in bars[j]}
Decisive(bars) == {i \in ActiveFrom(bars) : bars[i] \cap {"stop", "tp2"} # {}}
EvaluateAtFirstTarget(bars, window) ==
  LET b == SubSeq(bars, 1, Min({window, Len(bars)})) IN
  CASE Decisive(b) # {} -> IF "stop" \in b[Min(Decisive(b))] THEN "LOSS" ELSE "WIN_TP2"
    [] Decisive(b) = {} /\ \E i \in ActiveFrom(b) : "tp1" \in b[i] -> "TP1_HIT"
    [] Decisive(b) = {} /\ (\A i \in ActiveFrom(b) : "tp1" \notin b[i]) /\ Len(b) = window -> "EXPIRED"
    [] OTHER -> "PENDING"
Evaluate(bars, window) ==
  LET b == SubSeq(bars, 1, Min({window, Len(bars)})) IN
  CASE Decisive(b) # {} -> IF "stop" \in b[Min(Decisive(b))] THEN "LOSS" ELSE "WIN_TP2"
    [] Decisive(b) = {} /\ Len(b) < window -> "PENDING"
    [] OTHER -> IF \E i \in ActiveFrom(b) : "tp1" \in b[i] THEN "TP1_HIT" ELSE "EXPIRED"
RealizedR(result) ==      \* the planned rewards are 1 and 2
  CASE result = "LOSS" -> -1 [] result = "WIN_TP2" -> 2 [] result = "TP1_HIT" -> 1 [] OTHER -> 0

-----------------------------------------------------------------------------
(* The points of a replay: times at which both leading coins have a bar, with enough   *)
(* of them to come.  The coins lack the same bars here.                              *)
Sorted(S) == [i \in 1..Cardinality(S) |-> CHOOSE t \in S : Cardinality({u \in S : u < t}) = i - 1]
LoadEvaluationTimes(lead, window) ==
  {t \in lead : Cardinality({u \in lead : u > t}) >= window}
(* The coin's own bars after a point, as many as the window. *)
LoadKlinesAfter(tape, t, limit) ==
  LET later == Sorted({u \in DOMAIN tape : u > t}) IN
  [i \in 1..Min({limit, Len(later)}) |-> tape[later[i]]]

(* The replay of a strategy over some points: the judged signals in the order of       *)
(* their points, pending ones left out; its expectancy and losses decide its rank.    *)
Verdicts(tape, points, window) == [t \in points |-> Evaluate(LoadKlinesAfter(tape, t, window), window)]
RunBacktest(tape, points, window) ==
  LET at == Verdicts(tape, points, window)
      judged == Sorted({t \in points : at[t] # "PENDING"})
  IN  [i \in DOMAIN judged |-> RealizedR(at[judged[i]])]
Total(rs) == FoldSeq(LAMBDA x, y : x + y, 0, rs)
Gains(rs)  == Total(SelectSeq(rs, LAMBDA x : x > 0))
Losses(rs) == -Total(SelectSeq(rs, LAMBDA x : x < 0))
MaxDrawdown(rs) ==
  LET equity(i) == Total(SubSeq(rs, 1, i)) IN
  Max({equity(p[1]) - equity(p[2]) : p \in {q \in (0..Len(rs)) \X (0..Len(rs)) : q[1] <= q[2]}})
ProfitFactor(rs) ==      \* a fraction; without a loss it is above all others
  CASE rs = <<>> -> <<0, 1>> [] rs # <<>> /\ Losses(rs) = 0 -> <<1, 0>> [] OTHER -> <<Gains(rs), Losses(rs)>>
Expectancy(rs) == IF rs = <<>> THEN <<0, 1>> ELSE <<Total(rs), Len(rs)>>
Above(a, b) == a[1] * b[2] > b[1] * a[2]

(* Rolling windows over the points: training, validation and test, each apart from     *)
(* the one before by the embargo.                                                   *)
Slice(points, first, size) == {points[i] : i \in first..(first + size - 1)}
WindowSize == Policy.train + Policy.validation + Policy.test + 2 * Policy.embargo
Starts(points) == {i \in 1..(Len(points) - WindowSize + 1) : (i - 1) % Policy.step = 0}
WindowAt(points, i) ==
  LET validation == i + Policy.train + Policy.embargo
      test == validation + Policy.validation + Policy.embargo
  IN  [training |-> Slice(points, i, Policy.train),
       validation |-> Slice(points, validation, Policy.validation),
       test |-> Slice(points, test, Policy.test)]
BuildWindows(points) == {WindowAt(points, i) : i \in Starts(points)}

(* The strategy with the best expectancy, then profit factor, then drawdown, then id.  *)
TrainingBefore(runs, v, w) ==
  LET a == runs[v]  b == runs[w]  ea == Expectancy(a)  eb == Expectancy(b)
      fa == ProfitFactor(a)  fb == ProfitFactor(b)
  IN  \/ Above(ea, eb)
      \/ ~Above(eb, ea) /\ Above(fa, fb)
      \/ /\ ~Above(eb, ea) /\ ~Above(fb, fa)
         /\ MaxDrawdown(a) < MaxDrawdown(b) \/ (MaxDrawdown(a) = MaxDrawdown(b) /\ v < w)
Selected(tape, window) ==
  LET runs == [w \in Windows |-> RunBacktest(tape, window.training, w)]
  IN  CHOOSE w \in Windows : \A v \in Windows \ {w} : TrainingBefore(runs, w, v)

-----------------------------------------------------------------------------
LookSignal == case = None /\ case' \in [kind : {"signal"}, bars : UNION {[1..n -> Touched] : n \in 1..4}, window : 1..4]
LookWalk   == case = None /\ case' \in [kind : {"walk"}, lead : Leads, gap : Gaps, early : [Early -> Quiet], late : Later]
Init == case = None
Next == LookSignal \/ LookWalk
Spec == Init /\ [][Next]_case
Is(kind) == case # None /\ case.kind = kind

(* A verdict stands: more bars never change one that was given, whatever they touch.     *)
VerdictStands ==
  Is("signal") =>
    LET v(n) == Evaluate(SubSeq(case.bars, 1, n), case.window) IN
    \A n \in DOMAIN case.bars : v(n) # "PENDING" => v(n) = v(Len(case.bars))

(* README.md:383: training outcomes cannot consume candles of the validation period,     *)
(* nor validation outcomes candles of the test.  So what comes after the first          *)
(* validation point has no say in the choice of the strategy, and what comes after the   *)
(* first test point none in the validation, as long as the coin has every bar that the  *)
(* leading coins have.                                                              *)
Tape(c, late, from) == [t \in Span \ c.gap |-> IF t >= from THEN late ELSE IF t \in Early THEN c.early[t] ELSE {}]
Outcome(c, window, late) ==
  LET w == Selected(Tape(c, c.late, Min(window.validation) + 1), window) IN
  [selected |-> Selected(Tape(c, late, Min(window.validation) + 1), window),
   validated |-> RunBacktest(Tape(c, late, Min(window.test) + 1), window.validation, w)]
SelectionBlind(c) ==
  LET points == LoadEvaluationTimes(c.lead, Max(Windows)) IN
  \A window \in BuildWindows(Sorted(points)) : \A late \in Later :
    Outcome(c, window, late) = Outcome(c, window, c.late)
NothingLeaks == Is("walk") /\ case.lead \cap case.gap = {} => SelectionBlind(case)
=============================================================================
