------------------------------ MODULE Leaderboard ------------------------------
(* The leaderboard watch: the runner's task leaderboard_update keeps the pool of coins  *)
(* seen among the first, leaderboard_gemini puts the pool before a language model, and  *)
(* the command settle closes what was recommended.                                     *)
EXTENDS Integers, FiniteSetsExt

CONSTANTS
    Symbols,
    Watch,        \* hours a coin stays in the pool unseen: 24
    Cadence,      \* hours between two runs of leaderboard_gemini: 4
    Cooldown,     \* hours between two reviews: 4
    Timeout,      \* hours a recommendation stays open: 48
    MaxCands,     \* candidates of a review: 3
    None

VARIABLES
    items,        \* leaderboard_watch_items: hours since last seen, whether the move suffices
    reviews,      \* leaderboard_watch_reviews in status OPEN that are or name a trade
    last,         \* whole hours since the newest review was saved, or None
    review,       \* candidates of the review in progress, or None
    due           \* hours until leaderboard_gemini runs
vars == <<items, reviews, last, review, due>>

Longest == Timeout + 1            \* bound: ages are counted up to here
Answers == [trade : BOOLEAN, should : BOOLEAN, sym : Symbols \cup {None}]
-----------------------------------------------------------------------------

(* upsert_item. *)
Upserted(s, moves) ==
    LET old == items[s] IN
    [status |-> IF old = None THEN "NEW"
                ELSE IF old.status \in {"OPEN", "CLOSED"} THEN old.status ELSE "ACTIVE",
     seen |-> 0, moves |-> moves]

Lapsed(i) == IF i.status \in {"NEW", "ACTIVE"} /\ i.seen > Watch THEN [i EXCEPT !.status = "EXPIRED"] ELSE i

(* update: an answer that fails ranks nobody. *)
Update(ranked, moving) ==
    /\ items' = [s \in Symbols |->
                   IF s \in ranked THEN Upserted(s, s \in moving)
                   ELSE IF items[s] = None THEN None ELSE Lapsed(items[s])]
    /\ UNCHANGED <<reviews, last, review, due>>

(* items_for_gemini. *)
ItemsForGemini == {s \in Symbols : items[s] # None /\ items[s].moves /\ items[s].status \in {"NEW", "ACTIVE"}}

(* The mistake of asking for an open review of today. *)
HasOpenReviewNew == \E r \in reviews : r.trade /\ r.age <= Cooldown
HasOpenReview == \E r \in reviews : r.trade

(* The last review was saved after the run that asked for it began, so a whole number  *)
(* of hours later a little of the last hour is missing.                             *)
CoolingDown == last # None /\ last <= Cooldown

MayReview == ~HasOpenReview /\ ~CoolingDown /\ ItemsForGemini # {}

Ask == /\ MayReview
       /\ \E C \in kSubset(Min({MaxCands, Cardinality(ItemsForGemini)}), ItemsForGemini) : review' = C
       /\ UNCHANGED last

(* The runner's task. *)
RunGemini ==
    /\ review = None /\ due = 0 /\ due' = Cadence
    /\ Ask \/ (~MayReview /\ UNCHANGED <<last, review>>)
    /\ UNCHANGED <<items, reviews>>

(* The command gemini-review, at any time. *)
CommandGemini == review = None /\ Ask /\ UNCHANGED <<items, reviews, due>>

(* save_review: the answer is taken as it comes; no answer is NO_TRADE.  The coin need *)
(* not be a candidate, and a refusal may still say should_trade.                     *)
SaveReview ==
    /\ review # None /\ review' = None /\ last' = 0
    /\ \E a \in Answers :
         /\ reviews' = IF a.trade \/ (a.should /\ a.sym # None)
                       THEN reviews \cup {[trade |-> a.trade, should |-> a.should, sym |-> a.sym, age |-> 0]} ELSE reviews
         /\ items' = [s \in Symbols |-> IF a.should /\ s = a.sym /\ items[s] # None
                                        THEN [items[s] EXCEPT !.status = "OPEN"] ELSE items[s]]
    /\ UNCHANGED due

TimedOut == {r \in reviews : r.trade /\ r.age > Timeout}

Closes(s) == \E r \in TimedOut : r.sym = s

(* The mistake of writing the outcome of the review to the coin. *)
ClosedWithOutcome(i) == [i EXCEPT !.status = "TIMEOUT"]
Closed(i) == [i EXCEPT !.status = "CLOSED"]

(* settle: only a time-out ends a recommendation, whatever the price did. *)
Settle ==
    /\ TimedOut # {} /\ reviews' = reviews \ TimedOut
    /\ items' = [s \in Symbols |-> IF items[s] # None /\ Closes(s)
                                   THEN Closed(items[s]) ELSE items[s]]
    /\ UNCHANGED <<last, review, due>>

Older(n) == IF n = None THEN None ELSE Min({n + 1, Longest})
Tick ==
    /\ due > 0 /\ due' = due - 1 /\ last' = Older(last)
    /\ items' = [s \in Symbols |-> IF items[s] = None THEN None ELSE [items[s] EXCEPT !.seen = Min({@ + 1, Watch + 1})]]
    /\ reviews' = {[r EXCEPT !.age = Older(@)] : r \in reviews}
    /\ UNCHANGED review

Init == items = [s \in Symbols |-> None] /\ reviews = {} /\ last = None /\ review = None /\ due = Cadence
Next == \/ \E ranked \in SUBSET Symbols : \E moving \in SUBSET ranked : Update(ranked, moving)
        \/ RunGemini \/ CommandGemini \/ SaveReview \/ Settle \/ Tick
Spec == Init /\ [][Next]_vars

(* The runner runs its tasks and a review ends; settle is nobody's task. *)
FairSpec == Spec /\ WF_vars(RunGemini) /\ WF_vars(SaveReview) /\ WF_vars(Tick)
-----------------------------------------------------------------------------
TypeOK ==
    /\ items \in [Symbols -> [status : {"NEW", "ACTIVE", "OPEN", "CLOSED", "EXPIRED"}, seen : 0..(Watch + 1), moves : BOOLEAN] \cup {None}]
    /\ reviews \subseteq [trade : BOOLEAN, should : BOOLEAN, sym : Symbols \cup {None}, age : 0..Longest]
    /\ last \in 0..Longest \cup {None} /\ review \in (SUBSET Symbols) \cup {None} /\ due \in 0..Cadence

(* However reviews, commands and time follow one another, one recommendation is open *)
(* at most, and none while the model is asked for the next.                       *)
OneOpenTrade ==
    /\ Cardinality({r \in reviews : r.trade}) <= 1
    /\ review # None => \A r \in reviews : ~r.trade

(* A coin kept out of the pool as OPEN is named by a review that is open still; when *)
(* that is a refusal that said should_trade nothing will ever close it.             *)
OpenHasReview ==
    \A s \in Symbols : items[s] # None /\ items[s].status = "OPEN"
                       => \E r \in reviews : r.should /\ r.sym = s

(* A coin that was recommended once is not put before the model again, however often *)
(* it leads a list later and however long ago it was closed.                        *)
ShutOut(s) == items[s] # None /\ items[s].status \in {"OPEN", "CLOSED"}
NeverAgain == [][\A s \in Symbols : ShutOut(s) => ShutOut(s)' /\ (review' = None \/ s \notin review')]_vars

(* There are candidates and no recommendation stands open, but no review is made. *)
Idling == /\ review = None /\ ~HasOpenReview
          /\ \E s \in Symbols : items[s] # None /\ items[s].moves /\ items[s].status \in {"NEW", "ACTIVE"}
=============================================================================
