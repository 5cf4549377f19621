---------------------------- MODULE ResearchDesks ----------------------------
(***************************************************************************)
(* The two research desks that open virtual trades: the AI macro trader    *)
(* (entrypoints/cli.py, ai_macro/) with its three commands, and the Gemini *)
(* committee (gemini_committee/).  Each AI macro command runs at most once *)
(* at a time, but a scan, a review and a settle may overlap, each with the *)
(* rows it read when it began.  LONG trades with one set of levels stand   *)
(* for all; a SHORT mirrors them.                                          *)
(***************************************************************************)
EXTENDS Naturals, Sequences, FiniteSets

CONSTANTS Prices,     \* the last closed candle's close, at any review
          Stop, Target1, Target2,   \* the levels of every trade
          Cap,        \* open AI macro trades allowed (5 in the code)
          Passing,    \* a bound: candidates that pass the score in one scan
          Expiry,     \* the age at which a trade is closed (48 h)
          Cooldown,   \* time between two reviews of the committee (4 h)
          MaxTime,    \* a bound on time
          MaxRows,    \* a bound on AI macro trades and reviews together
          MaxFaults   \* a bound on failed requests and crashes

VARIABLES now,
          trades,     \* ai_macro_trades, in order of creation
          commands,   \* the AI macro commands in progress
          reviews,    \* gemini_committee_reviews, in order of creation
          faults

vars == <<now, trades, commands, reviews, faults>>

Commands == {"scan", "review", "settle"}
Statuses == {"OPEN", "TP1", "TP2", "STOP", "EXPIRED"}
Ids == 1..Len(trades)
Quiet == [left |-> 0, count |-> 0, todo |-> {}]
Busy(c) == commands[c] # Quiet
Full == Len(trades) + Len(reviews) >= MaxRows

TypeOK ==
  /\ now \in 0..MaxTime
  /\ Len(trades) + Len(reviews) <= MaxRows
  /\ \A i \in Ids : trades[i].opened \in 0..now /\ trades[i].status \in Statuses
  /\ \A c \in Commands :
       /\ commands[c].left \in 0..Passing /\ commands[c].count \in 0..Cap
       /\ commands[c].todo \subseteq Ids
  /\ \A k \in 1..Len(reviews) : /\ reviews[k].created \in 0..now
                                /\ {reviews[k].trade, reviews[k].should} \subseteq BOOLEAN
  /\ faults \in 0..MaxFaults

-----------------------------------------------------------------------------
(* The AI macro trader. *)

OpenTrades == {i \in Ids : trades[i].status = "OPEN"}

NewTrade == [opened |-> now, status |-> "OPEN"]

\* A scan counts the open trades once, after the candidates are scored; left
\* are the candidates that passed.
ScanStart(n) ==
  /\ ~Busy("scan")
  /\ LET open == Cardinality(OpenTrades) IN
       commands' = IF open >= Cap THEN commands
                   ELSE [commands EXCEPT !["scan"] =
                           [left |-> n, count |-> open, todo |-> {}]]
  /\ UNCHANGED <<now, trades, reviews, faults>>

\* The scan after one more trade: it ends with its candidates or at the cap.
Scanned(m, count) ==
  IF m.left = 1 \/ count >= Cap THEN Quiet
  ELSE [m EXCEPT !.left = @ - 1, !.count = count]

\* One passing candidate, saved in a transaction of its own.
ScanSave ==
  /\ Busy("scan") /\ ~Full
  /\ trades' = Append(trades, NewTrade)
  /\ commands' = [commands EXCEPT !["scan"] = Scanned(@, @.count + 1)]
  /\ UNCHANGED <<now, reviews, faults>>

\* A review and a settle read the open trades once and close them one by one,
\* in the order of creation.
ReadOpen(c, S) ==
  /\ ~Busy(c) /\ S # {}
  /\ commands' = [commands EXCEPT ![c].todo = S]
  /\ UNCHANGED <<now, trades, reviews, faults>>

ReviewStart == ReadOpen("review", OpenTrades)

\* A plausible mistake: a trade must be older than the expiry.
ExpiredLate == {i \in OpenTrades : now - trades[i].opened > Expiry}

Expired == {i \in OpenTrades : now - trades[i].opened >= Expiry}

SettleStart == ReadOpen("settle", Expired)

Oldest(c) == CHOOSE i \in commands[c].todo : \A j \in commands[c].todo : i <= j

\* update_trade writes the status whatever the row holds by now.
Close(c, status) ==
  /\ trades' = IF status = "OPEN" THEN trades ELSE [trades EXCEPT ![Oldest(c)].status = status]
  /\ commands' = [commands EXCEPT ![c].todo = @ \ {Oldest(c)}]
  /\ UNCHANGED <<now, reviews, faults>>

\* The last closed candle's close alone, the far target first; nothing asks
\* whether the entry was ever reached.
ReviewVerdict(price) ==
  IF price >= Target2 THEN "TP2"
  ELSE IF price >= Target1 THEN "TP1"
  ELSE IF price <= Stop THEN "STOP" ELSE "OPEN"

ReviewOne(price) ==
  commands["review"].todo # {} /\ Close("review", ReviewVerdict(price))

SettleOne == commands["settle"].todo # {} /\ Close("settle", "EXPIRED")

\* A request for candles fails and ends the command, or its process dies.
CommandFails(c) ==
  /\ Busy(c) /\ faults < MaxFaults
  /\ commands' = [commands EXCEPT ![c] = Quiet]
  /\ faults' = faults + 1
  /\ UNCHANGED <<now, trades, reviews>>

-----------------------------------------------------------------------------
(* The Gemini committee.  Nothing in the code ever closes a recommendation. *)

HasOpenRecommendation == \E k \in 1..Len(reviews) : reviews[k].trade

CheckSkips ==
  \/ HasOpenRecommendation
  \/ reviews # <<>> /\ now - reviews[Len(reviews)].created < Cooldown

\* One review.  The answer's decision and its should_trade are read
\* independently; a failed call is a review that recommends nothing.
Review(trade, should) ==
  /\ ~CheckSkips /\ ~Full
  /\ reviews' = Append(reviews, [created |-> now, trade |-> trade, should |-> should])
  /\ UNCHANGED <<now, trades, commands, faults>>

-----------------------------------------------------------------------------
Tick ==
  /\ now < MaxTime /\ now' = now + 1
  /\ UNCHANGED <<trades, commands, reviews, faults>>

Init ==
  /\ now = 0 /\ trades = <<>> /\ reviews = <<>> /\ faults = 0
  /\ commands = [c \in Commands |-> Quiet]

Next ==
  \/ \E n \in 1..Passing : ScanStart(n)
  \/ ScanSave \/ ReviewStart \/ SettleStart \/ SettleOne
  \/ \E p \in Prices : ReviewOne(p)
  \/ \E c \in Commands : CommandFails(c)
  \/ \E trade, should \in BOOLEAN : Review(trade, should)
  \/ Tick

\* Whoever runs the three commands keeps running the settle, and a settle that
\* is running goes on.
Fairness == WF_vars(Tick) /\ WF_vars(SettleStart) /\ WF_vars(SettleOne)

Spec == Init /\ [][Next]_vars /\ Fairness

-----------------------------------------------------------------------------
(* Properties. *)

\* However scans, reviews and settles overlap, the AI macro trader never holds
\* more open trades than its cap (_ai_macro_scan counts once per scan).
OpenCapped == Cardinality(OpenTrades) <= Cap

\* The committee never has two recommendations open, whatever the two answers
\* it reads separately say (has_open_trade_recommendation).
OneRecommendation == Cardinality({k \in 1..Len(reviews) : reviews[k].trade}) <= 1

\* A closed trade may be closed again by the other command, which read it open
\* and writes without looking, but it never opens again (update_trade).
NeverReopened ==
  [][\A i \in Ids : trades[i].status # "OPEN" => trades'[i].status # "OPEN"]_vars

\* A trade old enough that is still open.
Due == \E i \in OpenTrades : trades[i].opened + Expiry <= MaxTime
=============================================================================
