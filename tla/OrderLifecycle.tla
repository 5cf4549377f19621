--------------------------- MODULE OrderLifecycle ---------------------------
(***************************************************************************)
(* What the live mirror promises about live_orders, whatever the exchange  *)
(* and the process go through: the statuses a row may pass through, and    *)
(* that a strategy has one order at work per symbol.  LiveMirror is shown  *)
(* to implement it.                                                        *)
(***************************************************************************)
CONSTANTS Orders, Signals, None

VARIABLES
    sig,     \* the signal each order was made for, None before that
    status   \* status of its row, "NONE" before it has one

vars == <<sig, status>>

Active    == {"PENDING", "FILLED"}
Withdrawn == {"CANCELED", "CANCELED_EXPIRED", "REPLACED", "DIRECTION_CONFLICT"}
Closed    == {"CLOSED_SL", "CLOSED_TP", "MANUAL_CLOSED"}
Refused   == {"REJECTED", "IGNORED_DUPLICATE", "IGNORED_WORSE_ENTRY",
              "DIRECTION_CONFLICT", "POSITION_EXISTS_SAME_SIDE",
              "POSITION_EXISTS_OPPOSITE_SIDE"}

SameBook(o1, o2) == sig[o1].strat = sig[o2].strat /\ sig[o1].sym = sig[o2].sym

Init ==
    /\ sig = [o \in Orders |-> None]
    /\ status = [o \in Orders |-> "NONE"]

(* A signal gets a live_order_id. *)
Receive(o) ==
    /\ sig[o] = None /\ status[o] = "NONE"
    /\ \E c \in Signals : sig' = [sig EXCEPT ![o] = c]
    /\ UNCHANGED status

Move(o, from, to) ==
    /\ status[o] = from
    /\ \E st \in to : status' = [status EXCEPT ![o] = st]
    /\ UNCHANGED sig

(* The order is at work: no other one of its strategy and symbol is. *)
Book(o) ==
    /\ sig[o] # None
    /\ \A p \in Orders : status[p] \in Active => ~SameBook(o, p)
    /\ Move(o, "NONE", {"PENDING"})

Refuse(o)   == sig[o] # None /\ Move(o, "NONE", Refused)
Fill(o)     == Move(o, "PENDING", {"FILLED"})
Withdraw(o) == Move(o, "PENDING", Withdrawn)
Close(o)    == Move(o, "FILLED", Closed)

Next == \E o \in Orders :
            Receive(o) \/ Book(o) \/ Refuse(o) \/ Fill(o) \/ Withdraw(o) \/ Close(o)

Spec == Init /\ [][Next]_vars
=============================================================================
