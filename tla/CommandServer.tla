--------------------------- MODULE CommandServer ---------------------------
(* The Telegram command server and the runtime settings it writes: a thread polls for *)
(* updates and handles each of them, the admins' commands change a row of             *)
(* v3_runtime_settings.  The offset of the poll is kept in memory alone: Telegram     *)
(* repeats to a new process whatever no poll has confirmed.  Commands that only read  *)
(* and the reply, whose failure changes nothing, are left out.                        *)
EXTENDS Integers, Sequences, FiniteSetsExt

CONSTANTS
    Updates,      \* what users may send
    PaperOnly,    \* PAPER_ONLY_STRATEGIES
    Page,         \* updates of a poll: 10
    MaxChat, MaxFaults, MaxCrashes,   \* bounds
    None

VARIABLES
    chat,         \* the updates sent; an update's id is its place
    told,         \* the newest update Telegram knows to be confirmed
    offset,       \* self._offset
    batch,        \* ids of the poll's answer still to be handled
    settings,     \* v3_runtime_settings, of each strategy its row or None
    handled,      \* how often each update was handled
    faults, crashes
vars == <<chat, told, offset, batch, settings, handled, faults, crashes>>

Strategies == {u.strategy : u \in Updates}
FieldOf == [dedup |-> "dedup_hours", maxorders |-> "max_open_orders", livemode |-> "live_enabled",
            paper |-> "live_enabled", setlive |-> "notional_usdt"]
Fields == {FieldOf[c] : c \in DOMAIN FieldOf}
-----------------------------------------------------------------------------

(* The commands that write, when they do: not with a value out of range, and the       *)
(* switch of the paper scans only for a paper-only strategy.                           *)
SetLimit(u) == u.cmd \in {"dedup", "maxorders", "reset"} /\ u.value # "refused"
LiveMode(u) == u.cmd = "livemode" /\ u.value \in {"on", "off"}
PaperSwitch(u) == u.cmd = "paper" /\ u.strategy \in PaperOnly
SetLive(u) == u.cmd = "setlive" /\ u.value # "refused"

(* _handle_update asks first who commands. *)
Accepted(u) == u.admin /\ (SetLimit(u) \/ LiveMode(u) \/ PaperSwitch(u) \/ SetLive(u))

(* COALESCE(EXCLUDED.x, x) of every column. *)
Upsert(row, field, value) ==
    LET old == IF row = None THEN [f \in Fields |-> None] ELSE row IN [old EXCEPT ![field] = value]

(* /setlimit reset deletes the row: the live switch and the size go with the limits. *)
After(u) == IF u.cmd = "reset" THEN None ELSE Upsert(settings[u.strategy], FieldOf[u.cmd], u.value)

(* resolve and resolve_live: what a scan works with. *)
Resolved(s, field) ==
    IF settings[s] = None THEN "default"
    ELSE IF settings[s][field] = None THEN "default" ELSE settings[s][field]

-----------------------------------------------------------------------------
Init ==
    /\ chat = <<>> /\ told = 0 /\ offset = 0 /\ batch = <<>>
    /\ settings = [s \in Strategies |-> None]
    /\ handled = <<>> /\ faults = 0 /\ crashes = 0

Send(u) ==
    /\ Len(chat) < MaxChat
    /\ chat' = Append(chat, u) /\ handled' = Append(handled, 0)
    /\ UNCHANGED <<told, offset, batch, settings, faults, crashes>>

Confirm == told' = Max({told, offset - 1})

(* get_updates: the offset confirms what is below it. *)
Poll ==
    /\ batch = <<>> /\ Confirm
    /\ LET n == Min({Page, Len(chat) - told'}) IN batch' = [i \in 1..n |-> told' + i]
    /\ batch' # <<>> \/ told' # told
    /\ UNCHANGED <<chat, offset, settings, handled, faults, crashes>>

(* The answer is lost: an empty list. *)
PollLost ==
    /\ batch = <<>> /\ Confirm /\ told' # told
    /\ UNCHANGED <<chat, offset, batch, settings, handled, faults, crashes>>

(* The offset moves before the update is handled: what fails is not tried again. *)
Handle ==
    /\ batch # <<>>
    /\ LET i == Head(batch)
           u == chat[i]
       IN  /\ offset' = i + 1 /\ batch' = Tail(batch)
           /\ handled' = [handled EXCEPT ![i] = @ + 1]
           /\ \/ ~Accepted(u) /\ UNCHANGED <<settings, faults>>
              \/ Accepted(u) /\ settings' = [settings EXCEPT ![u.strategy] = After(u)] /\ UNCHANGED faults
              \/ Accepted(u) /\ faults < MaxFaults /\ faults' = faults + 1 /\ UNCHANGED settings
    /\ UNCHANGED <<chat, told, crashes>>

Restart ==
    /\ crashes < MaxCrashes /\ (offset > 0 \/ batch # <<>>)
    /\ crashes' = crashes + 1 /\ offset' = 0 /\ batch' = <<>>
    /\ UNCHANGED <<chat, told, settings, handled, faults>>

Next == (\E u \in Updates : Send(u)) \/ Poll \/ PollLost \/ Handle \/ Restart
Spec == Init /\ [][Next]_vars
FairSpec == Spec /\ WF_vars(Poll) /\ WF_vars(Handle)

-----------------------------------------------------------------------------
(* Settings and counters have the values their columns admit. *)
TypeOK ==
    /\ told \in 0..Len(chat) /\ offset \in 0..Len(chat) + 1 /\ Len(batch) <= Page
    /\ Len(handled) = Len(chat)
    /\ \A s \in Strategies : settings[s] = None \/ DOMAIN settings[s] = Fields

Settled == batch = <<>> /\ \A i \in DOMAIN chat : i <= told \/ i < offset

(* A command is handled again only by a process that was started since: each restart   *)
(* repeats it once at most.                                                            *)
RepeatsAreRestarts == \A i \in DOMAIN chat : handled[i] <= 1 + crashes

(* When nothing waits, every update has been handled, and as long as the database took *)
(* every write the scans work with the last command of an admin for each setting,      *)
(* repeated commands or not (_poll_loop, _upsert, resolve).                            *)
Writers(s, field) ==
    {i \in DOMAIN chat : /\ Accepted(chat[i]) /\ chat[i].strategy = s
                         /\ chat[i].cmd = "reset" \/ FieldOf[chat[i].cmd] = field}
LastCommand(s, field) ==
    LET W == Writers(s, field) IN
    IF W = {} THEN "default" ELSE LET u == chat[Max(W)] IN IF u.cmd = "reset" THEN "default" ELSE u.value
LatestStands ==
    Settled => /\ \A i \in DOMAIN chat : handled[i] > 0
               /\ faults = 0 => \A s \in Strategies, f \in Fields : Resolved(s, f) = LastCommand(s, f)

(* An update that waits to be handled. *)
Unread == ~Settled
=============================================================================
