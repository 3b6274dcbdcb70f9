------------------------------ MODULE Delivery ------------------------------
(***************************************************************************)
(* What the notification core promises its users, with no queue, job or    *)
(* batch in sight: a subscription of a cell is given some of the values    *)
(* written to it, in the order they were written and none twice, and when  *)
(* the library has gone idle it has been given the last one, unless a      *)
(* runaway cutoff lost values of that cell.  Values are write versions.    *)
(***************************************************************************)
EXTENDS Integers

CONSTANTS Cells, Subs, InitValue

VARIABLES
    value,      \* latest version of each cell
    members,    \* the subscriptions of each cell
    seen,       \* version a subscription was last given, or could read when made
    notified,   \* subscriptions given a value at least once
    lossy,      \* cells that lost values since their last write
    idle        \* no call into the library is open

vars == <<value, members, seen, notified, lossy, idle>>

Init ==
    /\ value = [c \in Cells |-> InitValue]
    /\ members = [c \in Cells |-> {}]
    /\ seen = [s \in Subs |-> InitValue]
    /\ notified = {}
    /\ lossy = {}
    /\ idle = TRUE

Write(c) ==
    /\ value' = [value EXCEPT ![c] = @ + 1]
    /\ lossy' = lossy \ {c}
    /\ idle' = FALSE
    /\ UNCHANGED <<members, seen, notified>>

Join(c, s) ==
    /\ \A d \in Cells : s \notin members[d]
    /\ members' = [members EXCEPT ![c] = @ \cup {s}]
    /\ seen' = [seen EXCEPT ![s] = value[c]]
    /\ notified' = notified \ {s}
    /\ UNCHANGED <<value, lossy, idle>>

Leave(c, s) ==
    /\ members' = [members EXCEPT ![c] = @ \ {s}]
    /\ UNCHANGED <<value, seen, notified, lossy, idle>>

(* A call that may write more before anything is delivered.                *)
Open ==
    /\ idle' = FALSE
    /\ UNCHANGED <<value, members, seen, notified, lossy>>

Deliver(c, s) ==
    /\ ~idle
    /\ s \in members[c]
    /\ \E v \in 0..value[c] :
         /\ s \in notified => v > seen[s]
         /\ seen' = [seen EXCEPT ![s] = v]
    /\ notified' = notified \cup {s}
    /\ UNCHANGED <<value, members, lossy, idle>>

Lose(lost) ==
    /\ ~idle
    /\ lossy' = lossy \cup lost
    /\ UNCHANGED <<value, members, seen, notified, idle>>

Settle ==
    /\ \A c \in Cells \ lossy : \A s \in members[c] : seen[s] = value[c]
    /\ idle' = TRUE
    /\ UNCHANGED <<value, members, seen, notified, lossy>>

Next ==
    \/ \E c \in Cells : Write(c)
    \/ \E c \in Cells, s \in Subs : Join(c, s) \/ Leave(c, s) \/ Deliver(c, s)
    \/ Open
    \/ \E lost \in SUBSET Cells : Lose(lost)
    \/ Settle

Spec == Init /\ [][Next]_vars
=============================================================================
