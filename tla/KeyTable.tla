------------------------------- MODULE KeyTable -------------------------------
(***************************************************************************)
(* What the tree of metric names promises: a table of the reported keys    *)
(* with the time of their last accepted report.  erase removes a key and   *)
(* every key below it, a restart goes back to the table of the last flush. *)
(* Directories do not exist here.                                          *)
(***************************************************************************)
EXTENDS Integers, Sequences

CONSTANTS Keys, Requests, ExpireTime, MaxTime

VARIABLES keys, saved, now

keyVars == <<keys, saved, now>>

Stored(k) == IF k \in DOMAIN keys THEN keys[k] ELSE 0

Above(p, q) == Len(p) <= Len(q) /\ SubSeq(q, 1, Len(p)) = p

NoKeys == [k \in {} |-> 0]

Init ==
    /\ keys = NoKeys
    /\ saved = NoKeys
    /\ now = ExpireTime + 2

Report(k) ==
    /\ now - Stored(k) > ExpireTime
    /\ keys' = [q \in DOMAIN keys \cup {k} |-> IF q = k THEN now ELSE keys[q]]
    /\ UNCHANGED <<saved, now>>

Erase(p) ==
    /\ keys' = [q \in {r \in DOMAIN keys : ~Above(p, r)} |-> keys[q]]
    /\ UNCHANGED <<saved, now>>

Save ==
    /\ saved' = keys
    /\ UNCHANGED <<keys, now>>

Restart ==
    /\ keys' = saved
    /\ UNCHANGED <<saved, now>>

Tick ==
    /\ now < MaxTime
    /\ now' = now + 1
    /\ UNCHANGED <<keys, saved>>

Next ==
    \/ \E k \in Keys : Report(k)
    \/ \E p \in Requests : Erase(p)
    \/ Save \/ Restart \/ Tick

Spec == Init /\ [][Next]_keyVars
=============================================================================
