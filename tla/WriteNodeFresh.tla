---------------------------- MODULE WriteNodeFresh ----------------------------
(***************************************************************************)
(* How old the time stored under a key may be.  buildTree reads the stored *)
(* time without mtx_ and takes the mutex only to put, so two workers may   *)
(* refresh a key at once and the older time may be stored last.            *)
(***************************************************************************)
EXTENDS WriteNode

VARIABLE accepted   \* time of the latest report of each key that went through

freshVars == <<vars, accepted>>

\* The reports whose buildTree call ends in this step.
Ended(k) ==
    {job[w].time : w \in {v \in Workers : /\ job[v].key = k
                                          /\ job'[v] = IdleJob}}

Latest(t, S) == CHOOSE x \in S \cup {t} : \A y \in S \cup {t} : y <= x

Accepts ==
    accepted' = IF ~up' THEN EmptyTree
                ELSE [k \in Keys |->
                        IF tree[k] # Absent /\ tree'[k] = Absent THEN Absent
                        ELSE Latest(accepted[k], Ended(k))]

FreshInit == Init /\ accepted = EmptyTree

FreshSpec == FreshInit /\ [][Next /\ Accepts]_freshVars

\* The time under a key is behind the latest report of that key by at most
\* KEY_EXPIRE_TIME, or by the time a worker may be stuck in buildTree if that
\* is longer: a stale put takes a time back, but no further.
Freshness ==
    \A k \in Keys :
        \/ accepted[k] - tree[k] <= KeyExpire
        \/ accepted[k] - tree[k] <= MaxStall
=============================================================================
