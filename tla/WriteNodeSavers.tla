--------------------------- MODULE WriteNodeSavers ---------------------------
(***************************************************************************)
(* What a flush is worth while other savers are at work: the answer to a   *)
(* client's "store", and the flush of SIGTERM.  History variables watch    *)
(* the steps of WriteNodeStop.                                             *)
(***************************************************************************)
EXTENDS WriteNodeStop

VARIABLES
    settled,  \* the savers whose treeSave returned false, or that saw the data file
              \* replaced since they began
    alone,    \* no other saver was at work since the signal, and no save went wrong
    owed      \* the keys in memory at the signal that no client erased since

saverVars == <<stopVars, settled, alone, owed>>
-----------------------------------------------------------------------------
Stored == {k \in Keys : tree[k] # Absent}

Publishes(s) ==
    save[s].pc = "rename" /\ save'[s].pc = "unlock" /\ file[save[s].name].exists

Watched ==
    /\ settled' = IF \E s \in Savers : Publishes(s) THEN Savers
                  ELSE {s \in Savers : /\ save'[s].pc \notin {"idle", "open"}
                                       /\ \/ s \in settled
                                          \/ fails' # fails /\ save'[s].pc = "finish" /\ save'[s] # save[s]}
    /\ alone' = /\ stop' \in {"storing", "exiting"}
                /\ alone \/ stop = "no"
                /\ fails' = fails
                /\ \A s \in Others : save'[s] = IdleSave
    /\ owed' = CASE stop' \in {"no", "loading"} -> {}
                 [] stop' = "storing" /\ stop = "no" -> Stored
                 [] stop' = "storing" /\ stop # "no" -> owed \cap Stored'
                 [] stop' = "exiting" -> owed

WatchedInit == StopInit /\ settled = {} /\ alone = FALSE /\ owed = {}

WatchedSpec == WatchedInit /\ [][StopNext /\ Watched]_saverVars

FairWatchedSpec == WatchedSpec /\ StopFairness
-----------------------------------------------------------------------------
\* Unless treeSave returned false, a saver that is through has had the data file
\* replaced since it began, even one whose rename found the temporary file
\* gone: another saver took it away after this one had opened it.
StorePublishes == \A s \in Savers : save[s].pc = "finish" => s \in settled

\* SIGTERM loses nothing: when stopApp is at exit(0) the data file is whole and
\* has every key that was in memory at the signal, however far other threads
\* got with reports, erasures and the lock, provided that no other saver was at
\* work meanwhile and that the save did not fail, its last buffer included, whose
\* failure treeSave does not notice.
StopsKeep ==
    stop = "exiting" /\ alone =>
        /\ Complete(file[Data])
        /\ \A k \in owed : Has(file[Data], k)
=============================================================================
