---------------------------- MODULE WriteNodeStore ----------------------------
(***************************************************************************)
(* The write node as a store: it implements SnapshotStore when the store   *)
(* thread is its only saver, and what an operator may rely on, stated with *)
(* two history variables that watch the steps of WriteNode.                *)
(***************************************************************************)
EXTENDS WriteNode, FiniteSets

VARIABLES
    gone,     \* keys of the data file that a client erased since they got there,
              \* or that the load of a cut file did not bring back
    flagged   \* the tree when storeFlag was raised for the current flush

storeVars == <<vars, gone, flagged>>
-----------------------------------------------------------------------------
\* The flush under way, from the first slot until the rename.
Scanned ==
    IF save[StoreThread].pc \in {"write", "lock", "rename"}
    THEN file[save[StoreThread].name].slot
    ELSE [k \in Keys |-> Hole]

Abstract == INSTANCE SnapshotStore WITH
    Values <- Times \cup {Absent},
    running <- up,
    mem <- tree,
    disk <- IF file[Data].exists THEN file[Data].slot ELSE EmptyTree,
    cut <- file[Data].end = "cut",
    scan <- Scanned

\* With one saver the node is a store whose disk copy is replaced at once by what
\* was in memory during the flush, all of it unless the last buffer was lost,
\* across failed saves, erasures, late reports, crashes and restarts.
ImplementsStore == Abstract!Spec
-----------------------------------------------------------------------------
\* The data file is replaced in this step.
Published ==
    /\ save[StoreThread].pc = "rename" /\ save'[StoreThread].pc = "unlock"
    /\ file[save[StoreThread].name].exists

\* What a restart did not bring back of a file that was cut.
Unread ==
    {k \in Keys : ~Complete(file[Data]) /\ Has(file[Data], k) /\ tree'[k] = Absent}

Watched ==
    /\ gone' = IF ~up' THEN {}
               ELSE IF ~up THEN Unread
               ELSE {k \in Keys :
                       \/ tree[k] # Absent /\ tree'[k] = Absent
                       \/ /\ k \in gone
                          /\ Published /\ Has(file'[Data], k) => tree[k] = Absent}
    /\ flagged' = IF storeFlag' = storeFlag THEN flagged
                  ELSE IF storeFlag' THEN tree ELSE EmptyTree

WatchedInit == Init /\ gone = {} /\ flagged = EmptyTree

WatchedSpec == WatchedInit /\ [][Next /\ Watched]_storeVars

\* A key that is in the data file leaves it only when a client erased it or a
\* load of a cut file had missed it, whatever crashes, failed saves, restarts and
\* late reports there are; a save that loses its last buffer takes others away,
\* and those are still in memory.
NoSilentLoss ==
    [][\A k \in Keys :
          Has(file[Data], k) /\ ~Has(file'[Data], k)
              => \/ k \in gone
                 \/ file'[Data].end = "cut" /\ tree'[k] # Absent]_storeVars

\* What a flush is about to publish is the tree as it was when the store thread
\* raised the flag, but for erasures, for the end of the file if its last buffer
\* was lost, and for one late report per worker: a worker that had already looked
\* at the flag puts its key, no other can.
Late(f) ==
    {k \in Keys : /\ f.slot[k] \notin {flagged[k], Absent}
                  /\ f.slot[k] = Hole => f.end # "cut"}

NearSnapshot ==
    save[StoreThread].pc \in {"lock", "rename"}
        => Cardinality(Late(file[save[StoreThread].name])) <= Cardinality(Workers)
=============================================================================
