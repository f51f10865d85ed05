---------------------------- MODULE WriteNodeStop ----------------------------
(***************************************************************************)
(* Several savers at once: the store thread, a client's "store", and the   *)
(* flush that stopApp runs inside the SIGTERM handler before exit(0).  The *)
(* signal goes to the main thread, which waits in join_all, or is still    *)
(* loading the data file.                                                  *)
(***************************************************************************)
EXTENDS WriteNode

CONSTANT Handler   \* the main thread, as the saver that handles SIGTERM

ASSUME HandlerAssumption == Handler \in Savers \ {StoreThread}

VARIABLE stop   \* stopApp: "no", "loading" (called during load), "storing", "exiting"

stopVars == <<vars, stop>>
-----------------------------------------------------------------------------
Others == Savers \ {Handler}

\* SIGTERM: signalFunc calls stopApp, and the flush is run like any other one.
Term ==
    /\ up
    /\ stop = "no"
    /\ stop' = "storing"
    /\ save' = [save EXCEPT ![Handler].pc = "open"]
    /\ UNCHANGED <<up, clock, tree, storeFlag, mtx, job, file, flock, fails, crashes>>

\* What myTree is while treeLoad runs: read_xml fills a tree of its own first,
\* an archive is read straight into myTree.
PartlyLoaded ==
    IF Format = "xml" THEN {EmptyTree}
    ELSE {[k \in Keys |-> IF k \in S /\ file[Data].slot[k] # Hole
                          THEN file[Data].slot[k] ELSE Absent] : S \in SUBSET Keys}

\* SIGTERM while main is in load: there are no other threads yet, and what
\* myTree is just then gets stored.
TermLoading ==
    /\ ~up
    /\ file[Data].exists
    /\ up' = TRUE
    /\ stop' = "loading"
    /\ tree' \in PartlyLoaded
    /\ save' = [save EXCEPT ![Handler].pc = "open"]
    /\ UNCHANGED <<clock, storeFlag, mtx, job, file, flock, fails, crashes>>

\* Mutant: exit(0) as soon as the temporary file is written.
ExitEarly ==
    /\ up
    /\ save[Handler].pc \in {"lock", "finish"}
    /\ stop' = "exiting"
    /\ tree' = EmptyTree
    /\ save' = [save EXCEPT ![Handler] = IdleSave]
    /\ UNCHANGED <<up, clock, storeFlag, mtx, job, file, flock, fails, crashes>>

\* Mutant: the handler returns instead of calling exit(0).
ExitForgotten ==
    /\ up
    /\ save[Handler].pc = "finish"
    /\ save' = [save EXCEPT ![Handler] = IdleSave]
    /\ UNCHANGED <<up, clock, tree, storeFlag, mtx, job, file, flock, fails, crashes, stop>>

\* exit(0) after the flush, whatever came of it: the global tree is destroyed
\* while the other threads go on.
Exit ==
    /\ up
    /\ save[Handler].pc = "finish"
    /\ stop' = "exiting"
    /\ tree' = EmptyTree
    /\ save' = [save EXCEPT ![Handler] = IdleSave]
    /\ UNCHANGED <<up, clock, storeFlag, mtx, job, file, flock, fails, crashes>>

\* The end of exit: like any other death of the process.
ExitEnds ==
    /\ up
    /\ stop = "exiting"
    /\ up' = FALSE
    /\ tree' = EmptyTree
    /\ storeFlag' = FALSE
    /\ mtx' = None
    /\ job' = [w \in Workers |-> IdleJob]
    /\ save' = [s \in Savers |-> IdleSave]
    /\ flock' = IF flock = Reader THEN Reader ELSE None
    /\ stop' = "no"
    /\ UNCHANGED <<clock, file, fails, crashes>>
-----------------------------------------------------------------------------
\* The threads that main starts when it has loaded the data file.
Threads ==
    \/ \E w \in Workers : Build(w)
    \/ \E s \in Others : BeginStore(s) \/ SaveStep(s) \/ SaveFails(s) \/ CloseCut(s) \/ LockFile(s)
    \/ \E k \in Keys : EraseKey(k)

\* What the handler does by itself once it has begun.
HandlerStep ==
    \/ OpenTmp(Handler)
    \/ \E k \in Keys : WriteSlot(Handler, k)
    \/ CloseTmp(Handler)
    \/ Rename(Handler)
    \/ UnlockFile(Handler)

StopNext ==
    \/ stop # "loading" /\ Threads /\ UNCHANGED stop
    \/ (HandlerStep \/ SaveFails(Handler) \/ CloseCut(Handler) \/ LockFile(Handler)) /\ UNCHANGED stop
    \/ Term \/ TermLoading \/ Exit \/ ExitEnds
    \/ (ReaderLocks \/ ReaderUnlocks \/ Tick \/ Restart) /\ UNCHANGED stop
    \/ Crash /\ stop' = "no"
-----------------------------------------------------------------------------
StopInit == Init /\ stop = "no"

StopSpec == StopInit /\ [][StopNext]_stopVars

\* main waits in join_all while the handler runs, so the handler goes on; a
\* handler that interrupts the load may stand inside malloc and wait for ever.
StopFairness ==
    /\ \A s \in Others : /\ WF_vars(stop # "loading" /\ SaveStep(s))
                         /\ SF_vars(stop # "loading" /\ LockFile(s))
    /\ WF_vars(stop = "storing" /\ HandlerStep) /\ SF_vars(stop = "storing" /\ LockFile(Handler))
    /\ WF_vars(stop = "storing" /\ Exit) /\ WF_vars(ExitEnds)
    /\ WF_vars(stop # "loading" /\ BeginStore(StoreThread))
    /\ WF_vars(ReaderUnlocks)

FairStopSpec == StopSpec /\ StopFairness
-----------------------------------------------------------------------------
\* A node that is told to stop while it runs stops, although the reader, the
\* store thread and clients come back for the lock of the file all the time.
StopEnds == stop = "storing" ~> ~up
=============================================================================
