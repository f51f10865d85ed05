--------------------------- MODULE StorePairProofs ---------------------------
(***************************************************************************)
(* The two nodes on one machine, for any number of keys, workers, flushes  *)
(* and deaths: each node is the environment that the other one's model     *)
(* assumes, so what is proved of WriteNode and ReadNode holds of the pair. *)
(***************************************************************************)
EXTENDS StorePair, TLAPS

WP == INSTANCE WriteNodeProofs

LEMMA WriterConstants == WP!ConstantsAssumption
  BY PairAssumption
  DEF W!ConstantsAssumption, WP!ConstantsAssumption, W!Hours, WP!Hours, W!Names, WP!Names,
      W!Times, WP!Times, W!HourOf, WP!HourOf

LEMMA Holders ==
    /\ Reader # StoreThread /\ None # StoreThread /\ Reader # None
    /\ Reader # Writer /\ Writer # None
    /\ MaxVersion \in Nat \ {0} /\ Delay \in Nat
  BY PairAssumption DEF W!ConstantsAssumption, R!ConstantsAssumption, Savers

\* The module with the theorems is another instance of WriteNode, of the same
\* definitions.
LEMMA SameWriter ==
    /\ W!Init <=> WP!Init
    /\ W!Next <=> WP!Next
    /\ UNCHANGED W!vars <=> UNCHANGED WP!vars
  <1>1. W!Init <=> WP!Init
    BY Zenon
    DEF W!Init, WP!Init, W!EmptyTree, WP!EmptyTree, W!IdleJob, WP!IdleJob, W!IdleSave,
        WP!IdleSave, W!NoFile, WP!NoFile, W!Names, WP!Names, W!Hours, WP!Hours, W!Times,
        WP!Times, W!HourOf, WP!HourOf, W!Hole, WP!Hole, W!Absent, WP!Absent
  <1>2. W!Next <=> WP!Next
    BY Zenon
    DEF W!Next, WP!Next, W!Build, WP!Build, W!SaveStep, WP!SaveStep, W!BeginStore,
        WP!BeginStore, W!SaveFails, WP!SaveFails, W!LockFile, WP!LockFile, W!OpenTmp,
        WP!OpenTmp, W!WriteSlot, WP!WriteSlot, W!CloseTmp, WP!CloseTmp, W!CloseCut,
        WP!CloseCut, W!Rename, WP!Rename, W!UnlockFile, WP!UnlockFile, W!FinishStore, WP!FinishStore,
        W!EraseKey, WP!EraseKey, W!ReaderLocks, WP!ReaderLocks, W!ReaderUnlocks,
        WP!ReaderUnlocks, W!Tick, WP!Tick, W!Crash, WP!Crash, W!Restart, WP!Restart,
        W!ReportKey, WP!ReportKey, W!ReadNode, WP!ReadNode, W!LockTree, WP!LockTree,
        W!PutKey, WP!PutKey, W!IdleJob, WP!IdleJob, W!IdleSave, WP!IdleSave,
        W!NewFile, WP!NewFile, W!NoFile, WP!NoFile, W!HourOf, WP!HourOf, W!Hours,
        WP!Hours, W!Names, WP!Names, W!Times, WP!Times, W!Moved, WP!Moved, W!Loads,
        WP!Loads, W!Loadable, WP!Loadable, W!Complete, WP!Complete, W!EmptyTree,
        WP!EmptyTree, W!NeedsRefresh, WP!NeedsRefresh, W!NodeReads, WP!NodeReads,
        W!Hole, WP!Hole, W!Absent, WP!Absent
  <1>3. UNCHANGED W!vars <=> UNCHANGED WP!vars
    BY DEF W!vars, WP!vars
  <1> QED
    BY <1>1, <1>2, <1>3
-----------------------------------------------------------------------------
WriterInv == WP!WholeInv /\ WP!LockHeld

\* The read node has the lock exactly while its thread is between the steps
\* that take and release it.
ReaderHolds == flock = Reader <=> pc \in {"load", "unlock"}

\* A flush has a version to publish, and its file is not older than the one it
\* replaces.
MtimesInv ==
    /\ version \in 1 .. MaxVersion /\ age \in 0 .. Delay /\ tmpAge \in 0 .. Delay
    /\ save[StoreThread].pc \in {"open", "write", "lock", "rename"} => version < MaxVersion
    /\ save[StoreThread].pc \in {"lock", "rename"} => tmpAge <= age

PairInv == WriterInv /\ ReaderHolds /\ MtimesInv

LEMMA WriterFacts ==
    ASSUME WriterInv
    PROVE  /\ save \in [Savers -> WP!Save] /\ file \in [WP!Names -> WP!File]
           /\ flock \in {StoreThread, Reader, None}
           /\ save[StoreThread].pc \in {"rename", "unlock"} => flock = StoreThread
  BY DEF WriterInv, WP!WholeInv, WP!TypeOK, WP!LockHeld, Savers

\* The data file is never half written; it may have lost its last buffer.
LEMMA NeverOpen ==
    ASSUME WriterInv
    PROVE  /\ End \in {"closed", "cut"}
           /\ End = "cut" <=> file[Data].exists /\ file[Data].end = "cut"
  BY DEF WriterInv, WP!WholeInv, WP!DataIntact, End, W!Complete, WP!Complete, W!Hole, WP!Hole

LEMMA WriterInvNext ==
    ASSUME WriterInv, [W!Next]_(W!vars)
    PROVE  WriterInv'
  <1>1. [WP!Next]_(WP!vars)
    BY SameWriter
  <1>2. WP!TypeOK' /\ WP!Named'
    BY <1>1, WriterConstants, WP!TypeNext, WP!NamedNext
    DEF WP!TypeNext, WP!NamedNext, WriterInv, WP!WholeInv
  <1>3. WP!TmpFilled' /\ WP!DataIntact'
    BY <1>1, WriterConstants, WP!WholeNext DEF WP!WholeNext, WriterInv, Savers
  <1>4. WP!LockHeld'
    BY <1>1, WriterConstants, WP!LockHeldNext DEF WP!LockHeldNext, WriterInv, WP!WholeInv
  <1> QED
    BY <1>2, <1>3, <1>4 DEF WriterInv, WP!WholeInv
-----------------------------------------------------------------------------
\* Every step of the pair is a step of the write node or of its environment.
LEMMA ToTheWriter ==
    ASSUME PairInv, [Next]_pairVars
    PROVE  [W!Next]_(W!vars)
  <1> USE DEF PairInv
  <1>1. CASE BeginStore \/ CloseTmp \/ CloseCut \/ Rename \/ LockFile \/ SaveStep
    BY <1>1 DEF BeginStore, CloseTmp, CloseCut, Rename, LockFile, SaveStep, W!Next, W!SaveStep, Savers
  <1>2. CASE WriterStep \/ WriterDies
    BY <1>2 DEF WriterStep, WriterDies, W!Next, Savers
  <1>3. CASE Start \/ ReaderStep \/ TimePasses
    BY <1>3 DEF Start, ReaderStep, TimePasses, writerVars, memory, W!vars
  <1>4. CASE LockStore
    <2>1. flock = None
      BY <1>4, Holders DEF LockStore, R!LockStore
    <2> QED
      BY <1>4, <2>1 DEF LockStore, memory, W!Next, W!ReaderLocks
  <1>5. CASE UnlockStore
    <2>1. flock = Reader
      BY <1>5 DEF UnlockStore, R!UnlockStore, ReaderHolds
    <2>2. flock' = None
      BY <1>5, <2>1, Holders DEF UnlockStore, R!UnlockStore
    <2> QED
      BY <1>5, <2>1, <2>2 DEF UnlockStore, memory, W!Next, W!ReaderUnlocks
  <1>6. CASE ReaderDies
    <2>1. flock' = IF flock = Reader THEN None ELSE flock
      BY <1>6, Holders DEF ReaderDies, R!Die
    <2>2. CASE flock = Reader
      BY <1>6, <2>1, <2>2 DEF ReaderDies, memory, W!Next, W!ReaderUnlocks
    <2>3. CASE flock # Reader
      BY <1>6, <2>1, <2>3 DEF ReaderDies, memory, W!vars
    <2> QED
      BY <2>2, <2>3
  <1>7. CASE UNCHANGED pairVars
    BY <1>7 DEF pairVars, writerVars, memory, W!vars
  <1> QED
    BY <1>1, <1>2, <1>3, <1>4, <1>5, <1>6, <1>7 DEF Next

\* Only the rename changes the data file.
LEMMA FileStill ==
    ASSUME PairInv, [Next]_pairVars, ~Rename
    PROVE  file'[Data] = file[Data] /\ End' = End
  <1>1. file'[Data] = file[Data]
    <2> SUFFICES ASSUME file'[Data] # file[Data] PROVE FALSE
      OBVIOUS
    <2>1. [WP!Next]_(WP!vars)
      BY ToTheWriter, SameWriter
    <2>2. WP!Rename(StoreThread)
      BY <2>1, WriterConstants, WP!DataStep DEF WP!DataStep, PairInv, WriterInv, Savers
    <2>3. save[StoreThread].pc = "rename"
      BY <2>2 DEF WP!Rename
    <2>4. CASE BeginStore \/ CloseTmp \/ CloseCut \/ LockFile
      BY <2>3, <2>4 DEF BeginStore, CloseTmp, CloseCut, LockFile, W!BeginStore, W!CloseTmp,
                        W!CloseCut, W!LockFile
    <2>5. CASE SaveStep
      BY <2>3, <2>5 DEF SaveStep, W!OpenTmp, W!WriteSlot, W!UnlockFile, W!FinishStore
    <2>6. CASE WriterStep
      BY <2>6 DEF WriterStep, W!Build, W!ReportKey, W!ReadNode, W!LockTree, W!PutKey,
                  W!EraseKey, W!SaveFails, W!Restart
    <2>7. CASE WriterDies
      BY <2>7 DEF WriterDies, W!Crash
    <2>8. CASE Start \/ ReaderStep \/ LockStore \/ UnlockStore \/ ReaderDies \/ TimePasses
      BY <2>8 DEF Start, ReaderStep, LockStore, UnlockStore, ReaderDies, TimePasses, writerVars
    <2> QED
      BY <2>4, <2>5, <2>6, <2>7, <2>8 DEF Next, pairVars, writerVars
  <1> QED
    BY <1>1 DEF End, W!Complete

\* A step of the write node that is not a rename leaves what the read node sees
\* of the file as it is, and takes only a free lock or gives back its own.
LEMMA WriterQuiet ==
    ASSUME UNCHANGED <<readerVars, version, age>>, End' = End,
           \/ flock' = flock
           \/ flock = None /\ flock' = StoreThread
           \/ flock = StoreThread /\ flock' = None
    PROVE  [R!Next]_(R!vars)
  <1>1. CASE flock' = flock
    BY <1>1 DEF R!vars, R!disk, R!trees, readerVars
  <1>2. CASE flock = None /\ flock' = StoreThread
    BY <1>2, Holders DEF R!Next, R!WriterLocks, R!trees, readerVars
  <1>3. CASE flock = StoreThread /\ flock' = None
    BY <1>3, Holders DEF R!Next, R!WriterUnlocks, R!trees, readerVars
  <1> QED
    BY <1>1, <1>2, <1>3

\* Every step of the pair is a step of the read node or of its environment.
LEMMA ToTheReader ==
    ASSUME PairInv, WriterInv', [Next]_pairVars
    PROVE  [R!Next]_(R!vars)
  <1>0. ~Rename => End' = End
    BY FileStill
  <1>1. CASE ~Rename /\ (BeginStore \/ CloseTmp \/ CloseCut)
    BY <1>0, <1>1, WriterQuiet
    DEF BeginStore, CloseTmp, CloseCut, W!BeginStore, W!CloseTmp, W!CloseCut, mtimes
  <1>2. CASE ~Rename /\ LockFile
    BY <1>0, <1>2, WriterQuiet DEF LockFile, W!LockFile, mtimes
  <1>3. CASE ~Rename /\ SaveStep
    <2>1. W!UnlockFile(StoreThread) => flock = StoreThread /\ flock' = None
      BY WriterFacts DEF W!UnlockFile, PairInv
    <2>2. flock' = flock \/ (flock = StoreThread /\ flock' = None)
      BY <1>3, <2>1 DEF SaveStep, W!OpenTmp, W!WriteSlot, W!FinishStore
    <2> QED
      BY <1>0, <1>3, <2>2, WriterQuiet DEF SaveStep, mtimes
  <1>4. CASE ~Rename /\ WriterStep
    <2>1. flock' = flock
      BY <1>4 DEF WriterStep, W!Build, W!ReportKey, W!ReadNode, W!LockTree, W!PutKey,
                  W!EraseKey, W!SaveFails, W!Restart
    <2> QED
      BY <1>0, <1>4, <2>1, WriterQuiet DEF WriterStep, mtimes
  <1>5. CASE ~Rename /\ WriterDies
    <2>1. flock' = flock \/ (flock = StoreThread /\ flock' = None)
      BY <1>5, WriterFacts DEF WriterDies, W!Crash, PairInv
    <2> QED
      BY <1>0, <1>5, <2>1, WriterQuiet DEF WriterDies
  <1>6. CASE Rename
    <2>1. End # "open" /\ End' \in {"closed", "cut"}
      <3>1. WriterInv => End \in {"closed", "cut"}
        BY NeverOpen
      <3>2. (WriterInv => End \in {"closed", "cut"})'
        BY NeverOpen, PTL
      <3> QED
        BY <3>1, <3>2 DEF PairInv
    <2>2. flock' = flock /\ save[StoreThread].pc = "rename"
      BY <1>6 DEF Rename, W!Rename
    <2>3. version < MaxVersion /\ tmpAge \in 0 .. age
      BY <2>2 DEF PairInv, MtimesInv
    <2> QED
      BY <1>6, <2>1, <2>2, <2>3 DEF Rename, R!Next, R!Publish, R!trees, readerVars
  <1>7. CASE Start
    BY <1>7 DEF Start, R!Next
  <1>8. CASE ReaderStep
    BY <1>8 DEF ReaderStep, R!Next, R!Reload
  <1>9. CASE LockStore \/ ReaderDies \/ TimePasses
    BY <1>9 DEF LockStore, ReaderDies, TimePasses, R!Next
  <1>10. CASE UnlockStore
    BY <1>10 DEF UnlockStore, R!Next, R!Reload
  <1>11. CASE ~Rename /\ UNCHANGED pairVars
    <2>1. UNCHANGED <<readerVars, version, age, flock>>
      BY <1>11 DEF pairVars, writerVars, mtimes
    <2> QED
      BY <1>0, <1>11, <2>1, WriterQuiet
  <1> QED
    BY <1>1, <1>2, <1>3, <1>4, <1>5, <1>6, <1>7, <1>8, <1>9, <1>10, <1>11 DEF Next

LEMMA ReaderHoldsNext ==
    ASSUME PairInv, [Next]_pairVars
    PROVE  ReaderHolds'
  <1> USE DEF PairInv, ReaderHolds
  <1>1. CASE BeginStore \/ CloseTmp \/ CloseCut \/ Rename \/ LockFile
    BY <1>1, Holders DEF BeginStore, CloseTmp, CloseCut, Rename, LockFile, W!BeginStore,
                         W!CloseTmp, W!CloseCut, W!Rename, W!LockFile, readerVars
  <1>2. CASE SaveStep
    BY <1>2, WriterFacts, Holders
    DEF SaveStep, W!OpenTmp, W!WriteSlot, W!UnlockFile, W!FinishStore, readerVars
  <1>3. CASE WriterStep
    BY <1>3 DEF WriterStep, W!Build, W!ReportKey, W!ReadNode, W!LockTree, W!PutKey,
                W!EraseKey, W!SaveFails, W!Restart, readerVars
  <1>4. CASE WriterDies
    BY <1>4, Holders DEF WriterDies, W!Crash, readerVars
  <1>5. CASE Start \/ TimePasses
    BY <1>5 DEF Start, TimePasses, R!Start, R!Tick, writerVars
  <1>6. CASE ReaderStep
    BY <1>6 DEF ReaderStep, R!Stat, R!Settle, R!Load, R!RaiseFlag, R!ClearTree,
                R!AssignTree, R!LowerFlag, R!DropSwap, writerVars
  <1>7. CASE LockStore
    BY <1>7 DEF LockStore, R!LockStore
  <1>8. CASE UnlockStore
    BY <1>8, Holders DEF UnlockStore, R!UnlockStore
  <1>9. CASE ReaderDies
    BY <1>9, Holders DEF ReaderDies, R!Die
  <1>10. CASE UNCHANGED pairVars
    BY <1>10 DEF pairVars, writerVars, readerVars
  <1> QED
    BY <1>1, <1>2, <1>3, <1>4, <1>5, <1>6, <1>7, <1>8, <1>9, <1>10 DEF Next

LEMMA MtimesNext ==
    ASSUME PairInv, [Next]_pairVars
    PROVE  MtimesInv'
  <1> USE DEF PairInv, MtimesInv
  <1>1. save \in [Savers -> WP!Save] /\ StoreThread \in Savers
    BY WriterFacts DEF Savers
  <1>2. CASE BeginStore
    BY <1>1, <1>2 DEF BeginStore, W!BeginStore, WP!Save, mtimes
  <1>3. CASE CloseTmp \/ CloseCut
    <2>1. save[StoreThread].pc = "write" /\ save'[StoreThread].pc = "lock"
      BY <1>1, <1>3 DEF CloseTmp, CloseCut, W!CloseTmp, W!CloseCut, WP!Save
    <2>2. tmpAge' = 0 /\ UNCHANGED <<version, age>>
      BY <1>3 DEF CloseTmp, CloseCut
    <2> QED
      BY <2>1, <2>2, Holders
  <1>4. CASE LockFile
    BY <1>1, <1>4 DEF LockFile, W!LockFile, WP!Save, mtimes
  <1>5. CASE Rename
    <2>1. save'[StoreThread].pc = "unlock"
      <3>1. CASE file[save[StoreThread].name].exists
        <4>1. save' = [t \in Savers |->
                 [save[t] EXCEPT !.pc = IF t = StoreThread THEN "unlock" ELSE @,
                                 !.handle = W!Moved(@, save[StoreThread].name)]]
          BY <1>5, <3>1 DEF Rename, W!Rename
        <4> QED
          BY <1>1, <4>1 DEF WP!Save
      <3>2. CASE ~file[save[StoreThread].name].exists
        <4>1. save' = [save EXCEPT ![StoreThread].pc = "unlock"]
          BY <1>5, <3>2 DEF Rename, W!Rename
        <4> QED
          BY <1>1, <4>1 DEF WP!Save
      <3> QED
        BY <3>1, <3>2
    <2>2. save[StoreThread].pc = "rename"
      BY <1>5 DEF Rename, W!Rename
    <2>3. version' = version + 1 /\ age' = tmpAge /\ tmpAge' = 0
      BY <1>5 DEF Rename
    <2> QED
      BY <2>1, <2>2, <2>3, Holders
  <1>6. CASE SaveStep
    BY <1>1, <1>6
    DEF SaveStep, W!OpenTmp, W!WriteSlot, W!UnlockFile, W!FinishStore, W!IdleSave, WP!Save, mtimes
  <1>7. CASE WriterStep
    BY <1>1, <1>7
    DEF WriterStep, W!Build, W!ReportKey, W!ReadNode, W!LockTree, W!PutKey, W!EraseKey,
        W!SaveFails, W!Restart, WP!Save, mtimes
  <1>8. CASE WriterDies
    BY <1>1, <1>8, Holders DEF WriterDies, W!Crash, W!IdleSave
  <1>9. CASE TimePasses
    BY <1>9, Holders DEF TimePasses, R!Older, writerVars, memory
  <1>10. CASE Start \/ ReaderStep \/ LockStore \/ UnlockStore \/ ReaderDies
    BY <1>10 DEF Start, ReaderStep, LockStore, UnlockStore, ReaderDies,
                 writerVars, memory, mtimes
  <1>11. CASE UNCHANGED pairVars
    BY <1>11 DEF pairVars, writerVars, memory, mtimes
  <1> QED
    BY <1>2, <1>3, <1>4, <1>5, <1>6, <1>7, <1>8, <1>9, <1>10, <1>11 DEF Next

LEMMA PairInit == Init => PairInv
  <1> SUFFICES ASSUME Init PROVE PairInv
    OBVIOUS
  <1>1. WP!Init
    BY SameWriter DEF Init
  <1>2. WP!TypeOK /\ WP!TmpFilled /\ WP!DataIntact
    BY <1>1, WriterConstants, WP!TypeInit, WP!WholeInit DEF WP!TypeInit, WP!WholeInit
  <1>3. WP!Named /\ WP!LockHeld
    BY <1>1 DEF WP!Init, WP!Named, WP!LockHeld, WP!IdleSave
  <1>4. ReaderHolds
    BY Holders DEF Init, W!Init, R!Init, ReaderHolds
  <1>5. MtimesInv
    BY Holders DEF Init, W!Init, W!IdleSave, MtimesInv, Savers
  <1> QED
    BY <1>2, <1>3, <1>4, <1>5 DEF PairInv, WriterInv, WP!WholeInv

LEMMA PairNext == PairInv /\ [Next]_pairVars => PairInv'
  BY ToTheWriter, WriterInvNext, ReaderHoldsNext, MtimesNext DEF PairInv
-----------------------------------------------------------------------------
\* Beside a read node, the write node meets only what WriteNode lets the read
\* node do: take a lock that is free, give back its own.
THEOREM WriterHasItsEnvironment == Spec => WriterAsModelled
  <1>1. Init => PairInv /\ W!Init
    BY PairInit DEF Init
  <1>2. PairInv /\ [Next]_pairVars => PairInv' /\ [W!Next]_(W!vars)
    BY PairNext, ToTheWriter
  <1> QED
    BY <1>1, <1>2, PTL DEF Spec, WriterAsModelled, W!Spec

\* Beside a write node, the read node meets only what ReadNode lets the writer
\* do: files that are whole or lost their last buffer replace older ones, and its
\* lock is not taken from it.
THEOREM ReaderHasItsEnvironment == Spec => ReaderAsModelled
  <1>1. Init => PairInv /\ R!Init
    BY PairInit DEF Init
  <1>2. PairInv /\ [Next]_pairVars => PairInv' /\ [R!Next]_(R!vars)
    BY PairNext, ToTheReader DEF PairInv
  <1> QED
    BY <1>1, <1>2, PTL DEF Spec, ReaderAsModelled, R!Spec

\* The data file stands still while the read node loads it.
THEOREM FileStandsStill == Spec => StableWhileLoading
  <1>1. Init => PairInv
    BY PairInit
  <1>2. PairInv /\ [Next]_pairVars => PairInv'
    BY PairNext
  <1>3. PairInv /\ [Next]_pairVars
            => [rup /\ pc = "load" => file'[Data] = file[Data]]_pairVars
    <2> SUFFICES ASSUME PairInv, [Next]_pairVars, pc = "load", file'[Data] # file[Data]
                 PROVE  FALSE
      OBVIOUS
    <2>1. [WP!Next]_(WP!vars)
      BY ToTheWriter, SameWriter
    <2>2. flock = StoreThread
      BY <2>1, WriterConstants, WP!DataStep DEF WP!DataStep, PairInv, WriterInv, Savers
    <2> QED
      BY <2>2, Holders DEF PairInv, ReaderHolds, Savers
  <1> QED
    BY <1>1, <1>2, <1>3, PTL DEF Spec, StableWhileLoading
-----------------------------------------------------------------------------
(***************************************************************************)
(* What the queries are sent to.                                           *)
(***************************************************************************)
\* The tree that was loaded is published before the flag goes up and until it
\* is down again, the one the queries used before it everywhere but there.
ServesInv ==
    /\ file[Data].exists /\ file[Data].end = "cut" => version \in cuts
    /\ rfails \in Nat
    /\ swapFlag <=> pc \in {"clear", "assign", "lower"}
    /\ pc \in {"unlock", "raise", "clear", "assign", "lower"} => Published(swap)
    /\ rup /\ pc \notin {"clear", "assign"} => Published(my)
    /\ ~rup => pc = "sleep"

\* What was published, cut or given up once stays so.
LEMMA PublishedKept ==
    ASSUME MtimesInv, rfails \in Nat, rfails' \in Nat, rfails' >= rfails,
           version' \in {version, version + 1}, cuts \subseteq cuts', NEW t, Published(t)
    PROVE  Published(t)'
  <1>1. rfails > 0 => rfails' > 0
    OBVIOUS
  <1>2. t.ver \in 1 .. version => t.ver \in 1 .. version'
    BY DEF MtimesInv
  <1> QED
    BY <1>1, <1>2 DEF Published, R!Empty

\* A load leaves a tree that is published, once its failure is counted.
LEMMA LoadsPublished ==
    ASSUME PairInv, ServesInv, NEW result \in R!LoadResults,
           rfails' = rfails + R!Failed(result), UNCHANGED <<version, cuts>>
    PROVE  rfails' \in Nat /\ rfails' >= rfails /\ Published(result.tree)'
  <1>1. End \in {"closed", "cut"} /\ (End = "cut" => version \in cuts) /\ version \in 1 .. version
    BY NeverOpen DEF PairInv, MtimesInv, ServesInv
  <1>2. R!Failed(result) = IF End = "closed" /\ ~result.ok THEN 1 ELSE 0
    BY DEF R!Failed
  <1>3. rfails' \in Nat /\ rfails' >= rfails
    BY <1>2 DEF ServesInv
  <1>4. CASE result = R!LoadFailure
    <2>1. ~result.ok /\ result.tree = R!Empty
      BY <1>4 DEF R!LoadFailure
    <2>2. End = "cut" \/ rfails' > 0
      BY <1>1, <1>2, <2>1 DEF ServesInv
    <2>3. result.tree = R!Empty /\ (cuts' # {} \/ rfails' > 0)
      BY <1>1, <2>1, <2>2
    <2> QED
      BY <1>3, <2>3 DEF Published, R!Empty
  <1>5. CASE End = "cut" /\ result = [ok |-> TRUE, tree |-> [ver |-> version, whole |-> FALSE]]
    BY <1>1, <1>3, <1>5 DEF Published
  <1>6. CASE End = "closed" /\ result = [ok |-> TRUE, tree |-> R!WholeTree(version)]
    BY <1>1, <1>3, <1>6 DEF Published, R!WholeTree
  <1> QED
    BY <1>1, <1>4, <1>5, <1>6 DEF R!LoadResults

LEMMA ServesNext == PairInv /\ ServesInv /\ [Next]_pairVars => ServesInv'
  <1> SUFFICES ASSUME PairInv, ServesInv, [Next]_pairVars PROVE ServesInv'
    OBVIOUS
  <1>0. MtimesInv /\ rfails \in Nat
    BY DEF PairInv, ServesInv
  <1>1. CASE Rename
    <2>1. UNCHANGED readerVars /\ version' = version + 1 /\ cuts \subseteq cuts'
      BY <1>1 DEF Rename
    <2>2. file'[Data].end = "cut" => version' \in cuts'
      BY <1>1 DEF Rename
    <2>3. \A t : Published(t) => Published(t)'
      BY <1>0, <2>1, PublishedKept DEF readerVars
    <2> QED
      BY <2>1, <2>2, <2>3 DEF ServesInv, readerVars
  <1>2. CASE ~Rename /\ UNCHANGED readerVars /\ UNCHANGED <<version, cuts>>
    <2>1. file'[Data] = file[Data]
      BY <1>2, FileStill
    <2>2. \A t : Published(t) => Published(t)'
      BY <1>0, <1>2, PublishedKept DEF readerVars
    <2> QED
      BY <1>2, <2>1, <2>2 DEF ServesInv, readerVars
  <1>3. CASE Start
    <2>1. PICK result \in R!LoadResults :
             my' = result.tree /\ rfails' = rfails + R!Failed(result)
      BY <1>3 DEF Start, R!Start
    <2>2. /\ UNCHANGED <<version, cuts, pc, swap, swapFlag, file>> /\ pc = "sleep"
      BY <1>3 DEF Start, R!Start, mtimes, writerVars, R!trees, ServesInv
    <2>3. rfails' \in Nat /\ Published(my)'
      BY <2>1, <2>2, LoadsPublished
    <2> QED
      BY <2>2, <2>3 DEF ServesInv
  <1>4. CASE ReaderStep
    <2>0. UNCHANGED <<version, cuts, file>>
      BY <1>4 DEF ReaderStep, mtimes, writerVars
    <2>1. CASE R!Stat \/ R!Settle
      BY <2>0, <2>1 DEF R!Stat, R!Settle, R!trees, ServesInv, Published, R!Empty
    <2>2. CASE R!Load
      <3>1. PICK result \in R!LoadResults :
               swap' = result.tree /\ rfails' = rfails + R!Failed(result)
        BY <2>2 DEF R!Load
      <3>2. /\ rup /\ pc = "load" /\ pc' = "unlock" /\ UNCHANGED <<rup, my, swapFlag>>
        BY <2>2 DEF R!Load
      <3>3. rfails' \in Nat /\ rfails' >= rfails /\ Published(swap)'
        BY <2>0, <3>1, LoadsPublished
      <3>4. Published(my)'
        BY <1>0, <2>0, <3>2, <3>3, PublishedKept DEF ServesInv, Published
      <3> QED
        BY <2>0, <3>2, <3>3, <3>4 DEF ServesInv
    <2>3. CASE R!RaiseFlag \/ R!LowerFlag
      BY <2>0, <2>3 DEF R!RaiseFlag, R!LowerFlag, ServesInv, Published, R!Empty
    <2>4. CASE R!ClearTree \/ R!AssignTree
      BY <2>0, <2>4 DEF R!ClearTree, R!AssignTree, ServesInv, Published, R!Empty
    <2>5. CASE R!DropSwap
      BY <2>0, <2>5 DEF R!DropSwap, ServesInv, Published, R!Empty
    <2> QED
      BY <1>4, <2>1, <2>2, <2>3, <2>4, <2>5 DEF ReaderStep
  <1>5. CASE LockStore \/ UnlockStore
    BY <1>5 DEF LockStore, UnlockStore, R!LockStore, R!UnlockStore, R!trees, mtimes,
                ServesInv, Published, R!Empty
  <1>6. CASE ReaderDies
    BY <1>6 DEF ReaderDies, R!Die, mtimes, ServesInv
  <1>7. CASE TimePasses
    BY <1>7 DEF TimePasses, R!Tick, R!trees, writerVars, ServesInv, Published, R!Empty
  <1>8. CASE BeginStore \/ SaveStep \/ CloseTmp \/ CloseCut \/ LockFile \/ WriterStep \/ WriterDies
    <2>1. UNCHANGED readerVars /\ UNCHANGED <<version, cuts>>
      BY <1>8 DEF BeginStore, SaveStep, CloseTmp, CloseCut, LockFile, WriterStep, WriterDies, mtimes
    <2> QED
      BY <1>1, <1>2, <2>1
  <1>9. CASE UNCHANGED pairVars
    BY <1>1, <1>2, <1>9 DEF pairVars, mtimes
  <1> QED
    BY <1>1, <1>3, <1>4, <1>5, <1>6, <1>7, <1>8, <1>9 DEF Next

\* For any number of keys, workers, flushes and deaths: whoever asks the read
\* node beside a write node is sent to all of a file that was published, unless
\* it lost its last buffer or a load failed.
THEOREM PublishedFilesServed == Spec => []ServesWhole
  <1>1. Init => PairInv /\ ServesInv
    <2> SUFFICES ASSUME Init PROVE PairInv /\ ServesInv
      OBVIOUS
    <2>1. file[Data] = W!NoFile /\ ~W!NoFile.exists
      BY DEF Init, W!Init, W!Names, W!NoFile
    <2> QED
      BY <2>1, PairInit DEF Init, R!Init, ServesInv
  <1>2. PairInv /\ [Next]_pairVars => PairInv'
    BY PairNext
  <1>3. ServesInv => ServesWhole
    BY DEF ServesInv, ServesWhole, R!Selected
  <1> QED
    BY <1>1, <1>2, <1>3, ServesNext, PTL DEF Spec
===============================================================================
