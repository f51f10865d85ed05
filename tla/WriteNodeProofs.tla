--------------------------- MODULE WriteNodeProofs ---------------------------
(***************************************************************************)
(* Theorems about WriteNode for every set of keys, workers and hours.      *)
(***************************************************************************)
EXTENDS WriteNode, TLAPS

LEMMA NamesOfTimes == \A t \in Times : HourOf(t) \in Hours /\ HourOf(t) \in Names
  BY DEF Hours, Names

LEMMA FileShapes == NoFile \in File /\ NewFile \in File
  BY DEF NoFile, NewFile, File, Slots

LEMMA TimesAreNat == Times \subseteq Nat /\ StartTime \in Times
  BY ConstantsAssumption DEF Times

LEMMA LoadsTyped ==
    ASSUME NEW f \in File, NEW t \in Loads(f)
    PROVE  t \in [Keys -> Times \cup {Absent}]
  <1>1. CASE Complete(f)
    <2>1. t = f.slot
      BY <1>1 DEF Loads
    <2>2. f.slot \in [Keys -> Slots] /\ \A k \in Keys : f.slot[k] # Hole
      BY <1>1 DEF Complete, File
    <2> QED
      BY <2>1, <2>2 DEF Slots
  <1>2. CASE ~Complete(f)
    <2>1. f.slot \in [Keys -> Slots]
      BY DEF File
    <2> QED
      BY <1>2, <2>1 DEF Loads, EmptyTree, Slots
  <1> QED
    BY <1>1, <1>2
-----------------------------------------------------------------------------
LEMMA IdleTyped == IdleJob \in Job /\ IdleSave \in Save
  BY DEF IdleJob, Job, IdleSave, Save

LEMMA TypeInit == Init => TypeOK
  <1> SUFFICES ASSUME Init PROVE TypeOK
    OBVIOUS
  <1> USE DEF Init
  <1>1. tree \in [Keys -> Times \cup {Absent}] /\ clock \in Times
    BY TimesAreNat DEF EmptyTree
  <1>2. job \in [Workers -> Job] /\ save \in [Savers -> Save]
    BY IdleTyped
  <1>3. file \in [Names -> File]
    BY FileShapes
  <1>4. fails \in 0 .. MaxFails /\ crashes \in 0 .. MaxCrashes
    BY ConstantsAssumption
  <1> QED
    BY <1>1, <1>2, <1>3, <1>4 DEF TypeOK

\* A saver that has a temporary file knows its name.
Named ==
    \A s \in Savers :
        save[s].pc \in {"write", "lock", "rename"} => save[s].name \in Hours

LEMMA NamedNext == TypeOK /\ Named /\ [Next]_vars => Named'
  <1> SUFFICES ASSUME TypeOK, Named, [Next]_vars PROVE Named'
    OBVIOUS
  <1> USE DEF Named
  <1>1. save \in [Savers -> Save]
    BY DEF TypeOK
  <1>2. ASSUME NEW s \in Savers, OpenTmp(s) PROVE Named'
    <2>1. HourOf(clock) \in Hours
      BY NamesOfTimes DEF TypeOK
    <2> QED
      BY <1>1, <1>2, <2>1 DEF OpenTmp
  <1>3. ASSUME NEW s \in Savers, BeginStore(s) \/ LockFile(s) \/ UnlockFile(s) \/ FinishStore(s)
        PROVE  Named'
    BY <1>1, <1>3 DEF BeginStore, LockFile, UnlockFile, FinishStore, Save, IdleSave
  <1>4. ASSUME NEW s \in Savers, CloseTmp(s) \/ CloseCut(s) \/ SaveFails(s) PROVE Named'
    BY <1>1, <1>4 DEF CloseTmp, CloseCut, SaveFails, Save
  <1>5. ASSUME NEW s \in Savers, NEW k \in Keys, WriteSlot(s, k) PROVE Named'
    BY <1>1, <1>5 DEF WriteSlot, Save
  <1>6. ASSUME NEW s \in Savers, Rename(s) PROVE Named'
    <2>1. CASE file[save[s].name].exists
      <3>1. save' = [t \in Savers |->
               [save[t] EXCEPT !.pc = IF t = s THEN "unlock" ELSE @,
                               !.handle = Moved(@, save[s].name)]]
        BY <1>6, <2>1 DEF Rename
      <3>2. \A t \in Savers : /\ save'[t].name = save[t].name
                              /\ save'[t].pc \in {save[t].pc, "unlock"}
        BY <1>1, <3>1 DEF Save
      <3> QED
        BY <3>2
    <2>2. CASE ~file[save[s].name].exists
      BY <1>1, <1>6, <2>2 DEF Rename, Save
    <2> QED
      BY <2>1, <2>2
  <1>7. ASSUME Crash PROVE Named'
    BY <1>7 DEF Crash, IdleSave
  <1>8. CASE UNCHANGED save
    BY <1>8
  <1> QED
    BY <1>2, <1>3, <1>4, <1>5, <1>6, <1>7, <1>8
    DEF Next, Build, SaveStep, ReportKey, ReadNode, LockTree, PutKey, EraseKey,
        ReaderLocks, ReaderUnlocks, Tick, Restart, vars

LEMMA TypeNext == TypeOK /\ Named /\ [Next]_vars => TypeOK'
  <1> SUFFICES ASSUME TypeOK, Named, [Next]_vars PROVE TypeOK'
    OBVIOUS
  <1> USE DEF TypeOK
  <1>1. ASSUME NEW w \in Workers, NEW k \in Keys, ReportKey(w, k) PROVE TypeOK'
    BY <1>1 DEF ReportKey, Job
  <1>2. ASSUME NEW w \in Workers, ReadNode(w) PROVE TypeOK'
    BY <1>2 DEF ReadNode, Job, IdleJob
  <1>3. ASSUME NEW w \in Workers, LockTree(w) PROVE TypeOK'
    BY <1>3 DEF LockTree, Job
  <1>4. ASSUME NEW w \in Workers, PutKey(w) PROVE TypeOK'
    BY <1>4 DEF PutKey, Job, IdleJob
  <1>5. ASSUME NEW s \in Savers, BeginStore(s) PROVE TypeOK'
    BY <1>5, SMTT(30) DEF BeginStore, Save
  <1>6. ASSUME NEW s \in Savers, OpenTmp(s) PROVE TypeOK'
    BY <1>6, NamesOfTimes, FileShapes DEF OpenTmp, Save
  <1>7. ASSUME NEW s \in Savers, NEW k \in Keys, WriteSlot(s, k) PROVE TypeOK'
    <2>1. save' \in [Savers -> Save]
      <3>1. save[s].left \ {k} \in SUBSET Keys /\ save[s] \in Save
        BY DEF Save
      <3> QED
        BY <1>7, <3>1 DEF WriteSlot, Save
    <2>2. file' \in [Names -> File]
      <3>1. ASSUME NEW n \in Names PROVE [file[n] EXCEPT !.slot[k] = tree[k]] \in File
        <4>1. file[n] \in File /\ tree[k] \in Slots
          BY DEF Slots
        <4>2. [file[n].slot EXCEPT ![k] = tree[k]] \in [Keys -> Slots]
          BY <4>1 DEF File
        <4> QED
          BY <4>1, <4>2 DEF File
      <3> QED
        BY <1>7, <3>1 DEF WriteSlot
    <2> QED
      BY <1>7, <2>1, <2>2 DEF WriteSlot
  <1>8. ASSUME NEW s \in Savers, CloseTmp(s) PROVE TypeOK'
    <2>1. save' \in [Savers -> Save]
      <3>1. save[s] \in Save
        OBVIOUS
      <3> QED
        BY <1>8, <3>1 DEF CloseTmp, Save
    <2>2. file' \in [Names -> File]
      <3>1. \A n \in Names : [file[n] EXCEPT !.end = "closed"] \in File
        BY DEF File
      <3> QED
        BY <1>8, <3>1 DEF CloseTmp
    <2> QED
      BY <1>8, <2>1, <2>2 DEF CloseTmp
  <1>9. ASSUME NEW s \in Savers, SaveFails(s) PROVE TypeOK'
    <2>1. save' \in [Savers -> Save]
      <3>1. save[s] \in Save
        OBVIOUS
      <3> QED
        BY <1>9, <3>1 DEF SaveFails, Save
    <2>2. fails' \in 0 .. MaxFails
      BY <1>9, ConstantsAssumption DEF SaveFails
    <2> QED
      BY <1>9, <2>1, <2>2 DEF SaveFails
  <1>10. ASSUME NEW s \in Savers, LockFile(s) PROVE TypeOK'
    BY <1>10 DEF LockFile, Save
  <1>11. ASSUME NEW s \in Savers, Rename(s) PROVE TypeOK'
    <2>1. file' \in [Names -> File]
      <3>1. save[s].name \in Names /\ file[save[s].name] \in File
        BY <1>11 DEF Rename, Named, Names
      <3> QED
        BY <1>11, <3>1, FileShapes DEF Rename
    <2>2. save' \in [Savers -> Save]
      <3>1. \A t \in Savers : Moved(save[t].handle, save[s].name) \in Names \cup {None, Detached}
        BY DEF Moved, Save, Names
      <3>2. \A t \in Savers :
               [save[t] EXCEPT !.pc = IF t = s THEN "unlock" ELSE @,
                               !.handle = Moved(@, save[s].name)] \in Save
        BY <3>1 DEF Save
      <3>3. [save EXCEPT ![s].pc = "unlock"] \in [Savers -> Save]
        BY DEF Save
      <3>4. CASE file[save[s].name].exists
        <4>1. save' = [t \in Savers |->
                 [save[t] EXCEPT !.pc = IF t = s THEN "unlock" ELSE @,
                                 !.handle = Moved(@, save[s].name)]]
          BY <1>11, <3>4 DEF Rename
        <4> QED
          BY <3>2, <4>1
      <3> QED
        BY <1>11, <3>3, <3>4 DEF Rename
    <2> QED
      BY <1>11, <2>1, <2>2 DEF Rename
  <1>12. ASSUME NEW s \in Savers, UnlockFile(s) PROVE TypeOK'
    BY <1>12 DEF UnlockFile, Save
  <1>13. ASSUME NEW s \in Savers, FinishStore(s) PROVE TypeOK'
    BY <1>13 DEF FinishStore, Save, IdleSave
  <1>14. ASSUME NEW k \in Keys, EraseKey(k) PROVE TypeOK'
    BY <1>14 DEF EraseKey
  <1>15. ASSUME ReaderLocks \/ ReaderUnlocks PROVE TypeOK'
    BY <1>15 DEF ReaderLocks, ReaderUnlocks
  <1>16. ASSUME Tick PROVE TypeOK'
    BY <1>16, ConstantsAssumption DEF Tick, Times
  <1>17. ASSUME Crash PROVE TypeOK'
    <2>1. crashes' \in 0 .. MaxCrashes
      BY <1>17, ConstantsAssumption DEF Crash
    <2>2. tree' \in [Keys -> Times \cup {Absent}]
      BY <1>17 DEF Crash, EmptyTree
    <2> QED
      BY <1>17, <2>1, <2>2, IdleTyped DEF Crash
  <1>18. ASSUME Restart PROVE TypeOK'
    <2>1. file[Data] \in File
      BY DEF Names
    <2> QED
      BY <1>18, <2>1, LoadsTyped DEF Restart
  <1>19. ASSUME NEW s \in Savers, CloseCut(s) PROVE TypeOK'
    <2>1. save' \in [Savers -> Save]
      <3>1. save[s] \in Save
        OBVIOUS
      <3> QED
        BY <1>19, <3>1 DEF CloseCut, Save
    <2>2. file' \in [Names -> File]
      <3>1. \A n \in Names : [file[n] EXCEPT !.end = "cut"] \in File
        BY DEF File
      <3> QED
        BY <1>19, <3>1 DEF CloseCut
    <2>3. fails' \in 0 .. MaxFails
      BY <1>19, ConstantsAssumption DEF CloseCut
    <2> QED
      BY <1>19, <2>1, <2>2, <2>3 DEF CloseCut
  <1>20. CASE UNCHANGED vars
    BY <1>20 DEF vars
  <1> QED
    BY <1>1, <1>2, <1>3, <1>4, <1>5, <1>6, <1>7, <1>8, <1>9, <1>10, <1>11, <1>12,
       <1>13, <1>14, <1>15, <1>16, <1>17, <1>18, <1>19, <1>20 DEF Next, Build, SaveStep

\* Every variable keeps its type under any number of savers: whatever two
\* flushes do to each other's temporary file, no hole reaches the tree.
THEOREM TypeCorrect == Spec => []TypeOK
  <1>1. Init => Named
    BY DEF Init, Named, IdleSave
  <1> QED
    BY <1>1, TypeInit, TypeNext, NamedNext, PTL DEF Spec
-----------------------------------------------------------------------------
(***************************************************************************)
(* The data file with the store thread as the only saver.  The image that  *)
(* is about to be renamed must be known to be whole, or to have lost its   *)
(* last buffer, and while it is written the slots that are no longer to be *)
(* written must be filled.                                                 *)
(***************************************************************************)
Finished(f) == f.exists /\ (Complete(f) \/ f.end = "cut")

TmpFilled ==
    LET name == save[StoreThread].name IN
    /\ save[StoreThread].pc = "write" =>
         /\ save[StoreThread].handle = name
         /\ file[name].exists /\ file[name].end = "open"
         /\ \A k \in Keys \ save[StoreThread].left : file[name].slot[k] # Hole
    /\ save[StoreThread].pc \in {"lock", "rename"} => Finished(file[name])

WholeInv == TypeOK /\ Named /\ TmpFilled /\ DataIntact

LEMMA WholeInit == Init => TmpFilled /\ DataIntact
  BY ConstantsAssumption DEF Init, TmpFilled, DataIntact, IdleSave, NoFile, Names

LEMMA WholeNext ==
    ASSUME Savers = {StoreThread}, WholeInv, [Next]_vars
    PROVE  TmpFilled' /\ DataIntact'
  <1> DEFINE st == StoreThread
             name == save[st].name
  <1> USE DEF WholeInv
  <1>1. /\ save \in [Savers -> Save] /\ file \in [Names -> File]
        /\ st \in Savers /\ Data \in Names /\ Data \notin Hours /\ Hours \subseteq Names
    BY ConstantsAssumption DEF TypeOK, Names
  <1>2. CASE OpenTmp(st)
    <2>1. HourOf(clock) \in Hours
      BY NamesOfTimes DEF TypeOK
    <2>2. /\ save'[st] = [pc |-> "write", name |-> HourOf(clock),
                          handle |-> HourOf(clock), left |-> Keys]
          /\ file'[HourOf(clock)] = NewFile /\ file'[Data] = file[Data]
      BY <1>1, <1>2, <2>1 DEF OpenTmp
    <2> QED
      BY <2>2 DEF TmpFilled, DataIntact, NewFile, NoFile, Complete
  <1>3. ASSUME NEW k \in Keys, WriteSlot(st, k) PROVE TmpFilled' /\ DataIntact'
    <2>1. name \in Hours /\ save[st].handle = name /\ file[name].exists
      BY <1>1, <1>3 DEF WriteSlot, Named, TmpFilled
    <2>2. /\ file'[name] = [file[name] EXCEPT !.slot[k] = tree[k]]
          /\ file'[Data] = file[Data]
          /\ save'[st] = [save[st] EXCEPT !.left = @ \ {k}]
      BY <1>1, <1>3, <2>1 DEF WriteSlot
    <2>3. tree[k] # Hole
      BY TimesAreNat DEF TypeOK, Hole, Absent
    <2>4. file[name] \in File /\ save[st] \in Save /\ save[st].pc = "write"
      BY <1>1, <1>3, <2>1 DEF WriteSlot
    <2>5. /\ save'[st].name = name /\ save'[st].handle = name /\ save'[st].pc = "write"
          /\ save'[st].left = save[st].left \ {k}
      BY <2>1, <2>2, <2>4 DEF Save
    <2>6. /\ file'[name].exists /\ file'[name].end = file[name].end
          /\ file'[name].slot = [file[name].slot EXCEPT ![k] = tree[k]]
      BY <2>1, <2>2, <2>4 DEF File
    <2>7. \A j \in Keys \ save'[st].left : file'[name].slot[j] # Hole
      BY <2>3, <2>4, <2>5, <2>6 DEF File, TmpFilled
    <2>8. DataIntact'
      BY <2>2 DEF DataIntact, Complete
    <2>9. TmpFilled'
      BY <1>3, <2>4, <2>5, <2>6, <2>7 DEF TmpFilled
    <2> QED
      BY <2>8, <2>9
  <1>4. CASE CloseTmp(st)
    <2>1. name \in Hours /\ save[st].handle = name /\ file[name].exists
      BY <1>1, <1>4 DEF CloseTmp, Named, TmpFilled
    <2>2. /\ file'[name] = [file[name] EXCEPT !.end = "closed"]
          /\ file'[Data] = file[Data]
          /\ save'[st].name = name /\ save'[st].pc = "lock"
      BY <1>1, <1>4, <2>1 DEF CloseTmp, Save
    <2>3. file[name] \in File /\ \A k \in Keys : file[name].slot[k] # Hole
      BY <1>1, <1>4, <2>1 DEF CloseTmp, TmpFilled
    <2>4. Finished(file'[name])
      BY <2>1, <2>2, <2>3 DEF File, Complete, Finished
    <2> QED
      BY <2>2, <2>4 DEF TmpFilled, DataIntact
  <1>5. CASE SaveFails(st)
    BY <1>1, <1>5 DEF SaveFails, TmpFilled, DataIntact, Save
  <1>6. CASE LockFile(st)
    BY <1>1, <1>6 DEF LockFile, TmpFilled, DataIntact, Save
  <1>7. CASE Rename(st)
    <2>1. name \in Hours /\ Finished(file[name]) /\ file[name].exists
      BY <1>1, <1>7 DEF Rename, Named, TmpFilled, Finished
    <2>2. file'[Data] = file[name]
      BY <1>1, <1>7, <2>1 DEF Rename
    <2>3. save' = [t \in Savers |->
             [save[t] EXCEPT !.pc = IF t = st THEN "unlock" ELSE @,
                             !.handle = Moved(@, name)]]
      BY <1>7, <2>1 DEF Rename
    <2>4. save'[st].pc = "unlock"
      BY <1>1, <2>3 DEF Save
    <2> QED
      BY <2>1, <2>2, <2>4 DEF TmpFilled, DataIntact, Finished
  <1>8. CASE BeginStore(st) \/ UnlockFile(st) \/ FinishStore(st)
    BY <1>1, <1>8 DEF BeginStore, UnlockFile, FinishStore, TmpFilled, DataIntact, Save, IdleSave
  <1>9. CASE Crash
    BY <1>1, <1>9 DEF Crash, TmpFilled, DataIntact, IdleSave
  <1>10. CASE UNCHANGED <<save, file>>
    BY <1>10 DEF TmpFilled, DataIntact
  <1>11. CASE CloseCut(st)
    <2>1. name \in Hours /\ save[st].handle = name /\ file[name].exists /\ file[name].end = "open"
      BY <1>1, <1>11 DEF CloseCut, Named, TmpFilled
    <2>2. /\ file'[name] = [file[name] EXCEPT !.end = "cut"]
          /\ file'[Data] = file[Data]
          /\ save'[st].name = name /\ save'[st].pc = "lock"
      BY <1>1, <1>11, <2>1 DEF CloseCut, Save
    <2>3. file[name] \in File
      BY <1>1, <2>1
    <2>4. Finished(file'[name])
      BY <2>1, <2>2, <2>3 DEF File, Finished
    <2> QED
      BY <2>2, <2>4 DEF TmpFilled, DataIntact
  <1> QED
    BY <1>2, <1>3, <1>4, <1>5, <1>6, <1>7, <1>8, <1>9, <1>10, <1>11
    DEF Next, Build, SaveStep, ReportKey, ReadNode, LockTree, PutKey, EraseKey,
        ReaderLocks, ReaderUnlocks, Tick, Restart, vars

\* With the store thread as the only saver the data file is at any moment a whole
\* one or one that lost its last buffer when it was closed, for any number of
\* keys, workers, crashes and saves that go wrong.
THEOREM DataWholeOrCut ==
    ASSUME Savers = {StoreThread}
    PROVE  Spec => []DataIntact
  <1>1. Init => WholeInv
    BY TypeInit, WholeInit DEF WholeInv, Init, Named, IdleSave
  <1>2. WholeInv /\ [Next]_vars => WholeInv'
    BY TypeNext, NamedNext, WholeNext DEF WholeInv
  <1>3. WholeInv => DataIntact
    BY DEF WholeInv
  <1> QED
    BY <1>1, <1>2, <1>3, PTL DEF Spec
-----------------------------------------------------------------------------
\* A saver between LOCK_EX and LOCK_UN is the holder, whoever else saves.
LockHeld == \A s \in Savers : save[s].pc \in {"rename", "unlock"} => flock = s

LEMMA LockHeldNext == TypeOK /\ LockHeld /\ [Next]_vars => LockHeld'
  <1> SUFFICES ASSUME TypeOK, LockHeld, [Next]_vars PROVE LockHeld'
    OBVIOUS
  <1> USE DEF LockHeld
  <1>1. save \in [Savers -> Save]
    BY DEF TypeOK
  <1>2. ASSUME NEW s \in Savers, BeginStore(s) \/ OpenTmp(s) \/ FinishStore(s) PROVE LockHeld'
    BY <1>1, <1>2 DEF BeginStore, OpenTmp, FinishStore, Save, IdleSave
  <1>3. ASSUME NEW s \in Savers, NEW k \in Keys, WriteSlot(s, k) PROVE LockHeld'
    BY <1>1, <1>3 DEF WriteSlot, Save
  <1>4. ASSUME NEW s \in Savers, CloseTmp(s) \/ CloseCut(s) \/ SaveFails(s) PROVE LockHeld'
    BY <1>1, <1>4 DEF CloseTmp, CloseCut, SaveFails, Save
  <1>5. ASSUME NEW s \in Savers, LockFile(s) PROVE LockHeld'
    <2>1. \A t \in Savers : save[t].pc \notin {"rename", "unlock"}
      BY <1>5, ConstantsAssumption DEF LockFile
    <2> QED
      BY <1>1, <1>5, <2>1 DEF LockFile, Save
  <1>6. ASSUME NEW s \in Savers, Rename(s) PROVE LockHeld'
    <2>1. flock = s /\ flock' = flock /\ save[s].pc = "rename"
      BY <1>6 DEF Rename
    <2>2. \A t \in Savers \ {s} : save'[t].pc = save[t].pc
      <3>1. CASE file[save[s].name].exists
        <4>1. save' = [t \in Savers |->
                 [save[t] EXCEPT !.pc = IF t = s THEN "unlock" ELSE @,
                                 !.handle = Moved(@, save[s].name)]]
          BY <1>6, <3>1 DEF Rename
        <4> QED
          BY <1>1, <4>1 DEF Save
      <3>2. CASE ~file[save[s].name].exists
        BY <1>1, <1>6, <3>2 DEF Rename, Save
      <3> QED
        BY <3>1, <3>2
    <2> QED
      BY <2>1, <2>2
  <1>7. ASSUME NEW s \in Savers, UnlockFile(s) PROVE LockHeld'
    <2>1. \A t \in Savers \ {s} : save[t].pc \notin {"rename", "unlock"}
      BY <1>7 DEF UnlockFile
    <2> QED
      BY <1>1, <1>7, <2>1 DEF UnlockFile, Save
  <1>8. CASE ReaderLocks \/ ReaderUnlocks
    BY <1>8, ConstantsAssumption DEF ReaderLocks, ReaderUnlocks
  <1>9. CASE Crash
    BY <1>9 DEF Crash, IdleSave
  <1>10. CASE UNCHANGED <<save, flock>>
    BY <1>10
  <1> QED
    BY <1>2, <1>3, <1>4, <1>5, <1>6, <1>7, <1>8, <1>9, <1>10
    DEF Next, Build, SaveStep, ReportKey, ReadNode, LockTree, PutKey, EraseKey,
        Tick, Restart, vars

\* The only step that changes the data file is the rename.
LEMMA DataStep ==
    ASSUME Savers = {StoreThread}, WholeInv, LockHeld, [Next]_vars,
           file'[Data] # file[Data]
    PROVE  flock \in Savers /\ Rename(StoreThread)
  <1> DEFINE st == StoreThread
  <1> USE DEF WholeInv
  <1>1. /\ save \in [Savers -> Save] /\ file \in [Names -> File]
        /\ Data \in Names /\ Data \notin Hours /\ clock \in Times
    BY ConstantsAssumption DEF TypeOK, Names
  <1>2. ~OpenTmp(st)
    BY <1>1, NamesOfTimes DEF OpenTmp
  <1>3. save[st].pc = "write" => save[st].handle \in Hours
    BY DEF TmpFilled, Named
  <1>4. ~CloseTmp(st) /\ ~CloseCut(st) /\ \A k \in Keys : ~WriteSlot(st, k)
    BY <1>1, <1>3 DEF CloseTmp, CloseCut, WriteSlot
  <1>5. CASE Rename(st)
    BY <1>5 DEF Rename, LockHeld
  <1> QED
    BY <1>2, <1>4, <1>5
    DEF Next, Build, SaveStep, ReportKey, ReadNode, LockTree, PutKey, EraseKey,
        BeginStore, SaveFails, LockFile, UnlockFile, FinishStore,
        ReaderLocks, ReaderUnlocks, Tick, Crash, Restart, vars

\* With the store thread as the only saver nobody changes the data file
\* without the lock, so a reader that holds it sees the file at rest.
THEOREM DataOnlyUnderLock ==
    ASSUME Savers = {StoreThread}
    PROVE  Spec => DataUnderLock
  <1>1. Init => WholeInv /\ LockHeld
    BY TypeInit, WholeInit DEF WholeInv, Init, Named, LockHeld, IdleSave
  <1>2. WholeInv /\ LockHeld /\ [Next]_vars => WholeInv' /\ LockHeld'
    BY TypeNext, NamedNext, WholeNext, LockHeldNext DEF WholeInv
  <1>3. WholeInv /\ LockHeld /\ [Next]_vars
            => [file'[Data] # file[Data] => flock \in Savers]_vars
    BY DataStep
  <1> QED
    BY <1>1, <1>2, <1>3, PTL DEF Spec, DataUnderLock
=============================================================================
