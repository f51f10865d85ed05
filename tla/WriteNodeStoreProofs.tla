------------------------- MODULE WriteNodeStoreProofs -------------------------
(***************************************************************************)
(* Theorems about what the write node stores, for every set of keys and    *)
(* workers, any number of failing saves and crashes: as a store, where the *)
(* store thread is the only saver as WriteNodeStore assumes, and how old   *)
(* the times are.                                                          *)
(***************************************************************************)
EXTENDS WriteNodeStore, WriteNodeFresh, WriteNodeProofs, FiniteSetTheorems

\* A worker past the test of the flag has a key and a time.
JobGiven ==
    \A w \in Workers : job[w].pc # "idle" => job[w].key \in Keys /\ job[w].time \in Times

\* A slot still to be written is a hole, and there is no data file that is
\* neither written nor absent.
HolesLeft ==
    /\ save[StoreThread].pc = "write" =>
         \A k \in save[StoreThread].left : file[save[StoreThread].name].slot[k] = Hole
    /\ ~file[Data].exists => file[Data] = NoFile

\* A process that is not up has no flush under way.
DeadIdle == ~up => save[StoreThread].pc = "idle"

StoreInv == WholeInv /\ JobGiven /\ HolesLeft /\ DeadIdle

LEMMA DeadIdleNext == TypeOK /\ DeadIdle /\ [Next]_vars => DeadIdle'
  <1> SUFFICES ASSUME TypeOK, DeadIdle, [Next]_vars PROVE DeadIdle'
    OBVIOUS
  <1> USE DEF DeadIdle
  <1>1. CASE Crash
    BY <1>1, ConstantsAssumption DEF Crash, IdleSave
  <1>2. CASE Restart
    BY <1>2 DEF Restart
  <1>3. CASE up' = up /\ (up \/ save' = save)
    BY <1>3
  <1> QED
    BY <1>1, <1>2, <1>3
    DEF Next, Build, SaveStep, ReportKey, ReadNode, LockTree, PutKey, EraseKey, BeginStore,
        OpenTmp, WriteSlot, CloseTmp, CloseCut, SaveFails, LockFile, Rename, UnlockFile, FinishStore,
        ReaderLocks, ReaderUnlocks, Tick, vars

LEMMA JobGivenNext == TypeOK /\ JobGiven /\ [Next]_vars => JobGiven'
  <1> SUFFICES ASSUME TypeOK, JobGiven, [Next]_vars PROVE JobGiven'
    OBVIOUS
  <1> USE DEF JobGiven
  <1>1. job \in [Workers -> Job] /\ clock \in Times
    BY DEF TypeOK
  <1>2. ASSUME NEW w \in Workers, Build(w) PROVE JobGiven'
    BY <1>1, <1>2 DEF Build, ReportKey, ReadNode, LockTree, PutKey, Job, IdleJob
  <1>3. CASE Crash
    BY <1>3 DEF Crash, IdleJob
  <1>4. CASE UNCHANGED job
    BY <1>4
  <1> QED
    BY <1>2, <1>3, <1>4
    DEF Next, SaveStep, EraseKey, BeginStore, OpenTmp, WriteSlot, CloseTmp, CloseCut, SaveFails,
        LockFile, Rename, UnlockFile, FinishStore, ReaderLocks, ReaderUnlocks, Tick,
        Restart, vars

(***************************************************************************)
(* What the steps of the store thread do to its file and the data file.    *)
(***************************************************************************)
LEMMA StoreFacts ==
    ASSUME StoreInv
    PROVE  /\ save \in [Savers -> Save] /\ file \in [Names -> File]
           /\ tree \in [Keys -> Times \cup {Absent}]
           /\ StoreThread \in Savers /\ Data \in Names /\ Data \notin Hours
           /\ Hours \subseteq Names /\ clock \in Times
           /\ save[StoreThread].pc \in {"write", "lock", "rename"} =>
                 save[StoreThread].name \in Hours /\ file[save[StoreThread].name].exists
           /\ save[StoreThread].pc = "write" =>
                 save[StoreThread].handle = save[StoreThread].name
  BY ConstantsAssumption
  DEF StoreInv, WholeInv, TypeOK, Names, Named, TmpFilled, Finished

LEMMA OpenTmpDoes ==
    ASSUME StoreInv, OpenTmp(StoreThread)
    PROVE  /\ save[StoreThread].pc = "open" /\ save'[StoreThread].pc = "write"
           /\ save'[StoreThread].left = Keys /\ save'[StoreThread].name = HourOf(clock)
           /\ file'[HourOf(clock)] = NewFile /\ file'[Data] = file[Data]
           /\ HourOf(clock) \in Hours
  BY StoreFacts, NamesOfTimes DEF OpenTmp

LEMMA WriteSlotDoes ==
    ASSUME StoreInv, NEW k \in Keys, WriteSlot(StoreThread, k)
    PROVE  LET name == save[StoreThread].name IN
           /\ save[StoreThread].pc = "write" /\ save'[StoreThread].pc = "write"
           /\ k \in save[StoreThread].left
           /\ save'[StoreThread].left = save[StoreThread].left \ {k}
           /\ save'[StoreThread].name = name
           /\ file'[Data] = file[Data] /\ name \in Names
           /\ file[name].slot \in [Keys -> Slots]
           /\ file'[name].slot = [file[name].slot EXCEPT ![k] = tree[k]]
  <1> DEFINE name == save[StoreThread].name
  <1>1. save[StoreThread].pc = "write" /\ k \in save[StoreThread].left
    BY DEF WriteSlot
  <1>2. name \in Hours /\ name \in Names /\ save[StoreThread].handle = name
    BY <1>1, StoreFacts
  <1>3. save'[StoreThread] = [save[StoreThread] EXCEPT !.left = @ \ {k}]
    BY StoreFacts DEF WriteSlot
  <1>4. file'[Data] = file[Data] /\ file'[name] = [file[name] EXCEPT !.slot[k] = tree[k]]
    BY <1>2, StoreFacts DEF WriteSlot
  <1>5. file[name] \in File /\ save[StoreThread] \in Save
    BY <1>2, StoreFacts
  <1>6. file'[name].slot = [file[name].slot EXCEPT ![k] = tree[k]]
    BY <1>4, <1>5 DEF File
  <1> QED
    BY <1>1, <1>2, <1>3, <1>4, <1>5, <1>6 DEF Save, File

\* The file is closed, whole or without its last buffer.
Closes(s) == CloseTmp(s) \/ CloseCut(s)

LEMMA ClosesDoes ==
    ASSUME StoreInv, Closes(StoreThread)
    PROVE  LET name == save[StoreThread].name IN
           /\ save[StoreThread].pc = "write" /\ save'[StoreThread].pc = "lock"
           /\ save'[StoreThread].name = name /\ file'[Data] = file[Data]
           /\ file'[name].slot = file[name].slot
  <1> DEFINE name == save[StoreThread].name
  <1>1. name \in Hours /\ name \in Names /\ save[StoreThread].handle = name
    BY StoreFacts DEF Closes, CloseTmp, CloseCut
  <1>2. /\ file'[Data] = file[Data]
        /\ \/ file'[name] = [file[name] EXCEPT !.end = "closed"]
           \/ file'[name] = [file[name] EXCEPT !.end = "cut"]
           \/ file'[name] = file[name]
    BY <1>1, StoreFacts DEF Closes, CloseTmp, CloseCut
  <1>3. file[name] \in File
    BY <1>1, StoreFacts
  <1>4. file'[name].slot = file[name].slot
    BY <1>2, <1>3 DEF File
  <1> QED
    BY <1>2, <1>4, StoreFacts DEF Closes, CloseTmp, CloseCut, Save

LEMMA RenameDoes ==
    ASSUME StoreInv, Rename(StoreThread)
    PROVE  LET name == save[StoreThread].name IN
           /\ save[StoreThread].pc = "rename" /\ save'[StoreThread].pc = "unlock"
           /\ Finished(file[name]) /\ file[name].exists /\ file'[Data] = file[name]
           /\ up /\ up' = up /\ tree' = tree
  <1> DEFINE name == save[StoreThread].name
  <1>1. save[StoreThread].pc = "rename" /\ name \in Hours /\ Finished(file[name])
        /\ file[name].exists
    BY StoreFacts DEF Rename, StoreInv, WholeInv, TmpFilled
  <1>2. save' = [t \in Savers |->
           [save[t] EXCEPT !.pc = IF t = StoreThread THEN "unlock" ELSE @,
                           !.handle = Moved(@, name)]]
    BY <1>1 DEF Rename
  <1>3. save'[StoreThread].pc = "unlock"
    BY <1>2, StoreFacts DEF Save
  <1>4. file'[Data] = file[name]
    BY <1>1, StoreFacts DEF Rename
  <1> QED
    BY <1>1, <1>3, <1>4 DEF Rename

\* The steps of the store thread that leave all files alone.
LEMMA QuietDoes ==
    ASSUME StoreInv,
           BeginStore(StoreThread) \/ SaveFails(StoreThread) \/ LockFile(StoreThread)
             \/ UnlockFile(StoreThread) \/ FinishStore(StoreThread)
    PROVE  /\ UNCHANGED <<up, tree, file>>
           /\ save'[StoreThread].name = save[StoreThread].name \/ FinishStore(StoreThread)
           /\ <<save[StoreThread].pc, save'[StoreThread].pc>> \in
                {<<"idle", "open">>, <<"write", "finish">>, <<"lock", "rename">>,
                 <<"unlock", "finish">>, <<"finish", "idle">>}
  BY StoreFacts DEF BeginStore, SaveFails, LockFile, UnlockFile, FinishStore, Save, IdleSave

\* What a step may be, with one saver.
LEMMA StepIs ==
    ASSUME Savers = {StoreThread}, [Next]_vars
    PROVE  \/ OpenTmp(StoreThread) \/ (\E k \in Keys : WriteSlot(StoreThread, k))
           \/ Closes(StoreThread) \/ Rename(StoreThread)
           \/ BeginStore(StoreThread) \/ SaveFails(StoreThread) \/ LockFile(StoreThread)
           \/ UnlockFile(StoreThread) \/ FinishStore(StoreThread)
           \/ (\E w \in Workers : PutKey(w)) \/ (\E k \in Keys : EraseKey(k))
           \/ Crash \/ Restart
           \/ UNCHANGED <<up, tree, save, file>>
  BY DEF Next, Build, SaveStep, Closes, ReportKey, ReadNode, LockTree, ReaderLocks,
         ReaderUnlocks, Tick, vars

LEMMA StoreInvNext ==
    ASSUME Savers = {StoreThread}, StoreInv, [Next]_vars
    PROVE  StoreInv'
  <1>1. WholeInv'
    BY TypeNext, NamedNext, WholeNext DEF StoreInv, WholeInv
  <1>2. JobGiven'
    BY JobGivenNext DEF StoreInv, WholeInv
  <1>3. HolesLeft'
    <2> USE DEF HolesLeft
    <2>1. HolesLeft
      BY DEF StoreInv
    <2>2. CASE OpenTmp(StoreThread)
      BY <2>1, <2>2, OpenTmpDoes DEF NewFile, NoFile
    <2>3. ASSUME NEW k \in Keys, WriteSlot(StoreThread, k) PROVE HolesLeft'
      <3>1. \A j \in save'[StoreThread].left :
               j \in save[StoreThread].left /\ j # k /\ j \in Keys
        BY <2>3, WriteSlotDoes, StoreFacts DEF Save
      <3> QED
        BY <2>1, <2>3, <3>1, WriteSlotDoes
    <2>4. CASE Closes(StoreThread)
      BY <2>1, <2>4, ClosesDoes
    <2>5. CASE Rename(StoreThread)
      BY <2>1, <2>5, RenameDoes
    <2>6. CASE BeginStore(StoreThread) \/ SaveFails(StoreThread) \/ LockFile(StoreThread)
                 \/ UnlockFile(StoreThread) \/ FinishStore(StoreThread)
      BY <2>1, <2>6, QuietDoes
    <2>7. CASE Crash
      BY <2>1, <2>7, StoreFacts DEF Crash, IdleSave
    <2>8. CASE UNCHANGED <<save, file>>
      BY <2>1, <2>8
    <2> QED
      BY <2>2, <2>3, <2>4, <2>5, <2>6, <2>7, <2>8, StepIs DEF PutKey, EraseKey, Restart
  <1>4. DeadIdle'
    BY DeadIdleNext DEF StoreInv, WholeInv
  <1> QED
    BY <1>1, <1>2, <1>3, <1>4 DEF StoreInv

LEMMA StoreInvInit == Init => StoreInv
  <1> SUFFICES ASSUME Init PROVE StoreInv
    OBVIOUS
  <1>1. WholeInv
    BY TypeInit, WholeInit DEF WholeInv, Init, Named, IdleSave
  <1>2. JobGiven /\ HolesLeft /\ DeadIdle
    BY ConstantsAssumption DEF Init, JobGiven, HolesLeft, DeadIdle, IdleJob, IdleSave, Names
  <1> QED
    BY <1>1, <1>2 DEF StoreInv
-----------------------------------------------------------------------------
(***************************************************************************)
(* The refinement.  disk is the image under the data file's name, cut says *)
(* that it lost its last buffer, scan is the temporary file of the flush   *)
(* under way; a rename publishes, a failing save abandons, and opening,    *)
(* closing, locking are stutters.                                          *)
(***************************************************************************)
disk == IF file[Data].exists THEN file[Data].slot ELSE EmptyTree
NothingScanned == [k \in Keys |-> Hole]

cut == file[Data].end = "cut"

LEMMA RestartLoadsDisk ==
    ASSUME StoreInv, Restart
    PROVE  /\ ~up /\ up' = TRUE /\ UNCHANGED <<save, file>>
           /\ IF cut THEN tree' \in {EmptyTree, [k \in Keys |-> IF disk[k] = Hole THEN Absent
                                                               ELSE disk[k]]}
                     ELSE tree' = disk
  <1>1. tree' \in Loads(file[Data])
    BY DEF Restart
  <1>2. CASE file[Data].exists
    <2>1. CASE cut
      BY <1>1, <1>2, <2>1 DEF Restart, Loads, Complete, disk, cut
    <2>2. CASE ~cut
      BY <1>1, <1>2, <2>2 DEF Restart, Loads, disk, cut, StoreInv, WholeInv, DataIntact
    <2> QED
      BY <2>1, <2>2 DEF Restart
  <1>3. CASE ~file[Data].exists
    <2>1. file[Data] = NoFile /\ ~cut
      BY <1>3 DEF StoreInv, HolesLeft, NoFile, cut
    <2>2. tree' = EmptyTree
      BY <1>1, <1>3, <2>1 DEF Loads, Complete, NoFile, EmptyTree
    <2> QED
      BY <1>3, <2>1, <2>2 DEF Restart, disk
  <1> QED
    BY <1>2, <1>3

\* A flush that is not under way has scanned nothing.
LEMMA NoScanUnder ==
    save[StoreThread].pc \notin {"write", "lock", "rename"} => Scanned = NothingScanned
  BY DEF Scanned, NothingScanned

LEMMA StepImplements ==
    ASSUME Savers = {StoreThread}, StoreInv, StoreInv', [Next]_vars
    PROVE  [Abstract!Next]_(Abstract!storeVars)
  <1> DEFINE st == StoreThread
             name == save[StoreThread].name
  <1> USE DEF Abstract!Next, Abstract!storeVars, disk, cut
  <1>1. CASE OpenTmp(st)
    <2>1. Scanned' = NothingScanned
      BY <1>1, OpenTmpDoes DEF Scanned, NothingScanned, NewFile, NoFile
    <2>2. Scanned = NothingScanned
      BY <1>1, OpenTmpDoes, NoScanUnder
    <2> QED
      BY <1>1, <2>1, <2>2, OpenTmpDoes DEF OpenTmp
  <1>2. ASSUME NEW k \in Keys, WriteSlot(st, k) PROVE Abstract!Copy(k)
    <2>1. Scanned = file[name].slot /\ Scanned' = file'[name].slot
      BY <1>2, WriteSlotDoes DEF Scanned
    <2>2. Scanned[k] = Hole
      BY <1>2, <2>1, WriteSlotDoes DEF StoreInv, HolesLeft
    <2>3. Scanned' = [Scanned EXCEPT ![k] = tree[k]]
      BY <1>2, <2>1, WriteSlotDoes
    <2>4. disk' = disk /\ cut' = cut
      BY <1>2, WriteSlotDoes
    <2>5. up /\ UNCHANGED <<up, tree>>
      BY <1>2 DEF WriteSlot
    <2> QED
      BY <2>2, <2>3, <2>4, <2>5 DEF Abstract!Copy
  <1>3. CASE Closes(st)
    <2>1. Scanned' = Scanned
      BY <1>3, ClosesDoes DEF Scanned
    <2> QED
      BY <1>3, <2>1, ClosesDoes DEF Closes, CloseTmp, CloseCut
  <1>4. CASE Rename(st)
    <2>1. /\ Scanned = file[name].slot
          /\ ~cut' => \A k \in Keys : Scanned[k] # Hole
      BY <1>4, RenameDoes DEF Scanned, Finished, Complete
    <2>2. Scanned' = NothingScanned
      BY <1>4, RenameDoes DEF Scanned, NothingScanned
    <2>3. disk' = Scanned
      BY <1>4, <2>1, RenameDoes
    <2> QED
      BY <1>4, <2>1, <2>2, <2>3, RenameDoes
      DEF Abstract!Publish, Abstract!NoScan, NothingScanned
  <1>5. CASE SaveFails(st)
    <2>1. Scanned' = NothingScanned
      BY <1>5, StoreFacts DEF SaveFails, Scanned, NothingScanned, Save
    <2> QED
      BY <1>5, <2>1 DEF SaveFails, Abstract!Abandon, Abstract!NoScan, NothingScanned
  <1>6. CASE BeginStore(st) \/ LockFile(st) \/ UnlockFile(st) \/ FinishStore(st)
    <2>1. UNCHANGED <<up, tree, file>>
      BY <1>6 DEF BeginStore, LockFile, UnlockFile, FinishStore
    <2>2. \/ /\ save[st].pc = "lock" /\ save'[st].pc = "rename"
             /\ save'[st].name = save[st].name
          \/ /\ save[st].pc \in {"idle", "unlock", "finish"}
             /\ save'[st].pc \in {"idle", "open", "finish"}
      BY <1>6, StoreFacts DEF BeginStore, LockFile, UnlockFile, FinishStore, Save, IdleSave
    <2>3. Scanned' = Scanned
      BY <2>1, <2>2 DEF Scanned
    <2> QED
      BY <2>1, <2>3
  <1>7. ASSUME NEW w \in Workers, PutKey(w) PROVE \E k \in Keys : Abstract!Change(k)
    <2>1. job[w].key \in Keys /\ job[w].time \in Times \cup {Absent}
      BY <1>7 DEF PutKey, StoreInv, JobGiven
    <2>2. Scanned' = Scanned
      BY <1>7 DEF PutKey, Scanned
    <2> QED
      BY <1>7, <2>1, <2>2 DEF PutKey, Abstract!Change
  <1>8. ASSUME NEW k \in Keys, EraseKey(k) PROVE Abstract!Change(k)
    <2>1. Scanned' = Scanned
      BY <1>8 DEF EraseKey, Scanned
    <2> QED
      BY <1>8, <2>1 DEF EraseKey, Abstract!Change
  <1>9. CASE Crash
    <2>1. Scanned' = NothingScanned
      BY <1>9, StoreFacts DEF Crash, IdleSave, Scanned, NothingScanned
    <2> QED
      BY <1>9, <2>1
      DEF Crash, Abstract!Die, Abstract!NoScan, Abstract!Empty, NothingScanned, EmptyTree
  <1>10. CASE Restart
    <2>1. Scanned' = Scanned
      BY <1>10, RestartLoadsDisk DEF Scanned
    <2> QED
      BY <1>10, <2>1, RestartLoadsDisk DEF Abstract!Recover, Abstract!Empty, EmptyTree
  <1>11. CASE UNCHANGED <<up, tree, save, file>>
    BY <1>11 DEF Scanned
  <1> QED
    BY <1>1, <1>2, <1>3, <1>4, <1>5, <1>6, <1>7, <1>8, <1>9, <1>10, <1>11, StepIs

\* With the store thread as the only saver the node is a table with a fuzzy
\* snapshot on disk that each flush replaces at once, lacking keys only when its
\* last buffer was lost, across late reports, erasures, failing saves, deaths and
\* restarts.
THEOREM NodeIsStore ==
    ASSUME Savers = {StoreThread}
    PROVE  Spec => ImplementsStore
  <1>1. Init => Abstract!Init
    BY ConstantsAssumption
    DEF Init, Abstract!Init, Abstract!Empty, Abstract!NoScan, EmptyTree, Scanned, IdleSave,
        NoFile, Names
  <1>2. StoreInv /\ [Next]_vars => StoreInv'
    BY StoreInvNext
  <1>3. StoreInv /\ StoreInv' /\ [Next]_vars => [Abstract!Next]_(Abstract!storeVars)
    BY StepImplements
  <1> QED
    BY <1>1, <1>2, <1>3, StoreInvInit, PTL DEF Spec, ImplementsStore, Abstract!Spec
-----------------------------------------------------------------------------
(***************************************************************************)
(* No key leaves the data file by itself.  A key of the data file or of    *)
(* the temporary file is in memory or known to be gone, and the slots      *)
(* written so far keep every key of the data file that is not gone.        *)
(***************************************************************************)
Remembered ==
    LET pc == save[StoreThread].pc
        slot == file[save[StoreThread].name].slot
    IN  /\ up => \A k \in Keys : Has(file[Data], k) /\ k \notin gone => tree[k] # Absent
        /\ pc \in {"write", "lock", "rename"} => \A k \in Keys \ gone :
             /\ slot[k] \notin {Hole, Absent} => tree[k] # Absent
             /\ slot[k] = Absent => ~Has(file[Data], k)

\* In every step but a publication what is gone stays noted, and what is erased
\* in the step is noted.
LEMMA GoneGrows ==
    ASSUME Watched, up = TRUE, up' = TRUE, ~Published
    PROVE  /\ \A k \in Keys : k \in gone => k \in gone'
           /\ \A k \in Keys : tree[k] # Absent /\ tree'[k] = Absent => k \in gone'
  BY DEF Watched

LEMMA NotPublished ==
    ASSUME StoreInv, OpenTmp(StoreThread) \/ (\E k \in Keys : WriteSlot(StoreThread, k))
             \/ Closes(StoreThread) \/ BeginStore(StoreThread) \/ SaveFails(StoreThread)
             \/ LockFile(StoreThread) \/ UnlockFile(StoreThread) \/ FinishStore(StoreThread)
             \/ UNCHANGED save
    PROVE  ~Published
  BY OpenTmpDoes, WriteSlotDoes, ClosesDoes, QuietDoes DEF Published

\* Where neither the files nor the place of the saver change, changes of the
\* tree are all noted.
LEMMA RememberedKept ==
    ASSUME Remembered, Watched, up = TRUE, up' = TRUE, ~Published, UNCHANGED file,
           \/ save'[StoreThread].pc \notin {"write", "lock", "rename"}
           \/ /\ save[StoreThread].pc \in {"write", "lock", "rename"}
              /\ save'[StoreThread].name = save[StoreThread].name
    PROVE  Remembered'
  BY GoneGrows DEF Remembered

LEMMA RememberedNext ==
    ASSUME Savers = {StoreThread}, StoreInv, StoreInv', Remembered, Next, Watched
    PROVE  Remembered'
  <1> DEFINE st == StoreThread
             name == save[StoreThread].name
  <1>1. CASE OpenTmp(st)
    <2>1. up = TRUE /\ up' = TRUE /\ tree' = tree
      BY <1>1 DEF OpenTmp, StoreInv, WholeInv, TypeOK
    <2>2. ~Published
      BY <1>1, NotPublished
    <2>3. \A k \in Keys : file'[save'[st].name].slot[k] = Hole
      BY <1>1, OpenTmpDoes DEF NewFile, NoFile
    <2> QED
      BY <1>1, <2>1, <2>2, <2>3, OpenTmpDoes, GoneGrows DEF Remembered, Hole, Absent
  <1>2. ASSUME NEW k \in Keys, WriteSlot(st, k) PROVE Remembered'
    <2>1. up = TRUE /\ up' = TRUE /\ tree' = tree
      BY <1>2 DEF WriteSlot, StoreInv, WholeInv, TypeOK
    <2>2. ~Published
      BY <1>2, NotPublished
    <2>3. save'[st].name = name /\ save[st].pc = "write" /\ file'[Data] = file[Data]
      BY <1>2, WriteSlotDoes
    <2>4. \A j \in Keys : file'[name].slot[j] = IF j = k THEN tree[k] ELSE file[name].slot[j]
      BY <1>2, WriteSlotDoes
    <2> QED
      BY <2>1, <2>2, <2>3, <2>4, GoneGrows DEF Remembered
  <1>3. CASE Closes(st)
    <2>1. up = TRUE /\ up' = TRUE /\ tree' = tree
      BY <1>3 DEF Closes, CloseTmp, CloseCut, StoreInv, WholeInv, TypeOK
    <2>2. ~Published
      BY <1>3, NotPublished
    <2> QED
      BY <1>3, <2>1, <2>2, ClosesDoes, GoneGrows DEF Remembered
  <1>4. CASE Rename(st)
    <2>1. Published /\ file'[Data] = file[name] /\ tree' = tree /\ up = TRUE /\ up' = TRUE
      BY <1>4, RenameDoes DEF Published, StoreInv, WholeInv, TypeOK
    <2>2. ASSUME NEW k \in Keys, Has(file'[Data], k), k \notin gone' PROVE tree[k] # Absent
      <3>1. CASE k \in gone
        BY <2>1, <2>2, <3>1 DEF Watched
      <3>2. CASE k \notin gone
        BY <1>4, <2>1, <2>2, <3>2, RenameDoes DEF Remembered, Has
      <3> QED
        BY <3>1, <3>2
    <2> QED
      BY <1>4, <2>1, <2>2, RenameDoes DEF Remembered
  <1>5. CASE BeginStore(st) \/ SaveFails(st) \/ LockFile(st) \/ UnlockFile(st) \/ FinishStore(st)
    <2>1. up = TRUE /\ up' = TRUE
      BY <1>5, QuietDoes
      DEF BeginStore, SaveFails, LockFile, UnlockFile, FinishStore, StoreInv, WholeInv, TypeOK
    <2>2. ~Published
      BY <1>5, NotPublished
    <2> QED
      BY <1>5, <2>1, <2>2, QuietDoes, RememberedKept DEF FinishStore
  <1>6. CASE (\E w \in Workers : PutKey(w)) \/ (\E k \in Keys : EraseKey(k))
    <2>1. up = TRUE /\ up' = TRUE /\ UNCHANGED <<save, file>>
      BY <1>6 DEF PutKey, EraseKey, StoreInv, WholeInv, TypeOK
    <2> QED
      BY <2>1, NotPublished, RememberedKept
  <1>7. CASE Crash
    BY <1>7, StoreFacts DEF Crash, IdleSave, Remembered
  <1>8. CASE Restart
    <2>1. /\ ~up /\ up' = TRUE /\ UNCHANGED <<save, file>>
          /\ Complete(file[Data]) => tree' = file[Data].slot
      BY <1>8 DEF Restart, Loads
    <2>2. save[st].pc \notin {"write", "lock", "rename"}
      BY <1>8 DEF Restart, StoreInv, DeadIdle
    <2>3. gone' = Unread
      BY <2>1 DEF Watched
    <2>4. ASSUME NEW k \in Keys, Has(file[Data], k), k \notin gone' PROVE tree'[k] # Absent
      BY <2>1, <2>3, <2>4 DEF Unread, Has
    <2> QED
      BY <2>1, <2>2, <2>4 DEF Remembered
  <1>9. CASE UNCHANGED <<up, tree, save, file>>
    <2>1. CASE up = TRUE
      BY <1>9, <2>1, NotPublished, RememberedKept
    <2>2. CASE up # TRUE
      BY <1>9, <2>2 DEF Remembered, StoreInv, DeadIdle
    <2> QED
      BY <2>1, <2>2
  <1> QED
    BY <1>1, <1>2, <1>3, <1>4, <1>5, <1>6, <1>7, <1>8, <1>9, StepIs
-----------------------------------------------------------------------------
\* In the data file a key stays until a client erases it or a load of a cut file
\* has missed it, and a save that lost its last buffer takes away only what is
\* still in memory: no crash, failing save, restart or late report does more.
THEOREM NothingLost ==
    ASSUME Savers = {StoreThread}
    PROVE  WatchedSpec => NoSilentLoss
  <1> DEFINE Inv == StoreInv /\ Remembered
             Kept == \A k \in Keys :
                        Has(file[Data], k) /\ ~Has(file'[Data], k)
                            => \/ k \in gone
                               \/ file'[Data].end = "cut" /\ tree'[k] # Absent
  <1>1. Init /\ gone = {} /\ flagged = EmptyTree => Inv
    BY StoreInvInit, ConstantsAssumption DEF Init, Remembered, IdleSave, NoFile, Has, Names
  <1>2. Inv /\ [Next /\ Watched]_storeVars => Inv'
    <2> SUFFICES ASSUME Inv, [Next /\ Watched]_storeVars PROVE Inv'
      OBVIOUS
    <2>1. [Next]_vars
      BY DEF storeVars
    <2>2. StoreInv'
      BY <2>1, StoreInvNext
    <2>3. CASE UNCHANGED storeVars
      BY <2>2, <2>3 DEF storeVars, vars, Remembered
    <2> QED
      BY <2>2, <2>3, RememberedNext
  <1>3. Inv /\ [Next /\ Watched]_storeVars => [Kept]_storeVars
    <2> SUFFICES ASSUME Inv, Next, NEW k \in Keys,
                        Has(file[Data], k), ~Has(file'[Data], k)
                 PROVE  \/ k \in gone
                        \/ file'[Data].end = "cut" /\ tree'[k] # Absent
      BY DEF storeVars
    <2>1. CASE Rename(StoreThread)
      BY <2>1, RenameDoes DEF Remembered, Has, Finished, Complete
    <2>2. CASE ~Rename(StoreThread)
      <3>1. file'[Data] = file[Data]
        BY <2>2, StepIs, OpenTmpDoes, WriteSlotDoes, ClosesDoes, QuietDoes
        DEF PutKey, EraseKey, Crash, Restart
      <3> QED
        BY <3>1
    <2> QED
      BY <2>1, <2>2
  <1> QED
    BY <1>1, <1>2, <1>3, PTL DEF WatchedSpec, WatchedInit, NoSilentLoss
-----------------------------------------------------------------------------
(***************************************************************************)
(* How far a flush is from the tree at the flag.  A key drifts by a put,   *)
(* a put ends a call of buildTree, and no call begins while the flag is    *)
(* up: the keys that drifted and the calls still open never outnumber the  *)
(* workers.                                                                *)
(***************************************************************************)
Busy == {w \in Workers : job[w].pc # "idle"}

Drift ==
    {k \in Keys :
        \/ tree[k] \notin {flagged[k], Absent}
        \/ /\ save[StoreThread].pc \in {"write", "lock", "rename"}
           /\ file[save[StoreThread].name].slot[k] \notin {flagged[k], Absent, Hole}}

FewDrift ==
    /\ storeFlag <=> save[StoreThread].pc # "idle"
    /\ storeFlag => /\ IsFiniteSet(Drift)
                    /\ Cardinality(Drift) + Cardinality(Busy) <= Cardinality(Workers)

LEMMA FewerDrift ==
    ASSUME NEW D, NEW E, NEW B, NEW C, NEW W, IsFiniteSet(W), C \subseteq W,
           IsFiniteSet(E), D \subseteq E, B \subseteq C,
           Cardinality(E) + Cardinality(C) <= Cardinality(W)
    PROVE  IsFiniteSet(D) /\ Cardinality(D) + Cardinality(B) <= Cardinality(W)
  <1>1. IsFiniteSet(C) /\ IsFiniteSet(B) /\ IsFiniteSet(D)
    BY FS_Subset
  <1>2. Cardinality(D) <= Cardinality(E) /\ Cardinality(B) <= Cardinality(C)
    BY <1>1, FS_Subset
  <1>3. /\ Cardinality(D) \in Nat /\ Cardinality(E) \in Nat /\ Cardinality(B) \in Nat
        /\ Cardinality(C) \in Nat /\ Cardinality(W) \in Nat
    BY <1>1, FS_CardinalityType
  <1> QED
    BY <1>1, <1>2, <1>3

\* A step that adds nothing to what drifted, nor to the open calls.
LEMMA FewDriftKept ==
    ASSUME IsFiniteSet(Workers), FewDrift, storeFlag' = storeFlag,
           storeFlag => save'[StoreThread].pc # "idle",
           ~storeFlag => save'[StoreThread].pc = "idle",
           storeFlag => Drift' \subseteq Drift /\ Busy' \subseteq Busy
    PROVE  FewDrift'
  <1>1. CASE ~storeFlag
    BY <1>1 DEF FewDrift
  <1>2. CASE storeFlag
    <2>1. Busy \subseteq Workers
      BY DEF Busy
    <2>2. IsFiniteSet(Drift') /\ Cardinality(Drift') + Cardinality(Busy') <= Cardinality(Workers)
      BY <1>2, <2>1, FewerDrift DEF FewDrift
    <2> QED
      BY <1>2, <2>2 DEF FewDrift
  <1> QED
    BY <1>1, <1>2

\* One key drifts, and the call that put it is over.
LEMMA PutKeyDrifts ==
    ASSUME IsFiniteSet(Workers), StoreInv, FewDrift, NEW w \in Workers, PutKey(w),
           flagged' = flagged, storeFlag
    PROVE  FewDrift'
  <1> DEFINE k == job[w].key
  <1>1. UNCHANGED <<save, file, storeFlag>>
    BY DEF PutKey
  <1>2. w \in Busy /\ Busy' = Busy \ {w} /\ Busy \subseteq Workers
    BY DEF PutKey, Busy, StoreInv, WholeInv, TypeOK, IdleJob
  <1>3. Drift' \subseteq Drift \cup {k}
    BY <1>1, StoreFacts DEF PutKey, Drift
  <1>4. IsFiniteSet(Drift) /\ IsFiniteSet(Busy)
    BY <1>2, FS_Subset DEF FewDrift
  <1>5. IsFiniteSet(Drift \cup {k}) /\ Cardinality(Drift \cup {k}) <= Cardinality(Drift) + 1
    <2>1. Cardinality(Drift) \in Nat
      BY <1>4, FS_CardinalityType
    <2>2. /\ IsFiniteSet(Drift \cup {k})
          /\ Cardinality(Drift \cup {k}) =
                IF k \in Drift THEN Cardinality(Drift) ELSE Cardinality(Drift) + 1
      BY <1>4, FS_AddElement
    <2> QED
      BY <2>1, <2>2
  <1>6. Cardinality(Busy \ {w}) = Cardinality(Busy) - 1
    BY <1>2, <1>4, FS_RemoveElement
  <1>7. IsFiniteSet(Drift') /\ Cardinality(Drift') <= Cardinality(Drift \cup {k})
    BY <1>3, <1>5, FS_Subset
  <1>8. /\ Cardinality(Drift) \in Nat /\ Cardinality(Busy) \in Nat
        /\ Cardinality(Drift') \in Nat /\ Cardinality(Drift \cup {k}) \in Nat
        /\ Cardinality(Workers) \in Nat
    BY <1>4, <1>5, <1>7, FS_CardinalityType
  <1>9. Cardinality(Drift') + Cardinality(Busy') <= Cardinality(Workers)
    BY <1>2, <1>5, <1>6, <1>7, <1>8 DEF FewDrift
  <1> QED
    BY <1>1, <1>7, <1>9 DEF FewDrift

LEMMA FlagRaised ==
    ASSUME IsFiniteSet(Workers), StoreInv, BeginStore(StoreThread), flagged' = tree
    PROVE  FewDrift'
  <1>1. save'[StoreThread].pc = "open" /\ storeFlag' = TRUE /\ UNCHANGED <<tree, job>>
    BY StoreFacts DEF BeginStore, Save
  <1>2. Drift' = {}
    BY <1>1 DEF Drift
  <1>3. IsFiniteSet(Drift') /\ Cardinality(Drift') = 0
    BY <1>2, FS_EmptySet
  <1>4. Busy' \subseteq Workers
    BY DEF Busy
  <1>5. IsFiniteSet(Busy') /\ Cardinality(Busy') <= Cardinality(Workers)
    BY <1>4, FS_Subset
  <1>6. Cardinality(Busy') \in Nat /\ Cardinality(Workers) \in Nat
    BY <1>5, FS_CardinalityType
  <1> QED
    BY <1>1, <1>3, <1>5, <1>6 DEF FewDrift
\* What was seen of a flush, and of the flag, in a step that is not its first.
LEMMA FewDriftNext ==
    ASSUME Savers = {StoreThread}, IsFiniteSet(Workers), StoreInv, StoreInv', FewDrift,
           Next, Watched
    PROVE  FewDrift'
  <1> DEFINE st == StoreThread
             name == save[StoreThread].name
  <1>0. /\ storeFlag \in BOOLEAN /\ job \in [Workers -> Job] /\ save \in [Savers -> Save]
        /\ st \in Savers
        /\ storeFlag' = storeFlag => flagged' = flagged
    BY StoreFacts DEF StoreInv, WholeInv, TypeOK, Watched
  <1>1. CASE OpenTmp(st)
    <2>1. UNCHANGED <<storeFlag, tree, job>> /\ flagged' = flagged
      BY <1>0, <1>1 DEF OpenTmp
    <2>2. \A k \in Keys : file'[save'[st].name].slot[k] = Hole
      BY <1>1, OpenTmpDoes DEF NewFile, NoFile
    <2>3. Drift' \subseteq Drift /\ Busy' = Busy
      BY <2>1, <2>2 DEF Drift, Busy
    <2> QED
      BY <1>1, <2>1, <2>3, OpenTmpDoes, FewDriftKept DEF FewDrift
  <1>2. ASSUME NEW k \in Keys, WriteSlot(st, k) PROVE FewDrift'
    <2>1. UNCHANGED <<storeFlag, tree, job>> /\ flagged' = flagged
      BY <1>0, <1>2 DEF WriteSlot
    <2>2. /\ save[st].pc = "write" /\ save'[st].pc = "write" /\ save'[st].name = name
          /\ \A j \in Keys : file'[name].slot[j] = IF j = k THEN tree[k] ELSE file[name].slot[j]
      BY <1>2, WriteSlotDoes
    <2>3. Drift' \subseteq Drift /\ Busy' = Busy
      BY <2>1, <2>2 DEF Drift, Busy
    <2> QED
      BY <2>1, <2>2, <2>3, FewDriftKept DEF FewDrift
  <1>3. CASE Closes(st)
    <2>1. UNCHANGED <<storeFlag, tree, job>> /\ flagged' = flagged
      BY <1>0, <1>3 DEF Closes, CloseTmp, CloseCut
    <2>2. Drift' \subseteq Drift /\ Busy' = Busy
      BY <1>3, <2>1, ClosesDoes DEF Drift, Busy
    <2> QED
      BY <1>3, <2>1, <2>2, ClosesDoes, FewDriftKept DEF FewDrift
  <1>4. CASE Rename(st)
    <2>1. UNCHANGED <<storeFlag, tree, job>> /\ flagged' = flagged
      BY <1>0, <1>4 DEF Rename
    <2>2. Drift' \subseteq Drift /\ Busy' = Busy
      BY <1>4, <2>1, RenameDoes DEF Drift, Busy
    <2> QED
      BY <1>4, <2>1, <2>2, RenameDoes, FewDriftKept DEF FewDrift
  <1>5. CASE BeginStore(st)
    <2>1. ~storeFlag /\ storeFlag' = TRUE
      BY <1>5 DEF BeginStore
    <2>2. flagged' = tree
      BY <1>5, <2>1 DEF BeginStore, Watched
    <2> QED
      BY <1>5, <2>2, FlagRaised
  <1>6. CASE SaveFails(st) \/ LockFile(st) \/ UnlockFile(st)
    <2>1. UNCHANGED <<storeFlag, tree, job, file>> /\ flagged' = flagged
      BY <1>0, <1>6 DEF SaveFails, LockFile, UnlockFile
    <2>2. /\ save[st].pc # "idle" /\ save'[st].pc # "idle"
          /\ save'[st].pc \in {"write", "lock", "rename"} =>
                save[st].pc \in {"write", "lock", "rename"} /\ save'[st].name = name
      BY <1>0, <1>6 DEF SaveFails, LockFile, UnlockFile, Save
    <2>3. Drift' \subseteq Drift /\ Busy' = Busy
      BY <2>1, <2>2 DEF Drift, Busy
    <2> QED
      BY <2>1, <2>2, <2>3, FewDriftKept DEF FewDrift
  <1>7. CASE FinishStore(st)
    BY <1>0, <1>7 DEF FinishStore, FewDrift, IdleSave
  <1>8. ASSUME NEW w \in Workers, Build(w) PROVE FewDrift'
    <2>1. UNCHANGED <<storeFlag, save, file>> /\ flagged' = flagged
      BY <1>0, <1>8 DEF Build, ReportKey, ReadNode, LockTree, PutKey
    <2>2. CASE ~storeFlag
      BY <2>1, <2>2 DEF FewDrift
    <2>3. CASE storeFlag /\ PutKey(w)
      BY <2>1, <2>3, PutKeyDrifts
    <2>4. CASE storeFlag /\ ~PutKey(w)
      <3>1. ReadNode(w) \/ LockTree(w)
        BY <1>8, <2>4 DEF Build, ReportKey
      <3>2. tree' = tree /\ Busy' \subseteq Busy
        BY <1>0, <3>1 DEF ReadNode, LockTree, Busy
      <3>3. Drift' = Drift
        BY <2>1, <3>2 DEF Drift
      <3> QED
        BY <2>1, <3>2, <3>3, FewDriftKept DEF FewDrift
    <2> QED
      BY <2>2, <2>3, <2>4
  <1>9. ASSUME NEW k \in Keys, EraseKey(k) PROVE FewDrift'
    <2>1. UNCHANGED <<storeFlag, save, file, job>> /\ flagged' = flagged
      BY <1>0, <1>9 DEF EraseKey
    <2>2. \A j \in Keys : tree'[j] \in {tree[j], Absent}
      BY <1>9, StoreFacts DEF EraseKey
    <2>3. Drift' \subseteq Drift /\ Busy' = Busy
      BY <2>1, <2>2 DEF Drift, Busy
    <2> QED
      BY <2>1, <2>3, FewDriftKept DEF FewDrift
  <1>10. CASE Crash
    BY <1>0, <1>10 DEF Crash, FewDrift, IdleSave
  <1>11. CASE Restart
    <2>1. UNCHANGED <<storeFlag, save>> /\ ~storeFlag
      BY <1>11 DEF Restart, FewDrift, StoreInv, DeadIdle
    <2> QED
      BY <2>1 DEF FewDrift
  <1>12. CASE ReaderLocks \/ ReaderUnlocks \/ Tick
    <2>1. UNCHANGED <<storeFlag, save, file, tree, job>> /\ flagged' = flagged
      BY <1>0, <1>12 DEF ReaderLocks, ReaderUnlocks, Tick
    <2> QED
      BY <2>1 DEF FewDrift, Drift, Busy
  <1> QED
    BY <1>1, <1>2, <1>3, <1>4, <1>5, <1>6, <1>7, <1>8, <1>9, <1>10, <1>11, <1>12
    DEF Next, SaveStep, Closes

\* What a flush publishes is the tree as it was when the flag went up, but for
\* erasures, for the end of a file whose last buffer was lost, and for at most one
\* late report per worker, for any number of keys, workers, crashes and saves that
\* go wrong.
THEOREM FlushNearSnapshot ==
    ASSUME Savers = {StoreThread}, IsFiniteSet(Workers)
    PROVE  WatchedSpec => []NearSnapshot
  <1> DEFINE Inv == StoreInv /\ FewDrift
             late == Late(file[save[StoreThread].name])
  <1>1. Init /\ gone = {} /\ flagged = EmptyTree => Inv
    BY StoreInvInit, ConstantsAssumption DEF Init, FewDrift, IdleSave
  <1>2. Inv /\ [Next /\ Watched]_storeVars => Inv'
    <2> SUFFICES ASSUME Inv, [Next /\ Watched]_storeVars PROVE Inv'
      OBVIOUS
    <2>1. [Next]_vars
      BY DEF storeVars
    <2>2. StoreInv'
      BY <2>1, StoreInvNext
    <2>3. CASE UNCHANGED storeVars
      BY <2>2, <2>3 DEF storeVars, vars, FewDrift, Drift, Busy
    <2> QED
      BY <2>2, <2>3, FewDriftNext
  <1>3. Inv => NearSnapshot
    <2> SUFFICES ASSUME Inv, save[StoreThread].pc \in {"lock", "rename"}
                 PROVE  Cardinality(late) <= Cardinality(Workers)
      BY DEF NearSnapshot
    <2>1. Finished(file[save[StoreThread].name])
      BY DEF StoreInv, WholeInv, TmpFilled
    <2>2. late \subseteq Drift
      BY <2>1 DEF Late, Drift, Finished, Complete
    <2>3. storeFlag /\ IsFiniteSet(Drift)
          /\ Cardinality(Drift) + Cardinality(Busy) <= Cardinality(Workers)
      BY DEF FewDrift
    <2>4. Busy \subseteq Workers
      BY DEF Busy
    <2>5. /\ IsFiniteSet(late) /\ IsFiniteSet(Busy)
          /\ Cardinality(late) <= Cardinality(Drift)
      BY <2>2, <2>3, <2>4, FS_Subset
    <2>6. /\ Cardinality(late) \in Nat /\ Cardinality(Drift) \in Nat
          /\ Cardinality(Busy) \in Nat /\ Cardinality(Workers) \in Nat
      BY <2>3, <2>5, FS_CardinalityType
    <2> QED
      BY <2>3, <2>5, <2>6
  <1> QED
    BY <1>1, <1>2, <1>3, PTL DEF WatchedSpec, WatchedInit
-----------------------------------------------------------------------------
(***************************************************************************)
(* How far a stored time lags, for any number of savers too.  A put is at  *)
(* most MaxStall late, a report that is not put is at most KeyExpire       *)
(* younger than what is stored.                                            *)
(***************************************************************************)
\* No call of buildTree began in the future or is older than MaxStall, and no
\* report that went through is younger than the clock.
InTime ==
    /\ \A w \in Workers : job[w].pc # "idle" =>
          /\ job[w].key \in Keys /\ job[w].time \in Times
          /\ job[w].time <= clock /\ clock <= job[w].time + MaxStall
    /\ \A w \in Workers : job[w].pc = "idle" => job[w] = IdleJob
    /\ accepted \in [Keys -> Times \cup {Absent}]
    /\ \A k \in Keys : accepted[k] <= clock

\* Only what was reported counts: nothing is accepted of a key that is absent.
AbsentMeansNone == \A k \in Keys : up /\ tree[k] = Absent => accepted[k] = Absent

DownMeansNone == ~up => accepted = EmptyTree

FreshInv == TypeOK /\ Named /\ InTime /\ AbsentMeansNone /\ DownMeansNone /\ Freshness

LEMMA NumbersOfTime ==
    /\ Times \subseteq Nat /\ Absent \notin Times /\ Absent = 0
    /\ KeyExpire \in Nat /\ MaxStall \in Nat /\ StartTime \in Nat /\ MaxTime \in Nat
    /\ \A t \in Times : t - Absent > KeyExpire
  BY ConstantsAssumption DEF Times, Absent

LEMMA StoredIsNat == \A x \in Times \cup {Absent} : x \in Nat
  BY NumbersOfTime

LEMMA LatestOfOne ==
    ASSUME NEW t \in Nat, NEW S, NEW u \in Nat, S \subseteq {u}
    PROVE  Latest(t, S) = t \/ (S = {u} /\ Latest(t, S) = u /\ u >= t)
  <1> DEFINE T == S \cup {t}
             Top(x) == \A y \in T : y <= x
  <1>1. \E x \in T : Top(x)
    <2>1. CASE u \in S /\ u >= t
      BY <2>1
    <2>2. CASE u \notin S \/ ~(u >= t)
      BY <2>2
    <2> QED
      BY <2>1, <2>2
  <1>2. Latest(t, S) \in T /\ Top(Latest(t, S))
    BY <1>1 DEF Latest
  <1> QED
    BY <1>2

\* Nothing ends in a step that leaves the calls alone.
LEMMA NothingEnds ==
    ASSUME InTime, job' = job, NEW k \in Keys
    PROVE  Ended(k) = {}
  BY ConstantsAssumption DEF InTime, Ended, IdleJob

\* A step with no end of a call and no erased key keeps what is accepted.
LEMMA AcceptedKept ==
    ASSUME FreshInv, Accepts, up' = TRUE, NEW k \in Keys, Ended(k) = {},
           ~(tree[k] # Absent /\ tree'[k] = Absent)
    PROVE  accepted'[k] = accepted[k]
  <1>1. accepted[k] \in Nat
    <2>1. accepted[k] \in Times \cup {Absent}
      BY DEF FreshInv, InTime
    <2> QED
      BY <2>1, StoredIsNat
  <1>2. Latest(accepted[k], {}) = accepted[k]
    BY <1>1, LatestOfOne
  <1> QED
    BY <1>2 DEF Accepts

\* A step that leaves the calls and the clock alone, and changes a key only to
\* Absent.
LEMMA FreshKept ==
    ASSUME FreshInv, TypeOK', Accepts, up = TRUE, up' = TRUE, UNCHANGED <<job, clock>>,
           \A k \in Keys : tree'[k] \in {tree[k], Absent}
    PROVE  InTime' /\ AbsentMeansNone' /\ DownMeansNone' /\ Freshness'
  <1>1. ASSUME NEW k \in Keys
        PROVE  accepted'[k] = IF tree'[k] = tree[k] THEN accepted[k] ELSE Absent
    <2>1. CASE tree'[k] = tree[k]
      BY <2>1, NothingEnds, AcceptedKept DEF FreshInv
    <2>2. CASE tree'[k] # tree[k]
      BY <2>2 DEF Accepts
    <2> QED
      BY <2>1, <2>2
  <1>2. accepted' \in [Keys -> Times \cup {Absent}]
    <2>1. accepted' = [k \in Keys |-> accepted'[k]]
      BY DEF Accepts
    <2> QED
      BY <1>1, <2>1 DEF FreshInv, InTime
  <1>3. clock \in Nat
    BY NumbersOfTime DEF FreshInv, TypeOK
  <1>4. InTime'
    BY <1>1, <1>2, <1>3, NumbersOfTime DEF FreshInv, InTime
  <1>5. AbsentMeansNone' /\ DownMeansNone'
    BY <1>1 DEF FreshInv, AbsentMeansNone, DownMeansNone
  <1>6. Freshness'
    BY <1>1, NumbersOfTime DEF FreshInv, Freshness, TypeOK
  <1> QED
    BY <1>4, <1>5, <1>6

\* What ends when worker w takes a step.
LEMMA OnlyOneEnds ==
    ASSUME InTime, NEW w \in Workers, NEW k \in Keys,
           \A v \in Workers \ {w} : job'[v] = job[v]
    PROVE  /\ Ended(k) \subseteq {job[w].time}
           /\ job[w].key # k \/ job'[w] # IdleJob => Ended(k) = {}
  BY ConstantsAssumption DEF InTime, Ended, IdleJob

\* A worker's step that changes neither the tree nor ends the call.
LEMMA CallGoesOn ==
    ASSUME FreshInv, TypeOK', Accepts, NEW w \in Workers,
           ReportKey(w, job'[w].key) \/ LockTree(w) \/ ReadNode(w), job'[w] # IdleJob,
           job'[w].pc # "idle",
           job'[w].key \in Keys, job'[w].time \in Times,
           job'[w].time <= clock /\ clock <= job'[w].time + MaxStall
    PROVE  InTime' /\ AbsentMeansNone' /\ DownMeansNone' /\ Freshness'
  <1>1. /\ up = TRUE /\ up' = TRUE /\ UNCHANGED <<tree, clock>>
        /\ \A v \in Workers \ {w} : job'[v] = job[v]
    BY DEF ReportKey, LockTree, ReadNode, FreshInv, TypeOK
  <1>2. ASSUME NEW k \in Keys PROVE accepted'[k] = accepted[k]
    BY <1>1, OnlyOneEnds, AcceptedKept DEF FreshInv
  <1>3. accepted' \in [Keys -> Times \cup {Absent}]
    <2>1. accepted' = [k \in Keys |-> accepted'[k]]
      BY <1>1 DEF Accepts
    <2> QED
      BY <1>2, <2>1 DEF FreshInv, InTime
  <1>4. InTime'
    BY <1>1, <1>2, <1>3 DEF FreshInv, InTime
  <1> QED
    BY <1>1, <1>2, <1>4 DEF FreshInv, AbsentMeansNone, DownMeansNone, Freshness

\* The end of a call, by a put or without one.
LEMMA CallEnds ==
    ASSUME FreshInv, TypeOK', Accepts, NEW w \in Workers, job[w].pc # "idle",
           up = TRUE, up' = TRUE, clock' = clock,
           job' = [job EXCEPT ![w] = IdleJob],
           \/ tree' = tree /\ job[w].time - tree[job[w].key] <= KeyExpire
              /\ tree[job[w].key] # Absent
           \/ tree' = [tree EXCEPT ![job[w].key] = job[w].time]
    PROVE  InTime' /\ AbsentMeansNone' /\ DownMeansNone' /\ Freshness'
  <1> DEFINE k == job[w].key
             t == job[w].time
  <1>1. /\ k \in Keys /\ t \in Times /\ t \in Nat /\ t # Absent
        /\ t <= clock /\ clock <= t + MaxStall /\ clock \in Nat
        /\ tree \in [Keys -> Times \cup {Absent}] /\ job \in [Workers -> Job]
    BY NumbersOfTime DEF FreshInv, InTime, TypeOK
  <1>2. \A j \in Keys : /\ accepted[j] \in Times \cup {Absent} /\ accepted[j] \in Nat
                        /\ accepted[j] <= clock
                        /\ tree[j] \in Nat
    BY <1>1, StoredIsNat DEF FreshInv, InTime
  <1>3. ASSUME NEW j \in Keys, j # k PROVE accepted'[j] = accepted[j] /\ tree'[j] = tree[j]
    <2>1. Ended(j) = {}
      BY <1>1, <1>3, OnlyOneEnds DEF FreshInv
    <2>2. tree'[j] = tree[j]
      BY <1>1, <1>3
    <2> QED
      BY <2>1, <2>2, AcceptedKept
  <1>4. accepted'[k] \in {accepted[k], t}
    <2>1. ~(tree[k] # Absent /\ tree'[k] = Absent)
      BY <1>1
    <2>2. accepted'[k] = Latest(accepted[k], Ended(k))
      BY <1>1, <2>1 DEF Accepts
    <2>3. Ended(k) \subseteq {t}
      BY <1>1, OnlyOneEnds DEF FreshInv
    <2> QED
      BY <1>1, <1>2, <2>2, <2>3, LatestOfOne
  <1>5. accepted' \in [Keys -> Times \cup {Absent}]
    <2>1. accepted' = [j \in Keys |-> accepted'[j]]
      BY DEF Accepts
    <2>2. \A j \in Keys : accepted'[j] \in Times \cup {Absent}
      BY <1>1, <1>2, <1>3, <1>4
    <2> QED
      BY <2>1, <2>2
  <1>6. InTime'
    <2>1. \A v \in Workers : job'[v] = IF v = w THEN IdleJob ELSE job[v]
      BY <1>1
    <2>2. \A j \in Keys : accepted'[j] <= clock
      BY <1>1, <1>2, <1>3, <1>4
    <2> QED
      BY <1>5, <2>1, <2>2 DEF FreshInv, InTime, IdleJob
  <1>7. AbsentMeansNone' /\ DownMeansNone'
    <2>1. tree'[k] # Absent
      BY <1>1
    <2> QED
      BY <1>3, <2>1 DEF FreshInv, AbsentMeansNone, DownMeansNone
  <1>8. Freshness'
    <2>1. ASSUME NEW j \in Keys
          PROVE  accepted'[j] - tree'[j] <= KeyExpire \/ accepted'[j] - tree'[j] <= MaxStall
      <3>1. CASE j # k
        BY <1>3, <3>1 DEF FreshInv, Freshness
      <3>2. CASE j = k /\ tree' = tree
        BY <1>1, <1>2, <1>4, <3>2, NumbersOfTime DEF FreshInv, Freshness
      <3>3. CASE j = k /\ tree' = [tree EXCEPT ![k] = t]
        <4>1. tree'[j] = t
          BY <1>1, <3>3
        <4>2. accepted'[j] <= clock /\ accepted'[j] \in Nat
          BY <1>1, <1>2, <1>4, <3>3
        <4> QED
          BY <1>1, <4>1, <4>2, NumbersOfTime
      <3> QED
        BY <3>1, <3>2, <3>3
    <2> QED
      BY <2>1 DEF Freshness
  <1> QED
    BY <1>6, <1>7, <1>8

\* With nothing accepted any stored time is recent enough.
LEMMA NothingAccepted ==
    ASSUME accepted' = EmptyTree, TypeOK',
           \A w \in Workers : job'[w].pc # "idle" =>
              /\ job'[w].key \in Keys /\ job'[w].time \in Times
              /\ job'[w].time <= clock' /\ clock' <= job'[w].time + MaxStall,
           \A w \in Workers : job'[w].pc = "idle" => job'[w] = IdleJob
    PROVE  InTime' /\ AbsentMeansNone' /\ DownMeansNone' /\ Freshness'
  <1>1. \A k \in Keys : accepted'[k] = 0 /\ tree'[k] \in Nat
    BY StoredIsNat, NumbersOfTime DEF TypeOK, EmptyTree
  <1>2. clock' \in Nat
    BY NumbersOfTime DEF TypeOK
  <1>3. accepted' \in [Keys -> Times \cup {Absent}]
    BY DEF EmptyTree
  <1>4. InTime'
    BY <1>1, <1>2, <1>3 DEF InTime
  <1>5. AbsentMeansNone' /\ DownMeansNone'
    BY <1>1, NumbersOfTime DEF AbsentMeansNone, DownMeansNone
  <1>6. Freshness'
    BY <1>1, NumbersOfTime DEF Freshness
  <1> QED
    BY <1>4, <1>5, <1>6

\* A process that is down has accepted nothing.
LEMMA TreeDown ==
    ASSUME up' = FALSE, Accepts, TypeOK',
           \A w \in Workers : job'[w].pc # "idle" =>
              /\ job'[w].key \in Keys /\ job'[w].time \in Times
              /\ job'[w].time <= clock' /\ clock' <= job'[w].time + MaxStall,
           \A w \in Workers : job'[w].pc = "idle" => job'[w] = IdleJob
    PROVE  InTime' /\ AbsentMeansNone' /\ DownMeansNone' /\ Freshness'
  <1>1. accepted' = EmptyTree
    BY DEF Accepts
  <1> QED
    BY <1>1, NothingAccepted

LEMMA FreshNext ==
    ASSUME FreshInv, TypeOK', Next, Accepts
    PROVE  InTime' /\ AbsentMeansNone' /\ DownMeansNone' /\ Freshness'
  <1>0. up \in BOOLEAN /\ job \in [Workers -> Job] /\ tree \in [Keys -> Times \cup {Absent}]
        /\ clock \in Times /\ clock \in Nat
    BY NumbersOfTime DEF FreshInv, TypeOK
  <1>1. ASSUME NEW w \in Workers, NEW k \in Keys, ReportKey(w, k)
        PROVE  InTime' /\ AbsentMeansNone' /\ DownMeansNone' /\ Freshness'
    <2>1. job'[w] = [pc |-> "read", key |-> k, time |-> clock]
      BY <1>0, <1>1 DEF ReportKey
    <2> QED
      BY <1>0, <1>1, <2>1, NumbersOfTime, CallGoesOn DEF IdleJob
  <1>2. ASSUME NEW w \in Workers, LockTree(w)
        PROVE  InTime' /\ AbsentMeansNone' /\ DownMeansNone' /\ Freshness'
    <2>1. job'[w] = [job[w] EXCEPT !.pc = "put"] /\ job[w].pc = "lock"
      BY <1>0, <1>2 DEF LockTree
    <2>2. job'[w].pc = "put" /\ job'[w].key = job[w].key /\ job'[w].time = job[w].time
      BY <1>0, <2>1 DEF Job
    <2>3. job'[w].pc # "idle" /\ job'[w] # IdleJob
      BY <2>2 DEF IdleJob
    <2>4. job[w].key \in Keys /\ job[w].time \in Times
          /\ job[w].time <= clock /\ clock <= job[w].time + MaxStall
      BY <2>1 DEF FreshInv, InTime
    <2> QED
      BY <1>2, <2>2, <2>3, <2>4, CallGoesOn
  <1>3. ASSUME NEW w \in Workers, ReadNode(w)
        PROVE  InTime' /\ AbsentMeansNone' /\ DownMeansNone' /\ Freshness'
    <2>1. PICK node \in NodeReads(w) :
             job' = [job EXCEPT ![w] = IF NeedsRefresh(job[w].time, node)
                                       THEN [job[w] EXCEPT !.pc = "lock"]
                                       ELSE IdleJob]
      BY <1>3 DEF ReadNode
    <2>2. /\ up = TRUE /\ up' = TRUE /\ UNCHANGED <<tree, clock>>
          /\ job[w].pc = "read" /\ job[w].key \in Keys /\ job[w].time \in Times
          /\ job[w].time <= clock /\ clock <= job[w].time + MaxStall
      BY <1>0, <1>3 DEF ReadNode, FreshInv, InTime
    <2>3. CASE NeedsRefresh(job[w].time, node)
      <3>1. job'[w] = [job[w] EXCEPT !.pc = "lock"]
        BY <1>0, <2>1, <2>3
      <3>2. job'[w].pc = "lock" /\ job'[w].key = job[w].key /\ job'[w].time = job[w].time
        BY <1>0, <3>1 DEF Job
      <3> QED
        BY <1>3, <2>2, <3>2, CallGoesOn DEF IdleJob
    <2>4. CASE ~NeedsRefresh(job[w].time, node)
      <3>1. node \in {tree[job[w].key], Absent} /\ node # Absent
        BY <2>2, <2>4, NumbersOfTime DEF NodeReads, NeedsRefresh
      <3>2. job[w].time \in Nat /\ node \in Nat
        BY <1>0, <2>2, <3>1, NumbersOfTime
      <3>3. job[w].time - tree[job[w].key] <= KeyExpire /\ tree[job[w].key] # Absent
        BY <2>4, <3>1, <3>2, NumbersOfTime DEF NeedsRefresh
      <3>4. job' = [job EXCEPT ![w] = IdleJob]
        BY <2>1, <2>4
      <3> QED
        BY <2>2, <3>3, <3>4, CallEnds
    <2> QED
      BY <2>3, <2>4
  <1>4. ASSUME NEW w \in Workers, PutKey(w)
        PROVE  InTime' /\ AbsentMeansNone' /\ DownMeansNone' /\ Freshness'
    BY <1>0, <1>4, CallEnds DEF PutKey
  <1>5. ASSUME NEW s \in Savers,
               BeginStore(s) \/ SaveStep(s) \/ SaveFails(s) \/ CloseCut(s) \/ LockFile(s)
        PROVE  InTime' /\ AbsentMeansNone' /\ DownMeansNone' /\ Freshness'
    <2>1. up = TRUE /\ up' = TRUE /\ UNCHANGED <<job, clock, tree>>
      BY <1>0, <1>5
      DEF BeginStore, SaveStep, SaveFails, LockFile, OpenTmp, WriteSlot, CloseTmp, CloseCut, Rename,
          UnlockFile, FinishStore
    <2> QED
      BY <2>1, FreshKept
  <1>6. ASSUME NEW k \in Keys, EraseKey(k)
        PROVE  InTime' /\ AbsentMeansNone' /\ DownMeansNone' /\ Freshness'
    <2>1. up = TRUE /\ up' = TRUE /\ UNCHANGED <<job, clock>>
          /\ \A j \in Keys : tree'[j] \in {tree[j], Absent}
      BY <1>0, <1>6 DEF EraseKey
    <2> QED
      BY <2>1, FreshKept
  <1>7. CASE ReaderLocks \/ ReaderUnlocks
    <2>1. UNCHANGED <<up, job, clock, tree>>
      BY <1>7 DEF ReaderLocks, ReaderUnlocks
    <2>2. CASE up = TRUE
      BY <2>1, <2>2, FreshKept
    <2>3. CASE up = FALSE
      BY <1>0, <2>1, <2>3, TreeDown DEF FreshInv, InTime
    <2> QED
      BY <1>0, <2>2, <2>3
  <1>8. CASE Tick
    <2>1. UNCHANGED <<up, job, tree>> /\ clock' = clock + 1
      BY <1>8 DEF Tick
    <2>2. \A w \in Workers : job'[w].pc # "idle" =>
             /\ job'[w].key \in Keys /\ job'[w].time \in Times
             /\ job'[w].time <= clock' /\ clock' <= job'[w].time + MaxStall
      <3>1. ASSUME NEW w \in Workers, job[w].pc # "idle"
            PROVE  /\ job[w].key \in Keys /\ job[w].time \in Times /\ job[w].time \in Nat
                   /\ job[w].time <= clock /\ clock < job[w].time + MaxStall
        <4>1. job[w] # IdleJob
          BY <3>1 DEF IdleJob
        <4> QED
          BY <1>8, <3>1, <4>1, StoredIsNat DEF Tick, FreshInv, InTime
      <3> QED
        BY <1>0, <2>1, <3>1, NumbersOfTime
    <2>3. \A w \in Workers : job'[w].pc = "idle" => job'[w] = IdleJob
      BY <2>1 DEF FreshInv, InTime
    <2>4. CASE up = TRUE
      <3>1. ASSUME NEW k \in Keys PROVE accepted'[k] = accepted[k]
        BY <2>1, <2>4, NothingEnds, AcceptedKept DEF FreshInv
      <3>2. accepted' \in [Keys -> Times \cup {Absent}]
        <4>1. accepted' = [k \in Keys |-> accepted'[k]]
          BY <2>1, <2>4 DEF Accepts
        <4> QED
          BY <3>1, <4>1 DEF FreshInv, InTime
      <3>3. \A k \in Keys : accepted'[k] <= clock'
        <4>1. \A k \in Keys : accepted[k] \in Nat /\ accepted[k] <= clock
          BY StoredIsNat DEF FreshInv, InTime
        <4> QED
          BY <1>0, <2>1, <3>1, <4>1
      <3>4. InTime'
        BY <2>2, <2>3, <3>2, <3>3 DEF InTime
      <3> QED
        BY <2>1, <2>4, <3>1, <3>4 DEF FreshInv, AbsentMeansNone, DownMeansNone, Freshness
    <2>5. CASE up = FALSE
      BY <1>0, <2>1, <2>2, <2>3, <2>5, TreeDown
    <2> QED
      BY <1>0, <2>4, <2>5
  <1>9. CASE Crash
    <2>1. up' = FALSE /\ clock' = clock /\ job' = [w \in Workers |-> IdleJob]
      BY <1>9 DEF Crash
    <2> QED
      BY <1>0, <2>1, TreeDown DEF IdleJob
  <1>10. CASE Restart
    <2>1. up = FALSE /\ up' = TRUE /\ UNCHANGED <<clock, job>>
      BY <1>0, <1>10 DEF Restart
    <2>2. accepted = EmptyTree
      BY <2>1 DEF FreshInv, DownMeansNone
    <2>3. ASSUME NEW k \in Keys PROVE accepted'[k] = Absent
      <3>1. Ended(k) = {} /\ accepted[k] = Absent
        BY <2>1, <2>2, NothingEnds DEF FreshInv, EmptyTree
      <3>2. Latest(Absent, {}) = Absent
        BY NumbersOfTime, LatestOfOne
      <3> QED
        BY <2>1, <3>1, <3>2 DEF Accepts
    <2>4. accepted' = EmptyTree
      <3>1. accepted' = [k \in Keys |-> accepted'[k]]
        BY <2>1 DEF Accepts
      <3> QED
        BY <2>3, <3>1 DEF EmptyTree
    <2> QED
      BY <1>0, <2>1, <2>4, NothingAccepted DEF FreshInv, InTime
  <1> QED
    BY <1>1, <1>2, <1>3, <1>4, <1>5, <1>6, <1>7, <1>8, <1>9, <1>10 DEF Next, Build

\* The time under a key never lags behind the latest report of it by more than
\* KEY_EXPIRE_TIME or the longest buildTree call, for any number of keys,
\* workers, savers and crashes.
THEOREM StoredTimesAreFresh == FreshSpec => []Freshness
  <1>1. Init /\ accepted = EmptyTree => FreshInv
    <2> SUFFICES ASSUME Init, accepted = EmptyTree PROVE FreshInv
      OBVIOUS
    <2>1. TypeOK /\ Named
      BY TypeInit DEF Init, Named, IdleSave
    <2>2. InTime
      <3>1. /\ \A w \in Workers : job[w] = IdleJob /\ job[w].pc = "idle"
            /\ clock \in Nat
        BY NumbersOfTime DEF Init, IdleJob
      <3> QED
        BY <3>1, NumbersOfTime DEF InTime, EmptyTree
    <2>3. AbsentMeansNone /\ DownMeansNone /\ Freshness
      BY NumbersOfTime DEF Init, EmptyTree, AbsentMeansNone, DownMeansNone, Freshness
    <2> QED
      BY <2>1, <2>2, <2>3 DEF FreshInv
  <1>2. FreshInv /\ [Next /\ Accepts]_freshVars => FreshInv'
    <2> SUFFICES ASSUME FreshInv, [Next /\ Accepts]_freshVars PROVE FreshInv'
      OBVIOUS
    <2>1. TypeOK' /\ Named'
      BY TypeNext, NamedNext DEF FreshInv, freshVars
    <2>2. CASE Next /\ Accepts
      BY <2>1, <2>2, FreshNext DEF FreshInv
    <2>3. CASE UNCHANGED freshVars
      BY <2>1, <2>3 DEF freshVars, vars, FreshInv, InTime, AbsentMeansNone, DownMeansNone,
                        Freshness
    <2> QED
      BY <2>2, <2>3
  <1>3. FreshInv => Freshness
    BY DEF FreshInv
  <1> QED
    BY <1>1, <1>2, <1>3, PTL DEF FreshSpec, FreshInit
=============================================================================
