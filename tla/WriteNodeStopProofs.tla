------------------------- MODULE WriteNodeStopProofs -------------------------
(***************************************************************************)
(* Theorems about several savers and SIGTERM, for every set of keys,       *)
(* workers, savers and hours.  A step is one of WriteNode, about which     *)
(* WriteNodeProofs has lemmas, or one of the handler's own.                *)
(***************************************************************************)
EXTENDS WriteNodeSavers, WriteNodeProofs

StopTypeOK ==
    /\ TypeOK
    /\ stop \in {"no", "loading", "storing", "exiting"}
    /\ settled \subseteq Savers
    /\ alone \in BOOLEAN
    /\ owed \subseteq Keys

\* A handler at work is one of a process that runs.
StopUp == stop # "no" => up

LEMMA HandlerIsSaver == Handler \in Savers /\ Handler # StoreThread /\ StoreThread \in Savers
  BY HandlerAssumption, ConstantsAssumption

\* The steps that WriteNode does not have.
OwnStep == Term \/ TermLoading \/ Exit \/ ExitEnds

LEMMA StepKinds ==
    ASSUME StopNext, ~OwnStep
    PROVE  Next /\ ((stop' = stop /\ (up => up')) \/ (Crash /\ stop' = "no"))
  <1>1. Handler \in Savers /\ Others \subseteq Savers
    BY HandlerIsSaver DEF Others
  <1>2. CASE stop # "loading" /\ Threads /\ UNCHANGED stop
    <2>1. Next
      BY <1>1, <1>2 DEF Threads, Next
    <2>2. up' = up
      BY <1>2 DEF Threads, Build, SaveStep, ReportKey, ReadNode, LockTree, PutKey, EraseKey,
                  BeginStore, OpenTmp, WriteSlot, CloseTmp, CloseCut, SaveFails, LockFile,
                  Rename, UnlockFile, FinishStore
    <2> QED
      BY <1>2, <2>1, <2>2
  <1>3. CASE /\ HandlerStep \/ SaveFails(Handler) \/ CloseCut(Handler) \/ LockFile(Handler)
             /\ UNCHANGED stop
    <2>1. Next
      BY <1>1, <1>3 DEF HandlerStep, SaveStep, Next
    <2>2. up' = up
      BY <1>3 DEF HandlerStep, OpenTmp, WriteSlot, CloseTmp, CloseCut, SaveFails, LockFile,
                  Rename, UnlockFile
    <2> QED
      BY <1>3, <2>1, <2>2
  <1>4. CASE (ReaderLocks \/ ReaderUnlocks \/ Tick \/ Restart) /\ UNCHANGED stop
    BY <1>4 DEF Next, ReaderLocks, ReaderUnlocks, Tick, Restart
  <1>5. CASE Crash /\ stop' = "no"
    BY <1>5 DEF Next
  <1> QED
    BY <1>2, <1>3, <1>4, <1>5 DEF StopNext, OwnStep
-----------------------------------------------------------------------------
LEMMA PartlyLoadedTyped ==
    ASSUME TypeOK, NEW t \in PartlyLoaded
    PROVE  t \in [Keys -> Times \cup {Absent}]
  <1>1. EmptyTree \in [Keys -> Times \cup {Absent}]
    BY DEF EmptyTree
  <1>2. file[Data] \in File
    BY DEF TypeOK, Names
  <1>3. ASSUME NEW S \in SUBSET Keys
        PROVE  [k \in Keys |-> IF k \in S /\ file[Data].slot[k] # Hole
                               THEN file[Data].slot[k] ELSE Absent]
                    \in [Keys -> Times \cup {Absent}]
    BY <1>2 DEF File, Slots
  <1> QED
    BY <1>1, <1>3 DEF PartlyLoaded

LEMMA OwnTyped == TypeOK /\ OwnStep => TypeOK'
  <1> SUFFICES ASSUME TypeOK, OwnStep PROVE TypeOK'
    OBVIOUS
  <1>1. EmptyTree \in [Keys -> Times \cup {Absent}] /\ Handler \in Savers
    BY HandlerIsSaver DEF EmptyTree
  <1>2. CASE Term
    <2>1. save' \in [Savers -> Save]
      BY <1>1, <1>2 DEF Term, TypeOK, Save
    <2> QED
      BY <1>2, <2>1 DEF Term, TypeOK
  <1>3. CASE TermLoading
    <2>1. save' \in [Savers -> Save]
      BY <1>1, <1>3, SMTT(30) DEF TermLoading, TypeOK, Save
    <2>2. tree' \in [Keys -> Times \cup {Absent}]
      BY <1>3, PartlyLoadedTyped DEF TermLoading
    <2> QED
      BY <1>3, <2>1, <2>2 DEF TermLoading, TypeOK
  <1>4. CASE Exit
    BY <1>1, <1>4, IdleTyped DEF Exit, TypeOK
  <1>5. CASE ExitEnds
    BY <1>1, <1>5, IdleTyped DEF ExitEnds, TypeOK
  <1> QED
    BY <1>2, <1>3, <1>4, <1>5 DEF OwnStep

LEMMA OwnNamed == TypeOK /\ Named /\ OwnStep => Named'
  <1> SUFFICES ASSUME TypeOK, Named, OwnStep PROVE Named'
    OBVIOUS
  <1>1. save \in [Savers -> Save] /\ Handler \in Savers
    BY HandlerIsSaver DEF TypeOK
  <1> QED
    BY <1>1 DEF OwnStep, Term, TermLoading, Exit, ExitEnds, Named, Save, IdleSave

LEMMA StopTypeNext ==
    StopTypeOK /\ Named /\ StopUp /\ [StopNext /\ Watched]_saverVars
        => StopTypeOK' /\ Named' /\ StopUp'
  <1> SUFFICES ASSUME StopTypeOK, Named, StopUp, [StopNext /\ Watched]_saverVars
               PROVE  StopTypeOK' /\ Named' /\ StopUp'
    OBVIOUS
  <1>1. CASE UNCHANGED saverVars
    <2>1. UNCHANGED vars /\ UNCHANGED <<stop, settled, alone, owed>>
      BY <1>1 DEF saverVars, stopVars
    <2>2. TypeOK' /\ Named'
      BY <2>1, TypeNext, NamedNext DEF StopTypeOK
    <2> QED
      BY <2>1, <2>2 DEF StopTypeOK, StopUp, vars
  <1>2. CASE StopNext /\ Watched
    <2>1. TypeOK' /\ Named'
      <3>1. CASE OwnStep
        BY <3>1, OwnTyped, OwnNamed DEF StopTypeOK
      <3>2. CASE ~OwnStep
        BY <1>2, <3>2, StepKinds, TypeNext, NamedNext DEF StopTypeOK
      <3> QED
        BY <3>1, <3>2
    <2>2. stop' \in {"no", "loading", "storing", "exiting"}
      <3>1. CASE OwnStep
        BY <3>1 DEF OwnStep, Term, TermLoading, Exit, ExitEnds
      <3>2. CASE ~OwnStep
        BY <1>2, <3>2, StepKinds DEF StopTypeOK
      <3> QED
        BY <3>1, <3>2
    <2>3. settled' \subseteq Savers /\ alone' \in BOOLEAN
      BY <1>2 DEF Watched, StopTypeOK
    <2>4. owed' \subseteq Keys
      BY <1>2, <2>2 DEF Watched, StopTypeOK, Stored
    <2>5. StopUp'
      <3>1. CASE OwnStep
        BY <3>1 DEF OwnStep, Term, TermLoading, Exit, ExitEnds, StopUp
      <3>2. CASE ~OwnStep
        BY <1>2, <3>2, StepKinds DEF StopUp
      <3> QED
        BY <3>1, <3>2
    <2> QED
      BY <2>1, <2>2, <2>3, <2>4, <2>5 DEF StopTypeOK
  <1> QED
    BY <1>1, <1>2
LEMMA StopTypeInit ==
    Init /\ stop = "no" /\ settled = {} /\ alone = FALSE /\ owed = {}
        => StopTypeOK /\ Named /\ StopUp
  <1>1. Init => TypeOK
    BY TypeInit
  <1>2. Init => Named
    BY DEF Init, Named, IdleSave
  <1> QED
    BY <1>1, <1>2 DEF StopTypeOK, StopUp

\* Types hold, whatever the savers do to each other's temporary file and
\* whenever the signal comes: during the load, a flush, or a report.
THEOREM StopTypeCorrect == WatchedSpec => []TypeOK
  <1>1. StopTypeOK => TypeOK
    BY DEF StopTypeOK
  <1> QED
    BY <1>1, StopTypeInit, StopTypeNext, PTL DEF WatchedSpec, WatchedInit, StopInit
-----------------------------------------------------------------------------
(***************************************************************************)
(* What a completed flush is worth.  A saver that has opened its temporary *)
(* file still has it under its name, or somebody has published since.      *)
(***************************************************************************)
Promised ==
    \A s \in Savers :
        /\ save[s].pc \in {"write", "lock", "rename"} =>
             file[save[s].name].exists \/ s \in settled
        /\ save[s].pc \in {"unlock", "finish"} => s \in settled

\* What has to be shown of a step: a saver that is settled and not back at the
\* start stays so.
LEMMA StaysSettled ==
    ASSUME Watched, NEW s \in Savers, s \in settled, save'[s].pc \notin {"idle", "open"}
    PROVE  s \in settled'
  BY DEF Watched

\* A step that leaves every saver where it was and every file under its name.
LEMMA PromisedKept ==
    ASSUME StopTypeOK, Named, Promised, Watched,
           \A t \in Savers : /\ save'[t].pc \in {"idle", "open", save[t].pc}
                             /\ save'[t].name = save[t].name \/ save'[t].pc \in {"idle", "open"},
           \A n \in Names : file[n].exists => file'[n].exists
    PROVE  Promised'
  <1> SUFFICES ASSUME NEW t \in Savers, save'[t].pc \notin {"idle", "open"}
               PROVE  /\ save'[t].pc \in {"write", "lock", "rename"} =>
                             file'[save'[t].name].exists \/ t \in settled'
                      /\ save'[t].pc \in {"unlock", "finish"} => t \in settled'
    BY DEF Promised
  <1>1. save'[t].pc = save[t].pc /\ save'[t].name = save[t].name
    OBVIOUS
  <1>2. save[t].pc \in {"write", "lock", "rename"} => save[t].name \in Names
    BY DEF Named, Names
  <1> QED
    BY <1>1, <1>2, StaysSettled DEF Promised

LEMMA PromisedNext ==
    ASSUME StopTypeOK, Named, Promised, StopNext, Watched
    PROVE  Promised'
  <1>1. /\ save \in [Savers -> Save] /\ file \in [Names -> File] /\ clock \in Times
        /\ Data \in Names /\ Hours \subseteq Names /\ Data \notin Hours
    BY ConstantsAssumption DEF StopTypeOK, TypeOK, Names
  <1>2. CASE OwnStep
    <2>1. UNCHANGED file
      BY <1>2 DEF OwnStep, Term, TermLoading, Exit, ExitEnds
    <2>2. \A t \in Savers : save'[t].pc \in {"idle", "open"} \/ save'[t] = save[t]
      BY <1>1, <1>2, HandlerIsSaver
      DEF OwnStep, Term, TermLoading, Exit, ExitEnds, IdleSave, Save
    <2> QED
      BY <2>1, <2>2, PromisedKept
  <1>3. CASE ~OwnStep
    <2>0. Next
      BY <1>3, StepKinds
    <2>1. ASSUME NEW s \in Savers, BeginStore(s) \/ FinishStore(s) PROVE Promised'
      <3>1. UNCHANGED file
        BY <2>1 DEF BeginStore, FinishStore
      <3>2. \A t \in Savers : save'[t].pc \in {"idle", "open"} \/ save'[t] = save[t]
        BY <1>1, <2>1 DEF BeginStore, FinishStore, IdleSave, Save
      <3> QED
        BY <3>1, <3>2, PromisedKept
    <2>2. ASSUME NEW s \in Savers, OpenTmp(s) PROVE Promised'
      <3> DEFINE n == HourOf(clock)
      <3>1. n \in Names
        BY <1>1, NamesOfTimes
      <3>2. file'[n].exists /\ \A m \in Names : file[m].exists => file'[m].exists
        BY <1>1, <2>2, <3>1 DEF OpenTmp, NewFile, NoFile
      <3>3. save'[s].name = n /\ save'[s].pc = "write"
            /\ \A t \in Savers \ {s} : save'[t] = save[t]
        BY <1>1, <2>2 DEF OpenTmp
      <3>4. ASSUME NEW t \in Savers
            PROVE  /\ save'[t].pc \in {"write", "lock", "rename"} =>
                          file'[save'[t].name].exists \/ t \in settled'
                   /\ save'[t].pc \in {"unlock", "finish"} => t \in settled'
        <4>1. CASE t = s
          BY <3>2, <3>3, <4>1
        <4>2. CASE t # s
          <5>1. save[t].pc \in {"write", "lock", "rename"} => save[t].name \in Names
            BY DEF Named, Names
          <5>2. save'[t] = save[t]
            BY <3>3, <4>2
          <5> QED
            BY <3>2, <5>1, <5>2, StaysSettled DEF Promised
        <4> QED
          BY <4>1, <4>2
      <3> QED
        BY <3>4 DEF Promised
    <2>3. ASSUME NEW s \in Savers, NEW k \in Keys, WriteSlot(s, k) PROVE Promised'
      <3>1. \A n \in Names : file'[n].exists = file[n].exists
        BY <1>1, <2>3 DEF WriteSlot, File
      <3>2. \A t \in Savers : save'[t].pc = save[t].pc /\ save'[t].name = save[t].name
        BY <1>1, <2>3 DEF WriteSlot, Save
      <3> QED
        BY <3>1, <3>2, PromisedKept
    <2>4. ASSUME NEW s \in Savers, CloseTmp(s) \/ CloseCut(s) \/ LockFile(s) PROVE Promised'
      <3>1. \A n \in Names : file'[n].exists = file[n].exists
        BY <1>1, <2>4 DEF CloseTmp, CloseCut, LockFile, File
      <3>2. /\ save[s].pc \in {"write", "lock"} /\ save'[s].pc \in {"lock", "rename"}
            /\ save'[s].name = save[s].name
            /\ \A t \in Savers \ {s} : save'[t] = save[t]
        BY <1>1, <2>4 DEF CloseTmp, CloseCut, LockFile, Save
      <3>3. \A t \in Savers : save[t].pc \in {"write", "lock", "rename"} => save[t].name \in Names
        BY DEF Named, Names
      <3>4. \A t \in Savers : /\ save'[t].name = save[t].name
                              /\ save'[t].pc = save[t].pc \/ t = s
        BY <3>2
      <3> QED
        BY <3>1, <3>2, <3>3, <3>4, StaysSettled DEF Promised
    <2>5. ASSUME NEW s \in Savers, SaveFails(s) PROVE Promised'
      <3>1. fails' # fails /\ UNCHANGED file
        BY <2>5, ConstantsAssumption DEF SaveFails, StopTypeOK, TypeOK
      <3>2. /\ save[s].pc = "write" /\ save'[s].pc = "finish"
            /\ \A t \in Savers \ {s} : save'[t] = save[t]
        BY <1>1, <2>5 DEF SaveFails, Save
      <3>3. s \in settled'
        BY <3>1, <3>2 DEF Watched
      <3> QED
        BY <3>1, <3>2, <3>3, StaysSettled DEF Promised
    <2>6. ASSUME NEW s \in Savers, Rename(s) PROVE Promised'
      <3>1. CASE file[save[s].name].exists
        <4>1. save'[s].pc = "unlock" /\ save[s].pc = "rename"
          <5>1. save' = [t \in Savers |->
                   [save[t] EXCEPT !.pc = IF t = s THEN "unlock" ELSE @,
                                   !.handle = Moved(@, save[s].name)]]
            BY <2>6, <3>1 DEF Rename
          <5> QED
            BY <1>1, <2>6, <5>1 DEF Rename, Save
        <4>2. settled' = Savers
          BY <3>1, <4>1 DEF Watched, Publishes
        <4> QED
          BY <4>2 DEF Promised
      <3>2. CASE ~file[save[s].name].exists
        <4>1. /\ save[s].pc = "rename" /\ save'[s].pc = "unlock" /\ UNCHANGED file
              /\ \A t \in Savers \ {s} : save'[t] = save[t]
          BY <1>1, <2>6, <3>2 DEF Rename, Save
        <4>2. s \in settled'
          BY <3>2, <4>1, StaysSettled DEF Promised
        <4> QED
          BY <4>1, <4>2, StaysSettled DEF Promised
      <3> QED
        BY <3>1, <3>2
    <2>7. ASSUME NEW s \in Savers, UnlockFile(s) PROVE Promised'
      <3>1. /\ save[s].pc = "unlock" /\ save'[s].pc = "finish" /\ UNCHANGED file
            /\ \A t \in Savers \ {s} : save'[t] = save[t]
        BY <1>1, <2>7 DEF UnlockFile, Save
      <3> QED
        BY <3>1, StaysSettled DEF Promised
    <2>8. CASE Crash
      <3>1. UNCHANGED file /\ \A t \in Savers : save'[t].pc = "idle"
        BY <2>8 DEF Crash, IdleSave
      <3> QED
        BY <3>1, PromisedKept
    <2>9. CASE UNCHANGED <<save, file>>
      BY <2>9, PromisedKept
    <2> QED
      BY <2>0, <2>1, <2>2, <2>3, <2>4, <2>5, <2>6, <2>7, <2>8, <2>9
      DEF Next, Build, SaveStep, ReportKey, ReadNode, LockTree, PutKey, EraseKey,
          ReaderLocks, ReaderUnlocks, Tick, Restart
  <1> QED
    BY <1>2, <1>3

\* "file store complete!" and exit(0) stand for a data file that was replaced
\* after the store began, for any number of savers of the same hour, unless
\* the save failed.
THEOREM StoresPublish == WatchedSpec => []StorePublishes
  <1> DEFINE Inv == StopTypeOK /\ Named /\ StopUp /\ Promised
  <1>1. Init /\ stop = "no" /\ settled = {} /\ alone = FALSE /\ owed = {} => Inv
    BY StopTypeInit DEF Init, Promised, IdleSave
  <1>2. Inv /\ [StopNext /\ Watched]_saverVars => Inv'
    <2>1. CASE UNCHANGED saverVars
      BY <2>1, StopTypeNext DEF saverVars, stopVars, vars, Promised
    <2> QED
      BY <2>1, StopTypeNext, PromisedNext
  <1>3. Inv => StorePublishes
    BY DEF Promised, StorePublishes
  <1> QED
    BY <1>1, <1>2, <1>3, PTL DEF WatchedSpec, WatchedInit, StopInit
-----------------------------------------------------------------------------
(***************************************************************************)
(* SIGTERM.  As long as the handler is alone, its temporary file is its    *)
(* own, and each slot it is done with holds what is owed.                  *)
(***************************************************************************)
Slot(f, k) == f.slot[k] # Hole /\ (k \in owed => f.slot[k] # Absent)
Kept(f) == f.exists /\ f.end = "closed" /\ \A k \in Keys : Slot(f, k)

Carried ==
    LET mine == save[Handler]
    IN  /\ \A s \in Others : save[s] = IdleSave
        /\ stop \in {"storing", "exiting"}
        /\ stop = "exiting" => mine = IdleSave /\ Kept(file[Data])
        /\ stop = "storing" =>
             /\ owed \subseteq Stored
             /\ mine.pc = "write" =>
                  /\ mine.handle = mine.name
                  /\ file[mine.name].exists
                  /\ \A k \in Keys \ mine.left : Slot(file[mine.name], k)
             /\ mine.pc \in {"lock", "rename"} => Kept(file[mine.name])
             /\ mine.pc \in {"unlock", "finish"} => Kept(file[Data])

\* Until the signal the handler has no flush.
HandlerWaits == stop = "no" => save[Handler] = IdleSave

CarriedInv == StopTypeOK /\ Named /\ StopUp /\ HandlerWaits /\ (alone => Carried)

LEMMA WaitsNext ==
    ASSUME TypeOK, Named, HandlerWaits, StopNext
    PROVE  HandlerWaits'
  <1>1. /\ save \in [Savers -> Save] /\ Handler \in Savers /\ Handler \notin Others
        /\ Others \subseteq Savers /\ None \notin Names /\ Hours \subseteq Names /\ Data \in Names
    BY HandlerIsSaver, ConstantsAssumption DEF TypeOK, Others, Names
  <1>2. CASE OwnStep
    BY <1>1, <1>2 DEF OwnStep, Term, TermLoading, Exit, ExitEnds, HandlerWaits
  <1>3. CASE stop # "loading" /\ Threads /\ UNCHANGED stop
    <2>1. ASSUME NEW s \in Others, Rename(s), save[Handler] = IdleSave
          PROVE  save'[Handler] = IdleSave
      <3>1. s \in Savers /\ s # Handler /\ save[s].name \in Names
        BY <1>1, <2>1 DEF Rename, Named
      <3>2. CASE file[save[s].name].exists
        <4>1. save' = [t \in Savers |->
                 [save[t] EXCEPT !.pc = IF t = s THEN "unlock" ELSE @,
                                 !.handle = Moved(@, save[s].name)]]
          BY <2>1, <3>2 DEF Rename
        <4>2. Moved(None, save[s].name) = None
          BY <1>1, <3>1 DEF Moved
        <4> QED
          <5>1. save'[Handler] = [save[Handler] EXCEPT !.pc = save[Handler].pc,
                                       !.handle = Moved(save[Handler].handle, save[s].name)]
            BY <1>1, <3>1, <4>1
          <5>2. save[Handler].handle = None /\ save[Handler].pc = "idle"
            BY <2>1 DEF IdleSave
          <5>3. save'[Handler] = [IdleSave EXCEPT !.pc = "idle", !.handle = None]
            BY <2>1, <4>2, <5>1, <5>2
          <5> QED
            BY <5>3 DEF IdleSave
      <3>3. CASE ~file[save[s].name].exists
        BY <1>1, <2>1, <3>1, <3>3 DEF Rename
      <3> QED
        BY <3>2, <3>3
    <2>2. ASSUME NEW s \in Others,
                 BeginStore(s) \/ OpenTmp(s) \/ (\E k \in Keys : WriteSlot(s, k)) \/ CloseTmp(s)
                   \/ CloseCut(s) \/ SaveFails(s) \/ LockFile(s) \/ UnlockFile(s) \/ FinishStore(s)
          PROVE  save'[Handler] = save[Handler]
      BY <1>1, <2>2 DEF BeginStore, OpenTmp, WriteSlot, CloseTmp, CloseCut, SaveFails,
                        LockFile, UnlockFile, FinishStore
    <2>3. ASSUME NEW w \in Workers, Build(w) PROVE save' = save
      BY <2>3 DEF Build, ReportKey, ReadNode, LockTree, PutKey
    <2>4. ASSUME NEW k \in Keys, EraseKey(k) PROVE save' = save
      BY <2>4 DEF EraseKey
    <2> QED
      BY <1>3, <2>1, <2>2, <2>3, <2>4 DEF Threads, SaveStep, HandlerWaits
  <1>4. CASE /\ HandlerStep \/ SaveFails(Handler) \/ CloseCut(Handler) \/ LockFile(Handler)
             /\ UNCHANGED stop
    <2>1. save[Handler].pc # "idle"
      BY <1>4 DEF HandlerStep, OpenTmp, WriteSlot, CloseTmp, CloseCut, SaveFails, LockFile,
                  Rename, UnlockFile
    <2> QED
      BY <1>4, <2>1 DEF HandlerWaits, IdleSave
  <1>5. CASE (ReaderLocks \/ ReaderUnlocks \/ Tick \/ Restart) /\ UNCHANGED stop
    BY <1>5 DEF ReaderLocks, ReaderUnlocks, Tick, Restart, HandlerWaits
  <1>6. CASE Crash
    BY <1>1, <1>6 DEF Crash, HandlerWaits
  <1> QED
    BY <1>2, <1>3, <1>4, <1>5, <1>6 DEF StopNext, OwnStep

\* What is owed becomes less only.
LEMMA OwedShrinks ==
    ASSUME CarriedInv, StopTypeOK', StopNext, Watched, alone, alone'
    PROVE  /\ Carried
           /\ owed' \subseteq owed
           /\ fails' = fails
           /\ \A s \in Others : save[s] = IdleSave /\ save'[s] = IdleSave
           /\ stop' = "storing" => stop = "storing" /\ owed' \subseteq Stored'
  <1>1. Carried /\ stop \in {"storing", "exiting"} /\ stop' \in {"storing", "exiting"}
    BY DEF CarriedInv, Carried, Watched
  <1>2. stop' = "storing" => stop = "storing"
    <2>1. CASE OwnStep
      BY <1>1, <2>1 DEF OwnStep, Term, TermLoading, Exit, ExitEnds
    <2>2. CASE ~OwnStep
      BY <1>1, <2>2, StepKinds
    <2> QED
      BY <2>1, <2>2
  <1>3. fails' = fails /\ \A s \in Others : save'[s] = IdleSave
    BY DEF Watched
  <1>4. owed' = IF stop' = "storing" THEN owed \cap Stored' ELSE owed
    BY <1>1, <1>2 DEF Watched
  <1> QED
    BY <1>1, <1>2, <1>3, <1>4 DEF Carried

\* A step that leaves the files and the saver's place alone, or takes it from
\* lock to rename and from unlock to finish.
LEMMA CarriedKept ==
    ASSUME CarriedInv, StopTypeOK', StopNext, Watched, alone, alone'
    PROVE  /\ UNCHANGED file /\ stop' = stop
           /\ \/ save'[Handler] = save[Handler]
              \/ /\ save[Handler].pc = "lock" /\ save'[Handler].pc = "rename"
                 /\ save'[Handler].name = save[Handler].name
              \/ save[Handler].pc = "unlock" /\ save'[Handler].pc = "finish"
           => Carried'
  <1> SUFFICES ASSUME UNCHANGED file, stop' = stop,
                      \/ save'[Handler] = save[Handler]
                      \/ /\ save[Handler].pc = "lock" /\ save'[Handler].pc = "rename"
                         /\ save'[Handler].name = save[Handler].name
                      \/ save[Handler].pc = "unlock" /\ save'[Handler].pc = "finish"
               PROVE  Carried'
    OBVIOUS
  <1>1. /\ Carried /\ owed' \subseteq owed
        /\ \A s \in Others : save'[s] = IdleSave
        /\ stop' = "storing" => owed' \subseteq Stored'
    BY OwedShrinks
  <1>2. \A n, k : Slot(file[n], k) => Slot(file[n], k)'
    BY <1>1 DEF Slot
  <1>3. \A n : Kept(file[n]) => Kept(file[n])'
    BY <1>2 DEF Kept
  <1>4. CASE stop = "exiting"
    <2>1. save'[Handler] = save[Handler] /\ save[Handler] = IdleSave /\ Kept(file[Data])'
      BY <1>1, <1>3, <1>4 DEF Carried, IdleSave
    <2> QED
      BY <1>1, <1>4, <2>1 DEF Carried
  <1>5. CASE stop = "storing"
    <2>1. CASE save'[Handler] = save[Handler]
      BY <1>1, <1>2, <1>3, <1>5, <2>1 DEF Carried
    <2>2. CASE /\ save[Handler].pc = "lock" /\ save'[Handler].pc = "rename"
               /\ save'[Handler].name = save[Handler].name
      <3>1. Kept(file[save[Handler].name])'
        BY <1>1, <1>3, <1>5, <2>2 DEF Carried
      <3> QED
        BY <1>1, <1>5, <2>2, <3>1 DEF Carried
    <2>3. CASE save[Handler].pc = "unlock" /\ save'[Handler].pc = "finish"
      <3>1. Kept(file[Data])'
        BY <1>1, <1>3, <1>5, <2>3 DEF Carried
      <3> QED
        BY <1>1, <1>5, <2>3, <3>1 DEF Carried
    <2> QED
      BY <2>1, <2>2, <2>3
  <1> QED
    BY <1>1, <1>4, <1>5 DEF Carried

LEMMA HandlerStepCarries ==
    ASSUME CarriedInv, StopTypeOK', StopNext, Watched, alone, alone', HandlerStep,
           stop' = stop
    PROVE  Carried'
  <1> DEFINE mine == save[Handler]
             name == save[Handler].name
  <1>1. /\ save \in [Savers -> Save] /\ file \in [Names -> File] /\ Handler \in Savers
        /\ clock \in Times /\ tree \in [Keys -> Times \cup {Absent}]
        /\ Data \in Names /\ Data \notin Hours /\ Hours \subseteq Names
    BY HandlerIsSaver, ConstantsAssumption DEF CarriedInv, StopTypeOK, TypeOK, Names
  <1>2. /\ Carried /\ owed' \subseteq owed
        /\ \A s \in Others : save'[s] = IdleSave
        /\ stop \in {"storing", "exiting"}
    BY OwedShrinks DEF Carried
  <1>3. mine.pc \in {"open", "write", "rename", "unlock"}
    BY DEF HandlerStep, OpenTmp, WriteSlot, CloseTmp, Rename, UnlockFile
  <1>4. stop = "storing" /\ stop' = "storing" /\ owed' \subseteq Stored'
    BY <1>2, <1>3, OwedShrinks DEF Carried, IdleSave
  <1>5. CASE OpenTmp(Handler)
    <2>1. HourOf(clock) \in Names
      BY <1>1, NamesOfTimes
    <2>2. /\ save'[Handler] = [pc |-> "write", name |-> HourOf(clock),
                               handle |-> HourOf(clock), left |-> Keys]
          /\ file'[HourOf(clock)] = NewFile
      BY <1>1, <1>5, <2>1 DEF OpenTmp
    <2> QED
      BY <1>2, <1>4, <2>2 DEF Carried, NewFile, NoFile
  <1>6. ASSUME NEW k \in Keys, WriteSlot(Handler, k) PROVE Carried'
    <2>1. name \in Names /\ mine.pc = "write" /\ mine.handle = name /\ file[name].exists
      BY <1>1, <1>2, <1>4, <1>6 DEF WriteSlot, CarriedInv, Named, Carried
    <2>2. /\ file'[name] = [file[name] EXCEPT !.slot[k] = tree[k]]
          /\ save'[Handler] = [mine EXCEPT !.left = @ \ {k}]
      BY <1>1, <1>6, <2>1 DEF WriteSlot
    <2>3. /\ save'[Handler].pc = "write" /\ save'[Handler].name = name
          /\ save'[Handler].handle = name /\ save'[Handler].left = mine.left \ {k}
      BY <1>1, <2>1, <2>2 DEF Save
    <2>4. /\ file'[name].exists
          /\ file'[name].slot = [file[name].slot EXCEPT ![k] = tree[k]]
          /\ file[name].slot \in [Keys -> Slots]
      BY <1>1, <2>1, <2>2 DEF File
    <2>5. tree[k] # Hole /\ (k \in owed => tree[k] # Absent)
      BY <1>1, <1>2, <1>4, TimesAreNat DEF Carried, Stored, Hole, Absent
    <2>6. \A j \in Keys \ save'[Handler].left :
             file'[name].slot[j] # Hole /\ (j \in owed' => file'[name].slot[j] # Absent)
      BY <1>2, <1>4, <2>1, <2>3, <2>4, <2>5 DEF Carried, Slot
    <2> QED
      BY <1>2, <1>4, <2>3, <2>4, <2>6 DEF Carried, Slot
  <1>7. CASE CloseTmp(Handler)
    <2>1. name \in Names /\ mine.pc = "write" /\ mine.handle = name /\ file[name].exists
      BY <1>1, <1>2, <1>4, <1>7 DEF CloseTmp, CarriedInv, Named, Carried
    <2>2. /\ file'[name] = [file[name] EXCEPT !.end = "closed"]
          /\ save'[Handler].pc = "lock" /\ save'[Handler].name = name
      BY <1>1, <1>7, <2>1 DEF CloseTmp, Save
    <2>3. file'[name].exists /\ file'[name].end = "closed" /\ file'[name].slot = file[name].slot
      BY <1>1, <2>1, <2>2 DEF File
    <2>4. \A k \in Keys : Slot(file[name], k)
      BY <1>2, <1>4, <1>7, <2>1 DEF CloseTmp, Carried
    <2>5. \A k \in Keys : file'[name].slot[k] # Hole
                            /\ (k \in owed' => file'[name].slot[k] # Absent)
      BY <1>2, <2>3, <2>4 DEF Slot
    <2>6. Kept(file[save[Handler].name])'
      BY <2>2, <2>3, <2>5 DEF Kept, Slot
    <2> QED
      BY <1>2, <1>4, <2>2, <2>6 DEF Carried
  <1>8. CASE Rename(Handler)
    <2>1. name \in Names /\ mine.pc = "rename" /\ Kept(file[name]) /\ file[name].exists
      BY <1>1, <1>2, <1>4, <1>8 DEF Rename, CarriedInv, Named, Carried, Kept
    <2>0. name # Data
      BY <1>1, <1>8 DEF Rename, CarriedInv, Named
    <2>2. /\ file'[Data] = file[name]
          /\ save' = [t \in Savers |->
                [save[t] EXCEPT !.pc = IF t = Handler THEN "unlock" ELSE @,
                                !.handle = Moved(@, name)]]
      BY <1>1, <1>8, <2>1, <2>0 DEF Rename
    <2>3. save'[Handler].pc = "unlock"
      BY <1>1, <2>2 DEF Save
    <2>4. Kept(file[Data])'
      BY <1>2, <2>1, <2>2 DEF Kept, Slot
    <2> QED
      BY <1>2, <1>4, <2>3, <2>4 DEF Carried
  <1>9. CASE UnlockFile(Handler)
    <2>1. UNCHANGED file /\ mine.pc = "unlock" /\ save'[Handler].pc = "finish"
      BY <1>1, <1>9 DEF UnlockFile, Save
    <2> QED
      BY <2>1, CarriedKept
  <1> QED
    BY <1>5, <1>6, <1>7, <1>8, <1>9 DEF HandlerStep

LEMMA CarriedAlone ==
    ASSUME CarriedInv, StopTypeOK', StopNext, Watched, alone, alone'
    PROVE  Carried'
  <1>0. save \in [Savers -> Save] /\ Handler \in Savers
    BY HandlerIsSaver DEF CarriedInv, StopTypeOK, TypeOK
  <1>1. /\ Carried /\ owed' \subseteq owed /\ fails' = fails
        /\ \A s \in Others : save[s] = IdleSave /\ save'[s] = IdleSave
        /\ stop \in {"storing", "exiting"} /\ stop' \in {"storing", "exiting"}
    BY OwedShrinks DEF Carried, Watched
  <1>2. CASE Exit
    <2>1. /\ stop' = "exiting" /\ UNCHANGED file /\ save'[Handler] = IdleSave
          /\ save[Handler].pc = "finish"
      BY <1>0, <1>2 DEF Exit
    <2>2. stop = "storing"
      BY <1>1, <2>1 DEF Carried, IdleSave
    <2> QED
      BY <1>1, <2>1, <2>2 DEF Carried, Kept, Slot
  <1>3. ~Term /\ ~TermLoading /\ ~ExitEnds
    BY <1>1 DEF Term, TermLoading, ExitEnds
  <1>4. CASE ~Exit
    <2>0. ~OwnStep
      BY <1>3, <1>4 DEF OwnStep
    <2>1. stop' = stop
      BY <1>1, <2>0, StepKinds
    <2>2. CASE HandlerStep
      BY <2>1, <2>2, HandlerStepCarries
    <2>3. CASE LockFile(Handler)
      <3>1. /\ UNCHANGED file /\ save[Handler].pc = "lock" /\ save'[Handler].pc = "rename"
            /\ save'[Handler].name = save[Handler].name
        BY <1>0, <2>3 DEF LockFile, Save
      <3> QED
        BY <2>1, <3>1, CarriedKept
    <2>4. ~SaveFails(Handler) /\ ~CloseCut(Handler)
      BY <1>1 DEF SaveFails, CloseCut, CarriedInv, StopTypeOK, TypeOK
    <2>5. CASE Threads
      <3>1. ASSUME NEW s \in Others
            PROVE  ~(BeginStore(s) \/ SaveStep(s) \/ SaveFails(s) \/ CloseCut(s) \/ LockFile(s))
        <5>1. save[s].pc = "idle" /\ save'[s].pc = "idle" /\ s \in Savers
          BY <1>1 DEF IdleSave, Others
        <5>2. ~BeginStore(s)
          BY <1>0, <5>1 DEF BeginStore, Save
        <5> QED
          BY <5>1, <5>2 DEF SaveStep, SaveFails, CloseCut, LockFile, OpenTmp, WriteSlot, CloseTmp,
                            Rename, UnlockFile, FinishStore
      <3>2. UNCHANGED <<save, file>>
        BY <2>5, <3>1 DEF Threads, Build, ReportKey, ReadNode, LockTree, PutKey, EraseKey
      <3> QED
        BY <2>1, <3>2, CarriedKept
    <2>6. CASE ReaderLocks \/ ReaderUnlocks \/ Tick \/ Restart
      <3>1. UNCHANGED <<save, file>>
        BY <2>6 DEF ReaderLocks, ReaderUnlocks, Tick, Restart
      <3>2. save'[Handler] = save[Handler]
        BY <3>1
      <3>3. UNCHANGED file
        BY <3>1
      <3> QED
        BY <2>1, <3>2, <3>3, CarriedKept
    <2>7. CASE Crash /\ stop' = "no"
      BY <1>1, <2>7
    <2> QED
      BY <2>0, <2>2, <2>3, <2>4, <2>5, <2>6, <2>7 DEF StopNext, OwnStep
  <1> QED
    BY <1>2, <1>4

LEMMA CarriedNext ==
    ASSUME CarriedInv, StopTypeOK', StopNext, Watched, alone'
    PROVE  Carried'
  <1>1. save \in [Savers -> Save] /\ Handler \in Savers
    BY HandlerIsSaver DEF CarriedInv, StopTypeOK, TypeOK
  <1>2. CASE ~alone
    <2>1. stop = "no" /\ stop' \in {"storing", "exiting"} /\ \A s \in Others : save'[s] = IdleSave
      BY <1>2 DEF Watched
    <2>2. OwnStep
      BY <2>1, StepKinds
    <2>3. CASE Term
      <3>1. save'[Handler].pc = "open" /\ stop' = "storing"
        BY <1>1, <2>3 DEF Term, Save
      <3>2. owed' \subseteq Stored'
        BY <2>1, <2>3, <3>1 DEF Watched, Term, Stored
      <3> QED
        BY <2>1, <3>1, <3>2 DEF Carried
    <2>4. ~TermLoading /\ ~ExitEnds
      BY <2>1 DEF TermLoading, ExitEnds
    <2>5. ~Exit
      BY <2>1 DEF Exit, CarriedInv, HandlerWaits, IdleSave
    <2> QED
      BY <2>2, <2>3, <2>4, <2>5 DEF OwnStep
  <1>3. CASE alone
    BY <1>3, CarriedAlone
  <1> QED
    BY <1>2, <1>3

\* A SIGTERM that meets no other saver loses nothing: when stopApp is at
\* exit(0), every key that was in memory at the signal and that no client
\* erased is in a whole data file, for any number of workers, keys and hours.
THEOREM SignalKeeps == WatchedSpec => []StopsKeep
  <1>1. Init /\ stop = "no" /\ settled = {} /\ alone = FALSE /\ owed = {} => CarriedInv
    BY StopTypeInit, HandlerIsSaver DEF CarriedInv, Init, HandlerWaits
  <1>2. CarriedInv /\ [StopNext /\ Watched]_saverVars => CarriedInv'
    <2> SUFFICES ASSUME CarriedInv, [StopNext /\ Watched]_saverVars PROVE CarriedInv'
      OBVIOUS
    <2>1. StopTypeOK' /\ Named' /\ StopUp'
      BY StopTypeNext DEF CarriedInv
    <2>2. CASE UNCHANGED saverVars
      BY <2>1, <2>2
      DEF CarriedInv, HandlerWaits, saverVars, stopVars, vars, Carried, Kept, Slot, Stored
    <2>3. CASE StopNext /\ Watched
      <3>1. HandlerWaits'
        BY <2>3, WaitsNext DEF CarriedInv, StopTypeOK
      <3> QED
        BY <2>1, <2>3, <3>1, CarriedNext DEF CarriedInv
    <2> QED
      BY <2>2, <2>3
  <1>3. CarriedInv => StopsKeep
    <2> SUFFICES ASSUME CarriedInv, stop = "exiting", alone
                 PROVE  Complete(file[Data]) /\ \A k \in owed : Has(file[Data], k)
      BY DEF StopsKeep
    <2>1. Kept(file[Data]) /\ owed \subseteq Keys
      BY DEF CarriedInv, Carried, StopTypeOK
    <2> QED
      BY <2>1 DEF Kept, Slot, Complete, Has
  <1> QED
    BY <1>1, <1>2, <1>3, PTL DEF WatchedSpec, WatchedInit, StopInit
=============================================================================
