------------------------------ MODULE StorePair ------------------------------
(***************************************************************************)
(* A write node and a read node on one machine, composed: they share the   *)
(* data file and the lock on storeLockFile.  WriteNode and ReadNode each   *)
(* leave the other node to an environment (ReaderLocks, ReaderUnlocks;     *)
(* Publish, WriterLocks, WriterUnlocks).  Here a node only takes its own   *)
(* steps, and that they are steps of the other one's environment is what   *)
(* is checked.  Queries have no part in it, so none is asked, and erasing  *)
(* on the read node, which is theirs to notice, is left out with them.     *)
(***************************************************************************)
EXTENDS Integers

CONSTANTS
    Keys, Workers, StoreThread, Format, KeyExpire, HourLen, StartTime,
    MaxTime, MaxStall, MaxFails, MaxCrashes, Data, Detached,
    MaxVersion, Size, Delay, MaxLoadFails, Reader, Writer, None

Savers == {StoreThread}

VARIABLES
    up, clock, tree, storeFlag, mtx, job, save, file, flock, fails, crashes,
    rup, pc, buf, pre, loaded, my, swap, swapFlag, query, rfails,
    version,  \* of the data file: 1 as long as there is none
    age,      \* of the mtime of the data file
    tmpAge,   \* of the mtime of the temporary file that waits for its rename
    cuts      \* history: the versions whose last buffer was lost

W == INSTANCE WriteNode

\* The data file as the read node finds it.
End ==
    CASE ~file[Data].exists \/ W!Complete(file[Data]) -> "closed"
      [] file[Data].exists /\ file[Data].end = "cut" -> "cut"
      [] OTHER -> "open"

R == INSTANCE ReadNode WITH
    up <- rup,
    file <- [ver |-> version, age |-> age, end |-> End],
    flock <- IF flock = StoreThread THEN Writer ELSE flock,
    dataLock <- CHOOSE holder \in {None} : TRUE,  \* nobody locks the data file itself
    fails <- rfails, MaxFails <- MaxLoadFails,
    Queries <- {},
    InPlace <- FALSE

ASSUME PairAssumption == W!ConstantsAssumption /\ R!ConstantsAssumption

memory == <<up, clock, tree, storeFlag, mtx, job, save, fails, crashes>>
writerVars == <<memory, file, flock>>
readerVars == <<rup, pc, buf, pre, loaded, my, swap, swapFlag, query, rfails>>
mtimes == <<version, age, tmpAge, cuts>>
pairVars == <<writerVars, readerVars, mtimes>>

Init ==
    /\ W!Init
    /\ version = 1 /\ age = Delay /\ tmpAge = 0 /\ cuts = {}
    /\ R!Init
-----------------------------------------------------------------------------
(***************************************************************************)
(* Steps of the write node.                                                *)
(***************************************************************************)
\* One flush per version that is left.
BeginStore ==
    /\ version < MaxVersion
    /\ W!BeginStore(StoreThread)
    /\ UNCHANGED <<readerVars, mtimes>>

CloseTmp ==
    /\ W!CloseTmp(StoreThread)
    /\ tmpAge' = 0
    /\ UNCHANGED <<readerVars, version, age, cuts>>

CloseCut ==
    /\ W!CloseCut(StoreThread)
    /\ tmpAge' = 0
    /\ UNCHANGED <<readerVars, version, age, cuts>>

\* rename keeps the mtime.
Rename ==
    /\ W!Rename(StoreThread)
    /\ version' = version + 1
    /\ age' = tmpAge
    /\ tmpAge' = 0
    /\ cuts' = IF file'[Data].end = "cut" THEN cuts \cup {version'} ELSE cuts
    /\ UNCHANGED readerVars

LockFile == W!LockFile(StoreThread) /\ UNCHANGED <<readerVars, mtimes>>

SaveStep ==
    /\ \/ W!OpenTmp(StoreThread)
       \/ \E k \in Keys : W!WriteSlot(StoreThread, k)
       \/ W!UnlockFile(StoreThread)
       \/ W!FinishStore(StoreThread)
    /\ UNCHANGED <<readerVars, mtimes>>

WriterStep ==
    /\ \/ \E w \in Workers : W!Build(w)
       \/ \E k \in Keys : W!EraseKey(k)
       \/ W!SaveFails(StoreThread)
       \/ W!Restart
    /\ UNCHANGED <<readerVars, mtimes>>

WriterDies ==
    /\ W!Crash
    /\ tmpAge' = 0
    /\ UNCHANGED <<readerVars, version, age, cuts>>
-----------------------------------------------------------------------------
(***************************************************************************)
(* Steps of the read node.  Its main goes on only if the data file exists. *)
(***************************************************************************)
Start ==
    /\ file[Data].exists
    /\ UNCHANGED <<writerVars, mtimes>>
    /\ R!Start

ReaderStep ==
    /\ UNCHANGED <<writerVars, mtimes>>
    /\ \/ R!Stat \/ R!Settle \/ R!Load
       \/ R!RaiseFlag \/ R!ClearTree \/ R!AssignTree \/ R!LowerFlag \/ R!DropSwap

LockStore ==
    /\ flock' = Reader
    /\ UNCHANGED <<memory, file, mtimes>>
    /\ R!LockStore

\* What becomes of the lock is up to ReadNode.
UnlockStore ==
    /\ flock' \in {flock, None}
    /\ UNCHANGED <<memory, file, mtimes>>
    /\ R!UnlockStore

ReaderDies ==
    /\ flock' \in {flock, None}
    /\ UNCHANGED <<memory, file, mtimes>>
    /\ R!Die

\* Ages go by in the steps of ReadNode; the clock of the write node, which only
\* names the temporary file and the times of keys, stands still.
TimePasses ==
    /\ age' = R!Older(age)
    /\ tmpAge' = IF save[StoreThread].pc \in {"lock", "rename"} THEN R!Older(tmpAge) ELSE tmpAge
    /\ UNCHANGED <<writerVars, version, cuts>>
    /\ R!Tick
-----------------------------------------------------------------------------
Next ==
    \/ BeginStore \/ SaveStep \/ CloseTmp \/ CloseCut \/ LockFile \/ Rename
    \/ WriterStep \/ WriterDies
    \/ Start \/ ReaderStep \/ LockStore \/ UnlockStore \/ ReaderDies
    \/ TimePasses

Spec == Init /\ [][Next]_pairVars

\* The threads of both nodes go on and time passes; nothing is assumed of what
\* a node finds the other one doing with the lock.
Fairness ==
    /\ WF_pairVars(SaveStep \/ CloseTmp \/ Rename) /\ SF_pairVars(LockFile)
    /\ WF_pairVars(ReaderStep \/ UnlockStore) /\ SF_pairVars(LockStore)
    /\ WF_pairVars(TimePasses)

FairSpec == Spec /\ Fairness
-----------------------------------------------------------------------------
\* To the write node the read node is the environment WriteNode assumes: it
\* takes a lock that is free and gives back its own.
WriterAsModelled == W!Spec

\* To the read node the write node is the environment ReadNode assumes: finished
\* files replace older ones, whole or without what their last buffer held, and
\* the lock it has is never taken from it.
ReaderAsModelled == R!Spec

\* The file that reloadStore reads is not replaced while it reads it.
StableWhileLoading == [][rup /\ pc = "load" => file'[Data] = file[Data]]_pairVars

\* What a load may leave: all of a published file, a part of one that was cut, or
\* nothing.
Published(t) ==
    \/ t.whole /\ t.ver \in 1 .. version
    \/ ~t.whole /\ t.ver \in cuts
    \/ t = R!Empty /\ (cuts # {} \/ rfails > 0)

\* As long as the read node is up its queries are sent to all of a file that was
\* published, at startup, during the swap and while the write node writes, fails
\* or dies: to a part only of a version that was cut, and to an empty tree only if
\* a version was cut or a load failed.
ServesWhole == rup => Published(R!Selected)

\* Reports are not dropped for ever, although the read node loads and comes
\* back for the lock.
IngestResumes == W!IngestResumes
=============================================================================
