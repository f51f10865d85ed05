------------------------------ MODULE WriteNode ------------------------------
(***************************************************************************)
(* The write node: network threads put reported metric keys into the tree  *)
(* in memory (buildTree), the store thread flushes the tree to the data    *)
(* file every flushInterval (storeThread), a client may ask for the same   *)
(* flush ("store", runCmd) or delete a key ("erase"), and a restarted      *)
(* process loads the data file back (main, load, treeLoad).                *)
(*                                                                         *)
(* A metric key is a model value; the tree is the time stored under each   *)
(* key.  A file is an image of the tree written slot by slot: ofstream     *)
(* flushes its buffer many times, so a file is seen half written by        *)
(* whoever opens it early.                                                 *)
(***************************************************************************)
EXTENDS Integers

CONSTANTS
    Keys,         \* metric keys
    Workers,      \* network threads running buildTree
    Savers,       \* threads that may run the "store" command
    StoreThread,  \* the one of them that runs it periodically
    Format,       \* "xml" or "archive": what the extension of dataDir selects
    KeyExpire,    \* KEY_EXPIRE_TIME
    HourLen,      \* length of the hour that names the temporary file
    StartTime,    \* the clock when the process starts
    MaxTime,      \* bound: the clock stops there
    MaxStall,     \* bound: longest time one buildTree call is in progress
    MaxFails,     \* bound: number of saves that go wrong, noticed or not
    MaxCrashes,   \* bound: number of times the process dies
    Data,         \* the name of the data file
    Detached,     \* an open file that no name refers to any more
    Reader,       \* the read node on the same machine, as a lock holder
    None

Times == StartTime .. MaxTime
HourOf(t) == t \div HourLen
Hours == {HourOf(t) : t \in Times}
Names == Hours \cup {Data}

ASSUME ConstantsAssumption ==
    /\ StoreThread \in Savers
    /\ Format \in {"xml", "archive"}
    /\ KeyExpire \in Nat /\ HourLen \in Nat \ {0} /\ MaxStall \in Nat
    /\ StartTime \in Nat /\ MaxTime \in Nat
    \* 300 s after the epoch is long past: a key read as 0 is always refreshed
    /\ KeyExpire < StartTime /\ StartTime <= MaxTime
    /\ MaxFails \in Nat /\ MaxCrashes \in Nat
    /\ Data \notin Hours
    /\ None \notin Workers /\ None \notin Savers /\ None \notin Keys
    /\ Reader \notin Savers /\ Reader # None
    /\ None \notin Names /\ Detached \notin Names /\ Detached # None

VARIABLES
    up,         \* the process runs
    clock,      \* time(NULL)
    tree,       \* myTree: the time stored under each key
    storeFlag,  \* the global storeFlag: buildTree drops while it is raised
    mtx,        \* mtx_: the worker that holds it
    job,        \* what each worker has in hand in buildTree
    save,       \* where each saver is in the "store" command
    file,       \* the files on disk, by name
    flock,      \* holder of the lock on storeLockFile
    fails,      \* saves that went wrong so far
    crashes     \* deaths so far

vars == <<up, clock, tree, storeFlag, mtx, job, save, file, flock, fails, crashes>>
-----------------------------------------------------------------------------
Absent == 0     \* myTree.get<time_t>(key, 0) of a key that is not there
Hole   == -1    \* a slot of a file nobody has written yet

\* A file is being written, or its writer closed it, or its writer closed it and
\* lost what was in the last buffer.
NoFile  == [exists |-> FALSE, end |-> "open", slot |-> [k \in Keys |-> Hole]]
NewFile == [NoFile EXCEPT !.exists = TRUE]

\* A file a load can parse: everything was written and the file was closed.
Complete(f) == f.exists /\ f.end = "closed" /\ \A k \in Keys : f.slot[k] # Hole
Has(f, k) == f.exists /\ f.slot[k] \notin {Hole, Absent}

EmptyTree == [k \in Keys |-> Absent]

\* Mutant: the node takes over the slots of a cut file as they are.
LoadsUnchecked(f) == {IF f.exists THEN f.slot ELSE EmptyTree}

\* Mutant: the node starts empty whatever the data file holds.
LoadsNothing(f) == {EmptyTree}

\* What the tree may be after treeLoad at startup: a whole file gives its image.
\* A cut xml file mostly gives a parse error, which clears the tree and which
\* load() does not look at; cut between two top-level keys it parses.
Loads(f) ==
    IF Complete(f) THEN {f.slot}
    ELSE {EmptyTree, [k \in Keys |-> IF f.slot[k] = Hole THEN Absent ELSE f.slot[k]]}

\* binary_iarchive throws on a cut file, nobody catches it, the process dies.
Loadable(f) == ~f.exists \/ Complete(f) \/ Format = "xml"

IdleJob  == [pc |-> "idle", key |-> None, time |-> Absent]
IdleSave == [pc |-> "idle", name |-> None, handle |-> None, left |-> {}]

\* Mutant: a stored time is refreshed one unit late.
NeedsRefreshLate(time, node) == time - node > KeyExpire + 1

NeedsRefresh(time, node) == time - node > KeyExpire

\* What the unlocked myTree.get of buildTree may return: the value stored,
\* or nothing when another worker is rearranging the tree in put.
NodeReads(w) ==
    {tree[job[w].key]} \cup (IF mtx \in {None, w} THEN {} ELSE {Absent})

Init ==
    /\ up = TRUE
    /\ clock = StartTime
    /\ tree = EmptyTree
    /\ storeFlag = FALSE
    /\ mtx = None
    /\ job = [w \in Workers |-> IdleJob]
    /\ save = [s \in Savers |-> IdleSave]
    /\ file = [n \in Names |-> NoFile]
    /\ flock = None
    /\ fails = 0
    /\ crashes = 0
-----------------------------------------------------------------------------
\* Mutant: buildTree does not look at storeFlag.
ReportKeyAnyway(w, k) ==
    /\ up
    /\ job[w] = IdleJob
    /\ job' = [job EXCEPT ![w] = [pc |-> "read", key |-> k, time |-> clock]]
    /\ UNCHANGED <<up, clock, tree, storeFlag, mtx, save, file, flock, fails, crashes>>

(***************************************************************************)
(* buildTree, one call per reported key.  While storeFlag is up the report *)
(* is only counted as dropped, so the call starts only when it is down.    *)
(***************************************************************************)
ReportKey(w, k) ==
    /\ up
    /\ job[w] = IdleJob
    /\ ~storeFlag
    /\ job' = [job EXCEPT ![w] = [pc |-> "read", key |-> k, time |-> clock]]
    /\ UNCHANGED <<up, clock, tree, storeFlag, mtx, save, file, flock, fails, crashes>>

\* The stored time is read outside mtx_, and a recent one ends the call.
ReadNode(w) ==
    /\ up
    /\ job[w].pc = "read"
    /\ \E node \in NodeReads(w) :
           job' = [job EXCEPT ![w] = IF NeedsRefresh(job[w].time, node)
                                     THEN [job[w] EXCEPT !.pc = "lock"]
                                     ELSE IdleJob]
    /\ UNCHANGED <<up, clock, tree, storeFlag, mtx, save, file, flock, fails, crashes>>

LockTree(w) ==
    /\ up
    /\ job[w].pc = "lock"
    /\ mtx = None
    /\ mtx' = w
    /\ job' = [job EXCEPT ![w].pc = "put"]
    /\ UNCHANGED <<up, clock, tree, storeFlag, save, file, flock, fails, crashes>>

PutKey(w) ==
    /\ up
    /\ job[w].pc = "put"
    /\ tree' = [tree EXCEPT ![job[w].key] = job[w].time]
    /\ mtx' = None
    /\ job' = [job EXCEPT ![w] = IdleJob]
    /\ UNCHANGED <<up, clock, storeFlag, save, file, flock, fails, crashes>>

\* The "erase" command takes no lock and ignores storeFlag.
EraseKey(k) ==
    /\ up
    /\ tree[k] # Absent
    /\ tree' = [tree EXCEPT ![k] = Absent]
    /\ UNCHANGED <<up, clock, storeFlag, mtx, job, save, file, flock, fails, crashes>>
-----------------------------------------------------------------------------
(***************************************************************************)
(* The "store" command.  The store thread wakes up and raises storeFlag    *)
(* around it; a client's "store" sets a local variable of that name only.  *)
(***************************************************************************)
BeginStore(s) ==
    /\ up
    /\ save[s] = IdleSave
    /\ s = StoreThread => ~storeFlag
    /\ storeFlag' = (storeFlag \/ s = StoreThread)
    /\ save' = [save EXCEPT ![s].pc = "open"]
    /\ UNCHANGED <<up, clock, tree, mtx, job, file, flock, fails, crashes>>

\* Mutant: the temporary file is opened for update and not truncated.
OpenTmpUpdate(s) ==
    /\ up
    /\ save[s].pc = "open"
    /\ save' = [save EXCEPT ![s] = [pc |-> "write", name |-> HourOf(clock),
                                    handle |-> HourOf(clock), left |-> Keys]]
    /\ file' = [file EXCEPT ![HourOf(clock)].exists = TRUE]
    /\ UNCHANGED <<up, clock, tree, storeFlag, mtx, job, flock, fails, crashes>>

\* The temporary file carries the hour in its name; opening it truncates it.
OpenTmp(s) ==
    /\ up
    /\ save[s].pc = "open"
    /\ save' = [save EXCEPT ![s] = [pc |-> "write", name |-> HourOf(clock),
                                    handle |-> HourOf(clock), left |-> Keys]]
    /\ file' = [file EXCEPT ![HourOf(clock)] = NewFile]
    /\ UNCHANGED <<up, clock, tree, storeFlag, mtx, job, flock, fails, crashes>>

\* One slot reaches the file the saver opened, whatever its name is by now.
WriteSlot(s, k) ==
    /\ up
    /\ save[s].pc = "write"
    /\ k \in save[s].left
    /\ save' = [save EXCEPT ![s].left = @ \ {k}]
    /\ file' = [n \in Names |-> IF n = save[s].handle
                                THEN [file[n] EXCEPT !.slot[k] = tree[k]]
                                ELSE file[n]]
    /\ UNCHANGED <<up, clock, tree, storeFlag, mtx, job, flock, fails, crashes>>

CloseTmp(s) ==
    /\ up
    /\ save[s].pc = "write"
    /\ save[s].left = {}
    /\ save' = [save EXCEPT ![s].pc = "lock", ![s].handle = None]
    /\ file' = [n \in Names |-> IF n = save[s].handle
                                THEN [file[n] EXCEPT !.end = "closed"]
                                ELSE file[n]]
    /\ UNCHANGED <<up, clock, tree, storeFlag, mtx, job, flock, fails, crashes>>

\* The last buffer is written when the file is closed, by the destructor of
\* write_xml's ofstream or by file.close(), and nobody looks at what comes of
\* it: treeSave returns true and the file goes on its way without that buffer.
CloseCut(s) ==
    /\ up
    /\ save[s].pc = "write"
    /\ fails < MaxFails
    /\ fails' = fails + 1
    /\ save' = [save EXCEPT ![s].pc = "lock", ![s].handle = None, ![s].left = {}]
    /\ file' = [n \in Names |-> IF n = save[s].handle /\ file[n].end = "open"
                                THEN [file[n] EXCEPT !.end = "cut"]
                                ELSE file[n]]
    /\ UNCHANGED <<up, clock, tree, storeFlag, mtx, job, flock, crashes>>

\* Mutant: the result of treeSave is ignored, a failed save is published.
SaveFailsIgnored(s) ==
    /\ up
    /\ Format = "xml"
    /\ save[s].pc = "write"
    /\ fails < MaxFails
    /\ fails' = fails + 1
    /\ save' = [save EXCEPT ![s].pc = "lock", ![s].handle = None, ![s].left = {}]
    /\ UNCHANGED <<up, clock, tree, storeFlag, mtx, job, file, flock, crashes>>

\* A write before the last one fails, write_xml throws and treeSave returns false:
\* no lock, no rename, and the temporary file is left as it is.  An archive that
\* fails there throws what nobody catches, which is a Crash.
SaveFails(s) ==
    /\ up
    /\ Format = "xml"
    /\ save[s].pc = "write"
    /\ fails < MaxFails
    /\ fails' = fails + 1
    /\ save' = [save EXCEPT ![s].pc = "finish", ![s].handle = None, ![s].left = {}]
    /\ UNCHANGED <<up, clock, tree, storeFlag, mtx, job, file, flock, crashes>>

\* Mutant: a lock held by somebody else is taken for granted.
LockFileAnyway(s) ==
    /\ up
    /\ save[s].pc = "lock"
    /\ flock' = IF flock = None THEN s ELSE flock
    /\ save' = [save EXCEPT ![s].pc = "rename"]
    /\ UNCHANGED <<up, clock, tree, storeFlag, mtx, job, file, fails, crashes>>

\* Mutant: LOCK_NB, and the saver gives up when the lock is taken.
LockFileOrGiveUp(s) ==
    /\ up
    /\ save[s].pc = "lock"
    /\ flock' = IF flock = None THEN s ELSE flock
    /\ save' = [save EXCEPT ![s].pc = IF flock = None THEN "rename" ELSE "finish"]
    /\ UNCHANGED <<up, clock, tree, storeFlag, mtx, job, file, fails, crashes>>

LockFile(s) ==
    /\ up
    /\ save[s].pc = "lock"
    /\ flock = None
    /\ flock' = s
    /\ save' = [save EXCEPT ![s].pc = "rename"]
    /\ UNCHANGED <<up, clock, tree, storeFlag, mtx, job, file, fails, crashes>>

\* rename moves the file, not the name: whoever has it open goes on writing
\* to what is now the data file.  A name already taken away gives ENOENT.
Moved(handle, name) ==
    IF handle = name THEN Data ELSE IF handle = Data THEN Detached ELSE handle

Rename(s) ==
    LET name == save[s].name IN
    /\ up
    /\ save[s].pc = "rename"
    /\ \/ /\ file[name].exists
          /\ file' = [file EXCEPT ![Data] = file[name], ![name] = NoFile]
          /\ save' = [t \in Savers |->
                       [save[t] EXCEPT !.pc = IF t = s THEN "unlock" ELSE @,
                                       !.handle = Moved(@, name)]]
       \/ /\ ~file[name].exists
          /\ save' = [save EXCEPT ![s].pc = "unlock"]
          /\ UNCHANGED file
    /\ UNCHANGED <<up, clock, tree, storeFlag, mtx, job, flock, fails, crashes>>

UnlockFile(s) ==
    /\ up
    /\ save[s].pc = "unlock"
    /\ flock' = None
    /\ save' = [save EXCEPT ![s].pc = "finish"]
    /\ UNCHANGED <<up, clock, tree, storeFlag, mtx, job, file, fails, crashes>>

\* Mutant: storeFlag stays raised.
FinishStoreFlagUp(s) ==
    /\ up
    /\ save[s].pc = "finish"
    /\ save' = [save EXCEPT ![s] = IdleSave]
    /\ UNCHANGED <<up, clock, tree, storeFlag, mtx, job, file, flock, fails, crashes>>

FinishStore(s) ==
    /\ up
    /\ save[s].pc = "finish"
    /\ storeFlag' = (storeFlag /\ s # StoreThread)
    /\ save' = [save EXCEPT ![s] = IdleSave]
    /\ UNCHANGED <<up, clock, tree, mtx, job, file, flock, fails, crashes>>
-----------------------------------------------------------------------------
\* The read node on the same machine holds the lock file while it loads.
ReaderLocks ==
    /\ flock = None
    /\ flock' = Reader
    /\ UNCHANGED <<up, clock, tree, storeFlag, mtx, job, save, file, fails, crashes>>

ReaderUnlocks ==
    /\ flock = Reader
    /\ flock' = None
    /\ UNCHANGED <<up, clock, tree, storeFlag, mtx, job, save, file, fails, crashes>>

\* No buildTree call outlives MaxStall.
Tick ==
    /\ clock < MaxTime
    /\ \A w \in Workers : job[w] = IdleJob \/ clock < job[w].time + MaxStall
    /\ clock' = clock + 1
    /\ UNCHANGED <<up, tree, storeFlag, mtx, job, save, file, flock, fails, crashes>>

\* The process dies: killed, an exception nobody catches, or two threads
\* inside the tree at once.  The files stay as they are, the lock is freed.
Crash ==
    /\ up
    /\ crashes < MaxCrashes
    /\ crashes' = crashes + 1
    /\ up' = FALSE
    /\ tree' = EmptyTree
    /\ storeFlag' = FALSE
    /\ mtx' = None
    /\ job' = [w \in Workers |-> IdleJob]
    /\ save' = [s \in Savers |-> IdleSave]
    /\ flock' = IF flock = Reader THEN Reader ELSE None
    /\ UNCHANGED <<clock, file, fails>>

Restart ==
    /\ ~up
    /\ Loadable(file[Data])
    /\ up' = TRUE
    /\ tree' \in Loads(file[Data])
    /\ UNCHANGED <<clock, storeFlag, mtx, job, save, file, flock, fails, crashes>>
-----------------------------------------------------------------------------
Build(w) ==
    \/ \E k \in Keys : ReportKey(w, k)
    \/ ReadNode(w)
    \/ LockTree(w)
    \/ PutKey(w)

\* What a saver does by itself once it has begun.
SaveStep(s) ==
    \/ OpenTmp(s)
    \/ \E k \in Keys : WriteSlot(s, k)
    \/ CloseTmp(s)
    \/ Rename(s)
    \/ UnlockFile(s)
    \/ FinishStore(s)

Next ==
    \/ \E w \in Workers : Build(w)
    \/ \E s \in Savers : BeginStore(s) \/ SaveStep(s) \/ SaveFails(s) \/ CloseCut(s) \/ LockFile(s)
    \/ \E k \in Keys : EraseKey(k)
    \/ ReaderLocks
    \/ ReaderUnlocks
    \/ Tick
    \/ Crash
    \/ Restart

Spec == Init /\ [][Next]_vars

\* A thread that has begun goes on, and the store thread's sleep ends.  A
\* blocked flock is granted in the end although the reader comes back.
Fairness ==
    /\ \A s \in Savers : WF_vars(SaveStep(s)) /\ SF_vars(LockFile(s))
    /\ WF_vars(BeginStore(StoreThread))
    /\ WF_vars(ReaderUnlocks)

FairSpec == Spec /\ Fairness
-----------------------------------------------------------------------------
Slots == Times \cup {Absent, Hole}
File  == [exists : BOOLEAN, end : {"open", "closed", "cut"}, slot : [Keys -> Slots]]
Job   == [pc : {"idle", "read", "lock", "put"}, key : Keys \cup {None},
          time : Times \cup {Absent}]
Save  == [pc : {"idle", "open", "write", "lock", "rename", "unlock", "finish"},
          name : Hours \cup {None}, handle : Names \cup {None, Detached},
          left : SUBSET Keys]

\* Every variable keeps its type; in particular a tree never holds a hole, so
\* a file that was cut short never reaches the memory of the process.
TypeOK ==
    /\ up \in BOOLEAN
    /\ clock \in Times
    /\ tree \in [Keys -> Times \cup {Absent}]
    /\ storeFlag \in BOOLEAN
    /\ mtx \in Workers \cup {None}
    /\ job \in [Workers -> Job]
    /\ save \in [Savers -> Save]
    /\ file \in [Names -> File]
    /\ flock \in Savers \cup {Reader, None}
    /\ fails \in 0 .. MaxFails
    /\ crashes \in 0 .. MaxCrashes

\* The file under the name of the data file is a whole one, or one whose last
\* buffer was lost when it was closed, which treeSave does not notice: no file
\* still being written and none of a save that was seen to fail is ever renamed.
\* True while the store thread is the only saver; two share the hour's file.
DataIntact == file[Data].exists => Complete(file[Data]) \/ file[Data].end = "cut"

\* The content of the data file changes only while a saver of this process
\* holds the lock on storeLockFile, which is what a reader relies on.
DataUnderLock == [][file'[Data] # file[Data] => flock \in Savers]_vars

\* A key in memory is in the data file sooner or later, unless a client erases
\* it or the process dies before the next flush: a save that went wrong, noticed
\* or not, is followed by another one.
Durable ==
    \A k \in Keys :
        (up /\ tree[k] # Absent) ~> (Has(file[Data], k) \/ tree[k] = Absent)

\* Reports are dropped only during a flush, and every flush ends, however the
\* reader uses the lock meanwhile.
IngestResumes == storeFlag ~> ~storeFlag
=============================================================================
