------------------------------- MODULE ReadNode -------------------------------
(***************************************************************************)
(* The read node: a thread reloads the data file every reloadInterval into *)
(* a second tree and swaps it with the one the queries use                 *)
(* (reloadStoreThread), while io threads answer queries.  Trees and flag   *)
(* are plain globals: a query decides once, by swapFlag, which tree to     *)
(* walk, and walks it without any lock.                                    *)
(*                                                                         *)
(* A tree is the version of the data file it was loaded from, and whether  *)
(* that was whole; what clients erase from it shows only in the queries    *)
(* it disturbs.  Times are ages, cut off at FILESTATSDELAYMIN.             *)
(***************************************************************************)
EXTENDS Integers

CONSTANTS
    Queries,     \* io threads answering queries
    MaxVersion,  \* bound: how often the data file is written
    Size,        \* the size of each version of the file, not always a new one
    Delay,       \* FILESTATSDELAYMIN
    InPlace,     \* somebody overwrites the file instead of renaming
    MaxFails,    \* bound: number of failing loads of a good file
    Reader, Writer, None

Versions == 1 .. MaxVersion
Ages == 0 .. Delay

ASSUME ConstantsAssumption ==
    /\ MaxVersion \in Nat \ {0}
    /\ Size \in [Versions -> Nat]
    /\ Delay \in Nat
    /\ InPlace \in BOOLEAN
    /\ MaxFails \in Nat
    /\ Reader # Writer /\ Reader # None /\ Writer # None

VARIABLES
    up,        \* the process runs
    file,      \* the data file: version, age of its mtime, and whether it is
               \* "open" (half written), "closed" or "cut" (its end was lost)
    flock,     \* holder of the lock on storeLockFile
    dataLock,  \* holder of a lock on the data file itself
    pc,        \* where reloadStoreThread is
    buf,       \* buf of stat(): size, and time(NULL) - st_mtime
    pre,       \* preStoreFileSize
    loaded,    \* reloadFlag
    my,        \* myTree
    swap,      \* myTreeSwap
    swapFlag,
    query,     \* what each query is doing
    fails      \* failing loads so far

trees == <<my, swap, swapFlag>>
disk == <<file, flock, dataLock>>
vars == <<up, disk, pc, buf, pre, loaded, trees, query, fails>>
-----------------------------------------------------------------------------
Empty == [ver |-> 0, whole |-> FALSE]
WholeTree(v) == [ver |-> v, whole |-> TRUE]

\* What treeLoad may make of the data file.  A half written or cut xml file mostly
\* fails to parse, and parses when it ends between two top-level keys; such an
\* archive throws what nobody catches, which is Die.
LoadFailure == [ok |-> FALSE, tree |-> Empty]
LoadResults ==
    IF file.end # "closed"
    THEN {LoadFailure, [ok |-> TRUE, tree |-> [ver |-> file.ver, whole |-> FALSE]]}
    ELSE {[ok |-> TRUE, tree |-> WholeTree(file.ver)]}
         \cup (IF fails < MaxFails THEN {LoadFailure} ELSE {})

Failed(result) == IF file.end = "closed" /\ ~result.ok THEN 1 ELSE 0

Older(age) == IF age < Delay THEN age + 1 ELSE age

\* dirty: the tree it walks was changed under it; spans: the flag flipped, or a
\* client erased, while it ran.
IdleQuery == [pc |-> "idle", on |-> "my", byFlag |-> TRUE, dirty |-> FALSE,
              spans |-> FALSE]

\* The tree a query is told to use, and the name of that variable.
SelectedName == IF swapFlag THEN "swap" ELSE "my"
Selected == IF swapFlag THEN swap ELSE my

\* Queries walking tree t while somebody changes it.
Disturb(t) ==
    [q \in Queries |-> IF query[q].pc = "walk" /\ query[q].on = t
                       THEN [query[q] EXCEPT !.dirty = TRUE]
                       ELSE query[q]]

\* Queries that see the flag flip while they run.
Span ==
    [q \in Queries |-> IF query[q].pc = "walk"
                       THEN [query[q] EXCEPT !.spans = TRUE]
                       ELSE query[q]]

Init ==
    /\ up = FALSE
    /\ file = [ver |-> 1, age |-> Delay, end |-> "closed"]
    /\ flock = None
    /\ dataLock = None
    /\ pc = "sleep"
    /\ buf = [size |-> 0, age |-> 0]
    /\ pre = 0
    /\ loaded = FALSE
    /\ my = Empty
    /\ swap = Empty
    /\ swapFlag = FALSE
    /\ query = [q \in Queries |-> IdleQuery]
    /\ fails = 0

\* main loads the data file, whatever comes of it, and starts the threads.
Start ==
    /\ ~up
    /\ up' = TRUE
    /\ \E result \in LoadResults :
          /\ my' = result.tree
          /\ fails' = fails + Failed(result)
    /\ UNCHANGED <<disk, pc, buf, pre, loaded, swap, swapFlag, query>>
-----------------------------------------------------------------------------
(***************************************************************************)
(* reloadStoreThread                                                       *)
(***************************************************************************)
Stat ==
    /\ up /\ pc = "sleep"
    /\ buf' = [size |-> Size[file.ver], age |-> file.age]
    /\ pc' = "settle"
    /\ UNCHANGED <<up, disk, pre, loaded, trees, query, fails>>

\* The loop waits until the mtime it has is old enough; it never stats again.
Settle ==
    /\ up /\ pc = "settle"
    /\ buf.age >= Delay
    /\ pc' = IF buf.size # pre THEN "lock" ELSE "sleep"
    /\ UNCHANGED <<up, disk, buf, pre, loaded, trees, query, fails>>

\* Mutant: the result of flock is not looked at.
LockStoreAnyway ==
    /\ up /\ pc = "lock"
    /\ flock' = Reader
    /\ pc' = "load"
    /\ UNCHANGED <<up, file, dataLock, buf, pre, loaded, trees, query, fails>>

\* The second flock is on the lock file as well, not on the data file.
LockStore ==
    /\ up /\ pc = "lock"
    /\ flock = None
    /\ flock' = Reader
    /\ pc' = "load"
    /\ UNCHANGED <<up, file, dataLock, buf, pre, loaded, trees, query, fails>>

Load ==
    /\ up /\ pc = "load"
    /\ \E result \in LoadResults :
          /\ swap' = result.tree
          /\ loaded' = result.ok
          /\ fails' = fails + Failed(result)
    /\ query' = Disturb("swap")
    /\ pc' = "unlock"
    /\ UNCHANGED <<up, disk, buf, pre, my, swapFlag>>

\* Mutant: the result of the load is not looked at.
UnlockStoreAnyway ==
    /\ up /\ pc = "unlock"
    /\ flock' = None
    /\ pc' = "raise"
    /\ UNCHANGED <<up, file, dataLock, buf, pre, loaded, trees, query, fails>>

\* Mutant: the lock is released only when the load succeeded.
UnlockStoreOnSuccess ==
    /\ up /\ pc = "unlock"
    /\ flock' = IF loaded THEN None ELSE flock
    /\ pc' = IF loaded THEN "raise" ELSE "drop"
    /\ UNCHANGED <<up, file, dataLock, buf, pre, loaded, trees, query, fails>>

\* Mutant: the lock file is closed by nobody.
UnlockStoreForgotten ==
    /\ up /\ pc = "unlock"
    /\ pc' = IF loaded THEN "raise" ELSE "drop"
    /\ UNCHANGED <<up, disk, buf, pre, loaded, trees, query, fails>>

UnlockStore ==
    /\ up /\ pc = "unlock"
    /\ flock' = None
    /\ pc' = IF loaded THEN "raise" ELSE "drop"
    /\ UNCHANGED <<up, file, dataLock, buf, pre, loaded, trees, query, fails>>

\* Mutant: the queries are not sent to the second tree.
RaiseFlagForgotten ==
    /\ up /\ pc = "raise"
    /\ pc' = "clear"
    /\ UNCHANGED <<up, disk, buf, pre, loaded, trees, query, fails>>

RaiseFlag ==
    /\ up /\ pc = "raise"
    /\ swapFlag' = TRUE
    /\ query' = Span
    /\ pc' = "clear"
    /\ UNCHANGED <<up, disk, buf, pre, loaded, my, swap, fails>>

ClearTree ==
    /\ up /\ pc = "clear"
    /\ my' = Empty
    /\ query' = Disturb("my")
    /\ pc' = "assign"
    /\ UNCHANGED <<up, disk, buf, pre, loaded, swap, swapFlag, fails>>

\* Mutant: the trees are exchanged instead of copied.
AssignTreeBySwap ==
    /\ up /\ pc = "assign"
    /\ my' = swap
    /\ swap' = my
    /\ query' = Disturb("my")
    /\ pc' = "lower"
    /\ UNCHANGED <<up, disk, buf, pre, loaded, swapFlag, fails>>

AssignTree ==
    /\ up /\ pc = "assign"
    /\ my' = swap
    /\ query' = Disturb("my")
    /\ pc' = "lower"
    /\ UNCHANGED <<up, disk, buf, pre, loaded, swap, swapFlag, fails>>

LowerFlag ==
    /\ up /\ pc = "lower"
    /\ swapFlag' = FALSE
    /\ query' = Span
    /\ pc' = "drop"
    /\ UNCHANGED <<up, disk, buf, pre, loaded, my, swap, fails>>

\* Mutant: the size remembered is that of the file as it is now.
DropSwapNewSize ==
    /\ up /\ pc = "drop"
    /\ swap' = Empty
    /\ query' = Disturb("swap")
    /\ pre' = Size[file.ver]
    /\ pc' = "sleep"
    /\ UNCHANGED <<up, disk, buf, loaded, my, swapFlag, fails>>

\* Also after a failed load: its size is remembered all the same.
DropSwap ==
    /\ up /\ pc = "drop"
    /\ swap' = Empty
    /\ query' = Disturb("swap")
    /\ pre' = buf.size
    /\ pc' = "sleep"
    /\ UNCHANGED <<up, disk, buf, loaded, my, swapFlag, fails>>
-----------------------------------------------------------------------------
(***************************************************************************)
(* Queries.  finder and tree go by swapFlag; expire, expireAll and print   *)
(* use myTree whatever the flag says.                                      *)
(***************************************************************************)
Ask(q) ==
    /\ up
    /\ query[q].pc = "idle"
    /\ query' = [query EXCEPT ![q] = [IdleQuery EXCEPT !.pc = "walk", !.on = SelectedName]]
    /\ UNCHANGED <<up, disk, pc, buf, pre, loaded, trees, fails>>

AskMyTree(q) ==
    /\ up
    /\ query[q].pc = "idle"
    /\ query' = [query EXCEPT ![q] = [IdleQuery EXCEPT !.pc = "walk", !.byFlag = FALSE]]
    /\ UNCHANGED <<up, disk, pc, buf, pre, loaded, trees, fails>>

\* finderByTree looks at swapFlag again for every child it lists: a new walk.
LookAgain(q) ==
    /\ up
    /\ query[q].pc = "walk" /\ query[q].byFlag
    /\ query' = [query EXCEPT ![q].on = SelectedName, ![q].spans = @ /\ query[q].dirty]
    /\ UNCHANGED <<up, disk, pc, buf, pre, loaded, trees, fails>>

Answer(q) ==
    /\ up
    /\ query[q].pc = "walk"
    /\ query' = [query EXCEPT ![q] = IdleQuery]
    /\ UNCHANGED <<up, disk, pc, buf, pre, loaded, trees, fails>>

\* erase edits myTree, whatever the flag says and whoever walks it.
EraseKey ==
    /\ up
    /\ query' = [q \in Queries |-> IF query[q].pc = "walk" /\ query[q].on = "my"
                                   THEN [query[q] EXCEPT !.dirty = TRUE, !.spans = TRUE]
                                   ELSE query[q]]
    /\ UNCHANGED <<up, disk, pc, buf, pre, loaded, trees, fails>>

\* A query whose tree is changed under it may bring the process down, and so
\* does an erase below a path that myTree does not have: nobody catches it.
Die ==
    /\ up
    /\ up' = FALSE
    /\ flock' = IF flock = Reader THEN None ELSE flock
    /\ pc' = "sleep"
    /\ buf' = [size |-> 0, age |-> 0]
    /\ pre' = 0
    /\ loaded' = FALSE
    /\ my' = Empty /\ swap' = Empty /\ swapFlag' = FALSE
    /\ query' = [q \in Queries |-> IdleQuery]
    /\ UNCHANGED <<file, dataLock, fails>>
-----------------------------------------------------------------------------
(***************************************************************************)
(* The rest of the machine: the write node, rsync, time.                   *)
(***************************************************************************)
\* A new version is renamed over the data file; its mtime is that of its last
\* write, which may be a while ago.  The write node does not notice when it loses
\* the end of the file, and rsync renames what there is.
Publish ==
    /\ file.ver < MaxVersion
    /\ file.end # "open"
    /\ \E age \in 0 .. file.age, end \in {"closed", "cut"} :
          file' = [ver |-> file.ver + 1, age |-> age, end |-> end]
    /\ UNCHANGED <<up, flock, dataLock, pc, buf, pre, loaded, trees, query, fails>>

\* A process that locks the data file itself overwrites it.
OverwriteBegin ==
    /\ InPlace
    /\ file.ver < MaxVersion
    /\ dataLock = None
    /\ dataLock' = Writer
    /\ file' = [ver |-> file.ver + 1, age |-> 0, end |-> "open"]
    /\ UNCHANGED <<up, flock, pc, buf, pre, loaded, trees, query, fails>>

OverwriteEnd ==
    /\ file.end = "open"
    /\ dataLock' = None
    /\ file' = [file EXCEPT !.age = 0, !.end = "closed"]
    /\ UNCHANGED <<up, flock, pc, buf, pre, loaded, trees, query, fails>>

WriterLocks ==
    /\ flock = None
    /\ flock' = Writer
    /\ UNCHANGED <<up, file, dataLock, pc, buf, pre, loaded, trees, query, fails>>

WriterUnlocks ==
    /\ flock = Writer
    /\ flock' = None
    /\ UNCHANGED <<up, file, dataLock, pc, buf, pre, loaded, trees, query, fails>>

Tick ==
    /\ file' = [file EXCEPT !.age = Older(@)]
    /\ buf' = [buf EXCEPT !.age = Older(@)]
    /\ <<file', buf'>> # <<file, buf>>
    /\ UNCHANGED <<up, flock, dataLock, pc, pre, loaded, trees, query, fails>>
-----------------------------------------------------------------------------
Reload ==
    \/ Stat \/ Settle \/ Load \/ UnlockStore
    \/ RaiseFlag \/ ClearTree \/ AssignTree \/ LowerFlag \/ DropSwap

Next ==
    \/ Start \/ Reload \/ LockStore
    \/ \E q \in Queries : Ask(q) \/ AskMyTree(q) \/ LookAgain(q) \/ Answer(q)
    \/ EraseKey \/ Die
    \/ Publish \/ OverwriteBegin \/ OverwriteEnd
    \/ WriterLocks \/ WriterUnlocks
    \/ Tick

Spec == Init /\ [][Next]_vars

\* The reload thread goes on, time passes, a writer holds the lock only for a
\* rename, and a blocked flock is granted although writers come back.
Fairness ==
    /\ WF_vars(Reload) /\ SF_vars(LockStore)
    /\ WF_vars(Tick) /\ WF_vars(WriterUnlocks)

FairSpec == Spec /\ Fairness
-----------------------------------------------------------------------------
Tree == [ver : 0 .. MaxVersion, whole : BOOLEAN]

\* Every variable keeps its type, and the reload thread has the flag up and the
\* lock file locked exactly between the steps that take and release them.
TypeOK ==
    /\ up \in BOOLEAN
    /\ file \in [ver : Versions, age : Ages, end : {"open", "closed", "cut"}]
    /\ flock \in {Reader, Writer, None}
    /\ dataLock \in {Writer, None}
    /\ pc \in {"sleep", "settle", "lock", "load", "unlock",
               "raise", "clear", "assign", "lower", "drop"}
    /\ buf \in [size : Nat, age : Ages]
    /\ pre \in Nat
    /\ loaded \in BOOLEAN
    /\ my \in Tree /\ swap \in Tree
    /\ swapFlag \in BOOLEAN
    /\ query \in [Queries -> [pc : {"idle", "walk"}, on : {"my", "swap"},
                             byFlag : BOOLEAN, dirty : BOOLEAN, spans : BOOLEAN]]
    /\ fails \in 0 .. MaxFails
    /\ swapFlag <=> pc \in {"clear", "assign", "lower"}
    /\ flock = Reader <=> pc \in {"load", "unlock"}

\* What the thread is about to publish is a part of a file: one that was cut, or
\* overwritten while it was read, parsed all the same.
CutLoad == pc = "raise" /\ swap.ver > 0 /\ ~swap.whole

\* Once the node serves a whole tree it serves a whole tree at every instant
\* until it dies or loads a half written or cut file: through the swap and through
\* failing loads the tree that swapFlag points at is never cleared or half
\* copied, whenever clients erase keys of myTree.
KeepsServing ==
    [][Selected.whole /\ up' => Selected'.whole \/ CutLoad]_vars

\* The tree swapFlag points at never gets older: two lookups of one query, or
\* two queries of one client, do not go back in time.
NeverOlder == [][up' => Selected'.ver >= Selected.ver]_vars

\* A query that goes by swapFlag has its tree changed under it only if the flag
\* flipped or a client erased while it ran: a reload between two flips is safe
\* without a lock.
DisturbedOnlyByFlip ==
    \A q \in Queries : query[q].dirty /\ query[q].byFlag => query[q].spans

\* The thread takes the file for the one it has: their sizes are equal, and it was
\* another version that had this size, or the load of the file had failed.
TakenForOld ==
    /\ pre = Size[file.ver]
    /\ \/ ~loaded
       \/ \E v \in Versions \ {file.ver} : Size[v] = pre

\* A new version of the file is served in the end, that one or a later one, unless
\* a version comes whose size is that of another one or whose load fails: the
\* thread compares sizes, and remembers that of a file it could not load.
CatchesUp ==
    \A v \in Versions :
        (up /\ file.ver = v) ~> (~up \/ Selected.ver >= v \/ TakenForOld)

\* The reader does not keep the lock from the writer for ever.
LockReturned == (flock = Reader) ~> (flock # Reader)

\* inc.hpp:40: the file is read FILESTATSDELAYMIN after its last write at the
\* earliest.
SettledLoad == [][pc = "load" /\ pc' = "unlock" => file.age >= Delay]_vars
=============================================================================
