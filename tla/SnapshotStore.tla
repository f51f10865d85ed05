---------------------------- MODULE SnapshotStore ----------------------------
(***************************************************************************)
(* What the write node promises its operator: a table in memory with a     *)
(* copy on disk.  The copy is replaced at once, every key in it with a     *)
(* value that key had in memory during the flush (a fuzzy snapshot, the    *)
(* table is not frozen), and a node that died continues from the copy.     *)
(* The end of a copy can get lost without anybody noticing: such a cut     *)
(* copy is replaced by the next flush, and a node that dies before that    *)
(* continues from what it can read of it.                                  *)
(***************************************************************************)
CONSTANTS
    Keys,
    Values,   \* what may be stored under a key, Absent included
    Absent,
    Hole      \* not a value: the key has not been copied

VARIABLES
    running,
    mem,      \* the table
    disk,     \* its copy
    cut,      \* the end of the copy was lost
    scan      \* the flush under way: the keys already copied

storeVars == <<running, mem, disk, cut, scan>>

Empty  == [k \in Keys |-> Absent]
NoScan == [k \in Keys |-> Hole]

Init ==
    /\ running = TRUE
    /\ mem = Empty
    /\ disk = Empty
    /\ cut = FALSE
    /\ scan = NoScan

\* One key changes: a report, or an erase (to Absent).
Change(k) ==
    /\ running
    /\ mem' \in {[mem EXCEPT ![k] = v] : v \in Values}
    /\ UNCHANGED <<running, disk, cut, scan>>

Copy(k) ==
    /\ running
    /\ scan[k] = Hole
    /\ scan' = [scan EXCEPT ![k] = mem[k]]
    /\ UNCHANGED <<running, mem, disk, cut>>

\* Only a copy that has lost its end may lack keys.
Publish ==
    /\ running
    /\ cut' \in BOOLEAN
    /\ ~cut' => \A k \in Keys : scan[k] # Hole
    /\ disk' = scan
    /\ scan' = NoScan
    /\ UNCHANGED <<running, mem>>

Abandon ==
    /\ scan' = NoScan
    /\ UNCHANGED <<running, mem, disk, cut>>

Die ==
    /\ running
    /\ running' = FALSE
    /\ mem' = Empty
    /\ scan' = NoScan
    /\ UNCHANGED <<disk, cut>>

\* A cut copy is read as far as it goes, or not at all.
Recover ==
    /\ ~running
    /\ running' = TRUE
    /\ IF cut THEN mem' \in {Empty, [k \in Keys |-> IF disk[k] = Hole THEN Absent ELSE disk[k]]}
              ELSE mem' = disk
    /\ UNCHANGED <<disk, cut, scan>>

Next ==
    \/ \E k \in Keys : Change(k) \/ Copy(k)
    \/ Publish
    \/ Abandon
    \/ Die
    \/ Recover

Spec == Init /\ [][Next]_storeVars
=============================================================================
