------------------------------- MODULE DeepScan -------------------------------
(***************************************************************************)
(* treeStatus, the scan behind tree and deepTree, with its time limit.     *)
(* The clock is looked at before each entry; how many entries the scans of *)
(* one request get to before the limit is their "steps".                   *)
(***************************************************************************)
EXTENDS MetricTree, SequencesExt

Scans == [seen : SUBSET DOMAIN tree, widest : Nat, steps : Nat, ret : BOOLEAN]

Begin(steps) == [seen |-> {}, widest |-> 1, steps |-> steps, ret |-> TRUE]

Counted(scan, q) == [scan EXCEPT !.seen = @ \cup {q}, !.steps = @ - 1]

\* One turn of the loop.  The result of the scan of a directory is not looked at.
Turn(below, subFind, scan, q) ==
    IF ~scan.ret \/ scan.steps = 0 THEN [scan EXCEPT !.ret = FALSE]
    ELSE IF subFind /\ Data(q) = NoData THEN [below[q][Counted(scan, q)] EXCEPT !.ret = TRUE]
    ELSE Counted(scan, q)

\* Only a loop that came to its end compares its count with the widest directory.
Level(below, subFind, p, so) ==
    LET entries == SetToSeq(Children(p))
        turns[i \in 0 .. Len(entries)] ==
            IF i = 0 THEN [so EXCEPT !.ret = TRUE]
            ELSE Turn(below, subFind, turns[i - 1], entries[i])
        loop == turns[Len(entries)]
    IN  IF loop.ret THEN [loop EXCEPT !.widest = Max({@, Len(entries)})] ELSE loop

\* The scan of each directory with all below it.
Below[p \in Nodes] == [so \in Scans |-> Level(Below, TRUE, p, so)]

TreeStatus(p, subFind, so) == Level(Below, subFind, p, so)

Steps(p) == Cardinality(Children(p)) + Cardinality(Scanned(p))
Directories(p) == {p} \cup {q \in Scanned(p) : Data(q) = NoData}

\* Mutant: the second scan has a time limit of its own.
RequestAfresh(p, steps) ==
    LET flat == TreeStatus(p, FALSE, Begin(steps))
        deep == TreeStatus(p, TRUE, Begin(Steps(p)))
    IN  [flat |-> flat.seen, deep |-> deep.seen, widest |-> deep.widest, ret |-> deep.ret]

\* deepTree: a scan of the first level, then one of all below it, from the same
\* startTime; only the result of the second one reaches the client.
Request(p, steps) ==
    LET flat == TreeStatus(p, FALSE, Begin(steps))
        deep == TreeStatus(p, TRUE, [flat EXCEPT !.seen = {}])
    IN  [flat |-> flat.seen, deep |-> deep.seen, widest |-> deep.widest, ret |-> deep.ret]
-----------------------------------------------------------------------------
\* A deepTree that says "success" may have run out of time all the same, but
\* then files and dirs are right, every entry of the directory is counted, and
\* what the other counts miss lies below a single one of them.  In time it
\* misses nothing, finds the widest directory, and never says "failed".
SuccessIsNearlyAll ==
    \A p \in Nodes : \A steps \in 0 .. Steps(p) :
        LET answer == Request(p, steps)
            missed == Scanned(p) \ answer.deep
        IN  /\ answer.ret => /\ answer.flat = Children(p)
                             /\ Children(p) \subseteq answer.deep
                             /\ answer.widest >= Cardinality(Children(p))
                             /\ missed # {} => \E q \in Children(p) :
                                   \A r \in missed : Above(q, r)
            /\ steps = Steps(p) =>
                  /\ answer.ret /\ missed = {} /\ answer.deep = Scanned(p)
                  /\ answer.widest = Max({1} \cup {Cardinality(Children(q)) : q \in Directories(p)})

\* The same where nothing is saved: the answers do not depend on the file, and
\* every tree comes about without a flush.
DeepTreeInTime == saved = EmptyTree => SuccessIsNearlyAll
=============================================================================
