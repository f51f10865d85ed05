------------------------------ MODULE MetricTree ------------------------------
(***************************************************************************)
(* The tree of metric names as one thread sees it: buildTree, erase, flush *)
(* and load, and the answers of finder, tree, deepTree, expire, expireAll. *)
(*                                                                         *)
(* A key or request is the sequence of its names; the request <<>> is the  *)
(* empty path.  The ptree is a function from the paths of its nodes (all   *)
(* but the root) to their data: the time of the last report, or NoData for *)
(* the empty string a directory has.                                       *)
(***************************************************************************)
EXTENDS Integers, Sequences, FiniteSets

CONSTANTS
    Keys,        \* keys that are reported
    Requests,    \* paths that are erased
    Split,       \* FIND_METHOD_SPLIT
    ExpireTime,  \* KEY_EXPIRE_TIME
    MaxTime      \* bound on the clock

NoData == 0
Root == <<>>
Above(p, q) == Len(p) <= Len(q) /\ SubSeq(q, 1, Len(p)) = p
Names == UNION {{p[i] : i \in 1 .. Len(p)} : p \in Keys \cup Requests}

ASSUME TreeAssumption ==
    /\ \A k \in Keys : k \in Seq(Names) /\ Len(k) > 0
    /\ \A p \in Requests : p \in Seq(Names) /\ Len(p) > 0
    /\ Split \in Nat
    /\ ExpireTime \in Nat
    /\ MaxTime \in Nat /\ MaxTime > ExpireTime + 1

VARIABLES
    tree,   \* myTree
    saved,  \* the tree in the data file
    now     \* time(NULL)

vars == <<tree, saved, now>>
-----------------------------------------------------------------------------
(***************************************************************************)
(* What boost::property_tree does.                                         *)
(***************************************************************************)
EmptyTree == [p \in {} |-> NoData]
Nodes == {Root} \cup DOMAIN tree
Data(p) == IF p \in DOMAIN tree THEN tree[p] ELSE NoData
Children(p) == {q \in DOMAIN tree : Len(q) = Len(p) + 1 /\ Above(p, q)}

\* Both the walk over the iterators, name by name, and get_child stop at the
\* first name that is missing.
Found(p) == \A i \in 1 .. Len(p) : SubSeq(p, 1, i) \in DOMAIN tree

\* get<time_t>(path, default): the default for a node that is missing and for
\* one whose data is no number.
Get(p, default) == IF Data(p) = NoData THEN default ELSE Data(p)

\* Mutant: the time goes to every node on the way.
PutOnTheWay(k, time) ==
    [p \in DOMAIN tree \cup {SubSeq(k, 1, i) : i \in 1 .. Len(k)} |->
        IF Above(p, k) THEN time ELSE Data(p)]

\* put(path, time) makes the directories on the way.
Put(k, time) ==
    [p \in DOMAIN tree \cup {SubSeq(k, 1, i) : i \in 1 .. Len(k)} |->
        IF p = k THEN time ELSE Data(p)]

\* Mutant: erase takes the node out and leaves what is below it.
WithoutNode(p) == [q \in DOMAIN tree \ {p} |-> tree[q]]

Without(p) == [q \in {r \in DOMAIN tree : ~Above(p, r)} |-> tree[q]]
-----------------------------------------------------------------------------
Init ==
    /\ tree = EmptyTree
    /\ saved = EmptyTree
    /\ now = ExpireTime + 2

Report(k) ==
    /\ now - Get(k, 0) > ExpireTime
    /\ tree' = Put(k, now)
    /\ UNCHANGED <<saved, now>>

\* The node is taken out of its parent with all that is below it; the parent
\* stays, empty or not.
Erase(p) ==
    /\ SubSeq(p, 1, Len(p) - 1) \in Nodes
    /\ tree' = Without(p)
    /\ UNCHANGED <<saved, now>>

\* get_child throws when the parent is missing and nobody catches it: the
\* process dies and comes back with the data file.
EraseThrows(p) ==
    /\ SubSeq(p, 1, Len(p) - 1) \notin Nodes
    /\ tree' = saved
    /\ UNCHANGED <<saved, now>>

Save ==
    /\ saved' = tree
    /\ UNCHANGED <<tree, now>>

Restart ==
    /\ tree' = saved
    /\ UNCHANGED <<saved, now>>

Tick ==
    /\ now < MaxTime
    /\ now' = now + 1
    /\ UNCHANGED <<tree, saved>>

Next ==
    \/ \E k \in Keys : Report(k)
    \/ \E p \in Requests : Erase(p) \/ EraseThrows(p)
    \/ Save \/ Restart \/ Tick

Spec == Init /\ [][Next]_vars
-----------------------------------------------------------------------------
(***************************************************************************)
(* The answers.  finder lists an entry with 1 if it takes it for a         *)
(* directory and with 0 if it takes it for a metric.                       *)
(***************************************************************************)
\* Mutant: what has no children is taken for a directory.
FinderByTreeEmpty(p) == [q \in Children(p) |-> IF Children(q) = {} THEN 1 ELSE 0]

\* From Split dots on: a metric is what has no children.
FinderByTree(p) == [q \in Children(p) |-> IF Children(q) = {} THEN 0 ELSE 1]

\* Mutant: everything is taken for a directory.
FinderByIterAll(p) == [q \in Children(p) |-> 1]

\* Below that: a metric is what has data.
FinderByIter(p) == [q \in Children(p) |-> IF Data(q) = NoData THEN 1 ELSE 0]

Finder(p) ==
    IF ~Found(p) THEN EmptyTree
    ELSE IF Len(p) - 1 >= Split THEN FinderByTree(p) ELSE FinderByIter(p)

\* Mutant: the scan stays on the first level.
ScannedFlat(p) == Children(p)

\* The nodes deepTree comes by: it does not go below a node that has data.
Scanned(p) ==
    {q \in DOMAIN tree :
        /\ Above(p, q) /\ q # p
        /\ \A i \in Len(p) + 1 .. Len(q) - 1 : Data(SubSeq(q, 1, i)) = NoData}

Latest(nodes) ==
    CHOOSE t \in {0} \cup {Data(q) : q \in nodes} : \A q \in nodes : Data(q) <= t

Status(nodes) ==
    [files |-> Cardinality({q \in nodes : Data(q) # NoData}),
     dirs |-> Cardinality({q \in nodes : Data(q) = NoData}),
     lastUpdateTime |-> Latest(nodes)]

Tree(p) == Status(Children(p))
DeepTree(p) == Status(Scanned(p))

\* One key of the list: its time, -1 for none, nothing if it is too old.
Nothing == -2
Expire(p, from) == LET t == Get(p, 1) IN IF t > 1 /\ t > from THEN t ELSE Nothing
ExpireAll(p, from) ==
    LET t == Get(p, 1) IN IF t > from THEN t ELSE IF t = 1 THEN -1 ELSE Nothing
-----------------------------------------------------------------------------
Times == {NoData} \cup ExpireTime + 2 .. MaxTime

ClosedTree(t) ==
    /\ \A p \in DOMAIN t : p \in Seq(Names) /\ Len(p) > 0 /\ t[p] \in Times
    /\ \A p \in DOMAIN t : \A i \in 1 .. Len(p) : SubSeq(p, 1, i) \in DOMAIN t

\* Memory and file hold trees: every node hangs on the root, data is a time.
TypeOK ==
    /\ ClosedTree(tree) /\ ClosedTree(saved)
    /\ now \in ExpireTime + 2 .. MaxTime

MetricsOf(t) == {p \in DOMAIN t : t[p] # NoData}
KeysOf(t) == [p \in MetricsOf(t) |-> t[p]]

\* The nodes with data are a table of the reported keys: directories that put
\* creates or erase leaves behind never become keys, and erase takes all the
\* keys below with it and no other.
Table == INSTANCE KeyTable WITH keys <- KeysOf(tree), saved <- KeysOf(saved)
ImplementsTable == Table!Spec

\* Keys that are neither above nor below another reported key.
Apart(k) == \A j \in Keys : Above(j, k) \/ Above(k, j) => j = k
AllApart(p) == \A k \in Keys : Above(p, k) \/ Above(k, p) => Apart(k)

\* finder, expire, expireAll and tree agree on which entries of a directory are
\* metrics, whichever of the two finder algorithms the depth selects, where no
\* key is above another one; but for the empty directories erase leaves, which
\* the one algorithm takes for metrics and the other does not.
QueriesAgree ==
    \A p \in Nodes :
        LET Plain(q) == AllApart(q) /\ (Data(q) # NoData \/ Children(q) # {})
            metrics == {q \in Children(p) : Finder(p)[q] = 0}
        IN  /\ \A q \in Children(p) : Plain(q) =>
                  /\ q \in metrics <=> ExpireAll(q, 1) # -1
                  /\ \A from \in 1 .. MaxTime : Expire(q, from) # Nothing =>
                        Expire(q, from) = ExpireAll(q, from) /\ q \in metrics
            /\ (\A q \in Children(p) : Plain(q)) => Tree(p).files = Cardinality(metrics)

\* Whoever browses from the root, opening what finder lists as a directory,
\* comes by every stored key and sees it listed as a metric, provided it is
\* neither above nor below another key.
BrowsingFindsAll ==
    \A k \in MetricsOf(tree) : Apart(k) => \A i \in 1 .. Len(k) :
        Finder(SubSeq(k, 1, i - 1))[SubSeq(k, 1, i)] = IF i = Len(k) THEN 0 ELSE 1

\* deepTree counts every key below its path once and knows the latest report,
\* where no key is above another one.
DeepTreeCountsAll ==
    \A p \in Nodes : AllApart(p) =>
        LET below == {k \in MetricsOf(tree) : Above(p, k) /\ k # p}
        IN  /\ DeepTree(p).files = Cardinality(below)
            /\ \A k \in below : DeepTree(p).lastUpdateTime >= tree[k]
            /\ DeepTree(p).lastUpdateTime > 0 => below # {}
=============================================================================
