--------------------------- MODULE MetricTreeProofs ---------------------------
(***************************************************************************)
(* Theorems about MetricTree, and about the scan of DeepScan, for any set  *)
(* of keys and requests.                                                   *)
(***************************************************************************)
EXTENDS DeepScan, FiniteSetTheorems, WellFoundedInduction, TLAPS

(***************************************************************************)
(* Prefixes of sequences.                                                  *)
(***************************************************************************)
LEMMA PrefixTyped ==
    ASSUME NEW S, NEW s \in Seq(S), NEW n \in 1 .. Len(s)
    PROVE  /\ SubSeq(s, 1, n) \in Seq(S) /\ Len(SubSeq(s, 1, n)) = n
           /\ \A i \in 1 .. n : SubSeq(s, 1, n)[i] = s[i]
  OBVIOUS

LEMMA PrefixWhole ==
    ASSUME NEW S, NEW s \in Seq(S)
    PROVE  SubSeq(s, 1, Len(s)) = s
  OBVIOUS

LEMMA PrefixOfPrefix ==
    ASSUME NEW S, NEW s \in Seq(S), NEW n \in 1 .. Len(s), NEW m \in 1 .. n
    PROVE  SubSeq(SubSeq(s, 1, n), 1, m) = SubSeq(s, 1, m)
  <1>1. SubSeq(s, 1, n) \in Seq(S) /\ Len(SubSeq(s, 1, n)) = n
    BY PrefixTyped
  <1>2. m \in 1 .. Len(s) /\ m \in 1 .. Len(SubSeq(s, 1, n))
    BY <1>1
  <1>3. /\ SubSeq(SubSeq(s, 1, n), 1, m) \in Seq(S) /\ SubSeq(s, 1, m) \in Seq(S)
        /\ Len(SubSeq(SubSeq(s, 1, n), 1, m)) = m /\ Len(SubSeq(s, 1, m)) = m
        /\ \A i \in 1 .. m : SubSeq(SubSeq(s, 1, n), 1, m)[i] = SubSeq(s, 1, m)[i]
    BY <1>1, <1>2, PrefixTyped
  <1> QED
    BY <1>3
-----------------------------------------------------------------------------
(***************************************************************************)
(* Every node hangs on the root.                                           *)
(***************************************************************************)
LEMMA PathsTyped ==
    /\ \A k \in Keys : k \in Seq(Names) /\ Len(k) \in Nat \ {0} /\ SubSeq(k, 1, Len(k)) = k
    /\ \A p \in Requests : p \in Seq(Names) /\ Len(p) \in Nat \ {0}
  BY TreeAssumption, PrefixWhole

LEMMA ClosedEmpty == ClosedTree(EmptyTree)
  BY DEF ClosedTree, EmptyTree

LEMMA ClosedPut ==
    ASSUME ClosedTree(tree), NEW k \in Keys, NEW time \in Times
    PROVE  ClosedTree(Put(k, time))
  <1> DEFINE path == {SubSeq(k, 1, i) : i \in 1 .. Len(k)}
  <1>1. DOMAIN Put(k, time) = DOMAIN tree \cup path
    BY DEF Put
  <1>2. \A p \in path : p \in Seq(Names) /\ Len(p) > 0
    BY PathsTyped, PrefixTyped
  <1>3. ASSUME NEW p \in DOMAIN Put(k, time)
        PROVE  p \in Seq(Names) /\ Len(p) > 0 /\ Put(k, time)[p] \in Times
    BY <1>1, <1>2 DEF ClosedTree, Put, Data, Times, NoData
  <1>4. ASSUME NEW p \in DOMAIN Put(k, time), NEW m \in 1 .. Len(p)
        PROVE  SubSeq(p, 1, m) \in DOMAIN Put(k, time)
    <2>1. CASE p \in DOMAIN tree
      BY <1>1, <2>1 DEF ClosedTree
    <2>2. CASE p \in path
      <3>1. PICK i \in 1 .. Len(k) : p = SubSeq(k, 1, i)
        BY <2>2
      <3>2. Len(p) = i /\ m \in 1 .. Len(k) /\ m \in 1 .. i
        BY <3>1, PathsTyped, PrefixTyped
      <3>3. SubSeq(p, 1, m) = SubSeq(k, 1, m)
        BY <3>1, <3>2, PathsTyped, PrefixOfPrefix
      <3> QED
        BY <1>1, <3>2, <3>3
    <2> QED
      BY <1>1, <2>1, <2>2
  <1> QED
    BY <1>3, <1>4 DEF ClosedTree

LEMMA ClosedWithout ==
    ASSUME ClosedTree(tree), NEW p \in Requests
    PROVE  ClosedTree(Without(p))
  <1>1. DOMAIN Without(p) = {q \in DOMAIN tree : ~Above(p, q)}
        /\ \A q \in DOMAIN Without(p) : Without(p)[q] = tree[q]
    BY DEF Without
  <1>2. ASSUME NEW q \in DOMAIN Without(p), NEW m \in 1 .. Len(q)
        PROVE  SubSeq(q, 1, m) \in DOMAIN Without(p)
    <2> DEFINE r == SubSeq(q, 1, m)
    <2>1. q \in DOMAIN tree /\ ~Above(p, q) /\ q \in Seq(Names) /\ r \in DOMAIN tree
      BY <1>1, <1>2 DEF ClosedTree
    <2>2. ASSUME Above(p, r) PROVE FALSE
      <3>1. Len(r) = m
        BY <1>2, <2>1, PrefixTyped
      <3>2. Len(p) \in 1 .. m /\ SubSeq(r, 1, Len(p)) = p
        BY <2>2, <3>1, PathsTyped DEF Above
      <3>3. SubSeq(q, 1, Len(p)) = p
        BY <2>1, <3>1, <3>2, PrefixOfPrefix
      <3> QED
        BY <2>1, <3>2, <3>3 DEF Above
    <2> QED
      BY <1>1, <2>1, <2>2
  <1> QED
    BY <1>1, <1>2 DEF ClosedTree

LEMMA TypeInit == Init => TypeOK
  BY ClosedEmpty, TreeAssumption DEF Init, TypeOK

LEMMA TypeNext == TypeOK /\ [Next]_vars => TypeOK'
  <1> SUFFICES ASSUME TypeOK, [Next]_vars PROVE TypeOK'
    OBVIOUS
  <1>1. ASSUME NEW k \in Keys, Report(k) PROVE TypeOK'
    <2>1. now \in Times
      BY DEF TypeOK, Times
    <2>2. ClosedTree(tree')
      BY <1>1, <2>1, ClosedPut DEF Report, TypeOK
    <2> QED
      BY <1>1, <2>2 DEF Report, TypeOK, ClosedTree
  <1>2. ASSUME NEW p \in Requests, Erase(p) PROVE TypeOK'
    <2>1. ClosedTree(tree')
      BY <1>2, ClosedWithout DEF Erase, TypeOK
    <2> QED
      BY <1>2, <2>1 DEF Erase, TypeOK, ClosedTree
  <1>3. ASSUME NEW p \in Requests, EraseThrows(p) PROVE TypeOK'
    BY <1>3 DEF EraseThrows, TypeOK, ClosedTree
  <1>4. CASE Save \/ Restart
    BY <1>4 DEF Save, Restart, TypeOK, ClosedTree
  <1>5. CASE Tick
    BY <1>5, TreeAssumption DEF Tick, TypeOK, ClosedTree
  <1>6. CASE UNCHANGED vars
    BY <1>6 DEF vars, TypeOK, ClosedTree
  <1> QED
    BY <1>1, <1>2, <1>3, <1>4, <1>5, <1>6 DEF Next

\* Every node hangs on the root and every time is one at which something was
\* reported, in memory and in the file.
THEOREM TypeCorrect == Spec => []TypeOK
  BY TypeInit, TypeNext, PTL DEF Spec
-----------------------------------------------------------------------------
(***************************************************************************)
(* The nodes with data implement the table of keys.                        *)
(***************************************************************************)
LEMMA KeysAfterPut ==
    ASSUME ClosedTree(tree), NEW k \in Keys, NEW time \in Nat \ {0}
    PROVE  KeysOf(Put(k, time)) =
              [q \in DOMAIN KeysOf(tree) \cup {k} |-> IF q = k THEN time ELSE KeysOf(tree)[q]]
  <1>1. k \in DOMAIN Put(k, time) /\ Put(k, time)[k] = time
    BY PathsTyped DEF Put
  <1>2. MetricsOf(Put(k, time)) = MetricsOf(tree) \cup {k}
    BY <1>1 DEF MetricsOf, Put, Data, NoData
  <1>3. \A q \in MetricsOf(tree) \ {k} : Put(k, time)[q] = tree[q]
    BY DEF MetricsOf, Put, Data
  <1> QED
    BY <1>1, <1>2, <1>3 DEF KeysOf

LEMMA KeysAfterErase ==
    ASSUME NEW p
    PROVE  KeysOf(Without(p)) =
              [q \in {r \in DOMAIN KeysOf(tree) : ~Above(p, r)} |-> KeysOf(tree)[q]]
  BY DEF KeysOf, MetricsOf, Without

LEMMA StoredIsGet ==
    ASSUME NEW k
    PROVE  Table!Stored(k) = Get(k, 0)
  BY DEF Table!Stored, Get, Data, KeysOf, MetricsOf, NoData

LEMMA TableInit == Init => Table!Init
  <1>1. KeysOf(EmptyTree) = [q \in {} |-> 0]
    BY DEF KeysOf, MetricsOf, EmptyTree
  <1> QED
    BY <1>1 DEF Init, Table!Init, Table!NoKeys

LEMMA TableNext == TypeOK /\ [Next]_vars => [Table!Next]_(Table!keyVars)
  <1> SUFFICES ASSUME TypeOK, [Next]_vars PROVE [Table!Next]_(Table!keyVars)
    OBVIOUS
  <1>1. ASSUME NEW k \in Keys, Report(k) PROVE Table!Report(k)
    <2>1. now \in Nat \ {0}
      BY TreeAssumption DEF TypeOK
    <2>2. now - Table!Stored(k) > ExpireTime
      BY <1>1, StoredIsGet DEF Report
    <2>3. KeysOf(tree)' = KeysOf(Put(k, now))
      BY <1>1 DEF Report, KeysOf, MetricsOf
    <2>4. KeysOf(saved)' = KeysOf(saved) /\ now' = now
      BY <1>1 DEF Report, KeysOf, MetricsOf
    <2> QED
      BY <2>1, <2>2, <2>3, <2>4, KeysAfterPut DEF Table!Report, TypeOK
  <1>2. ASSUME NEW p \in Requests, Erase(p) PROVE Table!Erase(p)
    <2>1. KeysOf(tree)' = KeysOf(Without(p))
      BY <1>2 DEF Erase, KeysOf, MetricsOf
    <2>2. KeysOf(saved)' = KeysOf(saved) /\ now' = now
      BY <1>2 DEF Erase, KeysOf, MetricsOf
    <2> QED
      BY <2>1, <2>2, KeysAfterErase DEF Table!Erase, Table!Above, Above
  <1>3. ASSUME NEW p \in Requests, EraseThrows(p) PROVE Table!Restart
    BY <1>3 DEF EraseThrows, Table!Restart, KeysOf, MetricsOf
  <1>4. ASSUME Save PROVE Table!Save
    <2>1. saved' = tree /\ tree' = tree /\ now' = now
      BY <1>4 DEF Save
    <2>2. KeysOf(saved)' = KeysOf(tree) /\ KeysOf(tree)' = KeysOf(tree)
      BY <2>1 DEF KeysOf, MetricsOf
    <2> QED
      BY <2>1, <2>2 DEF Table!Save
  <1>5. ASSUME Restart PROVE Table!Restart
    <2>1. tree' = saved /\ saved' = saved /\ now' = now
      BY <1>5 DEF Restart
    <2>2. KeysOf(tree)' = KeysOf(saved) /\ KeysOf(saved)' = KeysOf(saved)
      BY <2>1 DEF KeysOf, MetricsOf
    <2> QED
      BY <2>1, <2>2 DEF Table!Restart
  <1>6. ASSUME Tick PROVE Table!Tick
    <2>1. KeysOf(tree)' = KeysOf(tree) /\ KeysOf(saved)' = KeysOf(saved)
      BY <1>6 DEF Tick, KeysOf, MetricsOf
    <2> QED
      BY <1>6, <2>1 DEF Tick, Table!Tick
  <1>7. CASE UNCHANGED vars
    BY <1>7 DEF vars, Table!keyVars, KeysOf, MetricsOf
  <1> QED
    BY <1>1, <1>2, <1>3, <1>4, <1>5, <1>6, <1>7 DEF Next, Table!Next

\* Whatever keys are reported and erased, nested ones too, the tree is a table
\* of keys to whoever looks at the data only.
THEOREM TreeIsTable == Spec => ImplementsTable
  BY TypeInit, TypeNext, TableInit, TableNext, PTL DEF Spec, ImplementsTable, Table!Spec
-----------------------------------------------------------------------------
(***************************************************************************)
(* Browsing.  Every node is on the way to a key, and has data only if it   *)
(* is one; so a key apart from the others has no children, and what is on  *)
(* the way to it has children and no data: the two finder algorithms see   *)
(* the same.                                                               *)
(***************************************************************************)
OnTheWay(t) ==
    \A p \in DOMAIN t : /\ \E k \in Keys : Above(p, k)
                        /\ t[p] # NoData => p \in Keys

WayInv == OnTheWay(tree) /\ OnTheWay(saved)

LEMMA WayInit == Init => WayInv
  BY DEF Init, WayInv, OnTheWay, EmptyTree

LEMMA WayPut ==
    ASSUME OnTheWay(tree), NEW k \in Keys, NEW time
    PROVE  OnTheWay(Put(k, time))
  <1>1. \A i \in 1 .. Len(k) : Above(SubSeq(k, 1, i), k)
    BY PathsTyped, PrefixTyped DEF Above
  <1>2. ASSUME NEW p \in DOMAIN Put(k, time) PROVE \E j \in Keys : Above(p, j)
    BY <1>1 DEF Put, OnTheWay
  <1>3. ASSUME NEW p \in DOMAIN Put(k, time), Put(k, time)[p] # NoData PROVE p \in Keys
    BY <1>3 DEF Put, OnTheWay, Data
  <1> QED
    BY <1>2, <1>3 DEF OnTheWay

LEMMA WayNext == WayInv /\ [Next]_vars => WayInv'
  <1> SUFFICES ASSUME WayInv, [Next]_vars PROVE OnTheWay(tree') /\ OnTheWay(saved')
    BY DEF WayInv, OnTheWay
  <1>1. ASSUME NEW k \in Keys, Report(k) PROVE OnTheWay(tree') /\ OnTheWay(saved')
    BY <1>1, WayPut DEF Report, WayInv
  <1>2. ASSUME NEW p \in Requests, Erase(p) PROVE OnTheWay(tree') /\ OnTheWay(saved')
    <2>1. OnTheWay(Without(p))
      BY DEF WayInv, OnTheWay, Without
    <2> QED
      BY <1>2, <2>1 DEF Erase, WayInv
  <1>3. ASSUME NEW p \in Requests, EraseThrows(p) PROVE OnTheWay(tree') /\ OnTheWay(saved')
    BY <1>3 DEF EraseThrows, WayInv
  <1>4. CASE Save \/ Restart \/ Tick \/ UNCHANGED vars
    BY <1>4 DEF Save, Restart, Tick, vars, WayInv
  <1> QED
    BY <1>1, <1>2, <1>3, <1>4 DEF Next

LEMMA ChildOf ==
    ASSUME NEW p, NEW q \in DOMAIN tree, Len(p) \in Nat, Len(q) = Len(p) + 1,
           SubSeq(q, 1, Len(p)) = p
    PROVE  q \in Children(p)
  BY DEF Children, Above

\* Nothing hangs on a key that is apart: it would be on the way to another.
LEMMA NothingBelow ==
    ASSUME WayInv, NEW k \in Keys, Apart(k)
    PROVE  Children(k) = {}
  <1>0. k \in Seq(Names) /\ Len(k) \in Nat \ {0}
    BY PathsTyped
  <1>1. SUFFICES ASSUME NEW r \in Children(k) PROVE FALSE
    OBVIOUS
  <1>2. r \in DOMAIN tree /\ Len(r) = Len(k) + 1 /\ SubSeq(r, 1, Len(k)) = k
    BY DEF Children, Above
  <1>3. PICK j \in Keys : Above(r, j)
    BY <1>2 DEF WayInv, OnTheWay
  <1>4. /\ j \in Seq(Names) /\ Len(j) \in Nat /\ Len(k) + 1 <= Len(j)
        /\ SubSeq(j, 1, Len(k) + 1) = r
    BY <1>2, <1>3, PathsTyped DEF Above
  <1>5. SubSeq(j, 1, Len(k)) = k
    <2>1. Len(k) + 1 \in 1 .. Len(j) /\ Len(k) \in 1 .. Len(k) + 1
      BY <1>0, <1>4
    <2>2. SubSeq(SubSeq(j, 1, Len(k) + 1), 1, Len(k)) = SubSeq(j, 1, Len(k))
      BY <1>4, <2>1, PrefixOfPrefix
    <2> QED
      BY <1>2, <1>4, <2>2
  <1>6. j = k
    BY <1>0, <1>4, <1>5 DEF Apart, Above
  <1> QED
    BY <1>0, <1>4, <1>6

LEMMA Browse ==
    ASSUME TypeOK, WayInv,
           NEW k \in MetricsOf(tree), Apart(k), NEW i \in 1 .. Len(k)
    PROVE  Finder(SubSeq(k, 1, i - 1))[SubSeq(k, 1, i)] = IF i = Len(k) THEN 0 ELSE 1
  <1> DEFINE p == SubSeq(k, 1, i - 1)
             q == SubSeq(k, 1, i)
  <1>0. /\ k \in DOMAIN tree /\ k \in Keys /\ k \in Seq(Names) /\ Len(k) \in Nat \ {0}
        /\ SubSeq(k, 1, Len(k)) = k
        /\ \A j \in 1 .. Len(k) : /\ SubSeq(k, 1, j) \in DOMAIN tree
                                  /\ Len(SubSeq(k, 1, j)) = j
    BY PathsTyped, PrefixTyped DEF MetricsOf, WayInv, OnTheWay, TypeOK, ClosedTree
  <1>1. Len(p) = i - 1 /\ \A j \in 1 .. i - 1 : SubSeq(p, 1, j) = SubSeq(k, 1, j)
    <2>1. CASE i = 1
      BY <1>0, <2>1
    <2>2. CASE i > 1
      <3>1. i - 1 \in 1 .. Len(k)
        BY <1>0, <2>2
      <3> QED
        BY <1>0, <3>1, PrefixOfPrefix
    <2> QED
      BY <1>0, <2>1, <2>2
  <1>2. Found(p)
    <2>1. SUFFICES ASSUME NEW j \in 1 .. Len(p) PROVE SubSeq(p, 1, j) \in DOMAIN tree
      BY DEF Found
    <2>2. Len(k) \in Nat /\ j \in 1 .. i - 1 /\ j \in 1 .. Len(k)
      BY <1>0, <1>1
    <2> QED
      BY <1>0, <1>1, <2>2
  <1>3. q \in Children(p)
    <2>1. SubSeq(q, 1, i - 1) = p
      <3>1. CASE i = 1
        BY <1>0, <3>1
      <3>2. CASE i > 1
        <4>1. i - 1 \in 1 .. i
          BY <1>0, <3>2
        <4> QED
          BY <1>0, <4>1, PrefixOfPrefix
      <3> QED
        BY <1>0, <3>1, <3>2
    <2>2. Len(p) \in Nat /\ Len(q) = Len(p) + 1 /\ q \in DOMAIN tree
      BY <1>0, <1>1
    <2>3. SubSeq(q, 1, Len(p)) = p
      BY <1>1, <2>1
    <2> HIDE DEF p, q
    <2> QED
      BY <2>2, <2>3, ChildOf
  <1>4. i # Len(k) => Data(q) = NoData
    <2>1. SUFFICES ASSUME i # Len(k), Data(q) # NoData PROVE FALSE
      OBVIOUS
    <2>2. q \in Keys
      BY <1>0, <2>1 DEF Data, WayInv, OnTheWay
    <2>3. Above(q, k)
      BY <1>0 DEF Above
    <2> QED
      BY <1>0, <2>1, <2>2, <2>3 DEF Apart
  <1>5. i = Len(k) => Data(q) # NoData
    BY <1>0 DEF Data, MetricsOf
  <1>6. i # Len(k) => Children(q) # {}
    <2>1. SUFFICES ASSUME i # Len(k) PROVE Children(q) # {}
      OBVIOUS
    <2> DEFINE r == SubSeq(k, 1, i + 1)
    <2>2. i \in 1 .. Len(k) /\ Len(k) \in Nat
      BY <1>0
    <2>3. i + 1 \in 1 .. Len(k) /\ i \in 1 .. i + 1
      BY <2>1, <2>2
    <2>4. SubSeq(r, 1, i) = q
      BY <1>0, <2>3, PrefixOfPrefix
    <2>5. Len(q) = i /\ Len(r) = i + 1 /\ r \in DOMAIN tree
      BY <1>0, <2>3
    <2>6. Len(q) \in Nat /\ Len(r) = Len(q) + 1 /\ SubSeq(r, 1, Len(q)) = q
      BY <2>2, <2>4, <2>5
    <2> HIDE DEF q, r
    <2> QED
      BY <2>5, <2>6, ChildOf
  <1>7. i = Len(k) => Children(q) = {}
    BY <1>0, NothingBelow
  <1>8. CASE Len(p) - 1 >= Split
    BY <1>2, <1>3, <1>6, <1>7, <1>8 DEF Finder, FinderByTree
  <1>9. CASE ~(Len(p) - 1 >= Split)
    BY <1>2, <1>3, <1>4, <1>5, <1>9 DEF Finder, FinderByIter
  <1> QED
    BY <1>8, <1>9

\* Whoever browses from the root finds every stored key, at any depth and
\* whatever was erased, if it is neither above nor below another key.
THEOREM BrowsingFinds == Spec => []BrowsingFindsAll
  <1>1. TypeOK /\ WayInv => BrowsingFindsAll
    BY Browse DEF BrowsingFindsAll
  <1> QED
    BY <1>1, TypeInit, TypeNext, WayInit, WayNext, PTL DEF Spec
-----------------------------------------------------------------------------
(***************************************************************************)
(* The answers.  A node has data only if it is a key, so where keys are    *)
(* apart what the queries tell metrics by comes to the same.               *)
(***************************************************************************)
LEMMA DataIs ==
    ASSUME TypeOK, NEW q \in DOMAIN tree
    PROVE  Data(q) = tree[q] /\ Data(q) \in Int /\ Data(q) <= MaxTime
           /\ (Data(q) # NoData => Data(q) > 1)
  BY TreeAssumption DEF Data, TypeOK, ClosedTree, Times, NoData

LEMMA DataIsKey ==
    ASSUME WayInv, NEW q \in DOMAIN tree, Data(q) # NoData
    PROVE  q \in Keys
  BY DEF Data, WayInv, OnTheWay

LEMMA FoundNode ==
    ASSUME TypeOK, NEW p \in Nodes
    PROVE  Found(p) /\ Len(p) \in Nat
  <1>1. CASE p = Root
    BY <1>1 DEF Found, Root
  <1>2. CASE p \in DOMAIN tree
    BY <1>2 DEF Found, TypeOK, ClosedTree
  <1> QED
    BY <1>1, <1>2 DEF Nodes

\* Both finder algorithms list a plain node by whether it has data.
LEMMA FinderTells ==
    ASSUME TypeOK, WayInv, NEW p \in Nodes, NEW q \in Children(p),
           AllApart(q), Data(q) # NoData \/ Children(q) # {}
    PROVE  Finder(p)[q] = 0 <=> Data(q) # NoData
  <1>1. q \in DOMAIN tree
    BY DEF Children
  <1>2. Data(q) # NoData => Children(q) = {}
    <2> SUFFICES ASSUME Data(q) # NoData PROVE Children(q) = {}
      OBVIOUS
    <2>1. q \in Keys
      BY <1>1, DataIsKey
    <2>2. Above(q, q)
      BY <2>1, PathsTyped DEF Above
    <2>3. Apart(q)
      BY <2>1, <2>2 DEF AllApart
    <2> QED
      BY <2>1, <2>3, NothingBelow
  <1>3. FinderByTree(p)[q] = 0 <=> Data(q) # NoData
    BY <1>2 DEF FinderByTree
  <1>4. FinderByIter(p)[q] = 0 <=> Data(q) # NoData
    BY DEF FinderByIter
  <1> QED
    BY <1>3, <1>4, FoundNode DEF Finder

LEMMA ExpireTells ==
    ASSUME TypeOK, NEW q \in DOMAIN tree
    PROVE  /\ ExpireAll(q, 1) # -1 <=> Data(q) # NoData
           /\ \A from \in 1 .. MaxTime : Expire(q, from) # Nothing =>
                 Expire(q, from) = ExpireAll(q, from) /\ Data(q) # NoData
  <1>1. Data(q) \in Int /\ (Data(q) # NoData => Data(q) > 1)
    BY DataIs
  <1>2. CASE Data(q) = NoData
    BY <1>2 DEF ExpireAll, Expire, Get, Nothing
  <1>3. CASE Data(q) # NoData
    BY <1>1, <1>3 DEF ExpireAll, Expire, Get, Nothing
  <1> QED
    BY <1>2, <1>3

LEMMA AgreeOn ==
    ASSUME TypeOK, WayInv, NEW p \in Nodes
    PROVE  LET Plain(q) == AllApart(q) /\ (Data(q) # NoData \/ Children(q) # {})
               metrics == {q \in Children(p) : Finder(p)[q] = 0}
           IN  /\ \A q \in Children(p) : Plain(q) =>
                     /\ q \in metrics <=> ExpireAll(q, 1) # -1
                     /\ \A from \in 1 .. MaxTime : Expire(q, from) # Nothing =>
                           Expire(q, from) = ExpireAll(q, from) /\ q \in metrics
               /\ (\A q \in Children(p) : Plain(q)) => Tree(p).files = Cardinality(metrics)
  <1> DEFINE Plain(q) == AllApart(q) /\ (Data(q) # NoData \/ Children(q) # {})
             metrics == {q \in Children(p) : Finder(p)[q] = 0}
  <1>1. \A q \in Children(p) : Plain(q) => (q \in metrics <=> Data(q) # NoData)
    BY FinderTells
  <1>2. \A q \in Children(p) : q \in DOMAIN tree
    BY DEF Children
  <1> HIDE DEF Plain, metrics
  <1>3. ASSUME NEW q \in Children(p), Plain(q)
        PROVE  /\ q \in metrics <=> ExpireAll(q, 1) # -1
               /\ \A from \in 1 .. MaxTime : Expire(q, from) # Nothing =>
                     Expire(q, from) = ExpireAll(q, from) /\ q \in metrics
    BY <1>1, <1>2, <1>3, ExpireTells
  <1>4. ASSUME \A q \in Children(p) : Plain(q) PROVE Tree(p).files = Cardinality(metrics)
    <2>1. metrics = {q \in Children(p) : Data(q) # NoData}
      BY <1>1, <1>4 DEF metrics
    <2> QED
      BY <2>1 DEF Tree, Status
  <1> QED
    BY <1>3, <1>4 DEF Plain, metrics

\* finder with either algorithm, expire, expireAll and tree agree on what is a
\* metric, whatever was reported, erased and loaded before.
THEOREM AnswersAgree == Spec => []QueriesAgree
  <1>1. TypeOK /\ WayInv => QueriesAgree
    BY AgreeOn DEF QueriesAgree
  <1> QED
    BY <1>1, TypeInit, TypeNext, WayInit, WayNext, PTL DEF Spec
-----------------------------------------------------------------------------
(***************************************************************************)
(* deepTree.                                                               *)
(***************************************************************************)
LEMMA HasGreatest ==
    ASSUME NEW b \in Nat, NEW T, T \subseteq 0 .. b, T # {}
    PROVE  \E t \in T : \A u \in T : u <= t
  <1> DEFINE D == {b - t : t \in T}
             R == OpToRel(<, Nat)
  <1>1. D \subseteq Nat /\ D # {}
    <2> HIDE DEF R
    <2>1. \A t \in T : t \in Int /\ b - t \in Nat
      OBVIOUS
    <2> QED
      BY <2>1
  <1>2. IsWellFoundedOn(R, Nat)
    BY NatLessThanWellFounded
  <1>3. \A m, n \in Nat : m < n => <<m, n>> \in R
    BY DEF OpToRel
  <1> HIDE DEF D, R
  <1>4. PICK d \in D : \A e \in D : <<e, d>> \notin R
    BY <1>1, <1>2, WFMin
  <1>5. \A e \in D : ~(e < d)
    BY <1>1, <1>3, <1>4
  <1>6. PICK t \in T : d = b - t
    BY DEF D
  <1>7. \A u \in T : b - u \in D
    BY DEF D
  <1> QED
    BY <1>5, <1>6, <1>7

LEMMA LatestIs ==
    ASSUME TypeOK, NEW nodes, nodes \subseteq DOMAIN tree
    PROVE  /\ Latest(nodes) \in {0} \cup {Data(q) : q \in nodes}
           /\ \A q \in nodes : Data(q) <= Latest(nodes)
  <1> DEFINE T == {0} \cup {Data(q) : q \in nodes}
  <1>1. MaxTime \in Nat
    BY TreeAssumption
  <1>2. \A q \in nodes : Data(q) \in 0 .. MaxTime
    BY <1>1, DataIs DEF NoData
  <1>3. T \subseteq 0 .. MaxTime /\ T # {}
    BY <1>1, <1>2
  <1> HIDE DEF T
  <1>4. PICK t \in T : \A u \in T : u <= t
    BY <1>1, <1>3, HasGreatest
  <1>5. \A q \in nodes : Data(q) \in T
    BY DEF T
  <1>6. \E u \in T : \A q \in nodes : Data(q) <= u
    BY <1>4, <1>5
  <1> QED
    BY <1>6 DEF Latest, T

\* deepTree comes by every key below: no node on the way to it has data.
LEMMA ScansBelow ==
    ASSUME TypeOK, WayInv, NEW p \in Nodes, AllApart(p),
           NEW k \in MetricsOf(tree), Above(p, k), k # p
    PROVE  k \in Scanned(p)
  <1>1. k \in DOMAIN tree /\ k \in Keys /\ k \in Seq(Names) /\ Len(k) \in Nat \ {0}
    BY PathsTyped DEF MetricsOf, WayInv, OnTheWay
  <1>2. SUFFICES ASSUME NEW i \in Len(p) + 1 .. Len(k) - 1, Data(SubSeq(k, 1, i)) # NoData
                 PROVE  FALSE
    BY <1>1 DEF Scanned
  <1>3. i \in 1 .. Len(k) /\ i # Len(k)
    BY <1>1, FoundNode
  <1>4. /\ SubSeq(k, 1, i) \in DOMAIN tree /\ SubSeq(k, 1, i) \in Seq(Names)
        /\ Len(SubSeq(k, 1, i)) = i
    BY <1>1, <1>3, PrefixTyped DEF TypeOK, ClosedTree
  <1>5. SubSeq(k, 1, i) \in Keys /\ Above(SubSeq(k, 1, i), k)
    BY <1>1, <1>2, <1>3, <1>4, DataIsKey DEF Above
  <1>6. SubSeq(k, 1, i) = k
    BY <1>1, <1>5 DEF AllApart, Apart
  <1> QED
    BY <1>3, <1>4, <1>6

LEMMA DeepTreeOf ==
    ASSUME TypeOK, WayInv, NEW p \in Nodes, AllApart(p)
    PROVE  LET below == {k \in MetricsOf(tree) : Above(p, k) /\ k # p}
           IN  /\ DeepTree(p).files = Cardinality(below)
               /\ \A k \in below : DeepTree(p).lastUpdateTime >= tree[k]
               /\ DeepTree(p).lastUpdateTime > 0 => below # {}
  <1> DEFINE below == {k \in MetricsOf(tree) : Above(p, k) /\ k # p}
  <1>1. below = {q \in Scanned(p) : Data(q) # NoData}
    <2>1. ASSUME NEW k \in below PROVE k \in Scanned(p) /\ Data(k) # NoData
      BY <2>1, ScansBelow DEF MetricsOf, Data
    <2>2. ASSUME NEW q \in Scanned(p), Data(q) # NoData PROVE q \in below
      BY <2>2 DEF Scanned, MetricsOf, Data
    <2> QED
      BY <2>1, <2>2
  <1>2. Scanned(p) \subseteq DOMAIN tree
    BY DEF Scanned
  <1>3. /\ DeepTree(p).files = Cardinality({q \in Scanned(p) : Data(q) # NoData})
        /\ DeepTree(p).lastUpdateTime = Latest(Scanned(p))
    BY DEF DeepTree, Status
  <1> HIDE DEF below
  <1>4. /\ Latest(Scanned(p)) \in {0} \cup {Data(q) : q \in Scanned(p)}
        /\ \A q \in Scanned(p) : Data(q) <= Latest(Scanned(p))
    BY <1>2, LatestIs
  <1>5. \A q \in Scanned(p) : Data(q) = tree[q] /\ Data(q) \in Int
    BY <1>2, DataIs
  <1>6. ASSUME NEW k \in below PROVE Latest(Scanned(p)) >= tree[k]
    <2>1. k \in Scanned(p) /\ tree[k] <= Latest(Scanned(p)) /\ tree[k] \in Int
      BY <1>1, <1>4, <1>5
    <2>2. Latest(Scanned(p)) \in Int
      BY <1>4, <1>5
    <2> QED
      BY <2>1, <2>2
  <1>7. ASSUME Latest(Scanned(p)) > 0 PROVE below # {}
    <2>1. PICK q \in Scanned(p) : Data(q) = Latest(Scanned(p))
      BY <1>4, <1>7
    <2> QED
      BY <1>1, <1>7, <2>1 DEF NoData
  <1> QED
    BY <1>1, <1>3, <1>6, <1>7 DEF below

\* deepTree counts every key below its path and knows the latest report, at any
\* depth, where no key is above another one.
THEOREM DeepTreeIsRight == Spec => []DeepTreeCountsAll
  <1>1. TypeOK /\ WayInv => DeepTreeCountsAll
    BY DeepTreeOf DEF DeepTreeCountsAll
  <1> QED
    BY <1>1, TypeInit, TypeNext, WayInit, WayNext, PTL DEF Spec
-----------------------------------------------------------------------------
(***************************************************************************)
(* The tree is finite.                                                     *)
(***************************************************************************)
FiniteInv == IsFiniteSet(DOMAIN tree) /\ IsFiniteSet(DOMAIN saved)

LEMMA FiniteInit == Init => FiniteInv
  BY FS_EmptySet DEF Init, FiniteInv, EmptyTree

LEMMA FinitePath ==
    ASSUME NEW k \in Keys
    PROVE  IsFiniteSet({SubSeq(k, 1, i) : i \in 1 .. Len(k)})
  <1> DEFINE path == {SubSeq(k, 1, i) : i \in 1 .. Len(k)}
             f == [i \in 1 .. Len(k) |-> SubSeq(k, 1, i)]
  <1>1. f \in Surjection(1 .. Len(k), path)
    BY DEF Surjection
  <1>2. IsFiniteSet(1 .. Len(k))
    BY PathsTyped, FS_Interval
  <1> QED
    BY <1>1, <1>2, FS_Surjection

LEMMA FiniteNext == FiniteInv /\ [Next]_vars => FiniteInv'
  <1> SUFFICES ASSUME FiniteInv, [Next]_vars PROVE FiniteInv'
    OBVIOUS
  <1>1. ASSUME NEW k \in Keys, Report(k) PROVE FiniteInv'
    <2>1. DOMAIN tree' = DOMAIN tree \cup {SubSeq(k, 1, i) : i \in 1 .. Len(k)}
      BY <1>1 DEF Report, Put
    <2>2. IsFiniteSet(DOMAIN tree) /\ IsFiniteSet({SubSeq(k, 1, i) : i \in 1 .. Len(k)})
      BY FinitePath DEF FiniteInv
    <2>3. IsFiniteSet(DOMAIN tree')
      BY <2>1, <2>2, FS_Union
    <2> QED
      BY <1>1, <2>3 DEF Report, FiniteInv
  <1>2. ASSUME NEW p \in Requests, Erase(p) PROVE FiniteInv'
    <2>1. DOMAIN tree' \subseteq DOMAIN tree
      BY <1>2 DEF Erase, Without
    <2>2. IsFiniteSet(DOMAIN tree')
      BY <2>1, FS_Subset DEF FiniteInv
    <2> QED
      BY <1>2, <2>2 DEF Erase, FiniteInv
  <1>3. ASSUME NEW p \in Requests, EraseThrows(p) PROVE FiniteInv'
    BY <1>3 DEF EraseThrows, FiniteInv
  <1>4. CASE Save \/ Restart \/ Tick \/ UNCHANGED vars
    BY <1>4 DEF Save, Restart, Tick, vars, FiniteInv
  <1> QED
    BY <1>1, <1>2, <1>3, <1>4 DEF Next

LEMMA PrefixAt ==
    ASSUME NEW S, NEW s \in Seq(S), NEW n \in 0 .. Len(s), NEW m \in 0 .. n
    PROVE  /\ SubSeq(s, 1, n) \in Seq(S) /\ Len(SubSeq(s, 1, n)) = n
           /\ SubSeq(SubSeq(s, 1, n), 1, m) = SubSeq(s, 1, m)
  <1>1. CASE n = 0
    BY <1>1
  <1>2. CASE n # 0 /\ m = 0
    <2>1. n \in 1 .. Len(s)
      BY <1>2
    <2> QED
      BY <1>2, <2>1, PrefixTyped
  <1>3. CASE m # 0
    <2>1. n \in 1 .. Len(s) /\ m \in 1 .. n
      BY <1>3
    <2> QED
      BY <2>1, PrefixTyped, PrefixOfPrefix
  <1> QED
    BY <1>1, <1>2, <1>3

LEMMA NodeIs ==
    ASSUME TypeOK, NEW p \in Nodes
    PROVE  /\ p \in Seq(Names) /\ Len(p) \in Nat
           /\ \A i \in 1 .. Len(p) : SubSeq(p, 1, i) \in DOMAIN tree
  <1>1. CASE p = Root
    BY <1>1 DEF Root
  <1>2. CASE p \in DOMAIN tree
    BY <1>2 DEF TypeOK, ClosedTree
  <1> QED
    BY <1>1, <1>2 DEF Nodes

\* A path is no longer than there are nodes: its prefixes are all different.
LEMMA PathsBounded ==
    ASSUME TypeOK, IsFiniteSet(DOMAIN tree), NEW p \in Nodes
    PROVE  Len(p) <= Cardinality(DOMAIN tree)
  <1> DEFINE f == [i \in 1 .. Len(p) |-> SubSeq(p, 1, i)]
  <1>1. p \in Seq(Names) /\ Len(p) \in Nat /\ \A i \in 1 .. Len(p) : SubSeq(p, 1, i) \in DOMAIN tree
    BY NodeIs
  <1>2. \A i \in 1 .. Len(p) : Len(f[i]) = i
    BY <1>1, PrefixTyped
  <1>3. f \in Injection(1 .. Len(p), DOMAIN tree)
    BY <1>1, <1>2 DEF Injection, IsInjective
  <1>4. Cardinality(1 .. Len(p)) <= Cardinality(DOMAIN tree)
    BY <1>3, FS_Injection
  <1>5. Cardinality(1 .. Len(p)) = Len(p)
    BY <1>1, FS_Interval
  <1> QED
    BY <1>4, <1>5

LEMMA ChildIs ==
    ASSUME TypeOK, NEW p \in Nodes, NEW q \in Children(p)
    PROVE  /\ q \in DOMAIN tree /\ q \in Nodes /\ q \in Seq(Names)
           /\ Len(p) \in Nat /\ Len(q) = Len(p) + 1 /\ SubSeq(q, 1, Len(p)) = p
  BY NodeIs DEF Children, Above, Nodes

\* The order of the entries: each is there once.
LEMMA EntriesAre ==
    ASSUME IsFiniteSet(DOMAIN tree), NEW p, NEW s, s = SetToSeq(Children(p))
    PROVE  /\ Len(s) \in Nat /\ Len(s) = Cardinality(Children(p))
           /\ \A i \in 1 .. Len(s) : s[i] \in Children(p)
           /\ \A i, j \in 1 .. Len(s) : s[i] = s[j] => i = j
           /\ \A q \in Children(p) : \E i \in 1 .. Len(s) : s[i] = q
  <1> DEFINE C == Children(p)
             n == Cardinality(C)
  <1>1. IsFiniteSet(C)
    BY FS_Subset DEF Children
  <1>2. n \in Nat /\ ExistsBijection(1 .. n, C)
    BY <1>1, FS_CardinalityType
  <1>3. PICK f : f \in [1 .. n -> C] /\ IsInjective(f)
    BY <1>2 DEF ExistsBijection, Bijection, Injection
  <1>4. s \in [1 .. n -> C] /\ IsInjective(s)
    BY <1>3 DEF SetToSeq
  <1>5. s \in Injection(1 .. n, C)
    BY <1>4 DEF Injection
  <1>6. Cardinality(1 .. n) = n
    BY <1>2, FS_Interval
  <1>7. s \in Surjection(1 .. n, C)
    BY <1>1, <1>5, <1>6, FS_Injection
  <1>8. s \in Seq(C) /\ Len(s) = n
    BY <1>2, <1>4
  <1>9. \A i \in 1 .. n : s[i] \in C
    BY <1>4
  <1>10. \A i, j \in 1 .. n : s[i] = s[j] => i = j
    BY <1>4 DEF IsInjective
  <1>11. \A q \in C : \E i \in 1 .. n : s[i] = q
    BY <1>7 DEF Surjection
  <1> QED
    BY <1>2, <1>8, <1>9, <1>10, <1>11

(***************************************************************************)
(* What a scan of p can come by, and what it comes by at one entry.        *)
(***************************************************************************)
Reach(sub, p) == IF sub THEN Scanned(p) ELSE Children(p)
Branch(sub, q) == {q} \cup (IF sub /\ Data(q) = NoData THEN Scanned(q) ELSE {})

LEMMA ScannedIs ==
    ASSUME TypeOK, NEW p \in Nodes, NEW r \in Scanned(p)
    PROVE  /\ r \in DOMAIN tree /\ r \in Seq(Names) /\ Len(p) \in Nat /\ Len(r) > Len(p)
           /\ SubSeq(r, 1, Len(p)) = p /\ Above(p, r)
  <1>1. r \in DOMAIN tree /\ Above(p, r) /\ r # p
    BY DEF Scanned
  <1>2. r \in Seq(Names) /\ Len(p) \in Nat /\ Len(p) <= Len(r) /\ SubSeq(r, 1, Len(p)) = p
    BY <1>1, NodeIs DEF Above, TypeOK, ClosedTree
  <1>3. Len(r) # Len(p)
    BY <1>1, <1>2, PrefixWhole
  <1> QED
    BY <1>1, <1>2, <1>3

\* What is on an entry's branch lies below that entry.
LEMMA BranchIs ==
    ASSUME TypeOK, NEW sub, NEW p \in Nodes, NEW q \in Children(p), NEW r \in Branch(sub, q)
    PROVE  /\ r \in DOMAIN tree /\ r \in Seq(Names) /\ Len(r) >= Len(p) + 1
           /\ SubSeq(r, 1, Len(p) + 1) = q /\ Above(q, r)
  <1>1. /\ q \in DOMAIN tree /\ q \in Nodes /\ q \in Seq(Names)
        /\ Len(p) \in Nat /\ Len(q) = Len(p) + 1
    BY ChildIs
  <1>2. CASE r = q
    BY <1>1, <1>2, PrefixWhole DEF Above
  <1>3. CASE r \in Scanned(q)
    BY <1>1, <1>3, ScannedIs
  <1> QED
    BY <1>2, <1>3 DEF Branch

LEMMA BranchesApart ==
    ASSUME TypeOK, NEW sub, NEW p \in Nodes, NEW q \in Children(p), NEW c \in Children(p),
           NEW r \in Branch(sub, q), r \in Branch(sub, c)
    PROVE  q = c
  <1>1. SubSeq(r, 1, Len(p) + 1) = q
    BY BranchIs
  <1>2. SubSeq(r, 1, Len(p) + 1) = c
    BY BranchIs
  <1> QED
    BY <1>1, <1>2

LEMMA NotBelowItself ==
    ASSUME TypeOK, NEW p \in Nodes
    PROVE  p \notin Scanned(p)
  BY DEF Scanned

LEMMA BranchScanned ==
    ASSUME TypeOK, NEW p \in Nodes, NEW q \in Children(p), NEW r \in Branch(TRUE, q)
    PROVE  r \in Scanned(p)
  <1>1. /\ q \in DOMAIN tree /\ q \in Nodes /\ q \in Seq(Names)
        /\ Len(p) \in Nat /\ Len(q) = Len(p) + 1 /\ SubSeq(q, 1, Len(p)) = p
    BY ChildIs
  <1>2. /\ r \in DOMAIN tree /\ r \in Seq(Names) /\ Len(r) \in Nat /\ Len(r) >= Len(p) + 1
        /\ SubSeq(r, 1, Len(p) + 1) = q
    <2>1. /\ r \in DOMAIN tree /\ r \in Seq(Names) /\ Len(r) >= Len(p) + 1
          /\ SubSeq(r, 1, Len(p) + 1) = q
      <3>1. PICK sub : sub = TRUE
        OBVIOUS
      <3>2. r \in Branch(sub, q)
        BY <3>1
      <3> QED
        BY <3>2, BranchIs
    <2> QED
      BY <2>1
  <1>3. SubSeq(r, 1, Len(p)) = p
    <2>1. Len(p) + 1 \in 0 .. Len(r) /\ Len(p) \in 0 .. Len(p) + 1
      BY <1>1, <1>2
    <2>2. SubSeq(SubSeq(r, 1, Len(p) + 1), 1, Len(p)) = SubSeq(r, 1, Len(p))
      BY <1>2, <2>1, PrefixAt
    <2> QED
      BY <1>1, <1>2, <2>2
  <1>4. Above(p, r) /\ r # p
    BY <1>1, <1>2, <1>3 DEF Above
  <1>5. ASSUME NEW i \in Len(p) + 1 .. Len(r) - 1 PROVE Data(SubSeq(r, 1, i)) = NoData
    <2>1. r # q /\ r \in Scanned(q) /\ Data(q) = NoData
      <3>1. r # q
        BY <1>1, <1>2, <1>5
      <3> QED
        BY <3>1 DEF Branch
    <2>2. CASE i = Len(p) + 1
      BY <1>2, <2>1, <2>2
    <2>3. CASE i # Len(p) + 1
      <3>1. i \in Len(q) + 1 .. Len(r) - 1
        BY <1>1, <1>2, <2>3
      <3> QED
        BY <2>1, <3>1 DEF Scanned
    <2> QED
      BY <2>2, <2>3
  <1> QED
    BY <1>2, <1>4, <1>5 DEF Scanned

LEMMA ScannedBranch ==
    ASSUME TypeOK, NEW p \in Nodes, NEW r \in Scanned(p)
    PROVE  \E q \in Children(p) : r \in Branch(TRUE, q)
  <1> DEFINE q == SubSeq(r, 1, Len(p) + 1)
  <1>1. /\ r \in DOMAIN tree /\ r \in Seq(Names) /\ Len(p) \in Nat /\ Len(r) \in Nat
        /\ Len(r) > Len(p) /\ SubSeq(r, 1, Len(p)) = p
    BY ScannedIs
  <1>2. Len(p) + 1 \in 0 .. Len(r) /\ Len(p) + 1 \in 1 .. Len(r) /\ Len(p) \in 0 .. Len(p) + 1
    BY <1>1
  <1>3. q \in DOMAIN tree /\ Len(q) = Len(p) + 1
    BY <1>1, <1>2, PrefixAt DEF TypeOK, ClosedTree
  <1>4. SubSeq(q, 1, Len(p)) = p
    BY <1>1, <1>2, PrefixAt
  <1>5. q \in Children(p)
    <2> HIDE DEF q
    <2> QED
      BY <1>1, <1>3, <1>4, ChildOf
  <1>6. CASE Len(r) = Len(p) + 1
    <2>1. q = r
      BY <1>1, <1>6, PrefixWhole
    <2> HIDE DEF q
    <2> QED
      BY <1>5, <2>1 DEF Branch
  <1>7. CASE Len(r) # Len(p) + 1
    <2>1. Len(p) + 1 \in Len(p) + 1 .. Len(r) - 1
      BY <1>1, <1>7
    <2>2. Data(q) = NoData
      BY <2>1 DEF Scanned
    <2>3. Above(q, r) /\ r # q
      <3>1. SubSeq(r, 1, Len(q)) = q
        BY <1>3
      <3> HIDE DEF q
      <3> QED
        BY <1>1, <1>3, <1>7, <3>1 DEF Above
    <2>4. ASSUME NEW i \in Len(q) + 1 .. Len(r) - 1 PROVE Data(SubSeq(r, 1, i)) = NoData
      <3>1. i \in Len(p) + 1 .. Len(r) - 1
        BY <1>1, <1>3
      <3> QED
        BY <3>1 DEF Scanned
    <2> HIDE DEF q
    <2>5. r \in Scanned(q)
      BY <1>1, <2>3, <2>4 DEF Scanned
    <2> QED
      BY <1>5, <2>2, <2>5 DEF Branch
  <1> QED
    BY <1>6, <1>7

LEMMA ReachIs ==
    ASSUME TypeOK, NEW sub \in BOOLEAN, NEW p \in Nodes
    PROVE  /\ \A q \in Children(p) : q \in Branch(sub, q) /\ Branch(sub, q) \subseteq Reach(sub, p)
           /\ \A r \in Reach(sub, p) : \E q \in Children(p) : r \in Branch(sub, q)
           /\ Reach(sub, p) \subseteq DOMAIN tree
  <1>1. CASE sub = TRUE
    <2>1. \A q \in Children(p) : q \in Branch(TRUE, q) /\ Branch(TRUE, q) \subseteq Scanned(p)
      BY BranchScanned DEF Branch
    <2>2. \A r \in Scanned(p) : \E q \in Children(p) : r \in Branch(TRUE, q)
      BY ScannedBranch
    <2> QED
      BY <1>1, <2>1, <2>2 DEF Reach, Scanned
  <1>2. CASE sub = FALSE
    <2>1. \A q : Branch(FALSE, q) = {q}
      BY DEF Branch
    <2>2. Reach(sub, p) = Children(p) /\ \A q : Branch(sub, q) = {q}
      BY <1>2, <2>1 DEF Reach
    <2>3. Children(p) \subseteq DOMAIN tree
      BY DEF Children
    <2> QED
      BY <2>2, <2>3
  <1> QED
    BY <1>1, <1>2

LEMMA HasLeast ==
    ASSUME NEW T, T \subseteq Nat, T # {}
    PROVE  \E t \in T : \A u \in T : t <= u
  <1> DEFINE R == OpToRel(<, Nat)
  <1>1. IsWellFoundedOn(R, Nat)
    BY NatLessThanWellFounded
  <1>2. \A m, n \in Nat : m < n => <<m, n>> \in R
    BY DEF OpToRel
  <1> HIDE DEF R
  <1>3. PICK t \in T : \A u \in T : <<u, t>> \notin R
    BY <1>1, WFMin
  <1>4. \A u \in T : ~(u < t)
    BY <1>2, <1>3
  <1> QED
    BY <1>4

(***************************************************************************)
(* The loop of a scan, turn by turn.                                       *)
(***************************************************************************)
Start(so) == [so EXCEPT !.ret = TRUE]
End(loop, n) == IF loop.ret THEN [loop EXCEPT !.widest = Max({@, n})] ELSE loop

IsTurns(t, below, sub, so, s, n) ==
    t = [i \in 0 .. n |-> IF i = 0 THEN Start(so) ELSE Turn(below, sub, t[i - 1], s[i])]

LEMMA TurnsExist ==
    ASSUME NEW below, NEW sub, NEW so, NEW s
    PROVE  \A n \in Nat : \E t : IsTurns(t, below, sub, so, s, n)
  <1> DEFINE P(n) == \E t : IsTurns(t, below, sub, so, s, n)
             T == {n \in Nat : ~P(n)}
  <1> SUFFICES ASSUME T # {} PROVE FALSE
    OBVIOUS
  <1>1. PICK n \in T : \A m \in T : n <= m
    <2> HIDE DEF P
    <2> QED
      BY HasLeast
  <1>2. n # 0
    <2> DEFINE t == [i \in 0 .. 0 |-> Start(so)]
    <2>1. IsTurns(t, below, sub, so, s, 0)
      BY DEF IsTurns
    <2> QED
      BY <1>1, <2>1
  <1>3. n \in Nat \ {0} /\ n - 1 \in Nat /\ n - 1 \notin T
    <2> HIDE DEF P
    <2> QED
      BY <1>1, <1>2
  <1>4. PICK t : IsTurns(t, below, sub, so, s, n - 1)
    BY <1>3
  <1> DEFINE u == [i \in 0 .. n |-> IF i = n THEN Turn(below, sub, t[n - 1], s[n]) ELSE t[i]]
  <1>5. ASSUME NEW i \in 0 .. n
        PROVE  u[i] = IF i = 0 THEN Start(so) ELSE Turn(below, sub, u[i - 1], s[i])
    <2>1. CASE i = n
      <3>1. i # 0 /\ u[i] = Turn(below, sub, t[n - 1], s[n])
        BY <1>3, <2>1
      <3>2. u[n - 1] = t[n - 1]
        BY <1>3
      <3> QED
        BY <2>1, <3>1, <3>2
    <2>2. CASE i # n
      <3>1. i \in 0 .. n - 1 /\ u[i] = t[i]
        BY <1>3, <2>2
      <3>2. t[i] = IF i = 0 THEN Start(so) ELSE Turn(below, sub, t[i - 1], s[i])
        BY <1>4, <3>1 DEF IsTurns
      <3>3. i # 0 => u[i - 1] = t[i - 1]
        BY <1>3, <2>2
      <3> QED
        BY <3>1, <3>2, <3>3
    <2> QED
      BY <2>1, <2>2
  <1>6. IsTurns(u, below, sub, so, s, n)
    <2>1. u = [i \in 0 .. n |-> u[i]]
      OBVIOUS
    <2> HIDE DEF u
    <2> QED
      BY <1>5, <2>1 DEF IsTurns
  <1> QED
    BY <1>1, <1>6

\* Turn by turn t is the loop of the scan of p over the entries s.
Unrolled(t, below, sub, p, so, s) ==
    /\ t[0] = Start(so)
    /\ \A i \in 1 .. Len(s) : t[i] = Turn(below, sub, t[i - 1], s[i])
    /\ Level(below, sub, p, so) = End(t[Len(s)], Len(s))

LEMMA LevelIs ==
    ASSUME IsFiniteSet(DOMAIN tree), NEW below, NEW sub, NEW p, NEW so,
           NEW s, s = SetToSeq(Children(p))
    PROVE  \E t : Unrolled(t, below, sub, p, so, s)
  <1>1. Len(s) \in Nat
    BY EntriesAre
  <1> DEFINE Def(t) == [i \in 0 .. Len(s) |->
                           IF i = 0 THEN [so EXCEPT !.ret = TRUE]
                           ELSE Turn(below, sub, t[i - 1], s[i])]
             t == CHOOSE f : f = Def(f)
  <1>2. \E f : f = Def(f)
    <2>1. PICK f : IsTurns(f, below, sub, so, s, Len(s))
      BY <1>1, TurnsExist
    <2>2. f = Def(f)
      BY <2>1 DEF IsTurns, Start
    <2> QED
      BY <2>2
  <1>3. t = Def(t)
    <2> HIDE DEF Def
    <2> QED
      BY <1>2
  <1>4. Level(below, sub, p, so) = End(t[Len(s)], Len(s))
    BY DEF Level, End
  <1> HIDE DEF t
  <1>5. t[0] = Start(so)
    BY <1>1, <1>3 DEF Start
  <1>6. ASSUME NEW i \in 1 .. Len(s) PROVE t[i] = Turn(below, sub, t[i - 1], s[i])
    <2>1. i \in 0 .. Len(s) /\ i # 0
      BY <1>1
    <2>2. t[i] = Def(t)[i]
      BY <1>3
    <2> QED
      BY <2>1, <2>2
  <1> QED
    BY <1>4, <1>5, <1>6 DEF Unrolled

\* The scan of p asks for the scans of its entries only.
LEMMA LevelSame ==
    ASSUME IsFiniteSet(DOMAIN tree), NEW f, NEW g, NEW sub, NEW p, NEW so,
           \A q \in Children(p) : f[q] = g[q]
    PROVE  Level(f, sub, p, so) = Level(g, sub, p, so)
  <1>0. PICK s : s = SetToSeq(Children(p))
    OBVIOUS
  <1>1. Len(s) \in Nat /\ \A i \in 1 .. Len(s) : s[i] \in Children(p)
    BY <1>0, EntriesAre
  <1>2. PICK t : /\ t[0] = Start(so)
                 /\ \A i \in 1 .. Len(s) : t[i] = Turn(f, sub, t[i - 1], s[i])
                 /\ Level(f, sub, p, so) = End(t[Len(s)], Len(s))
    <2>1. \E t : Unrolled(t, f, sub, p, so, s)
      BY <1>0, LevelIs
    <2> QED
      BY <2>1 DEF Unrolled
  <1>3. PICK u : /\ u[0] = Start(so)
                 /\ \A i \in 1 .. Len(s) : u[i] = Turn(g, sub, u[i - 1], s[i])
                 /\ Level(g, sub, p, so) = End(u[Len(s)], Len(s))
    <2>1. \E u : Unrolled(u, g, sub, p, so, s)
      BY <1>0, LevelIs
    <2> QED
      BY <2>1 DEF Unrolled
  <1> DEFINE T == {i \in 0 .. Len(s) : t[i] # u[i]}
  <1>4. T = {}
    <2> SUFFICES ASSUME T # {} PROVE FALSE
      OBVIOUS
    <2>1. PICK i \in T : \A j \in T : i <= j
      <3>1. T \subseteq Nat
        BY <1>1
      <3> HIDE DEF T
      <3> QED
        BY <3>1, HasLeast
    <2>2. i # 0 /\ i \in 1 .. Len(s)
      BY <1>1, <1>2, <1>3, <2>1
    <2>3. t[i - 1] = u[i - 1]
      BY <1>1, <2>1, <2>2
    <2>4. \A scan : Turn(f, sub, scan, s[i]) = Turn(g, sub, scan, s[i])
      BY <1>1, <2>2 DEF Turn
    <2> QED
      BY <1>2, <1>3, <2>1, <2>2, <2>3, <2>4
  <1>5. t[Len(s)] = u[Len(s)]
    BY <1>1, <1>4
  <1> QED
    BY <1>2, <1>3, <1>5

(***************************************************************************)
(* The recursion ends: the scans of the directories whose paths are longer *)
(* than some length are defined by those of longer ones.                   *)
(***************************************************************************)
Body(f, p) == [so \in Scans |-> Level(f, TRUE, p, so)]

LEMMA BodySame ==
    ASSUME IsFiniteSet(DOMAIN tree), NEW f, NEW g, NEW p,
           \A q \in Children(p) : f[q] = g[q]
    PROVE  Body(f, p) = Body(g, p)
  <1>1. PICK sub : sub = TRUE
    OBVIOUS
  <1>2. \A so : Level(f, sub, p, so) = Level(g, sub, p, so)
    BY LevelSame
  <1> QED
    BY <1>1, <1>2 DEF Body

Deeper(h) == {p \in Nodes : Len(p) + h > Cardinality(DOMAIN tree)}

LEMMA BelowExists ==
    ASSUME TypeOK, IsFiniteSet(DOMAIN tree)
    PROVE  \E f : f = [p \in Nodes |-> Body(f, p)]
  <1>0. Cardinality(DOMAIN tree) \in Nat
    BY FS_CardinalityType
  <1> DEFINE P(h) == \E f : f = [p \in Deeper(h) |-> Body(f, p)]
             T == {h \in Nat : ~P(h)}
  <1>1. T = {}
    <2> SUFFICES ASSUME T # {} PROVE FALSE
      OBVIOUS
    <2>1. PICK h \in T : \A m \in T : h <= m
      <3> HIDE DEF P
      <3> QED
        BY HasLeast
    <2>2. h # 0
      <3>1. Deeper(0) = {}
        BY <1>0, PathsBounded, NodeIs DEF Deeper
      <3>2. [p \in {} |-> 0] = [p \in {} |-> Body([q \in {} |-> 0], p)]
        OBVIOUS
      <3>3. P(0)
        BY <3>1, <3>2
      <3> HIDE DEF P
      <3> QED
        BY <2>1, <3>3
    <2>3. h - 1 \in Nat /\ h - 1 \notin T
      <3> HIDE DEF P
      <3> QED
        BY <2>1, <2>2
    <2>4. PICK f : f = [p \in Deeper(h - 1) |-> Body(f, p)]
      BY <2>3
    <2> DEFINE g == [p \in Deeper(h) |-> Body(f, p)]
    <2>5. ASSUME NEW p \in Deeper(h), NEW q \in Children(p)
          PROVE  q \in Deeper(h - 1) /\ q \in Deeper(h)
      <3>1. p \in Nodes /\ Len(p) \in Nat /\ Len(p) + h > Cardinality(DOMAIN tree) /\ h \in Nat
        BY <2>1, NodeIs DEF Deeper
      <3>2. q \in Nodes /\ Len(q) = Len(p) + 1
        BY <3>1, ChildIs
      <3> QED
        BY <1>0, <3>1, <3>2 DEF Deeper
    <2>6. ASSUME NEW p \in Deeper(h) PROVE g[p] = Body(g, p)
      <3>1. \A q \in Children(p) : f[q] = Body(f, q) /\ g[q] = Body(f, q)
        <4> SUFFICES ASSUME NEW q \in Children(p) PROVE f[q] = Body(f, q) /\ g[q] = Body(f, q)
          OBVIOUS
        <4>1. q \in Deeper(h - 1) /\ q \in Deeper(h)
          BY <2>5
        <4>2. f[q] = Body(f, q)
          BY <2>4, <4>1
        <4> QED
          BY <4>1, <4>2
      <3>2. g[p] = Body(f, p)
        OBVIOUS
      <3> HIDE DEF g
      <3> QED
        BY <3>1, <3>2, BodySame
    <2>7. P(h)
      <3>1. g = [p \in Deeper(h) |-> g[p]]
        OBVIOUS
      <3> HIDE DEF g
      <3> QED
        BY <2>6, <3>1
    <2> HIDE DEF P
    <2> QED
      BY <2>1, <2>7
  <1>2. Deeper(Cardinality(DOMAIN tree) + 1) = Nodes
    <2>1. \A p \in Nodes : Len(p) \in Nat
      BY NodeIs
    <2> QED
      BY <1>0, <2>1 DEF Deeper
  <1>3. P(Cardinality(DOMAIN tree) + 1)
    <2> HIDE DEF P
    <2> QED
      BY <1>0, <1>1
  <1> QED
    BY <1>2, <1>3

LEMMA BelowIs ==
    ASSUME TypeOK, IsFiniteSet(DOMAIN tree), NEW p \in Nodes, NEW so \in Scans
    PROVE  Below[p][so] = TreeStatus(p, TRUE, so)
  <1> DEFINE Def(f) == [q \in Nodes |-> Body(f, q)]
  <1>1. Below = CHOOSE f : f = Def(f)
    BY DEF Below, Body
  <1>2. \E f : f = Def(f)
    BY BelowExists
  <1>3. Below = Def(Below)
    <2> HIDE DEF Def
    <2> QED
      BY <1>1, <1>2
  <1>4. Below[p] = Body(Below, p)
    BY <1>3
  <1> QED
    BY <1>4 DEF Body, TreeStatus

(***************************************************************************)
(* What a scan that begins as so has made of it when N is what it may have *)
(* come by and D are the directories there: whatever it has not seen, it   *)
(* has not for want of steps.                                              *)
(***************************************************************************)
Wide(q) == Cardinality(Children(q))
Dirs(sub, N) == {q \in N : sub /\ Data(q) = NoData}

Within(N, D, so, scan) ==
    /\ scan \in Scans
    /\ so.seen \subseteq scan.seen /\ scan.seen \subseteq so.seen \cup N
    /\ Cardinality(scan.seen \ so.seen) + scan.steps = so.steps
    /\ scan.steps > 0 => scan.ret /\ N \subseteq scan.seen
    /\ scan.widest >= so.widest
    /\ scan.widest \in {so.widest} \cup {Wide(q) : q \in D}
    /\ N \subseteq scan.seen => \A q \in D : scan.widest >= Wide(q)

Owes(sub, p, so, scan) ==
    /\ Within(Reach(sub, p), {p} \cup Dirs(sub, Reach(sub, p)), so, scan)
    /\ scan.ret <=> Children(p) \subseteq scan.seen
    /\ scan.ret => /\ scan.widest >= Wide(p)
                   /\ \/ Reach(sub, p) \subseteq scan.seen
                      \/ \E q \in Children(p) :
                            Reach(sub, p) \ scan.seen \subseteq Branch(sub, q)

LEMMA ScanFields ==
    ASSUME NEW scan \in Scans
    PROVE  /\ scan.seen \subseteq DOMAIN tree /\ scan.widest \in Nat
           /\ scan.steps \in Nat /\ scan.ret \in BOOLEAN
  BY DEF Scans

LEMMA WideTyped ==
    ASSUME IsFiniteSet(DOMAIN tree)
    PROVE  \A q : Wide(q) \in Nat
  <1>1. ASSUME NEW q PROVE Wide(q) \in Nat
    <2>1. IsFiniteSet(Children(q))
      BY FS_Subset DEF Children
    <2> QED
      BY <2>1, FS_CardinalityType DEF Wide
  <1> QED
    BY <1>1

LEMMA CountApart ==
    ASSUME IsFiniteSet(DOMAIN tree), NEW A, NEW B, A \subseteq DOMAIN tree,
           B \subseteq DOMAIN tree, A \cap B = {}
    PROVE  /\ Cardinality(A) \in Nat /\ Cardinality(B) \in Nat
           /\ Cardinality(A \cup B) = Cardinality(A) + Cardinality(B)
  <1>1. IsFiniteSet(A) /\ IsFiniteSet(B)
    BY FS_Subset
  <1>2. /\ Cardinality(A) \in Nat /\ Cardinality(B) \in Nat
        /\ Cardinality(A \cup B) = Cardinality(A) + Cardinality(B) - Cardinality({})
    BY <1>1, FS_Union, FS_CardinalityType
  <1> QED
    BY <1>2, FS_EmptySet

\* The entry itself is counted.
LEMMA CountedIs ==
    ASSUME IsFiniteSet(DOMAIN tree), NEW so \in Scans, NEW N, NEW D, NEW scan,
           Within(N, D, so, scan), scan.steps # 0, NEW q \in DOMAIN tree, q \notin so.seen, q \notin N
    PROVE  LET new == Counted(scan, q)
           IN  /\ new \in Scans /\ N \subseteq scan.seen /\ scan.ret /\ q \notin scan.seen
               /\ new.seen = scan.seen \cup {q} /\ new.steps = scan.steps - 1
               /\ new.widest = scan.widest /\ new.ret
               /\ Cardinality(new.seen \ so.seen) + new.steps = so.steps
  <1>0. PICK new : new = Counted(scan, q)
    OBVIOUS
  <1>1. /\ scan \in Scans /\ scan.seen \subseteq DOMAIN tree /\ scan.widest \in Nat
        /\ scan.steps \in Nat \ {0} /\ scan.ret /\ N \subseteq scan.seen
        /\ so.seen \subseteq scan.seen /\ scan.seen \subseteq so.seen \cup N
        /\ Cardinality(scan.seen \ so.seen) + scan.steps = so.steps
    <2>1. scan \in Scans /\ scan.steps \in Nat
      BY ScanFields DEF Within
    <2>2. scan.steps > 0
      BY <2>1
    <2> QED
      BY <2>1, <2>2, ScanFields DEF Within
  <1>2. /\ new.seen = scan.seen \cup {q} /\ new.steps = scan.steps - 1
        /\ new.widest = scan.widest /\ new.ret
    BY <1>0, <1>1 DEF Scans, Counted
  <1>3. new \in Scans
    <2>1. new = [seen |-> scan.seen \cup {q}, widest |-> scan.widest,
                 steps |-> scan.steps - 1, ret |-> scan.ret]
      BY <1>0, <1>1 DEF Scans, Counted
    <2>2. scan.seen \cup {q} \in SUBSET DOMAIN tree /\ scan.steps - 1 \in Nat
      BY <1>1
    <2> QED
      BY <1>1, <2>1, <2>2 DEF Scans
  <1>4. Cardinality(new.seen \ so.seen) = Cardinality(scan.seen \ so.seen) + 1
    <2>1. new.seen \ so.seen = (scan.seen \ so.seen) \cup {q} /\ q \notin scan.seen \ so.seen
      BY <1>1, <1>2
    <2>2. IsFiniteSet(scan.seen \ so.seen)
      BY <1>1, FS_Subset
    <2> QED
      BY <2>1, <2>2, FS_AddElement
  <1>5. Cardinality(scan.seen \ so.seen) \in Nat
    <2>1. IsFiniteSet(scan.seen \ so.seen)
      BY <1>1, FS_Subset
    <2> QED
      BY <2>1, FS_CardinalityType
  <1>6. so.steps \in Nat
    BY ScanFields
  <1>7. Cardinality(new.seen \ so.seen) + new.steps = so.steps
    BY <1>1, <1>2, <1>4, <1>5, <1>6
  <1> QED
    BY <1>0, <1>1, <1>2, <1>3, <1>7

Stopped(scan) == [scan EXCEPT !.ret = FALSE]

\* The time is over: the entry is not counted.
LEMMA TurnedAway ==
    ASSUME NEW so, NEW N, NEW D, NEW scan, Within(N, D, so, scan),
           scan.steps = 0, NEW B, NEW E, NEW q \in B, q \notin so.seen, q \notin N,
           D \subseteq E
    PROVE  LET new == Stopped(scan)
           IN  /\ Within(N \cup B, E, so, new)
               /\ ~new.ret /\ new.seen = scan.seen /\ q \notin new.seen
  <1>0. PICK new : new = Stopped(scan)
    OBVIOUS
  <1>1. /\ scan \in Scans /\ scan.steps \in Nat /\ scan.steps = 0
        /\ so.seen \subseteq scan.seen /\ scan.seen \subseteq so.seen \cup N
        /\ Cardinality(scan.seen \ so.seen) + scan.steps = so.steps
        /\ scan.widest >= so.widest
        /\ scan.widest \in {so.widest} \cup {Wide(c) : c \in D}
    BY ScanFields DEF Within
  <1>2. /\ new.seen = scan.seen /\ new.steps = scan.steps
        /\ new.widest = scan.widest /\ ~new.ret
    BY <1>0, <1>1 DEF Scans, Stopped
  <1>3. new \in Scans
    <2>1. new = [seen |-> scan.seen, widest |-> scan.widest, steps |-> scan.steps, ret |-> FALSE]
      BY <1>0, <1>1 DEF Scans, Stopped
    <2> QED
      BY <1>1, <2>1, ScanFields DEF Scans
  <1>4. q \notin scan.seen
    BY <1>1
  <1>5. new.widest \in {so.widest} \cup {Wide(c) : c \in E}
    BY <1>1, <1>2
  <1>6. new.seen \subseteq so.seen \cup (N \cup B) /\ ~(N \cup B \subseteq new.seen)
    BY <1>1, <1>2, <1>4
  <1> QED
    BY <1>0, <1>1, <1>2, <1>3, <1>4, <1>5, <1>6 DEF Within

\* A metric, or a directory in a scan that stays on its level.
LEMMA TurnedOver ==
    ASSUME IsFiniteSet(DOMAIN tree), NEW so \in Scans, NEW N, NEW D, NEW scan,
           Within(N, D, so, scan), scan.steps # 0, NEW q \in DOMAIN tree,
           q \notin so.seen, q \notin N
    PROVE  LET new == Counted(scan, q)
           IN  /\ Within(N \cup {q}, D, so, new)
               /\ new.ret /\ scan.ret /\ N \subseteq new.seen
               /\ new.seen = scan.seen \cup {q}
  <1>0. PICK new : new = Counted(scan, q)
    OBVIOUS
  <1>1. /\ new \in Scans /\ N \subseteq scan.seen /\ scan.ret
        /\ new.seen = scan.seen \cup {q} /\ new.widest = scan.widest /\ new.ret
        /\ Cardinality(new.seen \ so.seen) + new.steps = so.steps
    <2>1. q \notin so.seen /\ q \notin N /\ scan.steps # 0 /\ Within(N, D, so, scan)
      OBVIOUS
    <2>2. LET counted == Counted(scan, q)
          IN  /\ counted \in Scans /\ N \subseteq scan.seen /\ scan.ret /\ q \notin scan.seen
              /\ counted.seen = scan.seen \cup {q} /\ counted.steps = scan.steps - 1
              /\ counted.widest = scan.widest /\ counted.ret
              /\ Cardinality(counted.seen \ so.seen) + counted.steps = so.steps
      BY <2>1, CountedIs
    <2> QED
      BY <1>0, <2>2
  <1>2. /\ so.seen \subseteq scan.seen /\ scan.seen \subseteq so.seen \cup N
        /\ scan.widest >= so.widest
        /\ scan.widest \in {so.widest} \cup {Wide(c) : c \in D}
        /\ N \subseteq scan.seen => \A c \in D : scan.widest >= Wide(c)
    BY DEF Within
  <1>3. /\ so.seen \subseteq new.seen /\ new.seen \subseteq so.seen \cup (N \cup {q})
        /\ N \cup {q} \subseteq new.seen
    BY <1>1, <1>2
  <1> QED
    BY <1>0, <1>1, <1>2, <1>3 DEF Within

\* A directory, with all below it.
LEMMA TurnedBelow ==
    ASSUME IsFiniteSet(DOMAIN tree), NEW so \in Scans, NEW N, NEW D, NEW scan,
           Within(N, D, so, scan), scan.steps # 0, NEW q \in DOMAIN tree,
           q \notin so.seen, q \notin N,
           NEW r, Owes(TRUE, q, Counted(scan, q), r)
    PROVE  LET new == Start(r)
           IN  /\ Within(N \cup ({q} \cup Scanned(q)),
                         D \cup ({q} \cup Dirs(TRUE, Scanned(q))), so, new)
               /\ new.ret /\ scan.ret /\ N \subseteq new.seen /\ q \in new.seen
               /\ scan.seen \subseteq new.seen
               /\ new.seen \subseteq scan.seen \cup ({q} \cup Scanned(q))
  <1>0. PICK one, new : one = Counted(scan, q) /\ new = Start(r)
    OBVIOUS
  <1> DEFINE B == Scanned(q)
             E == {q} \cup Dirs(TRUE, B)
  <1>1. /\ one \in Scans /\ N \subseteq scan.seen /\ scan.ret /\ q \notin scan.seen
        /\ one.seen = scan.seen \cup {q} /\ one.steps = scan.steps - 1
        /\ one.widest = scan.widest /\ one.ret
        /\ Cardinality(one.seen \ so.seen) + one.steps = so.steps
    <2>1. q \notin so.seen /\ q \notin N /\ scan.steps # 0 /\ Within(N, D, so, scan)
      OBVIOUS
    <2>2. LET counted == Counted(scan, q)
          IN  /\ counted \in Scans /\ N \subseteq scan.seen /\ scan.ret /\ q \notin scan.seen
              /\ counted.seen = scan.seen \cup {q} /\ counted.steps = scan.steps - 1
              /\ counted.widest = scan.widest /\ counted.ret
              /\ Cardinality(counted.seen \ so.seen) + counted.steps = so.steps
      BY <2>1, CountedIs
    <2> QED
      BY <1>0, <2>2
  <1>2. /\ scan \in Scans /\ so.seen \subseteq scan.seen /\ scan.seen \subseteq so.seen \cup N
        /\ scan.widest >= so.widest
        /\ scan.widest \in {so.widest} \cup {Wide(c) : c \in D}
        /\ \A c \in D : scan.widest >= Wide(c)
    BY <1>1 DEF Within
  <1>3. Within(B, E, one, r)
    <2>1. Reach(TRUE, q) = B
      BY DEF Reach
    <2> QED
      BY <1>0, <2>1 DEF Owes
  <1> HIDE DEF B, E
  <1>4. /\ r \in Scans /\ one.seen \subseteq r.seen /\ r.seen \subseteq one.seen \cup B
        /\ Cardinality(r.seen \ one.seen) + r.steps = one.steps
        /\ r.steps > 0 => B \subseteq r.seen
        /\ r.widest >= one.widest
        /\ r.widest \in {one.widest} \cup {Wide(c) : c \in E}
        /\ B \subseteq r.seen => \A c \in E : r.widest >= Wide(c)
    BY <1>3 DEF Within
  <1>5. /\ new.seen = r.seen /\ new.steps = r.steps
        /\ new.widest = r.widest /\ new.ret
    BY <1>0, <1>4 DEF Scans, Start
  <1>6. new \in Scans
    <2>1. new = [seen |-> r.seen, widest |-> r.widest, steps |-> r.steps, ret |-> TRUE]
      BY <1>0, <1>4 DEF Scans, Start
    <2> QED
      BY <1>4, <2>1, ScanFields DEF Scans
  <1>7. /\ scan.seen \subseteq new.seen /\ q \in new.seen /\ N \subseteq new.seen
        /\ new.seen \subseteq scan.seen \cup ({q} \cup B)
        /\ so.seen \subseteq new.seen /\ new.seen \subseteq so.seen \cup (N \cup ({q} \cup B))
    BY <1>1, <1>2, <1>4, <1>5
  <1>8. Cardinality(new.seen \ so.seen) + new.steps = so.steps
    <2>1. new.seen \ so.seen = (one.seen \ so.seen) \cup (r.seen \ one.seen)
      BY <1>1, <1>2, <1>4, <1>5
    <2>2. /\ one.seen \ so.seen \subseteq DOMAIN tree /\ r.seen \ one.seen \subseteq DOMAIN tree
          /\ (one.seen \ so.seen) \cap (r.seen \ one.seen) = {}
      BY <1>1, <1>4, ScanFields
    <2>3. /\ Cardinality(one.seen \ so.seen) \in Nat /\ Cardinality(r.seen \ one.seen) \in Nat
          /\ Cardinality(new.seen \ so.seen)
                = Cardinality(one.seen \ so.seen) + Cardinality(r.seen \ one.seen)
      BY <2>1, <2>2, CountApart
    <2>4. one.steps \in Nat /\ r.steps \in Nat /\ so.steps \in Nat
      BY <1>1, <1>4, ScanFields
    <2> QED
      BY <1>1, <1>4, <1>5, <2>3, <2>4
  <1>9. new.steps > 0 => new.ret /\ N \cup ({q} \cup B) \subseteq new.seen
    BY <1>4, <1>5, <1>7
  <1>10. /\ new.widest >= so.widest
         /\ new.widest \in {so.widest} \cup {Wide(c) : c \in D \cup E}
         /\ N \cup ({q} \cup B) \subseteq new.seen =>
               \A c \in D \cup E : new.widest >= Wide(c)
    <2>1. so.widest \in Nat /\ scan.widest \in Nat /\ r.widest \in Nat /\ \A c : Wide(c) \in Nat
      BY <1>2, <1>4, ScanFields, WideTyped
    <2>2. r.widest >= scan.widest /\ r.widest >= so.widest
      BY <1>1, <1>2, <1>4, <2>1
    <2>3. r.widest \in {so.widest} \cup {Wide(c) : c \in D \cup E}
      BY <1>1, <1>2, <1>4
    <2>4. ASSUME N \cup ({q} \cup B) \subseteq new.seen, NEW c \in D \cup E
          PROVE  r.widest >= Wide(c)
      <3>1. CASE c \in D
        BY <1>2, <2>1, <2>2, <3>1
      <3>2. CASE c \in E
        BY <1>4, <1>5, <2>4, <3>2
      <3> QED
        BY <2>4, <3>1, <3>2
    <2> QED
      BY <1>5, <2>2, <2>3, <2>4
  <1>11. Within(N \cup ({q} \cup B), D \cup E, so, new)
    BY <1>6, <1>7, <1>8, <1>9, <1>10 DEF Within
  <1> QED
    BY <1>0, <1>1, <1>5, <1>7, <1>11 DEF B, E

\* What is known of the scans of the entries.
BelowOwes(sub, q) ==
    sub /\ Data(q) = NoData =>
        \A so \in Scans : so.seen \cap Scanned(q) = {} => Owes(TRUE, q, so, Below[q][so])

LEMMA TurnIs ==
    ASSUME IsFiniteSet(DOMAIN tree), NEW sub \in BOOLEAN, NEW so \in Scans, NEW N, NEW scan,
           Within(N, Dirs(sub, N), so, scan), NEW q \in DOMAIN tree,
           Branch(sub, q) \cap (so.seen \cup N) = {}, BelowOwes(sub, q),
           NEW new, new = Turn(Below, sub, scan, q)
    PROVE  /\ Within(N \cup Branch(sub, q), Dirs(sub, N \cup Branch(sub, q)), so, new)
           /\ new.ret <=> scan.ret /\ q \in new.seen
           /\ new.ret => N \subseteq new.seen
           /\ scan.seen \subseteq new.seen /\ new.seen \subseteq scan.seen \cup Branch(sub, q)
  <1>0. PICK B, D, E : B = Branch(sub, q) /\ D = Dirs(sub, N) /\ E = Dirs(sub, N \cup B)
    OBVIOUS
  <1>1. /\ Within(N, D, so, scan) /\ q \in B /\ q \notin so.seen /\ q \notin N
        /\ B \cap (so.seen \cup N) = {} /\ D \subseteq E
    <2>1. q \in Branch(sub, q) /\ Dirs(sub, N) \subseteq Dirs(sub, N \cup B)
      BY DEF Branch, Dirs
    <2> QED
      BY <1>0, <2>1
  <1>2. SUFFICES /\ Within(N \cup B, E, so, new)
                 /\ new.ret <=> scan.ret /\ q \in new.seen
                 /\ new.ret => N \subseteq new.seen
                 /\ scan.seen \subseteq new.seen /\ new.seen \subseteq scan.seen \cup B
    BY <1>0
  <1>3. CASE ~scan.ret \/ scan.steps = 0
    <2>0. scan.steps = 0
      BY <1>3, ScanFields DEF Within
    <2>1. new = Stopped(scan)
      BY <1>3 DEF Turn, Stopped
    <2>2. /\ Within(N \cup B, E, so, new)
          /\ ~new.ret /\ new.seen = scan.seen /\ q \notin new.seen
      BY <1>1, <2>0, <2>1, TurnedAway
    <2> QED
      BY <2>2
  <1>4. CASE scan.ret /\ scan.steps # 0 /\ ~(sub /\ Data(q) = NoData)
    <2>0. scan.steps # 0
      BY <1>4
    <2>1. new = Counted(scan, q)
      BY <1>4 DEF Turn
    <2>2. B = {q} /\ E = D
      BY <1>0, <1>4 DEF Branch, Dirs
    <2>3. /\ Within(N \cup {q}, D, so, new)
          /\ new.ret /\ scan.ret /\ N \subseteq new.seen
          /\ new.seen = scan.seen \cup {q}
      BY <1>1, <2>0, <2>1, TurnedOver
    <2> QED
      BY <2>2, <2>3
  <1>5. CASE scan.ret /\ scan.steps # 0 /\ sub /\ Data(q) = NoData
    <2>0. scan.steps # 0
      BY <1>5
    <2>1. B = {q} \cup Scanned(q) /\ E = D \cup ({q} \cup Dirs(TRUE, Scanned(q)))
      BY <1>0, <1>5 DEF Branch, Dirs
    <2>2. PICK one : one = Counted(scan, q)
      OBVIOUS
    <2>3. new = Start(Below[q][one])
      BY <1>5, <2>2 DEF Turn, Start
    <2>4. LET counted == Counted(scan, q)
          IN  /\ counted \in Scans /\ N \subseteq scan.seen /\ scan.ret /\ q \notin scan.seen
              /\ counted.seen = scan.seen \cup {q} /\ counted.steps = scan.steps - 1
              /\ counted.widest = scan.widest /\ counted.ret
              /\ Cardinality(counted.seen \ so.seen) + counted.steps = so.steps
      BY <1>1, <2>0, CountedIs
    <2>5. one \in Scans /\ one.seen \cap Scanned(q) = {}
      <3>1. scan.seen \subseteq so.seen \cup N
        BY DEF Within
      <3>2. q \notin Scanned(q)
        BY DEF Scanned
      <3> QED
        BY <1>1, <2>1, <2>2, <2>4, <3>1, <3>2
    <2>6. PICK r : r = Below[q][one] /\ Owes(TRUE, q, one, r)
      BY <1>5, <2>5 DEF BelowOwes
    <2>8. /\ Within(N \cup ({q} \cup Scanned(q)),
                    D \cup ({q} \cup Dirs(TRUE, Scanned(q))), so, new)
          /\ new.ret /\ scan.ret /\ N \subseteq new.seen /\ q \in new.seen
          /\ scan.seen \subseteq new.seen
          /\ new.seen \subseteq scan.seen \cup ({q} \cup Scanned(q))
      <3>1. Owes(TRUE, q, Counted(scan, q), r) /\ new = Start(r)
        BY <2>2, <2>3, <2>6
      <3>2. q \notin so.seen /\ q \notin N /\ Within(N, D, so, scan)
        BY <1>1
      <3>3. LET turned == Start(r)
            IN  /\ Within(N \cup ({q} \cup Scanned(q)),
                          D \cup ({q} \cup Dirs(TRUE, Scanned(q))), so, turned)
                /\ turned.ret /\ scan.ret /\ N \subseteq turned.seen /\ q \in turned.seen
                /\ scan.seen \subseteq turned.seen
                /\ turned.seen \subseteq scan.seen \cup ({q} \cup Scanned(q))
        BY <2>0, <3>1, <3>2, TurnedBelow
      <3> QED
        BY <3>1, <3>3
    <2> QED
      BY <2>1, <2>8
  <1> QED
    BY <1>3, <1>4, <1>5

(***************************************************************************)
(* The loop: when the i-th entry has been looked at, all that was come by  *)
(* is on the branches of the first i, and only the last of these may be    *)
(* incomplete.                                                             *)
(***************************************************************************)
Past(sub, s, i) == UNION {Branch(sub, s[j]) : j \in 1 .. i}

LoopOK(sub, s, i, so, scan) ==
    /\ Within(Past(sub, s, i), Dirs(sub, Past(sub, s, i)), so, scan)
    /\ scan.ret <=> \A j \in 1 .. i : s[j] \in scan.seen
    /\ scan.ret => \A j \in 1 .. i - 1 : Branch(sub, s[j]) \subseteq scan.seen

LEMMA LoopStart ==
    ASSUME NEW sub, NEW s, NEW so \in Scans
    PROVE  LoopOK(sub, s, 0, so, Start(so))
  <1>1. Past(sub, s, 0) = {} /\ Dirs(sub, {}) = {}
    BY DEF Past, Dirs
  <1>2. PICK first : first = Start(so)
    OBVIOUS
  <1>3. first = [seen |-> so.seen, widest |-> so.widest, steps |-> so.steps, ret |-> TRUE]
    BY <1>2 DEF Start, Scans
  <1>4. /\ first \in Scans /\ first.seen = so.seen /\ first.widest = so.widest
        /\ first.steps = so.steps /\ first.ret
    BY <1>3, ScanFields DEF Scans
  <1>5. Cardinality(so.seen \ so.seen) = 0
    BY FS_EmptySet
  <1>6. Within({}, {}, so, first)
    BY <1>4, <1>5, ScanFields DEF Within
  <1> QED
    BY <1>1, <1>2, <1>4, <1>6 DEF LoopOK

LEMMA LoopStep ==
    ASSUME TypeOK, IsFiniteSet(DOMAIN tree), NEW sub \in BOOLEAN, NEW p \in Nodes,
           NEW so \in Scans, so.seen \cap Reach(sub, p) = {},
           \A q \in Children(p) : BelowOwes(sub, q),
           NEW s, s = SetToSeq(Children(p)), NEW i \in 1 .. Len(s),
           NEW scan, LoopOK(sub, s, i - 1, so, scan),
           NEW new, new = Turn(Below, sub, scan, s[i])
    PROVE  LoopOK(sub, s, i, so, new)
  <1>0. PICK q, N, B : q = s[i] /\ N = Past(sub, s, i - 1) /\ B = Branch(sub, q)
    OBVIOUS
  <1>1. /\ Len(s) \in Nat /\ i \in Nat \ {0} /\ q \in Children(p) /\ q \in DOMAIN tree
        /\ \A j \in 1 .. i : s[j] \in Children(p)
        /\ \A j \in 1 .. i - 1 : s[j] # q
    <2>1. /\ Len(s) \in Nat /\ \A j \in 1 .. Len(s) : s[j] \in Children(p)
          /\ \A j, k \in 1 .. Len(s) : s[j] = s[k] => j = k
      BY EntriesAre
    <2>2. i \in Nat \ {0} /\ 1 .. i \subseteq 1 .. Len(s) /\ 1 .. i - 1 \subseteq 1 .. Len(s)
          /\ i \notin 1 .. i - 1
      BY <2>1
    <2> QED
      BY <1>0, <2>1, <2>2 DEF Children
  <1>2. /\ Past(sub, s, i) = N \cup B
        /\ \A j \in 1 .. i - 1 : Branch(sub, s[j]) \subseteq N
    <2>1. 1 .. i = 1 .. i - 1 \cup {i}
      BY <1>1
    <2> QED
      BY <1>0, <2>1 DEF Past
  <1>3. ASSUME NEW r \in B PROVE r \notin so.seen /\ r \notin N
    <2>1. r \notin so.seen
      BY <1>0, <1>1, <1>3, ReachIs
    <2>2. ASSUME r \in N PROVE FALSE
      <3>1. PICK j \in 1 .. i - 1 : r \in Branch(sub, s[j])
        BY <1>0, <2>2 DEF Past
      <3>2. s[j] \in Children(p) /\ s[j] # q
        BY <1>1
      <3>3. PICK c : c = s[j]
        OBVIOUS
      <3>4. c = q
        BY <1>0, <1>1, <1>3, <3>1, <3>2, <3>3, BranchesApart
      <3> QED
        BY <3>2, <3>3, <3>4
    <2> QED
      BY <2>1, <2>2
  <1>4. B \cap (so.seen \cup N) = {}
    BY <1>3
  <1>5. /\ Within(N, Dirs(sub, N), so, scan)
        /\ scan.ret <=> \A j \in 1 .. i - 1 : s[j] \in scan.seen
    BY <1>0 DEF LoopOK
  <1>6. /\ Within(N \cup B, Dirs(sub, N \cup B), so, new)
        /\ new.ret <=> scan.ret /\ q \in new.seen
        /\ new.ret => N \subseteq new.seen
        /\ scan.seen \subseteq new.seen /\ new.seen \subseteq scan.seen \cup B
    <2>1. BelowOwes(sub, q) /\ new = Turn(Below, sub, scan, q)
      BY <1>0, <1>1
    <2>2. /\ Within(N \cup Branch(sub, q), Dirs(sub, N \cup Branch(sub, q)), so, new)
          /\ new.ret <=> scan.ret /\ q \in new.seen
          /\ new.ret => N \subseteq new.seen
          /\ scan.seen \subseteq new.seen /\ new.seen \subseteq scan.seen \cup Branch(sub, q)
      <3>1. Branch(sub, q) \cap (so.seen \cup N) = {}
        BY <1>0, <1>4
      <3> QED
        BY <1>1, <1>5, <2>1, <3>1, TurnIs
    <2> QED
      BY <1>0, <2>2
  <1>7. new.ret <=> \A j \in 1 .. i : s[j] \in new.seen
    <2>1. \A j \in 1 .. i - 1 : s[j] \in new.seen <=> s[j] \in scan.seen
      <3> SUFFICES ASSUME NEW j \in 1 .. i - 1, s[j] \in B PROVE FALSE
        BY <1>6
      <3>1. s[j] \in Branch(sub, s[j])
        BY DEF Branch
      <3> QED
        BY <1>2, <1>4, <3>1
    <2>2. 1 .. i = 1 .. i - 1 \cup {i}
      BY <1>1
    <2> QED
      BY <1>0, <1>5, <1>6, <2>1, <2>2
  <1>8. new.ret => \A j \in 1 .. i - 1 : Branch(sub, s[j]) \subseteq new.seen
    BY <1>2, <1>6
  <1>9. Within(Past(sub, s, i), Dirs(sub, Past(sub, s, i)), so, new)
    BY <1>2, <1>6
  <1> QED
    BY <1>7, <1>8, <1>9 DEF LoopOK

LEMMA LoopIs ==
    ASSUME TypeOK, IsFiniteSet(DOMAIN tree), NEW sub \in BOOLEAN, NEW p \in Nodes,
           NEW so \in Scans, so.seen \cap Reach(sub, p) = {},
           \A q \in Children(p) : BelowOwes(sub, q),
           NEW s, s = SetToSeq(Children(p)),
           NEW t, t[0] = Start(so), \A i \in 1 .. Len(s) : t[i] = Turn(Below, sub, t[i - 1], s[i])
    PROVE  LoopOK(sub, s, Len(s), so, t[Len(s)])
  <1> DEFINE T == {i \in 0 .. Len(s) : ~LoopOK(sub, s, i, so, t[i])}
  <1>0. Len(s) \in Nat
    BY EntriesAre
  <1>1. SUFFICES ASSUME T # {} PROVE FALSE
    BY <1>0
  <1>2. PICK i \in T : \A j \in T : i <= j
    <2>1. T \subseteq Nat
      OBVIOUS
    <2> HIDE DEF T
    <2> QED
      BY <1>1, <2>1, HasLeast
  <1>3. i # 0
    <2>1. LoopOK(sub, s, 0, so, Start(so))
      BY LoopStart
    <2>2. LoopOK(sub, s, 0, so, t[0])
      BY <2>1
    <2> QED
      BY <1>2, <2>2
  <1>4. /\ i \in 1 .. Len(s) /\ t[i] = Turn(Below, sub, t[i - 1], s[i])
        /\ LoopOK(sub, s, i - 1, so, t[i - 1])
    <2>1. i \in 1 .. Len(s) /\ i - 1 \in 0 .. Len(s) /\ ~(i <= i - 1)
      BY <1>0, <1>2, <1>3
    <2> QED
      BY <1>2, <2>1
  <1>5. PICK scan, new : scan = t[i - 1] /\ new = t[i]
    OBVIOUS
  <1>6. LoopOK(sub, s, i, so, new)
    <2>1. LoopOK(sub, s, i - 1, so, scan) /\ new = Turn(Below, sub, scan, s[i])
      BY <1>4, <1>5
    <2> HIDE DEF T
    <2> QED
      BY <1>4, <2>1, LoopStep
  <1> QED
    BY <1>2, <1>5, <1>6

LEMMA MaxIs ==
    ASSUME NEW S, S \subseteq Nat, NEW w \in S, \A u \in S : w >= u
    PROVE  Max(S) = w
  <1>1. \A v \in S : (\A u \in S : v >= u) => v = w
    OBVIOUS
  <1> QED
    BY <1>1 DEF Max

LEMMA EndIs ==
    ASSUME NEW loop \in Scans, NEW n \in Nat, NEW end, end = End(loop, n)
    PROVE  /\ end \in Scans /\ end.seen = loop.seen /\ end.steps = loop.steps
           /\ end.ret <=> loop.ret
           /\ end.widest \in {loop.widest, n} /\ end.widest >= loop.widest
           /\ loop.ret => end.widest >= n
           /\ ~loop.ret => end.widest = loop.widest
  <1>1. CASE ~loop.ret
    <2>1. end = loop
      BY <1>1 DEF End
    <2> QED
      BY <1>1, <2>1, ScanFields
  <1>2. CASE loop.ret
    <2>0. PICK w : w = Max({loop.widest, n})
      OBVIOUS
    <2>1. w \in {loop.widest, n} /\ w >= loop.widest /\ w >= n /\ w \in Nat
      <3>1. loop.widest \in Nat
        BY ScanFields
      <3>2. CASE loop.widest >= n
        BY <2>0, <3>1, <3>2, MaxIs
      <3>3. CASE ~(loop.widest >= n)
        BY <2>0, <3>1, <3>3, MaxIs
      <3> QED
        BY <3>2, <3>3
    <2>2. end = [loop EXCEPT !.widest = w]
      BY <1>2, <2>0 DEF End
    <2>3. end = [seen |-> loop.seen, widest |-> w, steps |-> loop.steps, ret |-> loop.ret]
      BY <2>2 DEF Scans
    <2>4. end \in Scans
      BY <2>1, <2>3, ScanFields DEF Scans
    <2> QED
      BY <1>2, <2>1, <2>3, <2>4
  <1> QED
    BY <1>1, <1>2

LEMMA LevelOwes ==
    ASSUME TypeOK, IsFiniteSet(DOMAIN tree), NEW sub \in BOOLEAN, NEW p \in Nodes,
           NEW so \in Scans, so.seen \cap Reach(sub, p) = {},
           \A q \in Children(p) : BelowOwes(sub, q)
    PROVE  Owes(sub, p, so, Level(Below, sub, p, so))
  <1>0. PICK s : s = SetToSeq(Children(p))
    OBVIOUS
  <1>1. /\ Len(s) \in Nat /\ Len(s) = Wide(p)
        /\ \A i \in 1 .. Len(s) : s[i] \in Children(p)
        /\ \A q \in Children(p) : \E i \in 1 .. Len(s) : s[i] = q
    BY <1>0, EntriesAre DEF Wide
  <1>2. PICK t : /\ t[0] = Start(so)
                 /\ \A i \in 1 .. Len(s) : t[i] = Turn(Below, sub, t[i - 1], s[i])
                 /\ Level(Below, sub, p, so) = End(t[Len(s)], Len(s))
    <2>1. \E t : Unrolled(t, Below, sub, p, so, s)
      BY <1>0, LevelIs
    <2> QED
      BY <2>1 DEF Unrolled
  <1>3. PICK loop, end, n, R, D : /\ loop = t[Len(s)] /\ n = Len(s) /\ end = End(loop, n)
                                  /\ R = Reach(sub, p) /\ D = Dirs(sub, R)
    OBVIOUS
  <1>4. LoopOK(sub, s, n, so, loop)
    <2>1. LoopOK(sub, s, Len(s), so, t[Len(s)])
      BY <1>0, <1>2, LoopIs
    <2> QED
      BY <1>3, <2>1
  <1>5. Past(sub, s, n) = R
    <2>1. /\ \A q \in Children(p) : q \in Branch(sub, q) /\ Branch(sub, q) \subseteq R
          /\ \A r \in R : \E q \in Children(p) : r \in Branch(sub, q)
      BY <1>3, ReachIs
    <2>2. \A r \in R : \E j \in 1 .. n : r \in Branch(sub, s[j])
      BY <1>1, <1>3, <2>1
    <2>3. \A j \in 1 .. n : Branch(sub, s[j]) \subseteq R
      BY <1>1, <1>3, <2>1
    <2> QED
      BY <2>2, <2>3 DEF Past
  <1>6. /\ Within(R, D, so, loop)
        /\ loop.ret <=> Children(p) \subseteq loop.seen
        /\ loop.ret => \A j \in 1 .. n - 1 : Branch(sub, s[j]) \subseteq loop.seen
    <2>1. /\ Within(Past(sub, s, n), Dirs(sub, Past(sub, s, n)), so, loop)
          /\ loop.ret <=> \A j \in 1 .. n : s[j] \in loop.seen
          /\ loop.ret => \A j \in 1 .. n - 1 : Branch(sub, s[j]) \subseteq loop.seen
      BY <1>4 DEF LoopOK
    <2>2. Children(p) \subseteq loop.seen <=> \A j \in 1 .. n : s[j] \in loop.seen
      BY <1>1, <1>3
    <2> QED
      BY <1>3, <1>5, <2>1, <2>2
  <1>7. /\ loop \in Scans /\ so.seen \subseteq loop.seen /\ loop.seen \subseteq so.seen \cup R
        /\ Cardinality(loop.seen \ so.seen) + loop.steps = so.steps
        /\ loop.steps > 0 => loop.ret /\ R \subseteq loop.seen
        /\ loop.widest >= so.widest
        /\ loop.widest \in {so.widest} \cup {Wide(q) : q \in D}
        /\ R \subseteq loop.seen => \A q \in D : loop.widest >= Wide(q)
    BY <1>6 DEF Within
  <1>8. /\ end \in Scans /\ end.seen = loop.seen /\ end.steps = loop.steps
        /\ end.ret <=> loop.ret
        /\ end.widest \in {loop.widest, n} /\ end.widest >= loop.widest
        /\ loop.ret => end.widest >= n
        /\ ~loop.ret => end.widest = loop.widest
    <2>1. loop \in Scans /\ n \in Nat /\ end = End(loop, n)
      BY <1>1, <1>3, <1>7
    <2> QED
      BY <2>1, EndIs
  <1>9. /\ so.widest \in Nat /\ loop.widest \in Nat /\ end.widest \in Nat /\ n = Wide(p)
        /\ \A q : Wide(q) \in Nat
    BY <1>1, <1>3, <1>7, <1>8, ScanFields, WideTyped
  <1>10. R \subseteq loop.seen => loop.ret
    BY <1>3, <1>6, ReachIs
  <1>11. Within(R, {p} \cup D, so, end)
    <2>1. end.widest >= so.widest
      BY <1>7, <1>8, <1>9
    <2>2. end.widest \in {so.widest} \cup {Wide(q) : q \in {p} \cup D}
      BY <1>7, <1>8, <1>9
    <2>3. ASSUME R \subseteq end.seen, NEW q \in {p} \cup D PROVE end.widest >= Wide(q)
      <3>1. loop.ret /\ R \subseteq loop.seen
        BY <1>8, <1>10, <2>3
      <3>2. CASE q = p
        BY <1>8, <1>9, <3>1, <3>2
      <3>3. CASE q \in D
        <4>1. loop.widest >= Wide(q)
          BY <1>7, <3>1, <3>3
        <4> QED
          BY <1>8, <1>9, <4>1
      <3> QED
        BY <2>3, <3>2, <3>3
    <2>4. end.steps > 0 => end.ret /\ R \subseteq end.seen
      BY <1>7, <1>8
    <2>5. /\ so.seen \subseteq end.seen /\ end.seen \subseteq so.seen \cup R
          /\ Cardinality(end.seen \ so.seen) + end.steps = so.steps
      BY <1>7, <1>8
    <2> QED
      BY <1>8, <2>1, <2>2, <2>3, <2>4, <2>5 DEF Within
  <1>12. end.ret => \/ R \subseteq end.seen
                    \/ \E q \in Children(p) : R \ end.seen \subseteq Branch(sub, q)
    <2> SUFFICES ASSUME end.ret
                 PROVE  \/ R \subseteq end.seen
                        \/ \E q \in Children(p) : R \ end.seen \subseteq Branch(sub, q)
      OBVIOUS
    <2>1. \A j \in 1 .. n - 1 : Branch(sub, s[j]) \subseteq end.seen
      BY <1>6, <1>8
    <2>2. \A r \in R : \E j \in 1 .. n : r \in Branch(sub, s[j])
      BY <1>5 DEF Past
    <2>3. CASE n = 0
      BY <2>2, <2>3
    <2>4. CASE n # 0
      <3>1. n \in 1 .. n /\ \A j \in 1 .. n : j = n \/ j \in 1 .. n - 1
        BY <1>1, <1>3, <2>4
      <3>2. s[n] \in Children(p)
        BY <1>1, <1>3, <3>1
      <3>3. R \ end.seen \subseteq Branch(sub, s[n])
        BY <2>1, <2>2, <3>1
      <3> QED
        BY <3>2, <3>3
    <2> QED
      BY <2>3, <2>4
  <1>13. /\ end.ret <=> Children(p) \subseteq end.seen
         /\ end.ret => end.widest >= Wide(p)
    BY <1>6, <1>8, <1>9
  <1>14. Owes(sub, p, so, end)
    BY <1>3, <1>11, <1>12, <1>13 DEF Owes
  <1> QED
    BY <1>2, <1>3, <1>14

\* Every scan with all below it owes and pays: a least counterexample is the
\* scan of a longest path.
LEMMA AllOwe ==
    ASSUME TypeOK, IsFiniteSet(DOMAIN tree), NEW p \in Nodes, NEW so \in Scans,
           so.seen \cap Scanned(p) = {}
    PROVE  Owes(TRUE, p, so, Below[p][so])
  <1> DEFINE Fine(q) == \A from \in Scans :
                           from.seen \cap Scanned(q) = {} => Owes(TRUE, q, from, Below[q][from])
             Depth(q) == Cardinality(DOMAIN tree) - Len(q)
             T == {Depth(q) : q \in {r \in Nodes : ~Fine(r)}}
  <1>0. Cardinality(DOMAIN tree) \in Nat
    BY FS_CardinalityType
  <1>1. \A q \in Nodes : Len(q) \in Nat /\ Depth(q) \in Nat
    BY <1>0, NodeIs, PathsBounded
  <1>2. T = {}
    <2> SUFFICES ASSUME T # {} PROVE FALSE
      OBVIOUS
    <2>1. PICK d \in T : \A e \in T : d <= e
      <3>1. T \subseteq Nat
        <4> HIDE DEF Fine, Depth
        <4> QED
          BY <1>1
      <3> HIDE DEF T
      <3> QED
        BY <3>1, HasLeast
    <2>2. PICK q \in Nodes : ~Fine(q) /\ d = Depth(q)
      <3> HIDE DEF Fine, Depth
      <3> QED
        BY <2>1
    <2>3. \A c \in Children(q) : Fine(c)
      <3> SUFFICES ASSUME NEW c \in Children(q), ~Fine(c) PROVE FALSE
        OBVIOUS
      <3>1. c \in Nodes /\ Len(q) \in Nat /\ Len(c) = Len(q) + 1
        BY ChildIs
      <3>2. Depth(c) < Depth(q) /\ Depth(c) \in Nat /\ Depth(q) \in Nat
        BY <1>0, <1>1, <3>1
      <3>3. Depth(c) \in T
        <4> HIDE DEF Fine, Depth
        <4> QED
          BY <3>1
      <3> HIDE DEF Fine, Depth, T
      <3> QED
        BY <2>1, <2>2, <3>2, <3>3
    <2>4. PICK sub \in BOOLEAN : sub = TRUE
      OBVIOUS
    <2>5. \A c \in Children(q) : BelowOwes(sub, c)
      BY <2>3 DEF BelowOwes
    <2>6. ASSUME NEW from \in Scans, from.seen \cap Scanned(q) = {}
          PROVE  Owes(TRUE, q, from, Below[q][from])
      <3>1. from.seen \cap Reach(sub, q) = {}
        BY <2>4, <2>6 DEF Reach
      <3>2. Owes(sub, q, from, Level(Below, sub, q, from))
        <4> HIDE DEF Fine, Depth, T
        <4> QED
          BY <2>5, <3>1, LevelOwes
      <3>3. Below[q][from] = TreeStatus(q, TRUE, from)
        BY BelowIs
      <3>4. Below[q][from] = Level(Below, TRUE, q, from)
        BY <3>3 DEF TreeStatus
      <3> HIDE DEF Fine, Depth, T
      <3> QED
        BY <2>4, <3>2, <3>4
    <2> QED
      BY <2>2, <2>6
  <1>3. Fine(p)
    <2> HIDE DEF Fine, Depth
    <2> QED
      BY <1>2
  <1> QED
    BY <1>3

LEMMA StatusOwes ==
    ASSUME TypeOK, IsFiniteSet(DOMAIN tree), NEW sub \in BOOLEAN, NEW p \in Nodes,
           NEW so \in Scans, so.seen \cap Reach(sub, p) = {}
    PROVE  Owes(sub, p, so, TreeStatus(p, sub, so))
  <1>1. \A q \in Children(p) : BelowOwes(sub, q)
    <2> SUFFICES ASSUME NEW q \in Children(p), NEW from \in Scans, from.seen \cap Scanned(q) = {}
                 PROVE  Owes(TRUE, q, from, Below[q][from])
      BY DEF BelowOwes
    <2>1. q \in Nodes
      BY ChildIs
    <2> QED
      BY <2>1, AllOwe
  <1> QED
    BY <1>1, LevelOwes DEF TreeStatus

\* The two scans of a request: the second has the time the first one leaves it.
Afresh(scan) == [scan EXCEPT !.seen = {}]

Both(p, steps, first, flat, second, deep) ==
    /\ first.seen = {} /\ first.steps = steps /\ first.widest = 1
    /\ Within(Children(p), {p}, first, flat)
    /\ second.seen = {} /\ second.steps = flat.steps /\ second.widest = flat.widest
    /\ Within(Scanned(p), Directories(p), second, deep)
    /\ deep.ret <=> Children(p) \subseteq deep.seen
    /\ deep.ret => /\ deep.widest >= Wide(p)
                   /\ \/ Scanned(p) \subseteq deep.seen
                      \/ \E q \in Children(p) :
                            Scanned(p) \ deep.seen \subseteq Branch(TRUE, q)

LEMMA RequestIs ==
    ASSUME TypeOK, IsFiniteSet(DOMAIN tree), NEW p \in Nodes, NEW steps \in Nat,
           NEW first, first = Begin(steps),
           NEW flat, flat = TreeStatus(p, FALSE, first),
           NEW second, second = Afresh(flat),
           NEW deep, deep = TreeStatus(p, TRUE, second)
    PROVE  Both(p, steps, first, flat, second, deep)
  <1>1. /\ first = [seen |-> {}, widest |-> 1, steps |-> steps, ret |-> TRUE]
        /\ first.seen = {} /\ first.steps = steps /\ first.widest = 1
    BY DEF Begin
  <1>2. first \in Scans
    BY <1>1 DEF Scans
  <1>3. Within(Children(p), {p}, first, flat)
    <2>1. PICK sub \in BOOLEAN : sub = FALSE
      OBVIOUS
    <2>2. first.seen \cap Reach(sub, p) = {}
      BY <1>1
    <2>3. Owes(sub, p, first, TreeStatus(p, sub, first))
      BY <1>2, <2>2, StatusOwes
    <2>4. Reach(sub, p) = Children(p) /\ Dirs(sub, Children(p)) = {}
      BY <2>1 DEF Reach, Dirs
    <2>5. {p} \cup Dirs(sub, Children(p)) = {p}
      BY <2>4
    <2>6. Owes(sub, p, first, flat)
      BY <2>1, <2>3
    <2> QED
      BY <2>4, <2>5, <2>6 DEF Owes
  <1>4. flat \in Scans
    BY <1>3 DEF Within
  <1>5. /\ second = [seen |-> {}, widest |-> flat.widest, steps |-> flat.steps, ret |-> flat.ret]
        /\ second.seen = {} /\ second.steps = flat.steps /\ second.widest = flat.widest
    BY <1>4 DEF Scans, Afresh
  <1>6. second \in Scans
    BY <1>4, <1>5, ScanFields DEF Scans
  <1>7. PICK sub \in BOOLEAN : sub = TRUE
    OBVIOUS
  <1>8. Owes(sub, p, second, deep)
    <2>1. second.seen \cap Reach(sub, p) = {}
      BY <1>5
    <2>2. Owes(sub, p, second, TreeStatus(p, sub, second))
      BY <1>6, <2>1, StatusOwes
    <2> QED
      BY <1>7, <2>2
  <1>9. Reach(sub, p) = Scanned(p) /\ {p} \cup Dirs(sub, Scanned(p)) = Directories(p)
    BY <1>7 DEF Reach, Dirs, Directories
  <1>10. /\ Within(Scanned(p), Directories(p), second, deep)
         /\ deep.ret <=> Children(p) \subseteq deep.seen
         /\ deep.ret => /\ deep.widest >= Wide(p)
                        /\ \/ Scanned(p) \subseteq deep.seen
                           \/ \E q \in Children(p) :
                                 Scanned(p) \ deep.seen \subseteq Branch(TRUE, q)
    BY <1>7, <1>8, <1>9 DEF Owes
  <1> QED
    BY <1>1, <1>3, <1>5, <1>10 DEF Both

LEMMA ChildrenScanned ==
    ASSUME TypeOK, NEW p \in Nodes
    PROVE  Children(p) \subseteq Scanned(p)
  BY BranchScanned DEF Branch

\* What a scan that begins with nothing seen counts.
LEMMA CountOf ==
    ASSUME IsFiniteSet(DOMAIN tree), NEW so, so.seen = {}, so.steps \in Nat,
           NEW N, N \subseteq DOMAIN tree, NEW D, NEW scan, Within(N, D, so, scan)
    PROVE  /\ scan.seen \subseteq N
           /\ Cardinality(scan.seen) \in Nat /\ Cardinality(N) \in Nat
           /\ Cardinality(scan.seen) <= Cardinality(N)
           /\ Cardinality(scan.seen) = Cardinality(N) => scan.seen = N
           /\ scan.steps \in Nat /\ Cardinality(scan.seen) + scan.steps = so.steps
           /\ scan.steps > 0 => N \subseteq scan.seen
  <1>1. IsFiniteSet(N)
    BY FS_Subset
  <1>2. scan.seen \subseteq N /\ scan.seen \ so.seen = scan.seen
    BY DEF Within
  <1>3. IsFiniteSet(scan.seen)
    BY <1>1, <1>2, FS_Subset
  <1>4. Cardinality(scan.seen) \in Nat /\ Cardinality(N) \in Nat
    BY <1>1, <1>3, FS_CardinalityType
  <1>5. /\ Cardinality(scan.seen) <= Cardinality(N)
        /\ Cardinality(scan.seen) = Cardinality(N) => scan.seen = N
    BY <1>1, <1>2, FS_Subset
  <1>6. scan.steps \in Nat
    BY ScanFields DEF Within
  <1>7. Cardinality(scan.seen \ so.seen) + scan.steps = so.steps
    BY DEF Within
  <1>8. scan.steps > 0 => N \subseteq scan.seen
    BY DEF Within
  <1> QED
    BY <1>2, <1>4, <1>5, <1>6, <1>7, <1>8

LEMMA NearlyAll ==
    ASSUME TypeOK, IsFiniteSet(DOMAIN tree), NEW p \in Nodes, NEW steps \in 0 .. Steps(p)
    PROVE  LET answer == Request(p, steps)
               missed == Scanned(p) \ answer.deep
           IN  /\ answer.ret => /\ answer.flat = Children(p)
                                /\ Children(p) \subseteq answer.deep
                                /\ answer.widest >= Cardinality(Children(p))
                                /\ missed # {} => \E q \in Children(p) :
                                      \A r \in missed : Above(q, r)
               /\ steps = Steps(p) =>
                     /\ answer.ret /\ missed = {} /\ answer.deep = Scanned(p)
                     /\ answer.widest = Max({1} \cup {Cardinality(Children(q)) : q \in Directories(p)})
  <1>0. PICK first, flat, second, deep :
            /\ first = Begin(steps) /\ flat = TreeStatus(p, FALSE, first)
            /\ second = [flat EXCEPT !.seen = {}] /\ deep = TreeStatus(p, TRUE, second)
    OBVIOUS
  <1>1. steps \in Nat
    OBVIOUS
  <1>2. /\ first.seen = {} /\ first.steps = steps /\ first.widest = 1
        /\ Within(Children(p), {p}, first, flat)
        /\ second.seen = {} /\ second.steps = flat.steps /\ second.widest = flat.widest
        /\ Within(Scanned(p), Directories(p), second, deep)
        /\ deep.ret <=> Children(p) \subseteq deep.seen
        /\ deep.ret => /\ deep.widest >= Wide(p)
                       /\ \/ Scanned(p) \subseteq deep.seen
                          \/ \E q \in Children(p) :
                                Scanned(p) \ deep.seen \subseteq Branch(TRUE, q)
    <2>1. /\ first = Begin(steps) /\ flat = TreeStatus(p, FALSE, first)
          /\ second = Afresh(flat) /\ deep = TreeStatus(p, TRUE, second)
      BY <1>0 DEF Afresh
    <2>2. Both(p, steps, first, flat, second, deep)
      BY <1>1, <2>1, RequestIs
    <2> QED
      BY <2>2 DEF Both
  <1>3. /\ flat.seen \subseteq Children(p)
        /\ Cardinality(flat.seen) \in Nat /\ Cardinality(Children(p)) \in Nat
        /\ Cardinality(flat.seen) <= Cardinality(Children(p))
        /\ flat.steps \in Nat /\ Cardinality(flat.seen) + flat.steps = steps
        /\ flat.steps > 0 => Children(p) \subseteq flat.seen
    <2>1. Children(p) \subseteq DOMAIN tree
      BY DEF Children
    <2>2. first.seen = {} /\ first.steps \in Nat /\ Within(Children(p), {p}, first, flat)
      BY <1>1, <1>2
    <2>3. /\ flat.seen \subseteq Children(p)
          /\ Cardinality(flat.seen) \in Nat /\ Cardinality(Children(p)) \in Nat
          /\ Cardinality(flat.seen) <= Cardinality(Children(p))
          /\ flat.steps \in Nat /\ Cardinality(flat.seen) + flat.steps = first.steps
          /\ flat.steps > 0 => Children(p) \subseteq flat.seen
      BY <2>1, <2>2, CountOf
    <2> QED
      BY <1>2, <2>3
  <1>4. /\ deep.seen \subseteq Scanned(p)
        /\ Cardinality(deep.seen) \in Nat /\ Cardinality(Scanned(p)) \in Nat
        /\ Cardinality(deep.seen) <= Cardinality(Scanned(p))
        /\ Cardinality(deep.seen) = Cardinality(Scanned(p)) => deep.seen = Scanned(p)
        /\ deep.steps \in Nat /\ Cardinality(deep.seen) + deep.steps = flat.steps
        /\ deep.steps > 0 => Scanned(p) \subseteq deep.seen
    <2>1. Scanned(p) \subseteq DOMAIN tree
      BY DEF Scanned
    <2>2. second.seen = {} /\ second.steps \in Nat /\ Within(Scanned(p), Directories(p), second, deep)
      BY <1>2, <1>3
    <2>3. /\ deep.seen \subseteq Scanned(p)
          /\ Cardinality(deep.seen) \in Nat /\ Cardinality(Scanned(p)) \in Nat
          /\ Cardinality(deep.seen) <= Cardinality(Scanned(p))
          /\ Cardinality(deep.seen) = Cardinality(Scanned(p)) => deep.seen = Scanned(p)
          /\ deep.steps \in Nat /\ Cardinality(deep.seen) + deep.steps = second.steps
          /\ deep.steps > 0 => Scanned(p) \subseteq deep.seen
      BY <2>1, <2>2, CountOf
    <2> QED
      BY <1>2, <2>3
  <1>5. ASSUME deep.ret PROVE flat.seen = Children(p)
    <2>1. Children(p) \subseteq deep.seen
      BY <1>2, <1>5
    <2>2. CASE Children(p) = {}
      BY <1>3, <2>2
    <2>3. CASE Children(p) # {}
      <3>1. deep.seen # {}
        BY <2>1, <2>3
      <3>2. IsFiniteSet(deep.seen)
        BY <1>4, FS_Subset DEF Scanned
      <3>3. Cardinality(deep.seen) # 0
        BY <3>1, <3>2, FS_EmptySet
      <3>4. flat.steps > 0
        BY <1>3, <1>4, <3>3
      <3> QED
        BY <1>3, <3>4
    <2> QED
      BY <2>2, <2>3
  <1>6. ASSUME deep.ret, Scanned(p) \ deep.seen # {}
        PROVE  \E q \in Children(p) : \A r \in Scanned(p) \ deep.seen : Above(q, r)
    <2>1. PICK q \in Children(p) : Scanned(p) \ deep.seen \subseteq Branch(TRUE, q)
      BY <1>2, <1>6
    <2>2. PICK sub : sub = TRUE
      OBVIOUS
    <2>3. \A r \in Branch(sub, q) : Above(q, r)
      BY BranchIs
    <2> QED
      BY <2>1, <2>2, <2>3
  <1>7. ASSUME steps = Steps(p)
        PROVE  deep.ret /\ deep.seen = Scanned(p)
    <2>1. flat.steps >= Cardinality(Scanned(p))
      BY <1>3, <1>4, <1>7 DEF Steps
    <2>2. Scanned(p) \subseteq deep.seen
      BY <1>3, <1>4, <2>1
    <2> QED
      BY <1>2, <1>4, <2>2, ChildrenScanned
  <1>8. ASSUME steps = Steps(p)
        PROVE  deep.widest = Max({1} \cup {Cardinality(Children(q)) : q \in Directories(p)})
    <2> DEFINE S == {1} \cup {Wide(q) : q \in Directories(p)}
    <2>1. Scanned(p) \subseteq deep.seen
      BY <1>7, <1>8
    <2>2. \A q : Wide(q) \in Nat
      BY WideTyped
    <2>3. /\ flat.widest >= 1 /\ flat.widest \in {1} \cup {Wide(q) : q \in {p}}
      BY <1>2 DEF Within
    <2>4. /\ deep.widest >= flat.widest
          /\ deep.widest \in {flat.widest} \cup {Wide(q) : q \in Directories(p)}
          /\ \A q \in Directories(p) : deep.widest >= Wide(q)
      BY <1>2, <2>1 DEF Within
    <2>5. p \in Directories(p)
      BY DEF Directories
    <2>6. S \subseteq Nat /\ deep.widest \in S
      BY <2>2, <2>3, <2>4, <2>5
    <2>7. \A u \in S : deep.widest >= u
      BY <2>2, <2>3, <2>4
    <2>8. Max(S) = deep.widest
      <3> HIDE DEF S
      <3> QED
        BY <2>6, <2>7, MaxIs
    <2> QED
      BY <2>8 DEF Wide
  <1>9. PICK answer : answer = Request(p, steps)
    OBVIOUS
  <1>10. /\ answer.flat = flat.seen /\ answer.deep = deep.seen
         /\ answer.widest = deep.widest /\ answer.ret = deep.ret
    BY <1>0, <1>9 DEF Request
  <1>11. answer.ret => /\ answer.flat = Children(p)
                       /\ Children(p) \subseteq answer.deep
                       /\ answer.widest >= Cardinality(Children(p))
                       /\ Scanned(p) \ answer.deep # {} => \E q \in Children(p) :
                             \A r \in Scanned(p) \ answer.deep : Above(q, r)
    BY <1>2, <1>5, <1>6, <1>10 DEF Wide
  <1>12. steps = Steps(p) =>
            /\ answer.ret /\ Scanned(p) \ answer.deep = {} /\ answer.deep = Scanned(p)
            /\ answer.widest = Max({1} \cup {Cardinality(Children(q)) : q \in Directories(p)})
    BY <1>7, <1>8, <1>10
  <1> QED
    BY <1>9, <1>11, <1>12

\* Whatever deepTree answers with "success", a directory it did not get through
\* is a single one, and in time it gets through all: in every tree that reports,
\* erasures and loads lead to, and for every number of steps the limit allows.
THEOREM DeepTreeMissesLittle == Spec => []SuccessIsNearlyAll /\ []DeepTreeInTime
  <1>1. TypeOK /\ FiniteInv => SuccessIsNearlyAll
    BY NearlyAll DEF FiniteInv, SuccessIsNearlyAll
  <1>2. SuccessIsNearlyAll => DeepTreeInTime
    BY DEF DeepTreeInTime
  <1> QED
    BY <1>1, <1>2, TypeInit, TypeNext, FiniteInit, FiniteNext, PTL DEF Spec
=============================================================================
