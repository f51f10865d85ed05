---------------------------- MODULE ReadNodeProofs ----------------------------
(***************************************************************************)
(* Theorems about ReadNode for any number of queries and file versions.    *)
(***************************************************************************)
EXTENDS ReadNode, TLAPS

LEMMA LoadTyped ==
    ASSUME TypeOK, NEW result \in LoadResults
    PROVE  /\ result.tree \in Tree /\ result.ok \in BOOLEAN
           /\ fails + Failed(result) \in 0 .. MaxFails
           /\ result.ok => result.tree.ver = file.ver
           /\ result.ok /\ file.end = "closed" => result.tree.whole
           /\ ~result.ok => result.tree = Empty
  <1>1. file.ver \in 0 .. MaxVersion /\ MaxFails \in Nat /\ fails \in 0 .. MaxFails
    BY ConstantsAssumption DEF TypeOK, Versions
  <1>2. CASE result = LoadFailure
    <2>1. result.tree = Empty /\ result.ok = FALSE
      BY <1>2 DEF LoadFailure
    <2>2. file.end # "closed" \/ fails < MaxFails
      BY <2>1 DEF LoadResults, LoadFailure
    <2>3. Failed(result) = IF file.end = "closed" THEN 1 ELSE 0
      BY <1>1, <2>1 DEF Failed
    <2>4. fails + Failed(result) \in 0 .. MaxFails
      BY <1>1, <2>2, <2>3
    <2>5. Empty \in Tree
      BY ConstantsAssumption DEF Empty, Tree
    <2> QED
      BY <2>1, <2>4, <2>5
  <1>3. CASE file.end # "closed" /\ result = [ok |-> TRUE, tree |-> [ver |-> file.ver, whole |-> FALSE]]
    BY <1>1, <1>3 DEF Failed, Tree
  <1>4. CASE file.end = "closed" /\ result = [ok |-> TRUE, tree |-> WholeTree(file.ver)]
    BY <1>1, <1>4 DEF Failed, Tree, WholeTree
  <1> QED
    BY <1>2, <1>3, <1>4 DEF LoadResults

QueryType == [pc : {"idle", "walk"}, on : {"my", "swap"},
              byFlag : BOOLEAN, dirty : BOOLEAN, spans : BOOLEAN]

LEMMA QueriesTyped ==
    ASSUME TypeOK
    PROVE  /\ IdleQuery \in QueryType
           /\ \A t : Disturb(t) \in [Queries -> QueryType]
           /\ Span \in [Queries -> QueryType]
           /\ SelectedName \in {"my", "swap"}
  <1>1. query \in [Queries -> QueryType]
    BY DEF TypeOK, QueryType
  <1>2. IdleQuery \in QueryType
    BY DEF IdleQuery, QueryType
  <1>3. \A r \in QueryType : /\ [r EXCEPT !.dirty = TRUE] \in QueryType
                             /\ [r EXCEPT !.spans = TRUE] \in QueryType
    BY DEF QueryType
  <1>4. \A t : Disturb(t) \in [Queries -> QueryType]
    BY <1>1, <1>3 DEF Disturb
  <1>5. Span \in [Queries -> QueryType]
    BY <1>1, <1>3 DEF Span
  <1> QED
    BY <1>2, <1>4, <1>5 DEF SelectedName

LEMMA OlderTyped == \A a \in Ages : Older(a) \in Ages
  BY ConstantsAssumption DEF Ages, Older

LEMMA TypeInit == Init => TypeOK
  <1> SUFFICES ASSUME Init PROVE TypeOK
    OBVIOUS
  <1> USE ConstantsAssumption
  <1>1. file \in [ver : Versions, age : Ages, end : {"open", "closed", "cut"}]
    BY DEF Init, Versions, Ages
  <1>2. buf \in [size : Nat, age : Ages] /\ fails \in 0 .. MaxFails
    BY DEF Init, Ages
  <1>3. my \in Tree /\ swap \in Tree
    BY DEF Init, Empty, Tree
  <1>4. query \in [Queries -> QueryType]
    BY DEF Init, IdleQuery, QueryType
  <1> QED
    BY <1>1, <1>2, <1>3, <1>4 DEF Init, TypeOK, QueryType

LEMMA TypeNext == TypeOK /\ [Next]_vars => TypeOK'
  <1> SUFFICES ASSUME TypeOK, [Next]_vars PROVE TypeOK'
    OBVIOUS
  <1>0. /\ query \in [Queries -> QueryType] /\ Empty \in Tree /\ file.ver \in Versions
        /\ file.age \in Ages /\ Delay \in Ages /\ 0 \in Ages
    BY ConstantsAssumption DEF TypeOK, QueryType, Empty, Tree, Versions, Ages
  <1>1. CASE Start
    <2>1. PICK result \in LoadResults :
             my' = result.tree /\ fails' = fails + Failed(result)
      BY <1>1 DEF Start
    <2> QED
      BY <1>1, <2>1, LoadTyped DEF Start, TypeOK, disk
  <1>2. CASE Stat
    <2>1. buf' \in [size : Nat, age : Ages]
      BY <1>0, <1>2, ConstantsAssumption DEF Stat
    <2> QED
      BY <1>2, <2>1 DEF Stat, TypeOK, disk, trees
  <1>3. CASE Settle
    BY <1>3 DEF Settle, TypeOK, disk, trees
  <1>4. CASE LockStore
    BY <1>4, ConstantsAssumption DEF LockStore, TypeOK, trees
  <1>5. CASE Load
    <2>1. PICK result \in LoadResults :
             swap' = result.tree /\ loaded' = result.ok /\ fails' = fails + Failed(result)
      BY <1>5 DEF Load
    <2>2. query' \in [Queries -> QueryType]
      BY <1>5, QueriesTyped DEF Load
    <2> QED
      BY <1>5, <2>1, <2>2, LoadTyped DEF Load, TypeOK, disk, QueryType
  <1>6. CASE UnlockStore
    BY <1>6, ConstantsAssumption DEF UnlockStore, TypeOK, trees
  <1>7. CASE RaiseFlag \/ LowerFlag
    <2>1. query' \in [Queries -> QueryType]
      BY <1>7, QueriesTyped DEF RaiseFlag, LowerFlag
    <2> QED
      BY <1>7, <2>1 DEF RaiseFlag, LowerFlag, TypeOK, disk, QueryType
  <1>8. CASE ClearTree \/ AssignTree
    <2>1. query' \in [Queries -> QueryType]
      BY <1>8, QueriesTyped DEF ClearTree, AssignTree
    <2> QED
      BY <1>0, <1>8, <2>1 DEF ClearTree, AssignTree, TypeOK, disk, QueryType
  <1>9. CASE DropSwap
    <2>1. query' \in [Queries -> QueryType]
      BY <1>9, QueriesTyped DEF DropSwap
    <2> QED
      BY <1>0, <1>9, <2>1 DEF DropSwap, TypeOK, disk, QueryType
  <1>10. ASSUME NEW q \in Queries, Ask(q) \/ AskMyTree(q) \/ LookAgain(q) \/ Answer(q)
         PROVE  TypeOK'
    <2>1. query' \in [Queries -> QueryType]
      <3>1. SelectedName \in {"my", "swap"} /\ IdleQuery \in QueryType
        BY QueriesTyped
      <3>2. [IdleQuery EXCEPT !.pc = "walk", !.on = SelectedName] \in QueryType
        BY <3>1 DEF QueryType
      <3>3. [IdleQuery EXCEPT !.pc = "walk", !.byFlag = FALSE] \in QueryType
        BY <3>1 DEF QueryType
      <3>4. [query[q] EXCEPT !.on = SelectedName, !.spans = @ /\ query[q].dirty] \in QueryType
        <4>1. query[q] \in QueryType
          BY <1>0
        <4>2. (query[q].spans /\ query[q].dirty) \in BOOLEAN
          OBVIOUS
        <4> QED
          BY <3>1, <4>1, <4>2 DEF QueryType
      <3>5. CASE Ask(q)
        BY <1>0, <3>2, <3>5 DEF Ask
      <3>6. CASE AskMyTree(q)
        BY <1>0, <3>3, <3>6 DEF AskMyTree
      <3>7. CASE LookAgain(q)
        <4>1. query' = [query EXCEPT ![q] = [query[q] EXCEPT !.on = SelectedName,
                                                 !.spans = @ /\ query[q].dirty]]
          BY <3>7 DEF LookAgain
        <4> QED
          BY <1>0, <3>4, <4>1
      <3>8. CASE Answer(q)
        BY <1>0, <3>1, <3>8 DEF Answer
      <3> QED
        BY <1>10, <3>5, <3>6, <3>7, <3>8
    <2> QED
      BY <1>10, <2>1 DEF Ask, AskMyTree, LookAgain, Answer, TypeOK, disk, trees, QueryType
  <1>11. CASE Die
    <2>1. query' \in [Queries -> QueryType]
      BY <1>11, QueriesTyped DEF Die
    <2> QED
      BY <1>0, <1>11, <2>1, ConstantsAssumption DEF Die, TypeOK, QueryType
  <1>12. CASE Publish \/ OverwriteBegin \/ OverwriteEnd
    <2>1. file' \in [ver : Versions, age : Ages, end : {"open", "closed", "cut"}]
      <3>1. file.ver < MaxVersion => file.ver + 1 \in Versions
        BY <1>0, ConstantsAssumption DEF Versions
      <3>2. CASE Publish
        <4>1. PICK age \in 0 .. file.age, end \in {"closed", "cut"} :
                 file' = [ver |-> file.ver + 1, age |-> age, end |-> end]
          BY <3>2 DEF Publish
        <4>2. age \in Ages
          BY <1>0, ConstantsAssumption DEF Ages
        <4> QED
          BY <3>1, <3>2, <4>1, <4>2 DEF Publish
      <3>3. CASE OverwriteBegin
        BY <1>0, <3>1, <3>3 DEF OverwriteBegin
      <3>4. CASE OverwriteEnd
        BY <1>0, <3>4 DEF OverwriteEnd, TypeOK
      <3> QED
        BY <1>12, <3>2, <3>3, <3>4
    <2> QED
      BY <1>12, <2>1 DEF Publish, OverwriteBegin, OverwriteEnd, TypeOK, trees
  <1>13. CASE WriterLocks \/ WriterUnlocks
    BY <1>13, ConstantsAssumption DEF WriterLocks, WriterUnlocks, TypeOK, trees
  <1>14. CASE Tick
    <2>1. file' \in [ver : Versions, age : Ages, end : {"open", "closed", "cut"}]
      BY <1>0, <1>14, OlderTyped DEF Tick, TypeOK
    <2>2. buf' \in [size : Nat, age : Ages]
      BY <1>0, <1>14, OlderTyped DEF Tick, TypeOK
    <2> QED
      BY <1>14, <2>1, <2>2 DEF Tick, TypeOK, trees
  <1>15. CASE EraseKey
    <2>1. query' \in [Queries -> QueryType]
      <3>1. \A r \in QueryType : [r EXCEPT !.dirty = TRUE, !.spans = TRUE] \in QueryType
        BY DEF QueryType
      <3> QED
        BY <1>0, <1>15, <3>1 DEF EraseKey
    <2> QED
      BY <1>15, <2>1 DEF EraseKey, TypeOK, disk, trees, QueryType
  <1>16. CASE UNCHANGED vars
    BY <1>16 DEF vars, TypeOK, disk, trees
  <1> QED
    BY <1>1, <1>2, <1>3, <1>4, <1>5, <1>6, <1>7, <1>8, <1>9, <1>10, <1>11, <1>12,
       <1>13, <1>14, <1>15, <1>16 DEF Next, Reload

\* Every variable keeps its type, and flag and lock follow the thread.
THEOREM TypeCorrect == Spec => []TypeOK
  BY TypeInit, TypeNext, PTL DEF Spec
-----------------------------------------------------------------------------
(***************************************************************************)
(* The tree the queries are sent to.  While the flag is up that is         *)
(* myTreeSwap, which no step of the thread touches then; the flag goes     *)
(* down only after myTree was made equal to it, and up only for a tree     *)
(* that was loaded, later than the one in myTree.                          *)
(***************************************************************************)
Ordered ==
    /\ my.ver <= file.ver /\ swap.ver <= file.ver
    /\ pc = "unlock" /\ loaded => my.ver <= swap.ver
    /\ pc = "raise" => my.ver <= swap.ver
    /\ pc = "lower" => my.ver = swap.ver
    /\ ~up => pc = "sleep" /\ my = Empty

LEMMA OrderedInit == Init => Ordered
  BY DEF Init, Ordered, Empty

LEMMA OrderedNext == TypeOK /\ Ordered /\ [Next]_vars => Ordered'
  <1> SUFFICES ASSUME TypeOK, Ordered, [Next]_vars PROVE Ordered'
    OBVIOUS
  <1>0. /\ file.ver \in Nat \ {0} /\ my.ver \in Nat /\ swap.ver \in Nat /\ Empty.ver = 0
        /\ swapFlag <=> pc \in {"clear", "assign", "lower"}
    BY ConstantsAssumption DEF TypeOK, Versions, Tree, Empty
  <1>1. CASE Start
    <2>1. PICK result \in LoadResults : my' = result.tree
      BY <1>1 DEF Start
    <2>2. result.tree.ver <= file.ver
      BY <1>0, LoadTyped
    <2> QED
      BY <1>0, <1>1, <2>1, <2>2 DEF Start, Ordered, disk
  <1>2. CASE Load
    <2>1. PICK result \in LoadResults : swap' = result.tree /\ loaded' = result.ok
      BY <1>2 DEF Load
    <2>2. result.tree.ver <= file.ver /\ (result.ok => result.tree.ver = file.ver)
      BY <1>0, LoadTyped
    <2> QED
      BY <1>0, <1>2, <2>1, <2>2 DEF Load, Ordered, disk
  <1>3. CASE Stat \/ Settle \/ LockStore \/ UnlockStore \/ RaiseFlag
    BY <1>0, <1>3 DEF Stat, Settle, LockStore, UnlockStore, RaiseFlag, Ordered, disk, trees
  <1>4. CASE ClearTree \/ AssignTree \/ LowerFlag \/ DropSwap
    BY <1>0, <1>4 DEF ClearTree, AssignTree, LowerFlag, DropSwap, Ordered, disk
  <1>5. ASSUME NEW q \in Queries, Ask(q) \/ AskMyTree(q) \/ LookAgain(q) \/ Answer(q)
        PROVE  Ordered'
    BY <1>5 DEF Ask, AskMyTree, LookAgain, Answer, Ordered, disk, trees
  <1>6. CASE Die
    BY <1>0, <1>6 DEF Die, Ordered
  <1>7. CASE Publish \/ OverwriteBegin \/ OverwriteEnd
    <2>1. file'.ver = file.ver \/ file'.ver = file.ver + 1
      <3>1. CASE Publish
        BY <3>1 DEF Publish
      <3>2. CASE OverwriteBegin
        BY <3>2 DEF OverwriteBegin
      <3>3. CASE OverwriteEnd
        BY <3>3 DEF OverwriteEnd, TypeOK
      <3> QED
        BY <1>7, <3>1, <3>2, <3>3
    <2> QED
      BY <1>0, <1>7, <2>1
      DEF Publish, OverwriteBegin, OverwriteEnd, Ordered, trees
  <1>8. CASE WriterLocks \/ WriterUnlocks
    BY <1>8 DEF WriterLocks, WriterUnlocks, Ordered, trees
  <1>9. CASE Tick
    <2>1. file'.ver = file.ver
      BY <1>9 DEF Tick, TypeOK
    <2> QED
      BY <1>9, <2>1 DEF Tick, Ordered, trees
  <1>10. CASE EraseKey
    BY <1>10 DEF EraseKey, Ordered, disk, trees
  <1>11. CASE UNCHANGED vars
    BY <1>11 DEF vars, Ordered, disk, trees
  <1> QED
    BY <1>1, <1>2, <1>3, <1>4, <1>5, <1>6, <1>7, <1>8, <1>9, <1>10, <1>11
    DEF Next, Reload

\* A step that leaves the trees and the flag alone leaves Selected alone; the
\* others are the start and the death of the process and six steps of the thread.
LEMMA TreeSteps ==
    ASSUME [Next]_vars
    PROVE  \/ UNCHANGED trees
           \/ Start \/ Die
           \/ Load \/ RaiseFlag \/ ClearTree \/ AssignTree \/ LowerFlag \/ DropSwap
  BY DEF Next, Reload, vars, Stat, Settle, LockStore, UnlockStore, Ask, AskMyTree,
         LookAgain, Answer, Publish, OverwriteBegin, OverwriteEnd, WriterLocks,
         WriterUnlocks, Tick, EraseKey

\* Queries never go back in time, whatever the file goes through.
THEOREM NeverGoesBack == Spec => NeverOlder
  <1>1. TypeOK /\ Ordered /\ [Next]_vars => [up' => Selected'.ver >= Selected.ver]_vars
    <2> SUFFICES ASSUME TypeOK, Ordered, [Next]_vars, up'
                 PROVE  Selected'.ver >= Selected.ver
      OBVIOUS
    <2>0. /\ my.ver \in Nat /\ swap.ver \in Nat /\ my'.ver \in Nat /\ swap'.ver \in Nat
          /\ Empty.ver = 0
          /\ swapFlag \in BOOLEAN
          /\ swapFlag <=> pc \in {"clear", "assign", "lower"}
      BY TypeNext, ConstantsAssumption DEF TypeOK, Tree, Empty
    <2>1. CASE UNCHANGED trees
      BY <2>0, <2>1 DEF trees, Selected
    <2>2. CASE Start
      BY <2>0, <2>2 DEF Start, Ordered, Selected
    <2>3. CASE Die
      BY <2>3 DEF Die
    <2>4. CASE Load \/ DropSwap
      <3>1. ~swapFlag /\ swapFlag' = swapFlag /\ my' = my
        BY <2>0, <2>4 DEF Load, DropSwap
      <3> QED
        BY <2>0, <3>1 DEF Selected
    <2>5. CASE ClearTree \/ AssignTree
      <3>1. swapFlag /\ swapFlag' = swapFlag /\ swap' = swap
        BY <2>0, <2>5 DEF ClearTree, AssignTree
      <3> QED
        BY <2>0, <3>1 DEF Selected
    <2>6. CASE RaiseFlag
      <3>1. ~swapFlag /\ swapFlag' /\ swap' = swap /\ my.ver <= swap.ver
        BY <2>0, <2>6 DEF RaiseFlag, Ordered
      <3> QED
        BY <2>0, <3>1 DEF Selected
    <2>7. CASE LowerFlag
      <3>1. swapFlag /\ ~swapFlag' /\ my'.ver = swap.ver
        BY <2>0, <2>7 DEF LowerFlag, Ordered
      <3> QED
        BY <2>0, <3>1 DEF Selected
    <2> QED
      BY TreeSteps, <2>1, <2>2, <2>3, <2>4, <2>5, <2>6, <2>7
  <1> QED
    BY <1>1, TypeInit, TypeNext, OrderedInit, OrderedNext, PTL DEF Spec, NeverOlder
-----------------------------------------------------------------------------
(***************************************************************************)
(* Whole trees: what a successful load leaves in myTreeSwap stands in for  *)
(* myTree until the copy of it does.                                       *)
(***************************************************************************)
WholeSwap ==
    /\ pc = "unlock" /\ loaded => swap.ver > 0
    /\ pc = "raise" => swap.ver > 0
    /\ pc = "lower" => my = swap
    /\ ~up => pc = "sleep" /\ my = Empty

LEMMA WholeSwapInit == Init => WholeSwap
  BY DEF Init, WholeSwap, Empty

LEMMA WholeSwapNext == TypeOK /\ WholeSwap /\ [Next]_vars => WholeSwap'
  <1> SUFFICES ASSUME TypeOK, WholeSwap, [Next]_vars PROVE WholeSwap'
    OBVIOUS
  <1>1. CASE Start
    BY <1>1 DEF Start, WholeSwap, disk
  <1>2. CASE Load
    <2>1. PICK result \in LoadResults : swap' = result.tree /\ loaded' = result.ok
      BY <1>2 DEF Load
    <2>2. result.ok => result.tree.ver > 0
      BY DEF LoadResults, LoadFailure, WholeTree, TypeOK, Versions
    <2> QED
      BY <1>2, <2>1, <2>2 DEF Load, WholeSwap, disk
  <1>3. CASE Stat \/ Settle \/ LockStore \/ UnlockStore \/ RaiseFlag
    BY <1>3 DEF Stat, Settle, LockStore, UnlockStore, RaiseFlag, WholeSwap, disk, trees
  <1>4. CASE ClearTree \/ AssignTree \/ LowerFlag \/ DropSwap
    BY <1>4 DEF ClearTree, AssignTree, LowerFlag, DropSwap, WholeSwap, disk
  <1>5. ASSUME NEW q \in Queries, Ask(q) \/ AskMyTree(q) \/ LookAgain(q) \/ Answer(q)
        PROVE  WholeSwap'
    BY <1>5 DEF Ask, AskMyTree, LookAgain, Answer, WholeSwap, disk, trees
  <1>6. CASE Die
    BY <1>6 DEF Die, WholeSwap
  <1>7. CASE Publish
    BY <1>7 DEF Publish, WholeSwap, trees
  <1>8. CASE OverwriteBegin \/ OverwriteEnd
    BY <1>8 DEF OverwriteBegin, OverwriteEnd, WholeSwap, trees
  <1>9. CASE WriterLocks \/ WriterUnlocks
    BY <1>9 DEF WriterLocks, WriterUnlocks, WholeSwap, trees
  <1>10. CASE Tick
    BY <1>10 DEF Tick, WholeSwap, trees
  <1>11. CASE EraseKey
    BY <1>11 DEF EraseKey, WholeSwap, disk, trees
  <1>12. CASE UNCHANGED vars
    BY <1>12 DEF vars, WholeSwap, disk, trees
  <1> QED
    BY <1>1, <1>2, <1>3, <1>4, <1>5, <1>6, <1>7, <1>8, <1>9, <1>10, <1>11, <1>12
    DEF Next, Reload

\* A node that serves a whole tree goes on serving one until it dies, however
\* many loads fail, unless it loads a half written or cut file.
THEOREM ServesOn == Spec => KeepsServing
  <1>1. TypeOK /\ WholeSwap /\ [Next]_vars
           => [Selected.whole /\ up' => Selected'.whole \/ CutLoad]_vars
    <2> SUFFICES ASSUME TypeOK, WholeSwap, [Next]_vars, Selected.whole, up'
                 PROVE  Selected'.whole \/ CutLoad
      OBVIOUS
    <2>0. /\ Empty.whole = FALSE
          /\ swapFlag \in BOOLEAN
          /\ swapFlag <=> pc \in {"clear", "assign", "lower"}
      BY DEF TypeOK, Empty
    <2>1. CASE UNCHANGED trees
      BY <2>1 DEF trees, Selected
    <2>2. CASE Start
      BY <2>0, <2>2 DEF Start, WholeSwap, Selected
    <2>3. CASE Die
      BY <2>3 DEF Die
    <2>4. CASE Load \/ DropSwap
      <3>1. ~swapFlag /\ swapFlag' = swapFlag /\ my' = my
        BY <2>0, <2>4 DEF Load, DropSwap
      <3> QED
        BY <3>1 DEF Selected
    <2>5. CASE ClearTree \/ AssignTree
      <3>1. swapFlag /\ swapFlag' = swapFlag /\ swap' = swap
        BY <2>0, <2>5 DEF ClearTree, AssignTree
      <3> QED
        BY <3>1 DEF Selected
    <2>6. CASE RaiseFlag
      <3>1. swapFlag' /\ swap' = swap /\ pc = "raise" /\ swap.ver > 0
        BY <2>6 DEF RaiseFlag, WholeSwap
      <3> QED
        BY <3>1 DEF Selected, CutLoad, TypeOK, Tree
    <2>7. CASE LowerFlag
      <3>1. swapFlag /\ ~swapFlag' /\ my' = swap
        BY <2>0, <2>7 DEF LowerFlag, WholeSwap
      <3> QED
        BY <3>1 DEF Selected
    <2> QED
      BY TreeSteps, <2>1, <2>2, <2>3, <2>4, <2>5, <2>6, <2>7
  <1> QED
    BY <1>1, TypeInit, TypeNext, WholeSwapInit, WholeSwapNext, PTL DEF Spec, KeepsServing
-----------------------------------------------------------------------------
(***************************************************************************)
(* Queries.  One that the flag did not flip under walks the tree the flag  *)
(* points at, and the thread only changes the other one.                   *)
(***************************************************************************)
Undisturbed(q) ==
    /\ query[q].pc = "idle" => ~query[q].dirty
    /\ query[q].pc = "walk" /\ query[q].byFlag /\ ~query[q].spans
          => query[q].on = SelectedName /\ ~query[q].dirty

OnTheRightTree == \A q \in Queries : Undisturbed(q)

LEMMA UndisturbedInit == Init => OnTheRightTree
  <1>1. IdleQuery.pc = "idle" /\ ~IdleQuery.dirty
    BY DEF IdleQuery
  <1> QED
    BY <1>1 DEF Init, OnTheRightTree, Undisturbed

\* The thread touches the tree t while the flag points at the other one.
LEMMA DisturbOther ==
    ASSUME TypeOK, OnTheRightTree, NEW t, t # SelectedName,
           query' = Disturb(t), SelectedName' = SelectedName
    PROVE  OnTheRightTree'
  <1> SUFFICES ASSUME NEW q \in Queries PROVE Undisturbed(q)'
    BY DEF OnTheRightTree
  <1>1. query[q] \in QueryType /\ Undisturbed(q)
    BY DEF TypeOK, QueryType, OnTheRightTree
  <1>2. CASE query[q].pc = "walk" /\ query[q].on = t
    <2>1. query'[q] = [query[q] EXCEPT !.dirty = TRUE]
      BY <1>2 DEF Disturb
    <2>2. /\ query'[q].pc = "walk" /\ query'[q].byFlag = query[q].byFlag
          /\ query'[q].spans = query[q].spans
      BY <1>1, <1>2, <2>1 DEF QueryType
    <2> QED
      BY <1>1, <1>2, <2>2 DEF Undisturbed
  <1>3. CASE ~(query[q].pc = "walk" /\ query[q].on = t)
    <2>1. query'[q] = query[q]
      BY <1>3 DEF Disturb
    <2> QED
      BY <1>1, <2>1 DEF Undisturbed
  <1> QED
    BY <1>2, <1>3

LEMMA UndisturbedNext == TypeOK /\ OnTheRightTree /\ [Next]_vars => OnTheRightTree'
  <1> SUFFICES ASSUME TypeOK, OnTheRightTree, [Next]_vars PROVE OnTheRightTree'
    OBVIOUS
  <1>0. /\ query \in [Queries -> QueryType]
        /\ swapFlag <=> pc \in {"clear", "assign", "lower"}
    BY DEF TypeOK, QueryType
  <1>1. CASE UNCHANGED <<query, swapFlag>>
    BY <1>1 DEF OnTheRightTree, Undisturbed, SelectedName
  <1>2. CASE Load \/ DropSwap
    <2>1. query' = Disturb("swap") /\ ~swapFlag /\ swapFlag' = swapFlag
      BY <1>0, <1>2 DEF Load, DropSwap
    <2>2. "swap" # SelectedName /\ SelectedName' = SelectedName
      BY <2>1 DEF SelectedName
    <2> QED
      BY <2>1, <2>2, DisturbOther
  <1>3. CASE ClearTree \/ AssignTree
    <2>1. query' = Disturb("my") /\ swapFlag /\ swapFlag' = swapFlag
      BY <1>0, <1>3 DEF ClearTree, AssignTree
    <2>2. "my" # SelectedName /\ SelectedName' = SelectedName
      BY <2>1 DEF SelectedName
    <2> QED
      BY <2>1, <2>2, DisturbOther
  <1>4. CASE RaiseFlag \/ LowerFlag
    <2> SUFFICES ASSUME NEW q \in Queries PROVE Undisturbed(q)'
      BY DEF OnTheRightTree
    <2>1. query[q] \in QueryType /\ Undisturbed(q)
      BY <1>0 DEF OnTheRightTree
    <2>2. query'[q] = IF query[q].pc = "walk" THEN [query[q] EXCEPT !.spans = TRUE]
                                              ELSE query[q]
      BY <1>4 DEF RaiseFlag, LowerFlag, Span
    <2> QED
      BY <2>1, <2>2 DEF Undisturbed, QueryType
  <1>5. ASSUME NEW r \in Queries, Ask(r) \/ AskMyTree(r) \/ LookAgain(r) \/ Answer(r)
        PROVE  OnTheRightTree'
    <2>1. swapFlag' = swapFlag /\ SelectedName' = SelectedName
      BY <1>5 DEF Ask, AskMyTree, LookAgain, Answer, trees, SelectedName
    <2>2. \A q \in Queries \ {r} : query'[q] = query[q]
      BY <1>0, <1>5 DEF Ask, AskMyTree, LookAgain, Answer
    <2>3. \A q \in Queries \ {r} : Undisturbed(q)'
      BY <2>1, <2>2 DEF OnTheRightTree, Undisturbed
    <2>4. query[r] \in QueryType /\ Undisturbed(r)
      BY <1>0 DEF OnTheRightTree
    <2>5. CASE Ask(r)
      <3>1. query'[r] = [IdleQuery EXCEPT !.pc = "walk", !.on = SelectedName]
        BY <1>0, <2>5 DEF Ask
      <3>2. query'[r].on = SelectedName' /\ query'[r].pc = "walk"
        BY <2>1, <3>1 DEF IdleQuery
      <3>3. Undisturbed(r)'
        BY <3>1, <3>2 DEF Undisturbed, IdleQuery
      <3> QED
        BY <2>3, <3>3 DEF OnTheRightTree
    <2>6. CASE AskMyTree(r)
      <3>1. query'[r] = [IdleQuery EXCEPT !.pc = "walk", !.byFlag = FALSE]
        BY <1>0, <2>6 DEF AskMyTree
      <3> QED
        BY <2>3, <3>1 DEF OnTheRightTree, Undisturbed, IdleQuery
    <2>7. CASE LookAgain(r)
      <3>1. query'[r] = [query[r] EXCEPT !.on = SelectedName,
                                         !.spans = query[r].spans /\ query[r].dirty]
        BY <1>0, <2>7 DEF LookAgain
      <3>2. /\ query'[r].pc = "walk" /\ query'[r].on = SelectedName
            /\ query'[r].byFlag /\ query'[r].dirty = query[r].dirty
            /\ query'[r].spans <=> query[r].spans /\ query[r].dirty
        <4>1. /\ query'[r].pc = query[r].pc /\ query'[r].on = SelectedName
              /\ query'[r].byFlag = query[r].byFlag /\ query'[r].dirty = query[r].dirty
          BY <2>4, <3>1 DEF QueryType
        <4>2. query'[r].spans = (query[r].spans /\ query[r].dirty)
          BY <2>4, <3>1, Zenon DEF QueryType
        <4> QED
          BY <2>7, <4>1, <4>2 DEF LookAgain
      <3>3. query[r].dirty => query[r].spans
        BY <2>4, <2>7 DEF LookAgain, Undisturbed
      <3> QED
        BY <2>1, <2>3, <2>4, <3>2, <3>3 DEF OnTheRightTree, Undisturbed
    <2>8. CASE Answer(r)
      <3>1. query'[r] = IdleQuery
        BY <1>0, <2>8 DEF Answer
      <3> QED
        BY <2>3, <3>1 DEF OnTheRightTree, Undisturbed, IdleQuery
    <2> QED
      BY <1>5, <2>5, <2>6, <2>7, <2>8
  <1>6. CASE Die
    BY <1>6 DEF Die, OnTheRightTree, Undisturbed, IdleQuery
  <1>7. CASE \/ Start \/ Stat \/ Settle \/ LockStore \/ UnlockStore
             \/ Publish \/ OverwriteBegin \/ OverwriteEnd
             \/ WriterLocks \/ WriterUnlocks \/ Tick \/ UNCHANGED vars
    <2>1. UNCHANGED <<query, swapFlag>>
      BY <1>7 DEF Start, Stat, Settle, LockStore, UnlockStore, Publish, OverwriteBegin,
                  OverwriteEnd, WriterLocks, WriterUnlocks, Tick, vars, trees
    <2> QED
      BY <1>1, <2>1
  <1>8. CASE EraseKey
    <2> SUFFICES ASSUME NEW q \in Queries PROVE Undisturbed(q)'
      BY DEF OnTheRightTree
    <2>1. query[q] \in QueryType /\ Undisturbed(q)
      BY <1>0 DEF OnTheRightTree
    <2>2. query'[q] = IF query[q].pc = "walk" /\ query[q].on = "my"
                      THEN [query[q] EXCEPT !.dirty = TRUE, !.spans = TRUE]
                      ELSE query[q]
      BY <1>8 DEF EraseKey
    <2>3. SelectedName' = SelectedName
      BY <1>8 DEF EraseKey, SelectedName, trees
    <2> QED
      BY <2>1, <2>2, <2>3 DEF Undisturbed, QueryType
  <1> QED
    BY <1>2, <1>3, <1>4, <1>5, <1>6, <1>7, <1>8 DEF Next, Reload

\* However many queries run, one whose tree is changed under it either ran
\* across a flip of the flag or an erase, or never looked at the flag.
THEOREM DisturbedByFlipsOnly == Spec => []DisturbedOnlyByFlip
  <1>1. TypeOK /\ OnTheRightTree => DisturbedOnlyByFlip
    BY DEF TypeOK, OnTheRightTree, Undisturbed, DisturbedOnlyByFlip
  <1> QED
    BY <1>1, TypeInit, TypeNext, UndisturbedInit, UndisturbedNext, PTL DEF Spec
=============================================================================
