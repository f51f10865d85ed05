----------------------------- MODULE IoPoolProofs -----------------------------
(***************************************************************************)
(* Theorems about IoPool for any number of threads and clients.            *)
(***************************************************************************)
EXTENDS IoPool, FiniteSetTheorems, TLAPS

\* What queues and threads hold.
Item ==
    [kind : {"accept"}, server : Servers, of : Clients \cup {None},
     at : {"begin", "over", "index", "get", "start"}]
    \cup [kind : {"read", "write", "error"}, of : Clients, at : {"begin", "lock", "unlock"}]

QueuesOK ==
    /\ queue \in [Services -> Seq(Item)]
    /\ thread \in [Services -> Item \cup {Idle}]
    /\ backlog \in [Servers -> Seq(Clients)]

Inv == TypeOK /\ QueuesOK

LEMMA ServersAre == Servers \subseteq Nat \ {0} /\ Len(Acceptors) \in Nat
  <1>1. CASE DataClients = {}
    BY <1>1 DEF Servers, Acceptors
  <1>2. CASE DataClients # {}
    BY <1>2 DEF Servers, Acceptors
  <1> QED
    BY <1>1, <1>2

LEMMA RoundRobin ==
    \A k \in Nat \ {0} : Nth(k) \in Services /\ NextAfter(k) \in 0 .. N
  BY PoolAssumption DEF Nth, NextAfter, Services

LEMMA Posted ==
    ASSUME NEW q \in [Services -> Seq(Item)], NEW s, NEW i \in Item
    PROVE  Post(q, s, i) \in [Services -> Seq(Item)]
  <1>1. \A t \in Services : q[t] \in Seq(Item) /\ Append(q[t], i) \in Seq(Item)
    OBVIOUS
  <1>2. Post(q, s, i) = [t \in Services |-> IF t = s THEN Append(q[t], i) ELSE q[t]]
    BY DEF Post
  <1> QED
    BY <1>1, <1>2

LEMMA Completions ==
    /\ \A c \in Clients, kind \in {"read", "write", "error"} : Completion(kind, c) \in Item
    /\ \A a \in Servers, c \in Clients \cup {None} : Accepted(a, c) \in Item
  BY DEF Completion, Accepted, Item

\* A completion that an io thread takes.
LEMMA TakenTyped ==
    ASSUME Inv, NEW s \in Services, queue[s] # <<>>
    PROVE  /\ Head(queue[s]) \in Item
           /\ Taken(s) \in [Services -> Seq(Item)]
  BY DEF Inv, QueuesOK, Taken

LEMMA ReadAgainTyped ==
    ASSUME Inv, NEW c \in Clients, NEW q \in [Services -> Seq(Item)], ReadAgain(c, q)
    PROVE  /\ queue' \in [Services -> Seq(Item)]
           /\ client' \in [Clients -> {"away", "waiting", "accepted", "open", "sent", "reset"}]
  BY Posted, Completions DEF ReadAgain, Inv, TypeOK

LEMMA ReplyTyped ==
    ASSUME Inv, NEW c \in Clients, NEW q \in [Services -> Seq(Item)], Reply(c, q)
    PROVE  /\ queue' \in [Services -> Seq(Item)]
           /\ client' \in [Clients -> {"away", "waiting", "accepted", "open", "sent", "reset"}]
  <1>1. (IF client[c] = "reset" THEN q ELSE Post(q, home[c], Completion("write", c)))
           \in [Services -> Seq(Item)]
    BY Posted, Completions
  <1> QED
    BY <1>1, ReadAgainTyped DEF Reply
-----------------------------------------------------------------------------
LEMMA InvInit == Init => Inv
  <1> SUFFICES ASSUME Init PROVE Inv
    OBVIOUS
  <1>1. 2 * Len(Acceptors) \in Nat \ {0} /\ \A a \in Servers : 2 * a \in Nat \ {0}
    <2>1. Len(Acceptors) \in {1, 2}
      BY DEF Acceptors
    <2> QED
      BY <2>1, ServersAre
  <1>2. TypeOK
    BY <1>1, RoundRobin, PoolAssumption DEF Init, TypeOK
  <1>3. QueuesOK
    BY DEF Init, QueuesOK
  <1> QED
    BY <1>2, <1>3 DEF Inv

LEMMA ClientNext ==
    ASSUME Inv, NEW c \in Clients, Connect(c) \/ Send(c) \/ Reset(c)
    PROVE  Inv'
  <1> USE DEF Inv, TypeOK
  <1>1. CASE Connect(c)
    <2>1. backlog' \in [Servers -> Seq(Clients)]
      <3>1. \A a \in Servers : backlog[a] \in Seq(Clients) /\ Append(backlog[a], c) \in Seq(Clients)
        BY DEF QueuesOK
      <3>2. backlog' = [a \in Servers |-> IF a = Server(c) THEN Append(backlog[a], c)
                                          ELSE backlog[a]]
        BY <1>1 DEF Connect, QueuesOK
      <3> QED
        BY <3>1, <3>2
    <2> QED
      BY <1>1, <2>1 DEF Connect, QueuesOK
  <1>2. CASE Send(c)
    BY <1>2, Posted, Completions DEF Send, QueuesOK
  <1>3. CASE Reset(c)
    BY <1>3, Posted, Completions DEF Reset, QueuesOK
  <1> QED
    BY <1>1, <1>2, <1>3

LEMMA KernelNext ==
    ASSUME Inv, NEW a \in Servers, Accept(a) \/ AcceptFails(a)
    PROVE  Inv'
  <1> USE DEF Inv, TypeOK
  <1>1. CASE Accept(a)
    <2> DEFINE c == Head(backlog[a])
    <2>1. c \in Clients /\ backlog' \in [Servers -> Seq(Clients)]
      BY <1>1 DEF Accept, QueuesOK
    <2>2. queue' \in [Services -> Seq(Item)]
      BY <1>1, <2>1, Posted, Completions DEF Accept, QueuesOK
    <2>3. /\ client' \in [Clients -> {"away", "waiting", "accepted", "open", "sent", "reset"}]
          /\ home' \in [Clients -> Services \cup {None}]
      BY <1>1, <2>1 DEF Accept
    <2> QED
      BY <1>1, <2>1, <2>2, <2>3 DEF Accept, QueuesOK
  <1>2. CASE AcceptFails(a)
    BY <1>2, Posted, Completions DEF AcceptFails, QueuesOK
  <1> QED
    BY <1>1, <1>2

LEMMA AcceptorNext ==
    ASSUME Inv, NEW s \in Services,
           \/ TestNext(s) \/ StartOver(s) \/ ReadIndex(s) \/ StartAcceptor(s) \/ StartSession(s)
    PROVE  Inv'
  <1> USE DEF Inv, TypeOK
  <1>1. CASE TestNext(s)
    <2>1. Head(queue[s]) \in Item /\ Taken(s) \in [Services -> Seq(Item)]
      BY <1>1, TakenTyped DEF TestNext, Takes
    <2>2. \A at \in {"over", "index"} : [Head(queue[s]) EXCEPT !.at = at] \in Item
      BY <1>1, <2>1 DEF TestNext, Takes, Item
    <2> QED
      BY <1>1, <2>1, <2>2 DEF TestNext, QueuesOK
  <1>2. CASE StartOver(s) \/ ReadIndex(s)
    <2>1. thread[s] \in Item /\ thread[s].kind = "accept"
      BY <1>2 DEF StartOver, ReadIndex, At, QueuesOK, Idle
    <2>2. \A at \in {"index", "get"} : [thread[s] EXCEPT !.at = at] \in Item
      BY <2>1 DEF Item
    <2>3. next' \in 0 .. N /\ reg' \in [Services -> 0 .. N]
      BY <1>2, PoolAssumption DEF StartOver, ReadIndex
    <2>4. PICK at \in {"index", "get"} : thread' = [thread EXCEPT ![s].at = at]
      BY <1>2 DEF StartOver, ReadIndex
    <2>5. thread' \in [Services -> Item \cup {Idle}]
      BY <2>2, <2>4 DEF QueuesOK
    <2>6. UNCHANGED <<alive, slot, armed, queue, backlog, client, home, lock, Bounds>>
      BY <1>2 DEF StartOver, ReadIndex
    <2> QED
      BY <2>3, <2>5, <2>6 DEF QueuesOK
  <1>3. CASE StartAcceptor(s)
    <2>1. thread[s] \in Item /\ thread[s].kind = "accept"
      BY <1>3 DEF StartAcceptor, At, QueuesOK, Idle
    <2>2. thread[s].server \in Servers /\ [thread[s] EXCEPT !.at = "start"] \in Item
      BY <2>1 DEF Item
    <2>3. reg[s] \in Services /\ reg[s] + 1 \in 0 .. N
      BY <1>3, PoolAssumption DEF StartAcceptor, Services
    <2> QED
      BY <1>3, <2>2, <2>3 DEF StartAcceptor, QueuesOK
  <1>4. CASE StartSession(s)
    BY <1>4 DEF StartSession, QueuesOK
  <1> QED
    BY <1>1, <1>2, <1>3, <1>4

LEMMA SessionNext ==
    ASSUME Inv, NEW s \in Services,
           \/ HandlePacket(s) \/ HandleQuery(s) \/ HandleStore(s) \/ HandleWrite(s)
           \/ HandleError(s) \/ LockFile(s) \/ UnlockFile(s) \/ Die(s)
    PROVE  Inv'
  <1> USE DEF Inv, TypeOK
  <1> DEFINE c == Head(queue[s]).of
  <1>1. CASE HandlePacket(s)
    <2>1. c \in Clients /\ Taken(s) \in [Services -> Seq(Item)]
      BY <1>1, TakenTyped DEF HandlePacket, Takes, Clients
    <2> QED
      BY <1>1, <2>1, ReadAgainTyped DEF HandlePacket, QueuesOK
  <1>2. CASE HandleQuery(s)
    <2>1. c \in Clients /\ Taken(s) \in [Services -> Seq(Item)]
      BY <1>2, TakenTyped DEF HandleQuery, Takes, Clients
    <2> QED
      BY <1>2, <2>1, ReplyTyped DEF HandleQuery, QueuesOK
  <1>3. CASE HandleStore(s)
    <2>1. Head(queue[s]) \in Item /\ Taken(s) \in [Services -> Seq(Item)]
      BY <1>3, TakenTyped DEF HandleStore, Takes
    <2>2. [Head(queue[s]) EXCEPT !.at = "lock"] \in Item
      BY <1>3, <2>1 DEF HandleStore, Takes, Item
    <2> QED
      BY <1>3, <2>1, <2>2 DEF HandleStore, QueuesOK
  <1>4. CASE HandleWrite(s)
    <2>1. Head(queue[s]) \in Item /\ Taken(s) \in [Services -> Seq(Item)]
      BY <1>4, TakenTyped DEF HandleWrite, Takes
    <2> QED
      BY <1>4, <2>1, Posted DEF HandleWrite, QueuesOK
  <1>5. CASE HandleError(s)
    <2>1. Taken(s) \in [Services -> Seq(Item)]
      BY <1>5, TakenTyped DEF HandleError, Takes
    <2> QED
      BY <1>5, <2>1 DEF HandleError, QueuesOK
  <1>6. CASE LockFile(s)
    <2>1. thread[s] \in Item /\ thread[s].kind = "read"
      BY <1>6 DEF LockFile, At, QueuesOK, Idle
    <2>2. [thread[s] EXCEPT !.at = "unlock"] \in Item
      BY <2>1 DEF Item
    <2> QED
      BY <1>6, <2>2 DEF LockFile, QueuesOK
  <1>7. CASE UnlockFile(s)
    <2>1. thread[s] \in Item /\ thread[s].kind = "read"
      BY <1>7 DEF UnlockFile, At, QueuesOK, Idle
    <2>2. thread[s].of \in Clients
      BY <2>1 DEF Item
    <2> QED
      BY <1>7, <2>2, ReplyTyped DEF UnlockFile, QueuesOK
  <1>8. CASE Die(s)
    BY <1>8 DEF Die, QueuesOK
  <1> QED
    BY <1>1, <1>2, <1>3, <1>4, <1>5, <1>6, <1>7, <1>8

LEMMA InvNext == Inv /\ [Next]_poolVars => Inv'
  <1> SUFFICES ASSUME Inv, [Next]_poolVars PROVE Inv'
    OBVIOUS
  <1>1. CASE OtherLocks \/ OtherUnlocks
    BY <1>1 DEF OtherLocks, OtherUnlocks, Inv, TypeOK, QueuesOK
  <1>2. CASE UNCHANGED poolVars
    BY <1>2 DEF poolVars, Inv, TypeOK, QueuesOK
  <1> QED
    BY <1>1, <1>2, ClientNext, KernelNext, AcceptorNext, SessionNext DEF Next, IoThread

\* Every variable keeps its type, for any number of io threads: a session that is
\* made has an io_service of the pool, whoever finds none in get() dies.
THEOREM TypeCorrect == Spec => []TypeOK
  <1>1. Inv => TypeOK
    BY DEF Inv
  <1> QED
    BY <1>1, InvInit, InvNext, PTL DEF Spec
-----------------------------------------------------------------------------
(***************************************************************************)
(* One operation at a time.  The completions of a set K are counted by     *)
(* where they are, in the queues q and the threads th: nowhere, in at most *)
(* one place, in exactly one.                                              *)
(***************************************************************************)
Nowhere(K, q, th) ==
    /\ \A s \in Services : th[s] \notin K
    /\ \A s \in Services : \A i \in 1 .. Len(q[s]) : q[s][i] \notin K

Unique(K, q, th) ==
    /\ \A s, t \in Services : th[s] \in K /\ th[t] \in K => s = t
    /\ \A s, t \in Services : \A i \in 1 .. Len(q[s]), j \in 1 .. Len(q[t]) :
          q[s][i] \in K /\ q[t][j] \in K => s = t /\ i = j
    /\ \A s, t \in Services : \A j \in 1 .. Len(q[t]) : ~(th[s] \in K /\ q[t][j] \in K)

Once(K, q, th) == Unique(K, q, th) /\ ~Nowhere(K, q, th)

\* A step to r and uh neither adds nor takes a completion of K.
Kept(K, q, th, r, uh) ==
    /\ Nowhere(K, q, th) => Nowhere(K, r, uh)
    /\ Unique(K, q, th) => Unique(K, r, uh)
    /\ Once(K, q, th) => Once(K, r, uh)

LEMMA PostedAt ==
    ASSUME NEW q \in [Services -> Seq(Item)], NEW s \in Services, NEW item \in Item
    PROVE  /\ \A t \in Services \ {s} : Post(q, s, item)[t] = q[t]
           /\ Len(q[s]) \in Nat /\ Len(Post(q, s, item)[s]) = Len(q[s]) + 1
           /\ \A i \in 1 .. Len(q[s]) : Post(q, s, item)[s][i] = q[s][i]
           /\ Post(q, s, item)[s][Len(q[s]) + 1] = item
  BY DEF Post

\* A completion outside of K is posted, or one of K when there is none.
LEMMA PostOther ==
    ASSUME NEW K, NEW q \in [Services -> Seq(Item)], NEW th,
           NEW s \in Services, NEW item \in Item \ K
    PROVE  Kept(K, q, th, Post(q, s, item), th)
  <1> DEFINE r == Post(q, s, item)
  <1>1. /\ \A t \in Services \ {s} : r[t] = q[t]
        /\ Len(q[s]) \in Nat /\ Len(r[s]) = Len(q[s]) + 1
        /\ \A i \in 1 .. Len(q[s]) : r[s][i] = q[s][i]
        /\ r[s][Len(q[s]) + 1] = item
    BY PostedAt
  <1> HIDE DEF r
  <1>2. \A t \in Services : \A i \in 1 .. Len(q[t]) : i \in 1 .. Len(r[t]) /\ r[t][i] = q[t][i]
    BY <1>1
  <1>3. \A t \in Services : \A i \in 1 .. Len(r[t]) :
            r[t][i] \in K => i \in 1 .. Len(q[t]) /\ r[t][i] = q[t][i]
    BY <1>1
  <1>4. Nowhere(K, q, th) <=> Nowhere(K, r, th)
    BY <1>2, <1>3 DEF Nowhere
  <1>5. ASSUME Unique(K, q, th) PROVE Unique(K, r, th)
    <2>1. ASSUME NEW t \in Services, NEW u \in Services,
                 NEW i \in 1 .. Len(r[t]), NEW j \in 1 .. Len(r[u]), r[t][i] \in K, r[u][j] \in K
          PROVE  t = u /\ i = j
      <3>1. i \in 1 .. Len(q[t]) /\ q[t][i] \in K /\ j \in 1 .. Len(q[u]) /\ q[u][j] \in K
        BY <1>3, <2>1
      <3> QED
        BY <1>5, <3>1 DEF Unique
    <2>2. ASSUME NEW t \in Services, NEW u \in Services, NEW j \in 1 .. Len(r[u]),
                 th[t] \in K, r[u][j] \in K
          PROVE  FALSE
      <3>1. j \in 1 .. Len(q[u]) /\ q[u][j] \in K
        BY <1>3, <2>2
      <3> QED
        BY <1>5, <2>2, <3>1 DEF Unique
    <2>3. \A t, u \in Services : th[t] \in K /\ th[u] \in K => t = u
      BY <1>5 DEF Unique
    <2> QED
      BY <2>1, <2>2, <2>3 DEF Unique
  <1> QED
    BY <1>4, <1>5 DEF Kept, Once, r

LEMMA PostFirst ==
    ASSUME NEW K, NEW q \in [Services -> Seq(Item)], NEW th,
           NEW s \in Services, NEW item \in Item \cap K, Nowhere(K, q, th)
    PROVE  Once(K, Post(q, s, item), th)
  <1> DEFINE r == Post(q, s, item)
  <1>1. /\ \A t \in Services \ {s} : r[t] = q[t]
        /\ Len(q[s]) \in Nat /\ Len(r[s]) = Len(q[s]) + 1
        /\ \A i \in 1 .. Len(q[s]) : r[s][i] = q[s][i]
        /\ r[s][Len(q[s]) + 1] = item
    BY PostedAt
  <1> HIDE DEF r
  <1>2. \A t \in Services : \A i \in 1 .. Len(r[t]) : r[t][i] \in K => t = s /\ i = Len(q[s]) + 1
    BY <1>1 DEF Nowhere
  <1>3. Len(q[s]) + 1 \in 1 .. Len(r[s])
    BY <1>1
  <1>4. Unique(K, r, th)
    BY <1>2 DEF Unique, Nowhere
  <1>5. ~Nowhere(K, r, th)
    BY <1>1, <1>3 DEF Nowhere
  <1> QED
    BY <1>4, <1>5 DEF Once, r

\* Thread s takes the first completion of its queue and goes on with x.
LEMMA TakenAt ==
    ASSUME NEW q \in [Services -> Seq(Item)], NEW s \in Services, q[s] # <<>>
    PROVE  LET r == [q EXCEPT ![s] = Tail(@)] IN
           /\ \A t \in Services \ {s} : r[t] = q[t]
           /\ Len(q[s]) \in Nat \ {0} /\ Len(r[s]) = Len(q[s]) - 1
           /\ \A i \in 1 .. Len(q[s]) - 1 : r[s][i] = q[s][i + 1]
           /\ Head(q[s]) = q[s][1]
  OBVIOUS

LEMMA TakeOne ==
    ASSUME NEW K, NEW q \in [Services -> Seq(Item)], NEW th \in [Services -> Item \cup {Idle}],
           NEW s \in Services, q[s] # <<>>, th[s] \notin K, NEW x,
           x \in K <=> Head(q[s]) \in K
    PROVE  Kept(K, q, th, [q EXCEPT ![s] = Tail(@)], [th EXCEPT ![s] = x])
  <1> DEFINE r == [q EXCEPT ![s] = Tail(@)]
             uh == [th EXCEPT ![s] = x]
  <1>1. /\ \A t \in Services \ {s} : r[t] = q[t]
        /\ Len(q[s]) \in Nat \ {0} /\ Len(r[s]) = Len(q[s]) - 1
        /\ \A i \in 1 .. Len(q[s]) - 1 : r[s][i] = q[s][i + 1]
        /\ Head(q[s]) = q[s][1]
    BY TakenAt
  <1>2. uh[s] = x /\ \A t \in Services \ {s} : uh[t] = th[t]
    OBVIOUS
  <1> HIDE DEF r, uh
  <1> DEFINE Old(t, i) == IF t = s THEN i + 1 ELSE i
  <1>3. \A t \in Services : \A i \in 1 .. Len(r[t]) :
            Old(t, i) \in 1 .. Len(q[t]) /\ r[t][i] = q[t][Old(t, i)]
    BY <1>1
  <1>4. \A t \in Services : \A i \in 1 .. Len(q[t]) :
            (t = s /\ i = 1) \/ \E j \in 1 .. Len(r[t]) : i = Old(t, j) /\ r[t][j] = q[t][i]
    <2> SUFFICES ASSUME NEW t \in Services, NEW i \in 1 .. Len(q[t]), ~(t = s /\ i = 1)
                 PROVE  \E j \in 1 .. Len(r[t]) : i = Old(t, j) /\ r[t][j] = q[t][i]
      OBVIOUS
    <2>1. CASE t = s
      <3>1. i - 1 \in 1 .. Len(r[t]) /\ (i - 1) + 1 = i /\ r[t][i - 1] = q[t][i]
        BY <1>1, <2>1
      <3> QED
        BY <2>1, <3>1
    <2>2. CASE t # s
      BY <1>1, <2>2
    <2> QED
      BY <2>1, <2>2
  <1>5. 1 \in 1 .. Len(q[s]) /\ (x \in K <=> q[s][1] \in K)
    BY <1>1
  <1>6. Nowhere(K, q, th) <=> Nowhere(K, r, uh)
    <2>1. ASSUME Nowhere(K, q, th) PROVE Nowhere(K, r, uh)
      <3>1. \A t \in Services : uh[t] \notin K
        BY <1>2, <1>5, <2>1 DEF Nowhere
      <3>2. ASSUME NEW t \in Services, NEW i \in 1 .. Len(r[t]) PROVE r[t][i] \notin K
        <4> HIDE DEF Old
        <4>1. Old(t, i) \in 1 .. Len(q[t]) /\ r[t][i] = q[t][Old(t, i)]
          BY <1>3
        <4> QED
          BY <2>1, <4>1 DEF Nowhere
      <3> QED
        BY <3>1, <3>2 DEF Nowhere
    <2>2. ASSUME Nowhere(K, r, uh) PROVE Nowhere(K, q, th)
      <3>1. \A t \in Services : th[t] \notin K
        BY <1>2, <2>2 DEF Nowhere
      <3>2. ASSUME NEW t \in Services, NEW i \in 1 .. Len(q[t]) PROVE q[t][i] \notin K
        <4>1. CASE t = s /\ i = 1
          BY <1>2, <1>5, <2>2, <4>1 DEF Nowhere
        <4>2. CASE ~(t = s /\ i = 1)
          <5> HIDE DEF Old
          <5>1. PICK j \in 1 .. Len(r[t]) : r[t][j] = q[t][i]
            BY <1>4, <4>2
          <5> QED
            BY <2>2, <5>1 DEF Nowhere
        <4> QED
          BY <4>1, <4>2
      <3> QED
        BY <3>1, <3>2 DEF Nowhere
    <2> QED
      BY <2>1, <2>2
  <1>7. ASSUME Unique(K, q, th) PROVE Unique(K, r, uh)
    <2>1. \A t, u \in Services : uh[t] \in K /\ uh[u] \in K => t = u
      BY <1>2, <1>5, <1>7 DEF Unique
    <2>2. ASSUME NEW t \in Services, NEW u \in Services,
                 NEW i \in 1 .. Len(r[t]), NEW j \in 1 .. Len(r[u]), r[t][i] \in K, r[u][j] \in K
          PROVE  t = u /\ i = j
      <3>1. t = u /\ Old(t, i) = Old(u, j)
        <4> HIDE DEF Old
        <4>1. /\ Old(t, i) \in 1 .. Len(q[t]) /\ q[t][Old(t, i)] \in K
              /\ Old(u, j) \in 1 .. Len(q[u]) /\ q[u][Old(u, j)] \in K
          BY <1>3, <2>2
        <4> QED
          BY <1>7, <4>1 DEF Unique
      <3>2. i \in Int /\ j \in Int
        OBVIOUS
      <3> QED
        BY <3>1, <3>2
    <2>3. ASSUME NEW t \in Services, NEW u \in Services, NEW j \in 1 .. Len(r[u]),
                 uh[t] \in K, r[u][j] \in K
          PROVE  FALSE
      <3>1. Old(u, j) \in 1 .. Len(q[u]) /\ q[u][Old(u, j)] \in K
        BY <1>3, <2>3
      <3>2. CASE t # s
        BY <1>2, <1>7, <2>3, <3>1, <3>2 DEF Unique
      <3>3. CASE t = s
        <4>1. q[s][1] \in K
          BY <1>2, <1>5, <2>3, <3>3
        <4>2. u = s /\ Old(u, j) = 1
          BY <1>5, <1>7, <3>1, <4>1 DEF Unique
        <4>3. j \in Int /\ j >= 1
          OBVIOUS
        <4> QED
          BY <4>2, <4>3
      <3> QED
        BY <3>2, <3>3
    <2> QED
      BY <2>1, <2>2, <2>3 DEF Unique
  <1> QED
    BY <1>6, <1>7 DEF Kept, Once, r, uh

\* It takes the only completion of K and does not keep it.
LEMMA TakeLast ==
    ASSUME NEW K, NEW q \in [Services -> Seq(Item)], NEW th,
           NEW s \in Services, q[s] # <<>>, Head(q[s]) \in K, Unique(K, q, th)
    PROVE  Nowhere(K, [q EXCEPT ![s] = Tail(@)], th)
  <1> DEFINE r == [q EXCEPT ![s] = Tail(@)]
  <1>1. /\ \A t \in Services \ {s} : r[t] = q[t]
        /\ Len(q[s]) \in Nat \ {0} /\ Len(r[s]) = Len(q[s]) - 1
        /\ \A i \in 1 .. Len(q[s]) - 1 : r[s][i] = q[s][i + 1]
        /\ Head(q[s]) = q[s][1]
    BY TakenAt
  <1> HIDE DEF r
  <1>2. 1 \in 1 .. Len(q[s]) /\ q[s][1] \in K
    BY <1>1
  <1>3. \A t \in Services : th[t] \notin K
    BY <1>2 DEF Unique
  <1>4. ASSUME NEW t \in Services, NEW i \in 1 .. Len(r[t]), r[t][i] \in K PROVE FALSE
    <2>1. CASE t = s
      <3>1. i + 1 \in 1 .. Len(q[s]) /\ q[s][i + 1] \in K /\ i + 1 # 1
        BY <1>1, <1>4, <2>1
      <3> QED
        BY <1>2, <3>1 DEF Unique
    <2>2. CASE t # s
      BY <1>1, <1>2, <1>4, <2>2 DEF Unique
    <2> QED
      BY <2>1, <2>2
  <1> QED
    BY <1>3, <1>4 DEF Nowhere, r

\* A thread goes on, still with a completion of K or with none as before.
LEMMA ThreadGoesOn ==
    ASSUME NEW K, NEW q, NEW th \in [Services -> Item \cup {Idle}], NEW s \in Services, NEW x,
           x \in K <=> th[s] \in K
    PROVE  Kept(K, q, th, q, [th EXCEPT ![s] = x])
  <1> DEFINE uh == [th EXCEPT ![s] = x]
  <1>1. \A t \in Services : uh[t] \in K <=> th[t] \in K
    OBVIOUS
  <1> HIDE DEF uh
  <1> QED
    BY <1>1 DEF Kept, Once, Unique, Nowhere, uh

LEMMA ThreadIsDone ==
    ASSUME NEW K, NEW q, NEW th \in [Services -> Item \cup {Idle}], NEW s \in Services,
           NEW x, x \notin K, th[s] \in K, Unique(K, q, th)
    PROVE  Nowhere(K, q, [th EXCEPT ![s] = x])
  <1>1. \A t \in Services : [th EXCEPT ![s] = x][t] \notin K
    BY DEF Unique
  <1> QED
    BY <1>1 DEF Unique, Nowhere

LEMMA KeptOn ==
    ASSUME NEW K, NEW q, NEW th, NEW r, NEW uh, NEW w, NEW vh,
           Kept(K, q, th, r, uh), Kept(K, r, uh, w, vh)
    PROVE  Kept(K, q, th, w, vh)
  BY DEF Kept

LEMMA KeptSame == \A K, q, th : Kept(K, q, th, q, th)
  BY DEF Kept

\* The completions that count: of an accept until its acceptor listens again,
\* of a session all but the writes of the empty buffer.
AcceptsOf(a) == {i \in Item : i.kind = "accept" /\ i.server = a /\ i.at # "start"}
TurnsOf(c) == {i \in Item : i.of = c /\ i.kind # "write"}
Kinds == {AcceptsOf(a) : a \in Servers} \cup {TurnsOf(c) : c \in Clients}
KindsBut(c) == {AcceptsOf(a) : a \in Servers} \cup {TurnsOf(d) : d \in Clients \ {c}}

LEMMA IdleIsNone == \A K \in Kinds : Idle \notin K
  BY PoolAssumption DEF Kinds, AcceptsOf, TurnsOf, Item, Idle

\* What concerns a session concerns no acceptor and no other session.
LEMMA OfOneSession ==
    ASSUME NEW i \in Item, i.kind # "accept"
    PROVE  /\ i.of \in Clients
           /\ \A K \in KindsBut(i.of) : i \notin K
           /\ i.kind # "write" => i \in TurnsOf(i.of)
           /\ i.kind = "write" => \A K \in Kinds : i \notin K
  BY DEF KindsBut, Kinds, AcceptsOf, TurnsOf, Item

\* Wherever a command or an accept is, it belongs to the same.
LEMMA SameKinds ==
    ASSUME NEW i \in Item, NEW at, [i EXCEPT !.at = at] \in Item,
           i.kind = "accept" => i.at # "start" /\ at # "start"
    PROVE  \A K \in Kinds : [i EXCEPT !.at = at] \in K <=> i \in K
  BY DEF Kinds, AcceptsOf, TurnsOf, Item

LEMMA CompletionsAre ==
    /\ \A c \in Clients, kind \in {"read", "write", "error"} :
          /\ Completion(kind, c) \in Item /\ Completion(kind, c).kind = kind
          /\ Completion(kind, c).of = c /\ Completion(kind, c).at = "begin"
    /\ \A a \in Servers, c \in Clients \cup {None} :
          /\ Accepted(a, c) \in Item /\ Accepted(a, c).kind = "accept"
          /\ Accepted(a, c).of = c /\ Accepted(a, c).at = "begin"
          /\ Accepted(a, c) \in AcceptsOf(a)
          /\ \A b \in Servers \ {a} : Accepted(a, c) \notin AcceptsOf(b)
          /\ \A d \in Clients : Accepted(a, c) \in TurnsOf(d) <=> c = d
  BY PoolAssumption DEF Completion, Accepted, Item, AcceptsOf, TurnsOf
-----------------------------------------------------------------------------
(***************************************************************************)
(* The invariant: besides the counts, that the backlogs hold every waiting *)
(* client once, that a session has an io_service, that only threads have   *)
(* completions that are past their beginning, and that reads fail only for *)
(* clients that have reset.                                                *)
(***************************************************************************)
ListeningOK(a) ==
    IF a \in armed THEN Nowhere(AcceptsOf(a), queue, thread)
    ELSE Once(AcceptsOf(a), queue, thread)

SessionOK(c) ==
    /\ client[c] \in {"accepted", "sent"} => Once(TurnsOf(c), queue, thread)
    /\ client[c] = "reset" => Unique(TurnsOf(c), queue, thread)
    /\ client[c] \notin {"accepted", "sent", "reset"} => Nowhere(TurnsOf(c), queue, thread)

HomesOK == \A c \in Clients : client[c] \notin {"away", "waiting"} => home[c] \in Services

BacklogOK ==
    /\ \A a \in Servers : \A i \in 1 .. Len(backlog[a]) : client[backlog[a][i]] = "waiting"
    /\ \A a, b \in Servers : \A i \in 1 .. Len(backlog[a]), j \in 1 .. Len(backlog[b]) :
          backlog[a][i] = backlog[b][j] => a = b /\ i = j

\* Of the queues q and the clients cl.
BeginOK(q, cl) ==
    \A s \in Services : \A i \in 1 .. Len(q[s]) :
        /\ q[s][i].at = "begin"
        /\ q[s][i].kind = "error" => cl[q[s][i].of] = "reset"

CountsOK == (\A a \in Servers : ListeningOK(a)) /\ (\A c \in Clients : SessionOK(c))

OneInv == CountsOK /\ HomesOK /\ BacklogOK /\ BeginOK(queue, client)

LEMMA SessionUnique ==
    ASSUME NEW c \in Clients, SessionOK(c)
    PROVE  Unique(TurnsOf(c), queue, thread)
  BY DEF SessionOK, Unique, Nowhere, Once

\* A step after which all is counted as before.
LEMMA CountsKept ==
    ASSUME CountsOK, \A K \in Kinds : Kept(K, queue, thread, queue', thread'),
           armed' = armed, client' = client
    PROVE  CountsOK'
  BY DEF CountsOK, ListeningOK, SessionOK, Kinds, Kept

\* One that changes what there is of session c only.
LEMMA CountsButSession ==
    ASSUME CountsOK, NEW c \in Clients,
           \A K \in KindsBut(c) : Kept(K, queue, thread, queue', thread'),
           armed' = armed, \A d \in Clients \ {c} : client'[d] = client[d],
           SessionOK(c)'
    PROVE  CountsOK'
  BY DEF CountsOK, ListeningOK, SessionOK, KindsBut, Kept

LEMMA BeginPost ==
    ASSUME NEW q \in [Services -> Seq(Item)], NEW s \in Services, NEW i \in Item,
           NEW cl, BeginOK(q, cl), i.at = "begin", i.kind = "error" => cl[i.of] = "reset"
    PROVE  BeginOK(Post(q, s, i), cl)
  <1> DEFINE r == Post(q, s, i)
  <1>1. /\ \A t \in Services \ {s} : r[t] = q[t]
        /\ Len(q[s]) \in Nat /\ Len(r[s]) = Len(q[s]) + 1
        /\ \A j \in 1 .. Len(q[s]) : r[s][j] = q[s][j]
        /\ r[s][Len(q[s]) + 1] = i
    BY PostedAt
  <1> HIDE DEF r
  <1>2. ASSUME NEW t \in Services, NEW j \in 1 .. Len(r[t])
        PROVE  r[t][j].at = "begin" /\ (r[t][j].kind = "error" => cl[r[t][j].of] = "reset")
    <2>1. CASE t # s
      BY <1>1, <2>1 DEF BeginOK
    <2>2. CASE t = s /\ j = Len(q[s]) + 1
      BY <1>1, <2>2
    <2>3. CASE t = s /\ j # Len(q[s]) + 1
      <3>1. j \in 1 .. Len(q[s])
        BY <1>1, <2>3
      <3>2. r[t][j] = q[s][j]
        BY <1>1, <2>3, <3>1
      <3> QED
        BY <3>1, <3>2 DEF BeginOK
    <2> QED
      BY <2>1, <2>2, <2>3
  <1>3. BeginOK(r, cl)
    BY <1>2 DEF BeginOK
  <1> QED
    BY <1>3 DEF r

LEMMA BeginTake ==
    ASSUME NEW q \in [Services -> Seq(Item)], NEW s \in Services, q[s] # <<>>,
           NEW cl, BeginOK(q, cl)
    PROVE  /\ BeginOK([q EXCEPT ![s] = Tail(@)], cl)
           /\ Head(q[s]).at = "begin"
           /\ Head(q[s]).kind = "error" => cl[Head(q[s]).of] = "reset"
  <1> DEFINE r == [q EXCEPT ![s] = Tail(@)]
  <1>1. /\ \A t \in Services \ {s} : r[t] = q[t]
        /\ Len(q[s]) \in Nat \ {0} /\ Len(r[s]) = Len(q[s]) - 1
        /\ \A i \in 1 .. Len(q[s]) - 1 : r[s][i] = q[s][i + 1]
        /\ Head(q[s]) = q[s][1]
    BY TakenAt
  <1> HIDE DEF r
  <1>2. 1 \in 1 .. Len(q[s]) /\ \A i \in 1 .. Len(r[s]) : i + 1 \in 1 .. Len(q[s])
    BY <1>1
  <1>3. ASSUME NEW t \in Services, NEW i \in 1 .. Len(r[t])
        PROVE  r[t][i].at = "begin" /\ (r[t][i].kind = "error" => cl[r[t][i].of] = "reset")
    <2>1. CASE t = s
      <3>1. i + 1 \in 1 .. Len(q[s]) /\ r[t][i] = q[s][i + 1]
        BY <1>1, <1>2, <2>1
      <3> QED
        BY <3>1 DEF BeginOK
    <2>2. CASE t # s
      BY <1>1, <2>2 DEF BeginOK
    <2> QED
      BY <2>1, <2>2
  <1>4. Head(q[s]).at = "begin" /\ (Head(q[s]).kind = "error" => cl[Head(q[s]).of] = "reset")
    BY <1>1, <1>2 DEF BeginOK
  <1> QED
    BY <1>3, <1>4 DEF BeginOK, r

LEMMA BeginClients ==
    ASSUME NEW q \in [Services -> Seq(Item)], NEW cl, BeginOK(q, cl), NEW cm,
           \A c \in Clients : cl[c] = "reset" => cm[c] = "reset"
    PROVE  BeginOK(q, cm)
  <1>1. \A s \in Services : \A i \in 1 .. Len(q[s]) :
            q[s][i] \in Item /\ (q[s][i].kind = "error" => q[s][i].of \in Clients)
    <2>1. \A i \in Item : i.kind = "error" => i.of \in Clients
      BY DEF Item
    <2> QED
      BY <2>1
  <1> QED
    BY <1>1 DEF BeginOK
-----------------------------------------------------------------------------
LEMMA OneInit == Init => OneInv
  <1> SUFFICES ASSUME Init PROVE OneInv
    OBVIOUS
  <1>1. ASSUME NEW K \in Kinds PROVE Nowhere(K, queue, thread)
    BY <1>1, IdleIsNone DEF Init, Nowhere
  <1>2. CountsOK
    BY <1>1 DEF Init, CountsOK, ListeningOK, SessionOK, Kinds
  <1>3. HomesOK /\ BacklogOK /\ BeginOK(queue, client)
    BY DEF Init, HomesOK, BacklogOK, BeginOK
  <1> QED
    BY <1>2, <1>3 DEF OneInv

\* What is posted leaves the completions of other kinds as they are.
LEMMA PostKeeps ==
    ASSUME NEW q \in [Services -> Seq(Item)], NEW th, NEW s \in Services,
           NEW c \in Clients, NEW kind \in {"read", "write", "error"}
    PROVE  /\ \A K \in KindsBut(c) : Kept(K, q, th, Post(q, s, Completion(kind, c)), th)
           /\ kind = "write" =>
                \A K \in Kinds : Kept(K, q, th, Post(q, s, Completion(kind, c)), th)
           /\ kind # "write" /\ Nowhere(TurnsOf(c), q, th) =>
                Once(TurnsOf(c), Post(q, s, Completion(kind, c)), th)
  <1>1. /\ Completion(kind, c) \in Item /\ Completion(kind, c).kind = kind
        /\ Completion(kind, c).of = c
    BY CompletionsAre
  <1>2. /\ \A K \in KindsBut(c) : Completion(kind, c) \notin K
        /\ kind # "write" => Completion(kind, c) \in TurnsOf(c)
        /\ kind = "write" => \A K \in Kinds : Completion(kind, c) \notin K
    BY <1>1, OfOneSession
  <1> QED
    BY <1>1, <1>2, PostOther, PostFirst

LEMMA ConnectOne ==
    ASSUME Inv, OneInv, NEW c \in Clients, Connect(c)
    PROVE  OneInv'
  <1> USE DEF Inv, TypeOK, QueuesOK
  <1>1. CountsOK'
    <2>1. SessionOK(c)'
      BY DEF Connect, OneInv, CountsOK, SessionOK
    <2>2. \A K : Kept(K, queue, thread, queue', thread')
      BY KeptSame DEF Connect
    <2> QED
      BY <2>1, <2>2, CountsButSession DEF Connect, OneInv
  <1>2. HomesOK'
    BY DEF Connect, OneInv, HomesOK
  <1>3. BacklogOK'
    <2> DEFINE a == Server(c)
               New(b, i) == b = a /\ i = Len(backlog[a]) + 1
    <2>1. \A b \in Servers : \A i \in 1 .. Len(backlog'[b]) :
              IF New(b, i) THEN backlog'[b][i] = c
              ELSE i \in 1 .. Len(backlog[b]) /\ backlog'[b][i] = backlog[b][i]
      <3> SUFFICES ASSUME NEW b \in Servers, NEW i \in 1 .. Len(backlog'[b])
                   PROVE  IF New(b, i) THEN backlog'[b][i] = c
                          ELSE i \in 1 .. Len(backlog[b]) /\ backlog'[b][i] = backlog[b][i]
        OBVIOUS
      <3>1. backlog[b] \in Seq(Clients)
        OBVIOUS
      <3>2. backlog'[b] = IF b = a THEN Append(backlog[b], c) ELSE backlog[b]
        BY DEF Connect
      <3> HIDE DEF a
      <3> QED
        BY <3>1, <3>2
    <2>2. \A b \in Servers : \A i \in 1 .. Len(backlog[b]) :
              client[backlog[b][i]] = "waiting" /\ backlog[b][i] # c /\ backlog[b][i] \in Clients
      BY DEF Connect, OneInv, BacklogOK
    <2>3. \A b \in Servers : \A i \in 1 .. Len(backlog'[b]) : client'[backlog'[b][i]] = "waiting"
      <3>1. client'[c] = "waiting" /\ \A d \in Clients \ {c} : client'[d] = client[d]
        BY DEF Connect
      <3> HIDE DEF New, Inv
      <3> SUFFICES ASSUME NEW b \in Servers, NEW i \in 1 .. Len(backlog'[b])
                   PROVE  client'[backlog'[b][i]] = "waiting"
        OBVIOUS
      <3>2. CASE New(b, i)
        BY <2>1, <3>1, <3>2
      <3>3. CASE ~New(b, i)
        BY <2>1, <2>2, <3>1, <3>3
      <3> QED
        BY <3>2, <3>3
    <2>4. ASSUME NEW b \in Servers, NEW d \in Servers,
                 NEW i \in 1 .. Len(backlog'[b]), NEW j \in 1 .. Len(backlog'[d]),
                 backlog'[b][i] = backlog'[d][j]
          PROVE  b = d /\ i = j
      <3>1. CASE New(b, i) \/ New(d, j)
        <4>1. New(b, i) /\ New(d, j)
          <5> HIDE DEF New, Inv
          <5>1. ASSUME New(b, i), ~New(d, j) PROVE FALSE
            BY <2>1, <2>2, <2>4, <5>1
          <5>2. ASSUME New(d, j), ~New(b, i) PROVE FALSE
            BY <2>1, <2>2, <2>4, <5>2
          <5> QED
            BY <3>1, <5>1, <5>2
        <4> QED
          BY <4>1
      <3>2. CASE ~New(b, i) /\ ~New(d, j)
        <4> HIDE DEF New
        <4>1. /\ i \in 1 .. Len(backlog[b]) /\ backlog'[b][i] = backlog[b][i]
              /\ j \in 1 .. Len(backlog[d]) /\ backlog'[d][j] = backlog[d][j]
          BY <2>1, <3>2
        <4> HIDE DEF Inv
        <4>2. backlog[b][i] = backlog[d][j]
          BY <2>4, <4>1
        <4> QED
          BY <4>1, <4>2 DEF OneInv, BacklogOK
      <3> QED
        BY <3>1, <3>2
    <2> QED
      BY <2>3, <2>4 DEF BacklogOK
  <1>4. BeginOK(queue', client')
    <2>1. \A d \in Clients : client[d] = "reset" => client'[d] = "reset"
      BY DEF Connect
    <2> QED
      BY <2>1, BeginClients DEF Connect, OneInv
  <1> QED
    BY <1>1, <1>2, <1>3, <1>4 DEF OneInv

\* A client that is not in a backlog does something else.
LEMMA BacklogStays ==
    ASSUME BacklogOK, QueuesOK, NEW c \in Clients, client[c] # "waiting", backlog' = backlog,
           \A d \in Clients \ {c} : client'[d] = client[d]
    PROVE  BacklogOK'
  <1>1. \A a \in Servers : \A i \in 1 .. Len(backlog[a]) : backlog[a][i] \in Clients \ {c}
    BY DEF BacklogOK, QueuesOK
  <1> QED
    BY <1>1 DEF BacklogOK

LEMMA SendOne ==
    ASSUME Inv, OneInv, NEW c \in Clients, Send(c)
    PROVE  OneInv'
  <1> USE DEF Inv, TypeOK, QueuesOK
  <1>0. /\ home[c] \in Services /\ client[c] = "open" /\ client'[c] = "sent"
        /\ \A d \in Clients \ {c} : client'[d] = client[d]
        /\ queue' = Post(queue, home[c], Completion("read", c)) /\ thread' = thread
    BY DEF Send, OneInv, HomesOK
  <1>1. CountsOK'
    <2>1. Nowhere(TurnsOf(c), queue, thread)
      BY <1>0 DEF OneInv, CountsOK, SessionOK
    <2>2. SessionOK(c)'
      BY <1>0, <2>1, PostKeeps DEF SessionOK
    <2>3. \A K \in KindsBut(c) : Kept(K, queue, thread, queue', thread')
      BY <1>0, PostKeeps
    <2> QED
      BY <1>0, <2>2, <2>3, CountsButSession DEF Send, OneInv
  <1>2. HomesOK'
    BY <1>0 DEF Send, OneInv, HomesOK
  <1>3. BacklogOK'
    BY <1>0, BacklogStays DEF Send, OneInv
  <1>4. BeginOK(queue', client')
    <2>1. BeginOK(queue, client')
      <3>1. \A d \in Clients : client[d] = "reset" => client'[d] = "reset"
        BY <1>0
      <3>2. queue \in [Services -> Seq(Item)] /\ BeginOK(queue, client)
        BY DEF OneInv
      <3> QED
        BY <3>1, <3>2, BeginClients
    <2>2. /\ Completion("read", c) \in Item /\ Completion("read", c).at = "begin"
          /\ Completion("read", c).kind = "read"
      BY CompletionsAre
    <2> QED
      BY <1>0, <2>1, <2>2, BeginPost
  <1> QED
    BY <1>1, <1>2, <1>3, <1>4 DEF OneInv

LEMMA ResetOne ==
    ASSUME Inv, OneInv, NEW c \in Clients, Reset(c)
    PROVE  OneInv'
  <1> USE DEF Inv, TypeOK, QueuesOK
  <1>0. /\ home[c] \in Services /\ client[c] \in {"accepted", "open", "sent"}
        /\ client'[c] = "reset" /\ \A d \in Clients \ {c} : client'[d] = client[d]
        /\ thread' = thread
        /\ queue' = IF client[c] = "open" THEN Post(queue, home[c], Completion("error", c))
                    ELSE queue
    BY DEF Reset, OneInv, HomesOK
  <1>1. CountsOK'
    <2>1. SessionOK(c)'
      <3>1. CASE client[c] = "open"
        BY <1>0, <3>1, PostKeeps DEF OneInv, CountsOK, SessionOK, Once
      <3>2. CASE client[c] # "open"
        BY <1>0, <3>2 DEF OneInv, CountsOK, SessionOK, Once
      <3> QED
        BY <3>1, <3>2
    <2>2. \A K \in KindsBut(c) : Kept(K, queue, thread, queue', thread')
      BY <1>0, PostKeeps, KeptSame
    <2> QED
      BY <1>0, <2>1, <2>2, CountsButSession DEF Reset, OneInv
  <1>2. HomesOK'
    BY <1>0 DEF Reset, OneInv, HomesOK
  <1>3. BacklogOK'
    BY <1>0, BacklogStays DEF Reset, OneInv
  <1>4. BeginOK(queue', client')
    <2>1. BeginOK(queue, client')
      <3>1. \A d \in Clients : client[d] = "reset" => client'[d] = "reset"
        BY <1>0
      <3>2. queue \in [Services -> Seq(Item)] /\ BeginOK(queue, client)
        BY DEF OneInv
      <3> QED
        BY <3>1, <3>2, BeginClients
    <2>2. BeginOK(Post(queue, home[c], Completion("error", c)), client')
      <3>1. /\ Completion("error", c) \in Item /\ Completion("error", c).at = "begin"
            /\ Completion("error", c).of = c
        BY CompletionsAre
      <3> QED
        BY <1>0, <2>1, <3>1, BeginPost
    <2> QED
      BY <1>0, <2>1, <2>2
  <1> QED
    BY <1>1, <1>2, <1>3, <1>4 DEF OneInv

\* An acceptor stops listening and its completion is posted, with a client or
\* with none.
LEMMA AcceptKeeps ==
    ASSUME Inv, NEW a \in Servers, NEW c \in Clients \cup {None}
    PROVE  LET q == Post(queue, HomeOf(a), Accepted(a, c)) IN
           /\ \A b \in Servers \ {a} : Kept(AcceptsOf(b), queue, thread, q, thread)
           /\ \A d \in Clients \ {c} : Kept(TurnsOf(d), queue, thread, q, thread)
           /\ Nowhere(AcceptsOf(a), queue, thread) => Once(AcceptsOf(a), q, thread)
           /\ c \in Clients /\ Nowhere(TurnsOf(c), queue, thread) => Once(TurnsOf(c), q, thread)
           /\ \A cl : BeginOK(queue, cl) => BeginOK(q, cl)
  <1>1. HomeOf(a) \in Services /\ queue \in [Services -> Seq(Item)]
    <2>1. a \in Nat \ {0}
      BY ServersAre
    <2>2. 2 * a - 1 \in Nat \ {0}
      BY <2>1
    <2> QED
      BY <2>2, RoundRobin DEF HomeOf, Inv, QueuesOK
  <1> DEFINE i == Accepted(a, c)
  <1>2. /\ i \in Item /\ i.kind = "accept" /\ i.at = "begin" /\ i \in AcceptsOf(a)
        /\ \A b \in Servers \ {a} : i \notin AcceptsOf(b)
        /\ \A d \in Clients : i \in TurnsOf(d) <=> c = d
    BY CompletionsAre
  <1> HIDE DEF i
  <1>3. \A K : i \notin K => Kept(K, queue, thread, Post(queue, HomeOf(a), i), thread)
    BY <1>1, <1>2, PostOther
  <1>4. \A K : i \in K /\ Nowhere(K, queue, thread) =>
                  Once(K, Post(queue, HomeOf(a), i), thread)
    BY <1>1, <1>2, PostFirst
  <1>5. \A cl : BeginOK(queue, cl) => BeginOK(Post(queue, HomeOf(a), i), cl)
    BY <1>1, <1>2, BeginPost
  <1> QED
    BY <1>2, <1>3, <1>4, <1>5 DEF i

LEMMA AcceptOne ==
    ASSUME Inv, OneInv, NEW a \in Servers, Accept(a)
    PROVE  OneInv'
  <1> DEFINE c == Head(backlog[a])
  <1>0. /\ backlog[a] \in Seq(Clients) /\ Len(backlog[a]) \in Nat \ {0}
        /\ c = backlog[a][1] /\ c \in Clients /\ client[c] = "waiting"
    BY DEF Accept, Inv, QueuesOK, OneInv, BacklogOK
  <1>1. /\ client'[c] = "accepted" /\ \A d \in Clients \ {c} : client'[d] = client[d]
        /\ queue' = Post(queue, HomeOf(a), Accepted(a, c)) /\ thread' = thread
        /\ a \in armed /\ armed' = armed \ {a}
        /\ home'[c] \in Services /\ \A d \in Clients \ {c} : home'[d] = home[d]
        /\ backlog' = [backlog EXCEPT ![a] = Tail(@)]
    BY <1>0 DEF Accept, Inv, TypeOK
  <1> HIDE DEF c
  <1>2. ASSUME NEW b \in Servers PROVE ListeningOK(b)'
    <2>1. CASE b = a
      BY <1>0, <1>1, <2>1, AcceptKeeps DEF OneInv, CountsOK, ListeningOK
    <2>2. CASE b # a
      <3>1. Kept(AcceptsOf(b), queue, thread, queue', thread')
        BY <1>0, <1>1, <2>2, AcceptKeeps
      <3> QED
        BY <1>1, <2>2, <3>1 DEF OneInv, CountsOK, ListeningOK, Kept
    <2> QED
      BY <2>1, <2>2
  <1>3. ASSUME NEW d \in Clients PROVE SessionOK(d)'
    <2>1. CASE d = c
      BY <1>0, <1>1, <2>1, AcceptKeeps DEF OneInv, CountsOK, SessionOK
    <2>2. CASE d # c
      <3>1. Kept(TurnsOf(d), queue, thread, queue', thread')
        BY <1>0, <1>1, <2>2, AcceptKeeps
      <3> QED
        BY <1>1, <2>2, <3>1 DEF OneInv, CountsOK, SessionOK, Kept
    <2> QED
      BY <2>1, <2>2
  <1>4. HomesOK'
    BY <1>0, <1>1 DEF OneInv, HomesOK
  <1>5. BacklogOK'
    <2> DEFINE Old(b, i) == IF b = a THEN i + 1 ELSE i
    <2>1. ASSUME NEW b \in Servers, NEW i \in 1 .. Len(backlog'[b])
          PROVE  /\ Old(b, i) \in 1 .. Len(backlog[b]) /\ backlog'[b][i] = backlog[b][Old(b, i)]
                 /\ ~(b = a /\ Old(b, i) = 1)
      <3>1. backlog'[b] = IF b = a THEN Tail(backlog[b]) ELSE backlog[b]
        BY <1>1 DEF Inv, QueuesOK
      <3> QED
        BY <1>0, <3>1
    <2>2. ASSUME NEW b \in Servers, NEW i \in 1 .. Len(backlog'[b])
          PROVE  client'[backlog'[b][i]] = "waiting"
      <3> HIDE DEF Old
      <3>1. backlog[b][Old(b, i)] \in Clients
        BY <2>1 DEF Inv, QueuesOK
      <3>2. 1 \in 1 .. Len(backlog[a]) /\ backlog[b][Old(b, i)] # c
        BY <1>0, <2>1 DEF OneInv, BacklogOK
      <3>3. client[backlog[b][Old(b, i)]] = "waiting"
        BY <2>1 DEF OneInv, BacklogOK
      <3> QED
        BY <1>1, <2>1, <3>1, <3>2, <3>3
    <2>3. ASSUME NEW b \in Servers, NEW d \in Servers,
                 NEW i \in 1 .. Len(backlog'[b]), NEW j \in 1 .. Len(backlog'[d]),
                 backlog'[b][i] = backlog'[d][j]
          PROVE  b = d /\ i = j
      <3>1. b = d /\ Old(b, i) = Old(d, j)
        <4> HIDE DEF Old
        <4>1. /\ Old(b, i) \in 1 .. Len(backlog[b]) /\ Old(d, j) \in 1 .. Len(backlog[d])
              /\ backlog[b][Old(b, i)] = backlog[d][Old(d, j)]
          BY <2>1, <2>3
        <4> QED
          BY <4>1 DEF OneInv, BacklogOK
      <3>2. i \in Int /\ j \in Int
        OBVIOUS
      <3> QED
        BY <3>1, <3>2
    <2> QED
      BY <2>2, <2>3 DEF BacklogOK
  <1>6. BeginOK(queue', client')
    <2>1. BeginOK(queue, client')
      <3>1. \A d \in Clients : client[d] = "reset" => client'[d] = "reset"
        BY <1>0, <1>1
      <3> QED
        BY <3>1, BeginClients DEF OneInv, Inv, QueuesOK
    <2> QED
      BY <1>0, <1>1, <2>1, AcceptKeeps
  <1> QED
    BY <1>2, <1>3, <1>4, <1>5, <1>6 DEF OneInv, CountsOK

LEMMA AcceptFailsOne ==
    ASSUME Inv, OneInv, NEW a \in Servers, AcceptFails(a)
    PROVE  OneInv'
  <1>1. /\ queue' = Post(queue, HomeOf(a), Accepted(a, None)) /\ thread' = thread
        /\ client' = client /\ home' = home /\ backlog' = backlog
        /\ a \in armed /\ armed' = armed \ {a}
    BY DEF AcceptFails
  <1>2. ASSUME NEW b \in Servers PROVE ListeningOK(b)'
    <2>1. CASE b = a
      BY <1>1, <2>1, AcceptKeeps DEF OneInv, CountsOK, ListeningOK
    <2>2. CASE b # a
      <3>1. Kept(AcceptsOf(b), queue, thread, queue', thread')
        BY <1>1, <2>2, AcceptKeeps
      <3> QED
        BY <1>1, <2>2, <3>1 DEF OneInv, CountsOK, ListeningOK, Kept
    <2> QED
      BY <2>1, <2>2
  <1>3. ASSUME NEW d \in Clients PROVE SessionOK(d)'
    <2>1. d # None
      BY PoolAssumption
    <2>2. Kept(TurnsOf(d), queue, thread, queue', thread')
      BY <1>1, <2>1, AcceptKeeps
    <2> QED
      BY <1>1, <2>2 DEF OneInv, CountsOK, SessionOK, Kept
  <1>4. BeginOK(queue', client')
    BY <1>1, AcceptKeeps DEF OneInv
  <1> QED
    BY <1>1, <1>2, <1>3, <1>4 DEF OneInv, CountsOK, HomesOK, BacklogOK

\* Thread s takes the next completion; one that it keeps belongs to the same.
LEMMA TakeKeeps ==
    ASSUME Inv, OneInv, NEW s \in Services, thread[s] = Idle, queue[s] # <<>>
    PROVE  /\ Head(queue[s]) \in Item /\ Head(queue[s]).at = "begin"
           /\ Taken(s) \in [Services -> Seq(Item)]
           /\ BeginOK(Taken(s), client)
           /\ \A K \in Kinds : \A x : (x \in K <=> Head(queue[s]) \in K) =>
                 Kept(K, queue, thread, Taken(s), [thread EXCEPT ![s] = x])
           /\ \A K \in Kinds : Head(queue[s]) \notin K =>
                 Kept(K, queue, thread, Taken(s), thread)
           /\ \A K \in Kinds : Head(queue[s]) \in K /\ Unique(K, queue, thread) =>
                 Nowhere(K, Taken(s), thread)
  <1>1. queue \in [Services -> Seq(Item)] /\ thread \in [Services -> Item \cup {Idle}]
    BY DEF Inv, QueuesOK
  <1>2. Head(queue[s]) \in Item /\ Taken(s) \in [Services -> Seq(Item)]
    BY TakenTyped
  <1>3. BeginOK(Taken(s), client) /\ Head(queue[s]).at = "begin"
    BY <1>1, BeginTake DEF OneInv, Taken
  <1>4. ASSUME NEW K \in Kinds, NEW x, x \in K <=> Head(queue[s]) \in K
        PROVE  Kept(K, queue, thread, Taken(s), [thread EXCEPT ![s] = x])
    BY <1>1, <1>4, IdleIsNone, TakeOne DEF Taken
  <1>5. [thread EXCEPT ![s] = Idle] = thread
    BY <1>1
  <1>6. ASSUME NEW K \in Kinds, Head(queue[s]) \notin K
        PROVE  Kept(K, queue, thread, Taken(s), thread)
    BY <1>4, <1>5, <1>6, IdleIsNone
  <1>7. ASSUME NEW K \in Kinds, Head(queue[s]) \in K, Unique(K, queue, thread)
        PROVE  Nowhere(K, Taken(s), thread)
    BY <1>1, <1>7, TakeLast DEF Taken
  <1> QED
    BY <1>2, <1>3, <1>4, <1>6, <1>7

LEMMA AcceptorOne ==
    ASSUME Inv, OneInv, NEW s \in Services,
           \/ TestNext(s) \/ StartOver(s) \/ ReadIndex(s) \/ StartAcceptor(s) \/ StartSession(s)
    PROVE  OneInv'
  <1>1. CASE TestNext(s)
    <2> DEFINE i == Head(queue[s])
               x == [i EXCEPT !.at = IF next >= N THEN "over" ELSE "index"]
    <2>1. /\ thread[s] = Idle /\ queue[s] # <<>> /\ i.kind = "accept"
          /\ queue' = Taken(s) /\ thread' = [thread EXCEPT ![s] = x]
          /\ armed' = armed /\ client' = client /\ home' = home /\ backlog' = backlog
      BY <1>1 DEF TestNext, Takes
    <2>2. i \in Item /\ i.at = "begin" /\ BeginOK(Taken(s), client)
      BY <2>1, TakeKeeps
    <2>3. x \in Item
      BY <2>1, <2>2 DEF Item
    <2>4. \A K \in Kinds : x \in K <=> i \in K
      BY <2>1, <2>2, <2>3, SameKinds
    <2>5. \A K \in Kinds : Kept(K, queue, thread, queue', thread')
      BY <2>1, <2>4, TakeKeeps
    <2>6. CountsOK'
      BY <2>1, <2>5, CountsKept DEF OneInv
    <2> QED
      BY <2>1, <2>2, <2>6 DEF OneInv, HomesOK, BacklogOK
  <1>4. CASE StartOver(s) \/ ReadIndex(s)
    <2>1. PICK at \in {"index", "get"} : thread' = [thread EXCEPT ![s].at = at]
      BY <1>4 DEF StartOver, ReadIndex
    <2> DEFINE i == thread[s]
               x == [i EXCEPT !.at = at]
    <2>2. /\ i.kind = "accept" /\ i.at # "start" /\ thread' = [thread EXCEPT ![s] = x]
          /\ queue' = queue /\ armed' = armed /\ client' = client
          /\ home' = home /\ backlog' = backlog
      BY <1>4, <2>1 DEF StartOver, ReadIndex, At
    <2>3. thread \in [Services -> Item \cup {Idle}] /\ i \in Item
      BY <2>2 DEF Inv, QueuesOK, Idle
    <2>4. x \in Item
      BY <2>2, <2>3 DEF Item
    <2>5. \A K \in Kinds : x \in K <=> i \in K
      BY <2>2, <2>3, <2>4, SameKinds
    <2>6. \A K \in Kinds : Kept(K, queue, thread, queue', thread')
      BY <2>2, <2>3, <2>5, ThreadGoesOn
    <2>7. CountsOK'
      BY <2>2, <2>6, CountsKept DEF OneInv
    <2> QED
      BY <2>2, <2>7 DEF OneInv, HomesOK, BacklogOK
  <1>2. CASE StartAcceptor(s)
    <2> DEFINE i == thread[s]
               x == [i EXCEPT !.at = "start"]
               a == i.server
    <2>1. /\ i.kind = "accept" /\ i.at = "get" /\ thread' = [thread EXCEPT ![s] = x]
          /\ armed' = armed \cup {a} /\ queue' = queue
          /\ client' = client /\ home' = home /\ backlog' = backlog
      BY <1>2 DEF StartAcceptor, At
    <2>2. thread \in [Services -> Item \cup {Idle}] /\ i \in Item
      BY <2>1 DEF Inv, QueuesOK, Idle
    <2>3. /\ a \in Servers /\ i \in AcceptsOf(a) /\ x \notin AcceptsOf(a)
          /\ \A b \in Servers \ {a} : i \notin AcceptsOf(b) /\ x \notin AcceptsOf(b)
          /\ \A d \in Clients : x \in TurnsOf(d) <=> i \in TurnsOf(d)
      BY <2>1, <2>2 DEF Item, AcceptsOf, TurnsOf
    <2> HIDE DEF x, i
    <2>4. ASSUME NEW b \in Servers PROVE ListeningOK(b)'
      <3>1. CASE b = a
        <4>1. Once(AcceptsOf(a), queue, thread)
          BY <2>3 DEF OneInv, CountsOK, ListeningOK, Nowhere, i
        <4>2. Nowhere(AcceptsOf(a), queue, thread')
          BY <2>1, <2>2, <2>3, <4>1, ThreadIsDone DEF Once, i
        <4> QED
          BY <2>1, <3>1, <4>2 DEF ListeningOK
      <3>2. CASE b # a
        <4>1. Kept(AcceptsOf(b), queue, thread, queue, thread')
          BY <2>1, <2>2, <2>3, <3>2, ThreadGoesOn DEF i
        <4> QED
          BY <2>1, <3>2, <4>1 DEF OneInv, CountsOK, ListeningOK, Kept
      <3> QED
        BY <3>1, <3>2
    <2>5. ASSUME NEW d \in Clients PROVE SessionOK(d)'
      <3>1. Kept(TurnsOf(d), queue, thread, queue, thread')
        BY <2>1, <2>2, <2>3, ThreadGoesOn DEF i
      <3> QED
        BY <2>1, <3>1 DEF OneInv, CountsOK, SessionOK, Kept
    <2> QED
      BY <2>1, <2>4, <2>5 DEF OneInv, CountsOK, HomesOK, BacklogOK
  <1>3. CASE StartSession(s)
    <2> DEFINE i == thread[s]
               c == i.of
    <2>1. /\ i.kind = "accept" /\ i.at = "start" /\ thread' = [thread EXCEPT ![s] = Idle]
          /\ c # None => client[c] = "accepted"
          /\ client' = IF c = None THEN client ELSE [client EXCEPT ![c] = "open"]
          /\ armed' = armed /\ queue' = queue /\ home' = home /\ backlog' = backlog
      BY <1>3 DEF StartSession, At
    <2>2. thread \in [Services -> Item \cup {Idle}] /\ i \in Item
      BY <2>1 DEF Inv, QueuesOK, Idle
    <2>3. /\ c \in Clients \cup {None}
          /\ \A a \in Servers : i \notin AcceptsOf(a)
          /\ \A d \in Clients : i \in TurnsOf(d) <=> c = d
      BY <2>1, <2>2, PoolAssumption DEF Item, AcceptsOf, TurnsOf
    <2> HIDE DEF i
    <2>4. \A K \in Kinds : i \notin K => Kept(K, queue, thread, queue', thread')
      BY <2>1, <2>2, IdleIsNone, ThreadGoesOn DEF i
    <2>5. CASE c = None
      <3>1. \A K \in Kinds : i \notin K
        BY <2>3, <2>5, PoolAssumption DEF Kinds
      <3>2. CountsOK'
        BY <2>1, <2>4, <2>5, <3>1, CountsKept DEF OneInv
      <3> QED
        BY <2>1, <2>5, <3>2 DEF OneInv, HomesOK, BacklogOK
    <2>6. CASE c # None
      <3>0. PICK d \in Clients : d = c
        BY <2>3, <2>6
      <3>1. /\ client[d] = "accepted" /\ client'[d] = "open"
            /\ \A e \in Clients \ {d} : client'[e] = client[e]
        BY <2>1, <2>6, <3>0 DEF Inv, TypeOK
      <3>2. SessionOK(d)'
        <4>1. TurnsOf(d) \in Kinds
          BY DEF Kinds
        <4>2. Once(TurnsOf(d), queue, thread)
          BY <3>1 DEF OneInv, CountsOK, SessionOK
        <4>3. Idle \notin TurnsOf(d) /\ thread[s] \in TurnsOf(d)
          BY <2>3, <3>0, <4>1, IdleIsNone DEF i
        <4>4. Nowhere(TurnsOf(d), queue, thread')
          BY <2>1, <2>2, <4>2, <4>3, ThreadIsDone DEF Once
        <4> QED
          BY <2>1, <3>1, <4>4 DEF SessionOK
      <3>3. \A K \in KindsBut(d) : Kept(K, queue, thread, queue', thread')
        BY <2>3, <2>4, <3>0 DEF Kinds, KindsBut
      <3>4. CountsOK'
        BY <2>1, <3>1, <3>2, <3>3, CountsButSession DEF OneInv
      <3>5. HomesOK'
        BY <2>1, <3>1 DEF OneInv, HomesOK
      <3>6. BacklogOK'
        BY <2>1, <3>1, BacklogStays DEF OneInv, Inv
      <3>7. BeginOK(queue', client')
        <4>1. \A e \in Clients : client[e] = "reset" => client'[e] = "reset"
          BY <3>1
        <4>2. BeginOK(queue, client')
          BY <4>1, BeginClients DEF OneInv, Inv, QueuesOK
        <4> QED
          BY <2>1, <4>2
      <3> QED
        BY <3>4, <3>5, <3>6, <3>7 DEF OneInv
    <2> QED
      BY <2>5, <2>6
  <1> QED
    BY <1>1, <1>2, <1>3, <1>4

\* A session whose turn is over reads again, after a reply or without one.
LEMMA GoesOnOne ==
    ASSUME Inv, OneInv, NEW c \in Clients, client[c] \in {"accepted", "sent", "reset"},
           NEW q \in [Services -> Seq(Item)], BeginOK(q, client),
           \A K \in KindsBut(c) : Kept(K, queue, thread, q, thread'),
           Nowhere(TurnsOf(c), q, thread'),
           ReadAgain(c, q) \/ Reply(c, q),
           armed' = armed, home' = home, backlog' = backlog
    PROVE  OneInv'
  <1>1. home[c] \in Services
    BY DEF OneInv, HomesOK
  <1>2. PICK r \in [Services -> Seq(Item)] :
            /\ ReadAgain(c, r) /\ BeginOK(r, client) /\ Nowhere(TurnsOf(c), r, thread')
            /\ \A K \in KindsBut(c) : Kept(K, q, thread', r, thread')
    <2>1. CASE ReadAgain(c, q)
      BY <2>1, KeptSame
    <2>2. CASE Reply(c, q) /\ client[c] = "reset"
      BY <2>2, KeptSame DEF Reply
    <2>3. CASE Reply(c, q) /\ client[c] # "reset"
      <3> DEFINE r == Post(q, home[c], Completion("write", c))
      <3>1. /\ Completion("write", c) \in Item /\ Completion("write", c).at = "begin"
            /\ Completion("write", c).kind = "write"
        BY CompletionsAre
      <3>2. r \in [Services -> Seq(Item)] /\ BeginOK(r, client)
        BY <1>1, <3>1, Posted, BeginPost
      <3>3. /\ \A K \in KindsBut(c) : Kept(K, q, thread', r, thread')
            /\ Kept(TurnsOf(c), q, thread', r, thread')
        <4>1. TurnsOf(c) \in Kinds
          BY DEF Kinds
        <4> QED
          BY <1>1, <4>1, PostKeeps
      <3>4. ReadAgain(c, r)
        BY <2>3 DEF Reply
      <3> QED
        BY <3>2, <3>3, <3>4 DEF Kept
    <2> QED
      BY <2>1, <2>2, <2>3
  <1>3. /\ client'[c] = IF client[c] = "reset" THEN "reset" ELSE "open"
        /\ \A d \in Clients \ {c} : client'[d] = client[d]
        /\ queue' = IF client[c] = "reset" THEN Post(r, home[c], Completion("error", c)) ELSE r
    BY <1>2 DEF ReadAgain, Inv, TypeOK
  <1>4. /\ Completion("error", c) \in Item /\ Completion("error", c).at = "begin"
        /\ Completion("error", c).of = c
    BY CompletionsAre
  <1>5. SessionOK(c)'
    <2>1. CASE client[c] = "reset"
      <3>1. Once(TurnsOf(c), queue', thread')
        BY <1>1, <1>2, <1>3, <2>1, PostKeeps
      <3> QED
        BY <1>3, <2>1, <3>1 DEF SessionOK, Once
    <2>2. CASE client[c] # "reset"
      BY <1>2, <1>3, <2>2 DEF SessionOK
    <2> QED
      BY <2>1, <2>2
  <1>6. ASSUME NEW K \in KindsBut(c) PROVE Kept(K, queue, thread, queue', thread')
    <2>1. Kept(K, r, thread', queue', thread')
      BY <1>1, <1>2, <1>3, PostKeeps, KeptSame
    <2>2. Kept(K, q, thread', queue', thread')
      BY <1>2, <2>1, KeptOn
    <2> QED
      BY <2>2, KeptOn
  <1>7. CountsOK'
    BY <1>3, <1>5, <1>6, CountsButSession DEF OneInv
  <1>8. HomesOK'
    BY <1>1, <1>3 DEF OneInv, HomesOK
  <1>9. BacklogOK'
    BY <1>3, BacklogStays DEF OneInv, Inv
  <1>10. BeginOK(queue', client')
    <2>1. \A d \in Clients : client[d] = "reset" => client'[d] = "reset"
      BY <1>3
    <2>2. BeginOK(r, client')
      BY <1>2, <2>1, BeginClients
    <2>3. client[c] = "reset" => BeginOK(Post(r, home[c], Completion("error", c)), client')
      BY <1>1, <1>2, <1>3, <1>4, <2>2, BeginPost
    <2> QED
      BY <1>3, <2>2, <2>3
  <1> QED
    BY <1>7, <1>8, <1>9, <1>10 DEF OneInv

\* Whose turn it is has been accepted, and has no other completion.
LEMMA TurnIs ==
    ASSUME CountsOK, NEW c \in Clients, ~Nowhere(TurnsOf(c), queue, thread)
    PROVE  Unique(TurnsOf(c), queue, thread) /\ client[c] \in {"accepted", "sent", "reset"}
  BY DEF CountsOK, SessionOK, Once

LEMMA TakeReadOne ==
    ASSUME Inv, OneInv, NEW s \in Services, HandlePacket(s) \/ HandleQuery(s)
    PROVE  OneInv'
  <1> DEFINE i == Head(queue[s])
  <1>1. /\ thread[s] = Idle /\ queue[s] # <<>> /\ i.kind = "read"
        /\ ReadAgain(i.of, Taken(s)) \/ Reply(i.of, Taken(s))
        /\ armed' = armed /\ home' = home /\ backlog' = backlog /\ thread' = thread
    BY DEF HandlePacket, HandleQuery, Takes
  <1>2. i \in Item /\ Taken(s) \in [Services -> Seq(Item)] /\ BeginOK(Taken(s), client)
    BY <1>1, TakeKeeps
  <1>3. PICK c \in Clients : c = i.of
    BY <1>1, <1>2, OfOneSession
  <1>4. i \in TurnsOf(c) /\ \A K \in KindsBut(c) : i \notin K
    BY <1>1, <1>2, <1>3, OfOneSession
  <1>5. ~Nowhere(TurnsOf(c), queue, thread)
    <2>1. i = queue[s][1] /\ 1 \in 1 .. Len(queue[s])
      BY <1>1 DEF Inv, QueuesOK
    <2> QED
      BY <1>4, <2>1 DEF Nowhere
  <1>6. Nowhere(TurnsOf(c), Taken(s), thread)
    <2>1. TurnsOf(c) \in Kinds
      BY DEF Kinds
    <2> QED
      BY <1>1, <1>4, <1>5, <2>1, TurnIs, TakeKeeps DEF OneInv
  <1>7. \A K \in KindsBut(c) : Kept(K, queue, thread, Taken(s), thread)
    BY <1>1, <1>4, TakeKeeps DEF Kinds, KindsBut
  <1>8. client[c] \in {"accepted", "sent", "reset"}
    BY <1>5, TurnIs DEF OneInv
  <1> HIDE DEF i
  <1> QED
    BY <1>1, <1>2, <1>3, <1>6, <1>7, <1>8, GoesOnOne

LEMMA StoreOne ==
    ASSUME Inv, OneInv, NEW s \in Services, HandleStore(s) \/ LockFile(s)
    PROVE  OneInv'
  <1>1. CASE HandleStore(s)
    <2> DEFINE i == Head(queue[s])
               x == [i EXCEPT !.at = "lock"]
    <2>1. /\ thread[s] = Idle /\ queue[s] # <<>> /\ i.kind = "read"
          /\ queue' = Taken(s) /\ thread' = [thread EXCEPT ![s] = x]
          /\ armed' = armed /\ client' = client /\ home' = home /\ backlog' = backlog
      BY <1>1 DEF HandleStore, Takes
    <2>2. i \in Item /\ BeginOK(Taken(s), client)
      BY <2>1, TakeKeeps
    <2>3. x \in Item
      BY <2>1, <2>2 DEF Item
    <2>4. \A K \in Kinds : x \in K <=> i \in K
      BY <2>1, <2>2, <2>3, SameKinds
    <2>5. \A K \in Kinds : Kept(K, queue, thread, queue', thread')
      BY <2>1, <2>4, TakeKeeps
    <2>6. CountsOK'
      BY <2>1, <2>5, CountsKept DEF OneInv
    <2> QED
      BY <2>1, <2>2, <2>6 DEF OneInv, HomesOK, BacklogOK
  <1>2. CASE LockFile(s)
    <2> DEFINE i == thread[s]
               x == [i EXCEPT !.at = "unlock"]
    <2>1. /\ i.kind = "read" /\ thread' = [thread EXCEPT ![s] = x] /\ queue' = queue
          /\ armed' = armed /\ client' = client /\ home' = home /\ backlog' = backlog
      BY <1>2 DEF LockFile, At
    <2>2. thread \in [Services -> Item \cup {Idle}] /\ i \in Item
      BY <2>1 DEF Inv, QueuesOK, Idle
    <2>3. x \in Item
      BY <2>1, <2>2 DEF Item
    <2>4. \A K \in Kinds : x \in K <=> i \in K
      BY <2>1, <2>2, <2>3, SameKinds
    <2>5. \A K \in Kinds : Kept(K, queue, thread, queue', thread')
      BY <2>1, <2>2, <2>4, ThreadGoesOn
    <2>6. CountsOK'
      BY <2>1, <2>5, CountsKept DEF OneInv
    <2> QED
      BY <2>1, <2>6 DEF OneInv, HomesOK, BacklogOK
  <1> QED
    BY <1>1, <1>2

LEMMA UnlockOne ==
    ASSUME Inv, OneInv, NEW s \in Services, UnlockFile(s)
    PROVE  OneInv'
  <1> DEFINE i == thread[s]
  <1>1. /\ i.kind = "read" /\ thread' = [thread EXCEPT ![s] = Idle]
        /\ Reply(i.of, queue)
        /\ armed' = armed /\ home' = home /\ backlog' = backlog
    BY DEF UnlockFile, At
  <1>2. /\ thread \in [Services -> Item \cup {Idle}] /\ i \in Item
        /\ queue \in [Services -> Seq(Item)]
    BY <1>1 DEF Inv, QueuesOK, Idle
  <1>3. PICK c \in Clients : c = i.of
    BY <1>1, <1>2, OfOneSession
  <1>4. i \in TurnsOf(c) /\ \A K \in KindsBut(c) : i \notin K
    BY <1>1, <1>2, <1>3, OfOneSession
  <1>5. ~Nowhere(TurnsOf(c), queue, thread)
    BY <1>4 DEF Nowhere
  <1>6. Nowhere(TurnsOf(c), queue, thread')
    <2>1. TurnsOf(c) \in Kinds
      BY DEF Kinds
    <2>2. Idle \notin TurnsOf(c)
      BY <2>1, IdleIsNone
    <2> QED
      BY <1>1, <1>2, <1>4, <1>5, <2>2, TurnIs, ThreadIsDone DEF OneInv
  <1>7. \A K \in KindsBut(c) : Kept(K, queue, thread, queue, thread')
    <2>1. KindsBut(c) \subseteq Kinds
      BY DEF Kinds, KindsBut
    <2> QED
      BY <1>1, <1>2, <1>4, <2>1, IdleIsNone, ThreadGoesOn
  <1>8. client[c] \in {"accepted", "sent", "reset"}
    BY <1>5, TurnIs DEF OneInv
  <1>9. BeginOK(queue, client)
    BY DEF OneInv
  <1> HIDE DEF i
  <1> QED
    BY <1>1, <1>2, <1>3, <1>6, <1>7, <1>8, <1>9, GoesOnOne

LEMMA WriteErrorOne ==
    ASSUME Inv, OneInv, NEW s \in Services, HandleWrite(s) \/ HandleError(s)
    PROVE  OneInv'
  <1> DEFINE i == Head(queue[s])
  <1>1. /\ thread[s] = Idle /\ queue[s] # <<>> /\ thread' = thread
        /\ armed' = armed /\ client' = client /\ home' = home /\ backlog' = backlog
    BY DEF HandleWrite, HandleError, Takes
  <1>2. /\ i \in Item /\ i.at = "begin" /\ BeginOK(Taken(s), client)
        /\ Taken(s) \in [Services -> Seq(Item)]
    BY <1>1, TakeKeeps
  <1>3. CASE HandleWrite(s)
    <2>1. i.kind = "write" /\ queue' = Post(Taken(s), s, i)
      BY <1>3 DEF HandleWrite, Takes
    <2>2. \A K \in Kinds : i \notin K
      BY <1>2, <2>1, OfOneSession
    <2>3. \A K \in Kinds : Kept(K, queue, thread, queue', thread')
      <3> SUFFICES ASSUME NEW K \in Kinds PROVE Kept(K, queue, thread, queue', thread')
        OBVIOUS
      <3>1. Kept(K, queue, thread, Taken(s), thread)
        BY <1>1, <2>2, TakeKeeps
      <3>2. Kept(K, Taken(s), thread, queue', thread)
        BY <1>2, <2>1, <2>2, PostOther
      <3> QED
        BY <1>1, <3>1, <3>2, KeptOn
    <2>4. CountsOK'
      BY <1>1, <2>3, CountsKept DEF OneInv
    <2>5. BeginOK(queue', client')
      BY <1>1, <1>2, <2>1, BeginPost
    <2> QED
      BY <1>1, <2>4, <2>5 DEF OneInv, HomesOK, BacklogOK
  <1>4. CASE HandleError(s)
    <2>1. i.kind = "error" /\ queue' = Taken(s)
      BY <1>4 DEF HandleError, Takes
    <2>2. PICK c \in Clients : c = i.of
      BY <1>2, <2>1, OfOneSession
    <2>3. i \in TurnsOf(c) /\ \A K \in KindsBut(c) : i \notin K
      BY <1>2, <2>1, <2>2, OfOneSession
    <2>4. client[c] = "reset"
      BY <1>1, <2>1, <2>2, BeginTake DEF OneInv, Inv, QueuesOK
    <2>5. Unique(TurnsOf(c), queue, thread)
      BY <2>4 DEF OneInv, CountsOK, SessionOK
    <2>6. Nowhere(TurnsOf(c), queue', thread')
      <3>1. TurnsOf(c) \in Kinds
        BY DEF Kinds
      <3> QED
        BY <1>1, <2>1, <2>3, <2>5, <3>1, TakeKeeps
    <2>7. SessionOK(c)'
      BY <1>1, <2>4, <2>6 DEF SessionOK, Unique, Nowhere
    <2>8. \A K \in KindsBut(c) : Kept(K, queue, thread, queue', thread')
      BY <1>1, <2>1, <2>3, TakeKeeps DEF Kinds, KindsBut
    <2>9. CountsOK'
      BY <1>1, <2>7, <2>8, CountsButSession DEF OneInv
    <2> QED
      BY <1>1, <1>2, <2>1, <2>9, SMTT(30) DEF OneInv, HomesOK, BacklogOK
  <1> QED
    BY <1>3, <1>4

LEMMA OneNext == Inv /\ OneInv /\ [Next]_poolVars => OneInv'
  <1> SUFFICES ASSUME Inv, OneInv, [Next]_poolVars PROVE OneInv'
    OBVIOUS
  <1>1. ASSUME \/ OtherLocks \/ OtherUnlocks \/ UNCHANGED poolVars
               \/ \E s \in Services : Die(s)
        PROVE  OneInv'
    <2>1. /\ queue' = queue /\ thread' = thread /\ armed' = armed /\ client' = client
          /\ home' = home /\ backlog' = backlog
      BY <1>1 DEF OtherLocks, OtherUnlocks, Die, poolVars
    <2> QED
      BY <2>1 DEF OneInv, CountsOK, ListeningOK, SessionOK, HomesOK, BacklogOK
  <1> QED
    BY <1>1, ConnectOne, SendOne, ResetOne, AcceptOne, AcceptFailsOne, AcceptorOne,
       TakeReadOne, StoreOne, UnlockOne, WriteErrorOne DEF Next, IoThread
-----------------------------------------------------------------------------
\* Number, for the completions of a set.
NumberOf(K) ==
    Cardinality({s \in Services : thread[s] \in K})
    + Cardinality(UNION {{<<s, i>> : i \in {j \in DOMAIN queue[s] : queue[s][j] \in K}} :
                            s \in Services})

LEMMA NumberIs ==
    ASSUME NEW K, QueuesOK
    PROVE  /\ Nowhere(K, queue, thread) => NumberOf(K) = 0
           /\ Unique(K, queue, thread) => NumberOf(K) \in {0, 1}
           /\ Once(K, queue, thread) => NumberOf(K) = 1
  <1> DEFINE T == {s \in Services : thread[s] \in K}
             W == UNION {{<<s, i>> : i \in {j \in DOMAIN queue[s] : queue[s][j] \in K}} : s \in Services}
  <1>1. \A s \in Services : DOMAIN queue[s] = 1 .. Len(queue[s])
    BY DEF QueuesOK
  <1>2. \A w : w \in W <=> \E s \in Services : \E i \in 1 .. Len(queue[s]) :
                              w = <<s, i>> /\ queue[s][i] \in K
    BY <1>1
  <1> HIDE DEF W
  <1>3. Nowhere(K, queue, thread) <=> T = {} /\ W = {}
    <2>1. ASSUME Nowhere(K, queue, thread) PROVE T = {} /\ W = {}
      BY <1>2, <2>1 DEF Nowhere
    <2>2. ASSUME T = {}, W = {} PROVE Nowhere(K, queue, thread)
      BY <1>2, <2>2 DEF Nowhere
    <2> QED
      BY <2>1, <2>2
  <1>4. ASSUME Unique(K, queue, thread)
        PROVE  \/ T = {} /\ W = {}
               \/ T = {} /\ \E w : W = {w}
               \/ W = {} /\ \E s : T = {s}
    <2>1. ASSUME NEW s \in T PROVE T = {s} /\ W = {}
      BY <1>2, <1>4, <2>1 DEF Unique
    <2>2. ASSUME NEW w \in W PROVE W = {w}
      <3>0. PICK s \in Services : \E i \in 1 .. Len(queue[s]) : w = <<s, i>> /\ queue[s][i] \in K
        BY <1>2, <2>2
      <3>1. PICK i \in 1 .. Len(queue[s]) : w = <<s, i>> /\ queue[s][i] \in K
        BY <3>0
      <3>2. ASSUME NEW v \in W PROVE v = w
        <4>0. PICK t \in Services : \E j \in 1 .. Len(queue[t]) : v = <<t, j>> /\ queue[t][j] \in K
          BY <1>2, <3>2
        <4>1. PICK j \in 1 .. Len(queue[t]) : v = <<t, j>> /\ queue[t][j] \in K
          BY <4>0
        <4>2. s = t /\ i = j
          BY <1>4, <3>1, <4>1 DEF Unique
        <4> QED
          BY <3>1, <4>1, <4>2
      <3> QED
        BY <2>2, <3>2
    <2>3. T = {} \/ \E s : s \in T
      OBVIOUS
    <2> QED
      BY <2>1, <2>2, <2>3
  <1>5. Cardinality({}) = 0 /\ \A x : Cardinality({x}) = 1
    BY FS_EmptySet, FS_Singleton
  <1> HIDE DEF T
  <1>6. Unique(K, queue, thread) =>
           /\ Cardinality(T) + Cardinality(W) \in {0, 1}
           /\ ~(T = {} /\ W = {}) => Cardinality(T) + Cardinality(W) = 1
    <2>1. CASE T = {} /\ W = {}
      BY <1>5, <2>1
    <2>2. CASE T = {} /\ \E w : W = {w}
      <3>1. Cardinality(T) = 0 /\ Cardinality(W) = 1
        BY <1>5, <2>2
      <3> QED
        BY <2>2, <3>1
    <2>3. CASE W = {} /\ \E s : T = {s}
      <3>1. Cardinality(T) = 1 /\ Cardinality(W) = 0
        BY <1>5, <2>3
      <3> QED
        BY <2>3, <3>1
    <2> QED
      BY <1>4, <2>1, <2>2, <2>3
  <1>7. T = {} /\ W = {} => Cardinality(T) + Cardinality(W) = 0
    BY <1>5
  <1> QED
    BY <1>3, <1>6, <1>7 DEF Once, NumberOf, T, W

LEMMA OneImplies == Inv /\ OneInv => OneAtATime
  <1> SUFFICES ASSUME Inv, OneInv PROVE OneAtATime
    OBVIOUS
  <1>1. \A s \in Services : /\ thread[s] \in Item \cup {Idle}
                            /\ \A i \in DOMAIN queue[s] : queue[s][i] \in Item
    BY DEF Inv, QueuesOK
  <1>2. ASSUME NEW a \in Servers
        PROVE  LET P(i) == i.kind = "accept" /\ i.server = a /\ i.at # "start"
               IN  Number(P) = IF a \in armed THEN 0 ELSE 1
    <2> DEFINE P(i) == i.kind = "accept" /\ i.server = a /\ i.at # "start"
    <2>1. /\ \A i \in Item : P(i) <=> i \in AcceptsOf(a)
          /\ ~P(Idle) /\ Idle \notin AcceptsOf(a)
      BY IdleIsNone DEF AcceptsOf, Kinds, Idle
    <2>2. /\ {s \in Services : P(thread[s])} = {s \in Services : thread[s] \in AcceptsOf(a)}
          /\ \A s \in Services : {j \in DOMAIN queue[s] : P(queue[s][j])}
                                  = {j \in DOMAIN queue[s] : queue[s][j] \in AcceptsOf(a)}
      <3> HIDE DEF P
      <3> QED
        BY <1>1, <2>1
    <2>3. Number(P) = NumberOf(AcceptsOf(a))
      <3> DEFINE F(s) == {<<s, i>> : i \in {j \in DOMAIN queue[s] : P(queue[s][j])}}
                 G(s) == {<<s, i>> : i \in {j \in DOMAIN queue[s] : queue[s][j] \in AcceptsOf(a)}}
      <3> HIDE DEF P
      <3>1. \A s \in Services : F(s) = G(s)
        BY <2>2
      <3>2. UNION {F(s) : s \in Services} = UNION {G(s) : s \in Services}
        <4> HIDE DEF F, G
        <4> QED
          BY <3>1
      <3> QED
        BY <2>2, <3>2 DEF Number, NumberOf
    <2> QED
      BY <2>3, NumberIs DEF Inv, OneInv, CountsOK, ListeningOK
  <1>3. ASSUME NEW c \in Clients
        PROVE  LET P(i) == i.of = c /\ i.kind # "write"
               IN  CASE client[c] \in {"accepted", "sent"} -> Number(P) = 1
                     [] client[c] = "reset" -> Number(P) <= 1
                     [] OTHER -> Number(P) = 0
    <2> DEFINE P(i) == i.of = c /\ i.kind # "write"
    <2>1. /\ \A i \in Item : P(i) <=> i \in TurnsOf(c)
          /\ ~P(Idle) /\ Idle \notin TurnsOf(c)
      BY IdleIsNone, PoolAssumption DEF TurnsOf, Kinds, Idle
    <2>2. /\ {s \in Services : P(thread[s])} = {s \in Services : thread[s] \in TurnsOf(c)}
          /\ \A s \in Services : {j \in DOMAIN queue[s] : P(queue[s][j])}
                                  = {j \in DOMAIN queue[s] : queue[s][j] \in TurnsOf(c)}
      <3> HIDE DEF P
      <3> QED
        BY <1>1, <2>1
    <2>3. Number(P) = NumberOf(TurnsOf(c))
      <3> DEFINE F(s) == {<<s, i>> : i \in {j \in DOMAIN queue[s] : P(queue[s][j])}}
                 G(s) == {<<s, i>> : i \in {j \in DOMAIN queue[s] : queue[s][j] \in TurnsOf(c)}}
      <3> HIDE DEF P
      <3>1. \A s \in Services : F(s) = G(s)
        BY <2>2
      <3>2. UNION {F(s) : s \in Services} = UNION {G(s) : s \in Services}
        <4> HIDE DEF F, G
        <4> QED
          BY <3>1
      <3> QED
        BY <2>2, <3>2 DEF Number, NumberOf
    <2>4. /\ client[c] \in {"accepted", "sent"} => Number(P) = 1
          /\ client[c] = "reset" => Number(P) \in {0, 1}
          /\ client[c] \notin {"accepted", "sent", "reset"} => Number(P) = 0
      BY <2>3, NumberIs DEF Inv, OneInv, CountsOK, SessionOK
    <2> QED
      BY <2>4
  <1> QED
    BY <1>2, <1>3 DEF OneAtATime

\* However many io threads serve however many clients, every acceptor and every
\* session has exactly one operation under way: none is ever handled by two
\* threads, and none is left without what would wake it up, but for sessions
\* whose client reset.
THEOREM OneOperationAtATime == Spec => []OneAtATime
  BY InvInit, InvNext, OneInit, OneNext, OneImplies, PTL DEF Spec
-----------------------------------------------------------------------------
(***************************************************************************)
(* One thread in get().  With one acceptor, or two threads at most, the    *)
(* acceptors have the same io_service, and the completions of accepts stay *)
(* where they were put.                                                    *)
(***************************************************************************)
\* Of the queues q.
AtHome(q) ==
    \A s \in Services : \A i \in 1 .. Len(q[s]) :
        q[s][i].kind = "accept" => s = HomeOf(q[s][i].server)

Got(s) ==
    thread[s].kind = "accept" =>
        /\ s = HomeOf(thread[s].server)
        /\ thread[s].at = "index" => next < N /\ reg[s] < N
        /\ thread[s].at = "get" => reg[s] < N

GetInv == AtHome(queue) /\ \A s \in Services : Got(s)

OneHome == \A a, b \in Servers : HomeOf(a) = HomeOf(b)

LEMMA HomesAre ==
    /\ \A a \in Servers : HomeOf(a) \in Services
    /\ N <= 2 \/ DataClients = {} => OneHome
  <1>1. Servers \subseteq {1, 2} /\ (DataClients = {} => Servers = {1})
    BY DEF Servers, Acceptors
  <1>2. \A a \in Servers : HomeOf(a) \in Services
    BY <1>1, RoundRobin DEF HomeOf
  <1>3. HomeOf(1) = 0
    BY PoolAssumption DEF HomeOf, Nth
  <1>4. CASE N <= 2
    <2>1. HomeOf(2) = 2 % N
      BY DEF HomeOf, Nth
    <2>2. N = 1 \/ N = 2
      BY <1>4, PoolAssumption
    <2>3. 2 % 1 = 0 /\ 2 % 2 = 0
      OBVIOUS
    <2>4. HomeOf(2) = 0
      BY <2>1, <2>2, <2>3
    <2> QED
      BY <1>1, <1>2, <1>3, <2>4 DEF OneHome
  <1>5. CASE DataClients = {}
    BY <1>1, <1>2, <1>5 DEF OneHome
  <1> QED
    BY <1>2, <1>4, <1>5

LEMMA HomePost ==
    ASSUME NEW q \in [Services -> Seq(Item)], NEW s \in Services, NEW i \in Item, AtHome(q),
           i.kind = "accept" => s = HomeOf(i.server)
    PROVE  AtHome(Post(q, s, i))
  <1> DEFINE r == Post(q, s, i)
  <1>1. /\ \A t \in Services \ {s} : r[t] = q[t]
        /\ Len(q[s]) \in Nat /\ Len(r[s]) = Len(q[s]) + 1
        /\ \A j \in 1 .. Len(q[s]) : r[s][j] = q[s][j]
        /\ r[s][Len(q[s]) + 1] = i
    BY PostedAt
  <1> HIDE DEF r
  <1>2. ASSUME NEW t \in Services, NEW j \in 1 .. Len(r[t]), r[t][j].kind = "accept"
        PROVE  t = HomeOf(r[t][j].server)
    <2>1. CASE t # s
      BY <1>1, <1>2, <2>1 DEF AtHome
    <2>2. CASE t = s /\ j = Len(q[s]) + 1
      BY <1>1, <1>2, <2>2
    <2>3. CASE t = s /\ j # Len(q[s]) + 1
      <3>1. j \in 1 .. Len(q[s])
        BY <1>1, <2>3
      <3>2. r[t][j] = q[s][j]
        BY <1>1, <2>3, <3>1
      <3> QED
        BY <1>2, <2>3, <3>1, <3>2 DEF AtHome
    <2> QED
      BY <2>1, <2>2, <2>3
  <1>3. AtHome(r)
    BY <1>2 DEF AtHome
  <1> QED
    BY <1>3 DEF r

LEMMA HomeTake ==
    ASSUME Inv, AtHome(queue), NEW s \in Services, queue[s] # <<>>
    PROVE  /\ AtHome(Taken(s))
           /\ Head(queue[s]).kind = "accept" => s = HomeOf(Head(queue[s]).server)
  <1> DEFINE r == [queue EXCEPT ![s] = Tail(@)]
  <1>1. /\ \A t \in Services \ {s} : r[t] = queue[t]
        /\ Len(queue[s]) \in Nat \ {0} /\ Len(r[s]) = Len(queue[s]) - 1
        /\ \A i \in 1 .. Len(queue[s]) - 1 : r[s][i] = queue[s][i + 1]
        /\ Head(queue[s]) = queue[s][1]
    BY TakenAt DEF Inv, QueuesOK
  <1> HIDE DEF r
  <1>2. ASSUME NEW t \in Services, NEW j \in 1 .. Len(r[t]), r[t][j].kind = "accept"
        PROVE  t = HomeOf(r[t][j].server)
    <2>1. CASE t # s
      BY <1>1, <1>2, <2>1 DEF AtHome
    <2>2. CASE t = s
      <3>1. j + 1 \in 1 .. Len(queue[s]) /\ r[t][j] = queue[s][j + 1]
        BY <1>1, <2>2
      <3> QED
        BY <1>2, <2>2, <3>1 DEF AtHome
    <2> QED
      BY <2>1, <2>2
  <1>3. AtHome(r)
    BY <1>2 DEF AtHome
  <1>4. 1 \in 1 .. Len(queue[s])
    BY <1>1
  <1> QED
    BY <1>1, <1>3, <1>4 DEF Taken, AtHome, r

\* A step of one thread that leaves get() alone, and is not in get() afterwards.
LEMMA GotKept ==
    ASSUME Inv, GetInv, NEW s \in Services, NEW x, x.kind # "accept" \/ x.at = "start",
           x.kind = "accept" => s = HomeOf(x.server),
           thread' = [thread EXCEPT ![s] = x], reg' = reg, next' = next
    PROVE  \A t \in Services : Got(t)'
  <1>1. thread'[s] = x /\ \A t \in Services \ {s} : thread'[t] = thread[t]
    BY DEF Inv, QueuesOK
  <1> QED
    BY <1>1 DEF GetInv, Got

\* The steps of the thread of the acceptors in get(): no other one handles an
\* accept meanwhile.
LEMMA InGet ==
    ASSUME Inv, GetInv, OneHome, NEW s \in Services,
           thread[s].kind = "accept" \/ (queue[s] # <<>> /\ Head(queue[s]).kind = "accept")
    PROVE  \A t \in Services \ {s} : thread[t].kind # "accept"
  <1>1. ASSUME NEW t \in Services, thread[t].kind = "accept"
        PROVE  thread[t].server \in Servers /\ t = HomeOf(thread[t].server)
    <2>1. thread[t] \in Item
      BY <1>1 DEF Inv, QueuesOK, Idle
    <2>2. thread[t].server \in Servers
      BY <1>1, <2>1 DEF Item
    <2>3. Got(t)
      BY DEF GetInv
    <2> QED
      BY <1>1, <2>2, <2>3 DEF Got
  <1>2. \E a \in Servers : s = HomeOf(a)
    <2>1. CASE thread[s].kind = "accept"
      BY <1>1, <2>1
    <2>2. CASE queue[s] # <<>> /\ Head(queue[s]).kind = "accept"
      <3>1. Head(queue[s]) \in Item /\ s = HomeOf(Head(queue[s]).server)
        BY <2>2, HomeTake, TakenTyped DEF GetInv
      <3> QED
        BY <2>2, <3>1 DEF Item
    <2> QED
      BY <2>1, <2>2
  <1> QED
    BY <1>1, <1>2 DEF OneHome

LEMMA GetNext ==
    ASSUME Inv, OneInv, GetInv, OneHome, [Next]_poolVars
    PROVE  GetInv'
  <1> USE DEF GetInv
  <1>0. /\ queue \in [Services -> Seq(Item)] /\ thread \in [Services -> Item \cup {Idle}]
        /\ next \in 0 .. N /\ reg \in [Services -> 0 .. N] /\ N \in Nat \ {0}
        /\ Idle.kind # "accept"
    BY PoolAssumption DEF Inv, QueuesOK, TypeOK, Idle
  <1>1. ASSUME UNCHANGED <<thread, next, reg>> PROVE \A s \in Services : Got(s)'
    BY <1>1 DEF Got
  <1>2. ASSUME NEW c \in Clients, Connect(c) \/ Send(c) \/ Reset(c) PROVE GetInv'
    <2>1. UNCHANGED <<thread, next, reg>>
      BY <1>2 DEF Connect, Send, Reset
    <2>2. AtHome(queue')
      <3>1. client[c] = "open" => home[c] \in Services
        BY DEF OneInv, HomesOK
      <3>2. \A kind \in {"read", "error"} :
               client[c] = "open" => AtHome(Post(queue, home[c], Completion(kind, c)))
        BY <1>0, <3>1, HomePost, CompletionsAre
      <3> QED
        BY <1>2, <3>2 DEF Connect, Send, Reset
    <2> QED
      BY <1>1, <2>1, <2>2 DEF AtHome
  <1>3. ASSUME NEW a \in Servers, Accept(a) \/ AcceptFails(a) PROVE GetInv'
    <2>1. UNCHANGED <<thread, next, reg>>
      BY <1>3 DEF Accept, AcceptFails
    <2>2. \A c \in Clients \cup {None} : AtHome(Post(queue, HomeOf(a), Accepted(a, c)))
      <3> SUFFICES ASSUME NEW c \in Clients \cup {None}
                   PROVE  AtHome(Post(queue, HomeOf(a), Accepted(a, c)))
        OBVIOUS
      <3>1. HomeOf(a) \in Services /\ Accepted(a, c) \in Item /\ Accepted(a, c).server = a
        BY HomesAre, CompletionsAre DEF Accepted
      <3> QED
        BY <1>0, <3>1, HomePost
    <2>3. AtHome(queue')
      <3>1. CASE Accept(a)
        <4>1. Head(backlog[a]) \in Clients
          BY <3>1 DEF Accept, Inv, QueuesOK
        <4> QED
          BY <2>2, <3>1, <4>1 DEF Accept
      <3>2. CASE AcceptFails(a)
        BY <2>2, <3>2 DEF AcceptFails
      <3> QED
        BY <1>3, <3>1, <3>2
    <2> QED
      BY <1>1, <2>1, <2>3 DEF AtHome
  <1>4. ASSUME NEW s \in Services, TestNext(s) PROVE GetInv'
    <2> DEFINE at == IF next >= N THEN "over" ELSE "index"
    <2>1. /\ queue[s] # <<>> /\ Head(queue[s]).kind = "accept" /\ queue' = Taken(s)
          /\ next' = next /\ reg' = [reg EXCEPT ![s] = next]
          /\ thread' = [thread EXCEPT ![s] = [Head(queue[s]) EXCEPT !.at = at]]
      BY <1>4 DEF TestNext, Takes
    <2>2. AtHome(Taken(s)) /\ Head(queue[s]) \in Item /\ s = HomeOf(Head(queue[s]).server)
      BY <2>1, HomeTake, TakenTyped
    <2>3. \A t \in Services \ {s} : thread'[t] = thread[t] /\ thread[t].kind # "accept"
      BY <1>0, <2>1, InGet
    <2>4. Got(s)'
      <3>1. /\ thread'[s].kind = "accept" /\ thread'[s].at = at
            /\ thread'[s].server = Head(queue[s]).server /\ reg'[s] = next
        BY <1>0, <2>1, <2>2 DEF Item
      <3> QED
        BY <1>0, <2>1, <2>2, <3>1 DEF Got
    <2> QED
      BY <2>1, <2>2, <2>3, <2>4 DEF Got, AtHome
  <1>5. ASSUME NEW s \in Services, StartOver(s) \/ ReadIndex(s) PROVE GetInv'
    <2>1. /\ thread[s].kind = "accept" /\ queue' = queue /\ reg[s] \in 0 .. N
          /\ thread[s].at = "index" => next < N /\ reg[s] < N
          /\ s = HomeOf(thread[s].server) /\ thread[s] \in Item
      BY <1>0, <1>5 DEF StartOver, ReadIndex, At, Got
    <2>2. PICK at \in {"index", "get"} : thread' = [thread EXCEPT ![s].at = at]
      BY <1>5 DEF StartOver, ReadIndex
    <2>3. \A t \in Services \ {s} : thread'[t] = thread[t] /\ thread[t].kind # "accept"
      BY <1>0, <2>1, <2>2, InGet
    <2>4. thread'[s].server = thread[s].server /\ thread'[s].at = at
      BY <1>0, <2>1, <2>2 DEF Item
    <2>5. CASE StartOver(s)
      <3>1. reg'[s] = 0 /\ (at = "index" => next' = 0)
        <4>1. reg'[s] = 0
          BY <1>0, <2>5 DEF StartOver
        <4>2. CASE next' = 0
          BY <4>1, <4>2
        <4>3. CASE thread' = [thread EXCEPT ![s].at = "get"]
          <5>1. thread'[s] = [thread[s] EXCEPT !.at = "get"]
            BY <1>0, <4>3
          <5>2. at = "get"
            BY <2>1, <2>4, <5>1 DEF Item
          <5> QED
            BY <4>1, <5>2
        <4> QED
          BY <2>5, <4>2, <4>3 DEF StartOver
      <3>2. Got(s)'
        BY <1>0, <2>1, <2>4, <3>1 DEF Got
      <3> QED
        BY <2>1, <2>3, <3>2 DEF Got, AtHome
    <2>6. CASE ReadIndex(s)
      <3>1. reg'[s] < N /\ thread'[s].at = "get"
        BY <1>0, <2>1, <2>6 DEF ReadIndex, At, Item
      <3>2. Got(s)'
        BY <2>1, <2>4, <3>1 DEF Got
      <3> QED
        BY <2>1, <2>3, <3>2 DEF Got, AtHome
    <2> QED
      BY <1>5, <2>5, <2>6
  <1>6. ASSUME NEW s \in Services, StartAcceptor(s) PROVE GetInv'
    <2>1. /\ thread[s].kind = "accept" /\ queue' = queue /\ thread[s] \in Item
          /\ s = HomeOf(thread[s].server) /\ thread' = [thread EXCEPT ![s].at = "start"]
      BY <1>0, <1>6 DEF StartAcceptor, At, Got
    <2>2. \A t \in Services \ {s} : thread'[t] = thread[t] /\ thread[t].kind # "accept"
      BY <1>0, <2>1, InGet
    <2>3. thread'[s].server = thread[s].server /\ thread'[s].at = "start"
      BY <1>0, <2>1 DEF Item
    <2>4. Got(s)'
      BY <2>1, <2>3 DEF Got
    <2> QED
      BY <2>1, <2>2, <2>4 DEF Got, AtHome
  <1>7. ASSUME NEW s \in Services, StartSession(s) PROVE GetInv'
    <2>1. queue' = queue /\ next' = next /\ reg' = reg /\ thread' = [thread EXCEPT ![s] = Idle]
      BY <1>7 DEF StartSession
    <2>2. \A t \in Services : Got(t)'
      BY <1>0, <2>1, GotKept
    <2> QED
      BY <2>1, <2>2 DEF AtHome
  <1>8. ASSUME NEW c \in Clients, home[c] \in Services, NEW q \in [Services -> Seq(Item)],
               AtHome(q), ReadAgain(c, q) \/ Reply(c, q)
        PROVE  AtHome(queue')
    <2>1. /\ Completion("error", c) \in Item /\ Completion("error", c).kind # "accept"
          /\ Completion("write", c) \in Item /\ Completion("write", c).kind # "accept"
      BY CompletionsAre
    <2>2. PICK r \in [Services -> Seq(Item)] : AtHome(r) /\ ReadAgain(c, r)
      <3>1. CASE ReadAgain(c, q)
        BY <1>8, <3>1
      <3>2. CASE Reply(c, q) /\ client[c] = "reset"
        BY <1>8, <3>2 DEF Reply
      <3>3. CASE Reply(c, q) /\ client[c] # "reset"
        <4>1. AtHome(Post(q, home[c], Completion("write", c)))
          BY <1>8, <2>1, HomePost
        <4>2. Post(q, home[c], Completion("write", c)) \in [Services -> Seq(Item)]
          BY <2>1, Posted
        <4> QED
          BY <3>3, <4>1, <4>2 DEF Reply
      <3> QED
        BY <1>8, <3>1, <3>2, <3>3
    <2>3. AtHome(Post(r, home[c], Completion("error", c)))
      BY <1>8, <2>1, <2>2, HomePost
    <2> QED
      BY <2>2, <2>3 DEF ReadAgain
  <1>9. ASSUME NEW s \in Services, HandlePacket(s) \/ HandleQuery(s) PROVE GetInv'
    <2>1. /\ queue[s] # <<>> /\ Head(queue[s]).kind = "read" /\ thread[s] = Idle
          /\ UNCHANGED <<thread, next, reg>>
          /\ ReadAgain(Head(queue[s]).of, Taken(s)) \/ Reply(Head(queue[s]).of, Taken(s))
      BY <1>9 DEF HandlePacket, HandleQuery, Takes
    <2>2. AtHome(Taken(s)) /\ Head(queue[s]) \in Item /\ Taken(s) \in [Services -> Seq(Item)]
      BY <2>1, HomeTake, TakenTyped
    <2>3. PICK c \in Clients : c = Head(queue[s]).of
      BY <2>1, <2>2, OfOneSession
    <2>4. Head(queue[s]) \in TurnsOf(c) /\ Head(queue[s]) = queue[s][1] /\ 1 \in 1 .. Len(queue[s])
      BY <1>0, <2>1, <2>2, <2>3 DEF TurnsOf
    <2>5. ~Nowhere(TurnsOf(c), queue, thread)
      BY <2>4 DEF Nowhere
    <2>6. client[c] \in {"accepted", "sent", "reset"}
      BY <2>5, TurnIs DEF OneInv
    <2>7. home[c] \in Services
      BY <2>6 DEF OneInv, HomesOK
    <2>8. AtHome(queue')
      BY <1>8, <2>1, <2>2, <2>3, <2>7
    <2> QED
      BY <1>1, <2>1, <2>8 DEF AtHome
  <1>10. ASSUME NEW s \in Services, HandleStore(s) PROVE GetInv'
    <2> DEFINE x == [Head(queue[s]) EXCEPT !.at = "lock"]
    <2>1. /\ queue[s] # <<>> /\ Head(queue[s]).kind = "read" /\ queue' = Taken(s)
          /\ next' = next /\ reg' = reg /\ thread' = [thread EXCEPT ![s] = x]
      BY <1>10 DEF HandleStore, Takes
    <2>2. AtHome(Taken(s)) /\ Head(queue[s]) \in Item
      BY <2>1, HomeTake, TakenTyped
    <2>3. x.kind # "accept"
      BY <2>1, <2>2 DEF Item
    <2>4. \A t \in Services : Got(t)'
      BY <2>1, <2>3, GotKept
    <2> QED
      BY <2>1, <2>2, <2>4 DEF AtHome
  <1>11. ASSUME NEW s \in Services, LockFile(s) PROVE GetInv'
    <2> DEFINE x == [thread[s] EXCEPT !.at = "unlock"]
    <2>1. /\ thread[s].kind = "read" /\ queue' = queue
          /\ next' = next /\ reg' = reg /\ thread' = [thread EXCEPT ![s] = x]
      BY <1>11 DEF LockFile, At
    <2>2. x.kind # "accept"
      BY <1>0, <2>1 DEF Item, Idle
    <2>3. \A t \in Services : Got(t)'
      BY <2>1, <2>2, GotKept
    <2> QED
      BY <2>1, <2>3 DEF AtHome
  <1>12. ASSUME NEW s \in Services, UnlockFile(s) PROVE GetInv'
    <2>1. /\ thread[s].kind = "read" /\ next' = next /\ reg' = reg
          /\ thread' = [thread EXCEPT ![s] = Idle] /\ Reply(thread[s].of, queue)
      BY <1>12 DEF UnlockFile, At
    <2>2. thread[s] \in Item
      BY <1>0, <2>1 DEF Idle
    <2>3. PICK c \in Clients : c = thread[s].of
      BY <2>1, <2>2, OfOneSession
    <2>4. ~Nowhere(TurnsOf(c), queue, thread)
      BY <2>1, <2>2, <2>3 DEF Nowhere, TurnsOf
    <2>5. client[c] \in {"accepted", "sent", "reset"}
      BY <2>4, TurnIs DEF OneInv
    <2>6. home[c] \in Services
      BY <2>5 DEF OneInv, HomesOK
    <2>7. AtHome(queue')
      BY <1>0, <1>8, <2>1, <2>3, <2>6
    <2>8. \A t \in Services : Got(t)'
      BY <1>0, <2>1, GotKept
    <2> QED
      BY <2>7, <2>8 DEF AtHome
  <1>13. ASSUME NEW s \in Services, HandleWrite(s) \/ HandleError(s) PROVE GetInv'
    <2>1. queue[s] # <<>> /\ Head(queue[s]).kind # "accept" /\ UNCHANGED <<thread, next, reg>>
      BY <1>13 DEF HandleWrite, HandleError, Takes
    <2>2. /\ AtHome(Taken(s)) /\ Head(queue[s]) \in Item /\ Taken(s) \in [Services -> Seq(Item)]
      BY <2>1, HomeTake, TakenTyped
    <2>3. AtHome(Post(Taken(s), s, Head(queue[s])))
      BY <2>1, <2>2, HomePost
    <2>4. AtHome(queue')
      BY <1>13, <2>2, <2>3 DEF HandleWrite, HandleError
    <2> QED
      BY <1>1, <2>1, <2>4 DEF AtHome
  <1>14. ASSUME \/ OtherLocks \/ OtherUnlocks \/ UNCHANGED poolVars
                \/ \E s \in Services : Die(s)
         PROVE  GetInv'
    <2>1. UNCHANGED <<thread, next, reg, queue>>
      BY <1>14 DEF OtherLocks, OtherUnlocks, Die, poolVars
    <2> QED
      BY <1>1, <2>1 DEF AtHome
  <1> QED
    BY <1>2, <1>3, <1>4, <1>5, <1>6, <1>7, <1>9, <1>10, <1>11, <1>12, <1>13, <1>14
    DEF Next, IoThread

\* A read node, which has no acceptor for reports, and a node with two io threads
\* at most never look past the end of m_io_services: the acceptors share a thread,
\* and nobody else calls get().
THEOREM NeverRacedAlone ==
    ASSUME N <= 2 \/ DataClients = {}
    PROVE  Spec => []IndexInPool
  <1>1. OneHome
    BY HomesAre
  <1>2. Init => GetInv
    BY DEF Init, GetInv, AtHome, Got, Idle
  <1>3. GetInv => IndexInPool
    BY DEF GetInv, Got, IndexInPool, At
  <1> QED
    BY <1>1, <1>2, <1>3, InvInit, InvNext, OneInit, OneNext, GetNext, PTL DEF Spec
===============================================================================
