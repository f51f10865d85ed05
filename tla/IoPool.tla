-------------------------------- MODULE IoPool --------------------------------
(***************************************************************************)
(* The threads that serve the clients: one io_service per thread, each a   *)
(* FIFO queue of completions, the two acceptors, and the round robin that  *)
(* gives every new session an io_service (io_service_pool::get).           *)
(*                                                                         *)
(* What a session does with the bytes it gets is in TcpSession; here a     *)
(* command takes its thread for a step, or, if it is "store", until the    *)
(* lock on storeLockFile is free.                                          *)
(***************************************************************************)
EXTENDS Naturals, Sequences, FiniteSets

CONSTANTS
    N,            \* threadCount: number of io_services
    CmdClients,   \* clients of the command port
    DataClients,  \* clients of the ingest port; none on a read node
    MaxReads,     \* bound: reads of one client that complete
    MaxErrors,    \* bound: accepts that fail
    MaxResets,    \* bound: connections that clients reset
    Other,        \* the store thread or the read node, as a holder of the lock
    None

Clients == CmdClients \cup DataClients
Services == 0 .. N - 1
Acceptors == IF DataClients = {} THEN <<CmdClients>> ELSE <<CmdClients, DataClients>>
Servers == DOMAIN Acceptors

ASSUME PoolAssumption ==
    /\ N \in Nat \ {0}
    /\ CmdClients \cap DataClients = {} /\ None \notin Clients
    /\ MaxReads \in Nat /\ MaxErrors \in Nat /\ MaxResets \in Nat

VARIABLES
    alive,    \* the process runs
    next,     \* m_next_io_service
    reg,      \* its value as each io thread has it
    slot,     \* io_service of the session each acceptor has prepared
    armed,    \* acceptors with an async_accept outstanding
    queue,    \* completions that wait for each io_service
    thread,   \* the completion each io thread is handling, and how far it is
    backlog,  \* connections the kernel has for each acceptor
    client,   \* where each client is
    home,     \* io_service of each client's session
    lock,     \* io thread that has the lock on storeLockFile
    reads, errors, resets   \* bounds so far

poolVars == <<alive, next, reg, slot, armed, queue, thread, backlog, client, home,
              lock, reads, errors, resets>>
-----------------------------------------------------------------------------
\* Mutant: the round robin does not start over.
NthOnly(k) == k - 1

\* The constructors call get() one after the other, twice per server: for the
\* acceptor and for its first session.
Nth(k) == (k - 1) % N
HomeOf(a) == Nth(2 * a - 1)
NextAfter(k) == Nth(k) + 1

Idle == [kind |-> "none", of |-> None, at |-> "none"]
Completion(kind, of) == [kind |-> kind, of |-> of, at |-> "begin"]
Accepted(a, c) == [kind |-> "accept", server |-> a, of |-> c, at |-> "begin"]

Server(c) == CHOOSE a \in Servers : c \in Acceptors[a]

Init ==
    /\ alive = TRUE
    /\ next = NextAfter(2 * Len(Acceptors))
    /\ reg = [s \in Services |-> 0]
    /\ slot = [a \in Servers |-> Nth(2 * a)]
    /\ armed = Servers
    /\ queue = [s \in Services |-> <<>>]
    /\ thread = [s \in Services |-> Idle]
    /\ backlog = [a \in Servers |-> <<>>]
    /\ client = [c \in Clients |-> "away"]
    /\ home = [c \in Clients |-> None]
    /\ lock = None
    /\ reads = [c \in Clients |-> 0] /\ errors = 0 /\ resets = 0

Post(q, s, item) == [q EXCEPT ![s] = Append(@, item)]
Bounds == <<reads, errors, resets>>
-----------------------------------------------------------------------------
(***************************************************************************)
(* Clients and kernel.                                                     *)
(***************************************************************************)
Connect(c) ==
    /\ alive
    /\ client[c] = "away"
    /\ client' = [client EXCEPT ![c] = "waiting"]
    /\ backlog' = [backlog EXCEPT ![Server(c)] = Append(@, c)]
    /\ UNCHANGED <<alive, next, reg, slot, armed, queue, thread, home, lock, Bounds>>

\* An outstanding async_accept completes with the first connection.
Accept(a) ==
    /\ alive
    /\ a \in armed /\ backlog[a] # <<>>
    /\ LET c == Head(backlog[a]) IN
          /\ client' = [client EXCEPT ![c] = "accepted"]
          /\ home' = [home EXCEPT ![c] = slot[a]]
          /\ queue' = Post(queue, HomeOf(a), Accepted(a, c))
    /\ backlog' = [backlog EXCEPT ![a] = Tail(@)]
    /\ armed' = armed \ {a}
    /\ UNCHANGED <<alive, next, reg, slot, thread, lock, Bounds>>

\* It may as well complete with an error: too many open files.
AcceptFails(a) ==
    /\ alive
    /\ a \in armed
    /\ errors < MaxErrors
    /\ errors' = errors + 1
    /\ queue' = Post(queue, HomeOf(a), Accepted(a, None))
    /\ armed' = armed \ {a}
    /\ UNCHANGED <<alive, next, reg, slot, thread, backlog, client, home, lock, reads, resets>>

\* A client sends something, and the read of its session completes.
Send(c) ==
    /\ alive
    /\ client[c] = "open"
    /\ reads[c] < MaxReads
    /\ reads' = [reads EXCEPT ![c] = @ + 1]
    /\ client' = [client EXCEPT ![c] = "sent"]
    /\ queue' = Post(queue, home[c], Completion("read", c))
    /\ UNCHANGED <<alive, next, reg, slot, armed, thread, backlog, home, lock, errors, resets>>

\* A client resets its connection; a read that is outstanding fails.
Reset(c) ==
    /\ alive
    /\ client[c] \in {"accepted", "open", "sent"}
    /\ resets < MaxResets
    /\ resets' = resets + 1
    /\ client' = [client EXCEPT ![c] = "reset"]
    /\ queue' = IF client[c] = "open" THEN Post(queue, home[c], Completion("error", c))
                ELSE queue
    /\ UNCHANGED <<alive, next, reg, slot, armed, thread, backlog, home, lock, reads, errors>>

\* The store thread or the read node uses the lock.
OtherLocks ==
    /\ lock = None
    /\ lock' = Other
    /\ UNCHANGED <<alive, next, reg, slot, armed, queue, thread, backlog, client, home, Bounds>>

OtherUnlocks ==
    /\ lock = Other
    /\ lock' = None
    /\ UNCHANGED <<alive, next, reg, slot, armed, queue, thread, backlog, client, home, Bounds>>
-----------------------------------------------------------------------------
(***************************************************************************)
(* The io thread of service s: io_service::run takes one completion after  *)
(* the other.  Only accepts and "store" take more than one step.           *)
(***************************************************************************)
Takes(s, kind) ==
    /\ alive
    /\ thread[s] = Idle /\ queue[s] # <<>>
    /\ Head(queue[s]).kind = kind
Taken(s) == [queue EXCEPT ![s] = Tail(@)]
At(s, kind, at) == alive /\ thread[s].kind = kind /\ thread[s].at = at

\* Mutant: the test lets the index of one past the end through.
TestNextPastEnd(s) ==
    /\ Takes(s, "accept")
    /\ reg' = [reg EXCEPT ![s] = next]
    /\ thread' = [thread EXCEPT ![s] = [Head(queue[s]) EXCEPT !.at = IF next > N THEN "over"
                                                                  ELSE "index"]]
    /\ queue' = Taken(s)
    /\ UNCHANGED <<alive, next, slot, armed, backlog, client, home, lock, Bounds>>

\* handle_acceptor calls start_acceptor first, whatever the outcome.  get() has
\* no lock: it tests m_next_io_service, and starts over when that is past the end.
TestNext(s) ==
    /\ Takes(s, "accept")
    /\ reg' = [reg EXCEPT ![s] = next]
    /\ thread' = [thread EXCEPT ![s] = [Head(queue[s]) EXCEPT !.at = IF next >= N THEN "over"
                                                                  ELSE "index"]]
    /\ queue' = Taken(s)
    /\ UNCHANGED <<alive, next, slot, armed, backlog, client, home, lock, Bounds>>

\* A build may leave out the store of 0, which the increment overwrites.
StartOver(s) ==
    /\ At(s, "accept", "over")
    /\ reg' = [reg EXCEPT ![s] = 0]
    /\ \/ next' = 0 /\ thread' = [thread EXCEPT ![s].at = "index"]
       \/ next' = next /\ thread' = [thread EXCEPT ![s].at = "get"]
    /\ UNCHANGED <<alive, slot, armed, queue, backlog, client, home, lock, Bounds>>

\* The index is read again, or a build still has it in a register.
ReadIndex(s) ==
    /\ At(s, "accept", "index")
    /\ reg' \in {reg, [reg EXCEPT ![s] = next]}
    /\ thread' = [thread EXCEPT ![s].at = "get"]
    /\ UNCHANGED <<alive, next, slot, armed, queue, backlog, client, home, lock, Bounds>>

\* Mutant: after an error the acceptor does not listen again.
StartAcceptorOnSuccess(s) ==
    /\ At(s, "accept", "get")
    /\ reg[s] < N
    /\ next' = reg[s] + 1
    /\ slot' = [slot EXCEPT ![thread[s].server] = reg[s]]
    /\ armed' = IF thread[s].of = None THEN armed ELSE armed \cup {thread[s].server}
    /\ thread' = [thread EXCEPT ![s].at = "start"]
    /\ UNCHANGED <<alive, reg, queue, backlog, client, home, lock, Bounds>>

StartAcceptor(s) ==
    /\ At(s, "accept", "get")
    /\ reg[s] < N
    /\ next' = reg[s] + 1
    /\ slot' = [slot EXCEPT ![thread[s].server] = reg[s]]
    /\ armed' = armed \cup {thread[s].server}
    /\ thread' = [thread EXCEPT ![s].at = "start"]
    /\ UNCHANGED <<alive, reg, queue, backlog, client, home, lock, Bounds>>

\* The session of a failed accept is closed.
StartSession(s) ==
    /\ At(s, "accept", "start")
    /\ LET c == thread[s].of IN
          /\ c # None => client[c] = "accepted"
          /\ client' = IF c = None THEN client ELSE [client EXCEPT ![c] = "open"]
    /\ thread' = [thread EXCEPT ![s] = Idle]
    /\ UNCHANGED <<alive, next, reg, slot, armed, queue, backlog, home, lock, Bounds>>

\* The next read of c; one of a connection that was reset fails at once.
ReadAgain(c, q) ==
    /\ client' = IF client[c] = "reset" THEN client ELSE [client EXCEPT ![c] = "open"]
    /\ queue' = IF client[c] = "reset" THEN Post(q, home[c], Completion("error", c)) ELSE q

\* The reply is followed by write after write of the empty buffer, each of which
\* completes at once, unless the reply itself cannot be written.
Reply(c, q) ==
    ReadAgain(c, IF client[c] = "reset" THEN q ELSE Post(q, home[c], Completion("write", c)))

HandlePacket(s) ==
    /\ Takes(s, "read")
    /\ Head(queue[s]).of \in DataClients
    /\ ReadAgain(Head(queue[s]).of, Taken(s))
    /\ UNCHANGED <<alive, next, reg, slot, armed, thread, backlog, home, lock, Bounds>>

HandleQuery(s) ==
    /\ Takes(s, "read")
    /\ Head(queue[s]).of \in CmdClients
    /\ client[Head(queue[s]).of] # "reset"
    /\ Reply(Head(queue[s]).of, Taken(s))
    /\ UNCHANGED <<alive, next, reg, slot, armed, thread, backlog, home, lock, Bounds>>

\* Mutant: the session reads on while its command waits for the lock.
HandleStoreReading(s) ==
    /\ Takes(s, "read")
    /\ Head(queue[s]).of \in CmdClients
    /\ client[Head(queue[s]).of] # "reset"
    /\ thread' = [thread EXCEPT ![s] = [Head(queue[s]) EXCEPT !.at = "lock"]]
    /\ ReadAgain(Head(queue[s]).of, Taken(s))
    /\ UNCHANGED <<alive, next, reg, slot, armed, backlog, home, lock, Bounds>>

HandleStore(s) ==
    /\ Takes(s, "read")
    /\ Head(queue[s]).of \in CmdClients
    /\ client[Head(queue[s]).of] # "reset"
    /\ thread' = [thread EXCEPT ![s] = [Head(queue[s]) EXCEPT !.at = "lock"]]
    /\ queue' = Taken(s)
    /\ UNCHANGED <<alive, next, reg, slot, armed, backlog, client, home, lock, Bounds>>

LockFile(s) ==
    /\ At(s, "read", "lock")
    /\ lock = None
    /\ lock' = s
    /\ thread' = [thread EXCEPT ![s].at = "unlock"]
    /\ UNCHANGED <<alive, next, reg, slot, armed, queue, backlog, client, home, Bounds>>

UnlockFile(s) ==
    /\ At(s, "read", "unlock")
    /\ lock' = None
    /\ Reply(thread[s].of, queue)
    /\ thread' = [thread EXCEPT ![s] = Idle]
    /\ UNCHANGED <<alive, next, reg, slot, armed, backlog, home, Bounds>>

\* Mutant: an empty write completes on the spot and the thread goes round in it.
HandleWriteAtOnce(s) ==
    /\ Takes(s, "write")
    /\ UNCHANGED poolVars

\* handle_write writes again, also after the session was closed.
HandleWrite(s) ==
    /\ Takes(s, "write")
    /\ queue' = Post(Taken(s), s, Head(queue[s]))
    /\ UNCHANGED <<alive, next, reg, slot, armed, thread, backlog, client, home, lock, Bounds>>

HandleError(s) ==
    /\ Takes(s, "error")
    /\ queue' = Taken(s)
    /\ UNCHANGED <<alive, next, reg, slot, armed, thread, backlog, client, home, lock, Bounds>>

\* remote_endpoint() of a connection that was reset throws, at the start of a
\* session and before a command, and nobody catches it; an index past the end
\* fails an assertion of ptr_vector.  A process started anew begins in Init.
Die(s) ==
    /\ \/ At(s, "accept", "get") /\ reg[s] >= N
       \/ At(s, "accept", "start") /\ thread[s].of # None /\ client[thread[s].of] = "reset"
       \/ /\ Takes(s, "read")
          /\ Head(queue[s]).of \in CmdClients /\ client[Head(queue[s]).of] = "reset"
    /\ alive' = FALSE
    /\ lock' = IF lock = Other THEN Other ELSE None
    /\ UNCHANGED <<next, reg, slot, armed, queue, thread, backlog, client, home, Bounds>>
-----------------------------------------------------------------------------
IoThread(s) ==
    \/ TestNext(s) \/ StartOver(s) \/ ReadIndex(s) \/ StartAcceptor(s) \/ StartSession(s)
    \/ HandlePacket(s) \/ HandleQuery(s) \/ HandleStore(s) \/ UnlockFile(s)
    \/ HandleWrite(s) \/ HandleError(s)
    \/ Die(s)

Next ==
    \/ \E c \in Clients : Connect(c) \/ Send(c) \/ Reset(c)
    \/ \E a \in Servers : Accept(a) \/ AcceptFails(a)
    \/ OtherLocks \/ OtherUnlocks
    \/ \E s \in Services : IoThread(s) \/ LockFile(s)

Spec == Init /\ [][Next]_poolVars

\* Every thread goes on with what its queue holds, the kernel completes what it
\* can, and a lock that others take and give back is granted in the end.
Fairness ==
    /\ \A s \in Services : WF_poolVars(IoThread(s)) /\ SF_poolVars(LockFile(s))
    /\ \A a \in Servers : WF_poolVars(Accept(a))
    /\ WF_poolVars(OtherUnlocks)

FairSpec == Spec /\ Fairness
-----------------------------------------------------------------------------
\* The completions, waiting or being handled, that satisfy P.
Number(P(_)) ==
    Cardinality({s \in Services : P(thread[s])})
    + Cardinality(UNION {{<<s, i>> : i \in {j \in DOMAIN queue[s] : P(queue[s][j])}} :
                            s \in Services})

TypeOK ==
    /\ alive \in BOOLEAN
    \* The index is never further than one past the end of m_io_services, and
    \* what a session is given is in it: whoever reads the index past the end dies.
    /\ next \in 0 .. N /\ reg \in [Services -> 0 .. N]
    /\ slot \in [Servers -> Services]
    /\ armed \subseteq Servers
    /\ client \in [Clients -> {"away", "waiting", "accepted", "open", "sent", "reset"}]
    /\ home \in [Clients -> Services \cup {None}]
    /\ lock \in Services \cup {Other, None}

\* Neither an acceptor nor a session is ever left without the operation that
\* brings it its next completion, nor does it have two of them at once, so that
\* no two threads handle the same session: through accepts that fail, replies,
\* waits for the lock and resets.
OneAtATime ==
    /\ \A a \in Servers :
          LET P(i) == i.kind = "accept" /\ i.server = a /\ i.at # "start"
          IN  Number(P) = IF a \in armed THEN 0 ELSE 1
    /\ \A c \in Clients :
          LET P(i) == i.of = c /\ i.kind # "write"
          IN  CASE client[c] \in {"accepted", "sent"} -> Number(P) = 1
                [] client[c] = "reset" -> Number(P) <= 1
                [] OTHER -> Number(P) = 0

\* The index that get() passes to m_io_services is that of an io_service, as
\* ptr_vector asserts.  Between its test and its use of m_next_io_service the
\* thread of the other acceptor may move it past the end.
IndexInPool == \A s \in Services : At(s, "accept", "get") => reg[s] < N

\* Who connects is accepted, as long as the process lives, although accepts fail,
\* threads wait for the lock and every reply leaves an endless series of writes
\* behind.
Welcomed ==
    \A c \in Clients :
        client[c] = "waiting" ~> ~alive \/ client[c] \notin {"waiting", "accepted"}

\* What a client sends is handled, that is, its session reads again.
Served == \A c \in Clients : client[c] = "sent" ~> ~alive \/ client[c] # "sent"
===============================================================================
