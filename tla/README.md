# metrictree: models, checks and proofs

metrictree keeps the names of all metrics of a graphite/opentsdb installation as a
tree in memory and answers "what is below this path" over TCP. A **write node**
receives metric lines and flushes the tree to a file, **read nodes** reload that file
and answer queries. Everything of its own is some 2 900 lines of C++ (`inc.hpp` holds
most of it, as globals); the rest of the repository is a vendored Boost 1.59.

This directory holds TLA+ models of its parts, the TLC runs that check them and TLAPS
proofs about them. Paths below are relative to `src/`.

## 1. The system

| Component | State | Operations | Code | Model |
|---|---|---|---|---|
| Ingest into the tree | `myTree`, `mtx_`, `storeFlag`, counters | `buildTree` (one call per reported key, any io thread), `erase` | `inc.hpp` 427-463, 1413-1442 | `WriteNode`, `WriteNodeFresh` |
| Flush and startup load | temporary file `dataDir-Y-M-D-H`, data file, lock file, `storeFlag` | `storeThread`, `runCmd("store")`, `treeSave`, `load`, `treeLoad` | `inc.hpp` 605-725, 810-916, 1112-1163, 1360-1412, `main.cpp` 107-131 | `WriteNode`, `WriteNodeStore`, `WriteNodeSavers`, `SnapshotStore` |
| Read node | `myTree`, `myTreeSwap`, `swapFlag`, `preStoreFileSize` | `reloadStoreThread`, `reloadStore` | `inc.hpp` 1164-1316 | `ReadNode`, beside a write node `StorePair` |
| Queries | trees, read only | `finder` (two algorithms), `tree`, `deepTree`, `expire`, `expireAll`, `printTree` | `inc.hpp` 106-585 | `MetricTree`, `KeyTable`, `DeepScan` |
| Ingest packets | none between packets | `echo_handler::echo_handle_read` | `echo_handler.hpp` 54-109 | `TcpSession` |
| Commands | reply | `echo_handler_cmd::echo_handle_read`, `runCmd` | `echo_handler_cmd.hpp` 31-156, `inc.hpp` 761-1111 | framing in `TcpSession`, effects in the others |
| TCP session | socket, read and write stream buffers | `handle_read`, `handle_read_cmd`, `write`, `handle_write`, `close` | `tcp_session.cpp` | `TcpSession`, `IoPool` |
| Acceptors, thread pool | `m_next_io_service`, threads | `start_acceptor`, `handle_acceptor`, `get`, `start`, `run` | `tcp_server.hpp`, `io_service_pool.hpp` | `IoPool` |
| Lifecycle | `stopFlag`, pid | `main`, `init_daemon`, `signalFunc`, `stopApp` | `main.cpp`, `daemon.h`, `inc.hpp` 1317-1359 | `WriteNodeStop` |
| Status counters, configuration check, logging, command line client | texts and counters that nothing else depends on | | | not modelled |

How they interact:

* every io thread of the pool serves one `io_service`; acceptors and sessions are
  given an `io_service` by round robin (`get`), so one thread handles the packets and
  commands of many clients one after the other, and a `store` that waits for the lock
  keeps all of them waiting. The io threads run both the ingest sessions
  (`buildTree`) and the command sessions (`runCmd`); the store thread (write node) or
  the reload thread (read node) runs beside them. They share `myTree` and plain `bool`
  flags. `mtx_` protects only the `put` in `buildTree`.
* the store thread, a client's `store` and the SIGTERM handler all run
  `runCmd("store")`: write a temporary file named after the hour, take `flock` on
  `storeLockFile`, `rename` over the data file, release.
* the read node, if it is on the same machine, takes the same `flock` while it loads.
  Otherwise the file reaches it by rsync.
* startup loads the data file before any thread exists; SIGTERM is handled by the main
  thread, during that load or while it waits for the others (`join_all`).

Hard behaviours: reports racing with a flush (a late `put`), the unlocked read in
`buildTree`, several savers of the same hour, a save that fails half way or, unnoticed, at
its last buffer, death between two steps, a load that fails and is not noticed, a reader
holding the lock, the data file replaced between `stat` and load, the swap of two trees
under running queries, a stop in the middle of other flushes or of the load, two acceptors
racing for an `io_service`, accepts that fail, clients that reset, TCP cutting packets and
commands anywhere, stale bytes in the stream buffer, replies longer than the socket's
room. `PROJECT.json` lists each with its line under "hazards".

What makes each component correct:

* ingest: a reported key is in the tree with a time at most `KEY_EXPIRE_TIME` old;
* flush: the data file is whole, changes only under the lock, loses no key, is (almost)
  a snapshot, but for a last buffer that was lost unnoticed; a key in memory gets to
  disk; dropping of reports ends;
* read node: a query is given a whole tree, never an older one than before; the file is
  read only when it is settled; a new file is served in the end;
* queries: both finder algorithms, `tree`, `deepTree`, `expire` and `expireAll` agree
  on what is a metric;
* packets and commands: every complete line is used exactly once;
* sessions: replies go out in order and once, each as far as the socket takes it;
* pool: the index stays in range, an acceptor or a session always has exactly one
  operation outstanding, every client is served;
* lifecycle: SIGTERM flushes, loses nothing, and ends;
* the two nodes on one machine: each keeps to what the other one relies on.

## 2. The modules

| Module | Models | Uses |
|---|---|---|
| `WriteNode` | ingest, erase, flush, lock file, failing saves, death and restart | |
| `SnapshotStore` | abstract: a table with a fuzzy snapshot on disk | |
| `WriteNodeStore` | `WriteNode` implements `SnapshotStore`; what a flush may lose or invent | `WriteNode`, `SnapshotStore` |
| `WriteNodeFresh` | how far a stored time may lag | `WriteNode` |
| `WriteNodeStop` | SIGTERM: the flush of `stopApp` beside the other savers, `exit(0)` | `WriteNode` |
| `WriteNodeSavers` | what a completed `store` and a stop are worth with several savers | `WriteNodeStop` |
| `ReadNode` | reload thread, queries, file, lock, failing loads, death | |
| `MetricTree` | the property tree, reports, erase, flush, load, all query algorithms | `KeyTable` |
| `KeyTable` | abstract: a table of keys and times | |
| `TcpSession` | one connection: buffers, framing, handlers, write loop | |
| `StorePair` | write node and read node on one machine: one file, one lock | `WriteNode`, `ReadNode` |
| `IoPool` | acceptors, round robin, io threads and their queues, sessions as a whole | |
| `DeepScan` | `treeStatus` with its time limit and the widest directory | `MetricTree` |
| `WriteNodeStoreProofs` | theorems | `WriteNodeStore`, `WriteNodeFresh`, `WriteNodeProofs` |
| `WriteNodeProofs`, `WriteNodeStopProofs`, `ReadNodeProofs`, `StorePairProofs`, `IoPoolProofs`, `TcpSessionProofs` | theorems | the module of that name |
| `MetricTreeProofs` | theorems | `MetricTree`, `DeepScan` |
| `MCWriteNodeStore`, `MCReadNode`, `MCStorePair`, `MCMetricTree`, `MCTcpSession` | values and symmetry for TLC | |

Operators whose comment begins with "Mutant:" are what a plausible bug would make of
the definition that follows them. Nothing uses them; each run's properties are known
to fail when the definition is replaced by its mutant.

### WriteNode

Keys are independent: `tree[k]` is the `time_t` stored under `k`, `Absent` (0) is the
default of `myTree.get`. Prefixes and directories are the matter of `MetricTree`.

* `buildTree` is four steps per worker, as the code interleaves: `ReportKey` (the test
  of `storeFlag`, unlocked; a report that finds it raised is dropped and is no step),
  `ReadNode` (the unlocked `get`; while another worker is inside `put` it may also
  miss the key), `LockTree`, `PutKey`. `now` is taken at the start of the call.
* the `store` command is, per saver, `BeginStore`, `OpenTmp` (name of the current
  hour, truncated), `WriteSlot` for every key in any order (the file grows while it is
  written; the value is that of the tree at that moment), `CloseTmp`, `SaveFails` or
  `CloseCut`, `LockFile` (a blocking `flock`), `Rename`, `UnlockFile`, `FinishStore`.
  `storeFlag` is raised by the store thread only; the variable of that name in the
  client's path is a local one.
* a save fails in two ways. `SaveFails`: a write before the last one fails, `write_xml`
  throws, `treeSave` returns false, there is no lock and no rename, and the file is left
  behind. `CloseCut`: the last buffer, which is the whole file if it is small, is written
  when the file is closed, by the destructor of `write_xml`'s stream or by
  `file.close()`, and nobody looks at the result; `treeSave` returns true and the cut
  file is renamed over the data file. A file says by its `end` whether it is still
  "open", was "closed" with all that was written, or was "cut" this way.
* files have identities: a saver writes through an open `handle`, and `rename` moves
  the file under it, so a second saver that opened the same temporary file goes on
  writing to what has become the data file (`Moved`), or to a file without a name
  (`Detached`).
* `Crash` clears memory, frees the process's lock and leaves the files; `Restart` is
  `main` with `load`: a whole file gives its image, a cut xml file gives an empty tree
  (the parse error is ignored) or what was above the cut, a cut archive kills the
  process again (`Loadable`).
* `ReaderLocks`/`ReaderUnlocks` is the read node on the same machine.

### WriteNodeStop and WriteNodeSavers

The main thread is one more saver, `Handler`: `Term` is the call of `stopApp` by
`signalFunc` while main waits in `join_all` (a daemon only: `init_daemon` installs the
handler), `HandlerStep` the same flush as everybody's, `Exit` the call of `exit(0)`,
which destroys the global tree while the other threads go on, `ExitEnds` the end of the
process. `TermLoading` is a SIGTERM while main is still in `load`: there are no threads
yet, and `PartlyLoaded` is what `myTree` may be then (nothing for xml, some of the keys
for an archive). The flush stores that over the data file; no property says otherwise.

`WriteNodeSavers` adds histories: `settled` (savers that saw the data file replaced),
`alone` and `owed` (no other saver since the signal; the keys it has to keep).

### StorePair

`WriteNode` and `ReadNode` instantiated side by side over one `file` and one `flock`.
Each module has actions for the other node (`ReaderLocks`, `ReaderUnlocks`; `Publish`,
`WriterLocks`, `WriterUnlocks`); here they are not taken by themselves, and
`WriterAsModelled` and `ReaderAsModelled` say that what the other node does instead is
one of them. The file is mapped to `ReadNode`'s version, age and end (`End`), the last
from the real slots of the data file. Ages of the two files are kept apart because
`rename` keeps the mtime; `cuts` remembers which versions lost their last buffer.

### IoPool

One queue of completions and one thread per `io_service`. `Accept`, `AcceptFails`, `Send`
and `Reset` are what the kernel and the clients bring; everything else is a handler on its
thread. `handle_acceptor` begins with `get` in `start_acceptor`, whose accesses to
`m_next_io_service` are steps with the other acceptor's in between: `TestNext`,
`StartOver` (the assignment of 0, which a build may drop since the increment overwrites
it), `ReadIndex` (the variable is read again, or a build still has it in a register) and
`StartAcceptor` (the increment, and the session on the io_service of that index). An index
past the end fails an assertion of `ptr_vector`, and the process dies (`Die`).
`StartSession` then opens the session or dies in `remote_endpoint()`. A command is one
step (`HandleQuery`), or waits for the lock file (`HandleStore`, `LockFile`,
`UnlockFile`); each reply leaves a `HandleWrite` that posts itself for ever. Two `store`s
at once are two io threads that take the lock one after the other; `Other` is the store
thread or the read node.

### ReadNode

A tree is the version of the file it came from and whether it is whole. Every version has
a `Size`, which need not be a new one: the thread looks at nothing else. The steps of
`reloadStoreThread` are `Stat`, `Settle` (waits for the mtime it has, compares the size),
`LockStore`, `Load` (into `myTreeSwap`), `UnlockStore`, `RaiseFlag`, `ClearTree`,
`AssignTree`, `LowerFlag`, `DropSwap`. A query decides once which tree it walks (`Ask`, by
`swapFlag`; `AskMyTree` for `expire`, `expireAll`, `print`, which use `myTree` whatever
the flag says; `LookAgain` for `finderByTree`, which looks at the flag again for every
child). `dirty` and `spans` record that its tree was changed under it, and that the flag
flipped or a client erased. `EraseKey` shows only in the queries it disturbs, since a tree
is the version it was loaded from. `Die` is always possible: a query whose tree is changed
under it may crash, and an `erase` below a missing path throws. `Publish` is the write
node's rename or rsync, of a whole file or of a cut one, `OverwriteBegin`/`OverwriteEnd` a
process that locks the data file and rewrites it.

### MetricTree and KeyTable

The ptree is a function from the paths of its nodes to their data. `Report`, `Erase`,
`EraseThrows` (parent missing: `get_child` throws, nobody catches it, the process comes
back with the file), `Save`, `Restart`. The answers are operators: `FinderByTree` (from
`FIND_METHOD_SPLIT` dots on, a metric is what has no children), `FinderByIter` (below
that, a metric is what has data), `Tree`, `DeepTree`, `Expire`, `ExpireAll`.
`KeyTable` knows neither nodes nor directories.

`DeepScan` has the scan with its limit: the clock is read before every entry, so how
far the scans of one request get is a number of steps, the same one for the scan of the
first level and for that of everything below, since `startTime` is not renewed. `Turn`
is one turn of the loop in `treeStatus`, `Level` the loop; the recursion is the function
`Below`. `DeepTreeInTime` asks `SuccessIsNearlyAll` of the states with nothing saved,
which has TLC look at every tree without looking at it again for every file.

### TcpSession

One connection, its client being a relay that sends packets to the ingest port, a client
that sends the next command when it has its reply, or as much of it as comes, or one that
sends them all at once. A cell stands for some bytes of a line. The read buffer is
modelled with its memory (`mem`), get and put pointers and the room behind (`slack`),
because `handle_read_cmd` reads it as a C string (`peek`) and so sees bytes of earlier
commands: `Prepare` is `consume` followed by `basic_streambuf::reserve`. `Receive` is one
completed read with its handler (`HandlePacket` or `HandleCommand`), which runs to its end
on the session's io thread. `Written` is `async_write_some`: what does not fit into the
socket is lost, since the caller consumes the buffer at once; `queued` are writes that
found no room, `HandleWrite` is `handle_write`.

A read may end anywhere. `Harmless` tells the ends that are harmless on a command
connection: at a newline, or inside a command behind as many bytes as all earlier
commands had together. Elsewhere the stale newline of an earlier command may complete
the part that has arrived; the history variable `torn` is TRUE once that could happen.
`Run` is then given a text that nobody sent, and as such a text may read like any
command, what comes of it is open: a reply, a close, or nothing at all, which is what an
unknown command gets. As many bytes as the *longest* earlier command had would not be
harmless for a client that does not wait: with commands of 2, 3, 2, 2, 3 and 6 bytes
`prepare` finds room behind what it has and moves nothing to the front, so stale newlines
stay further back than any single command is long.

`Keys` are what `echo_handle_read` reports of a packet: for each newline of its `Body`
the line that ends there (`LineTo`) up to its first space.

## 3. The runs

| Run | Checks | Bounds |
|---|---|---|
| `store_thread` | `DataIntact`, `NearSnapshot`, `NoSilentLoss`, `ImplementsStore` | store thread only; 2 keys (symmetric), 1 worker, 1 save that fails, noticed or not, 1 crash |
| `freshness` | `Freshness`, `DataUnderLock` | store thread only; 2 workers on 1 key, 4 clock values, hour changes, `KEY_EXPIRE_TIME` 1, a crash |
| `stop` | `TypeOK`, `StorePublishes`, `StopsKeep`, `Durable`, `StopEnds` (the last two liveness) | store thread and SIGTERM at any moment, 1 save that fails, noticed or not, 1 crash, one hour, a reader that takes the lock again and again |
| `client_store_lock` | `DataUnderLock`, violated | 2 savers |
| `reload_swap` | `TypeOK`, `DisturbedOnlyByFlip`, `NeverOlder`, `KeepsServing`, `LockReturned`, `CatchesUp` (the last two liveness) | 2 queries, 3 versions, two of them of one size, erases, a failing load, cut files, files overwritten in place |
| `pair` | `ServesWhole`, `WriterAsModelled`, `ReaderAsModelled`, `StableWhileLoading`, `IngestResumes` (liveness) | 2 flushes after the first file, a save that fails, noticed or not, a failing load, a death of the write node, any number of deaths of the read node, erases on the write node |
| `reload_unsettled` | `SettledLoad`, violated | 3 versions |
| `tree_queries` | `TypeOK`, `ImplementsTable`, `BrowsingFindsAll`, `DeepTreeCountsAll`, `QueriesAgree`, `DeepTreeInTime` | 5 keys up to depth 4, one above another; erase of a key with a key below, of a directory, of a missing path |
| `pool` | `TypeOK`, `OneAtATime`, `Welcomed`, `Served` (the last two liveness) | 3 io threads, a client of each port, 2 failing accepts, 1 reset, 1 command and 1 packet |
| `pool_race` | `IndexInPool`, violated | 3 io threads |
| `sessions` | `TypeOK`, `RanAsSent`, `RepliesOnce`, `WholeKeys`, `Answered`, `InnerLinesHeard` | 3 lines of 2, 4 and 3 cells (one longer than all before it, one shorter), three kinds of client, any cutting and merging, replies of 2 cells and room for 1 |
| `torn_command` | `OnlySentRun`, violated | as `sessions` |

What they show.

* *Write node.* As long as the store thread is the only saver, the data file changes
  under the lock only and is at every instant a whole file, or one that lost its last
  buffer when it was closed (`CloseCut`), which nothing in the code notices. Half written
  files, and those of a save that was seen to fail, are never renamed. The file is the
  tree as it was when the flag was raised but for one late report per worker (a worker
  that had already passed the test of `storeFlag`), and a key leaves it only by `erase`
  or with such a lost buffer; keys lost that way are still in memory, and the next flush
  brings them back, unless the process dies before: then they are gone. The node as a
  whole is a table with a fuzzy snapshot that is replaced atomically, across failed
  saves, deaths and restarts. With a second saver the shared temporary file breaks even
  that; what remains is that a completed `store` saw the data file replaced, and that a
  cut data file never puts garbage into memory.
* *Stop.* A SIGTERM after the load ends the node, and if no other saver is at work and
  the save does not fail, its unnoticed last buffer included, every key that was in memory
  is in a whole data file. With
  another saver it need not be: `exit(0)` destroys the tree the other one is writing.
  A failed save is answered "file store complete!" like a good one.
* *Two nodes.* Each is the environment the other one's model assumes, so everything
  shown of one holds beside the other. The file stands still while it is loaded, queries
  are sent to all of a published file whenever the read node is up (to a part of it only
  if its last buffer was lost, to an empty tree only if there was such a file or a load
  failed), and dropping of reports ends.
* *Freshness.* Because of the unlocked `get`, two workers may put the older of two
  times last. The time stored is behind the latest report by at most
  `KEY_EXPIRE_TIME`, or by the longest time a worker is stuck inside `buildTree`.
* *Read node.* The tree `swapFlag` points at is whole and never older than before.
  Clearing and copying `myTree` disturbs only queries that saw the flag flip (or ignore
  it). A file that was cut, or overwritten while it is read, may be published cut. A new
  file is served in the end unless it has the size of an earlier one, or its load failed
  once: the size of a file that could not be loaded is remembered as loaded, so it is
  not tried again until the size changes (`TakenForOld`).
* *Queries.* The nodes with data are exactly the table of reported keys. The two
  finder algorithms and the other queries agree where no key is above another one and
  no directory was emptied by `erase`; the conditions (`Apart`, `AllApart`, `Plain`)
  are where the code really disagrees with itself, and TLC finds that without them.
* *deepTree.* An answer that says success may still have missed entries, because the
  result of an inner scan is ignored, but only below a single entry of the directory.
* *Pool.* Between the test of `m_next_io_service` and its use the other acceptor may move
  it, so with three io threads or more and both ports `get` may index past the end
  (`pool_race`). It cannot (a theorem) on a read node, which has one acceptor, or with two
  threads, where both acceptors share one. But for that death, and the one in
  `remote_endpoint()`, an acceptor or a session has exactly one operation outstanding, so
  no two threads handle the same one; as long as the process lives every client is
  accepted and answered, although replies leave endless writes behind and a `store` blocks
  its thread.
* *Sessions.* The first command of a connection is run as it was sent, however it is cut.
  The later ones are run whole, in order and once, and a client that waits gets the
  beginning of every reply, in order and once, until a read ends in the first bytes of a
  command; then stale bytes may complete it, two fragments are run, and perhaps neither is
  answered (`torn_command`). Of a reply longer than the room in the socket the rest is
  lost: of the replies of `sessions`, two cells each, the client gets one. A packet costs
  at most its first and its last line; no cut key reaches the tree.

The violated properties are statements of the repository's own texts:

| Run | Text | What the code does |
|---|---|---|
| `client_store_lock` | `Readme` 81: `storeLockFile` is the lock file for reading and writing the store | the temporary file is written before the lock is taken; after the other saver's rename it *is* the data file |
| `reload_unsettled` | `inc.hpp` 40: the file is read `FILESTATSDELAYMIN` after its last write | the file is stat'ed once, and another one may be in its place after the wait |
| `pool_race` | `ptr_sequence_adapter.hpp` 325 (Boost): `BOOST_ASSERT( n < this->size() )` | `get` tests the index, reads it again and increments it without a lock, in two threads |
| `torn_command` | `Readme` 13: the `finder` command that was sent is answered | the newline is looked for in a C string that runs on into bytes of earlier commands |

Known limits that no property claims: `inc.hpp` 1249 locks the lock file's handle a second
time where its comment wants the data file locked, so a writer that overwrites the file in
place is not waited for (`OverwriteBegin`; `KeepsServing` allows for it); a flush whose
last buffer is lost publishes a cut file; a new file of the same size, as a flush makes
that only refreshes times, is never loaded, a failed load is not tried again until the
size changes; the first line of every packet is dropped, and a packet of one line unless
it has one of five prefixes, although `Readme` 8 gives such input; a reply longer than the
socket's room is cut; a SIGTERM during the load may empty the data file; the loop of empty
writes keeps a closed session alive.

### Bounds

Every bound is a constant: `MaxTime`, `MaxStall`, `MaxFails`, `MaxCrashes`, `MaxVersion`,
`MaxLoadFails`, and the lines of a connection. They are small because the hazards are: a
late put needs one worker and one flush; the loss of a shared temporary file needs two
savers and one hour, its reuse a second hour; a stale put needs two workers and one key; a
swap meets at most two queries in different phases, and going back in time would need
three versions. Two keys are enough for a cut image since keys do not interact in
`WriteNode`. The depth of the keys in `tree_queries` passes `FIND_METHOD_SPLIT` (1 there),
so both finder algorithms meet the same subtree. Where a theorem of section 4 exists, the
bound no longer matters.

`MaxReads`, `MaxErrors` and `MaxResets` bound `IoPool`: three threads let the two
acceptors live on different ones and leave a third to their sessions, and two failing
accepts let the index wrap. In `pair` the clock of the write node stands still (it only
names the temporary file), while ages go by; in `stop` and `store_thread` one hour is
enough, since savers of different hours do not meet; `freshness` and `client_store_lock`
pass changes of the hour. The sizes of `reload_swap` and `pair` are
1, 1 and 3: one file that looks like the one before, one that does not. The lines of
`sessions` are as many as are needed for stale bytes of one command behind a shorter one
and in front of a longer one; replies there are longer than the socket's room.

`Stop`, `Pair`, `Pool`, `Reload` and `Sessions` check liveness without symmetry.
Deadlock is checked except in the runs of `TcpSession`, where a connection ends.

### Fairness

* `WriteNode`: a saver that has begun goes on (weak, `SaveStep`), the store thread's
  sleep ends (weak, `BeginStore(StoreThread)`), the reader ends its load (weak), and a
  blocked `flock` is granted in the end although the reader comes back (strong,
  `LockFile`; the kernel queues waiters). Workers, clients, clock, crash and restart
  need no fairness.
* `WriteNodeStop`: the same for the handler once it runs after the load, and the process
  ends after `exit`. A handler that interrupts `load` may find malloc's lock taken by the
  code it interrupted and is given no fairness.
* `StorePair`: the threads of both nodes go on and time passes (weak), a blocked `flock`
  is granted (strong). Nothing is assumed of what one node does with the lock: that it
  gives it back is part of what is checked.
* `IoPool`: an io thread goes on with what its queue holds, the kernel completes an
  accept that has a connection, whoever else has the lock gives it back (weak), a
  blocked `flock` is granted (strong). Clients need do nothing.
* `ReadNode`: the reload thread goes on (weak), time passes (weak), a writer holds the
  lock only for a rename (weak), a blocked `flock` is granted (strong). Nothing about
  queries, writers of the file or restarts.
* `TcpSession`: the io thread serves completed reads and writes (weak), and a client
  that waits reads its reply (weak). It need not send nor hang up.

## 4. The proofs

The theorems hold for every value of the constants that satisfies the module's ASSUME:
any number of keys, workers, savers, queries, versions and crashes, any bound on the
clock. They are checked by TLAPS with SMT, Zenon and LS4.

| Theorem | Says | Inductive invariant |
|---|---|---|
| `WriteNodeProofs!TypeCorrect` | types; no hole of a cut file in memory | `TypeOK` with `Named`: a saver past `OpenTmp` knows an hour as its file name |
| `WriteNodeProofs!DataWholeOrCut` | `DataIntact`, for `Savers = {StoreThread}` | `WholeInv`: while writing, every slot that is done is filled and the handle is still the temporary file; once that is closed it is complete or lost its last buffer (`TmpFilled`) |
| `WriteNodeProofs!DataOnlyUnderLock` | `DataUnderLock`, same assumption | `LockHeld`: a saver between `LOCK_EX` and `LOCK_UN` is the holder. It holds for any number of savers; one saver is needed because only `Rename` may then touch the data file |
| `WriteNodeStoreProofs!NodeIsStore` | `ImplementsStore`, same assumption | `StoreInv`: a call in progress has a key and a time (`JobGiven`), a slot still to be written is a hole (`HolesLeft`), a dead process has no flush under way (`DeadIdle`); each step maps to one of the store or to a stutter |
| `WriteNodeStoreProofs!NothingLost` | `NoSilentLoss`, same assumption | `Remembered`: a key that is on disk and not known to be gone is in the tree and, once its slot is written, in the temporary file; a load notes what it misses of a cut file |
| `WriteNodeStoreProofs!FlushNearSnapshot` | `NearSnapshot`, same assumption, finitely many workers | `FewDrift`: keys that drifted from the snapshot plus workers that still may put are at most the workers |
| `WriteNodeStoreProofs!StoredTimesAreFresh` | `Freshness`, any savers | `InTime`: no call is older than `MaxStall`, nothing accepted is younger than the clock; nothing is accepted of an absent key |
| `WriteNodeStopProofs!StopTypeCorrect` | types, SIGTERM at any moment | `StopTypeOK`; a partly loaded tree has no holes |
| `WriteNodeStopProofs!StoresPublish` | `StorePublishes`, any savers | `Promised`: the temporary file a saver still needs exists, or it is settled |
| `WriteNodeStopProofs!SignalKeeps` | `StopsKeep`, any savers | `Carried`: the owed keys are in the tree, in the slots written so far, in the closed file, in the data file, as the handler goes on |
| `StorePairProofs!WriterHasItsEnvironment` | `WriterAsModelled` | `PairInv`: the invariants of `WriteNodeProofs`, and the read node has the lock exactly between the steps that take and release it |
| `StorePairProofs!ReaderHasItsEnvironment` | `ReaderAsModelled` | the same with `MtimesInv`: the temporary file is not older than the data file |
| `StorePairProofs!PublishedFilesServed` | `ServesWhole` | `ServesInv`: `myTree` holds all of a published file but while it is cleared and copied, `myTreeSwap` from the load until then; what is loaded is whole or its version is one of `cuts`, because the data file never is half written (`PairInv`) |
| `StorePairProofs!FileStandsStill` | `StableWhileLoading` | the same; `DataOnlyUnderLock` and the reader has the lock |
| `IoPoolProofs!TypeCorrect` | types; the index at most one past the end, sessions in the pool, for any number of threads | `TypeOK` with the types of queues and threads |
| `IoPoolProofs!NeverRacedAlone` | `IndexInPool`, for `N <= 2` or no ingest port | `GetInv`: an accept is handled by the thread of its acceptor (`AtHome`), which is the same one for all; so what was tested stays in range until it is used (`Got`) |
| `IoPoolProofs!OneOperationAtATime` | `OneAtATime` | `OneInv`: the completions of an acceptor or of a session form a set, and exactly one of them is somewhere in the queues and threads unless the acceptor is armed or the client is not there (`CountsOK`); with it, backlogs hold every waiting client once (`BacklogOK`), sessions have an io_service (`HomesOK`), queues hold completions that have not begun, and a read fails only for a client that reset (`BeginOK`) |
| `ReadNodeProofs!TypeCorrect` | types; flag and lock are taken and given back in step with the thread | `TypeOK` itself |
| `ReadNodeProofs!NeverGoesBack` | `NeverOlder` | `Ordered`: no tree is newer than the file, the tree about to be published is not older than `myTree`, both are the same version when the flag goes down |
| `ReadNodeProofs!ServesOn` | `KeepsServing` | `WholeSwap`: what is about to be published was loaded, `myTree` is `myTreeSwap` when the flag goes down |
| `ReadNodeProofs!DisturbedByFlipsOnly` | `DisturbedOnlyByFlip` | `OnTheRightTree`: a query that has seen no flip walks the tree the flag points at, and the thread changes only the other one |
| `MetricTreeProofs!TypeCorrect` | every node hangs on the root | `TypeOK`, with lemmas on `Put` and `Without` |
| `MetricTreeProofs!TreeIsTable` | the tree implements `KeyTable`, nested keys included | `TypeOK`; each step maps to a step of the table or to a stutter |
| `MetricTreeProofs!BrowsingFinds` | `BrowsingFindsAll` | `WayInv`: every node is on the way to a key and has data only if it is one |
| `MetricTreeProofs!AnswersAgree` | `QueriesAgree` | `TypeOK` and `WayInv`; of such a tree, where an entry is `Plain`, both finders, `expire`, `expireAll` and `tree` come down to the same test |
| `MetricTreeProofs!DeepTreeIsRight` | `DeepTreeCountsAll` | the same; the entries with data below a path are the keys below it |
| `MetricTreeProofs!DeepTreeMissesLittle` | `SuccessIsNearlyAll`, and with it `DeepTreeInTime` | `TypeOK` and `FiniteInv`: the tree is finite. Of such a tree every scan keeps to `Owes`: it counts an entry for every step it spends (`Within`), its loop comes to the end exactly if it counts all entries of the directory, and then all that is missing lies on the branch of the last one; the widest directory it knows is one it was in |
| `TcpSessionProofs!TypeCorrect` | types; the buffer's pointers in order | `Typed`: the same with sequences for sets, and an empty `wbuf` |
| `TcpSessionProofs!CommandsRunAsSent` | `RanAsSent` | `StreamInv`: every cell has a place in the stream of all lines (`Pos`); the wire goes on where the reads ended (`OnWire`), the unread part of the buffer where the commands run ended (`Unread`), and no cell of the memory, stale ones included, lies further back than its place in the stream (`NotEarly`), so that behind a part that ends where it is `Harmless` there is no newline. Once `torn`, only that the first command was run as it was sent (`FirstRan`): there is nothing stale before |
| `TcpSessionProofs!EachReplyOnce` | `RepliesOnce`, for replies of any length | `ReplyInv`: also, a waiting client is at most one command ahead and then has read everything, so no write waits for room (`InTurn`) |
| `TcpSessionProofs!KeysComeWhole` | `WholeKeys` | `HeardInv`: also, the keys heard are those of lines that lie in what was read, in order (`KeysIn`). A packet starts anywhere in the stream; its body, if not empty, starts with a line (`BodyIs`), and what lies between two newlines of it is one line (`KeyFound`) |
| `TcpSessionProofs!InnerLinesAreHeard` | `InnerLinesHeard` | the same; no line of the body is passed over (`AllKeys`), and the body has every whole line but those the property names (`InnerKeys`) |

Why the assumptions: with a second saver `DataUnderLock` fails in the run
`client_store_lock`, so `Savers = {StoreThread}` is the code's limit. It is not assumed
by the theorems on types, of `ReadNode` or of `MetricTree`. `N <= 2 \/ DataClients = {}`
is where `get` has one caller; the run `pool_race` shows what happens otherwise. The
theorems about `TcpSession` assume nothing of replies or of TCP: `RanAsSent` and
`RepliesOnce` themselves say up to where they hold (`torn`), and the run `torn_command`
shows what happens beyond.

Some facts need induction: sums of sizes (`BeforeIs`), what `FlattenSeq` puts together
(`FlattenIs`), the keys of a body up to a cell (`BodyKeys`), the turns of a loop
(`LoopIs`), that a recursive function is what its definition says (`BelowExists`), the
scans of all directories below (`AllOwe`). They are proved by way of a least
counterexample (`HasLeast`, from the library's `WFMin`), since the library's induction
rules take an operator as a parameter.

The proofs changed the model in three places. `NotEarly` could not be shown of an earlier,
weaker `Harmless`, and TLC then found the counterexample given in section 2. `Keys` was
rewritten from a selection of newlines into one step per newline, which is what the
loop in the code does. The scan of `DeepScan`, a recursive operator before, became a
recursive function: a module with theorems may not reach the former.

`StorePairProofs` takes the lemmas of `WriteNodeProofs` by INSTANCE: the pair's steps are
steps of `WriteNode` first, its invariants follow, and with them the steps are shown to
be steps of `ReadNode`. Since `Savers` is the store thread there, all theorems about
`WriteNode` and `ReadNode` carry over to the pair.

Only model-checked: liveness (`Durable`, `StopEnds`, `CatchesUp`, `IngestResumes`,
`LockReturned`, `Welcomed`, `Served`, `Answered`), which is out of the prover's reach.
The archive format is covered by the proofs only: all runs have `Format = "xml"`, whose
loads are the weaker ones.

## 5. What is left out

* *Data.* Names of keys survive a round trip through xml and archive; the ini format,
  which cannot save nested trees at all, is not a value of `Format`; texts of replies,
  logs and the status command, and its counters.
* *Undefined behaviour.* A tree that is read while it is changed is old, new or kills
  the process; copy-on-write string details below that are not followed. Assigning a
  ptree is a copy and a swap, so it is one step.
* *Files.* A data file missing when the reload thread looks for it ends that process
  (exit); `load` without a file; disk full in `rename`.
* *Queries.* `print`; requests with trailing dots and keys with empty names (a directory
  that holds one cannot be written as JSON, and the exception ends the process).
* *Sessions.* Keys with one of the five prefixes in their middle, removal of `\r`. The
  commands `load` and `reset` exist in `runCmd` but the command handler does not pass
  them on.
* *Processes.* `stopFlag` (nothing raises it), daemonising, `io_service_pool::stop`
  (nobody calls it), the status command and its counters, the configuration check, the
  command line client.
* *`store <file>`.* It writes whatever file a client names, the data file and a
  temporary file in use included, without lock or rename. Of the file it names nothing
  holds, and other files do not change, so there is nothing to state.
* *Boost.* The vendored Boost 1.59 is nearly all of the repository's lines (some 2.5
  million of them) and is not modelled; what the code relies on in it (streams, property
  trees, queues of completions) is part of the models of the code that uses it.

## 6. Order of work, and what may follow

`WriteNode` with its abstract store came first, since losing reports is the worst the
system can do, then `ReadNode`, `MetricTree`, `TcpSession`; `WriteNodeStop`, `StorePair`,
`IoPool` and `DeepScan` closed the gaps between them, each with its theorems where the
prover reaches.

Worth doing next: what a client that does not wait may still rely on of its replies.
