# A TLA+ model of the Solusek HTTP server

Solusek (`src/`) is a C++ library for HTTP servers: an accept loop that gives
every connection a thread, endpoints that application code registers, sessions,
a pool of database connections and an HTTP client.  It has many threads and
almost no synchronisation: shared fields are plain members, the locks are plain
`bool`s.  This project models what the threads do to these fields, checks the
models with TLC and proves the main results with TLAPS.

## 1. Inventory

| Component | State | Operations | Hard behaviour | What makes it correct |
|---|---|---|---|---|
| Server loop and node threads (`server/CServer.cpp`) | `StopSignal`, `ThreadCount`, `Nodes`, the package of each connection | `run`, `thread_runNode`, `runNode`, `removeNode`, `stop`, `dispose` | all fields shared without a lock; a signal handler or any thread calls `stop()`; detached threads | the package is never used after it is freed; nothing that connects after `stop()` is served; the count is bounded; every accepted connection is closed; `stop()` ends `run()`; `run()` outlives its nodes |
| Database pool (`server/CDatabase.cpp`, `CDatabaseInstance.cpp`) | `Instances`, `Hold`, `Running`, per instance `Used`, `T`, connection string | `open`, `closeAll`, `dispose`, `setConnectionString`, pool thread, destructor | test-then-set lock; `push_back` outside of it; expiry of reused instances | no deleted instance is used; one user for each instance; calls end; idle instances are deleted |
| Transactions (`server/CTransaction.cpp`, `CDatabaseHandle.h`) | the static `Lock`, the list of result handles | `exec`, `insert`, `update`, `select*`, `esc`, `commit`, `cleanup`, `dispose` | test-then-set lock shared by all connections; a driver exception inside of it; handles disposed of twice | one statement at a time; every statement ends; a handle is deleted once |
| Sessions (`server/CSession.cpp`, `CServer.cpp:431-458`) | the counter `Incremental`, the list of sessions, the items of each | `startSession`, `getSession`, `destroySession`, `getStringValue`, `setStringValue` | called from node threads without a lock; ids from a clock and a counter that is printed and incremented in separate steps; a vector scanned while others erase; the same item pushed at every set | a visitor meets only its own session; the vector is the sessions started and not destroyed; a variable reads as it was last set |
| Database drivers (`handlers/CDatabaseHandler_{pqxx,mysql,empty}.cpp`, `CTransaction::commit`, `CDatabaseInstance::begin`) | the connection, libpqxx's `work`, the server's transaction behind it | `open`, `close`, `begin`, `exec`, `query`, `queryOne`, `insert`, `update`, `dispose` | a commit that libpqxx does not know of and nobody checks; statements refused, connections lost or closed at any time; one connection for two users; answers left unread | what was done before a commit is kept as a whole or not at all; an error left nothing behind |
| HTTP node (`server/CNode.cpp`) | the request, headers, path, body | `readHeader`, `readBody`, dispatch, `writeResponse`, `dispose` | the peer closes or stalls at any byte; exceptions; short writes | one response for a well-formed request; the socket is always closed |
| Sockets (`handlers/CNetHandler_linux.cpp`) | descriptor, timeouts, address lists | `accept`, `connect`, `readBuffer`, `writeBuffer`, `close` | descriptors closed twice while other threads open new ones; retry without end | a thread closes only its own descriptor; the filter is what its lists say |
| Static files and routing (`CServer.cpp:262-408`, `util/file_util.cpp`) | endpoint, directory, index and MIME tables | `getEndpoint`, `getStaticEndpoint`, `getStaticIndex` | mutual recursion; truncated `npos`; unclosed files | first match wins; the recursion ends; a file is served below a mounted directory |
| HTTP client (`client/CClient.cpp`) | endpoint, headers, socket | `runRequest` and setters | chunked bodies; the server closes early | what the node wrote is what the client reads |
| Configuration (`server/CConfig.cpp`) | tree of nodes | the indentation parser, `get` | recursion over a text that all calls share; empty lines; levels that return to an indentation no call was made for; last line without newline | the tree is the one the indentation shows; the recursion is bounded; what is there is found |
| Trust store, flags (`CTrustStore.h`, `CFlagCollection.h`) | one vector each | add, find | a pointer into a vector that grows | |
| TLS layer, log, string helpers, interfaces | held by OpenSSL, or none | | | not modelled (section 5) |

Interactions: the application calls `run()` on the main thread and `stop()` from
a signal handler (`sample-server/main.cpp`); `run()` starts node threads, which
call endpoint callbacks; a callback may use sessions, the database pool and,
through an instance, transactions.  `dispose()` after `run()` deletes the
server, its pool and its sessions.

## 2. Modules

| Module | Models |
|---|---|
| `RawVector` | `std::vector<T*>` as threads see it that share it with no lock: slots and a finish index; `push_back` and `erase` work with the finish they loaded |
| `Server` | `CServer`: the main thread in `run()`, node threads, `stop()` callers, clients, kernel queue |
| `RawVectorProofs` | lemmas about its operators, for the proofs of its users |
| `ServerInv` | the inductive invariant of `Server` |
| `ServerProofs` | its theorems |
| `DbPool` | `CDatabase`: pool thread, `open()` and `closeAll()` callers, destructor, clock |
| `DbPoolInv` | the inductive invariant of `DbPool` |
| `DbPoolProofs` | its theorems |
| `Transaction` | `CTransaction`: threads that run statements under the static `Lock`, and the result handles; its inductive invariant |
| `TransactionProofs` | its theorems |
| `HttpWire` | what travels on one HTTP connection, and the rules both ends share |
| `HttpNode` | `CNode::run`: header, body, dispatch (endpoints, static files, 404), response, close |
| `HttpClient` | `CClient::runRequest` |
| `HttpExchange` | the two composed, or one of them against a peer that is not Solusek's; implements `Request` |
| `Request` | abstract: a request that is acted on at most once and has one answer |
| `HttpInv` | the inductive invariant of `HttpExchange` |
| `HttpProofs` | its theorems |
| `AtomicTx` | abstract: transactions that collect statements and publish all of them or none |
| `Driver` | `CDatabaseHandler` and `CDatabaseTransaction` in their three versions, `CTransaction::commit`, and the server session behind each connection; implements `AtomicTx` |
| `DriverProofs` | its theorems, the refinement among them |
| `Session` | `startSession`, `getSession`, `destroySession` and the variables of a `CSession`, called by several threads |
| `SessionInv` | the inductive invariant of `Session` |
| `SessionProofs` | its theorems |
| `Config` | `config_parse`, whose recursion is an explicit stack of calls, and `config_get` |
| `ConfigProofs` | that the tree is the outline of the file, how deep the recursion goes, and what a look-up finds |
| `MCServer`, `MCDbPool`, `MCTransaction`, `MCHttpExchange`, `MCDriver`, `MCSession`, `MCConfig` | instances for TLC (symmetry sets) |

### Server

One variable per shared field (`StopSignal`, `ThreadCount`, `Nodes`), one for
each thread's program counter (`main`, `thread[p]`, `stopper[s]`), one for each
connection's state in the kernel (`conn`, `backlog`, `listening`).  A connection
names its package, its `CNode` and its thread, because each connection has
exactly one of each.

- `Bind`, `LoopTest`, `Gate`, `Listen`, `Accept`, `IncRead`/`IncWrite`,
  `StopCheck`, `Create`, `SetID`, `CloseMain`, `Drain`, `Dispose` are the
  statements of `run()` and `dispose()` in order.
- `WaitID`, `PushRead`/`PushWrite`, `Serve`, `FindEnd`/`FindNode`,
  `EraseRead`/`EraseWrite`, `DecRead`/`DecWrite`, `Exit` are a node thread.  `Serve` is all of
  `CNode::run` up to `delete Socket`, which uses nothing that is shared.
- `StopSet` and `StopConnect` are `stop()`; `Connect` is a client.

`ThreadCount++`, `ThreadCount--`, `push_back` and `erase` are a load and a
store each, because the fields are neither atomic nor locked: this is where
updates get lost.  The scan of `removeNode` is a step for each `end()` and each
element it reads, and its `erase` loads the finish only after the match: another
thread's erase may meanwhile move the node past the iterator, so that it is missed
(`slipped`; the deleted node then stays in `Nodes` and the drain loop never ends),
or move `end()` below it, after which nothing is defined (`lost`).  `ThreadCount` is unsigned and wraps at `CountMod`.  The
history variable `raced` records which field ever had an update overwritten;
`late` records who connected after `StopSignal` was set.  After `dispose()`
the model ends: what a thread does with a deleted server is undefined, and
`RunWaitsForNodes` asks whether such a thread exists.

### DbPool

`Hold` is a `bool` tested in one statement and set in the next, so two steps
(`OpenSpin`/`OpenSet` and so on) and two threads can be inside; `overlap`
records that it happened, `raced` that a `push_back`, `erase` or `pop_back`
overwrote another.  Each read of the vector is a step: in `getUnusedInstance` the
comparison with `end()`, `inUse()`, the string, and the read of what is returned
(`ScanTest`, `ScanUsed`, `ScanString`, `Take`); in the sweep and in `closeAll()`
the test, the delete, the load of the finish and its store (`SweepTest` to
`EraseWrite`, `CloseTest` to `PopWrite`).  `cutin` records that an `open()`, whose
`push_back` takes no lock, stored it between `closeAll()`'s delete of `back()` and
its `pop_back()`: the new instance is popped and the dead one deleted again.  `corrupt` records who used an instance after it was
deleted; the model ends there.  An instance is named by the `open()` call that
made it.  The clock is `Expire`: the age of an instance may pass
`ExpireSeconds` at any time.

### Transaction

Every thread has a transaction; `Lock` is one for all of them.  A call is a
number of values to escape, then perhaps a statement, then perhaps a handle to
keep: `Kinds` lists the shapes the methods of `CTransaction` have.  Each value
and each statement goes through `Test`, `Set` and `Escape` or `Statement`.  A
driver may throw with `Lock` set: libpqxx's `esc()` when the connection is
broken, and MySQL's `queryOne()` when the first column of its row is NULL
(`DriverMayThrow`); every other call reports a failure by its
result.  `collided` records that two threads were past the test at once,
`leaked` who threw.  A handle is `live`, `freed` or deleted `twice`; `disposed`
records what users disposed of themselves.

### HttpWire, HttpNode, HttpClient, HttpExchange, Request

The connection is two sequences of items, `up` and `down`, and two flags for
open ends.  An item is a header line, with the fields that the code reads out
of it, or a byte of a body.  Both ends collect the header byte by byte and act
at line ends only, so a line is one item and a line not all of which has come is
one that has not come.  A body is read in pieces of any size up to `Chunk`.

- Node: `ReadHeaderLine`, `ReadBodyChunk`, `BodyRead`, `ReadEnds` and
  `ReadTimesOut` are `readHeader` and `readBody` with the exceptions of
  `readBuffer`; `Callback` and `ServeStatic` the dispatch; `WriteLine`,
  `WriteBody` and `WriteFails` `writeResponse`; `Close` the end.
- Client: `InvalidEndpoint`, `Connect`, `SendHeader`, `SendBody`,
  `RequestSent`, then `ReadResponseLine` and either `ReadBodyByte` or
  `ReadSize`, `ReadChunkByte`, `ReadCrlf`; `Abandon` is the catch at the end.
- Environment: `ClientDies`, `PeerCloses`, and in the initial states strange
  clients and servers (malformed headers, wrong lengths, chunked bodies).

Conversions are modelled by what they do.  `ParseStart`: `readHeader` splits
the start line at a colon like any other line, so `GET /p?a:b` has the method
`get` and finds no endpoint; `WholeRequest` holds because then no callback runs.
`Misread`: `runRequest` takes a colon anywhere for the one before the port.
`Cookies`: a cookie without `=` gets its name as value.  `CString`: a chunk of a
body stops at its first NUL.  `HasEmptyPiece`: an empty piece of a response
throws and cuts it off.  `Default`: a refused endpoint returns the code 200.

Abstractions: names are in lower case but for methods, so lower-casing shows on
methods only; a NUL in a header line is left out; a short `send()` can happen to
a response body, not to a header or to a request, which a fresh connection has
room for and the client waits 30000 seconds with.  `fault` records a timeout, a
death, a failed or short write.

`HttpExchange` implements `Request`: `ran` is `called`; the answer (`absAnswer`)
is settled when the node stops to listen, by a callback, a file, the 404
response or because it gave up, which is an answer with the code 0 and nothing in it;
the result (`absResult`) is what `runRequest()` has when it returns.  The abstract module
has no connection and no faults, so the refinement says what is left
of them for the two programs: whoever fails and whenever, the callback runs once or
not at all, for a request that was made and with what it asked; what
is returned is of the one answer, and nothing at all as long as there is none.
That the caller got nothing says nothing of the callback, which may have run or may
run later; the model has steps for both.
The answer of a server that is not Solusek's is settled from the start, and a
client that is not Solusek's may ask anything (`mine`).

### Driver, AtomicTx

The driver is a variable that keeps its initial value: `pqxx`, `mysql` or
`empty`.  A connection is `CDatabaseHandler::C` (`conn`) and the server's side
of it (`session`, `pending`); `owner` is the `pqxx::work` that libpqxx has
registered for it, `unread` the answer that MySQL's `exec()` leaves behind.

- Connections: `Open`, `Close` (called by `~CDatabaseInstance`, whoever has a
  transaction there) and `Lose`, the network.
- Transactions: `BeginWork`, `BeginThrows`, `BeginPlain`; `DisposeWork`,
  `DisposePlain`.  Any transaction may be begun on any connection, because
  `DbPool` shows that the pool gives one to two users.
- Statements: a call is refused (`Refuse`) or taken, and then it reads
  (`TakeRead`) or writes inside a transaction of the server (`TakeInside`) or
  outside of one (`TakeAlone`); or it is executed and the connection breaks
  before its answer is there (`LoseAnswer`), which looks like a refusal and is none.
  `Answers` says what the user of the library is told, which differs between the
  drivers and is not always what happened: all a driver goes by is whether the
  server's answer reached it.
- `commit()` is the text `commit;`, whose answer is dropped and which libpqxx
  does not know of: `Commit`, `CommitAborted`, `CommitIdle`.

The server and the client libraries are external and stand for what the code
relies on: a failed statement aborts the transaction it is in, a lost
connection rolls back the transaction that is open and nothing else, a `work` is refused on a connection that has one.

`Driver` implements `AtomicTx`: `store` is `durable`; the buffer of a
transaction is what the server holds for the connection it owns; its mode is
read off from how far the transaction and the server's session are.  The abstract
module has no connections, drivers or answers, so the refinement says that
sharing and losing connections can cost a transaction its effect, but never let
a part of it through; after its first commit it is a sequence of single
statements.

### Session

A call of a callback is taken apart where another thread can come in between:
the constructor into the test of the counter with the time (`Enter`), the print
(`Stamp`), and the increment (`Load`, `Store`); `push_back` and `erase` as in
`RawVector`; a scan into one step for each element; `setStringValue` into the
search, the write and the `push_back`.  In a scan, the comparison with `end()`
(`ScanOn`, `ScanEnds`, `ScanRunsOff`), the test of the element (`ScanNext`,
`ScanMatch`) and the second read of it, which `getSession` returns (`Return`), are
steps each, and so is the load of the finish in `erase` (`Erase`) that follows the
match.  An iterator is compared with `end()` for equality, so one that passed it
goes on: the thread is `lost` and nothing more is said of it.  An object of a session is a number, since the same pointer
is pushed again by each `setStringValue`.  Deleting happens nowhere.

`clash`, `torn`, `shifted` and `mixed` record that constructors overlapped, that
two threads changed the vector at once, that an erase left an iterator behind
(`LeftBehind` lists the cases: the session that is looked for moves down past it, it
stands at `end()` or past its comparison with it, or what it matched moves away), and that two threads set variables of one session at once.  Each
property says what holds as long as its accident has not happened, which is also
where the library needs a lock.

### Config

A line is its indentation and its name, or no name for a line without a colon.
`config_parse` is recursive and takes lines off a text that all its calls share;
the calls are the sequence `stack`, and a turn of its loop is `Deeper` (a call),
`Return`, `Entry` or `Other`.  `ConfigGet` is `config_get`.  The reference
definition is `Owner`: the last entry before a line that is indented less and
whose block no line in between has ended.  Empty lines end blocks, as in the code.

## 3. What the runs show

| Run | Expected | Question |
|---|---|---|
| `MCServerSafety` | pass | with three clients, one `stop()`, `ThreadLimit` 1 and a `pthread_create` that may fail: the inductive invariant (types and the handoff of packages are parts of it), late connections, the count, and the vector under scans and erases at once |
| `MCServerLive` | pass | accepted connections get closed; `stop()` ends `run()` unless an update was lost, a node moved away from its `removeNode` or a thread was not created |
| `MCServerDrain` | violation | `run()` returns while a thread has not reached `push_back`, or has left `Nodes` and not decremented `ThreadCount` |
| `MCServerLostStop` | violation | `stop()` before `listen()` sets the flag, its connection is refused, and `run()` stays in `accept()` |
| `MCDbPoolSafety` | pass | with two `open()`s, a `closeAll()`, two strings and failing connections: an instance is its creator's alone, nothing deleted is touched and the vector is exact, as long as nobody overlapped inside `Hold` and no update was lost (for the last two also: no `push_back` between `closeAll()`'s delete and its `pop_back`); the connection string is honoured; the inductive invariant, of which types are a part |
| `MCDbPoolLive` | pass | calls end, by throwing too, the destructor ends, disposed instances are deleted |
| `MCDbPoolShared` | violation | two callers of `open()` hold the same instance: a reused one is never marked in use (and so the pool thread may delete it under both) |
| `MCTransaction` | pass | three threads, one call each: one statement at a time unless two threads collided; `Lock` is left set only by a driver that threw, and then stops everybody; calls end otherwise; `dispose()` frees every handle; the inductive invariant, of which it is a part that a handle is deleted twice only if its user disposed of it |
| `MCHttpExchange` | pass | eleven requests, five responses, eight strange clients and twelve strange servers: a callback only ever gets the whole request (`WholeRequest`, a part of the inductive invariant); the client returns the response or a first part of it and knows which when there is a length; without a fault nothing is cut off but at an empty piece; both ends come to their end; all of it is a behaviour of `Request`; the inductive invariant of `HttpProofs`, of which the types are a part |
| `MCDriver` | pass | two transactions on one connection that may be lost or closed, each of the three drivers: a commit keeps all that was done before it or nothing; without an accident it keeps it exactly when every call before it was executed, whatever the calls answered; until the commit, what reported an error has left nothing behind, its answer lost or not; after it nothing can be taken back; all of it is a behaviour of `AtomicTx` |
| `MCSession` | pass | two threads, three sessions, five calls, a counter that wraps: a visitor meets its own session, the vector holds the sessions, no scan misses one or leaves the vector, a variable reads as it was set, each unless its race happened; the inductive invariant |
| `MCConfig` | pass | every file of up to five lines with three indentations, two names, empty lines and with or without its last newline: the tree, the depth of the recursion, what a look-up finds, and that the parser ends |

Bounds.  Three clients give every pair of lost updates (two decrements against
each other and against an increment) and, with `ThreadLimit` 1, a gate that
closes.  `CountMod` is 8: above `ThreadLimit + 1` plus all decrements, so that a
count that wrapped below zero is told from one that grew.  The liveness runs
have two clients.  Two `open()` calls are enough for every overlap of two
threads in or outside `Hold`, with the pool thread and `closeAll()` as third and
fourth; `MCDbPoolShared` has a third so that two callers can reuse one instance
a third one made.  `MCHttpExchange` has bodies of up to three bytes with
`Chunk` 2 and `Segment` 1, so that a body takes several writes and several reads
that do not match them, and `Wrap` 32 with `MaxReserve` 8 for a negative length
that turns into a huge one.  `MCDriver` has one connection that two transactions
use, because what can go wrong goes wrong between users of one connection, and
two statements for each beside its commits, so that one can fail before or after
another and after a commit.  `MCSession` has three sessions and two threads: two
sessions in the vector and a third that comes or goes while one thread scans; its
counter wraps at 2, so the three come round it.  A store of the counter that comes
late gives a double identifier to a fourth session only; that case is left to the
proof (`SessionOwn`), which has no bound.  In `MCConfig`, files
of five lines are the shortest in which a block is left, by an entry or an empty
line, for an indentation between two that are open, and entered again; the proofs
cover longer files and more indentations.

Fairness.  Threads are scheduled (`WF` of the main thread, each node thread, the
pool thread and each call that has begun).  `Serve` ends because every `recv`
and `send` of a node has a timeout of 5 seconds, if the callback returns and the
client does not send header bytes for ever.  A caller that spins on `Hold` gets
strong fairness of the test: it tests every microsecond and the pool thread
leaves `Hold` false for a second at a time.  In `HttpExchange` each end
goes on while it can, the timeouts of its socket included; nothing is assumed of
strange peers.  `Config` is one thread in a loop without a call that blocks:
`WF` of its next step.  `Driver` and `Session` state no fairness: callers may
stop at any point, and nothing promised there depends on one going on.  Nothing is assumed of clients of the server, of
`stop()`, of `dispose()` or of `setConnectionString()`.  Runs do not check for
deadlock, because the systems may stop: a server that has returned, a pool that
was destroyed, a `run()` nobody connects to, callers that made their calls, a
parser that is done.

## 4. What is proved

`ServerProofs` proves, for any finite sets of clients and `stop()` calls, any
`ThreadLimit` and any `CountMod` above `ThreadLimit + 1 + Cardinality(Peers)`:

- `ServerInvariance`: `Spec => []ServerIInv`;
- from it `ServerTypes`, `ServerHandoff`, `ServerLate` and `ServerCount`;
- with it, inductive relative to the invariant, `ServerCountExact` (the count is the
  number of connections in hand) while no update was overwritten;
- from it `ServerRegistry` (the vector is the running nodes, each once), while no
  update was overwritten and no node moved away from its own `removeNode`.

`ServerIInv` strengthens the properties where they are not inductive:
`VectorInv` bounds every *stale* finish a thread carries by the number of
pushes stored so far (without it, `Nodes` could outgrow its slots);
`PlaceInv` says a connection is in one place (queued once, or with the main
thread, or with its node thread), without which `HandoffSafe` would not survive
`Accept`; `LateInv` adds that the main thread never holds a package for a late
connection; `CountInv` bounds the values that threads have *loaded*, since a
stale store brings an old value back;
`ScanInv` says, without an accident, that a scan has not passed its node and an
erase stands at it, without which the vector would not stay exact.  Each part has a lemma `...Step` with
one step per action.

`RawVectorProofs` has what the proofs about shared vectors need: a `push_back`,
`erase` or `pop_back` with the right finish keeps a vector exact (`PushExact`,
`CutExact`, `PopExact`), with any finish it keeps its type (`PutType`,
`CutType`), and a set of slots has a least one (`LeastSlot`), which justifies the
`CHOOSE` of the first item of a name in `Session`.

`TransactionProofs` proves, for any set of threads and any bounds,
`TransactionInvariance` and from it `TransactionAlone`, `TransactionLock`,
`TransactionHandles` and the action property `TransactionDead`.  `AloneInv`
extends mutual exclusion to the threads that are past the test but have not set
`Lock`; `HandleInv` ties the list of a transaction to the state of its handles;
`CallInv` makes sure a handle belongs to a call.

`DriverProofs` proves, for any finite or infinite sets of connections and
transactions and any `MaxStmts`: `DriverInvariance`, and from it
`DriverAllOrNothing`, `DriverNoWayBack` and the refinement
`DriverRefinesAtomicTx`.  All-or-nothing is not inductive alone: `OwnerInv` says
whose `work` a connection has, and that with libpqxx every open transaction has
one; `HeldInv` that what the server holds is all the owner did inside (so a
commit publishes the whole of it); `LeftInv` that who has sent `commit;` is
outside of the server's transaction for good; `MadeInv` that statement numbers
are used once; `FateInv` adds that nothing of a transaction that is still open
is durable.  For the refinement each action is mapped to the step of `AtomicTx`
it makes for one transaction, with the lemma that the others keep buffer and
mode, or to a stutter.
`DriverErrorLeavesNothing` needs two parts more: `AnswerInv`, that what the server
holds of a transaction was answered with a result, or with an error only for its NULL
id, since a call whose answer was lost took the transaction with it; and
`EarlyInv`, that before its commit nothing of a libpqxx transaction goes into the
database by itself, which rests on its work being a transaction of the server from
`begin()` on.  For `DriverCommitVerdict`, `VerdictInv` says that the server's session is `active` exactly
as long as every call of its owner was executed.

`DbPoolProofs` proves, for any finite sets of callers and any connection
strings, `DbPoolInvariance` and from it `DbPoolTypes`, `DbPoolCreator`,
`DbPoolSound`, `DbPoolExact` and `DbPoolString`.  `VectorInv` bounds every stale
finish by the number of calls that have pushed; `MutexInv` says that while
`overlap` is not set one thread at most is inside `Hold`, which has to be said of
each pair of kinds of threads; `OriginInv` says where an instance comes from: it was
made and pushed by the call whose name it has, whatever the races; `UsedInv` and
`SweepInv` say, while there was no accident, that a creator is marked as the user
of its instance, and that the slot the pool thread or `closeAll()` is about to take out
holds what it has just deleted.  `ScanInv` and `StringInv` say
of `getUnusedInstance` that what it tested is still in the slot, unused and with the
same string, when it reads it again.  All of these but `SweepInv`, `PoolSound` and
`InstancesExact` hold as long as there was no overlap and no overwritten update
(`Calm`); those three need also that no `push_back` fell between `closeAll()`'s delete
and its `pop_back` (`Clean`), for then a deleted instance stays in the vector and
a live one is popped.  That `Calm` is enough for the others is `CutInv`: once it
happened, `closeAll()` has a deleted instance among those it goes on to delete, so it
never leaves `Hold`, and no scan or sweep begins (`CutKeepsOut`).

`SessionProofs` proves, for any finite set of threads, any numbers of calls,
sessions and seconds, any names and values and any `Wrap` above zero,
`SessionInvariance` and from it `SessionTypes`, `SessionOwn`, `SessionExact`,
`SessionScan` and `SessionReads`.  The parts of the invariant:

- `ShapeInv` and `MakeInv`: types, and who makes which session; two constructors
  at once are in `clash`, and whatever else a thread refers to was told to
  somebody, and so is stamped and has been pushed.
- `StampInv`, `CounterInv`, `DistinctInv`: why identifiers differ.  A session that no
  other constructor overlapped found every earlier one past its store
  (`Cardinality(Passed) = Len(ids) - 1`); after it, the counter is above what
  it printed, or so many sessions passed since as it takes to go round (`After`).
  This has to hold of every value that a thread has loaded and not stored, since a
  store that comes late brings it back, and of the number of stores and not of
  the sessions made, since a constructor that is under way has not counted yet.
- `SlotInv` and `IteratorInv`: slots up to any finish hold told sessions, under
  every race; while the vector is not torn, a thread has the right finish, and one
  whose iterator no erase left behind stands at what it matched, past
  what it is not looking for.
- `ItemsInv` and `VarInv`: the items of a session fit the calls that were made;
  in a session that one thread at a time has set, items with the same name are the
  same object, with the value last set, but for the name that is being set; for
  that one the object, the value and the finish are the thread's own.

`After` is arithmetic on four numbers and has a lemma without the model in it
(`RoundTheCounter`); `Grows` says how the sets `Told` and `Passed` change, which
most of the other lemmas rest on.  `VarFrame` carries `VarsRight` through steps that
leave a session alone.

`HttpProofs` proves `HttpInvariance` and from it `HttpWholeRequest`,
`HttpResultIsAnswer`, `HttpCleanExchange` and the refinement
`HttpRefinesRequest`, for any sets of jobs, endpoints, files, responses and
strange peers and any sizes of reads.  The invariant says where the two streams
are:

- `StreamInv`: `up` is the part of the request between what the node has received and
  what the client has sent; how much that is, is known by where the client stands,
  until something was lost.  `HeadInv` and `BodyInv`: the lines and bytes the
  node has are the first ones of the request, so the body it gives to a
  callback is the body of the job (up to a NUL, which ends a `std::string` that is
  made from the buffer).
- `ReplyIInv`: some `p <= m` are the items of the reply that the client has taken and
  that the node has sent; `down` is what is between them, the node still has to send
  what is after `m` (`NodeAt`), and the client has made of the first `p` what
  `ClientAt` says (`InHeader`, `InBody`, `InChunks`).  Both numbers are
  witnesses and no variables, so each read has a lemma that gives the next pair.
- `CleanIInv`: as long as nothing failed and no one was late, a node that heard
  the request sends all of its response, or stops before the first empty piece,
  so there are as many items on their way as the client has yet to read
  (`NodeClean`); and of a whole stream of another server, what the client reads
  next is there (`ServerClean`).  It needs no witnesses, since the place in the
  reply follows from how many lines or bytes the client has read.
- `CallIInv`: before the node has a response nobody was called, and it is past
  `accept()` only for a request that was sent.
- `TypeIInv`: types, which rest on the lengths on the wire being integers.

For the refinement, a step of the node that responds or gives up is `Run` or `Settle`
(`NodeAbs`), the step in which `runRequest()` returns is `Return` or `Refuse`
(`ReturnAbs`), and every other one a stutter.  `Run` has `WholeRequest` after the
step, `Return` has `ResultIsAnswer` after it if there is an answer, and if there is
none, that the client has taken none of the items (`NothingYet`).

Its assumptions are what a job, a response or a peer is: a body shorter than
`Wrap` (what `atoi` yields is held in an `unsigned int`, and a longer body has
another length there), `Wrap > 1`, positive sizes of buffers, no endpoint whose method is
the lower-case form of a request's, a strange server that sends a response or a first
part of one (what a stream that is no response means, nothing says), and all of it
if its stream is marked whole (`IsWhole`).

`ConfigProofs` proves, for files of any length, indentations up to any
`MaxIndent` and any names, `ConfigInvariance` and from it `ConfigTree`,
`ConfigDepth` and `ConfigGetFirst`.
The invariant is about the calls that are on the stack: `FrameInv` how they are
nested (each one's parent is the last entry of the one outside, and their
indentations grow); `OuterInv` which entry is the owner of a line that would
come at an indentation between two levels (this is the last entry of the outer
one of them, and makes the return to an indentation no call was made for come out
right); `InnerInv` the same for the innermost call, for the line that is there;
`LevelsInv` that a call was made for the indentation of some line.  The
indentations of the calls on the stack are an injection into those of the lines,
which bounds the depth.
`UpTo`, `EntryIsLatest`, `OtherKeeps` and `LevelKeeps` say how the candidates
change when a line is taken off.  `ConfigGetFirst` is about recursive functions
(`PathOf`, `Foremost`, the levels of `ConfigGet`): `Recursion` says that such a
function exists and `Descent` is the induction over it, along the owners of lines or
the levels of a path.  Both come from the least element of a set, because a lemma that
takes a set can be cited where one that takes a predicate cannot.  Each of the invariants
has the types of its module as a part.

Only model-checked: the liveness properties, since liveness under fairness and
`ENABLED` are out of the prover's reach.  Every invariant and every action
property that a run checks is proved.

## 5. Not modelled, and limits

- Reallocation of the shared vectors: `RawVector` has spare capacity.  A
  `push_back` that reallocates frees the array other threads work on.
- `CServer::run` with a blacklist on `MainSocket`: `accept()` would return a null
  pointer; nothing in the library puts an address on that list.
- `CDatabase::removeInstance` and `CDatabaseInstance::putInUse`, which nothing
  calls.
- The TLS layer (`CNetHandler_openssl.cpp`): calls into OpenSSL one after the
  other, whose state the library holds.  What they decide, a handshake or a
  certificate, is not decided by this code.  The choice of a certificate by host name
  is installed by `setSNIEnabled`, which nothing in the library calls.
- `CTrustStore`, which nothing uses, and `CFlagCollection`, a container that
  does what `std::vector` does.
- The configuration in its yaml-cpp version: calls into that library.
- Descriptor numbers: a node closes its socket twice, and
  `readBinaryFile` never closes its file.  `HttpNode` names a connection, not a
  number, so neither shows (section 6).
- The address filter of the sockets, and the text of static paths and MIME
  types: `HttpNode` decides who answers, not with which bytes of a file.
- An exception that leaves an endpoint callback ends the process; the models
  take callbacks to return.
- A blank in the target of a request: `CNode.cpp:287` cuts the target there, and the
  targets of `HttpWire` have none.  An HTTP/1.0 status line, which `CClient.cpp:310`
  takes for a header: the strange servers answer as HTTP/1.1 (`ServersAssumption`).
- What the code does after an accident that a property excepts is not a promise of
  anything: a thread that could not be created leaks its connection, a creator's
  instance that was reused may expire under its users, two threads that set one
  session's variables at once may both add the name.
- Strings are read and written whole: what a `std::string` is to a reader while
  another thread assigns it is undefined, and not followed further.
- `~CSession`: nothing in the library deletes a session, so the items that are
  in its list twice are never deleted at all.
- Logging, string helpers, interfaces and factories: output and constructors.

## 6. Plan

Order of the modules still to write, the most important behaviour first:

1. `SocketFds`: descriptor numbers under the double close of a node and the files
   that are never closed; with it the sockets' retry of a failure that lasts.
2. `Service`, the abstract server (connections served or refused), implemented
   by `Server`.
3. `AddrFilter`, `StaticRoute`: the pure algorithms against reference definitions
   over bounded inputs.
