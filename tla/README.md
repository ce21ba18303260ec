# A TLA+ verification project for ThreadComponent

ThreadComponent is a set of C++17 components for programs built out of
background workers: a base class that owns one worker thread, two thread-safe
containers, TCP clients and servers, HTTP(S) clients and servers, and a gRPC
worker. This directory models them in TLA+, checks the models with TLC on small
instances, and proves the central results with TLAPS for all instances.

## 1. Inventory

| component (source) | state | operations | talks to | what is hard | what makes it correct |
|---|---|---|---|---|---|
| **worker life cycle** `cBaseWorker_V2.h` | `m_state`, `m_stopRequested`, `m_thread`, the recorded exception | `startThread`, `stopThread`, `stopThreadAndJoin`, `requestStop`, `retire`, destructor, `threadRunner` | virtual hooks `preRun`, `run`, `stopTriggered` of every derived worker | several callers, a stop racing a start, timeouts, thread creation failing, destruction while the thread runs | one thread in the hooks; Stopped is only announced when none is; every thread is joined by someone; stop requests are not lost; waiters are woken |
| **heartbeat** `cBaseWorker_V2.h` | `m_heartBeat`, `m_heartBeatPeriod` | `updateHeartbeat`, getters | worker and observers | the time is taken before the lock | the period is the distance of two beats |
| **thread queue** `cThreadQueue_V2.h` | `m_queue`, the cached `m_queueSize` | push, bulk push, pop, `getFront(n)`, clear, move | producers and consumers | an element that throws in the middle of a bulk operation | FIFO, nothing lost or duplicated, size is the size |
| **simple container** `simple_container_V2.h` | `m_items`, condition variable | insert (one, by move, by copy), grab by count or predicate, timed grab, clear, snapshot | producers and waiting consumers | wake-ups with several waiters, requeueing | nothing lost, nobody sleeps beside an item |
| **TCP client** `cTCPClient_V2.h` | socket, outbound queue, writer thread | `send`, hooks | base worker, the peer | stop during connect, descriptor reuse, send racing stop | no leaked descriptor, no send on a foreign descriptor |
| **TCP server** `cTCPServer_V2.h` | listening socket, client sessions and their threads | hooks, the accept loop, `handleClient` | base worker, clients | session end racing shutdown, accept racing stop | every session joined, every descriptor closed once |
| **synchronous TCP client** `cTCPSyncClient_V2.h` | socket, last error | connect, send, receive (exact, until a delimiter), exchange | the peer | partial reads and writes, deadlines, limits | complete or reported, never over the limit |
| **gRPC worker** `cGenericGrpcWorker.h`, `cGrpcServerWorker.h` | server, completion queue, calls in flight | hooks, per-call state machine | base worker, gRPC (external) | shutdown order, stop during start-up | queue drained before it is destroyed |
| **HTTP(S) server, V2** `cHTTPServer_V2.*`, `cHTTPSServer_V2.*` | io context, start handshake, error hook | `startThread`, hooks | base worker, Simple-Web-Server (external) | stop during start, failed start, several io threads | start is resolved exactly once, restart works |
| **HTTP(S) server, legacy** `cHTTPServer.*`, `cHTTPSServer.*` | server object, settings, start state; routes, `cResponse` | setters, `startThread`, hooks; handlers and responses | base worker, Simple-Web-Server (external), the HTTP client | stop before start, a pointer used after the lock, setters racing a start; responses shared by copies, handlers that throw | starts are reported honestly, stops arrive, settings belong together; exactly one response to a request |
| **HTTP client** `cHTTPClient.*` | request settings, response | `perform` and its shorthands, callbacks of libcurl | libcurl (external), an HTTP server | redirects, header blocks, transfers cut off anywhere | the response belongs to one hop; `perform` returns |
| `cTCPClient.h`, `cTCPServer.h` | as their V2 | as their V2 | `cBaseWorker.h`, which is not in the repository | - | not modelled: they do not build without it |
| `scope_exit.h`, `examples/` | - | - | - | - | not modelled: a one-line guard; demonstrations and generated code |

## 2. Plan

Done so far, in this order, the most important behaviour first:

1. `BaseWorker` with its abstract specification `WorkerContract` and the proofs
   of its safety properties;
2. the containers `SimpleContainer` and `ThreadQueue`;
3. the workers built on the base class, `TcpClient`, `TcpServer`, `HttpServer`
   and `GrpcWorker`: each extends `BaseWorker`, replaces the open hooks by the code
   of the derived class, and is proved to implement `BaseWorker`;
4. `SyncClient`, which uses no worker;
5. `HttpExchange`, which composes the HTTP client with the request side of the
   legacy HTTP servers, and `LegacyHttp`, their life cycle on top of
   `WorkerContract`;
6. proofs, in modules of their own (`...Proofs`; the two containers share one, and
   so do the two modules about the legacy HTTP servers): the base class, the
   refinements, then the invariants of every component, so that each invariant that a
   run checks is also a theorem (section 5).

Still to come: the heartbeat (two time stamps, an unsigned difference).

## 3. The modules

`MC*.tla` modules define the sets and the symmetry for TLC, nothing else.
Definitions marked `Mutant:` are wrong variants of the definition that follows
them; substituted for it they break the property named in `PROJECT.json`. They
are not part of any specification.

### BaseWorker, WorkerContract

`m_state`, `m_stopRequested`, `m_thread` and `m_lastUnhandledException` are the
members of the class. A caller is described by the operation it executes (`op`),
its place in it (`pc`), the `std::thread` it has moved into a local variable
(`held`) and the result (`res`); a worker thread by its place in `threadRunner`
(`tpc`); and every process by its place in a nested `requestStop` (`rs`).
`before` is history: the threads that existed when the operation began. A step
is one critical section of `m_stateMutex`, one notification, one call or return
of a hook, or one join; spurious wake-ups add nothing, because a woken waiter only
evaluates its predicate again. `object` follows the destruction: the derived
destructor calls `stopThread`, the derived members go, then the base destructor
requests a stop and joins. The C++ rules for lifetimes are the guard of `Begin`:
no calls during or after the destruction.

The hooks are open: `preRun` returns either value, `run` returns at any time,
both may throw or call `retire`, and `Helpers`, threads of the derived class, may
call `requestStop` while `run` executes and are joined before it returns.

`WorkerContract` is what a reader of `getState()` may rely on: one attempt at a
time, Stopped exactly between the attempts, Running announced at most once in an
attempt. The mapping (`Contract` in `BaseWorker`) counts a caller whose
`std::thread` could not be created as an attempt of its own.

### SimpleContainer

The container is a sequence; items are inserted at most once, which makes
"nothing lost, nothing twice" a statement about three sets. A timed grab is split
into its check, its sleep and its wake-up. `surplus` counts the items that a
batch added beyond one for its single notification, and what a woken consumer leaves
behind when its grab throws. The predicate and every allocation of a call may throw
(`GrabSelectedThrows`, `InsertThrows`, `GrabThrows`): the items that the call had
moved into its local container are `destroyed` with it, and an out-of-memory `grab`
leaves their moved-from shells in the list (`hollow`).
The loop of `grab(count, fn, offset)` is a recursive function over its iterations
(`SelectLoop`); `Selection` is where it ends, and `SelectionMeans` says without a loop
what it should select.

### ThreadQueue

Several queues, because a move connects two. The elements
are numbered in the order of the pushes, so that FIFO is "increasing". `torn`
marks the queues whose last bulk operation failed by an exception between the
change of the queue and `syncCachedSizeLocked`.

### TcpClient, TcpServer, HttpServer, GrpcWorker

They extend `BaseWorker` and replace its hooks: `stage` is the place in `preRun`
or `run`, `hook` the place in `stopTriggered`, and the other program counters are
those of the threads that the derived class creates. Their actions are conjoined
with the actions of `BaseWorker` where a hook begins or ends, and leave its
variables unchanged elsewhere.

- `TcpClient`: descriptors have an owner and their numbers are reused; a system
  call acts on what the number stands for at that time. A `recv` or `send` on a number
  that is somebody else's by then has gone `astray`. `send` is called without
  `MSG_NOSIGNAL`: on a broken or shut connection it either returns an error
  (`SendFails`) or raises the signal that ends the process (`BrokenPipe`, after which
  no step of the process follows). Messages are the length of the outbound queue.
- `TcpServer`: one thread for each session; the list `m_clients`, the lists that
  the drain has spliced off (`mine`), and `m_clientsMutex` where it is held over
  several steps. Sessions are numbered as they are accepted and only ever appended,
  so a list is the set of its sessions and its front the one with the lowest
  number (`First`). As in the client, the application opens descriptors too
  (`OtherOpens`, `astray`). A session whose thread cannot be created has its socket
  closed in `startClientSession` and, by number, again in `run` (`closeAgain`).
  Payloads are left out.
- `HttpServer`: the `io_context` of a session is named by the worker thread that
  made it; it has a queue of posted functions and is run by the worker thread and
  by at most one additional thread. Simple-Web-Server and asio are external and
  modelled from how `cHTTPServer_V2.cpp` uses them. `m_start` combines the three
  members of the start state, which change together. The module stands for
  `cHTTPSServer_V2.cpp` as well, which is the same code plus certificates.
- `GrpcWorker`: the server and the completion queue of a session are named by the
  thread whose `preRun` built them, so that a stale pointer is visible. A
  `CallData` (`call`) waits for a client, has a tag in the queue, executes or
  finishes; `run` takes the tags one by one. gRPC is external and taken at its
  interface: `Shutdown` refuses the listeners and returns when the RPCs in
  progress are finished; a queue that is shut down reports so once it is drained
  and must be given no more work. Doing so, or using a destroyed object, ends the
  behaviour in `crash`, which says what happened. `outlasted` is history: a stop was
  still executing when the worker was started again.

### LegacyHttp

`cHTTPSServer`, and `cHTTPServer` as the same text without certificates. The base
class takes part by its contract: the steps that move `getState()` are the actions
of `WorkerContract`, which `BaseWorker` is proved to implement, with
`m_stopRequested` beside them. That keeps the module to what the derived class
adds. An attempt names both the worker thread of a `startThread` and the
Simple-Web-Server object that its `preRun` makes, so that a pointer into the session
before is visible. A step is one critical section of `m_impl->mutex`, one call of
the library, or one step of the contract: `stopTriggered` is three (copy the
pointer, call `stop()`, resolve the start), a setter two (`isRunning()`, then the
locked write). The library ignores a `stop()` before `start()` and unblocks
`start()` afterwards. The ghosts `heard`, `early`, `ended` and `excused` record what
the exceptions in the properties speak of.

### HttpExchange

One request from `cHTTPClient::perform` to a handler and back. An exchange is one
request on the wire, and a followed redirect makes a new one. On the server's side it
has the place of the lambda that `preRun` installs, the owners of a copy of the
`cResponse`, its shared `responded` flag, the owners between the exchange of that
flag and the end of the writer, and the stream, which the library sends when the last
owner lets go. On the client's side `perform` goes through the initialisation, the
handle, the options and the transfer; the parts of an `st_Response` are the sets of
hops they come from. A method or header name is a word and its spelling: plain, in
another case, or padded. `normalizeMethod` forgets the spelling, as the code does by
trimming and folding the case; `iequals` folds the case only. A header without a value
is one that libcurl leaves out (`Passed`). A registration is two steps, the question
whether the server is running (`AsksIsRunning`) and the write under the mutex
(`addResource`), which may fall before, between or after the steps of the server's
start and stop; `routes` is what `preRun` copied, `inForce` how many registrations had
been written by then. A handler, or a holder of a copy, answers with any status, before
or after which the handler may throw; `explicit` records that somebody did. Paths are compared for equality instead of
matched as regular expressions. libcurl and Simple-Web-Server are external and taken
from how the two files use them.

### SyncClient

One call at a time against a peer that may send, stay silent or close at any
moment. A step is one system call. Bytes are values; the delimiter is CR LF and a
chunk has two bytes, so that a delimiter is cut by every boundary. `handed` is
history: what the receives so far have returned.

## 4. The runs

| run | instance | what it shows |
|---|---|---|
| `worker_pair` | 2 callers, 1 helper, 2 threads, all operations | the safety of `BaseWorker`: no detached thread, no lost wake-up, a reported stop is one, after `stopThreadAndJoin` the thread has exited or another caller is joining it, the derived members outlive the hooks unless the destructor's `stopThread` timed out, a stop request sticks, and the refinement of `WorkerContract` |
| `container` | 2 producers, 3 consumers, 3 items, calls that throw | every item is in one place (or destroyed by the exception of the call that held it), the selection is what it should be, and nobody sleeps beside items for which a wake-up was owed |
| `queue` | 3 queues, 2 pollers, 4 elements | FIFO without loss or duplication; a wrong cached size heals; a lone consumer may trust `empty()` |
| `client_restart` | 2 callers, 2 sessions, 1 descriptor number shared with the application | a stop hook of the first session in the middle of the second: no foreign or double close, a finished `run` leaves no loop and no socket |
| `client_stop` | 1 caller, 1 sender, 1 session, an application that opens descriptors of its own | the writer is woken, and the client stops beside a silent peer, unless one of its loops has called `recv` or `send` on a number that was given to somebody else, or SIGPIPE has ended the process |
| `server` | 1 caller, 1 start, 2 connections, 3 descriptors, one of which the application may take | every socket of the server is closed once and the second close of a refused session never hits one, every handler is owned and joined, and the server stops, unless its accept or a handler's `recv` was called on a number that was given to somebody else |
| `sync` | 2 addresses, 3 bytes of stream, chunks of 2 | the stream is intact, results, errors and buffers agree, no descriptor leaks and a socket has the timeouts that were set |
| `http_restart` | 2 callers, 2 sessions | no caller takes an old announcement for its own; the user's error handler survives |
| `http_stop` | 1 caller, 1 session, 2 io threads | the server stops in every race with its start, its handlers and their exceptions, and a stopped one serves nobody |
| `grpc` | 1 caller, 2 sessions, 3 calls each | work meets a closed queue only when a stop overtakes the first listener, a destroyed object is only ever that of a session that is over, the queue is drained, every RPC is answered, and the worker stops |
| `http_exchange` | 1 client with 5 kinds of request, 2 holders of copies, 2 of 3 registrations, 1 start of the server, 2 exchanges | a request is answered once, a failure is not taken for a success unless somebody had answered before it, a result is of one hop, a request reaches the handler in force with the headers that have a value, and `perform` with a timeout returns |
| `legacy_http` | 2 callers, 2 starts | a reported start was announced, one stop alone never meets a destroyed server, a server's settings belong together and are those the getters return, and a stop request reaches the server that listens |

**Bounds.** Every start consumes a thread identity, so two threads are two sessions:
the races between a session and its successor need two, and a third would meet the
same members in the same states. Two callers are enough for every pair of operations
to overlap; of the invariants section 5 has proofs for any number. Three items beside
three consumers are enough for a batch that brings more than it wakes, four queued
elements for two bulk operations in a row. In `sync` three bytes are a chunk and a
half: a delimiter before, at and after a chunk boundary, and a limit below, at and
above the stream. In `client_restart` one descriptor number is shared by everyone, the
worst case for reuse. `MaxPosted` is two: a hook posts two functions, and a third
would wait in the same queue. `MaxCalls` is three: two RPCs, one of them behind the
other, and the listener that waits for the next. The `grpc` run has one caller, so
that its liveness can be asked for; its invariants are proved for any number. In
`http_exchange` two exchanges are a request and the one redirect that `maxRedirects`
allows, two holders beside the lambda are three owners of one response, and two
registrations are a route and its replacement or its default, of which each may be
written before or after the copy. One start of the server is followed: what a second
one serves is again what is registered when it copies. The statuses are 200, 204, 302
and 500, one of each kind that a client tells apart; informational ones (1xx), which
end no transfer, are not followed. In `server` three descriptors are a listener, a
connection and one that a second connection and the application (`MaxOthers` is one)
compete for. In `legacy_http` two
starts let a late hook, a setter or a second `startThread` meet the next session;
callers and attempts are symmetric, which is sound for its invariants. The runs with
liveness have one caller because another caller can prevent it (section 6), and no
symmetry.

**Fairness.** Weak fairness of every thread stands for an operating system that
schedules all threads. Strong fairness is assumed in three places only:
of the timeouts of `wait_for`, which expire however often the waiter is woken
before; of the steps of a thread that may need
`m_clientsMutex`, which is contended (`TcpServer`: one strong fairness for all steps of
the worker thread, which executes one after the other); and of what is posted to an
`io_context`, whose queue is first-in first-out, so that what is posted is
executed although handlers keep coming (`HttpServer`; the hook that posts waits
only for the model's bound). A blocked `recv`, `send` or `accept` returns once
its socket has been shut down, and `Finish` of an RPC completes. No peer is ever
assumed to connect, send or close. A `send` on a socket that has been shut down ends
with an error or with SIGPIPE, one or the other. In `HttpExchange` only `perform`'s own
steps and the expiry of a timeout that was set are fair, and nothing is assumed of the
network and of the server.
`BaseWorker` and `LegacyHttp` are checked for safety only: whether a bare worker
stops is up to its hooks, which is why that question is asked of the derived workers.

## 5. The proofs

`BaseWorkerProofs` proves for any sets of callers, helpers and threads, from
`WorkerAssumption` alone (the kinds of processes are disjoint):

- `TypeCorrect`;
- `Exclusive`: `OneAttempt /\ StoppedIffIdle`. This is the heart of the matter.
  "One live thread" is not inductive: a caller whose `std::thread` constructor
  threw holds the state in Starting without a thread and puts it back to Stopped
  later, which must not happen beside a live thread. Counting that caller as
  an attempt makes the statement inductive: a claim needs Stopped, Stopped means
  that there is no attempt, and only an attempt writes Stopped.
  `OneLiveThreadAlways` and `StoppedMeansQuietAlways` follow. TLC checks them
  through the refinement of `WorkerContract`, which breaks when they do;
- `Ownership`: with "`held` is set exactly during a join" every thread has exactly
  one owner (`NoDetachedThread`);
- `WakeupsArrive`: a waiter sleeps beside a true predicate only while a
  notification is due (`NoLostWakeup`);
- `StopTrueIsTrue` and `DestructorJoins`, from the bookkeeping of which operation
  can be where (`PlaceFitsOperation`, `DestroyerAlone`, `BeforeBorn`) and the
  strengthenings `StopResult` and `Dismantling`;
- `StopRequestsStick`, an action property, from `Exclusive`: the only write that
  clears the flag needs Stopped;
- `ContractImplemented`: `Spec => Contract!ContractSpec`, one step per action;
- `StopAndJoinIsThorough`: `StopAndJoinMeansExited` speaks of calls that have
  returned. `MovedOut` says why none of their threads is left over: a call that is done
  waiting leaves no live thread of its own in `m_thread`; somebody, this caller or
  another, has moved it out to join it;
- `DerivedMembersOutliveHooks`: `DerivedOutlivesHooks` is about a destroyed object.
  `DestroyResult` carries the result of the destructor's `stopThread` to the
  destruction, `SomebodyDestroys` says that meanwhile nobody else can start a thread.

`TcpClientProofs`, `TcpServerProofs`, `HttpServerProofs` and `GrpcWorkerProofs`
prove that the derived workers implement `BaseWorker`, with a lemma for each group of
actions: what preRun, run, stopTriggered and the additional threads do is a hook step
of `BaseWorker` or leaves its variables alone. All theorems about `Spec` therefore
hold for the derived workers, and the proofs below use them. In addition:

- `ClientTypeCorrect`, `ServerTypeCorrect`, `HttpTypeCorrect` and `GrpcTypeCorrect`,
  the type invariants;
- `WriterIsWokenAlways`: between its check of the predicate and its sleep the writer
  holds the mutex, through which a stop and a `send` have to come before they notify
  (`WakeInv`). `Places`, here and below, says which program counters go together:
  the loops exist only in `run`, and a hook begins at its first statement;
- `ClosesOwnOnceAlways`: `ClosesOwnOnce` speaks of the hands that are about to close.
  `SocketInv` adds the store in which they find the descriptor: what `m_socket`
  names is open, the client's, and in no hand, so that an exchange of `m_socket` gives
  the taker a descriptor nobody else has;
- `RunLeavesNothingAlways`: `TraceInv` follows a socket from the thread that opened it:
  while its session matters, it is in `m_socket` or in a hand;
- `HandlersAreOwnedAlways`: a drain must not overwrite a local list that still has
  sessions, and the list in the object must have somebody who will take it. `SessionInv`
  adds both (`ListsEmptied`, `ListServed`), and that a handler which has taken its
  socket has left none in its session (`QuietHasNone`);
- `ServerClosesOnceAlways`: as in the client, `SocketInv` relates the members to the
  hands; a hand is any local variable whose descriptor belongs to its process alone
  (`Hand`), a fresh socket or connection included. The connection of a session without
  a thread is the exception: `startClientSession` has closed it when `run()` closes it
  again. In between its number may be given to the application (`RepeatsForeign`), but
  not to the server, because the thread that would accept is the one that refuses
  (`AloneInHooks`, from `OneAttempt` of the base class);
- `StoppedServesNobodyAlways`: `Followed` says that a connection is in a hand or in the
  session of an executing handler. In a stopped server `Places` leaves only hands that
  are about to close, and `ListServed` an empty list;
- `StartIsHonest`: the outcome was pending when the call began, so that who makes it a
  success tells this caller (`HeardSinceCall`);
- `HandlerSurvives` and `StoppedIsSilent`, from `SessionInv`: where preRun and run are
  when the wrapper is installed, which threads run which context, and that in the queue
  of a context the stop of the server comes before the stop of the context. The
  exceptions are recorded in `mishap`;
- `QueueIsDrained`: `GrpcSpec => []DrainedBeforeGone`. It speaks of threads that
  have left `run`; what is inductive is `InLoop`, that a `CallData` with an
  operation or a tag in the queue belongs to a thread in `run`. Only `LeaveLoop`
  takes a thread out of there, and it needs a drained queue; that the base class
  does not is the lemma `RunGoesOn`;
- `CrashesAreExplained`, for any number of callers: `CrashInv` says to whom the objects
  belong, what a hook may hold, that a server which was shut down has no armed listener,
  and that a stop has done what the order of its statements promises (`StopsInOrder`)
  unless one outlasted its session.

`ContainerProofs` proves the invariants of both containers. Of the `queue` run, for
any queues, pollers, bulk sizes and bounds (`QueueTypeCorrect`, `EveryElementOnce`,
`CacheHeals`): every action is shown to be an `Operation(q, s, D, L)`: it leaves queue
`q` as the sequence `s`, hands out the elements of `D` and destroys those of `L`, with
nothing in two places; a move is two of them. `QueueInv` is preserved by any
`Operation`. That a lone consumer may trust `empty()` needs `SoloistTrusts`: between
its check and its pop nobody else takes from the queue, and no operation on it fails.

Of the `container` run, for any items, batches, counts and offsets, and any finite sets
of producers and consumers (`ContainerAssumption`; threads are finitely many, and
`NoSleeperBesideItems` counts them):

- `EveryItemOnce`: each grab `Deals` the items out into what stays and what is
  returned, or destroyed if it throws; that, and that a batch brings new items only,
  keeps `ExactlyOnce`. An exception finds the loop of a selective grab at any of its
  iterations, so that what it has dealt out by then is an induction, too;
- `ItemsMeetConsumers`: `NoSleeperBesideItems` is inductive together with the types.
  The cases are the counts: an insert adds its items to `surplus` and to the
  notifiers, a notification turns a notifier into a consumer that looks, and one that
  has looked takes an item or has seen an empty container;
- `SelectiveGrabIsRight`: `SelectedUpTo` relates the loop after `k` iterations to the
  positions that `SelectionMeans` chooses among the first ones, and says when it is
  `over`; one iteration keeps it (`SelectedStep`), and at the last it is
  `SelectionIsRight`. The induction over the iterations is `SetInduction`: for a set of
  numbers, so that no theorem with an operator parameter is needed, it follows from the
  minimal elements of the library's `WFMin`. `LoopExists` and `LoopUnfolds` give the
  recursive function its equation.

`SyncClientProofs` proves the invariants of `sync` for any bytes, descriptors,
addresses, sizes and timeouts, from `SyncAssumption` (`SyncTypeCorrect`,
`StreamStaysIntact`, `ResultsAreHonest`, `SocketStaysInOrder`). `SyncInvariant` adds
what the calls under way need:

- `CallsInOrder`: which operation may be at which system call, with or without a
  connection;
- `SocketKept`: the open descriptors are the one in `m_socket`, during a call too;
- `LoopGoesOn`: a loop of receives that goes on has room left, has recorded no error and
  has not seen its delimiter. So the chunk that fills the buffer, or brings the
  delimiter, decides the result;
- `StreamKept`: `StreamIntact`, and without a connection there is no stream. That a
  chunk only moves bytes from the kernel to the buffer is `ChunkFacts`, from the lemma
  `Cut` about a sequence and its two parts;
- `ResultKept`: result and recorded error agree before the `closeOnExit` of an
  exchange already, when the call has not returned yet.

`LegacyHttpProofs` proves the four invariants of `legacy_http` for any
callers and starts, the first three from one inductive invariant `LegacyInv`:

- `LegacyStartHonest`: `LegacyStartIsHonest` speaks of callers that wait, but the
  outcome may stand before they do; `HeardSinceCall` includes those still in
  `cBaseWorker_V2::startThread`;
- `LegacyStopSafe`: `StopsExistingServer`, from `ServerIsOurs` (a server belongs to an
  earlier attempt and is not the running attempt's before that has made it, so that
  replacing it destroys no server in use) and `DestroyedWasEnded`;
- `LegacyStopDelivered`: `StopIsDelivered` is not inductive, because `start()` makes a
  server listen whose stop has already been asked for; `PromiseBeforeStart` says
  that from the check of the flag on somebody is on the way to it;
- `LegacySettingsInForce`: `SettingsInv` follows the settings through the copy that
  `preRun` takes and the server that it makes, and a setter from its check to its
  write. It needs `PairAssumption`: a certificate is only ever set with its key.

The base class enters by `BaseStep`: every step is one of `WorkerContract` or leaves
its state alone. The assumption is `LegacyAssumption`.

It also proves the four invariants of `http_exchange`, for any clients,
holders, requests, registrations and redirects:

- `ExchangeInvariant`: `Sound`, for each exchange, has `AnsweredOnce` as one of four
  parts. The others say who has a copy at each place of the lambda (`CopiesFit`),
  that as long as nothing was written somebody is left who will write, unless two
  destructors overlapped (`SomeoneWill`), and whose answer a status is (`Meant`): a 500
  of the catch clause, one that the handler or a holder gave, or a 204 where the
  handler's silence was a choice (`SilenceIsChosen`). `Received`, for each client,
  says that what it has so far comes from one exchange whose answer was sent.
  `AnsweredOnceAlways`, `FailureIsNeverOk` and `OneHopAlways` follow;
- `RequestsArrive`: the property compares the route with the registrations in the order
  of their writes. `Table` relates the two representations, for `resources` and all
  writes and for `routes` and those that `preRun` copied; a later write leaves the
  second alone (`TableStays`). `Asked` follows a request from `perform` to the handler.

The assumptions are those of the modules (`ClientAssumption` and so on): which
threads are helpers, that the null values are none of the others, bounds that are
natural numbers, that sessions are not processes, and in `RequestAssumption` that a
request has a method.

Only model-checked: liveness, which is out of the prover's reach. Every invariant that
a run checks is a theorem, and so are the action property and the refinements.

## 6. Observations

Behaviours met while modelling. The models contain them unless noted; where a
property would otherwise deny one, the property names it as its exception:

- the class comment says that `stopThread()` in the derived destructor "ensures the
  worker thread has fully exited before derived members are destroyed"
  (`cBaseWorker_V2.h:19-20`). `stopThread` gives up after its timeout and the
  destructors ignore its result: then the members go under a running hook;
- of two callers in `stopThreadAndJoin` one moves the thread out and joins it; the
  other finds nothing to join and may return before the thread has exited;
- a `startThread` between the request and the wait of a `stopThreadAndJoin` of
  another caller clears the flag; the join then waits for the new session
  (`cBaseWorker_V2.h:74`), for ever if nobody stops it. With a zero timeout
  `stopThreadAndJoin` joins only a thread that has already announced Stopped;
- Stopping may be overwritten by Running, when the request comes between the
  check of the flag and the announcement (`cBaseWorker_V2.h:280`);
- a batch insert notifies one waiter, however many items it brings
  (`simple_container_V2.h:111`);
- a predicate that throws in a selective `grab` destroys the items that the call has
  moved out so far (`simple_container_V2.h:183`), and so does a requeue without memory
  (`:193`, `:308`); a `grab(count)` that runs out of memory leaves moved-from shells in
  the list; `ExactlyOnce` counts both;
- `insert(C&&)` moves the elements and leaves the source as long as it was
  (`simple_container_V2.h:99`), while the test requires a moved batch to be empty
  (`examples/cTestSimpleContainer_V2.cpp:62-64`); not modelled, the source is the
  caller's;
- the TCP client reads its descriptor and calls `recv` or `send` later, when the
  number may be another socket (`cTCPClient_V2.h:155`); a loop that blocks there is
  not woken by the stop, and neither is the server's `accept` or a handler's `recv`
  (`cTCPServer_V2.h:96-102`, `:194-200`); `::send` is called without `MSG_NOSIGNAL`
  (`cTCPClient_V2.h:239-243`), which the synchronous client uses
  (`cTCPSyncClient_V2.h:633-640`): a connection that breaks, or a stop that shuts it
  during a blocked `send`, raises SIGPIPE and ends a process that does not ignore it;
  a session whose thread cannot be created has its socket closed twice
  (`cTCPServer_V2.h:180`, `:124`), and the second close may hit a descriptor that the
  application has opened since (what the application does without it is not
  followed); a start that is abandoned
  after `preRun` leaves its socket open (`cTCPClient_V2.h:91`,
  `cTCPServer_V2.h:62`); a failure to create the second loop's thread terminates
  the process (`cTCPClient_V2.h:115`, not modelled);
- a start of the HTTP server that is abandoned, or a session that ends by an
  exception, leaves the error wrapper, the context and the acceptor behind
  (`cHTTPServer_V2.cpp:102-116`, `:160-166`), and `startThread` waits for its whole
  timeout if the start is abandoned without a resolution (`:171-182`);
  `startThread` on a running server resets the announcement that others wait for
  (`:76-83`); a late hook of an old session may stop the new one;
- a stop of the gRPC worker between the check of the flag and the first listener
  shuts the queue down first, and `run` gives it work (`cGenericGrpcWorker.h:143`);
  the objects of a session stay after it, and `stopTriggered` reads the pointers
  without a lock: a stop during the next `preRun` may use what that has just
  destroyed (`:190`), and a hook that is overtaken by a start of another caller shuts
  the new session down, which `CrashesExplained` excuses by `outlasted`; a stop during
  `preRun` finds no server, and the one that is built then listens until
  the next start or the destructor (`:187-198`); the bound port outlives its
  session, although `boundPort` "Returns 0 while not running" (`:91`);
  an `OnExecuteRpc` that calls `retire` would wait for itself in `Shutdown` (not modelled);
- two copies of a `cResponse` that are destroyed at the same time each see the other's
  and neither answers (`cHTTPServer.cpp:300-304`); an error handler that throws in the
  catch clause keeps the 500 from being written, and the destructor answers 204
  (`:631-656`); a handler that answers and then throws is a success for the client,
  because `responded` keeps the 500 away (`:322-327`); if the error handler throws once
  more in `on_error`, the server ends (`:707-721`);
- `addResource` and `setDefaultResource` ask `isRunning()` before they lock
  (`cHTTPServer.cpp:375`, `:404`): a registration that races a start, or is made while
  the worker is stopping, answers true and is not served in that session;
- a header of the caller with an empty value is sent as `Name: `, which libcurl takes
  for the wish to remove it (`cHTTPClient.cpp:101-110`); a `Content-Type` padded with
  white space is not recognised, and a second one is added (`:71-88`); a request whose
  `timeout` is 0 has no timeout at all and waits for a silent handler for ever (`:279`);
- a POST without a body leaves `CURLOPT_POSTFIELDS` unset, and libcurl reads the
  standard input; a GET with a body is sent as a POST (`cHTTPClient.cpp:338-344`);
- a `stop()` of the legacy HTTP server between the check of the flag and `start()` is
  lost, and `run` blocks until the next stop (`cHTTPServer.cpp:780-794`); a second
  `startThread` resets the start state, and the port, of the session that another
  caller waits for; a late stop hook resolves the start of the next session, or
  stops its server; a setter that has asked `isRunning()` before a start may write
  after it, and the getters then deny what the server works with; a run that throws,
  and a start that is abandoned, leave the server object behind;
- the synchronous client reads past the delimiter and hands the surplus to the
  caller; a payload of exactly `maxBytes` is refused by `receiveUntilClosed`
  until the peer has closed.

## 7. Not modelled

| part | reason |
|---|---|
| heartbeat | time stamps: the arithmetic of `std::chrono` under a mutex; planned, section 2 |
| matching of paths, options of libcurl without a decision, header lookup in `st_Response`, TLS | regular expressions and settings that only the libraries interpret |
| more than one additional io thread of the HTTP server | at most one in `HttpServer`; a failure to create the second of several needs more |
| error texts, addresses, ports, payloads, getters | no decision depends on them |
| `cTCPClient.h`, `cTCPServer.h` | derive from `cBaseWorker.h`, which is not in the repository |
| `scope_exit.h`, `examples/`, generated code | a guard without state; demonstrations |
