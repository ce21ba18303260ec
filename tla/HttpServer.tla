----------------------------- MODULE HttpServer -----------------------------
(***************************************************************************)
(* cHTTPServer_V2 (cHTTPServer_V2.cpp) on top of cBaseWorker_V2;           *)
(* cHTTPSServer_V2 differs in the certificates only.  The worker thread    *)
(* and an additional thread of m_ioThreads (a Helper) run the io_context   *)
(* of the session, which executes the handlers of Simple-Web-Server and    *)
(* what stopTriggered posts.  startThread is overridden: it resets the     *)
(* start state, starts the base class without waiting and then waits for   *)
(* the announcement.                                                       *)
(*                                                                         *)
(* A context is named by the thread whose preRun made it.  m_startResolved,*)
(* m_startSucceeded and m_listeningPort always change together and are one *)
(* variable; m_lastError is only text.  The mutex of the start state is    *)
(* held for one step, and the notify_all that follows is part of it.       *)
(***************************************************************************)
EXTENDS BaseWorker, Naturals, Sequences

CONSTANTS NoContext,  \* the value of a null m_io
          Timed,      \* the timeouts of startThread: none (FALSE), some (TRUE), or both
          MaxPosted   \* bound: what waits in the queue of a context

\* With two additional threads a failure to create the second would leave the
\* first one behind; that case is left out.
ASSUME HttpAssumption ==
    /\ \A h, k \in Helpers : h = k
    /\ NoContext \notin Threads
    /\ Timed \subseteq BOOLEAN
    /\ MaxPosted \in Nat
    /\ "startThread0" \in Operations

Contexts == Threads
IoThreads == Threads \cup Helpers

\* How many threads may run a context.
Counts == IF Helpers = {} THEN {1} ELSE {1, 2}

VARIABLES m_io,
          m_start,          \* the start state
          m_ioThreadCount,
          on_error,         \* m_server.on_error
          m_userOnError,
          acceptor,         \* the context on which m_server accepts, or NoContext
          posted,           \* the functions in the queue of a context
          halted,           \* is the context stopped, or left behind by its thread?
          stage,            \* where in preRun or run a worker thread is
          ipc,              \* where in runIo a thread is
          hook, hio,        \* where in stopTriggered a process is, and its copy of m_io
          wpc,              \* where in startThread a caller is
          heard,            \* ghost: an announcement since the caller's startThread began
          mishap            \* ghost: a session was abandoned or ended by an exception

startVars == <<m_start, wpc, heard>>
ioVars == <<acceptor, posted, halted, ipc>>
handlerVars == <<on_error, m_userOnError>>
httpVars == <<m_io, m_ioThreadCount, stage, hook, hio, mishap, startVars, ioVars, handlerVars>>
allVars == <<vars, httpVars>>

HttpTypeOK ==
    /\ m_io \in Contexts \cup {NoContext}
    /\ m_start \in {"pending", "succeeded", "failed"}
    /\ m_ioThreadCount \in Counts
    /\ on_error \in {"user", "wrapper", "empty"}
    /\ m_userOnError \in {"user", "wrapper", "empty"}
    /\ acceptor \in Contexts \cup {NoContext}
    /\ posted \in [Contexts -> Seq({"stopServer", "stopContext"})]
    /\ halted \in [Contexts -> BOOLEAN]
    /\ stage \in [Threads -> {"make", "start", "announce", "process", "io", "join", "conclude",
                              "restore", "failed", "end"}]
    /\ ipc \in [IoThreads -> {"off", "run", "handler", "stopServer", "catch", "requested", "done"}]
    /\ hook \in [Procs -> {"read", "foreignStop", "postStop", "postHalt", "resolve", "return"}]
    /\ hio \in [Procs -> Contexts \cup {NoContext}]
    /\ wpc \in [Callers -> {"off", "base", "base0", "called", "called0", "wait", "sleep"}]
    /\ heard \in [Callers -> BOOLEAN]
    /\ mishap \in BOOLEAN

HttpInit ==
    /\ Init
    /\ m_io = NoContext
    /\ m_start = "pending"
    /\ m_ioThreadCount \in Counts
    /\ on_error = "user" /\ m_userOnError = "empty"
    /\ acceptor = NoContext
    /\ posted = [x \in Contexts |-> <<>>]
    /\ halted = [x \in Contexts |-> FALSE]
    /\ stage = [t \in Threads |-> "make"]
    /\ ipc = [x \in IoThreads |-> "off"]
    /\ hook = [p \in Procs |-> "read"]
    /\ hio = [p \in Procs |-> NoContext]
    /\ wpc = [c \in Callers |-> "off"]
    /\ heard = [c \in Callers |-> FALSE]
    /\ mishap = FALSE

\* The derived part of the object exists; afterwards its members are gone and
\* what a hook still does is undefined and not followed.
Exists == object = "alive"

-----------------------------------------------------------------------------
(* startThread, and the other operations of a caller.                      *)

\* Mutant: what the last session announced is kept.
resetNothing == UNCHANGED m_start

resetStartState == m_start' = "pending"

\* startThread, with or without a timeout, before it calls the base class.
StartThread(c, timed) ==
    /\ Exists /\ ~InCall(c) /\ wpc[c] = "off"
    /\ \A d \in Callers : op[d] # "destroy"
    /\ resetStartState
    /\ wpc' = [wpc EXCEPT ![c] = IF timed THEN "base" ELSE "base0"]
    /\ UNCHANGED <<vars, m_io, m_ioThreadCount, stage, hook, hio, mishap, heard, ioVars, handlerVars>>

CallBase(c) ==
    /\ wpc[c] \in {"base", "base0"}
    /\ Begin(c, "startThread0")
    /\ wpc' = [wpc EXCEPT ![c] = IF @ = "base" THEN "called" ELSE "called0"]
    /\ UNCHANGED <<m_io, m_ioThreadCount, stage, hook, hio, mishap, m_start, heard, ioVars,
                   handlerVars>>

\* startThread returns: false if the base class refused, true without a timeout,
\* and otherwise whether the start has succeeded.
StartReturns(c) ==
    /\ wpc' = [wpc EXCEPT ![c] = "off"]
    /\ heard' = [heard EXCEPT ![c] = FALSE]

StartSleeps(c, loc) == wpc' = [wpc EXCEPT ![c] = loc] /\ UNCHANGED heard

\* The base class has returned.
BaseReturned(c) ==
    /\ wpc[c] \in {"called", "called0"} /\ ~InCall(c)
    /\ IF res[c] /\ wpc[c] = "called" THEN StartSleeps(c, "wait") ELSE StartReturns(c)
    /\ UNCHANGED <<vars, m_io, m_ioThreadCount, stage, hook, hio, mishap, m_start, ioVars, handlerVars>>

\* waitUntilListening: evaluate the predicate, return or sleep ...
WaitUntilListening(c) ==
    /\ wpc[c] = "wait"
    /\ IF m_start = "pending" THEN StartSleeps(c, "sleep") ELSE StartReturns(c)
    /\ UNCHANGED <<vars, m_io, m_ioThreadCount, stage, hook, hio, mishap, m_start, ioVars, handlerVars>>

\* ... and the timeout.
WaitTimesOut(c) ==
    /\ wpc[c] = "sleep"
    /\ StartReturns(c)
    /\ UNCHANGED <<vars, m_io, m_ioThreadCount, stage, hook, hio, mishap, m_start, ioVars, handlerVars>>

\* Any other operation is the base class's.
OtherOperation(c, o) ==
    /\ wpc[c] = "off"
    /\ o = "destroy" => \A d \in Callers : wpc[d] = "off"
    /\ Begin(c, o)
    /\ UNCHANGED httpVars

\* setIOThreadCount: a running server refuses, but the check and the write are
\* apart, so that the write may come at any time.
setIOThreadCount(n) ==
    /\ Exists
    /\ m_ioThreadCount' = IF n = 0 THEN 1 ELSE n
    /\ UNCHANGED <<vars, m_io, stage, hook, hio, mishap, startVars, ioVars, handlerVars>>

StartStep(c) == CallBase(c) \/ BaseReturned(c) \/ WaitUntilListening(c) \/ WaitTimesOut(c)

\* resolveStartIfPending: the first outcome counts, and the waiters wake up.
resolveStartIfPending(success) ==
    IF m_start = "pending"
    THEN /\ m_start' = IF success THEN "succeeded" ELSE "failed"
         /\ wpc' = [c \in Callers |-> IF wpc[c] = "sleep" THEN "wait" ELSE wpc[c]]
         /\ heard' = [c \in Callers |-> heard[c] \/ (success /\ wpc[c] # "off")]
    ELSE UNCHANGED startVars

-----------------------------------------------------------------------------
(* preRun and run, on the worker thread.                                   *)

\* io->stop(): what is still in the queue will never be executed.
Halt(io) ==
    /\ halted' = [halted EXCEPT ![io] = TRUE]
    /\ posted' = [posted EXCEPT ![io] = <<>>]

StageGoto(t, loc) == stage' = [stage EXCEPT ![t] = loc]

InPreRun(t, loc) == ThreadAt(t, "preRun") /\ stage[t] = loc /\ Exists

InRunAt(t, loc) == ThreadAt(t, "run") /\ stage[t] = loc /\ Exists

\* The context, and the wrapper around the user's handler.
PreRunMakes(t) ==
    /\ InPreRun(t, "make")
    /\ m_io' = t
    /\ m_userOnError' = on_error
    /\ on_error' = "wrapper"
    /\ StageGoto(t, "start")
    /\ PreRunReturns(t, TRUE)
    /\ UNCHANGED <<m_ioThreadCount, hook, hio, mishap, startVars, ioVars>>

PreRunFails(t) ==
    /\ InPreRun(t, "make")
    /\ resolveStartIfPending(FALSE)
    /\ StageGoto(t, "end")
    /\ PreRunReturns(t, FALSE)
    /\ UNCHANGED <<m_io, m_ioThreadCount, hook, hio, mishap, ioVars, handlerVars>>

\* A stop that came during preRun: run is never called.
Abandoned(t) ==
    /\ CheckStopRequested(t)
    /\ mishap' = (mishap \/ m_stopRequested)
    /\ IF m_stopRequested THEN Halt(t) ELSE UNCHANGED <<halted, posted>>
    /\ UNCHANGED <<m_io, m_ioThreadCount, stage, hook, hio, startVars, acceptor, ipc, handlerVars>>

\* m_server.start: the port is bound and accepts, if it is free ...
ServerStarts(t) ==
    /\ InRunAt(t, "start")
    /\ acceptor = NoContext
    /\ acceptor' = t
    /\ StageGoto(t, "announce")
    /\ UNCHANGED <<vars, m_io, m_ioThreadCount, hook, hio, mishap, startVars, posted, halted, ipc,
                   handlerVars>>

\* ... or an exception is thrown.
ServerStartFails(t) ==
    /\ InRunAt(t, "start")
    /\ StageGoto(t, "failed")
    /\ UNCHANGED <<vars, m_io, m_ioThreadCount, hook, hio, mishap, startVars, ioVars, handlerVars>>

Announce(t) ==
    /\ InRunAt(t, "announce")
    /\ resolveStartIfPending(TRUE)
    /\ StageGoto(t, "process")
    /\ UNCHANGED <<vars, m_io, m_ioThreadCount, hook, hio, mishap, ioVars, handlerVars>>

\* processWork: the additional thread, and runIo on this one.
processWork(t) ==
    /\ InRunAt(t, "process")
    /\ ipc' = [x \in IoThreads |->
                 IF x = t \/ (x \in Helpers /\ m_ioThreadCount = 2) THEN "run" ELSE ipc[x]]
    /\ StageGoto(t, "io")
    /\ UNCHANGED <<vars, m_io, m_ioThreadCount, hook, hio, mishap, startVars, acceptor, posted,
                   halted, handlerVars>>

\* The thread cannot be created, and the exception leaves processWork.
SpawnIoFails(t) ==
    /\ InRunAt(t, "process")
    /\ m_ioThreadCount = 2
    /\ StageGoto(t, "failed")
    /\ UNCHANGED <<vars, m_io, m_ioThreadCount, hook, hio, mishap, startVars, ioVars, handlerVars>>

RunIoReturned(t) ==
    /\ InRunAt(t, "io")
    /\ ipc[t] = "done"
    /\ StageGoto(t, "join")
    /\ UNCHANGED <<vars, m_io, m_ioThreadCount, hook, hio, mishap, startVars, ioVars, handlerVars>>

\* Mutant: the additional thread is not joined.
JoinNothing(t) ==
    /\ InRunAt(t, "join")
    /\ StageGoto(t, "conclude")
    /\ UNCHANGED <<vars, m_io, m_ioThreadCount, hook, hio, mishap, startVars, ioVars, handlerVars>>

JoinIoThreads(t) ==
    /\ InRunAt(t, "join")
    /\ \A h \in Helpers : ipc[h] \in {"off", "done"}
    /\ ipc' = [x \in IoThreads |-> "off"]
    /\ StageGoto(t, "conclude")
    /\ UNCHANGED <<vars, m_io, m_ioThreadCount, hook, hio, mishap, startVars, acceptor, posted,
                   halted, handlerVars>>

Conclude(t) ==
    /\ InRunAt(t, "conclude")
    /\ resolveStartIfPending(FALSE)
    /\ StageGoto(t, "restore")
    /\ UNCHANGED <<vars, m_io, m_ioThreadCount, hook, hio, mishap, ioVars, handlerVars>>

\* Mutant: the saved handler is cleared before it is put back.
RestoreCleared(t) ==
    /\ InRunAt(t, "restore")
    /\ on_error' = "empty"
    /\ m_userOnError' = "empty"
    /\ m_io' = NoContext
    /\ StageGoto(t, "end")
    /\ RunReturns(t)
    /\ UNCHANGED <<m_ioThreadCount, hook, hio, mishap, startVars, ioVars>>

Restore(t) ==
    /\ InRunAt(t, "restore")
    /\ on_error' = m_userOnError
    /\ m_userOnError' = "empty"
    /\ m_io' = NoContext
    /\ StageGoto(t, "end")
    /\ RunReturns(t)
    /\ UNCHANGED <<m_ioThreadCount, hook, hio, mishap, startVars, ioVars>>

\* The handlers of run(): nothing is put back.
RunThrows(t) ==
    /\ InRunAt(t, "failed")
    /\ resolveStartIfPending(FALSE)
    /\ mishap' = TRUE
    /\ StageGoto(t, "end")
    /\ HookThrows(t)
    /\ Halt(t)
    /\ UNCHANGED <<m_io, m_ioThreadCount, hook, hio, acceptor, ipc, handlerVars>>

WorkerStep(t) ==
    \/ PreRunMakes(t) \/ PreRunFails(t)
    \/ ServerStarts(t) \/ ServerStartFails(t) \/ Announce(t)
    \/ processWork(t) \/ SpawnIoFails(t) \/ RunIoReturned(t) \/ JoinIoThreads(t)
    \/ Conclude(t) \/ Restore(t) \/ RunThrows(t)

-----------------------------------------------------------------------------
(* runIo, on the worker thread and on the additional one: io_context::run. *)

\* The context that the thread runs.
ContextOf(x) == IF x \in Threads THEN x ELSE m_io

\* The thread is in runIo and not in a nested requestStop.
IoAt(x, loc) == ipc[x] = loc /\ rs[x] = "off" /\ Exists

IoMoves(x, loc) ==
    /\ ipc' = [ipc EXCEPT ![x] = loc]
    /\ UNCHANGED <<m_io, m_ioThreadCount, stage, hook, hio, mishap, startVars, handlerVars>>

\* A connection or a request: a handler begins ...
HandlerBegins(x) ==
    /\ IoAt(x, "run")
    /\ ~halted[ContextOf(x)]
    /\ acceptor = ContextOf(x)
    /\ IoMoves(x, "handler")
    /\ UNCHANGED <<vars, acceptor, posted, halted>>

\* ... and returns or throws.
HandlerReturns(x) ==
    /\ IoAt(x, "handler")
    /\ IoMoves(x, "run")
    /\ UNCHANGED <<vars, acceptor, posted, halted>>

HandlerThrows(x) ==
    /\ IoAt(x, "handler")
    /\ IoMoves(x, "catch")
    /\ UNCHANGED <<vars, acceptor, posted, halted>>

\* The next function in the queue begins.
IoTakes(x) ==
    LET io == ContextOf(x)
    IN /\ IoAt(x, "run")
       /\ ~halted[io] /\ posted[io] # <<>>
       /\ IF Head(posted[io]) = "stopServer"
          THEN /\ IoMoves(x, "stopServer")
               /\ posted' = [posted EXCEPT ![io] = Tail(@)]
               /\ UNCHANGED halted
          ELSE IoMoves(x, "run") /\ Halt(io)
       /\ UNCHANGED <<vars, acceptor>>

\* m_server.stop() on a thread of the context.
IoStopsServer(x) ==
    /\ IoAt(x, "stopServer")
    /\ acceptor' = NoContext
    /\ IoMoves(x, "run")
    /\ UNCHANGED <<vars, posted, halted>>

\* run() returns when the context is stopped, or stops it for want of work.
IoReturns(x) ==
    LET io == ContextOf(x)
    IN /\ IoAt(x, "run")
       /\ \/ halted[io]
          \/ /\ acceptor # io
             /\ posted[io] = <<>>
             /\ \A y \in IoThreads : ipc[y] \notin {"handler", "stopServer"}
       /\ Halt(io)
       /\ IoMoves(x, "done")
       /\ UNCHANGED <<vars, acceptor>>

\* An exception: the context is stopped and a stop is requested ...
IoCatches(x) ==
    /\ IoAt(x, "catch")
    /\ Halt(ContextOf(x))
    /\ IF x \in Threads THEN Retire(x) ELSE HelperRequestsStop(x)
    /\ ipc' = [ipc EXCEPT ![x] = "requested"]
    /\ mishap' = TRUE
    /\ UNCHANGED <<m_io, m_ioThreadCount, stage, hook, hio, startVars, handlerVars, acceptor>>

\* ... and runIo is over.
IoRequested(x) ==
    /\ IoAt(x, "requested")
    /\ IoMoves(x, "done")
    /\ UNCHANGED <<vars, acceptor, posted, halted>>

IoStep(x) ==
    \/ HandlerReturns(x) \/ IoTakes(x) \/ IoStopsServer(x) \/ IoReturns(x)
    \/ IoCatches(x) \/ IoRequested(x)

-----------------------------------------------------------------------------
(* stopTriggered                                                           *)

HookAt(p, loc) == rs[p] = "hook" /\ hook[p] = loc /\ Exists

HookMoves(p, loc) ==
    /\ hook' = [hook EXCEPT ![p] = loc]
    /\ UNCHANGED <<m_io, m_ioThreadCount, stage, mishap, halted, ipc, handlerVars>>

HookReads(p) ==
    /\ HookAt(p, "read")
    /\ hio' = [hio EXCEPT ![p] = m_io]
    /\ HookMoves(p, IF m_io = NoContext THEN "foreignStop" ELSE "postStop")
    /\ UNCHANGED <<vars, startVars, acceptor, posted>>

\* Without a context m_server.stop() is called here.
HookStopsServer(p) ==
    /\ HookAt(p, "foreignStop")
    /\ acceptor' = NoContext
    /\ HookMoves(p, "return")
    /\ UNCHANGED <<vars, hio, startVars, posted>>

\* asio::post: a halted context never executes what is posted to it.
Post(p, function) ==
    LET io == hio[p]
    IN /\ halted[io] \/ Len(posted[io]) < MaxPosted
       /\ posted' = IF halted[io] THEN posted ELSE [posted EXCEPT ![io] = Append(@, function)]

\* Mutant: the stop of the context is left to m_server.stop().
HookPostsNothing(p) ==
    /\ HookAt(p, "postStop")
    /\ HookMoves(p, "resolve")
    /\ UNCHANGED <<vars, hio, startVars, acceptor, posted>>

HookPostsStop(p) ==
    /\ HookAt(p, "postStop")
    /\ Post(p, "stopServer")
    /\ HookMoves(p, "postHalt")
    /\ UNCHANGED <<vars, hio, startVars, acceptor>>

HookPostsHalt(p) ==
    /\ HookAt(p, "postHalt")
    /\ Post(p, "stopContext")
    /\ HookMoves(p, "resolve")
    /\ UNCHANGED <<vars, hio, startVars, acceptor>>

HookResolves(p) ==
    /\ HookAt(p, "resolve")
    /\ resolveStartIfPending(FALSE)
    /\ HookMoves(p, "return")
    /\ UNCHANGED <<vars, hio, acceptor, posted>>

HookReturns(p) ==
    /\ HookAt(p, "return")
    /\ StopTriggeredReturns(p)
    /\ hio' = [hio EXCEPT ![p] = NoContext]
    /\ HookMoves(p, "read")
    /\ UNCHANGED <<startVars, acceptor, posted>>

\* In the base destructor the hook is the base class's own, which is empty.
BaseHookReturns(p) ==
    /\ ~Exists
    /\ StopTriggeredReturns(p)
    /\ UNCHANGED httpVars

HookStep(p) ==
    \/ HookReads(p) \/ HookStopsServer(p) \/ HookPostsStop(p) \/ HookPostsHalt(p)
    \/ HookResolves(p) \/ HookReturns(p) \/ BaseHookReturns(p)

-----------------------------------------------------------------------------
\* The steps of threadRunner that the server does not refine.
PlainRunnerStep(t) ==
    \/ SetRunning(t) \/ NotifyRunning(t) \/ RecordException(t) \/ SetStopped(t) \/ NotifyStopped(t)

BasePart ==
    /\ \/ \E c \in Callers : CallerStep(c)
       \/ \E p \in Procs : RequestStopStep(p)
       \/ \E t \in Threads : PlainRunnerStep(t)
    /\ UNCHANGED httpVars

HttpTerminated == ~Exists /\ UNCHANGED allVars

HttpNext ==
    \/ BasePart
    \/ \E c \in Callers : StartStep(c)
    \/ \E c \in Callers, timed \in Timed : StartThread(c, timed)
    \/ \E c \in Callers, o \in Operations \ StartOps : OtherOperation(c, o)
    \/ \E n \in {0} \cup Counts : setIOThreadCount(n)
    \/ \E t \in Threads : WorkerStep(t) \/ Abandoned(t)
    \/ \E x \in IoThreads : IoStep(x) \/ HandlerBegins(x) \/ HandlerThrows(x)
    \/ \E p \in Procs : HookStep(p)
    \/ HttpTerminated

HttpSpec == HttpInit /\ [][HttpNext]_allVars

\* Threads are scheduled fairly, timeouts expire, handlers return, and a context
\* gets to what is posted to it although it has other work.
HttpFairness ==
    /\ \A c \in Callers :
          /\ WF_allVars(CallerStep(c) /\ UNCHANGED httpVars)
          /\ SF_allVars(WaitForStoppedTimesOut(c) /\ UNCHANGED httpVars)
          /\ WF_allVars(StartStep(c))
    /\ \A p \in Procs : /\ WF_allVars(RequestStopStep(p) /\ UNCHANGED httpVars)
                        /\ SF_allVars(HookStep(p))
    /\ \A t \in Threads :
          /\ WF_allVars(PlainRunnerStep(t) /\ UNCHANGED httpVars)
          /\ WF_allVars(WorkerStep(t) \/ Abandoned(t))
    /\ \A x \in IoThreads : WF_allVars(IoStep(x)) /\ SF_allVars(IoTakes(x))

FairHttpSpec == HttpSpec /\ HttpFairness

-----------------------------------------------------------------------------
\* A caller that waits in startThread and finds the start resolved with success
\* returns true: the announcement was made since the call began.  Neither the
\* outcome of an earlier session nor one that a stop has resolved is taken for it
\* (resetStartState, resolveStartIfPending and waitUntilListening).
StartTrueMeansAnnounced ==
    \A c \in Callers : wpc[c] \in {"wait", "sleep"} /\ m_start = "succeeded" => heard[c]

\* A stopped server serves nobody: no thread runs the context any more, and,
\* unless a session ended badly, nothing accepts connections, however stops and
\* starts were interleaved.
StoppedServesNobody ==
    m_state = "Stopped" /\ Exists =>
        /\ \A x \in IoThreads : ipc[x] \in {"off", "done"}
        /\ ~mishap => acceptor = NoContext

\* The user's error handler is back when a session is over, and the wrapper never
\* saves itself, which would make it call itself for ever; but for sessions that
\* were abandoned or ended by an exception.
ErrorHandlerSurvives ==
    ~mishap => /\ m_userOnError # "wrapper"
               /\ m_state = "Stopped" => on_error = "user" /\ m_io = NoContext

\* The server is a cBaseWorker_V2: everything it does is what BaseWorker allows,
\* so all results about BaseWorker hold for it.
ImplementsBaseWorker == Spec

\* A server asked to stop stops, whatever handlers are executing, when the stop
\* races with the start and when a handler throws, unless it is destroyed first.
HttpStops == m_state = "Stopping" ~> m_state = "Stopped" \/ ~Exists
=============================================================================
