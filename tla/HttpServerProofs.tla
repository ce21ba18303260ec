------------------------- MODULE HttpServerProofs -------------------------
(***************************************************************************)
(* HttpServer implements BaseWorker, for any callers, worker threads and   *)
(* posted functions: the theorems of BaseWorkerProofs hold for the server, *)
(* although it overrides startThread and its io threads request stops.     *)
(* A start that returns true has heard the announcement (HeardSinceCall),  *)
(* and a session leaves the error handler in place and nothing that        *)
(* serves (SessionInv).                                                    *)
(***************************************************************************)
EXTENDS HttpServer, BaseWorkerProofs

\* The overridden startThread: the base class sees the call of its own, without
\* a timeout, and nothing of the waiting.
LEMMA StartAllowed ==
    ASSUME NEW c \in Callers, StartStep(c) \/ \E timed \in Timed : StartThread(c, timed)
    PROVE  Next \/ UNCHANGED vars
<1>1. CASE CallBase(c)
    <2>1. \E o \in Operations : Begin(c, o)
        BY <1>1, HttpAssumption, Zenon DEF CallBase
    <2>2. QED BY <2>1, Zenon DEF Next, Plumbing
<1>2. CASE BaseReturned(c) \/ WaitUntilListening(c) \/ WaitTimesOut(c)
    BY <1>2, Zenon DEF BaseReturned, WaitUntilListening, WaitTimesOut
<1>3. CASE \E timed \in Timed : StartThread(c, timed)
    BY <1>3, Zenon DEF StartThread
<1>4. QED BY <1>1, <1>2, <1>3, Zenon DEF StartStep

\* The other operations are the base class's own.
LEMMA OtherOperationAllowed ==
    ASSUME NEW c \in Callers, NEW o \in Operations, OtherOperation(c, o)
    PROVE  Next
BY Zenon DEF OtherOperation, Next, Plumbing

\* preRun and run, and the check of the stop flag between them.
LEMMA WorkerAllowed ==
    ASSUME NEW t \in Threads, WorkerStep(t) \/ Abandoned(t)
    PROVE  Next \/ UNCHANGED vars
<1>1. CASE PreRunMakes(t) \/ PreRunFails(t)
    <2>1. \E ok \in BOOLEAN : PreRunReturns(t, ok)
        BY <1>1, Zenon DEF PreRunMakes, PreRunFails
    <2>2. QED BY <2>1, Zenon DEF Next, Hooks
<1>2. CASE ServerStarts(t) \/ ServerStartFails(t) \/ Announce(t) \/ processWork(t)
           \/ SpawnIoFails(t)
    BY <1>2, Zenon DEF ServerStarts, ServerStartFails, Announce, processWork, SpawnIoFails
<1>3. CASE RunIoReturned(t) \/ JoinIoThreads(t) \/ Conclude(t)
    BY <1>3, Zenon DEF RunIoReturned, JoinIoThreads, Conclude
<1>4. CASE Restore(t) \/ RunThrows(t)
    <2>1. RunReturns(t) \/ HookThrows(t)
        BY <1>4, Zenon DEF Restore, RunThrows
    <2>2. QED BY <2>1, Zenon DEF Next, Hooks
<1>5. CASE Abandoned(t)
    <2>1. RunnerStep(t)
        BY <1>5, Zenon DEF Abandoned, RunnerStep
    <2>2. QED BY <2>1, Zenon DEF Next, Plumbing
<1>6. QED BY <1>1, <1>2, <1>3, <1>4, <1>5, Zenon DEF WorkerStep

\* runIo: the base class sees the stops that follow an exception.
LEMMA IoAllowed ==
    ASSUME NEW x \in IoThreads, IoStep(x) \/ HandlerBegins(x) \/ HandlerThrows(x)
    PROVE  Next \/ UNCHANGED vars
<1>1. CASE HandlerBegins(x) \/ HandlerThrows(x) \/ HandlerReturns(x)
    BY <1>1, Zenon DEF HandlerBegins, HandlerThrows, HandlerReturns
<1>2. CASE IoTakes(x) \/ IoStopsServer(x) \/ IoReturns(x) \/ IoRequested(x)
    BY <1>2, Zenon DEF IoTakes, IoStopsServer, IoReturns, IoRequested
<1>3. CASE IoCatches(x)
    <2>1. CASE x \in Threads
        <3>1. Retire(x)
            BY <1>3, <2>1, Zenon DEF IoCatches
        <3>2. QED BY <2>1, <3>1, Zenon DEF Next, Hooks
    <2>2. CASE x \notin Threads
        <3>1. x \in Helpers /\ HelperRequestsStop(x)
            BY <1>3, <2>2, Zenon DEF IoCatches, IoThreads
        <3>2. QED BY <3>1, Zenon DEF Next, Hooks
    <2>3. QED BY <2>1, <2>2
<1>4. QED BY <1>1, <1>2, <1>3, Zenon DEF IoStep

\* The steps of stopTriggered.
LEMMA HookAllowed ==
    ASSUME NEW p \in Procs, HookStep(p)
    PROVE  Next \/ UNCHANGED vars
<1>1. CASE HookReads(p) \/ HookStopsServer(p) \/ HookPostsStop(p) \/ HookPostsHalt(p)
           \/ HookResolves(p)
    BY <1>1, Zenon DEF HookReads, HookStopsServer, HookPostsStop, HookPostsHalt, HookResolves
<1>2. CASE HookReturns(p) \/ BaseHookReturns(p)
    <2>1. StopTriggeredReturns(p)
        BY <1>2, Zenon DEF HookReturns, BaseHookReturns
    <2>2. QED BY <2>1, Zenon DEF Next, Hooks
<1>3. QED BY <1>1, <1>2, Zenon DEF HookStep

\* What the server does not refine is the base class's own.
LEMMA BasePartAllowed ==
    ASSUME BasePart
    PROVE  Next
<1>1. CASE \E t \in Threads : PlainRunnerStep(t)
    <2>1. \E t \in Threads : RunnerStep(t)
        BY <1>1, Zenon DEF PlainRunnerStep, RunnerStep
    <2>2. QED BY <2>1, Zenon DEF Next, Plumbing
<1>2. CASE (\E c \in Callers : CallerStep(c)) \/ (\E p \in Procs : RequestStopStep(p))
    BY <1>2, Zenon DEF Next, Plumbing
<1>3. QED BY <1>1, <1>2, Zenon DEF BasePart

\* cHTTPServer_V2 is a cBaseWorker_V2: every step of its startThread, of run and
\* the io threads and of the hook is one that BaseWorker allows, or none of its
\* business.
THEOREM HttpIsBaseWorker == HttpSpec => ImplementsBaseWorker
<1>1. HttpInit => Init
    BY DEF HttpInit
<1>2. [HttpNext]_allVars => [Next]_vars
    <2>1. SUFFICES ASSUME [HttpNext]_allVars
                   PROVE  Next \/ UNCHANGED vars
        OBVIOUS
    <2>2. CASE BasePart
        BY <2>2, BasePartAllowed
    <2>3. CASE (\E c \in Callers : StartStep(c))
               \/ (\E c \in Callers, timed \in Timed : StartThread(c, timed))
        BY <2>3, StartAllowed, Zenon
    <2>4. CASE \E c \in Callers, o \in Operations \ StartOps : OtherOperation(c, o)
        BY <2>4, OtherOperationAllowed, Zenon
    <2>5. CASE \E n \in {0} \cup Counts : setIOThreadCount(n)
        BY <2>5, Zenon DEF setIOThreadCount
    <2>6. CASE \E t \in Threads : WorkerStep(t) \/ Abandoned(t)
        BY <2>6, WorkerAllowed, Zenon
    <2>7. CASE \E x \in IoThreads : IoStep(x) \/ HandlerBegins(x) \/ HandlerThrows(x)
        BY <2>7, IoAllowed, Zenon
    <2>8. CASE \E p \in Procs : HookStep(p)
        BY <2>8, HookAllowed, Zenon
    <2>9. CASE HttpTerminated \/ UNCHANGED allVars
        BY <2>9 DEF HttpTerminated, allVars
    <2>10. QED
        BY <2>1, <2>2, <2>3, <2>4, <2>5, <2>6, <2>7, <2>8, <2>9, Zenon DEF HttpNext
<1>3. QED
    BY <1>1, <1>2, PTL DEF HttpSpec, ImplementsBaseWorker, Spec

-----------------------------------------------------------------------------
\* The queues of posted functions.
Queues == Seq({"stopServer", "stopContext"})

\* What posting a function to a context and taking one leave in its queue.
LEMMA QueueFacts ==
    /\ <<>> \in Queues
    /\ \A q \in Queues : q # <<>> => Head(q) \in {"stopServer", "stopContext"} /\ Tail(q) \in Queues
    /\ \A q \in Queues, f \in {"stopServer", "stopContext"} :
          /\ Append(q, f) \in Queues /\ Append(q, f) # <<>>
          /\ q # <<>> => Head(Append(q, f)) = Head(q)
          /\ q = <<>> => Head(Append(q, f)) = f
<1>1. <<>> \in Queues
  BY DEF Queues
<1>2. \A q \in Queues : q # <<>> => Head(q) \in {"stopServer", "stopContext"} /\ Tail(q) \in Queues
  BY DEF Queues
<1>3. \A q \in Queues, f \in {"stopServer", "stopContext"} :
          /\ Append(q, f) \in Queues /\ Append(q, f) # <<>>
          /\ q # <<>> => Head(Append(q, f)) = Head(q)
          /\ q = <<>> => Head(Append(q, f)) = f
  BY DEF Queues
<1> QED
  BY <1>1, <1>2, <1>3

StartTypes ==
    /\ m_start \in {"pending", "succeeded", "failed"}
    /\ wpc \in [Callers -> {"off", "base", "base0", "called", "called0", "wait", "sleep"}]
    /\ heard \in [Callers -> BOOLEAN]

SessionTypes ==
    /\ m_io \in Contexts \cup {NoContext}
    /\ m_ioThreadCount \in Counts
    /\ on_error \in {"user", "wrapper", "empty"}
    /\ m_userOnError \in {"user", "wrapper", "empty"}
    /\ stage \in [Threads -> {"make", "start", "announce", "process", "io", "join", "conclude",
                              "restore", "failed", "end"}]
    /\ mishap \in BOOLEAN

IoTypes ==
    /\ acceptor \in Contexts \cup {NoContext}
    /\ posted \in [Contexts -> Queues]
    /\ halted \in [Contexts -> BOOLEAN]
    /\ ipc \in [IoThreads -> {"off", "run", "handler", "stopServer", "catch", "requested", "done"}]

HookTypes ==
    /\ hook \in [Procs -> {"read", "foreignStop", "postStop", "postHalt", "resolve", "return"}]
    /\ hio \in [Procs -> Contexts \cup {NoContext}]

\* The type invariant by the parts that the actions touch.
LEMMA HttpTypesSplit == HttpTypeOK <=> StartTypes /\ SessionTypes /\ IoTypes /\ HookTypes
BY Zenon DEF HttpTypeOK, StartTypes, SessionTypes, IoTypes, HookTypes, Queues

\* Only resolveStartIfPending and the callers of startThread touch the start state.
LEMMA StartStateStep ==
    ASSUME HttpNext
    PROVE  \/ UNCHANGED startVars
           \/ \E success \in BOOLEAN : resolveStartIfPending(success)
           \/ \E c \in Callers : StartStep(c) \/ \E timed \in Timed : StartThread(c, timed)
<1>1. CASE \/ BasePart \/ HttpTerminated
           \/ \E c \in Callers, o \in Operations : OtherOperation(c, o)
           \/ \E n \in {0} \cup Counts : setIOThreadCount(n)
  BY <1>1 DEF BasePart, HttpTerminated, allVars, httpVars, OtherOperation, setIOThreadCount
<1>2. ASSUME NEW t \in Threads, WorkerStep(t) \/ Abandoned(t)
      PROVE  UNCHANGED startVars \/ \E success \in BOOLEAN : resolveStartIfPending(success)
  BY <1>2 DEF WorkerStep, PreRunMakes, PreRunFails, ServerStarts, ServerStartFails, Announce,
              processWork, SpawnIoFails, RunIoReturned, JoinIoThreads, Conclude, Restore,
              RunThrows, Abandoned
<1>3. ASSUME NEW x \in IoThreads, IoStep(x) \/ HandlerBegins(x) \/ HandlerThrows(x)
      PROVE  UNCHANGED startVars
  BY <1>3 DEF IoStep, HandlerBegins, HandlerThrows, HandlerReturns, IoTakes, IoStopsServer,
              IoReturns, IoCatches, IoRequested, IoMoves
<1>4. ASSUME NEW p \in Procs, HookStep(p)
      PROVE  UNCHANGED startVars \/ \E success \in BOOLEAN : resolveStartIfPending(success)
  BY <1>4 DEF HookStep, HookReads, HookStopsServer, HookPostsStop, HookPostsHalt, HookResolves,
              HookReturns, BaseHookReturns, httpVars
<1> QED
  BY <1>1, <1>2, <1>3, <1>4 DEF HttpNext

\* The start state keeps its types.
LEMMA StartTypesKept ==
    ASSUME StartTypes, HttpNext
    PROVE  StartTypes'
<1> USE DEF StartTypes
<1>1. CASE UNCHANGED startVars
  BY <1>1 DEF startVars
<1>2. ASSUME NEW success \in BOOLEAN, resolveStartIfPending(success)
      PROVE  StartTypes'
  <2>1. heard' \in [Callers -> BOOLEAN]
    <3>1. CASE m_start = "pending"
      BY <1>2, <3>1, Zenon DEF resolveStartIfPending
    <3> QED
      BY <1>2, <3>1 DEF resolveStartIfPending, startVars
  <2> QED
    BY <1>2, <2>1 DEF resolveStartIfPending, startVars
<1>3. ASSUME NEW c \in Callers, CallBase(c) \/ BaseReturned(c) \/ WaitUntilListening(c) \/ WaitTimesOut(c)
      PROVE  StartTypes'
  BY <1>3 DEF CallBase, BaseReturned, WaitUntilListening, WaitTimesOut, StartReturns, StartSleeps
<1>4. ASSUME NEW c \in Callers, NEW timed \in Timed, StartThread(c, timed)
      PROVE  StartTypes'
  BY <1>4 DEF StartThread, resetStartState
<1> QED
  BY <1>1, <1>2, <1>3, <1>4, StartStateStep DEF StartStep

\* Halting a context posts to it or stops it.
LEMMA HaltTypes ==
    ASSUME IoTypes, NEW io, Halt(io)
    PROVE  posted' \in [Contexts -> Queues] /\ halted' \in [Contexts -> BOOLEAN]
BY QueueFacts DEF IoTypes, Halt

\* The session, the contexts and the hooks keep their types.
LEMMA InnerTypesKept ==
    ASSUME SessionTypes, IoTypes, HookTypes, HttpNext
    PROVE  SessionTypes' /\ IoTypes' /\ HookTypes'
<1> USE QueueFacts, HttpAssumption DEF SessionTypes, IoTypes, HookTypes, Contexts, IoThreads,
        startVars, ioVars, handlerVars
<1>1. CASE \/ BasePart \/ HttpTerminated
           \/ \E c \in Callers, o \in Operations : OtherOperation(c, o)
  BY <1>1 DEF BasePart, HttpTerminated, OtherOperation, allVars, httpVars
<1>2. ASSUME NEW c \in Callers,
             StartStep(c) \/ \E timed \in Timed : StartThread(c, timed)
      PROVE  SessionTypes' /\ IoTypes' /\ HookTypes'
  BY <1>2 DEF StartStep, CallBase, BaseReturned, WaitUntilListening, WaitTimesOut, StartThread
<1>3. ASSUME NEW n \in {0} \cup Counts, setIOThreadCount(n)
      PROVE  SessionTypes' /\ IoTypes' /\ HookTypes'
  BY <1>3 DEF setIOThreadCount, Counts
<1>4. ASSUME NEW t \in Threads, WorkerStep(t) \/ Abandoned(t)
      PROVE  SessionTypes' /\ IoTypes' /\ HookTypes'
  <2> USE DEF StageGoto
  <2>1. CASE \/ PreRunMakes(t) \/ PreRunFails(t) \/ ServerStarts(t) \/ ServerStartFails(t)
             \/ Announce(t) \/ SpawnIoFails(t) \/ RunIoReturned(t) \/ Conclude(t) \/ Restore(t)
    BY <2>1 DEF PreRunMakes, PreRunFails, ServerStarts, ServerStartFails, Announce, SpawnIoFails,
                RunIoReturned, Conclude, Restore
  <2>2. CASE processWork(t) \/ JoinIoThreads(t)
    BY <2>2 DEF processWork, JoinIoThreads
  <2>3. CASE Abandoned(t)
    <3>1. posted' \in [Contexts -> Queues] /\ halted' \in [Contexts -> BOOLEAN]
      BY <2>3, HaltTypes DEF Abandoned
    <3> QED
      BY <2>3, <3>1 DEF Abandoned
  <2>4. CASE RunThrows(t)
    <3>1. posted' \in [Contexts -> Queues] /\ halted' \in [Contexts -> BOOLEAN]
      BY <2>4, HaltTypes DEF RunThrows
    <3> QED
      BY <2>4, <3>1 DEF RunThrows
  <2> QED
    BY <1>4, <2>1, <2>2, <2>3, <2>4 DEF WorkerStep
<1>5. ASSUME NEW x \in IoThreads, IoStep(x) \/ HandlerBegins(x) \/ HandlerThrows(x)
      PROVE  SessionTypes' /\ IoTypes' /\ HookTypes'
  <2> USE DEF IoMoves
  <2>1. CASE HandlerBegins(x) \/ HandlerThrows(x) \/ HandlerReturns(x) \/ IoStopsServer(x)
             \/ IoRequested(x)
    BY <2>1 DEF HandlerBegins, HandlerThrows, HandlerReturns, IoStopsServer, IoRequested
  <2>2. CASE IoTakes(x)
    <3>1. posted' \in [Contexts -> Queues] /\ halted' \in [Contexts -> BOOLEAN]
      <4>1. CASE Halt(ContextOf(x))
        BY <4>1, HaltTypes
      <4>2. CASE /\ posted' = [posted EXCEPT ![ContextOf(x)] = Tail(@)] /\ UNCHANGED halted
                 /\ posted[ContextOf(x)] # <<>>
        BY <4>2
      <4> QED
        BY <2>2, <4>1, <4>2 DEF IoTakes
    <3>2. UNCHANGED <<m_io, m_ioThreadCount, on_error, m_userOnError, stage, mishap, acceptor, hook, hio>>
      BY <2>2 DEF IoTakes
    <3>3. ipc' = [ipc EXCEPT ![x] = "stopServer"] \/ ipc' = [ipc EXCEPT ![x] = "run"]
      BY <2>2 DEF IoTakes
    <3> QED
      BY <3>1, <3>2, <3>3
  <2>3. CASE IoReturns(x) \/ IoCatches(x)
    <3>1. posted' \in [Contexts -> Queues] /\ halted' \in [Contexts -> BOOLEAN]
      BY <2>3, HaltTypes DEF IoReturns, IoCatches
    <3>2. UNCHANGED <<m_io, m_ioThreadCount, on_error, m_userOnError, stage, acceptor, hook, hio>>
      BY <2>3 DEF IoReturns, IoCatches
    <3>3. /\ ipc' = [ipc EXCEPT ![x] = "done"] \/ ipc' = [ipc EXCEPT ![x] = "requested"]
          /\ mishap' \in BOOLEAN
      BY <2>3 DEF IoReturns, IoCatches
    <3> QED
      BY <3>1, <3>2, <3>3
  <2> QED
    BY <1>5, <2>1, <2>2, <2>3 DEF IoStep
<1>6. ASSUME NEW p \in Procs, HookStep(p)
      PROVE  SessionTypes' /\ IoTypes' /\ HookTypes'
  <2> USE DEF HookMoves
  <2>1. CASE HookStopsServer(p) \/ HookResolves(p) \/ HookReturns(p) \/ BaseHookReturns(p)
    BY <2>1 DEF HookStopsServer, HookResolves, HookReturns, BaseHookReturns, httpVars
  <2>3. CASE HookReads(p)
    BY <2>3 DEF HookReads
  <2>2. CASE HookPostsStop(p) \/ HookPostsHalt(p)
    <3>1. PICK function \in {"stopServer", "stopContext"} : Post(p, function)
      BY <2>2 DEF HookPostsStop, HookPostsHalt
    <3>2. posted' \in [Contexts -> Queues]
      <4> DEFINE q == posted[hio[p]]
      <4>1. hio[p] \in Contexts => q \in Queues /\ Append(q, function) \in Queues
        OBVIOUS
      <4> HIDE DEF q
      <4>2. posted' = posted \/ posted' = [posted EXCEPT ![hio[p]] = Append(q, function)]
        BY <3>1 DEF Post, q
      <4> QED
        BY <4>1, <4>2
    <3>3. /\ UNCHANGED <<m_io, m_ioThreadCount, on_error, m_userOnError, stage, mishap, acceptor,
                         halted, ipc, hio>>
          /\ hook' = [hook EXCEPT ![p] = "postHalt"] \/ hook' = [hook EXCEPT ![p] = "resolve"]
      BY <2>2 DEF HookPostsStop, HookPostsHalt
    <3> QED
      BY <3>2, <3>3
  <2> QED
    BY <1>6, <2>1, <2>2, <2>3 DEF HookStep
<1> QED
  BY <1>1, <1>2, <1>3, <1>4, <1>5, <1>6 DEF HttpNext

\* The contexts, queues, places and outcomes of the server keep their types, for
\* any number of callers, sessions and posted functions.
THEOREM HttpTypeCorrect == HttpSpec => []HttpTypeOK
<1> DEFINE Types == StartTypes /\ SessionTypes /\ IoTypes /\ HookTypes
<1>1. HttpInit => Types
  <2> SUFFICES ASSUME HttpInit PROVE Types
    OBVIOUS
  <2> USE HttpAssumption DEF HttpInit, Contexts
  <2>1. StartTypes
    BY DEF StartTypes
  <2>2. SessionTypes
    BY DEF SessionTypes
  <2>3. IoTypes
    BY QueueFacts DEF IoTypes
  <2>4. HookTypes
    BY DEF HookTypes
  <2> QED
    BY <2>1, <2>2, <2>3, <2>4
<1>2. Types /\ [HttpNext]_allVars => Types'
  <2>1. CASE UNCHANGED allVars
    BY <2>1 DEF allVars, httpVars, startVars, ioVars, handlerVars, StartTypes, SessionTypes, IoTypes,
                HookTypes
  <2> QED
    BY <2>1, StartTypesKept, InnerTypesKept
<1> QED
  BY <1>1, <1>2, HttpTypesSplit, PTL DEF HttpSpec

\* What makes the promise of startThread inductive: the outcome was pending when the
\* call began, so that whoever makes it a success tells this caller.
HeardSinceCall == \A c \in Callers : wpc[c] # "off" /\ m_start = "succeeded" => heard[c]

\* Whoever resolves a pending start tells every caller that waits for it.
LEMMA ResolvePreservesHeard ==
    ASSUME HttpTypeOK, HeardSinceCall, NEW success \in BOOLEAN, resolveStartIfPending(success)
    PROVE  HeardSinceCall'
<1>1. CASE m_start # "pending"
  BY <1>1 DEF resolveStartIfPending, startVars, HeardSinceCall
<1>2. CASE m_start = "pending"
  <2>1. m_start' = "succeeded" => success
    BY <1>2 DEF resolveStartIfPending
  <2>2. \A c \in Callers : wpc'[c] # "off" => wpc[c] # "off"
    BY <1>2 DEF resolveStartIfPending
  <2>3. \A c \in Callers : success /\ wpc[c] # "off" => heard'[c]
    BY <1>2, Zenon DEF resolveStartIfPending
  <2> QED
    BY <2>1, <2>2, <2>3 DEF HeardSinceCall
<1> QED
  BY <1>1, <1>2

\* A caller of startThread that finds the start resolved with success heard the
\* announcement since it called, whatever sessions and stops came before.
THEOREM StartIsHonest == HttpSpec => []StartTrueMeansAnnounced
<1>1. HttpInit => HeardSinceCall
  BY DEF HttpInit, HeardSinceCall
<1>2. HttpTypeOK /\ HeardSinceCall /\ [HttpNext]_allVars => HeardSinceCall'
  <2> SUFFICES ASSUME HttpTypeOK, HeardSinceCall, [HttpNext]_allVars
               PROVE  HeardSinceCall'
    OBVIOUS
  <2>1. CASE UNCHANGED startVars
    BY <2>1 DEF startVars, HeardSinceCall
  <2>2. ASSUME NEW success \in BOOLEAN, resolveStartIfPending(success)
        PROVE  HeardSinceCall'
    BY <2>2, ResolvePreservesHeard
  <2>3. ASSUME NEW c \in Callers,
               StartStep(c) \/ \E timed \in Timed : StartThread(c, timed)
        PROVE  HeardSinceCall'
    BY <2>3 DEF StartStep, CallBase, BaseReturned, WaitUntilListening, WaitTimesOut, StartThread,
                StartReturns, StartSleeps, resetStartState, HeardSinceCall, HttpTypeOK
  <2> QED
    BY <2>1, <2>2, <2>3, StartStateStep DEF allVars, httpVars
<1>3. HeardSinceCall => StartTrueMeansAnnounced
  BY DEF HeardSinceCall, StartTrueMeansAnnounced
<1> QED
  BY <1>1, <1>2, <1>3, HttpTypeCorrect, PTL DEF HttpSpec

-----------------------------------------------------------------------------
(* The session: what the worker thread, the handlers of the user and the     *)
(* context have to do with each other.                                       *)

InRunStages == {"start", "announce", "process", "io", "join", "conclude", "restore", "failed"}

\* The place in preRun or run fits the place in threadRunner.
StageFits ==
    \A t \in Threads :
        /\ tpc[t] \in {"unborn", "preRun"} => stage[t] = "make"
        /\ tpc[t] \in {"check", "setRunning", "notifyRunning"} => stage[t] = "start"
        /\ tpc[t] = "run" => stage[t] \in InRunStages
        /\ tpc[t] \in {"catch", "setStopped"} => stage[t] = "end" \/ mishap

\* Between sessions the handler of the user is in place and there is no context;
\* in a session the wrapper is, and the handler is saved.
BetweenSessions ==
    /\ on_error = "user" /\ m_userOnError = "empty" /\ m_io = NoContext
    /\ \A t \in Threads : Live(t) => stage[t] \in {"make", "end"}

InSession(t) ==
    /\ on_error = "wrapper" /\ m_userOnError = "user" /\ m_io = t
    /\ Live(t) /\ stage[t] \in InRunStages

HandlerKept == mishap \/ BetweenSessions \/ \E t \in Threads : InSession(t)

\* A thread in runIo is the worker thread that serves, or one that this will join.
Serving(t) == tpc[t] = "run" /\ stage[t] \in {"io", "join"}

IoBelongs ==
    /\ \A x \in IoThreads : ipc[x] # "off" =>
          \E t \in Threads : Serving(t) /\ (x \in Threads => x = t)
    /\ \A t \in Threads : Serving(t) /\ stage[t] = "join" => ipc[t] = "done"
    /\ \A x \in IoThreads : ipc[x] = "requested" => mishap

AcceptsInSession ==
    \A t \in Threads : acceptor = t =>
        \/ mishap
        \/ tpc[t] = "run" /\ stage[t] \in {"announce", "process", "io", "join", "failed"}

\* The server of the session of t is stopped, or a thread is about to stop it.
Taken(t) ==
    /\ stage[t] \notin {"make", "start"}
    /\ acceptor # t \/ \E x \in IoThreads : ipc[x] = "stopServer"

\* The context is not stopped before the server: in its queue the stop of the server
\* comes first.
StopComesFirst ==
    \A t \in Threads :
        \/ mishap
        \/ Taken(t)
        \/ /\ ~halted[t]
           /\ posted[t] # <<>> => Head(posted[t]) = "stopServer"
           /\ \A p \in Procs : hook[p] = "postHalt" /\ hio[p] = t => posted[t] # <<>>

DoneMeansHalted ==
    \A t \in Threads : Serving(t) /\ (\E x \in IoThreads : ipc[x] = "done") => mishap \/ halted[t]

Types == SessionTypes /\ IoTypes /\ HookTypes

ContextInv == IoBelongs /\ AcceptsInSession /\ StopComesFirst /\ DoneMeansHalted

SessionInv == StageFits /\ HandlerKept /\ ContextInv

\* A server that was never started is between sessions.
LEMMA InitEstablishesSession == HttpInit => SessionInv
<1> SUFFICES ASSUME HttpInit PROVE SessionInv
  OBVIOUS
<1> USE HttpAssumption DEF HttpInit, Init, Contexts
<1>1. StageFits
  BY DEF StageFits
<1>2. HandlerKept
  BY DEF HandlerKept, BetweenSessions
<1>3. IoBelongs /\ AcceptsInSession /\ StopComesFirst /\ DoneMeansHalted
  BY DEF IoBelongs, AcceptsInSession, StopComesFirst, DoneMeansHalted, Serving
<1> QED
  BY <1>1, <1>2, <1>3 DEF SessionInv, ContextInv

\* Steps of the base class.
LEMMA BaseKeepsSession ==
    ASSUME TypeOK, Types, SessionInv, BasePart
    PROVE  SessionInv'
<1> USE DEF SessionInv, ContextInv
<1>1. UNCHANGED <<m_io, on_error, m_userOnError, stage, mishap, acceptor, posted, halted, ipc, hook, hio>>
  BY DEF BasePart, httpVars, ioVars, handlerVars
<1>2. ASSUME NEW t \in Threads
      PROVE  \/ tpc'[t] = tpc[t]
             \/ tpc[t] = "unborn" /\ tpc'[t] = "preRun"
             \/ tpc[t] = "setRunning" /\ tpc'[t] = "notifyRunning"
             \/ tpc[t] = "notifyRunning" /\ tpc'[t] = "run"
             \/ tpc[t] = "catch" /\ tpc'[t] = "setStopped"
             \/ tpc[t] \in {"setStopped", "notifyStopped", "exited"}
                /\ tpc'[t] \in {"notifyStopped", "exited", "joined"}
  BY ThreadProgress DEF BasePart, PlainRunnerStep
<1>3. StageFits'
  BY <1>1, <1>2 DEF StageFits, InRunStages
<1>4. HandlerKept'
  <2>1. CASE BetweenSessions
    BY <1>1, <1>2, <2>1 DEF BetweenSessions, HandlerKept, Live, LiveLocations, StageFits
  <2>2. ASSUME NEW t \in Threads, InSession(t), ~mishap
        PROVE  InSession(t)'
    BY <1>1, <1>2, <2>2 DEF InSession, Live, LiveLocations, StageFits, InRunStages
  <2> QED
    BY <1>1, <2>1, <2>2 DEF HandlerKept
<1>5. \A t \in Threads : tpc[t] = "run" => tpc'[t] = "run"
  BY <1>2
<1>6. \A t \in Threads : Serving(t) => Serving(t)'
  BY <1>1, <1>5 DEF Serving
<1>7. \A t \in Threads : Serving(t)' => Serving(t)
  BY <1>1, <1>2 DEF Serving, StageFits
<1>8. IoBelongs' /\ AcceptsInSession'
  BY <1>1, <1>5, <1>6, <1>7 DEF IoBelongs, AcceptsInSession
<1>9. StopComesFirst' /\ DoneMeansHalted'
  BY <1>1, <1>7 DEF StopComesFirst, Taken, DoneMeansHalted
<1> QED
  BY <1>3, <1>4, <1>8, <1>9

sessionVars == <<tpc, m_io, on_error, m_userOnError, stage, mishap, acceptor, posted, halted, ipc,
                 hook, hio>>

\* Steps of startThread and of the other operations that end in the base class.
LEMMA OthersKeepSession ==
    ASSUME \/ \E c \in Callers : StartStep(c) \/ \E timed \in Timed : StartThread(c, timed)
           \/ \E c \in Callers, o \in Operations : OtherOperation(c, o)
           \/ \E n \in {0} \cup Counts : setIOThreadCount(n)
           \/ HttpTerminated \/ UNCHANGED allVars
    PROVE  UNCHANGED sessionVars
<1> USE DEF sessionVars, httpVars, ioVars, handlerVars, vars
<1>1. CASE \E c \in Callers : StartStep(c) \/ \E timed \in Timed : StartThread(c, timed)
  BY <1>1 DEF StartStep, CallBase, Begin, BaseReturned, WaitUntilListening, WaitTimesOut, StartThread
<1>2. CASE \E c \in Callers, o \in Operations : OtherOperation(c, o)
  BY <1>2 DEF OtherOperation, Begin
<1>3. CASE \/ \E n \in {0} \cup Counts : setIOThreadCount(n)
           \/ HttpTerminated \/ UNCHANGED allVars
  BY <1>3 DEF setIOThreadCount, HttpTerminated, allVars
<1> QED
  BY <1>1, <1>2, <1>3

\* A step that leaves these variables alone keeps the invariant.
LEMMA SessionFrame ==
    ASSUME SessionInv, UNCHANGED sessionVars
    PROVE  SessionInv'
BY DEF SessionInv, ContextInv, sessionVars, StageFits, HandlerKept, BetweenSessions, InSession,
       Live, IoBelongs, Serving, AcceptsInSession, StopComesFirst, Taken, DoneMeansHalted

\* Steps of preRun and run, and the check of the stop flag between them.  The thread
\* is the only live one.
LEMMA WorkerKeepsSession ==
    ASSUME TypeOK, OneAttempt, Types, SessionInv, NEW t \in Threads, WorkerStep(t) \/ Abandoned(t)
    PROVE  SessionInv'
<1> USE HttpAssumption DEF Types, SessionTypes, IoTypes, HookTypes, TypeOK, Contexts, SessionInv,
        ContextInv, StageGoto, ThreadAt, ThreadGoto, vars, ioVars, handlerVars, InRunStages
<1>0. tpc[t] \in {"preRun", "check", "run"} /\ \A u \in Threads : Live(u) => u = t
  <2>1. tpc[t] \in {"preRun", "check", "run"}
    BY DEF WorkerStep, PreRunMakes, PreRunFails, InPreRun, ServerStarts, ServerStartFails, Announce,
           processWork, SpawnIoFails, RunIoReturned, JoinIoThreads, Conclude, Restore, RunThrows,
           InRunAt, Abandoned, CheckStopRequested
  <2>2. Live(t)
    BY <2>1 DEF Live, LiveLocations
  <2> QED
    BY <2>1, <2>2 DEF OneAttempt, Busy
<1> USE <1>0 DEF Live, LiveLocations
<1>1. CASE PreRunMakes(t)
  <2>1. StageFits'
    BY <1>1 DEF PreRunMakes, InPreRun, PreRunReturns, StageFits
  <2>2. HandlerKept'
    BY <1>1 DEF PreRunMakes, InPreRun, PreRunReturns, StageFits, HandlerKept, BetweenSessions,
                InSession
  <2>3. IoBelongs'
    BY <1>1 DEF PreRunMakes, InPreRun, PreRunReturns, StageFits, IoBelongs, Serving
  <2>4. AcceptsInSession'
    BY <1>1 DEF PreRunMakes, InPreRun, PreRunReturns, StageFits, AcceptsInSession, StopComesFirst, Taken,
                DoneMeansHalted, Serving
  <2>5. StopComesFirst'
    BY <1>1 DEF PreRunMakes, InPreRun, PreRunReturns, StageFits, StopComesFirst, Taken, IoBelongs,
                Serving
  <2>6. DoneMeansHalted'
    BY <1>1 DEF PreRunMakes, InPreRun, PreRunReturns, StageFits, DoneMeansHalted, IoBelongs, Serving
  <2> QED
    BY <2>1, <2>2, <2>3, <2>4, <2>5, <2>6
<1>2. CASE PreRunFails(t)
  <2>1. StageFits'
    BY <1>2 DEF PreRunFails, InPreRun, PreRunReturns, StageFits
  <2>2. HandlerKept'
    BY <1>2 DEF PreRunFails, InPreRun, PreRunReturns, StageFits, HandlerKept, BetweenSessions,
                InSession
  <2>3. IoBelongs'
    BY <1>2 DEF PreRunFails, InPreRun, PreRunReturns, StageFits, IoBelongs, Serving
  <2>4. AcceptsInSession'
    BY <1>2 DEF PreRunFails, InPreRun, PreRunReturns, StageFits, AcceptsInSession, StopComesFirst, Taken,
                DoneMeansHalted, Serving
  <2>5. StopComesFirst'
    BY <1>2 DEF PreRunFails, InPreRun, PreRunReturns, StageFits, StopComesFirst, Taken, IoBelongs,
                Serving
  <2>6. DoneMeansHalted'
    BY <1>2 DEF PreRunFails, InPreRun, PreRunReturns, StageFits, DoneMeansHalted, IoBelongs, Serving
  <2> QED
    BY <2>1, <2>2, <2>3, <2>4, <2>5, <2>6
<1>3. CASE ServerStarts(t)
  <2>1. StageFits'
    BY <1>3 DEF ServerStarts, InRunAt, StageFits
  <2>2. HandlerKept'
    BY <1>3 DEF ServerStarts, InRunAt, StageFits, HandlerKept, BetweenSessions,
                InSession
  <2>3. IoBelongs'
    BY <1>3 DEF ServerStarts, InRunAt, StageFits, IoBelongs, Serving
  <2>4. AcceptsInSession'
    BY <1>3 DEF ServerStarts, InRunAt, StageFits, AcceptsInSession, StopComesFirst, Taken,
                DoneMeansHalted, Serving
  <2>5. StopComesFirst'
    BY <1>3 DEF ServerStarts, InRunAt, StageFits, StopComesFirst, Taken, IoBelongs,
                Serving
  <2>6. DoneMeansHalted'
    BY <1>3 DEF ServerStarts, InRunAt, StageFits, DoneMeansHalted, IoBelongs, Serving
  <2> QED
    BY <2>1, <2>2, <2>3, <2>4, <2>5, <2>6
<1>4. CASE ServerStartFails(t)
  <2>1. StageFits'
    BY <1>4 DEF ServerStartFails, InRunAt, StageFits
  <2>2. HandlerKept'
    BY <1>4 DEF ServerStartFails, InRunAt, StageFits, HandlerKept, BetweenSessions,
                InSession
  <2>3. IoBelongs'
    BY <1>4 DEF ServerStartFails, InRunAt, StageFits, IoBelongs, Serving
  <2>4. AcceptsInSession'
    BY <1>4 DEF ServerStartFails, InRunAt, StageFits, AcceptsInSession, StopComesFirst, Taken,
                DoneMeansHalted, Serving
  <2>5. StopComesFirst'
    BY <1>4 DEF ServerStartFails, InRunAt, StageFits, StopComesFirst, Taken, IoBelongs,
                Serving
  <2>6. DoneMeansHalted'
    BY <1>4 DEF ServerStartFails, InRunAt, StageFits, DoneMeansHalted, IoBelongs, Serving
  <2> QED
    BY <2>1, <2>2, <2>3, <2>4, <2>5, <2>6
<1>5. CASE Announce(t)
  <2>1. StageFits'
    BY <1>5 DEF Announce, InRunAt, StageFits
  <2>2. HandlerKept'
    BY <1>5 DEF Announce, InRunAt, StageFits, HandlerKept, BetweenSessions,
                InSession
  <2>3. IoBelongs'
    BY <1>5 DEF Announce, InRunAt, StageFits, IoBelongs, Serving
  <2>4. AcceptsInSession'
    BY <1>5 DEF Announce, InRunAt, StageFits, AcceptsInSession, StopComesFirst, Taken,
                DoneMeansHalted, Serving
  <2>5. StopComesFirst'
    BY <1>5 DEF Announce, InRunAt, StageFits, StopComesFirst, Taken, IoBelongs,
                Serving
  <2>6. DoneMeansHalted'
    BY <1>5 DEF Announce, InRunAt, StageFits, DoneMeansHalted, IoBelongs, Serving
  <2> QED
    BY <2>1, <2>2, <2>3, <2>4, <2>5, <2>6
<1>6. CASE processWork(t)
  <2>1. StageFits'
    BY <1>6 DEF processWork, InRunAt, StageFits
  <2>2. HandlerKept'
    BY <1>6 DEF processWork, InRunAt, StageFits, HandlerKept, BetweenSessions,
                InSession
  <2>3. IoBelongs'
    <3>1. Serving(t)' /\ stage'[t] = "io"
      BY <1>6 DEF processWork, InRunAt, Serving
    <3>2. \A x \in Threads : x # t => ipc'[x] = "off"
      BY <1>6, WorkerAssumption DEF processWork, InRunAt, IoBelongs, Serving, IoThreads
    <3>3. \A u \in Threads : Serving(u)' => u = t
      BY <1>6 DEF processWork, InRunAt, Serving
    <3>4. \A x \in IoThreads : ipc'[x] = "requested" => mishap'
      BY <1>6 DEF processWork, InRunAt, IoBelongs
    <3> QED
      BY <3>1, <3>2, <3>3, <3>4 DEF IoBelongs
  <2>4. AcceptsInSession'
    BY <1>6 DEF processWork, InRunAt, StageFits, AcceptsInSession, StopComesFirst, Taken,
                DoneMeansHalted, Serving
  <2>5. StopComesFirst'
    BY <1>6 DEF processWork, InRunAt, StageFits, StopComesFirst, Taken, IoBelongs,
                Serving
  <2>6. DoneMeansHalted'
    BY <1>6 DEF processWork, InRunAt, StageFits, DoneMeansHalted, IoBelongs, Serving
  <2> QED
    BY <2>1, <2>2, <2>3, <2>4, <2>5, <2>6
<1>7. CASE SpawnIoFails(t)
  <2>1. StageFits'
    BY <1>7 DEF SpawnIoFails, InRunAt, StageFits
  <2>2. HandlerKept'
    BY <1>7 DEF SpawnIoFails, InRunAt, StageFits, HandlerKept, BetweenSessions,
                InSession
  <2>3. IoBelongs'
    BY <1>7 DEF SpawnIoFails, InRunAt, StageFits, IoBelongs, Serving
  <2>4. AcceptsInSession'
    BY <1>7 DEF SpawnIoFails, InRunAt, StageFits, AcceptsInSession, StopComesFirst, Taken,
                DoneMeansHalted, Serving
  <2>5. StopComesFirst'
    BY <1>7 DEF SpawnIoFails, InRunAt, StageFits, StopComesFirst, Taken, IoBelongs,
                Serving
  <2>6. DoneMeansHalted'
    BY <1>7 DEF SpawnIoFails, InRunAt, StageFits, DoneMeansHalted, IoBelongs, Serving
  <2> QED
    BY <2>1, <2>2, <2>3, <2>4, <2>5, <2>6
<1>8. CASE RunIoReturned(t)
  <2>1. StageFits'
    BY <1>8 DEF RunIoReturned, InRunAt, StageFits
  <2>2. HandlerKept'
    BY <1>8 DEF RunIoReturned, InRunAt, StageFits, HandlerKept, BetweenSessions,
                InSession
  <2>3. IoBelongs'
    BY <1>8 DEF RunIoReturned, InRunAt, StageFits, IoBelongs, Serving
  <2>4. AcceptsInSession'
    BY <1>8 DEF RunIoReturned, InRunAt, StageFits, AcceptsInSession, StopComesFirst, Taken,
                DoneMeansHalted, Serving
  <2>5. StopComesFirst'
    BY <1>8 DEF RunIoReturned, InRunAt, StageFits, StopComesFirst, Taken, IoBelongs,
                Serving
  <2>6. DoneMeansHalted'
    BY <1>8 DEF RunIoReturned, InRunAt, StageFits, DoneMeansHalted, IoBelongs, Serving
  <2> QED
    BY <2>1, <2>2, <2>3, <2>4, <2>5, <2>6
<1>9. CASE JoinIoThreads(t)
  <2>0. ~mishap => acceptor # t
    <3>1. Serving(t) /\ ipc[t] = "done"
      BY <1>9 DEF JoinIoThreads, InRunAt, IoBelongs, Serving
    <3>2. \A x \in IoThreads : ipc[x] # "stopServer"
      BY <1>9, <3>1 DEF JoinIoThreads, IoBelongs, Serving, IoThreads
    <3>3. ~mishap => halted[t]
      BY <3>1 DEF DoneMeansHalted, IoThreads
    <3> QED
      BY <3>2, <3>3 DEF StopComesFirst, Taken
  <2>1. StageFits'
    BY <1>9 DEF JoinIoThreads, InRunAt, StageFits
  <2>2. HandlerKept'
    BY <1>9 DEF JoinIoThreads, InRunAt, StageFits, HandlerKept, BetweenSessions,
                InSession
  <2>3. IoBelongs'
    BY <1>9 DEF JoinIoThreads, InRunAt, StageFits, IoBelongs, Serving
  <2>4. AcceptsInSession'
    BY <1>9, <2>0 DEF JoinIoThreads, InRunAt, AcceptsInSession
  <2>5. StopComesFirst'
    <3>1. \A x \in IoThreads : ipc[x] = "stopServer" => mishap
      BY <1>9 DEF JoinIoThreads, InRunAt, IoBelongs, Serving, IoThreads
    <3> QED
      BY <1>9, <2>0, <3>1 DEF JoinIoThreads, InRunAt, StopComesFirst, Taken
  <2>6. DoneMeansHalted'
    BY <1>9 DEF JoinIoThreads, InRunAt, StageFits, DoneMeansHalted, IoBelongs, Serving
  <2> QED
    BY <2>1, <2>2, <2>3, <2>4, <2>5, <2>6
<1>10. CASE Conclude(t)
  <2>1. StageFits'
    BY <1>10 DEF Conclude, InRunAt, StageFits
  <2>2. HandlerKept'
    BY <1>10 DEF Conclude, InRunAt, StageFits, HandlerKept, BetweenSessions,
                InSession
  <2>3. IoBelongs'
    BY <1>10 DEF Conclude, InRunAt, StageFits, IoBelongs, Serving
  <2>4. AcceptsInSession'
    BY <1>10 DEF Conclude, InRunAt, StageFits, AcceptsInSession, StopComesFirst, Taken,
                DoneMeansHalted, Serving
  <2>5. StopComesFirst'
    BY <1>10 DEF Conclude, InRunAt, StageFits, StopComesFirst, Taken, IoBelongs,
                Serving
  <2>6. DoneMeansHalted'
    BY <1>10 DEF Conclude, InRunAt, StageFits, DoneMeansHalted, IoBelongs, Serving
  <2> QED
    BY <2>1, <2>2, <2>3, <2>4, <2>5, <2>6
<1>11. CASE Restore(t)
  <2>1. StageFits'
    BY <1>11 DEF Restore, InRunAt, RunReturns, StageFits
  <2>2. HandlerKept'
    BY <1>11 DEF Restore, InRunAt, RunReturns, StageFits, HandlerKept, BetweenSessions,
                InSession
  <2>3. IoBelongs'
    BY <1>11 DEF Restore, InRunAt, RunReturns, StageFits, IoBelongs, Serving
  <2>4. AcceptsInSession'
    BY <1>11 DEF Restore, InRunAt, RunReturns, StageFits, AcceptsInSession, StopComesFirst, Taken,
                DoneMeansHalted, Serving
  <2>5. StopComesFirst'
    BY <1>11 DEF Restore, InRunAt, RunReturns, StageFits, StopComesFirst, Taken, IoBelongs,
                Serving
  <2>6. DoneMeansHalted'
    BY <1>11 DEF Restore, InRunAt, RunReturns, StageFits, DoneMeansHalted, IoBelongs, Serving
  <2> QED
    BY <2>1, <2>2, <2>3, <2>4, <2>5, <2>6
<1>12. CASE RunThrows(t)
  <2>1. StageFits'
    BY <1>12 DEF RunThrows, InRunAt, HookThrows, Halt, StageFits
  <2>2. HandlerKept'
    BY <1>12 DEF RunThrows, InRunAt, HookThrows, Halt, StageFits, HandlerKept, BetweenSessions,
                InSession
  <2>3. IoBelongs'
    BY <1>12 DEF RunThrows, InRunAt, HookThrows, Halt, StageFits, IoBelongs, Serving
  <2>4. AcceptsInSession'
    BY <1>12 DEF RunThrows, InRunAt, HookThrows, Halt, StageFits, AcceptsInSession, StopComesFirst, Taken,
                DoneMeansHalted, Serving
  <2>5. StopComesFirst'
    BY <1>12 DEF RunThrows, InRunAt, HookThrows, Halt, StageFits, StopComesFirst, Taken, IoBelongs,
                Serving
  <2>6. DoneMeansHalted'
    BY <1>12 DEF RunThrows, InRunAt, HookThrows, Halt, StageFits, DoneMeansHalted, IoBelongs, Serving
  <2> QED
    BY <2>1, <2>2, <2>3, <2>4, <2>5, <2>6
<1>13. CASE Abandoned(t)
  <2>1. StageFits'
    BY <1>13 DEF Abandoned, CheckStopRequested, Halt, StageFits
  <2>2. HandlerKept'
    BY <1>13 DEF Abandoned, CheckStopRequested, Halt, StageFits, HandlerKept, BetweenSessions,
                InSession
  <2>3. IoBelongs'
    BY <1>13 DEF Abandoned, CheckStopRequested, Halt, StageFits, IoBelongs, Serving
  <2>4. AcceptsInSession'
    BY <1>13 DEF Abandoned, CheckStopRequested, Halt, StageFits, AcceptsInSession, StopComesFirst, Taken,
                DoneMeansHalted, Serving
  <2>5. StopComesFirst'
    BY <1>13 DEF Abandoned, CheckStopRequested, Halt, StageFits, StopComesFirst, Taken, IoBelongs,
                Serving
  <2>6. DoneMeansHalted'
    BY <1>13 DEF Abandoned, CheckStopRequested, Halt, StageFits, DoneMeansHalted, IoBelongs, Serving
  <2> QED
    BY <2>1, <2>2, <2>3, <2>4, <2>5, <2>6
<1> QED
  BY <1>1, <1>2, <1>3, <1>4, <1>5, <1>6, <1>7, <1>8, <1>9, <1>10, <1>11, <1>12, <1>13 DEF WorkerStep

\* Steps of runIo, on the worker thread and on the additional one: whoever is in it
\* runs the context of the session.
LEMMA IoKeepsSession ==
    ASSUME TypeOK, OneAttempt, Types, SessionInv, NEW x \in IoThreads,
           IoStep(x) \/ HandlerBegins(x) \/ HandlerThrows(x)
    PROVE  SessionInv'
<1> USE HttpAssumption DEF SessionInv, ContextInv
<1>1. /\ UNCHANGED <<tpc, stage, m_io, on_error, m_userOnError, hook, hio>>
      /\ mishap => mishap'
      /\ ipc[x] \in {"run", "handler", "stopServer", "catch", "requested"}
      /\ \E loc \in {"run", "handler", "stopServer", "catch", "requested", "done"} :
            ipc' = [ipc EXCEPT ![x] = loc]
  BY DEF IoStep, HandlerBegins, HandlerThrows, HandlerReturns, IoTakes, IoStopsServer, IoReturns,
         IoCatches, IoRequested, IoAt, IoMoves, vars, handlerVars, Retire, HelperRequestsStop
<1>2. PICK t \in Threads : Serving(t) /\ (x \in Threads => x = t)
  BY <1>1 DEF IoBelongs
<1>3. \A u \in Threads : Live(u) => u = t
  BY <1>2 DEF OneAttempt, Busy, Serving, Live, LiveLocations
<1>4. ~mishap => ContextOf(x) = t
  <2>1. Live(t) /\ stage[t] \in {"io", "join"}
    BY <1>2 DEF Serving, Live, LiveLocations
  <2>2. BetweenSessions => FALSE
    BY <2>1 DEF BetweenSessions
  <2>3. \A u \in Threads : InSession(u) => m_io = t
    BY <1>3 DEF InSession
  <2> QED
    BY <1>2, <2>2, <2>3 DEF HandlerKept, ContextOf
<1>5. StageFits' /\ HandlerKept'
  BY <1>1 DEF StageFits, HandlerKept, BetweenSessions, InSession, Live
<1>6. \A u \in Threads : Serving(u)' <=> u = t
  BY <1>1, <1>2, <1>3 DEF Serving, Live, LiveLocations
<1>7. IoBelongs'
  <2>1. \A y \in IoThreads : ipc'[y] # "off" =>
           \E u \in Threads : Serving(u)' /\ (y \in Threads => y = u)
    BY <1>1, <1>2, <1>6 DEF IoBelongs, Serving, Types, IoTypes
  <2>2. \A u \in Threads : Serving(u)' /\ stage'[u] = "join" => ipc'[u] = "done"
    BY <1>1, <1>6, <1>2 DEF IoBelongs, Types, IoTypes
  <2>3. ipc'[x] = "requested" => mishap'
    BY <1>1 DEF IoStep, HandlerBegins, HandlerThrows, HandlerReturns, IoTakes, IoStopsServer,
                IoReturns, IoCatches, IoRequested, IoMoves, Types, IoTypes
  <2>4. \A y \in IoThreads : ipc'[y] = "requested" => mishap'
    BY <1>1, <2>3 DEF IoBelongs, Types, IoTypes
  <2> QED
    BY <2>1, <2>2, <2>4 DEF IoBelongs
<1>8. CASE HandlerBegins(x) \/ HandlerThrows(x) \/ HandlerReturns(x)
  <2>1. /\ UNCHANGED <<acceptor, posted, halted, mishap>>
        /\ ipc[x] # "stopServer" /\ ipc'[x] # "done"
    BY <1>1, <1>8 DEF HandlerBegins, HandlerThrows, HandlerReturns, IoAt, IoMoves, Types, IoTypes
  <2>2. \A y \in IoThreads : /\ ipc[y] = "stopServer" => ipc'[y] = "stopServer"
                             /\ ipc'[y] = "done" => ipc[y] = "done"
    BY <1>1, <2>1 DEF Types, IoTypes
  <2> QED
    BY <1>1, <1>5, <1>7, <2>1, <2>2
    DEF AcceptsInSession, StopComesFirst, Taken, DoneMeansHalted, Serving
<1>9. CASE IoTakes(x)
  <2>1. CASE mishap
    BY <1>1, <1>5, <1>7, <2>1 DEF AcceptsInSession, StopComesFirst, DoneMeansHalted
  <2>2. CASE ~mishap /\ Head(posted[t]) = "stopServer"
    <3>1. /\ UNCHANGED <<acceptor, halted, mishap>> /\ ipc' = [ipc EXCEPT ![x] = "stopServer"]
          /\ \A u \in Threads : u # t => posted'[u] = posted[u]
      BY <1>4, <1>9, <2>2 DEF IoTakes, IoAt, IoMoves, Types, IoTypes, Contexts
    <3>2. Taken(t)'
      BY <1>1, <1>2, <3>1 DEF Taken, Serving, Types, IoTypes
    <3>3. \A y \in IoThreads : /\ ipc[y] = "stopServer" => ipc'[y] = "stopServer"
                               /\ ipc'[y] = "done" => ipc[y] = "done"
      BY <3>1 DEF Types, IoTypes
    <3> QED
      BY <1>1, <1>5, <1>7, <3>1, <3>2, <3>3
      DEF AcceptsInSession, StopComesFirst, Taken, DoneMeansHalted, Serving
  <2>3. CASE ~mishap /\ Head(posted[t]) # "stopServer"
    <3>1. /\ UNCHANGED <<acceptor, mishap>> /\ ipc' = [ipc EXCEPT ![x] = "run"] /\ ipc[x] = "run"
          /\ posted[t] # <<>> /\ ~halted[t]
          /\ halted' = [halted EXCEPT ![t] = TRUE]
          /\ \A u \in Threads : u # t => posted'[u] = posted[u]
      BY <1>4, <1>9, <2>3 DEF IoTakes, IoAt, IoMoves, Halt, Types, IoTypes, Contexts
    <3>2. Taken(t)
      BY <2>3, <3>1 DEF StopComesFirst
    <3>3. ipc' = ipc
      BY <3>1 DEF Types, IoTypes
    <3>4. \A u \in Threads : Taken(u) => Taken(u)'
      BY <1>1, <3>1, <3>3 DEF Taken
    <3>5. halted'[t] /\ \A u \in Threads : u # t => halted'[u] = halted[u]
      BY <3>1 DEF Types, IoTypes, Contexts
    <3>6. DoneMeansHalted'
      BY <1>6, <3>5 DEF DoneMeansHalted
    <3> QED
      BY <1>1, <1>5, <1>7, <3>1, <3>2, <3>4, <3>5, <3>6 DEF AcceptsInSession, StopComesFirst
  <2> QED
    BY <2>1, <2>2, <2>3
<1>10. CASE IoStopsServer(x)
  <2>1. /\ UNCHANGED <<posted, halted, mishap>> /\ acceptor' = NoContext
        /\ ipc' = [ipc EXCEPT ![x] = "run"]
    BY <1>10 DEF IoStopsServer, IoMoves
  <2>2. \A u \in Threads : Taken(u) => Taken(u)'
    BY <1>1, <2>1 DEF Taken, Contexts
  <2>3. \A y \in IoThreads : ipc'[y] = "done" => ipc[y] = "done"
    BY <2>1 DEF Types, IoTypes
  <2> QED
    BY <1>1, <1>5, <1>7, <2>1, <2>2, <2>3
    DEF AcceptsInSession, StopComesFirst, DoneMeansHalted, Serving, Contexts
<1>11. CASE IoReturns(x)
  <2>1. CASE mishap
    BY <1>1, <1>5, <1>7, <2>1 DEF AcceptsInSession, StopComesFirst, DoneMeansHalted
  <2>2. CASE ~mishap
    <3>1. /\ UNCHANGED <<acceptor, mishap>> /\ ipc' = [ipc EXCEPT ![x] = "done"] /\ ipc[x] = "run"
          /\ halted[t] \/ acceptor # t
          /\ halted' = [halted EXCEPT ![t] = TRUE]
          /\ \A u \in Threads : u # t => posted'[u] = posted[u]
      BY <1>4, <1>11, <2>2 DEF IoReturns, IoAt, IoMoves, Halt, Types, IoTypes, Contexts
    <3>2. Taken(t)
      BY <1>2, <2>2, <3>1 DEF StopComesFirst, Taken, Serving
    <3>3. \A y \in IoThreads : ipc[y] = "stopServer" => ipc'[y] = "stopServer"
      BY <3>1 DEF Types, IoTypes
    <3>4. \A u \in Threads : Taken(u) => Taken(u)'
      BY <1>1, <3>1, <3>3 DEF Taken
    <3>5. halted'[t] /\ \A u \in Threads : u # t => halted'[u] = halted[u]
      BY <3>1 DEF Types, IoTypes, Contexts
    <3>6. DoneMeansHalted'
      BY <1>6, <3>5 DEF DoneMeansHalted
    <3> QED
      BY <1>1, <1>5, <1>7, <3>1, <3>2, <3>4, <3>5, <3>6 DEF AcceptsInSession, StopComesFirst
  <2> QED
    BY <2>1, <2>2
<1>12. CASE IoCatches(x) \/ IoRequested(x)
  <2>1. mishap'
    <3>1. CASE IoCatches(x)
      BY <3>1 DEF IoCatches
    <3>2. CASE IoRequested(x)
      BY <1>1, <3>2 DEF IoRequested, IoAt, IoBelongs
    <3> QED
      BY <1>12, <3>1, <3>2
  <2> QED
    BY <1>5, <1>7, <2>1 DEF AcceptsInSession, StopComesFirst, DoneMeansHalted
<1> QED
  BY <1>8, <1>9, <1>10, <1>11, <1>12 DEF IoStep

\* Steps of stopTriggered: they post to the context that they have read, in order,
\* or stop a server that has no context.
LEMMA HookKeepsSession ==
    ASSUME TypeOK, Types, SessionInv, NEW p \in Procs, HookStep(p)
    PROVE  SessionInv'
<1> USE HttpAssumption DEF SessionInv, ContextInv
<1>1. UNCHANGED <<tpc, stage, m_io, on_error, m_userOnError, mishap, halted, ipc>>
  BY DEF HookStep, HookReads, HookStopsServer, HookPostsStop, HookPostsHalt, HookResolves,
         HookReturns, BaseHookReturns, StopTriggeredReturns, HookMoves, httpVars, handlerVars,
         ioVars, vars
<1>2. acceptor' = acceptor \/ acceptor' = NoContext
  BY DEF HookStep, HookReads, HookStopsServer, HookPostsStop, HookPostsHalt, HookResolves,
         HookReturns, BaseHookReturns, httpVars, ioVars
<1>3. StageFits' /\ HandlerKept' /\ IoBelongs' /\ DoneMeansHalted'
  BY <1>1 DEF StageFits, HandlerKept, BetweenSessions, InSession, Live, IoBelongs, Serving,
              DoneMeansHalted
<1>4. AcceptsInSession'
  BY <1>1, <1>2 DEF AcceptsInSession, Contexts
<1>5. \A t \in Threads : Taken(t) => Taken(t)'
  BY <1>1, <1>2 DEF Taken, Contexts
<1>6. CASE HookReads(p) \/ HookStopsServer(p) \/ HookResolves(p) \/ HookReturns(p)
           \/ BaseHookReturns(p)
  <2>1. posted' = posted
    BY <1>6 DEF HookReads, HookStopsServer, HookResolves, HookReturns, BaseHookReturns, httpVars,
                ioVars
  <2>2. \A q \in Procs : hook'[q] = "postHalt" => hook[q] = "postHalt" /\ hio'[q] = hio[q]
    BY <1>6 DEF HookReads, HookStopsServer, HookResolves, HookReturns, BaseHookReturns, HookMoves,
                httpVars, HookAt, Types, HookTypes
  <2>3. StopComesFirst'
    BY <1>1, <1>5, <2>1, <2>2 DEF StopComesFirst
  <2> QED
    BY <1>3, <1>4, <2>3
<1>7. ASSUME NEW function \in {"stopServer", "stopContext"}, Post(p, function),
             \A q \in Procs : hook'[q] = "postHalt" =>
                                  (q = p /\ function = "stopServer") \/ hook[q] = "postHalt",
             function = "stopServer" \/ hook[p] = "postHalt",
             hio' = hio
      PROVE  StopComesFirst'
  <2> SUFFICES ASSUME NEW t \in Threads, ~mishap, ~Taken(t)
               PROVE  /\ ~halted'[t]
                      /\ posted'[t] # <<>> => Head(posted'[t]) = "stopServer"
                      /\ \A q \in Procs : hook'[q] = "postHalt" /\ hio'[q] = t => posted'[t] # <<>>
    BY <1>1, <1>5 DEF StopComesFirst
  <2>1. /\ ~halted[t]
        /\ posted[t] # <<>> => Head(posted[t]) = "stopServer"
        /\ \A q \in Procs : hook[q] = "postHalt" /\ hio[q] = t => posted[t] # <<>>
    BY DEF StopComesFirst
  <2>2. CASE hio[p] # t
    <3>1. posted'[t] = posted[t]
      BY <1>7, <2>2 DEF Post, Types, IoTypes, Contexts
    <3> QED
      BY <1>1, <1>7, <2>1, <2>2, <3>1
  <2>3. CASE hio[p] = t
    <3> DEFINE before_ == posted[t]
    <3>1. before_ \in Queues /\ posted'[t] = Append(before_, function)
      BY <1>7, <2>1, <2>3 DEF Post, Types, IoTypes, Contexts
    <3>2. before_ = <<>> => function = "stopServer"
      BY <1>7, <2>1, <2>3
    <3>3. posted'[t] # <<>> /\ Head(posted'[t]) = "stopServer"
      <4> HIDE DEF before_
      <4>1. posted'[t] # <<>> /\ Head(posted'[t]) = (IF before_ = <<>> THEN function ELSE Head(before_))
        BY <3>1, QueueFacts
      <4>2. before_ # <<>> => Head(before_) = "stopServer"
        BY <2>1 DEF before_
      <4> QED
        BY <3>2, <4>1, <4>2
    <3> QED
      BY <1>1, <2>1, <3>3
  <2> QED
    BY <2>2, <2>3
<1>8. CASE HookPostsStop(p)
  BY <1>3, <1>4, <1>7, <1>8 DEF HookPostsStop, HookMoves, HookAt, Types, HookTypes
<1>9. CASE HookPostsHalt(p)
  BY <1>3, <1>4, <1>7, <1>9 DEF HookPostsHalt, HookMoves, HookAt, Types, HookTypes
<1> QED
  BY <1>6, <1>8, <1>9 DEF HookStep

\* The session invariant holds in every reachable state.
LEMMA SessionInvariant == HttpSpec => [](Types /\ StoppedIffIdle /\ SessionInv)
<1>1. HttpInit => SessionInv
  BY InitEstablishesSession
<1>2. TypeOK /\ OneAttempt /\ Types /\ SessionInv /\ [HttpNext]_allVars => SessionInv'
  <2> SUFFICES ASSUME TypeOK, OneAttempt, Types, SessionInv, [HttpNext]_allVars
               PROVE  SessionInv'
    OBVIOUS
  <2>1. CASE UNCHANGED sessionVars
    BY <2>1, SessionFrame
  <2>2. CASE BasePart
    BY <2>2, BaseKeepsSession
  <2>3. CASE \E t \in Threads : WorkerStep(t) \/ Abandoned(t)
    BY <2>3, WorkerKeepsSession
  <2>4. CASE \E x \in IoThreads : IoStep(x) \/ HandlerBegins(x) \/ HandlerThrows(x)
    BY <2>4, IoKeepsSession
  <2>5. CASE \E p \in Procs : HookStep(p)
    BY <2>5, HookKeepsSession
  <2> QED
    BY <2>1, <2>2, <2>3, <2>4, <2>5, OthersKeepSession DEF HttpNext
<1>3. HttpTypeOK => Types
  BY HttpTypesSplit DEF Types
<1>4. HttpSpec => [](TypeOK /\ OneAttempt /\ StoppedIffIdle)
  BY HttpIsBaseWorker, TypeCorrect, Exclusive, PTL DEF ImplementsBaseWorker
<1> QED
  BY <1>1, <1>2, <1>3, <1>4, HttpTypeCorrect, PTL DEF HttpSpec

\* When a session is over the error handler of the user is back, and the wrapper
\* never saves itself, however starts and stops are interleaved; but for sessions
\* that were abandoned or ended by an exception.
THEOREM HandlerSurvives == HttpSpec => []ErrorHandlerSurvives
<1>1. StoppedIffIdle /\ SessionInv => ErrorHandlerSurvives
  BY DEF StoppedIffIdle, Busy, SessionInv, HandlerKept, BetweenSessions, InSession,
         ErrorHandlerSurvives
<1> QED
  BY <1>1, SessionInvariant, PTL

\* A stopped server has no thread in its context, and after a session that ended well
\* it accepts no connections, for any callers, sessions and posted stops.
THEOREM StoppedIsSilent == HttpSpec => []StoppedServesNobody
<1>1. Types /\ StoppedIffIdle /\ SessionInv => StoppedServesNobody
  <2> SUFFICES ASSUME Types, StoppedIffIdle, SessionInv, m_state = "Stopped"
               PROVE  /\ \A x \in IoThreads : ipc[x] = "off"
                      /\ ~mishap => acceptor = NoContext
    BY DEF StoppedServesNobody
  <2>1. \A t \in Threads : tpc[t] # "run"
    BY DEF StoppedIffIdle, Busy, Live, LiveLocations
  <2>2. \A x \in IoThreads : ipc[x] = "off"
    BY <2>1 DEF SessionInv, ContextInv, IoBelongs, Serving
  <2>3. ~mishap => acceptor = NoContext
    BY <2>1 DEF SessionInv, ContextInv, AcceptsInSession, Types, IoTypes, Contexts
  <2> QED
    BY <2>2, <2>3
<1> QED
  BY <1>1, SessionInvariant, PTL
=============================================================================
