------------------------- MODULE GrpcWorkerProofs -------------------------
(***************************************************************************)
(* GrpcWorker implements BaseWorker, for any callers, worker threads and   *)
(* RPCs: the theorems of BaseWorkerProofs hold for the gRPC worker.  Its   *)
(* completion queue is drained before it goes, because whatever is         *)
(* outstanding belongs to a thread in its loop (InLoop), and its crashes   *)
(* are explained, because the order of the statements in stopTriggered     *)
(* holds for every stop that meets a session at work (CrashInv).           *)
(***************************************************************************)
EXTENDS GrpcWorker, BaseWorkerProofs

\* The steps of preRun: only its return shows to the base class.
LEMMA PreRunAllowed ==
    ASSUME NEW t \in Threads, PreRunStep(t)
    PROVE  Next \/ UNCHANGED vars
<1>1. CASE AddCompletionQueue(t) \/ BuildAndStart(t)
    BY <1>1, Zenon DEF AddCompletionQueue, BuildAndStart
<1>2. CASE BuildReturnsNull(t) \/ BuildThrows(t) \/ StorePort(t)
    <2>1. \E ok \in BOOLEAN : PreRunReturns(t, ok)
        BY <1>2, Zenon DEF BuildReturnsNull, BuildThrows, StorePort
    <2>2. QED BY <2>1, Zenon DEF Next, Hooks
<1>3. QED BY <1>1, <1>2, Zenon DEF PreRunStep

\* Only the end of the loop shows: run() returns.
LEMMA RunAllowed ==
    ASSUME NEW t \in Threads, RunStep(t)
    PROVE  Next \/ UNCHANGED vars
<1>1. CASE ArmFirstListener(t)
    BY <1>1, Zenon DEF ArmFirstListener
<1>2. CASE \E x \in Calls : RequestTag(t, x) \/ ExecuteAndFinish(t, x) \/ DeleteTag(t, x)
    BY <1>2, Zenon DEF RequestTag, ExecuteAndFinish, DeleteTag
<1>3. CASE \E k \in 1..MaxCalls : RenewListener(t, k)
    BY <1>3, Zenon DEF RenewListener
<1>4. CASE LeaveLoop(t)
    BY <1>4, Zenon DEF LeaveLoop, Next, Hooks
<1>5. QED BY <1>1, <1>2, <1>3, <1>4, Zenon DEF RunStep

\* The steps of stopTriggered: only its return shows.
LEMMA HookAllowed ==
    ASSUME NEW p \in Procs, HookStep(p)
    PROVE  Next \/ UNCHANGED vars
<1>1. CASE HookReadsServer(p) \/ HookReadsQueue(p)
    BY <1>1, Zenon DEF HookReadsServer, HookReadsQueue, HookReads
<1>2. CASE HookShutsServer(p) \/ HookWaits(p) \/ HookShutsQueue(p)
    BY <1>2, Zenon DEF HookShutsServer, HookWaits, HookShutsQueue
<1>3. CASE HookReturns(p) \/ BaseHookReturns(p)
    <2>1. StopTriggeredReturns(p)
        BY <1>3, Zenon DEF HookReturns, BaseHookReturns
    <2>2. QED BY <2>1, Zenon DEF Next, Hooks
<1>4. QED BY <1>1, <1>2, <1>3, Zenon DEF HookStep

\* The members go in the step with which the base class's destructor begins.
LEMMA DestructorAllowed ==
    ASSUME NEW c \in Callers, DestroyMembers(c)
    PROVE  Next
<1>1. CallerStep(c)
    BY Zenon DEF DestroyMembers, CallerStep
<1>2. QED BY <1>1, Zenon DEF Next, Plumbing

\* What the worker does not refine is the base class's own.
LEMMA BasePartAllowed ==
    ASSUME BasePart
    PROVE  Next
BY Zenon DEF BasePart, Next, Plumbing

\* cGenericGrpcWorker is a cBaseWorker_V2: every step of its hooks, of the calls
\* it drives and of gRPC is one that BaseWorker allows, or none of its business.
THEOREM GrpcIsBaseWorker == GrpcSpec => ImplementsBaseWorker
<1>1. GrpcInit => Init
    BY DEF GrpcInit
<1>2. [GrpcNext]_allVars => [Next]_vars
    <2>1. SUFFICES ASSUME [GrpcNext]_allVars
                   PROVE  Next \/ UNCHANGED vars
        OBVIOUS
    <2>2. CASE BasePart
        BY <2>2, BasePartAllowed
    <2>3. CASE \E t \in Threads : PreRunStep(t) \/ RunStep(t)
        BY <2>3, PreRunAllowed, RunAllowed, Zenon
    <2>4. CASE \E x \in Calls : RequestArrives(x) \/ FinishCompletes(x)
        BY <2>4, Zenon DEF RequestArrives, FinishCompletes
    <2>5. CASE \E p \in Procs : HookStep(p)
        BY <2>5, HookAllowed, Zenon
    <2>6. CASE \E c \in Callers : DestroyMembers(c)
        BY <2>6, DestructorAllowed, Zenon
    <2>7. CASE GrpcTerminated \/ UNCHANGED allVars
        BY <2>7 DEF GrpcTerminated, allVars, systemVars
    <2>8. QED
        BY <2>1, <2>2, <2>3, <2>4, <2>5, <2>6, <2>7, Zenon DEF GrpcNext
<1>3. QED
    BY <1>1, <1>2, PTL DEF GrpcSpec, ImplementsBaseWorker, Spec

\* The objects, calls and places of the gRPC worker keep their types, for any
\* callers, worker threads and number of calls.
THEOREM GrpcTypeCorrect == GrpcSpec => []GrpcTypeOK
<1> USE GrpcAssumption
<1>1. ASSUME GrpcInit
      PROVE  GrpcTypeOK
    <2>1. outlasted \in BOOLEAN
        BY <1>1, Zenon DEF GrpcInit
    <2>2. QED
        BY <1>1, <2>1 DEF GrpcInit, GrpcTypeOK, CallStates
<1>2. GrpcTypeOK /\ [GrpcNext]_allVars => GrpcTypeOK'
    <2> SUFFICES ASSUME GrpcTypeOK, [GrpcNext]_allVars
                 PROVE  GrpcTypeOK'
        OBVIOUS
    <2>0. outlasted' \in BOOLEAN
        BY Zenon DEF GrpcNext, GrpcTerminated, allVars, GrpcTypeOK
    <2> USE <2>0 DEF GrpcTypeOK, CallStates, objectVars
    <2>1. CASE BasePart
        BY <2>1 DEF BasePart, grpcVars
    <2>2. ASSUME NEW t \in Threads, PreRunStep(t)
          PROVE  GrpcTypeOK'
        <3> USE DEF StageGoto, Destroyed
        <3>1. CASE AddCompletionQueue(t)
            BY <3>1 DEF AddCompletionQueue
        <3>2. CASE BuildAndStart(t)
            BY <3>2 DEF BuildAndStart
        <3>3. CASE BuildReturnsNull(t)
            BY <3>3 DEF BuildReturnsNull
        <3>4. CASE BuildThrows(t)
            BY <3>4 DEF BuildThrows, grpcVars
        <3>5. CASE StorePort(t)
            BY <3>5 DEF StorePort
        <3>6. QED
            BY <2>2, <3>1, <3>2, <3>3, <3>4, <3>5 DEF PreRunStep
    <2>3. ASSUME NEW t \in Threads, RunStep(t)
          PROVE  GrpcTypeOK'
        <3> USE DEF StageGoto
        <3>1. CASE ArmFirstListener(t)
            BY <3>1 DEF ArmFirstListener, CreateCall, Requested
        <3>2. ASSUME NEW k \in 1..MaxCalls, RenewListener(t, k)
              PROVE  GrpcTypeOK'
            BY <3>2 DEF RenewListener, CreateCall, Requested
        <3>3. ASSUME NEW x \in Calls, RequestTag(t, x) \/ ExecuteAndFinish(t, x) \/ DeleteTag(t, x)
              PROVE  GrpcTypeOK'
            BY <3>3 DEF RequestTag, ExecuteAndFinish, DeleteTag
        <3>4. CASE LeaveLoop(t)
            BY <3>4 DEF LeaveLoop, grpcVars
        <3>5. QED
            BY <2>3, <3>1, <3>2, <3>3, <3>4 DEF RunStep
    <2>4. ASSUME NEW x \in Calls, RequestArrives(x) \/ FinishCompletes(x)
          PROVE  GrpcTypeOK'
        BY <2>4 DEF RequestArrives, FinishCompletes
    <2>5. ASSUME NEW p \in Procs, HookStep(p)
          PROVE  GrpcTypeOK'
        <3> USE DEF HookGoto
        <3>1. CASE HookReadsServer(p) \/ HookReadsQueue(p)
            BY <3>1 DEF HookReadsServer, HookReadsQueue, HookReads
        <3>2. CASE HookShutsServer(p)
            BY <3>2 DEF HookShutsServer
        <3>3. CASE HookWaits(p) \/ HookShutsQueue(p)
            BY <3>3 DEF HookWaits, HookShutsQueue
        <3>4. CASE HookReturns(p) \/ BaseHookReturns(p)
            BY <3>4 DEF HookReturns, BaseHookReturns, grpcVars
        <3>5. QED
            BY <2>5, <3>1, <3>2, <3>3, <3>4 DEF HookStep
    <2>6. ASSUME NEW c \in Callers, DestroyMembers(c)
          PROVE  GrpcTypeOK'
        BY <2>6 DEF DestroyMembers, Destroyed
    <2>7. CASE GrpcTerminated \/ UNCHANGED allVars
        BY <2>7 DEF GrpcTerminated, allVars, systemVars, grpcVars
    <2>8. QED
        BY <2>1, <2>2, <2>3, <2>4, <2>5, <2>6, <2>7 DEF GrpcNext
<1>3. QED
    BY <1>1, <1>2, PTL DEF GrpcSpec

\* What makes DrainedBeforeGone inductive: an object with an operation or a tag
\* in the queue belongs to a thread that is in its loop.
InLoop == \A x \in Calls : call[x] \notin {"none", "deleted"} => tpc[x[1]] = "run"

\* The base class takes no thread out of run().
LEMMA RunGoesOn ==
    ASSUME TypeOK, BasePart
    PROVE  \A t \in Threads : tpc[t] = "run" => tpc'[t] = "run"
<1> USE WorkerAssumption DEF TypeOK, callVars
<1>1. CASE \E c \in Callers, o \in Operations : Begin(c, o)
    BY <1>1 DEF Begin
<1>2. CASE \E c \in Callers : CallerStep(c)
    <2> SUFFICES ASSUME NEW c \in Callers, CallerStep(c)
                 PROVE  \A t \in Threads : tpc[t] = "run" => tpc'[t] = "run"
        BY <1>2
    <2>1. CASE Join(c)
        BY <2>1 DEF Join
    <2>2. CASE \E u \in Threads : StartSpawns(c, u)
        BY <2>2 DEF StartSpawns
    <2>3. CASE JoinFinishedThread(c) \/ JoinThread(c) \/ StartRefused(c) \/ StartSpawnFails(c)
        BY <2>3 DEF JoinFinishedThread, JoinThread, StartRefused, StartSpawnFails
    <2>4. CASE SpawnFailed(c) \/ FailNotify(c) \/ StartNotify(c) \/ Dismantle(c)
        BY <2>4 DEF SpawnFailed, FailNotify, StartNotify, Dismantle
    <2>5. CASE WaitForStart(c) \/ WaitForStartTimesOut(c)
        BY <2>5 DEF WaitForStart, WaitForStartTimesOut
    <2>6. CASE WaitForStopped(c) \/ WaitForStoppedTimesOut(c)
        BY <2>6 DEF WaitForStopped, WaitForStoppedTimesOut
    <2>7. QED
        BY <2>1, <2>2, <2>3, <2>4, <2>5, <2>6 DEF CallerStep
<1>3. CASE \E p \in Procs : RequestStopStep(p)
    BY <1>3 DEF RequestStopStep, RequestStopLock, RequestStopNotify
<1>4. CASE \E u \in Threads : RunnerStep(u)
    BY <1>4 DEF RunnerStep, CheckStopRequested, SetRunning, NotifyRunning, RecordException,
                SetStopped, NotifyStopped, ThreadAt, ThreadGoto
<1>5. QED
    BY <1>1, <1>2, <1>3, <1>4 DEF BasePart

\* When run() is over every CallData has been deleted, however stops, failed
\* starts, RPCs and destruction were interleaved, for any number of callers,
\* sessions and RPCs: nothing is outstanding when a completion queue goes.
THEOREM QueueIsDrained == GrpcSpec => []DrainedBeforeGone
<1> USE GrpcAssumption, WorkerAssumption
<1>1. GrpcInit => InLoop
    BY DEF GrpcInit, InLoop
<1>2. TypeOK /\ GrpcTypeOK /\ InLoop /\ [GrpcNext]_allVars => InLoop'
    <2> SUFFICES ASSUME TypeOK, GrpcTypeOK, InLoop, [GrpcNext]_allVars
                 PROVE  InLoop'
        OBVIOUS
    <2> USE DEF InLoop, TypeOK, GrpcTypeOK, CallStates, Calls
    <2>1. CASE BasePart
        BY <2>1, RunGoesOn DEF BasePart, grpcVars
    <2>2. ASSUME NEW t \in Threads, PreRunStep(t)
          PROVE  InLoop'
        <3>1. call' = call
            BY <2>2 DEF PreRunStep, AddCompletionQueue, BuildAndStart, BuildReturnsNull,
                        BuildThrows, StorePort, grpcVars
        <3>2. \A u \in Threads : tpc[u] = "run" => tpc'[u] = "run"
            BY <2>2 DEF PreRunStep, AddCompletionQueue, BuildAndStart, BuildReturnsNull,
                        BuildThrows, StorePort, InPreRun, PreRunReturns, ThreadAt, ThreadGoto, vars
        <3>3. QED
            BY <3>1, <3>2
    <2>3. ASSUME NEW t \in Threads, RunStep(t)
          PROVE  InLoop'
        <3> USE DEF InRunAt, ThreadAt, vars
        <3>1. CASE ArmFirstListener(t)
            BY <3>1 DEF ArmFirstListener, CreateCall, Requested
        <3>2. ASSUME NEW k \in 1..MaxCalls, RenewListener(t, k)
              PROVE  InLoop'
            BY <3>2 DEF RenewListener, CreateCall, Requested
        <3>3. ASSUME NEW x \in Calls, RequestTag(t, x) \/ ExecuteAndFinish(t, x) \/ DeleteTag(t, x)
              PROVE  InLoop'
            BY <3>3 DEF RequestTag, ExecuteAndFinish, DeleteTag
        <3>4. CASE LeaveLoop(t)
            BY <3>4 DEF LeaveLoop, grpcVars, Outstanding, RunReturns, ThreadGoto
        <3>5. QED
            BY <2>3, <3>1, <3>2, <3>3, <3>4 DEF RunStep
    <2>4. ASSUME NEW x \in Calls, RequestArrives(x) \/ FinishCompletes(x)
          PROVE  InLoop'
        BY <2>4 DEF RequestArrives, FinishCompletes, vars
    <2>5. ASSUME NEW p \in Procs, HookStep(p)
          PROVE  InLoop'
        <3>1. CASE HookReadsServer(p) \/ HookReadsQueue(p) \/ HookWaits(p) \/ HookShutsQueue(p)
            BY <3>1 DEF HookReadsServer, HookReadsQueue, HookReads, HookWaits, HookShutsQueue, vars
        <3>2. CASE HookShutsServer(p)
            BY <3>2 DEF HookShutsServer, vars
        <3>3. CASE HookReturns(p) \/ BaseHookReturns(p)
            BY <3>3 DEF HookReturns, BaseHookReturns, StopTriggeredReturns, grpcVars
        <3>4. QED
            BY <2>5, <3>1, <3>2, <3>3 DEF HookStep
    <2>6. ASSUME NEW c \in Callers, DestroyMembers(c)
          PROVE  InLoop'
        BY <2>6 DEF DestroyMembers, Dismantle
    <2>7. CASE GrpcTerminated \/ UNCHANGED allVars
        BY <2>7 DEF GrpcTerminated, allVars, systemVars, vars, grpcVars
    <2>8. QED
        BY <2>1, <2>2, <2>3, <2>4, <2>5, <2>6, <2>7 DEF GrpcNext
<1>3. InLoop => DrainedBeforeGone
    BY DEF InLoop, DrainedBeforeGone, Outstanding, Calls
<1>4. GrpcSpec => []TypeOK
    BY GrpcIsBaseWorker, TypeCorrect, PTL DEF ImplementsBaseWorker
<1>5. QED
    BY <1>1, <1>2, <1>3, <1>4, GrpcTypeCorrect, PTL DEF GrpcSpec
-----------------------------------------------------------------------------
(* Why a crash is explained.                                                 *)

\* While the worker exists: the pointers and the place in preRun fit, an object
\* that a pointer reaches has been created, and one that is gone was left behind
\* by a session that is over.
ObjectsBelong ==
    Exists => \A t \in Threads :
        /\ tpc[t] = "unborn" => /\ stage[t] = "queue" /\ queue[t] = "none"
                                /\ m_cq # t /\ m_server # t
        /\ tpc[t] = "preRun" => /\ stage[t] = "queue" => m_server # t
                                /\ stage[t] = "build" => m_cq = t /\ m_server # t
                                /\ stage[t] = "store" => m_cq = t /\ m_server = t
        /\ tpc[t] \in {"check", "setRunning", "notifyRunning", "run"} => m_cq = t /\ m_server = t
        /\ tpc[t] \in {"check", "setRunning", "notifyRunning"} => stage[t] = "listen"
        /\ m_cq = t => queue[t] \in {"open", "shut"}
        /\ queue[t] = "gone" \/ server[t] = "gone" => tpc[t] \in {"notifyStopped", "exited", "joined"}

\* While the worker exists: stopTriggered is entered at its first statement, and
\* what it is about to use was built by some session.
HookFits ==
    Exists => \A p \in Procs :
        /\ rs[p] # "hook" => hook[p] = "server"
        /\ hook[p] \in {"shutServer", "wait", "shutQueue"} =>
              obj[p] \in Threads /\ tpc[obj[p]] # "unborn"

\* A server that was shut down has refused its waiting listeners, and a listener is
\* renewed for an RPC that is being executed.
CallsFit ==
    Exists => \A t \in Threads :
        /\ server[t] = "shut" => \A x \in Calls : x[1] = t => call[x] # "armed"
        /\ tpc[t] = "run" /\ stage[t] = "renew" => \E x \in Calls : x[1] = t /\ call[x] = "executing"

\* No RPC of session t is in progress, and none can begin.
Finished(t) == server[t] = "shut" /\ InProgress(t) = {}

\* Where a stop is while session t is at work: it uses the objects of t, and what
\* the order of its statements promises is so.
InOrder(p, t) ==
    /\ hook[p] \in {"shutServer", "wait", "shutQueue"} => obj[p] = t
    /\ hook[p] = "wait" => server[t] = "shut"
    /\ hook[p] \in {"queue", "shutQueue", "return"} => Finished(t)

AtWork(t) == tpc[t] \in {"setRunning", "notifyRunning", "run"}

\* Unless a stop has outlasted its session: the stop flag is up while one executes and
\* when the queue of the live session is shut down, and a session that has passed
\* the check of the flag meets only stops that began with its own server.
StopsInOrder ==
    Exists /\ ~outlasted =>
        /\ \A p \in Procs : Stopping(p) => m_stopRequested
        /\ \A t \in Threads : Live(t) /\ queue[t] = "shut" => m_stopRequested
        /\ \A t \in Threads : AtWork(t) =>
              /\ queue[t] = "shut" => Finished(t)
              /\ \A p \in Procs : rs[p] = "hook" => InOrder(p, t)

CrashInv == ObjectsBelong /\ HookFits /\ CallsFit /\ StopsInOrder

\* How the base class moves a worker thread, a stop and the stop flag.
ThreadMoves(t) ==
    \/ tpc'[t] = tpc[t]
    \/ tpc[t] = "unborn" /\ tpc'[t] = "preRun"
    \/ tpc[t] = "check" /\ tpc'[t] = "setRunning" /\ ~m_stopRequested
    \/ tpc[t] = "setRunning" /\ tpc'[t] = "notifyRunning"
    \/ tpc[t] = "notifyRunning" /\ tpc'[t] = "run"
    \/ tpc[t] \in {"check", "catch"} /\ tpc'[t] = "setStopped"
    \/ /\ tpc[t] \in {"setStopped", "notifyStopped", "exited"}
       /\ tpc'[t] \in {"notifyStopped", "exited", "joined"}

StopMoves(p) ==
    \/ rs'[p] = rs[p]
    \/ rs[p] # "hook" /\ rs'[p] \in {"off", "lock", "notify"}
    \/ rs[p] = "lock" /\ rs'[p] = "notifyHook" /\ m_stopRequested'
    \/ rs[p] = "notifyHook" /\ rs'[p] = "hook"

StartBegins == m_state = "Stopped" /\ m_state' = "Starting"

\* The base class moves a thread on from where it is.
LEMMA BaseThreads ==
    ASSUME TypeOK, BasePart, NEW t \in Threads
    PROVE  ThreadMoves(t)
<1>1. ASSUME NEW u \in Threads, CheckStopRequested(u)
      PROVE  \/ tpc'[t] = tpc[t]
             \/ tpc[t] = "check" /\ tpc'[t] = (IF m_stopRequested THEN "setStopped" ELSE "setRunning")
    BY <1>1 DEF CheckStopRequested, ThreadAt, ThreadGoto, TypeOK
<1>2. CASE \E c \in Callers, o \in Operations : Begin(c, o)
    BY <1>2 DEF Begin, ThreadMoves
<1>3. CASE \/ \E c \in Callers : CallerStep(c)
           \/ \E p \in Procs : RequestStopStep(p)
           \/ \E u \in Threads : \/ SetRunning(u) \/ NotifyRunning(u) \/ RecordException(u)
                                 \/ SetStopped(u) \/ NotifyStopped(u)
    BY <1>3, ThreadProgress DEF ThreadMoves
<1>4. QED
    BY <1>1, <1>2, <1>3 DEF BasePart, RunnerStep, ThreadMoves

\* The base class takes a stop to its hook with the stop flag up.
LEMMA BaseStops ==
    ASSUME TypeOK, BasePart, NEW p \in Procs
    PROVE  StopMoves(p)
<1> USE DEF TypeOK, callVars
<1>1. ASSUME NEW c \in Callers, NEW o \in Operations, Begin(c, o)
      PROVE  rs'[p] = rs[p] \/ (rs[p] = "off" /\ rs'[p] = "lock")
    BY <1>1 DEF Begin, InCall, CallRequestStop
<1>2. ASSUME NEW q \in Procs, RequestStopLock(q)
      PROVE  \/ rs'[p] = rs[p]
             \/ rs[p] = "lock" /\ rs'[p] \in {"notify", "notifyHook"} /\ m_stopRequested'
    BY <1>2 DEF RequestStopLock
<1>3. ASSUME NEW q \in Procs, RequestStopNotify(q)
      PROVE  \/ rs'[p] = rs[p]
             \/ rs[p] = "notify" /\ rs'[p] = "off"
             \/ rs[p] = "notifyHook" /\ rs'[p] = "hook"
    BY <1>3 DEF RequestStopNotify
<1>4. ASSUME NEW c \in Callers, pc[c] # "dismantle", CallerStep(c)
      PROVE  rs' = rs
    BY <1>4 DEF CallerStep, JoinFinishedThread, JoinThread, Join, StartRefused, StartSpawnFails,
                SpawnFailed, FailNotify, StartNotify, WaitForStart, WaitForStartTimesOut, At,
                WaitForStopped, WaitForStoppedTimesOut, Dismantle, StartSpawns
<1>5. ASSUME NEW u \in Threads, RunnerStep(u)
      PROVE  rs' = rs
    BY <1>5 DEF RunnerStep, CheckStopRequested, SetRunning, NotifyRunning, RecordException,
                SetStopped, NotifyStopped
<1>6. QED
    BY <1>1, <1>2, <1>3, <1>4, <1>5 DEF BasePart, RequestStopStep, StopMoves

\* Only a start that found the worker stopped, and no live thread, takes the flag down
\* or creates a thread; it moves no stop.
LEMMA BaseStarts ==
    ASSUME TypeOK, BasePart,
           \/ m_stopRequested /\ ~m_stopRequested'
           \/ \E t \in Threads : tpc[t] = "unborn" /\ tpc'[t] # "unborn"
    PROVE  StartBegins /\ rs' = rs
<1> USE DEF TypeOK, workerVars, callVars, StartBegins
<1>1. ASSUME NEW c \in Callers, NEW o \in Operations, Begin(c, o)
      PROVE  FALSE
    BY <1>1 DEF Begin
<1>2. ASSUME NEW q \in Procs, RequestStopStep(q)
      PROVE  FALSE
    BY <1>2 DEF RequestStopStep, RequestStopLock, RequestStopNotify
<1>3. ASSUME NEW c \in Callers, StartSpawnFails(c) \/ \E t \in Threads : StartSpawns(c, t)
      PROVE  StartBegins /\ rs' = rs
    BY <1>3 DEF StartSpawnFails, StartSpawns, StartBegun
<1>4. ASSUME NEW c \in Callers, JoinFinishedThread(c) \/ JoinThread(c) \/ Join(c)
      PROVE  FALSE
    BY <1>4 DEF JoinFinishedThread, JoinThread, Join
<1>5. ASSUME NEW c \in Callers, \/ StartRefused(c) \/ SpawnFailed(c) \/ FailNotify(c) \/ StartNotify(c)
                                \/ WaitForStart(c) \/ WaitForStartTimesOut(c)
                                \/ WaitForStopped(c) \/ WaitForStoppedTimesOut(c) \/ Dismantle(c)
      PROVE  FALSE
    BY <1>5 DEF StartRefused, SpawnFailed, FailNotify, StartNotify, WaitForStart,
                WaitForStartTimesOut, WaitForStopped, WaitForStoppedTimesOut, Dismantle
<1>6. ASSUME NEW u \in Threads, RunnerStep(u)
      PROVE  FALSE
    BY <1>6 DEF RunnerStep, CheckStopRequested, SetRunning, NotifyRunning, RecordException,
                SetStopped, NotifyStopped, ThreadAt, ThreadGoto
<1>7. QED
    BY <1>1, <1>2, <1>3, <1>4, <1>5, <1>6 DEF BasePart, CallerStep

\* The base class never brings the derived part back.
LEMMA BaseObject ==
    ASSUME TypeOK, BasePart, Exists'
    PROVE  Exists
<1> USE DEF TypeOK, Exists
<1>1. ASSUME NEW c \in Callers, JoinThread(c) \/ Join(c)
      PROVE  Exists
    BY <1>1 DEF JoinThread, Join, ObjectAfterJoin
<1>2. ASSUME NEW c \in Callers, CallerStep(c), pc[c] # "dismantle", ~JoinThread(c), ~Join(c)
      PROVE  object' = object
    BY <1>2 DEF CallerStep, JoinFinishedThread, StartRefused, StartSpawnFails, SpawnFailed,
                FailNotify, StartNotify, WaitForStart, WaitForStartTimesOut, At,
                WaitForStopped, WaitForStoppedTimesOut, Dismantle, StartSpawns
<1>3. ASSUME NEW q \in Procs, RequestStopStep(q)
      PROVE  object' = object
    BY <1>3 DEF RequestStopStep, RequestStopLock, RequestStopNotify
<1>4. ASSUME NEW u \in Threads, RunnerStep(u)
      PROVE  object' = object
    BY <1>4 DEF RunnerStep, CheckStopRequested, SetRunning, NotifyRunning, RecordException,
                SetStopped, NotifyStopped
<1>5. ASSUME NEW c \in Callers, NEW o \in Operations, Begin(c, o)
      PROVE  Exists
    BY <1>5 DEF Begin
<1>6. QED
    BY <1>1, <1>2, <1>3, <1>4, <1>5 DEF BasePart

\* What the history variable remembers of a step.
Remembers ==
    ~outlasted' => ~outlasted /\ ~(StartBegins /\ \E p \in Procs : Stopping(p))

\* A worker that was never started fulfils the invariant.
LEMMA InitEstablishesCrashInv == GrpcInit => CrashInv
BY GrpcAssumption DEF GrpcInit, Init, CrashInv, ObjectsBelong, HookFits, CallsFit, StopsInOrder,
                      Stopping, Live, LiveLocations, AtWork

\* Steps of the base class.
LEMMA BaseKeepsCrashInv ==
    ASSUME TypeOK, GrpcTypeOK, StoppedIffIdle, CrashInv, BasePart, Remembers
    PROVE  CrashInv'
<1>1. UNCHANGED <<m_cq, m_server, queue, server, call, stage, hook, obj>>
    BY DEF BasePart, grpcVars, objectVars
<1>2. \A t \in Threads : ThreadMoves(t)
    BY BaseThreads
<1>3. \A p \in Procs : StopMoves(p)
    BY BaseStops
<1>4. Exists' => Exists
    BY BaseObject
<1>5. ObjectsBelong'
    BY <1>1, <1>2, <1>4 DEF ObjectsBelong, ThreadMoves, CrashInv
<1>6. HookFits'
    BY <1>1, <1>2, <1>3, <1>4 DEF HookFits, ThreadMoves, StopMoves, CrashInv
<1>7. CallsFit'
    <2>1. \A t \in Threads : tpc'[t] = "run" /\ tpc[t] # "run" => tpc[t] = "notifyRunning"
        BY <1>2 DEF ThreadMoves
    <2>2. QED
        BY <1>1, <1>4, <2>1 DEF CallsFit, ObjectsBelong, CrashInv
<1>8. StopsInOrder'
    <2> SUFFICES ASSUME Exists, ~outlasted, ~(StartBegins /\ \E p \in Procs : Stopping(p))
                 PROVE  /\ \A p \in Procs : Stopping(p)' => m_stopRequested'
                        /\ \A t \in Threads : Live(t)' /\ queue'[t] = "shut" => m_stopRequested'
                        /\ \A t \in Threads : AtWork(t)' =>
                              /\ queue'[t] = "shut" => Finished(t)'
                              /\ \A p \in Procs : rs'[p] = "hook" => InOrder(p, t)'
        BY <1>4 DEF StopsInOrder, Remembers
    <2>1. /\ \A p \in Procs : Stopping(p) => m_stopRequested
          /\ \A t \in Threads : Live(t) /\ queue[t] = "shut" => m_stopRequested
        BY DEF StopsInOrder, CrashInv
    <2>2. m_stopRequested /\ ~m_stopRequested' => \A p \in Procs : ~Stopping(p)' /\ ~Stopping(p)
        BY BaseStarts DEF Stopping
    <2>3. \A p \in Procs : Stopping(p)' => m_stopRequested'
        BY <1>3, <2>1, <2>2 DEF Stopping, StopMoves
    <2>4. ASSUME NEW t \in Threads, Live(t)', queue'[t] = "shut"
          PROVE  m_stopRequested'
        <3>1. Live(t)
            BY <1>1, <1>2, <2>4 DEF Live, LiveLocations, ThreadMoves, CrashInv, ObjectsBelong
        <3>2. m_state # "Stopped"
            BY <3>1 DEF StoppedIffIdle, Busy
        <3>3. QED
            BY <1>1, <2>1, <2>4, <3>1, <3>2, BaseStarts DEF StartBegins
    <2>5. ASSUME NEW t \in Threads, AtWork(t)'
          PROVE  /\ queue'[t] = "shut" => Finished(t)'
                 /\ \A p \in Procs : rs'[p] = "hook" => InOrder(p, t)'
        <3>1. UNCHANGED InProgress(t)
            BY <1>1 DEF InProgress
        <3>2. CASE AtWork(t)
            <4>1. /\ queue[t] = "shut" => Finished(t)
                  /\ \A p \in Procs : rs[p] = "hook" => InOrder(p, t)
                BY <3>2 DEF StopsInOrder, CrashInv
            <4>2. \A p \in Procs : rs'[p] = "hook" => rs[p] = "hook" \/ hook[p] = "server"
                BY <1>3 DEF StopMoves, CrashInv, HookFits
            <4>3. QED
                BY <1>1, <3>1, <4>1, <4>2 DEF Finished, InOrder
        <3>3. CASE ~AtWork(t)
            <4>1. tpc[t] = "check" /\ ~m_stopRequested
                BY <1>2, <2>5, <3>3 DEF ThreadMoves, AtWork
            <4>2. queue[t] # "shut" /\ \A p \in Procs : ~Stopping(p)
                BY <2>1, <4>1 DEF Live, LiveLocations
            <4>3. \A p \in Procs : rs'[p] # "hook"
                BY <1>3, <4>2 DEF Stopping, StopMoves
            <4>4. QED
                BY <1>1, <4>2, <4>3
        <3>4. QED
            BY <3>2, <3>3
    <2>6. QED
        BY <2>3, <2>4, <2>5
<1>9. QED
    BY <1>5, <1>6, <1>7, <1>8 DEF CrashInv

\* Steps of preRun: no session is at work, and only the one that builds is live.
LEMMA PreRunKeepsCrashInv ==
    ASSUME TypeOK, GrpcTypeOK, OneAttempt, CrashInv, NEW t \in Threads, PreRunStep(t),
           ~outlasted' => ~outlasted
    PROVE  CrashInv'
<1> USE GrpcAssumption DEF TypeOK, GrpcTypeOK
<1>1. /\ tpc[t] = "preRun" /\ Exists
      /\ \A u \in Threads : u # t => ~Live(u)
    <2>1. tpc[t] = "preRun" /\ Exists
        BY DEF PreRunStep, AddCompletionQueue, BuildAndStart, BuildReturnsNull, BuildThrows, StorePort,
               InPreRun, ThreadAt
    <2>2. QED
        BY <2>1 DEF OneAttempt, Busy, Live, LiveLocations
<1>2. /\ UNCHANGED <<call, hook, obj, rs, object, m_stopRequested>>
      /\ \A u \in Threads : u # t => tpc'[u] = tpc[u] /\ stage'[u] = stage[u]
      /\ tpc'[t] \in {"preRun", "check", "setStopped"}
    BY <1>1 DEF PreRunStep, AddCompletionQueue, BuildAndStart, BuildReturnsNull, BuildThrows, StorePort,
                InPreRun, PreRunReturns, ThreadAt, ThreadGoto, StageGoto, grpcVars, objectVars, vars,
                workerVars
<1>3. ObjectsBelong'
    <2> USE <1>1, <1>2 DEF Live, LiveLocations, ThreadLocations, Destroyed
    <2>1. CASE AddCompletionQueue(t)
        BY <2>1 DEF AddCompletionQueue, InPreRun, StageGoto, CrashInv, ObjectsBelong, Exists, vars
    <2>2. CASE BuildAndStart(t)
        BY <2>2 DEF BuildAndStart, InPreRun, StageGoto, CrashInv, ObjectsBelong, Exists, vars
    <2>3. CASE BuildReturnsNull(t)
        BY <2>3 DEF BuildReturnsNull, InPreRun, PreRunReturns, ThreadGoto, CrashInv, ObjectsBelong, Exists
    <2>4. CASE BuildThrows(t)
        BY <2>4 DEF BuildThrows, PreRunReturns, ThreadGoto, CrashInv, ObjectsBelong, Exists, grpcVars,
                    objectVars
    <2>5. CASE StorePort(t)
        BY <2>5 DEF StorePort, InPreRun, StageGoto, PreRunReturns, ThreadGoto, CrashInv, ObjectsBelong,
                    Exists
    <2>6. QED
        BY <2>1, <2>2, <2>3, <2>4, <2>5 DEF PreRunStep
<1>4. HookFits'
    BY <1>1, <1>2 DEF CrashInv, HookFits, Exists
<1>5. \A u \in Threads : /\ server'[u] = "shut" => server[u] = "shut"
                         /\ queue'[u] = "shut" => queue[u] = "shut"
    <2>1. CASE AddCompletionQueue(t)
        BY <2>1 DEF AddCompletionQueue, Destroyed
    <2>2. CASE BuildAndStart(t)
        BY <2>2 DEF BuildAndStart, Destroyed
    <2>3. CASE BuildReturnsNull(t)
        BY <2>3 DEF BuildReturnsNull, Destroyed
    <2>4. CASE BuildThrows(t) \/ StorePort(t)
        BY <2>4 DEF BuildThrows, StorePort, grpcVars, objectVars
    <2>5. QED
        BY <2>1, <2>2, <2>3, <2>4 DEF PreRunStep
<1>6. CallsFit'
    BY <1>1, <1>2, <1>5 DEF CrashInv, CallsFit, Exists, Live, LiveLocations
<1>7. StopsInOrder'
    <2>1. \A u \in Threads : ~AtWork(u)' /\ (Live(u)' => Live(u))
        BY <1>1, <1>2 DEF AtWork, Live, LiveLocations
    <2>2. QED
        BY <1>1, <1>2, <1>5, <2>1 DEF CrashInv, StopsInOrder, Exists, Stopping
<1>8. QED
    BY <1>3, <1>4, <1>6, <1>7 DEF CrashInv

\* A step that touches calls only, begins none where the server is shut down, and
\* lets a thread at most leave run().
CallStep ==
    /\ UNCHANGED <<m_cq, m_server, queue, server, hook, obj, rs, object, m_stopRequested>>
    /\ \A t \in Threads :
          /\ tpc'[t] = tpc[t] \/ (tpc[t] = "run" /\ tpc'[t] = "setStopped")
          /\ stage'[t] = stage[t] \/ tpc[t] = "run"
          /\ server[t] = "shut" => \A x \in Calls : x[1] = t => call'[x] # "armed"
          /\ Finished(t) => InProgress(t)' = {}
          /\ tpc'[t] = "run" /\ stage'[t] = "renew" =>
                \E x \in Calls : x[1] = t /\ call'[x] = "executing"

\* Such a step keeps the invariant.
LEMMA CallStepKeepsCrashInv ==
    ASSUME TypeOK, CrashInv, CallStep, ~outlasted' => ~outlasted
    PROVE  CrashInv'
<1>1. ObjectsBelong'
    BY DEF CallStep, CrashInv, ObjectsBelong, Exists
<1>2. HookFits'
    BY DEF CallStep, CrashInv, HookFits, Exists
<1>3. CallsFit'
    BY DEF CallStep, CrashInv, CallsFit, Exists
<1>4. StopsInOrder'
    <2>1. \A t \in Threads : /\ Finished(t) => Finished(t)'
                             /\ AtWork(t)' => AtWork(t)
                             /\ Live(t)' => Live(t)
        BY DEF CallStep, Finished, AtWork, Live, LiveLocations
    <2>2. \A p \in Procs : Stopping(p)' = Stopping(p)
        BY DEF CallStep, Stopping
    <2>3. \A p \in Procs, t \in Threads : (Finished(t) => Finished(t)') /\ InOrder(p, t) => InOrder(p, t)'
        BY DEF CallStep, InOrder
    <2>4. QED
        BY <2>1, <2>2, <2>3 DEF CallStep, CrashInv, StopsInOrder, Exists
<1>5. QED
    BY <1>1, <1>2, <1>3, <1>4 DEF CrashInv

\* Steps of run() and of the clients.
LEMMA RunStepIsCallStep ==
    ASSUME TypeOK, GrpcTypeOK, OneAttempt, CrashInv, NEW t \in Threads, RunStep(t)
    PROVE  CallStep
<1> USE GrpcAssumption DEF TypeOK, GrpcTypeOK, Calls
<1>1. /\ tpc[t] = "run" /\ Exists
      /\ \A u \in Threads : u # t => tpc[u] # "run"
    <2>1. tpc[t] = "run" /\ Exists
        BY DEF RunStep, ArmFirstListener, LeaveLoop, RequestTag, ExecuteAndFinish, DeleteTag, RenewListener,
               InRunAt, ThreadAt
    <2>2. QED
        BY <2>1 DEF OneAttempt, Busy, Live, LiveLocations
<1>2. \A u \in Threads : /\ server[u] = "shut" => \A x \in Calls : x[1] = u => call[x] # "armed"
                         /\ tpc[u] = "run" /\ stage[u] = "renew" =>
                               \E x \in Calls : x[1] = u /\ call[x] = "executing"
    BY <1>1 DEF CrashInv, CallsFit
<1>3. CASE ArmFirstListener(t) \/ \E k \in 1..MaxCalls : RenewListener(t, k)
    <2>1. PICK k \in 1..MaxCalls, cause \in {"firstListener", "proceed"}, loc \in {"next", "execute"} :
              /\ CreateCall(t, k, cause) /\ StageGoto(t, loc)
              /\ UNCHANGED <<vars, objectVars, hook, obj>>
        <3>1. 1 \in 1..MaxCalls
            OBVIOUS
        <3>2. QED
            BY <1>3, <3>1, Zenon DEF ArmFirstListener, RenewListener
    <2>2. \A x \in Calls : call'[x] = call[x] \/ (x[1] = t /\ call'[x] = Requested(t))
        <3>1. call' = call \/ call' = [call EXCEPT ![<<t, k>>] = Requested(t)]
            BY <2>1, Zenon DEF CreateCall
        <3>2. DOMAIN call = Calls /\ <<t, k>> \in Calls /\ <<t, k>>[1] = t
            OBVIOUS
        <3>3. QED
            BY <3>1, <3>2, Zenon
    <2>3. \A x \in Calls : call'[x] \in {"requested", "executing", "finishing"} => call'[x] = call[x]
        BY <2>2 DEF Requested
    <2>4. \A u \in Threads : Finished(u) => InProgress(u)' = {}
        BY <2>3 DEF Finished, InProgress
    <2>5. \A u \in Threads : server[u] = "shut" => \A x \in Calls : x[1] = u => call'[x] # "armed"
        BY <1>2, <2>2 DEF Requested
    <2>6. QED
        BY <1>1, <2>1, <2>4, <2>5 DEF CallStep, StageGoto, vars, workerVars, objectVars
<1>4. ASSUME NEW x \in Calls, RequestTag(t, x) \/ ExecuteAndFinish(t, x) \/ DeleteTag(t, x)
      PROVE  CallStep
    <2>1. /\ UNCHANGED <<m_cq, m_server, queue, server, hook, obj, rs, object, m_stopRequested, tpc>>
          /\ \A u \in Threads : u # t => stage'[u] = stage[u]
        BY <1>4 DEF RequestTag, ExecuteAndFinish, DeleteTag, StageGoto, vars, workerVars, objectVars
    <2>2. \A y \in Calls : /\ call'[y] = "armed" => call[y] = "armed"
                           /\ call'[y] \in {"requested", "executing", "finishing"} =>
                                 call[y] \in {"requested", "executing", "finishing"}
        BY <1>4 DEF RequestTag, ExecuteAndFinish, DeleteTag
    <2>3. \A u \in Threads : Finished(u) => InProgress(u)' = {}
        BY <2>2 DEF Finished, InProgress
    <2>4. stage'[t] = "renew" => x[1] = t /\ call'[x] = "executing"
        BY <1>4 DEF RequestTag, ExecuteAndFinish, DeleteTag, StageGoto, InRunAt
    <2>5. QED
        BY <1>1, <1>2, <2>1, <2>2, <2>3, <2>4 DEF CallStep
<1>5. CASE LeaveLoop(t)
    <2>1. UNCHANGED grpcVars /\ RunReturns(t)
        BY <1>5 DEF LeaveLoop
    <2>2. \A u \in Threads : InProgress(u)' = InProgress(u)
        BY <2>1 DEF InProgress, grpcVars
    <2>3. QED
        BY <1>1, <1>2, <2>1, <2>2 DEF CallStep, RunReturns, ThreadGoto, grpcVars, objectVars, workerVars,
                                      Finished
<1>6. QED
    BY <1>3, <1>4, <1>5 DEF RunStep

\* A request arrives at a server that listens only.
LEMMA ClientStepIsCallStep ==
    ASSUME TypeOK, GrpcTypeOK, CrashInv, Exists, NEW x \in Calls, RequestArrives(x) \/ FinishCompletes(x)
    PROVE  CallStep
<1> USE DEF GrpcTypeOK, Calls
<1>1. UNCHANGED <<m_cq, m_server, queue, server, hook, obj, rs, object, m_stopRequested, tpc, stage>>
    BY DEF RequestArrives, FinishCompletes, vars, workerVars, objectVars
<1>2. \A u \in Threads : /\ server[u] = "shut" => \A y \in Calls : y[1] = u => call[y] # "armed"
                         /\ tpc[u] = "run" /\ stage[u] = "renew" =>
                               \E y \in Calls : y[1] = u /\ call[y] = "executing"
    BY DEF CrashInv, CallsFit
<1>3. \A y \in Calls : /\ call'[y] = "armed" => call[y] = "armed"
                       /\ call[y] = "executing" => call'[y] = "executing"
                       /\ call'[y] \in {"requested", "executing", "finishing"} =>
                             call[y] \in {"armed", "requested", "executing", "finishing"}
    BY DEF RequestArrives, FinishCompletes
<1>4. \A u \in Threads : Finished(u) => InProgress(u)' = {}
    BY <1>2, <1>3 DEF Finished, InProgress
<1>5. \A u \in Threads : tpc'[u] = "run" /\ stage'[u] = "renew" =>
                             \E y \in Calls : y[1] = u /\ call'[y] = "executing"
    BY <1>1, <1>2, <1>3
<1>6. \A u \in Threads : server[u] = "shut" => \A y \in Calls : y[1] = u => call'[y] # "armed"
    BY <1>2, <1>3
<1>7. QED
    BY <1>1, <1>4, <1>5, <1>6 DEF CallStep

\* Steps of stopTriggered: its order is what keeps StopsInOrder.
LEMMA HookKeepsCrashInv ==
    ASSUME TypeOK, GrpcTypeOK, OneAttempt, CrashInv, NEW p \in Procs, HookStep(p), Exists,
           ~outlasted' => ~outlasted
    PROVE  CrashInv'
<1> USE GrpcAssumption DEF TypeOK, GrpcTypeOK
<1>1. /\ UNCHANGED <<m_cq, m_server, tpc, stage, object, m_stopRequested>>
      /\ rs[p] = "hook"
      /\ \A q \in Procs : q # p => rs'[q] = rs[q] /\ hook'[q] = hook[q] /\ obj'[q] = obj[q]
    BY DEF HookStep, HookReadsServer, HookReadsQueue, HookReads, HookShutsServer, HookWaits, HookShutsQueue,
           HookReturns, BaseHookReturns, StopTriggeredReturns, HookAt, HookGoto, vars, workerVars, objectVars
<1>2. /\ \A t \in Threads : AtWork(t) => /\ m_cq = t /\ m_server = t
                                         /\ queue[t] # "gone" /\ server[t] # "gone"
      /\ m_cq \in Threads => tpc[m_cq] # "unborn"
      /\ m_server \in Threads => tpc[m_server] # "unborn"
    BY DEF CrashInv, ObjectsBelong, AtWork
<1>3. hook[p] \in {"shutServer", "wait", "shutQueue"} => obj[p] \in Threads /\ tpc[obj[p]] # "unborn"
    BY DEF CrashInv, HookFits
<1> DEFINE Before == /\ \A q \in Procs : Stopping(q) => m_stopRequested
                     /\ \A t \in Threads : Live(t) /\ queue[t] = "shut" => m_stopRequested
                     /\ \A t \in Threads : AtWork(t) =>
                           /\ queue[t] = "shut" => Finished(t)
                           /\ \A q \in Procs : rs[q] = "hook" => InOrder(q, t)
           Objects == \A t \in Threads :
                          /\ queue'[t] = queue[t] \/ (queue[t] # "gone" /\ queue'[t] = "shut")
                          /\ server'[t] = server[t] \/ (server[t] # "gone" /\ server'[t] = "shut")
           Refused == \A x \in Calls : call'[x] = call[x] \/ (call[x] = "armed" /\ call'[x] = "refused")
           Born == \A t \in Threads : queue'[t] # queue[t] => tpc[t] # "unborn"
           Place == /\ rs'[p] # "hook" => hook'[p] = "server"
                    /\ hook'[p] \in {"shutServer", "wait", "shutQueue"} =>
                          obj'[p] \in Threads /\ tpc[obj'[p]] # "unborn"
           Shut == \A t \in Threads : server'[t] = "shut" /\ server[t] # "shut" =>
                       \A x \in Calls : x[1] = t => call'[x] # "armed"
           Order == Before => \A t \in Threads : AtWork(t) =>
                       /\ queue'[t] = "shut" => queue[t] = "shut" \/ Finished(t)
                       /\ rs'[p] = "hook" =>
                             /\ hook'[p] \in {"shutServer", "wait", "shutQueue"} => obj'[p] = t
                             /\ hook'[p] = "wait" => server'[t] = "shut"
                             /\ hook'[p] \in {"queue", "shutQueue", "return"} => Finished(t)
           Flag == Before => \A t \in Threads : Live(t) /\ queue'[t] = "shut" => m_stopRequested
<1>4. Objects /\ Refused /\ Born /\ Place /\ Shut /\ Order /\ Flag
    <2>1. CASE HookReadsServer(p)
        <3>1. /\ UNCHANGED <<queue, server, call, rs>> /\ hook[p] = "server"
              /\ obj'[p] = m_server
              /\ hook'[p] = (IF m_server = NoObject THEN "queue" ELSE "shutServer")
            BY <2>1 DEF HookReadsServer, HookReads, HookGoto, HookAt, vars, objectVars
        <3>2. QED
            BY <1>1, <1>2, <3>1
    <2>2. CASE HookReadsQueue(p)
        <3>1. /\ UNCHANGED <<queue, server, call, rs>> /\ hook[p] = "queue"
              /\ obj'[p] = m_cq
              /\ hook'[p] = (IF m_cq = NoObject THEN "return" ELSE "shutQueue")
            BY <2>2 DEF HookReadsQueue, HookReads, HookGoto, HookAt, vars, objectVars
        <3>2. Order
            BY <1>1, <1>2, <3>1 DEF InOrder
        <3>3. QED
            BY <1>1, <1>2, <3>1, <3>2
    <2>3. CASE HookShutsServer(p)
        <3>1. /\ UNCHANGED <<queue, obj, rs>> /\ hook[p] = "shutServer" /\ hook'[p] = "wait"
              /\ IF server[obj[p]] = "gone"
                 THEN UNCHANGED <<server, call>>
                 ELSE /\ server' = [server EXCEPT ![obj[p]] = "shut"]
                      /\ call' = [x \in Calls |-> IF x[1] = obj[p] /\ call[x] = "armed"
                                                  THEN "refused" ELSE call[x]]
            BY <2>3 DEF HookShutsServer, HookGoto, HookAt, vars
        <3>2. Objects /\ Refused /\ Born /\ Place /\ Flag
            BY <1>1, <1>3, <3>1
        <3>3. Shut
            BY <1>3, <3>1
        <3>4. Order
            BY <1>1, <1>2, <1>3, <3>1 DEF InOrder
        <3>5. QED
            BY <3>2, <3>3, <3>4
    <2>4. CASE HookWaits(p)
        <3>1. /\ UNCHANGED <<queue, server, call, obj, rs>> /\ hook[p] = "wait" /\ hook'[p] = "queue"
              /\ server[obj[p]] # "gone" => InProgress(obj[p]) = {}
            BY <2>4 DEF HookWaits, HookGoto, HookAt, vars, objectVars
        <3>2. Order
            BY <1>1, <1>2, <3>1 DEF InOrder, Finished
        <3>3. QED
            BY <1>1, <3>1, <3>2
    <2>5. CASE HookShutsQueue(p)
        <3>1. /\ UNCHANGED <<server, call, obj, rs>> /\ hook[p] = "shutQueue" /\ hook'[p] = "return"
              /\ IF queue[obj[p]] = "gone" THEN UNCHANGED queue ELSE queue' = [queue EXCEPT ![obj[p]] = "shut"]
            BY <2>5 DEF HookShutsQueue, HookGoto, HookAt, vars
        <3>2. Order
            BY <1>1, <1>2, <1>3, <3>1 DEF InOrder
        <3>3. Flag
            BY <1>1, <1>3, <3>1 DEF Stopping
        <3>4. QED
            BY <1>1, <1>3, <3>1, <3>2, <3>3
    <2>6. CASE HookReturns(p) \/ BaseHookReturns(p)
        <3>1. UNCHANGED <<queue, server, call>> /\ rs'[p] = "off" /\ hook'[p] = "server"
            BY <2>6 DEF HookReturns, BaseHookReturns, StopTriggeredReturns, HookGoto, objectVars
        <3>2. QED
            BY <1>1, <3>1
    <2>7. QED
        BY <2>1, <2>2, <2>3, <2>4, <2>5, <2>6 DEF HookStep
<1>5. ObjectsBelong'
    BY <1>1, <1>4 DEF CrashInv, ObjectsBelong, Exists
<1>6. HookFits'
    BY <1>1, <1>4 DEF CrashInv, HookFits, Exists
<1>7. CallsFit'
    <2>1. \A t \in Threads : server'[t] = "shut" => \A x \in Calls : x[1] = t => call'[x] # "armed"
        BY <1>4 DEF CrashInv, CallsFit
    <2>2. \A x \in Calls : call[x] = "executing" => call'[x] = "executing"
        BY <1>4
    <2>3. QED
        BY <1>1, <2>1, <2>2 DEF CrashInv, CallsFit, Exists
<1>8. StopsInOrder'
    <2>1. SUFFICES ASSUME ~outlasted'
                   PROVE  StopsInOrder'
        BY DEF StopsInOrder
    <2>2. Before
        BY <2>1 DEF CrashInv, StopsInOrder
    <2>3. \A t \in Threads : Finished(t) => Finished(t)'
        <3>1. \A t \in Threads : InProgress(t) = {} => InProgress(t)' = {}
            BY <1>4 DEF InProgress
        <3>2. QED
            BY <1>4, <3>1 DEF Finished
    <2>4. \A q \in Procs : Stopping(q)' => m_stopRequested'
        BY <1>1, <2>2 DEF Stopping
    <2>5. \A t \in Threads : Live(t)' /\ queue'[t] = "shut" => m_stopRequested'
        BY <1>1, <1>4, <2>2 DEF Live
    <2>6. \A t \in Threads : AtWork(t)' => (queue'[t] = "shut" => Finished(t)')
        BY <1>1, <1>4, <2>2, <2>3 DEF AtWork
    <2>7. ASSUME NEW t \in Threads, AtWork(t)', NEW q \in Procs, rs'[q] = "hook"
          PROVE  InOrder(q, t)'
        <3>1. AtWork(t)
            BY <1>1, <2>7 DEF AtWork
        <3>2. CASE q = p
            BY <1>4, <2>2, <2>3, <2>7, <3>1, <3>2 DEF InOrder
        <3>3. CASE q # p
            <4>1. InOrder(q, t) /\ hook'[q] = hook[q] /\ obj'[q] = obj[q]
                BY <1>1, <2>2, <2>7, <3>1, <3>3
            <4>2. server[t] = "shut" => server'[t] = "shut"
                BY <1>4
            <4>3. QED
                BY <2>3, <4>1, <4>2 DEF InOrder
        <3>4. QED
            BY <3>2, <3>3
    <2>8. QED
        BY <2>4, <2>5, <2>6, <2>7 DEF StopsInOrder
<1>9. QED
    BY <1>5, <1>6, <1>7, <1>8 DEF CrashInv

\* The invariant is inductive.
LEMMA CrashInvKept ==
    ASSUME TypeOK, GrpcTypeOK, OneAttempt, StoppedIffIdle, CrashInv, [GrpcNext]_allVars
    PROVE  CrashInv'
<1>1. CASE GrpcTerminated \/ UNCHANGED allVars
    <2>1. /\ UNCHANGED <<m_cq, m_server, queue, server, call, stage, hook, obj, outlasted>>
          /\ UNCHANGED <<tpc, rs, object, m_stopRequested>>
        BY <1>1, Zenon DEF GrpcTerminated, allVars, systemVars, grpcVars, objectVars, vars, workerVars
    <2>2. ObjectsBelong' /\ HookFits' /\ CallsFit' /\ StopsInOrder'
        BY <2>1 DEF CrashInv, ObjectsBelong, HookFits, CallsFit, StopsInOrder, Exists, Stopping, Live,
                    AtWork, Finished, InOrder, InProgress
    <2>3. QED
        BY <2>2 DEF CrashInv
<1>2. CASE ~(GrpcTerminated \/ UNCHANGED allVars)
    <2>1. Remembers /\ (~outlasted' => ~outlasted)
        BY <1>2, Zenon DEF GrpcNext, Remembers, StartBegins
    <2>2. CASE BasePart
        BY <2>1, <2>2, BaseKeepsCrashInv
    <2>3. ASSUME NEW t \in Threads, PreRunStep(t) \/ RunStep(t)
          PROVE  CrashInv'
        BY <2>1, <2>3, PreRunKeepsCrashInv, RunStepIsCallStep, CallStepKeepsCrashInv
    <2>4. CASE ~Exists'
        BY <2>4 DEF CrashInv, ObjectsBelong, HookFits, CallsFit, StopsInOrder
    <2>5. ASSUME NEW x \in Calls, RequestArrives(x) \/ FinishCompletes(x), Exists'
          PROVE  CrashInv'
        <3>1. Exists
            BY <2>5 DEF RequestArrives, FinishCompletes, Exists, vars
        <3>2. QED
            BY <2>1, <2>5, <3>1, ClientStepIsCallStep, CallStepKeepsCrashInv
    <2>6. ASSUME NEW p \in Procs, HookStep(p), Exists'
          PROVE  CrashInv'
        <3>1. Exists
            BY <2>6 DEF HookStep, HookReadsServer, HookReadsQueue, HookShutsServer, HookWaits,
                        HookShutsQueue, HookReturns, BaseHookReturns, StopTriggeredReturns, HookAt, Exists
        <3>2. QED
            BY <2>1, <2>6, <3>1, HookKeepsCrashInv
    <2>7. ASSUME NEW c \in Callers, DestroyMembers(c)
          PROVE  ~Exists'
        BY <2>7 DEF DestroyMembers, Dismantle, Exists
    <2>8. QED
        BY <1>2, <2>2, <2>3, <2>4, <2>5, <2>6, <2>7, Zenon DEF GrpcNext
<1>3. QED
    BY <1>1, <1>2

\* A step of a process that has not crashed crashes it only as explained.
LEMMA CrashStep ==
    ASSUME TypeOK, GrpcTypeOK, CrashInv, Alive, GrpcNext, ~GrpcTerminated
    PROVE  CrashesExplained'
<1> USE GrpcAssumption DEF TypeOK, GrpcTypeOK, Calls
<1>1. CASE crash' = "no"
    BY <1>1 DEF CrashesExplained
<1>2. ASSUME NEW t \in Threads, RunStep(t), crash' # "no"
      PROVE  CrashesExplained'
    <2>1. ASSUME NEW x \in Calls
          PROVE  ~RequestTag(t, x) /\ ~DeleteTag(t, x)
        BY <1>2 DEF RequestTag, DeleteTag, Alive
    <2>2. ~LeaveLoop(t)
        BY <1>2 DEF LeaveLoop, Alive, grpcVars
    <2>3. /\ tpc[t] = "run" /\ Exists /\ queue[t] # "open" /\ m_stopRequested' = m_stopRequested
          /\ \/ crash' = "firstListener"
             \/ /\ crash' = "proceed"
                /\ stage[t] = "renew" \/ \E x \in Calls : x[1] = t /\ call[x] = "executing"
        BY <1>2, <2>1, <2>2 DEF RunStep, ArmFirstListener, RenewListener, ExecuteAndFinish, CreateCall,
                                InRunAt, ThreadAt, Alive, vars, workerVars
    <2>4. queue[t] = "shut"
        BY <2>3 DEF CrashInv, ObjectsBelong
    <2>5. ~outlasted => m_stopRequested /\ InProgress(t) = {}
        BY <2>3, <2>4 DEF CrashInv, StopsInOrder, Live, LiveLocations, AtWork, Finished
    <2>6. crash' = "proceed" => \E x \in Calls : x[1] = t /\ call[x] = "executing"
        BY <2>3 DEF CrashInv, CallsFit
    <2>7. ~outlasted => crash' # "proceed"
        BY <2>5, <2>6 DEF InProgress
    <2>8. ~outlasted' => ~outlasted
        BY Zenon DEF GrpcNext
    <2>9. QED
        BY <2>3, <2>5, <2>7, <2>8 DEF CrashesExplained
<1>3. ASSUME NEW p \in Procs, HookStep(p), crash' # "no"
      PROVE  CrashesExplained'
    <2>1. ~HookReadsServer(p) /\ ~HookReadsQueue(p) /\ ~HookReturns(p) /\ ~BaseHookReturns(p)
        BY <1>3 DEF HookReadsServer, HookReadsQueue, HookReads, HookReturns, BaseHookReturns, Alive, grpcVars
    <2>2. /\ crash' = "destroyed" /\ rs[p] = "hook" /\ Exists
          /\ hook[p] \in {"shutServer", "wait", "shutQueue"}
          /\ server[obj[p]] = "gone" \/ queue[obj[p]] = "gone"
          /\ UNCHANGED <<rs, obj, tpc, m_stopRequested>>
        BY <1>3, <2>1 DEF HookStep, HookShutsServer, HookWaits, HookShutsQueue, HookAt, Alive, vars, workerVars
    <2>3. obj[p] \in Threads
        BY <2>2 DEF CrashInv, HookFits
    <2>4. tpc[obj[p]] \in {"notifyStopped", "exited", "joined"}
        BY <2>2, <2>3 DEF CrashInv, ObjectsBelong
    <2>5. ~outlasted => m_stopRequested
        BY <2>2 DEF CrashInv, StopsInOrder, Stopping
    <2>6. ~outlasted' => ~outlasted
        BY Zenon DEF GrpcNext
    <2>7. QED
        BY <2>2, <2>3, <2>4, <2>5, <2>6 DEF CrashesExplained
<1>4. ASSUME crash' # "no"
      PROVE  \/ \E t \in Threads : RunStep(t)
             \/ \E p \in Procs : HookStep(p)
    <2>1. ~BasePart /\ \A c \in Callers : ~DestroyMembers(c)
        BY <1>4 DEF BasePart, DestroyMembers, grpcVars, Alive
    <2>2. \A t \in Threads : ~PreRunStep(t)
        BY <1>4 DEF PreRunStep, AddCompletionQueue, BuildAndStart, BuildReturnsNull, BuildThrows, StorePort,
                    grpcVars, Alive
    <2>3. \A x \in Calls : ~RequestArrives(x) /\ ~FinishCompletes(x)
        BY <1>4 DEF RequestArrives, FinishCompletes, Alive
    <2>4. QED
        BY <2>1, <2>2, <2>3, Zenon DEF GrpcNext
<1>5. QED
    BY <1>1, <1>2, <1>3, <1>4

\* "Order matters": for any number of callers, sessions and RPCs, a stop makes the
\* worker crash in the two explained ways only, and shuts the queue down under an RPC
\* in progress only after it has outlasted the session it was to stop.
THEOREM CrashesAreExplained == GrpcSpec => []CrashesExplained
<1>1. GrpcInit => CrashInv /\ CrashesExplained
    BY InitEstablishesCrashInv DEF GrpcInit, CrashesExplained
<1>2. ASSUME TypeOK, GrpcTypeOK, OneAttempt, StoppedIffIdle, CrashInv, CrashesExplained,
             [GrpcNext]_allVars
      PROVE  CrashInv' /\ CrashesExplained'
    <2>1. CrashInv'
        BY <1>2, CrashInvKept
    <2>2. CASE GrpcTerminated \/ UNCHANGED allVars
        <3>1. UNCHANGED <<crash, outlasted, m_stopRequested, rs, obj, tpc>>
            BY <2>2, Zenon DEF GrpcTerminated, allVars, systemVars, grpcVars, vars, workerVars
        <3>2. QED
            BY <1>2, <2>1, <3>1 DEF CrashesExplained
    <2>3. CASE GrpcNext /\ ~GrpcTerminated
        <3>1. Alive
            BY <2>3, Zenon DEF GrpcNext
        <3>2. QED
            BY <1>2, <2>1, <2>3, <3>1, CrashStep
    <2>4. QED
        BY <1>2, <2>2, <2>3
<1>3. GrpcSpec => []TypeOK /\ [](OneAttempt /\ StoppedIffIdle)
    BY GrpcIsBaseWorker, TypeCorrect, Exclusive, PTL DEF ImplementsBaseWorker
<1>4. QED
    BY <1>1, <1>2, <1>3, GrpcTypeCorrect, PTL DEF GrpcSpec
=============================================================================
