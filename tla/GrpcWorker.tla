----------------------------- MODULE GrpcWorker -----------------------------
(***************************************************************************)
(* cGenericGrpcWorker (cGenericGrpcWorker.h) on top of cBaseWorker_V2.     *)
(* preRun builds a server and a completion queue, which are named by the   *)
(* thread that built them; run() polls the queue and drives the CallData   *)
(* objects; stopTriggered is executed by whoever requests a stop.          *)
(*                                                                         *)
(* gRPC is external and does what its interface promises: a shut down      *)
(* server refuses the requests that wait for a client and returns from     *)
(* Shutdown when all RPCs in progress are finished, and a queue that was   *)
(* shut down reports so once it is drained and must not be given any more  *)
(* work.  Giving it some, or using a destroyed object, is a crash, after   *)
(* which nothing happens.  A poll that times out only updates the          *)
(* heartbeat and is no step.                                               *)
(***************************************************************************)
EXTENDS BaseWorker, Naturals

CONSTANTS NoObject,    \* the null pointer
          MaxCalls     \* bound: the CallData objects of a session

ASSUME GrpcAssumption ==
    /\ Helpers = {}
    /\ NoObject \notin Threads
    /\ MaxCalls \in Nat \ {0}

\* A CallData: the session it belongs to, and its number there.
Calls == Threads \X (1..MaxCalls)

VARIABLES m_cq, m_server,   \* the thread that built what the pointer points to
          m_boundPort,      \* the session whose port is stored
          queue, server,    \* the state of the objects, by session
          call,             \* the state of a CallData
          stage,            \* where in preRun or run a worker thread is
          hook, obj,        \* where in stopTriggered a process is, and on which object
          crash,            \* what the process has died of
          outlasted         \* history: a start began while an earlier stop was in its hook

objectVars == <<m_cq, m_server, m_boundPort, queue, server>>
grpcVars == <<objectVars, call, stage, hook, obj, crash>>
systemVars == <<vars, grpcVars>>
allVars == <<systemVars, outlasted>>

\* armed: waits for a client.  requested, answered, refused: its tag is in the
\* queue, for a request, for the end of Finish, for a server that shut down.
CallStates == {"none", "armed", "requested", "refused", "executing", "finishing", "answered",
               "deleted"}

GrpcTypeOK ==
    /\ m_cq \in Threads \cup {NoObject}
    /\ m_server \in Threads \cup {NoObject}
    /\ m_boundPort \in Threads \cup {NoObject}
    /\ queue \in [Threads -> {"none", "open", "shut", "gone"}]
    /\ server \in [Threads -> {"none", "listening", "shut", "gone"}]
    /\ call \in [Calls -> CallStates]
    /\ stage \in [Threads -> {"queue", "build", "store", "listen", "next", "renew", "execute"}]
    /\ hook \in [Procs -> {"server", "shutServer", "wait", "queue", "shutQueue", "return"}]
    /\ obj \in [Procs -> Threads \cup {NoObject}]
    /\ crash \in {"no", "firstListener", "proceed", "destroyed"}
    /\ outlasted \in BOOLEAN

GrpcInit ==
    /\ Init
    /\ m_cq = NoObject /\ m_server = NoObject /\ m_boundPort = NoObject
    /\ queue = [t \in Threads |-> "none"]
    /\ server = [t \in Threads |-> "none"]
    /\ call = [x \in Calls |-> "none"]
    /\ stage = [t \in Threads |-> "queue"]
    /\ hook = [p \in Procs |-> "server"]
    /\ obj = [p \in Procs |-> NoObject]
    /\ crash = "no"
    /\ outlasted = FALSE

-----------------------------------------------------------------------------
\* The derived part of the object exists; afterwards its members are gone and
\* what a hook still does is undefined and not followed.
Exists == object = "alive"

Alive == crash = "no"

InPreRun(t, loc) == ThreadAt(t, "preRun") /\ stage[t] = loc /\ Exists
InRunAt(t, loc) == ThreadAt(t, "run") /\ stage[t] = loc /\ Exists
HookAt(p, loc) == rs[p] = "hook" /\ hook[p] = loc /\ Exists

StageGoto(t, loc) == stage' = [stage EXCEPT ![t] = loc]
HookGoto(p, loc) == hook' = [hook EXCEPT ![p] = loc]

\* The state of the objects when the pointer to old is replaced: f' for f.
Destroyed(f, old) == [t \in Threads |-> IF t = old THEN "gone" ELSE f[t]]

\* The RPCs of session t that a client waits for.
InProgress(t) == {x \in Calls : x[1] = t /\ call[x] \in {"requested", "executing", "finishing"}}

\* The objects of session t that have an operation or a tag in the queue.
Outstanding(t) == {x \in Calls : x[1] = t /\ call[x] \notin {"none", "deleted"}}

-----------------------------------------------------------------------------
(* preRun                                                                  *)

AddCompletionQueue(t) ==
    /\ InPreRun(t, "queue")
    /\ m_cq' = t
    /\ queue' = [Destroyed(queue, m_cq) EXCEPT ![t] = "open"]
    /\ StageGoto(t, "build")
    /\ UNCHANGED <<vars, m_server, m_boundPort, server, call, hook, obj, crash>>

BuildAndStart(t) ==
    /\ InPreRun(t, "build")
    /\ m_server' = t
    /\ server' = [Destroyed(server, m_server) EXCEPT ![t] = "listening"]
    /\ StageGoto(t, "store")
    /\ UNCHANGED <<vars, m_cq, m_boundPort, queue, call, hook, obj, crash>>

\* BuildAndStart returned a null pointer, which replaces the last server, too.
BuildReturnsNull(t) ==
    /\ InPreRun(t, "build")
    /\ m_server' = NoObject
    /\ server' = Destroyed(server, m_server)
    /\ PreRunReturns(t, FALSE)
    /\ UNCHANGED <<m_cq, m_boundPort, queue, call, stage, hook, obj, crash>>

\* One of the calls of gRPC throws.
BuildThrows(t) ==
    /\ InPreRun(t, "queue") \/ InPreRun(t, "build")
    /\ PreRunReturns(t, FALSE)
    /\ UNCHANGED grpcVars

StorePort(t) ==
    /\ InPreRun(t, "store")
    /\ m_boundPort' = t
    /\ PreRunReturns(t, TRUE)
    /\ StageGoto(t, "listen")
    /\ UNCHANGED <<m_cq, m_server, queue, server, call, hook, obj, crash>>

PreRunStep(t) ==
    \/ AddCompletionQueue(t) \/ BuildAndStart(t) \/ BuildReturnsNull(t) \/ BuildThrows(t)
    \/ StorePort(t)

-----------------------------------------------------------------------------
(* run and CallData::Proceed                                               *)

\* The state of a CallData whose constructor has requested the next RPC.
Requested(t) == IF server[t] = "listening" THEN "armed" ELSE "refused"

\* The constructor of CallData k, which calls Proceed (CREATE).
CreateCall(t, k, cause) ==
    IF queue[t] = "open"
    THEN call' = [call EXCEPT ![<<t, k>>] = Requested(t)] /\ UNCHANGED crash
    ELSE crash' = cause /\ UNCHANGED call

ArmFirstListener(t) ==
    /\ InRunAt(t, "listen")
    /\ CreateCall(t, 1, "firstListener")
    /\ StageGoto(t, "next")
    /\ UNCHANGED <<vars, objectVars, hook, obj>>

\* Mutant: a request that meets a stop is dropped.
RequestTagDropped(t, x) ==
    /\ InRunAt(t, "next")
    /\ x[1] = t /\ call[x] = "requested"
    /\ call' = [call EXCEPT ![x] = IF m_stopRequested THEN "deleted" ELSE "executing"]
    /\ StageGoto(t, IF m_stopRequested THEN "next" ELSE "renew")
    /\ UNCHANGED <<vars, objectVars, hook, obj, crash>>

\* AsyncNext delivers a request: Proceed (PROCESS) asks continueRunning() ...
RequestTag(t, x) ==
    /\ InRunAt(t, "next")
    /\ x[1] = t /\ call[x] = "requested"
    /\ call' = [call EXCEPT ![x] = "executing"]
    /\ StageGoto(t, IF m_stopRequested THEN "execute" ELSE "renew")
    /\ UNCHANGED <<vars, objectVars, hook, obj, crash>>

\* ... arms the next listener, number k ...
RenewListener(t, k) ==
    /\ InRunAt(t, "renew")
    /\ call[<<t, k>>] = "none" /\ \A i \in 1..(k - 1) : call[<<t, i>>] # "none"
    /\ CreateCall(t, k, "proceed")
    /\ StageGoto(t, "execute")
    /\ UNCHANGED <<vars, objectVars, hook, obj>>

\* ... and executes the RPC, which may throw: Finish is called in any case.
ExecuteAndFinish(t, x) ==
    /\ InRunAt(t, "execute")
    /\ x[1] = t /\ call[x] = "executing"
    /\ IF queue[t] = "open"
       THEN call' = [call EXCEPT ![x] = "finishing"] /\ UNCHANGED crash
       ELSE crash' = "proceed" /\ UNCHANGED call
    /\ StageGoto(t, "next")
    /\ UNCHANGED <<vars, objectVars, hook, obj>>

\* A tag that is not ok, or Proceed (FINISH).
DeleteTag(t, x) ==
    /\ InRunAt(t, "next")
    /\ x[1] = t /\ call[x] \in {"refused", "answered"}
    /\ call' = [call EXCEPT ![x] = "deleted"]
    /\ UNCHANGED <<vars, objectVars, stage, hook, obj, crash>>

\* Mutant: the loop ends with the stop request.
LeaveOnStop(t) ==
    /\ InRunAt(t, "next")
    /\ m_stopRequested
    /\ RunReturns(t)
    /\ UNCHANGED grpcVars

\* AsyncNext returns SHUTDOWN.
LeaveLoop(t) ==
    /\ InRunAt(t, "next")
    /\ queue[t] = "shut" /\ Outstanding(t) = {}
    /\ RunReturns(t)
    /\ UNCHANGED grpcVars

RunStep(t) ==
    \/ ArmFirstListener(t) \/ LeaveLoop(t)
    \/ \E x \in Calls : RequestTag(t, x) \/ ExecuteAndFinish(t, x) \/ DeleteTag(t, x)
    \/ \E k \in 1..MaxCalls : RenewListener(t, k)

\* A client's request meets an armed listener.
RequestArrives(x) ==
    /\ call[x] = "armed" /\ x[2] < MaxCalls
    /\ call' = [call EXCEPT ![x] = "requested"]
    /\ UNCHANGED <<vars, objectVars, stage, hook, obj, crash>>

\* The status has been sent, or the client is gone.
FinishCompletes(x) ==
    /\ call[x] = "finishing"
    /\ call' = [call EXCEPT ![x] = "answered"]
    /\ UNCHANGED <<vars, objectVars, stage, hook, obj, crash>>

-----------------------------------------------------------------------------
(* stopTriggered                                                           *)

\* Reads a pointer; the step at loc uses it, unless it is null.
HookReads(p, pointer, loc, otherwise) ==
    /\ obj' = [obj EXCEPT ![p] = pointer]
    /\ HookGoto(p, IF pointer = NoObject THEN otherwise ELSE loc)
    /\ UNCHANGED <<vars, objectVars, call, stage, crash>>

HookReadsServer(p) == HookAt(p, "server") /\ HookReads(p, m_server, "shutServer", "queue")

\* m_server->Shutdown() ...
HookShutsServer(p) ==
    /\ HookAt(p, "shutServer")
    /\ IF server[obj[p]] = "gone"
       THEN crash' = "destroyed" /\ UNCHANGED <<server, call>>
       ELSE /\ server' = [server EXCEPT ![obj[p]] = "shut"]
            /\ call' = [x \in Calls |-> IF x[1] = obj[p] /\ call[x] = "armed" THEN "refused" ELSE call[x]]
            /\ UNCHANGED crash
    /\ HookGoto(p, "wait")
    /\ UNCHANGED <<vars, m_cq, m_server, m_boundPort, queue, stage, obj>>

\* Mutant: the server is given a deadline that has passed.
HookWaitsNot(p) ==
    /\ HookAt(p, "wait")
    /\ HookGoto(p, "queue")
    /\ UNCHANGED <<vars, objectVars, call, stage, obj, crash>>

\* ... returns when all RPCs are finished.
HookWaits(p) ==
    /\ HookAt(p, "wait")
    /\ IF server[obj[p]] = "gone"
       THEN crash' = "destroyed"
       ELSE InProgress(obj[p]) = {} /\ UNCHANGED crash
    /\ HookGoto(p, "queue")
    /\ UNCHANGED <<vars, objectVars, call, stage, obj>>

HookReadsQueue(p) == HookAt(p, "queue") /\ HookReads(p, m_cq, "shutQueue", "return")

\* Mutant: the queue is left as it is.
HookLeavesQueue(p) ==
    /\ HookAt(p, "shutQueue")
    /\ HookGoto(p, "return")
    /\ UNCHANGED <<vars, objectVars, call, stage, obj, crash>>

HookShutsQueue(p) ==
    /\ HookAt(p, "shutQueue")
    /\ IF queue[obj[p]] = "gone"
       THEN crash' = "destroyed" /\ UNCHANGED queue
       ELSE queue' = [queue EXCEPT ![obj[p]] = "shut"] /\ UNCHANGED crash
    /\ HookGoto(p, "return")
    /\ UNCHANGED <<vars, m_cq, m_server, m_boundPort, server, call, stage, obj>>

HookReturns(p) ==
    /\ HookAt(p, "return")
    /\ StopTriggeredReturns(p)
    /\ HookGoto(p, "server")
    /\ obj' = [obj EXCEPT ![p] = NoObject]
    /\ UNCHANGED <<objectVars, call, stage, crash>>

\* In the base destructor the hook is the base class's own, which is empty.
BaseHookReturns(p) ==
    /\ ~Exists
    /\ StopTriggeredReturns(p)
    /\ UNCHANGED grpcVars

HookStep(p) ==
    \/ HookReadsServer(p) \/ HookShutsServer(p) \/ HookWaits(p)
    \/ HookReadsQueue(p) \/ HookShutsQueue(p) \/ HookReturns(p) \/ BaseHookReturns(p)

-----------------------------------------------------------------------------
\* The members go, the server before the queue, and the base destructor follows.
DestroyMembers(c) ==
    /\ Dismantle(c)
    /\ server' = Destroyed(server, m_server) /\ m_server' = NoObject
    /\ queue' = Destroyed(queue, m_cq) /\ m_cq' = NoObject
    /\ UNCHANGED <<m_boundPort, call, stage, hook, obj, crash>>

\* The steps of the base class that the worker does not refine.
BasePart ==
    /\ \/ \E c \in Callers, o \in Operations : Begin(c, o)
       \/ \E c \in Callers : pc[c] # "dismantle" /\ CallerStep(c)
       \/ \E p \in Procs : RequestStopStep(p)
       \/ \E t \in Threads : RunnerStep(t)
    /\ UNCHANGED grpcVars

GrpcTerminated == (~Exists \/ ~Alive) /\ UNCHANGED allVars

\* A stop that has found the worker at work and is not over.
Stopping(p) == rs[p] \in {"notifyHook", "hook"}

GrpcNext ==
    \/ /\ Alive
       /\ \/ BasePart
          \/ \E t \in Threads : PreRunStep(t) \/ RunStep(t)
          \/ \E x \in Calls : RequestArrives(x) \/ FinishCompletes(x)
          \/ \E p \in Procs : HookStep(p)
          \/ \E c \in Callers : DestroyMembers(c)
       /\ outlasted' = (outlasted \/ (m_state = "Stopped" /\ m_state' = "Starting"
                                      /\ \E p \in Procs : Stopping(p)))
    \/ GrpcTerminated

GrpcSpec == GrpcInit /\ [][GrpcNext]_allVars

\* Threads are scheduled fairly, timeouts expire, OnExecuteRpc returns, and Finish
\* completes (a client that is gone does not hold it up).  No client need ever
\* send a request.
GrpcFairness ==
    /\ \A c \in Callers :
          /\ WF_systemVars(Alive /\ ((pc[c] # "dismantle" /\ CallerStep(c) /\ UNCHANGED grpcVars)
                                  \/ DestroyMembers(c)))
          /\ SF_systemVars(Alive /\ (WaitForStartTimesOut(c) \/ WaitForStoppedTimesOut(c)) /\ UNCHANGED grpcVars)
    /\ \A p \in Procs : WF_systemVars(Alive /\ ((RequestStopStep(p) /\ UNCHANGED grpcVars) \/ HookStep(p)))
    /\ \A t \in Threads :
          /\ WF_systemVars(Alive /\ RunnerStep(t) /\ UNCHANGED grpcVars)
          /\ WF_systemVars(Alive /\ (PreRunStep(t) \/ RunStep(t)))
    /\ WF_systemVars(Alive /\ \E x \in Calls : FinishCompletes(x))

FairGrpcSpec == GrpcSpec /\ GrpcFairness

-----------------------------------------------------------------------------
\* "Order matters" (cGenericGrpcWorker.h:187): the queue is shut down only after the
\* server, whose Shutdown waits for the RPCs, so that neither the renewal of the
\* listener nor Finish ever meets a queue that takes no more work, however many stops
\* fall between the check of continueRunning() and what follows it.  Two crashes
\* remain.  A stop that comes after the check of the flag may shut the queue down
\* before run() has armed its first listener.  And a stop during a preRun may have
\* read a pointer to what the session before left behind (:190), just before
\* preRun replaces it; the objects of its own session it never meets destroyed.
\* Only if a stop outlasts the session it was to stop, and the worker is started
\* again meanwhile, may it shut down the queue of a session at work.
CrashesExplained ==
    /\ ~outlasted => crash # "proceed" /\ (crash # "no" => m_stopRequested)
    /\ crash = "destroyed" =>
        \E p \in Procs : /\ rs[p] = "hook" /\ obj[p] \in Threads
                         /\ tpc[obj[p]] \in {"notifyStopped", "exited", "joined"}

\* A completion queue is "fully drained before it is destroyed" (:48-49), and no
\* CallData is leaked (:44-45): when run() is over, or the queue is replaced by
\* the next start or by the destructor after it, every CallData has been deleted.
DrainedBeforeGone ==
    \A t \in Threads :
        tpc[t] \in {"setStopped", "notifyStopped", "exited", "joined"} => Outstanding(t) = {}

\* "No RPC is ever silently dropped" (:45): a request that has met a listener is
\* answered, whatever stop overtakes it, unless the worker is destroyed under it
\* or the process dies.
EveryRpcIsAnswered ==
    \A x \in Calls : call[x] = "requested" ~> call[x] = "answered" \/ ~Exists \/ ~Alive

\* "Cooperative stop requests are honoured" (:43): a worker asked to stop stops,
\* with RPCs in progress and without any, unless it is destroyed first or the
\* process dies.
GrpcStops == m_state = "Stopping" ~> m_state = "Stopped" \/ ~Exists \/ ~Alive

\* The worker is a cBaseWorker_V2: everything it does is what BaseWorker allows,
\* so all results about BaseWorker hold for it.
ImplementsBaseWorker == Spec
=============================================================================
