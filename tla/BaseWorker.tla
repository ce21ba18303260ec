----------------------------- MODULE BaseWorker -----------------------------
(***************************************************************************)
(* cBaseWorker_V2 (cBaseWorker_V2.h): the life cycle of one background     *)
(* worker object, driven concurrently by the threads of the application    *)
(* (Callers), by the worker's own OS thread (Threads; every successful     *)
(* startThread creates a new one) and by threads the derived class owns    *)
(* (Helpers), which only ever call requestStop.                            *)
(*                                                                         *)
(* A step is one critical section of m_stateMutex, one notify_all, one     *)
(* call or return of a virtual hook, or one join.  No critical section     *)
(* blocks, and m_stopRequested, although atomic, is written only inside    *)
(* them, so nothing finer can be observed.  preRun, run and stopTriggered  *)
(* are left open here: the modules of the derived workers take these       *)
(* actions apart.                                                          *)
(***************************************************************************)
CONSTANTS Callers,     \* application threads that use the public interface
          Helpers,     \* threads of the derived class that call requestStop
          Threads,     \* identities of the OS threads std::thread can create
          NoThread,    \* the value of a std::thread that is not joinable
          Operations   \* the public operations that the callers perform

\* The public operations.  The suffix 0 marks a call with a zero timeout;
\* "destroy" is the derived destructor, whose body calls stopThread() as the
\* class comment asks, followed by the base destructor.
StartOps == {"startThread", "startThread0"}
StopOps == {"stopThread", "stopThread0", "stopThreadAndJoin", "stopThreadAndJoin0"}
AllOperations == StartOps \cup StopOps \cup {"requestStop", "destroy"}

ASSUME WorkerAssumption ==
    /\ NoThread \notin Threads
    /\ Callers \cap Threads = {}
    /\ Callers \cap Helpers = {}
    /\ Helpers \cap Threads = {}
    /\ Operations \subseteq AllOperations

Procs == Callers \cup Threads \cup Helpers

VARIABLES m_state,                   \* enm_State
          m_stopRequested,           \* the cooperative stop flag
          m_thread,                  \* the std::thread member
          m_lastUnhandledException,  \* is an exception recorded?
          object,    \* "alive", then "derivedGone", then "destroyed"
          op,        \* the operation a caller executes or executed last
          pc,        \* where in that operation the caller is
          held,      \* the std::thread moved into the caller's local variable
          res,       \* the operation's return value
          before,    \* the threads that existed when the operation began
          tpc,       \* where in threadRunner an OS thread is
          rs         \* where in requestStop a process is

workerVars == <<m_state, m_stopRequested, m_thread, m_lastUnhandledException>>
callVars == <<op, pc, held, res, before>>
vars == <<workerVars, object, callVars, tpc, rs>>

States == {"Starting", "Running", "Stopping", "Stopped"}

CallerLocations ==
    {"idle", "joinFinished", "join", "start", "spawnFailed", "failNotify",
     "startNotify", "waitStart", "sleepStart", "waitStopped", "sleepStopped",
     "joinThread", "dismantle"}

\* The locations at which a thread has not yet announced that it stopped.
LiveLocations ==
    {"preRun", "check", "setRunning", "notifyRunning", "run", "catch", "setStopped"}

ThreadLocations ==
    LiveLocations \cup {"unborn", "notifyStopped", "exited", "joined"}

TypeOK ==
    /\ m_state \in States
    /\ m_stopRequested \in BOOLEAN
    /\ m_thread \in Threads \cup {NoThread}
    /\ m_lastUnhandledException \in BOOLEAN
    /\ object \in {"alive", "derivedGone", "destroyed"}
    /\ op \in [Callers -> AllOperations \cup {"none"}]
    /\ pc \in [Callers -> CallerLocations]
    /\ held \in [Callers -> Threads \cup {NoThread}]
    /\ res \in [Callers -> BOOLEAN]
    /\ before \in [Callers -> SUBSET Threads]
    /\ tpc \in [Threads -> ThreadLocations]
    /\ rs \in [Procs -> {"off", "lock", "notify", "notifyHook", "hook"}]

Init ==
    /\ m_state = "Stopped"
    /\ m_stopRequested = FALSE
    /\ m_thread = NoThread
    /\ m_lastUnhandledException = FALSE
    /\ object = "alive"
    /\ op = [c \in Callers |-> "none"]
    /\ pc = [c \in Callers |-> "idle"]
    /\ held = [c \in Callers |-> NoThread]
    /\ res = [c \in Callers |-> FALSE]
    /\ before = [c \in Callers |-> {}]
    /\ tpc = [t \in Threads |-> "unborn"]
    /\ rs = [p \in Procs |-> "off"]

-----------------------------------------------------------------------------
(* Control flow shared by the operations.                                  *)

InCall(c) == pc[c] # "idle" \/ rs[c] # "off"

\* A caller executes its operation unless it is inside a nested requestStop.
At(c, loc) == rs[c] = "off" /\ pc[c] = loc

Goto(c, loc) == pc' = [pc EXCEPT ![c] = loc]

Return(c, value) == Goto(c, "idle") /\ res' = [res EXCEPT ![c] = value]

CallRequestStop(p) == rs' = [rs EXCEPT ![p] = "lock"]

\* m_stateChanged.notify_all(): every sleeping waiter gets to evaluate its
\* predicate again.
Woken(f) == [c \in Callers |-> CASE f[c] = "sleepStart" -> "waitStart"
                                 [] f[c] = "sleepStopped" -> "waitStopped"
                                 [] OTHER -> f[c]]

notify_all == pc' = Woken(pc)

\* notify_all as the last thing a caller does before it goes on at loc.
NotifyAllAndGoto(c, loc) == pc' = [Woken(pc) EXCEPT ![c] = loc]

-----------------------------------------------------------------------------
(* requestStop, for any process.                                           *)

\* Mutant: a stopped worker is marked Stopping, too.
RequestStopLockAlways(p) ==
    /\ rs[p] = "lock"
    /\ m_stopRequested' = TRUE
    /\ m_state' = "Stopping"
    /\ rs' = [rs EXCEPT ![p] = "notifyHook"]
    /\ UNCHANGED <<m_thread, m_lastUnhandledException, object, callVars, tpc>>

RequestStopLock(p) ==
    /\ rs[p] = "lock"
    /\ m_stopRequested' = TRUE
    /\ m_state' = IF m_state \in {"Starting", "Running"} THEN "Stopping" ELSE m_state
    /\ rs' = [rs EXCEPT ![p] = IF m_state = "Stopped" THEN "notify" ELSE "notifyHook"]
    /\ UNCHANGED <<m_thread, m_lastUnhandledException, object, callVars, tpc>>

RequestStopNotify(p) ==
    /\ rs[p] \in {"notify", "notifyHook"}
    /\ notify_all
    /\ rs' = [rs EXCEPT ![p] = IF @ = "notifyHook" THEN "hook" ELSE "off"]
    /\ UNCHANGED <<workerVars, object, op, held, res, before, tpc>>

\* stopTriggered() returned, or threw what requestStop swallows.
StopTriggeredReturns(p) ==
    /\ rs[p] = "hook"
    /\ rs' = [rs EXCEPT ![p] = "off"]
    /\ UNCHANGED <<workerVars, object, callVars, tpc>>

-----------------------------------------------------------------------------
(* The operations of a caller.                                             *)

\* A caller enters an operation.  The C++ rules for object lifetimes forbid
\* calls during and after destruction, and destruction during a call.
Begin(c, o) ==
    /\ object = "alive"
    /\ ~InCall(c)
    /\ o = "destroy" => \A d \in Callers : ~InCall(d)
    /\ \A d \in Callers : op[d] # "destroy"
    /\ op' = [op EXCEPT ![c] = o]
    /\ before' = [before EXCEPT ![c] = {t \in Threads : tpc[t] # "unborn"}]
    /\ res' = [res EXCEPT ![c] = o \in {"stopThread0", "stopThreadAndJoin0"}]
    /\ IF o \in StartOps THEN UNCHANGED rs ELSE CallRequestStop(c)
    /\ Goto(c, CASE o \in StartOps \cup {"stopThread0", "stopThreadAndJoin0"} -> "joinFinished"
                 [] o \in {"stopThread", "stopThreadAndJoin", "destroy"} -> "waitStopped"
                 [] o = "requestStop" -> "idle")
    /\ UNCHANGED <<workerVars, object, held, tpc>>

\* Where the caller goes on after joinFinishedThread or joinThread.
AfterJoin(c) ==
    CASE op[c] \in StartOps -> "start"
      [] op[c] = "destroy" /\ object = "alive" -> "dismantle"
      [] OTHER -> "idle"

\* The base destructor ends with joinThread.
ObjectAfterJoin(c) == IF object = "derivedGone" /\ op[c] = "destroy" THEN "destroyed" ELSE object

\* joinFinishedThread: move the thread out only if it announced Stopped.
JoinFinishedThread(c) ==
    /\ At(c, "joinFinished")
    /\ IF m_state = "Stopped" /\ m_thread # NoThread
       THEN /\ held' = [held EXCEPT ![c] = m_thread]
            /\ m_thread' = NoThread
            /\ Goto(c, "join")
       ELSE Goto(c, AfterJoin(c)) /\ UNCHANGED <<held, m_thread>>
    /\ UNCHANGED <<m_state, m_stopRequested, m_lastUnhandledException, object,
                   op, res, before, tpc, rs>>

\* joinThread: move the thread out whatever it is doing.
JoinThread(c) ==
    /\ At(c, "joinThread")
    /\ IF m_thread # NoThread
       THEN /\ held' = [held EXCEPT ![c] = m_thread]
            /\ m_thread' = NoThread
            /\ Goto(c, "join")
            /\ UNCHANGED object
       ELSE /\ Goto(c, AfterJoin(c))
            /\ object' = ObjectAfterJoin(c)
            /\ UNCHANGED <<held, m_thread>>
    /\ UNCHANGED <<m_state, m_stopRequested, m_lastUnhandledException,
                   op, res, before, tpc, rs>>

\* std::thread::join() on the thread moved out.
Join(c) ==
    /\ At(c, "join")
    /\ tpc[held[c]] = "exited"
    /\ tpc' = [tpc EXCEPT ![held[c]] = "joined"]
    /\ held' = [held EXCEPT ![c] = NoThread]
    /\ Goto(c, AfterJoin(c))
    /\ object' = ObjectAfterJoin(c)
    /\ UNCHANGED <<workerVars, op, res, before, rs>>

\* Mutant: the stop flag is cleared before the state is checked.
StartRefusedClears(c) ==
    /\ At(c, "start")
    /\ m_state # "Stopped" \/ m_thread # NoThread
    /\ m_stopRequested' = FALSE
    /\ Return(c, FALSE)
    /\ UNCHANGED <<m_state, m_thread, m_lastUnhandledException, object, op, held, before, tpc, rs>>

\* startThread, the critical section: refused ...
StartRefused(c) ==
    /\ At(c, "start")
    /\ m_state # "Stopped" \/ m_thread # NoThread
    /\ Return(c, FALSE)
    /\ UNCHANGED <<workerVars, object, op, held, before, tpc, rs>>

\* Mutant: one half of the check is missing.
StartBegunAnyThread ==
    /\ m_state = "Stopped"
    /\ m_stopRequested' = FALSE
    /\ m_lastUnhandledException' = FALSE
    /\ m_state' = "Starting"

StartBegun ==
    /\ m_state = "Stopped"
    /\ m_thread = NoThread
    /\ m_stopRequested' = FALSE
    /\ m_lastUnhandledException' = FALSE
    /\ m_state' = "Starting"

\* ... or a new OS thread enters threadRunner ...
StartSpawns(c, t) ==
    /\ At(c, "start")
    /\ StartBegun
    /\ tpc[t] = "unborn"
    /\ m_thread' = t
    /\ tpc' = [tpc EXCEPT ![t] = "preRun"]
    /\ Goto(c, "startNotify")
    /\ UNCHANGED <<object, op, held, res, before, rs>>

\* ... or the std::thread constructor throws.
StartSpawnFails(c) ==
    /\ At(c, "start")
    /\ StartBegun
    /\ Goto(c, "spawnFailed")
    /\ UNCHANGED <<m_thread, object, op, held, res, before, tpc, rs>>

SpawnFailed(c) ==
    /\ At(c, "spawnFailed")
    /\ m_state' = "Stopped"
    /\ Goto(c, "failNotify")
    /\ UNCHANGED <<m_stopRequested, m_thread, m_lastUnhandledException, object,
                   op, held, res, before, tpc, rs>>

FailNotify(c) ==
    /\ At(c, "failNotify")
    /\ NotifyAllAndGoto(c, "idle")
    /\ res' = [res EXCEPT ![c] = FALSE]
    /\ UNCHANGED <<workerVars, object, op, held, before, tpc, rs>>

StartNotify(c) ==
    /\ At(c, "startNotify")
    /\ NotifyAllAndGoto(c, IF op[c] = "startThread0" THEN "idle" ELSE "waitStart")
    /\ res' = [res EXCEPT ![c] = (op[c] = "startThread0")]
    /\ UNCHANGED <<workerVars, object, op, held, before, tpc, rs>>

\* waitForStart: evaluate the predicate, return or sleep.
WaitForStart(c) ==
    /\ At(c, "waitStart")
    /\ IF m_state \in {"Running", "Stopped"}
       THEN Return(c, m_state = "Running")
       ELSE Goto(c, "sleepStart") /\ UNCHANGED res
    /\ UNCHANGED <<workerVars, object, op, held, before, tpc, rs>>

\* The timeout of wait_for expires and the predicate is evaluated once more.
WaitForStartTimesOut(c) ==
    /\ At(c, "sleepStart")
    /\ Return(c, m_state = "Running")
    /\ UNCHANGED <<workerVars, object, op, held, before, tpc, rs>>

\* Mutant: a worker that is on its way to Stopped counts as stopped.
WaitForStoppedOrStopping(c) ==
    /\ At(c, "waitStopped")
    /\ IF m_state \in {"Stopping", "Stopped"}
       THEN Goto(c, "joinFinished") /\ res' = [res EXCEPT ![c] = TRUE]
       ELSE Goto(c, "sleepStopped") /\ UNCHANGED res
    /\ UNCHANGED <<workerVars, object, op, held, before, tpc, rs>>

WaitForStopped(c) ==
    /\ At(c, "waitStopped")
    /\ IF m_state = "Stopped"
       THEN Goto(c, "joinFinished") /\ res' = [res EXCEPT ![c] = TRUE]
       ELSE Goto(c, "sleepStopped") /\ UNCHANGED res
    /\ UNCHANGED <<workerVars, object, op, held, before, tpc, rs>>

\* Mutant: stopThreadAndJoin forgets to join after the timeout.
AfterStopTimeoutNoJoin(c) == IF op[c] = "destroy" THEN "dismantle" ELSE "idle"

\* Where the caller goes on when stopThread gave up waiting.
AfterStopTimeout(c) ==
    CASE op[c] = "stopThreadAndJoin" -> "joinThread"
      [] op[c] = "destroy" -> "dismantle"
      [] OTHER -> "idle"

WaitForStoppedTimesOut(c) ==
    /\ At(c, "sleepStopped")
    /\ Goto(c, IF m_state = "Stopped" THEN "joinFinished" ELSE AfterStopTimeout(c))
    /\ res' = [res EXCEPT ![c] = (m_state = "Stopped")]
    /\ UNCHANGED <<workerVars, object, op, held, before, tpc, rs>>

\* The derived destructor is done, the derived members are gone, and the base
\* destructor calls requestStop and joinThread.
Dismantle(c) ==
    /\ At(c, "dismantle")
    /\ object' = "derivedGone"
    /\ CallRequestStop(c)
    /\ Goto(c, "joinThread")
    /\ UNCHANGED <<workerVars, op, held, res, before, tpc>>

-----------------------------------------------------------------------------
(* threadRunner, on the worker's own OS thread.                            *)

ThreadAt(t, loc) == rs[t] = "off" /\ tpc[t] = loc

ThreadGoto(t, loc) == tpc' = [tpc EXCEPT ![t] = loc]

PreRunReturns(t, ok) ==
    /\ ThreadAt(t, "preRun")
    /\ ThreadGoto(t, IF ok THEN "check" ELSE "setStopped")
    /\ UNCHANGED <<workerVars, object, callVars, rs>>

\* run() joins the threads it created before it returns or throws.
HelpersDone == \A h \in Helpers : rs[h] = "off"

\* preRun or run throws.
HookThrows(t) ==
    /\ ThreadAt(t, "preRun") \/ (ThreadAt(t, "run") /\ HelpersDone)
    /\ ThreadGoto(t, "catch")
    /\ UNCHANGED <<workerVars, object, callVars, rs>>

\* The check of the stop flag between preRun and run ...
CheckStopRequested(t) ==
    /\ ThreadAt(t, "check")
    /\ ThreadGoto(t, IF m_stopRequested THEN "setStopped" ELSE "setRunning")
    /\ UNCHANGED <<workerVars, object, callVars, rs>>

\* ... and the unconditional write of Running that follows it.
SetRunning(t) ==
    /\ ThreadAt(t, "setRunning")
    /\ m_state' = "Running"
    /\ ThreadGoto(t, "notifyRunning")
    /\ UNCHANGED <<m_stopRequested, m_thread, m_lastUnhandledException, object, callVars, rs>>

NotifyRunning(t) ==
    /\ ThreadAt(t, "notifyRunning")
    /\ notify_all
    /\ ThreadGoto(t, "run")
    /\ UNCHANGED <<workerVars, object, op, held, res, before, rs>>

RunReturns(t) ==
    /\ ThreadAt(t, "run")
    /\ HelpersDone
    /\ ThreadGoto(t, "setStopped")
    /\ UNCHANGED <<workerVars, object, callVars, rs>>

RecordException(t) ==
    /\ ThreadAt(t, "catch")
    /\ m_lastUnhandledException' = TRUE
    /\ ThreadGoto(t, "setStopped")
    /\ UNCHANGED <<m_state, m_stopRequested, m_thread, object, callVars, rs>>

\* Mutant: the state is written and nobody is notified.
SetStoppedSilently(t) ==
    /\ ThreadAt(t, "setStopped")
    /\ m_state' = "Stopped"
    /\ ThreadGoto(t, "exited")
    /\ UNCHANGED <<m_stopRequested, m_thread, m_lastUnhandledException, object, callVars, rs>>

SetStopped(t) ==
    /\ ThreadAt(t, "setStopped")
    /\ m_state' = "Stopped"
    /\ ThreadGoto(t, "notifyStopped")
    /\ UNCHANGED <<m_stopRequested, m_thread, m_lastUnhandledException, object, callVars, rs>>

NotifyStopped(t) ==
    /\ ThreadAt(t, "notifyStopped")
    /\ notify_all
    /\ ThreadGoto(t, "exited")
    /\ UNCHANGED <<workerVars, object, op, held, res, before, rs>>

\* retire(), called by the derived class's preRun or run.
Retire(t) ==
    /\ ThreadAt(t, "preRun") \/ ThreadAt(t, "run")
    /\ CallRequestStop(t)
    /\ UNCHANGED <<workerVars, object, callVars, tpc>>

\* requestStop(), called by a thread that run() created and will join.
HelperRequestsStop(h) ==
    /\ rs[h] = "off"
    /\ \E t \in Threads : tpc[t] = "run"
    /\ CallRequestStop(h)
    /\ UNCHANGED <<workerVars, object, callVars, tpc>>

-----------------------------------------------------------------------------
\* The steps of a caller inside an operation.
CallerStep(c) ==
    \/ JoinFinishedThread(c) \/ JoinThread(c) \/ Join(c)
    \/ StartRefused(c) \/ StartSpawnFails(c) \/ \E t \in Threads : StartSpawns(c, t)
    \/ SpawnFailed(c) \/ FailNotify(c) \/ StartNotify(c)
    \/ WaitForStart(c) \/ WaitForStartTimesOut(c)
    \/ WaitForStopped(c) \/ WaitForStoppedTimesOut(c)
    \/ Dismantle(c)

RequestStopStep(p) == RequestStopLock(p) \/ RequestStopNotify(p)

\* The steps of threadRunner outside the hooks.
RunnerStep(t) ==
    \/ CheckStopRequested(t) \/ SetRunning(t) \/ NotifyRunning(t)
    \/ RecordException(t) \/ SetStopped(t) \/ NotifyStopped(t)

\* What the base class does by itself, whatever the derived class is.
Plumbing ==
    \/ \E c \in Callers, o \in Operations : Begin(c, o)
    \/ \E c \in Callers : CallerStep(c)
    \/ \E p \in Procs : RequestStopStep(p)
    \/ \E t \in Threads : RunnerStep(t)

\* What the derived class decides.
Hooks ==
    \/ \E p \in Procs : StopTriggeredReturns(p)
    \/ \E t \in Threads : \E ok \in BOOLEAN : PreRunReturns(t, ok)
    \/ \E t \in Threads : HookThrows(t) \/ RunReturns(t) \/ Retire(t)
    \/ \E h \in Helpers : HelperRequestsStop(h)

\* A destroyed object takes no more steps.
Terminated ==
    /\ object = "destroyed"
    /\ UNCHANGED vars

Next == Plumbing \/ Hooks \/ Terminated

Spec == Init /\ [][Next]_vars

-----------------------------------------------------------------------------
(* What makes the worker correct.                                          *)

Live(t) == tpc[t] \in LiveLocations

\* However startThread, stopThread and the destructor interleave, the hooks
\* preRun and run are never executed by two OS threads at once, although a
\* new thread may be created while the previous one has yet to be joined.
OneLiveThread == \A t, u \in Threads : Live(t) /\ Live(u) => t = u

\* Whoever reads Stopped (stopped(), waitForStopped, joinFinishedThread) may
\* rely on it: no hook of any thread is executing or will execute.
StoppedMeansQuiet == m_state = "Stopped" => \A t \in Threads : ~Live(t)

\* "No detached threads": every OS thread that was created and not yet joined
\* is owned by exactly one std::thread, the member m_thread or a local
\* variable of a caller that is about to join it.
NoDetachedThread ==
    \A t \in Threads :
        /\ tpc[t] \notin {"unborn", "joined"} <=> m_thread = t \/ \E c \in Callers : held[c] = t
        /\ \A c \in Callers : held[c] = t => m_thread # t /\ \A d \in Callers \ {c} : held[d] # t

\* Every write of m_state that can satisfy a waiter is followed by a
\* notify_all: a caller that sleeps in waitForStart or waitForStopped although
\* its predicate holds is about to be woken and need not run into its timeout.
NoLostWakeup ==
    \A c \in Callers :
        \/ pc[c] = "sleepStart" /\ m_state \in {"Running", "Stopped"}
        \/ pc[c] = "sleepStopped" /\ m_state = "Stopped"
        => \/ \E t \in Threads : tpc[t] \in {"notifyRunning", "notifyStopped"}
           \/ \E d \in Callers : pc[d] = "failNotify"

\* When stopThread reports success (after a non-zero timeout), every thread
\* that existed when it was called has left the hooks for good, even if other
\* callers restarted the worker meanwhile.
StopTrueMeansStopped ==
    \A c \in Callers :
        ~InCall(c) /\ op[c] \in {"stopThread", "stopThreadAndJoin"} /\ res[c]
        => \A t \in before[c] : ~Live(t)

\* After the destructor every thread the worker ever created has been joined,
\* also when the derived destructor's stopThread() timed out.
DestroyedMeansJoined ==
    object = "destroyed" => \A t \in Threads : tpc[t] \in {"unborn", "joined"}

\* A stop request made to a live thread is never taken back: only a startThread
\* that found the worker stopped clears m_stopRequested.
StopRequestSticks ==
    [][m_stopRequested /\ (\E t \in Threads : Live(t)) => m_stopRequested']_vars

\* An attempt is a live OS thread, or the caller that failed to create one and
\* has yet to put the state back.
Entering == {t \in Threads : tpc[t] \in {"preRun", "check", "setRunning"}}
InRun == {t \in Threads : tpc[t] \in {"notifyRunning", "run"}}
Leaving == {t \in Threads : tpc[t] \in {"catch", "setStopped"}}
             \cup {c \in Callers : pc[c] = "spawnFailed"}

Contract == INSTANCE WorkerContract WITH
    Attempts <- Threads \cup Callers, state <- m_state,
    entering <- Entering, running <- InRun, leaving <- Leaving

\* However the callers, helpers and worker threads interleave, m_state and the
\* location of the worker thread move together as the contract allows.
ImplementsContract == Contract!ContractSpec

\* When stopThreadAndJoin with a timeout returns, in time or not, the threads it
\* was to stop execute nothing any more (the comment on stopThreadAndJoin,
\* cBaseWorker_V2.h:130-132), whatever others restart; unless a second caller had
\* taken the thread to join it, which the first does not wait for.
StopAndJoinMeansExited ==
    \A c \in Callers :
        ~InCall(c) /\ op[c] = "stopThreadAndJoin" =>
            \A t \in before[c] : ~Live(t) \/ \E d \in Callers \ {c} : held[d] = t

\* The derived members outlive every execution of the derived hooks, as the
\* lifetime note of the class asks (cBaseWorker_V2.h:15-20): unless the
\* stopThread() of the derived destructor has timed out, which it ignores.
DerivedOutlivesHooks ==
    object # "alive" =>
        \/ \A t \in Threads : tpc[t] \notin {"preRun", "run"}
        \/ \E c \in Callers : op[c] = "destroy" /\ ~res[c]

-----------------------------------------------------------------------------
(* The strengthenings that make the invariants above inductive.            *)

\* An attempt to work: a live thread, or a caller whose thread was not created.
Busy(a) ==
    \/ a \in Threads /\ Live(a)
    \/ a \in Callers /\ pc[a] = "spawnFailed"

OneAttempt == \A a, b \in Threads \cup Callers : Busy(a) /\ Busy(b) => a = b

StoppedIffIdle == m_state = "Stopped" <=> \A a \in Threads \cup Callers : ~Busy(a)

HeldIffJoining == \A c \in Callers : held[c] # NoThread <=> pc[c] = "join"

\* Which operations visit a location, and in which phase of the object.
PlaceFitsOperation ==
    \A c \in Callers :
        /\ pc[c] \in {"start", "spawnFailed", "failNotify", "startNotify",
                      "waitStart", "sleepStart"} => op[c] \in StartOps
        /\ pc[c] \in {"joinFinished", "waitStopped", "sleepStopped", "dismantle"}
           => object = "alive"
        /\ pc[c] = "dismantle" => op[c] = "destroy"
        /\ pc[c] = "joinThread" /\ op[c] = "destroy" => object = "derivedGone"

DestroyerAlone ==
    \A c \in Callers : op[c] = "destroy" =>
        \A d \in Callers \ {c} : ~InCall(d) /\ op[d] # "destroy"

\* How far the destructor is.
Dismantling ==
    /\ object = "derivedGone" =>
          \E c \in Callers :
              /\ op[c] = "destroy"
              /\ pc[c] = "joinThread" \/ (pc[c] = "join" /\ m_thread = NoThread)
    /\ object = "destroyed" =>
          /\ m_thread = NoThread
          /\ \A c \in Callers : ~InCall(c)

\* A reported stop covers the threads known to the call, also in mid-call.
StopResult ==
    \A c \in Callers :
        op[c] \in {"stopThread", "stopThreadAndJoin"} /\ res[c]
        => \A t \in before[c] : ~Live(t)

BeforeBorn == \A c \in Callers : \A t \in before[c] : tpc[t] # "unborn"

\* A stopThreadAndJoin that is done waiting leaves no live thread of its own to
\* m_thread: there was none, or somebody has moved it out to join it.
MovedOut ==
    \A c \in Callers :
        op[c] = "stopThreadAndJoin" /\ pc[c] \notin {"waitStopped", "sleepStopped", "joinThread"}
        => m_thread \notin before[c] \/ ~Live(m_thread)

\* The destructor knows every thread, and when its stopThread() has reported
\* success none of them is live.
DestroyResult ==
    \A c \in Callers : op[c] = "destroy" =>
        /\ \A t \in Threads : tpc[t] # "unborn" => t \in before[c]
        /\ res[c] => \A t \in Threads : ~Live(t)

\* Only a destructor ends the life of the object.
SomebodyDestroys == object # "alive" => \E c \in Callers : op[c] = "destroy"
=============================================================================
