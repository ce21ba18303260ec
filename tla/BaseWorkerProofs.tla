-------------------------- MODULE BaseWorkerProofs --------------------------
(* Proofs about BaseWorker, for every set of callers, helpers and threads. *)
EXTENDS BaseWorker, TLAPS

\* Every variable of the worker keeps its type, whatever the callers do.
THEOREM TypeCorrect == Spec => []TypeOK
<1> USE WorkerAssumption
<1>1. ASSUME Init PROVE TypeOK
  <2> USE <1>1 DEF Init
  <2>1. /\ m_state \in States /\ m_stopRequested \in BOOLEAN
        /\ m_thread \in Threads \cup {NoThread} /\ m_lastUnhandledException \in BOOLEAN
        /\ object \in {"alive", "derivedGone", "destroyed"}
    BY DEF States
  <2>2. /\ op \in [Callers -> AllOperations \cup {"none"}]
        /\ pc \in [Callers -> CallerLocations]
        /\ held \in [Callers -> Threads \cup {NoThread}]
    BY DEF CallerLocations
  <2>3. res \in [Callers -> BOOLEAN] /\ before \in [Callers -> SUBSET Threads]
    OBVIOUS
  <2>4. /\ tpc \in [Threads -> ThreadLocations]
        /\ rs \in [Procs -> {"off", "lock", "notify", "notifyHook", "hook"}]
    BY DEF ThreadLocations
  <2>5. QED
    BY <2>1, <2>2, <2>3, <2>4 DEF TypeOK
<1>2. TypeOK /\ [Next]_vars => TypeOK'
  <2> SUFFICES ASSUME TypeOK, [Next]_vars PROVE TypeOK'
    OBVIOUS
  <2> USE DEF TypeOK, States, CallerLocations, ThreadLocations, LiveLocations, Procs,
              workerVars, callVars
  <2>1. ASSUME NEW c \in Callers, NEW o \in Operations, Begin(c, o) PROVE TypeOK'
    BY <2>1 DEF Begin, AllOperations, StopOps, InCall, StartOps, CallRequestStop, Goto
  <2>2. ASSUME NEW c \in Callers, JoinFinishedThread(c) PROVE TypeOK'
    BY <2>2 DEF JoinFinishedThread, At, Goto, AfterJoin, StartOps
  <2>3. ASSUME NEW c \in Callers, JoinThread(c) PROVE TypeOK'
    BY <2>3 DEF JoinThread, At, Goto, AfterJoin, StartOps, ObjectAfterJoin
  <2>4. ASSUME NEW c \in Callers, Join(c) PROVE TypeOK'
    BY <2>4 DEF Join, At, Goto, AfterJoin, StartOps, ObjectAfterJoin
  <2>5. ASSUME NEW c \in Callers, StartRefused(c) PROVE TypeOK'
    BY <2>5 DEF StartRefused, At, Return, Goto
  <2>6. ASSUME NEW c \in Callers, StartSpawnFails(c) PROVE TypeOK'
    BY <2>6 DEF StartSpawnFails, At, StartBegun, Goto
  <2>7. ASSUME NEW c \in Callers, SpawnFailed(c) PROVE TypeOK'
    BY <2>7 DEF SpawnFailed, At, Goto
  <2>8. ASSUME NEW c \in Callers, FailNotify(c) PROVE TypeOK'
    BY <2>8 DEF FailNotify, At, NotifyAllAndGoto, Woken
  <2>9. ASSUME NEW c \in Callers, StartNotify(c) PROVE TypeOK'
    BY <2>9 DEF StartNotify, At, NotifyAllAndGoto, Woken
  <2>10. ASSUME NEW c \in Callers, WaitForStart(c) PROVE TypeOK'
    BY <2>10, ZenonT(60) DEF WaitForStart, At, Return, Goto
  <2>11. ASSUME NEW c \in Callers, WaitForStartTimesOut(c) PROVE TypeOK'
    BY <2>11 DEF WaitForStartTimesOut, At, Return, Goto
  <2>12. ASSUME NEW c \in Callers, WaitForStopped(c) PROVE TypeOK'
    BY <2>12, ZenonT(60) DEF WaitForStopped, At, Goto
  <2>13. ASSUME NEW c \in Callers, WaitForStoppedTimesOut(c) PROVE TypeOK'
    BY <2>13 DEF WaitForStoppedTimesOut, At, Goto, AfterStopTimeout
  <2>14. ASSUME NEW c \in Callers, Dismantle(c) PROVE TypeOK'
    BY <2>14 DEF Dismantle, At, CallRequestStop, Goto
  <2>15. ASSUME NEW c \in Callers, NEW t \in Threads, StartSpawns(c, t) PROVE TypeOK'
    BY <2>15 DEF StartSpawns, At, StartBegun, Goto
  <2>16. ASSUME NEW p \in Procs, RequestStopLock(p) PROVE TypeOK'
    BY <2>16 DEF RequestStopLock
  <2>17. ASSUME NEW p \in Procs, RequestStopNotify(p) PROVE TypeOK'
    BY <2>17 DEF RequestStopNotify, notify_all, Woken
  <2>18. ASSUME NEW p \in Procs, StopTriggeredReturns(p) PROVE TypeOK'
    BY <2>18 DEF StopTriggeredReturns
  <2>19. ASSUME NEW t \in Threads, NEW ok \in BOOLEAN, PreRunReturns(t, ok) PROVE TypeOK'
    BY <2>19 DEF PreRunReturns, ThreadAt, ThreadGoto
  <2>20. ASSUME NEW t \in Threads, CheckStopRequested(t) PROVE TypeOK'
    BY <2>20 DEF CheckStopRequested, ThreadAt, ThreadGoto
  <2>21. ASSUME NEW t \in Threads, SetRunning(t) PROVE TypeOK'
    BY <2>21 DEF SetRunning, ThreadAt, ThreadGoto
  <2>22. ASSUME NEW t \in Threads, NotifyRunning(t) PROVE TypeOK'
    BY <2>22 DEF NotifyRunning, ThreadAt, notify_all, Woken, ThreadGoto
  <2>23. ASSUME NEW t \in Threads, RecordException(t) PROVE TypeOK'
    BY <2>23 DEF RecordException, ThreadAt, ThreadGoto
  <2>24. ASSUME NEW t \in Threads, SetStopped(t) PROVE TypeOK'
    BY <2>24 DEF SetStopped, ThreadAt, ThreadGoto
  <2>25. ASSUME NEW t \in Threads, NotifyStopped(t) PROVE TypeOK'
    BY <2>25 DEF NotifyStopped, ThreadAt, notify_all, Woken, ThreadGoto
  <2>26. ASSUME NEW t \in Threads, HookThrows(t) PROVE TypeOK'
    BY <2>26 DEF HookThrows, ThreadAt, HelpersDone, ThreadGoto
  <2>27. ASSUME NEW t \in Threads, RunReturns(t) PROVE TypeOK'
    BY <2>27 DEF RunReturns, ThreadAt, HelpersDone, ThreadGoto
  <2>28. ASSUME NEW t \in Threads, Retire(t) PROVE TypeOK'
    BY <2>28 DEF Retire, ThreadAt, CallRequestStop
  <2>29. ASSUME NEW h \in Helpers, HelperRequestsStop(h) PROVE TypeOK'
    BY <2>29 DEF HelperRequestsStop, CallRequestStop
  <2>30. CASE UNCHANGED vars
    BY <2>30 DEF vars
  <2>31. QED
    BY <2>1, <2>2, <2>3, <2>4, <2>5, <2>6, <2>7, <2>8, <2>9, <2>10, <2>11, <2>12, <2>13,
       <2>14, <2>15, <2>16, <2>17, <2>18, <2>19, <2>20, <2>21, <2>22, <2>23, <2>24,
       <2>25, <2>26, <2>27, <2>28, <2>29, <2>30 DEF Next, Plumbing, Hooks, CallerStep,
       RequestStopStep, RunnerStep, Terminated
<1>3. QED
  BY <1>1, <1>2, PTL DEF Spec

-----------------------------------------------------------------------------
\* The core of the argument: startThread claims the worker only when it reads
\* Stopped, Stopped is written only by the attempt that ends, so there is one
\* attempt at a time and Stopped tells exactly that there is none.
THEOREM Exclusive == Spec => [](OneAttempt /\ StoppedIffIdle)
<1> USE WorkerAssumption
<1>1. Init => OneAttempt /\ StoppedIffIdle
  BY DEF Init, OneAttempt, StoppedIffIdle, Busy, Live, LiveLocations
<1>2. TypeOK /\ TypeOK' /\ OneAttempt /\ StoppedIffIdle /\ [Next]_vars => (OneAttempt /\ StoppedIffIdle)'
  <2> SUFFICES ASSUME TypeOK, TypeOK', OneAttempt, StoppedIffIdle, [Next]_vars
               PROVE  (OneAttempt /\ StoppedIffIdle)'
    OBVIOUS
  <2> USE DEF TypeOK, OneAttempt, StoppedIffIdle, Busy, Live, LiveLocations, workerVars, callVars
  <2>1. ASSUME NEW c \in Callers, NEW o \in Operations, Begin(c, o) PROVE (OneAttempt /\ StoppedIffIdle)'
    BY <2>1 DEF Begin, AllOperations, StopOps, InCall, StartOps, CallRequestStop, Goto
  <2>2. ASSUME NEW c \in Callers, JoinFinishedThread(c) PROVE (OneAttempt /\ StoppedIffIdle)'
    BY <2>2 DEF JoinFinishedThread, At, Goto, AfterJoin, StartOps
  <2>3. ASSUME NEW c \in Callers, JoinThread(c) PROVE (OneAttempt /\ StoppedIffIdle)'
    BY <2>3 DEF JoinThread, At, Goto, AfterJoin, StartOps, ObjectAfterJoin
  <2>4. ASSUME NEW c \in Callers, Join(c) PROVE (OneAttempt /\ StoppedIffIdle)'
    BY <2>4 DEF Join, At, Goto, AfterJoin, StartOps, ObjectAfterJoin
  <2>5. ASSUME NEW c \in Callers, StartRefused(c) PROVE (OneAttempt /\ StoppedIffIdle)'
    BY <2>5 DEF StartRefused, At, Return, Goto
  <2>6. ASSUME NEW c \in Callers, StartSpawnFails(c) PROVE (OneAttempt /\ StoppedIffIdle)'
    BY <2>6 DEF StartSpawnFails, At, StartBegun, Goto
  <2>7. ASSUME NEW c \in Callers, SpawnFailed(c) PROVE (OneAttempt /\ StoppedIffIdle)'
    BY <2>7 DEF SpawnFailed, At, Goto
  <2>8. ASSUME NEW c \in Callers, FailNotify(c) PROVE (OneAttempt /\ StoppedIffIdle)'
    BY <2>8, ZenonT(60) DEF FailNotify, At, NotifyAllAndGoto, Woken
  <2>9. ASSUME NEW c \in Callers, StartNotify(c) PROVE (OneAttempt /\ StoppedIffIdle)'
    BY <2>9, ZenonT(60) DEF StartNotify, At, NotifyAllAndGoto, Woken
  <2>10. ASSUME NEW c \in Callers, WaitForStart(c) PROVE (OneAttempt /\ StoppedIffIdle)'
    BY <2>10 DEF WaitForStart, At, Return, Goto
  <2>11. ASSUME NEW c \in Callers, WaitForStartTimesOut(c) PROVE (OneAttempt /\ StoppedIffIdle)'
    BY <2>11 DEF WaitForStartTimesOut, At, Return, Goto
  <2>12. ASSUME NEW c \in Callers, WaitForStopped(c) PROVE (OneAttempt /\ StoppedIffIdle)'
    BY <2>12 DEF WaitForStopped, At, Goto
  <2>13. ASSUME NEW c \in Callers, WaitForStoppedTimesOut(c) PROVE (OneAttempt /\ StoppedIffIdle)'
    BY <2>13 DEF WaitForStoppedTimesOut, At, Goto, AfterStopTimeout
  <2>14. ASSUME NEW c \in Callers, Dismantle(c) PROVE (OneAttempt /\ StoppedIffIdle)'
    BY <2>14 DEF Dismantle, At, CallRequestStop, Goto
  <2>15. ASSUME NEW c \in Callers, NEW t \in Threads, StartSpawns(c, t) PROVE (OneAttempt /\ StoppedIffIdle)'
    BY <2>15 DEF StartSpawns, At, StartBegun, Goto
  <2>16. ASSUME NEW p \in Procs, RequestStopLock(p) PROVE (OneAttempt /\ StoppedIffIdle)'
    BY <2>16 DEF RequestStopLock
  <2>17. ASSUME NEW p \in Procs, RequestStopNotify(p) PROVE (OneAttempt /\ StoppedIffIdle)'
    BY <2>17, ZenonT(60) DEF RequestStopNotify, notify_all, Woken
  <2>18. ASSUME NEW p \in Procs, StopTriggeredReturns(p) PROVE (OneAttempt /\ StoppedIffIdle)'
    BY <2>18 DEF StopTriggeredReturns
  <2>19. ASSUME NEW t \in Threads, NEW ok \in BOOLEAN, PreRunReturns(t, ok) PROVE (OneAttempt /\ StoppedIffIdle)'
    BY <2>19 DEF PreRunReturns, ThreadAt, ThreadGoto
  <2>20. ASSUME NEW t \in Threads, CheckStopRequested(t) PROVE (OneAttempt /\ StoppedIffIdle)'
    BY <2>20 DEF CheckStopRequested, ThreadAt, ThreadGoto
  <2>21. ASSUME NEW t \in Threads, SetRunning(t) PROVE (OneAttempt /\ StoppedIffIdle)'
    BY <2>21 DEF SetRunning, ThreadAt, ThreadGoto
  <2>22. ASSUME NEW t \in Threads, NotifyRunning(t) PROVE (OneAttempt /\ StoppedIffIdle)'
    <3>1. m_state' = m_state /\ \A c \in Callers : pc[c] = "spawnFailed" <=> pc'[c] = "spawnFailed"
      BY <2>22 DEF NotifyRunning, notify_all, Woken
    <3>2. \A u \in Threads : Live(u) <=> Live(u)'
      BY <2>22 DEF NotifyRunning, ThreadAt, ThreadGoto
    <3>3. \A a \in Threads \cup Callers : Busy(a) <=> Busy(a)'
      BY <3>1, <3>2
    <3>4. QED
      BY <3>1, <3>3, Zenon DEF OneAttempt, StoppedIffIdle
  <2>23. ASSUME NEW t \in Threads, RecordException(t) PROVE (OneAttempt /\ StoppedIffIdle)'
    BY <2>23 DEF RecordException, ThreadAt, ThreadGoto
  <2>24. ASSUME NEW t \in Threads, SetStopped(t) PROVE (OneAttempt /\ StoppedIffIdle)'
    BY <2>24 DEF SetStopped, ThreadAt, ThreadGoto
  <2>25. ASSUME NEW t \in Threads, NotifyStopped(t) PROVE (OneAttempt /\ StoppedIffIdle)'
    <3>1. m_state' = m_state /\ \A c \in Callers : pc[c] = "spawnFailed" <=> pc'[c] = "spawnFailed"
      BY <2>25 DEF NotifyStopped, notify_all, Woken
    <3>2. \A u \in Threads : Live(u) <=> Live(u)'
      BY <2>25 DEF NotifyStopped, ThreadAt, ThreadGoto
    <3>3. \A a \in Threads \cup Callers : Busy(a) <=> Busy(a)'
      BY <3>1, <3>2
    <3>4. QED
      BY <3>1, <3>3, Zenon DEF OneAttempt, StoppedIffIdle
  <2>26. ASSUME NEW t \in Threads, HookThrows(t) PROVE (OneAttempt /\ StoppedIffIdle)'
    BY <2>26 DEF HookThrows, ThreadAt, HelpersDone, ThreadGoto
  <2>27. ASSUME NEW t \in Threads, RunReturns(t) PROVE (OneAttempt /\ StoppedIffIdle)'
    BY <2>27 DEF RunReturns, ThreadAt, HelpersDone, ThreadGoto
  <2>28. ASSUME NEW t \in Threads, Retire(t) PROVE (OneAttempt /\ StoppedIffIdle)'
    BY <2>28 DEF Retire, ThreadAt, CallRequestStop
  <2>29. ASSUME NEW h \in Helpers, HelperRequestsStop(h) PROVE (OneAttempt /\ StoppedIffIdle)'
    BY <2>29 DEF HelperRequestsStop, CallRequestStop
  <2>30. CASE UNCHANGED vars
    BY <2>30 DEF vars
  <2>31. QED
    BY <2>1, <2>2, <2>3, <2>4, <2>5, <2>6, <2>7, <2>8, <2>9, <2>10, <2>11, <2>12, <2>13,
       <2>14, <2>15, <2>16, <2>17, <2>18, <2>19, <2>20, <2>21, <2>22, <2>23, <2>24,
       <2>25, <2>26, <2>27, <2>28, <2>29, <2>30 DEF Next, Plumbing, Hooks, CallerStep,
       RequestStopStep, RunnerStep, Terminated
<1>3. QED
  BY <1>1, <1>2, TypeCorrect, PTL DEF Spec

\* preRun and run are never executed by two OS threads at once.
THEOREM OneLiveThreadAlways == Spec => []OneLiveThread
<1>1. OneAttempt => OneLiveThread
  BY DEF OneAttempt, OneLiveThread, Busy
<1>2. QED
  BY <1>1, Exclusive, PTL

\* Whoever reads Stopped may rely on it.
THEOREM StoppedMeansQuietAlways == Spec => []StoppedMeansQuiet
<1>1. StoppedIffIdle => StoppedMeansQuiet
  BY DEF StoppedIffIdle, StoppedMeansQuiet, Busy
<1>2. QED
  BY <1>1, Exclusive, PTL

-----------------------------------------------------------------------------
\* "No detached threads": every thread not yet joined has exactly one owner.
THEOREM Ownership == Spec => [](HeldIffJoining /\ NoDetachedThread)
<1> USE WorkerAssumption
<1>1. Init => HeldIffJoining /\ NoDetachedThread
  BY DEF Init, HeldIffJoining, NoDetachedThread
<1>2. TypeOK /\ TypeOK' /\ HeldIffJoining /\ NoDetachedThread /\ [Next]_vars
      => (HeldIffJoining /\ NoDetachedThread)'
  <2> SUFFICES ASSUME TypeOK, TypeOK', HeldIffJoining, NoDetachedThread, [Next]_vars
               PROVE  (HeldIffJoining /\ NoDetachedThread)'
    OBVIOUS
  <2> USE DEF TypeOK, HeldIffJoining, NoDetachedThread, workerVars, callVars
  <2>1. ASSUME NEW c \in Callers, NEW o \in Operations, Begin(c, o) PROVE (HeldIffJoining /\ NoDetachedThread)'
    BY <2>1 DEF Begin, AllOperations, StopOps, InCall, StartOps, CallRequestStop, Goto
  <2>2. ASSUME NEW c \in Callers, JoinFinishedThread(c) PROVE (HeldIffJoining /\ NoDetachedThread)'
    BY <2>2 DEF JoinFinishedThread, At, Goto, AfterJoin, StartOps
  <2>3. ASSUME NEW c \in Callers, JoinThread(c) PROVE (HeldIffJoining /\ NoDetachedThread)'
    BY <2>3 DEF JoinThread, At, Goto, AfterJoin, StartOps, ObjectAfterJoin
  <2>4. ASSUME NEW c \in Callers, Join(c) PROVE (HeldIffJoining /\ NoDetachedThread)'
    BY <2>4 DEF Join, At, Goto, AfterJoin, StartOps, ObjectAfterJoin
  <2>5. ASSUME NEW c \in Callers, StartRefused(c) PROVE (HeldIffJoining /\ NoDetachedThread)'
    BY <2>5 DEF StartRefused, At, Return, Goto
  <2>6. ASSUME NEW c \in Callers, StartSpawnFails(c) PROVE (HeldIffJoining /\ NoDetachedThread)'
    BY <2>6 DEF StartSpawnFails, At, StartBegun, Goto
  <2>7. ASSUME NEW c \in Callers, SpawnFailed(c) PROVE (HeldIffJoining /\ NoDetachedThread)'
    BY <2>7 DEF SpawnFailed, At, Goto
  <2>8. ASSUME NEW c \in Callers, FailNotify(c) PROVE (HeldIffJoining /\ NoDetachedThread)'
    BY <2>8 DEF FailNotify, At, NotifyAllAndGoto, Woken
  <2>9. ASSUME NEW c \in Callers, StartNotify(c) PROVE (HeldIffJoining /\ NoDetachedThread)'
    BY <2>9 DEF StartNotify, At, NotifyAllAndGoto, Woken
  <2>10. ASSUME NEW c \in Callers, WaitForStart(c) PROVE (HeldIffJoining /\ NoDetachedThread)'
    BY <2>10 DEF WaitForStart, At, Return, Goto
  <2>11. ASSUME NEW c \in Callers, WaitForStartTimesOut(c) PROVE (HeldIffJoining /\ NoDetachedThread)'
    BY <2>11 DEF WaitForStartTimesOut, At, Return, Goto
  <2>12. ASSUME NEW c \in Callers, WaitForStopped(c) PROVE (HeldIffJoining /\ NoDetachedThread)'
    BY <2>12 DEF WaitForStopped, At, Goto
  <2>13. ASSUME NEW c \in Callers, WaitForStoppedTimesOut(c) PROVE (HeldIffJoining /\ NoDetachedThread)'
    BY <2>13 DEF WaitForStoppedTimesOut, At, Goto, AfterStopTimeout
  <2>14. ASSUME NEW c \in Callers, Dismantle(c) PROVE (HeldIffJoining /\ NoDetachedThread)'
    BY <2>14 DEF Dismantle, At, CallRequestStop, Goto
  <2>15. ASSUME NEW c \in Callers, NEW t \in Threads, StartSpawns(c, t) PROVE (HeldIffJoining /\ NoDetachedThread)'
    BY <2>15 DEF StartSpawns, At, StartBegun, Goto
  <2>16. ASSUME NEW p \in Procs, RequestStopLock(p) PROVE (HeldIffJoining /\ NoDetachedThread)'
    BY <2>16 DEF RequestStopLock
  <2>17. ASSUME NEW p \in Procs, RequestStopNotify(p) PROVE (HeldIffJoining /\ NoDetachedThread)'
    BY <2>17 DEF RequestStopNotify, notify_all, Woken
  <2>18. ASSUME NEW p \in Procs, StopTriggeredReturns(p) PROVE (HeldIffJoining /\ NoDetachedThread)'
    BY <2>18 DEF StopTriggeredReturns
  <2>19. ASSUME NEW t \in Threads, NEW ok \in BOOLEAN, PreRunReturns(t, ok) PROVE (HeldIffJoining /\ NoDetachedThread)'
    BY <2>19 DEF PreRunReturns, ThreadAt, ThreadGoto
  <2>20. ASSUME NEW t \in Threads, CheckStopRequested(t) PROVE (HeldIffJoining /\ NoDetachedThread)'
    BY <2>20 DEF CheckStopRequested, ThreadAt, ThreadGoto
  <2>21. ASSUME NEW t \in Threads, SetRunning(t) PROVE (HeldIffJoining /\ NoDetachedThread)'
    BY <2>21 DEF SetRunning, ThreadAt, ThreadGoto
  <2>22. ASSUME NEW t \in Threads, NotifyRunning(t) PROVE (HeldIffJoining /\ NoDetachedThread)'
    BY <2>22 DEF NotifyRunning, ThreadAt, notify_all, Woken, ThreadGoto
  <2>23. ASSUME NEW t \in Threads, RecordException(t) PROVE (HeldIffJoining /\ NoDetachedThread)'
    BY <2>23 DEF RecordException, ThreadAt, ThreadGoto
  <2>24. ASSUME NEW t \in Threads, SetStopped(t) PROVE (HeldIffJoining /\ NoDetachedThread)'
    BY <2>24 DEF SetStopped, ThreadAt, ThreadGoto
  <2>25. ASSUME NEW t \in Threads, NotifyStopped(t) PROVE (HeldIffJoining /\ NoDetachedThread)'
    BY <2>25 DEF NotifyStopped, ThreadAt, notify_all, Woken, ThreadGoto
  <2>26. ASSUME NEW t \in Threads, HookThrows(t) PROVE (HeldIffJoining /\ NoDetachedThread)'
    BY <2>26 DEF HookThrows, ThreadAt, HelpersDone, ThreadGoto
  <2>27. ASSUME NEW t \in Threads, RunReturns(t) PROVE (HeldIffJoining /\ NoDetachedThread)'
    BY <2>27 DEF RunReturns, ThreadAt, HelpersDone, ThreadGoto
  <2>28. ASSUME NEW t \in Threads, Retire(t) PROVE (HeldIffJoining /\ NoDetachedThread)'
    BY <2>28 DEF Retire, ThreadAt, CallRequestStop
  <2>29. ASSUME NEW h \in Helpers, HelperRequestsStop(h) PROVE (HeldIffJoining /\ NoDetachedThread)'
    BY <2>29 DEF HelperRequestsStop, CallRequestStop
  <2>30. CASE UNCHANGED vars
    BY <2>30 DEF vars
  <2>31. QED
    BY <2>1, <2>2, <2>3, <2>4, <2>5, <2>6, <2>7, <2>8, <2>9, <2>10, <2>11, <2>12, <2>13,
       <2>14, <2>15, <2>16, <2>17, <2>18, <2>19, <2>20, <2>21, <2>22, <2>23, <2>24,
       <2>25, <2>26, <2>27, <2>28, <2>29, <2>30 DEF Next, Plumbing, Hooks, CallerStep,
       RequestStopStep, RunnerStep, Terminated
<1>3. QED
  BY <1>1, <1>2, TypeCorrect, PTL DEF Spec

\* A caller never sleeps on a predicate that holds, unless a notify_all is due.
THEOREM WakeupsArrive == Spec => []NoLostWakeup
<1> USE WorkerAssumption
<1>1. Init => NoLostWakeup
  BY DEF Init, NoLostWakeup
<1>2. TypeOK /\ TypeOK' /\ NoLostWakeup /\ [Next]_vars => NoLostWakeup'
  <2> SUFFICES ASSUME TypeOK, TypeOK', NoLostWakeup, [Next]_vars PROVE NoLostWakeup'
    OBVIOUS
  <2> USE DEF TypeOK, NoLostWakeup, workerVars, callVars
  <2>1. ASSUME NEW c \in Callers, NEW o \in Operations, Begin(c, o) PROVE NoLostWakeup'
    BY <2>1 DEF Begin, AllOperations, StopOps, InCall, StartOps, CallRequestStop, Goto
  <2>2. ASSUME NEW c \in Callers, JoinFinishedThread(c) PROVE NoLostWakeup'
    BY <2>2 DEF JoinFinishedThread, At, Goto, AfterJoin, StartOps
  <2>3. ASSUME NEW c \in Callers, JoinThread(c) PROVE NoLostWakeup'
    BY <2>3 DEF JoinThread, At, Goto, AfterJoin, StartOps, ObjectAfterJoin
  <2>4. ASSUME NEW c \in Callers, Join(c) PROVE NoLostWakeup'
    BY <2>4 DEF Join, At, Goto, AfterJoin, StartOps, ObjectAfterJoin
  <2>5. ASSUME NEW c \in Callers, StartRefused(c) PROVE NoLostWakeup'
    BY <2>5 DEF StartRefused, At, Return, Goto
  <2>6. ASSUME NEW c \in Callers, StartSpawnFails(c) PROVE NoLostWakeup'
    BY <2>6 DEF StartSpawnFails, At, StartBegun, Goto
  <2>7. ASSUME NEW c \in Callers, SpawnFailed(c) PROVE NoLostWakeup'
    BY <2>7 DEF SpawnFailed, At, Goto
  <2>8. ASSUME NEW c \in Callers, FailNotify(c) PROVE NoLostWakeup'
    BY <2>8 DEF FailNotify, At, NotifyAllAndGoto, Woken
  <2>9. ASSUME NEW c \in Callers, StartNotify(c) PROVE NoLostWakeup'
    BY <2>9 DEF StartNotify, At, NotifyAllAndGoto, Woken
  <2>10. ASSUME NEW c \in Callers, WaitForStart(c) PROVE NoLostWakeup'
    BY <2>10 DEF WaitForStart, At, Return, Goto
  <2>11. ASSUME NEW c \in Callers, WaitForStartTimesOut(c) PROVE NoLostWakeup'
    BY <2>11 DEF WaitForStartTimesOut, At, Return, Goto
  <2>12. ASSUME NEW c \in Callers, WaitForStopped(c) PROVE NoLostWakeup'
    BY <2>12 DEF WaitForStopped, At, Goto
  <2>13. ASSUME NEW c \in Callers, WaitForStoppedTimesOut(c) PROVE NoLostWakeup'
    BY <2>13 DEF WaitForStoppedTimesOut, At, Goto, AfterStopTimeout
  <2>14. ASSUME NEW c \in Callers, Dismantle(c) PROVE NoLostWakeup'
    BY <2>14 DEF Dismantle, At, CallRequestStop, Goto
  <2>15. ASSUME NEW c \in Callers, NEW t \in Threads, StartSpawns(c, t) PROVE NoLostWakeup'
    BY <2>15 DEF StartSpawns, At, StartBegun, Goto
  <2>16. ASSUME NEW p \in Procs, RequestStopLock(p) PROVE NoLostWakeup'
    BY <2>16 DEF RequestStopLock
  <2>17. ASSUME NEW p \in Procs, RequestStopNotify(p) PROVE NoLostWakeup'
    BY <2>17 DEF RequestStopNotify, notify_all, Woken
  <2>18. ASSUME NEW p \in Procs, StopTriggeredReturns(p) PROVE NoLostWakeup'
    BY <2>18 DEF StopTriggeredReturns
  <2>19. ASSUME NEW t \in Threads, NEW ok \in BOOLEAN, PreRunReturns(t, ok) PROVE NoLostWakeup'
    BY <2>19 DEF PreRunReturns, ThreadAt, ThreadGoto
  <2>20. ASSUME NEW t \in Threads, CheckStopRequested(t) PROVE NoLostWakeup'
    BY <2>20 DEF CheckStopRequested, ThreadAt, ThreadGoto
  <2>21. ASSUME NEW t \in Threads, SetRunning(t) PROVE NoLostWakeup'
    BY <2>21 DEF SetRunning, ThreadAt, ThreadGoto
  <2>22. ASSUME NEW t \in Threads, NotifyRunning(t) PROVE NoLostWakeup'
    BY <2>22 DEF NotifyRunning, ThreadAt, notify_all, Woken, ThreadGoto
  <2>23. ASSUME NEW t \in Threads, RecordException(t) PROVE NoLostWakeup'
    BY <2>23 DEF RecordException, ThreadAt, ThreadGoto
  <2>24. ASSUME NEW t \in Threads, SetStopped(t) PROVE NoLostWakeup'
    BY <2>24 DEF SetStopped, ThreadAt, ThreadGoto
  <2>25. ASSUME NEW t \in Threads, NotifyStopped(t) PROVE NoLostWakeup'
    BY <2>25 DEF NotifyStopped, ThreadAt, notify_all, Woken, ThreadGoto
  <2>26. ASSUME NEW t \in Threads, HookThrows(t) PROVE NoLostWakeup'
    BY <2>26 DEF HookThrows, ThreadAt, HelpersDone, ThreadGoto
  <2>27. ASSUME NEW t \in Threads, RunReturns(t) PROVE NoLostWakeup'
    BY <2>27 DEF RunReturns, ThreadAt, HelpersDone, ThreadGoto
  <2>28. ASSUME NEW t \in Threads, Retire(t) PROVE NoLostWakeup'
    BY <2>28 DEF Retire, ThreadAt, CallRequestStop
  <2>29. ASSUME NEW h \in Helpers, HelperRequestsStop(h) PROVE NoLostWakeup'
    BY <2>29 DEF HelperRequestsStop, CallRequestStop
  <2>30. CASE UNCHANGED vars
    BY <2>30 DEF vars
  <2>31. QED
    BY <2>1, <2>2, <2>3, <2>4, <2>5, <2>6, <2>7, <2>8, <2>9, <2>10, <2>11, <2>12, <2>13,
       <2>14, <2>15, <2>16, <2>17, <2>18, <2>19, <2>20, <2>21, <2>22, <2>23, <2>24,
       <2>25, <2>26, <2>27, <2>28, <2>29, <2>30 DEF Next, Plumbing, Hooks, CallerStep,
       RequestStopStep, RunnerStep, Terminated
<1>3. QED
  BY <1>1, <1>2, TypeCorrect, PTL DEF Spec

-----------------------------------------------------------------------------
\* Bookkeeping of the calls: which operation is where, a caller that destroys
\* the worker is the only one, and before[c] holds only threads that exist.
THEOREM Bookkeeping == Spec => [](PlaceFitsOperation /\ DestroyerAlone /\ BeforeBorn)
<1> USE WorkerAssumption
<1> DEFINE Inv == PlaceFitsOperation /\ DestroyerAlone /\ BeforeBorn
<1>1. Init => Inv
  BY DEF Init, PlaceFitsOperation, DestroyerAlone, BeforeBorn
<1>2. TypeOK /\ TypeOK' /\ Inv /\ [Next]_vars => Inv'
  <2> SUFFICES ASSUME TypeOK, TypeOK', Inv, [Next]_vars PROVE Inv'
    OBVIOUS
  <2> USE DEF TypeOK, PlaceFitsOperation, DestroyerAlone, BeforeBorn, InCall, StartOps,
              Procs, workerVars, callVars
  <2>1. ASSUME NEW c \in Callers, NEW o \in Operations, Begin(c, o) PROVE Inv'
    BY <2>1 DEF Begin, AllOperations, StopOps, CallRequestStop, Goto
  <2>2. ASSUME NEW c \in Callers, JoinFinishedThread(c) PROVE Inv'
    BY <2>2 DEF JoinFinishedThread, At, Goto, AfterJoin
  <2>3. ASSUME NEW c \in Callers, JoinThread(c) PROVE Inv'
    BY <2>3 DEF JoinThread, At, Goto, AfterJoin, ObjectAfterJoin
  <2>4. ASSUME NEW c \in Callers, Join(c) PROVE Inv'
    BY <2>4 DEF Join, At, Goto, AfterJoin, ObjectAfterJoin
  <2>5. ASSUME NEW c \in Callers, StartRefused(c) PROVE Inv'
    BY <2>5 DEF StartRefused, At, Return, Goto
  <2>6. ASSUME NEW c \in Callers, StartSpawnFails(c) PROVE Inv'
    BY <2>6 DEF StartSpawnFails, At, StartBegun, Goto
  <2>7. ASSUME NEW c \in Callers, SpawnFailed(c) PROVE Inv'
    BY <2>7 DEF SpawnFailed, At, Goto
  <2>8. ASSUME NEW c \in Callers, FailNotify(c) PROVE Inv'
    BY <2>8 DEF FailNotify, At, NotifyAllAndGoto, Woken
  <2>9. ASSUME NEW c \in Callers, StartNotify(c) PROVE Inv'
    BY <2>9 DEF StartNotify, At, NotifyAllAndGoto, Woken
  <2>10. ASSUME NEW c \in Callers, WaitForStart(c) PROVE Inv'
    BY <2>10 DEF WaitForStart, At, Return, Goto
  <2>11. ASSUME NEW c \in Callers, WaitForStartTimesOut(c) PROVE Inv'
    BY <2>11 DEF WaitForStartTimesOut, At, Return, Goto
  <2>12. ASSUME NEW c \in Callers, WaitForStopped(c) PROVE Inv'
    BY <2>12 DEF WaitForStopped, At, Goto
  <2>13. ASSUME NEW c \in Callers, WaitForStoppedTimesOut(c) PROVE Inv'
    BY <2>13 DEF WaitForStoppedTimesOut, At, Goto, AfterStopTimeout
  <2>14. ASSUME NEW c \in Callers, Dismantle(c) PROVE Inv'
    BY <2>14 DEF Dismantle, At, CallRequestStop, Goto
  <2>15. ASSUME NEW c \in Callers, NEW t \in Threads, StartSpawns(c, t) PROVE Inv'
    BY <2>15 DEF StartSpawns, At, StartBegun, Goto
  <2>16. ASSUME NEW p \in Procs, RequestStopLock(p) PROVE Inv'
    BY <2>16 DEF RequestStopLock
  <2>17. ASSUME NEW p \in Procs, RequestStopNotify(p) PROVE Inv'
    BY <2>17 DEF RequestStopNotify, notify_all, Woken
  <2>18. ASSUME NEW p \in Procs, StopTriggeredReturns(p) PROVE Inv'
    BY <2>18 DEF StopTriggeredReturns
  <2>19. ASSUME NEW t \in Threads, NEW ok \in BOOLEAN, PreRunReturns(t, ok) PROVE Inv'
    BY <2>19 DEF PreRunReturns, ThreadAt, ThreadGoto
  <2>20. ASSUME NEW t \in Threads, CheckStopRequested(t) PROVE Inv'
    BY <2>20 DEF CheckStopRequested, ThreadAt, ThreadGoto
  <2>21. ASSUME NEW t \in Threads, SetRunning(t) PROVE Inv'
    BY <2>21 DEF SetRunning, ThreadAt, ThreadGoto
  <2>22. ASSUME NEW t \in Threads, NotifyRunning(t) PROVE Inv'
    BY <2>22 DEF NotifyRunning, ThreadAt, notify_all, Woken, ThreadGoto
  <2>23. ASSUME NEW t \in Threads, RecordException(t) PROVE Inv'
    BY <2>23 DEF RecordException, ThreadAt, ThreadGoto
  <2>24. ASSUME NEW t \in Threads, SetStopped(t) PROVE Inv'
    BY <2>24 DEF SetStopped, ThreadAt, ThreadGoto
  <2>25. ASSUME NEW t \in Threads, NotifyStopped(t) PROVE Inv'
    BY <2>25 DEF NotifyStopped, ThreadAt, notify_all, Woken, ThreadGoto
  <2>26. ASSUME NEW t \in Threads, HookThrows(t) PROVE Inv'
    BY <2>26 DEF HookThrows, ThreadAt, HelpersDone, ThreadGoto
  <2>27. ASSUME NEW t \in Threads, RunReturns(t) PROVE Inv'
    BY <2>27 DEF RunReturns, ThreadAt, HelpersDone, ThreadGoto
  <2>28. ASSUME NEW t \in Threads, Retire(t) PROVE Inv'
    BY <2>28 DEF Retire, ThreadAt, CallRequestStop
  <2>29. ASSUME NEW h \in Helpers, HelperRequestsStop(h) PROVE Inv'
    BY <2>29 DEF HelperRequestsStop, CallRequestStop
  <2>30. CASE UNCHANGED vars
    BY <2>30 DEF vars
  <2>31. QED
    BY <2>1, <2>2, <2>3, <2>4, <2>5, <2>6, <2>7, <2>8, <2>9, <2>10, <2>11, <2>12, <2>13,
       <2>14, <2>15, <2>16, <2>17, <2>18, <2>19, <2>20, <2>21, <2>22, <2>23, <2>24,
       <2>25, <2>26, <2>27, <2>28, <2>29, <2>30 DEF Next, Plumbing, Hooks, CallerStep,
       RequestStopStep, RunnerStep, Terminated
<1>3. QED
  BY <1>1, <1>2, TypeCorrect, PTL DEF Spec

\* When stopThread reports success, the threads that existed when it was called
\* have left the hooks for good, even if other callers restarted the worker.
THEOREM StopTrueIsTrue == Spec => []StopTrueMeansStopped
<1> USE WorkerAssumption
<1>1. Init => StopResult
  BY DEF Init, StopResult
<1>2. /\ TypeOK /\ TypeOK' /\ StoppedIffIdle /\ PlaceFitsOperation /\ BeforeBorn
      /\ StopResult /\ [Next]_vars
      => StopResult'
  <2> SUFFICES ASSUME TypeOK, TypeOK', StoppedIffIdle, PlaceFitsOperation, BeforeBorn,
                      StopResult, [Next]_vars
               PROVE  StopResult'
    OBVIOUS
  <2> USE DEF TypeOK, StoppedIffIdle, Busy, PlaceFitsOperation, BeforeBorn, StopResult,
              Live, LiveLocations, StartOps, workerVars, callVars
  <2>1. ASSUME NEW c \in Callers, NEW o \in Operations, Begin(c, o) PROVE StopResult'
    <3>1. o \in {"stopThread", "stopThreadAndJoin"} => res'[c] = FALSE
      BY <2>1, ZenonT(60) DEF Begin
    <3>2. /\ op'[c] = o /\ tpc' = tpc
          /\ \A d \in Callers \ {c} : op'[d] = op[d] /\ res'[d] = res[d] /\ before'[d] = before[d]
      BY <2>1 DEF Begin
    <3>3. QED
      BY <3>1, <3>2
  <2>2. ASSUME NEW c \in Callers, JoinFinishedThread(c) PROVE StopResult'
    BY <2>2 DEF JoinFinishedThread, At, Goto, AfterJoin
  <2>3. ASSUME NEW c \in Callers, JoinThread(c) PROVE StopResult'
    BY <2>3 DEF JoinThread, At, Goto, AfterJoin, ObjectAfterJoin
  <2>4. ASSUME NEW c \in Callers, Join(c) PROVE StopResult'
    BY <2>4 DEF Join, At, Goto, AfterJoin, ObjectAfterJoin
  <2>5. ASSUME NEW c \in Callers, StartRefused(c) PROVE StopResult'
    BY <2>5 DEF StartRefused, At, Return, Goto
  <2>6. ASSUME NEW c \in Callers, StartSpawnFails(c) PROVE StopResult'
    BY <2>6 DEF StartSpawnFails, At, StartBegun, Goto
  <2>7. ASSUME NEW c \in Callers, SpawnFailed(c) PROVE StopResult'
    BY <2>7 DEF SpawnFailed, At, Goto
  <2>8. ASSUME NEW c \in Callers, FailNotify(c) PROVE StopResult'
    BY <2>8 DEF FailNotify, At, NotifyAllAndGoto, Woken
  <2>9. ASSUME NEW c \in Callers, StartNotify(c) PROVE StopResult'
    BY <2>9 DEF StartNotify, At, NotifyAllAndGoto, Woken
  <2>10. ASSUME NEW c \in Callers, WaitForStart(c) PROVE StopResult'
    BY <2>10 DEF WaitForStart, At, Return, Goto
  <2>11. ASSUME NEW c \in Callers, WaitForStartTimesOut(c) PROVE StopResult'
    BY <2>11 DEF WaitForStartTimesOut, At, Return, Goto
  <2>12. ASSUME NEW c \in Callers, WaitForStopped(c) PROVE StopResult'
    BY <2>12 DEF WaitForStopped, At, Goto
  <2>13. ASSUME NEW c \in Callers, WaitForStoppedTimesOut(c) PROVE StopResult'
    BY <2>13 DEF WaitForStoppedTimesOut, At, Goto, AfterStopTimeout
  <2>14. ASSUME NEW c \in Callers, Dismantle(c) PROVE StopResult'
    BY <2>14 DEF Dismantle, At, CallRequestStop, Goto
  <2>15. ASSUME NEW c \in Callers, NEW t \in Threads, StartSpawns(c, t) PROVE StopResult'
    BY <2>15 DEF StartSpawns, At, StartBegun, Goto
  <2>16. ASSUME NEW p \in Procs, RequestStopLock(p) PROVE StopResult'
    BY <2>16 DEF RequestStopLock
  <2>17. ASSUME NEW p \in Procs, RequestStopNotify(p) PROVE StopResult'
    BY <2>17 DEF RequestStopNotify, notify_all, Woken
  <2>18. ASSUME NEW p \in Procs, StopTriggeredReturns(p) PROVE StopResult'
    BY <2>18 DEF StopTriggeredReturns
  <2>19. ASSUME NEW t \in Threads, NEW ok \in BOOLEAN, PreRunReturns(t, ok) PROVE StopResult'
    BY <2>19 DEF PreRunReturns, ThreadAt, ThreadGoto
  <2>20. ASSUME NEW t \in Threads, CheckStopRequested(t) PROVE StopResult'
    BY <2>20 DEF CheckStopRequested, ThreadAt, ThreadGoto
  <2>21. ASSUME NEW t \in Threads, SetRunning(t) PROVE StopResult'
    BY <2>21 DEF SetRunning, ThreadAt, ThreadGoto
  <2>22. ASSUME NEW t \in Threads, NotifyRunning(t) PROVE StopResult'
    BY <2>22 DEF NotifyRunning, ThreadAt, notify_all, Woken, ThreadGoto
  <2>23. ASSUME NEW t \in Threads, RecordException(t) PROVE StopResult'
    BY <2>23 DEF RecordException, ThreadAt, ThreadGoto
  <2>24. ASSUME NEW t \in Threads, SetStopped(t) PROVE StopResult'
    BY <2>24 DEF SetStopped, ThreadAt, ThreadGoto
  <2>25. ASSUME NEW t \in Threads, NotifyStopped(t) PROVE StopResult'
    BY <2>25 DEF NotifyStopped, ThreadAt, notify_all, Woken, ThreadGoto
  <2>26. ASSUME NEW t \in Threads, HookThrows(t) PROVE StopResult'
    BY <2>26 DEF HookThrows, ThreadAt, HelpersDone, ThreadGoto
  <2>27. ASSUME NEW t \in Threads, RunReturns(t) PROVE StopResult'
    BY <2>27 DEF RunReturns, ThreadAt, HelpersDone, ThreadGoto
  <2>28. ASSUME NEW t \in Threads, Retire(t) PROVE StopResult'
    BY <2>28 DEF Retire, ThreadAt, CallRequestStop
  <2>29. ASSUME NEW h \in Helpers, HelperRequestsStop(h) PROVE StopResult'
    BY <2>29 DEF HelperRequestsStop, CallRequestStop
  <2>30. CASE UNCHANGED vars
    BY <2>30 DEF vars
  <2>31. QED
    BY <2>1, <2>2, <2>3, <2>4, <2>5, <2>6, <2>7, <2>8, <2>9, <2>10, <2>11, <2>12, <2>13,
       <2>14, <2>15, <2>16, <2>17, <2>18, <2>19, <2>20, <2>21, <2>22, <2>23, <2>24,
       <2>25, <2>26, <2>27, <2>28, <2>29, <2>30 DEF Next, Plumbing, Hooks, CallerStep,
       RequestStopStep, RunnerStep, Terminated
<1>3. StopResult => StopTrueMeansStopped
  BY DEF StopResult, StopTrueMeansStopped
<1>4. QED
  BY <1>1, <1>2, <1>3, TypeCorrect, Exclusive, Bookkeeping, PTL DEF Spec

\* The destructor leaves no OS thread behind.
THEOREM DestructorJoins == Spec => []DestroyedMeansJoined
<1> USE WorkerAssumption
<1>1. Init => Dismantling
  BY DEF Init, Dismantling
<1>2. /\ TypeOK /\ TypeOK' /\ PlaceFitsOperation /\ DestroyerAlone /\ Dismantling /\ [Next]_vars
      => Dismantling'
  <2> SUFFICES ASSUME TypeOK, TypeOK', PlaceFitsOperation, DestroyerAlone, Dismantling,
                      [Next]_vars
               PROVE  Dismantling'
    OBVIOUS
  <2> USE DEF TypeOK, PlaceFitsOperation, DestroyerAlone, Dismantling, InCall, StartOps,
              Procs, workerVars, callVars
  <2>1. ASSUME NEW c \in Callers, NEW o \in Operations, Begin(c, o) PROVE Dismantling'
    BY <2>1 DEF Begin, AllOperations, StopOps, CallRequestStop, Goto
  <2>2. ASSUME NEW c \in Callers, JoinFinishedThread(c) PROVE Dismantling'
    BY <2>2 DEF JoinFinishedThread, At, Goto, AfterJoin
  <2>3. ASSUME NEW c \in Callers, JoinThread(c) PROVE Dismantling'
    BY <2>3 DEF JoinThread, At, Goto, AfterJoin, ObjectAfterJoin
  <2>4. ASSUME NEW c \in Callers, Join(c) PROVE Dismantling'
    BY <2>4 DEF Join, At, Goto, AfterJoin, ObjectAfterJoin
  <2>5. ASSUME NEW c \in Callers, StartRefused(c) PROVE Dismantling'
    BY <2>5 DEF StartRefused, At, Return, Goto
  <2>6. ASSUME NEW c \in Callers, StartSpawnFails(c) PROVE Dismantling'
    BY <2>6 DEF StartSpawnFails, At, StartBegun, Goto
  <2>7. ASSUME NEW c \in Callers, SpawnFailed(c) PROVE Dismantling'
    BY <2>7 DEF SpawnFailed, At, Goto
  <2>8. ASSUME NEW c \in Callers, FailNotify(c) PROVE Dismantling'
    BY <2>8 DEF FailNotify, At, NotifyAllAndGoto, Woken
  <2>9. ASSUME NEW c \in Callers, StartNotify(c) PROVE Dismantling'
    BY <2>9 DEF StartNotify, At, NotifyAllAndGoto, Woken
  <2>10. ASSUME NEW c \in Callers, WaitForStart(c) PROVE Dismantling'
    BY <2>10 DEF WaitForStart, At, Return, Goto
  <2>11. ASSUME NEW c \in Callers, WaitForStartTimesOut(c) PROVE Dismantling'
    BY <2>11 DEF WaitForStartTimesOut, At, Return, Goto
  <2>12. ASSUME NEW c \in Callers, WaitForStopped(c) PROVE Dismantling'
    BY <2>12 DEF WaitForStopped, At, Goto
  <2>13. ASSUME NEW c \in Callers, WaitForStoppedTimesOut(c) PROVE Dismantling'
    BY <2>13 DEF WaitForStoppedTimesOut, At, Goto, AfterStopTimeout
  <2>14. ASSUME NEW c \in Callers, Dismantle(c) PROVE Dismantling'
    BY <2>14 DEF Dismantle, At, CallRequestStop, Goto
  <2>15. ASSUME NEW c \in Callers, NEW t \in Threads, StartSpawns(c, t) PROVE Dismantling'
    BY <2>15 DEF StartSpawns, At, StartBegun, Goto
  <2>16. ASSUME NEW p \in Procs, RequestStopLock(p) PROVE Dismantling'
    BY <2>16 DEF RequestStopLock
  <2>17. ASSUME NEW p \in Procs, RequestStopNotify(p) PROVE Dismantling'
    BY <2>17 DEF RequestStopNotify, notify_all, Woken
  <2>18. ASSUME NEW p \in Procs, StopTriggeredReturns(p) PROVE Dismantling'
    BY <2>18 DEF StopTriggeredReturns
  <2>19. ASSUME NEW t \in Threads, NEW ok \in BOOLEAN, PreRunReturns(t, ok) PROVE Dismantling'
    BY <2>19 DEF PreRunReturns, ThreadAt, ThreadGoto
  <2>20. ASSUME NEW t \in Threads, CheckStopRequested(t) PROVE Dismantling'
    BY <2>20 DEF CheckStopRequested, ThreadAt, ThreadGoto
  <2>21. ASSUME NEW t \in Threads, SetRunning(t) PROVE Dismantling'
    BY <2>21 DEF SetRunning, ThreadAt, ThreadGoto
  <2>22. ASSUME NEW t \in Threads, NotifyRunning(t) PROVE Dismantling'
    BY <2>22 DEF NotifyRunning, ThreadAt, notify_all, Woken, ThreadGoto
  <2>23. ASSUME NEW t \in Threads, RecordException(t) PROVE Dismantling'
    BY <2>23 DEF RecordException, ThreadAt, ThreadGoto
  <2>24. ASSUME NEW t \in Threads, SetStopped(t) PROVE Dismantling'
    BY <2>24 DEF SetStopped, ThreadAt, ThreadGoto
  <2>25. ASSUME NEW t \in Threads, NotifyStopped(t) PROVE Dismantling'
    BY <2>25 DEF NotifyStopped, ThreadAt, notify_all, Woken, ThreadGoto
  <2>26. ASSUME NEW t \in Threads, HookThrows(t) PROVE Dismantling'
    BY <2>26 DEF HookThrows, ThreadAt, HelpersDone, ThreadGoto
  <2>27. ASSUME NEW t \in Threads, RunReturns(t) PROVE Dismantling'
    BY <2>27 DEF RunReturns, ThreadAt, HelpersDone, ThreadGoto
  <2>28. ASSUME NEW t \in Threads, Retire(t) PROVE Dismantling'
    BY <2>28 DEF Retire, ThreadAt, CallRequestStop
  <2>29. ASSUME NEW h \in Helpers, HelperRequestsStop(h) PROVE Dismantling'
    BY <2>29 DEF HelperRequestsStop, CallRequestStop
  <2>30. CASE UNCHANGED vars
    BY <2>30 DEF vars
  <2>31. QED
    BY <2>1, <2>2, <2>3, <2>4, <2>5, <2>6, <2>7, <2>8, <2>9, <2>10, <2>11, <2>12, <2>13,
       <2>14, <2>15, <2>16, <2>17, <2>18, <2>19, <2>20, <2>21, <2>22, <2>23, <2>24,
       <2>25, <2>26, <2>27, <2>28, <2>29, <2>30 DEF Next, Plumbing, Hooks, CallerStep,
       RequestStopStep, RunnerStep, Terminated
<1>3. TypeOK /\ Dismantling /\ HeldIffJoining /\ NoDetachedThread => DestroyedMeansJoined
  BY DEF TypeOK, Dismantling, HeldIffJoining, NoDetachedThread, DestroyedMeansJoined, InCall
<1>4. QED
  BY <1>1, <1>2, <1>3, TypeCorrect, Ownership, Bookkeeping, PTL DEF Spec

\* No step takes back a stop request made to a live thread.
THEOREM StopRequestsStick == Spec => StopRequestSticks
<1> USE WorkerAssumption
<1> DEFINE Kept == m_stopRequested /\ (\E t \in Threads : Live(t)) => m_stopRequested'
<1>1. TypeOK /\ StoppedIffIdle /\ [Next]_vars => [Kept]_vars
  <2> SUFFICES ASSUME TypeOK, StoppedIffIdle, Next PROVE Kept
    OBVIOUS
  <2> USE DEF TypeOK, StoppedIffIdle, Busy, workerVars, callVars
  <2>1. ASSUME NEW c \in Callers, NEW o \in Operations, Begin(c, o) PROVE Kept
    BY <2>1 DEF Begin, AllOperations, StopOps, InCall, StartOps, CallRequestStop, Goto
  <2>2. ASSUME NEW c \in Callers, JoinFinishedThread(c) PROVE Kept
    BY <2>2 DEF JoinFinishedThread, At, Goto, AfterJoin, StartOps
  <2>3. ASSUME NEW c \in Callers, JoinThread(c) PROVE Kept
    BY <2>3 DEF JoinThread, At, Goto, AfterJoin, StartOps, ObjectAfterJoin
  <2>4. ASSUME NEW c \in Callers, Join(c) PROVE Kept
    BY <2>4 DEF Join, At, Goto, AfterJoin, StartOps, ObjectAfterJoin
  <2>5. ASSUME NEW c \in Callers, StartRefused(c) PROVE Kept
    BY <2>5 DEF StartRefused, At, Return, Goto
  <2>6. ASSUME NEW c \in Callers, StartSpawnFails(c) PROVE Kept
    BY <2>6 DEF StartSpawnFails, At, StartBegun, Goto
  <2>7. ASSUME NEW c \in Callers, SpawnFailed(c) PROVE Kept
    BY <2>7 DEF SpawnFailed, At, Goto
  <2>8. ASSUME NEW c \in Callers, FailNotify(c) PROVE Kept
    BY <2>8 DEF FailNotify, At, NotifyAllAndGoto, Woken
  <2>9. ASSUME NEW c \in Callers, StartNotify(c) PROVE Kept
    BY <2>9 DEF StartNotify, At, NotifyAllAndGoto, Woken
  <2>10. ASSUME NEW c \in Callers, WaitForStart(c) PROVE Kept
    BY <2>10 DEF WaitForStart, At, Return, Goto
  <2>11. ASSUME NEW c \in Callers, WaitForStartTimesOut(c) PROVE Kept
    BY <2>11 DEF WaitForStartTimesOut, At, Return, Goto
  <2>12. ASSUME NEW c \in Callers, WaitForStopped(c) PROVE Kept
    BY <2>12 DEF WaitForStopped, At, Goto
  <2>13. ASSUME NEW c \in Callers, WaitForStoppedTimesOut(c) PROVE Kept
    BY <2>13 DEF WaitForStoppedTimesOut, At, Goto, AfterStopTimeout
  <2>14. ASSUME NEW c \in Callers, Dismantle(c) PROVE Kept
    BY <2>14 DEF Dismantle, At, CallRequestStop, Goto
  <2>15. ASSUME NEW c \in Callers, NEW t \in Threads, StartSpawns(c, t) PROVE Kept
    BY <2>15 DEF StartSpawns, At, StartBegun, Goto
  <2>16. ASSUME NEW p \in Procs, RequestStopLock(p) PROVE Kept
    BY <2>16 DEF RequestStopLock
  <2>17. ASSUME NEW p \in Procs, RequestStopNotify(p) PROVE Kept
    BY <2>17 DEF RequestStopNotify, notify_all, Woken
  <2>18. ASSUME NEW p \in Procs, StopTriggeredReturns(p) PROVE Kept
    BY <2>18 DEF StopTriggeredReturns
  <2>19. ASSUME NEW t \in Threads, NEW ok \in BOOLEAN, PreRunReturns(t, ok) PROVE Kept
    BY <2>19 DEF PreRunReturns, ThreadAt, ThreadGoto
  <2>20. ASSUME NEW t \in Threads, CheckStopRequested(t) PROVE Kept
    BY <2>20 DEF CheckStopRequested, ThreadAt, ThreadGoto
  <2>21. ASSUME NEW t \in Threads, SetRunning(t) PROVE Kept
    BY <2>21 DEF SetRunning, ThreadAt, ThreadGoto
  <2>22. ASSUME NEW t \in Threads, NotifyRunning(t) PROVE Kept
    BY <2>22 DEF NotifyRunning, ThreadAt, notify_all, Woken, ThreadGoto
  <2>23. ASSUME NEW t \in Threads, RecordException(t) PROVE Kept
    BY <2>23 DEF RecordException, ThreadAt, ThreadGoto
  <2>24. ASSUME NEW t \in Threads, SetStopped(t) PROVE Kept
    BY <2>24 DEF SetStopped, ThreadAt, ThreadGoto
  <2>25. ASSUME NEW t \in Threads, NotifyStopped(t) PROVE Kept
    BY <2>25 DEF NotifyStopped, ThreadAt, notify_all, Woken, ThreadGoto
  <2>26. ASSUME NEW t \in Threads, HookThrows(t) PROVE Kept
    BY <2>26 DEF HookThrows, ThreadAt, HelpersDone, ThreadGoto
  <2>27. ASSUME NEW t \in Threads, RunReturns(t) PROVE Kept
    BY <2>27 DEF RunReturns, ThreadAt, HelpersDone, ThreadGoto
  <2>28. ASSUME NEW t \in Threads, Retire(t) PROVE Kept
    BY <2>28 DEF Retire, ThreadAt, CallRequestStop
  <2>29. ASSUME NEW h \in Helpers, HelperRequestsStop(h) PROVE Kept
    BY <2>29 DEF HelperRequestsStop, CallRequestStop
  <2>30. CASE UNCHANGED vars
    BY <2>30 DEF vars
  <2>31. QED
    BY <2>1, <2>2, <2>3, <2>4, <2>5, <2>6, <2>7, <2>8, <2>9, <2>10, <2>11, <2>12, <2>13,
       <2>14, <2>15, <2>16, <2>17, <2>18, <2>19, <2>20, <2>21, <2>22, <2>23, <2>24,
       <2>25, <2>26, <2>27, <2>28, <2>29, <2>30 DEF Next, Plumbing, Hooks, CallerStep,
       RequestStopStep, RunnerStep, Terminated
<1>2. QED
  BY <1>1, TypeCorrect, Exclusive, PTL DEF Spec, StopRequestSticks

-----------------------------------------------------------------------------
\* The worker implements WorkerContract: every step of a caller, a helper or the
\* worker thread is a step of one attempt, a request to stop it, or invisible.
THEOREM ContractImplemented == Spec => ImplementsContract
<1> USE WorkerAssumption
<1>1. Init => Contract!ContractInit
  BY DEF Init, Contract!ContractInit, Entering, InRun, Leaving
<1>2. /\ TypeOK /\ OneAttempt /\ StoppedIffIdle /\ [Next]_vars
      => [Contract!ContractNext]_(Contract!contractVars)
  <2> SUFFICES ASSUME TypeOK, OneAttempt, StoppedIffIdle, [Next]_vars
               PROVE  Contract!ContractNext \/ UNCHANGED Contract!contractVars
    OBVIOUS
  <2> DEFINE Goal == Contract!ContractNext \/ UNCHANGED Contract!contractVars
  <2> USE DEF TypeOK, OneAttempt, StoppedIffIdle, Busy, Live, LiveLocations, Entering, InRun,
              Leaving, workerVars, callVars, Contract!contractVars
  <2>1. ASSUME NEW c \in Callers, NEW o \in Operations, Begin(c, o) PROVE Goal
    BY <2>1 DEF Begin, AllOperations, StopOps, InCall, StartOps, CallRequestStop, Goto
  <2>2. ASSUME NEW c \in Callers, JoinFinishedThread(c) PROVE Goal
    BY <2>2 DEF JoinFinishedThread, At, Goto, AfterJoin, StartOps
  <2>3. ASSUME NEW c \in Callers, JoinThread(c) PROVE Goal
    BY <2>3 DEF JoinThread, At, Goto, AfterJoin, StartOps, ObjectAfterJoin
  <2>4. ASSUME NEW c \in Callers, Join(c) PROVE Goal
    BY <2>4 DEF Join, At, Goto, AfterJoin, StartOps, ObjectAfterJoin
  <2>5. ASSUME NEW c \in Callers, StartRefused(c) PROVE Goal
    BY <2>5 DEF StartRefused, At, Return, Goto
  <2>6. ASSUME NEW c \in Callers, StartSpawnFails(c) PROVE Goal
    <3>1. Contract!ClaimInVain(c)
      BY <2>6 DEF StartSpawnFails, At, StartBegun, Goto, Contract!ClaimInVain, Contract!Active
    <3>2. QED
      BY <3>1 DEF Contract!ContractNext
  <2>7. ASSUME NEW c \in Callers, SpawnFailed(c) PROVE Goal
    <3>1. Contract!Finish(c)
      BY <2>7 DEF SpawnFailed, At, Goto, Contract!Finish
    <3>2. QED
      BY <3>1 DEF Contract!ContractNext
  <2>8. ASSUME NEW c \in Callers, FailNotify(c) PROVE Goal
    BY <2>8 DEF FailNotify, At, NotifyAllAndGoto, Woken
  <2>9. ASSUME NEW c \in Callers, StartNotify(c) PROVE Goal
    BY <2>9 DEF StartNotify, At, NotifyAllAndGoto, Woken
  <2>10. ASSUME NEW c \in Callers, WaitForStart(c) PROVE Goal
    BY <2>10 DEF WaitForStart, At, Return, Goto
  <2>11. ASSUME NEW c \in Callers, WaitForStartTimesOut(c) PROVE Goal
    BY <2>11 DEF WaitForStartTimesOut, At, Return, Goto
  <2>12. ASSUME NEW c \in Callers, WaitForStopped(c) PROVE Goal
    BY <2>12 DEF WaitForStopped, At, Goto
  <2>13. ASSUME NEW c \in Callers, WaitForStoppedTimesOut(c) PROVE Goal
    BY <2>13 DEF WaitForStoppedTimesOut, At, Goto, AfterStopTimeout
  <2>14. ASSUME NEW c \in Callers, Dismantle(c) PROVE Goal
    BY <2>14 DEF Dismantle, At, CallRequestStop, Goto
  <2>15. ASSUME NEW c \in Callers, NEW t \in Threads, StartSpawns(c, t) PROVE Goal
    <3>1. Contract!Claim(t)
      BY <2>15 DEF StartSpawns, At, StartBegun, Goto, Contract!Claim, Contract!Active
    <3>2. QED
      BY <3>1 DEF Contract!ContractNext
  <2>16. ASSUME NEW p \in Procs, RequestStopLock(p) PROVE Goal
    <3>1. Contract!AskToStop \/ UNCHANGED Contract!contractVars
      BY <2>16 DEF RequestStopLock, Contract!AskToStop
    <3>2. QED
      BY <3>1 DEF Contract!ContractNext
  <2>17. ASSUME NEW p \in Procs, RequestStopNotify(p) PROVE Goal
    BY <2>17 DEF RequestStopNotify, notify_all, Woken
  <2>18. ASSUME NEW p \in Procs, StopTriggeredReturns(p) PROVE Goal
    BY <2>18 DEF StopTriggeredReturns
  <2>19. ASSUME NEW t \in Threads, NEW ok \in BOOLEAN, PreRunReturns(t, ok) PROVE Goal
    <3>1. Contract!Leave(t) \/ UNCHANGED Contract!contractVars
      BY <2>19 DEF PreRunReturns, ThreadAt, ThreadGoto, Contract!Leave
    <3>2. QED
      BY <3>1 DEF Contract!ContractNext
  <2>20. ASSUME NEW t \in Threads, CheckStopRequested(t) PROVE Goal
    <3>1. Contract!Leave(t) \/ UNCHANGED Contract!contractVars
      BY <2>20 DEF CheckStopRequested, ThreadAt, ThreadGoto, Contract!Leave
    <3>2. QED
      BY <3>1 DEF Contract!ContractNext
  <2>21. ASSUME NEW t \in Threads, SetRunning(t) PROVE Goal
    <3>1. Contract!Enter(t)
      BY <2>21 DEF SetRunning, ThreadAt, ThreadGoto, Contract!Enter
    <3>2. QED
      BY <3>1 DEF Contract!ContractNext
  <2>22. ASSUME NEW t \in Threads, NotifyRunning(t) PROVE Goal
    BY <2>22 DEF NotifyRunning, ThreadAt, notify_all, Woken, ThreadGoto
  <2>23. ASSUME NEW t \in Threads, RecordException(t) PROVE Goal
    BY <2>23 DEF RecordException, ThreadAt, ThreadGoto
  <2>24. ASSUME NEW t \in Threads, SetStopped(t) PROVE Goal
    <3>1. Contract!Finish(t)
      BY <2>24 DEF SetStopped, ThreadAt, ThreadGoto, Contract!Finish
    <3>2. QED
      BY <3>1 DEF Contract!ContractNext
  <2>25. ASSUME NEW t \in Threads, NotifyStopped(t) PROVE Goal
    BY <2>25 DEF NotifyStopped, ThreadAt, notify_all, Woken, ThreadGoto
  <2>26. ASSUME NEW t \in Threads, HookThrows(t) PROVE Goal
    <3>1. Contract!Leave(t)
      BY <2>26 DEF HookThrows, ThreadAt, ThreadGoto, Contract!Leave
    <3>2. QED
      BY <3>1 DEF Contract!ContractNext
  <2>27. ASSUME NEW t \in Threads, RunReturns(t) PROVE Goal
    <3>1. Contract!Leave(t)
      BY <2>27 DEF RunReturns, ThreadAt, ThreadGoto, Contract!Leave
    <3>2. QED
      BY <3>1 DEF Contract!ContractNext
  <2>28. ASSUME NEW t \in Threads, Retire(t) PROVE Goal
    BY <2>28 DEF Retire, ThreadAt, CallRequestStop
  <2>29. ASSUME NEW h \in Helpers, HelperRequestsStop(h) PROVE Goal
    BY <2>29 DEF HelperRequestsStop, CallRequestStop
  <2>30. CASE UNCHANGED vars
    BY <2>30 DEF vars
  <2>31. QED
    BY <2>1, <2>2, <2>3, <2>4, <2>5, <2>6, <2>7, <2>8, <2>9, <2>10, <2>11, <2>12, <2>13,
       <2>14, <2>15, <2>16, <2>17, <2>18, <2>19, <2>20, <2>21, <2>22, <2>23, <2>24,
       <2>25, <2>26, <2>27, <2>28, <2>29, <2>30 DEF Next, Plumbing, Hooks, CallerStep,
       RequestStopStep, RunnerStep, Terminated
<1>3. QED
  BY <1>1, <1>2, TypeCorrect, Exclusive, PTL DEF Spec, ImplementsContract, Contract!ContractSpec

-----------------------------------------------------------------------------
(* What a step does to the live threads, to m_thread and to the record of a *)
(* call: the facts on which the promises about joining rest.                *)

\* A thread becomes live, or comes to exist, only in the startThread that creates it.
LEMMA LiveOnlyBySpawn ==
    ASSUME TypeOK, Next, NEW t \in Threads,
           (Live(t)' /\ ~Live(t)) \/ (tpc[t] = "unborn" /\ tpc'[t] # "unborn")
    PROVE  \E c \in Callers : StartSpawns(c, t)
<1> USE DEF TypeOK, Live, LiveLocations
<1>1. ASSUME NEW c \in Callers, NEW o \in Operations, Begin(c, o)
      PROVE  FALSE
  BY <1>1 DEF Begin
<1>2. ASSUME NEW c \in Callers, NEW u \in Threads, StartSpawns(c, u)
      PROVE  u = t
  BY <1>2 DEF StartSpawns
<1>3. ASSUME NEW c \in Callers, CallerStep(c), \A u \in Threads : ~StartSpawns(c, u)
      PROVE  FALSE
  BY <1>3 DEF CallerStep, JoinFinishedThread, JoinThread, Join, StartRefused, StartSpawnFails,
              SpawnFailed, FailNotify, StartNotify, WaitForStart, WaitForStartTimesOut,
              WaitForStopped, WaitForStoppedTimesOut, Dismantle
<1>4. ASSUME NEW p \in Procs, RequestStopStep(p) \/ StopTriggeredReturns(p)
      PROVE  FALSE
  BY <1>4 DEF RequestStopStep, RequestStopLock, RequestStopNotify, StopTriggeredReturns
<1>5. ASSUME NEW u \in Threads,
             \/ RunnerStep(u) \/ HookThrows(u) \/ RunReturns(u)
             \/ \E ok \in BOOLEAN : PreRunReturns(u, ok)
      PROVE  FALSE
  BY <1>5 DEF RunnerStep, CheckStopRequested, SetRunning, NotifyRunning, RecordException,
              SetStopped, NotifyStopped, HookThrows, RunReturns, PreRunReturns, ThreadAt, ThreadGoto
<1>6. CASE \/ \E u \in Threads : Retire(u)
           \/ \E h \in Helpers : HelperRequestsStop(h)
           \/ Terminated
  BY <1>6 DEF Retire, HelperRequestsStop, Terminated, vars
<1> QED
  BY <1>1, <1>2, <1>3, <1>4, <1>5, <1>6 DEF Next, Plumbing, Hooks, CallerStep

\* m_thread is filled by the startThread that creates the thread and emptied by
\* whoever moves the thread out.
LEMMA MemberThreadStep ==
    ASSUME Next
    PROVE  m_thread' \in {m_thread, NoThread} \/ \E c \in Callers, t \in Threads : StartSpawns(c, t)
<1> USE DEF workerVars
<1>1. ASSUME NEW c \in Callers, CallerStep(c), \A u \in Threads : ~StartSpawns(c, u)
      PROVE  m_thread' \in {m_thread, NoThread}
  BY <1>1 DEF CallerStep, JoinFinishedThread, JoinThread, Join, StartRefused, StartSpawnFails,
              SpawnFailed, FailNotify, StartNotify, WaitForStart, WaitForStartTimesOut,
              WaitForStopped, WaitForStoppedTimesOut, Dismantle
<1>2. CASE \/ \E c \in Callers, o \in Operations : Begin(c, o)
           \/ \E p \in Procs : RequestStopStep(p) \/ StopTriggeredReturns(p)
  BY <1>2 DEF Begin, RequestStopStep, RequestStopLock, RequestStopNotify, StopTriggeredReturns
<1>3. CASE \E u \in Threads : \/ RunnerStep(u) \/ HookThrows(u) \/ RunReturns(u) \/ Retire(u)
                              \/ \E ok \in BOOLEAN : PreRunReturns(u, ok)
  BY <1>3 DEF RunnerStep, CheckStopRequested, SetRunning, NotifyRunning, RecordException,
              SetStopped, NotifyStopped, HookThrows, RunReturns, Retire, PreRunReturns
<1>4. CASE (\E h \in Helpers : HelperRequestsStop(h)) \/ Terminated
  BY <1>4 DEF HelperRequestsStop, Terminated, vars
<1> QED
  BY <1>1, <1>2, <1>3, <1>4 DEF Next, Plumbing, Hooks, CallerStep

\* What a call remembers stays until the next call, but for its result, which only
\* a caller that has read Stopped sets to success, or a startThread.
LEMMA CallRecordStep ==
    ASSUME TypeOK, PlaceFitsOperation, Next, NEW c \in Callers
    PROVE  \/ \E o \in Operations : Begin(c, o)
           \/ /\ op'[c] = op[c] /\ before'[c] = before[c]
              /\ res'[c] => res[c] \/ m_state = "Stopped" \/ op[c] \in StartOps
<1> USE DEF TypeOK, callVars
<1> DEFINE Kept == /\ op'[c] = op[c] /\ before'[c] = before[c]
                   /\ res'[c] => res[c] \/ m_state = "Stopped" \/ op[c] \in StartOps
<1>1. ASSUME NEW d \in Callers, NEW o \in Operations, Begin(d, o), d # c
      PROVE  Kept
  BY <1>1 DEF Begin
<1>2. ASSUME NEW d \in Callers,
             \/ StartRefused(d) \/ FailNotify(d) \/ StartNotify(d) \/ WaitForStart(d)
             \/ WaitForStartTimesOut(d)
      PROVE  Kept
  BY <1>2 DEF StartRefused, FailNotify, StartNotify, WaitForStart, WaitForStartTimesOut, At,
              Return, PlaceFitsOperation
<1>3. ASSUME NEW d \in Callers, WaitForStopped(d) \/ WaitForStoppedTimesOut(d)
      PROVE  Kept
  BY <1>3 DEF WaitForStopped, WaitForStoppedTimesOut
<1>4. ASSUME NEW d \in Callers,
             \/ JoinFinishedThread(d) \/ JoinThread(d) \/ Join(d) \/ StartSpawnFails(d)
             \/ SpawnFailed(d) \/ Dismantle(d) \/ \E t \in Threads : StartSpawns(d, t)
      PROVE  Kept
  BY <1>4 DEF JoinFinishedThread, JoinThread, Join, StartSpawnFails, SpawnFailed, Dismantle,
              StartSpawns
<1>5. CASE \E p \in Procs : RequestStopStep(p) \/ StopTriggeredReturns(p)
  BY <1>5 DEF RequestStopStep, RequestStopLock, RequestStopNotify, StopTriggeredReturns
<1>6. CASE \E u \in Threads : \/ RunnerStep(u) \/ HookThrows(u) \/ RunReturns(u) \/ Retire(u)
                              \/ \E ok \in BOOLEAN : PreRunReturns(u, ok)
  BY <1>6 DEF RunnerStep, CheckStopRequested, SetRunning, NotifyRunning, RecordException,
              SetStopped, NotifyStopped, HookThrows, RunReturns, Retire, PreRunReturns
<1>7. CASE (\E h \in Helpers : HelperRequestsStop(h)) \/ Terminated
  BY <1>7 DEF HelperRequestsStop, Terminated, vars
<1> QED
  BY <1>1, <1>2, <1>3, <1>4, <1>5, <1>6, <1>7 DEF Next, Plumbing, Hooks, CallerStep

\* A stopThreadAndJoin stops waiting only when the state is Stopped or m_thread has
\* been moved out.
LEMMA StopAndJoinStep ==
    ASSUME TypeOK, PlaceFitsOperation, Next, NEW c \in Callers,
           op[c] = "stopThreadAndJoin", op'[c] = "stopThreadAndJoin",
           pc[c] \in {"waitStopped", "sleepStopped", "joinThread"},
           pc'[c] \notin {"waitStopped", "sleepStopped", "joinThread"}
    PROVE  m_state = "Stopped" \/ m_thread' = NoThread
<1> USE DEF TypeOK, callVars
<1>1. ASSUME NEW d \in Callers, NEW o \in Operations, Begin(d, o)
      PROVE  FALSE
  BY <1>1 DEF Begin, InCall, Goto
<1>2. ASSUME NEW d \in Callers,
             \/ WaitForStopped(d) \/ WaitForStoppedTimesOut(d) \/ JoinThread(d)
      PROVE  m_state = "Stopped" \/ m_thread' = NoThread
  BY <1>2 DEF WaitForStopped, WaitForStoppedTimesOut, JoinThread, At, Goto, AfterStopTimeout
<1>3. ASSUME NEW d \in Callers,
             \/ JoinFinishedThread(d) \/ Join(d) \/ StartRefused(d) \/ StartSpawnFails(d)
             \/ SpawnFailed(d) \/ WaitForStart(d)
             \/ WaitForStartTimesOut(d) \/ Dismantle(d) \/ \E t \in Threads : StartSpawns(d, t)
      PROVE  FALSE
  BY <1>3 DEF JoinFinishedThread, Join, StartRefused, StartSpawnFails, SpawnFailed,
              WaitForStart, WaitForStartTimesOut, Dismantle, StartSpawns,
              At, Return, Goto
<1>4. ASSUME NEW d \in Callers, FailNotify(d) \/ StartNotify(d)
      PROVE  FALSE
  BY <1>4 DEF FailNotify, StartNotify, At, NotifyAllAndGoto, Woken
<1>5. ASSUME NEW p \in Procs, RequestStopStep(p) \/ StopTriggeredReturns(p)
      PROVE  FALSE
  BY <1>5 DEF RequestStopStep, RequestStopLock, RequestStopNotify, StopTriggeredReturns,
              notify_all, Woken
<1>6. ASSUME NEW u \in Threads,
             \/ RunnerStep(u) \/ HookThrows(u) \/ RunReturns(u) \/ Retire(u)
             \/ \E ok \in BOOLEAN : PreRunReturns(u, ok)
      PROVE  FALSE
  BY <1>6 DEF RunnerStep, CheckStopRequested, SetRunning, NotifyRunning, RecordException,
              SetStopped, NotifyStopped, HookThrows, RunReturns, Retire, PreRunReturns,
              notify_all, Woken
<1>7. CASE (\E h \in Helpers : HelperRequestsStop(h)) \/ Terminated
  BY <1>7 DEF HelperRequestsStop, Terminated, vars
<1> QED
  BY <1>1, <1>2, <1>3, <1>4, <1>5, <1>6, <1>7 DEF Next, Plumbing, Hooks, CallerStep

\* When stopThreadAndJoin with a timeout returns, whether the wait succeeded or timed
\* out, none of the threads it was to stop is live, unless another caller is joining it.
THEOREM StopAndJoinIsThorough == Spec => []StopAndJoinMeansExited
<1> USE WorkerAssumption
<1>1. Init => MovedOut
  BY DEF Init, MovedOut
<1>2. /\ TypeOK /\ StoppedIffIdle /\ PlaceFitsOperation /\ BeforeBorn /\ MovedOut /\ [Next]_vars
      => MovedOut'
  <2> SUFFICES ASSUME TypeOK, StoppedIffIdle, PlaceFitsOperation, BeforeBorn, MovedOut, Next
               PROVE  MovedOut'
    BY DEF vars, workerVars, callVars, MovedOut, Live
  <2> SUFFICES ASSUME NEW c \in Callers, op'[c] = "stopThreadAndJoin",
                      pc'[c] \notin {"waitStopped", "sleepStopped", "joinThread"},
                      m_thread' \in before'[c], Live(m_thread)'
               PROVE  FALSE
    BY DEF MovedOut
  <2>1. ~ \E o \in Operations : Begin(c, o)
    <3>1. ASSUME NEW o \in Operations, Begin(c, o) PROVE FALSE
      <4>1. o = "stopThreadAndJoin"
        BY <3>1 DEF Begin, TypeOK
      <4>2. pc'[c] = "waitStopped"
        BY <3>1, <4>1 DEF Begin, Goto, TypeOK, StartOps
      <4> QED
        BY <4>2
    <3> QED
      BY <3>1
  <2>2. op[c] = "stopThreadAndJoin" /\ before'[c] = before[c]
    BY <2>1, CallRecordStep
  <2>3. m_thread' \in Threads /\ tpc[m_thread'] # "unborn"
    BY <2>2 DEF TypeOK, BeforeBorn
  <2>4. \A d \in Callers : ~StartSpawns(d, m_thread')
    BY <2>3 DEF StartSpawns
  <2>5. Live(m_thread')
    BY <2>3, <2>4, LiveOnlyBySpawn DEF Live
  <2>6. m_thread' = m_thread
    <3>1. ASSUME NEW d \in Callers, NEW t \in Threads, StartSpawns(d, t) PROVE FALSE
      BY <3>1, <2>4 DEF StartSpawns
    <3> QED
      BY <3>1, <2>3, MemberThreadStep
  <2>7. pc[c] \in {"waitStopped", "sleepStopped", "joinThread"}
    BY <2>2, <2>5, <2>6 DEF MovedOut
  <2>8. m_state = "Stopped"
    BY <2>2, <2>3, <2>7, StopAndJoinStep
  <2> QED
    BY <2>3, <2>5, <2>8 DEF StoppedIffIdle, Busy
<1>3. TypeOK /\ HeldIffJoining /\ NoDetachedThread /\ MovedOut => StopAndJoinMeansExited
  <2> SUFFICES ASSUME TypeOK, HeldIffJoining, NoDetachedThread, MovedOut,
                      NEW c \in Callers, ~InCall(c), op[c] = "stopThreadAndJoin",
                      NEW t \in before[c], Live(t)
               PROVE  \E d \in Callers \ {c} : held[d] = t
    BY DEF StopAndJoinMeansExited
  <2>1. t \in Threads /\ tpc[t] \notin {"unborn", "joined"} /\ t # NoThread
    BY DEF TypeOK, Live, LiveLocations
  <2>2. m_thread # t
    BY DEF MovedOut, InCall
  <2>3. held[c] = NoThread
    BY DEF HeldIffJoining, InCall
  <2> QED
    BY <2>1, <2>2, <2>3 DEF NoDetachedThread
<1>4. QED
  BY <1>1, <1>2, <1>3, TypeCorrect, Exclusive, Bookkeeping, Ownership, PTL DEF Spec

\* The life of the object ends in a destructor.
LEMMA DestroyerStep ==
    ASSUME PlaceFitsOperation, Next, object = "alive", object' # "alive"
    PROVE  \E c \in Callers : op[c] = "destroy"
<1>1. ASSUME NEW c \in Callers, CallerStep(c)
      PROVE  Dismantle(c)
  BY <1>1 DEF CallerStep, JoinFinishedThread, JoinThread, Join, ObjectAfterJoin, StartRefused,
              StartSpawnFails, SpawnFailed, FailNotify, StartNotify, WaitForStart,
              WaitForStartTimesOut, WaitForStopped, WaitForStoppedTimesOut, StartSpawns
<1>2. ASSUME NEW c \in Callers, Dismantle(c)
      PROVE  op[c] = "destroy"
  BY <1>2 DEF Dismantle, At, PlaceFitsOperation
<1>3. CASE \/ \E c \in Callers, o \in Operations : Begin(c, o)
           \/ \E p \in Procs : RequestStopStep(p) \/ StopTriggeredReturns(p)
  BY <1>3 DEF Begin, RequestStopStep, RequestStopLock, RequestStopNotify, StopTriggeredReturns
<1>4. CASE \E u \in Threads : \/ RunnerStep(u) \/ HookThrows(u) \/ RunReturns(u) \/ Retire(u)
                              \/ \E ok \in BOOLEAN : PreRunReturns(u, ok)
  BY <1>4 DEF RunnerStep, CheckStopRequested, SetRunning, NotifyRunning, RecordException,
              SetStopped, NotifyStopped, HookThrows, RunReturns, Retire, PreRunReturns
<1>5. CASE (\E h \in Helpers : HelperRequestsStop(h)) \/ Terminated
  BY <1>5 DEF HelperRequestsStop, Terminated, vars
<1> QED
  BY <1>1, <1>2, <1>3, <1>4, <1>5 DEF Next, Plumbing, Hooks

\* The derived members go only after the hooks of every thread are over, unless the
\* stopThread() of the derived destructor has timed out.
THEOREM DerivedMembersOutliveHooks == Spec => []DerivedOutlivesHooks
<1> USE WorkerAssumption
<1> DEFINE Inv == DestroyResult /\ SomebodyDestroys
<1>1. Init => Inv
  BY DEF Init, DestroyResult, SomebodyDestroys
<1>2. /\ TypeOK /\ StoppedIffIdle /\ PlaceFitsOperation /\ DestroyerAlone /\ Inv /\ [Next]_vars
      => Inv'
  <2> SUFFICES ASSUME TypeOK, StoppedIffIdle, PlaceFitsOperation, DestroyerAlone, Inv, Next
               PROVE  Inv'
    BY DEF vars, workerVars, callVars, DestroyResult, SomebodyDestroys, Live
  <2>1. SomebodyDestroys'
    <3>1. ASSUME NEW c \in Callers, op[c] = "destroy" PROVE op'[c] = "destroy"
      <4>1. ~ \E o \in Operations : Begin(c, o)
        BY <3>1 DEF Begin
      <4> QED
        BY <3>1, <4>1, CallRecordStep
    <3>2. object' # "alive" => object # "alive" \/ \E c \in Callers : op[c] = "destroy"
      BY DestroyerStep
    <3> QED
      BY <3>1, <3>2 DEF SomebodyDestroys
  <2>2. ASSUME NEW c \in Callers, NEW o \in Operations, Begin(c, o), op'[c] = "destroy"
        PROVE  /\ \A t \in Threads : tpc'[t] # "unborn" => t \in before'[c]
               /\ ~res'[c]
    <3>1. o = "destroy"
      BY <2>2 DEF Begin, TypeOK
    <3> QED
      BY <2>2, <3>1 DEF Begin, TypeOK
  <2>3. ASSUME NEW c \in Callers, ~ \E o \in Operations : Begin(c, o), op'[c] = "destroy",
               NEW t \in Threads
        PROVE  /\ tpc'[t] # "unborn" => t \in before'[c]
               /\ res'[c] => ~Live(t)'
    <3>1. /\ op[c] = "destroy" /\ before'[c] = before[c]
          /\ res'[c] => res[c] \/ m_state = "Stopped"
      BY <2>3, CallRecordStep DEF StartOps
    <3>2. \A d \in Callers : ~StartSpawns(d, t)
      BY <3>1 DEF StartSpawns, At, PlaceFitsOperation, StartOps, DestroyerAlone, InCall
    <3>3. /\ tpc'[t] # "unborn" => tpc[t] # "unborn"
          /\ Live(t)' => Live(t)
      BY <3>2, LiveOnlyBySpawn
    <3>4. m_state = "Stopped" => ~Live(t)
      BY DEF StoppedIffIdle, Busy
    <3> QED
      BY <3>1, <3>3, <3>4 DEF DestroyResult
  <2>4. DestroyResult'
    BY <2>2, <2>3 DEF DestroyResult
  <2> QED
    BY <2>1, <2>4
<1>3. SomebodyDestroys /\ DestroyResult => DerivedOutlivesHooks
  BY DEF SomebodyDestroys, DestroyResult, DerivedOutlivesHooks, Live, LiveLocations
<1>4. QED
  BY <1>1, <1>2, <1>3, TypeCorrect, Exclusive, Bookkeeping, PTL DEF Spec

\* The base class moves a thread on outside the hooks and the check between them.
LEMMA ThreadProgress ==
    ASSUME TypeOK, NEW t \in Threads,
           \/ \E c \in Callers : CallerStep(c)
           \/ \E p \in Procs : RequestStopStep(p)
           \/ \E u \in Threads : \/ SetRunning(u) \/ NotifyRunning(u) \/ RecordException(u)
                                 \/ SetStopped(u) \/ NotifyStopped(u)
    PROVE  \/ tpc'[t] = tpc[t]
           \/ tpc[t] = "unborn" /\ tpc'[t] = "preRun"
           \/ tpc[t] = "setRunning" /\ tpc'[t] = "notifyRunning"
           \/ tpc[t] = "notifyRunning" /\ tpc'[t] = "run"
           \/ tpc[t] = "catch" /\ tpc'[t] = "setStopped"
           \/ /\ tpc[t] \in {"setStopped", "notifyStopped", "exited"}
              /\ tpc'[t] \in {"notifyStopped", "exited", "joined"}
<1> USE DEF TypeOK, callVars
<1>1. ASSUME NEW c \in Callers, NEW u \in Threads, StartSpawns(c, u)
      PROVE  tpc'[t] = tpc[t] \/ (tpc[t] = "unborn" /\ tpc'[t] = "preRun")
  BY <1>1 DEF StartSpawns
<1>2. ASSUME NEW c \in Callers, Join(c)
      PROVE  tpc'[t] = tpc[t] \/ (tpc[t] = "exited" /\ tpc'[t] = "joined")
  BY <1>2 DEF Join
<1>3. ASSUME NEW c \in Callers, CallerStep(c), ~Join(c), \A u \in Threads : ~StartSpawns(c, u)
      PROVE  tpc' = tpc
  BY <1>3 DEF CallerStep, JoinFinishedThread, JoinThread, StartRefused, StartSpawnFails,
              SpawnFailed, FailNotify, StartNotify, WaitForStart, WaitForStartTimesOut,
              WaitForStopped, WaitForStoppedTimesOut, Dismantle
<1>4. ASSUME NEW p \in Procs, RequestStopStep(p)
      PROVE  tpc' = tpc
  BY <1>4 DEF RequestStopStep, RequestStopLock, RequestStopNotify
<1>5. ASSUME NEW u \in Threads, SetRunning(u) \/ NotifyRunning(u) \/ RecordException(u)
      PROVE  \/ tpc'[t] = tpc[t]
             \/ tpc[t] = "setRunning" /\ tpc'[t] = "notifyRunning"
             \/ tpc[t] = "notifyRunning" /\ tpc'[t] = "run"
             \/ tpc[t] = "catch" /\ tpc'[t] = "setStopped"
  BY <1>5 DEF SetRunning, NotifyRunning, RecordException, ThreadAt, ThreadGoto
<1>6. ASSUME NEW u \in Threads, SetStopped(u) \/ NotifyStopped(u)
      PROVE  \/ tpc'[t] = tpc[t]
             \/ /\ tpc[t] \in {"setStopped", "notifyStopped"}
                /\ tpc'[t] \in {"notifyStopped", "exited"}
  BY <1>6 DEF SetStopped, NotifyStopped, ThreadAt, ThreadGoto
<1> QED
  BY <1>1, <1>2, <1>3, <1>4, <1>5, <1>6

-----------------------------------------------------------------------------
(* What the base class does by itself, for the derived workers that build on it. *)

\* The steps of the base class while the derived part exists or is gone: all but
\* those of the hooks and the one that takes the derived part away.
BaseStep ==
    \/ \E c \in Callers, o \in Operations : Begin(c, o)
    \/ \E c \in Callers : pc[c] # "dismantle" /\ CallerStep(c)
    \/ \E p \in Procs : RequestStopStep(p)
    \/ \E t \in Threads : RunnerStep(t)

\* The derived part of the object exists.
DerivedExists == object = "alive"

RunnerMoves(t) ==
    \/ tpc'[t] = tpc[t]
    \/ tpc[t] = "unborn" /\ tpc'[t] = "preRun"
    \/ tpc[t] = "check" /\ tpc'[t] \in {"setRunning", "setStopped"}
    \/ tpc[t] = "setRunning" /\ tpc'[t] = "notifyRunning"
    \/ tpc[t] = "notifyRunning" /\ tpc'[t] = "run"
    \/ tpc[t] = "catch" /\ tpc'[t] = "setStopped"
    \/ /\ tpc[t] \in {"setStopped", "notifyStopped", "exited"}
       /\ tpc'[t] \in {"notifyStopped", "exited", "joined"}

RequestMoves(p) ==
    \/ rs'[p] = rs[p]
    \/ rs[p] = "off" /\ rs'[p] = "lock" /\ DerivedExists /\ p \in Callers /\ pc[p] = "idle"
    \/ rs[p] = "lock" /\ rs'[p] = (IF m_state = "Stopped" THEN "notify" ELSE "notifyHook")
    \/ rs[p] = "notify" /\ rs'[p] = "off"
    \/ rs[p] = "notifyHook" /\ rs'[p] = "hook"

RaisesFlag(p) == rs[p] = "lock" /\ rs'[p] = (IF m_state = "Stopped" THEN "notify" ELSE "notifyHook")

\* The base class moves a thread on from where it is.
LEMMA RunnersMove ==
    ASSUME TypeOK, BaseStep, NEW t \in Threads
    PROVE  RunnerMoves(t)
<1>1. ASSUME NEW u \in Threads, CheckStopRequested(u)
      PROVE  tpc'[t] = tpc[t] \/ (tpc[t] = "check" /\ tpc'[t] \in {"setRunning", "setStopped"})
  BY <1>1 DEF CheckStopRequested, ThreadAt, ThreadGoto, TypeOK
<1>2. CASE \E c \in Callers, o \in Operations : Begin(c, o)
  BY <1>2 DEF Begin, RunnerMoves
<1>3. CASE \/ \E c \in Callers : CallerStep(c)
           \/ \E p \in Procs : RequestStopStep(p)
           \/ \E u \in Threads : \/ SetRunning(u) \/ NotifyRunning(u) \/ RecordException(u)
                                 \/ SetStopped(u) \/ NotifyStopped(u)
  BY <1>3, ThreadProgress DEF RunnerMoves
<1> QED
  BY <1>1, <1>2, <1>3 DEF BaseStep, RunnerStep, RunnerMoves

\* The base class requests a stop for a caller, and moves a request on to the hook.
LEMMA RequestsMove ==
    ASSUME TypeOK, BaseStep, NEW p \in Procs
    PROVE  RequestMoves(p)
<1> USE DEF TypeOK, callVars
<1>1. ASSUME NEW c \in Callers, NEW o \in Operations, Begin(c, o)
      PROVE  \/ rs'[p] = rs[p]
             \/ rs[p] = "off" /\ rs'[p] = "lock" /\ DerivedExists /\ p \in Callers /\ pc[p] = "idle"
  BY <1>1 DEF Begin, InCall, CallRequestStop, DerivedExists
<1>2. ASSUME NEW q \in Procs, RequestStopLock(q)
      PROVE  \/ rs'[p] = rs[p]
             \/ rs[p] = "lock" /\ rs'[p] = (IF m_state = "Stopped" THEN "notify" ELSE "notifyHook")
  BY <1>2 DEF RequestStopLock
<1>3. ASSUME NEW q \in Procs, RequestStopNotify(q)
      PROVE  \/ rs'[p] = rs[p]
             \/ rs[p] = "notify" /\ rs'[p] = "off"
             \/ rs[p] = "notifyHook" /\ rs'[p] = "hook"
  BY <1>3 DEF RequestStopNotify
<1>4. ASSUME NEW c \in Callers, pc[c] # "dismantle", CallerStep(c)
      PROVE  rs' = rs
  BY <1>4 DEF CallerStep, JoinFinishedThread, JoinThread, Join, StartRefused, StartSpawnFails,
              SpawnFailed, FailNotify, StartNotify, WaitForStart, WaitForStartTimesOut, At,
              WaitForStopped, WaitForStoppedTimesOut, Dismantle, StartSpawns
<1>5. ASSUME NEW u \in Threads, RunnerStep(u)
      PROVE  rs' = rs
  BY <1>5 DEF RunnerStep, CheckStopRequested, SetRunning, NotifyRunning, RecordException,
              SetStopped, NotifyStopped
<1> QED
  BY <1>1, <1>2, <1>3, <1>4, <1>5 DEF BaseStep, RequestStopStep, RequestMoves

\* The base class leaves the derived part alone, brings a caller to the destructor of
\* the derived part, and does not take it out of there.
LEMMA DestructionMoves ==
    ASSUME TypeOK, PlaceFitsOperation, BaseStep
    PROVE  /\ DerivedExists' = DerivedExists
           /\ \A c \in Callers : pc[c] = "dismantle" => pc'[c] = "dismantle"
           /\ \A c \in Callers : pc'[c] = "dismantle" /\ pc[c] # "dismantle" =>
                 rs[c] = "off" /\ rs'[c] = "off" /\ DerivedExists
<1> USE DEF TypeOK, callVars, DerivedExists, workerVars
<1> DEFINE Left == /\ DerivedExists' = DerivedExists
                   /\ \A c \in Callers : pc'[c] = "dismantle" <=> pc[c] = "dismantle"
           Kept == /\ DerivedExists' = DerivedExists
                   /\ \A c \in Callers : pc[c] = "dismantle" => pc'[c] = "dismantle"
                   /\ \A c \in Callers : pc'[c] = "dismantle" /\ pc[c] # "dismantle" =>
                         rs[c] = "off" /\ rs'[c] = "off" /\ DerivedExists
<1>1. ASSUME NEW c \in Callers, NEW o \in Operations, Begin(c, o)
      PROVE  Left
  <2>1. UNCHANGED object /\ pc[c] # "dismantle" /\ o \in AllOperations
    BY <1>1, WorkerAssumption DEF Begin, InCall
  <2>2. PICK loc \in {"joinFinished", "waitStopped", "idle"} : pc' = [pc EXCEPT ![c] = loc]
    BY <1>1, <2>1 DEF Begin, Goto, AllOperations, StartOps, StopOps
  <2> QED
    BY <2>1, <2>2
<1>2. ASSUME NEW q \in Procs, RequestStopStep(q)
      PROVE  Left
  BY <1>2 DEF RequestStopStep, RequestStopLock, RequestStopNotify, notify_all, Woken
<1>3. ASSUME NEW u \in Threads, RunnerStep(u)
      PROVE  Left
  BY <1>3 DEF RunnerStep, CheckStopRequested, SetRunning, NotifyRunning, RecordException,
              SetStopped, NotifyStopped, notify_all, Woken
<1>4. ASSUME NEW c \in Callers, StartRefused(c) \/ StartSpawnFails(c) \/ SpawnFailed(c)
                                \/ WaitForStart(c) \/ WaitForStartTimesOut(c) \/ WaitForStopped(c)
                                \/ \E t \in Threads : StartSpawns(c, t)
      PROVE  Left
  BY <1>4 DEF StartRefused, StartSpawnFails, SpawnFailed, WaitForStart, WaitForStartTimesOut,
              WaitForStopped, At, Goto, Return, StartSpawns
<1>5. ASSUME NEW c \in Callers, FailNotify(c) \/ StartNotify(c)
      PROVE  Left
  BY <1>5 DEF FailNotify, StartNotify, At, NotifyAllAndGoto, Woken
<1>6. ASSUME NEW c \in Callers, JoinFinishedThread(c)
      PROVE  Kept
  BY <1>6 DEF JoinFinishedThread, At, Goto, AfterJoin
<1>7. ASSUME NEW c \in Callers, JoinThread(c)
      PROVE  Kept
  BY <1>7 DEF JoinThread, At, Goto, AfterJoin, ObjectAfterJoin
<1>8. ASSUME NEW c \in Callers, Join(c)
      PROVE  Kept
  BY <1>8 DEF Join, At, Goto, AfterJoin, ObjectAfterJoin
<1>9. ASSUME NEW c \in Callers, WaitForStoppedTimesOut(c)
      PROVE  Kept
  BY <1>9 DEF WaitForStoppedTimesOut, At, Goto, AfterStopTimeout, PlaceFitsOperation
<1>10. ASSUME NEW c \in Callers, pc[c] # "dismantle", Dismantle(c)
       PROVE  FALSE
  BY <1>10 DEF Dismantle, At
<1>11. Left => Kept
  OBVIOUS
<1> QED
  BY <1>1, <1>2, <1>3, <1>4, <1>5, <1>6, <1>7, <1>8, <1>9, <1>10, <1>11 DEF BaseStep, CallerStep

\* The base class raises the stop flag in requestStop only.
LEMMA FlagIsRaised ==
    ASSUME TypeOK, BaseStep, m_stopRequested', ~m_stopRequested
    PROVE  \E p \in Procs : RaisesFlag(p)
<1> USE DEF TypeOK, workerVars
<1>1. ASSUME NEW c \in Callers, NEW o \in Operations, Begin(c, o)
      PROVE  FALSE
  BY <1>1 DEF Begin
<1>2. ASSUME NEW q \in Procs, RequestStopLock(q)
      PROVE  RaisesFlag(q)
  BY <1>2 DEF RequestStopLock, RaisesFlag
<1>3. ASSUME NEW q \in Procs, RequestStopNotify(q)
      PROVE  FALSE
  BY <1>3 DEF RequestStopNotify
<1>4. ASSUME NEW c \in Callers, CallerStep(c)
      PROVE  FALSE
  BY <1>4 DEF CallerStep, JoinFinishedThread, JoinThread, Join, StartRefused, StartSpawnFails,
              SpawnFailed, FailNotify, StartNotify, WaitForStart, WaitForStartTimesOut,
              WaitForStopped, WaitForStoppedTimesOut, Dismantle, StartSpawns, StartBegun
<1>5. ASSUME NEW u \in Threads, RunnerStep(u)
      PROVE  FALSE
  BY <1>5 DEF RunnerStep, CheckStopRequested, SetRunning, NotifyRunning, RecordException,
              SetStopped, NotifyStopped
<1> QED
  BY <1>1, <1>2, <1>3, <1>4, <1>5 DEF BaseStep, RequestStopStep
=============================================================================
