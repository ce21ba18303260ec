-------------------------- MODULE TcpClientProofs --------------------------
(***************************************************************************)
(* TcpClient implements BaseWorker, for any callers, senders and           *)
(* descriptors: the theorems of BaseWorkerProofs hold for the client.  The *)
(* places of its threads (Places) carry three more invariants: somebody is *)
(* about to wake a writer that must wake up (WakeInv), a descriptor has    *)
(* one owner who closes it (SocketInv), and what a session did is over     *)
(* when its thread is (TraceInv).                                          *)
(***************************************************************************)
EXTENDS TcpClient, BaseWorkerProofs

\* The steps of preRun: the socket is set up behind the base class's back, and
\* preRun returns.
LEMMA PreRunAllowed ==
    ASSUME NEW t \in Threads, PreRunStep(t)
    PROVE  Next \/ UNCHANGED vars
<1>1. CASE ClearOutbound(t) \/ OpenSocket(t) \/ StoreSocket(t) \/ NotConnected(t)
           \/ FailedTakesSocket(t)
    BY <1>1 DEF ClearOutbound, OpenSocket, StoreSocket, NotConnected, FailedTakesSocket
<1>2. CASE NoSocket(t) \/ Connected(t) \/ FailedCloses(t)
    <2>1. \E ok \in BOOLEAN : PreRunReturns(t, ok)
        BY <1>2, Zenon DEF NoSocket, Connected, FailedCloses
    <2>2. QED BY <2>1, Zenon DEF Next, Hooks
<1>3. QED BY <1>1, <1>2, Zenon DEF PreRunStep

\* The steps of run(): threads are created and joined, a stop is requested.
LEMMA RunAllowed ==
    ASSUME NEW t \in Threads, RunStep(t) \/ SpawnThrows(t)
    PROVE  Next \/ UNCHANGED vars
<1>1. CASE SpawnLoops(t) \/ RunNotifies(t)
    BY <1>1 DEF SpawnLoops, RunNotifies
<1>2. CASE JoinReader(t) \/ JoinWriter(t) \/ SpawnThrows(t)
    <2>1. HookThrows(t) \/ RunReturns(t) \/ Retire(t)
        BY <1>2, Zenon DEF JoinReader, JoinWriter, SpawnThrows
    <2>2. QED BY <2>1, Zenon DEF Next, Hooks
<1>3. QED BY <1>1, <1>2, Zenon DEF RunStep

\* The steps of stopTriggered.
LEMMA HookAllowed ==
    ASSUME NEW p \in Procs, HookStep(p)
    PROVE  Next \/ UNCHANGED vars
<1>1. CASE HookTakesSocket(p) \/ HookCloses(p) \/ HookClears(p) \/ HookNotifies(p)
    BY <1>1 DEF HookTakesSocket, HookCloses, HookClears, HookNotifies
<1>2. CASE HookReturns(p) \/ BaseHookReturns(p)
    <2>1. StopTriggeredReturns(p)
        BY <1>2, Zenon DEF HookReturns, BaseHookReturns
    <2>2. QED BY <2>1, Zenon DEF Next, Hooks
<1>3. QED BY <1>1, <1>2, Zenon DEF HookStep

\* The steps of readLoop and writeLoop: the base class sees nothing of them but
\* the stops they request.
LEMMA LoopsAllowed ==
    ASSUME ReaderStep \/ RecvGoesOn \/ RecvEnds \/ WriterStep \/ SendGoesOn \/ SendFails \/ BrokenPipe
    PROVE  Next \/ UNCHANGED vars
<1>1. CASE ReaderChecks \/ ReaderLoads \/ ReaderCallsRecv \/ RecvGoesOn \/ RecvEnds
    BY <1>1 DEF ReaderChecks, ReaderLoads, ReaderCallsRecv, RecvGoesOn, RecvEnds
<1>2. CASE WriterChecks \/ WriterWaits \/ WriterSleeps \/ WriterLoads \/ WriterCallsSend
           \/ SendGoesOn \/ SendFails \/ BrokenPipe
    BY <1>2 DEF WriterChecks, WriterWaits, WriterSleeps, WriterLoads, WriterCallsSend,
                SendGoesOn, SendFails, BrokenPipe, WriterMoves
<1>3. CASE ReaderStops \/ WriterStops
    <2>1. Reader \in Helpers /\ Writer \in Helpers
        BY ClientAssumption
    <2>2. \E h \in Helpers : HelperRequestsStop(h)
        BY <1>3, <2>1, Zenon DEF ReaderStops, WriterStops
    <2>3. QED BY <2>2, Zenon DEF Next, Hooks
<1>4. QED BY <1>1, <1>2, <1>3, Zenon DEF ReaderStep, WriterStep

\* send, the destructor and the rest of the application.
LEMMA SendAllowed ==
    ASSUME NEW s \in Senders, SendChecks(s) \/ SendPushes(s) \/ SendNotifies(s)
    PROVE  UNCHANGED vars
BY DEF SendChecks, SendPushes, SendNotifies

\* The destructor closes the socket before the base class's destructor begins.
LEMMA DestructorAllowed ==
    ASSUME NEW c \in Callers, DestructorTakesSocket(c) \/ DestructorCloses(c)
    PROVE  Next \/ UNCHANGED vars
<1>1. CASE DestructorTakesSocket(c)
    BY <1>1 DEF DestructorTakesSocket
<1>2. CASE DestructorCloses(c)
    <2>1. CallerStep(c)
        BY <1>2, Zenon DEF DestructorCloses, CallerStep
    <2>2. QED BY <2>1, Zenon DEF Next, Plumbing
<1>3. QED BY <1>1, <1>2

\* What the client does not refine is the base class's own.
LEMMA BasePartAllowed ==
    ASSUME BasePart
    PROVE  Next
BY Zenon DEF BasePart, Next, Plumbing

\* TCPClient_V2 is a cBaseWorker_V2: every step of the client, of its loops, its
\* hooks and its destructor is a step that BaseWorker allows, or none of its
\* business.
THEOREM ClientIsBaseWorker == ClientSpec => ImplementsBaseWorker
<1>1. ClientInit => Init
    BY DEF ClientInit
<1>2. [ClientNext]_allVars => [Next]_vars
    <2>1. SUFFICES ASSUME [ClientNext]_allVars
                   PROVE  Next \/ UNCHANGED vars
        OBVIOUS
    <2>2. CASE BasePart
        BY <2>2, BasePartAllowed
    <2>3. CASE \E t \in Threads : PreRunStep(t) \/ RunStep(t) \/ SpawnThrows(t)
        BY <2>3, PreRunAllowed, RunAllowed, Zenon
    <2>4. CASE \E p \in Procs : HookStep(p)
        BY <2>4, HookAllowed, Zenon
    <2>5. CASE ReaderStep \/ RecvGoesOn \/ RecvEnds \/ WriterStep \/ SendGoesOn \/ SendFails \/ BrokenPipe
        BY <2>5, LoopsAllowed, Zenon
    <2>6. CASE \E s \in Senders : (SendChecks(s) /\ \A c \in Callers : op[c] # "destroy")
                                  \/ SendPushes(s) \/ SendNotifies(s)
        BY <2>6, SendAllowed, Zenon
    <2>7. CASE \E c \in Callers : DestructorTakesSocket(c) \/ DestructorCloses(c)
        BY <2>7, DestructorAllowed, Zenon
    <2>8. CASE OtherOpens \/ ClientTerminated \/ UNCHANGED allVars
        BY <2>8 DEF OtherOpens, ClientTerminated, allVars
    <2>9. QED
        BY <2>1, <2>2, <2>3, <2>4, <2>5, <2>6, <2>7, <2>8, Zenon DEF ClientNext, InProcess, ClientStep
<1>3. QED
    BY <1>1, <1>2, PTL DEF ClientSpec, ImplementsBaseWorker, Spec

\* The socket, the queue, the descriptors and the places of the client keep their
\* types, for any callers, senders, threads and descriptors.
THEOREM ClientTypeCorrect == ClientSpec => []ClientTypeOK
<1> USE ClientAssumption, WorkerAssumption
<1>1. ClientInit => ClientTypeOK
    BY DEF ClientInit, ClientTypeOK
<1>2. ClientTypeOK /\ [ClientNext]_allVars => ClientTypeOK'
    <2> SUFFICES ASSUME ClientTypeOK, [ClientNext]_allVars
                 PROVE  ClientTypeOK'
        OBVIOUS
    <2> USE DEF ClientTypeOK, Procs, Forget, TakeSocket, CloseTaken, NotifyWriter, StageGoto, HookGoto
    <2>1. CASE BasePart
        BY <2>1 DEF BasePart, clientVars
    <2>2. ASSUME NEW t \in Threads, PreRunStep(t)
          PROVE  ClientTypeOK'
        <3>1. CASE ClearOutbound(t) \/ StoreSocket(t) \/ NotConnected(t) \/ FailedTakesSocket(t)
            BY <3>1 DEF ClearOutbound, StoreSocket, NotConnected, FailedTakesSocket
        <3>2. CASE OpenSocket(t)
            BY <3>2 DEF OpenSocket, Free
        <3>3. CASE NoSocket(t)
            BY <3>3 DEF NoSocket, clientVars
        <3>4. CASE Connected(t)
            BY <3>4 DEF Connected
        <3>5. CASE FailedCloses(t)
            BY <3>5 DEF FailedCloses
        <3>6. QED
            BY <2>2, <3>1, <3>2, <3>3, <3>4, <3>5 DEF PreRunStep
    <2>3. ASSUME NEW t \in Threads, RunStep(t) \/ SpawnThrows(t)
          PROVE  ClientTypeOK'
        BY <2>3 DEF RunStep, SpawnLoops, JoinReader, RunNotifies, JoinWriter, SpawnThrows, clientVars
    <2>4. ASSUME NEW p \in Procs, HookStep(p)
          PROVE  ClientTypeOK'
        BY <2>4 DEF HookStep, HookTakesSocket, HookCloses, HookClears, HookNotifies, HookReturns,
                    BaseHookReturns, clientVars
    <2>5. CASE ReaderStep \/ RecvGoesOn \/ RecvEnds
        <3>1. CASE ReaderCallsRecv
            <4>1. AfterCall(fd[Reader]) \in {"blocked", "astray", "stop"}
                BY DEF AfterCall
            <4>2. QED
                BY <3>1, <4>1 DEF ReaderCallsRecv
        <3>2. CASE ReaderChecks \/ ReaderLoads \/ ReaderStops \/ RecvGoesOn \/ RecvEnds
            BY <3>2 DEF ReaderChecks, ReaderLoads, ReaderStops, RecvGoesOn, RecvEnds
        <3>3. QED
            BY <2>5, <3>1, <3>2 DEF ReaderStep
    <2>6. CASE WriterStep \/ SendGoesOn \/ SendFails \/ BrokenPipe
        <3> USE DEF WriterMoves
        <3>1. CASE WriterCallsSend
            <4>1. AfterCall(fd[Writer]) \in {"blocked", "astray", "stop"}
                BY DEF AfterCall
            <4>2. QED
                BY <3>1, <4>1 DEF WriterCallsSend
        <3>2. CASE WriterWaits
            BY <3>2 DEF WriterWaits
        <3>3. CASE WriterChecks \/ WriterSleeps \/ WriterLoads \/ WriterStops \/ SendGoesOn \/ SendFails \/ BrokenPipe
            BY <3>3 DEF WriterChecks, WriterSleeps, WriterLoads, WriterStops, SendGoesOn, SendFails, BrokenPipe
        <3>4. QED
            BY <2>6, <3>1, <3>2, <3>3 DEF WriterStep
    <2>7. ASSUME NEW s \in Senders, SendChecks(s) \/ SendPushes(s) \/ SendNotifies(s)
          PROVE  ClientTypeOK'
        BY <2>7 DEF SendChecks, SendPushes, SendNotifies
    <2>8. ASSUME NEW c \in Callers, DestructorTakesSocket(c) \/ DestructorCloses(c)
          PROVE  ClientTypeOK'
        BY <2>8 DEF DestructorTakesSocket, DestructorCloses
    <2>9. CASE OtherOpens
        BY <2>9 DEF OtherOpens, Free
    <2>10. CASE ClientTerminated \/ UNCHANGED allVars
        BY <2>10 DEF ClientTerminated, allVars, clientVars
    <2>11. QED
        BY <2>1, <2>2, <2>3, <2>4, <2>5, <2>6, <2>7, <2>8, <2>9, <2>10 DEF ClientNext, InProcess, ClientStep
<1>3. QED
    BY <1>1, <1>2, PTL DEF ClientSpec

\* The steps that the client leaves to the base class.
LEMMA BasePartIsBaseStep == BasePart => BaseStep
BY Zenon DEF BasePart, BaseStep

-----------------------------------------------------------------------------
(* Places: where the threads of the client are at the same time.             *)

LoopStages == {"joinReader", "notify", "joinWriter"}

\* The place in preRun or run fits the place in threadRunner.
StageFits ==
    \A t \in Threads :
        /\ tpc[t] = "unborn" => stage[t] = "clear"
        /\ tpc[t] = "preRun" =>
              stage[t] \in {"clear", "socket", "store", "connect", "failed", "failClose"}
        /\ tpc[t] \in {"check", "setRunning", "notifyRunning"} => stage[t] = "spawn"
        /\ tpc[t] = "run" => stage[t] \in {"spawn"} \cup LoopStages

\* Which threads of the client request stops, and when.
StopsFit ==
    /\ \A t \in Threads : rs[t] # "off" => tpc[t] = "run" /\ stage[t] = "notify"
    /\ \A h \in Helpers : rs[h] # "off" => rpc # "off" \/ wpc # "off"

\* stopTriggered is entered at its first statement.
HookFresh ==
    \A p \in Procs :
        \/ rs[p] = "hook" \/ hook[p] = "exchange"
        \/ p \in Callers /\ rs[p] = "off" /\ pc[p] = "dismantle" /\ hook[p] = "close"
        \/ rs[p] = "off" /\ ~Exists

\* The loops run only while a thread in run() will join them.
LoopsBelong ==
    rpc # "off" \/ wpc # "off" => \E t \in Threads : tpc[t] = "run" /\ stage[t] \in LoopStages

ServedRan ==
    \A t \in served :
        /\ tpc[t] \in {"run", "setStopped", "notifyStopped", "exited", "joined"}
        /\ tpc[t] = "run" => stage[t] \in LoopStages

Places == StageFits /\ StopsFit /\ HookFresh /\ LoopsBelong /\ ServedRan

\* A client that was never started is in place.
LEMMA InitEstablishesPlaces == ClientInit => Places
BY DEF Procs, ClientInit, Init, Places, StageFits, StopsFit, HookFresh, LoopsBelong, ServedRan

\* Steps of the base class.
LEMMA BaseKeepsPlaces ==
    ASSUME TypeOK, ClientTypeOK, PlaceFitsOperation, Places, BasePart
    PROVE  Places'
<1> USE ClientAssumption, WorkerAssumption DEF Places, Procs
<1>1. UNCHANGED <<stage, hook, rpc, wpc, served>>
  BY DEF BasePart, clientVars
<1>2. \A t \in Threads : RunnerMoves(t)
  BY BasePartIsBaseStep, RunnersMove
<1>3. \A p \in Procs : RequestMoves(p)
  BY BasePartIsBaseStep, RequestsMove
<1>4. StageFits' /\ ServedRan' /\ LoopsBelong'
  BY <1>1, <1>2 DEF StageFits, ServedRan, LoopsBelong, RunnerMoves, LoopStages, ClientTypeOK
<1>5. StopsFit'
  <2>1. ASSUME NEW p \in Threads \cup Helpers, rs'[p] # "off"
        PROVE  rs[p] # "off"
    BY <1>3, <2>1 DEF RequestMoves
  <2> QED
    BY <1>1, <1>2, <2>1 DEF StopsFit, RunnerMoves
<1>6. HookFresh'
  <2> SUFFICES ASSUME NEW p \in Procs
               PROVE  \/ rs'[p] = "hook" \/ hook'[p] = "exchange"
                      \/ p \in Callers /\ rs'[p] = "off" /\ pc'[p] = "dismantle" /\ hook'[p] = "close"
                      \/ rs'[p] = "off" /\ ~Exists'
    BY DEF HookFresh
  <2>1. Exists' = Exists /\ (p \in Callers /\ pc[p] = "dismantle" => pc'[p] = "dismantle")
    BY BasePartIsBaseStep, DestructionMoves DEF Exists, DerivedExists
  <2>2. RequestMoves(p)
    BY <1>3
  <2> QED
    BY <1>1, <2>1, <2>2 DEF HookFresh, RequestMoves, Exists, DerivedExists
<1> QED
  BY <1>4, <1>5, <1>6

\* Steps of preRun and run.
LEMMA WorkerKeepsPlaces ==
    ASSUME TypeOK, ClientTypeOK, OneAttempt, Places, NEW t \in Threads,
           PreRunStep(t) \/ RunStep(t) \/ SpawnThrows(t)
    PROVE  Places'
<1> USE ClientAssumption, WorkerAssumption DEF Places, Procs, TypeOK, ClientTypeOK, StageGoto,
        ThreadAt, ThreadGoto, vars, workerVars, callVars, LoopStages
<1>0. \A u \in Threads : tpc[t] \in {"preRun", "run"} /\ tpc[u] = "run" => u = t
  BY DEF OneAttempt, Busy, Live, LiveLocations
<1>1. CASE \/ ClearOutbound(t) \/ OpenSocket(t) \/ StoreSocket(t) \/ NotConnected(t)
           \/ FailedTakesSocket(t)
  <2>1. /\ tpc[t] = "preRun"
        /\ \E loc \in {"socket", "store", "connect", "failed", "failClose"} :
              stage' = [stage EXCEPT ![t] = loc]
        /\ UNCHANGED <<tpc, rs, hook, pc, object, rpc, wpc, served>>
    BY <1>1 DEF ClearOutbound, OpenSocket, StoreSocket, NotConnected, FailedTakesSocket, InPreRun
  <2> QED
    BY <2>1 DEF StageFits, StopsFit, HookFresh, Exists, LoopsBelong, ServedRan
<1>2. CASE NoSocket(t) \/ FailedCloses(t)
  <2>1. /\ tpc[t] = "preRun" /\ rs[t] = "off"
        /\ tpc' = [tpc EXCEPT ![t] = "setStopped"]
        /\ UNCHANGED <<stage, rs, hook, pc, object, rpc, wpc, served>>
    BY <1>2 DEF NoSocket, FailedCloses, InPreRun, PreRunReturns, clientVars
  <2> QED
    BY <2>1 DEF StageFits, StopsFit, HookFresh, Exists, LoopsBelong, ServedRan
<1>3. CASE Connected(t)
  <2>1. /\ tpc[t] = "preRun" /\ rs[t] = "off"
        /\ tpc' = [tpc EXCEPT ![t] = "check"] /\ stage' = [stage EXCEPT ![t] = "spawn"]
        /\ UNCHANGED <<rs, hook, pc, object, rpc, wpc, served>>
    BY <1>3 DEF Connected, InPreRun, PreRunReturns
  <2> QED
    BY <2>1 DEF StageFits, StopsFit, HookFresh, Exists, LoopsBelong, ServedRan
<1>4. CASE SpawnLoops(t)
  BY <1>4 DEF SpawnLoops, InRunAt, StageFits, StopsFit, HookFresh, Exists, LoopsBelong, ServedRan
<1>5. CASE SpawnThrows(t)
  <2>1. /\ tpc[t] = "run" /\ rs[t] = "off" /\ stage[t] = "spawn"
        /\ tpc' = [tpc EXCEPT ![t] = "catch"]
        /\ UNCHANGED <<stage, rs, hook, pc, object, rpc, wpc, served>>
    BY <1>5 DEF SpawnThrows, InRunAt, HookThrows, clientVars
  <2> QED
    BY <2>1, <1>0 DEF StageFits, StopsFit, HookFresh, Exists, LoopsBelong, ServedRan
<1>6. CASE JoinReader(t)
  BY <1>6 DEF JoinReader, InRunAt, Retire, CallRequestStop, StageFits, StopsFit, HookFresh, Exists,
              LoopsBelong, ServedRan
<1>7. CASE RunNotifies(t)
  BY <1>7, <1>0 DEF RunNotifies, NotifyWriter, InRunAt, StageFits, StopsFit, HookFresh, Exists, LoopsBelong,
              ServedRan
<1>8. CASE JoinWriter(t)
  <2>1. /\ tpc[t] = "run" /\ rs[t] = "off" /\ \A h \in Helpers : rs[h] = "off"
        /\ tpc' = [tpc EXCEPT ![t] = "setStopped"]
        /\ rpc' = "off" /\ wpc' = "off"
        /\ UNCHANGED <<stage, rs, hook, pc, object, served>>
    BY <1>8 DEF JoinWriter, InRunAt, RunReturns, HelpersDone
  <2> QED
    BY <2>1 DEF StageFits, StopsFit, HookFresh, Exists, LoopsBelong, ServedRan
<1> QED
  BY <1>1, <1>2, <1>3, <1>4, <1>5, <1>6, <1>7, <1>8 DEF PreRunStep, RunStep

\* Steps of stopTriggered.
LEMMA HookKeepsPlaces ==
    ASSUME TypeOK, ClientTypeOK, Places, NEW p \in Procs, HookStep(p)
    PROVE  Places'
<1> USE ClientAssumption, WorkerAssumption DEF Places, Procs, TypeOK, ClientTypeOK, HookGoto, vars,
        workerVars, callVars
<1>1. CASE HookTakesSocket(p) \/ HookCloses(p) \/ HookClears(p) \/ HookNotifies(p)
  <2>1. /\ rs[p] = "hook"
        /\ \E loc \in {"close", "clear", "notify", "return"} : hook' = [hook EXCEPT ![p] = loc]
        /\ wpc' = wpc \/ (wpc = "asleep" /\ wpc' = "wait")
        /\ UNCHANGED <<tpc, stage, rs, pc, object, rpc, served>>
    BY <1>1 DEF HookTakesSocket, HookCloses, HookClears, HookNotifies, HookAt, NotifyWriter
  <2>2. StageFits' /\ LoopsBelong' /\ ServedRan'
    BY <2>1 DEF StageFits, LoopsBelong, ServedRan
  <2>3. StopsFit' /\ HookFresh'
    BY <2>1 DEF StopsFit, HookFresh, Exists
  <2> QED
    BY <2>2, <2>3
<1>2. CASE HookReturns(p) \/ BaseHookReturns(p)
  <2>1. /\ rs[p] = "hook" /\ rs' = [rs EXCEPT ![p] = "off"]
        /\ hook' = [hook EXCEPT ![p] = "exchange"] \/ (~Exists /\ UNCHANGED hook)
        /\ UNCHANGED <<tpc, stage, pc, object, rpc, wpc, served>>
    BY <1>2 DEF HookReturns, BaseHookReturns, StopTriggeredReturns, HookAt, clientVars
  <2>2. StageFits' /\ LoopsBelong' /\ ServedRan'
    BY <2>1 DEF StageFits, LoopsBelong, ServedRan
  <2>3. StopsFit' /\ HookFresh'
    BY <2>1 DEF StopsFit, HookFresh, Exists
  <2> QED
    BY <2>2, <2>3
<1> QED
  BY <1>1, <1>2 DEF HookStep

\* Steps of the loops: they end in "done" and are put to "off" by run() only.
LEMMA LoopsKeepPlaces ==
    ASSUME TypeOK, ClientTypeOK, Places,
           ReaderStep \/ RecvGoesOn \/ RecvEnds \/ WriterStep \/ SendGoesOn \/ SendFails \/ BrokenPipe
    PROVE  Places'
<1> USE ClientAssumption, WorkerAssumption DEF Places, Procs, TypeOK, ClientTypeOK, vars, workerVars,
        callVars
<1>1. AfterCall(fd[Reader]) # "off" /\ AfterCall(fd[Writer]) # "off"
  BY DEF AfterCall
<1>2. CASE \/ ReaderChecks \/ ReaderLoads \/ ReaderCallsRecv \/ RecvGoesOn \/ RecvEnds
           \/ WriterChecks \/ WriterWaits \/ WriterSleeps \/ WriterLoads \/ WriterCallsSend
           \/ SendGoesOn \/ SendFails \/ BrokenPipe
  <2>1. /\ rpc # "off" \/ wpc # "off"
        /\ rpc' = "off" <=> rpc = "off"
        /\ wpc' = "off" <=> wpc = "off"
        /\ UNCHANGED <<tpc, stage, rs, hook, pc, object, served>>
    <3>1. CASE ReaderChecks \/ ReaderLoads \/ ReaderCallsRecv \/ RecvGoesOn \/ RecvEnds
      BY <1>1, <3>1 DEF ReaderChecks, ReaderLoads, ReaderCallsRecv, RecvGoesOn, RecvEnds, ReaderAt
    <3>2. CASE WriterChecks \/ WriterWaits \/ WriterSleeps \/ WriterLoads \/ WriterCallsSend
      BY <1>1, <3>2 DEF WriterChecks, WriterWaits, WriterSleeps, WriterLoads, WriterCallsSend,
                        WriterMoves, WriterAt
    <3>3. CASE SendGoesOn \/ SendFails \/ BrokenPipe
      BY <3>3 DEF SendGoesOn, SendFails, BrokenPipe, WriterMoves, WriterAt
    <3> QED
      BY <1>2, <3>1, <3>2, <3>3
  <2> QED
    BY <2>1 DEF StageFits, StopsFit, HookFresh, Exists, LoopsBelong, ServedRan
<1>3. CASE ReaderStops \/ WriterStops
  <2>1. PICK h \in {Reader, Writer} :
          /\ rs[h] = "off" /\ rs' = [rs EXCEPT ![h] = "lock"]
          /\ rpc # "off" \/ wpc # "off"
          /\ rpc' # "off" \/ wpc' # "off"
          /\ Exists
          /\ UNCHANGED <<tpc, stage, hook, pc, object, served>>
    BY <1>3 DEF ReaderStops, WriterStops, ReaderAt, WriterAt, HelperRequestsStop, CallRequestStop
  <2>2. h \notin Callers /\ h \notin Threads
    BY <2>1
  <2>3. StageFits' /\ LoopsBelong' /\ ServedRan'
    BY <2>1 DEF StageFits, LoopsBelong, ServedRan
  <2>4. StopsFit' /\ HookFresh'
    BY <2>1, <2>2 DEF StopsFit, HookFresh, Exists
  <2> QED
    BY <2>3, <2>4
<1> QED
  BY <1>2, <1>3 DEF ReaderStep, WriterStep

\* Steps of send, of the destructor and of the rest of the application.
LEMMA OthersKeepPlaces ==
    ASSUME TypeOK, ClientTypeOK, Places,
           \/ \E s \in Senders : SendChecks(s) \/ SendPushes(s) \/ SendNotifies(s)
           \/ \E c \in Callers : DestructorTakesSocket(c) \/ DestructorCloses(c)
           \/ OtherOpens \/ ClientTerminated \/ UNCHANGED allVars
    PROVE  Places'
<1> USE ClientAssumption, WorkerAssumption DEF Places, Procs, TypeOK, ClientTypeOK, HookGoto, vars,
        workerVars, callVars, clientVars
<1>1. CASE \E s \in Senders : SendChecks(s) \/ SendPushes(s) \/ SendNotifies(s)
  <2>1. /\ UNCHANGED <<tpc, stage, rs, hook, pc, object, rpc, served>>
        /\ wpc' = wpc \/ (wpc = "asleep" /\ wpc' = "wait")
    BY <1>1 DEF SendChecks, SendPushes, SendNotifies, NotifyWriter
  <2> QED
    BY <2>1 DEF StageFits, StopsFit, HookFresh, Exists, LoopsBelong, ServedRan
<1>2. ASSUME NEW c \in Callers, DestructorTakesSocket(c)
      PROVE  Places'
  <2>1. /\ rs[c] = "off" /\ pc[c] = "dismantle" /\ hook' = [hook EXCEPT ![c] = "close"]
        /\ UNCHANGED <<tpc, stage, rs, pc, object, rpc, wpc, served>>
    BY <1>2 DEF DestructorTakesSocket, At
  <2> QED
    BY <2>1 DEF StageFits, StopsFit, HookFresh, Exists, LoopsBelong, ServedRan
<1>3. ASSUME NEW c \in Callers, DestructorCloses(c)
      PROVE  Places'
  <2>1. /\ rs[c] = "off" /\ pc[c] = "dismantle" /\ hook' = [hook EXCEPT ![c] = "exchange"]
        /\ rs' = [rs EXCEPT ![c] = "lock"] /\ pc' = [pc EXCEPT ![c] = "joinThread"]
        /\ object' = "derivedGone"
        /\ UNCHANGED <<tpc, stage, rpc, wpc, served>>
    BY <1>3 DEF DestructorCloses, Dismantle, CallRequestStop, Goto, At
  <2>2. StageFits' /\ LoopsBelong' /\ ServedRan'
    BY <2>1 DEF StageFits, LoopsBelong, ServedRan
  <2>3. StopsFit' /\ HookFresh'
    BY <2>1 DEF StopsFit, HookFresh, Exists
  <2> QED
    BY <2>2, <2>3
<1>4. CASE OtherOpens \/ ClientTerminated \/ UNCHANGED allVars
  <2>1. UNCHANGED <<tpc, stage, rs, hook, pc, object, rpc, wpc, served>>
    BY <1>4 DEF OtherOpens, ClientTerminated, allVars
  <2> QED
    BY <2>1 DEF StageFits, StopsFit, HookFresh, Exists, LoopsBelong, ServedRan
<1> QED
  BY <1>1, <1>2, <1>3, <1>4

\* The places fit in every state of the client, however starts, stops and the
\* destructor interleave.
LEMMA PlacesInvariant == ClientSpec => []Places
<1>1. /\ TypeOK /\ OneAttempt /\ PlaceFitsOperation /\ ClientTypeOK /\ Places /\ [ClientNext]_allVars
      => Places'
  BY BaseKeepsPlaces, WorkerKeepsPlaces, HookKeepsPlaces, LoopsKeepPlaces, OthersKeepPlaces, Zenon
     DEF ClientNext, InProcess, ClientStep
<1> QED
  BY <1>1, InitEstablishesPlaces, ClientIsBaseWorker, ClientTypeCorrect, TypeCorrect, Exclusive,
     Bookkeeping, PTL DEF ClientSpec, ImplementsBaseWorker

-----------------------------------------------------------------------------
(* The sleep of the writer.                                                  *)

\* Somebody who has raised the stop flag has yet to notify the writer.
Due(p) == rs[p] \in {"notifyHook", "hook"} /\ hook[p] # "return"

\* ... and has yet to take the mutex of the queue before that.
DueAfterLock(p) == rs[p] \in {"notifyHook", "hook"} /\ hook[p] \in {"exchange", "close", "clear"}

\* What makes WriterIsWoken inductive: between the check of the predicate and the
\* sleep the writer holds the mutex, through which everybody has to come who raises the
\* flag, or pushes a message, before he notifies.
WakeInv ==
    Exists =>
        /\ wpc = "willSleep" => outbound = 0 /\ (m_stopRequested => \E p \in Procs : DueAfterLock(p))
        /\ wpc = "asleep" /\ m_stopRequested => \E p \in Procs : Due(p)
        /\ wpc = "asleep" /\ outbound > 0 =>
              (\E p \in Procs : Due(p)) \/ \E s \in Senders : spc[s] = "notify"

\* Steps of the base class.
LEMMA BaseKeepsWake ==
    ASSUME TypeOK, StoppedIffIdle, PlaceFitsOperation, ClientTypeOK, Places, WakeInv, BasePart
    PROVE  WakeInv'
<1>1. UNCHANGED <<outbound, hook, wpc, spc>> /\ Exists' = Exists
  BY BasePartIsBaseStep, DestructionMoves DEF BasePart, clientVars, Exists, DerivedExists
<1>2. ASSUME NEW p \in Procs
      PROVE  (Due(p) => Due(p)') /\ (DueAfterLock(p) => DueAfterLock(p)')
  BY <1>1, BasePartIsBaseStep, RequestsMove DEF RequestMoves, Due, DueAfterLock
<1>3. ASSUME wpc \in {"willSleep", "asleep"}, Exists, m_stopRequested', ~m_stopRequested
      PROVE  \E p \in Procs : Due(p)' /\ DueAfterLock(p)'
  <2>1. PICK p \in Procs : RaisesFlag(p)
    BY <1>3, BasePartIsBaseStep, FlagIsRaised
  <2>2. m_state # "Stopped"
    BY <1>3 DEF Places, LoopsBelong, StoppedIffIdle, Busy, Live, LiveLocations
  <2>3. rs'[p] = "notifyHook" /\ hook'[p] = "exchange"
    BY <1>1, <2>1, <2>2 DEF RaisesFlag, Places, HookFresh
  <2> QED
    BY <2>3 DEF Due, DueAfterLock
<1> QED
  BY <1>1, <1>2, <1>3 DEF WakeInv

\* Steps of preRun and run.
LEMMA WorkerKeepsWake ==
    ASSUME TypeOK, ClientTypeOK, WakeInv, NEW t \in Threads,
           PreRunStep(t) \/ RunStep(t) \/ SpawnThrows(t)
    PROVE  WakeInv'
<1> USE DEF TypeOK, ClientTypeOK, vars, workerVars, callVars, Procs
<1>1. /\ UNCHANGED <<m_stopRequested, hook, spc, object>>
      /\ wpc' = wpc \/ wpc' \notin {"willSleep", "asleep"}
      /\ outbound' \in {0, outbound}
  <2>1. CASE PreRunStep(t)
    BY <2>1 DEF PreRunStep, ClearOutbound, OpenSocket, NoSocket, StoreSocket, Connected, NotConnected,
                FailedTakesSocket, FailedCloses, PreRunReturns, clientVars
  <2>2. CASE RunStep(t) \/ SpawnThrows(t)
    BY <2>2 DEF RunStep, SpawnLoops, JoinReader, RunNotifies, JoinWriter, SpawnThrows, Retire,
                RunReturns, HookThrows, clientVars, NotifyWriter
  <2> QED
    BY <2>1, <2>2
<1>2. ASSUME NEW p \in Procs
      PROVE  (Due(p) => Due(p)') /\ (DueAfterLock(p) => DueAfterLock(p)')
  <2>1. UNCHANGED rs \/ (rs[t] = "off" /\ rs' = [rs EXCEPT ![t] = "lock"])
    <3>1. CASE PreRunStep(t)
      BY <3>1 DEF PreRunStep, ClearOutbound, OpenSocket, NoSocket, StoreSocket, Connected, NotConnected,
                  FailedTakesSocket, FailedCloses, PreRunReturns
    <3>2. CASE RunStep(t) \/ SpawnThrows(t)
      BY <3>2 DEF RunStep, SpawnLoops, JoinReader, RunNotifies, JoinWriter, SpawnThrows, Retire,
                  RunReturns, HookThrows, InRunAt, ThreadAt, CallRequestStop
    <3> QED
      BY <3>1, <3>2
  <2> QED
    BY <1>1, <2>1 DEF Due, DueAfterLock
<1> QED
  BY <1>1, <1>2 DEF WakeInv, Exists

\* Steps of stopTriggered: a notification wakes the writer, unless it is not asleep yet;
\* then the process that raised the flag since has not passed the mutex.
LEMMA HookKeepsWake ==
    ASSUME TypeOK, ClientTypeOK, WakeInv, NEW p \in Procs, HookStep(p)
    PROVE  WakeInv'
<1> USE DEF TypeOK, ClientTypeOK, HookGoto, vars, workerVars, HookAt
<1>1. CASE HookTakesSocket(p) \/ HookCloses(p)
  <2>1. /\ rs[p] = "hook" /\ hook[p] \in {"exchange", "close"}
        /\ hook' = [hook EXCEPT ![p] = "close"] \/ hook' = [hook EXCEPT ![p] = "clear"]
        /\ UNCHANGED <<m_stopRequested, outbound, wpc, spc, object, rs>>
    BY <1>1 DEF HookTakesSocket, HookCloses
  <2>2. \A q \in Procs : (Due(q) => Due(q)') /\ (DueAfterLock(q) => DueAfterLock(q)')
    BY <2>1 DEF Due, DueAfterLock
  <2> QED
    BY <2>1, <2>2 DEF WakeInv, Exists
<1>2. CASE HookClears(p)
  <2>1. /\ rs[p] = "hook" /\ hook[p] = "clear" /\ wpc # "willSleep"
        /\ hook' = [hook EXCEPT ![p] = "notify"]
        /\ outbound' = 0
        /\ UNCHANGED <<m_stopRequested, wpc, spc, object, rs>>
    BY <1>2 DEF HookClears, OutboundUnlocked
  <2>2. \A q \in Procs : Due(q) => Due(q)'
    BY <2>1 DEF Due
  <2> QED
    BY <2>1, <2>2 DEF WakeInv, Exists
<1>3. CASE HookNotifies(p)
  <2>1. /\ rs[p] = "hook" /\ hook[p] = "notify"
        /\ hook' = [hook EXCEPT ![p] = "return"]
        /\ wpc' # "asleep" /\ (wpc' = "willSleep" => wpc = "willSleep")
        /\ UNCHANGED <<m_stopRequested, outbound, spc, object, rs>>
    BY <1>3 DEF HookNotifies, NotifyWriter
  <2>2. \A q \in Procs : DueAfterLock(q) => DueAfterLock(q)'
    BY <2>1 DEF DueAfterLock
  <2> QED
    BY <2>1, <2>2 DEF WakeInv, Exists
<1>4. CASE HookReturns(p)
  <2>1. /\ rs[p] = "hook" /\ hook[p] = "return"
        /\ rs' = [rs EXCEPT ![p] = "off"] /\ hook' = [hook EXCEPT ![p] = "exchange"]
        /\ UNCHANGED <<m_stopRequested, outbound, wpc, spc, object>>
    BY <1>4 DEF HookReturns, StopTriggeredReturns
  <2>2. \A q \in Procs : (Due(q) => Due(q)') /\ (DueAfterLock(q) => DueAfterLock(q)')
    BY <2>1 DEF Due, DueAfterLock
  <2> QED
    BY <2>1, <2>2 DEF WakeInv, Exists
<1>5. CASE BaseHookReturns(p)
  BY <1>5 DEF BaseHookReturns, StopTriggeredReturns, WakeInv, Exists
<1> QED
  BY <1>1, <1>2, <1>3, <1>4, <1>5 DEF HookStep

\* Steps of the loops.
LEMMA LoopsKeepWake ==
    ASSUME TypeOK, ClientTypeOK, WakeInv,
           ReaderStep \/ RecvGoesOn \/ RecvEnds \/ WriterStep \/ SendGoesOn \/ SendFails \/ BrokenPipe
    PROVE  WakeInv'
<1> USE ClientAssumption DEF TypeOK, ClientTypeOK, vars, workerVars, Procs, WriterMoves
<1>1. CASE \/ ReaderChecks \/ ReaderLoads \/ ReaderCallsRecv \/ RecvGoesOn \/ RecvEnds
  <2>1. UNCHANGED <<m_stopRequested, outbound, wpc, spc, object, rs, hook>>
    BY <1>1 DEF ReaderChecks, ReaderLoads, ReaderCallsRecv, RecvGoesOn, RecvEnds
  <2> QED
    BY <2>1 DEF WakeInv, Exists, Due, DueAfterLock
<1>2. CASE \/ WriterChecks \/ WriterLoads \/ WriterCallsSend \/ SendGoesOn \/ SendFails \/ BrokenPipe \/ WriterStops
  <2>1. wpc' \notin {"willSleep", "asleep"}
    <3>1. AfterCall(fd[Writer]) \notin {"willSleep", "asleep"}
      BY DEF AfterCall
    <3> QED
      BY <1>2, <3>1 DEF WriterChecks, WriterLoads, WriterCallsSend, SendGoesOn, SendFails, BrokenPipe, WriterStops
  <2> QED
    BY <2>1 DEF WakeInv
<1>3. CASE ReaderStops
  <2>1. /\ rs[Reader] = "off" /\ rs' = [rs EXCEPT ![Reader] = "lock"]
        /\ UNCHANGED <<m_stopRequested, outbound, wpc, spc, object, hook>>
    BY <1>3 DEF ReaderStops, ReaderAt, HelperRequestsStop, CallRequestStop
  <2>2. \A q \in Procs : (Due(q) => Due(q)') /\ (DueAfterLock(q) => DueAfterLock(q)')
    BY <2>1 DEF Due, DueAfterLock
  <2> QED
    BY <2>1, <2>2 DEF WakeInv, Exists
<1>4. CASE WriterWaits
  <2>1. wpc' # "asleep" /\ UNCHANGED m_stopRequested
    BY <1>4 DEF WriterWaits
  <2>2. wpc' = "willSleep" => outbound' = 0 /\ ~m_stopRequested
    BY <1>4 DEF WriterWaits
  <2> QED
    BY <2>1, <2>2 DEF WakeInv
<1>5. CASE WriterSleeps
  <2>1. /\ wpc = "willSleep" /\ wpc' = "asleep"
        /\ UNCHANGED <<m_stopRequested, outbound, spc, object, rs, hook>>
    BY <1>5 DEF WriterSleeps, WriterAt
  <2>2. \A q \in Procs : DueAfterLock(q) => Due(q)'
    BY <2>1 DEF Due, DueAfterLock
  <2> QED
    BY <2>1, <2>2 DEF WakeInv, Exists
<1> QED
  BY <1>1, <1>2, <1>3, <1>4, <1>5 DEF ReaderStep, WriterStep

\* Steps of send, of the destructor and of the rest of the application.
LEMMA OthersKeepWake ==
    ASSUME TypeOK, ClientTypeOK, WakeInv,
           \/ \E s \in Senders : SendChecks(s) \/ SendPushes(s) \/ SendNotifies(s)
           \/ \E c \in Callers : DestructorTakesSocket(c) \/ DestructorCloses(c)
           \/ OtherOpens \/ ClientTerminated \/ UNCHANGED allVars
    PROVE  WakeInv'
<1> USE DEF TypeOK, ClientTypeOK, vars, workerVars, Procs, clientVars
<1>1. ASSUME NEW s \in Senders, SendChecks(s)
      PROVE  WakeInv'
  <2>1. UNCHANGED <<m_stopRequested, outbound, wpc, object, rs, hook>> /\ wpc' = wpc
        /\ spc[s] = "idle" /\ spc' = [spc EXCEPT ![s] = "push"]
    BY <1>1 DEF SendChecks
  <2> QED
    BY <2>1 DEF WakeInv, Exists, Due, DueAfterLock
<1>2. ASSUME NEW s \in Senders, SendPushes(s)
      PROVE  WakeInv'
  <2>1. UNCHANGED <<m_stopRequested, wpc, object, rs, hook>> /\ wpc # "willSleep" /\ spc'[s] = "notify"
    BY <1>2 DEF SendPushes, OutboundUnlocked
  <2> QED
    BY <2>1 DEF WakeInv, Exists, Due
<1>3. ASSUME NEW s \in Senders, SendNotifies(s)
      PROVE  WakeInv'
  <2>1. /\ UNCHANGED <<m_stopRequested, outbound, object, rs, hook>>
        /\ wpc' # "asleep" /\ (wpc' = "willSleep" => wpc = "willSleep")
    BY <1>3 DEF SendNotifies, NotifyWriter
  <2> QED
    BY <2>1 DEF WakeInv, Exists, DueAfterLock
<1>4. ASSUME NEW c \in Callers, DestructorTakesSocket(c)
      PROVE  WakeInv'
  <2>1. /\ UNCHANGED <<m_stopRequested, outbound, wpc, spc, object, rs>>
        /\ rs[c] = "off" /\ hook' = [hook EXCEPT ![c] = "close"]
    BY <1>4 DEF DestructorTakesSocket, At, HookGoto
  <2>2. \A q \in Procs : (Due(q) => Due(q)') /\ (DueAfterLock(q) => DueAfterLock(q)')
    BY <2>1 DEF Due, DueAfterLock
  <2> QED
    BY <2>1, <2>2 DEF WakeInv, Exists
<1>5. ASSUME NEW c \in Callers, DestructorCloses(c)
      PROVE  WakeInv'
  BY <1>5 DEF DestructorCloses, Dismantle, WakeInv, Exists
<1>6. CASE OtherOpens \/ ClientTerminated \/ UNCHANGED allVars
  <2>1. UNCHANGED <<m_stopRequested, outbound, wpc, spc, object, rs, hook>>
    BY <1>6 DEF OtherOpens, ClientTerminated, allVars
  <2> QED
    BY <2>1 DEF WakeInv, Exists, Due, DueAfterLock
<1> QED
  BY <1>1, <1>2, <1>3, <1>4, <1>5, <1>6

\* The writer never sleeps through a stop request or a queued message, for any number of
\* senders and of processes that stop the client.
THEOREM WriterIsWokenAlways == ClientSpec => []WriterIsWoken
<1>1. ClientInit => WakeInv
  BY DEF ClientInit, Init, WakeInv
<1>2. /\ TypeOK /\ StoppedIffIdle /\ PlaceFitsOperation /\ ClientTypeOK /\ Places /\ WakeInv
      /\ [ClientNext]_allVars
      => WakeInv'
  BY BaseKeepsWake, WorkerKeepsWake, HookKeepsWake, LoopsKeepWake, OthersKeepWake, Zenon
     DEF ClientNext, InProcess, ClientStep
<1>3. WakeInv => WriterIsWoken
  BY DEF WakeInv, WriterIsWoken, Due
<1> QED
  BY <1>1, <1>2, <1>3, PlacesInvariant, ClientIsBaseWorker, ClientTypeCorrect, TypeCorrect,
     Exclusive, Bookkeeping, PTL DEF ClientSpec, ImplementsBaseWorker

-----------------------------------------------------------------------------
(* The descriptors: who is about to do what with which number.               *)

\* A thread has opened a descriptor and not yet stored it.
Storing(p) == p \in Threads /\ tpc[p] = "preRun" /\ stage[p] = "store"

\* The descriptor is in the hands of a process, and not in m_socket.
Hand(p) == fd[p] # NoFd /\ (Closing(p) \/ Storing(p))

SocketOwned == m_socket # NoFd => owner[m_socket] = "client"

\* What makes ClosesOwnOnce inductive: a descriptor in somebody's hands is the
\* client's, it is not in m_socket any more, and nobody else has it in his hands.
HandsExclusive ==
    \A p \in Procs : Hand(p) =>
        /\ owner[fd[p]] = "client"
        /\ m_socket # fd[p]
        /\ \A q \in Procs \ {p} : Hand(q) => fd[q] # fd[p]

SocketInv == SocketOwned /\ HandsExclusive

\* No hand takes hold of anything: the descriptors stay where they are.
LEMMA HandsRest ==
    ASSUME ClientTypeOK, SocketInv, UNCHANGED <<m_socket, owner>>,
           \A p \in Procs : Hand(p)' => Hand(p) /\ fd'[p] = fd[p]
    PROVE  SocketInv'
BY DEF SocketInv, SocketOwned, HandsExclusive, ClientTypeOK

\* Whoever exchanges m_socket has what was in it to himself.
LEMMA TakeKeepsSockets ==
    ASSUME ClientTypeOK, SocketInv, NEW p \in Procs, TakeSocket(p), UNCHANGED owner,
           \A q \in Procs \ {p} : Hand(q)' => Hand(q)
    PROVE  SocketInv'
<1>1. m_socket' = NoFd /\ fd'[p] = m_socket /\ \A q \in Procs \ {p} : fd'[q] = fd[q]
  BY DEF TakeSocket, ClientTypeOK
<1>2. fd'[p] # NoFd => owner'[fd'[p]] = "client"
  BY <1>1 DEF SocketInv, SocketOwned
<1>3. \A q \in Procs \ {p} : Hand(q)' => fd'[q] # fd'[p] /\ owner'[fd'[q]] = "client" /\ fd'[q] # NoFd
  BY <1>1 DEF SocketInv, HandsExclusive, Hand
<1>4. Hand(p)' => fd'[p] # NoFd
  BY DEF Hand
<1> QED
  BY <1>1, <1>2, <1>3, <1>4 DEF SocketInv, SocketOwned, HandsExclusive

\* Whoever closes what he has in his hands takes nothing from anybody.
LEMMA CloseKeepsSockets ==
    ASSUME ClientTypeOK, SocketInv, NEW p \in Procs, CloseTaken(p), UNCHANGED m_socket,
           fd[p] # NoFd => Hand(p),
           \A q \in Procs \ {p} : Hand(q)' => Hand(q)
    PROVE  SocketInv'
<1>1. fd'[p] = NoFd /\ \A q \in Procs \ {p} : fd'[q] = fd[q]
  BY DEF CloseTaken, Forget, ClientTypeOK
<1>2. ~Hand(p)'
  BY <1>1 DEF Hand
<1>3. \A f \in Fds : f # fd[p] => owner'[f] = owner[f]
  BY DEF CloseTaken
<1>4. \A q \in Procs \ {p} : Hand(q) => fd[q] # fd[p] /\ fd[q] \in Fds
  BY DEF SocketInv, HandsExclusive, Hand, ClientTypeOK
<1>5. m_socket # NoFd => m_socket # fd[p] /\ m_socket \in Fds
  BY DEF SocketInv, HandsExclusive, ClientTypeOK
<1>6. SocketOwned'
  BY <1>3, <1>5 DEF SocketInv, SocketOwned
<1>7. HandsExclusive'
  BY <1>1, <1>2, <1>3, <1>4 DEF SocketInv, HandsExclusive
<1> QED
  BY <1>6, <1>7 DEF SocketInv

\* The base class takes nothing out of anybody's hands and puts nothing into them.
LEMMA BaseKeepsHands ==
    ASSUME TypeOK, ClientTypeOK, PlaceFitsOperation, Places, BasePart, NEW p \in Procs
    PROVE  (Hand(p)' <=> Hand(p)) /\ (Closing(p)' <=> Closing(p))
<1>1. UNCHANGED <<fd, stage, hook>>
  BY DEF BasePart, clientVars
<1>2. rs'[p] = "hook" /\ hook[p] = "close" <=> rs[p] = "hook" /\ hook[p] = "close"
  BY BasePartIsBaseStep, RequestsMove DEF RequestMoves, Places, HookFresh
<1>3. p \in Threads => (tpc'[p] = "preRun" /\ stage[p] # "clear" <=> tpc[p] = "preRun" /\ stage[p] # "clear")
  BY BasePartIsBaseStep, RunnersMove DEF RunnerMoves, Places, StageFits
<1>4. p \in Callers => (pc'[p] = "dismantle" /\ hook[p] = "close" <=> pc[p] = "dismantle" /\ hook[p] = "close")
  BY BasePartIsBaseStep, DestructionMoves DEF Places, HookFresh, Exists, DerivedExists
<1> QED
  BY <1>1, <1>2, <1>3, <1>4 DEF Hand, Closing, Storing

\* Steps of preRun.
LEMMA PreRunKeepsSockets ==
    ASSUME TypeOK, ClientTypeOK, OneAttempt, Places, SocketInv, NEW t \in Threads, PreRunStep(t)
    PROVE  SocketInv'
<1> USE ClientAssumption, WorkerAssumption DEF TypeOK, ClientTypeOK, Procs, StageGoto, ThreadAt, ThreadGoto,
        vars, workerVars, callVars, NoFd
<1>0. /\ tpc[t] = "preRun" /\ rs[t] = "off"
      /\ \E loc \in {"clear", "socket", "store", "connect", "failed", "failClose"} : stage[t] = loc
      /\ UNCHANGED <<rs, pc, hook>>
      /\ \A u \in Threads \ {t} : tpc'[u] = tpc[u] /\ stage'[u] = stage[u]
  BY DEF PreRunStep, ClearOutbound, OpenSocket, NoSocket, StoreSocket, Connected, NotConnected,
         FailedTakesSocket, FailedCloses, InPreRun, PreRunReturns, clientVars
<1>1. ASSUME NEW q \in Procs \ {t}, fd'[q] = fd[q]
      PROVE  Hand(q)' <=> Hand(q)
  BY <1>0, <1>1 DEF Hand, Closing, Storing
<1>2. Hand(t) <=> fd[t] # NoFd /\ stage[t] \in {"store", "failClose"}
  BY <1>0 DEF Hand, Closing, Storing
<1>3. Hand(t)' => fd'[t] # NoFd /\ stage'[t] \in {"store", "failClose"} /\ tpc'[t] = "preRun"
  BY <1>0 DEF Hand, Closing, Storing
<1>4. CASE ClearOutbound(t) \/ NotConnected(t) \/ NoSocket(t)
  <2>1. UNCHANGED <<m_socket, owner, fd>> /\ (stage'[t] \notin {"store", "failClose"} \/ tpc'[t] # "preRun")
    BY <1>4 DEF ClearOutbound, NotConnected, NoSocket, InPreRun, PreRunReturns, clientVars
  <2> QED
    BY <1>1, <1>3, <2>1, HandsRest
<1>5. CASE Connected(t)
  <2>1. /\ UNCHANGED <<m_socket, owner>> /\ tpc'[t] # "preRun"
        /\ \A q \in Procs \ {t} : fd'[q] = fd[q]
    BY <1>5 DEF Connected, InPreRun, PreRunReturns, Forget
  <2> QED
    BY <1>1, <1>3, <2>1, HandsRest
<1>6. CASE OpenSocket(t)
  <2>1. PICK f \in Fds : /\ owner[f] = "free" /\ owner' = [owner EXCEPT ![f] = "client"]
                         /\ fd' = [fd EXCEPT ![t] = f]
    BY <1>6 DEF OpenSocket, Free
  <2>2. UNCHANGED m_socket
    BY <1>6 DEF OpenSocket
  <2>3. SocketOwned' /\ m_socket # f
    BY <2>1, <2>2 DEF SocketInv, SocketOwned
  <2>4. \A q \in Procs \ {t} : (Hand(q)' => Hand(q)) /\ fd'[q] = fd[q]
    BY <1>1, <2>1
  <2>5. \A q \in Procs \ {t} : Hand(q)' => fd[q] # f /\ fd[q] \in Fds
    BY <2>1, <2>4 DEF SocketInv, HandsExclusive, Hand
  <2>6. fd'[t] = f /\ owner'[f] = "client" /\ \A g \in Fds \ {f} : owner'[g] = owner[g]
    BY <2>1
  <2>7. ASSUME NEW q \in Procs \ {t}, Hand(q)'
        PROVE  /\ owner'[fd'[q]] = "client" /\ m_socket' # fd'[q] /\ fd'[q] # f
               /\ \A r \in Procs \ {q, t} : Hand(r)' => fd'[r] # fd'[q]
    <3>1. Hand(q) /\ fd'[q] = fd[q] /\ fd[q] \in Fds \ {f}
      BY <2>4, <2>5, <2>7
    <3>2. owner[fd[q]] = "client" /\ m_socket # fd[q] /\ \A r \in Procs \ {q} : Hand(r) => fd[r] # fd[q]
      BY <3>1 DEF SocketInv, HandsExclusive
    <3>3. owner'[fd'[q]] = "client" /\ m_socket' # fd'[q] /\ fd'[q] # f
      BY <2>2, <2>6, <3>1, <3>2
    <3>4. \A r \in Procs \ {q, t} : Hand(r)' => fd'[r] # fd'[q]
      BY <2>4, <3>1, <3>2
    <3> QED
      BY <3>3, <3>4
  <2>8. HandsExclusive'
    BY <2>2, <2>3, <2>6, <2>7 DEF HandsExclusive
  <2> QED
    BY <2>3, <2>8 DEF SocketInv
<1>7. CASE StoreSocket(t)
  <2>1. /\ m_socket' = fd[t] /\ UNCHANGED <<owner, fd>>
        /\ stage[t] = "store" /\ stage'[t] = "connect"
    BY <1>7 DEF StoreSocket, InPreRun
  <2>2. ~Hand(t)' /\ \A q \in Procs \ {t} : Hand(q)' => Hand(q)
    BY <1>1, <1>3, <2>1
  <2>3. fd[t] # NoFd => Hand(t)
    BY <1>2, <2>1
  <2>4. SocketOwned'
    BY <2>1, <2>3 DEF SocketInv, SocketOwned, HandsExclusive
  <2>5. \A q \in Procs \ {t} : Hand(q) => fd[q] # fd[t]
    BY <2>3 DEF SocketInv, HandsExclusive, Hand
  <2>6. HandsExclusive'
    BY <2>1, <2>2, <2>5 DEF SocketInv, HandsExclusive
  <2> QED
    BY <2>4, <2>6 DEF SocketInv
<1>8. CASE FailedTakesSocket(t)
  <2>1. TakeSocket(t) /\ UNCHANGED owner
    BY <1>8 DEF FailedTakesSocket
  <2>2. \A q \in Procs \ {t} : fd'[q] = fd[q]
    BY <2>1 DEF TakeSocket
  <2> QED
    BY <1>1, <2>1, <2>2, TakeKeepsSockets
<1>9. CASE FailedCloses(t)
  <2>1. CloseTaken(t) /\ UNCHANGED m_socket /\ stage[t] = "failClose"
    BY <1>9 DEF FailedCloses, InPreRun
  <2>2. \A q \in Procs \ {t} : fd'[q] = fd[q]
    BY <2>1 DEF CloseTaken, Forget
  <2> QED
    BY <1>1, <1>2, <2>1, <2>2, CloseKeepsSockets
<1> QED
  BY <1>4, <1>5, <1>6, <1>7, <1>8, <1>9 DEF PreRunStep

\* Steps of run().
LEMMA RunKeepsSockets ==
    ASSUME TypeOK, ClientTypeOK, SocketInv, NEW t \in Threads, RunStep(t) \/ SpawnThrows(t)
    PROVE  /\ SocketInv'
           /\ UNCHANGED <<m_socket, owner, fd>>
           /\ \A p \in Procs : (Hand(p)' <=> Hand(p)) /\ (Closing(p)' <=> Closing(p))
<1> USE ClientAssumption, WorkerAssumption DEF TypeOK, ClientTypeOK, Procs
<1>1. /\ UNCHANGED <<m_socket, owner, fd, pc, hook>>
      /\ tpc[t] = "run" /\ tpc'[t] # "preRun"
      /\ \A u \in Threads \ {t} : tpc'[u] = tpc[u] /\ stage'[u] = stage[u]
      /\ rs' = rs \/ (rs[t] = "off" /\ rs' = [rs EXCEPT ![t] = "lock"])
  <2> USE DEF InRunAt, ThreadAt, ThreadGoto, StageGoto, vars, callVars
  <2>1. CASE SpawnLoops(t) \/ RunNotifies(t) \/ SpawnThrows(t)
    BY <2>1 DEF SpawnLoops, RunNotifies, SpawnThrows, HookThrows, clientVars
  <2>2. CASE JoinReader(t) \/ JoinWriter(t)
    BY <2>2 DEF JoinReader, JoinWriter, Retire, RunReturns, CallRequestStop
  <2> QED
    BY <2>1, <2>2 DEF RunStep
<1>2. ASSUME NEW p \in Procs
      PROVE  (Hand(p)' <=> Hand(p)) /\ (Closing(p)' <=> Closing(p))
  BY <1>1 DEF Hand, Closing, Storing
<1> QED
  BY <1>1, <1>2, HandsRest

\* Steps of stopTriggered.
LEMMA HookKeepsSockets ==
    ASSUME TypeOK, ClientTypeOK, SocketInv, NEW p \in Procs, HookStep(p)
    PROVE  SocketInv'
<1> USE ClientAssumption, WorkerAssumption DEF TypeOK, ClientTypeOK, Procs, HookGoto, HookAt, vars, callVars
<1>0. UNCHANGED <<tpc, pc, stage>> /\ \A q \in Procs \ {p} : rs'[q] = rs[q] /\ hook'[q] = hook[q]
  BY DEF HookStep, HookTakesSocket, HookCloses, HookClears, HookNotifies, HookReturns, BaseHookReturns,
         StopTriggeredReturns, clientVars
<1>1. ASSUME NEW q \in Procs \ {p}, fd'[q] = fd[q]
      PROVE  Hand(q)' <=> Hand(q)
  BY <1>0, <1>1 DEF Hand, Closing, Storing
<1>2. CASE HookTakesSocket(p)
  <2>1. TakeSocket(p) /\ UNCHANGED owner
    BY <1>2 DEF HookTakesSocket
  <2>2. \A q \in Procs \ {p} : fd'[q] = fd[q]
    BY <2>1 DEF TakeSocket
  <2> QED
    BY <1>1, <2>1, <2>2, TakeKeepsSockets
<1>3. CASE HookCloses(p)
  <2>1. CloseTaken(p) /\ UNCHANGED m_socket /\ (fd[p] # NoFd => Hand(p))
    BY <1>3 DEF HookCloses, Hand, Closing
  <2>2. \A q \in Procs \ {p} : fd'[q] = fd[q]
    BY <2>1 DEF CloseTaken, Forget
  <2> QED
    BY <1>1, <2>1, <2>2, CloseKeepsSockets
<1>4. CASE HookClears(p) \/ HookNotifies(p) \/ HookReturns(p) \/ BaseHookReturns(p)
  <2>1. UNCHANGED <<m_socket, owner, fd>>
    BY <1>4 DEF HookClears, HookNotifies, HookReturns, BaseHookReturns, clientVars
  <2>2. hook'[p] # "close" \/ (rs'[p] = "off" /\ hook'[p] = hook[p])
    BY <1>4 DEF HookClears, HookNotifies, HookReturns, BaseHookReturns, StopTriggeredReturns, clientVars
  <2>3. Hand(p)' => Hand(p)
    BY <1>0, <2>1, <2>2 DEF Hand, Closing, Storing
  <2> QED
    BY <1>1, <2>1, <2>3, HandsRest
<1> QED
  BY <1>2, <1>3, <1>4 DEF HookStep

\* Steps of the loops: their local copies of the descriptor are in nobody's hands.
LEMMA LoopsKeepSockets ==
    ASSUME TypeOK, ClientTypeOK, SocketInv,
           ReaderStep \/ RecvGoesOn \/ RecvEnds \/ WriterStep \/ SendGoesOn \/ SendFails \/ BrokenPipe
    PROVE  /\ SocketInv'
           /\ UNCHANGED <<m_socket, owner, tpc, stage>>
           /\ \A p \in Procs : (Hand(p)' <=> Hand(p)) /\ (Closing(p)' <=> Closing(p))
           /\ \A p \in Procs : Hand(p) => fd'[p] = fd[p]
<1> USE ClientAssumption, WorkerAssumption DEF TypeOK, ClientTypeOK, Procs, vars, callVars, Forget, WriterMoves
<1>1. /\ UNCHANGED <<m_socket, owner, pc, hook, tpc, stage>>
      /\ \E h \in {Reader, Writer} :
            /\ rs[h] = "off"
            /\ rs' = rs \/ rs' = [rs EXCEPT ![h] = "lock"]
            /\ \A q \in Procs \ {h} : fd'[q] = fd[q]
  <2>1. CASE ReaderStep \/ RecvGoesOn \/ RecvEnds
    BY <2>1 DEF ReaderStep, ReaderChecks, ReaderLoads, ReaderCallsRecv, RecvGoesOn, RecvEnds, ReaderStops,
                ReaderAt, HelperRequestsStop, CallRequestStop
  <2>2. CASE WriterStep \/ SendGoesOn \/ SendFails \/ BrokenPipe
    BY <2>2 DEF WriterStep, WriterChecks, WriterWaits, WriterSleeps, WriterLoads, WriterCallsSend,
                SendGoesOn, SendFails, BrokenPipe, WriterStops, WriterAt, HelperRequestsStop, CallRequestStop
  <2> QED
    BY <2>1, <2>2
<1>2. PICK h \in {Reader, Writer} :
            /\ rs[h] = "off"
            /\ rs' = rs \/ rs' = [rs EXCEPT ![h] = "lock"]
            /\ \A q \in Procs \ {h} : fd'[q] = fd[q]
  BY <1>1
<1>3. h \in Procs /\ h \notin Callers /\ h \notin Threads
  OBVIOUS
<1>4. ~Hand(h) /\ ~Hand(h)' /\ ~Closing(h) /\ ~Closing(h)'
  BY <1>2, <1>3 DEF Hand, Closing, Storing
<1>5. ASSUME NEW q \in Procs \ {h}
      PROVE  (Hand(q)' <=> Hand(q)) /\ (Closing(q)' <=> Closing(q)) /\ fd'[q] = fd[q]
  BY <1>1, <1>2 DEF Hand, Closing, Storing
<1>6. \A p \in Procs : (Hand(p)' <=> Hand(p)) /\ (Closing(p)' <=> Closing(p)) /\ (Hand(p) => fd'[p] = fd[p])
  BY <1>4, <1>5
<1> QED
  BY <1>1, <1>6, HandsRest

\* Steps of the destructor.
LEMMA DestructorKeepsSockets ==
    ASSUME TypeOK, ClientTypeOK, SocketInv, NEW c \in Callers,
           DestructorTakesSocket(c) \/ DestructorCloses(c)
    PROVE  SocketInv'
<1> USE ClientAssumption, WorkerAssumption DEF TypeOK, ClientTypeOK, Procs, HookGoto, vars, callVars
<1>0. UNCHANGED <<tpc, stage>> /\ \A q \in Procs \ {c} : /\ rs'[q] = rs[q] /\ hook'[q] = hook[q]
                                                         /\ q \in Callers => pc'[q] = pc[q]
  BY DEF DestructorTakesSocket, DestructorCloses, Dismantle, CallRequestStop, Goto
<1>1. ASSUME NEW q \in Procs \ {c}, fd'[q] = fd[q]
      PROVE  Hand(q)' <=> Hand(q)
  BY <1>0, <1>1 DEF Hand, Closing, Storing
<1>2. CASE DestructorTakesSocket(c)
  <2>1. TakeSocket(c) /\ UNCHANGED owner
    BY <1>2 DEF DestructorTakesSocket
  <2>2. \A q \in Procs \ {c} : fd'[q] = fd[q]
    BY <2>1 DEF TakeSocket
  <2> QED
    BY <1>1, <2>1, <2>2, TakeKeepsSockets
<1>3. CASE DestructorCloses(c)
  <2>1. CloseTaken(c) /\ UNCHANGED m_socket /\ (fd[c] # NoFd => Hand(c))
    BY <1>3 DEF DestructorCloses, At, Hand, Closing
  <2>2. \A q \in Procs \ {c} : fd'[q] = fd[q]
    BY <2>1 DEF CloseTaken, Forget
  <2> QED
    BY <1>1, <2>1, <2>2, CloseKeepsSockets
<1> QED
  BY <1>2, <1>3

\* Steps of send and of the rest of the application, which is given free numbers only.
LEMMA OthersKeepSockets ==
    ASSUME TypeOK, ClientTypeOK, SocketInv,
           \/ \E s \in Senders : SendChecks(s) \/ SendPushes(s) \/ SendNotifies(s)
           \/ OtherOpens \/ ClientTerminated \/ UNCHANGED allVars
    PROVE  SocketInv'
<1> USE DEF TypeOK, ClientTypeOK, vars, callVars, clientVars
<1>1. UNCHANGED <<m_socket, fd, tpc, stage, rs, hook, pc>>
  BY DEF SendChecks, SendPushes, SendNotifies, OtherOpens, ClientTerminated, allVars
<1>2. \A p \in Procs : Hand(p)' <=> Hand(p)
  BY <1>1 DEF Hand, Closing, Storing
<1>3. CASE OtherOpens
  <2>1. PICK f \in Fds : owner[f] = "free" /\ owner' = [owner EXCEPT ![f] = "other"]
    BY <1>3 DEF OtherOpens, Free
  <2>2. \A g \in Fds : owner[g] = "client" => owner'[g] = "client"
    BY <2>1
  <2>3. SocketOwned'
    BY <1>1, <2>2 DEF SocketInv, SocketOwned
  <2>4. \A p \in Procs : Hand(p) => fd[p] \in Fds
    BY DEF Hand
  <2>5. HandsExclusive'
    BY <1>1, <1>2, <2>2, <2>4 DEF SocketInv, HandsExclusive
  <2> QED
    BY <2>3, <2>5 DEF SocketInv
<1>4. CASE UNCHANGED owner
  BY <1>1, <1>2, <1>4, HandsRest
<1> QED
  BY <1>3, <1>4 DEF SendChecks, SendPushes, SendNotifies, ClientTerminated, allVars

\* The descriptors are where they belong in every state of the client.
LEMMA SocketInvariant == ClientSpec => []SocketInv
<1>1. ClientInit => SocketInv
  BY ClientAssumption DEF ClientInit, SocketInv, SocketOwned, HandsExclusive, Hand
<1>2. ASSUME TypeOK, OneAttempt, PlaceFitsOperation, ClientTypeOK, Places, SocketInv, [ClientNext]_allVars
      PROVE  SocketInv'
  <2>1. CASE BasePart
    <3>1. UNCHANGED <<m_socket, owner, fd>>
      BY <2>1 DEF BasePart, clientVars
    <3> QED
      BY <1>2, <2>1, <3>1, BaseKeepsHands, HandsRest
  <2> QED
    BY <1>2, <2>1, PreRunKeepsSockets, RunKeepsSockets, HookKeepsSockets, LoopsKeepSockets,
       DestructorKeepsSockets, OthersKeepSockets, Zenon DEF ClientNext, InProcess, ClientStep
<1> QED
  BY <1>1, <1>2, PlacesInvariant, ClientIsBaseWorker, ClientTypeCorrect, TypeCorrect, Exclusive,
     Bookkeeping, PTL DEF ClientSpec, ImplementsBaseWorker

\* However stops, failed connects, restarts and the destructor overlap, no descriptor is
\* closed twice or on behalf of somebody else.
THEOREM ClosesOwnOnceAlways == ClientSpec => []ClosesOwnOnce
<1>1. SocketInv => ClosesOwnOnce
  BY DEF SocketInv, HandsExclusive, Hand, Closing, ClosesOwnOnce
<1> QED
  BY <1>1, SocketInvariant, PTL

-----------------------------------------------------------------------------
(* What becomes of the socket of a run().                                    *)

\* A thread opens one descriptor, in preRun, and stores the one it opened.
StoresOwn ==
    \A t \in Threads :
        tpc[t] = "preRun" /\ stage[t] = "store" => fd[t] \in Fds /\ opener[fd[t]] = t

OpensOnce ==
    /\ \A f, g \in Fds : opener[f] \in Threads /\ opener[f] = opener[g] => f = g
    /\ \A t \in Threads :
          tpc[t] = "unborn" \/ (tpc[t] = "preRun" /\ stage[t] \in {"clear", "socket"})
          => \A f \in Fds : opener[f] # t

\* The thread has yet to take the socket out of m_socket, at the latest in the stop
\* that it requests itself.
WillTake(t) ==
    \/ stage[t] = "joinReader"
    \/ stage[t] = "notify" /\ rs[t] \in {"lock", "notifyHook"}
    \/ stage[t] = "notify" /\ rs[t] = "hook" /\ hook[t] = "exchange"

SocketOfRun ==
    m_socket # NoFd /\ opener[m_socket] \in served =>
        tpc[opener[m_socket]] = "run" /\ (Exists => WillTake(opener[m_socket]))

\* The threads of a run() close its socket before it ends.
HandsInRun ==
    \A p \in Procs \ Callers :
        Closing(p) /\ opener[fd[p]] \in served => tpc[opener[fd[p]]] = "run"

CallersDone == ~Exists => \A c \in Callers : hook[c] = "exchange"

\* The descriptors that may not get lost: those of the live thread, while the client
\* exists, and those of a run() that has started its loops.
Wanted(f) ==
    /\ opener[f] \in Threads
    /\ \/ opener[f] \in served /\ tpc[opener[f]] # "run"
       \/ Exists /\ (opener[f] \in served \/ Live(opener[f]))

Followed ==
    \A f \in Fds : owner[f] = "client" /\ Wanted(f) =>
        m_socket = f \/ \E p \in Procs : Hand(p) /\ fd[p] = f

TraceInv == StoresOwn /\ OpensOnce /\ SocketOfRun /\ HandsInRun /\ CallersDone /\ Followed

\* Steps of the base class.
LEMMA BaseKeepsTrace ==
    ASSUME TypeOK, ClientTypeOK, StoppedIffIdle, PlaceFitsOperation, Places, TraceInv, BasePart
    PROVE  TraceInv'
<1> USE ClientAssumption, WorkerAssumption DEF TraceInv
<1>1. UNCHANGED <<m_socket, owner, opener, fd, stage, hook, served>> /\ Exists' = Exists
  BY BasePartIsBaseStep, DestructionMoves DEF BasePart, clientVars, Exists, DerivedExists
<1>2. \A t \in Threads : RunnerMoves(t)
  BY BasePartIsBaseStep, RunnersMove
<1>3. \A p \in Procs : (Hand(p)' <=> Hand(p)) /\ (Closing(p)' <=> Closing(p))
  BY BaseKeepsHands
<1>4. StoresOwn' /\ OpensOnce'
  BY <1>1, <1>2 DEF StoresOwn, OpensOnce, RunnerMoves, Places, StageFits
<1>5. \A t \in Threads : tpc[t] = "run" => tpc'[t] = "run"
  BY <1>2 DEF RunnerMoves
<1>6. ASSUME NEW t \in Threads, tpc[t] = "run", WillTake(t)
      PROVE  WillTake(t)'
  <2>1. m_state # "Stopped"
    BY <1>6 DEF StoppedIffIdle, Busy, Live, LiveLocations
  <2>2. RequestMoves(t) /\ t \in Procs /\ t \notin Callers
    BY BasePartIsBaseStep, RequestsMove DEF Procs
  <2>3. rs[t] = "notifyHook" => hook[t] = "exchange"
    BY <2>2 DEF Places, HookFresh
  <2>4. rs[t] # "off" \/ stage[t] = "joinReader"
    BY <1>6 DEF WillTake
  <2> QED
    BY <1>1, <1>6, <2>1, <2>2, <2>3, <2>4 DEF WillTake, RequestMoves
<1>7. SocketOfRun' /\ HandsInRun' /\ CallersDone'
  BY <1>1, <1>3, <1>5, <1>6 DEF SocketOfRun, HandsInRun, CallersDone, ClientTypeOK
<1>8. ASSUME NEW f \in Fds, Wanted(f)'
      PROVE  Wanted(f)
  BY <1>1, <1>2, <1>5, <1>8 DEF Wanted, OpensOnce, RunnerMoves, Live, LiveLocations
<1>9. Followed'
  BY <1>1, <1>3, <1>8 DEF Followed
<1> QED
  BY <1>4, <1>7, <1>9

\* Steps of preRun.  The thread is the only live one.
LEMMA PreRunKeepsTrace ==
    ASSUME TypeOK, ClientTypeOK, OneAttempt, Places, SocketInv, TraceInv, NEW t \in Threads, PreRunStep(t)
    PROVE  TraceInv'
<1> USE ClientAssumption, WorkerAssumption DEF TraceInv, ClientTypeOK, TypeOK
<1>0. /\ tpc[t] = "preRun" /\ rs[t] = "off" /\ Exists /\ t \notin served /\ t \in Procs \ Callers
      /\ UNCHANGED <<rs, pc, hook, served, object>>
      /\ \A u \in Threads \ {t} : tpc'[u] = tpc[u] /\ stage'[u] = stage[u] /\ tpc[u] \notin {"run", "preRun"} /\ ~Live(u)
  <2>1. /\ tpc[t] = "preRun" /\ rs[t] = "off" /\ Exists
        /\ UNCHANGED <<rs, pc, hook, served, object>>
        /\ \A u \in Threads \ {t} : tpc'[u] = tpc[u] /\ stage'[u] = stage[u]
    BY DEF PreRunStep, ClearOutbound, OpenSocket, NoSocket, StoreSocket, Connected, NotConnected,
           FailedTakesSocket, FailedCloses, InPreRun, PreRunReturns, clientVars, ThreadAt, ThreadGoto,
           StageGoto, vars, callVars
  <2>2. t \notin served
    BY <2>1 DEF Places, ServedRan
  <2>3. \A u \in Threads \ {t} : tpc[u] \notin {"run", "preRun"} /\ ~Live(u)
    BY <2>1 DEF OneAttempt, Busy, Live, LiveLocations
  <2> QED
    BY <2>1, <2>2, <2>3 DEF Procs
<1>1. ASSUME NEW q \in Procs \ {t}, fd'[q] = fd[q]
      PROVE  (Hand(q)' <=> Hand(q)) /\ (Closing(q)' <=> Closing(q))
  BY <1>0, <1>1 DEF Hand, Closing, Storing
<1>2. Hand(t) <=> fd[t] # NoFd /\ stage[t] \in {"store", "failClose"}
  BY <1>0 DEF Hand, Closing, Storing
<1>3. /\ Closing(t)' <=> fd'[t] # NoFd /\ stage'[t] = "failClose" /\ tpc'[t] = "preRun"
      /\ Hand(t)' <=> fd'[t] # NoFd /\ stage'[t] \in {"store", "failClose"} /\ tpc'[t] = "preRun"
  BY <1>0 DEF Hand, Closing, Storing
<1>4. CallersDone' /\ Exists'
  BY <1>0 DEF CallersDone, Exists
<1>5. m_socket # NoFd => opener[m_socket] \notin served
  BY <1>0 DEF SocketOfRun
<1>6. \A f \in Fds : Wanted(f) <=> opener[f] = t \/ opener[f] \in served
  BY <1>0 DEF Wanted, Live, LiveLocations
<1> DEFINE Passes ==
      /\ UNCHANGED <<m_socket, owner, opener>>
      /\ stage[t] \notin {"store", "failClose"}
      /\ stage'[t] \notin {"store", "failClose", "clear"} \/ tpc'[t] # "preRun"
      /\ stage'[t] = "socket" => stage[t] = "clear" \/ tpc'[t] # "preRun"
      /\ tpc'[t] # "unborn"
      /\ \A q \in Procs \ {t} : fd'[q] = fd[q]
<1>7. CASE Passes
  <2>1. ~Hand(t)' /\ ~Closing(t)'
    BY <1>3, <1>7
  <2>2. StoresOwn' /\ OpensOnce'
    BY <1>0, <1>7 DEF StoresOwn, OpensOnce, Procs
  <2>3. SocketOfRun'
    BY <1>0, <1>5, <1>7 DEF SocketOfRun
  <2>4. HandsInRun'
    BY <1>0, <1>1, <1>7, <2>1 DEF HandsInRun
  <2>5. \A f \in Fds : Wanted(f)' => opener[f] = t \/ opener[f] \in served
    BY <1>0, <1>7 DEF Wanted, Live
  <2>6. Followed'
    BY <1>1, <1>2, <1>6, <1>7, <2>5 DEF Followed
  <2> QED
    BY <1>4, <2>2, <2>3, <2>4, <2>6
<1>8. CASE ClearOutbound(t) \/ NotConnected(t) \/ NoSocket(t) \/ Connected(t)
  <2> USE DEF InPreRun, PreRunReturns, StageGoto, ThreadGoto, clientVars, Forget, vars
  <2>1. ASSUME ClearOutbound(t) PROVE Passes
    BY <1>0, <2>1 DEF ClearOutbound
  <2>2. ASSUME NotConnected(t) PROVE Passes
    BY <1>0, <2>2 DEF NotConnected
  <2>3. ASSUME NoSocket(t) PROVE Passes
    BY <1>0, <2>3 DEF NoSocket
  <2>4. ASSUME Connected(t) PROVE Passes
    BY <1>0, <2>4 DEF Connected, Procs
  <2> HIDE DEF Passes
  <2> QED
    BY <1>7, <1>8, <2>1, <2>2, <2>3, <2>4
<1>9. CASE OpenSocket(t)
  <2>1. PICK f \in Fds : /\ owner[f] = "free" /\ owner' = [owner EXCEPT ![f] = "client"]
                         /\ opener' = [opener EXCEPT ![f] = t]
                         /\ fd' = [fd EXCEPT ![t] = f]
    BY <1>9 DEF OpenSocket, Free
  <2>2. /\ UNCHANGED <<m_socket, tpc>> /\ stage[t] = "socket" /\ stage'[t] = "store"
    BY <1>9 DEF OpenSocket, InPreRun, StageGoto, vars
  <2>3. f # NoFd /\ fd'[t] = f /\ opener'[f] = t /\ \A q \in Procs \ {t} : fd'[q] = fd[q]
    BY <1>0, <2>1 DEF NoFd
  <2>4. \A g \in Fds \ {f} : opener'[g] = opener[g] /\ owner'[g] = owner[g] /\ opener[g] # t
    BY <1>0, <2>1, <2>2 DEF OpensOnce
  <2>5. StoresOwn'
    BY <1>0, <2>2, <2>3 DEF StoresOwn
  <2>6. OpensOnce'
    BY <1>0, <2>2, <2>3, <2>4 DEF OpensOnce
  <2>7. SocketOfRun'
    BY <1>0, <1>5, <2>1, <2>2, <2>4 DEF SocketOfRun, SocketInv, SocketOwned
  <2>8. HandsInRun'
    <3> SUFFICES ASSUME NEW p \in Procs \ Callers, Closing(p)'
                 PROVE  opener'[fd'[p]] \in served => tpc[opener'[fd'[p]]] = "run"
      BY <1>0, <2>2 DEF HandsInRun
    <3>1. p # t /\ Closing(p) /\ fd'[p] = fd[p]
      BY <1>1, <1>3, <2>2, <2>3
    <3>2. owner[fd[p]] = "client" /\ fd[p] \in Fds \ {f}
      BY <2>1, <3>1 DEF SocketInv, HandsExclusive, Hand, Closing
    <3>3. opener'[fd'[p]] = opener[fd[p]]
      BY <2>4, <3>1, <3>2
    <3> QED
      BY <3>1, <3>3 DEF HandsInRun
  <2>9. Followed'
    <3> SUFFICES ASSUME NEW g \in Fds, owner'[g] = "client", Wanted(g)'
                 PROVE  m_socket' = g \/ \E p \in Procs : Hand(p)' /\ fd'[p] = g
      BY DEF Followed
    <3>1. CASE g = f
      BY <1>0, <1>3, <2>2, <2>3, <3>1
    <3>2. CASE g # f
      <4>1. Wanted(g)
        BY <1>0, <2>2, <2>4, <3>2 DEF Wanted, Exists, Live
      <4>2. ~Hand(t)
        BY <1>2, <2>2
      <4> QED
        BY <1>1, <2>2, <2>3, <2>4, <3>2, <4>1, <4>2 DEF Followed
    <3> QED
      BY <3>1, <3>2
  <2> QED
    BY <1>4, <2>5, <2>6, <2>7, <2>8, <2>9
<1>10. CASE StoreSocket(t)
  <2>1. /\ m_socket' = fd[t] /\ UNCHANGED <<owner, opener, fd, tpc>>
        /\ stage[t] = "store" /\ stage'[t] = "connect"
    BY <1>10 DEF StoreSocket, InPreRun, StageGoto, vars
  <2>2. fd[t] \in Fds /\ opener[fd[t]] = t
    BY <1>0, <2>1 DEF StoresOwn
  <2>3. StoresOwn' /\ OpensOnce'
    BY <1>0, <2>1 DEF StoresOwn, OpensOnce
  <2>4. SocketOfRun'
    BY <1>0, <2>1, <2>2 DEF SocketOfRun
  <2>5. HandsInRun'
    BY <1>0, <1>1, <1>3, <2>1 DEF HandsInRun
  <2>6. Followed'
    <3> SUFFICES ASSUME NEW g \in Fds, owner[g] = "client", Wanted(g)', g # fd[t]
                 PROVE  \E p \in Procs : Hand(p)' /\ fd[p] = g
      BY <2>1 DEF Followed
    <3>0. Wanted(g)
      BY <1>0, <2>1 DEF Wanted, Exists, Live
    <3>1. opener[g] # t
      BY <2>2 DEF OpensOnce
    <3>2. m_socket # g
      BY <1>5, <1>6, <3>0, <3>1 DEF NoFd
    <3>3. PICK p \in Procs : Hand(p) /\ fd[p] = g
      BY <3>0, <3>2 DEF Followed
    <3> QED
      BY <1>1, <2>1, <3>3
  <2> QED
    BY <1>4, <2>3, <2>4, <2>5, <2>6
<1>11. CASE FailedTakesSocket(t)
  <2>1. /\ m_socket' = NoFd /\ fd' = [fd EXCEPT ![t] = m_socket] /\ UNCHANGED <<owner, opener, tpc>>
        /\ stage[t] = "failed" /\ stage'[t] = "failClose"
    BY <1>11 DEF FailedTakesSocket, TakeSocket, InPreRun, StageGoto, vars
  <2>2. fd'[t] = m_socket /\ \A q \in Procs \ {t} : fd'[q] = fd[q]
    BY <1>0, <2>1
  <2>3. StoresOwn' /\ OpensOnce'
    BY <1>0, <2>1, <2>2 DEF StoresOwn, OpensOnce, Procs
  <2>4. SocketOfRun'
    BY <2>1 DEF SocketOfRun
  <2>5. HandsInRun'
    BY <1>0, <1>1, <1>3, <1>5, <2>1, <2>2 DEF HandsInRun
  <2>6. Followed'
    <3> SUFFICES ASSUME NEW g \in Fds, owner[g] = "client", Wanted(g)
                 PROVE  \E p \in Procs : Hand(p)' /\ fd'[p] = g
      BY <1>0, <2>1 DEF Followed, Wanted, Exists, Live
    <3>1. CASE m_socket = g
      BY <1>0, <1>3, <2>1, <2>2, <3>1 DEF NoFd
    <3>2. CASE m_socket # g
      <4>1. PICK p \in Procs : Hand(p) /\ fd[p] = g
        BY <3>2 DEF Followed
      <4>2. p # t
        BY <1>2, <2>1, <4>1
      <4> QED
        BY <1>1, <2>2, <4>1, <4>2
    <3> QED
      BY <3>1, <3>2
  <2> QED
    BY <1>4, <2>3, <2>4, <2>5, <2>6
<1>12. CASE FailedCloses(t)
  <2>1. /\ fd' = [fd EXCEPT ![t] = NoFd] /\ owner' = [f \in Fds |-> IF f = fd[t] THEN "free" ELSE owner[f]]
        /\ UNCHANGED <<m_socket, opener, stage>>
        /\ stage[t] = "failClose" /\ tpc'[t] = "setStopped"
    BY <1>12 DEF FailedCloses, CloseTaken, Forget, InPreRun, PreRunReturns, ThreadGoto
  <2>2. fd'[t] = NoFd /\ \A q \in Procs \ {t} : fd'[q] = fd[q]
    BY <1>0, <2>1
  <2>3. StoresOwn' /\ OpensOnce'
    BY <1>0, <2>1, <2>2 DEF StoresOwn, OpensOnce, Procs
  <2>4. SocketOfRun'
    BY <1>0, <1>5, <2>1 DEF SocketOfRun
  <2>5. HandsInRun'
    BY <1>0, <1>1, <1>3, <2>1, <2>2 DEF HandsInRun
  <2>6. Followed'
    <3> SUFFICES ASSUME NEW g \in Fds, owner[g] = "client", g # fd[t], Wanted(g)
                 PROVE  m_socket = g \/ \E p \in Procs : Hand(p)' /\ fd'[p] = g
      BY <1>0, <1>6, <2>1 DEF Followed, Wanted, Exists, Live
    <3>1. CASE m_socket # g
      <4>1. PICK p \in Procs : Hand(p) /\ fd[p] = g
        BY <3>1 DEF Followed
      <4> QED
        BY <1>1, <2>2, <4>1
    <3> QED
      BY <3>1
  <2> QED
    BY <1>4, <2>3, <2>4, <2>5, <2>6
<1> QED
  BY <1>8, <1>9, <1>10, <1>11, <1>12 DEF PreRunStep

\* Steps of run().
LEMMA RunKeepsTrace ==
    ASSUME TypeOK, ClientTypeOK, OneAttempt, Places, SocketInv, TraceInv, NEW t \in Threads,
           RunStep(t) \/ SpawnThrows(t)
    PROVE  TraceInv'
<1> USE ClientAssumption, WorkerAssumption DEF TraceInv, ClientTypeOK, TypeOK
<1>1. /\ UNCHANGED <<m_socket, owner, fd>>
      /\ \A p \in Procs : (Hand(p)' <=> Hand(p)) /\ (Closing(p)' <=> Closing(p))
  BY RunKeepsSockets
<1>2. /\ tpc[t] = "run" /\ rs[t] = "off" /\ Exists /\ UNCHANGED <<opener, hook, object>>
      /\ \A u \in Threads \ {t} : tpc'[u] = tpc[u] /\ stage'[u] = stage[u] /\ rs'[u] = rs[u]
      /\ tpc'[t] \in {"run", "catch", "setStopped"}
  <2> USE DEF InRunAt, ThreadAt, ThreadGoto, StageGoto, vars, Procs
  <2>1. CASE SpawnLoops(t) \/ RunNotifies(t) \/ SpawnThrows(t)
    BY <2>1 DEF SpawnLoops, RunNotifies, SpawnThrows, HookThrows, clientVars
  <2>2. CASE JoinReader(t) \/ JoinWriter(t)
    BY <2>2 DEF JoinReader, JoinWriter, Retire, RunReturns, CallRequestStop
  <2> QED
    BY <2>1, <2>2 DEF RunStep
<1>3. \A u \in Threads \ {t} : tpc[u] \notin {"run", "preRun"} /\ ~Live(u)
  BY <1>2 DEF OneAttempt, Busy, Live, LiveLocations
<1>4. StoresOwn' /\ OpensOnce' /\ CallersDone'
  BY <1>1, <1>2, <1>3 DEF StoresOwn, OpensOnce, CallersDone, Exists
<1>5. m_socket # NoFd /\ opener[m_socket] \in served => opener[m_socket] = t /\ WillTake(t)
  BY <1>2, <1>3 DEF SocketOfRun
<1>6. ASSUME UNCHANGED <<served, tpc>>,
             m_socket # NoFd /\ opener[m_socket] \in served => WillTake(t)'
      PROVE  TraceInv'
  <2>1. SocketOfRun'
    BY <1>1, <1>2, <1>5, <1>6 DEF SocketOfRun
  <2>2. HandsInRun'
    BY <1>1, <1>2, <1>6 DEF HandsInRun
  <2>3. Followed'
    <3>1. \A f \in Fds : Wanted(f)' => Wanted(f)
      BY <1>2, <1>6 DEF Wanted, Exists, Live
    <3> QED
      BY <1>1, <3>1 DEF Followed
  <2> QED
    BY <1>4, <2>1, <2>2, <2>3
<1>7. CASE SpawnLoops(t)
  <2>1. served' = served \cup {t} /\ stage'[t] = "joinReader" /\ UNCHANGED tpc
    BY <1>7 DEF SpawnLoops, StageGoto, vars
  <2>2. SocketOfRun'
    BY <1>1, <1>2, <1>5, <2>1 DEF SocketOfRun, WillTake
  <2>3. HandsInRun'
    BY <1>1, <1>2, <2>1 DEF HandsInRun
  <2>4. Followed'
    <3>1. \A f \in Fds : Wanted(f)' => Wanted(f)
      BY <1>2, <2>1 DEF Wanted, Exists, Live, LiveLocations
    <3> QED
      BY <1>1, <3>1 DEF Followed
  <2> QED
    BY <1>4, <2>2, <2>3, <2>4
<1>8. CASE SpawnThrows(t) \/ JoinWriter(t)
  <2>1. UNCHANGED served /\ tpc'[t] \in {"catch", "setStopped"} /\ stage[t] \in {"spawn", "joinWriter"}
    BY <1>8 DEF SpawnThrows, JoinWriter, InRunAt, HookThrows, RunReturns, ThreadAt, ThreadGoto, clientVars
  <2>2. m_socket # NoFd => opener[m_socket] \notin served
    BY <1>5, <2>1 DEF WillTake
  <2>3. SocketOfRun'
    BY <1>1, <1>2, <2>1, <2>2 DEF SocketOfRun
  <2>4. HandsInRun'
    <3> SUFFICES ASSUME NEW p \in Procs \ Callers, Closing(p), opener[fd[p]] \in served
                 PROVE  tpc'[opener[fd[p]]] = "run"
      BY <1>1, <1>2, <2>1 DEF HandsInRun
    <3>1. opener[fd[p]] = t
      BY <1>3 DEF HandsInRun
    <3>2. t \in served
      BY <3>1
    <3>3. stage[t] = "joinWriter" /\ JoinWriter(t)
      BY <1>2, <1>8, <2>1, <3>2 DEF Places, ServedRan, LoopStages, SpawnThrows, InRunAt
    <3>4. \A h \in Helpers : rs[h] = "off"
      BY <3>3 DEF JoinWriter, RunReturns, HelpersDone
    <3>5. \A u \in Threads : rs[u] = "off"
      BY <1>2, <1>3 DEF Places, StopsFit
    <3>6. p \notin Threads \/ tpc[p] # "preRun"
      BY <1>2, <1>3
    <3> QED
      BY <3>4, <3>5, <3>6 DEF Closing, Procs
  <2>5. Followed'
    <3>1. \A f \in Fds : Wanted(f)' => Wanted(f)
      BY <1>2, <2>1 DEF Wanted, Exists, Live, LiveLocations
    <3> QED
      BY <1>1, <3>1 DEF Followed
  <2> QED
    BY <1>4, <2>3, <2>4, <2>5
<1>9. CASE RunNotifies(t)
  <2>1. UNCHANGED <<served, tpc>> /\ stage[t] = "notify"
    BY <1>9 DEF RunNotifies, InRunAt, vars
  <2>2. ~WillTake(t)
    BY <1>2, <2>1 DEF WillTake
  <2> QED
    BY <1>5, <1>6, <2>1, <2>2
<1>10. CASE JoinReader(t)
  <2>1. UNCHANGED <<served, tpc>> /\ stage'[t] = "notify" /\ rs'[t] = "lock"
    BY <1>10 DEF JoinReader, Retire, CallRequestStop, StageGoto, Procs
  <2> QED
    BY <1>6, <2>1 DEF WillTake
<1> QED
  BY <1>7, <1>8, <1>9, <1>10 DEF RunStep

\* The socket changes hands: from m_socket to a process that had none.
LEMMA TakeKeepsTrace ==
    ASSUME ClientTypeOK, Places, TraceInv, NEW p \in Procs, TakeSocket(p),
           UNCHANGED <<owner, opener, served, tpc, stage, object>>, Exists,
           ~Hand(p), Closing(p)' <=> fd'[p] # NoFd, ~Storing(p),
           \A q \in Procs \ {p} : (Hand(q)' <=> Hand(q)) /\ (Closing(q)' <=> Closing(q))
    PROVE  TraceInv'
<1> USE DEF TraceInv, ClientTypeOK
<1>1. /\ m_socket' = NoFd /\ fd'[p] = m_socket
      /\ \A q \in Procs \ {p} : fd'[q] = fd[q]
  BY DEF TakeSocket
<1>2. StoresOwn' /\ OpensOnce'
  BY <1>1 DEF StoresOwn, OpensOnce, Storing, Procs
<1>3. SocketOfRun' /\ CallersDone'
  BY <1>1 DEF SocketOfRun, CallersDone, Exists
<1>4. HandsInRun'
  BY <1>1 DEF HandsInRun, SocketOfRun
<1>5. Followed'
  <2> SUFFICES ASSUME NEW f \in Fds, owner[f] = "client", Wanted(f)
               PROVE  \E q \in Procs : Hand(q)' /\ fd'[q] = f
    BY DEF Followed, Wanted, Exists, Live
  <2>1. CASE m_socket = f
    <3>1. fd'[p] # NoFd
      BY <1>1, <2>1, ClientAssumption DEF NoFd
    <3> QED
      BY <1>1, <2>1, <3>1 DEF Hand
  <2>2. CASE m_socket # f
    <3>1. PICK q \in Procs : Hand(q) /\ fd[q] = f
      BY <2>2 DEF Followed
    <3> QED
      BY <1>1, <3>1
  <2> QED
    BY <2>1, <2>2
<1> QED
  BY <1>2, <1>3, <1>4, <1>5

\* A process closes the descriptor in its hands.
LEMMA CloseKeepsTrace ==
    ASSUME ClientTypeOK, TraceInv, NEW p \in Procs, CloseTaken(p),
           UNCHANGED <<m_socket, opener, served, tpc, stage>>, Exists,
           ~Storing(p), SocketOfRun', CallersDone',
           \A q \in Procs \ {p} : (Hand(q)' <=> Hand(q)) /\ (Closing(q)' <=> Closing(q))
    PROVE  TraceInv'
<1> USE DEF TraceInv, ClientTypeOK
<1>1. /\ fd'[p] = NoFd /\ ~Closing(p)'
      /\ \A q \in Procs \ {p} : fd'[q] = fd[q]
      /\ \A f \in Fds : owner'[f] = (IF f = fd[p] THEN "free" ELSE owner[f])
  BY DEF CloseTaken, Forget, Closing
<1>2. StoresOwn' /\ OpensOnce'
  BY <1>1 DEF StoresOwn, OpensOnce, Storing, Procs
<1>3. HandsInRun'
  BY <1>1 DEF HandsInRun
<1>4. Followed'
  <2> SUFFICES ASSUME NEW f \in Fds, owner[f] = "client", f # fd[p], Wanted(f), m_socket # f
               PROVE  \E q \in Procs : Hand(q)' /\ fd'[q] = f
    BY <1>1 DEF Followed, Wanted, Exists, Live
  <2>1. PICK q \in Procs : Hand(q) /\ fd[q] = f
    BY DEF Followed
  <2> QED
    BY <1>1, <2>1
<1> QED
  BY <1>2, <1>3, <1>4

\* Steps of stopTriggered.
LEMMA HookKeepsTrace ==
    ASSUME TypeOK, ClientTypeOK, Places, TraceInv, NEW p \in Procs, HookStep(p)
    PROVE  TraceInv'
<1> USE ClientAssumption, WorkerAssumption DEF TypeOK, ClientTypeOK, TraceInv, HookGoto, HookAt, vars, callVars
<1>0. /\ rs[p] = "hook" /\ UNCHANGED <<tpc, pc, stage, opener, served, object>>
      /\ \A q \in Procs \ {p} : rs'[q] = rs[q] /\ hook'[q] = hook[q]
  BY DEF HookStep, HookTakesSocket, HookCloses, HookClears, HookNotifies, HookReturns, BaseHookReturns,
         StopTriggeredReturns, clientVars
<1>1. ASSUME NEW q \in Procs \ {p}, fd'[q] = fd[q]
      PROVE  (Hand(q)' <=> Hand(q)) /\ (Closing(q)' <=> Closing(q))
  BY <1>0, <1>1 DEF Hand, Closing, Storing
<1>2. p \in Threads => tpc[p] = "run" /\ stage[p] = "notify"
  BY <1>0 DEF Places, StopsFit
<1>3. Hand(p) => hook[p] = "close"
  BY <1>0, <1>2 DEF Hand, Closing, Storing
<1>4. \A u \in Threads \ {p} : WillTake(u)' <=> WillTake(u)
  BY <1>0 DEF WillTake, Procs
<1>5. p \in Threads /\ hook[p] # "exchange" => ~WillTake(p)
  BY <1>0, <1>2 DEF WillTake
<1>6. CASE HookTakesSocket(p)
  <2>1. /\ TakeSocket(p) /\ UNCHANGED <<owner, rs>> /\ Exists /\ hook[p] = "exchange" /\ hook'[p] = "close"
    BY <1>6 DEF HookTakesSocket
  <2>2. \A q \in Procs \ {p} : fd'[q] = fd[q]
    BY <2>1 DEF TakeSocket
  <2>3. ~Hand(p) /\ ~Storing(p) /\ (Closing(p)' <=> fd'[p] # NoFd)
    BY <1>0, <1>2, <1>3, <2>1 DEF Storing, Closing
  <2> QED
    BY <1>0, <1>1, <2>1, <2>2, <2>3, TakeKeepsTrace
<1>7. CASE HookCloses(p)
  <2>1. CloseTaken(p) /\ UNCHANGED <<m_socket, rs>> /\ Exists /\ hook[p] = "close"
    BY <1>7 DEF HookCloses
  <2>2. \A q \in Procs \ {p} : fd'[q] = fd[q]
    BY <2>1 DEF CloseTaken, Forget
  <2>3. SocketOfRun' /\ CallersDone'
    BY <1>0, <1>4, <1>5, <2>1 DEF SocketOfRun, CallersDone, Exists
  <2>4. ~Storing(p)
    BY <1>2 DEF Storing
  <2> QED
    BY <1>0, <1>1, <2>1, <2>2, <2>3, <2>4, CloseKeepsTrace
<1>8. CASE HookClears(p) \/ HookNotifies(p) \/ HookReturns(p) \/ BaseHookReturns(p)
  <2>1. UNCHANGED <<m_socket, owner, fd>>
    BY <1>8 DEF HookClears, HookNotifies, HookReturns, BaseHookReturns, clientVars
  <2>2. \/ Exists /\ hook[p] \in {"clear", "notify", "return"} /\ hook'[p] # "close"
        \/ ~Exists /\ rs'[p] = "off" /\ UNCHANGED hook
    BY <1>8 DEF HookClears, HookNotifies, HookReturns, BaseHookReturns, StopTriggeredReturns, clientVars
  <2>3. Closing(p)' => Closing(p)
    BY <1>0, <2>1, <2>2 DEF Closing
  <2>4. StoresOwn' /\ OpensOnce' /\ CallersDone'
    BY <1>0, <2>1, <2>2 DEF StoresOwn, OpensOnce, CallersDone, Exists
  <2>5. SocketOfRun'
    BY <1>0, <1>4, <1>5, <2>1, <2>2 DEF SocketOfRun, Exists
  <2>6. HandsInRun'
    BY <1>0, <1>1, <2>1, <2>3 DEF HandsInRun
  <2>7. Followed'
    <3> SUFFICES ASSUME NEW f \in Fds, owner[f] = "client", Wanted(f), m_socket # f
                 PROVE  \E q \in Procs : Hand(q)' /\ fd[q] = f
      BY <1>0, <2>1 DEF Followed, Wanted, Exists, Live
    <3>1. PICK q \in Procs : Hand(q) /\ fd[q] = f
      BY DEF Followed
    <3>2. q # p
      <4>1. CASE Exists
        BY <1>3, <2>2, <3>1, <4>1
      <4>2. CASE ~Exists
        <5>1. opener[f] \in served /\ tpc[opener[f]] # "run"
          BY <4>2 DEF Wanted
        <5>2. Hand(p) => p \notin Callers
          BY <1>3, <4>2 DEF CallersDone
        <5>3. Hand(p) => Closing(p)
          BY <1>2 DEF Hand, Storing
        <5> QED
          BY <3>1, <5>1, <5>2, <5>3 DEF HandsInRun
      <4> QED
        BY <4>1, <4>2
    <3> QED
      BY <1>1, <2>1, <3>1, <3>2
  <2> QED
    BY <2>4, <2>5, <2>6, <2>7
<1> QED
  BY <1>6, <1>7, <1>8 DEF HookStep

\* Steps of the loops.
LEMMA LoopsKeepTrace ==
    ASSUME TypeOK, ClientTypeOK, SocketInv, TraceInv,
           ReaderStep \/ RecvGoesOn \/ RecvEnds \/ WriterStep \/ SendGoesOn \/ SendFails \/ BrokenPipe
    PROVE  TraceInv'
<1> USE ClientAssumption, WorkerAssumption DEF TypeOK, ClientTypeOK, TraceInv
<1>1. /\ UNCHANGED <<m_socket, owner, tpc, stage>>
      /\ \A p \in Procs : (Hand(p)' <=> Hand(p)) /\ (Closing(p)' <=> Closing(p))
      /\ \A p \in Procs : Hand(p) => fd'[p] = fd[p]
  BY LoopsKeepSockets
<1>2. /\ UNCHANGED <<opener, hook, served, object>>
      /\ \A t \in Threads : rs'[t] = rs[t]
  <2> USE DEF vars, WriterMoves, Procs
  <2>1. CASE ReaderStep \/ RecvGoesOn \/ RecvEnds
    BY <2>1 DEF ReaderStep, ReaderChecks, ReaderLoads, ReaderCallsRecv, RecvGoesOn, RecvEnds, ReaderStops,
                ReaderAt, HelperRequestsStop, CallRequestStop
  <2>2. CASE WriterStep \/ SendGoesOn \/ SendFails \/ BrokenPipe
    BY <2>2 DEF WriterStep, WriterChecks, WriterWaits, WriterSleeps, WriterLoads, WriterCallsSend,
                SendGoesOn, SendFails, BrokenPipe, WriterStops, WriterAt, HelperRequestsStop, CallRequestStop
  <2> QED
    BY <2>1, <2>2
<1>3. StoresOwn'
  BY <1>1, <1>2 DEF StoresOwn, Hand, Storing, Procs, NoFd
<1>4. OpensOnce' /\ CallersDone'
  BY <1>1, <1>2 DEF OpensOnce, CallersDone, Exists
<1>5. SocketOfRun'
  BY <1>1, <1>2 DEF SocketOfRun, WillTake, Exists
<1>6. HandsInRun'
  BY <1>1, <1>2 DEF HandsInRun, Hand, Closing
<1>7. Followed'
  BY <1>1, <1>2 DEF Followed, Wanted, Exists, Live
<1> QED
  BY <1>3, <1>4, <1>5, <1>6, <1>7

\* Steps of the destructor: the caller is alone with the object.
LEMMA DestructorKeepsTrace ==
    ASSUME TypeOK, ClientTypeOK, PlaceFitsOperation, DestroyerAlone, Places, TraceInv, NEW c \in Callers,
           DestructorTakesSocket(c) \/ DestructorCloses(c)
    PROVE  TraceInv'
<1> USE ClientAssumption, WorkerAssumption DEF TypeOK, ClientTypeOK, HookGoto, vars, callVars
<1>0. /\ rs[c] = "off" /\ pc[c] = "dismantle" /\ Exists /\ op[c] = "destroy"
      /\ UNCHANGED <<tpc, stage, opener, served>>
      /\ \A q \in Procs \ {c} : /\ rs'[q] = rs[q] /\ hook'[q] = hook[q]
                                /\ q \in Callers => pc'[q] = pc[q]
  BY DEF DestructorTakesSocket, DestructorCloses, Dismantle, CallRequestStop, Goto, At, PlaceFitsOperation,
         Exists
<1>1. ASSUME NEW q \in Procs \ {c}, fd'[q] = fd[q]
      PROVE  (Hand(q)' <=> Hand(q)) /\ (Closing(q)' <=> Closing(q))
  BY <1>0, <1>1 DEF Hand, Closing, Storing
<1>2. c \in Procs /\ c \notin Threads /\ ~Storing(c)
  BY DEF Procs, Storing
<1>3. CASE DestructorTakesSocket(c)
  <2>1. /\ TakeSocket(c) /\ UNCHANGED <<owner, object, pc>> /\ hook[c] = "exchange" /\ hook'[c] = "close"
    BY <1>2, <1>3 DEF DestructorTakesSocket
  <2>2. \A q \in Procs \ {c} : fd'[q] = fd[q]
    BY <2>1 DEF TakeSocket
  <2>3. ~Hand(c) /\ (Closing(c)' <=> fd'[c] # NoFd)
    BY <1>0, <1>2, <2>1 DEF Hand, Storing, Closing
  <2> QED
    BY <1>0, <1>1, <1>2, <2>1, <2>2, <2>3, TakeKeepsTrace
<1>4. CASE DestructorCloses(c)
  <2>1. CloseTaken(c) /\ UNCHANGED m_socket /\ object' = "derivedGone" /\ hook'[c] = "exchange"
    BY <1>2, <1>4 DEF DestructorCloses, Dismantle
  <2>2. \A q \in Procs \ {c} : fd'[q] = fd[q]
    BY <2>1 DEF CloseTaken, Forget
  <2>3. \A d \in Callers \ {c} : hook[d] = "exchange"
    BY <1>0 DEF DestroyerAlone, InCall, Places, HookFresh, Procs
  <2>4. CallersDone'
    BY <1>0, <2>1, <2>3 DEF CallersDone, Procs
  <2>5. SocketOfRun'
    BY <1>0, <2>1 DEF TraceInv, SocketOfRun, Exists
  <2> QED
    BY <1>0, <1>1, <1>2, <2>1, <2>2, <2>4, <2>5, CloseKeepsTrace
<1> QED
  BY <1>3, <1>4

\* Steps of send and of the rest of the application.
LEMMA OthersKeepTrace ==
    ASSUME TypeOK, ClientTypeOK, TraceInv,
           \/ \E s \in Senders : SendChecks(s) \/ SendPushes(s) \/ SendNotifies(s)
           \/ OtherOpens \/ ClientTerminated \/ UNCHANGED allVars
    PROVE  TraceInv'
<1> USE DEF TypeOK, ClientTypeOK, TraceInv
<1>1. UNCHANGED <<m_socket, fd, tpc, stage, rs, hook, pc, object, opener, served>>
  BY DEF SendChecks, SendPushes, SendNotifies, OtherOpens, ClientTerminated, allVars, vars, callVars,
         clientVars
<1>2. \A f \in Fds : owner'[f] = "client" => owner[f] = "client"
  BY DEF SendChecks, SendPushes, SendNotifies, OtherOpens, ClientTerminated, allVars, clientVars
<1>3. \A p \in Procs : (Hand(p)' <=> Hand(p)) /\ (Closing(p)' <=> Closing(p))
  BY <1>1 DEF Hand, Closing, Storing
<1>4. StoresOwn' /\ OpensOnce' /\ CallersDone'
  BY <1>1 DEF StoresOwn, OpensOnce, CallersDone, Exists
<1>5. SocketOfRun'
  BY <1>1 DEF SocketOfRun, WillTake, Exists
<1>6. HandsInRun'
  BY <1>1, <1>3 DEF HandsInRun
<1>7. \A f \in Fds : Wanted(f)' <=> Wanted(f)
  BY <1>1 DEF Wanted, Exists, Live
<1>8. Followed'
  BY <1>1, <1>2, <1>3, <1>7 DEF Followed
<1> QED
  BY <1>4, <1>5, <1>6, <1>8

\* No socket of a live thread, or of a run() that has started its loops, gets lost.
LEMMA TraceInvariant == ClientSpec => []TraceInv
<1>1. ClientInit => TraceInv
  <2> SUFFICES ASSUME ClientInit PROVE TraceInv
    OBVIOUS
  <2> USE WorkerAssumption DEF ClientInit, Init
  <2>1. StoresOwn /\ OpensOnce /\ SocketOfRun /\ CallersDone
    BY DEF StoresOwn, OpensOnce, SocketOfRun, CallersDone, Exists
  <2>2. HandsInRun /\ Followed
    BY DEF HandsInRun, Closing, Followed
  <2> QED
    BY <2>1, <2>2 DEF TraceInv
<1>2. /\ TypeOK /\ OneAttempt /\ StoppedIffIdle /\ PlaceFitsOperation /\ DestroyerAlone
      /\ ClientTypeOK /\ Places /\ SocketInv /\ TraceInv /\ [ClientNext]_allVars
      => TraceInv'
  BY BaseKeepsTrace, PreRunKeepsTrace, RunKeepsTrace, HookKeepsTrace, LoopsKeepTrace,
     DestructorKeepsTrace, OthersKeepTrace, Zenon DEF ClientNext, InProcess, ClientStep
<1> QED
  BY <1>1, <1>2, PlacesInvariant, SocketInvariant, ClientIsBaseWorker, ClientTypeCorrect, TypeCorrect,
     Exclusive, Bookkeeping, PTL DEF ClientSpec, ImplementsBaseWorker

\* A run() that has started its loops leaves neither a loop nor a socket behind, however
\* it came to its end.
THEOREM RunLeavesNothingAlways == ClientSpec => []RunLeavesNothing
<1>1. /\ ClientTypeOK /\ StoppedIffIdle /\ Places /\ TraceInv
      => RunLeavesNothing
  <2> SUFFICES ASSUME ClientTypeOK, StoppedIffIdle, Places, TraceInv PROVE RunLeavesNothing
    OBVIOUS
  <2>1. m_state = "Stopped" => rpc = "off" /\ wpc = "off"
    BY DEF StoppedIffIdle, Busy, Live, LiveLocations, Places, LoopsBelong
  <2>2. ASSUME NEW f \in Fds, owner[f] = "client", opener[f] \in served, ~Live(opener[f])
        PROVE  \E p \in Procs : Closing(p) /\ fd[p] = f
    <3>1. opener[f] \in Threads /\ tpc[opener[f]] \notin {"run", "preRun"}
      BY <2>2 DEF ClientTypeOK, Live, LiveLocations
    <3>2. Wanted(f)
      BY <2>2, <3>1 DEF Wanted
    <3>3. m_socket # f
      BY <2>2, <3>1, ClientAssumption DEF TraceInv, SocketOfRun, NoFd
    <3>4. PICK p \in Procs : Hand(p) /\ fd[p] = f
      BY <2>2, <3>2, <3>3 DEF TraceInv, Followed
    <3>5. ~Storing(p)
      BY <3>1, <3>4 DEF TraceInv, StoresOwn, Storing
    <3> QED
      BY <3>4, <3>5 DEF Hand
  <2> QED
    BY <2>1, <2>2 DEF RunLeavesNothing
<1> QED
  BY <1>1, PlacesInvariant, TraceInvariant, ClientIsBaseWorker, ClientTypeCorrect, Exclusive, PTL
     DEF ImplementsBaseWorker
=============================================================================
