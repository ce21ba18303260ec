-------------------------- MODULE TcpServerProofs --------------------------
(***************************************************************************)
(* TcpServer implements BaseWorker, for any callers, connections and       *)
(* descriptors: the theorems of BaseWorkerProofs hold for the server.  The *)
(* places of its threads (Places) carry the invariants of the server: who  *)
(* owns a session (SessionInv), who closes a descriptor (SocketInv), and   *)
(* that no connection is forgotten (Followed).                             *)
(***************************************************************************)
EXTENDS TcpServer, BaseWorkerProofs

\* The steps of preRun.
LEMMA PreRunAllowed ==
    ASSUME NEW t \in Threads, PreRunStep(t)
    PROVE  Next \/ UNCHANGED vars
<1>1. CASE OpenSocket(t) \/ StoreSocket(t) \/ NotBound(t) \/ FailedTakesSocket(t)
    BY <1>1 DEF OpenSocket, StoreSocket, NotBound, FailedTakesSocket
<1>2. CASE NoSocket(t) \/ Bound(t) \/ FailedCloses(t)
    <2>1. \E ok \in BOOLEAN : PreRunReturns(t, ok)
        BY <1>2, Zenon DEF NoSocket, Bound, FailedCloses
    <2>2. QED BY <2>1, Zenon DEF Next, Hooks
<1>3. QED BY <1>1, <1>2, Zenon DEF PreRunStep

\* joinAndClearAllClients and closeServerSocket, in run() and in the destructor:
\* the base class sees the return of run() only.
LEMMA DrainAllowed ==
    ASSUME NEW p \in Threads \cup Callers, DrainStep(p)
    PROVE  Next \/ UNCHANGED vars
<1>1. CASE Splice(p) \/ DrainTakes(p) \/ DrainCloses(p) \/ DrainJoins(p) \/ LastTake(p)
    BY <1>1 DEF Splice, DrainTakes, DrainCloses, DrainJoins, LastTake
<1>2. CASE LastClose(p)
    <2>1. CASE p \in Threads
        <3>1. RunReturns(p)
            BY <1>2, <2>1, Zenon DEF LastClose
        <3>2. QED BY <2>1, <3>1, Zenon DEF Next, Hooks
    <2>2. CASE p \notin Threads
        BY <1>2, <2>2, Zenon DEF LastClose
    <2>3. QED BY <2>1, <2>2
<1>3. QED BY <1>1, <1>2, Zenon DEF DrainStep

\* The accept loop: a failed accept may request a stop.
LEMMA RunAllowed ==
    ASSUME NEW t \in Threads, RunStep(t) \/ AcceptReturns(t)
    PROVE  Next \/ UNCHANGED vars
<1>1. CASE RunChecks(t) \/ reapCompletedClients(t) \/ RunLoads(t) \/ RunCallsAccept(t)
    BY <1>1, Zenon DEF RunChecks, reapCompletedClients, RunLoads, RunCallsAccept, RunMoves
<1>2. CASE Accepted(t) \/ AcceptBreaks(t) \/ AcceptInterrupted(t)
    BY <1>2, Zenon DEF Accepted, AcceptBreaks, AcceptInterrupted, RunMoves
<1>3. CASE SessionRefused(t) \/ SessionThreadFails(t) \/ RefusedCloses(t)
           \/ \E s \in Sessions : startClientSession(t, s)
    BY <1>3, Zenon DEF SessionRefused, SessionThreadFails, RefusedCloses, startClientSession,
                       RunMoves
<1>4. CASE AcceptFailed(t)
    <2>1. Retire(t) \/ UNCHANGED vars
        BY <1>4, Zenon DEF AcceptFailed
    <2>2. QED BY <2>1, Zenon DEF Next, Hooks
<1>5. CASE DrainStep(t)
    BY <1>5, DrainAllowed
<1>6. QED BY <1>1, <1>2, <1>3, <1>4, <1>5, Zenon DEF RunStep, AcceptReturns

\* The steps of stopTriggered.
LEMMA HookAllowed ==
    ASSUME NEW p \in Procs, HookStep(p)
    PROVE  Next \/ UNCHANGED vars
<1>1. CASE HookTakesServer(p) \/ HookClosesServer(p) \/ HookLocks(p) \/ HookTakesClient(p)
           \/ HookClosesClient(p)
    BY <1>1, Zenon DEF HookTakesServer, HookClosesServer, HookLocks, HookTakesClient,
                       HookClosesClient
<1>2. CASE HookReturns(p) \/ BaseHookReturns(p)
    <2>1. StopTriggeredReturns(p)
        BY <1>2, Zenon DEF HookReturns, BaseHookReturns
    <2>2. QED BY <2>1, Zenon DEF Next, Hooks
<1>3. QED BY <1>1, <1>2, Zenon DEF HookStep

\* The handlers are no part of the base class: they only read its stop flag.
LEMMA HandlerAllowed ==
    ASSUME NEW s \in Sessions, HandlerStep(s) \/ RecvGoesOn(s) \/ RecvEnds(s)
    PROVE  UNCHANGED vars
BY Zenon DEF HandlerStep, HandlerChecks, HandlerLoads, HandlerCallsRecv, RecvIsShut,
             HandlerTakes, HandlerCloses, RecvGoesOn, RecvEnds, HandlerMoves

\* The destructor stops the server before the base class's destructor begins.
LEMMA DestructorAllowed ==
    ASSUME NEW c \in Callers, DestructorEnds(c)
    PROVE  Next
<1>1. CallerStep(c)
    BY Zenon DEF DestructorEnds, CallerStep
<1>2. QED BY <1>1, Zenon DEF Next, Plumbing

\* What the server does not refine is the base class's own.
LEMMA BasePartAllowed ==
    ASSUME BasePart
    PROVE  Next
BY Zenon DEF BasePart, Next, Plumbing

\* TCPServer_V2 is a cBaseWorker_V2: every step of the accept loop, of the
\* handlers, of the hooks and of the destructor is a step that BaseWorker
\* allows, or none of its business.
THEOREM ServerIsBaseWorker == ServerSpec => ImplementsBaseWorker
<1>1. ServerInit => Init
    BY DEF ServerInit
<1>2. [ServerNext]_allVars => [Next]_vars
    <2>1. SUFFICES ASSUME [ServerNext]_allVars
                   PROVE  Next \/ UNCHANGED vars
        OBVIOUS
    <2>2. CASE BasePart
        BY <2>2, BasePartAllowed
    <2>3. CASE \E t \in Threads : PreRunStep(t) \/ RunStep(t) \/ AcceptReturns(t)
        BY <2>3, PreRunAllowed, RunAllowed, Zenon
    <2>4. CASE \E p \in Procs : HookStep(p)
        BY <2>4, HookAllowed, Zenon
    <2>5. CASE \E s \in Sessions : HandlerStep(s) \/ RecvGoesOn(s) \/ RecvEnds(s)
        BY <2>5, HandlerAllowed, Zenon
    <2>6. CASE \E c \in Callers : DrainStep(c) \/ DestructorEnds(c)
        <3>1. PICK c \in Callers : DrainStep(c) \/ DestructorEnds(c)
            BY <2>6
        <3>2. c \in Threads \cup Callers
            OBVIOUS
        <3>3. QED BY <3>1, <3>2, DrainAllowed, DestructorAllowed, Zenon
    <2>7. CASE OtherOpens \/ ServerTerminated \/ UNCHANGED allVars
        BY <2>7 DEF OtherOpens, ServerTerminated, allVars
    <2>8. QED
        BY <2>1, <2>2, <2>3, <2>4, <2>5, <2>6, <2>7, Zenon DEF ServerNext
<1>3. QED
    BY <1>1, <1>2, PTL DEF ServerSpec, ImplementsBaseWorker, Spec

-----------------------------------------------------------------------------
(* Types.                                                                    *)

\* The socket, the sessions, the descriptors and the places of the server keep their
\* types, for any callers, threads, connections and descriptors.
THEOREM ServerTypeCorrect == ServerSpec => []ServerTypeOK
<1> USE ServerAssumption, WorkerAssumption
<1>1. ServerInit => ServerTypeOK
  BY DEF ServerInit, ServerTypeOK, DrainStages, Procs
<1>2. ServerTypeOK /\ [ServerNext]_allVars => ServerTypeOK'
  <2> SUFFICES ASSUME ServerTypeOK, [ServerNext]_allVars
               PROVE  ServerTypeOK'
    OBVIOUS
  <2> USE DEF ServerTypeOK, DrainStages, Procs, Load, StageGoto, HookGoto, RunMoves
  <2>1. CASE BasePart
    BY <2>1 DEF BasePart, serverVars
  <2>2. ASSUME NEW x \in Procs \cup Sessions, CloseTaken(x)
        PROVE  /\ owner' \in [Fds -> {"free", "socket", "listener", "client", "other"}]
               /\ fd' \in [Procs \cup Sessions -> Fds \cup {NoFd}]
               /\ hpc' \in [Sessions -> {"unborn", "check", "load", "recv", "blocked",
                                         "astray", "shut", "take", "close", "done", "joined"}]
    BY <2>2 DEF CloseTaken, Closes
  <2>3. ASSUME NEW p \in Threads \cup Callers, NEW loc \in {"end", "loop", "drainJoin", "splice"},
               CloseAndGoto(p, loc)
        PROVE  stage' \in [Threads \cup Callers ->
                    {"socket", "store", "bind", "fail", "failClose", "loop", "reap", "load",
                     "accept", "blocked", "astray", "failed", "start", "refuse", "closeAgain",
                     "lastTake", "lastClose", "end"} \cup DrainStages]
    BY <2>3 DEF CloseAndGoto, AfterClose
  <2>4. ASSUME NEW t \in Threads, PreRunStep(t)
        PROVE  ServerTypeOK'
    <3>1. CASE OpenSocket(t)
      BY <3>1 DEF OpenSocket, Opens, Free
    <3>2. CASE NoSocket(t)
      BY <3>2 DEF NoSocket, serverVars
    <3>3. CASE StoreSocket(t) \/ NotBound(t) \/ FailedTakesSocket(t)
      BY <3>3 DEF StoreSocket, NotBound, FailedTakesSocket, TakeServer
    <3>4. CASE Bound(t)
      BY <3>4 DEF Bound
    <3>5. CASE FailedCloses(t)
      BY <2>2, <2>3, <3>5 DEF FailedCloses, CloseAndGoto
    <3> QED
      BY <2>4, <3>1, <3>2, <3>3, <3>4, <3>5 DEF PreRunStep
  <2>5. ASSUME NEW p \in Threads \cup Callers, DrainStep(p)
        PROVE  ServerTypeOK'
    <3>1. CASE Splice(p) \/ LastTake(p)
      BY <3>1 DEF Splice, LastTake, TakeServer
    <3>2. CASE DrainTakes(p)
      BY <3>2 DEF DrainTakes, TakeClient, AfterDrain
    <3>3. CASE DrainCloses(p)
      BY <2>2, <2>3, <3>3 DEF DrainCloses, CloseAndGoto
    <3>4. CASE DrainJoins(p)
      BY <3>4 DEF DrainJoins
    <3>5. CASE LastClose(p)
      <4>1. PICK loc \in {"end", "splice"} : CloseAndGoto(p, loc)
        BY <3>5 DEF LastClose
      <4> QED
        BY <2>2, <2>3, <3>5, <4>1 DEF LastClose, CloseAndGoto
    <3> QED
      BY <2>5, <3>1, <3>2, <3>3, <3>4, <3>5 DEF DrainStep
  <2>6. ASSUME NEW t \in Threads, RunStep(t) \/ AcceptReturns(t)
        PROVE  ServerTypeOK'
    <3>1. CASE RunChecks(t) \/ RunLoads(t) \/ RunCallsAccept(t) \/ AcceptFailed(t)
               \/ SessionRefused(t)
      BY <3>1 DEF RunChecks, RunLoads, RunCallsAccept, AcceptFailed, SessionRefused
    <3>7. CASE SessionThreadFails(t)
      BY <3>7 DEF SessionThreadFails, Closes, AfterClose
    <3>2. CASE reapCompletedClients(t)
      BY <3>2 DEF reapCompletedClients
    <3>3. CASE RefusedCloses(t)
      BY <2>2, <2>3, <3>3 DEF RefusedCloses, CloseAndGoto
    <3>4. CASE \E s \in Sessions : startClientSession(t, s)
      BY <3>4 DEF startClientSession
    <3>5. CASE Accepted(t)
      BY <3>5 DEF Accepted, Opens, Free
    <3>6. CASE AcceptBreaks(t) \/ AcceptInterrupted(t)
      BY <3>6 DEF AcceptBreaks, AcceptInterrupted
    <3> QED
      BY <2>5, <2>6, <3>1, <3>2, <3>3, <3>4, <3>5, <3>6, <3>7 DEF RunStep, AcceptReturns
  <2>7. ASSUME NEW p \in Procs, HookStep(p)
        PROVE  ServerTypeOK'
    <3>1. CASE HookTakesServer(p) \/ HookLocks(p) \/ HookReturns(p) \/ BaseHookReturns(p)
      BY <3>1 DEF HookTakesServer, HookLocks, HookReturns, BaseHookReturns, TakeServer, serverVars
    <3>2. CASE HookClosesServer(p) \/ HookClosesClient(p)
      BY <2>2, <3>2 DEF HookClosesServer, HookClosesClient, AfterClose
    <3>3. CASE HookTakesClient(p)
      BY <3>3 DEF HookTakesClient, TakeClient
    <3> QED
      BY <2>7, <3>1, <3>2, <3>3 DEF HookStep
  <2>8. ASSUME NEW s \in Sessions, HandlerStep(s) \/ RecvGoesOn(s) \/ RecvEnds(s)
        PROVE  ServerTypeOK'
    <3>1. CASE HandlerCloses(s)
      BY <2>2, <3>1 DEF HandlerCloses, AfterClose
    <3>2. CASE \/ HandlerChecks(s) \/ HandlerLoads(s) \/ HandlerCallsRecv(s) \/ RecvIsShut(s)
               \/ HandlerTakes(s) \/ RecvGoesOn(s) \/ RecvEnds(s)
      BY <3>2 DEF HandlerChecks, HandlerLoads, HandlerCallsRecv, RecvIsShut, HandlerTakes,
                  RecvGoesOn, RecvEnds, HandlerMoves, TakeClient
    <3> QED
      BY <2>8, <3>1, <3>2, Zenon DEF HandlerStep
  <2>9. ASSUME NEW c \in Callers, DestructorEnds(c)
        PROVE  ServerTypeOK'
    BY <2>9 DEF DestructorEnds, serverVars
  <2>10. CASE OtherOpens \/ ServerTerminated \/ UNCHANGED allVars
    BY <2>10 DEF OtherOpens, ServerTerminated, allVars, serverVars
  <2> QED
    BY <2>1, <2>4, <2>5, <2>6, <2>7, <2>8, <2>9, <2>10 DEF ServerNext
<1> QED
  BY <1>1, <1>2, PTL DEF ServerSpec

-----------------------------------------------------------------------------
(* Places: where the threads of the server are at the same time.             *)

PreRunStages == {"socket", "store", "bind", "fail", "failClose"}

\* The accept loop up to the point where the list is taken out of the object.
LoopStages == {"loop", "reap", "load", "accept", "blocked", "astray", "failed", "start",
               "refuse", "closeAgain", "splice"}

\* A local list is being emptied.
JoinStages == {"drain", "drainClose", "drainJoin"}

LastStages == {"lastTake", "lastClose"}

DestructorStages == LastStages \cup JoinStages \cup {"splice", "end"}

\* The place in preRun or run fits the place in threadRunner; a worker thread requests a
\* stop when its accept has failed.
ThreadFits(t) ==
    /\ tpc[t] = "unborn" => stage[t] = "socket"
    /\ tpc[t] = "preRun" => stage[t] \in PreRunStages
    /\ tpc[t] \in {"check", "setRunning", "notifyRunning"} => stage[t] = "loop"
    /\ tpc[t] = "run" => stage[t] \in LoopStages \cup JoinStages \cup LastStages
    /\ tpc[t] \notin {"preRun", "run"} => stage[t] \in {"socket", "loop", "end"}
    /\ rs[t] # "off" => tpc[t] = "run" /\ stage[t] = "splice"

\* A caller requests no stop in the destructor, and outside of it is at its beginning.
CallerFits(c) ==
    /\ pc[c] = "dismantle" => rs[c] = "off"
    /\ Exists /\ pc[c] # "dismantle" => stage[c] = "lastTake"
    /\ stage[c] \in DestructorStages

\* stopTriggered is entered at its first statement.
HookFits(p) == Exists => rs[p] = "hook" \/ hook[p] = "takeServer"

Places ==
    /\ \A t \in Threads : ThreadFits(t)
    /\ \A c \in Callers : CallerFits(c)
    /\ \A p \in Procs : HookFits(p)

\* A server that was never started is in place.
LEMMA InitEstablishesPlaces == ServerInit => Places
BY WorkerAssumption DEF Procs, ServerInit, Init, Places, ThreadFits, CallerFits, HookFits,
   DestructorStages, LastStages

\* The steps that the server leaves to the base class.
LEMMA BasePartIsBaseStep == BasePart => BaseStep
BY Zenon DEF BasePart, BaseStep

\* Steps of the base class.
LEMMA BaseKeepsPlaces ==
    ASSUME TypeOK, ServerTypeOK, PlaceFitsOperation, Places, BasePart
    PROVE  Places'
<1> USE ServerAssumption, WorkerAssumption DEF Places, Procs
<1>1. UNCHANGED <<stage, hook>>
  BY DEF BasePart, serverVars
<1>2. ASSUME NEW t \in Threads PROVE ThreadFits(t)'
  <2>1. RunnerMoves(t) /\ RequestMoves(t)
    BY BasePartIsBaseStep, RunnersMove, RequestsMove
  <2>2. rs'[t] # "off" => rs[t] # "off"
    BY <2>1 DEF RequestMoves
  <2>3. tpc[t] \in {"preRun", "run"} => tpc'[t] = tpc[t]
    BY <2>1 DEF RunnerMoves
  <2>4. tpc[t] \notin {"preRun", "run"} =>
           \/ tpc'[t] = tpc[t]
           \/ tpc[t] = "unborn" /\ tpc'[t] = "preRun"
           \/ tpc[t] \in {"check", "setRunning", "notifyRunning"}
              /\ tpc'[t] \in {"setRunning", "notifyRunning", "run", "setStopped"}
           \/ tpc'[t] \in {"setStopped", "notifyStopped", "exited", "joined"}
    BY <2>1 DEF RunnerMoves
  <2> QED
    BY <1>1, <2>2, <2>3, <2>4 DEF ThreadFits, PreRunStages, LoopStages
<1>3. ASSUME NEW p \in Procs PROVE RequestMoves(p)
  BY BasePartIsBaseStep, RequestsMove
<1>4. /\ Exists' = Exists
      /\ \A c \in Callers : pc[c] = "dismantle" => pc'[c] = "dismantle"
      /\ \A c \in Callers : pc'[c] = "dismantle" /\ pc[c] # "dismantle" =>
            rs[c] = "off" /\ rs'[c] = "off" /\ Exists
  BY BasePartIsBaseStep, DestructionMoves DEF Exists, DerivedExists
<1>5. ASSUME NEW c \in Callers PROVE CallerFits(c)'
  BY <1>1, <1>3, <1>4 DEF CallerFits, RequestMoves
<1>6. ASSUME NEW p \in Procs PROVE HookFits(p)'
  BY <1>1, <1>3, <1>4 DEF HookFits, RequestMoves
<1> QED
  BY <1>2, <1>5, <1>6

\* A close wakes an accept that is blocked, and moves nobody else.
Nudged(x) ==
    \A q \in (Threads \cup Callers) \ {x} :
        stage'[q] = stage[q] \/ (stage[q] \in {"blocked", "astray"} /\ stage'[q] = "failed")

\* One process or handler moves.
LEMMA OneMoves ==
    ASSUME TypeOK, ServerTypeOK, Places, UNCHANGED object, NEW x, Nudged(x),
           \A t \in Threads \ {x} : tpc'[t] = tpc[t],
           \A c \in Callers \ {x} : pc'[c] = pc[c],
           \A p \in Procs \ {x} : rs'[p] = rs[p] /\ hook'[p] = hook[p],
           x \in Threads => ThreadFits(x)',
           x \in Callers => CallerFits(x)',
           x \in Procs => HookFits(x)'
    PROVE  Places'
<1> USE DEF Places, Procs
<1>1. ASSUME NEW t \in Threads, t # x PROVE ThreadFits(t)'
  BY <1>1 DEF ThreadFits, Nudged, PreRunStages, LoopStages, JoinStages, LastStages
<1>2. ASSUME NEW c \in Callers, c # x PROVE CallerFits(c)'
  BY <1>2 DEF CallerFits, Nudged, Exists, DestructorStages, LastStages, JoinStages
<1>3. ASSUME NEW p \in Procs, p # x PROVE HookFits(p)'
  BY <1>3 DEF HookFits, Exists
<1> QED
  BY <1>1, <1>2, <1>3

\* A close by p that goes on at loc, one inside stopTriggered, and one by a handler.
LEMMA CloseNudges ==
    ASSUME ServerTypeOK
    PROVE  /\ \A p \in Threads \cup Callers : \A loc :
                 CloseAndGoto(p, loc) => Nudged(p) /\ stage'[p] = loc
           /\ \A p \in Procs : stage' = AfterClose(p) =>
                 Nudged(p) /\ (p \in Threads \cup Callers => stage'[p] = stage[p])
           /\ \A t \in Threads : SessionThreadFails(t) => Nudged(t) /\ stage'[t] = "closeAgain"
           /\ \A s \in Sessions : HandlerCloses(s) => Nudged(s)
<1> USE DEF ServerTypeOK, Procs, Nudged, AfterClose
<1>1. ASSUME NEW p \in Threads \cup Callers, NEW loc, CloseAndGoto(p, loc)
      PROVE  Nudged(p) /\ stage'[p] = loc
  BY <1>1 DEF CloseAndGoto
<1>2. ASSUME NEW s \in Sessions, HandlerCloses(s) PROVE Nudged(s)
  BY <1>2 DEF HandlerCloses
<1>3. ASSUME NEW t \in Threads, SessionThreadFails(t)
      PROVE  Nudged(t) /\ stage'[t] = "closeAgain"
  BY <1>3 DEF SessionThreadFails
<1> QED
  BY <1>1, <1>2, <1>3

\* Steps of preRun.
LEMMA PreRunKeepsPlaces ==
    ASSUME TypeOK, ServerTypeOK, Places, NEW t \in Threads, PreRunStep(t)
    PROVE  Places'
<1> USE ServerAssumption, WorkerAssumption DEF Procs, TypeOK, ServerTypeOK, StageGoto, ThreadAt,
        vars, workerVars, callVars, InPreRun
<1>1. t \notin Callers /\ HookFits(t) /\ ThreadFits(t)
  BY DEF Places
<1>2. CASE OpenSocket(t) \/ StoreSocket(t) \/ NotBound(t) \/ FailedTakesSocket(t)
  <2>1. PICK loc \in PreRunStages :
          /\ tpc[t] = "preRun" /\ rs[t] = "off" /\ stage' = [stage EXCEPT ![t] = loc]
          /\ UNCHANGED <<tpc, rs, pc, object, hook>>
    BY <1>2 DEF OpenSocket, StoreSocket, NotBound, FailedTakesSocket, PreRunStages
  <2>2. ThreadFits(t)' /\ HookFits(t)' /\ Nudged(t)
    BY <1>1, <2>1 DEF ThreadFits, HookFits, Nudged, Exists
  <2> QED
    BY <1>1, <2>1, <2>2, OneMoves
<1>3. CASE NoSocket(t) \/ Bound(t) \/ FailedCloses(t)
  <2>1. /\ tpc[t] = "preRun" /\ rs[t] = "off"
        /\ UNCHANGED <<rs, pc, object, hook>>
    BY <1>3 DEF NoSocket, Bound, FailedCloses, PreRunReturns, serverVars
  <2>2. /\ Nudged(t)
        /\ \/ tpc' = [tpc EXCEPT ![t] = "setStopped"] /\ stage'[t] \in {"socket", "end"}
           \/ tpc' = [tpc EXCEPT ![t] = "check"] /\ stage'[t] = "loop"
    BY <1>3, CloseNudges DEF NoSocket, Bound, FailedCloses, PreRunReturns, ThreadGoto, Nudged,
                             serverVars
  <2>3. ThreadFits(t)' /\ HookFits(t)'
    BY <1>1, <2>1, <2>2 DEF ThreadFits, HookFits, Exists
  <2>4. \A u \in Threads \ {t} : tpc'[u] = tpc[u]
    BY <2>2
  <2> QED
    BY <1>1, <2>1, <2>2, <2>3, <2>4, OneMoves
<1> QED
  BY <1>2, <1>3 DEF PreRunStep

\* Steps of the accept loop.
LEMMA LoopKeepsPlaces ==
    ASSUME TypeOK, ServerTypeOK, Places, NEW t \in Threads,
           (RunStep(t) /\ ~DrainStep(t)) \/ AcceptReturns(t)
    PROVE  Places'
<1> USE ServerAssumption, WorkerAssumption DEF Procs, TypeOK, ServerTypeOK, StageGoto, ThreadAt,
        vars, workerVars, callVars, InRunAt, RunMoves
<1>1. t \notin Callers /\ HookFits(t) /\ ThreadFits(t)
  BY DEF Places
<1>2. CASE AcceptFailed(t)
  <2>1. /\ tpc[t] = "run" /\ rs[t] = "off" /\ stage' = [stage EXCEPT ![t] = "splice"]
        /\ UNCHANGED <<tpc, pc, object, hook>>
        /\ UNCHANGED rs \/ rs' = [rs EXCEPT ![t] = "lock"]
    BY <1>2 DEF AcceptFailed, Retire, CallRequestStop
  <2>2. ThreadFits(t)' /\ HookFits(t)' /\ Nudged(t)
    BY <1>1, <2>1 DEF ThreadFits, HookFits, Nudged, Exists, LoopStages
  <2>3. \A p \in Procs \ {t} : rs'[p] = rs[p]
    BY <2>1
  <2> QED
    BY <1>1, <2>1, <2>2, <2>3, OneMoves
<1>3. CASE ~AcceptFailed(t)
  <2>1. /\ tpc[t] = "run" /\ rs[t] = "off" /\ stage'[t] \in LoopStages /\ Nudged(t)
        /\ UNCHANGED <<tpc, rs, pc, object, hook>>
    <3>1. CASE \/ RunChecks(t) \/ reapCompletedClients(t) \/ RunLoads(t) \/ RunCallsAccept(t)
               \/ AcceptReturns(t)
      BY <3>1 DEF RunChecks, reapCompletedClients, RunLoads, RunCallsAccept, AcceptReturns,
                  Accepted, AcceptBreaks, AcceptInterrupted, InAccept, Nudged, LoopStages
    <3>2. CASE SessionRefused(t) \/ \E s \in Sessions : startClientSession(t, s)
      BY <3>2 DEF SessionRefused, startClientSession, Nudged, LoopStages
    <3>4. CASE SessionThreadFails(t)
      BY <3>4, CloseNudges DEF SessionThreadFails, LoopStages
    <3>3. CASE RefusedCloses(t)
      BY <3>3, CloseNudges DEF RefusedCloses, LoopStages
    <3> QED
      BY <1>3, <3>1, <3>2, <3>3, <3>4 DEF RunStep
  <2>2. ThreadFits(t)' /\ HookFits(t)'
    BY <1>1, <2>1 DEF ThreadFits, HookFits, Exists
  <2> QED
    BY <1>1, <2>1, <2>2, OneMoves
<1> QED
  BY <1>2, <1>3

\* What a step of joinAndClearAllClients and closeServerSocket is to the base class, in run()
\* and in the destructor.
LEMMA DrainMoves ==
    ASSUME TypeOK, ServerTypeOK, NEW p \in Threads \cup Callers, DrainStep(p)
    PROVE  /\ UNCHANGED <<object, pc, rs, hook, m_state>>
           /\ rs[p] = "off" /\ Exists
           /\ p \in Threads => tpc[p] = "run"
           /\ p \in Callers => pc[p] = "dismantle"
           /\ Nudged(p)
           /\ p \in Callers => stage'[p] \in DestructorStages
           /\ \/ UNCHANGED tpc /\ (p \in Threads => stage'[p] \in JoinStages \cup LastStages)
              \/ /\ p \in Threads /\ LastClose(p) /\ stage'[p] = "end"
                 /\ tpc' = [tpc EXCEPT ![p] = "setStopped"]
<1> USE ServerAssumption, WorkerAssumption DEF Procs, TypeOK, ServerTypeOK, StageGoto, vars,
        workerVars, callVars, JoinStages, LastStages, DestructorStages
<1>1. ASSUME NEW loc, Draining(p, loc)
      PROVE  /\ rs[p] = "off" /\ Exists
             /\ p \in Threads => tpc[p] = "run"
             /\ p \in Callers => pc[p] = "dismantle"
  BY <1>1 DEF Draining, ThreadAt, At
<1>2. CASE Splice(p) \/ DrainTakes(p) \/ DrainJoins(p) \/ LastTake(p)
  BY <1>1, <1>2 DEF Splice, DrainTakes, DrainJoins, LastTake, Nudged, AfterDrain
<1>3. CASE DrainCloses(p)
  BY <1>1, <1>3, CloseNudges DEF DrainCloses
<1>4. CASE LastClose(p)
  <2>1. CASE p \in Threads
    BY <1>1, <1>4, <2>1, CloseNudges DEF LastClose, RunReturns, ThreadGoto
  <2>2. CASE p \notin Threads
    BY <1>1, <1>4, <2>2, CloseNudges DEF LastClose
  <2> QED
    BY <2>1, <2>2
<1> QED
  BY <1>2, <1>3, <1>4 DEF DrainStep

LEMMA DrainKeepsPlaces ==
    ASSUME TypeOK, ServerTypeOK, Places, NEW p \in Threads \cup Callers, DrainStep(p)
    PROVE  Places'
<1> USE ServerAssumption, WorkerAssumption DEF Procs
<1>1. HookFits(p)'
  BY DrainMoves DEF Places, HookFits, Exists
<1>2. p \in Callers => CallerFits(p)'
  BY DrainMoves DEF CallerFits
<1>3. p \in Threads => ThreadFits(p)'
  BY DrainMoves DEF ThreadFits, TypeOK, ThreadLocations
<1>4. \A t \in Threads \ {p} : tpc'[t] = tpc[t]
  BY DrainMoves DEF TypeOK
<1> QED
  BY <1>1, <1>2, <1>3, <1>4, DrainMoves, OneMoves

\* Steps of stopTriggered.
LEMMA HookKeepsPlaces ==
    ASSUME TypeOK, ServerTypeOK, Places, NEW p \in Procs, HookStep(p)
    PROVE  Places'
<1> USE ServerAssumption, WorkerAssumption DEF Procs, TypeOK, ServerTypeOK, HookGoto, vars,
        workerVars, callVars
<1>1. /\ p \in Threads => ThreadFits(p)
      /\ p \in Callers => CallerFits(p)
  BY DEF Places
<1>2. /\ rs[p] = "hook" /\ Nudged(p)
      /\ p \in Threads \cup Callers => stage'[p] = stage[p]
      /\ UNCHANGED <<tpc, pc, object>>
      /\ \A q \in Procs \ {p} : rs'[q] = rs[q] /\ hook'[q] = hook[q]
      /\ rs'[p] = "hook" \/ (rs'[p] = "off" /\ (hook'[p] = "takeServer" \/ ~Exists))
  <2>1. CASE HookTakesServer(p) \/ HookLocks(p) \/ HookTakesClient(p)
    BY <2>1 DEF HookTakesServer, HookLocks, HookTakesClient, HookAt, Nudged
  <2>2. CASE HookClosesServer(p) \/ HookClosesClient(p)
    BY <2>2, CloseNudges DEF HookClosesServer, HookClosesClient, HookAt
  <2>3. CASE HookReturns(p) \/ BaseHookReturns(p)
    BY <2>3 DEF HookReturns, BaseHookReturns, HookAt, Nudged, StopTriggeredReturns, serverVars
  <2> QED
    BY <2>1, <2>2, <2>3 DEF HookStep
<1>3. /\ p \in Threads => ThreadFits(p)'
      /\ p \in Callers => CallerFits(p)'
      /\ HookFits(p)'
  BY <1>1, <1>2 DEF ThreadFits, CallerFits, HookFits, Exists
<1> QED
  BY <1>2, <1>3, OneMoves

\* Steps of the handlers, of the end of the destructor, and none.
LEMMA OthersKeepPlaces ==
    ASSUME TypeOK, ServerTypeOK, Places,
           \/ \E s \in Sessions : HandlerStep(s) \/ RecvGoesOn(s) \/ RecvEnds(s)
           \/ \E c \in Callers : DestructorEnds(c)
           \/ OtherOpens \/ ServerTerminated \/ UNCHANGED allVars
    PROVE  Places'
<1> USE ServerAssumption, WorkerAssumption DEF Procs
<1>1. ASSUME NEW s \in Sessions, HandlerStep(s) \/ RecvGoesOn(s) \/ RecvEnds(s)
      PROVE  Places'
  <2>1. UNCHANGED <<tpc, pc, object, rs, hook>> /\ Nudged(s)
    <3>1. CASE HandlerCloses(s)
      BY <3>1, CloseNudges DEF HandlerCloses, vars, callVars
    <3>2. CASE ~HandlerCloses(s)
      BY <1>1, <3>2 DEF HandlerStep, HandlerChecks, HandlerLoads, HandlerCallsRecv, RecvIsShut,
                        HandlerTakes, RecvGoesOn, RecvEnds, HandlerMoves, vars, callVars, Nudged
    <3> QED
      BY <3>1, <3>2
  <2>2. s \notin Threads /\ s \notin Callers /\ s \notin Procs
    OBVIOUS
  <2> QED
    BY <2>1, <2>2, OneMoves
<1>2. ASSUME NEW c \in Callers, DestructorEnds(c) PROVE Places'
  <2>1. /\ UNCHANGED <<tpc, stage, hook>> /\ object' = "derivedGone"
        /\ rs' = [rs EXCEPT ![c] = "lock"] /\ pc' = [pc EXCEPT ![c] = "joinThread"]
    BY <1>2 DEF DestructorEnds, Dismantle, serverVars, CallRequestStop, Goto
  <2> QED
    BY <2>1 DEF Places, ThreadFits, CallerFits, HookFits, Exists, TypeOK
<1>3. CASE OtherOpens \/ ServerTerminated \/ UNCHANGED allVars
  <2>1. UNCHANGED <<tpc, stage, hook, object, rs, pc>>
    BY <1>3 DEF OtherOpens, ServerTerminated, allVars, vars, callVars, serverVars
  <2> QED
    BY <2>1 DEF Places, ThreadFits, CallerFits, HookFits, Exists
<1> QED
  BY <1>1, <1>2, <1>3

\* The places fit in every state of the server, however starts, stops and the
\* destructor interleave.
LEMMA PlacesInvariant == ServerSpec => []Places
<1>1. /\ TypeOK /\ PlaceFitsOperation /\ ServerTypeOK /\ Places /\ [ServerNext]_allVars
      => Places'
  <2> SUFFICES ASSUME TypeOK, PlaceFitsOperation, ServerTypeOK, Places, [ServerNext]_allVars
               PROVE  Places'
    OBVIOUS
  <2>1. ASSUME NEW t \in Threads, RunStep(t) \/ AcceptReturns(t) PROVE Places'
    <3>1. t \in Threads \cup Callers
      OBVIOUS
    <3> QED
      BY <2>1, <3>1, LoopKeepsPlaces, DrainKeepsPlaces, Zenon
  <2>2. ASSUME NEW c \in Callers, DrainStep(c) PROVE Places'
    <3>1. c \in Threads \cup Callers
      OBVIOUS
    <3> QED
      BY <2>2, <3>1, DrainKeepsPlaces, Zenon
  <2> QED
    BY <2>1, <2>2, BaseKeepsPlaces, PreRunKeepsPlaces, HookKeepsPlaces, OthersKeepPlaces, Zenon
       DEF ServerNext
<1> QED
  BY <1>1, InitEstablishesPlaces, ServerIsBaseWorker, ServerTypeCorrect, TypeCorrect, Bookkeeping,
     PTL DEF ServerSpec, ImplementsBaseWorker

-----------------------------------------------------------------------------
(* Sessions.                                                                 *)

\* A handler in one of these places has nothing to do with a socket of its session.
Quiet == {"unborn", "close", "done", "joined"}

\* The list has an accept loop that will take it, and a local list somebody who is
\* emptying it; a handler that has taken its socket has left none behind.
ListServed == m_clients # {} => \E t \in Threads : tpc[t] = "run" /\ stage[t] \in LoopStages

ListsEmptied ==
    \A p \in Procs : mine[p] # {} => p \in Threads \cup Callers /\ stage[p] \in JoinStages

QuietHasNone == \A s \in Sessions : hpc[s] \in Quiet => sock[s] = NoFd

SessionInv == HandlersAreOwned /\ ListServed /\ ListsEmptied /\ QuietHasNone

\* A server that was never started has no sessions.
LEMMA InitEstablishesSessions == ServerInit => SessionInv
BY DEF ServerInit, SessionInv, HandlersAreOwned, Handled, ListServed, ListsEmptied, QuietHasNone

\* The lists stay, nobody who has to do with them leaves, and no handler gets a socket.
LEMMA ListsStay ==
    ASSUME ServerTypeOK, SessionInv, UNCHANGED <<m_clients, mine>>,
           \A s \in Sessions :
              /\ Handled(s)' => Handled(s)
              /\ sock'[s] = sock[s] \/ sock'[s] = NoFd
              /\ hpc'[s] \in Quiet => hpc[s] \in Quiet \/ sock'[s] = NoFd,
           \A t \in Threads : tpc[t] = "run" /\ stage[t] \in LoopStages
                              => tpc'[t] = "run" /\ stage'[t] \in LoopStages,
           \A p \in Threads \cup Callers : stage[p] \in JoinStages
                                           => stage'[p] \in JoinStages \/ mine[p] = {}
    PROVE  SessionInv'
<1> USE DEF SessionInv
<1>1. HandlersAreOwned'
  BY DEF HandlersAreOwned
<1>2. ListServed'
  BY DEF ListServed
<1>3. ListsEmptied'
  BY DEF ListsEmptied, Procs
<1>4. QuietHasNone'
  BY DEF QuietHasNone
<1> QED
  BY <1>1, <1>2, <1>3, <1>4

\* What a close does to the handlers: it ends the handler that closes, and wakes others.
LEMMA CloseHandlers ==
    ASSUME ServerTypeOK, NEW x \in Procs \cup Sessions, Closes(x),
           x \in Sessions => hpc[x] = "close", NEW s \in Sessions
    PROVE  /\ Handled(s)' <=> Handled(s)
           /\ hpc'[s] \in Quiet <=> hpc[s] \in Quiet
           /\ hpc'[s] = "close" => hpc[s] = "close" /\ s # x
<1>1. \/ hpc'[s] = hpc[s] /\ s # x
      \/ hpc[s] \in {"blocked", "astray"} /\ hpc'[s] = "shut"
      \/ s = x /\ hpc'[s] = "done"
  BY DEF Closes
<1> QED
  BY <1>1 DEF Handled, Quiet

\* A step that only moves a process, or closes a descriptor, leaves the lists alone.
LEMMA MovesKeepSessions ==
    ASSUME ServerTypeOK, SessionInv, UNCHANGED <<m_clients, mine>>, NEW x \in Procs \cup Sessions,
           Nudged(x), UNCHANGED hpc \/ (Closes(x) /\ (x \in Sessions => hpc[x] = "close")),
           \A s \in Sessions : sock'[s] = sock[s] \/ sock'[s] = NoFd,
           \A t \in Threads \ {x} : tpc'[t] = tpc[t],
           x \in Threads /\ tpc[x] = "run" /\ stage[x] \in LoopStages
              => tpc'[x] = "run" /\ stage'[x] \in LoopStages,
           x \in Threads \cup Callers /\ stage[x] \in JoinStages
              => stage'[x] \in JoinStages \/ mine[x] = {}
    PROVE  SessionInv'
<1>1. ASSUME NEW s \in Sessions
      PROVE  (Handled(s)' => Handled(s)) /\ (hpc'[s] \in Quiet => hpc[s] \in Quiet)
  BY CloseHandlers DEF Handled
<1>2. \A t \in Threads : tpc[t] = "run" /\ stage[t] \in LoopStages
                         => tpc'[t] = "run" /\ stage'[t] \in LoopStages
  BY DEF Nudged, LoopStages
<1>3. \A p \in Threads \cup Callers : stage[p] \in JoinStages
                                      => stage'[p] \in JoinStages \/ mine[p] = {}
  BY DEF Nudged, JoinStages
<1> QED
  BY <1>1, <1>2, <1>3, ListsStay

\* Steps of the base class.
LEMMA BaseKeepsSessions ==
    ASSUME TypeOK, ServerTypeOK, SessionInv, BasePart
    PROVE  SessionInv'
<1>1. UNCHANGED <<m_clients, mine, sock, hpc, stage>>
  BY DEF BasePart, serverVars
<1>2. \A t \in Threads : tpc[t] = "run" => tpc'[t] = "run"
  BY BasePartIsBaseStep, RunnersMove DEF RunnerMoves
<1> QED
  BY <1>1, <1>2, ListsStay DEF Handled

\* Steps of preRun.
LEMMA PreRunKeepsSessions ==
    ASSUME TypeOK, ServerTypeOK, Places, SessionInv, NEW t \in Threads, PreRunStep(t)
    PROVE  SessionInv'
<1> USE ServerAssumption, WorkerAssumption DEF Procs, TypeOK, ServerTypeOK, InPreRun, ThreadAt
<1>1. /\ tpc[t] = "preRun" /\ stage[t] \notin JoinStages
      /\ UNCHANGED <<m_clients, mine, sock>>
      /\ \A u \in Threads \ {t} : tpc'[u] = tpc[u]
  BY DEF PreRunStep, OpenSocket, NoSocket, StoreSocket, Bound, NotBound, FailedTakesSocket,
         FailedCloses, PreRunReturns, ThreadGoto, serverVars, vars, JoinStages
<1>2. Nudged(t)
  <2>1. CASE FailedCloses(t)
    BY <2>1, CloseNudges DEF FailedCloses
  <2>2. CASE ~FailedCloses(t)
    BY <2>2 DEF PreRunStep, OpenSocket, NoSocket, StoreSocket, Bound, NotBound, StageGoto,
                FailedTakesSocket, serverVars, Nudged
  <2> QED
    BY <2>1, <2>2
<1>3. UNCHANGED hpc \/ Closes(t)
  BY DEF PreRunStep, OpenSocket, NoSocket, StoreSocket, Bound, NotBound,
         FailedTakesSocket, FailedCloses, CloseAndGoto, CloseTaken, serverVars
<1> QED
  BY <1>1, <1>2, <1>3, MovesKeepSessions

\* Steps of the accept loop that leave the list alone ...
LEMMA LoopKeepsSessions ==
    ASSUME TypeOK, ServerTypeOK, SessionInv, NEW t \in Threads,
           \/ RunChecks(t) \/ RunLoads(t) \/ RunCallsAccept(t) \/ AcceptFailed(t)
           \/ SessionRefused(t) \/ SessionThreadFails(t) \/ RefusedCloses(t) \/ AcceptReturns(t)
    PROVE  SessionInv'
<1> USE ServerAssumption, WorkerAssumption DEF Procs, TypeOK, ServerTypeOK, InRunAt, ThreadAt,
        RunMoves, StageGoto, vars
<1>1. CASE RefusedCloses(t) \/ SessionThreadFails(t)
  <2>1. Nudged(t) /\ stage'[t] \in LoopStages /\ Closes(t) /\ stage[t] \notin JoinStages
    BY <1>1, CloseNudges DEF RefusedCloses, SessionThreadFails, CloseAndGoto, CloseTaken,
                             LoopStages, JoinStages
  <2>2. UNCHANGED <<m_clients, mine, sock, tpc>>
    BY <1>1 DEF RefusedCloses, SessionThreadFails
  <2> QED
    BY <2>1, <2>2, MovesKeepSessions
<1>2. CASE ~RefusedCloses(t) /\ ~SessionThreadFails(t)
  <2>1. /\ UNCHANGED <<m_clients, mine, sock, hpc, tpc>>
        /\ stage[t] \notin JoinStages /\ stage'[t] \in LoopStages /\ Nudged(t)
    <3>1. CASE RunChecks(t) \/ RunLoads(t) \/ RunCallsAccept(t)
      BY <3>1 DEF RunChecks, RunLoads, RunCallsAccept, Nudged, LoopStages, JoinStages
    <3>2. CASE AcceptFailed(t)
      BY <3>2 DEF AcceptFailed, Retire, Nudged, LoopStages, JoinStages
    <3>3. CASE SessionRefused(t)
      BY <3>3 DEF SessionRefused, Nudged, LoopStages, JoinStages
    <3>4. CASE AcceptReturns(t)
      BY <3>4 DEF AcceptReturns, Accepted, AcceptBreaks, AcceptInterrupted, InAccept, Nudged,
                  LoopStages, JoinStages
    <3> QED
      BY <1>2, <3>1, <3>2, <3>3, <3>4
  <2> QED
    BY <2>1, MovesKeepSessions
<1> QED
  BY <1>1, <1>2

\* ... take out what is completed ...
LEMMA ReapKeepsSessions ==
    ASSUME TypeOK, ServerTypeOK, SessionInv, NEW t \in Threads, reapCompletedClients(t)
    PROVE  SessionInv'
<1> USE ServerAssumption, WorkerAssumption DEF Procs, TypeOK, ServerTypeOK, SessionInv
<1>1. /\ tpc[t] = "run" /\ UNCHANGED <<tpc, mine, sock>> /\ stage' = [stage EXCEPT ![t] = "load"]
      /\ stage[t] = "reap"
      /\ m_clients' = {s \in m_clients : hpc[s] # "done"}
  BY DEF reapCompletedClients, InRunAt, ThreadAt, RunMoves, StageGoto, vars
<1>2. ASSUME NEW s \in Sessions
      PROVE  \/ s \in m_clients /\ hpc[s] = "done" /\ hpc'[s] = "joined"
             \/ hpc'[s] = hpc[s] /\ (s \in m_clients => hpc[s] # "done")
  BY DEF reapCompletedClients
<1>3. HandlersAreOwned'
  BY <1>1, <1>2 DEF HandlersAreOwned, Handled
<1>4. ListServed' /\ ListsEmptied'
  BY <1>1 DEF ListServed, ListsEmptied, LoopStages, JoinStages
<1>5. QuietHasNone'
  BY <1>1, <1>2 DEF QuietHasNone, Quiet
<1> QED
  BY <1>3, <1>4, <1>5

\* ... and put a new session into the list.
LEMMA StartKeepsSessions ==
    ASSUME TypeOK, ServerTypeOK, SessionInv, NEW t \in Threads, NEW s \in Sessions,
           startClientSession(t, s)
    PROVE  SessionInv'
<1> USE ServerAssumption, WorkerAssumption DEF Procs, TypeOK, ServerTypeOK, SessionInv
<1>1. /\ tpc[t] = "run" /\ UNCHANGED <<tpc, mine>> /\ stage' = [stage EXCEPT ![t] = "loop"]
      /\ stage[t] = "start"
      /\ m_clients' = m_clients \cup {s} /\ sock' = [sock EXCEPT ![s] = fd[t]]
      /\ hpc' = [hpc EXCEPT ![s] = "check"]
  BY DEF startClientSession, InRunAt, ThreadAt, RunMoves, StageGoto, vars
<1>2. HandlersAreOwned'
  BY <1>1 DEF HandlersAreOwned, Handled
<1>3. ListServed' /\ ListsEmptied'
  BY <1>1 DEF ListServed, ListsEmptied, LoopStages, JoinStages
<1>4. QuietHasNone'
  BY <1>1 DEF QuietHasNone, Quiet
<1> QED
  BY <1>2, <1>3, <1>4

\* Steps of joinAndClearAllClients and closeServerSocket.
LEMMA DrainKeepsSessions ==
    ASSUME TypeOK, ServerTypeOK, SessionInv, NEW p \in Threads \cup Callers, DrainStep(p)
    PROVE  SessionInv'
<1> USE ServerAssumption, WorkerAssumption DEF Procs, TypeOK, ServerTypeOK
<1>1. /\ Nudged(p)
      /\ \A t \in Threads \ {p} : tpc'[t] = tpc[t]
  BY DrainMoves
<1>2. CASE Splice(p)
  <2> USE DEF SessionInv
  <2>1. /\ stage[p] = "splice" /\ stage'[p] = "drain" /\ m_clients' = {}
        /\ mine' = [mine EXCEPT ![p] = m_clients] /\ UNCHANGED <<sock, hpc>>
    BY <1>2 DEF Splice, Draining, StageGoto
  <2>2. mine[p] = {}
    BY <2>1 DEF ListsEmptied, JoinStages
  <2>3. HandlersAreOwned'
    BY <2>1, <2>2 DEF HandlersAreOwned, Handled
  <2>4. ListServed' /\ QuietHasNone'
    BY <2>1 DEF ListServed, QuietHasNone
  <2>5. ListsEmptied'
    BY <1>1, <2>1 DEF ListsEmptied, JoinStages, Nudged
  <2> QED
    BY <2>3, <2>4, <2>5
<1>3. CASE DrainTakes(p) \/ LastTake(p)
  <2>1. /\ UNCHANGED <<m_clients, mine, hpc>>
        /\ \A s \in Sessions : sock'[s] = sock[s] \/ sock'[s] = NoFd
        /\ stage[p] \in {"drain", "lastTake"}
        /\ stage'[p] \in JoinStages \/ mine[p] = {} \/ stage[p] = "lastTake"
    BY <1>3 DEF DrainTakes, LastTake, TakeClient, Draining, StageGoto, JoinStages
  <2> QED
    BY <1>1, <2>1, MovesKeepSessions DEF LoopStages, JoinStages
<1>4. CASE DrainCloses(p) \/ LastClose(p)
  <2>1. /\ UNCHANGED <<m_clients, mine, sock>> /\ Closes(p)
        /\ stage[p] = "lastClose" \/ (stage[p] = "drainClose" /\ stage'[p] = "drainJoin")
    BY <1>4, CloseNudges DEF DrainCloses, LastClose, Draining, CloseAndGoto, CloseTaken
  <2> QED
    BY <1>1, <2>1, MovesKeepSessions DEF LoopStages, JoinStages
<1>5. CASE DrainJoins(p)
  <2> USE DEF SessionInv
  <2>1. PICK s \in Sessions :
          /\ s \in mine[p] /\ hpc[s] = "done" /\ hpc' = [hpc EXCEPT ![s] = "joined"]
          /\ mine' = [mine EXCEPT ![p] = @ \ {s}]
          /\ UNCHANGED <<m_clients, sock>>
          /\ stage[p] = "drainJoin" /\ stage'[p] = "drain"
    BY <1>5 DEF DrainJoins, First, Draining, StageGoto
  <2>2. HandlersAreOwned'
    BY <2>1 DEF HandlersAreOwned, Handled
  <2>3. QuietHasNone'
    BY <2>1 DEF QuietHasNone, Quiet
  <2>4. ListsEmptied'
    BY <1>1, <2>1 DEF ListsEmptied, JoinStages, Nudged
  <2>5. ListServed'
    BY <1>1, <2>1 DEF ListServed, LoopStages, Nudged
  <2> QED
    BY <2>2, <2>3, <2>4, <2>5
<1> QED
  BY <1>2, <1>3, <1>4, <1>5 DEF DrainStep

\* Steps of stopTriggered.
LEMMA HookKeepsSessions ==
    ASSUME TypeOK, ServerTypeOK, SessionInv, NEW p \in Procs, HookStep(p)
    PROVE  SessionInv'
<1> USE ServerAssumption, WorkerAssumption DEF Procs, TypeOK, ServerTypeOK
<1>1. UNCHANGED <<tpc, m_clients, mine>>
  BY DEF HookStep, HookTakesServer, HookClosesServer, HookLocks, HookTakesClient, HookClosesClient,
         HookReturns, BaseHookReturns, StopTriggeredReturns, vars, serverVars
<1>2. /\ Nudged(p)
      /\ p \in Threads \cup Callers => stage'[p] = stage[p]
      /\ UNCHANGED hpc \/ Closes(p)
  BY CloseNudges
     DEF HookStep, HookTakesServer, HookClosesServer, HookLocks, HookTakesClient, HookClosesClient,
         HookReturns, BaseHookReturns, CloseTaken, serverVars, Nudged
<1>3. \A s \in Sessions : sock'[s] = sock[s] \/ sock'[s] = NoFd
  BY DEF HookStep, HookTakesServer, HookClosesServer, HookLocks, HookTakesClient, HookClosesClient,
         HookReturns, BaseHookReturns, serverVars, TakeClient
<1> QED
  BY <1>1, <1>2, <1>3, MovesKeepSessions

\* Steps of the handlers.
LEMMA HandlerKeepsSessions ==
    ASSUME TypeOK, ServerTypeOK, SessionInv, NEW s \in Sessions,
           HandlerStep(s) \/ RecvGoesOn(s) \/ RecvEnds(s)
    PROVE  SessionInv'
<1> USE ServerAssumption, WorkerAssumption DEF Procs, TypeOK, ServerTypeOK
<1>1. CASE HandlerCloses(s)
  BY <1>1, CloseNudges, MovesKeepSessions DEF HandlerCloses, CloseTaken, HandlerAt, vars
<1>2. CASE ~HandlerCloses(s)
  <2>1. PICK loc \in {"load", "take", "recv", "blocked", "astray", "check", "close"} :
          /\ hpc' = [hpc EXCEPT ![s] = loc] /\ hpc[s] \notin Quiet
          /\ UNCHANGED <<tpc, stage, m_clients, mine>>
          /\ UNCHANGED sock \/ sock' = [sock EXCEPT ![s] = NoFd]
          /\ loc = "close" => sock'[s] = NoFd
    BY <1>2 DEF HandlerStep, HandlerChecks, HandlerLoads, HandlerCallsRecv, RecvIsShut,
                HandlerTakes, RecvGoesOn, RecvEnds, InRecv, HandlerMoves, HandlerAt, TakeClient,
                vars, Quiet
  <2>2. ASSUME NEW r \in Sessions
        PROVE  /\ Handled(r)' => Handled(r)
               /\ sock'[r] = sock[r] \/ sock'[r] = NoFd
               /\ hpc'[r] \in Quiet => hpc[r] \in Quiet \/ sock'[r] = NoFd
    BY <2>1 DEF Handled, Quiet
  <2> QED
    BY <2>1, <2>2, ListsStay
<1> QED
  BY <1>1, <1>2

\* The sessions are in order in every state of the server.
LEMMA SessionInvariant == ServerSpec => []SessionInv
<1>1. TypeOK /\ ServerTypeOK /\ Places /\ SessionInv /\ [ServerNext]_allVars => SessionInv'
  <2> SUFFICES ASSUME TypeOK, ServerTypeOK, Places, SessionInv, [ServerNext]_allVars
               PROVE  SessionInv'
    OBVIOUS
  <2>1. ASSUME NEW p \in Threads \cup Callers, DrainStep(p) PROVE SessionInv'
    BY <2>1, DrainKeepsSessions
  <2>2. ASSUME NEW t \in Threads, RunStep(t) \/ AcceptReturns(t) PROVE SessionInv'
    <3>1. t \in Threads \cup Callers
      OBVIOUS
    <3> QED
      BY <2>1, <2>2, <3>1, LoopKeepsSessions, ReapKeepsSessions, StartKeepsSessions, Zenon
         DEF RunStep
  <2>3. ASSUME NEW c \in Callers, DrainStep(c) \/ DestructorEnds(c) PROVE SessionInv'
    <3>1. CASE DrainStep(c)
      BY <2>1, <3>1
    <3>2. CASE DestructorEnds(c)
      <4>1. UNCHANGED <<m_clients, mine, sock, hpc, stage, tpc>>
        BY <3>2 DEF DestructorEnds, Dismantle, serverVars
      <4> QED
        BY <4>1, ListsStay DEF Handled
    <3> QED
      BY <2>3, <3>1, <3>2
  <2>4. CASE OtherOpens \/ ServerTerminated \/ UNCHANGED allVars
    <3>1. UNCHANGED <<m_clients, mine, sock, hpc, stage, tpc>>
      BY <2>4 DEF OtherOpens, ServerTerminated, allVars, vars, serverVars
    <3> QED
      BY <3>1, ListsStay DEF Handled
  <2> QED
    BY <2>2, <2>3, <2>4, BaseKeepsSessions, PreRunKeepsSessions, HookKeepsSessions,
       HandlerKeepsSessions, Zenon DEF ServerNext
<1> QED
  BY <1>1, InitEstablishesSessions, PlacesInvariant, ServerIsBaseWorker, ServerTypeCorrect,
     TypeCorrect, PTL DEF ServerSpec, ImplementsBaseWorker

\* The session of an executing handler is in m_clients or in the local list of somebody
\* who will join the handler, whoever reaps, drains, stops and destroys meanwhile.
THEOREM HandlersAreOwnedAlways == ServerSpec => []HandlersAreOwned
<1>1. SessionInv => HandlersAreOwned
  BY DEF SessionInv
<1> QED
  BY <1>1, SessionInvariant, PTL

-----------------------------------------------------------------------------
(* Descriptors.                                                              *)

\* What the server opens, and what it has nothing to do with.
ServerKinds == {"socket", "listener", "client"}
ForeignKinds == {"free", "other"}

HandStages == {"store", "start", "refuse", "failClose", "drainClose", "lastClose"}

\* The process or handler has a descriptor in its local variable that is its own.
Hand(x) ==
    /\ fd[x] # NoFd
    /\ \/ x \in Sessions /\ hpc[x] = "close"
       \/ x \in Procs /\ hook[x] \in {"closeServer", "closeClient"}
       \/ x \in Threads \cup Callers /\ stage[x] \in HandStages

\* preRun has opened its socket and not yet stored it.
Storing(x) == x \in Threads /\ stage[x] = "store"

\* run() has a connection for which there is no session yet, and one that
\* startClientSession has closed and that it is about to close once more.
Connected(x) == x \in Threads /\ stage[x] \in {"start", "closeAgain"}

Repeating(x) == x \in Threads /\ stage[x] = "closeAgain"

\* What the members name is the server's, and named once.
StoresExclusive ==
    /\ m_serverSocket # NoFd => owner[m_serverSocket] \in ServerKinds
    /\ \A s \in Sessions : sock[s] # NoFd =>
          /\ owner[sock[s]] \in ServerKinds
          /\ m_serverSocket # sock[s]
          /\ \A r \in Sessions \ {s} : sock[r] # sock[s]

\* What is in a hand is the server's, in no other hand and in no member.
HandsExclusive ==
    \A x \in Procs \cup Sessions : Hand(x) =>
        /\ owner[fd[x]] \in ServerKinds
        /\ Storing(x) => owner[fd[x]] = "socket"
        /\ m_serverSocket # fd[x]
        /\ \A s \in Sessions : sock[s] # fd[x]
        /\ \A y \in (Procs \cup Sessions) \ {x} : Hand(y) => fd[y] # fd[x]

\* What is closed a second time is none of the server's descriptors.
RepeatsForeign ==
    \A t \in Threads : Connected(t) =>
        fd[t] # NoFd /\ (Repeating(t) => owner[fd[t]] \in ForeignKinds)

\* No connection is forgotten.
Followed ==
    \A f \in Fds : owner[f] = "client" =>
        \/ \E x \in Procs \cup Sessions : Hand(x) /\ fd[x] = f
        \/ \E s \in Sessions : Handled(s) /\ sock[s] = f

SocketInv == StoresExclusive /\ HandsExclusive /\ RepeatsForeign /\ Followed

\* A server that was never started has no descriptors.
LEMMA InitEstablishesSockets == ServerInit => SocketInv
<1> SUFFICES ASSUME ServerInit PROVE SocketInv
  OBVIOUS
<1>1. \A x \in Procs \cup Sessions : ~Hand(x)
  BY DEF ServerInit, Hand
<1>2. StoresExclusive /\ RepeatsForeign /\ Followed
  BY DEF ServerInit, StoresExclusive, RepeatsForeign, Connected, Repeating, Followed
<1> QED
  BY <1>1, <1>2 DEF SocketInv, HandsExclusive

LEMMA NoFdIsNone == NoFd \notin Fds
BY ServerAssumption DEF NoFd

\* The hands of all but x stay as they are.
OthersHold(x) ==
    \A y \in (Procs \cup Sessions) \ {x} :
        /\ fd'[y] = fd[y]
        /\ Hand(y)' <=> Hand(y)
        /\ Storing(y)' <=> Storing(y)
        /\ Connected(y)' <=> Connected(y)
        /\ Repeating(y)' <=> Repeating(y)

LEMMA OthersStay ==
    ASSUME ServerTypeOK, NEW x, Nudged(x),
           \A y \in (Procs \cup Sessions) \ {x} : fd'[y] = fd[y],
           \A p \in Procs \ {x} : hook'[p] = hook[p],
           \A s \in Sessions \ {x} : hpc'[s] = "close" <=> hpc[s] = "close"
    PROVE  OthersHold(x)
BY DEF OthersHold, Hand, Storing, Connected, Repeating, Nudged, HandStages

\* x has no connection without a session afterwards, and no descriptor of others becomes
\* the server's.
LEMMA RepeatsStay ==
    ASSUME ServerTypeOK, RepeatsForeign, NEW x, OthersHold(x), ~Connected(x)',
           \A f \in Fds : owner[f] \in ForeignKinds => owner'[f] \in ForeignKinds
    PROVE  RepeatsForeign'
<1> SUFFICES ASSUME NEW t \in Threads, Connected(t)'
             PROVE  fd'[t] # NoFd /\ (Repeating(t)' => owner'[fd'[t]] \in ForeignKinds)
  BY DEF RepeatsForeign, Connected, Repeating
<1>1. t \in (Procs \cup Sessions) \ {x}
  BY DEF Procs
<1>2. fd'[t] = fd[t] /\ Connected(t) /\ (Repeating(t)' => Repeating(t))
  BY <1>1 DEF OthersHold
<1>3. fd[t] \in Fds
  BY <1>1, <1>2 DEF RepeatsForeign, ServerTypeOK
<1> QED
  BY <1>2, <1>3 DEF RepeatsForeign

\* x goes on with the hand it has, or with none.
LEMMA HandsRest ==
    ASSUME ServerTypeOK, SocketInv, NEW x \in Procs \cup Sessions, OthersHold(x),
           UNCHANGED <<m_serverSocket, owner, sock>>,
           Hand(x)' <=> Hand(x),
           Hand(x) => fd'[x] = fd[x] /\ ~Storing(x)',
           ~Connected(x)',
           \A s \in Sessions : Handled(s) /\ sock[s] # NoFd => Handled(s)'
    PROVE  SocketInv'
<1> USE DEF SocketInv, ServerTypeOK
<1>1. \A y \in Procs \cup Sessions : /\ Hand(y)' <=> Hand(y)
                                     /\ Hand(y) => fd'[y] = fd[y]
  BY DEF OthersHold
<1>2. StoresExclusive'
  BY DEF StoresExclusive
<1>3. HandsExclusive'
  <2> SUFFICES ASSUME NEW y \in Procs \cup Sessions, Hand(y)'
               PROVE  /\ owner[fd'[y]] \in ServerKinds
                      /\ Storing(y)' => owner[fd'[y]] = "socket"
                      /\ m_serverSocket # fd'[y]
                      /\ \A s \in Sessions : sock[s] # fd'[y]
                      /\ \A z \in (Procs \cup Sessions) \ {y} : Hand(z)' => fd'[z] # fd'[y]
    BY DEF HandsExclusive
  <2>1. Hand(y) /\ fd'[y] = fd[y] /\ (Storing(y)' => Storing(y))
    BY <1>1 DEF OthersHold
  <2> QED
    BY <1>1, <2>1 DEF HandsExclusive
<1>4. Followed'
  BY <1>1, NoFdIsNone DEF Followed
<1>5. RepeatsForeign'
  BY RepeatsStay
<1> QED
  BY <1>2, <1>3, <1>4, <1>5

\* x takes a descriptor out of a member.
LEMMA HandTakes ==
    ASSUME ServerTypeOK, SocketInv, NEW x \in Procs \cup Sessions, OthersHold(x), UNCHANGED owner,
           ~Hand(x), Hand(x)' <=> fd'[x] # NoFd, ~Storing(x)', ~Connected(x)',
           \/ TakeServer(x) /\ UNCHANGED sock
           \/ \E s \in Sessions : TakeClient(x, s) /\ UNCHANGED m_serverSocket,
           \A s \in Sessions : Handled(s) => Handled(s)'
    PROVE  SocketInv'
<1> USE DEF SocketInv, ServerTypeOK
<1>1. /\ m_serverSocket' = m_serverSocket \/ m_serverSocket' = NoFd
      /\ \A s \in Sessions : sock'[s] = sock[s] \/ sock'[s] = NoFd
  BY DEF TakeServer, TakeClient
<1>2. StoresExclusive'
  BY <1>1 DEF StoresExclusive
<1>3. fd'[x] # NoFd =>
        /\ owner[fd'[x]] \in ServerKinds
        /\ m_serverSocket' # fd'[x]
        /\ \A s \in Sessions : sock'[s] # fd'[x]
        /\ \A y \in Procs \cup Sessions : Hand(y) => fd[y] # fd'[x]
  <2>1. CASE TakeServer(x) /\ UNCHANGED sock
    <3>1. fd'[x] = m_serverSocket /\ m_serverSocket' = NoFd
      BY <2>1 DEF TakeServer, Load
    <3> QED
      BY <2>1, <3>1 DEF StoresExclusive, HandsExclusive
  <2>2. ASSUME NEW s \in Sessions, TakeClient(x, s), UNCHANGED m_serverSocket
        PROVE  fd'[x] # NoFd =>
                 /\ owner[fd'[x]] \in ServerKinds
                 /\ m_serverSocket' # fd'[x]
                 /\ \A r \in Sessions : sock'[r] # fd'[x]
                 /\ \A y \in Procs \cup Sessions : Hand(y) => fd[y] # fd'[x]
    <3>1. fd'[x] = sock[s] /\ sock' = [sock EXCEPT ![s] = NoFd]
      BY <2>2 DEF TakeClient, Load
    <3>2. \A r \in Sessions : sock'[r] = IF r = s THEN NoFd ELSE sock[r]
      BY <3>1
    <3> QED
      BY <2>2, <3>1, <3>2 DEF StoresExclusive, HandsExclusive
  <2> QED
    BY <2>1, <2>2
<1>4. HandsExclusive'
  <2> SUFFICES ASSUME NEW y \in Procs \cup Sessions, Hand(y)'
               PROVE  /\ owner[fd'[y]] \in ServerKinds
                      /\ Storing(y)' => owner[fd'[y]] = "socket"
                      /\ m_serverSocket' # fd'[y]
                      /\ \A s \in Sessions : sock'[s] # fd'[y]
                      /\ \A z \in (Procs \cup Sessions) \ {y} : Hand(z)' => fd'[z] # fd'[y]
    BY DEF HandsExclusive
  <2>1. fd'[y] # NoFd
    BY DEF Hand
  <2>2. CASE y = x
    BY <1>3, <2>1, <2>2 DEF OthersHold
  <2>3. CASE y # x
    <3>1. Hand(y) /\ fd'[y] = fd[y] /\ (Storing(y)' => Storing(y))
      BY <2>3 DEF OthersHold
    <3>2. Hand(x)' => fd'[x] # fd[y]
      BY <1>3, <3>1
    <3> QED
      BY <1>1, <2>1, <2>3, <3>1, <3>2 DEF HandsExclusive, OthersHold
  <2> QED
    BY <2>2, <2>3
<1>5. Followed'
  <2> SUFFICES ASSUME NEW f \in Fds, owner[f] = "client"
               PROVE  \/ \E y \in Procs \cup Sessions : Hand(y)' /\ fd'[y] = f
                      \/ \E s \in Sessions : Handled(s)' /\ sock'[s] = f
    BY DEF Followed
  <2>1. CASE \E y \in Procs \cup Sessions : Hand(y) /\ fd[y] = f
    BY <2>1 DEF OthersHold
  <2>2. ASSUME NEW s \in Sessions, Handled(s), sock[s] = f
        PROVE  (Hand(x)' /\ fd'[x] = f) \/ (Handled(s)' /\ sock'[s] = f)
    BY <2>2 DEF TakeServer, TakeClient, Load, NoFd
  <2> QED
    BY <2>1, <2>2 DEF Followed
<1>6. RepeatsForeign'
  BY RepeatsStay
<1> QED
  BY <1>2, <1>4, <1>5, <1>6

\* x closes what it has in its hand, if anything, or what is not the server's any more.
LEMMA HandCloses ==
    ASSUME ServerTypeOK, SocketInv, NEW x \in Procs \cup Sessions, OthersHold(x), Closes(x),
           fd[x] # NoFd => Hand(x) \/ owner[fd[x]] \in ForeignKinds,
           UNCHANGED <<m_serverSocket, sock>>, x \in Sessions => hpc[x] = "close", ~Hand(x)',
           Connected(x)' => fd'[x] = fd[x] /\ fd[x] # NoFd
    PROVE  SocketInv'
<1> USE NoFdIsNone DEF SocketInv, ServerKinds, ForeignKinds
<1>1. \A f \in Fds : owner'[f] = IF f = fd[x] THEN "free" ELSE owner[f]
  BY DEF Closes
<1>2. ~Hand(x)'
  OBVIOUS
<1>3. StoresExclusive'
  <2>1. \A f \in Fds : f # fd[x] => owner'[f] = owner[f]
    BY <1>1
  <2>2. fd[x] # NoFd => m_serverSocket # fd[x] /\ \A s \in Sessions : sock[s] # fd[x]
    BY DEF HandsExclusive, StoresExclusive
  <2> QED
    BY <2>1, <2>2 DEF StoresExclusive, ServerTypeOK
<1>4. HandsExclusive'
  <2> SUFFICES ASSUME NEW y \in Procs \cup Sessions, Hand(y)'
               PROVE  /\ owner'[fd'[y]] \in ServerKinds
                      /\ Storing(y)' => owner'[fd'[y]] = "socket"
                      /\ m_serverSocket # fd'[y]
                      /\ \A s \in Sessions : sock[s] # fd'[y]
                      /\ \A z \in (Procs \cup Sessions) \ {y} : Hand(z)' => fd'[z] # fd'[y]
    BY DEF HandsExclusive
  <2>1. y # x
    BY <1>2
  <2>2. Hand(y) /\ fd'[y] = fd[y] /\ (Storing(y)' => Storing(y))
    BY <2>1 DEF OthersHold
  <2>3. fd[y] \in Fds /\ fd[y] # fd[x]
    BY <2>1, <2>2 DEF Hand, HandsExclusive, ServerTypeOK
  <2>4. owner'[fd[y]] = owner[fd[y]]
    BY <1>1, <2>3
  <2>5. \A z \in (Procs \cup Sessions) \ {y} : Hand(z)' => Hand(z) /\ fd'[z] = fd[z]
    BY <1>2 DEF OthersHold
  <2> QED
    BY <2>2, <2>4, <2>5 DEF HandsExclusive
<1>5. Followed'
  <2> SUFFICES ASSUME NEW f \in Fds, owner'[f] = "client"
               PROVE  \/ \E y \in Procs \cup Sessions : Hand(y)' /\ fd'[y] = f
                      \/ \E s \in Sessions : Handled(s)' /\ sock[s] = f
    BY DEF Followed
  <2>1. f # fd[x] /\ owner[f] = "client"
    BY <1>1
  <2>2. \A s \in Sessions : Handled(s)' <=> Handled(s)
    BY CloseHandlers
  <2> QED
    BY <2>1, <2>2 DEF Followed, OthersHold
<1>6. RepeatsForeign'
  <2> SUFFICES ASSUME NEW t \in Threads, Connected(t)'
               PROVE  fd'[t] # NoFd /\ (Repeating(t)' => owner'[fd'[t]] \in ForeignKinds)
    BY DEF RepeatsForeign, Connected, Repeating
  <2>1. t \in Procs \cup Sessions
    BY DEF Procs
  <2>2. CASE t = x
    BY <1>1, <2>1, <2>2 DEF ServerTypeOK
  <2>3. CASE t # x
    <3>1. fd'[t] = fd[t] /\ Connected(t) /\ (Repeating(t)' => Repeating(t))
      BY <2>1, <2>3 DEF OthersHold
    <3>2. fd[t] \in Fds
      BY <2>1, <3>1 DEF RepeatsForeign, ServerTypeOK
    <3> QED
      BY <1>1, <3>1, <3>2 DEF RepeatsForeign
  <2> QED
    BY <2>2, <2>3
<1> QED
  BY <1>3, <1>4, <1>5, <1>6

\* x opens a descriptor while nobody is about to close one a second time.
LEMMA HandOpens ==
    ASSUME ServerTypeOK, SocketInv, NEW x \in Procs \cup Sessions, OthersHold(x),
           NEW f \in Fds, NEW kind \in ServerKinds, owner[f] = "free",
           owner' = [owner EXCEPT ![f] = kind], fd'[x] = f, Hand(x)', ~Hand(x),
           Storing(x)' => kind = "socket",
           UNCHANGED <<m_serverSocket, sock, hpc>>,
           \A t \in Threads : ~Repeating(t)'
    PROVE  SocketInv'
<1> USE NoFdIsNone DEF SocketInv, ServerKinds
<1>1. owner'[f] = kind /\ \A g \in Fds \ {f} : owner'[g] = owner[g]
  BY DEF ServerTypeOK
<1>2. /\ m_serverSocket # f
      /\ \A s \in Sessions : sock[s] # f
      /\ \A y \in Procs \cup Sessions : Hand(y) => fd[y] # f /\ fd[y] \in Fds
  BY DEF StoresExclusive, HandsExclusive, Hand, ServerTypeOK
<1>3. StoresExclusive'
  BY <1>1, <1>2 DEF StoresExclusive, ServerTypeOK
<1>4. HandsExclusive'
  <2> SUFFICES ASSUME NEW y \in Procs \cup Sessions, Hand(y)'
               PROVE  /\ owner'[fd'[y]] \in ServerKinds
                      /\ Storing(y)' => owner'[fd'[y]] = "socket"
                      /\ m_serverSocket # fd'[y]
                      /\ \A s \in Sessions : sock[s] # fd'[y]
                      /\ \A z \in (Procs \cup Sessions) \ {y} : Hand(z)' => fd'[z] # fd'[y]
    BY DEF HandsExclusive
  <2>1. \A z \in (Procs \cup Sessions) \ {x} :
           /\ fd'[z] = fd[z] /\ (Hand(z)' => Hand(z))
           /\ Storing(z)' => Storing(z)
    BY DEF OthersHold
  <2>2. CASE y = x
    BY <1>1, <1>2, <2>1, <2>2
  <2>3. CASE y # x
    BY <1>1, <1>2, <2>1, <2>3 DEF HandsExclusive
  <2> QED
    BY <2>2, <2>3
<1>5. Followed'
  <2> SUFFICES ASSUME NEW g \in Fds, owner'[g] = "client"
               PROVE  \/ \E y \in Procs \cup Sessions : Hand(y)' /\ fd'[y] = g
                      \/ \E s \in Sessions : Handled(s)' /\ sock[s] = g
    BY DEF Followed
  <2>1. CASE g = f
    BY <2>1
  <2>2. CASE g # f
    BY <1>1, <2>2 DEF Followed, OthersHold, Handled
  <2> QED
    BY <2>1, <2>2
<1>6. RepeatsForeign'
  <2> SUFFICES ASSUME NEW t \in Threads, Connected(t)' PROVE fd'[t] # NoFd
    BY DEF RepeatsForeign
  <2>1. t \in Procs
    BY DEF Procs
  <2> QED
    BY <2>1 DEF RepeatsForeign, OthersHold
<1> QED
  BY <1>3, <1>4, <1>5, <1>6

\* What a process has in its hand in preRun, run or the destructor, in stopTriggered, and
\* what a handler has.
LEMMA HandInCode ==
    ASSUME Places, Exists, NEW p \in Threads \cup Callers, rs[p] = "off", UNCHANGED hook
    PROVE  /\ Hand(p) <=> fd[p] # NoFd /\ stage[p] \in HandStages
           /\ Hand(p)' <=> fd'[p] # NoFd /\ stage'[p] \in HandStages
<1>1. hook[p] = "takeServer" /\ p \in Procs /\ p \notin Sessions
  BY ServerAssumption DEF Places, HookFits, Procs
<1> QED
  BY <1>1 DEF Hand

LEMMA HandInHook ==
    ASSUME Places, Exists, NEW p \in Procs, rs[p] = "hook",
           p \in Threads \cup Callers => stage'[p] = stage[p]
    PROVE  /\ Hand(p) <=> fd[p] # NoFd /\ hook[p] \in {"closeServer", "closeClient"}
           /\ Hand(p)' <=> fd'[p] # NoFd /\ hook'[p] \in {"closeServer", "closeClient"}
           /\ ~Connected(p)' /\ ~Storing(p)'
<1>1. p \notin Sessions
  BY ServerAssumption
<1>2. p \in Threads \cup Callers => stage[p] \in {"splice", "lastTake"}
  BY DEF Places, ThreadFits, CallerFits
<1> QED
  BY <1>1, <1>2 DEF Hand, HandStages, Connected, Storing

LEMMA HandInHandler ==
    ASSUME NEW s \in Sessions
    PROVE  /\ Hand(s) <=> fd[s] # NoFd /\ hpc[s] = "close"
           /\ Hand(s)' <=> fd'[s] # NoFd /\ hpc'[s] = "close"
           /\ ~Connected(s)' /\ ~Storing(s)' /\ s \notin Procs
<1>1. s \notin Procs /\ s \notin Threads /\ s \notin Callers
  BY ServerAssumption DEF Procs
<1> QED
  BY <1>1 DEF Hand, Connected, Storing

\* A thread in preRun or run is the only one there.
LEMMA AloneInHooks ==
    ASSUME Places, OneAttempt, NEW t \in Threads, tpc[t] \in {"preRun", "run"},
           NEW u \in Threads, u # t
    PROVE  stage[u] \in {"socket", "loop", "end"}
<1>1. tpc[u] \notin {"preRun", "run"}
  BY DEF OneAttempt, Busy, Live, LiveLocations
<1> QED
  BY <1>1 DEF Places, ThreadFits

\* preRun puts its socket into the member.
LEMMA StoreKeepsSockets ==
    ASSUME TypeOK, ServerTypeOK, Places, SocketInv, NEW t \in Threads, StoreSocket(t)
    PROVE  SocketInv'
<1> USE NoFdIsNone DEF SocketInv
<1>1. /\ stage[t] = "store" /\ stage'[t] = "bind" /\ m_serverSocket' = fd[t]
      /\ Nudged(t) /\ rs[t] = "off" /\ Exists
      /\ UNCHANGED <<owner, sock, fd, hpc, hook>>
  BY DEF StoreSocket, InPreRun, ThreadAt, StageGoto, Nudged, ServerTypeOK
<1>2. t \in Procs \cup Sessions /\ t \in Threads \cup Callers
  BY DEF Procs
<1>3. OthersHold(t)
  BY <1>1, OthersStay
<1>4. (Hand(t) <=> fd[t] # NoFd) /\ ~Hand(t)' /\ Storing(t)
  BY <1>1, <1>2, HandInCode DEF HandStages, Storing
<1>5. StoresExclusive'
  BY <1>1, <1>2, <1>4 DEF StoresExclusive, HandsExclusive
<1>6. HandsExclusive'
  <2> SUFFICES ASSUME NEW y \in Procs \cup Sessions, Hand(y)'
               PROVE  /\ owner[fd[y]] \in ServerKinds
                      /\ Storing(y)' => owner[fd[y]] = "socket"
                      /\ fd[t] # fd[y]
                      /\ \A s \in Sessions : sock[s] # fd[y]
                      /\ \A z \in (Procs \cup Sessions) \ {y} : Hand(z)' => fd[z] # fd[y]
    BY <1>1 DEF HandsExclusive
  <2>1. y # t /\ Hand(y) /\ (Storing(y)' => Storing(y))
    BY <1>3, <1>4 DEF OthersHold
  <2>2. fd[t] # fd[y]
    BY <1>2, <1>4, <2>1 DEF HandsExclusive, Hand
  <2>3. \A z \in Procs \cup Sessions : Hand(z)' => Hand(z)
    BY <1>3, <1>4 DEF OthersHold
  <2> QED
    BY <2>1, <2>2, <2>3 DEF HandsExclusive
<1>7. Followed'
  <2> SUFFICES ASSUME NEW f \in Fds, owner[f] = "client"
               PROVE  \/ \E y \in Procs \cup Sessions : Hand(y)' /\ fd[y] = f
                      \/ \E s \in Sessions : Handled(s) /\ sock[s] = f
    BY <1>1 DEF Followed, Handled
  <2>1. Hand(t) => fd[t] # f
    BY <1>2, <1>4 DEF HandsExclusive
  <2> QED
    BY <1>3, <2>1 DEF Followed, OthersHold
<1>8. RepeatsForeign'
  BY <1>1, <1>3, RepeatsStay DEF Connected
<1> QED
  BY <1>5, <1>6, <1>7, <1>8

\* bind and listen turn the socket, which the member names by now, into a listener.
LEMMA BoundKeepsSockets ==
    ASSUME TypeOK, ServerTypeOK, OneAttempt, Places, SocketInv, NEW t \in Threads, Bound(t)
    PROVE  SocketInv'
<1> USE NoFdIsNone DEF SocketInv
<1>1. /\ tpc[t] = "preRun" /\ stage[t] = "bind" /\ stage'[t] = "loop"
      /\ Nudged(t) /\ rs[t] = "off" /\ Exists
      /\ UNCHANGED <<m_serverSocket, sock, hpc, hook>>
      /\ \A y \in (Procs \cup Sessions) \ {t} : fd'[y] = fd[y]
      /\ owner[fd[t]] = "socket"
      /\ \A f \in Fds : owner'[f] = IF f = fd[t] THEN "listener" ELSE owner[f]
  BY DEF Bound, InPreRun, ThreadAt, StageGoto, Load, Nudged, ServerTypeOK
<1>2. t \in Procs \cup Sessions /\ t \in Threads \cup Callers
  BY DEF Procs
<1>3. OthersHold(t)
  BY <1>1, OthersStay
<1>4. ~Hand(t) /\ ~Hand(t)'
  BY <1>1, <1>2, HandInCode DEF HandStages
<1>5. \A y \in Procs \cup Sessions : ~Storing(y)'
  <2>1. ASSUME NEW y \in Threads, y # t PROVE stage'[y] # "store"
    <3>1. stage[y] \in {"socket", "loop", "end"}
      BY <1>1, <2>1, AloneInHooks
    <3>2. stage'[y] = stage[y] \/ stage'[y] = "failed"
      BY <1>1, <2>1 DEF Nudged
    <3> QED
      BY <3>1, <3>2
  <2> QED
    BY <1>1, <2>1 DEF Storing
<1>6. \A f \in Fds : /\ owner[f] \in ServerKinds => owner'[f] \in ServerKinds
                     /\ owner[f] \in ForeignKinds => owner'[f] \in ForeignKinds
                     /\ owner'[f] = "client" => owner[f] = "client"
  BY <1>1 DEF ServerKinds, ForeignKinds
<1>7. StoresExclusive'
  BY <1>1, <1>6 DEF StoresExclusive, ServerTypeOK
<1>8. HandsExclusive'
  <2> SUFFICES ASSUME NEW y \in Procs \cup Sessions, Hand(y)'
               PROVE  /\ owner'[fd'[y]] \in ServerKinds
                      /\ m_serverSocket # fd'[y]
                      /\ \A s \in Sessions : sock[s] # fd'[y]
                      /\ \A z \in (Procs \cup Sessions) \ {y} : Hand(z)' => fd'[z] # fd'[y]
    BY <1>1, <1>5 DEF HandsExclusive
  <2>1. \A z \in Procs \cup Sessions : Hand(z)' => Hand(z) /\ fd'[z] = fd[z]
    BY <1>3, <1>4 DEF OthersHold
  <2>2. y # t /\ fd[y] \in Fds
    BY <1>3, <1>4, <2>1 DEF OthersHold, Hand, ServerTypeOK
  <2> QED
    BY <1>6, <2>1, <2>2 DEF HandsExclusive
<1>9. Followed'
  BY <1>1, <1>3, <1>4, <1>6 DEF Followed, OthersHold, Handled
<1>10. RepeatsForeign'
  BY <1>1, <1>3, <1>6, RepeatsStay DEF Connected
<1> QED
  BY <1>7, <1>8, <1>9, <1>10

\* startClientSession hands the connection to the new session ...
LEMMA StartKeepsSockets ==
    ASSUME TypeOK, ServerTypeOK, Places, SessionInv, SocketInv, NEW t \in Threads,
           NEW s \in Sessions, startClientSession(t, s)
    PROVE  SocketInv'
<1> USE NoFdIsNone DEF SocketInv
<1>1. /\ stage[t] = "start" /\ stage'[t] = "loop" /\ Nudged(t) /\ rs[t] = "off" /\ Exists
      /\ UNCHANGED <<m_serverSocket, owner, hook>>
      /\ \A y \in (Procs \cup Sessions) \ {t} : fd'[y] = fd[y]
      /\ sock'[s] = fd[t] /\ \A r \in Sessions \ {s} : sock'[r] = sock[r]
      /\ hpc[s] = "unborn" /\ hpc'[s] = "check" /\ \A r \in Sessions \ {s} : hpc'[r] = hpc[r]
  BY DEF startClientSession, InRunAt, ThreadAt, RunMoves, StageGoto, Load, Nudged, ServerTypeOK,
         Sessions
<1>2. t \in Procs \cup Sessions /\ t \in Threads \cup Callers
  BY DEF Procs
<1>3. OthersHold(t)
  BY <1>1, OthersStay
<1>4. (Hand(t) <=> fd[t] # NoFd) /\ ~Hand(t)'
  BY <1>1, <1>2, HandInCode DEF HandStages
<1>5. sock[s] = NoFd
  BY <1>1 DEF SessionInv, QuietHasNone, Quiet
<1>6. fd[t] # NoFd => /\ owner[fd[t]] \in ServerKinds /\ m_serverSocket # fd[t]
                      /\ \A r \in Sessions : sock[r] # fd[t]
                      /\ \A y \in (Procs \cup Sessions) \ {t} : Hand(y) => fd[y] # fd[t]
  BY <1>2, <1>4 DEF HandsExclusive
<1>7. StoresExclusive'
  BY <1>1, <1>6 DEF StoresExclusive
<1>8. HandsExclusive'
  <2> SUFFICES ASSUME NEW y \in Procs \cup Sessions, Hand(y)'
               PROVE  /\ owner[fd'[y]] \in ServerKinds
                      /\ Storing(y)' => owner[fd'[y]] = "socket"
                      /\ m_serverSocket # fd'[y]
                      /\ \A r \in Sessions : sock'[r] # fd'[y]
                      /\ \A z \in (Procs \cup Sessions) \ {y} : Hand(z)' => fd'[z] # fd'[y]
    BY <1>1 DEF HandsExclusive
  <2>1. \A z \in Procs \cup Sessions : Hand(z)' => Hand(z) /\ fd'[z] = fd[z]
    BY <1>3, <1>4 DEF OthersHold
  <2>2. y # t /\ fd[y] # NoFd /\ (Storing(y)' => Storing(y))
    BY <1>3, <1>4, <2>1 DEF OthersHold, Hand
  <2>3. \A r \in Sessions : sock'[r] # fd[y]
    BY <1>1, <1>6, <2>1, <2>2 DEF HandsExclusive
  <2> QED
    BY <2>1, <2>2, <2>3 DEF HandsExclusive
<1>9. Followed'
  <2> SUFFICES ASSUME NEW f \in Fds, owner[f] = "client"
               PROVE  \/ \E y \in Procs \cup Sessions : Hand(y)' /\ fd'[y] = f
                      \/ \E r \in Sessions : Handled(r)' /\ sock'[r] = f
    BY <1>1 DEF Followed
  <2>1. CASE Hand(t) /\ fd[t] = f
    BY <1>1, <2>1 DEF Handled
  <2>2. CASE \E y \in (Procs \cup Sessions) \ {t} : Hand(y) /\ fd[y] = f
    BY <1>3, <2>2 DEF OthersHold
  <2>3. CASE \E r \in Sessions : Handled(r) /\ sock[r] = f
    BY <1>1, <1>5, <2>3 DEF Handled
  <2> QED
    BY <2>1, <2>2, <2>3 DEF Followed
<1>10. RepeatsForeign'
  BY <1>1, <1>3, RepeatsStay DEF Connected
<1> QED
  BY <1>7, <1>8, <1>9, <1>10

\* A step that leaves the sockets and the descriptors alone.
LEMMA SocketsStay ==
    ASSUME SocketInv, UNCHANGED serverVars
    PROVE  SocketInv'
BY DEF SocketInv, StoresExclusive, HandsExclusive, RepeatsForeign, Followed, Hand, Storing,
       Connected, Repeating, Handled, serverVars

\* A process moves on with nothing in its hand, in preRun, run or the destructor ...
LEMMA EmptyHandRests ==
    ASSUME ServerTypeOK, Places, SocketInv, NEW p \in Threads \cup Callers, rs[p] = "off", Exists,
           stage[p] \notin HandStages, stage'[p] \notin HandStages \cup {"closeAgain"}, Nudged(p),
           UNCHANGED <<m_serverSocket, owner, sock, hook>>,
           \A y \in (Procs \cup Sessions) \ {p} : fd'[y] = fd[y],
           \A s \in Sessions : /\ hpc'[s] = "close" <=> hpc[s] = "close"
                               /\ Handled(s) /\ sock[s] # NoFd => Handled(s)'
    PROVE  SocketInv'
<1>1. p \in Procs \cup Sessions
  BY DEF Procs
<1>2. ~Hand(p) /\ ~Hand(p)' /\ ~Connected(p)'
  BY HandInCode DEF Connected, HandStages
<1> QED
  BY <1>1, <1>2, OthersStay, HandsRest

\* ... takes the server socket or a connection ...
LEMMA CodeTakes ==
    ASSUME ServerTypeOK, Places, SocketInv, NEW p \in Threads \cup Callers, rs[p] = "off", Exists,
           stage[p] \notin HandStages, stage'[p] \in {"failClose", "drainClose", "lastClose"},
           Nudged(p),
           UNCHANGED <<owner, hook, hpc>>,
           \/ TakeServer(p) /\ UNCHANGED sock
           \/ \E s \in Sessions : TakeClient(p, s) /\ UNCHANGED m_serverSocket
    PROVE  SocketInv'
<1>1. p \in Procs \cup Sessions
  BY DEF Procs
<1>2. ~Hand(p) /\ (Hand(p)' <=> fd'[p] # NoFd) /\ ~Storing(p)' /\ ~Connected(p)'
  BY HandInCode DEF HandStages, Storing, Connected
<1>3. \A y \in (Procs \cup Sessions) \ {p} : fd'[y] = fd[y]
  BY DEF TakeServer, TakeClient, Load, ServerTypeOK
<1>4. OthersHold(p)
  BY <1>3, OthersStay
<1>5. \A s \in Sessions : Handled(s) => Handled(s)'
  BY DEF Handled
<1> QED
  BY <1>1, <1>2, <1>4, <1>5, HandTakes

\* What a close leaves to the others.
LEMMA CloseLeavesOthers ==
    ASSUME ServerTypeOK, NEW x \in Procs \cup Sessions, Nudged(x), Closes(x),
           UNCHANGED fd \/ Load(x, NoFd), \A p \in Procs \ {x} : hook'[p] = hook[p]
    PROVE  OthersHold(x)
<1>1. \A y \in (Procs \cup Sessions) \ {x} : fd'[y] = fd[y]
  BY DEF Load, ServerTypeOK
<1>2. ASSUME NEW s \in Sessions \ {x} PROVE hpc'[s] = "close" <=> hpc[s] = "close"
  <2>1. hpc'[s] = hpc[s] \/ (hpc[s] \in {"blocked", "astray"} /\ hpc'[s] = "shut")
    BY DEF Closes
  <2> QED
    BY <2>1
<1> QED
  BY <1>1, <1>2, OthersStay

\* ... and closes it.
LEMMA CodeCloses ==
    ASSUME ServerTypeOK, Places, SocketInv, NEW p \in Threads \cup Callers, rs[p] = "off", Exists,
           stage[p] \in HandStages \/ owner[fd[p]] \in ForeignKinds,
           UNCHANGED <<m_serverSocket, sock, hook>>,
           NEW loc \in {"loop", "end", "drainJoin", "splice"}, CloseAndGoto(p, loc)
    PROVE  SocketInv'
<1>1. p \in Procs \cup Sessions /\ p \notin Sessions
  BY ServerAssumption DEF Procs
<1>2. Nudged(p) /\ Closes(p) /\ Load(p, NoFd) /\ stage'[p] = loc
  BY CloseNudges DEF CloseAndGoto, CloseTaken
<1>3. (fd[p] # NoFd => Hand(p) \/ owner[fd[p]] \in ForeignKinds) /\ ~Hand(p)' /\ ~Connected(p)'
  BY <1>2, HandInCode DEF HandStages, Connected
<1>4. OthersHold(p)
  BY <1>1, <1>2, CloseLeavesOthers
<1> QED
  BY <1>1, <1>2, <1>3, <1>4, HandCloses

\* startClientSession closes a connection because there is no thread for it.
LEMMA ThreadFailureKeepsSockets ==
    ASSUME ServerTypeOK, Places, SocketInv, NEW t \in Threads, SessionThreadFails(t)
    PROVE  SocketInv'
<1>1. /\ stage[t] = "start" /\ rs[t] = "off" /\ Exists /\ Closes(t)
      /\ UNCHANGED <<m_serverSocket, sock, fd, hook>>
  BY DEF SessionThreadFails, InRunAt, ThreadAt
<1>2. t \in Procs \cup Sessions /\ t \notin Sessions /\ t \in Threads \cup Callers
  BY ServerAssumption DEF Procs
<1>3. Nudged(t) /\ stage'[t] = "closeAgain"
  BY CloseNudges
<1>4. (fd[t] # NoFd => Hand(t)) /\ ~Hand(t)'
  BY <1>1, <1>2, <1>3, HandInCode DEF HandStages
<1>5. fd[t] # NoFd
  BY <1>1 DEF SocketInv, RepeatsForeign, Connected
<1>6. OthersHold(t)
  BY <1>1, <1>2, <1>3, CloseLeavesOthers
<1> QED
  BY <1>1, <1>2, <1>4, <1>5, <1>6, HandCloses

\* A thread in preRun or run opens a descriptor.
LEMMA CodeOpens ==
    ASSUME ServerTypeOK, OneAttempt, Places, SocketInv, NEW t \in Threads, rs[t] = "off", Exists,
           tpc[t] \in {"preRun", "run"}, stage[t] \notin HandStages, stage'[t] \in {"store", "start"},
           Nudged(t), UNCHANGED <<m_serverSocket, sock, hpc, hook>>,
           NEW kind \in {"socket", "client"}, Opens(t, kind), stage'[t] = "store" => kind = "socket"
    PROVE  SocketInv'
<1>1. t \in Procs \cup Sessions /\ t \in Threads \cup Callers
  BY DEF Procs
<1>2. PICK f \in Fds : /\ owner[f] = "free" /\ owner' = [owner EXCEPT ![f] = kind]
                       /\ fd' = [fd EXCEPT ![t] = f]
  BY DEF Opens, Free
<1>3. fd'[t] = f /\ \A y \in (Procs \cup Sessions) \ {t} : fd'[y] = fd[y]
  BY <1>1, <1>2 DEF ServerTypeOK
<1>4. OthersHold(t)
  BY <1>3, OthersStay
<1>5. ~Hand(t) /\ Hand(t)'
  BY <1>1, <1>3, NoFdIsNone, HandInCode DEF HandStages
<1>6. Storing(t)' => kind = "socket"
  BY DEF Storing
<1>7. \A u \in Threads : ~Repeating(u)'
  BY AloneInHooks DEF Repeating, Nudged
<1> QED
  BY <1>1, <1>2, <1>3, <1>4, <1>5, <1>6, <1>7, HandOpens DEF ServerKinds

\* Steps of preRun.
LEMMA PreRunKeepsSockets ==
    ASSUME TypeOK, ServerTypeOK, OneAttempt, Places, SocketInv, NEW t \in Threads, PreRunStep(t)
    PROVE  SocketInv'
<1> USE DEF InPreRun, ThreadAt, StageGoto
<1>1. t \in Threads \cup Callers
  OBVIOUS
<1>2. CASE OpenSocket(t)
  <2>1. /\ rs[t] = "off" /\ Exists /\ tpc[t] = "preRun" /\ stage[t] = "socket"
        /\ stage'[t] = "store" /\ Nudged(t) /\ Opens(t, "socket")
        /\ UNCHANGED <<m_serverSocket, sock, hpc, hook>>
    BY <1>2 DEF OpenSocket, Nudged, ServerTypeOK
  <2> QED
    BY <2>1, CodeOpens DEF HandStages
<1>3. CASE NoSocket(t)
  BY <1>3, SocketsStay DEF NoSocket
<1>4. CASE NotBound(t)
  <2>1. /\ rs[t] = "off" /\ Exists /\ stage[t] = "bind" /\ stage'[t] = "fail" /\ Nudged(t)
        /\ UNCHANGED <<m_serverSocket, owner, sock, fd, hpc, hook>>
    BY <1>4 DEF NotBound, Nudged, ServerTypeOK
  <2> QED
    BY <1>1, <2>1, EmptyHandRests DEF HandStages, Handled
<1>5. CASE FailedTakesSocket(t)
  <2>1. /\ rs[t] = "off" /\ Exists /\ stage[t] = "fail" /\ stage'[t] = "failClose" /\ Nudged(t)
        /\ TakeServer(t) /\ UNCHANGED <<owner, sock, hpc, hook>>
    BY <1>5 DEF FailedTakesSocket, Nudged, ServerTypeOK
  <2> QED
    BY <1>1, <2>1, CodeTakes DEF HandStages
<1>6. CASE FailedCloses(t)
  <2>1. /\ rs[t] = "off" /\ Exists /\ stage[t] = "failClose" /\ CloseAndGoto(t, "end")
        /\ UNCHANGED <<m_serverSocket, sock, hook>>
    BY <1>6 DEF FailedCloses
  <2> QED
    BY <1>1, <2>1, CodeCloses DEF HandStages
<1> QED
  BY <1>2, <1>3, <1>4, <1>5, <1>6, StoreKeepsSockets, BoundKeepsSockets DEF PreRunStep

\* Steps of the accept loop.
LEMMA LoopKeepsSockets ==
    ASSUME TypeOK, ServerTypeOK, OneAttempt, Places, SessionInv, SocketInv, NEW t \in Threads,
           (RunStep(t) /\ ~DrainStep(t)) \/ AcceptReturns(t)
    PROVE  SocketInv'
<1> USE DEF InRunAt, ThreadAt, RunMoves, StageGoto
<1>1. t \in Threads \cup Callers
  OBVIOUS
<1>2. CASE RunChecks(t) \/ RunLoads(t) \/ RunCallsAccept(t) \/ AcceptBreaks(t)
           \/ AcceptInterrupted(t) \/ AcceptFailed(t)
  <2>1. /\ rs[t] = "off" /\ Exists /\ stage[t] \notin HandStages
        /\ stage'[t] \notin HandStages \cup {"closeAgain"} /\ Nudged(t)
        /\ UNCHANGED <<m_serverSocket, owner, sock, hpc, hook>>
        /\ \A y \in (Procs \cup Sessions) \ {t} : fd'[y] = fd[y]
    BY <1>2 DEF RunChecks, RunLoads, RunCallsAccept, AcceptBreaks, AcceptInterrupted, AcceptFailed,
                InAccept, Load, Nudged, HandStages, ServerTypeOK
  <2> QED
    BY <1>1, <2>1, EmptyHandRests DEF Handled
<1>3. CASE reapCompletedClients(t)
  <2>1. /\ rs[t] = "off" /\ Exists /\ stage[t] = "reap" /\ stage'[t] = "load" /\ Nudged(t)
        /\ UNCHANGED <<m_serverSocket, owner, sock, fd, hook>>
    BY <1>3 DEF reapCompletedClients, Nudged, ServerTypeOK
  <2>2. ASSUME NEW s \in Sessions
        PROVE  /\ hpc'[s] = "close" <=> hpc[s] = "close"
               /\ Handled(s) /\ sock[s] # NoFd => Handled(s)'
    <3>1. hpc'[s] = hpc[s] \/ (hpc[s] = "done" /\ hpc'[s] = "joined")
      BY <1>3 DEF reapCompletedClients
    <3>2. hpc[s] = "done" => sock[s] = NoFd
      BY DEF SessionInv, QuietHasNone, Quiet
    <3> QED
      BY <3>1, <3>2 DEF Handled
  <2> QED
    BY <1>1, <2>1, <2>2, EmptyHandRests DEF HandStages
<1>4. CASE Accepted(t)
  <2>1. /\ rs[t] = "off" /\ Exists /\ tpc[t] = "run" /\ stage[t] \in {"blocked", "astray"}
        /\ stage'[t] = "start" /\ Nudged(t) /\ Opens(t, "client")
        /\ UNCHANGED <<m_serverSocket, sock, hpc, hook>>
    BY <1>4 DEF Accepted, InAccept, Nudged, ServerTypeOK
  <2> QED
    BY <2>1, CodeOpens DEF HandStages
<1>5. CASE SessionRefused(t)
  <2>1. /\ rs[t] = "off" /\ Exists /\ stage[t] = "start" /\ stage'[t] = "refuse" /\ Nudged(t)
        /\ UNCHANGED <<m_serverSocket, owner, sock, fd, hpc, hook>>
    BY <1>5 DEF SessionRefused, Nudged, ServerTypeOK
  <2>2. OthersHold(t)
    BY <2>1, OthersStay
  <2>3. (Hand(t)' <=> Hand(t)) /\ ~Connected(t)' /\ ~Storing(t)'
    BY <1>1, <2>1, HandInCode DEF HandStages, Connected, Storing
  <2>4. t \in Procs \cup Sessions /\ \A s \in Sessions : Handled(s)' <=> Handled(s)
    BY <2>1 DEF Procs, Handled
  <2> QED
    BY <2>1, <2>2, <2>3, <2>4, HandsRest
<1>6. CASE RefusedCloses(t)
  <2>1. /\ rs[t] = "off" /\ Exists /\ stage[t] \in {"refuse", "closeAgain"}
        /\ CloseAndGoto(t, "loop")
        /\ UNCHANGED <<m_serverSocket, sock, hook>>
    BY <1>6 DEF RefusedCloses
  <2>2. stage[t] \in HandStages \/ owner[fd[t]] \in ForeignKinds
    BY <2>1 DEF SocketInv, RepeatsForeign, Connected, Repeating, HandStages
  <2> QED
    BY <1>1, <2>1, <2>2, CodeCloses
<1> QED
  BY <1>2, <1>3, <1>4, <1>5, <1>6, StartKeepsSockets, ThreadFailureKeepsSockets, Zenon
     DEF RunStep, AcceptReturns

\* Steps of joinAndClearAllClients and closeServerSocket.
LEMMA DrainKeepsSockets ==
    ASSUME TypeOK, ServerTypeOK, Places, SessionInv, SocketInv, NEW p \in Threads \cup Callers,
           DrainStep(p)
    PROVE  SocketInv'
<1> USE DEF StageGoto
<1>1. rs[p] = "off" /\ Exists /\ Nudged(p) /\ UNCHANGED hook
  BY DrainMoves
<1>2. CASE Splice(p)
  <2>1. /\ stage[p] = "splice" /\ stage'[p] = "drain"
        /\ UNCHANGED <<m_serverSocket, owner, sock, fd, hpc>>
    BY <1>2 DEF Splice, Draining, ServerTypeOK
  <2> QED
    BY <1>1, <2>1, EmptyHandRests DEF HandStages, Handled
<1>3. CASE DrainTakes(p)
  <2>1. stage[p] = "drain" /\ UNCHANGED <<m_serverSocket, owner, hpc>>
    BY <1>3 DEF DrainTakes, Draining
  <2>2. CASE mine[p] = {} /\ stage' = [stage EXCEPT ![p] = AfterDrain(p)] /\ UNCHANGED <<sock, fd>>
    <3>1. stage'[p] \in {"lastTake", "end"}
      BY <2>2 DEF AfterDrain, ServerTypeOK
    <3> QED
      BY <1>1, <2>1, <2>2, <3>1, EmptyHandRests DEF HandStages, Handled
  <2>3. CASE \E s \in Sessions : stage' = [stage EXCEPT ![p] = "drainClose"] /\ TakeClient(p, s)
    <3>1. stage'[p] = "drainClose"
      BY <2>3 DEF ServerTypeOK
    <3> QED
      BY <1>1, <2>1, <2>3, <3>1, CodeTakes DEF HandStages
  <2> QED
    BY <1>3, <2>2, <2>3 DEF DrainTakes
<1>4. CASE LastTake(p)
  <2>1. /\ stage[p] = "lastTake" /\ stage'[p] = "lastClose" /\ TakeServer(p)
        /\ UNCHANGED <<owner, sock, hpc>>
    BY <1>4 DEF LastTake, Draining, ServerTypeOK
  <2> QED
    BY <1>1, <2>1, CodeTakes DEF HandStages
<1>5. CASE DrainCloses(p) \/ LastClose(p)
  <2>1. /\ stage[p] \in {"drainClose", "lastClose"}
        /\ \E loc \in {"drainJoin", "end", "splice"} : CloseAndGoto(p, loc)
        /\ UNCHANGED <<m_serverSocket, sock>>
    BY <1>5 DEF DrainCloses, LastClose, Draining
  <2> QED
    BY <1>1, <2>1, CodeCloses DEF HandStages
<1>6. CASE DrainJoins(p)
  <2>1. /\ stage[p] = "drainJoin" /\ stage'[p] = "drain"
        /\ UNCHANGED <<m_serverSocket, owner, sock, fd>>
    BY <1>6 DEF DrainJoins, Draining, ServerTypeOK
  <2>2. ASSUME NEW s \in Sessions
        PROVE  /\ hpc'[s] = "close" <=> hpc[s] = "close"
               /\ Handled(s) /\ sock[s] # NoFd => Handled(s)'
    <3>1. hpc'[s] = hpc[s] \/ (hpc[s] = "done" /\ hpc'[s] = "joined")
      BY <1>6 DEF DrainJoins, ServerTypeOK
    <3>2. hpc[s] = "done" => sock[s] = NoFd
      BY DEF SessionInv, QuietHasNone, Quiet
    <3> QED
      BY <3>1, <3>2 DEF Handled
  <2> QED
    BY <1>1, <2>1, <2>2, EmptyHandRests DEF HandStages
<1> QED
  BY <1>2, <1>3, <1>4, <1>5, <1>6 DEF DrainStep

\* Steps of stopTriggered.
LEMMA HookKeepsSockets ==
    ASSUME TypeOK, ServerTypeOK, Places, SocketInv, NEW p \in Procs, HookStep(p)
    PROVE  SocketInv'
<1> USE DEF HookGoto, HookAt
<1>1. p \in Procs \cup Sessions /\ p \notin Sessions
  BY ServerAssumption
<1>2. CASE HookLocks(p) \/ HookReturns(p)
           \/ (HookTakesClient(p) /\ UNCHANGED <<sock, fd>> /\ hook'[p] = "return")
  <2>1. /\ rs[p] = "hook" /\ Exists /\ hook[p] \in {"lock", "return", "clients"}
        /\ hook'[p] \in {"clients", "takeServer", "return"}
        /\ UNCHANGED <<m_serverSocket, owner, sock, fd, hpc, stage>>
        /\ \A q \in Procs \ {p} : hook'[q] = hook[q]
    BY <1>2 DEF HookLocks, HookReturns, HookTakesClient, ServerTypeOK
  <2>2. Nudged(p) /\ \A s \in Sessions : Handled(s)' <=> Handled(s)
    BY <2>1 DEF Nudged, Handled
  <2>3. OthersHold(p)
    BY <2>1, <2>2, OthersStay
  <2>4. ~Hand(p) /\ ~Hand(p)' /\ ~Connected(p)'
    BY <2>1, HandInHook
  <2> QED
    BY <1>1, <2>1, <2>2, <2>3, <2>4, HandsRest
<1>3. CASE \/ HookTakesServer(p)
           \/ HookTakesClient(p) /\ \E s \in Sessions : hook'[p] = "closeClient" /\ TakeClient(p, s)
  <2>1. /\ rs[p] = "hook" /\ Exists /\ hook[p] \in {"takeServer", "clients"}
        /\ hook'[p] \in {"closeServer", "closeClient"}
        /\ UNCHANGED <<owner, hpc, stage>>
        /\ \A q \in Procs \ {p} : hook'[q] = hook[q]
    BY <1>3 DEF HookTakesServer, HookTakesClient, ServerTypeOK
  <2>2. \/ TakeServer(p) /\ UNCHANGED sock
        \/ \E s \in Sessions : TakeClient(p, s) /\ UNCHANGED m_serverSocket
    BY <1>3 DEF HookTakesServer, HookTakesClient
  <2>3. Nudged(p) /\ \A s \in Sessions : Handled(s)' <=> Handled(s)
    BY <2>1 DEF Nudged, Handled
  <2>4. \A y \in (Procs \cup Sessions) \ {p} : fd'[y] = fd[y]
    BY <2>2 DEF TakeServer, TakeClient, Load, ServerTypeOK
  <2>5. OthersHold(p)
    BY <2>1, <2>3, <2>4, OthersStay
  <2>6. ~Hand(p) /\ (Hand(p)' <=> fd'[p] # NoFd) /\ ~Storing(p)' /\ ~Connected(p)'
    BY <2>1, HandInHook
  <2> QED
    BY <1>1, <2>1, <2>2, <2>3, <2>5, <2>6, HandTakes
<1>4. CASE HookClosesServer(p) \/ HookClosesClient(p)
  <2>1. /\ rs[p] = "hook" /\ Exists /\ hook[p] \in {"closeServer", "closeClient"}
        /\ Closes(p) /\ Load(p, NoFd) /\ stage' = AfterClose(p)
        /\ hook'[p] \notin {"closeServer", "closeClient"}
        /\ UNCHANGED <<m_serverSocket, sock>>
        /\ \A q \in Procs \ {p} : hook'[q] = hook[q]
    BY <1>4 DEF HookClosesServer, HookClosesClient, CloseTaken, ServerTypeOK
  <2>2. Nudged(p) /\ (p \in Threads \cup Callers => stage'[p] = stage[p])
    BY <2>1, CloseNudges
  <2>3. OthersHold(p)
    BY <1>1, <2>1, <2>2, CloseLeavesOthers
  <2>4. (fd[p] # NoFd => Hand(p)) /\ ~Hand(p)' /\ ~Connected(p)'
    BY <2>1, <2>2, HandInHook
  <2> QED
    BY <1>1, <2>1, <2>3, <2>4, HandCloses
<1>5. CASE BaseHookReturns(p)
  BY <1>5, SocketsStay DEF BaseHookReturns
<1>6. HookTakesClient(p) =>
        \/ UNCHANGED <<sock, fd>> /\ hook'[p] = "return"
        \/ \E s \in Sessions : hook'[p] = "closeClient" /\ TakeClient(p, s)
  BY DEF HookTakesClient, ServerTypeOK
<1> QED
  BY <1>2, <1>3, <1>4, <1>5, <1>6, Zenon DEF HookStep

\* Steps of the handlers.
LEMMA HandlerKeepsSockets ==
    ASSUME TypeOK, ServerTypeOK, SocketInv, NEW s \in Sessions,
           HandlerStep(s) \/ RecvGoesOn(s) \/ RecvEnds(s)
    PROVE  SocketInv'
<1> USE DEF HandlerAt, HandlerMoves
<1>1. s \in Procs \cup Sessions /\ s \notin Procs
  BY ServerAssumption
<1>2. CASE HandlerCloses(s)
  <2>1. /\ hpc[s] = "close" /\ hpc'[s] = "done" /\ Closes(s) /\ Load(s, NoFd) /\ Nudged(s)
        /\ UNCHANGED <<m_serverSocket, sock, hook>>
    BY <1>2, CloseNudges DEF HandlerCloses, CloseTaken, Closes
  <2>2. OthersHold(s)
    BY <1>1, <2>1, CloseLeavesOthers
  <2> QED
    BY <1>1, <2>1, <2>2, HandInHandler, HandCloses
<1>3. CASE HandlerTakes(s)
  <2>1. /\ hpc[s] = "take" /\ hpc' = [hpc EXCEPT ![s] = "close"] /\ TakeClient(s, s)
        /\ UNCHANGED <<m_serverSocket, owner, hook, stage>>
    BY <1>3 DEF HandlerTakes
  <2>2. \A y \in (Procs \cup Sessions) \ {s} : fd'[y] = fd[y]
    BY <2>1 DEF TakeClient, Load, ServerTypeOK
  <2>3. \A r \in Sessions \ {s} : hpc'[r] = hpc[r]
    BY <2>1 DEF ServerTypeOK
  <2>4. OthersHold(s)
    BY <1>1, <2>1, <2>2, <2>3, OthersStay DEF Nudged
  <2>5. hpc'[s] = "close" /\ \A r \in Sessions : Handled(r) => Handled(r)'
    BY <2>1 DEF Handled, ServerTypeOK
  <2> QED
    BY <1>1, <2>1, <2>4, <2>5, HandInHandler, HandTakes
<1>4. CASE \/ HandlerChecks(s) \/ HandlerLoads(s) \/ HandlerCallsRecv(s) \/ RecvIsShut(s)
           \/ RecvGoesOn(s) \/ RecvEnds(s)
  <2>1. /\ hpc[s] \in {"check", "load", "recv", "blocked", "astray", "shut"}
        /\ hpc'[s] \in {"load", "take", "recv", "blocked", "astray", "check"}
        /\ \A r \in Sessions \ {s} : hpc'[r] = hpc[r]
        /\ UNCHANGED <<m_serverSocket, owner, sock, hook, stage>>
        /\ \A y \in (Procs \cup Sessions) \ {s} : fd'[y] = fd[y]
    BY <1>4 DEF HandlerChecks, HandlerLoads, HandlerCallsRecv, RecvIsShut, RecvGoesOn, RecvEnds,
                InRecv, Load, ServerTypeOK
  <2>2. OthersHold(s)
    BY <1>1, <2>1, OthersStay DEF Nudged
  <2>3. /\ ~Hand(s) /\ ~Hand(s)' /\ ~Connected(s)'
        /\ \A r \in Sessions : Handled(r) => Handled(r)'
    BY <2>1, HandInHandler DEF Handled
  <2> QED
    BY <1>1, <2>1, <2>2, <2>3, HandsRest
<1> QED
  BY <1>2, <1>3, <1>4, Zenon DEF HandlerStep

\* The application opens a descriptor that nobody has.
LEMMA OtherKeepsSockets ==
    ASSUME ServerTypeOK, SocketInv, OtherOpens
    PROVE  SocketInv'
<1> USE NoFdIsNone DEF SocketInv, ServerKinds, ForeignKinds
<1>1. PICK f \in Fds : owner[f] = "free" /\ owner' = [owner EXCEPT ![f] = "other"]
  BY DEF OtherOpens, Free
<1>2. /\ UNCHANGED <<m_serverSocket, sock, fd, hpc, hook, stage>>
      /\ owner'[f] = "other" /\ \A g \in Fds \ {f} : owner'[g] = owner[g]
  BY <1>1 DEF OtherOpens, ServerTypeOK
<1>3. \A x \in Procs \cup Sessions : /\ Hand(x)' <=> Hand(x)
                                     /\ Storing(x)' <=> Storing(x)
  BY <1>2 DEF Hand, Storing
<1>4. StoresExclusive'
  BY <1>1, <1>2 DEF StoresExclusive, ServerTypeOK
<1>5. HandsExclusive'
  BY <1>1, <1>2, <1>3 DEF HandsExclusive, ServerTypeOK
<1>6. RepeatsForeign'
  BY <1>1, <1>2 DEF RepeatsForeign, Connected, Repeating, ServerTypeOK, Procs
<1>7. Followed'
  BY <1>1, <1>2, <1>3 DEF Followed, Handled
<1> QED
  BY <1>4, <1>5, <1>6, <1>7

\* The descriptors are in order in every state of the server.
LEMMA SocketInvariant == ServerSpec => []SocketInv
<1>1. /\ TypeOK /\ ServerTypeOK /\ OneAttempt /\ Places /\ SessionInv /\ SocketInv
      /\ [ServerNext]_allVars
      => SocketInv'
  <2> SUFFICES ASSUME TypeOK, ServerTypeOK, OneAttempt, Places, SessionInv, SocketInv,
                      [ServerNext]_allVars
               PROVE  SocketInv'
    OBVIOUS
  <2>1. ASSUME NEW p \in Threads \cup Callers, DrainStep(p) PROVE SocketInv'
    BY <2>1, DrainKeepsSockets
  <2>2. ASSUME NEW t \in Threads, RunStep(t) \/ AcceptReturns(t) PROVE SocketInv'
    <3>1. t \in Threads \cup Callers
      OBVIOUS
    <3> QED
      BY <2>1, <2>2, <3>1, LoopKeepsSockets, Zenon
  <2>3. ASSUME NEW c \in Callers, DrainStep(c) PROVE SocketInv'
    BY <2>1, <2>3
  <2>4. CASE BasePart \/ ServerTerminated \/ UNCHANGED allVars
             \/ \E c \in Callers : DestructorEnds(c)
    <3>1. UNCHANGED serverVars
      BY <2>4 DEF BasePart, ServerTerminated, allVars, DestructorEnds
    <3> QED
      BY <3>1, SocketsStay
  <2> QED
    BY <2>2, <2>3, <2>4, PreRunKeepsSockets, HookKeepsSockets, HandlerKeepsSockets,
       OtherKeepsSockets, Zenon DEF ServerNext
<1> QED
  BY <1>1, InitEstablishesSockets, PlacesInvariant, SessionInvariant, ServerIsBaseWorker,
     ServerTypeCorrect, TypeCorrect, Exclusive, PTL DEF ServerSpec, ImplementsBaseWorker

\* Stops, handlers, the drain, refused sessions, failed starts and the destructor close a
\* descriptor while it is the server's, nobody else is about to close it and no member names
\* it, whatever the application opens meanwhile.  The second close of a session that got no
\* thread may hit the application's descriptors, and never the server's.
THEOREM ServerClosesOnceAlways == ServerSpec => []ServerClosesOnce
<1>1. SocketInv => ServerClosesOnce
  <2> SUFFICES ASSUME SocketInv PROVE ServerClosesOnce
    OBVIOUS
  <2>1. ASSUME NEW x \in Procs \cup Sessions, Closing(x) PROVE Hand(x)
    <3>1. CASE x \in Sessions
      BY <2>1, <3>1, HandInHandler DEF Closing
    <3>2. CASE x \in Procs
      <4>1. x \notin Sessions
        BY <3>2, ServerAssumption
      <4> QED
        BY <2>1, <3>2, <4>1 DEF Closing, Hand, HandStages
    <3> QED
      BY <3>1, <3>2
  <2>2. ASSUME NEW t \in Threads, stage[t] = "closeAgain" PROVE owner[fd[t]] \in ForeignKinds
    BY <2>2 DEF SocketInv, RepeatsForeign, Connected, Repeating
  <2> QED
    BY <2>1, <2>2 DEF ServerClosesOnce, SocketInv, HandsExclusive, ServerKinds, ForeignKinds
<1> QED
  BY <1>1, SocketInvariant, PTL

\* When the server has announced that it is stopped, no handler executes but those that
\* the destructor is joining, and no connection has been forgotten.
THEOREM StoppedServesNobodyAlways == ServerSpec => []StoppedServesNobody
<1>1. /\ StoppedIffIdle /\ ServerTypeOK /\ Places /\ SessionInv /\ SocketInv
      => StoppedServesNobody
  <2> SUFFICES ASSUME StoppedIffIdle, ServerTypeOK, Places, SessionInv, SocketInv,
                      m_state = "Stopped", Exists
               PROVE  /\ m_clients = {}
                      /\ \A s \in Sessions : Handled(s) => \E c \in Callers : s \in mine[c]
                      /\ \A f \in Fds : owner[f] = "client" =>
                            \/ \E x \in Procs \cup Sessions : Closing(x) /\ fd[x] = f
                            \/ \E s \in Sessions : Handled(s) /\ sock[s] = f
    BY DEF StoppedServesNobody
  <2>1. ASSUME NEW t \in Threads PROVE stage[t] \in {"socket", "loop", "end"} /\ tpc[t] # "run"
    <3>1. tpc[t] \notin {"preRun", "run"}
      BY DEF StoppedIffIdle, Busy, Live, LiveLocations
    <3> QED
      BY <3>1 DEF Places, ThreadFits
  <2>2. m_clients = {}
    BY <2>1 DEF SessionInv, ListServed
  <2>3. ASSUME NEW s \in Sessions, Handled(s) PROVE \E c \in Callers : s \in mine[c]
    BY <2>1, <2>2, <2>3 DEF SessionInv, HandlersAreOwned, ListsEmptied, JoinStages
  <2>4. ASSUME NEW x \in Procs \cup Sessions, Hand(x) PROVE Closing(x)
    <3>1. CASE x \in Sessions
      BY <2>4, <3>1, HandInHandler DEF Closing
    <3>2. CASE x \in Procs /\ x \notin Sessions
      <4>1. x \in Threads => stage[x] \notin HandStages
        BY <2>1 DEF HandStages
      <4>2. x \in Callers => stage[x] \in DestructorStages
        BY DEF Places, CallerFits
      <4>3. hook[x] # "takeServer" => rs[x] = "hook"
        BY <3>2 DEF Places, HookFits
      <4> QED
        BY <2>4, <3>2, <4>1, <4>2, <4>3
           DEF Hand, Closing, HandStages, DestructorStages, LastStages, JoinStages
    <3> QED
      BY <3>1, <3>2
  <2> QED
    BY <2>2, <2>3, <2>4 DEF SocketInv, Followed
<1> QED
  BY <1>1, PlacesInvariant, SessionInvariant, SocketInvariant, ServerIsBaseWorker, Exclusive,
     ServerTypeCorrect, PTL DEF ImplementsBaseWorker
=============================================================================
