----------------------------- MODULE TcpServer -----------------------------
(***************************************************************************)
(* TCPServer_V2 (cTCPServer_V2.h) on top of cBaseWorker_V2.  The worker    *)
(* thread executes preRun and the accept loop of run(); every connection   *)
(* gets a session in the list m_clients and a thread of its own that       *)
(* executes handleClient; stopTriggered is executed by whoever requests a  *)
(* stop, and the destructor by a caller.                                   *)
(*                                                                         *)
(* A closed descriptor number may be given out again, by accept, by the    *)
(* next start or to the rest of the application; a system call             *)
(* acts on whatever the number stands for when the call is made.           *)
(***************************************************************************)
EXTENDS BaseWorker, Integers, FiniteSets

CONSTANTS MaxSessions, \* bound: the connections that are ever accepted
          Fds,         \* the descriptors the process may open
          MaxOthers    \* bound: the descriptors the application has opened at a time

\* The sessions, numbered in the order in which they are accepted.
Sessions == 1..MaxSessions

ASSUME ServerAssumption ==
    /\ Helpers = {}
    /\ Fds \subseteq Nat
    /\ MaxSessions \in Nat
    /\ MaxOthers \in Nat
    /\ Procs \cap Sessions = {}

NoFd == -1

VARIABLES m_serverSocket,
          m_clients, \* the sessions in the list, which is in the order of their numbers
          lock,      \* the process in m_clientsMutex, if its section has several steps
          owner,     \* what a descriptor is: of the server, or the application's
          sock,      \* the member socket of a session
          fd,        \* the local variable of a process or a handler
          hpc,       \* where in handleClient the thread of a session is
          stage,     \* where in preRun, run or the destructor a process is
          hook,      \* where in stopTriggered a process is
          mine       \* the local list clientsToJoin of a process

serverVars == <<m_serverSocket, m_clients, lock, owner, sock, fd, hpc, stage, hook, mine>>
allVars == <<vars, serverVars>>

DrainStages == {"splice", "drain", "drainClose", "drainJoin"}

ServerTypeOK ==
    /\ m_serverSocket \in Fds \cup {NoFd}
    /\ m_clients \subseteq Sessions
    /\ lock \subseteq Procs
    /\ owner \in [Fds -> {"free", "socket", "listener", "client", "other"}]
    /\ sock \in [Sessions -> Fds \cup {NoFd}]
    /\ fd \in [Procs \cup Sessions -> Fds \cup {NoFd}]
    /\ hpc \in [Sessions -> {"unborn", "check", "load", "recv", "blocked", "astray",
                             "shut", "take", "close", "done", "joined"}]
    /\ stage \in [Threads \cup Callers ->
                    {"socket", "store", "bind", "fail", "failClose", "loop", "reap", "load",
                     "accept", "blocked", "astray", "failed", "start", "refuse", "closeAgain",
                     "lastTake", "lastClose", "end"} \cup DrainStages]
    /\ hook \in [Procs -> {"takeServer", "closeServer", "lock", "clients", "closeClient", "return"}]
    /\ mine \in [Procs -> SUBSET Sessions]

ServerInit ==
    /\ Init
    /\ m_serverSocket = NoFd
    /\ m_clients = {}
    /\ lock = {}
    /\ owner = [f \in Fds |-> "free"]
    /\ sock = [s \in Sessions |-> NoFd]
    /\ fd = [x \in Procs \cup Sessions |-> NoFd]
    /\ hpc = [s \in Sessions |-> "unborn"]
    /\ stage = [p \in Threads \cup Callers |-> IF p \in Threads THEN "socket" ELSE "lastTake"]
    /\ hook = [p \in Procs |-> "takeServer"]
    /\ mine = [p \in Procs |-> {}]

-----------------------------------------------------------------------------
(* Descriptors.                                                            *)

\* The derived part of the object exists; afterwards its members are gone and
\* what a hook still does is undefined and not followed.
Exists == object = "alive"

Free == {f \in Fds : owner[f] = "free"}

\* socket and accept return the lowest free descriptor.
Opens(x, kind) ==
    \E f \in Free : /\ \A g \in Free : f <= g
                    /\ owner' = [owner EXCEPT ![f] = kind]
                    /\ fd' = [fd EXCEPT ![x] = f]

Load(x, value) == fd' = [fd EXCEPT ![x] = value]

\* Mutant: the descriptor is read and not exchanged.
TakeClientByLoad(x, s) ==
    /\ Load(x, sock[s])
    /\ UNCHANGED sock

\* closeSocket, the exchange of m_serverSocket or of a session's socket ...
TakeServer(x) ==
    /\ Load(x, m_serverSocket)
    /\ m_serverSocket' = NoFd

TakeClient(x, s) ==
    /\ Load(x, sock[s])
    /\ sock' = [sock EXCEPT ![s] = NoFd]

\* shutdown and close: whoever is blocked on the descriptor wakes up.
Closes(x) ==
    /\ owner' = [f \in Fds |-> IF f = fd[x] THEN "free" ELSE owner[f]]
    /\ hpc' = [s \in Sessions |->
                  CASE s = x -> "done"
                    [] s # x /\ hpc[s] \in {"blocked", "astray"} /\ fd[s] = fd[x] -> "shut"
                    [] OTHER -> hpc[s]]

\* ... and the close of it.
CloseTaken(x) == Closes(x) /\ Load(x, NoFd)

\* The stages after a close by x: an accept that is blocked on it fails.
AfterClose(x) == [q \in Threads \cup Callers |->
                    IF q # x /\ stage[q] \in {"blocked", "astray"} /\ fd[q] = fd[x]
                    THEN "failed" ELSE stage[q]]

StageGoto(p, loc) == stage' = [stage EXCEPT ![p] = loc]

CloseAndGoto(p, loc) == CloseTaken(p) /\ stage' = [AfterClose(p) EXCEPT ![p] = loc]

\* The application opens a descriptor: the lowest free one, as POSIX has it.
OtherOpens ==
    /\ Cardinality({f \in Fds : owner[f] = "other"}) < MaxOthers
    /\ \E f \in Free : /\ \A g \in Free : f <= g
                       /\ owner' = [owner EXCEPT ![f] = "other"]
    /\ UNCHANGED <<vars, m_serverSocket, m_clients, lock, sock, fd, hpc, stage, hook, mine>>

-----------------------------------------------------------------------------
(* preRun                                                                  *)

InPreRun(t, loc) == ThreadAt(t, "preRun") /\ stage[t] = loc /\ Exists

OpenSocket(t) ==
    /\ InPreRun(t, "socket")
    /\ Opens(t, "socket")
    /\ StageGoto(t, "store")
    /\ UNCHANGED <<vars, m_serverSocket, m_clients, lock, sock, hpc, hook, mine>>

NoSocket(t) ==
    /\ InPreRun(t, "socket")
    /\ PreRunReturns(t, FALSE)
    /\ UNCHANGED serverVars

StoreSocket(t) ==
    /\ InPreRun(t, "store")
    /\ m_serverSocket' = fd[t]
    /\ StageGoto(t, "bind")
    /\ UNCHANGED <<vars, m_clients, lock, owner, sock, fd, hpc, hook, mine>>

\* bind and listen succeed on a socket that is still open, if the port is free.
Bound(t) ==
    /\ InPreRun(t, "bind")
    /\ owner[fd[t]] = "socket"
    /\ \A f \in Fds : owner[f] # "listener"
    /\ owner' = [owner EXCEPT ![fd[t]] = "listener"]
    /\ PreRunReturns(t, TRUE)
    /\ StageGoto(t, "loop")
    /\ Load(t, NoFd)
    /\ UNCHANGED <<m_serverSocket, m_clients, lock, sock, hpc, hook, mine>>

NotBound(t) ==
    /\ InPreRun(t, "bind")
    /\ StageGoto(t, "fail")
    /\ UNCHANGED <<vars, m_serverSocket, m_clients, lock, owner, sock, fd, hpc, hook, mine>>

FailedTakesSocket(t) ==
    /\ InPreRun(t, "fail")
    /\ TakeServer(t)
    /\ StageGoto(t, "failClose")
    /\ UNCHANGED <<vars, m_clients, lock, owner, sock, hpc, hook, mine>>

FailedCloses(t) ==
    /\ InPreRun(t, "failClose")
    /\ CloseAndGoto(t, "end")
    /\ PreRunReturns(t, FALSE)
    /\ UNCHANGED <<m_serverSocket, m_clients, lock, sock, hook, mine>>

PreRunStep(t) ==
    \/ OpenSocket(t) \/ NoSocket(t) \/ StoreSocket(t) \/ Bound(t) \/ NotBound(t)
    \/ FailedTakesSocket(t) \/ FailedCloses(t)

-----------------------------------------------------------------------------
(* run: the accept loop.                                                   *)

InRunAt(t, loc) == ThreadAt(t, "run") /\ stage[t] = loc /\ Exists

\* Nobody else is in m_clientsMutex.
ClientsUnlocked == lock = {}

RunMoves(t, loc) ==
    /\ StageGoto(t, loc)
    /\ UNCHANGED <<vars, m_serverSocket, lock, hook>>

\* while (continueRunning())
RunChecks(t) ==
    /\ InRunAt(t, "loop")
    /\ RunMoves(t, IF m_stopRequested THEN "splice" ELSE "reap")
    /\ UNCHANGED <<m_clients, owner, sock, fd, hpc, mine>>

\* Mutant: sessions are taken out whether they have completed or not.
ReapAll(t) ==
    /\ InRunAt(t, "reap")
    /\ ClientsUnlocked
    /\ m_clients' = {}
    /\ RunMoves(t, "load")
    /\ UNCHANGED <<owner, sock, fd, hpc, mine>>

\* reapCompletedClients: a completed handler has closed its socket and returns
\* at once, so the close is for nothing and the join does not block.
reapCompletedClients(t) ==
    /\ InRunAt(t, "reap")
    /\ ClientsUnlocked
    /\ m_clients' = {s \in m_clients : hpc[s] # "done"}
    /\ hpc' = [s \in Sessions |->
                  IF hpc[s] = "done" /\ s \in m_clients THEN "joined" ELSE hpc[s]]
    /\ RunMoves(t, "load")
    /\ UNCHANGED <<owner, sock, fd, mine>>

RunLoads(t) ==
    /\ InRunAt(t, "load")
    /\ Load(t, m_serverSocket)
    /\ RunMoves(t, IF m_serverSocket = NoFd THEN "splice" ELSE "accept")
    /\ UNCHANGED <<m_clients, owner, sock, hpc, mine>>

\* accept blocks on a listening socket, on the application's too if it has the
\* number now, and fails on anything else.
RunCallsAccept(t) ==
    /\ InRunAt(t, "accept")
    /\ RunMoves(t, CASE owner[fd[t]] = "listener" -> "blocked"
                      [] owner[fd[t]] = "other" -> "astray"
                      [] OTHER -> "failed")
    /\ UNCHANGED <<m_clients, owner, sock, fd, hpc, mine>>

InAccept(t) == InRunAt(t, "blocked") \/ InRunAt(t, "astray")

\* A peer connects: the new descriptor becomes the local variable.
Accepted(t) ==
    /\ InAccept(t)
    /\ \E s \in Sessions : hpc[s] = "unborn"
    /\ Opens(t, "client")
    /\ RunMoves(t, "start")
    /\ UNCHANGED <<m_clients, sock, hpc, mine>>

\* accept fails by itself.
AcceptBreaks(t) ==
    /\ InAccept(t)
    /\ RunMoves(t, "failed")
    /\ UNCHANGED <<m_clients, owner, sock, fd, hpc, mine>>

\* EINTR while the server runs.
AcceptInterrupted(t) ==
    /\ InAccept(t)
    /\ ~m_stopRequested
    /\ RunMoves(t, "loop")
    /\ UNCHANGED <<m_clients, owner, sock, fd, hpc, mine>>

\* A failed accept ends the loop, and stops the worker unless it is stopping.
AcceptFailed(t) ==
    /\ InRunAt(t, "failed")
    /\ IF m_stopRequested THEN UNCHANGED vars ELSE Retire(t)
    /\ StageGoto(t, "splice")
    /\ Load(t, NoFd)
    /\ UNCHANGED <<m_serverSocket, m_clients, lock, owner, sock, hpc, hook, mine>>

\* startClientSession, under the mutex: a session and its thread ...
startClientSession(t, s) ==
    /\ InRunAt(t, "start")
    /\ ClientsUnlocked
    /\ \A r \in Sessions : hpc[r] = "unborn" <=> r >= s
    /\ m_clients' = m_clients \cup {s}
    /\ sock' = [sock EXCEPT ![s] = fd[t]]
    /\ hpc' = [hpc EXCEPT ![s] = "check"]
    /\ Load(t, NoFd)
    /\ RunMoves(t, "loop")
    /\ UNCHANGED <<owner, mine>>

\* ... or no memory for the session, which leaves the close to run() ...
SessionRefused(t) ==
    /\ InRunAt(t, "start")
    /\ ClientsUnlocked
    /\ RunMoves(t, "refuse")
    /\ UNCHANGED <<m_clients, owner, sock, fd, hpc, mine>>

\* ... or no thread: the socket is closed here, and its number again by run().
SessionThreadFails(t) ==
    /\ InRunAt(t, "start")
    /\ ClientsUnlocked
    /\ Closes(t)
    /\ stage' = [AfterClose(t) EXCEPT ![t] = "closeAgain"]
    /\ UNCHANGED <<vars, m_serverSocket, m_clients, lock, sock, fd, hook, mine>>

RefusedCloses(t) ==
    /\ InRunAt(t, "refuse") \/ InRunAt(t, "closeAgain")
    /\ CloseAndGoto(t, "loop")
    /\ UNCHANGED <<vars, m_serverSocket, m_clients, lock, sock, hook, mine>>

-----------------------------------------------------------------------------
(* joinAndClearAllClients, at the end of run() and in the destructor.      *)

Draining(p, loc) ==
    /\ stage[p] = loc
    /\ Exists
    /\ \/ p \in Threads /\ ThreadAt(p, "run")
       \/ p \in Callers /\ At(p, "dismantle")

\* The session at the front of a list.
First(list, s) == s \in list /\ \A r \in list : s <= r

\* Where p goes when its local list is empty.
AfterDrain(p) == IF p \in Threads THEN "lastTake" ELSE "end"

\* Mutant: the list is left alone.
SpliceNothing(p) ==
    /\ Draining(p, "splice")
    /\ ClientsUnlocked
    /\ StageGoto(p, "drain")
    /\ UNCHANGED <<vars, m_serverSocket, m_clients, lock, owner, sock, fd, hpc, hook, mine>>

Splice(p) ==
    /\ Draining(p, "splice")
    /\ ClientsUnlocked
    /\ mine' = [mine EXCEPT ![p] = m_clients]
    /\ m_clients' = {}
    /\ StageGoto(p, "drain")
    /\ UNCHANGED <<vars, m_serverSocket, lock, owner, sock, fd, hpc, hook>>

\* One session after the other: exchange, close, join.
DrainTakes(p) ==
    /\ Draining(p, "drain")
    /\ \/ mine[p] = {} /\ StageGoto(p, AfterDrain(p)) /\ UNCHANGED <<sock, fd>>
       \/ \E s \in Sessions :
             First(mine[p], s) /\ StageGoto(p, "drainClose") /\ TakeClient(p, s)
    /\ UNCHANGED <<vars, m_serverSocket, m_clients, lock, owner, hpc, hook, mine>>

DrainCloses(p) ==
    /\ Draining(p, "drainClose")
    /\ CloseAndGoto(p, "drainJoin")
    /\ UNCHANGED <<vars, m_serverSocket, m_clients, lock, sock, hook, mine>>

DrainJoins(p) ==
    /\ Draining(p, "drainJoin")
    /\ \E s \in Sessions :
          /\ First(mine[p], s)
          /\ hpc[s] = "done"
          /\ hpc' = [hpc EXCEPT ![s] = "joined"]
          /\ mine' = [mine EXCEPT ![p] = @ \ {s}]
    /\ StageGoto(p, "drain")
    /\ UNCHANGED <<vars, m_serverSocket, m_clients, lock, owner, sock, fd, hook>>

\* closeServerSocket, after the drain in run() and before it in the destructor.
LastTake(p) ==
    /\ Draining(p, "lastTake")
    /\ TakeServer(p)
    /\ StageGoto(p, "lastClose")
    /\ UNCHANGED <<vars, m_clients, lock, owner, sock, hpc, hook, mine>>

LastClose(p) ==
    /\ Draining(p, "lastClose")
    /\ CloseAndGoto(p, IF p \in Threads THEN "end" ELSE "splice")
    /\ IF p \in Threads THEN RunReturns(p) ELSE UNCHANGED vars
    /\ UNCHANGED <<m_serverSocket, m_clients, lock, sock, hook, mine>>

DrainStep(p) ==
    \/ Splice(p) \/ DrainTakes(p) \/ DrainCloses(p) \/ DrainJoins(p) \/ LastTake(p) \/ LastClose(p)

\* The destructor's own part is over.
DestructorEnds(c) ==
    /\ Draining(c, "end")
    /\ Dismantle(c)
    /\ UNCHANGED serverVars

RunStep(t) ==
    \/ RunChecks(t) \/ reapCompletedClients(t) \/ RunLoads(t) \/ RunCallsAccept(t)
    \/ AcceptFailed(t) \/ SessionRefused(t) \/ SessionThreadFails(t) \/ RefusedCloses(t)
    \/ \E s \in Sessions : startClientSession(t, s)
    \/ DrainStep(t)

\* What the network decides.
AcceptReturns(t) == Accepted(t) \/ AcceptBreaks(t) \/ AcceptInterrupted(t)

-----------------------------------------------------------------------------
(* stopTriggered: closeServerSocket, then closeAllClientSockets.           *)

HookAt(p, loc) == rs[p] = "hook" /\ hook[p] = loc /\ Exists

HookGoto(p, loc) == hook' = [hook EXCEPT ![p] = loc]

HookTakesServer(p) ==
    /\ HookAt(p, "takeServer")
    /\ TakeServer(p)
    /\ HookGoto(p, "closeServer")
    /\ UNCHANGED <<vars, m_clients, lock, owner, sock, hpc, stage, mine>>

\* Mutant: the descriptor is dropped without being closed.
HookForgetsServer(p) ==
    /\ HookAt(p, "closeServer")
    /\ Load(p, NoFd)
    /\ HookGoto(p, "lock")
    /\ UNCHANGED <<vars, m_serverSocket, m_clients, lock, owner, sock, hpc, stage, mine>>

HookClosesServer(p) ==
    /\ HookAt(p, "closeServer")
    /\ CloseTaken(p)
    /\ stage' = AfterClose(p)
    /\ HookGoto(p, "lock")
    /\ UNCHANGED <<vars, m_serverSocket, m_clients, lock, sock, mine>>

HookLocks(p) ==
    /\ HookAt(p, "lock")
    /\ ClientsUnlocked
    /\ lock' = {p}
    /\ HookGoto(p, "clients")
    /\ UNCHANGED <<vars, m_serverSocket, m_clients, owner, sock, fd, hpc, stage, mine>>

\* The sessions in the list that still have their socket.
OpenSessions == {s \in m_clients : sock[s] # NoFd}

\* The next of them, or the end of the list.
HookTakesClient(p) ==
    /\ HookAt(p, "clients")
    /\ \/ OpenSessions = {} /\ HookGoto(p, "return") /\ lock' = {} /\ UNCHANGED <<sock, fd>>
       \/ \E s \in Sessions : /\ First(OpenSessions, s) /\ HookGoto(p, "closeClient")
                              /\ TakeClient(p, s) /\ UNCHANGED lock
    /\ UNCHANGED <<vars, m_serverSocket, m_clients, owner, hpc, stage, mine>>

HookClosesClient(p) ==
    /\ HookAt(p, "closeClient")
    /\ CloseTaken(p)
    /\ stage' = AfterClose(p)
    /\ HookGoto(p, "clients")
    /\ UNCHANGED <<vars, m_serverSocket, m_clients, lock, sock, mine>>

HookReturns(p) ==
    /\ HookAt(p, "return")
    /\ StopTriggeredReturns(p)
    /\ HookGoto(p, "takeServer")
    /\ UNCHANGED <<m_serverSocket, m_clients, lock, owner, sock, fd, hpc, stage, mine>>

\* In the base destructor the hook is the base class's own, which is empty.
BaseHookReturns(p) ==
    /\ ~Exists
    /\ StopTriggeredReturns(p)
    /\ UNCHANGED serverVars

HookStep(p) ==
    \/ HookTakesServer(p) \/ HookClosesServer(p) \/ HookLocks(p) \/ HookTakesClient(p)
    \/ HookClosesClient(p) \/ HookReturns(p) \/ BaseHookReturns(p)

-----------------------------------------------------------------------------
(* handleClient, on the thread of session s.                               *)

HandlerAt(s, loc) == hpc[s] = loc /\ Exists

HandlerMoves(s, loc) ==
    /\ hpc' = [hpc EXCEPT ![s] = loc]
    /\ UNCHANGED <<vars, m_serverSocket, m_clients, lock, owner, stage, hook, mine>>

HandlerChecks(s) ==
    /\ HandlerAt(s, "check")
    /\ HandlerMoves(s, IF m_stopRequested THEN "take" ELSE "load")
    /\ UNCHANGED <<sock, fd>>

HandlerLoads(s) ==
    /\ HandlerAt(s, "load")
    /\ Load(s, sock[s])
    /\ HandlerMoves(s, IF sock[s] = NoFd THEN "take" ELSE "recv")
    /\ UNCHANGED sock

\* recv blocks on a connection, its own or the one that has its number now, the
\* application's included.
HandlerCallsRecv(s) ==
    /\ HandlerAt(s, "recv")
    /\ HandlerMoves(s, CASE owner[fd[s]] = "client" -> "blocked"
                         [] owner[fd[s]] = "other" -> "astray"
                         [] OTHER -> "take")
    /\ UNCHANGED <<sock, fd>>

InRecv(s) == HandlerAt(s, "blocked") \/ HandlerAt(s, "astray")

\* Data arrives, or a signal, and the loop goes on.
RecvGoesOn(s) ==
    /\ InRecv(s)
    /\ HandlerMoves(s, "check")
    /\ Load(s, NoFd)
    /\ UNCHANGED sock

\* The peer closes, an error occurs, or the callback throws.
RecvEnds(s) ==
    /\ InRecv(s)
    /\ HandlerMoves(s, "take")
    /\ UNCHANGED <<sock, fd>>

\* recv returns on a socket that was shut down under it.
RecvIsShut(s) ==
    /\ HandlerAt(s, "shut")
    /\ HandlerMoves(s, "take")
    /\ UNCHANGED <<sock, fd>>

HandlerTakes(s) ==
    /\ HandlerAt(s, "take")
    /\ TakeClient(s, s)
    /\ HandlerMoves(s, "close")

\* The socket is closed and the session completed.
HandlerCloses(s) ==
    /\ HandlerAt(s, "close")
    /\ CloseTaken(s)
    /\ stage' = AfterClose(s)
    /\ UNCHANGED <<vars, m_serverSocket, m_clients, lock, sock, hook, mine>>

HandlerStep(s) ==
    \/ HandlerChecks(s) \/ HandlerLoads(s) \/ HandlerCallsRecv(s) \/ RecvIsShut(s)
    \/ HandlerTakes(s) \/ HandlerCloses(s)

-----------------------------------------------------------------------------
\* The steps of the base class that the server does not refine.
BasePart ==
    /\ \/ \E c \in Callers, o \in Operations : Begin(c, o)
       \/ \E c \in Callers : pc[c] # "dismantle" /\ CallerStep(c)
       \/ \E p \in Procs : RequestStopStep(p)
       \/ \E t \in Threads : RunnerStep(t)
    /\ UNCHANGED serverVars

ServerTerminated == ~Exists /\ UNCHANGED allVars

ServerNext ==
    \/ BasePart
    \/ \E t \in Threads : PreRunStep(t) \/ RunStep(t) \/ AcceptReturns(t)
    \/ \E p \in Procs : HookStep(p)
    \/ \E s \in Sessions : HandlerStep(s) \/ RecvGoesOn(s) \/ RecvEnds(s)
    \/ \E c \in Callers : DrainStep(c) \/ DestructorEnds(c)
    \/ OtherOpens
    \/ ServerTerminated

ServerSpec == ServerInit /\ [][ServerNext]_allVars

\* Threads are scheduled fairly, timeouts expire and the callback returns; who
\* waits for m_clientsMutex gets it although others keep coming.  No peer need
\* ever connect, send or close.
ServerFairness ==
    /\ \A c \in Callers :
          /\ WF_allVars((CallerStep(c) /\ UNCHANGED serverVars) \/ DrainStep(c) \/ DestructorEnds(c))
          /\ WF_allVars((WaitForStartTimesOut(c) \/ WaitForStoppedTimesOut(c)) /\ UNCHANGED serverVars)
          /\ SF_allVars(HookStep(c))
    /\ \A p \in Procs : WF_allVars(RequestStopStep(p) /\ UNCHANGED serverVars)
    /\ \A t \in Threads :
          /\ WF_allVars(RunnerStep(t) /\ UNCHANGED serverVars)
          /\ SF_allVars(PreRunStep(t) \/ RunStep(t) \/ HookStep(t))
    /\ \A s \in Sessions : WF_allVars(HandlerStep(s))

FairServerSpec == ServerSpec /\ ServerFairness

-----------------------------------------------------------------------------
\* The thread of the session exists.
Handled(s) == hpc[s] \notin {"unborn", "joined"}

\* The process or handler is about to close the descriptor in its local variable.
Closing(x) ==
    /\ fd[x] # NoFd
    /\ CASE x \in Sessions -> hpc[x] = "close"
         [] x \in Procs -> \/ rs[x] = "hook" /\ hook[x] \in {"closeServer", "closeClient"}
                           \/ x \in Threads \cup Callers
                              /\ stage[x] \in {"failClose", "drainClose", "lastClose", "refuse"}

\* Stops, the handler itself, the drain of run(), a refused session, a failed start
\* and the destructor all close sockets: a descriptor is closed by one of them only,
\* while it is the server's and no longer to be found in m_serverSocket or a session.
\* The exception is a session whose thread cannot be created: its number is closed
\* twice, and the second close may hit a descriptor that the application has opened
\* under it since, but never one of the server's own.
ServerClosesOnce ==
    /\ \A x \in Procs \cup Sessions : Closing(x) =>
          /\ owner[fd[x]] \in {"socket", "listener", "client"}
          /\ m_serverSocket # fd[x]
          /\ \A s \in Sessions : sock[s] # fd[x]
          /\ \A y \in (Procs \cup Sessions) \ {x} : Closing(y) => fd[y] # fd[x]
    /\ \A t \in Threads : stage[t] = "closeAgain" => owner[fd[t]] \in {"free", "other"}

\* A handler uses its ClientSession, and a std::thread must be joined before it
\* is destroyed: the session of an executing handler is in m_clients or in the
\* local list of a process that is going to join the handler.
HandlersAreOwned ==
    \A s \in Sessions : Handled(s) =>
        s \in m_clients \/ \E p \in Procs : s \in mine[p]

\* A stopped server serves nobody: every handler has been joined, or is being
\* joined by the destructor, and every connection is closed or about to be.
StoppedServesNobody ==
    m_state = "Stopped" /\ Exists =>
        /\ m_clients = {}
        /\ \A s \in Sessions : Handled(s) => \E c \in Callers : s \in mine[c]
        /\ \A f \in Fds : owner[f] = "client" =>
              \/ \E x \in Procs \cup Sessions : Closing(x) /\ fd[x] = f
              \/ \E s \in Sessions : Handled(s) /\ sock[s] = f

\* The server is a cBaseWorker_V2: everything it does is what BaseWorker allows,
\* so all results about BaseWorker hold for it.
ImplementsBaseWorker == Spec

\* A server asked to stop stops, even with peers that stay connected and silent
\* and peers that connect during the stop, unless it is destroyed first, or a thread
\* of it has gone astray: run() or a handler loaded a descriptor, and before it called
\* accept or recv a stop closed it and the application was given its number.
ServerStops ==
    m_state = "Stopping" ~> \/ m_state = "Stopped" \/ ~Exists
                            \/ \E t \in Threads : stage[t] = "astray"
                            \/ \E s \in Sessions : hpc[s] = "astray"
=============================================================================
