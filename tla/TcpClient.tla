----------------------------- MODULE TcpClient -----------------------------
(***************************************************************************)
(* TCPClient_V2 (cTCPClient_V2.h) on top of cBaseWorker_V2: the module     *)
(* extends BaseWorker and takes its open hooks apart.  preRun and run are  *)
(* executed by the worker thread, readLoop and writeLoop by two threads    *)
(* that run() creates and joins, stopTriggered by whoever requests a stop, *)
(* and send by Senders.                                                    *)
(*                                                                         *)
(* Descriptors are modelled with their reuse: a number that was closed may *)
(* be given to the application (Others), and a system call acts on         *)
(* whatever the number stands for when the call is made.                   *)
(***************************************************************************)
EXTENDS BaseWorker, Integers

CONSTANTS Reader, Writer,  \* the threads of readLoop and writeLoop
          Senders,         \* application threads that call send
          Fds,             \* the descriptors the process may open
          MaxOutbound,     \* bound: the length of the outbound queue
          Others           \* may the application open descriptors of its own?

ASSUME ClientAssumption ==
    /\ Reader # Writer
    /\ Helpers = {Reader, Writer}
    /\ Fds \subseteq Nat
    /\ MaxOutbound \in Nat
    /\ Others \in BOOLEAN

NoFd == -1

VARIABLES m_socket,
          outbound,    \* the length of m_outboundQueue
          owner,       \* to whom a descriptor belongs
          opener,      \* the worker thread that opened it last, if any
          fd,          \* the local variable socketFd of a process
          stage,       \* where in preRun or run a worker thread is
          hook,        \* where in stopTriggered a process is
          rpc, wpc,    \* where in readLoop and writeLoop the threads are
          spc,         \* where in send a sender is
          served       \* the worker threads that started readLoop and writeLoop

clientVars == <<m_socket, outbound, owner, opener, fd, stage, hook, rpc, wpc, spc, served>>
allVars == <<vars, clientVars>>

ClientTypeOK ==
    /\ m_socket \in Fds \cup {NoFd}
    /\ outbound \in 0..MaxOutbound
    /\ owner \in [Fds -> {"free", "client", "other"}]
    /\ opener \in [Fds -> Threads \cup {NoThread}]
    /\ fd \in [Procs -> Fds \cup {NoFd}]
    /\ stage \in [Threads -> {"clear", "socket", "store", "connect", "failed", "failClose",
                              "spawn", "joinReader", "notify", "joinWriter"}]
    /\ hook \in [Procs -> {"exchange", "close", "clear", "notify", "return"}]
    /\ rpc \in {"off", "check", "load", "recv", "blocked", "astray", "stop", "done"}
    /\ wpc \in {"off", "check", "wait", "willSleep", "asleep", "load", "send", "blocked",
                "astray", "stop", "done", "killed"}
    /\ spc \in [Senders -> {"idle", "push", "notify"}]
    /\ served \subseteq Threads

ClientInit ==
    /\ Init
    /\ m_socket = NoFd
    /\ outbound = 0
    /\ owner = [f \in Fds |-> "free"]
    /\ opener = [f \in Fds |-> NoThread]
    /\ fd = [p \in Procs |-> NoFd]
    /\ stage = [t \in Threads |-> "clear"]
    /\ hook = [p \in Procs |-> "exchange"]
    /\ rpc = "off"
    /\ wpc = "off"
    /\ spc = [s \in Senders |-> "idle"]
    /\ served = {}

-----------------------------------------------------------------------------
(* Descriptors and the outbound queue.                                     *)

\* The derived part of the object exists; afterwards its members are gone and
\* what a hook still does is undefined and not followed.
Exists == object = "alive"

Free == {f \in Fds : owner[f] = "free"}

\* The local variable goes out of scope.
Forget(p) == fd' = [fd EXCEPT ![p] = NoFd]

\* Where a recv or send on f leads: it blocks on what f stands for now, whatever
\* becomes of the number later, and fails if f is closed.
AfterCall(f) == CASE owner[f] = "client" -> "blocked"
                  [] owner[f] = "other" -> "astray"
                  [] OTHER -> "stop"

\* Mutant: the descriptor is read and not exchanged.
TakeSocketByLoad(p) ==
    /\ fd' = [fd EXCEPT ![p] = m_socket]
    /\ UNCHANGED m_socket

\* closeSocket: m_socket.exchange(-1) ...
TakeSocket(p) ==
    /\ fd' = [fd EXCEPT ![p] = m_socket]
    /\ m_socket' = NoFd

\* Mutant: the descriptor is dropped without being closed.
CloseTakenForgets(p) ==
    /\ Forget(p)
    /\ UNCHANGED owner

\* ... and shutdown and close of what was in it.
CloseTaken(p) ==
    /\ Forget(p)
    /\ owner' = [f \in Fds |-> IF f = fd[p] THEN "free" ELSE owner[f]]

\* m_outboundMutex is held while the writer goes to sleep.
OutboundUnlocked == wpc # "willSleep"

NotifyWriter == wpc' = IF wpc = "asleep" THEN "wait" ELSE wpc

\* The application opens a descriptor: the lowest free one, as POSIX has it.
OtherOpens ==
    /\ Others
    /\ \E f \in Free : /\ \A g \in Free : f <= g
                       /\ owner' = [owner EXCEPT ![f] = "other"]
    /\ UNCHANGED <<vars, m_socket, outbound, opener, fd, stage, hook, rpc, wpc, spc, served>>

-----------------------------------------------------------------------------
(* preRun                                                                  *)

StageGoto(t, loc) == stage' = [stage EXCEPT ![t] = loc]

InPreRun(t, loc) == ThreadAt(t, "preRun") /\ stage[t] = loc /\ Exists

ClearOutbound(t) ==
    /\ InPreRun(t, "clear")
    /\ OutboundUnlocked
    /\ outbound' = 0
    /\ StageGoto(t, "socket")
    /\ UNCHANGED <<vars, m_socket, owner, opener, fd, hook, rpc, wpc, spc, served>>

OpenSocket(t) ==
    /\ InPreRun(t, "socket")
    /\ \E f \in Free :
          /\ \A g \in Free : f <= g
          /\ owner' = [owner EXCEPT ![f] = "client"]
          /\ opener' = [opener EXCEPT ![f] = t]
          /\ fd' = [fd EXCEPT ![t] = f]
    /\ StageGoto(t, "store")
    /\ UNCHANGED <<vars, m_socket, outbound, hook, rpc, wpc, spc, served>>

NoSocket(t) ==
    /\ InPreRun(t, "socket")
    /\ PreRunReturns(t, FALSE)
    /\ UNCHANGED clientVars

StoreSocket(t) ==
    /\ InPreRun(t, "store")
    /\ m_socket' = fd[t]
    /\ StageGoto(t, "connect")
    /\ UNCHANGED <<vars, outbound, owner, opener, fd, hook, rpc, wpc, spc, served>>

\* connect succeeds only on a socket that is still open.
Connected(t) ==
    /\ InPreRun(t, "connect")
    /\ owner[fd[t]] = "client"
    /\ PreRunReturns(t, TRUE)
    /\ StageGoto(t, "spawn")
    /\ Forget(t)
    /\ UNCHANGED <<m_socket, outbound, owner, opener, hook, rpc, wpc, spc, served>>

\* The address is no address, or connect fails, for any reason.
NotConnected(t) ==
    /\ InPreRun(t, "connect")
    /\ StageGoto(t, "failed")
    /\ UNCHANGED <<vars, m_socket, outbound, owner, opener, fd, hook, rpc, wpc, spc, served>>

FailedTakesSocket(t) ==
    /\ InPreRun(t, "failed")
    /\ TakeSocket(t)
    /\ StageGoto(t, "failClose")
    /\ UNCHANGED <<vars, outbound, owner, opener, hook, rpc, wpc, spc, served>>

FailedCloses(t) ==
    /\ InPreRun(t, "failClose")
    /\ CloseTaken(t)
    /\ PreRunReturns(t, FALSE)
    /\ UNCHANGED <<m_socket, outbound, opener, stage, hook, rpc, wpc, spc, served>>

PreRunStep(t) ==
    \/ ClearOutbound(t) \/ OpenSocket(t) \/ NoSocket(t) \/ StoreSocket(t)
    \/ Connected(t) \/ NotConnected(t) \/ FailedTakesSocket(t) \/ FailedCloses(t)

-----------------------------------------------------------------------------
(* run                                                                     *)

InRunAt(t, loc) == ThreadAt(t, "run") /\ stage[t] = loc /\ Exists

SpawnLoops(t) ==
    /\ InRunAt(t, "spawn")
    /\ rpc' = "check"
    /\ wpc' = "check"
    /\ served' = served \cup {t}
    /\ StageGoto(t, "joinReader")
    /\ UNCHANGED <<vars, m_socket, outbound, owner, opener, fd, hook, spc>>

\* The first std::thread constructor throws.
SpawnThrows(t) ==
    /\ InRunAt(t, "spawn")
    /\ HookThrows(t)
    /\ UNCHANGED clientVars

\* Mutant: run() relies on whoever stopped the reader.
JoinReaderQuietly(t) ==
    /\ InRunAt(t, "joinReader")
    /\ rpc = "done"
    /\ rs[Reader] = "off"
    /\ StageGoto(t, "notify")
    /\ UNCHANGED <<vars, m_socket, outbound, owner, opener, fd, hook, rpc, wpc, spc, served>>

\* readThread.join() returns, and run() requests a stop itself.
JoinReader(t) ==
    /\ InRunAt(t, "joinReader")
    /\ rpc = "done"
    /\ rs[Reader] = "off"
    /\ Retire(t)
    /\ StageGoto(t, "notify")
    /\ UNCHANGED <<m_socket, outbound, owner, opener, fd, hook, rpc, wpc, spc, served>>

RunNotifies(t) ==
    /\ InRunAt(t, "notify")
    /\ NotifyWriter
    /\ StageGoto(t, "joinWriter")
    /\ UNCHANGED <<vars, m_socket, outbound, owner, opener, fd, hook, rpc, spc, served>>

JoinWriter(t) ==
    /\ InRunAt(t, "joinWriter")
    /\ wpc = "done"
    /\ rs[Writer] = "off"
    /\ RunReturns(t)
    /\ rpc' = "off"
    /\ wpc' = "off"
    /\ UNCHANGED <<m_socket, outbound, owner, opener, fd, stage, hook, spc, served>>

RunStep(t) == SpawnLoops(t) \/ JoinReader(t) \/ RunNotifies(t) \/ JoinWriter(t)

-----------------------------------------------------------------------------
(* stopTriggered                                                           *)

HookAt(p, loc) == rs[p] = "hook" /\ hook[p] = loc /\ Exists

HookGoto(p, loc) == hook' = [hook EXCEPT ![p] = loc]

HookTakesSocket(p) ==
    /\ HookAt(p, "exchange")
    /\ TakeSocket(p)
    /\ HookGoto(p, "close")
    /\ UNCHANGED <<vars, outbound, owner, opener, stage, rpc, wpc, spc, served>>

HookCloses(p) ==
    /\ HookAt(p, "close")
    /\ CloseTaken(p)
    /\ HookGoto(p, "clear")
    /\ UNCHANGED <<vars, m_socket, outbound, opener, stage, rpc, wpc, spc, served>>

\* Mutant: the queue is left alone, and its mutex not taken.
HookSkipsClear(p) ==
    /\ HookAt(p, "clear")
    /\ HookGoto(p, "notify")
    /\ UNCHANGED <<vars, m_socket, outbound, owner, opener, fd, stage, rpc, wpc, spc, served>>

HookClears(p) ==
    /\ HookAt(p, "clear")
    /\ OutboundUnlocked
    /\ outbound' = 0
    /\ HookGoto(p, "notify")
    /\ UNCHANGED <<vars, m_socket, owner, opener, fd, stage, rpc, wpc, spc, served>>

HookNotifies(p) ==
    /\ HookAt(p, "notify")
    /\ NotifyWriter
    /\ HookGoto(p, "return")
    /\ UNCHANGED <<vars, m_socket, outbound, owner, opener, fd, stage, rpc, spc, served>>

HookReturns(p) ==
    /\ HookAt(p, "return")
    /\ StopTriggeredReturns(p)
    /\ HookGoto(p, "exchange")
    /\ UNCHANGED <<m_socket, outbound, owner, opener, fd, stage, rpc, wpc, spc, served>>

\* In the base destructor the hook is the base class's own, which is empty.
BaseHookReturns(p) ==
    /\ ~Exists
    /\ StopTriggeredReturns(p)
    /\ UNCHANGED clientVars

HookStep(p) ==
    \/ HookTakesSocket(p) \/ HookCloses(p) \/ HookClears(p)
    \/ HookNotifies(p) \/ HookReturns(p) \/ BaseHookReturns(p)

-----------------------------------------------------------------------------
(* readLoop                                                                *)

ReaderAt(loc) == rpc = loc /\ rs[Reader] = "off" /\ Exists

\* while (continueRunning())
ReaderChecks ==
    /\ ReaderAt("check")
    /\ rpc' = IF m_stopRequested THEN "done" ELSE "load"
    /\ UNCHANGED <<vars, m_socket, outbound, owner, opener, fd, stage, hook, wpc, spc, served>>

ReaderLoads ==
    /\ ReaderAt("load")
    /\ fd' = [fd EXCEPT ![Reader] = m_socket]
    /\ rpc' = IF m_socket = NoFd THEN "done" ELSE "recv"
    /\ UNCHANGED <<vars, m_socket, outbound, owner, opener, stage, hook, wpc, spc, served>>

\* recv is called: it blocks on an open descriptor and fails on a closed one.
ReaderCallsRecv ==
    /\ ReaderAt("recv")
    /\ rpc' = AfterCall(fd[Reader])
    /\ UNCHANGED <<vars, m_socket, outbound, owner, opener, fd, stage, hook, wpc, spc, served>>

\* The peer sends data, or a signal arrives: the loop goes on.
RecvGoesOn ==
    /\ ReaderAt("blocked") \/ ReaderAt("astray")
    /\ rpc' = "check"
    /\ Forget(Reader)
    /\ UNCHANGED <<vars, m_socket, outbound, owner, opener, stage, hook, wpc, spc, served>>

\* The peer closes, an error occurs, the callback throws, or the socket was
\* shut down under the call.
RecvEnds ==
    /\ ReaderAt("blocked") \/ ReaderAt("astray")
    /\ rpc' = "stop"
    /\ Forget(Reader)
    /\ UNCHANGED <<vars, m_socket, outbound, owner, opener, stage, hook, wpc, spc, served>>

ReaderStops ==
    /\ ReaderAt("stop")
    /\ HelperRequestsStop(Reader)
    /\ rpc' = "done"
    /\ UNCHANGED <<m_socket, outbound, owner, opener, fd, stage, hook, wpc, spc, served>>

-----------------------------------------------------------------------------
(* writeLoop                                                               *)

WriterAt(loc) == wpc = loc /\ rs[Writer] = "off" /\ Exists

WriterMoves(loc) ==
    /\ wpc' = loc
    /\ UNCHANGED <<vars, m_socket, owner, opener, stage, hook, rpc, spc, served>>

WriterChecks ==
    /\ WriterAt("check")
    /\ WriterMoves(IF m_stopRequested THEN "done" ELSE "wait")
    /\ UNCHANGED <<outbound, fd>>

\* Under m_outboundMutex: the predicate of wait, and what follows it.  The
\* mutex is kept until the thread sleeps.
WriterWaits ==
    /\ WriterAt("wait")
    /\ WriterMoves(CASE m_stopRequested -> "done"
                     [] ~m_stopRequested /\ outbound > 0 -> "load"
                     [] OTHER -> "willSleep")
    /\ outbound' = IF ~m_stopRequested /\ outbound > 0 THEN outbound - 1 ELSE outbound
    /\ UNCHANGED <<fd>>

WriterSleeps ==
    /\ WriterAt("willSleep")
    /\ WriterMoves("asleep")
    /\ UNCHANGED <<outbound, fd>>

\* sendAll: one iteration loads the descriptor and calls send on it.
WriterLoads ==
    /\ WriterAt("load")
    /\ fd' = [fd EXCEPT ![Writer] = m_socket]
    /\ WriterMoves(IF m_socket = NoFd THEN "stop" ELSE "send")
    /\ UNCHANGED outbound

WriterCallsSend ==
    /\ WriterAt("send")
    /\ WriterMoves(AfterCall(fd[Writer]))
    /\ UNCHANGED <<outbound, fd>>

\* All is sent and the outer loop goes on; a part is sent, or a signal arrived.
SendGoesOn ==
    /\ WriterAt("blocked") \/ WriterAt("astray")
    /\ WriterMoves("check") \/ WriterMoves("load")
    /\ Forget(Writer)
    /\ UNCHANGED outbound

\* The peer closes, an error occurs, or the socket was shut down under the call: an
\* error, if the application ignores SIGPIPE.
SendFails ==
    /\ WriterAt("blocked") \/ WriterAt("astray")
    /\ WriterMoves("stop")
    /\ Forget(Writer)
    /\ UNCHANGED outbound

\* send was called without MSG_NOSIGNAL, and an application that lets SIGPIPE be is
\* ended by it: as the peer resets the connection, or a stop shuts it down.
BrokenPipe ==
    /\ WriterAt("blocked") \/ WriterAt("astray")
    /\ WriterMoves("killed")
    /\ UNCHANGED <<outbound, fd>>

WriterStops ==
    /\ WriterAt("stop")
    /\ HelperRequestsStop(Writer)
    /\ wpc' = "done"
    /\ UNCHANGED <<m_socket, outbound, owner, opener, fd, stage, hook, rpc, spc, served>>

-----------------------------------------------------------------------------
(* send                                                                    *)

SendChecks(s) ==
    /\ Exists
    /\ spc[s] = "idle"
    /\ m_state \in {"Starting", "Running"}
    /\ spc' = [spc EXCEPT ![s] = "push"]
    /\ UNCHANGED <<vars, m_socket, outbound, owner, opener, fd, stage, hook, rpc, wpc, served>>

SendPushes(s) ==
    /\ spc[s] = "push"
    /\ OutboundUnlocked
    /\ outbound < MaxOutbound
    /\ outbound' = outbound + 1
    /\ spc' = [spc EXCEPT ![s] = "notify"]
    /\ UNCHANGED <<vars, m_socket, owner, opener, fd, stage, hook, rpc, wpc, served>>

SendNotifies(s) ==
    /\ spc[s] = "notify"
    /\ NotifyWriter
    /\ spc' = [spc EXCEPT ![s] = "idle"]
    /\ UNCHANGED <<vars, m_socket, outbound, owner, opener, fd, stage, hook, rpc, served>>

-----------------------------------------------------------------------------
(* The destructor: stopThread, closeSocket, clearOutboundQueue, then the   *)
(* base destructor.                                                        *)

DestructorTakesSocket(c) ==
    /\ At(c, "dismantle")
    /\ hook[c] = "exchange"
    /\ TakeSocket(c)
    /\ HookGoto(c, "close")
    /\ UNCHANGED <<vars, outbound, owner, opener, stage, rpc, wpc, spc, served>>

DestructorCloses(c) ==
    /\ At(c, "dismantle")
    /\ hook[c] = "close"
    /\ OutboundUnlocked
    /\ CloseTaken(c)
    /\ HookGoto(c, "exchange")
    /\ outbound' = 0
    /\ Dismantle(c)
    /\ UNCHANGED <<m_socket, opener, stage, rpc, wpc, spc, served>>

\* Nobody may call send on an object that is being destroyed.
SendsDone == \A s \in Senders : spc[s] = "idle"

-----------------------------------------------------------------------------
\* The steps of the base class that the client does not refine.
BasePart ==
    /\ \/ \E c \in Callers, o \in Operations : Begin(c, o) /\ (o = "destroy" => SendsDone)
       \/ \E c \in Callers : pc[c] # "dismantle" /\ CallerStep(c)
       \/ \E p \in Procs : RequestStopStep(p)
       \/ \E t \in Threads : RunnerStep(t)
    /\ UNCHANGED clientVars

ReaderStep ==
    \/ ReaderChecks \/ ReaderLoads \/ ReaderCallsRecv \/ ReaderStops

WriterStep ==
    \/ WriterChecks \/ WriterWaits \/ WriterSleeps \/ WriterLoads \/ WriterCallsSend
    \/ WriterStops

\* A step of the process, as long as no signal has ended it.
InProcess(A) == wpc # "killed" /\ A

ClientTerminated == (~Exists \/ wpc = "killed") /\ UNCHANGED allVars

ClientStep ==
    \/ BasePart
    \/ \E t \in Threads : PreRunStep(t) \/ RunStep(t) \/ SpawnThrows(t)
    \/ \E p \in Procs : HookStep(p)
    \/ ReaderStep \/ RecvGoesOn \/ RecvEnds
    \/ WriterStep \/ SendGoesOn \/ SendFails \/ BrokenPipe
    \/ \E s \in Senders : (SendChecks(s) /\ \A c \in Callers : op[c] # "destroy")
                          \/ SendPushes(s) \/ SendNotifies(s)
    \/ \E c \in Callers : DestructorTakesSocket(c) \/ DestructorCloses(c)
    \/ OtherOpens

ClientNext == InProcess(ClientStep) \/ ClientTerminated

ClientSpec == ClientInit /\ [][ClientNext]_allVars

\* Threads are scheduled fairly, timeouts expire, connect and the callback
\* return, and a recv or send that is blocked on a socket of the client returns
\* once the socket is shut down (the send with an error or with the signal that ends
\* the process, after which nothing is asked of it).  A peer need not ever send or close.
ClientFairness ==
    /\ \A c \in Callers :
          /\ WF_allVars(InProcess((CallerStep(c) /\ UNCHANGED clientVars)
                                  \/ DestructorTakesSocket(c) \/ DestructorCloses(c)))
          /\ SF_allVars(InProcess((WaitForStartTimesOut(c) \/ WaitForStoppedTimesOut(c))
                                  /\ UNCHANGED clientVars))
    /\ \A p \in Procs :
          WF_allVars(InProcess((RequestStopStep(p) /\ UNCHANGED clientVars) \/ HookStep(p)))
    /\ \A t \in Threads :
          /\ WF_allVars(InProcess(RunnerStep(t) /\ UNCHANGED clientVars))
          /\ WF_allVars(InProcess(PreRunStep(t) \/ RunStep(t)))
    /\ WF_allVars(InProcess(ReaderStep))
    /\ WF_allVars(InProcess(rpc = "blocked" /\ owner[fd[Reader]] # "client" /\ RecvEnds))
    /\ WF_allVars(InProcess(WriterStep))
    /\ WF_allVars(wpc = "blocked" /\ owner[fd[Writer]] # "client" /\ (SendFails \/ BrokenPipe))
    /\ \A s \in Senders : WF_allVars(InProcess(SendPushes(s) \/ SendNotifies(s)))

FairClientSpec == ClientSpec /\ ClientFairness

-----------------------------------------------------------------------------
\* The process is about to close the descriptor in its local variable.
Closing(p) ==
    /\ fd[p] # NoFd
    /\ \/ rs[p] = "hook" /\ hook[p] = "close"
       \/ p \in Threads /\ tpc[p] = "preRun" /\ stage[p] = "failClose"
       \/ p \in Callers /\ pc[p] = "dismantle" /\ hook[p] = "close"

\* However stops, failed connects, restarts and the destructor overlap, close is
\* called once for a descriptor and never on a number that has been given to
\* someone else.
ClosesOwnOnce ==
    \A p \in Procs : Closing(p) =>
        /\ owner[fd[p]] = "client"
        /\ m_socket # fd[p]
        /\ \A q \in Procs \ {p} : Closing(q) => fd[q] # fd[p]

\* A run() that started its loops leaves nothing behind: once its thread has
\* announced Stopped both loops have been joined, and the socket is closed or in
\* the hands of a process that is closing it.  (A start that is stopped before
\* run(), or whose loops cannot be created, does leave its socket open.)
RunLeavesNothing ==
    /\ m_state = "Stopped" /\ Exists => rpc = "off" /\ wpc = "off"
    /\ \A f \in Fds :
          owner[f] = "client" /\ opener[f] \in served /\ ~Live(opener[f])
          => \E p \in Procs : Closing(p) /\ fd[p] = f

\* m_stopRequested is raised outside m_outboundMutex, and still the writer never
\* sleeps through it: while it sleeps with the flag raised or a message queued,
\* a notification is due.
WriterIsWoken ==
    wpc = "asleep" /\ (m_stopRequested \/ outbound > 0) /\ Exists =>
        \/ \E p \in Procs : rs[p] \in {"notifyHook", "hook"} /\ hook[p] # "return"
        \/ \E s \in Senders : spc[s] = "notify"

\* The client is a cBaseWorker_V2: everything it does is what BaseWorker allows,
\* so all results about BaseWorker hold for it.
ImplementsBaseWorker == Spec

\* A shutdown is cooperative (cBaseWorker_V2.h:11): a client asked to stop stops,
\* even if its peer is silent, unless it is destroyed first, or one of its loops has
\* gone astray: it loaded the descriptor, and before it called recv or send a stop
\* closed it and the rest of the application was given its number.  A writer whose
\* send is under way when the socket breaks or is shut down may instead end the whole
\* process by SIGPIPE: then nothing stops any more.
ClientStops ==
    m_state = "Stopping" ~> \/ m_state = "Stopped" \/ ~Exists
                            \/ "astray" \in {rpc, wpc} \/ wpc = "killed"
=============================================================================
