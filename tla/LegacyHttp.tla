----------------------------- MODULE LegacyHttp -----------------------------
(***************************************************************************)
(* The life cycle of cHTTPSServer (cHTTPSServer.cpp); cHTTPServer has the  *)
(* same text without the certificates.  The base class takes part by its   *)
(* contract, WorkerContract, which BaseWorker implements: the steps of the *)
(* worker that the contract tells apart are the contract's actions, with   *)
(* the flag m_stopRequested beside them.                                   *)
(*                                                                         *)
(* An attempt names the worker thread of one startThread and the           *)
(* Simple-Web-Server object that its preRun makes.  A step is one critical *)
(* section of m_impl->mutex, one call of the library, or one step of the   *)
(* contract.  What HttpExchange says of the handlers is left out here.     *)
(***************************************************************************)
EXTENDS Naturals

CONSTANTS Callers,   \* application threads
          Attempts,  \* bound: the successful starts
          NoServer,  \* the value of a null m_impl->server
          Changes    \* what the setters are called with: functions on some settings

ASSUME LegacyAssumption == NoServer \notin Attempts /\ Attempts \cap Callers = {}

\* setCertificateFiles sets a certificate together with its key, under one name here;
\* no other setter touches either.
ASSUME PairAssumption ==
    \A change \in Changes :
        \/ {"cert", "key"} \cap DOMAIN change = {}
        \/ {"cert", "key"} \subseteq DOMAIN change /\ change["cert"] = change["key"]

VARIABLES state, entering, running, leaving,  \* the base class (WorkerContract)
          m_stopRequested,
          tried,      \* the attempts made
          at,         \* where in its hooks the worker thread is
          config,     \* the settings in m_impl
          copied,     \* preRun's copy of the settings
          made,       \* what the server of the attempt was made with
          server,     \* m_impl->server, by the attempt that made it
          lib,        \* the library's servers
          start,      \* startResolved and startSucceeded
          cpc,        \* where a caller is
          arg,        \* the setter's argument, or stopTriggered's copy of the pointer
          object,     \* is the server object alive, in its destructor, or gone?
          heard,      \* ghost: the announcement came during the caller's startThread
          early,      \* ghost: servers on which stop() was called before start()
          ended,      \* ghost: servers that a stop() reached, or that failed
          excused     \* ghost: a setter had passed its check when the attempt began

baseVars == <<state, entering, running, leaving>>
startVars == <<start, heard>>
serverVars == <<server, lib, made>>
callerVars == <<cpc, arg>>
ghostVars == <<early, ended, excused>>
legacyVars == <<baseVars, m_stopRequested, tried, at, config, copied, serverVars, startVars,
                callerVars, object, ghostVars>>

\* A start that creates no thread is an attempt of the caller's.
Worker == INSTANCE WorkerContract WITH Attempts <- Attempts \cup Callers

\* No certificates, and one thread, as the constructor's defaults have it.
NoSettings == [cert |-> "", key |-> "", pool |-> 1]

Active == entering \cup running \cup leaving

LegacyInit ==
    /\ Worker!ContractInit
    /\ m_stopRequested = FALSE
    /\ tried = {}
    /\ at = "off"
    /\ config = NoSettings /\ copied = NoSettings /\ made = NoSettings
    /\ server = NoServer
    /\ lib = [a \in Attempts |-> "none"]
    /\ start = "pending"
    /\ cpc = [c \in Callers |-> "idle"]
    /\ arg = [c \in Callers |-> NoServer]
    /\ object = "alive"
    /\ heard = [c \in Callers |-> FALSE]
    /\ early = {} /\ ended = {} /\ excused = FALSE

-----------------------------------------------------------------------------
(* The callers.                                                            *)

CallerAt(c, loc) == cpc[c] = loc

Goto(c, loc) == cpc' = [cpc EXCEPT ![c] = loc]

\* Mutant: the outcome of the last attempt is kept.
resetNothing == UNCHANGED start

resetStartState == start' = "pending"

\* resolveStartIfPending: the first outcome counts.
resolveStartIfPending(success) ==
    IF start = "pending"
    THEN /\ start' = IF success THEN "succeeded" ELSE "failed"
         /\ heard' = [c \in Callers |-> heard[c] \/ (success /\ cpc[c] \in {"base", "wait"})]
    ELSE UNCHANGED startVars

StartThread(c) ==
    /\ CallerAt(c, "idle") /\ object = "alive"
    /\ resetStartState
    /\ Goto(c, "base")
    /\ UNCHANGED <<baseVars, m_stopRequested, tried, at, config, copied, serverVars, heard, arg,
                   object, ghostVars>>

StartReturns(c) ==
    /\ Goto(c, "idle")
    /\ heard' = [heard EXCEPT ![c] = FALSE]

\* The base class refuses ...
StartRefused(c) ==
    /\ CallerAt(c, "base") /\ state # "Stopped"
    /\ StartReturns(c)
    /\ UNCHANGED <<baseVars, m_stopRequested, tried, at, config, copied, serverVars, start, arg,
                   object, ghostVars>>

Tries(c) ==
    /\ CallerAt(c, "base")
    /\ m_stopRequested' = FALSE
    /\ excused' = \E d \in Callers : CallerAt(d, "set")
    /\ UNCHANGED <<config, copied, serverVars, start, arg, object, early, ended>>

\* ... or begins an attempt ...
StartBegins(c, a) ==
    /\ Tries(c) /\ a \notin tried
    /\ tried' = tried \cup {a}
    /\ Worker!Claim(a)
    /\ at' = "copy"
    /\ Goto(c, "wait")
    /\ UNCHANGED heard

\* ... or fails to create the thread.
StartFails(c) ==
    /\ Tries(c)
    /\ Worker!ClaimInVain(c)
    /\ at' = "finish"
    /\ StartReturns(c)
    /\ UNCHANGED tried

\* waitUntilListening: the start is resolved, or the timeout expires.
WaitUntilListening(c) ==
    /\ CallerAt(c, "wait")
    /\ StartReturns(c)
    /\ UNCHANGED <<baseVars, m_stopRequested, tried, at, config, copied, serverVars, start, arg,
                   object, ghostVars>>

\* A setter: refused while isRunning(), which is asked before the lock is taken ...
Set(c, change) ==
    /\ CallerAt(c, "idle") /\ object = "alive"
    /\ state \notin {"Starting", "Running"}
    /\ Goto(c, "set")
    /\ arg' = [arg EXCEPT ![c] = change]
    /\ UNCHANGED <<baseVars, m_stopRequested, tried, at, config, copied, serverVars, startVars,
                   object, ghostVars>>

\* A pool of no threads is one of one thread.
Normalized(setting, value) == IF setting = "pool" /\ value = 0 THEN 1 ELSE value

\* ... and the critical section.
SetWrites(c) ==
    /\ CallerAt(c, "set")
    /\ config' = [f \in DOMAIN config |->
                    IF f \in DOMAIN arg[c] THEN Normalized(f, arg[c][f]) ELSE config[f]]
    /\ Goto(c, "idle")
    /\ arg' = [arg EXCEPT ![c] = NoServer]
    /\ UNCHANGED <<baseVars, m_stopRequested, tried, at, copied, serverVars, startVars, object,
                   ghostVars>>

\* requestStop; the destructor begins with one and needs the object for itself.
RequestStop(c, destroy) ==
    /\ CallerAt(c, "idle") /\ object = "alive"
    /\ destroy => \A d \in Callers : CallerAt(d, "idle")
    /\ object' = IF destroy THEN "dying" ELSE object
    /\ m_stopRequested' = TRUE
    /\ IF state \in {"Starting", "Running"} THEN Worker!AskToStop ELSE UNCHANGED baseVars
    /\ Goto(c, IF state = "Stopped" THEN "idle" ELSE "hook")
    /\ UNCHANGED <<tried, at, config, copied, serverVars, startVars, arg, ghostVars>>

\* Mutant: only a server that has announced itself is stopped.
HookReadsAnnounced(c) ==
    /\ CallerAt(c, "hook")
    /\ arg' = [arg EXCEPT ![c] = server]
    /\ Goto(c, IF server = NoServer \/ start # "succeeded" THEN "resolve" ELSE "stop")
    /\ UNCHANGED <<baseVars, m_stopRequested, tried, at, config, copied, serverVars, startVars,
                   object, ghostVars>>

\* stopTriggered: the pointer is copied ...
HookReads(c) ==
    /\ CallerAt(c, "hook")
    /\ arg' = [arg EXCEPT ![c] = server]
    /\ Goto(c, IF server = NoServer THEN "resolve" ELSE "stop")
    /\ UNCHANGED <<baseVars, m_stopRequested, tried, at, config, copied, serverVars, startVars,
                   object, ghostVars>>

\* Mutant: stopTriggered destroys the server, too.
HookDestroys(c) ==
    LET a == arg[c]
    IN /\ CallerAt(c, "stop")
       /\ lib' = [lib EXCEPT ![a] = "gone"]
       /\ server' = NoServer
       /\ Goto(c, "resolve")
       /\ UNCHANGED <<baseVars, m_stopRequested, tried, at, config, copied, made, startVars, arg,
                      object, ghostVars>>

\* ... stop() is called on what it points to, which does nothing before start() ...
HookStops(c) ==
    LET a == arg[c]
    IN /\ CallerAt(c, "stop")
       /\ lib' = [lib EXCEPT ![a] = IF @ = "listening" THEN "stopped" ELSE @]
       /\ early' = IF lib[a] = "made" THEN early \cup {a} ELSE early
       /\ ended' = IF lib[a] = "listening" THEN ended \cup {a} ELSE ended
       /\ Goto(c, "resolve")
       /\ UNCHANGED <<baseVars, m_stopRequested, tried, at, config, copied, server, made,
                      startVars, arg, object, excused>>

\* ... and a start that waits is told.
HookResolves(c) ==
    /\ CallerAt(c, "resolve")
    /\ resolveStartIfPending(FALSE)
    /\ Goto(c, "idle")
    /\ arg' = [arg EXCEPT ![c] = NoServer]
    /\ UNCHANGED <<baseVars, m_stopRequested, tried, at, config, copied, serverVars, object,
                   ghostVars>>

\* The destructor's stopThread() has returned, after Stopped or after its timeout;
\* the members are gone, and what the worker thread still does is not followed.
Destroyed ==
    /\ object = "dying" /\ \A c \in Callers : CallerAt(c, "idle")
    /\ object' = "gone"
    /\ UNCHANGED <<baseVars, m_stopRequested, tried, at, config, copied, serverVars, startVars,
                   callerVars, ghostVars>>

-----------------------------------------------------------------------------
(* preRun and run, on the worker thread of the attempt.                    *)

WorkerAt(a, loc) == a \in Active /\ at = loc /\ object # "gone"

\* What the worker's steps leave alone.
ByWorker == UNCHANGED <<m_stopRequested, tried, config, callerVars, object, early, excused>>

\* The hook returns or throws.
Leaves(a) == Worker!Leave(a) /\ at' = "finish"

\* preRun: the settings are copied; without certificates it gives up.
PreRunCopies(a) ==
    /\ WorkerAt(a, "copy")
    /\ IF config.cert = "" \/ config.key = ""
       THEN resolveStartIfPending(FALSE) /\ Leaves(a) /\ UNCHANGED copied
       ELSE at' = "make" /\ copied' = config /\ UNCHANGED <<startVars, baseVars>>
    /\ ByWorker /\ UNCHANGED <<serverVars, ended>>

\* Mutant: the certificate is read once more when the server is made.
MadeOf == [config EXCEPT !.cert = copied.cert]

\* The certificates are the copied ones, the other settings those of now.
MadeWith == [config EXCEPT !.cert = copied.cert, !.key = copied.key]

\* The server is made, in place of one that an earlier attempt left behind.
PreRunMakes(a) ==
    /\ WorkerAt(a, "make")
    /\ server' = a
    /\ lib' = [b \in Attempts |-> IF b = a THEN "made" ELSE IF b = server THEN "gone" ELSE lib[b]]
    /\ made' = MadeWith
    /\ copied' = NoSettings
    /\ at' = "install"
    /\ ByWorker /\ UNCHANGED <<baseVars, startVars, ended>>

PreRunInstalls(a) ==
    /\ WorkerAt(a, "install")
    /\ at' = "check"
    /\ ByWorker /\ UNCHANGED <<baseVars, copied, serverVars, startVars, ended>>

\* The server cannot be made, or a route is no regular expression.
PreRunThrows(a) ==
    /\ WorkerAt(a, "make") \/ WorkerAt(a, "install")
    /\ resolveStartIfPending(FALSE)
    /\ at' = "giveUp"
    /\ copied' = NoSettings
    /\ ByWorker /\ UNCHANGED <<baseVars, serverVars, ended>>

\* server.reset(), at the end of a preRun that failed and of a run that returned.
ServerReset ==
    /\ server' = NoServer
    /\ lib' = [b \in Attempts |-> IF b = server THEN "gone" ELSE lib[b]]
    /\ ended' = ended \cup ({server} \ {NoServer})
    /\ made' = NoSettings

PreRunGivesUp(a) ==
    /\ WorkerAt(a, "giveUp")
    /\ ServerReset
    /\ Leaves(a)
    /\ ByWorker /\ UNCHANGED <<copied, startVars>>

\* threadRunner: the flag is checked; an abandoned server stays where it is.
CheckStopRequested(a) ==
    /\ WorkerAt(a, "check")
    /\ IF m_stopRequested THEN Leaves(a) ELSE at' = "enter" /\ UNCHANGED baseVars
    /\ ByWorker /\ UNCHANGED <<copied, serverVars, startVars, ended>>

SetRunning(a) ==
    /\ WorkerAt(a, "enter")
    /\ Worker!Enter(a)
    /\ at' = "fetch"
    /\ ByWorker /\ UNCHANGED <<copied, serverVars, startVars, ended>>

\* run: the pointer is read.
RunFetches(a) ==
    /\ WorkerAt(a, "fetch")
    /\ IF server = NoServer
       THEN resolveStartIfPending(FALSE) /\ Leaves(a)
       ELSE at' = "bind" /\ UNCHANGED <<startVars, baseVars>>
    /\ ByWorker /\ UNCHANGED <<copied, serverVars, ended>>

\* server->start(): the port is bound, the callback posted ...
ServerStarts(a) ==
    /\ WorkerAt(a, "bind")
    /\ lib' = [lib EXCEPT ![server] = "listening"]
    /\ at' = "listen"
    /\ ByWorker /\ UNCHANGED <<baseVars, copied, server, made, startVars, ended>>

\* ... the callback announces the port, unless stop() was faster ...
Announces(a) ==
    /\ WorkerAt(a, "listen") /\ lib[server] = "listening"
    /\ resolveStartIfPending(TRUE)
    /\ at' = "serve"
    /\ ByWorker /\ UNCHANGED <<baseVars, copied, serverVars, ended>>

\* ... and start() returns after stop() ...
ServerStops(a) ==
    /\ WorkerAt(a, "listen") \/ WorkerAt(a, "serve")
    /\ lib[server] = "stopped"
    /\ at' = "conclude"
    /\ ByWorker /\ UNCHANGED <<baseVars, copied, serverVars, startVars, ended>>

\* ... or throws: the port is taken, or an error handler throws.  The server stays.
RunThrows(a) ==
    /\ \E loc \in {"bind", "listen", "serve"} : WorkerAt(a, loc)
    /\ resolveStartIfPending(FALSE)
    /\ ended' = ended \cup {server}
    /\ Leaves(a)
    /\ ByWorker /\ UNCHANGED <<copied, serverVars>>

RunConcludes(a) ==
    /\ WorkerAt(a, "conclude")
    /\ resolveStartIfPending(FALSE)
    /\ at' = "reset"
    /\ ByWorker /\ UNCHANGED <<baseVars, copied, serverVars, ended>>

RunResets(a) ==
    /\ WorkerAt(a, "reset")
    /\ ServerReset
    /\ Leaves(a)
    /\ ByWorker /\ UNCHANGED <<copied, startVars>>

\* Stopped is announced.
Finishes(a) ==
    /\ WorkerAt(a, "finish")
    /\ Worker!Finish(a)
    /\ at' = "off"
    /\ ByWorker /\ UNCHANGED <<copied, serverVars, startVars, ended>>

-----------------------------------------------------------------------------
CallerStep(c) ==
    \/ StartRefused(c) \/ WaitUntilListening(c) \/ SetWrites(c)
    \/ HookReads(c) \/ HookStops(c) \/ HookResolves(c)
    \/ StartFails(c) \/ \E a \in Attempts : StartBegins(c, a)

WorkerStep(a) ==
    \/ PreRunCopies(a) \/ PreRunMakes(a) \/ PreRunInstalls(a) \/ PreRunGivesUp(a)
    \/ CheckStopRequested(a) \/ SetRunning(a) \/ RunFetches(a) \/ ServerStarts(a) \/ Announces(a)
    \/ ServerStops(a) \/ RunConcludes(a) \/ RunResets(a)

LegacyNext ==
    \/ \E c \in Callers :
          \/ CallerStep(c) \/ StartThread(c)
          \/ \E destroy \in BOOLEAN : RequestStop(c, destroy)
          \/ \E change \in Changes : Set(c, change)
    \/ \E a \in Attempts : WorkerStep(a) \/ PreRunThrows(a) \/ RunThrows(a)
    \/ \E a \in Attempts \cup Callers : Finishes(a)
    \/ Destroyed
    \/ object = "gone" /\ UNCHANGED legacyVars

LegacySpec == LegacyInit /\ [][LegacyNext]_legacyVars

-----------------------------------------------------------------------------
\* A caller that waits in startThread and finds success was told so of an
\* announcement made since its call began: neither the outcome of an earlier
\* attempt nor one that a stop has decided is taken for it.
LegacyStartIsHonest ==
    \A c \in Callers : CallerAt(c, "wait") /\ start = "succeeded" => heard[c]

\* stopTriggered calls stop() through a pointer it copied before.  The server is
\* still there while the attempt lasts, unless another stop() has reached it or it
\* failed by itself: one stop alone never meets a destroyed server.
StopsExistingServer ==
    \A c \in Callers :
        CallerAt(c, "stop") /\ arg[c] \in Active => lib[arg[c]] # "gone" \/ arg[c] \in ended

\* A server has a certificate and the key that was set along with it, and a running
\* one works with the settings that the getters return; unless a setter had asked
\* isRunning() before the start and wrote after it.
SettingsInForce ==
    /\ server # NoServer => made.cert = made.key /\ made.cert # ""
    /\ server # NoServer /\ state = "Running" /\ ~m_stopRequested /\ ~excused => made = config

\* A stop request reaches the server that listens: it was stopped, or a caller is on
\* its way to its stop(), or it was stopped after the flag was checked and before
\* start(), which the library ignores, so that run() blocks until the next stop.
StopIsDelivered ==
    m_stopRequested /\ server # NoServer /\ lib[server] = "listening" =>
        \/ server \in early
        \/ Active = {}
        \/ \E c \in Callers : CallerAt(c, "hook") \/ (CallerAt(c, "stop") /\ arg[c] = server)
=============================================================================
