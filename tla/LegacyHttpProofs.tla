--------------------------- MODULE LegacyHttpProofs ---------------------------
(***************************************************************************)
(* Proofs about cHTTPServer, cHTTPSServer and cHTTPClient: LegacyHttp, for *)
(* every number of callers and of starts, and HttpExchange, for every      *)
(* number of clients, holders of copies, requests, registrations and       *)
(* exchanges.                                                              *)
(*                                                                         *)
(* Of the servers is proved: that a start which reports success heard an   *)
(* announcement, that one stop alone never meets a destroyed server, that  *)
(* a stop request reaches the server that listens, and that a server works *)
(* with the settings in force. Each needs facts that its own statement     *)
(* leaves out: where the outcome of a start may already stand before its   *)
(* caller waits (HeardSinceCall), that a server belongs to an attempt made *)
(* earlier and is not replaced under its own attempt (ServerIsOurs), that  *)
(* a stop which comes between the check of the flag and start() is not yet *)
(* lost (PromiseBeforeStart), and that no setter is on its way while an    *)
(* undisturbed attempt lasts (SettingsStay).                               *)
(*                                                                         *)
(* What the copies of a cResponse and the lambda may do to an exchange is  *)
(* gathered in Sound, which every one of their steps keeps: an exchange    *)
(* that is not answered has a copy left whose destructor has not decided   *)
(* yet, unless two destructors have overlapped, and the last copy goes     *)
(* only when nobody writes.  What a client has received (Received) comes   *)
(* from an exchange that was sent, and such an exchange does not change    *)
(* any more.  ArrivalInv says that the routes are the registrations in     *)
(* force and that an exchange shows what its client has asked for.         *)
(***************************************************************************)
EXTENDS LegacyHttp, HttpExchange, FiniteSetTheorems, TLAPS

-----------------------------------------------------------------------------
(* The life cycle of the servers.                                          *)

LibStates == {"none", "made", "listening", "stopped", "gone"}

BaseTypes ==
    /\ state \in {"Stopped", "Starting", "Running", "Stopping"}
    /\ entering \in SUBSET (Attempts \cup Callers)
    /\ running \in SUBSET (Attempts \cup Callers)
    /\ leaving \in SUBSET (Attempts \cup Callers)

ServerTypes ==
    /\ tried \in SUBSET Attempts
    /\ server \in Attempts \cup {NoServer}
    /\ lib \in [Attempts -> LibStates]

Locations == {"idle", "base", "wait", "set", "hook", "stop", "resolve"}

CallerTypes ==
    /\ cpc \in [Callers -> Locations]
    /\ DOMAIN arg = Callers /\ DOMAIN heard = Callers
    /\ \A c \in Callers : cpc[c] = "stop" => arg[c] \in Attempts

LegacyTypes == BaseTypes /\ ServerTypes /\ CallerTypes

\* One attempt at a time, and Stopped is announced exactly between attempts.
OneAttempt ==
    /\ \A x, y \in Active : x = y
    /\ entering \cap running = {} /\ (entering \cup running) \cap leaving = {}
    /\ state = "Stopped" <=> Active = {}

\* The worker thread has not made its server yet, or has and not begun to listen.
BeforeMake == {"copy", "make"}
BeforeStart == {"install", "check", "enter", "fetch", "bind"}

\* The server is one that some attempt made and nobody destroyed; it is not the
\* running attempt's own before that attempt has made it.
ServerIsOurs ==
    /\ \A b \in Attempts : lib[b] # "none" \/ b \in Active => b \in tried
    /\ server # NoServer => lib[server] \notin {"none", "gone"}
    /\ at \in BeforeMake => server \notin Active
    /\ at \in BeforeStart /\ server # NoServer => lib[server] = "made"

\* A destroyed server of the running attempt had been stopped, or had failed.
DestroyedWasEnded == \A b \in Attempts : lib[b] = "gone" => b \in ended \/ b \notin Active

\* What makes the outcome of a start its own: it was pending when the call began.
HeardSinceCall ==
    \A c \in Callers : cpc[c] \in {"base", "wait"} /\ start = "succeeded" => heard[c]

\* Somebody is on the way to the server, or has already called its stop() too early.
OnTheWay ==
    \/ server \in early
    \/ Active = {}
    \/ \E c \in Callers : CallerAt(c, "hook") \/ (CallerAt(c, "stop") /\ arg[c] = server)

\* After the check of the flag, the promise is already made.
PromiseBeforeStart ==
    m_stopRequested /\ server # NoServer /\ at \in {"enter", "fetch", "bind"} => OnTheWay

LegacyInv ==
    /\ LegacyTypes /\ OneAttempt /\ ServerIsOurs /\ DestroyedWasEnded
    /\ HeardSinceCall /\ StopIsDelivered /\ PromiseBeforeStart

-----------------------------------------------------------------------------
\* The initial states satisfy the invariant: nothing was started, made or asked.
LEMMA InitEstablishesLegacyInv == LegacyInit => LegacyInv
<1> SUFFICES ASSUME LegacyInit PROVE LegacyInv
    OBVIOUS
<1> USE DEF LegacyInit, Worker!ContractInit, Active, CallerAt
<1>1. LegacyTypes
  <2>1. BaseTypes
    BY DEF BaseTypes
  <2>2. ServerTypes
    BY DEF ServerTypes, LibStates
  <2>3. DOMAIN arg = Callers /\ DOMAIN heard = Callers
    OBVIOUS
  <2>4. cpc \in [Callers -> Locations] /\ \A c \in Callers : cpc[c] # "stop"
    BY DEF Locations
  <2> QED
    BY <2>1, <2>2, <2>3, <2>4 DEF LegacyTypes, CallerTypes
<1>2. OneAttempt
    BY DEF OneAttempt
<1>3. ServerIsOurs /\ DestroyedWasEnded
    BY DEF ServerIsOurs, DestroyedWasEnded, BeforeMake, BeforeStart
<1>4. HeardSinceCall /\ StopIsDelivered /\ PromiseBeforeStart
    BY DEF HeardSinceCall, StopIsDelivered, PromiseBeforeStart
<1> QED
    BY <1>1, <1>2, <1>3, <1>4 DEF LegacyInv

\* The steps of a caller leave the base class alone, but for the claims of
\* startThread and the request to stop.
LEMMA CallerBaseStep ==
    ASSUME NEW c \in Callers,
           \/ CallerStep(c) \/ StartThread(c)
           \/ \E destroy \in BOOLEAN : RequestStop(c, destroy)
           \/ \E change \in Changes : Set(c, change)
    PROVE  Worker!ContractNext \/ UNCHANGED baseVars
<1>1. CASE StartFails(c)
    BY <1>1 DEF StartFails, Worker!ContractNext
<1>2. ASSUME NEW a \in Attempts, StartBegins(c, a)
      PROVE  Worker!ContractNext
    BY <1>2 DEF StartBegins, Worker!ContractNext
<1>3. ASSUME NEW destroy \in BOOLEAN, RequestStop(c, destroy)
      PROVE  Worker!ContractNext \/ UNCHANGED baseVars
    BY <1>3 DEF RequestStop, Worker!ContractNext
<1>4. ASSUME \/ StartRefused(c) \/ WaitUntilListening(c) \/ SetWrites(c) \/ StartThread(c)
             \/ HookReads(c) \/ HookStops(c) \/ HookResolves(c)
             \/ \E change \in Changes : Set(c, change)
      PROVE  UNCHANGED baseVars
    BY <1>4 DEF StartRefused, WaitUntilListening, SetWrites, StartThread, HookReads, HookStops,
                HookResolves, Set, baseVars
<1> QED
    BY <1>1, <1>2, <1>3, <1>4 DEF CallerStep

\* The steps of the worker thread are steps of the contract.
LEMMA WorkerBaseStep ==
    ASSUME NEW a \in Attempts,
           WorkerStep(a) \/ PreRunThrows(a) \/ RunThrows(a)
    PROVE  Worker!ContractNext \/ UNCHANGED baseVars
<1>1. CASE Worker!Leave(a) \/ Worker!Enter(a)
    BY <1>1 DEF Worker!ContractNext
<1>2. CASE PreRunCopies(a) \/ PreRunMakes(a) \/ PreRunInstalls(a) \/ PreRunGivesUp(a)
           \/ CheckStopRequested(a) \/ SetRunning(a)
    BY <1>1, <1>2 DEF PreRunCopies, PreRunMakes, PreRunInstalls, PreRunGivesUp,
                      CheckStopRequested, SetRunning, Leaves, baseVars
<1>3. CASE RunFetches(a) \/ ServerStarts(a) \/ Announces(a) \/ ServerStops(a)
           \/ RunConcludes(a) \/ RunResets(a) \/ PreRunThrows(a) \/ RunThrows(a)
    BY <1>1, <1>3 DEF RunFetches, ServerStarts, Announces, ServerStops, RunConcludes, RunResets,
                      PreRunThrows, RunThrows, Leaves, baseVars
<1> QED
    BY <1>2, <1>3 DEF WorkerStep

\* Every step is one the contract of a worker allows, or does not show.
LEMMA BaseStep == LegacyNext => Worker!ContractNext \/ UNCHANGED baseVars
<1>1. ASSUME NEW a \in Attempts \cup Callers, Finishes(a)
      PROVE  Worker!ContractNext
    BY <1>1 DEF Finishes, Worker!ContractNext
<1>2. CASE Destroyed \/ UNCHANGED legacyVars
    BY <1>2 DEF Destroyed, legacyVars, baseVars
<1> QED
    BY <1>1, <1>2, CallerBaseStep, WorkerBaseStep DEF LegacyNext

\* The contract keeps one attempt at a time.
LEMMA BasePreserved ==
    ASSUME BaseTypes, OneAttempt, LegacyNext
    PROVE  BaseTypes' /\ OneAttempt'
<1> USE DEF BaseTypes, OneAttempt, Active, Worker!Active
<1>1. CASE UNCHANGED baseVars
    BY <1>1 DEF baseVars
<1>2. CASE Worker!AskToStop
    BY <1>2 DEF Worker!AskToStop
<1>3. ASSUME NEW a \in Attempts \cup Callers, Worker!Claim(a) \/ Worker!ClaimInVain(a)
      PROVE  BaseTypes' /\ OneAttempt'
    BY <1>3 DEF Worker!Claim, Worker!ClaimInVain
<1>4. ASSUME NEW a \in Attempts \cup Callers, Worker!Enter(a)
      PROVE  BaseTypes' /\ OneAttempt'
    BY <1>4 DEF Worker!Enter
<1>5. ASSUME NEW a \in Attempts \cup Callers, Worker!Leave(a)
      PROVE  BaseTypes' /\ OneAttempt'
    BY <1>5 DEF Worker!Leave
<1>6. ASSUME NEW a \in Attempts \cup Callers, Worker!Finish(a)
      PROVE  BaseTypes' /\ OneAttempt'
    BY <1>6 DEF Worker!Finish
<1> QED
    BY BaseStep, <1>1, <1>2, <1>3, <1>4, <1>5, <1>6 DEF Worker!ContractNext

-----------------------------------------------------------------------------
\* The promise of startThread.  Only resolveStartIfPending decides a start, and it
\* tells every caller that has begun one.
LEMMA ResolvePreservesHeard ==
    ASSUME CallerTypes, HeardSinceCall, NEW success \in BOOLEAN, resolveStartIfPending(success),
           \A c \in Callers : cpc'[c] \in {"base", "wait"} => cpc[c] \in {"base", "wait"}
    PROVE  HeardSinceCall' /\ DOMAIN heard' = Callers
<1>1. CASE start = "pending" /\ success
    BY <1>1 DEF CallerTypes, HeardSinceCall, resolveStartIfPending
<1>2. CASE start = "pending" /\ ~success
    BY <1>2 DEF CallerTypes, HeardSinceCall, resolveStartIfPending
<1>3. CASE start # "pending"
    BY <1>3 DEF CallerTypes, HeardSinceCall, resolveStartIfPending, startVars
<1> QED
    BY <1>1, <1>2, <1>3

\* The steps of the callers.
LEMMA CallerPreservesHeard ==
    ASSUME CallerTypes, ServerTypes, HeardSinceCall, NEW c \in Callers,
           \/ CallerStep(c) \/ StartThread(c)
           \/ \E destroy \in BOOLEAN : RequestStop(c, destroy)
           \/ \E change \in Changes : Set(c, change)
    PROVE  HeardSinceCall' /\ CallerTypes'
<1> USE DEF CallerAt, Goto, Locations
<1>1. CASE StartThread(c)
    BY <1>1 DEF StartThread, resetStartState, HeardSinceCall, CallerTypes
<1>2. CASE StartRefused(c) \/ WaitUntilListening(c) \/ StartFails(c)
    BY <1>2 DEF StartRefused, WaitUntilListening, StartFails, Tries, StartReturns, HeardSinceCall,
                CallerTypes
<1>3. ASSUME NEW a \in Attempts, StartBegins(c, a)
      PROVE  HeardSinceCall' /\ CallerTypes'
    BY <1>3 DEF StartBegins, Tries, HeardSinceCall, CallerTypes
<1>4. CASE SetWrites(c) \/ HookReads(c) \/ HookStops(c)
    BY <1>4 DEF SetWrites, HookReads, HookStops, startVars, HeardSinceCall, CallerTypes, ServerTypes
<1>5. CASE HookResolves(c)
  <2>1. \A d \in Callers : cpc'[d] \in {"base", "wait"} => cpc[d] \in {"base", "wait"}
    BY <1>5 DEF HookResolves, CallerTypes
  <2>2. HeardSinceCall' /\ DOMAIN heard' = Callers
    BY <1>5, <2>1, ResolvePreservesHeard DEF HookResolves
  <2> QED
    BY <1>5, <2>2 DEF HookResolves, CallerTypes
<1>6. ASSUME NEW destroy \in BOOLEAN, RequestStop(c, destroy)
      PROVE  HeardSinceCall' /\ CallerTypes'
    BY <1>6 DEF RequestStop, startVars, HeardSinceCall, CallerTypes
<1>7. ASSUME NEW change \in Changes, Set(c, change)
      PROVE  HeardSinceCall' /\ CallerTypes'
    BY <1>7 DEF Set, startVars, HeardSinceCall, CallerTypes
<1> QED
    BY <1>1, <1>2, <1>3, <1>4, <1>5, <1>6, <1>7 DEF CallerStep

\* The worker thread leaves the callers alone, and the starts but for their outcome.
LEMMA WorkerPreservesHeard ==
    ASSUME CallerTypes, HeardSinceCall, NEW a \in Attempts,
           WorkerStep(a) \/ PreRunThrows(a) \/ RunThrows(a)
    PROVE  HeardSinceCall' /\ CallerTypes'
<1>1. UNCHANGED callerVars
    BY DEF WorkerStep, ByWorker, PreRunCopies, PreRunMakes, PreRunInstalls, PreRunGivesUp,
           CheckStopRequested, SetRunning, RunFetches, ServerStarts, Announces, ServerStops,
           RunConcludes, RunResets, PreRunThrows, RunThrows
<1>2. \/ UNCHANGED startVars
      \/ \E success \in BOOLEAN : resolveStartIfPending(success)
    BY DEF WorkerStep, PreRunCopies, PreRunMakes, PreRunInstalls, PreRunGivesUp,
           CheckStopRequested, SetRunning, RunFetches, ServerStarts, Announces, ServerStops,
           RunConcludes, RunResets, PreRunThrows, RunThrows
<1>3. CASE UNCHANGED startVars
    BY <1>1, <1>3 DEF callerVars, startVars, CallerTypes, HeardSinceCall
<1>4. ASSUME NEW success \in BOOLEAN, resolveStartIfPending(success)
      PROVE  HeardSinceCall' /\ CallerTypes'
    BY <1>1, <1>4, ResolvePreservesHeard DEF callerVars, CallerTypes
<1> QED
    BY <1>2, <1>3, <1>4

\* Every step keeps what the start's promise rests on.
LEMMA HeardPreserved ==
    ASSUME LegacyInv, LegacyNext
    PROVE  HeardSinceCall' /\ CallerTypes'
<1> USE DEF LegacyInv, LegacyTypes
<1>1. ASSUME NEW a \in Attempts \cup Callers, Finishes(a)
      PROVE  HeardSinceCall' /\ CallerTypes'
    BY <1>1 DEF Finishes, ByWorker, callerVars, startVars, HeardSinceCall, CallerTypes
<1>2. CASE Destroyed \/ UNCHANGED legacyVars
    BY <1>2 DEF Destroyed, legacyVars, callerVars, startVars, HeardSinceCall, CallerTypes
<1> QED
    BY <1>1, <1>2, CallerPreservesHeard, WorkerPreservesHeard DEF LegacyNext

-----------------------------------------------------------------------------
\* The server.  Nothing but preRun of the next attempt and the reset at the end of
\* an attempt destroys one.
ServerFacts == ServerTypes /\ ServerIsOurs /\ DestroyedWasEnded

\* A step that leaves the library, the attempts and the place alone, and begins no
\* attempt, keeps the facts.
LEMMA ServerFrame ==
    ASSUME ServerFacts, Active' \subseteq Active, UNCHANGED <<tried, server, lib, ended>>,
           at' = at \/ at' \notin BeforeMake \cup BeforeStart
    PROVE  ServerFacts'
BY DEF ServerFacts, ServerTypes, ServerIsOurs, DestroyedWasEnded

\* The steps of the callers, among them stops that hold a pointer to the server.
LEMMA CallerPreservesServer ==
    ASSUME LegacyInv, NEW c \in Callers,
           \/ CallerStep(c) \/ StartThread(c)
           \/ \E destroy \in BOOLEAN : RequestStop(c, destroy)
           \/ \E change \in Changes : Set(c, change)
    PROVE  ServerFacts'
<1> USE DEF LegacyInv, LegacyTypes
<1>0. ServerFacts
    BY DEF ServerFacts
<1>1. CASE \/ StartThread(c) \/ StartRefused(c) \/ WaitUntilListening(c) \/ SetWrites(c)
           \/ HookReads(c) \/ HookResolves(c)
           \/ \E change \in Changes : Set(c, change)
  <2>1. UNCHANGED <<baseVars, tried, server, lib, ended, at>>
    BY <1>1 DEF StartThread, StartRefused, WaitUntilListening, SetWrites, HookReads, HookResolves,
                Set, serverVars, ghostVars
  <2> QED
    BY <1>0, <2>1, ServerFrame DEF baseVars, Active
<1>2. ASSUME NEW destroy \in BOOLEAN, RequestStop(c, destroy)
      PROVE  ServerFacts'
  <2>1. UNCHANGED <<entering, running, leaving, tried, server, lib, ended, at>>
    BY <1>2 DEF RequestStop, Worker!AskToStop, baseVars, serverVars, ghostVars
  <2> QED
    BY <1>0, <2>1, ServerFrame DEF Active
<1>3. CASE StartFails(c)
  <2>1. UNCHANGED <<tried, server, lib, ended>> /\ at' = "finish" /\ Active' = {c}
    BY <1>3 DEF StartFails, Tries, serverVars, Worker!ClaimInVain, Worker!Active, Active
  <2> QED
    BY <1>0, <2>1, LegacyAssumption
    DEF ServerFacts, ServerTypes, ServerIsOurs, DestroyedWasEnded, BeforeMake, BeforeStart
<1>4. ASSUME NEW a \in Attempts, StartBegins(c, a)
      PROVE  ServerFacts'
  <2>1. /\ UNCHANGED <<server, lib, ended>> /\ at' = "copy" /\ Active' = {a}
        /\ a \notin tried /\ tried' = tried \cup {a}
    BY <1>4 DEF StartBegins, Tries, serverVars, Worker!Claim, Worker!Active, Active
  <2>2. lib[a] = "none" /\ server # a
    BY <2>1, LegacyAssumption DEF ServerTypes, ServerIsOurs
  <2> QED
    BY <1>0, <2>1, <2>2
    DEF ServerFacts, ServerTypes, ServerIsOurs, DestroyedWasEnded, BeforeMake, BeforeStart
<1>5. CASE HookStops(c)
  <2>1. /\ UNCHANGED <<baseVars, tried, server, at>> /\ ended \subseteq ended'
        /\ lib' = [lib EXCEPT ![arg[c]] = IF @ = "listening" THEN "stopped" ELSE @]
    BY <1>5 DEF HookStops
  <2> QED
    BY <1>0, <2>1 DEF ServerFacts, ServerTypes, ServerIsOurs, DestroyedWasEnded, Active, baseVars,
                      LibStates
<1> QED
    BY <1>1, <1>2, <1>3, <1>4, <1>5 DEF CallerStep

\* The steps of the worker, which builds and destroys the server.
LEMMA WorkerPreservesServer ==
    ASSUME LegacyInv, NEW a \in Attempts,
           WorkerStep(a) \/ PreRunThrows(a) \/ RunThrows(a)
    PROVE  ServerFacts'
<1> USE DEF LegacyInv, LegacyTypes
<1>0. ServerFacts
    BY DEF ServerFacts
<1>1. CASE PreRunCopies(a)
    BY <1>0, <1>1 DEF PreRunCopies, WorkerAt, Leaves, Worker!Leave, Active, baseVars, ByWorker,
       serverVars, ServerFacts, ServerTypes, ServerIsOurs, DestroyedWasEnded, BeforeMake, BeforeStart
<1>2. CASE PreRunMakes(a)
    BY <1>0, <1>2, LegacyAssumption DEF PreRunMakes, WorkerAt, Active, baseVars, ByWorker,
       ServerFacts, ServerTypes, ServerIsOurs, DestroyedWasEnded, BeforeMake, BeforeStart, LibStates,
       OneAttempt
<1>3. CASE PreRunInstalls(a) \/ PreRunThrows(a) \/ CheckStopRequested(a)
    BY <1>0, <1>3
    DEF PreRunInstalls, PreRunThrows, CheckStopRequested, WorkerAt, Leaves, Worker!Leave, Active,
        baseVars, ByWorker, serverVars, ServerFacts, ServerTypes, ServerIsOurs, DestroyedWasEnded,
        BeforeMake, BeforeStart
<1>4. CASE SetRunning(a) \/ RunFetches(a)
    BY <1>0, <1>4
    DEF SetRunning, RunFetches, WorkerAt, Leaves, Worker!Leave, Worker!Enter, Active, baseVars,
        ByWorker, serverVars, ServerFacts, ServerTypes, ServerIsOurs, DestroyedWasEnded,
        BeforeMake, BeforeStart
<1>5. CASE PreRunGivesUp(a) \/ RunResets(a)
    BY <1>0, <1>5, LegacyAssumption
    DEF PreRunGivesUp, RunResets, ServerReset, Leaves, Worker!Leave, Active, ByWorker, ServerFacts,
        ServerTypes, ServerIsOurs, DestroyedWasEnded, BeforeMake, BeforeStart, LibStates
<1>6. CASE ServerStarts(a)
  <2>1. /\ UNCHANGED <<baseVars, tried, server, ended>> /\ at = "bind" /\ at' = "listen"
        /\ lib' = [lib EXCEPT ![server] = "listening"]
    BY <1>6 DEF ServerStarts, WorkerAt, ByWorker
  <2>2. CASE server = NoServer
    <3>1. lib' = lib
      BY <2>1, <2>2, LegacyAssumption DEF ServerTypes
    <3> QED
      BY <1>0, <2>1, <3>1, ServerFrame DEF baseVars, Active, BeforeMake, BeforeStart
  <2>3. CASE server # NoServer
    BY <1>0, <2>1, <2>3 DEF Active, baseVars, ServerFacts, ServerTypes, ServerIsOurs,
       DestroyedWasEnded, BeforeMake, BeforeStart, LibStates
  <2> QED
    BY <2>2, <2>3
<1>7. CASE Announces(a) \/ ServerStops(a) \/ RunConcludes(a)
  <2>1. /\ UNCHANGED <<baseVars, tried, server, lib, ended>>
        /\ at' \notin BeforeMake \cup BeforeStart
    BY <1>7 DEF Announces, ServerStops, RunConcludes, ByWorker, serverVars, BeforeMake, BeforeStart
  <2> QED
    BY <1>0, <2>1, ServerFrame DEF baseVars, Active
<1>8. CASE RunThrows(a)
    BY <1>0, <1>8 DEF RunThrows, Leaves, Worker!Leave, Active, ByWorker, serverVars, ServerFacts,
       ServerTypes, ServerIsOurs, DestroyedWasEnded, BeforeMake, BeforeStart
<1> QED
    BY <1>1, <1>2, <1>3, <1>4, <1>5, <1>6, <1>7, <1>8 DEF WorkerStep

\* Every step keeps the facts about the server's life.
LEMMA ServerPreserved ==
    ASSUME LegacyInv, LegacyNext
    PROVE  ServerFacts'
<1>0. ServerFacts
    BY DEF ServerFacts, LegacyInv, LegacyTypes
<1>1. ASSUME NEW a \in Attempts \cup Callers, Finishes(a)
      PROVE  ServerFacts'
    BY <1>0, <1>1, ServerFrame DEF Finishes, Worker!Finish, Active, ByWorker, serverVars,
                                   BeforeMake, BeforeStart
<1>2. CASE Destroyed \/ UNCHANGED legacyVars
    BY <1>0, <1>2, ServerFrame DEF Destroyed, legacyVars, serverVars, ghostVars, baseVars, Active
<1> QED
    BY <1>1, <1>2, CallerPreservesServer, WorkerPreservesServer DEF LegacyNext

-----------------------------------------------------------------------------
\* The delivery of a stop request.
Delivered == StopIsDelivered /\ PromiseBeforeStart

Checked == {"enter", "fetch", "bind"}

\* Those who are on the way stay there until they act.
LEMMA DeliveryFrame ==
    ASSUME Delivered, server' = server, early \subseteq early', Active' \subseteq Active,
           m_stopRequested' => m_stopRequested,
           at' \in Checked => at \in Checked,
           lib'[server] = "listening" => lib[server] = "listening" \/ at \in Checked,
           \A c \in Callers : CallerAt(c, "hook") \/ (CallerAt(c, "stop") /\ arg[c] = server) =>
                              cpc'[c] = cpc[c] /\ arg'[c] = arg[c]
    PROVE  Delivered'
BY DEF Delivered, StopIsDelivered, PromiseBeforeStart, OnTheWay, CallerAt, Checked

\* The steps of the callers, among them the stop that is to be delivered.
LEMMA CallerPreservesDelivery ==
    ASSUME LegacyInv, NEW c \in Callers,
           \/ CallerStep(c) \/ StartThread(c)
           \/ \E destroy \in BOOLEAN : RequestStop(c, destroy)
           \/ \E change \in Changes : Set(c, change)
    PROVE  Delivered'
<1> USE DEF LegacyInv, LegacyTypes
<1>0. Delivered
    BY DEF Delivered
<1>1. CASE \/ StartThread(c) \/ StartRefused(c) \/ WaitUntilListening(c) \/ SetWrites(c)
           \/ HookResolves(c) \/ \E change \in Changes : Set(c, change)
  <2>1. UNCHANGED <<baseVars, m_stopRequested, server, lib, early, at>>
    BY <1>1 DEF StartThread, StartRefused, WaitUntilListening, SetWrites, HookResolves, Set,
                serverVars, ghostVars
  <2>2. cpc[c] \notin {"hook", "stop"}
    BY <1>1 DEF StartThread, StartRefused, WaitUntilListening, SetWrites, HookResolves, Set, CallerAt
  <2>3. \A d \in Callers \ {c} : cpc'[d] = cpc[d] /\ arg'[d] = arg[d]
    BY <1>1 DEF StartThread, StartRefused, WaitUntilListening, SetWrites, HookResolves, Set,
                StartReturns, Goto, CallerTypes
  <2> QED
    BY <1>0, <2>1, <2>2, <2>3, DeliveryFrame DEF baseVars, Active, CallerAt
<1>2. ASSUME NEW destroy \in BOOLEAN, RequestStop(c, destroy)
      PROVE  Delivered'
  <2>1. CASE state = "Stopped"
    <3>1. Active' = {}
      BY <1>2, <2>1 DEF RequestStop, OneAttempt, Active, baseVars
    <3> QED
      BY <3>1 DEF Delivered, StopIsDelivered, PromiseBeforeStart, OnTheWay
  <2>2. CASE state # "Stopped"
    <3>1. cpc'[c] = "hook"
      BY <1>2, <2>2 DEF RequestStop, Goto, CallerTypes
    <3> QED
      BY <3>1 DEF Delivered, StopIsDelivered, PromiseBeforeStart, OnTheWay, CallerAt
  <2> QED
    BY <2>1, <2>2
<1>3. ASSUME \/ StartFails(c)
             \/ \E a \in Attempts : StartBegins(c, a)
      PROVE  Delivered'
    BY <1>3 DEF StartFails, StartBegins, Tries, Delivered, StopIsDelivered, PromiseBeforeStart
<1>4. CASE HookReads(c)
  <2>1. server' = server /\ arg'[c] = server
    BY <1>4 DEF HookReads, serverVars, CallerTypes
  <2>2. server # NoServer => cpc'[c] = "stop"
    BY <1>4 DEF HookReads, Goto, CallerTypes
  <2> QED
    BY <2>1, <2>2 DEF Delivered, StopIsDelivered, PromiseBeforeStart, OnTheWay, CallerAt
<1>5. CASE HookStops(c)
  <2>1. /\ UNCHANGED <<baseVars, m_stopRequested, server, at, arg>> /\ early \subseteq early'
        /\ lib' = [lib EXCEPT ![arg[c]] = IF @ = "listening" THEN "stopped" ELSE @]
        /\ lib[arg[c]] = "made" => arg[c] \in early'
        /\ arg[c] \in Attempts
    BY <1>5 DEF HookStops, CallerAt, CallerTypes
  <2>2. CASE arg[c] = server
    BY <2>1, <2>2 DEF Delivered, StopIsDelivered, PromiseBeforeStart, OnTheWay, ServerTypes,
                      ServerIsOurs, BeforeStart
  <2>3. CASE arg[c] # server
    <3>1. \A d \in Callers \ {c} : cpc'[d] = cpc[d]
      BY <1>5 DEF HookStops, Goto, CallerTypes
    <3>2. lib'[server] = lib[server]
      BY <2>1, <2>3, LegacyAssumption DEF ServerTypes
    <3>3. cpc[c] = "stop"
      BY <1>5 DEF HookStops, CallerAt
    <3> QED
      BY <1>0, <2>1, <2>3, <3>1, <3>2, <3>3, DeliveryFrame DEF baseVars, Active, CallerAt
  <2> QED
    BY <2>2, <2>3
<1> QED
    BY <1>1, <1>2, <1>3, <1>4, <1>5 DEF CallerStep

\* The steps of the worker, which is to hear of it.
LEMMA WorkerPreservesDelivery ==
    ASSUME LegacyInv, NEW a \in Attempts,
           WorkerStep(a) \/ PreRunThrows(a) \/ RunThrows(a)
    PROVE  Delivered'
<1> USE DEF LegacyInv, LegacyTypes
<1>0. Delivered
    BY DEF Delivered
<1>1. CASE PreRunMakes(a)
    BY <1>1 DEF PreRunMakes, Delivered, StopIsDelivered, PromiseBeforeStart, ServerTypes
<1>2. CASE PreRunGivesUp(a) \/ RunResets(a)
    BY <1>2 DEF PreRunGivesUp, RunResets, ServerReset, Delivered, StopIsDelivered,
                PromiseBeforeStart
<1>3. CASE CheckStopRequested(a)
  <2>1. CASE m_stopRequested
    BY <1>0, <1>3, <2>1, DeliveryFrame
    DEF CheckStopRequested, Leaves, Worker!Leave, Active, ByWorker, callerVars, serverVars, Checked
  <2>2. CASE ~m_stopRequested
    BY <1>3, <2>2 DEF CheckStopRequested, ByWorker, Delivered, StopIsDelivered, PromiseBeforeStart
  <2> QED
    BY <2>1, <2>2
<1>4. CASE ServerStarts(a)
    BY <1>0, <1>4, DeliveryFrame
    DEF ServerStarts, WorkerAt, Active, baseVars, ByWorker, callerVars, Checked
<1>5. CASE \/ PreRunCopies(a) \/ PreRunInstalls(a) \/ PreRunThrows(a) \/ SetRunning(a)
           \/ RunFetches(a) \/ Announces(a) \/ ServerStops(a) \/ RunConcludes(a) \/ RunThrows(a)
  <2>1. UNCHANGED <<serverVars, m_stopRequested, early, callerVars>>
    BY <1>5 DEF PreRunCopies, PreRunInstalls, PreRunThrows, SetRunning, RunFetches, Announces,
                ServerStops, RunConcludes, RunThrows, ByWorker
  <2>2. at' \in Checked => at \in Checked
    BY <1>5 DEF PreRunCopies, PreRunInstalls, PreRunThrows, SetRunning, RunFetches, Announces,
                ServerStops, RunConcludes, RunThrows, WorkerAt, Leaves, Checked
  <2>3. Worker!Leave(a) \/ Worker!Enter(a) \/ UNCHANGED baseVars
    BY <1>5 DEF PreRunCopies, PreRunInstalls, PreRunThrows, SetRunning, RunFetches, Announces,
                ServerStops, RunConcludes, RunThrows, Leaves
  <2>4. Active' \subseteq Active
    BY <2>3 DEF Worker!Leave, Worker!Enter, Active, baseVars
  <2> QED
    BY <1>0, <2>1, <2>2, <2>4, DeliveryFrame DEF serverVars, callerVars
<1> QED
    BY <1>1, <1>2, <1>3, <1>4, <1>5 DEF WorkerStep

\* Every step keeps the way of a stop request open.
LEMMA DeliveryPreserved ==
    ASSUME LegacyInv, LegacyNext
    PROVE  Delivered'
<1>0. Delivered
    BY DEF Delivered, LegacyInv
<1>1. ASSUME NEW a \in Attempts \cup Callers, Finishes(a)
      PROVE  Delivered'
    BY <1>0, <1>1, DeliveryFrame DEF Finishes, Worker!Finish, Active, ByWorker, callerVars,
                                     serverVars, Checked
<1>2. CASE Destroyed \/ UNCHANGED legacyVars
    BY <1>0, <1>2, DeliveryFrame DEF Destroyed, legacyVars, serverVars, ghostVars, callerVars,
                                     baseVars, Active
<1> QED
    BY <1>1, <1>2, CallerPreservesDelivery, WorkerPreservesDelivery DEF LegacyNext

-----------------------------------------------------------------------------
\* Every step of the server keeps the invariant.
LEMMA NextPreservesLegacyInv == LegacyInv /\ [LegacyNext]_legacyVars => LegacyInv'
<1> SUFFICES ASSUME LegacyInv, [LegacyNext]_legacyVars PROVE LegacyInv'
    OBVIOUS
<1>1. CASE LegacyNext
    BY <1>1, BasePreserved, HeardPreserved, ServerPreserved, DeliveryPreserved
    DEF LegacyInv, LegacyTypes, ServerFacts, Delivered
<1>2. CASE UNCHANGED legacyVars
  <2>1. LegacyTypes' /\ OneAttempt'
    BY <1>2 DEF LegacyInv, LegacyTypes, BaseTypes, ServerTypes, CallerTypes, OneAttempt, Active,
                legacyVars, baseVars, serverVars, callerVars, startVars
  <2>2. ServerIsOurs' /\ DestroyedWasEnded' /\ HeardSinceCall'
    BY <1>2 DEF LegacyInv, ServerIsOurs, DestroyedWasEnded, HeardSinceCall, Active, legacyVars,
                baseVars, serverVars, callerVars, startVars, ghostVars
  <2>3. StopIsDelivered' /\ PromiseBeforeStart'
    BY <1>2 DEF LegacyInv, StopIsDelivered, PromiseBeforeStart, OnTheWay, CallerAt, Active,
                legacyVars, baseVars, serverVars, callerVars, ghostVars
  <2> QED
    BY <2>1, <2>2, <2>3 DEF LegacyInv
<1> QED
    BY <1>1, <1>2

\* LegacyInv holds in every reachable state.
LEMMA LegacyInvariant == LegacySpec => []LegacyInv
<1>1. LegacyInit => LegacyInv
    BY InitEstablishesLegacyInv
<1>2. LegacyInv /\ [LegacyNext]_legacyVars => LegacyInv'
    BY NextPreservesLegacyInv
<1> QED
    BY <1>1, <1>2, PTL DEF LegacySpec

\* A startThread of cHTTPServer or cHTTPSServer that reports success heard the port
\* announced since it was called, however many callers start and stop at once.
THEOREM LegacyStartHonest == LegacySpec => []LegacyStartIsHonest
<1>1. LegacyInv => LegacyStartIsHonest
    BY DEF LegacyInv, HeardSinceCall, LegacyStartIsHonest, CallerAt
<1> QED
    BY <1>1, LegacyInvariant, PTL

\* stopTriggered calls stop() through a copy of the pointer; while the attempt
\* lasts, the server is destroyed only if it was stopped or failed before.
THEOREM LegacyStopSafe == LegacySpec => []StopsExistingServer
<1>1. LegacyInv => StopsExistingServer
    BY DEF LegacyInv, LegacyTypes, CallerTypes, DestroyedWasEnded, StopsExistingServer, CallerAt
<1> QED
    BY <1>1, LegacyInvariant, PTL

\* A stop request is never forgotten while a server listens, but for a stop() that
\* came before start().
THEOREM LegacyStopDelivered == LegacySpec => []StopIsDelivered
<1>1. LegacyInv => StopIsDelivered
    BY DEF LegacyInv
<1> QED
    BY <1>1, LegacyInvariant, PTL

-----------------------------------------------------------------------------
(* The settings that a server is made with.                                *)

Settings == {"cert", "key", "pool"}

\* A pair of a certificate and its key, and no other.
Paired(s) == s["cert"] = s["key"]

\* What is written into m_impl, and what preRun takes from there.
PairsKept ==
    /\ config = [f \in Settings |-> config[f]] /\ Paired(config)
    /\ \A c \in Callers : cpc[c] = "set" => arg[c] \in Changes
    /\ at = "make" => Paired(copied) /\ copied["cert"] # ""
    /\ server # NoServer => Paired(made) /\ made["cert"] # ""

\* An attempt that nobody has asked to stop and that began without a setter on its way.
Undisturbed == Active # {} /\ ~m_stopRequested /\ ~excused

\* While it lasts, setters are refused, and so the settings stay as they were copied.
SettingsStay ==
    /\ Active # {} /\ ~m_stopRequested => state \in {"Starting", "Running"}
    /\ Undisturbed =>
          /\ \A c \in Callers : cpc[c] # "set"
          /\ at = "make" => copied = config
          /\ at \in {"install", "check", "enter"} => made = config
          /\ state = "Running" /\ server # NoServer => made = config

SettingsInv == PairsKept /\ SettingsStay

\* A step that neither writes settings nor lets a setter in, and goes on in the
\* worker only from a place where the server is made to one where it is.
LEMMA SettingsFrame ==
    ASSUME SettingsInv, UNCHANGED <<config, copied, server, made, m_stopRequested, excused>>,
           Active' \subseteq Active,
           Active' # {} => state' = state \/ (state' = "Running" /\ at = "enter"),
           at' = at \/ at' \notin {"make", "install", "check", "enter"}
             \/ (at \in {"install", "check"} /\ at' \in {"check", "enter"}),
           \A c \in Callers : cpc'[c] = "set" => cpc[c] = "set" /\ arg'[c] = arg[c]
    PROVE  SettingsInv'
<1>1. PairsKept'
    BY DEF SettingsInv, PairsKept, Paired
<1>2. Active' # {} => Active # {}
    OBVIOUS
<1>3. SettingsStay'
    BY <1>2 DEF SettingsInv, SettingsStay, Undisturbed
<1> QED
    BY <1>1, <1>3 DEF SettingsInv

\* The steps of the callers, among them the setters.
LEMMA CallerPreservesSettings ==
    ASSUME LegacyInv, SettingsInv, NEW c \in Callers,
           \/ CallerStep(c) \/ StartThread(c)
           \/ \E destroy \in BOOLEAN : RequestStop(c, destroy)
           \/ \E change \in Changes : Set(c, change)
    PROVE  SettingsInv'
<1>0. /\ cpc \in [Callers -> Locations] /\ DOMAIN arg = Callers
      /\ (state = "Stopped" <=> Active = {})
    BY DEF LegacyInv, LegacyTypes, CallerTypes, OneAttempt
<1>1. CASE StartThread(c) \/ StartRefused(c) \/ WaitUntilListening(c) \/ HookReads(c)
           \/ HookStops(c) \/ HookResolves(c)
  <2>1. /\ UNCHANGED <<baseVars, config, copied, server, made, m_stopRequested, excused, at>>
        /\ \E loc \in Locations \ {"set"} : cpc' = [cpc EXCEPT ![c] = loc]
        /\ arg' = arg \/ \E v : arg' = [arg EXCEPT ![c] = v]
    BY <1>1 DEF StartThread, StartRefused, WaitUntilListening, HookReads, HookStops, HookResolves,
       StartReturns, Goto, serverVars, ghostVars, Locations
  <2>2. \A d \in Callers : cpc'[d] = "set" => cpc[d] = "set" /\ arg'[d] = arg[d]
    BY <1>0, <2>1
  <2> QED
    BY <2>1, <2>2, SettingsFrame DEF baseVars, Active
<1>2. ASSUME NEW change \in Changes, Set(c, change) PROVE SettingsInv'
  <2>1. /\ UNCHANGED <<baseVars, config, copied, server, made, m_stopRequested, excused, at>>
        /\ cpc' = [cpc EXCEPT ![c] = "set"] /\ arg' = [arg EXCEPT ![c] = change]
        /\ state \notin {"Starting", "Running"}
    BY <1>2 DEF Set, Goto, serverVars, ghostVars
  <2>2. PairsKept'
    BY <1>0, <2>1 DEF SettingsInv, PairsKept, Paired
  <2>3. ~Undisturbed /\ ~Undisturbed'
    BY <2>1 DEF SettingsInv, SettingsStay, Undisturbed, baseVars, Active
  <2> QED
    BY <2>1, <2>2, <2>3 DEF SettingsInv, SettingsStay, Undisturbed, baseVars, Active
<1>3. CASE SetWrites(c)
  <2>1. /\ UNCHANGED <<baseVars, copied, server, made, m_stopRequested, excused, at>>
        /\ config' = [f \in DOMAIN config |->
                        IF f \in DOMAIN arg[c] THEN Normalized(f, arg[c][f]) ELSE config[f]]
        /\ cpc[c] = "set" /\ cpc' = [cpc EXCEPT ![c] = "idle"]
        /\ arg' = [arg EXCEPT ![c] = NoServer]
    BY <1>3 DEF SetWrites, CallerAt, Goto, serverVars, ghostVars
  <2>2. /\ config = [f \in Settings |-> config[f]] /\ Paired(config) /\ arg[c] \in Changes
    BY <2>1 DEF SettingsInv, PairsKept
  <2>3. /\ DOMAIN config = Settings
        /\ config' = [f \in Settings |-> config'[f]]
    <3>1. DOMAIN config = Settings
      BY <2>2
    <3> QED BY <2>1, <3>1
  <2>4. Paired(config')
    <3>1. \A f \in {"cert", "key"} :
             config'[f] = IF f \in DOMAIN arg[c] THEN arg[c][f] ELSE config[f]
      BY <2>1, <2>3 DEF Settings, Normalized
    <3>2. \/ {"cert", "key"} \cap DOMAIN arg[c] = {}
          \/ {"cert", "key"} \subseteq DOMAIN arg[c] /\ arg[c]["cert"] = arg[c]["key"]
      BY <2>2, PairAssumption
    <3> QED BY <2>2, <3>1, <3>2 DEF Paired
  <2>5. ~Undisturbed
    BY <2>1 DEF SettingsInv, SettingsStay
  <2>6. PairsKept'
    BY <1>0, <2>1, <2>3, <2>4 DEF SettingsInv, PairsKept, Paired
  <2> QED
    BY <2>1, <2>5, <2>6 DEF SettingsInv, SettingsStay, Undisturbed, baseVars, Active
<1>4. ASSUME NEW destroy \in BOOLEAN, RequestStop(c, destroy) PROVE SettingsInv'
  <2>1. /\ UNCHANGED <<config, copied, server, made, at, arg>>
        /\ m_stopRequested' = TRUE
        /\ \E loc \in {"idle", "hook"} : cpc' = [cpc EXCEPT ![c] = loc]
    BY <1>4 DEF RequestStop, Goto, serverVars
  <2>2. PairsKept'
    BY <1>0, <2>1 DEF SettingsInv, PairsKept, Paired
  <2> QED
    BY <2>1, <2>2 DEF SettingsInv, SettingsStay, Undisturbed
<1>5. ASSUME StartFails(c) \/ \E a \in Attempts : StartBegins(c, a) PROVE SettingsInv'
  <2>1. /\ UNCHANGED <<config, copied, server, made, arg>>
        /\ at' \in {"copy", "finish"} /\ state' = "Starting"
        /\ \E loc \in {"idle", "wait"} : cpc' = [cpc EXCEPT ![c] = loc]
        /\ excused' = \E d \in Callers : cpc[d] = "set"
    BY <1>5 DEF StartFails, StartBegins, Tries, StartReturns, Goto, serverVars, CallerAt,
                Worker!Claim, Worker!ClaimInVain
  <2>2. PairsKept'
    BY <1>0, <2>1 DEF SettingsInv, PairsKept, Paired
  <2>3. ~excused' => \A d \in Callers : cpc'[d] # "set"
    BY <1>0, <2>1
  <2> QED
    BY <2>1, <2>2, <2>3 DEF SettingsInv, SettingsStay, Undisturbed
<1> QED
    BY <1>1, <1>2, <1>3, <1>4, <1>5 DEF CallerStep

\* The steps of the worker, which reads the settings when it builds the server.
LEMMA WorkerPreservesSettings ==
    ASSUME LegacyInv, SettingsInv, NEW a \in Attempts,
           WorkerStep(a) \/ PreRunThrows(a) \/ RunThrows(a)
    PROVE  SettingsInv'
<1>0. UNCHANGED <<m_stopRequested, config, excused, cpc, arg>>
    BY DEF WorkerStep, PreRunCopies, PreRunMakes, PreRunInstalls, PreRunGivesUp,
           CheckStopRequested, SetRunning, RunFetches, ServerStarts, Announces, ServerStops,
           RunConcludes, RunResets, PreRunThrows, RunThrows, ByWorker, callerVars
<1>1. CASE PreRunCopies(a)
  <2>1. CASE config.cert = "" \/ config.key = ""
    <3>1. /\ UNCHANGED <<copied, server, made, state>> /\ at' = "finish" /\ Active' = Active
      BY <1>1, <2>1 DEF PreRunCopies, Leaves, Worker!Leave, serverVars, Active
    <3> QED BY <1>0, <3>1, SettingsFrame
  <2>2. CASE ~(config.cert = "" \/ config.key = "")
    <3>1. /\ UNCHANGED <<baseVars, server, made>> /\ at' = "make" /\ copied' = config
      BY <1>1, <2>2 DEF PreRunCopies, serverVars
    <3>2. PairsKept'
      BY <1>0, <2>2, <3>1 DEF SettingsInv, PairsKept, Paired
    <3> QED
      BY <1>0, <3>1, <3>2 DEF SettingsInv, SettingsStay, Undisturbed, baseVars, Active
  <2> QED BY <2>1, <2>2
<1>2. CASE PreRunMakes(a)
  <2>1. /\ UNCHANGED baseVars /\ server' = a /\ copied' = NoSettings /\ at' = "install"
        /\ made' = [config EXCEPT !.cert = copied.cert, !.key = copied.key]
        /\ at = "make"
    BY <1>2 DEF PreRunMakes, MadeWith, WorkerAt
  <2>2. config = [f \in Settings |-> config[f]]
    BY DEF SettingsInv, PairsKept
  <2>3. made'["cert"] = copied["cert"] /\ made'["key"] = copied["key"]
    BY <2>1, <2>2 DEF Settings
  <2>4. PairsKept'
    BY <1>0, <2>1, <2>3 DEF SettingsInv, PairsKept, Paired
  <2>5. copied = config => made' = config
    BY <2>1, <2>2 DEF Settings
  <2> QED
    BY <1>0, <2>1, <2>4, <2>5 DEF SettingsInv, SettingsStay, Undisturbed, baseVars, Active
<1>3. CASE PreRunInstalls(a) \/ CheckStopRequested(a)
  <2>1. /\ UNCHANGED <<copied, server, made, state>> /\ Active' = Active
        /\ \/ at' = "finish"
           \/ at \in {"install", "check"} /\ at' \in {"check", "enter"}
    BY <1>3 DEF PreRunInstalls, CheckStopRequested, WorkerAt, Leaves, Worker!Leave, baseVars,
                serverVars, Active
  <2> QED BY <1>0, <2>1, SettingsFrame
<1>4. CASE SetRunning(a)
  <2>1. /\ UNCHANGED <<copied, server, made>> /\ state' = "Running" /\ Active' \subseteq Active
        /\ at = "enter" /\ at' = "fetch"
    BY <1>4 DEF SetRunning, WorkerAt, Worker!Enter, serverVars, Active
  <2> QED BY <1>0, <2>1, SettingsFrame
<1>5. CASE PreRunThrows(a)
  <2>1. UNCHANGED <<baseVars, server, made>> /\ copied' = NoSettings /\ at' = "giveUp"
    BY <1>5 DEF PreRunThrows, serverVars
  <2>2. PairsKept'
    BY <1>0, <2>1 DEF SettingsInv, PairsKept, Paired
  <2> QED
    BY <1>0, <2>1, <2>2 DEF SettingsInv, SettingsStay, Undisturbed, baseVars, Active
<1>6. CASE PreRunGivesUp(a) \/ RunResets(a)
  <2>1. /\ server' = NoServer /\ copied' = copied /\ at' = "finish" /\ state' = state
        /\ Active' = Active
    BY <1>6 DEF PreRunGivesUp, RunResets, ServerReset, Leaves, Worker!Leave, Active
  <2>2. PairsKept'
    BY <1>0, <2>1 DEF SettingsInv, PairsKept, Paired
  <2> QED
    BY <1>0, <2>1, <2>2 DEF SettingsInv, SettingsStay, Undisturbed
<1>7. CASE RunFetches(a) \/ ServerStarts(a) \/ Announces(a) \/ ServerStops(a)
           \/ RunConcludes(a) \/ RunThrows(a)
  <2>1. /\ UNCHANGED <<copied, server, made, state>> /\ Active' = Active
        /\ at' \in {"finish", "bind", "listen", "serve", "conclude", "reset"}
    BY <1>7 DEF RunFetches, ServerStarts, Announces, ServerStops, RunConcludes, RunThrows,
                Leaves, Worker!Leave, baseVars, serverVars, Active
  <2> QED BY <1>0, <2>1, SettingsFrame
<1> QED
    BY <1>1, <1>2, <1>3, <1>4, <1>5, <1>6, <1>7 DEF WorkerStep

\* The settings in force stay as they were until the attempt is disturbed.
LEMMA SettingsPreserved == LegacyInv /\ SettingsInv /\ [LegacyNext]_legacyVars => SettingsInv'
<1> SUFFICES ASSUME LegacyInv, SettingsInv, [LegacyNext]_legacyVars PROVE SettingsInv'
    OBVIOUS
<1>1. ASSUME NEW a \in Attempts \cup Callers, Finishes(a)
      PROVE  SettingsInv'
  <2>1. /\ UNCHANGED <<copied, server, made, m_stopRequested, config, excused, cpc, arg>>
        /\ at' = "off" /\ Active' = {}
    BY <1>1 DEF Finishes, Worker!Finish, ByWorker, serverVars, callerVars, Active, LegacyInv,
                OneAttempt
  <2> QED BY <2>1, SettingsFrame
<1>2. CASE Destroyed \/ UNCHANGED legacyVars
  <2>1. UNCHANGED <<baseVars, at, copied, server, made, m_stopRequested, config, excused, cpc, arg>>
    BY <1>2 DEF Destroyed, legacyVars, serverVars, callerVars, ghostVars
  <2> QED BY <2>1, SettingsFrame DEF baseVars, Active
<1> QED
    BY <1>1, <1>2, CallerPreservesSettings, WorkerPreservesSettings DEF LegacyNext

\* A server of cHTTPSServer has a certificate and the key set along with it, and a
\* running one works with the settings that the getters return, however setters,
\* starts and stops overlap; but for a setter that asked isRunning() before the start.
THEOREM LegacySettingsInForce == LegacySpec => []SettingsInForce
<1>1. LegacyInit => SettingsInv
  <2> SUFFICES ASSUME LegacyInit PROVE SettingsInv
    OBVIOUS
  <2>1. PairsKept
    BY DEF LegacyInit, PairsKept, Paired, Settings, NoSettings
  <2>2. Active = {}
    BY DEF LegacyInit, Worker!ContractInit, Active
  <2> QED
    BY <2>1, <2>2 DEF SettingsInv, SettingsStay, Undisturbed
<1>2. LegacyInv /\ SettingsInv => SettingsInForce
  <2> SUFFICES ASSUME LegacyInv, SettingsInv PROVE SettingsInForce
    OBVIOUS
  <2>1. state = "Running" => Active # {}
    BY DEF LegacyInv, OneAttempt
  <2> QED
    BY <2>1 DEF SettingsInv, PairsKept, Paired, SettingsStay, Undisturbed, SettingsInForce
<1> QED
    BY <1>1, <1>2, LegacyInvariant, SettingsPreserved, PTL DEF LegacySpec

-----------------------------------------------------------------------------
(* Requests and responses.                                                 *)

Writers == [by : Owners, status : Statuses]

Stages == {"unused", "dropped", "handler", "catch", "unwind", "escape", "onError", "done"}

Routes == {NoRoute} \cup {r.handler : r \in Registrations}

HeaderSets == {{}} \cup {RequestHeaders(r) : r \in Requests}

Streams == Seq(Statuses)

Outcomes == {"none", "returned", "threw", "escaped"}

Records ==
    [stage : Stages, route : Routes, headers : HeaderSets, copies : SUBSET Owners,
     checked : SUBSET Owners, responded : BOOLEAN, writing : SUBSET Writers, stream : Streams,
     sent : BOOLEAN, outcome : Outcomes, overlap : BOOLEAN, explicit : BOOLEAN]

Phases == {"no", "starting", "yes", "stopping", "down"}

Codes == {"OK", "URL_MALFORMAT", "FAILED_INIT", "FAILED", "TIMEDOUT", "TOO_MANY_REDIRECTS"}

Responses ==
    [curl : Codes, status : {0} \cup Statuses, raw : SUBSET Exchanges,
     headers : SUBSET Exchanges, body : SUBSET Exchanges]

Places == {"idle", "init", "handle", "stdin", "send", "await", "headers", "returned"}

Performs ==
    [pc : Places, req : {NoRequest} \cup Requests, url : {Empty} \cup {r.url : r \in Requests},
     hops : Nat, cur : {0} \cup Exchanges, resp : Responses]

\* The exchanges, the clients and the routes keep their types.
ExchangeTypeOK ==
    /\ \A q \in resources \cup routes : q.handler \in {r.handler : r \in Registrations}
    /\ pending \subseteq Registrations
    /\ calls \in Seq(Registrations)
    /\ inForce \in Nat /\ inForce <= Len(calls)
    /\ serving \in Phases
    /\ curl \in {"untried", "OK", "FAILED_INIT"}
    /\ cl \in [Clients -> Performs]
    /\ ex \in [Exchanges -> Records]

-----------------------------------------------------------------------------
(* An exchange.                                                            *)

\* The lambda and its own cResponse exist.
Inside == {"handler", "catch", "unwind", "escape"}

\* The handler has ended, and its failure was dealt with.
After == {"unwind", "escape", "onError", "done"}

CopiesFit(e) ==
    /\ IsFiniteSet(e.copies)
    /\ e.checked \subseteq e.copies
    /\ \A w \in e.writing : w.by \in e.copies
    /\ Wrapped \in e.copies <=> e.stage \in Inside
    /\ Wrapped \in e.checked => e.stage \in {"unwind", "escape"}
    /\ e.stage \in {"unused", "dropped"} => e.copies = {} /\ ~e.responded
    /\ e.sent => e.stage = "done" /\ e.copies = {}

\* At most one answer is being written or has been.
OneAnswer(e) ==
    \/ ~e.responded /\ e.stream = <<>> /\ e.writing = {}
    \/ e.responded /\ Len(e.stream) = 1 /\ e.writing = {}
    \/ e.responded /\ e.stream = <<>> /\ \E w \in Writers : e.writing = {w}

\* Somebody has yet to decide whether to answer.
SomeoneWill(e) ==
    e.stage \in {"unused", "dropped"} \/ e.responded \/ e.overlap \/ e.copies \ e.checked # {}

\* The handler returned, or the error handler threw.
Chosen(e) == e.outcome \in {"returned", "escaped"} /\ e.stage \in After

\* Whose answer a status is: that of the catch clause, of the handler or a holder, or
\* of the last destructor.
Meant(e, status) == status = 500 \/ e.explicit \/ (status = 204 /\ Chosen(e))

SilenceIsChosen(e) ==
    /\ e.stage \in After /\ ~e.responded => Chosen(e)
    /\ \A w \in e.writing : Meant(e, w.status)
    /\ e.stream # <<>> => Meant(e, Head(e.stream))

Sound(e) == CopiesFit(e) /\ OneAnswer(e) /\ SomeoneWill(e) /\ SilenceIsChosen(e)

-----------------------------------------------------------------------------
(* A client.                                                               *)

\* It performs one of the requests, and what it has received comes from one exchange
\* that was sent.
Received(c) ==
    /\ c.pc # "idle" => c.req \in Requests
    /\ c.pc # "returned" => c.resp.body = {}
    /\ c.resp.headers \cup c.resp.body \subseteq c.resp.raw
    /\ c.resp.raw = {} \/ \E x \in Exchanges : c.resp.raw = {x}
    /\ \A x \in c.resp.raw : /\ ex[x].sent /\ ex[x].stream # <<>>
                             /\ c.resp.status = Head(ex[x].stream)
    /\ c.pc = "await" => c.cur \in Exchanges
    /\ c.pc = "headers" \/ (c.pc = "returned" /\ c.resp.curl = "OK") => c.resp.raw = {c.cur}

ExchangeInv ==
    /\ ExchangeTypeOK
    /\ \A x \in Exchanges : Sound(ex[x])
    /\ \A k \in Clients : Received(cl[k])

-----------------------------------------------------------------------------
(* The steps of an exchange, one after the other.                          *)

\* What write leaves of an exchange: f, for e.
Written(e, p, status, f) ==
    /\ f \in Records /\ f.responded = TRUE
    /\ e.responded => f.writing = e.writing
    /\ ~e.responded => f.writing = e.writing \cup {[by |-> p, status |-> status]}
    /\ f.stage = e.stage /\ f.copies = e.copies /\ f.checked = e.checked
    /\ f.stream = e.stream /\ f.sent = e.sent /\ f.outcome = e.outcome
    /\ f.overlap = e.overlap /\ f.explicit = e.explicit

\* Whoever is first writes.
LEMMA WriteFacts ==
    ASSUME NEW e \in Records, NEW p \in Owners, NEW status \in Statuses,
           NEW f, f = write(e, p, status)
    PROVE  Written(e, p, status, f)
<1> DEFINE w == [by |-> p, status |-> status]
<1>1. w \in Writers
  BY DEF Writers
<1>2. CASE e.responded
  <2>1. f = e /\ e.responded = TRUE
    BY <1>2 DEF write, Records
  <2> QED
    BY <2>1 DEF Written
<1>3. CASE ~e.responded
  <2>1. f = [e EXCEPT !.responded = TRUE, !.writing = @ \cup {w}]
    BY <1>3 DEF write
  <2> HIDE DEF w
  <2>2. f \in Records
    <3>1. e.writing \cup {w} \in SUBSET Writers
      BY <1>1 DEF Records
    <3>2. PICK W \in SUBSET Writers : f = [e EXCEPT !.responded = TRUE, !.writing = W]
      BY <2>1, <3>1
    <3> QED
      BY <3>2, Zenon DEF Records
  <2>3. f.responded = TRUE /\ f.writing = e.writing \cup {w}
    BY <2>1 DEF Records
  <2>4. /\ f.stage = e.stage /\ f.copies = e.copies /\ f.checked = e.checked
        /\ f.stream = e.stream /\ f.sent = e.sent /\ f.outcome = e.outcome
        /\ f.overlap = e.overlap /\ f.explicit = e.explicit
    BY <2>1 DEF Records
  <2> QED
    BY <1>3, <2>2, <2>3, <2>4, Zenon DEF Written, w
<1> QED
  BY <1>2, <1>3

\* A handler or a holder writes or redirects.
LEMMA AnswerKeeps ==
    ASSUME NEW e \in Records, Sound(e), NEW p \in e.copies, NEW status \in Statuses,
           NEW d, d = write(e, p, status), NEW f, f = [d EXCEPT !.explicit = TRUE]
    PROVE  f \in Records /\ Sound(f)
<1>1. p \in Owners
  BY DEF Records
<1>2. Written(e, p, status, d)
  BY <1>1, WriteFacts
<1>3. [by |-> p, status |-> status] \in Writers
  BY <1>1 DEF Writers
<1>4. f \in Records
  BY <1>2, Zenon DEF Records, Written
<1>5. /\ f.stage = e.stage /\ f.copies = e.copies /\ f.checked = e.checked
      /\ f.stream = e.stream /\ f.sent = e.sent /\ f.outcome = e.outcome
      /\ f.overlap = e.overlap /\ f.responded = TRUE /\ f.explicit = TRUE
      /\ e.responded => f.writing = e.writing
      /\ ~e.responded => f.writing = e.writing \cup {[by |-> p, status |-> status]}
  BY <1>2 DEF Records, Written
<1>6. CopiesFit(f)
  BY <1>5 DEF Sound, CopiesFit
<1>7. OneAnswer(f)
  BY <1>3, <1>5 DEF Sound, OneAnswer
<1>8. SilenceIsChosen(f) /\ SomeoneWill(f)
  BY <1>5 DEF SilenceIsChosen, Meant, SomeoneWill
<1> QED
  BY <1>4, <1>6, <1>7, <1>8 DEF Sound

\* The writer is done.
LEMMA WriteResponseKeeps ==
    ASSUME NEW e \in Records, Sound(e), NEW w \in e.writing, NEW f,
           f = [e EXCEPT !.writing = @ \ {w}, !.stream = Append(@, w.status), !.responded = TRUE]
    PROVE  f \in Records /\ Sound(f)
<1>1. w \in Writers /\ w.status \in Statuses
  BY DEF Records, Writers
<1>2. e.responded /\ e.stream = <<>> /\ e.writing = {w}
  BY DEF Sound, OneAnswer
<1>3. /\ Append(e.stream, w.status) \in Streams
      /\ Len(Append(e.stream, w.status)) = 1
      /\ Head(Append(e.stream, w.status)) = w.status
  BY <1>1, <1>2 DEF Streams
<1>4. e.writing \ {w} = {} /\ e.writing \ {w} \in SUBSET Writers
  BY <1>2
<1>5. PICK W \in SUBSET Writers, s \in Streams :
         /\ W = {} /\ s = Append(e.stream, w.status)
         /\ f = [e EXCEPT !.writing = W, !.stream = s, !.responded = TRUE]
  BY <1>3, <1>4, Zenon
<1>6. f \in Records
  BY <1>5, Zenon DEF Records
<1>7. /\ f.stage = e.stage /\ f.copies = e.copies /\ f.checked = e.checked /\ f.sent = e.sent
      /\ f.outcome = e.outcome /\ f.overlap = e.overlap /\ f.explicit = e.explicit
      /\ f.writing = {} /\ f.responded = TRUE /\ Len(f.stream) = 1 /\ Head(f.stream) = w.status
  BY <1>3, <1>5 DEF Records
<1>8. CopiesFit(f)
  BY <1>2, <1>7 DEF Sound, CopiesFit
<1>9. SilenceIsChosen(f)
  BY <1>7 DEF Sound, SilenceIsChosen, Meant, Chosen
<1> QED
  BY <1>6, <1>7, <1>8, <1>9 DEF Sound, OneAnswer, SomeoneWill

\* The destructor of the only copy answers 204.
LEMMA LastAnswers ==
    ASSUME NEW e \in Records, CopiesFit(e), OneAnswer(e), ~e.responded, Chosen(e),
           NEW p \in Owners, e.copies = {p}, NEW f, Written(e, p, 204, f)
    PROVE  f \in Records /\ Sound(f)
<1>1. [by |-> p, status |-> 204] \in Writers
  BY DEF Writers, Statuses
<1>2. f.writing = {[by |-> p, status |-> 204]} /\ e.writing = {}
  BY DEF Written, OneAnswer
<1>3. Chosen(f)
  BY DEF Written, Chosen
<1>4. CopiesFit(f)
  BY <1>2, <1>3 DEF CopiesFit, Written, Chosen, After
<1>5. OneAnswer(f)
  BY <1>1, <1>2 DEF OneAnswer, Written
<1>6. SilenceIsChosen(f)
  <2>1. f.stream = <<>>
    BY DEF Written, OneAnswer
  <2> QED
    BY <1>2, <1>3, <2>1 DEF SilenceIsChosen, Meant
<1> QED
  BY <1>4, <1>5, <1>6 DEF Sound, SomeoneWill, Written

\* The two halves of DestructorChecks.
Decided(e, p, d) ==
    d = [e EXCEPT !.checked = @ \cup {p}, !.overlap = @ \/ (~e.responded /\ e.checked # {})]

LastWord(d, p, f) == f = IF ~d.responded /\ IsLast(d) THEN write(d, p, 204) ELSE d

\* A destructor decides: the last one answers an exchange that nobody has answered.
LEMMA CheckKeeps ==
    ASSUME NEW e \in Records, Sound(e), NEW p \in e.copies \ e.checked,
           \A w \in e.writing : w.by # p,
           p = Wrapped => e.stage \in {"unwind", "escape"},
           NEW d, NEW f, Decided(e, p, d), LastWord(d, p, f)
    PROVE  f \in Records /\ Sound(f)
<1>1. p \in Owners /\ 204 \in Statuses
  BY DEF Records, Statuses
<1>2. e.checked \cup {p} \in SUBSET Owners
  BY <1>1 DEF Records
<1>3. (e.overlap \/ (~e.responded /\ e.checked # {})) \in BOOLEAN
  OBVIOUS
<1>4. PICK C \in SUBSET Owners, o \in BOOLEAN :
         /\ C = e.checked \cup {p} /\ o = (e.overlap \/ (~e.responded /\ e.checked # {}))
         /\ d = [e EXCEPT !.checked = C, !.overlap = o]
  BY <1>2, <1>3, Zenon DEF Decided
<1>5. d \in Records
  BY <1>4, Zenon DEF Records
<1>6. /\ d.stage = e.stage /\ d.copies = e.copies /\ d.sent = e.sent /\ d.outcome = e.outcome
      /\ d.writing = e.writing /\ d.responded = e.responded /\ d.stream = e.stream
      /\ d.checked = e.checked \cup {p} /\ d.explicit = e.explicit
      /\ d.overlap = (e.overlap \/ (~e.responded /\ e.checked # {}))
  BY <1>4 DEF Records
<1>7. CopiesFit(d)
  BY <1>6 DEF Sound, CopiesFit
<1>8. OneAnswer(d) /\ SilenceIsChosen(d)
  BY <1>6 DEF Sound, OneAnswer, SilenceIsChosen, Meant, Chosen
<1>9. IsLast(d) <=> e.copies = {p}
  <2>1. IsFiniteSet(e.copies)
    BY DEF Sound, CopiesFit
  <2>2. Cardinality(e.copies) = 1 <=> \E x : e.copies = {x}
    BY <2>1, FS_Singleton
  <2> QED
    BY <1>6, <2>2 DEF IsLast
<1>10. CASE e.responded \/ e.copies # {p}
  <2>1. f = d
    BY <1>6, <1>9, <1>10, Zenon DEF LastWord
  <2>2. SomeoneWill(d)
    BY <1>6, <1>10 DEF Sound, SomeoneWill, CopiesFit
  <2> QED
    BY <1>5, <1>7, <1>8, <2>1, <2>2 DEF Sound
<1>11. CASE ~e.responded /\ e.copies = {p}
  <2>1. Written(d, p, 204, f)
    <3>1. f = write(d, p, 204)
      BY <1>6, <1>9, <1>11, Zenon DEF LastWord
    <3> QED
      BY <1>1, <1>5, <3>1, WriteFacts
  <2>2. e.stage \in After
    <3>1. e.stage \in Stages /\ e.stage \notin {"unused", "dropped"}
      BY <1>11 DEF Sound, CopiesFit, Records
    <3>2. p = Wrapped \/ e.stage \notin Inside
      BY <1>11 DEF Sound, CopiesFit
    <3> QED
      BY <3>1, <3>2 DEF After, Inside, Stages
  <2>3. Chosen(e)
    BY <1>11, <2>2 DEF Sound, SilenceIsChosen
  <2>4. Chosen(d)
    BY <1>6, <2>3, Zenon DEF Chosen
  <2>5. ~d.responded /\ d.copies = {p}
    BY <1>6, <1>11, Zenon
  <2> QED
    BY <1>1, <1>5, <1>7, <1>8, <2>1, <2>4, <2>5, LastAnswers
<1> QED
  BY <1>10, <1>11

\* What Released leaves of an exchange: f, for d.
SentOrNot(d, f) ==
    /\ f \in Records
    /\ f.copies = d.copies /\ f.checked = d.checked /\ f.stage = d.stage
    /\ f.outcome = d.outcome /\ f.overlap = d.overlap /\ f.writing = d.writing
    /\ f.responded = d.responded /\ f.stream = d.stream /\ f.explicit = d.explicit
    /\ f.sent = (f.copies = {} /\ f.stage = "done")

\* Released only decides whether the exchange is sent.
LEMMA ReleasedFacts ==
    ASSUME NEW d \in Records
    PROVE  SentOrNot(d, Released(d))
<1> DEFINE f == Released(d)
<1>1. PICK b \in BOOLEAN :
         b = (d.copies = {} /\ d.stage = "done") /\ f = [d EXCEPT !.sent = b]
  BY Zenon DEF Released
<1> HIDE DEF f
<1>2. f \in Records
  BY <1>1, Zenon DEF Records
<1>3. /\ f.copies = d.copies /\ f.checked = d.checked /\ f.stage = d.stage
      /\ f.outcome = d.outcome /\ f.overlap = d.overlap /\ f.writing = d.writing
      /\ f.responded = d.responded /\ f.stream = d.stream /\ f.explicit = d.explicit
      /\ f.sent = b
  BY <1>1 DEF Records
<1> QED
  BY <1>1, <1>2, <1>3, Zenon DEF SentOrNot, f

\* The parts of DestructorReleases.
StageAfter(e, p, st) ==
    st = IF p # Wrapped THEN e.stage ELSE IF e.stage = "escape" THEN "onError" ELSE "done"

LetGo(e, p, st, hd, rt, d) ==
    d = [e EXCEPT !.copies = @ \ {p}, !.checked = @ \ {p}, !.stage = st, !.headers = hd,
                  !.route = rt]

\* A copy is gone, with it the lambda if it was the lambda's own, and the last one
\* sends the stream.
LEMMA ReleaseKeeps ==
    ASSUME NEW e \in Records, Sound(e), NEW p \in e.checked, \A w \in e.writing : w.by # p,
           NEW st, NEW hd \in HeaderSets, NEW rt \in Routes, NEW d, NEW f,
           StageAfter(e, p, st), LetGo(e, p, st, hd, rt, d), f = Released(d)
    PROVE  f \in Records /\ Sound(f)
<1>1. e.copies \ {p} \in SUBSET Owners /\ e.checked \ {p} \in SUBSET Owners /\ p \in e.copies
  BY DEF Records, Sound, CopiesFit
<1>2. st \in Stages /\ (p # Wrapped => st = e.stage) /\ (p = Wrapped => st \in {"onError", "done"})
  BY DEF Records, Stages, StageAfter
<1>3. PICK A \in SUBSET Owners, C \in SUBSET Owners :
         /\ A = e.copies \ {p} /\ C = e.checked \ {p}
         /\ d = [e EXCEPT !.copies = A, !.checked = C, !.stage = st, !.headers = hd, !.route = rt]
  BY <1>1, Zenon DEF LetGo
<1>4. d \in Records
  BY <1>2, <1>3, Zenon DEF Records
<1>5. /\ d.copies = e.copies \ {p} /\ d.checked = e.checked \ {p} /\ d.stage = st
      /\ d.outcome = e.outcome /\ d.overlap = e.overlap /\ d.writing = e.writing
      /\ d.responded = e.responded /\ d.stream = e.stream /\ d.explicit = e.explicit
  BY <1>3 DEF Records
<1>6. /\ f \in Records
      /\ f.copies = e.copies \ {p} /\ f.checked = e.checked \ {p} /\ f.stage = st
      /\ f.outcome = e.outcome /\ f.overlap = e.overlap /\ f.writing = e.writing
      /\ f.responded = e.responded /\ f.stream = e.stream /\ f.explicit = e.explicit
      /\ f.sent = (f.copies = {} /\ f.stage = "done")
  <2>1. SentOrNot(d, f)
    BY <1>4, ReleasedFacts
  <2> QED
    BY <1>5, <2>1, Zenon DEF SentOrNot
<1>7. p = Wrapped => e.stage \in After /\ st \in After /\ st \notin Inside
  BY <1>2 DEF Sound, CopiesFit, After, Inside
<1>8. IsFiniteSet(f.copies)
  <2>1. IsFiniteSet(e.copies)
    BY DEF Sound, CopiesFit
  <2> QED
    BY <1>6, <2>1, FS_Subset
<1>9. CopiesFit(f)
  <2>1. /\ f.checked \subseteq f.copies
        /\ \A w \in f.writing : w.by \in f.copies
    BY <1>6 DEF Sound, CopiesFit
  <2>2. /\ Wrapped \in f.copies <=> f.stage \in Inside
        /\ Wrapped \in f.checked => f.stage \in {"unwind", "escape"}
    BY <1>2, <1>6, <1>7 DEF Sound, CopiesFit
  <2>3. f.stage \notin {"unused", "dropped"}
    BY <1>1, <1>2, <1>6 DEF Sound, CopiesFit
  <2> QED
    BY <1>6, <1>8, <2>1, <2>2, <2>3 DEF CopiesFit
<1>10. OneAnswer(f)
  BY <1>6 DEF Sound, OneAnswer
<1>11. SomeoneWill(f)
  <2>1. e.stage \notin {"unused", "dropped"}
    BY <1>1 DEF Sound, CopiesFit
  <2>2. f.copies \ f.checked = e.copies \ e.checked
    BY <1>6
  <2> QED
    BY <1>6, <2>1, <2>2 DEF Sound, SomeoneWill
<1>12. SilenceIsChosen(f)
  <2>1. (f.stage \in After => e.stage \in After) /\ (e.stage \in After => f.stage \in After)
    BY <1>2, <1>6, <1>7
  <2> QED
    BY <1>6, <2>1 DEF Sound, SilenceIsChosen, Meant, Chosen
<1> QED
  BY <1>6, <1>9, <1>10, <1>11, <1>12 DEF Sound

\* The handler hands out a copy.
LEMMA CopyKeeps ==
    ASSUME NEW e \in Records, Sound(e), e.stage = "handler", NEW h \in Holders,
           NEW f, f = [e EXCEPT !.copies = @ \cup {h}]
    PROVE  f \in Records /\ Sound(f)
<1>1. e.copies \cup {h} \in SUBSET Owners
  BY DEF Records, Owners
<1>2. PICK A \in SUBSET Owners : A = e.copies \cup {h} /\ f = [e EXCEPT !.copies = A]
  BY <1>1, Zenon
<1>3. f \in Records
  BY <1>2, Zenon DEF Records
<1>4. /\ f.copies = e.copies \cup {h} /\ f.checked = e.checked /\ f.stage = e.stage
      /\ f.outcome = e.outcome /\ f.overlap = e.overlap /\ f.writing = e.writing
      /\ f.responded = e.responded /\ f.stream = e.stream /\ f.sent = e.sent
      /\ f.explicit = e.explicit
  BY <1>2 DEF Records
<1>5. IsFiniteSet(f.copies)
  <2>1. IsFiniteSet(e.copies)
    BY DEF Sound, CopiesFit
  <2> QED
    BY <1>4, <2>1, FS_AddElement
<1>6. CopiesFit(f)
  BY <1>4, <1>5, ExchangeAssumption DEF Sound, CopiesFit, Inside
<1>7. OneAnswer(f) /\ SilenceIsChosen(f)
  BY <1>4 DEF Sound, OneAnswer, SilenceIsChosen, Meant, Chosen
<1>8. SomeoneWill(f)
  BY <1>4 DEF Sound, SomeoneWill
<1> QED
  BY <1>3, <1>6, <1>7, <1>8 DEF Sound

\* The handler returns or throws, the error handler throws, and the lambda goes on.
LEMMA StageKeeps ==
    ASSUME NEW e \in Records, Sound(e), NEW st, NEW o,
           \/ e.stage = "handler" /\ st = "unwind" /\ o = "returned"
           \/ e.stage = "handler" /\ st = "catch" /\ o = "threw"
           \/ e.stage = "catch" /\ st = "escape" /\ o = "escaped",
           NEW f, f = [e EXCEPT !.stage = st, !.outcome = o]
    PROVE  f \in Records /\ Sound(f)
<1>1. st \in Stages /\ o \in Outcomes
  BY DEF Stages, Outcomes
<1>2. f \in Records
  BY <1>1, Zenon DEF Records
<1>3. /\ f.copies = e.copies /\ f.checked = e.checked /\ f.stage = st
      /\ f.outcome = o /\ f.overlap = e.overlap /\ f.writing = e.writing
      /\ f.responded = e.responded /\ f.stream = e.stream /\ f.sent = e.sent
      /\ f.explicit = e.explicit
  BY DEF Records
<1>4. e.stage \in Inside /\ st \in Inside /\ e.stage \notin After
  BY DEF Inside, After
<1>5. CopiesFit(f)
  BY <1>3, <1>4 DEF Sound, CopiesFit, Inside
<1>6. OneAnswer(f)
  BY <1>3 DEF Sound, OneAnswer
<1>7. SomeoneWill(f)
  BY <1>3 DEF Sound, SomeoneWill
<1>8. SilenceIsChosen(f)
  <2>1. /\ \A w \in e.writing : w.status = 500 \/ e.explicit
        /\ e.stream # <<>> => Head(e.stream) = 500 \/ e.explicit
    BY <1>4 DEF Sound, SilenceIsChosen, Meant, Chosen
  <2>2. st \in After => o \in {"returned", "escaped"}
    BY DEF After
  <2> QED
    BY <1>3, <2>1, <2>2 DEF Sound, SilenceIsChosen, Meant, Chosen
<1> QED
  BY <1>2, <1>5, <1>6, <1>7, <1>8 DEF Sound

\* The catch clause answers 500, if nothing was answered before.
LEMMA CatchKeeps ==
    ASSUME NEW e \in Records, Sound(e), e.stage = "catch",
           NEW d, d = [e EXCEPT !.stage = "unwind"], NEW f, Written(d, Wrapped, 500, f)
    PROVE  f \in Records /\ Sound(f)
<1>1. /\ d.copies = e.copies /\ d.checked = e.checked /\ d.stage = "unwind"
      /\ d.outcome = e.outcome /\ d.overlap = e.overlap /\ d.writing = e.writing
      /\ d.responded = e.responded /\ d.stream = e.stream /\ d.sent = e.sent
      /\ d.explicit = e.explicit
  BY DEF Records
<1>2. [by |-> Wrapped, status |-> 500] \in Writers
  BY DEF Writers, Owners, Statuses
<1>3. /\ f.copies = e.copies /\ f.checked = e.checked /\ f.stage = "unwind"
      /\ f.overlap = e.overlap /\ f.responded = TRUE /\ f.stream = e.stream /\ f.sent = e.sent
      /\ f.explicit = e.explicit
      /\ ~e.responded \/ f.writing = e.writing
      /\ e.responded \/ f.writing = e.writing \cup {[by |-> Wrapped, status |-> 500]}
  BY <1>1 DEF Written
<1>4. Wrapped \in e.copies /\ ~e.sent /\ e.stage \notin After
  BY DEF Sound, CopiesFit, Inside, After
<1>5. CopiesFit(f)
  <2>1. \A w \in f.writing : w.by \in f.copies
    BY <1>3, <1>4 DEF Sound, CopiesFit
  <2> QED
    BY <1>3, <1>4, <2>1 DEF Sound, CopiesFit, Inside
<1>6. OneAnswer(f)
  BY <1>2, <1>3 DEF Sound, OneAnswer
<1>7. SilenceIsChosen(f)
  <2>1. /\ \A w \in e.writing : w.status = 500 \/ e.explicit
        /\ e.stream # <<>> => Head(e.stream) = 500 \/ e.explicit
    BY <1>4 DEF Sound, SilenceIsChosen, Meant, Chosen
  <2> QED
    BY <1>3, <2>1 DEF SilenceIsChosen, Meant
<1> QED
  BY <1>3, <1>5, <1>6, <1>7 DEF Sound, SomeoneWill, Written

\* on_error ends, and with it the exchange.
LEMMA OnErrorKeeps ==
    ASSUME NEW e \in Records, Sound(e), e.stage = "onError",
           NEW d, d = [e EXCEPT !.stage = "done"], NEW f, SentOrNot(d, f)
    PROVE  f \in Records /\ Sound(f)
<1>1. /\ d.copies = e.copies /\ d.checked = e.checked /\ d.stage = "done"
      /\ d.outcome = e.outcome /\ d.overlap = e.overlap /\ d.writing = e.writing
      /\ d.responded = e.responded /\ d.stream = e.stream /\ d.explicit = e.explicit
  BY DEF Records
<1>2. /\ f.copies = e.copies /\ f.checked = e.checked /\ f.stage = "done"
      /\ f.outcome = e.outcome /\ f.overlap = e.overlap /\ f.writing = e.writing
      /\ f.responded = e.responded /\ f.stream = e.stream /\ f.explicit = e.explicit
      /\ f.sent = (f.copies = {} /\ f.stage = "done")
  BY <1>1, Zenon DEF SentOrNot
<1>3. CopiesFit(f)
  BY <1>2 DEF Sound, CopiesFit, Inside
<1>4. OneAnswer(f)
  BY <1>2 DEF Sound, OneAnswer
<1>5. SomeoneWill(f)
  BY <1>2 DEF Sound, SomeoneWill
<1>6. SilenceIsChosen(f)
  BY <1>2 DEF Sound, SilenceIsChosen, Meant, Chosen, After
<1> QED
  BY <1>3, <1>4, <1>5, <1>6 DEF Sound, SentOrNot

\* A request is taken up, or dropped for want of a handler.
LEMMA SendKeeps ==
    ASSUME NEW e \in Records, Sound(e), e.stage = "unused", NEW rt \in Routes,
           NEW hd \in HeaderSets, NEW st, st = IF rt = NoRoute THEN "dropped" ELSE "handler",
           NEW cp, cp = IF rt = NoRoute THEN {} ELSE {Wrapped},
           NEW f, f = [e EXCEPT !.stage = st, !.route = rt, !.headers = hd, !.copies = cp]
    PROVE  f \in Records /\ Sound(f)
<1>1. st \in Stages /\ cp \in SUBSET Owners
  BY DEF Stages, Owners
<1>2. f \in Records
  BY <1>1, Zenon DEF Records
<1>3. /\ f.copies = cp /\ f.checked = e.checked /\ f.stage = st
      /\ f.outcome = e.outcome /\ f.overlap = e.overlap /\ f.writing = e.writing
      /\ f.responded = e.responded /\ f.stream = e.stream /\ f.sent = e.sent
      /\ f.explicit = e.explicit
  BY DEF Records
<1>4. /\ e.copies = {} /\ e.checked = {} /\ ~e.responded /\ ~e.sent
      /\ e.writing = {} /\ e.stream = <<>>
  BY DEF Sound, CopiesFit, OneAnswer
<1>5. (st = "dropped" /\ cp = {}) \/ (st = "handler" /\ cp = {Wrapped})
  BY Zenon
<1>6. CopiesFit(f)
  <2>1. IsFiniteSet({}) /\ IsFiniteSet({Wrapped})
    BY FS_EmptySet, FS_Singleton
  <2> QED
    BY <1>3, <1>4, <1>5, <2>1 DEF CopiesFit, Inside
<1>7. OneAnswer(f)
  BY <1>3, <1>4 DEF OneAnswer
<1>8. SomeoneWill(f)
  BY <1>3, <1>4, <1>5 DEF SomeoneWill
<1>9. SilenceIsChosen(f)
  BY <1>3, <1>4, <1>5 DEF SilenceIsChosen, After
<1> QED
  BY <1>2, <1>6, <1>7, <1>8, <1>9 DEF Sound

-----------------------------------------------------------------------------
(* The steps of the system.                                                *)

\* One exchange goes from e to f, and the clients see nothing of it.
Moves(x, f) ==
    /\ ex' = [ex EXCEPT ![x] = f]
    /\ UNCHANGED <<resources, pending, calls, routes, inForce, curl, cl>>

\* A step of the lambda or of a copy keeps an exchange sound, and finds it unsent.
LEMMA ServerStepKeeps ==
    ASSUME NEW x \in Exchanges, ex[x] \in Records, Sound(ex[x]), ServerStep(x)
    PROVE  ~ex[x].sent /\ \E f \in Records : Sound(f) /\ Moves(x, f)
<1>1. PICK e \in Records : e = ex[x] /\ Sound(e)
  OBVIOUS
<1> DEFINE Goal == ~e.sent /\ \E f \in Records : Sound(f) /\ Moves(x, f)
<1>2. \A y : y \in e.copies \/ y \in e.checked \/ y \in e.writing => ~e.sent
  BY <1>1 DEF Sound, CopiesFit
<1>3. \A f : OnlyExchange(x, f) => Moves(x, f)
  BY DEF OnlyExchange, Moves, serverPart
<1>4. ASSUME HandlerReturns(x) \/ HandlerThrows(x) \/ ErrorHandlerThrows(x) PROVE Goal
  <2>1. PICK st, o :
           /\ \/ e.stage = "handler" /\ st = "unwind" /\ o = "returned"
              \/ e.stage = "handler" /\ st = "catch" /\ o = "threw"
              \/ e.stage = "catch" /\ st = "escape" /\ o = "escaped"
           /\ OnlyExchange(x, [e EXCEPT !.stage = st, !.outcome = o])
    BY <1>1, <1>4, Zenon DEF HandlerReturns, HandlerThrows, ErrorHandlerThrows, LambdaAt
  <2>2. PICK f : f = [e EXCEPT !.stage = st, !.outcome = o] /\ Moves(x, f)
    BY <1>3, <2>1, Zenon
  <2>3. f \in Records /\ Sound(f)
    BY <1>1, <2>1, <2>2, StageKeeps, Zenon
  <2>4. ~e.sent
    BY <1>1, <2>1 DEF Sound, CopiesFit
  <2> QED
    BY <2>2, <2>3, <2>4
<1>5. ASSUME Catches(x) PROVE Goal
  <2>1. PICK d : /\ d = [e EXCEPT !.stage = "unwind"] /\ e.stage = "catch"
                 /\ Moves(x, write(d, Wrapped, 500))
    BY <1>1, <1>3, <1>5, Zenon DEF Catches, LambdaAt
  <2>2. d \in Records
    <3>1. PICK st \in Stages : d = [e EXCEPT !.stage = st]
      BY <2>1, Zenon DEF Stages
    <3> QED
      BY <3>1, ZenonT(30) DEF Records
  <2>3. Wrapped \in Owners /\ 500 \in Statuses
    BY DEF Owners, Statuses
  <2>4. PICK f : f = write(d, Wrapped, 500) /\ Moves(x, f)
    BY <2>1, Zenon
  <2>5. Written(d, Wrapped, 500, f)
    BY <2>2, <2>3, <2>4, WriteFacts, Zenon
  <2>6. f \in Records /\ Sound(f)
    BY <1>1, <2>1, <2>5, CatchKeeps, Zenon
  <2>7. ~e.sent
    BY <1>1, <2>1 DEF Sound, CopiesFit
  <2> QED
    BY <2>4, <2>6, <2>7
<1>6. ASSUME OnError(x) \/ OnErrorThrows(x) PROVE Goal
  <2>1. PICK d : /\ d = [e EXCEPT !.stage = "done"] /\ e.stage = "onError"
                 /\ Moves(x, Released(d))
    <3>1. CASE OnError(x)
      BY <1>1, <1>3, <3>1, Zenon DEF OnError, LambdaAt
    <3>2. CASE OnErrorThrows(x)
      BY <1>1, <3>2 DEF OnErrorThrows, LambdaAt, Moves
    <3> QED
      BY <1>6, <3>1, <3>2
  <2>2. d \in Records
    <3>1. "done" \in Stages
      BY DEF Stages
    <3> QED
      BY <2>1, <3>1, Zenon DEF Records
  <2>3. PICK f : f = Released(d) /\ Moves(x, f)
    BY <2>1, Zenon
  <2>4. SentOrNot(d, f)
    BY <2>2, <2>3, ReleasedFacts, Zenon
  <2>5. f \in Records /\ Sound(f)
    BY <1>1, <2>1, <2>4, OnErrorKeeps, Zenon
  <2>6. ~e.sent
    BY <1>1, <2>1 DEF Sound, CopiesFit
  <2> QED
    BY <2>3, <2>5, <2>6
<1>7. ASSUME NEW h \in Holders, HandlerCopies(x, h) PROVE Goal
  <2>1. PICK f : /\ f = [e EXCEPT !.copies = @ \cup {h}] /\ e.stage = "handler"
                 /\ Moves(x, f)
    BY <1>1, <1>3, <1>7, Zenon DEF HandlerCopies, LambdaAt
  <2>2. f \in Records /\ Sound(f)
    BY <1>1, <2>1, CopyKeeps, Zenon
  <2>3. ~e.sent
    BY <1>1, <2>1 DEF Sound, CopiesFit
  <2> QED
    BY <2>1, <2>2, <2>3
<1>8. ASSUME NEW p \in Owners, NEW status \in Statuses, Answer(x, p, status) PROVE Goal
  <2>1. p \in e.copies
    BY <1>1, <1>8 DEF Answer, Ready
  <2>2. PICK d, f : /\ d = write(e, p, status) /\ f = [d EXCEPT !.explicit = TRUE]
                    /\ Moves(x, f)
    BY <1>1, <1>3, <1>8, Zenon DEF Answer
  <2>3. f \in Records /\ Sound(f)
    BY <1>1, <2>1, <2>2, AnswerKeeps
  <2> QED
    BY <1>2, <2>1, <2>2, <2>3
<1>9. ASSUME NEW w \in ex[x].writing, writeResponse(x, w) PROVE Goal
  <2>1. PICK f : /\ f = [e EXCEPT !.writing = @ \ {w}, !.stream = Append(@, w.status),
                                  !.responded = TRUE]
                 /\ Moves(x, f) /\ w \in e.writing
    BY <1>1, <1>3, <1>9, Zenon DEF writeResponse
  <2>2. f \in Records /\ Sound(f)
    BY <1>1, <2>1, WriteResponseKeeps, Zenon
  <2> QED
    BY <1>2, <2>1, <2>2
<1>10. ASSUME NEW p \in Owners, DestructorChecks(x, p) PROVE Goal
  <2>1. PICK d, f : Decided(e, p, d) /\ LastWord(d, p, f) /\ Moves(x, f)
    BY <1>1, <1>3, <1>10, Zenon DEF DestructorChecks, Decided, LastWord
  <2>2. /\ p \in e.copies \ e.checked
        /\ \A w \in e.writing : w.by # p
        /\ p = Wrapped => e.stage \in {"unwind", "escape"}
    BY <1>1, <1>10, Zenon DEF DestructorChecks, Ready
  <2>3. f \in Records /\ Sound(f)
    BY <1>1, <2>1, <2>2, CheckKeeps
  <2>4. ~e.sent
    BY <1>2, <2>2
  <2> QED
    BY <2>1, <2>3, <2>4
<1>11. ASSUME NEW p \in Owners, DestructorReleases(x, p) PROVE Goal
  <2>1. PICK st, hd, rt, d :
           /\ StageAfter(e, p, st) /\ LetGo(e, p, st, hd, rt, d)
           /\ hd = IF p = Wrapped THEN {} ELSE e.headers
           /\ rt = IF p = Wrapped THEN NoRoute ELSE e.route
           /\ Moves(x, Released(d))
    BY <1>1, <1>3, <1>11, Zenon DEF DestructorReleases, StageAfter, LetGo
  <2>2. p \in e.checked /\ \A w \in e.writing : w.by # p
    BY <1>1, <1>11, Zenon DEF DestructorReleases
  <2>3. hd \in HeaderSets /\ rt \in Routes
    BY <2>1 DEF Records, HeaderSets, Routes
  <2>4. PICK f : f = Released(d) /\ Moves(x, f)
    BY <2>1, Zenon
  <2>5. f \in Records /\ Sound(f)
    BY <1>1, <2>1, <2>2, <2>3, <2>4, ReleaseKeeps
  <2>6. ~e.sent
    BY <1>2, <2>2
  <2> QED
    BY <2>4, <2>5, <2>6
<1> HIDE DEF Goal
<1>12. Goal
  BY <1>4, <1>5, <1>6, <1>7, <1>8, <1>9, <1>10, <1>11 DEF ServerStep
<1> QED
  BY <1>1, <1>12 DEF Goal

-----------------------------------------------------------------------------
(* The steps of the clients.                                               *)

\* A client goes on, and what it has received is in order.
Goes(k) == \E c \in Performs : cl' = [cl EXCEPT ![k] = c] /\ Received(c)

\* perform gives up.
LEMMA FailGoes ==
    ASSUME cl \in [Clients -> Performs], NEW k \in Clients, Received(cl[k]),
           cl[k].pc # "idle", NEW code \in Codes \ {"OK"}, Fail(k, code)
    PROVE  Goes(k)
<1>1. PICK c0 \in Performs : c0 = cl[k]
  OBVIOUS
<1>2. PICK r : r = [c0.resp EXCEPT !.curl = code]
  OBVIOUS
<1>3. r \in Responses /\ "returned" \in Places
  BY <1>1, <1>2 DEF Performs, Responses, Places
<1>4. PICK c : c = [c0 EXCEPT !.pc = "returned", !.resp = r]
  OBVIOUS
<1>5. c \in Performs
  BY <1>3, <1>4, Zenon DEF Performs
<1>6. cl' = [cl EXCEPT ![k] = c]
  BY <1>1, <1>2, <1>4 DEF Fail, Performs
<1>7. c.pc = "returned" /\ c.req = c0.req /\ c.cur = c0.cur /\ c.resp = r
  BY <1>4 DEF Performs
<1>8. /\ r.curl = code /\ r.status = c0.resp.status /\ r.raw = c0.resp.raw
      /\ r.headers = c0.resp.headers /\ r.body = c0.resp.body
  BY <1>1, <1>2 DEF Performs, Responses
<1>9. Received(c)
  BY <1>1, <1>7, <1>8 DEF Received
<1> QED
  BY <1>5, <1>6, <1>9 DEF Goes

\* perform goes from one place to the next.
LEMMA PlaceGoes ==
    ASSUME cl \in [Clients -> Performs], NEW k \in Clients, Received(cl[k]),
           cl[k].pc \in {"init", "handle", "stdin"}, NEW loc \in {"handle", "stdin", "send"},
           cl' = [cl EXCEPT ![k].pc = loc]
    PROVE  Goes(k)
<1>1. PICK c0 \in Performs : c0 = cl[k]
  OBVIOUS
<1>2. PICK c : c = [c0 EXCEPT !.pc = loc]
  OBVIOUS
<1>3. c \in Performs
  <2>1. loc \in Places
    BY DEF Places
  <2> QED
    BY <1>2, <2>1, Zenon DEF Performs
<1>4. cl' = [cl EXCEPT ![k] = c]
  BY <1>1, <1>2
<1>5. c.pc = loc /\ c.req = c0.req /\ c.cur = c0.cur /\ c.resp = c0.resp
  BY <1>2 DEF Performs
<1>6. Received(c)
  BY <1>1, <1>5 DEF Received
<1> QED
  BY <1>3, <1>4, <1>6 DEF Goes

\* perform begins.
LEMMA PerformGoes ==
    ASSUME cl \in [Clients -> Performs], NEW k \in Clients, Received(cl[k]),
           NEW r \in Requests, Perform(k, r)
    PROVE  Goes(k)
<1>1. PICK c0 \in Performs : c0 = cl[k] /\ c0.pc = "idle"
  BY DEF Perform, ClientAt
<1>2. PICK loc, code : /\ loc = IF r.url = Empty THEN "returned" ELSE "init"
                       /\ code = IF r.url = Empty THEN "URL_MALFORMAT" ELSE "OK"
  OBVIOUS
<1>3. /\ loc \in Places /\ code \in Codes /\ (loc = "returned" => code # "OK")
      /\ loc \notin {"idle", "await", "headers"}
  BY <1>2 DEF Places, Codes
<1>4. PICK s : s = [c0.resp EXCEPT !.curl = code]
  OBVIOUS
<1>5. s \in Responses
  BY <1>1, <1>3, <1>4 DEF Performs, Responses
<1>6. PICK c : c = [c0 EXCEPT !.req = r, !.url = r.url, !.pc = loc, !.resp = s]
  OBVIOUS
<1>7. c \in Performs
  <2>1. r \in {NoRequest} \cup Requests /\ r.url \in {Empty} \cup {q.url : q \in Requests}
    OBVIOUS
  <2> QED
    BY <1>3, <1>5, <1>6, <2>1, Zenon DEF Performs
<1>8. cl' = [cl EXCEPT ![k] = c]
  BY <1>1, <1>2, <1>4, <1>6 DEF Perform, Performs
<1>9. c.pc = loc /\ c.req = r /\ c.cur = c0.cur /\ c.resp = s
  BY <1>6 DEF Performs
<1>10. /\ s.curl = code /\ s.status = c0.resp.status /\ s.raw = c0.resp.raw
       /\ s.headers = c0.resp.headers /\ s.body = c0.resp.body
  BY <1>1, <1>4 DEF Performs, Responses
<1>11. Received(c)
  BY <1>1, <1>3, <1>9, <1>10 DEF Received
<1> QED
  BY <1>7, <1>8, <1>11 DEF Goes

\* The request is on the wire.
LEMMA SendGoes ==
    ASSUME cl \in [Clients -> Performs], NEW k \in Clients, Received(cl[k]),
           NEW x \in Exchanges, Send(k, x)
    PROVE  Goes(k)
<1>1. PICK c0 \in Performs : c0 = cl[k] /\ c0.pc = "send"
  BY DEF Send, ClientAt
<1>2. PICK c : c = [c0 EXCEPT !.pc = "await", !.cur = x]
  OBVIOUS
<1>3. c \in Performs
  <2>1. "await" \in Places /\ x \in {0} \cup Exchanges
    BY DEF Places
  <2> QED
    BY <1>2, <2>1, Zenon DEF Performs
<1>4. cl' = [cl EXCEPT ![k] = c]
  <2>1. cl' = [cl EXCEPT ![k].pc = "await", ![k].cur = x]
    BY Zenon DEF Send
  <2> QED
    BY <1>1, <1>2, <2>1 DEF Performs
<1>5. c.pc = "await" /\ c.req = c0.req /\ c.cur = x /\ c.resp = c0.resp
  BY <1>2 DEF Performs
<1>6. Received(c)
  BY <1>1, <1>5 DEF Received
<1> QED
  BY <1>3, <1>4, <1>6 DEF Goes

\* A status line arrives, and what came before it is forgotten.
LEMMA StatusGoes ==
    ASSUME cl \in [Clients -> Performs], ex \in [Exchanges -> Records], NEW k \in Clients,
           Received(cl[k]), ReceivesStatus(k)
    PROVE  Goes(k)
<1>1. PICK c0 \in Performs : c0 = cl[k] /\ c0.pc = "await"
  BY DEF ReceivesStatus, ClientAt
<1>2. PICK x \in Exchanges : x = c0.cur
  BY <1>1 DEF Received
<1>3. ex[x].sent /\ ex[x].stream # <<>>
  BY <1>1, <1>2 DEF ReceivesStatus
<1>4. ex[x].stream \in Seq(Statuses)
  BY DEF Records, Streams
<1>5. PICK status \in Statuses : status = Head(ex[x].stream)
  BY <1>3, <1>4
<1>6. PICK s : s = StatusLine(c0.resp, x)
  OBVIOUS
<1>7. /\ s \in Responses
      /\ s.curl = c0.resp.curl /\ s.status = status /\ s.raw = {x} /\ s.headers = {}
      /\ s.body = c0.resp.body
  BY <1>1, <1>5, <1>6 DEF StatusLine, Performs, Responses
<1>8. PICK c : c = [c0 EXCEPT !.pc = "headers", !.resp = s]
  OBVIOUS
<1>9. c \in Performs
  <2>1. "headers" \in Places
    BY DEF Places
  <2> QED
    BY <1>7, <1>8, <2>1, Zenon DEF Performs
<1>10. cl' = [cl EXCEPT ![k] = c]
  <2>1. cl' = [cl EXCEPT ![k].pc = "headers", ![k].resp = StatusLine(@, x)]
    BY <1>1, <1>2, Zenon DEF ReceivesStatus
  <2> QED
    BY <1>1, <1>6, <1>8, <2>1 DEF Performs
<1>11. c.pc = "headers" /\ c.req = c0.req /\ c.cur = c0.cur /\ c.resp = s
  BY <1>8 DEF Performs
<1>12. Received(c)
  BY <1>1, <1>2, <1>3, <1>5, <1>7, <1>11 DEF Received
<1> QED
  BY <1>9, <1>10, <1>12 DEF Goes

\* The headers and the body of the hop.
LEMMA RestGoes ==
    ASSUME cl \in [Clients -> Performs], NEW k \in Clients, Received(cl[k]),
           NEW q \in Requests, ReceivesRest(k, q.url)
    PROVE  Goes(k)
<1>1. PICK c0 \in Performs : c0 = cl[k] /\ c0.pc = "headers"
  BY DEF ReceivesRest, ClientAt
<1>2. PICK s : s = [c0.resp EXCEPT !.headers = @ \cup {c0.cur}]
  OBVIOUS
<1>3. PICK x \in Exchanges : x = c0.cur /\ c0.resp.raw = {x}
  BY <1>1 DEF Received
<1>4. /\ s \in Responses
      /\ s.curl = c0.resp.curl /\ s.status = c0.resp.status /\ s.raw = {x}
      /\ s.headers \subseteq {x} /\ s.body = {}
  BY <1>1, <1>2, <1>3 DEF Performs, Responses, Received
<1>5. ex[x].sent /\ ex[x].stream # <<>> /\ s.status = Head(ex[x].stream)
  BY <1>1, <1>3, <1>4 DEF Received
<1>6. ASSUME NEW c \in Performs, NEW loc, NEW t, c.pc = loc, c.req = c0.req, c.cur = c0.cur,
             c.resp = t, t.raw = {x}, t.headers = s.headers, t.status = s.status,
             \/ loc = "send" /\ t.body = {}
             \/ loc = "returned" /\ t.body \subseteq {x}
      PROVE  Received(c)
  BY <1>1, <1>3, <1>4, <1>5, <1>6 DEF Received
<1>7. CASE s.status = 302 /\ c0.req.followRedirects /\ c0.hops < c0.req.maxRedirects
  <2>1. PICK c : c = [c0 EXCEPT !.pc = "send", !.hops = @ + 1, !.url = q.url, !.resp = s]
    OBVIOUS
  <2>2. c \in Performs
    <3>1. "send" \in Places /\ c0.hops + 1 \in Nat
      <4>1. "send" \in Places
        BY DEF Places
      <4>2. c0.hops \in Nat
        BY DEF Performs
      <4> QED
        BY <4>1, <4>2
    <3>3. q.url \in {Empty} \cup {r.url : r \in Requests}
      BY Zenon
    <3>2. PICK n \in Nat : c = [c0 EXCEPT !.pc = "send", !.hops = n, !.url = q.url, !.resp = s]
      BY <2>1, <3>1, Zenon
    <3> QED
      BY <1>4, <3>1, <3>2, <3>3, Zenon DEF Performs
  <2>3. c.pc = "send" /\ c.req = c0.req /\ c.cur = c0.cur /\ c.resp = s
    BY <2>1 DEF Performs
  <2>4. cl' = [cl EXCEPT ![k] = c]
    BY <1>1, <1>2, <1>7, <2>1, Zenon DEF ReceivesRest
  <2> QED
    BY <1>4, <1>6, <2>2, <2>3, <2>4 DEF Goes
<1>8. CASE s.status = 302 /\ c0.req.followRedirects /\ ~(c0.hops < c0.req.maxRedirects)
  <2>1. PICK t : t = [s EXCEPT !.curl = "TOO_MANY_REDIRECTS"]
    OBVIOUS
  <2>2. /\ t \in Responses
        /\ t.raw = s.raw /\ t.headers = s.headers /\ t.body = s.body /\ t.status = s.status
    BY <1>4, <2>1 DEF Responses, Codes
  <2>3. PICK c : c = [c0 EXCEPT !.pc = "returned", !.resp = t]
    OBVIOUS
  <2>4. c \in Performs
    <3>1. "returned" \in Places
      BY DEF Places
    <3> QED
      BY <2>2, <2>3, <3>1, Zenon DEF Performs
  <2>5. c.pc = "returned" /\ c.req = c0.req /\ c.cur = c0.cur /\ c.resp = t
    BY <2>3 DEF Performs
  <2>6. cl' = [cl EXCEPT ![k] = c]
    BY <1>1, <1>2, <1>8, <2>1, <2>3, Zenon DEF ReceivesRest
  <2> QED
    BY <1>4, <1>6, <2>2, <2>4, <2>5, <2>6 DEF Goes
<1>9. CASE ~(s.status = 302 /\ c0.req.followRedirects)
  <2>1. PICK t : t = IF s.status = 200 /\ c0.req.method # "HEAD"
                     THEN writeBodyCallback(s, c0.cur) ELSE s
    OBVIOUS
  <2>2. /\ t \in Responses
        /\ t.raw = s.raw /\ t.headers = s.headers /\ t.body \subseteq {x} /\ t.status = s.status
    <3>1. CASE t = s
      BY <1>4, <3>1
    <3>2. CASE t = [s EXCEPT !.body = @ \cup {x}]
      BY <1>4, <3>2 DEF Responses
    <3> QED
      BY <1>3, <2>1, <3>1, <3>2, Zenon DEF writeBodyCallback
  <2>3. PICK c : c = [c0 EXCEPT !.pc = "returned", !.resp = t]
    OBVIOUS
  <2>4. c \in Performs
    <3>1. "returned" \in Places
      BY DEF Places
    <3> QED
      BY <2>2, <2>3, <3>1, Zenon DEF Performs
  <2>5. c.pc = "returned" /\ c.req = c0.req /\ c.cur = c0.cur /\ c.resp = t
    BY <2>3 DEF Performs
  <2>6. cl' = [cl EXCEPT ![k] = c]
    BY <1>1, <1>2, <1>9, <2>1, <2>3, Zenon DEF ReceivesRest
  <2> QED
    BY <1>4, <1>6, <2>2, <2>4, <2>5, <2>6 DEF Goes
<1> QED
  BY <1>7, <1>8, <1>9

\* Whatever a client does, it goes on in order.
LEMMA ClientGoes ==
    ASSUME ExchangeInv, NEW k \in Clients,
           \/ ClientStep(k) \/ InputEnds(k)
           \/ \E r \in Requests : Perform(k, r)
    PROVE  Goes(k)
<1>1. cl \in [Clients -> Performs] /\ ex \in [Exchanges -> Records] /\ Received(cl[k])
  BY DEF ExchangeInv, ExchangeTypeOK
<1>2. ASSUME NEW code \in {"FAILED_INIT", "FAILED", "TIMEDOUT"}, cl[k].pc # "idle", Fail(k, code)
      PROVE  Goes(k)
  <2>1. code \in Codes \ {"OK"}
    BY <1>2 DEF Codes
  <2> QED
    BY <1>1, <1>2, <2>1, FailGoes
<1>3. ASSUME ensureCurlGlobalInit(k) PROVE Goes(k)
  <2>1. cl[k].pc = "init" /\ curl' \in {"OK", "FAILED_INIT"}
    BY <1>3 DEF ensureCurlGlobalInit, ClientAt, ExchangeInv, ExchangeTypeOK
  <2>2. CASE curl' = "OK"
    <3>1. cl' = [cl EXCEPT ![k].pc = "handle"]
      BY <1>3, <2>2, Zenon DEF ensureCurlGlobalInit
    <3> QED
      BY <1>1, <2>1, <3>1, PlaceGoes
  <2>3. CASE curl' # "OK"
    <3>1. Fail(k, curl')
      BY <1>3, <2>3, Zenon DEF ensureCurlGlobalInit
    <3>2. Fail(k, "FAILED_INIT")
      BY <2>1, <2>3, <3>1 DEF Fail
    <3> QED
      BY <1>2, <2>1, <3>2
  <2> QED
    BY <2>2, <2>3
<1>4. ASSUME NoHandle(k) PROVE Goes(k)
  BY <1>2, <1>4 DEF NoHandle, ClientAt
<1>5. ASSUME SetUp(k) PROVE Goes(k)
  <2>1. PICK loc \in {"stdin", "send"} : cl' = [cl EXCEPT ![k].pc = loc]
    BY <1>5 DEF SetUp
  <2> QED
    BY <1>1, <1>5, <2>1, PlaceGoes DEF SetUp, ClientAt
<1>6. ASSUME InputEnds(k) PROVE Goes(k)
  BY <1>1, <1>6, PlaceGoes DEF InputEnds, ClientAt
<1>7. ASSUME Broken(k) PROVE Goes(k)
  <2>1. Fail(k, "FAILED") /\ cl[k].pc # "idle"
    BY <1>7 DEF Broken, ClientAt
  <2> QED
    BY <1>2, <2>1
<1>8. ASSUME TimesOut(k) PROVE Goes(k)
  <2>1. Fail(k, "TIMEDOUT") /\ cl[k].pc # "idle"
    BY <1>8 DEF TimesOut
  <2> QED
    BY <1>2, <2>1
<1> QED
  BY <1>1, <1>3, <1>4, <1>5, <1>6, <1>7, <1>8, SendGoes, StatusGoes, RestGoes, PerformGoes, Zenon
     DEF ClientStep

\* What a client does leaves the exchanges alone, except that it sends a request, and
\* the routes and the server.
LEMMA ClientLeaves ==
    ASSUME ExchangeInv, NEW k \in Clients,
           \/ ClientStep(k) \/ InputEnds(k)
           \/ \E r \in Requests : Perform(k, r)
    PROVE  /\ UNCHANGED serverPart
           /\ curl' \in {"untried", "OK", "FAILED_INIT"}
           /\ ex' = ex \/ \E x \in Exchanges : Send(k, x)
<1>1. curl \in {"untried", "OK", "FAILED_INIT"}
  BY DEF ExchangeInv, ExchangeTypeOK
<1>2. ASSUME ensureCurlGlobalInit(k)
      PROVE  /\ UNCHANGED <<serverPart, ex>>
             /\ curl' \in {"untried", "OK", "FAILED_INIT"}
  BY <1>1, <1>2 DEF ensureCurlGlobalInit
<1>3. ASSUME \/ NoHandle(k) \/ SetUp(k) \/ Broken(k) \/ ReceivesStatus(k) \/ TimesOut(k)
             \/ InputEnds(k) \/ \E r \in Requests : Perform(k, r) \/ ReceivesRest(k, r.url)
      PROVE  UNCHANGED <<serverPart, curl, ex>>
  BY <1>3, Zenon DEF NoHandle, SetUp, Broken, ReceivesStatus, TimesOut, InputEnds, Perform,
                     ReceivesRest
<1>4. ASSUME NEW x \in Exchanges, Send(k, x) PROVE UNCHANGED <<serverPart, curl>>
  BY <1>4, Zenon DEF Send
<1>5. CASE ensureCurlGlobalInit(k)
  BY <1>2, <1>5
<1>6. CASE \/ NoHandle(k) \/ SetUp(k) \/ Broken(k) \/ ReceivesStatus(k) \/ TimesOut(k)
           \/ InputEnds(k) \/ \E r \in Requests : Perform(k, r) \/ ReceivesRest(k, r.url)
  BY <1>1, <1>3, <1>6
<1>7. CASE \E x \in Exchanges : Send(k, x)
  BY <1>1, <1>4, <1>7
<1> QED
  BY <1>5, <1>6, <1>7, Zenon DEF ClientStep

\* A request that is taken up makes a sound exchange of an unused one.
LEMMA SendMoves ==
    ASSUME ExchangeInv, NEW k \in Clients, NEW x \in Exchanges, Send(k, x)
    PROVE  ~ex[x].sent /\ \E f \in Records : Sound(f) /\ ex' = [ex EXCEPT ![x] = f]
<1>1. PICK e \in Records : e = ex[x] /\ Sound(e)
  BY DEF ExchangeInv, ExchangeTypeOK
<1>2. PICK rt : rt = Route(routes, cl[k].url, WireMethod(cl[k].req, cl[k].hops))
  OBVIOUS
<1>3. rt \in Routes
  <2>1. \A q \in routes : q.handler \in Routes
    BY DEF ExchangeInv, ExchangeTypeOK, Routes
  <2>2. NoRoute \in Routes
    BY DEF Routes
  <2>3. \A S : S # {} => (CHOOSE q \in S : TRUE) \in S
    OBVIOUS
  <2> QED
    BY <1>2, <2>1, <2>2, <2>3 DEF Route
<1>4. PICK hd \in HeaderSets : hd = RequestHeaders(cl[k].req)
  <2>1. cl[k].req \in Requests
    BY DEF Send, ClientAt, ExchangeInv, Received
  <2> QED
    BY <2>1, Zenon DEF HeaderSets
<1>5. PICK st, cp, f :
         /\ st = IF rt = NoRoute THEN "dropped" ELSE "handler"
         /\ cp = IF rt = NoRoute THEN {} ELSE {Wrapped}
         /\ f = [e EXCEPT !.stage = st, !.route = rt, !.headers = hd, !.copies = cp]
         /\ ex' = [ex EXCEPT ![x] = f]
         /\ e.stage = "unused"
  BY <1>1, <1>2, <1>4, Zenon DEF Send
<1>6. f \in Records /\ Sound(f)
  BY <1>1, <1>3, <1>5, SendKeeps, Zenon
<1>7. ~e.sent
  BY <1>1, <1>5 DEF Sound, CopiesFit
<1> QED
  BY <1>1, <1>5, <1>6, <1>7, Zenon

\* What a client has received stays as it is while the exchanges that were sent do.
LEMMA ReceivedStays ==
    ASSUME NEW c \in Performs, Received(c),
           \A x \in Exchanges : ex[x].sent => ex'[x] = ex[x]
    PROVE  Received(c)'
<1>1. c.resp.raw \subseteq Exchanges
  BY DEF Performs, Responses
<1> QED
  BY <1>1 DEF Received

-----------------------------------------------------------------------------
(* The invariant.                                                          *)

\* At most one exchange moves, one that was not sent.
Forward ==
    \/ ex' = ex
    \/ \E x \in Exchanges, f \in Records : ~ex[x].sent /\ Sound(f) /\ ex' = [ex EXCEPT ![x] = f]

\* At most one client moves.
Onward == cl' = cl \/ \E k \in Clients : Goes(k)

\* Such a step keeps the exchanges sound.
LEMMA ForwardKeeps ==
    ASSUME ExchangeInv, Forward
    PROVE  /\ ex' \in [Exchanges -> Records]
           /\ \A x \in Exchanges : Sound(ex[x])'
           /\ \A x \in Exchanges : ex[x].sent => ex'[x] = ex[x]
<1>1. ex \in [Exchanges -> Records] /\ \A x \in Exchanges : Sound(ex[x])
  BY DEF ExchangeInv, ExchangeTypeOK
<1>2. CASE ex' = ex
  BY <1>1, <1>2 DEF Sound, CopiesFit, OneAnswer, SomeoneWill, SilenceIsChosen, Chosen
<1>3. ASSUME NEW x \in Exchanges, NEW f \in Records, ~ex[x].sent, Sound(f),
             ex' = [ex EXCEPT ![x] = f]
      PROVE  /\ ex' \in [Exchanges -> Records]
             /\ \A y \in Exchanges : Sound(ex'[y])
             /\ \A y \in Exchanges : ex[y].sent => ex'[y] = ex[y]
  <2>1. ex' \in [Exchanges -> Records]
    BY <1>1, <1>3
  <2>2. \A y \in Exchanges : ex'[y] = IF y = x THEN f ELSE ex[y]
    BY <1>1, <1>3
  <2> QED
    BY <1>1, <1>3, <2>1, <2>2
<1> QED
  BY <1>2, <1>3 DEF Forward

\* ... and what the clients have received in order.
LEMMA OnwardKeeps ==
    ASSUME ExchangeInv, Onward, \A x \in Exchanges : ex[x].sent => ex'[x] = ex[x]
    PROVE  cl' \in [Clients -> Performs] /\ \A k \in Clients : Received(cl[k])'
<1>1. cl \in [Clients -> Performs] /\ \A k \in Clients : Received(cl[k])
  BY DEF ExchangeInv, ExchangeTypeOK
<1>2. cl' \in [Clients -> Performs] /\ \A k \in Clients : Received(cl'[k])
  <2>1. CASE cl' = cl
    BY <1>1, <2>1
  <2>2. ASSUME NEW k \in Clients, NEW c \in Performs, cl' = [cl EXCEPT ![k] = c], Received(c)
        PROVE  cl' \in [Clients -> Performs] /\ \A j \in Clients : Received(cl'[j])
    <3>1. cl' \in [Clients -> Performs]
      BY <1>1, <2>2
    <3>2. \A j \in Clients : cl'[j] = IF j = k THEN c ELSE cl[j]
      BY <1>1, <2>2
    <3> QED
      BY <1>1, <2>2, <3>1, <3>2
  <2> QED
    BY <2>1, <2>2 DEF Onward, Goes
<1>3. ASSUME NEW k \in Clients PROVE Received(cl[k])'
  <2>1. PICK c \in Performs : c = cl'[k] /\ Received(c)
    BY <1>2
  <2>2. Received(c)'
    BY <2>1, ReceivedStays
  <2> QED
    BY <2>1, <2>2 DEF Received
<1> QED
  BY <1>2, <1>3

\* The invariant holds before the first registration ...
LEMMA InitHolds ==
    ASSUME ExchangeInit
    PROVE  ExchangeInv
<1>1. NewExchange \in Records
  <2>1. NoRoute \in Routes /\ {} \in HeaderSets /\ <<>> \in Streams
    BY DEF Routes, HeaderSets, Streams
  <2>2. "unused" \in Stages /\ "none" \in Outcomes
    BY DEF Stages, Outcomes
  <2> QED
    BY <2>1, <2>2 DEF NewExchange, Records
<1>2. Sound(NewExchange)
  <2>1. IsFiniteSet({})
    BY FS_EmptySet
  <2> QED
    BY <2>1 DEF NewExchange, Sound, CopiesFit, OneAnswer, SomeoneWill, SilenceIsChosen, Inside,
                After
<1>3. PICK s, c : s = NoResponse /\ c = [pc |-> "idle", req |-> NoRequest, url |-> Empty, hops |-> 0,
                                         cur |-> 0, resp |-> s]
  OBVIOUS
<1>4. s \in Responses /\ s.raw = {} /\ s.headers = {} /\ s.body = {}
  BY <1>3 DEF NoResponse, Responses, Codes
<1>5. c \in Performs
  <2>1. "idle" \in Places
    BY DEF Places
  <2> QED
    BY <1>3, <1>4, <2>1, Zenon DEF Performs
<1>6. c.pc = "idle" /\ c.resp = s
  BY <1>3, Zenon
<1>7. Received(c)
  BY <1>4, <1>6 DEF Received
<1>8. ex = [x \in Exchanges |-> NewExchange] /\ cl = [k \in Clients |-> c]
  BY <1>3, Zenon DEF ExchangeInit
<1>9. /\ resources = {} /\ pending = {} /\ calls = <<>> /\ routes = {} /\ inForce = 0
      /\ serving = "no" /\ curl = "untried"
  BY Zenon DEF ExchangeInit
<1>10. /\ \A q \in resources \cup routes : q.handler \in {r.handler : r \in Registrations}
       /\ pending \subseteq Registrations /\ calls \in Seq(Registrations)
       /\ inForce \in Nat /\ inForce <= Len(calls)
       /\ serving \in Phases /\ curl \in {"untried", "OK", "FAILED_INIT"}
  BY <1>9 DEF Phases
<1> QED
  BY <1>1, <1>2, <1>5, <1>7, <1>8, <1>10 DEF ExchangeInv, ExchangeTypeOK

\* ... and every step of a client, of the server and of the copies keeps it.
LEMMA NextKeeps ==
    ASSUME ExchangeInv, [ExchangeNext]_exchangeVars
    PROVE  ExchangeInv'
<1> DEFINE Rest ==
      /\ \A q \in resources \cup routes : q.handler \in {r.handler : r \in Registrations}
      /\ pending \subseteq Registrations
      /\ calls \in Seq(Registrations)
      /\ inForce \in Nat /\ inForce <= Len(calls)
      /\ serving \in Phases
      /\ curl \in {"untried", "OK", "FAILED_INIT"}
<1>1. Rest
  BY DEF ExchangeInv, ExchangeTypeOK
<1>2. ASSUME Forward, Onward, Rest' PROVE ExchangeInv'
  <2>1. /\ ex' \in [Exchanges -> Records] /\ \A x \in Exchanges : Sound(ex[x])'
        /\ \A x \in Exchanges : ex[x].sent => ex'[x] = ex[x]
    BY <1>2, ForwardKeeps
  <2>2. cl' \in [Clients -> Performs] /\ \A k \in Clients : Received(cl[k])'
    BY <1>2, <2>1, OnwardKeeps
  <2> QED
    BY <1>2, <2>1, <2>2, Zenon DEF ExchangeInv, ExchangeTypeOK
<1>3. ASSUME NEW r \in Registrations, addResource(r) PROVE ExchangeInv'
  <2>1. UNCHANGED <<routes, inForce, serving, curl, cl, ex>> /\ pending' = pending \ {r}
    BY <1>3, Zenon DEF addResource
  <2>2. calls' = Append(calls, r)
    BY <1>3, Zenon DEF addResource
  <2>3. \A q \in resources' : q \in resources \/ q.handler = r.handler
    <3>1. PICK m : resources' = {q \in resources : q.path # r.path \/ q.method # m}
                                  \cup {[path |-> r.path, method |-> m, handler |-> r.handler]}
      BY <1>3, Zenon DEF addResource
    <3> QED
      BY <3>1
  <2>4. calls' \in Seq(Registrations) /\ Len(calls') = Len(calls) + 1
    BY <1>1, <2>2
  <2>5. Rest'
    BY <1>1, <2>1, <2>3, <2>4
  <2> QED
    BY <1>2, <2>1, <2>5 DEF Forward, Onward
<1>4. ASSUME \/ \E r \in Registrations : AsksIsRunning(r)
             \/ Starts \/ Serve \/ Stops \/ Stopped
      PROVE  ExchangeInv'
  <2>1. /\ UNCHANGED <<resources, calls, curl, cl, ex>>
        /\ pending' = pending \/ \E r \in Registrations : pending' = pending \cup {r}
        /\ (UNCHANGED <<routes, inForce>>) \/ (routes' = resources /\ inForce' = Len(calls))
        /\ serving' \in Phases
    BY <1>1, <1>4 DEF AsksIsRunning, Starts, Serve, Stops, Stopped, Phases
  <2>2. Rest'
    BY <1>1, <2>1
  <2> QED
    BY <1>2, <2>1, <2>2 DEF Forward, Onward
<1>5. ASSUME NEW k \in Clients,
             ClientStep(k) \/ InputEnds(k) \/ \E r \in Requests : Perform(k, r)
      PROVE  ExchangeInv'
  <2>1. Goes(k)
    BY <1>5, ClientGoes
  <2>2. /\ UNCHANGED serverPart /\ curl' \in {"untried", "OK", "FAILED_INIT"}
        /\ ex' = ex \/ \E x \in Exchanges : Send(k, x)
    BY <1>5, ClientLeaves
  <2>3. Rest'
    BY <1>1, <2>2 DEF serverPart
  <2>4. Forward
    BY <2>2, SendMoves, Zenon DEF Forward
  <2> QED
    BY <1>2, <2>1, <2>3, <2>4 DEF Onward
<1>6. ASSUME NEW x \in Exchanges, ServerStep(x) PROVE ExchangeInv'
  <2>1. ~ex[x].sent /\ \E f \in Records : Sound(f) /\ Moves(x, f)
    BY <1>6, ServerStepKeeps DEF ExchangeInv, ExchangeTypeOK
  <2>2. PICK f \in Records : Sound(f) /\ Moves(x, f)
    BY <2>1
  <2>3. Forward /\ UNCHANGED <<resources, pending, calls, routes, inForce, curl, cl>>
    BY <2>1, <2>2 DEF Forward, Moves
  <2>4. serving' \in Phases
    <3>1. serving' = serving \/ serving' = "down"
      BY <1>6, Zenon
         DEF ServerStep, OnlyExchange, serverPart, HandlerReturns, HandlerThrows, Catches, ErrorHandlerThrows,
             OnError, OnErrorThrows, HandlerCopies, DestructorChecks, DestructorReleases, Answer,
             writeResponse
    <3> QED
      BY <1>1, <3>1 DEF Phases
  <2>5. Rest'
    BY <1>1, <2>3, <2>4
  <2> QED
    BY <1>2, <2>3, <2>5 DEF Onward
<1>7. CASE UNCHANGED exchangeVars
  <2>1. ex' = ex /\ cl' = cl /\ Rest'
    BY <1>1, <1>7 DEF exchangeVars, serverPart
  <2> QED
    BY <1>2, <2>1 DEF Forward, Onward
<1> QED
  BY <1>3, <1>4, <1>5, <1>6, <1>7, Zenon DEF ExchangeNext

\* The exchanges stay sound and what the clients receive is in order (cResponse and
\* the lambda of preRun, cHTTPClient::perform).
THEOREM ExchangeInvariant == ExchangeSpec => []ExchangeInv
  BY InitHolds, NextKeeps, PTL DEF ExchangeSpec

\* A sound exchange has at most one answer, and none only after an overlap.
LEMMA SoundAnswers ==
    ASSUME NEW e \in Records, Sound(e)
    PROVE  /\ Len(e.stream) + Cardinality(e.writing) <= 1
           /\ e.sent => e.writing = {} /\ (e.stream # <<>> \/ e.overlap)
<1>1. Cardinality({}) = 0 /\ \A w : Cardinality({w}) = 1
  BY FS_EmptySet, FS_Singleton
<1>2. Len(e.stream) + Cardinality(e.writing) <= 1
  <2>1. CASE e.writing = {}
    <3>1. Cardinality(e.writing) = 0
      BY <1>1, <2>1, Zenon
    <3>2. e.stream = <<>> \/ Len(e.stream) = 1
      BY DEF Sound, OneAnswer
    <3>3. CASE Len(e.stream) = 0
      BY <3>1, <3>3
    <3>4. CASE Len(e.stream) = 1
      BY <3>1, <3>4
    <3> QED
      BY <3>2, <3>3, <3>4
  <2>2. CASE e.writing # {}
    <3>1. e.stream = <<>> /\ \E w : e.writing = {w}
      BY <2>2 DEF Sound, OneAnswer
    <3>2. Cardinality(e.writing) = 1
      BY <1>1, <3>1, Zenon
    <3>3. Len(e.stream) = 0
      BY <3>1
    <3> QED
      BY <3>2, <3>3
  <2> QED
    BY <2>1, <2>2
<1>3. ASSUME e.sent PROVE e.writing = {} /\ (e.stream # <<>> \/ e.overlap)
  <2>1. e.stage = "done" /\ e.copies = {} /\ e.writing = {}
    BY <1>3 DEF Sound, CopiesFit
  <2>2. e.responded \/ e.overlap
    BY <2>1 DEF Sound, SomeoneWill
  <2>3. e.responded => Len(e.stream) = 1
    BY <2>1 DEF Sound, OneAnswer
  <2> QED
    BY <2>1, <2>2, <2>3
<1> QED
  BY <1>2, <1>3

\* However the handler, the threads it handed copies to, the catch clause and the
\* destructors of the copies interleave, a request has at most one answer, and is
\* sent without one only if two destructors overlapped (cResponse).
THEOREM AnsweredOnceAlways == ExchangeSpec => []AnsweredOnce
<1>1. ExchangeInv => AnsweredOnce
  BY SoundAnswers DEF ExchangeInv, ExchangeTypeOK, AnsweredOnce
<1> QED
  BY <1>1, ExchangeInvariant, PTL

\* A client that sees ok() has the answer of the handler or of a holder of a copy, or
\* the 204 of the last destructor after a handler that returned or an error handler
\* that threw: neither the 500 of the catch clause nor the end of a handler that threw
\* before it answered turns into a success (the lambda of preRun, ~cResponse).
THEOREM FailureIsNeverOk == ExchangeSpec => []FailureIsNotOk
<1>1. ASSUME ExchangeInv, NEW k \in Clients, cl[k].pc = "returned", ok(cl[k].resp)
      PROVE  LET e == ex[cl[k].cur]
             IN e.explicit \/ (cl[k].resp.status = 204 /\ e.outcome \in {"returned", "escaped"})
  <2>1. cl[k].resp.raw = {cl[k].cur} /\ cl[k].resp.raw \subseteq Exchanges
    <3>1. cl[k] \in Performs /\ Received(cl[k])
      BY <1>1 DEF ExchangeInv, ExchangeTypeOK
    <3> QED
      BY <1>1, <3>1 DEF Received, ok, Performs, Responses
  <2>2. PICK x \in Exchanges : x = cl[k].cur
    BY <2>1
  <2>3. ex[x].stream # <<>> /\ Head(ex[x].stream) = cl[k].resp.status
    BY <1>1, <2>1, <2>2 DEF ExchangeInv, Received
  <2>4. cl[k].resp.status # 500
    BY <1>1 DEF ok
  <2>5. Meant(ex[x], cl[k].resp.status)
    BY <1>1, <2>3 DEF ExchangeInv, Sound, SilenceIsChosen
  <2> QED
    BY <2>2, <2>4, <2>5 DEF Meant, Chosen
<1>2. ExchangeInv => FailureIsNotOk
  BY <1>1 DEF FailureIsNotOk, ClientAt
<1> QED
  BY <1>2, ExchangeInvariant, PTL

\* The status, the headers and the body of an st_Response are those of one hop,
\* however many redirects were followed (writeHeaderCallback).
THEOREM OneHopAlways == ExchangeSpec => []OneHop
<1>1. ASSUME ExchangeInv, NEW k \in Clients, NEW r, r = cl[k].resp, cl[k].pc = "returned"
      PROVE  /\ r.headers \cup r.body \subseteq r.raw
             /\ Cardinality(r.raw) <= 1
             /\ \A x \in r.raw : r.status = Head(ex[x].stream)
             /\ ok(r) => r.raw = {cl[k].cur}
  <2>1. Received(cl[k])
    BY <1>1 DEF ExchangeInv
  <2>2. Cardinality({}) = 0 /\ \A x : Cardinality({x}) = 1
    BY FS_EmptySet, FS_Singleton
  <2>3. Cardinality(r.raw) <= 1
    <3>1. r.raw = {} \/ \E x \in Exchanges : r.raw = {x}
      BY <1>1, <2>1 DEF Received
    <3>2. Cardinality(r.raw) = 0 \/ Cardinality(r.raw) = 1
      BY <2>2, <3>1, Zenon
    <3> QED
      BY <3>2
  <2>4. r.headers \cup r.body \subseteq r.raw /\ \A x \in r.raw : r.status = Head(ex[x].stream)
    BY <1>1, <2>1 DEF Received
  <2>5. ok(r) => r.raw = {cl[k].cur}
    BY <1>1, <2>1 DEF Received, ok
  <2> QED
    BY <2>3, <2>4, <2>5
<1>2. ExchangeInv => OneHop
  BY <1>1 DEF OneHop, ClientAt
<1> QED
  BY <1>2, ExchangeInvariant, PTL

-----------------------------------------------------------------------------
(* What arrives at the server.                                             *)

\* The last of the first n calls for a path and a method.
LastAmong(cs, n, path, method) ==
    {i \in 1..n : /\ cs[i].path = path /\ cs[i].method.word = method
                  /\ \A j \in (i + 1)..n : cs[j].path # path \/ cs[j].method.word # method}

\* A table holds the registrations that no later one of them has replaced.
Table(cs, n, table) ==
    /\ \A q \in table : \E i \in LastAmong(cs, n, q.path, q.method) : q.handler = cs[i].handler
    /\ \A i \in 1..n : \E q \in table : q.path = cs[i].path /\ q.method = cs[i].method.word

\* The routes have been copied.
Copied == serving \notin {"no", "starting"}

\* The lambda has not changed what arrived.
Shows(e) == e.stage \in {"dropped", "handler"}

\* What a client has asked for is what the exchange shows.
Asked(c) ==
    /\ c.hops = 0 /\ c.pc \in {"init", "handle", "stdin", "send", "await"} => c.url = c.req.url
    /\ c.pc = "await" => Copied /\ ex[c.cur].stage # "unused"
    /\ c.pc = "await" /\ c.hops = 0 /\ Shows(ex[c.cur])
       => /\ ex[c.cur].route = Route(routes, c.req.url, WireMethod(c.req, 0))
          /\ ex[c.cur].headers = RequestHeaders(c.req)

\* m_impl->resources stands for all calls, and what preRun has copied for those in
\* force.
Tables == Table(calls, Len(calls), resources) /\ Table(calls, inForce, routes)

ArrivalInv == Tables /\ \A k \in Clients : Asked(cl[k])

\* Two registrations of one route are not both in force.
LEMMA OneInForce ==
    ASSUME NEW cs, NEW n \in Nat, NEW path, NEW method,
           NEW i \in LastAmong(cs, n, path, method), NEW j \in LastAmong(cs, n, path, method)
    PROVE  i = j
<1>1. i \in 1..n /\ j \in 1..n
  BY DEF LastAmong
<1>2. ~(i < j)
  BY <1>1 DEF LastAmong
<1>3. ~(j < i)
  BY <1>1 DEF LastAmong
<1> QED
  BY <1>1, <1>2, <1>3

\* A registration that was made is in force, or one that came after it.
LEMMA InForce ==
    ASSUME NEW cs, NEW n \in Nat, NEW table, Table(cs, n, table), NEW path, NEW method
    PROVE  LastAmong(cs, n, path, method) # {}
           <=> \E q \in table : q.path = path /\ q.method = method
<1>1. ASSUME NEW i \in LastAmong(cs, n, path, method)
      PROVE  \E q \in table : q.path = path /\ q.method = method
  BY <1>1 DEF Table, LastAmong
<1>2. ASSUME NEW q \in table, q.path = path, q.method = method
      PROVE  LastAmong(cs, n, path, method) # {}
  BY <1>2 DEF Table
<1> QED
  BY <1>1, <1>2

\* The entry that is found is that of the registration in force.
LEMMA EntryIsLast ==
    ASSUME NEW cs, NEW n \in Nat, NEW table, Table(cs, n, table), NEW path, NEW method, NEW S,
           S = {q \in table : q.path = path /\ q.method = method}, S # {},
           NEW last, last = LastAmong(cs, n, path, method)
    PROVE  /\ last # {}
           /\ (CHOOSE q \in S : TRUE).handler = cs[CHOOSE i \in last : TRUE].handler
<1>1. last # {}
  BY InForce
<1>2. PICK q \in S : q = CHOOSE z \in S : TRUE
  OBVIOUS
<1>3. PICK i \in last : q.handler = cs[i].handler
  BY <1>2 DEF Table
<1>4. PICK j \in last : j = CHOOSE z \in last : TRUE
  BY <1>1
<1>5. i = j
  BY <1>3, <1>4, OneInForce
<1> QED
  BY <1>1, <1>2, <1>3, <1>4, <1>5, Zenon

\* The lookup finds the handler of the registration in force, or the default.
LEMMA RouteIsLast ==
    ASSUME inForce \in Nat, Table(calls, inForce, routes), NEW url, NEW method,
           NEW own, NEW default,
           own = LastCall(url, method), default = LastCall(Empty, method)
    PROVE  Route(routes, url, method) = Registered(own, default)
<1> DEFINE F == {q \in routes : q.path = url /\ q.method = method}
           D == {q \in routes : q.path = Empty /\ q.method = method}
<1>1. /\ F = {q \in routes : q.path = url /\ q.method = method}
      /\ D = {q \in routes : q.path = Empty /\ q.method = method}
  OBVIOUS
<1>2. Route(routes, url, method) = IF F # {} THEN (CHOOSE q \in F : TRUE).handler
                           ELSE IF D # {} THEN (CHOOSE q \in D : TRUE).handler ELSE NoRoute
  BY Zenon DEF Route
<1> HIDE DEF F, D
<1>3. /\ own = LastAmong(calls, inForce, url, method)
      /\ default = LastAmong(calls, inForce, Empty, method)
  BY Zenon DEF LastCall, LastAmong
<1>4. (F # {} <=> own # {}) /\ (D # {} <=> default # {})
  <2>1. F # {} <=> own # {}
    BY <1>1, <1>3, InForce
  <2>2. D # {} <=> default # {}
    BY <1>1, <1>3, InForce
  <2> QED
    BY <2>1, <2>2
<1>5. CASE own # {}
  <2>1. (CHOOSE q \in F : TRUE).handler = calls[CHOOSE i \in own : TRUE].handler
    BY <1>1, <1>3, <1>4, <1>5, EntryIsLast
  <2> QED
    BY <1>2, <1>4, <1>5, <2>1 DEF Registered
<1>6. CASE own = {} /\ default # {}
  <2>1. (CHOOSE q \in D : TRUE).handler = calls[CHOOSE i \in default : TRUE].handler
    BY <1>1, <1>3, <1>4, <1>6, EntryIsLast
  <2> QED
    BY <1>2, <1>4, <1>6, <2>1 DEF Registered
<1>7. CASE own = {} /\ default = {}
  BY <1>2, <1>4, <1>7 DEF Registered
<1> QED
  BY <1>5, <1>6, <1>7

\* A table stands for its calls whatever is registered after them.
LEMMA TableStays ==
    ASSUME NEW cs, NEW ct, NEW n \in Nat, NEW table, Table(cs, n, table),
           \A i \in 1..n : ct[i] = cs[i]
    PROVE  Table(ct, n, table)
<1>1. ASSUME NEW path, NEW method
      PROVE  LastAmong(cs, n, path, method) \subseteq LastAmong(ct, n, path, method)
  BY DEF LastAmong
<1>2. ASSUME NEW q \in table
      PROVE  \E i \in LastAmong(ct, n, q.path, q.method) : q.handler = ct[i].handler
  <2>1. PICK i \in LastAmong(cs, n, q.path, q.method) : q.handler = cs[i].handler
    BY DEF Table
  <2>2. ct[i] = cs[i]
    BY DEF LastAmong
  <2> QED
    BY <1>1, <2>1, <2>2
<1>3. ASSUME NEW i \in 1..n
      PROVE  \E q \in table : q.path = ct[i].path /\ q.method = ct[i].method.word
  BY DEF Table
<1> QED
  BY <1>2, <1>3 DEF Table

\* What addResource leaves of a table.
Replaced(table, r, m, later) ==
    later = {q \in table : q.path # r.path \/ q.method # m}
              \cup {[path |-> r.path, method |-> m, handler |-> r.handler]}

\* A registration replaces the one before it.
LEMMA TableKeeps ==
    ASSUME NEW cs \in Seq(Registrations), NEW table, Table(cs, Len(cs), table),
           NEW r \in Registrations, NEW m, m = r.method.word, NEW ct, ct = Append(cs, r),
           NEW later, Replaced(table, r, m, later)
    PROVE  Table(ct, Len(ct), later)
<1>1. PICK n \in Nat : n = Len(cs) + 1
  OBVIOUS
<1>2. /\ 1..Len(cs) = 1..(n - 1) /\ Len(ct) = n /\ ct[n] = r
      /\ \A i \in 1..(n - 1) : ct[i] = cs[i]
  BY <1>1
<1>3. PICK new : /\ new \in later /\ new.path = r.path /\ new.method = m
                 /\ new.handler = r.handler
                 /\ \A q \in later : q # new => q \in table /\ (q.path # r.path \/ q.method # m)
                 /\ \A q \in table : q.path # r.path \/ q.method # m => q \in later
  <2>1. PICK new : new = [path |-> r.path, method |-> m, handler |-> r.handler]
    OBVIOUS
  <2>2. new.path = r.path /\ new.method = m /\ new.handler = r.handler
    BY <2>1
  <2>3. later = {q \in table : q.path # r.path \/ q.method # m} \cup {new}
    BY <2>1 DEF Replaced
  <2> HIDE <2>1
  <2> QED
    BY <2>2, <2>3
<1>4. ASSUME NEW q \in later
      PROVE  \E i \in LastAmong(ct, n, q.path, q.method) : q.handler = ct[i].handler
  <2>1. CASE q = new
    <3>1. n \in LastAmong(ct, n, q.path, q.method)
      BY <1>1, <1>2, <1>3, <2>1 DEF LastAmong
    <3> QED
      BY <1>2, <1>3, <2>1, <3>1
  <2>2. CASE q # new
    <3>1. q \in table /\ (q.path # r.path \/ q.method # m)
      BY <1>3, <2>2
    <3>2. PICK i \in LastAmong(cs, n - 1, q.path, q.method) : q.handler = cs[i].handler
      BY <1>1, <3>1 DEF Table
    <3>3. i \in LastAmong(ct, n, q.path, q.method)
      BY <1>2, <3>1 DEF LastAmong
    <3> QED
      BY <1>2, <3>2, <3>3 DEF LastAmong
  <2> QED
    BY <2>1, <2>2
<1>5. ASSUME NEW i \in 1..n
      PROVE  \E q \in later : q.path = ct[i].path /\ q.method = ct[i].method.word
  <2>1. CASE i = n
    BY <1>2, <1>3, <2>1
  <2>2. CASE i \in 1..(n - 1)
    <3>1. PICK q \in table : q.path = cs[i].path /\ q.method = cs[i].method.word
      BY <1>1, <2>2 DEF Table
    <3> QED
      BY <1>2, <1>3, <2>2, <3>1
  <2>3. i = n \/ i \in 1..(n - 1)
    OBVIOUS
  <2> QED
    BY <2>1, <2>2, <2>3
<1>6. Table(ct, n, later)
  <2>1. \A q \in later : \E i \in LastAmong(ct, n, q.path, q.method) : q.handler = ct[i].handler
    BY <1>4
  <2>2. \A i \in 1..n : \E q \in later : q.path = ct[i].path /\ q.method = ct[i].method.word
    BY <1>5
  <2> QED
    BY <2>1, <2>2 DEF Table
<1> QED
  BY <1>2, <1>6

\* An exchange that has begun never goes back, and shows what it showed.
Continues(e, f) ==
    e.stage # "unused"
    => /\ f.stage # "unused"
       /\ Shows(f) => Shows(e) /\ f.route = e.route /\ f.headers = e.headers

\* Neither the exchanges nor the routes take back what a client was told.
Steady ==
    /\ \A x \in Exchanges : Continues(ex[x], ex'[x])
    /\ Copied => Copied' /\ routes' = routes

\* What the lambda and the copies do to an exchange.
LEMMA ServerContinues ==
    ASSUME NEW x \in Exchanges, ex \in [Exchanges -> Records], ServerStep(x)
    PROVE  Steady
<1>1. PICK e \in Records : e = ex[x]
  OBVIOUS
<1>2. ASSUME NEW f, ex' = [ex EXCEPT ![x] = f], Continues(e, f),
             serving' \in {serving, "down"}, routes' = routes
      PROVE  Steady
  <2>1. \A y \in Exchanges : ex'[y] = IF y = x THEN f ELSE ex[y]
    BY <1>2
  <2> QED
    BY <1>1, <1>2, <2>1 DEF Steady, Copied, Continues
<1>3. ASSUME NEW f, OnlyExchange(x, f), Continues(e, f) PROVE Steady
  BY <1>2, <1>3 DEF OnlyExchange, serverPart
<1>4. ASSUME NEW d \in Records, d.stage = e.stage, d.route = e.route, d.headers = e.headers,
             NEW p, NEW status
      PROVE  Continues(e, write(d, p, status))
  BY <1>4 DEF Continues, Shows, write, Records
<1>5. ASSUME NEW st, NEW o, NEW f, f = [e EXCEPT !.stage = st, !.outcome = o],
             st \in {"unwind", "catch", "escape"}
      PROVE  Continues(e, f)
  BY <1>5 DEF Continues, Shows, Records
<1>6. ASSUME HandlerReturns(x) \/ HandlerThrows(x) \/ ErrorHandlerThrows(x) PROVE Steady
  <2>1. PICK st, o, f : /\ f = [e EXCEPT !.stage = st, !.outcome = o]
                        /\ st \in {"unwind", "catch", "escape"} /\ OnlyExchange(x, f)
    BY <1>1, <1>6, Zenon DEF HandlerReturns, HandlerThrows, ErrorHandlerThrows
  <2> QED
    BY <1>3, <1>5, <2>1
<1>7. ASSUME Catches(x) PROVE Steady
  <2>1. PICK d : d = [e EXCEPT !.stage = "unwind"]
    OBVIOUS
  <2>2. d.stage = "unwind"
    BY <2>1 DEF Records
  <2>3. PICK f : f = write(d, Wrapped, 500) /\ OnlyExchange(x, f)
    BY <1>1, <1>7, <2>1, Zenon DEF Catches
  <2>4. f = d \/ f = [d EXCEPT !.responded = TRUE,
                               !.writing = @ \cup {[by |-> Wrapped, status |-> 500]}]
    BY <2>3, Zenon DEF write
  <2>5. d \in Records
    <3>1. "unwind" \in Stages
      BY DEF Stages
    <3> QED
      BY <2>1, <3>1, Zenon DEF Records
  <2>6. f.stage = "unwind"
    BY <2>2, <2>4, <2>5 DEF Records
  <2>7. Continues(e, f)
    BY <2>6 DEF Continues, Shows
  <2> QED
    BY <1>3, <2>7, <2>3
<1>8. ASSUME OnError(x) \/ OnErrorThrows(x) PROVE Steady
  <2>1. PICK d, f : /\ d = [e EXCEPT !.stage = "done"] /\ f = Released(d)
                    /\ ex' = [ex EXCEPT ![x] = f] /\ serving' \in {serving, "down"}
                    /\ routes' = routes
    <3>1. CASE OnError(x)
      BY <1>1, <3>1 DEF OnError, OnlyExchange, serverPart
    <3>2. CASE OnErrorThrows(x)
      BY <1>1, <3>2 DEF OnErrorThrows
    <3> QED
      BY <1>8, <3>1, <3>2
  <2>2. d.stage = "done" /\ d \in Records
    <3>1. "done" \in Stages
      BY DEF Stages
    <3>2. d \in Records
      BY <2>1, <3>1, Zenon DEF Records
    <3> QED
      BY <2>1, <3>2 DEF Records
  <2>3. f.stage = "done"
    BY <2>1, <2>2, ReleasedFacts, Zenon DEF SentOrNot
  <2>4. Continues(e, f)
    BY <2>3 DEF Continues, Shows
  <2> QED
    BY <1>2, <2>1, <2>4
<1>9. ASSUME NEW h \in Holders, HandlerCopies(x, h) PROVE Steady
  <2>1. PICK f : f = [e EXCEPT !.copies = @ \cup {h}] /\ OnlyExchange(x, f)
    BY <1>1, <1>9, Zenon DEF HandlerCopies
  <2>2. Continues(e, f)
    BY <2>1 DEF Continues, Shows, Records
  <2> QED
    BY <1>3, <2>1, <2>2
<1>10. ASSUME NEW p \in Owners, NEW status \in Statuses, Answer(x, p, status) PROVE Steady
  <2>1. PICK d, f : /\ d = write(e, p, status) /\ f = [d EXCEPT !.explicit = TRUE]
                    /\ OnlyExchange(x, f)
    BY <1>1, <1>10, Zenon DEF Answer
  <2>2. Continues(e, f)
    <3>1. d = e \/ d = [e EXCEPT !.responded = TRUE,
                                 !.writing = @ \cup {[by |-> p, status |-> status]}]
      BY <2>1, Zenon DEF write
    <3>2. f.stage = e.stage /\ f.route = e.route /\ f.headers = e.headers
      BY <2>1, <3>1 DEF Records
    <3> QED
      BY <3>2 DEF Continues, Shows
  <2> QED
    BY <1>3, <2>1, <2>2
<1>11. ASSUME NEW w \in ex[x].writing, writeResponse(x, w) PROVE Steady
  <2>1. PICK f : /\ f = [e EXCEPT !.writing = @ \ {w}, !.stream = Append(@, w.status),
                                  !.responded = TRUE]
                 /\ OnlyExchange(x, f)
    BY <1>1, <1>11, Zenon DEF writeResponse
  <2>2. Continues(e, f)
    BY <2>1 DEF Continues, Shows, Records
  <2> QED
    BY <1>3, <2>1, <2>2
<1>12. ASSUME NEW p \in Owners, DestructorChecks(x, p) PROVE Steady
  <2>1. PICK d, f : Decided(e, p, d) /\ LastWord(d, p, f) /\ OnlyExchange(x, f)
    BY <1>1, <1>12, Zenon DEF DestructorChecks, Decided, LastWord
  <2>2. d \in Records /\ d.stage = e.stage /\ d.route = e.route /\ d.headers = e.headers
    <3>1. e.checked \cup {p} \in SUBSET Owners
      BY DEF Records
    <3>2. PICK C \in SUBSET Owners, o \in BOOLEAN : d = [e EXCEPT !.checked = C, !.overlap = o]
      BY <2>1, <3>1, Zenon DEF Decided
    <3>3. d \in Records
      BY <3>2, Zenon DEF Records
    <3> QED
      BY <3>2, <3>3 DEF Records
  <2>3. Continues(e, d)
    BY <2>2 DEF Continues, Shows
  <2>4. Continues(e, f)
    BY <1>4, <2>1, <2>2, <2>3, Zenon DEF LastWord
  <2> QED
    BY <1>3, <2>1, <2>4
<1>13. ASSUME NEW p \in Owners, DestructorReleases(x, p) PROVE Steady
  <2>1. PICK st, hd, rt, d :
           /\ StageAfter(e, p, st) /\ LetGo(e, p, st, hd, rt, d)
           /\ hd = IF p = Wrapped THEN {} ELSE e.headers
           /\ rt = IF p = Wrapped THEN NoRoute ELSE e.route
           /\ OnlyExchange(x, Released(d))
    BY <1>1, <1>13, Zenon DEF DestructorReleases, StageAfter, LetGo
  <2>2. PICK f : f = [d EXCEPT !.sent = (d.copies = {} /\ d.stage = "done")] /\ OnlyExchange(x, f)
    BY <2>1, Zenon DEF Released
  <2>3. f.stage = st /\ f.route = rt /\ f.headers = hd
    <3>1. PICK A, C, b : f = [e EXCEPT !.copies = A, !.checked = C, !.stage = st, !.headers = hd,
                                       !.route = rt, !.sent = b]
      BY <2>1, <2>2, Zenon DEF LetGo
    <3> QED
      BY <3>1 DEF Records
  <2>4. Continues(e, f)
    BY <2>1, <2>3 DEF StageAfter, Continues, Shows
  <2> QED
    BY <1>3, <2>2, <2>4
<1> QED
  BY <1>6, <1>7, <1>8, <1>9, <1>10, <1>11, <1>12, <1>13, Zenon DEF ServerStep

\* What a client does to the exchanges: it begins one.
LEMMA ClientContinues ==
    ASSUME ExchangeInv, NEW k \in Clients,
           \/ ClientStep(k) \/ InputEnds(k)
           \/ \E r \in Requests : Perform(k, r)
    PROVE  Steady
<1>1. /\ UNCHANGED <<routes, serving>>
      /\ ex' = ex \/ \E x \in Exchanges : Send(k, x)
  BY ClientLeaves DEF serverPart
<1>2. ex \in [Exchanges -> Records]
  BY DEF ExchangeInv, ExchangeTypeOK
<1>3. CASE ex' = ex
  BY <1>1, <1>3 DEF Steady, Copied, Continues
<1>4. ASSUME NEW x \in Exchanges, Send(k, x) PROVE Steady
  <2>1. ex[x].stage = "unused"
    BY <1>4, Zenon DEF Send
  <2>2. PICK f : ex' = [ex EXCEPT ![x] = f]
    BY <1>4, Zenon DEF Send
  <2>3. \A y \in Exchanges : y # x => ex'[y] = ex[y]
    BY <1>2, <2>2
  <2> QED
    BY <1>1, <2>1, <2>3 DEF Steady, Copied, Continues
<1> QED
  BY <1>1, <1>3, <1>4

\* A client that does nothing is told nothing else.
LEMMA AskedStays ==
    ASSUME NEW c \in Performs, c.pc = "await" => c.cur \in Exchanges, Asked(c), Steady
    PROVE  Asked(c)'
<1>1. CASE c.pc # "await"
  BY <1>1 DEF Asked
<1>2. CASE c.pc = "await"
  <2>1. PICK x \in Exchanges : x = c.cur
    BY <1>2
  <2>2. Continues(ex[x], ex'[x]) /\ ex[x].stage # "unused" /\ Copied
    BY <1>2, <2>1 DEF Steady, Asked
  <2>3. routes' = routes /\ Copied'
    BY <2>2 DEF Steady
  <2>4. Route(routes, c.req.url, WireMethod(c.req, 0))' = Route(routes, c.req.url, WireMethod(c.req, 0))
    BY <2>3
  <2>5. ex'[x].stage # "unused"
    BY <2>2 DEF Continues
  <2>6. ASSUME c.hops = 0, Shows(ex'[x])
        PROVE  /\ ex'[x].route = Route(routes, c.req.url, WireMethod(c.req, 0))
               /\ ex'[x].headers = RequestHeaders(c.req)
    BY <1>2, <2>1, <2>2, <2>6 DEF Continues, Asked
  <2> QED
    BY <1>2, <2>1, <2>3, <2>4, <2>5, <2>6 DEF Asked, Shows
<1> QED
  BY <1>1, <1>2

\* The request is on the wire as it was asked for.
LEMMA AskedSends ==
    ASSUME ExchangeInv, NEW k \in Clients, NEW x \in Exchanges, Asked(cl[k]), Send(k, x)
    PROVE  Asked(cl[k])'
<1>1. cl \in [Clients -> Performs] /\ ex \in [Exchanges -> Records]
  BY DEF ExchangeInv, ExchangeTypeOK
<1>2. PICK c \in Performs : c = cl[k] /\ c.pc = "send"
  BY <1>1 DEF Send, ClientAt
<1>3. PICK rt, st, cp :
         /\ rt = Route(routes, c.url, WireMethod(c.req, c.hops))
         /\ st = IF rt = NoRoute THEN "dropped" ELSE "handler"
         /\ ex' = [ex EXCEPT ![x] = [ex[x] EXCEPT !.stage = st, !.route = rt,
                                                  !.headers = RequestHeaders(c.req), !.copies = cp]]
  BY <1>2, Zenon DEF Send
<1>4. /\ ex'[x].stage = st /\ ex'[x].route = rt /\ ex'[x].headers = RequestHeaders(c.req)
      /\ st # "unused"
  BY <1>1, <1>3 DEF Records
<1>5. cl' = [cl EXCEPT ![k].pc = "await", ![k].cur = x]
  BY Zenon DEF Send
<1>6. /\ cl'[k].pc = "await" /\ cl'[k].cur = x /\ cl'[k].hops = c.hops /\ cl'[k].req = c.req
      /\ cl'[k].url = c.url
  BY <1>1, <1>2, <1>5 DEF Performs
<1>7. Copied' /\ routes' = routes
  BY DEF Send, serverPart, Copied
<1>8. c.hops = 0 => c.url = c.req.url
  BY <1>2 DEF Asked
<1>9. Route(routes, c.req.url, WireMethod(c.req, 0))' = Route(routes, c.req.url, WireMethod(c.req, 0))
  BY <1>7
<1>10. c.hops = 0 => rt = Route(routes, c.req.url, WireMethod(c.req, 0))
  BY <1>3, <1>8, Zenon
<1> QED
  BY <1>4, <1>6, <1>7, <1>8, <1>9, <1>10 DEF Asked

\* A client knows what it asks for until it has followed a redirect.
LEMMA AskedGoes ==
    ASSUME ExchangeInv, NEW k \in Clients, Asked(cl[k]),
           \/ ClientStep(k) \/ InputEnds(k)
           \/ \E r \in Requests : Perform(k, r)
    PROVE  Asked(cl[k])'
<1>1. cl \in [Clients -> Performs]
  BY DEF ExchangeInv, ExchangeTypeOK
<1>2. PICK c \in Performs : c = cl[k]
  BY <1>1
<1>3. ASSUME cl'[k].pc # "await",
             cl'[k].pc \in {"returned", "headers"} \/ cl'[k].hops # 0 \/ cl'[k].url = cl'[k].req.url
      PROVE  Asked(cl[k])'
  BY <1>3 DEF Asked
<1>4. ASSUME NEW code, Fail(k, code) PROVE Asked(cl[k])'
  <2>1. cl'[k].pc = "returned"
    BY <1>1, <1>4 DEF Fail, Performs
  <2> QED
    BY <1>3, <2>1
<1>5. ASSUME NEW loc \in {"handle", "stdin", "send"}, cl' = [cl EXCEPT ![k].pc = loc],
             c.pc \in {"init", "handle", "stdin"}
      PROVE  Asked(cl[k])'
  <2>1. cl'[k].pc = loc /\ cl'[k].hops = c.hops /\ cl'[k].url = c.url /\ cl'[k].req = c.req
    BY <1>1, <1>2, <1>5 DEF Performs
  <2>2. c.hops = 0 => c.url = c.req.url
    BY <1>2, <1>5 DEF Asked
  <2> QED
    BY <1>3, <2>1, <2>2
<1>6. ASSUME ensureCurlGlobalInit(k) PROVE Asked(cl[k])'
  <2>1. cl' = [cl EXCEPT ![k].pc = "handle"] \/ Fail(k, curl')
    BY <1>6, Zenon DEF ensureCurlGlobalInit
  <2>2. c.pc = "init"
    BY <1>2, <1>6, Zenon DEF ensureCurlGlobalInit, ClientAt
  <2>3. ASSUME Fail(k, curl') PROVE cl'[k].pc = "returned"
    BY <1>1, <2>3 DEF Fail, Performs
  <2> QED
    BY <1>3, <1>5, <2>1, <2>2, <2>3
<1>7. ASSUME SetUp(k) \/ InputEnds(k) PROVE Asked(cl[k])'
  <2>1. PICK loc \in {"stdin", "send"} : cl' = [cl EXCEPT ![k].pc = loc]
    BY <1>7 DEF SetUp, InputEnds
  <2>2. c.pc \in {"handle", "stdin"}
    BY <1>2, <1>7 DEF SetUp, InputEnds, ClientAt
  <2> QED
    BY <1>5, <2>1, <2>2
<1>8. ASSUME NoHandle(k) \/ Broken(k) \/ TimesOut(k) PROVE Asked(cl[k])'
  BY <1>4, <1>8 DEF NoHandle, Broken, TimesOut
<1>9. ASSUME ReceivesStatus(k) PROVE Asked(cl[k])'
  <2>1. PICK s : cl' = [cl EXCEPT ![k].pc = "headers", ![k].resp = s]
    BY <1>9 DEF ReceivesStatus
  <2>2. cl'[k].pc = "headers"
    BY <1>1, <2>1 DEF Performs
  <2> QED
    BY <1>3, <2>2
<1>10. ASSUME NEW r \in Requests, ReceivesRest(k, r.url) PROVE Asked(cl[k])'
  <2>1. PICK g, s, h :
           /\ h = c.hops + 1
           /\ \/ g = [c EXCEPT !.pc = "send", !.hops = h, !.url = r.url, !.resp = s]
              \/ g = [c EXCEPT !.pc = "returned", !.resp = s]
           /\ cl' = [cl EXCEPT ![k] = g]
    <3>1. PICK s : s = [c.resp EXCEPT !.headers = @ \cup {c.cur}]
      OBVIOUS
    <3>2. CASE s.status = 302 /\ c.req.followRedirects /\ c.hops < c.req.maxRedirects
      <4>1. PICK g, h : h = c.hops + 1
                        /\ g = [c EXCEPT !.pc = "send", !.hops = h, !.url = r.url, !.resp = s]
        OBVIOUS
      <4>2. cl' = [cl EXCEPT ![k] = g]
        BY <1>2, <1>10, <3>1, <3>2, <4>1, Zenon DEF ReceivesRest
      <4> QED
        BY <4>1, <4>2, Zenon
    <3>3. CASE s.status = 302 /\ c.req.followRedirects /\ ~(c.hops < c.req.maxRedirects)
      <4>1. PICK t : t = [s EXCEPT !.curl = "TOO_MANY_REDIRECTS"]
        OBVIOUS
      <4>2. PICK g, h : h = c.hops + 1 /\ g = [c EXCEPT !.pc = "returned", !.resp = t]
        OBVIOUS
      <4>3. cl' = [cl EXCEPT ![k] = g]
        BY <1>2, <1>10, <3>1, <3>3, <4>1, <4>2, Zenon DEF ReceivesRest
      <4> QED
        BY <4>2, <4>3, Zenon
    <3>4. CASE ~(s.status = 302 /\ c.req.followRedirects)
      <4>1. PICK t : t = IF s.status = 200 /\ c.req.method # "HEAD"
                         THEN writeBodyCallback(s, c.cur) ELSE s
        OBVIOUS
      <4>2. PICK g, h : h = c.hops + 1 /\ g = [c EXCEPT !.pc = "returned", !.resp = t]
        OBVIOUS
      <4>3. cl' = [cl EXCEPT ![k] = g]
        BY <1>2, <1>10, <3>1, <3>4, <4>1, <4>2, Zenon DEF ReceivesRest
      <4> QED
        BY <4>2, <4>3, Zenon
    <3> QED
      BY <3>2, <3>3, <3>4, Zenon
  <2>2. cl'[k] = g
    BY <1>1, <2>1
  <2>3. h # 0
    BY <2>1 DEF Performs
  <2>4. (g.pc = "send" /\ g.hops = h) \/ g.pc = "returned"
    BY <2>1 DEF Performs
  <2> QED
    BY <1>3, <2>2, <2>3, <2>4
<1>11. ASSUME NEW r \in Requests, Perform(k, r) PROVE Asked(cl[k])'
  <2>1. PICK loc, code : /\ loc = IF r.url = Empty THEN "returned" ELSE "init"
                         /\ cl' = [cl EXCEPT ![k].req = r, ![k].url = r.url, ![k].pc = loc,
                                             ![k].resp.curl = code]
    BY <1>11, Zenon DEF Perform
  <2>2. cl'[k].pc = loc /\ cl'[k].url = r.url /\ cl'[k].req = r
    BY <1>1, <2>1 DEF Performs
  <2> QED
    BY <1>3, <2>1, <2>2
<1> QED
  BY <1>6, <1>7, <1>8, <1>9, <1>10, <1>11, AskedSends, Zenon DEF ClientStep

\* A step keeps the table and what the clients were told.
LEMMA ArrivalKeeps ==
    ASSUME ExchangeInv, ArrivalInv, [ExchangeNext]_exchangeVars
    PROVE  ArrivalInv'
<1>1. /\ cl \in [Clients -> Performs] /\ ex \in [Exchanges -> Records]
      /\ calls \in Seq(Registrations) /\ inForce \in Nat /\ inForce <= Len(calls)
  BY DEF ExchangeInv, ExchangeTypeOK
<1>2. ASSUME NEW k \in Clients, cl'[k] = cl[k], Steady PROVE Asked(cl[k])'
  <2>1. PICK c \in Performs : c = cl[k] /\ c = cl'[k]
    BY <1>1, <1>2
  <2>2. (c.pc = "await" => c.cur \in Exchanges) /\ Asked(c)
    BY <2>1 DEF ExchangeInv, ArrivalInv, Received
  <2>3. Asked(c)'
    BY <1>2, <2>2, AskedStays
  <2> QED
    BY <2>1, <2>3 DEF Asked
<1>3. ASSUME UNCHANGED <<resources, calls, routes, inForce>> PROVE Tables'
  BY <1>3 DEF ArrivalInv, Tables
<1>4. ASSUME NEW r \in Registrations, addResource(r) PROVE ArrivalInv'
  <2>1. UNCHANGED <<routes, inForce, serving, cl, ex>> /\ calls' = Append(calls, r)
    BY <1>4, Zenon DEF addResource
  <2>2. Table(calls', Len(calls'), resources')
    <3>1. PICK m, ct, later : /\ m = r.method.word
                              /\ ct = Append(calls, r) /\ ct = calls'
                              /\ Replaced(resources, r, m, later) /\ later = resources'
      BY <1>4, <2>1, Zenon DEF addResource, normalizeMethod, Replaced
    <3>2. Table(calls, Len(calls), resources)
      BY DEF ArrivalInv, Tables
    <3>3. Table(ct, Len(ct), later)
      BY <1>1, <3>1, <3>2, TableKeeps
    <3> QED
      BY <3>1, <3>3
  <2>3. Table(calls', inForce', routes')
    <3>1. \A i \in 1..inForce : calls'[i] = calls[i]
      BY <1>1, <2>1
    <3>2. Table(calls', inForce, routes)
      BY <1>1, <3>1, TableStays DEF ArrivalInv, Tables
    <3> QED
      BY <2>1, <3>2
  <2>4. Steady
    BY <2>1 DEF Steady, Copied, Continues
  <2> QED
    BY <1>2, <2>1, <2>2, <2>3, <2>4 DEF ArrivalInv, Tables
<1>5. ASSUME \/ \E r \in Registrations : AsksIsRunning(r)
             \/ Starts \/ Serve \/ Stops \/ Stopped \/ UNCHANGED exchangeVars
      PROVE  ArrivalInv'
  <2>1. /\ UNCHANGED <<resources, calls, cl, ex>>
        /\ \/ UNCHANGED <<routes, inForce>>
           \/ ~Copied /\ routes' = resources /\ inForce' = Len(calls)
        /\ Copied => Copied'
    BY <1>5 DEF AsksIsRunning, Starts, Serve, Stops, Stopped, Copied, exchangeVars, serverPart
  <2>2. Steady
    BY <2>1 DEF Steady, Continues
  <2>3. Tables'
    BY <2>1 DEF ArrivalInv, Tables
  <2> QED
    BY <1>2, <2>1, <2>2, <2>3 DEF ArrivalInv
<1>6. ASSUME NEW k \in Clients,
             ClientStep(k) \/ InputEnds(k) \/ \E r \in Requests : Perform(k, r)
      PROVE  ArrivalInv'
  <2>1. UNCHANGED <<resources, calls, routes, inForce>>
    BY <1>6, ClientLeaves DEF serverPart
  <2>2. Steady
    BY <1>6, ClientContinues
  <2>3. Asked(cl[k])'
    BY <1>6, AskedGoes DEF ArrivalInv
  <2>4. \A j \in Clients : j # k => cl'[j] = cl[j]
    <3>1. Goes(k)
      BY <1>6, ClientGoes
    <3> QED
      BY <1>1, <3>1 DEF Goes
  <2>5. \A j \in Clients : Asked(cl[j])'
    BY <1>2, <2>2, <2>3, <2>4
  <2> QED
    BY <1>3, <2>1, <2>5 DEF ArrivalInv
<1>7. ASSUME NEW x \in Exchanges, ServerStep(x) PROVE ArrivalInv'
  <2>1. Steady
    BY <1>1, <1>7, ServerContinues
  <2>2. PICK f : Moves(x, f)
    BY <1>1, <1>7, ServerStepKeeps DEF ExchangeInv
  <2>3. UNCHANGED <<resources, calls, routes, inForce, cl>>
    BY <2>2 DEF Moves
  <2> QED
    BY <1>2, <1>3, <2>1, <2>3 DEF ArrivalInv
<1> QED
  BY <1>4, <1>5, <1>6, <1>7, Zenon DEF ExchangeNext

\* What libcurl sends on the first hop.
LEMMA MethodOnTheWire ==
    ASSUME NEW r \in Requests
    PROVE  WireMethod(r, 0) = IF r.method = "GET" /\ r.body THEN "POST" ELSE r.method
<1>1. r.method # Empty
  BY RequestAssumption
<1>2. PICK o : o = applyMethod(r)
  OBVIOUS
<1>3. /\ o.post = (r.method = "POST")
      /\ o.custom = IF r.method \in {"GET", "POST"} THEN Empty ELSE r.method
  BY <1>2 DEF applyMethod
<1>4. WireMethod(r, 0) = IF o.custom # Empty THEN o.custom
                         ELSE IF o.post \/ r.body THEN "POST" ELSE "GET"
  BY <1>2 DEF WireMethod
<1>5. CASE r.method = "GET"
  BY <1>3, <1>4, <1>5
<1>6. CASE r.method = "POST"
  BY <1>3, <1>4, <1>6
<1>7. CASE r.method \notin {"GET", "POST"}
  BY <1>1, <1>3, <1>4, <1>7
<1> QED
  BY <1>5, <1>6, <1>7

\* The headers of the caller go out, and one content type.
LEMMA HeadersOnTheWire ==
    ASSUME NEW r, NEW H, H = RequestHeaders(r)
    PROVE  /\ {h \in r.headers : h.name.word # Empty /\ h.value # Empty} \subseteq H
           /\ \/ Cardinality(ContentTypes(H)) <= 1
              \/ ContentTypes(H) \subseteq ContentTypes(r.headers)
<1>1. PICK extra : /\ extra = IF r.contentType # Empty /\ ~hasHeader(r.headers, Plain("Content-Type"))
                              THEN {[name |-> Plain("Content-Type"), value |-> r.contentType]} ELSE {}
                   /\ H = Passed(appendHeader(r.headers \cup extra))
  BY Zenon DEF RequestHeaders
<1>2. /\ {h \in r.headers : h.name.word # Empty /\ h.value # Empty} \subseteq H
      /\ H \subseteq r.headers \cup extra
  BY <1>1 DEF appendHeader, Passed
<1>3. CASE extra = {}
  BY <1>2, <1>3 DEF ContentTypes
<1>4. CASE extra # {}
  <2>1. PICK a : extra = {a}
    BY <1>1, <1>4
  <2>2. ContentTypes(r.headers) = {}
    BY <1>1, <1>4 DEF hasHeader, ContentTypes
  <2>3. ContentTypes(H) = {} \/ ContentTypes(H) = {a}
    BY <1>2, <2>1, <2>2 DEF ContentTypes
  <2>4. Cardinality({}) = 0 /\ Cardinality({a}) = 1
    BY FS_EmptySet, FS_Singleton
  <2>5. Cardinality(ContentTypes(H)) = 0 \/ Cardinality(ContentTypes(H)) = 1
    BY <2>3, <2>4, Zenon
  <2> QED
    BY <1>2, <2>5
<1> QED
  BY <1>2, <1>3, <1>4

\* A request reaches the handler whose registration was the last for its path and
\* method among those that preRun copied, with every header of the caller that has a
\* name and a value, whenever the registrations were made and written (addResource,
\* preRun, perform, applyMethod).
THEOREM RequestsArrive == ExchangeSpec => []RequestArrives
<1>1. ExchangeInit => ArrivalInv
  <2>1. ASSUME ExchangeInit PROVE ArrivalInv
    <3>1. /\ resources = {} /\ calls = <<>> /\ routes = {} /\ inForce = 0
          /\ \A k \in Clients : cl[k].pc = "idle"
      BY <2>1 DEF ExchangeInit
    <3>2. Len(calls) = 0
      BY <3>1
    <3> QED
      BY <3>1, <3>2 DEF ArrivalInv, Tables, Table, Asked
  <2> QED
    BY <2>1
<1>2. ASSUME ExchangeInv, ArrivalInv PROVE RequestArrives
  <2> SUFFICES ASSUME NEW k \in Clients, cl[k].pc = "await", cl[k].hops = 0,
                      NEW r, r = cl[k].req, NEW e, e = ex[cl[k].cur], NEW m,
                      m = IF r.method = "GET" /\ r.body THEN "POST" ELSE r.method,
                      e.stage \in {"dropped", "handler"}
               PROVE  /\ e.route = Registered(LastCall(r.url, m), LastCall(Empty, m))
                      /\ {h \in r.headers : h.name.word # Empty /\ h.value # Empty}
                           \subseteq e.headers
                      /\ \/ Cardinality(ContentTypes(e.headers)) <= 1
                         \/ ContentTypes(e.headers) \subseteq ContentTypes(r.headers)
    BY DEF RequestArrives, ClientAt
  <2>1. r \in Requests
    BY <1>2 DEF ExchangeInv, Received
  <2>2. WireMethod(r, 0) = m
    BY <2>1, MethodOnTheWire
  <2>3. e.route = Route(routes, r.url, m) /\ e.headers = RequestHeaders(r)
    BY <1>2, <2>2 DEF ArrivalInv, Asked, Shows
  <2>4. inForce \in Nat /\ Table(calls, inForce, routes)
    BY <1>2 DEF ExchangeInv, ExchangeTypeOK, ArrivalInv, Tables
  <2>5. e.route = Registered(LastCall(r.url, m), LastCall(Empty, m))
    BY <2>3, <2>4, RouteIsLast
  <2> QED
    BY <2>3, <2>5, HeadersOnTheWire, Zenon
<1> QED
  BY <1>1, <1>2, ArrivalKeeps, ExchangeInvariant, PTL DEF ExchangeSpec
=============================================================================
