--------------------------- MODULE WorkerContract ---------------------------
(***************************************************************************)
(* What cBaseWorker_V2 promises to a reader of its state.  An attempt is   *)
(* one successful claim of the worker by startThread: it enters (preRun),  *)
(* runs (run), leaves, and is finished.  There is one attempt at a time,   *)
(* the announced state is Stopped exactly between attempts, Running is     *)
(* announced at most once in an attempt, and a request to stop only ever   *)
(* moves the state of an attempt to Stopping.                              *)
(***************************************************************************)
CONSTANT Attempts

VARIABLES state,      \* what getState() returns
          entering,   \* the attempts that have not announced Running
          running,    \* the attempts that have, and execute run()
          leaving     \* the attempts that will only announce Stopped

contractVars == <<state, entering, running, leaving>>

Active == entering \cup running \cup leaving

ContractInit ==
    /\ state = "Stopped"
    /\ entering = {}
    /\ running = {}
    /\ leaving = {}

\* startThread claims the worker.
Claim(a) ==
    /\ state = "Stopped"
    /\ Active = {}
    /\ state' = "Starting"
    /\ entering' = {a}
    /\ UNCHANGED <<running, leaving>>

\* startThread claims the worker and cannot create the thread.
ClaimInVain(a) ==
    /\ state = "Stopped"
    /\ Active = {}
    /\ state' = "Starting"
    /\ leaving' = {a}
    /\ UNCHANGED <<entering, running>>

AskToStop ==
    /\ state \in {"Starting", "Running"}
    /\ state' = "Stopping"
    /\ UNCHANGED <<entering, running, leaving>>

\* Running is announced, even if the attempt was asked to stop just before.
Enter(a) ==
    /\ entering = {a}
    /\ state' = "Running"
    /\ entering' = {}
    /\ running' = {a}
    /\ UNCHANGED leaving

Leave(a) ==
    /\ a \in entering \cup running
    /\ entering' = entering \ {a}
    /\ running' = running \ {a}
    /\ leaving' = leaving \cup {a}
    /\ UNCHANGED state

Finish(a) ==
    /\ leaving = {a}
    /\ state' = "Stopped"
    /\ leaving' = {}
    /\ UNCHANGED <<entering, running>>

ContractNext ==
    \/ AskToStop
    \/ \E a \in Attempts : Claim(a) \/ ClaimInVain(a) \/ Enter(a) \/ Leave(a) \/ Finish(a)

ContractSpec == ContractInit /\ [][ContractNext]_contractVars
=============================================================================
