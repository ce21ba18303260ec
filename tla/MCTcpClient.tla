----------------------------- MODULE MCTcpClient -----------------------------
(* Instances of TcpClient for TLC.                                         *)
EXTENDS TcpClient, TLC

\* A representative of every way to start, stop and destroy the client.
LifeCycle == {"startThread0", "stopThread", "destroy"}
StopsAndStarts == {"startThread0", "requestStop"}

Symmetry == Permutations(Callers) \cup Permutations(Threads)
=============================================================================
