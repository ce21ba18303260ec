----------------------------- MODULE MCTcpServer -----------------------------
(* Instances of TcpServer for TLC.                                         *)
EXTENDS TcpServer

\* A representative of every way to start, stop and destroy the server.
LifeCycle == {"startThread0", "stopThread", "destroy"}
=============================================================================
