---------------------------- MODULE MCGrpcWorker ----------------------------
(* Instances of GrpcWorker for TLC.                                        *)
EXTENDS GrpcWorker

\* A representative of every way to start, stop and destroy the worker.
LifeCycle == {"startThread0", "requestStop", "stopThread", "destroy"}
=============================================================================
