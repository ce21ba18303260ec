---------------------------- MODULE MCHttpServer ----------------------------
(* Instances of HttpServer for TLC.                                        *)
EXTENDS HttpServer, TLC

\* Starts and stops that do not wait for each other.
StartsAndStops == {"startThread0", "requestStop"}

\* A representative of every way to start, stop and destroy the server.
LifeCycle == {"startThread0", "stopThread", "destroy"}

Symmetry == Permutations(Callers) \cup Permutations(Threads)
=============================================================================
