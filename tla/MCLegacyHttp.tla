---------------------------- MODULE MCLegacyHttp ----------------------------
(* An instance of LegacyHttp for TLC.                                      *)
EXTENDS LegacyHttp, TLC

\* setCertificateFiles, and setThreadPoolSize for the other setters.
SomeChanges == {[cert |-> "a", key |-> "a"], [cert |-> "b", key |-> "b"], [pool |-> 0], [pool |-> 2]}

Symmetry == Permutations(Callers) \cup Permutations(Attempts)
=============================================================================
