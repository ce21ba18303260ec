---------------------------- MODULE MCThreadQueue ----------------------------
(* Instances of ThreadQueue for TLC.                                       *)
EXTENDS ThreadQueue, TLC

Symmetry == Permutations(Queues \ Private)
=============================================================================
