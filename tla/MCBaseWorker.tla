---------------------------- MODULE MCBaseWorker ----------------------------
(* Instances of BaseWorker for TLC.                                        *)
EXTENDS BaseWorker, TLC

\* Processes of one kind are interchangeable.
Symmetry == Permutations(Callers) \cup Permutations(Threads)
=============================================================================
