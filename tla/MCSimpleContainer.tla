-------------------------- MODULE MCSimpleContainer --------------------------
(* Instances of SimpleContainer for TLC.                                   *)
EXTENDS SimpleContainer, TLC

Symmetry == Permutations(Producers) \cup Permutations(Consumers) \cup Permutations(Items)
=============================================================================
