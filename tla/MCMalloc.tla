------------------------------ MODULE MCMalloc ------------------------------
(* Small instances of Malloc.                                               *)
EXTENDS Malloc, TLC

Symmetry == Permutations(Slots) \cup Permutations(BrkSites) \cup Permutations(MapSites)
=============================================================================
