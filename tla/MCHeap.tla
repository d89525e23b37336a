------------------------------- MODULE MCHeap -------------------------------
(* Small instances of Heap.                                                 *)
EXTENDS Tier, TLC

Symmetry == Permutations(Slots)

ZeroWords == {Zero}

(* A word that reads as the tag of a small free block.                      *)
TagLikeWords == {Tag(4, FALSE, TRUE)}
=============================================================================
