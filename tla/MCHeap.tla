------------------------------- MODULE MCHeap -------------------------------
(* Instances of Heap for TLC.  Owners only compare for equality, so their  *)
(* permutations are symmetries of the specification.                       *)
EXTENDS Heap

(* One allocation of 2 bytes at alignment 4, as enable_paging's of page    *)
(* tables: more than the block's alignment.  Nothing else has 2 bytes.     *)
MCAlignedSizes == {<<2, 4>>}
MCCallocSizes == {<<2, 2>>}

Symmetry == Permutations(Owners)
=============================================================================
