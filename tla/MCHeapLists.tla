---- MODULE MCHeapLists ----
(* Owners and tasks only compare for equality: permuting them is sound.    *)
EXTENDS HeapLists

Symmetry == Permutations(Owners) \cup Permutations(Tasks)
====
