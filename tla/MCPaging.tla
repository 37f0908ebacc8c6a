------------------------------ MODULE MCPaging ------------------------------
(* An instance of Paging for TLC.  The tasks only compare for equality.    *)
EXTENDS Paging, TLC

Symmetry == Permutations(Callers)
=============================================================================
