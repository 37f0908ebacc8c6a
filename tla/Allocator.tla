----------------------------- MODULE Allocator -----------------------------
(***************************************************************************)
(* What a memory allocator promises its callers, and nothing about how:    *)
(* what a caller is given lies inside the arena and shares no byte with    *)
(* what any caller still holds, and a caller loses it only by freeing it.  *)
(* An allocation may fail.  Heap, the allocator of src/libc/mem.c, is      *)
(* shown to implement this module.                                         *)
(***************************************************************************)
EXTENDS Naturals

CONSTANTS
    Owners,   \* the callers' pointer variables
    Lo, Hi    \* the arena: addresses Lo .. Hi - 1

VARIABLE held \* owner -> the set of addresses it may use

vars == <<held>>

Extent(p, n) == p .. p + n - 1

Init == held = [c \in Owners |-> {}]

Allocate(c, p, n) ==
    /\ held[c] = {}
    /\ p >= Lo /\ p + n <= Hi
    /\ \A d \in Owners : held[d] \cap Extent(p, n) = {}
    /\ held' = [held EXCEPT ![c] = Extent(p, n)]

Release(c) == held' = [held EXCEPT ![c] = {}]

Next ==
    \E c \in Owners :
       \/ Release(c)
       \/ \E p \in Lo .. Hi, n \in 0 .. Hi - Lo : Allocate(c, p, n)

Spec == Init /\ [][Next]_vars

(* No two callers are ever given the same byte. *)
NoOverlap == \A c, d \in Owners : c # d => held[c] \cap held[d] = {}
=============================================================================
