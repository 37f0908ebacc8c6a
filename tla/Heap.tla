-------------------------------- MODULE Heap --------------------------------
(***************************************************************************)
(* The allocator of src/libc/mem.c: three singly linked lists of block     *)
(* descriptors (free, used, fresh) over one arena that grows at top.       *)
(*                                                                         *)
(* A list is the sequence of the descriptors on it, head first; addr and   *)
(* size are the descriptors' fields.  Every entry point runs without a     *)
(* preemption here: one operator each, on the record heap.  Addresses are  *)
(* size_t, W values; no request is so large that an address computed from  *)
(* it wraps, as the arena ends far below W.                                *)
(* Owners are the callers' pointer variables: each holds at most one       *)
(* allocation, and frees it at most once.                                  *)
(***************************************************************************)
EXTENDS Integers, SequencesExt

CONSTANTS
    W,            \* values of a size_t: 2^32
    Base,         \* the first address after the descriptors: initial heap->top
    Limit,        \* heap_limit: 0x4fff000
    NBlocks,      \* heap_max_blocks: 0xfffff
    SplitThresh,  \* heap_split_thresh: 16
    Alignment,    \* heap_alignment: 8
    Sizes,        \* the sizes callers ask ta_alloc for
    CallocSizes,  \* the <<number, size>> callers ask ta_calloc for
    AlignedSizes, \* the <<size, alignment>> callers ask ta_alloc_align for
    Owners

(* What alloc_block is asked for.                                          *)
Requests == Sizes \cup {n[1] * n[2] : n \in CallocSizes}
                  \cup {a[1] + a[2] : a \in AlignedSizes}

ASSUME ArenaAssumption ==
    /\ W \in Nat /\ Base \in Nat \ {0} /\ Limit \in Base .. W - 1
    /\ NBlocks \in Nat \ {0} /\ SplitThresh \in Nat \ {0} /\ Alignment \in Nat \ {0}
ASSUME RequestsAssumption ==
    /\ Sizes \subseteq Nat \ {0}
    /\ CallocSizes \subseteq (Nat \ {0}) \X (Nat \ {0})
    /\ AlignedSizes \subseteq (Nat \ {0}) \X (Nat \ {0})
    /\ \A num \in Requests : Limit + num + Alignment <= W

VARIABLES
    heap,  \* [free, used, fresh, addr, size, top]
    held   \* [Owners -> [ptr, len]], or Nothing: what each caller was given

vars == <<heap, held>>

Blocks == 1 .. NBlocks
NoBlock == 0                        \* the NULL alloc_block returns
Nothing == [ptr |-> 0, len |-> 0]
Wrap(x) == x % W

(* ta_init: every descriptor is fresh, in array order. *)
Init ==
    /\ heap = [free |-> <<>>, used |-> <<>>, fresh |-> [b \in Blocks |-> b],
               addr |-> [b \in Blocks |-> 0], size |-> [b \in Blocks |-> 0],
               top |-> Base]
    /\ held = [c \in Owners |-> Nothing]
-----------------------------------------------------------------------------
(* The static functions of mem.c, as functions of the heap.                *)

End(h, b) == h.addr[b] + h.size[b]

(* Mutant: a block is put in front of the list, whatever its address.      *)
InsertBlock_Front(h, b) == [h EXCEPT !.free = <<b>> \o @]

(* Before the first free block whose address is not smaller. *)
InsertBlock(h, b) ==
    LET i == SelectInSeq(h.free, LAMBDA f : h.addr[b] <= h.addr[f])
    IN  [h EXCEPT !.free = IF i = 0 THEN Append(@, b) ELSE InsertAt(@, i, b)]

(* The block after the i-th of the free list begins where that one ends.   *)
Touches(h, i) == i < Len(h.free) /\ End(h, h.free[i]) = h.addr[h.free[i + 1]]

(* Mutant: the released descriptor is forgotten, not put on the fresh list.*)
Merge_Forgets(h, i) ==
    LET b == h.free[i]
        next == h.free[i + 1]
    IN  [h EXCEPT !.free = RemoveAt(@, i + 1), !.addr[next] = 0,
                  !.size = [@ EXCEPT ![b] = h.size[b] + h.size[next], ![next] = 0]]

(* They become one; the descriptor goes to the head of the fresh list.     *)
Merge(h, i) ==
    LET b == h.free[i]
        next == h.free[i + 1]
    IN  [h EXCEPT !.free = RemoveAt(@, i + 1), !.fresh = <<next>> \o @,
                  !.addr[next] = 0,
                  !.size = [@ EXCEPT ![b] = h.size[b] + h.size[next], ![next] = 0]]

(* Every run of adjacent free blocks becomes its first block: a turn either*)
(* makes the run that starts at the i-th one longer or goes on from it.    *)
Compact(h) ==
    LET turn[n \in 0 .. Len(h.free)] ==
            IF n = 0 THEN [heap |-> h, i |-> 1]
            ELSE IF Touches(turn[n - 1].heap, turn[n - 1].i)
            THEN [heap |-> Merge(turn[n - 1].heap, turn[n - 1].i), i |-> turn[n - 1].i]
            ELSE [heap |-> turn[n - 1].heap, i |-> turn[n - 1].i + 1]
    IN  turn[Len(h.free)].heap

RoundUp(num) == (Wrap(num + Alignment - 1) \div Alignment) * Alignment

(* The last block before top may grow or shrink to num by moving top. *)
IsTop(h, b, num) == End(h, b) >= h.top /\ Wrap(h.addr[b] + num) <= Limit

(* Mutant: the rest of a split block starts at the block's old end.        *)
Split_OldEnd(h, b, num) ==
    LET rest == Head(h.fresh)
    IN  Compact(InsertBlock(
          [h EXCEPT !.fresh = Tail(@),
                    !.addr[rest] = End(h, b),
                    !.size[b] = num, !.size[rest] = h.size[b] - num], rest))

Split(h, b, num) ==
    LET rest == Head(h.fresh)
    IN  Compact(InsertBlock(
          [h EXCEPT !.fresh = Tail(@),
                    !.addr[rest] = h.addr[b] + num,
                    !.size[b] = num, !.size[rest] = h.size[b] - num], rest))

(* The i-th free block was chosen: unlinked, put on the used list, resized *)
(* or split.                                                               *)
TakeFree(h, i, num) ==
    LET b == h.free[i]
        taken == [h EXCEPT !.free = RemoveAt(@, i), !.used = <<b>> \o @]
    IN  IF IsTop(h, b, num)
        THEN [taken EXCEPT !.size[b] = num, !.top = Wrap(h.addr[b] + num)]
        ELSE IF h.fresh # <<>> /\ h.size[b] - num >= SplitThresh
        THEN Split(taken, b, num)
        ELSE taken

(* Mutant: top stays where it was.                                         *)
AppendBlock_KeepsTop(h, num) ==
    LET b == Head(h.fresh)
    IN  [h EXCEPT !.fresh = Tail(@), !.used = <<b>> \o @,
                  !.addr[b] = h.top, !.size[b] = num]

AppendBlock(h, num) ==
    LET b == Head(h.fresh)
    IN  [h EXCEPT !.fresh = Tail(@), !.used = <<b>> \o @,
                  !.addr[b] = h.top, !.size[b] = num, !.top = Wrap(h.top + num)]

(* Mutant: the limit of the arena is not checked for a new block.          *)
AllocBlock_NoLimit(h, request) ==
    LET num == RoundUp(request)
        i == SelectInSeq(h.free, LAMBDA b : IsTop(h, b, num) \/ h.size[b] >= num)
    IN  IF i # 0
        THEN [heap |-> TakeFree(h, i, num), block |-> h.free[i]]
        ELSE IF h.fresh # <<>>
        THEN [heap |-> AppendBlock(h, num), block |-> Head(h.fresh)]
        ELSE [heap |-> h, block |-> NoBlock]

(* First fit, or a new block at top; what alloc_block leaves and returns.  *)
AllocBlock(h, request) ==
    LET num == RoundUp(request)
        i == SelectInSeq(h.free, LAMBDA b : IsTop(h, b, num) \/ h.size[b] >= num)
    IN  IF i # 0
        THEN [heap |-> TakeFree(h, i, num), block |-> h.free[i]]
        ELSE IF h.fresh # <<>> /\ Wrap(h.top + num) <= Limit
        THEN [heap |-> AppendBlock(h, num), block |-> Head(h.fresh)]
        ELSE [heap |-> h, block |-> NoBlock]
-----------------------------------------------------------------------------
(* The entry points.                                                       *)

TaAlloc(c, num) ==
    LET r == AllocBlock(heap, num)
    IN  /\ held[c] = Nothing
        /\ heap' = r.heap
        /\ held' = IF r.block = NoBlock THEN held
                   ELSE [held EXCEPT ![c] = [ptr |-> r.heap.addr[r.block],
                                             len |-> num]]

(* num * size bytes, cleared; what a block holds is not modelled.          *)
TaCalloc(c, num, size) == TaAlloc(c, Wrap(num * size))

(* The pointer returned is the next multiple of al after the block's start.*)
TaAllocAlign(c, num, al) ==
    LET r == AllocBlock(heap, Wrap(num + al))
        p == (Wrap(r.heap.addr[r.block] + al) \div al) * al
    IN  /\ held[c] = Nothing
        /\ heap' = r.heap
        /\ held' = IF r.block = NoBlock THEN held
                   ELSE [held EXCEPT ![c] = [ptr |-> p, len |-> num]]

(* Mutant: the most recent block that starts at or before the pointer.     *)
TaFree_Nearest(c) ==
    LET i == SelectInSeq(heap.used, LAMBDA b : heap.addr[b] <= held[c].ptr)
        b == heap.used[i]
    IN  /\ held[c] # Nothing
        /\ held' = [held EXCEPT ![c] = Nothing]
        /\ heap' = IF i = 0 THEN heap
                   ELSE Compact(InsertBlock([heap EXCEPT !.used = RemoveAt(@, i)], b))

(* The most recent used block that starts at the pointer is freed.  When   *)
(* none does ta_free returns false: the caller is rid of its pointer, but  *)
(* the block stays in use.                                                 *)
TaFree(c) ==
    LET i == SelectInSeq(heap.used, LAMBDA b : heap.addr[b] = held[c].ptr)
        b == heap.used[i]
    IN  /\ held[c] # Nothing
        /\ held' = [held EXCEPT ![c] = Nothing]
        /\ heap' = IF i = 0 THEN heap
                   ELSE Compact(InsertBlock([heap EXCEPT !.used = RemoveAt(@, i)], b))

Next ==
    \E c \in Owners :
       \/ \E num \in Sizes : TaAlloc(c, num)
       \/ \E n \in CallocSizes : TaCalloc(c, n[1], n[2])
       \/ \E a \in AlignedSizes : TaAllocAlign(c, a[1], a[2])
       \/ TaFree(c)

Spec == Init /\ [][Next]_vars
-----------------------------------------------------------------------------
InUse == ToSet(heap.used)
Free == ToSet(heap.free)
Extent(b) == heap.addr[b] .. End(heap, b) - 1

TypeOK ==
    /\ heap.free \in Seq(Blocks) /\ heap.used \in Seq(Blocks)
    /\ heap.fresh \in Seq(Blocks)
    /\ heap.addr \in [Blocks -> 0 .. Limit] /\ heap.size \in [Blocks -> 0 .. Limit]
    /\ heap.top \in Base .. Limit
    /\ held \in [Owners -> [ptr : 0 .. Limit, len : 0 .. Limit]]

(* ta_check: the blocks counted are as many as there are.                  *)
TaCheck == NBlocks = Len(heap.free) + Len(heap.used) + Len(heap.fresh)

(* ta_check() always returns true and more: no descriptor is ever lost, or *)
(* on two lists, or twice on one.                                          *)
BlocksConserved ==
    TaCheck /\ ToSet(heap.free) \cup ToSet(heap.used) \cup ToSet(heap.fresh) = Blocks

(* Used and free blocks cover [Base, top) and nothing else, each byte      *)
(* once: splitting, merging and moving top leak no byte of the arena.      *)
Tiling ==
    /\ UNION {Extent(b) : b \in InUse \cup Free} = Base .. heap.top - 1
    /\ \A b1, b2 \in InUse \cup Free : b1 # b2 => Extent(b1) \cap Extent(b2) = {}

(* The free list is sorted by address and no two blocks on it touch: the   *)
(* order compact() and first fit rely on survives every call, and once     *)
(* everything is freed a single block is left.                             *)
FreeListCanonical ==
    \A i \in 1 .. Len(heap.free) - 1 :
       End(heap, heap.free[i]) < heap.addr[heap.free[i + 1]]

(* Whatever the callers ask for and free, in whatever order, the addresses *)
(* they hold are disjoint and inside the arena: the heap implements        *)
(* Allocator.                                                              *)
Abs == INSTANCE Allocator WITH
    Lo <- Base, Hi <- Limit,
    held <- [c \in Owners |-> held[c].ptr .. held[c].ptr + held[c].len - 1]

ImplementsAllocator == Abs!Spec

(* ta_free takes the one block that contains the pointer out of use, also  *)
(* after moves of top, splits and merges around it.  A pointer that        *)
(* ta_alloc_align returned frees no block, its own or another: mem.c:36,   *)
(* "the address used is stepped back until the magic number is valid", is  *)
(* not so, and that block stays in use for ever.                           *)
FreesOwnBlock ==
    [][\A c \in Owners : TaFree(c) =>
         InUse \ InUse' =
           {b \in InUse : held[c].ptr \in Extent(b) /\ ~\E a \in AlignedSizes : held[c].len = a[1]}]_vars
=============================================================================
