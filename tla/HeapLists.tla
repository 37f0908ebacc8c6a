----------------------------- MODULE HeapLists ------------------------------
(***************************************************************************)
(* alloc_block and ta_free of src/libc/mem.c as they work on the lists:    *)
(* pointer by pointer, a statement a step, by tasks that are switched by   *)
(* timer interrupts between any two steps (nothing in mem.c prevents it).  *)
(*                                                                         *)
(* mem is what the descriptors and the Heap structure hold.  Heap's        *)
(* variables hold what Heap makes of the same calls, each taken as one     *)
(* step when it returns.                                                   *)
(***************************************************************************)
EXTENDS Heap

CONSTANT Tasks

(* So that rounding up changes nothing in a request rounded up before.      *)
ASSUME AlignmentAssumption == Alignment <= Limit

VARIABLES
    mem,    \* [free, used, fresh, top, next, addr, size]; 0 is NULL
    call,   \* [Tasks -> [pc, op, c, num and the routines' local variables]]
    clean   \* no call has written after another disturbed it

listVars == <<mem, call, clean, heap, held>>

Idle == [pc |-> "idle", op |-> "none", c |-> NoBlock, num |-> 0, top |-> 0,
         ptr |-> 0, prev |-> 0, scan |-> 0, block |-> 0, next |-> 0,
         wrote |-> FALSE, stale |-> FALSE]

(* ta_init.                                                                *)
ListInit ==
    /\ Init
    /\ mem = [free |-> 0, used |-> 0, fresh |-> 1, top |-> Base,
              next |-> [b \in Blocks |-> IF b = NBlocks THEN 0 ELSE b + 1],
              addr |-> [b \in Blocks |-> 0], size |-> [b \in Blocks |-> 0]]
    /\ call = [t \in Tasks |-> Idle]
    /\ clean = TRUE
-----------------------------------------------------------------------------
(* A step that only reads, and one that writes.  A call is disturbed once  *)
(* another writes after it began, or if it began among another's writes.   *)
(* Nothing is said of the lists after a disturbed call wrote: the model    *)
(* ends there.                                                             *)
At(t, pc) == clean /\ call[t].pc = pc

Read(t, l) ==
    /\ call' = [call EXCEPT ![t] = l]
    /\ UNCHANGED <<mem, clean, heap, held>>

Write(t, m, l) ==
    /\ mem' = m
    /\ call' = [u \in Tasks |->
                  IF u = t THEN [l EXCEPT !.wrote = TRUE]
                  ELSE [call[u] EXCEPT !.stale = call[u] # Idle]]
    /\ clean' = ~call[t].stale
    /\ UNCHANGED <<heap, held>>

Begin(t, l) ==
    /\ At(t, "idle")
    /\ \A u \in Tasks : call[u].c # l.c
    /\ Read(t, [l EXCEPT !.stale = \E u \in Tasks : call[u].wrote])

(* p->next = q, or *head = q if p is NULL.                                 *)
Link(m, head, p, q) ==
    IF p # 0 THEN [m EXCEPT !.next[p] = q] ELSE [m EXCEPT ![head] = q]
-----------------------------------------------------------------------------
(* alloc_block                                                             *)

TaAllocCall(t, c, request) ==
    /\ held[c] = Nothing
    /\ Begin(t, [Idle EXCEPT !.pc = "scan", !.op = "alloc", !.c = c,
                  !.num = RoundUp(request), !.ptr = mem.free, !.top = mem.top])

TopBlock(l) ==
    /\ Wrap(mem.addr[l.ptr] + mem.size[l.ptr]) >= l.top
    /\ Wrap(mem.addr[l.ptr] + l.num) <= Limit

Scan(t) ==
    LET l == call[t]
    IN  /\ At(t, "scan")
        /\ Read(t, IF l.ptr = 0 THEN [l EXCEPT !.pc = "new"]
                   ELSE IF TopBlock(l) THEN [l EXCEPT !.pc = "unlink_top"]
                   ELSE IF mem.size[l.ptr] >= l.num THEN [l EXCEPT !.pc = "unlink"]
                   ELSE [l EXCEPT !.prev = l.ptr, !.ptr = mem.next[l.ptr]])

UnlinkFree(t, from, to) ==
    LET l == call[t]
    IN  /\ At(t, from)
        /\ Write(t, Link(mem, "free", l.prev, mem.next[l.ptr]), [l EXCEPT !.pc = to])
PushUsed(t, from, to) ==
    LET l == call[t]
    IN  /\ At(t, from)
        /\ Write(t, [mem EXCEPT !.next[l.ptr] = mem.used], [l EXCEPT !.pc = to])
SetUsed(t, from, to) ==
    LET l == call[t]
    IN  /\ At(t, from)
        /\ Write(t, [mem EXCEPT !.used = l.ptr], [l EXCEPT !.pc = to])

(* The block at top is resized, and top after it.                          *)
ResizeTop(t) ==
    LET l == call[t]
    IN  \/ /\ At(t, "resize")
           /\ Write(t, [mem EXCEPT !.size[l.ptr] = l.num], [l EXCEPT !.pc = "set_top"])
        \/ /\ At(t, "set_top")
           /\ Write(t, [mem EXCEPT !.top = Wrap(mem.addr[l.ptr] + l.num)],
                       [l EXCEPT !.pc = "return"])

(* Another one is split if there is a descriptor and enough is left over.  *)
SplitBlock(t) ==
    LET l == call[t]
        excess == mem.size[l.ptr] - l.num
    IN  \/ /\ At(t, "split")
           /\ IF mem.fresh # 0 /\ excess >= SplitThresh
              THEN Write(t, [mem EXCEPT !.size[l.ptr] = l.num],
                         [l EXCEPT !.pc = "take", !.top = excess, !.block = mem.fresh])
              ELSE Read(t, [l EXCEPT !.pc = "return"])
        \/ /\ At(t, "take")
           /\ Write(t, [mem EXCEPT !.fresh = mem.next[l.block]], [l EXCEPT !.pc = "rest"])
        \/ /\ At(t, "rest")
           /\ Write(t, [mem EXCEPT !.addr[l.block] = mem.addr[l.ptr] + l.num,
                                   !.size[l.block] = l.top],
                       [l EXCEPT !.pc = "insert"])

(* A block of its own at top, read when the call began.                    *)
NewBlock(t) ==
    LET l == call[t]
        new_top == Wrap(l.top + l.num)
    IN  \/ /\ At(t, "new")
           /\ Read(t, IF mem.fresh # 0 /\ new_top <= Limit
                      THEN [l EXCEPT !.pc = "fresh", !.ptr = mem.fresh]
                      ELSE [l EXCEPT !.pc = "return", !.ptr = 0])
        \/ /\ At(t, "fresh")
           /\ Write(t, [mem EXCEPT !.fresh = mem.next[l.ptr]], [l EXCEPT !.pc = "addr"])
        \/ /\ At(t, "addr")
           /\ Write(t, [mem EXCEPT !.addr[l.ptr] = l.top, !.size[l.ptr] = l.num,
                                   !.next[l.ptr] = mem.used],
                       [l EXCEPT !.pc = "set_used"])
        \/ SetUsed(t, "set_used", "new_top")
        \/ /\ At(t, "new_top")
           /\ Write(t, [mem EXCEPT !.top = new_top], [l EXCEPT !.pc = "return"])
-----------------------------------------------------------------------------
(* ta_free                                                                 *)

TaFreeCall(t, c) ==
    /\ held[c] # Nothing
    /\ Begin(t, [Idle EXCEPT !.pc = "find", !.op = "free", !.c = c, !.ptr = mem.used])

Find(t) ==
    LET l == call[t]
    IN  /\ At(t, "find")
        /\ IF l.ptr = 0 THEN Read(t, [l EXCEPT !.pc = "return"])
           ELSE IF mem.addr[l.ptr] # held[l.c].ptr
           THEN Read(t, [l EXCEPT !.prev = l.ptr, !.ptr = mem.next[l.ptr]])
           ELSE Write(t, Link(mem, "used", l.prev, mem.next[l.ptr]),
                      [l EXCEPT !.pc = "insert", !.block = l.ptr])
-----------------------------------------------------------------------------
(* insert_block(block): alloc_block's ptr is kept in next until the return.*)
InsertStart(t) ==
    LET l == call[t]
    IN  /\ At(t, "insert")
        /\ Read(t, [l EXCEPT !.pc = "place", !.next = l.ptr, !.ptr = mem.free, !.prev = 0])

Place(t) ==
    LET l == call[t]
    IN  /\ At(t, "place")
        /\ IF l.ptr # 0 /\ mem.addr[l.block] > mem.addr[l.ptr]
           THEN Read(t, [l EXCEPT !.prev = l.ptr, !.ptr = mem.next[l.ptr]])
           ELSE Write(t, Link(mem, "free", l.prev, l.block), [l EXCEPT !.pc = "link"])

(* Mutant: the inserted block's own link is left as it was.                *)
LinkBlock_Forgotten(t) ==
    LET l == call[t]
    IN  /\ At(t, "link")
        /\ Write(t, mem, [l EXCEPT !.pc = "compact", !.ptr = mem.free])

(* The last store of insert_block, and compact's first load.               *)
LinkBlock(t) ==
    LET l == call[t]
    IN  /\ At(t, "link")
        /\ Write(t, [mem EXCEPT !.next[l.block] = l.ptr],
                    [l EXCEPT !.pc = "compact", !.ptr = mem.free])

(* compact                                                                 *)
RunStart(t) ==
    LET l == call[t]
    IN  /\ At(t, "compact")
        /\ Read(t, IF l.ptr = 0 THEN [l EXCEPT !.pc = "return", !.ptr = l.next]
                   ELSE [l EXCEPT !.pc = "run", !.prev = l.ptr, !.scan = mem.next[l.ptr]])

(* Along the run that starts at ptr; when it is longer than one block, ptr *)
(* becomes all of it.                                                      *)
FollowRun(t) ==
    LET l == call[t]
        adjacent == /\ l.scan # 0
                    /\ Wrap(mem.addr[l.prev] + mem.size[l.prev]) = mem.addr[l.scan]
    IN  /\ At(t, "run")
        /\ IF adjacent
           THEN Read(t, [l EXCEPT !.prev = l.scan, !.scan = mem.next[l.scan]])
           ELSE IF l.prev = l.ptr
           THEN Read(t, [l EXCEPT !.pc = "compact", !.ptr = mem.next[l.ptr]])
           ELSE Write(t, [mem EXCEPT !.size[l.ptr] =
                            mem.addr[l.prev] - mem.addr[l.ptr] + mem.size[l.prev]],
                      [l EXCEPT !.pc = "release", !.scan = mem.next[l.ptr],
                                !.prev = mem.next[l.prev]])

(* release_blocks(ptr->next, to), to being in prev, then ptr->next = to.   *)
Release(t) ==
    LET l == call[t]
    IN  \/ /\ At(t, "release")
           /\ IF l.scan # l.prev
              THEN Write(t, [mem EXCEPT !.next[l.scan] = mem.fresh],
                         [l EXCEPT !.pc = "set_fresh", !.top = mem.next[l.scan]])
              ELSE Write(t, [mem EXCEPT !.next[l.ptr] = l.prev],
                         [l EXCEPT !.pc = "compact", !.ptr = l.prev])
        \/ /\ At(t, "set_fresh")
           /\ Write(t, [mem EXCEPT !.fresh = l.scan], [l EXCEPT !.pc = "clear"])
        \/ /\ At(t, "clear")
           /\ Write(t, [mem EXCEPT !.addr[l.scan] = 0, !.size[l.scan] = 0],
                       [l EXCEPT !.pc = "release", !.scan = l.top])
-----------------------------------------------------------------------------
(* What Heap makes of the call.                                            *)
Expected(l) ==
    IF l.op = "alloc" THEN AllocBlock(heap, l.num)
    ELSE LET i == SelectInSeq(heap.used, LAMBDA b : heap.addr[b] = held[l.c].ptr)
         IN  IF i = 0 THEN [heap |-> heap, block |-> NoBlock]
             ELSE [heap |-> Compact(InsertBlock([heap EXCEPT !.used = RemoveAt(@, i)],
                                                heap.used[i])),
                   block |-> heap.used[i]]

Return(t) ==
    LET l == call[t]
    IN  /\ At(t, "return")
        /\ call' = [call EXCEPT ![t] = Idle]
        /\ heap' = IF l.wrote THEN Expected(l).heap ELSE heap
        /\ held' = [held EXCEPT ![l.c] =
                      IF l.op = "alloc" /\ l.ptr # 0
                      THEN [ptr |-> mem.addr[l.ptr], len |-> l.num] ELSE Nothing]
        /\ UNCHANGED <<mem, clean>>

CallStep(t) ==
    \/ Scan(t)
    \/ UnlinkFree(t, "unlink", "push") \/ UnlinkFree(t, "unlink_top", "push_top")
    \/ PushUsed(t, "push", "used") \/ PushUsed(t, "push_top", "used_top")
    \/ SetUsed(t, "used", "split") \/ SetUsed(t, "used_top", "resize")
    \/ ResizeTop(t) \/ SplitBlock(t) \/ NewBlock(t)
    \/ Find(t) \/ InsertStart(t) \/ Place(t) \/ LinkBlock(t)
    \/ RunStart(t) \/ FollowRun(t) \/ Release(t) \/ Return(t)

ListNext ==
    \E t \in Tasks :
       \/ \E c \in Owners : TaFreeCall(t, c)
       \/ \E c \in Owners, num \in Sizes : TaAllocCall(t, c, num)
       \/ CallStep(t)

ListSpec == ListInit /\ [][ListNext]_listVars
-----------------------------------------------------------------------------
(* The lists as sequences.                                                 *)
List(b) ==
    LET f[p \in Blocks \cup {0}] == IF p = 0 THEN <<>> ELSE <<p>> \o f[mem.next[p]]
    IN  f[b]
Lists == [free |-> List(mem.free), used |-> List(mem.used), fresh |-> List(mem.fresh),
          addr |-> mem.addr, size |-> mem.size, top |-> mem.top]

(* Task switches inside alloc_block and ta_free do no harm unless a call   *)
(* writes that another has disturbed: until then the pointers, whenever no *)
(* call is among its writes, form exactly the lists that Heap's operators  *)
(* compute, and an undisturbed call returns the block they say.            *)
OnlyDisturbedWritesBreak ==
    clean =>
      /\ (\A t \in Tasks : ~call[t].wrote) => Lists = heap
      /\ \A t \in Tasks : call[t].pc = "return" /\ ~call[t].stale
                            => call[t].ptr = Expected(call[t]).block
=============================================================================
