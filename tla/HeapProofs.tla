----------------------------- MODULE HeapProofs -----------------------------
(***************************************************************************)
(* Theorems about Heap and HeapLists, for every size of the arena, number  *)
(* of descriptors, requests, number of callers and of tasks.               *)
(*                                                                         *)
(* First Heap: its operators keep the heap in order (Good, Strict), hence  *)
(* its steps do.  Then HeapLists: what each statement of mem.c makes of    *)
(* the pointers is a step from one heap in order to the next one that the  *)
(* call goes through, until the pointers form the heap Heap computes.      *)
(***************************************************************************)
EXTENDS HeapLists, Lemmas

Heaps == [free : Seq(Blocks), used : Seq(Blocks), fresh : Seq(Blocks),
          addr : [Blocks -> 0 .. Limit], size : [Blocks -> 0 .. Limit],
          top : Base .. Limit]

(* Every descriptor of B is on one list, once.                             *)
Listed(h, B) ==
    /\ Once(h.free) /\ Once(h.used) /\ Once(h.fresh)
    /\ ToSet(h.free) \cap ToSet(h.used) = {}
    /\ ToSet(h.free) \cap ToSet(h.fresh) = {}
    /\ ToSet(h.used) \cap ToSet(h.fresh) = {}
    /\ ToSet(h.free) \cup ToSet(h.used) \cup ToSet(h.fresh) = B

Live(h) == ToSet(h.free) \cup ToSet(h.used)

(* The blocks of L, as addr and size give them, are laid end to end from   *)
(* Base to top: none is empty, no two overlap, no byte is outside all.     *)
Laid(addr, size, top, L) ==
    /\ \A b \in L : size[b] > 0 /\ Base <= addr[b] /\ addr[b] + size[b] <= top
    /\ \A b1, b2 \in L : b1 # b2 => \/ addr[b1] + size[b1] <= addr[b2]
                                    \/ addr[b2] + size[b2] <= addr[b1]
    /\ \A x \in Base .. top - 1 : \E b \in L : addr[b] <= x /\ x < addr[b] + size[b]

(* The free list is sorted by address...                                   *)
Sorted(h) ==
    \A j, k \in 1 .. Len(h.free) : j < k => End(h, h.free[j]) <= h.addr[h.free[k]]

(* ... and has gaps after each of its first blocks, up to the i-th.        *)
Upto(h, i) ==
    \A j, k \in 1 .. Len(h.free) :
       j < k /\ j < i => End(h, h.free[j]) < h.addr[h.free[k]]

Strict(h) == Upto(h, Len(h.free) + 1)

Good(h) ==
    /\ h \in Heaps
    /\ Listed(h, Blocks)
    /\ Laid(h.addr, h.size, h.top, Live(h))
    /\ Sorted(h)

(* What is in use, and the end of the arena, are the same in h and g.      *)
Same(h, g) ==
    /\ g.used = h.used /\ g.top = h.top
    /\ \A b \in ToSet(h.used) : g.addr[b] = h.addr[b] /\ g.size[b] = h.size[b]

USE ArenaAssumption
-----------------------------------------------------------------------------
(* The arena, whatever list its blocks are on.                             *)
Fields == [Blocks -> 0 .. Limit]

LEMMA Update ==
    ASSUME NEW f \in Fields, NEW b \in Blocks, NEW v \in 0 .. Limit
    PROVE  /\ [f EXCEPT ![b] = v] \in Fields /\ [f EXCEPT ![b] = v][b] = v
           /\ \A x \in Blocks \ {b} : [f EXCEPT ![b] = v][x] = f[x]
BY DEF Fields

(* Two blocks that touch become one.                                       *)
Joins(addr, size, L, b, next, addr2, size2) ==
    /\ b \in L /\ next \in L /\ b # next /\ addr[b] + size[b] = addr[next]
    /\ \A x \in L \ {next} : addr2[x] = addr[x]
    /\ \A x \in L \ {b, next} : size2[x] = size[x]
    /\ size2[b] = size[b] + size[next]

LEMMA LaidJoined ==
    ASSUME NEW addr \in Fields, NEW size \in Fields, NEW top \in Base .. Limit,
           NEW L \in SUBSET Blocks, Laid(addr, size, top, L), NEW b, NEW next,
           NEW addr2, NEW size2, Joins(addr, size, L, b, next, addr2, size2)
    PROVE  Laid(addr2, size2, top, L \ {next})
<1>0. /\ b \in L /\ next \in L /\ b # next /\ addr[b] + size[b] = addr[next]
      /\ \A x \in L \ {next} : addr2[x] = addr[x]
      /\ \A x \in L \ {b, next} : size2[x] = size[x]
      /\ size2[b] = size[b] + size[next]
  BY DEF Joins
<1>1. \A x \in L : x \in Blocks /\ addr[x] \in Nat /\ size[x] \in Nat
  BY DEF Fields
<1>2. ASSUME NEW x \in L \ {next}
      PROVE  size2[x] > 0 /\ Base <= addr2[x] /\ addr2[x] + size2[x] <= top
  <2>1. CASE x = b
    BY <1>0, <1>1, <2>1 DEF Laid
  <2>2. CASE x # b
    BY <1>0, <1>1, <2>2 DEF Laid
  <2> QED BY <2>1, <2>2
<1>3. ASSUME NEW x \in L \ {next}, NEW y \in L \ {next}, x # y
      PROVE  addr2[x] + size2[x] <= addr2[y] \/ addr2[y] + size2[y] <= addr2[x]
  <2>1. /\ addr[x] + size[x] <= addr[y] \/ addr[y] + size[y] <= addr[x]
        /\ addr[x] + size[x] <= addr[next] \/ addr[next] + size[next] <= addr[x]
        /\ addr[y] + size[y] <= addr[next] \/ addr[next] + size[next] <= addr[y]
        /\ size[x] > 0 /\ size[y] > 0 /\ size[next] > 0
    BY <1>0, <1>3 DEF Laid
  <2>2. addr2[x] = addr[x] /\ addr2[y] = addr[y]
    BY <1>0
  <2>3. CASE x # b /\ y # b
    BY <1>0, <1>1, <2>1, <2>2, <2>3
  <2>4. CASE x = b
    <3>1. size2[y] = size[y]
      BY <1>0, <1>3, <2>4
    <3> QED BY <1>0, <1>1, <2>1, <2>2, <2>4, <3>1
  <2>5. CASE y = b
    <3>1. size2[x] = size[x]
      BY <1>0, <1>3, <2>5
    <3> QED BY <1>0, <1>1, <2>1, <2>2, <2>5, <3>1
  <2> QED BY <2>3, <2>4, <2>5
<1>4. ASSUME NEW x \in Base .. top - 1
      PROVE  \E y \in L \ {next} : addr2[y] <= x /\ x < addr2[y] + size2[y]
  <2>1. PICK y \in L : addr[y] <= x /\ x < addr[y] + size[y]
    BY DEF Laid
  <2>2. CASE y \in {b, next}
    <3>1. addr2[b] <= x /\ x < addr2[b] + size2[b] /\ b \in L \ {next}
      BY <1>0, <1>1, <2>1, <2>2
    <3> QED BY <3>1
  <2>3. CASE y \notin {b, next}
    BY <1>0, <1>1, <2>1, <2>3
  <2> QED BY <2>2, <2>3
<1> QED BY <1>2, <1>3, <1>4 DEF Laid

(* One block becomes two.                                                  *)
Splits(addr, size, L, b, num, rest, addr2, size2) ==
    /\ b \in L /\ rest \in Blocks \ L /\ num \in Nat \ {0} /\ num < size[b]
    /\ \A x \in L : addr2[x] = addr[x]
    /\ addr2[rest] = addr[b] + num
    /\ \A x \in L \ {b} : size2[x] = size[x]
    /\ size2[b] = num /\ size2[rest] = size[b] - num

LEMMA LaidSplit ==
    ASSUME NEW addr \in Fields, NEW size \in Fields, NEW top \in Base .. Limit,
           NEW L \in SUBSET Blocks, Laid(addr, size, top, L), NEW b, NEW num, NEW rest,
           NEW addr2, NEW size2, Splits(addr, size, L, b, num, rest, addr2, size2)
    PROVE  Laid(addr2, size2, top, L \cup {rest})
<1>0. /\ b \in L /\ rest \in Blocks \ L /\ num \in Nat \ {0} /\ num < size[b]
      /\ \A x \in L : addr2[x] = addr[x]
      /\ addr2[rest] = addr[b] + num
      /\ \A x \in L \ {b} : size2[x] = size[x]
      /\ size2[b] = num /\ size2[rest] = size[b] - num
  BY DEF Splits
<1>1. \A x \in L : x \in Blocks /\ addr[x] \in Nat /\ size[x] \in Nat /\ x # rest
  BY <1>0 DEF Fields
<1>2. ASSUME NEW x \in L \cup {rest}
      PROVE  size2[x] > 0 /\ Base <= addr2[x] /\ addr2[x] + size2[x] <= top
  <2>1. CASE x \in {b, rest}
    BY <1>0, <1>1, <2>1 DEF Laid
  <2>2. CASE x \notin {b, rest}
    BY <1>0, <1>1, <2>2 DEF Laid
  <2> QED BY <2>1, <2>2
<1>3. ASSUME NEW x \in L \cup {rest}, NEW y \in L \cup {rest}, x # y
      PROVE  addr2[x] + size2[x] <= addr2[y] \/ addr2[y] + size2[y] <= addr2[x]
  <2>1. CASE x \notin {b, rest} /\ y \notin {b, rest}
    <3>1. /\ x \in L \ {b} /\ y \in L \ {b}
          /\ addr[x] + size[x] <= addr[y] \/ addr[y] + size[y] <= addr[x]
      BY <1>3, <2>1 DEF Laid
    <3> QED BY <1>0, <1>1, <3>1
  <2>2. CASE x \in {b, rest} /\ y \in {b, rest}
    <3>1. addr2[b] + size2[b] <= addr2[rest]
      BY <1>0, <1>1
    <3> QED BY <1>3, <2>2, <3>1
  <2>3. CASE x \in {b, rest} /\ y \notin {b, rest}
    <3>1. y \in L /\ y # b
      BY <2>3
    <3> QED BY <1>0, <1>1, <2>3, <3>1 DEF Laid
  <2>4. CASE y \in {b, rest} /\ x \notin {b, rest}
    <3>1. x \in L /\ x # b
      BY <2>4
    <3> QED BY <1>0, <1>1, <2>4, <3>1 DEF Laid
  <2> QED BY <2>1, <2>2, <2>3, <2>4
<1>4. ASSUME NEW x \in Base .. top - 1
      PROVE  \E y \in L \cup {rest} : addr2[y] <= x /\ x < addr2[y] + size2[y]
  <2>1. PICK y \in L : addr[y] <= x /\ x < addr[y] + size[y]
    BY DEF Laid
  <2>2. CASE y # b
    BY <1>0, <1>1, <2>1, <2>2
  <2>3. CASE y = b /\ x < addr[b] + num
    BY <1>0, <1>1, <2>1, <2>3
  <2>4. CASE y = b /\ ~(x < addr[b] + num)
    <3>1. addr2[rest] <= x /\ x < addr2[rest] + size2[rest]
      BY <1>0, <1>1, <2>1, <2>4
    <3> QED BY <3>1
  <2> QED BY <2>2, <2>3, <2>4
<1> QED BY <1>2, <1>3, <1>4 DEF Laid

(* The block that ends at top is resized, and top goes with its end.       *)
Resizes(addr, size, L, b, num, size2) ==
    /\ b \in L /\ num \in Nat \ {0}
    /\ \A x \in L \ {b} : size2[x] = size[x]
    /\ size2[b] = num

LEMMA LaidResized ==
    ASSUME NEW addr \in Fields, NEW size \in Fields, NEW top \in Base .. Limit,
           NEW L \in SUBSET Blocks, Laid(addr, size, top, L), NEW b, NEW num, NEW size2,
           Resizes(addr, size, L, b, num, size2), addr[b] + size[b] >= top
    PROVE  Laid(addr, size2, addr[b] + num, L)
<1>0. /\ b \in L /\ num \in Nat \ {0}
      /\ \A x \in L \ {b} : size2[x] = size[x]
      /\ size2[b] = num
  BY DEF Resizes
<1> DEFINE top2 == addr[b] + num
<1>1. \A x \in L : x \in Blocks /\ addr[x] \in Nat /\ size[x] \in Nat
  BY DEF Fields
<1>2. \A x \in L \ {b} : addr[x] + size[x] <= addr[b]
  BY <1>0, <1>1 DEF Laid
<1>3. ASSUME NEW x \in L
      PROVE  size2[x] > 0 /\ Base <= addr[x] /\ addr[x] + size2[x] <= top2
  <2>1. CASE x = b
    BY <1>0, <1>1, <2>1 DEF Laid
  <2>2. CASE x # b
    BY <1>0, <1>1, <1>2, <2>2 DEF Laid
  <2> QED BY <2>1, <2>2
<1>4. ASSUME NEW x \in L, NEW y \in L, x # y
      PROVE  addr[x] + size2[x] <= addr[y] \/ addr[y] + size2[y] <= addr[x]
  <2>1. CASE x # b /\ y # b
    <3>1. addr[x] + size[x] <= addr[y] \/ addr[y] + size[y] <= addr[x]
      BY <1>4 DEF Laid
    <3> QED BY <1>0, <2>1, <3>1
  <2>2. CASE x = b \/ y = b
    BY <1>0, <1>1, <1>2, <1>4, <2>2
  <2> QED BY <2>1, <2>2
<1>5. ASSUME NEW x \in Base .. top2 - 1
      PROVE  \E y \in L : addr[y] <= x /\ x < addr[y] + size2[y]
  <2>1. CASE addr[b] <= x
    BY <1>0, <1>1, <2>1
  <2>2. CASE x < addr[b]
    <3>1. x \in Base .. top - 1
      BY <1>0, <1>1, <2>2 DEF Laid
    <3>2. PICK y \in L : addr[y] <= x /\ x < addr[y] + size[y]
      BY <3>1 DEF Laid
    <3>3. y # b
      BY <1>0, <1>1, <2>2, <3>2
    <3> QED BY <1>0, <3>2, <3>3
  <2> QED BY <1>0, <1>1, <2>1, <2>2
<1> QED BY <1>3, <1>4, <1>5 DEF Laid

(* A new block at top.                                                     *)
Appends(addr, size, L, b, top, num, addr2, size2) ==
    /\ b \in Blocks \ L /\ num \in Nat \ {0}
    /\ \A x \in L : addr2[x] = addr[x] /\ size2[x] = size[x]
    /\ addr2[b] = top /\ size2[b] = num

LEMMA LaidAppended ==
    ASSUME NEW addr \in Fields, NEW size \in Fields, NEW top \in Base .. Limit,
           NEW L \in SUBSET Blocks, Laid(addr, size, top, L), NEW b, NEW num,
           NEW addr2, NEW size2, Appends(addr, size, L, b, top, num, addr2, size2)
    PROVE  Laid(addr2, size2, top + num, L \cup {b})
<1>0. /\ b \in Blocks \ L /\ num \in Nat \ {0}
      /\ \A x \in L : addr2[x] = addr[x] /\ size2[x] = size[x]
      /\ addr2[b] = top /\ size2[b] = num
  BY DEF Appends
<1> DEFINE top2 == top + num
<1>1. \A x \in L : x \in Blocks /\ addr[x] \in Nat /\ size[x] \in Nat /\ x # b
  BY <1>0 DEF Fields
<1>2. \A x \in L \cup {b} :
         size2[x] > 0 /\ Base <= addr2[x] /\ addr2[x] + size2[x] <= top2
  BY <1>0, <1>1 DEF Laid
<1>3. \A x, y \in L \cup {b} : x # y =>
         addr2[x] + size2[x] <= addr2[y] \/ addr2[y] + size2[y] <= addr2[x]
  BY <1>0, <1>1 DEF Laid
<1>4. ASSUME NEW x \in Base .. top2 - 1
      PROVE  \E y \in L \cup {b} : addr2[y] <= x /\ x < addr2[y] + size2[y]
  <2>1. CASE x < top
    <3>1. PICK y \in L : addr[y] <= x /\ x < addr[y] + size[y]
      BY <2>1 DEF Laid
    <3> QED BY <1>0, <3>1
  <2>2. CASE ~(x < top)
    BY <1>0, <2>2
  <2> QED BY <2>1, <2>2
<1> QED BY <1>2, <1>3, <1>4 DEF Laid
-----------------------------------------------------------------------------
(* Putting a block on the free list.                                       *)

LEMMA FieldsOf ==
    ASSUME NEW h \in Heaps
    PROVE  /\ h.free \in Seq(Blocks) /\ h.used \in Seq(Blocks) /\ h.fresh \in Seq(Blocks)
           /\ h.addr \in Fields /\ h.size \in Fields /\ h.top \in Base .. Limit
           /\ Len(h.free) \in Nat /\ Len(h.used) \in Nat /\ Len(h.fresh) \in Nat
           /\ \A i \in 1 .. Len(h.free) : h.free[i] \in Blocks
           /\ \A b \in Blocks : h.addr[b] \in Nat /\ h.size[b] \in Nat
BY DEF Heaps, Fields

Arena(free, used, fresh, addr, size, top) ==
    [free |-> free, used |-> used, fresh |-> fresh, addr |-> addr, size |-> size, top |-> top]

(* Only block b is on no list of h, and it has its place in the arena.     *)
Insertable(h, b) ==
    /\ h \in Heaps /\ b \in Blocks /\ Listed(h, Blocks \ {b})
    /\ Laid(h.addr, h.size, h.top, Live(h) \cup {b}) /\ Sorted(h)

(* Where it goes.                                                          *)
LEMMA Position ==
    ASSUME NEW s \in Seq(Blocks), NEW addr \in Fields, NEW b \in Blocks
    PROVE  LET i == SelectInSeq(s, LAMBDA f : addr[b] <= addr[f])
           IN  \E p \in 1 .. Len(s) + 1 :
                  /\ i = 0 => p = Len(s) + 1
                  /\ i # 0 => i = p /\ i \in 1 .. Len(s) /\ addr[b] <= addr[s[i]]
                  /\ \A j \in 1 .. Len(s) : j < p => addr[s[j]] < addr[b]
<1> DEFINE n == Len(s)
           I == {j \in 1 .. n : addr[b] <= addr[s[j]]}
           i == IF I # {} THEN Min(I) ELSE 0
<1>1. SelectInSeq(s, LAMBDA f : addr[b] <= addr[f]) = i
  BY DEF SelectInSeq
<1>2. n \in Nat /\ addr[b] \in Nat /\ \A j \in 1 .. n : addr[s[j]] \in Nat
  BY DEF Fields
<1>3. /\ i = 0 => I = {}
      /\ i # 0 => i \in I /\ i \in 1 .. n /\ \A j \in 1 .. n : j < i => j \notin I
  <2>1. I \in SUBSET (1 .. n)
    OBVIOUS
  <2> HIDE DEF I, n
  <2> QED BY <1>2, <2>1, FirstIndex
<1> HIDE DEF i
<1>4. CASE i = 0
  <2>1. \A j \in 1 .. n : addr[s[j]] < addr[b]
    BY <1>2, <1>3, <1>4
  <2>2. n + 1 \in 1 .. n + 1
    BY <1>2
  <2> HIDE DEF I
  <2> QED BY <1>1, <1>4, <2>1, <2>2
<1>5. CASE i # 0
  <2>1. i \in 1 .. n /\ addr[b] <= addr[s[i]]
    BY <1>3, <1>5
  <2>2. \A j \in 1 .. n : j < i => addr[s[j]] < addr[b]
    BY <1>2, <1>3, <1>5
  <2>3. i \in 1 .. n + 1
    BY <1>2, <2>1
  <2> HIDE DEF I
  <2> QED BY <1>1, <1>5, <2>1, <2>2, <2>3
<1> QED BY <1>4, <1>5

LEMMA SortedInserted ==
    ASSUME NEW s \in Seq(Blocks), NEW addr \in Fields, NEW size \in Fields, NEW b \in Blocks,
           NEW p \in 1 .. Len(s) + 1, NEW r \in Seq(Blocks), Inserts(r, s, p, b),
           \A j, k \in 1 .. Len(s) : j < k => addr[s[j]] + size[s[j]] <= addr[s[k]],
           \A j \in 1 .. Len(s) : j < p => addr[s[j]] < addr[b],
           p <= Len(s) => addr[b] <= addr[s[p]],
           size[b] > 0,
           \A j \in 1 .. Len(s) : /\ size[s[j]] > 0
                                  /\ \/ addr[s[j]] + size[s[j]] <= addr[b]
                                     \/ addr[b] + size[b] <= addr[s[j]]
    PROVE  \A j, k \in 1 .. Len(r) : j < k => addr[r[j]] + size[r[j]] <= addr[r[k]]
<1> DEFINE n == Len(s)
           a(j) == addr[s[j]]
           z(j) == size[s[j]]
<1>1. n \in Nat /\ p \in Nat /\ p \in 1 .. n + 1 /\ Len(r) = n + 1
  BY DEF Inserts
<1>2. \A j \in 1 .. n : a(j) \in Nat /\ z(j) \in Nat /\ z(j) > 0
  <2>1. \A j \in 1 .. n : s[j] \in Blocks /\ size[s[j]] > 0
    OBVIOUS
  <2> QED BY <2>1 DEF Fields
<1>3. addr[b] \in Nat /\ size[b] \in Nat /\ size[b] > 0
  BY DEF Fields
<1>4. \A j, k \in 1 .. n : j < k => a(j) + z(j) <= a(k)
  OBVIOUS
<1>5. \A j \in 1 .. n : a(j) + z(j) <= addr[b] \/ addr[b] + size[b] <= a(j)
  OBVIOUS
<1>6. \A j \in 1 .. n : j < p => a(j) < addr[b]
  OBVIOUS
<1>7. p <= n => addr[b] <= a(p)
  OBVIOUS
<1>8. \A j \in 1 .. n + 1 :
         /\ j < p => j \in 1 .. n /\ addr[r[j]] = a(j) /\ size[r[j]] = z(j)
         /\ j = p => addr[r[j]] = addr[b] /\ size[r[j]] = size[b]
         /\ j > p => j - 1 \in 1 .. n /\ addr[r[j]] = a(j - 1) /\ size[r[j]] = z(j - 1)
  BY <1>1 DEF Inserts
<1> HIDE DEF n, a, z
<1>9. \A j \in 1 .. n : j < p => a(j) + z(j) <= addr[b]
  <2> SUFFICES ASSUME NEW j \in 1 .. n, j < p PROVE a(j) + z(j) <= addr[b]
    OBVIOUS
  <2>1. a(j) < addr[b]
    BY <1>6
  <2> QED BY <1>2, <1>3, <1>5, <2>1
<1>10. \A j \in 1 .. n : p <= j => addr[b] + size[b] <= a(j)
  <2> SUFFICES ASSUME NEW j \in 1 .. n, p <= j PROVE addr[b] + size[b] <= a(j)
    OBVIOUS
  <2>1. p \in 1 .. n /\ addr[b] <= a(p)
    BY <1>1, <1>7
  <2>2. addr[b] <= a(j)
    <3>1. CASE p = j
      BY <2>1, <3>1
    <3>2. CASE p < j
      <4>1. a(p) + z(p) <= a(j) /\ a(p) \in Nat /\ z(p) \in Nat /\ a(j) \in Nat
        BY <1>2, <1>4, <2>1, <3>2
      <4> QED BY <1>3, <2>1, <4>1
    <3> QED BY <1>1, <3>1, <3>2
  <2> QED BY <1>1, <1>2, <1>3, <1>5, <2>2
<1> SUFFICES ASSUME NEW j \in 1 .. n + 1, NEW k \in 1 .. n + 1, j < k
             PROVE  addr[r[j]] + size[r[j]] <= addr[r[k]]
  BY <1>1
<1>11. CASE k < p
  <2>1. j < p /\ j \in 1 .. n /\ k \in 1 .. n
    BY <1>1, <1>11
  <2> QED BY <1>4, <1>8, <1>11, <2>1
<1>12. CASE k = p
  <2>1. j < p /\ j \in 1 .. n
    BY <1>1, <1>12
  <2> QED BY <1>8, <1>9, <1>12, <2>1
<1>13. CASE j = p
  <2>1. k > p /\ k - 1 \in 1 .. n /\ p <= k - 1
    BY <1>1, <1>13
  <2> QED BY <1>8, <1>10, <1>13, <2>1
<1>14. CASE j < p /\ k > p
  <2>1. j \in 1 .. n /\ k - 1 \in 1 .. n /\ j < k - 1
    BY <1>1, <1>14
  <2> QED BY <1>4, <1>8, <1>14, <2>1
<1>15. CASE j > p
  <2>1. j - 1 \in 1 .. n /\ k - 1 \in 1 .. n /\ j - 1 < k - 1 /\ k > p
    BY <1>1, <1>15
  <2> QED BY <1>4, <1>8, <1>15, <2>1
<1> QED BY <1>1, <1>11, <1>12, <1>13, <1>14, <1>15

LEMMA Inserted ==
    ASSUME NEW h \in Heaps, NEW b \in Blocks, Listed(h, Blocks \ {b}),
           Laid(h.addr, h.size, h.top, Live(h) \cup {b}), Sorted(h)
    PROVE  Good(InsertBlock(h, b)) /\ Same(h, InsertBlock(h, b))
<1> DEFINE i == SelectInSeq(h.free, LAMBDA f : h.addr[b] <= h.addr[f])
           r == IF i = 0 THEN Append(h.free, b) ELSE InsertAt(h.free, i, b)
           g == InsertBlock(h, b)
<1>1. g = [h EXCEPT !.free = r]
  BY DEF InsertBlock
<1> HIDE DEF i, g
<1>2. h.free \in Seq(Blocks) /\ Len(h.free) \in Nat /\ h.addr \in Fields /\ h.size \in Fields
  BY FieldsOf
<1>3. PICK p \in 1 .. Len(h.free) + 1 :
         /\ i = 0 => p = Len(h.free) + 1
         /\ i # 0 => i = p /\ i \in 1 .. Len(h.free) /\ h.addr[b] <= h.addr[h.free[i]]
         /\ \A j \in 1 .. Len(h.free) : j < p => h.addr[h.free[j]] < h.addr[b]
  BY <1>2, Position DEF i
<1>4. r \in Seq(Blocks) /\ Inserts(r, h.free, p, b)
  <2>1. CASE i = 0
    <3>1. r = Append(h.free, b) /\ p = Len(h.free) + 1
      BY <1>3, <2>1
    <3> DEFINE s == h.free
    <3>2. s \in Seq(Blocks) /\ Len(s) \in Nat /\ b \in Blocks
      BY <1>2
    <3> HIDE DEF s
    <3>3. /\ Append(s, b) \in Seq(Blocks) /\ Len(Append(s, b)) = Len(s) + 1
          /\ Append(s, b)[Len(s) + 1] = b
          /\ \A j \in 1 .. Len(s) : Append(s, b)[j] = s[j]
      BY <3>2
    <3>4. \A j \in 1 .. Len(s) + 1 : (j < Len(s) + 1 <=> j \in 1 .. Len(s)) /\ (j \notin 1 .. Len(s) => j = Len(s) + 1)
      BY <3>2
    <3>5. Inserts(Append(s, b), s, Len(s) + 1, b)
      BY <3>3, <3>4 DEF Inserts
    <3> QED BY <3>1, <3>3, <3>5 DEF s
  <2>2. CASE i # 0
    <3>1. r = InsertAt(h.free, p, b) /\ p \in 1 .. Len(h.free)
      BY <1>3, <2>2
    <3> HIDE DEF r
    <3> QED BY <1>2, <3>1, InsertAtValue
  <2> QED BY <2>1, <2>2
<1> HIDE DEF r
<1>5. g = [free |-> r, used |-> h.used, fresh |-> h.fresh, addr |-> h.addr,
           size |-> h.size, top |-> h.top]
  BY <1>1 DEF Heaps
<1>6. Once(r) /\ ToSet(r) = ToSet(h.free) \cup {b}
  <2>1. Once(h.free) /\ b \notin ToSet(h.free)
    BY DEF Listed
  <2> QED BY <1>2, <1>4, <2>1, OnceInserted
<1>7. g \in Heaps
  BY <1>4, <1>5 DEF Heaps
<1>8. Listed(g, Blocks)
  BY <1>5, <1>6 DEF Listed
<1>9. Laid(g.addr, g.size, g.top, Live(g))
  <2>1. Live(g) = Live(h) \cup {b}
    BY <1>5, <1>6 DEF Live
  <2> QED BY <1>5, <2>1
<1>10. \A j \in 1 .. Len(h.free) :
          /\ h.size[h.free[j]] > 0
          /\ \/ h.addr[h.free[j]] + h.size[h.free[j]] <= h.addr[b]
             \/ h.addr[b] + h.size[b] <= h.addr[h.free[j]]
  <2> SUFFICES ASSUME NEW x \in ToSet(h.free)
               PROVE  /\ h.size[x] > 0
                      /\ \/ h.addr[x] + h.size[x] <= h.addr[b]
                         \/ h.addr[b] + h.size[b] <= h.addr[x]
    BY <1>2, SetOfElements
  <2>1. x \in Live(h) \cup {b} /\ x # b
    BY DEF Listed, Live
  <2> QED BY <2>1 DEF Laid
<1>11. h.size[b] > 0
  BY DEF Laid
<1>12. Sorted(g)
  <2>1. \A j, k \in 1 .. Len(h.free) :
           j < k => h.addr[h.free[j]] + h.size[h.free[j]] <= h.addr[h.free[k]]
    BY DEF Sorted, End
  <2>2. p <= Len(h.free) => h.addr[b] <= h.addr[h.free[p]]
    BY <1>2, <1>3
  <2>3. \A j, k \in 1 .. Len(r) :
           j < k => h.addr[r[j]] + h.size[r[j]] <= h.addr[r[k]]
    BY <1>2, <1>3, <1>4, <1>10, <1>11, <2>1, <2>2, SortedInserted
  <2> QED BY <1>5, <2>3 DEF Sorted, End
<1>13. Same(h, g)
  BY <1>5 DEF Same
<1> QED BY <1>7, <1>8, <1>9, <1>12, <1>13 DEF Good, g
-----------------------------------------------------------------------------
(* Compacting the free list.                                               *)

(* One merge; the gaps in front of the i-th block stay.                    *)
LEMMA Merged ==
    ASSUME NEW h, Good(h), NEW i \in Nat \ {0}, Touches(h, i), Upto(h, i)
    PROVE  /\ Good(Merge(h, i)) /\ Upto(Merge(h, i), i) /\ Same(h, Merge(h, i))
           /\ Len(Merge(h, i).free) = Len(h.free) - 1
<1> DEFINE s == h.free
           n == Len(s)
           b == s[i]
           next == s[i + 1]
           A == h.addr
           Z == h.size
           r == RemoveAt(s, i + 1)
           fresh2 == <<next>> \o h.fresh
           addr2 == [A EXCEPT ![next] = 0]
           size2 == [Z EXCEPT ![b] = Z[b] + Z[next], ![next] = 0]
           g == Merge(h, i)
<1>1. h \in Heaps /\ Listed(h, Blocks) /\ Laid(A, Z, h.top, Live(h)) /\ Sorted(h)
  BY DEF Good
<1>2. /\ s \in Seq(Blocks) /\ n \in Nat /\ h.used \in Seq(Blocks) /\ h.fresh \in Seq(Blocks)
      /\ A \in Fields /\ Z \in Fields /\ h.top \in Base .. Limit
  BY <1>1, FieldsOf
<1>3. i \in 1 .. n /\ i + 1 \in 1 .. n /\ A[b] + Z[b] = A[next]
  <2>1. i < n /\ A[b] + Z[b] = A[next]
    BY DEF Touches, End
  <2> HIDE DEF n, s
  <2> QED BY <1>2, <2>1
<1>4. b \in Blocks /\ next \in Blocks /\ b \in ToSet(s) /\ next \in ToSet(s) /\ b # next
  <2>1. b \in ToSet(s) /\ next \in ToSet(s)
    BY <1>2, <1>3, SetOfElements
  <2>2. b # next
    <3>1. i # i + 1
      OBVIOUS
    <3> QED BY <1>1, <1>3, <3>1 DEF Listed, Once
  <2> QED BY <1>2, <1>3, <2>1, <2>2
<1>5. g = [h EXCEPT !.free = r, !.fresh = fresh2, !.addr[next] = 0, !.size = size2]
  BY DEF Merge
<1>6. g = [free |-> r, used |-> h.used, fresh |-> fresh2, addr |-> addr2, size |-> size2,
           top |-> h.top]
  <2> HIDE DEF r, fresh2, size2, g
  <2> QED BY <1>1, <1>5 DEF Heaps
<1> HIDE DEF g
<1>7. /\ r \in Seq(Blocks) /\ Len(r) = n - 1
      /\ \A j \in 1 .. n - 1 : r[j] = IF j < i + 1 THEN s[j] ELSE s[j + 1]
      /\ Once(r) /\ ToSet(r) = ToSet(s) \ {next}
  <2>1. Once(s)
    BY <1>1 DEF Listed
  <2> HIDE DEF s
  <2> QED BY <1>2, <1>3, <2>1, RemoveAtValue, OnceRemoveAt
<1>8. fresh2 \in Seq(Blocks) /\ Once(fresh2) /\ ToSet(fresh2) = ToSet(h.fresh) \cup {next}
  <2>1. next \notin ToSet(h.fresh) /\ Once(h.fresh)
    BY <1>1, <1>4 DEF Listed
  <2> HIDE DEF next
  <2> QED BY <1>2, <1>4, <2>1, OncePutBefore
<1> HIDE DEF r, fresh2, A, Z
<1>9. A[b] \in Nat /\ Z[b] \in Nat /\ Z[next] \in Nat /\ A[next] \in Nat
  BY <1>2, <1>4 DEF Fields
<1>10. b \in Live(h) /\ next \in Live(h) /\ Live(h) \in SUBSET Blocks
  <2>1. ToSet(h.used) \in SUBSET Blocks /\ ToSet(h.free) \in SUBSET Blocks
    BY <1>2, SetOfElements
  <2> QED BY <1>4, <2>1 DEF Live
<1>11. A[next] + Z[next] <= h.top /\ h.top \in Nat /\ h.top <= Limit
  BY <1>1, <1>2, <1>10 DEF Laid
<1> HIDE DEF b, next
<1>12. Z[b] + Z[next] \in 0 .. Limit
  <2>1. Limit \in Nat
    OBVIOUS
  <2>2. A[b] + Z[b] = A[next]
    BY <1>3
  <2>3. A[next] + Z[next] <= h.top /\ h.top \in Nat /\ h.top <= Limit
    BY <1>11
  <2>4. Z[b] + Z[next] <= Limit
    BY <1>9, <2>1, <2>2, <2>3
  <2> QED BY <1>9, <2>1, <2>4
<1>13. /\ addr2 \in Fields /\ \A x \in Blocks \ {next} : addr2[x] = A[x]
       /\ size2 \in Fields /\ \A x \in Blocks \ {b, next} : size2[x] = Z[x]
       /\ size2[b] = Z[b] + Z[next]
  <2> DEFINE sum == Z[b] + Z[next]
  <2>1. A \in Fields /\ Z \in Fields /\ b \in Blocks /\ next \in Blocks /\ b # next
    BY <1>2, <1>4
  <2>2. sum \in 0 .. Limit /\ 0 \in 0 .. Limit
    BY <1>12
  <2> HIDE DEF sum
  <2>3. addr2 \in Fields /\ \A x \in Blocks \ {next} : addr2[x] = A[x]
    BY <2>1, <2>2, Update
  <2>4. size2 = [Z EXCEPT ![b] = sum, ![next] = 0]
    BY DEF sum
  <2> HIDE DEF size2
  <2>5. /\ size2 \in Fields /\ size2[b] = sum
        /\ \A x \in Blocks \ {b, next} : size2[x] = Z[x]
    BY <2>1, <2>2, <2>4 DEF Fields
  <2> QED BY <2>3, <2>5 DEF sum
<1> HIDE DEF addr2, size2
<1>15. g \in Heaps
  BY <1>2, <1>6, <1>7, <1>8, <1>13 DEF Heaps, Fields
<1>16. Listed(g, Blocks)
  BY <1>1, <1>4, <1>6, <1>7, <1>8 DEF Listed
<1>17. Live(g) = Live(h) \ {next}
  BY <1>1, <1>4, <1>6, <1>7 DEF Live, Listed
<1>18. Laid(g.addr, g.size, g.top, Live(g))
  <2>1. Laid(addr2, size2, h.top, Live(h) \ {next})
    <3>1. Joins(A, Z, Live(h), b, next, addr2, size2)
      BY <1>3, <1>4, <1>10, <1>13 DEF Joins
    <3> QED BY <1>1, <1>2, <1>10, <3>1, LaidJoined DEF A, Z
  <2> QED BY <1>6, <1>17, <2>1
<1> DEFINE at(j) == IF j < i + 1 THEN j ELSE j + 1
<1>19. \A j \in 1 .. n - 1 : /\ at(j) \in 1 .. n /\ r[j] = s[at(j)] /\ at(j) # i + 1
                             /\ s[at(j)] \in Blocks \ {next}
                             /\ addr2[r[j]] = A[s[at(j)]]
                             /\ at(j) # i => size2[r[j]] = Z[s[at(j)]]
                             /\ at(j) = i => size2[r[j]] = Z[b] + Z[next]
  <2> SUFFICES ASSUME NEW j \in 1 .. n - 1
               PROVE  /\ at(j) \in 1 .. n /\ r[j] = s[at(j)] /\ at(j) # i + 1
                      /\ s[at(j)] \in Blocks \ {next}
                      /\ addr2[r[j]] = A[s[at(j)]]
                      /\ at(j) # i => size2[r[j]] = Z[s[at(j)]]
                      /\ at(j) = i => size2[r[j]] = Z[b] + Z[next]
    OBVIOUS
  <2>1. at(j) \in 1 .. n /\ at(j) # i + 1 /\ r[j] = s[at(j)]
    BY <1>2, <1>3, <1>7
  <2> HIDE DEF at
  <2>2. s[at(j)] \in Blocks /\ s[at(j)] # next /\ (at(j) # i => s[at(j)] # b)
    BY <1>1, <1>2, <1>3, <2>1 DEF Listed, Once, b, next
  <2>3. at(j) = i => s[at(j)] = b
    BY DEF b
  <2> HIDE DEF s
  <2> QED BY <1>4, <1>13, <2>1, <2>2, <2>3
<1>20. \A j, k \in 1 .. n - 1 : j < k => at(j) < at(k)
  BY <1>2, <1>3
<1>21. \A j \in 1 .. n - 1 : at(j) < i <=> j < i
  BY <1>2, <1>3
<1>22. \A j \in 1 .. n : A[s[j]] \in Nat /\ Z[s[j]] \in Nat
  BY <1>2 DEF Fields
<1>23. \A j, k \in 1 .. n : j < k => A[s[j]] + Z[s[j]] <= A[s[k]]
  BY <1>1 DEF Sorted, End, A, Z
<1>24. \A j, k \in 1 .. n : j < k /\ j < i => A[s[j]] + Z[s[j]] < A[s[k]]
  BY DEF Upto, End, A, Z
<1> HIDE DEF at
<1>25. ASSUME NEW j \in 1 .. n - 1, NEW k \in 1 .. n - 1, j < k
       PROVE  /\ addr2[r[j]] + size2[r[j]] <= addr2[r[k]]
              /\ j < i => addr2[r[j]] + size2[r[j]] < addr2[r[k]]
  <2>1. at(j) < at(k) /\ at(j) \in 1 .. n /\ at(k) \in 1 .. n /\ at(k) # i + 1
    BY <1>19, <1>20, <1>25
  <2>2. addr2[r[j]] = A[s[at(j)]] /\ addr2[r[k]] = A[s[at(k)]]
    BY <1>19
  <2>3. CASE at(j) # i
    <3>1. size2[r[j]] = Z[s[at(j)]]
      BY <1>19, <2>3
    <3>2. j < i => at(j) < i
      BY <1>21
    <3> QED BY <1>23, <1>24, <2>1, <2>2, <3>1, <3>2
  <2>4. CASE at(j) = i
    <3>1. size2[r[j]] = Z[b] + Z[next] /\ addr2[r[j]] = A[b]
      BY <1>19, <2>2, <2>4 DEF b
    <3>2. i + 1 < at(k) /\ ~(j < i)
      BY <1>3, <1>21, <2>1, <2>4
    <3>3. A[next] + Z[next] <= A[s[at(k)]]
      BY <1>3, <1>23, <2>1, <3>2 DEF next
    <3> HIDE DEF s
    <3> QED BY <1>3, <1>9, <2>2, <3>1, <3>2, <3>3
  <2> QED BY <2>3, <2>4
<1>26. Sorted(g) /\ Upto(g, i)
  BY <1>6, <1>7, <1>25 DEF Sorted, Upto, End
<1>27. Same(h, g)
  <2>1. ASSUME NEW x \in ToSet(h.used) PROVE addr2[x] = A[x] /\ size2[x] = Z[x]
    <3>1. x \in Blocks \ {b, next}
      BY <1>1, <1>2, <1>4, SetOfElements DEF Listed
    <3> QED BY <1>13, <3>1
  <2> QED BY <1>6, <2>1 DEF Same, A, Z
<1>28. Len(g.free) = n - 1
  BY <1>6, <1>7
<1> QED BY <1>15, <1>16, <1>18, <1>26, <1>27, <1>28 DEF Good, g

(* The states of compact's loop on h, and its turns.                       *)
Turns(h) == {t \in [heap : Heaps, i : Nat \ {0}] :
               Good(t.heap) /\ Upto(t.heap, t.i) /\ Same(h, t.heap)}

Turn(t) == IF Touches(t.heap, t.i) THEN [heap |-> Merge(t.heap, t.i), i |-> t.i]
           ELSE [heap |-> t.heap, i |-> t.i + 1]

LEMMA OneTurn ==
    ASSUME NEW h \in Heaps, NEW t \in Turns(h)
    PROVE  /\ Turn(t) \in Turns(h) /\ Len(t.heap.free) \in Nat
           /\ Turn(t).i - Len(Turn(t).heap.free) = t.i - Len(t.heap.free) + 1
<1> DEFINE g == t.heap
           i == t.i
<1>1. /\ g \in Heaps /\ i \in Nat \ {0} /\ Good(g) /\ Upto(g, i) /\ Same(h, g)
      /\ t = [heap |-> g, i |-> i]
  BY DEF Turns
<1>2. Len(g.free) \in Nat /\ g.free \in Seq(Blocks)
  BY <1>1, FieldsOf
<1> HIDE DEF g, i
<1>3. CASE Touches(g, i)
  <2> DEFINE m == Merge(g, i)
  <2>1. Good(m) /\ Upto(m, i) /\ Same(g, m) /\ Len(m.free) = Len(g.free) - 1
    BY <1>1, <1>3, Merged
  <2>2. Turn(t) = [heap |-> m, i |-> i]
    BY <1>1, <1>3 DEF Turn, g, i
  <2> HIDE DEF m
  <2>3. Same(h, m)
    BY <1>1, <2>1 DEF Same
  <2>4. m \in Heaps
    BY <2>1 DEF Good
  <2>5. Turn(t) \in Turns(h)
    BY <1>1, <2>1, <2>2, <2>3, <2>4 DEF Turns
  <2>6. Turn(t).i = i /\ Len(Turn(t).heap.free) = Len(g.free) - 1
    BY <2>1, <2>2
  <2> QED BY <1>1, <1>2, <2>5, <2>6 DEF g, i
<1>4. CASE ~Touches(g, i)
  <2>1. Turn(t) = [heap |-> g, i |-> i + 1]
    BY <1>1, <1>4 DEF Turn, g, i
  <2>2. Upto(g, i + 1)
    <3> DEFINE A == g.addr
               Z == g.size
               s == g.free
               n == Len(s)
    <3>1. \A j \in 1 .. n : A[s[j]] \in Nat /\ Z[s[j]] \in Nat /\ Z[s[j]] > 0
      <4>1. \A j \in 1 .. n : s[j] \in Blocks /\ s[j] \in Live(g)
        BY <1>2, SetOfElements DEF Live
      <4>2. \A b \in Blocks : A[b] \in Nat /\ Z[b] \in Nat
        BY <1>1, FieldsOf
      <4>3. \A b \in Live(g) : Z[b] > 0
        BY <1>1 DEF Good, Laid
      <4> QED BY <4>1, <4>2, <4>3
    <3>2. \A j, k \in 1 .. n : j < k => A[s[j]] + Z[s[j]] <= A[s[k]]
      BY <1>1 DEF Good, Sorted, End
    <3>3. \A j, k \in 1 .. n : j < k /\ j < i => A[s[j]] + Z[s[j]] < A[s[k]]
      BY <1>1 DEF Upto, End
    <3>4. i < n => A[s[i]] + Z[s[i]] # A[s[i + 1]]
      BY <1>4 DEF Touches, End
    <3>5. n \in Nat
      BY <1>2
    <3> HIDE DEF A, Z, s, n
    <3>6. ASSUME NEW j \in 1 .. n, NEW k \in 1 .. n, j < k, j < i + 1
          PROVE  A[s[j]] + Z[s[j]] < A[s[k]]
      <4>1. CASE j < i
        BY <3>3, <3>6, <4>1
      <4>2. CASE j = i
        <5>1. i \in 1 .. n /\ i + 1 \in 1 .. n /\ i < i + 1
          BY <1>1, <3>5, <3>6, <4>2
        <5>2. A[s[i]] + Z[s[i]] < A[s[i + 1]]
          <6>1. A[s[i]] + Z[s[i]] <= A[s[i + 1]] /\ A[s[i]] + Z[s[i]] # A[s[i + 1]]
            BY <3>2, <3>4, <3>5, <5>1
          <6> QED BY <3>1, <5>1, <6>1
        <5>3. CASE k = i + 1
          BY <4>2, <5>2, <5>3
        <5>4. CASE k # i + 1
          <6>1. A[s[i + 1]] + Z[s[i + 1]] <= A[s[k]]
            BY <1>1, <3>2, <3>5, <3>6, <4>2, <5>1, <5>4
          <6> QED BY <3>1, <4>2, <5>1, <5>2, <6>1
        <5> QED BY <5>3, <5>4
      <4> QED BY <1>1, <3>6, <4>1, <4>2
    <3> QED BY <3>6 DEF Upto, End, A, Z, s, n
  <2>3. Turn(t) \in Turns(h)
    BY <1>1, <2>1, <2>2 DEF Turns
  <2>4. Turn(t).i = i + 1 /\ Turn(t).heap = g
    BY <2>1
  <2> QED BY <1>1, <1>2, <2>3, <2>4 DEF g, i
<1> QED BY <1>3, <1>4

(* All states of the loop, from the first on.                              *)
Trace(h) ==
    LET turn[n \in 0 .. Len(h.free)] ==
            IF n = 0 THEN [heap |-> h, i |-> 1]
            ELSE IF Touches(turn[n - 1].heap, turn[n - 1].i)
            THEN [heap |-> Merge(turn[n - 1].heap, turn[n - 1].i), i |-> turn[n - 1].i]
            ELSE [heap |-> turn[n - 1].heap, i |-> turn[n - 1].i + 1]
    IN  turn

LEMMA Traced ==
    ASSUME NEW h, Good(h)
    PROVE  LET n == Len(h.free)
           IN  /\ n \in Nat /\ Compact(h) = Trace(h)[n].heap
               /\ Trace(h)[0] = [heap |-> h, i |-> 1]
               /\ \A k \in 1 .. n : Trace(h)[k] = Turn(Trace(h)[k - 1])
               /\ \A k \in 0 .. n : /\ Trace(h)[k] \in Turns(h)
                                    /\ Trace(h)[k].i - Len(Trace(h)[k].heap.free) = 1 - n + k
<1> DEFINE n == Len(h.free)
           first == [heap |-> h, i |-> 1]
           turn[k \in 0 .. n] ==
               IF k = 0 THEN [heap |-> h, i |-> 1]
               ELSE IF Touches(turn[k - 1].heap, turn[k - 1].i)
               THEN [heap |-> Merge(turn[k - 1].heap, turn[k - 1].i), i |-> turn[k - 1].i]
               ELSE [heap |-> turn[k - 1].heap, i |-> turn[k - 1].i + 1]
           Def(f) == f = [k \in 0 .. n |->
               IF k = 0 THEN [heap |-> h, i |-> 1]
               ELSE IF Touches(f[k - 1].heap, f[k - 1].i)
               THEN [heap |-> Merge(f[k - 1].heap, f[k - 1].i), i |-> f[k - 1].i]
               ELSE [heap |-> f[k - 1].heap, i |-> f[k - 1].i + 1]]
           step == [x \in Turns(h) \X (1 .. n) |-> Turn(x[1])]
<1>1. h \in Heaps /\ n \in Nat
  BY FieldsOf DEF Good
<1>2. first \in Turns(h)
  <2>1. Upto(h, 1) /\ Same(h, h)
    BY <1>1 DEF Upto, Same
  <2> QED BY <1>1, <2>1 DEF Turns
<1>3. step \in [Turns(h) \X (1 .. n) -> Turns(h)]
  <2>1. \A x \in Turns(h) \X (1 .. n) : Turn(x[1]) \in Turns(h)
    BY <1>1, OneTurn
  <2> QED BY <2>1
<1>4. PICK g \in [0 .. n -> Turns(h)] :
         g[0] = first /\ \A k \in 1 .. n : g[k] = step[<<g[k - 1], k>>]
  <2> DEFINE V == Turns(h)
  <2>1. Defines(V, first, n, step)
    BY <1>1, <1>2, <1>3 DEF Defines
  <2> HIDE DEF step, first, n, V
  <2>2. Defined(V, first, n, step)
    BY <2>1, Recursion
  <2> QED BY <2>2 DEF V, Defined
<1>5. ASSUME NEW k \in 1 .. n PROVE g[k] = Turn(g[k - 1])
  <2>1. g[k - 1] \in Turns(h)
    BY <1>1, <1>4
  <2>2. step[<<g[k - 1], k>>] = Turn(g[k - 1])
    BY <2>1
  <2> HIDE DEF step
  <2> QED BY <1>4, <2>2
<1>6. Def(g)
  <2>1. ASSUME NEW k \in 0 .. n
        PROVE  g[k] = IF k = 0 THEN first ELSE Turn(g[k - 1])
    <3> HIDE DEF first, step
    <3> QED BY <1>1, <1>4, <1>5
  <2>2. g = [k \in 0 .. n |-> IF k = 0 THEN first ELSE Turn(g[k - 1])]
    <3> HIDE DEF first, step
    <3> QED BY <1>4, <2>1
  <2> QED BY <2>2 DEF Turn
<1>7. turn = CHOOSE f : Def(f)
  OBVIOUS
<1>8. Def(turn)
  <2> HIDE DEF turn, Def
  <2> QED BY <1>6, <1>7
<1> HIDE DEF turn
<1>9. turn[0] = first /\ \A k \in 1 .. n : turn[k] = Turn(turn[k - 1])
  <2>1. turn = [k \in 0 .. n |-> IF k = 0 THEN first ELSE Turn(turn[k - 1])]
    BY <1>8 DEF Turn
  <2> HIDE DEF first
  <2> QED BY <1>1, <2>1
<1> HIDE DEF Def
<1> DEFINE S == {k \in Nat : k <= n => /\ turn[k] \in Turns(h)
                                      /\ turn[k].i - Len(turn[k].heap.free) = 1 - n + k}
<1>10. 0 \in S
  BY <1>1, <1>2, <1>9
<1>11. ASSUME NEW k \in Nat, k \in S PROVE k + 1 \in S
  <2>1. ASSUME k + 1 <= n
        PROVE  /\ turn[k + 1] \in Turns(h)
               /\ turn[k + 1].i - Len(turn[k + 1].heap.free) = 1 - n + (k + 1)
    <3>1. turn[k + 1] = Turn(turn[k])
      <4>1. k + 1 \in 1 .. n /\ k + 1 - 1 = k
        BY <1>1, <2>1
      <4> QED BY <1>9, <4>1
    <3>2. turn[k] \in Turns(h) /\ turn[k].i - Len(turn[k].heap.free) = 1 - n + k
      BY <1>1, <1>11, <2>1
    <3>3. /\ Turn(turn[k]) \in Turns(h)
          /\ Turn(turn[k]).i - Len(Turn(turn[k]).heap.free) = turn[k].i - Len(turn[k].heap.free) + 1
      BY <1>1, <3>2, OneTurn
    <3>4. 1 - n + k + 1 = 1 - n + (k + 1)
      BY <1>1
    <3> QED BY <3>1, <3>2, <3>3, <3>4
  <2> HIDE DEF n
  <2>2. k + 1 \in Nat
    OBVIOUS
  <2> QED BY <2>1, <2>2, Zenon
<1>12. \A k \in Nat : k \in S
  <2> HIDE DEF S
  <2> QED BY <1>10, <1>11, Induction
<1>13. \A k \in 0 .. n : turn[k] \in Turns(h) /\ turn[k].i - Len(turn[k].heap.free) = 1 - n + k
  BY <1>1, <1>12
<1>14. Compact(h) = turn[n].heap
  BY DEF Compact, turn
<1>15. Trace(h) = turn
  BY DEF Trace, turn
<1> QED BY <1>1, <1>9, <1>13, <1>14, <1>15

LEMMA Compacted ==
    ASSUME NEW h, Good(h)
    PROVE  Good(Compact(h)) /\ Strict(Compact(h)) /\ Same(h, Compact(h))
<1> DEFINE n == Len(h.free)
           t == Trace(h)[n]
           g == Compact(h)
<1>1. n \in Nat /\ g = t.heap /\ t \in Turns(h) /\ t.i - Len(t.heap.free) = 1 - n + n
  <2>1. /\ n \in Nat /\ g = t.heap
        /\ \A k \in 0 .. n : /\ Trace(h)[k] \in Turns(h)
                             /\ Trace(h)[k].i - Len(Trace(h)[k].heap.free) = 1 - n + k
    BY Traced
  <2> HIDE DEF n
  <2>2. n \in 0 .. n
    BY <2>1
  <2> QED BY <2>1, <2>2
<1> HIDE DEF n, t, g
<1>2. Good(g) /\ Same(h, g) /\ Upto(g, t.i) /\ t.i \in Nat
  BY <1>1 DEF Turns
<1>3. Len(g.free) \in Nat
  BY <1>2, FieldsOf DEF Good
<1>4. t.i = Len(g.free) + 1
  BY <1>1, <1>2, <1>3
<1> QED BY <1>2, <1>4 DEF Strict, g
-----------------------------------------------------------------------------
(* Allocation.                                                             *)

(* A request is rounded up, never wraps, and never makes an address wrap.  *)
LEMMA RoundedUp ==
    ASSUME NEW request \in Requests
    PROVE  /\ request \in Nat \ {0} /\ RoundUp(request) \in Nat
           /\ request <= RoundUp(request) /\ Limit + RoundUp(request) < W
<1>1. request \in Nat \ {0} /\ Limit + request + Alignment <= W
  <2>1. Limit + request + Alignment <= W
    BY RequestsAssumption
  <2>2. CASE request \in Sizes
    BY <2>1, <2>2, RequestsAssumption
  <2>3. CASE request \in {n[1] * n[2] : n \in CallocSizes}
    <3>1. PICK n \in CallocSizes : request = n[1] * n[2]
      BY <2>3
    <3>2. n[1] \in Nat \ {0} /\ n[2] \in Nat \ {0}
      BY RequestsAssumption
    <3>3. \A x, y \in Nat \ {0} : x * y \in Nat \ {0}
      OBVIOUS
    <3> QED BY <2>1, <3>1, <3>2, <3>3
  <2>4. CASE request \in {a[1] + a[2] : a \in AlignedSizes}
    <3>1. PICK a \in AlignedSizes : request = a[1] + a[2]
      BY <2>4
    <3>2. a[1] \in Nat \ {0} /\ a[2] \in Nat \ {0}
      BY RequestsAssumption
    <3> QED BY <2>1, <3>1, <3>2
  <2> QED BY <2>2, <2>3, <2>4 DEF Requests
<1>2. /\ Limit \in Nat \ {0} /\ W \in Nat /\ Alignment \in Nat \ {0}
  OBVIOUS
<1> DEFINE x == request + Alignment - 1
           q == x \div Alignment
<1>3. x \in Nat /\ x < W
  BY <1>1, <1>2
<1>4. Wrap(x) = x
  BY <1>2, <1>3 DEF Wrap
<1>5. RoundUp(request) = q * Alignment
  BY <1>4 DEF RoundUp
<1> HIDE DEF x
<1>6. q \in Nat /\ q * Alignment <= x /\ x < q * Alignment + Alignment
  BY <1>2, <1>3
<1> HIDE DEF q
<1> DEFINE r == q * Alignment
<1>7. r \in Nat
  BY <1>2, <1>6
<1>8. r <= x /\ x < r + Alignment
  BY <1>6
<1> HIDE DEF r
<1>9. request <= r /\ Limit + r < W
  BY <1>1, <1>2, <1>7, <1>8 DEF x
<1> QED BY <1>1, <1>5, <1>7, <1>9 DEF r

(* Fields of the free blocks are all that the order of the list depends on.*)
LEMMA FreeKept ==
    ASSUME NEW h, NEW g, h.free \in Seq(Blocks), g.free = h.free,
           \A x \in ToSet(h.free) : g.addr[x] = h.addr[x] /\ g.size[x] = h.size[x]
    PROVE  (Sorted(h) => Sorted(g)) /\ (Strict(h) => Strict(g))
<1>1. \A j \in 1 .. Len(h.free) : /\ g.addr[h.free[j]] = h.addr[h.free[j]]
                                  /\ g.size[h.free[j]] = h.size[h.free[j]]
  BY SetOfElements
<1> QED BY <1>1 DEF Sorted, Strict, Upto, End

(* The i-th free block is unlinked and put on the used list.               *)
Moved(h, i) == [h EXCEPT !.free = RemoveAt(@, i), !.used = <<h.free[i]>> \o @]

LEMMA MovedGood ==
    ASSUME NEW h, Good(h), Strict(h), NEW i \in 1 .. Len(h.free)
    PROVE  LET g == Moved(h, i)
               b == h.free[i]
           IN  /\ Good(g) /\ Strict(g) /\ b \in Blocks /\ b \in ToSet(h.free)
               /\ g.fresh = h.fresh /\ g.addr = h.addr /\ g.size = h.size /\ g.top = h.top
               /\ ToSet(g.free) = ToSet(h.free) \ {b} /\ ToSet(g.used) = ToSet(h.used) \cup {b}
<1> DEFINE s == h.free
           n == Len(s)
           b == s[i]
           r == RemoveAt(s, i)
           used2 == <<b>> \o h.used
           g == Moved(h, i)
<1>1. h \in Heaps /\ Listed(h, Blocks) /\ Laid(h.addr, h.size, h.top, Live(h)) /\ Sorted(h)
  BY DEF Good
<1>2. /\ s \in Seq(Blocks) /\ n \in Nat /\ h.used \in Seq(Blocks)
      /\ b \in Blocks /\ b \in ToSet(s)
  <2>1. s \in Seq(Blocks) /\ n \in Nat /\ h.used \in Seq(Blocks) /\ b \in Blocks
    BY <1>1, FieldsOf
  <2> QED BY <2>1, SetOfElements
<1>3. g = [free |-> r, used |-> used2, fresh |-> h.fresh, addr |-> h.addr,
           size |-> h.size, top |-> h.top]
  <2>1. g = [h EXCEPT !.free = r, !.used = used2]
    BY DEF Moved
  <2> HIDE DEF r, used2, g
  <2> QED BY <1>1, <2>1 DEF Heaps
<1>4. /\ r \in Seq(Blocks) /\ Len(r) = n - 1
      /\ \A j \in 1 .. n - 1 : r[j] = IF j < i THEN s[j] ELSE s[j + 1]
      /\ Once(r) /\ ToSet(r) = ToSet(s) \ {b}
  <2>1. Once(s) /\ i \in 1 .. Len(s)
    BY <1>1 DEF Listed
  <2> HIDE DEF s
  <2> QED BY <1>2, <2>1, RemoveAtValue, OnceRemoveAt
<1>5. used2 \in Seq(Blocks) /\ Once(used2) /\ ToSet(used2) = ToSet(h.used) \cup {b}
  <2>1. Once(h.used) /\ b \notin ToSet(h.used)
    BY <1>1, <1>2 DEF Listed
  <2> HIDE DEF b
  <2> QED BY <1>2, <2>1, OncePutBefore
<1> HIDE DEF g, r, used2
<1>6. g \in Heaps
  BY <1>1, <1>3, <1>4, <1>5 DEF Heaps
<1>7. Listed(g, Blocks)
  BY <1>1, <1>2, <1>3, <1>4, <1>5 DEF Listed
<1>8. Live(g) = Live(h)
  BY <1>2, <1>3, <1>4, <1>5 DEF Live
<1>9. Laid(g.addr, g.size, g.top, Live(g))
  BY <1>1, <1>3, <1>8
<1> DEFINE at(j) == IF j < i THEN j ELSE j + 1
<1>10. \A j \in 1 .. n - 1 : at(j) \in 1 .. n /\ r[j] = s[at(j)]
  BY <1>2, <1>4
<1>11. \A j, k \in 1 .. n - 1 : j < k => at(j) < at(k)
  BY <1>2
<1> HIDE DEF at
<1>12. \A j, k \in 1 .. n : j < k => /\ End(h, s[j]) <= h.addr[s[k]]
                                     /\ End(h, s[j]) < h.addr[s[k]]
  <2>1. \A j \in 1 .. n : j < n + 1
    BY <1>2
  <2> QED BY <1>1, <2>1 DEF Sorted, Strict, Upto
<1>13. Sorted(g) /\ Strict(g)
  <2>1. \A x \in Blocks : End(g, x) = End(h, x) /\ g.addr[x] = h.addr[x]
    BY <1>3 DEF End
  <2>2. \A j, k \in 1 .. n - 1 : j < k => /\ End(h, r[j]) <= h.addr[r[k]]
                                          /\ End(h, r[j]) < h.addr[r[k]]
    BY <1>10, <1>11, <1>12
  <2>3. g.free = r /\ Len(g.free) = n - 1 /\ \A j \in 1 .. n - 1 : r[j] \in Blocks
    BY <1>3, <1>4
  <2> QED BY <2>1, <2>2, <2>3 DEF Sorted, Strict, Upto
<1> QED BY <1>2, <1>3, <1>4, <1>5, <1>6, <1>7, <1>9, <1>13 DEF Good, g

(* A used block gives up what it has beyond num...                         *)
SplitOff(h, b, num) ==
    Arena(h.free, h.used, Tail(h.fresh), [h.addr EXCEPT ![Head(h.fresh)] = h.addr[b] + num],
          [[h.size EXCEPT ![b] = num] EXCEPT ![Head(h.fresh)] = h.size[b] - num], h.top)

(* Of the used blocks, only the size of b changes.                         *)
OnlyShrinks(h, g, b, num) ==
    /\ g.used = h.used /\ g.size[b] = num
    /\ \A x \in ToSet(h.used) : g.addr[x] = h.addr[x] /\ (x # b => g.size[x] = h.size[x])

LEMMA SplitReady ==
    ASSUME NEW h, Good(h), NEW b \in ToSet(h.used), NEW num \in Nat \ {0},
           num < h.size[b], h.fresh # <<>>
    PROVE  /\ Insertable(SplitOff(h, b, num), Head(h.fresh))
           /\ Split(h, b, num) = Compact(InsertBlock(SplitOff(h, b, num), Head(h.fresh)))
           /\ OnlyShrinks(h, SplitOff(h, b, num), b, num)
<1> DEFINE A == h.addr
           Z == h.size
           rest == Head(h.fresh)
           addr2 == [A EXCEPT ![rest] = A[b] + num]
           size2 == [[Z EXCEPT ![b] = num] EXCEPT ![rest] = Z[b] - num]
           fresh2 == Tail(h.fresh)
           h2 == SplitOff(h, b, num)
<1>1. h \in Heaps /\ Listed(h, Blocks) /\ Laid(A, Z, h.top, Live(h)) /\ Sorted(h)
  BY DEF Good
<1>2. /\ h.free \in Seq(Blocks) /\ h.used \in Seq(Blocks) /\ h.fresh \in Seq(Blocks)
      /\ A \in Fields /\ Z \in Fields /\ h.top \in Base .. Limit
  BY <1>1, FieldsOf
<1>3. /\ rest \in Blocks /\ rest \in ToSet(h.fresh) /\ fresh2 \in Seq(Blocks) /\ Once(fresh2)
      /\ ToSet(fresh2) = ToSet(h.fresh) \ {rest}
  <2>1. Once(h.fresh)
    BY <1>1 DEF Listed
  <2> QED BY <1>2, <2>1, OnceTail
<1>4. /\ b \in Blocks /\ b \in Live(h) /\ rest \notin Live(h) /\ b # rest
      /\ Live(h) \in SUBSET Blocks
  <2>1. ToSet(h.used) \in SUBSET Blocks /\ ToSet(h.free) \in SUBSET Blocks
    BY <1>2, SetOfElements
  <2> QED BY <1>1, <1>3, <2>1 DEF Live, Listed
<1>5. Split(h, b, num) = Compact(InsertBlock(h2, rest))
  <2> DEFINE x == [h EXCEPT !.fresh = Tail(@), !.addr[rest] = h.addr[b] + num,
                            !.size[b] = num, !.size[rest] = h.size[b] - num]
  <2>1. Split(h, b, num) = Compact(InsertBlock(x, rest))
    BY DEF Split
  <2>2. x = [h EXCEPT !.fresh = fresh2, !.addr = addr2, !.size = size2]
    OBVIOUS
  <2>3. h2 = Arena(h.free, h.used, fresh2, addr2, size2, h.top)
    BY DEF SplitOff
  <2> HIDE DEF fresh2, addr2, size2, h2, x
  <2>4. x = [free |-> h.free, used |-> h.used, fresh |-> fresh2, addr |-> addr2,
             size |-> size2, top |-> h.top]
    BY <1>1, <2>2 DEF Heaps
  <2>5. x = h2
    BY <2>3, <2>4 DEF Arena
  <2> QED BY <2>1, <2>5
<1>6. h2 = [free |-> h.free, used |-> h.used, fresh |-> fresh2, addr |-> addr2,
            size |-> size2, top |-> h.top]
  BY DEF SplitOff, Arena
<1> HIDE DEF rest, fresh2, h2, A, Z
<1>7. A[b] + num \in 0 .. Limit /\ Z[b] - num \in 0 .. Limit /\ num \in 0 .. Limit
  <2>1. A[b] \in Nat /\ Z[b] \in Nat /\ num < Z[b]
    BY <1>2, <1>4 DEF Fields, Z
  <2>2. A[b] + Z[b] <= h.top
    BY <1>1, <1>4 DEF Laid
  <2>3. h.top \in Nat /\ h.top <= Limit /\ Limit \in Nat
    BY <1>2
  <2> DEFINE a == A[b]
             z == Z[b]
  <2>4. a \in Nat /\ z \in Nat /\ num < z /\ a + z <= Limit
    BY <2>1, <2>2, <2>3
  <2> HIDE DEF a, z
  <2>5. a + num \in 0 .. Limit /\ z - num \in 0 .. Limit /\ num \in 0 .. Limit
    BY <2>3, <2>4
  <2> QED BY <2>5 DEF a, z
<1>8. /\ addr2 \in Fields /\ addr2[rest] = A[b] + num
      /\ \A x \in Blocks \ {rest} : addr2[x] = A[x]
      /\ size2 \in Fields /\ size2[b] = num /\ size2[rest] = Z[b] - num
      /\ \A x \in Blocks \ {b, rest} : size2[x] = Z[x]
  <2> DEFINE a == A[b] + num
             z == Z[b] - num
  <2>1. a \in 0 .. Limit /\ z \in 0 .. Limit /\ num \in 0 .. Limit
    BY <1>7
  <2>2. addr2 = [A EXCEPT ![rest] = a] /\ size2 = [[Z EXCEPT ![b] = num] EXCEPT ![rest] = z]
    OBVIOUS
  <2> HIDE DEF a, z, addr2, size2
  <2>3. addr2 \in Fields /\ addr2[rest] = a /\ \A x \in Blocks \ {rest} : addr2[x] = A[x]
    BY <1>2, <1>3, <2>1, <2>2 DEF Fields
  <2>4. /\ size2 \in Fields /\ size2[b] = num /\ size2[rest] = z
        /\ \A x \in Blocks \ {b, rest} : size2[x] = Z[x]
    BY <1>2, <1>3, <1>4, <2>1, <2>2 DEF Fields
  <2> QED BY <2>3, <2>4 DEF a, z
<1> HIDE DEF addr2, size2
<1>9. h2 \in Heaps
  BY <1>2, <1>3, <1>6, <1>8 DEF Heaps, Fields
<1>10. Listed(h2, Blocks \ {rest})
  BY <1>1, <1>3, <1>6 DEF Listed
<1>11. Laid(h2.addr, h2.size, h2.top, Live(h2) \cup {rest})
  <2>1. Splits(A, Z, Live(h), b, num, rest, addr2, size2)
    <3>1. num < Z[b]
      BY DEF Z
    <3> QED BY <1>3, <1>4, <1>8, <3>1 DEF Splits
  <2>2. Laid(addr2, size2, h.top, Live(h) \cup {rest})
    BY <1>1, <1>2, <1>4, <2>1, LaidSplit
  <2>3. Live(h2) = Live(h)
    BY <1>6 DEF Live
  <2> QED BY <1>6, <2>2, <2>3
<1>12. \A x \in ToSet(h.free) : addr2[x] = h.addr[x] /\ size2[x] = h.size[x]
  <2>1. \A x \in ToSet(h.free) : x \in Blocks /\ x # b /\ x # rest
    BY <1>1, <1>4 DEF Listed, Live
  <2> QED BY <1>8, <2>1 DEF A, Z
<1>13. Sorted(h2)
  <2>1. h2.free = h.free /\ h2.addr = addr2 /\ h2.size = size2
    BY <1>6
  <2> QED BY <1>1, <1>2, <1>12, <2>1, FreeKept
<1>14. OnlyShrinks(h, h2, b, num)
  <2>1. \A x \in ToSet(h.used) : x \in Blocks /\ x # rest
    BY <1>4 DEF Live
  <2>2. \A x \in ToSet(h.used) : addr2[x] = h.addr[x] /\ (x # b => size2[x] = h.size[x])
    BY <1>8, <2>1 DEF A, Z
  <2> QED BY <1>6, <1>8, <2>2 DEF OnlyShrinks
<1>15. Insertable(h2, rest)
  BY <1>3, <1>9, <1>10, <1>11, <1>13 DEF Insertable
<1> QED BY <1>5, <1>14, <1>15 DEF rest, h2

(* ... to the free list.                                                   *)
LEMMA SplitGood ==
    ASSUME NEW h, Good(h), NEW b \in ToSet(h.used), NEW num \in Nat \ {0},
           num < h.size[b], h.fresh # <<>>
    PROVE  Good(Split(h, b, num)) /\ Strict(Split(h, b, num)) /\ OnlyShrinks(h, Split(h, b, num), b, num)
<1> DEFINE rest == Head(h.fresh)
           h2 == SplitOff(h, b, num)
           h3 == InsertBlock(h2, rest)
           g == Split(h, b, num)
<1>1. Insertable(h2, rest) /\ g = Compact(h3) /\ OnlyShrinks(h, h2, b, num)
  BY SplitReady
<1> HIDE DEF rest, h2, g
<1>2. Good(h3) /\ Same(h2, h3)
  BY <1>1, Inserted DEF Insertable
<1> HIDE DEF h3
<1>3. Good(g) /\ Strict(g) /\ Same(h3, g)
  BY <1>1, <1>2, Compacted
<1>4. OnlyShrinks(h, g, b, num)
  <2>1. /\ g.used = h.used
        /\ \A x \in ToSet(h.used) : g.addr[x] = h2.addr[x] /\ g.size[x] = h2.size[x]
    BY <1>1, <1>2, <1>3 DEF Same, OnlyShrinks
  <2> QED BY <1>1, <2>1 DEF OnlyShrinks
<1> QED BY <1>3, <1>4 DEF g

(* g is h with block b, of at least num bytes, put into use.               *)
Gives(h, g, b, num) ==
    /\ b \in Blocks \ ToSet(h.used) /\ ToSet(g.used) = ToSet(h.used) \cup {b}
    /\ \A x \in ToSet(h.used) : g.addr[x] = h.addr[x] /\ g.size[x] = h.size[x]
    /\ g.size[b] >= num

LEMMA TakeFreeGood ==
    ASSUME NEW h, Good(h), Strict(h), NEW i \in 1 .. Len(h.free), NEW num \in Nat \ {0},
           Limit + num < W, IsTop(h, h.free[i], num) \/ h.size[h.free[i]] >= num
    PROVE  LET g == TakeFree(h, i, num)
           IN  Good(g) /\ Strict(g) /\ Gives(h, g, h.free[i], num)
<1> DEFINE b == h.free[i]
           t == Moved(h, i)
           g == TakeFree(h, i, num)
<1>1. h \in Heaps /\ Listed(h, Blocks) /\ Laid(h.addr, h.size, h.top, Live(h))
  BY DEF Good
<1>2. /\ Good(t) /\ Strict(t) /\ b \in Blocks /\ b \in ToSet(h.free)
      /\ t.fresh = h.fresh /\ t.addr = h.addr /\ t.size = h.size /\ t.top = h.top
      /\ ToSet(t.free) = ToSet(h.free) \ {b} /\ ToSet(t.used) = ToSet(h.used) \cup {b}
  BY MovedGood
<1>3. b \notin ToSet(h.used) /\ ToSet(h.used) \in SUBSET Blocks
  BY <1>1, <1>2 DEF Listed
<1>4. g = IF IsTop(h, b, num) THEN [t EXCEPT !.size[b] = num, !.top = Wrap(h.addr[b] + num)]
          ELSE IF h.fresh # <<>> /\ h.size[b] - num >= SplitThresh THEN Split(t, b, num)
          ELSE t
  BY DEF TakeFree, Moved
<1> HIDE DEF b, t, g
<1>5. CASE IsTop(h, b, num)
  <2> DEFINE A == t.addr
             Z == t.size
             size2 == [Z EXCEPT ![b] = num]
             top2 == A[b] + num
  <2>1. /\ t \in Heaps /\ Listed(t, Blocks) /\ Laid(A, Z, t.top, Live(t)) /\ Sorted(t)
        /\ A \in Fields /\ Z \in Fields /\ t.top \in Base .. Limit
        /\ t.free \in Seq(Blocks) /\ t.used \in Seq(Blocks) /\ t.fresh \in Seq(Blocks)
    BY <1>2, FieldsOf DEF Good
  <2>2. A[b] + Z[b] >= t.top /\ Wrap(A[b] + num) <= Limit
    BY <1>2, <1>5 DEF IsTop, End
  <2>3. b \in Live(t) /\ b \notin ToSet(t.free) /\ b \in ToSet(t.used) /\ Live(t) \in SUBSET Blocks
    <3>1. ToSet(t.free) \in SUBSET Blocks /\ ToSet(t.used) \in SUBSET Blocks
      BY <2>1, SetOfElements
    <3> QED BY <1>2, <3>1 DEF Live
  <2>4. g = [t EXCEPT !.size = size2, !.top = Wrap(A[b] + num)]
    BY <1>2, <1>4, <1>5
  <2> HIDE DEF A, Z
  <2>5. A[b] \in 0 .. Limit /\ Base <= A[b]
    BY <1>2, <2>1, <2>3 DEF Fields, Laid
  <2>6. top2 \in Nat /\ Base <= top2 /\ top2 < W
    BY <2>5
  <2>7. Wrap(A[b] + num) = top2
    <3>1. Wrap(A[b] + num) = Wrap(top2)
      OBVIOUS
    <3> HIDE DEF top2
    <3>2. Wrap(top2) = top2
      BY <2>6 DEF Wrap
    <3> QED BY <3>1, <3>2
  <2>8. top2 \in Base .. Limit /\ num \in 0 .. Limit
    BY <2>2, <2>5, <2>6, <2>7
  <2>9. size2 \in Fields /\ size2[b] = num /\ \A x \in Blocks \ {b} : size2[x] = Z[x]
    BY <1>2, <2>1, <2>8, Update
  <2>10. g = [free |-> t.free, used |-> t.used, fresh |-> t.fresh, addr |-> A,
              size |-> size2, top |-> top2]
    <3> HIDE DEF size2, top2
    <3> QED BY <2>1, <2>4, <2>7 DEF Heaps, A
  <2>11. Laid(A, size2, top2, Live(t))
    <3>1. Resizes(A, Z, Live(t), b, num, size2)
      BY <2>3, <2>9 DEF Resizes
    <3> HIDE DEF size2
    <3> QED BY <2>1, <2>2, <2>3, <3>1, LaidResized
  <2> HIDE DEF size2, top2
  <2>12. g \in Heaps
    BY <2>1, <2>8, <2>9, <2>10 DEF Heaps, Fields
  <2>13. Listed(g, Blocks) /\ Live(g) = Live(t)
    BY <2>1, <2>10 DEF Listed, Live
  <2>14. \A x \in ToSet(t.free) : g.addr[x] = t.addr[x] /\ g.size[x] = t.size[x]
    <3>1. \A x \in ToSet(t.free) : x \in Blocks /\ x # b
      BY <2>3 DEF Live
    <3> QED BY <2>9, <2>10, <3>1 DEF A, Z
  <2>15. Sorted(g) /\ Strict(g)
    <3>1. g.free = t.free
      BY <2>10
    <3> QED BY <1>2, <2>1, <2>14, <3>1, FreeKept
  <2>16. Gives(h, g, b, num)
    <3>1. \A x \in ToSet(h.used) : g.addr[x] = h.addr[x] /\ g.size[x] = h.size[x]
      <4>1. \A x \in ToSet(h.used) : x \in Blocks /\ x # b
        BY <1>3
      <4> QED BY <1>2, <2>9, <2>10, <4>1 DEF A, Z
    <3>2. g.used = t.used /\ g.size[b] = num
      BY <2>9, <2>10
    <3> QED BY <1>2, <1>3, <3>1, <3>2 DEF Gives
  <2>17. Good(g)
    BY <2>10, <2>11, <2>12, <2>13, <2>15 DEF Good
  <2> QED BY <2>15, <2>16, <2>17 DEF g, b
<1>6. CASE ~IsTop(h, b, num) /\ h.fresh # <<>> /\ h.size[b] - num >= SplitThresh
  <2>1. g = Split(t, b, num)
    BY <1>4, <1>6
  <2>2. num < t.size[b]
    <3>1. h.size[b] \in Nat
      BY <1>1, <1>2, FieldsOf
    <3> QED BY <1>2, <1>6, <3>1
  <2>3. Good(g) /\ Strict(g) /\ OnlyShrinks(t, g, b, num)
    <3>1. b \in ToSet(t.used) /\ t.fresh # <<>>
      BY <1>2, <1>6
    <3> QED BY <1>2, <2>1, <2>2, <3>1, SplitGood
  <2>4. \A x \in ToSet(h.used) : x \in ToSet(t.used) /\ x # b
    BY <1>2, <1>3
  <2>5. Gives(h, g, b, num)
    BY <1>2, <1>3, <2>3, <2>4 DEF Gives, OnlyShrinks
  <2> QED BY <2>3, <2>5 DEF g, b
<1>7. CASE ~IsTop(h, b, num) /\ ~(h.fresh # <<>> /\ h.size[b] - num >= SplitThresh)
  <2>1. g = t
    BY <1>4, <1>7
  <2>2. h.size[b] >= num
    BY <1>7 DEF b
  <2>3. Gives(h, g, b, num)
    BY <1>2, <1>3, <2>1, <2>2 DEF Gives
  <2> QED BY <1>2, <2>1, <2>3 DEF g, b
<1> QED BY <1>5, <1>6, <1>7

LEMMA AppendGood ==
    ASSUME NEW h, Good(h), Strict(h), NEW num \in Nat \ {0}, Limit + num < W,
           h.fresh # <<>>, Wrap(h.top + num) <= Limit
    PROVE  LET g == AppendBlock(h, num)
           IN  Good(g) /\ Strict(g) /\ Gives(h, g, Head(h.fresh), num)
<1> DEFINE A == h.addr
           Z == h.size
           b == Head(h.fresh)
           addr2 == [A EXCEPT ![b] = h.top]
           size2 == [Z EXCEPT ![b] = num]
           fresh2 == Tail(h.fresh)
           used2 == <<b>> \o h.used
           top2 == h.top + num
           g == AppendBlock(h, num)
<1>1. h \in Heaps /\ Listed(h, Blocks) /\ Laid(A, Z, h.top, Live(h)) /\ Sorted(h)
  BY DEF Good
<1>2. /\ h.free \in Seq(Blocks) /\ h.used \in Seq(Blocks) /\ h.fresh \in Seq(Blocks)
      /\ A \in Fields /\ Z \in Fields /\ h.top \in Base .. Limit
  BY <1>1, FieldsOf
<1>3. /\ b \in Blocks /\ b \in ToSet(h.fresh) /\ fresh2 \in Seq(Blocks) /\ Once(fresh2)
      /\ ToSet(fresh2) = ToSet(h.fresh) \ {b}
  <2>1. Once(h.fresh)
    BY <1>1 DEF Listed
  <2> QED BY <1>2, <2>1, OnceTail
<1>4. b \notin Live(h) /\ Live(h) \in SUBSET Blocks
  <2>1. ToSet(h.used) \in SUBSET Blocks /\ ToSet(h.free) \in SUBSET Blocks
    BY <1>2, SetOfElements
  <2> QED BY <1>1, <1>3, <2>1 DEF Live, Listed
<1>5. top2 \in Nat /\ top2 < W
  BY <1>2
<1>6. Wrap(h.top + num) = top2
  <2>1. Wrap(h.top + num) = Wrap(top2)
    OBVIOUS
  <2> HIDE DEF top2
  <2>2. Wrap(top2) = top2
    BY <1>5 DEF Wrap
  <2> QED BY <2>1, <2>2
<1>7. top2 \in Base .. Limit /\ num \in 0 .. Limit
  BY <1>2, <1>5, <1>6
<1>8. g = [h EXCEPT !.fresh = fresh2, !.used = used2, !.addr = addr2, !.size = size2,
                    !.top = top2]
  BY <1>6 DEF AppendBlock
<1> HIDE DEF b
<1>9. used2 \in Seq(Blocks) /\ Once(used2) /\ ToSet(used2) = ToSet(h.used) \cup {b}
  <2>1. Once(h.used) /\ b \notin ToSet(h.used)
    BY <1>1, <1>4 DEF Listed, Live
  <2> QED BY <1>2, <1>3, <2>1, OncePutBefore
<1> HIDE DEF fresh2, used2, top2, A, Z, g
<1>10. /\ addr2 \in Fields /\ addr2[b] = h.top /\ \A x \in Blocks \ {b} : addr2[x] = A[x]
       /\ size2 \in Fields /\ size2[b] = num /\ \A x \in Blocks \ {b} : size2[x] = Z[x]
  <2>1. h.top \in 0 .. Limit
    BY <1>2
  <2> QED BY <1>2, <1>3, <1>7, <2>1, Update
<1> HIDE DEF addr2, size2
<1>11. g = [free |-> h.free, used |-> used2, fresh |-> fresh2, addr |-> addr2,
            size |-> size2, top |-> top2]
  BY <1>1, <1>8 DEF Heaps
<1>12. g \in Heaps
  BY <1>2, <1>3, <1>7, <1>9, <1>10, <1>11 DEF Heaps, Fields
<1>13. Listed(g, Blocks)
  BY <1>1, <1>3, <1>4, <1>9, <1>11 DEF Listed, Live
<1>14. Laid(g.addr, g.size, g.top, Live(g))
  <2>1. Appends(A, Z, Live(h), b, h.top, num, addr2, size2)
    BY <1>3, <1>4, <1>10 DEF Appends
  <2>2. Laid(addr2, size2, h.top + num, Live(h) \cup {b})
    BY <1>1, <1>2, <1>4, <2>1, LaidAppended DEF A, Z
  <2>3. Live(g) = Live(h) \cup {b}
    BY <1>9, <1>11 DEF Live
  <2> QED BY <1>11, <2>2, <2>3 DEF top2
<1>15. \A x \in Live(h) : g.addr[x] = h.addr[x] /\ g.size[x] = h.size[x]
  BY <1>4, <1>10, <1>11 DEF A, Z
<1>16. Sorted(g) /\ Strict(g)
  <2>1. g.free = h.free /\ \A x \in ToSet(h.free) : x \in Live(h)
    BY <1>11 DEF Live
  <2> QED BY <1>1, <1>2, <1>15, <2>1, FreeKept
<1>17. Gives(h, g, b, num)
  <2>1. \A x \in ToSet(h.used) : x \in Live(h)
    BY DEF Live
  <2> QED BY <1>3, <1>4, <1>9, <1>10, <1>11, <1>15, <2>1 DEF Gives
<1> QED BY <1>12, <1>13, <1>14, <1>16, <1>17 DEF Good, g, b

LEMMA AllocGood ==
    ASSUME NEW h, Good(h), Strict(h), NEW request \in Requests
    PROVE  LET r == AllocBlock(h, request)
           IN  \/ r.block = NoBlock /\ r.heap = h
               \/ /\ r.block # NoBlock
                  /\ Good(r.heap) /\ Strict(r.heap) /\ Gives(h, r.heap, r.block, request)
<1> DEFINE num == RoundUp(request)
           I == {j \in 1 .. Len(h.free) : IsTop(h, h.free[j], num) \/ h.size[h.free[j]] >= num}
           i == IF I # {} THEN Min(I) ELSE 0
           r == AllocBlock(h, request)
<1>1. h \in Heaps /\ Len(h.free) \in Nat /\ h.fresh \in Seq(Blocks)
  BY FieldsOf DEF Good
<1>2. request \in Nat /\ num \in Nat \ {0} /\ request <= num /\ Limit + num < W
  <2>1. /\ request \in Nat \ {0} /\ num \in Nat /\ request <= num /\ Limit + num < W
    BY RoundedUp
  <2> HIDE DEF num
  <2> QED BY <2>1
<1>3. i # 0 => /\ i \in 1 .. Len(h.free)
               /\ IsTop(h, h.free[i], num) \/ h.size[h.free[i]] >= num
  <2>1. I \in SUBSET (1 .. Len(h.free))
    OBVIOUS
  <2>2. i # 0 => i \in I
    <3> HIDE DEF I
    <3> QED BY <1>1, <2>1, FirstIndex
  <2> HIDE DEF i
  <2> QED BY <2>2
<1>4. r = IF i # 0 THEN [heap |-> TakeFree(h, i, num), block |-> h.free[i]]
          ELSE IF h.fresh # <<>> /\ Wrap(h.top + num) <= Limit
          THEN [heap |-> AppendBlock(h, num), block |-> Head(h.fresh)]
          ELSE [heap |-> h, block |-> NoBlock]
  BY DEF AllocBlock, SelectInSeq
<1> HIDE DEF num, i, r
<1>5. ASSUME NEW g, NEW b, Good(g), Gives(h, g, b, num)
      PROVE  Gives(h, g, b, request) /\ b # NoBlock
  <2>1. b \in Blocks /\ g.size[b] >= num
    BY <1>5 DEF Gives
  <2>2. g.size[b] \in Nat
    BY <1>5, <2>1, FieldsOf DEF Good
  <2>3. g.size[b] >= request
    BY <1>2, <2>1, <2>2
  <2>4. b # NoBlock
    BY <2>1 DEF Blocks, NoBlock
  <2> QED BY <1>5, <2>3, <2>4 DEF Gives
<1>6. CASE i # 0
  <2>1. r.heap = TakeFree(h, i, num) /\ r.block = h.free[i]
    BY <1>4, <1>6
  <2>2. Good(r.heap) /\ Strict(r.heap) /\ Gives(h, r.heap, r.block, num)
    BY <1>2, <1>3, <1>6, <2>1, TakeFreeGood
  <2> QED BY <1>5, <2>2 DEF r
<1>7. CASE i = 0 /\ h.fresh # <<>> /\ Wrap(h.top + num) <= Limit
  <2>1. r.heap = AppendBlock(h, num) /\ r.block = Head(h.fresh)
    BY <1>4, <1>7
  <2>2. Good(r.heap) /\ Strict(r.heap) /\ Gives(h, r.heap, r.block, num)
    BY <1>2, <1>7, <2>1, AppendGood
  <2> QED BY <1>5, <2>2 DEF r
<1>8. CASE i = 0 /\ ~(h.fresh # <<>> /\ Wrap(h.top + num) <= Limit)
  <2>1. r.heap = h /\ r.block = NoBlock
    BY <1>4, <1>8
  <2> QED BY <2>1 DEF r
<1> QED BY <1>6, <1>7, <1>8

(* The i-th used block is put back on the free list, which is compacted.   *)
Freed(h, i) ==
    Compact(InsertBlock([h EXCEPT !.used = RemoveAt(@, i)], h.used[i]))

NotUsed(h, i) == Arena(h.free, RemoveAt(h.used, i), h.fresh, h.addr, h.size, h.top)

LEMMA FreedReady ==
    ASSUME NEW h, Good(h), NEW i \in 1 .. Len(h.used)
    PROVE  /\ Insertable(NotUsed(h, i), h.used[i])
           /\ Freed(h, i) = Compact(InsertBlock(NotUsed(h, i), h.used[i]))
           /\ h.used[i] \in ToSet(h.used)
           /\ ToSet(RemoveAt(h.used, i)) = ToSet(h.used) \ {h.used[i]}
<1> DEFINE b == h.used[i]
           used2 == RemoveAt(h.used, i)
           h2 == NotUsed(h, i)
           x == [h EXCEPT !.used = RemoveAt(@, i)]
<1>1. h \in Heaps /\ Listed(h, Blocks) /\ Laid(h.addr, h.size, h.top, Live(h)) /\ Sorted(h)
  BY DEF Good
<1>2. h.free \in Seq(Blocks) /\ h.used \in Seq(Blocks) /\ h.fresh \in Seq(Blocks)
  BY <1>1, FieldsOf
<1>3. b \in Blocks /\ b \in ToSet(h.used)
  BY <1>2, SetOfElements
<1>4. used2 \in Seq(Blocks) /\ Once(used2) /\ ToSet(used2) = ToSet(h.used) \ {b}
  <2>1. Once(h.used)
    BY <1>1 DEF Listed
  <2> QED BY <1>2, <2>1, RemoveAtValue, OnceRemoveAt
<1>5. h2 = [free |-> h.free, used |-> used2, fresh |-> h.fresh, addr |-> h.addr,
            size |-> h.size, top |-> h.top]
  BY DEF NotUsed, Arena
<1>6. Freed(h, i) = Compact(InsertBlock(h2, b))
  <2>1. x = [h EXCEPT !.used = used2]
    OBVIOUS
  <2>2. Freed(h, i) = Compact(InsertBlock(x, b))
    BY DEF Freed
  <2> HIDE DEF used2, h2, x
  <2>3. x = [free |-> h.free, used |-> used2, fresh |-> h.fresh, addr |-> h.addr,
             size |-> h.size, top |-> h.top]
    BY <1>1, <2>1 DEF Heaps
  <2>4. x = h2
    BY <1>5, <2>3
  <2> QED BY <2>2, <2>4
<1> HIDE DEF used2, h2, b
<1>7. h2 \in Heaps
  BY <1>1, <1>4, <1>5 DEF Heaps
<1>8. Listed(h2, Blocks \ {b})
  BY <1>1, <1>3, <1>4, <1>5 DEF Listed
<1>9. Laid(h2.addr, h2.size, h2.top, Live(h2) \cup {b})
  <2>1. Live(h2) \cup {b} = Live(h)
    BY <1>3, <1>4, <1>5 DEF Live
  <2> QED BY <1>1, <1>5, <2>1
<1>10. Sorted(h2)
  BY <1>1, <1>5 DEF Sorted, End
<1>11. Insertable(h2, b)
  BY <1>3, <1>7, <1>8, <1>9, <1>10 DEF Insertable
<1> QED BY <1>3, <1>4, <1>6, <1>11 DEF b, used2, h2

LEMMA FreedGood ==
    ASSUME NEW h, Good(h), NEW i \in 1 .. Len(h.used)
    PROVE  LET g == Freed(h, i)
               b == h.used[i]
           IN  /\ Good(g) /\ Strict(g) /\ b \in ToSet(h.used)
               /\ ToSet(g.used) = ToSet(h.used) \ {b}
               /\ \A x \in ToSet(h.used) \ {b} : g.addr[x] = h.addr[x] /\ g.size[x] = h.size[x]
<1> DEFINE b == h.used[i]
           h2 == NotUsed(h, i)
           h3 == InsertBlock(h2, b)
           g == Freed(h, i)
<1>1. /\ Insertable(h2, b) /\ g = Compact(h3) /\ b \in ToSet(h.used)
      /\ ToSet(RemoveAt(h.used, i)) = ToSet(h.used) \ {b}
  BY FreedReady
<1>2. h2.used = RemoveAt(h.used, i) /\ h2.addr = h.addr /\ h2.size = h.size
  BY DEF NotUsed, Arena
<1> HIDE DEF h2, b, g
<1>3. Good(h3) /\ Same(h2, h3)
  BY <1>1, Inserted DEF Insertable
<1> HIDE DEF h3
<1>4. Good(g) /\ Strict(g) /\ Same(h3, g)
  BY <1>1, <1>3, Compacted
<1>5. /\ g.used = h2.used
      /\ \A x \in ToSet(h2.used) : g.addr[x] = h.addr[x] /\ g.size[x] = h.size[x]
  BY <1>2, <1>3, <1>4 DEF Same
<1> QED BY <1>1, <1>2, <1>4, <1>5 DEF g, b
-----------------------------------------------------------------------------
(* What the callers hold.                                                  *)
PlainSizes == Sizes \cup {n[1] * n[2] : n \in CallocSizes}
AlignedLengths == {a[1] : a \in AlignedSizes}

(* p is memory of used block b: from its start, unless it is aligned.      *)
InBlock(h, p, b) ==
    /\ b \in ToSet(h.used)
    /\ h.addr[b] <= p.ptr /\ p.ptr + p.len <= End(h, b)
    /\ \/ p.ptr = h.addr[b] /\ p.len \in PlainSizes
       \/ p.ptr > h.addr[b] /\ p.len \in AlignedLengths

Pointers == [ptr : 0 .. Limit, len : 0 .. Limit]

(* Each caller's memory is of a used block, which is no other caller's.    *)
HeldInBlocks(h, hd) ==
    /\ hd \in [Owners -> Pointers]
    /\ \A c \in Owners : hd[c] # Nothing => \E b \in Blocks : InBlock(h, hd[c], b)
    /\ \A c, d \in Owners : c # d /\ hd[c] # Nothing /\ hd[d] # Nothing =>
          \A b \in Blocks : ~(InBlock(h, hd[c], b) /\ InBlock(h, hd[d], b))

IInv ==
    /\ Good(heap)
    /\ Strict(heap)
    /\ HeldInBlocks(heap, held)

(* Memory is not empty, and is of one block.                               *)
LEMMA InBlockFields ==
    ASSUME NEW h, Good(h), NEW p \in Pointers, NEW b, InBlock(h, p, b)
    PROVE  /\ b \in Blocks /\ b \in ToSet(h.used) /\ b \in Live(h)
           /\ p.ptr \in Nat /\ p.len \in Nat /\ p.len > 0
           /\ h.addr[b] \in Nat /\ h.size[b] \in Nat /\ h.size[b] > 0
           /\ Base <= h.addr[b] /\ h.addr[b] <= p.ptr
           /\ p.ptr + p.len <= h.addr[b] + h.size[b] /\ h.addr[b] + h.size[b] <= h.top
           /\ h.top \in Base .. Limit
<1>1. h \in Heaps /\ Laid(h.addr, h.size, h.top, Live(h))
  BY DEF Good
<1>2. b \in ToSet(h.used) /\ b \in Blocks /\ b \in Live(h) /\ h.top \in Base .. Limit
  <2>1. b \in ToSet(h.used)
    BY DEF InBlock
  <2>2. ToSet(h.used) \in SUBSET Blocks /\ h.top \in Base .. Limit
    BY <1>1, FieldsOf, SetOfElements
  <2> QED BY <2>1, <2>2 DEF Live
<1>3. h.addr[b] \in Nat /\ h.size[b] \in Nat
  BY <1>1, <1>2, FieldsOf
<1>4. h.size[b] > 0 /\ Base <= h.addr[b] /\ h.addr[b] + h.size[b] <= h.top
  BY <1>1, <1>2 DEF Laid
<1>5. p.ptr \in Nat /\ p.len \in Nat
  BY DEF Pointers
<1>6. p.len > 0
  <2>1. p.len \in PlainSizes \cup AlignedLengths
    BY DEF InBlock
  <2>2. \A x \in AlignedLengths : x \in Nat \ {0}
    BY RequestsAssumption DEF AlignedLengths
  <2>3. \A x \in PlainSizes : x \in Nat \ {0}
    BY RoundedUp DEF PlainSizes, Requests
  <2> QED BY <2>1, <2>2, <2>3
<1> QED BY <1>2, <1>3, <1>4, <1>5, <1>6 DEF InBlock, End

(* A used block that contains the first byte of p is the one p is of.      *)
LEMMA BlockOf ==
    ASSUME NEW h, Good(h), NEW p \in Pointers, NEW b, InBlock(h, p, b),
           NEW x \in ToSet(h.used), h.addr[x] <= p.ptr, p.ptr < h.addr[x] + h.size[x]
    PROVE  x = b
<1>1. /\ b \in Live(h) /\ p.ptr \in Nat /\ p.len \in Nat /\ p.len > 0
      /\ h.addr[b] \in Nat /\ h.size[b] \in Nat
      /\ h.addr[b] <= p.ptr /\ p.ptr + p.len <= h.addr[b] + h.size[b]
  BY InBlockFields
<1>2. x \in Live(h) /\ h.addr[x] \in Nat /\ h.size[x] \in Nat
  <2>1. h \in Heaps
    BY DEF Good
  <2>2. x \in Blocks /\ x \in Live(h)
    BY <2>1, FieldsOf, SetOfElements DEF Live
  <2> QED BY <2>1, <2>2, FieldsOf
<1>3. x # b => \/ h.addr[x] + h.size[x] <= h.addr[b]
               \/ h.addr[b] + h.size[b] <= h.addr[x]
  BY <1>1, <1>2 DEF Good, Laid
<1> QED BY <1>1, <1>2, <1>3

LEMMA OneBlock ==
    ASSUME NEW h, Good(h), NEW p \in Pointers, NEW b, InBlock(h, p, b), NEW x, InBlock(h, p, x)
    PROVE  x = b
<1>1. /\ x \in ToSet(h.used) /\ h.addr[x] <= p.ptr /\ p.ptr \in Nat
      /\ p.ptr + p.len <= h.addr[x] + h.size[x] /\ p.len \in Nat /\ p.len > 0
      /\ h.addr[x] \in Nat /\ h.size[x] \in Nat
  BY InBlockFields
<1>2. p.ptr < h.addr[x] + h.size[x]
  BY <1>1
<1> QED BY <1>1, <1>2, BlockOf

(* Two blocks' memories are disjoint.                                      *)
LEMMA DisjointBlocks ==
    ASSUME NEW h, Good(h), NEW p \in Pointers, NEW b, InBlock(h, p, b),
           NEW q \in Pointers, NEW x, InBlock(h, q, x), b # x
    PROVE  p.ptr + p.len <= q.ptr \/ q.ptr + q.len <= p.ptr
<1>1. /\ b \in Live(h) /\ p.ptr \in Nat /\ p.len \in Nat /\ p.len > 0
      /\ h.addr[b] \in Nat /\ h.size[b] \in Nat
      /\ h.addr[b] <= p.ptr /\ p.ptr + p.len <= h.addr[b] + h.size[b]
  BY InBlockFields
<1>2. /\ x \in Live(h) /\ q.ptr \in Nat /\ q.len \in Nat /\ q.len > 0
      /\ h.addr[x] \in Nat /\ h.size[x] \in Nat
      /\ h.addr[x] <= q.ptr /\ q.ptr + q.len <= h.addr[x] + h.size[x]
  BY InBlockFields
<1>3. h.addr[x] + h.size[x] <= h.addr[b] \/ h.addr[b] + h.size[b] <= h.addr[x]
  BY <1>1, <1>2 DEF Good, Laid
<1> QED BY <1>1, <1>2, <1>3

(* A call of c changes what c holds and leaves the others' blocks alone.   *)
LEMMA HeldChanged ==
    ASSUME NEW h, NEW hd, HeldInBlocks(h, hd), NEW g, Good(g), NEW c \in Owners,
           NEW p \in Pointers, NEW hd2, hd2 = [hd EXCEPT ![c] = p],
           \A d \in Owners \ {c} : \A b \in Blocks :
              hd[d] # Nothing /\ InBlock(h, hd[d], b) => InBlock(g, hd[d], b),
           \/ p = Nothing
           \/ \E b \in Blocks \ ToSet(h.used) : InBlock(g, p, b)
    PROVE  HeldInBlocks(g, hd2)
<1>1. hd \in [Owners -> Pointers]
  BY DEF HeldInBlocks
<1>2. /\ hd2 \in [Owners -> Pointers] /\ hd2[c] = p
      /\ \A d \in Owners \ {c} : hd2[d] = hd[d]
  BY <1>1
<1>3. ASSUME NEW d \in Owners \ {c}, hd[d] # Nothing
      PROVE  \E b \in Blocks : InBlock(h, hd[d], b) /\ InBlock(g, hd[d], b)
  BY <1>3 DEF HeldInBlocks
<1>4. ASSUME NEW d \in Owners, hd2[d] # Nothing PROVE \E b \in Blocks : InBlock(g, hd2[d], b)
  <2>1. CASE d = c
    BY <1>2, <1>4, <2>1
  <2>2. CASE d # c
    BY <1>2, <1>3, <1>4, <2>2
  <2> QED BY <2>1, <2>2
<1>5. ASSUME NEW d \in Owners \ {c}, hd2[c] # Nothing, hd2[d] # Nothing,
             NEW x \in Blocks, InBlock(g, hd2[c], x), InBlock(g, hd2[d], x)
      PROVE  FALSE
  <2>1. PICK b \in Blocks : InBlock(h, hd[d], b) /\ InBlock(g, hd[d], b)
    BY <1>2, <1>3, <1>5
  <2>2. PICK y \in Blocks \ ToSet(h.used) : InBlock(g, p, y)
    BY <1>2, <1>5
  <2>3. hd[d] \in Pointers /\ hd2[c] = p /\ hd2[d] = hd[d]
    BY <1>1, <1>2
  <2>4. x = b
    BY <1>5, <2>1, <2>3, OneBlock
  <2>5. x = y
    BY <1>5, <2>2, <2>3, OneBlock
  <2>6. b \in ToSet(h.used)
    BY <2>1 DEF InBlock
  <2> QED BY <2>2, <2>4, <2>5, <2>6
<1>6. ASSUME NEW d \in Owners \ {c}, NEW e \in Owners \ {c}, d # e,
             hd2[d] # Nothing, hd2[e] # Nothing,
             NEW x \in Blocks, InBlock(g, hd2[d], x), InBlock(g, hd2[e], x)
      PROVE  FALSE
  <2>1. PICK b \in Blocks : InBlock(h, hd[d], b) /\ InBlock(g, hd[d], b)
    BY <1>2, <1>3, <1>6
  <2>2. PICK y \in Blocks : InBlock(h, hd[e], y) /\ InBlock(g, hd[e], y)
    BY <1>2, <1>3, <1>6
  <2>3. hd[d] \in Pointers /\ hd[e] \in Pointers /\ hd2[d] = hd[d] /\ hd2[e] = hd[e]
    BY <1>1, <1>2
  <2>4. x = b
    BY <1>6, <2>1, <2>3, OneBlock
  <2>5. x = y
    BY <1>6, <2>2, <2>3, OneBlock
  <2> QED BY <1>6, <2>1, <2>2, <2>3, <2>4, <2>5 DEF HeldInBlocks
<1> QED BY <1>2, <1>4, <1>5, <1>6 DEF HeldInBlocks

(* The block allocated for c.                                              *)
LEMMA HeldGiven ==
    ASSUME NEW h, Good(h), NEW hd, HeldInBlocks(h, hd), NEW g, Good(g), NEW b, NEW num,
           Gives(h, g, b, num), NEW c \in Owners,
           NEW p \in Pointers, InBlock(g, p, b)
    PROVE  HeldInBlocks(g, [hd EXCEPT ![c] = p])
<1>1. ASSUME NEW d \in Owners \ {c}, NEW x \in Blocks, InBlock(h, hd[d], x)
      PROVE  InBlock(g, hd[d], x)
  BY <1>1 DEF InBlock, Gives, End
<1>2. b \in Blocks \ ToSet(h.used)
  BY DEF Gives
<1> QED BY <1>1, <1>2, HeldChanged

(* What ta_alloc and ta_alloc_align make of the block.                     *)
LEMMA GivenPlain ==
    ASSUME NEW h, NEW g, Good(g), NEW b, NEW num \in PlainSizes, Gives(h, g, b, num)
    PROVE  LET p == [ptr |-> g.addr[b], len |-> num] IN p \in Pointers /\ InBlock(g, p, b)
<1>1. b \in Blocks /\ b \in ToSet(g.used) /\ b \in Live(g) /\ g.size[b] >= num
  BY DEF Gives, Live
<1>2. num \in Nat
  BY RoundedUp DEF PlainSizes, Requests
<1>3. g.addr[b] \in 0 .. Limit /\ g.size[b] \in 0 .. Limit
  <2>1. g.addr \in Fields /\ g.size \in Fields
    BY FieldsOf DEF Good
  <2> QED BY <1>1, <2>1 DEF Fields
<1>4. num \in 0 .. Limit /\ g.addr[b] <= g.addr[b] /\ g.addr[b] + num <= g.addr[b] + g.size[b]
  BY <1>1, <1>2, <1>3
<1> DEFINE p == [ptr |-> g.addr[b], len |-> num]
<1>5. p \in Pointers /\ p.ptr = g.addr[b] /\ p.len = num
  BY <1>3, <1>4 DEF Pointers
<1> HIDE DEF p
<1>6. InBlock(g, p, b)
  BY <1>1, <1>4, <1>5 DEF InBlock, End
<1> QED BY <1>5, <1>6 DEF p

LEMMA GivenAligned ==
    ASSUME NEW h, NEW g, Good(g), NEW b, NEW num, NEW al, <<num, al>> \in AlignedSizes,
           Gives(h, g, b, num + al)
    PROVE  LET p == [ptr |-> (Wrap(g.addr[b] + al) \div al) * al, len |-> num]
           IN  p \in Pointers /\ InBlock(g, p, b)
<1>1. b \in Blocks /\ b \in ToSet(g.used) /\ b \in Live(g) /\ g.size[b] >= num + al
  BY DEF Gives, Live
<1>2. num \in Nat \ {0} /\ al \in Nat \ {0} /\ num \in AlignedLengths /\ num + al \in Requests
  <2>1. num = <<num, al>>[1] /\ al = <<num, al>>[2]
    OBVIOUS
  <2>2. num \in AlignedLengths /\ num + al \in Requests
    BY <2>1, Zenon DEF AlignedLengths, Requests
  <2> QED BY <2>2, RequestsAssumption
<1>3. g.addr[b] \in 0 .. Limit /\ g.size[b] \in 0 .. Limit
  <2>1. g.addr \in Fields /\ g.size \in Fields
    BY FieldsOf DEF Good
  <2> QED BY <1>1, <2>1 DEF Fields
<1>4. g.addr[b] + g.size[b] <= g.top /\ g.top \in Nat /\ g.top <= Limit
  <2>1. g.top \in Base .. Limit
    BY FieldsOf DEF Good
  <2> QED BY <1>1, <2>1 DEF Good, Laid
<1> DEFINE a == g.addr[b]
           z == g.size[b]
           x == a + al
           q == x \div al
           r == q * al
<1> HIDE DEF a, z
<1>5. a \in Nat /\ z \in Nat /\ Limit \in Nat /\ a + z <= Limit /\ num + al <= z
  <2>1. Limit \in Nat
    OBVIOUS
  <2> QED BY <1>1, <1>3, <1>4, <2>1 DEF a, z
<1>6. Limit + (num + al) + Alignment <= W
  BY <1>2, RequestsAssumption
<1>7. x \in Nat /\ x < W
  BY <1>2, <1>5, <1>6
<1>8. Wrap(x) = x
  <2> HIDE DEF x
  <2> QED BY <1>7 DEF Wrap
<1> HIDE DEF x
<1>9. q \in Nat /\ q * al <= x /\ x < q * al + al
  BY <1>2, <1>7
<1> HIDE DEF q
<1>10. r \in Nat
  BY <1>2, <1>9
<1>11. r <= x /\ x < r + al
  BY <1>9
<1>12. r = (Wrap(g.addr[b] + al) \div al) * al
  BY <1>8 DEF x, q, a
<1> HIDE DEF r
<1>13. a < r /\ r + num <= a + z /\ r \in 0 .. Limit /\ num \in 0 .. Limit
  BY <1>2, <1>5, <1>10, <1>11 DEF x
<1> DEFINE p == [ptr |-> r, len |-> num]
<1>14. p \in Pointers /\ p.ptr = r /\ p.len = num
  BY <1>13 DEF Pointers
<1> HIDE DEF p
<1>15. InBlock(g, p, b)
  <2>1. g.addr[b] <= p.ptr /\ p.ptr > g.addr[b] /\ p.ptr + p.len <= g.addr[b] + g.size[b]
    BY <1>5, <1>10, <1>13, <1>14 DEF a, z
  <2> QED BY <1>1, <1>2, <1>14, <2>1 DEF InBlock, End
<1> QED BY <1>12, <1>14, <1>15 DEF p

(* Every allocation: the block is c's, or nothing changes.                 *)
LEMMA AllocStep ==
    ASSUME IInv, NEW c \in Owners,
           \/ \E num \in Sizes : TaAlloc(c, num)
           \/ \E n \in CallocSizes : TaCalloc(c, n[1], n[2])
           \/ \E a \in AlignedSizes : TaAllocAlign(c, a[1], a[2])
    PROVE  /\ held[c] = Nothing
           /\ \/ heap' = heap /\ held' = held
              \/ \E b, num, p :
                    /\ Good(heap') /\ Strict(heap') /\ Gives(heap, heap', b, num)
                    /\ p \in Pointers /\ InBlock(heap', p, b)
                    /\ held' = [held EXCEPT ![c] = p]
<1>1. Good(heap) /\ Strict(heap)
  BY DEF IInv
<1>2. ASSUME NEW num \in PlainSizes, TaAlloc(c, num)
      PROVE  /\ held[c] = Nothing
             /\ \/ heap' = heap /\ held' = held
                \/ \E b, n, p :
                      /\ Good(heap') /\ Strict(heap') /\ Gives(heap, heap', b, n)
                      /\ p \in Pointers /\ InBlock(heap', p, b)
                      /\ held' = [held EXCEPT ![c] = p]
  <2> DEFINE r == AllocBlock(heap, num)
             b == r.block
             p == [ptr |-> r.heap.addr[r.block], len |-> num]
  <2>1. /\ held[c] = Nothing /\ heap' = r.heap
        /\ held' = IF r.block = NoBlock THEN held ELSE [held EXCEPT ![c] = p]
    BY <1>2 DEF TaAlloc
  <2>2. num \in Requests
    BY DEF PlainSizes, Requests
  <2>3. \/ r.block = NoBlock /\ r.heap = heap
        \/ /\ r.block # NoBlock
           /\ Good(r.heap) /\ Strict(r.heap) /\ Gives(heap, r.heap, r.block, num)
    BY <1>1, <2>2, AllocGood
  <2> HIDE DEF r
  <2>4. CASE r.block = NoBlock /\ r.heap = heap
    BY <2>1, <2>4
  <2>5. CASE /\ r.block # NoBlock
             /\ Good(r.heap) /\ Strict(r.heap) /\ Gives(heap, r.heap, r.block, num)
    <3>1. p \in Pointers /\ InBlock(r.heap, p, b)
      BY <2>5, GivenPlain
    <3>2. held' = [held EXCEPT ![c] = p]
      BY <2>1, <2>5
    <3> HIDE DEF p
    <3> QED BY <2>1, <2>5, <3>1, <3>2
  <2> QED BY <2>3, <2>4, <2>5
<1>3. CASE \E num \in Sizes : TaAlloc(c, num)
  <2>1. PICK num \in Sizes : TaAlloc(c, num)
    BY <1>3
  <2>2. num \in PlainSizes
    BY DEF PlainSizes
  <2> QED BY <1>2, <2>1, <2>2
<1>4. CASE \E n \in CallocSizes : TaCalloc(c, n[1], n[2])
  <2>1. PICK n \in CallocSizes : TaCalloc(c, n[1], n[2])
    BY <1>4
  <2> DEFINE num == n[1] * n[2]
  <2>2. num \in PlainSizes /\ num \in Requests
    BY DEF PlainSizes, Requests
  <2>3. TaAlloc(c, Wrap(num))
    BY <2>1 DEF TaCalloc
  <2> HIDE DEF num
  <2>4. num \in Nat /\ num < W
    <3>1. num \in Nat /\ Limit + num + Alignment <= W
      BY <2>2, RoundedUp, RequestsAssumption
    <3> QED BY <3>1
  <2>5. Wrap(num) = num
    BY <2>4 DEF Wrap
  <2> QED BY <1>2, <2>2, <2>3, <2>5
<1>5. CASE \E a \in AlignedSizes : TaAllocAlign(c, a[1], a[2])
  <2>1. PICK a \in AlignedSizes : TaAllocAlign(c, a[1], a[2])
    BY <1>5
  <2> DEFINE num == a[1]
             al == a[2]
             request == num + al
             r == AllocBlock(heap, request)
             p == [ptr |-> (Wrap(r.heap.addr[r.block] + al) \div al) * al, len |-> num]
  <2>2. request \in Requests /\ <<num, al>> \in AlignedSizes
    <3>1. a = <<num, al>>
      BY RequestsAssumption
    <3>2. request \in Requests
      BY DEF Requests
    <3> QED BY <3>1, <3>2
  <2>3. Wrap(request) = request
    <3> HIDE DEF request
    <3>1. request \in Nat /\ request < W
      <4>1. request \in Nat /\ Limit + request + Alignment <= W
        BY <2>2, RoundedUp, RequestsAssumption
      <4> QED BY <4>1
    <3> QED BY <3>1 DEF Wrap
  <2>4. /\ held[c] = Nothing /\ heap' = r.heap
        /\ held' = IF r.block = NoBlock THEN held ELSE [held EXCEPT ![c] = p]
    BY <2>1, <2>3 DEF TaAllocAlign
  <2>5. \/ r.block = NoBlock /\ r.heap = heap
        \/ /\ r.block # NoBlock
           /\ Good(r.heap) /\ Strict(r.heap) /\ Gives(heap, r.heap, r.block, request)
    BY <1>1, <2>2, AllocGood
  <2> HIDE DEF r
  <2>6. CASE r.block = NoBlock /\ r.heap = heap
    BY <2>4, <2>6
  <2>7. CASE /\ r.block # NoBlock
             /\ Good(r.heap) /\ Strict(r.heap) /\ Gives(heap, r.heap, r.block, request)
    <3>1. p \in Pointers /\ InBlock(r.heap, p, r.block)
      <4> HIDE DEF num, al
      <4> QED BY <2>2, <2>7, GivenAligned
    <3>2. held' = [held EXCEPT ![c] = p]
      BY <2>4, <2>7
    <3> HIDE DEF p, request
    <3> QED BY <2>4, <2>7, <3>1, <3>2
  <2> QED BY <2>5, <2>6, <2>7
<1> QED BY <1>3, <1>4, <1>5

(* ta_free: a block that starts at the pointer is the caller's.            *)
LEMMA FreeStep ==
    ASSUME IInv, NEW c \in Owners, TaFree(c)
    PROVE  /\ held[c] # Nothing /\ held' = [held EXCEPT ![c] = Nothing]
           /\ \/ /\ heap' = heap
                 /\ \A x \in InUse : heap.addr[x] # held[c].ptr
              \/ \E i \in 1 .. Len(heap.used) :
                    /\ heap' = Freed(heap, i) /\ InBlock(heap, held[c], heap.used[i])
                    /\ heap.addr[heap.used[i]] = held[c].ptr
<1> DEFINE I == {j \in 1 .. Len(heap.used) : heap.addr[heap.used[j]] = held[c].ptr}
           i == IF I # {} THEN Min(I) ELSE 0
<1>1. /\ held[c] # Nothing /\ held' = [held EXCEPT ![c] = Nothing]
      /\ heap' = IF i = 0 THEN heap ELSE Freed(heap, i)
  BY DEF TaFree, SelectInSeq, Freed
<1>2. Good(heap) /\ heap \in Heaps
  BY DEF IInv, Good
<1>3. Len(heap.used) \in Nat /\ heap.used \in Seq(Blocks)
  BY <1>2, FieldsOf
<1>4. /\ i = 0 => I = {}
      /\ i # 0 => i \in I
  <2>1. I \in SUBSET (1 .. Len(heap.used))
    OBVIOUS
  <2> HIDE DEF I
  <2> QED BY <1>3, <2>1, FirstIndex
<1> HIDE DEF i
<1>5. CASE i = 0
  <2>1. \A j \in 1 .. Len(heap.used) : heap.addr[heap.used[j]] # held[c].ptr
    BY <1>4, <1>5
  <2>2. \A x \in InUse : heap.addr[x] # held[c].ptr
    BY <1>3, <2>1, SetOfElements DEF InUse
  <2> QED BY <1>1, <1>5, <2>2
<1>6. CASE i # 0
  <2>1. i \in 1 .. Len(heap.used) /\ heap.addr[heap.used[i]] = held[c].ptr
    BY <1>4, <1>6
  <2> DEFINE b == heap.used[i]
  <2>2. b \in ToSet(heap.used) /\ b \in Blocks /\ b \in Live(heap)
    BY <1>3, <2>1, SetOfElements DEF Live
  <2> HIDE DEF b
  <2>3. held[c] \in Pointers /\ \E x \in Blocks : InBlock(heap, held[c], x)
    BY <1>1 DEF IInv, HeldInBlocks
  <2>4. PICK x \in Blocks : InBlock(heap, held[c], x)
    BY <2>3
  <2>5. heap.addr[b] = held[c].ptr /\ heap.addr[b] \in Nat /\ heap.size[b] \in Nat
        /\ heap.size[b] > 0
    <3>1. heap.addr[b] \in Nat /\ heap.size[b] \in Nat
      BY <1>2, <2>2, FieldsOf
    <3>2. heap.size[b] > 0
      BY <1>2, <2>2 DEF Good, Laid
    <3> QED BY <2>1, <3>1, <3>2 DEF b
  <2>6. heap.addr[b] <= held[c].ptr /\ held[c].ptr < heap.addr[b] + heap.size[b]
    BY <2>5
  <2>7. b = x
    BY <1>2, <2>2, <2>3, <2>4, <2>6, BlockOf
  <2> QED BY <1>1, <1>6, <2>1, <2>4, <2>7 DEF b
<1> QED BY <1>5, <1>6

LEMMA InitIInv == Init => IInv
<1> SUFFICES ASSUME Init PROVE IInv
  OBVIOUS
<1> DEFINE all == [b \in Blocks |-> b]
           none == [b \in Blocks |-> 0]
<1>1. heap = [free |-> <<>>, used |-> <<>>, fresh |-> all, addr |-> none, size |-> none,
              top |-> Base]
  BY DEF Init
<1>2. all \in Seq(Blocks) /\ Len(all) = NBlocks /\ \A i \in 1 .. NBlocks : all[i] = i
  BY DEF Blocks
<1>3. Once(all) /\ ToSet(all) = Blocks
  <2>1. Once(all)
    <3> HIDE DEF all
    <3> QED BY <1>2 DEF Once
  <2>2. ToSet(all) = Blocks
    BY <1>2 DEF ToSet, Blocks
  <2> QED BY <2>1, <2>2
<1> HIDE DEF all
<1>4. none \in Fields
  BY DEF Fields
<1> HIDE DEF none
<1>5. heap \in Heaps
  BY <1>1, <1>2, <1>4 DEF Heaps, Fields
<1>6. Once(<<>>) /\ ToSet(<<>>) = {}
  BY DEF Once, ToSet
<1>7. Listed(heap, Blocks) /\ Live(heap) = {}
  BY <1>1, <1>3, <1>6 DEF Listed, Live
<1>8. Laid(heap.addr, heap.size, heap.top, Live(heap))
  BY <1>1, <1>7 DEF Laid
<1>9. Sorted(heap) /\ Strict(heap)
  BY <1>1 DEF Sorted, Strict, Upto
<1>10. HeldInBlocks(heap, held)
  <2>1. Nothing \in Pointers
    BY DEF Nothing, Pointers
  <2>2. held = [c \in Owners |-> Nothing]
    BY DEF Init
  <2> HIDE DEF Nothing
  <2> QED BY <2>1, <2>2 DEF HeldInBlocks
<1> QED BY <1>5, <1>7, <1>8, <1>9, <1>10 DEF IInv, Good

LEMMA StepIInv == IInv /\ [Next]_vars => IInv'
<1> SUFFICES ASSUME IInv, [Next]_vars PROVE IInv'
  OBVIOUS
<1>1. Good(heap) /\ Strict(heap) /\ HeldInBlocks(heap, held) /\ held \in [Owners -> Pointers]
  BY DEF IInv, HeldInBlocks
<1>2. ASSUME NEW c \in Owners,
             \/ \E num \in Sizes : TaAlloc(c, num)
             \/ \E n \in CallocSizes : TaCalloc(c, n[1], n[2])
             \/ \E a \in AlignedSizes : TaAllocAlign(c, a[1], a[2])
      PROVE  IInv'
  <2>1. CASE heap' = heap /\ held' = held
    BY <1>1, <2>1 DEF IInv
  <2>2. CASE \E b, num, p :
               /\ Good(heap') /\ Strict(heap') /\ Gives(heap, heap', b, num)
               /\ p \in Pointers /\ InBlock(heap', p, b)
               /\ held' = [held EXCEPT ![c] = p]
    <3>1. PICK b, num, p :
             /\ Good(heap') /\ Strict(heap') /\ Gives(heap, heap', b, num)
             /\ p \in Pointers /\ InBlock(heap', p, b)
             /\ held' = [held EXCEPT ![c] = p]
      BY <2>2
    <3>2. HeldInBlocks(heap', [held EXCEPT ![c] = p])
      BY <1>1, <3>1, HeldGiven
    <3> QED BY <3>1, <3>2 DEF IInv
  <2> QED BY <1>2, <2>1, <2>2, AllocStep
<1>3. ASSUME NEW c \in Owners, TaFree(c) PROVE IInv'
  <2>1. /\ held[c] # Nothing /\ held' = [held EXCEPT ![c] = Nothing]
        /\ \/ heap' = heap
           \/ \E i \in 1 .. Len(heap.used) :
                 heap' = Freed(heap, i) /\ InBlock(heap, held[c], heap.used[i])
    BY <1>3, FreeStep
  <2>2. Nothing \in Pointers
    BY DEF Nothing, Pointers
  <2>3. CASE heap' = heap
    <3>1. HeldInBlocks(heap, held')
      BY <1>1, <2>1, <2>2, HeldChanged
    <3> QED BY <1>1, <2>3, <3>1 DEF IInv
  <2>4. ASSUME NEW i \in 1 .. Len(heap.used), heap' = Freed(heap, i),
               InBlock(heap, held[c], heap.used[i])
        PROVE  IInv'
    <3> DEFINE b == heap.used[i]
    <3>1. /\ Good(heap') /\ Strict(heap') /\ ToSet(heap'.used) = ToSet(heap.used) \ {b}
          /\ \A x \in ToSet(heap.used) \ {b} :
                heap'.addr[x] = heap.addr[x] /\ heap'.size[x] = heap.size[x]
      BY <1>1, <2>4, FreedGood
    <3>2. b \in Blocks
      <4>1. heap \in Heaps
        BY <1>1 DEF Good
      <4> QED BY <4>1, FieldsOf
    <3>3. InBlock(heap, held[c], b)
      BY <2>4
    <3> HIDE DEF b
    <3>4. ASSUME NEW d \in Owners \ {c}, NEW x \in Blocks, held[d] # Nothing,
                 InBlock(heap, held[d], x)
          PROVE  InBlock(heap', held[d], x)
      <4>1. x # b
        BY <1>1, <2>1, <3>2, <3>3, <3>4 DEF HeldInBlocks
      <4> QED BY <3>1, <3>4, <4>1 DEF InBlock, End
    <3>5. HeldInBlocks(heap', held')
      BY <1>1, <2>1, <2>2, <3>1, <3>4, HeldChanged
    <3> QED BY <3>1, <3>5 DEF IInv
  <2> QED BY <2>1, <2>3, <2>4
<1>4. CASE UNCHANGED vars
  BY <1>1, <1>4 DEF vars, IInv
<1> QED BY <1>2, <1>3, <1>4 DEF Next

LEMMA Invariance == Spec => []IInv
BY InitIInv, StepIInv, PTL DEF Spec
-----------------------------------------------------------------------------
(* The theorems.                                                           *)

(* The fields of the heap and the pointers the callers hold stay in range: *)
(* no address the allocator computes passes heap_limit.                    *)
THEOREM TypeCorrect == Spec => []TypeOK
<1>1. IInv => TypeOK
  BY DEF IInv, Good, HeldInBlocks, TypeOK, Heaps, Pointers
<1> QED BY <1>1, Invariance, PTL

(* ta_check() always returns true, and every descriptor is on one list.    *)
THEOREM DescriptorsConserved == Spec => []BlocksConserved
<1>1. IInv => BlocksConserved
  <2> SUFFICES ASSUME IInv PROVE BlocksConserved
    OBVIOUS
  <2> DEFINE free == ToSet(heap.free)
             used == ToSet(heap.used)
             fresh == ToSet(heap.fresh)
  <2>1. heap \in Heaps /\ Listed(heap, Blocks)
    BY DEF IInv, Good
  <2>2. /\ IsFiniteSet(free) /\ Cardinality(free) = Len(heap.free)
        /\ IsFiniteSet(used) /\ Cardinality(used) = Len(heap.used)
        /\ IsFiniteSet(fresh) /\ Cardinality(fresh) = Len(heap.fresh)
    BY <2>1, FieldsOf, OnceCardinality DEF Listed
  <2>3. Len(heap.free) \in Nat /\ Len(heap.used) \in Nat /\ Len(heap.fresh) \in Nat
    BY <2>1, FieldsOf
  <2>4. /\ free \cap used = {} /\ (free \cup used) \cap fresh = {}
        /\ free \cup used \cup fresh = Blocks
    BY <2>1 DEF Listed
  <2> HIDE DEF free, used, fresh
  <2>5. Cardinality(free \cap used) = 0 /\ Cardinality((free \cup used) \cap fresh) = 0
    BY <2>4, FS_EmptySet
  <2>6. /\ IsFiniteSet(free \cup used)
        /\ Cardinality(free \cup used) = Len(heap.free) + Len(heap.used)
    <3>1. /\ IsFiniteSet(free \cup used)
          /\ Cardinality(free \cup used)
               = Cardinality(free) + Cardinality(used) - Cardinality(free \cap used)
      BY <2>2, FS_Union
    <3> QED BY <2>2, <2>3, <2>5, <3>1
  <2>7. Cardinality(Blocks) = Len(heap.free) + Len(heap.used) + Len(heap.fresh)
    <3>1. Cardinality((free \cup used) \cup fresh)
            = Cardinality(free \cup used) + Cardinality(fresh)
               - Cardinality((free \cup used) \cap fresh)
      BY <2>2, <2>6, FS_Union
    <3>2. (free \cup used) \cup fresh = Blocks
      BY <2>4
    <3>3. Cardinality(Blocks) = Cardinality(free \cup used) + Cardinality(fresh)
            - Cardinality((free \cup used) \cap fresh)
      BY <3>1, <3>2
    <3>4. Cardinality(Blocks) = (Len(heap.free) + Len(heap.used)) + Len(heap.fresh) - 0
      BY <2>2, <2>5, <2>6, <3>3, Zenon
    <3> QED BY <2>3, <3>4
  <2>8. Cardinality(Blocks) = NBlocks
    <3>1. 1 \in Int /\ NBlocks \in Int /\ 1 <= NBlocks /\ NBlocks - 1 + 1 = NBlocks
      OBVIOUS
    <3> QED BY <3>1, FS_Interval DEF Blocks
  <2> QED BY <2>4, <2>7, <2>8 DEF BlocksConserved, TaCheck, free, used, fresh
<1> QED BY <1>1, Invariance, PTL

(* Used and free blocks tile the arena below top.                          *)
THEOREM ArenaTiled == Spec => []Tiling
<1>1. IInv => Tiling
  <2> SUFFICES ASSUME IInv PROVE Tiling
    OBVIOUS
  <2> DEFINE L == Live(heap)
  <2>1. heap \in Heaps /\ Laid(heap.addr, heap.size, heap.top, L)
    BY DEF IInv, Good
  <2>2. L = InUse \cup Free /\ heap.top \in Base .. Limit
        /\ \A b \in L : heap.addr[b] \in Nat /\ heap.size[b] \in Nat
    <3>1. ToSet(heap.used) \in SUBSET Blocks /\ ToSet(heap.free) \in SUBSET Blocks
      BY <2>1, FieldsOf, SetOfElements
    <3>2. L \in SUBSET Blocks
      BY <3>1 DEF Live
    <3> QED BY <2>1, <3>2, FieldsOf DEF Live, InUse, Free
  <2> HIDE DEF L
  <2>3. \A b \in L : \A x : x \in Extent(b) <=>
           x \in Int /\ heap.addr[b] <= x /\ x < heap.addr[b] + heap.size[b]
    BY <2>2 DEF Extent, End
  <2>4. ASSUME NEW b \in L, NEW x \in Extent(b) PROVE x \in Base .. heap.top - 1
    <3>1. Base <= heap.addr[b] /\ heap.addr[b] + heap.size[b] <= heap.top
      BY <2>1 DEF Laid
    <3> QED BY <2>2, <2>3, <3>1
  <2>5. ASSUME NEW x \in Base .. heap.top - 1 PROVE \E b \in L : x \in Extent(b)
    <3>1. PICK b \in L : heap.addr[b] <= x /\ x < heap.addr[b] + heap.size[b]
      BY <2>1 DEF Laid
    <3> QED BY <2>3, <3>1
  <2>6. ASSUME NEW b1 \in L, NEW b2 \in L, b1 # b2 PROVE Extent(b1) \cap Extent(b2) = {}
    <3>1. \/ heap.addr[b1] + heap.size[b1] <= heap.addr[b2]
          \/ heap.addr[b2] + heap.size[b2] <= heap.addr[b1]
      BY <2>1, <2>6 DEF Laid
    <3> QED BY <2>2, <2>3, <3>1
  <2>7. UNION {Extent(b) : b \in L} = Base .. heap.top - 1
    BY <2>4, <2>5
  <2> QED BY <2>2, <2>6, <2>7 DEF Tiling
<1> QED BY <1>1, Invariance, PTL

(* The free list is sorted and no two blocks on it touch.                  *)
THEOREM FreeListStaysCanonical == Spec => []FreeListCanonical
<1>1. IInv => FreeListCanonical
  <2> SUFFICES ASSUME IInv, NEW i \in 1 .. Len(heap.free) - 1
               PROVE  End(heap, heap.free[i]) < heap.addr[heap.free[i + 1]]
    BY DEF FreeListCanonical
  <2>1. Len(heap.free) \in Nat
    BY FieldsOf DEF IInv, Good
  <2>2. i \in 1 .. Len(heap.free) /\ i + 1 \in 1 .. Len(heap.free) /\ i < i + 1
        /\ i < Len(heap.free) + 1
    BY <2>1
  <2> QED BY <2>2 DEF IInv, Strict, Upto
<1> QED BY <1>1, Invariance, PTL

(* ta_free takes the one block that contains the pointer out of use, or    *)
(* none if the pointer is an aligned one.  FreesOwnBlock tells an aligned  *)
(* pointer by its length, so no other request may have that length.        *)
THEOREM OwnBlockFreed ==
    ASSUME PlainSizes \cap AlignedLengths = {}
    PROVE  Spec => FreesOwnBlock
<1> DEFINE Own(c) == {b \in InUse : held[c].ptr \in Extent(b)
                                     /\ ~\E a \in AlignedSizes : held[c].len = a[1]}
<1>1. ASSUME IInv, NEW c \in Owners, TaFree(c) PROVE InUse \ InUse' = Own(c)
  <2> DEFINE p == held[c]
  <2>1. Good(heap) /\ heap \in Heaps
    BY <1>1 DEF IInv, Good
  <2>2. /\ p # Nothing
        /\ \/ heap' = heap /\ \A x \in InUse : heap.addr[x] # p.ptr
           \/ \E i \in 1 .. Len(heap.used) :
                 /\ heap' = Freed(heap, i) /\ InBlock(heap, p, heap.used[i])
                 /\ heap.addr[heap.used[i]] = p.ptr
    BY <1>1, FreeStep
  <2>3. p \in Pointers /\ \E x \in Blocks : InBlock(heap, p, x)
    BY <1>1, <2>2 DEF IInv, HeldInBlocks
  <2>4. PICK x \in Blocks : InBlock(heap, p, x)
    BY <2>3
  <2> HIDE DEF p
  <2>5. p.len \in AlignedLengths <=> \E a \in AlignedSizes : p.len = a[1]
    BY DEF AlignedLengths
  <2>6. x \in InUse /\ p.ptr \in Extent(x)
    <3>1. /\ x \in ToSet(heap.used) /\ p.ptr \in Nat /\ p.len \in Nat /\ p.len > 0
          /\ heap.addr[x] \in Nat /\ heap.size[x] \in Nat
          /\ heap.addr[x] <= p.ptr /\ p.ptr + p.len <= heap.addr[x] + heap.size[x]
      BY <2>1, <2>3, <2>4, InBlockFields
    <3> QED BY <3>1 DEF InUse, Extent, End
  <2>7. ASSUME NEW b \in InUse, p.ptr \in Extent(b) PROVE b = x
    <3>1. b \in ToSet(heap.used) /\ heap.addr[b] \in Nat /\ heap.size[b] \in Nat
      <4>1. b \in ToSet(heap.used)
        BY DEF InUse
      <4> QED BY <2>1, <4>1, FieldsOf, SetOfElements
    <3>2. heap.addr[b] <= p.ptr /\ p.ptr < heap.addr[b] + heap.size[b]
      BY <2>7, <3>1 DEF Extent, End
    <3> QED BY <2>1, <2>3, <2>4, <3>1, <3>2, BlockOf
  <2>8. CASE p.len \in AlignedLengths
    <3>1. heap.addr[x] # p.ptr
      <4>1. heap.addr[x] \in Nat /\ p.ptr \in Nat
        BY <2>1, <2>3, <2>4, InBlockFields
      <4>2. p.ptr > heap.addr[x]
        BY <2>4, <2>8 DEF InBlock
      <4> QED BY <4>1, <4>2
    <3>2. ASSUME NEW i \in 1 .. Len(heap.used), InBlock(heap, p, heap.used[i]),
                 heap.addr[heap.used[i]] = p.ptr
          PROVE  FALSE
      <4>1. heap.used[i] = x
        BY <2>1, <2>3, <2>4, <3>2, OneBlock
      <4> QED BY <3>1, <3>2, <4>1
    <3>3. heap' = heap
      BY <2>2, <3>2
    <3>4. InUse' = InUse
      BY <3>3 DEF InUse
    <3>5. Own(c) = {}
      BY <2>5, <2>8 DEF p
    <3> QED BY <3>4, <3>5
  <2>9. CASE p.len \notin AlignedLengths
    <3>1. heap.addr[x] = p.ptr
      BY <2>4, <2>9 DEF InBlock
    <3>2. PICK i \in 1 .. Len(heap.used) : heap' = Freed(heap, i) /\ InBlock(heap, p, heap.used[i])
      BY <2>2, <2>6, <3>1
    <3>3. heap.used[i] = x
      BY <2>1, <2>3, <2>4, <3>2, OneBlock
    <3>4. ToSet(heap'.used) = ToSet(heap.used) \ {x}
      BY <2>1, <3>2, <3>3, FreedGood
    <3>5. InUse' = InUse \ {x}
      BY <3>4 DEF InUse
    <3>6. Own(c) = {x}
      BY <2>5, <2>6, <2>7, <2>9 DEF p
    <3> QED BY <2>6, <3>5, <3>6
  <2> QED BY <2>8, <2>9
<1>2. IInv /\ [Next]_vars => [\A c \in Owners : TaFree(c) => InUse \ InUse' = Own(c)]_vars
  BY <1>1
<1> QED BY <1>2, Invariance, PTL DEF Spec, FreesOwnBlock

(* Every call is one of Allocator, or no step of it.                       *)
LEMMA AbstractStep == IInv /\ [Next]_vars => [Abs!Next]_(Abs!vars)
<1> DEFINE Bytes(p) == p.ptr .. p.ptr + p.len - 1
           abs == [c \in Owners |-> held[c].ptr .. held[c].ptr + held[c].len - 1]
           abs2 == [c \in Owners |-> held'[c].ptr .. held'[c].ptr + held'[c].len - 1]
<1> SUFFICES ASSUME IInv, [Next]_vars PROVE Abs!Next \/ abs2 = abs
  BY DEF Abs!vars
<1>1. Good(heap) /\ HeldInBlocks(heap, held) /\ held \in [Owners -> Pointers]
  BY DEF IInv, HeldInBlocks
<1>2. IInv' /\ HeldInBlocks(heap', held') /\ Good(heap')
  BY StepIInv DEF IInv
<1>3. Bytes(Nothing) = {}
  BY DEF Nothing
<1>4. ASSUME NEW c \in Owners,
             \/ \E num \in Sizes : TaAlloc(c, num)
             \/ \E n \in CallocSizes : TaCalloc(c, n[1], n[2])
             \/ \E a \in AlignedSizes : TaAllocAlign(c, a[1], a[2])
      PROVE  Abs!Next \/ abs2 = abs
  <2>1. CASE heap' = heap /\ held' = held
    BY <2>1
  <2>2. ASSUME NEW b, NEW num, NEW p \in Pointers, InBlock(heap', p, b),
               held' = [held EXCEPT ![c] = p]
        PROVE  Abs!Next
    <3>1. held[c] = Nothing
      BY <1>4, AllocStep
    <3>2. /\ p.ptr \in Nat /\ p.len \in Nat /\ p.len > 0 /\ b \in Blocks
          /\ Base <= p.ptr /\ p.ptr + p.len <= Limit
      <4>1. /\ b \in Blocks
            /\ p.ptr \in Nat /\ p.len \in Nat /\ p.len > 0
            /\ heap'.addr[b] \in Nat /\ heap'.size[b] \in Nat
            /\ Base <= heap'.addr[b] /\ heap'.addr[b] <= p.ptr
            /\ p.ptr + p.len <= heap'.addr[b] + heap'.size[b]
            /\ heap'.addr[b] + heap'.size[b] <= heap'.top
            /\ heap'.top \in Base .. Limit
        BY <1>2, <2>2, InBlockFields
      <4> QED BY <4>1
    <3>3. abs[c] = {}
      BY <1>3, <3>1
    <3>4. ASSUME NEW d \in Owners PROVE abs[d] \cap Bytes(p) = {}
      <4>1. CASE d = c
        BY <3>3, <4>1
      <4>2. CASE d # c /\ held[d] = Nothing
        BY <1>3, <4>2
      <4>3. CASE d # c /\ held[d] # Nothing
        <5>1. held'[d] = held[d] /\ held'[c] = p /\ held[d] \in Pointers
          BY <1>1, <2>2, <4>3
        <5>2. p # Nothing
          BY <3>2 DEF Nothing
        <5>3. PICK x \in Blocks : InBlock(heap', held[d], x)
          BY <1>2, <4>3, <5>1 DEF HeldInBlocks
        <5>4. x # b
          BY <1>2, <2>2, <3>2, <4>3, <5>1, <5>2, <5>3 DEF HeldInBlocks
        <5>5. p.ptr + p.len <= held[d].ptr \/ held[d].ptr + held[d].len <= p.ptr
          BY <1>2, <2>2, <5>1, <5>3, <5>4, DisjointBlocks
        <5>6. held[d].ptr \in Nat /\ held[d].len \in Nat
          BY <5>1 DEF Pointers
        <5>7. Bytes(held[d]) \cap Bytes(p) = {}
          <6> DEFINE a == held[d].ptr
                     n == held[d].len
          <6> HIDE DEF a, n
          <6>1. a \in Nat /\ n \in Nat /\ (p.ptr + p.len <= a \/ a + n <= p.ptr)
            BY <5>5, <5>6 DEF a, n
          <6>2. (a .. a + n - 1) \cap (p.ptr .. p.ptr + p.len - 1) = {}
            BY <3>2, <6>1
          <6> QED BY <6>2 DEF a, n
        <5> QED BY <5>7
      <4> QED BY <4>1, <4>2, <4>3
    <3>5. abs2 = [abs EXCEPT ![c] = Bytes(p)]
      <4>1. /\ held'[c] = p /\ \A d \in Owners \ {c} : held'[d] = held[d]
        BY <1>1, <2>2
      <4>2. /\ Bytes(held'[c]) = Bytes(p)
            /\ \A d \in Owners \ {c} : Bytes(held'[d]) = Bytes(held[d])
        BY <4>1
      <4> HIDE DEF Bytes
      <4>3. abs2 = [d \in Owners |-> Bytes(held'[d])] /\ abs = [d \in Owners |-> Bytes(held[d])]
        BY DEF Bytes
      <4> HIDE DEF abs, abs2
      <4> QED BY <4>2, <4>3
    <3>6. p.ptr \in Base .. Limit /\ p.len \in 0 .. Limit - Base
      BY <3>2
    <3>7. Abs!Allocate(c, p.ptr, p.len)
      <4>1. p.ptr >= Base /\ p.ptr + p.len <= Limit
        BY <3>2
      <4> QED BY <3>3, <3>4, <3>5, <4>1 DEF Abs!Allocate, Abs!Extent
    <3> QED BY <3>6, <3>7 DEF Abs!Next
  <2> QED BY <1>4, <2>1, <2>2, AllocStep
<1>5. ASSUME NEW c \in Owners, TaFree(c) PROVE Abs!Next
  <2>1. held' = [held EXCEPT ![c] = Nothing]
    BY <1>5, FreeStep
  <2>2. abs2 = [abs EXCEPT ![c] = {}]
    <3>1. /\ Bytes(held'[c]) = {}
          /\ \A d \in Owners \ {c} : Bytes(held'[d]) = Bytes(held[d])
      BY <1>1, <1>3, <2>1
    <3> HIDE DEF Bytes
    <3>2. abs2 = [d \in Owners |-> Bytes(held'[d])] /\ abs = [d \in Owners |-> Bytes(held[d])]
      BY DEF Bytes
    <3> HIDE DEF abs, abs2
    <3> QED BY <3>1, <3>2
  <2>3. Abs!Release(c)
    BY <2>2 DEF Abs!Release
  <2> QED BY <2>3 DEF Abs!Next
<1>6. CASE UNCHANGED vars
  BY <1>6 DEF vars
<1> QED BY <1>4, <1>5, <1>6 DEF Next

(* Callers' memories are disjoint and inside the arena, whatever the heap  *)
(* does to its blocks.                                                     *)
THEOREM HeapImplementsAllocator == Spec => ImplementsAllocator
<1>1. Init => Abs!Init
  <2> SUFFICES ASSUME Init PROVE Abs!Init
    OBVIOUS
  <2>1. \A c \in Owners : held[c] = Nothing
    BY DEF Init
  <2>2. Nothing.ptr .. Nothing.ptr + Nothing.len - 1 = {}
    BY DEF Nothing
  <2> QED BY <2>1, <2>2 DEF Abs!Init
<1> QED BY <1>1, AbstractStep, Invariance, PTL DEF Spec, ImplementsAllocator, Abs!Spec
-----------------------------------------------------------------------------
(* The lists as the pointers form them.                                    *)

HIDE ArenaAssumption

(* The k-th block of a list, and NULL past its ends.                       *)
Elem(s, k) == IF k \in 1 .. Len(s) THEN s[k] ELSE 0

(* From head the links lead along s to NULL, whatever those of the blocks  *)
(* in but are.                                                             *)
Linked(next, head, s, but) ==
    /\ head = Elem(s, 1)
    /\ \A k \in 1 .. Len(s) : s[k] \notin but => next[s[k]] = Elem(s, k + 1)

(* The memory's pointers form the lists of g, and its fields are g's.      *)
Chained(m, g, but) ==
    /\ Linked(m.next, m.free, g.free, but)
    /\ Linked(m.next, m.used, g.used, but)
    /\ Linked(m.next, m.fresh, g.fresh, but)

Forms(m, g, but) ==
    /\ Chained(m, g, but) /\ m.addr = g.addr /\ m.size = g.size /\ m.top = g.top

Links == [Blocks -> Nat]

LEMMA ElemValue ==
    ASSUME NEW s \in Seq(Blocks)
    PROVE  /\ Len(s) \in Nat
           /\ \A k \in Int : /\ Elem(s, k) \in Nat
                             /\ Elem(s, k) # 0 <=> k \in 1 .. Len(s)
                             /\ k \in 1 .. Len(s) => Elem(s, k) = s[k] /\ s[k] \in Blocks
<1>1. Len(s) \in Nat /\ \A k \in 1 .. Len(s) : s[k] \in Blocks
  OBVIOUS
<1>2. \A b \in Blocks : b \in Nat /\ b # 0
  BY DEF Blocks
<1>3. ASSUME NEW k \in Int
      PROVE  /\ Elem(s, k) \in Nat /\ (Elem(s, k) # 0 <=> k \in 1 .. Len(s))
             /\ k \in 1 .. Len(s) => Elem(s, k) = s[k] /\ s[k] \in Blocks
  BY <1>1, <1>2 DEF Elem
<1> QED BY <1>1, <1>3

(* A link that is not of the list's, or excepted, may change.              *)
LEMMA LinkedElsewhere ==
    ASSUME NEW next \in Links, NEW head, NEW s \in Seq(Blocks), NEW but,
           Linked(next, head, s, but), NEW x \in Blocks, NEW v, x \in but \/ x \notin ToSet(s),
           NEW next2, next2 = [next EXCEPT ![x] = v]
    PROVE  Linked(next2, head, s, but)
<1>1. \A k \in 1 .. Len(s) : s[k] \notin but => s[k] # x
  BY SetOfElements
<1>2. \A k \in 1 .. Len(s) : s[k] # x => next2[s[k]] = next[s[k]]
  BY DEF Links
<1> QED BY <1>1, <1>2 DEF Linked

(* The i-th block is unlinked.                                             *)
LEMMA LinkedRemoved ==
    ASSUME NEW next \in Links, NEW head, NEW s \in Seq(Blocks), Once(s),
           Linked(next, head, s, {}), NEW i \in 1 .. Len(s),
           NEW next2, NEW head2,
           IF i = 1 THEN next2 = next /\ head2 = next[s[i]]
           ELSE next2 = [next EXCEPT ![s[i - 1]] = next[s[i]]] /\ head2 = head
    PROVE  Linked(next2, head2, RemoveAt(s, i), {})
<1> DEFINE r == RemoveAt(s, i)
           n == Len(s)
<1>1. r \in Seq(Blocks) /\ Len(r) = n - 1 /\ n \in Nat
      /\ \A j \in 1 .. n - 1 : r[j] = IF j < i THEN s[j] ELSE s[j + 1]
  BY RemoveAtValue
<1> HIDE DEF r
<1>2. head = Elem(s, 1) /\ \A k \in 1 .. n : next[s[k]] = Elem(s, k + 1)
  BY DEF Linked
<1>3. \A k \in 1 .. n : s[k] \in Blocks /\ \A j \in 1 .. n : s[j] = s[k] => j = k
  BY DEF Once
<1>4. \A k \in 1 .. n : Elem(r, k) = IF k < i THEN s[k] ELSE Elem(s, k + 1)
  BY <1>1 DEF Elem
<1>5. head2 = Elem(r, 1)
  <2>1. CASE i = 1
    BY <1>2, <1>4, <2>1
  <2>2. CASE i # 1
    BY <1>1, <1>2, <1>4, <2>2 DEF Elem
  <2> QED BY <2>1, <2>2
<1>6. ASSUME NEW k \in 1 .. n - 1 PROVE next2[r[k]] = Elem(r, k + 1)
  <2>1. k \in 1 .. n /\ k + 1 \in 1 .. n /\ k \in Int /\ i \in Int
    BY <1>1
  <2>2. CASE k < i /\ k + 1 # i
    <3>1. r[k] = s[k] /\ Elem(r, k + 1) = s[k + 1] /\ Elem(s, k + 1) = s[k + 1]
      BY <1>1, <1>4, <2>1, <2>2 DEF Elem
    <3>2. next2[s[k]] = next[s[k]]
      <4>1. i - 1 \in 1 .. n /\ k # i - 1
        BY <1>1, <2>1, <2>2
      <4>2. s[i - 1] # s[k] /\ s[k] \in Blocks
        BY <1>3, <2>1, <4>1
      <4> QED BY <4>2 DEF Links
    <3> QED BY <1>2, <2>1, <3>1, <3>2
  <2>3. CASE k + 1 = i
    <3>1. r[k] = s[k] /\ Elem(r, k + 1) = Elem(s, i + 1)
      BY <1>1, <1>4, <2>1, <2>3
    <3>2. k = i - 1 /\ i # 1 /\ s[k] \in Blocks
      BY <1>3, <2>1, <2>3
    <3>3. next2[s[k]] = next[s[i]]
      BY <3>2 DEF Links
    <3> QED BY <1>2, <3>1, <3>3
  <2>4. CASE ~(k < i)
    <3>1. r[k] = s[k + 1] /\ Elem(r, k + 1) = Elem(s, k + 2)
      BY <1>1, <1>4, <2>1, <2>4
    <3>2. next2[s[k + 1]] = next[s[k + 1]]
      <4>1. CASE i = 1
        BY <4>1
      <4>2. CASE i # 1
        <5>1. i - 1 \in 1 .. n /\ k + 1 # i - 1
          BY <1>1, <2>1, <2>4, <4>2
        <5>2. s[i - 1] # s[k + 1] /\ s[k + 1] \in Blocks
          BY <1>3, <2>1, <5>1
        <5> QED BY <4>2, <5>2 DEF Links
      <4> QED BY <4>1, <4>2
    <3>3. next[s[k + 1]] = Elem(s, k + 1 + 1) /\ k + 1 + 1 = k + 2
      BY <1>2, <2>1
    <3> QED BY <3>1, <3>2, <3>3
  <2> QED BY <2>1, <2>2, <2>3, <2>4
<1> QED BY <1>1, <1>5, <1>6 DEF Linked, r

(* A block put before the list leads to it.                                *)
LEMMA LinkedPushed ==
    ASSUME NEW next, NEW head, NEW s \in Seq(Blocks), NEW but,
           Linked(next, head, s, but), NEW x \in Blocks, next[x] = head
    PROVE  Linked(next, x, <<x>> \o s, but)
<1> DEFINE r == <<x>> \o s
<1>1. r \in Seq(Blocks) /\ Len(r) = Len(s) + 1 /\ r[1] = x /\ Len(s) \in Nat
      /\ \A k \in 1 .. Len(s) : r[k + 1] = s[k]
  BY PutBefore
<1> HIDE DEF r
<1>2. \A k \in 1 .. Len(s) + 1 : Elem(r, k + 1) = Elem(s, k)
  BY <1>1 DEF Elem
<1>3. x = Elem(r, 1)
  BY <1>1 DEF Elem
<1>4. ASSUME NEW k \in 1 .. Len(r), r[k] \notin but PROVE next[r[k]] = Elem(r, k + 1)
  <2>1. CASE k = 1
    BY <1>1, <1>2, <2>1 DEF Linked
  <2>2. CASE k # 1
    <3>1. k - 1 \in 1 .. Len(s) /\ r[k] = s[k - 1] /\ k - 1 + 1 = k
      <4>1. k - 1 \in 1 .. Len(s) /\ k - 1 + 1 = k
        BY <1>1, <2>2
      <4> QED BY <1>1, <4>1
    <3>2. next[s[k - 1]] = Elem(s, k)
      BY <1>4, <3>1 DEF Linked
    <3>3. Elem(r, k + 1) = Elem(s, k)
      BY <1>1, <1>2
    <3> QED BY <3>1, <3>2, <3>3
  <2> QED BY <2>1, <2>2
<1> QED BY <1>3, <1>4 DEF Linked, r

(* The list without its first block.                                       *)
LEMMA LinkedTail ==
    ASSUME NEW next, NEW head, NEW s \in Seq(Blocks), NEW but,
           Linked(next, head, s, but), s # <<>>
    PROVE  /\ head = Head(s) /\ head \in Blocks
           /\ head \notin but => next[head] = Elem(Tail(s), 1)
           /\ Linked(next, Elem(Tail(s), 1), Tail(s), but)
<1>1. Len(s) \in Nat \ {0} /\ Head(s) = s[1] /\ s[1] \in Blocks
  BY EmptySeq
<1>2. Tail(s) \in Seq(Blocks) /\ Len(Tail(s)) = Len(s) - 1
      /\ \A k \in 1 .. Len(s) - 1 : Tail(s)[k] = s[k + 1]
  BY <1>1, HeadTailProperties
<1> DEFINE r == Tail(s)
<1> HIDE DEF r
<1>3. r \in Seq(Blocks) /\ Len(r) = Len(s) - 1 /\ \A k \in 1 .. Len(s) - 1 : r[k] = s[k + 1]
  BY <1>2 DEF r
<1>4. \A k \in 1 .. Len(s) : Elem(r, k) = Elem(s, k + 1)
  BY <1>1, <1>3 DEF Elem
<1>5. head = s[1]
  BY <1>1 DEF Linked, Elem
<1>6. head \notin but => next[head] = Elem(r, 1)
  BY <1>1, <1>4, <1>5 DEF Linked
<1>7. ASSUME NEW k \in 1 .. Len(r), r[k] \notin but PROVE next[r[k]] = Elem(r, k + 1)
  <2>1. k + 1 \in 1 .. Len(s) /\ r[k] = s[k + 1]
    BY <1>1, <1>3
  <2>2. next[s[k + 1]] = Elem(s, k + 1 + 1)
    BY <1>7, <2>1 DEF Linked
  <2>3. Elem(r, k + 1) = Elem(s, k + 1 + 1)
    BY <1>4, <2>1
  <2> QED BY <2>1, <2>2, <2>3
<1> QED BY <1>1, <1>5, <1>6, <1>7 DEF Linked, r

Only(b) == {b}

(* A block put before the i-th is led to, and its own link is to be set.   *)
Leads(next, head, s, i, b, r, next2, head2) ==
    /\ next \in Links /\ s \in Seq(Blocks) /\ Once(s) /\ Linked(next, head, s, {})
    /\ b \in Blocks /\ b \notin ToSet(s) /\ i \in 1 .. Len(s) + 1 /\ Inserts(r, s, i, b)
    /\ IF i = 1 THEN next2 = next /\ head2 = b
       ELSE next2 = [next EXCEPT ![s[i - 1]] = b] /\ head2 = head

LEMMA LinkedInserted ==
    ASSUME NEW next, NEW head, NEW s, NEW i, NEW b, NEW r, NEW next2, NEW head2,
           Leads(next, head, s, i, b, r, next2, head2)
    PROVE  /\ Linked(next2, head2, r, Only(b)) /\ r[i] = b /\ i \in 1 .. Len(r)
           /\ Elem(s, i) = Elem(r, i + 1)
<1> DEFINE n == Len(s)
<1>0. IF i = 1 THEN next2 = next /\ head2 = b
      ELSE next2 = [next EXCEPT ![s[i - 1]] = b] /\ head2 = head
  BY DEF Leads
<1>1. n \in Nat /\ Len(r) = n + 1 /\ i \in 1 .. n + 1
      /\ \A j \in 1 .. n + 1 : r[j] = IF j < i THEN s[j] ELSE IF j = i THEN b ELSE s[j - 1]
  BY DEF Leads, Inserts
<1>2. head = Elem(s, 1) /\ next \in Links /\ b \in Blocks
        /\ \A k \in 1 .. n : next[s[k]] = Elem(s, k + 1)
  BY DEF Leads, Linked
<1>3. \A k \in 1 .. n : s[k] \in Blocks /\ s[k] # b /\ \A j \in 1 .. n : s[j] = s[k] => j = k
  BY SetOfElements DEF Leads, Once
<1>4. r[i] = b /\ i \in 1 .. Len(r) /\ Elem(s, i) = Elem(r, i + 1)
  <2>1. CASE i = n + 1
    BY <1>1, <2>1 DEF Elem
  <2>2. CASE i # n + 1
    BY <1>1, <2>2 DEF Elem
  <2> QED BY <2>1, <2>2
<1>5. head2 = Elem(r, 1)
  BY <1>0, <1>1, <1>2 DEF Elem
<1>6. ASSUME NEW k \in 1 .. n + 1, k # i PROVE next2[r[k]] = Elem(r, k + 1)
  <2>1. CASE k < i /\ k + 1 # i
    <3>1. k \in 1 .. n /\ k + 1 \in 1 .. n /\ i - 1 \in 1 .. n /\ k # i - 1
      BY <1>1, <2>1
    <3>2. r[k] = s[k] /\ Elem(r, k + 1) = s[k + 1] /\ Elem(s, k + 1) = s[k + 1]
      BY <1>1, <2>1, <3>1 DEF Elem
    <3>3. s[k] \in Blocks /\ s[i - 1] # s[k]
      BY <1>3, <3>1
    <3>4. next2[s[k]] = next[s[k]]
      BY <1>0, <1>1, <1>2, <2>1, <3>1, <3>3 DEF Links
    <3> QED BY <1>2, <3>1, <3>2, <3>4
  <2>2. CASE k + 1 = i
    <3>1. k = i - 1 /\ i # 1 /\ k \in 1 .. n /\ s[k] \in Blocks
      BY <1>1, <1>3, <2>2
    <3>2. r[k] = s[k] /\ Elem(r, k + 1) = b
      BY <1>1, <1>4, <2>2, <3>1 DEF Elem
    <3> QED BY <1>0, <1>2, <3>1, <3>2 DEF Links
  <2>3. CASE k > i
    <3>1. k - 1 \in 1 .. n /\ k - 1 # i - 1 /\ r[k] = s[k - 1] /\ k - 1 + 1 = k
      BY <1>1, <2>3
    <3>2. Elem(r, k + 1) = Elem(s, k)
      BY <1>1, <2>3 DEF Elem
    <3>3. next2[s[k - 1]] = next[s[k - 1]]
      <4>1. CASE i = 1
        BY <1>0, <4>1
      <4>2. CASE i # 1
        <5>1. i - 1 \in 1 .. n
          BY <1>1, <4>2
        <5>2. s[i - 1] # s[k - 1] /\ s[k - 1] \in Blocks
          BY <1>3, <3>1, <5>1
        <5> QED BY <1>0, <1>2, <4>2, <5>2 DEF Links
      <4> QED BY <4>1, <4>2
    <3> QED BY <1>2, <3>1, <3>2, <3>3
  <2> QED BY <1>1, <1>6, <2>1, <2>2, <2>3
<1>7. ASSUME NEW k \in 1 .. Len(r), r[k] \notin Only(b) PROVE next2[r[k]] = Elem(r, k + 1)
  BY <1>1, <1>4, <1>6, <1>7 DEF Only
<1> QED BY <1>4, <1>5, <1>7 DEF Linked

(* The link of the block that was excepted is set.                         *)
LEMMA LinkedMended ==
    ASSUME NEW next \in Links, NEW head, NEW r \in Seq(Blocks), Once(r), NEW b \in Blocks,
           Linked(next, head, r, Only(b)), NEW i \in 1 .. Len(r), r[i] = b
    PROVE  Linked([next EXCEPT ![b] = Elem(r, i + 1)], head, r, {})
<1> DEFINE next2 == [next EXCEPT ![b] = Elem(r, i + 1)]
<1>1. ASSUME NEW k \in 1 .. Len(r) PROVE next2[r[k]] = Elem(r, k + 1)
  <2>1. r[k] \in Blocks /\ (r[k] = b => k = i)
    BY DEF Once
  <2>2. CASE k = i
    BY <2>2 DEF Links
  <2>3. CASE k # i
    <3>1. next2[r[k]] = next[r[k]]
      BY <2>1, <2>3 DEF Links
    <3> QED BY <2>1, <2>3, <3>1 DEF Linked, Only
  <2> QED BY <2>2, <2>3
<1> QED BY <1>1 DEF Linked

(* What is left of a list from its k-th block on.                          *)
RestOf(s, k) == SubSeq(s, k, Len(s))

LEMMA Rests ==
    ASSUME NEW s \in Seq(Blocks)
    PROVE  /\ RestOf(s, 1) = s /\ RestOf(s, Len(s) + 1) = <<>>
           /\ \A k \in 1 .. Len(s) : <<s[k]>> \o RestOf(s, k + 1) = RestOf(s, k)
<1> DEFINE n == Len(s)
<1>1. n \in Nat /\ \A i \in 1 .. n : s[i] \in Blocks
  OBVIOUS
<1>2. ASSUME NEW k \in 1 .. n + 1
      PROVE  /\ RestOf(s, k) \in Seq(Blocks) /\ Len(RestOf(s, k)) = (n + 1) - k
             /\ \A j \in 1 .. (n + 1) - k : RestOf(s, k)[j] = s[k + j - 1]
  <2>1. \A i \in k .. n : s[i] \in Blocks
    BY <1>1
  <2> HIDE DEF n
  <2>2. /\ SubSeq(s, k, n) \in Seq(Blocks)
        /\ Len(SubSeq(s, k, n)) = (IF k <= n THEN n - k + 1 ELSE 0)
        /\ \A i \in 1 .. n - k + 1 : SubSeq(s, k, n)[i] = s[k + i - 1]
    BY <1>1, <2>1, SubSeqProperties
  <2>3. n - k + 1 = (n + 1) - k /\ (~(k <= n) => (n + 1) - k = 0)
    BY <1>1
  <2> QED BY <2>2, <2>3 DEF RestOf, n
<1>3. RestOf(s, n + 1) = <<>>
  <2>1. n + 1 \in 1 .. n + 1 /\ (n + 1) - (n + 1) = 0
    BY <1>1
  <2> HIDE DEF n
  <2>2. Len(RestOf(s, n + 1)) = 0 /\ RestOf(s, n + 1) \in Seq(Blocks)
    BY <1>2, <2>1
  <2> QED BY <2>2, EmptySeq
<1>4. RestOf(s, 1) = s
  <2>1. 1 \in 1 .. n + 1 /\ (n + 1) - 1 = n /\ \A j \in 1 .. n : 1 + j - 1 = j
    BY <1>1
  <2>2. RestOf(s, 1) \in Seq(Blocks) /\ Len(RestOf(s, 1)) = Len(s)
        /\ \A j \in 1 .. Len(s) : RestOf(s, 1)[j] = s[j]
    BY <1>2, <2>1
  <2> QED BY <2>2, SeqEqual
<1>5. ASSUME NEW k \in 1 .. n PROVE <<s[k]>> \o RestOf(s, k + 1) = RestOf(s, k)
  <2> DEFINE a == RestOf(s, k + 1)
             b == RestOf(s, k)
             all == <<s[k]>> \o a
  <2>1. k + 1 \in 1 .. n + 1 /\ k \in 1 .. n + 1 /\ s[k] \in Blocks
    BY <1>1
  <2>2. /\ a \in Seq(Blocks) /\ Len(a) = (n + 1) - (k + 1)
        /\ \A j \in 1 .. (n + 1) - (k + 1) : a[j] = s[k + 1 + j - 1]
        /\ b \in Seq(Blocks) /\ Len(b) = (n + 1) - k
        /\ \A j \in 1 .. (n + 1) - k : b[j] = s[k + j - 1]
    BY <1>2, <2>1
  <2> HIDE DEF a, b
  <2>3. /\ all \in Seq(Blocks) /\ Len(all) = Len(a) + 1 /\ all[1] = s[k]
        /\ \A j \in 1 .. Len(a) : all[j + 1] = a[j]
    BY <2>1, <2>2, PutBefore
  <2> HIDE DEF all
  <2>4. Len(all) = Len(b)
    BY <1>1, <2>2, <2>3
  <2>5. ASSUME NEW j \in 1 .. Len(b) PROVE all[j] = b[j]
    <3>1. CASE j = 1
      <4>1. b[1] = s[k]
        BY <1>1, <2>2
      <4> QED BY <2>3, <3>1, <4>1
    <3>2. CASE j # 1
      <4> DEFINE i == j - 1
      <4>1. i \in 1 .. Len(a) /\ j = i + 1 /\ k + 1 + i - 1 = k + j - 1 /\ j \in 1 .. (n + 1) - k
            /\ i \in 1 .. (n + 1) - (k + 1)
        BY <1>1, <2>2, <3>2
      <4> HIDE DEF i, n
      <4>2. all[j] = a[i] /\ a[i] = s[k + 1 + i - 1] /\ b[j] = s[k + j - 1]
        BY <2>2, <2>3, <4>1
      <4> QED BY <4>1, <4>2
    <3> QED BY <3>1, <3>2
  <2>6. all = b
    BY <2>2, <2>3, <2>4, <2>5, SeqEqual
  <2> QED BY <2>6 DEF all, a, b
<1> QED BY <1>3, <1>4, <1>5

(* What List follows the links with.                                       *)
Follows(f) ==
    f = [p \in Blocks \cup {0} |-> IF p = 0 THEN <<>> ELSE <<p>> \o f[mem.next[p]]]

LEMMA FollowsList ==
    ASSUME NEW f, Follows(f), NEW head, NEW s \in Seq(Blocks), Linked(mem.next, head, s, {})
    PROVE  f[head] = s
<1> DEFINE n == Len(s)
           T == {j \in Nat : j <= n => f[Elem(s, (n + 1) - j)] = RestOf(s, (n + 1) - j)}
<1>1. /\ n \in Nat /\ head = Elem(s, 1)
      /\ \A k \in 1 .. n : mem.next[s[k]] = Elem(s, k + 1)
      /\ \A k \in 1 .. n : s[k] \in Blocks /\ s[k] # 0
  <2>1. \A k \in 1 .. n : s[k] \in Blocks
    OBVIOUS
  <2> QED BY <2>1 DEF Linked, Blocks
<1>2. f[0] = <<>> /\ \A p \in Blocks : p # 0 => f[p] = <<p>> \o f[mem.next[p]]
  BY DEF Follows
<1>3. 0 \in T
  <2>1. (n + 1) - 0 = n + 1 /\ Elem(s, n + 1) = 0
    BY <1>1 DEF Elem
  <2> QED BY <1>2, <2>1, Rests
<1>4. ASSUME NEW j \in Nat, j \in T PROVE j + 1 \in T
  <2> SUFFICES ASSUME j + 1 <= n
               PROVE  f[Elem(s, (n + 1) - (j + 1))] = RestOf(s, (n + 1) - (j + 1))
    OBVIOUS
  <2> DEFINE k == (n + 1) - (j + 1)
  <2>1. k \in 1 .. n /\ (n + 1) - j = k + 1
    BY <1>1
  <2>2. f[Elem(s, k + 1)] = RestOf(s, k + 1)
    BY <1>1, <1>4, <2>1
  <2> HIDE DEF k, T
  <2>3. Elem(s, k) = s[k]
    BY <2>1 DEF Elem
  <2>4. f[s[k]] = <<s[k]>> \o f[Elem(s, k + 1)]
    BY <1>1, <1>2, <2>1
  <2>5. <<s[k]>> \o RestOf(s, k + 1) = RestOf(s, k)
    BY <2>1, Rests
  <2>6. f[Elem(s, k)] = RestOf(s, k)
    BY <2>2, <2>3, <2>4, <2>5
  <2> QED BY <2>6 DEF k
<1>5. n \in T
  <2> HIDE DEF T
  <2> QED BY <1>1, <1>3, <1>4, Induction
<1>6. (n + 1) - n = 1 /\ n <= n
  BY <1>1
<1>7. f[Elem(s, 1)] = RestOf(s, 1)
  BY <1>5, <1>6
<1> QED BY <1>1, <1>7, Rests

(* Where a block is: on list s, as the k-th.                               *)
OnList(p, s, k) == k \in 1 .. Len(s) /\ s[k] = p

LEMMA OnOneList ==
    ASSUME NEW h \in Heaps, Listed(h, Blocks), NEW p \in Blocks
    PROVE  /\ \E s \in {h.free, h.used, h.fresh}, k \in Nat : OnList(p, s, k)
           /\ \A s, r \in {h.free, h.used, h.fresh} : \A j, k \in Nat :
                 OnList(p, s, j) /\ OnList(p, r, k) => s = r /\ j = k
<1>1. \A s \in {h.free, h.used, h.fresh} : s \in Seq(Blocks) /\ Once(s)
  BY FieldsOf DEF Listed
<1>2. \A s \in {h.free, h.used, h.fresh} :
         p \in ToSet(s) <=> \E k \in Nat : OnList(p, s, k)
  <2> SUFFICES ASSUME NEW s \in {h.free, h.used, h.fresh}
               PROVE  p \in ToSet(s) <=> \E k \in Nat : OnList(p, s, k)
    OBVIOUS
  <2>1. s \in Seq(Blocks)
    BY <1>1
  <2>2. p \in ToSet(s) <=> \E i \in 1 .. Len(s) : s[i] = p
    BY <2>1, SetOfElements
  <2> QED BY <2>2 DEF OnList
<1>3. \E s \in {h.free, h.used, h.fresh} : p \in ToSet(s)
  BY DEF Listed
<1>4. \A s, r \in {h.free, h.used, h.fresh} : p \in ToSet(s) /\ p \in ToSet(r) => s = r
  BY DEF Listed
<1>5. \A s \in {h.free, h.used, h.fresh} : \A j, k \in Nat :
         OnList(p, s, j) /\ OnList(p, s, k) => j = k
  BY <1>1 DEF OnList, Once
<1>6. \E s \in {h.free, h.used, h.fresh}, k \in Nat : OnList(p, s, k)
  BY <1>2, <1>3
<1>7. ASSUME NEW s \in {h.free, h.used, h.fresh}, NEW r \in {h.free, h.used, h.fresh},
             NEW j \in Nat, NEW k \in Nat, OnList(p, s, j), OnList(p, r, k)
      PROVE  s = r /\ j = k
  <2>1. p \in ToSet(s) /\ p \in ToSet(r)
    BY <1>2, <1>7
  <2>2. s = r
    BY <1>4, <2>1
  <2> QED BY <1>5, <1>7, <2>2
<1> QED BY <1>6, <1>7

(* What List computes of linked lists is the sequence.                     *)
LEMMA ListsOf ==
    ASSUME NEW h \in Heaps, Listed(h, Blocks), Chained(mem, h, {}),
           NEW s \in {h.free, h.used, h.fresh}, NEW head, Linked(mem.next, head, s, {})
    PROVE  List(head) = s
<1> DEFINE f[p \in Blocks \cup {0}] == IF p = 0 THEN <<>> ELSE <<p>> \o f[mem.next[p]]
           place(p) == CHOOSE w \in {h.free, h.used, h.fresh} \X Nat : OnList(p, w[1], w[2])
           rest(p) == IF p = 0 THEN <<>> ELSE RestOf(place(p)[1], place(p)[2])
           g == [p \in Blocks \cup {0} |-> rest(p)]
<1>1. \A r \in {h.free, h.used, h.fresh} : r \in Seq(Blocks)
  BY FieldsOf
<1>2. \A b \in Blocks : b # 0
  BY DEF Blocks
<1>3. ASSUME NEW r \in {h.free, h.used, h.fresh}, NEW k \in 1 .. Len(r)
      PROVE  rest(r[k]) = RestOf(r, k)
  <2>1. r[k] \in Blocks /\ k \in Nat /\ OnList(r[k], r, k)
    BY <1>1 DEF OnList
  <2>2. place(r[k]) \in {h.free, h.used, h.fresh} \X Nat
        /\ OnList(r[k], place(r[k])[1], place(r[k])[2])
    <3>1. <<r, k>> \in {h.free, h.used, h.fresh} \X Nat
      BY <2>1
    <3>2. \E w \in {h.free, h.used, h.fresh} \X Nat : OnList(r[k], w[1], w[2])
      BY <2>1, <3>1
    <3> QED BY <3>2
  <2> HIDE DEF place
  <2>3. place(r[k])[1] \in {h.free, h.used, h.fresh} /\ place(r[k])[2] \in Nat
    BY <2>2
  <2>4. place(r[k])[1] = r /\ place(r[k])[2] = k
    BY <2>1, <2>2, <2>3, OnOneList
  <2> QED BY <1>2, <2>1, <2>4
<1>4. rest(0) = <<>>
  OBVIOUS
<1>5. ASSUME NEW p \in Blocks PROVE mem.next[p] \in Blocks \cup {0}
        /\ rest(p) = <<p>> \o rest(mem.next[p])
  <2>1. PICK r \in {h.free, h.used, h.fresh}, k \in Nat : OnList(p, r, k)
    BY OnOneList
  <2>2. r \in Seq(Blocks) /\ k \in 1 .. Len(r) /\ r[k] = p
    BY <1>1, <2>1 DEF OnList
  <2>3. mem.next[p] = Elem(r, k + 1)
    BY <2>2 DEF Chained, Linked
  <2>4. rest(p) = RestOf(r, k)
    BY <1>3, <2>2
  <2>5. <<r[k]>> \o RestOf(r, k + 1) = RestOf(r, k)
    BY <2>2, Rests
  <2> HIDE DEF rest
  <2>6. rest(Elem(r, k + 1)) = RestOf(r, k + 1)
    <3>1. CASE k = Len(r)
      <4>1. Elem(r, k + 1) = 0
        BY <2>2, <3>1 DEF Elem
      <4> QED BY <1>4, <2>2, <3>1, <4>1, Rests
    <3>2. CASE k # Len(r)
      <4>1. k + 1 \in 1 .. Len(r) /\ Elem(r, k + 1) = r[k + 1]
        BY <2>2, <3>2 DEF Elem
      <4> QED BY <1>3, <4>1
    <3> QED BY <3>1, <3>2
  <2>7. Elem(r, k + 1) \in Blocks \cup {0}
    BY <2>2 DEF Elem
  <2> QED BY <2>2, <2>3, <2>4, <2>5, <2>6, <2>7
<1> HIDE DEF rest
<1>6. Follows(g)
  <2>1. \A p \in Blocks \cup {0} :
           rest(p) = IF p = 0 THEN <<>> ELSE <<p>> \o g[mem.next[p]]
    BY <1>4, <1>5
  <2> HIDE DEF g
  <2>2. g = [p \in Blocks \cup {0} |-> IF p = 0 THEN <<>> ELSE <<p>> \o g[mem.next[p]]]
    BY <2>1, Zenon DEF g
  <2> QED BY <2>2 DEF Follows
<1>7. f = CHOOSE x : Follows(x)
  BY DEF Follows
<1>8. Follows(f)
  <2> HIDE DEF f, g
  <2> QED BY <1>6, <1>7
<1>9. List(head) = f[head]
  BY DEF List, f
<1> HIDE DEF f
<1> QED BY <1>1, <1>8, <1>9, FollowsList

(* The memory forms the lists of a heap only if Lists is that heap.        *)
LEMMA ListsAre ==
    ASSUME NEW h \in Heaps, Listed(h, Blocks), Forms(mem, h, {})
    PROVE  Lists = h
<1>1. Chained(mem, h, {}) /\ mem.addr = h.addr /\ mem.size = h.size /\ mem.top = h.top
  BY DEF Forms
<1>2. List(mem.free) = h.free /\ List(mem.used) = h.used /\ List(mem.fresh) = h.fresh
  BY <1>1, ListsOf DEF Chained
<1>3. h = [free |-> h.free, used |-> h.used, fresh |-> h.fresh,
           addr |-> h.addr, size |-> h.size, top |-> h.top]
  BY DEF Heaps
<1> QED BY <1>1, <1>2, <1>3 DEF Lists

(* compact, on its way to final, is at the i-th free block of g.           *)
Compacting(g, i, final) ==
    \E h : /\ Good(h) /\ Compact(h) = final
           /\ \E n \in 0 .. Len(h.free) : Trace(h)[n] = [heap |-> g, i |-> i]

LEMMA CompactStarts ==
    ASSUME NEW h, Good(h)
    PROVE  Compacting(h, 1, Compact(h))
<1>1. Len(h.free) \in Nat /\ Trace(h)[0] = [heap |-> h, i |-> 1]
  BY Traced
<1>2. 0 \in 0 .. Len(h.free)
  BY <1>1
<1> QED BY <1>1, <1>2 DEF Compacting

LEMMA CompactState ==
    ASSUME NEW g, NEW i, NEW final, Compacting(g, i, final)
    PROVE  /\ Good(g) /\ g \in Heaps /\ g.free \in Seq(Blocks) /\ Len(g.free) \in Nat
           /\ i \in 1 .. Len(g.free) + 1
           /\ i = Len(g.free) + 1 => g = final
           /\ i # Len(g.free) + 1 =>
                IF Touches(g, i) THEN Compacting(Merge(g, i), i, final)
                ELSE Compacting(g, i + 1, final)
<1>1. PICK h : /\ Good(h) /\ Compact(h) = final
               /\ \E n \in 0 .. Len(h.free) : Trace(h)[n] = [heap |-> g, i |-> i]
  BY DEF Compacting
<1>2. PICK n \in 0 .. Len(h.free) : Trace(h)[n] = [heap |-> g, i |-> i]
  BY <1>1
<1> DEFINE N == Len(h.free)
           t == Trace(h)
<1>3. /\ N \in Nat /\ Compact(h) = t[N].heap
      /\ \A k \in 1 .. N : t[k] = Turn(t[k - 1])
      /\ \A k \in 0 .. N : t[k] \in Turns(h) /\ t[k].i - Len(t[k].heap.free) = 1 - N + k
  BY <1>1, Traced
<1>4. t[n] \in Turns(h) /\ i - Len(g.free) = 1 - N + n /\ t[n] = [heap |-> g, i |-> i]
  <2> HIDE DEF t, N
  <2>1. t[n] = [heap |-> g, i |-> i]
    BY <1>2 DEF t
  <2>2. n \in 0 .. N
    BY <1>2 DEF N
  <2>3. t[n] \in Turns(h) /\ t[n].i - Len(t[n].heap.free) = 1 - N + n
    BY <1>3, <2>2
  <2>4. t[n].i = i /\ t[n].heap = g
    BY <2>1
  <2> QED BY <2>1, <2>3, <2>4
<1>5. Good(g) /\ i \in Nat \ {0}
  BY <1>4 DEF Turns
<1>6. g \in Heaps /\ g.free \in Seq(Blocks) /\ Len(g.free) \in Nat
  BY <1>5, FieldsOf DEF Good
<1>7. n \in 0 .. N
  BY <1>2
<1> HIDE DEF t, N
<1>8. i \in 1 .. Len(g.free) + 1 /\ (i = Len(g.free) + 1 <=> n = N)
  BY <1>3, <1>4, <1>5, <1>6, <1>7
<1>9. ASSUME i = Len(g.free) + 1 PROVE g = final
  <2>1. n = N
    BY <1>8, <1>9
  <2> QED BY <1>1, <1>3, <1>4, <2>1
<1>10. ASSUME i # Len(g.free) + 1
       PROVE  IF Touches(g, i) THEN Compacting(Merge(g, i), i, final)
              ELSE Compacting(g, i + 1, final)
  <2>1. n + 1 \in 1 .. N /\ n + 1 \in 0 .. N /\ (n + 1) - 1 = n
    BY <1>3, <1>7, <1>8, <1>10
  <2>2. t[n + 1] = Turn(t[n])
    BY <1>3, <2>1
  <2>3. \A g2, j : t[n + 1] = [heap |-> g2, i |-> j] => Compacting(g2, j, final)
    BY <1>1, <2>1 DEF Compacting, t, N
  <2>4. CASE Touches(g, i)
    <3>1. t[n + 1] = [heap |-> Merge(g, i), i |-> i]
      BY <1>4, <2>2, <2>4 DEF Turn
    <3> QED BY <2>3, <2>4, <3>1
  <2>5. CASE ~Touches(g, i)
    <3>1. t[n + 1] = [heap |-> g, i |-> i + 1]
      BY <1>4, <2>2, <2>5 DEF Turn
    <3> QED BY <2>3, <2>5, <3>1
  <2> QED BY <2>4, <2>5
<1> QED BY <1>5, <1>6, <1>8, <1>9, <1>10

(* What the free blocks of a good heap are.                                *)
LEMMA FreeBlocks ==
    ASSUME NEW g, Good(g), NEW i \in 1 .. Len(g.free)
    PROVE  /\ g.free[i] \in Blocks /\ g.free[i] \in ToSet(g.free)
           /\ g.addr[g.free[i]] \in Nat /\ g.size[g.free[i]] \in Nat
           /\ End(g, g.free[i]) <= g.top /\ End(g, g.free[i]) \in Nat
           /\ Wrap(g.addr[g.free[i]] + g.size[g.free[i]]) = End(g, g.free[i])
           /\ \A j \in 1 .. Len(g.free) : g.free[j] = g.free[i] => j = i
<1> DEFINE b == g.free[i]
<1>1. g \in Heaps /\ Listed(g, Blocks) /\ Laid(g.addr, g.size, g.top, Live(g))
  BY DEF Good
<1>2. b \in Blocks /\ b \in ToSet(g.free) /\ g.free \in Seq(Blocks)
  BY <1>1, FieldsOf, SetOfElements
<1>3. g.addr[b] \in Nat /\ g.size[b] \in Nat /\ g.top \in Base .. Limit
  BY <1>1, <1>2, FieldsOf
<1>4. g.addr[b] + g.size[b] <= g.top
  BY <1>1, <1>2 DEF Laid, Live
<1>5. \A j \in 1 .. Len(g.free) : g.free[j] = b => j = i
  BY <1>1 DEF Listed, Once
<1> HIDE DEF b
<1>6. Wrap(g.addr[b] + g.size[b]) = g.addr[b] + g.size[b]
  <2> DEFINE x == g.addr[b] + g.size[b]
  <2>1. x \in Nat /\ x <= Limit
    BY <1>3, <1>4, ArenaAssumption
  <2> HIDE DEF x
  <2>2. x % W = x
    BY <2>1, ArenaAssumption
  <2> QED BY <2>2 DEF Wrap, x
<1> QED BY <1>2, <1>3, <1>4, <1>5, <1>6 DEF End, b

(* The fields of a merged heap.                                            *)
Merges(g, i, m) ==
    LET b == g.free[i]
        next == g.free[i + 1]
    IN  /\ m \in Heaps /\ i \in 1 .. Len(g.free) /\ i + 1 \in 1 .. Len(g.free)
        /\ b \in Blocks /\ next \in Blocks /\ b # next
        /\ g.addr[b] + g.size[b] = g.addr[next]
        /\ m.used = g.used /\ m.fresh = <<next>> \o g.fresh /\ m.top = g.top
        /\ m.free = RemoveAt(g.free, i + 1)
        /\ m.free \in Seq(Blocks) /\ Len(m.free) = Len(g.free) - 1
        /\ \A q \in 1 .. Len(g.free) - 1 : m.free[q] = IF q <= i THEN g.free[q] ELSE g.free[q + 1]
        /\ m.addr = [g.addr EXCEPT ![next] = 0]
        /\ \A x \in Blocks \ {b, next} : m.size[x] = g.size[x]
        /\ m.size[b] = g.size[b] + g.size[next] /\ m.size[next] = 0

LEMMA MergeFields ==
    ASSUME NEW g, Good(g), NEW i \in 1 .. Len(g.free), Touches(g, i), Good(Merge(g, i))
    PROVE  Merges(g, i, Merge(g, i))
<1> DEFINE b == g.free[i]
           next == g.free[i + 1]
           m == Merge(g, i)
           A2 == [g.addr EXCEPT ![next] = 0]
           Z2 == [g.size EXCEPT ![b] = g.size[b] + g.size[next], ![next] = 0]
           r == RemoveAt(g.free, i + 1)
           fresh2 == <<next>> \o g.fresh
<1>1. g \in Heaps /\ g.free \in Seq(Blocks) /\ Len(g.free) \in Nat /\ m \in Heaps
      /\ g.size \in [Blocks -> 0 .. Limit]
  BY FieldsOf DEF Good, Fields
<1>2. i + 1 \in 1 .. Len(g.free) /\ i + 1 # i /\ g.addr[b] + g.size[b] = g.addr[next]
  BY <1>1 DEF Touches, End
<1>3. b \in Blocks /\ next \in Blocks /\ b # next
  BY <1>2, FreeBlocks
<1>4. m = [g EXCEPT !.free = r, !.fresh = fresh2, !.addr = A2, !.size = Z2]
  BY DEF Merge
<1>5. r \in Seq(Blocks) /\ Len(r) = Len(g.free) - 1
      /\ \A q \in 1 .. Len(g.free) - 1 : r[q] = IF q < i + 1 THEN g.free[q] ELSE g.free[q + 1]
  BY <1>1, <1>2, RemoveAtValue
<1>6. /\ \A x \in Blocks \ {b, next} : Z2[x] = g.size[x]
      /\ Z2[b] = g.size[b] + g.size[next] /\ Z2[next] = 0
  <2> HIDE DEF b, next
  <2> QED BY <1>1, <1>3
<1>7. \A q \in 1 .. Len(g.free) - 1 : q < i + 1 <=> q <= i
  BY <1>1
<1> HIDE DEF m, r, fresh2, A2, Z2
<1>8. m.used = g.used /\ m.fresh = fresh2 /\ m.top = g.top /\ m.free = r /\ m.addr = A2
        /\ m.size = Z2
  BY <1>1, <1>4 DEF Heaps
<1>9. \A q \in 1 .. Len(g.free) - 1 : r[q] = IF q <= i THEN g.free[q] ELSE g.free[q + 1]
  BY <1>5, <1>7
<1> HIDE DEF b, next
<1>10. Merges(g, i, m)
  BY <1>1, <1>2, <1>3, <1>5, <1>6, <1>8, <1>9 DEF Merges, b, next, r, fresh2, A2
<1> QED BY <1>10 DEF m

(* From the i-th free block to the k-th, each touches the next.            *)
Run(g, i, k) ==
    /\ i \in 1 .. Len(g.free) /\ k \in i .. Len(g.free)
    /\ \A q \in i .. k - 1 : Touches(g, q)

(* When the first two of a run become one, the run ends where it did.      *)
LEMMA RunMerged ==
    ASSUME NEW g, Good(g), NEW i, NEW k, Run(g, i, k), k # i, ~Touches(g, k),
           NEW m, Merges(g, i, m)
    PROVE  /\ Run(m, i, k - 1) /\ ~Touches(m, k - 1)
           /\ m.free[i] = g.free[i] /\ End(m, m.free[k - 1]) = End(g, g.free[k])
           /\ Elem(m.free, i + 1) = Elem(g.free, i + 2)
           /\ Elem(m.free, k) = Elem(g.free, k + 1)
<1> DEFINE b == g.free[i]
           next == g.free[i + 1]
           n == Len(g.free)
<1>1. /\ i \in 1 .. n /\ k \in i .. n /\ n \in Nat /\ \A q \in i .. k - 1 : Touches(g, q)
      /\ i + 1 \in 1 .. n /\ Len(m.free) = n - 1
      /\ b # next /\ b \in Blocks /\ next \in Blocks
  BY FieldsOf DEF Run, Merges, Good
<1>2. /\ \A q \in 1 .. n - 1 : m.free[q] = IF q <= i THEN g.free[q] ELSE g.free[q + 1]
      /\ \A x \in Blocks \ {b, next} : m.size[x] = g.size[x]
      /\ m.size[b] = g.size[b] + g.size[next]
      /\ g.addr[b] + g.size[b] = g.addr[next]
      /\ m.addr = [g.addr EXCEPT ![next] = 0]
  BY DEF Merges
<1>3. \A x \in Blocks \ {next} : m.addr[x] = g.addr[x]
  <2>1. g.addr \in Fields
    BY FieldsOf DEF Good
  <2> HIDE DEF next
  <2> QED BY <1>2, <2>1 DEF Fields
<1>4. \A q \in 1 .. n : /\ g.free[q] \in Blocks
                        /\ g.free[q] = b => q = i
                        /\ g.free[q] = next => q = i + 1
  BY <1>1, FreeBlocks
<1>5. g.addr[b] \in Nat /\ g.size[b] \in Nat /\ g.size[next] \in Nat /\ g.addr[next] \in Nat
  BY <1>1, FreeBlocks
<1> HIDE DEF b, next
<1>6. ASSUME NEW q \in i .. n - 1 PROVE End(m, m.free[q]) = End(g, g.free[q + 1])
  <2>1. CASE q = i
    <3>1. m.free[q] = b /\ g.free[q + 1] = next
      BY <1>1, <1>2, <2>1 DEF b, next
    <3>2. m.addr[b] = g.addr[b] /\ m.size[b] = g.size[b] + g.size[next]
      BY <1>1, <1>2, <1>3
    <3>3. g.addr[b] + (g.size[b] + g.size[next]) = g.addr[next] + g.size[next]
      BY <1>2, <1>5
    <3> QED BY <3>1, <3>2, <3>3 DEF End
  <2>2. CASE q # i
    <3>1. q \in 1 .. n - 1 /\ ~(q <= i) /\ q + 1 \in 1 .. n /\ q + 1 # i /\ q + 1 # i + 1
      BY <1>1, <2>2
    <3>2. m.free[q] = g.free[q + 1] /\ g.free[q + 1] \in Blocks \ {b, next}
      BY <1>2, <1>4, <3>1
    <3> QED BY <1>2, <1>3, <3>2 DEF End
  <2> QED BY <2>1, <2>2
<1>7. ASSUME NEW q \in i + 1 .. n - 1 PROVE m.addr[m.free[q]] = g.addr[g.free[q + 1]]
  <2>1. q \in 1 .. n - 1 /\ ~(q <= i) /\ q + 1 \in 1 .. n /\ q + 1 # i + 1
    BY <1>1
  <2>2. m.free[q] = g.free[q + 1] /\ g.free[q + 1] \in Blocks \ {next}
    BY <1>2, <1>4, <2>1
  <2> QED BY <1>3, <2>2
<1>8. ASSUME NEW q \in i .. n - 1 PROVE Touches(m, q) <=> Touches(g, q + 1)
  <2>1. q < Len(m.free) <=> q + 1 < Len(g.free)
    BY <1>1 DEF n
  <2>2. CASE q < n - 1
    <3>1. q + 1 \in i + 1 .. n - 1
      BY <1>1, <2>2
    <3>2. m.addr[m.free[q + 1]] = g.addr[g.free[(q + 1) + 1]]
      BY <1>7, <3>1
    <3> QED BY <1>6, <2>1, <3>2 DEF Touches
  <2>3. CASE ~(q < n - 1)
    BY <1>1, <2>1, <2>3 DEF Touches
  <2> QED BY <2>2, <2>3
<1>9. k - 1 \in i .. n - 1 /\ i \in 1 .. n - 1 /\ k - 1 + 1 = k
        /\ \A q \in i .. k - 1 - 1 : q + 1 \in i .. k - 1 /\ q \in i .. n - 1
  BY <1>1
<1>10. Run(m, i, k - 1)
  <2>1. i \in 1 .. Len(m.free) /\ k - 1 \in i .. Len(m.free)
    BY <1>1, <1>9
  <2>2. \A q \in i .. k - 1 - 1 : Touches(m, q)
    BY <1>1, <1>8, <1>9
  <2> QED BY <2>1, <2>2 DEF Run
<1>11. ~Touches(m, k - 1) /\ End(m, m.free[k - 1]) = End(g, g.free[k])
  BY <1>6, <1>8, <1>9
<1>12. m.free[i] = g.free[i]
  BY <1>1, <1>2, <1>9
<1>13. \A q \in i + 1 .. n : Elem(m.free, q) = Elem(g.free, q + 1)
  <2> SUFFICES ASSUME NEW q \in i + 1 .. n PROVE Elem(m.free, q) = Elem(g.free, q + 1)
    OBVIOUS
  <2>1. CASE q = n
    BY <1>1, <2>1 DEF Elem, n
  <2>2. CASE q # n
    <3>1. q \in 1 .. n - 1 /\ ~(q <= i) /\ q + 1 \in 1 .. n
      BY <1>1, <2>2
    <3> QED BY <1>1, <1>2, <3>1 DEF Elem, n
  <2> QED BY <2>1, <2>2
<1>14. i + 1 \in i + 1 .. n /\ k \in i + 1 .. n /\ i + 1 + 1 = i + 2
  BY <1>1
<1>15. Elem(m.free, i + 1) = Elem(g.free, i + 1 + 1) /\ Elem(m.free, k) = Elem(g.free, k + 1)
  BY <1>13, <1>14
<1> QED BY <1>10, <1>11, <1>12, <1>14, <1>15

-----------------------------------------------------------------------------
(* What the statements of mem.c store, and what that makes of the lists.   *)

(* What a statement may assume of the memory it writes to.                 *)
Stored(m) ==
    /\ m = [free |-> m.free, used |-> m.used, fresh |-> m.fresh, top |-> m.top,
            next |-> m.next, addr |-> m.addr, size |-> m.size]
    /\ m.next \in Links

SameHeads(m, w) == w.free = m.free /\ w.used = m.used /\ w.fresh = m.fresh
SameFields(m, w) == w.addr = m.addr /\ w.size = m.size /\ w.top = m.top

(* The statements m.next[x] = v, m.free = v and the like make w of m.      *)
LinkStored(m, w, x, v) ==
    /\ Stored(w) /\ SameHeads(m, w) /\ SameFields(m, w)
    /\ w.next = [m.next EXCEPT ![x] = v] /\ w.next[x] = v
FreeStored(m, w, v) ==
    /\ Stored(w) /\ SameFields(m, w) /\ w.next = m.next
    /\ w.free = v /\ w.used = m.used /\ w.fresh = m.fresh
UsedStored(m, w, v) ==
    /\ Stored(w) /\ SameFields(m, w) /\ w.next = m.next
    /\ w.free = m.free /\ w.used = v /\ w.fresh = m.fresh
FreshStored(m, w, v) ==
    /\ Stored(w) /\ SameFields(m, w) /\ w.next = m.next
    /\ w.free = m.free /\ w.used = m.used /\ w.fresh = v

LEMMA StoreLink ==
    ASSUME NEW m, Stored(m), NEW x \in Blocks, NEW v \in Nat
    PROVE  LinkStored(m, [m EXCEPT !.next[x] = v], x, v)
<1> DEFINE w == [m EXCEPT !.next[x] = v]
           next2 == [m.next EXCEPT ![x] = v]
<1>1. next2 \in Links /\ next2[x] = v
  BY DEF Stored, Links
<1> HIDE DEF next2
<1>2. w = [free |-> m.free, used |-> m.used, fresh |-> m.fresh, top |-> m.top,
           next |-> next2, addr |-> m.addr, size |-> m.size]
  <2>1. w = [m EXCEPT !.next = next2]
    BY DEF next2
  <2> QED BY <2>1 DEF Stored
<1> HIDE DEF w
<1>3. Stored(w) /\ SameHeads(m, w) /\ SameFields(m, w) /\ w.next = next2
  BY <1>1, <1>2 DEF Stored, SameHeads, SameFields
<1> QED BY <1>1, <1>3 DEF w, next2, LinkStored

LEMMA StoreHead ==
    ASSUME NEW m, Stored(m), NEW v
    PROVE  /\ FreeStored(m, [m EXCEPT !["free"] = v], v)
           /\ UsedStored(m, [m EXCEPT !["used"] = v], v)
           /\ UsedStored(m, [m EXCEPT !.used = v], v)
           /\ FreshStored(m, [m EXCEPT !.fresh = v], v)
<1>1. [m EXCEPT !["free"] = v] = [m EXCEPT !.free = v]
  OBVIOUS
<1>2. [m EXCEPT !["used"] = v] = [m EXCEPT !.used = v]
  OBVIOUS
<1> DEFINE w1 == [m EXCEPT !.free = v]
           w2 == [m EXCEPT !.used = v]
           w3 == [m EXCEPT !.fresh = v]
<1>3. w1 = [free |-> v, used |-> m.used, fresh |-> m.fresh, top |-> m.top,
            next |-> m.next, addr |-> m.addr, size |-> m.size]
  BY DEF Stored
<1>4. w2 = [free |-> m.free, used |-> v, fresh |-> m.fresh, top |-> m.top,
            next |-> m.next, addr |-> m.addr, size |-> m.size]
  BY DEF Stored
<1>5. w3 = [free |-> m.free, used |-> m.used, fresh |-> v, top |-> m.top,
            next |-> m.next, addr |-> m.addr, size |-> m.size]
  BY DEF Stored
<1> HIDE DEF w1, w2, w3
<1>6. FreeStored(m, w1, v)
  BY <1>3 DEF FreeStored, Stored, SameFields
<1>7. UsedStored(m, w2, v)
  BY <1>4 DEF UsedStored, Stored, SameFields
<1>8. FreshStored(m, w3, v)
  BY <1>5 DEF FreshStored, Stored, SameFields
<1> QED BY <1>1, <1>2, <1>6, <1>7, <1>8 DEF w1, w2, w3

(* No descriptor is on two lists, or twice on one.                         *)
Chains(g) ==
    /\ g.free \in Seq(Blocks) /\ g.used \in Seq(Blocks) /\ g.fresh \in Seq(Blocks)
    /\ Once(g.free) /\ Once(g.used) /\ Once(g.fresh)
    /\ \A k \in 1 .. Len(g.free) :
          g.free[k] \notin ToSet(g.used) /\ g.free[k] \notin ToSet(g.fresh)
    /\ \A k \in 1 .. Len(g.used) :
          g.used[k] \notin ToSet(g.free) /\ g.used[k] \notin ToSet(g.fresh)
    /\ \A k \in 1 .. Len(g.fresh) :
          g.fresh[k] \notin ToSet(g.free) /\ g.fresh[k] \notin ToSet(g.used)

OffLists(g, b) ==
    b \in Blocks /\ b \notin ToSet(g.free) /\ b \notin ToSet(g.used) /\ b \notin ToSet(g.fresh)

LEMMA ListedChains ==
    ASSUME NEW g, g.free \in Seq(Blocks), g.used \in Seq(Blocks), g.fresh \in Seq(Blocks),
           NEW B, Listed(g, B)
    PROVE  Chains(g) /\ \A b \in Blocks \ B : OffLists(g, b)
<1>1. /\ \A k \in 1 .. Len(g.free) : g.free[k] \in ToSet(g.free)
      /\ \A k \in 1 .. Len(g.used) : g.used[k] \in ToSet(g.used)
      /\ \A k \in 1 .. Len(g.fresh) : g.fresh[k] \in ToSet(g.fresh)
  BY SetOfElements
<1> QED BY <1>1 DEF Chains, OffLists, Listed

(* *head = q, or prev->next = q: the block after prev is unlinked...       *)
LEMMA FreeUnlinked ==
    ASSUME NEW g, Chains(g), NEW m, Stored(m), Forms(m, g, {}), NEW i \in 1 .. Len(g.free)
    PROVE  LET w == Link(m, "free", Elem(g.free, i - 1), m.next[g.free[i]])
               u == Arena(RemoveAt(g.free, i), g.used, g.fresh, g.addr, g.size, g.top)
           IN  Stored(w) /\ Forms(w, u, {})
<1> DEFINE s == g.free
           v == m.next[s[i]]
           w == Link(m, "free", Elem(s, i - 1), v)
           r == RemoveAt(s, i)
           u == Arena(r, g.used, g.fresh, g.addr, g.size, g.top)
<1> SUFFICES Stored(w) /\ Forms(w, u, {})
  OBVIOUS
<1>1. /\ Linked(m.next, m.free, s, {}) /\ Linked(m.next, m.used, g.used, {})
      /\ Linked(m.next, m.fresh, g.fresh, {})
      /\ m.addr = g.addr /\ m.size = g.size /\ m.top = g.top
  BY DEF Forms, Chained
<1>2. /\ s \in Seq(Blocks) /\ g.used \in Seq(Blocks) /\ g.fresh \in Seq(Blocks) /\ Once(s)
      /\ m.next \in Links /\ Len(s) \in Nat /\ \A k \in 1 .. Len(s) : s[k] \in Blocks
  BY DEF Chains, Stored
<1>3. /\ u.free = r /\ u.used = g.used /\ u.fresh = g.fresh
      /\ u.addr = g.addr /\ u.size = g.size /\ u.top = g.top
  BY DEF Arena
<1>4. v \in Nat
  BY <1>2 DEF Links
<1> HIDE DEF u, r, v
<1>5. CASE i = 1
  <2>1. Elem(s, i - 1) = 0
    BY <1>5 DEF Elem
  <2>2. w = [m EXCEPT !["free"] = v]
    BY <2>1 DEF Link
  <2>3. FreeStored(m, w, v)
    BY <2>2, StoreHead
  <2>4. Linked(w.next, w.free, r, {})
    BY <1>1, <1>2, <1>5, <2>3, LinkedRemoved DEF FreeStored, r, v
  <2> QED BY <1>1, <1>3, <2>3, <2>4 DEF FreeStored, Forms, Chained, SameFields
<1>6. CASE i # 1
  <2> DEFINE x == s[i - 1]
  <2>1. i - 1 \in 1 .. Len(s) /\ x \in Blocks /\ x # 0
    BY <1>2, <1>6 DEF Blocks
  <2>2. Elem(s, i - 1) = x
    BY <2>1 DEF Elem
  <2>3. x \notin ToSet(g.used) /\ x \notin ToSet(g.fresh)
    BY <2>1 DEF Chains
  <2> HIDE DEF x
  <2>4. w = [m EXCEPT !.next[x] = v]
    BY <2>1, <2>2 DEF Link
  <2>5. LinkStored(m, w, x, v)
    BY <1>4, <2>1, <2>4, StoreLink
  <2>6. Linked(w.next, w.free, r, {})
    BY <1>1, <1>2, <1>6, <2>5, LinkedRemoved DEF LinkStored, SameHeads, r, v, x
  <2>7. Linked(w.next, w.used, g.used, {}) /\ Linked(w.next, w.fresh, g.fresh, {})
    <3>1. /\ m.next \in Links /\ w.next = [m.next EXCEPT ![x] = v]
          /\ w.used = m.used /\ w.fresh = m.fresh
      BY <1>2, <2>5 DEF LinkStored, SameHeads
    <3>2. /\ g.used \in Seq(Blocks) /\ Linked(m.next, m.used, g.used, {})
          /\ g.fresh \in Seq(Blocks) /\ Linked(m.next, m.fresh, g.fresh, {})
      BY <1>1, <1>2
    <3>3. ASSUME NEW q \in Seq(Blocks), x \notin ToSet(q), NEW head, Linked(m.next, head, q, {})
          PROVE  Linked(w.next, head, q, {})
      <4>1. \A k \in 1 .. Len(q) : q[k] \in Blocks /\ q[k] # x
        BY <3>3, SetOfElements
      <4>2. \A k \in 1 .. Len(q) : w.next[q[k]] = m.next[q[k]]
        BY <3>1, <4>1 DEF Links
      <4> QED BY <3>3, <4>2 DEF Linked
    <3> QED BY <2>3, <3>1, <3>2, <3>3
  <2> QED BY <1>1, <1>3, <2>5, <2>6, <2>7 DEF LinkStored, Forms, Chained, SameFields
<1> QED BY <1>5, <1>6

LEMMA UsedUnlinked ==
    ASSUME NEW g, Chains(g), NEW m, Stored(m), Forms(m, g, {}), NEW i \in 1 .. Len(g.used)
    PROVE  LET w == Link(m, "used", Elem(g.used, i - 1), m.next[g.used[i]])
               u == Arena(g.free, RemoveAt(g.used, i), g.fresh, g.addr, g.size, g.top)
           IN  Stored(w) /\ Forms(w, u, {})
<1> DEFINE s == g.used
           v == m.next[s[i]]
           w == Link(m, "used", Elem(s, i - 1), v)
           r == RemoveAt(s, i)
           u == Arena(g.free, r, g.fresh, g.addr, g.size, g.top)
<1> SUFFICES Stored(w) /\ Forms(w, u, {})
  OBVIOUS
<1>1. /\ Linked(m.next, m.used, s, {}) /\ Linked(m.next, m.free, g.free, {})
      /\ Linked(m.next, m.fresh, g.fresh, {})
      /\ m.addr = g.addr /\ m.size = g.size /\ m.top = g.top
  BY DEF Forms, Chained
<1>2. /\ s \in Seq(Blocks) /\ g.free \in Seq(Blocks) /\ g.fresh \in Seq(Blocks) /\ Once(s)
      /\ m.next \in Links /\ Len(s) \in Nat /\ \A k \in 1 .. Len(s) : s[k] \in Blocks
  BY DEF Chains, Stored
<1>3. /\ u.used = r /\ u.free = g.free /\ u.fresh = g.fresh
      /\ u.addr = g.addr /\ u.size = g.size /\ u.top = g.top
  BY DEF Arena
<1>4. v \in Nat
  BY <1>2 DEF Links
<1> HIDE DEF u, r, v
<1>5. CASE i = 1
  <2>1. Elem(s, i - 1) = 0
    BY <1>5 DEF Elem
  <2>2. w = [m EXCEPT !["used"] = v]
    BY <2>1 DEF Link
  <2>3. UsedStored(m, w, v)
    BY <2>2, StoreHead
  <2>4. Linked(w.next, w.used, r, {})
    BY <1>1, <1>2, <1>5, <2>3, LinkedRemoved DEF UsedStored, r, v
  <2> QED BY <1>1, <1>3, <2>3, <2>4 DEF UsedStored, Forms, Chained, SameFields
<1>6. CASE i # 1
  <2> DEFINE x == s[i - 1]
  <2>1. i - 1 \in 1 .. Len(s) /\ x \in Blocks /\ x # 0
    BY <1>2, <1>6 DEF Blocks
  <2>2. Elem(s, i - 1) = x
    BY <2>1 DEF Elem
  <2>3. x \notin ToSet(g.free) /\ x \notin ToSet(g.fresh)
    BY <2>1 DEF Chains
  <2> HIDE DEF x
  <2>4. w = [m EXCEPT !.next[x] = v]
    BY <2>1, <2>2 DEF Link
  <2>5. LinkStored(m, w, x, v)
    BY <1>4, <2>1, <2>4, StoreLink
  <2>6. Linked(w.next, w.used, r, {})
    BY <1>1, <1>2, <1>6, <2>5, LinkedRemoved DEF LinkStored, SameHeads, r, v, x
  <2>7. Linked(w.next, w.free, g.free, {}) /\ Linked(w.next, w.fresh, g.fresh, {})
    <3>1. /\ m.next \in Links /\ w.next = [m.next EXCEPT ![x] = v]
          /\ w.free = m.free /\ w.fresh = m.fresh
      BY <1>2, <2>5 DEF LinkStored, SameHeads
    <3>2. /\ g.free \in Seq(Blocks) /\ Linked(m.next, m.free, g.free, {})
          /\ g.fresh \in Seq(Blocks) /\ Linked(m.next, m.fresh, g.fresh, {})
      BY <1>1, <1>2
    <3>3. ASSUME NEW q \in Seq(Blocks), x \notin ToSet(q), NEW head, Linked(m.next, head, q, {})
          PROVE  Linked(w.next, head, q, {})
      <4>1. \A k \in 1 .. Len(q) : q[k] \in Blocks /\ q[k] # x
        BY <3>3, SetOfElements
      <4>2. \A k \in 1 .. Len(q) : w.next[q[k]] = m.next[q[k]]
        BY <3>1, <4>1 DEF Links
      <4> QED BY <3>3, <4>2 DEF Linked
    <3> QED BY <2>3, <3>1, <3>2, <3>3
  <2> QED BY <1>1, <1>3, <2>5, <2>6, <2>7 DEF LinkStored, Forms, Chained, SameFields
<1> QED BY <1>5, <1>6

(* ... a block that is on no list is led to the used ones...               *)
LEMMA UsedPushed ==
    ASSUME NEW g, Chains(g), NEW m, Stored(m), Forms(m, g, {}), NEW b, OffLists(g, b)
    PROVE  LET w == [m EXCEPT !.next[b] = m.used]
           IN  Stored(w) /\ Forms(w, g, {}) /\ w.next[b] = w.used
<1> DEFINE v == m.used
           w == [m EXCEPT !.next[b] = v]
<1> SUFFICES Stored(w) /\ Forms(w, g, {}) /\ w.next[b] = w.used
  OBVIOUS
<1>1. /\ Linked(m.next, m.free, g.free, {}) /\ Linked(m.next, m.used, g.used, {})
      /\ Linked(m.next, m.fresh, g.fresh, {})
      /\ m.addr = g.addr /\ m.size = g.size /\ m.top = g.top
  BY DEF Forms, Chained
<1>2. /\ g.free \in Seq(Blocks) /\ g.used \in Seq(Blocks) /\ g.fresh \in Seq(Blocks)
      /\ m.next \in Links /\ b \in Blocks
  BY DEF Chains, Stored, OffLists
<1>3. v \in Nat
  BY <1>1, <1>2, ElemValue DEF Linked
<1> HIDE DEF v
<1>4. LinkStored(m, w, b, v)
  BY <1>2, <1>3, StoreLink
<1> HIDE DEF w
<1>5. /\ Linked(w.next, m.free, g.free, {}) /\ Linked(w.next, m.used, g.used, {})
      /\ Linked(w.next, m.fresh, g.fresh, {})
  <2>1. w.next = [m.next EXCEPT ![b] = v]
    BY <1>4 DEF LinkStored
  <2>2. b \notin ToSet(g.free) /\ b \notin ToSet(g.used) /\ b \notin ToSet(g.fresh)
    BY DEF OffLists
  <2>3. Linked(w.next, m.free, g.free, {})
    BY <1>1, <1>2, <2>1, <2>2, LinkedElsewhere
  <2>4. Linked(w.next, m.used, g.used, {})
    BY <1>1, <1>2, <2>1, <2>2, LinkedElsewhere
  <2>5. Linked(w.next, m.fresh, g.fresh, {})
    BY <1>1, <1>2, <2>1, <2>2, LinkedElsewhere
  <2> QED BY <2>3, <2>4, <2>5
<1> QED BY <1>1, <1>4, <1>5 DEF LinkStored, Forms, Chained, SameFields, SameHeads, v

(* ... and becomes the first of them.                                      *)
LEMMA UsedHead ==
    ASSUME NEW g, g.used \in Seq(Blocks), NEW m, Stored(m), Forms(m, g, {}), NEW b \in Blocks,
           m.next[b] = m.used
    PROVE  LET w == [m EXCEPT !.used = b]
               u == Arena(g.free, <<b>> \o g.used, g.fresh, g.addr, g.size, g.top)
           IN  Stored(w) /\ Forms(w, u, {})
<1> DEFINE w == [m EXCEPT !.used = b]
           r == <<b>> \o g.used
           u == Arena(g.free, r, g.fresh, g.addr, g.size, g.top)
<1> SUFFICES Stored(w) /\ Forms(w, u, {})
  OBVIOUS
<1>1. UsedStored(m, w, b)
  BY StoreHead
<1>2. Linked(m.next, b, r, {})
  BY LinkedPushed DEF Forms, Chained
<1> HIDE DEF w, r
<1>3. /\ u.used = r /\ u.free = g.free /\ u.fresh = g.fresh
      /\ u.addr = g.addr /\ u.size = g.size /\ u.top = g.top
  BY DEF Arena
<1> HIDE DEF u
<1> QED BY <1>1, <1>2, <1>3 DEF UsedStored, Forms, Chained, SameFields

(* The first fresh block is taken off its list.                            *)
LEMMA FreshTaken ==
    ASSUME NEW g, Chains(g), g.fresh # <<>>, NEW m, Stored(m), Forms(m, g, {})
    PROVE  LET w == [m EXCEPT !.fresh = m.next[Head(g.fresh)]]
               u == Arena(g.free, g.used, Tail(g.fresh), g.addr, g.size, g.top)
           IN  Stored(w) /\ Forms(w, u, {})
<1> DEFINE v == m.next[Head(g.fresh)]
           w == [m EXCEPT !.fresh = v]
           r == Tail(g.fresh)
           u == Arena(g.free, g.used, r, g.addr, g.size, g.top)
<1> SUFFICES Stored(w) /\ Forms(w, u, {})
  OBVIOUS
<1>1. Linked(m.next, m.fresh, g.fresh, {}) /\ g.fresh \in Seq(Blocks)
  BY DEF Forms, Chained, Chains
<1>2. Linked(m.next, v, r, {})
  <2> DEFINE f == g.fresh
             none == {}
  <2>1. f # <<>> /\ f \in Seq(Blocks) /\ Linked(m.next, m.fresh, f, none) /\ m.fresh \notin none
    BY <1>1
  <2> HIDE DEF f, none
  <2>2. /\ m.fresh = Head(f) /\ m.next[m.fresh] = Elem(Tail(f), 1)
        /\ Linked(m.next, Elem(Tail(f), 1), Tail(f), none)
    BY <2>1, LinkedTail
  <2> QED BY <2>2 DEF f, none
<1> HIDE DEF v
<1>3. FreshStored(m, w, v)
  BY StoreHead
<1> HIDE DEF w, r
<1>4. /\ u.used = g.used /\ u.free = g.free /\ u.fresh = r
      /\ u.addr = g.addr /\ u.size = g.size /\ u.top = g.top
  BY DEF Arena
<1> HIDE DEF u
<1> QED BY <1>2, <1>3, <1>4 DEF FreshStored, Forms, Chained, SameFields

(* Statements that only set a block's fields, or top.                      *)
Unmoved(m, w) == Stored(w) /\ SameHeads(m, w) /\ w.next = m.next

SizeStored(m, w, b, z) ==
    Unmoved(m, w) /\ w.addr = m.addr /\ w.top = m.top /\ w.size = [m.size EXCEPT ![b] = z]
TopStored(m, w, z) ==
    Unmoved(m, w) /\ w.addr = m.addr /\ w.top = z /\ w.size = m.size
FieldsStored(m, w, b, a, z) ==
    /\ Unmoved(m, w) /\ w.addr = [m.addr EXCEPT ![b] = a] /\ w.top = m.top
    /\ w.size = [m.size EXCEPT ![b] = z]

LEMMA StoreFields ==
    ASSUME NEW m, Stored(m), NEW b, NEW a, NEW z
    PROVE  /\ SizeStored(m, [m EXCEPT !.size[b] = z], b, z)
           /\ TopStored(m, [m EXCEPT !.top = z], z)
           /\ FieldsStored(m, [m EXCEPT !.addr[b] = a, !.size[b] = z], b, a, z)
<1> DEFINE addr2 == [m.addr EXCEPT ![b] = a]
           size2 == [m.size EXCEPT ![b] = z]
           w1 == [m EXCEPT !.size[b] = z]
           w2 == [m EXCEPT !.top = z]
           w3 == [m EXCEPT !.addr[b] = a, !.size[b] = z]
<1>1. w1 = [m EXCEPT !.size = size2]
  OBVIOUS
<1>2. w3 = [m EXCEPT !.addr = addr2, !.size = size2]
  OBVIOUS
<1> HIDE DEF addr2, size2, w1, w3
<1>3. w1 = [free |-> m.free, used |-> m.used, fresh |-> m.fresh, top |-> m.top,
            next |-> m.next, addr |-> m.addr, size |-> size2]
  BY <1>1 DEF Stored
<1>4. w2 = [free |-> m.free, used |-> m.used, fresh |-> m.fresh, top |-> z,
            next |-> m.next, addr |-> m.addr, size |-> m.size]
  BY DEF Stored
<1>5. w3 = [free |-> m.free, used |-> m.used, fresh |-> m.fresh, top |-> m.top,
            next |-> m.next, addr |-> addr2, size |-> size2]
  BY <1>2 DEF Stored
<1> HIDE DEF w1, w2, w3
<1>6. SizeStored(m, w1, b, z)
  BY <1>3 DEF SizeStored, Unmoved, Stored, SameHeads, size2
<1>7. TopStored(m, w2, z)
  BY <1>4 DEF TopStored, Unmoved, Stored, SameHeads
<1>8. FieldsStored(m, w3, b, a, z)
  BY <1>5 DEF FieldsStored, Unmoved, Stored, SameHeads, addr2, size2
<1> QED BY <1>6, <1>7, <1>8 DEF w1, w2, w3

LEMMA ChainedUnmoved ==
    ASSUME NEW m, NEW w, Unmoved(m, w), NEW g, NEW but, Chained(m, g, but),
           NEW u, u.free = g.free, u.used = g.used, u.fresh = g.fresh
    PROVE  Chained(w, u, but)
BY DEF Chained, Unmoved, SameHeads

LEMMA SizeSet ==
    ASSUME NEW g, NEW m, Stored(m), Forms(m, g, {}), NEW b, NEW z
    PROVE  LET w == [m EXCEPT !.size[b] = z]
               u == Arena(g.free, g.used, g.fresh, g.addr, [g.size EXCEPT ![b] = z], g.top)
           IN  Stored(w) /\ Forms(w, u, {})
<1> DEFINE w == [m EXCEPT !.size[b] = z]
           u == Arena(g.free, g.used, g.fresh, g.addr, [g.size EXCEPT ![b] = z], g.top)
<1> SUFFICES Stored(w) /\ Forms(w, u, {})
  OBVIOUS
<1>1. SizeStored(m, w, b, z)
  BY StoreFields
<1> HIDE DEF w
<1>2. /\ u.free = g.free /\ u.used = g.used /\ u.fresh = g.fresh
      /\ u.addr = g.addr /\ u.size = [g.size EXCEPT ![b] = z] /\ u.top = g.top
  BY DEF Arena
<1> HIDE DEF u
<1>3. Chained(w, u, {})
  BY <1>1, <1>2, ChainedUnmoved DEF Forms, SizeStored
<1> QED BY <1>1, <1>2, <1>3 DEF Forms, Unmoved, SizeStored

LEMMA TopSet ==
    ASSUME NEW g, NEW m, Stored(m), Forms(m, g, {}), NEW z
    PROVE  LET w == [m EXCEPT !.top = z]
               u == Arena(g.free, g.used, g.fresh, g.addr, g.size, z)
           IN  Stored(w) /\ Forms(w, u, {})
<1> DEFINE w == [m EXCEPT !.top = z]
           u == Arena(g.free, g.used, g.fresh, g.addr, g.size, z)
<1> SUFFICES Stored(w) /\ Forms(w, u, {})
  OBVIOUS
<1>1. TopStored(m, w, z)
  BY StoreFields
<1> HIDE DEF w
<1>2. /\ u.free = g.free /\ u.used = g.used /\ u.fresh = g.fresh
      /\ u.addr = g.addr /\ u.size = g.size /\ u.top = z
  BY DEF Arena
<1> HIDE DEF u
<1>3. Chained(w, u, {})
  BY <1>1, <1>2, ChainedUnmoved DEF Forms, TopStored
<1> QED BY <1>1, <1>2, <1>3 DEF Forms, Unmoved, TopStored

LEMMA FieldsSet ==
    ASSUME NEW g, NEW m, Stored(m), Forms(m, g, {}), NEW b, NEW a, NEW z
    PROVE  LET w == [m EXCEPT !.addr[b] = a, !.size[b] = z]
               u == Arena(g.free, g.used, g.fresh, [g.addr EXCEPT ![b] = a],
                          [g.size EXCEPT ![b] = z], g.top)
           IN  Stored(w) /\ Forms(w, u, {})
<1> DEFINE w == [m EXCEPT !.addr[b] = a, !.size[b] = z]
           u == Arena(g.free, g.used, g.fresh, [g.addr EXCEPT ![b] = a],
                      [g.size EXCEPT ![b] = z], g.top)
<1> SUFFICES Stored(w) /\ Forms(w, u, {})
  OBVIOUS
<1>1. FieldsStored(m, w, b, a, z)
  BY StoreFields
<1> HIDE DEF w
<1>2. /\ u.free = g.free /\ u.used = g.used /\ u.fresh = g.fresh
      /\ u.addr = [g.addr EXCEPT ![b] = a] /\ u.size = [g.size EXCEPT ![b] = z] /\ u.top = g.top
  BY DEF Arena
<1> HIDE DEF u
<1>3. Chained(w, u, {})
  BY <1>1, <1>2, ChainedUnmoved DEF Forms, FieldsStored
<1> QED BY <1>1, <1>2, <1>3 DEF Forms, Unmoved, FieldsStored

(* A new block's fields are set, and it is led to the used ones.           *)
NewStored(m, g, b, a, z, w) ==
    /\ Stored(w) /\ w.next[b] = w.used
    /\ Forms(w, Arena(g.free, g.used, g.fresh, [g.addr EXCEPT ![b] = a],
                      [g.size EXCEPT ![b] = z], g.top), {})

LEMMA NewSet ==
    ASSUME NEW g, Chains(g), NEW m, Stored(m), Forms(m, g, {}), NEW b, OffLists(g, b),
           NEW a, NEW z
    PROVE  NewStored(m, g, b, a, z, [m EXCEPT !.addr[b] = a, !.size[b] = z, !.next[b] = m.used])
<1> DEFINE v == m.used
           w == [m EXCEPT !.addr[b] = a, !.size[b] = z, !.next[b] = v]
           x == [m EXCEPT !.next[b] = v]
           y == [x EXCEPT !.addr[b] = a, !.size[b] = z]
           u == Arena(g.free, g.used, g.fresh, [g.addr EXCEPT ![b] = a],
                      [g.size EXCEPT ![b] = z], g.top)
<1> SUFFICES Stored(w) /\ Forms(w, u, {}) /\ w.next[b] = w.used
  BY DEF NewStored
<1>1. Stored(x) /\ Forms(x, g, {}) /\ x.next[b] = x.used
  BY UsedPushed
<1>2. w = y
  <2> DEFINE addr2 == [m.addr EXCEPT ![b] = a]
             size2 == [m.size EXCEPT ![b] = z]
             next2 == [m.next EXCEPT ![b] = v]
  <2>1. w = [m EXCEPT !.addr = addr2, !.size = size2, !.next = next2]
    OBVIOUS
  <2>2. x = [m EXCEPT !.next = next2]
    OBVIOUS
  <2> HIDE DEF next2, v
  <2>3. x = [free |-> m.free, used |-> m.used, fresh |-> m.fresh, top |-> m.top,
             next |-> next2, addr |-> m.addr, size |-> m.size]
    BY <2>2 DEF Stored
  <2> HIDE DEF x
  <2>4. y = [x EXCEPT !.addr = addr2, !.size = size2]
    BY <2>3
  <2> HIDE DEF addr2, size2, w, y
  <2>5. w = [free |-> m.free, used |-> m.used, fresh |-> m.fresh, top |-> m.top,
             next |-> next2, addr |-> addr2, size |-> size2]
    BY <2>1 DEF Stored
  <2>6. y = [free |-> m.free, used |-> m.used, fresh |-> m.fresh, top |-> m.top,
             next |-> next2, addr |-> addr2, size |-> size2]
    BY <2>3, <2>4
  <2> QED BY <2>5, <2>6
<1> HIDE DEF x
<1>3. Stored(y) /\ Forms(y, u, {})
  BY <1>1, FieldsSet
<1>4. y.next = x.next /\ y.used = x.used
  <2>1. FieldsStored(x, y, b, a, z)
    BY <1>1, StoreFields
  <2> QED BY <2>1 DEF FieldsStored, Unmoved, SameHeads
<1> HIDE DEF w, y, u
<1> QED BY <1>1, <1>2, <1>3, <1>4
-----------------------------------------------------------------------------
(* insert_block: the block before it leads to b...                         *)
LEMMA BlockLed ==
    ASSUME NEW g, Chains(g), NEW b, OffLists(g, b), NEW m, Stored(m), Forms(m, g, {}),
           NEW i \in 1 .. Len(g.free) + 1, NEW r, r \in Seq(Blocks), Inserts(r, g.free, i, b)
    PROVE  LET w == Link(m, "free", Elem(g.free, i - 1), b)
               u == Arena(r, g.used, g.fresh, g.addr, g.size, g.top)
           IN  /\ Stored(w) /\ Forms(w, u, Only(b)) /\ i \in 1 .. Len(r) /\ r[i] = b
               /\ Elem(g.free, i) = Elem(r, i + 1)
<1> DEFINE s == g.free
           w == Link(m, "free", Elem(s, i - 1), b)
           u == Arena(r, g.used, g.fresh, g.addr, g.size, g.top)
<1> SUFFICES /\ Stored(w) /\ Forms(w, u, Only(b)) /\ i \in 1 .. Len(r) /\ r[i] = b
             /\ Elem(s, i) = Elem(r, i + 1)
  OBVIOUS
<1>1. /\ Linked(m.next, m.free, s, {}) /\ Linked(m.next, m.used, g.used, {})
      /\ Linked(m.next, m.fresh, g.fresh, {})
      /\ m.addr = g.addr /\ m.size = g.size /\ m.top = g.top
  BY DEF Forms, Chained
<1>2. /\ s \in Seq(Blocks) /\ g.used \in Seq(Blocks) /\ g.fresh \in Seq(Blocks) /\ Once(s)
      /\ m.next \in Links /\ Len(s) \in Nat /\ \A k \in 1 .. Len(s) : s[k] \in Blocks
      /\ b \in Blocks /\ b \in Nat /\ b \notin ToSet(s)
  <2>1. b \in Blocks /\ b \notin ToSet(s)
    BY DEF OffLists
  <2>2. b \in Nat
    BY <2>1 DEF Blocks
  <2> QED BY <2>1, <2>2 DEF Chains, Stored
<1>3. /\ u.free = r /\ u.used = g.used /\ u.fresh = g.fresh
      /\ u.addr = g.addr /\ u.size = g.size /\ u.top = g.top
  BY DEF Arena
<1> HIDE DEF u
<1>4. CASE i = 1
  <2>1. Elem(s, i - 1) = 0
    BY <1>4 DEF Elem
  <2>2. w = [m EXCEPT !["free"] = b]
    BY <2>1 DEF Link
  <2>3. FreeStored(m, w, b)
    BY <2>2, StoreHead
  <2> HIDE DEF s, w
  <2>4. /\ Linked(m.next, b, r, Only(b)) /\ i \in 1 .. Len(r) /\ r[i] = b
        /\ Elem(s, i) = Elem(r, i + 1)
    <3>1. Leads(m.next, m.free, s, i, b, r, m.next, b)
      BY <1>1, <1>2, <1>4 DEF Leads, s
    <3> QED BY <3>1, LinkedInserted
  <2>5. Linked(m.next, m.used, g.used, Only(b)) /\ Linked(m.next, m.fresh, g.fresh, Only(b))
    BY <1>1 DEF Linked
  <2> QED BY <1>1, <1>3, <2>3, <2>4, <2>5 DEF FreeStored, Forms, Chained, SameFields
<1>5. CASE i # 1
  <2> DEFINE x == s[i - 1]
  <2>1. i - 1 \in 1 .. Len(s) /\ x \in Blocks /\ x # 0
    BY <1>2, <1>5 DEF Blocks
  <2>2. Elem(s, i - 1) = x
    BY <2>1 DEF Elem
  <2>3. x \notin ToSet(g.used) /\ x \notin ToSet(g.fresh)
    BY <2>1 DEF Chains
  <2>4. w = [m EXCEPT !.next[x] = b]
    BY <2>1, <2>2 DEF Link
  <2>5. LinkStored(m, w, x, b)
    <3> HIDE DEF x
    <3> QED BY <1>2, <2>1, <2>4, StoreLink
  <2> HIDE DEF w
  <2>6. w.next = [m.next EXCEPT ![s[i - 1]] = b] /\ w.free = m.free
    BY <2>5 DEF LinkStored, SameHeads
  <2> HIDE DEF x, s
  <2>7. /\ Linked(w.next, m.free, r, Only(b)) /\ i \in 1 .. Len(r) /\ r[i] = b
        /\ Elem(s, i) = Elem(r, i + 1)
    <3>1. Leads(m.next, m.free, s, i, b, r, w.next, m.free)
      BY <1>1, <1>2, <1>5, <2>6 DEF Leads, s
    <3> QED BY <3>1, LinkedInserted
  <2>8. Linked(w.next, m.used, g.used, Only(b)) /\ Linked(w.next, m.fresh, g.fresh, Only(b))
    <3>1. Linked(m.next, m.used, g.used, Only(b)) /\ Linked(m.next, m.fresh, g.fresh, Only(b))
      BY <1>1 DEF Linked
    <3> QED BY <1>2, <2>1, <2>3, <2>5, <3>1, LinkedElsewhere DEF LinkStored
  <2> QED BY <1>1, <1>3, <2>5, <2>7, <2>8 DEF LinkStored, Forms, Chained, SameFields, SameHeads
<1> QED BY <1>4, <1>5

(* ... and b leads on.                                                     *)
LEMMA BlockLinked ==
    ASSUME NEW g, Chains(g), NEW i \in 1 .. Len(g.free), NEW m, Stored(m),
           Chained(m, g, Only(g.free[i]))
    PROVE  LET w == [m EXCEPT !.next[g.free[i]] = Elem(g.free, i + 1)]
           IN  Stored(w) /\ Chained(w, g, {}) /\ SameFields(m, w)
<1> DEFINE b == g.free[i]
           v == Elem(g.free, i + 1)
           w == [m EXCEPT !.next[b] = v]
<1> SUFFICES Stored(w) /\ Chained(w, g, {}) /\ SameFields(m, w)
  OBVIOUS
<1>1. /\ Linked(m.next, m.free, g.free, Only(b)) /\ Linked(m.next, m.used, g.used, Only(b))
      /\ Linked(m.next, m.fresh, g.fresh, Only(b))
  BY DEF Chained
<1>2. /\ g.free \in Seq(Blocks) /\ g.used \in Seq(Blocks) /\ g.fresh \in Seq(Blocks)
      /\ Once(g.free)
      /\ m.next \in Links /\ b \in Blocks /\ Len(g.free) \in Nat
      /\ b \notin ToSet(g.used) /\ b \notin ToSet(g.fresh)
  BY DEF Chains, Stored
<1>3. v \in Nat
  BY <1>2, ElemValue
<1> HIDE DEF b
<1>4. LinkStored(m, w, b, v)
  <2> HIDE DEF v
  <2> QED BY <1>2, <1>3, StoreLink
<1> HIDE DEF w
<1>5. w.next = [m.next EXCEPT ![b] = v]
  BY <1>4 DEF LinkStored
<1>6. Linked(w.next, m.free, g.free, {})
  <2>1. Linked([m.next EXCEPT ![b] = Elem(g.free, i + 1)], m.free, g.free, {})
    BY <1>1, <1>2, LinkedMended DEF b
  <2> QED BY <1>5, <2>1
<1>7. Linked(w.next, m.used, g.used, {}) /\ Linked(w.next, m.fresh, g.fresh, {})
  <2> HIDE DEF v
  <2>1. Linked(m.next, m.used, g.used, {}) /\ Linked(m.next, m.fresh, g.fresh, {})
    BY <1>1, <1>2, SetOfElements DEF Linked, Only
  <2> QED BY <1>2, <1>5, <2>1, LinkedElsewhere
<1> QED BY <1>4, <1>6, <1>7 DEF LinkStored, Chained, SameHeads

(* compact's memory: the i-th to k-th free block are one in size already,  *)
(* as g will have them when the descriptors between are released.          *)
Sized(m, g, i, k) ==
    /\ m.addr = g.addr /\ m.top = g.top /\ m.size \in [Blocks -> Int]
    /\ \A x \in Blocks \ {g.free[i]} : m.size[x] = g.size[x]
    /\ m.size[g.free[i]] = End(g, g.free[k]) - g.addr[g.free[i]]

Pair(b, c) == {b, c}

(* The block after the i-th is on its way out: nothing leads on from the   *)
(* i-th, and what the next one leads to does not matter.                   *)
LEMMA LinkedDropped ==
    ASSUME NEW next, NEW head, NEW s \in Seq(Blocks), Once(s), NEW i \in 1 .. Len(s),
           i + 1 \in 1 .. Len(s), Linked(next, head, s, Pair(s[i], s[i + 1]))
    PROVE  Linked(next, head, RemoveAt(s, i + 1), Only(s[i]))
<1> DEFINE n == Len(s)
           r == RemoveAt(s, i + 1)
<1>1. /\ n \in Nat /\ head = Elem(s, 1)
      /\ \A k \in 1 .. n : s[k] \notin Pair(s[i], s[i + 1]) => next[s[k]] = Elem(s, k + 1)
  BY DEF Linked
<1>2. r \in Seq(Blocks) /\ Len(r) = n - 1
      /\ \A j \in 1 .. n - 1 : r[j] = IF j < i + 1 THEN s[j] ELSE s[j + 1]
  BY <1>1, RemoveAtValue
<1>3. \A j, k \in 1 .. n : s[j] = s[k] => j = k
  BY DEF Once
<1> HIDE DEF r
<1>4. head = Elem(r, 1)
  BY <1>1, <1>2 DEF Elem
<1>5. ASSUME NEW k \in 1 .. n - 1, r[k] # s[i] PROVE next[r[k]] = Elem(r, k + 1)
  <2>1. CASE k < i + 1
    <3>1. k < i /\ k \in 1 .. n /\ k # i /\ k # i + 1 /\ r[k] = s[k]
      BY <1>1, <1>2, <1>5, <2>1
    <3>2. s[k] \notin Pair(s[i], s[i + 1])
      BY <1>3, <3>1 DEF Pair
    <3>3. k + 1 \in 1 .. n - 1 /\ k + 1 < i + 1 /\ k + 1 \in 1 .. n
      BY <1>1, <3>1
    <3>4. Elem(r, k + 1) = Elem(s, k + 1)
      BY <1>2, <3>3 DEF Elem
    <3> QED BY <1>1, <3>1, <3>2, <3>4
  <2>2. CASE ~(k < i + 1)
    <3>1. k + 1 \in 1 .. n /\ k + 1 # i /\ k + 1 # i + 1 /\ r[k] = s[k + 1]
      BY <1>1, <1>2, <2>2
    <3>2. s[k + 1] \notin Pair(s[i], s[i + 1])
      BY <1>3, <3>1 DEF Pair
    <3>3. Elem(r, k + 1) = Elem(s, k + 2)
      <4>1. CASE k + 1 \in 1 .. n - 1
        <5>1. k + 2 \in 1 .. n /\ ~(k + 1 < i + 1) /\ k + 1 + 1 = k + 2
          BY <1>1, <2>2, <4>1
        <5> QED BY <1>2, <4>1, <5>1 DEF Elem
      <4>2. CASE k + 1 \notin 1 .. n - 1
        BY <1>1, <1>2, <4>2 DEF Elem
      <4> QED BY <4>1, <4>2
    <3>4. next[s[k + 1]] = Elem(s, k + 1 + 1)
      BY <1>1, <3>1, <3>2
    <3>5. k + 1 + 1 = k + 2
      OBVIOUS
    <3> QED BY <3>1, <3>3, <3>4, <3>5
  <2> QED BY <2>1, <2>2
<1>6. \A k \in 1 .. Len(r) : r[k] \notin Only(s[i]) => next[r[k]] = Elem(r, k + 1)
  BY <1>2, <1>5 DEF Only
<1> QED BY <1>4, <1>6 DEF Linked, r

(* The facts about the free list that compact's steps need.                *)
LEMMA FreeChain ==
    ASSUME NEW g, Good(g), NEW i \in 1 .. Len(g.free)
    PROVE  /\ Chains(g) /\ g.free[i] \in Blocks /\ g.free[i] # 0
           /\ Elem(g.free, i) = g.free[i]
           /\ g.free[i] \notin ToSet(g.used) /\ g.free[i] \notin ToSet(g.fresh)
<1>1. g.free \in Seq(Blocks) /\ g.used \in Seq(Blocks) /\ g.fresh \in Seq(Blocks)
        /\ Listed(g, Blocks)
  BY FieldsOf DEF Good
<1>2. Chains(g)
  BY <1>1, ListedChains
<1>3. g.free[i] \in Blocks
  BY <1>1
<1> QED BY <1>2, <1>3 DEF Chains, Elem, Blocks

(* release_blocks: the block leads to the fresh ones...                    *)
LEMMA FreshPushed ==
    ASSUME NEW g, Good(g), NEW i \in 1 .. Len(g.free), i + 1 \in 1 .. Len(g.free),
           NEW m, Stored(m), Chained(m, g, Only(g.free[i]))
    PROVE  LET x == g.free[i + 1]
               w == [m EXCEPT !.next[x] = m.fresh]
           IN  /\ Stored(w) /\ SameFields(m, w) /\ Chained(w, g, Pair(g.free[i], x))
               /\ w.next[x] = w.fresh /\ m.next[x] = Elem(g.free, i + 2)
<1> DEFINE p == g.free[i]
           x == g.free[i + 1]
           v == m.fresh
           w == [m EXCEPT !.next[x] = v]
<1> SUFFICES /\ Stored(w) /\ SameFields(m, w) /\ Chained(w, g, Pair(p, x))
             /\ w.next[x] = w.fresh /\ m.next[x] = Elem(g.free, i + 2)
  OBVIOUS
<1>1. /\ Chains(g) /\ x \in Blocks /\ p \in Blocks /\ p # x
      /\ x \notin ToSet(g.used) /\ x \notin ToSet(g.fresh)
  <2>1. \A j \in 1 .. Len(g.free) : g.free[j] = p => j = i
    BY FreeBlocks
  <2>2. i + 1 # i
    OBVIOUS
  <2> QED BY <2>1, <2>2, FreeChain
<1>2. /\ Linked(m.next, m.free, g.free, Only(p)) /\ Linked(m.next, m.used, g.used, Only(p))
      /\ Linked(m.next, m.fresh, g.fresh, Only(p))
  BY DEF Chained
<1>3. /\ g.free \in Seq(Blocks) /\ g.used \in Seq(Blocks) /\ g.fresh \in Seq(Blocks)
      /\ Once(g.free)
      /\ m.next \in Links
  BY <1>1 DEF Chains, Stored
<1>4. v \in Nat
  BY <1>2, <1>3, ElemValue DEF Linked
<1>5. m.next[x] = Elem(g.free, i + 2)
  <2>1. x \notin Only(p)
    BY <1>1 DEF Only
  <2>2. m.next[g.free[i + 1]] = Elem(g.free, (i + 1) + 1)
    <3> HIDE DEF p
    <3> QED BY <1>2, <2>1 DEF Linked
  <2>3. (i + 1) + 1 = i + 2
    OBVIOUS
  <2> QED BY <2>2, <2>3
<1> HIDE DEF x, v, p
<1>6. LinkStored(m, w, x, v)
  BY <1>1, <1>4, StoreLink
<1> HIDE DEF w
<1>7. x \in Pair(p, x) /\ \A y : y \notin Pair(p, x) => y \notin Only(p)
  BY DEF Pair, Only
<1>8. /\ Linked(m.next, m.free, g.free, Pair(p, x)) /\ Linked(m.next, m.used, g.used, Pair(p, x))
      /\ Linked(m.next, m.fresh, g.fresh, Pair(p, x))
  BY <1>2, <1>7 DEF Linked
<1>9. w.next = [m.next EXCEPT ![x] = v]
  BY <1>6 DEF LinkStored
<1>10. /\ Linked(w.next, m.free, g.free, Pair(p, x)) /\ Linked(w.next, m.used, g.used, Pair(p, x))
       /\ Linked(w.next, m.fresh, g.fresh, Pair(p, x))
  BY <1>1, <1>3, <1>7, <1>8, <1>9, LinkedElsewhere
<1> QED BY <1>5, <1>6, <1>10 DEF LinkStored, Chained, SameHeads, v

(* ... and becomes the first of them.                                      *)
LEMMA FreshHead ==
    ASSUME NEW g, Good(g), NEW i \in 1 .. Len(g.free), NEW u, Merges(g, i, u),
           NEW m, Stored(m), Chained(m, g, Pair(g.free[i], g.free[i + 1])),
           m.next[g.free[i + 1]] = m.fresh
    PROVE  LET w == [m EXCEPT !.fresh = g.free[i + 1]]
           IN  Stored(w) /\ SameFields(m, w) /\ Chained(w, u, Only(g.free[i]))
<1> DEFINE p == g.free[i]
           x == g.free[i + 1]
           w == [m EXCEPT !.fresh = x]
<1> SUFFICES Stored(w) /\ SameFields(m, w) /\ Chained(w, u, Only(p))
  OBVIOUS
<1>1. /\ i + 1 \in 1 .. Len(g.free) /\ x \in Blocks
      /\ u.used = g.used /\ u.fresh = <<x>> \o g.fresh /\ u.free = RemoveAt(g.free, i + 1)
  BY DEF Merges
<1>2. /\ Linked(m.next, m.free, g.free, Pair(p, x)) /\ Linked(m.next, m.used, g.used, Pair(p, x))
      /\ Linked(m.next, m.fresh, g.fresh, Pair(p, x))
  BY DEF Chained
<1>3. /\ g.free \in Seq(Blocks) /\ g.used \in Seq(Blocks) /\ g.fresh \in Seq(Blocks)
      /\ Once(g.free)
      /\ x \notin ToSet(g.used) /\ x \notin ToSet(g.fresh) /\ p \notin ToSet(g.used)
      /\ p \notin ToSet(g.fresh)
  BY <1>1, FreeChain DEF Chains
<1>4. Linked(m.next, m.free, RemoveAt(g.free, i + 1), Only(p))
  BY <1>1, <1>2, <1>3, LinkedDropped
<1>5. \A s \in Seq(Blocks) : \A head :
         p \notin ToSet(s) /\ x \notin ToSet(s) /\ Linked(m.next, head, s, Pair(p, x))
           => Linked(m.next, head, s, Only(p))
  <2> SUFFICES ASSUME NEW s \in Seq(Blocks), NEW head, p \notin ToSet(s), x \notin ToSet(s),
                      Linked(m.next, head, s, Pair(p, x))
               PROVE  Linked(m.next, head, s, Only(p))
    OBVIOUS
  <2>1. \A k \in 1 .. Len(s) : s[k] # p /\ s[k] # x
    BY SetOfElements
  <2>2. \A k \in 1 .. Len(s) : s[k] \notin Pair(p, x)
    BY <2>1 DEF Pair
  <2> HIDE DEF p, x
  <2> QED BY <2>2 DEF Linked
<1>6. Linked(m.next, m.used, g.used, Only(p)) /\ Linked(m.next, m.fresh, g.fresh, Only(p))
  BY <1>2, <1>3, <1>5
<1>7. Linked(m.next, x, <<x>> \o g.fresh, Only(p))
  <2> HIDE DEF p, x
  <2>1. m.next[x] = m.fresh
    BY DEF x
  <2> QED BY <1>1, <1>3, <1>6, <2>1, LinkedPushed
<1>8. FreshStored(m, w, x)
  BY StoreHead
<1> HIDE DEF p, x, w
<1> QED BY <1>1, <1>4, <1>6, <1>7, <1>8 DEF FreshStored, Chained

-----------------------------------------------------------------------------
(* The heaps a call goes through.                                          *)

(* The heaps a call goes through, as its writes make them from h.          *)
Unlinked(h, i) == Arena(RemoveAt(h.free, i), h.used, h.fresh, h.addr, h.size, h.top)
Used(h, i) == <<h.free[i]>> \o h.used
Shrunk(h, i, num) ==
    Arena(RemoveAt(h.free, i), Used(h, i), h.fresh, h.addr,
          [h.size EXCEPT ![h.free[i]] = num], h.top)
Grown(h, i, num) ==
    Arena(RemoveAt(h.free, i), Used(h, i), h.fresh, h.addr,
          [h.size EXCEPT ![h.free[i]] = num], Wrap(h.addr[h.free[i]] + num))
Taken(h, i, num) ==
    Arena(RemoveAt(h.free, i), Used(h, i), Tail(h.fresh), h.addr,
          [h.size EXCEPT ![h.free[i]] = num], h.top)
Carved(h, i, num) ==
    Arena(RemoveAt(h.free, i), Used(h, i), Tail(h.fresh),
          [h.addr EXCEPT ![Head(h.fresh)] = h.addr[h.free[i]] + num],
          [[h.size EXCEPT ![h.free[i]] = num] EXCEPT
             ![Head(h.fresh)] = h.size[h.free[i]] - num], h.top)

Unused(h) == Arena(h.free, h.used, Tail(h.fresh), h.addr, h.size, h.top)
Extended(h, num) ==
    Arena(h.free, h.used, Tail(h.fresh), [h.addr EXCEPT ![Head(h.fresh)] = h.top],
          [h.size EXCEPT ![Head(h.fresh)] = num], h.top)
Pushed(h, num) ==
    Arena(h.free, <<Head(h.fresh)>> \o h.used, Tail(h.fresh),
          [h.addr EXCEPT ![Head(h.fresh)] = h.top],
          [h.size EXCEPT ![Head(h.fresh)] = num], h.top)
Appended(h, num) ==
    Arena(h.free, <<Head(h.fresh)>> \o h.used, Tail(h.fresh),
          [h.addr EXCEPT ![Head(h.fresh)] = h.top],
          [h.size EXCEPT ![Head(h.fresh)] = num], Wrap(h.top + num))

Full(h) == Good(h) /\ Strict(h)

(* insert_block(b) and then compact will turn g into final.                *)
Inserting(g, b, final) == Insertable(g, b) /\ Compact(InsertBlock(g, b)) = final

LEMMA HeapIs ==
    ASSUME NEW h \in Heaps
    PROVE  h = Arena(h.free, h.used, h.fresh, h.addr, h.size, h.top)
BY DEF Heaps, Arena

LEMMA UnlinkedLists ==
    ASSUME NEW h, Full(h), NEW i \in 1 .. Len(h.free)
    PROVE  /\ Chains(h) /\ Chains(Unlinked(h, i)) /\ OffLists(Unlinked(h, i), h.free[i])
           /\ h.free[i] \in Blocks
           /\ Moved(h, i) = Arena(RemoveAt(h.free, i), Used(h, i), h.fresh, h.addr, h.size, h.top)
           /\ Chains(Moved(h, i)) /\ Good(Moved(h, i))
<1> DEFINE b == h.free[i]
           r == RemoveAt(h.free, i)
           u == Unlinked(h, i)
           g == Moved(h, i)
<1>1. h \in Heaps /\ Listed(h, Blocks) /\ Good(h) /\ Strict(h)
  BY DEF Full, Good
<1>2. h.free \in Seq(Blocks) /\ h.used \in Seq(Blocks) /\ h.fresh \in Seq(Blocks)
  BY <1>1, FieldsOf
<1>3. Chains(h)
  BY <1>1, <1>2, ListedChains
<1>4. b \in Blocks /\ b \in ToSet(h.free)
  BY <1>2, SetOfElements
<1>5. r \in Seq(Blocks) /\ Once(r) /\ ToSet(r) = ToSet(h.free) \ {b}
  <2>1. Once(h.free)
    BY <1>1 DEF Listed
  <2> QED BY <1>2, <2>1, RemoveAtValue, OnceRemoveAt
<1> HIDE DEF b, r
<1>6. u.free = r /\ u.used = h.used /\ u.fresh = h.fresh
  BY DEF Unlinked, Arena, r
<1> HIDE DEF u
<1>7. Listed(u, Blocks \ {b})
  BY <1>1, <1>4, <1>5, <1>6 DEF Listed
<1>8. Chains(u) /\ OffLists(u, b)
  BY <1>2, <1>4, <1>5, <1>6, <1>7, ListedChains
<1>9. g = Arena(r, Used(h, i), h.fresh, h.addr, h.size, h.top)
  <2>1. h = Arena(h.free, h.used, h.fresh, h.addr, h.size, h.top)
    BY <1>1, HeapIs
  <2> DEFINE used2 == <<h.free[i]>> \o h.used
  <2>2. g = [h EXCEPT !.free = r, !.used = used2]
    BY DEF Moved, r
  <2> HIDE DEF used2, g
  <2>3. g = [free |-> r, used |-> used2, fresh |-> h.fresh, addr |-> h.addr, size |-> h.size,
             top |-> h.top]
    BY <1>1, <2>2 DEF Heaps
  <2> QED BY <2>3 DEF Arena, Used, used2
<1>10. Good(g)
  BY <1>1, MovedGood
<1>11. Chains(g)
  <2>1. g \in Heaps /\ Listed(g, Blocks)
    BY <1>10 DEF Good
  <2> HIDE DEF g
  <2>2. g.free \in Seq(Blocks) /\ g.used \in Seq(Blocks) /\ g.fresh \in Seq(Blocks)
    BY <2>1, FieldsOf
  <2> QED BY <2>1, <2>2, ListedChains
<1> QED BY <1>3, <1>4, <1>8, <1>9, <1>10, <1>11 DEF b, u, r

(* The block is in use, and its rest about to be inserted.                 *)
LEMMA CarvedInserting ==
    ASSUME NEW h, Full(h), NEW i \in 1 .. Len(h.free), NEW num \in Nat \ {0},
           num < h.size[h.free[i]], h.fresh # <<>>
    PROVE  Inserting(Carved(h, i, num), Head(h.fresh), Split(Moved(h, i), h.free[i], num))
<1> DEFINE b == h.free[i]
           t == Moved(h, i)
<1>1. Good(t) /\ t = Arena(RemoveAt(h.free, i), Used(h, i), h.fresh, h.addr, h.size, h.top)
  BY UnlinkedLists
<1>2. ToSet(t.used) = ToSet(h.used) \cup {b}
  BY MovedGood DEF Full
<1> HIDE DEF t
<1>3. t.free = RemoveAt(h.free, i) /\ t.used = Used(h, i) /\ t.fresh = h.fresh
      /\ t.addr = h.addr /\ t.size = h.size /\ t.top = h.top
  BY <1>1 DEF Arena
<1>4. b \in ToSet(t.used) /\ num < t.size[b] /\ t.fresh # <<>>
  BY <1>2, <1>3
<1> HIDE DEF b
<1>5. /\ Insertable(SplitOff(t, b, num), Head(t.fresh))
      /\ Split(t, b, num) = Compact(InsertBlock(SplitOff(t, b, num), Head(t.fresh)))
  BY <1>1, <1>4, SplitReady
<1>6. SplitOff(t, b, num) = Carved(h, i, num)
  BY <1>3 DEF SplitOff, Carved, b
<1> QED BY <1>3, <1>5, <1>6 DEF Inserting, t, b

LEMMA NotUsedInserting ==
    ASSUME NEW h, Full(h), NEW i \in 1 .. Len(h.used)
    PROVE  Inserting(NotUsed(h, i), h.used[i], Freed(h, i))
BY FreedReady DEF Inserting, Full

LEMMA InsertingLists ==
    ASSUME NEW g, NEW b, NEW final, Inserting(g, b, final)
    PROVE  /\ Chains(g) /\ OffLists(g, b) /\ b \in Blocks
           /\ g \in Heaps /\ g.free \in Seq(Blocks) /\ Len(g.free) \in Nat
           /\ Good(InsertBlock(g, b)) /\ Compact(InsertBlock(g, b)) = final
<1>1. g \in Heaps /\ b \in Blocks /\ Listed(g, Blocks \ {b}) /\ Compact(InsertBlock(g, b)) = final
  BY DEF Inserting, Insertable
<1>2. g.free \in Seq(Blocks) /\ g.used \in Seq(Blocks) /\ g.fresh \in Seq(Blocks)
        /\ Len(g.free) \in Nat
  BY <1>1, FieldsOf
<1>3. Chains(g) /\ OffLists(g, b)
  BY <1>1, <1>2, ListedChains
<1>4. Good(InsertBlock(g, b))
  BY Inserted DEF Inserting, Insertable
<1> QED BY <1>1, <1>2, <1>3, <1>4

(* The block goes where insert_block's loop ends.                          *)
LEMMA InsertsAt ==
    ASSUME NEW g, NEW b, NEW final, Inserting(g, b, final), NEW p \in 1 .. Len(g.free) + 1,
           \A j \in 1 .. Len(g.free) : j < p => g.addr[b] > g.addr[g.free[j]],
           p # Len(g.free) + 1 => ~(g.addr[b] > g.addr[g.free[p]])
    PROVE  \E r \in Seq(Blocks) :
              /\ Inserts(r, g.free, p, b)
              /\ InsertBlock(g, b) = Arena(r, g.used, g.fresh, g.addr, g.size, g.top)
<1> DEFINE s == g.free
           i == SelectInSeq(s, LAMBDA f : g.addr[b] <= g.addr[f])
           r == IF i = 0 THEN Append(s, b) ELSE InsertAt(s, i, b)
           n == Len(s)
<1>1. g \in Heaps /\ b \in Blocks /\ s \in Seq(Blocks) /\ n \in Nat /\ g.addr \in Fields
  BY InsertingLists, FieldsOf
<1>2. PICK q \in 1 .. n + 1 :
         /\ i = 0 => q = n + 1
         /\ i # 0 => i = q /\ i \in 1 .. n /\ g.addr[b] <= g.addr[s[i]]
         /\ \A j \in 1 .. n : j < q => g.addr[s[j]] < g.addr[b]
  BY <1>1, Position
<1>3. InsertBlock(g, b) = [g EXCEPT !.free = r]
  BY DEF InsertBlock
<1>4. g.addr[b] \in Nat /\ \A j \in 1 .. n : g.addr[s[j]] \in Nat
  BY <1>1 DEF Fields
<1> HIDE DEF i
<1>5. q = p
  <2>1. ~(p < q)
    BY <1>1, <1>2, <1>4
  <2>2. ~(q < p)
    BY <1>1, <1>2, <1>4
  <2> QED BY <1>1, <2>1, <2>2
<1>6. r \in Seq(Blocks) /\ Inserts(r, s, p, b)
  <2>1. CASE i = 0
    <3>1. r = Append(s, b) /\ p = n + 1
      BY <1>2, <1>5, <2>1
    <3> HIDE DEF s, r
    <3>2. /\ Append(s, b) \in Seq(Blocks) /\ Len(Append(s, b)) = Len(s) + 1
          /\ Append(s, b)[Len(s) + 1] = b
          /\ \A j \in 1 .. Len(s) : Append(s, b)[j] = s[j]
      BY <1>1
    <3>3. \A j \in 1 .. Len(s) + 1 : /\ j < Len(s) + 1 <=> j \in 1 .. Len(s)
                                      /\ j \notin 1 .. Len(s) => j = Len(s) + 1
      BY <1>1
    <3>4. Inserts(Append(s, b), s, Len(s) + 1, b)
      BY <3>2, <3>3 DEF Inserts
    <3> QED BY <3>1, <3>2, <3>4
  <2>2. CASE i # 0
    <3>1. r = InsertAt(s, p, b) /\ p \in 1 .. n
      BY <1>2, <1>5, <2>2
    <3> HIDE DEF r, s
    <3> QED BY <1>1, <3>1, InsertAtValue
  <2> QED BY <2>1, <2>2
<1> HIDE DEF r
<1>7. InsertBlock(g, b) = Arena(r, g.used, g.fresh, g.addr, g.size, g.top)
  BY <1>1, <1>3 DEF Heaps, Arena
<1> QED BY <1>6, <1>7

(* What alloc_block works with.                                            *)
Rounds == {RoundUp(request) : request \in Sizes}

LEMMA RoundedTwice ==
    ASSUME NEW num \in Rounds
    PROVE  num \in Nat \ {0} /\ Limit + num < W /\ RoundUp(num) = num
<1>1. PICK request \in Sizes : num = RoundUp(request)
  BY DEF Rounds
<1>2. /\ request \in Nat \ {0} /\ num \in Nat /\ request <= num /\ Limit + num < W
      /\ Limit + request + Alignment <= W
  <2>1. request \in Requests
    BY <1>1 DEF Requests
  <2> QED BY <1>1, <2>1, RoundedUp, RequestsAssumption
<1>3. /\ Limit \in Nat \ {0} /\ W \in Nat /\ Alignment \in Nat \ {0} /\ Alignment <= Limit
  BY ArenaAssumption, AlignmentAssumption
<1> DEFINE x == request + Alignment - 1
           q == x \div Alignment
           y == num + Alignment - 1
<1>4. x \in Nat /\ x < W /\ y \in Nat
  BY <1>2, <1>3
<1>5. Wrap(x) = x
  BY <1>3, <1>4 DEF Wrap
<1>6. num = q * Alignment
  BY <1>1, <1>5 DEF RoundUp
<1>7. q \in Nat /\ q * Alignment <= x
  <2> HIDE DEF x
  <2> QED BY <1>3, <1>4
<1>8. y < W
  <2>1. num <= x
    BY <1>6, <1>7
  <2> QED BY <1>2, <1>3, <2>1
<1> HIDE DEF x
<1>9. Wrap(y) = y
  <2> HIDE DEF y
  <2> QED BY <1>3, <1>4, <1>8 DEF Wrap
<1>10. y \div Alignment = q
  <2> HIDE DEF q
  <2> DEFINE e == Alignment - 1
  <2>1. y = q * Alignment + e /\ e \in 0 .. Alignment - 1
    BY <1>2, <1>3, <1>6
  <2> HIDE DEF y, e
  <2> QED BY <1>3, <1>7, <2>1
<1>11. RoundUp(num) = q * Alignment
  BY <1>9, <1>10 DEF RoundUp
<1> QED BY <1>2, <1>6, <1>11
-----------------------------------------------------------------------------
(* alloc_block takes the i-th free block...                                *)
Fits(h, num, b) == IsTop(h, b, num) \/ h.size[b] >= num
Unfit(h, num, i) == \A j \in 1 .. Len(h.free) : j < i => ~Fits(h, num, h.free[j])
Chosen(h, num, i) == i \in 1 .. Len(h.free) /\ Unfit(h, num, i) /\ Fits(h, num, h.free[i])

(* ... or, when it has gone through the list, the first fresh block.       *)
AtEnd(h, num) ==
    /\ Unfit(h, num, Len(h.free) + 1)
    /\ h.fresh # <<>> /\ Wrap(h.top + num) <= Limit

(* What Heap makes of a call, and returns.                                 *)
Result(h, op, num, p) ==
    IF op = "alloc" THEN AllocBlock(h, num)
    ELSE LET i == SelectInSeq(h.used, LAMBDA b : h.addr[b] = p)
         IN  IF i = 0 THEN [heap |-> h, block |-> NoBlock]
             ELSE [heap |-> Compact(InsertBlock([h EXCEPT !.used = RemoveAt(@, i)], h.used[i])),
                   block |-> h.used[i]]

LEMMA AllocIs ==
    ASSUME NEW h, NEW num, RoundUp(num) = num, Len(h.free) \in Nat
    PROVE  \E i \in 0 .. Len(h.free) :
              /\ i = 0 => Unfit(h, num, Len(h.free) + 1)
              /\ i # 0 => Chosen(h, num, i)
              /\ AllocBlock(h, num) =
                   IF i # 0 THEN [heap |-> TakeFree(h, i, num), block |-> h.free[i]]
                   ELSE IF h.fresh # <<>> /\ Wrap(h.top + num) <= Limit
                   THEN [heap |-> AppendBlock(h, num), block |-> Head(h.fresh)]
                   ELSE [heap |-> h, block |-> NoBlock]
<1> DEFINE n == Len(h.free)
           I == {j \in 1 .. n : IsTop(h, h.free[j], num) \/ h.size[h.free[j]] >= num}
           i == IF I # {} THEN Min(I) ELSE 0
<1>1. I \in SUBSET (1 .. n) /\ n \in Nat
  OBVIOUS
<1>2. \A j \in 1 .. n : j \in I <=> Fits(h, num, h.free[j])
  BY DEF Fits
<1>3. AllocBlock(h, num) =
         IF i # 0 THEN [heap |-> TakeFree(h, i, num), block |-> h.free[i]]
         ELSE IF h.fresh # <<>> /\ Wrap(h.top + num) <= Limit
         THEN [heap |-> AppendBlock(h, num), block |-> Head(h.fresh)]
         ELSE [heap |-> h, block |-> NoBlock]
  BY DEF AllocBlock, SelectInSeq
<1> HIDE DEF I
<1>4. /\ i = 0 => I = {}
      /\ i # 0 => i \in I /\ i \in 1 .. n /\ \A j \in 1 .. n : j < i => j \notin I
  BY <1>1, FirstIndex
<1> HIDE DEF i
<1>5. i = 0 => Unfit(h, num, n + 1)
  BY <1>2, <1>4 DEF Unfit
<1>6. i # 0 => Chosen(h, num, i)
  BY <1>2, <1>4 DEF Unfit, Chosen
<1>7. i \in 0 .. n
  BY <1>1, <1>4
<1> QED BY <1>3, <1>5, <1>6, <1>7

LEMMA OneChosen ==
    ASSUME NEW h, NEW num, Len(h.free) \in Nat, NEW i \in Int, NEW j \in Int,
           Chosen(h, num, i), Chosen(h, num, j)
    PROVE  i = j
BY DEF Chosen, Unfit

LEMMA ChosenResult ==
    ASSUME NEW h, NEW num \in Rounds, Len(h.free) \in Nat, NEW i, Chosen(h, num, i), NEW p
    PROVE  /\ Result(h, "alloc", num, p).heap = TakeFree(h, i, num)
           /\ Result(h, "alloc", num, p).block = h.free[i]
<1>1. RoundUp(num) = num
  BY RoundedTwice
<1>2. PICK k \in 0 .. Len(h.free) :
         /\ k = 0 => Unfit(h, num, Len(h.free) + 1)
         /\ k # 0 => Chosen(h, num, k)
         /\ AllocBlock(h, num) =
              IF k # 0 THEN [heap |-> TakeFree(h, k, num), block |-> h.free[k]]
              ELSE IF h.fresh # <<>> /\ Wrap(h.top + num) <= Limit
              THEN [heap |-> AppendBlock(h, num), block |-> Head(h.fresh)]
              ELSE [heap |-> h, block |-> NoBlock]
  BY <1>1, AllocIs
<1>3. i \in 1 .. Len(h.free) /\ Fits(h, num, h.free[i])
  BY DEF Chosen
<1>4. k # 0
  BY <1>2, <1>3 DEF Unfit
<1>5. k = i
  BY <1>2, <1>3, <1>4, OneChosen
<1> QED BY <1>2, <1>4, <1>5 DEF Result

LEMMA EndResult ==
    ASSUME NEW h, NEW num \in Rounds, Len(h.free) \in Nat,
           Unfit(h, num, Len(h.free) + 1), NEW p
    PROVE  LET r == Result(h, "alloc", num, p)
           IN  IF h.fresh # <<>> /\ Wrap(h.top + num) <= Limit
               THEN r.heap = AppendBlock(h, num) /\ r.block = Head(h.fresh)
               ELSE r.heap = h /\ r.block = NoBlock
<1>1. RoundUp(num) = num
  BY RoundedTwice
<1>2. PICK k \in 0 .. Len(h.free) :
         /\ k = 0 => Unfit(h, num, Len(h.free) + 1)
         /\ k # 0 => Chosen(h, num, k)
         /\ AllocBlock(h, num) =
              IF k # 0 THEN [heap |-> TakeFree(h, k, num), block |-> h.free[k]]
              ELSE IF h.fresh # <<>> /\ Wrap(h.top + num) <= Limit
              THEN [heap |-> AppendBlock(h, num), block |-> Head(h.fresh)]
              ELSE [heap |-> h, block |-> NoBlock]
  BY <1>1, AllocIs
<1>3. k = 0
  BY <1>2 DEF Chosen, Unfit
<1> QED BY <1>2, <1>3 DEF Result

LEMMA FreeResult ==
    ASSUME NEW h, Len(h.used) \in Nat, NEW p, NEW num, NEW i \in 1 .. Len(h.used) + 1,
           \A j \in 1 .. Len(h.used) : j < i => h.addr[h.used[j]] # p,
           i # Len(h.used) + 1 => h.addr[h.used[i]] = p
    PROVE  LET r == Result(h, "free", num, p)
           IN  IF i = Len(h.used) + 1 THEN r.heap = h /\ r.block = NoBlock
               ELSE r.heap = Freed(h, i) /\ r.block = h.used[i]
<1> DEFINE n == Len(h.used)
           I == {j \in 1 .. n : h.addr[h.used[j]] = p}
           k == IF I # {} THEN Min(I) ELSE 0
           r == Result(h, "free", num, p)
<1>1. I \in SUBSET (1 .. n) /\ n \in Nat
  OBVIOUS
<1>2. \A j \in 1 .. n : j \in I <=> h.addr[h.used[j]] = p
  OBVIOUS
<1>3. r = IF k = 0 THEN [heap |-> h, block |-> NoBlock]
          ELSE [heap |-> Freed(h, k), block |-> h.used[k]]
  BY DEF Result, SelectInSeq, Freed
<1> HIDE DEF I, r
<1>4. /\ k = 0 => I = {}
      /\ k # 0 => k \in I /\ k \in 1 .. n /\ \A j \in 1 .. n : j < k => j \notin I
  BY <1>1, FirstIndex
<1> HIDE DEF k
<1>5. IF i = n + 1 THEN k = 0 ELSE k = i
  BY <1>1, <1>2, <1>4
<1>6. 0 \notin 1 .. n
  OBVIOUS
<1> QED BY <1>3, <1>5, <1>6 DEF r
-----------------------------------------------------------------------------
(* What the writes made of the heap is what TakeFree makes of it.          *)
LEMMA TakeFreeIs ==
    ASSUME NEW h, Full(h), NEW num \in Rounds, NEW i, Chosen(h, num, i)
    PROVE  LET b == h.free[i]
           IN  TakeFree(h, i, num) =
                 IF IsTop(h, b, num) THEN Grown(h, i, num)
                 ELSE IF h.fresh # <<>> /\ h.size[b] - num >= SplitThresh
                 THEN Split(Moved(h, i), b, num)
                 ELSE Moved(h, i)
<1> DEFINE b == h.free[i]
           t == Moved(h, i)
           u == [t EXCEPT !.size[b] = num, !.top = Wrap(h.addr[b] + num)]
<1>1. i \in 1 .. Len(h.free)
  BY DEF Chosen
<1>2. t = Arena(RemoveAt(h.free, i), Used(h, i), h.fresh, h.addr, h.size, h.top)
  BY <1>1, UnlinkedLists
<1>3. TakeFree(h, i, num) =
         IF IsTop(h, b, num) THEN u
         ELSE IF h.fresh # <<>> /\ h.size[b] - num >= SplitThresh THEN Split(t, b, num)
         ELSE t
  BY DEF TakeFree, Moved
<1>4. u = Grown(h, i, num)
  <2> HIDE DEF t
  <2> DEFINE size2 == [t.size EXCEPT ![b] = num]
             top2 == Wrap(h.addr[b] + num)
  <2>1. u = [t EXCEPT !.size = size2, !.top = top2]
    OBVIOUS
  <2>2. t.size = h.size
    BY <1>2 DEF Arena
  <2>3. size2 = [h.size EXCEPT ![b] = num]
    BY <2>2
  <2> HIDE DEF size2, top2, u
  <2>4. u = Arena(RemoveAt(h.free, i), Used(h, i), h.fresh, h.addr, size2, top2)
    BY <1>2, <2>1 DEF Arena
  <2> QED BY <2>3, <2>4 DEF Grown, top2, b
<1> QED BY <1>3, <1>4

LEMMA AppendIs ==
    ASSUME NEW h, Full(h), h.fresh # <<>>, NEW num
    PROVE  AppendBlock(h, num) = Appended(h, num)
<1> DEFINE b == Head(h.fresh)
           fresh2 == Tail(h.fresh)
           used2 == <<b>> \o h.used
           addr2 == [h.addr EXCEPT ![b] = h.top]
           size2 == [h.size EXCEPT ![b] = num]
           top2 == Wrap(h.top + num)
           g == AppendBlock(h, num)
<1>1. h \in Heaps
  BY DEF Full, Good
<1>2. g = [h EXCEPT !.fresh = fresh2, !.used = used2, !.addr = addr2, !.size = size2,
                    !.top = top2]
  BY DEF AppendBlock
<1>3. Appended(h, num) = Arena(h.free, used2, fresh2, addr2, size2, top2)
  BY DEF Appended
<1> HIDE DEF fresh2, used2, addr2, size2, top2, g
<1>4. g = Arena(h.free, used2, fresh2, addr2, size2, top2)
  BY <1>1, <1>2 DEF Heaps, Arena
<1> QED BY <1>3, <1>4 DEF g

-----------------------------------------------------------------------------
(* What holds before each statement of a call that no other has disturbed, *)
(* and what the statement makes of it.                                     *)

(* Where alloc_block is before each of its statements: looking at a block, *)
(* having found one that fits, ...                                         *)
ScanAt(m, h, num, ptr, prev, top) ==
    /\ Forms(m, h, {}) /\ top = h.top
    /\ \E i \in 1 .. Len(h.free) + 1 :
          ptr = Elem(h.free, i) /\ prev = Elem(h.free, i - 1) /\ Unfit(h, num, i)
FoundAt(m, h, num, ptr, prev) ==
    /\ Forms(m, h, {})
    /\ \E i \in 1 .. Len(h.free) :
          Chosen(h, num, i) /\ ptr = h.free[i] /\ prev = Elem(h.free, i - 1)

(* ... having unlinked it, led it to the used blocks, made it the first of *)
(* them, resized it, taken a descriptor for the rest, ...                  *)
PushAt(m, h, num, ptr) ==
    \E i \in 1 .. Len(h.free) :
       Chosen(h, num, i) /\ ptr = h.free[i] /\ Forms(m, Unlinked(h, i), {})
UsedAt(m, h, num, ptr) == PushAt(m, h, num, ptr) /\ m.next[ptr] = m.used
MovedAt(m, h, num, ptr) ==
    \E i \in 1 .. Len(h.free) :
       Chosen(h, num, i) /\ ptr = h.free[i] /\ Forms(m, Moved(h, i), {})
ShrunkAt(m, h, num, ptr) ==
    \E i \in 1 .. Len(h.free) :
       Chosen(h, num, i) /\ ptr = h.free[i] /\ Forms(m, Shrunk(h, i, num), {})
RestAt(m, h, num, ptr) ==
    \E i \in 1 .. Len(h.free) :
       Chosen(h, num, i) /\ ptr = h.free[i] /\ Forms(m, Taken(h, i, num), {})

Excess(h, num, ptr, block, top) ==
    /\ h.fresh # <<>> /\ block = Head(h.fresh)
    /\ top = h.size[ptr] - num /\ top >= SplitThresh

(* ... and done.                                                           *)
Returns(m, r, ptr) == Forms(m, r.heap, {}) /\ ptr = r.block

LEMMA FullHeap ==
    ASSUME NEW h, Full(h)
    PROVE  /\ h \in Heaps /\ Good(h) /\ h.free \in Seq(Blocks) /\ Len(h.free) \in Nat
           /\ h.used \in Seq(Blocks) /\ Len(h.used) \in Nat /\ h.fresh \in Seq(Blocks)
           /\ h.addr \in Fields /\ h.size \in Fields /\ Chains(h)
<1>1. h \in Heaps /\ Good(h) /\ Listed(h, Blocks)
  BY DEF Full, Good
<1>2. /\ h.free \in Seq(Blocks) /\ Len(h.free) \in Nat
      /\ h.used \in Seq(Blocks) /\ Len(h.used) \in Nat /\ h.fresh \in Seq(Blocks)
      /\ h.addr \in Fields /\ h.size \in Fields
  BY <1>1, FieldsOf
<1> QED BY <1>1, <1>2, ListedChains

(* for (; ptr != NULL; prev = ptr, ptr = ptr->next)                        *)
LEMMA ScanStep ==
    ASSUME NEW m, NEW h, Full(h), NEW num \in Rounds, NEW ptr, NEW prev, NEW top,
           ScanAt(m, h, num, ptr, prev, top)
    PROVE  LET fitting == /\ Wrap(m.addr[ptr] + m.size[ptr]) >= top
                          /\ Wrap(m.addr[ptr] + num) <= Limit
           IN  /\ ptr = 0 => Unfit(h, num, Len(h.free) + 1) /\ Forms(m, h, {}) /\ top = h.top
               /\ ptr # 0 /\ fitting => FoundAt(m, h, num, ptr, prev) /\ IsTop(h, ptr, num)
               /\ ptr # 0 /\ ~fitting /\ m.size[ptr] >= num =>
                    FoundAt(m, h, num, ptr, prev) /\ ~IsTop(h, ptr, num)
               /\ ptr # 0 /\ ~fitting /\ ~(m.size[ptr] >= num) =>
                    ScanAt(m, h, num, m.next[ptr], ptr, top)
<1> DEFINE s == h.free
           fitting == Wrap(m.addr[ptr] + m.size[ptr]) >= top /\ Wrap(m.addr[ptr] + num) <= Limit
<1>1. Forms(m, h, {}) /\ top = h.top
  BY DEF ScanAt
<1>2. PICK i \in 1 .. Len(s) + 1 : ptr = Elem(s, i) /\ prev = Elem(s, i - 1) /\ Unfit(h, num, i)
  BY DEF ScanAt
<1>3. s \in Seq(Blocks) /\ Len(s) \in Nat /\ Good(h)
  BY FullHeap
<1>4. i \in Int /\ (i # Len(s) + 1 => i \in 1 .. Len(s)) /\ Len(s) + 1 \notin 1 .. Len(s)
  BY <1>2, <1>3
<1>5. /\ ptr = 0 => i = Len(s) + 1
      /\ ptr # 0 => i \in 1 .. Len(s) /\ ptr = s[i]
  <2>1. Elem(s, i) # 0 <=> i \in 1 .. Len(s)
    BY <1>3, <1>4, ElemValue
  <2>2. i \in 1 .. Len(s) => Elem(s, i) = s[i]
    BY DEF Elem
  <2> QED BY <1>2, <1>4, <2>1, <2>2
<1>6. ASSUME ptr # 0
      PROVE  /\ fitting <=> IsTop(h, ptr, num)
             /\ m.size[ptr] = h.size[ptr] /\ m.next[ptr] = Elem(s, i + 1)
  <2>1. m.addr = h.addr /\ m.size = h.size /\ Linked(m.next, m.free, s, {})
    BY <1>1 DEF Forms, Chained
  <2>2. Wrap(h.addr[ptr] + h.size[ptr]) = End(h, ptr)
    BY <1>3, <1>5, <1>6, FreeBlocks
  <2>3. fitting <=> IsTop(h, ptr, num)
    BY <1>1, <2>1, <2>2 DEF IsTop
  <2>4. m.next[ptr] = Elem(s, i + 1)
    BY <1>5, <1>6, <2>1 DEF Linked
  <2> QED BY <2>1, <2>3, <2>4
<1> HIDE DEF fitting
<1>7. ptr # 0 /\ (fitting \/ m.size[ptr] >= num) => FoundAt(m, h, num, ptr, prev)
  <2> SUFFICES ASSUME ptr # 0, fitting \/ m.size[ptr] >= num
               PROVE  FoundAt(m, h, num, ptr, prev)
    OBVIOUS
  <2>1. Chosen(h, num, i)
    BY <1>2, <1>5, <1>6 DEF Chosen, Fits
  <2> QED BY <1>1, <1>2, <1>5, <2>1 DEF FoundAt
<1>8. ptr # 0 /\ ~fitting /\ ~(m.size[ptr] >= num) => ScanAt(m, h, num, m.next[ptr], ptr, top)
  <2> SUFFICES ASSUME ptr # 0, ~fitting, ~(m.size[ptr] >= num)
               PROVE  ScanAt(m, h, num, m.next[ptr], ptr, top)
    OBVIOUS
  <2>1. ~Fits(h, num, s[i]) /\ i \in 1 .. Len(s)
    BY <1>5, <1>6 DEF Fits
  <2>2. Unfit(h, num, i + 1)
    <3> SUFFICES ASSUME NEW j \in 1 .. Len(s), j < i + 1
                 PROVE  ~Fits(h, num, s[j])
      BY DEF Unfit
    <3>1. j < i \/ j = i
      BY <1>2, <1>3
    <3> QED BY <1>2, <2>1, <3>1 DEF Unfit
  <2>3. /\ i + 1 \in 1 .. Len(s) + 1 /\ m.next[ptr] = Elem(s, i + 1)
        /\ ptr = Elem(s, (i + 1) - 1)
    <3>1. (i + 1) - 1 = i
      BY <1>2, <1>3
    <3> QED BY <1>2, <1>3, <1>6, <2>1, <3>1
  <2> QED BY <1>1, <2>2, <2>3 DEF ScanAt
<1>9. ptr = 0 => Unfit(h, num, Len(h.free) + 1)
  BY <1>2, <1>5
<1> QED BY <1>1, <1>6, <1>7, <1>8, <1>9 DEF fitting

LEMMA UnlinkStep ==
    ASSUME NEW m, Stored(m), NEW h, Full(h), NEW num, NEW ptr, NEW prev,
           FoundAt(m, h, num, ptr, prev)
    PROVE  LET w == Link(m, "free", prev, m.next[ptr])
           IN  Stored(w) /\ PushAt(w, h, num, ptr)
<1>1. PICK i \in 1 .. Len(h.free) :
         Forms(m, h, {}) /\ Chosen(h, num, i) /\ ptr = h.free[i] /\ prev = Elem(h.free, i - 1)
  BY DEF FoundAt
<1> DEFINE w == Link(m, "free", prev, m.next[ptr])
<1>2. Stored(w) /\ Forms(w, Unlinked(h, i), {})
  <2>1. Chains(h)
    BY FullHeap
  <2> QED BY <1>1, <2>1, FreeUnlinked DEF Unlinked
<1> HIDE DEF w
<1> QED BY <1>1, <1>2 DEF PushAt, w

LEMMA PushStep ==
    ASSUME NEW m, Stored(m), NEW h, Full(h), NEW num, NEW ptr, PushAt(m, h, num, ptr)
    PROVE  LET w == [m EXCEPT !.next[ptr] = m.used]
           IN  Stored(w) /\ UsedAt(w, h, num, ptr)
<1>1. PICK i \in 1 .. Len(h.free) :
         Chosen(h, num, i) /\ ptr = h.free[i] /\ Forms(m, Unlinked(h, i), {})
  BY DEF PushAt
<1> DEFINE w == [m EXCEPT !.next[ptr] = m.used]
<1>2. Chains(Unlinked(h, i)) /\ OffLists(Unlinked(h, i), ptr)
  BY <1>1, UnlinkedLists
<1>3. Stored(w) /\ Forms(w, Unlinked(h, i), {}) /\ w.next[ptr] = w.used
  <2> DEFINE u == Unlinked(h, i)
  <2>1. Forms(m, u, {}) /\ Chains(u) /\ OffLists(u, ptr)
    BY <1>1, <1>2
  <2> HIDE DEF u
  <2>2. Stored(w) /\ Forms(w, u, {}) /\ w.next[ptr] = w.used
    BY <2>1, UsedPushed
  <2> HIDE DEF w
  <2> QED BY <2>2 DEF u
<1> HIDE DEF w
<1> QED BY <1>1, <1>3 DEF PushAt, UsedAt, w

LEMMA SetUsedStep ==
    ASSUME NEW m, Stored(m), NEW h, Full(h), NEW num, NEW ptr, UsedAt(m, h, num, ptr)
    PROVE  LET w == [m EXCEPT !.used = ptr]
           IN  Stored(w) /\ MovedAt(w, h, num, ptr)
<1>1. PICK i \in 1 .. Len(h.free) :
         Chosen(h, num, i) /\ ptr = h.free[i] /\ Forms(m, Unlinked(h, i), {})
  BY DEF PushAt, UsedAt
<1>2. m.next[ptr] = m.used
  BY DEF UsedAt
<1> DEFINE w == [m EXCEPT !.used = ptr]
           u == Unlinked(h, i)
<1>3. /\ u.free = RemoveAt(h.free, i) /\ u.used = h.used /\ u.fresh = h.fresh
      /\ u.addr = h.addr /\ u.size = h.size /\ u.top = h.top
  BY DEF Unlinked, Arena
<1>4. ptr \in Blocks /\ h.used \in Seq(Blocks)
      /\ Moved(h, i) = Arena(RemoveAt(h.free, i), Used(h, i), h.fresh, h.addr, h.size, h.top)
  BY <1>1, UnlinkedLists, FullHeap
<1> HIDE DEF u
<1>5. Stored(w) /\ Forms(w, Arena(u.free, <<ptr>> \o u.used, u.fresh, u.addr, u.size, u.top), {})
  <2>1. u.used \in Seq(Blocks) /\ Forms(m, u, {})
    BY <1>1, <1>3, <1>4 DEF u
  <2> QED BY <1>2, <1>4, <2>1, UsedHead
<1>6. Forms(w, Moved(h, i), {})
  BY <1>1, <1>3, <1>4, <1>5 DEF Used
<1> HIDE DEF w
<1> QED BY <1>1, <1>5, <1>6 DEF MovedAt, w

LEMMA ResizeStep ==
    ASSUME NEW m, Stored(m), NEW h, Full(h), NEW num, NEW ptr, MovedAt(m, h, num, ptr)
    PROVE  LET w == [m EXCEPT !.size[ptr] = num]
           IN  Stored(w) /\ ShrunkAt(w, h, num, ptr)
<1>1. PICK i \in 1 .. Len(h.free) :
         Chosen(h, num, i) /\ ptr = h.free[i] /\ Forms(m, Moved(h, i), {})
  BY DEF MovedAt
<1> DEFINE w == [m EXCEPT !.size[ptr] = num]
           t == Moved(h, i)
<1>2. t = Arena(RemoveAt(h.free, i), Used(h, i), h.fresh, h.addr, h.size, h.top)
  BY <1>1, UnlinkedLists
<1> HIDE DEF t
<1>3. /\ t.free = RemoveAt(h.free, i) /\ t.used = Used(h, i) /\ t.fresh = h.fresh
      /\ t.addr = h.addr /\ t.size = h.size /\ t.top = h.top
  BY <1>2 DEF Arena
<1>4. Stored(w)
      /\ Forms(w, Arena(t.free, t.used, t.fresh, t.addr, [t.size EXCEPT ![ptr] = num], t.top), {})
  <2>1. Forms(m, t, {})
    BY <1>1 DEF t
  <2> QED BY <2>1, SizeSet
<1>5. Forms(w, Shrunk(h, i, num), {})
  BY <1>1, <1>3, <1>4 DEF Shrunk
<1> HIDE DEF w
<1> QED BY <1>1, <1>4, <1>5 DEF ShrunkAt, w

LEMMA SetTopStep ==
    ASSUME NEW m, Stored(m), NEW h, Full(h), NEW num \in Rounds, NEW ptr,
           ShrunkAt(m, h, num, ptr), IsTop(h, ptr, num), NEW p
    PROVE  LET w == [m EXCEPT !.top = Wrap(m.addr[ptr] + num)]
           IN  Stored(w) /\ Returns(w, Result(h, "alloc", num, p), ptr)
<1>1. PICK i \in 1 .. Len(h.free) :
         Chosen(h, num, i) /\ ptr = h.free[i] /\ Forms(m, Shrunk(h, i, num), {})
  BY DEF ShrunkAt
<1> DEFINE z == Wrap(m.addr[ptr] + num)
           w == [m EXCEPT !.top = z]
           t == Shrunk(h, i, num)
<1>2. /\ t.free = RemoveAt(h.free, i) /\ t.used = Used(h, i) /\ t.fresh = h.fresh
      /\ t.addr = h.addr /\ t.size = [h.size EXCEPT ![h.free[i]] = num]
  BY DEF Shrunk, Arena
<1> HIDE DEF t
<1>3. z = Wrap(h.addr[ptr] + num)
  BY <1>1, <1>2 DEF Forms, t
<1> HIDE DEF z
<1>4. Stored(w) /\ Forms(w, Arena(t.free, t.used, t.fresh, t.addr, t.size, z), {})
  <2>1. Forms(m, t, {})
    BY <1>1 DEF t
  <2> QED BY <2>1, TopSet
<1>5. Arena(t.free, t.used, t.fresh, t.addr, t.size, z) = Grown(h, i, num)
  BY <1>1, <1>2, <1>3 DEF Grown
<1>6. TakeFree(h, i, num) = Grown(h, i, num)
  BY <1>1, TakeFreeIs
<1>7. Result(h, "alloc", num, p).heap = TakeFree(h, i, num)
        /\ Result(h, "alloc", num, p).block = ptr
  BY <1>1, ChosenResult, FullHeap
<1> HIDE DEF w
<1> QED BY <1>4, <1>5, <1>6, <1>7 DEF Returns, w, z

LEMMA SplitStep ==
    ASSUME NEW m, Stored(m), NEW h, Full(h), NEW num \in Rounds, NEW ptr,
           MovedAt(m, h, num, ptr), ~IsTop(h, ptr, num), NEW p
    PROVE  IF m.fresh # 0 /\ m.size[ptr] - num >= SplitThresh
           THEN Excess(h, num, ptr, m.fresh, m.size[ptr] - num)
           ELSE Returns(m, Result(h, "alloc", num, p), ptr)
<1>1. PICK i \in 1 .. Len(h.free) :
         Chosen(h, num, i) /\ ptr = h.free[i] /\ Forms(m, Moved(h, i), {})
  BY DEF MovedAt
<1> DEFINE t == Moved(h, i)
<1>2. t = Arena(RemoveAt(h.free, i), Used(h, i), h.fresh, h.addr, h.size, h.top)
  BY <1>1, UnlinkedLists
<1> HIDE DEF t
<1>3. t.fresh = h.fresh /\ t.size = h.size
  BY <1>2 DEF Arena
<1>4. m.size[ptr] = h.size[ptr] /\ m.fresh = Elem(h.fresh, 1)
  BY <1>1, <1>3 DEF Forms, Chained, Linked, t
<1>5. /\ m.fresh # 0 <=> h.fresh # <<>>
      /\ m.fresh # 0 => m.fresh = Head(h.fresh)
  <2>1. h.fresh \in Seq(Blocks) /\ Len(h.fresh) \in Nat
    BY FullHeap
  <2>2. Elem(h.fresh, 1) # 0 <=> 1 \in 1 .. Len(h.fresh)
    BY <2>1, ElemValue
  <2>3. h.fresh # <<>> <=> 1 \in 1 .. Len(h.fresh)
    BY <2>1
  <2>4. h.fresh # <<>> => Elem(h.fresh, 1) = Head(h.fresh)
    BY <2>1, <2>3 DEF Elem
  <2> QED BY <1>4, <2>2, <2>3, <2>4
<1>6. TakeFree(h, i, num) =
         IF h.fresh # <<>> /\ h.size[ptr] - num >= SplitThresh THEN Split(t, ptr, num) ELSE t
  BY <1>1, TakeFreeIs DEF t
<1>7. Result(h, "alloc", num, p).heap = TakeFree(h, i, num)
        /\ Result(h, "alloc", num, p).block = ptr
  BY <1>1, ChosenResult, FullHeap
<1>8. CASE m.fresh # 0 /\ m.size[ptr] - num >= SplitThresh
  BY <1>4, <1>5, <1>8 DEF Excess
<1>9. CASE ~(m.fresh # 0 /\ m.size[ptr] - num >= SplitThresh)
  <2>1. TakeFree(h, i, num) = t
    BY <1>4, <1>5, <1>6, <1>9
  <2>2. Returns(m, Result(h, "alloc", num, p), ptr)
    BY <1>1, <1>7, <2>1 DEF Returns, t
  <2> QED BY <1>9, <2>2
<1> QED BY <1>8, <1>9

LEMMA TakeStep ==
    ASSUME NEW m, Stored(m), NEW h, Full(h), NEW num, NEW ptr, ShrunkAt(m, h, num, ptr),
           NEW block, NEW top, Excess(h, num, ptr, block, top)
    PROVE  LET w == [m EXCEPT !.fresh = m.next[block]]
           IN  Stored(w) /\ RestAt(w, h, num, ptr)
<1>1. PICK i \in 1 .. Len(h.free) :
         Chosen(h, num, i) /\ ptr = h.free[i] /\ Forms(m, Shrunk(h, i, num), {})
  BY DEF ShrunkAt
<1> DEFINE w == [m EXCEPT !.fresh = m.next[block]]
           t == Shrunk(h, i, num)
           g == Moved(h, i)
<1>2. h.fresh # <<>> /\ block = Head(h.fresh)
  BY DEF Excess
<1>3. /\ t.free = RemoveAt(h.free, i) /\ t.used = Used(h, i) /\ t.fresh = h.fresh
      /\ t.addr = h.addr /\ t.size = [h.size EXCEPT ![h.free[i]] = num] /\ t.top = h.top
  BY DEF Shrunk, Arena
<1>4. Chains(g) /\ g.free = t.free /\ g.used = t.used /\ g.fresh = t.fresh
  <2>1. g = Arena(RemoveAt(h.free, i), Used(h, i), h.fresh, h.addr, h.size, h.top) /\ Chains(g)
    BY <1>1, UnlinkedLists
  <2> HIDE DEF g, t
  <2> QED BY <1>3, <2>1 DEF Arena
<1> HIDE DEF t, g
<1>5. Chains(t)
  BY <1>4 DEF Chains
<1>6. Stored(w)
      /\ Forms(w, Arena(t.free, t.used, Tail(t.fresh), t.addr, t.size, t.top), {})
  <2>1. Forms(m, t, {}) /\ t.fresh # <<>> /\ block = Head(t.fresh)
    BY <1>1, <1>2, <1>3 DEF t
  <2> QED BY <1>5, <2>1, FreshTaken
<1>7. Forms(w, Taken(h, i, num), {})
  BY <1>3, <1>6 DEF Taken
<1> HIDE DEF w
<1> QED BY <1>1, <1>6, <1>7 DEF RestAt, w

(* Before insert_block(block), ptr being what the call will return.        *)
ReadyAt(m, r, ptr, block) ==
    /\ ptr = r.block
    /\ \E g : Inserting(g, block, r.heap) /\ Forms(m, g, {})

(* alloc_block has gone through the free list...                           *)
NewAt(m, h, num, top) == Forms(m, h, {}) /\ top = h.top /\ Unfit(h, num, Len(h.free) + 1)

(* ... and makes the first fresh block one at top.                         *)
AtTop(h, num, ptr, top) == AtEnd(h, num) /\ top = h.top /\ ptr = Head(h.fresh)
FreshAt(m, h, num, ptr, top) == AtTop(h, num, ptr, top) /\ Forms(m, h, {})
AddrAt(m, h, num, ptr, top) == AtTop(h, num, ptr, top) /\ Forms(m, Unused(h), {})
ExtendedAt(m, h, num, ptr, top) ==
    AtTop(h, num, ptr, top) /\ Forms(m, Extended(h, num), {}) /\ m.next[ptr] = m.used
PushedAt(m, h, num, ptr, top) == AtTop(h, num, ptr, top) /\ Forms(m, Pushed(h, num), {})

(* ta_free goes through the used list.                                     *)
FindAt(m, h, p, ptr, prev) ==
    /\ Forms(m, h, {})
    /\ \E i \in 1 .. Len(h.used) + 1 :
          /\ ptr = Elem(h.used, i) /\ prev = Elem(h.used, i - 1)
          /\ \A j \in 1 .. Len(h.used) : j < i => h.addr[h.used[j]] # p

LEMMA RestStep ==
    ASSUME NEW m, Stored(m), NEW h, Full(h), NEW num \in Rounds, NEW ptr, RestAt(m, h, num, ptr),
           NEW block, NEW top, Excess(h, num, ptr, block, top), ~IsTop(h, ptr, num), NEW p
    PROVE  LET w == [m EXCEPT !.addr[block] = m.addr[ptr] + num, !.size[block] = top]
           IN  Stored(w) /\ ReadyAt(w, Result(h, "alloc", num, p), ptr, block)
<1>1. PICK i \in 1 .. Len(h.free) :
         Chosen(h, num, i) /\ ptr = h.free[i] /\ Forms(m, Taken(h, i, num), {})
  BY DEF RestAt
<1> DEFINE a == m.addr[ptr] + num
           w == [m EXCEPT !.addr[block] = a, !.size[block] = top]
           t == Taken(h, i, num)
<1>2. h.fresh # <<>> /\ block = Head(h.fresh) /\ top = h.size[ptr] - num /\ top >= SplitThresh
  BY DEF Excess
<1>3. /\ t.free = RemoveAt(h.free, i) /\ t.used = Used(h, i) /\ t.fresh = Tail(h.fresh)
      /\ t.addr = h.addr /\ t.size = [h.size EXCEPT ![h.free[i]] = num] /\ t.top = h.top
  BY DEF Taken, Arena
<1> HIDE DEF t
<1>4. a = h.addr[ptr] + num
  BY <1>1, <1>3 DEF Forms, t
<1> HIDE DEF a
<1>5. /\ Stored(w)
      /\ Forms(w, Arena(t.free, t.used, t.fresh, [t.addr EXCEPT ![block] = a],
                        [t.size EXCEPT ![block] = top], t.top), {})
  <2>1. Forms(m, t, {})
    BY <1>1 DEF t
  <2> QED BY <2>1, FieldsSet
<1> HIDE DEF w
<1>6. Forms(w, Carved(h, i, num), {})
  BY <1>1, <1>2, <1>3, <1>4, <1>5 DEF Carved
<1>7. Inserting(Carved(h, i, num), block, Split(Moved(h, i), ptr, num))
  <2>1. num \in Nat \ {0}
    BY RoundedTwice
  <2>2. h.size[ptr] \in Nat
    BY <1>1, FullHeap, FreeBlocks
  <2>3. num < h.size[h.free[i]]
    BY <1>1, <1>2, <2>1, <2>2, ArenaAssumption
  <2> QED BY <1>1, <1>2, <2>1, <2>3, CarvedInserting
<1>8. TakeFree(h, i, num) = Split(Moved(h, i), ptr, num)
  BY <1>1, <1>2, TakeFreeIs
<1>9. Result(h, "alloc", num, p).heap = TakeFree(h, i, num)
        /\ Result(h, "alloc", num, p).block = ptr
  BY <1>1, ChosenResult, FullHeap
<1> QED BY <1>5, <1>6, <1>7, <1>8, <1>9 DEF ReadyAt, w, a
-----------------------------------------------------------------------------
LEMMA FirstFresh ==
    ASSUME NEW m, NEW h, Full(h), Forms(m, h, {})
    PROVE  /\ m.fresh # 0 <=> h.fresh # <<>>
           /\ m.fresh # 0 => m.fresh = Head(h.fresh)
<1>1. m.fresh = Elem(h.fresh, 1)
  BY DEF Forms, Chained, Linked
<1>2. h.fresh \in Seq(Blocks) /\ Len(h.fresh) \in Nat
  BY FullHeap
<1>3. Elem(h.fresh, 1) # 0 <=> 1 \in 1 .. Len(h.fresh)
  BY <1>2, ElemValue
<1>4. h.fresh # <<>> <=> 1 \in 1 .. Len(h.fresh)
  BY <1>2
<1>5. h.fresh # <<>> => Elem(h.fresh, 1) = Head(h.fresh)
  BY <1>2, <1>4 DEF Elem
<1> QED BY <1>1, <1>3, <1>4, <1>5

LEMMA NewStep ==
    ASSUME NEW m, NEW h, Full(h), NEW num \in Rounds, NEW top, NewAt(m, h, num, top), NEW p
    PROVE  IF m.fresh # 0 /\ Wrap(top + num) <= Limit
           THEN FreshAt(m, h, num, m.fresh, top)
           ELSE /\ Returns(m, Result(h, "alloc", num, p), 0)
                /\ Result(h, "alloc", num, p).heap = h
<1>1. Forms(m, h, {}) /\ top = h.top /\ Unfit(h, num, Len(h.free) + 1)
  BY DEF NewAt
<1>2. /\ m.fresh # 0 <=> h.fresh # <<>>
      /\ m.fresh # 0 => m.fresh = Head(h.fresh)
  BY <1>1, FirstFresh
<1>3. Len(h.free) \in Nat
  BY FullHeap
<1>4. CASE m.fresh # 0 /\ Wrap(top + num) <= Limit
  BY <1>1, <1>2, <1>4 DEF FreshAt, AtTop, AtEnd
<1>5. CASE ~(m.fresh # 0 /\ Wrap(top + num) <= Limit)
  <2>1. Result(h, "alloc", num, p).heap = h /\ Result(h, "alloc", num, p).block = NoBlock
    BY <1>1, <1>2, <1>3, <1>5, EndResult
  <2> QED BY <1>1, <1>5, <2>1 DEF Returns, NoBlock
<1> QED BY <1>4, <1>5

LEMMA FreshStep ==
    ASSUME NEW m, Stored(m), NEW h, Full(h), NEW num, NEW ptr, NEW top,
           FreshAt(m, h, num, ptr, top)
    PROVE  LET w == [m EXCEPT !.fresh = m.next[ptr]]
           IN  Stored(w) /\ AddrAt(w, h, num, ptr, top)
<1> DEFINE w == [m EXCEPT !.fresh = m.next[ptr]]
<1>1. /\ AtTop(h, num, ptr, top) /\ Forms(m, h, {})
      /\ h.fresh # <<>> /\ ptr = Head(h.fresh)
  BY DEF FreshAt, AtTop, AtEnd
<1>2. Chains(h)
  BY FullHeap
<1>3. Stored(w) /\ Forms(w, Unused(h), {})
  BY <1>1, <1>2, FreshTaken DEF Unused
<1> HIDE DEF w
<1> QED BY <1>1, <1>3 DEF AddrAt, w

LEMMA AddrStep ==
    ASSUME NEW m, Stored(m), NEW h, Full(h), NEW num, NEW ptr, NEW top,
           AddrAt(m, h, num, ptr, top)
    PROVE  LET w == [m EXCEPT !.addr[ptr] = top, !.size[ptr] = num, !.next[ptr] = m.used]
           IN  Stored(w) /\ ExtendedAt(w, h, num, ptr, top)
<1> DEFINE w == [m EXCEPT !.addr[ptr] = top, !.size[ptr] = num, !.next[ptr] = m.used]
           t == Unused(h)
<1>1. /\ AtTop(h, num, ptr, top) /\ Forms(m, t, {})
      /\ h.fresh # <<>> /\ ptr = Head(h.fresh) /\ top = h.top
  BY DEF AddrAt, AtTop, AtEnd
<1>2. /\ t.free = h.free /\ t.used = h.used /\ t.fresh = Tail(h.fresh)
      /\ t.addr = h.addr /\ t.size = h.size /\ t.top = h.top
  BY DEF Unused, Arena
<1> HIDE DEF t
<1>3. Chains(t) /\ OffLists(t, ptr)
  <2>1. h.free \in Seq(Blocks) /\ h.used \in Seq(Blocks) /\ h.fresh \in Seq(Blocks)
          /\ Listed(h, Blocks)
    BY FullHeap DEF Good
  <2>2. /\ Tail(h.fresh) \in Seq(Blocks) /\ Once(Tail(h.fresh)) /\ ptr \in Blocks
        /\ ptr \in ToSet(h.fresh) /\ ToSet(Tail(h.fresh)) = ToSet(h.fresh) \ {ptr}
    <3>1. Once(h.fresh)
      BY <2>1 DEF Listed
    <3> QED BY <1>1, <2>1, <3>1, OnceTail
  <2>3. Listed(t, Blocks \ {ptr})
    BY <1>2, <2>1, <2>2 DEF Listed
  <2> QED BY <1>2, <2>1, <2>2, <2>3, ListedChains
<1>4. /\ Stored(w)
      /\ Forms(w, Arena(t.free, t.used, t.fresh, [t.addr EXCEPT ![ptr] = top],
                        [t.size EXCEPT ![ptr] = num], t.top), {})
      /\ w.next[ptr] = w.used
  <2>1. Forms(m, t, {}) /\ Chains(t) /\ OffLists(t, ptr)
    BY <1>1, <1>3
  <2>2. NewStored(m, t, ptr, top, num, w)
    BY <2>1, NewSet
  <2> HIDE DEF w
  <2> QED BY <2>2 DEF NewStored
<1> HIDE DEF w
<1>5. Forms(w, Extended(h, num), {})
  BY <1>1, <1>2, <1>4 DEF Extended
<1> QED BY <1>1, <1>4, <1>5 DEF ExtendedAt, w

LEMMA NewUsedStep ==
    ASSUME NEW m, Stored(m), NEW h, Full(h), NEW num, NEW ptr, NEW top,
           ExtendedAt(m, h, num, ptr, top)
    PROVE  LET w == [m EXCEPT !.used = ptr]
           IN  Stored(w) /\ PushedAt(w, h, num, ptr, top)
<1> DEFINE w == [m EXCEPT !.used = ptr]
           t == Extended(h, num)
<1>1. /\ AtTop(h, num, ptr, top) /\ Forms(m, t, {}) /\ m.next[ptr] = m.used
      /\ h.fresh # <<>> /\ ptr = Head(h.fresh)
  BY DEF ExtendedAt, AtTop, AtEnd
<1>2. /\ t.free = h.free /\ t.used = h.used /\ t.fresh = Tail(h.fresh)
      /\ t.addr = [h.addr EXCEPT ![Head(h.fresh)] = h.top]
      /\ t.size = [h.size EXCEPT ![Head(h.fresh)] = num] /\ t.top = h.top
  BY DEF Extended, Arena
<1> HIDE DEF t
<1>3. h.used \in Seq(Blocks) /\ ptr \in Blocks
  <2>1. h.used \in Seq(Blocks) /\ h.fresh \in Seq(Blocks)
    BY FullHeap
  <2> QED BY <1>1, <2>1
<1>4. Stored(w) /\ Forms(w, Arena(t.free, <<ptr>> \o t.used, t.fresh, t.addr, t.size, t.top), {})
  BY <1>1, <1>2, <1>3, UsedHead
<1> HIDE DEF w
<1>5. Forms(w, Pushed(h, num), {})
  BY <1>1, <1>2, <1>4 DEF Pushed
<1> QED BY <1>1, <1>4, <1>5 DEF PushedAt, w

LEMMA NewTopStep ==
    ASSUME NEW m, Stored(m), NEW h, Full(h), NEW num \in Rounds, NEW ptr, NEW top,
           PushedAt(m, h, num, ptr, top), NEW p
    PROVE  LET w == [m EXCEPT !.top = Wrap(top + num)]
           IN  Stored(w) /\ Returns(w, Result(h, "alloc", num, p), ptr)
<1> DEFINE z == Wrap(top + num)
           w == [m EXCEPT !.top = z]
           t == Pushed(h, num)
<1>1. /\ Forms(m, t, {}) /\ h.fresh # <<>> /\ ptr = Head(h.fresh) /\ top = h.top
      /\ Unfit(h, num, Len(h.free) + 1) /\ Wrap(h.top + num) <= Limit
  BY DEF PushedAt, AtTop, AtEnd
<1>2. /\ t.free = h.free /\ t.used = <<Head(h.fresh)>> \o h.used /\ t.fresh = Tail(h.fresh)
      /\ t.addr = [h.addr EXCEPT ![Head(h.fresh)] = h.top]
      /\ t.size = [h.size EXCEPT ![Head(h.fresh)] = num]
  BY DEF Pushed, Arena
<1> HIDE DEF t
<1>3. z = Wrap(h.top + num)
  BY <1>1
<1> HIDE DEF z
<1>4. Stored(w) /\ Forms(w, Arena(t.free, t.used, t.fresh, t.addr, t.size, z), {})
  BY <1>1, TopSet
<1> HIDE DEF w
<1>5. Forms(w, AppendBlock(h, num), {})
  <2>1. AppendBlock(h, num) = Appended(h, num)
    BY <1>1, AppendIs
  <2> QED BY <1>1, <1>2, <1>3, <1>4, <2>1 DEF Appended
<1>6. /\ Result(h, "alloc", num, p).heap = AppendBlock(h, num)
      /\ Result(h, "alloc", num, p).block = ptr
  <2>1. Len(h.free) \in Nat
    BY FullHeap
  <2> QED BY <1>1, <2>1, EndResult
<1> QED BY <1>4, <1>5, <1>6 DEF Returns, w, z
-----------------------------------------------------------------------------
(* The used block that starts at the pointer is looked for.                *)
LEMMA FindStep ==
    ASSUME NEW m, Stored(m), NEW h, Full(h), NEW p, NEW ptr, NEW prev,
           FindAt(m, h, p, ptr, prev), NEW num
    PROVE  LET w == Link(m, "used", prev, m.next[ptr])
               r == Result(h, "free", num, p)
           IN  /\ ptr = 0 => Returns(m, r, ptr) /\ r.heap = h
               /\ ptr # 0 /\ m.addr[ptr] # p => FindAt(m, h, p, m.next[ptr], ptr)
               /\ ptr # 0 /\ m.addr[ptr] = p => Stored(w) /\ ReadyAt(w, r, ptr, ptr)
<1> DEFINE s == h.used
           w == Link(m, "used", prev, m.next[ptr])
           r == Result(h, "free", num, p)
<1>1. Forms(m, h, {})
  BY DEF FindAt
<1>2. PICK i \in 1 .. Len(s) + 1 :
         /\ ptr = Elem(s, i) /\ prev = Elem(s, i - 1)
         /\ \A j \in 1 .. Len(s) : j < i => h.addr[s[j]] # p
  BY DEF FindAt
<1>3. s \in Seq(Blocks) /\ Len(s) \in Nat /\ Chains(h)
  BY FullHeap
<1>4. i \in Int /\ (i # Len(s) + 1 => i \in 1 .. Len(s)) /\ Len(s) + 1 \notin 1 .. Len(s)
  BY <1>2, <1>3
<1>5. /\ ptr = 0 => i = Len(s) + 1
      /\ ptr # 0 => i \in 1 .. Len(s) /\ ptr = s[i]
  <2>1. Elem(s, i) # 0 <=> i \in 1 .. Len(s)
    BY <1>3, <1>4, ElemValue
  <2>2. i \in 1 .. Len(s) => Elem(s, i) = s[i]
    BY DEF Elem
  <2> QED BY <1>2, <1>4, <2>1, <2>2
<1>6. ptr = 0 => Returns(m, r, ptr) /\ r.heap = h
  <2> SUFFICES ASSUME ptr = 0
               PROVE  Returns(m, r, ptr) /\ r.heap = h
    OBVIOUS
  <2>1. i = Len(s) + 1
    BY <1>5
  <2>2. r.heap = h /\ r.block = NoBlock
    BY <1>2, <1>3, <2>1, FreeResult
  <2> HIDE DEF r
  <2> QED BY <1>1, <2>2 DEF Returns, NoBlock
<1>7. ptr # 0 => m.addr[ptr] = h.addr[s[i]] /\ m.next[ptr] = Elem(s, i + 1)
  <2>1. m.addr = h.addr /\ Linked(m.next, m.used, s, {})
    BY <1>1 DEF Forms, Chained
  <2> QED BY <1>5, <2>1 DEF Linked
<1>8. ptr # 0 /\ m.addr[ptr] # p => FindAt(m, h, p, m.next[ptr], ptr)
  <2> SUFFICES ASSUME ptr # 0, m.addr[ptr] # p
               PROVE  FindAt(m, h, p, m.next[ptr], ptr)
    OBVIOUS
  <2>1. \A j \in 1 .. Len(s) : j < i + 1 => h.addr[s[j]] # p
    <3> SUFFICES ASSUME NEW j \in 1 .. Len(s), j < i + 1
                 PROVE  h.addr[s[j]] # p
      OBVIOUS
    <3>1. j < i \/ j = i
      BY <1>4
    <3> QED BY <1>2, <1>7, <3>1
  <2>2. /\ i + 1 \in 1 .. Len(s) + 1 /\ m.next[ptr] = Elem(s, i + 1)
        /\ ptr = Elem(s, (i + 1) - 1)
    <3>1. (i + 1) - 1 = i
      BY <1>4
    <3> QED BY <1>2, <1>3, <1>5, <1>7, <3>1
  <2> QED BY <1>1, <2>1, <2>2 DEF FindAt
<1>9. ptr # 0 /\ m.addr[ptr] = p => Stored(w) /\ ReadyAt(w, r, ptr, ptr)
  <2> SUFFICES ASSUME ptr # 0, m.addr[ptr] = p
               PROVE  Stored(w) /\ ReadyAt(w, r, ptr, ptr)
    OBVIOUS
  <2>1. i \in 1 .. Len(s) /\ ptr = s[i] /\ h.addr[s[i]] = p
    BY <1>5, <1>7
  <2>2. r.heap = Freed(h, i) /\ r.block = s[i]
    <3>1. i # Len(s) + 1
      BY <1>4, <2>1
    <3>2. i \in 1 .. Len(h.used) + 1
      BY <1>2
    <3>3. \A j \in 1 .. Len(h.used) : j < i => h.addr[h.used[j]] # p
      BY <1>2
    <3>4. IF i = Len(h.used) + 1 THEN r.heap = h /\ r.block = NoBlock
          ELSE r.heap = Freed(h, i) /\ r.block = h.used[i]
      BY <1>3, <2>1, <3>2, <3>3, FreeResult
    <3> QED BY <3>1, <3>4
  <2> HIDE DEF r
  <2>3. Stored(w) /\ Forms(w, NotUsed(h, i), {})
    BY <1>1, <1>2, <1>3, <2>1, UsedUnlinked DEF NotUsed
  <2>4. Inserting(NotUsed(h, i), s[i], Freed(h, i))
    BY <2>1, NotUsedInserting
  <2> HIDE DEF w
  <2> QED BY <2>1, <2>2, <2>3, <2>4 DEF ReadyAt
<1> QED BY <1>6, <1>8, <1>9

(* insert_block looks for the block's place and puts it there...           *)
PlaceAt(m, r, next, block, ptr, prev) ==
    /\ next = r.block
    /\ \E g : /\ Inserting(g, block, r.heap) /\ Forms(m, g, {})
              /\ \E i \in 1 .. Len(g.free) + 1 :
                    /\ ptr = Elem(g.free, i) /\ prev = Elem(g.free, i - 1)
                    /\ \A j \in 1 .. Len(g.free) : j < i => g.addr[block] > g.addr[g.free[j]]
LinkAt(m, r, next, block, ptr) ==
    /\ next = r.block
    /\ \E u : /\ Good(u) /\ Compact(u) = r.heap /\ Forms(m, u, Only(block))
              /\ \E i \in 1 .. Len(u.free) : u.free[i] = block /\ ptr = Elem(u.free, i + 1)

(* ... compact starts on the run at ptr, follows it, ...                   *)
CompactAt(m, r, next, ptr) ==
    /\ next = r.block
    /\ \E g, i : Compacting(g, i, r.heap) /\ Forms(m, g, {}) /\ ptr = Elem(g.free, i)
RunAt(m, r, next, ptr, prev, scan) ==
    /\ next = r.block
    /\ \E g, i, k :
          /\ Compacting(g, i, r.heap) /\ Run(g, i, k) /\ Forms(m, g, {})
          /\ ptr = g.free[i] /\ prev = g.free[k] /\ scan = Elem(g.free, k + 1)

(* ... and releases its blocks, from the second one to prev: what is left  *)
(* to do of them is, in g, what Merge does.                                *)
Releasing(m, r, next, ptr, prev, scan, g, i, k) ==
    /\ next = r.block /\ Compacting(g, i, r.heap) /\ Run(g, i, k) /\ ~Touches(g, k)
    /\ ptr = g.free[i] /\ prev = Elem(g.free, k + 1) /\ scan = Elem(g.free, i + 1)
    /\ Sized(m, g, i, k)
ReleaseAt(m, r, next, ptr, prev, scan) ==
    \E g, i, k : Releasing(m, r, next, ptr, prev, scan, g, i, k) /\ Chained(m, g, Only(ptr))
SetFreshAt(m, r, next, ptr, prev, scan, top) ==
    \E g, i, k :
       /\ Releasing(m, r, next, ptr, prev, scan, g, i, k) /\ k # i
       /\ Chained(m, g, Pair(ptr, scan)) /\ m.next[scan] = m.fresh
       /\ top = Elem(g.free, i + 2)
ClearAt(m, r, next, ptr, prev, scan, top) ==
    \E g, i, k :
       /\ Releasing(m, r, next, ptr, prev, scan, g, i, k) /\ k # i
       /\ Chained(m, Merge(g, i), Only(ptr)) /\ top = Elem(g.free, i + 2)
-----------------------------------------------------------------------------
LEMMA InsertStep ==
    ASSUME NEW m, NEW r, NEW ptr, NEW block, ReadyAt(m, r, ptr, block)
    PROVE  PlaceAt(m, r, ptr, block, m.free, 0)
<1>1. PICK g : Inserting(g, block, r.heap) /\ Forms(m, g, {})
  BY DEF ReadyAt
<1>2. ptr = r.block
  BY DEF ReadyAt
<1>3. g.free \in Seq(Blocks) /\ Len(g.free) \in Nat
  BY <1>1, InsertingLists
<1>4. m.free = Elem(g.free, 1) /\ Elem(g.free, 1 - 1) = 0
  <2>1. 1 - 1 \notin 1 .. Len(g.free)
    OBVIOUS
  <2> QED BY <1>1, <2>1 DEF Forms, Chained, Linked, Elem
<1>5. 1 \in 1 .. Len(g.free) + 1 /\ \A j \in 1 .. Len(g.free) : ~(j < 1)
  BY <1>3
<1> QED BY <1>1, <1>2, <1>4, <1>5 DEF PlaceAt

LEMMA PlaceStep ==
    ASSUME NEW m, Stored(m), NEW r, NEW next, NEW block, NEW ptr, NEW prev,
           PlaceAt(m, r, next, block, ptr, prev)
    PROVE  LET w == Link(m, "free", prev, block)
           IN  IF ptr # 0 /\ m.addr[block] > m.addr[ptr]
               THEN PlaceAt(m, r, next, block, m.next[ptr], ptr)
               ELSE Stored(w) /\ LinkAt(w, r, next, block, ptr)
<1> DEFINE w == Link(m, "free", prev, block)
<1>1. next = r.block
  BY DEF PlaceAt
<1>2. PICK g : /\ Inserting(g, block, r.heap) /\ Forms(m, g, {})
               /\ \E i \in 1 .. Len(g.free) + 1 :
                     /\ ptr = Elem(g.free, i) /\ prev = Elem(g.free, i - 1)
                     /\ \A j \in 1 .. Len(g.free) : j < i => g.addr[block] > g.addr[g.free[j]]
  BY DEF PlaceAt
<1> DEFINE s == g.free
<1>3. PICK i \in 1 .. Len(s) + 1 :
         /\ ptr = Elem(s, i) /\ prev = Elem(s, i - 1)
         /\ \A j \in 1 .. Len(s) : j < i => g.addr[block] > g.addr[s[j]]
  BY <1>2
<1>4. s \in Seq(Blocks) /\ Len(s) \in Nat /\ Chains(g) /\ OffLists(g, block)
  BY <1>2, InsertingLists
<1>5. i \in Int /\ (i # Len(s) + 1 => i \in 1 .. Len(s)) /\ Len(s) + 1 \notin 1 .. Len(s)
  BY <1>3, <1>4
<1>6. /\ ptr = 0 <=> i = Len(s) + 1
      /\ ptr # 0 => i \in 1 .. Len(s) /\ ptr = s[i]
  <2>1. Elem(s, i) # 0 <=> i \in 1 .. Len(s)
    BY <1>4, <1>5, ElemValue
  <2>2. i \in 1 .. Len(s) => Elem(s, i) = s[i]
    BY DEF Elem
  <2> QED BY <1>3, <1>5, <2>1, <2>2
<1>7. m.addr = g.addr /\ (ptr # 0 => m.next[ptr] = Elem(s, i + 1))
  <2>1. m.addr = g.addr /\ Linked(m.next, m.free, s, {})
    BY <1>2 DEF Forms, Chained
  <2> QED BY <1>6, <2>1 DEF Linked
<1>8. CASE ptr # 0 /\ m.addr[block] > m.addr[ptr]
  <2>1. \A j \in 1 .. Len(s) : j < i + 1 => g.addr[block] > g.addr[s[j]]
    <3> SUFFICES ASSUME NEW j \in 1 .. Len(s), j < i + 1
                 PROVE  g.addr[block] > g.addr[s[j]]
      OBVIOUS
    <3>1. j < i \/ j = i
      BY <1>5
    <3> QED BY <1>3, <1>6, <1>7, <1>8, <3>1
  <2>2. /\ i + 1 \in 1 .. Len(s) + 1 /\ m.next[ptr] = Elem(s, i + 1)
        /\ ptr = Elem(s, (i + 1) - 1)
    <3>1. (i + 1) - 1 = i
      BY <1>5
    <3> QED BY <1>3, <1>4, <1>6, <1>7, <1>8, <3>1
  <2> QED BY <1>1, <1>2, <1>8, <2>1, <2>2 DEF PlaceAt
<1>9. CASE ~(ptr # 0 /\ m.addr[block] > m.addr[ptr])
  <2>1. i # Len(s) + 1 => ~(g.addr[block] > g.addr[s[i]])
    BY <1>6, <1>7, <1>9
  <2>2. PICK q \in Seq(Blocks) :
           /\ Inserts(q, s, i, block)
           /\ InsertBlock(g, block) = Arena(q, g.used, g.fresh, g.addr, g.size, g.top)
    BY <1>2, <1>3, <2>1, InsertsAt
  <2> DEFINE u == InsertBlock(g, block)
  <2>3. u.free = q
    BY <2>2 DEF Arena
  <2>4. Good(u) /\ Compact(u) = r.heap
    BY <1>2, InsertingLists
  <2>5. /\ Stored(w) /\ Forms(w, u, Only(block)) /\ i \in 1 .. Len(q) /\ q[i] = block
        /\ Elem(s, i) = Elem(q, i + 1)
    BY <1>2, <1>3, <1>4, <2>2, BlockLed
  <2> HIDE DEF u, w
  <2>6. Stored(w) /\ LinkAt(w, r, next, block, ptr)
    BY <1>1, <1>3, <2>3, <2>4, <2>5 DEF LinkAt
  <2> QED BY <1>9, <2>6 DEF w
<1> QED BY <1>8, <1>9

LEMMA LinkStep ==
    ASSUME NEW m, Stored(m), NEW r, NEW next, NEW block, NEW ptr, LinkAt(m, r, next, block, ptr)
    PROVE  LET w == [m EXCEPT !.next[block] = ptr]
           IN  Stored(w) /\ CompactAt(w, r, next, m.free)
<1> DEFINE w == [m EXCEPT !.next[block] = ptr]
<1>1. next = r.block
  BY DEF LinkAt
<1>2. PICK u : /\ Good(u) /\ Compact(u) = r.heap /\ Forms(m, u, Only(block))
               /\ \E i \in 1 .. Len(u.free) : u.free[i] = block /\ ptr = Elem(u.free, i + 1)
  BY DEF LinkAt
<1>3. PICK i \in 1 .. Len(u.free) : u.free[i] = block /\ ptr = Elem(u.free, i + 1)
  BY <1>2
<1>4. Chains(u)
  BY <1>2, <1>3, FreeChain
<1>5. Stored(w) /\ Chained(w, u, {}) /\ SameFields(m, w)
  <2>1. Chained(m, u, Only(u.free[i]))
    BY <1>2, <1>3 DEF Forms
  <2> QED BY <1>3, <1>4, <2>1, BlockLinked
<1>6. w.free = m.free
  OBVIOUS
<1> HIDE DEF w
<1>7. Forms(w, u, {})
  BY <1>2, <1>5 DEF Forms, SameFields
<1>8. Compacting(u, 1, r.heap)
  BY <1>2, CompactStarts
<1>9. m.free = Elem(u.free, 1)
  BY <1>6, <1>7 DEF Forms, Chained, Linked
<1> QED BY <1>1, <1>5, <1>7, <1>8, <1>9 DEF CompactAt, w
-----------------------------------------------------------------------------
LEMMA RunStartStep ==
    ASSUME NEW m, NEW r, NEW next, NEW ptr, CompactAt(m, r, next, ptr)
    PROVE  IF ptr = 0 THEN Returns(m, r, next)
           ELSE RunAt(m, r, next, ptr, ptr, m.next[ptr])
<1>1. next = r.block
  BY DEF CompactAt
<1>2. PICK g, i : Compacting(g, i, r.heap) /\ Forms(m, g, {}) /\ ptr = Elem(g.free, i)
  BY DEF CompactAt
<1> DEFINE s == g.free
<1>3. /\ Good(g) /\ s \in Seq(Blocks) /\ Len(s) \in Nat /\ i \in 1 .. Len(s) + 1
      /\ i = Len(s) + 1 => g = r.heap
  BY <1>2, CompactState
<1>4. i \in Int /\ (i # Len(s) + 1 => i \in 1 .. Len(s)) /\ Len(s) + 1 \notin 1 .. Len(s)
  BY <1>3
<1>5. /\ ptr = 0 <=> i = Len(s) + 1
      /\ ptr # 0 => i \in 1 .. Len(s) /\ ptr = s[i]
  <2>1. Elem(s, i) # 0 <=> i \in 1 .. Len(s)
    BY <1>3, <1>4, ElemValue
  <2>2. i \in 1 .. Len(s) => Elem(s, i) = s[i]
    BY DEF Elem
  <2> QED BY <1>2, <1>4, <2>1, <2>2
<1>6. CASE ptr = 0
  BY <1>1, <1>2, <1>3, <1>5, <1>6 DEF Returns
<1>7. CASE ptr # 0
  <2>1. m.next[ptr] = Elem(s, i + 1)
    BY <1>2, <1>5, <1>7 DEF Forms, Chained, Linked
  <2>2. Run(g, i, i)
    <3>1. i \in i .. Len(s) /\ \A q \in i .. i - 1 : FALSE
      BY <1>3, <1>5, <1>7
    <3> QED BY <1>5, <1>7, <3>1 DEF Run
  <2> QED BY <1>1, <1>2, <1>5, <1>7, <2>1, <2>2 DEF RunAt
<1> QED BY <1>6, <1>7

Followed(m, r, next, ptr, prev, scan) ==
    LET adjacent == scan # 0 /\ Wrap(m.addr[prev] + m.size[prev]) = m.addr[scan]
        w == [m EXCEPT !.size[ptr] = m.addr[prev] - m.addr[ptr] + m.size[prev]]
    IN  IF adjacent THEN RunAt(m, r, next, ptr, scan, m.next[scan])
        ELSE IF prev = ptr THEN CompactAt(m, r, next, m.next[ptr])
        ELSE Stored(w) /\ ReleaseAt(w, r, next, ptr, m.next[prev], m.next[ptr])

LEMMA FollowStep ==
    ASSUME NEW m, Stored(m), NEW r, NEW next, NEW ptr, NEW prev, NEW scan,
           RunAt(m, r, next, ptr, prev, scan)
    PROVE  Followed(m, r, next, ptr, prev, scan)
<1> DEFINE adjacent == scan # 0 /\ Wrap(m.addr[prev] + m.size[prev]) = m.addr[scan]
           z == m.addr[prev] - m.addr[ptr] + m.size[prev]
           w == [m EXCEPT !.size[ptr] = z]
<1> SUFFICES IF adjacent THEN RunAt(m, r, next, ptr, scan, m.next[scan])
             ELSE IF prev = ptr THEN CompactAt(m, r, next, m.next[ptr])
             ELSE Stored(w) /\ ReleaseAt(w, r, next, ptr, m.next[prev], m.next[ptr])
  BY DEF Followed
<1>1. next = r.block
  BY DEF RunAt
<1>2. PICK g, i, k :
         /\ Compacting(g, i, r.heap) /\ Run(g, i, k) /\ Forms(m, g, {})
         /\ ptr = g.free[i] /\ prev = g.free[k] /\ scan = Elem(g.free, k + 1)
  BY DEF RunAt
<1> DEFINE s == g.free
<1>3. Good(g) /\ s \in Seq(Blocks) /\ Len(s) \in Nat /\ g \in Heaps /\ g.size \in Fields
  BY <1>2, CompactState, FieldsOf
<1>4. /\ i \in 1 .. Len(s) /\ k \in i .. Len(s) /\ k \in 1 .. Len(s)
      /\ \A q \in i .. k - 1 : Touches(g, q)
  BY <1>2, <1>3 DEF Run
<1>5. m.addr = g.addr /\ m.size = g.size /\ m.top = g.top /\ Linked(m.next, m.free, s, {})
        /\ Chained(m, g, {})
  BY <1>2 DEF Forms, Chained
<1>6. m.next[ptr] = Elem(s, i + 1) /\ m.next[prev] = Elem(s, k + 1)
  BY <1>2, <1>4, <1>5 DEF Linked
<1>7. scan # 0 <=> k + 1 \in 1 .. Len(s)
  <2>1. k + 1 \in Int
    BY <1>4
  <2> QED BY <1>2, <1>3, <2>1, ElemValue
<1>8. scan # 0 => scan = s[k + 1]
  BY <1>2, <1>7 DEF Elem
<1>9. adjacent <=> Touches(g, k)
  <2>1. Wrap(m.addr[prev] + m.size[prev]) = End(g, s[k])
    BY <1>2, <1>3, <1>4, <1>5, FreeBlocks
  <2>2. k < Len(s) <=> k + 1 \in 1 .. Len(s)
    BY <1>3, <1>4
  <2> QED BY <1>5, <1>7, <1>8, <2>1, <2>2 DEF Touches
<1>10. CASE Touches(g, k)
  <2>1. k + 1 \in 1 .. Len(s) /\ scan = s[k + 1]
    BY <1>7, <1>8, <1>9, <1>10
  <2>2. m.next[scan] = Elem(s, (k + 1) + 1)
    BY <1>5, <2>1 DEF Linked
  <2>3. Run(g, i, k + 1)
    <3>1. k + 1 \in i .. Len(s) /\ \A q \in i .. (k + 1) - 1 : q \in i .. k - 1 \/ q = k
      BY <1>3, <1>4, <2>1
    <3> QED BY <1>4, <1>10, <3>1 DEF Run
  <2>4. RunAt(m, r, next, ptr, scan, m.next[scan])
    BY <1>1, <1>2, <2>1, <2>2, <2>3 DEF RunAt
  <2> QED BY <1>9, <1>10, <2>4
<1>11. CASE ~Touches(g, k) /\ prev = ptr
  <2>1. k = i
    BY <1>2, <1>3, <1>4, <1>11, FreeBlocks
  <2>2. Compacting(g, i + 1, r.heap)
    <3>1. i # Len(s) + 1 /\ ~Touches(g, i)
      BY <1>4, <1>11, <2>1
    <3> QED BY <1>2, <3>1, CompactState
  <2>3. CompactAt(m, r, next, m.next[ptr])
    BY <1>1, <1>2, <1>6, <2>2 DEF CompactAt
  <2> QED BY <1>9, <1>11, <2>3
<1>12. CASE ~Touches(g, k) /\ prev # ptr
  <2>1. SizeStored(m, w, ptr, z)
    BY StoreFields
  <2>2. z = End(g, s[k]) - g.addr[s[i]] /\ z \in Int
    <3>1. /\ g.addr[s[k]] \in Nat /\ g.size[s[k]] \in Nat /\ g.addr[s[i]] \in Nat
      BY <1>3, <1>4, FreeBlocks
    <3>2. z = g.addr[s[k]] - g.addr[s[i]] + g.size[s[k]]
      BY <1>2, <1>5
    <3> HIDE DEF s, z
    <3> QED BY <3>1, <3>2 DEF End
  <2> HIDE DEF z, w
  <2>3. Sized(w, g, i, k)
    <3>1. w.addr = g.addr /\ w.top = g.top /\ w.size = [g.size EXCEPT ![s[i]] = z]
      BY <1>2, <1>5, <2>1 DEF SizeStored
    <3>2. s[i] \in Blocks /\ g.size \in [Blocks -> Nat]
      BY <1>3, <1>4, ArenaAssumption DEF Fields
    <3>3. /\ w.size \in [Blocks -> Int] /\ w.size[s[i]] = z
          /\ \A x \in Blocks \ {s[i]} : w.size[x] = g.size[x]
      BY <2>2, <3>1, <3>2
    <3> QED BY <2>2, <3>1, <3>3 DEF Sized
  <2>4. Chained(w, g, {})
    <3>1. Unmoved(m, w)
      BY <2>1 DEF SizeStored
    <3> QED BY <1>5, <3>1, ChainedUnmoved
  <2>5. Chained(w, g, Only(ptr))
    BY <2>4 DEF Chained, Linked
  <2>6. Releasing(w, r, next, ptr, m.next[prev], m.next[ptr], g, i, k)
    BY <1>1, <1>2, <1>6, <1>12, <2>3 DEF Releasing
  <2>7. Stored(w) /\ ReleaseAt(w, r, next, ptr, m.next[prev], m.next[ptr])
    BY <2>1, <2>5, <2>6 DEF ReleaseAt, SizeStored, Unmoved
  <2> HIDE DEF adjacent
  <2> QED BY <1>9, <1>12, <2>7
<1> QED BY <1>10, <1>11, <1>12

(* What there is to know of the run whose blocks are released.             *)
LEMMA ReleasingState ==
    ASSUME NEW m, NEW r, NEW next, NEW ptr, NEW prev, NEW scan, NEW g, NEW i, NEW k,
           Releasing(m, r, next, ptr, prev, scan, g, i, k)
    PROVE  /\ Good(g) /\ g.free \in Seq(Blocks) /\ Len(g.free) \in Nat
           /\ i \in 1 .. Len(g.free) /\ k \in i .. Len(g.free) /\ k \in 1 .. Len(g.free)
           /\ k = i <=> scan = prev
           /\ k # i => /\ i + 1 \in 1 .. Len(g.free) /\ scan = g.free[i + 1]
                       /\ Merges(g, i, Merge(g, i)) /\ Compacting(Merge(g, i), i, r.heap)
           /\ k = i => Compacting(g, i + 1, r.heap)
<1> DEFINE s == g.free
<1>1. /\ Compacting(g, i, r.heap) /\ Run(g, i, k) /\ ~Touches(g, k)
      /\ prev = Elem(s, k + 1) /\ scan = Elem(s, i + 1)
  BY DEF Releasing
<1>2. Good(g) /\ s \in Seq(Blocks) /\ Len(s) \in Nat
  BY <1>1, CompactState
<1>3. i \in 1 .. Len(s) /\ k \in i .. Len(s) /\ \A q \in i .. k - 1 : Touches(g, q)
  BY <1>1 DEF Run
<1>4. /\ i \in Nat /\ k \in Nat /\ k \in 1 .. Len(s) /\ i # Len(s) + 1
      /\ k # i => i + 1 \in 1 .. Len(s) /\ i \in i .. k - 1
      /\ k # i => i + 1 # k + 1
  BY <1>2, <1>3
<1>5. k # i => scan = s[i + 1] /\ scan # prev
  <2> SUFFICES ASSUME k # i
               PROVE  scan = s[i + 1] /\ scan # prev
    OBVIOUS
  <2>1. i + 1 \in 1 .. Len(s)
    BY <1>4
  <2>2. scan = s[i + 1] /\ s[i + 1] # 0
    BY <1>1, <1>2, <2>1, FreeChain DEF Elem
  <2>3. CASE k + 1 \in 1 .. Len(s)
    <3>1. prev = s[k + 1]
      BY <1>1, <2>3 DEF Elem
    <3>2. s[k + 1] # s[i + 1]
      BY <1>2, <1>4, <2>1, <2>3, FreeBlocks
    <3> QED BY <2>2, <3>1, <3>2
  <2>4. CASE k + 1 \notin 1 .. Len(s)
    BY <1>1, <2>2, <2>4 DEF Elem
  <2> QED BY <2>2, <2>3, <2>4
<1>6. k = i <=> scan = prev
  BY <1>1, <1>5
<1>7. k # i => Merges(g, i, Merge(g, i)) /\ Compacting(Merge(g, i), i, r.heap)
  <2> SUFFICES ASSUME k # i
               PROVE  Merges(g, i, Merge(g, i)) /\ Compacting(Merge(g, i), i, r.heap)
    OBVIOUS
  <2>1. Touches(g, i)
    BY <1>3, <1>4
  <2>2. Compacting(Merge(g, i), i, r.heap)
    BY <1>1, <1>4, <2>1, CompactState
  <2>3. Good(Merge(g, i))
    BY <2>2, CompactState
  <2> QED BY <1>2, <1>3, <2>1, <2>2, <2>3, MergeFields
<1>8. k = i => Compacting(g, i + 1, r.heap)
  BY <1>1, <1>4, CompactState
<1> QED BY <1>2, <1>3, <1>4, <1>5, <1>6, <1>7, <1>8

LEMMA SizedSame ==
    ASSUME NEW m, NEW w, SameFields(m, w), NEW g, NEW i, NEW k, Sized(m, g, i, k)
    PROVE  Sized(w, g, i, k)
BY DEF SameFields, Sized

LEMMA ReleaseStep ==
    ASSUME NEW m, Stored(m), NEW r, NEW next, NEW ptr, NEW prev, NEW scan, scan # prev,
           ReleaseAt(m, r, next, ptr, prev, scan)
    PROVE  LET w == [m EXCEPT !.next[scan] = m.fresh]
           IN  Stored(w) /\ SetFreshAt(w, r, next, ptr, prev, scan, m.next[scan])
<1> DEFINE w == [m EXCEPT !.next[scan] = m.fresh]
<1>1. PICK g, i, k : Releasing(m, r, next, ptr, prev, scan, g, i, k) /\ Chained(m, g, Only(ptr))
  BY DEF ReleaseAt
<1>2. /\ Good(g) /\ i \in 1 .. Len(g.free) /\ i + 1 \in 1 .. Len(g.free)
      /\ scan = g.free[i + 1] /\ k # i
  BY <1>1, ReleasingState
<1>3. ptr = g.free[i] /\ Sized(m, g, i, k)
  BY <1>1 DEF Releasing
<1>4. /\ Stored(w) /\ SameFields(m, w) /\ Chained(w, g, Pair(ptr, scan))
      /\ w.next[scan] = w.fresh /\ m.next[scan] = Elem(g.free, i + 2)
  <2>1. Chained(m, g, Only(g.free[i]))
    BY <1>1, <1>3
  <2> DEFINE x == g.free[i + 1]
             v == [m EXCEPT !.next[x] = m.fresh]
  <2>2. /\ Stored(v) /\ SameFields(m, v) /\ Chained(v, g, Pair(g.free[i], x))
        /\ v.next[x] = v.fresh /\ m.next[x] = Elem(g.free, i + 2)
    BY <1>2, <2>1, FreshPushed
  <2>3. v = w
    BY <1>2
  <2> HIDE DEF v, w
  <2> QED BY <1>2, <1>3, <2>2, <2>3
<1> HIDE DEF w
<1>5. Releasing(w, r, next, ptr, prev, scan, g, i, k)
  <2>1. Sized(w, g, i, k)
    BY <1>3, <1>4, SizedSame
  <2> QED BY <1>1, <2>1 DEF Releasing
<1>6. SetFreshAt(w, r, next, ptr, prev, scan, m.next[scan])
  BY <1>2, <1>4, <1>5 DEF SetFreshAt
<1> QED BY <1>4, <1>6 DEF w

LEMMA ReleasedStep ==
    ASSUME NEW m, Stored(m), NEW r, NEW next, NEW ptr, NEW prev, NEW scan, scan = prev,
           ReleaseAt(m, r, next, ptr, prev, scan)
    PROVE  LET w == [m EXCEPT !.next[ptr] = prev]
           IN  Stored(w) /\ CompactAt(w, r, next, prev)
<1> DEFINE w == [m EXCEPT !.next[ptr] = prev]
<1>1. PICK g, i, k : Releasing(m, r, next, ptr, prev, scan, g, i, k) /\ Chained(m, g, Only(ptr))
  BY DEF ReleaseAt
<1>2. Good(g) /\ i \in 1 .. Len(g.free) /\ k = i /\ Compacting(g, i + 1, r.heap)
  BY <1>1, ReleasingState
<1>3. /\ ptr = g.free[i] /\ prev = Elem(g.free, i + 1) /\ Sized(m, g, i, i) /\ next = r.block
  BY <1>1, <1>2 DEF Releasing
<1>4. Chains(g) /\ g.free[i] \in Blocks
  BY <1>2, FreeChain
<1>5. Stored(w) /\ Chained(w, g, {}) /\ SameFields(m, w)
  <2>1. Chained(m, g, Only(g.free[i]))
    BY <1>1, <1>3
  <2> QED BY <1>2, <1>3, <1>4, <2>1, BlockLinked
<1> HIDE DEF w
<1>6. m.addr = g.addr /\ m.top = g.top /\ m.size = g.size
  <2>1. g.addr[g.free[i]] \in Nat /\ g.size[g.free[i]] \in Nat /\ g \in Heaps
    BY <1>2, FreeBlocks, CompactState
  <2>2. g.size \in [Blocks -> 0 .. Limit]
    BY <2>1 DEF Heaps
  <2> DEFINE b == g.free[i]
  <2> HIDE DEF b
  <2>3. m.size[b] = g.size[b]
    <3>1. m.size[b] = (g.addr[b] + g.size[b]) - g.addr[b]
      BY <1>3 DEF Sized, End, b
    <3> QED BY <2>1, <3>1 DEF b
  <2>4. \A x \in Blocks : m.size[x] = g.size[x]
    BY <1>3, <2>3 DEF Sized, b
  <2>5. m.size \in [Blocks -> Int]
    BY <1>3 DEF Sized
  <2> QED BY <1>3, <2>2, <2>4, <2>5 DEF Sized
<1>7. Forms(w, g, {})
  BY <1>5, <1>6 DEF Forms, SameFields
<1>8. CompactAt(w, r, next, prev)
  BY <1>2, <1>3, <1>7 DEF CompactAt
<1> QED BY <1>5, <1>8 DEF w

LEMMA SetFreshStep ==
    ASSUME NEW m, Stored(m), NEW r, NEW next, NEW ptr, NEW prev, NEW scan, NEW top,
           SetFreshAt(m, r, next, ptr, prev, scan, top)
    PROVE  LET w == [m EXCEPT !.fresh = scan]
           IN  Stored(w) /\ ClearAt(w, r, next, ptr, prev, scan, top)
<1> DEFINE w == [m EXCEPT !.fresh = scan]
<1>1. PICK g, i, k :
         /\ Releasing(m, r, next, ptr, prev, scan, g, i, k) /\ k # i
         /\ Chained(m, g, Pair(ptr, scan)) /\ m.next[scan] = m.fresh
         /\ top = Elem(g.free, i + 2)
  BY DEF SetFreshAt
<1>2. /\ Good(g) /\ i \in 1 .. Len(g.free) /\ scan = g.free[i + 1]
      /\ Merges(g, i, Merge(g, i))
  BY <1>1, ReleasingState
<1>3. ptr = g.free[i] /\ Sized(m, g, i, k)
  BY <1>1 DEF Releasing
<1> DEFINE u == Merge(g, i)
<1> HIDE DEF u
<1>4. Stored(w) /\ SameFields(m, w) /\ Chained(w, u, Only(ptr))
  <2>1. /\ Chained(m, g, Pair(g.free[i], g.free[i + 1])) /\ m.next[g.free[i + 1]] = m.fresh
        /\ Merges(g, i, u)
    BY <1>1, <1>2, <1>3 DEF u
  <2> QED BY <1>2, <1>3, <2>1, FreshHead
<1> HIDE DEF w
<1>5. Releasing(w, r, next, ptr, prev, scan, g, i, k)
  <2>1. Sized(w, g, i, k)
    BY <1>3, <1>4, SizedSame
  <2> QED BY <1>1, <2>1 DEF Releasing
<1>6. ClearAt(w, r, next, ptr, prev, scan, top)
  BY <1>1, <1>4, <1>5 DEF ClearAt, u
<1> QED BY <1>4, <1>6 DEF w

LEMMA ClearStep ==
    ASSUME NEW m, Stored(m), NEW r, NEW next, NEW ptr, NEW prev, NEW scan, NEW top,
           ClearAt(m, r, next, ptr, prev, scan, top)
    PROVE  LET w == [m EXCEPT !.addr[scan] = 0, !.size[scan] = 0]
           IN  Stored(w) /\ ReleaseAt(w, r, next, ptr, prev, top)
<1> DEFINE w == [m EXCEPT !.addr[scan] = 0, !.size[scan] = 0]
<1>1. PICK g, i, k :
         /\ Releasing(m, r, next, ptr, prev, scan, g, i, k) /\ k # i
         /\ Chained(m, Merge(g, i), Only(ptr)) /\ top = Elem(g.free, i + 2)
  BY DEF ClearAt
<1> DEFINE u == Merge(g, i)
<1>2. /\ Good(g) /\ i \in 1 .. Len(g.free) /\ scan = g.free[i + 1]
      /\ Merges(g, i, u) /\ Compacting(u, i, r.heap)
      /\ k \in Nat
  <2>1. Len(g.free) \in Nat /\ k \in 1 .. Len(g.free)
    BY <1>1, ReleasingState
  <2> QED BY <1>1, <2>1, ReleasingState
<1>3. /\ ptr = g.free[i] /\ Sized(m, g, i, k) /\ Run(g, i, k) /\ ~Touches(g, k)
      /\ prev = Elem(g.free, k + 1) /\ next = r.block
  BY <1>1 DEF Releasing
<1>4. Chained(m, u, Only(ptr))
  BY <1>1
<1> HIDE DEF u
<1>5. /\ Run(u, i, k - 1) /\ ~Touches(u, k - 1)
      /\ u.free[i] = ptr /\ End(u, u.free[k - 1]) = End(g, g.free[k])
      /\ Elem(u.free, i + 1) = top /\ Elem(u.free, k) = prev
  BY <1>1, <1>2, <1>3, RunMerged
<1>6. FieldsStored(m, w, scan, 0, 0)
  BY StoreFields
<1> HIDE DEF w
<1>7. Chained(w, u, Only(ptr))
  <2>1. Unmoved(m, w)
    BY <1>6 DEF FieldsStored
  <2> QED BY <1>4, <2>1, ChainedUnmoved
<1>8. Sized(w, u, i, k - 1)
  <2>1. /\ ptr \in Blocks /\ scan \in Blocks /\ ptr # scan /\ u.top = g.top
        /\ u.addr = [g.addr EXCEPT ![scan] = 0]
        /\ \A x \in Blocks \ {ptr, scan} : u.size[x] = g.size[x]
        /\ u.size[scan] = 0
    BY <1>2, <1>3 DEF Merges
  <2>2. /\ m.addr = g.addr /\ m.top = g.top /\ m.size \in [Blocks -> Int]
        /\ \A x \in Blocks \ {ptr} : m.size[x] = g.size[x]
        /\ m.size[ptr] = End(g, g.free[k]) - g.addr[ptr]
    BY <1>3 DEF Sized
  <2>3. w.addr = u.addr /\ w.top = u.top
    BY <1>6, <2>1, <2>2 DEF FieldsStored
  <2>4. w.size = [m.size EXCEPT ![scan] = 0]
    BY <1>6 DEF FieldsStored
  <2>5. /\ w.size \in [Blocks -> Int] /\ w.size[scan] = 0
        /\ \A x \in Blocks \ {scan} : w.size[x] = m.size[x]
    BY <2>1, <2>2, <2>4
  <2>6. \A x \in Blocks \ {ptr} : w.size[x] = u.size[x]
    BY <2>1, <2>2, <2>5
  <2>7. u.addr[ptr] = g.addr[ptr]
    BY <2>1
  <2>8. w.size[ptr] = End(u, u.free[k - 1]) - u.addr[ptr]
    BY <1>5, <2>1, <2>2, <2>5, <2>7
  <2> QED BY <1>5, <2>3, <2>5, <2>6, <2>8 DEF Sized
<1>9. Releasing(w, r, next, ptr, prev, top, u, i, k - 1)
  <2>1. (k - 1) + 1 = k
    BY <1>2
  <2> QED BY <1>2, <1>3, <1>5, <1>8, <2>1 DEF Releasing
<1>10. Stored(w) /\ ReleaseAt(w, r, next, ptr, prev, top)
  BY <1>6, <1>7, <1>9 DEF ReleaseAt, FieldsStored, Unmoved
<1> QED BY <1>10 DEF w

-----------------------------------------------------------------------------
(* The same of a call's own record, one lemma a branch of a statement.     *)

(* What a call is a record of.                                             *)
Locals == {"pc", "op", "c", "num", "top", "ptr", "prev", "scan", "block", "next", "wrote",
           "stale"}
Shape(l) == DOMAIN l = Locals

(* The statements of alloc_block only, and those that follow a write.      *)
AllocPcs == {"scan", "unlink", "unlink_top", "push", "push_top", "used", "used_top",
             "resize", "set_top", "split", "take", "rest",
             "new", "fresh", "addr", "set_used", "new_top"}
LatePcs == {"push", "push_top", "used", "used_top", "resize", "set_top", "split", "take",
            "rest", "addr", "set_used", "new_top", "insert", "place", "link",
            "compact", "run", "release", "set_fresh", "clear"}

(* What an undisturbed call l has made of the memory, which formed the     *)
(* lists of h when it began; p is the pointer that ta_free was given.      *)
AllocState(m, l, h) ==
    /\ l.pc = "scan" => ScanAt(m, h, l.num, l.ptr, l.prev, l.top)
    /\ l.pc = "unlink" => FoundAt(m, h, l.num, l.ptr, l.prev) /\ ~IsTop(h, l.ptr, l.num)
    /\ l.pc = "unlink_top" => FoundAt(m, h, l.num, l.ptr, l.prev) /\ IsTop(h, l.ptr, l.num)
    /\ l.pc = "push" => PushAt(m, h, l.num, l.ptr) /\ ~IsTop(h, l.ptr, l.num)
    /\ l.pc = "push_top" => PushAt(m, h, l.num, l.ptr) /\ IsTop(h, l.ptr, l.num)
    /\ l.pc = "used" => UsedAt(m, h, l.num, l.ptr) /\ ~IsTop(h, l.ptr, l.num)
    /\ l.pc = "used_top" => UsedAt(m, h, l.num, l.ptr) /\ IsTop(h, l.ptr, l.num)
    /\ l.pc = "resize" => MovedAt(m, h, l.num, l.ptr) /\ IsTop(h, l.ptr, l.num)
    /\ l.pc = "set_top" => ShrunkAt(m, h, l.num, l.ptr) /\ IsTop(h, l.ptr, l.num)
    /\ l.pc = "split" => MovedAt(m, h, l.num, l.ptr) /\ ~IsTop(h, l.ptr, l.num)
    /\ l.pc = "take" => /\ ShrunkAt(m, h, l.num, l.ptr) /\ ~IsTop(h, l.ptr, l.num)
                        /\ Excess(h, l.num, l.ptr, l.block, l.top)
    /\ l.pc = "rest" => /\ RestAt(m, h, l.num, l.ptr) /\ ~IsTop(h, l.ptr, l.num)
                        /\ Excess(h, l.num, l.ptr, l.block, l.top)
    /\ l.pc = "new" => NewAt(m, h, l.num, l.top)
    /\ l.pc = "fresh" => FreshAt(m, h, l.num, l.ptr, l.top)
    /\ l.pc = "addr" => AddrAt(m, h, l.num, l.ptr, l.top)
    /\ l.pc = "set_used" => ExtendedAt(m, h, l.num, l.ptr, l.top)
    /\ l.pc = "new_top" => PushedAt(m, h, l.num, l.ptr, l.top)

InsertState(m, l, r) ==
    /\ l.pc = "insert" => ReadyAt(m, r, l.ptr, l.block)
    /\ l.pc = "place" => PlaceAt(m, r, l.next, l.block, l.ptr, l.prev)
    /\ l.pc = "link" => LinkAt(m, r, l.next, l.block, l.ptr)
    /\ l.pc = "compact" => CompactAt(m, r, l.next, l.ptr)
    /\ l.pc = "run" => RunAt(m, r, l.next, l.ptr, l.prev, l.scan)
    /\ l.pc = "release" => ReleaseAt(m, r, l.next, l.ptr, l.prev, l.scan)
    /\ l.pc = "set_fresh" => SetFreshAt(m, r, l.next, l.ptr, l.prev, l.scan, l.top)
    /\ l.pc = "clear" => ClearAt(m, r, l.next, l.ptr, l.prev, l.scan, l.top)

ReturnState(m, l, h, r) == Returns(m, r, l.ptr) /\ (l.wrote \/ r.heap = h)

State(m, l, h, p) ==
    LET r == Result(h, l.op, l.num, p)
    IN  /\ l.pc \in AllocPcs => l.op = "alloc"
        /\ l.pc \in LatePcs => l.wrote
        /\ AllocState(m, l, h)
        /\ l.pc = "find" => l.op = "free" /\ FindAt(m, h, p, l.ptr, l.prev)
        /\ InsertState(m, l, r)
        /\ l.pc = "return" => ReturnState(m, l, h, r)

(* A step of a call changes pc and local variables.                        *)
Kept(l, k) ==
    /\ Shape(k) /\ k.op = l.op /\ k.c = l.c /\ k.num = l.num
    /\ k.stale = l.stale /\ k.pc # "idle"

Calling(m, l, h) ==
    Stored(m) /\ Full(h) /\ Shape(l) /\ (l.op = "alloc" => l.num \in Rounds)

(* A statement that reads makes k of l, and one that writes w of m.        *)
ReadGood(m, l, h, p, k) ==
    Kept(l, k) /\ k.wrote = l.wrote /\ (State(m, l, h, p) => State(m, k, h, p))
WriteGood(m, l, h, p, w, x) ==
    LET k == [x EXCEPT !.wrote = TRUE]
    IN  Kept(l, k) /\ k.wrote = TRUE /\ (State(m, l, h, p) => Stored(w) /\ State(w, k, h, p))

LEMMA ScanGood ==
    ASSUME NEW m, NEW l, NEW h, NEW p, Calling(m, l, h), l.pc = "scan"
    PROVE  LET top == /\ Wrap(m.addr[l.ptr] + m.size[l.ptr]) >= l.top
                      /\ Wrap(m.addr[l.ptr] + l.num) <= Limit
               k == IF l.ptr = 0 THEN [l EXCEPT !.pc = "new"]
                    ELSE IF top THEN [l EXCEPT !.pc = "unlink_top"]
                    ELSE IF m.size[l.ptr] >= l.num THEN [l EXCEPT !.pc = "unlink"]
                    ELSE [l EXCEPT !.prev = l.ptr, !.ptr = m.next[l.ptr]]
           IN  ReadGood(m, l, h, p, k)
<1> DEFINE top == /\ Wrap(m.addr[l.ptr] + m.size[l.ptr]) >= l.top
                  /\ Wrap(m.addr[l.ptr] + l.num) <= Limit
           small == ~(m.size[l.ptr] >= l.num)
           k == IF l.ptr = 0 THEN [l EXCEPT !.pc = "new"]
                ELSE IF top THEN [l EXCEPT !.pc = "unlink_top"]
                ELSE IF m.size[l.ptr] >= l.num THEN [l EXCEPT !.pc = "unlink"]
                ELSE [l EXCEPT !.prev = l.ptr, !.ptr = m.next[l.ptr]]
<1> SUFFICES ReadGood(m, l, h, p, k)
  OBVIOUS
<1>1. Shape(l) /\ Full(h) /\ (l.op = "alloc" => l.num \in Rounds)
  BY DEF Calling
<1>2. Kept(l, k) /\ k.wrote = l.wrote
  BY <1>1 DEF Kept, Shape, Locals
<1>3. ASSUME State(m, l, h, p)
      PROVE  State(m, k, h, p)
  <2>1. ScanAt(m, h, l.num, l.ptr, l.prev, l.top) /\ l.op = "alloc"
    BY <1>3 DEF State, AllocState, AllocPcs
  <2>2. /\ l.ptr = 0 => NewAt(m, h, l.num, l.top)
        /\ l.ptr # 0 /\ top => FoundAt(m, h, l.num, l.ptr, l.prev) /\ IsTop(h, l.ptr, l.num)
        /\ l.ptr # 0 /\ ~top /\ ~small =>
              FoundAt(m, h, l.num, l.ptr, l.prev) /\ ~IsTop(h, l.ptr, l.num)
        /\ l.ptr # 0 /\ ~top /\ small => ScanAt(m, h, l.num, m.next[l.ptr], l.ptr, l.top)
    BY <1>1, <2>1, ScanStep DEF NewAt
  <2>3. \/ l.ptr = 0 /\ k = [l EXCEPT !.pc = "new"]
        \/ l.ptr # 0 /\ top /\ k = [l EXCEPT !.pc = "unlink_top"]
        \/ l.ptr # 0 /\ ~top /\ ~small /\ k = [l EXCEPT !.pc = "unlink"]
        \/ l.ptr # 0 /\ ~top /\ small /\ k = [l EXCEPT !.prev = l.ptr, !.ptr = m.next[l.ptr]]
    OBVIOUS
  <2> HIDE DEF top, small, k
  <2>4. /\ k.op = l.op /\ k.num = l.num /\ k.pc \in {"scan", "new", "unlink", "unlink_top"}
        /\ k.pc = "new" => NewAt(m, h, k.num, k.top)
        /\ k.pc = "scan" => ScanAt(m, h, k.num, k.ptr, k.prev, k.top)
        /\ k.pc = "unlink_top" => FoundAt(m, h, k.num, k.ptr, k.prev) /\ IsTop(h, k.ptr, k.num)
        /\ k.pc = "unlink" => FoundAt(m, h, k.num, k.ptr, k.prev) /\ ~IsTop(h, k.ptr, k.num)
    BY <1>1, <2>2, <2>3 DEF Shape, Locals
  <2> QED BY <2>1, <2>4 DEF State, AllocState, InsertState, LatePcs
<1> QED BY <1>2, <1>3 DEF ReadGood

LEMMA UnlinkGood ==
    ASSUME NEW m, NEW l, NEW h, NEW p, Calling(m, l, h), l.pc = "unlink"
    PROVE  WriteGood(m, l, h, p, Link(m, "free", l.prev, m.next[l.ptr]),
                     [l EXCEPT !.pc = "push"])
<1> DEFINE w == Link(m, "free", l.prev, m.next[l.ptr])
           k == [[l EXCEPT !.pc = "push"] EXCEPT !.wrote = TRUE]
           r == Result(h, l.op, l.num, p)
<1>1. Stored(m) /\ Full(h) /\ Shape(l) /\ (l.op = "alloc" => l.num \in Rounds)
  BY DEF Calling
<1>2. /\ Kept(l, k) /\ k.wrote = TRUE
      /\ k.pc = "push" /\ k.ptr = l.ptr
  BY <1>1 DEF Kept, Shape, Locals
<1>3. ASSUME State(m, l, h, p)
      PROVE  Stored(w) /\ State(w, k, h, p)
  <2>1. FoundAt(m, h, l.num, l.ptr, l.prev) /\ ~IsTop(h, l.ptr, l.num) /\ l.op = "alloc"
    BY <1>3 DEF State, AllocState, InsertState, ReturnState, AllocPcs, LatePcs
  <2> HIDE DEF k, r
  <2>2. Stored(w) /\ PushAt(w, h, l.num, l.ptr)
    BY <1>1, <2>1, UnlinkStep
  <2> HIDE DEF w
  <2>3. PushAt(w, h, l.num, k.ptr) /\ ~IsTop(h, k.ptr, l.num)
    BY <1>2, <2>1, <2>2
  <2>4. k.op = l.op /\ k.num = l.num
    BY <1>2 DEF Kept
  <2> QED BY <1>2, <2>1, <2>2, <2>3, <2>4
          DEF State, AllocState, InsertState, ReturnState, AllocPcs, LatePcs, r
<1> HIDE DEF k, w
<1> QED BY <1>2, <1>3 DEF WriteGood, k, w

LEMMA PushGood ==
    ASSUME NEW m, NEW l, NEW h, NEW p, Calling(m, l, h), l.pc = "push"
    PROVE  WriteGood(m, l, h, p, [m EXCEPT !.next[l.ptr] = m.used],
                     [l EXCEPT !.pc = "used"])
<1> DEFINE w == [m EXCEPT !.next[l.ptr] = m.used]
           k == [[l EXCEPT !.pc = "used"] EXCEPT !.wrote = TRUE]
           r == Result(h, l.op, l.num, p)
<1>1. Stored(m) /\ Full(h) /\ Shape(l) /\ (l.op = "alloc" => l.num \in Rounds)
  BY DEF Calling
<1>2. /\ Kept(l, k) /\ k.wrote = TRUE
      /\ k.pc = "used" /\ k.ptr = l.ptr
  BY <1>1 DEF Kept, Shape, Locals
<1>3. ASSUME State(m, l, h, p)
      PROVE  Stored(w) /\ State(w, k, h, p)
  <2>1. PushAt(m, h, l.num, l.ptr) /\ ~IsTop(h, l.ptr, l.num) /\ l.op = "alloc"
    BY <1>3 DEF State, AllocState, InsertState, ReturnState, AllocPcs, LatePcs
  <2> HIDE DEF k, r
  <2>2. Stored(w) /\ UsedAt(w, h, l.num, l.ptr)
    BY <1>1, <2>1, PushStep
  <2> HIDE DEF w
  <2>3. UsedAt(w, h, l.num, k.ptr) /\ ~IsTop(h, k.ptr, l.num)
    BY <1>2, <2>1, <2>2
  <2>4. k.op = l.op /\ k.num = l.num
    BY <1>2 DEF Kept
  <2> QED BY <1>2, <2>1, <2>2, <2>3, <2>4
          DEF State, AllocState, InsertState, ReturnState, AllocPcs, LatePcs, r
<1> HIDE DEF k, w
<1> QED BY <1>2, <1>3 DEF WriteGood, k, w

LEMMA UsedGood ==
    ASSUME NEW m, NEW l, NEW h, NEW p, Calling(m, l, h), l.pc = "used"
    PROVE  WriteGood(m, l, h, p, [m EXCEPT !.used = l.ptr],
                     [l EXCEPT !.pc = "split"])
<1> DEFINE w == [m EXCEPT !.used = l.ptr]
           k == [[l EXCEPT !.pc = "split"] EXCEPT !.wrote = TRUE]
           r == Result(h, l.op, l.num, p)
<1>1. Stored(m) /\ Full(h) /\ Shape(l) /\ (l.op = "alloc" => l.num \in Rounds)
  BY DEF Calling
<1>2. /\ Kept(l, k) /\ k.wrote = TRUE
      /\ k.pc = "split" /\ k.ptr = l.ptr
  BY <1>1 DEF Kept, Shape, Locals
<1>3. ASSUME State(m, l, h, p)
      PROVE  Stored(w) /\ State(w, k, h, p)
  <2>1. UsedAt(m, h, l.num, l.ptr) /\ ~IsTop(h, l.ptr, l.num) /\ l.op = "alloc"
    BY <1>3 DEF State, AllocState, InsertState, ReturnState, AllocPcs, LatePcs
  <2> HIDE DEF k, r
  <2>2. Stored(w) /\ MovedAt(w, h, l.num, l.ptr)
    BY <1>1, <2>1, SetUsedStep
  <2> HIDE DEF w
  <2>3. MovedAt(w, h, l.num, k.ptr) /\ ~IsTop(h, k.ptr, l.num)
    BY <1>2, <2>1, <2>2
  <2>4. k.op = l.op /\ k.num = l.num
    BY <1>2 DEF Kept
  <2> QED BY <1>2, <2>1, <2>2, <2>3, <2>4
          DEF State, AllocState, InsertState, ReturnState, AllocPcs, LatePcs, r
<1> HIDE DEF k, w
<1> QED BY <1>2, <1>3 DEF WriteGood, k, w

LEMMA UnlinkTopGood ==
    ASSUME NEW m, NEW l, NEW h, NEW p, Calling(m, l, h), l.pc = "unlink_top"
    PROVE  WriteGood(m, l, h, p, Link(m, "free", l.prev, m.next[l.ptr]),
                     [l EXCEPT !.pc = "push_top"])
<1> DEFINE w == Link(m, "free", l.prev, m.next[l.ptr])
           k == [[l EXCEPT !.pc = "push_top"] EXCEPT !.wrote = TRUE]
           r == Result(h, l.op, l.num, p)
<1>1. Stored(m) /\ Full(h) /\ Shape(l) /\ (l.op = "alloc" => l.num \in Rounds)
  BY DEF Calling
<1>2. /\ Kept(l, k) /\ k.wrote = TRUE
      /\ k.pc = "push_top" /\ k.ptr = l.ptr
  BY <1>1 DEF Kept, Shape, Locals
<1>3. ASSUME State(m, l, h, p)
      PROVE  Stored(w) /\ State(w, k, h, p)
  <2>1. FoundAt(m, h, l.num, l.ptr, l.prev) /\ IsTop(h, l.ptr, l.num) /\ l.op = "alloc"
    BY <1>3 DEF State, AllocState, InsertState, ReturnState, AllocPcs, LatePcs
  <2> HIDE DEF k, r
  <2>2. Stored(w) /\ PushAt(w, h, l.num, l.ptr)
    BY <1>1, <2>1, UnlinkStep
  <2> HIDE DEF w
  <2>3. PushAt(w, h, l.num, k.ptr) /\ IsTop(h, k.ptr, l.num)
    BY <1>2, <2>1, <2>2
  <2>4. k.op = l.op /\ k.num = l.num
    BY <1>2 DEF Kept
  <2> QED BY <1>2, <2>1, <2>2, <2>3, <2>4
          DEF State, AllocState, InsertState, ReturnState, AllocPcs, LatePcs, r
<1> HIDE DEF k, w
<1> QED BY <1>2, <1>3 DEF WriteGood, k, w

LEMMA PushTopGood ==
    ASSUME NEW m, NEW l, NEW h, NEW p, Calling(m, l, h), l.pc = "push_top"
    PROVE  WriteGood(m, l, h, p, [m EXCEPT !.next[l.ptr] = m.used],
                     [l EXCEPT !.pc = "used_top"])
<1> DEFINE w == [m EXCEPT !.next[l.ptr] = m.used]
           k == [[l EXCEPT !.pc = "used_top"] EXCEPT !.wrote = TRUE]
           r == Result(h, l.op, l.num, p)
<1>1. Stored(m) /\ Full(h) /\ Shape(l) /\ (l.op = "alloc" => l.num \in Rounds)
  BY DEF Calling
<1>2. /\ Kept(l, k) /\ k.wrote = TRUE
      /\ k.pc = "used_top" /\ k.ptr = l.ptr
  BY <1>1 DEF Kept, Shape, Locals
<1>3. ASSUME State(m, l, h, p)
      PROVE  Stored(w) /\ State(w, k, h, p)
  <2>1. PushAt(m, h, l.num, l.ptr) /\ IsTop(h, l.ptr, l.num) /\ l.op = "alloc"
    BY <1>3 DEF State, AllocState, InsertState, ReturnState, AllocPcs, LatePcs
  <2> HIDE DEF k, r
  <2>2. Stored(w) /\ UsedAt(w, h, l.num, l.ptr)
    BY <1>1, <2>1, PushStep
  <2> HIDE DEF w
  <2>3. UsedAt(w, h, l.num, k.ptr) /\ IsTop(h, k.ptr, l.num)
    BY <1>2, <2>1, <2>2
  <2>4. k.op = l.op /\ k.num = l.num
    BY <1>2 DEF Kept
  <2> QED BY <1>2, <2>1, <2>2, <2>3, <2>4
          DEF State, AllocState, InsertState, ReturnState, AllocPcs, LatePcs, r
<1> HIDE DEF k, w
<1> QED BY <1>2, <1>3 DEF WriteGood, k, w

LEMMA UsedTopGood ==
    ASSUME NEW m, NEW l, NEW h, NEW p, Calling(m, l, h), l.pc = "used_top"
    PROVE  WriteGood(m, l, h, p, [m EXCEPT !.used = l.ptr],
                     [l EXCEPT !.pc = "resize"])
<1> DEFINE w == [m EXCEPT !.used = l.ptr]
           k == [[l EXCEPT !.pc = "resize"] EXCEPT !.wrote = TRUE]
           r == Result(h, l.op, l.num, p)
<1>1. Stored(m) /\ Full(h) /\ Shape(l) /\ (l.op = "alloc" => l.num \in Rounds)
  BY DEF Calling
<1>2. /\ Kept(l, k) /\ k.wrote = TRUE
      /\ k.pc = "resize" /\ k.ptr = l.ptr
  BY <1>1 DEF Kept, Shape, Locals
<1>3. ASSUME State(m, l, h, p)
      PROVE  Stored(w) /\ State(w, k, h, p)
  <2>1. UsedAt(m, h, l.num, l.ptr) /\ IsTop(h, l.ptr, l.num) /\ l.op = "alloc"
    BY <1>3 DEF State, AllocState, InsertState, ReturnState, AllocPcs, LatePcs
  <2> HIDE DEF k, r
  <2>2. Stored(w) /\ MovedAt(w, h, l.num, l.ptr)
    BY <1>1, <2>1, SetUsedStep
  <2> HIDE DEF w
  <2>3. MovedAt(w, h, l.num, k.ptr) /\ IsTop(h, k.ptr, l.num)
    BY <1>2, <2>1, <2>2
  <2>4. k.op = l.op /\ k.num = l.num
    BY <1>2 DEF Kept
  <2> QED BY <1>2, <2>1, <2>2, <2>3, <2>4
          DEF State, AllocState, InsertState, ReturnState, AllocPcs, LatePcs, r
<1> HIDE DEF k, w
<1> QED BY <1>2, <1>3 DEF WriteGood, k, w

LEMMA ResizeGood ==
    ASSUME NEW m, NEW l, NEW h, NEW p, Calling(m, l, h), l.pc = "resize"
    PROVE  WriteGood(m, l, h, p, [m EXCEPT !.size[l.ptr] = l.num],
                     [l EXCEPT !.pc = "set_top"])
<1> DEFINE w == [m EXCEPT !.size[l.ptr] = l.num]
           k == [[l EXCEPT !.pc = "set_top"] EXCEPT !.wrote = TRUE]
           r == Result(h, l.op, l.num, p)
<1>1. Stored(m) /\ Full(h) /\ Shape(l) /\ (l.op = "alloc" => l.num \in Rounds)
  BY DEF Calling
<1>2. /\ Kept(l, k) /\ k.wrote = TRUE
      /\ k.pc = "set_top" /\ k.ptr = l.ptr
  BY <1>1 DEF Kept, Shape, Locals
<1>3. ASSUME State(m, l, h, p)
      PROVE  Stored(w) /\ State(w, k, h, p)
  <2>1. MovedAt(m, h, l.num, l.ptr) /\ IsTop(h, l.ptr, l.num) /\ l.op = "alloc"
    BY <1>3 DEF State, AllocState, InsertState, ReturnState, AllocPcs, LatePcs
  <2> HIDE DEF k, r
  <2>2. Stored(w) /\ ShrunkAt(w, h, l.num, l.ptr)
    BY <1>1, <2>1, ResizeStep
  <2> HIDE DEF w
  <2>3. ShrunkAt(w, h, l.num, k.ptr) /\ IsTop(h, k.ptr, l.num)
    BY <1>2, <2>1, <2>2
  <2>4. k.op = l.op /\ k.num = l.num
    BY <1>2 DEF Kept
  <2> QED BY <1>2, <2>1, <2>2, <2>3, <2>4
          DEF State, AllocState, InsertState, ReturnState, AllocPcs, LatePcs, r
<1> HIDE DEF k, w
<1> QED BY <1>2, <1>3 DEF WriteGood, k, w

LEMMA SetTopGood ==
    ASSUME NEW m, NEW l, NEW h, NEW p, Calling(m, l, h), l.pc = "set_top"
    PROVE  WriteGood(m, l, h, p, [m EXCEPT !.top = Wrap(m.addr[l.ptr] + l.num)],
                     [l EXCEPT !.pc = "return"])
<1> DEFINE w == [m EXCEPT !.top = Wrap(m.addr[l.ptr] + l.num)]
           k == [[l EXCEPT !.pc = "return"] EXCEPT !.wrote = TRUE]
           r == Result(h, l.op, l.num, p)
<1>1. Stored(m) /\ Full(h) /\ Shape(l) /\ (l.op = "alloc" => l.num \in Rounds)
  BY DEF Calling
<1>2. /\ Kept(l, k) /\ k.wrote = TRUE
      /\ k.pc = "return" /\ k.ptr = l.ptr
  BY <1>1 DEF Kept, Shape, Locals
<1>3. ASSUME State(m, l, h, p)
      PROVE  Stored(w) /\ State(w, k, h, p)
  <2>1. ShrunkAt(m, h, l.num, l.ptr) /\ IsTop(h, l.ptr, l.num) /\ l.op = "alloc"
    BY <1>3 DEF State, AllocState, InsertState, ReturnState, AllocPcs, LatePcs
  <2> HIDE DEF k, r
  <2>2. Stored(w) /\ Returns(w, Result(h, "alloc", l.num, p), l.ptr)
    BY <1>1, <2>1, SetTopStep
  <2> HIDE DEF w
  <2>3. Returns(w, Result(h, "alloc", l.num, p), k.ptr)
    BY <1>2, <2>1, <2>2
  <2>4. k.op = l.op /\ k.num = l.num
    BY <1>2 DEF Kept
  <2> QED BY <1>2, <2>1, <2>2, <2>3, <2>4
          DEF State, AllocState, InsertState, ReturnState, AllocPcs, LatePcs, r
<1> HIDE DEF k, w
<1> QED BY <1>2, <1>3 DEF WriteGood, k, w

LEMMA SplitsGood ==
    ASSUME NEW m, NEW l, NEW h, NEW p, Calling(m, l, h), l.pc = "split",
           m.fresh # 0 /\ m.size[l.ptr] - l.num >= SplitThresh
    PROVE  WriteGood(m, l, h, p, [m EXCEPT !.size[l.ptr] = l.num],
                     [l EXCEPT !.pc = "take", !.top = m.size[l.ptr] - l.num, !.block = m.fresh])
<1> DEFINE w == [m EXCEPT !.size[l.ptr] = l.num]
           k == [[l EXCEPT !.pc = "take", !.top = m.size[l.ptr] - l.num,
                           !.block = m.fresh] EXCEPT !.wrote = TRUE]
           r == Result(h, l.op, l.num, p)
<1>1. Stored(m) /\ Full(h) /\ Shape(l) /\ (l.op = "alloc" => l.num \in Rounds)
  BY DEF Calling
<1>2. /\ Kept(l, k) /\ k.wrote = TRUE
      /\ k.pc = "take" /\ k.ptr = l.ptr /\ k.block = m.fresh /\ k.top = m.size[l.ptr] - l.num
  BY <1>1 DEF Kept, Shape, Locals
<1>3. ASSUME State(m, l, h, p)
      PROVE  Stored(w) /\ State(w, k, h, p)
  <2>1. MovedAt(m, h, l.num, l.ptr) /\ ~IsTop(h, l.ptr, l.num) /\ l.op = "alloc"
    BY <1>3 DEF State, AllocState, InsertState, ReturnState, AllocPcs, LatePcs
  <2> HIDE DEF k, r
  <2>2. /\ Stored(w) /\ ShrunkAt(w, h, l.num, l.ptr)
        /\ Excess(h, l.num, l.ptr, m.fresh, m.size[l.ptr] - l.num)
    BY <1>1, <2>1, ResizeStep, SplitStep
  <2> HIDE DEF w
  <2>3. ShrunkAt(w, h, l.num, k.ptr) /\ ~IsTop(h, k.ptr, l.num)
          /\ Excess(h, l.num, k.ptr, k.block, k.top)
    BY <1>2, <2>1, <2>2
  <2>4. k.op = l.op /\ k.num = l.num
    BY <1>2 DEF Kept
  <2> QED BY <1>2, <2>1, <2>2, <2>3, <2>4
          DEF State, AllocState, InsertState, ReturnState, AllocPcs, LatePcs, r
<1> HIDE DEF k, w
<1> QED BY <1>2, <1>3 DEF WriteGood, k, w

LEMMA NoSplitGood ==
    ASSUME NEW m, NEW l, NEW h, NEW p, Calling(m, l, h), l.pc = "split",
           ~(m.fresh # 0 /\ m.size[l.ptr] - l.num >= SplitThresh)
    PROVE  ReadGood(m, l, h, p, [l EXCEPT !.pc = "return"])
<1> DEFINE k == [l EXCEPT !.pc = "return"]
           r == Result(h, l.op, l.num, p)
<1>1. Stored(m) /\ Full(h) /\ Shape(l) /\ (l.op = "alloc" => l.num \in Rounds)
  BY DEF Calling
<1>2. /\ Kept(l, k) /\ k.wrote = l.wrote
      /\ k.pc = "return" /\ k.ptr = l.ptr
  BY <1>1 DEF Kept, Shape, Locals
<1>3. ASSUME State(m, l, h, p)
      PROVE  State(m, k, h, p)
  <2>1. MovedAt(m, h, l.num, l.ptr) /\ ~IsTop(h, l.ptr, l.num) /\ l.wrote /\ l.op = "alloc"
    BY <1>3 DEF State, AllocState, InsertState, ReturnState, AllocPcs, LatePcs
  <2> HIDE DEF k, r
  <2>2. Returns(m, Result(h, "alloc", l.num, p), l.ptr)
    BY <1>1, <2>1, SplitStep
  <2>3. Returns(m, Result(h, "alloc", l.num, p), k.ptr)
    BY <1>2, <2>1, <2>2
  <2>4. k.op = l.op /\ k.num = l.num
    BY <1>2 DEF Kept
  <2> QED BY <1>2, <2>1, <2>2, <2>3, <2>4
          DEF State, AllocState, InsertState, ReturnState, AllocPcs, LatePcs, r
<1> HIDE DEF k
<1> QED BY <1>2, <1>3 DEF ReadGood, k

LEMMA TakeGood ==
    ASSUME NEW m, NEW l, NEW h, NEW p, Calling(m, l, h), l.pc = "take"
    PROVE  WriteGood(m, l, h, p, [m EXCEPT !.fresh = m.next[l.block]],
                     [l EXCEPT !.pc = "rest"])
<1> DEFINE w == [m EXCEPT !.fresh = m.next[l.block]]
           k == [[l EXCEPT !.pc = "rest"] EXCEPT !.wrote = TRUE]
           r == Result(h, l.op, l.num, p)
<1>1. Stored(m) /\ Full(h) /\ Shape(l) /\ (l.op = "alloc" => l.num \in Rounds)
  BY DEF Calling
<1>2. /\ Kept(l, k) /\ k.wrote = TRUE
      /\ k.pc = "rest" /\ k.ptr = l.ptr /\ k.block = l.block /\ k.top = l.top
  BY <1>1 DEF Kept, Shape, Locals
<1>3. ASSUME State(m, l, h, p)
      PROVE  Stored(w) /\ State(w, k, h, p)
  <2>1. /\ ShrunkAt(m, h, l.num, l.ptr) /\ ~IsTop(h, l.ptr, l.num)
        /\ Excess(h, l.num, l.ptr, l.block, l.top) /\ l.op = "alloc"
    BY <1>3 DEF State, AllocState, InsertState, ReturnState, AllocPcs, LatePcs
  <2> HIDE DEF k, r
  <2>2. Stored(w) /\ RestAt(w, h, l.num, l.ptr)
    BY <1>1, <2>1, TakeStep
  <2> HIDE DEF w
  <2>3. RestAt(w, h, l.num, k.ptr) /\ ~IsTop(h, k.ptr, l.num)
          /\ Excess(h, l.num, k.ptr, k.block, k.top)
    BY <1>2, <2>1, <2>2
  <2>4. k.op = l.op /\ k.num = l.num
    BY <1>2 DEF Kept
  <2> QED BY <1>2, <2>1, <2>2, <2>3, <2>4
          DEF State, AllocState, InsertState, ReturnState, AllocPcs, LatePcs, r
<1> HIDE DEF k, w
<1> QED BY <1>2, <1>3 DEF WriteGood, k, w

LEMMA RestGood ==
    ASSUME NEW m, NEW l, NEW h, NEW p, Calling(m, l, h), l.pc = "rest"
    PROVE  WriteGood(m, l, h, p, [m EXCEPT !.addr[l.block] = m.addr[l.ptr] + l.num,
                                           !.size[l.block] = l.top],
                     [l EXCEPT !.pc = "insert"])
<1> DEFINE w == [m EXCEPT !.addr[l.block] = m.addr[l.ptr] + l.num, !.size[l.block] = l.top]
           k == [[l EXCEPT !.pc = "insert"] EXCEPT !.wrote = TRUE]
           r == Result(h, l.op, l.num, p)
<1>1. Stored(m) /\ Full(h) /\ Shape(l) /\ (l.op = "alloc" => l.num \in Rounds)
  BY DEF Calling
<1>2. /\ Kept(l, k) /\ k.wrote = TRUE
      /\ k.pc = "insert" /\ k.ptr = l.ptr /\ k.block = l.block
  BY <1>1 DEF Kept, Shape, Locals
<1>3. ASSUME State(m, l, h, p)
      PROVE  Stored(w) /\ State(w, k, h, p)
  <2>1. /\ RestAt(m, h, l.num, l.ptr) /\ ~IsTop(h, l.ptr, l.num)
        /\ Excess(h, l.num, l.ptr, l.block, l.top) /\ l.op = "alloc"
    BY <1>3 DEF State, AllocState, InsertState, ReturnState, AllocPcs, LatePcs
  <2> HIDE DEF k, r
  <2>2. Stored(w) /\ ReadyAt(w, Result(h, "alloc", l.num, p), l.ptr, l.block)
    BY <1>1, <2>1, RestStep
  <2> HIDE DEF w
  <2>3. ReadyAt(w, Result(h, "alloc", l.num, p), k.ptr, k.block)
    BY <1>2, <2>1, <2>2
  <2>4. k.op = l.op /\ k.num = l.num
    BY <1>2 DEF Kept
  <2> QED BY <1>2, <2>1, <2>2, <2>3, <2>4
          DEF State, AllocState, InsertState, ReturnState, AllocPcs, LatePcs, r
<1> HIDE DEF k, w
<1> QED BY <1>2, <1>3 DEF WriteGood, k, w

LEMMA NewGood ==
    ASSUME NEW m, NEW l, NEW h, NEW p, Calling(m, l, h), l.pc = "new",
           m.fresh # 0 /\ Wrap(l.top + l.num) <= Limit
    PROVE  ReadGood(m, l, h, p, [l EXCEPT !.pc = "fresh", !.ptr = m.fresh])
<1> DEFINE k == [l EXCEPT !.pc = "fresh", !.ptr = m.fresh]
           r == Result(h, l.op, l.num, p)
<1>1. Stored(m) /\ Full(h) /\ Shape(l) /\ (l.op = "alloc" => l.num \in Rounds)
  BY DEF Calling
<1>2. /\ Kept(l, k) /\ k.wrote = l.wrote
      /\ k.pc = "fresh" /\ k.ptr = m.fresh /\ k.top = l.top
  BY <1>1 DEF Kept, Shape, Locals
<1>3. ASSUME State(m, l, h, p)
      PROVE  State(m, k, h, p)
  <2>1. NewAt(m, h, l.num, l.top) /\ l.op = "alloc"
    BY <1>3 DEF State, AllocState, InsertState, ReturnState, AllocPcs, LatePcs
  <2> HIDE DEF k, r
  <2>2. FreshAt(m, h, l.num, m.fresh, l.top)
    BY <1>1, <2>1, NewStep
  <2>3. FreshAt(m, h, l.num, k.ptr, k.top)
    BY <1>2, <2>1, <2>2
  <2>4. k.op = l.op /\ k.num = l.num
    BY <1>2 DEF Kept
  <2> QED BY <1>2, <2>1, <2>2, <2>3, <2>4
          DEF State, AllocState, InsertState, ReturnState, AllocPcs, LatePcs, r
<1> HIDE DEF k
<1> QED BY <1>2, <1>3 DEF ReadGood, k

LEMMA FullGood ==
    ASSUME NEW m, NEW l, NEW h, NEW p, Calling(m, l, h), l.pc = "new",
           ~(m.fresh # 0 /\ Wrap(l.top + l.num) <= Limit)
    PROVE  ReadGood(m, l, h, p, [l EXCEPT !.pc = "return", !.ptr = 0])
<1> DEFINE k == [l EXCEPT !.pc = "return", !.ptr = 0]
           r == Result(h, l.op, l.num, p)
<1>1. Stored(m) /\ Full(h) /\ Shape(l) /\ (l.op = "alloc" => l.num \in Rounds)
  BY DEF Calling
<1>2. /\ Kept(l, k) /\ k.wrote = l.wrote
      /\ k.pc = "return" /\ k.ptr = 0
  BY <1>1 DEF Kept, Shape, Locals
<1>3. ASSUME State(m, l, h, p)
      PROVE  State(m, k, h, p)
  <2>1. NewAt(m, h, l.num, l.top) /\ l.op = "alloc"
    BY <1>3 DEF State, AllocState, InsertState, ReturnState, AllocPcs, LatePcs
  <2> HIDE DEF k, r
  <2>2. /\ Returns(m, Result(h, "alloc", l.num, p), 0)
        /\ Result(h, "alloc", l.num, p).heap = h
    BY <1>1, <2>1, NewStep
  <2>3. Returns(m, Result(h, "alloc", l.num, p), k.ptr)
    BY <1>2, <2>1, <2>2
  <2>4. k.op = l.op /\ k.num = l.num
    BY <1>2 DEF Kept
  <2> QED BY <1>2, <2>1, <2>2, <2>3, <2>4
          DEF State, AllocState, InsertState, ReturnState, AllocPcs, LatePcs, r
<1> HIDE DEF k
<1> QED BY <1>2, <1>3 DEF ReadGood, k

LEMMA FreshGood ==
    ASSUME NEW m, NEW l, NEW h, NEW p, Calling(m, l, h), l.pc = "fresh"
    PROVE  WriteGood(m, l, h, p, [m EXCEPT !.fresh = m.next[l.ptr]],
                     [l EXCEPT !.pc = "addr"])
<1> DEFINE w == [m EXCEPT !.fresh = m.next[l.ptr]]
           k == [[l EXCEPT !.pc = "addr"] EXCEPT !.wrote = TRUE]
           r == Result(h, l.op, l.num, p)
<1>1. Stored(m) /\ Full(h) /\ Shape(l) /\ (l.op = "alloc" => l.num \in Rounds)
  BY DEF Calling
<1>2. /\ Kept(l, k) /\ k.wrote = TRUE
      /\ k.pc = "addr" /\ k.ptr = l.ptr /\ k.top = l.top
  BY <1>1 DEF Kept, Shape, Locals
<1>3. ASSUME State(m, l, h, p)
      PROVE  Stored(w) /\ State(w, k, h, p)
  <2>1. FreshAt(m, h, l.num, l.ptr, l.top) /\ l.op = "alloc"
    BY <1>3 DEF State, AllocState, InsertState, ReturnState, AllocPcs, LatePcs
  <2> HIDE DEF k, r
  <2>2. Stored(w) /\ AddrAt(w, h, l.num, l.ptr, l.top)
    BY <1>1, <2>1, FreshStep
  <2> HIDE DEF w
  <2>3. AddrAt(w, h, l.num, k.ptr, k.top)
    BY <1>2, <2>1, <2>2
  <2>4. k.op = l.op /\ k.num = l.num
    BY <1>2 DEF Kept
  <2> QED BY <1>2, <2>1, <2>2, <2>3, <2>4
          DEF State, AllocState, InsertState, ReturnState, AllocPcs, LatePcs, r
<1> HIDE DEF k, w
<1> QED BY <1>2, <1>3 DEF WriteGood, k, w

LEMMA AddrGood ==
    ASSUME NEW m, NEW l, NEW h, NEW p, Calling(m, l, h), l.pc = "addr"
    PROVE  WriteGood(m, l, h, p, [m EXCEPT !.addr[l.ptr] = l.top, !.size[l.ptr] = l.num,
                                           !.next[l.ptr] = m.used],
                     [l EXCEPT !.pc = "set_used"])
<1> DEFINE w == [m EXCEPT !.addr[l.ptr] = l.top, !.size[l.ptr] = l.num, !.next[l.ptr] = m.used]
           k == [[l EXCEPT !.pc = "set_used"] EXCEPT !.wrote = TRUE]
           r == Result(h, l.op, l.num, p)
<1>1. Stored(m) /\ Full(h) /\ Shape(l) /\ (l.op = "alloc" => l.num \in Rounds)
  BY DEF Calling
<1>2. /\ Kept(l, k) /\ k.wrote = TRUE
      /\ k.pc = "set_used" /\ k.ptr = l.ptr /\ k.top = l.top
  BY <1>1 DEF Kept, Shape, Locals
<1>3. ASSUME State(m, l, h, p)
      PROVE  Stored(w) /\ State(w, k, h, p)
  <2>1. AddrAt(m, h, l.num, l.ptr, l.top) /\ l.op = "alloc"
    BY <1>3 DEF State, AllocState, InsertState, ReturnState, AllocPcs, LatePcs
  <2> HIDE DEF k, r
  <2>2. Stored(w) /\ ExtendedAt(w, h, l.num, l.ptr, l.top)
    BY <1>1, <2>1, AddrStep
  <2> HIDE DEF w
  <2>3. ExtendedAt(w, h, l.num, k.ptr, k.top)
    BY <1>2, <2>1, <2>2
  <2>4. k.op = l.op /\ k.num = l.num
    BY <1>2 DEF Kept
  <2> QED BY <1>2, <2>1, <2>2, <2>3, <2>4
          DEF State, AllocState, InsertState, ReturnState, AllocPcs, LatePcs, r
<1> HIDE DEF k, w
<1> QED BY <1>2, <1>3 DEF WriteGood, k, w

LEMMA NewUsedGood ==
    ASSUME NEW m, NEW l, NEW h, NEW p, Calling(m, l, h), l.pc = "set_used"
    PROVE  WriteGood(m, l, h, p, [m EXCEPT !.used = l.ptr],
                     [l EXCEPT !.pc = "new_top"])
<1> DEFINE w == [m EXCEPT !.used = l.ptr]
           k == [[l EXCEPT !.pc = "new_top"] EXCEPT !.wrote = TRUE]
           r == Result(h, l.op, l.num, p)
<1>1. Stored(m) /\ Full(h) /\ Shape(l) /\ (l.op = "alloc" => l.num \in Rounds)
  BY DEF Calling
<1>2. /\ Kept(l, k) /\ k.wrote = TRUE
      /\ k.pc = "new_top" /\ k.ptr = l.ptr /\ k.top = l.top
  BY <1>1 DEF Kept, Shape, Locals
<1>3. ASSUME State(m, l, h, p)
      PROVE  Stored(w) /\ State(w, k, h, p)
  <2>1. ExtendedAt(m, h, l.num, l.ptr, l.top) /\ l.op = "alloc"
    BY <1>3 DEF State, AllocState, InsertState, ReturnState, AllocPcs, LatePcs
  <2> HIDE DEF k, r
  <2>2. Stored(w) /\ PushedAt(w, h, l.num, l.ptr, l.top)
    BY <1>1, <2>1, NewUsedStep
  <2> HIDE DEF w
  <2>3. PushedAt(w, h, l.num, k.ptr, k.top)
    BY <1>2, <2>1, <2>2
  <2>4. k.op = l.op /\ k.num = l.num
    BY <1>2 DEF Kept
  <2> QED BY <1>2, <2>1, <2>2, <2>3, <2>4
          DEF State, AllocState, InsertState, ReturnState, AllocPcs, LatePcs, r
<1> HIDE DEF k, w
<1> QED BY <1>2, <1>3 DEF WriteGood, k, w

LEMMA NewTopGood ==
    ASSUME NEW m, NEW l, NEW h, NEW p, Calling(m, l, h), l.pc = "new_top"
    PROVE  WriteGood(m, l, h, p, [m EXCEPT !.top = Wrap(l.top + l.num)],
                     [l EXCEPT !.pc = "return"])
<1> DEFINE w == [m EXCEPT !.top = Wrap(l.top + l.num)]
           k == [[l EXCEPT !.pc = "return"] EXCEPT !.wrote = TRUE]
           r == Result(h, l.op, l.num, p)
<1>1. Stored(m) /\ Full(h) /\ Shape(l) /\ (l.op = "alloc" => l.num \in Rounds)
  BY DEF Calling
<1>2. /\ Kept(l, k) /\ k.wrote = TRUE
      /\ k.pc = "return" /\ k.ptr = l.ptr
  BY <1>1 DEF Kept, Shape, Locals
<1>3. ASSUME State(m, l, h, p)
      PROVE  Stored(w) /\ State(w, k, h, p)
  <2>1. PushedAt(m, h, l.num, l.ptr, l.top) /\ l.op = "alloc"
    BY <1>3 DEF State, AllocState, InsertState, ReturnState, AllocPcs, LatePcs
  <2> HIDE DEF k, r
  <2>2. Stored(w) /\ Returns(w, Result(h, "alloc", l.num, p), l.ptr)
    BY <1>1, <2>1, NewTopStep
  <2> HIDE DEF w
  <2>3. Returns(w, Result(h, "alloc", l.num, p), k.ptr)
    BY <1>2, <2>1, <2>2
  <2>4. k.op = l.op /\ k.num = l.num
    BY <1>2 DEF Kept
  <2> QED BY <1>2, <2>1, <2>2, <2>3, <2>4
          DEF State, AllocState, InsertState, ReturnState, AllocPcs, LatePcs, r
<1> HIDE DEF k, w
<1> QED BY <1>2, <1>3 DEF WriteGood, k, w

LEMMA NotFoundGood ==
    ASSUME NEW m, NEW l, NEW h, NEW p, Calling(m, l, h), l.pc = "find",
           l.ptr = 0
    PROVE  ReadGood(m, l, h, p, [l EXCEPT !.pc = "return"])
<1> DEFINE k == [l EXCEPT !.pc = "return"]
           r == Result(h, l.op, l.num, p)
<1>1. Stored(m) /\ Full(h) /\ Shape(l) /\ (l.op = "alloc" => l.num \in Rounds)
  BY DEF Calling
<1>2. /\ Kept(l, k) /\ k.wrote = l.wrote
      /\ k.pc = "return" /\ k.ptr = l.ptr
  BY <1>1 DEF Kept, Shape, Locals
<1>3. ASSUME State(m, l, h, p)
      PROVE  State(m, k, h, p)
  <2>1. FindAt(m, h, p, l.ptr, l.prev) /\ l.op = "free"
    BY <1>3 DEF State, AllocState, InsertState, ReturnState, AllocPcs, LatePcs
  <2> HIDE DEF k, r
  <2>2. Returns(m, Result(h, "free", l.num, p), l.ptr) /\ Result(h, "free", l.num, p).heap = h
    BY <1>1, <2>1, FindStep
  <2>3. Returns(m, Result(h, "free", l.num, p), k.ptr)
    BY <1>2, <2>1, <2>2
  <2>4. k.op = l.op /\ k.num = l.num
    BY <1>2 DEF Kept
  <2> QED BY <1>2, <2>1, <2>2, <2>3, <2>4
          DEF State, AllocState, InsertState, ReturnState, AllocPcs, LatePcs, r
<1> HIDE DEF k
<1> QED BY <1>2, <1>3 DEF ReadGood, k

LEMMA FindGood ==
    ASSUME NEW m, NEW l, NEW h, NEW p, Calling(m, l, h), l.pc = "find",
           l.ptr # 0, m.addr[l.ptr] # p
    PROVE  ReadGood(m, l, h, p, [l EXCEPT !.prev = l.ptr, !.ptr = m.next[l.ptr]])
<1> DEFINE k == [l EXCEPT !.prev = l.ptr, !.ptr = m.next[l.ptr]]
           r == Result(h, l.op, l.num, p)
<1>1. Stored(m) /\ Full(h) /\ Shape(l) /\ (l.op = "alloc" => l.num \in Rounds)
  BY DEF Calling
<1>2. /\ Kept(l, k) /\ k.wrote = l.wrote
      /\ k.pc = "find" /\ k.prev = l.ptr /\ k.ptr = m.next[l.ptr]
  BY <1>1 DEF Kept, Shape, Locals
<1>3. ASSUME State(m, l, h, p)
      PROVE  State(m, k, h, p)
  <2>1. FindAt(m, h, p, l.ptr, l.prev) /\ l.op = "free"
    BY <1>3 DEF State, AllocState, InsertState, ReturnState, AllocPcs, LatePcs
  <2> HIDE DEF k, r
  <2>2. FindAt(m, h, p, m.next[l.ptr], l.ptr)
    BY <1>1, <2>1, FindStep
  <2>3. FindAt(m, h, p, k.ptr, k.prev)
    BY <1>2, <2>1, <2>2
  <2>4. k.op = l.op /\ k.num = l.num
    BY <1>2 DEF Kept
  <2> QED BY <1>2, <2>1, <2>2, <2>3, <2>4
          DEF State, AllocState, InsertState, ReturnState, AllocPcs, LatePcs, r
<1> HIDE DEF k
<1> QED BY <1>2, <1>3 DEF ReadGood, k

LEMMA FoundGood ==
    ASSUME NEW m, NEW l, NEW h, NEW p, Calling(m, l, h), l.pc = "find",
           l.ptr # 0, m.addr[l.ptr] = p
    PROVE  WriteGood(m, l, h, p, Link(m, "used", l.prev, m.next[l.ptr]),
                     [l EXCEPT !.pc = "insert", !.block = l.ptr])
<1> DEFINE w == Link(m, "used", l.prev, m.next[l.ptr])
           k == [[l EXCEPT !.pc = "insert", !.block = l.ptr] EXCEPT !.wrote = TRUE]
           r == Result(h, l.op, l.num, p)
<1>1. Stored(m) /\ Full(h) /\ Shape(l) /\ (l.op = "alloc" => l.num \in Rounds)
  BY DEF Calling
<1>2. /\ Kept(l, k) /\ k.wrote = TRUE
      /\ k.pc = "insert" /\ k.ptr = l.ptr /\ k.block = l.ptr
  BY <1>1 DEF Kept, Shape, Locals
<1>3. ASSUME State(m, l, h, p)
      PROVE  Stored(w) /\ State(w, k, h, p)
  <2>1. FindAt(m, h, p, l.ptr, l.prev) /\ l.op = "free"
    BY <1>3 DEF State, AllocState, InsertState, ReturnState, AllocPcs, LatePcs
  <2> HIDE DEF k, r
  <2>2. Stored(w) /\ ReadyAt(w, Result(h, "free", l.num, p), l.ptr, l.ptr)
    BY <1>1, <2>1, FindStep
  <2> HIDE DEF w
  <2>3. ReadyAt(w, Result(h, "free", l.num, p), k.ptr, k.block)
    BY <1>2, <2>1, <2>2
  <2>4. k.op = l.op /\ k.num = l.num
    BY <1>2 DEF Kept
  <2> QED BY <1>2, <2>1, <2>2, <2>3, <2>4
          DEF State, AllocState, InsertState, ReturnState, AllocPcs, LatePcs, r
<1> HIDE DEF k, w
<1> QED BY <1>2, <1>3 DEF WriteGood, k, w

LEMMA InsertGood ==
    ASSUME NEW m, NEW l, NEW h, NEW p, Calling(m, l, h), l.pc = "insert"
    PROVE  ReadGood(m, l, h, p, [l EXCEPT !.pc = "place", !.next = l.ptr, !.ptr = m.free,
                                          !.prev = 0])
<1> DEFINE k == [l EXCEPT !.pc = "place", !.next = l.ptr, !.ptr = m.free, !.prev = 0]
           r == Result(h, l.op, l.num, p)
<1>1. Stored(m) /\ Full(h) /\ Shape(l) /\ (l.op = "alloc" => l.num \in Rounds)
  BY DEF Calling
<1>2. /\ Kept(l, k) /\ k.wrote = l.wrote
      /\ k.pc = "place" /\ k.next = l.ptr /\ k.ptr = m.free /\ k.prev = 0 /\ k.block = l.block
  BY <1>1 DEF Kept, Shape, Locals
<1>3. ASSUME State(m, l, h, p)
      PROVE  State(m, k, h, p)
  <2>1. ReadyAt(m, r, l.ptr, l.block) /\ l.wrote
    BY <1>3 DEF State, AllocState, InsertState, ReturnState, AllocPcs, LatePcs
  <2> HIDE DEF k, r
  <2>2. PlaceAt(m, r, l.ptr, l.block, m.free, 0)
    BY <1>1, <2>1, InsertStep
  <2>3. PlaceAt(m, r, k.next, k.block, k.ptr, k.prev)
    BY <1>2, <2>1, <2>2
  <2>4. k.op = l.op /\ k.num = l.num
    BY <1>2 DEF Kept
  <2> QED BY <1>2, <2>1, <2>2, <2>3, <2>4
          DEF State, AllocState, InsertState, ReturnState, AllocPcs, LatePcs, r
<1> HIDE DEF k
<1> QED BY <1>2, <1>3 DEF ReadGood, k

LEMMA PlaceGood ==
    ASSUME NEW m, NEW l, NEW h, NEW p, Calling(m, l, h), l.pc = "place",
           l.ptr # 0 /\ m.addr[l.block] > m.addr[l.ptr]
    PROVE  ReadGood(m, l, h, p, [l EXCEPT !.prev = l.ptr, !.ptr = m.next[l.ptr]])
<1> DEFINE k == [l EXCEPT !.prev = l.ptr, !.ptr = m.next[l.ptr]]
           r == Result(h, l.op, l.num, p)
<1>1. Stored(m) /\ Full(h) /\ Shape(l) /\ (l.op = "alloc" => l.num \in Rounds)
  BY DEF Calling
<1>2. /\ Kept(l, k) /\ k.wrote = l.wrote
      /\ k.pc = "place" /\ k.next = l.next /\ k.ptr = m.next[l.ptr] /\ k.prev = l.ptr
      /\ k.block = l.block
  BY <1>1 DEF Kept, Shape, Locals
<1>3. ASSUME State(m, l, h, p)
      PROVE  State(m, k, h, p)
  <2>1. PlaceAt(m, r, l.next, l.block, l.ptr, l.prev) /\ l.wrote
    BY <1>3 DEF State, AllocState, InsertState, ReturnState, AllocPcs, LatePcs
  <2> HIDE DEF k, r
  <2>2. PlaceAt(m, r, l.next, l.block, m.next[l.ptr], l.ptr)
    BY <1>1, <2>1, PlaceStep
  <2>3. PlaceAt(m, r, k.next, k.block, k.ptr, k.prev)
    BY <1>2, <2>1, <2>2
  <2>4. k.op = l.op /\ k.num = l.num
    BY <1>2 DEF Kept
  <2> QED BY <1>2, <2>1, <2>2, <2>3, <2>4
          DEF State, AllocState, InsertState, ReturnState, AllocPcs, LatePcs, r
<1> HIDE DEF k
<1> QED BY <1>2, <1>3 DEF ReadGood, k

LEMMA PlacedGood ==
    ASSUME NEW m, NEW l, NEW h, NEW p, Calling(m, l, h), l.pc = "place",
           ~(l.ptr # 0 /\ m.addr[l.block] > m.addr[l.ptr])
    PROVE  WriteGood(m, l, h, p, Link(m, "free", l.prev, l.block),
                     [l EXCEPT !.pc = "link"])
<1> DEFINE w == Link(m, "free", l.prev, l.block)
           k == [[l EXCEPT !.pc = "link"] EXCEPT !.wrote = TRUE]
           r == Result(h, l.op, l.num, p)
<1>1. Stored(m) /\ Full(h) /\ Shape(l) /\ (l.op = "alloc" => l.num \in Rounds)
  BY DEF Calling
<1>2. /\ Kept(l, k) /\ k.wrote = TRUE
      /\ k.pc = "link" /\ k.next = l.next /\ k.ptr = l.ptr /\ k.block = l.block
  BY <1>1 DEF Kept, Shape, Locals
<1>3. ASSUME State(m, l, h, p)
      PROVE  Stored(w) /\ State(w, k, h, p)
  <2>1. PlaceAt(m, r, l.next, l.block, l.ptr, l.prev)
    BY <1>3 DEF State, AllocState, InsertState, ReturnState, AllocPcs, LatePcs
  <2> HIDE DEF k, r
  <2>2. Stored(w) /\ LinkAt(w, r, l.next, l.block, l.ptr)
    BY <1>1, <2>1, PlaceStep
  <2> HIDE DEF w
  <2>3. LinkAt(w, r, k.next, k.block, k.ptr)
    BY <1>2, <2>1, <2>2
  <2>4. k.op = l.op /\ k.num = l.num
    BY <1>2 DEF Kept
  <2> QED BY <1>2, <2>1, <2>2, <2>3, <2>4
          DEF State, AllocState, InsertState, ReturnState, AllocPcs, LatePcs, r
<1> HIDE DEF k, w
<1> QED BY <1>2, <1>3 DEF WriteGood, k, w

LEMMA LinkGood ==
    ASSUME NEW m, NEW l, NEW h, NEW p, Calling(m, l, h), l.pc = "link"
    PROVE  WriteGood(m, l, h, p, [m EXCEPT !.next[l.block] = l.ptr],
                     [l EXCEPT !.pc = "compact", !.ptr = m.free])
<1> DEFINE w == [m EXCEPT !.next[l.block] = l.ptr]
           k == [[l EXCEPT !.pc = "compact", !.ptr = m.free] EXCEPT !.wrote = TRUE]
           r == Result(h, l.op, l.num, p)
<1>1. Stored(m) /\ Full(h) /\ Shape(l) /\ (l.op = "alloc" => l.num \in Rounds)
  BY DEF Calling
<1>2. /\ Kept(l, k) /\ k.wrote = TRUE
      /\ k.pc = "compact" /\ k.next = l.next /\ k.ptr = m.free
  BY <1>1 DEF Kept, Shape, Locals
<1>3. ASSUME State(m, l, h, p)
      PROVE  Stored(w) /\ State(w, k, h, p)
  <2>1. LinkAt(m, r, l.next, l.block, l.ptr)
    BY <1>3 DEF State, AllocState, InsertState, ReturnState, AllocPcs, LatePcs
  <2> HIDE DEF k, r
  <2>2. Stored(w) /\ CompactAt(w, r, l.next, m.free)
    BY <1>1, <2>1, LinkStep
  <2> HIDE DEF w
  <2>3. CompactAt(w, r, k.next, k.ptr)
    BY <1>2, <2>1, <2>2
  <2>4. k.op = l.op /\ k.num = l.num
    BY <1>2 DEF Kept
  <2> QED BY <1>2, <2>1, <2>2, <2>3, <2>4
          DEF State, AllocState, InsertState, ReturnState, AllocPcs, LatePcs, r
<1> HIDE DEF k, w
<1> QED BY <1>2, <1>3 DEF WriteGood, k, w

LEMMA CompactedGood ==
    ASSUME NEW m, NEW l, NEW h, NEW p, Calling(m, l, h), l.pc = "compact",
           l.ptr = 0
    PROVE  ReadGood(m, l, h, p, [l EXCEPT !.pc = "return", !.ptr = l.next])
<1> DEFINE k == [l EXCEPT !.pc = "return", !.ptr = l.next]
           r == Result(h, l.op, l.num, p)
<1>1. Stored(m) /\ Full(h) /\ Shape(l) /\ (l.op = "alloc" => l.num \in Rounds)
  BY DEF Calling
<1>2. /\ Kept(l, k) /\ k.wrote = l.wrote
      /\ k.pc = "return" /\ k.ptr = l.next
  BY <1>1 DEF Kept, Shape, Locals
<1>3. ASSUME State(m, l, h, p)
      PROVE  State(m, k, h, p)
  <2>1. CompactAt(m, r, l.next, l.ptr) /\ l.wrote
    BY <1>3 DEF State, AllocState, InsertState, ReturnState, AllocPcs, LatePcs
  <2> HIDE DEF k, r
  <2>2. Returns(m, r, l.next)
    BY <1>1, <2>1, RunStartStep
  <2>3. Returns(m, r, k.ptr)
    BY <1>2, <2>1, <2>2
  <2>4. k.op = l.op /\ k.num = l.num
    BY <1>2 DEF Kept
  <2> QED BY <1>2, <2>1, <2>2, <2>3, <2>4
          DEF State, AllocState, InsertState, ReturnState, AllocPcs, LatePcs, r
<1> HIDE DEF k
<1> QED BY <1>2, <1>3 DEF ReadGood, k

LEMMA RunStartGood ==
    ASSUME NEW m, NEW l, NEW h, NEW p, Calling(m, l, h), l.pc = "compact",
           l.ptr # 0
    PROVE  ReadGood(m, l, h, p, [l EXCEPT !.pc = "run", !.prev = l.ptr, !.scan = m.next[l.ptr]])
<1> DEFINE k == [l EXCEPT !.pc = "run", !.prev = l.ptr, !.scan = m.next[l.ptr]]
           r == Result(h, l.op, l.num, p)
<1>1. Stored(m) /\ Full(h) /\ Shape(l) /\ (l.op = "alloc" => l.num \in Rounds)
  BY DEF Calling
<1>2. /\ Kept(l, k) /\ k.wrote = l.wrote
      /\ k.pc = "run" /\ k.next = l.next /\ k.ptr = l.ptr /\ k.prev = l.ptr
      /\ k.scan = m.next[l.ptr]
  BY <1>1 DEF Kept, Shape, Locals
<1>3. ASSUME State(m, l, h, p)
      PROVE  State(m, k, h, p)
  <2>1. CompactAt(m, r, l.next, l.ptr) /\ l.wrote
    BY <1>3 DEF State, AllocState, InsertState, ReturnState, AllocPcs, LatePcs
  <2> HIDE DEF k, r
  <2>2. RunAt(m, r, l.next, l.ptr, l.ptr, m.next[l.ptr])
    BY <1>1, <2>1, RunStartStep
  <2>3. RunAt(m, r, k.next, k.ptr, k.prev, k.scan)
    BY <1>2, <2>1, <2>2
  <2>4. k.op = l.op /\ k.num = l.num
    BY <1>2 DEF Kept
  <2> QED BY <1>2, <2>1, <2>2, <2>3, <2>4
          DEF State, AllocState, InsertState, ReturnState, AllocPcs, LatePcs, r
<1> HIDE DEF k
<1> QED BY <1>2, <1>3 DEF ReadGood, k

LEMMA FollowGood ==
    ASSUME NEW m, NEW l, NEW h, NEW p, Calling(m, l, h), l.pc = "run",
           l.scan # 0 /\ Wrap(m.addr[l.prev] + m.size[l.prev]) = m.addr[l.scan]
    PROVE  ReadGood(m, l, h, p, [l EXCEPT !.prev = l.scan, !.scan = m.next[l.scan]])
<1> DEFINE k == [l EXCEPT !.prev = l.scan, !.scan = m.next[l.scan]]
           r == Result(h, l.op, l.num, p)
<1>1. Stored(m) /\ Full(h) /\ Shape(l) /\ (l.op = "alloc" => l.num \in Rounds)
  BY DEF Calling
<1>2. /\ Kept(l, k) /\ k.wrote = l.wrote
      /\ k.pc = "run" /\ k.next = l.next /\ k.ptr = l.ptr /\ k.prev = l.scan
      /\ k.scan = m.next[l.scan]
  BY <1>1 DEF Kept, Shape, Locals
<1>3. ASSUME State(m, l, h, p)
      PROVE  State(m, k, h, p)
  <2>1. RunAt(m, r, l.next, l.ptr, l.prev, l.scan) /\ l.wrote
    BY <1>3 DEF State, AllocState, InsertState, ReturnState, AllocPcs, LatePcs
  <2> HIDE DEF k, r
  <2>2. RunAt(m, r, l.next, l.ptr, l.scan, m.next[l.scan])
    <3>1. Followed(m, r, l.next, l.ptr, l.prev, l.scan)
      BY <1>1, <2>1, FollowStep
    <3> QED BY <3>1 DEF Followed
  <2>3. RunAt(m, r, k.next, k.ptr, k.prev, k.scan)
    BY <1>2, <2>1, <2>2
  <2>4. k.op = l.op /\ k.num = l.num
    BY <1>2 DEF Kept
  <2> QED BY <1>2, <2>1, <2>2, <2>3, <2>4
          DEF State, AllocState, InsertState, ReturnState, AllocPcs, LatePcs, r
<1> HIDE DEF k
<1> QED BY <1>2, <1>3 DEF ReadGood, k

LEMMA AloneGood ==
    ASSUME NEW m, NEW l, NEW h, NEW p, Calling(m, l, h), l.pc = "run",
           ~(l.scan # 0 /\ Wrap(m.addr[l.prev] + m.size[l.prev]) = m.addr[l.scan]), l.prev = l.ptr
    PROVE  ReadGood(m, l, h, p, [l EXCEPT !.pc = "compact", !.ptr = m.next[l.ptr]])
<1> DEFINE k == [l EXCEPT !.pc = "compact", !.ptr = m.next[l.ptr]]
           r == Result(h, l.op, l.num, p)
<1>1. Stored(m) /\ Full(h) /\ Shape(l) /\ (l.op = "alloc" => l.num \in Rounds)
  BY DEF Calling
<1>2. /\ Kept(l, k) /\ k.wrote = l.wrote
      /\ k.pc = "compact" /\ k.next = l.next /\ k.ptr = m.next[l.ptr]
  BY <1>1 DEF Kept, Shape, Locals
<1>3. ASSUME State(m, l, h, p)
      PROVE  State(m, k, h, p)
  <2>1. RunAt(m, r, l.next, l.ptr, l.prev, l.scan) /\ l.wrote
    BY <1>3 DEF State, AllocState, InsertState, ReturnState, AllocPcs, LatePcs
  <2> HIDE DEF k, r
  <2>2. CompactAt(m, r, l.next, m.next[l.ptr])
    <3>1. Followed(m, r, l.next, l.ptr, l.prev, l.scan)
      BY <1>1, <2>1, FollowStep
    <3> QED BY <3>1 DEF Followed
  <2>3. CompactAt(m, r, k.next, k.ptr)
    BY <1>2, <2>1, <2>2
  <2>4. k.op = l.op /\ k.num = l.num
    BY <1>2 DEF Kept
  <2> QED BY <1>2, <2>1, <2>2, <2>3, <2>4
          DEF State, AllocState, InsertState, ReturnState, AllocPcs, LatePcs, r
<1> HIDE DEF k
<1> QED BY <1>2, <1>3 DEF ReadGood, k

LEMMA RunGood ==
    ASSUME NEW m, NEW l, NEW h, NEW p, Calling(m, l, h), l.pc = "run",
           ~(l.scan # 0 /\ Wrap(m.addr[l.prev] + m.size[l.prev]) = m.addr[l.scan]), l.prev # l.ptr
    PROVE  WriteGood(m, l, h, p, [m EXCEPT !.size[l.ptr] =
                            m.addr[l.prev] - m.addr[l.ptr] + m.size[l.prev]],
                     [l EXCEPT !.pc = "release", !.scan = m.next[l.ptr],
                                !.prev = m.next[l.prev]])
<1> DEFINE w == [m EXCEPT !.size[l.ptr] =
                            m.addr[l.prev] - m.addr[l.ptr] + m.size[l.prev]]
           k == [[l EXCEPT !.pc = "release", !.scan = m.next[l.ptr],
                                !.prev = m.next[l.prev]] EXCEPT !.wrote = TRUE]
           r == Result(h, l.op, l.num, p)
<1>1. Stored(m) /\ Full(h) /\ Shape(l) /\ (l.op = "alloc" => l.num \in Rounds)
  BY DEF Calling
<1>2. /\ Kept(l, k) /\ k.wrote = TRUE
      /\ k.pc = "release" /\ k.next = l.next /\ k.ptr = l.ptr /\ k.scan = m.next[l.ptr]
      /\ k.prev = m.next[l.prev]
  BY <1>1 DEF Kept, Shape, Locals
<1>3. ASSUME State(m, l, h, p)
      PROVE  Stored(w) /\ State(w, k, h, p)
  <2>1. RunAt(m, r, l.next, l.ptr, l.prev, l.scan)
    BY <1>3 DEF State, AllocState, InsertState, ReturnState, AllocPcs, LatePcs
  <2> HIDE DEF k, r
  <2>2. Stored(w) /\ ReleaseAt(w, r, l.next, l.ptr, m.next[l.prev], m.next[l.ptr])
    <3>1. Followed(m, r, l.next, l.ptr, l.prev, l.scan)
      BY <1>1, <2>1, FollowStep
    <3> QED BY <3>1 DEF Followed
  <2> HIDE DEF w
  <2>3. ReleaseAt(w, r, k.next, k.ptr, k.prev, k.scan)
    BY <1>2, <2>1, <2>2
  <2>4. k.op = l.op /\ k.num = l.num
    BY <1>2 DEF Kept
  <2> QED BY <1>2, <2>1, <2>2, <2>3, <2>4
          DEF State, AllocState, InsertState, ReturnState, AllocPcs, LatePcs, r
<1> HIDE DEF k, w
<1> QED BY <1>2, <1>3 DEF WriteGood, k, w

LEMMA ReleaseGood ==
    ASSUME NEW m, NEW l, NEW h, NEW p, Calling(m, l, h), l.pc = "release",
           l.scan # l.prev
    PROVE  WriteGood(m, l, h, p, [m EXCEPT !.next[l.scan] = m.fresh],
                     [l EXCEPT !.pc = "set_fresh", !.top = m.next[l.scan]])
<1> DEFINE w == [m EXCEPT !.next[l.scan] = m.fresh]
           k == [[l EXCEPT !.pc = "set_fresh", !.top = m.next[l.scan]] EXCEPT !.wrote = TRUE]
           r == Result(h, l.op, l.num, p)
<1>1. Stored(m) /\ Full(h) /\ Shape(l) /\ (l.op = "alloc" => l.num \in Rounds)
  BY DEF Calling
<1>2. /\ Kept(l, k) /\ k.wrote = TRUE
      /\ k.pc = "set_fresh" /\ k.next = l.next /\ k.ptr = l.ptr /\ k.scan = l.scan
      /\ k.prev = l.prev
      /\ k.top = m.next[l.scan]
  BY <1>1 DEF Kept, Shape, Locals
<1>3. ASSUME State(m, l, h, p)
      PROVE  Stored(w) /\ State(w, k, h, p)
  <2>1. ReleaseAt(m, r, l.next, l.ptr, l.prev, l.scan)
    BY <1>3 DEF State, AllocState, InsertState, ReturnState, AllocPcs, LatePcs
  <2> HIDE DEF k, r
  <2>2. Stored(w) /\ SetFreshAt(w, r, l.next, l.ptr, l.prev, l.scan, m.next[l.scan])
    BY <1>1, <2>1, ReleaseStep
  <2> HIDE DEF w
  <2>3. SetFreshAt(w, r, k.next, k.ptr, k.prev, k.scan, k.top)
    BY <1>2, <2>1, <2>2
  <2>4. k.op = l.op /\ k.num = l.num
    BY <1>2 DEF Kept
  <2> QED BY <1>2, <2>1, <2>2, <2>3, <2>4
          DEF State, AllocState, InsertState, ReturnState, AllocPcs, LatePcs, r
<1> HIDE DEF k, w
<1> QED BY <1>2, <1>3 DEF WriteGood, k, w

LEMMA ReleasedGood ==
    ASSUME NEW m, NEW l, NEW h, NEW p, Calling(m, l, h), l.pc = "release",
           l.scan = l.prev
    PROVE  WriteGood(m, l, h, p, [m EXCEPT !.next[l.ptr] = l.prev],
                     [l EXCEPT !.pc = "compact", !.ptr = l.prev])
<1> DEFINE w == [m EXCEPT !.next[l.ptr] = l.prev]
           k == [[l EXCEPT !.pc = "compact", !.ptr = l.prev] EXCEPT !.wrote = TRUE]
           r == Result(h, l.op, l.num, p)
<1>1. Stored(m) /\ Full(h) /\ Shape(l) /\ (l.op = "alloc" => l.num \in Rounds)
  BY DEF Calling
<1>2. /\ Kept(l, k) /\ k.wrote = TRUE
      /\ k.pc = "compact" /\ k.next = l.next /\ k.ptr = l.prev
  BY <1>1 DEF Kept, Shape, Locals
<1>3. ASSUME State(m, l, h, p)
      PROVE  Stored(w) /\ State(w, k, h, p)
  <2>1. ReleaseAt(m, r, l.next, l.ptr, l.prev, l.scan)
    BY <1>3 DEF State, AllocState, InsertState, ReturnState, AllocPcs, LatePcs
  <2> HIDE DEF k, r
  <2>2. Stored(w) /\ CompactAt(w, r, l.next, l.prev)
    BY <1>1, <2>1, ReleasedStep
  <2> HIDE DEF w
  <2>3. CompactAt(w, r, k.next, k.ptr)
    BY <1>2, <2>1, <2>2
  <2>4. k.op = l.op /\ k.num = l.num
    BY <1>2 DEF Kept
  <2> QED BY <1>2, <2>1, <2>2, <2>3, <2>4
          DEF State, AllocState, InsertState, ReturnState, AllocPcs, LatePcs, r
<1> HIDE DEF k, w
<1> QED BY <1>2, <1>3 DEF WriteGood, k, w

LEMMA SetFreshGood ==
    ASSUME NEW m, NEW l, NEW h, NEW p, Calling(m, l, h), l.pc = "set_fresh"
    PROVE  WriteGood(m, l, h, p, [m EXCEPT !.fresh = l.scan],
                     [l EXCEPT !.pc = "clear"])
<1> DEFINE w == [m EXCEPT !.fresh = l.scan]
           k == [[l EXCEPT !.pc = "clear"] EXCEPT !.wrote = TRUE]
           r == Result(h, l.op, l.num, p)
<1>1. Stored(m) /\ Full(h) /\ Shape(l) /\ (l.op = "alloc" => l.num \in Rounds)
  BY DEF Calling
<1>2. /\ Kept(l, k) /\ k.wrote = TRUE
      /\ k.pc = "clear" /\ k.next = l.next /\ k.ptr = l.ptr /\ k.scan = l.scan
      /\ k.prev = l.prev /\ k.top = l.top
  BY <1>1 DEF Kept, Shape, Locals
<1>3. ASSUME State(m, l, h, p)
      PROVE  Stored(w) /\ State(w, k, h, p)
  <2>1. SetFreshAt(m, r, l.next, l.ptr, l.prev, l.scan, l.top)
    BY <1>3 DEF State, AllocState, InsertState, ReturnState, AllocPcs, LatePcs
  <2> HIDE DEF k, r
  <2>2. Stored(w) /\ ClearAt(w, r, l.next, l.ptr, l.prev, l.scan, l.top)
    BY <1>1, <2>1, SetFreshStep
  <2> HIDE DEF w
  <2>3. ClearAt(w, r, k.next, k.ptr, k.prev, k.scan, k.top)
    BY <1>2, <2>1, <2>2
  <2>4. k.op = l.op /\ k.num = l.num
    BY <1>2 DEF Kept
  <2> QED BY <1>2, <2>1, <2>2, <2>3, <2>4
          DEF State, AllocState, InsertState, ReturnState, AllocPcs, LatePcs, r
<1> HIDE DEF k, w
<1> QED BY <1>2, <1>3 DEF WriteGood, k, w

LEMMA ClearGood ==
    ASSUME NEW m, NEW l, NEW h, NEW p, Calling(m, l, h), l.pc = "clear"
    PROVE  WriteGood(m, l, h, p, [m EXCEPT !.addr[l.scan] = 0, !.size[l.scan] = 0],
                     [l EXCEPT !.pc = "release", !.scan = l.top])
<1> DEFINE w == [m EXCEPT !.addr[l.scan] = 0, !.size[l.scan] = 0]
           k == [[l EXCEPT !.pc = "release", !.scan = l.top] EXCEPT !.wrote = TRUE]
           r == Result(h, l.op, l.num, p)
<1>1. Stored(m) /\ Full(h) /\ Shape(l) /\ (l.op = "alloc" => l.num \in Rounds)
  BY DEF Calling
<1>2. /\ Kept(l, k) /\ k.wrote = TRUE
      /\ k.pc = "release" /\ k.next = l.next /\ k.ptr = l.ptr /\ k.scan = l.top /\ k.prev = l.prev
  BY <1>1 DEF Kept, Shape, Locals
<1>3. ASSUME State(m, l, h, p)
      PROVE  Stored(w) /\ State(w, k, h, p)
  <2>1. ClearAt(m, r, l.next, l.ptr, l.prev, l.scan, l.top)
    BY <1>3 DEF State, AllocState, InsertState, ReturnState, AllocPcs, LatePcs
  <2> HIDE DEF k, r
  <2>2. Stored(w) /\ ReleaseAt(w, r, l.next, l.ptr, l.prev, l.top)
    BY <1>1, <2>1, ClearStep
  <2> HIDE DEF w
  <2>3. ReleaseAt(w, r, k.next, k.ptr, k.prev, k.scan)
    BY <1>2, <2>1, <2>2
  <2>4. k.op = l.op /\ k.num = l.num
    BY <1>2 DEF Kept
  <2> QED BY <1>2, <2>1, <2>2, <2>3, <2>4
          DEF State, AllocState, InsertState, ReturnState, AllocPcs, LatePcs, r
<1> HIDE DEF k, w
<1> QED BY <1>2, <1>3 DEF WriteGood, k, w

-----------------------------------------------------------------------------
(* The calls of all tasks together.                                        *)

CallOk(l) ==
    /\ Shape(l) /\ l.wrote \in BOOLEAN /\ l.stale \in BOOLEAN
    /\ l.pc = "idle" => ~l.wrote
    /\ l.pc # "idle" => l.c \in Owners
    /\ l.op = "alloc" => l.num \in Rounds

Aside(l) == l.pc = "idle" \/ l.stale

(* One call writes at a time, every other has not begun or is disturbed,   *)
(* and what an undisturbed one has made of the memory is known.            *)
CalmWith(m, calls, h, d) ==
    /\ Stored(m) /\ Full(h) /\ DOMAIN calls = Tasks /\ DOMAIN d = Owners
    /\ \A t \in Tasks : CallOk(calls[t])
    /\ \A t, u \in Tasks : t # u /\ calls[t].pc # "idle" /\ calls[u].pc # "idle"
                 => calls[t].c # calls[u].c
    /\ \A t, u \in Tasks : t # u /\ calls[t].wrote => ~calls[u].wrote /\ Aside(calls[u])
    /\ \A t \in Tasks : calls[t].wrote => ~calls[t].stale
    /\ (\A t \in Tasks : ~calls[t].wrote) => Forms(m, h, {})
    /\ \A t \in Tasks : calls[t].pc # "idle" /\ ~calls[t].stale
                          => State(m, calls[t], h, d[calls[t].c].ptr)

LEMMA IdleCall == CallOk(Idle) /\ ~Idle.wrote /\ ~Idle.stale /\ Idle.pc = "idle"
BY DEF CallOk, Idle, Shape, Locals

LEMMA CalmCall ==
    ASSUME NEW m, NEW calls, NEW h, NEW d, CalmWith(m, calls, h, d), NEW t \in Tasks
    PROVE  Calling(m, calls[t], h)
BY DEF CalmWith, CallOk, Calling

LEMMA ReadKeeps ==
    ASSUME NEW m, NEW calls, NEW h, NEW d, CalmWith(m, calls, h, d),
           NEW t \in Tasks, calls[t].pc # "idle",
           NEW k, ReadGood(m, calls[t], h, d[calls[t].c].ptr, k)
    PROVE  CalmWith(m, [calls EXCEPT ![t] = k], h, d)
<1> DEFINE l == calls[t]
           p == d[l.c].ptr
           calls2 == [calls EXCEPT ![t] = k]
<1>1. /\ Stored(m) /\ Full(h) /\ DOMAIN calls = Tasks /\ DOMAIN d = Owners
      /\ \A u \in Tasks : CallOk(calls[u])
      /\ \A v, u \in Tasks : v # u /\ calls[v].pc # "idle" /\ calls[u].pc # "idle"
                   => calls[v].c # calls[u].c
      /\ \A v, u \in Tasks : v # u /\ calls[v].wrote => ~calls[u].wrote /\ Aside(calls[u])
      /\ \A u \in Tasks : calls[u].wrote => ~calls[u].stale
      /\ (\A u \in Tasks : ~calls[u].wrote) => Forms(m, h, {})
      /\ \A u \in Tasks : calls[u].pc # "idle" /\ ~calls[u].stale
                            => State(m, calls[u], h, d[calls[u].c].ptr)
  BY DEF CalmWith
<1>2. /\ Shape(k) /\ k.op = l.op /\ k.c = l.c /\ k.num = l.num /\ k.stale = l.stale
      /\ k.wrote = l.wrote /\ k.pc # "idle" /\ (State(m, l, h, p) => State(m, k, h, p))
  BY DEF ReadGood, Kept
<1>3. DOMAIN calls2 = Tasks /\ calls2[t] = k /\ \A u \in Tasks \ {t} : calls2[u] = calls[u]
  BY <1>1
<1>4. l.pc # "idle"
  OBVIOUS
<1>5. CallOk(k)
  BY <1>1, <1>2, <1>4 DEF CallOk
<1>6. ~k.stale => State(m, k, h, d[k.c].ptr)
  BY <1>1, <1>2, <1>4
<1> HIDE DEF calls2, p
<1>7. /\ \A u \in Tasks : /\ calls2[u].wrote = calls[u].wrote /\ calls2[u].stale = calls[u].stale
                          /\ calls2[u].c = calls[u].c
                          /\ calls2[u].pc = "idle" <=> calls[u].pc = "idle"
  BY <1>2, <1>3, <1>4
<1> HIDE DEF l
<1>8. \A u \in Tasks : CallOk(calls2[u])
  BY <1>1, <1>3, <1>5
<1>9. \A u \in Tasks : calls2[u].pc # "idle" /\ ~calls2[u].stale
                         => State(m, calls2[u], h, d[calls2[u].c].ptr)
  BY <1>1, <1>3, <1>6
<1>10. /\ \A v, u \in Tasks : v # u /\ calls2[v].pc # "idle" /\ calls2[u].pc # "idle"
                    => calls2[v].c # calls2[u].c
       /\ \A v, u \in Tasks : v # u /\ calls2[v].wrote => ~calls2[u].wrote /\ Aside(calls2[u])
       /\ \A u \in Tasks : calls2[u].wrote => ~calls2[u].stale
       /\ (\A u \in Tasks : ~calls2[u].wrote) => Forms(m, h, {})
  BY <1>1, <1>7 DEF Aside
<1> QED BY <1>1, <1>3, <1>8, <1>9, <1>10 DEF CalmWith, calls2

LEMMA WriteKeeps ==
    ASSUME NEW m, NEW calls, NEW h, NEW d, CalmWith(m, calls, h, d),
           NEW t \in Tasks, calls[t].pc # "idle", ~calls[t].stale,
           NEW w, NEW x, WriteGood(m, calls[t], h, d[calls[t].c].ptr, w, x)
    PROVE  CalmWith(w, [u \in Tasks |-> IF u = t THEN [x EXCEPT !.wrote = TRUE]
                                       ELSE [calls[u] EXCEPT !.stale = calls[u] # Idle]], h, d)
<1> DEFINE l == calls[t]
           k == [x EXCEPT !.wrote = TRUE]
           p == d[l.c].ptr
           other(u) == [calls[u] EXCEPT !.stale = calls[u] # Idle]
           calls2 == [u \in Tasks |-> IF u = t THEN k ELSE other(u)]
<1>1. /\ Stored(m) /\ Full(h) /\ DOMAIN calls = Tasks /\ DOMAIN d = Owners
      /\ \A u \in Tasks : CallOk(calls[u])
      /\ \A v, u \in Tasks : v # u /\ calls[v].pc # "idle" /\ calls[u].pc # "idle"
                   => calls[v].c # calls[u].c
      /\ \A v, u \in Tasks : v # u /\ calls[v].wrote => ~calls[u].wrote /\ Aside(calls[u])
      /\ \A u \in Tasks : calls[u].pc # "idle" /\ ~calls[u].stale
                            => State(m, calls[u], h, d[calls[u].c].ptr)
  BY DEF CalmWith
<1>2. /\ Shape(k) /\ k.op = l.op /\ k.c = l.c /\ k.num = l.num /\ k.stale = l.stale
      /\ k.wrote = TRUE /\ k.pc # "idle"
      /\ State(m, l, h, p) => Stored(w) /\ State(w, k, h, p)
  BY DEF WriteGood, Kept
<1>3. State(m, l, h, p) /\ l.pc # "idle" /\ ~l.stale
  BY <1>1
<1>4. CallOk(k)
  BY <1>1, <1>2, <1>3 DEF CallOk
<1>5. ASSUME NEW u \in Tasks, u # t
      PROVE  /\ CallOk(other(u)) /\ other(u).c = calls[u].c /\ ~other(u).wrote
             /\ other(u).pc = calls[u].pc /\ Aside(other(u))
             /\ other(u).pc # "idle" => other(u).stale
  <2> DEFINE c == calls[u]
             s == c # Idle
             o == [c EXCEPT !.stale = s]
  <2>1. CallOk(c)
    BY <1>1
  <2>2. ~c.wrote
    <3>1. Aside(l) => FALSE
      BY <1>3 DEF Aside
    <3> QED BY <1>1, <1>5, <3>1
  <2> HIDE DEF c
  <2>3. /\ Shape(o) /\ o.pc = c.pc /\ o.op = c.op /\ o.c = c.c /\ o.num = c.num
        /\ o.wrote = c.wrote /\ o.stale = s /\ s \in BOOLEAN
    BY <2>1 DEF CallOk, Shape, Locals
  <2> HIDE DEF o
  <2>5. c.pc # "idle" => s
    BY IdleCall
  <2>6. CallOk(o)
    BY <2>1, <2>3 DEF CallOk
  <2>7. Aside(o)
    BY <2>3, <2>5 DEF Aside
  <2> QED BY <2>2, <2>3, <2>5, <2>6, <2>7 DEF c, o
<1> HIDE DEF other, k
<1>6. DOMAIN calls2 = Tasks /\ calls2[t] = k /\ \A u \in Tasks \ {t} : calls2[u] = other(u)
  OBVIOUS
<1> HIDE DEF calls2, p
<1>7. \A u \in Tasks : CallOk(calls2[u]) /\ calls2[u].c = calls[u].c
                       /\ (calls2[u].pc = "idle" <=> calls[u].pc = "idle")
  BY <1>2, <1>3, <1>4, <1>5, <1>6
<1>8. \A u \in Tasks : u # t => ~calls2[u].wrote /\ Aside(calls2[u])
  BY <1>5, <1>6
<1>9. calls2[t].wrote /\ ~calls2[t].stale
  BY <1>2, <1>3, <1>6
<1>10. \A u \in Tasks : calls2[u].pc # "idle" /\ ~calls2[u].stale
                          => State(w, calls2[u], h, d[calls2[u].c].ptr)
  <2>1. State(w, k, h, d[k.c].ptr)
    BY <1>2, <1>3 DEF p
  <2> QED BY <1>5, <1>6, <2>1
<1> HIDE DEF l
<1>11. /\ \A v, u \in Tasks : v # u /\ calls2[v].pc # "idle" /\ calls2[u].pc # "idle"
                    => calls2[v].c # calls2[u].c
       /\ \A v, u \in Tasks : v # u /\ calls2[v].wrote => ~calls2[u].wrote /\ Aside(calls2[u])
       /\ \A u \in Tasks : calls2[u].wrote => ~calls2[u].stale
       /\ (\A u \in Tasks : ~calls2[u].wrote) => Forms(w, h, {})
  BY <1>1, <1>7, <1>8, <1>9
<1>12. CalmWith(w, calls2, h, d)
  BY <1>1, <1>2, <1>3, <1>6, <1>7, <1>10, <1>11 DEF CalmWith, l, p
<1> QED BY <1>12 DEF calls2, k, other

LEMMA BeginKeeps ==
    ASSUME NEW m, NEW calls, NEW h, NEW d, CalmWith(m, calls, h, d),
           NEW t \in Tasks, calls[t].pc = "idle", NEW k, Shape(k), k.wrote = FALSE,
           k.stale = \E u \in Tasks : calls[u].wrote, k.pc # "idle", k.c \in Owners,
           k.op = "alloc" => k.num \in Rounds, \A u \in Tasks : calls[u].c # k.c,
           Forms(m, h, {}) => State(m, k, h, d[k.c].ptr)
    PROVE  CalmWith(m, [calls EXCEPT ![t] = k], h, d)
<1> DEFINE calls2 == [calls EXCEPT ![t] = k]
<1>1. /\ Stored(m) /\ Full(h) /\ DOMAIN calls = Tasks /\ DOMAIN d = Owners
      /\ \A u \in Tasks : CallOk(calls[u])
      /\ \A v, u \in Tasks : v # u /\ calls[v].pc # "idle" /\ calls[u].pc # "idle"
                   => calls[v].c # calls[u].c
      /\ \A v, u \in Tasks : v # u /\ calls[v].wrote => ~calls[u].wrote /\ Aside(calls[u])
      /\ \A u \in Tasks : calls[u].wrote => ~calls[u].stale
      /\ (\A u \in Tasks : ~calls[u].wrote) => Forms(m, h, {})
      /\ \A u \in Tasks : calls[u].pc # "idle" /\ ~calls[u].stale
                            => State(m, calls[u], h, d[calls[u].c].ptr)
  BY DEF CalmWith
<1>2. DOMAIN calls2 = Tasks /\ calls2[t] = k /\ \A u \in Tasks \ {t} : calls2[u] = calls[u]
  BY <1>1
<1> HIDE DEF calls2
<1>3. CallOk(k)
  <2>1. k.stale \in BOOLEAN
    OBVIOUS
  <2> QED BY <2>1 DEF CallOk
<1>4. ~calls[t].wrote
  BY <1>1 DEF CallOk
<1>5. \A u \in Tasks : CallOk(calls2[u])
  BY <1>1, <1>2, <1>3
<1>6. \A u \in Tasks : calls2[u].wrote <=> calls[u].wrote
  BY <1>2, <1>4
<1>7. \A u \in Tasks : calls2[u].wrote => ~calls2[u].stale
  BY <1>1, <1>2, <1>6
<1>8. (\A u \in Tasks : ~calls2[u].wrote) => Forms(m, h, {})
  BY <1>1, <1>6
<1>9. \A u \in Tasks : (\E v \in Tasks : v # u /\ calls2[v].wrote)
                => ~calls2[u].wrote /\ Aside(calls2[u])
  <2>1. (\E v \in Tasks : calls[v].wrote) => Aside(k)
    BY DEF Aside
  <2> QED BY <1>1, <1>2, <1>6, <2>1
<1>10. \A v, u \in Tasks : v # u /\ calls2[v].pc # "idle" /\ calls2[u].pc # "idle"
                 => calls2[v].c # calls2[u].c
  <2>1. \A u \in Tasks : calls[u].c # k.c
    OBVIOUS
  <2> QED BY <1>1, <1>2, <2>1
<1>11. ~k.stale => State(m, k, h, d[k.c].ptr)
  BY <1>1
<1>12. \A u \in Tasks : calls2[u].pc # "idle" /\ ~calls2[u].stale
                          => State(m, calls2[u], h, d[calls2[u].c].ptr)
  BY <1>1, <1>2, <1>11
<1>13. \A v, u \in Tasks : v # u /\ calls2[v].wrote => ~calls2[u].wrote /\ Aside(calls2[u])
  BY <1>9
<1> QED BY <1>1, <1>2, <1>5, <1>7, <1>8, <1>10, <1>12, <1>13 DEF CalmWith, calls2

(* What Heap makes of a call is a heap in order again.                     *)
LEMMA ResultFull ==
    ASSUME NEW h, Full(h), NEW op, NEW num, op = "alloc" => num \in Rounds, NEW p
    PROVE  Full(Result(h, op, num, p).heap)
<1>1. CASE op = "alloc"
  <2>1. PICK request \in Sizes : num = RoundUp(request)
    BY <1>1 DEF Rounds
  <2>2. RoundUp(num) = RoundUp(request) /\ request \in Requests
    BY <1>1, <2>1, RoundedTwice DEF Requests
  <2>3. AllocBlock(h, num) = AllocBlock(h, request)
    BY <2>2 DEF AllocBlock
  <2>4. Good(AllocBlock(h, request).heap) /\ Strict(AllocBlock(h, request).heap)
    BY <2>2, AllocGood DEF Full
  <2> QED BY <1>1, <2>3, <2>4 DEF Result, Full
<1>2. CASE op # "alloc"
  <2> DEFINE n == Len(h.used)
             I == {j \in 1 .. n : h.addr[h.used[j]] = p}
             k == IF I # {} THEN Min(I) ELSE 0
  <2>1. I \in SUBSET (1 .. n) /\ n \in Nat
    BY FullHeap
  <2>2. Result(h, op, num, p) = IF k = 0 THEN [heap |-> h, block |-> NoBlock]
                                ELSE [heap |-> Freed(h, k), block |-> h.used[k]]
    BY <1>2 DEF Result, SelectInSeq, Freed
  <2> HIDE DEF I
  <2>3. k # 0 => k \in 1 .. n
    BY <2>1, FirstIndex
  <2> HIDE DEF k
  <2>4. k # 0 => Good(Freed(h, k)) /\ Strict(Freed(h, k))
    BY <2>3, FreedGood DEF Full
  <2> QED BY <2>2, <2>4 DEF Full
<1> QED BY <1>1, <1>2

LEMMA ReturnKeeps ==
    ASSUME NEW m, NEW calls, NEW h, NEW d, CalmWith(m, calls, h, d),
           NEW t \in Tasks, calls[t].pc = "return", NEW v, NEW r,
           r = Result(h, calls[t].op, calls[t].num, d[calls[t].c].ptr)
    PROVE  CalmWith(m, [calls EXCEPT ![t] = Idle],
                    IF calls[t].wrote THEN r.heap ELSE h, [d EXCEPT ![calls[t].c] = v])
<1> DEFINE l == calls[t]
           calls2 == [calls EXCEPT ![t] = Idle]
           h2 == IF l.wrote THEN r.heap ELSE h
           d2 == [d EXCEPT ![l.c] = v]
<1>1. /\ Stored(m) /\ Full(h) /\ DOMAIN calls = Tasks /\ DOMAIN d = Owners
      /\ \A u \in Tasks : CallOk(calls[u])
      /\ \A x, u \in Tasks : x # u /\ calls[x].pc # "idle" /\ calls[u].pc # "idle"
                   => calls[x].c # calls[u].c
      /\ \A x, u \in Tasks : x # u /\ calls[x].wrote => ~calls[u].wrote /\ Aside(calls[u])
      /\ \A u \in Tasks : calls[u].wrote => ~calls[u].stale
      /\ (\A u \in Tasks : ~calls[u].wrote) => Forms(m, h, {})
      /\ \A u \in Tasks : calls[u].pc # "idle" /\ ~calls[u].stale
                            => State(m, calls[u], h, d[calls[u].c].ptr)
  BY DEF CalmWith
<1>2. DOMAIN calls2 = Tasks /\ calls2[t] = Idle /\ \A u \in Tasks \ {t} : calls2[u] = calls[u]
  BY <1>1
<1>3. DOMAIN d2 = Owners /\ \A c \in Owners \ {l.c} : d2[c] = d[c]
  BY <1>1
<1>4. l.pc # "idle" /\ (l.op = "alloc" => l.num \in Rounds)
  BY <1>1 DEF CallOk
<1>5. Full(r.heap)
  BY <1>1, <1>4, ResultFull
<1>6. Full(h2)
  BY <1>1, <1>5
<1>7. l.wrote => Forms(m, r.heap, {})
  <2> SUFFICES ASSUME l.wrote
               PROVE  Forms(m, r.heap, {})
    OBVIOUS
  <2>1. State(m, l, h, d[l.c].ptr)
    BY <1>1, <1>4
  <2>2. l.pc = "return" /\ r = Result(h, l.op, l.num, d[l.c].ptr)
    OBVIOUS
  <2> HIDE DEF l
  <2> QED BY <2>1, <2>2 DEF State, ReturnState, Returns
<1> HIDE DEF calls2, h2, d2
<1>8. \A u \in Tasks : CallOk(calls2[u])
  BY <1>1, <1>2, IdleCall
<1>9. \A x, u \in Tasks : x # u /\ calls2[x].pc # "idle" /\ calls2[u].pc # "idle"
                => calls2[x].c # calls2[u].c
  BY <1>1, <1>2, IdleCall
<1>10. \A x, u \in Tasks : x # u /\ calls2[x].wrote => ~calls2[u].wrote /\ Aside(calls2[u])
  BY <1>1, <1>2, IdleCall DEF Aside
<1>11. \A u \in Tasks : calls2[u].wrote => ~calls2[u].stale
  BY <1>1, <1>2, IdleCall
<1>12. ASSUME \A u \in Tasks : ~calls2[u].wrote
       PROVE  Forms(m, h2, {})
  <2>1. CASE l.wrote
    BY <1>7, <2>1 DEF h2
  <2>2. CASE ~l.wrote
    <3>1. \A u \in Tasks : ~calls[u].wrote
      BY <1>2, <1>12, <2>2
    <3> QED BY <1>1, <2>2, <3>1 DEF h2
  <2> QED BY <2>1, <2>2
<1>13. ASSUME NEW u \in Tasks, calls2[u].pc # "idle", ~calls2[u].stale
       PROVE  State(m, calls2[u], h2, d2[calls2[u].c].ptr)
  <2>1. u # t /\ calls2[u] = calls[u]
    BY <1>2, <1>13, IdleCall
  <2>2. calls[u].c \in Owners /\ calls[u].c # l.c
    BY <1>1, <1>4, <1>13, <2>1 DEF CallOk
  <2>3. d2[calls[u].c] = d[calls[u].c]
    BY <1>3, <2>2
  <2>4. ~l.wrote
    BY <1>1, <1>13, <2>1 DEF Aside
  <2>5. h2 = h
    BY <2>4 DEF h2
  <2>6. State(m, calls[u], h, d[calls[u].c].ptr)
    BY <1>1, <1>13, <2>1
  <2> QED BY <2>1, <2>3, <2>5, <2>6
<1>14. CalmWith(m, calls2, h2, d2)
  BY <1>1, <1>2, <1>3, <1>6, <1>8, <1>9, <1>10, <1>11, <1>12, <1>13 DEF CalmWith
<1> QED BY <1>14 DEF calls2, h2, d2

-----------------------------------------------------------------------------
(* The steps of the specification.                                         *)

(* The inductive invariant: as long as nothing was written after another   *)
(* call disturbed the writer, the calls are calm.                          *)
ListIInv == clean \in BOOLEAN /\ (clean => CalmWith(mem, call, heap, held))

(* What is known before a statement of the call that t makes.              *)
Running(t) == clean /\ CalmWith(mem, call, heap, held) /\ call[t].pc # "idle"
Given(t) == held[call[t].c].ptr

LEMMA CalmRead ==
    ASSUME NEW t \in Tasks, Running(t),
           NEW k, ReadGood(mem, call[t], heap, Given(t), k), Read(t, k)
    PROVE  ListIInv'
<1>1. CalmWith(mem, [call EXCEPT ![t] = k], heap, held)
  BY ReadKeeps DEF Running, Given
<1>2. call' = [call EXCEPT ![t] = k] /\ mem' = mem /\ clean' /\ heap' = heap /\ held' = held
  BY DEF Read, Running
<1> QED BY <1>1, <1>2 DEF ListIInv

LEMMA CalmWrite ==
    ASSUME NEW t \in Tasks, Running(t),
           NEW w, NEW x, WriteGood(mem, call[t], heap, Given(t), w, x), Write(t, w, x)
    PROVE  ListIInv'
<1>1. /\ mem' = w /\ clean' = ~call[t].stale /\ heap' = heap /\ held' = held
      /\ call' = [u \in Tasks |-> IF u = t THEN [x EXCEPT !.wrote = TRUE]
                                  ELSE [call[u] EXCEPT !.stale = call[u] # Idle]]
  BY DEF Write
<1>2. CASE call[t].stale
  BY <1>1, <1>2 DEF ListIInv
<1>3. CASE ~call[t].stale
  <2>1. CalmWith(w, [u \in Tasks |-> IF u = t THEN [x EXCEPT !.wrote = TRUE]
                                     ELSE [call[u] EXCEPT !.stale = call[u] # Idle]], heap, held)
    BY <1>3, WriteKeeps DEF Running, Given
  <2> QED BY <1>1, <2>1 DEF ListIInv
<1> QED BY <1>2, <1>3

LEMMA RunningCall ==
    ASSUME NEW t \in Tasks, Running(t)
    PROVE  Calling(mem, call[t], heap)
BY CalmCall DEF Running

LEMMA ScanCalm ==
    ASSUME NEW t \in Tasks, Running(t), Scan(t)
    PROVE  ListIInv'
<1> DEFINE l == call[t]
           k == IF l.ptr = 0 THEN [l EXCEPT !.pc = "new"]
                ELSE IF TopBlock(l) THEN [l EXCEPT !.pc = "unlink_top"]
                ELSE IF mem.size[l.ptr] >= l.num THEN [l EXCEPT !.pc = "unlink"]
                ELSE [l EXCEPT !.prev = l.ptr, !.ptr = mem.next[l.ptr]]
<1>1. l.pc = "scan" /\ Read(t, k)
  BY DEF Scan, At
<1>2. ReadGood(mem, l, heap, Given(t), k)
  BY <1>1, RunningCall, ScanGood DEF TopBlock
<1> QED BY <1>1, <1>2, CalmRead

LEMMA UnlinkCalm ==
    ASSUME NEW t \in Tasks, Running(t), UnlinkFree(t, "unlink", "push")
    PROVE  ListIInv'
<1> DEFINE l == call[t]
           w == Link(mem, "free", l.prev, mem.next[l.ptr])
           x == [l EXCEPT !.pc = "push"]
<1>1. l.pc = "unlink" /\ Write(t, w, x)
  BY DEF UnlinkFree, At
<1>2. WriteGood(mem, l, heap, Given(t), w, x)
  BY <1>1, RunningCall, UnlinkGood
<1> QED BY <1>1, <1>2, CalmWrite

LEMMA UnlinkTopCalm ==
    ASSUME NEW t \in Tasks, Running(t), UnlinkFree(t, "unlink_top", "push_top")
    PROVE  ListIInv'
<1> DEFINE l == call[t]
           w == Link(mem, "free", l.prev, mem.next[l.ptr])
           x == [l EXCEPT !.pc = "push_top"]
<1>1. l.pc = "unlink_top" /\ Write(t, w, x)
  BY DEF UnlinkFree, At
<1>2. WriteGood(mem, l, heap, Given(t), w, x)
  BY <1>1, RunningCall, UnlinkTopGood
<1> QED BY <1>1, <1>2, CalmWrite

LEMMA PushCalm ==
    ASSUME NEW t \in Tasks, Running(t), PushUsed(t, "push", "used")
    PROVE  ListIInv'
<1> DEFINE l == call[t]
           w == [mem EXCEPT !.next[l.ptr] = mem.used]
           x == [l EXCEPT !.pc = "used"]
<1>1. l.pc = "push" /\ Write(t, w, x)
  BY DEF PushUsed, At
<1>2. WriteGood(mem, l, heap, Given(t), w, x)
  BY <1>1, RunningCall, PushGood
<1> QED BY <1>1, <1>2, CalmWrite

LEMMA PushTopCalm ==
    ASSUME NEW t \in Tasks, Running(t), PushUsed(t, "push_top", "used_top")
    PROVE  ListIInv'
<1> DEFINE l == call[t]
           w == [mem EXCEPT !.next[l.ptr] = mem.used]
           x == [l EXCEPT !.pc = "used_top"]
<1>1. l.pc = "push_top" /\ Write(t, w, x)
  BY DEF PushUsed, At
<1>2. WriteGood(mem, l, heap, Given(t), w, x)
  BY <1>1, RunningCall, PushTopGood
<1> QED BY <1>1, <1>2, CalmWrite

LEMMA UsedCalm ==
    ASSUME NEW t \in Tasks, Running(t), SetUsed(t, "used", "split")
    PROVE  ListIInv'
<1> DEFINE l == call[t]
           w == [mem EXCEPT !.used = l.ptr]
           x == [l EXCEPT !.pc = "split"]
<1>1. l.pc = "used" /\ Write(t, w, x)
  BY DEF SetUsed, At
<1>2. WriteGood(mem, l, heap, Given(t), w, x)
  BY <1>1, RunningCall, UsedGood
<1> QED BY <1>1, <1>2, CalmWrite

LEMMA UsedTopCalm ==
    ASSUME NEW t \in Tasks, Running(t), SetUsed(t, "used_top", "resize")
    PROVE  ListIInv'
<1> DEFINE l == call[t]
           w == [mem EXCEPT !.used = l.ptr]
           x == [l EXCEPT !.pc = "resize"]
<1>1. l.pc = "used_top" /\ Write(t, w, x)
  BY DEF SetUsed, At
<1>2. WriteGood(mem, l, heap, Given(t), w, x)
  BY <1>1, RunningCall, UsedTopGood
<1> QED BY <1>1, <1>2, CalmWrite

LEMMA ResizeCalm ==
    ASSUME NEW t \in Tasks, Running(t), ResizeTop(t)
    PROVE  ListIInv'
<1> DEFINE l == call[t]
           w1 == [mem EXCEPT !.size[l.ptr] = l.num]
           x1 == [l EXCEPT !.pc = "set_top"]
           w2 == [mem EXCEPT !.top = Wrap(mem.addr[l.ptr] + l.num)]
           x2 == [l EXCEPT !.pc = "return"]
<1>1. \/ l.pc = "resize" /\ Write(t, w1, x1)
      \/ l.pc = "set_top" /\ Write(t, w2, x2)
  BY DEF ResizeTop, At
<1>2. CASE l.pc = "resize" /\ Write(t, w1, x1)
  <2>1. WriteGood(mem, l, heap, Given(t), w1, x1)
    BY <1>2, RunningCall, ResizeGood
  <2> QED BY <1>2, <2>1, CalmWrite
<1>3. CASE l.pc = "set_top" /\ Write(t, w2, x2)
  <2>1. WriteGood(mem, l, heap, Given(t), w2, x2)
    BY <1>3, RunningCall, SetTopGood
  <2> QED BY <1>3, <2>1, CalmWrite
<1> QED BY <1>1, <1>2, <1>3

LEMMA SplitCalm ==
    ASSUME NEW t \in Tasks, Running(t), SplitBlock(t)
    PROVE  ListIInv'
<1> DEFINE l == call[t]
           enough == mem.fresh # 0 /\ mem.size[l.ptr] - l.num >= SplitThresh
           w1 == [mem EXCEPT !.size[l.ptr] = l.num]
           x1 == [l EXCEPT !.pc = "take", !.top = mem.size[l.ptr] - l.num,
                           !.block = mem.fresh]
           x2 == [l EXCEPT !.pc = "return"]
           w3 == [mem EXCEPT !.fresh = mem.next[l.block]]
           x3 == [l EXCEPT !.pc = "rest"]
           w4 == [mem EXCEPT !.addr[l.block] = mem.addr[l.ptr] + l.num,
                             !.size[l.block] = l.top]
           x4 == [l EXCEPT !.pc = "insert"]
<1>1. \/ l.pc = "split" /\ enough /\ Write(t, w1, x1)
      \/ l.pc = "split" /\ ~enough /\ Read(t, x2)
      \/ l.pc = "take" /\ Write(t, w3, x3)
      \/ l.pc = "rest" /\ Write(t, w4, x4)
  BY DEF SplitBlock, At
<1>2. CASE l.pc = "split" /\ enough /\ Write(t, w1, x1)
  <2>1. WriteGood(mem, l, heap, Given(t), w1, x1)
    BY <1>2, RunningCall, SplitsGood
  <2> QED BY <1>2, <2>1, CalmWrite
<1>3. CASE l.pc = "split" /\ ~enough /\ Read(t, x2)
  <2>1. ReadGood(mem, l, heap, Given(t), x2)
    BY <1>3, RunningCall, NoSplitGood
  <2> QED BY <1>3, <2>1, CalmRead
<1>4. CASE l.pc = "take" /\ Write(t, w3, x3)
  <2>1. WriteGood(mem, l, heap, Given(t), w3, x3)
    BY <1>4, RunningCall, TakeGood
  <2> QED BY <1>4, <2>1, CalmWrite
<1>5. CASE l.pc = "rest" /\ Write(t, w4, x4)
  <2>1. WriteGood(mem, l, heap, Given(t), w4, x4)
    BY <1>5, RunningCall, RestGood
  <2> QED BY <1>5, <2>1, CalmWrite
<1> QED BY <1>1, <1>2, <1>3, <1>4, <1>5

LEMMA NewCalm ==
    ASSUME NEW t \in Tasks, Running(t), NewBlock(t)
    PROVE  ListIInv'
<1> DEFINE l == call[t]
           room == mem.fresh # 0 /\ Wrap(l.top + l.num) <= Limit
           x1 == [l EXCEPT !.pc = "fresh", !.ptr = mem.fresh]
           x2 == [l EXCEPT !.pc = "return", !.ptr = 0]
           w3 == [mem EXCEPT !.fresh = mem.next[l.ptr]]
           x3 == [l EXCEPT !.pc = "addr"]
           w4 == [mem EXCEPT !.addr[l.ptr] = l.top, !.size[l.ptr] = l.num,
                             !.next[l.ptr] = mem.used]
           x4 == [l EXCEPT !.pc = "set_used"]
           w5 == [mem EXCEPT !.used = l.ptr]
           x5 == [l EXCEPT !.pc = "new_top"]
           w6 == [mem EXCEPT !.top = Wrap(l.top + l.num)]
           x6 == [l EXCEPT !.pc = "return"]
<1>1. \/ l.pc = "new" /\ room /\ Read(t, x1)
      \/ l.pc = "new" /\ ~room /\ Read(t, x2)
      \/ l.pc = "fresh" /\ Write(t, w3, x3)
      \/ l.pc = "addr" /\ Write(t, w4, x4)
      \/ l.pc = "set_used" /\ Write(t, w5, x5)
      \/ l.pc = "new_top" /\ Write(t, w6, x6)
  BY DEF NewBlock, SetUsed, At
<1>2. CASE l.pc = "new" /\ room /\ Read(t, x1)
  <2>1. ReadGood(mem, l, heap, Given(t), x1)
    BY <1>2, RunningCall, NewGood
  <2> QED BY <1>2, <2>1, CalmRead
<1>3. CASE l.pc = "new" /\ ~room /\ Read(t, x2)
  <2>1. ReadGood(mem, l, heap, Given(t), x2)
    BY <1>3, RunningCall, FullGood
  <2> QED BY <1>3, <2>1, CalmRead
<1>4. CASE l.pc = "fresh" /\ Write(t, w3, x3)
  <2>1. WriteGood(mem, l, heap, Given(t), w3, x3)
    BY <1>4, RunningCall, FreshGood
  <2> QED BY <1>4, <2>1, CalmWrite
<1>5. CASE l.pc = "addr" /\ Write(t, w4, x4)
  <2>1. WriteGood(mem, l, heap, Given(t), w4, x4)
    BY <1>5, RunningCall, AddrGood
  <2> QED BY <1>5, <2>1, CalmWrite
<1>6. CASE l.pc = "set_used" /\ Write(t, w5, x5)
  <2>1. WriteGood(mem, l, heap, Given(t), w5, x5)
    BY <1>6, RunningCall, NewUsedGood
  <2> QED BY <1>6, <2>1, CalmWrite
<1>7. CASE l.pc = "new_top" /\ Write(t, w6, x6)
  <2>1. WriteGood(mem, l, heap, Given(t), w6, x6)
    BY <1>7, RunningCall, NewTopGood
  <2> QED BY <1>7, <2>1, CalmWrite
<1> QED BY <1>1, <1>2, <1>3, <1>4, <1>5, <1>6, <1>7

LEMMA FindCalm ==
    ASSUME NEW t \in Tasks, Running(t), Find(t)
    PROVE  ListIInv'
<1> DEFINE l == call[t]
           x1 == [l EXCEPT !.pc = "return"]
           x2 == [l EXCEPT !.prev = l.ptr, !.ptr = mem.next[l.ptr]]
           w3 == Link(mem, "used", l.prev, mem.next[l.ptr])
           x3 == [l EXCEPT !.pc = "insert", !.block = l.ptr]
<1>1. \/ l.pc = "find" /\ l.ptr = 0 /\ Read(t, x1)
      \/ l.pc = "find" /\ l.ptr # 0 /\ mem.addr[l.ptr] # Given(t) /\ Read(t, x2)
      \/ l.pc = "find" /\ l.ptr # 0 /\ mem.addr[l.ptr] = Given(t) /\ Write(t, w3, x3)
  BY DEF Find, At, Given
<1>2. CASE l.pc = "find" /\ l.ptr = 0 /\ Read(t, x1)
  <2>1. ReadGood(mem, l, heap, Given(t), x1)
    BY <1>2, RunningCall, NotFoundGood
  <2> QED BY <1>2, <2>1, CalmRead
<1>3. CASE l.pc = "find" /\ l.ptr # 0 /\ mem.addr[l.ptr] # Given(t) /\ Read(t, x2)
  <2>1. ReadGood(mem, l, heap, Given(t), x2)
    BY <1>3, RunningCall, FindGood
  <2> QED BY <1>3, <2>1, CalmRead
<1>4. CASE l.pc = "find" /\ l.ptr # 0 /\ mem.addr[l.ptr] = Given(t) /\ Write(t, w3, x3)
  <2>1. WriteGood(mem, l, heap, Given(t), w3, x3)
    BY <1>4, RunningCall, FoundGood
  <2> QED BY <1>4, <2>1, CalmWrite
<1> QED BY <1>1, <1>2, <1>3, <1>4

LEMMA InsertCalm ==
    ASSUME NEW t \in Tasks, Running(t), InsertStart(t)
    PROVE  ListIInv'
<1> DEFINE l == call[t]
           x == [l EXCEPT !.pc = "place", !.next = l.ptr, !.ptr = mem.free, !.prev = 0]
<1>1. l.pc = "insert" /\ Read(t, x)
  BY DEF InsertStart, At
<1>2. ReadGood(mem, l, heap, Given(t), x)
  BY <1>1, RunningCall, InsertGood
<1> QED BY <1>1, <1>2, CalmRead

LEMMA PlaceCalm ==
    ASSUME NEW t \in Tasks, Running(t), Place(t)
    PROVE  ListIInv'
<1> DEFINE l == call[t]
           before == l.ptr # 0 /\ mem.addr[l.block] > mem.addr[l.ptr]
           x1 == [l EXCEPT !.prev = l.ptr, !.ptr = mem.next[l.ptr]]
           w2 == Link(mem, "free", l.prev, l.block)
           x2 == [l EXCEPT !.pc = "link"]
<1>1. \/ l.pc = "place" /\ before /\ Read(t, x1)
      \/ l.pc = "place" /\ ~before /\ Write(t, w2, x2)
  BY DEF Place, At
<1>2. CASE l.pc = "place" /\ before /\ Read(t, x1)
  <2>1. ReadGood(mem, l, heap, Given(t), x1)
    BY <1>2, RunningCall, PlaceGood
  <2> QED BY <1>2, <2>1, CalmRead
<1>3. CASE l.pc = "place" /\ ~before /\ Write(t, w2, x2)
  <2>1. WriteGood(mem, l, heap, Given(t), w2, x2)
    BY <1>3, RunningCall, PlacedGood
  <2> QED BY <1>3, <2>1, CalmWrite
<1> QED BY <1>1, <1>2, <1>3

LEMMA LinkCalm ==
    ASSUME NEW t \in Tasks, Running(t), LinkBlock(t)
    PROVE  ListIInv'
<1> DEFINE l == call[t]
           w == [mem EXCEPT !.next[l.block] = l.ptr]
           x == [l EXCEPT !.pc = "compact", !.ptr = mem.free]
<1>1. l.pc = "link" /\ Write(t, w, x)
  BY DEF LinkBlock, At
<1>2. WriteGood(mem, l, heap, Given(t), w, x)
  BY <1>1, RunningCall, LinkGood
<1> QED BY <1>1, <1>2, CalmWrite

LEMMA RunStartCalm ==
    ASSUME NEW t \in Tasks, Running(t), RunStart(t)
    PROVE  ListIInv'
<1> DEFINE l == call[t]
           x1 == [l EXCEPT !.pc = "return", !.ptr = l.next]
           x2 == [l EXCEPT !.pc = "run", !.prev = l.ptr, !.scan = mem.next[l.ptr]]
<1>1. \/ l.pc = "compact" /\ l.ptr = 0 /\ Read(t, x1)
      \/ l.pc = "compact" /\ l.ptr # 0 /\ Read(t, x2)
  BY DEF RunStart, At
<1>2. CASE l.pc = "compact" /\ l.ptr = 0 /\ Read(t, x1)
  <2>1. ReadGood(mem, l, heap, Given(t), x1)
    BY <1>2, RunningCall, CompactedGood
  <2> QED BY <1>2, <2>1, CalmRead
<1>3. CASE l.pc = "compact" /\ l.ptr # 0 /\ Read(t, x2)
  <2>1. ReadGood(mem, l, heap, Given(t), x2)
    BY <1>3, RunningCall, RunStartGood
  <2> QED BY <1>3, <2>1, CalmRead
<1> QED BY <1>1, <1>2, <1>3

LEMMA FollowCalm ==
    ASSUME NEW t \in Tasks, Running(t), FollowRun(t)
    PROVE  ListIInv'
<1> DEFINE l == call[t]
           adjacent == l.scan # 0 /\ Wrap(mem.addr[l.prev] + mem.size[l.prev]) = mem.addr[l.scan]
           x1 == [l EXCEPT !.prev = l.scan, !.scan = mem.next[l.scan]]
           x2 == [l EXCEPT !.pc = "compact", !.ptr = mem.next[l.ptr]]
           w3 == [mem EXCEPT !.size[l.ptr] =
                             mem.addr[l.prev] - mem.addr[l.ptr] + mem.size[l.prev]]
           x3 == [l EXCEPT !.pc = "release", !.scan = mem.next[l.ptr],
                           !.prev = mem.next[l.prev]]
<1>1. \/ l.pc = "run" /\ adjacent /\ Read(t, x1)
      \/ l.pc = "run" /\ ~adjacent /\ l.prev = l.ptr /\ Read(t, x2)
      \/ l.pc = "run" /\ ~adjacent /\ l.prev # l.ptr /\ Write(t, w3, x3)
  BY DEF FollowRun, At
<1>2. CASE l.pc = "run" /\ adjacent /\ Read(t, x1)
  <2>1. ReadGood(mem, l, heap, Given(t), x1)
    BY <1>2, RunningCall, FollowGood
  <2> QED BY <1>2, <2>1, CalmRead
<1>3. CASE l.pc = "run" /\ ~adjacent /\ l.prev = l.ptr /\ Read(t, x2)
  <2>1. ReadGood(mem, l, heap, Given(t), x2)
    BY <1>3, RunningCall, AloneGood
  <2> QED BY <1>3, <2>1, CalmRead
<1>4. CASE l.pc = "run" /\ ~adjacent /\ l.prev # l.ptr /\ Write(t, w3, x3)
  <2>1. WriteGood(mem, l, heap, Given(t), w3, x3)
    BY <1>4, RunningCall, RunGood
  <2> QED BY <1>4, <2>1, CalmWrite
<1> QED BY <1>1, <1>2, <1>3, <1>4

LEMMA ReleaseCalm ==
    ASSUME NEW t \in Tasks, Running(t), Release(t)
    PROVE  ListIInv'
<1> DEFINE l == call[t]
           w1 == [mem EXCEPT !.next[l.scan] = mem.fresh]
           x1 == [l EXCEPT !.pc = "set_fresh", !.top = mem.next[l.scan]]
           w2 == [mem EXCEPT !.next[l.ptr] = l.prev]
           x2 == [l EXCEPT !.pc = "compact", !.ptr = l.prev]
           w3 == [mem EXCEPT !.fresh = l.scan]
           x3 == [l EXCEPT !.pc = "clear"]
           w4 == [mem EXCEPT !.addr[l.scan] = 0, !.size[l.scan] = 0]
           x4 == [l EXCEPT !.pc = "release", !.scan = l.top]
<1>1. \/ l.pc = "release" /\ l.scan # l.prev /\ Write(t, w1, x1)
      \/ l.pc = "release" /\ l.scan = l.prev /\ Write(t, w2, x2)
      \/ l.pc = "set_fresh" /\ Write(t, w3, x3)
      \/ l.pc = "clear" /\ Write(t, w4, x4)
  BY DEF Release, At
<1>2. CASE l.pc = "release" /\ l.scan # l.prev /\ Write(t, w1, x1)
  <2>1. WriteGood(mem, l, heap, Given(t), w1, x1)
    BY <1>2, RunningCall, ReleaseGood
  <2> QED BY <1>2, <2>1, CalmWrite
<1>3. CASE l.pc = "release" /\ l.scan = l.prev /\ Write(t, w2, x2)
  <2>1. WriteGood(mem, l, heap, Given(t), w2, x2)
    BY <1>3, RunningCall, ReleasedGood
  <2> QED BY <1>3, <2>1, CalmWrite
<1>4. CASE l.pc = "set_fresh" /\ Write(t, w3, x3)
  <2>1. WriteGood(mem, l, heap, Given(t), w3, x3)
    BY <1>4, RunningCall, SetFreshGood
  <2> QED BY <1>4, <2>1, CalmWrite
<1>5. CASE l.pc = "clear" /\ Write(t, w4, x4)
  <2>1. WriteGood(mem, l, heap, Given(t), w4, x4)
    BY <1>5, RunningCall, ClearGood
  <2> QED BY <1>5, <2>1, CalmWrite
<1> QED BY <1>1, <1>2, <1>3, <1>4, <1>5

LEMMA ReturnCalm ==
    ASSUME NEW t \in Tasks, Running(t), Return(t)
    PROVE  ListIInv'
<1> DEFINE l == call[t]
           r == Expected(l)
           v == IF l.op = "alloc" /\ l.ptr # 0
                THEN [ptr |-> mem.addr[l.ptr], len |-> l.num] ELSE Nothing
<1>1. /\ l.pc = "return" /\ mem' = mem /\ clean' = clean /\ call' = [call EXCEPT ![t] = Idle]
      /\ heap' = IF l.wrote THEN r.heap ELSE heap
      /\ held' = [held EXCEPT ![l.c] = v]
  BY DEF Return, At
<1>2. r = Result(heap, l.op, l.num, held[l.c].ptr)
  BY DEF Expected, Result
<1> HIDE DEF r, v
<1>3. CalmWith(mem, call, heap, held) /\ clean
  BY DEF Running
<1>4. CalmWith(mem, [call EXCEPT ![t] = Idle], IF l.wrote THEN r.heap ELSE heap,
               [held EXCEPT ![l.c] = v])
  BY <1>1, <1>2, <1>3, ReturnKeeps
<1> HIDE DEF l
<1> QED BY <1>1, <1>3, <1>4 DEF ListIInv

(* A call begins at the head of a list, having seen none of it.            *)
LEMMA HeadSeen ==
    ASSUME NEW s \in Seq(Blocks)
    PROVE  /\ 1 \in 1 .. Len(s) + 1 /\ Elem(s, 1 - 1) = 0
           /\ \A j \in 1 .. Len(s) : ~(j < 1)
<1>1. Len(s) \in Nat
  OBVIOUS
<1> QED BY <1>1 DEF Elem

LEMMA BeginCalm ==
    ASSUME NEW t \in Tasks, clean, CalmWith(mem, call, heap, held), NEW x, Begin(t, x),
           Shape(x), x.wrote = FALSE, x.pc # "idle", x.c \in Owners,
           x.op = "alloc" => x.num \in Rounds,
           NEW k, k = [x EXCEPT !.stale = \E u \in Tasks : call[u].wrote],
           Forms(mem, heap, {}) => State(mem, k, heap, held[x.c].ptr)
    PROVE  ListIInv'
<1>1. /\ call[t].pc = "idle" /\ \A u \in Tasks : call[u].c # x.c
      /\ call' = [call EXCEPT ![t] = k]
      /\ mem' = mem /\ clean' = clean /\ heap' = heap /\ held' = held
  BY DEF Begin, At, Read
<1> DEFINE e == \E u \in Tasks : call[u].wrote
<1>2. /\ Shape(k) /\ k.wrote = x.wrote /\ k.stale = e /\ k.pc = x.pc
      /\ k.c = x.c /\ k.op = x.op /\ k.num = x.num
  <2> HIDE DEF e
  <2>1. k = [x EXCEPT !.stale = e]
    BY DEF e
  <2> QED BY <2>1 DEF Shape, Locals
<1>3. /\ k.pc # "idle" /\ k.c \in Owners /\ k.wrote = FALSE
      /\ k.op = "alloc" => k.num \in Rounds
      /\ \A u \in Tasks : call[u].c # k.c
      /\ Forms(mem, heap, {}) => State(mem, k, heap, held[k.c].ptr)
  BY <1>1, <1>2
<1>4. k.stale = \E u \in Tasks : call[u].wrote
  BY <1>2
<1> HIDE DEF e
<1>5. CalmWith(mem, [call EXCEPT ![t] = k], heap, held)
  BY <1>1, <1>2, <1>3, <1>4, BeginKeeps
<1> QED BY <1>1, <1>5 DEF ListIInv

LEMMA AllocCalm ==
    ASSUME NEW t \in Tasks, clean, CalmWith(mem, call, heap, held),
           NEW c \in Owners, NEW num \in Sizes, TaAllocCall(t, c, num)
    PROVE  ListIInv'
<1> DEFINE x == [Idle EXCEPT !.pc = "scan", !.op = "alloc", !.c = c, !.num = RoundUp(num),
                             !.ptr = mem.free, !.top = mem.top]
           k == [x EXCEPT !.stale = \E u \in Tasks : call[u].wrote]
           p == held[x.c].ptr
<1>1. Begin(t, x)
  BY DEF TaAllocCall
<1>2. RoundUp(num) \in Rounds
  BY DEF Rounds
<1>3. /\ Shape(x) /\ x.wrote = FALSE /\ x.pc = "scan" /\ x.c = c /\ x.op = "alloc"
      /\ x.num = RoundUp(num)
  BY DEF Shape, Locals, Idle
<1>4. /\ k.pc = "scan" /\ k.op = "alloc" /\ k.ptr = mem.free /\ k.prev = 0 /\ k.top = mem.top
  BY DEF Idle
<1> HIDE DEF k, p
<1>5. ASSUME Forms(mem, heap, {})
      PROVE  State(mem, k, heap, p)
  <2>1. Full(heap)
    BY DEF CalmWith
  <2>2. heap.free \in Seq(Blocks)
    BY <2>1, FullHeap
  <2>3. mem.free = Elem(heap.free, 1) /\ mem.top = heap.top
    BY <1>5 DEF Forms, Chained, Linked
  <2>4. ScanAt(mem, heap, k.num, k.ptr, k.prev, k.top)
    BY <1>4, <1>5, <2>2, <2>3, HeadSeen DEF ScanAt, Unfit
  <2> QED BY <1>4, <2>4 DEF State, AllocState, InsertState, AllocPcs, LatePcs
<1> HIDE DEF x
<1> QED BY <1>1, <1>2, <1>3, <1>5, BeginCalm DEF k, p

LEMMA FreeCalm ==
    ASSUME NEW t \in Tasks, clean, CalmWith(mem, call, heap, held),
           NEW c \in Owners, TaFreeCall(t, c)
    PROVE  ListIInv'
<1> DEFINE x == [Idle EXCEPT !.pc = "find", !.op = "free", !.c = c, !.ptr = mem.used]
           k == [x EXCEPT !.stale = \E u \in Tasks : call[u].wrote]
           p == held[x.c].ptr
<1>1. Begin(t, x)
  BY DEF TaFreeCall
<1>3. /\ Shape(x) /\ x.wrote = FALSE /\ x.pc = "find" /\ x.c = c /\ x.op = "free"
  BY DEF Shape, Locals, Idle
<1>4. /\ k.pc = "find" /\ k.op = "free" /\ k.ptr = mem.used /\ k.prev = 0
  BY DEF Idle
<1> HIDE DEF k, p
<1>5. ASSUME Forms(mem, heap, {})
      PROVE  State(mem, k, heap, p)
  <2>1. Full(heap)
    BY DEF CalmWith
  <2>2. heap.used \in Seq(Blocks)
    BY <2>1, FullHeap
  <2>3. mem.used = Elem(heap.used, 1)
    BY <1>5 DEF Forms, Chained, Linked
  <2>4. FindAt(mem, heap, p, k.ptr, k.prev)
    BY <1>4, <1>5, <2>2, <2>3, HeadSeen DEF FindAt
  <2> QED BY <1>4, <2>4 DEF State, AllocState, InsertState, AllocPcs, LatePcs
<1> HIDE DEF x
<1> QED BY <1>1, <1>3, <1>5, BeginCalm DEF k, p

LEMMA StepListIInv == ListIInv /\ [ListNext]_listVars => ListIInv'
<1> SUFFICES ASSUME ListIInv, [ListNext]_listVars
             PROVE  ListIInv'
  OBVIOUS
<1>1. CASE UNCHANGED listVars
  BY <1>1 DEF ListIInv, listVars
<1>2. ASSUME NEW t \in Tasks, NEW c \in Owners, TaFreeCall(t, c)
      PROVE  ListIInv'
  BY <1>2, FreeCalm DEF ListIInv, TaFreeCall, Begin, At
<1>3. ASSUME NEW t \in Tasks, NEW c \in Owners, NEW num \in Sizes, TaAllocCall(t, c, num)
      PROVE  ListIInv'
  BY <1>3, AllocCalm DEF ListIInv, TaAllocCall, Begin, At
<1>4. ASSUME NEW t \in Tasks, CallStep(t)
      PROVE  ListIInv'
  <2>1. Running(t)
    <3>1. clean /\ call[t].pc # "idle"
      BY <1>4 DEF CallStep, At, Scan, UnlinkFree, PushUsed, SetUsed, ResizeTop, SplitBlock,
                  NewBlock, Find, InsertStart, Place, LinkBlock, RunStart, FollowRun,
                  Release, Return
    <3> QED BY <3>1 DEF Running, ListIInv
  <2> QED BY <1>4, <2>1, ScanCalm, UnlinkCalm, UnlinkTopCalm, PushCalm, PushTopCalm, UsedCalm,
             UsedTopCalm, ResizeCalm, SplitCalm, NewCalm, FindCalm, InsertCalm, PlaceCalm,
             LinkCalm, RunStartCalm, FollowCalm, ReleaseCalm, ReturnCalm
          DEF CallStep
<1> QED BY <1>1, <1>2, <1>3, <1>4 DEF ListNext

LEMMA InitListIInv == ListInit => ListIInv
<1> SUFFICES ASSUME ListInit PROVE ListIInv
  OBVIOUS
<1> DEFINE all == [b \in Blocks |-> b]
           none == [b \in Blocks |-> 0]
           links == [b \in Blocks |-> IF b = NBlocks THEN 0 ELSE b + 1]
<1>1. /\ mem = [free |-> 0, used |-> 0, fresh |-> 1, top |-> Base, next |-> links,
                addr |-> none, size |-> none]
      /\ call = [t \in Tasks |-> Idle] /\ clean = TRUE
  BY DEF ListInit
<1>2. /\ heap.free = <<>> /\ heap.used = <<>> /\ heap.fresh = all
      /\ heap.addr = none /\ heap.size = none /\ heap.top = Base
      /\ held = [c \in Owners |-> Nothing]
  BY DEF ListInit, Init
<1>3. Full(heap)
  <2>1. IInv
    BY InitIInv DEF ListInit
  <2> QED BY <2>1 DEF IInv, Full
<1>4. Stored(mem)
  <2>1. links \in Links
    BY ArenaAssumption DEF Links, Blocks
  <2> QED BY <1>1, <2>1 DEF Stored
<1>5. Chained(mem, heap, {})
  <2>1. Linked(mem.next, 0, <<>>, {})
    BY DEF Linked, Elem
  <2>2. Linked(links, 1, all, {})
    <3>1. NBlocks \in Nat \ {0} /\ Len(all) = NBlocks /\ \A i \in 1 .. NBlocks : all[i] = i
      BY ArenaAssumption DEF Blocks
    <3>2. \A i \in 1 .. NBlocks : links[i] = IF i = NBlocks THEN 0 ELSE i + 1
      BY DEF Blocks
    <3> HIDE DEF all, links
    <3> QED BY <3>1, <3>2 DEF Linked, Elem
  <2> HIDE DEF all, links
  <2> QED BY <1>1, <1>2, <2>1, <2>2 DEF Chained
<1>6. Forms(mem, heap, {})
  BY <1>1, <1>2, <1>5 DEF Forms
<1>7. \A t \in Tasks : call[t] = Idle
  BY <1>1
<1> HIDE DEF all, none, links
<1>8. DOMAIN call = Tasks /\ DOMAIN held = Owners
  BY <1>1, <1>2
<1>9. CalmWith(mem, call, heap, held)
  BY <1>3, <1>4, <1>6, <1>7, <1>8, IdleCall DEF CalmWith
<1> QED BY <1>1, <1>9 DEF ListIInv

(* Calm calls leave the lists Heap computes, and return what it returns.   *)
LEMMA CalmLists == ListIInv => OnlyDisturbedWritesBreak
<1> SUFFICES ASSUME ListIInv, clean
             PROVE  /\ (\A t \in Tasks : ~call[t].wrote) => Lists = heap
                    /\ \A t \in Tasks : call[t].pc = "return" /\ ~call[t].stale
                                          => call[t].ptr = Expected(call[t]).block
  BY DEF OnlyDisturbedWritesBreak
<1>1. CalmWith(mem, call, heap, held)
  BY DEF ListIInv
<1>2. ASSUME \A t \in Tasks : ~call[t].wrote
      PROVE  Lists = heap
  <2>1. Forms(mem, heap, {}) /\ Full(heap)
    BY <1>1, <1>2 DEF CalmWith
  <2> QED BY <2>1, ListsAre DEF Full, Good
<1>3. ASSUME NEW t \in Tasks, call[t].pc = "return", ~call[t].stale
      PROVE  call[t].ptr = Expected(call[t]).block
  <2>1. State(mem, call[t], heap, held[call[t].c].ptr)
    BY <1>1, <1>3 DEF CalmWith
  <2>2. call[t].ptr = Result(heap, call[t].op, call[t].num, held[call[t].c].ptr).block
    BY <1>3, <2>1 DEF State, ReturnState, Returns
  <2> QED BY <2>2 DEF Result, Expected
<1> QED BY <1>2, <1>3

(* Task switches inside alloc_block and ta_free do no harm, however many   *)
(* tasks and however long the lists, until a call writes that another has  *)
(* disturbed: the pointers form the lists that Heap's operators compute    *)
(* whenever no call is among its writes, and an undisturbed call returns   *)
(* the block they say.                                                     *)
THEOREM SwitchesDoNoHarm == ListSpec => []OnlyDisturbedWritesBreak
<1>1. ListSpec => []ListIInv
  BY InitListIInv, StepListIInv, PTL DEF ListSpec
<1> QED BY <1>1, CalmLists, PTL
=============================================================================
