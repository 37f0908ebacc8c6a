------------------------------- MODULE Lemmas -------------------------------
(***************************************************************************)
(* Lemmas about numbers and sequences that the proofs of several components*)
(* need.                                                                   *)
(***************************************************************************)
EXTENDS Integers, SequencesExt, SequenceTheorems, FiniteSetTheorems,
        WellFoundedInduction, TLAPS

(* Induction over the natural numbers, by the least number outside a set.  *)
LEMMA Least ==
    ASSUME NEW T \in SUBSET Nat, T # {}
    PROVE  \E x \in T : \A y \in T : x <= y
<1> DEFINE R == {ss \in Nat \X Nat : ss[1] < ss[2]}
<1>1. IsWellFoundedOn(R, Nat)
  BY NatLessThanWellFounded, Zenon DEF OpToRel
<1>2. PICK x \in T : \A y \in T : ~ (<<y, x>> \in R)
  <2> HIDE DEF R
  <2> QED BY <1>1, WFMin
<1>3. \A y \in T : ~(y < x)
  BY <1>2 DEF R
<1> QED BY <1>3

LEMMA Induction ==
    ASSUME NEW S, 0 \in S, \A n \in Nat : n \in S => n + 1 \in S
    PROVE  \A n \in Nat : n \in S
<1> DEFINE T == {n \in Nat : n \notin S}
<1> SUFFICES ASSUME T # {} PROVE FALSE
  OBVIOUS
<1>1. PICK x \in T : \A y \in T : x <= y
  BY Least
<1>2. x # 0 /\ x - 1 \in Nat
  OBVIOUS
<1>3. x - 1 \in S
  BY <1>1, <1>2
<1> QED BY <1>2, <1>3

(* Definition by recursion: the function there is exactly one of exists.   *)
Defines(V, v, n, step) == v \in V /\ n \in Nat /\ step \in [V \X (1 .. n) -> V]
Defined(V, v, n, step) ==
    \E g \in [0 .. n -> V] : g[0] = v /\ \A i \in 1 .. n : g[i] = step[<<g[i - 1], i>>]

LEMMA Recursion ==
    ASSUME NEW V, NEW v, NEW n, NEW step, Defines(V, v, n, step)
    PROVE  Defined(V, v, n, step)
<1> DEFINE Upward(g, m) == g[0] = v /\ \A i \in 1 .. m : g[i] = step[<<g[i - 1], i>>]
           S == {m \in Nat : m <= n => \E g \in [0 .. m -> V] : Upward(g, m)}
<1> USE DEF Defines
<1>1. 0 \in S
  <2> DEFINE g == [i \in 0 .. 0 |-> v]
  <2>1. g \in [0 .. 0 -> V] /\ Upward(g, 0)
    OBVIOUS
  <2> QED BY <2>1
<1>2. ASSUME NEW m \in Nat, m \in S PROVE m + 1 \in S
  <2> SUFFICES ASSUME m + 1 <= n PROVE \E f \in [0 .. m + 1 -> V] : Upward(f, m + 1)
    OBVIOUS
  <2>1. PICK g \in [0 .. m -> V] : Upward(g, m)
    BY <1>2
  <2> DEFINE last == step[<<g[m], m + 1>>]
             f == [i \in 0 .. m + 1 |-> IF i = m + 1 THEN last ELSE g[i]]
  <2>2. last \in V
    OBVIOUS
  <2>3. /\ f \in [0 .. m + 1 -> V] /\ f[m + 1] = last
        /\ \A i \in 0 .. m : f[i] = g[i]
    <3> HIDE DEF last
    <3> QED BY <2>2
  <2>4. f[0] = v
    BY <2>1, <2>3
  <2>5. ASSUME NEW i \in 1 .. m + 1 PROVE f[i] = step[<<f[i - 1], i>>]
    <3> HIDE DEF f
    <3>1. CASE i = m + 1
      BY <2>3, <3>1
    <3>2. CASE i \in 1 .. m
      BY <2>1, <2>3, <3>2
    <3> QED BY <3>1, <3>2
  <2> QED BY <2>3, <2>4, <2>5
<1>3. n \in S
  <2> HIDE DEF S
  <2> QED BY <1>1, <1>2, Induction
<1> QED BY <1>3 DEF Defined

(* The index SelectInSeq returns: 0, or the first that will do.            *)
LEMMA FirstIndex ==
    ASSUME NEW n \in Nat, NEW I \in SUBSET (1 .. n),
           NEW i, i = IF I # {} THEN Min(I) ELSE 0
    PROVE  /\ i = 0 => I = {}
           /\ i # 0 => i \in I /\ i \in 1 .. n /\ \A j \in 1 .. n : j < i => j \notin I
<1>1. CASE I = {}
  BY <1>1
<1>2. CASE I # {}
  <2>1. I \in SUBSET Nat
    OBVIOUS
  <2>2. PICK x \in I : \A y \in I : x <= y
    BY <1>2, <2>1, Least
  <2>3. Min(I) \in I /\ \A y \in I : Min(I) <= y
    BY <2>2 DEF Min
  <2>4. i \in I /\ \A y \in I : i <= y
    BY <1>2, <2>3
  <2> QED BY <2>1, <2>4
<1> QED BY <1>1, <1>2

-----------------------------------------------------------------------------
(* A sequence with an element put before it.                               *)
LEMMA PutBefore ==
    ASSUME NEW S, NEW e \in S, NEW s \in Seq(S)
    PROVE  LET all == <<e>> \o s
           IN  /\ all \in Seq(S) /\ Len(all) = Len(s) + 1 /\ all # <<>>
               /\ all[1] = e /\ \A k \in 1 .. Len(s) : all[k + 1] = s[k]
               /\ Head(all) = e /\ Tail(all) = s
<1> DEFINE one == <<e>>
           all == one \o s
<1>1. one \in Seq(S) /\ Len(one) = 1 /\ one[1] = e
  OBVIOUS
<1> HIDE DEF one
<1>2. /\ all \in Seq(S) /\ Len(all) = Len(one) + Len(s)
      /\ \A i \in 1 .. Len(one) + Len(s) :
           all[i] = IF i <= Len(one) THEN one[i] ELSE s[i - Len(one)]
  BY <1>1, ConcatProperties, Zenon
<1> HIDE DEF all
<1>3. Len(s) \in Nat
  OBVIOUS
<1>4. Len(all) = Len(s) + 1 /\ all # <<>>
  BY <1>1, <1>2, <1>3
<1>5. all[1] = e
  BY <1>1, <1>2, <1>3
<1>6. ASSUME NEW k \in 1 .. Len(s) PROVE all[k + 1] = s[k]
  <2>1. k + 1 \in 1 .. Len(one) + Len(s) /\ ~(k + 1 <= Len(one)) /\ k + 1 - Len(one) = k
    BY <1>1, <1>3
  <2> QED BY <1>2, <2>1
<1>7. Head(all) = e
  BY <1>2, <1>4, <1>5
<1>8. Tail(all) \in Seq(S) /\ Len(Tail(all)) = Len(s)
      /\ \A i \in 1 .. Len(s) : Tail(all)[i] = s[i]
  <2>1. Len(all) - 1 = Len(s)
    BY <1>3, <1>4
  <2>2. Tail(all) \in Seq(S) /\ Len(Tail(all)) = Len(all) - 1
        /\ \A i \in 1 .. Len(Tail(all)) : Tail(all)[i] = all[i + 1]
    BY <1>2, <1>4, HeadTailProperties
  <2> HIDE DEF all
  <2> QED BY <1>6, <2>1, <2>2
<1>9. Tail(all) = s
  BY <1>8, SeqEqual
<1> QED BY <1>2, <1>4, <1>5, <1>6, <1>7, <1>9 DEF all, one

(* A sequence without its i-th element.                                    *)
LEMMA RemoveAtValue ==
    ASSUME NEW S, NEW s \in Seq(S), NEW i \in 1 .. Len(s)
    PROVE  LET r == RemoveAt(s, i)
           IN  /\ r \in Seq(S) /\ Len(r) = Len(s) - 1 /\ Len(s) \in Nat
               /\ \A j \in 1 .. Len(s) - 1 : r[j] = IF j < i THEN s[j] ELSE s[j + 1]
<1> DEFINE a == SubSeq(s, 1, i - 1)
           b == SubSeq(s, i + 1, Len(s))
           n == Len(s)
<1>1. n \in Nat /\ i \in Nat /\ 1 <= i /\ i <= n
  OBVIOUS
<1>2. a \in Seq(S) /\ Len(a) = i - 1 /\ \A j \in 1 .. i - 1 : a[j] = s[j]
  <2>1. \A j \in 1 .. i - 1 : j \in 1 .. Len(s)
    OBVIOUS
  <2> QED BY <1>1, <2>1
<1>3. b \in Seq(S) /\ Len(b) = n - i /\ \A j \in 1 .. n - i : b[j] = s[i + j]
  <2>1. \A j \in i + 1 .. Len(s) : j \in 1 .. Len(s)
    OBVIOUS
  <2>2. \A j \in 1 .. n - i : i + 1 + j - 1 = i + j
    OBVIOUS
  <2> QED BY <1>1, <2>1, <2>2
<1>4. RemoveAt(s, i) = a \o b
  BY DEF RemoveAt
<1> HIDE DEF a, b
<1>5. /\ a \o b \in Seq(S) /\ Len(a \o b) = Len(a) + Len(b)
      /\ \A j \in 1 .. Len(a) + Len(b) :
           (a \o b)[j] = IF j <= Len(a) THEN a[j] ELSE b[j - Len(a)]
  BY <1>2, <1>3, ConcatProperties, Zenon
<1> HIDE DEF n
<1> DEFINE r == a \o b
<1> HIDE DEF r
<1>6. Len(r) = n - 1
  BY <1>1, <1>2, <1>3, <1>5 DEF r
<1>7. ASSUME NEW j \in 1 .. n - 1 PROVE r[j] = IF j < i THEN s[j] ELSE s[j + 1]
  <2>1. r[j] = IF j <= i - 1 THEN a[j] ELSE b[j - (i - 1)]
    BY <1>1, <1>2, <1>3, <1>5 DEF r
  <2>2. CASE j < i
    BY <1>1, <1>2, <2>1, <2>2
  <2>3. CASE ~(j < i)
    <3>1. j - (i - 1) \in 1 .. n - i /\ i + (j - (i - 1)) = j + 1
      BY <1>1, <2>3
    <3> QED BY <1>1, <1>3, <2>1, <2>3, <3>1
  <2> QED BY <2>2, <2>3
<1> QED BY <1>1, <1>4, <1>5, <1>6, <1>7 DEF r, n

(* r is s with e as its i-th element, the later ones moved up.             *)
Inserts(r, s, i, e) ==
    /\ Len(r) = Len(s) + 1
    /\ \A j \in 1 .. Len(s) + 1 :
          r[j] = IF j < i THEN s[j] ELSE IF j = i THEN e ELSE s[j - 1]

(* A sequence with an element put before its i-th.                         *)
LEMMA InsertAtValue ==
    ASSUME NEW S, NEW s \in Seq(S), NEW i \in 1 .. Len(s), NEW e \in S
    PROVE  InsertAt(s, i, e) \in Seq(S) /\ Inserts(InsertAt(s, i, e), s, i, e)
<1> DEFINE a == SubSeq(s, 1, i - 1)
           b == SubSeq(s, i, Len(s))
           n == Len(s)
<1>1. n \in Nat /\ i \in Nat /\ 1 <= i /\ i <= n
  OBVIOUS
<1>2. a \in Seq(S) /\ Len(a) = i - 1 /\ \A j \in 1 .. i - 1 : a[j] = s[j]
  <2>1. \A j \in 1 .. i - 1 : j \in 1 .. Len(s)
    OBVIOUS
  <2> QED BY <1>1, <2>1
<1>3. b \in Seq(S) /\ Len(b) = n - i + 1 /\ \A j \in 1 .. n - i + 1 : b[j] = s[i + j - 1]
  <2>1. \A j \in i .. Len(s) : j \in 1 .. Len(s)
    OBVIOUS
  <2> QED BY <1>1, <2>1
<1> DEFINE one == <<e>>
<1>4. one \in Seq(S) /\ Len(one) = 1 /\ one[1] = e
  OBVIOUS
<1>5. InsertAt(s, i, e) = (a \o one) \o b
  BY DEF InsertAt
<1> HIDE DEF a, b, one
<1> DEFINE c == a \o one
<1>6. /\ c \in Seq(S) /\ Len(c) = Len(a) + Len(one)
      /\ \A j \in 1 .. Len(a) + Len(one) :
           c[j] = IF j <= Len(a) THEN a[j] ELSE one[j - Len(a)]
  BY <1>2, <1>4, ConcatProperties, Zenon
<1> HIDE DEF c
<1> DEFINE r == c \o b
<1>7. /\ r \in Seq(S) /\ Len(r) = Len(c) + Len(b)
      /\ \A j \in 1 .. Len(c) + Len(b) :
           r[j] = IF j <= Len(c) THEN c[j] ELSE b[j - Len(c)]
  <2>1. c \in Seq(S) /\ b \in Seq(S)
    BY <1>3, <1>6, Zenon
  <2> QED BY <2>1, ConcatProperties, Zenon
<1> HIDE DEF r, n
<1>8. Len(c) = i /\ Len(r) = n + 1
  BY <1>1, <1>2, <1>3, <1>4, <1>6, <1>7
<1>9. ASSUME NEW j \in 1 .. n + 1
      PROVE  r[j] = IF j < i THEN s[j] ELSE IF j = i THEN e ELSE s[j - 1]
  <2>1. CASE j < i
    <3>1. j \in 1 .. i - 1 /\ j <= i
      BY <1>1, <2>1
    <3>2. r[j] = c[j]
      BY <1>1, <1>3, <1>7, <1>8, <3>1
    <3>3. c[j] = a[j]
      BY <1>1, <1>2, <1>4, <1>6, <3>1
    <3> QED BY <1>2, <2>1, <3>1, <3>2, <3>3
  <2>2. CASE j = i
    <3>1. r[j] = c[j]
      BY <1>1, <1>3, <1>7, <1>8, <2>2
    <3>2. c[j] = one[1]
      BY <1>1, <1>2, <1>4, <1>6, <2>2
    <3> QED BY <1>4, <2>2, <3>1, <3>2
  <2>3. CASE j > i
    <3>1. j - i \in 1 .. n - i + 1 /\ i + (j - i) - 1 = j - 1
      BY <1>1, <2>3
    <3>2. r[j] = b[j - i]
      BY <1>1, <1>3, <1>7, <1>8, <2>3
    <3>3. b[j - i] = s[i + (j - i) - 1]
      BY <1>3, <3>1
    <3> QED BY <1>1, <2>3, <3>1, <3>2, <3>3
  <2> QED BY <1>1, <2>1, <2>2, <2>3
<1> QED BY <1>1, <1>5, <1>7, <1>8, <1>9 DEF r, c, n, Inserts
-----------------------------------------------------------------------------
(* Sequences without repetitions: as many elements as positions.           *)
Once(s) == \A i, j \in 1 .. Len(s) : s[i] = s[j] => i = j

LEMMA OnceCardinality ==
    ASSUME NEW S, NEW s \in Seq(S), Once(s)
    PROVE  IsFiniteSet(ToSet(s)) /\ Cardinality(ToSet(s)) = Len(s)
<1>1. Len(s) \in Nat /\ DOMAIN s = 1 .. Len(s)
  OBVIOUS
<1>2. s \in Bijection(1 .. Len(s), ToSet(s))
  <2>1. ToSet(s) = {s[i] : i \in 1 .. Len(s)}
    BY <1>1 DEF ToSet
  <2>2. s \in [1 .. Len(s) -> ToSet(s)]
    BY <2>1
  <2> QED
    BY <2>1, <2>2 DEF Bijection, Injection, Surjection, IsInjective, Once
<1>3. ExistsBijection(1 .. Len(s), ToSet(s))
  BY <1>2 DEF ExistsBijection
<1>4. IsFiniteSet(ToSet(s))
  BY <1>1, <1>3, FS_NatBijection
<1>5. Cardinality(ToSet(s)) = Len(s)
  BY <1>1, <1>3, FS_CountingElements
<1> QED BY <1>4, <1>5

LEMMA SetOfElements ==
    ASSUME NEW S, NEW s \in Seq(S)
    PROVE  /\ ToSet(s) \in SUBSET S
           /\ \A x : x \in ToSet(s) <=> \E i \in 1 .. Len(s) : s[i] = x
<1>1. DOMAIN s = 1 .. Len(s) /\ \A i \in 1 .. Len(s) : s[i] \in S
  OBVIOUS
<1> QED BY <1>1 DEF ToSet

(* Adding and removing an element.                                         *)
LEMMA OnceInserted ==
    ASSUME NEW S, NEW s \in Seq(S), NEW e \in S, Once(s), e \notin ToSet(s),
           NEW i \in 1 .. Len(s) + 1, NEW r \in Seq(S), Inserts(r, s, i, e)
    PROVE  Once(r) /\ ToSet(r) = ToSet(s) \cup {e}
<1> DEFINE at(j) == IF j < i THEN j ELSE j - 1
<1>0. Len(r) = Len(s) + 1 /\ \A j \in 1 .. Len(s) + 1 :
         r[j] = IF j < i THEN s[j] ELSE IF j = i THEN e ELSE s[j - 1]
  BY DEF Inserts
<1>1. Len(s) \in Nat /\ r[i] = e /\ i \in 1 .. Len(r) /\ Len(r) = Len(s) + 1
  BY <1>0
<1>2. \A j \in 1 .. Len(r) : j # i => at(j) \in 1 .. Len(s) /\ r[j] = s[at(j)]
  BY <1>0, <1>1
<1>3. \A j, k \in 1 .. Len(r) : j # i /\ k # i /\ at(j) = at(k) => j = k
  BY <1>1
<1>4. \A k \in 1 .. Len(s) : \E j \in 1 .. Len(r) : j # i /\ at(j) = k
  <2> SUFFICES ASSUME NEW k \in 1 .. Len(s)
               PROVE  \E j \in 1 .. Len(r) : j # i /\ at(j) = k
    OBVIOUS
  <2>1. CASE k < i
    BY <1>1, <2>1
  <2>2. CASE k >= i
    <3>1. k + 1 \in 1 .. Len(r) /\ k + 1 # i /\ at(k + 1) = k
      BY <1>1, <2>2
    <3> QED BY <3>1
  <2> QED BY <1>1, <2>1, <2>2
<1> HIDE DEF at
<1>5. \A k \in 1 .. Len(s) : s[k] # e
  BY SetOfElements
<1>6. Once(r)
  BY <1>1, <1>2, <1>3, <1>5 DEF Once
<1>7. ToSet(r) = ToSet(s) \cup {e}
  <2>1. ASSUME NEW x \in ToSet(r) PROVE x \in ToSet(s) \cup {e}
    <3>1. PICK j \in 1 .. Len(r) : r[j] = x
      BY <2>1, SetOfElements
    <3> QED BY <1>1, <1>2, <3>1, SetOfElements
  <2>2. ASSUME NEW x \in ToSet(s) PROVE x \in ToSet(r)
    <3>1. PICK k \in 1 .. Len(s) : s[k] = x
      BY <2>2, SetOfElements
    <3>2. PICK j \in 1 .. Len(r) : j # i /\ at(j) = k
      BY <1>4, <3>1
    <3> QED BY <1>2, <3>1, <3>2, SetOfElements
  <2>3. e \in ToSet(r)
    BY <1>1, SetOfElements
  <2> QED BY <2>1, <2>2, <2>3
<1> QED BY <1>6, <1>7

LEMMA OncePutBefore ==
    ASSUME NEW S, NEW s \in Seq(S), NEW e \in S, Once(s), e \notin ToSet(s)
    PROVE  /\ <<e>> \o s \in Seq(S) /\ Len(<<e>> \o s) = Len(s) + 1
           /\ Once(<<e>> \o s) /\ ToSet(<<e>> \o s) = ToSet(s) \cup {e}
<1> DEFINE r == <<e>> \o s
<1>1. r \in Seq(S) /\ Len(r) = Len(s) + 1 /\ r[1] = e
      /\ \A k \in 1 .. Len(s) : r[k + 1] = s[k]
  BY PutBefore
<1> HIDE DEF r
<1>2. Len(s) \in Nat /\ 1 \in 1 .. Len(s) + 1
  OBVIOUS
<1>3. \A j \in 1 .. Len(s) + 1 :
         r[j] = IF j < 1 THEN s[j] ELSE IF j = 1 THEN e ELSE s[j - 1]
  <2> SUFFICES ASSUME NEW j \in 1 .. Len(s) + 1, j # 1 PROVE r[j] = s[j - 1]
    BY <1>1
  <2>1. j - 1 \in 1 .. Len(s) /\ j - 1 + 1 = j
    BY <1>2
  <2> QED BY <1>1, <2>1
<1>4. Once(r) /\ ToSet(r) = ToSet(s) \cup {e}
  <2>1. Inserts(r, s, 1, e)
    BY <1>1, <1>3 DEF Inserts
  <2> QED BY <1>1, <1>2, <2>1, OnceInserted
<1> QED BY <1>1, <1>4 DEF r

LEMMA OnceRemoveAt ==
    ASSUME NEW S, NEW s \in Seq(S), NEW i \in 1 .. Len(s), Once(s)
    PROVE  Once(RemoveAt(s, i)) /\ ToSet(RemoveAt(s, i)) = ToSet(s) \ {s[i]}
<1> DEFINE r == RemoveAt(s, i)
<1>1. r \in Seq(S) /\ Len(r) = Len(s) - 1 /\ Len(s) \in Nat
      /\ \A j \in 1 .. Len(s) - 1 : r[j] = IF j < i THEN s[j] ELSE s[j + 1]
  BY RemoveAtValue
<1> HIDE DEF r
<1> DEFINE at(j) == IF j < i THEN j ELSE j + 1
<1>2. \A j \in 1 .. Len(r) : at(j) \in 1 .. Len(s) /\ r[j] = s[at(j)] /\ at(j) # i
  BY <1>1
<1>3. \A j, k \in 1 .. Len(r) : at(j) = at(k) => j = k
  BY <1>1
<1>4. \A k \in 1 .. Len(s) : k # i => \E j \in 1 .. Len(r) : at(j) = k
  <2> SUFFICES ASSUME NEW k \in 1 .. Len(s), k # i PROVE \E j \in 1 .. Len(r) : at(j) = k
    OBVIOUS
  <2>1. CASE k < i
    BY <1>1, <2>1
  <2>2. CASE k > i
    <3>1. k - 1 \in 1 .. Len(r) /\ at(k - 1) = k
      BY <1>1, <2>2
    <3> QED BY <3>1
  <2> QED BY <2>1, <2>2
<1> HIDE DEF at
<1>5. Once(r)
  BY <1>2, <1>3 DEF Once
<1>6. ToSet(r) = ToSet(s) \ {s[i]}
  <2>1. ASSUME NEW x \in ToSet(r) PROVE x \in ToSet(s) /\ x # s[i]
    <3>1. PICK j \in 1 .. Len(r) : r[j] = x
      BY <1>1, <2>1, SetOfElements
    <3> QED BY <1>2, <3>1, SetOfElements DEF Once
  <2>2. ASSUME NEW x \in ToSet(s), x # s[i] PROVE x \in ToSet(r)
    <3>1. PICK k \in 1 .. Len(s) : s[k] = x
      BY <2>2, SetOfElements
    <3>2. PICK j \in 1 .. Len(r) : at(j) = k
      BY <1>4, <2>2, <3>1
    <3> QED BY <1>1, <1>2, <3>1, <3>2, SetOfElements
  <2> QED BY <2>1, <2>2
<1> QED BY <1>5, <1>6 DEF r

LEMMA OnceTail ==
    ASSUME NEW S, NEW s \in Seq(S), s # <<>>, Once(s)
    PROVE  /\ Head(s) \in S /\ Head(s) \in ToSet(s)
           /\ Tail(s) \in Seq(S) /\ Once(Tail(s)) /\ ToSet(Tail(s)) = ToSet(s) \ {Head(s)}
           /\ Len(s) \in Nat \ {0} /\ Len(Tail(s)) = Len(s) - 1
<1>1. Len(s) \in Nat /\ Len(s) # 0 /\ Head(s) = s[1]
  BY EmptySeq
<1>2. 1 \in 1 .. Len(s)
  BY <1>1
<1>3. /\ RemoveAt(s, 1) \in Seq(S) /\ Len(RemoveAt(s, 1)) = Len(s) - 1
      /\ \A j \in 1 .. Len(s) - 1 : RemoveAt(s, 1)[j] = IF j < 1 THEN s[j] ELSE s[j + 1]
  BY <1>2, RemoveAtValue
<1>4. /\ Tail(s) \in Seq(S) /\ Len(Tail(s)) = Len(s) - 1
      /\ \A j \in 1 .. Len(s) - 1 : Tail(s)[j] = s[j + 1]
  BY <1>1, HeadTailProperties
<1>5. Tail(s) = RemoveAt(s, 1)
  <2> DEFINE r == RemoveAt(s, 1)
             t == Tail(s)
  <2>1. \A j \in 1 .. Len(s) - 1 : ~(j < 1)
    BY <1>1
  <2>2. /\ r \in Seq(S) /\ t \in Seq(S) /\ Len(r) = Len(t)
        /\ \A j \in 1 .. Len(t) : t[j] = r[j]
    BY <1>3, <1>4, <2>1
  <2> HIDE DEF r, t
  <2>3. t = r
    BY <2>2, SeqEqual
  <2> QED BY <2>3 DEF r, t
<1>6. Head(s) \in S /\ Head(s) \in ToSet(s)
  BY <1>1, <1>2, SetOfElements
<1>7. Once(Tail(s)) /\ ToSet(Tail(s)) = ToSet(s) \ {Head(s)}
  <2>1. Once(RemoveAt(s, 1)) /\ ToSet(RemoveAt(s, 1)) = ToSet(s) \ {s[1]}
    BY <1>2, OnceRemoveAt
  <2> QED BY <1>1, <1>5, <2>1
<1> QED BY <1>1, <1>4, <1>6, <1>7
=============================================================================
