--------------------------- MODULE TerminalProofs ---------------------------
(***************************************************************************)
(* Theorems about the terminal, its output in Screen and its input in      *)
(* Programs, which runs Console and Strings.  For every size of the        *)
(* screen, the card and the registers: the cursor stays within a row of    *)
(* the screen and comes back, and what was printed in a row stays in front *)
(* of it.  For every line buffer, keyboard and list of commands: what was  *)
(* entered reaches the reader and its first word is run, whatever is typed *)
(* meanwhile, and the keyboard stays the keyboard's.                       *)
(***************************************************************************)
EXTENDS Screen, Programs, Lemmas
-----------------------------------------------------------------------------
(* The screen.                                                             *)

(* The largest high byte of a position of the screen, and the last position*)
(* a cursor torn between two of them may have.                             *)
HiMax == (Visible - 1) \div U8
Torn == HiMax * U8 + U8 - 1

LEMMA Product ==
    ASSUME NEW a \in Nat, NEW b \in Nat, a <= b, NEW n \in Nat
    PROVE  a * n \in Nat /\ b * n \in Nat /\ a * n <= b * n
<1>1. PICK c \in Nat : b = a + c
  <2>1. b - a \in Nat /\ b = a + (b - a)
    OBVIOUS
  <2> QED BY <2>1
<1>2. b * n = a * n + c * n /\ c * n \in Nat /\ a * n \in Nat
  BY <1>1
<1> QED BY <1>2

LEMMA Sizes ==
    /\ Visible \in Nat \ {0} /\ Cols \in Nat \ {0} /\ CardRows \in Nat
    /\ HiMax \in Nat /\ HiMax < U8 /\ U8 \in Nat \ {0}
    /\ Torn \in Nat /\ Visible - 1 <= Torn /\ Torn + 1 < Visible + Cols
    /\ (Rows + 1) * Cols = Visible + Cols /\ Visible + Cols <= CardRows * Cols
    /\ CardRows * Cols \in Nat /\ Cols <= Visible
<1>1. Rows \in Nat \ {0} /\ Cols \in Nat \ {0} /\ U8 \in Nat \ {0} /\ CardRows \in Nat
      /\ CardRows > Rows
  BY ScreenAssumption
<1>2. (Rows + 1) * Cols = Visible + Cols /\ Visible \in Nat \ {0}
  BY <1>1 DEF Visible
<1>3. (Rows + 1) * Cols <= CardRows * Cols /\ CardRows * Cols \in Nat
  BY <1>1, Product
<1>8. Cols <= Visible
  <2>1. 1 * Cols <= Rows * Cols
    BY <1>1, Product
  <2> QED BY <1>1, <2>1 DEF Visible
<1>4. HiMax * U8 + U8 < (Rows + 1) * Cols /\ HiMax < U8
  BY ScreenAssumption DEF HiMax
<1>5. HiMax \in Nat /\ HiMax * U8 \in Nat /\ Visible - 1 <= HiMax * U8 + U8 - 1
  <2> DEFINE last == Visible - 1
  <2>1. last \in Nat /\ U8 \in Nat \ {0}
    BY <1>1, <1>2
  <2> HIDE DEF last
  <2>2. last \div U8 \in Nat /\ (last \div U8) * U8 <= last
        /\ last <= (last \div U8) * U8 + U8 - 1
    BY <2>1
  <2>3. HiMax = last \div U8
    BY DEF HiMax, last
  <2> DEFINE a == HiMax * U8
  <2>4. a \in Nat
    BY <1>1, <2>2, <2>3
  <2> QED BY <2>2, <2>3, <2>4 DEF last
<1> DEFINE full == HiMax * U8
           all == CardRows * Cols
           more == (Rows + 1) * Cols
<1>6. full \in Nat /\ all \in Nat /\ more <= all /\ more = Visible + Cols
      /\ full + U8 < more /\ Visible - 1 <= full + U8 - 1 /\ Torn = full + U8 - 1
  BY <1>2, <1>3, <1>4, <1>5 DEF Torn
<1> HIDE DEF full, all, more
<1>7. Torn \in Nat /\ Visible - 1 <= Torn /\ Torn + 1 < Visible + Cols
      /\ Visible + Cols <= all
  BY <1>1, <1>2, <1>6
<1> QED BY <1>1, <1>2, <1>4, <1>5, <1>6, <1>7, <1>8 DEF all, more

(* A position split into two bytes and put together again.                 *)
LEMMA Bytes ==
    ASSUME NEW p \in 0 .. Torn
    PROVE  /\ (p \div U8) % U8 \in 0 .. HiMax /\ p % U8 \in 0 .. U8 - 1
           /\ ((p \div U8) % U8) * U8 + (p % U8) = p
<1>1. p \in Nat /\ U8 \in Nat \ {0} /\ HiMax \in Nat /\ HiMax < U8 /\ p <= HiMax * U8 + U8 - 1
  BY Sizes DEF Torn
<1> DEFINE q == p \div U8
           r == p % U8
<1>2. q \in Nat /\ r \in 0 .. U8 - 1 /\ p = q * U8 + r
  BY <1>1
<1> HIDE DEF q, r
<1>3. q <= HiMax
  <2> SUFFICES ASSUME HiMax + 1 <= q PROVE FALSE
    BY <1>1, <1>2
  <2>1. (HiMax + 1) * U8 <= q * U8 /\ q * U8 \in Nat /\ (HiMax + 1) * U8 \in Nat
    BY <1>1, <1>2, Product
  <2>2. (HiMax + 1) * U8 = HiMax * U8 + U8 /\ HiMax * U8 \in Nat
    BY <1>1
  <2> DEFINE a == HiMax * U8
             b == q * U8
             c == (HiMax + 1) * U8
  <2>3. a \in Nat /\ b \in Nat /\ c <= b /\ c = a + U8 /\ p = b + r /\ p <= a + U8 - 1
    BY <1>1, <1>2, <2>1, <2>2
  <2> HIDE DEF a, b, c
  <2> QED BY <1>1, <1>2, <2>3
<1>4. q % U8 = q
  BY <1>1, <1>2, <1>3
<1> QED BY <1>1, <1>2, <1>3, <1>4 DEF q, r

(* The row of a position less than a row past the screen.                  *)
LEMMA Row ==
    ASSUME NEW place \in Nat, place < Visible + Cols
    PROVE  /\ place \div Cols \in Nat /\ ~(place \div Cols >= CardRows)
           /\ (place \div Cols + 1) * Cols \in Nat
           /\ place < (place \div Cols + 1) * Cols
           /\ (place \div Cols + 1) * Cols <= Visible + Cols
           /\ place < Visible => (place \div Cols + 1) * Cols <= Visible
<1>1. Cols \in Nat \ {0} /\ Rows \in Nat /\ CardRows \in Nat /\ Visible \in Nat /\ CardRows > Rows
      /\ Rows * Cols = Visible /\ (Rows + 1) * Cols = Visible + Cols
  BY Sizes, ScreenAssumption DEF Visible
<1> DEFINE q == place \div Cols
           start == q * Cols
<1>2. q \in Nat /\ start \in Nat /\ start <= place /\ place < start + Cols
  BY <1>1
<1>3. (q + 1) * Cols = start + Cols
  BY <1>1, <1>2
<1> HIDE DEF q, start
<1>4. q <= Rows
  <2> SUFFICES ASSUME Rows + 1 <= q PROVE FALSE
    BY <1>1, <1>2
  <2>1. (Rows + 1) * Cols <= start
    BY <1>1, <1>2, Product DEF start
  <2> QED BY <1>1, <1>2, <2>1
<1>5. place < Visible => q + 1 <= Rows
  <2> SUFFICES ASSUME place < Visible, Rows <= q PROVE FALSE
    BY <1>1, <1>2
  <2>1. Rows * Cols <= start
    BY <1>1, <1>2, Product DEF start
  <2> QED BY <1>1, <1>2, <2>1
<1>6. (q + 1) * Cols <= (Rows + 1) * Cols
  <2>1. q + 1 \in Nat /\ Rows + 1 \in Nat /\ q + 1 <= Rows + 1 /\ Cols \in Nat
    BY <1>1, <1>2, <1>4
  <2> QED BY <2>1, Product
<1>7. place < Visible => (q + 1) * Cols <= Rows * Cols
  <2> SUFFICES ASSUME place < Visible PROVE (q + 1) * Cols <= Rows * Cols
    OBVIOUS
  <2>1. q + 1 \in Nat /\ Rows \in Nat /\ q + 1 <= Rows /\ Cols \in Nat
    BY <1>1, <1>2, <1>5
  <2> QED BY <2>1, Product
<1> DEFINE after == (q + 1) * Cols
<1>8. after = start + Cols /\ after <= Visible + Cols /\ (place < Visible => after <= Visible)
  BY <1>1, <1>3, <1>6, <1>7
<1> HIDE DEF after
<1>9. q \in Nat /\ ~(q >= CardRows) /\ after \in Nat /\ place < after
  BY <1>1, <1>2, <1>4, <1>8
<1> QED BY <1>8, <1>9 DEF q, after
-----------------------------------------------------------------------------
(* Displays: a position the cursor may have, and a line of characters.     *)
Displays == [video : [Cells -> Characters], at : 0 .. Torn, last : Seq(Characters)]

LEMMA InCharacters ==
    /\ Blank \in Characters /\ \A key \in Keys : key \in Characters /\ key \notin {Newline, Erase}
    /\ \A m \in Messages : /\ Len(m) \in Nat \ {0}
                            /\ \A k \in 1 .. Len(m) : m[k] \in Characters \ {Erase}
<1>1. Characters = Keys \cup {Blank, E} \cup UNION {ToSet(m) : m \in Messages}
  BY DEF Characters
<1> DEFINE printed == UNION {ToSet(m) : m \in Messages}
<1>2. \A m \in Messages : ToSet(m) \in SUBSET printed
  OBVIOUS
<1> HIDE DEF printed
<1>3. Blank \in Characters /\ Keys \subseteq Characters /\ printed \subseteq Characters
  BY <1>1 DEF printed
<1>4. \A key \in Keys : key \in Characters /\ key \notin {Newline, Erase}
  BY <1>3, CharAssumption
<1>5. ASSUME NEW m \in Messages
      PROVE  /\ Len(m) \in Nat \ {0}
             /\ \A k \in 1 .. Len(m) : m[k] \in Characters \ {Erase}
  <2>1. m # <<>> /\ m \in Seq(ToSet(m)) /\ {Erase, Blank, E} \cap ToSet(m) = {}
    BY CharAssumption
  <2> DEFINE S == ToSet(m)
  <2>2. S \subseteq Characters /\ Erase \notin S /\ m \in Seq(S) /\ m # <<>>
    BY <1>2, <1>3, <2>1
  <2> HIDE DEF S
  <2> QED BY <2>2
<1> QED BY <1>3, <1>4, <1>5

(* The line stands to the left of a position.                              *)
StandsAt(cells, place, row) ==
    \A k \in 1 .. Len(row) :
       place - Len(row) + k - 1 >= 0 => cells[place - Len(row) + k - 1] = row[k]

LEMMA KeepLast ==
    ASSUME NEW S, NEW s \in Seq(S), NEW place \in Int, NEW cells, StandsAt(cells, place, s)
    PROVE  Keep(s) \in Seq(S) /\ StandsAt(cells, place, Keep(s))
<1>1. Followed \in Nat /\ Len(s) \in Nat
  BY ScreenAssumption
<1>2. CASE Len(s) <= Followed
  BY <1>2 DEF Keep
<1>3. CASE ~(Len(s) <= Followed)
  <2> DEFINE m == Len(s) - Followed + 1
             n == Len(s)
             kept == SubSeq(s, m, n)
  <2>1. m \in 1 .. n + 1 /\ n \in Nat /\ m \in Nat
    BY <1>1, <1>3
  <2>2. /\ kept \in Seq(S) /\ Len(kept) = n - m + 1
        /\ \A i \in 1 .. n - m + 1 : kept[i] = s[m + i - 1]
    BY <2>1, SubSeqProperties
  <2> HIDE DEF kept
  <2>3. Len(kept) = Followed
    BY <1>1, <2>2
  <2>4. ASSUME NEW k \in 1 .. Len(kept), place - Len(kept) + k - 1 >= 0
        PROVE  cells[place - Len(kept) + k - 1] = kept[k]
    <3>1. kept[k] = s[m + k - 1] /\ m + k - 1 \in 1 .. Len(s)
      BY <1>1, <1>3, <2>2, <2>3, <2>4
    <3>2. place - Len(s) + (m + k - 1) - 1 = place - Len(kept) + k - 1
      BY <1>1, <2>3
    <3> HIDE DEF m
    <3> QED BY <2>4, <3>1, <3>2 DEF StandsAt
  <2>5. Keep(s) = kept
    BY <1>3 DEF Keep, kept
  <2> QED BY <2>2, <2>4, <2>5 DEF StandsAt
<1> QED BY <1>2, <1>3

(* The line and a character put after it.                                  *)
LEMMA OneMoreShown ==
    ASSUME NEW S, NEW s \in Seq(S), NEW c \in S, NEW place \in Nat, NEW cells, NEW after,
           StandsAt(cells, place, s), after[place] = c,
           \A p \in 0 .. place - 1 : after[p] = cells[p]
    PROVE  Append(s, c) \in Seq(S) /\ StandsAt(after, place + 1, Append(s, c))
<1> DEFINE t == Append(s, c)
<1>1. /\ t \in Seq(S) /\ Len(t) = Len(s) + 1 /\ Len(s) \in Nat
      /\ t[Len(s) + 1] = c /\ \A k \in 1 .. Len(s) : t[k] = s[k]
  OBVIOUS
<1> HIDE DEF t
<1>2. ASSUME NEW k \in 1 .. Len(t), place + 1 - Len(t) + k - 1 >= 0
      PROVE  after[place + 1 - Len(t) + k - 1] = t[k]
  <2>1. CASE k = Len(s) + 1
    BY <1>1, <2>1
  <2>2. CASE k \in 1 .. Len(s)
    <3>1. place + 1 - Len(t) + k - 1 = place - Len(s) + k - 1
          /\ place - Len(s) + k - 1 \in 0 .. place - 1
      BY <1>1, <1>2, <2>2
    <3> QED BY <1>1, <2>2, <3>1 DEF StandsAt
  <2> QED BY <1>1, <2>1, <2>2
<1>3. StandsAt(after, place + 1, t)
  BY <1>2 DEF StandsAt
<1> QED BY <1>1, <1>3 DEF t

(* The line without its last character.                                    *)
LEMMA OneLessShown ==
    ASSUME NEW S, NEW s \in Seq(S), NEW place \in Nat, NEW cells, NEW after,
           StandsAt(cells, place + 1, s), s # <<>>,
           \A p \in 0 .. place - 1 : after[p] = cells[p]
    PROVE  Front(s) \in Seq(S) /\ StandsAt(after, place, Front(s))
<1> DEFINE t == Front(s)
<1>1. /\ t \in Seq(S) /\ Len(t) = Len(s) - 1 /\ Len(s) \in Nat
      /\ \A k \in 1 .. Len(t) : t[k] = s[k]
  <2> DEFINE n == Len(s) - 1
  <2>1. n \in Nat /\ 1 \in 1 .. n + 1 /\ n \in 0 .. Len(s)
    OBVIOUS
  <2>2. t = SubSeq(s, 1, n)
    BY DEF Front
  <2> HIDE DEF t, n
  <2>3. /\ t \in Seq(S) /\ Len(t) = n
        /\ \A k \in 1 .. n : t[k] = s[1 + k - 1]
    BY <2>1, <2>2, SubSeqProperties
  <2>4. \A k \in 1 .. n : 1 + k - 1 = k
    BY <2>1
  <2> QED BY <2>3, <2>4 DEF n
<1> HIDE DEF t
<1>2. ASSUME NEW k \in 1 .. Len(t), place - Len(t) + k - 1 >= 0
      PROVE  after[place - Len(t) + k - 1] = t[k]
  <2> DEFINE q == place - Len(t) + k - 1
  <2>1. place + 1 - Len(s) + k - 1 = q /\ k \in 1 .. Len(s) /\ q \in 0 .. place - 1 /\ q >= 0
    BY <1>1, <1>2
  <2> HIDE DEF q
  <2>2. cells[q] = s[k]
    BY <2>1 DEF StandsAt
  <2>3. t[k] = s[k]
    BY <1>1
  <2>4. after[q] = cells[q]
    BY <2>1
  <2> QED BY <2>2, <2>3, <2>4 DEF q
<1>3. StandsAt(after, place, t)
  BY <1>2 DEF StandsAt
<1> QED BY <1>1, <1>3 DEF t

(* A scroll moves the line with the cursor.                                *)
LEMMA ScrolledLine ==
    ASSUME NEW S, NEW s \in Seq(S), NEW place \in Nat, NEW cells,
           StandsAt(cells, place, s), Cols <= place, place <= Visible
    PROVE  StandsAt(Scroll(cells), place - Cols, s)
<1>1. /\ Visible \in Nat /\ Cols \in Nat \ {0} /\ CardRows * Cols \in Nat
      /\ Visible + Cols <= CardRows * Cols
  BY Sizes
<1>2. ASSUME NEW k \in 1 .. Len(s), place - Cols - Len(s) + k - 1 >= 0
      PROVE  Scroll(cells)[place - Cols - Len(s) + k - 1] = s[k]
  <2> DEFINE p == place - Cols - Len(s) + k - 1
  <2>1. /\ p \in Nat /\ p + Cols = place - Len(s) + k - 1 /\ p + Cols < Visible
        /\ p + Cols >= 0 /\ p < CardRows * Cols
    <3> DEFINE all == CardRows * Cols
    <3>1. all \in Nat /\ Visible + Cols <= all /\ Len(s) \in Nat
      BY <1>1
    <3> HIDE DEF all
    <3>2. p \in Nat /\ p + Cols = place - Len(s) + k - 1 /\ p + Cols < Visible
          /\ p + Cols >= 0 /\ p < all
      BY <1>1, <1>2, <3>1
    <3> QED BY <3>2 DEF all
  <2>2. p \in Cells
    BY <2>1, <1>1 DEF Cells
  <2> HIDE DEF p
  <2>3. Scroll(cells)[p] = cells[p + Cols]
    BY <2>1, <2>2 DEF Scroll
  <2>4. cells[p + Cols] = s[k]
    BY <2>1, <1>2 DEF StandsAt
  <2> QED BY <2>3, <2>4 DEF p
<1> QED BY <1>2 DEF StandsAt

(* print_char below the card's rows, as it is everywhere here: the display *)
(* before the scrolling, and after it.                                     *)
LEMMA DrawnDisplay ==
    ASSUME NEW d \in Displays, NEW c \in Characters \cup {Erase}
    PROVE  /\ Drawn(d, c).video \in [Cells -> Characters]
           /\ Drawn(d, c).at \in Nat /\ Drawn(d, c).at <= Visible + Cols
           /\ Drawn(d, c).last \in Seq(Characters)
           /\ c # Newline => Drawn(d, c).at <= Torn + 1
           /\ d.at < Visible => Drawn(d, c).at <= Visible
           /\ d.at >= Visible => Drawn(d, c).last = <<>>
<1>1. /\ d.video \in [Cells -> Characters] /\ d.at \in 0 .. Torn /\ d.last \in Seq(Characters)
  BY DEF Displays
<1>2. /\ Visible \in Nat /\ Cols \in Nat /\ Torn \in Nat /\ Torn + 1 < Visible + Cols
  BY Sizes
<1>3. Drawn(d, c).video \in [Cells -> Characters]
  <2>1. Blank \in Characters
    BY InCharacters
  <2> QED BY <1>1, <2>1 DEF Drawn
<1>4. /\ Drawn(d, c).at \in Nat /\ Drawn(d, c).at <= Visible + Cols
      /\ c # Newline => Drawn(d, c).at <= Torn + 1
      /\ d.at < Visible => Drawn(d, c).at <= Visible
  <2>1. d.at \in Nat /\ d.at < Visible + Cols
    BY <1>1, <1>2
  <2> DEFINE row == (d.at \div Cols + 1) * Cols
             place == d.at
             to == Drawn(d, c).at
  <2>2. row \in Nat /\ row <= Visible + Cols /\ (place < Visible => row <= Visible)
    BY <2>1, Row
  <2>3. to = IF c = Newline THEN row ELSE IF c = Erase THEN place ELSE place + 1
    BY DEF Drawn
  <2>4. place \in 0 .. Torn
    BY <1>1
  <2> HIDE DEF row, place, to
  <2>5. to \in Nat /\ to <= Visible + Cols /\ (c # Newline => to <= Torn + 1)
        /\ (place < Visible => to <= Visible)
    BY <1>2, <2>2, <2>3, <2>4
  <2> QED BY <2>5 DEF to, place
<1>5. /\ Drawn(d, c).last \in Seq(Characters)
      /\ d.at >= Visible => Drawn(d, c).last = <<>>
  <2>1. Drawn(d, c).last = LastAfter(d, c)
    BY DEF Drawn
  <2>2. CASE d.at >= Visible \/ c = Newline
    BY <2>1, <2>2 DEF LastAfter
  <2>3. CASE ~(d.at >= Visible \/ c = Newline) /\ c = Erase
    <3>1. LastAfter(d, c) = IF d.last = <<>> THEN <<>> ELSE Front(d.last)
      BY <2>3 DEF LastAfter
    <3>2. CASE d.last = <<>>
      BY <2>1, <2>3, <3>1, <3>2
    <3>3. CASE d.last # <<>>
      <4>1. Front(d.last) \in Seq(Characters)
        BY <1>1, <3>3 DEF Front
      <4> QED BY <2>1, <2>3, <3>1, <3>3, <4>1
    <3> QED BY <3>2, <3>3
  <2>4. CASE ~(d.at >= Visible \/ c = Newline) /\ c # Erase
    <3>1. LastAfter(d, c) = Keep(Append(d.last, c)) /\ c \in Characters
      BY <2>4 DEF LastAfter
    <3> DEFINE t == Append(d.last, c)
               n == Len(t)
    <3>2. t \in Seq(Characters) /\ n \in Nat /\ Followed \in Nat
      BY <1>1, <3>1, ScreenAssumption
    <3> HIDE DEF t
    <3>3. Keep(t) \in Seq(Characters)
      <4>1. CASE n <= Followed
        BY <3>2, <4>1 DEF Keep
      <4>2. CASE ~(n <= Followed)
        <5> DEFINE m == n - Followed + 1
        <5>1. m \in 1 .. n + 1
          BY <3>2, <4>2
        <5>2. SubSeq(t, m, n) \in Seq(Characters)
          BY <3>2, <5>1
        <5> QED BY <4>2, <5>2 DEF Keep
      <4> QED BY <4>1, <4>2
    <3> QED BY <2>1, <2>4, <3>1, <3>3 DEF t
  <2> QED BY <2>2, <2>3, <2>4
<1> QED BY <1>3, <1>4, <1>5

LEMMA PrintCharValue ==
    ASSUME NEW d \in Displays, NEW c \in Characters \cup {Erase}
    PROVE  LET after == Drawn(d, c)
               new == PrintChar(d, c)
           IN  /\ after.at < Visible => new = after
               /\ after.at >= Visible =>
                    /\ new.video = Scroll(after.video) /\ new.at = after.at - Cols
                    /\ new.last = after.last
               /\ new \in Displays /\ (c # Newline => new.at < Visible)
<1> DEFINE after == Drawn(d, c)
           new == PrintChar(d, c)
<1>1. /\ Visible \in Nat \ {0} /\ Cols \in Nat \ {0} /\ Torn \in Nat
      /\ Torn + 1 < Visible + Cols /\ Visible - 1 <= Torn /\ Cols <= Visible
  BY Sizes
<1>2. d.at \in 0 .. Torn
  BY DEF Displays
<1>3. ~(d.at \div Cols >= CardRows)
  <2>1. d.at \in Nat /\ d.at < Visible + Cols
    BY <1>1, <1>2
  <2> QED BY <2>1, Row
<1>4. new = IF after.at >= Visible
            THEN [after EXCEPT !.video = Scroll(@), !.at = @ - Cols] ELSE after
  BY <1>3 DEF PrintChar
<1>5. /\ after.video \in [Cells -> Characters] /\ after.at \in Nat
      /\ after.at <= Visible + Cols /\ after.last \in Seq(Characters)
      /\ c # Newline => after.at <= Torn + 1
      /\ d.at < Visible => after.at <= Visible
  BY DrawnDisplay
<1>6. after = [video |-> after.video, at |-> after.at, last |-> after.last]
  BY DEF Drawn
<1>7. Scroll(after.video) \in [Cells -> Characters]
  <2> DEFINE v == after.video
  <2>1. v \in [Cells -> Characters] /\ Blank \in Characters
    BY <1>5, InCharacters
  <2>2. \A p \in Cells : p + Cols < Visible => p + Cols \in Cells
    <3>1. Visible + Cols <= CardRows * Cols /\ CardRows * Cols \in Nat
      BY Sizes
    <3> DEFINE all == CardRows * Cols
    <3>2. Visible + Cols <= all /\ all \in Nat /\ Cells = 0 .. all - 1
      BY <3>1 DEF Cells
    <3> HIDE DEF all
    <3> QED BY <1>1, <3>2
  <2> HIDE DEF v
  <2>3. Scroll(v) \in [Cells -> Characters]
    BY <2>1, <2>2 DEF Scroll
  <2> QED BY <2>3 DEF v
<1> HIDE DEF after, new
<1>8. CASE after.at < Visible
  <2>1. new = after
    BY <1>1, <1>4, <1>5, <1>8
  <2>2. after.at \in 0 .. Torn
    BY <1>1, <1>5, <1>8
  <2>3. new \in Displays
    BY <1>5, <1>6, <2>1, <2>2 DEF Displays
  <2>4. ~(after.at >= Visible) /\ new.at < Visible
    BY <1>1, <1>5, <1>8, <2>1
  <2> QED BY <2>1, <2>3, <2>4 DEF after, new
<1>9. CASE after.at >= Visible
  <2>1. new = [video |-> Scroll(after.video), at |-> after.at - Cols, last |-> after.last]
    BY <1>4, <1>6, <1>9
  <2>2. after.at - Cols \in 0 .. Torn /\ (c # Newline => after.at - Cols < Visible)
    BY <1>1, <1>2, <1>5, <1>9
  <2>3. new \in Displays /\ new.at = after.at - Cols
        /\ new.video = Scroll(after.video) /\ new.last = after.last
    BY <1>5, <1>7, <2>1, <2>2 DEF Displays
  <2>4. ~(after.at < Visible)
    BY <1>1, <1>5, <1>9
  <2> QED BY <2>2, <2>3, <2>4 DEF after, new
<1> QED BY <1>1, <1>5, <1>8, <1>9

(* A line stays where it stands, scrolls with the cursor and grows or      *)
(* shrinks at its end.                                                     *)
LEMMA PrintCharLine ==
    ASSUME NEW d \in Displays, NEW c \in Characters \cup {Erase},
           \/ c # Erase /\ StandsAt(d.video, d.at, d.last)
           \/ c = Erase /\ (d.at = 0 \/ StandsAt(d.video, d.at + 1, d.last))
    PROVE  LET new == PrintChar(d, c) IN StandsAt(new.video, new.at, new.last)
<1> DEFINE after == Drawn(d, c)
           new == PrintChar(d, c)
<1>1. /\ Visible \in Nat \ {0} /\ Cols \in Nat \ {0} /\ Torn \in Nat
      /\ Torn + 1 < Visible + Cols /\ Visible - 1 <= Torn /\ Cols <= Visible
  BY Sizes
<1>2. d.at \in 0 .. Torn /\ d.video \in [Cells -> Characters] /\ d.last \in Seq(Characters)
  BY DEF Displays
<1>3. \A cells, place : StandsAt(cells, place, <<>>)
  BY DEF StandsAt
<1>4. StandsAt(after.video, after.at, after.last)
  <2>1. after.last = LastAfter(d, c)
    BY DEF Drawn
  <2>2. CASE d.at >= Visible \/ c = Newline
    <3>1. after.last = <<>>
      BY <2>1, <2>2 DEF LastAfter
    <3> HIDE DEF after
    <3> QED BY <1>3, <3>1
  <2>3. CASE ~(d.at >= Visible \/ c = Newline)
    <3>1. c # Newline /\ d.at \in Nat /\ d.at \in Cells
      <4> DEFINE all == CardRows * Cols
      <4>1. all \in Nat /\ Visible + Cols <= all /\ Cells = 0 .. all - 1
        BY Sizes DEF Cells
      <4> HIDE DEF all
      <4> QED BY <1>1, <1>2, <2>3, <4>1
    <3>2. /\ after.video = [d.video EXCEPT ![d.at] = IF c = Erase THEN Blank ELSE c]
          /\ after.at = IF c = Erase THEN d.at ELSE d.at + 1
      BY <3>1 DEF Drawn
    <3>3. /\ after.video[d.at] = IF c = Erase THEN Blank ELSE c
          /\ \A p \in 0 .. d.at - 1 : after.video[p] = d.video[p]
      <4> DEFINE all == CardRows * Cols
      <4>1. all \in Nat /\ Cells = 0 .. all - 1
        BY Sizes DEF Cells
      <4> HIDE DEF all
      <4>2. \A p \in 0 .. d.at - 1 : p \in Cells /\ p # d.at
        BY <3>1, <4>1
      <4> HIDE DEF after
      <4> QED BY <1>2, <3>1, <3>2, <4>2
    <3> DEFINE cells == after.video
               row == d.last
               place == d.at
    <3>4. CASE c = Erase
      <4>1. after.last = IF row = <<>> THEN <<>> ELSE Front(row)
        BY <2>1, <2>3, <3>4 DEF LastAfter
      <4>2. CASE row = <<>>
        <5> HIDE DEF after
        <5> QED BY <1>3, <4>1, <4>2
      <4>3. CASE row # <<>> /\ place = 0
        <5>1. after.at = 0 /\ after.last = Front(row) /\ row \in Seq(Characters)
          BY <1>2, <3>2, <3>4, <4>1, <4>3
        <5>2. Front(row) \in Seq(Characters)
          BY <1>2, <4>3 DEF Front
        <5> HIDE DEF after
        <5>3. Len(after.last) \in Nat
          BY <5>1, <5>2
        <5> QED BY <5>1, <5>3 DEF StandsAt
      <4>4. CASE row # <<>> /\ place # 0
        <5>1. StandsAt(d.video, place + 1, row)
          BY <3>4, <4>4
        <5>2. /\ place \in Nat /\ row \in Seq(Characters) /\ row # <<>>
              /\ \A p \in 0 .. place - 1 : cells[p] = d.video[p]
          BY <1>2, <3>1, <3>3, <4>4
        <5>3. after.at = place /\ after.last = Front(row)
          BY <3>2, <3>4, <4>1, <4>4
        <5> HIDE DEF cells, place, row
        <5>4. StandsAt(cells, place, Front(row))
          BY <5>1, <5>2, OneLessShown
        <5> USE DEF cells
        <5> HIDE DEF after
        <5> QED BY <5>3, <5>4
      <4> QED BY <4>2, <4>3, <4>4
    <3>5. CASE c # Erase
      <4>1. after.last = Keep(Append(row, c)) /\ c \in Characters /\ after.at = place + 1
        BY <2>1, <2>3, <3>2, <3>5 DEF LastAfter
      <4>2. /\ place \in Nat /\ row \in Seq(Characters) /\ cells[place] = c
            /\ StandsAt(d.video, place, row)
            /\ \A p \in 0 .. place - 1 : cells[p] = d.video[p]
        BY <1>2, <3>1, <3>3, <3>5
      <4> HIDE DEF cells, place, row
      <4>3. Append(row, c) \in Seq(Characters) /\ StandsAt(cells, place + 1, Append(row, c))
        BY <4>1, <4>2, OneMoreShown
      <4> DEFINE t == Append(row, c)
                 to == place + 1
      <4>4. t \in Seq(Characters) /\ StandsAt(cells, to, t) /\ to \in Int
        BY <4>2, <4>3
      <4> HIDE DEF t, to
      <4>5. StandsAt(cells, to, Keep(t))
        BY <4>4, KeepLast
      <4> USE DEF cells, t, to
      <4> HIDE DEF after
      <4> QED BY <4>1, <4>5
    <3> QED BY <3>4, <3>5
  <2> QED BY <2>2, <2>3
<1>5. /\ after.at \in Nat /\ after.last \in Seq(Characters)
      /\ d.at < Visible => after.at <= Visible
      /\ d.at >= Visible => after.last = <<>>
  BY DrawnDisplay
<1>6. /\ after.at < Visible => new = after
      /\ after.at >= Visible =>
           /\ new.video = Scroll(after.video) /\ new.at = after.at - Cols
           /\ new.last = after.last
  BY PrintCharValue
<1> HIDE DEF after, new
<1>7. CASE after.at < Visible
  <2>1. StandsAt(new.video, new.at, new.last)
    BY <1>4, <1>6, <1>7
  <2> QED BY <2>1 DEF new
<1>8. CASE after.at >= Visible
  <2>1. CASE d.at >= Visible
    <3>1. new.last = <<>>
      BY <1>5, <1>6, <1>8, <2>1
    <3> QED BY <1>3, <3>1 DEF new
  <2>2. CASE d.at < Visible
    <3> DEFINE cells == after.video
               place == after.at
               row == after.last
    <3>1. Cols <= place /\ place <= Visible /\ place \in Nat /\ row \in Seq(Characters)
          /\ StandsAt(cells, place, row)
      BY <1>1, <1>4, <1>5, <1>8, <2>2
    <3> HIDE DEF cells, place, row
    <3>2. StandsAt(Scroll(cells), place - Cols, row)
      BY <3>1, ScrolledLine
    <3>3. new.video = Scroll(cells) /\ new.at = place - Cols /\ new.last = row
      BY <1>6, <1>8 DEF cells, place, row
    <3>4. StandsAt(new.video, new.at, new.last)
      BY <3>2, <3>3
    <3> QED BY <3>4 DEF new
  <2> QED BY <1>1, <1>2, <2>1, <2>2
<1> QED BY <1>1, <1>5, <1>7, <1>8 DEF new
-----------------------------------------------------------------------------
(* kprint_at, character by character.                                      *)
Printed(f, d, m) ==
    /\ f \in [0 .. Len(m) -> Displays] /\ f[0] = d
    /\ \A i \in 1 .. Len(m) : f[i] = PrintChar(f[i - 1], m[i])

Printable(m) ==
    Len(m) \in Nat /\ \A k \in 1 .. Len(m) : m[k] \in Characters \ {Erase}

LEMMA KprintAtValue ==
    ASSUME NEW m, Printable(m), NEW p, NEW last, Display(p, last) \in Displays
    PROVE  \E f : Printed(f, Display(p, last), m) /\ KprintAt(m, p, last) = f[Len(m)]
<1> DEFINE n == Len(m)
           first == Display(p, last)
           V == Displays
           step == [t \in V \X (1 .. n) |-> PrintChar(t[1], m[t[2]])]
           Def(f) == f = [i \in 0 .. n |->
                           IF i = 0 THEN Display(p, last) ELSE PrintChar(f[i - 1], m[i])]
           after[i \in 0 .. n] ==
               IF i = 0 THEN Display(p, last) ELSE PrintChar(after[i - 1], m[i])
<1>1. n \in Nat /\ \A k \in 1 .. n : m[k] \in Characters \cup {Erase}
  BY DEF Printable
<1>2. \A d \in V, k \in 1 .. n : PrintChar(d, m[k]) \in V
  BY <1>1, PrintCharValue
<1>3. Defines(V, first, n, step)
  <2> HIDE DEF V, first, n
  <2>1. \A t \in V \X (1 .. n) : PrintChar(t[1], m[t[2]]) \in V
    BY <1>2
  <2>2. step \in [V \X (1 .. n) -> V]
    BY <2>1
  <2>3. first \in V
    BY DEF first, V
  <2> HIDE DEF step
  <2> QED BY <1>1, <2>2, <2>3 DEF Defines
<1>4. \A d \in V, k \in 1 .. n : step[<<d, k>>] = PrintChar(d, m[k])
  <2> HIDE DEF V, n
  <2> QED OBVIOUS
<1> HIDE DEF step, after, V, n
<1>5. Defined(V, first, n, step)
  <2> HIDE DEF first
  <2> QED BY <1>3, Recursion
<1>6. PICK g \in [0 .. n -> V] :
         g[0] = first /\ \A i \in 1 .. n : g[i] = step[<<g[i - 1], i>>]
  BY <1>5 DEF Defined
<1>7. \A i \in 1 .. n : g[i] = PrintChar(g[i - 1], m[i])
  <2>1. \A i \in 1 .. n : g[i - 1] \in V
    BY <1>1, <1>6
  <2> HIDE DEF first
  <2> QED BY <1>4, <1>6, <2>1
<1>8. Def(g)
  BY <1>1, <1>6, <1>7
<1>9. after = CHOOSE f : Def(f)
  BY DEF after
<1>10. Def(after)
  <2> HIDE DEF Def
  <2> QED BY <1>8, <1>9
<1>11. after[0] = first /\ \A i \in 1 .. n : after[i] = PrintChar(after[i - 1], m[i])
  <2>1. after[0] = first
    BY <1>1, <1>10
  <2>2. ASSUME NEW i \in 1 .. n PROVE after[i] = PrintChar(after[i - 1], m[i])
    <3>1. i \in 0 .. n /\ i # 0
      BY <1>1
    <3> QED BY <1>10, <3>1
  <2> QED BY <2>1, <2>2
<1>12. \A k \in Nat : k \in {x \in Nat : x <= n => after[x] \in V}
  <2> DEFINE S == {x \in Nat : x <= n => after[x] \in V}
  <2>1. 0 \in S
    BY <1>3, <1>11 DEF Defines
  <2>2. ASSUME NEW k \in Nat, k \in S PROVE k + 1 \in S
    <3> SUFFICES ASSUME k + 1 <= n PROVE after[k + 1] \in V
      OBVIOUS
    <3>1. k + 1 \in 1 .. n /\ after[k] \in V /\ k + 1 - 1 = k
      BY <1>1, <2>2
    <3> QED BY <1>2, <1>11, <3>1
  <2> HIDE DEF S
  <2>3. \A k \in Nat : k \in S
    BY <2>1, <2>2, Induction
  <2> QED BY <2>3 DEF S
<1>13. after = [i \in 0 .. n |-> after[i]]
  BY <1>10
<1>14. after \in [0 .. n -> V]
  <2>1. \A k \in 0 .. n : after[k] \in V
    BY <1>1, <1>12
  <2> QED BY <1>13, <2>1
<1>15. Printed(after, first, m)
  <2> HIDE DEF first
  <2> QED BY <1>11, <1>14 DEF Printed, V, n
<1>16. KprintAt(m, p, last) = after[n]
  BY DEF KprintAt, after, n
<1> QED BY <1>15, <1>16 DEF n

(* What kprint_at leaves is a display, on which the line stands that stood *)
(* before it and what it printed.                                          *)
LEMMA KprintAtLine ==
    ASSUME NEW m, Printable(m), NEW p, NEW last, Display(p, last) \in Displays
    PROVE  LET new == KprintAt(m, p, last)
           IN  /\ new \in Displays
               /\ StandsAt(video, p, last) => StandsAt(new.video, new.at, new.last)
<1>1. PICK f : Printed(f, Display(p, last), m) /\ KprintAt(m, p, last) = f[Len(m)]
  BY KprintAtValue
<1> DEFINE n == Len(m)
           Stands(d) == StandsAt(d.video, d.at, d.last)
           S == {k \in Nat : k <= n => Stands(f[k])}
<1>2. /\ n \in Nat /\ \A k \in 0 .. n : f[k] \in Displays
      /\ f[0] = Display(p, last) /\ \A k \in 1 .. n : f[k] = PrintChar(f[k - 1], m[k])
      /\ \A k \in 1 .. n : m[k] \in Characters /\ m[k] # Erase
  BY <1>1 DEF Printed, Printable
<1>3. ASSUME StandsAt(video, p, last) PROVE Stands(f[n])
  <2>1. 0 \in S
    BY <1>2, <1>3 DEF Display
  <2>2. ASSUME NEW k \in Nat, k \in S PROVE k + 1 \in S
    <3> SUFFICES ASSUME k + 1 <= n PROVE Stands(f[k + 1])
      OBVIOUS
    <3>1. k + 1 \in 1 .. n /\ k \in 0 .. n /\ k + 1 - 1 = k
      BY <1>2
    <3> DEFINE d == f[k]
               c == m[k + 1]
    <3>2. d \in Displays /\ c \in Characters /\ c # Erase
          /\ f[k + 1] = PrintChar(d, c) /\ StandsAt(d.video, d.at, d.last)
      BY <1>2, <2>2, <3>1
    <3> HIDE DEF d, c
    <3>3. LET new == PrintChar(d, c) IN StandsAt(new.video, new.at, new.last)
      BY <3>2, PrintCharLine
    <3> QED BY <3>2, <3>3
  <2>3. n \in S
    <3> HIDE DEF S, n
    <3> QED BY <1>2, <2>1, <2>2, Induction
  <2> QED BY <1>2, <2>3
<1> QED BY <1>1, <1>2, <1>3

(* A message that ends on the screen it begins on covers its own cells.    *)
LEMMA KprintAtCovers ==
    ASSUME NEW m, Printable(m), NEW p \in Nat, NEW last, Display(p, last) \in Displays,
           p + Len(m) < Visible, \A k \in 1 .. Len(m) : m[k] # Newline
    PROVE  \A q \in Nat : ~(p <= q /\ q < p + Len(m))
                           => KprintAt(m, p, last).video[q] = video[q]
<1>1. PICK f : Printed(f, Display(p, last), m) /\ KprintAt(m, p, last) = f[Len(m)]
  BY KprintAtValue
<1> DEFINE n == Len(m)
           So(k) == /\ f[k].at = p + k
                    /\ \A q \in Nat : ~(p <= q /\ q < p + k) => f[k].video[q] = video[q]
           S == {k \in Nat : k <= n => So(k)}
<1>2. /\ n \in Nat /\ \A k \in 0 .. n : f[k] \in Displays
      /\ f[0] = Display(p, last) /\ \A k \in 1 .. n : f[k] = PrintChar(f[k - 1], m[k])
      /\ \A k \in 1 .. n : m[k] \in Characters /\ m[k] # Erase /\ m[k] # Newline
      /\ p + n < Visible /\ Visible \in Nat
  BY <1>1, Sizes DEF Printed, Printable
<1>3. 0 \in S
  BY <1>2 DEF Display
<1>4. ASSUME NEW k \in Nat, k \in S PROVE k + 1 \in S
  <2> SUFFICES ASSUME k + 1 <= n PROVE So(k + 1)
    OBVIOUS
  <2>1. k + 1 \in 1 .. n /\ k \in 0 .. n /\ k + 1 - 1 = k /\ p + k + 1 < Visible
    BY <1>2
  <2> DEFINE d == f[k]
             c == m[k + 1]
             after == Drawn(d, c)
  <2>2. /\ d \in Displays /\ c \in Characters /\ c # Erase /\ c # Newline
        /\ f[k + 1] = PrintChar(d, c) /\ So(k)
    BY <1>2, <1>4, <2>1
  <2>3. /\ after.at = d.at + 1 /\ after.video = [d.video EXCEPT ![d.at] = c]
    BY <2>2 DEF Drawn
  <2>4. d.at = p + k /\ \A q \in Nat : ~(p <= q /\ q < p + k) => d.video[q] = video[q]
    BY <2>2
  <2> HIDE DEF d, c, after
  <2>5. after.at < Visible => PrintChar(d, c) = after
    BY <2>2, PrintCharValue DEF after
  <2>6. f[k + 1] = after /\ after.at = p + (k + 1)
    BY <1>2, <2>1, <2>2, <2>3, <2>4, <2>5
  <2>7. d.video \in [Cells -> Characters]
    BY <2>2 DEF Displays
  <2>8. ASSUME NEW q \in Nat, ~(p <= q /\ q < p + (k + 1)) PROVE after.video[q] = video[q]
    <3>1. q # d.at /\ ~(p <= q /\ q < p + k)
      BY <2>4, <2>8
    <3>2. after.video[q] = d.video[q]
      BY <2>3, <2>7, <3>1
    <3> QED BY <2>4, <3>1, <3>2
  <2> QED BY <2>6, <2>8
<1>5. n \in S
  <2> HIDE DEF S, n
  <2> QED BY <1>2, <1>3, <1>4, Induction
<1> QED BY <1>1, <1>2, <1>5
-----------------------------------------------------------------------------
(* The inductive invariant.  The registers hold bytes of positions of the  *)
(* screen, of two different ones perhaps; the data register selected when  *)
(* the low byte is written is the low one, whatever key was echoed before; *)
(* and unless one was, the cursor is on its way to where the line stands.  *)
Points == {"idle", "clear", "select_hi", "write_hi", "select_lo", "write_lo"}

Types ==
    /\ video \in [Cells -> Characters]
    /\ crtc \in [hi : 0 .. HiMax, lo : 0 .. U8 - 1, index : {HiReg, LoReg}]
    /\ doing \in Points
    /\ saved \in 0 .. Torn /\ next \in 0 .. (Rows - 1) * Cols
    /\ disturbed \in BOOLEAN /\ trail \in Seq(Characters)

Restoring ==
    /\ doing = "write_lo" => crtc.index = LoReg
    /\ doing = "write_hi" /\ ~disturbed => crtc.index = HiReg
    /\ doing \in {"select_lo", "write_lo"} /\ ~disturbed => crtc.hi = HighByte(saved)

Lines ==
    /\ doing = "idle" => StandsAt(video, Cursor, trail)
    /\ doing # "idle" /\ ~disturbed => StandsAt(video, saved, trail)
    /\ doing = "clear" => trail = <<>>

IInv == Types /\ Restoring /\ Lines

LEMMA CursorTorn == ASSUME Types PROVE Cursor \in 0 .. Torn
<1>1. crtc.hi \in 0 .. HiMax /\ crtc.lo \in 0 .. U8 - 1
  BY DEF Types
<1>2. HiMax \in Nat /\ U8 \in Nat \ {0} /\ crtc.hi \in Nat /\ crtc.hi <= HiMax
  BY <1>1, Sizes
<1>3. crtc.hi * U8 <= HiMax * U8 /\ crtc.hi * U8 \in Nat /\ HiMax * U8 \in Nat
  BY <1>2, Product
<1> DEFINE a == crtc.hi * U8
           b == HiMax * U8
<1>4. a <= b /\ a \in Nat /\ b \in Nat /\ Cursor = a + crtc.lo /\ Torn = b + U8 - 1
  BY <1>3 DEF Cursor, Torn
<1> HIDE DEF a, b
<1> QED BY <1>1, <1>2, <1>4

(* set_cursor_offset to a position the cursor may have.                    *)
LEMMA Shown ==
    ASSUME NEW d \in Displays, Show(d)
    PROVE  /\ video' = d.video /\ video' \in [Cells -> Characters]
           /\ crtc' \in [hi : 0 .. HiMax, lo : 0 .. U8 - 1, index : {HiReg, LoReg}]
           /\ crtc'.index = LoReg /\ Cursor' = d.at
<1>1. d.at \in 0 .. Torn /\ d.video \in [Cells -> Characters]
  BY DEF Displays
<1>2. /\ (d.at \div U8) % U8 \in 0 .. HiMax /\ d.at % U8 \in 0 .. U8 - 1
      /\ ((d.at \div U8) % U8) * U8 + (d.at % U8) = d.at
  BY <1>1, Bytes
<1>3. video' = d.video
      /\ crtc' = [hi |-> (d.at \div U8) % U8, lo |-> d.at % U8, index |-> LoReg]
  BY DEF Show, Registers
<1>4. Cursor' = ((d.at \div U8) % U8) * U8 + (d.at % U8)
  BY <1>3 DEF Cursor
<1> QED BY <1>1, <1>2, <1>3, <1>4

LEMMA MessagesPrintable == \A m \in Messages : Printable(m)
BY InCharacters DEF Printable

LEMMA InDisplays ==
    ASSUME Types, NEW p \in 0 .. Torn, NEW last \in Seq(Characters)
    PROVE  Display(p, last) \in Displays
BY DEF Types, Display, Displays

LEMMA PlacesOnScreen == Places \subseteq 0 .. Torn
BY Sizes, ScreenAssumption

(* The empty sequence stands everywhere.                                   *)
LEMMA NothingStands == \A cells, place : <<>> \in Seq(Characters) /\ StandsAt(cells, place, <<>>)
BY DEF StandsAt

LEMMA PrintStep ==
    ASSUME IInv, NEW m \in Messages, NEW p \in 0 .. Torn, NEW last \in Seq(Characters),
           StandsAt(video, p, last), doing = "idle",
           Show(KprintAt(m, p, last)), trail' = KprintAt(m, p, last).last,
           UNCHANGED <<doing, saved, next, disturbed>>
    PROVE  IInv'
<1> DEFINE d == KprintAt(m, p, last)
<1>1. Types /\ Printable(m)
  BY MessagesPrintable DEF IInv
<1>2. d \in Displays /\ StandsAt(d.video, d.at, d.last)
  BY <1>1, InDisplays, KprintAtLine
<1> HIDE DEF d
<1>3. /\ video' = d.video /\ video' \in [Cells -> Characters]
      /\ crtc' \in [hi : 0 .. HiMax, lo : 0 .. U8 - 1, index : {HiReg, LoReg}]
      /\ crtc'.index = LoReg /\ Cursor' = d.at
  BY <1>2, Shown DEF d
<1>4. trail' = d.last /\ d.last \in Seq(Characters)
  BY <1>2 DEF d, Displays
<1>5. StandsAt(video', Cursor', trail')
  BY <1>2, <1>3, <1>4
<1>6. Types'
  BY <1>1, <1>3, <1>4 DEF Types
<1>7. Lines' /\ Restoring'
  BY <1>5 DEF Lines, Restoring
<1> QED BY <1>6, <1>7 DEF IInv

LEMMA KprintStep == ASSUME IInv, NEW m \in Messages, Kprint(m) PROVE IInv'
<1>1. Types /\ trail \in Seq(Characters) /\ doing = "idle" /\ StandsAt(video, Cursor, trail)
  BY DEF IInv, Types, Lines, Kprint
<1>2. Cursor \in 0 .. Torn
  BY <1>1, CursorTorn
<1>3. /\ Show(KprintAt(m, Cursor, trail)) /\ trail' = KprintAt(m, Cursor, trail).last
      /\ UNCHANGED <<doing, saved, next, disturbed>>
  BY DEF Kprint
<1> QED BY <1>1, <1>2, <1>3, PrintStep

LEMMA KprintAtPositionStep ==
    ASSUME IInv, NEW m \in Messages, NEW p \in Places, KprintAtPosition(m, p) PROVE IInv'
<1>1. /\ Show(KprintAt(m, p, <<>>)) /\ trail' = KprintAt(m, p, <<>>).last
      /\ UNCHANGED <<doing, saved, next, disturbed>> /\ doing = "idle"
  BY DEF KprintAtPosition
<1>2. p \in 0 .. Torn /\ <<>> \in Seq(Characters) /\ StandsAt(video, p, <<>>)
  BY PlacesOnScreen, NothingStands
<1> QED BY <1>1, <1>2, PrintStep

LEMMA PreserveStartStep ==
    ASSUME IInv, NEW m \in Messages, NEW p \in Places, PreserveStart(m, p) PROVE IInv'
<1> DEFINE d == KprintAt(m, p, <<>>)
<1>1. Types /\ Printable(m) /\ p \in 0 .. Torn /\ Cursor \in 0 .. Torn
  BY MessagesPrintable, PlacesOnScreen, CursorTorn DEF IInv
<1>2. Display(p, <<>>) \in Displays
  BY <1>1, InDisplays, NothingStands
<1>3. d \in Displays
  BY <1>1, <1>2, KprintAtLine
<1>4. /\ doing = "idle" /\ doing' = "select_hi" /\ saved' = Cursor /\ disturbed' = FALSE
      /\ next' = next /\ Show(d)
      /\ trail' = IF Uncovered(m, p) THEN trail ELSE <<>>
  BY DEF PreserveStart
<1>5. StandsAt(video, Cursor, trail) /\ trail \in Seq(Characters)
  BY <1>4 DEF IInv, Lines, Types
<1>6. /\ video' = d.video /\ video' \in [Cells -> Characters]
      /\ crtc' \in [hi : 0 .. HiMax, lo : 0 .. U8 - 1, index : {HiReg, LoReg}]
  BY <1>3, <1>4, Shown
<1>7. StandsAt(video', saved', trail')
  <2>1. CASE ~Uncovered(m, p)
    BY <1>4, <2>1, NothingStands
  <2>2. CASE Uncovered(m, p)
    <3>1. /\ p + Len(m) < Visible /\ Newline \notin ToSet(m)
          /\ p + Len(m) <= Cursor - Len(trail) \/ p >= Cursor
      BY <2>2 DEF Uncovered
    <3>2. \A k \in 1 .. Len(m) : m[k] # Newline
      <4>1. DOMAIN m = 1 .. Len(m)
        BY CharAssumption
      <4> QED BY <3>1, <4>1 DEF ToSet
    <3>3. p \in Nat
      BY <1>1
    <3>4. \A q \in Nat : ~(p <= q /\ q < p + Len(m)) => d.video[q] = video[q]
      BY <1>1, <1>2, <3>1, <3>2, <3>3, KprintAtCovers
    <3>5. Len(m) \in Nat /\ Len(trail) \in Nat /\ Cursor \in Nat
      BY <1>1, <1>5 DEF Printable
    <3> HIDE DEF d
    <3> DEFINE place == Cursor
    <3>6. ASSUME NEW k \in 1 .. Len(trail), place - Len(trail) + k - 1 >= 0
          PROVE  d.video[place - Len(trail) + k - 1] = trail[k]
      <4> DEFINE q == place - Len(trail) + k - 1
      <4>1. q \in Nat /\ ~(p <= q /\ q < p + Len(m))
        <5> HIDE DEF place
        <5>1. place \in Nat /\ (p + Len(m) <= place - Len(trail) \/ p >= place)
          BY <3>1, <3>5 DEF place
        <5> QED BY <3>3, <3>5, <3>6, <5>1
      <4>2. video[q] = trail[k]
        BY <1>5, <3>6 DEF StandsAt
      <4> HIDE DEF q
      <4>3. d.video[q] = trail[k]
        BY <3>4, <4>1, <4>2
      <4> QED BY <4>3 DEF q
    <3>7. StandsAt(d.video, Cursor, trail)
      BY <3>6 DEF StandsAt
    <3>8. trail' = trail /\ saved' = Cursor /\ video' = d.video
      BY <1>4, <1>6, <2>2
    <3> QED BY <3>7, <3>8
  <2> QED BY <2>1, <2>2
<1>8. trail' \in Seq(Characters)
  BY <1>4, <1>5, NothingStands
<1>9. Types'
  BY <1>1, <1>4, <1>6, <1>8 DEF Types, Points
<1>10. Lines' /\ Restoring'
  BY <1>4, <1>7 DEF Lines, Restoring
<1> QED BY <1>9, <1>10 DEF IInv

LEMMA ClearStep == ASSUME IInv, ClearStart \/ ClearCell PROVE IInv'
<1>1. CASE ClearStart
  <2>1. 0 \in 0 .. Torn /\ 0 \in 0 .. (Rows - 1) * Cols
    <3>1. Rows - 1 \in Nat /\ Cols \in Nat /\ Torn \in Nat
      BY Sizes, ScreenAssumption
    <3>2. (Rows - 1) * Cols \in Nat
      BY <3>1
    <3> QED BY <3>1, <3>2
  <2>2. /\ doing' = "clear" /\ next' = 0 /\ saved' = 0 /\ trail' = <<>> /\ disturbed' = FALSE
        /\ video' = video /\ crtc' = crtc
    BY <1>1 DEF ClearStart
  <2>3. Types'
    BY <2>1, <2>2, NothingStands DEF IInv, Types, Points
  <2>4. Lines' /\ Restoring'
    BY <2>2, NothingStands DEF Lines, Restoring
  <2> QED BY <2>3, <2>4 DEF IInv
<1>2. CASE ClearCell
  <2>1. /\ doing = "clear" /\ doing' \in {"clear", "select_hi"} /\ trail = <<>> /\ trail' = <<>>
        /\ crtc' = crtc /\ saved' = saved /\ disturbed' = disturbed
    BY <1>2 DEF ClearCell, IInv, Lines
  <2>2. next' \in 0 .. (Rows - 1) * Cols /\ video' \in [Cells -> Characters]
    <3> DEFINE last == (Rows - 1) * Cols
    <3>1. next \in 0 .. last /\ video \in [Cells -> Characters] /\ last \in Nat
      <4>1. Rows - 1 \in Nat /\ Cols \in Nat
        BY Sizes, ScreenAssumption
      <4> QED BY <4>1 DEF IInv, Types
    <3>2. IF next < last THEN video' = [video EXCEPT ![next] = Blank] /\ next' = next + 1
          ELSE video' = video /\ next' = next
      BY <1>2 DEF ClearCell
    <3> HIDE DEF last
    <3>3. next' \in 0 .. last
      BY <3>1, <3>2
    <3>4. video' \in [Cells -> Characters]
      BY <3>1, <3>2, InCharacters
    <3> QED BY <3>3, <3>4 DEF last
  <2>3. Types'
    BY <2>1, <2>2 DEF IInv, Types, Points
  <2>4. Lines' /\ Restoring'
    BY <2>1, NothingStands DEF Lines, Restoring
  <2> QED BY <2>3, <2>4 DEF IInv
<1> QED BY <1>1, <1>2
(* What the handler prints: the line is lost only while the program sets   *)
(* the cursor or clears the screen.                                        *)
LEMMA EchoStep ==
    ASSUME IInv, NEW d \in Displays, Echo(d),
           doing = "idle" => StandsAt(d.video, d.at, d.last)
    PROVE  IInv'
<1>1. /\ Show(d) /\ doing' = doing /\ saved' = saved /\ next' = next
      /\ doing = "idle" => trail' = d.last /\ disturbed' = disturbed
      /\ doing # "idle" => trail' = trail /\ disturbed' = TRUE
  BY DEF Echo
<1>2. /\ video' = d.video /\ video' \in [Cells -> Characters]
      /\ crtc' \in [hi : 0 .. HiMax, lo : 0 .. U8 - 1, index : {HiReg, LoReg}]
      /\ crtc'.index = LoReg /\ Cursor' = d.at
  BY <1>1, Shown
<1>3. trail' \in Seq(Characters) /\ disturbed' \in BOOLEAN
  BY <1>1 DEF IInv, Types, Displays
<1>4. Types'
  BY <1>1, <1>2, <1>3 DEF IInv, Types
<1>5. Restoring'
  BY <1>1, <1>2 DEF Restoring
<1>6. Lines'
  BY <1>1, <1>2 DEF IInv, Lines
<1> QED BY <1>4, <1>5, <1>6 DEF IInv

LEMMA KeyPrinted ==
    ASSUME IInv, NEW key \in Keys
    PROVE  LET d == KprintAt(<<key>>, Cursor, trail)
           IN  /\ d \in Displays
               /\ StandsAt(video, Cursor, trail) => StandsAt(d.video, d.at, d.last)
<1>1. Printable(<<key>>)
  <2>1. key \in Characters \ {Erase}
    BY InCharacters
  <2> QED BY <2>1 DEF Printable
<1>2. Display(Cursor, trail) \in Displays
  BY CursorTorn, InDisplays DEF IInv, Types
<1> QED BY <1>1, <1>2, KprintAtLine

LEMMA KeyEchoStep == ASSUME IInv, NEW key \in Keys, KeyEcho(key) PROVE IInv'
<1>1. doing = "idle" => StandsAt(video, Cursor, trail)
  BY DEF IInv, Lines
<1>2. Echo(KprintAt(<<key>>, Cursor, trail))
  BY DEF KeyEcho
<1> QED BY <1>1, <1>2, KeyPrinted, EchoStep

LEMMA KprintBackspaceStep == ASSUME IInv, KprintBackspace PROVE IInv'
<1> DEFINE p == IF Cursor = 0 THEN 0 ELSE Cursor - 1
           from == Display(p, trail)
           d == PrintChar(from, Erase)
<1>1. p \in 0 .. Torn /\ (p = 0 \/ p + 1 = Cursor) /\ trail \in Seq(Characters)
  BY CursorTorn, Sizes DEF IInv, Types
<1>2. from \in Displays
  BY <1>1, InDisplays DEF IInv
<1>3. from.video = video /\ from.at = p /\ from.last = trail
  BY DEF Display
<1>4. Echo(d)
  BY DEF KprintBackspace
<1> HIDE DEF p, from
<1>5. d \in Displays
  BY <1>2, PrintCharValue
<1>6. ASSUME doing = "idle" PROVE StandsAt(d.video, d.at, d.last)
  <2>1. StandsAt(video, Cursor, trail)
    BY <1>6 DEF IInv, Lines
  <2>2. from.at = 0 \/ StandsAt(from.video, from.at + 1, from.last)
    BY <1>1, <1>3, <2>1
  <2> QED BY <1>2, <2>2, PrintCharLine
<1> HIDE DEF d
<1> QED BY <1>4, <1>5, <1>6, EchoStep

LEMMA SetCursorOffsetStep == ASSUME IInv, SetCursorOffset PROVE IInv'
<1>1. /\ video \in [Cells -> Characters] /\ saved \in 0 .. Torn
      /\ crtc \in [hi : 0 .. HiMax, lo : 0 .. U8 - 1, index : {HiReg, LoReg}]
      /\ next \in 0 .. (Rows - 1) * Cols /\ 0 \in 0 .. (Rows - 1) * Cols
      /\ disturbed \in BOOLEAN /\ trail \in Seq(Characters)
  <2> DEFINE last == (Rows - 1) * Cols
  <2>1. next \in 0 .. last
    BY DEF IInv, Types
  <2>2. last \in Nat
    BY Sizes, ScreenAssumption
  <2> HIDE DEF last
  <2>3. next \in 0 .. last /\ 0 \in 0 .. last
    BY <2>1, <2>2
  <2> QED BY <2>3 DEF last, IInv, Types
<1>2. /\ HighByte(saved) \in 0 .. HiMax /\ saved % U8 \in 0 .. U8 - 1
      /\ HighByte(saved) * U8 + (saved % U8) = saved /\ HighByte(saved) \in 0 .. U8 - 1
  <2> DEFINE hi == (saved \div U8) % U8
  <2>1. /\ hi \in 0 .. HiMax /\ saved % U8 \in 0 .. U8 - 1
        /\ hi * U8 + (saved % U8) = saved /\ HighByte(saved) = hi
    BY <1>1, Bytes DEF HighByte
  <2> HIDE DEF hi
  <2>2. hi \in 0 .. U8 - 1
    BY <2>1, Sizes
  <2> QED BY <2>1, <2>2
<1>3. crtc = [hi |-> crtc.hi, lo |-> crtc.lo, index |-> crtc.index]
  BY <1>1
<1>4. CASE Select("select_hi", "write_hi", HiReg)
  <2>1. /\ doing' = "write_hi" /\ crtc' = [hi |-> crtc.hi, lo |-> crtc.lo, index |-> HiReg]
        /\ doing = "select_hi" /\ UNCHANGED <<video, saved, next, trail, disturbed>>
    BY <1>3, <1>4 DEF Select
  <2>2. Types' /\ Restoring'
    BY <1>1, <2>1 DEF Types, Restoring, Points
  <2>3. Lines'
    BY <2>1 DEF IInv, Lines
  <2> QED BY <2>2, <2>3 DEF IInv
<1>5. CASE WriteData("write_hi", "select_lo", HighByte(saved))
  <2>1. /\ doing' = "select_lo" /\ doing = "write_hi"
        /\ UNCHANGED <<video, saved, next, trail, disturbed>>
        /\ crtc' = IF crtc.index = HiReg
                   THEN [hi |-> HighByte(saved), lo |-> crtc.lo, index |-> crtc.index]
                   ELSE [hi |-> crtc.hi, lo |-> HighByte(saved), index |-> crtc.index]
    BY <1>3, <1>5 DEF WriteData
  <2>2. Types'
    BY <1>1, <1>2, <2>1 DEF Types, Points
  <2>3. HighByte(saved)' = HighByte(saved)
    BY <2>1 DEF HighByte
  <2>4. Restoring'
    BY <2>1, <2>3 DEF IInv, Restoring
  <2>5. Lines'
    BY <2>1 DEF IInv, Lines
  <2> QED BY <2>2, <2>4, <2>5 DEF IInv
<1>6. CASE Select("select_lo", "write_lo", LoReg)
  <2>1. /\ doing' = "write_lo" /\ crtc' = [hi |-> crtc.hi, lo |-> crtc.lo, index |-> LoReg]
        /\ doing = "select_lo" /\ UNCHANGED <<video, saved, next, trail, disturbed>>
    BY <1>3, <1>6 DEF Select
  <2>2. Types'
    BY <1>1, <2>1 DEF Types, Points
  <2>3. HighByte(saved)' = HighByte(saved)
    BY <2>1 DEF HighByte
  <2>4. Restoring'
    BY <2>1, <2>3 DEF IInv, Restoring
  <2>5. Lines'
    BY <2>1 DEF IInv, Lines
  <2> QED BY <2>2, <2>4, <2>5 DEF IInv
<1>7. CASE WriteData("write_lo", "idle", saved % U8)
  <2>1. doing = "write_lo" /\ crtc.index = LoReg /\ LoReg # HiReg
    BY <1>7 DEF WriteData, IInv, Restoring, LoReg, HiReg
  <2>2. /\ doing' = "idle" /\ video' = video /\ saved' = 0 /\ next' = 0 /\ disturbed' = FALSE
        /\ trail' = IF disturbed THEN <<>> ELSE trail
        /\ crtc' = [hi |-> crtc.hi, lo |-> saved % U8, index |-> LoReg]
    BY <1>3, <1>7, <2>1 DEF WriteData
  <2>3. trail' \in Seq(Characters) /\ 0 \in 0 .. Torn
    BY <1>1, <2>2, NothingStands, Sizes
  <2>4. Types' /\ Restoring'
    BY <1>1, <1>2, <2>2, <2>3 DEF Types, Restoring, Points
  <2>5. ASSUME disturbed PROVE Lines'
    BY <2>2, <2>5, NothingStands DEF Lines
  <2>6. ASSUME ~disturbed PROVE Lines'
    <3>1. crtc.hi = HighByte(saved) /\ StandsAt(video, saved, trail)
      BY <2>1, <2>6 DEF IInv, Restoring, Lines
    <3>2. Cursor' = HighByte(saved) * U8 + (saved % U8)
      BY <2>2, <3>1 DEF Cursor
    <3>3. Cursor' = saved /\ trail' = trail
      BY <1>2, <2>2, <2>6, <3>2
    <3> QED BY <2>2, <3>1, <3>3 DEF Lines
  <2> QED BY <1>1, <2>4, <2>5, <2>6 DEF IInv
<1> QED BY <1>4, <1>5, <1>6, <1>7 DEF SetCursorOffset

LEMMA Initially == ScreenInit => IInv
<1> SUFFICES ASSUME ScreenInit PROVE IInv
  OBVIOUS
<1> DEFINE last == (Rows - 1) * Cols
<1>1. last \in Nat
  BY Sizes, ScreenAssumption
<1> HIDE DEF last
<1>2. 0 \in 0 .. last /\ 0 \in 0 .. Torn /\ 0 \in 0 .. HiMax /\ 0 \in 0 .. U8 - 1
  BY <1>1, Sizes
<1>3. Types
  BY <1>2, InCharacters, NothingStands DEF ScreenInit, Types, Points, last
<1>4. Restoring /\ Lines
  BY NothingStands DEF ScreenInit, Restoring, Lines
<1> QED BY <1>3, <1>4 DEF IInv

LEMMA EveryStep == IInv /\ [ScreenNext]_screenVars => IInv'
<1> SUFFICES ASSUME IInv, [ScreenNext]_screenVars PROVE IInv'
  OBVIOUS
<1>1. ASSUME NEW m \in Messages, Kprint(m) PROVE IInv'
  BY <1>1, KprintStep
<1>2. ASSUME NEW m \in Messages, NEW p \in Places, KprintAtPosition(m, p) PROVE IInv'
  BY <1>2, KprintAtPositionStep
<1>3. ASSUME NEW m \in Messages, NEW p \in Places, PreserveStart(m, p) PROVE IInv'
  BY <1>3, PreserveStartStep
<1>4. CASE ClearStart \/ ClearCell
  BY <1>4, ClearStep
<1>5. CASE SetCursorOffset
  BY <1>5, SetCursorOffsetStep
<1>6. ASSUME NEW key \in Keys, KeyEcho(key) PROVE IInv'
  BY <1>6, KeyEchoStep
<1>7. CASE KprintBackspace
  BY <1>7, KprintBackspaceStep
<1>8. CASE UNCHANGED screenVars
  <2>1. /\ video' = video /\ crtc' = crtc /\ doing' = doing /\ saved' = saved /\ next' = next
        /\ trail' = trail /\ disturbed' = disturbed
    BY <1>8 DEF screenVars
  <2>2. Cursor' = Cursor /\ HighByte(saved)' = HighByte(saved)
    BY <2>1 DEF Cursor, HighByte
  <2>3. Types' /\ Restoring' /\ Lines'
    BY <2>1, <2>2 DEF IInv, Types, Restoring, Lines
  <2> QED BY <2>3 DEF IInv
<1> QED BY <1>1, <1>2, <1>3, <1>4, <1>5, <1>6, <1>7, <1>8 DEF ScreenNext

LEMMA Invariance == ScreenSpec => []IInv
BY Initially, EveryStep, PTL DEF ScreenSpec
-----------------------------------------------------------------------------
(* Every variable keeps its type, the high register never more than the    *)
(* high byte of a position of the screen, so that the cursor is always less*)
(* than a row past the screen, whenever keys are echoed among the register *)
(* writes of set_cursor_offset.                                            *)
THEOREM CursorStaysBounded == ScreenSpec => []CursorBounded
<1>1. IInv => CursorBounded
  <2> SUFFICES ASSUME IInv PROVE CursorBounded
    OBVIOUS
  <2>1. Types
    BY DEF IInv
  <2> DEFINE more == (Rows + 1) * Cols
  <2>2. Cursor \in 0 .. Torn /\ more \in Nat /\ Torn < more
    BY <2>1, CursorTorn, Sizes
  <2>3. HiMax \in Nat /\ U8 \in Nat /\ HiMax < U8 /\ Torn \in Nat
    BY Sizes
  <2>4. saved \in 0 .. Torn /\ crtc \in [hi : 0 .. HiMax, lo : 0 .. U8 - 1, index : {HiReg, LoReg}]
    BY <2>1 DEF Types
  <2> HIDE DEF more
  <2>5. crtc \in [hi : 0 .. U8 - 1, lo : 0 .. U8 - 1, index : {HiReg, LoReg}]
    BY <2>3, <2>4
  <2>6. saved \in 0 .. more - 1 /\ Cursor < more
    BY <2>2, <2>3, <2>4
  <2>7. TypeOK
    BY <2>1, <2>5, <2>6 DEF TypeOK, Types, Points, more
  <2> QED BY <2>6, <2>7 DEF CursorBounded, more
<1> QED BY <1>1, Invariance, PTL

(* What was printed at the cursor since it was last placed stands in front *)
(* of it whenever the program is not inside kprint_at_preserve or          *)
(* clear_screen: through wraps, scrolls, backspaces and messages elsewhere.*)
THEOREM LineStays == ScreenSpec => []LineShown
<1>1. IInv => LineShown
  <2> SUFFICES ASSUME IInv, doing = "idle", NEW k \in 1 .. Len(trail),
                      Cursor - Len(trail) + k - 1 >= 0
               PROVE  video[Cursor - Len(trail) + k - 1] = trail[k]
    BY DEF LineShown
  <2>1. StandsAt(video, Cursor, trail)
    BY DEF IInv, Lines
  <2> QED BY <2>1 DEF StandsAt
<1> QED BY <1>1, Invariance, PTL

(* After a key is echoed the cursor is on the screen, wherever a torn      *)
(* set_cursor_offset had left it.                                          *)
THEOREM CursorComesBack == ScreenSpec => PrintReturns
<1>1. IInv => \A key \in Keys : KeyEcho(key) => Cursor' < Visible
  <2> SUFFICES ASSUME IInv, NEW key \in Keys, KeyEcho(key) PROVE Cursor' < Visible
    OBVIOUS
  <2> DEFINE m == <<key>>
             d == KprintAt(m, Cursor, trail)
  <2>1. d \in Displays /\ Show(d)
    BY KeyPrinted DEF KeyEcho, Echo
  <2>2. Cursor' = d.at
    BY <2>1, Shown
  <2>3. Display(Cursor, trail) \in Displays
    BY CursorTorn, InDisplays DEF IInv, Types
  <2>4. key \in Characters /\ key # Newline /\ key # Erase
    BY InCharacters
  <2>5. Printable(m)
    BY <2>4 DEF Printable
  <2>6. Len(m) = 1 /\ m[1] = key
    OBVIOUS
  <2> HIDE DEF m
  <2>7. PICK f : Printed(f, Display(Cursor, trail), m) /\ d = f[Len(m)]
    BY <2>3, <2>5, KprintAtValue
  <2>8. f[0] = Display(Cursor, trail) /\ f[1] = PrintChar(f[0], m[1])
    BY <2>6, <2>7 DEF Printed
  <2>9. d = PrintChar(Display(Cursor, trail), key)
    BY <2>6, <2>7, <2>8
  <2> HIDE DEF d
  <2>10. d.at < Visible
    BY <2>3, <2>4, <2>9, PrintCharValue
  <2> QED BY <2>2, <2>10
<1>2. IInv /\ [ScreenNext]_screenVars
         => [\A key \in Keys : KeyEcho(key) => Cursor' < Visible]_screenVars
  BY <1>1
<1> QED BY <1>2, Invariance, PTL DEF ScreenSpec, PrintReturns
-----------------------------------------------------------------------------
(* The lines and the words of them.                                        *)

(* Two functions that begin and go on alike are the same.                  *)
Alike(n, f, g) ==
    /\ n \in Nat /\ f = [i \in 0 .. n |-> f[i]] /\ g = [i \in 0 .. n |-> g[i]]
    /\ f[0] = g[0] /\ \A i \in 1 .. n : f[i - 1] = g[i - 1] => f[i] = g[i]

LEMMA SameSteps == ASSUME NEW n, NEW f, NEW g, Alike(n, f, g) PROVE f = g
<1> DEFINE T == {m \in Nat : m <= n => f[m] = g[m]}
<1> USE DEF Alike
<1>1. 0 \in T
  OBVIOUS
<1>2. ASSUME NEW m \in Nat, m \in T PROVE m + 1 \in T
  <2> SUFFICES ASSUME m + 1 <= n PROVE f[m + 1] = g[m + 1]
    OBVIOUS
  <2> DEFINE k == m + 1
  <2>1. f[m] = g[m] /\ k \in 1 .. n /\ k - 1 = m
    BY <1>2
  <2> HIDE DEF k, T
  <2>2. f[k - 1] = g[k - 1]
    BY <2>1
  <2>3. f[k] = g[k]
    BY <2>1, <2>2
  <2> QED BY <2>3 DEF k
<1>3. \A m \in Nat : m \in T
  <2> HIDE DEF T
  <2> QED BY <1>1, <1>2, Induction
<1>4. \A m \in 0 .. n : f[m] = g[m]
  BY <1>3
<1> QED BY <1>4

(* The loop of Delimiters exists, and so does the one of Without.          *)
LEMMA DelimitersLoop ==
    ASSUME NEW S, NEW s \in Seq(S), NEW d
    PROVE  \E found \in [0 .. Len(s) -> Seq(Nat)] :
              /\ found[0] = <<>> /\ Delimiters(s, d) = found[Len(s)]
              /\ \A i \in 1 .. Len(s) :
                   found[i] = IF s[i] = d THEN Append(found[i - 1], i) ELSE found[i - 1]
<1> DEFINE n == Len(s)
           V == Seq(Nat)
           Turn(f, i) == IF s[i] = d THEN Append(f, i) ELSE f
           step == [t \in V \X (1 .. n) |-> Turn(t[1], t[2])]
           found[i \in 0 .. n] ==
               IF i = 0 THEN <<>>
               ELSE IF s[i] = d THEN Append(found[i - 1], i) ELSE found[i - 1]
           Def(f) == f = [i \in 0 .. n |->
                            IF i = 0 THEN <<>>
                            ELSE IF s[i] = d THEN Append(f[i - 1], i) ELSE f[i - 1]]
<1>1. n \in Nat /\ <<>> \in V /\ \A f \in V, i \in 1 .. n : Turn(f, i) \in V
  OBVIOUS
<1>2. Defines(V, <<>>, n, step)
  <2> HIDE DEF n, V, Turn
  <2> QED BY <1>1 DEF Defines
<1>3. \A f \in V, i \in 1 .. n : step[<<f, i>>] = Turn(f, i)
  <2> HIDE DEF n, V, Turn
  <2> QED OBVIOUS
<1>4. PICK g \in [0 .. n -> V] :
         g[0] = <<>> /\ \A i \in 1 .. n : g[i] = Turn(g[i - 1], i)
  <2> HIDE DEF n, V, Turn, step, found, Def
  <2>1. Defined(V, <<>>, n, step)
    BY <1>2, Recursion
  <2>2. PICK h \in [0 .. n -> V] :
           h[0] = <<>> /\ \A i \in 1 .. n : h[i] = step[<<h[i - 1], i>>]
    BY <2>1 DEF Defined
  <2>3. \A i \in 1 .. n : h[i - 1] \in V
    BY <1>1
  <2> QED BY <1>3, <2>2, <2>3
<1>5. Def(g)
  <2> DEFINE Value(i) == IF i = 0 THEN <<>>
                         ELSE IF s[i] = d THEN Append(g[i - 1], i) ELSE g[i - 1]
  <2>1. ASSUME NEW i \in 0 .. n PROVE g[i] = Value(i)
    <3>1. CASE i = 0
      BY <1>4, <3>1
    <3>2. CASE i # 0
      <4>1. i \in 1 .. n
        BY <1>1, <3>2
      <4>2. g[i] = Turn(g[i - 1], i)
        BY <1>4, <4>1
      <4> QED BY <3>2, <4>2
    <3> QED BY <3>1, <3>2
  <2>2. g = [i \in 0 .. n |-> Value(i)]
    <3> HIDE DEF Value, n, V
    <3> QED BY <1>4, <2>1
  <2> QED BY <2>2
<1>6. found = CHOOSE f : Def(f)
  OBVIOUS
<1>7. Def(found)
  <2> HIDE DEF found, Def
  <2> QED BY <1>5, <1>6
<1>8. Delimiters(s, d) = found[n]
  BY DEF Delimiters
<1> HIDE DEF found
<1>10. ASSUME NEW i \in 1 .. n
       PROVE  found[i] = IF s[i] = d THEN Append(found[i - 1], i) ELSE found[i - 1]
  <2>1. i \in 0 .. n /\ i # 0
    BY <1>1
  <2> HIDE DEF n
  <2> QED BY <1>7, <2>1
<1>11. found[0] = <<>> /\ found = [i \in 0 .. n |-> found[i]]
  BY <1>1, <1>7
<1>12. g = [i \in 0 .. n |-> g[i]]
  OBVIOUS
<1>13. ASSUME NEW i \in 1 .. n, found[i - 1] = g[i - 1] PROVE found[i] = g[i]
  <2> HIDE DEF n
  <2>1. g[i] = IF s[i] = d THEN Append(g[i - 1], i) ELSE g[i - 1]
    BY <1>4
  <2> QED BY <1>10, <1>13, <2>1
<1>9. found = g
  <2> HIDE DEF n, Turn, V, Def
  <2>1. Alike(n, found, g)
    BY <1>1, <1>4, <1>11, <1>12, <1>13 DEF Alike
  <2> QED BY <2>1, SameSteps
<1> QED BY <1>4, <1>8, <1>9

(* kept is what the loop of Without keeps of r: nothing of a c, everything *)
(* of a stretch without one.                                               *)
KeptOf(S, r, c, kept) ==
    /\ kept \in [0 .. Len(r) -> Seq(S)] /\ kept[0] = <<>> /\ Without(r, c) = kept[Len(r)]
    /\ \A i \in 1 .. Len(r) :
         kept[i] = IF r[i] = c THEN kept[i - 1] ELSE Append(kept[i - 1], r[i])

LEMMA WithoutLoop ==
    ASSUME NEW S, NEW s \in Seq(S), NEW c
    PROVE  \E kept : KeptOf(S, s, c, kept)
<1> DEFINE n == Len(s)
           V == Seq(S)
           Turn(f, i) == IF s[i] = c THEN f ELSE Append(f, s[i])
           step == [t \in V \X (1 .. n) |-> Turn(t[1], t[2])]
           kept[i \in 0 .. n] ==
               IF i = 0 THEN <<>>
               ELSE IF s[i] = c THEN kept[i - 1] ELSE Append(kept[i - 1], s[i])
           Def(f) == f = [i \in 0 .. n |->
                            IF i = 0 THEN <<>>
                            ELSE IF s[i] = c THEN f[i - 1] ELSE Append(f[i - 1], s[i])]
<1>1. n \in Nat /\ <<>> \in V /\ \A f \in V, i \in 1 .. n : Turn(f, i) \in V
  OBVIOUS
<1>2. Defines(V, <<>>, n, step)
  <2> HIDE DEF n, V, Turn
  <2> QED BY <1>1 DEF Defines
<1>3. \A f \in V, i \in 1 .. n : step[<<f, i>>] = Turn(f, i)
  <2> HIDE DEF n, V, Turn
  <2> QED OBVIOUS
<1>4. PICK g \in [0 .. n -> V] :
         g[0] = <<>> /\ \A i \in 1 .. n : g[i] = Turn(g[i - 1], i)
  <2> HIDE DEF n, V, Turn, step, kept, Def
  <2>1. Defined(V, <<>>, n, step)
    BY <1>2, Recursion
  <2>2. PICK h \in [0 .. n -> V] :
           h[0] = <<>> /\ \A i \in 1 .. n : h[i] = step[<<h[i - 1], i>>]
    BY <2>1 DEF Defined
  <2>3. \A i \in 1 .. n : h[i - 1] \in V
    BY <1>1
  <2> QED BY <1>3, <2>2, <2>3
<1>5. Def(g)
  <2> DEFINE Value(i) == IF i = 0 THEN <<>>
                         ELSE IF s[i] = c THEN g[i - 1] ELSE Append(g[i - 1], s[i])
  <2>1. ASSUME NEW i \in 0 .. n PROVE g[i] = Value(i)
    <3>1. CASE i = 0
      BY <1>4, <3>1
    <3>2. CASE i # 0
      <4>1. i \in 1 .. n
        BY <1>1, <3>2
      <4>2. g[i] = Turn(g[i - 1], i)
        BY <1>4, <4>1
      <4> QED BY <3>2, <4>2
    <3> QED BY <3>1, <3>2
  <2>2. g = [i \in 0 .. n |-> Value(i)]
    <3> HIDE DEF Value, n, V
    <3> QED BY <1>4, <2>1
  <2> QED BY <2>2
<1>6. kept = CHOOSE f : Def(f)
  OBVIOUS
<1>7. Def(kept)
  <2> HIDE DEF kept, Def
  <2> QED BY <1>5, <1>6
<1>8. Without(s, c) = kept[n]
  BY DEF Without
<1> HIDE DEF kept
<1>10. ASSUME NEW i \in 1 .. n
       PROVE  kept[i] = IF s[i] = c THEN kept[i - 1] ELSE Append(kept[i - 1], s[i])
  <2>1. i \in 0 .. n /\ i # 0
    BY <1>1
  <2> HIDE DEF n
  <2> QED BY <1>7, <2>1
<1>11. kept[0] = <<>> /\ kept = [i \in 0 .. n |-> kept[i]]
  BY <1>1, <1>7
<1>12. g = [i \in 0 .. n |-> g[i]]
  OBVIOUS
<1>13. ASSUME NEW i \in 1 .. n, kept[i - 1] = g[i - 1] PROVE kept[i] = g[i]
  <2> HIDE DEF n
  <2>1. g[i] = IF s[i] = c THEN g[i - 1] ELSE Append(g[i - 1], s[i])
    BY <1>4
  <2> QED BY <1>10, <1>13, <2>1
<1>9. kept = g
  <2> HIDE DEF n, Turn, V, Def
  <2>1. Alike(n, kept, g)
    BY <1>1, <1>4, <1>11, <1>12, <1>13 DEF Alike
  <2> QED BY <2>1, SameSteps
<1>14. KeptOf(S, s, c, g)
  BY <1>4, <1>8, <1>9 DEF KeptOf
<1> QED BY <1>14

(* FlattenSeq joins one after the other.                                   *)
LEMMA FlattenLoop ==
    ASSUME NEW S, NEW t \in Seq(Seq(S)), t # <<>>
    PROVE  \E joined \in [1 .. Len(t) -> Seq(S)] :
              /\ joined[1] = t[1] /\ FlattenSeq(t) = joined[Len(t)]
              /\ \A i \in 2 .. Len(t) : joined[i] = joined[i - 1] \o t[i]
<1> DEFINE n == Len(t)
           V == Seq(S)
           step == [p \in V \X (1 .. n) |-> p[1] \o t[p[2]]]
           flatten[i \in 1 .. n] == IF i = 1 THEN t[i] ELSE flatten[i - 1] \o t[i]
           Def(f) == f = [i \in 1 .. n |-> IF i = 1 THEN t[i] ELSE f[i - 1] \o t[i]]
<1>1. n \in Nat \ {0} /\ <<>> \in V
  BY EmptySeq
<1>0. \A i \in 1 .. n : t[i] \in V
  OBVIOUS
<1>2. \A f \in V, i \in 1 .. n : f \o t[i] \in V
  <2> SUFFICES ASSUME NEW f \in V, NEW i \in 1 .. n PROVE f \o t[i] \in V
    OBVIOUS
  <2> QED BY <1>0, ConcatProperties
<1>3. \A f \in V, i \in 1 .. n : step[<<f, i>>] = f \o t[i]
  <2> HIDE DEF n, V
  <2> QED OBVIOUS
<1>4. Defines(V, <<>>, n, step)
  <2> HIDE DEF n, V
  <2> QED BY <1>1, <1>2 DEF Defines
<1>5. PICK h \in [0 .. n -> V] :
         h[0] = <<>> /\ \A i \in 1 .. n : h[i] = h[i - 1] \o t[i]
  <2> HIDE DEF n, V, step, flatten, Def
  <2>1. Defined(V, <<>>, n, step)
    BY <1>4, Recursion
  <2>2. PICK h \in [0 .. n -> V] :
           h[0] = <<>> /\ \A i \in 1 .. n : h[i] = step[<<h[i - 1], i>>]
    BY <2>1 DEF Defined
  <2>3. \A i \in 1 .. n : h[i - 1] \in V
    BY <1>1
  <2> QED BY <1>3, <2>2, <2>3
<1> DEFINE g == [i \in 1 .. n |-> h[i]]
<1>6. g \in [1 .. n -> V] /\ \A i \in 1 .. n : g[i] = h[i]
  <2> HIDE DEF n, V
  <2> QED BY <1>1, <1>5
<1>7. h[1] = t[1]
  <2>1. 1 \in 1 .. n /\ t[1] \in V
    BY <1>0, <1>1
  <2>2. h[1] = h[1 - 1] \o t[1]
    BY <1>5, <2>1, Zenon
  <2>4. 1 - 1 = 0
    OBVIOUS
  <2>3. h[1] = <<>> \o t[1]
    BY <1>5, <2>2, <2>4, Zenon
  <2> QED BY <2>1, <2>3, ConcatEmptySeq
<1>8. ASSUME NEW i \in 2 .. n PROVE g[i] = g[i - 1] \o t[i]
  <2>1. i \in 1 .. n /\ i - 1 \in 1 .. n
    BY <1>1
  <2> HIDE DEF g, n
  <2> QED BY <1>5, <1>6, <2>1
<1>9. Def(g)
  <2> DEFINE Value(i) == IF i = 1 THEN t[i] ELSE g[i - 1] \o t[i]
  <2>1. ASSUME NEW i \in 1 .. n PROVE g[i] = Value(i)
    <3>1. CASE i = 1
      BY <1>6, <1>7, <3>1
    <3>2. CASE i # 1
      <4>1. i \in 2 .. n
        BY <1>1, <3>2
      <4> HIDE DEF g
      <4> QED BY <1>8, <3>2, <4>1
    <3> QED BY <3>1, <3>2
  <2>2. g = [i \in 1 .. n |-> Value(i)]
    <3> HIDE DEF Value, n, V, g
    <3> QED BY <1>6, <2>1
  <2> QED BY <2>2
<1>10. flatten = CHOOSE f : Def(f)
  OBVIOUS
<1>11. Def(flatten)
  <2> HIDE DEF flatten, Def
  <2> QED BY <1>9, <1>10
<1>12. FlattenSeq(t) = flatten[n]
  BY <1>1 DEF FlattenSeq
<1> HIDE DEF flatten, g
<1>13. flatten[1] = t[1]
  <2>1. 1 \in 1 .. n
    BY <1>1
  <2> HIDE DEF n
  <2> QED BY <1>11, <2>1
<1>14. ASSUME NEW i \in 2 .. n PROVE flatten[i] = flatten[i - 1] \o t[i]
  <2>1. i \in 1 .. n /\ i # 1
    BY <1>1
  <2> HIDE DEF n
  <2> QED BY <1>11, <2>1
<1>15. \A i \in 1 .. n : flatten[i] = g[i]
  <2> DEFINE T == {m \in Nat : m + 1 <= n => flatten[m + 1] = g[m + 1]}
  <2>1. 0 \in T
    BY <1>1, <1>6, <1>7, <1>13
  <2>2. ASSUME NEW m \in Nat, m \in T PROVE m + 1 \in T
    <3> SUFFICES ASSUME m + 1 + 1 <= n PROVE flatten[m + 1 + 1] = g[m + 1 + 1]
      OBVIOUS
    <3> DEFINE k == m + 1 + 1
    <3>1. flatten[m + 1] = g[m + 1] /\ k \in 2 .. n /\ k - 1 = m + 1
      BY <1>1, <2>2
    <3> HIDE DEF k, T, n
    <3>2. flatten[k] = flatten[m + 1] \o t[k] /\ g[k] = g[m + 1] \o t[k]
      BY <1>8, <1>14, <3>1
    <3> QED BY <3>1, <3>2 DEF k
  <2>3. \A m \in Nat : m \in T
    <3> HIDE DEF T
    <3> QED BY <2>1, <2>2, Induction
  <2> SUFFICES ASSUME NEW i \in 1 .. n PROVE flatten[i] = g[i]
    OBVIOUS
  <2>4. i - 1 \in T /\ i - 1 + 1 = i
    <3>1. i - 1 \in Nat /\ i - 1 + 1 = i
      BY <1>1
    <3> HIDE DEF T
    <3> QED BY <2>3, <3>1
  <2> QED BY <1>1, <2>4
<1>16. g[1] = t[1] /\ FlattenSeq(t) = g[n]
  BY <1>1, <1>6, <1>7, <1>12, <1>15
<1> QED BY <1>6, <1>8, <1>16
-----------------------------------------------------------------------------
(* p holds the positions of d among the first i of s, in order: between two*)
(* of them, before the first and after the last there is no d.             *)
From(p, k) == IF k = 1 THEN 0 ELSE p[k - 1]
Clear(s, d, a, b) == \A j \in a + 1 .. b - 1 : s[j] # d
MarkAt(s, d, i, p, k) ==
    /\ p[k] \in 1 .. i /\ s[p[k]] = d
    /\ From(p, k) \in Nat /\ From(p, k) < p[k] /\ Clear(s, d, From(p, k), p[k])
Marked(s, d, i, p) ==
    /\ p \in Seq(Nat)
    /\ \A k \in 1 .. Len(p) : MarkAt(s, d, i, p, k)
    /\ From(p, Len(p) + 1) \in 0 .. i /\ Clear(s, d, From(p, Len(p) + 1), i + 1)

LEMMA MarkNext ==
    ASSUME NEW s, NEW d, NEW i \in Nat, NEW p, Marked(s, d, i, p)
    PROVE  Marked(s, d, i + 1, IF s[i + 1] = d THEN Append(p, i + 1) ELSE p)
<1>1. p \in Seq(Nat) /\ Len(p) \in Nat /\ \A k \in 1 .. Len(p) : p[k] \in Nat
  BY DEF Marked
<1>2. CASE s[i + 1] # d
  <2>1. \A k \in 1 .. Len(p) : MarkAt(s, d, i + 1, p, k)
    BY <1>1 DEF Marked, MarkAt
  <2>2. From(p, Len(p) + 1) \in 0 .. i + 1 /\ Clear(s, d, From(p, Len(p) + 1), i + 1 + 1)
    <3> DEFINE a == From(p, Len(p) + 1)
    <3>1. a \in 0 .. i /\ \A j \in a + 1 .. i + 1 - 1 : s[j] # d
      BY DEF Marked, Clear
    <3> HIDE DEF a
    <3>2. ASSUME NEW j \in a + 1 .. i + 1 + 1 - 1 PROVE s[j] # d
      <4>1. CASE j = i + 1
        BY <1>2, <4>1
      <4>2. CASE j # i + 1
        <5>1. j \in a + 1 .. i + 1 - 1
          BY <3>1, <4>2
        <5> QED BY <3>1, <5>1
      <4> QED BY <4>1, <4>2
    <3>3. a \in 0 .. i + 1
      BY <3>1
    <3> QED BY <3>2, <3>3 DEF a, Clear
  <2> QED BY <1>1, <1>2, <2>1, <2>2 DEF Marked
<1>3. CASE s[i + 1] = d
  <2> DEFINE q == Append(p, i + 1)
  <2>1. q \in Seq(Nat) /\ Len(q) = Len(p) + 1 /\ q[Len(p) + 1] = i + 1
        /\ \A k \in 1 .. Len(p) : q[k] = p[k]
    <3>1. i + 1 \in Nat
      OBVIOUS
    <3> QED BY <1>1, <3>1, AppendProperties
  <2> HIDE DEF q
  <2>2. \A k \in 1 .. Len(p) + 1 : From(q, k) = From(p, k)
    <3> SUFFICES ASSUME NEW k \in 1 .. Len(p) + 1, k # 1 PROVE q[k - 1] = p[k - 1]
      BY DEF From
    <3>1. k - 1 \in 1 .. Len(p)
      BY <1>1
    <3> QED BY <2>1, <3>1
  <2>3. ASSUME NEW k \in 1 .. Len(q) PROVE MarkAt(s, d, i + 1, q, k)
    <3>1. CASE k \in 1 .. Len(p)
      <4>1. MarkAt(s, d, i, p, k) /\ q[k] = p[k] /\ From(q, k) = From(p, k)
        BY <1>1, <2>1, <2>2, <3>1 DEF Marked
      <4> QED BY <4>1 DEF MarkAt
    <3>2. CASE k = Len(p) + 1
      <4> DEFINE a == From(p, Len(p) + 1)
      <4>1. From(q, k) = a /\ q[k] = i + 1
        BY <1>1, <2>1, <2>2, <3>2
      <4>2. a \in 0 .. i /\ Clear(s, d, a, i + 1)
        BY DEF Marked
      <4> HIDE DEF a
      <4> QED BY <1>3, <4>1, <4>2 DEF MarkAt
    <3> QED BY <1>1, <2>1, <3>1, <3>2
  <2>4. From(q, Len(q) + 1) = i + 1
    <3>1. Len(q) + 1 # 1 /\ Len(q) + 1 - 1 = Len(p) + 1
      BY <1>1, <2>1
    <3> QED BY <2>1, <3>1 DEF From
  <2>5. From(q, Len(q) + 1) \in 0 .. i + 1 /\ Clear(s, d, From(q, Len(q) + 1), i + 1 + 1)
    BY <2>4 DEF Clear
  <2>6. Marked(s, d, i + 1, q)
    BY <2>1, <2>3, <2>5 DEF Marked
  <2> QED BY <1>3, <2>6 DEF q
<1> QED BY <1>2, <1>3

LEMMA DelimitersMark ==
    ASSUME NEW S, NEW s \in Seq(S), NEW d
    PROVE  Marked(s, d, Len(s), Delimiters(s, d))
<1>1. PICK found \in [0 .. Len(s) -> Seq(Nat)] :
         /\ found[0] = <<>> /\ Delimiters(s, d) = found[Len(s)]
         /\ \A i \in 1 .. Len(s) :
              found[i] = IF s[i] = d THEN Append(found[i - 1], i) ELSE found[i - 1]
  BY DelimitersLoop
<1>2. Len(s) \in Nat
  OBVIOUS
<1> DEFINE T == {m \in Nat : m <= Len(s) => Marked(s, d, m, found[m])}
<1>3. Marked(s, d, 0, <<>>)
  BY DEF Marked, From, Clear
<1>4. 0 \in T
  BY <1>1, <1>3
<1>5. ASSUME NEW m \in Nat, m \in T PROVE m + 1 \in T
  <2> SUFFICES ASSUME m + 1 <= Len(s) PROVE Marked(s, d, m + 1, found[m + 1])
    OBVIOUS
  <2>1. m + 1 \in 1 .. Len(s) /\ m + 1 - 1 = m /\ Marked(s, d, m, found[m])
    BY <1>2, <1>5
  <2>2. found[m + 1] = IF s[m + 1] = d THEN Append(found[m], m + 1) ELSE found[m]
    <3> HIDE DEF T
    <3> QED BY <1>1, <2>1
  <2>3. Marked(s, d, m + 1,
               IF s[m + 1] = d THEN Append(found[m], m + 1) ELSE found[m])
    BY <2>1, MarkNext
  <2> QED BY <2>2, <2>3
<1>6. Len(s) \in T
  <2> HIDE DEF T
  <2> QED BY <1>2, <1>4, <1>5, Induction
<1> QED BY <1>1, <1>6
-----------------------------------------------------------------------------
(* Where the pieces end when the first character is looked at once, and the*)
(* pieces.                                                                 *)
Ends(s, d) == Append(Delimiters(s, d), Len(s) + 1)
EndAt(s, d, e, k) ==
    /\ From(e, k) \in Nat /\ e[k] \in 1 .. Len(s) + 1 /\ From(e, k) < e[k]
    /\ Clear(s, d, From(e, k), e[k])
EndsMarked(s, d, e, m) ==
    /\ m \in Nat /\ e \in Seq(Nat) /\ Len(e) = m + 1 /\ e[m + 1] = Len(s) + 1
    /\ \A k \in 1 .. m + 1 : EndAt(s, d, e, k)
    /\ \A k \in 1 .. m : e[k] \in 1 .. Len(s) /\ s[e[k]] = d
WordAt(s, e, k) == SubSeq(s, From(e, k) + 1, e[k] - 1)

LEMMA EndsMark ==
    ASSUME NEW S, NEW s \in Seq(S), NEW d
    PROVE  EndsMarked(s, d, Ends(s, d), Len(Delimiters(s, d)))
<1> DEFINE p == Delimiters(s, d)
           m == Len(p)
           n == Len(s)
           e == Append(p, n + 1)
<1>1. Marked(s, d, n, p) /\ n \in Nat
  BY DelimitersMark
<1> HIDE DEF p
<1>2. p \in Seq(Nat) /\ m \in Nat /\ n + 1 \in Nat
  BY <1>1 DEF Marked
<1>3. e \in Seq(Nat) /\ Len(e) = m + 1 /\ e[m + 1] = n + 1 /\ \A k \in 1 .. m : e[k] = p[k]
  BY <1>2, AppendProperties
<1> HIDE DEF e, m, n
<1>4. \A k \in 1 .. m + 1 : From(e, k) = From(p, k)
  <2> SUFFICES ASSUME NEW k \in 1 .. m + 1, k # 1 PROVE e[k - 1] = p[k - 1]
    BY DEF From
  <2>1. k - 1 \in 1 .. m
    BY <1>2
  <2> QED BY <1>3, <2>1
<1>5. ASSUME NEW k \in 1 .. m
      PROVE  EndAt(s, d, e, k) /\ e[k] \in 1 .. n /\ s[e[k]] = d
  <2>1. MarkAt(s, d, n, p, k)
    BY <1>1 DEF Marked, m
  <2>2. e[k] = p[k] /\ From(e, k) = From(p, k) /\ Len(s) = n
    BY <1>2, <1>3, <1>4 DEF n
  <2> QED BY <1>1, <2>1, <2>2 DEF MarkAt, EndAt
<1>6. EndAt(s, d, e, m + 1)
  <2> DEFINE a == From(p, m + 1)
  <2>1. a \in 0 .. n /\ Clear(s, d, a, n + 1)
    BY <1>1 DEF Marked, m
  <2>2. From(e, m + 1) = a /\ e[m + 1] = n + 1 /\ Len(s) = n
    BY <1>2, <1>3, <1>4 DEF n
  <2> HIDE DEF a
  <2> QED BY <1>1, <2>1, <2>2 DEF EndAt
<1>7. \A k \in 1 .. m + 1 : EndAt(s, d, e, k)
  BY <1>2, <1>5, <1>6
<1>8. EndsMarked(s, d, e, m)
  BY <1>2, <1>3, <1>5, <1>7 DEF EndsMarked, n
<1> QED BY <1>8 DEF e, m, n, p, Ends

(* A piece's text.                                                         *)
LEMMA PieceText ==
    ASSUME NEW c \in Seq(Nat), NEW s
    PROVE  /\ DOMAIN PiecesAt(c) = 1 .. Len(c)
           /\ \A k \in 1 .. Len(c) :
                /\ PiecesAt(c)[k].len = c[k] - From(c, k)
                /\ Text(s, PiecesAt(c)[k]) = WordAt(s, c, k)
<1> DEFINE Piece(k) == [from |-> From(c, k), len |-> c[k] - From(c, k)]
<1>1. PiecesAt(c) = [k \in 1 .. Len(c) |-> Piece(k)]
  BY DEF PiecesAt, From
<1>2. ASSUME NEW k \in 1 .. Len(c)
      PROVE  PiecesAt(c)[k].len = c[k] - From(c, k) /\ Text(s, PiecesAt(c)[k]) = WordAt(s, c, k)
  <2> DEFINE a == From(c, k)
             b == c[k]
             piece == PiecesAt(c)[k]
  <2>1. a \in Int /\ b \in Int
    <3>1. b \in Int
      OBVIOUS
    <3>2. CASE k = 1
      BY <3>1, <3>2 DEF From
    <3>3. CASE k # 1
      <4>1. k - 1 \in 1 .. Len(c)
        BY <3>3
      <4> QED BY <3>1, <3>3, <4>1 DEF From
    <3> QED BY <3>2, <3>3
  <2>2. piece.from = a /\ piece.len = b - a
    BY <1>1
  <2> HIDE DEF a, b, piece
  <2>3. piece.from + piece.len - 1 = b - 1
    BY <2>1, <2>2
  <2>4. Text(s, piece) = SubSeq(s, a + 1, b - 1)
    BY <2>2, <2>3 DEF Text
  <2> QED BY <2>2, <2>4 DEF a, b, piece, WordAt
<1> QED BY <1>1, <1>2

(* The words of a line that does not begin with a space, and of one that   *)
(* does, which has an empty one more.                                      *)
Doubled(s) == s # <<>> /\ s[1] = Space
Words1(s, e, m) ==
    /\ DOMAIN Words(s) = 1 .. m + 1 /\ Len(StrSplit(s, Space)) = m + 1
    /\ \A k \in 1 .. m + 1 :
          Words(s)[k] = WordAt(s, e, k) /\ StrSplit(s, Space)[k].len > 0
Words2(s, e, m) ==
    /\ DOMAIN Words(s) = 1 .. m + 2 /\ Len(StrSplit(s, Space)) = m + 2
    /\ Words(s)[1] = <<>> /\ StrSplit(s, Space)[1].len = 0
    /\ \A k \in 1 .. m + 1 : Words(s)[k + 1] = WordAt(s, e, k)
    /\ m \in Nat \ {0} /\ e[1] = 1

LEMMA WordsAre ==
    ASSUME NEW S, NEW s \in Seq(S)
    PROVE  LET e == Ends(s, Space)
               m == Len(Delimiters(s, Space))
           IN  IF Doubled(s) THEN Words2(s, e, m) ELSE Words1(s, e, m)
<1> DEFINE p == Delimiters(s, Space)
           e == Ends(s, Space)
           m == Len(Delimiters(s, Space))
           n == Len(s)
           c == Append(Cuts(s, Space), n + 1)
<1>1. EndsMarked(s, Space, e, m) /\ p \in Seq(Nat) /\ n \in Nat /\ m = Len(p)
  BY EndsMark, DelimitersMark DEF Marked
<1>2. StrSplit(s, Space) = PiecesAt(c)
  BY DEF StrSplit
<1>3. ASSUME c \in Seq(Nat)
      PROVE  /\ DOMAIN Words(s) = 1 .. Len(c) /\ Len(StrSplit(s, Space)) = Len(c)
             /\ \A k \in 1 .. Len(c) : /\ Words(s)[k] = WordAt(s, c, k)
                                       /\ StrSplit(s, Space)[k].len = c[k] - From(c, k)
  <2> HIDE DEF c
  <2>1. /\ DOMAIN PiecesAt(c) = 1 .. Len(c)
        /\ \A k \in 1 .. Len(c) : /\ PiecesAt(c)[k].len = c[k] - From(c, k)
                                  /\ Text(s, PiecesAt(c)[k]) = WordAt(s, c, k)
    BY <1>3, PieceText
  <2>2. Words(s) = [k \in 1 .. Len(c) |-> Text(s, PiecesAt(c)[k])]
    BY <1>2, <2>1 DEF Words
  <2>3. Len(PiecesAt(c)) = Len(c)
    BY <1>3 DEF PiecesAt
  <2> QED BY <1>2, <2>1, <2>2, <2>3
<1> HIDE DEF p, m, e, n
<1>4. CASE ~Doubled(s)
  <2>1. c = e
    BY <1>4 DEF Cuts, Doubled, e, n, Ends
  <2>2. c \in Seq(Nat) /\ Len(c) = m + 1 /\ m \in Nat
    BY <1>1, <2>1 DEF EndsMarked
  <2>3. \A k \in 1 .. m + 1 : c[k] - From(c, k) > 0
    <3> SUFFICES ASSUME NEW k \in 1 .. m + 1 PROVE c[k] - From(c, k) > 0
      OBVIOUS
    <3>1. EndAt(s, Space, c, k)
      BY <1>1, <2>1 DEF EndsMarked
    <3> DEFINE a == From(c, k)
               b == c[k]
    <3> HIDE DEF c
    <3>0. Len(s) \in Nat
      OBVIOUS
    <3>2. a \in Nat /\ b \in 1 .. Len(s) + 1 /\ a < b /\ Len(s) \in Nat
      BY <3>0, <3>1 DEF EndAt
    <3> HIDE DEF a, b
    <3>3. b - a > 0
      BY <3>2
    <3> QED BY <3>3 DEF a, b
  <2> HIDE DEF c
  <2> QED BY <1>3, <1>4, <2>1, <2>2, <2>3 DEF Words1, m, e
<1>5. CASE Doubled(s)
  <2> DEFINE q == <<0>> \o p
  <2>1. q \in Seq(Nat) /\ Len(q) = Len(p) + 1 /\ q[1] = 0
        /\ \A k \in 1 .. Len(p) : q[k + 1] = p[k]
    <3>1. 0 \in Nat
      OBVIOUS
    <3> QED BY <1>1, <3>1, PutBefore
  <2>2. c = Append(q, n + 1)
    BY <1>5 DEF Cuts, Doubled, p
  <2> HIDE DEF q
  <2>3. n + 1 \in Nat /\ m \in Nat /\ Len(q) = m + 1
    BY <1>1, <2>1 DEF EndsMarked
  <2>4. c \in Seq(Nat) /\ Len(c) = m + 2 /\ c[m + 2] = n + 1 /\ \A k \in 1 .. m + 1 : c[k] = q[k]
    <3>1. /\ c \in Seq(Nat) /\ Len(c) = Len(q) + 1 /\ c[Len(q) + 1] = n + 1
          /\ \A k \in 1 .. Len(q) : c[k] = q[k]
      <4> DEFINE r == Append(q, n + 1)
      <4>1. /\ r \in Seq(Nat) /\ Len(r) = Len(q) + 1 /\ r[Len(q) + 1] = n + 1
            /\ \A k \in 1 .. Len(q) : r[k] = q[k]
        BY <2>1, <2>3, AppendProperties
      <4>2. c = r
        BY <2>2
      <4> HIDE DEF r, c
      <4> QED BY <4>1, <4>2
    <3>2. Len(q) + 1 = m + 2
      BY <2>3
    <3> QED BY <2>3, <3>1, <3>2
  <2> HIDE DEF c
  <2>5. e = Append(p, n + 1) /\ \A k \in 1 .. m : e[k] = p[k]
    <3>1. e = Append(p, n + 1)
      BY DEF Ends, e, p, n
    <3> QED BY <1>1, <2>3, <3>1, AppendProperties
  <2>6. c[1] = 0 /\ \A k \in 1 .. m + 1 : c[k + 1] = e[k]
    <3>1. c[1] = 0
      BY <2>1, <2>3, <2>4
    <3>2. ASSUME NEW k \in 1 .. m + 1 PROVE c[k + 1] = e[k]
      <4>1. CASE k = m + 1
        <5>1. k + 1 = m + 2 /\ e[m + 1] = n + 1
          BY <1>1, <2>3, <4>1 DEF EndsMarked, n
        <5> QED BY <2>4, <4>1, <5>1
      <4>2. CASE k # m + 1
        <5>1. k \in 1 .. m /\ k + 1 \in 1 .. m + 1
          BY <2>3, <4>2
        <5> QED BY <1>1, <2>1, <2>4, <2>5, <5>1
      <4> QED BY <4>1, <4>2
    <3> QED BY <3>1, <3>2
  <2>7. ASSUME NEW k \in 1 .. m + 1 PROVE From(c, k + 1) = From(e, k)
    <3>1. k + 1 # 1 /\ k + 1 - 1 = k
      OBVIOUS
    <3>2. From(c, k + 1) = c[k]
      BY <3>1 DEF From
    <3>3. CASE k = 1
      BY <2>6, <3>2, <3>3 DEF From
    <3>4. CASE k # 1
      <4>1. k - 1 \in 1 .. m + 1 /\ k - 1 + 1 = k
        BY <2>3, <3>4
      <4> QED BY <2>6, <3>2, <3>4, <4>1 DEF From
    <3> QED BY <3>3, <3>4
  <2>8. ASSUME NEW k \in 1 .. m + 1 PROVE Words(s)[k + 1] = WordAt(s, e, k)
    <3>1. k + 1 \in 1 .. Len(c)
      BY <2>3, <2>4
    <3>2. Words(s)[k + 1] = WordAt(s, c, k + 1)
      BY <1>3, <2>4, <3>1
    <3> QED BY <2>6, <2>7, <3>2 DEF WordAt
  <2>9. Words(s)[1] = <<>> /\ StrSplit(s, Space)[1].len = 0
    <3>1. 1 \in 1 .. Len(c) /\ From(c, 1) = 0 /\ c[1] = 0
      BY <2>3, <2>4, <2>6 DEF From
    <3>2. Words(s)[1] = SubSeq(s, 0 + 1, 0 - 1) /\ StrSplit(s, Space)[1].len = 0 - 0
      BY <1>3, <2>4, <3>1 DEF WordAt
    <3>3. SubSeq(s, 0 + 1, 0 - 1) = <<>>
      BY SubSeqEmpty
    <3> QED BY <3>2, <3>3
  <2>10. m # 0 /\ e[1] = 1
    <3>1. 1 \in 1 .. m + 1 /\ From(e, 1) = 0 /\ EndAt(s, Space, e, 1) /\ n >= 1
      <4>1. n # 0
        BY <1>5, EmptySeq DEF Doubled, n
      <4> QED BY <1>1, <2>3, <4>1 DEF EndsMarked, From
    <3>2. e[1] \in 1 .. n + 1 /\ \A j \in 0 + 1 .. e[1] - 1 : s[j] # Space
      BY <3>1 DEF EndAt, Clear, n
    <3>3. s[1] = Space
      BY <1>5 DEF Doubled
    <3>4. e[1] = 1
      BY <1>1, <3>2, <3>3
    <3>5. m = 0 => e[1] = n + 1
      BY <1>1 DEF EndsMarked, n
    <3> QED BY <1>1, <3>1, <3>4, <3>5
  <2> QED BY <1>3, <1>5, <2>3, <2>4, <2>8, <2>9, <2>10 DEF Words2, m, e
<1> QED BY <1>4, <1>5 DEF m, e
-----------------------------------------------------------------------------
Stretch(r, c, a, b) ==
    a \in 0 .. Len(r) /\ b \in 0 .. Len(r) /\ a <= b /\ Clear(r, c, a, b + 1)

KeepsAll(r, kept, a, b) == kept[b] = kept[a] \o SubSeq(r, a + 1, b)

LEMMA KeepsStretch ==
    ASSUME NEW S, NEW r \in Seq(S), NEW c, NEW kept, KeptOf(S, r, c, kept),
           NEW a, NEW b, Stretch(r, c, a, b)
    PROVE  KeepsAll(r, kept, a, b)
<1> DEFINE n == Len(r)
           Good(j) == kept[a + j] = kept[a] \o SubSeq(r, a + 1, a + j)
           T == {j \in Nat : a + j <= b => Good(j)}
<1>0. a \in 0 .. n /\ b \in 0 .. n /\ a <= b /\ Clear(r, c, a, b + 1)
  BY DEF Stretch
<1>1. n \in Nat /\ kept[a] \in Seq(S) /\ \A i \in 1 .. n : r[i] \in S
  BY <1>0 DEF KeptOf
<1>2. 0 \in T
  <2>1. a + 0 = a /\ SubSeq(r, a + 1, a) = <<>>
    BY <1>0, SubSeqEmpty
  <2>2. kept[a] \o <<>> = kept[a]
    BY <1>1, ConcatEmptySeq
  <2> QED BY <2>1, <2>2
<1>3. ASSUME NEW j \in Nat, j \in T PROVE j + 1 \in T
  <2> SUFFICES ASSUME a + (j + 1) <= b PROVE Good(j + 1)
    <3> HIDE DEF Good
    <3> QED OBVIOUS
  <2> DEFINE k == a + j
             u == a + (j + 1)
             x == SubSeq(r, a + 1, k)
  <2>1. k \in 0 .. n /\ u \in 1 .. n /\ u - 1 = k /\ k <= b /\ u \in a + 1 .. (b + 1) - 1
        /\ a + 1 \in 1 .. n /\ u \in a + 1 .. n
    BY <1>0, <1>1
  <2>2. kept[k] = kept[a] \o x
    <3>1. Good(j)
      <4> HIDE DEF Good
      <4> QED BY <1>3, <2>1
    <3> QED BY <3>1
  <2>3. SubSeq(r, a + 1, u) = x \o <<r[u]>>
    <3> HIDE DEF u, k
    <3>1. SubSeq(r, a + 1, u) = SubSeq(r, a + 1, u - 1) \o <<r[u]>>
      BY <2>1, SubSeqRecursiveSecond
    <3> QED BY <2>1, <3>1
  <2>4. x \in Seq(S)
    <3>1. \A i \in a + 1 .. k : r[i] \in S
      BY <1>0, <1>1, <2>1
    <3> HIDE DEF k
    <3> QED BY <1>0, <2>1, <3>1, SubSeqProperties
  <2> HIDE DEF u, k, x, T
  <2>5. r[u] # c /\ r[u] \in S
    BY <1>0, <1>1, <2>1 DEF Clear
  <2>6. kept[u] = Append(kept[k], r[u])
    BY <2>1, <2>5 DEF KeptOf
  <2>7. kept[k] \in Seq(S)
    BY <2>1 DEF KeptOf
  <2>8. kept[u] = kept[k] \o <<r[u]>>
    BY <2>5, <2>6, <2>7, AppendIsConcat
  <2>9. <<r[u]>> \in Seq(S)
    BY <2>5
  <2>10. (kept[a] \o x) \o <<r[u]>> = kept[a] \o (x \o <<r[u]>>)
    <3> DEFINE v == kept[a]
               w == <<r[u]>>
    <3>1. v \in Seq(S) /\ w \in Seq(S)
      BY <1>1, <2>9
    <3> HIDE DEF v, w
    <3>2. (v \o x) \o w = v \o (x \o w)
      BY <2>4, <3>1, ConcatAssociative
    <3> QED BY <3>2 DEF v, w
  <2>11. kept[u] = kept[a] \o SubSeq(r, a + 1, u)
    BY <2>2, <2>3, <2>8, <2>10
  <2> QED BY <2>11 DEF u
<1>4. b - a \in T
  <2>1. b - a \in Nat
    BY <1>0, <1>1
  <2> HIDE DEF T
  <2> QED BY <1>2, <1>3, <2>1, Induction
<1>5. a + (b - a) = b /\ a + (b - a) <= b
  BY <1>0, <1>1
<1>6. Good(b - a)
  <2> HIDE DEF Good
  <2> QED BY <1>4, <1>5
<1> QED BY <1>5, <1>6 DEF KeepsAll

RestFrom(r, s, i) == r = SubSeq(s, i, Len(s))

(* From one space to the next, what follows the first one is a word.       *)
Joins(s, e, m, r, kept, k) ==
    /\ kept[e[k + 1] - e[1]] = kept[e[k] - e[1]] \o WordAt(s, e, k + 1)
    /\ Len(r) = e[m + 1] - e[1]

LEMMA JoinsWord ==
    ASSUME NEW S, NEW s \in Seq(S), NEW d, NEW e, NEW m, EndsMarked(s, d, e, m),
           m # 0, NEW r \in Seq(S), RestFrom(r, s, e[1]),
           NEW kept, KeptOf(S, r, d, kept),
           NEW k \in 1 .. m
    PROVE  Joins(s, e, m, r, kept, k)
<1> DEFINE f == e[1]
           x == e[k]
           y == e[k + 1]
           n == Len(s)
<1>1. m \in Nat /\ n \in Nat /\ \A i \in 1 .. m + 1 : e[i] \in 1 .. n + 1
  BY DEF EndsMarked, EndAt
<1>2. f \in 1 .. n /\ x \in 1 .. n /\ s[x] = d /\ y \in 1 .. n + 1 /\ e[m + 1] = n + 1
  <2>1. 1 \in 1 .. m /\ k + 1 \in 1 .. m + 1
    BY <1>1
  <2> QED BY <1>1, <2>1 DEF EndsMarked
<1>3. x < y /\ Clear(s, d, x, y) /\ WordAt(s, e, k + 1) = SubSeq(s, x + 1, y - 1)
  <2>1. k + 1 \in 1 .. m + 1 /\ k + 1 # 1 /\ k + 1 - 1 = k
    BY <1>1
  <2>2. From(e, k + 1) = x
    BY <2>1 DEF From
  <2>3. EndAt(s, d, e, k + 1)
    BY <2>1 DEF EndsMarked
  <2> QED BY <2>2, <2>3 DEF EndAt, WordAt
<1>4. f <= x
  <2> DEFINE T == {i \in Nat : i + 1 <= m => f <= e[i + 1]}
  <2>1. 0 \in T
    BY <1>2
  <2>2. ASSUME NEW i \in Nat, i \in T PROVE i + 1 \in T
    <3> SUFFICES ASSUME i + 1 + 1 <= m PROVE f <= e[i + 1 + 1]
      OBVIOUS
    <3> DEFINE j == i + 1 + 1
    <3>1. f <= e[i + 1] /\ j \in 1 .. m + 1 /\ j # 1 /\ j - 1 = i + 1 /\ i + 1 \in 1 .. m + 1
      BY <1>1, <2>2
    <3> HIDE DEF j, T
    <3>2. EndAt(s, d, e, j)
      BY <3>1 DEF EndsMarked
    <3>3. e[i + 1] < e[j] /\ e[j] \in 1 .. n + 1 /\ e[i + 1] \in 1 .. n + 1
      BY <1>1, <3>1, <3>2 DEF EndAt, From
    <3>4. f \in Nat /\ e[i + 1] \in Nat /\ e[j] \in Nat
      <4> HIDE DEF f
      <4>1. n \in Nat /\ f \in 1 .. n
        BY <1>1, <1>2
      <4> HIDE DEF n
      <4> QED BY <3>3, <4>1
    <3>5. f <= e[j]
      <4> HIDE DEF f
      <4> QED BY <3>1, <3>3, <3>4
    <3> QED BY <3>5 DEF j
  <2>3. k - 1 \in T /\ k - 1 + 1 = k
    <3>1. k - 1 \in Nat /\ k - 1 + 1 = k
      BY <1>1
    <3> HIDE DEF T
    <3> QED BY <2>1, <2>2, <3>1, Induction
  <2> QED BY <1>1, <2>3
<1>5. Len(r) = (n + 1) - f /\ \A q \in 1 .. (n + 1) - f : r[q] = s[f + q - 1]
  <2>1. \A i \in f .. n : s[i] \in S
    BY <1>1, <1>2
  <2> HIDE DEF f, n
  <2>2. r = SubSeq(s, f, n)
    BY DEF f, n, RestFrom
  <2>3. Len(SubSeq(s, f, n)) = (IF f <= n THEN n - f + 1 ELSE 0)
        /\ \A i \in 1 .. n - f + 1 : SubSeq(s, f, n)[i] = s[f + i - 1]
    BY <1>1, <1>2, <2>1, SubSeqProperties
  <2>4. n - f + 1 = (n + 1) - f /\ f <= n
    BY <1>1, <1>2
  <2> QED BY <2>2, <2>3, <2>4
<1> HIDE DEF f, x, y, n
<1> DEFINE a == x - f
           b == y - f
<1>6. a \in 0 .. Len(r) /\ b \in 0 .. Len(r) /\ a + 1 \in 0 .. Len(r) /\ a + 1 <= b
      /\ a + 1 \in 1 .. (n + 1) - f /\ f + (a + 1) - 1 = x /\ a + 1 - 1 = a /\ Len(r) \in Nat
  BY <1>1, <1>2, <1>3, <1>4, <1>5
<1>7. kept[a + 1] = kept[a]
  <2> DEFINE q == a + 1
  <2>1. r[q] = d /\ q \in 1 .. Len(r) /\ q - 1 = a
    BY <1>2, <1>5, <1>6
  <2> HIDE DEF q, a
  <2>2. kept[q] = kept[a]
    BY <2>1 DEF KeptOf
  <2> QED BY <2>2 DEF q
<1> DEFINE u == a + 1
<1>8. u \in 0 .. Len(r) /\ b \in 0 .. Len(r) /\ u <= b /\ Clear(r, d, u, b + 1)
  <2>1. ASSUME NEW q \in u + 1 .. (b + 1) - 1 PROVE r[q] # d
    <3>1. q \in 1 .. (n + 1) - f /\ f + q - 1 \in x + 1 .. y - 1
      BY <1>1, <1>2, <1>4, <1>5, <1>6
    <3>2. r[q] = s[f + q - 1]
      BY <1>5, <3>1
    <3> QED BY <1>3, <3>1, <3>2 DEF Clear
  <2>2. u \in 0 .. Len(r) /\ b \in 0 .. Len(r) /\ u <= b
    BY <1>6
  <2> HIDE DEF u, b
  <2>3. Clear(r, d, u, b + 1)
    BY <2>1 DEF Clear
  <2> QED BY <2>2, <2>3
<1>9. kept[b] = kept[a + 1] \o SubSeq(r, a + 1 + 1, b)
  <2>1. KeptOf(S, r, d, kept)
    OBVIOUS
  <2> HIDE DEF u, b
  <2>2. kept[b] = kept[u] \o SubSeq(r, u + 1, b)
    <3>1. Stretch(r, d, u, b)
      BY <1>8 DEF Stretch
    <3>2. r \in Seq(S)
      OBVIOUS
    <3>3. KeepsAll(r, kept, u, b)
      BY <2>1, <3>1, <3>2, KeepsStretch
    <3> QED BY <3>3 DEF KeepsAll
  <2> QED BY <2>2 DEF u
<1>10. SubSeq(r, a + 1 + 1, b) = SubSeq(s, x + 1, y - 1)
  <2> DEFINE q == a + 1 + 1
  <2>1. CASE q > b
    <3>1. x + 1 > y - 1 /\ x + 1 \in Int /\ y - 1 \in Int /\ q \in Int /\ b \in Int
      BY <1>1, <1>2, <2>1
    <3> HIDE DEF q, b
    <3>2. SubSeq(r, q, b) = <<>>
      BY <2>1, <3>1, SubSeqEmpty
    <3>3. SubSeq(s, x + 1, y - 1) = <<>>
      BY <3>1, SubSeqEmpty
    <3> QED BY <3>2, <3>3 DEF q
  <2>2. CASE q <= b
    <3>0. /\ f \in 1 .. n /\ n \in 1 .. n
          /\ q \in 1 .. n - f + 1 /\ b \in 1 .. n - f + 1
          /\ f + q - 1 = x + 1 /\ f + b - 1 = y - 1
      BY <1>1, <1>2, <1>4, <2>2
    <3> HIDE DEF q, b
    <3>1. /\ f \in 1 .. Len(s) /\ Len(s) \in 1 .. Len(s)
          /\ q \in 1 .. Len(s) - f + 1 /\ b \in 1 .. Len(s) - f + 1
          /\ f + q - 1 = x + 1 /\ f + b - 1 = y - 1
      BY <3>0 DEF n
    <3>2. SubSeq(SubSeq(s, f, Len(s)), q, b) = SubSeq(s, f + q - 1, f + b - 1)
      BY <3>1, SubSeqOfSubSeq
    <3>3. r = SubSeq(s, f, Len(s))
      BY DEF f, RestFrom
    <3> QED BY <3>1, <3>2, <3>3 DEF q
  <2>3. q > b \/ q <= b
    BY <1>1, <1>2
  <2> HIDE DEF q, b
  <2> QED BY <2>1, <2>2, <2>3
<1>11. kept[b] = kept[a] \o WordAt(s, e, k + 1)
  BY <1>3, <1>7, <1>9, <1>10
<1>12. Len(r) = e[m + 1] - f
  <2>1. Len(r) = (n + 1) - f /\ e[m + 1] = n + 1
    BY <1>2, <1>5
  <2> QED BY <2>1, Zenon
<1> QED BY <1>11, <1>12 DEF f, x, y, Joins

LEMMA WordType ==
    ASSUME NEW S, NEW s \in Seq(S), NEW d, NEW e, NEW m, EndsMarked(s, d, e, m),
           NEW k \in 1 .. m + 1
    PROVE  WordAt(s, e, k) \in Seq(S)
<1> DEFINE a == From(e, k) + 1
           b == e[k] - 1
<1>1. a \in Int /\ b \in Int /\ \A i \in a .. b : i \in 1 .. Len(s)
  <2>1. EndAt(s, d, e, k) /\ Len(s) \in Nat
    BY DEF EndsMarked
  <2> QED BY <2>1 DEF EndAt
<1>2. \A i \in 1 .. Len(s) : s[i] \in S
  OBVIOUS
<1> HIDE DEF a, b
<1>3. SubSeq(s, a, b) \in Seq(S)
  BY <1>1, <1>2, SubSeqProperties
<1> QED BY <1>3 DEF a, b, WordAt

(* The words from the (1 + off)-th on, joined.                             *)
WordsFrom(s, e, m, off, t) ==
    /\ off \in {0, 1} /\ Len(t) = (m + 1) - off /\ t # <<>>
    /\ \A k \in 1 .. Len(t) : t[k] = WordAt(s, e, k + off)

LEMMA JoinedIsWithout ==
    ASSUME NEW S, NEW s \in Seq(S), NEW d, NEW e, NEW m, EndsMarked(s, d, e, m),
           m # 0, NEW r \in Seq(S), RestFrom(r, s, e[1]), NEW off,
           NEW t \in Seq(Seq(S)), WordsFrom(s, e, m, off, t),
           off = 0 => e[1] = 1
    PROVE  FlattenSeq(t) = Without(r, d) /\ FlattenSeq(t) \in Seq(S)
<1>1. m \in Nat /\ m # 0 /\ off \in {0, 1} /\ Len(t) \in Nat /\ Len(t) = (m + 1) - off
      /\ t # <<>> /\ Len(t) >= 1
  <2>1. m \in Nat /\ off \in {0, 1} /\ Len(t) \in Nat /\ Len(t) = (m + 1) - off /\ t # <<>>
    BY DEF EndsMarked, WordsFrom
  <2>2. Len(t) # 0
    BY <2>1, EmptySeq
  <2> QED BY <2>1, <2>2
<1>2. PICK kept : KeptOf(S, r, d, kept)
  BY WithoutLoop
<1>3. PICK joined \in [1 .. Len(t) -> Seq(S)] :
         /\ joined[1] = t[1] /\ FlattenSeq(t) = joined[Len(t)]
         /\ \A i \in 2 .. Len(t) : joined[i] = joined[i - 1] \o t[i]
  BY <1>1, FlattenLoop
<1> DEFINE f == e[1]
           K(k) == kept[e[k] - f]
<1>4. ASSUME NEW k \in 1 .. m PROVE K(k + 1) = K(k) \o WordAt(s, e, k + 1)
  <2>1. Joins(s, e, m, r, kept, k)
    BY <1>1, <1>2, JoinsWord
  <2> QED BY <2>1 DEF Joins
<1>5. Len(r) = e[m + 1] - f
  <2>1. 1 \in 1 .. m
    BY <1>1
  <2>2. Joins(s, e, m, r, kept, 1)
    BY <1>1, <1>2, <2>1, JoinsWord
  <2> QED BY <2>2 DEF Joins
<1>6. K(1) = <<>>
  <2>1. f \in Int
    <3>1. EndAt(s, d, e, 1)
      BY <1>1 DEF EndsMarked
    <3> QED BY <3>1 DEF EndAt
  <2>2. f - f = 0
    BY <2>1
  <2> QED BY <1>2, <2>2 DEF KeptOf
<1>7. joined[1] = K(1 + off)
  <2>1. t[1] = WordAt(s, e, 1 + off)
    BY <1>1 DEF WordsFrom
  <2>2. CASE off = 0
    <3>1. From(e, 1) = 0 /\ e[1] = 1
      BY <2>2 DEF From
    <3>2. WordAt(s, e, 1) = SubSeq(s, 0 + 1, 1 - 1)
      BY <3>1 DEF WordAt
    <3>3. SubSeq(s, 0 + 1, 1 - 1) = <<>>
      BY SubSeqEmpty
    <3>4. 1 + off = 1
      BY <2>2
    <3> HIDE DEF K
    <3> QED BY <1>3, <1>6, <2>1, <3>2, <3>3, <3>4
  <2>3. CASE off = 1
    <3>1. 1 + off = 2 /\ 1 + 1 = 2 /\ 1 \in 1 .. m /\ 2 \in 1 .. m + 1
      BY <1>1, <2>3
    <3>2. WordAt(s, e, 2) \in Seq(S)
      BY <3>1, WordType
    <3> HIDE DEF K
    <3>3. K(2) = <<>> \o WordAt(s, e, 2)
      BY <1>4, <1>6, <3>1
    <3>4. K(2) = WordAt(s, e, 2)
      BY <3>2, <3>3, ConcatEmptySeq
    <3> QED BY <1>3, <2>1, <3>1, <3>4
  <2> QED BY <1>1, <2>2, <2>3
<1> HIDE DEF K
<1> DEFINE Good(i) == joined[i + 1] = K(i + 1 + off)
           T == {i \in Nat : i + 1 <= Len(t) => Good(i)}
<1>8. 0 \in T
  <2>1. 0 + 1 = 1
    OBVIOUS
  <2> QED BY <1>7, <2>1
<1>9. ASSUME NEW i \in Nat, i \in T PROVE i + 1 \in T
  <2> SUFFICES ASSUME i + 1 + 1 <= Len(t) PROVE Good(i + 1)
    <3> HIDE DEF Good
    <3> QED OBVIOUS
  <2>1. joined[i + 1] = K(i + 1 + off)
    <3>1. Good(i)
      <4> HIDE DEF Good
      <4> QED BY <1>1, <1>9
    <3> QED BY <3>1
  <2> DEFINE j == i + 1 + 1
             k == i + 1 + off
  <2>2. j \in 2 .. Len(t) /\ j \in 1 .. Len(t) /\ j - 1 = i + 1 /\ k \in 1 .. m
        /\ j + off = k + 1
    BY <1>1
  <2>3. Good(i + 1) <=> joined[j] = K(j + off)
    OBVIOUS
  <2> HIDE DEF j, k, T, Good
  <2>4. joined[j] = joined[i + 1] \o t[j]
    BY <1>3, <2>2
  <2>5. t[j] = WordAt(s, e, k + 1)
    BY <2>2 DEF WordsFrom
  <2>6. K(k + 1) = K(k) \o WordAt(s, e, k + 1)
    BY <1>4, <2>2
  <2>7. joined[i + 1] = K(k)
    BY <2>1 DEF k
  <2>8. joined[j] = K(j + off)
    BY <2>2, <2>4, <2>5, <2>6, <2>7
  <2> QED BY <2>3, <2>8
<1>10. joined[Len(t)] = K(m + 1)
  <2> DEFINE i == Len(t) - 1
  <2>1. i \in Nat /\ i + 1 = Len(t) /\ i + 1 + off = m + 1
    BY <1>1
  <2>2. i \in T
    <3> HIDE DEF i, T
    <3> QED BY <1>8, <1>9, <2>1, Induction
  <2> HIDE DEF i
  <2>3. Good(i)
    <3> HIDE DEF Good
    <3> QED BY <1>1, <2>1, <2>2
  <2> QED BY <2>1, <2>3
<1>11. K(m + 1) = Without(r, d)
  BY <1>2, <1>5 DEF KeptOf, K
<1>12. joined[Len(t)] \in Seq(S)
  BY <1>1, <1>3
<1> QED BY <1>3, <1>10, <1>11, <1>12
-----------------------------------------------------------------------------
(* What is before the first space, and what follows it.                    *)
SpaceAt(s) == SelectInSeq(s, LAMBDA c : c = Space)
RestOf(s) == IF SpaceAt(s) = 0 THEN <<>> ELSE SubSeq(s, SpaceAt(s), Len(s))
FirstWord(s) == IF SpaceAt(s) = 0 THEN s ELSE SubSeq(s, 1, SpaceAt(s) - 1)

LEMMA SpaceIs ==
    ASSUME NEW S, NEW s \in Seq(S)
    PROVE  /\ SpaceAt(s) \in 0 .. Len(s)
           /\ SpaceAt(s) = 0 => \A j \in 1 .. Len(s) : s[j] # Space
           /\ SpaceAt(s) # 0 => /\ s[SpaceAt(s)] = Space
                               /\ \A j \in 1 .. SpaceAt(s) - 1 : s[j] # Space
<1> DEFINE n == Len(s)
           I == {j \in 1 .. n : s[j] = Space}
           i == SpaceAt(s)
<1>1. n \in Nat /\ I \in SUBSET (1 .. n)
  OBVIOUS
<1>2. i = IF I # {} THEN Min(I) ELSE 0
  BY DEF SpaceAt, SelectInSeq
<1>3. /\ i = 0 => I = {}
      /\ i # 0 => i \in I /\ i \in 1 .. n /\ \A j \in 1 .. n : j < i => j \notin I
  <2> HIDE DEF I, n, i
  <2> QED BY <1>1, <1>2, FirstIndex
<1>4. i # 0 => \A j \in 1 .. i - 1 : j \in 1 .. n /\ j < i
  BY <1>1, <1>3
<1> QED BY <1>1, <1>3, <1>4

LEMMA SpaceIsEnd ==
    ASSUME NEW S, NEW s \in Seq(S), NEW e, NEW m, EndsMarked(s, Space, e, m)
    PROVE  /\ m = 0 <=> SpaceAt(s) = 0
           /\ m # 0 => SpaceAt(s) = e[1] /\ e[1] \in 1 .. Len(s)
           /\ WordAt(s, e, 1) = FirstWord(s)
<1> DEFINE n == Len(s)
           i == SpaceAt(s)
<1>1. m \in Nat /\ n \in Nat /\ EndAt(s, Space, e, 1) /\ From(e, 1) = 0 /\ e[m + 1] = n + 1
  BY DEF EndsMarked, From
<1>2. e[1] \in 1 .. n + 1 /\ \A j \in 0 + 1 .. e[1] - 1 : s[j] # Space
  BY <1>1 DEF EndAt, Clear
<1>3. /\ i \in 0 .. n
      /\ i = 0 => \A j \in 1 .. n : s[j] # Space
      /\ i # 0 => s[i] = Space /\ \A j \in 1 .. i - 1 : s[j] # Space
  BY SpaceIs
<1> HIDE DEF i
<1>4. CASE m = 0
  <2>1. e[1] = n + 1
    BY <1>1, <1>4
  <2>2. i = 0
    BY <1>1, <1>2, <1>3, <2>1
  <2>3. WordAt(s, e, 1) = SubSeq(s, 1, n)
    <3>1. 0 + 1 = 1 /\ (n + 1) - 1 = n
      BY <1>1
    <3> QED BY <1>1, <2>1, <3>1 DEF WordAt
  <2>4. WordAt(s, e, 1) = s
    BY <2>3, SubSeqFull
  <2> QED BY <1>4, <2>2, <2>4 DEF i, FirstWord
<1>5. CASE m # 0
  <2>1. e[1] \in 1 .. n /\ s[e[1]] = Space
    <3>1. 1 \in 1 .. m
      BY <1>1, <1>5
    <3> QED BY <3>1 DEF EndsMarked
  <2>2. i # 0
    BY <1>3, <2>1
  <2>3. ~(i < e[1]) /\ ~(e[1] < i)
    BY <1>1, <1>2, <1>3, <2>1, <2>2
  <2>4. i = e[1]
    BY <1>1, <1>3, <2>1, <2>3
  <2>5. WordAt(s, e, 1) = SubSeq(s, 1, e[1] - 1)
    <3>1. 0 + 1 = 1
      OBVIOUS
    <3> QED BY <1>1, <3>1 DEF WordAt
  <2> QED BY <1>5, <2>1, <2>2, <2>4, <2>5 DEF i, FirstWord
<1> QED BY <1>4, <1>5

LEMMA SplitOf ==
    ASSUME NEW S, NEW s \in Seq(S)
    PROVE  /\ Words(s) # <<>> /\ Head(Words(s)) = FirstWord(s)
           /\ SplitStays(s, Space) <=> SpaceAt(s) # 1
           /\ ArgsOf(s) = Without(RestOf(s), Space) /\ ArgsOf(s) \in Seq(S)
<1> DEFINE p == Delimiters(s, Space)
           e == Ends(s, Space)
           m == Len(p)
           w == Words(s)
           i == SpaceAt(s)
           t == Tail(w)
           r == SubSeq(s, i, Len(s))
<1>1. EndsMarked(s, Space, e, m) /\ Len(s) \in Nat
  BY EndsMark
<1>2. IF Doubled(s) THEN Words2(s, e, m) ELSE Words1(s, e, m)
  BY WordsAre
<1> HIDE DEF e, p
<1>3. m \in Nat
  BY <1>1 DEF EndsMarked
<1>4. /\ m = 0 <=> i = 0
      /\ m # 0 => i = e[1] /\ e[1] \in 1 .. Len(s)
      /\ WordAt(s, e, 1) = FirstWord(s)
  BY <1>1, SpaceIsEnd
<1>5. \A k \in 1 .. m + 1 : WordAt(s, e, k) \in Seq(S)
  BY <1>1, WordType
<1>6. ArgsOf(s) = FlattenSeq(t)
  BY DEF ArgsOf
<1>7. i # 0 => r \in Seq(S) /\ RestFrom(r, s, i) /\ RestOf(s) = r
  <2> SUFFICES ASSUME i # 0 PROVE r \in Seq(S) /\ RestFrom(r, s, i) /\ RestOf(s) = r
    OBVIOUS
  <2>1. i \in 1 .. Len(s)
    BY <1>4
  <2>2. \A j \in i .. Len(s) : s[j] \in S
    BY <2>1
  <2> HIDE DEF i
  <2>3. r \in Seq(S)
    BY <1>1, <2>1, <2>2, SubSeqProperties
  <2> QED BY <2>3 DEF RestFrom, RestOf, i
<1>8. SplitStays(s, Space) <=>
         /\ Len(StrSplit(s, Space)) <= m + 1
         /\ \A k \in DOMAIN StrSplit(s, Space) : StrSplit(s, Space)[k].len > 0
  BY DEF SplitStays, p
<1>9. DOMAIN StrSplit(s, Space) = DOMAIN w
  BY DEF Words
<1> DEFINE N == IF Doubled(s) THEN m + 2 ELSE m + 1
<1>10. DOMAIN w = 1 .. N /\ N \in Nat \ {0}
  BY <1>2, <1>3 DEF Words1, Words2
<1>11. w \in Seq(Seq(S)) /\ Len(w) = N
  <2>1. ASSUME NEW k \in 1 .. N PROVE w[k] \in Seq(S)
    <3>1. CASE Doubled(s)
      <4>1. CASE k = 1
        <5>1. w[1] = <<>>
          BY <1>2, <3>1 DEF Words2
        <5>2. <<>> \in Seq(S)
          OBVIOUS
        <5> QED BY <4>1, <5>1, <5>2
      <4>2. CASE k # 1
        <5>1. k - 1 \in 1 .. m + 1 /\ k - 1 + 1 = k
          BY <1>3, <3>1, <4>2
        <5>2. w[k - 1 + 1] = WordAt(s, e, k - 1)
          BY <1>2, <3>1, <5>1 DEF Words2
        <5> QED BY <1>5, <5>1, <5>2
      <4> QED BY <4>1, <4>2
    <3>2. CASE ~Doubled(s)
      <4>1. w[k] = WordAt(s, e, k)
        BY <1>2, <3>2 DEF Words1
      <4> QED BY <1>5, <3>2, <4>1
    <3> QED BY <3>1, <3>2
  <2>2. w = [k \in 1 .. N |-> w[k]]
    <3>1. w = [k \in DOMAIN w |-> w[k]]
      BY DEF Words
    <3> QED BY <1>10, <3>1
  <2> HIDE DEF N, w
  <2>3. [k \in 1 .. N |-> w[k]] \in Seq(Seq(S))
    BY <1>10, <2>1, IsASeq
  <2>4. w \in Seq(Seq(S))
    BY <2>2, <2>3
  <2> QED BY <1>10, <2>4
<1>12. w # <<>> /\ t \in Seq(Seq(S)) /\ Len(t) = N - 1 /\ \A k \in 1 .. Len(t) : t[k] = w[k + 1]
  <2> HIDE DEF w, N
  <2>1. w # <<>>
    BY <1>10, <1>11, EmptySeq
  <2> QED BY <1>11, <2>1, HeadTailProperties
<1>13. Head(w) = w[1]
  <2> HIDE DEF w
  <2> QED BY <1>11, <1>12
<1> HIDE DEF w, t
<1>14. CASE Doubled(s)
  <2>1. /\ w[1] = <<>> /\ StrSplit(s, Space)[1].len = 0 /\ m # 0 /\ e[1] = 1
        /\ \A k \in 1 .. m + 1 : w[k + 1] = WordAt(s, e, k)
    BY <1>2, <1>14 DEF Words2, w
  <2>2. i = 1 /\ i # 0
    BY <1>4, <2>1
  <2>3. FirstWord(s) = <<>>
    <3>1. FirstWord(s) = SubSeq(s, 1, 1 - 1)
      BY <2>2 DEF FirstWord
    <3> QED BY <3>1, SubSeqEmpty
  <2>4. ~SplitStays(s, Space)
    <3>1. 1 \in DOMAIN StrSplit(s, Space)
      BY <1>9, <1>10
    <3>2. ~(StrSplit(s, Space)[1].len > 0)
      BY <2>1
    <3> QED BY <1>8, <3>1, <3>2
  <2>5. WordsFrom(s, e, m, 0, t)
    <3>1. Len(t) = (m + 1) - 0 /\ t # <<>>
      BY <1>3, <1>12, <1>14, EmptySeq
    <3>2. ASSUME NEW k \in 1 .. Len(t) PROVE t[k] = WordAt(s, e, k + 0)
      <4>1. k \in 1 .. m + 1 /\ k + 0 = k
        BY <1>3, <3>1
      <4> QED BY <1>12, <2>1, <4>1
    <3> QED BY <3>1, <3>2 DEF WordsFrom
  <2>6. FlattenSeq(t) = Without(r, Space) /\ FlattenSeq(t) \in Seq(S)
    <3>1. r \in Seq(S) /\ RestFrom(r, s, e[1])
      BY <1>4, <1>7, <2>1
    <3> HIDE DEF r, m
    <3> QED BY <1>1, <1>12, <2>1, <2>5, <3>1, JoinedIsWithout
  <2> QED BY <1>6, <1>7, <1>12, <1>13, <2>1, <2>2, <2>3, <2>4, <2>6 DEF w
<1>15. CASE ~Doubled(s)
  <2>1. /\ \A k \in 1 .. m + 1 : w[k] = WordAt(s, e, k) /\ StrSplit(s, Space)[k].len > 0
        /\ Len(StrSplit(s, Space)) = m + 1
    BY <1>2, <1>15 DEF Words1, w
  <2>2. Head(w) = FirstWord(s)
    <3>1. 1 \in 1 .. m + 1
      BY <1>3
    <3> QED BY <1>4, <1>13, <2>1, <3>1
  <2>3. SplitStays(s, Space)
    BY <1>8, <1>9, <1>10, <1>3, <1>15, <2>1
  <2>4. i # 1
    <3> SUFFICES ASSUME i = 1 PROVE FALSE
      OBVIOUS
    <3>1. s[1] = Space /\ 1 \in 1 .. Len(s)
      <4>1. i # 0
        OBVIOUS
      <4> QED BY <4>1, SpaceIs
    <3>2. s # <<>>
      BY <3>1, EmptySeq
    <3> QED BY <1>15, <3>1, <3>2 DEF Doubled
  <2>5. CASE m = 0
    <3>1. t = <<>> /\ i = 0
      BY <1>4, <1>12, <1>15, <2>5, EmptySeq
    <3>2. FlattenSeq(<<>>) = <<>>
      BY EmptySeq DEF FlattenSeq
    <3>3. Without(<<>>, Space) = <<>>
      <4>1. <<>> \in Seq(S) /\ Len(<<>>) = 0
        BY EmptySeq
      <4>2. PICK kept : KeptOf(S, <<>>, Space, kept)
        BY <4>1, WithoutLoop
      <4> QED BY <4>1, <4>2 DEF KeptOf
    <3>4. RestOf(s) = <<>> /\ <<>> \in Seq(S)
      BY <3>1 DEF RestOf
    <3> QED BY <1>6, <1>12, <2>2, <2>3, <2>4, <3>1, <3>2, <3>3, <3>4 DEF w
  <2>6. CASE m # 0
    <3>1. WordsFrom(s, e, m, 1, t)
      <4>1. Len(t) = (m + 1) - 1 /\ t # <<>>
        BY <1>3, <1>12, <1>15, <2>6, EmptySeq
      <4>2. ASSUME NEW k \in 1 .. Len(t) PROVE t[k] = WordAt(s, e, k + 1)
        <5>1. k + 1 \in 1 .. m + 1
          BY <1>3, <4>1
        <5> QED BY <1>12, <2>1, <5>1
      <4> QED BY <4>1, <4>2 DEF WordsFrom
    <3>2. FlattenSeq(t) = Without(r, Space) /\ FlattenSeq(t) \in Seq(S)
      <4>1. r \in Seq(S) /\ RestFrom(r, s, e[1])
        BY <1>4, <1>7, <2>6
      <4> HIDE DEF r, m
      <4> QED BY <1>1, <1>12, <2>6, <3>1, <4>1, JoinedIsWithout
    <3> QED BY <1>4, <1>6, <1>7, <1>12, <2>2, <2>3, <2>4, <2>6, <3>2 DEF w
  <2> QED BY <2>5, <2>6
<1> QED BY <1>14, <1>15
-----------------------------------------------------------------------------
(* A prefix, position by position.                                         *)
LEMMA PrefixByPosition ==
    ASSUME NEW S, NEW s \in Seq(S), NEW t \in Seq(S)
    PROVE  IsPrefix(s, t) <=> Len(s) <= Len(t) /\ \A i \in 1 .. Len(s) : s[i] = t[i]
<1>1. ASSUME Len(s) <= Len(t)
      PROVE  (SubSeq(s, 1, Len(s)) = SubSeq(t, 1, Len(s)))
                 <=> (\A i \in 1 .. Len(s) : s[i] = t[i])
  <2> DEFINE a == SubSeq(s, 1, Len(s))
             b == SubSeq(t, 1, Len(s))
  <2>1. Len(s) \in Nat /\ Len(t) \in Nat
    OBVIOUS
  <2>2. a \in Seq(S) /\ Len(a) = Len(s) /\ \A i \in 1 .. Len(s) : a[i] = s[i]
    BY <2>1
  <2>3. b \in Seq(S) /\ Len(b) = Len(s) /\ \A i \in 1 .. Len(s) : b[i] = t[i]
    <3>1. \A i \in 1 .. Len(s) : i \in 1 .. Len(t)
      BY <1>1, <2>1
    <3> QED BY <1>1, <2>1, <3>1
  <2> HIDE DEF a, b
  <2>4. ASSUME \A i \in 1 .. Len(s) : s[i] = t[i] PROVE a = b
    BY <2>2, <2>3, <2>4, SeqEqual
  <2>5. (a = b) <=> (\A i \in 1 .. Len(s) : s[i] = t[i])
    BY <2>2, <2>3, <2>4
  <2> QED BY <2>5 DEF a, b
<1> QED BY <1>1 DEF IsPrefix

(* What a key or a cut leaves of a prefix.                                 *)
LEMMA PrefixOfAppend ==
    ASSUME NEW S, NEW s \in Seq(S), NEW t \in Seq(S), NEW e \in S, IsPrefix(s, t)
    PROVE  IsPrefix(s, Append(t, e))
<1>1. Len(s) <= Len(t) /\ \A i \in 1 .. Len(s) : s[i] = t[i]
  BY PrefixByPosition
<1>2. Append(t, e) \in Seq(S) /\ Len(Append(t, e)) = Len(t) + 1
      /\ \A i \in 1 .. Len(t) : Append(t, e)[i] = t[i]
  OBVIOUS
<1>3. Len(s) \in Nat /\ Len(t) \in Nat
  OBVIOUS
<1> DEFINE a == Append(t, e)
<1> HIDE DEF a
<1>4. a \in Seq(S) /\ Len(s) <= Len(a) /\ \A i \in 1 .. Len(s) : s[i] = a[i]
  BY <1>1, <1>2, <1>3 DEF a
<1>5. IsPrefix(s, a)
  BY <1>4, PrefixByPosition
<1> QED BY <1>5 DEF a

LEMMA PrefixOfCut ==
    ASSUME NEW S, NEW s \in Seq(S), NEW t \in Seq(S), IsPrefix(s, t),
           NEW n \in Int, n >= Len(s)
    PROVE  IsPrefix(s, IF n \in 0 .. Len(t) THEN SubSeq(t, 1, n) ELSE t)
<1>1. CASE n \in 0 .. Len(t)
  <2> DEFINE a == SubSeq(t, 1, n)
  <2>1. Len(s) <= Len(t) /\ \A i \in 1 .. Len(s) : s[i] = t[i]
    BY PrefixByPosition
  <2>2. \A i \in 1 .. n : i \in 1 .. Len(t)
    BY <1>1
  <2>3. a \in Seq(S) /\ Len(a) = n /\ \A i \in 1 .. n : a[i] = t[i]
    BY <1>1, <2>2
  <2> HIDE DEF a
  <2>4. Len(s) \in Nat /\ Len(s) <= Len(a) /\ \A i \in 1 .. Len(s) : s[i] = a[i]
    BY <1>1, <2>1, <2>3
  <2>5. IsPrefix(s, a)
    BY <2>3, <2>4, PrefixByPosition
  <2> QED BY <1>1, <2>5 DEF a
<1>2. CASE n \notin 0 .. Len(t)
  BY <1>2
<1> QED BY <1>1, <1>2

LEMMA PrefixShorter ==
    ASSUME NEW S, NEW s \in Seq(S), NEW t \in Seq(S), NEW e \in S,
           IsPrefix(Append(s, e), t)
    PROVE  IsPrefix(s, t) /\ Len(s) + 1 <= Len(t)
<1> DEFINE a == Append(s, e)
<1>1. a \in Seq(S) /\ Len(a) = Len(s) + 1 /\ \A i \in 1 .. Len(s) : a[i] = s[i]
  OBVIOUS
<1> HIDE DEF a
<1>2. IsPrefix(a, t)
  BY DEF a
<1>3. Len(a) <= Len(t) /\ \A i \in 1 .. Len(a) : a[i] = t[i]
  BY <1>1, <1>2, PrefixByPosition
<1>4. Len(s) \in Nat /\ Len(t) \in Nat
  OBVIOUS
<1>5. Len(s) <= Len(t) /\ \A i \in 1 .. Len(s) : s[i] = t[i]
  BY <1>1, <1>3, <1>4
<1> QED BY <1>1, <1>3, <1>4, <1>5, PrefixByPosition
-----------------------------------------------------------------------------
(* Where the handler may append to line, and what the variables hold.      *)
HoldsLine == {"register", "poll", "append", "store", "store_next", "strip",
              "cut", "free", "restore"}
Erasable == Char \cup {Backspace}

InputType ==
    /\ line \in Seq(Char) /\ residue \in Seq(Char) /\ entered \in Seq(Erasable)
    /\ at \in Int
    /\ key_buffer = "line" => pc \in HoldsLine
    /\ pc = "free" => Awaits

(* What was entered and its ENTER stay at the beginning of the line until  *)
(* the index to cut at is computed, and no index computed on the way cuts  *)
(* into them; after the cut what was entered stays.                        *)
WithEnter == IsPrefix(Append(entered, Enter), line)

KeptOnTheWay ==
    entered # NotEntered /\ ~Awaits =>
      /\ pc # "set_buffer"
      /\ pc \in {"register", "poll", "append", "store", "store_next", "strip"} => WithEnter
      /\ pc \in {"store", "store_next"} => at >= Len(entered) + 1
      /\ pc = "cut" => at >= Len(entered) /\ IsPrefix(entered, line)
      /\ pc \in {"restore", "execute", "tedit", "answer"} => IsPrefix(entered, line)

LEMMA ReturnsTo == ReturnTo \in {"execute", "tedit", "answer"}
  BY DEF ReturnTo

LEMMA SeqErasable ==
    /\ \A s \in Seq(Char) : s \in Seq(Erasable)
    /\ Enter \in Char /\ Enter \in Erasable /\ NotEntered \in Seq(Erasable)
    /\ Backspace \notin Char /\ Letters \subseteq Char
<1>1. ASSUME NEW s \in Seq(Char) PROVE s \in Seq(Erasable)
  <2>1. Len(s) \in Nat /\ \A i \in 1 .. Len(s) : s[i] \in Erasable
    BY DEF Erasable
  <2>2. s = [i \in 1 .. Len(s) |-> s[i]]
    OBVIOUS
  <2> QED BY <2>1, <2>2, IsASeq
<1> QED BY <1>1, KeysAssumption DEF Erasable, Char, NotEntered

(* A key changes line only at its end.                                     *)
LEMMA EditType ==
    ASSUME NEW s \in Seq(Char), NEW key \in Char \cup {Backspace}
    PROVE  Edit(s, key) \in Seq(Char)
<1>1. CASE key # Backspace
  BY <1>1 DEF Edit
<1>2. CASE key = Backspace /\ s = <<>>
  BY <1>2 DEF Edit
<1>3. CASE key = Backspace /\ s # <<>>
  <2>1. Len(s) \in Nat \ {0}
    BY <1>3, EmptySeq
  <2>2. SubSeq(s, 1, Len(s) - 1) \in Seq(Char)
    BY <2>1
  <2> QED BY <1>3, <2>2 DEF Edit, Front
<1> QED BY <1>1, <1>2, <1>3

LEMMA KeyTypes ==
    ASSUME InputType, NEW key \in Char \cup {Backspace}, KeyPress(key)
    PROVE  InputType'
<1> USE DEF InputType, KeyPress, Awaits
<1>1. line' \in Seq(Char)
  BY EditType
<1>2. residue' \in Seq(Char)
  BY <1>1
<1>3. entered' \in Seq(Erasable)
  BY SeqErasable
<1> QED BY <1>1, <1>2, <1>3

LEMMA KeyKeeps ==
    ASSUME InputType, KeptOnTheWay, NEW key \in Char \cup {Backspace}, KeyPress(key)
    PROVE  KeptOnTheWay'
<1> SUFFICES ASSUME entered' # NotEntered, ~Awaits PROVE KeptOnTheWay'
  BY DEF KeptOnTheWay, KeyPress, Awaits
<1> DEFINE Long == {"register", "poll", "append", "store", "store_next", "strip"}
           Short == {"cut", "restore", "execute", "tedit", "answer"}
<1>0. pc' = pc /\ at' = at /\ reader' = reader /\ (Awaits' <=> Awaits)
  BY DEF KeyPress, Awaits
<1>1. CASE entered' = entered /\ line' = line
  BY <1>0, <1>1 DEF KeptOnTheWay, WithEnter
<1>2. CASE entered' = entered /\ line' # line
  <2>1. key # Backspace /\ line' = Append(line, key) /\ key \in Char
        /\ key_buffer = "line" /\ pc \in HoldsLine
    <3>1. key_buffer = "line" /\ line' = Edit(line, key)
      BY <1>2 DEF KeyPress
    <3>2. key # Backspace
      BY <1>2, SeqErasable DEF KeyPress
    <3> QED BY <3>1, <3>2 DEF Edit, InputType
  <2>2. line \in Seq(Erasable) /\ entered \in Seq(Erasable) /\ key \in Erasable
        /\ Append(entered, Enter) \in Seq(Erasable)
    BY SeqErasable DEF InputType, Erasable
  <2>3. WithEnter => WithEnter'
    BY <1>2, <2>1, <2>2, PrefixOfAppend DEF WithEnter
  <2>4. IsPrefix(entered, line) => IsPrefix(entered', line')
    BY <1>2, <2>1, <2>2, PrefixOfAppend
  <2> QED BY <1>0, <1>2, <2>3, <2>4 DEF KeptOnTheWay
<1>3. CASE entered' # entered
  <2>1. /\ line' # line /\ key \notin Letters /\ key # Backspace
        /\ pc \in {"set_buffer", "register", "poll"} /\ entered' = line
    BY <1>3 DEF KeyPress
  <2>2. key = Enter
    BY <2>1 DEF Char
  <2>3. key_buffer = "line" /\ line' = Append(line, Enter) /\ pc \in {"register", "poll"}
    <3>1. key_buffer = "line" /\ line' = Edit(line, key)
      BY <2>1 DEF KeyPress
    <3> QED BY <2>1, <2>2, <3>1 DEF Edit, InputType, HoldsLine
  <2>4. WithEnter'
    <3> DEFINE s == Append(line, Enter)
    <3>1. s \in Seq(Char)
      BY SeqErasable DEF InputType
    <3> HIDE DEF s
    <3>2. IsPrefix(s, s)
      BY <3>1, PrefixByPosition
    <3>3. Append(entered', Enter) = s /\ line' = s
      BY <2>1, <2>3 DEF s
    <3> QED BY <3>2, <3>3 DEF WithEnter
  <2> QED BY <1>0, <2>3, <2>4 DEF KeptOnTheWay
<1> QED BY <1>1, <1>2, <1>3

(* A cut by append, or the one that removes the ENTER.                     *)
LEMMA CutKeeps ==
    ASSUME NEW s \in Seq(Erasable), IsPrefix(s, line), line \in Seq(Char),
           NEW i \in Int, i >= Len(s),
           line' = IF i \in 0 .. Len(line) THEN SubSeq(line, 1, i) ELSE line
    PROVE  IsPrefix(s, line')
  BY SeqErasable, PrefixOfCut

LEMMA CutType ==
    ASSUME NEW s \in Seq(Char), NEW i \in Int
    PROVE  (IF i \in 0 .. Len(s) THEN SubSeq(s, 1, i) ELSE s) \in Seq(Char)
<1>1. CASE i \in 0 .. Len(s)
  <2>1. \A j \in 1 .. i : j \in 1 .. Len(s)
    BY <1>1
  <2> QED BY <1>1, <2>1
<1>2. CASE i \notin 0 .. Len(s)
  BY <1>2
<1> QED BY <1>1, <1>2

LEMMA StripKeeps ==
    ASSUME InputType, KeptOnTheWay, StripLine
    PROVE  InputType' /\ KeptOnTheWay'
<1>0. line \in Seq(Char) /\ Len(line) \in Int /\ at \in Int /\ entered \in Seq(Erasable)
      /\ Len(entered) \in Nat /\ Append(entered, Enter) \in Seq(Erasable)
      /\ Len(Append(entered, Enter)) = Len(entered) + 1
  BY SeqErasable DEF InputType
<1>1. CASE Measure("append", "store", Len(line))
  <2>1. InputType'
    BY <1>0, <1>1 DEF InputType, Measure, Goto, keyboard, buffers, HoldsLine, Awaits
  <2>2. WithEnter => Len(entered) + 1 <= Len(line)
    BY <1>0, SeqErasable, PrefixShorter DEF WithEnter
  <2> QED BY <1>0, <1>1, <2>1, <2>2
          DEF KeptOnTheWay, Measure, Goto, keyboard, buffers, Awaits, WithEnter
<1>2. CASE Terminate("store", "store_next", at)
  <2>1. InputType'
    BY <1>0, <1>2, CutType DEF InputType, Terminate, Goto, keyboard, HoldsLine, Awaits
  <2>2. WithEnter /\ at >= Len(entered) + 1 => WithEnter'
    BY <1>0, <1>2, CutKeeps DEF WithEnter, Terminate
  <2> QED BY <1>0, <1>2, <2>1, <2>2 DEF KeptOnTheWay, Terminate, Goto, Awaits
<1>3. CASE Terminate("store_next", "strip", at + 1)
  <2>1. InputType'
    BY <1>0, <1>3, CutType DEF InputType, Terminate, Goto, keyboard, HoldsLine, Awaits
  <2>2. WithEnter /\ at >= Len(entered) + 1 => WithEnter'
    <3>1. at + 1 \in Int /\ (at >= Len(entered) + 1 => at + 1 >= Len(entered) + 1)
      BY <1>0
    <3>2. line' = IF at + 1 \in 0 .. Len(line) THEN SubSeq(line, 1, at + 1) ELSE line
      BY <1>3 DEF Terminate
    <3>3. entered' = entered
      BY <1>3 DEF Terminate
    <3> QED BY <1>0, <3>1, <3>2, <3>3, CutKeeps DEF WithEnter
  <2> QED BY <1>0, <1>3, <2>1, <2>2 DEF KeptOnTheWay, Terminate, Goto, Awaits
<1>4. CASE Measure("strip", "cut", Len(line) - 1)
  <2>1. InputType'
    BY <1>0, <1>4 DEF InputType, Measure, Goto, keyboard, buffers, HoldsLine, Awaits
  <2>2. WithEnter => Len(entered) <= Len(line) - 1 /\ IsPrefix(entered, line)
    BY <1>0, SeqErasable, PrefixShorter DEF WithEnter
  <2> QED BY <1>0, <1>4, <2>1, <2>2
          DEF KeptOnTheWay, Measure, Goto, keyboard, buffers, Awaits
<1>5. CASE Terminate("cut", "restore", at)
  <2>1. InputType'
    BY <1>0, <1>5, CutType DEF InputType, Terminate, Goto, keyboard, HoldsLine, Awaits
  <2>2. at >= Len(entered) /\ IsPrefix(entered, line) => IsPrefix(entered, line')
    BY <1>0, <1>5, CutKeeps DEF Terminate
  <2> QED BY <1>0, <1>5, <2>1, <2>2 DEF KeptOnTheWay, Terminate, Goto, Awaits
<1> QED BY <1>1, <1>2, <1>3, <1>4, <1>5 DEF StripLine

LEMMA ReadKeeps ==
    ASSUME InputType, KeptOnTheWay, ReadStep
    PROVE  InputType' /\ KeptOnTheWay'
<1>1. CASE AllocLine
  <2>1. <<>> \in Seq(Char)
    OBVIOUS
  <2> QED BY <1>1, <2>1, SeqErasable
          DEF AllocLine, InputType, KeptOnTheWay, Goto, keyboard, HoldsLine
<1>2. CASE SetBuffer
  BY <1>2 DEF SetBuffer, InputType, KeptOnTheWay, Goto, buffers, HoldsLine, Awaits
<1>3. CASE RegisterHandler
  BY <1>3 DEF RegisterHandler, InputType, KeptOnTheWay, Goto, buffers, HoldsLine, Awaits, WithEnter
<1>4. CASE Poll
  BY <1>4 DEF Poll, InputType, KeptOnTheWay, Goto, keyboard, buffers, HoldsLine, Awaits, WithEnter
<1>5. CASE StripLine
  BY <1>5, StripKeeps
<1>6. CASE AwaitKey
  BY <1>6 DEF AwaitKey, InputType, KeptOnTheWay, Goto, keyboard, buffers, HoldsLine, Awaits
<1>7. CASE FreeLine
  <2>1. InputType'
    BY <1>7 DEF FreeLine, InputType, Goto, keyboard, HoldsLine, Awaits
  <2> QED BY <1>7, <2>1 DEF FreeLine, InputType, KeptOnTheWay, Goto, keyboard, Awaits
<1>8. CASE RestoreBuffer
  <2>1. InputType'
    BY <1>8, ReturnsTo DEF RestoreBuffer, InputType, Goto, buffers, HoldsLine
  <2>2. pc = "restore" /\ pc' \in {"execute", "tedit", "answer"} /\ UNCHANGED <<buffers, reader, entered>>
    BY <1>8, ReturnsTo DEF RestoreBuffer, Goto
  <2> QED BY <2>1, <2>2 DEF KeptOnTheWay, buffers, Awaits
<1> QED BY <1>1, <1>2, <1>3, <1>4, <1>5, <1>6, <1>7, <1>8 DEF ReadStep

(* A step of the shell or a program that leaves the line alone, or forgets *)
(* it, and the steps of kernel_main.                                       *)
LEMMA RunsKeeps ==
    ASSUME InputType, NEW command, NEW to, Runs(command, to),
           to \in {"read_line", "halted"}
    PROVE  InputType' /\ KeptOnTheWay'
<1>1. residue' \in Seq(Char) /\ line' \in Seq(Char)
  BY SplitOf DEF Runs, ForgetLine, InputType
<1>2. entered' = NotEntered
  BY DEF Runs, ForgetLine
<1>3. InputType'
  BY <1>1, <1>2, SeqErasable DEF Runs, Goto, InputType, keyboard, HoldsLine
<1> QED BY <1>2, <1>3 DEF KeptOnTheWay

LEMMA LeavesLine ==
    ASSUME InputType, KeptOnTheWay, UNCHANGED <<buffers, entered>>, at' = at,
           pc' \in {"booted", "main", "read_line", "program", "prime"},
           key_buffer' # "line"
    PROVE  InputType' /\ KeptOnTheWay'
  BY DEF InputType, KeptOnTheWay, buffers

LEMMA StepKeeps ==
    ASSUME InputType, KeptOnTheWay, Next
    PROVE  InputType' /\ KeptOnTheWay'
<1>1. CASE StartKeyboard
  BY <1>1, LeavesLine DEF StartKeyboard, Goto
<1>2. CASE EnableSyscalls
  BY <1>2, LeavesLine DEF EnableSyscalls, Goto, InputType, HoldsLine
<1>3. CASE KernelLoop
  BY <1>3, LeavesLine DEF KernelLoop, Goto, InputType, HoldsLine, keyboard
<1>4. CASE StartProgram
  BY <1>4, LeavesLine DEF StartProgram, InputType, HoldsLine, keyboard
<1>5. CASE Execute
  <2>1. CASE ECHO
    BY <2>1, RunsKeeps DEF ECHO
  <2>2. CASE END
    BY <2>2, RunsKeeps DEF END
  <2>3. CASE Interrupt
    BY <2>3, LeavesLine DEF Interrupt, Goto, InputType, HoldsLine, keyboard
  <2>4. CASE PAGE
    BY <2>4, RunsKeeps DEF PAGE
  <2>5. CASE HELP
    BY <2>5, RunsKeeps DEF HELP
  <2>6. CASE DoesNothing
    <3>1. PICK command \in {"LS", "DEBUG_PAUSE", "RUN", NULLFUNC} :
             Runs(command, "read_line")
      BY <2>6 DEF DoesNothing
    <3> QED BY <3>1, RunsKeeps
  <2> QED BY <1>5, <2>1, <2>2, <2>3, <2>4, <2>5, <2>6 DEF Execute
<1>6. ASSUME NEW type, NEW for, CreatePopup(type, for)
      PROVE  InputType' /\ KeptOnTheWay'
  <2>1. pc = "program" /\ pc' \in {"read_line", "program"} /\ at' = at
        /\ UNCHANGED <<keyboard, buffers, entered>>
    BY <1>6 DEF CreatePopup, Goto
  <2>2. key_buffer' # "line"
    BY <2>1 DEF InputType, HoldsLine, keyboard
  <2> QED BY <2>1, <2>2, LeavesLine
<1>7. CASE Popup \/ Initialize
  BY <1>6, <1>7 DEF Popup, Initialize
<1>8. CASE Answer
  <2>1. entered' = NotEntered /\ line' = <<>> /\ residue' = residue /\ at' = at
        /\ pc' = "program" /\ key_buffer' = key_buffer /\ pc = "answer"
    BY <1>8 DEF Answer, ForgetLine, Goto, keyboard
  <2>2. line' \in Seq(Char)
    BY <2>1
  <2> QED BY <2>1, <2>2, SeqErasable DEF InputType, KeptOnTheWay, HoldsLine
<1>9. CASE Reads
  BY <1>9, ReadKeeps DEF Reads
<1>10. CASE Press
  BY <1>10, KeyTypes, KeyKeeps DEF Press
<1>11. CASE PrintNumber \/ PrimeEntry
  <2>1. UNCHANGED <<keyboard, buffers, program, entered>>
    BY <1>11 DEF PrintNumber, PrimeEntry, Prints
  <2> QED BY <2>1 DEF InputType, KeptOnTheWay, WithEnter, Awaits, keyboard, buffers, program
<1> QED BY <1>1, <1>2, <1>3, <1>4, <1>5, <1>7, <1>8, <1>9, <1>10, <1>11
        DEF Next, Step

LEMMA InputInvariant == Spec => [](InputType /\ KeptOnTheWay)
<1>1. Init => InputType /\ KeptOnTheWay
  <2> SUFFICES ASSUME Init PROVE InputType /\ KeptOnTheWay
    OBVIOUS
  <2>1. <<>> \in Seq(Char)
    OBVIOUS
  <2> QED BY <2>1, SeqErasable
          DEF Init, DriverInit, InputType, KeptOnTheWay
<1>2. InputType /\ KeptOnTheWay /\ [Next]_vars => InputType' /\ KeptOnTheWay'
  <2> SUFFICES ASSUME InputType, KeptOnTheWay, [Next]_vars
               PROVE  InputType' /\ KeptOnTheWay'
    OBVIOUS
  <2>1. CASE Next
    BY <2>1, StepKeeps
  <2>2. CASE UNCHANGED vars
    BY <2>2 DEF vars, InputType, KeptOnTheWay, WithEnter, Awaits, keyboard, buffers, program
  <2> QED BY <2>1, <2>2
<1> QED BY <1>1, <1>2, PTL DEF Spec

(* What was typed before ENTER, if nothing was erased after it, reaches the*)
(* shell, the editor or the popup at the beginning of its line, whatever   *)
(* keys come between any two accesses of read_line: no length it has taken *)
(* by then cuts into it, and what it removes is typed after it.            *)
THEOREM EnteredReaches == Spec => []CommandKept
<1>1. InputType /\ KeptOnTheWay => CommandKept
  BY DEF KeptOnTheWay, CommandKept
<1> QED BY <1>1, InputInvariant, PTL

(* From the first poll on interrupt 33 is the keyboard's.                  *)
Listening == handler = "keyboard" /\ pc \notin {"boot", "booted"} /\ ~stuck
PollListens == pc = "poll" => handler = "keyboard"

LEMMA ReaderHandler ==
    ASSUME Next
    PROVE  /\ \/ handler' = handler \/ handler' = "keyboard"
              \/ pc = "booted"
           /\ pc' = "poll" => handler' = "keyboard" \/ (pc = "poll" /\ handler' = handler)
           /\ pc' \in {"boot", "booted"} => pc \in {"boot", "booted"}
           /\ ~stuck /\ handler = "keyboard" => ~stuck'
<1> USE DEF Goto, keyboard
<1>1. CASE StartKeyboard \/ EnableSyscalls \/ KernelLoop \/ StartProgram
  BY <1>1 DEF StartKeyboard, EnableSyscalls, KernelLoop, StartProgram
<1>2. ASSUME NEW command, NEW to, to \in {"read_line", "halted"}, Runs(command, to)
      PROVE  UNCHANGED keyboard /\ pc' \in {"read_line", "halted"}
  BY <1>2 DEF Runs
<1>3. CASE Execute
  <2>1. UNCHANGED keyboard /\ pc' \in {"read_line", "halted"}
    BY <1>2, <1>3 DEF Execute, ECHO, END, Interrupt, PAGE, HELP, DoesNothing
  <2> QED BY <2>1
<1>4. CASE Popup \/ Initialize \/ Answer
  <2>1. UNCHANGED keyboard /\ pc' \in {"program", "read_line"}
    BY <1>4 DEF Popup, Initialize, CreatePopup, Answer
  <2> QED BY <2>1
<1>5. CASE PrintNumber \/ PrimeEntry
  <2>1. UNCHANGED <<keyboard, program>>
    BY <1>5 DEF PrintNumber, PrimeEntry, Prints
  <2> QED BY <2>1 DEF program
<1>6. CASE Reads
  <2>1. CASE AllocLine \/ SetBuffer \/ RegisterHandler
    BY <2>1 DEF AllocLine, SetBuffer, RegisterHandler
  <2>2. CASE Poll \/ AwaitKey \/ FreeLine
    BY <2>2 DEF Poll, AwaitKey, FreeLine
  <2>3. CASE StripLine
    <3>1. UNCHANGED keyboard /\ pc' \in {"store", "store_next", "strip", "cut", "restore"}
      BY <2>3 DEF StripLine, Measure, Terminate
    <3> QED BY <3>1
  <2>4. CASE RestoreBuffer
    BY <2>4, ReturnsTo DEF RestoreBuffer
  <2> QED BY <1>6, <2>1, <2>2, <2>3, <2>4 DEF Reads, ReadStep
<1>7. CASE Press
  BY <1>7 DEF Press, KeyPress
<1> QED BY <1>1, <1>3, <1>4, <1>5, <1>6, <1>7 DEF Next, Step

(* Once a reader polls with the keyboard alive, the keyboard stays alive:  *)
(* from the first poll on interrupt 33 is the keyboard handler's, so no key*)
(* press is answered by the system call handler, which never reads it.     *)
THEOREM KeyboardNeverStuck == Spec => KeyboardStays
<1>1. Init => PollListens
  BY DEF Init, PollListens
<1>2. PollListens /\ [Next]_vars => PollListens'
  <2> SUFFICES ASSUME PollListens, [Next]_vars PROVE PollListens'
    OBVIOUS
  <2>1. CASE Next
    BY <2>1, ReaderHandler DEF PollListens
  <2>2. CASE UNCHANGED vars
    BY <2>2 DEF vars, keyboard, program, PollListens
  <2> QED BY <2>1, <2>2
<1>3. Listening /\ [Next]_vars => Listening'
  <2> SUFFICES ASSUME Listening, [Next]_vars PROVE Listening'
    OBVIOUS
  <2>1. CASE Next
    BY <2>1, ReaderHandler DEF Listening
  <2>2. CASE UNCHANGED vars
    BY <2>2 DEF vars, keyboard, program, Listening
  <2> QED BY <2>1, <2>2
<1>4. PollListens /\ pc = "poll" /\ ~stuck => Listening
  BY DEF PollListens, Listening
<1>5. Listening => ~stuck
  BY DEF Listening
<1> QED BY <1>1, <1>2, <1>3, <1>4, <1>5, PTL DEF Spec, KeyboardStays

(* For a line of any characters and length str_split writes within the     *)
(* blocks it allocates exactly when the line does not begin with a space,  *)
(* and kernel_loop gives the command what follows the first space, without *)
(* the spaces.                                                             *)
THEOREM ArgumentsAreSplit == Spec => []ArgumentsSplit
<1>1. InputType => ArgumentsSplit
  <2> SUFFICES ASSUME InputType PROVE ArgumentsSplit
    OBVIOUS
  <2>1. /\ SplitStays(line, Space) <=> SpaceAt(line) # 1
        /\ ArgsOf(line) = Without(RestOf(line), Space)
    BY SplitOf DEF InputType
  <2> QED BY <2>1 DEF ArgumentsSplit, SpaceAt, RestOf
<1> QED BY <1>1, InputInvariant, PTL

(* A name that a line begins with, followed by a space or nothing, is the  *)
(* first word, and no other is.                                            *)
Heads(x, s) ==
    /\ IsPrefix(x, s) /\ Space \notin ToSet(x)
    /\ Len(s) > Len(x) => s[Len(x) + 1] = Space

LEMMA FirstWordHeads ==
    ASSUME NEW S, NEW s \in Seq(S), NEW x \in Seq(S)
    PROVE  Heads(x, s) <=> x = FirstWord(s)
<1> DEFINE i == SpaceAt(s)
           n == Len(s)
           w == FirstWord(s)
           len == IF i = 0 THEN n ELSE i - 1
<1>1. /\ i \in 0 .. n /\ n \in Nat
      /\ i = 0 => \A j \in 1 .. n : s[j] # Space
      /\ i # 0 => s[i] = Space /\ \A j \in 1 .. i - 1 : s[j] # Space
  BY SpaceIs
<1>2. len \in 0 .. n /\ \A j \in 1 .. len : s[j] # Space
  BY <1>1
<1>3. len # n => s[len + 1] = Space
  <2>1. i # 0 => i - 1 + 1 = i
    BY <1>1
  <2> QED BY <1>1, <2>1
<1>4. w \in Seq(S) /\ Len(w) = len /\ \A j \in 1 .. len : w[j] = s[j]
  <2>1. CASE i = 0
    BY <2>1 DEF FirstWord
  <2>2. CASE i # 0
    <3>1. \A j \in 1 .. i - 1 : s[j] \in S
      BY <1>1
    <3>2. w = SubSeq(s, 1, i - 1)
      BY <2>2 DEF FirstWord
    <3>3. i - 1 \in Nat
      BY <1>1, <2>2
    <3> DEFINE k == i - 1
    <3> HIDE DEF k, i
    <3>4. k \in Nat /\ w = SubSeq(s, 1, k) /\ \A j \in 1 .. k : s[j] \in S
      BY <3>1, <3>2, <3>3 DEF k
    <3> HIDE DEF w
    <3>5. w \in Seq(S) /\ Len(w) = k /\ \A j \in 1 .. k : w[j] = s[j]
      BY <3>4, SubSeqProperties
    <3>6. len = k
      BY <2>2 DEF k
    <3> QED BY <3>5, <3>6
  <2> QED BY <2>1, <2>2
<1> HIDE DEF i, w, len
<1>5. Len(x) \in Nat /\ \A y : y \in ToSet(x) <=> \E j \in 1 .. Len(x) : x[j] = y
  BY SetOfElements
<1>6. IsPrefix(x, s) <=> Len(x) <= n /\ \A j \in 1 .. Len(x) : x[j] = s[j]
  BY PrefixByPosition
<1>7. ASSUME Heads(x, s) PROVE x = w
  <2>1. /\ Len(x) <= n /\ \A j \in 1 .. Len(x) : x[j] = s[j] /\ s[j] # Space
        /\ n > Len(x) => s[Len(x) + 1] = Space
    BY <1>5, <1>6, <1>7 DEF Heads
  <2>2. ~(Len(x) < len)
    <3> SUFFICES ASSUME Len(x) < len PROVE FALSE
      OBVIOUS
    <3>1. Len(x) + 1 \in 1 .. len /\ n > Len(x)
      BY <1>2, <1>5
    <3> QED BY <1>2, <2>1, <3>1
  <2>3. ~(len < Len(x))
    <3> SUFFICES ASSUME len < Len(x) PROVE FALSE
      OBVIOUS
    <3>1. len + 1 \in 1 .. Len(x) /\ len # n
      BY <1>1, <1>2, <1>5, <2>1
    <3> QED BY <1>3, <2>1, <3>1
  <2>4. Len(x) = len
    BY <1>1, <1>2, <1>5, <2>2, <2>3
  <2>5. \A j \in 1 .. Len(x) : x[j] = w[j]
    BY <1>4, <2>1, <2>4
  <2> QED BY <1>4, <2>4, <2>5, SeqEqual
<1>8. ASSUME x = w PROVE Heads(x, s)
  <2>1. Len(x) = len /\ \A j \in 1 .. len : x[j] = s[j]
    BY <1>4, <1>8
  <2>2. IsPrefix(x, s)
    BY <1>1, <1>2, <1>6, <2>1
  <2>3. Space \notin ToSet(x)
    BY <1>2, <1>5, <2>1
  <2>4. n > Len(x) => s[Len(x) + 1] = Space
    BY <1>3, <2>1
  <2> QED BY <2>2, <2>3, <2>4 DEF Heads
<1> QED BY <1>7, <1>8 DEF w

(* resolve_command returns what the only command of a name is, or NULLFUNC.*)
LEMMA Resolves ==
    ASSUME NEW x
    PROVE  LET named == {c \in ToSet(Commands) : c.name = x}
           IN  {ResolveCommand(Commands, x)} =
                  IF named = {} THEN {NULLFUNC} ELSE {c.run : c \in named}
<1> DEFINE n == Len(Commands)
           I == {j \in 1 .. n : Commands[j].name = x}
           i == IF I # {} THEN Min(I) ELSE 0
           named == {c \in ToSet(Commands) : c.name = x}
<1>1. n \in Nat /\ I \in SUBSET (1 .. n)
      /\ \A c : c \in ToSet(Commands) <=> \E j \in 1 .. n : Commands[j] = c
  BY CommandsAssumption, SetOfElements
<1>2. ResolveCommand(Commands, x) = IF i = 0 THEN NULLFUNC ELSE Commands[i].run
  BY DEF ResolveCommand, SelectInSeq
<1>3. /\ i = 0 => I = {}
      /\ i # 0 => i \in I /\ i \in 1 .. n
  <2> HIDE DEF I, n
  <2> QED BY <1>1, FirstIndex
<1> HIDE DEF i
<1>4. CASE i = 0
  <2>1. named = {}
    BY <1>1, <1>3, <1>4
  <2> QED BY <1>2, <1>4, <2>1
<1>5. CASE i # 0
  <2>1. i \in 1 .. n /\ Commands[i].name = x /\ Commands[i] \in ToSet(Commands)
    BY <1>1, <1>3, <1>5
  <2>2. \A c \in named : c = Commands[i]
    <3> SUFFICES ASSUME NEW c \in named PROVE c = Commands[i]
      OBVIOUS
    <3>1. PICK j \in 1 .. n : Commands[j] = c
      BY <1>1
    <3> QED BY <2>1, <3>1, CommandsAssumption
  <2>3. named = {Commands[i]}
    BY <2>1, <2>2
  <2> QED BY <1>2, <1>5, <2>3
<1> QED BY <1>4, <1>5

(* Whatever is typed, the command executed is the one whose name stands    *)
(* before the line's first space, and none if no command has that name.    *)
THEOREM FirstWordIsRun == Spec => []FirstWordRuns
<1>1. InputType => FirstWordRuns
  <2> SUFFICES ASSUME InputType PROVE FirstWordRuns
    OBVIOUS
  <2> DEFINE Named(c) == /\ IsPrefix(c.name, line) /\ Space \notin ToSet(c.name)
                         /\ Len(line) > Len(c.name) => line[Len(c.name) + 1] = Space
             named == {c \in ToSet(Commands) : Named(c)}
             chosen == {c \in ToSet(Commands) : c.name = FirstWord(line)}
  <2>1. line \in Seq(Char) /\ Command = ResolveCommand(Commands, FirstWord(line))
    BY SplitOf DEF InputType, Command
  <2>2. ASSUME NEW c \in ToSet(Commands) PROVE Named(c) <=> c.name = FirstWord(line)
    <3>1. c.name \in Seq(Char)
      <4>1. PICK j \in 1 .. Len(Commands) : Commands[j] = c
        BY CommandsAssumption, SetOfElements
      <4>2. c.name \in Seq(Letters)
        BY <4>1, CommandsAssumption
      <4> QED BY <4>2, SeqMonotonic, SeqErasable
    <3>2. Named(c) <=> Heads(c.name, line)
      BY DEF Heads
    <3> QED BY <2>1, <3>1, <3>2, FirstWordHeads
  <2> HIDE DEF Named
  <2>3. named = chosen
    BY <2>2
  <2>4. {Command} = IF chosen = {} THEN {NULLFUNC} ELSE {c.run : c \in chosen}
    BY <2>1, Resolves
  <2>5. {Command} = IF named = {} THEN {NULLFUNC} ELSE {c.run : c \in named}
    <3> HIDE DEF named, chosen
    <3> QED BY <2>3, <2>4
  <2> QED BY <2>5 DEF FirstWordRuns, Named
<1> QED BY <1>1, InputInvariant, PTL
=============================================================================
