------------------------------ MODULE Strings ------------------------------
(***************************************************************************)
(* The functions of src/libc/string.c and src/libc/math.c that build       *)
(* strings in blocks of the heap, and the shell's way from a line to a     *)
(* command (src/kernel/commands.c): what they return and which bytes they  *)
(* write.  A string is the sequence of its characters, without the NUL; a  *)
(* digit is its value.  The smallest int, whose negation overflows, is left*)
(* out: nobody prints it.                                                  *)
(***************************************************************************)
EXTENDS Integers, SequencesExt

CONSTANTS
    IntMax,     \* the largest int: 2^31 - 1
    Alignment,  \* the heap rounds requests up to it: 8
    Minus,      \* the character '-', as digits are: its distance from '0'
    NULLFUNC    \* what resolve_command returns for an unknown name

ASSUME IntAssumption == IntMax \in Nat /\ Alignment \in Nat \ {0}

(* The bytes of the block ta_alloc(n) returns.                             *)
BlockSize(n) == ((n + Alignment - 1) \div Alignment) * Alignment
-----------------------------------------------------------------------------
(* n/b, unsigned: a negative n stands for n + 2 * (IntMax + 1).            *)
UnsignedDiv(n, b) ==
    LET r == (IntMax % b) * 2 + 2
    IN  IF n >= 0 THEN n \div b
        ELSE (IntMax \div b) * 2 + (r \div b) + (((r % b) + n) \div b)

(* logi: how often n is divided until it is not more than base.            *)
Logi(n, base) ==
    LET f[m \in Nat] == IF m > base THEN 1 + f[m \div base] ELSE 0
    IN  IF n < 0 THEN 1 + f[UnsignedDiv(n, base)] ELSE f[n]

(* What int_to_ascii allocates.                                            *)
IntBlock(n) == BlockSize(IF Logi(n, 10) > 1 THEN Logi(n, 10) ELSE 1)

(* Mutant: the loop ends when one digit is left.                           *)
IntToAscii_Short(n) ==
    LET f[k \in Nat] == <<k % 10>> \o (IF k \div 10 > 9 THEN f[k \div 10] ELSE <<>>)
    IN  Reverse(f[IF n < 0 THEN -n ELSE n] \o (IF n < 0 THEN <<Minus>> ELSE <<>>))

(* The digits least significant first, then the sign, reversed in place.   *)
IntToAscii(n) ==
    LET f[k \in Nat] == <<k % 10>> \o (IF k \div 10 > 0 THEN f[k \div 10] ELSE <<>>)
    IN  Reverse(f[IF n < 0 THEN -n ELSE n] \o (IF n < 0 THEN <<Minus>> ELSE <<>>))

(* The digits after "0x", from the first that is not 0; none for 0.  \div  *)
(* rounds down as the shift does.                                          *)
HexToAscii(n) ==
    LET nibbles == [i \in 1 .. 8 |-> (n \div 16^(8 - i)) % 16]
        first == SelectInSeq(nibbles, LAMBDA x : x # 0)
    IN  IF first = 0 THEN <<>> ELSE SubSeq(nibbles, first, 8)

HexBlock == BlockSize(12)
-----------------------------------------------------------------------------
(* str_split: the pieces as [from, len], offsets into s and lengths in     *)
(* bytes, the last of which becomes the NUL.  The first loop counts the    *)
(* delimiters; the second cuts at them, but looks at the first character   *)
(* twice, i being 0 and 1, so a delimiter there cuts twice, the first time *)
(* a piece of no bytes.  With none the string itself is returned.          *)
Delimiters(s, d) ==
    LET found[i \in 0 .. Len(s)] ==
            IF i = 0 THEN <<>>
            ELSE IF s[i] = d THEN Append(found[i - 1], i) ELSE found[i - 1]
    IN  found[Len(s)]

Cuts(s, d) == IF s # <<>> /\ s[1] = d THEN <<0>> \o Delimiters(s, d)
              ELSE Delimiters(s, d)

PiecesAt(ends) ==
    [k \in 1 .. Len(ends) |->
       LET from == IF k = 1 THEN 0 ELSE ends[k - 1]
       IN  [from |-> from, len |-> ends[k] - from]]

(* Mutant: the end of the string does not end a piece.                     *)
StrSplit_NoLast(s, d) ==
    PiecesAt(IF Cuts(s, d) = <<>> THEN <<Len(s) + 1>> ELSE Cuts(s, d))

StrSplit(s, d) == PiecesAt(Append(Cuts(s, d), Len(s) + 1))

Text(s, piece) == SubSeq(s, piece.from + 1, piece.from + piece.len - 1)

(* No byte before a piece is written, and no pointer after the array's end.*)
SplitStays(s, d) ==
    /\ Len(StrSplit(s, d)) <= Len(Delimiters(s, d)) + 1
    /\ \A k \in DOMAIN StrSplit(s, d) : StrSplit(s, d)[k].len > 0
-----------------------------------------------------------------------------
(* The list commands are registered at the end of, as pairs [name, run].   *)
RegisterCommand(list, name, run) == Append(list, [name |-> name, run |-> run])

(* Mutant: the search stops before the last command.                       *)
ResolveCommand_NotLast(list, name) ==
    LET i == SelectInSeq(Front(list), LAMBDA c : c.name = name)
    IN  IF i = 0 THEN NULLFUNC ELSE list[i].run

ResolveCommand(list, name) ==
    LET i == SelectInSeq(list, LAMBDA c : c.name = name)
    IN  IF i = 0 THEN NULLFUNC ELSE list[i].run
=============================================================================
