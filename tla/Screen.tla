------------------------------- MODULE Screen -------------------------------
(***************************************************************************)
(* The screen driver (src/drivers/screen.c): the text of the video card and*)
(* its cursor, used by the running program and by the keyboard handler.    *)
(*                                                                         *)
(* Positions count characters, an offset of the code divided by 2.  The    *)
(* card keeps the cursor in two 8-bit registers that are written through an*)
(* index register: four port writes.  What runs between cli and sti is one *)
(* step, and so is the handler; but kprint_at's sti ends the protection of *)
(* kprint_at_preserve too early, and clear_screen has none: a key may be   *)
(* echoed between any two of their writes.  The second sti of the handler, *)
(* in kprint_at, lets handlers nest, but comes after all they do here.     *)
(* No caller blocks write locations (blocked_write_locations is NULL and   *)
(* the words at address 0 are no positions), so kprint_backspace always    *)
(* prints.  Colours are left out.                                          *)
(***************************************************************************)
EXTENDS Integers, SequencesExt

CONSTANTS
    Rows, Cols,   \* MAX_ROWS and MAX_COLS: 25 and 80
    CardRows,     \* rows print_char writes to: 50
    U8,           \* values of a uint8_t: 256
    Keys,         \* printable keys
    Messages,     \* what programs print: sequences of characters and Newline
    Newline, Erase, Blank, E,
    Places,       \* the positions programs print at
    Followed      \* how many of the last characters the properties look at

Visible == Rows * Cols
Cells == 0 .. CardRows * Cols - 1

(* With a high byte of one position and a low byte of another the cursor   *)
(* is less than a row past the screen: 7 * 256 + 256 < 26 * 80.            *)
ASSUME ScreenAssumption ==
    /\ Rows \in Nat \ {0} /\ Cols \in Nat \ {0} /\ U8 \in Nat \ {0}
    /\ CardRows \in Nat /\ CardRows > Rows
    /\ ((Visible - 1) \div U8) * U8 + U8 < (Rows + 1) * Cols
    /\ (Visible - 1) \div U8 < U8
    /\ Places \subseteq 0 .. Visible - 1 /\ Followed \in Nat
ASSUME CharAssumption ==
    /\ {Newline, Erase, Blank, E} \cap Keys = {}
    /\ \A message \in Messages :
          /\ message # <<>> /\ message \in Seq(ToSet(message))
          /\ {Erase, Blank, E} \cap ToSet(message) = {}

VARIABLES
    video,      \* [Cells -> characters]
    crtc,       \* [hi, lo, index]: the cursor registers and the selected one
    doing,      \* where the program is in kprint_at_preserve or clear_screen
    saved,      \* offset: the position it will set the cursor to
    next,       \* i: the next cell clear_screen blanks
    trail,      \* the last characters printed in a row at the cursor, and
    disturbed   \* whether a key was echoed since the program left "idle":
                \* only the properties read these two

screenVars == <<video, crtc, doing, saved, next, trail, disturbed>>

HiReg == 14
LoReg == 15
Cursor == crtc.hi * U8 + crtc.lo

ScreenInit ==
    /\ video = [p \in Cells |-> Blank]
    /\ crtc = [hi |-> 0, lo |-> 0, index |-> LoReg]
    /\ doing = "idle" /\ saved = 0 /\ next = 0
    /\ trail = <<>> /\ disturbed = FALSE
-----------------------------------------------------------------------------
(* print_char and kprint_at, on a display [video, at, last]: the cells, the*)
(* position print_char returned last, and what it printed in a row.        *)

Scroll(v) == [p \in Cells |-> IF p + Cols < Visible THEN v[p + Cols]
                              ELSE IF p < Visible THEN Blank ELSE v[p]]

Keep(s) == IF Len(s) <= Followed THEN s
           ELSE SubSeq(s, Len(s) - Followed + 1, Len(s))

LastAfter(d, c) ==
    IF d.at >= Visible \/ c = Newline THEN <<>>
    ELSE IF c = Erase THEN IF d.last = <<>> THEN <<>> ELSE Front(d.last)
    ELSE Keep(Append(d.last, c))

Drawn(d, c) ==
    [video |-> IF c = Newline THEN d.video
               ELSE [d.video EXCEPT ![d.at] = IF c = Erase THEN Blank ELSE c],
     at    |-> IF c = Newline THEN (d.at \div Cols + 1) * Cols
               ELSE IF c = Erase THEN d.at ELSE d.at + 1,
     last  |-> LastAfter(d, c)]

(* Mutant: the screen scrolls one character late.                          *)
PrintChar_LateScroll(d, c) ==
    LET after == Drawn(d, c)
    IN  IF d.at \div Cols >= CardRows
        THEN [d EXCEPT !.video[CardRows * Cols - 1] = E]
        ELSE IF after.at > Visible
        THEN [after EXCEPT !.video = Scroll(@), !.at = @ - Cols]
        ELSE after

(* A position below the card's rows prints a red E in its last cell.       *)
PrintChar(d, c) ==
    LET after == Drawn(d, c)
    IN  IF d.at \div Cols >= CardRows
        THEN [d EXCEPT !.video[CardRows * Cols - 1] = E]
        ELSE IF after.at >= Visible
        THEN [after EXCEPT !.video = Scroll(@), !.at = @ - Cols]
        ELSE after

(* set_cursor_offset, when nothing comes between.                          *)
Registers(p) == [hi |-> (p \div U8) % U8, lo |-> p % U8, index |-> LoReg]

Display(p, last) == [video |-> video, at |-> p, last |-> last]

(* kprint_at from its cli to its sti: the display message leaves.          *)
KprintAt(message, p, last) ==
    LET after[n \in 0 .. Len(message)] ==
            IF n = 0 THEN Display(p, last) ELSE PrintChar(after[n - 1], message[n])
    IN  after[Len(message)]

Show(d) == video' = d.video /\ crtc' = Registers(d.at)
-----------------------------------------------------------------------------
(* The program.                                                            *)

Kprint(message) ==
    /\ doing = "idle"
    /\ LET d == KprintAt(message, Cursor, trail)
       IN  Show(d) /\ trail' = d.last
    /\ UNCHANGED <<doing, saved, next, disturbed>>

KprintAtPosition(message, p) ==
    /\ doing = "idle"
    /\ LET d == KprintAt(message, p, <<>>)
       IN  Show(d) /\ trail' = d.last
    /\ UNCHANGED <<doing, saved, next, disturbed>>

(* The message may cover the trail, or scroll it away.                     *)
Uncovered(message, p) ==
    LET n == Len(message)
    IN  /\ p + n < Visible /\ Newline \notin ToSet(message)
        /\ p + n <= Cursor - Len(trail) \/ p >= Cursor

(* kprint_at_preserve, to the sti of the kprint_at in it.  The mutant reads*)
(* the cursor only after the message is printed.                           *)
PreserveStart_SaveLate(message, p) ==
    /\ doing = "idle" /\ doing' = "select_hi"
    /\ LET d == KprintAt(message, p, <<>>)
       IN  Show(d) /\ saved' = d.at
    /\ trail' = IF Uncovered(message, p) THEN trail ELSE <<>>
    /\ disturbed' = FALSE
    /\ UNCHANGED next

PreserveStart(message, p) ==
    /\ doing = "idle" /\ doing' = "select_hi"
    /\ saved' = Cursor
    /\ LET d == KprintAt(message, p, <<>>) IN Show(d)
    /\ trail' = IF Uncovered(message, p) THEN trail ELSE <<>>
    /\ disturbed' = FALSE
    /\ UNCHANGED next

ClearStart ==
    /\ doing = "idle" /\ doing' = "clear"
    /\ next' = 0 /\ saved' = 0
    /\ trail' = <<>> /\ disturbed' = FALSE
    /\ UNCHANGED <<video, crtc>>

(* All rows but the last are cleared.                                      *)
ClearCell ==
    /\ doing = "clear"
    /\ IF next < (Rows - 1) * Cols
       THEN /\ video' = [video EXCEPT ![next] = Blank]
            /\ next' = next + 1
            /\ UNCHANGED doing
       ELSE /\ doing' = "select_hi"
            /\ UNCHANGED <<video, next>>
    /\ UNCHANGED <<crtc, saved, trail, disturbed>>

(* set_cursor_offset(saved), write by write: data goes to the register     *)
(* that is selected by then.                                               *)
Select(from, to, register) ==
    /\ doing = from /\ doing' = to
    /\ crtc' = [crtc EXCEPT !.index = register]
    /\ UNCHANGED <<video, saved, next, trail, disturbed>>

(* The byte written: the mutant forgets to shift the high one.             *)
HighByte_Unshifted(p) == p % U8
HighByte(p) == (p \div U8) % U8

WriteData(from, to, byte) ==
    /\ doing = from /\ doing' = to
    /\ crtc' = IF crtc.index = HiReg THEN [crtc EXCEPT !.hi = byte]
               ELSE [crtc EXCEPT !.lo = byte]
    /\ IF to = "idle"
       THEN /\ saved' = 0 /\ next' = 0    \* locals: gone
            /\ disturbed' = FALSE
            /\ trail' = IF disturbed THEN <<>> ELSE trail
       ELSE UNCHANGED <<saved, next, trail, disturbed>>
    /\ UNCHANGED video

SetCursorOffset ==
    \/ Select("select_hi", "write_hi", HiReg)
    \/ WriteData("write_hi", "select_lo", HighByte(saved))
    \/ Select("select_lo", "write_lo", LoReg)
    \/ WriteData("write_lo", "idle", saved % U8)
-----------------------------------------------------------------------------
(* The keyboard handler.                                                   *)

Echo(d) ==
    /\ Show(d)
    /\ IF doing = "idle"
       THEN trail' = d.last /\ UNCHANGED disturbed
       ELSE disturbed' = TRUE /\ UNCHANGED trail
    /\ UNCHANGED <<doing, saved, next>>

KeyEcho(key) == Echo(KprintAt(<<key>>, Cursor, trail))

(* kprint_backspace; before the first position the column is negative and  *)
(* print_char takes the cursor's.                                          *)
KprintBackspace ==
    Echo(PrintChar(Display(IF Cursor = 0 THEN 0 ELSE Cursor - 1, trail), Erase))

ScreenNext ==
    \/ \E m \in Messages : Kprint(m)
    \/ \E m \in Messages, p \in Places : KprintAtPosition(m, p)
    \/ \E m \in Messages, p \in Places : PreserveStart(m, p)
    \/ ClearStart
    \/ ClearCell
    \/ SetCursorOffset
    \/ \E key \in Keys : KeyEcho(key)
    \/ KprintBackspace

ScreenSpec == ScreenInit /\ [][ScreenNext]_screenVars
-----------------------------------------------------------------------------
Characters == Keys \cup {Blank, E} \cup UNION {ToSet(m) : m \in Messages}

TypeOK ==
    /\ video \in [Cells -> Characters]
    /\ crtc \in [hi : 0 .. U8 - 1, lo : 0 .. U8 - 1, index : {HiReg, LoReg}]
    /\ doing \in {"idle", "clear", "select_hi", "write_hi", "select_lo", "write_lo"}
    /\ saved \in 0 .. (Rows + 1) * Cols - 1 /\ next \in 0 .. (Rows - 1) * Cols
    /\ disturbed \in BOOLEAN

(* Whatever was printed at the cursor since it was last placed stands to   *)
(* the left of it, through wraps, scrolls, backspaces and messages printed *)
(* elsewhere by kprint_at_preserve: only a key that is echoed while the    *)
(* cursor is being set back, or the screen cleared, tears the line apart.  *)
LineShown ==
    doing = "idle" =>
      \A k \in 1 .. Len(trail) :
         LET p == Cursor - Len(trail) + k - 1
         IN  p >= 0 => video[p] = trail[k]

(* The cursor may be left past the screen, with the high byte of one       *)
(* position and the low byte of another, but never a row past it: no cell  *)
(* beyond the card's rows is ever written, read or scrolled, and no output *)
(* is replaced by the red E.                                               *)
CursorBounded == TypeOK /\ Cursor < (Rows + 1) * Cols

(* A cursor left past the screen is back on it after the next character.   *)
PrintReturns ==
    [][\A key \in Keys : KeyEcho(key) => Cursor' < Visible]_screenVars
=============================================================================
