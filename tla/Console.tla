------------------------------ MODULE Console -------------------------------
(***************************************************************************)
(* The keyboard driver (src/drivers/v_keyboard.c): the handler, which runs *)
(* on interrupts and appends to the buffer key_buffer points to, and the   *)
(* two routines that lend it a buffer of their own and poll that,          *)
(* read_line and await_keypress.  Programs has what calls them.            *)
(*                                                                         *)
(* A key may come between any two accesses a routine makes to what the     *)
(* handler uses.  A buffer is the string it holds, ENTER being a character *)
(* of it.  Interrupt 33 is the keyboard's and the system calls': whichever *)
(* registered last is called, and a scancode that is not read keeps the    *)
(* keyboard controller from ever interrupting again.  Key releases and with*)
(* them shift are left out: a letter stands for the character it gives.  So*)
(* is what lkeybuffer holds: it is emptied before each prompt and read by  *)
(* nobody.  append does not check the room in a buffer: a key is pressed   *)
(* only while there is some (bound Room).                                  *)
(***************************************************************************)
EXTENDS Integers, SequencesExt

CONSTANTS
    Letters,  \* printable keys
    Space, Enter, Backspace,
    I8,       \* the values of an int8_t are -I8 .. I8 - 1: 128
    Room      \* characters a buffer has room for: 255

ASSUME KeysAssumption == /\ Space \in Letters /\ Enter \notin Letters
                         /\ Backspace \notin Letters \cup {Enter}
ASSUME WidthAssumption == I8 \in Nat \ {0} /\ Room \in Nat

VARIABLES
    handler,      \* interrupt_handlers[33]
    stuck,        \* port 0x60 holds a scancode nobody will read
    key_buffer,   \* which buffer the handler appends to
    line,         \* the string in line_keybuffer
    residue,      \* what the block freed last holds
    pc, at,       \* where the running program is, and the index it computed
    reader,       \* who called read_line or await_keypress
    entered       \* line when ENTER was pressed, if nothing was erased since:
                  \* only the properties read it

keyboard == <<handler, stuck, key_buffer>>
buffers == <<line, residue>>
Char == Letters \cup {Enter}
NotEntered == <<Backspace>>

(* Who calls read_line: the shell, a popup that returns what is typed, and *)
(* the editor through one; and where each goes on.  A popup that only shows*)
(* a message calls await_keypress.                                         *)
Readers == {"shell", "popup_str", "tedit", "popup_msg"}
Awaits == reader = "popup_msg"
ReturnTo ==
    CASE reader = "shell" -> "execute" [] reader = "tedit" -> "tedit"
      [] OTHER -> "answer"

DriverInit ==
    /\ handler = "none" /\ stuck = FALSE /\ key_buffer = "none"
    /\ line = <<>> /\ residue = <<>> /\ entered = NotEntered
-----------------------------------------------------------------------------
(* backspace on an empty string clears the byte before the buffer.         *)
Edit(s, key) == IF key # Backspace THEN Append(s, key)
                ELSE IF s = <<>> THEN s ELSE Front(s)

(* default_keyboard_callback, or whatever interrupt 33 is registered to.   *)
(* await_keypress frees its buffer before it takes it from the handler.    *)
KeyPress(key) ==
    /\ ~stuck
    /\ Len(line) < Room
    /\ stuck' = (handler # "keyboard")
    /\ line' = IF ~stuck' /\ key_buffer = "line" THEN Edit(line, key) ELSE line
    /\ residue' = IF pc = "restore" /\ Awaits THEN line' ELSE residue
    /\ entered' = IF line' = line \/ key \in Letters THEN entered
                  ELSE IF key = Backspace THEN NotEntered
                  ELSE IF Enter \notin ToSet(line)
                          /\ pc \in {"set_buffer", "register", "poll"}
                  THEN line ELSE entered
    /\ UNCHANGED <<handler, key_buffer, pc, at, reader>>
-----------------------------------------------------------------------------
Goto(from, to) == pc = from /\ pc' = to

(* line_keybuffer = ta_alloc(256): not cleared, and often the block that   *)
(* was freed last.                                                         *)
AllocLine ==
    /\ Goto("read_line", "set_buffer")
    /\ line' \in {<<>>, residue}
    /\ residue' = <<>>
    /\ entered' = NotEntered
    /\ UNCHANGED <<keyboard, at, reader>>

(* init_keyboard(line_keybuffer, NULL).                                    *)
SetBuffer ==
    /\ Goto("set_buffer", "register")
    /\ key_buffer' = "line"
    /\ UNCHANGED <<handler, stuck, buffers, at, reader, entered>>
RegisterHandler ==
    /\ Goto("register", "poll")
    /\ handler' = "keyboard"
    /\ UNCHANGED <<stuck, key_buffer, buffers, at, reader, entered>>

(* The position counts from 1 and is returned as an int8_t.                *)
CharacterExists(c, s) ==
    LET d == SelectInSeq(s, LAMBDA z : z = c)
    IN  IF d = 0 THEN -1 ELSE ((d + I8) % (2 * I8)) - I8

(* Mutant: only the last character is looked at.                           *)
Poll_LastOnly ==
    /\ ~Awaits /\ Goto("poll", "append")
    /\ line # <<>> /\ Last(line) = Enter
    /\ UNCHANGED <<keyboard, buffers, at, reader, entered>>

Poll ==
    /\ ~Awaits /\ Goto("poll", "append")
    /\ CharacterExists(Enter, line) > -1
    /\ UNCHANGED <<keyboard, buffers, at, reader, entered>>

(* await_keypress: strlen(line_keybuffer) > 0, then ta_free.               *)
AwaitKey ==
    /\ Awaits /\ Goto("poll", "free")
    /\ Len(line) > 0
    /\ UNCHANGED <<keyboard, buffers, at, reader, entered>>
FreeLine ==
    /\ Goto("free", "restore")
    /\ residue' = line
    /\ UNCHANGED <<keyboard, line, at, reader, entered>>

(* append(line, '\0'), a strlen and two stores, then the strlen and the    *)
(* store that remove the last character, whichever it is by now.           *)
Measure(from, to, i) ==
    /\ Goto(from, to)
    /\ at' = i
    /\ UNCHANGED <<keyboard, buffers, reader, entered>>
Terminate(from, to, i) ==
    /\ Goto(from, to)
    /\ line' = IF i \in 0 .. Len(line) THEN SubSeq(line, 1, i) ELSE line
    /\ UNCHANGED <<keyboard, residue, at, reader, entered>>

(* Mutant: the line is cut where the ENTER found by the poll would be if   *)
(* positions counted from 0.                                               *)
StripLine_ZeroBased ==
    \/ Measure("append", "store", Len(line))
    \/ Terminate("store", "store_next", at)
    \/ Terminate("store_next", "strip", at + 1)
    \/ Measure("strip", "cut", CharacterExists(Enter, line) - 2)
    \/ Terminate("cut", "restore", at)

StripLine ==
    \/ Measure("append", "store", Len(line))
    \/ Terminate("store", "store_next", at)
    \/ Terminate("store_next", "strip", at + 1)
    \/ Measure("strip", "cut", Len(line) - 1)
    \/ Terminate("cut", "restore", at)

(* Mutant: the handler found at the start is registered again, as the      *)
(* buffer and the callback are.                                            *)
RestoreBuffer_AndHandler ==
    /\ Goto("restore", ReturnTo)
    /\ key_buffer' = "lkey" /\ handler' = "syscall" /\ at' = 0
    /\ UNCHANGED <<stuck, buffers, reader, entered>>

(* init_keyboard(old_keybuffer, old_callback).                             *)
RestoreBuffer ==
    /\ Goto("restore", ReturnTo)
    /\ key_buffer' = "lkey" /\ handler' = "keyboard" /\ at' = 0
    /\ UNCHANGED <<stuck, buffers, reader, entered>>

ReadStep ==
    \/ AllocLine \/ SetBuffer \/ RegisterHandler
    \/ Poll \/ StripLine \/ AwaitKey \/ FreeLine \/ RestoreBuffer
=============================================================================
