------------------------------ MODULE Programs ------------------------------
(***************************************************************************)
(* What runs in the task that is not the idle one: kernel_main's last steps*)
(* and kernel_loop (src/kernel/kernel.c), the commands it executes         *)
(* (commands.c, basic_commands.c), and the programs of src/stock with the  *)
(* popups they show.  They read lines and keys through Console and take    *)
(* them apart with Strings.                                                *)
(*                                                                         *)
(* RUN does nothing and nothing else in this kernel starts a program:      *)
(* StartProgram is external.  Of what is printed only the numbers and the  *)
(* words of a command are followed.  kernel_loop looks for arguments past  *)
(* the array str_split returns; that what it finds there ends the loop, as *)
(* zeroed memory does, is assumed.                                         *)
(***************************************************************************)
EXTENDS Console, Strings

CONSTANTS
    Commands,    \* the list kernel_main builds, of [name, run]
    Numbers,     \* the numbers programs print
    Addresses,   \* the addresses ta_alloc returns to PAGE
    Divisors     \* the numbers prime_entry looks at

ASSUME NumbersAssumption ==
    /\ Numbers \subseteq -IntMax .. IntMax
    /\ Addresses \subseteq -IntMax .. IntMax
    /\ Divisors \subseteq 2 .. 9999999

(* kernel_main registers the head's empty name and each other name once.   *)
ASSUME CommandsAssumption ==
    /\ Commands \in Seq(ToSet(Commands))
    /\ \A i, j \in 1 .. Len(Commands) :
          /\ Commands[i].name \in Seq(Letters)
          /\ Commands[i].name = Commands[j].name => i = j

VARIABLE shown   \* what was printed in the last step: [as, of, text]

program == <<pc, at, reader>>
vars == <<keyboard, buffers, entered, program, shown>>

Nothing == [as |-> "nothing", of |-> 0, text |-> <<>>]
Shows(as, of, text) == shown' = [as |-> as, of |-> of, text |-> text]
Quiet == shown' = Nothing

Init == DriverInit /\ pc = "boot" /\ at = 0 /\ reader = "shell" /\ shown = Nothing
-----------------------------------------------------------------------------
(* kernel_main: init_keyboard(lkeybuffer, NULL) ...                        *)
StartKeyboard ==
    /\ Goto("boot", "booted")
    /\ key_buffer' = "lkey" /\ handler' = "keyboard"
    /\ Quiet
    /\ UNCHANGED <<stuck, buffers, at, reader, entered>>

(* ... enable_syscalls() takes interrupt 33 over ...                       *)
EnableSyscalls ==
    /\ Goto("booted", "main")
    /\ handler' = "syscall"
    /\ Quiet
    /\ UNCHANGED <<stuck, key_buffer, buffers, at, reader, entered>>

(* ... and the task prints its number and goes on in kernel_loop.          *)
KernelLoop ==
    /\ Goto("main", "read_line")
    /\ Quiet
    /\ UNCHANGED <<keyboard, buffers, at, reader, entered>>

(* Instead of the shell, one of the programs (external).                   *)
StartProgram ==
    /\ pc = "main" /\ pc' \in {"program", "prime"}
    /\ Quiet
    /\ UNCHANGED <<keyboard, buffers, at, reader, entered>>
-----------------------------------------------------------------------------
(* The words of a line, and what kernel_loop makes of all but the first: it*)
(* appends them to args_processed one after the other.                     *)
Words(s) ==
    LET pieces == StrSplit(s, Space)
    IN  [k \in DOMAIN pieces |-> Text(s, pieces[k])]

ArgsOf(s) == FlattenSeq(Tail(Words(s)))

Command == ResolveCommand(Commands, Head(Words(line)))

(* The block read_line returned is never freed; nobody has it from here on.*)
ForgetLine == line' = <<>> /\ entered' = NotEntered

(* A command returns to the prompt; args_processed is freed then.          *)
Runs(command, to) ==
    /\ Goto("execute", to)
    /\ Command = command
    /\ residue' = ArgsOf(line)
    /\ ForgetLine
    /\ UNCHANGED <<keyboard, at, reader>>

ECHO == Runs("ECHO", "read_line") /\ Shows("echo", 0, ArgsOf(line))

(* "Stopping the CPU. Bye!", but hlt waits for the next interrupt only.    *)
END == Runs("END", "halted") /\ Quiet
Interrupt ==
    /\ Goto("halted", "read_line")
    /\ Quiet
    /\ UNCHANGED <<keyboard, buffers, at, reader, entered>>

(* The address of 1000 bytes that are never freed.                         *)
PAGE ==
    /\ Runs("PAGE", "read_line")
    /\ \E page \in Addresses : Shows("hex", page, HexToAscii(page))

(* The names registered, without the head's.                               *)
HELP ==
    /\ Runs("HELP", "read_line")
    /\ Shows("names", 0, [i \in 1 .. Len(Commands) - 1 |-> Commands[i + 1].name])

(* LS walks the table at fat_head, which is NULL: nobody loads it, and what*)
(* is at address 0 is no entry.  DEBUG_PAUSE, RUN and NULLFUNC are empty.  *)
DoesNothing ==
    \E command \in {"LS", "DEBUG_PAUSE", "RUN", NULLFUNC} :
        Runs(command, "read_line") /\ Quiet

Execute == ECHO \/ END \/ Interrupt \/ PAGE \/ HELP \/ DoesNothing
-----------------------------------------------------------------------------
(* A program reads a line or waits for a key through create_popup.  Types  *)
(* other than 0 and 1 show nothing.                                        *)
CreatePopup(type, for) ==
    /\ Goto("program", IF type \in {0, 1} THEN "read_line" ELSE "program")
    /\ reader' = IF type \in {0, 1} THEN for ELSE reader
    /\ Quiet
    /\ UNCHANGED <<keyboard, buffers, at, entered>>
Popup ==
    \/ CreatePopup(0, "popup_msg") \/ CreatePopup(1, "popup_str")
    \/ CreatePopup(2, "none")

(* create_popup has cleared the screen and returns the line, or NULL.      *)
Answer ==
    /\ Goto("answer", "program")
    /\ ForgetLine /\ Quiet
    /\ UNCHANGED <<keyboard, residue, at, reader>>

(* tedit's initialize asks for a file name, shows the file if there is one,*)
(* and loops until exit_program, which no key calls: it never ends.        *)
Initialize == CreatePopup(1, "tedit")

Prints(as, n) ==
    /\ Shows(as, n, IntToAscii(n))
    /\ UNCHANGED <<keyboard, buffers, program, entered>>

(* current_divisor < current_number / 2 + 1                                *)
IsPrime(n) == \A d \in 2 .. n \div 2 : n % d # 0

(* The task's number in kernel_main, and one turn of prime_entry's loop.   *)
PrintNumber == pc = "main" /\ \E n \in Numbers : Prints("int", n)
PrimeEntry == pc = "prime" /\ \E n \in Divisors : IsPrime(n) /\ Prints("prime", n)
-----------------------------------------------------------------------------
Reads == ReadStep /\ Quiet

Step ==
    \/ StartKeyboard \/ EnableSyscalls \/ KernelLoop \/ StartProgram
    \/ Execute \/ Popup \/ Answer \/ Initialize \/ PrintNumber \/ PrimeEntry
    \/ Reads

Press == \E key \in Char \cup {Backspace} : KeyPress(key) /\ UNCHANGED shown

Next == Step \/ Press

(* The task gets the CPU again and again (TaskManager's EveryTaskRuns), so *)
(* what it reads with goes on; nothing makes a user press keys.            *)
Spec == Init /\ [][Next]_vars /\ WF_vars(Reads)
-----------------------------------------------------------------------------
(* Whatever is typed after ENTER, and between whichever accesses of        *)
(* read_line to the buffer: what was typed before it reaches the reader    *)
(* unchanged, at the beginning of the line, if no backspace follows.       *)
CommandKept ==
    pc \in {"restore", "execute", "tedit", "answer"} /\ ~Awaits /\ entered # NotEntered
    => IsPrefix(entered, line)

(* A line whose ENTER is among the first 127 characters is read, unless the*)
(* ENTER is erased first, and a popup with a message goes away when a key  *)
(* was pressed that is still there; further keys do not hide it.           *)
EnterAt == SelectInSeq(line, LAMBDA c : c = Enter)
PollEnds ==
    /\ (pc = "poll" /\ ~Awaits /\ EnterAt \in 1 .. I8 - 1)
         ~> (pc # "poll" \/ EnterAt = 0)
    /\ (pc = "poll" /\ Awaits /\ line # <<>>) ~> (pc # "poll" \/ line = <<>>)

(* Once a reader is polling, no key is ever lost on interrupt 33, although*)
(* the readers and the system calls share its handler slot; before that a  *)
(* single key press ends all keyboard input.                               *)
KeyboardStays == [](pc = "poll" /\ ~stuck => []~stuck)

(* A line runs the command whose name stands before its first space, and   *)
(* nothing if no command has that name: also an empty line and one that    *)
(* begins with a space, whose name is the list head's.                     *)
FirstWordRuns ==
    pc = "execute" =>
      LET Named(c) == /\ IsPrefix(c.name, line) /\ Space \notin ToSet(c.name)
                      /\ Len(line) > Len(c.name) => line[Len(c.name) + 1] = Space
          named == {c \in ToSet(Commands) : Named(c)}
      IN  {Command} = IF named = {} THEN {NULLFUNC} ELSE {c.run : c \in named}

(* s without the c in it.                                                  *)
Without(s, c) ==
    LET kept[i \in 0 .. Len(s)] ==
            IF i = 0 THEN <<>>
            ELSE IF s[i] = c THEN kept[i - 1] ELSE Append(kept[i - 1], s[i])
    IN  kept[Len(s)]

(* Unless the line begins with a space str_split stays within the blocks it*)
(* allocates, and on one that does it never does; the command is given the *)
(* characters after the first space, without the spaces, either way.       *)
ArgumentsSplit ==
    pc = "execute" =>
      LET i == SelectInSeq(line, LAMBDA c : c = Space)
          rest == IF i = 0 THEN <<>> ELSE SubSeq(line, i, Len(line))
      IN  /\ SplitStays(line, Space) <=> i # 1
          /\ ArgsOf(line) = Without(rest, Space)

(* The digits printed for a number read as that number, whether printed by *)
(* int_to_ascii, where its string and the NUL fit into the block allocated *)
(* though that is for the logarithm only (8 digits do not fit), or as 32   *)
(* bits by hex_to_ascii; and prime shows primes.                           *)
NumbersPrinted ==
    LET n == shown.of
        s == shown.text
        digits == IF n < 0 THEN Tail(s) ELSE s
        Value(base, t) == FoldLeft(LAMBDA v, d : base * v + d, 0, t)
        padded == [i \in 1 .. 8 |-> IF i <= 8 - Len(s) THEN 0 ELSE s[i - 8 + Len(s)]]
    IN  /\ shown.as \in {"int", "prime"} =>
             /\ n < 0 <=> Head(s) = Minus
             /\ \A i \in DOMAIN digits : digits[i] \in 0 .. 9
             /\ Len(digits) > 1 => Head(digits) # 0
             /\ Value(10, digits) = (IF n < 0 THEN -n ELSE n)
             /\ n < 10^7 => Len(s) + 1 <= IntBlock(n)
        /\ shown.as = "prime" => \A a \in 2 .. n - 1 : n % a # 0
        /\ shown.as = "hex" =>
             /\ Value(16, SubSeq(padded, 1, 4)) = (n \div 16^4) % 16^4
             /\ Value(16, SubSeq(padded, 5, 8)) = n % 16^4
             /\ Len(s) + 3 <= HexBlock
=============================================================================
