SPECIFICATION Spec
CONSTANTS
    k = k
    l = l
    Letters <- MCLetters
    Space = sp
    Enter = enter
    Backspace = bs
    I8 = 3
    Room = 5
    IntMax = 2147483647
    Alignment = 8
    Minus <- MCMinus
    NULLFUNC = "NULLFUNC"
    Commands <- MCCommands
    Numbers <- MCNumbers
    Addresses <- MCAddresses
    Divisors <- MCDivisors
INVARIANTS CommandKept FirstWordRuns ArgumentsSplit NumbersPrinted
PROPERTIES PollEnds KeyboardStays
CHECK_DEADLOCK FALSE
