----------------------------- MODULE MCPrograms -----------------------------
(* The command list with short names over two letters, and numbers around  *)
(* the powers of ten, small and extreme ones.                              *)
EXTENDS Programs

CONSTANTS k, l

MCCommands ==
    LET head == <<[name |-> <<>>, run |-> NULLFUNC]>>
        kernel_main == <<[name |-> <<k>>, run |-> "END"],
                         [name |-> <<l>>, run |-> "PAGE"],
                         [name |-> <<k, l>>, run |-> "ECHO"],
                         [name |-> <<l, k>>, run |-> "LS"],
                         [name |-> <<k, k>>, run |-> "HELP"],
                         [name |-> <<k, k, k>>, run |-> "DEBUG_PAUSE"],
                         [name |-> <<l, l>>, run |-> "RUN"]>>
    IN  FoldLeft(LAMBDA list, c : RegisterCommand(list, c.name, c.run),
                 head, kernel_main)

MCLetters == {k, l, Space}
MCMinus == -3
MCNumbers ==
    LET around == UNION {{10^i - 1, 10^i, 10^i + 1} : i \in 1 .. 9}
        some == around \cup {0, 1, 7, IntMax - 1, IntMax}
    IN  some \cup {-i : i \in some}
MCAddresses == {13631488, 83881984, 16, 255, 4096, -1, 0, 305419896}
MCDivisors == 2 .. 60
=============================================================================
