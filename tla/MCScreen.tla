------------------------------ MODULE MCScreen ------------------------------
(* An instance of Screen for TLC: messages of one character and of a line's*)
(* end.                                                                    *)
EXTENDS Screen

CONSTANTS k, m, nl    \* a key, a program's character, and the newline

MCMessages == {<<m>>, <<nl>>}
=============================================================================
