---------------------------- MODULE MCFilesystem ----------------------------
(* Instances of Filesystem for TLC.                                        *)
EXTENDS Filesystem

CONSTANTS
    a, b,   \* the contents of sectors
    x       \* the name of a program

(* One sector, two, and two of which the second is not full.               *)
MixedData == {[sectors |-> <<a>>, whole |-> 1],
              [sectors |-> <<a, b>>, whole |-> 2],
              [sectors |-> <<b, a>>, whole |-> 1]}

(* The heap left a number in the second slot.                              *)
SomeResidue == <<0, 4, 0>>

NoPrograms == <<>>
OneProgram == <<[name |-> x, lba |-> 3, length |-> 1]>>
=============================================================================
