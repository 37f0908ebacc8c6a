---------------------------- MODULE MCInterrupts ----------------------------
(* Instance of Interrupts for TLC.                                         *)
EXTENDS Interrupts

(* Two pushes and a jump at most, nine bytes, one after the other.         *)
StubCode == [v \in Vectors |-> 4096 + 9 * v]
=============================================================================
