-------------------------------- MODULE Timer -------------------------------
(***************************************************************************)
(* Waiting for timer interrupts (wait_ticks of src/cpu/timer.c): the loop  *)
(* compares a 32-bit difference of tick with the number of ticks to wait,  *)
(* while timer_callback sets tick back to 0 before it would wrap.          *)
(***************************************************************************)
EXTENDS Integers

CONSTANTS
    U32,      \* values of a uint32_t: 2^32
    TickWrap  \* the value at which tick is set back to 0: U32 - 2

ASSUME TickAssumption == U32 \in Nat /\ TickWrap \in 1 .. U32

Ticks == 0 .. TickWrap - 1

(* tick, k interrupts after it was t.                                      *)
TickAfter(t, k) == (t + k) % TickWrap

(* Mutant: the operands are exchanged.                                     *)
Elapsed_Swapped(now, start) == (start - now) % U32

Elapsed(now, start) == (now - start) % U32
=============================================================================
