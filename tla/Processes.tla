----------------------------- MODULE Processes -----------------------------
(***************************************************************************)
(* What preemptive multitasking promises the threads it runs, and nothing  *)
(* about how: every process owns a context (how far it has run and the     *)
(* value in its return register), only the running process changes its own *)
(* context, and being switched out and in again changes no context at all. *)
(* TaskManager, which keeps the contexts in an array of saved register     *)
(* frames, is shown to implement this module.                              *)
(***************************************************************************)
EXTENDS Naturals

CONSTANTS
    Pids,    \* the process identifiers there are
    Mother   \* the process the kernel starts as

VARIABLES
    alive,    \* the processes that exist
    running,  \* the one the CPU executes
    context   \* alive -> [pos, eax]

pvars == <<alive, running, context>>

Contexts == [pos : Nat, eax : Nat]

Init ==
    /\ alive = {Mother}
    /\ running = Mother
    /\ context = [p \in {Mother} |-> [pos |-> 0, eax |-> 0]]

(* The running process executes: it never goes back, and nobody else moves. *)
Run ==
    /\ DOMAIN context' = alive
    /\ \A p \in alive \ {running} : context'[p] = context[p]
    /\ context'[running].pos >= context[running].pos
    /\ UNCHANGED <<alive, running>>

(* The running process forks p: p starts at the beginning with its own     *)
(* identifier in the return register, the parent finds 0 there.            *)
Spawn(p) ==
    /\ p \in Pids \ alive
    /\ alive' = alive \cup {p}
    /\ context' = [q \in alive \cup {p} |->
                      IF q = p THEN [pos |-> 0, eax |-> p]
                      ELSE IF q = running THEN [context[q] EXCEPT !.eax = 0]
                      ELSE context[q]]
    /\ UNCHANGED running

Dispatch(p) ==
    /\ p \in alive
    /\ running' = p
    /\ UNCHANGED <<alive, context>>

Next == Run \/ \E p \in Pids : Spawn(p) \/ Dispatch(p)

Spec == Init /\ [][Next]_pvars
=============================================================================
