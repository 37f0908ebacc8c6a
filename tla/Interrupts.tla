----------------------------- MODULE Interrupts -----------------------------
(***************************************************************************)
(* Interrupts from the line to the handler and back: kernel_main's setup of*)
(* them (src/cpu/isr.c, idt.c, timer.c), the stubs (src/cpu/interrupt.asm),*)
(* isr_handler, irq_handler and the handlers, and, external, the two 8259  *)
(* controllers.                                                            *)
(*                                                                         *)
(* One program runs; what switch_task does to the frame is TaskManager's.  *)
(* The interrupts being handled are a stack of frames, the innermost last: *)
(* kprint_at ends with sti, so a handler that prints can be interrupted.   *)
(* Of the devices there are the timer, the keyboard and the drive; a line  *)
(* is its number, 0, 1 or 14, and the controllers' requests are edges.     *)
(***************************************************************************)
EXTENDS SequencesExt, FiniteSetsExt, Timer

CONSTANTS
    MaxDepth,  \* bound: interrupts being handled at once
    Stub,      \* where the linker put the code of isr0 to irq15
    U16        \* values of a uint16_t, half an address

Vectors == 0 .. 47
Lines == {0, 1, 14}

(* The kernel this is about is linked at 0x1000 and its stubs lie below    *)
(* 0x10000: gates to other addresses would lose their high half.           *)
ASSUME InterruptsAssumption ==
    /\ MaxDepth \in Nat \ {0} /\ U16 \in Nat
    /\ Stub \in [Vectors -> 1 .. U16 - 1] /\ IsInjective(Stub)

VARIABLES
    boot,      \* how far kernel_main is
    interrupt_handlers,
    enabled,   \* the interrupt flag
    frames,    \* [int_no, pc, flag]: flag is that of what was interrupted
    irr,       \* lines requested
    master, slave,  \* lines in service; the slave is line 2 of the master
    port60,    \* the keyboard holds a scancode
    intrq,     \* the drive's interrupt line
    wait       \* the call of wait_ticks: [on, start, n, tick, seen]

cpu == <<boot, interrupt_handlers, enabled, frames>>
pic == <<irr, master, slave, port60, intrq>>
vars == <<cpu, pic, wait>>

Init ==
    /\ boot = "isr_install" /\ enabled = FALSE /\ frames = <<>>
    /\ interrupt_handlers = [v \in Vectors |-> "none"]
    /\ irr = {} /\ master = {} /\ slave = {} /\ port60 = FALSE /\ intrq = FALSE
    /\ wait = [on |-> FALSE, start |-> 0, n |-> 0, tick |-> 0, seen |-> 0]
-----------------------------------------------------------------------------
(* kernel_main                                                             *)

Booting(from, to) ==
    /\ boot = from /\ frames = <<>> /\ boot' = to
    /\ UNCHANGED <<frames, pic, wait>>

(* Mutant: the addresses are cut to a byte.                                *)
SetIdtGate_Byte(handler) == handler % 256

(* set_idt_gate shifts nothing: the high half of an address is lost.       *)
SetIdtGate(handler) == handler % U16

(* Where the gates lead once isr_install has set them, and the number that *)
(* the code there pushes; 48 stands for an address that is no stub's.      *)
idt(v) == SetIdtGate(Stub[v])
Pushed(address) ==
    IF address \in Range(Stub) THEN CHOOSE v \in Vectors : Stub[v] = address ELSE 48

(* The gates and the controllers' setup; the bootloader left interrupts off.*)
IsrInstall ==
    /\ Booting("isr_install", "sti")
    /\ UNCHANGED <<interrupt_handlers, enabled>>

Register(from, n, handler, to) ==
    /\ Booting(from, to)
    /\ interrupt_handlers' = [interrupt_handlers EXCEPT ![n] = handler]
    /\ UNCHANGED enabled

(* irq_install, interrupts on before any handler is there.                 *)
EnableInterrupts ==
    /\ Booting("sti", "timer")
    /\ enabled' = TRUE
    /\ UNCHANGED interrupt_handlers
InitTimer == Register("timer", 32, "timer_callback", "disk")
RegisterDisk == Register("disk", 46, "disk_interrupt", "keyboard")

InitKeyboard == Register("keyboard", 33, "default_keyboard_callback", "paging")
EnablePaging == Register("paging", 14, "page_fault", "syscalls")
EnableSyscalls == Register("syscalls", 33, "syscall", "running")

(* read_line and await_keypress take vector 33 back for the keyboard.      *)
ReadLineKeyboard ==
    Register("running", 33, "default_keyboard_callback", "running")

Boot ==
    \/ IsrInstall \/ EnableInterrupts \/ InitTimer \/ RegisterDisk
    \/ InitKeyboard \/ EnablePaging \/ EnableSyscalls
-----------------------------------------------------------------------------
(* The controllers (external) and the devices' lines.                      *)

(* The program runs, between interrupts.                                   *)
Program == boot = "running" /\ frames = <<>>

(* Bound on the devices' rates: none makes a request while one of lower    *)
(* priority waits.  The same requests are there together when they are made*)
(* in the other order.                                                     *)
Tick ==
    /\ boot # "isr_install" /\ irr = {}
    /\ irr' = irr \cup {0}
    /\ UNCHANGED <<cpu, master, slave, port60, intrq, wait>>
Key ==
    /\ boot # "isr_install" /\ irr \subseteq {0} /\ ~port60
    /\ port60' = TRUE /\ irr' = irr \cup {1}
    /\ UNCHANGED <<cpu, master, slave, intrq, wait>>

(* The drive has or has stored a sector; the driver polls the status, which*)
(* lowers the line.                                                        *)
Intrq ==
    /\ boot = "running" /\ ~intrq
    /\ intrq' = TRUE /\ irr' = irr \cup {14}
    /\ UNCHANGED <<cpu, master, slave, port60, wait>>
PollStatus ==
    /\ Program /\ intrq
    /\ intrq' = FALSE
    /\ UNCHANGED <<cpu, irr, master, slave, port60, wait>>

(* A master line is served if none of its own priority or above is.        *)
Free(l) == \A m \in master : l < m

Enter(v) ==
    /\ Len(frames) < MaxDepth
    /\ frames' = Append(frames, [int_no |-> Pushed(idt(v)), pc |-> "stub",
                              flag |-> enabled])
    /\ enabled' = FALSE
    /\ UNCHANGED <<boot, interrupt_handlers, port60, intrq, wait>>

(* The lower number is served first.                                       *)
AcceptMaster(l) ==
    /\ enabled /\ l \in {0, 1} /\ l \in irr /\ Free(l) /\ \A m \in irr : l <= m
    /\ Enter(32 + l)
    /\ irr' = irr \ {l} /\ master' = master \cup {l} /\ UNCHANGED slave

(* The slave's request comes through line 2 of the master.  A request that *)
(* was withdrawn, INTRQ being low again, may arrive as a spurious one.     *)
AcceptSlave ==
    /\ enabled /\ irr = {14} /\ Free(2) /\ slave = {}
    /\ irr' = {} /\ master' = master \cup {2}
    /\ \/ Enter(46) /\ slave' = {14}
       \/ ~intrq /\ Enter(47) /\ UNCHANGED slave
-----------------------------------------------------------------------------
(* The handlers.  They run with interrupts off until they print, and what  *)
(* they do before that is one step.                                        *)

Frame == Last(frames)
Handler == interrupt_handlers[Frame.int_no]
Stubbed(handler) == frames # <<>> /\ Frame.pc = "stub" /\ Handler = handler

(* A non-specific end of interrupt: the highest line in service is done.   *)
Done(inService) == inService \ (IF inService = {} THEN {} ELSE {Min(inService)})

(* Mutant: the slave's interrupts are acknowledged at the slave only.      *)
SendEoi_SlaveOnly(int_no) ==
    /\ slave' = IF int_no >= 40 THEN Done(slave) ELSE slave
    /\ master' = IF int_no \in 32 .. 39 THEN Done(master) ELSE master

(* Mutant: no acknowledgement before a handler that prints.                *)
SendEoi_Late(int_no) ==
    /\ slave' = IF int_no >= 40 THEN Done(slave) ELSE slave
    /\ master' = IF int_no >= 32 /\ Handler # "default_keyboard_callback"
                 THEN Done(master) ELSE master

(* irq_handler acknowledges before it calls; isr_handler does not at all.  *)
SendEoi(int_no) ==
    /\ slave' = IF int_no >= 40 THEN Done(slave) ELSE slave
    /\ master' = IF int_no >= 32 THEN Done(master) ELSE master

(* The stub's way back: iret restores the flag.                            *)
Iret ==
    /\ frames' = Front(frames)
    /\ enabled' = Frame.flag

(* The handler prints: kprint_at ends with sti, whatever comes after it.   *)
Kprint(next, flag) ==
    /\ frames' = [frames EXCEPT ![Len(frames)].pc = next]
    /\ enabled' = flag

(* timer_callback; the switch is TaskManager's.  tick is followed while    *)
(* wait_ticks looks at it.                                                 *)
TimerCallback ==
    /\ Stubbed("timer_callback")
    /\ SendEoi(Frame.int_no)
    /\ Iret
    /\ wait' = IF wait.on THEN [wait EXCEPT !.tick = TickAfter(@, 1),
                                            !.seen = Min({@ + 1, wait.n})]
               ELSE wait
    /\ UNCHANGED <<boot, interrupt_handlers, irr, port60, intrq>>

(* default_keyboard_callback: the scancode is read, so that the keyboard   *)
(* can raise its line again, and most keys are printed.                    *)
KeyboardCallback ==
    /\ Stubbed("default_keyboard_callback")
    /\ SendEoi(Frame.int_no)
    /\ port60' = FALSE
    /\ Iret \/ Kprint("return", TRUE)
    /\ UNCHANGED <<boot, interrupt_handlers, irr, intrq, wait>>

(* disk_interrupt reads the status and acknowledges once more.             *)
DiskInterrupt ==
    /\ Stubbed("disk_interrupt")
    /\ slave' = Done(Done(slave)) /\ master' = Done(Done(master))
    /\ intrq' = FALSE
    /\ Iret
    /\ UNCHANGED <<boot, interrupt_handlers, irr, port60, wait>>

(* syscall, or irq_handler with no handler registered: this module's state *)
(* is as before.  isr_handler without one prints the exception's name.     *)
OtherHandler ==
    /\ Stubbed("syscall") \/ Stubbed("none")
    /\ SendEoi(Frame.int_no)
    /\ IF Frame.int_no < 32 THEN Kprint("return", TRUE) ELSE Iret
    /\ UNCHANGED <<boot, interrupt_handlers, irr, port60, intrq, wait>>

(* page_fault prints and loops for ever.                                   *)
PageFault ==
    /\ Stubbed("page_fault")
    /\ Kprint("loop", TRUE)
    /\ UNCHANGED <<boot, interrupt_handlers, pic, wait>>

(* What a handler does after it has printed.                               *)
Return ==
    /\ frames # <<>> /\ Frame.pc = "return"
    /\ Iret
    /\ UNCHANGED <<boot, interrupt_handlers, pic, wait>>

HandlerStep ==
    \/ TimerCallback \/ KeyboardCallback \/ DiskInterrupt
    \/ OtherHandler \/ PageFault \/ Return
-----------------------------------------------------------------------------
(* The program enters vector 33 with an int, or faults: divides by 0 or    *)
(* touches a page that is not there.  When a handler returns from a fault  *)
(* the same instruction is executed again, and usually faults again.       *)
Trap ==
    /\ Program /\ ~wait.on
    /\ \E v \in {0, 14, 33} : Enter(v)
    /\ UNCHANGED <<irr, master, slave>>

(* wait_ticks(n), whatever tick is by then.                                *)
StartWait ==
    /\ Program /\ ~wait.on
    /\ \E start \in Ticks, n \in 0 .. U32 - 1 :
          wait' = [on |-> TRUE, start |-> start, n |-> n, tick |-> start, seen |-> 0]
    /\ UNCHANGED <<cpu, pic>>

EndWait ==
    /\ Program /\ wait.on
    /\ Elapsed(wait.tick, wait.start) >= wait.n
    /\ wait' = [wait EXCEPT !.on = FALSE]
    /\ UNCHANGED <<cpu, pic>>
-----------------------------------------------------------------------------
Accept == AcceptSlave \/ \E l \in {0, 1} : AcceptMaster(l)

Next ==
    \/ Boot \/ ReadLineKeyboard
    \/ Tick \/ Key \/ Intrq \/ PollStatus
    \/ Accept \/ HandlerStep
    \/ Trap \/ StartWait \/ EndWait

(* The CPU executes handlers and kernel_main.  Between two ticks, 20 ms,   *)
(* there is time for the handlers and some of the program: traps, handlers *)
(* and other requests do not put a request or kernel_main off for ever.    *)
Fairness ==
    /\ WF_vars(HandlerStep) /\ SF_vars(Boot)
    /\ SF_vars(AcceptSlave) /\ \A l \in {0, 1} : SF_vars(AcceptMaster(l))

Spec == Init /\ [][Next]_vars /\ Fairness
-----------------------------------------------------------------------------
TypeOK ==
    /\ interrupt_handlers \in [Vectors -> {"none", "timer_callback", "syscall",
         "disk_interrupt", "default_keyboard_callback", "page_fault"}]
    /\ enabled \in BOOLEAN /\ port60 \in BOOLEAN
    /\ \A i \in DOMAIN frames : frames[i].int_no \in Vectors
    /\ irr \subseteq Lines /\ master \subseteq {0, 1, 2} /\ slave \subseteq {14}

(* Whenever interrupts are on, also inside a handler that prints and may be*)
(* switched away from, no line is in service: none waits for a handler to  *)
(* be resumed, and neither the acknowledgement an int $33 makes nor the    *)
(* second one of disk_interrupt can end somebody else's service.           *)
NothingHeldBack == enabled => master = {} /\ slave = {}

(* Every interrupt a device requests once the controllers are set up enters*)
(* the stub of its own number: handlers that print, a disk interrupt that  *)
(* the driver's polling withdraws, int $33 and even page_fault's endless   *)
(* loop do not prevent it.                                                 *)
Entered(l) ==
    frames # <<>> /\ (Frame.int_no = 32 + l \/ (l = 14 /\ Frame.int_no = 47))
LinesServed == \A l \in Lines : l \in irr ~> Entered(l)

(* wait_ticks(n) does not return before n timer interrupts, except by as   *)
(* many as tick skips when it is set back to 0.                            *)
WaitLasts ==
    [][wait.on /\ ~wait'.on =>
         wait.seen >= (IF wait.start + wait.n < TickWrap THEN wait.n
                       ELSE wait.n - (U32 - TickWrap))]_vars
=============================================================================
