---------------------------- MODULE TaskManager ----------------------------
(***************************************************************************)
(* The preemptive task manager (src/cpu/task_manager.c), the timer callback*)
(* that drives it (src/cpu/timer.c), the int $33 dispatcher that fills it  *)
(* (src/cpu/syscall.c) and the stub both go through (irq_common_stub).     *)
(*                                                                         *)
(* A register frame keeps what the properties tell apart: which thread of  *)
(* control it continues (tid), how far that thread has run (pos, standing  *)
(* for eip and the other general registers), eax, and cr3.  esp is not in  *)
(* it: popa and iret restore none, every thread goes on with the esp it    *)
(* finds.  A thread forked into slot p is called p, the number fork() puts *)
(* in its eax; the thread that runs before any task exists is 0, the slot  *)
(* it will get.  Handlers run behind interrupt gates, with interrupts off, *)
(* and are one step.                                                       *)
(*                                                                         *)
(* The stub executes mov cr3 BEFORE popa and iret, so the frame the handler*)
(* wrote is popped from the stack page of the space it enters.  Only the   *)
(* kernel's space ever had frames pushed in it: in any other one the stub  *)
(* returns through a page nobody wrote (setup_task_paging gives each space *)
(* a stack page of its own), and what follows is not modelled.             *)
(***************************************************************************)
EXTENDS Integers

CONSTANTS
    U8,           \* values of a uint8_t, and the length of tasks[]: 256
    SwitchEvery,  \* timer_callback switches when tick % SwitchEvery = 0: 5
    TickWrap,     \* the value at which tick is set back to 0: 0xFFFFFFFE
    MaxPos,       \* how far a thread's progress is followed
    PageStructs,  \* the page structures there can be
    KernelPages,  \* &kernel_pages
    NULL

ASSUME U8Assumption == U8 \in Nat /\ U8 >= 2
ASSUME TimerAssumption == /\ SwitchEvery \in Nat \ {0}
                          /\ TickWrap \in Nat \ {0}
                          /\ MaxPos \in Nat
ASSUME PageAssumption == KernelPages \in PageStructs /\ NULL \notin PageStructs

VARIABLES
    tasks,      \* [Slots -> [regs, ps]]: TASK tasks[256]
    num_tasks,  \* uint8_t
    cur_task,   \* uint8_t, never reduced: the current slot is cur_task % num_tasks
    cpu,        \* the registers of the CPU outside handlers
    tick,       \* uint32_t
    faulted     \* a handler can no longer return to a program

vars == <<tasks, num_tasks, cur_task, cpu, tick, faulted>>

Slots == 0 .. U8 - 1
Nobody == -1
EaxValues == 0 .. 3 \cup Slots  \* the three system calls, no call, and pids
Regs == [tid : Slots \cup {Nobody}, pos : 0 .. MaxPos, eax : EaxValues,
         cr3 : PageStructs \cup {NULL}]
Task == [regs : Regs, ps : PageStructs \cup {NULL}]

Zeroed == [regs |-> [tid |-> Nobody, pos |-> 0, eax |-> 0, cr3 |-> NULL],
           ps |-> NULL]

Cur == cur_task % num_tasks

Init ==
    /\ tasks = [i \in Slots |-> Zeroed]
    /\ num_tasks = 0
    /\ cur_task = 0
    /\ cpu = [tid |-> 0, pos |-> 0, eax |-> 0, cr3 |-> KernelPages]
    /\ tick = 0
    /\ faulted = FALSE
-----------------------------------------------------------------------------
(* The entry points of task_manager.c, on the frame the stub pushed: cpu.  *)

InsertTask(ebx) ==
    /\ tasks' = [tasks EXCEPT ![num_tasks] = [regs |-> cpu, ps |-> ebx]]
    /\ cur_task' = num_tasks
    /\ num_tasks' = (num_tasks + 1) % U8
    /\ UNCHANGED <<cpu, faulted>>

(* Load the slot next denotes from the table saved, if there is any task.  *)
SwitchVia(saved, next) ==
    LET task == saved[next % num_tasks]
    IN  IF num_tasks = 0
        THEN UNCHANGED <<tasks, num_tasks, cur_task, cpu, faulted>>
        ELSE /\ tasks' = saved
             /\ cur_task' = next
             /\ cpu' = [task.regs EXCEPT !.cr3 = task.ps]
             /\ faulted' = (task.ps # cpu.cr3)
             /\ UNCHANGED num_tasks

(* Mutants of SwitchTask: the slot is advanced before the interrupted task *)
(* is saved; the task is not saved; cur_task saturates instead of wrapping.*)
SwitchTask_AdvanceFirst ==
    LET next == (cur_task + 1) % U8
    IN  SwitchVia([tasks EXCEPT ![next % num_tasks].regs = cpu], next)
SwitchTask_NoSave == SwitchVia(tasks, (cur_task + 1) % U8)
SwitchTask_Saturates ==
    SwitchVia([tasks EXCEPT ![Cur].regs = cpu],
              IF cur_task = U8 - 1 THEN cur_task ELSE cur_task + 1)

SwitchTask ==
    SwitchVia([tasks EXCEPT ![Cur].regs = cpu], (cur_task + 1) % U8)

(* Store child in a new slot, the caller in its own, return 0 to it.       *)
ForkVia(child, ps, n) ==
    /\ tasks' = [tasks EXCEPT ![Cur].regs = cpu,
                              ![num_tasks] = [regs |-> child, ps |-> ps]]
    /\ num_tasks' = n
    /\ cpu' = [cpu EXCEPT !.eax = 0]
    /\ UNCHANGED <<cur_task, faulted>>

(* The child is a copy of the parent that starts at the address in ecx.    *)
Child == [cpu EXCEPT !.tid = num_tasks, !.pos = 0, !.eax = num_tasks]

(* Mutants of Fork: num_tasks is wider than the table is long; the child   *)
(* gets no page structure.                                                 *)
Fork_NoWrap(ebx) == ForkVia(Child, ebx, num_tasks + 1)
Fork_NoSpace(ebx) == ForkVia(Child, NULL, (num_tasks + 1) % U8)

Fork(ebx) == ForkVia(Child, ebx, (num_tasks + 1) % U8)

(* new is the structure copy_nonkernel_pages allocates.                    *)
SetupTaskPaging(new) ==
    /\ tasks' = [tasks EXCEPT ![Cur].ps = new]
    /\ UNCHANGED <<num_tasks, cur_task, cpu, faulted>>
-----------------------------------------------------------------------------
(* The running program advances and leaves some value in eax.              *)
Compute ==
    /\ ~faulted
    /\ \E e \in EaxValues :
          cpu' = [cpu EXCEPT !.eax = e,
                             !.pos = IF @ = MaxPos THEN @ ELSE @ + 1]
    /\ UNCHANGED <<tasks, num_tasks, cur_task, tick, faulted>>

(* Vector 33 reaches syscall(): the program executed int $33, or a key was *)
(* pressed, IRQ 1 having the same number.  eax decides, whatever left it   *)
(* there; ebx is the structure insert_task and fork record.                *)
SysInsertTask(ebx) ==
    /\ ~faulted
    /\ cpu.eax = 0
    /\ InsertTask(ebx)
    /\ UNCHANGED tick

SysFork(ebx) ==
    /\ ~faulted
    /\ cpu.eax = 1 /\ num_tasks # 0
    /\ Fork(ebx)
    /\ UNCHANGED tick

SysSetupTaskPaging ==
    /\ ~faulted
    /\ cpu.eax = 2 /\ num_tasks # 0
    /\ \E new \in PageStructs \ {KernelPages} :
          /\ \A i \in Slots : tasks[i].ps # new
          /\ SetupTaskPaging(new)
    /\ UNCHANGED tick

(* cur_task % num_tasks with no task: the #DE handler prints and returns   *)
(* to the same division for ever.                                          *)
DivideError ==
    /\ ~faulted
    /\ cpu.eax \in {1, 2} /\ num_tasks = 0
    /\ faulted' = TRUE
    /\ UNCHANGED <<tasks, num_tasks, cur_task, cpu, tick>>

TimerCallback ==
    LET t == IF tick + 1 = TickWrap THEN 0 ELSE tick + 1
    IN  /\ ~faulted
        /\ tick' = t
        /\ IF t % SwitchEvery = 0
           THEN SwitchTask
           ELSE UNCHANGED <<tasks, num_tasks, cur_task, cpu, faulted>>

Next ==
    \/ Compute
    \/ \E ebx \in PageStructs : SysInsertTask(ebx)
    \/ \E ebx \in PageStructs : SysFork(ebx)
    \/ SysSetupTaskPaging
    \/ DivideError
    \/ TimerCallback

Spec == Init /\ [][Next]_vars
-----------------------------------------------------------------------------
(* What a caller must do for the table to stay in step with the CPU.       *)

(* A task is inserted once, before any other exists.                       *)
InsertSafe == num_tasks = 0

(* The forking task keeps its slot when num_tasks grows by one (cur_task   *)
(* is reduced by num_tasks wherever it is used), and the table has room.   *)
ForkSafe == /\ cur_task % num_tasks = cur_task % (num_tasks + 1)
            /\ num_tasks + 1 < U8

DisciplinedNext ==
    \/ Compute
    \/ InsertSafe /\ SysInsertTask(KernelPages)
    \/ SysFork(KernelPages) /\ ForkSafe
    \/ TimerCallback

DisciplinedSpec == Init /\ [][DisciplinedNext]_vars

(* The PIT interrupts periodically, whatever the programs do. *)
FairDisciplinedSpec == DisciplinedSpec /\ WF_vars(TimerCallback)

(* kernel_main: one sys_insert_task, one sys_fork by the same thread, the  *)
(* timer running since irq_install.                                        *)
KernelNext ==
    \/ Compute
    \/ InsertSafe /\ SysInsertTask(KernelPages)
    \/ num_tasks = 1 /\ cpu.tid = 0 /\ SysFork(KernelPages)
    \/ TimerCallback

KernelSpec == Init /\ [][KernelNext]_vars
-----------------------------------------------------------------------------
TypeOK ==
    /\ tasks \in [Slots -> Task]
    /\ num_tasks \in Slots
    /\ cur_task \in Slots
    /\ cpu \in Regs
    /\ tick \in 0 .. TickWrap - 1
    /\ faulted \in BOOLEAN

(* The slot cur_task denotes is the one of the thread the CPU executes, so *)
(* the next save goes where that thread will be resumed from, and every    *)
(* other slot holds the thread that got its number: switch_task, fork and  *)
(* insert_task never overwrite the only copy of a suspended thread.        *)
Coherent ==
    /\ num_tasks = 0 => cpu.tid = 0
    /\ num_tasks # 0 => Cur = cpu.tid
    /\ \A i \in Slots : i < num_tasks /\ i # cpu.tid => tasks[i].regs.tid = i

(* The only ways to lose a thread are a second insert_task, a fork at a    *)
(* cur_task that denotes another slot once num_tasks has grown, and the    *)
(* fork or insert that makes the 8-bit num_tasks wrap: no interleaving of  *)
(* timer interrupts with anything else does it.                            *)
OnlyMisuseBreaksTasks ==
    [][ Coherent /\ ~faulted' /\ ~Coherent'
        => \/ cpu.eax = 0 /\ ~InsertSafe /\ cur_task' = num_tasks
           \/ cpu.eax = 1 /\ num_tasks # 0 /\ ~ForkSafe /\ num_tasks' # num_tasks ]_vars

(* A thread is never resumed in the middle of another one's address space, *)
(* nor the system lost in a handler, as long as the tasks share the        *)
(* kernel's page structure and fork and insert_task are used as above.     *)
NeverFaults == ~faulted /\ cpu.cr3 = KernelPages

(* Every task in the table gets the CPU again and again (switch_task is    *)
(* round robin), also across the wrap of the 8-bit cur_task and of tick.   *)
EveryTaskRuns == \A t \in Slots : []<>(t < num_tasks => cpu.tid = t)

(* kernel.c prints "<result> is the tasks PID." in each of the two tasks:  *)
(* the slot of the forked one keeps holding the forked one.                *)
ForkedTaskKept ==
    num_tasks = 2 /\ cpu.tid # 1 => tasks[1].regs.tid = 1

(* switch_task leaves the processes' contexts alone and runs another one,  *)
(* fork adds one: the task manager implements Processes.                   *)
Context(r) == [pos |-> r.pos, eax |-> r.eax]
Alive == IF num_tasks = 0 THEN {0} ELSE 0 .. num_tasks - 1

Abs == INSTANCE Processes WITH
    Pids <- Slots,
    Mother <- 0,
    alive <- Alive,
    running <- cpu.tid,
    context <- [p \in Alive |-> IF p = cpu.tid THEN Context(cpu)
                                ELSE Context(tasks[p].regs)]

ImplementsProcesses == Abs!Spec
=============================================================================
