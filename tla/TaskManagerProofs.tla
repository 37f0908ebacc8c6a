------------------------- MODULE TaskManagerProofs -------------------------
(***************************************************************************)
(* Theorems about TaskManager, for every table size, tick period and set   *)
(* of page structures: type correctness of everything the handlers can do, *)
(* coherence of the task table under the calling discipline (DInv is the   *)
(* inductive invariant), and the implementation of Processes.              *)
(***************************************************************************)
EXTENDS TaskManager, TLAPS

(* x % n is an index below n. *)
LEMMA ModRange ==
    ASSUME NEW x \in Nat, NEW n \in Nat, n > 0
    PROVE  x % n \in Nat /\ x % n < n
OBVIOUS

(* A slot number stays one modulo U8. *)
LEMMA ModSlots == ASSUME NEW x \in Nat PROVE x % U8 \in Slots
BY ModRange, U8Assumption DEF Slots

(* The slot cur_task denotes is below num_tasks. *)
LEMMA CurBelowNumTasks ==
    ASSUME TypeOK, num_tasks # 0
    PROVE  Cur \in Slots /\ Cur < num_tasks
<1>1. cur_task \in Nat /\ num_tasks \in Nat /\ num_tasks > 0 /\ num_tasks < U8
  BY U8Assumption DEF TypeOK, Slots
<1>2. Cur \in Nat /\ Cur < num_tasks
  BY <1>1, ModRange DEF Cur
<1> QED BY <1>1, <1>2, U8Assumption DEF Slots

(* Incrementing a uint8_t gives a uint8_t. *)
LEMMA IncrementSlots == ASSUME NEW x \in Slots PROVE (x + 1) % U8 \in Slots
<1>1. x + 1 \in Nat
  BY U8Assumption DEF Slots
<1> QED BY <1>1, ModSlots
-----------------------------------------------------------------------------
(* What SwitchTask loads when a task exists: the frame in the slot it      *)
(* advances to, after the frame of the interrupted thread has been stored. *)
LEMMA SwitchTaskTypes ==
    ASSUME TypeOK, SwitchTask
    PROVE  /\ tasks' \in [Slots -> Task] /\ num_tasks' \in Slots
           /\ cur_task' \in Slots /\ cpu' \in Regs /\ faulted' \in BOOLEAN
<1>1. CASE num_tasks = 0
  BY <1>1 DEF TypeOK, SwitchTask, SwitchVia
<1>2. CASE num_tasks # 0
  <2> DEFINE saved == [tasks EXCEPT ![Cur].regs = cpu]
             next  == (cur_task + 1) % U8
             task  == saved[next % num_tasks]
  <2>1. Cur \in Slots
    BY <1>2, CurBelowNumTasks
  <2>2. saved \in [Slots -> Task]
    BY <2>1 DEF TypeOK, Task
  <2>3. next \in Slots
    BY IncrementSlots DEF TypeOK
  <2>4. next % num_tasks \in Slots
    <3>1. next \in Nat /\ num_tasks \in Nat /\ num_tasks > 0 /\ num_tasks < U8
      BY <1>2, <2>3, U8Assumption DEF TypeOK, Slots
    <3>2. next % num_tasks \in Nat /\ next % num_tasks < num_tasks
      BY <3>1, ModRange
    <3> QED BY <3>1, <3>2, U8Assumption DEF Slots
  <2>5. task \in Task
    BY <2>2, <2>4
  <2>6. tasks' = saved /\ cur_task' = next /\ num_tasks' = num_tasks
        /\ cpu' = [task.regs EXCEPT !.cr3 = task.ps]
        /\ faulted' = (task.ps # cpu.cr3)
    BY <1>2 DEF SwitchTask, SwitchVia
  <2>7. cpu' \in Regs
    BY <2>5, <2>6 DEF Task, Regs
  <2> QED BY <2>2, <2>3, <2>6, <2>7 DEF TypeOK
<1> QED BY <1>1, <1>2

LEMMA TypeInit == Init => TypeOK
<1>1. 0 \in Slots
  BY U8Assumption DEF Slots
<1>2. Zeroed \in Task
  BY TimerAssumption DEF Zeroed, Task, Regs, EaxValues, Slots
<1>3. 0 \in 0 .. MaxPos /\ 0 \in EaxValues /\ 0 \in 0 .. TickWrap - 1
  BY TimerAssumption DEF EaxValues
<1> SUFFICES ASSUME Init PROVE TypeOK
  OBVIOUS
<1>4. cpu \in Regs
  BY <1>1, <1>3, PageAssumption DEF Init, Regs
<1>5. tasks \in [Slots -> Task]
  BY <1>2 DEF Init
<1> QED BY <1>1, <1>3, <1>4, <1>5 DEF Init, TypeOK

LEMMA TypeNext == TypeOK /\ [Next]_vars => TypeOK'
<1> SUFFICES ASSUME TypeOK, [Next]_vars PROVE TypeOK'
  OBVIOUS
<1> USE DEF TypeOK
<1>1. CASE Compute
  <2>1. PICK e \in EaxValues :
          cpu' = [cpu EXCEPT !.eax = e, !.pos = IF @ = MaxPos THEN @ ELSE @ + 1]
    BY <1>1 DEF Compute
  <2>2. cpu.pos \in 0 .. MaxPos
    BY DEF Regs
  <2>3. (IF cpu.pos = MaxPos THEN cpu.pos ELSE cpu.pos + 1) \in 0 .. MaxPos
    BY <2>2, TimerAssumption
  <2>4. cpu' \in Regs
    BY <2>1, <2>3 DEF Regs
  <2> QED BY <1>1, <2>4 DEF Compute
<1>2. ASSUME NEW ebx \in PageStructs, SysInsertTask(ebx) PROVE TypeOK'
  <2>1. (num_tasks + 1) % U8 \in Slots
    BY IncrementSlots
  <2>2. [regs |-> cpu, ps |-> ebx] \in Task
    BY DEF Task
  <2> QED BY <1>2, <2>1, <2>2 DEF SysInsertTask, InsertTask
<1>3. ASSUME NEW ebx \in PageStructs, SysFork(ebx) PROVE TypeOK'
  <2>1. (num_tasks + 1) % U8 \in Slots
    BY IncrementSlots
  <2>2. Cur \in Slots
    BY <1>3, CurBelowNumTasks DEF SysFork
  <2>3. [cpu EXCEPT !.eax = 0] \in Regs
    BY DEF Regs, EaxValues
  <2>4. ASSUME NEW e \in EaxValues
        PROVE  [cpu EXCEPT !.tid = num_tasks, !.pos = 0, !.eax = e] \in Regs
    <3>1. 0 \in 0 .. MaxPos /\ num_tasks \in Slots \cup {Nobody}
      BY TimerAssumption
    <3> QED BY <3>1 DEF Regs
  <2>5. num_tasks \in EaxValues
    BY DEF EaxValues
  <2>6. [regs |-> [cpu EXCEPT !.tid = num_tasks, !.pos = 0, !.eax = num_tasks],
         ps |-> ebx] \in Task
    BY <2>4, <2>5 DEF Task
  <2>7. [tasks EXCEPT ![Cur].regs = cpu] \in [Slots -> Task]
    BY <2>2 DEF Task
  <2>8. tasks' \in [Slots -> Task]
    BY <1>3, <2>6, <2>7 DEF SysFork, Fork, ForkVia, Child
  <2> QED BY <1>3, <2>1, <2>3, <2>8 DEF SysFork, Fork, ForkVia, Child
<1>4. CASE SysSetupTaskPaging
  <2>1. Cur \in Slots
    BY <1>4, CurBelowNumTasks DEF SysSetupTaskPaging
  <2> QED BY <1>4, <2>1 DEF SysSetupTaskPaging, SetupTaskPaging, Task
<1>5. CASE DivideError
  BY <1>5 DEF DivideError
<1>6. CASE TimerCallback
  <2>1. tick' \in 0 .. TickWrap - 1
    BY <1>6, TimerAssumption DEF TimerCallback
  <2>2. \/ SwitchTask
        \/ UNCHANGED <<tasks, num_tasks, cur_task, cpu, faulted>>
    BY <1>6 DEF TimerCallback
  <2>3. CASE SwitchTask
    BY <2>1, <2>3, SwitchTaskTypes
  <2> QED BY <2>1, <2>2, <2>3
<1>7. CASE UNCHANGED vars
  BY <1>7 DEF vars
<1> QED BY <1>1, <1>2, <1>3, <1>4, <1>5, <1>6, <1>7 DEF Next

(* Whatever programs put in eax and ebx, whenever the timer and the        *)
(* keyboard interrupt, the kernel's variables keep their types: no index   *)
(* into tasks[] leaves the table, also where the 8-bit counters wrap.      *)
THEOREM TypeCorrect == Spec => []TypeOK
<1> QED BY TypeInit, TypeNext, PTL DEF Spec
-----------------------------------------------------------------------------
(* Coherence, step by step.  Each lemma needs only the types.              *)

(* The switch: save to the current slot, advance, load.                    *)
LEMMA SwitchTaskCoherent ==
    ASSUME TypeOK, Coherent, SwitchTask
    PROVE  Coherent'
<1>1. CASE num_tasks = 0
  BY <1>1 DEF SwitchTask, SwitchVia, Coherent, Cur
<1>2. CASE num_tasks # 0
  <2> DEFINE j == cur_task' % num_tasks
  <2>1. Cur \in Slots /\ Cur = cpu.tid
    BY <1>2, CurBelowNumTasks DEF Coherent
  <2>2. cur_task' \in Slots /\ num_tasks' = num_tasks
    BY <1>2, SwitchTaskTypes DEF SwitchTask, SwitchVia
  <2>3. j \in Slots /\ j < num_tasks
    <3>1. cur_task' \in Nat /\ num_tasks \in Nat /\ num_tasks > 0 /\ num_tasks < U8
      BY <1>2, <2>2, U8Assumption DEF TypeOK, Slots
    <3>2. j \in Nat /\ j < num_tasks
      BY <3>1, ModRange
    <3> HIDE DEF j
    <3> QED BY <3>1, <3>2, U8Assumption DEF Slots
  <2>4. /\ tasks' = [tasks EXCEPT ![Cur].regs = cpu]
        /\ cpu' = [tasks'[j].regs EXCEPT !.cr3 = tasks'[j].ps]
    BY <1>2 DEF SwitchTask, SwitchVia
  <2>5. \A i \in Slots : tasks'[i].regs = IF i = Cur THEN cpu ELSE tasks[i].regs
    BY <2>1, <2>4 DEF TypeOK, Task
  <2>6. \A i \in Slots : i < num_tasks => tasks'[i].regs.tid = i
    BY <2>1, <2>5, <1>2 DEF Coherent
  <2>7. tasks'[j].regs \in Regs
    BY <2>3, SwitchTaskTypes DEF Task
  <2>8. cpu'.tid = j
    BY <2>3, <2>4, <2>6, <2>7 DEF Regs
  <2>9. Cur' = j
    BY <2>2 DEF Cur
  <2> QED BY <1>2, <2>2, <2>6, <2>8, <2>9 DEF Coherent
<1> QED BY <1>1, <1>2

LEMMA InsertTaskCoherent ==
    ASSUME TypeOK, Coherent, NEW ebx, InsertSafe, InsertTask(ebx)
    PROVE  Coherent'
<1>1. num_tasks = 0 /\ cpu.tid = 0 /\ cpu' = cpu
  BY DEF InsertSafe, Coherent, InsertTask
<1>2. num_tasks' = 1 /\ cur_task' = 0
  <2>1. (0 + 1) % U8 = 1
    BY U8Assumption
  <2> QED BY <1>1, <2>1 DEF InsertTask
<1>3. Cur' = 0
  BY <1>2 DEF Cur
<1>4. \A i \in Slots : i < 1 => i = 0
  BY U8Assumption DEF Slots
<1> QED BY <1>1, <1>2, <1>3, <1>4 DEF Coherent

LEMMA ForkCoherent ==
    ASSUME TypeOK, Coherent, num_tasks # 0, NEW ebx, ForkSafe, Fork(ebx)
    PROVE  Coherent'
<1>1. Cur \in Slots /\ Cur < num_tasks /\ Cur = cpu.tid
  BY CurBelowNumTasks DEF Coherent
<1>2. num_tasks \in Slots /\ num_tasks \in Nat /\ num_tasks + 1 \in Nat
  BY U8Assumption DEF TypeOK, Slots
<1>3. num_tasks' = num_tasks + 1
  <2>1. (num_tasks + 1) % U8 = num_tasks + 1
    BY <1>2, U8Assumption DEF ForkSafe
  <2> QED BY <2>1 DEF Fork, ForkVia, Child
<1>4. Cur' = Cur
  BY <1>3 DEF Cur, ForkSafe, Fork, ForkVia, Child
<1>5. cpu'.tid = cpu.tid
  BY DEF Fork, ForkVia, Child, TypeOK, Regs
<1>6. tasks'[num_tasks].regs.tid = num_tasks
  BY <1>2 DEF Fork, ForkVia, Child, TypeOK, Regs
<1>7. \A i \in Slots : i # num_tasks /\ i # Cur => tasks'[i] = tasks[i]
  BY <1>1, <1>2 DEF Fork, ForkVia, Child, TypeOK
<1>8. \A i \in Slots : i < num_tasks + 1 => i = num_tasks \/ i < num_tasks
  BY <1>2 DEF Slots
<1>9. num_tasks' # 0
  BY <1>2, <1>3
<1>10. \A i \in Slots : i < num_tasks' /\ i # cpu'.tid => tasks'[i].regs.tid = i
  BY <1>1, <1>3, <1>5, <1>6, <1>7, <1>8 DEF Coherent
<1> QED BY <1>1, <1>4, <1>5, <1>9, <1>10 DEF Coherent

(* The remaining steps touch neither a slot's thread nor cpu.tid.          *)
LEMMA OtherCoherent ==
    ASSUME TypeOK, Coherent,
           \/ Compute
           \/ SysSetupTaskPaging
           \/ DivideError
           \/ UNCHANGED vars
    PROVE  Coherent'
<1>1. CASE Compute
  <2>1. cpu'.tid = cpu.tid
    BY <1>1 DEF Compute, TypeOK, Regs
  <2> QED BY <1>1, <2>1 DEF Compute, Coherent, Cur
<1>2. CASE SysSetupTaskPaging
  <2>1. Cur \in Slots
    BY <1>2, CurBelowNumTasks DEF SysSetupTaskPaging
  <2>2. \A i \in Slots : tasks'[i].regs = tasks[i].regs
    BY <1>2, <2>1 DEF SysSetupTaskPaging, SetupTaskPaging, TypeOK, Task
  <2> QED BY <1>2, <2>2 DEF SysSetupTaskPaging, SetupTaskPaging, Coherent, Cur
<1>3. CASE DivideError \/ UNCHANGED vars
  BY <1>3 DEF DivideError, vars, Coherent, Cur
<1> QED BY <1>1, <1>2, <1>3

(* From a coherent state only an insert into a table that is not empty or  *)
(* an unsafe fork leads to an incoherent one.                              *)
LEMMA MisuseStep ==
    ASSUME TypeOK, Coherent, [Next]_vars, ~Coherent'
    PROVE  \/ cpu.eax = 0 /\ ~InsertSafe /\ cur_task' = num_tasks
           \/ cpu.eax = 1 /\ num_tasks # 0 /\ ~ForkSafe /\ num_tasks' # num_tasks
<1>1. ASSUME NEW ebx \in PageStructs, SysInsertTask(ebx)
      PROVE  cpu.eax = 0 /\ ~InsertSafe /\ cur_task' = num_tasks
  BY <1>1, InsertTaskCoherent DEF SysInsertTask, InsertTask
<1>2. ASSUME NEW ebx \in PageStructs, SysFork(ebx)
      PROVE  cpu.eax = 1 /\ num_tasks # 0 /\ ~ForkSafe /\ num_tasks' # num_tasks
  <2>1. cpu.eax = 1 /\ num_tasks # 0 /\ Fork(ebx)
    BY <1>2 DEF SysFork
  <2>2. ~ForkSafe
    BY <2>1, ForkCoherent
  <2>3. num_tasks' # num_tasks
    <3>1. num_tasks \in Nat /\ num_tasks < U8 /\ U8 \in Nat /\ U8 >= 2
      BY U8Assumption DEF TypeOK, Slots
    <3>2. CASE num_tasks + 1 < U8
      <4>1. (num_tasks + 1) % U8 = num_tasks + 1
        BY <3>1, <3>2
      <4> QED BY <2>1, <3>1, <4>1 DEF Fork, ForkVia, Child
    <3>3. CASE num_tasks + 1 = U8
      <4>1. (num_tasks + 1) % U8 = 0
        BY <3>1, <3>3
      <4> QED BY <2>1, <4>1 DEF Fork, ForkVia, Child
    <3> QED BY <3>1, <3>2, <3>3
  <2> QED BY <2>1, <2>2, <2>3
<1>3. CASE TimerCallback
  <2>1. SwitchTask \/ UNCHANGED <<tasks, num_tasks, cur_task, cpu>>
    BY <1>3 DEF TimerCallback
  <2>2. CASE SwitchTask
    BY <2>2, SwitchTaskCoherent
  <2>3. CASE UNCHANGED <<tasks, num_tasks, cur_task, cpu>>
    BY <2>3 DEF Coherent, Cur
  <2> QED BY <2>1, <2>2, <2>3
<1> QED BY <1>1, <1>2, <1>3, OtherCoherent DEF Next

(* No interleaving of programs, key presses and timer interrupts loses a   *)
(* thread: every step that does is a second insert_task, or a fork issued  *)
(* when cur_task denotes another slot modulo num_tasks + 1 or when the     *)
(* table is full.                                                          *)
THEOREM MisuseOnly == Spec => OnlyMisuseBreaksTasks
<1>1. TypeOK /\ [Next]_vars
      => [ Coherent /\ ~faulted' /\ ~Coherent'
           => \/ cpu.eax = 0 /\ ~InsertSafe /\ cur_task' = num_tasks
              \/ cpu.eax = 1 /\ num_tasks # 0 /\ ~ForkSafe
                 /\ num_tasks' # num_tasks ]_vars
  BY MisuseStep
<1> QED BY <1>1, TypeCorrect, PTL DEF Spec, OnlyMisuseBreaksTasks
-----------------------------------------------------------------------------
(* The inductive invariant of DisciplinedSpec: NeverFaults alone is not    *)
(* inductive, the switch needs every slot it may load to be in the         *)
(* kernel's space, and to know that it loads such a slot the types.        *)
KernelSpaces == \A i \in Slots : i < num_tasks => tasks[i].ps = KernelPages

DInv == TypeOK /\ Coherent /\ NeverFaults /\ KernelSpaces

LEMMA DisciplinedIsNext == DisciplinedNext => Next
BY PageAssumption DEF DisciplinedNext, Next

LEMMA SwitchTaskSpaces ==
    ASSUME DInv, SwitchTask
    PROVE  NeverFaults' /\ KernelSpaces'
<1>1. CASE num_tasks = 0
  BY <1>1 DEF SwitchTask, SwitchVia, DInv, NeverFaults, KernelSpaces
<1>2. CASE num_tasks # 0
  <2> DEFINE j == ((cur_task + 1) % U8) % num_tasks
             task == tasks'[j]
  <2>1. Cur \in Slots
    BY <1>2, CurBelowNumTasks DEF DInv
  <2>2. j \in Slots /\ j < num_tasks
    <3>1. (cur_task + 1) % U8 \in Nat /\ num_tasks \in Nat
          /\ num_tasks > 0 /\ num_tasks < U8
      BY <1>2, IncrementSlots, U8Assumption DEF DInv, TypeOK, Slots
    <3>2. j \in Nat /\ j < num_tasks
      BY <3>1, ModRange
    <3> HIDE DEF j
    <3> QED BY <3>1, <3>2, U8Assumption DEF Slots
  <2>3. /\ tasks' = [tasks EXCEPT ![Cur].regs = cpu]
        /\ num_tasks' = num_tasks
        /\ cpu' = [task.regs EXCEPT !.cr3 = task.ps]
        /\ faulted' = (task.ps # cpu.cr3)
    BY <1>2 DEF SwitchTask, SwitchVia
  <2>4. \A i \in Slots : tasks'[i].ps = tasks[i].ps
    BY <2>1, <2>3 DEF DInv, TypeOK, Task
  <2>5. task.ps = KernelPages
    BY <2>2, <2>4 DEF DInv, KernelSpaces
  <2>6. task.regs \in Regs
    BY <2>2, SwitchTaskTypes DEF DInv, Task
  <2>7. cpu'.cr3 = KernelPages
    BY <2>3, <2>5, <2>6 DEF Regs
  <2> QED BY <2>3, <2>4, <2>5, <2>7 DEF DInv, NeverFaults, KernelSpaces
<1> QED BY <1>1, <1>2

LEMMA DisciplinedInit == Init => DInv
<1> SUFFICES ASSUME Init PROVE DInv
  OBVIOUS
<1>1. TypeOK
  BY TypeInit
<1>2. Coherent /\ NeverFaults /\ KernelSpaces
  BY U8Assumption DEF Init, Coherent, NeverFaults, KernelSpaces, Slots
<1> QED BY <1>1, <1>2 DEF DInv

LEMMA DisciplinedStep == DInv /\ [DisciplinedNext]_vars => DInv'
<1> SUFFICES ASSUME DInv, [DisciplinedNext]_vars PROVE DInv'
  OBVIOUS
<1>1. TypeOK'
  BY TypeNext, DisciplinedIsNext DEF DInv
<1>2. CASE Compute
  <2>1. cpu'.cr3 = cpu.cr3
    BY <1>2 DEF Compute, DInv, TypeOK, Regs
  <2> QED BY <1>1, <1>2, <2>1, OtherCoherent
          DEF DInv, Compute, NeverFaults, KernelSpaces
<1>3. CASE InsertSafe /\ SysInsertTask(KernelPages)
  <2>1. num_tasks = 0 /\ num_tasks' = 1
    <3>1. (0 + 1) % U8 = 1
      BY U8Assumption
    <3> QED BY <1>3, <3>1 DEF InsertSafe, SysInsertTask, InsertTask
  <2>2. \A i \in Slots : i < 1 => i = 0
    BY U8Assumption DEF Slots
  <2>3. tasks'[0].ps = KernelPages
    BY <1>3, <2>1, U8Assumption DEF SysInsertTask, InsertTask, DInv, TypeOK, Slots
  <2>4. NeverFaults' /\ KernelSpaces'
    BY <1>3, <2>1, <2>2, <2>3
       DEF DInv, NeverFaults, KernelSpaces, SysInsertTask, InsertTask
  <2>5. Coherent'
    BY <1>3, InsertTaskCoherent DEF DInv, SysInsertTask
  <2> QED BY <1>1, <2>4, <2>5 DEF DInv
<1>4. CASE SysFork(KernelPages) /\ ForkSafe
  <2>1. num_tasks # 0 /\ Fork(KernelPages) /\ ForkSafe
    BY <1>4 DEF SysFork
  <2>2. Coherent'
    BY <2>1, ForkCoherent DEF DInv
  <2>3. Cur \in Slots /\ num_tasks \in Slots /\ num_tasks + 1 < U8
    BY <2>1, CurBelowNumTasks DEF DInv, TypeOK, ForkSafe
  <2>4. num_tasks' = num_tasks + 1
    <3>1. (num_tasks + 1) % U8 = num_tasks + 1
      BY <2>3, U8Assumption DEF Slots
    <3> QED BY <2>1, <3>1 DEF Fork, ForkVia, Child
  <2>5. \A i \in Slots : tasks'[i].ps = IF i = num_tasks THEN KernelPages
                                        ELSE tasks[i].ps
    BY <2>1, <2>3 DEF Fork, ForkVia, Child, DInv, TypeOK, Task
  <2>6. \A i \in Slots : i < num_tasks + 1 => i = num_tasks \/ i < num_tasks
    BY <2>3, U8Assumption DEF Slots
  <2>7. cpu'.cr3 = cpu.cr3 /\ faulted' = faulted
    BY <2>1 DEF Fork, ForkVia, Child, DInv, TypeOK, Regs
  <2> QED BY <1>1, <2>2, <2>4, <2>5, <2>6, <2>7 DEF DInv, NeverFaults, KernelSpaces
<1>5. CASE TimerCallback
  <2>1. \/ SwitchTask
        \/ UNCHANGED <<tasks, num_tasks, cur_task, cpu, faulted>>
    BY <1>5 DEF TimerCallback
  <2>2. CASE SwitchTask
    BY <1>1, <2>2, SwitchTaskCoherent, SwitchTaskSpaces DEF DInv
  <2>3. CASE UNCHANGED <<tasks, num_tasks, cur_task, cpu, faulted>>
    BY <1>1, <2>3 DEF DInv, Coherent, Cur, NeverFaults, KernelSpaces
  <2> QED BY <2>1, <2>2, <2>3
<1>6. CASE UNCHANGED vars
  BY <1>1, <1>6, OtherCoherent DEF DInv, vars, NeverFaults, KernelSpaces
<1> QED BY <1>2, <1>3, <1>4, <1>5, <1>6 DEF DisciplinedNext

LEMMA DisciplinedInvariant == DisciplinedSpec => []DInv
<1> QED BY DisciplinedInit, DisciplinedStep, PTL DEF DisciplinedSpec

(* Under the discipline the slot cur_task denotes is always the running    *)
(* thread's and every other slot holds the thread that got its number.     *)
THEOREM DisciplinedCoherent == DisciplinedSpec => []Coherent
<1>1. DInv => Coherent
  BY DEF DInv
<1> QED BY <1>1, DisciplinedInvariant, PTL

(* With every task in the kernel's page structure no switch and no system  *)
(* call ever leaves the CPU on a stack page that lacks its frame.          *)
THEOREM DisciplinedNeverFaults == DisciplinedSpec => []NeverFaults
<1>1. DInv => NeverFaults
  BY DEF DInv
<1> QED BY <1>1, DisciplinedInvariant, PTL
-----------------------------------------------------------------------------
(* The refinement: every step of the task manager is a step of Processes   *)
(* or leaves its variables alone.                                          *)

LEMMA ContextsInit == Init => Abs!Init
<1> SUFFICES ASSUME Init PROVE Abs!Init
  OBVIOUS
<1>1. Alive = {0}
  BY DEF Init, Alive
<1>2. Context(cpu) = [pos |-> 0, eax |-> 0] /\ cpu.tid = 0
  BY DEF Init, Context
<1> QED BY <1>1, <1>2 DEF Abs!Init

LEMMA ComputeRuns == DInv /\ Compute => Abs!Run
<1> SUFFICES ASSUME DInv, Compute PROVE Abs!Run
  OBVIOUS
<1>1. cpu.pos \in Nat /\ cpu.tid \in Slots \cup {Nobody}
  BY TimerAssumption DEF DInv, TypeOK, Regs
<1>2. cpu'.tid = cpu.tid /\ cpu'.pos >= cpu.pos
  BY <1>1, TimerAssumption DEF Compute, DInv, TypeOK, Regs
<1>3. tasks' = tasks /\ Alive' = Alive
  BY DEF Compute, Alive
<1>4. cpu.tid \in Alive
  <2>1. CASE num_tasks = 0
    BY <2>1 DEF DInv, Coherent, Alive
  <2>2. CASE num_tasks # 0
    BY <2>2, CurBelowNumTasks, U8Assumption DEF DInv, Coherent, Alive, TypeOK, Slots
  <2> QED BY <2>1, <2>2
<1> QED BY <1>2, <1>3, <1>4 DEF Abs!Run, Context

LEMMA InsertStutters ==
    DInv /\ InsertSafe /\ SysInsertTask(KernelPages) => UNCHANGED Abs!pvars
<1> SUFFICES ASSUME DInv, InsertSafe, SysInsertTask(KernelPages)
             PROVE  UNCHANGED Abs!pvars
  OBVIOUS
<1>1. num_tasks = 0 /\ cpu' = cpu /\ cpu.tid = 0
  BY DEF InsertSafe, SysInsertTask, InsertTask, DInv, Coherent
<1>2. num_tasks' = 1
  <2>1. (0 + 1) % U8 = 1
    BY U8Assumption
  <2> QED BY <1>1, <2>1 DEF SysInsertTask, InsertTask
<1>3. Alive = {0} /\ Alive' = {0}
  BY <1>1, <1>2 DEF Alive
<1> QED BY <1>1, <1>3 DEF Abs!pvars

LEMMA ForkSpawns ==
    DInv /\ SysFork(KernelPages) /\ ForkSafe => Abs!Spawn(num_tasks)
<1> SUFFICES ASSUME DInv, SysFork(KernelPages), ForkSafe
             PROVE  Abs!Spawn(num_tasks)
  OBVIOUS
<1>1. num_tasks # 0 /\ Fork(KernelPages)
  BY DEF SysFork
<1>2. Cur \in Slots /\ Cur < num_tasks /\ Cur = cpu.tid
  BY <1>1, CurBelowNumTasks DEF DInv, Coherent
<1>3. num_tasks \in Slots /\ num_tasks \in Nat /\ num_tasks + 1 < U8
  BY U8Assumption DEF DInv, TypeOK, ForkSafe, Slots
<1>4. num_tasks' = num_tasks + 1
  <2>1. (num_tasks + 1) % U8 = num_tasks + 1
    BY <1>3, U8Assumption
  <2> QED BY <1>1, <2>1 DEF Fork, ForkVia, Child
<1>5. Alive = 0 .. num_tasks - 1 /\ Alive' = 0 .. num_tasks
  BY <1>1, <1>3, <1>4 DEF Alive
<1>6. num_tasks \notin Alive /\ Alive' = Alive \cup {num_tasks} /\ Alive \subseteq Slots
  BY <1>3, <1>5, U8Assumption DEF Slots
<1>7. cpu'.tid = cpu.tid /\ Context(cpu') = [Context(cpu) EXCEPT !.eax = 0]
  BY <1>1 DEF Fork, ForkVia, Child, DInv, TypeOK, Regs, Context
<1>8. Context(tasks'[num_tasks].regs) = [pos |-> 0, eax |-> num_tasks]
  BY <1>1, <1>3 DEF Fork, ForkVia, Child, DInv, TypeOK, Regs, Context
<1>9. \A i \in Slots : i # num_tasks /\ i # Cur => tasks'[i] = tasks[i]
  BY <1>1, <1>2, <1>3 DEF Fork, ForkVia, Child, DInv, TypeOK
<1>10. cpu.tid # num_tasks /\ cpu.tid \in Alive
  BY <1>2, <1>3, <1>5, U8Assumption DEF Slots
<1>11. ASSUME NEW p \in Alive'
       PROVE  (IF p = cpu'.tid THEN Context(cpu') ELSE Context(tasks'[p].regs))
              = IF p = num_tasks THEN [pos |-> 0, eax |-> num_tasks]
                ELSE IF p = cpu.tid THEN [Context(cpu) EXCEPT !.eax = 0]
                ELSE Context(tasks[p].regs)
  <2>1. CASE p = num_tasks
    BY <2>1, <1>7, <1>8, <1>10
  <2>2. CASE p # num_tasks
    BY <2>2, <1>2, <1>6, <1>7, <1>9
  <2> QED BY <2>1, <2>2
<1> QED BY <1>3, <1>6, <1>7, <1>10, <1>11 DEF Abs!Spawn

LEMMA SwitchDispatches ==
    ASSUME DInv, SwitchTask
    PROVE  Abs!Next \/ UNCHANGED Abs!pvars
<1>1. CASE num_tasks = 0
  BY <1>1 DEF SwitchTask, SwitchVia, Abs!pvars, Alive
<1>2. CASE num_tasks # 0
  <2> DEFINE j == cur_task' % num_tasks
  <2>1. Cur \in Slots /\ Cur = cpu.tid /\ num_tasks' = num_tasks
    BY <1>2, CurBelowNumTasks DEF DInv, Coherent, SwitchTask, SwitchVia
  <2>2. Coherent' /\ cur_task' \in Slots /\ tasks' \in [Slots -> Task]
    BY SwitchTaskCoherent, SwitchTaskTypes DEF DInv
  <2>3. j = cpu'.tid
    BY <1>2, <2>1, <2>2 DEF Coherent, Cur
  <2>4. j \in Slots /\ j < num_tasks
    <3>1. cur_task' \in Nat /\ num_tasks \in Nat /\ num_tasks > 0 /\ num_tasks < U8
      BY <1>2, <2>2, U8Assumption DEF DInv, TypeOK, Slots
    <3>2. j \in Nat /\ j < num_tasks
      BY <3>1, ModRange
    <3> HIDE DEF j
    <3> QED BY <3>1, <3>2, U8Assumption DEF Slots
  <2>5. /\ tasks' = [tasks EXCEPT ![Cur].regs = cpu]
        /\ cpu' = [tasks'[j].regs EXCEPT !.cr3 = tasks'[j].ps]
    BY <1>2 DEF SwitchTask, SwitchVia
  <2>6. \A i \in Slots : tasks'[i].regs = IF i = Cur THEN cpu ELSE tasks[i].regs
    BY <2>1, <2>5 DEF DInv, TypeOK, Task
  <2>7. tasks'[j].regs \in Regs
    BY <2>2, <2>4 DEF Task
  <2>8. Context(cpu') = Context(tasks'[j].regs)
    BY <2>5, <2>7 DEF Context, Regs
  <2>9. Alive' = Alive /\ Alive \subseteq Slots /\ j \in Alive
    BY <1>2, <2>1, <2>4, U8Assumption DEF Alive, DInv, TypeOK, Slots
  <2>10. \A p \in Alive :
            (IF p = cpu'.tid THEN Context(cpu') ELSE Context(tasks'[p].regs))
            = IF p = cpu.tid THEN Context(cpu) ELSE Context(tasks[p].regs)
    <3> HIDE DEF j
    <3> QED BY <2>1, <2>3, <2>6, <2>8, <2>9
  <2>11. Abs!Dispatch(j)
    <3> HIDE DEF j
    <3> QED BY <2>3, <2>9, <2>10 DEF Abs!Dispatch
  <2> QED BY <2>4, <2>11 DEF Abs!Next
<1> QED BY <1>1, <1>2

LEMMA StepImplements ==
    DInv /\ [DisciplinedNext]_vars => [Abs!Next]_(Abs!pvars)
<1> SUFFICES ASSUME DInv, [DisciplinedNext]_vars
             PROVE  Abs!Next \/ UNCHANGED Abs!pvars
  OBVIOUS
<1>1. CASE Compute
  BY <1>1, ComputeRuns DEF Abs!Next
<1>2. CASE InsertSafe /\ SysInsertTask(KernelPages)
  BY <1>2, InsertStutters
<1>3. CASE SysFork(KernelPages) /\ ForkSafe
  <2>1. Abs!Spawn(num_tasks)
    BY <1>3, ForkSpawns
  <2>2. num_tasks \in Slots
    BY DEF DInv, TypeOK
  <2>3. \E p \in Slots : Abs!Spawn(p)
    BY <2>1, <2>2 DEF Abs!Spawn
  <2> QED BY <2>3 DEF Abs!Next
<1>4. CASE TimerCallback
  <2>1. SwitchTask \/ UNCHANGED <<tasks, num_tasks, cur_task, cpu>>
    BY <1>4 DEF TimerCallback
  <2>2. CASE UNCHANGED <<tasks, num_tasks, cur_task, cpu>>
    BY <2>2 DEF Abs!pvars, Alive
  <2> QED BY <2>1, <2>2, SwitchDispatches
<1>5. CASE UNCHANGED vars
  BY <1>5 DEF vars, Abs!pvars, Alive
<1> QED BY <1>1, <1>2, <1>3, <1>4, <1>5 DEF DisciplinedNext

(* The task manager implements Processes: a switch changes no process's    *)
(* context, a fork adds one process and hands out the two return values,   *)
(* and nothing but the running process's own execution moves a process.    *)
THEOREM Refinement == DisciplinedSpec => ImplementsProcesses
<1> QED BY ContextsInit, StepImplements, DisciplinedInvariant, PTL
        DEF DisciplinedSpec, ImplementsProcesses, Abs!Spec
=============================================================================
