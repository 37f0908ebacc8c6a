-------------------------- MODULE InterruptsProofs --------------------------
(***************************************************************************)
(* Theorems about Interrupts, for every depth of nesting, addresses of the *)
(* stubs and range of tick: no line is in service while interrupts are on, *)
(* and wait_ticks waits.                                                   *)
(***************************************************************************)
EXTENDS Interrupts, TLAPS

(* set_idt_gate keeps the low half of an address, and the stubs lie there. *)
LEMMA GatesLead == ASSUME NEW v \in Vectors PROVE Pushed(idt(v)) = v
<1>1. Stub[v] \in Nat /\ U16 \in Nat /\ Stub[v] < U16 /\ DOMAIN Stub = Vectors
  BY InterruptsAssumption
<1>2. idt(v) = Stub[v]
  BY <1>1 DEF idt, SetIdtGate
<1>3. Stub[v] \in Range(Stub)
  BY <1>1 DEF Range
<1>4. \A w \in Vectors : Stub[w] = Stub[v] => w = v
  BY <1>1, InterruptsAssumption DEF IsInjective
<1>5. (CHOOSE w \in Vectors : Stub[w] = Stub[v]) = v
  BY <1>4
<1> QED BY <1>2, <1>3, <1>5 DEF Pushed

(* An end of interrupt ends a single service.                              *)
LEMMA DoneEnds ==
    /\ Done({}) = {}
    /\ \A l \in Nat : Done({l}) = {}
<1>1. ASSUME NEW l \in Nat PROVE Min({l}) = l
  BY DEF Min
<1> QED BY <1>1 DEF Done

(* The smaller of a count and its bound.                                   *)
LEMMA MinOfTwo ==
    ASSUME NEW a \in Nat, NEW b \in Nat
    PROVE  Min({a, b}) = IF a < b THEN a ELSE b
BY DEF Min

(* One more interrupt: the next value of tick, or 0.                       *)
LEMMA TickAfterOne ==
    ASSUME NEW t \in Ticks
    PROVE  TickAfter(t, 1) = IF t + 1 = TickWrap THEN 0 ELSE t + 1
<1>1. TickWrap \in Nat /\ TickWrap > 0 /\ t \in Nat /\ t < TickWrap
  BY TickAssumption DEF Ticks
<1>2. CASE t + 1 = TickWrap
  BY <1>1, <1>2 DEF TickAfter
<1>3. CASE t + 1 < TickWrap
  BY <1>1, <1>3 DEF TickAfter
<1> QED BY <1>1, <1>2, <1>3

(* A difference of two ticks as a uint32_t.                                *)
LEMMA ElapsedValue ==
    ASSUME NEW t \in Ticks, NEW s \in Ticks
    PROVE  Elapsed(t, s) = IF t >= s THEN t - s ELSE t - s + U32
<1>1. U32 \in Nat /\ TickWrap \in Nat /\ TickWrap <= U32
      /\ t \in Nat /\ s \in Nat /\ t < TickWrap /\ s < TickWrap
  BY TickAssumption DEF Ticks
<1>2. CASE t >= s
  BY <1>1, <1>2 DEF Elapsed
<1>3. CASE t < s
  BY <1>1, <1>3 DEF Elapsed
<1> QED BY <1>1, <1>2, <1>3
-----------------------------------------------------------------------------
Pcs == {"stub", "return", "loop"}
Handlers == {"none", "timer_callback", "syscall", "disk_interrupt",
             "default_keyboard_callback", "page_fault"}
FrameSet == [int_no : Vectors, pc : Pcs, flag : BOOLEAN]
Waits == [on : BOOLEAN, start : Ticks, n : 0 .. U32 - 1, tick : Ticks, seen : Nat]

Types ==
    /\ interrupt_handlers \in [Vectors -> Handlers]
    /\ enabled \in BOOLEAN /\ port60 \in BOOLEAN
    /\ frames \in Seq(FrameSet)
    /\ irr \subseteq Lines /\ master \subseteq {0, 1, 2} /\ slave \subseteq {14}
    /\ wait \in Waits

(* Each handler is registered for its own vector only.                     *)
Registered ==
    \A v \in Vectors :
       /\ interrupt_handlers[v] = "timer_callback" => v = 32
       /\ interrupt_handlers[v] = "disk_interrupt" => v = 46
       /\ interrupt_handlers[v] \in {"default_keyboard_callback", "syscall"} => v = 33
       /\ interrupt_handlers[v] = "page_fault" => v = 14

(* Interrupts are off before irq_install, and then only from the entry of a*)
(* stub to its return or its first output; nothing is entered before.      *)
OffInStubs ==
    /\ boot \in {"isr_install", "sti"} => frames = <<>> /\ ~enabled
    /\ enabled \/ boot \in {"isr_install", "sti"}
       \/ (frames # <<>> /\ Frame.pc = "stub")

(* Whatever was interrupted had interrupts on.                             *)
FlagsOn == \A i \in DOMAIN frames : frames[i].flag = TRUE

(* Only the innermost stub's own line is in service, and only while        *)
(* interrupts are off.                                                     *)
ServedByTop ==
    \/ master = {} /\ slave = {}
    \/ /\ frames # <<>> /\ ~enabled
       /\ \/ Frame.int_no = 32 /\ master = {0} /\ slave = {}
          \/ Frame.int_no = 33 /\ master = {1} /\ slave = {}
          \/ Frame.int_no = 46 /\ master = {2} /\ slave = {14}
          \/ Frame.int_no = 47 /\ master = {2} /\ slave = {}

(* While fewer interrupts than waited for were seen, and tick was set back *)
(* to 0 at most once, it is that many after the start.                     *)
TickFollows ==
    wait.on /\ wait.seen < wait.n /\ wait.seen < TickWrap =>
      wait.tick = IF wait.start + wait.seen < TickWrap
                  THEN wait.start + wait.seen
                  ELSE wait.start + wait.seen - TickWrap
SeenUpToN == wait.on => wait.seen <= wait.n

IInv ==
    /\ Types /\ Registered /\ OffInStubs /\ FlagsOn /\ ServedByTop
    /\ TickFollows /\ SeenUpToN
-----------------------------------------------------------------------------
(* The innermost frame of a stack.                                         *)
LEMMA TopOfStack ==
    ASSUME NEW s \in Seq(FrameSet), s # <<>>
    PROVE  /\ Last(s) \in FrameSet /\ Len(s) \in DOMAIN s /\ Last(s) = s[Len(s)]
           /\ Front(s) \in Seq(FrameSet)
           /\ \A i \in DOMAIN Front(s) : i \in DOMAIN s /\ Front(s)[i] = s[i]
BY DEF Last, Front

(* A frame on top of a stack.                                              *)
LEMMA PushedFrame ==
    ASSUME NEW s \in Seq(FrameSet), NEW f \in FrameSet
    PROVE  /\ Append(s, f) \in Seq(FrameSet) /\ Append(s, f) # <<>>
           /\ Last(Append(s, f)) = f
           /\ \A i \in DOMAIN Append(s, f) : \/ Append(s, f)[i] = f
                                             \/ i \in DOMAIN s /\ Append(s, f)[i] = s[i]
BY DEF Last

(* Entering a vector with interrupts on, whatever its line.                *)
LEMMA EnterStep ==
    ASSUME IInv, enabled, NEW v \in Vectors, Enter(v)
    PROVE  /\ frames' \in Seq(FrameSet) /\ frames' # <<>>
           /\ Frame'.int_no = v /\ Frame'.pc = "stub"
           /\ OffInStubs' /\ FlagsOn' /\ Registered'
           /\ TickFollows' /\ SeenUpToN'
           /\ enabled' = FALSE
           /\ UNCHANGED <<boot, interrupt_handlers, port60, intrq, wait>>
<1> DEFINE f == [int_no |-> v, pc |-> "stub", flag |-> TRUE]
<1>1. frames \in Seq(FrameSet) /\ f \in FrameSet
  BY DEF IInv, Types, FrameSet, Pcs
<1>2. frames' = Append(frames, f) /\ enabled' = FALSE
      /\ UNCHANGED <<boot, interrupt_handlers, port60, intrq, wait>>
  BY GatesLead DEF Enter, IInv, Types
<1>3. boot \notin {"isr_install", "sti"}
  BY DEF IInv, OffInStubs
<1> QED
  BY <1>1, <1>2, <1>3, PushedFrame
  DEF IInv, OffInStubs, FlagsOn, Registered, TickFollows, SeenUpToN, Frame

(* The way back from a handler that leaves no line in service.             *)
LEMMA IretStep ==
    ASSUME IInv, frames # <<>>, Iret, boot' = boot,
           interrupt_handlers' = interrupt_handlers
    PROVE  /\ frames' \in Seq(FrameSet)
           /\ enabled' = TRUE /\ OffInStubs' /\ FlagsOn' /\ Registered'
<1>1. frames \in Seq(FrameSet)
  BY DEF IInv, Types, FrameSet
<1>2. Frame.flag = TRUE
  BY <1>1, TopOfStack DEF IInv, FlagsOn, Frame
<1>3. boot \notin {"isr_install", "sti"}
  BY DEF IInv, OffInStubs
<1> QED
  BY <1>1, <1>2, <1>3, TopOfStack DEF IInv, Iret, FlagsOn, OffInStubs, Registered

(* A handler's first output, which turns interrupts on.                    *)
LEMMA KprintStep ==
    ASSUME IInv, frames # <<>>, NEW pc \in Pcs, Kprint(pc, TRUE), boot' = boot,
           interrupt_handlers' = interrupt_handlers
    PROVE  /\ frames' \in Seq(FrameSet)
           /\ enabled' = TRUE /\ OffInStubs' /\ FlagsOn' /\ Registered'
<1>1. frames \in Seq(FrameSet) /\ Len(frames) \in DOMAIN frames
  BY TopOfStack DEF IInv, Types, FrameSet
<1>2. frames' = [frames EXCEPT ![Len(frames)].pc = pc] /\ enabled' = TRUE
  BY DEF Kprint
<1>3. frames' \in Seq(FrameSet) /\ DOMAIN frames' = DOMAIN frames
      /\ \A i \in DOMAIN frames : frames'[i].flag = frames[i].flag
  <2> DEFINE f == [frames[Len(frames)] EXCEPT !.pc = pc]
  <2>1. frames[Len(frames)] \in FrameSet
    BY <1>1
  <2>2. f \in FrameSet /\ f.flag = frames[Len(frames)].flag
    BY <2>1 DEF FrameSet
  <2>3. frames' = [frames EXCEPT ![Len(frames)] = f]
    BY <1>2, Zenon
  <2> HIDE DEF f
  <2> QED BY <1>1, <2>2, <2>3
<1>4. boot \notin {"isr_install", "sti"}
  BY DEF IInv, OffInStubs
<1> QED
  BY <1>2, <1>3, <1>4 DEF IInv, FlagsOn, OffInStubs, Registered

(* An acknowledgement by the handler of the innermost stub leaves no line  *)
(* in service.                                                             *)
LEMMA EoiFrees ==
    ASSUME IInv, frames # <<>>, Frame.pc = "stub", SendEoi(Frame.int_no)
    PROVE  master' = {} /\ slave' = {}
<1>1. CASE master = {} /\ slave = {}
  BY <1>1, DoneEnds DEF SendEoi
<1>2. CASE ~(master = {} /\ slave = {})
  <2> DEFINE v == Frame.int_no
  <2>1. \/ v = 32 /\ master = {0} /\ slave = {}
        \/ v = 33 /\ master = {1} /\ slave = {}
        \/ v = 46 /\ master = {2} /\ slave = {14}
        \/ v = 47 /\ master = {2} /\ slave = {}
    BY <1>2 DEF IInv, ServedByTop
  <2>2. /\ slave' = IF v >= 40 THEN Done(slave) ELSE slave
        /\ master' = IF v >= 32 THEN Done(master) ELSE master
    BY DEF SendEoi
  <2> HIDE DEF v
  <2>3. Done({}) = {} /\ Done({0}) = {} /\ Done({1}) = {} /\ Done({2}) = {} /\ Done({14}) = {}
    BY DoneEnds
  <2>4. CASE v = 32 /\ master = {0} /\ slave = {}
    BY <2>2, <2>3, <2>4
  <2>5. CASE v = 33 /\ master = {1} /\ slave = {}
    BY <2>2, <2>3, <2>5
  <2>6. CASE v = 46 /\ master = {2} /\ slave = {14}
    BY <2>2, <2>3, <2>6
  <2>7. CASE v = 47 /\ master = {2} /\ slave = {}
    BY <2>2, <2>3, <2>7
  <2> QED BY <2>1, <2>4, <2>5, <2>6, <2>7
<1> QED BY <1>1, <1>2
-----------------------------------------------------------------------------
(* The parts of the invariant about wait_ticks, when nothing happens to it.*)
LEMMA WaitStays ==
    ASSUME IInv, UNCHANGED wait
    PROVE  TickFollows' /\ SeenUpToN' /\ wait' \in Waits
BY DEF IInv, TickFollows, SeenUpToN, Types, Waits

(* kernel_main's steps register one handler each, and turn interrupts on   *)
(* once.                                                                   *)
LEMMA BootStep == ASSUME IInv, Boot \/ ReadLineKeyboard PROVE IInv'
<1>1. /\ frames = <<>> /\ frames' = <<>>
      /\ UNCHANGED <<irr, master, slave, port60, intrq, wait>>
  BY DEF Boot, ReadLineKeyboard, IsrInstall, EnableInterrupts, InitTimer, RegisterDisk,
         InitKeyboard, EnablePaging, EnableSyscalls, Register, Booting, pic
<1>2. /\ interrupt_handlers' \in [Vectors -> Handlers] /\ Registered'
      /\ enabled' \in BOOLEAN
      /\ enabled \/ boot \in {"isr_install", "sti"}
      /\ boot \in {"isr_install", "sti"} => ~enabled
  <2>1. /\ interrupt_handlers \in [Vectors -> Handlers] /\ Registered
        /\ enabled \in BOOLEAN /\ OffInStubs
    BY DEF IInv, Types
  <2>2. CASE IsrInstall \/ EnableInterrupts
    BY <1>1, <2>1, <2>2
    DEF IsrInstall, EnableInterrupts, Booting, Registered, OffInStubs
  <2>3. ASSUME NEW n \in {14, 32, 33, 46}, NEW h \in Handlers,
               NEW from \in {"timer", "disk", "keyboard", "paging", "syscalls", "running"},
               NEW to, Register(from, n, h, to),
               /\ h = "timer_callback" => n = 32
               /\ h = "disk_interrupt" => n = 46
               /\ h \in {"default_keyboard_callback", "syscall"} => n = 33
               /\ h = "page_fault" => n = 14
        PROVE  /\ interrupt_handlers' \in [Vectors -> Handlers] /\ Registered'
               /\ enabled' \in BOOLEAN /\ enabled
    BY <1>1, <2>1, <2>3 DEF Register, Booting, Registered, OffInStubs, Vectors
  <2> QED
    BY <2>1, <2>2, <2>3 DEF Boot, ReadLineKeyboard, InitTimer, RegisterDisk, InitKeyboard,
         EnablePaging, EnableSyscalls, Handlers, OffInStubs
<1>3. OffInStubs'
  BY <1>1, <1>2 DEF Boot, ReadLineKeyboard, IsrInstall, EnableInterrupts, InitTimer,
     RegisterDisk, InitKeyboard, EnablePaging, EnableSyscalls, Register, Booting, OffInStubs
<1>4. FlagsOn' /\ ServedByTop'
  BY <1>1 DEF IInv, FlagsOn, ServedByTop
<1> QED
  BY <1>1, <1>2, <1>3, <1>4, WaitStays DEF IInv, Types

(* The devices only make requests; the program only lowers INTRQ.          *)
LEMMA DeviceStep == ASSUME IInv, Tick \/ Key \/ Intrq \/ PollStatus PROVE IInv'
<1>1. /\ UNCHANGED <<boot, interrupt_handlers, enabled, frames, master, slave, wait>>
      /\ irr' \subseteq Lines /\ port60' \in BOOLEAN
  BY DEF IInv, Types, Tick, Key, Intrq, PollStatus, cpu, Lines
<1> QED
  BY <1>1, WaitStays DEF IInv, Types, Registered, OffInStubs, FlagsOn, ServedByTop, Frame

(* The CPU takes a request when no line is in service.                     *)
LEMMA AcceptStep == ASSUME IInv, Accept PROVE IInv'
<1>1. enabled /\ master = {} /\ slave = {}
  BY DEF IInv, ServedByTop, Accept, AcceptSlave, AcceptMaster
<1>2. \/ \E l \in {0, 1} : Enter(32 + l) /\ master' = {l} /\ slave' = {}
      \/ Enter(46) /\ master' = {2} /\ slave' = {14}
      \/ Enter(47) /\ master' = {2} /\ slave' = {}
  BY <1>1 DEF Accept, AcceptSlave, AcceptMaster
<1>3. irr' \subseteq Lines
  BY DEF Accept, AcceptSlave, AcceptMaster, IInv, Types
<1>4. ASSUME NEW v \in {32, 33, 46, 47}, Enter(v), 
             \/ v = 32 /\ master' = {0} /\ slave' = {}
             \/ v = 33 /\ master' = {1} /\ slave' = {}
             \/ v = 46 /\ master' = {2} /\ slave' = {14}
             \/ v = 47 /\ master' = {2} /\ slave' = {}
      PROVE  IInv'
  <2>1. v \in Vectors
    BY DEF Vectors
  <2>2. /\ frames' \in Seq(FrameSet) /\ frames' # <<>>
        /\ Frame'.int_no = v /\ Frame'.pc = "stub"
        /\ OffInStubs' /\ FlagsOn' /\ Registered'
        /\ TickFollows' /\ SeenUpToN'
        /\ enabled' = FALSE
        /\ UNCHANGED <<boot, interrupt_handlers, port60, intrq, wait>>
    BY <1>1, <1>4, <2>1, EnterStep
  <2>3. ServedByTop'
    BY <1>4, <2>2 DEF ServedByTop
  <2> QED
    BY <1>3, <1>4, <2>2, <2>3 DEF IInv, Types, FrameSet
<1> QED
  BY <1>2, <1>4

(* int $33, or a fault.                                                    *)
LEMMA TrapStep == ASSUME IInv, Trap PROVE IInv'
<1>1. enabled
  BY DEF IInv, OffInStubs, Trap, Program
<1>2. PICK v \in {0, 14, 33} : Enter(v)
  BY DEF Trap
<1>3. v \in Vectors
  BY DEF Vectors
<1>4. UNCHANGED <<irr, master, slave>>
  BY DEF Trap
<1>5. master = {} /\ slave = {}
  BY <1>1 DEF IInv, ServedByTop
<1> QED
  BY <1>1, <1>2, <1>3, <1>4, <1>5, EnterStep DEF IInv, Types, FrameSet, ServedByTop
-----------------------------------------------------------------------------
(* timer_callback, the only step that moves tick.                          *)
LEMMA TickCounted ==
    ASSUME IInv, TimerCallback
    PROVE  TickFollows' /\ SeenUpToN' /\ wait' \in Waits
<1>1. wait \in Waits /\ TickFollows /\ SeenUpToN
  BY DEF IInv, Types
<1>2. CASE ~wait.on
  BY <1>1, <1>2 DEF TimerCallback, TickFollows, SeenUpToN
<1>3. CASE wait.on
  <2> DEFINE t == TickAfter(wait.tick, 1)
             seen == Min({wait.seen + 1, wait.n})
  <2>1. wait' = [wait EXCEPT !.tick = t, !.seen = seen]
    BY <1>3 DEF TimerCallback
  <2>2. wait.n \in Nat /\ wait.seen \in Nat /\ wait.seen <= wait.n
        /\ TickWrap \in Nat /\ TickWrap > 0
        /\ wait.start \in Nat /\ wait.start < TickWrap /\ wait.tick \in Ticks
    BY <1>1, <1>3, TickAssumption DEF Waits, Ticks, SeenUpToN
  <2>3. t = IF wait.tick + 1 = TickWrap THEN 0 ELSE wait.tick + 1
    BY <2>2, TickAfterOne
  <2>4. seen = IF wait.seen + 1 < wait.n THEN wait.seen + 1 ELSE wait.n
    BY <2>2, MinOfTwo
  <2>5. t \in Ticks
    BY <2>2, <2>3 DEF Ticks
  <2>. seen \in Nat
    BY <2>2, <2>4
  <2> HIDE DEF t, seen
  <2>6. /\ wait' \in Waits /\ wait'.on /\ wait'.start = wait.start /\ wait'.n = wait.n
        /\ wait'.tick = t /\ wait'.seen = seen
    BY <1>1, <1>3, <2>1, <2>5 DEF Waits
  <2>7. SeenUpToN'
    BY <2>2, <2>4, <2>6 DEF SeenUpToN
  <2>8. ASSUME seen < wait.n, seen < TickWrap
        PROVE  t = IF wait.start + seen < TickWrap THEN wait.start + seen
                   ELSE wait.start + seen - TickWrap
    <3>1. seen = wait.seen + 1
      BY <2>2, <2>4, <2>8
    <3>2. wait.tick = IF wait.start + wait.seen < TickWrap
                      THEN wait.start + wait.seen
                      ELSE wait.start + wait.seen - TickWrap
      BY <1>1, <1>3, <2>2, <2>8, <3>1 DEF TickFollows
    <3>3. wait.tick \in Nat
      BY <2>2 DEF Ticks
    <3>4. CASE wait.start + wait.seen < TickWrap
      BY <2>2, <2>3, <2>8, <3>1, <3>2, <3>3, <3>4
    <3>5. CASE wait.start + wait.seen >= TickWrap
      BY <2>2, <2>3, <2>8, <3>1, <3>2, <3>3, <3>5
    <3> QED BY <2>2, <3>4, <3>5
  <2>9. TickFollows'
    BY <2>6, <2>8 DEF TickFollows
  <2> QED BY <2>6, <2>7, <2>9
<1> QED BY <1>1, <1>2, <1>3 DEF Waits

(* A handler leaves no line in service and interrupts on.                  *)
LEMMA HandlerPreserves == ASSUME IInv, HandlerStep PROVE IInv'
<1>1. frames # <<>> /\ Frame \in FrameSet /\ Frame.int_no \in Vectors
  <2>1. frames # <<>>
    BY DEF HandlerStep, TimerCallback, KeyboardCallback, DiskInterrupt, OtherHandler,
           PageFault, Return, Stubbed
  <2> QED BY <2>1, TopOfStack DEF IInv, Types, FrameSet, Frame
<1>2. ASSUME master' = {}, slave' = {}, irr' = irr, port60' \in BOOLEAN,
             boot' = boot, interrupt_handlers' = interrupt_handlers,
             Iret \/ Kprint("return", TRUE) \/ Kprint("loop", TRUE),
             TickFollows', SeenUpToN', wait' \in Waits
      PROVE  IInv'
  <2>1. frames' \in Seq(FrameSet) /\ enabled' = TRUE
        /\ OffInStubs' /\ FlagsOn' /\ Registered'
    BY <1>1, <1>2, IretStep, KprintStep DEF Pcs
  <2> QED BY <1>2, <2>1 DEF IInv, Types, FrameSet, ServedByTop
<1>3. CASE TimerCallback
  BY <1>1, <1>2, <1>3, EoiFrees, TickCounted DEF TimerCallback, Stubbed, IInv, Types
<1>4. CASE KeyboardCallback
  BY <1>1, <1>2, <1>4, EoiFrees, WaitStays DEF KeyboardCallback, Stubbed
<1>5. CASE DiskInterrupt
  <2>1. Frame.int_no = 46
    BY <1>1, <1>5 DEF DiskInterrupt, Stubbed, Handler, IInv, Registered
  <2>2. \/ master = {} /\ slave = {}
        \/ master = {2} /\ slave = {14}
    BY <2>1 DEF IInv, ServedByTop
  <2>3. master' = {} /\ slave' = {}
    BY <1>5, <2>2, DoneEnds DEF DiskInterrupt
  <2> QED
    BY <1>2, <1>5, <2>3, WaitStays DEF DiskInterrupt, IInv, Types
<1>6. CASE OtherHandler
  BY <1>1, <1>2, <1>6, EoiFrees, WaitStays DEF OtherHandler, Stubbed, IInv, Types
<1>7. CASE PageFault
  <2>1. Frame.int_no = 14
    BY <1>1, <1>7 DEF PageFault, Stubbed, Handler, IInv, Registered
  <2>2. master = {} /\ slave = {}
    BY <2>1 DEF IInv, ServedByTop
  <2> QED
    BY <1>2, <1>7, <2>2, WaitStays DEF PageFault, pic, IInv, Types
<1>8. CASE Return
  <2>1. enabled
    BY <1>8 DEF Return, IInv, OffInStubs
  <2>2. master = {} /\ slave = {}
    BY <2>1 DEF IInv, ServedByTop
  <2> QED
    BY <1>2, <1>8, <2>2, WaitStays DEF Return, pic, IInv, Types
<1> QED BY <1>3, <1>4, <1>5, <1>6, <1>7, <1>8 DEF HandlerStep

(* wait_ticks begins, with tick as it is, or ends.                         *)
LEMMA WaitStep == ASSUME IInv, StartWait \/ EndWait PROVE IInv'
<1>1. UNCHANGED <<boot, interrupt_handlers, enabled, frames, irr, master, slave, port60, intrq>>
  BY DEF StartWait, EndWait, cpu, pic
<1>2. TickFollows' /\ SeenUpToN' /\ wait' \in Waits
  <2>1. CASE StartWait
    <3>1. PICK start \in Ticks, n \in 0 .. U32 - 1 :
            wait' = [on |-> TRUE, start |-> start, n |-> n, tick |-> start, seen |-> 0]
      BY <2>1 DEF StartWait
    <3>2. start \in Nat /\ start < TickWrap /\ TickWrap \in Nat /\ n \in Nat
      BY TickAssumption DEF Ticks
    <3> QED BY <3>1, <3>2 DEF TickFollows, SeenUpToN, Waits
  <2>2. CASE EndWait
    BY <2>2 DEF EndWait, IInv, Types, Waits, TickFollows, SeenUpToN
  <2> QED BY <2>1, <2>2
<1> QED
  BY <1>1, <1>2 DEF IInv, Types, Registered, OffInStubs, FlagsOn, ServedByTop, Frame

LEMMA IInvInit == Init => IInv
<1>1. U32 \in Nat /\ TickWrap \in Nat /\ TickWrap > 0 /\ U32 > 0
  BY TickAssumption
<1> SUFFICES ASSUME Init PROVE IInv
  OBVIOUS
<1>2. wait \in Waits /\ ~wait.on
  BY <1>1 DEF Init, Waits, Ticks
<1>3. frames \in Seq(FrameSet) /\ DOMAIN frames = {}
  BY DEF Init
<1> QED
  BY <1>2, <1>3 DEF Init, IInv, Types, Registered, OffInStubs, FlagsOn, ServedByTop,
     TickFollows, SeenUpToN, Handlers

LEMMA IInvStep == IInv /\ [Next]_vars => IInv'
<1> SUFFICES ASSUME IInv, [Next]_vars PROVE IInv'
  OBVIOUS
<1>1. CASE UNCHANGED vars
  BY <1>1, WaitStays DEF vars, cpu, pic, IInv, Types, Registered, OffInStubs, FlagsOn,
     ServedByTop, Frame
<1> QED
  BY <1>1, BootStep, DeviceStep, AcceptStep, HandlerPreserves, TrapStep, WaitStep DEF Next

LEMMA Invariant == Spec => []IInv
BY IInvInit, IInvStep, PTL DEF Spec
-----------------------------------------------------------------------------
(* The handlers' table, the frames and the controllers keep their types.   *)
THEOREM TypeCorrect == Spec => []TypeOK
<1>1. IInv => TypeOK
  <2> SUFFICES ASSUME IInv PROVE TypeOK
    OBVIOUS
  <2>1. \A i \in DOMAIN frames : frames[i] \in FrameSet
    BY DEF IInv, Types
  <2>2. \A i \in DOMAIN frames : frames[i].int_no \in Vectors
    BY <2>1 DEF FrameSet
  <2> QED BY <2>2 DEF IInv, Types, TypeOK, Handlers
<1> QED BY <1>1, Invariant, PTL

(* However deep handlers nest, whichever of them print and whatever the    *)
(* program and the devices do: while interrupts are on, no line is held    *)
(* back by a service that was not ended.                                   *)
THEOREM NoLineHeldBack == Spec => []NothingHeldBack
<1>1. IInv => NothingHeldBack
  BY DEF IInv, ServedByTop, NothingHeldBack
<1> QED BY <1>1, Invariant, PTL

(* wait_ticks does not return too early, for any range of tick within a    *)
(* uint32_t: the difference it computes is only wrong by what tick skips.  *)
THEOREM WaitsLast == Spec => WaitLasts
<1>1. IInv /\ [Next]_vars =>
        (wait.on /\ ~wait'.on =>
           wait.seen >= (IF wait.start + wait.n < TickWrap THEN wait.n
                         ELSE wait.n - (U32 - TickWrap)))
  <2> SUFFICES ASSUME IInv, [Next]_vars, wait.on, ~wait'.on
               PROVE  wait.seen >= (IF wait.start + wait.n < TickWrap THEN wait.n
                                    ELSE wait.n - (U32 - TickWrap))
    OBVIOUS
  <2>1. EndWait
    BY DEF Next, vars, cpu, pic, Boot, ReadLineKeyboard, IsrInstall, EnableInterrupts,
       InitTimer, RegisterDisk, InitKeyboard, EnablePaging, EnableSyscalls, Register,
       Booting, Tick, Key, Intrq, PollStatus, Accept, AcceptSlave, AcceptMaster, Enter,
       HandlerStep, TimerCallback, KeyboardCallback, DiskInterrupt, OtherHandler,
       PageFault, Return, Trap, StartWait, IInv, Types, Waits
  <2>2. Elapsed(wait.tick, wait.start) >= wait.n
    BY <2>1 DEF EndWait
  <2>3. /\ wait.start \in Ticks /\ wait.tick \in Ticks
        /\ wait.start \in Nat /\ wait.start < TickWrap /\ wait.seen \in Nat
        /\ wait.tick \in Nat
        /\ wait.n \in Nat /\ wait.n < U32 /\ wait.seen <= wait.n
        /\ U32 \in Nat /\ TickWrap \in Nat /\ TickWrap <= U32
    BY TickAssumption DEF IInv, Types, Waits, Ticks, SeenUpToN
  <2>4. CASE wait.seen < wait.n /\ wait.seen < TickWrap
    <3>1. wait.tick = IF wait.start + wait.seen < TickWrap
                      THEN wait.start + wait.seen
                      ELSE wait.start + wait.seen - TickWrap
      BY <2>4 DEF IInv, TickFollows
    <3>2. \/ wait.tick - wait.start >= wait.n
          \/ wait.tick - wait.start + U32 >= wait.n /\ wait.tick < wait.start
      BY <2>2, <2>3, ElapsedValue
    <3> QED BY <2>3, <2>4, <3>1, <3>2
  <2>5. CASE wait.seen >= wait.n \/ wait.seen >= TickWrap
    BY <2>3, <2>5
  <2> QED BY <2>3, <2>4, <2>5
<1> QED BY <1>1, Invariant, PTL DEF Spec, WaitLasts
=============================================================================
