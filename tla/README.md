# vos5 in TLA+

A verification project for the vos5 kernel: TLA+ modules translated from its C and
assembly sources, TLC configurations that check them on small instances, and proofs
for TLAPS that hold for every size. Paths are relative to the repository; line numbers
are those of the commit modelled. `PROJECT.json` lists which lines each definition
stands for, which run checks which property, and one plausible bug for every
property that makes it fail.

vos5 is a hobby operating system for i386: a boot loader, a flat 32-bit kernel without
user mode, a preemptive task manager, a heap, demand-mapped pages, a file system on an
ATA disk, a keyboard, a text screen and a shell. It runs on one CPU, is compiled with
`-O0`, and has no locks: what keeps two parts apart is the interrupt flag, and most of
the code runs with interrupts on.

## 1. Inventory

| Part | Source | State it keeps | Operations |
|---|---|---|---|
| Boot code | `src/boot/` | none that survives | load the kernel, enter protected mode |
| Interrupt stubs, dispatch | `cpu/interrupt.asm`, `isr.c`, `idt.c` | `idt`, `interrupt_handlers[256]`, the saved register frames, the two interrupt controllers | set-up, acknowledge, call the handler, load `cr3`, `iret` |
| Timer | `cpu/timer.c` | `tick` | `timer_callback`, `wait_ticks` |
| Task manager | `cpu/task_manager.c` | `tasks[256]`, `num_tasks`, `cur_task` (8-bit) | `insert_task`, `switch_task`, `fork`, `setup_task_paging` |
| System calls | `cpu/syscall.c` | vector 33's handler | `int $33` with eax = 0 insert, 1 fork, 2 paging |
| Paging | `cpu/paging.c`, `libc/bitmap.c` | the map of physical pages, page tables | search, `map_page`, `free_page`, copy for a task |
| Heap | `libc/mem.c` | free, used and fresh lists, `top` | `ta_alloc`, `ta_alloc_align`, `ta_calloc`, `ta_free` |
| File system | `filesystem/*.c` | `fat_head`, `num_registered_files`, `first_ta_free_sector`, the disk | load, format, `write_file`, `overwrite_file`, `read_file` |
| ATA driver | `drivers/ata.c` | the drive | sector-wise PIO reads and writes |
| Keyboard | `drivers/v_keyboard.c` | `key_buffer`, `key_callback`, `keys_pressed` | the handler, `init_keyboard`, `read_line`, `await_keypress` |
| Screen | `drivers/screen.c` | video memory, the card's cursor registers | `kprint*`, scrolling, `clear_screen` |
| Shell | `kernel/kernel.c`, `commands.c`, `basic_commands.c` | the command list, the line | `kernel_main`, `kernel_loop`, `resolve_command`, eight commands |
| Strings, mathematics | `libc/string.c`, `math.c` | none (results are heap blocks) | `int_to_ascii`, `str_split`, ... |
| Programs, windows | `src/stock/`, `window_manager.c` | their own | popups, `tedit`, `prime`; not started by this kernel |

**How they interact.** The PIT interrupts 50 times a second; every fifth interrupt
`timer_callback` calls `switch_task`, which exchanges the register frame the stub pushed
with the one in the table. `int $33` enters `syscall()` through the same stub. Vector 33
is also IRQ 1, so the keyboard and the system calls share a slot of
`interrupt_handlers`, and whichever registered last is called for both. `setup_task_paging`
(a system call) and `kernel_main` take frames from the same map of physical pages. The
keyboard handler writes into a buffer `read_line` polls, and prints through the same cursor
as the running program. Nearly everything allocates on the heap, from tasks and from
interrupt handlers. The file system is called by programs and uses the disk driver.

**What is hard here, and what would make each part correct.**

- *Interrupts.* Handlers run with interrupts off until they print: `kprint_at` ends with `sti`. So
  handlers nest, and a task switch may leave one half done; acknowledgements name no line.
  Correct: every request reaches the stub of its number, and no line stays blocked.
- *Task manager.* Interrupts arrive between any two instructions; `cur_task` is never reduced
  and means `cur_task % num_tasks`, so its meaning changes when `num_tasks` does; both
  are 8 bits wide; the frame is popped after `cr3` was changed. Correct: no suspended
  thread's only copy is overwritten, a thread goes on exactly where it was, everyone
  gets the CPU again.
- *Heap.* Long sequences of splits, merges and recycled descriptors; the last block resizes
  in place; exhaustion of descriptors or of the arena; task switches between two list
  updates. Correct: callers never share a byte, no byte and no descriptor is lost, and a switch does
  harm only when another task changes the lists in the meantime.
- *Paging.* Finding a frame and marking it used are two steps with interrupts on; the search runs
  past the map's last page; `free_page` also frees page 0. Correct: no two pages share a
  frame, freed frames come back, kernel memory is not handed out.
- *File system.* A power failure at any moment, with a sector in the drive's buffer even after a call
  has returned; everything about free space is recomputed at the next start. Correct: the table
  never names sectors that were not stored, nothing older than the last file is lost, what was
  written is read back, files do not overlap.
- *ATA driver.* Two partners that watch each other's status bits, words moved without a look at
  DRQ, an 8-bit count, polls without a timeout. Correct: sectors are stored in order and nothing
  else is, words move only when the drive asks for them, calls return.
- *Keyboard, shell and programs.* A key press between any two memory accesses of `read_line` or
  `await_keypress`; the shared handler slot; an 8-bit position; old text in new buffers. Correct: a
  command reaches the shell as typed and is taken apart as typed, an ENTER or a popup's key is
  noticed, keys keep arriving.
- *Screen.* `cli`/`sti` do not nest; the cursor is four port writes. Correct: what is printed
  stays where it was printed and the cursor stays on the card.
- *Strings and waiting.* Boundaries: buffer sizes, leading delimiters, extreme numbers, the reset of `tick`.

## 2. Modules

| Module | Models | How its state corresponds to the code |
|---|---|---|
| `Processes` | abstract: what multitasking promises | every process owns a context that only it changes |
| `TaskManager` | task manager, `syscall()`, `timer_callback`, the stub | `tasks`, `num_tasks`, `cur_task`, `tick` are the variables; `cpu` the registers outside handlers; `faulted`: a handler cannot return |
| `TaskManagerProofs` | theorems about `TaskManager` | |
| `Allocator` | abstract: what a heap promises | the set of addresses each caller holds |
| `Heap` | `mem.c`, one operation a step | the three lists as sequences of descriptors, their `addr` and `size`, `top` |
| `HeapProofs` | theorems about `Heap` and `HeapLists` | |
| `HeapLists` (extends `Heap`) | `ta_alloc` and `ta_free`, one statement a step, several tasks | `mem` holds the pointers and fields, `call` each task's place and local variables; `Heap`'s `heap` what `Heap` makes of the same calls |
| `Paging` | `paging.c`, `bitmap.c` | `used` is `physical_page_bitmap`, `pte` the tables, `got` the frame a task was told of |
| `PagingProofs` | theorems about `Paging` | |
| `Filesystem` | `filesystem.c`, `initialize_fat.c`, `write_sectors_ATA_PIO` | `fat`, `registered`, `free` in memory; `disk`, `dir` on the disk, `sent` in the drive's buffer; `op` the call in progress |
| `FilesystemProofs` | theorems about `Filesystem` | |
| `SectorStore` | abstract: what the file system counts on | the sectors, and the writes not stored yet |
| `Ata` | `ata.c`, `ports.c` | `drv` the routine's place and local variables, `dev` the drive's status, command and buffer, `disk` |
| `AtaProofs` | theorems about `Ata` | |
| `Interrupts` (extends `Timer`) | `isr.c`, `idt.c`, `interrupt.asm`, the handlers, the 8259s | `interrupt_handlers`, `enabled` the interrupt flag, `frames` the stack of interrupts being handled, `irr`/`master`/`slave` the controllers, `boot` where `kernel_main` is |
| `InterruptsProofs` | theorems about `Interrupts` and `Timer` | |
| `Console` | `v_keyboard.c` | `handler` is `interrupt_handlers[33]`, `line` the buffer, `pc`/`at` where its reader is |
| `Programs` (extends `Console`, `Strings`) | `kernel_loop`, the commands, popups, `tedit`, `prime` | `reader` who reads, `shown` the number or words printed last |
| `Screen` | `screen.c` | `video`, `crtc` (the cursor registers and the index register), `doing`/`saved`/`next` the program's locals |
| `Strings` | `string.c`, `math.c`, `commands.c` | functions of their arguments |
| `TerminalProofs` | theorems about `Screen` and about `Programs` with `Console` and `Strings` | |
| `Timer` | the arithmetic of `tick` and of `wait_ticks` | functions |
| `Lemmas` | induction, recursion and sequences, for the proofs | |
| `MCHeap`, `MCHeapLists`, `MCPaging`, `MCFilesystem`, `MCPrograms`, `MCScreen`, `MCInterrupts` | instances for TLC | |

`Console` is composed with its callers in `Programs`, `Timer` with the interrupts that advance it in
`Interrupts`, `Heap` with its own implementation in `HeapLists`. `Ata` implements the
sector-by-sector writes `Filesystem` takes as steps (`SectorStore`), and `TaskManager`'s
`EveryTaskRuns` is the fairness `Programs` and `Ata` assume of the task that runs them.

One action is one operation, or one step between two points where an interrupt may
come. Handlers run behind interrupt gates, interrupts off, and are one action up to where
they print; so is what the code runs between `cli` and `sti`. Only `Interrupts` follows what
handlers do after that: no other state than the flag depends on it.

Readings of the code the modules rest on:

- *The stub* executes `mov cr3` before `popa` and `iret` (`interrupt.asm:74`). The frame
  `switch_task` wrote is on the stack page of the space it leaves; in a space of its
  own a task has another stack page, which nobody ever pushed a frame on. What the CPU
  does then is not followed: `faulted`. `popa`/`iret` restore no esp.
- *Key presses as system calls.* After `enable_syscalls` and before the next `init_keyboard` a
  key runs `syscall()` with whatever the interrupted program has in eax. `SysInsertTask`,
  `SysFork` and `SysSetupTaskPaging` therefore depend on eax only.
- *`#DE`.* `fork` before `insert_task` divides by 0; the handler prints and returns to the
  division. `DivideError` ends in `faulted`.
- *The disk driver* never advances through the data it writes (`ata.c:114`): every sector of a
  run holds the first 512 bytes. So only the table's first sector can be read
  back, `Fit` entries of it.
- *The drive stores later.* `write_sectors_ATA_PIO` is done with a sector when its last word is sent
  (`ata.c:113`); the next command or sector waits for BSY, so the drive holds one sector, in `sent`, which a power
  failure loses. `write_file` returns with its table there.
- *The first table* is made in memory nobody cleared (`initialize_fat.c:52`): the slots after its entries hold `Residue`, and
  `load_fat_from_disk` looks at one of them. The slots in memory stay those of the table loaded, as entries are
  only added in order.
- *The map of physical pages* is longer than the number of pages by 0x400 bytes that are never
  written: their contents are any. The product of an index and 0x1000 wraps.
- *End of interrupt.* `irq_handler` acknowledges before it calls the handler, for `int $33` too, and
  `disk_interrupt` does so once more. The commands are non-specific: the controller ends the
  highest line in service, if there is one.
- *`set_idt_gate`* keeps the low half of an address only (`handler & 0xFFFF0000` in 16 bits is 0); the
  kernel lies below 0x10000.
- *The drive* ignores commands while it is busy or transfers data, and takes a count of 0 for 256, as
  the one of the emulator in the `Makefile` does, and like that one it has RDY set all the time. The driver's
  loops do nothing for 0.
- *Lines.* `read_line`'s 256 bytes are not cleared, and usually the block freed last: what a
  command's arguments or the last popup's key left there precedes the next line.
- *`kernel_main` never loads the file system.* `Filesystem` models its interface as
  `filesystem.c:7` describes it, for the programs that are to use it.

## 3. Runs

All run with 2 workers in less than two minutes each.

| Run (configuration) | Distinct states | What it shows |
|---|---|---|
| `TaskManager_any` | 2,124,218 | Any system call at any time, from programs or key presses. `OnlyMisuseBreaksTasks`: a thread is lost only by a second `insert_task`, by a fork when `cur_task` means another slot once `num_tasks` has grown, or by the wrap of the full table; never by interrupts alone. |
| `TaskManager_disciplined` | 12,025 | With one `insert_task` and forks at a safe moment, `Coherent`, `NeverFaults`, `ImplementsProcesses` (refinement of `Processes`), and `EveryTaskRuns` (liveness). |
| `TaskManager_fork_drift` | violation | `kernel_main` itself: an odd number of switches between its insert and its fork, and the next switch overwrites the forked task. |
| `Heap_safety` | 86,845 | Three callers: `BlocksConserved` (`ta_check` and more), `Tiling`, `FreeListCanonical`, `FreesOwnBlock`, and the refinement of `Allocator`. |
| `HeapLists_tasks` | 1,253,728 | Two tasks inside `ta_alloc` and `ta_free`. `OnlyDisturbedWritesBreak`: the pointers form exactly `Heap`'s lists, and an undisturbed call returns `Heap`'s block, until a call writes after another wrote into what it had read. |
| `Paging_safety` | 171,187 | `OnlyStaleAnswersShare`: two pages share a frame only through an interrupted search-then-map. `LostOnlyByRemap`: a frame is lost only when a page is mapped anew. `KernelFramesKept`: kernel memory is handed out only at exhaustion or where `free_page` has marked it free. |
| `Filesystem_safety` | 399,128 | Power failures at any moment. `DirectoryAfterData`: the table on the disk names only sectors that were stored. `OnlyLastFileLost`: what a power failure loses is at most the file registered last, also when its call has returned. `UniqueNames`, `WritesStayInFile`, and `OnlyReloadOverlaps`: only the free sector recomputed at a restart makes files overlap. |
| `Filesystem_two_sectors` | violation | A file of two sectors reads back with its first one twice. |
| `Programs_shell` | 215,756 | From boot on, the shell, popups and the editor reading: `CommandKept` (whatever is typed after ENTER and between whichever accesses, what precedes it reaches the reader), `FirstWordRuns` and `ArgumentsSplit` (against definitions of words that know nothing of `str_split`), `PollEnds` (liveness), `KeyboardStays`, and `NumbersPrinted`. |
| `Screen_cursor` | 624,898 | `LineShown`: a printed line stays in front of the cursor through wraps, scrolls, backspaces and messages elsewhere, unless a key comes while the cursor is set back. `CursorBounded`, `PrintReturns`: a torn cursor stays within a row of the screen and comes back. |
| `Interrupts_lines` | 101,207 | Set-up, three devices, `int $33`, faults, up to three nested handlers. `NothingHeldBack`: whenever interrupts are on no line is in service. `LinesServed` (liveness): every request enters its own stub. `WaitLasts`: `wait_ticks` waits, across the reset of `tick`. |
| `Ata_driver` | 525,491 | Driver and drive word by word. `ImplementsSectorStore` (refinement), `DataWhileRequested`, `CallsReturn` (liveness, for a drive with RDY set), with failing sectors, wrong counts and power failures. |

**Disagreements found.** The two runs that end in a violation are the findings of
`PROJECT.json`, each with the sentence of the code it contradicts: the forked task that is
overwritten (`task_manager.c:40`) and the sectors that repeat the first one (`ata.c:114`).
Further ones are steps the passing properties name as the exceptions they are:

- `OnlyReloadOverlaps`: after a restart the next file overwrites the first one (`initialize_fat.c:39` moves on
  to the next entry before it looks at `lba`), against `filesystem.c:7`.
- `OnlyLastFileLost`: a file whose `write_file` has returned is lost if the power fails before the drive has stored the table.
- `FreesOwnBlock`: a block from `ta_alloc_align` is never freed (`mem.c:181`), against `mem.c:36`.
- `ImplementsSectorStore`: a write of 256 sectors (0 for the loop, 256 for the drive, which the next
  call's command does not interrupt) puts the next file's words where this one belongs.
- `OnlyDisturbedWritesBreak`, `OnlyStaleAnswersShare`: what an interrupt in the wrong place does to the heap and to
  frames.
- `WaitLasts`: a wait across the reset of `tick` is two ticks short.
- A popup with a message is dismissed by the key that dismissed the last one, which is still in
  its buffer, against `popup.c:7`.

### Bounds and why they are enough

- *TaskManager.* `U8 = 4` instead of 256: a table of 4 slots whose counters wrap at 4. `num_tasks`
  takes the values 1, 2, 3 and 0 again, `cur_task` wraps at a value that is no multiple of 3, and
  `TickWrap` is no multiple of `SwitchEvery`, as 0xFFFFFFFE is none of 5. `MaxPos` bounds how
  far progress is followed: one step tells a stale frame from a fresh one. The safety
  properties are also proved for every size.
- *Heap.* 16 bytes of arena, four descriptors, three callers; requests below, at and above the
  split threshold, one aligned request with more than the blocks' alignment. Both
  exhaustions happen, runs of up to three free blocks merge, and `top` moves both ways. `W` is
  larger than the arena: no request of the kernel comes near 2^32.
- *HeapLists.* 10 bytes, three descriptors, three callers in two tasks, requests of 2 and 6: new
  blocks, first fit with and without a split, resizing at top, merges of two blocks and both
  exhaustions happen inside a call. A task is in one call at a time.
- *Paging.* Ten pages, a window of two, two slack bytes, two structures and two tasks: the window
  is exhausted, the search runs into the slack, to -1 and, after `free_page`, to page 0. There must be a
  second slack byte: index 0 past the end stands for page 0, which is an exception of its own in
  `KernelFramesKept`, and what `free_page` does to the other low pages shows only on the second.
- *Filesystem.* `Fit = 3` entries survive and up to 4 are made, one of them of a program: both the full
  first sector and the entry past it occur. Sectors 1..7: files run past the disk's end. `Residue` holds a number above the
  sectors in use in one slot and 0 in the others, so reloads with and without overlaps occur. `MaxFiles` bounds the
  callers; the code has no such guard, and the table in memory has room for 68 entries and the INIT_NODE.
- *Programs.* `I8 = 3` instead of 128 and `Room = 5` characters: positions wrap to negative before
  the buffer is full, and lines beyond the wrap occur. `Room` also bounds typing: `append` does not
  check. Names of commands are of one to three of two letters, so that the lines of that
  length contain all of them, their prefixes and neither. Numbers: real 32-bit integers around
  every power of ten, the extremes, and the first divisors.
- *Screen.* 2 rows of 3 on a card of 3, bytes of 4 values: a position takes both bytes, and a torn
  cursor may lie past the screen but less than a row, as for 25 rows of 80
  (the last byte a cursor on the screen can be torn to: 7·256+256 < 26·80; `ScreenAssumption`). `Followed = 2` characters of the line are compared.
- *Interrupts.* All 48 vectors, lines 0, 1 and 14, `MaxDepth = 3` handlers inside one another:
  a timer interrupt on top of a key on top of a fault occurs. `Stub` gives each stub its address. A device makes no request while one of lower
  priority waits (`Tick`, `Key`): together they are there when made in the other order. `tick`
  counts to 4 of 6 values; every start and every length of a wait occur.
- *Ata.* Three sectors of two words, counts wrap at 4: all runs within the disk, over its end, and
  the largest count occur; two words tell the first and the last of a sector apart.

Deadlock is checked except in three runs. `TaskManager_any` may end in `faulted`,
`Programs_shell` may end with the shell polling a keyboard that will not interrupt again
(a key pressed between `enable_syscalls` and the first prompt), and `HeapLists_tasks` ends once a
disturbed call has written.

### Fairness

- `TaskManager`: `WF_vars(TimerCallback)`. The PIT interrupts for ever whatever programs do, handlers return,
  and programs never mask interrupts for good. That is all `EveryTaskRuns` needs.
- `Interrupts`: `WF_vars(HandlerStep)`, the CPU executes handlers; `SF_vars` of `Boot` and of accepting each line:
  20 ms pass between two ticks, so a request that is acceptable again and again, between handlers
  of higher lines, is accepted, and `kernel_main` goes on. None of the devices or of the program's
  traps and waits.
- `Programs`: `WF_vars(Reads)`, the consequence for the task that reads: it gets the CPU again and again. None of
  key presses.
- `Ata`: `WF_vars(DriverStep)`, the same, and `WF_vars(DriveStep)`: the drive works on what it accepted.

None is assumed where only safety is checked.

## 4. Proofs

Thirty-five theorems, each for every value of the module's constants under its named `ASSUME`s: every invariant,
action property and refinement that the runs check, but for one invariant, that of the printed
numbers, and liveness. What only TLC checks is at the end of this section.

**`TaskManagerProofs`** (every table size, timer period, wrap and set of page structures):

- `TypeCorrect`: no 8-bit counter ever indexes outside `tasks[]`.
- `MisuseOnly`: `Spec => OnlyMisuseBreaksTasks`. Coherence is not an invariant of `Spec`: the theorem is
  about the step that breaks it. Each operation has a lemma that it keeps `Coherent` from
  the types alone, and the switch's is the heart: the frame saved at `cur_task % num_tasks` is the
  running thread's, because `Coherent` says so before the step.
- `DisciplinedCoherent`, `DisciplinedNeverFaults`: under `InsertSafe` and `ForkSafe`. Neither is inductive alone:
  the switch must know that the slot it loads from is in the kernel's space. The inductive
  invariant is `DInv == TypeOK /\ Coherent /\ NeverFaults /\ KernelSpaces`.
- `Refinement`: `DisciplinedSpec => ImplementsProcesses`. A switch maps to `Dispatch`, a fork to `Spawn`,
  computing to `Run`; timer ticks and the insert stutter.

**`HeapProofs`** (every arena, number of descriptors, alignment, split threshold, set of requests and of callers):

- `TypeCorrect`, `DescriptorsConserved`, `ArenaTiled`, `FreeListStaysCanonical`: the invariants of a heap, which need each
  other. `Good` says that the three lists hold every descriptor once, that the blocks in the first two lie
  end to end from `Base` to `top`, and that the free list is sorted; `Strict` that no two free blocks touch. `Strict`
  alone is false inside `ta_free`, between `insert_block` and `compact`: `Inserted` shows that inserting a block into a
  strict list leaves a `Good` one, and `Compacted` that the one pass of `compact`, with runs of any length, makes it
  strict again. Both loops are recursive functions; `Compacted` is an induction over the position in the
  list, whose invariant `Upto` says that the list is strict up to there.
- `OwnBlockFreed`: `ta_free` takes out of use the one block the pointer came from, or none for an aligned pointer. It needs
  `HeldInBlocks`: every caller's memory lies in a used block that is no other caller's. `FreesOwnBlock` tells
  an aligned pointer by its length, hence the hypothesis that no other request has the length of an
  aligned one. The instance satisfies it.
- `HeapImplementsAllocator`: what a call hands out is inside a block that no caller's memory is in, so `Allocator`'s
  guard (nobody holds these bytes) holds; a failed call stutters.

**`HeapProofs`**, the lists (also every number of tasks, however they are switched):

- `SwitchesDoNoHarm`: `ListSpec => []OnlyDisturbedWritesBreak`. The property speaks of the lists between calls and of what calls
  return. Inductive is `ListIInv`: as long as `clean`, the calls are calm (`CalmWith`), that is at most one call has written, all others
  have not begun or are disturbed by it, and what an undisturbed call knows at its statement holds (`State`, with one
  formula a statement, from `ScanAt` to `ClearAt`). A disturbed call may hold anything in its local variables: the model ends when it writes,
  and until then it only reads.
- A formula says which heap the pointers form (`Forms`, by `Linked`: from the head along the sequence to NULL, no recursion) and
  where in it the call is. Between the pointer updates of one operation this is no heap `Heap` knows: a block is on no
  list, or its own link still leads where it did. The unlinked, resized, split and carved heaps are named (`Unlinked`, `Shrunk`,
  `Taken`, `Carved`), and `Inserting` ties each to the heap that the call must end in.
- `compact` is where the two models differ most. `Heap` merges two blocks at a time; the code first walks along the whole run, then sets the size,
  then releases the descriptors one by one. `Compacting` places it in `Heap`'s recursion (`Trace`), `Releasing` says that the size is already the
  run's while the rest of it is still linked, and `ReleaseStep` that releasing one descriptor is one of `Heap`'s merges.
- `ListsAre`: if the pointers form a heap's lists, then the recursive `List` returns its sequences.

**`PagingProofs`** (every size of memory, window and slack, any number of tasks and structures):

- `TypeCorrect`: also beyond exhaustion and over the slack, every frame mapped is a page.
- `OnlyStaleShare`: `Spec => OnlyStaleAnswersShare`. `PhysicalPageValue` shows that the wrapped product
  yields a frame of the window only for the index of that frame, so what the search returns is free
  (`FirstPhysicalPageFree`); `MapFreeFrame` that mapping a free frame keeps any tables isolated, used for
  both `map_page` and the copied tables of `setup_task_paging`; `FreePageIsolated` that
  freeing a page and page 0 takes no frame from another page.
- `LostByRemap`: for each action, a frame that is mapped before it and not after has been replaced by another in the
  entry that named it, or its byte was cleared.
- `SearchKeepsKernel`: `Spec => KernelFramesKept`, with the inductive invariant `KernelInUse`: every page the search
  cannot yield at all (outside the window, the slack's pages, 0 and the last) stays marked used, and tasks and tables
  name only pages it can yield. The attempt to prove an earlier form of the property, which allowed only page 0, failed
  for a good reason: a page handed out at exhaustion through the slack and freed is handed out again while
  the window has room. The old instance had one slack byte and could not show it.

**`FilesystemProofs`** (every disk, table size and set of names, data and rescued programs). The inductive invariant `IInv`
joins what `load_fat_from_disk` finds (`Down`), the place of the call in progress in its file (`InCall`), the uniqueness of
names in memory and on the disk (`AllDistinct`), which entries are registered (`Counted`), what the sector in the drive's buffer can be at
each point of a call (`InFlight`), how far the table on the disk is behind (`Lag`), and `AfterData`: the sectors of every
entry, in memory and on the disk, are stored, save those the running call has yet to send or the drive to store.

- `TypeCorrect`, `NamesAreUnique`, `SectorsOfTheFile` (`WritesStayInFile`).
- `DataFirst`: `DirectoryAfterData` is not inductive, as the table on the disk is taken from memory: `AfterData` has both.
- `OthersAreDurable`: `Spec => []OnlyLastFileLost`. `Lag` is what is inductive: the table on the disk is that of the registered files, or of
  all but the last while that one's table is not stored; the next call's first sector waits for the drive, so it never
  is two behind. `StoreTableStep` catches up, and `StoreDataStep` leaves the table alone.
- `OverlapsComeFromReload`: from any state without overlaps every step but a reload leads to one. The step lemmas show
  that a new entry starts at `free` and `free` moves past its end.

**`AtaProofs`** (every disk, sector size, count width and data):

- `TypeCorrect`, with driver and drive each correct by itself, whatever the other does (`DriverOK`, `DriveOK`).
- `AccessesWhileRequested`: `DataWhileRequested`. Inductive is how the two keep step while every call names sectors of the disk
  (`InStep`): in the loop the drive is either at the driver's sector and has exactly as many of its words
  (`Offered`), or still stores the sector before (`Storing`); between calls it is idle or
  stores the last sector (`Between`). That the driver polls BSY and never DRQ between words suffices just because of this.
- `SectorsInOrder`: `ImplementsSectorStore`, from the same invariant: the drive's step that stores a sector is `SectorStore`'s,
  the first poll of a call adds nothing to store before the last call's sector is on the disk.

**`InterruptsProofs`** (every `MaxDepth`, addresses of the stubs below `U16` and width of `tick`):

- `TypeCorrect`.
- `NoLineHeldBack`: `NothingHeldBack` says only what holds while interrupts are on. Inductive is who owns the lines in service
  (`ServedByTop`: only the innermost stub, and only while interrupts are off, whatever its number), that whatever was
  interrupted had interrupts on (`FlagsOn`), and that the flag is off only between the entry of a stub and its output or
  return (`OffInStubs`). `Registered` (each handler is on its own vector) shows that `disk_interrupt`'s second
  acknowledgement finds nothing in service.
- `WaitsLast`: `TickFollows` relates `tick` to the ticks seen since the wait began, across one reset; `ElapsedValue` is the
  subtraction of 32-bit numbers.

**`TerminalProofs`**, the screen (every size of screen, card and registers with `ScreenAssumption`, messages of any length):

- `CursorStaysBounded`: the high register holds at most the high byte of the screen's last position, whatever bytes are mixed, so
  the cursor stays below `Torn + 1`, less than a row past the screen (`Types`, `CursorTorn`, `Bytes`).
- `LineStays`: `LineShown` speaks of `doing = "idle"` only. Inductive is that while the cursor is set back the line stands in front of
  `saved` unless a key was echoed (`Lines`), and which register the next byte goes to and which high byte
  is already there (`Restoring`). `PrintCharLine` shows for one character, and `KprintAtLine` by induction for a message,
  that the line moves with the cursor; `KprintAtCovers` that a message elsewhere leaves it alone.
- `CursorComesBack`: `PrintReturns`.

**`TerminalProofs`**, the lines (every width of the index, every room of a buffer, any keys, every list of commands with different
names of letters):

- `EnteredReaches`: `CommandKept` speaks of the line when `read_line` has returned. `KeptOnTheWay` says it for every point before: the
  line begins with what was entered, and with its ENTER too until the last character is removed, and no length taken of it on
  the way cuts into that. `InputType` says where the handler may still append. A key changes the line at its end only
  (`KeyKeeps`), a cut leaves what lies before it (`CutKeeps`).
- `KeyboardNeverStuck`: `KeyboardStays`, as interrupt 33 is the keyboard handler's from the first poll on
  (`Listening`) although system calls took it before.
- `ArgumentsAreSplit` and `FirstWordIsRun`: `ArgumentsSplit` and `FirstWordRuns`, with the definitions of words that know nothing of
  `str_split`. The pieces lie between consecutive delimiters (`Marked`, `SplitOf`); between two there is none, so
  each piece's text is a word without spaces (`WordsAre`, `SpaceIs`), and the words joined from the second on are the line from its first
  space on without the spaces (`JoinedIsWithout`, by induction over the pieces). `SplitStays` is false exactly when the first character is
  a space, which is looked at twice and gives a piece of no bytes. `Resolves`: `resolve_command`'s list search
  finds the only command of a name. `Delimiters` and `Without` are recursive functions, which `DelimitersLoop` and
  `WithoutLoop` unfold; an earlier form used `SelectSeq`, whose definition the provers cannot open.

**`Lemmas`** holds what several of them need: `Least` and `Induction` (induction over the numbers as a statement about
sets, since the library's theorems over operators cannot be used), `Recursion` (the function a recursive definition defines exists),
and facts about inserting into, removing from and searching sequences.

**Assumptions.** The named `ASSUME`s of the modules, evaluated by TLC in the runs; no proof uses another, save the hypothesis of
`OwnBlockFreed`. Widths are positive; `PagesAssumption`: the window lies in the lower half of the address space and above the
slack (0x4fff to 0x7000, of 2^20 pages, above 0x400); `RequestsAssumption`: no request is 0 or comes near 2^32;
`AlignmentAssumption`: the alignment (8) is no larger than the end of the arena, so that the size `HeapLists` compares
with `Heap`'s, which `alloc_block` has rounded up already, stays as it is when `AllocBlock` rounds it up;
`ProgramsAssumption` and `DataAssumption`: rescued programs have different names and are fewer than 16 (`initialize_fat.c:79` has
room for 15), files have up to 255 sectors; `InterruptsAssumption`: stubs are at different addresses below 0x10000;
`ScreenAssumption`: 7·256+256 < 26·80 for the real sizes; `CharAssumption`: messages are sequences of characters other than the
backspace; `CommandsAssumption`: the names of the commands are of letters and different, as `kernel_main` registers them.

**Model-checked only.** The liveness properties (`EveryTaskRuns`, `PollEnds`, `LinesServed`, `CallsReturn`), which need fairness and
ENABLED. `Programs`' `NumbersPrinted`, which is
about what recursive functions compute from data: digits and their value, by folds over them and powers of ten, checked on chosen
32-bit numbers. `Screen`'s types are part of `CursorBounded`, those of `Programs` in `InputType`.

## 5. Not modelled, and why

- Boot code: straight-line set-up. Of port I/O, what an access does to the device is in `Ata`, `Screen` and
  `Interrupts`.
- Contents of memory, hence: what overruns of line buffers and argument arrays overwrite, what `kernel_loop` reads past the
  array `str_split` returns (`Programs` assumes that it ends the loop), failing allocations in `copy_nonkernel_pages`,
  `ta_calloc`'s clearing.
- A drive that clears RDY, after an error or while it spins up: `ATA_wait_RDY`, which has no timeout, would hang. The emulator's drive,
  for which the system is built, keeps it set.
- In `Filesystem`: a power failure before `load_fat_from_disk` has returned, hence inside the writing of the first table; a sector
  stored in part; the time between the two sectors of a table of 23 entries or more (its call is taken to return after
  the first, which is the one that counts); leftovers in an uncleared table that look like an entry's magic number; more
  programs than `rescue_program_headers` has room for, and more entries than `fat_head` has.
- Kernels larger than 0xF000 bytes, whose stubs could lie above 0x10000: `set_idt_gate` would lose the high half.
- Requests of 0 bytes to the heap: `RequestsAssumption`; only `str_split` makes them, for lines that begin with a space.
- The shared stack of tasks: `popa` and `iret` restore no esp, so two tasks that both call functions
  clobber each other's frames. `TaskManager` follows registers only, and the other modules have
  one program besides the handlers, which is how `kernel_main` leaves the system: its mother
  task loops without calls. `HeapLists` shows what two tasks would do to the heap if their stacks
  were their own.
- Two callers of the file system or of the disk driver: no two tasks of this kernel use either.
- `other_program` and the window manager, which print constants; `tedit`'s `save_program`, `exit_program` and
  `initialize_keyboard`, which nothing calls or which are empty; `clear_bwl` and `add_bwl`.
- The TLB, colours, shift keys and releases; the scancodes above 0x3C, for which the handler reads past `ascii`.
- What other commands than PAGE and ECHO print, and RUN's commented-out body.

## 6. Plan

Done, in this order: task manager and its abstract specification with the proofs; heap and
its abstract specification; paging with its proofs; file system; screen; the keyboard driver
with the shell and the programs; the ATA driver and its abstract specification; interrupts; the heap's
lists under task switches.

And proved: task manager, paging, heap and its lists, file system, disk driver, interrupts, screen, and the lines and words of the shell (section 4).

To extend: `Heap` below `Paging`, for `setup_task_paging` when the heap is exhausted (hazard `paging.c:57`); the heap's
contents below `Strings`, for lines longer than their buffers (`string.c:93`).
