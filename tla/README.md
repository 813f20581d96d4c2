# SplongleOS in TLA+

SplongleOS is a 32-bit x86 hobby kernel: it boots through Multiboot, manages
physical memory and pages, handles interrupts, multitasks cooperatively and runs
a shell on a text console. This directory holds its formal models, the TLC runs
that check them on small instances, and proofs of the properties that matter
most, checked by TLAPS for every value of the constants. Paths below are
relative to the kernel sources, `src/kernel/`.

## 1. Inventory

| component | state | operations | what makes it correct |
|---|---|---|---|
| scheduler (`sched/sched.c`, `sched.asm`) | `tasks[]`, the ready list threaded through `next`, `g_first_ready`, `g_last_ready`, `current_task_TCB`, lock and postpone counters, `IRQ_disable_counter` | `create_kernel_task`, `Schedule`, `switch_to_task`, `lock_`/`unlock_scheduler`, `block_`/`unblock_task`, `acquire_`/`release_lock` | the list is the waiting tasks, in order, none lost; a blocked task stays off; locks postpone switches and forget none; IRQs come back exactly when nobody wants them off |
| keyboard (`dev/keyboard.c`) | ring buffer, head, tail, shift and caps flags | IRQ 1 handler, `keyboard_haschar`, `keyboard_getchar` | keys come out once, in order, whole |
| shell (`shell/shell.c`) | `input[]`, `pos` | poll, edit, `send_command`, yield | the index stays in the buffer; the command is the line that was typed |
| physical memory (`memory/physical_manager.c`) | the bitmap `g_memoryMap`, `g_maxBlocks`, `g_usedBlocks` | init, initialize and deinitialize a region, allocate, free | no block has two owners; reserved memory is never given out; a request fails only when memory is full |
| boot memory map (`memory/memmap.c`, `main.c`) | the Multiboot entries | `get_total_mem`, `set_type1`, reserving kernel and map | every free block is available memory, but for what an unaligned start gives away with it |
| paging (`memory/page.c`) | page directory and tables, the TLB | map, unmap, allocate and free a page, page-fault handler | no frame is mapped twice; a fault is resolved; the TLB agrees with the tables |
| console (`stdio.c`) | cursor, 80x25 cells | `putc`, `eatc`, `movecursor`, `scrollback`, `clrscr` | nothing is written past the cell after the screen's last; a handler that prints leaves the cursor where it was |
| real-time clock (`arch/i686/rtc.c`) | the published date and time, a tick count | IRQ 8 handler | no torn or impossible time is published, and the hour is the one shown |
| timer (`arch/i686/i8254.c`) | `ticks` | IRQ 0 handler, `sleep` | a sleep ends, and not before the ticks it was asked for, but a part of one |
| ATA disk (`dev/ata.c`) | the selected device | identify, read, write | polling ends, errors are seen, the right device is selected |
| PIC, IRQ, ISR (`i8259.c`, `irq.c`, `isr.c`, `idt.c`) | the mask, the handler tables | init, mask, dispatch | only interrupts with a handler are unmasked |
| hardware bring-up (`hal/hal.c`) | none of its own | the calls above, in order | every interrupt that can come finds a handler |
| PCI (`pci.c`) | none | `SelectDrivers` | every function on the bus is found |
| PC speaker (`dev/pc_speaker.c`) | on or off | `play_note` | a note ends |
| VGA, GDT, helpers, build | little or none | | see section 7 |

How they interact. Interrupt handlers (timer, keyboard, clock) run at any point
at which the interrupt flag is on and share memory with the code they
interrupt: the ring buffer, the cursor, `ticks`. The clock's handler prints with the
console's cursor while a task prints. Tasks share the CPU by calling
`Schedule()`; nothing preempts them, since the call in `PIT_Handler` is
commented out (`i8254.c:73`). The interrupt flag is the one piece of state that
everybody touches: `lock_scheduler`, the locks, `sleep`, `RTC_Handler`, and the
helpers that do `cli` ... `sti` without looking. `allocate_blocks` serves paging,
and paging serves the page-fault handler, which may strike inside the allocator.

What is hard: the pointer surgery of the ready list over long sequences of
calls; counters that one task raises and another lowers; the handler of a key
striking in the middle of a read; memory maps in any order and with any
alignment; handlers that borrow the console from whoever is printing; a page
fault inside the handler of a page fault; hardware that interrupts its own
initialisation; a chip that moves on while it is read; a tick that comes between
a test and the `hlt` after it.
`PROJECT.json` lists each hazard at its line.

## 2. Modules

| module | what it is |
|---|---|
| `Scheduler` | the scheduler at the level of TCB pointers |
| `RoundRobin` | what it promises: a queue, served in turn |
| `MCScheduler`, `sched_*.cfg` | workloads and runs |
| `Scheduler_proofs`, `ReadyList_proofs`, `RoundRobin_proofs` | theorems about `Scheduler` |
| `Keyboard` | the IRQ handler, the ring buffer and the shell's loop |
| `KeyQueue` | what the ring buffer promises: a bounded queue |
| `MCKeyboard`, `keyboard.cfg` | the run |
| `Keyboard_proofs` | theorems about `Keyboard` |
| `PhysicalManager` | boot memory map, bitmap allocator and its clients |
| `MCPhysicalManager`, `phys*.cfg` | machines and runs |
| `PhysicalManager_proofs` | theorems about `PhysicalManager` |
| `Paging` | tables, faults and the TLB, on `PhysicalManager` |
| `MCPaging`, `paging.cfg` | machines and the run |
| `Paging_proofs` | theorems about `Paging` |
| `Printk` | what a format and its arguments become |
| `Console` | cursor and screen, interrupted by clock and cursor keys |
| `MCConsole`, `console.cfg` | the run |
| `Console_proofs` | theorems about `Console` |
| `Interrupts` | descriptor table, handler tables, 8259 |
| `RealTimeClock` | the CMOS chip and its handler, on `Interrupts` |
| `Pci` | the walk over the bus, as operators |
| `Hal` | boot, timer, notes: composes the last three |
| `MCHal`, `hal.cfg`, `rtc_noon.cfg` | chips, buses and the runs |
| `Hal_proofs` | theorems about `Hal`, `Interrupts`, `RealTimeClock` and `Pci` |
| `Disk` | the ATA driver and the drives it polls |
| `MCDisk`, `disk_error.cfg` | the run |

Definitions keep the names of the code. One with a suffix (`PutsBack_Always`,
`TakeBlocks_Slip`) is its namesake with a slip the code could have; no action
uses it, it is there to show that a property would notice.

### Scheduler

A task is its slot in `tasks[]`. The variables are the globals of `sched.c`, the
TCB fields `state`, `next` and `entrypoint` as functions of the slot, the CPU's
interrupt flag `intsOn`, and for each task where it is: in its own code (`run`) or
inside a call that has yet to do its `unlock_scheduler()` (`unlock`). `Init` is the
state `Multitasking_Init` leaves. Because tasks are cooperative, an action is one
call up to the point where `switch_to_task` loads another stack; the caller's
second half is the action `unlock_scheduler`, taken when it is switched back to.
`SwitchTo`, `Dispatch` and `Schedule` follow the branches of `switch_to_task` and
`Schedule`, including the idle task that is skipped and re-linked, the list
head popped without touching `g_last_ready`, and the `next` pointer that
`unblock_task` leaves stale. `block_task(PAUSED)` with nothing else ready returns
to a task marked PAUSED, and the model does so too.

What tasks do is a parameter: `Body` gives the calls of each entry point, and
`Startup` the tasks `kernel_main` creates. `KernelTaskBody` is what `main.c` and
`shell.c` contain. The runs add a `worker` that uses the whole API and a `client`
that yields and locks, since the API is there for tasks to come. `unblock_task`
is called only on a task that is blocked, by another task.

### Keyboard

The handler is one step (it runs with interrupts off) and can come between any
two steps of the shell; `keyboard_getchar` is three of them: the test, the read of
the slot, the step of the tail. A character is the key and whether capitals are
on, which is what the two tables distinguish. `line` is a history variable: what
the user's edits amount to, whatever is left in `input[]`. Keys that change
nothing here (releases, cursor keys, the 0xE0 prefix, keys typed while the cursor
is on row 0) are steps that stutter.

### PhysicalManager

`g_memoryMap` is the set of the bits that are 1, which may lie past the map: the
code can read and write there, so before the boot they are whatever `Garbage`
allows. `kernel_main` runs first: the lengths are added up, the map is placed,
each entry of the memory map frees or reserves its region in the order the boot
loader lists them, then the kernel and the map are reserved, rounded down as in
the code. After that, clients take and free blocks; `owners` is a history
variable. `find_first_free_block` is modelled as it is, with the window it counts
starting at `1 << j` where `j` is meant. The bit widths and block sizes are
constants, so that a machine of 32 blocks shows what one of 2^20 does.

### Paging

`Paging` EXTENDS `PhysicalManager` and takes its allocator as it is: `Allocate` and
`Free` are the same actions, with the bitmap now behind page tables. An address
is a page or block number; `pd` and `tables` are the directory and the tables, the
latter a function of the blocks they are in. The kernel reaches a table and the
bitmap at their physical addresses, so an access past the 4 MB that are mapped to
themselves is a page fault of its own: `SearchFault` says on which bit
`find_first_free_block` would fault, `ClearTable` whether the `memset` of a new table
does. Calls are therefore a stack, `calls`, each at one of four steps, and
`cpu` says how it ends when it ends badly: `PFHandler` has no memory and loops, the
stack is full, or the directory points to a table that was never cleared.
Clients touch, allocate, free and unmap pages; a TLB of one entry shows each
translation's life. `stale` and `detached` are history variables.

### Printk and Console

`Printk` has the state machine of `printk`, one `Iteration` for each character, and
what it is to print (`Rendered`), which is written from the meaning of a format and
not from the code. `Console` has the screen: `putc`, `eatc`, `scrollback` and
`setcursor` take a step for every access of shared state, the `++` of the cursor
being two and `setcursor` five, so a handler can come between any two. The
handlers are one step: the clock's saves the cursor, prints, restores it
and ends with `setcursor` of the old position (`Clock`); the two cursor keys move it
(`movecursor` in the keyboard's handler). Of the screen's contents
the model keeps which cells show something of the clock's. The task that prints is
one, as in the kernel, where tasks print between two calls of `Schedule()`.

### Interrupts, RealTimeClock, Pci, Hal

`Interrupts` has the calls on the descriptor table, the handler tables and the
interrupt controller; a mask is the set of its bits, written in two halves as
`i8259_SetMask` does. `RealTimeClock` has the chip, which carries a second through
its registers one after the other under its update flag, and `RTC_Handler` register
by register: poll, read six, compare with the previous six, convert, publish,
read register C. `Pci` is a set of operators. `Hal` runs them: `HAL_Init` is
the sequence of the steps of `hal.c` (each port access of `enable_RTC`, each half of a
mask), the hardware raises lines between any two, and once booted the
shell plays notes: speaker on, channel 2, `sleep` with its test and its `hlt` apart,
speaker off. `elapsed`, `asked` and `shown` are history variables. The order of the
handlers' effects on interrupts is the code's: `RTC_Handler` turns them on itself
before it returns.

### Disk

A call is a plan of stages: selection, command, each polling loop, each transfer.
A drive answers a command with data or with an error, and ignores a command while
it has BSY or DRQ; a bus without a drive reads as ones. `polls_ignored` is
the `uint8_t` it is. What a sector says is left out. The boot does not call the
driver, so it is modelled apart.

## 3. Runs

| run | shows |
|---|---|
| `sched_rr` | with `kernel_main` and two more tasks that never block: the chain is the list of waiting tasks, the scheduler implements `RoundRobin`, a blocked task stays off, every waiting task runs |
| `sched_api` | all calls in any order, also where the list is not healthy: pointers, states, counters, postponed switches; every task but `kernel_main` gives up the CPU with interrupts off; one task more than fits |
| `keyboard` | types, no spurious character, the command is the line, the ring is a queue, every key is read |
| `phys` | five machines: blocks are disjoint and never reserved, and each of their bytes is in an entry called available, but for those before an entry that begins inside the block |
| `paging` | six machines: no frame under two pages, the TLB goes by the tables but for a page taken away, no frame is lost, every fault ends, and a nested one ends the kernel |
| `console` | a glyph goes to the screen or to the cell after its last, the clock spoils only its columns, the hardware's cursor follows, `printk` prints what its format means, every print ends |
| `hal` | interrupts in the middle of the boot find their handlers, the clock is never silenced, the fields it publishes are those of one time that was shown (but for the hour at twelve of a chip with two halves of the day), a sleep ends and misses only a part of one of the ticks it was asked for, the bus is listed |
| `sched_boot`, `phys_map`, `phys_refuse`, `rtc_noon`, `disk_error` | disagreements, section 5 |

Bounds. `sched_rr` has seven slots (five tasks beside the idle task and
`kernel_main`): two that never block and three that do, so the list can be short,
long, and in every order. `sched_api` has three workers for two slots left, and
nests locks twice, which reaches every combination of the postpone flag and the
counters. `keyboard` has a ring of three slots and a line of three bytes: both
fill up, wrap, and empty, and its six codes take each case of the handler that
has an effect; the histories are bounded by the line. `phys` has words of four
bits and a map of 16 to 32 blocks: windows cross words and leave the map, the
counter wraps, a map is out of order, one has more memory above 4 GB than
below, and one has available memory that ends and begins inside a block. Only
`MaxLocks` bounds the model rather than the instance: nesting is a matter of how
the code is written, and the proofs hold for each value.

`paging` has 32 blocks of 4 bytes and tables of 13 pages, so the first table
maps a part of the memory, as 4 MB are a part of it, and the bitmap of the largest
machine reaches past what is mapped. Its machines end too early for the
directory, for either table, exactly at the end of what is mapped, and beyond
it with holes; each of the four ends of `cpu` and a failed `Page_Manager_Init` are
reached. `STACK` is the nesting that fits on the kernel's stack (4: a fault within a
fault within a fault), `LEAKS` bounds the frames `unmap_page` leaves behind.
`console` has three rows of six columns, the smallest on which a tab, a wrap, a
scroll and the clock's two columns all meet; `BYTE` is 5 so the position takes both
registers; `KEYS` bounds the cursor keys struck during one `putc` (2: a key
repeats ten times a second, a `putc` takes microseconds; the proofs need fewer than
a row's columns). In `hal` `ticks` wraps at 5 and two milliseconds are a tick, so
that of the two notes, of one and of four milliseconds, the first is less than a
tick and the second two whole ones; every interrupt of the chip begins a reading.
Its two chips are a second before several carries, each in a format of its own, and
one of them passes noon. `UPDATES` bounds the seconds that fall into one run of the
clock's handler and `UPTIME` those in all of them: one is enough to tear any read.
`rtc_noon` has a chip at noon and no second passes.

Two assumptions about time are in the guards of `hal`. The task is not held up for
as long as `ticks` takes to wrap (497 days): `PitPulse`. And the clock's
handler is not entered again before it has returned, its next
interrupt being a millisecond away: `EnterRTC`.

The other assumptions are about the machine, and the runs evaluate each. A bus keeps
to the standard (`BusAssumption`: an empty place has no vendor, a device of several
functions has the first). A chip starts at a date of the calendar (`ChipsAssumption`).
The two tables made at the start map memory below 4 GB, and the higher half is not
mapped to itself (`KernelTablesAssumption`; the kernel's is table 768, at 1 MB). The
bits the search of the map reads lie below the end of the address space
(`BitsAssumption`). The interrupt controller answers its probe: on a machine without one
`i686_IRQ_Init` prints "No PIC found" and returns (`irq.c:34`), and no interrupt comes.

Deadlock. `sched_rr` checks for it. In `sched_api` and the boot runs the idle task
may have the CPU with nothing else runnable, where the real kernel halts, so it
is off there, and in `paging`, where the kernel stops on purpose. All other passing
runs check for it.

Fairness. A task that has the CPU runs its code: it creates the tasks
`kernel_main` creates, and finishes the call it is in (weak fairness). Its endless
loop comes round to its next `Schedule()` or `block_task`, and it releases a lock
it took; other calls lie between, so these are strongly fair. That is a
property of task bodies which are loops with no inner wait, as all of those in
`main.c` and `shell.c` are; no fairness is assumed about `unblock_task`. In
`keyboard` the shell is weakly fair, which is `EveryReadyTaskRuns` of the
scheduler; no fairness is assumed of keys. In `paging` and `console` the code that
was interrupted or that faulted goes on (weak fairness of its steps), whatever
the handlers do. In `hal` a deliverable interrupt is taken, a handler goes
on, and the timer and the chip keep running (weak fairness); the task gets its
turn between interrupts (strong fairness, since each handler disables it: it has a
millisecond from one interrupt of the clock to the next). In `disk_error` the driver
goes on and a drive answers, without which a wait would show nothing.

## 4. Theorems

All are about every value of the constants, under the named assumptions in the
modules.

`Scheduler_proofs`: type correctness, valid pointers, one running task, the
balance of `IRQ_disable_counter`, no forgotten switch, no switch under a lock, and
(for workloads without `sleep`) that interrupts are on exactly when the counter is
0. Each follows from an invariant that is inductive by itself or with type
correctness; the balance counts calls under way as a finite set that a call
enlarges by one task and an unlock shrinks by one. Together they give that every
task but `kernel_main` gives up the CPU with interrupts off (`SwitchesWithIrqsOff`,
from `NeverSleeps` and `OnlyMainBare`): at a release a lock is still held, so the
counter is not 0 and the flag is down. `sleep` has to be excluded, because it turns
interrupts on inside a lock, and a release can then switch with them on.

`ReadyList_proofs`: the chain is exactly the waiting tasks (`ReadyListOK`), and
blocked tasks stay off (`NoResumeOfBlocked`), in a `HealthyWorkload`: `kernel_main`
and two more tasks that fit never block. The assumption is not for convenience:
`g_last_ready` is never cleared, so the list breaks once its last element is
popped, and a boot with fewer tasks does that (section 5). The invariant
`HealthyInv` says that before the first switch the list is what creation made,
and from then on it has the idle task at its head, ends in `g_last_ready`, holds
each waiting task once, and has at least one task beside the idle one. Three
tasks that are always running or listed give the last part: one runs, two are
listed, so the one popped is not the last. Only then is the stale `next` of an
unblocked tail harmless: it is overwritten before anyone follows it.

`RoundRobin_proofs`: in the same workloads `Scheduler` implements `RoundRobin`
(`SchedulerIsRoundRobin`). The refinement mapping is a walk along the `next` pointers
(`ReadyQueue`), so the first part shows what a recursive function computes: the
equation of the walk has a solution for every length (`WalkIsDefined`), and from the
i-th element of a chain on it finds the rest of the chain (`QueueOfChain`). The
library's induction theorems cannot be instantiated, so both argue by a least
counterexample (`LeastNatural`, from the well-foundedness of `<`). Then each change of
the chain is a change of the queue: `Appended` is `Append`, `Skipped` is `Tail`
(`AppendedQueue`, `SkippedQueue`), and each call is `Join`, `Wake`, `Rotate`, `Park`,
`ParkLater` or a stutter. The list of `ReadyList_proofs` is what makes the mapping
say anything: where the list is broken the walk misses tasks.

`Keyboard_proofs`: types, no spurious character, the command is the line, and
that the ring implements `KeyQueue` (`RingIsQueue`). `BufferInv` says that the slots
from tail to head hold characters, that the shell is inside
`keyboard_getchar` only while the buffer is not empty, and that what it has read
is still in the slot. `PushEffect` and `AdvanceEffect` reduce modular indices to
positions; the refinement follows from them, the initial state mapping to the
empty queue and each step to `Put`, `Take` or a stutter.

`PhysicalManager_proofs`: with requests of one block, blocks are disjoint,
reserved memory stays used, and only available memory is handed out, byte by byte
but for what lies in a block before the start of an available entry: `RegionBytes` says
where the bytes of a region's blocks are. The
invariant follows the bits through the boot: before the regions are freed each
bit that is ever searched is 1 (the `memset` covers the words that are searched:
`WholeWordsAssumption`), a 0 bit means available memory and not block 0 from then
on (`UsableBlocks`), and a reserved bit stays 1. For two blocks or more the search may return a run
that overlaps used blocks, so nothing of the kind can be proved; the one such
request of the kernel is the first ever made (`page.c:97`).

`Paging_proofs`: types, the TLB goes by the tables (`TlbCoherent`), no frame is under
two pages (`FramesExclusive`), and none is lost (`NoFrameLost`), for every machine, size,
depth of the stack and nesting of faults. The invariant, `PagingInv`, is about who
holds a block. A claim is a kind, an index and a block: the directory's blocks, a
slot's table, a page's frame, a frame that `unmap_page` left behind, and what each call
under way has in hand. `Accounted` says that every owned block has a claim, that it has
only one, and that claimed blocks are owned; each step adds a claim to a block that was
free, hands a claim on (`CallsInv` says from whom), or gives one up and frees the block.
Two parts carry the nested faults. A call below the top of the stack never goes on:
either its new table lies beyond the first 4 MB, where clearing it faults for ever, or
its search of the map faults and does so again for the nested call (`Clearing`,
`Searching`). And a table that does get cleared is in the first 4 MB, so only then is
it entered (`ReachedTable`). The allocator's part, `AllocInv`, reuses `SafeBoot` and
`Types` of `PhysicalManager_proofs`; its requests are of one block but for the first
ever, of three (`page.c:97`), which is the directory. Once the kernel has gone astray
or hung, the claims are no longer kept and nothing is said of them.

`Hal_proofs`: six properties of `Hal`, each with an invariant of its own. `DispatchInv`
follows the tables through `HAL_Init`: interrupts come on only after the gates, the
controller's base and the handlers of its lines are in place (`VectorsAreHandled`).
`LinesInv` follows the clock's line through both masks: an interrupt of the chip that
waits to be read is pending at the controller or being handled, also when it strikes
during `enable_RTC` (`ClockIsNeverStuck`). `SleepInv` says that while a task sleeps
`elapsed` and `ticks - start` differ by whole turns of the counter
(`SleepMissesPartOfATick`). The milliseconds are rounded down to ticks and the first
tick may come at once, so in time a sleep may be short by less than two ticks. `PciInv` has the walk list exactly what is on the bus
(`BusIsListed`). `TimeInv` says of each register the handler read in which second it was
read, counted from when the handler was entered: two equal passes have every field of one
second (`PublishedTimeWasShown`). `Made` is what the code makes of a time, which is that
time but at twelve. This needs that less than a minute goes by in one run of the
handler (`WithinAMinute`: otherwise the seconds come round), and a sleep that its ticks fit in 32 bits before they are
divided (`NotesFit`: the kernel's longest note is 1000 ms, 42 million fit). Both are
hypotheses of the theorems, and true of the runs.

`Console_proofs`: types, glyphs at most one cell past the screen, the hardware's cursor and the clock's
columns, for every screen and every interruption. `CursorInv` says where the
cursor may be at each place of `putc` and `eatc`. A row is counted up twice in one
`putc`, by `\n` and by the wrap, only if the cursor keys take the cursor from
column 0 to the edge in between, which `KeysAssumption` excludes (`KEYS <
SCREEN_WIDTH`: eighty keys do not fit in a `putc`); without it the cursor leaves the
screen. `CrtcInv` says what the registers hold at each port write of `setcursor`: the
clock can leave the high register selected, so that the low byte goes into it,
but then the clock has already put that byte into the low one, and the high one is
still to be written.

Only model-checked: liveness (`EveryReadyTaskRuns`, `KeysAreRead`, `FaultResolves`,
`NestedFaultFatal`, `PrintingEnds`, `NoteEnds`), which is out of the prover's reach; what
`printk` makes of a format (`PrintkRenders`), a recursion over formats; and the
disagreements of section 5, which TLC shows by a counterexample. Every other property
of a passing run has its theorem.

## 5. Where the code disagrees with its own words

* `sched_boot`: with the tasks the kernel boots (`kernel_main`, idle, shell), the
  first `Schedule()` skips the idle task, takes the shell off the list, and leaves
  `g_last_ready` pointing at it; `kernel_main` is then linked behind the shell and
  never found again. `sched.asm:55-56` promises "mark it as ready to run instead"
  and "append previous task to the ready list". The kernel survives because
  `kernel_main` has nothing left to do.
* `phys_map`: `main.c:65` reserves the map rounded down to whole blocks, so less
  than 128 MB of memory leaves all of it free, and any size that is not a multiple
  of 128 MB its tail; `main.c:63` says the map is set as used.
* `phys_refuse`: `allocate_blocks(1)` may find "no free space large enough"
  (`physical_manager.c:51`) while a block is free, because the search looks at the
  neighbourhood of another block.
* `rtc_noon`: of a chip with two halves of the day, 12 PM is published as hour 0 and 12
  AM as hour 12 (`rtc.c:57`), which `rtc.c:56` calls "convert 12hr to 24hr".
* `disk_error`: an error of a drive does not end a read or a write: `polls_ignored` is
  unsigned, and `polls_ignored < 0` is never true (`ata.c:182`, 260, 302, 321);
  `ata.c:179` says it is polled for, after four that are ignored.

Seen while modelling, where no line of the repository says otherwise, or where the
passing runs have it as it is:

* `kernel_main` calls `Schedule()` bare, with interrupts on (`main.c:135`), though
  `sched.c:114` and `sched.asm:24` say the caller must have locked; `SwitchWithIrqsOff`
  holds of every other task.
* An available entry that begins inside a block gives away the whole block
  (`physical_manager.c:76`); `OnlyAvailableMemory` excepts the bytes before it.
* A cursor key in the middle of a `putc` can take the cursor past the end of the last
  row, and the character goes to the cell after the screen's last (`stdio.c:137`).
* `sleep` rounds down to ticks and counts the first one in full, so a sleep of 19 ms may
  be over within 10 ms (`i8254.c:80`).
* `unmap_page` and `free_page` leave the translation in the TLB, and `unmap_page`
  its frame allocated (`page.c:37`, `page.c:89`).
* A page fault inside the page-fault handler's own allocation is never recovered
  from, and the search causes one as soon as it comes to block 25 of a word of the
  map: it reads 4 MB further on (`physical_manager.c:41`, `NestedFaultFatal`).
* A tab does not align: its loop computes the bound anew, and it prints one to
  three blanks, or wraps (`stdio.c:132`). `eatc` at column 0 erases the cell after the row
  (`stdio.c:163`).
* `GetBAR` returns a structure it never filled where its comment says "null BAR"
  (`pci.c:114`); nothing comes of it, as no driver is found.
* After one sector, `ATA_Read28` and `ATA_Write28` wait for DRQ again, which a
  conforming drive has no reason to raise (`ata.c:213`), and `ATA_Identify` leaves 209
  words of the drive's answer unread.
* The keyboard's line is open before it has a handler (`irq.c:50`); a key
  struck then is acknowledged and its byte stays in the keyboard's controller. So is
  the timer's and the clock's, where it does no harm: `ClockNeverStuck`.

## 6. Plan

Done: the models of the scheduler, the keyboard and shell, physical memory, paging, the
console, interrupts, clock, timer, bus and disk, and the theorems of section 4. What is
left, in this order:

1. The counters of `PhysicalManager`: what `g_usedBlocks` says of the map, and when a
   request is refused, as invariants and theorems.
2. `PrintkRenders` for every argument, by the least counterexample that
   `RoundRobin_proofs` uses, if `Rendered` can be told without a recursion over text.

## 7. Not modelled, and why

The GDT, the TSS and the Multiboot header are constant tables. VGA graphics is
not called at this commit and stores registers and pixels. `memset`, `memcpy`,
`memcmp` and `strcmp` are loops over bytes, whose meaning the models of their users
state. The build and run scripts have no state. Of modelled parts: colours, the
wording of messages, page attributes, the contents of sectors and of base
addresses, `disable_RTC`, `rest`, `PCI_write`, `AddDriver`, `i8259_Mask`, `get_pte`,
`get_pde`, `parse_multiboot_memmap` and other functions that nothing calls.
Saved registers, stacks and page-directory switches of `switch_to_task` are
abstracted: all tasks share one address space. `SMP` is not defined, and its
branches are empty.

Tasks, paging and the hardware are not put into one model: they meet in the
interrupt flag (`Scheduler` has it for tasks, `Hal` for handlers), in `sleep` (both) and
in the allocator (`Paging` runs it), and each of these is where two modules say the
same.
