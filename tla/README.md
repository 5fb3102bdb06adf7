# A verification of DedOS in TLA+

DedOS is a small x86-64 kernel in C: it boots from Limine, sets up memory,
interrupts and a RAM file system, and then runs kernel threads preemptively on
one CPU. This directory holds TLA+ models of its core, TLC configurations that
check them on small instances, and TLAPS proofs for every instance. Paths below
are relative to `src/kernel/src`.

## 1. The system

| Component | State | Operations |
|---|---|---|
| Scheduler, `scheduler/scheduler.c` | `run_queue`, `current`, `locked`, `idle_thread` | `scheduler_init`, `_lock`, `_unlock`, `_add_thread`, `_yield`, `_tick_irq` |
| Threads, `scheduler/thread.c` | `thread_t`: state, quantum, `wake_tick`, saved registers, stack | `thread_create`, `_destroy`, `_exit`, `_sleep` |
| Processes, `scheduler/process.c` | a name and a number nobody reads | `process_create`, `process_destroy` (uncalled) |
| Physical memory, `mm/pmm.c` | bitmap, `total_pages`, `free_pages` | `pmm_init`, `pmm_alloc`, `pmm_free` |
| Virtual memory, `mm/vmm.c` | page tables, cr3 | `vmm_map`, `_unmap`, `_new_pagemap`, `_switch`, `_get_phys` |
| Heap, `mm/heap.c` | six slab caches, `kernel_heap_vaddr` | `heap_init`, `kmalloc`, `kfree`, `kcalloc` (uncalled) |
| VFS and tmpfs, `fs/vfs.c`, `fs/tmpfs.c` | tree of `tmpfs_node`, `vfs_root`, vnodes | `vfs_find_path`, `_read`, `_close`, `tmpfs_init`, `tmpfs_add_entry` |
| initrd, `fs/initrd.c` | offset in the archive | `initrd_init` |
| Keyboard, `drivers/keyboard.c` | ring buffer, shift and caps flags | `keyboard_handler`, `keyboard_getchar` |
| Interrupts, `arch/x86_64/isr.c`, `isr.asm` | `timer_ticks`, the saved frame | stubs, `isr_common`, `isr_handler` |
| Controllers, `arch/x86_64/apic/`, `pic.c` | redirection table, IRR, ISR, LVT, masks, PIT counter | `lapic_init`, `_eoi`, `lapic_timer_init`, `ioapic_init`, `_redirect`, `_unmask`, `pic_init`, `_disable` |
| Descriptors, `arch/x86_64/gdt.c`, `idt.c` | GDT, TSS, IDT | `gdt_init`, `idt_init` |
| ACPI, `acpi/acpi.c`, `madt.c` | list of tables, processors, I/O APIC, overrides | `acpi_init`, `acpi_find_table`, `madt_init` |
| Strings, `lib/string.c` | none | the eight functions |
| Console, `utils/log.c`, `kprintf.c` | none of its own, reads `timer_ticks` | `log_msg`, `kvprintf` |

**How they interact.** `kmain` (`main.c`) calls the initialisers in order, turns
interrupts on at line 164, tries heap and file system, creates two threads under
`scheduler_lock` and halts. From line 164 on the LAPIC timer enters
`isr_handler` with vector 32, which counts `timer_ticks` and calls
`scheduler_tick_irq`; the keyboard enters with vector 33. `scheduler_yield`
enters vector 32 by `int $0x20`. A context switch is the exchange of the frame
that `isr_common` pops on return. The heap takes pages from `pmm.c` and maps
them through `vmm.c`, which takes frames for tables from `pmm.c`; threads,
vnodes and tree nodes come from the heap.

**What is hard.** There is one CPU, and handlers run with interrupts off, so
concurrency means: an interrupt between any two instructions of `kmain` or a
thread. Sleeping and exiting set a state and *then* give up the CPU; inserting a
thread takes two stores; the reader of the keyboard tests and *then* halts.
Memory can run out at any step of an operation of several steps, and most callers
do not look. Structures are kept twice (a bitmap and a counter; a list and a
`current` outside it; objects linked through their own header). At boot the devices
run already: they raise lines while entries are written in halves, and a counter
goes on while it is read byte by byte. `PROJECT.json`
lists each of these as a hazard with its line and the properties aimed at it.

**What makes it correct.** No live thread is lost or linked twice, a call that
blocks blocks, a switch loads the registers of the thread it makes current, and
no freed thread is touched; ready threads run and sleepers wake. No page and no
object has two owners, counts are exact, a mapping changes one page and the CPU
never uses an old one. The tree is the one the archive describes and stays a
tree. Characters come out in order, and a waiting reader wakes. Interrupts come on
when everything that can interrupt has a gate and an owner; each is acknowledged
once; what `isr_handler` reads in the frame is what the processor saved.

## 2. The modules

| Module | Models | Abstract specification | Proofs |
|---|---|---|---|
| `Scheduler` | `scheduler.c`, `thread.c`, vector 32 of `isr.c`, the tail of `kmain` | – | `SchedulerProofs`, `Lemmas` |
| `SleepTime` | `Scheduler` with the time of the LAPIC timer beside it | – | – |
| `Pmm` | `pmm.c` | `PageAllocator` | `PmmProofs`, `Lemmas` |
| `Heap` | `heap.c` over the set of free pages and the last two levels of tables | – | `HeapProofs`, `Lemmas` |
| `Vmm` | `vmm.c` and the TLB | `AddressSpaces` | `VmmProofs`, `Lemmas` |
| `FileSystem` | `vfs.c`, `tmpfs.c`, `initrd.c` | `PathMap` | `FileSystemProofs`, `Lemmas` |
| `Keyboard` | `keyboard.c` | `CharQueue` | `KeyboardProofs` |
| `RunQueue` | the loops of `scheduler_tick_irq` on `run_queue` and `next` | `ReadyQueue` | `SchedulerProofs`, `Lemmas` |
| `Boot` | `kmain` from `idt_init` to `sti` and the interrupts after it: composes `Interrupts`, `Madt` and `LapicTimer` | – | `BootProofs` |
| `Interrupts` | `ioapic.c`, `lapic.c`, `pic.c`, the devices, `isr_handler` with its EOI | – | `BootProofs` |
| `Traps` | `gdt.c`, `idt.c`, `isr.asm`: descriptors, stubs, the frame | – | `BootProofs` |
| `Madt` | `acpi.c`, `madt.c` | – | `BootProofs`, `Lemmas` |
| `LapicTimer` | `lapic_timer.c` | – | `BootProofs` |
| `KString` | `string.c` | the C standard, as definitions | `FileSystemProofs` |

`MCPmm`, `MCHeap`, `MCVmm`, `MCFileSystem`, `MCBoot`, `MCTraps` and `MCKString` give
constants their values for TLC. `PROJECT.json` maps each definition to its source lines.
Definitions whose comment begins with "Mutant of" are plausible bugs; they are used in no
specification, and serve to show that each property can fail.

**Scheduler.** One action per step that an interrupt cannot split:
`TimerInterrupt` is the whole path from `isr_common` through `isr_handler` to the
end of `scheduler_tick_irq` (wake, reap, count down, pick, requeue, save, load);
`ThreadSleep` and `ThreadExit` are their `cli ... sti` sections, after which the
thread is in `scheduler_yield` with two more steps (`YieldClearsQuantum`,
`YieldInterrupt`); `scheduler_add_thread` is `AddThreadLinks`, then
`AddThreadPublishes`. The list is a sequence. `timer_ticks` and `wake_tick` only
meet in one comparison, so `wake_in` holds their difference. The registers are
the program point and the owner of the stack. A thread's own code is one point,
from which it may sleep, yield, exit, or compute for ever.

**Pmm.** The bitmap is the set of its set bits. `pmm_init` is one action (it runs
before interrupts are on) for any memory map; the loops that count pages are
counted as pairs of entry and page, so that overlapping entries would be counted
twice as the code does. `held` is history: what callers hold.

**Heap.** Sizes in bytes, with page, headers and caches as constants. A slab is
its free list; a large block maps page after page, each of which may need a page
table first. Callers free what they hold, and sometimes twice.

**Vmm.** Four levels of tables in frames, built by the three calls of
`get_or_create` with the frames that are left. `vmm_map` itself has no test;
`CallerMaps` says what its callers pass. The CPU caches translations
(`CpuAccess`) and drops them on `invlpg` and on a load of cr3.

**FileSystem.** A path is the sequence of the strings between its slashes, the
archive a sequence of 512-byte blocks. One action per iteration of the loop of
`initrd_init`, per lookup, per read and per close. Every `kmalloc` may fail; the
code then writes through NULL and the CPU stops. A header has the fields `name` and
`prefix` of `struct tar_header`; `HeaderName` is the string the code takes from them:
never the prefix, and, when the path fills all 100 bytes of `name` and leaves no NUL
(`full`), its end with the characters of `mode` behind it (`tail`). `ArchivesAssumption` is the layout of
a tar file, block by block: a header with as many blocks of data after it as its size
needs, data that belong to an earlier header, or zeros to the end. What should be in
the tree (`Members`, `MemberPath`, `Orderly`) is read off those blocks by place,
without following the loop. The mapping to `PathMap` takes a path for its components
without the empty ones: slashes too many make no difference to the walk, and a
leading or trailing one none to `tmpfs_add_entry`. A member called "/", or whose name
ends in two slashes, gets a node with an empty name; no lookup finds it (`AddUnnamed`).

**Keyboard.** The handler is one action, the reader four. Beside the driver's flags
stand the keys (external): `keys_down` are the shift keys the user holds; behind 0xE0
(`prefixed`) the code of a shift is one the keyboard makes up, for Print Screen and
the grey keys, and `faked` says that one is out. The handler does not look at 0xE0. The indices are not
`volatile`, so that a build may keep them in registers in the loop: `hoisted`
chooses.

**RunQueue.** `Scheduler` takes the queue for a sequence and the tick for one
action. `RunQueue` is the tick below that: three `while` loops with `t`, `prev` and
`candidate`, one action per turn, on `run_queue` and the `next` pointers. Its
refinement mapping shows the list as a sequence between ticks, and that of the last
moment outside a tick during one; `ReadyQueue!Tick` is the step `Scheduler` takes.

**Interrupts.** `step` runs through the calls of `kmain` in the order of
`main.c:137-164`; each write of half a redirection entry is an action. Beside it run
the devices (external): the keyboard controller, which holds one byte and gives one
edge per byte; the PIT, periodic as the firmware left it and one-shot once the
calibration has programmed it; the APIC timer. An edge on a masked input is lost,
as the I/O APIC is specified; the machine has its PIT on input 0 or 2 and its boot
processor has APIC id 0 or 1. After `sti` the
processor accepts what is deliverable, runs the body of `isr_handler`, then the EOI
and `iretq`, between which devices go on; `int $0x20` takes the same way with
nothing in service.

**Boot.** The composition: `Madt` and `LapicTimer` are instances in the places of
their calls, and everything interleaves with the devices. They meet twice. What
`madt_init` leaves in `ioapic_addr` decides what `ioapic_init` programs: the I/O APIC
of the ISA lines, another one (the last of the table wins), or, when the table names
none, the start of memory, whose bytes are any version register. And the one-shot
count that the calibration leaves in the PIT raises the line of input 0, or 2, which
`kmain` opens later on the timer's vector.

**Traps.** A descriptor is a record of the fields the code fills, by division and
remainder with a byte as base (`Field`, and `U16` to `U64` for its powers); the
processor's reading (external) multiplies them together again. The stack holds, at each place, the name of what was pushed: by the
processor, the stub the gate leads to, and `isr_common`. `PushOrder` and
`PopOrder` are the two lists of `isr_common`, `registers_t` a third, the fields of the
structure, and `frame->field` a place counted from the top: that the three agree is
what the property says. `ltr` marks the descriptor of the TSS busy in the table
(`Ltr`); a gate has its stack number and attributes, which must be those of an
interrupt gate.

**Madt.** The firmware's tables are a constant set. `acpi_find_table` is one action
per table it looks at, for its two callers; `madt_init` one per entry. `TakenBefore`
says place by place what the entries up to one amount to.

**LapicTimer.** Time is the clock of the PIT, which may tick between any two
accesses of the code, at most `MaxGap` times from one poll to the next. The count is
loaded by the clock after its second byte, as the PIT does.

**KString.** A memory of a few bytes and one call that C allows, chosen at the
start; one action per turn of a loop. The `int` that `memset` and `strrchr` are given
is any of `Ints`, negative ones and ones above 255 too, and is cut to a byte (`Byte`).

## 3. The runs

| Run | Shows | Instance | States |
|---|---|---|---|
| `scheduler` | the inductive invariant, no thread lost, own stacks, calls that block, `ExitIsFinal`; `ReadyRuns`, `SleepReturns`, `ExitLeavesCpu` | 3 threads, quantum 3, sleeps up to 3 | 38 533 |
| `kmain` | **violation**: `kmain` can be lost before it makes a thread | 2 threads | until found |
| `sleep_time` | **violation**: a sleep can end before its time | 2 threads | until found |
| `pmm` | exact counting, one owner per page, the bitmap's pages, refinement | 6 memory maps, pages of 2 bytes | 665 |
| `heap` | one use per page, one holder per object, usable blocks, NULL | 0 to 5 pages, 2 caches, 5 sizes | 289 807 |
| `vmm` | distinct tables, shared kernel half, TLB, refinement | 0 to 6 frames, 2 pagemaps, 4 pages | 19 593 |
| `file_system` | loading, tree, handles, reads, refinement, balance of lookups | 9 archives, 8 paths, 4 vnodes | 16 362 |
| `keyboard` | queue refinement, shift, `GetcharReturns` | buffer of 4, 10 scan codes | 208 560 |
| `run_queue` | `ListIsSound` at every turn, refinement of `ReadyQueue` | 3 threads | 30 809 |
| `boot` | the MADT is taken over, the calibration is right, EOIs match, nothing unowned comes in, no tick is counted that is none, the boot ends, keys are read | 1 380 machines, 8 of them past `madt_init`; up to 5 inputs, 2 keys, 2 periods, a yield, a `cli` section; 6 clocks for 10 ms | 343 912 |
| `string` | results, memory and accesses of all eight functions | 5 bytes of 3 values, 5 ints, every allowed call | 256 026 |
| `traps` | descriptors decode, the frame is right, the return is exact | a byte of 1 bit, 256 addresses, 46 traps | 51 968 |

A module's type invariant is a conjunct of one of the properties of its run.

**Bounds.** *Scheduler*: the tick treats the head, the middle and the end of the
list differently; three threads give a list of two beside a running one, and one of
three beside the idle thread. Quantum 3 gives a tick that does not switch, one
that does and one after a yield; sleeps of 0 to 3 ticks are shorter than, equal
to and longer than what is left of it. The proofs remove these bounds. *Pmm*:
a page of two bytes makes the bitmap take one page and two; the maps put it in
the first and in a later entry, below page 0, and nowhere. *Heap*: two caches and
sizes on both sides of each limit, among them the gap between the last object
less its header and the first large block; page tables span two pages, so that a
block crosses into a table for which there is no memory. *Vmm*: one page in the
user half, two that share a page table, one under an upper entry that is made
late. *FileSystem*: archives as tar writes them in two ways, without its final
zeros, with repeated members, with files for directories, with missing directories, with a
member without a name, in another format, and with paths of 100 characters and more; 512 is scaled to 2 so that sizes 0 to 3 cover empty, exact and
partial blocks, and 2^64 to 8 so that `offset + size` wraps. *Keyboard*: four
slots wrap and fill; the scan codes have one printable key, both shifts, caps lock,
a control key, a key beyond the table, releases, and the E0 prefix, before any of them.

*RunQueue*: three threads unlink at the head, in the middle and at the end.
*Boot*: a `uint8_t` has five values, 0 to 4. An I/O APIC has 3 or 4 inputs, the
keyboard's, both of the PIT and perhaps one more, and what is read where there is none
may be 4, with which the index of `ioapic_init` wraps; a second key can
come while the first is pending and while it is handled. The machines vary what the
firmware left, the APIC id of the boot processor and the wiring of the PIT, one by one
and together. The tables have up to three entries, which exceed both limits: types
known, unknown, disabled and of length 0, tables cut short; all are read, three kinds
are followed to the end (`booted`), as they are all that `ioapic_init` can tell
apart. The counter of the PIT starts anywhere; a byte has four values, so that
the polls of one clock and of two fall on each place of the wrap, also inside a carry
between the two bytes. *KString*: five bytes allow every kind of overlap and two strings at once; 200 is
negative as a signed char, and 456 and -56 are the same byte.
*Traps*: eight bytes of one bit keep every field apart; every vector that the
processor can raise.

`CHECK_DEADLOCK FALSE` is set where the modelled CPU may stop for good: after an
exception, in `idle_fn` without threads, with memory exhausted.

**Fairness.** In `scheduler`: the timer is periodic, so weak fairness of the
tick; the CPU executes instructions between ticks, so weak fairness of `kmain`;
and strong fairness of each thread's steps *inside* `scheduler_yield`, since a
thread that gets the CPU again and again for a quantum of milliseconds executes
two instructions. Nothing is assumed of a thread's own code. In `keyboard`: weak
fairness of the reader, once called, and of other interrupts (the timer's), which
is exactly what rescues a reader whose key came between test and `hlt`. Nobody
has to press a key. In `boot`: weak fairness of `kmain` with everything it calls, which nothing
preempts before `sti`, of the processor's acceptance and handling, and of the clock of
the PIT, which is a crystal; no key, no period and no yield has to come.

**The two violations.** (1) `scheduler_init` makes the idle thread current while
`kmain` runs, and the idle thread's registers are never saved. If its quantum
ends before `scheduler_lock`, `kmain` is replaced by `idle_fn` and no thread is
created. The window is one call of `log_info` long. (2) `scheduler_yield` uses the timer's
vector, and `isr_handler` counts it as a tick; each yield, also that of
`thread_sleep` itself, shortens every sleep by a millisecond.

**Known weaknesses the properties are worded around.** Exited threads are never
freed (`ExitedThreadsLeak` says so as an invariant); a lookup through a file
leaks a vnode (`LookupsBalance` excepts it); a large block may miss its last page
(`BlocksUsable`); `initrd.c` reads the field `name` only, as
a C string, although `tar --format=ustar` (`GNUmakefile:88`) puts the beginning of a path of
more than 100 characters into `prefix` and leaves no NUL behind one of exactly 100: such a
member is put at another path, or gets the characters of `mode` at the end of its name
(`ArchiveIsLoaded` is about the others, `NamesFit`; the paths of the repository's initrd
are short); a shift the keyboard makes up counts as a shift key
(`ShiftOnlyWhileHeld` allows it, until it is taken back); a size between 1001 and
1024 is refused (`NullMeansExhausted`);
frame 0 becomes a pagemap when memory is out (`TlbCoherent`,
`AddressSpaces!Fallback`); a read whose `offset + size` wraps is not cut
(`ReadIsExact`); an upper PML4 entry made late is not shared
(`KernelHalfShared`); a build that hoists the indices never leaves
`keyboard_getchar` (`GetcharReturns`); `ioapic_init` does not end when the version
register reads as 255, nor `madt_init` at an entry of length 0 (`BootEnds`); a key
pressed before input 1 is open is never read and keeps later ones away, since its edge
is lost and `keyboard_init` does not empty the controller (`KeyIsRead`); of three
threads two may take turns before the third (`ReadyRuns`, `SleepReturns`); a processor
whose APIC id is not 0 gets no key (`KeyIsRead`); a table cut short is read beyond its
end (`ReadsStayInside`); a poll that comes before the PIT has loaded its count may
end the calibration early (`LoopEndsAtWrap`); an XSDT faults without an identity map
(`FaultsOnXsdtOnly`).

## 4. The proofs

`SchedulerProofs` proves, for every set of threads, every quantum in 1..255 and
every bound on sleeps, `Spec => []Inv` and from it types, `NoThreadLost`,
`QueueIsSound`, `RunsOnOwnStack`, `LockHeldByKmain`, `SleepAndExitHold`,
`NoUseAfterFree`, `ExitedThreadsLeak` and the action property `ExitIsFinal`. The
properties are not inductive by themselves: that the CPU runs on the right stack
after a switch needs what was saved before it (`SavedContexts`); that a sleeper
resumes with no tick missing needs that every thread that is not blocked has none
(`AwakeHasNoTicks`); that a thread is not in its own code while blocked or dead
needs the relation of its program point, state and quantum (`CurrentPoint`: a
thread that is dead at `exit_int` or blocked at `int` has quantum 0, so that the
interrupt must switch); and
that `kmain`'s two stores do not lose a thread needs its points to imply the lock
(`KmainPoint`). The proof has one lemma per action; those on the tick rest on
`Lemmas`: what filtering, removing and prepending do to the elements of a
sequence and to its being free of repetitions.

`PmmProofs` proves, for every memory map that satisfies `MemMapAssumption`, that
`free_pages` is the number of clear bits, that every usable page is free, held
or the bitmap's, that the bitmap's pages are never given away, and that `Pmm`
implements `PageAllocator` (initial states and steps). The strengthening,
`Initialised`, says what `pmm_init` has left behind. The counting rests on the
disjointness of usable entries, which makes pairs of entry and page as many as
pages.

`HeapProofs` proves, for every number of pages, list of slab sizes and set of
requests, `OnePageOneUse`, `ObjectsAccounted`, `BlocksUsable` and
`NullMeansExhausted`. The invariant counts uses place by place: a slab is in one
cache, once, and its page is neither free nor mapped (`SlabsApart`, `SlabsTaken`);
no two virtual pages have one frame, and no frame is free (`FramesTaken`); a free
list has no repetitions and nothing that is held (`FreeLists`, `HeldObjects`);
blocks lie below `kernel_heap_vaddr`, apart from each other, and are mapped
(`BelowTop`, `BlocksApart`, `BlocksMapped`). The loop that maps a large block is a
recursive function in the model; `LoopDone` proves what holds after each of its
turns (`AfterTurns`), among it that a page is left out only when none is free.

`VmmProofs` proves, for tables of any size, `TablesDistinct`, `KernelHalfShared`,
`TlbCoherent` and that `Vmm` implements `AddressSpaces`. The strengthening says that
a level can be given to every frame such that an entry leads one level down, and
that a table has one parent entry, or the same entry of the kernel's half in several
PML4s (`Tree`). Without levels a page table might be its own PDPT and the three
calls of `get_or_create` could overwrite what they have just read. The lemmas are
about contents of tables as values, so that they apply between those calls, where
memory may run out.

`KeyboardProofs` proves, for every size of the buffer that its `uint8_t` indices
allow, every set of scan codes, with shifts made up by the keyboard anywhere among
them, and both builds, `ShiftOnlyWhileHeld` and that the driver implements
`CharQueue`. The refinement needs that a reader past its test has a character to
take (`ReaderIsSafe`): the handler adds only, so that the buffer which was not
empty at the test is not empty when it is read.

`BootProofs` proves, for every machine, every rate of the timer and every gap
between polls, `EoiMatches`, `OnlyOursComeIn`, `CalibrationIsRight` and
`TicksAreCounted`. The invariant ties the state of the controllers to the position
of `kmain` (`SetUp`, `Index`, `Inputs`: what an entry of the redirection table holds
before, between and after its two writes); for the calibration it gives the counter
and the latched value by the clocks since the count was loaded, and the place of the
last poll before or after the wrap (`InLoop`); and it counts the ticks on their way,
a request and a handler that has not counted yet (`Ticks`). The attempt showed an
assumption the instance of the run satisfies without saying so: if polls are further
apart than the whole count of the PIT, the first may come after the wrap, and the
loop then waits for another. `MaxGap <= PIT_TICKS` says that a poll takes less than 10 ms.

`FileSystemProofs` proves, for every set of archives that tar can have made, every
set of paths and any number of vnodes, `TreeIsSound`, `HandlesStayValid`,
`ReadIsExact`, `LookupsBalance`, `ArchiveIsLoaded` (for paths of less than 100
characters, at any depth) and that the file system implements `PathMap` (with the paths
that `HeaderName` gives, whatever they are). The invariant adds that the
root is there, and a directory, from `tmpfs_init` on (`Rooted`). What the walk returns
is proved along its components (`OnTheWay`): it is still at the root, has returned
NULL, or has needed a vnode, so that the guard of the action provides one that is
free. A new node is linked into a directory older than itself, which is why no list
can come back to where it began. For `LookupsBalance` the first component after which
a vnode is lost is taken, and the walk of the path up to there shown to end at a file
(`LostAtFile`). `ArchiveIsLoaded` needs two things of every turn of `initrd_init`
(`LoadInv`): the offset is behind the data of all headers before it (`AtBoundary`), so
that no block of data is ever taken for a header and none is passed over; and there is
an assignment of paths to nodes, one to one, in which a node is named by the end of its
path, is a child of exactly the node at the path before it, and has kind and bytes of a
member with that path, as every member so far has a node (`Placed`). From it,
`WalkPlaced` shows by the age of nodes that `vfs_find_path` finds each node at its path.

The refinement of `PathMap` holds for every tree, also where directories are missing
or shadowed. A path without empty components leads to a node exactly when the path
before its last component leads to a directory in which that node is the first of its
name (`Leads`); with it, everything about walks is shown by the length of the path
(`CleanInduction`). Two paths never lead to one node, as a node has one parent
(`PathsUnique`). So a new node at the front of a list changes what is at its own path
and, if it shadows another, takes away what was below that; all other walks stay as
they were (`WalksChange`, `MapChanges`). A lookup answers what the map has because the
walk along any path is where the walk along its components is (`WalkAlong`). The
invariant needed beside `TreeIsSound` is `Plain`: the root is as `tmpfs_init` made it
and directories have no data.

**Modules proved with others.** Three small modules have their proofs in the proof
module of the component that uses them, through an instance: `RunQueue` in
`SchedulerProofs`, `Traps` in `BootProofs`, `KString` in `FileSystemProofs`. The
`ASSUME`s of an instantiated module are there hypotheses of the theorems (`Pointers`,
`Descriptors`, `StringParams`, with the same words).

- `RunQueue`: `ListIsSound` and the refinement of `ReadyQueue`, for any number of
  threads. `ListInv` gives a sequence without repetition that the pointers link from
  `run_queue` on, and during a tick the sequence and states it began with: of those,
  each loop has dealt with the part before its pointer and not with the rest, `prev`
  and `candidate` being places in it. So a run of turns is a stutter but for the last,
  which is the tick of `Scheduler`.
- `Traps`: `TrapsAreTransparent`, for every base of the bytes, size of the TSS and
  place of the stubs. `TrapInv` gives the stack at each point of the way in and out;
  that the fields give the address back is arithmetic on division and remainder. The
  pushes fill each field of `registers_t` from its own register, and the pops are shown
  to take the same places back, list against list.
- `Madt` (an instance in `Boot`): `MadtIsRead`, for tables of any length and any limits
  of the arrays. `MadtInv` says that `ptr` is at the end of the entry before (`EndOf`)
  and that what has been taken is what the entries before it amount to.
- `KString`: `AsTheStandardMandates`, for every size of the memory and every call that
  C allows. `StringInv` has for each loop what is done and what is still as it was at
  the call: for `memmove`, below the index the copy, or above it when it goes down, so
  that no byte is read after it has been overwritten.

**Assumptions** are named in the modules that declare the constants and evaluated by
TLC on every run: `ThreadsAssumption`, `QuantumAssumption` (a `uint8_t`),
`SleepAssumption`; `PageSizeAssumption` and `MemMapAssumption`, which is what the
Limine protocol promises: usable entries do not overlap, and page 0 is not offered,
or lies below the bitmap; `SlabsAssumption` (the sizes of `heap.c` grow, and an object fits
into a page) and `HeapSizesAssumption`; `VmmAssumption` (the bootloader has mapped
the kernel, and nobody maps a frame that is a table); `BufSizeAssumption` and
`ScanCodesAssumption` (bytes); `CountAssumption`, `FirmwaresAssumption`,
`MachinesAssumption`; `PathsAssumption`, `BytesAssumption` (lengths and offsets are
`uint64_t`), `ArchivesAssumption` (the layout of a tar file); `PointersAssumption`
(finitely many threads, NULL none of them); `AddressAssumption` (stubs have different
addresses); `SizeAssumption`, `BytesAssumption` and
`IntsAssumption` of `KString`. `MachinesAssumption` says among others that a machine
that is followed beyond `madt_init` has a MADT. Of a table,
`FirmwaresAssumption` only says that its entries are records of bytes; that it is well
formed is a premise of `MadtIsRead`, where it is needed.

**Loops.** The library's induction theorems cannot be used with the installed provers. Where a
loop of the code is one action, the model has a recursive function for it, and the
proof takes the least turn at which the loop invariant fails (`MinIsMember` in
`Lemmas`) and shows that it is neither the first nor a later one: `LoopDone` in
`HeapProofs`, `WalkFacts`, `WalkPlaced` and `CleanInduction` in `FileSystemProofs`,
`EndsGrow` in `BootProofs`.

**Model-checked only.** Liveness, which needs fairness and ENABLED: `ReadyRuns`,
`SleepReturns`, `ExitLeavesCpu`, `GetcharReturns`, `BootEnds`, `KeyIsRead`.
All other properties of the passing runs, the refinements among them, are theorems.

## 5. Not modelled

The console and the log (`utils/`): they format and print, and no state of the
kernel depends on them. User mode (no thread uses it, so that `gdt_update_tss_rsp` is not called); the
text of reports, among it the name of an exception, which `isr.c:32` reads behind
its table for vectors above 14; the test picture and the halts of `kmain` when the
bootloader gives no framebuffer or RSDP; functions without callers: `kcalloc`,
`process_destroy`, `acpi_checksum`, `ioapic_mask`, `pic_sendEOI`, `pic_mask`,
`pic_unmask`, `pit_sleep_ms`, `pit_read`, `lapic_timer_start`, `lapic_timer_stop`.
Limine, Flanterm, the firmware and the devices are external: only what the code
sees of them is modelled. Large pages in the bootloader's tables (`vmm.c:18`) are
not visible in the repository. Lookups are shorter than 256 characters: `cursor` in
`vfs_find_path` is a `uint8_t` (`vfs.c:18`) and would start again at a longer one, and
a component is cut at 127 (`vfs.c:28`); the paths `kmain` passes have a few, those of
a header at most 107. A machine without a MADT is followed up to the end of
`madt_init`; `lapic_addr` is then 0 and `lapic_init` writes to the start of memory
(`lapic.c:22`). The spurious vector 0xFF (`lapic.c:27`) has no gate in `idt.c`; it
would be delivered if a request were withdrawn or masked in the local APIC while the
processor accepts it, which edge-triggered inputs and a task priority that is never
changed do not do. The heap is not interleaved with itself: the threads
of `kmain` do not allocate, and the tick frees only what is dead in the queue,
which nothing ever is.

## 6. What could follow

A composition of `Heap` with `Pmm` and `Vmm` in the place of its own sets of pages and
tables; the console, if something comes to depend on it.
