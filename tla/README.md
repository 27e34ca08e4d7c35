# Icarus: a TLA+ verification project

Icarus is a small x86-64 kernel: it boots from multiboot2, manages physical
frames, page tables and a heap, reads the ACPI tables, programs the APIC,
initialises the PS/2 controller, creates three processes and from then on
switches between them on every tick of the local APIC timer, while a PS/2
keyboard interrupt echoes characters. There is one processor. Handlers run with
interrupts masked.

All paths below are relative to the repository root; `kernel/` stands for
`src/kernel/`.

## 1. Inventory

| component | state | operations | interacts with |
|---|---|---|---|
| scheduler (`kernel/Processes/Scheduling/scheduler.c`) | `top_tcb`, `last_tcb`, `running_tcb`, the doubly linked list of tcbs, per-tcb state and priorities | `scheduler_init`, `scheduler_add_thread`, `scheduler_pick_next_thread`, `context_switch` | called by the timer vector and by process creation; writes CR3 and the APIC's EOI register |
| context save/restore (`kernel/interrupts/isr.asm`, `set_context.asm`) | the block of registers on the interrupt stack and in the tcb | `common_isr`, `_switch_threads` | scheduler |
| interrupts (`IDT.c`, `ISR_handlers.c`) | IDT, interrupt flag | `c_isr` and the handlers; exceptions print and halt | everything |
| APIC (`APIC.c`) | timer count, IRR/ISR, redirection entries, `ioapic_infos` | `enable_apic`, calibration, `enable_io_apics`, `ioapic_route` | scheduler, keyboard, ACPI |
| processes and threads (`Process.c`, `thread.c`) | pcbs, tcbs, frames and mappings of a thread | `create_initial_process`, `create_process`, `create_thread`, `thread_supply_*` | scheduler, frames, page tables, heap |
| physical memory (`mem_map.c`, `BitMap.c`, `memory_mapping.c`) | regions with counters, one bitmap | `handle_mb2_mmap`, `ialloc_frames`, `ialloc_kframe`, `idealloc_frames` | every allocator |
| page tables (`paging.c`, `memory_mapping.c`, `MMIO.c`) | four-level tables | `page_in`, `page_in_regions`, `map_mmio` | frames, heap, devices, threads |
| heap (`alloc.c`) | list of blocks | `alloc_init`, `Imalloc`, `free` | frames, page tables; used by MADT, APIC, processes |
| keyboard decoder (`PS2_Keyboard.c`) | `ps2_state` | `kbd_translate` | keyboard vector, console |
| PS/2 controller (`PS2_Controller.c`) | configuration byte, `ps2_info` | `ps2_controller_init`, reads and writes with timeouts | controller, devices |
| boot data (`multiboot2.c`, `tar_parse.c`, `ACPI.c`, `MADT.c`) | `rsdp`, `FADT`, `MCFG`, `APIC_INFO` | `handle_multiboot2`, `handle_ACPI`, `handle_table`, `handle_MADT` | memory, heap, APIC |
| PCIe, GDT, TSS, system calls, boot code, console | set up once | straight-line code | - |

What is hard here. **Scheduler:** a tick may come between any two instructions
of a thread; the pick loop ages and compares in one pass; four pointers and two
globals are relinked in three cases; `UINT16_MAX` is a sentinel and a legal
value; the save and the load of a context are written in two files. **Physical
memory:** runs that cross words, counters and bitmap updated separately, units
(bits, bytes, frames) mixed, failure of the first or of a later frame. **Page
tables:** they are edited through a window that they themselves map, large and
small pages share the upper levels, upper entries only gain rights, and a
thread's root is a copy made at one moment. **Heap and processes:** splits and
merges, clean-up after a partial failure. **PS/2:** answers without a sender,
timeouts that are not looked at; codes of up to three bytes, one per interrupt,
with flags that outlive them. **Boot:** two passes that must agree, checksums
over the wrong structure, a timer that wraps while it is measured with, a
redirection entry written in two halves.

`PROJECT.json` lists each of these as a hazard at its line.

## 2. Modules

| module | models | notes |
|---|---|---|
| `InterruptFrame` | the register block: what `common_isr` puts in each slot, what `_switch_threads` loads from it | r8-r15 are one register, because both sides agree on them |
| `Scheduler` | `scheduler.c`, the parts of process creation and `kmain` that reach it, the timer, the switch | one step per list element of the pick loop |
| `SchedulerQueue` | the rule of `scheduler.c` as an ageing queue with one atomic step per tick | no lists, no interrupts; not the rule of `Design.md` (section 4) |
| `SchedulerInv` | the scheduler's inductive invariant, as state predicates | |
| `MemMap` | frame allocator, from the multiboot memory map on | one step per word scanned |
| `Heap` | `alloc.c`: blocks and headers | one step per header of the walk |
| `Process` | `init_process`, `create_thread`, `thread_supply_new_mem`; EXTENDS `Heap`, every `Imalloc` of a creation walks it | one step per allocation |
| `Paging` | `page_in`, `page_in_regions`, the switch of the tables, the heap's pages, `map_mmio`, a thread's tables | one step per level of `page_in` |
| `PS2Controller` | `ps2_controller_init` against a controller and devices with their own pace | one step per port access |
| `Keyboard` | decoder, plus the keyboard that sends scancode set 2 | |
| `Acpi` | multiboot tags, RSDP, tables, MADT | one step per tag, table and record |
| `Boot` | `kmain` around it: EXTENDS `Acpi` with the calibration, the I/O APICs, the routing of the keyboard and the timer | |
| `MC*` | constants for TLC | they also evaluate the hypotheses of theorems (`KeysAreOrdinary`, `TagsAreOrderly`, `MachinesAreUsual`) |
| `SchedulerProofs`, `ProcessProofs`, `MemMapProofs`, `PagingProofs`, `PS2ControllerProofs`, `KeyboardProofs`, `BootProofs` | theorems and proofs (section 5) | `OrderLemmas` has the facts on finite sets of numbers they share |

Some modules meet in the code and are kept apart where the interface is narrow:
`Process` and `Paging` take frames from a pool, lowest first, which is what
`MemMap`'s `FirstFit` shows of the scan; `Boot` takes from `Paging` that
`alloc_init` maps the heap.

### Scheduler

A tcb is a model value; the fields of `tcb_t` are functions on tcbs and `next`,
`prev` may be `NULL`. `mode` says where the kernel is: in `kmain`, in a thread
(`run`), in the loop (`pick`), in `context_switch` (`switch`), in
`_switch_threads` (`restore`), or halted after a null dereference (`fault`).
`kmain` creates `NumProcesses` processes, each of which may fail, as
`init_process` may (the failure is ignored by `kmain`, and it is in the model);
then it enables interrupts and the timer, whose count is 0 if the calibration
found no PM timer. The local APIC is `irr` (vector 32 requested), `isr` (in
service) and `timer_on`; a tick is accepted if `rflags_IF` is set and nothing is
in service. A ticking interrupt in any mode is possible as far as the model is
concerned: that none is accepted inside the handler is a consequence of the
interrupt gates, checked by `ResumesWhereInterrupted` (its mutant installs a
trap gate). A running thread may change its registers and position at will.

Four variables are history and not read by any action's guard: `behind` (the
order of the queue, which the pointers are compared with), `entry_priority`
(the active priorities when the loop began), `waited`, and `context` (what each
thread was last seen with).

Assumed: a thread raises no exception (any exception prints and halts the
machine) and no keyboard interrupt is nested, which the gates guarantee; the
keyboard handler touches nothing of the scheduler.

### MemMap

Addresses are frame numbers; the map's entries are bytes and are rounded as the
code rounds them. The bitmap is the set of its 1 bits, and `BitsOf` stands for
the loops of `bitmap_set_len` and `bitmap_clear_len`. `zero_mem_map`'s padding
call is translated with its unit confusion. The scan's locals are `uint32_t`, and
the place of the run it has found is multiplied by the page size in 32 bits
(`u32`, `page_offset`): in a region of more than 4 GiB the product wraps, and so
it does in the model. A client holds at most one
allocation, which is a run (`ialloc_kframe`) or a list (`ialloc_frames`). `lost`
collects the frames of a list that failed halfway: nobody can release them, and
the model says so instead of hiding it. Only pages of 4 KiB are allocated, as in
the kernel's calls.

### Heap and Process

`Heap` has the headers as a function from addresses to block size, allocated
bit and distance to the previous header, in units of 16 bytes. `Imalloc_alocator`
takes the first block that fits, splits it, or gives up at the first free block
that is too small; the growth always ends in a fault, because it asks
`ialloc_frames` for more than 510 frames and follows the failure value. `free`
merges as the code does, including the header it adds too much; under the
kernel's calls no two free blocks are ever neighbours, so that this never happens
outside a mutant. What a client gets it may overwrite, so headers left inside an
allocation disappear. `Imalloc` never returns a null pointer: it finds a block or
ends in the fault of the growth, so the checks of its callers are dead code and
are left out.

`Process` drives it with the allocations the kernel makes: the records of the
MADT and of the I/O APICs, then for each creation the supply block, the tcb, the
pcb and the descriptor, in the order of the code, with the one `free` of a
failed creation. Each step is one allocation that may be the one that fails. A
first frame that cannot be had faults, a later one makes the call fail with the
frames taken so far in `lost`; `page_in` needs three tables for the first page
of a subspace, because the three subspaces are in root entries of their own. The
permissions are the words the code passes, bit by bit.

The heap's properties are about these callers and their one order of releases.
For other orders they do not hold: with two free blocks the walk stops at the
first, and a merge spoils the headers (section 4).

### Paging

Addresses are page numbers, a table has `ENTRIES` entries instead of 512 and a
large page is `ENTRIES` pages, so that the address space, with its five windows
in five root entries and the wrap of `KERNEL_PHYS_TO_VIRT`, has the shape of the
real one. `mem` holds the frames as tables. A table is only reachable through the
window of the tables in force (`Reachable`): those of `boot.asm`, which cover
`BootFrames`, and after `write_cr3` those being built. `asked` is history: what
`page_in` answered 0 to, against which `MappedAsAsked` compares what a walk
finds now. `page_in` descends into any present entry, large or not, as the code
does, to the address that `page_ppn << 12` gives: the bit field is promoted to
`int`, so that it is negative from 2 GiB up (`as_int`), where nothing is mapped. A
list of frames (`TakesFrames`) ends as in `MemMap`: without a first frame in a
fault, without a later one in a failure that leaves the frames so far used.

### PS2Controller

The driver's steps are its port accesses. The controller (external) consumes the
input buffer and answers at its own pace or never; the devices answer their
reset with any of `DeviceReplies`; a key may be pressed while the clock of its
port is on. A poll takes the first byte there is, whoever sent it, or times out.
`mishaps` is history: a byte written over an unread one, a timeout of the
controller, an answer that was not the controller's. The properties on the
result hold without mishaps; `InitReturns` holds with all of them.

### Keyboard

A character is the entry of the table it is read from; `letters`, `unshifted`
and `symbols` are the entries of the two tables. The keyboard is external: any
key may be pressed, repeat or be released while earlier bytes are still unread.
Its meaning of a text (`meant`) counts caps lock at the release, as the
decoder does (`PS2_Keyboard.c:52`); the usage sketch at `PS2_Scancode.h:71` toggles
it at the make code, which differs for letters typed while the key is held. At
most one shift key is in the runs: the decoder has one flag for two. An interrupt
always finds its byte: a read that timed out would give 0xFF, which is beyond the
tables and prints nothing.

### Acpi and Boot

A machine is a record of what firmware and boot loader hand over, chosen in
`Init` from a set of 39: tags, RSDPs, tables with length, validity,
pages and the fields the kernel reads, the PM timer, the I/O APICs and the
wiring of the keyboard. A checksum is modelled by which structure it is taken
over (`calculate_checksum`): the code passes `&FADT` and `&MCFG`, not the table
at hand, so the sum is that of an earlier table, of zeroes or of bytes behind
the structure, and then it may be anything; the end of a longer table that an
earlier copy left behind is part of it (`overwritten`). A page that was not mapped
by `map_mmio` faults, and when frames run out any of its pages may be missing.

Two structures are read as the compiler lays them out, not as ACPI does (the
offsets were computed with gcc). `struct FADT_TABLE` is 288 bytes long, so that no
FADT of ACPI 6 or before is "full" and the timer is taken from `PMTimerBlock`; the fields
`is32` and `x` of a machine are what stands where the code reads them.
`struct XSDT` has its array at offset 40 instead of 36 (`entries_in_place`): on a
machine that boots with the ACPI 2 structure the first pointer is made of halves of
two and its access faults. What a copy of more than 16 MCFG entries overwrites
behind `MCFG` (`ACPI.c:58`) is left out; `Ordinary` excludes it.

`enable_io_apics` is two loops with a step per I/O APIC: the first adds up the
size of the block, the second lays the records one behind the other, each where
the one before says it ends. `redirection_count` is a `uint8_t`, so the 256
entries that the first loop counts for are 0 in the record.

`Boot` adds the PM timer, which advances on its own by at most `MaxGap` between
two steps of `kmain`, and the keyboard's line, which may rise at any time and
reaches the processor through the redirection entry as it is at that moment.

## 3. What the runs check

| run | configuration | shows |
|---|---|---|
| `scheduler` | 3 threads, priorities 0, 1, 3, `UINT16_MAX` = 4, 2 positions | type, list, no null dereference after `scheduler_init`, who runs and who is last, what is dispatched, where a thread resumes, bounded waiting, no two turns of a priority-0 thread; the scheduler implements `SchedulerQueue`; every queued thread keeps running |
| `registers` | 1 thread, 2 register values | counterexample to `set_context.asm:30` |
| `memmap` | 3 memory maps, words of 4 bits, 2 clients, runs of 1, 2, 3, 5 and lists of 0, 2, 3, 6 | no frame shared inside regions, kernel reserved, counters and bitmap agree, first fit |
| `memmap_large` | a region of 12 frames where 32 bits count the bytes of 8 | counterexample to `mem_map.c:226` |
| `process` | 3 creations, pools of 0 to 48 frames, 1 to 3 pages per subspace, heaps of 36, 60 and 130560 units | dispatched threads are complete and share no frame; every frame has one holder; heap objects are disjoint, headers tile the heap, `Imalloc` gives up only when full |
| `process_permissions` | 1 creation | counterexample to `thread.c:117` |
| `paging` | 50 memory maps, tables of 5 entries, 3 heap pages, up to 4 devices, 2 thread pages | mappings are as asked and stay so, tables own their frames, user code reaches only its pages, the kernel is in the thread's table, no fault on covered maps while a frame is free |
| `paging_high` | a map with memory at 2 GiB | counterexample to `paging.c:26` |
| `ps2` | 2 firmware configurations, 4 device replies, all working and broken ports, 1 key | a result of 0 means a working, configured controller if nothing was late; the initialisation returns |
| `keyboard` | 6 keys, 6 events, 5 bytes under way | prints what was typed; modifiers follow the keys |
| `keyboard_arrows` | a letter and an arrow key | counterexample to `PS2_Keyboard.c:36` |
| `boot` | 39 machines, PM timers that wrap at 8 and at 16, at every value | MADT read faithfully and found, calibration accurate across the wrap, records fit, routing never half done, the boot finishes, keys are served |

**Bounds.** Three threads plus `dummy_tcb` give a list in which the chosen one
can be first, in the middle and last, with an element on either side. With
`UINT16_MAX` = 4 the highest priority, 3, resets to the sentinel, so the
fallback is reached with ready threads; priority 3 also ages all the way down.
Nothing else bounds the scheduler: its state space is finite once `waited` is,
and `BoundedWaiting` is what makes it so. For frames, words of 4 bits with runs
of up to 5 make every branch of the scan happen: holes inside a word, runs over
two words, full free words, regions skipped on their counter. A `uint32_t` counts
`UINT32` = 128 bytes, 8 frames of 16: no region of the passing run is larger, the
one of `memmap_large` is. The requests together exceed the memory, so every failure
path is taken. The maps have
unaligned ends, an unavailable entry, an entry too small for a frame, regions
with and without padding and a larger region behind the kernel's. A creation
takes 13 to 16 frames, so the pools run out in the first, second or third
creation at every allocation there is; heaps of 36 and 60 units run out in the
first or second one, and 130560 units is the heap of 510 pages that `kmain`
asks for. Tables of 5 entries give each window a root entry of its own; the maps
start at, or away from, a large-page boundary, end inside a large page, leave
gaps, and are too small at every stage. Six key events are enough for shift, a
letter pressed and repeated, both releases and a caps-lock stroke in any order.
Two bytes kept by the PS/2 controller let an answer be overtaken by a key and by
a late answer. A PM timer that wraps at 8 does so inside the window of 3 ticks from most
of its values; the machines differ from an ordinary one in one thing each.

**Fairness.** Scheduler (`FairSpec`): weak fairness of `Kmain \/ Handler`, as
the processor executes the kernel's instructions, and while interrupts are
enabled it accepts a pending vector; weak fairness of `TimerExpires`, as the
timer is periodic. Nothing is assumed of the threads; they may compute forever or
not at all. `NoStarvation` is conditional on `timer_on`, because a calibration of
0 leaves the machine without ticks. PS/2: weak fairness of the driver only; the
controller may stop at any point. Boot: weak fairness of `Kmain`, of the PM
timer's ticks while it runs (a machine whose timer is stuck is in the run, and
is not `Bootable`), and of the delivery of an interrupt. The other modules state
safety only.

**Conditions in the properties.** `NoFrameSharedInRegions` and
`KernelNeverHandedOut` speak about allocations that lie inside a region, because
the padding is not marked (section 4); `KernelNeverHandedOut` further needs one
region to contain the kernel and the bitmap, otherwise `set_mem_region` marks
nothing and returns 0. `NoTwoContiguousTurns` excepts other threads of priority
`UINT16_MAX - 1`. `NoFaultIfCovered` names the maps on which the window has
every frame (`Covered`), and a fault there needs a pool that is empty. `MadtFound`,
`BootFinishes` and `KeysServed` are about `Ordinary` machines: no module, tables on
the root's page, one FADT and one MCFG at most, an MCFG no longer than the MADT,
zeroed memory; a `Bootable` one, in the last two, also has an RSDT and not an XSDT.
`MadtFaithful` needs zeroed memory. The runs contain machines and maps
that violate each condition, so what happens then is in the model too.

## 4. Disagreements found

With a run:

1. `registers`: the order in which `common_isr` pushes the registers is not the
   order of `cpu_reg_frame`; a switch rotates rbp, rdi, rsi and rbx, rdx, rcx.
   The theorem on contexts below is therefore about position, stack and page
   table (`psp`, `cr3`), not about the general purpose registers.
2. `keyboard_arrows`: the release of an extended key prints a character.
3. `process_permissions`: page counts and page sizes are passed as permissions;
   the stack of a thread is not writeable.
4. `paging_high`: memory from 2 GiB up wraps onto the low addresses, and the
   mapping of the text screen takes a large page for a table and changes its rights.
5. `memmap_large`: from 4 GiB into a region on, the scan's 32-bit product wraps and a
   frame that is in use is handed out again.

Visible in the models, as an exception of a property or as a branch:

* `docs/Scheduling/Design.md:33` wants no two contiguous turns for a thread of
  priority 0. Next to a thread of priority `UINT16_MAX - 1`, whose reset active
  priority is the sentinel, it gets them (exception in `NoTwoContiguousTurns`).
* `docs/Scheduling/Design.md:38` and `:40-42` let a thread start with its priority
  plus one and the first one that has 0 win. The code starts with the priority itself
  (`thread.c:53`) and takes a running minimum of aged values (`scheduler.c:55-64`), so
  that a thread that had 1 is preferred to one behind it that had 0. `LeastWins`, a
  theorem, bounds the difference by one. `SchedulerQueue`, and with it
  `ImplementsQueue`, is the code's rule and not the document's.
* `FullLength`, which `ACPI.h:61` wants to tell ACPI 1 from ACPI 2, is 0 for every
  FADT of ACPI 2 to 6 (244, 268 or 276 bytes), because `GenericAddressStructure` takes
  16 bytes and not the 12 of `ACPI.h:103`, so that the structure has 288
  (`full_length`).
* `mem_map.c:48` says `zero_mem_map` sets the padding; it passes a bit index
  where an address is expected, and the scan can return a range past the end of
  its region.
* `mem_map.c:135` documents a failure value for `ialloc_frames`; without a first
  frame it writes through that value.
* `Process.c:98` says a failed creation frees all; the tcb, the pcb, the
  descriptor, the root table and the tables of `page_in` stay allocated
  (`FramesConserved` accounts for them).
* `free` counts a header twice when it merges and never updates the distance in
  the block behind (`alloc.c:227`). No caller in the kernel merges two blocks, so no
  run reaches it; the mutant `cleanup_tcb` shows how much `GivesUpOnlyWhenFull`
  depends on what is freed: with the tcb given back instead of the supply block it
  fails.
* A module tag, which `grub.cfg:6` produces for an archive (neither `build.sh` nor
  `CMakeLists.txt` stages one), makes `handle_multiboot2` ask the heap for memory
  before `alloc_init` has mapped it (`multiboot2.c:65`): a page fault (branch
  `tar_mb2_init`).
* An XSDT is read four bytes beside its entries (`ACPI.c:26-29`): a page fault at
  its first table (branch `table_fault`).
* A timed-out read of the configuration byte is used as 0xFF
  (`PS2_Controller.c:159`); `PS2_Controller.c:38` says a command "can hang", which
  its timeout prevents.
* The checksums of `handle_table` are taken over other structures
  (`ACPI.c:52-61`); tables on another page than the root fault (`ACPI.c:71`); an
  MCFG of more than 16 entries is copied past its structure (`ACPI.c:58`).
* `handle_MADT` clears 8 bytes of its record (`MADT.c:55`).
* `PS2_Scancode.h:71` sketches caps lock toggling at the make code; the decoder
  counts the release.
* The keyboard is routed to pin 1 of the first I/O APIC and processor 0 whatever
  the MADT says, and a byte that arrives before the routing blocks the edge.

Seen while reading, not in a model: `thread.h:34` says of the stack "stack addr
and down", but its pages are mapped upward from the initial stack pointer; the
flag mask of `syscall.c:23` is meant to clear IF and clears bit 1.

## 5. What is proved

The theorems hold for every value of the constants that satisfies the named
assumptions: any number of threads, any pool, any memory map, any number of
entries per table, any devices, any set of machines. Each one with a property of
a run states that property; `LeastWins` is proved only; `Tree` and `Agreement` are
inductive invariants.

| module | theorem | property | hypotheses besides the assumptions |
|---|---|---|---|
| `SchedulerProofs` | `TypeCorrect` | `TypeOK` | |
| | `ListCorrect` | `QueueIsLinkedList` | |
| | `NoNullDereference` | `FaultOnlyWithoutInit` | |
| | `RunningThreadIsLast` | `RunningIsLast` | |
| | `OnlyRunnableDispatched` | `DispatchesRunnable` | |
| | `ContextsNotMixed` | `ResumesWhereInterrupted` | |
| | `Refinement` | `ImplementsQueue` | |
| | `WaitingIsBounded` | `BoundedWaiting` | |
| | `TurnsAlternate` | `NoTwoContiguousTurns` | |
| | `LeastIsChosen` | `LeastWins` (in no run) | |
| `ProcessProofs` | `FramesAreConserved` | `FramesConserved` | |
| | `DispatchedAreExclusive` | `DispatchedFramesExclusive` | |
| | `DispatchedAreComplete` | `DispatchedComplete` | |
| | `HeadersAreRight` | `HeadersDescribeBlocks` | |
| | `GivesUpWhenFull` | `GivesUpOnlyWhenFull` | |
| | `ObjectsAreDisjoint` | `ObjectsDisjoint` | |
| | `ProcessTypes` | `TypeOK` | |
| `MemMapProofs` | `MapTypes` | `TypeOK` | `OrderlyMaps`, `RegionsIn32Bits`, `[]BootCountsDoNotWrap` |
| | `FramesAreNotShared` | `NoFrameSharedInRegions` | the same |
| | `KernelIsKept` | `KernelNeverHandedOut` | the same |
| | `CountsAlwaysAgree` | `CountsAgree` | the same |
| | `ScansFirstFit` | `FirstFit` (action property) | the same |
| `PagingProofs` | `Tree` | | `LowMemory` (in the invariant) |
| | `Mapped` | `MappedAsAsked` | `LowMemory` |
| | `OwnFrames` | `TablesOwnTheirFrames` | the same |
| | `UserPages` | `UserReachesItsPages` | the same |
| | `KernelInThread` | `KernelMappedInThread` | the same |
| | `NoFault` | `NoFaultIfCovered` | the same |
| `PS2ControllerProofs` | `Agreement` | | |
| | `Configures` | `ConfiguredIfPrompt` | |
| `KeyboardProofs` | `KeyboardTypes` | `TypeOK` | |
| | `TypedIsPrinted` | `PrintsWhatIsTyped` | `Ordinary(Keys)` |
| | `ModifiersInStep` | `DecoderInStep` | `Ordinary(Keys)` |
| `BootProofs` | `BootTypes` | `TypeOK` | |
| | `MadtIsFound` | `MadtFound` | |
| | `MadtIsRead` | `MadtFaithful` | |
| | `CalibrationIsAccurate` | `CalibrationAccurate` | `FadtTellsWidth` |
| | `RecordsAreInBlock` | `IoApicsFit` | |
| | `RoutingIsWhole` | `RoutedWhole` | `KeyVectorFree` |

### Assumptions and hypotheses

The assumptions are named `ASSUME`s of the modules that declare the constants;
TLC evaluates them in the runs. Those that are more than types: `dummy_tcb` and
`NULL` are not threads; there are finitely many threads and at least one process;
priorities are below `UINT16_MAX`, which `create_thread` enforces, and
`UINT16_MAX` is at least 2; the kernel makes at least one allocation before the
first process (`BootObjects`), as `handle_MADT` does; the calibration window and
two gaps are shorter than the short PM timer's period, and the long timer's
period is a multiple of it (2^24 and 2^32); a table has at least the five entries
that the windows need, the heap's and the thread's pages fit into one table and
one root entry, the kernel is in memory and below 2 GiB, as it is linked at
`KERNEL_VMA`, and the registers, the ACPI tables and the text screen are below 512 GiB and not in memory that the map calls available; an
I/O APIC has 1 to 256 entries and a MADT names I/O APICs that exist. The assumption
on devices and text screen is what makes their mappings and those of memory
distinct: `map_mmio` and the mapping of the screen check nothing.

A hypothesis is what a theorem needs of the machine and the code does not check.
The MC modules assert that the machines, maps and keys of the runs satisfy them:

* `Ordinary(Keys)`: no key's code is a prefix byte, there is one shift key, and
  the code of an extended key is not also a printable one or a shift. The arrow
  keys violate the last part, and that is the disagreement of the run
  `keyboard_arrows`; the decoder's single flag for two shift keys is why the
  second part is there.
* `OrderlyMaps`: the usable entries of the memory map fit into `regions`, and are
  ascending, none starting among the frames that the padding of an earlier one's
  bitmap (rounded up to whole words) would stand for. The last part is needed: the
  padding bits of a region stay free
  (`zero_mem_map`, section 4), so without the gap the scan hands out a padding
  "frame" that is the first frame of the region behind, and that one again. TLC
  finds it at once on a map with two adjacent regions.
* `RegionsIn32Bits`: no usable entry, rounded up to whole words of the bitmap, has
  more than 4 GiB. Beyond, the scan's product wraps (`memmap_large`, section 4) and the
  theorems of `MemMapProofs` say nothing.
* `BootCountsDoNotWrap`: marking the kernel and the padding at boot takes no
  counter below 0. The code subtracts the length it was asked to mark, whatever
  the region has, so this depends on the map; on the maps of the run it is part
  of the `TypeOK` that TLC checks. That no later call wraps a counter is proved.
* `FadtTellsWidth`: a FADT that calls its PM timer 32 bits wide is right. The
  converse is not needed: a long timer called short is read through the mask.
* `KeyVectorFree`: the firmware leaves vector 33 unused at pin 1.
* `LowMemory`: the available memory is in the first 2 GiB, what
  `KERNEL_PHYS_TO_VIRT` has room for. Beyond it the window wraps onto other
  addresses (`paging_high`, section 4), and the tables are no tree. The theorems
  are stated as `[](LowMemory => ...)`, as the map is chosen by `Init`.

### The arguments

None of the properties is inductive; the strengthenings were checked by TLC
before they were proved.

**Scheduler.** `IInv` adds:

* `OrderInv`: `behind` is a strict total order on the queued tcbs. Lists are
  awkward for a prover, orders are not: reachability along `next` becomes
  membership in `behind`, and moving a tcb to the end is one set operation.
* `LinkInv`: the pointers follow that order. `next[x]` is the least element
  behind `x`. This and the order determine all six pointers each relinking case
  touches.
* `ModeInv`: what is null when, and who may run in which mode.
* `StateInv`: exactly the running thread (and, during a switch, the chosen one)
  is in `THREAD_RUNNING`, and it is the last in the queue.
* `FirstTickInv`: before the first switch nobody's active priority has been
  reset, so the loop finds a thread and the fallback, which would dispatch
  `dummy_tcb`, is not taken.
* `PickInv`: the loop invariant. The threads behind `active_tcb` are untouched,
  those before it have aged once, and `best_tcb` is better than those ahead of
  it and at most one worse than those after it (the comparison is with an aged
  value).
* `MaskInv`: interrupts are enabled only in `sti` and `run`.
* `ContextInv`: the saved position of a thread, the frame on the stack and the
  processor agree, depending on the mode.

There is one lemma per conjunct of `IInv` and one step per action in it; the
facts each relinking case establishes are lemmas (`PickTopList`,
`PickMiddleList`, `CreateList`).

**The queue.** In `Refinement` the tick takes effect when the switch ends; every
other step is a stutter or the admission of a thread, and `PickInv` at the end of
the loop is the queue's choice. `BoundedWaiting` is a counting argument: `WaitInv`
relates how long a thread has waited to its active priority and to how many
threads can still be chosen before it.

**Processes.** `FrameInv` says of every frame who holds it (the pool, a creation
under way, a thread, `lost`) for every program counter of a creation, and what
the allocation under way has of the pages it was asked for. With it the three
properties are consequences; without the program counter's part a creation that
fails between two allocations is not accounted for.

**Heap.** `HeapInv`: blocks are in ascending order and tile the heap in both
directions; a free block other than the last is the supply block that a failed
creation freed, there is at most one, and it has exactly the size the next supply
block needs, so it is given out again whole. That is why the first-fit walk that stops at
the first free block is enough, and why the header that `free` counts twice does
no harm here. It depends on the order of the kernel's calls, so the invariant also
says where in a creation the kernel is.

**MemMap.** `Inv` has the regions and their places in the bitmap (`RegionInv`,
where the gap between regions is used), what a call under way has and still needs
(`CallInv`), that no two allocations share a frame of a region (`BooksInv`), the
bits and the counters (`MarksInv`: a bit of a region is set if and only if its
frame is in use or was at boot, and never both), the kernel's range
(`KernelInv`) and the loop invariant of the scan (`ScanInv`: the last
`carried_run` bits before the current word are free, and no run of the length
asked for starts earlier). First fit follows from the last, the others from the
rest.

**Page tables.** `page_in` descends into whatever a present entry has, so that an
entry leads to a table, and to the right one, has to be an invariant. Two
functions that are not in the code describe the tree: `lvl[f]`, the level of the
table in frame `f`, or `None`, and `pos[f]`, the indices that lead to it. `Inv` says that they exist:
a present entry leads to a table one level down whose position is the entry's
(`TreeInv`); a table is used, is in memory and is nothing else (`TablesInv`);
every page in `asked` is at the end of a path of entries with at least its rights
(`AskedInv`), the call under way has come to the end of such a path (`CallInv`), and the
frame that it maps is no table. As a table has one position, setting an entry at one
address changes no other address's path, and rights are only added: that is
`MappedAsAsked`. A new table is a free frame, hence neither a table nor mapped:
`TablesOwnTheirFrames`. `EntryInv` ties the user bit of a leaf to the address its
position spells, and large pages to the last root entry, which no call with
small pages descends into. `RootsInv` says that the thread's root has the
kernel's entries but for its own second one; the kernel's second entry is empty
when it is copied and nothing maps there before (`Placed`): `KernelMappedInThread`.
`WindowInv` follows the loops of `page_in_regions`: every large page that they
have come by is in the window, so that after `write_cr3` every table `page_in` writes to
can be reached (`QuietFault`), and an access faults only when no frame is free. The lemmas on
`VA_INDEX` (products of `ENTRIES`, division in two stages) take the place of
the bit fields of an address.

**PS/2 controller.** `Agreement` is conditional on `mishaps`: before the first one,
the driver's position determines what the input buffer may hold (`Pending`) and, if it
is empty, that the answer is among the bytes to be read and is the only one the
controller sent (`AnswerInv`). From these an answer read is the answer to
the last command, and `ConfByteInv`, `TestInv` and `ConfigInv` follow the
configuration byte from the controller into the driver, through its changes, and back.
The last write of it stays unread at the stages behind, or is in the controller
(`LastInv`), up to the return. The bit tests on the byte are proved through its binary
digits.

**Keyboard.** `InStep` looks ahead: if the decoder read all the bytes now on the
wire, its state would be that of the keys and the text printed what was meant.
Bytes are appended by a key event and consumed one per interrupt, in the middle
of a code too, so the invariant speaks of the decoder's states between the bytes.

**Boot.** The driver's masked difference is a number of ticks only as long as
fewer than the mask have passed, so `CalInv` bounds them at each step (the reads
are at most `MaxGap` ticks apart, and polling ends at `WAIT`) and relates them to
what the local APIC has counted; the arithmetic of the wrap is five lemmas on
remainders. `RouteInv` has, besides what was delivered, every redirection entry
and the interrupt on its way, and says that the entry between its two writes
already has its processor. `WalkInv` says where `FADT` and `MCFG` came from when
the walk is at a table, which makes each checksum's answer known on an ordinary
machine, and `ReadUpTo` what the second pass has made of the records before the
current one. Nothing is assumed of when a record is malformed beyond that both
passes ask the same question. For the records of the I/O APICs `SizesInv` says
that there is a function `ends`, the sums of the bytes counted for the first
records, of which the first loop has the value at its place, and that the
second is never beyond it: a record takes at most what was counted for it, as
`entries % 256` is at most `entries`. The function is extended by one element per
turn, which takes the place of an induction.

### Only model-checked

* The liveness properties `NoStarvation`, `InitReturns`, `BootFinishes` and
  `KeysServed`: out of the prover's reach.
* The runs that end in a counterexample (`registers`, `memmap_large`,
  `process_permissions`, `keyboard_arrows`, `paging_high`) have nothing to prove.

Sums, counts and lists that would need an induction over data are carried along
by an invariant (`ends` above) or replaced by a least element of a set of numbers
(`OrderLemmas`): the first run of the scan (`MemMapProofs`) and the list of the
lowest free frames (`ProcessProofs`, `PagingProofs`). Every other
property of a passing run, each invariant, action property and the refinement, is
stated by a theorem.

## 6. Not modelled

PCIe discovery probes configuration space, maps what it finds (`map_mmio`, which
is in `Paging`) and prints. The contents of the tar archive are not read by
anything; its parse faults (section 4). GDT, TSS, boot code and console are straight-line set-up or output.
System calls cannot be made (their set-up is commented out in `kmain`). The
master record table and USB are stubs. `thread_exit`, `thread_supply_mem`,
`stop_thread`, `spawn_thread`, `page_out`, `test_walk_table`, `ioapic_set`,
`Icalloc`, `Irealloc` and `zero_mem_region` have no callers. Pages of 1 GiB are
never asked for and large frames never allocated.

## 7. Plan

The plan is carried out: scheduler with its abstract queue, frame allocator, heap
and process creation, page tables, PS/2 controller and keyboard, firmware tables and
boot are modelled, and what can be proved of the properties of their runs is proved.

What a next step would add: drop the hypothesis `[]BootCountsDoNotWrap` of the
`MemMap` theorems in favour of a condition on the memory map alone, and join
`MemMap` and `Paging`, which share only the pool, into one model of a boot.
