------------------------------- MODULE Paging -------------------------------
(***************************************************************************)
(* The page tables kmain builds: page_in (paging.c), the window onto       *)
(* physical memory (page_in_regions), the switch to the new tables, the    *)
(* heap's pages (init_custom_alloc), map_mmio, the text screen, and the    *)
(* table of a thread, which starts as a copy of the kernel's root.         *)
(*                                                                         *)
(* Addresses are numbers of 4 KiB pages and tables have ENTRIES entries,   *)
(* so that a large page is ENTRIES pages.  A table is reached through the  *)
(* window of the tables in force; one that is not there is a page fault.   *)
(***************************************************************************)
EXTENDS Integers, Sequences, FiniteSets

CONSTANTS
  ENTRIES,        \* 512
  MemoryMaps,     \* regions of the memory map: sequences of <<start, end>>
  KernelFrames,   \* the kernel image, its root table and the bitmap
  Kernel_PML4_TABLE,
  Frames,         \* physical memory: 0..(Frames - 1)
  BootFrames,     \* what the tables of boot.asm map: the first 40 MiB
  HeapPages,      \* 510
  DeviceLists,    \* what map_mmio is called on: sequences of frames
  VideoFrame,     \* 0xB8000
  ThreadPages     \* pages of a thread's code

\* The pages of an entry of each level, from the page table up, and of all.
HUGE_PS == ENTRIES
SUPER_PS == ENTRIES * HUGE_PS
PML4_PS == ENTRIES * SUPER_PS
ADDRESSES == ENTRIES * PML4_PS

\* The heap fits into a page table, the thread's code below an entry of the
\* root, and the kernel, which is linked at KERNEL_VMA, into the 2 GiB above it.
ASSUME PagingAssumption ==
  /\ ENTRIES \in Nat /\ ENTRIES >= 5
  /\ HeapPages \in 2..ENTRIES /\ ThreadPages \in 1..PML4_PS
  /\ Kernel_PML4_TABLE \in KernelFrames /\ KernelFrames \subseteq 0..(Frames - 1)
  /\ KernelFrames \subseteq 0..(2 * SUPER_PS - 1)
  /\ Frames \in Nat /\ BootFrames \in Nat
  /\ MemoryMaps \subseteq Seq(Nat \X Nat)
  /\ \A m \in MemoryMaps : \A n \in DOMAIN m : m[n][2] <= Frames

\* The registers, the ACPI tables and the text screen are below 512 GiB, and
\* none of them is in memory that the firmware calls available.
ASSUME DeviceAssumption ==
  /\ DeviceLists \subseteq Seq(0..(PML4_PS - 1)) /\ VideoFrame \in 0..(PML4_PS - 1)
  /\ \A m \in MemoryMaps : \A n \in DOMAIN m :
       /\ VideoFrame \notin m[n][1]..(m[n][2] - 1)
       /\ \A list \in DeviceLists : \A d \in DOMAIN list :
            list[d] \notin m[n][1]..(m[n][2] - 1)

VARIABLES
  mmap,           \* the regions
  mem,            \* the frames as tables
  used,           \* frames that are not free in the frame allocator's bitmap
  cr3,            \* a root table, or None for those of boot.asm
  thread_table,   \* root table of the thread, or None
  pc, i, addr,    \* where kmain is, and the variables of its loops
  call,           \* the call of page_in under way, or NoCall
  pages,          \* frames for the heap, devices or frames for the thread
  asked           \* history: what page_in was asked to map and answered 0 to,
                  \* <<root, page>> to [frame, size, perms]

vars == <<mmap, mem, used, cr3, thread_table, pc, i, addr, call, pages,
          asked>>

-----------------------------------------------------------------------------
None == -1

\* The kernel's windows, counted from the top as in kernel_helper.h; sums of
\* addresses wrap.
KERNEL_VMA == ADDRESSES - 2 * SUPER_PS
KERNEL_HEAP_ADDR == ADDRESSES - 2 * PML4_PS
KERNEL_MMIO == ADDRESSES - 3 * PML4_PS
KERNEL_PHYS_TO_VIRT(f) == (f + KERNEL_VMA) % ADDRESSES

\* Mutant: devices are mapped with the macro for memory.
MMIO_PHYS_TO_VIRT_kernel(f) == KERNEL_PHYS_TO_VIRT(f)

MMIO_PHYS_TO_VIRT(f) == (f + KERNEL_MMIO) % ADDRESSES
THREAD_CODE_VIRT_ADDR == PML4_PS

EntryPages(level) ==
  CASE level = 0 -> 1 [] level = 1 -> HUGE_PS [] level = 2 -> SUPER_PS [] OTHER -> PML4_PS

\* Mutant: an index is taken from the neighbouring level's bits.
VA_INDEX_shifted(v, level) == (v \div EntryPages((level + 3) % 4)) % ENTRIES

VA_INDEX(v, level) == (v \div EntryPages(level)) % ENTRIES

ALIGN_UP(x, a) == ((x + a - 1) \div a) * a

Perms(user, writeable, nocache) ==
  [user |-> user, writeable |-> writeable, nocache |-> nocache]

\* Mutant: the word has the user bit too.
WRITEABLE_user == Perms(TRUE, TRUE, FALSE)

WRITEABLE == Perms(FALSE, TRUE, FALSE)
DEVICE == Perms(FALSE, TRUE, TRUE)
USER == Perms(TRUE, TRUE, FALSE)

Entry(frame, huge, perms) ==
  [present |-> TRUE, huge |-> huge, ppn |-> frame, perms |-> perms]
NoEntry == [present |-> FALSE, huge |-> FALSE, ppn |-> 0,
            perms |-> Perms(FALSE, FALSE, FALSE)]
EmptyTable == [n \in 0..(ENTRIES - 1) |-> NoEntry]

RAM == UNION {mmap[n][1]..(mmap[n][2] - 1) : n \in DOMAIN mmap}
LowestOf(S) == CHOOSE f \in S : \A g \in S : f <= g

\* A walk through the entries of path ends at the last one of them, with the
\* rights that all of them give.
WalkEnds(path, last, size) ==
  [frame |-> last.ppn, size |-> size,
   perms |-> Perms(\A e \in path : e.perms.user, \A e \in path : e.perms.writeable,
                   last.perms.nocache)]
WalkFails == [frame |-> None, size |-> 0, perms |-> NoEntry.perms]

\* The entry a walk ends at and how many pages it is for, as the processor
\* finds it; walk_table computes the same below 2 GiB (see as_int).
walk_table(m, root, v) ==
  LET pml4 == m[root][VA_INDEX(v, 3)]
      pdpt == m[pml4.ppn][VA_INDEX(v, 2)]
      pd == m[pdpt.ppn][VA_INDEX(v, 1)]
      pt == m[pd.ppn][VA_INDEX(v, 0)]
  IN IF ~pml4.present \/ ~pdpt.present THEN WalkFails
     ELSE IF pdpt.huge THEN WalkEnds({pml4, pdpt}, pdpt, SUPER_PS)
     ELSE IF ~pd.present THEN WalkFails
     ELSE IF pd.huge THEN WalkEnds({pml4, pdpt, pd}, pd, HUGE_PS)
     ELSE IF ~pt.present THEN WalkFails
     ELSE WalkEnds({pml4, pdpt, pd, pt}, pt, 1)

\* The frame the processor finds v at.
Translate(m, root, v) ==
  LET w == walk_table(m, root, v)
  IN IF w.frame = None THEN None ELSE w.frame + (v % w.size)

-----------------------------------------------------------------------------
(* page_in, one step per level                                             *)

NoCall == [at |-> None]

\* A step of kmain calls page_in; next is where it goes on, and failed where
\* it goes on when there is no frame for a table.
Calls(root, v, frame, size, perms, next, failed) ==
  call' = [at |-> root, level |-> 3, root |-> root, virt |-> v, frame |-> frame,
           size |-> size, perms |-> perms, next |-> next, failed |-> failed]

\* page_ppn << 12: the bit-field is promoted to int, so that the address of a
\* frame wraps at 4 GiB and its sign is extended from 2 GiB up.
as_int(ppn) ==
  LET a == ppn % (4 * SUPER_PS) IN IF a < 2 * SUPER_PS THEN a ELSE a - 4 * SUPER_PS

\* The frame is in the window of the tables in force; nothing is mapped below
\* the window, where a negative address leads.
Reachable(f) ==
  f >= 0 /\ IF cr3 = None THEN f < BootFrames
            ELSE Translate(mem, cr3, KERNEL_PHYS_TO_VIRT(f)) = f

Free == RAM \ used
NextIsReachable == Free # {} /\ Reachable(LowestOf(Free))

APPLY_LEAF_PERMS(old, perms) == perms

APPLY_UPPER_PERMS(old, perms) ==
  [old EXCEPT !.user = @ \/ perms.user, !.writeable = @ \/ perms.writeable]

\* The entry of the present level.
Here == VA_INDEX(call.virt, call.level)
Old == mem[call.at][Here]
LeafLevel == call.size = EntryPages(call.level)

InPageIn == call # NoCall /\ UNCHANGED <<mmap, cr3, thread_table, i, addr, pages>>

Faults == /\ pc' = "fault" /\ call' = NoCall
          /\ UNCHANGED <<mem, used, asked>>

\* The table of this level cannot be reached, or a new one cannot.
page_in_faults ==
  /\ InPageIn
  /\ \/ ~Reachable(call.at)
     \/ /\ Reachable(call.at) /\ ~LeafLevel /\ ~Old.present
        /\ Free # {} /\ ~NextIsReachable
  /\ Faults

\* What a present entry refers to is taken for a table, also if it is a page.
page_in_present ==
  /\ InPageIn /\ Reachable(call.at) /\ ~LeafLevel /\ Old.present
  /\ mem' = [mem EXCEPT ![call.at][Here].perms = APPLY_UPPER_PERMS(@, call.perms)]
  /\ call' = [call EXCEPT !.at = as_int(Old.ppn), !.level = @ - 1]
  /\ UNCHANGED <<used, pc, asked>>

\* An absent table is allocated and cleared.
page_in_allocates ==
  /\ InPageIn /\ Reachable(call.at) /\ ~LeafLevel /\ ~Old.present
  /\ NextIsReachable
  /\ LET f == LowestOf(Free)
     IN /\ used' = used \cup {f}
        /\ mem' = [mem EXCEPT ![f] = EmptyTable,
                     ![call.at][Here] =
                       Entry(f, FALSE, APPLY_UPPER_PERMS(Old.perms, call.perms))]
        /\ call' = [call EXCEPT !.at = as_int(f), !.level = @ - 1]
  /\ UNCHANGED <<pc, asked>>

page_in_fails ==
  /\ InPageIn /\ Reachable(call.at) /\ ~LeafLevel /\ ~Old.present
  /\ Free = {}
  /\ pc' = call.failed /\ call' = NoCall
  /\ UNCHANGED <<mem, used, asked>>

page_in_leaf ==
  /\ InPageIn /\ Reachable(call.at) /\ LeafLevel
  /\ mem' = [mem EXCEPT ![call.at][Here] =
       Entry(call.frame, call.size # 1, APPLY_LEAF_PERMS(Old.perms, call.perms))]
  /\ asked' = [k \in DOMAIN asked \cup {<<call.root, call.virt>>} |->
       IF k = <<call.root, call.virt>>
         THEN [frame |-> call.frame, size |-> call.size, perms |-> call.perms]
         ELSE asked[k]]
  /\ pc' = call.next /\ call' = NoCall
  /\ UNCHANGED used

page_in ==
  \/ page_in_faults \/ page_in_present \/ page_in_allocates \/ page_in_fails
  \/ page_in_leaf

\* ialloc_frames(n): the lowest free frames, the first of which holds the list
\* and is not checked; if a later one is missing the others are lost.
TakesFrames(n, next, failed) ==
  \/ /\ ~NextIsReachable
     /\ pc' = "fault" /\ UNCHANGED <<used, pages>>
  \/ /\ NextIsReachable /\ Cardinality(Free) < n
     /\ pc' = failed /\ used' = used \cup Free /\ UNCHANGED pages
  \/ /\ NextIsReachable /\ Cardinality(Free) >= n
     /\ pages' = [k \in 1..n |-> CHOOSE f \in Free :
                                  Cardinality({g \in Free : g <= f}) = k]
     /\ pc' = next /\ used' = used \cup {pages'[k] : k \in 1..n}

-----------------------------------------------------------------------------
Init ==
  /\ mmap \in MemoryMaps
  /\ mem = [f \in 0..(Frames - 1) |-> EmptyTable]
  /\ used = KernelFrames
  /\ cr3 = None /\ thread_table = None
  /\ pc = "regions" /\ i = 0 /\ addr = 0 /\ call = NoCall /\ pages = <<>>
  /\ asked = <<>>

\* kmain is at a step, and not inside page_in.
At(step) == pc = step /\ call = NoCall


\* Mutant: only the large pages that are all memory get into the window.
RegionEnd_whole(n) == IF n = 0 THEN 0 ELSE (mmap[n][2] \div HUGE_PS) * HUGE_PS

RegionEnd(n) == IF n = 0 THEN 0 ELSE mmap[n][2]

\* The size of page is computed and not used.
window_step == HUGE_PS

page_in_regions ==
  /\ At("regions") /\ addr < RegionEnd(i)
  /\ Calls(Kernel_PML4_TABLE, KERNEL_PHYS_TO_VIRT(addr), addr, HUGE_PS,
           WRITEABLE, "regions", "halt")
  /\ addr' = addr + window_step
  /\ UNCHANGED <<mmap, mem, used, cr3, thread_table, pc, i, pages, asked>>

\* The next region, from its first address that is a multiple of HUGE_PS.
page_in_next_region ==
  /\ At("regions") /\ addr >= RegionEnd(i) /\ i < Len(mmap)
  /\ i' = i + 1 /\ addr' = ALIGN_UP(mmap[i + 1][1], HUGE_PS)
  /\ UNCHANGED <<call, mmap, mem, used, cr3, thread_table, pc, pages, asked>>

\* Every later instruction of the kernel is fetched through the new tables.
write_cr3 ==
  /\ At("regions") /\ addr >= RegionEnd(i) /\ i = Len(mmap)
  /\ cr3' = Kernel_PML4_TABLE
  /\ pc' = IF \A f \in KernelFrames :
                Translate(mem, Kernel_PML4_TABLE, KERNEL_PHYS_TO_VIRT(f)) = f
             THEN "alloc_init" ELSE "fault"
  /\ UNCHANGED <<call, mmap, mem, used, thread_table, i, addr, pages, asked>>

\* The list is used without a look at the failure value.
alloc_init ==
  /\ At("alloc_init") /\ TakesFrames(HeapPages, "heap_info", "fault") /\ i' = 2
  /\ UNCHANGED <<call, mmap, mem, cr3, thread_table, addr, asked>>

HeapPage(n, frame, next) ==
  /\ Calls(cr3, KERNEL_HEAP_ADDR + n, frame, 1, WRITEABLE, next, "heap_null")
  /\ UNCHANGED <<mmap, mem, used, cr3, thread_table, pc, addr, pages, asked>>

\* The list of frames is mapped as the second page of the heap.
heap_info ==
  /\ At("heap_info") /\ HeapPage(1, pages[1], "heap_allocator") /\ i' = i

\* A frame of its own for the first page, unchecked; its number is in addr.
heap_allocator ==
  /\ At("heap_allocator")
  /\ IF ~NextIsReachable
       THEN pc' = "fault" /\ UNCHANGED <<used, addr>>
       ELSE /\ addr' = LowestOf(Free) /\ used' = used \cup {addr'}
            /\ pc' = "heap_first"
  /\ UNCHANGED <<call, mmap, mem, cr3, thread_table, i, pages, asked>>

heap_first ==
  /\ At("heap_first") /\ HeapPage(0, addr, "heap_pages") /\ i' = i

heap_pages ==
  /\ At("heap_pages") /\ i < HeapPages
  /\ HeapPage(i, pages[i], "heap_pages") /\ i' = i + 1

\* alloc_init returned NULL, which nobody looks at: the first Imalloc faults.
heap_null ==
  /\ At("heap_null") /\ pc' = "fault"
  /\ UNCHANGED <<call, mmap, mem, used, cr3, thread_table, i, addr, pages, asked>>

\* handle_ACPI and enable_apic map their devices.
handle_ACPI ==
  /\ At("heap_pages") /\ i >= HeapPages
  /\ pages' \in DeviceLists /\ pc' = "devices"
  /\ UNCHANGED <<call, mmap, mem, used, cr3, thread_table, i, addr, asked>>

\* A device that cannot be mapped is skipped, or used unmapped.
map_mmio ==
  /\ At("devices") /\ pages # <<>>
  /\ Calls(cr3, MMIO_PHYS_TO_VIRT(Head(pages)), Head(pages), 1, DEVICE,
           "devices", "devices")
  /\ pages' = Tail(pages)
  /\ UNCHANGED <<mmap, mem, used, cr3, thread_table, pc, i, addr, asked>>

kmain_video ==
  /\ At("devices") /\ pages = <<>>
  /\ Calls(cr3, VideoFrame, VideoFrame, 1, USER, "thread", "thread")
  /\ UNCHANGED <<mmap, mem, used, cr3, thread_table, pc, i, addr, pages, asked>>

\* Mutant: only the upper half of the root is copied.
copied_root_half ==
  [n \in 0..(ENTRIES - 1) |->
     IF 2 * n > ENTRIES THEN mem[Kernel_PML4_TABLE][n] ELSE NoEntry]

copied_root == mem[Kernel_PML4_TABLE]

\* The root table of a thread.
create_thread ==
  /\ At("thread")
  /\ TakesFrames(1, "code", "fault")
  /\ IF pc' = "fault" THEN UNCHANGED <<mem, thread_table>>
     ELSE /\ thread_table' = pages'[1]
          /\ mem' = [mem EXCEPT ![pages'[1]] = copied_root]
  /\ UNCHANGED <<call, mmap, cr3, i, addr, asked>>

\* The frames of the thread's code, or the answer that there are none ...
thread_supply_new_mem ==
  /\ At("code") /\ TakesFrames(ThreadPages, "supply", "done") /\ i' = 0
  /\ UNCHANGED <<call, mmap, mem, cr3, thread_table, addr, asked>>

\* ... are mapped one by one; the number of pages is passed as permissions.
code_perms == Perms(TRUE, (ThreadPages \div 2) % 2 = 1, FALSE)

thread_supply_mem_region ==
  /\ At("supply") /\ i < ThreadPages
  /\ Calls(thread_table, THREAD_CODE_VIRT_ADDR + i, pages[i + 1], 1,
           code_perms, "supply", "done")
  /\ i' = i + 1
  /\ UNCHANGED <<mmap, mem, used, cr3, thread_table, pc, addr, pages, asked>>

Halted ==
  /\ pc \in {"fault", "halt", "done"} \/ (pc = "supply" /\ call = NoCall /\ i >= ThreadPages)
  /\ UNCHANGED vars

Next ==
  \/ page_in \/ page_in_regions \/ page_in_next_region \/ write_cr3
  \/ alloc_init \/ heap_info \/ heap_allocator \/ heap_first \/ heap_pages
  \/ heap_null \/ handle_ACPI \/ map_mmio \/ kmain_video
  \/ create_thread \/ thread_supply_new_mem \/ thread_supply_mem_region
  \/ Halted

Spec == Init /\ [][Next]_vars

-----------------------------------------------------------------------------
(* Properties *)

\* A page that page_in was asked for and answered 0 to is where it was asked
\* to be, with the rights the caller asked for, whatever was mapped later
\* ("Page a phys to a virt addr", "@return 0 for no error", paging.c; "Leaf
\* entry apply what the caller asked for", memory_mapping.h).
MappedAsAsked ==
  \A k \in DOMAIN asked : \A o \in 0..(asked[k].size - 1) :
    LET w == walk_table(mem, k[1], k[2] + o)
    IN /\ Translate(mem, k[1], k[2] + o) = asked[k].frame + o
       /\ w.perms = asked[k].perms

\* A table is a frame page_in allocated or a root: page_in never takes a
\* frame that is free, or that is mapped as memory, for a table.
TablesOwnTheirFrames ==
  /\ \A f \in DOMAIN mem : mem[f] # EmptyTable => f \in used
  /\ \A k \in DOMAIN asked :
       asked[k].size = 1 /\ asked[k].frame \in RAM
         => mem[asked[k].frame] = EmptyTable

\* User code reaches the text screen and the pages of the thread, and nothing
\* of the kernel: that the upper entries collect the rights of all pages below
\* them opens no other page.
UserReachesItsPages ==
  \A root \in {Kernel_PML4_TABLE, thread_table} \ {None} :
    \A v \in 0..(ADDRESSES - 1) :
      LET w == walk_table(mem, root, v)
      IN w.frame # None /\ w.perms.user
           => \/ v = VideoFrame
              \/ root = thread_table /\ <<root, v>> \in DOMAIN asked

\* An interrupt is handled on the table of the thread it interrupts: all that
\* the kernel has mapped is there too, in the same place.
KernelMappedInThread ==
  thread_table # None =>
    \A k \in DOMAIN asked :
      k[1] = Kernel_PML4_TABLE
        => walk_table(mem, thread_table, k[2])
             = walk_table(mem, Kernel_PML4_TABLE, k[2])

\* The memory maps on which the window has every frame it needs: frames are
\* all in large pages that start in a region, and so is the kernel; and the
\* tables of boot.asm reach every frame.
InWindow(f) ==
  \E n \in DOMAIN mmap :
    f >= ALIGN_UP(mmap[n][1], HUGE_PS) /\ f < ALIGN_UP(mmap[n][2], HUGE_PS)
Covered ==
  \A f \in RAM \cup KernelFrames : InWindow(f) /\ f < BootFrames

\* On those maps no access of kmain faults, before or after the switch of the
\* tables, as long as a frame is free.
NoFaultIfCovered == pc = "fault" /\ Covered => Free = {}
=============================================================================
