------------------------------- MODULE MemMap -------------------------------
(***************************************************************************)
(* The physical memory manager: the map of free frames that                *)
(* handle_mb2_mmap builds from the multiboot2 memory map, and the          *)
(* allocation and release of frames (mem_map.c, BitMap.c).                 *)
(*                                                                         *)
(* Physical addresses are frame numbers.  The few that the code does not   *)
(* align to a frame are given as the frame they are in and the frame       *)
(* boundary that follows them, which is all the code's comparisons and     *)
(* divisions see.  The fields of the regions are functions of their index. *)
(* The loops over regions and over the words of the bitmap take one step   *)
(* per iteration.                                                          *)
(***************************************************************************)
EXTENDS Integers, Sequences, FiniteSets

CONSTANTS
  DEFAULT_PAGE_SIZE,   \* bytes of a frame (4096 in the kernel)
  UINT32,              \* numbers of a uint32_t (2^32 in the kernel)
  WORD,                \* bits of a word of the bitmap (64 in the kernel)
  MAX_MEM_REGIONS,     \* length of the regions array (32 in the kernel)
  MmapTags,            \* memory maps: sequences of [addr, len, available]
  KernelStart,         \* the frame of _kernel_start_phys
  BitmapData,          \* physical address, in bytes, of bitmap.data
  Clients,             \* the parts of the kernel that allocate frames
  PageRequests,        \* numbers of contiguous frames asked for
  CountRequests        \* numbers of single frames asked for

ASSUME MemMapAssumption ==
  /\ DEFAULT_PAGE_SIZE \in Nat \ {0, 1} /\ MAX_MEM_REGIONS \in Nat \ {0}
  /\ WORD \in 1..64 /\ UINT32 \in Nat \ {0} /\ UINT32 % DEFAULT_PAGE_SIZE = 0
  /\ KernelStart \in Nat /\ BitmapData \in Nat
  /\ PageRequests \subseteq Nat \ {0} /\ CountRequests \subseteq Nat
  /\ MmapTags \subseteq Seq([addr : Nat, len : Nat, available : BOOLEAN])

FRAME_ALLOC_FAILED == -1

VARIABLES
  \* mem_map: the regions, and the bits of the bitmap that are 1
  region_count, start_addr, frames, bitmap_start_addr, qword_count,
  free_frames, bitmap,
  \* the memory map being read, and the entry handle_mb2_mmap is at
  tag, entry,
  \* where the code is; region_i is the i of the loops over the regions
  mode, region_i,
  \* locals of map_alloc_frame_contiguous; base is qword_index * 64
  page_count, base, carried_run, run_start, result,
  \* the call in progress, and the frames ialloc_frames has collected
  call, page_addr,
  \* history: what each client holds, as a list of [first, n]; the frames
  \* nobody can return any more; free_frames and bitmap at the end of the boot
  holds, lost, boot_free, boot_bitmap

region_vars == <<region_count, start_addr, frames, bitmap_start_addr,
                 qword_count>>
map_vars == <<free_frames, bitmap>>
boot_vars == <<tag, entry, boot_free, boot_bitmap>>
scan_vars == <<page_count, base, carried_run, run_start, result>>
call_vars == <<call, page_addr>>
vars == <<region_vars, map_vars, boot_vars, scan_vars, call_vars, mode,
          region_i, holds, lost>>

-----------------------------------------------------------------------------
\* ALIGN_DOWN and ALIGN_UP to a frame, of an address in bytes.
frame_down(a) == a \div DEFAULT_PAGE_SIZE
frame_up(a) == (a + DEFAULT_PAGE_SIZE - 1) \div DEFAULT_PAGE_SIZE

Regions == 0..(MAX_MEM_REGIONS - 1)
RegionEnd(r) == start_addr[r] + frames[r]
RegionFrames(r) == start_addr[r]..(RegionEnd(r) - 1)

\* The size of the bitmap in bits.
BitmapSize == IF region_count = 0 THEN 0
              ELSE bitmap_start_addr[region_count - 1]
                     + WORD * qword_count[region_count - 1]

\* Region r holds everything from frame first up to the boundary end.
Contains(r, first, end) == start_addr[r] <= first /\ end <= RegionEnd(r)

\* What set_mem_region, zero_mem_region and map_dealloc_frame refuse with -1.
OutOfRange(first, end) ==
  first < start_addr[0] \/ end > RegionEnd(region_count - 1)

\* The first region that contains the range: where the loops of
\* set_mem_region and map_dealloc_frame break.
IsRegionOf(r, first, end) ==
  /\ r < region_count /\ Contains(r, first, end)
  /\ \A q \in 0..(r - 1) : ~Contains(q, first, end)

\* Mutant: the range is one short.
BitsOf_short(r, first, n) ==
  (bitmap_start_addr[r] + first - start_addr[r])
    ..(bitmap_start_addr[r] + first - start_addr[r] + n - 2)

\* The bits of the n frames from frame first on in region r.
BitsOf(r, first, n) ==
  (bitmap_start_addr[r] + first - start_addr[r])
    ..(bitmap_start_addr[r] + first - start_addr[r] + n - 1)

\* A range that is out of range, or in no region, changes nothing.
Reaches(first, end) ==
  /\ ~OutOfRange(first, end)
  /\ \E r \in 0..(region_count - 1) : Contains(r, first, end)

\* set_mem_region with bitmap_set_len, for the n frames from first on.
set_mem_region(first, end, n) ==
  IF Reaches(first, end)
    THEN \E r \in 0..(region_count - 1) :
           /\ IsRegionOf(r, first, end)
           /\ free_frames' = [free_frames EXCEPT ![r] = @ - n]
           /\ bitmap' = bitmap \cup BitsOf(r, first, n)
    ELSE UNCHANGED map_vars

\* Mutant: the count of free frames is not given back.
map_dealloc_frame_uncounted(first, n) ==
  IF Reaches(first, first + n)
    THEN \E r \in 0..(region_count - 1) :
           /\ IsRegionOf(r, first, first + n)
           /\ bitmap' = bitmap \ BitsOf(r, first, n)
           /\ UNCHANGED free_frames
    ELSE UNCHANGED map_vars

\* map_dealloc_frame with bitmap_clear_len.
map_dealloc_frame(first, n) ==
  IF Reaches(first, first + n)
    THEN \E r \in 0..(region_count - 1) :
           /\ IsRegionOf(r, first, first + n)
           /\ free_frames' = [free_frames EXCEPT ![r] = @ + n]
           /\ bitmap' = bitmap \ BitsOf(r, first, n)
    ELSE UNCHANGED map_vars

NoCall == [op |-> "none"]

Init ==
  /\ region_count = 0
  /\ start_addr = [r \in Regions |-> 0]
  /\ frames = [r \in Regions |-> 0]
  /\ bitmap_start_addr = [r \in Regions |-> 0]
  /\ qword_count = [r \in Regions |-> 0]
  /\ free_frames = [r \in Regions |-> 0]
  /\ bitmap = {}
  /\ tag \in MmapTags /\ entry = 1
  /\ mode = "mmap" /\ region_i = 0
  /\ page_count = 0 /\ base = 0 /\ carried_run = 0 /\ run_start = 0
  /\ result = FRAME_ALLOC_FAILED
  /\ call = NoCall /\ page_addr = <<>>
  /\ holds = [c \in Clients |-> <<>>]
  /\ lost = {} /\ boot_free = free_frames /\ boot_bitmap = {}

-----------------------------------------------------------------------------
(* handle_mb2_mmap                                                         *)

\* Mutant: the count of free frames of a new region stays 0.
memmap_register_region_uncounted(first, end) ==
  LET r == region_count
      words == (end - first + WORD - 1) \div WORD
  IN /\ start_addr' = [start_addr EXCEPT ![r] = first]
     /\ frames' = [frames EXCEPT ![r] = end - first]
     /\ qword_count' = [qword_count EXCEPT ![r] = words]
     /\ bitmap_start_addr' = [bitmap_start_addr EXCEPT ![r] = BitmapSize]
     /\ region_count' = r + 1
     /\ UNCHANGED free_frames

\* memmap_register_region: the frames from first up to end.
memmap_register_region(first, end) ==
  LET r == region_count
      words == (end - first + WORD - 1) \div WORD
  IN /\ start_addr' = [start_addr EXCEPT ![r] = first]
     /\ frames' = [frames EXCEPT ![r] = end - first]
     /\ qword_count' = [qword_count EXCEPT ![r] = words]
     /\ free_frames' = [free_frames EXCEPT ![r] = end - first]
     /\ bitmap_start_addr' = [bitmap_start_addr EXCEPT ![r] = BitmapSize]
     /\ region_count' = r + 1

\* Available memory, rounded inward to whole frames, becomes a region.
mmap_entry ==
  /\ mode = "mmap" /\ entry <= Len(tag)
  /\ entry' = entry + 1
  /\ LET e == tag[entry]
         first == frame_up(e.addr)
         end == frame_down(e.addr + e.len)
     IN IF e.available /\ end > first
          THEN memmap_register_region(first, end)
          ELSE UNCHANGED <<region_vars, free_frames>>
  /\ UNCHANGED <<bitmap, tag, boot_free, boot_bitmap, scan_vars, call_vars,
                 mode, region_i, holds, lost>>

\* zero_mem_map clears the bitmap ...
zero_mem_map ==
  /\ mode = "mmap" /\ entry > Len(tag)
  /\ bitmap' = {}
  /\ mode' = "zero" /\ region_i' = 0
  /\ UNCHANGED <<region_vars, free_frames, boot_vars, scan_vars, call_vars,
                 holds, lost>>

\* ... and, meaning to mark the padding of each region, passes bit index plus
\* length to set_mem_region, which takes physical addresses.  Only this
\* region's count of free frames is restored.
zero_mem_map_pad ==
  /\ mode = "zero" /\ region_i < region_count
  /\ LET r == region_i
         from == bitmap_start_addr[r] + frames[r] * DEFAULT_PAGE_SIZE
         n == qword_count[r] * WORD - frames[r]
         first == frame_down(from)
         end == frame_up(from + n * DEFAULT_PAGE_SIZE)
     IN IF Reaches(first, end)
          THEN \E q \in 0..(region_count - 1) :
                 /\ IsRegionOf(q, first, end)
                 /\ bitmap' = bitmap \cup BitsOf(q, first, n)
                 /\ free_frames' = IF q = r THEN free_frames
                                   ELSE [free_frames EXCEPT ![q] = @ - n]
          ELSE UNCHANGED map_vars
  /\ region_i' = region_i + 1
  /\ UNCHANGED <<region_vars, boot_vars, scan_vars, call_vars, mode, holds,
                 lost>>

\* The end of the reserved range; bitmap.size, in bits, is added as bytes.
KernelEnd == frame_up(BitmapData + BitmapSize)

\* The kernel and the bitmap are marked; on -1 the caller halts.
reserve_kernel ==
  /\ mode = "zero" /\ region_i = region_count
  /\ set_mem_region(KernelStart, KernelEnd, KernelEnd - KernelStart)
  /\ mode' = IF OutOfRange(KernelStart, KernelEnd) THEN "halt" ELSE "idle"
  /\ boot_free' = free_frames' /\ boot_bitmap' = bitmap'
  /\ UNCHANGED <<region_vars, tag, entry, scan_vars, call_vars, region_i,
                 holds, lost>>

Boot == mmap_entry \/ zero_mem_map \/ zero_mem_map_pad \/ reserve_kernel

-----------------------------------------------------------------------------
(* find_run_in_word, on the set of the free bits of a word                 *)

\* mask & (mask >> k)
AndShifted(mask, k) == {b \in mask : b + k \in mask}

\* Mutant: the loop stops one round early.
doubled_strict(mask, covered, n) ==
  IF 2 * covered < n THEN AndShifted(mask, covered) ELSE mask

\* One round of the loop: runs of `covered' become runs of twice as many.
doubled(mask, covered, n) ==
  IF 2 * covered <= n THEN AndShifted(mask, covered) ELSE mask

\* The largest power of two up to n, at most 64: where the loop stops.
final_covered(n) == CHOOSE c \in {1, 2, 4, 8, 16, 32, 64} :
                      (c <= n \/ c = 1) /\ (c = 64 \/ 2 * c > n)

\* The starts of the runs of n free bits; the loop has at most six rounds,
\* because n <= 64.
run_starts(free, n) ==
  LET m2  == doubled(free, 1, n)
      m4  == doubled(m2, 2, n)
      m8  == doubled(m4, 4, n)
      m16 == doubled(m8, 8, n)
      m32 == doubled(m16, 16, n)
      m64 == doubled(m32, 32, n)
      c   == final_covered(n)
  IN IF c < n THEN AndShifted(m64, n - c) ELSE m64

Least(S) == CHOOSE x \in S : \A y \in S : x <= y
Greatest(S) == CHOOSE x \in S : \A y \in S : x >= y

-----------------------------------------------------------------------------
(* map_alloc_frame_contiguous.  qword_index, carried_run and run_start are  *)
(* uint32_t, and so are the sums and products made of them.                *)

u32(n) == n % UINT32

\* The word at base of the region the scan is in, as the set of its 1 bits;
\* the byte index is qword_index * 8.
qword == {b \in 0..(WORD - 1) :
            bitmap_start_addr[region_i] + (base % (8 * UINT32)) + b \in bitmap}

leading_free == Least(qword)                    \* __builtin_ctzll

\* Mutant: the zeros are counted from the wrong end.
trailing_free_ctz == Least(qword)

trailing_free == WORD - 1 - Greatest(qword)     \* __builtin_clzll

\* Where a run that reaches into this word starts.
RunStart == IF carried_run = 0 THEN u32(base) ELSE run_start

next_word == base' = (base + WORD) % (WORD * UINT32)

\* The locals of a call that has ended have no value; the model zeroes them.
scan_locals_dead == base' = 0 /\ carried_run' = 0 /\ run_start' = 0

scan_begin(n) ==
  /\ mode' = "scan" /\ region_i' = 0
  /\ page_count' = n
  /\ scan_locals_dead
  /\ result' = FRAME_ALLOC_FAILED

call_end ==
  /\ call' = NoCall /\ page_addr' = <<>>
  /\ mode' = "idle" /\ region_i' = 0
  /\ page_count' = 0 /\ result' = FRAME_ALLOC_FAILED
  /\ scan_locals_dead

\* The offset in bytes, a product of 32 bits, as a number of frames.
page_offset(offset) == u32(offset * DEFAULT_PAGE_SIZE) \div DEFAULT_PAGE_SIZE

\* The frames from offset on are marked and their address is returned.
scan_found(offset) ==
  /\ result' = start_addr[region_i] + page_offset(offset)
  /\ set_mem_region(result', result' + page_count, page_count)
  /\ mode' = "return"
  /\ scan_locals_dead
  /\ UNCHANGED page_count

next_region ==
  /\ region_i' = region_i + 1
  /\ scan_locals_dead
  /\ UNCHANGED <<map_vars, page_count, result, mode>>

Scanning == mode = "scan" /\ region_i < region_count
Enough == free_frames[region_i] >= page_count
InWord == Scanning /\ Enough /\ base < WORD * qword_count[region_i]

scan_skip_region == Scanning /\ ~Enough /\ next_region

scan_end_region ==
  /\ Scanning /\ Enough /\ base = WORD * qword_count[region_i]
  /\ next_region

\* Every frame of the word is free.
scan_free_word ==
  /\ InWord /\ qword = {}
  /\ IF u32(carried_run + WORD) >= page_count
       THEN scan_found(RunStart)
       ELSE /\ run_start' = RunStart
            /\ carried_run' = u32(carried_run + WORD)
            /\ next_word
            /\ UNCHANGED <<map_vars, page_count, result, mode>>
  /\ UNCHANGED region_i

\* The run carried so far and the free frames at the start are enough.
scan_leading ==
  /\ InWord /\ qword # {} /\ u32(carried_run + leading_free) >= page_count
  /\ scan_found(RunStart)
  /\ UNCHANGED region_i

FreeBits == (0..(WORD - 1)) \ qword
HasHole == page_count <= WORD /\ run_starts(FreeBits, page_count) # {}

\* There is a hole inside the word.
scan_hole ==
  /\ InWord /\ qword # {} /\ u32(carried_run + leading_free) < page_count
  /\ HasHole
  /\ scan_found(base + Least(run_starts(FreeBits, page_count)))
  /\ UNCHANGED region_i

\* The free frames at the end of the word are carried on.
scan_carry ==
  /\ InWord /\ qword # {} /\ u32(carried_run + leading_free) < page_count
  /\ ~HasHole
  /\ carried_run' = trailing_free
  /\ run_start' = u32(base + WORD - trailing_free)
  /\ next_word
  /\ UNCHANGED <<map_vars, page_count, result, mode, region_i>>

scan_fail ==
  /\ mode = "scan" /\ region_i = region_count
  /\ result' = FRAME_ALLOC_FAILED
  /\ mode' = "return"
  /\ scan_locals_dead
  /\ UNCHANGED <<map_vars, page_count, region_i>>

Scan ==
  /\ \/ scan_skip_region \/ scan_end_region \/ scan_free_word
     \/ scan_leading \/ scan_hole \/ scan_carry \/ scan_fail
  /\ UNCHANGED <<region_vars, boot_vars, call_vars, holds, lost>>

-----------------------------------------------------------------------------
(* The calls of the clients                                                *)

Block(first, n) == [first |-> first, n |-> n]
FramesOf(a) == a.first..(a.first + a.n - 1)
InsideRegion(a) == \E r \in 0..(region_count - 1) :
                     Contains(r, a.first, a.first + a.n)

\* The frames in regions that a list of allocations covers.
FramesIn(list) == UNION {FramesOf(list[i]) :
                           i \in {j \in DOMAIN list : InsideRegion(list[j])}}

ialloc_kframe(c, pages) ==
  /\ mode = "idle" /\ holds[c] = <<>>
  /\ call' = [op |-> "ialloc_kframe", client |-> c]
  /\ scan_begin(pages)
  /\ UNCHANGED <<region_vars, map_vars, boot_vars, page_addr, holds, lost>>

\* At least one frame is allocated, even if none is asked for; a request for
\* more than the list has room for fails at once and changes nothing.
ialloc_frames(c, count) ==
  /\ mode = "idle" /\ holds[c] = <<>> /\ count <= 510
  /\ call' = [op |-> "ialloc_frames", client |-> c, count |-> count]
  /\ page_addr' = <<>>
  /\ scan_begin(1)
  /\ UNCHANGED <<region_vars, map_vars, boot_vars, holds, lost>>

Return == mode = "return" /\ UNCHANGED <<region_vars, map_vars, boot_vars>>

ialloc_kframe_return ==
  /\ Return /\ call.op = "ialloc_kframe"
  /\ holds' = IF result = FRAME_ALLOC_FAILED THEN holds
              ELSE [holds EXCEPT ![call.client] = <<Block(result, page_count)>>]
  /\ call_end
  /\ UNCHANGED lost

\* The first frame holds the list itself: it is written to unchecked.
ialloc_frames_first_fails ==
  /\ Return /\ call.op = "ialloc_frames"
  /\ result = FRAME_ALLOC_FAILED /\ page_addr = <<>>
  /\ mode' = "fault"
  /\ UNCHANGED <<scan_vars, call_vars, region_i, holds, lost>>

\* A later one fails: the frames already collected are not released.
ialloc_frames_later_fails ==
  /\ Return /\ call.op = "ialloc_frames"
  /\ result = FRAME_ALLOC_FAILED /\ page_addr # <<>>
  /\ lost' = lost \cup FramesIn(page_addr)
  /\ call_end
  /\ UNCHANGED holds

ialloc_frames_next ==
  /\ Return /\ call.op = "ialloc_frames"
  /\ result # FRAME_ALLOC_FAILED /\ Len(page_addr) + 1 < call.count
  /\ page_addr' = Append(page_addr, Block(result, page_count))
  /\ scan_begin(1)
  /\ UNCHANGED <<call, holds, lost>>

ialloc_frames_return ==
  /\ Return /\ call.op = "ialloc_frames"
  /\ result # FRAME_ALLOC_FAILED /\ Len(page_addr) + 1 >= call.count
  /\ holds' = [holds EXCEPT ![call.client] =
                 Append(page_addr, Block(result, page_count))]
  /\ call_end
  /\ UNCHANGED lost

\* idealloc_frames (and dealloc_kframe, for a list of one).
idealloc_frames(c) ==
  /\ mode = "idle" /\ holds[c] # <<>>
  /\ call' = [op |-> "idealloc_frames", client |-> c]
  /\ page_addr' = holds[c]
  /\ holds' = [holds EXCEPT ![c] = <<>>]
  /\ mode' = "free"
  /\ UNCHANGED <<region_vars, map_vars, boot_vars, scan_vars, region_i, lost>>

Freeing == mode = "free" /\ UNCHANGED <<region_vars, boot_vars, holds>>

\* The list from its second entry on; an entry that is refused ends it.
idealloc_next ==
  /\ Freeing /\ Len(page_addr) > 1
  /\ LET a == page_addr[2]
         rest == <<page_addr[1]>> \o SubSeq(page_addr, 3, Len(page_addr))
     IN IF OutOfRange(a.first, a.first + a.n)
          THEN /\ lost' = lost \cup FramesIn(page_addr)
               /\ call_end
               /\ UNCHANGED map_vars
          ELSE /\ map_dealloc_frame(a.first, a.n)
               /\ page_addr' = rest
               /\ UNCHANGED <<call, mode, lost, scan_vars, region_i>>

\* The first entry is last, because the list is in it.
idealloc_last ==
  /\ Freeing /\ Len(page_addr) = 1
  /\ map_dealloc_frame(page_addr[1].first, page_addr[1].n)
  /\ call_end
  /\ UNCHANGED lost

\* The processor is halted.
Halted == mode \in {"halt", "fault"} /\ UNCHANGED vars

Client ==
  \/ \E c \in Clients, n \in PageRequests : ialloc_kframe(c, n)
  \/ \E c \in Clients, n \in CountRequests : ialloc_frames(c, n)
  \/ \E c \in Clients : idealloc_frames(c)
  \/ ialloc_kframe_return \/ ialloc_frames_first_fails
  \/ ialloc_frames_later_fails \/ ialloc_frames_next \/ ialloc_frames_return
  \/ idealloc_next \/ idealloc_last

Next == Boot \/ Scan \/ Client \/ Halted

Spec == Init /\ [][Next]_vars

-----------------------------------------------------------------------------
(* The boot loader's memory map *)

FirstFrame(e) == frame_up(e.addr)
EndFrame(e) == frame_down(e.addr + e.len)
Usable(e) == e.available /\ EndFrame(e) > FirstFrame(e)
Words(n) == (n + WORD - 1) \div WORD

\* What the code takes for granted of the boot loader's memory map: there is
\* room for its usable entries, and they are in ascending order, none starting
\* in the padding of the bitmap of an earlier one.
OrderlyMaps ==
  \A t \in MmapTags :
    /\ Cardinality({i \in DOMAIN t : Usable(t[i])}) <= MAX_MEM_REGIONS
    /\ \A i, j \in DOMAIN t :
         i < j /\ Usable(t[i]) /\ Usable(t[j]) =>
           FirstFrame(t[i]) + WORD * Words(EndFrame(t[i]) - FirstFrame(t[i]))
             <= FirstFrame(t[j])

\* No usable entry, with its padding, is larger than what 32 bits can count
\* in bytes (4 GiB): beyond, the scan's products wrap.
RegionsIn32Bits ==
  \A t \in MmapTags : \A i \in DOMAIN t : Usable(t[i]) =>
    WORD * Words(EndFrame(t[i]) - FirstFrame(t[i])) * DEFAULT_PAGE_SIZE <= UINT32

-----------------------------------------------------------------------------
(* Properties *)

\* The type of every variable.  That free_frames stays a natural number means
\* that the unsigned subtraction in set_mem_region never wraps.
TypeOK ==
  /\ region_count \in 0..MAX_MEM_REGIONS
  /\ start_addr \in [Regions -> Nat] /\ frames \in [Regions -> Nat]
  /\ bitmap_start_addr \in [Regions -> Nat]
  /\ qword_count \in [Regions -> Nat] /\ free_frames \in [Regions -> Nat]
  /\ boot_free \in [Regions -> Nat]
  /\ bitmap \subseteq Nat /\ boot_bitmap \subseteq Nat
  /\ tag \in MmapTags /\ entry \in 1..(Len(tag) + 1)
  /\ mode \in {"mmap", "zero", "idle", "scan", "return", "free", "halt",
               "fault"}
  /\ region_i \in 0..MAX_MEM_REGIONS
  /\ page_count \in Nat /\ base \in Nat /\ carried_run \in Nat
  /\ run_start \in Nat /\ result \in Nat \cup {FRAME_ALLOC_FAILED}
  /\ call \in {NoCall}
       \cup [op : {"ialloc_kframe", "idealloc_frames"}, client : Clients]
       \cup [op : {"ialloc_frames"}, client : Clients, count : CountRequests]
  /\ page_addr \in Seq([first : Nat, n : Nat])
  /\ holds \in [Clients -> Seq([first : Nat, n : Nat])]
  /\ lost \subseteq Nat

\* Every allocation that somebody holds, or that a call has in its hands,
\* under a name of its own.
Claims == UNION {{<<c, i>> : i \in DOMAIN holds[c]} : c \in Clients}
Claim(k) == holds[k[1]][k[2]]
InHand == {page_addr[i] : i \in DOMAIN page_addr}

\* Two clients never hold the same frame of a region, and what one holds is
\* not in the list another call is still collecting or releasing: the scan
\* only finds frames that set_mem_region has not given to anybody.
NoFrameSharedInRegions ==
  /\ \A j, k \in Claims :
       j # k /\ InsideRegion(Claim(j)) /\ InsideRegion(Claim(k)) =>
         FramesOf(Claim(j)) \cap FramesOf(Claim(k)) = {}
  /\ \A j \in Claims, a \in InHand :
       InsideRegion(Claim(j)) /\ InsideRegion(a) =>
         FramesOf(Claim(j)) \cap FramesOf(a) = {}

\* The kernel image and the bitmap itself are never handed out, if one region
\* contains them.
KernelNeverHandedOut ==
  mode \notin {"mmap", "zero"} /\ Reaches(KernelStart, KernelEnd) =>
    \A k \in Claims : InsideRegion(Claim(k)) =>
      FramesOf(Claim(k)) \cap KernelStart..(KernelEnd - 1) = {}

UsedFrames == lost \cup FramesIn(page_addr)
                   \cup UNION {FramesIn(holds[c]) : c \in Clients}

\* Between calls the counters that make map_alloc_frame_contiguous skip a
\* region, and the bitmap it scans, both agree with what is in use: nothing
\* is released twice, counted twice or left marked.
CountsAgree ==
  mode = "idle" =>
    \A r \in 0..(region_count - 1) :
      LET used == UsedFrames \cap RegionFrames(r)
      IN /\ free_frames[r] = boot_free[r] - Cardinality(used)
         /\ \A f \in RegionFrames(r) :
              bitmap_start_addr[r] + f - start_addr[r] \in bitmap <=>
                \/ f \in used
                \/ bitmap_start_addr[r] + f - start_addr[r] \in boot_bitmap

\* There are n zero bits from offset on in region r.
RunAt(r, offset, n) ==
  /\ offset + n <= WORD * qword_count[r]
  /\ \A b \in offset..(offset + n - 1) :
       bitmap_start_addr[r] + b \notin bitmap

NoRunIn(r, n) == \A o \in 0..(WORD * qword_count[r]) : ~RunAt(r, o, n)

\* The scan with its carried runs is first fit: it returns the lowest run in
\* the first region that has one, and fails only if there is none in any
\* region with enough free frames.
FirstFit ==
  [][mode = "scan" /\ mode' = "return" =>
       LET eligible == {r \in 0..(region_count - 1) :
                          free_frames[r] >= page_count}
       IN IF result' = FRAME_ALLOC_FAILED
            THEN \A r \in eligible : NoRunIn(r, page_count)
            ELSE LET off == result' - start_addr[region_i]
                 IN /\ region_i \in eligible /\ RunAt(region_i, off, page_count)
                    /\ \A o \in 0..(off - 1) : ~RunAt(region_i, o, page_count)
                    /\ \A r \in eligible :
                         r < region_i => NoRunIn(r, page_count)]_vars
=============================================================================
