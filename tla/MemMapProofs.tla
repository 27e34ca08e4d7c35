---------------------------- MODULE MemMapProofs ----------------------------
(***************************************************************************)
(* Theorems about the physical memory manager, for any orderly memory map  *)
(* whose regions 32 bits can count, any width of the bitmap's words up to  *)
(* 64, any clients and requests.                                           *)
(*                                                                         *)
(* The argument: the bitmap of a region is what was marked at boot and the *)
(* frames in use, and these have nothing in common; what is in use is      *)
(* split, without overlap, between what the clients hold, what the call in *)
(* progress has in hand and what is lost.  A scan only returns a run of    *)
(* zero bits, because the run it carries from word to word is one.         *)
(***************************************************************************)
EXTENDS MemMap, OrderLemmas, SequenceTheorems

\* The counters do not wrap while the padding and the kernel are marked.
BootCountsDoNotWrap ==
  /\ mode = "zero" => free_frames \in [Regions -> Nat]
  /\ boot_free \in [Regions -> Nat]

-----------------------------------------------------------------------------
(* The inductive invariant                                                 *)

Booting == mode \in {"mmap", "zero"}
Known == 0..(region_count - 1)

\* The bits of region r in the bitmap, padding included.
Span(r) == WORD * qword_count[r]

\* The regions are in order, in memory and in the bitmap, with their padding,
\* and none has more bytes than 32 bits can count.
RegionInv ==
  /\ region_count = Cardinality({i \in 1..(entry - 1) : Usable(tag[i])})
  /\ \A r \in Known : frames[r] >= 1 /\ frames[r] <= Span(r)
  /\ \A r \in Known : Span(r) * DEFAULT_PAGE_SIZE <= UINT32
  /\ \A q, r \in Known :
       q < r => /\ start_addr[q] + Span(q) <= start_addr[r]
                /\ bitmap_start_addr[q] + Span(q) <= bitmap_start_addr[r]
  /\ mode = "mmap" =>
       \A r \in Known : \A i \in entry..Len(tag) :
         Usable(tag[i]) => start_addr[r] + Span(r) <= FirstFrame(tag[i])

\* What the call in progress has in its hands, and whose call it is.
CallInv ==
  /\ Booting => (\A c \in Clients : holds[c] = <<>>) /\ lost = {}
  /\ mode \notin {"scan", "return", "free"} => page_addr = <<>>
  /\ mode \in {"scan", "return", "free"} =>
       call # NoCall /\ holds[call.client] = <<>>
  /\ mode \in {"scan", "return"} =>
       /\ call.op # "idealloc_frames" /\ page_count >= 1
       /\ call.op = "ialloc_kframe" => page_addr = <<>>
  /\ mode = "free" => page_addr # <<>>

Alloc == [first : Nat, n : Nat]
Inside == {a \in Alloc : InsideRegion(a)}

\* The frames of the allocations in list l that are inside a region (in I).
Covered(I, l) == UNION {FramesOf(l[i]) : i \in {j \in DOMAIN l : l[j] \in I}}

\* No two allocations in list l overlap.
Separate(I, l) ==
  \A i, j \in DOMAIN l :
    i # j /\ l[i] \in I /\ l[j] \in I => FramesOf(l[i]) \cap FramesOf(l[j]) = {}

\* The clients' lists H, the list p of the call in progress, what the scan just
\* found, q, and the lost frames L have nothing in common.
Books(I, H, p, q, L) ==
  /\ \A c \in Clients : Separate(I, H[c])
  /\ \A c, d \in Clients : c # d => Covered(I, H[c]) \cap Covered(I, H[d]) = {}
  /\ \A c \in Clients : /\ Covered(I, H[c]) \cap Covered(I, p) = {}
                        /\ Covered(I, H[c]) \cap Covered(I, q) = {}
                        /\ Covered(I, H[c]) \cap L = {}
  /\ Separate(I, p)
  /\ Covered(I, p) \cap Covered(I, q) = {}
  /\ Covered(I, p) \cap L = {} /\ Covered(I, q) \cap L = {}

InUse(I, H, p, q, L) ==
  L \cup Covered(I, p) \cup Covered(I, q) \cup UNION {Covered(I, H[c]) : c \in Clients}

Pending == IF mode = "return" /\ result # FRAME_ALLOC_FAILED
             THEN <<Block(result, page_count)>> ELSE <<>>
Used == InUse(Inside, holds, page_addr, Pending, lost)

BooksInv == Books(Inside, holds, page_addr, Pending, lost)

\* The bit of frame f of region r.
Bit(r, f) == bitmap_start_addr[r] + f - start_addr[r]

\* The bitmap and the counters agree with the set U of frames in use.
Marks(U) ==
  \A r \in Known :
    /\ \A f \in RegionFrames(r) :
         /\ Bit(r, f) \in bitmap <=> f \in U \/ Bit(r, f) \in boot_bitmap
         /\ ~(f \in U /\ Bit(r, f) \in boot_bitmap)
    /\ free_frames[r] = boot_free[r] - Cardinality(U \cap RegionFrames(r))

MarksInv == ~Booting => Marks(Used)

\* The kernel was marked at boot.
KernelInv ==
  ~Booting /\ Reaches(KernelStart, KernelEnd) =>
    \A r \in Known : \A f \in RegionFrames(r) :
      f \in KernelStart..(KernelEnd - 1) => Bit(r, f) \in boot_bitmap

\* The offsets in region r, from 0 on, that are not free frames or padding.
Marked(r) == {b \in Nat : b >= Span(r) \/ bitmap_start_addr[r] + b \in bitmap}

\* The n offsets from o on are not in Z.
Gap(Z, o, n) == \A b \in o..(o + n - 1) : b \notin Z

\* The c offsets before w are free, and no gap of n starts before them.
Carries(Z, w, c, n) ==
  /\ w \in Nat /\ c \in Nat /\ n \in Nat /\ c < n /\ c <= w
  /\ \A b \in (w - c)..(w - 1) : b \notin Z
  /\ \A o \in 0..(w - c - 1) : ~Gap(Z, o, n)

\* The scan is at the start of a word, with the run that ends there, and has
\* passed over nothing that is long enough.
ScanInv ==
  mode = "scan" =>
    /\ region_i <= region_count
    /\ region_i < region_count =>
         /\ \E k \in 0..qword_count[region_i] : base = WORD * k
         /\ Carries(Marked(region_i), base, carried_run, page_count)
         /\ carried_run > 0 => run_start = base - carried_run
    /\ \A r \in 0..(region_i - 1) : free_frames[r] >= page_count => NoRunIn(r, page_count)

Inv == /\ TypeOK /\ RegionInv /\ CallInv /\ BooksInv /\ MarksInv /\ KernelInv
       /\ ScanInv

-----------------------------------------------------------------------------
(* Arithmetic of frames and words                                          *)

\* Frame numbers of addresses are naturals.
LEMMA FrameType ==
  ASSUME NEW a \in Nat
  PROVE  frame_down(a) \in Nat /\ frame_up(a) \in Nat
BY MemMapAssumption DEF frame_down, frame_up

\* The words of a region have a bit for each of its frames.
LEMMA WordsCover ==
  ASSUME NEW n \in Nat
  PROVE  Words(n) \in Nat /\ n <= WORD * Words(n)
BY MemMapAssumption DEF Words

\* A word before the last ends before the last begins.
LEMMA WordStep ==
  ASSUME NEW k \in Nat, NEW q \in Nat, k < q
  PROVE  WORD * k + WORD <= WORD * q /\ WORD * (k + 1) = WORD * k + WORD
BY MemMapAssumption

\* Products with the width of a word are naturals, and in the order of their
\* factors.
LEMMA WordProduct ==
  ASSUME NEW k \in Nat, NEW q \in Nat
  PROVE  /\ WORD * k \in Nat /\ (WORD * k = 0 <=> k = 0)
         /\ WORD * k < WORD * q <=> k < q
         /\ WORD * k = WORD * q <=> k = q
BY MemMapAssumption

\* A product with the size of a frame grows with its other factor.
LEMMA Bytes ==
  ASSUME NEW s \in Nat, NEW n \in Nat
  PROVE  /\ n * DEFAULT_PAGE_SIZE \in Nat
         /\ n <= s => n * DEFAULT_PAGE_SIZE <= s * DEFAULT_PAGE_SIZE
         /\ n < s => n * DEFAULT_PAGE_SIZE < s * DEFAULT_PAGE_SIZE
         /\ s > 0 => s < s * DEFAULT_PAGE_SIZE
         /\ (n * DEFAULT_PAGE_SIZE) \div DEFAULT_PAGE_SIZE = n
BY MemMapAssumption

\* Inside a region that 32 bits can count, neither the numbers of frames nor
\* their products with the size of a frame wrap.
LEMMA In32Bits ==
  ASSUME NEW s \in Nat, s * DEFAULT_PAGE_SIZE <= UINT32, NEW n \in Nat, n <= s
  PROVE  /\ u32(n) = n /\ n % (8 * UINT32) = n /\ n % (WORD * UINT32) = n
         /\ n < s => page_offset(n) = n
<1>1. UINT32 \in Nat \ {0} /\ WORD \in Nat \ {0}
  BY MemMapAssumption
<1>2. n < UINT32
  <2>1. s = 0 \/ s < s * DEFAULT_PAGE_SIZE
    BY Bytes
  <2> QED BY <1>1, <2>1, Bytes
<1>3. UINT32 <= WORD * UINT32 /\ WORD * UINT32 \in Nat \ {0}
  BY <1>1
<1>4. u32(n) = n /\ n % (8 * UINT32) = n /\ n % (WORD * UINT32) = n
  BY <1>1, <1>2, <1>3 DEF u32
<1>5. ASSUME n < s PROVE page_offset(n) = n
  <2>1. n * DEFAULT_PAGE_SIZE \in Nat /\ n * DEFAULT_PAGE_SIZE < UINT32
    BY <1>1, <1>5, Bytes
  <2>2. u32(n * DEFAULT_PAGE_SIZE) = n * DEFAULT_PAGE_SIZE
    BY <1>1, <2>1 DEF u32
  <2> QED BY <2>2, Bytes DEF page_offset
<1> QED BY <1>4, <1>5

-----------------------------------------------------------------------------
(* find_run_in_word                                                        *)

\* The starts of the runs of k bits of the set free.
RunsOf(free, k) == {b \in free : \A j \in 0..(k - 1) : b + j \in free}

\* Shifting and masking runs of k bits by up to k makes runs of k + j.
LEMMA ShiftRuns ==
  ASSUME NEW free \in SUBSET Nat, NEW k \in Nat \ {0}, NEW j \in 1..k
  PROVE  AndShifted(RunsOf(free, k), j) = RunsOf(free, k + j)
<1>1. ASSUME NEW b \in free
      PROVE  b \in AndShifted(RunsOf(free, k), j) <=> b \in RunsOf(free, k + j)
  <2>1. b \in Nat
    OBVIOUS
  <2>2. ASSUME b \in AndShifted(RunsOf(free, k), j), NEW i \in 0..(k + j - 1)
        PROVE  b + i \in free
    <3>1. b \in RunsOf(free, k) /\ b + j \in RunsOf(free, k)
      BY <2>2 DEF AndShifted
    <3>2. CASE i < k
      BY <3>1, <3>2 DEF RunsOf
    <3>3. CASE i >= k
      <4>1. i - j \in 0..(k - 1) /\ (b + j) + (i - j) = b + i
        BY <2>1, <3>3
      <4>2. (b + j) + (i - j) \in free
        BY <3>1, <4>1 DEF RunsOf
      <4> QED BY <4>1, <4>2
    <3> QED BY <3>2, <3>3
  <2>3. ASSUME b \in RunsOf(free, k + j)
        PROVE  b \in AndShifted(RunsOf(free, k), j)
    <3>1. \A i \in 0..(k + j - 1) : b + i \in free
      BY <2>3 DEF RunsOf
    <3>2. b \in RunsOf(free, k)
      BY <3>1 DEF RunsOf
    <3>3. b + j \in free
      BY <3>1
    <3>4. ASSUME NEW i \in 0..(k - 1) PROVE (b + j) + i \in free
      <4>1. j + i \in 0..(k + j - 1) /\ (b + j) + i = b + (j + i)
        BY <2>1
      <4> QED BY <3>1, <4>1
    <3>5. b + j \in RunsOf(free, k)
      BY <3>3, <3>4 DEF RunsOf
    <3> QED BY <3>2, <3>5 DEF AndShifted
  <2> QED BY <2>2, <2>3 DEF RunsOf
<1> QED BY <1>1 DEF AndShifted, RunsOf

\* One round of the loop.
LEMMA Round ==
  ASSUME NEW free \in SUBSET Nat, NEW k \in Nat \ {0}, NEW n \in Nat
  PROVE  doubled(RunsOf(free, k), k, n) = RunsOf(free, IF 2 * k <= n THEN 2 * k ELSE k)
<1>1. AndShifted(RunsOf(free, k), k) = RunsOf(free, k + k) /\ k + k = 2 * k
  BY ShiftRuns
<1> QED BY <1>1 DEF doubled

\* A round that is not reached does nothing.
LEMMA NoRound ==
  ASSUME NEW mask, NEW c \in Nat, NEW n \in Nat, 2 * c > n
  PROVE  doubled(mask, c, n) = mask
BY DEF doubled

\* The doubling loop of find_run_in_word, with its last shift, finds exactly
\* the runs that are long enough, for every length up to 64.
LEMMA RunStarts ==
  ASSUME NEW free \in SUBSET Nat, NEW n \in 1..64
  PROVE  run_starts(free, n) = RunsOf(free, n)
<1> DEFINE m2  == doubled(free, 1, n)
           m4  == doubled(m2, 2, n)
           m8  == doubled(m4, 4, n)
           m16 == doubled(m8, 8, n)
           m32 == doubled(m16, 16, n)
           m64 == doubled(m32, 32, n)
<1> HIDE DEF m2, m4, m8, m16, m32, m64
<1>0. free = RunsOf(free, 1)
  BY DEF RunsOf
<1>1. m2 = RunsOf(free, IF 2 <= n THEN 2 ELSE 1)
  BY <1>0, Round DEF m2
<1>2. m4 = RunsOf(free, IF 4 <= n THEN 4 ELSE IF 2 <= n THEN 2 ELSE 1)
  BY <1>1, Round, NoRound DEF m4
<1>3. m8 = IF 8 <= n THEN RunsOf(free, 8) ELSE m4
  BY <1>2, Round, NoRound DEF m8
<1>4. m16 = IF 16 <= n THEN RunsOf(free, 16) ELSE m8
  BY <1>3, Round, NoRound DEF m16
<1>5. m32 = IF 32 <= n THEN RunsOf(free, 32) ELSE m16
  BY <1>4, Round, NoRound DEF m32
<1>6. m64 = IF 64 <= n THEN RunsOf(free, 64) ELSE m32
  BY <1>5, Round, NoRound DEF m64
<1>7. PICK c \in {1, 2, 4, 8, 16, 32, 64} : c = final_covered(n) /\ c <= n /\ 2 * c > n
  <2>1. \E c \in {1, 2, 4, 8, 16, 32, 64} : (c <= n \/ c = 1) /\ (c = 64 \/ 2 * c > n)
    OBVIOUS
  <2>2. /\ final_covered(n) \in {1, 2, 4, 8, 16, 32, 64}
        /\ (final_covered(n) <= n \/ final_covered(n) = 1)
        /\ (final_covered(n) = 64 \/ 2 * final_covered(n) > n)
    BY <2>1, Zenon DEF final_covered
  <2> QED BY <2>2
<1>8. m64 = RunsOf(free, c)
  BY <1>1, <1>2, <1>3, <1>4, <1>5, <1>6, <1>7
<1>9. run_starts(free, n) = IF c < n THEN AndShifted(m64, n - c) ELSE m64
  BY <1>7 DEF run_starts, m2, m4, m8, m16, m32, m64
<1>10. CASE c < n
  <2>1. n - c \in 1..c /\ c + (n - c) = n
    BY <1>7, <1>10
  <2> QED BY <1>8, <1>9, <1>10, <2>1, ShiftRuns
<1>11. CASE ~(c < n)
  <2>1. c = n
    BY <1>7, <1>11
  <2> QED BY <1>8, <1>9, <1>11, <2>1
<1> QED BY <1>10, <1>11

-----------------------------------------------------------------------------
(* The books: what an operation of a client does to them                   *)

\* The frames that a list covers, by its entries.
LEMMA CoveredIs ==
  ASSUME NEW I, NEW l, NEW x
  PROVE  x \in Covered(I, l) <=> \E i \in DOMAIN l : l[i] \in I /\ x \in FramesOf(l[i])
BY DEF Covered

\* An empty list covers nothing.
LEMMA CoveredEmpty ==
  ASSUME NEW I
  PROVE  Covered(I, <<>>) = {} /\ Separate(I, <<>>)
BY DEF Covered, Separate

\* A list of one.
LEMMA CoveredOne ==
  ASSUME NEW I, NEW a
  PROVE  Covered(I, <<a>>) = IF a \in I THEN FramesOf(a) ELSE {}
<1>1. DOMAIN <<a>> = {1} /\ <<a>>[1] = a
  OBVIOUS
<1> QED BY <1>1, CoveredIs

\* An entry more.
LEMMA CoveredAppend ==
  ASSUME NEW I, NEW l \in Seq(Alloc), NEW a \in Alloc
  PROVE  /\ Covered(I, Append(l, a)) = Covered(I, l) \cup Covered(I, <<a>>)
         /\ Separate(I, l) /\ Covered(I, l) \cap Covered(I, <<a>>) = {} =>
              Separate(I, Append(l, a))
<1>1. /\ DOMAIN l = 1..Len(l) /\ Len(l) \in Nat /\ DOMAIN Append(l, a) = 1..(Len(l) + 1)
      /\ \A i \in 1..Len(l) : Append(l, a)[i] = l[i]
      /\ Append(l, a)[Len(l) + 1] = a
  OBVIOUS
<1> PICK m : m = Append(l, a)
  OBVIOUS
<1>2. \A i \in DOMAIN m : (i \in DOMAIN l /\ m[i] = l[i]) \/ (i \notin DOMAIN l /\ m[i] = a)
  BY <1>1
<1>3. (\E i \in DOMAIN m : i \notin DOMAIN l /\ m[i] = a) /\ \A i \in DOMAIN l : i \in DOMAIN m
  BY <1>1
<1>4. Covered(I, m) = Covered(I, l) \cup Covered(I, <<a>>)
  <2>1. ASSUME NEW x
        PROVE  x \in Covered(I, m) <=> x \in Covered(I, l) \/ (a \in I /\ x \in FramesOf(a))
    <3>1. x \in Covered(I, m) <=> \E i \in DOMAIN m : m[i] \in I /\ x \in FramesOf(m[i])
      BY CoveredIs
    <3>2. x \in Covered(I, l) <=> \E i \in DOMAIN l : l[i] \in I /\ x \in FramesOf(l[i])
      BY CoveredIs
    <3> QED BY <1>2, <1>3, <3>1, <3>2
  <2> QED BY <2>1, CoveredOne
<1>5. ASSUME Separate(I, l), Covered(I, l) \cap Covered(I, <<a>>) = {}
      PROVE  Separate(I, m)
  <2>1. \A i \in DOMAIN l : l[i] \in I /\ a \in I => FramesOf(l[i]) \cap FramesOf(a) = {}
    BY <1>5, CoveredIs, CoveredOne
  <2>2. \A i, j \in DOMAIN m : i \notin DOMAIN l /\ j \notin DOMAIN l => i = j
    BY <1>1
  <2>3. ASSUME NEW i \in DOMAIN m, NEW j \in DOMAIN m, i # j, m[i] \in I, m[j] \in I
        PROVE  FramesOf(m[i]) \cap FramesOf(m[j]) = {}
    BY <1>2, <1>5, <2>1, <2>2, <2>3 DEF Separate
  <2> QED BY <2>3 DEF Separate
<1> QED BY <1>4, <1>5

\* The list without its second entry.
DropSecond(l) == <<l[1]>> \o SubSeq(l, 3, Len(l))

\* Its entries.
LEMMA DropSecondIs ==
  ASSUME NEW l \in Seq(Alloc), Len(l) > 1
  PROVE  /\ DropSecond(l) \in Seq(Alloc) /\ Len(DropSecond(l)) = Len(l) - 1
         /\ DropSecond(l)[1] = l[1]
         /\ \A i \in 2..(Len(l) - 1) : DropSecond(l)[i] = l[i + 1]
<1>1. Len(l) \in Nat /\ l[1] \in Alloc
  OBVIOUS
<1>2. PICK t : t = SubSeq(l, 3, Len(l))
  OBVIOUS
<1>3. t \in Seq(Alloc) /\ Len(t) = Len(l) - 2 /\ \A i \in 1..Len(t) : t[i] = l[i + 2]
  <2>1. \A i \in 3..Len(l) : l[i] \in Alloc
    OBVIOUS
  <2>2. /\ t \in Seq(Alloc) /\ Len(t) = IF 3 <= Len(l) THEN Len(l) - 3 + 1 ELSE 0
        /\ \A i \in 1..(Len(l) - 3 + 1) : t[i] = l[3 + i - 1]
    BY <1>1, <1>2, <2>1, SubSeqProperties
  <2>3. Len(t) = Len(l) - 2
    <3>1. CASE Len(l) >= 3
      BY <1>1, <2>2, <3>1
    <3>2. CASE Len(l) = 2
      BY <2>2, <3>2
    <3>3. \A n \in Nat : n > 1 => n = 2 \/ n >= 3
      OBVIOUS
    <3> QED BY <1>1, <3>1, <3>2, <3>3
  <2>4. ASSUME NEW i \in 1..Len(t) PROVE t[i] = l[i + 2]
    <3>1. i \in 1..(Len(l) - 3 + 1) /\ 3 + i - 1 = i + 2
      BY <1>1, <2>3
    <3> QED BY <2>2, <3>1
  <2> QED BY <2>2, <2>3, <2>4
<1>4. <<l[1]>> \in Seq(Alloc) /\ Len(<<l[1]>>) = 1
  BY <1>1
<1>5. PICK d : d = <<l[1]>> \o t
  OBVIOUS
<1>6. /\ d \in Seq(Alloc) /\ Len(d) = 1 + Len(t) /\ d[1] = l[1]
      /\ \A i \in 2..(1 + Len(t)) : d[i] = t[i - 1]
  BY <1>1, <1>3, <1>4, <1>5
<1>7. \A i \in 2..(Len(l) - 1) : d[i] = l[i + 1]
  <2> TAKE i \in 2..(Len(l) - 1)
  <2>1. i - 1 \in 1..Len(t) /\ i \in 2..(1 + Len(t)) /\ (i - 1) + 2 = i + 1
    BY <1>1, <1>3
  <2> QED BY <1>3, <1>6, <2>1
<1>8. DropSecond(l) = d
  BY <1>2, <1>5 DEF DropSecond
<1> QED BY <1>1, <1>3, <1>6, <1>7, <1>8

\* An entry less: the list covers what it did, without that entry.
LEMMA CoveredDrop ==
  ASSUME NEW I, NEW l \in Seq(Alloc), Len(l) > 1, Separate(I, l)
  PROVE  /\ Covered(I, DropSecond(l)) = Covered(I, l) \ Covered(I, <<l[2]>>)
         /\ Separate(I, DropSecond(l))
<1> DEFINE at(i) == IF i = 1 THEN 1 ELSE i + 1
<1> PICK m : m = DropSecond(l)
  OBVIOUS
<1>1. Len(l) \in Nat /\ DOMAIN l = 1..Len(l) /\ DOMAIN m = 1..(Len(l) - 1)
  BY DropSecondIs
<1>2. \A i \in DOMAIN m : at(i) \in DOMAIN l /\ at(i) # 2 /\ m[i] = l[at(i)]
  BY <1>1, DropSecondIs
<1>3. \A k \in DOMAIN l : k # 2 => \E i \in DOMAIN m : at(i) = k
  <2> TAKE k \in DOMAIN l
  <2>1. CASE k = 1
    BY <1>1, <2>1
  <2>2. CASE k > 2
    <3>1. k - 1 \in DOMAIN m /\ at(k - 1) = k
      BY <1>1, <2>2
    <3> QED BY <3>1
  <2> QED BY <1>1, <2>1, <2>2
<1>4. \A i, j \in DOMAIN m : i # j => at(i) # at(j)
  BY <1>1
<1>5. 2 \in DOMAIN l
  BY <1>1
<1> HIDE DEF at
<1>6. Separate(I, m)
  BY <1>2, <1>4 DEF Separate
<1>7. ASSUME NEW x
      PROVE  x \in Covered(I, m) <=> x \in Covered(I, l) /\ x \notin Covered(I, <<l[2]>>)
  <2>1. x \in Covered(I, m) <=> \E k \in DOMAIN l : k # 2 /\ l[k] \in I /\ x \in FramesOf(l[k])
    BY <1>2, <1>3, CoveredIs
  <2>2. x \in Covered(I, l) <=> \E k \in DOMAIN l : l[k] \in I /\ x \in FramesOf(l[k])
    BY CoveredIs
  <2>3. x \in Covered(I, <<l[2]>>) <=> l[2] \in I /\ x \in FramesOf(l[2])
    BY CoveredOne
  <2>4. \A k \in DOMAIN l : k # 2 /\ l[k] \in I /\ l[2] \in I =>
          ~(x \in FramesOf(l[k]) /\ x \in FramesOf(l[2]))
    BY <1>5 DEF Separate
  <2> QED BY <1>5, <2>1, <2>2, <2>3, <2>4
<1> QED BY <1>6, <1>7

\* The scan found frames that nobody uses.
LEMMA BooksFound ==
  ASSUME NEW I, NEW H, NEW p, NEW L, NEW a, Books(I, H, p, <<>>, L),
         Covered(I, <<a>>) \cap InUse(I, H, p, <<>>, L) = {}
  PROVE  /\ Books(I, H, p, <<a>>, L)
         /\ InUse(I, H, p, <<a>>, L) = InUse(I, H, p, <<>>, L) \cup Covered(I, <<a>>)
BY CoveredEmpty DEF Books, InUse

\* They are added to the list of the call ...
LEMMA BooksCollect ==
  ASSUME NEW I, NEW H, NEW p \in Seq(Alloc), NEW L, NEW a \in Alloc,
         Books(I, H, p, <<a>>, L)
  PROVE  /\ Books(I, H, Append(p, a), <<>>, L)
         /\ InUse(I, H, Append(p, a), <<>>, L) = InUse(I, H, p, <<a>>, L)
<1>1. Covered(I, <<>>) = {}
  BY CoveredEmpty
<1>2. /\ Covered(I, Append(p, a)) = Covered(I, p) \cup Covered(I, <<a>>)
      /\ Separate(I, Append(p, a))
  BY CoveredAppend DEF Books
<1>3. Books(I, H, Append(p, a), <<>>, L)
  BY <1>1, <1>2 DEF Books
<1>4. InUse(I, H, Append(p, a), <<>>, L) = InUse(I, H, p, <<a>>, L)
  BY <1>1, <1>2 DEF InUse
<1> QED BY <1>3, <1>4

\* ... which is returned to the client ...
LEMMA BooksGive ==
  ASSUME NEW I, NEW H, NEW G, NEW p, NEW L, NEW c \in Clients, H[c] = <<>>, G[c] = p,
         \A d \in Clients : d # c => G[d] = H[d], Books(I, H, p, <<>>, L)
  PROVE  /\ Books(I, G, <<>>, <<>>, L)
         /\ InUse(I, G, <<>>, <<>>, L) = InUse(I, H, p, <<>>, L)
<1>2. Covered(I, <<>>) = {} /\ Separate(I, <<>>)
  BY CoveredEmpty
<1>3. UNION {Covered(I, G[d]) : d \in Clients}
        = Covered(I, p) \cup UNION {Covered(I, H[d]) : d \in Clients}
  <2>1. ASSUME NEW x
        PROVE  (\E d \in Clients : x \in Covered(I, G[d])) <=>
                 x \in Covered(I, p) \/ \E d \in Clients : x \in Covered(I, H[d])
    BY <1>2
  <2> QED BY <2>1
<1>4. Books(I, G, <<>>, <<>>, L)
  BY <1>2 DEF Books
<1>5. InUse(I, G, <<>>, <<>>, L) = InUse(I, H, p, <<>>, L)
  BY <1>2, <1>3 DEF InUse
<1> QED BY <1>4, <1>5

\* ... or taken from it to be released.
LEMMA BooksTake ==
  ASSUME NEW I, NEW H, NEW G, NEW L, NEW c \in Clients, G[c] = <<>>,
         \A d \in Clients : d # c => G[d] = H[d], Books(I, H, <<>>, <<>>, L)
  PROVE  /\ Books(I, G, H[c], <<>>, L)
         /\ InUse(I, G, H[c], <<>>, L) = InUse(I, H, <<>>, <<>>, L)
<1>2. Covered(I, <<>>) = {} /\ Separate(I, <<>>)
  BY CoveredEmpty
<1>3. Covered(I, H[c]) \cup UNION {Covered(I, G[d]) : d \in Clients}
        = UNION {Covered(I, H[d]) : d \in Clients}
  <2>1. ASSUME NEW x
        PROVE  x \in Covered(I, H[c]) \/ (\E d \in Clients : x \in Covered(I, G[d])) <=>
                 \E d \in Clients : x \in Covered(I, H[d])
    BY <1>2
  <2> QED BY <2>1
<1>4. Books(I, G, H[c], <<>>, L)
  BY <1>2 DEF Books
<1>5. InUse(I, G, H[c], <<>>, L) = InUse(I, H, <<>>, <<>>, L)
  BY <1>2, <1>3 DEF InUse
<1> QED BY <1>4, <1>5

\* A list nobody can return any more is lost.
LEMMA BooksLose ==
  ASSUME NEW I, NEW H, NEW p, NEW L, Books(I, H, p, <<>>, L)
  PROVE  /\ Books(I, H, <<>>, <<>>, L \cup Covered(I, p))
         /\ InUse(I, H, <<>>, <<>>, L \cup Covered(I, p)) = InUse(I, H, p, <<>>, L)
BY CoveredEmpty DEF Books, InUse

\* A list q that covers less than p does: the difference is released.
LEMMA BooksDrop ==
  ASSUME NEW I, NEW H, NEW p, NEW q, NEW L, Books(I, H, p, <<>>, L),
         Separate(I, q), \A x : x \in Covered(I, q) => x \in Covered(I, p)
  PROVE  /\ Books(I, H, q, <<>>, L)
         /\ InUse(I, H, q, <<>>, L)
              = InUse(I, H, p, <<>>, L) \ (Covered(I, p) \ Covered(I, q))
<1> PICK X : X = Covered(I, p) \ Covered(I, q)
  OBVIOUS
<1>1. Covered(I, <<>>) = {}
  BY CoveredEmpty
<1>2. \A c \in Clients : Covered(I, H[c]) \cap X = {}
  BY DEF Books
<1>3. PICK U : U = UNION {Covered(I, H[d]) : d \in Clients}
  OBVIOUS
<1>4. U \cap X = {} /\ L \cap X = {}
  <2>1. ASSUME NEW x \in U PROVE x \notin X
    <3>1. PICK d \in Clients : x \in Covered(I, H[d])
      BY <1>3, <2>1
    <3> QED BY <1>2, <3>1
  <2>2. L \cap X = {}
    BY DEF Books
  <2> QED BY <2>1, <2>2
<1>5. Books(I, H, q, <<>>, L)
  BY <1>1 DEF Books
<1>6. InUse(I, H, q, <<>>, L) = InUse(I, H, p, <<>>, L) \ X
  <2>1. /\ InUse(I, H, q, <<>>, L) = L \cup Covered(I, q) \cup U
        /\ InUse(I, H, p, <<>>, L) = L \cup Covered(I, p) \cup U
    BY <1>1, <1>3 DEF InUse
  <2> QED BY <1>4, <2>1
<1> QED BY <1>5, <1>6

-----------------------------------------------------------------------------
(* Regions, their frames and their bits                                    *)

\* A known region, with the types of its fields.
LEMMA KnownType ==
  ASSUME TypeOK, RegionInv, NEW r \in Known
  PROVE  /\ r \in Regions /\ r \in Nat
         /\ start_addr[r] \in Nat /\ frames[r] \in Nat /\ bitmap_start_addr[r] \in Nat
         /\ qword_count[r] \in Nat /\ free_frames[r] \in Nat /\ boot_free[r] \in Nat
         /\ Span(r) \in Nat /\ frames[r] <= Span(r)
         /\ RegionFrames(r) = start_addr[r]..(start_addr[r] + frames[r] - 1)
<1>1. r \in Regions /\ r \in Nat
  BY MemMapAssumption DEF TypeOK, Known, Regions
<1>2. qword_count[r] \in Nat
  BY <1>1 DEF TypeOK
<1>3. Span(r) \in Nat
  BY <1>2, WordProduct DEF Span
<1> QED BY <1>1, <1>2, <1>3 DEF TypeOK, RegionInv, RegionFrames, RegionEnd

\* A bit belongs to one frame of one region.
LEMMA BitsApart ==
  ASSUME TypeOK, RegionInv, NEW q \in Known, NEW r \in Known, NEW f \in RegionFrames(q),
         NEW first \in Nat, NEW n \in Int, Contains(r, first, first + n)
  PROVE  Bit(q, f) \in BitsOf(r, first, n) <=> q = r /\ f \in first..(first + n - 1)
<1>1. /\ q \in Nat /\ start_addr[q] \in Nat /\ frames[q] \in Nat
      /\ bitmap_start_addr[q] \in Nat /\ Span(q) \in Nat /\ frames[q] <= Span(q)
      /\ f \in start_addr[q]..(start_addr[q] + frames[q] - 1)
  BY KnownType
<1>2. /\ r \in Nat /\ start_addr[r] \in Nat /\ frames[r] \in Nat
      /\ bitmap_start_addr[r] \in Nat /\ Span(r) \in Nat /\ frames[r] <= Span(r)
  BY KnownType
<1>3. start_addr[r] <= first /\ first + n <= start_addr[r] + frames[r]
  BY DEF Contains, RegionEnd
<1>4. CASE q = r
  BY <1>1, <1>2, <1>3, <1>4 DEF Bit, BitsOf
<1>5. CASE q < r
  <2>1. bitmap_start_addr[q] + Span(q) <= bitmap_start_addr[r]
    BY <1>5 DEF RegionInv
  <2> QED BY <1>1, <1>2, <1>3, <1>5, <2>1 DEF Bit, BitsOf
<1>6. CASE r < q
  <2>1. bitmap_start_addr[r] + Span(r) <= bitmap_start_addr[q]
    BY <1>6 DEF RegionInv
  <2> QED BY <1>1, <1>2, <1>3, <1>6, <2>1 DEF Bit, BitsOf
<1> QED BY <1>1, <1>2, <1>4, <1>5, <1>6

\* A frame belongs to one region.
LEMMA FramesApart ==
  ASSUME TypeOK, RegionInv, NEW q \in Known, NEW r \in Known,
         RegionFrames(q) \cap RegionFrames(r) # {}
  PROVE  q = r
<1>1. /\ q \in Nat /\ start_addr[q] \in Nat /\ frames[q] \in Nat
      /\ Span(q) \in Nat /\ frames[q] <= Span(q)
      /\ RegionFrames(q) = start_addr[q]..(start_addr[q] + frames[q] - 1)
  BY KnownType
<1>2. /\ r \in Nat /\ start_addr[r] \in Nat /\ frames[r] \in Nat
      /\ Span(r) \in Nat /\ frames[r] <= Span(r)
      /\ RegionFrames(r) = start_addr[r]..(start_addr[r] + frames[r] - 1)
  BY KnownType
<1>3. /\ q < r => start_addr[q] + Span(q) <= start_addr[r]
      /\ r < q => start_addr[r] + Span(r) <= start_addr[q]
  BY DEF RegionInv
<1>4. PICK f : f \in RegionFrames(q) /\ f \in RegionFrames(r)
  OBVIOUS
<1>5. /\ f \in Int /\ start_addr[q] <= f /\ f < start_addr[q] + frames[q]
      /\ start_addr[r] <= f /\ f < start_addr[r] + frames[r]
  <2>1. f \in start_addr[q]..(start_addr[q] + frames[q] - 1)
    BY <1>1, <1>4
  <2>2. f \in start_addr[r]..(start_addr[r] + frames[r] - 1)
    BY <1>2, <1>4
  <2>3. /\ start_addr[q] \in Nat /\ frames[q] \in Nat
        /\ start_addr[r] \in Nat /\ frames[r] \in Nat
    BY <1>1, <1>2
  <2> QED BY <2>1, <2>2, <2>3
<1>6. /\ q \in Nat /\ start_addr[q] \in Nat /\ frames[q] \in Nat /\ Span(q) \in Nat
      /\ r \in Nat /\ start_addr[r] \in Nat /\ frames[r] \in Nat /\ Span(r) \in Nat
      /\ frames[q] <= Span(q) /\ frames[r] <= Span(r)
  BY <1>1, <1>2
<1>7. ~(q < r)
  BY <1>3, <1>5, <1>6
<1>8. ~(r < q)
  BY <1>3, <1>5, <1>6
<1> QED BY <1>6, <1>7, <1>8

\* A region has finitely many frames.
LEMMA RegionFinite ==
  ASSUME TypeOK, RegionInv, NEW r \in Known, NEW U
  PROVE  /\ IsFiniteSet(U \cap RegionFrames(r))
         /\ Cardinality(U \cap RegionFrames(r)) \in Nat
<1>1. /\ start_addr[r] \in Int /\ start_addr[r] + frames[r] - 1 \in Int
      /\ RegionFrames(r) = start_addr[r]..(start_addr[r] + frames[r] - 1)
  BY KnownType
<1>2. IsFiniteSet(RegionFrames(r))
  BY <1>1, FS_Interval
<1>3. U \cap RegionFrames(r) \subseteq RegionFrames(r)
  OBVIOUS
<1>4. IsFiniteSet(U \cap RegionFrames(r))
  BY <1>2, <1>3, FS_Subset
<1> QED BY <1>4, FS_CardinalityType

\* The size of a block, and of the part of it in a region.
LEMMA BlockSize ==
  ASSUME TypeOK, RegionInv, NEW a \in Alloc, NEW q \in Known, NEW r \in Known,
         Contains(r, a.first, a.first + a.n)
  PROVE  /\ IsFiniteSet(FramesOf(a)) /\ Cardinality(FramesOf(a)) = a.n
         /\ FramesOf(a) \subseteq RegionFrames(r)
         /\ FramesOf(a) \cap RegionFrames(q) = IF q = r THEN FramesOf(a) ELSE {}
<1>1. a.first \in Nat /\ a.n \in Nat
  BY DEF Alloc
<1>2. IsFiniteSet(FramesOf(a)) /\ Cardinality(FramesOf(a)) = a.n
  <2>1. PICK lo, hi \in Int : lo = a.first /\ hi = a.first + a.n - 1
    BY <1>1
  <2>2. IsFiniteSet(lo..hi) /\ Cardinality(lo..hi) = IF lo > hi THEN 0 ELSE hi - lo + 1
    BY FS_Interval
  <2>3. (IF lo > hi THEN 0 ELSE hi - lo + 1) = a.n
    BY <1>1, <2>1
  <2> QED BY <2>1, <2>2, <2>3 DEF FramesOf
<1>3. FramesOf(a) \subseteq RegionFrames(r)
  <2>1. start_addr[r] <= a.first /\ a.first + a.n <= start_addr[r] + frames[r]
    BY DEF Contains, RegionEnd
  <2>2. start_addr[r] \in Nat /\ frames[r] \in Nat
    BY KnownType
  <2>3. RegionFrames(r) = start_addr[r]..(start_addr[r] + frames[r] - 1)
    BY KnownType
  <2>4. ASSUME NEW f \in FramesOf(a) PROVE f \in RegionFrames(r)
    <3>1. f \in Int /\ a.first <= f /\ f <= a.first + a.n - 1
      BY <1>1 DEF FramesOf
    <3>2. start_addr[r] <= f /\ f <= start_addr[r] + frames[r] - 1
      BY ONLY <1>1, <2>1, <2>2, <3>1
    <3> QED BY <2>2, <2>3, <3>1, <3>2
  <2> QED BY <2>4
<1> QED BY <1>2, <1>3, FramesApart

\* What set_mem_region does to a block nobody uses, in the region it finds.
LEMMA MarkBlock ==
  ASSUME TypeOK, RegionInv, UNCHANGED region_vars, UNCHANGED <<boot_free, boot_bitmap>>,
         NEW U, Marks(U), NEW a \in Alloc, FramesOf(a) \cap U = {},
         NEW r \in Known, Contains(r, a.first, a.first + a.n),
         \A f \in FramesOf(a) : Bit(r, f) \notin bitmap,
         free_frames' = [free_frames EXCEPT ![r] = @ - a.n],
         bitmap' = bitmap \cup BitsOf(r, a.first, a.n)
  PROVE  Marks(U \cup FramesOf(a))'
<1>1. a.first \in Nat /\ a.n \in Nat
  BY DEF Alloc
<1>2. SUFFICES ASSUME NEW q \in Known
               PROVE  /\ \A f \in RegionFrames(q) :
                           /\ Bit(q, f) \in bitmap' <=>
                                f \in U \cup FramesOf(a) \/ Bit(q, f) \in boot_bitmap
                           /\ ~(f \in U \cup FramesOf(a) /\ Bit(q, f) \in boot_bitmap)
                      /\ free_frames'[q] = boot_free[q]
                           - Cardinality((U \cup FramesOf(a)) \cap RegionFrames(q))
  BY DEF Marks, region_vars, Known, RegionFrames, RegionEnd, Bit
<1>3. /\ IsFiniteSet(FramesOf(a)) /\ Cardinality(FramesOf(a)) = a.n
      /\ FramesOf(a) \subseteq RegionFrames(r)
      /\ FramesOf(a) \cap RegionFrames(q) = IF q = r THEN FramesOf(a) ELSE {}
  BY BlockSize
<1>4. /\ \A f \in RegionFrames(q) :
           /\ Bit(q, f) \in bitmap <=> f \in U \/ Bit(q, f) \in boot_bitmap
           /\ ~(f \in U /\ Bit(q, f) \in boot_bitmap)
      /\ free_frames[q] = boot_free[q] - Cardinality(U \cap RegionFrames(q))
  BY DEF Marks
<1>5. ASSUME NEW f \in RegionFrames(q)
      PROVE  /\ Bit(q, f) \in bitmap' <=>
                  f \in U \cup FramesOf(a) \/ Bit(q, f) \in boot_bitmap
             /\ ~(f \in U \cup FramesOf(a) /\ Bit(q, f) \in boot_bitmap)
  <2>1. Bit(q, f) \in BitsOf(r, a.first, a.n) <=> q = r /\ f \in FramesOf(a)
    BY <1>1, BitsApart DEF FramesOf
  <2>2. f \in FramesOf(a) => q = r
    BY <1>3
  <2> QED BY <1>4, <2>1, <2>2
<1>6. free_frames'[q] = IF q = r THEN free_frames[q] - a.n ELSE free_frames[q]
  BY KnownType DEF TypeOK
<1>7. Cardinality((U \cup FramesOf(a)) \cap RegionFrames(q))
        = Cardinality(U \cap RegionFrames(q)) + (IF q = r THEN a.n ELSE 0)
  <2>2. PICK V : V = U \cap RegionFrames(q)
    OBVIOUS
  <2>3. IsFiniteSet(V) /\ Cardinality(V) \in Nat
    BY <2>2, RegionFinite
  <2>4. CASE q = r
    <3>1. (U \cup FramesOf(a)) \cap RegionFrames(q) = V \cup FramesOf(a)
      BY <1>3, <2>2, <2>4
    <3>2. V \cap FramesOf(a) = {}
      BY <2>2
    <3>3. Cardinality(V \cup FramesOf(a)) = Cardinality(V) + a.n - Cardinality({})
      BY <1>3, <2>3, <3>2, FS_Union
    <3>4. Cardinality({}) = 0
      BY FS_EmptySet
    <3>5. Cardinality(V \cup FramesOf(a)) = Cardinality(V) + a.n
      BY <1>1, <2>3, <3>3, <3>4
    <3> QED BY <2>2, <2>4, <3>1, <3>5
  <2>5. CASE q # r
    <3>1. (U \cup FramesOf(a)) \cap RegionFrames(q) = V
      BY <1>3, <2>2, <2>5
    <3>2. Cardinality(V) = Cardinality(V) + 0
      BY <2>3
    <3> QED BY <2>2, <2>5, <3>1, <3>2
  <2> QED BY <2>4, <2>5
<1>8. /\ free_frames[q] \in Nat /\ boot_free[q] \in Nat
      /\ Cardinality(U \cap RegionFrames(q)) \in Nat
  BY KnownType, RegionFinite
<1>9. free_frames'[q] = boot_free[q]
        - Cardinality((U \cup FramesOf(a)) \cap RegionFrames(q))
  BY <1>1, <1>4, <1>6, <1>7, <1>8
<1> QED BY <1>5, <1>9

\* What map_dealloc_frame does to a block that is in use, in the region it finds.
LEMMA ClearBlock ==
  ASSUME TypeOK, RegionInv, UNCHANGED region_vars, UNCHANGED <<boot_free, boot_bitmap>>,
         NEW U, Marks(U), NEW a \in Alloc, FramesOf(a) \subseteq U,
         NEW r \in Known, Contains(r, a.first, a.first + a.n),
         free_frames' = [free_frames EXCEPT ![r] = @ + a.n],
         bitmap' = bitmap \ BitsOf(r, a.first, a.n)
  PROVE  Marks(U \ FramesOf(a))'
<1>1. a.first \in Nat /\ a.n \in Nat
  BY DEF Alloc
<1>2. SUFFICES ASSUME NEW q \in Known
               PROVE  /\ \A f \in RegionFrames(q) :
                           /\ Bit(q, f) \in bitmap' <=>
                                f \in U \ FramesOf(a) \/ Bit(q, f) \in boot_bitmap
                           /\ ~(f \in U \ FramesOf(a) /\ Bit(q, f) \in boot_bitmap)
                      /\ free_frames'[q] = boot_free[q]
                           - Cardinality((U \ FramesOf(a)) \cap RegionFrames(q))
  BY DEF Marks, region_vars, Known, RegionFrames, RegionEnd, Bit
<1>3. /\ IsFiniteSet(FramesOf(a)) /\ Cardinality(FramesOf(a)) = a.n
      /\ FramesOf(a) \subseteq RegionFrames(r)
      /\ FramesOf(a) \cap RegionFrames(q) = IF q = r THEN FramesOf(a) ELSE {}
  BY BlockSize
<1>4. /\ \A f \in RegionFrames(q) :
           /\ Bit(q, f) \in bitmap <=> f \in U \/ Bit(q, f) \in boot_bitmap
           /\ ~(f \in U /\ Bit(q, f) \in boot_bitmap)
      /\ free_frames[q] = boot_free[q] - Cardinality(U \cap RegionFrames(q))
  BY DEF Marks
<1>5. ASSUME NEW f \in RegionFrames(q)
      PROVE  /\ Bit(q, f) \in bitmap' <=>
                  f \in U \ FramesOf(a) \/ Bit(q, f) \in boot_bitmap
             /\ ~(f \in U \ FramesOf(a) /\ Bit(q, f) \in boot_bitmap)
  <2>1. Bit(q, f) \in BitsOf(r, a.first, a.n) <=> q = r /\ f \in FramesOf(a)
    BY <1>1, BitsApart DEF FramesOf
  <2>2. f \in FramesOf(a) => q = r
    BY <1>3
  <2> QED BY <1>4, <2>1, <2>2
<1>6. free_frames'[q] = IF q = r THEN free_frames[q] + a.n ELSE free_frames[q]
  BY KnownType DEF TypeOK
<1>7. Cardinality(U \cap RegionFrames(q))
        = Cardinality((U \ FramesOf(a)) \cap RegionFrames(q)) + (IF q = r THEN a.n ELSE 0)
  <2>2. PICK V : V = (U \ FramesOf(a)) \cap RegionFrames(q)
    OBVIOUS
  <2>3. IsFiniteSet(V) /\ Cardinality(V) \in Nat
    BY <2>2, RegionFinite
  <2>4. CASE q = r
    <3>1. U \cap RegionFrames(q) = V \cup FramesOf(a)
      BY <1>3, <2>2, <2>4
    <3>2. V \cap FramesOf(a) = {}
      BY <2>2
    <3>3. Cardinality(V \cup FramesOf(a)) = Cardinality(V) + a.n - Cardinality({})
      BY <1>3, <2>3, <3>2, FS_Union
    <3>4. Cardinality({}) = 0
      BY FS_EmptySet
    <3>5. Cardinality(V \cup FramesOf(a)) = Cardinality(V) + a.n
      BY <1>1, <2>3, <3>3, <3>4
    <3> QED BY <2>2, <2>4, <3>1, <3>5
  <2>5. CASE q # r
    <3>1. U \cap RegionFrames(q) = V
      BY <1>3, <2>2, <2>5
    <3>2. Cardinality(V) = Cardinality(V) + 0
      BY <2>3
    <3> QED BY <2>2, <2>5, <3>1, <3>2
  <2> QED BY <2>4, <2>5
<1>8. /\ free_frames[q] \in Nat /\ boot_free[q] \in Nat
      /\ Cardinality((U \ FramesOf(a)) \cap RegionFrames(q)) \in Nat
  BY KnownType, RegionFinite
<1>9. free_frames'[q] = boot_free[q]
        - Cardinality((U \ FramesOf(a)) \cap RegionFrames(q))
  BY <1>1, <1>4, <1>6, <1>7, <1>8
<1> QED BY <1>5, <1>9

\* The check against the first and the last region lets pass whatever is
\* inside a region.
LEMMA InsideReaches ==
  ASSUME TypeOK, RegionInv, NEW first \in Nat, NEW end \in Int, NEW r \in Known,
         Contains(r, first, end)
  PROVE  ~OutOfRange(first, end) /\ Reaches(first, end)
<1> DEFINE z == region_count - 1
<1>1. 0 \in Known /\ z \in Known /\ 0 <= r /\ r <= z
  BY DEF TypeOK, Known
<1>2. /\ start_addr[r] \in Nat /\ frames[r] \in Nat /\ Span(r) \in Nat
      /\ frames[r] <= Span(r) /\ r \in Nat
  BY KnownType
<1>3. start_addr[0] \in Nat /\ Span(0) \in Nat
  BY <1>1, KnownType
<1>4. start_addr[z] \in Nat /\ frames[z] \in Nat /\ z \in Nat
  BY <1>1, KnownType
<1> HIDE DEF z
<1>5. start_addr[0] <= start_addr[r]
  <2>1. 0 < r => start_addr[0] + Span(0) <= start_addr[r]
    BY <1>1 DEF RegionInv
  <2> QED BY <1>1, <1>2, <1>3, <2>1
<1>6. start_addr[r] + frames[r] <= start_addr[z] + frames[z]
  <2>1. r < z => start_addr[r] + Span(r) <= start_addr[z]
    BY <1>1 DEF RegionInv
  <2>2. CASE r < z
    BY <1>2, <1>4, <2>1, <2>2
  <2>3. CASE r = z
    BY <1>2, <2>3
  <2> QED BY <1>1, <1>2, <1>4, <2>2, <2>3
<1>7. start_addr[r] <= first /\ end <= start_addr[r] + frames[r]
  BY DEF Contains, RegionEnd
<1>8. ~(first < start_addr[0]) /\ ~(end > start_addr[z] + frames[z])
  BY <1>2, <1>3, <1>4, <1>5, <1>6, <1>7
<1>9. ~OutOfRange(first, end)
  BY <1>8 DEF OutOfRange, RegionEnd, z
<1> QED BY <1>9 DEF Reaches, Known

\* set_mem_region, on a block whose bits are 0 and that nobody uses.
LEMMA SetBlock ==
  ASSUME TypeOK, RegionInv, UNCHANGED region_vars, UNCHANGED <<boot_free, boot_bitmap>>,
         NEW U, Marks(U), NEW a \in Alloc, NEW X, X = Covered(Inside, <<a>>),
         set_mem_region(a.first, a.first + a.n, a.n),
         \A r \in Known :
           Contains(r, a.first, a.first + a.n) =>
             /\ FramesOf(a) \cap U = {} /\ free_frames[r] >= a.n
             /\ \A f \in FramesOf(a) : Bit(r, f) \notin bitmap
  PROVE  /\ Marks(U \cup X)'
         /\ free_frames' \in [Regions -> Nat] /\ bitmap' \subseteq Nat
<1>1. a.first \in Nat /\ a.n \in Nat
  BY DEF Alloc
<1>2. X = IF InsideRegion(a) THEN FramesOf(a) ELSE {}
  BY CoveredOne DEF Inside
<1>3. CASE Reaches(a.first, a.first + a.n)
  <2>1. PICK r \in Known :
          /\ Contains(r, a.first, a.first + a.n)
          /\ free_frames' = [free_frames EXCEPT ![r] = @ - a.n]
          /\ bitmap' = bitmap \cup BitsOf(r, a.first, a.n)
    BY <1>3 DEF set_mem_region, IsRegionOf, Known
  <2>2. InsideRegion(a)
    BY <2>1 DEF InsideRegion, Known
  <2>3. /\ FramesOf(a) \cap U = {} /\ free_frames[r] >= a.n
        /\ \A f \in FramesOf(a) : Bit(r, f) \notin bitmap
    BY <2>1
  <2>4. Marks(U \cup FramesOf(a))'
    BY <2>1, <2>3, MarkBlock
  <2>5. /\ r \in Regions /\ free_frames[r] \in Nat /\ start_addr[r] \in Nat
        /\ bitmap_start_addr[r] \in Nat /\ start_addr[r] <= a.first
    BY <2>1, KnownType DEF Contains
  <2>6. free_frames[r] - a.n \in Nat
    BY <1>1, <2>3, <2>5
  <2>7. free_frames' \in [Regions -> Nat]
    BY <2>1, <2>5, <2>6 DEF TypeOK
  <2>8. BitsOf(r, a.first, a.n) \subseteq Nat
    BY <1>1, <2>5 DEF BitsOf
  <2>9. bitmap' \subseteq Nat
    BY <2>1, <2>8 DEF TypeOK
  <2>10. U \cup X = U \cup FramesOf(a)
    BY <1>2, <2>2
  <2> QED BY <2>4, <2>7, <2>9, <2>10
<1>4. CASE ~Reaches(a.first, a.first + a.n)
  <2>1. UNCHANGED <<free_frames, bitmap>>
    BY <1>4 DEF set_mem_region, map_vars
  <2>2. ~InsideRegion(a)
    <3>1. a.first + a.n \in Int
      BY <1>1
    <3> QED BY <1>1, <1>4, <3>1, InsideReaches DEF InsideRegion, Known
  <2>3. U \cup X = U
    BY <1>2, <2>2
  <2> QED BY <2>1, <2>3 DEF TypeOK, Marks, Known, RegionFrames, RegionEnd, Bit, region_vars
<1> QED BY <1>3, <1>4

\* map_dealloc_frame, on a block whose frames, if they are in a region, are in
\* use.
LEMMA FreeBlock ==
  ASSUME TypeOK, RegionInv, UNCHANGED region_vars, UNCHANGED <<boot_free, boot_bitmap>>,
         NEW U, Marks(U), NEW a \in Alloc, NEW X, X = Covered(Inside, <<a>>), X \subseteq U,
         map_dealloc_frame(a.first, a.n)
  PROVE  /\ Marks(U \ X)'
         /\ free_frames' \in [Regions -> Nat] /\ bitmap' \subseteq Nat
<1>1. a.first \in Nat /\ a.n \in Nat
  BY DEF Alloc
<1>2. X = IF InsideRegion(a) THEN FramesOf(a) ELSE {}
  BY CoveredOne DEF Inside
<1>3. CASE Reaches(a.first, a.first + a.n)
  <2>1. PICK r \in Known :
          /\ Contains(r, a.first, a.first + a.n)
          /\ free_frames' = [free_frames EXCEPT ![r] = @ + a.n]
          /\ bitmap' = bitmap \ BitsOf(r, a.first, a.n)
    BY <1>3 DEF map_dealloc_frame, IsRegionOf, Known
  <2>2. InsideRegion(a)
    BY <2>1 DEF InsideRegion, Known
  <2>3. X = FramesOf(a)
    BY <1>2, <2>2
  <2>4. Marks(U \ FramesOf(a))'
    BY <2>1, <2>3, ClearBlock
  <2>5. r \in Regions /\ free_frames[r] + a.n \in Nat
    BY <1>1, <2>1, KnownType
  <2>6. free_frames' \in [Regions -> Nat]
    BY <2>1, <2>5 DEF TypeOK
  <2>7. bitmap' \subseteq Nat
    BY <2>1 DEF TypeOK
  <2> QED BY <2>3, <2>4, <2>6, <2>7
<1>4. CASE ~Reaches(a.first, a.first + a.n)
  <2>1. UNCHANGED <<free_frames, bitmap>>
    BY <1>4 DEF map_dealloc_frame, map_vars
  <2>2. ~InsideRegion(a)
    <3>1. a.first + a.n \in Int
      BY <1>1
    <3> QED BY <1>1, <1>4, <3>1, InsideReaches DEF InsideRegion, Known
  <2>3. U \ X = U
    BY <1>2, <2>2
  <2> QED BY <2>1, <2>3 DEF TypeOK, Marks, Known, RegionFrames, RegionEnd, Bit, region_vars
<1> QED BY <1>3, <1>4

-----------------------------------------------------------------------------
(* The scan of a word, as a step on a set Z of marked offsets              *)

\* The bits of the word at offset w that are marked.
WordBits(Z, w) == {b \in 0..(WORD - 1) : w + b \in Z}

\* Least and Greatest are what they say.
LEMMA LeastIs ==
  ASSUME NEW S, S \subseteq Nat, S # {}
  PROVE  Least(S) \in S /\ \A y \in S : Least(S) <= y
<1>1. \E x \in S : \A y \in S : x <= y
  BY LeastElement
<1> QED BY <1>1, Zenon DEF Least

\* The greatest element, of a set with a bound.
LEMMA GreatestIs ==
  ASSUME NEW m \in Nat, NEW S, S \subseteq 0..m, S # {}
  PROVE  Greatest(S) \in S /\ \A y \in S : Greatest(S) >= y
<1> DEFINE T == {m - y : y \in S}
<1>1. T \subseteq Nat /\ T # {}
  <2>1. \A y \in S : y \in 0..m /\ m - y \in Nat
    OBVIOUS
  <2>2. T \subseteq Nat
    BY <2>1
  <2>3. PICK y : y \in S
    OBVIOUS
  <2>4. m - y \in T
    BY <2>3
  <2> QED BY <2>2, <2>4
<1>2. PICK x \in T : \A y \in T : x <= y
  <2> HIDE DEF T
  <2> QED BY <1>1, LeastElement
<1>3. PICK g \in S : x = m - g
  BY <1>2
<1>4. \A y \in S : g >= y
  <2> TAKE y \in S
  <2>1. m - y \in T
    OBVIOUS
  <2>2. m - g <= m - y
    BY <1>2, <1>3, <2>1
  <2>3. y \in Nat /\ g \in Nat
    OBVIOUS
  <2> QED BY <2>2, <2>3
<1>5. \E z \in S : \A y \in S : z >= y
  BY <1>4
<1> QED BY <1>5, Zenon DEF Greatest

\* A word with nothing marked.
LEMMA FreeWord ==
  ASSUME NEW Z \in SUBSET Nat, NEW w, NEW c, NEW n, Carries(Z, w, c, n),
         WordBits(Z, w) = {}
  PROVE  /\ c + WORD >= n => Gap(Z, w - c, n)
         /\ c + WORD < n => Carries(Z, w + WORD, c + WORD, n)
<1>1. WORD \in Nat /\ w \in Nat /\ c \in Nat /\ n \in Nat /\ c <= w
  BY MemMapAssumption DEF Carries
<1>2. \A b \in w..(w + WORD - 1) : b \notin Z
  <2> TAKE b \in w..(w + WORD - 1)
  <2>1. b - w \in 0..(WORD - 1) /\ w + (b - w) = b
    BY <1>1
  <2> QED BY <2>1 DEF WordBits
<1>3. \A b \in (w - c)..(w + WORD - 1) : b \notin Z
  BY <1>1, <1>2 DEF Carries
<1>4. c + WORD >= n => Gap(Z, w - c, n)
  BY <1>1, <1>3 DEF Gap
<1>5. c + WORD < n => Carries(Z, w + WORD, c + WORD, n)
  <2>1. (w + WORD) - (c + WORD) = w - c /\ w + WORD \in Nat /\ c + WORD \in Nat
    BY <1>1
  <2> QED BY <1>1, <1>3, <2>1 DEF Carries
<1> QED BY <1>4, <1>5

\* The first marked bit of a word that has one.
LEMMA LeadingWord ==
  ASSUME NEW Z \in SUBSET Nat, NEW w, NEW c, NEW n, Carries(Z, w, c, n),
         WordBits(Z, w) # {}, NEW l, l = Least(WordBits(Z, w))
  PROVE  /\ l \in 0..(WORD - 1) /\ w + l \in Z
         /\ \A b \in (w - c)..(w + l - 1) : b \notin Z
         /\ c + l >= n => Gap(Z, w - c, n)
<1>1. WORD \in Nat /\ w \in Nat /\ c \in Nat /\ n \in Nat /\ c <= w
  BY MemMapAssumption DEF Carries
<1>2. WordBits(Z, w) \subseteq 0..(WORD - 1) /\ WordBits(Z, w) \subseteq Nat
  BY <1>1 DEF WordBits
<1>3. l \in WordBits(Z, w) /\ \A y \in WordBits(Z, w) : l <= y
  BY <1>2, LeastIs
<1>4. l \in 0..(WORD - 1) /\ w + l \in Z
  BY <1>3 DEF WordBits
<1>5. \A b \in w..(w + l - 1) : b \notin Z
  <2> TAKE b \in w..(w + l - 1)
  <2>1. b - w \in 0..(WORD - 1) /\ w + (b - w) = b /\ ~(l <= b - w)
    BY <1>1, <1>4
  <2>2. b - w \notin WordBits(Z, w)
    BY <1>3, <2>1
  <2> QED BY <2>1, <2>2 DEF WordBits
<1>6. \A b \in (w - c)..(w + l - 1) : b \notin Z
  BY <1>1, <1>4, <1>5 DEF Carries
<1>7. c + l >= n => Gap(Z, w - c, n)
  BY <1>1, <1>4, <1>6 DEF Gap
<1> QED BY <1>4, <1>6, <1>7

\* If the carried run and the start of the word are too short, no gap starts
\* there.
LEMMA NoGapSoFar ==
  ASSUME NEW Z \in SUBSET Nat, NEW w, NEW c, NEW n, Carries(Z, w, c, n),
         WordBits(Z, w) # {}, NEW l, l = Least(WordBits(Z, w)), c + l < n,
         NEW o \in Nat, o <= w + l
  PROVE  ~Gap(Z, o, n)
<1>1. WORD \in Nat /\ w \in Nat /\ c \in Nat /\ n \in Nat /\ c <= w
  BY MemMapAssumption DEF Carries
<1>2. l \in 0..(WORD - 1) /\ w + l \in Z
  BY LeadingWord
<1>3. CASE o < w - c
  <2>1. o \in 0..(w - c - 1)
    BY <1>1, <1>3
  <2> QED BY <2>1 DEF Carries
<1>4. CASE o >= w - c
  <2>1. w + l \in o..(o + n - 1)
    BY <1>1, <1>2, <1>4
  <2> QED BY <1>2, <2>1 DEF Gap
<1> QED BY <1>1, <1>3, <1>4

FreeOf(Z, w) == (0..(WORD - 1)) \ WordBits(Z, w)

\* A gap inside the word is a run of its free bits, and the reverse.
LEMMA GapInWord ==
  ASSUME NEW Z \in SUBSET Nat, NEW w \in Nat, NEW n \in Nat \ {0}, NEW h \in Nat,
         h + n <= WORD
  PROVE  Gap(Z, w + h, n) <=> h \in RunsOf(FreeOf(Z, w), n)
<1>1. WORD \in Nat
  BY MemMapAssumption
<1>2. ASSUME Gap(Z, w + h, n) PROVE h \in RunsOf(FreeOf(Z, w), n)
  <2>1. ASSUME NEW j \in 0..(n - 1) PROVE h + j \in FreeOf(Z, w)
    <3>1. h + j \in 0..(WORD - 1) /\ w + (h + j) \in (w + h)..((w + h) + n - 1)
      BY <1>1
    <3>2. w + (h + j) \notin Z
      BY <1>2, <3>1 DEF Gap
    <3> QED BY <3>1, <3>2 DEF FreeOf, WordBits
  <2>2. h + 0 = h /\ 0 \in 0..(n - 1)
    OBVIOUS
  <2>3. h \in FreeOf(Z, w)
    BY <2>1, <2>2
  <2> QED BY <2>1, <2>3 DEF RunsOf
<1>3. ASSUME h \in RunsOf(FreeOf(Z, w), n) PROVE Gap(Z, w + h, n)
  <2>1. ASSUME NEW b \in (w + h)..((w + h) + n - 1) PROVE b \notin Z
    <3>1. PICK j \in 0..(n - 1) : j = b - w - h /\ w + (h + j) = b
      OBVIOUS
    <3>2. h + j \in FreeOf(Z, w)
      BY <1>3 DEF RunsOf
    <3> QED BY <3>1, <3>2 DEF FreeOf, WordBits
  <2> QED BY <2>1 DEF Gap
<1> QED BY <1>2, <1>3

\* A run of free bits of a word ends in the word.
LEMMA RunInWord ==
  ASSUME NEW Z, NEW w, NEW n \in Nat \ {0}, NEW h \in RunsOf(FreeOf(Z, w), n)
  PROVE  h \in Nat /\ h + n <= WORD
<1>1. WORD \in Nat
  BY MemMapAssumption
<1>2. n - 1 \in 0..(n - 1)
  OBVIOUS
<1>3. h \in 0..(WORD - 1) /\ h + (n - 1) \in 0..(WORD - 1)
  BY <1>2 DEF RunsOf, FreeOf
<1> QED BY <1>1, <1>3

\* There is a hole inside the word: the first is the first gap.
LEMMA HoleWord ==
  ASSUME NEW Z \in SUBSET Nat, NEW w, NEW c, NEW n, Carries(Z, w, c, n),
         WordBits(Z, w) # {}, c + Least(WordBits(Z, w)) < n,
         RunsOf(FreeOf(Z, w), n) # {}, NEW h, h = Least(RunsOf(FreeOf(Z, w), n))
  PROVE  /\ h \in Nat /\ h + n <= WORD /\ Gap(Z, w + h, n)
         /\ \A o \in 0..(w + h - 1) : ~Gap(Z, o, n)
<1>1. WORD \in Nat /\ w \in Nat /\ c \in Nat /\ n \in Nat \ {0} /\ c <= w
  BY MemMapAssumption DEF Carries
<1>2. PICK l : l = Least(WordBits(Z, w))
  OBVIOUS
<1>3. l \in 0..(WORD - 1)
  BY <1>2, LeadingWord
<1>4. \A k \in RunsOf(FreeOf(Z, w), n) : k \in Nat /\ k + n <= WORD
  BY <1>1, RunInWord
<1>5. RunsOf(FreeOf(Z, w), n) \subseteq Nat
  BY <1>4
<1>6. h \in RunsOf(FreeOf(Z, w), n) /\ \A k \in RunsOf(FreeOf(Z, w), n) : h <= k
  BY <1>5, LeastIs
<1>7. h \in Nat /\ h + n <= WORD
  BY <1>4, <1>6
<1>8. Gap(Z, w + h, n)
  BY <1>1, <1>6, <1>7, GapInWord
<1>9. ASSUME NEW o \in 0..(w + h - 1) PROVE ~Gap(Z, o, n)
  <2>1. CASE o <= w + l
    BY <1>1, <1>2, <2>1, NoGapSoFar
  <2>2. CASE o > w + l
    <3>1. PICK k \in Nat : o = w + k /\ k < h /\ k + n <= WORD
      <4>1. o - w \in Nat /\ o = w + (o - w) /\ o - w < h /\ (o - w) + n <= WORD
        BY <1>1, <1>3, <1>7, <2>2
      <4> QED BY <4>1
    <3>2. k \notin RunsOf(FreeOf(Z, w), n)
      BY <1>6, <1>7, <3>1
    <3> QED BY <1>1, <3>1, <3>2, GapInWord
  <2> QED BY <1>1, <1>3, <2>1, <2>2
<1> QED BY <1>7, <1>8, <1>9

\* There is none: the free bits at the end of the word are carried on.
LEMMA CarryWord ==
  ASSUME NEW Z \in SUBSET Nat, NEW w, NEW c, NEW n, Carries(Z, w, c, n),
         WordBits(Z, w) # {}, c + Least(WordBits(Z, w)) < n,
         n > WORD \/ RunsOf(FreeOf(Z, w), n) = {},
         NEW t, t = WORD - 1 - Greatest(WordBits(Z, w))
  PROVE  Carries(Z, w + WORD, t, n)
<1>1. WORD \in Nat \ {0} /\ w \in Nat /\ c \in Nat /\ n \in Nat \ {0} /\ c <= w
  BY MemMapAssumption DEF Carries
<1>2. PICK l : l = Least(WordBits(Z, w))
  OBVIOUS
<1>3. l \in 0..(WORD - 1)
  BY <1>2, LeadingWord
<1>4. PICK g : g = Greatest(WordBits(Z, w))
  OBVIOUS
<1>5. g \in WordBits(Z, w) /\ \A y \in WordBits(Z, w) : g >= y
  <2>1. WORD - 1 \in Nat /\ WordBits(Z, w) \subseteq 0..(WORD - 1)
    BY <1>1 DEF WordBits
  <2> QED BY <1>4, <2>1, GreatestIs
<1>6. g \in 0..(WORD - 1) /\ w + g \in Z /\ t = WORD - 1 - g
  BY <1>4, <1>5 DEF WordBits
<1>7. \A k \in Nat : k + n <= WORD => ~Gap(Z, w + k, n)
  <2> TAKE k \in Nat
  <2>1. CASE n > WORD
    BY <1>1, <2>1
  <2>2. CASE RunsOf(FreeOf(Z, w), n) = {}
    BY <1>1, <2>2, GapInWord
  <2> QED BY <2>1, <2>2
<1>8. \A b \in (w + g + 1)..(w + WORD - 1) : b \notin Z
  <2> TAKE b \in (w + g + 1)..(w + WORD - 1)
  <2>1. b - w \in 0..(WORD - 1) /\ w + (b - w) = b /\ ~(g >= b - w)
    BY <1>1, <1>6
  <2>2. b - w \notin WordBits(Z, w)
    BY <1>5, <2>1
  <2> QED BY <2>1, <2>2 DEF WordBits
<1>9. t < n
  <2>1. SUFFICES ASSUME t >= n PROVE FALSE
    BY <1>1, <1>6
  <2>2. g + 1 \in Nat /\ (g + 1) + n <= WORD
    BY <1>1, <1>6, <2>1
  <2>3. Gap(Z, w + (g + 1), n)
    BY <1>1, <1>6, <1>8, <2>2 DEF Gap
  <2> QED BY <1>7, <2>2, <2>3
<1>10. ASSUME NEW o \in 0..(w + g) PROVE ~Gap(Z, o, n)
  <2>1. CASE o <= w + l
    BY <1>1, <1>2, <2>1, NoGapSoFar
  <2>2. CASE o > w + l /\ o + n - 1 >= w + g
    <3>1. w + g \in o..(o + n - 1)
      BY <1>1, <1>6, <2>2
    <3> QED BY <1>6, <3>1 DEF Gap
  <2>3. CASE o > w + l /\ o + n - 1 < w + g
    <3>1. o - w \in Nat /\ o = w + (o - w) /\ (o - w) + n <= WORD
      BY <1>1, <1>3, <1>6, <2>3
    <3> QED BY <1>7, <3>1
  <2> QED BY <1>1, <1>3, <1>6, <2>1, <2>2, <2>3
<1>11. /\ w + WORD \in Nat /\ t \in Nat /\ t <= w + WORD
       /\ (w + WORD) - t = w + g + 1 /\ (w + WORD) - t - 1 = w + g
  BY <1>1, <1>6
<1> QED BY <1>1, <1>8, <1>9, <1>10, <1>11 DEF Carries

-----------------------------------------------------------------------------
(* map_alloc_frame_contiguous                                              *)

\* A run of zero bits in the bitmap is a gap in the region.
LEMMA RunIsGap ==
  ASSUME TypeOK, RegionInv, NEW r \in Known, NEW o \in Nat, NEW n \in Nat \ {0}
  PROVE  RunAt(r, o, n) <=> Gap(Marked(r), o, n)
<1>1. Span(r) \in Nat /\ bitmap_start_addr[r] \in Nat
  BY KnownType
<1>2. ASSUME RunAt(r, o, n), NEW b \in o..(o + n - 1) PROVE b \notin Marked(r)
  <2>1. o + n <= Span(r) /\ bitmap_start_addr[r] + b \notin bitmap
    BY <1>2 DEF RunAt, Span
  <2> QED BY <1>1, <2>1 DEF Marked
<1>3. ASSUME Gap(Marked(r), o, n) PROVE RunAt(r, o, n)
  <2>1. \A b \in o..(o + n - 1) : ~(b >= Span(r)) /\ bitmap_start_addr[r] + b \notin bitmap
    BY <1>3 DEF Gap, Marked
  <2>2. o + n - 1 \in o..(o + n - 1)
    OBVIOUS
  <2>3. ~(o + n - 1 >= Span(r))
    BY <2>1, <2>2
  <2>4. o + n <= Span(r)
    BY <1>1, <2>3
  <2> QED BY <2>1, <2>4 DEF RunAt, Span
<1> QED BY <1>2, <1>3 DEF Gap

\* The state of the scan inside a region.
LEMMA AtWord ==
  ASSUME TypeOK, RegionInv, CallInv, ScanInv, Scanning
  PROVE  /\ region_i \in Known /\ base \in Nat /\ base <= Span(region_i)
         /\ page_count \in Nat \ {0} /\ carried_run \in Nat
         /\ Carries(Marked(region_i), base, carried_run, page_count)
         /\ Marked(region_i) \in SUBSET Nat /\ RunStart = base - carried_run
<1>1. mode = "scan" /\ region_i < region_count /\ region_i \in Nat /\ region_count \in Nat
  BY DEF Scanning, TypeOK
<1>2. region_i \in Known
  BY <1>1 DEF Known
<1>3. page_count \in Nat \ {0}
  BY <1>1 DEF CallInv, TypeOK
<1>4. /\ Carries(Marked(region_i), base, carried_run, page_count)
      /\ carried_run > 0 => run_start = base - carried_run
  BY <1>1 DEF ScanInv
<1>5. base \in Nat /\ carried_run \in Nat
  BY DEF TypeOK
<1>6. base <= Span(region_i)
  <2>1. PICK k \in 0..qword_count[region_i] : base = WORD * k
    BY <1>1 DEF ScanInv
  <2>2. qword_count[region_i] \in Nat /\ k \in Nat
    BY <1>2, KnownType
  <2>3. k = qword_count[region_i] \/ k < qword_count[region_i]
    BY <2>2
  <2>4. WORD * k < WORD * qword_count[region_i] <=> k < qword_count[region_i]
    BY <2>2, WordProduct
  <2>5. WORD * k \in Nat /\ WORD * qword_count[region_i] \in Nat
    BY <2>2, WordProduct
  <2> QED BY <2>1, <2>3, <2>4, <2>5 DEF Span
<1>7. RunStart = base - carried_run
  <2>1. CASE carried_run = 0
    <3>1. u32(base) = base
      BY <1>2, <1>5, <1>6, KnownType, In32Bits DEF RegionInv
    <3> QED BY <1>5, <2>1, <3>1 DEF RunStart
  <2>2. CASE carried_run > 0
    BY <1>4, <1>5, <2>2 DEF RunStart
  <2> QED BY <1>5, <2>1, <2>2
<1> QED BY <1>2, <1>3, <1>4, <1>5, <1>6, <1>7 DEF Marked

\* The word the scan looks at.
LEMMA InsideWord ==
  ASSUME TypeOK, RegionInv, CallInv, ScanInv, InWord
  PROVE  /\ qword = WordBits(Marked(region_i), base)
         /\ FreeBits = FreeOf(Marked(region_i), base)
         /\ base + WORD <= Span(region_i)
         /\ \E k \in 0..qword_count[region_i] : base + WORD = WORD * k
         /\ (next_word <=> base' = base + WORD)
         /\ \A n \in 0..(base + WORD) : u32(n) = n
         /\ free_frames[region_i] >= page_count
<1>1. Scanning /\ free_frames[region_i] >= page_count /\ base < Span(region_i)
  BY DEF InWord, Enough, Span
<1>2. /\ region_i \in Known /\ base \in Nat
  BY <1>1, AtWord
<1>3. /\ qword_count[region_i] \in Nat /\ Span(region_i) \in Nat
      /\ bitmap_start_addr[region_i] \in Nat /\ WORD \in Nat
  BY <1>2, KnownType, MemMapAssumption
<1>4. PICK k \in 0..qword_count[region_i] : base = WORD * k
  BY <1>1 DEF ScanInv, Scanning
<1>5. k \in Nat /\ k < qword_count[region_i]
  BY <1>1, <1>3, <1>4, WordProduct DEF Span
<1>6. base + WORD <= Span(region_i) /\ base + WORD = WORD * (k + 1)
  BY <1>3, <1>4, <1>5, WordStep DEF Span
<1>7. k + 1 \in 0..qword_count[region_i]
  BY <1>3, <1>5
<1>8. ASSUME NEW b \in 0..(WORD - 1)
      PROVE  bitmap_start_addr[region_i] + base + b \in bitmap <=> base + b \in Marked(region_i)
  <2>1. /\ base + b \in Nat /\ ~(base + b >= Span(region_i))
        /\ bitmap_start_addr[region_i] + base + b = bitmap_start_addr[region_i] + (base + b)
    BY <1>2, <1>3, <1>6
  <2> QED BY <2>1 DEF Marked
<1>9. qword = WordBits(Marked(region_i), base)
  <2>1. base % (8 * UINT32) = base
    BY <1>2, <1>3, <1>6, In32Bits DEF RegionInv
  <2> QED BY <1>8, <2>1 DEF qword, WordBits
<1>10. FreeBits = FreeOf(Marked(region_i), base)
  BY <1>9 DEF FreeBits, FreeOf
<1>11. \A n \in 0..(base + WORD) : u32(n) = n /\ n % (WORD * UINT32) = n
  BY <1>2, <1>3, <1>6, In32Bits DEF RegionInv
<1>12. base + WORD \in 0..(base + WORD)
  BY <1>2, <1>3
<1> QED BY <1>1, <1>6, <1>7, <1>9, <1>10, <1>11, <1>12 DEF next_word

\* The sums the scan makes in a word do not wrap.
LEMMA ScanSums ==
  ASSUME TypeOK, RegionInv, CallInv, ScanInv, InWord
  PROVE  /\ u32(carried_run + WORD) = carried_run + WORD
         /\ qword # {} => /\ u32(carried_run + leading_free) = carried_run + leading_free
                         /\ u32(base + WORD - trailing_free) = base + WORD - trailing_free
<1>1. /\ region_i \in Known /\ base \in Nat /\ carried_run \in Nat /\ WORD \in Nat \ {0}
      /\ carried_run <= base /\ Marked(region_i) \in SUBSET Nat
      /\ Carries(Marked(region_i), base, carried_run, page_count)
  BY AtWord, MemMapAssumption DEF InWord, Carries
<1>2. \A n \in 0..(base + WORD) : u32(n) = n
  BY InsideWord
<1>3. qword = WordBits(Marked(region_i), base)
  BY InsideWord
<1>4. u32(carried_run + WORD) = carried_run + WORD
  BY <1>1, <1>2
<1>5. ASSUME qword # {}
      PROVE  leading_free \in 0..(WORD - 1) /\ trailing_free \in 0..(WORD - 1)
  <2>1. leading_free \in 0..(WORD - 1)
    BY <1>1, <1>3, <1>5, LeadingWord DEF leading_free
  <2>2. qword \subseteq 0..(WORD - 1) /\ WORD - 1 \in Nat
    BY <1>1 DEF qword
  <2>3. Greatest(qword) \in 0..(WORD - 1)
    BY <1>5, <2>2, GreatestIs
  <2> QED BY <1>1, <2>1, <2>3 DEF trailing_free
<1>6. ASSUME NEW l \in 0..(WORD - 1)
      PROVE  carried_run + l \in 0..(base + WORD) /\ base + WORD - l \in 0..(base + WORD)
  BY <1>1
<1> QED BY <1>2, <1>4, <1>5, <1>6

-----------------------------------------------------------------------------
(* The steps after the boot                                                *)

\* The regions and the kernel's marks stay as they are.
LEMMA Steady ==
  ASSUME TypeOK, RegionInv, KernelInv, ~Booting, mode' # "mmap",
         UNCHANGED <<region_vars, tag, entry, boot_free, boot_bitmap>>
  PROVE  RegionInv' /\ KernelInv' /\ Inside' = Inside
<1> USE DEF region_vars
<1>1. RegionInv'
  BY DEF RegionInv, Known, Span
<1>2. KernelInv'
  BY DEF KernelInv, Booting, Reaches, OutOfRange, Contains, RegionEnd, KernelEnd, BitmapSize,
         Known, RegionFrames, Bit
<1>3. Inside' = Inside
  BY DEF Inside, InsideRegion, Contains, RegionEnd
<1> QED BY <1>1, <1>2, <1>3

\* What is in use and the marks stay as they are, whoever has it.
LEMMA MarksKept ==
  ASSUME MarksInv, ~Booting, UNCHANGED <<region_vars, map_vars, boot_free, boot_bitmap>>,
         Used' = Used
  PROVE  MarksInv'
BY DEF MarksInv, Marks, region_vars, map_vars, Known, RegionFrames, RegionEnd, Bit

\* A client's step that leaves the map alone.
LEMMA ClientStep ==
  ASSUME TypeOK, RegionInv, KernelInv, MarksInv, ~Booting, mode' # "mmap",
         UNCHANGED <<region_vars, map_vars, boot_vars>>,
         Books(Inside, holds', page_addr', Pending', lost'),
         InUse(Inside, holds', page_addr', Pending', lost') = Used
  PROVE  RegionInv' /\ KernelInv' /\ BooksInv' /\ MarksInv'
<1>1. UNCHANGED <<region_vars, tag, entry, boot_free, boot_bitmap>>
  BY DEF boot_vars
<1>2. RegionInv' /\ KernelInv' /\ Inside' = Inside
  BY <1>1, Steady
<1>3. BooksInv' /\ Used' = Used
  BY <1>2 DEF BooksInv, Used
<1> QED BY <1>1, <1>2, <1>3, MarksKept

\* A step of the scan that finds nothing yet.
LEMMA ScanStep ==
  ASSUME Inv, mode = "scan", mode' = "scan" \/ result' = FRAME_ALLOC_FAILED,
         mode' \in {"scan", "return"}, page_count' = page_count,
         UNCHANGED <<region_vars, map_vars, boot_vars, call_vars, holds, lost>>
  PROVE  RegionInv' /\ KernelInv' /\ BooksInv' /\ MarksInv' /\ CallInv'
<1>1. Pending' = Pending
  BY DEF Pending
<1>2. ~Booting /\ mode' # "mmap"
  BY DEF Booting
<1>3. UNCHANGED <<page_addr, call>>
  BY DEF call_vars
<1>4. /\ Books(Inside, holds', page_addr', Pending', lost')
      /\ InUse(Inside, holds', page_addr', Pending', lost') = Used
  BY <1>1, <1>3 DEF Inv, BooksInv, Used
<1>5. RegionInv' /\ KernelInv' /\ BooksInv' /\ MarksInv'
  BY <1>2, <1>4, ClientStep DEF Inv
<1>6. CallInv'
  BY <1>3 DEF Inv, CallInv, Booting
<1> QED BY <1>5, <1>6

\* A block at a gap: it is in the region of the scan if it is in any, and there
\* its bits are 0.
LEMMA GapIsFree ==
  ASSUME TypeOK, RegionInv, NEW i \in Known, NEW off \in Nat, NEW n \in Nat \ {0},
         Gap(Marked(i), off, n), NEW U, Marks(U), NEW a \in Alloc,
         a.first = start_addr[i] + off, a.n = n,
         NEW r \in Known, Contains(r, a.first, a.first + a.n)
  PROVE  /\ r = i /\ FramesOf(a) \cap U = {}
         /\ \A f \in FramesOf(a) : Bit(r, f) \notin bitmap
<1>1. /\ i \in Nat /\ start_addr[i] \in Nat /\ Span(i) \in Nat
      /\ bitmap_start_addr[i] \in Nat /\ frames[i] \in Nat
  BY KnownType
<1>2. /\ r \in Nat /\ start_addr[r] \in Nat /\ frames[r] \in Nat
      /\ Span(r) \in Nat /\ frames[r] <= Span(r)
  BY KnownType
<1>3. off + n <= Span(i)
  <2>1. off + n - 1 \in off..(off + n - 1)
    OBVIOUS
  <2>2. ~(off + n - 1 >= Span(i))
    BY <2>1 DEF Gap, Marked
  <2> QED BY <1>1, <2>2
<1>4. start_addr[r] <= a.first /\ a.first + n <= start_addr[r] + frames[r]
  BY DEF Contains, RegionEnd
<1>5. ~(r < i)
  <2>1. r < i => start_addr[r] + Span(r) <= start_addr[i]
    BY DEF RegionInv
  <2> QED BY <1>1, <1>2, <1>4, <2>1
<1>6. ~(i < r)
  <2>1. i < r => start_addr[i] + Span(i) <= start_addr[r]
    BY DEF RegionInv
  <2> QED BY <1>1, <1>2, <1>3, <1>4, <2>1
<1>7. r = i
  BY <1>1, <1>2, <1>5, <1>6
<1>8. ASSUME NEW f \in FramesOf(a) PROVE Bit(r, f) \notin bitmap /\ f \notin U
  <2>1. f \in Int /\ f >= start_addr[i] + off /\ f < start_addr[i] + off + n
    BY <1>1 DEF FramesOf
  <2>2. PICK b \in off..(off + n - 1) : f = start_addr[i] + b
    <3>1. f - start_addr[i] \in off..(off + n - 1) /\ f = start_addr[i] + (f - start_addr[i])
      BY <1>1, <2>1
    <3> QED BY <3>1
  <2>3. bitmap_start_addr[i] + b \notin bitmap
    BY DEF Gap, Marked
  <2>4. Bit(r, f) = bitmap_start_addr[i] + b
    BY <1>1, <1>7, <2>2 DEF Bit
  <2>5. f \in RegionFrames(r)
    <3>1. RegionFrames(r) = start_addr[r]..(start_addr[r] + frames[r] - 1)
      BY KnownType
    <3>2. f \in start_addr[r]..(start_addr[r] + frames[r] - 1)
      BY <1>1, <1>2, <1>4, <2>1
    <3> QED BY <3>1, <3>2
  <2>6. f \in U => Bit(r, f) \in bitmap
    BY <2>5 DEF Marks
  <2> QED BY <2>3, <2>4, <2>6
<1> QED BY <1>7, <1>8

\* The frame that is returned is the one at the offset that was found.
LEMMA FoundFrame ==
  ASSUME TypeOK, RegionInv, CallInv, ScanInv, Scanning, NEW off \in Nat,
         Gap(Marked(region_i), off, page_count), scan_found(off)
  PROVE  result' = start_addr[region_i] + off
<1>1. region_i \in Known /\ page_count \in Nat \ {0}
  BY AtWord
<1>2. off \notin Marked(region_i)
  BY <1>1 DEF Gap
<1>3. Span(region_i) \in Nat /\ off < Span(region_i)
  BY <1>1, <1>2, KnownType DEF Marked
<1>4. page_offset(off) = off
  BY <1>1, <1>3, In32Bits DEF RegionInv
<1> QED BY <1>4 DEF scan_found

\* A gap was found: it is marked and returned.
LEMMA FoundStep ==
  ASSUME Inv, Scanning, Enough, NEW off \in Nat, Gap(Marked(region_i), off, page_count),
         scan_found(off), UNCHANGED <<region_vars, boot_vars, call_vars, holds, lost, region_i>>
  PROVE  Inv'
<1>1. /\ TypeOK /\ RegionInv /\ CallInv /\ BooksInv /\ MarksInv /\ KernelInv /\ ScanInv
      /\ mode = "scan" /\ ~Booting
  BY DEF Inv, Scanning, Booting
<1>2. region_i \in Known /\ page_count \in Nat \ {0}
  BY <1>1, AtWord
<1>3. start_addr[region_i] \in Nat
  BY <1>1, <1>2, KnownType
<1>4. /\ result' = start_addr[region_i] + off /\ mode' = "return" /\ page_count' = page_count
      /\ set_mem_region(result', result' + page_count, page_count)
      /\ base' = 0 /\ carried_run' = 0 /\ run_start' = 0
  BY <1>1, FoundFrame DEF scan_found, scan_locals_dead
<1>5. PICK a \in Alloc : /\ a = Block(result', page_count) /\ a.first = result'
                         /\ a.n = page_count
  <2>1. PICK x \in Nat : x = result'
    BY <1>3, <1>4
  <2>2. /\ Block(x, page_count) \in Alloc /\ Block(x, page_count).first = x
        /\ Block(x, page_count).n = page_count
    BY <1>2 DEF Alloc, Block
  <2> QED BY <2>1, <2>2
<1>6. result' \in Nat /\ result' # FRAME_ALLOC_FAILED
  BY <1>3, <1>4 DEF FRAME_ALLOC_FAILED
<1>7. UNCHANGED <<tag, entry, boot_free, boot_bitmap, call, page_addr, holds, lost, region_i>>
  BY DEF boot_vars, call_vars
<1>8. Pending = <<>> /\ Pending' = <<a>>
  BY <1>1, <1>4, <1>5, <1>6 DEF Pending
<1>9. PICK U : U = Used
  OBVIOUS
<1>10. PICK X : X = Covered(Inside, <<a>>)
  OBVIOUS
<1>11. Marks(U)
  BY <1>1, <1>9 DEF MarksInv
<1>12. ASSUME NEW r \in Known, Contains(r, a.first, a.first + a.n)
       PROVE  /\ FramesOf(a) \cap U = {} /\ free_frames[r] >= a.n
              /\ \A f \in FramesOf(a) : Bit(r, f) \notin bitmap
  <2>1. /\ r = region_i /\ FramesOf(a) \cap U = {}
        /\ \A f \in FramesOf(a) : Bit(r, f) \notin bitmap
    BY <1>1, <1>2, <1>4, <1>5, <1>11, <1>12, GapIsFree
  <2> QED BY <1>5, <2>1 DEF Enough
<1>13. /\ Marks(U \cup X)' /\ free_frames' \in [Regions -> Nat] /\ bitmap' \subseteq Nat
  BY <1>1, <1>4, <1>5, <1>7, <1>10, <1>11, <1>12, SetBlock
<1>14. RegionInv' /\ KernelInv' /\ Inside' = Inside
  BY <1>1, <1>4, <1>7, Steady
<1>15. X \cap U = {}
  <2>1. X = IF InsideRegion(a) THEN FramesOf(a) ELSE {}
    BY <1>10, CoveredOne DEF Inside
  <2> QED BY <1>12, <2>1 DEF InsideRegion, Known
<1>16. BooksInv' /\ Used' = U \cup X
  <2>1. Books(Inside, holds, page_addr, <<>>, lost)
    BY <1>1, <1>8 DEF BooksInv
  <2>2. U = InUse(Inside, holds, page_addr, <<>>, lost)
    BY <1>8, <1>9 DEF Used
  <2>3. /\ Books(Inside, holds, page_addr, <<a>>, lost)
        /\ InUse(Inside, holds, page_addr, <<a>>, lost) = U \cup X
    <3>1. Covered(Inside, <<a>>) \cap InUse(Inside, holds, page_addr, <<>>, lost) = {}
      BY <1>10, <1>15, <2>2
    <3>2. /\ Books(Inside, holds, page_addr, <<a>>, lost)
          /\ InUse(Inside, holds, page_addr, <<a>>, lost)
               = InUse(Inside, holds, page_addr, <<>>, lost) \cup Covered(Inside, <<a>>)
      BY <2>1, <3>1, BooksFound
    <3> QED BY <1>10, <2>2, <3>2
  <2> QED BY <1>7, <1>8, <1>14, <2>3 DEF BooksInv, Used
<1>17. MarksInv'
  BY <1>13, <1>16 DEF MarksInv, Marks
<1>18. TypeOK'
  BY <1>1, <1>2, <1>4, <1>6, <1>7, <1>13 DEF TypeOK, region_vars
<1>19. CallInv' /\ ScanInv'
  BY <1>1, <1>4, <1>7 DEF CallInv, ScanInv, Booting
<1> QED BY <1>14, <1>16, <1>17, <1>18, <1>19 DEF Inv

\* What a step of the scan that goes on must establish for ScanInv.
LEMMA GoOn ==
  ASSUME Inv, Scanning, mode' = "scan", page_count' = page_count, region_i' = region_i,
         UNCHANGED <<region_vars, map_vars>>,
         \E k \in 0..qword_count[region_i] : base' = WORD * k,
         Carries(Marked(region_i), base', carried_run', page_count),
         carried_run' > 0 => run_start' = base' - carried_run'
  PROVE  ScanInv'
<1>1. Marked(region_i)' = Marked(region_i)
  BY DEF Marked, Span, region_vars, map_vars
<1>2. \A r, n : NoRunIn(r, n)' <=> NoRunIn(r, n)
  BY DEF NoRunIn, RunAt, region_vars, map_vars
<1> QED BY <1>1, <1>2 DEF Inv, ScanInv, Scanning, region_vars, map_vars

\* The step to the next region.
LEMMA NextRegion ==
  ASSUME Inv, Scanning, next_region, UNCHANGED region_vars,
         free_frames[region_i] >= page_count => NoRunIn(region_i, page_count)
  PROVE  ScanInv'
<1>1. /\ TypeOK /\ RegionInv /\ CallInv /\ ScanInv /\ mode = "scan"
      /\ region_i \in Nat /\ region_count \in Nat /\ region_i < region_count
  BY DEF Inv, Scanning, TypeOK
<1>2. /\ region_i' = region_i + 1 /\ base' = 0 /\ carried_run' = 0 /\ run_start' = 0
      /\ UNCHANGED <<free_frames, bitmap, page_count, result, mode>>
  BY DEF next_region, scan_locals_dead, map_vars
<1>3. \A r, n : NoRunIn(r, n)' <=> NoRunIn(r, n)
  BY <1>2 DEF NoRunIn, RunAt, region_vars
<1>4. page_count \in Nat \ {0}
  BY <1>1, AtWord
<1>5. \A r \in 0..(region_i' - 1) : free_frames'[r] >= page_count' => NoRunIn(r, page_count)
  <2> TAKE r \in 0..(region_i' - 1)
  <2>1. CASE r = region_i
    BY <1>2, <2>1
  <2>2. CASE r # region_i
    <3>1. r \in 0..(region_i - 1)
      BY <1>1, <1>2, <2>2
    <3> QED BY <1>1, <1>2, <3>1 DEF ScanInv
  <2> QED BY <2>1, <2>2
<1>6. ASSUME region_i' < region_count'
      PROVE  /\ \E k \in 0..qword_count'[region_i'] : base' = WORD * k
             /\ Carries(Marked(region_i)', base', carried_run', page_count')
  <2>1. region_i + 1 \in Known
    BY <1>1, <1>2, <1>6 DEF Known, region_vars
  <2>2. qword_count[region_i + 1] \in Nat
    BY <1>1, <2>1, KnownType
  <2>3. 0 \in 0..qword_count[region_i + 1] /\ WORD * 0 = 0
    BY <2>2, MemMapAssumption
  <2>4. Carries(Marked(region_i)', 0, 0, page_count)
    BY <1>4 DEF Carries
  <2> QED BY <1>2, <2>3, <2>4 DEF region_vars
<1>7. region_i' <= region_count'
  BY <1>1, <1>2 DEF region_vars
<1> QED BY <1>2, <1>3, <1>5, <1>6, <1>7 DEF ScanInv

\* The three ways to find a gap: it is one, and the first in its region.
LEMMA FoundGap ==
  ASSUME Inv, scan_free_word \/ scan_leading \/ scan_hole, mode' = "return"
  PROVE  \E off \in Nat :
           /\ scan_found(off) /\ Gap(Marked(region_i), off, page_count)
           /\ \A o \in 0..(off - 1) : ~Gap(Marked(region_i), o, page_count)
<1>1. InWord
  BY DEF scan_free_word, scan_leading, scan_hole
<1>2. TypeOK /\ RegionInv /\ CallInv /\ ScanInv /\ Scanning
  BY <1>1 DEF Inv, InWord
<1>3. PICK Z \in SUBSET Nat : Z = Marked(region_i)
  BY <1>2, AtWord
<1>4. /\ base \in Nat /\ page_count \in Nat \ {0} /\ carried_run \in Nat
      /\ Carries(Z, base, carried_run, page_count) /\ RunStart = base - carried_run
  BY <1>2, <1>3, AtWord
<1>5. /\ qword = WordBits(Z, base) /\ FreeBits = FreeOf(Z, base)
      /\ u32(carried_run + WORD) = carried_run + WORD
      /\ qword # {} => u32(carried_run + leading_free) = carried_run + leading_free
  BY <1>1, <1>2, <1>3, InsideWord, ScanSums
<1>6. RunStart \in Nat /\ \A o \in 0..(RunStart - 1) : ~Gap(Z, o, page_count)
  BY <1>4 DEF Carries
<1>7. CASE scan_free_word
  <2>1. qword = {} /\ mode = "scan"
    BY <1>2, <1>7 DEF scan_free_word, Scanning
  <2>2. carried_run + WORD >= page_count /\ scan_found(RunStart)
    BY <1>5, <1>7, <2>1 DEF scan_free_word
  <2>3. Gap(Z, RunStart, page_count)
    BY <1>4, <1>5, <2>1, <2>2, FreeWord
  <2> QED BY <1>3, <1>6, <2>2, <2>3
<1>8. CASE scan_leading
  <2>1. /\ qword # {} /\ carried_run + Least(WordBits(Z, base)) >= page_count
        /\ scan_found(RunStart)
    BY <1>5, <1>8 DEF scan_leading, leading_free
  <2>2. Gap(Z, RunStart, page_count)
    BY <1>4, <1>5, <2>1, LeadingWord
  <2> QED BY <1>3, <1>6, <2>1, <2>2
<1>9. CASE scan_hole
  <2>1. /\ qword # {} /\ carried_run + Least(WordBits(Z, base)) < page_count
        /\ page_count <= WORD /\ run_starts(FreeBits, page_count) # {}
        /\ scan_found(base + Least(run_starts(FreeBits, page_count)))
    BY <1>5, <1>9 DEF scan_hole, leading_free, HasHole
  <2>2. page_count \in 1..64 /\ FreeOf(Z, base) \in SUBSET Nat
    BY <1>4, <2>1, MemMapAssumption DEF FreeOf
  <2>3. run_starts(FreeBits, page_count) = RunsOf(FreeOf(Z, base), page_count)
    BY <1>5, <2>2, RunStarts
  <2>4. PICK h : h = Least(RunsOf(FreeOf(Z, base), page_count))
    OBVIOUS
  <2>5. /\ h \in Nat /\ Gap(Z, base + h, page_count)
        /\ \A o \in 0..(base + h - 1) : ~Gap(Z, o, page_count)
    BY <1>4, <1>5, <2>1, <2>3, <2>4, HoleWord
  <2>6. PICK off \in Nat : off = base + h
    BY <1>4, <2>5
  <2>7. scan_found(off)
    BY <2>1, <2>3, <2>4, <2>6
  <2>8. Gap(Z, off, page_count) /\ \A o \in 0..(off - 1) : ~Gap(Z, o, page_count)
    <3>1. off - 1 = base + h - 1
      BY <1>4, <2>5, <2>6
    <3> QED BY <2>5, <2>6, <3>1
  <2> QED BY <1>3, <2>7, <2>8
<1> QED BY <1>7, <1>8, <1>9

\* Every step of map_alloc_frame_contiguous keeps the invariant.
LEMMA ScanKeeps ==
  ASSUME Inv, Scan
  PROVE  Inv'
<1>1. /\ TypeOK /\ RegionInv /\ CallInv /\ ScanInv
      /\ UNCHANGED <<region_vars, boot_vars, call_vars, holds, lost>>
  BY DEF Inv, Scan
<1>2. UNCHANGED <<tag, entry, boot_free, boot_bitmap, call, page_addr, holds, lost>>
  BY <1>1 DEF boot_vars, call_vars
<1>3. UNCHANGED <<region_count, start_addr, frames, bitmap_start_addr, qword_count>>
  BY <1>1 DEF region_vars
<1>4. ASSUME mode = "scan", mode' = "scan" \/ result' = FRAME_ALLOC_FAILED,
             mode' \in {"scan", "return"}, page_count' = page_count, UNCHANGED map_vars,
             result' \in Nat \cup {FRAME_ALLOC_FAILED}, region_i' \in 0..MAX_MEM_REGIONS,
             base' \in Nat, carried_run' \in Nat, run_start' \in Nat, ScanInv'
      PROVE  Inv'
  <2>1. RegionInv' /\ KernelInv' /\ BooksInv' /\ MarksInv' /\ CallInv'
    BY <1>1, <1>4, ScanStep
  <2>2. TypeOK'
    BY <1>1, <1>2, <1>3, <1>4 DEF TypeOK, map_vars
  <2> QED BY <1>4, <2>1, <2>2 DEF Inv
<1>5. ASSUME Scanning, next_region,
             free_frames[region_i] >= page_count => NoRunIn(region_i, page_count)
      PROVE  Inv'
  <2>1. ScanInv'
    BY <1>1, <1>5, NextRegion
  <2>2. /\ mode = "scan" /\ region_i' = region_i + 1
        /\ base' = 0 /\ carried_run' = 0 /\ run_start' = 0
        /\ UNCHANGED <<map_vars, page_count, result, mode>>
    BY <1>5 DEF Scanning, next_region, scan_locals_dead
  <2>3. region_i \in Nat /\ region_count \in 0..MAX_MEM_REGIONS /\ region_i < region_count
    BY <1>1, <1>5 DEF Scanning, TypeOK
  <2>4. region_i + 1 \in 0..MAX_MEM_REGIONS
    BY ONLY <2>3, MemMapAssumption
  <2>5. result \in Nat \cup {FRAME_ALLOC_FAILED}
    BY <1>1 DEF TypeOK
  <2> QED BY <1>4, <2>1, <2>2, <2>4, <2>5
<1>6. CASE scan_skip_region
  <2>1. Scanning /\ next_region /\ ~(free_frames[region_i] >= page_count)
    BY <1>6 DEF scan_skip_region, Enough
  <2> QED BY <1>5, <2>1
<1>7. CASE scan_end_region
  <2>1. Scanning /\ next_region /\ base = Span(region_i)
    BY <1>7 DEF scan_end_region, Span
  <2>2. /\ region_i \in Known /\ base \in Nat /\ page_count \in Nat \ {0}
        /\ carried_run \in Nat /\ Carries(Marked(region_i), base, carried_run, page_count)
    BY <1>1, <2>1, AtWord
  <2>3. ASSUME NEW o \in 0..Span(region_i) PROVE ~RunAt(region_i, o, page_count)
    <3>1. o \in Nat
      OBVIOUS
    <3>2. CASE o < base - carried_run
      <4>1. ~Gap(Marked(region_i), o, page_count)
        BY <2>2, <3>1, <3>2 DEF Carries
      <4> QED BY <1>1, <2>2, <3>1, <4>1, RunIsGap
    <3>3. CASE o >= base - carried_run
      <4>1. ~(o + page_count <= Span(region_i))
        BY <2>1, <2>2, <3>1, <3>3 DEF Carries
      <4> QED BY <4>1 DEF RunAt, Span
    <3> QED BY <2>2, <3>1, <3>2, <3>3
  <2>4. NoRunIn(region_i, page_count)
    BY <2>3 DEF NoRunIn, Span
  <2> QED BY <1>5, <2>1, <2>4
<1>8. CASE scan_fail
  <2>1. /\ mode = "scan" /\ mode' = "return" /\ result' = FRAME_ALLOC_FAILED
        /\ base' = 0 /\ carried_run' = 0 /\ run_start' = 0
        /\ UNCHANGED <<map_vars, page_count, region_i>>
    BY <1>8 DEF scan_fail, scan_locals_dead
  <2>2. ScanInv'
    BY <2>1 DEF ScanInv
  <2> QED BY <1>1, <1>4, <2>1, <2>2 DEF TypeOK
<1>9. ASSUME scan_free_word \/ scan_leading \/ scan_hole, mode' = "return"
      PROVE  Inv'
  <2>1. Scanning /\ Enough /\ UNCHANGED region_i
    BY <1>9 DEF scan_free_word, scan_leading, scan_hole, InWord
  <2>2. PICK off \in Nat : scan_found(off) /\ Gap(Marked(region_i), off, page_count)
    BY <1>9, FoundGap
  <2> QED BY <1>1, <2>1, <2>2, FoundStep
<1>10. ASSUME InWord, mode' = "scan", UNCHANGED <<map_vars, page_count, result, region_i>>,
              base' = base + WORD,
              Carries(Marked(region_i), base + WORD, carried_run', page_count),
              run_start' = base + WORD - carried_run'
       PROVE  Inv'
  <2>0. base \in Nat /\ WORD \in Nat /\ carried_run' \in Nat
    BY <1>1, <1>10, MemMapAssumption DEF TypeOK, Carries
  <2>1. Scanning /\ mode = "scan"
    BY <1>10 DEF InWord, Scanning
  <2>2. \E k \in 0..qword_count[region_i] : base' = WORD * k
    BY <1>1, <1>10, InsideWord
  <2>3. ScanInv'
    <3>1. Carries(Marked(region_i), base', carried_run', page_count)
      BY <1>10
    <3>2. run_start' = base' - carried_run'
      BY <1>10, <2>0
    <3> QED BY <1>1, <1>10, <2>1, <2>2, <3>1, <3>2, GoOn
  <2>4. base' \in Nat /\ carried_run' \in Nat /\ run_start' \in Nat
    <3>1. base + WORD \in Nat /\ carried_run' \in Nat /\ carried_run' <= base + WORD
      BY <1>10 DEF Carries
    <3>2. base' = base + WORD /\ run_start' = base + WORD - carried_run'
      BY <1>10
    <3>3. base + WORD - carried_run' \in Nat
      <4>1. \A x, y, z \in Nat : z <= x + y => x + y - z \in Nat
        OBVIOUS
      <4> QED BY <2>0, <3>1, <4>1
    <3> QED BY <3>1, <3>2, <3>3
  <2> QED BY <1>1, <1>4, <1>10, <2>1, <2>3, <2>4 DEF TypeOK
<1>11. CASE scan_free_word /\ mode' # "return"
  <2>1. InWord /\ qword = {} /\ mode = "scan"
    BY <1>11 DEF scan_free_word, InWord, Scanning
  <2>2. /\ carried_run + WORD < page_count /\ run_start' = RunStart
        /\ carried_run' = carried_run + WORD /\ base' = base + WORD
        /\ UNCHANGED <<map_vars, page_count, result, mode, region_i>>
    <3>0. /\ u32(carried_run + WORD) = carried_run + WORD
          /\ next_word <=> base' = base + WORD
      BY <1>1, <2>1, ScanSums, InsideWord
    <3>1. ~(carried_run + WORD >= page_count)
      BY <1>11, <3>0 DEF scan_free_word, scan_found
    <3>2. carried_run \in Nat /\ page_count \in Nat /\ WORD \in Nat
      BY <1>1, MemMapAssumption DEF TypeOK
    <3>3. carried_run + WORD < page_count
      BY ONLY <3>1, <3>2
    <3> QED BY <1>11, <3>0, <3>1, <3>3 DEF scan_free_word
  <2>3. /\ base \in Nat /\ carried_run \in Nat /\ RunStart = base - carried_run
        /\ Carries(Marked(region_i), base, carried_run, page_count)
        /\ Marked(region_i) \in SUBSET Nat
    BY <1>1, <2>1, AtWord DEF InWord
  <2>4. WordBits(Marked(region_i), base) = {}
    BY <1>1, <2>1, InsideWord
  <2>5. Carries(Marked(region_i), base + WORD, carried_run + WORD, page_count)
    BY <2>2, <2>3, <2>4, FreeWord
  <2>6. base - carried_run = base + WORD - (carried_run + WORD)
    BY <2>3, MemMapAssumption
  <2> QED BY <1>10, <2>1, <2>2, <2>3, <2>5, <2>6
<1>12. CASE scan_carry
  <2>1. /\ InWord /\ qword # {} /\ carried_run + leading_free < page_count /\ ~HasHole
        /\ carried_run' = trailing_free /\ run_start' = base + WORD - trailing_free
        /\ base' = base + WORD /\ mode = "scan"
        /\ UNCHANGED <<map_vars, page_count, result, mode, region_i>>
    <3>1. InWord /\ qword # {} /\ mode = "scan"
      BY <1>12 DEF scan_carry, InWord, Scanning
    <3>2. /\ u32(carried_run + leading_free) = carried_run + leading_free
          /\ u32(base + WORD - trailing_free) = base + WORD - trailing_free
          /\ next_word <=> base' = base + WORD
      BY <1>1, <3>1, ScanSums, InsideWord
    <3> QED BY <1>12, <3>1, <3>2 DEF scan_carry
  <2>2. PICK Z \in SUBSET Nat : Z = Marked(region_i)
    BY <1>1, <2>1, AtWord DEF InWord
  <2>3. base \in Nat /\ page_count \in Nat \ {0} /\ Carries(Z, base, carried_run, page_count)
    BY <1>1, <2>1, <2>2, AtWord DEF InWord
  <2>4. qword = WordBits(Z, base) /\ FreeBits = FreeOf(Z, base)
    BY <1>1, <2>1, <2>2, InsideWord
  <2>5. page_count > WORD \/ RunsOf(FreeOf(Z, base), page_count) = {}
    <3>1. CASE page_count <= WORD
      <4>1. page_count \in 1..64 /\ FreeOf(Z, base) \in SUBSET Nat
        BY <2>3, <3>1, MemMapAssumption DEF FreeOf
      <4>2. run_starts(FreeBits, page_count) = RunsOf(FreeOf(Z, base), page_count)
        BY <2>4, <4>1, RunStarts
      <4> QED BY <2>1, <3>1, <4>2 DEF HasHole
    <3>2. CASE ~(page_count <= WORD)
      BY <2>3, <3>2, MemMapAssumption
    <3> QED BY <3>1, <3>2
  <2>6. PICK t : t = WORD - 1 - Greatest(WordBits(Z, base))
    OBVIOUS
  <2>7. Carries(Z, base + WORD, t, page_count)
    BY <2>1, <2>3, <2>4, <2>5, <2>6, CarryWord DEF leading_free
  <2>8. trailing_free = t
    BY <2>4, <2>6 DEF trailing_free
  <2> QED BY <1>10, <2>1, <2>2, <2>7, <2>8
<1>13. scan_leading \/ scan_hole => mode' = "return"
  BY DEF scan_leading, scan_hole, scan_found
<1> QED BY <1>6, <1>7, <1>8, <1>9, <1>11, <1>12, <1>13 DEF Scan

-----------------------------------------------------------------------------
(* The calls of the clients                                                *)

\* A call that is in progress.
LEMMA CallType ==
  ASSUME TypeOK, call # NoCall
  PROVE  /\ call.client \in Clients
         /\ call.op \in {"ialloc_kframe", "idealloc_frames", "ialloc_frames"}
         /\ call.op = "ialloc_frames" => call.count \in CountRequests
<1>1. CASE call \in [op : {"ialloc_kframe", "idealloc_frames"}, client : Clients]
  BY <1>1
<1>2. CASE call \in [op : {"ialloc_frames"}, client : Clients, count : CountRequests]
  BY <1>2
<1> QED BY <1>1, <1>2 DEF TypeOK

\* The frames a list covers are those the model counts as held.
LEMMA FramesInIs ==
  ASSUME NEW l \in Seq(Alloc)
  PROVE  FramesIn(l) = Covered(Inside, l) /\ Covered(Inside, l) \subseteq Nat
<1>1. \A j \in DOMAIN l : l[j] \in Alloc /\ (l[j] \in Inside <=> InsideRegion(l[j]))
  BY DEF Inside
<1>2. \A a \in Alloc : FramesOf(a) \subseteq Nat
  BY DEF Alloc, FramesOf
<1>3. FramesIn(l) = Covered(Inside, l)
  BY <1>1 DEF FramesIn, Covered
<1>4. Covered(Inside, l) \subseteq Nat
  BY <1>1, <1>2, CoveredIs
<1> QED BY <1>3, <1>4

\* A scan begins.
LEMMA BeginScan ==
  ASSUME TypeOK, RegionInv, UNCHANGED region_vars, mode' = "scan", region_i' = 0, base' = 0,
         carried_run' = 0, page_count' \in Nat \ {0}
  PROVE  ScanInv'
<1>1. region_count \in Nat /\ region_count' = region_count /\ qword_count' = qword_count
  BY DEF TypeOK, region_vars
<1>2. ASSUME 0 < region_count
      PROVE  \E k \in 0..qword_count[0] : 0 = WORD * k
  <2>1. 0 \in Known
    BY <1>1, <1>2 DEF Known
  <2>2. 0 \in 0..qword_count[0] /\ WORD * 0 = 0
    BY <2>1, KnownType, MemMapAssumption
  <2> QED BY <2>2
<1>3. Carries(Marked(region_i)', 0, 0, page_count')
  BY DEF Carries
<1> QED BY <1>1, <1>2, <1>3 DEF ScanInv

\* A call ends.
LEMMA EndCall ==
  ASSUME call_end, ~Booting
  PROVE  /\ mode' = "idle" /\ call' = NoCall /\ page_addr' = <<>> /\ Pending' = <<>>
         /\ region_i' = 0 /\ page_count' = 0 /\ base' = 0 /\ carried_run' = 0
         /\ run_start' = 0 /\ result' = FRAME_ALLOC_FAILED
         /\ CallInv' /\ ScanInv'
BY DEF call_end, scan_locals_dead, Pending, CallInv, ScanInv, Booting

\* The types that a client's step can change.
LEMMA ClientTypes ==
  ASSUME TypeOK, UNCHANGED <<region_vars, boot_vars>>,
         free_frames' \in [Regions -> Nat], bitmap' \subseteq Nat,
         mode' \in {"idle", "scan", "return", "free", "fault"}, region_i' \in 0..MAX_MEM_REGIONS,
         page_count' \in Nat, base' \in Nat, carried_run' \in Nat, run_start' \in Nat,
         result' \in Nat \cup {FRAME_ALLOC_FAILED},
         call' \in {NoCall} \cup [op : {"ialloc_kframe", "idealloc_frames"}, client : Clients]
            \cup [op : {"ialloc_frames"}, client : Clients, count : CountRequests],
         page_addr' \in Seq(Alloc), holds' \in [Clients -> Seq(Alloc)], lost' \subseteq Nat
  PROVE  TypeOK'
BY DEF TypeOK, region_vars, boot_vars, Alloc

\* The parts of the state that these proofs use.
LEMMA ClientState ==
  ASSUME Inv
  PROVE  /\ TypeOK /\ RegionInv /\ CallInv /\ KernelInv /\ MarksInv
         /\ free_frames \in [Regions -> Nat] /\ bitmap \subseteq Nat
         /\ region_i \in 0..MAX_MEM_REGIONS /\ page_count \in Nat /\ base \in Nat
         /\ carried_run \in Nat /\ run_start \in Nat
         /\ result \in Nat \cup {FRAME_ALLOC_FAILED}
         /\ page_addr \in Seq(Alloc) /\ holds \in [Clients -> Seq(Alloc)] /\ lost \subseteq Nat
         /\ 0 \in 0..MAX_MEM_REGIONS /\ <<>> \in Seq(Alloc)
         /\ Books(Inside, holds, page_addr, Pending, lost)
         /\ Used = InUse(Inside, holds, page_addr, Pending, lost)
<1>1. TypeOK /\ RegionInv /\ CallInv /\ KernelInv /\ MarksInv /\ BooksInv
  BY DEF Inv
<1>2. page_addr \in Seq(Alloc) /\ holds \in [Clients -> Seq(Alloc)] /\ lost \subseteq Nat
  BY <1>1 DEF TypeOK, Alloc
<1>3. /\ free_frames \in [Regions -> Nat] /\ bitmap \subseteq Nat
      /\ region_i \in 0..MAX_MEM_REGIONS /\ page_count \in Nat /\ base \in Nat
      /\ carried_run \in Nat /\ run_start \in Nat
      /\ result \in Nat \cup {FRAME_ALLOC_FAILED}
  BY <1>1 DEF TypeOK
<1>4. 0 \in 0..MAX_MEM_REGIONS /\ <<>> \in Seq(Alloc)
  BY MemMapAssumption
<1>5. /\ Books(Inside, holds, page_addr, Pending, lost)
      /\ Used = InUse(Inside, holds, page_addr, Pending, lost)
  BY <1>1 DEF BooksInv, Used
<1> QED BY <1>1, <1>2, <1>3, <1>4, <1>5

\* The start of a call.
LEMMA AllocBegins ==
  ASSUME Inv, NEW c \in Clients, NEW n \in Nat \ {0}, mode = "idle", holds[c] = <<>>,
         call'.op \in {"ialloc_kframe", "ialloc_frames"}, call'.client = c, call' # NoCall,
         call' \in {NoCall} \cup [op : {"ialloc_kframe", "idealloc_frames"}, client : Clients]
            \cup [op : {"ialloc_frames"}, client : Clients, count : CountRequests],
         scan_begin(n), page_addr' = <<>>,
         UNCHANGED <<region_vars, map_vars, boot_vars, holds, lost>>
  PROVE  Inv'
<1>1. /\ mode' = "scan" /\ region_i' = 0 /\ page_count' = n /\ base' = 0 /\ carried_run' = 0
      /\ run_start' = 0 /\ result' = FRAME_ALLOC_FAILED
  BY DEF scan_begin, scan_locals_dead
<1>2. ~Booting /\ page_addr = <<>> /\ Pending = <<>> /\ Pending' = <<>>
  BY <1>1, ClientState DEF Booting, Pending, CallInv
<1>3. /\ Books(Inside, holds', page_addr', Pending', lost')
      /\ InUse(Inside, holds', page_addr', Pending', lost') = Used
  BY <1>2, ClientState
<1>4. RegionInv' /\ KernelInv' /\ BooksInv' /\ MarksInv'
  BY <1>1, <1>2, <1>3, ClientState, ClientStep
<1>5. TypeOK'
  BY <1>1, ClientState, ClientTypes DEF map_vars
<1>6. CallInv'
  BY <1>1 DEF CallInv, Booting
<1>7. ScanInv'
  BY <1>1, ClientState, BeginScan
<1> QED BY <1>4, <1>5, <1>6, <1>7 DEF Inv

\* A call ends, and the books balance.
LEMMA CallEnds ==
  ASSUME Inv, ~Booting, call_end, UNCHANGED <<region_vars, map_vars, boot_vars>>,
         Books(Inside, holds', <<>>, <<>>, lost'),
         InUse(Inside, holds', <<>>, <<>>, lost') = Used,
         holds' \in [Clients -> Seq(Alloc)], lost' \subseteq Nat
  PROVE  Inv'
<1>1. /\ mode' = "idle" /\ call' = NoCall /\ page_addr' = <<>> /\ Pending' = <<>>
      /\ region_i' = 0 /\ page_count' = 0 /\ base' = 0 /\ carried_run' = 0
      /\ run_start' = 0 /\ result' = FRAME_ALLOC_FAILED
      /\ CallInv' /\ ScanInv'
  BY EndCall
<1>2. /\ Books(Inside, holds', page_addr', Pending', lost')
      /\ InUse(Inside, holds', page_addr', Pending', lost') = Used
  BY <1>1
<1>3. RegionInv' /\ KernelInv' /\ BooksInv' /\ MarksInv'
  BY <1>1, <1>2, ClientState, ClientStep
<1>4. TypeOK'
  BY <1>1, ClientState, ClientTypes DEF map_vars
<1> QED BY <1>1, <1>3, <1>4 DEF Inv

\* What the scan returned is added to the list of the call.
LEMMA Collected ==
  ASSUME Inv, mode = "return", result # FRAME_ALLOC_FAILED
  PROVE  /\ Block(result, page_count) \in Alloc
         /\ Append(page_addr, Block(result, page_count)) \in Seq(Alloc)
         /\ Books(Inside, holds, Append(page_addr, Block(result, page_count)), <<>>, lost)
         /\ InUse(Inside, holds, Append(page_addr, Block(result, page_count)), <<>>, lost) = Used
<1>1. PICK a : a = Block(result, page_count)
  OBVIOUS
<1>2. result \in Nat /\ page_count \in Nat
  BY ClientState
<1>3. a \in Alloc
  BY <1>1, <1>2 DEF Block, Alloc
<1>4. Pending = <<a>>
  BY <1>1 DEF Pending
<1>5. page_addr \in Seq(Alloc) /\ Append(page_addr, a) \in Seq(Alloc)
  BY <1>3, ClientState
<1>6. /\ Books(Inside, holds, page_addr, <<a>>, lost)
      /\ Used = InUse(Inside, holds, page_addr, <<a>>, lost)
  BY <1>4, ClientState
<1> QED BY <1>1, <1>3, <1>5, <1>6, BooksCollect

\* A client gets the list.
LEMMA Given ==
  ASSUME Inv, mode = "return", NEW l \in Seq(Alloc), Books(Inside, holds, l, <<>>, lost),
         InUse(Inside, holds, l, <<>>, lost) = Used,
         holds' = [holds EXCEPT ![call.client] = l], call_end,
         UNCHANGED <<region_vars, map_vars, boot_vars, lost>>
  PROVE  Inv'
<1>1. call # NoCall /\ holds[call.client] = <<>> /\ ~Booting
  BY ClientState DEF CallInv, Booting
<1>2. PICK c \in Clients : c = call.client
  BY <1>1, ClientState, CallType
<1>3. holds \in [Clients -> Seq(Alloc)] /\ DOMAIN holds = Clients /\ lost \subseteq Nat
  BY ClientState
<1>4. holds' = [holds EXCEPT ![c] = l] /\ holds[c] = <<>>
  BY <1>1, <1>2
<1>5. holds' \in [Clients -> Seq(Alloc)]
  BY <1>3, <1>4
<1>6. /\ Books(Inside, holds', <<>>, <<>>, lost)
      /\ InUse(Inside, holds', <<>>, <<>>, lost) = Used
  <2>1. PICK I, H, G, L : I = Inside /\ H = holds /\ G = holds' /\ L = lost
    OBVIOUS
  <2>2. H[c] = <<>> /\ G[c] = l /\ \A d \in Clients : d # c => G[d] = H[d]
    BY <1>3, <1>4, <2>1
  <2>0. Books(I, H, l, <<>>, L)
    BY <2>1
  <2>3. /\ Books(I, G, <<>>, <<>>, L)
        /\ InUse(I, G, <<>>, <<>>, L) = InUse(I, H, l, <<>>, L)
    BY <2>0, <2>2, BooksGive
  <2> QED BY <2>1, <2>3
<1>7. Books(Inside, holds', <<>>, <<>>, lost') /\ InUse(Inside, holds', <<>>, <<>>, lost') = Used
  BY <1>6
<1> QED BY <1>1, <1>3, <1>5, <1>7, CallEnds

\* The returns of ialloc_kframe and ialloc_frames keep the invariant.
LEMMA ReturnsKeep ==
  ASSUME Inv, \/ ialloc_kframe_return \/ ialloc_frames_first_fails
              \/ ialloc_frames_later_fails \/ ialloc_frames_next \/ ialloc_frames_return
  PROVE  Inv'
<1>1. /\ Return /\ mode = "return" /\ ~Booting /\ UNCHANGED <<region_vars, map_vars, boot_vars>>
  BY DEF ialloc_kframe_return, ialloc_frames_first_fails, ialloc_frames_later_fails,
         ialloc_frames_next, ialloc_frames_return, Return, Booting
<1>2. /\ call # NoCall /\ call.client \in Clients /\ holds[call.client] = <<>>
      /\ call.op = "ialloc_kframe" => page_addr = <<>>
  BY <1>1, ClientState, CallType DEF CallInv
<1>3. result = FRAME_ALLOC_FAILED => Pending = <<>>
  BY DEF Pending
<1>4. CASE ialloc_kframe_return
  <2>1. call_end /\ UNCHANGED lost /\ page_addr = <<>>
    BY <1>2, <1>4 DEF ialloc_kframe_return
  <2>2. CASE result = FRAME_ALLOC_FAILED
    <3>1. holds' = holds /\ lost' = lost
      BY <1>4, <2>1, <2>2 DEF ialloc_kframe_return
    <3>2. /\ Books(Inside, holds', <<>>, <<>>, lost')
          /\ InUse(Inside, holds', <<>>, <<>>, lost') = Used
      BY <1>3, <2>1, <2>2, <3>1, ClientState
    <3>3. holds' \in [Clients -> Seq(Alloc)] /\ lost' \subseteq Nat
      BY <3>1, ClientState
    <3> QED BY <1>1, <2>1, <3>2, <3>3, CallEnds
  <2>3. CASE result # FRAME_ALLOC_FAILED
    <3>1. PICK l \in Seq(Alloc) : l = Append(page_addr, Block(result, page_count))
      BY <1>1, <2>3, Collected
    <3>2. /\ Books(Inside, holds, l, <<>>, lost)
          /\ InUse(Inside, holds, l, <<>>, lost) = Used
      BY <1>1, <2>3, <3>1, Collected
    <3>3. l = <<Block(result, page_count)>>
      BY <2>1, <3>1
    <3>4. holds' = [holds EXCEPT ![call.client] = l]
      BY <1>4, <2>3, <3>3 DEF ialloc_kframe_return
    <3> QED BY <1>1, <2>1, <3>2, <3>4, Given
  <2> QED BY <2>2, <2>3
<1>5. CASE ialloc_frames_first_fails
  <2>1. /\ mode' = "fault" /\ page_addr = <<>> /\ result = FRAME_ALLOC_FAILED
        /\ UNCHANGED <<page_count, base, carried_run, run_start, result>>
        /\ UNCHANGED <<call, page_addr, region_i, holds, lost>>
    BY <1>5 DEF ialloc_frames_first_fails, scan_vars, call_vars
  <2>2. Pending = <<>> /\ Pending' = <<>>
    BY <1>3, <2>1 DEF Pending
  <2>3. /\ Books(Inside, holds', page_addr', Pending', lost')
        /\ InUse(Inside, holds', page_addr', Pending', lost') = Used
    BY <2>1, <2>2, ClientState
  <2>4. RegionInv' /\ KernelInv' /\ BooksInv' /\ MarksInv'
    BY <1>1, <2>1, <2>3, ClientState, ClientStep
  <2>5. TypeOK'
    BY <1>1, <2>1, ClientState, ClientTypes DEF map_vars, TypeOK
  <2>6. CallInv' /\ ScanInv'
    BY <2>1 DEF CallInv, ScanInv, Booting
  <2> QED BY <2>4, <2>5, <2>6 DEF Inv
<1>6. CASE ialloc_frames_later_fails
  <2>1. /\ result = FRAME_ALLOC_FAILED /\ lost' = lost \cup FramesIn(page_addr)
        /\ call_end /\ holds' = holds
    BY <1>6 DEF ialloc_frames_later_fails
  <2>2. FramesIn(page_addr) = Covered(Inside, page_addr) /\ FramesIn(page_addr) \subseteq Nat
    BY ClientState, FramesInIs
  <2>3. /\ Books(Inside, holds, page_addr, <<>>, lost)
        /\ Used = InUse(Inside, holds, page_addr, <<>>, lost)
    BY <1>3, <2>1, ClientState
  <2>4. /\ Books(Inside, holds', <<>>, <<>>, lost')
        /\ InUse(Inside, holds', <<>>, <<>>, lost') = Used
    BY <2>1, <2>2, <2>3, BooksLose
  <2>5. holds' \in [Clients -> Seq(Alloc)] /\ lost' \subseteq Nat
    BY <2>1, <2>2, ClientState
  <2> QED BY <1>1, <2>1, <2>4, <2>5, CallEnds
<1>7. CASE ialloc_frames_next
  <2>1. /\ call.op = "ialloc_frames" /\ result # FRAME_ALLOC_FAILED
        /\ page_addr' = Append(page_addr, Block(result, page_count))
        /\ mode' = "scan" /\ region_i' = 0 /\ page_count' = 1 /\ base' = 0
        /\ carried_run' = 0 /\ run_start' = 0 /\ result' = FRAME_ALLOC_FAILED
        /\ UNCHANGED <<call, holds, lost>>
    BY <1>7 DEF ialloc_frames_next, scan_begin, scan_locals_dead
  <2>2. PICK l \in Seq(Alloc) : l = page_addr'
    BY <1>1, <2>1, Collected
  <2>3. /\ Books(Inside, holds', l, <<>>, lost')
        /\ InUse(Inside, holds', l, <<>>, lost') = Used
    BY <1>1, <2>1, <2>2, Collected
  <2>4. Pending' = <<>>
    BY <2>1 DEF Pending
  <2>5. RegionInv' /\ KernelInv' /\ BooksInv' /\ MarksInv'
    BY <1>1, <2>1, <2>2, <2>3, <2>4, ClientState, ClientStep
  <2>6. TypeOK'
    BY <1>1, <2>1, <2>2, ClientState, ClientTypes DEF map_vars, TypeOK
  <2>7. CallInv'
    BY <1>2, <2>1 DEF CallInv, Booting
  <2>8. ScanInv'
    BY <1>1, <2>1, ClientState, BeginScan
  <2> QED BY <2>5, <2>6, <2>7, <2>8 DEF Inv
<1>8. CASE ialloc_frames_return
  <2>1. /\ result # FRAME_ALLOC_FAILED /\ call_end /\ UNCHANGED lost
        /\ holds' = [holds EXCEPT ![call.client] = Append(page_addr, Block(result, page_count))]
    BY <1>8 DEF ialloc_frames_return
  <2>2. PICK l \in Seq(Alloc) : l = Append(page_addr, Block(result, page_count))
    BY <1>1, <2>1, Collected
  <2>3. /\ Books(Inside, holds, l, <<>>, lost)
        /\ InUse(Inside, holds, l, <<>>, lost) = Used
    BY <1>1, <2>1, <2>2, Collected
  <2> QED BY <1>1, <2>1, <2>2, <2>3, Given
<1> QED BY <1>4, <1>5, <1>6, <1>7, <1>8

\* The calls begin.
LEMMA BeginsKeep ==
  ASSUME Inv, NEW c \in Clients,
         \/ \E n \in PageRequests : ialloc_kframe(c, n)
         \/ \E n \in CountRequests : ialloc_frames(c, n)
         \/ idealloc_frames(c)
  PROVE  Inv'
<1>1. ASSUME NEW n \in PageRequests, ialloc_kframe(c, n) PROVE Inv'
  <2>1. n \in Nat \ {0}
    BY MemMapAssumption
  <2>2. /\ mode = "idle" /\ holds[c] = <<>> /\ scan_begin(n)
        /\ call' = [op |-> "ialloc_kframe", client |-> c]
        /\ UNCHANGED <<region_vars, map_vars, boot_vars, page_addr, holds, lost>>
    BY <1>1 DEF ialloc_kframe
  <2>3. page_addr' = <<>>
    BY <2>2, ClientState DEF CallInv
  <2>4. /\ call'.op \in {"ialloc_kframe", "ialloc_frames"} /\ call'.client = c
        /\ call' \in [op : {"ialloc_kframe", "idealloc_frames"}, client : Clients]
    BY <2>2
  <2>5. call' # NoCall
    BY <2>4 DEF NoCall
  <2> QED BY <2>1, <2>2, <2>3, <2>4, <2>5, AllocBegins
<1>2. ASSUME NEW n \in CountRequests, ialloc_frames(c, n) PROVE Inv'
  <2>1. 1 \in Nat \ {0}
    OBVIOUS
  <2>2. /\ mode = "idle" /\ holds[c] = <<>> /\ scan_begin(1) /\ page_addr' = <<>>
        /\ call' = [op |-> "ialloc_frames", client |-> c, count |-> n]
        /\ UNCHANGED <<region_vars, map_vars, boot_vars, holds, lost>>
    BY <1>2 DEF ialloc_frames
  <2>4. /\ call'.op \in {"ialloc_kframe", "ialloc_frames"} /\ call'.client = c
        /\ call' \in [op : {"ialloc_frames"}, client : Clients, count : CountRequests]
    BY <2>2
  <2>5. call' # NoCall
    BY <2>4 DEF NoCall
  <2> QED BY <2>1, <2>2, <2>4, <2>5, AllocBegins
<1>3. CASE idealloc_frames(c)
  <2>1. /\ mode = "idle" /\ holds[c] # <<>> /\ mode' = "free" /\ page_addr' = holds[c]
        /\ call' = [op |-> "idealloc_frames", client |-> c]
        /\ holds' = [holds EXCEPT ![c] = <<>>]
        /\ UNCHANGED <<region_vars, map_vars, boot_vars, scan_vars, region_i, lost>>
    BY <1>3 DEF idealloc_frames
  <2>2. /\ call' \in [op : {"ialloc_kframe", "idealloc_frames"}, client : Clients]
        /\ call'.client = c
    BY <2>1
  <2>3. call' # NoCall
    BY <2>2 DEF NoCall
  <2>4. ~Booting /\ page_addr = <<>> /\ Pending = <<>> /\ Pending' = <<>>
    BY <2>1, ClientState DEF CallInv, Booting, Pending
  <2>5. /\ holds' \in [Clients -> Seq(Alloc)] /\ holds[c] \in Seq(Alloc) /\ holds'[c] = <<>>
        /\ \A d \in Clients : d # c => holds'[d] = holds[d]
    BY <2>1, ClientState
  <2>6. /\ Books(Inside, holds', page_addr', Pending', lost')
        /\ InUse(Inside, holds', page_addr', Pending', lost') = Used
    <3>1. PICK I, H, G, L : I = Inside /\ H = holds /\ G = holds' /\ L = lost
      OBVIOUS
    <3>2. G[c] = <<>> /\ \A d \in Clients : d # c => G[d] = H[d]
      BY <2>5, <3>1
    <3>3. Books(I, H, <<>>, <<>>, L) /\ InUse(I, H, <<>>, <<>>, L) = Used
      BY <2>4, <3>1, ClientState
    <3>4. /\ Books(I, G, H[c], <<>>, L)
          /\ InUse(I, G, H[c], <<>>, L) = InUse(I, H, <<>>, <<>>, L)
      BY <3>2, <3>3, BooksTake
    <3> QED BY <2>1, <2>4, <3>1, <3>3, <3>4
  <2>7. RegionInv' /\ KernelInv' /\ BooksInv' /\ MarksInv'
    BY <2>1, <2>4, <2>6, ClientState, ClientStep
  <2>8. UNCHANGED <<page_count, base, carried_run, run_start, result, free_frames, bitmap>>
    BY <2>1 DEF scan_vars, map_vars
  <2>9. TypeOK'
    BY <2>1, <2>2, <2>5, <2>8, ClientState, ClientTypes
  <2>10. CallInv' /\ ScanInv'
    BY <2>1, <2>2, <2>3, <2>5 DEF CallInv, ScanInv, Booting
  <2> QED BY <2>7, <2>9, <2>10 DEF Inv
<1> QED BY <1>1, <1>2, <1>3

\* An entry a of the list is released and the list becomes q, as part of a step
\* that leaves the rest of the books alone.
LEMMA Released ==
  ASSUME Inv, ~Booting, mode = "free", mode' \in {"free", "idle"}, NEW a \in Alloc, NEW q,
         map_dealloc_frame(a.first, a.n), page_addr' = q,
         UNCHANGED <<region_vars, boot_vars, holds, lost>>,
         Separate(Inside, q), Covered(Inside, <<a>>) \subseteq Covered(Inside, page_addr),
         Covered(Inside, q) = Covered(Inside, page_addr) \ Covered(Inside, <<a>>)
  PROVE  /\ RegionInv' /\ KernelInv' /\ BooksInv' /\ MarksInv'
         /\ free_frames' \in [Regions -> Nat] /\ bitmap' \subseteq Nat
<1>1. PICK X, U : X = Covered(Inside, <<a>>) /\ U = Used
  OBVIOUS
<1>2. UNCHANGED <<tag, entry, boot_free, boot_bitmap>>
  BY DEF boot_vars
<1>3. Pending = <<>> /\ Pending' = <<>>
  BY DEF Pending
<1>4. /\ Books(Inside, holds, page_addr, <<>>, lost)
      /\ U = InUse(Inside, holds, page_addr, <<>>, lost)
  BY <1>1, <1>3, ClientState
<1>5. X \subseteq U
  BY <1>1, <1>4 DEF InUse
<1>6. Marks(U)
  BY <1>1, ClientState DEF MarksInv
<1>7. Marks(U \ X)' /\ free_frames' \in [Regions -> Nat] /\ bitmap' \subseteq Nat
  BY <1>1, <1>2, <1>5, <1>6, ClientState, FreeBlock
<1>8. RegionInv' /\ KernelInv' /\ Inside' = Inside
  BY <1>2, ClientState, Steady
<1>9. Books(Inside, holds, q, <<>>, lost) /\ InUse(Inside, holds, q, <<>>, lost) = U \ X
  <2>1. PICK I, H, p, L : I = Inside /\ H = holds /\ p = page_addr /\ L = lost
    OBVIOUS
  <2>2. Books(I, H, p, <<>>, L)
    BY <1>4, <2>1
  <2>3. Separate(I, q)
    BY <2>1
  <2>4. X = Covered(I, p) \ Covered(I, q) /\ \A x : x \in Covered(I, q) => x \in Covered(I, p)
    BY <1>1, <2>1
  <2>5. /\ Books(I, H, q, <<>>, L)
        /\ InUse(I, H, q, <<>>, L) = InUse(I, H, p, <<>>, L) \ (Covered(I, p) \ Covered(I, q))
    BY <2>2, <2>3, <2>4, BooksDrop
  <2> QED BY <1>4, <2>1, <2>4, <2>5
<1>10. BooksInv' /\ Used' = U \ X
  BY <1>3, <1>8, <1>9 DEF BooksInv, Used
<1>11. MarksInv'
  BY <1>7, <1>10 DEF MarksInv, Marks
<1> QED BY <1>7, <1>8, <1>10, <1>11

\* The releases keep the invariant.
LEMMA FreesKeep ==
  ASSUME Inv, idealloc_next \/ idealloc_last
  PROVE  Inv'
<1>1. /\ mode = "free" /\ ~Booting /\ UNCHANGED <<region_vars, boot_vars, holds>>
  BY DEF idealloc_next, idealloc_last, Freeing, Booting
<1>2. /\ page_addr \in Seq(Alloc) /\ Pending = <<>> /\ page_addr # <<>>
      /\ call # NoCall /\ holds[call.client] = <<>>
  BY <1>1, ClientState DEF Pending, CallInv
<1>3. /\ Separate(Inside, page_addr) /\ Books(Inside, holds, page_addr, <<>>, lost)
      /\ Used = InUse(Inside, holds, page_addr, <<>>, lost)
  BY <1>2, ClientState DEF Books
<1>4. PICK p \in Seq(Alloc) : p = page_addr
  BY <1>2
<1>5. CASE idealloc_next
  <2>1. Len(p) > 1 /\ Len(p) \in Nat /\ p[2] \in Alloc /\ 2 \in DOMAIN p
    <3>1. Len(p) > 1 /\ Len(p) \in Nat /\ DOMAIN p = 1..Len(p)
      BY <1>4, <1>5 DEF idealloc_next
    <3>2. 2 \in DOMAIN p
      BY <3>1
    <3> QED BY <3>1, <3>2
  <2>2. PICK a \in Alloc : a = p[2]
    BY <2>1
  <2>3. CASE OutOfRange(a.first, a.first + a.n)
    <3>1. lost' = lost \cup FramesIn(page_addr) /\ call_end /\ UNCHANGED map_vars
      BY <1>4, <1>5, <2>2, <2>3 DEF idealloc_next
    <3>2. FramesIn(page_addr) = Covered(Inside, page_addr) /\ FramesIn(page_addr) \subseteq Nat
      BY <1>2, FramesInIs
    <3>3. /\ Books(Inside, holds', <<>>, <<>>, lost')
          /\ InUse(Inside, holds', <<>>, <<>>, lost') = Used
      BY <1>1, <1>3, <3>1, <3>2, BooksLose
    <3>4. holds' \in [Clients -> Seq(Alloc)] /\ lost' \subseteq Nat
      BY <1>1, <3>1, <3>2, ClientState
    <3> QED BY <1>1, <3>1, <3>3, <3>4, CallEnds
  <2>4. CASE ~OutOfRange(a.first, a.first + a.n)
    <3>1. /\ map_dealloc_frame(a.first, a.n)
          /\ page_addr' = <<p[1]>> \o SubSeq(p, 3, Len(p))
          /\ UNCHANGED <<call, mode, lost, scan_vars, region_i>>
      BY <1>4, <1>5, <2>2, <2>4 DEF idealloc_next
    <3>2. PICK q \in Seq(Alloc) : q = page_addr' /\ q = DropSecond(p) /\ Len(q) = Len(p) - 1
      BY <2>1, <3>1, DropSecondIs DEF DropSecond
    <3>3. q # <<>>
      BY <2>1, <3>2
    <3>4. PICK I : I = Inside
      OBVIOUS
    <3>5. /\ Separate(I, q) /\ Covered(I, q) = Covered(I, p) \ Covered(I, <<a>>)
      <4>1. Separate(I, p)
        BY <1>3, <1>4, <3>4
      <4>2. /\ Covered(I, DropSecond(p)) = Covered(I, p) \ Covered(I, <<p[2]>>)
            /\ Separate(I, DropSecond(p))
        BY <2>1, <4>1, CoveredDrop
      <4> QED BY <2>2, <3>2, <4>2
    <3>6. Covered(I, <<a>>) \subseteq Covered(I, p)
      BY <2>1, <2>2, CoveredOne, CoveredIs
    <3>7. /\ RegionInv' /\ KernelInv' /\ BooksInv' /\ MarksInv'
          /\ free_frames' \in [Regions -> Nat] /\ bitmap' \subseteq Nat
      BY <1>1, <1>4, <3>1, <3>2, <3>4, <3>5, <3>6, Released
    <3>8. UNCHANGED <<page_count, base, carried_run, run_start, result>>
      BY <3>1 DEF scan_vars
    <3>9. TypeOK'
      BY <1>1, <3>1, <3>2, <3>7, <3>8, ClientState, ClientTypes DEF TypeOK
    <3>10. CallInv' /\ ScanInv'
      <4>1. CallInv'
        BY <1>1, <1>2, <3>1, <3>2, <3>3 DEF CallInv, Booting
      <4>2. ScanInv'
        BY <1>1, <1>2, <3>1 DEF ScanInv
      <4> QED BY <4>1, <4>2
    <3> QED BY <3>7, <3>9, <3>10 DEF Inv
  <2> QED BY <2>3, <2>4
<1>6. CASE idealloc_last
  <2>1. Len(p) = 1 /\ p[1] \in Alloc /\ call_end /\ lost' = lost
    <3>1. Len(p) = 1 /\ call_end /\ lost' = lost
      BY <1>4, <1>6 DEF idealloc_last
    <3> QED BY <1>4, <3>1
  <2>2. PICK a \in Alloc : a = p[1]
    BY <2>1
  <2>3. p = <<a>> /\ map_dealloc_frame(a.first, a.n)
    BY <1>4, <1>6, <2>1, <2>2 DEF idealloc_last
  <2>4. /\ mode' = "idle" /\ call' = NoCall /\ page_addr' = <<>> /\ Pending' = <<>>
        /\ region_i' = 0 /\ page_count' = 0 /\ base' = 0 /\ carried_run' = 0
        /\ run_start' = 0 /\ result' = FRAME_ALLOC_FAILED
        /\ CallInv' /\ ScanInv'
    BY <1>1, <2>1, EndCall
  <2>5. /\ Separate(Inside, <<>>) /\ Covered(Inside, <<a>>) \subseteq Covered(Inside, page_addr)
        /\ Covered(Inside, <<>>) = Covered(Inside, page_addr) \ Covered(Inside, <<a>>)
    BY <1>4, <2>3, CoveredEmpty
  <2>6. /\ RegionInv' /\ KernelInv' /\ BooksInv' /\ MarksInv'
        /\ free_frames' \in [Regions -> Nat] /\ bitmap' \subseteq Nat
    BY <1>1, <2>1, <2>3, <2>4, <2>5, Released
  <2>7. TypeOK'
    BY <1>1, <2>1, <2>4, <2>6, ClientState, ClientTypes
  <2> QED BY <2>4, <2>6, <2>7 DEF Inv
<1> QED BY <1>5, <1>6

\* Every step of a client keeps the invariant.
LEMMA ClientKeeps ==
  ASSUME Inv, Client
  PROVE  Inv'
<1>1. CASE \E c \in Clients : \/ \E n \in PageRequests : ialloc_kframe(c, n)
                              \/ \E n \in CountRequests : ialloc_frames(c, n)
                              \/ idealloc_frames(c)
  BY <1>1, BeginsKeep
<1>2. CASE \/ ialloc_kframe_return \/ ialloc_frames_first_fails
           \/ ialloc_frames_later_fails \/ ialloc_frames_next \/ ialloc_frames_return
  BY <1>2, ReturnsKeep
<1>3. CASE idealloc_next \/ idealloc_last
  BY <1>3, FreesKeep
<1> QED BY <1>1, <1>2, <1>3 DEF Client

-----------------------------------------------------------------------------
(* The boot                                                                *)

\* Nobody has anything.
LEMMA BooksEmpty ==
  ASSUME NEW I, NEW H, \A c \in Clients : H[c] = <<>>
  PROVE  Books(I, H, <<>>, <<>>, {}) /\ InUse(I, H, <<>>, <<>>, {}) = {}
<1>1. Covered(I, <<>>) = {} /\ Separate(I, <<>>)
  BY CoveredEmpty
<1>2. \A c \in Clients : Covered(I, H[c]) = {} /\ Separate(I, H[c])
  BY <1>1
<1>3. Books(I, H, <<>>, <<>>, {})
  BY <1>1, <1>2 DEF Books
<1>4. UNION {Covered(I, H[c]) : c \in Clients} = {}
  BY <1>2
<1> QED BY <1>1, <1>3, <1>4 DEF InUse

\* A step of the boot hands out nothing.
LEMMA BootBooks ==
  ASSUME Inv, Booting, UNCHANGED <<call_vars, holds, lost>>,
         mode' \in {"mmap", "zero", "halt", "idle"}
  PROVE  CallInv' /\ BooksInv' /\ Used' = {} /\ ScanInv'
<1>1. /\ mode \in {"mmap", "zero"} /\ (\A c \in Clients : holds[c] = <<>>) /\ lost = {}
      /\ page_addr = <<>>
  BY DEF Inv, CallInv, Booting
<1>2. /\ holds' = holds /\ lost' = {} /\ page_addr' = <<>> /\ Pending' = <<>>
  BY <1>1 DEF call_vars, Pending
<1>3. PICK I, H : I = Inside' /\ H = holds'
  OBVIOUS
<1>4. Books(I, H, <<>>, <<>>, {}) /\ InUse(I, H, <<>>, <<>>, {}) = {}
  BY <1>1, <1>2, <1>3, BooksEmpty
<1>5. BooksInv' /\ Used' = {}
  BY <1>2, <1>3, <1>4 DEF BooksInv, Used
<1>6. CallInv' /\ ScanInv'
  BY <1>1, <1>2 DEF CallInv, ScanInv, Booting
<1> QED BY <1>5, <1>6

\* The entries of a memory map.
LEMMA TagType ==
  ASSUME TypeOK, mode = "mmap", entry <= Len(tag)
  PROVE  /\ Len(tag) \in Nat /\ DOMAIN tag = 1..Len(tag) /\ entry \in DOMAIN tag
         /\ entry \in Nat
         /\ FirstFrame(tag[entry]) \in Nat /\ EndFrame(tag[entry]) \in Nat
<1>1. tag \in Seq([addr : Nat, len : Nat, available : BOOLEAN])
  BY MemMapAssumption DEF TypeOK
<1>2. Len(tag) \in Nat /\ DOMAIN tag = 1..Len(tag)
  BY <1>1
<1>3. entry \in DOMAIN tag /\ entry \in Nat
  BY <1>2 DEF TypeOK
<1>4. tag[entry] \in [addr : Nat, len : Nat, available : BOOLEAN]
  <2>1. PICK S : S = [addr : Nat, len : Nat, available : BOOLEAN]
    OBVIOUS
  <2>2. tag \in Seq(S) /\ entry \in 1..Len(tag)
    BY <1>1, <1>2, <1>3, <2>1
  <2>3. tag[entry] \in S
    BY <2>2, ElementOfSeq
  <2> QED BY <2>1, <2>3
<1>5. tag[entry].addr \in Nat /\ tag[entry].len \in Nat
  BY <1>4
<1>6. tag[entry].addr + tag[entry].len \in Nat
  BY <1>5
<1> QED BY <1>2, <1>3, <1>5, <1>6, FrameType DEF FirstFrame, EndFrame

\* There is room for a usable entry, and the count of the entries goes on.
LEMMA EntryCount ==
  ASSUME OrderlyMaps, TypeOK, RegionInv, mode = "mmap", entry <= Len(tag), entry' = entry + 1
  PROVE  /\ Usable(tag[entry]) =>
              /\ region_count + 1 <= MAX_MEM_REGIONS
              /\ region_count + 1 = Cardinality({i \in 1..(entry' - 1) : Usable(tag[i])})
         /\ ~Usable(tag[entry]) =>
              region_count = Cardinality({i \in 1..(entry' - 1) : Usable(tag[i])})
<1>1. /\ Len(tag) \in Nat /\ DOMAIN tag = 1..Len(tag) /\ entry \in DOMAIN tag /\ entry \in Nat
  BY TagType
<1>2. PICK A, B, C : /\ A = {i \in 1..(entry - 1) : Usable(tag[i])}
                     /\ B = {i \in 1..(entry' - 1) : Usable(tag[i])}
                     /\ C = {i \in 1..Len(tag) : Usable(tag[i])}
  OBVIOUS
<1>3. IsFiniteSet(1..Len(tag)) /\ A \subseteq 1..Len(tag) /\ C \subseteq 1..Len(tag)
  <2>1. IsFiniteSet(1..Len(tag))
    BY <1>1, FS_Interval
  <2>2. \A i \in 1..(entry - 1) : i \in 1..Len(tag)
    BY <1>1
  <2> QED BY <1>2, <2>1, <2>2
<1>4. IsFiniteSet(A) /\ IsFiniteSet(C) /\ region_count = Cardinality(A)
  BY <1>2, <1>3, FS_Subset DEF RegionInv
<1>5. Cardinality(C) <= MAX_MEM_REGIONS
  <2>1. tag \in MmapTags
    BY DEF TypeOK
  <2>2. Cardinality({i \in DOMAIN tag : Usable(tag[i])}) <= MAX_MEM_REGIONS
    BY <2>1 DEF OrderlyMaps
  <2> QED BY <1>1, <1>2, <2>2
<1>6. Usable(tag[entry]) => B = A \cup {entry}
  <2>1. \A i : i \in 1..(entry' - 1) <=> i \in 1..(entry - 1) \/ i = entry
    BY <1>1
  <2> QED BY <1>2, <2>1
<1>7. ~Usable(tag[entry]) => B = A
  <2>1. \A i : i \in 1..(entry' - 1) <=> i \in 1..(entry - 1) \/ i = entry
    BY <1>1
  <2> QED BY <1>2, <2>1
<1>8. ASSUME Usable(tag[entry])
      PROVE  Cardinality(B) = region_count + 1 /\ Cardinality(B) <= MAX_MEM_REGIONS
  <2>1. entry \notin A
    BY <1>1, <1>2
  <2>2. Cardinality(B) = Cardinality(A) + 1
    BY <1>4, <1>6, <1>8, <2>1, FS_AddElement
  <2>3. B \subseteq C
    <3>1. A \subseteq C
      BY <1>2, <1>3
    <3>2. entry \in C
      BY <1>1, <1>2, <1>8
    <3> QED BY <1>6, <1>8, <3>1, <3>2
  <2>4. Cardinality(B) <= Cardinality(C)
    BY <1>4, <2>3, FS_Subset
  <2>5. Cardinality(A) \in Nat /\ Cardinality(C) \in Nat
    BY <1>4, FS_CardinalityType
  <2> QED BY <1>4, <1>5, <2>2, <2>4, <2>5, MemMapAssumption
<1> QED BY <1>2, <1>4, <1>7, <1>8

\* The size of the bitmap, and that every region's bits are in it.
LEMMA BitmapSizeIs ==
  ASSUME TypeOK, RegionInv
  PROVE  /\ BitmapSize \in Nat
         /\ \A r \in Known : bitmap_start_addr[r] + Span(r) <= BitmapSize
<1>1. CASE region_count = 0
  <2>1. Known = {}
    BY <1>1 DEF Known
  <2> QED BY <1>1, <2>1 DEF BitmapSize
<1>2. CASE region_count # 0
  <2>1. PICK z \in Known : z = region_count - 1
    BY <1>2 DEF TypeOK, Known
  <2>2. bitmap_start_addr[z] \in Nat /\ Span(z) \in Nat /\ z \in Nat
    BY KnownType
  <2>3. BitmapSize = bitmap_start_addr[z] + Span(z)
    BY <1>2, <2>1 DEF BitmapSize, Span
  <2>4. ASSUME NEW r \in Known PROVE bitmap_start_addr[r] + Span(r) <= BitmapSize
    <3>1. bitmap_start_addr[r] \in Nat /\ Span(r) \in Nat /\ r \in Nat
      BY KnownType
    <3>2. r < z \/ r = z
      BY <2>1, <2>2, <3>1 DEF Known, TypeOK
    <3>3. r < z => bitmap_start_addr[r] + Span(r) <= bitmap_start_addr[z]
      BY DEF RegionInv
    <3> QED BY <2>2, <2>3, <3>1, <3>2, <3>3
  <2> QED BY <2>2, <2>3, <2>4
<1> QED BY <1>1, <1>2

\* A usable entry becomes a region.
LEMMA RegisterKeeps ==
  ASSUME OrderlyMaps, RegionsIn32Bits, TypeOK, RegionInv, mode = "mmap", mode' = "mmap",
         entry <= Len(tag), entry' = entry + 1, tag' = tag, Usable(tag[entry]),
         memmap_register_region(FirstFrame(tag[entry]), EndFrame(tag[entry]))
  PROVE  /\ RegionInv' /\ region_count' \in 0..MAX_MEM_REGIONS
         /\ start_addr' \in [Regions -> Nat] /\ frames' \in [Regions -> Nat]
         /\ bitmap_start_addr' \in [Regions -> Nat] /\ qword_count' \in [Regions -> Nat]
         /\ free_frames' \in [Regions -> Nat]
<1>1. /\ Len(tag) \in Nat /\ DOMAIN tag = 1..Len(tag) /\ entry \in DOMAIN tag /\ entry \in Nat
      /\ FirstFrame(tag[entry]) \in Nat /\ EndFrame(tag[entry]) \in Nat
  BY TagType
<1>2. PICK s, n, w, b, k \in Nat :
        /\ s = FirstFrame(tag[entry]) /\ n = EndFrame(tag[entry]) - s /\ n >= 1
        /\ w = Words(n) /\ n <= WORD * w /\ b = BitmapSize /\ k = region_count
  <2>1. PICK s, n \in Nat : s = FirstFrame(tag[entry]) /\ n = EndFrame(tag[entry]) - s /\ n >= 1
    BY <1>1 DEF Usable
  <2>2. Words(n) \in Nat /\ n <= WORD * Words(n)
    BY WordsCover
  <2>3. BitmapSize \in Nat /\ region_count \in Nat
    BY BitmapSizeIs DEF TypeOK
  <2> QED BY <2>1, <2>2, <2>3
<1>3. k + 1 <= MAX_MEM_REGIONS /\ k + 1 = Cardinality({i \in 1..(entry' - 1) : Usable(tag[i])})
  BY <1>2, EntryCount
<1>4. k \in Regions
  BY <1>2, <1>3, MemMapAssumption DEF Regions
<1>5. /\ start_addr' = [start_addr EXCEPT ![k] = s] /\ frames' = [frames EXCEPT ![k] = n]
      /\ qword_count' = [qword_count EXCEPT ![k] = w]
      /\ free_frames' = [free_frames EXCEPT ![k] = n]
      /\ bitmap_start_addr' = [bitmap_start_addr EXCEPT ![k] = b] /\ region_count' = k + 1
  BY <1>2 DEF memmap_register_region, Words
<1>6. /\ region_count' \in 0..MAX_MEM_REGIONS
      /\ start_addr' \in [Regions -> Nat] /\ frames' \in [Regions -> Nat]
      /\ bitmap_start_addr' \in [Regions -> Nat] /\ qword_count' \in [Regions -> Nat]
      /\ free_frames' \in [Regions -> Nat]
  <2>1. region_count' \in 0..MAX_MEM_REGIONS
    BY <1>3, <1>5, MemMapAssumption
  <2> QED BY <1>4, <1>5, <2>1 DEF TypeOK
<1>7. \A r : r \in Known' <=> r \in Known \/ r = k
  BY <1>2, <1>5 DEF Known
<1>8. start_addr'[k] = s /\ frames'[k] = n /\ bitmap_start_addr'[k] = b /\ Span(k)' = WORD * w
  BY <1>4, <1>5 DEF TypeOK, Span
<1>9. \A r \in Known : /\ start_addr'[r] = start_addr[r] /\ frames'[r] = frames[r]
                       /\ bitmap_start_addr'[r] = bitmap_start_addr[r] /\ Span(r)' = Span(r)
                       /\ r < k /\ r \in Nat
  <2> TAKE r \in Known
  <2>1. r \in Regions /\ r # k /\ r < k /\ r \in Nat
    BY <1>2, KnownType DEF Known
  <2> QED BY <1>5, <2>1 DEF TypeOK, Span
<1>10. ASSUME NEW r \in Known' PROVE frames'[r] >= 1 /\ frames'[r] <= Span(r)'
  <2>1. CASE r = k
    BY <1>2, <1>8, <2>1
  <2>2. CASE r \in Known
    BY <1>9, <2>2 DEF RegionInv
  <2> QED BY <1>7, <2>1, <2>2
<1>11. \A r \in Known : start_addr[r] + Span(r) <= s /\ bitmap_start_addr[r] + Span(r) <= b
  <2> TAKE r \in Known
  <2>1. entry \in entry..Len(tag)
    BY <1>1
  <2>2. start_addr[r] + Span(r) <= FirstFrame(tag[entry])
    BY <2>1 DEF RegionInv
  <2> QED BY <1>2, <2>2, BitmapSizeIs
<1>12. ASSUME NEW q \in Known', NEW r \in Known', q < r
       PROVE  /\ start_addr'[q] + Span(q)' <= start_addr'[r]
              /\ bitmap_start_addr'[q] + Span(q)' <= bitmap_start_addr'[r]
  <2>1. q \in Known
    BY <1>2, <1>7, <1>9, <1>12
  <2>2. CASE r = k
    BY <1>8, <1>9, <1>11, <2>1, <2>2
  <2>3. CASE r \in Known
    BY <1>9, <1>12, <2>1, <2>3 DEF RegionInv
  <2> QED BY <1>7, <2>2, <2>3
<1>13. ASSUME NEW r \in Known', NEW i \in entry'..Len(tag), Usable(tag[i])
       PROVE  start_addr'[r] + Span(r)' <= FirstFrame(tag[i])
  <2>1. i \in entry..Len(tag) /\ i \in DOMAIN tag /\ entry < i
    BY <1>1
  <2>2. CASE r = k
    <3>1. tag \in MmapTags
      BY DEF TypeOK
    <3>2. FirstFrame(tag[entry]) + WORD * Words(EndFrame(tag[entry]) - FirstFrame(tag[entry]))
            <= FirstFrame(tag[i])
      BY <1>1, <1>13, <2>1, <3>1 DEF OrderlyMaps
    <3> QED BY <1>2, <1>8, <2>2, <3>2
  <2>3. CASE r \in Known
    BY <1>9, <1>13, <2>1, <2>3 DEF RegionInv
  <2> QED BY <1>7, <2>2, <2>3
<1>14. \A r \in Known' : Span(r)' * DEFAULT_PAGE_SIZE <= UINT32
  <2>1. tag \in MmapTags
    BY DEF TypeOK
  <2>2. WORD * w * DEFAULT_PAGE_SIZE <= UINT32
    BY <1>1, <1>2, <2>1 DEF RegionsIn32Bits
  <2>3. ASSUME NEW r \in Known PROVE Span(r)' * DEFAULT_PAGE_SIZE <= UINT32
    BY <1>9 DEF RegionInv
  <2> QED BY <1>7, <1>8, <2>2, <2>3
<1>15. RegionInv'
  <2>1. region_count' = Cardinality({i \in 1..(entry' - 1) : Usable(tag'[i])})
    BY <1>3, <1>5
  <2>2. \A r \in Known' : \A i \in entry'..Len(tag') :
          Usable(tag'[i]) => start_addr'[r] + Span(r)' <= FirstFrame(tag'[i])
    BY <1>13
  <2>3. \A r \in Known' : frames'[r] >= 1 /\ frames'[r] <= Span(r)'
    BY <1>10
  <2>4. \A q, r \in Known' : q < r => /\ start_addr'[q] + Span(q)' <= start_addr'[r]
                                      /\ bitmap_start_addr'[q] + Span(q)' <= bitmap_start_addr'[r]
    BY <1>12
  <2> QED BY <1>14, <2>1, <2>2, <2>3, <2>4 DEF RegionInv
<1> QED BY <1>6, <1>15

\* The regions do not change after the last entry of the map.
LEMMA RegionsKept ==
  ASSUME RegionInv, UNCHANGED <<region_vars, tag, entry>>, mode' # "mmap"
  PROVE  RegionInv' /\ Known' = Known
BY DEF RegionInv, Known, Span, region_vars

\* Marking a range that reaches a region marks bits of the bitmap.
LEMMA BitsType ==
  ASSUME TypeOK, RegionInv, NEW r \in Known, NEW first \in Nat, NEW end \in Int, NEW n \in Int,
         Contains(r, first, end)
  PROVE  BitsOf(r, first, n) \subseteq Nat
<1>1. start_addr[r] \in Nat /\ bitmap_start_addr[r] \in Nat /\ start_addr[r] <= first
  BY KnownType DEF Contains
<1>2. bitmap_start_addr[r] + first - start_addr[r] \in Nat
  BY <1>1
<1> QED BY <1>2 DEF BitsOf

\* Reading an entry of the memory map keeps the invariant.
LEMMA EntryKeeps ==
  ASSUME OrderlyMaps, RegionsIn32Bits, Inv, mmap_entry
  PROVE  Inv'
<1>1. /\ TypeOK /\ RegionInv /\ mode = "mmap" /\ entry <= Len(tag) /\ Booting
  BY DEF Inv, mmap_entry, Booting
<1>2. /\ entry' = entry + 1 /\ mode' = "mmap" /\ Booting'
      /\ UNCHANGED <<bitmap, tag, boot_free, boot_bitmap, region_i, holds, lost>>
      /\ UNCHANGED <<page_count, base, carried_run, run_start, result, call, page_addr>>
  BY <1>1 DEF mmap_entry, scan_vars, call_vars, Booting
<1>3. CallInv' /\ BooksInv' /\ ScanInv'
  BY <1>1, <1>2, BootBooks DEF call_vars
<1>4. MarksInv' /\ KernelInv'
  BY <1>2 DEF MarksInv, KernelInv
<1>5. entry' \in 1..(Len(tag') + 1)
  BY <1>1, <1>2, TagType
<1>6. CASE Usable(tag[entry])
  <2>1. memmap_register_region(FirstFrame(tag[entry]), EndFrame(tag[entry]))
    BY <1>6 DEF mmap_entry, Usable, FirstFrame, EndFrame
  <2>2. /\ RegionInv' /\ region_count' \in 0..MAX_MEM_REGIONS
        /\ start_addr' \in [Regions -> Nat] /\ frames' \in [Regions -> Nat]
        /\ bitmap_start_addr' \in [Regions -> Nat] /\ qword_count' \in [Regions -> Nat]
        /\ free_frames' \in [Regions -> Nat]
    BY <1>1, <1>2, <1>6, <2>1, RegisterKeeps
  <2>3. TypeOK'
    BY <1>1, <1>2, <1>5, <2>2 DEF TypeOK
  <2> QED BY <1>3, <1>4, <2>2, <2>3 DEF Inv
<1>7. CASE ~Usable(tag[entry])
  <2>1. UNCHANGED <<region_vars, free_frames>>
    BY <1>7 DEF mmap_entry, Usable, FirstFrame, EndFrame
  <2>2. UNCHANGED <<region_count, start_addr, frames, bitmap_start_addr, qword_count>>
    BY <2>1 DEF region_vars
  <2>3. region_count' = Cardinality({i \in 1..(entry' - 1) : Usable(tag'[i])})
    BY <1>1, <1>2, <1>7, <2>2, EntryCount
  <2>4. Known' = Known /\ \A r : Span(r)' = Span(r)
    BY <2>2 DEF Known, Span
  <2>5. \A r \in Known' : \A i \in entry'..Len(tag') :
          Usable(tag'[i]) => start_addr'[r] + Span(r)' <= FirstFrame(tag'[i])
    <3>1. \A i \in entry'..Len(tag') : i \in entry..Len(tag)
      BY <1>1, <1>2, TagType
    <3> QED BY <1>1, <1>2, <2>2, <2>4, <3>1 DEF RegionInv
  <2>6. \A r \in Known' : frames'[r] >= 1 /\ frames'[r] <= Span(r)'
    BY <1>1, <2>2, <2>4 DEF RegionInv
  <2>7. \A q, r \in Known' : q < r => /\ start_addr'[q] + Span(q)' <= start_addr'[r]
                                      /\ bitmap_start_addr'[q] + Span(q)' <= bitmap_start_addr'[r]
    BY <1>1, <2>2, <2>4 DEF RegionInv
  <2>8. RegionInv'
    <3>1. \A r \in Known' : Span(r)' * DEFAULT_PAGE_SIZE <= UINT32
      BY <1>1, <2>4 DEF RegionInv
    <3> QED BY <2>3, <2>5, <2>6, <2>7, <3>1 DEF RegionInv
  <2>9. TypeOK'
    BY <1>1, <1>2, <1>5, <2>1, <2>2 DEF TypeOK
  <2> QED BY <1>3, <1>4, <2>8, <2>9 DEF Inv
<1> QED BY <1>6, <1>7

\* Clearing the bitmap and marking what zero_mem_map takes for the padding keep
\* the invariant, unless a counter wraps.
LEMMA ZeroKeeps ==
  ASSUME Inv, BootCountsDoNotWrap', zero_mem_map \/ zero_mem_map_pad
  PROVE  Inv'
<1>1. /\ TypeOK /\ RegionInv /\ Booting /\ mode' = "zero" /\ Booting'
      /\ UNCHANGED <<region_vars, tag, entry, boot_free, boot_bitmap, holds, lost>>
      /\ UNCHANGED <<page_count, base, carried_run, run_start, result, call, page_addr>>
  BY DEF Inv, zero_mem_map, zero_mem_map_pad, Booting, scan_vars, call_vars, boot_vars
<1>2. CallInv' /\ BooksInv' /\ ScanInv' /\ MarksInv' /\ KernelInv'
  BY <1>1, BootBooks DEF call_vars, MarksInv, KernelInv
<1>3. RegionInv'
  BY <1>1, RegionsKept
<1>4. free_frames' \in [Regions -> Nat]
  BY <1>1 DEF BootCountsDoNotWrap
<1>5. region_i' \in 0..MAX_MEM_REGIONS
  BY <1>1, MemMapAssumption DEF zero_mem_map, zero_mem_map_pad, TypeOK
<1>6. bitmap' \subseteq Nat
  <2>1. CASE zero_mem_map
    BY <2>1 DEF zero_mem_map
  <2>2. CASE zero_mem_map_pad
    <3>1. PICK n, from : /\ n = qword_count[region_i] * WORD - frames[region_i]
                         /\ from = bitmap_start_addr[region_i]
                                     + frames[region_i] * DEFAULT_PAGE_SIZE
      OBVIOUS
    <3>2. region_i \in Known
      BY <1>1, <2>2 DEF zero_mem_map_pad, TypeOK, Known
    <3>3. /\ qword_count[region_i] \in Nat /\ frames[region_i] \in Nat
          /\ bitmap_start_addr[region_i] \in Nat /\ Span(region_i) \in Nat
          /\ frames[region_i] <= Span(region_i)
      BY <1>1, <3>2, KnownType
    <3>4. n \in Nat /\ from \in Nat
      <4>0. \A x, y \in Nat : x * y = y * x
        OBVIOUS
      <4>1. qword_count[region_i] * WORD = Span(region_i)
        <5>1. WORD \in Nat
          BY MemMapAssumption
        <5> QED BY <3>3, <4>0, <5>1 DEF Span
      <4>2. n \in Nat
        BY <3>1, <3>3, <4>1
      <4>3. frames[region_i] * DEFAULT_PAGE_SIZE \in Nat
        BY <3>3, MemMapAssumption
      <4> QED BY <3>1, <3>3, <4>2, <4>3
    <3>5. n * DEFAULT_PAGE_SIZE \in Nat
      BY <3>4, MemMapAssumption
    <3>6. from + n * DEFAULT_PAGE_SIZE \in Nat
      BY <3>4, <3>5
    <3>7. PICK first, end \in Nat : /\ first = frame_down(from)
                                    /\ end = frame_up(from + n * DEFAULT_PAGE_SIZE)
      BY <3>4, <3>6, FrameType
    <3>8. CASE Reaches(first, end)
      <4>1. PICK q \in Known : Contains(q, first, end) /\ bitmap' = bitmap \cup BitsOf(q, first, n)
        BY <2>2, <3>1, <3>7, <3>8 DEF zero_mem_map_pad, IsRegionOf, Known
      <4>2. BitsOf(q, first, n) \subseteq Nat
        <5>1. end \in Int /\ n \in Int
          BY <3>4
        <5> QED BY <1>1, <4>1, <5>1, BitsType
      <4> QED BY <1>1, <4>1, <4>2 DEF TypeOK
    <3>9. CASE ~Reaches(first, end)
      BY <1>1, <2>2, <3>1, <3>7, <3>9 DEF zero_mem_map_pad, map_vars, TypeOK
    <3> QED BY <3>8, <3>9
  <2> QED BY <2>1, <2>2
<1>7. TypeOK'
  BY <1>1, <1>4, <1>5, <1>6 DEF TypeOK, region_vars
<1> QED BY <1>2, <1>3, <1>7 DEF Inv

\* Reserving the kernel keeps the invariant, unless a counter wraps: what is
\* marked now is what the map owes nobody.
LEMMA ReserveKeeps ==
  ASSUME Inv, BootCountsDoNotWrap', reserve_kernel
  PROVE  Inv'
<1>1. /\ TypeOK /\ RegionInv /\ Booting /\ mode' \in {"halt", "idle"}
      /\ boot_free' = free_frames' /\ boot_bitmap' = bitmap'
      /\ set_mem_region(KernelStart, KernelEnd, KernelEnd - KernelStart)
      /\ UNCHANGED <<region_vars, tag, entry, region_i, holds, lost>>
      /\ UNCHANGED <<page_count, base, carried_run, run_start, result, call, page_addr>>
  BY DEF Inv, reserve_kernel, Booting, scan_vars, call_vars
<1>2. CallInv' /\ BooksInv' /\ ScanInv' /\ Used' = {}
  BY <1>1, BootBooks DEF call_vars
<1>3. RegionInv' /\ Known' = Known
  BY <1>1, RegionsKept
<1>4. boot_free' \in [Regions -> Nat] /\ free_frames' \in [Regions -> Nat]
  BY <1>1 DEF BootCountsDoNotWrap
<1>5. PICK first, end \in Nat, n \in Int :
        first = KernelStart /\ end = KernelEnd /\ n = end - first /\ first + n = end
  <2>1. BitmapData + BitmapSize \in Nat
    BY <1>1, BitmapSizeIs, MemMapAssumption
  <2>2. KernelEnd \in Nat /\ KernelStart \in Nat
    BY <2>1, FrameType, MemMapAssumption DEF KernelEnd
  <2> QED BY <2>2
<1>6. Reaches(first, end) =>
        \E r \in Known : Contains(r, first, end) /\ bitmap' = bitmap \cup BitsOf(r, first, n)
  BY <1>1, <1>5 DEF set_mem_region, IsRegionOf, Known
<1>7. bitmap' \subseteq Nat
  <2>1. CASE Reaches(first, end)
    <3>1. PICK r \in Known : Contains(r, first, end) /\ bitmap' = bitmap \cup BitsOf(r, first, n)
      BY <1>6, <2>1
    <3>2. BitsOf(r, first, n) \subseteq Nat
      <4>1. end \in Int
        OBVIOUS
      <4> QED BY <1>1, <3>1, <4>1, BitsType
    <3> QED BY <1>1, <3>1, <3>2 DEF TypeOK
  <2>2. CASE ~Reaches(first, end)
    BY <1>1, <1>5, <2>2 DEF set_mem_region, map_vars, TypeOK
  <2> QED BY <2>1, <2>2
<1>8. TypeOK'
  BY <1>1, <1>4, <1>7 DEF TypeOK, region_vars
<1>9. MarksInv'
  <2>1. \A S : {} \cap S = {}
    OBVIOUS
  <2>2. Cardinality({}) = 0
    BY FS_EmptySet
  <2>3. ASSUME NEW r \in Known' PROVE free_frames'[r] = boot_free'[r] - 0
    <3>1. r \in Regions
      BY <1>1, <1>3, <2>3, KnownType
    <3>2. boot_free'[r] \in Nat
      BY <1>4, <3>1
    <3> QED BY <1>1, <3>2
  <2> QED BY <1>1, <1>2, <2>1, <2>2, <2>3 DEF MarksInv, Marks
<1>10. KernelInv'
  <2>1. SUFFICES ASSUME Reaches(first, end), NEW q \in Known, NEW f \in RegionFrames(q),
                        f \in first..(end - 1)
                 PROVE  Bit(q, f) \in bitmap'
    BY <1>1, <1>5 DEF KernelInv, Reaches, OutOfRange, Contains, RegionEnd, KernelEnd,
                      BitmapSize, Known, RegionFrames, Bit, region_vars
  <2>2. PICK r \in Known : Contains(r, first, end) /\ bitmap' = bitmap \cup BitsOf(r, first, n)
    BY <1>6, <2>1
  <2>3. f \in RegionFrames(r)
    <3>1. /\ start_addr[r] \in Nat /\ frames[r] \in Nat
          /\ RegionFrames(r) = start_addr[r]..(start_addr[r] + frames[r] - 1)
      BY <1>1, KnownType
    <3>2. start_addr[r] <= first /\ end <= start_addr[r] + frames[r]
      BY <2>2 DEF Contains, RegionEnd
    <3>3. f \in start_addr[r]..(start_addr[r] + frames[r] - 1)
      BY <2>1, <3>1, <3>2
    <3> QED BY <3>1, <3>3
  <2>4. q = r
    BY <1>1, <2>1, <2>3, FramesApart
  <2>5. Contains(r, first, first + n)
    BY <1>5, <2>2
  <2>6. f \in first..(first + n - 1)
    BY <1>5, <2>1
  <2>7. Bit(q, f) \in BitsOf(r, first, n)
    BY <1>1, <2>1, <2>4, <2>5, <2>6, BitsApart
  <2> QED BY <2>2, <2>7
<1> QED BY <1>2, <1>3, <1>8, <1>9, <1>10 DEF Inv

-----------------------------------------------------------------------------
(* The theorems                                                            *)

\* Doing nothing keeps the invariant.
LEMMA StutterKeeps ==
  ASSUME Inv, UNCHANGED vars
  PROVE  Inv'
<1>1. /\ UNCHANGED <<region_count, start_addr, frames, bitmap_start_addr, qword_count>>
      /\ UNCHANGED <<free_frames, bitmap, tag, entry, boot_free, boot_bitmap>>
      /\ UNCHANGED <<page_count, base, carried_run, run_start, result, call, page_addr>>
      /\ UNCHANGED <<mode, region_i, holds, lost>>
  BY DEF vars, region_vars, map_vars, boot_vars, scan_vars, call_vars
<1>2. TypeOK' /\ RegionInv' /\ CallInv' /\ KernelInv'
  <2>1. TypeOK'
    BY <1>1 DEF Inv, TypeOK
  <2>2. RegionInv'
    BY <1>1 DEF Inv, RegionInv, Known, Span, Booting, Contains, RegionEnd, RegionFrames
  <2>3. CallInv'
    BY <1>1 DEF Inv, CallInv, Booting
  <2>4. KernelInv'
    BY <1>1 DEF Inv, KernelInv, Known, Booting, Reaches, OutOfRange, Contains, RegionEnd,
       RegionFrames, KernelEnd, BitmapSize, Bit
  <2> QED BY <2>1, <2>2, <2>3, <2>4
<1>3. Inside' = Inside /\ Pending' = Pending
  BY <1>1 DEF Inside, InsideRegion, Contains, RegionEnd, Pending
<1>4. BooksInv' /\ Used' = Used
  BY <1>1, <1>3 DEF Inv, BooksInv, Used
<1>5. MarksInv'
  BY <1>1, <1>4 DEF Inv, MarksInv, Marks, Booting, Known, RegionFrames, RegionEnd, Bit
<1>6. \A r : Marked(r)' = Marked(r)
  BY <1>1 DEF Marked, Span
<1>7. \A r, n : NoRunIn(r, n)' <=> NoRunIn(r, n)
  BY <1>1 DEF NoRunIn, RunAt
<1>8. ScanInv'
  BY <1>1, <1>6, <1>7 DEF Inv, ScanInv
<1> QED BY <1>2, <1>4, <1>5, <1>8 DEF Inv

\* The initial states satisfy the invariant.
LEMMA InitInv ==
  ASSUME Init
  PROVE  Inv
<1>1. /\ mode = "mmap" /\ Booting /\ region_count = 0 /\ entry = 1 /\ Known = {}
  BY DEF Init, Booting, Known
<1>2. tag \in Seq([addr : Nat, len : Nat, available : BOOLEAN]) /\ Len(tag) \in Nat
  BY MemMapAssumption DEF Init
<1>3. TypeOK
  <2>1. page_addr \in Seq([first : Nat, n : Nat]) /\ holds \in [Clients -> Seq([first : Nat, n : Nat])]
    BY DEF Init
  <2>2. entry \in 1..(Len(tag) + 1) /\ region_count \in 0..MAX_MEM_REGIONS
        /\ region_i \in 0..MAX_MEM_REGIONS
    BY <1>1, <1>2, MemMapAssumption DEF Init
  <2> QED BY <2>1, <2>2 DEF Init, TypeOK
<1>4. RegionInv
  <2>1. {i \in 1..(entry - 1) : Usable(tag[i])} = {}
    BY <1>1
  <2> QED BY <1>1, <2>1, FS_EmptySet DEF RegionInv
<1>5. CallInv /\ ScanInv /\ MarksInv /\ KernelInv
  BY <1>1 DEF Init, CallInv, ScanInv, MarksInv, KernelInv
<1>6. BooksInv
  <2>1. page_addr = <<>> /\ Pending = <<>> /\ lost = {} /\ \A c \in Clients : holds[c] = <<>>
    BY <1>1 DEF Init, Pending
  <2> QED BY <2>1, BooksEmpty DEF BooksInv
<1> QED BY <1>3, <1>4, <1>5, <1>6 DEF Inv

\* Every step keeps the invariant, unless a counter wraps during the boot.
LEMMA NextKeeps ==
  ASSUME OrderlyMaps, RegionsIn32Bits, Inv, BootCountsDoNotWrap', [Next]_vars
  PROVE  Inv'
<1>1. CASE Boot
  BY <1>1, EntryKeeps, ZeroKeeps, ReserveKeeps DEF Boot
<1>2. CASE Scan
  BY <1>2, ScanKeeps
<1>3. CASE Client
  BY <1>3, ClientKeeps
<1>4. CASE Halted \/ UNCHANGED vars
  BY <1>4, StutterKeeps DEF Halted
<1> QED BY <1>1, <1>2, <1>3, <1>4 DEF Next

\* The books, the marks and the scan agree at every moment of every run on an
\* orderly memory map whose counters do not wrap while the boot marks it
\* (handle_mb2_mmap, map_alloc_frame_contiguous, map_dealloc_frame).
THEOREM MapInvariant ==
  ASSUME OrderlyMaps, RegionsIn32Bits
  PROVE  Spec /\ []BootCountsDoNotWrap => []Inv
<1>1. Init => Inv
  BY InitInv
<1>2. Inv /\ BootCountsDoNotWrap' /\ [Next]_vars => Inv'
  BY NextKeeps
<1> QED BY <1>1, <1>2, PTL DEF Spec

\* Every variable keeps its type: after the boot, the unsigned subtraction from
\* free_frames in set_mem_region never wraps.
THEOREM MapTypes ==
  ASSUME OrderlyMaps, RegionsIn32Bits
  PROVE  Spec /\ []BootCountsDoNotWrap => []TypeOK
<1>1. Inv => TypeOK
  BY DEF Inv
<1> QED BY <1>1, MapInvariant, PTL

\* What a client holds at index i is covered by its list.
LEMMA EntryCovered ==
  ASSUME NEW I, NEW l, NEW i \in DOMAIN l, l[i] \in I
  PROVE  FramesOf(l[i]) \subseteq Covered(I, l)
BY CoveredIs

\* An entry of a list is an allocation; it counts if it is in a region.
LEMMA EntryInside ==
  ASSUME NEW l \in Seq(Alloc), NEW i \in DOMAIN l, InsideRegion(l[i])
  PROVE  l[i] \in Inside
<1>1. l[i] \in Alloc
  OBVIOUS
<1> QED BY <1>1 DEF Inside

\* map_alloc_frame_contiguous never hands out a frame of a region that somebody
\* holds.
THEOREM FramesAreNotShared ==
  ASSUME OrderlyMaps, RegionsIn32Bits
  PROVE  Spec /\ []BootCountsDoNotWrap => []NoFrameSharedInRegions
<1>1. ASSUME Inv PROVE NoFrameSharedInRegions
  <2>1. /\ page_addr \in Seq(Alloc) /\ holds \in [Clients -> Seq(Alloc)]
        /\ Books(Inside, holds, page_addr, Pending, lost)
    BY <1>1, ClientState
  <2>2. /\ \A c \in Clients : Separate(Inside, holds[c])
        /\ \A c, d \in Clients :
             c # d => Covered(Inside, holds[c]) \cap Covered(Inside, holds[d]) = {}
        /\ \A c \in Clients : Covered(Inside, holds[c]) \cap Covered(Inside, page_addr) = {}
    BY <2>1 DEF Books
  <2>3. ASSUME NEW j \in Claims, InsideRegion(Claim(j))
        PROVE  \E c \in Clients : \E i \in DOMAIN holds[c] :
                 /\ j = <<c, i>> /\ Claim(j) = holds[c][i] /\ Claim(j) \in Inside
                 /\ FramesOf(Claim(j)) \subseteq Covered(Inside, holds[c])
    <3>0. PICK c \in Clients : \E i \in DOMAIN holds[c] : j = <<c, i>>
      BY DEF Claims
    <3>1. PICK i \in DOMAIN holds[c] : j = <<c, i>>
      BY <3>0
    <3>2. Claim(j) = holds[c][i] /\ holds[c] \in Seq(Alloc)
      BY <2>1, <3>1 DEF Claim
    <3>3. holds[c][i] \in Inside
      BY <2>3, <3>2, EntryInside
    <3> QED BY <3>1, <3>2, <3>3, EntryCovered
  <2>4. ASSUME NEW j \in Claims, NEW k \in Claims, j # k,
               InsideRegion(Claim(j)), InsideRegion(Claim(k))
        PROVE  FramesOf(Claim(j)) \cap FramesOf(Claim(k)) = {}
    <3>a. PICK c \in Clients : \E i \in DOMAIN holds[c] :
            /\ j = <<c, i>> /\ Claim(j) = holds[c][i] /\ Claim(j) \in Inside
            /\ FramesOf(Claim(j)) \subseteq Covered(Inside, holds[c])
      BY <2>3, <2>4
    <3>1. PICK i \in DOMAIN holds[c] :
            /\ j = <<c, i>> /\ Claim(j) = holds[c][i] /\ Claim(j) \in Inside
            /\ FramesOf(Claim(j)) \subseteq Covered(Inside, holds[c])
      BY <3>a
    <3>b. PICK d \in Clients : \E m \in DOMAIN holds[d] :
            /\ k = <<d, m>> /\ Claim(k) = holds[d][m] /\ Claim(k) \in Inside
            /\ FramesOf(Claim(k)) \subseteq Covered(Inside, holds[d])
      BY <2>3, <2>4
    <3>2. PICK m \in DOMAIN holds[d] :
            /\ k = <<d, m>> /\ Claim(k) = holds[d][m] /\ Claim(k) \in Inside
            /\ FramesOf(Claim(k)) \subseteq Covered(Inside, holds[d])
      BY <3>b
    <3>3. CASE c = d
      <4>1. i # m
        BY <2>4, <3>1, <3>2, <3>3
      <4> QED BY <2>2, <3>1, <3>2, <3>3, <4>1 DEF Separate
    <3>4. CASE c # d
      <4>1. Covered(Inside, holds[c]) \cap Covered(Inside, holds[d]) = {}
        BY <2>2, <3>4
      <4> QED BY <3>1, <3>2, <4>1
    <3> QED BY <3>3, <3>4
  <2>5. ASSUME NEW j \in Claims, NEW a \in InHand, InsideRegion(Claim(j)), InsideRegion(a)
        PROVE  FramesOf(Claim(j)) \cap FramesOf(a) = {}
    <3>1. PICK c \in Clients : FramesOf(Claim(j)) \subseteq Covered(Inside, holds[c])
      BY <2>3, <2>5
    <3>2. PICK i \in DOMAIN page_addr : a = page_addr[i]
      BY DEF InHand
    <3>3. a \in Inside
      BY <2>1, <2>5, <3>2, EntryInside
    <3>4. FramesOf(a) \subseteq Covered(Inside, page_addr)
      BY <3>2, <3>3, EntryCovered
    <3>5. Covered(Inside, holds[c]) \cap Covered(Inside, page_addr) = {}
      BY <2>2
    <3> QED BY <3>1, <3>4, <3>5
  <2> QED BY <2>4, <2>5 DEF NoFrameSharedInRegions
<1> QED BY <1>1, MapInvariant, PTL

\* The kernel image and the bitmap, once reserve_kernel has marked them, are
\* never handed out.
THEOREM KernelIsKept ==
  ASSUME OrderlyMaps, RegionsIn32Bits
  PROVE  Spec /\ []BootCountsDoNotWrap => []KernelNeverHandedOut
<1>1. ASSUME Inv PROVE KernelNeverHandedOut
  <2>1. SUFFICES ASSUME mode \notin {"mmap", "zero"}, Reaches(KernelStart, KernelEnd),
                        NEW k \in Claims, InsideRegion(Claim(k)),
                        NEW f \in FramesOf(Claim(k)), f \in KernelStart..(KernelEnd - 1)
                 PROVE  FALSE
    BY DEF KernelNeverHandedOut
  <2>2. /\ TypeOK /\ RegionInv /\ KernelInv /\ MarksInv /\ holds \in [Clients -> Seq(Alloc)]
        /\ Used = InUse(Inside, holds, page_addr, Pending, lost) /\ ~Booting
    BY <1>1, <2>1, ClientState DEF Booting
  <2>0. PICK c \in Clients : \E i \in DOMAIN holds[c] : k = <<c, i>>
    BY DEF Claims
  <2>3. PICK i \in DOMAIN holds[c] : Claim(k) = holds[c][i]
    BY <2>0 DEF Claim
  <2>4. holds[c] \in Seq(Alloc)
    BY <2>2
  <2>5. holds[c][i] \in Inside
    BY <2>1, <2>3, <2>4, EntryInside
  <2>6. PICK a \in Alloc : a = holds[c][i]
    BY <2>5 DEF Inside
  <2>7. PICK r \in Known : Contains(r, a.first, a.first + a.n)
    BY <2>1, <2>3, <2>6 DEF InsideRegion, Known
  <2>8. f \in RegionFrames(r)
    BY <2>1, <2>2, <2>3, <2>6, <2>7, BlockSize
  <2>9. f \in Used
    <3>1. f \in Covered(Inside, holds[c])
      BY <2>1, <2>3, <2>5, EntryCovered
    <3> QED BY <2>2, <3>1 DEF InUse
  <2>10. Bit(r, f) \in boot_bitmap
    BY <2>1, <2>2, <2>8 DEF KernelInv
  <2>11. ~(f \in Used /\ Bit(r, f) \in boot_bitmap)
    BY <2>2, <2>8 DEF MarksInv, Marks
  <2> QED BY <2>9, <2>10, <2>11
<1> QED BY <1>1, MapInvariant, PTL

\* Between calls, the counters and the bitmap agree with what is in use.
THEOREM CountsAlwaysAgree ==
  ASSUME OrderlyMaps, RegionsIn32Bits
  PROVE  Spec /\ []BootCountsDoNotWrap => []CountsAgree
<1>1. ASSUME Inv PROVE CountsAgree
  <2>1. SUFFICES ASSUME mode = "idle" PROVE CountsAgree
    BY DEF CountsAgree
  <2>2. /\ MarksInv /\ ~Booting /\ Pending = <<>> /\ holds \in [Clients -> Seq(Alloc)]
        /\ page_addr \in Seq(Alloc) /\ Used = InUse(Inside, holds, page_addr, Pending, lost)
    BY <1>1, <2>1, ClientState DEF Booting, Pending
  <2>3. FramesIn(page_addr) = Covered(Inside, page_addr)
    BY <2>2, FramesInIs
  <2>4. \A c \in Clients : FramesIn(holds[c]) = Covered(Inside, holds[c])
    BY <2>2, FramesInIs
  <2>5. UNION {FramesIn(holds[c]) : c \in Clients}
          = UNION {Covered(Inside, holds[c]) : c \in Clients}
    BY <2>4
  <2>6. UsedFrames = Used
    BY <2>2, <2>3, <2>5, CoveredEmpty DEF UsedFrames, InUse
  <2>7. Marks(UsedFrames)
    BY <2>2, <2>6 DEF MarksInv
  <2>8. ASSUME NEW r \in Known, NEW f \in RegionFrames(r)
        PROVE  Bit(r, f) \in bitmap <=>
                 f \in UsedFrames \cap RegionFrames(r) \/ Bit(r, f) \in boot_bitmap
    BY <2>7 DEF Marks
  <2>9. \A r \in Known :
          free_frames[r] = boot_free[r] - Cardinality(UsedFrames \cap RegionFrames(r))
    BY <2>7 DEF Marks
  <2> QED BY <2>8, <2>9 DEF CountsAgree, Known, Bit
<1> QED BY <1>1, MapInvariant, PTL

\* One step of the scan that ends it, on the state it starts from.
LEMMA ScanIsFirstFit ==
  ASSUME Inv, Next, mode = "scan", mode' = "return"
  PROVE  LET eligible == {r \in 0..(region_count - 1) : free_frames[r] >= page_count}
         IN IF result' = FRAME_ALLOC_FAILED
              THEN \A r \in eligible : NoRunIn(r, page_count)
              ELSE LET off == result' - start_addr[region_i]
                   IN /\ region_i \in eligible /\ RunAt(region_i, off, page_count)
                      /\ \A o \in 0..(off - 1) : ~RunAt(region_i, o, page_count)
                      /\ \A r \in eligible : r < region_i => NoRunIn(r, page_count)
<1> DEFINE eligible == {r \in 0..(region_count - 1) : free_frames[r] >= page_count}
<1>1. TypeOK /\ RegionInv /\ CallInv /\ ScanInv
  BY DEF Inv
<1>2. \A r \in 0..(region_i - 1) : free_frames[r] >= page_count => NoRunIn(r, page_count)
  BY <1>1 DEF ScanInv
<1>3. scan_fail \/ scan_free_word \/ scan_leading \/ scan_hole
  BY DEF Next, Boot, mmap_entry, zero_mem_map, zero_mem_map_pad, reserve_kernel, Client,
     ialloc_kframe, ialloc_frames, idealloc_frames, ialloc_kframe_return,
     ialloc_frames_first_fails, ialloc_frames_later_fails, ialloc_frames_next,
     ialloc_frames_return, Return, idealloc_next, idealloc_last, Freeing, Halted, Scan,
     scan_skip_region, scan_end_region, scan_carry, next_region
<1>4. CASE scan_fail
  <2>1. result' = FRAME_ALLOC_FAILED /\ region_i = region_count
    BY <1>4 DEF scan_fail
  <2> QED BY <1>2, <2>1
<1>5. CASE scan_free_word \/ scan_leading \/ scan_hole
  <2>1. Scanning /\ Enough
    BY <1>5 DEF scan_free_word, scan_leading, scan_hole, InWord
  <2>2. PICK off \in Nat :
          /\ scan_found(off) /\ Gap(Marked(region_i), off, page_count)
          /\ \A o \in 0..(off - 1) : ~Gap(Marked(region_i), o, page_count)
    BY <1>5, FoundGap
  <2>3. region_i \in Known /\ page_count \in Nat \ {0}
    BY <1>1, <2>1, AtWord
  <2>4. start_addr[region_i] \in Nat /\ region_i \in Nat
    BY <1>1, <2>3, KnownType
  <2>5. result' = start_addr[region_i] + off
    BY <1>1, <2>1, <2>2, FoundFrame
  <2>6. result' # FRAME_ALLOC_FAILED /\ result' - start_addr[region_i] = off
    BY <2>4, <2>5 DEF FRAME_ALLOC_FAILED
  <2>7. RunAt(region_i, off, page_count)
    BY <1>1, <2>2, <2>3, RunIsGap
  <2>8. \A o \in 0..(off - 1) : ~RunAt(region_i, o, page_count)
    <3> TAKE o \in 0..(off - 1)
    <3>1. o \in Nat /\ ~Gap(Marked(region_i), o, page_count)
      BY <2>2
    <3> QED BY <1>1, <2>3, <3>1, RunIsGap
  <2>9. region_i \in eligible
    BY <2>1, <2>3 DEF Enough, Known
  <2>10. \A r \in eligible : r < region_i => NoRunIn(r, page_count)
    <3> TAKE r \in eligible
    <3>1. r < region_i => r \in 0..(region_i - 1)
      BY <1>1, <2>3 DEF TypeOK
    <3> QED BY <1>2, <3>1
  <2> QED BY <2>6, <2>7, <2>8, <2>9, <2>10
<1> QED BY <1>3, <1>4, <1>5

\* The scan of map_alloc_frame_contiguous is first fit.
THEOREM ScansFirstFit ==
  ASSUME OrderlyMaps, RegionsIn32Bits
  PROVE  Spec /\ []BootCountsDoNotWrap => FirstFit
<1>1. ASSUME Inv, [Next]_vars
      PROVE  [mode = "scan" /\ mode' = "return" =>
                LET eligible == {r \in 0..(region_count - 1) :
                                   free_frames[r] >= page_count}
                IN IF result' = FRAME_ALLOC_FAILED
                     THEN \A r \in eligible : NoRunIn(r, page_count)
                     ELSE LET off == result' - start_addr[region_i]
                          IN /\ region_i \in eligible /\ RunAt(region_i, off, page_count)
                             /\ \A o \in 0..(off - 1) : ~RunAt(region_i, o, page_count)
                             /\ \A r \in eligible :
                                  r < region_i => NoRunIn(r, page_count)]_vars
  BY <1>1, ScanIsFirstFit
<1> QED BY <1>1, MapInvariant, PTL DEF Spec, FirstFit
=============================================================================
