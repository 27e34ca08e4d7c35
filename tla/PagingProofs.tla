---------------------------- MODULE PagingProofs ----------------------------
(***************************************************************************)
(* The page tables, for every memory map whose memory fits into the window *)
(* below the top of the address space (the first 2 GiB, LowMemory): the    *)
(* tables form a tree, in which each table has one level and one place in  *)
(* the address space, and what page_in was asked for is found at the end   *)
(* of a path in it.                                                        *)
(***************************************************************************)
EXTENDS Paging, OrderLemmas, TLAPS

-----------------------------------------------------------------------------
(* The inductive invariant                                                 *)

Phys == 0..(Frames - 1)
Virt == 0..(ADDRESSES - 1)
Index == 0..(ENTRIES - 1)
Levels == 0..3
PermRecords == [user : BOOLEAN, writeable : BOOLEAN, nocache : BOOLEAN]
Entries == [present : BOOLEAN, huge : BOOLEAN, ppn : Nat, perms : PermRecords]
Tables == [Index -> Entries]
Sizes == {1, HUGE_PS}
Top == ENTRIES - 1

\* The memory that the kernel's window onto physical memory has room for.
LowMemory == RAM \subseteq 0..(2 * SUPER_PS - 1)

Roots == {Kernel_PML4_TABLE, thread_table} \ {None}

\* Two functions describe the tree: lvl[f] is the level of the table in frame
\* f, or None if there is none, and pos[f][j] the entry, in the table of level
\* j above it, that leads to it.
OnPath(pos, f, l, v) == \A j \in (l + 1)..3 : pos[f][j] = VA_INDEX(v, j)

\* A frame that was taken for something else than a table.
Owned(lvl, f) == f \in used /\ lvl[f] = None

\* Pages that user code may reach.
UserPage(v) == v = VideoFrame \/ (thread_table # None /\ <<thread_table, v>> \in DOMAIN asked)

TablesInv(lvl) ==
  /\ mem \in [Phys -> Tables] /\ used \subseteq Phys
  /\ lvl[Kernel_PML4_TABLE] = 3 /\ Kernel_PML4_TABLE \in Phys
  /\ thread_table # None =>
       thread_table \in Phys /\ lvl[thread_table] = 3 /\ thread_table # Kernel_PML4_TABLE
  /\ \A f \in Phys : lvl[f] = None => mem[f] = EmptyTable
  /\ \A f \in Phys : lvl[f] # None => f \in used /\ f \in RAM \cup KernelFrames

\* A present entry is a page at level 0, a large page at level 1 of the last
\* entry of a root, and else it leads to a table one level down.
EntryInv(lvl, pos, f, n) ==
  IF lvl[f] = 0
    THEN /\ ~mem[f][n].huge
         /\ mem[f][n].perms.user =>
              \A v \in Virt : OnPath(pos, f, 0, v) /\ VA_INDEX(v, 0) = n => UserPage(v)
  ELSE IF lvl[f] = 1 /\ pos[f][3] = Top
    THEN mem[f][n].huge /\ ~mem[f][n].perms.user
  ELSE /\ ~mem[f][n].huge /\ mem[f][n].ppn \in Phys
       /\ lvl[mem[f][n].ppn] = lvl[f] - 1
       /\ pos[mem[f][n].ppn] = [pos[f] EXCEPT ![lvl[f]] = n]

TreeInv(lvl, pos) ==
  \A f \in Phys, n \in Index :
    lvl[f] # None /\ mem[f][n].present => EntryInv(lvl, pos, f, n)

\* The root of the thread is that of the kernel, but for its own second entry.
RootsInv ==
  /\ ~mem[Kernel_PML4_TABLE][1].present
  /\ thread_table # None =>
       \A n \in Index \ {1} : mem[thread_table][n] = mem[Kernel_PML4_TABLE][n]

\* Where pages of each size are mapped, and by which table.
Placed(root, v, size) ==
  /\ v \in Virt /\ size \in Sizes /\ root \in Roots
  /\ IF size = 1 THEN VA_INDEX(v, 3) # Top
     ELSE VA_INDEX(v, 3) = Top /\ v % HUGE_PS = 0 /\ root = Kernel_PML4_TABLE
  /\ root = Kernel_PML4_TABLE <=> VA_INDEX(v, 3) # 1

\* An entry with at least the given rights leads to a table.
Link(m, f, n, c, perms) ==
  /\ m[f][n].present /\ ~m[f][n].huge /\ m[f][n].ppn = c
  /\ perms.user => m[f][n].perms.user
  /\ perms.writeable => m[f][n].perms.writeable

\* The tables t[3] to t[l] on the way from a root to an address.
Path(m, lvl, pos, root, v, l, perms, t) ==
  /\ t[3] = root
  /\ \A j \in l..3 : t[j] \in Phys /\ lvl[t[j]] = j /\ OnPath(pos, t[j], j, v)
  /\ \A j \in (l + 1)..3 : Link(m, t[j], VA_INDEX(v, j), t[j - 1], perms)

Way == [Levels -> Int]
Mappings == [frame : Nat, size : Sizes, perms : PermRecords]
LeafOf(size) == IF size = 1 THEN 0 ELSE 1

\* The way to a page that was asked for ends at its entry.
Found(m, lvl, pos, root, v, r) ==
  \E t \in Way :
    /\ Path(m, lvl, pos, root, v, LeafOf(r.size), r.perms, t)
    /\ m[t[LeafOf(r.size)]][VA_INDEX(v, LeafOf(r.size))]
         = Entry(r.frame, r.size # 1, r.perms)

\* The way of a call has come to the table it is at.
Reached(m, lvl, pos, c) ==
  \E t \in Way :
    Path(m, lvl, pos, c.root, c.virt, c.level, c.perms, t) /\ t[c.level] = c.at

\* What page_in was asked for is there, and is not a table.
AskedInv(lvl, pos) ==
  \A k \in DOMAIN asked :
    /\ k \in Phys \X Virt
    /\ asked[k] \in [frame : Nat, size : Sizes, perms : PermRecords]
    /\ Placed(k[1], k[2], asked[k].size)
    /\ asked[k].size = 1 /\ asked[k].frame \in RAM => Owned(lvl, asked[k].frame)
    /\ Found(mem, lvl, pos, k[1], k[2], asked[k])

\* Where kmain is.
HeapStages == {"heap_info", "heap_allocator", "heap_first", "heap_pages"}
KernelStages == {"alloc_init", "heap_null", "devices", "thread"} \cup HeapStages
ThreadStages == {"code", "supply"}
Ended == {"fault", "halt", "done"}
Stages == {"regions"} \cup KernelStages \cup ThreadStages \cup Ended

CallRecords == [at : Phys, level : Levels, root : Int, virt : Virt, frame : Nat,
                size : Sizes, perms : PermRecords, next : Stages, failed : Stages]

\* The call under way has come to the table of its level.
CallInv(lvl, pos) ==
  call # NoCall =>
    /\ call \in CallRecords /\ Placed(call.root, call.virt, call.size)
    /\ thread_table # None => call.root = thread_table
    /\ LeafOf(call.size) <= call.level
    /\ call.perms.user => call.size = 1 /\ (call.virt = VideoFrame \/ call.root = thread_table)
    /\ call.size = 1 /\ call.frame \in RAM => Owned(lvl, call.frame)
    /\ Reached(mem, lvl, pos, call)

-----------------------------------------------------------------------------
(* Where kmain is                                                          *)

\* The frames of a list are all taken.
OwnedList(lvl, list, n) ==
  \A k \in 1..n : list[k] \in Phys /\ Owned(lvl, list[k])

StageInv(lvl) ==
  /\ pc \in Stages
  /\ pc = "regions" => cr3 = None /\ i \in 0..Len(mmap) /\ addr \in Nat /\ addr % HUGE_PS = 0
                       /\ (i > 0 => mmap[i][1] <= addr)
  /\ pc \in KernelStages \cup ThreadStages => cr3 = Kernel_PML4_TABLE
  /\ pc \in {"regions"} \cup KernelStages => thread_table = None
  /\ pc \in ThreadStages => thread_table # None
  /\ pc \in HeapStages => OwnedList(lvl, pages, HeapPages) /\ i \in 2..HeapPages
  /\ pc = "heap_first" => addr \in Phys /\ Owned(lvl, addr)
  /\ pc = "heap_null" => Free = {}
  /\ pc = "devices" => /\ pages \in Seq(0..(PML4_PS - 1))
                       /\ \A n \in DOMAIN pages : pages[n] \notin RAM
  /\ pc = "supply" => OwnedList(lvl, pages, ThreadPages) /\ i \in 0..ThreadPages

\* Where the call under way returns to.
ReturnInv ==
  call # NoCall =>
    \/ pc = "regions" /\ call.next = "regions" /\ call.failed = "halt"
         /\ call.size = HUGE_PS /\ call.virt = KERNEL_PHYS_TO_VIRT(call.frame)
         /\ call.frame \in 0..(2 * SUPER_PS - 1)
    \/ /\ call.size = 1
       /\ \/ pc \in HeapStages /\ call.next = "heap_pages" /\ call.failed = "heap_null"
          \/ pc = "heap_info" /\ call.next = "heap_allocator" /\ call.failed = "heap_null"
          \/ pc = "devices" /\ call.next \in {"devices", "thread"} /\ call.failed = call.next
          \/ pc = "supply" /\ call.next = "supply" /\ call.failed = "done"

\* The window has every large page that the loop has come by.
Windowed(a) ==
  LET k == <<Kernel_PML4_TABLE, KERNEL_PHYS_TO_VIRT(a)>>
  IN k \in DOMAIN asked /\ asked[k].size = HUGE_PS /\ asked[k].frame = a

InRegion(n, a) == a % HUGE_PS = 0 /\ ALIGN_UP(mmap[n][1], HUGE_PS) <= a /\ a < mmap[n][2]

WindowInv ==
  /\ pc = "regions" =>
       \A n \in 1..i, a \in Nat :
         InRegion(n, a) /\ (n = i => a < addr) =>
           Windowed(a) \/ (call # NoCall /\ call.frame = a)
  /\ pc \in KernelStages \cup ThreadStages =>
       \A n \in DOMAIN mmap, a \in Nat : InRegion(n, a) => Windowed(a)

Core(lvl, pos) ==
  /\ TablesInv(lvl) /\ TreeInv(lvl, pos) /\ RootsInv /\ AskedInv(lvl, pos)
  /\ CallInv(lvl, pos) /\ StageInv(lvl) /\ ReturnInv /\ WindowInv /\ NoFaultIfCovered

LevelMaps == [Phys -> Levels \cup {None}]
Positions == [Phys -> [1..3 -> Int]]

Inv ==
  /\ mmap \in MemoryMaps
  /\ LowMemory => \E lvl \in LevelMaps, pos \in Positions : Core(lvl, pos)

-----------------------------------------------------------------------------
(* Division                                                                *)

\* Quotient and remainder.
LEMMA DivMod ==
  ASSUME NEW v \in Nat, NEW a \in Nat \ {0}
  PROVE  \E q \in Nat, r \in 0..(a - 1) : q = v \div a /\ r = v % a /\ v = a * q + r
<1>1. a > 0 /\ a \in Nat
  OBVIOUS
<1>2. v % a \in 0..(a - 1) /\ v \div a \in Int
  BY <1>1
<1>3. v % a = v - a * (v \div a)
  BY ONLY <1>1, v \in Nat
<1>4. PICK q \in Int, r \in 0..(a - 1) : q = v \div a /\ r = v % a /\ r = v - a * q
  BY <1>2, <1>3
<1>5. q > -1
  <2>1. SUFFICES ASSUME q <= -1 PROVE FALSE
    BY <1>4
  <2>2. a * (-1 - q) >= 0
    BY <2>1
  <2> QED BY <1>4, <2>2
<1>6. q \in Nat /\ v = a * q + r
  BY <1>4, <1>5
<1> QED BY <1>4, <1>6

LEMMA DivUnique ==
  ASSUME NEW a \in Nat \ {0}, NEW q \in Nat, NEW r \in 0..(a - 1), NEW v, v = a * q + r
  PROVE  v \div a = q /\ v % a = r
<1>1. v \in Nat
  BY SMT
<1>2. PICK d \in Nat, m \in 0..(a - 1) : d = v \div a /\ m = v % a /\ v = a * d + m
  BY <1>1, DivMod
<1>3. a * (d - q) = r - m
  BY <1>2
<1>4. d - q < 1
  <2>1. SUFFICES ASSUME d - q >= 1 PROVE FALSE
    BY <1>2
  <2>2. a * (d - q) >= a
    BY <2>1
  <2> QED BY <1>2, <1>3, <2>2
<1>5. q - d < 1
  <2>1. SUFFICES ASSUME q - d >= 1 PROVE FALSE
    BY <1>2
  <2>2. a * (q - d) >= a
    BY <2>1
  <2>3. a * (q - d) = m - r
    BY <1>2
  <2> QED BY <1>2, <2>3, <2>2
<1>6. d = q
  BY <1>2, <1>4, <1>5
<1> QED BY <1>2, <1>3, <1>6

LEMMA DivDiv ==
  ASSUME NEW v \in Nat, NEW a \in Nat \ {0}, NEW b \in Nat \ {0}
  PROVE  v \div (a * b) = (v \div a) \div b
<1>1. PICK q \in Nat, r \in 0..(a - 1) : q = v \div a /\ v = a * q + r
  BY DivMod
<1>2. PICK s \in Nat, t \in 0..(b - 1) : s = q \div b /\ q = b * s + t
  BY DivMod
<1>3. a * b \in Nat \ {0} /\ a * t + r \in 0..(a * b - 1)
  <2>1. a * b \in Nat \ {0}
    BY SMT
  <2>2. a * t \in Nat
    BY SMT
  <2>3. a * (b - 1 - t) >= 0
    BY SMT
  <2>4. a * t <= a * b - a
    BY <2>3
  <2> QED BY <2>1, <2>2, <2>4
<1>4. v = (a * b) * s + (a * t + r)
  <2>1. v = a * (b * s + t) + r
    BY <1>1, <1>2
  <2>2. a * (b * s + t) = (a * b) * s + a * t
    BY <1>1, <1>2, SMT
  <2> QED BY <2>1, <2>2, <1>1, <1>2
<1>5. v \div (a * b) = s
  <2> DEFINE c == a * b
  <2> DEFINE u == a * t + r
  <2>1. c \in Nat \ {0} /\ u \in 0..(c - 1) /\ v = c * s + u
    BY <1>3, <1>4
  <2> HIDE DEF c, u
  <2>2. v \div c = s
    BY <2>1, DivUnique
  <2> QED BY <2>2 DEF c
<1> QED BY <1>1, <1>2, <1>5

-----------------------------------------------------------------------------
(* Addresses                                                               *)

\* The sizes of page, and how they compare.
LEMMA SizesAre ==
  /\ HUGE_PS \in Nat /\ SUPER_PS \in Nat /\ PML4_PS \in Nat /\ ADDRESSES \in Nat
  /\ 5 <= HUGE_PS /\ HUGE_PS < SUPER_PS /\ 5 * SUPER_PS <= PML4_PS /\ 5 * PML4_PS <= ADDRESSES
  /\ HUGE_PS = ENTRIES /\ SUPER_PS = ENTRIES * ENTRIES
  /\ PML4_PS = ENTRIES * SUPER_PS /\ ADDRESSES = ENTRIES * PML4_PS
<1>1. ENTRIES \in Nat /\ ENTRIES >= 5
  BY PagingAssumption
<1>2. \A x \in Nat : ENTRIES * x \in Nat /\ 5 * x <= ENTRIES * x
  <2> TAKE x \in Nat
  <2>1. (ENTRIES - 5) * x >= 0
    BY <1>1
  <2> QED BY <1>1, <2>1
<1>3. HUGE_PS = ENTRIES /\ SUPER_PS = ENTRIES * ENTRIES
      /\ PML4_PS = ENTRIES * SUPER_PS /\ ADDRESSES = ENTRIES * PML4_PS
  BY DEF HUGE_PS, SUPER_PS, PML4_PS, ADDRESSES
<1>4. SUPER_PS \in Nat /\ 5 * ENTRIES <= SUPER_PS
  BY <1>1, <1>2, <1>3
<1>5. PML4_PS \in Nat /\ 5 * SUPER_PS <= PML4_PS
  BY <1>2, <1>3, <1>4
<1>6. ADDRESSES \in Nat /\ 5 * PML4_PS <= ADDRESSES
  BY <1>2, <1>3, <1>5
<1> QED BY <1>1, <1>3, <1>4, <1>5, <1>6

LEMMA Products ==
  /\ ENTRIES \in Nat \ {0} /\ PML4_PS \in Nat \ {0} /\ SUPER_PS \in Nat \ {0}
  /\ ADDRESSES = ENTRIES * PML4_PS /\ HUGE_PS = ENTRIES
<1>1. ENTRIES \in Nat \ {0}
  BY PagingAssumption
<1>2. SUPER_PS \in Nat \ {0}
  BY SizesAre
<1>3. PML4_PS \in Nat \ {0}
  BY SizesAre
<1> QED BY <1>1, <1>2, <1>3, Zenon DEF ADDRESSES, HUGE_PS

LEMMA VirtIs ==
  ASSUME NEW v \in Virt
  PROVE  v \in Nat /\ v < ADDRESSES
<1>1. ADDRESSES \in Nat
  BY SizesAre
<1> QED BY ONLY <1>1, v \in Virt DEF Virt

LEMMA EntryPagesAre ==
  /\ EntryPages(0) = 1 /\ EntryPages(1) = HUGE_PS
  /\ EntryPages(2) = SUPER_PS /\ EntryPages(3) = PML4_PS
BY DEF EntryPages

\* The indices of an address are the digits of a number.
Upper(v) == v \div ENTRIES
Digit(v) == v % ENTRIES

LEMMA DigitIs ==
  ASSUME NEW v \in Nat
  PROVE  /\ Upper(v) \in Nat /\ Digit(v) \in Index /\ Digit(v) \in Nat
         /\ v = ENTRIES * Upper(v) + Digit(v)
<1>1. PICK q \in Nat, r \in 0..(ENTRIES - 1) :
        q = v \div ENTRIES /\ r = v % ENTRIES /\ v = ENTRIES * q + r
  BY Products, DivMod
<1>2. q = Upper(v) /\ r = Digit(v)
  BY <1>1 DEF Upper, Digit
<1>3. r \in Nat /\ r \in Index
  BY Products DEF Index
<1> QED BY <1>1, <1>2, <1>3

LEMMA UpperIs ==
  ASSUME NEW q \in Nat, NEW r \in Index, NEW v, v = ENTRIES * q + r
  PROVE  Upper(v) = q /\ Digit(v) = r
<1>1. v \div ENTRIES = q /\ v % ENTRIES = r
  BY Products, DivUnique DEF Index
<1> QED BY <1>1 DEF Upper, Digit

LEMMA IndicesAre ==
  ASSUME NEW v \in Nat
  PROVE  /\ Upper(v) \in Nat /\ Upper(Upper(v)) \in Nat /\ Upper(Upper(Upper(v))) \in Nat
         /\ VA_INDEX(v, 0) = Digit(v) /\ VA_INDEX(v, 1) = Digit(Upper(v))
         /\ VA_INDEX(v, 2) = Digit(Upper(Upper(v)))
         /\ VA_INDEX(v, 3) = Digit(Upper(Upper(Upper(v))))
         /\ v \div PML4_PS = Upper(Upper(Upper(v)))
         /\ \A l \in Levels : VA_INDEX(v, l) \in Index
<1>1. Upper(v) \in Nat /\ Upper(Upper(v)) \in Nat /\ Upper(Upper(Upper(v))) \in Nat
  BY DigitIs
<1>2. \A u \in Nat : u \div (ENTRIES * ENTRIES) = Upper(Upper(u))
  <2> TAKE u \in Nat
  <2>1. u \div (ENTRIES * ENTRIES) = (u \div ENTRIES) \div ENTRIES
    BY Products, DivDiv
  <2> QED BY <2>1, Zenon DEF Upper
<1>3. SUPER_PS = ENTRIES * ENTRIES /\ PML4_PS = ENTRIES * SUPER_PS
  BY Zenon DEF SUPER_PS, HUGE_PS, PML4_PS
<1>4. v \div HUGE_PS = Upper(v) /\ v \div SUPER_PS = Upper(Upper(v))
  BY <1>2, <1>3, Zenon DEF HUGE_PS, Upper
<1>5. v \div PML4_PS = Upper(Upper(Upper(v)))
  <2>1. v \div (ENTRIES * SUPER_PS) = (v \div ENTRIES) \div SUPER_PS
    BY Products, DivDiv
  <2>2. v \div PML4_PS = Upper(v) \div SUPER_PS
    BY <1>3, <2>1, Zenon DEF Upper
  <2> QED BY <1>1, <1>2, <1>3, <2>2, Zenon
<1>6. v \div 1 = v
  OBVIOUS
<1>7. /\ VA_INDEX(v, 0) = Digit(v) /\ VA_INDEX(v, 1) = Digit(Upper(v))
      /\ VA_INDEX(v, 2) = Digit(Upper(Upper(v)))
      /\ VA_INDEX(v, 3) = Digit(Upper(Upper(Upper(v))))
  BY <1>4, <1>5, <1>6, EntryPagesAre, Zenon DEF VA_INDEX, Digit
<1>8. \A l \in Levels : VA_INDEX(v, l) \in Index
  <2>1. /\ VA_INDEX(v, 0) \in Index /\ VA_INDEX(v, 1) \in Index
        /\ VA_INDEX(v, 2) \in Index /\ VA_INDEX(v, 3) \in Index
    BY <1>1, <1>7, DigitIs, Zenon
  <2> QED BY <2>1 DEF Levels
<1> QED BY <1>1, <1>5, <1>7, <1>8

\* Below the root's entry q.
LEMMA TopIndexIs ==
  ASSUME NEW q \in Index, NEW r \in 0..(PML4_PS - 1), NEW v, v = PML4_PS * q + r
  PROVE  v \in Virt /\ VA_INDEX(v, 3) = q
<1>1. PML4_PS \in Nat \ {0} /\ ENTRIES \in Nat \ {0} /\ ADDRESSES = ENTRIES * PML4_PS
  BY Products
<1>2. q \in Nat /\ q < ENTRIES
  BY <1>1 DEF Index
<1>3. v \in Nat
  BY <1>1, <1>2
<1>4. v < ADDRESSES
  <2>1. PML4_PS * (ENTRIES - 1 - q) >= 0
    BY <1>1, <1>2
  <2> QED BY <1>1, <1>2, <2>1
<1>5. v \div PML4_PS = q
  BY <1>1, <1>2, DivUnique
<1>6. q % ENTRIES = q
  BY ONLY <1>1, <1>2
<1>7. VA_INDEX(v, 3) = q
  BY <1>5, <1>6, EntryPagesAre, Zenon DEF VA_INDEX
<1>8. v \in Virt
  BY <1>3, <1>4, SizesAre DEF Virt
<1> QED BY <1>7, <1>8

LEMMA TopUpper ==
  ASSUME NEW v \in Virt
  PROVE  VA_INDEX(v, 3) = Upper(Upper(Upper(v)))
<1>1. v \in Nat /\ v < ADDRESSES /\ ENTRIES \in Nat \ {0} /\ PML4_PS \in Nat \ {0}
      /\ ADDRESSES = ENTRIES * PML4_PS
  BY Products, VirtIs
<1>2. PICK q \in Nat, r \in 0..(PML4_PS - 1) : q = v \div PML4_PS /\ v = PML4_PS * q + r
  BY <1>1, DivMod
<1>3. q < ENTRIES
  <2>1. SUFFICES ASSUME q >= ENTRIES PROVE FALSE
    BY <1>1, <1>2
  <2>2. PML4_PS * (q - ENTRIES) >= 0
    BY <1>1, <2>1
  <2> QED BY <1>1, <1>2, <2>2
<1>4. q % ENTRIES = q
  BY ONLY <1>1, <1>2, <1>3
<1>5. VA_INDEX(v, 3) = q /\ q = Upper(Upper(Upper(v)))
  BY <1>1, <1>2, <1>4, EntryPagesAre, IndicesAre, Zenon DEF VA_INDEX
<1> QED BY <1>5

\* An address is determined by its indices.
LEMMA SameIndices ==
  ASSUME NEW u \in Virt, NEW v \in Virt, \A l \in Levels : VA_INDEX(u, l) = VA_INDEX(v, l)
  PROVE  u = v
<1>1. u \in Nat /\ v \in Nat
  BY VirtIs
<1>2. /\ VA_INDEX(u, 0) = VA_INDEX(v, 0) /\ VA_INDEX(u, 1) = VA_INDEX(v, 1)
      /\ VA_INDEX(u, 2) = VA_INDEX(v, 2) /\ VA_INDEX(u, 3) = VA_INDEX(v, 3)
  BY DEF Levels
<1>3. Upper(Upper(Upper(u))) = Upper(Upper(Upper(v)))
  BY <1>2, TopUpper
<1>4. \A x, y \in Nat : Upper(x) = Upper(y) /\ Digit(x) = Digit(y) => x = y
  <2> TAKE x, y \in Nat
  <2>1. x = ENTRIES * Upper(x) + Digit(x) /\ y = ENTRIES * Upper(y) + Digit(y)
    BY DigitIs
  <2> QED BY ONLY <2>1, Zenon
<1>5. Upper(Upper(u)) = Upper(Upper(v))
  BY <1>1, <1>2, <1>3, <1>4, IndicesAre
<1>6. Upper(u) = Upper(v)
  BY <1>1, <1>2, <1>5, <1>4, IndicesAre
<1> QED BY <1>1, <1>2, <1>6, <1>4, IndicesAre

\* The pages of a large page differ in the last index only.
LEMMA LargePage ==
  ASSUME NEW v \in Virt, v % HUGE_PS = 0, NEW o \in 0..(HUGE_PS - 1)
  PROVE  /\ v + o \in Virt /\ (v + o) % HUGE_PS = o
         /\ \A l \in 1..3 : VA_INDEX(v + o, l) = VA_INDEX(v, l)
<1>1. v \in Nat /\ v < ADDRESSES /\ ENTRIES \in Nat \ {0} /\ PML4_PS \in Nat \ {0}
      /\ ADDRESSES = ENTRIES * PML4_PS /\ HUGE_PS = ENTRIES
  BY Products, VirtIs
<1>2. PICK q \in Nat : q = Upper(v) /\ v = ENTRIES * q
  <2>1. Digit(v) = 0
    BY <1>1, Zenon DEF Digit
  <2>2. Upper(v) \in Nat /\ v = ENTRIES * Upper(v) + Digit(v)
    BY <1>1, DigitIs
  <2> QED BY <1>1, <2>1, <2>2
<1>3. PICK w \in Nat : w = v + o /\ w = ENTRIES * q + o
  BY <1>1, <1>2
<1>4. o \in Index
  BY <1>1 DEF Index
<1>5. Upper(w) = q /\ Digit(w) = o
  BY <1>3, <1>4, UpperIs
<1>6. w < ADDRESSES
  <2>1. q < PML4_PS
    <3>1. SUFFICES ASSUME q >= PML4_PS PROVE FALSE
      BY <1>1
    <3>2. ENTRIES * (q - PML4_PS) >= 0
      BY <1>1, <3>1
    <3> QED BY <1>1, <1>2, <3>2
  <2>2. ENTRIES * (PML4_PS - 1 - q) >= 0
    BY <1>1, <2>1
  <2> QED BY <1>1, <1>3, <2>2
<1>7. \A l \in 1..3 : VA_INDEX(w, l) = VA_INDEX(v, l)
  <2>1. /\ VA_INDEX(w, 1) = VA_INDEX(v, 1) /\ VA_INDEX(w, 2) = VA_INDEX(v, 2)
        /\ VA_INDEX(w, 3) = VA_INDEX(v, 3)
    BY <1>1, <1>2, <1>3, <1>5, IndicesAre
  <2> QED BY <2>1
<1>8. w % HUGE_PS = o
  BY <1>1, <1>5, Zenon DEF Digit
<1>9. w \in Virt
  BY <1>3, <1>6, SizesAre DEF Virt
<1> QED BY <1>3, <1>7, <1>8, <1>9

\* Two large pages with the same indices above it are the same.
LEMMA SameLargePage ==
  ASSUME NEW u \in Virt, NEW v \in Virt, u % HUGE_PS = 0, v % HUGE_PS = 0,
         \A l \in 1..3 : VA_INDEX(u, l) = VA_INDEX(v, l)
  PROVE  u = v
<1>1. VA_INDEX(u, 0) = 0 /\ VA_INDEX(v, 0) = 0
  <2>1. Digit(u) = 0 /\ Digit(v) = 0
    BY Products, Zenon DEF Digit
  <2>2. u \in Nat /\ v \in Nat
    BY VirtIs
  <2> QED BY <2>1, <2>2, IndicesAre
<1>2. \A l \in Levels : VA_INDEX(u, l) = VA_INDEX(v, l)
  BY <1>1 DEF Levels
<1> QED BY <1>2, SameIndices

-----------------------------------------------------------------------------
(* The parts of the address space                                          *)

\* Multiples of the size of a large page.
LEMMA Multiples ==
  /\ \A b \in Nat : ENTRIES * b \in Nat /\ (ENTRIES * b) % HUGE_PS = 0
  /\ \A a \in Nat : a % HUGE_PS = 0 => a = ENTRIES * Upper(a)
<1>1. ENTRIES \in Nat \ {0} /\ HUGE_PS = ENTRIES
  BY Products
<1>2. ASSUME NEW b \in Nat PROVE ENTRIES * b \in Nat /\ (ENTRIES * b) % HUGE_PS = 0
  <2>1. PICK v \in Nat : v = ENTRIES * b
    BY <1>1
  <2>2. v = ENTRIES * b + 0 /\ 0 \in Index
    BY <1>1, <2>1 DEF Index
  <2>3. Digit(v) = 0
    BY <2>2, UpperIs
  <2> QED BY <1>1, <2>1, <2>3, Zenon DEF Digit
<1>3. ASSUME NEW a \in Nat, a % HUGE_PS = 0 PROVE a = ENTRIES * Upper(a)
  <2>1. Digit(a) = 0
    BY <1>1, <1>3, Zenon DEF Digit
  <2>2. Upper(a) \in Nat /\ a = ENTRIES * Upper(a) + Digit(a)
    BY DigitIs
  <2> QED BY <1>1, <2>1, <2>2
<1> QED BY <1>2, <1>3

\* Two of them are a large page apart, or more.
LEMMA NextMultiple ==
  ASSUME NEW a \in Nat, NEW b \in Nat, a % HUGE_PS = 0, b % HUGE_PS = 0
  PROVE  /\ (a + HUGE_PS) % HUGE_PS = 0
         /\ a < b => a + HUGE_PS <= b
<1>1. ENTRIES \in Nat \ {0} /\ HUGE_PS = ENTRIES
  BY Products
<1>2. PICK p \in Nat, q \in Nat : a = ENTRIES * p /\ b = ENTRIES * q
  <2>1. Upper(a) \in Nat /\ Upper(b) \in Nat
    BY DigitIs
  <2> QED BY <2>1, Multiples
<1>3. a + HUGE_PS = ENTRIES * (p + 1) /\ p + 1 \in Nat
  BY <1>1, <1>2
<1>4. ASSUME a < b PROVE a + HUGE_PS <= b
  <2>1. p < q
    <3>1. SUFFICES ASSUME p >= q PROVE FALSE
      BY <1>2
    <3>2. ENTRIES * (p - q) >= 0
      BY <1>1, <3>1
    <3> QED BY <1>1, <1>2, <1>4, <3>2
  <2>2. ENTRIES * (q - p - 1) >= 0
    BY <1>1, <2>1
  <2> QED BY <1>1, <1>2, <2>2
<1>5. (a + HUGE_PS) % HUGE_PS = 0
  BY <1>3, Multiples
<1> QED BY <1>4, <1>5

LEMMA AlignUpIs ==
  ASSUME NEW x \in Nat
  PROVE  /\ ALIGN_UP(x, HUGE_PS) \in Nat /\ ALIGN_UP(x, HUGE_PS) % HUGE_PS = 0
         /\ x <= ALIGN_UP(x, HUGE_PS)
         /\ \A a \in Nat : a % HUGE_PS = 0 /\ x <= a => ALIGN_UP(x, HUGE_PS) <= a
<1>1. ENTRIES \in Nat \ {0} /\ HUGE_PS = ENTRIES
  BY Products
<1>2. PICK y \in Nat : y = x + ENTRIES - 1
  BY <1>1
<1>3. PICK u \in Nat, d \in 0..(ENTRIES - 1) : u = Upper(y) /\ y = ENTRIES * u + d
  BY DigitIs DEF Index
<1>4. ALIGN_UP(x, HUGE_PS) = u * ENTRIES
  <2>1. ALIGN_UP(x, HUGE_PS) = (y \div ENTRIES) * ENTRIES
    BY <1>1, <1>2, Zenon DEF ALIGN_UP
  <2> QED BY <1>3, <2>1, Zenon DEF Upper
<1>5. PICK m \in Nat : m = ENTRIES * u /\ m = ALIGN_UP(x, HUGE_PS)
  <2>1. u * ENTRIES = ENTRIES * u /\ ENTRIES * u \in Nat
    BY <1>1
  <2> QED BY <1>4, <2>1
<1>6. x <= m
  BY <1>1, <1>2, <1>3, <1>5
<1>7. ASSUME NEW a \in Nat, a % HUGE_PS = 0, x <= a PROVE m <= a
  <2>1. SUFFICES ASSUME a < m PROVE FALSE
    OBVIOUS
  <2>2. m % HUGE_PS = 0
    BY <1>5, Multiples
  <2>3. a + ENTRIES <= m
    BY <1>1, <1>7, <2>1, <2>2, NextMultiple
  <2> QED BY <1>1, <1>2, <1>3, <1>5, <1>7, <2>3
<1>8. m % HUGE_PS = 0
  BY <1>5, Multiples
<1> QED BY <1>5, <1>6, <1>7, <1>8

\* The window onto physical memory.
LEMMA WindowIs ==
  ASSUME NEW f \in 0..(2 * SUPER_PS - 1)
  PROVE  /\ KERNEL_PHYS_TO_VIRT(f) = f + KERNEL_VMA /\ KERNEL_VMA \in Nat
         /\ KERNEL_PHYS_TO_VIRT(f) \in Virt
         /\ VA_INDEX(KERNEL_PHYS_TO_VIRT(f), 3) = Top
         /\ KERNEL_PHYS_TO_VIRT(f) % HUGE_PS = f % HUGE_PS
<1>1. /\ ENTRIES \in Nat /\ ENTRIES >= 5 /\ SUPER_PS \in Nat /\ PML4_PS \in Nat
      /\ ADDRESSES \in Nat /\ 5 * SUPER_PS <= PML4_PS /\ 5 * PML4_PS <= ADDRESSES
      /\ SUPER_PS >= ENTRIES /\ HUGE_PS = ENTRIES
  BY SizesAre
<1>2. SUPER_PS = ENTRIES * ENTRIES /\ ADDRESSES = ENTRIES * PML4_PS
  BY SizesAre
<1>3. KERNEL_VMA = ADDRESSES - 2 * SUPER_PS
  BY DEF KERNEL_VMA
<1>4. PICK v \in Nat : v = f + KERNEL_VMA /\ v < ADDRESSES
  BY <1>1, <1>3
<1>5. v % ADDRESSES = v
  BY ONLY <1>1, <1>4
<1>6. KERNEL_PHYS_TO_VIRT(f) = v
  BY <1>4, <1>5, Zenon DEF KERNEL_PHYS_TO_VIRT
<1>7. VA_INDEX(v, 3) = Top /\ v \in Virt
  <2>1. PICK r \in 0..(PML4_PS - 1) : r = PML4_PS - 2 * SUPER_PS + f
    BY <1>1
  <2>2. v = PML4_PS * Top + r
    BY <1>1, <1>2, <1>3, <1>4, <2>1 DEF Top
  <2>3. Top \in Index
    BY <1>1 DEF Top, Index
  <2> QED BY <2>2, <2>3, TopIndexIs
<1>8. v % HUGE_PS = f % HUGE_PS
  <2>1. f \in Nat
    OBVIOUS
  <2>2. PICK u \in Nat, d \in Index : u = Upper(f) /\ d = Digit(f) /\ f = ENTRIES * u + d
    BY <2>1, DigitIs
  <2>3. PICK q \in Nat : q = u + PML4_PS - 2 * ENTRIES
    BY <1>1
  <2>4. d \in Nat
    BY <1>1 DEF Index
  <2>5. v = ENTRIES * q + d
    <3>1. ENTRIES * q = ENTRIES * u + ENTRIES * PML4_PS - 2 * (ENTRIES * ENTRIES)
      BY ONLY <1>1, <2>3
    <3>2. v = ENTRIES * u + d + ADDRESSES - 2 * SUPER_PS
      BY <1>1, <1>3, <1>4, <2>2, <2>4
    <3> QED BY <1>1, <1>2, <2>4, <3>1, <3>2
  <2>6. Digit(v) = d
    BY <2>5, UpperIs
  <2> QED BY <1>1, <2>2, <2>6, Zenon DEF Digit
<1> QED BY <1>1, <1>3, <1>4, <1>6, <1>7, <1>8

\* The other parts, each below an entry of the root of its own.
LEMMA PlacesAre ==
  /\ \A n \in 0..(ENTRIES - 1) :
       KERNEL_HEAP_ADDR + n \in Virt /\ VA_INDEX(KERNEL_HEAP_ADDR + n, 3) = ENTRIES - 2
  /\ \A n \in 0..(PML4_PS - 1) :
       /\ MMIO_PHYS_TO_VIRT(n) \in Virt /\ VA_INDEX(MMIO_PHYS_TO_VIRT(n), 3) = ENTRIES - 3
       /\ n \in Virt /\ VA_INDEX(n, 3) = 0
       /\ THREAD_CODE_VIRT_ADDR + n \in Virt /\ VA_INDEX(THREAD_CODE_VIRT_ADDR + n, 3) = 1
<1>1. /\ ENTRIES \in Nat /\ ENTRIES >= 5 /\ PML4_PS \in Nat /\ ADDRESSES \in Nat
      /\ ENTRIES <= PML4_PS /\ ADDRESSES = ENTRIES * PML4_PS
  BY SizesAre
<1>2. 0 \in Index /\ 1 \in Index /\ ENTRIES - 2 \in Index /\ ENTRIES - 3 \in Index
  BY <1>1 DEF Index
<1>3. ASSUME NEW n \in 0..(ENTRIES - 1)
      PROVE  KERNEL_HEAP_ADDR + n \in Virt /\ VA_INDEX(KERNEL_HEAP_ADDR + n, 3) = ENTRIES - 2
  <2>1. KERNEL_HEAP_ADDR + n = PML4_PS * (ENTRIES - 2) + n /\ n \in 0..(PML4_PS - 1)
    BY <1>1 DEF KERNEL_HEAP_ADDR
  <2> QED BY <1>2, <2>1, TopIndexIs
<1>4. ASSUME NEW n \in 0..(PML4_PS - 1)
      PROVE  MMIO_PHYS_TO_VIRT(n) \in Virt /\ VA_INDEX(MMIO_PHYS_TO_VIRT(n), 3) = ENTRIES - 3
  <2>1. PICK v : v = n + KERNEL_MMIO /\ v = PML4_PS * (ENTRIES - 3) + n
    BY <1>1 DEF KERNEL_MMIO
  <2>2. v \in Virt /\ VA_INDEX(v, 3) = ENTRIES - 3
    BY <1>2, <2>1, TopIndexIs
  <2>3. v % ADDRESSES = v
    <3>1. v \in Nat /\ v < ADDRESSES
      BY <2>2, VirtIs
    <3> QED BY ONLY <1>1, <3>1
  <2>4. MMIO_PHYS_TO_VIRT(n) = v
    BY <2>1, <2>3, Zenon DEF MMIO_PHYS_TO_VIRT
  <2> QED BY <2>2, <2>4
<1>5. ASSUME NEW n \in 0..(PML4_PS - 1)
      PROVE  /\ n \in Virt /\ VA_INDEX(n, 3) = 0
             /\ THREAD_CODE_VIRT_ADDR + n \in Virt
             /\ VA_INDEX(THREAD_CODE_VIRT_ADDR + n, 3) = 1
  <2>1. n = PML4_PS * 0 + n /\ THREAD_CODE_VIRT_ADDR + n = PML4_PS * 1 + n
    BY <1>1 DEF THREAD_CODE_VIRT_ADDR
  <2> QED BY <1>2, <2>1, TopIndexIs
<1> QED BY <1>3, <1>4, <1>5

-----------------------------------------------------------------------------
(* Walks                                                                   *)

\* How a walk can end at all, if there are no pages at level 2.
LEMMA WalkEndsSomewhere ==
  ASSUME NEW root, NEW v, walk_table(mem, root, v).frame # None,
         NEW e3, e3 = mem[root][VA_INDEX(v, 3)], NEW e2, e2 = mem[e3.ppn][VA_INDEX(v, 2)],
         NEW e1, e1 = mem[e2.ppn][VA_INDEX(v, 1)], NEW e0, e0 = mem[e1.ppn][VA_INDEX(v, 0)]
  PROVE  /\ e3.present /\ e2.present
         /\ ~e2.huge => /\ e1.present
                        /\ ~e1.huge => e0.present
<1>1. WalkFails.frame = None
  BY DEF WalkFails
<1>2. CASE ~e3.present \/ ~e2.present
  <2>1. walk_table(mem, root, v) = WalkFails
    BY <1>2 DEF walk_table
  <2> QED BY <1>1, <2>1
<1>3. CASE e3.present /\ e2.present /\ ~e2.huge /\ ~e1.present
  <2>1. walk_table(mem, root, v) = WalkFails
    BY <1>3 DEF walk_table
  <2> QED BY <1>1, <2>1
<1>4. CASE e3.present /\ e2.present /\ ~e2.huge /\ e1.present /\ ~e1.huge /\ ~e0.present
  <2>1. walk_table(mem, root, v) = WalkFails
    BY <1>4 DEF walk_table
  <2> QED BY <1>1, <2>1
<1> QED BY <1>2, <1>3, <1>4

\* The rights that all entries of a walk give.
LEMMA RightsOfWalk ==
  ASSUME NEW path, NEW last \in path, NEW size,
         \A e \in path : e.perms.user \in BOOLEAN /\ e.perms.writeable \in BOOLEAN,
         last.perms \in PermRecords,
         \A e \in path : /\ last.perms.user => e.perms.user
                         /\ last.perms.writeable => e.perms.writeable
  PROVE  /\ WalkEnds(path, last, size).frame = last.ppn /\ WalkEnds(path, last, size).size = size
         /\ WalkEnds(path, last, size).perms = last.perms
<1>1. (\A e \in path : e.perms.user) <=> last.perms.user
  OBVIOUS
<1>2. (\A e \in path : e.perms.writeable) <=> last.perms.writeable
  OBVIOUS
<1>3. PICK u \in BOOLEAN, w \in BOOLEAN :
        u = (\A e \in path : e.perms.user) /\ w = (\A e \in path : e.perms.writeable)
  OBVIOUS
<1>4. u = last.perms.user /\ w = last.perms.writeable
  BY <1>1, <1>2, <1>3 DEF PermRecords
<1>5. WalkEnds(path, last, size)
        = [frame |-> last.ppn, size |-> size, perms |-> Perms(u, w, last.perms.nocache)]
  BY <1>3, Zenon DEF WalkEnds
<1>6. Perms(u, w, last.perms.nocache) = last.perms
  BY <1>4 DEF Perms, PermRecords
<1> QED BY <1>5, <1>6

\* A right is only given if the last entry gives it.
LEMMA RightIsOfLast ==
  ASSUME NEW path, NEW last \in path, NEW size, WalkEnds(path, last, size).perms.user
  PROVE  last.perms.user
BY Zenon DEF WalkEnds, Perms

-----------------------------------------------------------------------------
(* Memory                                                                  *)

\* The regions, and what is not in them.
LEMMA MemoryIs ==
  ASSUME mmap \in MemoryMaps
  PROVE  /\ Len(mmap) \in Nat /\ DOMAIN mmap = 1..Len(mmap)
         /\ \A n \in DOMAIN mmap : mmap[n][1] \in Nat /\ mmap[n][2] \in Nat
         /\ RAM \subseteq Phys /\ Phys \subseteq Nat /\ KernelFrames \subseteq Phys
         /\ VideoFrame \notin RAM
         /\ \A list \in DeviceLists : /\ list \in Seq(0..(PML4_PS - 1))
                                      /\ \A d \in DOMAIN list : list[d] \notin RAM
<1>1. mmap \in Seq(Nat \X Nat) /\ Frames \in Nat /\ KernelFrames \subseteq Phys
  BY PagingAssumption DEF Phys
<1>2. Len(mmap) \in Nat /\ DOMAIN mmap = 1..Len(mmap)
  BY <1>1
<1>3. ASSUME NEW n \in DOMAIN mmap
      PROVE  mmap[n][1] \in Nat /\ mmap[n][2] \in Nat /\ mmap[n][2] <= Frames
  <2>1. mmap[n] \in Nat \X Nat
    BY <1>1, <1>2
  <2>2. mmap[n][2] <= Frames
    BY PagingAssumption
  <2> QED BY <2>1, <2>2
<1>4. RAM \subseteq Phys
  <2> SUFFICES ASSUME NEW f \in RAM PROVE f \in Phys
    OBVIOUS
  <2>1. PICK n \in DOMAIN mmap : f \in mmap[n][1]..(mmap[n][2] - 1)
    BY DEF RAM
  <2> QED BY <1>1, <1>3, <2>1 DEF Phys
<1>5. VideoFrame \notin RAM
  BY DeviceAssumption DEF RAM
<1>6. ASSUME NEW list \in DeviceLists
      PROVE  /\ list \in Seq(0..(PML4_PS - 1))
             /\ \A d \in DOMAIN list : list[d] \notin RAM
  <2>1. list \in Seq(0..(PML4_PS - 1))
    BY DeviceAssumption
  <2>2. \A d \in DOMAIN list : list[d] \notin RAM
    BY DeviceAssumption DEF RAM
  <2> QED BY <2>1, <2>2
<1>7. Phys \subseteq Nat
  BY <1>1 DEF Phys
<1> QED BY <1>1, <1>2, <1>3, <1>4, <1>5, <1>6, <1>7

\* The address of a table's frame is not negative as an int.
LEMMA LowFrame ==
  ASSUME mmap \in MemoryMaps, LowMemory, NEW f \in RAM \cup KernelFrames
  PROVE  as_int(f) = f /\ f \in Nat
<1>1. SUPER_PS \in Nat /\ SUPER_PS > 0
  BY SizesAre
<1>2. f \in Nat /\ f < 2 * SUPER_PS
  <2>1. f \in Nat
    BY MemoryIs
  <2>2. f \in 0..(2 * SUPER_PS - 1)
    BY PagingAssumption DEF LowMemory
  <2> QED BY <1>1, <2>1, <2>2
<1>3. PICK a \in Nat \ {0} : a = 4 * SUPER_PS
  BY <1>1
<1>4. f % a = f
  <2>1. 0 \in Nat /\ f \in 0..(a - 1) /\ f = a * 0 + f
    BY <1>1, <1>2, <1>3
  <2> QED BY <2>1, DivUnique
<1>5. f % (4 * SUPER_PS) = f
  BY <1>3, <1>4
<1> QED BY <1>2, <1>5, Zenon DEF as_int

\* The frame that is taken is a free one.
LEMMA FreeIs ==
  ASSUME mmap \in MemoryMaps
  PROVE  /\ Free \subseteq Nat /\ IsFiniteSet(Free)
         /\ Free \subseteq RAM /\ Free \cap used = {}
         /\ Free # {} => LowestOf(Free) \in Free
<1>1. Free \subseteq RAM /\ Free \cap used = {}
  BY DEF Free
<1>2. Free \subseteq Phys /\ Free \subseteq Nat
  BY <1>1, MemoryIs
<1>3. IsFiniteSet(Phys)
  <2>1. 0 \in Int /\ Frames - 1 \in Int
    BY PagingAssumption
  <2> QED BY <2>1, FS_Interval DEF Phys
<1>4. IsFiniteSet(Free)
  BY <1>2, <1>3, FS_Subset
<1>5. ASSUME Free # {} PROVE LowestOf(Free) \in Free
  <2>1. \E f \in Free : \A g \in Free : f <= g
    BY <1>2, <1>5, LeastElement
  <2> QED BY ONLY <2>1 DEF LowestOf
<1> QED BY <1>1, <1>2, <1>4, <1>5

\* ialloc_frames gives frames that were free, or takes all there are, or faults.
LEMMA TakesFramesIs ==
  ASSUME mmap \in MemoryMaps, NEW n \in Nat \ {0}, NEW next, NEW failed,
         TakesFrames(n, next, failed)
  PROVE  \/ pc' = "fault" /\ UNCHANGED <<used, pages>> /\ ~NextIsReachable
         \/ pc' = failed /\ pages' = pages /\ used' = used \cup Free
         \/ /\ pc' = next /\ used' = used \cup {pages'[k] : k \in 1..n}
            /\ \A k \in 1..n : pages'[k] \in Free
<1> DEFINE list == [k \in 1..n |-> CHOOSE f \in Free :
                                     Cardinality({g \in Free : g <= f}) = k]
<1>1. ASSUME Cardinality(Free) >= n PROVE \A k \in 1..n : list[k] \in Free
  <2>1. Cardinality(Free) \in Nat /\ n <= Cardinality(Free)
    BY <1>1, FreeIs, FS_CardinalityType
  <2>2. ASSUME NEW k \in 1..n PROVE list[k] \in Free
    <3>1. k \in 1..Cardinality(Free)
      BY <2>1
    <3>2. \E f \in Free : Cardinality(UpTo(Free, f)) = k
      BY <3>1, FreeIs, RankExists
    <3>3. \E f \in Free : Cardinality({g \in Free : g <= f}) = k
      BY <3>2, Zenon DEF UpTo
    <3>4. list[k] = CHOOSE f \in Free : Cardinality({g \in Free : g <= f}) = k
      OBVIOUS
    <3> QED BY ONLY <3>3, <3>4, Zenon
  <2> QED BY <2>2, Zenon
<1>2. \/ ~NextIsReachable /\ pc' = "fault" /\ UNCHANGED <<used, pages>>
      \/ pc' = failed /\ used' = used \cup Free /\ UNCHANGED pages
      \/ /\ Cardinality(Free) >= n /\ pages' = list
         /\ pc' = next /\ used' = used \cup {pages'[k] : k \in 1..n}
  BY Zenon DEF TakesFrames
<1> HIDE DEF list
<1> QED BY <1>1, <1>2, Zenon

\* A call has come to its leaf when it has come to the level of its size.
LEMMA LeafLevelIs ==
  ASSUME call \in CallRecords, LeafOf(call.size) <= call.level
  PROVE  /\ LeafLevel <=> call.level = LeafOf(call.size)
         /\ ~LeafLevel => call.level \in 1..3 /\ call.level - 1 \in Levels
                          /\ LeafOf(call.size) <= call.level - 1
<1>1. call.size \in {1, HUGE_PS} /\ call.level \in {0, 1, 2, 3}
  BY DEF CallRecords, Sizes, Levels
<1>2. HUGE_PS \in Nat /\ SUPER_PS \in Nat /\ PML4_PS \in Nat
      /\ 5 <= HUGE_PS /\ HUGE_PS < SUPER_PS /\ HUGE_PS < PML4_PS
  BY SizesAre
<1>3. LeafLevel <=> call.level = LeafOf(call.size)
  BY <1>1, <1>2, EntryPagesAre DEF LeafLevel, LeafOf
<1> QED BY <1>1, <1>3 DEF Levels, LeafOf

-----------------------------------------------------------------------------
(* What the invariant says of walks                                        *)

\* The entries on a path.
LEMMA PathEntries ==
  ASSUME NEW lvl \in LevelMaps, NEW pos \in Positions, TablesInv(lvl),
         NEW root, NEW v \in Virt, NEW l \in {0, 1}, NEW perms,
         NEW t \in Way, Path(mem, lvl, pos, root, v, l, perms, t)
  PROVE  /\ t[3] = root
         /\ \A j \in l..3 : t[j] \in Phys /\ mem[t[j]][VA_INDEX(v, j)] \in Entries
         /\ Link(mem, t[3], VA_INDEX(v, 3), t[2], perms)
         /\ Link(mem, t[2], VA_INDEX(v, 2), t[1], perms)
         /\ l = 0 => Link(mem, t[1], VA_INDEX(v, 1), t[0], perms)
<1>1. t[3] = root
  BY DEF Path
<1>2. ASSUME NEW j \in l..3
      PROVE  t[j] \in Phys /\ mem[t[j]][VA_INDEX(v, j)] \in Entries
  <2>1. t[j] \in Phys
    BY Zenon DEF Path
  <2>2. mem[t[j]] \in [Index -> Entries]
    BY <2>1 DEF TablesInv, Tables
  <2>3. VA_INDEX(v, j) \in Index
    BY VirtIs, IndicesAre DEF Levels
  <2> QED BY <2>1, <2>2, <2>3
<1>3. \A j \in (l + 1)..3 : Link(mem, t[j], VA_INDEX(v, j), t[j - 1], perms)
  BY Zenon DEF Path
<1>4. /\ 3 \in (l + 1)..3 /\ 2 \in (l + 1)..3 /\ 3 - 1 = 2 /\ 2 - 1 = 1 /\ 1 - 1 = 0
      /\ l = 0 => 1 \in (l + 1)..3
  OBVIOUS
<1>5. /\ Link(mem, t[3], VA_INDEX(v, 3), t[2], perms)
      /\ Link(mem, t[2], VA_INDEX(v, 2), t[1], perms)
      /\ l = 0 => Link(mem, t[1], VA_INDEX(v, 1), t[0], perms)
  BY ONLY <1>3, <1>4, Zenon
<1> QED BY <1>1, <1>2, <1>5

\* A walk that ends at the entry of a page finds the page with its rights.
LEMMA WalkFinds ==
  ASSUME NEW root, NEW u, NEW path, NEW last \in path, NEW size, NEW o,
         NEW r \in [frame : Nat, size : Sizes, perms : PermRecords],
         walk_table(mem, root, u) = WalkEnds(path, last, size),
         \A e \in path : /\ e \in Entries
                         /\ r.perms.user => e.perms.user
                         /\ r.perms.writeable => e.perms.writeable,
         last = Entry(r.frame, r.size # 1, r.perms), u % size = o
  PROVE  Translate(mem, root, u) = r.frame + o /\ walk_table(mem, root, u).perms = r.perms
<1>1. last.ppn = r.frame /\ last.perms = r.perms
  BY DEF Entry
<1>2. \A e \in path : e.perms.user \in BOOLEAN /\ e.perms.writeable \in BOOLEAN
  BY DEF Entries, PermRecords
<1>3. \A e \in path : /\ last.perms.user => e.perms.user
                      /\ last.perms.writeable => e.perms.writeable
  BY <1>1, Zenon
<1>4. last.perms \in PermRecords /\ r.frame # None
  BY <1>1 DEF None
<1>5. /\ WalkEnds(path, last, size).frame = last.ppn /\ WalkEnds(path, last, size).size = size
      /\ WalkEnds(path, last, size).perms = last.perms
  BY <1>2, <1>3, <1>4, RightsOfWalk
<1>6. Translate(mem, root, u) =
        walk_table(mem, root, u).frame + (u % walk_table(mem, root, u).size)
  BY <1>1, <1>4, <1>5, Zenon DEF Translate
<1> QED BY <1>1, <1>5, <1>6, Zenon

\* The walk to an offset in a page finds its frame, with the page's rights.
IsAt(root, v, o, r) ==
  /\ Translate(mem, root, v + o) = r.frame + o
  /\ walk_table(mem, root, v + o).perms = r.perms

LEMMA FoundIsMapped ==
  ASSUME NEW lvl \in LevelMaps, NEW pos \in Positions, TablesInv(lvl),
         NEW root, NEW v \in Virt,
         NEW r, r \in Mappings,
         Found(mem, lvl, pos, root, v, r), Placed(root, v, r.size),
         NEW o, o \in 0..(r.size - 1)
  PROVE  IsAt(root, v, o, r)
<1>1. PICK t \in Way :
        /\ Path(mem, lvl, pos, root, v, LeafOf(r.size), r.perms, t)
        /\ mem[t[LeafOf(r.size)]][VA_INDEX(v, LeafOf(r.size))]
             = Entry(r.frame, r.size # 1, r.perms)
  BY DEF Found
<1>2. v \in Nat /\ r.size \in {1, HUGE_PS} /\ r.perms \in PermRecords
      /\ HUGE_PS \in Nat /\ HUGE_PS >= 5
  BY VirtIs, SizesAre DEF Sizes, Mappings
<1>3. LeafOf(r.size) \in {0, 1}
  BY DEF LeafOf
<1>4. PICK e3, e2, e1, e0 :
        /\ e3 = mem[root][VA_INDEX(v, 3)] /\ e2 = mem[e3.ppn][VA_INDEX(v, 2)]
        /\ e1 = mem[e2.ppn][VA_INDEX(v, 1)] /\ e0 = mem[e1.ppn][VA_INDEX(v, 0)]
  BY Zenon
<1>5. /\ t[3] = root
      /\ \A j \in LeafOf(r.size)..3 : t[j] \in Phys /\ mem[t[j]][VA_INDEX(v, j)] \in Entries
      /\ Link(mem, t[3], VA_INDEX(v, 3), t[2], r.perms)
      /\ Link(mem, t[2], VA_INDEX(v, 2), t[1], r.perms)
      /\ LeafOf(r.size) = 0 => Link(mem, t[1], VA_INDEX(v, 1), t[0], r.perms)
  <2>1. PICK l \in {0, 1}, perms \in PermRecords : l = LeafOf(r.size) /\ perms = r.perms
    BY <1>2, <1>3
  <2>2. Path(mem, lvl, pos, root, v, l, perms, t)
    BY <1>1, <2>1, Zenon
  <2>3. /\ t[3] = root
        /\ \A j \in l..3 : t[j] \in Phys /\ mem[t[j]][VA_INDEX(v, j)] \in Entries
        /\ Link(mem, t[3], VA_INDEX(v, 3), t[2], perms)
        /\ Link(mem, t[2], VA_INDEX(v, 2), t[1], perms)
        /\ l = 0 => Link(mem, t[1], VA_INDEX(v, 1), t[0], perms)
    BY <2>2, PathEntries
  <2> QED BY <2>1, <2>3, Zenon
<1>10. /\ e3.present /\ e3.ppn = t[2]
       /\ r.perms.user => e3.perms.user
       /\ r.perms.writeable => e3.perms.writeable
  BY <1>4, <1>5, Zenon DEF Link
<1>11. /\ e2 = mem[t[2]][VA_INDEX(v, 2)] /\ e2.present /\ ~e2.huge /\ e2.ppn = t[1]
       /\ r.perms.user => e2.perms.user
       /\ r.perms.writeable => e2.perms.writeable
  <2>1. e2 = mem[t[2]][VA_INDEX(v, 2)]
    BY <1>4, <1>10, Zenon
  <2> QED BY <2>1, <1>5, Zenon DEF Link
<1>12. e1 = mem[t[1]][VA_INDEX(v, 1)]
  BY <1>4, <1>11, Zenon
<1>13. LeafOf(r.size) = 0 =>
         /\ e1.present /\ ~e1.huge /\ e0 = mem[t[0]][VA_INDEX(v, 0)]
         /\ r.perms.user => e1.perms.user
         /\ r.perms.writeable => e1.perms.writeable
  BY <1>4, <1>5, <1>12, Zenon DEF Link
<1>6. /\ e3.present /\ e2.present /\ ~e2.huge
      /\ r.perms.user => e3.perms.user
      /\ r.perms.writeable => e3.perms.writeable
      /\ r.perms.user => e2.perms.user
      /\ r.perms.writeable => e2.perms.writeable
      /\ LeafOf(r.size) = 0 =>
           /\ e1.present /\ ~e1.huge
           /\ r.perms.user => e1.perms.user
           /\ r.perms.writeable => e1.perms.writeable
  BY <1>10, <1>11, <1>13, Zenon
<1>7. /\ e3 \in Entries /\ e2 \in Entries /\ e1 \in Entries
      /\ LeafOf(r.size) = 0 => e0 \in Entries
  <2>1. /\ 3 \in LeafOf(r.size)..3 /\ 2 \in LeafOf(r.size)..3 /\ 1 \in LeafOf(r.size)..3
        /\ LeafOf(r.size) = 0 => 0 \in LeafOf(r.size)..3
    BY <1>3
  <2> QED BY <1>4, <1>5, <1>11, <1>12, <1>13, <2>1, Zenon
<1>8. CASE r.size = 1
  <2>1. LeafOf(r.size) = 0 /\ o = 0 /\ v + o = v /\ v % 1 = o
    BY <1>2, <1>8 DEF LeafOf
  <2>2. e0 = Entry(r.frame, r.size # 1, r.perms)
    BY <1>1, <1>13, <2>1, Zenon
  <2>3. e0.present /\ e0.perms = r.perms
    BY <2>2 DEF Entry
  <2>9. PICK path : path = {e3, e2, e1, e0}
    BY Zenon
  <2>4. walk_table(mem, root, v) = WalkEnds(path, e0, 1)
    BY ONLY <1>4, <1>6, <2>1, <2>3, <2>9, Zenon DEF walk_table
  <2>5. \A e \in path : /\ e \in Entries
                        /\ r.perms.user => e.perms.user
                        /\ r.perms.writeable => e.perms.writeable
    BY <1>6, <1>7, <2>1, <2>3, <2>9, Zenon
  <2>6. e0 \in path
    BY <2>9, Zenon
  <2>7. /\ Translate(mem, root, v) = r.frame + o
        /\ walk_table(mem, root, v).perms = r.perms
    BY <2>1, <2>2, <2>4, <2>5, <2>6, WalkFinds DEF Mappings
  <2> QED BY <2>1, <2>7, Zenon DEF IsAt
<1>9. CASE r.size # 1
  <2>1. LeafOf(r.size) = 1 /\ r.size = HUGE_PS /\ v % HUGE_PS = 0
    BY <1>2, <1>9 DEF LeafOf, Placed
  <2>2. e1 = Entry(r.frame, r.size # 1, r.perms)
    BY <1>1, <1>12, <2>1, Zenon
  <2>3. e1.present /\ e1.huge /\ e1.perms = r.perms
    BY <1>9, <2>2 DEF Entry
  <2>4. (v + o) % HUGE_PS = o /\ \A l \in 1..3 : VA_INDEX(v + o, l) = VA_INDEX(v, l)
    BY <2>1, LargePage
  <2>5. /\ VA_INDEX(v + o, 1) = VA_INDEX(v, 1) /\ VA_INDEX(v + o, 2) = VA_INDEX(v, 2)
        /\ VA_INDEX(v + o, 3) = VA_INDEX(v, 3)
    BY <2>4
  <2>6. PICK u : u = v + o
    OBVIOUS
  <2>11. PICK path : path = {e3, e2, e1}
    BY Zenon
  <2>7. walk_table(mem, root, u) = WalkEnds(path, e1, HUGE_PS)
    BY ONLY <1>4, <1>6, <2>3, <2>5, <2>6, <2>11, Zenon DEF walk_table
  <2>8. \A e \in path : /\ e \in Entries
                        /\ r.perms.user => e.perms.user
                        /\ r.perms.writeable => e.perms.writeable
    BY <1>6, <1>7, <2>3, <2>11, Zenon
  <2>9. e1 \in path /\ u % HUGE_PS = o
    BY <2>4, <2>6, <2>11, Zenon
  <2>10. /\ Translate(mem, root, u) = r.frame + o
         /\ walk_table(mem, root, u).perms = r.perms
    BY <2>2, <2>7, <2>8, <2>9, WalkFinds DEF Mappings
  <2> QED BY <2>6, <2>10, Zenon DEF IsAt
<1> QED BY <1>8, <1>9, Zenon

\* A page that was asked for is where it was asked to be.
LEMMA AskedIsMapped ==
  ASSUME NEW lvl \in LevelMaps, NEW pos \in Positions, TablesInv(lvl), AskedInv(lvl, pos),
         NEW k \in DOMAIN asked, NEW o \in 0..(asked[k].size - 1)
  PROVE  /\ Translate(mem, k[1], k[2] + o) = asked[k].frame + o
         /\ walk_table(mem, k[1], k[2] + o).perms = asked[k].perms
<1>1. PICK r : r = asked[k]
  OBVIOUS
<1>2. /\ r \in [frame : Nat, size : Sizes, perms : PermRecords]
      /\ Placed(k[1], k[2], r.size) /\ Found(mem, lvl, pos, k[1], k[2], r)
  BY <1>1, Zenon DEF AskedInv
<1>3. k[2] \in Virt
  BY <1>2 DEF Placed
<1>4. PICK v \in Virt, n \in 0..(r.size - 1) : v = k[2] /\ n = o
  <2>1. o \in 0..(r.size - 1)
    BY <1>1, Zenon
  <2> QED BY <1>3, <2>1, Zenon
<1>5. Found(mem, lvl, pos, k[1], v, r) /\ Placed(k[1], v, r.size)
  BY <1>2, <1>4, Zenon
<1>6. /\ Translate(mem, k[1], v + n) = r.frame + n
      /\ walk_table(mem, k[1], v + n).perms = r.perms
  <2>1. PICK root : root = k[1]
    OBVIOUS
  <2>2. r \in Mappings /\ Found(mem, lvl, pos, root, v, r) /\ Placed(root, v, r.size)
    BY <1>2, <1>5, <2>1, Zenon DEF Mappings
  <2>3. IsAt(root, v, n, r)
    BY <2>2, FoundIsMapped, Zenon
  <2>4. Translate(mem, k[1], v + n) = Translate(mem, root, v + n)
    BY <2>1
  <2>5. walk_table(mem, k[1], v + n) = walk_table(mem, root, v + n)
    BY <2>1
  <2> QED BY <2>3, <2>4, <2>5, Zenon DEF IsAt
<1> QED BY <1>1, <1>4, <1>6, Zenon

-----------------------------------------------------------------------------
(* What the invariant says of the properties                               *)

LEMMA MappedFollows ==
  ASSUME NEW lvl \in LevelMaps, NEW pos \in Positions, TablesInv(lvl), AskedInv(lvl, pos)
  PROVE  MappedAsAsked
BY AskedIsMapped DEF MappedAsAsked

LEMMA OwnFramesFollows ==
  ASSUME mmap \in MemoryMaps,
         NEW lvl \in LevelMaps, NEW pos \in Positions, TablesInv(lvl), AskedInv(lvl, pos)
  PROVE  TablesOwnTheirFrames
<1>1. ASSUME NEW f \in DOMAIN mem, mem[f] # EmptyTable PROVE f \in used
  <2>1. f \in Phys
    BY DEF TablesInv
  <2> QED BY <1>1, <2>1 DEF TablesInv
<1>2. ASSUME NEW k \in DOMAIN asked, asked[k].size = 1, asked[k].frame \in RAM
      PROVE  mem[asked[k].frame] = EmptyTable
  <2>1. Owned(lvl, asked[k].frame)
    BY <1>2 DEF AskedInv
  <2>2. asked[k].frame \in Phys
    BY <1>2, MemoryIs
  <2> QED BY <2>1, <2>2 DEF Owned, TablesInv
<1> QED BY <1>1, <1>2 DEF TablesOwnTheirFrames

\* What the entry of a table leads to.
LEMMA EntryIs ==
  ASSUME NEW lvl \in LevelMaps, NEW pos \in Positions, TreeInv(lvl, pos),
         NEW f \in Phys, NEW n \in Index, NEW e, e = mem[f][n], e.present,
         NEW l \in 1..3, lvl[f] = l, ~(l = 1 /\ pos[f][3] = Top)
  PROVE  /\ ~e.huge /\ e.ppn \in Phys /\ lvl[e.ppn] = l - 1
         /\ pos[e.ppn][l] = n
         /\ \A j \in 1..3 : j # l => pos[e.ppn][j] = pos[f][j]
<1>1. lvl[f] # None /\ l # 0
  BY DEF None
<1>2. EntryInv(lvl, pos, f, n)
  BY <1>1, Zenon DEF TreeInv
<1>3. /\ ~e.huge /\ e.ppn \in Phys /\ lvl[e.ppn] = l - 1
      /\ pos[e.ppn] = [pos[f] EXCEPT ![l] = n]
  BY <1>1, <1>2, Zenon DEF EntryInv
<1>4. pos[f] \in [1..3 -> Int]
  BY DEF Positions
<1> QED BY <1>3, <1>4

LEMMA UserFollows ==
  ASSUME NEW lvl \in LevelMaps, NEW pos \in Positions, TablesInv(lvl), TreeInv(lvl, pos),
         RootsInv, AskedInv(lvl, pos)
  PROVE  UserReachesItsPages
<1> SUFFICES ASSUME NEW root \in Roots, NEW v \in Virt,
                    walk_table(mem, root, v).frame # None,
                    walk_table(mem, root, v).perms.user
             PROVE  v = VideoFrame \/ (root = thread_table /\ <<root, v>> \in DOMAIN asked)
  BY Zenon DEF UserReachesItsPages, Roots, Virt
<1>0. PICK e3, e2, e1, e0 :
        /\ e3 = mem[root][VA_INDEX(v, 3)] /\ e2 = mem[e3.ppn][VA_INDEX(v, 2)]
        /\ e1 = mem[e2.ppn][VA_INDEX(v, 1)] /\ e0 = mem[e1.ppn][VA_INDEX(v, 0)]
  BY Zenon
<1>1. /\ VA_INDEX(v, 0) \in Index /\ VA_INDEX(v, 1) \in Index
      /\ VA_INDEX(v, 2) \in Index /\ VA_INDEX(v, 3) \in Index
  BY VirtIs, IndicesAre DEF Levels
<1>2. root \in Phys /\ lvl[root] = 3
  BY DEF Roots, TablesInv
<1>3. /\ e3.present /\ e2.present
      /\ ~e2.huge => /\ e1.present
                     /\ ~e1.huge => e0.present
  BY <1>0, WalkEndsSomewhere, Zenon
<1>4. /\ e3.ppn \in Phys /\ lvl[e3.ppn] = 2
      /\ pos[e3.ppn][3] = VA_INDEX(v, 3)
  <2>1. e3 = mem[root][VA_INDEX(v, 3)] /\ e3.present
    BY <1>0, <1>3
  <2> QED BY <1>1, <1>2, <2>1, EntryIs
<1>5. /\ ~e2.huge /\ e2.ppn \in Phys /\ lvl[e2.ppn] = 1
      /\ pos[e2.ppn][2] = VA_INDEX(v, 2) /\ pos[e2.ppn][3] = pos[e3.ppn][3]
  <2>1. e2 = mem[e3.ppn][VA_INDEX(v, 2)] /\ e2.present
    BY <1>0, <1>3
  <2> QED BY <1>1, <1>4, <2>1, EntryIs
<1>6. e1.present
  BY <1>3, <1>5
<1>8. CASE pos[e2.ppn][3] = Top
  <2>1. EntryInv(lvl, pos, e2.ppn, VA_INDEX(v, 1))
    <3>1. lvl[e2.ppn] # None
      BY <1>5 DEF None
    <3> QED BY <1>0, <1>1, <1>5, <1>6, <3>1, Zenon DEF TreeInv
  <2>2. e1.huge /\ ~e1.perms.user
    <3>1. lvl[e2.ppn] # 0
      BY <1>5
    <3> QED BY <1>0, <1>5, <1>8, <2>1, <3>1, Zenon DEF EntryInv
  <2>6. PICK path : path = {e3, e2, e1}
    BY Zenon
  <2>3. walk_table(mem, root, v) = WalkEnds(path, e1, HUGE_PS)
    BY ONLY <1>0, <1>3, <1>5, <1>6, <2>2, <2>6, Zenon DEF walk_table
  <2>4. e1 \in path
    BY <2>6, Zenon
  <2>5. e1.perms.user
    BY <2>3, <2>4, RightIsOfLast, Zenon
  <2> QED BY <2>2, <2>5
<1>9. CASE pos[e2.ppn][3] # Top
  <2>1. /\ ~e1.huge /\ e1.ppn \in Phys /\ lvl[e1.ppn] = 0
        /\ pos[e1.ppn][1] = VA_INDEX(v, 1)
        /\ \A j \in 2..3 : pos[e1.ppn][j] = pos[e2.ppn][j]
    <3>1. e1 = mem[e2.ppn][VA_INDEX(v, 1)] /\ e2.ppn \in Phys /\ lvl[e2.ppn] = 1
      BY <1>0, <1>5
    <3> QED BY <1>1, <1>6, <1>9, <3>1, EntryIs
  <2>2. e0.present
    BY <1>3, <1>5, <2>1
  <2>13. PICK path : path = {e3, e2, e1, e0}
    BY Zenon
  <2>3. walk_table(mem, root, v) = WalkEnds(path, e0, 1)
    BY ONLY <1>0, <1>3, <1>5, <1>6, <2>1, <2>2, <2>13, Zenon DEF walk_table
  <2>4. e0.perms.user
    <3>1. e0 \in path
      BY <2>13, Zenon
    <3> QED BY <2>3, <3>1, RightIsOfLast, Zenon
  <2>9. lvl[e1.ppn] # None
    BY <2>1 DEF None
  <2>5. EntryInv(lvl, pos, e1.ppn, VA_INDEX(v, 0))
    BY <1>0, <1>1, <2>1, <2>2, <2>9, Zenon DEF TreeInv
  <2>6. OnPath(pos, e1.ppn, 0, v)
    <3>2. /\ pos[e1.ppn][1] = VA_INDEX(v, 1) /\ pos[e1.ppn][2] = VA_INDEX(v, 2)
          /\ pos[e1.ppn][3] = VA_INDEX(v, 3)
      BY <1>4, <1>5, <2>1
    <3> QED BY <3>2 DEF OnPath
  <2>7. UserPage(v)
    BY <1>0, <2>1, <2>4, <2>5, <2>6, Zenon DEF EntryInv
  <2>8. SUFFICES ASSUME thread_table # None, <<thread_table, v>> \in DOMAIN asked
                 PROVE  root = thread_table
    BY <2>7 DEF UserPage
  <2>12. Placed(thread_table, v, asked[<<thread_table, v>>].size)
    BY <2>8, Zenon DEF AskedInv
  <2>10. thread_table # Kernel_PML4_TABLE
    BY <2>8 DEF TablesInv
  <2>11. VA_INDEX(v, 3) = 1
    BY <2>10, <2>12 DEF Placed
  <2> QED BY <1>0, <1>3, <2>11 DEF RootsInv, Roots
<1> QED BY <1>8, <1>9

LEMMA KernelFollows ==
  ASSUME NEW lvl \in LevelMaps, NEW pos \in Positions, TablesInv(lvl), RootsInv,
         AskedInv(lvl, pos)
  PROVE  KernelMappedInThread
<1> SUFFICES ASSUME thread_table # None, NEW k \in DOMAIN asked, k[1] = Kernel_PML4_TABLE
             PROVE  walk_table(mem, thread_table, k[2])
                      = walk_table(mem, Kernel_PML4_TABLE, k[2])
  BY DEF KernelMappedInThread
<1>1. Placed(k[1], k[2], asked[k].size)
  BY DEF AskedInv
<1>2. k[2] \in Virt /\ VA_INDEX(k[2], 3) # 1
  BY <1>1 DEF Placed
<1>3. VA_INDEX(k[2], 3) \in Index
  BY <1>2, VirtIs, IndicesAre DEF Levels
<1>4. mem[thread_table][VA_INDEX(k[2], 3)] = mem[Kernel_PML4_TABLE][VA_INDEX(k[2], 3)]
  BY <1>2, <1>3 DEF RootsInv
<1> QED BY <1>4, Zenon DEF walk_table

\* A frame in a large page of the window is where the window has it.
LEMMA InWindowIs ==
  ASSUME mmap \in MemoryMaps, LowMemory,
         NEW lvl \in LevelMaps, NEW pos \in Positions, TablesInv(lvl), AskedInv(lvl, pos),
         \A n \in DOMAIN mmap, a \in Nat : InRegion(n, a) => Windowed(a),
         NEW f \in Nat, InWindow(f)
  PROVE  Translate(mem, Kernel_PML4_TABLE, KERNEL_PHYS_TO_VIRT(f)) = f
<1>1. InWindow(f)
  OBVIOUS
<1>2. \A n \in DOMAIN mmap, a \in Nat : InRegion(n, a) => Windowed(a)
  OBVIOUS
<1>4. PICK n \in DOMAIN mmap :
        f >= ALIGN_UP(mmap[n][1], HUGE_PS) /\ f < ALIGN_UP(mmap[n][2], HUGE_PS)
  BY <1>1 DEF InWindow
<1>5. mmap[n][1] \in Nat /\ mmap[n][2] \in Nat /\ f \in Nat
  BY MemoryIs
<1>6. HUGE_PS \in Nat /\ HUGE_PS >= 5 /\ HUGE_PS = ENTRIES /\ SUPER_PS \in Nat
  BY SizesAre
<1>7. PICK a \in Nat, o \in 0..(HUGE_PS - 1) : f = a + o /\ a % HUGE_PS = 0
  <2>1. Upper(f) \in Nat /\ Digit(f) \in Index /\ f = ENTRIES * Upper(f) + Digit(f)
    BY <1>5, DigitIs
  <2>2. ENTRIES * Upper(f) \in Nat /\ (ENTRIES * Upper(f)) % HUGE_PS = 0
    BY <2>1, Multiples
  <2>3. Digit(f) \in 0..(HUGE_PS - 1)
    BY <1>6, <2>1 DEF Index
  <2> QED BY <2>1, <2>2, <2>3
<1>8. ALIGN_UP(mmap[n][1], HUGE_PS) <= a
  <2>1. PICK b \in Nat : b = ALIGN_UP(mmap[n][1], HUGE_PS) /\ b % HUGE_PS = 0
    BY <1>5, AlignUpIs
  <2>2. SUFFICES ASSUME a < b PROVE FALSE
    BY <2>1
  <2>3. a + HUGE_PS <= b
    BY <1>7, <2>1, <2>2, NextMultiple
  <2> QED BY <1>4, <1>6, <1>7, <2>1, <2>3
<1>9. a < mmap[n][2]
  <2>1. SUFFICES ASSUME mmap[n][2] <= a PROVE FALSE
    BY <1>5
  <2>2. ALIGN_UP(mmap[n][2], HUGE_PS) \in Nat /\ ALIGN_UP(mmap[n][2], HUGE_PS) <= a
    BY <1>5, <1>7, <2>1, AlignUpIs
  <2> QED BY <1>4, <1>7, <2>2
<1>10. Windowed(a)
  BY <1>2, <1>7, <1>8, <1>9 DEF InRegion
<1> DEFINE k == <<Kernel_PML4_TABLE, KERNEL_PHYS_TO_VIRT(a)>>
<1>11. k \in DOMAIN asked /\ asked[k].size = HUGE_PS /\ asked[k].frame = a
  BY <1>10, Zenon DEF Windowed
<1>12. Translate(mem, Kernel_PML4_TABLE, KERNEL_PHYS_TO_VIRT(a) + o) = a + o
  <2>1. Translate(mem, k[1], k[2] + o) = asked[k].frame + o
    BY <1>7, <1>11, AskedIsMapped
  <2> QED BY <1>11, <2>1
<1>13. a \in 0..(2 * SUPER_PS - 1) /\ f \in 0..(2 * SUPER_PS - 1)
  <2>1. a >= mmap[n][1]
    <3>1. ALIGN_UP(mmap[n][1], HUGE_PS) \in Nat /\ mmap[n][1] <= ALIGN_UP(mmap[n][1], HUGE_PS)
      BY <1>5, AlignUpIs
    <3> QED BY <1>5, <1>8, <3>1
  <2>2. a \in mmap[n][1]..(mmap[n][2] - 1)
    BY <1>5, <1>9, <2>1
  <2>3. a \in RAM
    BY <2>2 DEF RAM
  <2>4. a \in 0..(2 * SUPER_PS - 1)
    BY <2>3 DEF LowMemory
  <2>5. PICK b \in Nat : b = 2 * SUPER_PS /\ b % HUGE_PS = 0
    <3>1. 2 * SUPER_PS = ENTRIES * (2 * ENTRIES) /\ 2 * ENTRIES \in Nat
      BY SizesAre
    <3> QED BY <3>1, Multiples
  <2>6. a + HUGE_PS <= b
    BY <1>7, <2>4, <2>5, NextMultiple
  <2> QED BY <1>5, <1>6, <1>7, <2>4, <2>5, <2>6
<1>14. KERNEL_PHYS_TO_VIRT(f) = KERNEL_PHYS_TO_VIRT(a) + o
  <2>1. /\ KERNEL_PHYS_TO_VIRT(f) = f + KERNEL_VMA /\ KERNEL_VMA \in Nat
        /\ KERNEL_PHYS_TO_VIRT(a) = a + KERNEL_VMA
    BY <1>13, WindowIs
  <2> QED BY <1>7, <2>1
<1> QED BY <1>7, <1>12, <1>14

\* On the maps that the window covers, every frame of memory is in the window
\* once the window is in force.
LEMMA ReachableIs ==
  ASSUME mmap \in MemoryMaps, LowMemory,
         NEW lvl \in LevelMaps, NEW pos \in Positions, TablesInv(lvl), AskedInv(lvl, pos),
         StageInv(lvl), WindowInv, Covered, pc \notin Ended, NEW f \in RAM \cup KernelFrames
  PROVE  Reachable(f)
<1>1. InWindow(f) /\ f < BootFrames
  BY DEF Covered
<1>2. CASE cr3 = None
  BY <1>1, <1>2, LowFrame DEF Reachable
<1>3. CASE cr3 # None
  <2>1. pc \in KernelStages \cup ThreadStages
    BY <1>3 DEF StageInv, Stages
  <2>2. cr3 = Kernel_PML4_TABLE
    BY <2>1 DEF StageInv
  <2>3. \A n \in DOMAIN mmap, a \in Nat : InRegion(n, a) => Windowed(a)
    BY <2>1 DEF WindowInv
  <2>4. f \in Nat
    BY MemoryIs
  <2>5. Translate(mem, Kernel_PML4_TABLE, KERNEL_PHYS_TO_VIRT(f)) = f
    BY <1>1, <2>3, <2>4, InWindowIs
  <2> QED BY <1>3, <2>2, <2>4, <2>5 DEF Reachable
<1> QED BY <1>2, <1>3

-----------------------------------------------------------------------------
(* Steps that keep the tree                                                *)

\* The tables stay where they are and keep their entries, but for the rights
\* of those that lead to tables, which may grow.
Grows(m, m2, lvl, pos, lvl2, pos2) ==
  \A f \in Phys :
    lvl[f] # None =>
      /\ lvl2[f] = lvl[f] /\ pos2[f] = pos[f]
      /\ lvl[f] # 0 =>
           \A n \in Index : \A c, perms : Link(m, f, n, c, perms) => Link(m2, f, n, c, perms)

LEMMA PathGrows ==
  ASSUME NEW m, NEW m2, NEW lvl, NEW pos, NEW lvl2, NEW pos2,
         Grows(m, m2, lvl, pos, lvl2, pos2),
         NEW root, NEW v \in Virt, NEW l \in Levels, NEW perms, NEW t \in Way,
         Path(m, lvl, pos, root, v, l, perms, t)
  PROVE  Path(m2, lvl2, pos2, root, v, l, perms, t)
<1>1. ASSUME NEW j \in l..3
      PROVE  t[j] \in Phys /\ lvl2[t[j]] = j /\ OnPath(pos2, t[j], j, v)
  <2>1. t[j] \in Phys /\ lvl[t[j]] = j /\ OnPath(pos, t[j], j, v)
    BY Zenon DEF Path
  <2>2. lvl[t[j]] # None
    BY <2>1 DEF None, Levels
  <2>3. lvl2[t[j]] = lvl[t[j]] /\ pos2[t[j]] = pos[t[j]]
    BY <2>1, <2>2, Zenon DEF Grows
  <2> QED BY <2>1, <2>3, Zenon DEF OnPath
<1>2. ASSUME NEW j \in (l + 1)..3
      PROVE  Link(m2, t[j], VA_INDEX(v, j), t[j - 1], perms)
  <2>1. Link(m, t[j], VA_INDEX(v, j), t[j - 1], perms)
    BY Zenon DEF Path
  <2>2. j \in l..3 /\ j # 0 /\ j \in Levels
    BY DEF Levels
  <2>3. t[j] \in Phys /\ lvl[t[j]] = j
    BY <2>2, Zenon DEF Path
  <2>4. lvl[t[j]] # None /\ lvl[t[j]] # 0
    BY <2>2, <2>3 DEF None, Levels
  <2>5. VA_INDEX(v, j) \in Index
    BY <2>2, VirtIs, IndicesAre
  <2> QED BY <2>1, <2>3, <2>4, <2>5, Zenon DEF Grows
<1>3. t[3] = root
  BY DEF Path
<1> QED BY <1>1, <1>2, <1>3, Zenon DEF Path

LEMMA ReachedGrows ==
  ASSUME NEW m, NEW m2, NEW lvl, NEW pos, NEW lvl2, NEW pos2,
         Grows(m, m2, lvl, pos, lvl2, pos2),
         NEW c \in CallRecords, Reached(m, lvl, pos, c)
  PROVE  Reached(m2, lvl2, pos2, c)
<1>1. c.virt \in Virt /\ c.level \in Levels
  BY DEF CallRecords
<1>2. PICK t \in Way : /\ Path(m, lvl, pos, c.root, c.virt, c.level, c.perms, t)
                       /\ t[c.level] = c.at
  BY DEF Reached
<1>3. Path(m2, lvl2, pos2, c.root, c.virt, c.level, c.perms, t)
  BY <1>1, <1>2, PathGrows
<1> QED BY <1>2, <1>3 DEF Reached

\* A page stays where it is if its entry does.
LEMMA FoundGrows ==
  ASSUME NEW m, NEW m2, NEW lvl, NEW pos, NEW lvl2, NEW pos2,
         Grows(m, m2, lvl, pos, lvl2, pos2),
         NEW root, NEW v \in Virt, NEW r \in [frame : Nat, size : Sizes, perms : PermRecords],
         Found(m, lvl, pos, root, v, r),
         \A f \in Phys, n \in Index :
           /\ lvl[f] = LeafOf(r.size) /\ OnPath(pos, f, lvl[f], v) /\ n = VA_INDEX(v, lvl[f])
           /\ m[f][n] = Entry(r.frame, r.size # 1, r.perms)
           => m2[f][n] = m[f][n]
  PROVE  Found(m2, lvl2, pos2, root, v, r)
<1> DEFINE l == LeafOf(r.size)
<1>1. l \in Levels
  BY DEF LeafOf, Levels
<1>2. PICK t \in Way : /\ Path(m, lvl, pos, root, v, l, r.perms, t)
                       /\ m[t[l]][VA_INDEX(v, l)] = Entry(r.frame, r.size # 1, r.perms)
  BY DEF Found
<1>3. Path(m2, lvl2, pos2, root, v, l, r.perms, t)
  BY <1>1, <1>2, PathGrows
<1>4. t[l] \in Phys /\ lvl[t[l]] = l /\ OnPath(pos, t[l], l, v)
  <2>1. l \in l..3
    BY <1>1 DEF Levels
  <2> QED BY <1>2, <2>1, Zenon DEF Path
<1>5. VA_INDEX(v, l) \in Index
  BY <1>1, VirtIs, IndicesAre
<1>6. m2[t[l]][VA_INDEX(v, l)] = m[t[l]][VA_INDEX(v, l)]
  BY <1>2, <1>4, <1>5, Zenon
<1> QED BY <1>2, <1>3, <1>6, Zenon DEF Found

\* A call starts at its root.
LEMMA StartIs ==
  ASSUME NEW m, NEW lvl, NEW pos, NEW c, c.at = c.root, c.level = 3,
         c.root \in Phys, lvl[c.root] = 3
  PROVE  Reached(m, lvl, pos, c)
<1>1. PICK x \in Int : x = c.root
  BY DEF Phys
<1> DEFINE t == [j \in Levels |-> x]
<1>2. t \in Way /\ t[3] = c.root
  BY <1>1 DEF Way, Levels
<1>3. Path(m, lvl, pos, c.root, c.virt, 3, c.perms, t)
  BY <1>2 DEF Path, OnPath
<1> QED BY <1>2, <1>3, Zenon DEF Reached

\* Nothing but the set of used frames changes, and that grows.
LEMMA QuietStep ==
  ASSUME NEW lvl \in LevelMaps, NEW pos \in Positions, mmap \in MemoryMaps,
         TablesInv(lvl), TreeInv(lvl, pos), RootsInv, AskedInv(lvl, pos),
         UNCHANGED <<mmap, mem, thread_table, asked>>,
         used \subseteq used', used' \subseteq Phys
  PROVE  /\ mmap' \in MemoryMaps /\ RAM' = RAM /\ Free' \subseteq Free
         /\ TablesInv(lvl)' /\ TreeInv(lvl, pos)' /\ RootsInv' /\ AskedInv(lvl, pos)'
         /\ Roots' = Roots
         /\ \A f : Owned(lvl, f) => Owned(lvl, f)'
<1>1. RAM' = RAM /\ Roots' = Roots /\ mmap' \in MemoryMaps
  BY DEF RAM, Roots
<1>2. Free' \subseteq Free
  BY <1>1 DEF Free
<1>3. \A f : Owned(lvl, f) => Owned(lvl, f)'
  BY DEF Owned
<1>4. TablesInv(lvl)'
  BY <1>1 DEF TablesInv
<1>5. TreeInv(lvl, pos)'
  <2>1. \A v : UserPage(v) => UserPage(v)'
    BY DEF UserPage
  <2>2. ASSUME NEW f \in Phys, NEW n \in Index, EntryInv(lvl, pos, f, n)
        PROVE  EntryInv(lvl, pos, f, n)'
    BY <2>1, <2>2, Zenon DEF EntryInv
  <2> QED BY <2>2, Zenon DEF TreeInv
<1>6. RootsInv'
  BY DEF RootsInv
<1>7. AskedInv(lvl, pos)'
  <2> SUFFICES ASSUME NEW k \in DOMAIN asked
               PROVE  /\ k \in Phys \X Virt
                      /\ asked[k] \in [frame : Nat, size : Sizes, perms : PermRecords]
                      /\ Placed(k[1], k[2], asked[k].size)'
                      /\ asked[k].size = 1 /\ asked[k].frame \in RAM' =>
                           Owned(lvl, asked[k].frame)'
                      /\ Found(mem, lvl, pos, k[1], k[2], asked[k])
    BY Zenon DEF AskedInv, Owned, Placed, Roots
  <2>1. Placed(k[1], k[2], asked[k].size)'
    BY <1>1, Zenon DEF AskedInv, Placed
  <2> QED BY <1>1, <1>3, <2>1 DEF AskedInv
<1> QED BY <1>1, <1>2, <1>3, <1>4, <1>5, <1>6, <1>7

-----------------------------------------------------------------------------
(* page_in on its way down                                                 *)

\* A call that is under way, and the table it has come to.
LEMMA CallIs ==
  ASSUME NEW lvl \in LevelMaps, NEW pos \in Positions, Core(lvl, pos), call # NoCall
  PROVE  /\ call \in CallRecords /\ Placed(call.root, call.virt, call.size)
         /\ call.virt \in Virt /\ call.level \in Levels /\ call.size \in Sizes
         /\ call.perms \in PermRecords
         /\ LeafOf(call.size) <= call.level
         /\ call.at \in Phys /\ lvl[call.at] = call.level
         /\ OnPath(pos, call.at, call.level, call.virt)
         /\ Here \in Index /\ Here = VA_INDEX(call.virt, call.level)
         /\ call.level = 3 => call.at = call.root
         /\ pc \in Stages /\ pc \notin Ended /\ pc # "heap_null"
<1>1. /\ call \in CallRecords /\ Placed(call.root, call.virt, call.size)
      /\ LeafOf(call.size) <= call.level /\ Reached(mem, lvl, pos, call)
  BY DEF Core, CallInv
<1>2. /\ call.virt \in Virt /\ call.level \in Levels /\ call.size \in Sizes
      /\ call.perms \in PermRecords
  BY <1>1 DEF CallRecords
<1>3. PICK t \in Way : /\ Path(mem, lvl, pos, call.root, call.virt, call.level, call.perms, t)
                       /\ t[call.level] = call.at
  BY <1>1 DEF Reached
<1>4. call.at \in Phys /\ lvl[call.at] = call.level /\ OnPath(pos, call.at, call.level, call.virt)
  <2>1. call.level \in (call.level)..3
    BY <1>2 DEF Levels
  <2> QED BY <1>3, <2>1, Zenon DEF Path
<1>5. call.level = 3 => call.at = call.root
  BY <1>3 DEF Path
<1>6. Here \in Index /\ Here = VA_INDEX(call.virt, call.level)
  BY <1>2, VirtIs, IndicesAre DEF Here
<1>7. pc \in Stages /\ pc \notin Ended /\ pc # "heap_null"
  BY DEF Core, StageInv, ReturnInv, HeapStages, Ended
<1> QED BY <1>1, <1>2, <1>4, <1>5, <1>6, <1>7

\* A table that is not the last one of the way holds no pages.
LEMMA UpperTable ==
  ASSUME NEW lvl \in LevelMaps, NEW pos \in Positions, Core(lvl, pos), call # NoCall,
         ~LeafLevel
  PROVE  /\ call.level \in 1..3 /\ lvl[call.at] # None /\ lvl[call.at] # 0
         /\ LeafOf(call.size) <= call.level - 1 /\ call.level - 1 \in Levels
         /\ ~(lvl[call.at] = 1 /\ pos[call.at][3] = Top)
<1>1. /\ call.level \in 1..3 /\ call.level - 1 \in Levels
      /\ LeafOf(call.size) <= call.level - 1
  BY CallIs, LeafLevelIs
<1>2. lvl[call.at] = call.level /\ call.level # None /\ call.level # 0
  BY <1>1, CallIs DEF None
<1>3. ASSUME call.level = 1, pos[call.at][3] = Top PROVE FALSE
  <2>1. call.size = 1
    BY <1>1, <1>3 DEF LeafOf
  <2>2. VA_INDEX(call.virt, 3) # Top
    BY <2>1, CallIs DEF Placed
  <2>3. pos[call.at][3] = VA_INDEX(call.virt, 3)
    BY <1>3, CallIs DEF OnPath
  <2> QED BY <1>3, <2>2, <2>3
<1> QED BY <1>1, <1>2, <1>3

\* The step from a table to the table g of the next level, which is there or
\* is made; e is the entry that leads to it from now on.
Descends(lvl, pos, lvl2, pos2, g, e) ==
  /\ call # NoCall /\ ~LeafLevel
  /\ \A f \in Phys : lvl[f] # None => lvl2[f] = lvl[f] /\ pos2[f] = pos[f]
  /\ \A f \in Phys : lvl[f] = None /\ f # g => lvl2[f] = None
  /\ lvl[g] = None => g \in RAM /\ g \notin used /\ g \in used'
  /\ lvl2[g] = call.level - 1
  /\ pos2[g] = [pos[call.at] EXCEPT ![call.level] = Here]
  /\ Old.present => /\ Old.ppn = g
                    /\ Old.perms.user => e.perms.user
                    /\ Old.perms.writeable => e.perms.writeable
  /\ e.present /\ ~e.huge /\ e.ppn = g
  /\ call.perms.user => e.perms.user
  /\ call.perms.writeable => e.perms.writeable
  /\ mem' = [mem EXCEPT ![call.at] = [mem[call.at] EXCEPT ![Here] = e]]
  /\ call' = [call EXCEPT !.at = g, !.level = call.level - 1]
  /\ UNCHANGED <<mmap, cr3, thread_table, pc, i, addr, pages, asked>>
  /\ used \subseteq used' /\ used' \subseteq Phys

\* The tables after it.
LEMMA DescendsTables ==
  ASSUME NEW lvl \in LevelMaps, NEW pos \in Positions, Core(lvl, pos),
         NEW lvl2 \in LevelMaps, NEW pos2 \in Positions, NEW g \in Phys, NEW e \in Entries,
         Descends(lvl, pos, lvl2, pos2, g, e)
  PROVE  /\ \A f \in Phys, n \in Index :
              mem'[f][n] = IF f = call.at /\ n = Here THEN e ELSE mem[f][n]
         /\ \A f \in Phys : f # call.at => mem'[f] = mem[f]
         /\ Grows(mem, mem', lvl, pos, lvl2, pos2)
         /\ TablesInv(lvl2)'
         /\ \A f \in Phys : Owned(lvl, f) => Owned(lvl2, f)'
<1>1. mem \in [Phys -> Tables] /\ used \subseteq Phys
  BY DEF Core, TablesInv
<1>2. call.at \in Phys /\ lvl[call.at] = call.level /\ Here \in Index
  BY CallIs, Zenon DEF Descends
<1>3. lvl[call.at] # None /\ lvl[call.at] # 0
      /\ ~(lvl[call.at] = 1 /\ pos[call.at][3] = Top)
  BY UpperTable, Zenon DEF Descends
<1>4. mem' = [mem EXCEPT ![call.at] = [mem[call.at] EXCEPT ![Here] = e]]
  BY DEF Descends
<1>5. mem[call.at] \in [Index -> Entries]
  BY <1>1, <1>2 DEF Tables
<1>6. mem' \in [Phys -> Tables]
  <2>1. [mem[call.at] EXCEPT ![Here] = e] \in Tables
    BY <1>5 DEF Tables
  <2> QED BY <1>1, <1>4, <2>1
<1>7. \A f \in Phys : f # call.at => mem'[f] = mem[f]
  BY <1>1, <1>4
<1>8. \A f \in Phys, n \in Index :
        mem'[f][n] = IF f = call.at /\ n = Here THEN e ELSE mem[f][n]
  <2>1. mem'[call.at] = [mem[call.at] EXCEPT ![Here] = e]
    BY <1>1, <1>2, <1>4
  <2>2. \A n \in Index : mem'[call.at][n] = IF n = Here THEN e ELSE mem[call.at][n]
    BY <1>5, <2>1
  <2> QED BY <1>7, <2>2
<1>9. \A f \in Phys : lvl[f] # None => lvl2[f] = lvl[f] /\ pos2[f] = pos[f]
  BY Zenon DEF Descends
<1>10. ASSUME NEW f \in Phys, lvl[f] # None, NEW n \in Index, NEW c, NEW perms,
              Link(mem, f, n, c, perms)
       PROVE  Link(mem', f, n, c, perms)
  <2>1. CASE f = call.at /\ n = Here
    <3>1. mem[f][n] = Old /\ mem'[f][n] = e
      BY <1>8, <2>1, Zenon DEF Old
    <3>2. Old.present /\ Old.ppn = c
          /\ (perms.user => Old.perms.user) /\ (perms.writeable => Old.perms.writeable)
      BY <1>10, <3>1, Zenon DEF Link
    <3>3. /\ e.present /\ ~e.huge /\ e.ppn = g /\ Old.ppn = g
          /\ Old.perms.user => e.perms.user
          /\ Old.perms.writeable => e.perms.writeable
      BY <3>2, Zenon DEF Descends
    <3> QED BY <3>1, <3>2, <3>3, Zenon DEF Link
  <2>2. CASE ~(f = call.at /\ n = Here)
    <3>1. mem'[f][n] = mem[f][n]
      BY <1>8, <2>2, Zenon
    <3> QED BY <1>10, <3>1, Zenon DEF Link
  <2> QED BY <2>1, <2>2
<1>11. Grows(mem, mem', lvl, pos, lvl2, pos2)
  BY <1>9, <1>10, Zenon DEF Grows
<1>12. \A f \in Phys : Owned(lvl, f) => Owned(lvl2, f)'
  <2>1. SUFFICES ASSUME NEW f \in Phys, f \in used, lvl[f] = None
                 PROVE  f \in used' /\ lvl2[f] = None
    BY DEF Owned
  <2>2. f # g
    BY <2>1 DEF Descends
  <2> QED BY <2>1, <2>2 DEF Descends
<1>13. UNCHANGED <<mmap, thread_table>> /\ RAM' = RAM
  BY DEF Descends, RAM
<1>14. TablesInv(lvl2)'
  <2>1. used' \subseteq Phys
    BY DEF Descends
  <2>2. lvl2[Kernel_PML4_TABLE] = 3 /\ Kernel_PML4_TABLE \in Phys
    <3>1. lvl[Kernel_PML4_TABLE] = 3 /\ Kernel_PML4_TABLE \in Phys
      BY DEF Core, TablesInv
    <3> QED BY <1>9, <3>1 DEF None
  <2>3. thread_table # None =>
          thread_table \in Phys /\ lvl2[thread_table] = 3 /\ thread_table # Kernel_PML4_TABLE
    <3>1. thread_table # None =>
            thread_table \in Phys /\ lvl[thread_table] = 3 /\ thread_table # Kernel_PML4_TABLE
      BY DEF Core, TablesInv
    <3> QED BY <1>9, <3>1 DEF None
  <2>4. ASSUME NEW f \in Phys, lvl2[f] = None PROVE mem'[f] = EmptyTable
    <3>1. lvl[f] = None
      BY <1>9, <2>4
    <3>2. f # call.at
      BY <1>3, <3>1
    <3> QED BY <1>7, <3>1, <3>2 DEF Core, TablesInv
  <2>5. ASSUME NEW f \in Phys, lvl2[f] # None PROVE f \in used' /\ f \in RAM \cup KernelFrames
    <3>1. CASE lvl[f] = None
      <4>1. f = g
        BY <2>5, <3>1, Zenon DEF Descends
      <4> QED BY <3>1, <4>1 DEF Descends
    <3>2. CASE lvl[f] # None
      BY <3>2 DEF Core, TablesInv, Descends
    <3> QED BY <3>1, <3>2
  <2> QED BY <1>6, <1>13, <2>1, <2>2, <2>3, <2>4, <2>5 DEF TablesInv
<1> QED BY <1>7, <1>8, <1>11, <1>12, <1>14

\* Entries that are not written stay what they are.
LEMMA EntryStays ==
  ASSUME NEW lvl \in LevelMaps, NEW pos \in Positions, TreeInv(lvl, pos), NEW lvl2, NEW pos2,
         \A h \in Phys : lvl[h] # None => lvl2[h] = lvl[h] /\ pos2[h] = pos[h],
         NEW f \in Phys, NEW n \in Index, lvl[f] # None, mem[f][n].present,
         mem'[f][n] = mem[f][n], \A v : UserPage(v) => UserPage(v)'
  PROVE  EntryInv(lvl2, pos2, f, n)'
<1>1. EntryInv(lvl, pos, f, n)
  BY Zenon DEF TreeInv
<1>2. lvl2[f] = lvl[f] /\ pos2[f] = pos[f]
  BY Zenon
<1>3. \A v : OnPath(pos2, f, 0, v) = OnPath(pos, f, 0, v)
  BY <1>2, Zenon DEF OnPath
<1>4. CASE lvl[f] = 0
  <2>1. /\ ~mem[f][n].huge
        /\ mem[f][n].perms.user =>
             \A v \in Virt : OnPath(pos, f, 0, v) /\ VA_INDEX(v, 0) = n => UserPage(v)
    BY <1>1, <1>4, Zenon DEF EntryInv
  <2>2. /\ ~mem'[f][n].huge
        /\ mem'[f][n].perms.user =>
             \A v \in Virt : OnPath(pos2, f, 0, v) /\ VA_INDEX(v, 0) = n => UserPage(v)'
    BY <1>3, <2>1, Zenon
  <2> QED BY <1>2, <1>4, <2>2, Zenon DEF EntryInv
<1>5. CASE lvl[f] # 0 /\ lvl[f] = 1 /\ pos[f][3] = Top
  BY <1>1, <1>2, <1>5, Zenon DEF EntryInv
<1>6. CASE lvl[f] # 0 /\ ~(lvl[f] = 1 /\ pos[f][3] = Top)
  <2>1. /\ ~mem[f][n].huge /\ mem[f][n].ppn \in Phys
        /\ lvl[mem[f][n].ppn] = lvl[f] - 1
        /\ pos[mem[f][n].ppn] = [pos[f] EXCEPT ![lvl[f]] = n]
    BY <1>1, <1>6, Zenon DEF EntryInv
  <2>2. lvl[f] \in 1..3
    BY <1>6 DEF LevelMaps, Levels
  <2>3. lvl[mem[f][n].ppn] # None
    BY <2>1, <2>2 DEF None
  <2>4. lvl2[mem[f][n].ppn] = lvl[mem[f][n].ppn] /\ pos2[mem[f][n].ppn] = pos[mem[f][n].ppn]
    BY <2>1, <2>3, Zenon
  <2>5. /\ ~mem'[f][n].huge /\ mem'[f][n].ppn \in Phys
        /\ lvl2[mem'[f][n].ppn] = lvl2[f] - 1
        /\ pos2[mem'[f][n].ppn] = [pos2[f] EXCEPT ![lvl2[f]] = n]
    <3>1. lvl2[mem[f][n].ppn] = lvl2[f] - 1
      BY <1>2, <2>1, <2>4, Zenon
    <3>2. pos2[mem[f][n].ppn] = [pos2[f] EXCEPT ![lvl2[f]] = n]
      BY <1>2, <2>1, <2>4, Zenon
    <3> QED BY <2>1, <3>1, <3>2
  <2>6. lvl2[f] # 0 /\ ~(lvl2[f] = 1 /\ pos2[f][3] = Top)
    BY <1>2, <1>6, Zenon
  <2> QED BY <2>5, <2>6, Zenon DEF EntryInv
<1> QED BY <1>4, <1>5, <1>6

\* The tree after it.
LEMMA DescendsTree ==
  ASSUME NEW lvl \in LevelMaps, NEW pos \in Positions, Core(lvl, pos),
         NEW lvl2 \in LevelMaps, NEW pos2 \in Positions, NEW g \in Phys, NEW e \in Entries,
         Descends(lvl, pos, lvl2, pos2, g, e)
  PROVE  TreeInv(lvl2, pos2)'
<1> SUFFICES ASSUME NEW f \in Phys, NEW n \in Index, lvl2[f] # None, mem'[f][n].present
             PROVE  EntryInv(lvl2, pos2, f, n)'
  BY Zenon DEF TreeInv
<1>1. \A h \in Phys : lvl[h] # None => lvl2[h] = lvl[h] /\ pos2[h] = pos[h]
  BY Zenon DEF Descends
<1>2. mem'[f][n] = IF f = call.at /\ n = Here THEN e ELSE mem[f][n]
  BY DescendsTables
<1>3. /\ call.at \in Phys /\ lvl[call.at] = call.level /\ Here \in Index
      /\ lvl[call.at] # None /\ lvl[call.at] # 0
      /\ ~(lvl[call.at] = 1 /\ pos[call.at][3] = Top)
  BY CallIs, UpperTable, Zenon DEF Descends
<1>4. UNCHANGED <<thread_table, asked>>
  BY DEF Descends
<1>5. CASE f = call.at /\ n = Here
  <2>1. /\ lvl2[f] = lvl[f] /\ pos2[f] = pos[f] /\ lvl[f] = call.level
        /\ ~(lvl2[f] = 1 /\ pos2[f][3] = Top) /\ lvl2[f] # 0
    BY <1>1, <1>3, <1>5, Zenon
  <2>2. mem'[f][n] = e
    BY <1>2, <1>5
  <2>3. /\ ~e.huge /\ e.ppn = g /\ lvl2[g] = call.level - 1
        /\ pos2[g] = [pos[call.at] EXCEPT ![call.level] = Here]
    BY Zenon DEF Descends
  <2>4. ~mem'[f][n].huge /\ mem'[f][n].ppn = g /\ g \in Phys
    BY <2>2, <2>3, Zenon
  <2>5. lvl2[g] = lvl2[f] - 1 /\ pos2[g] = [pos2[f] EXCEPT ![lvl2[f]] = n]
    BY <1>5, <2>1, <2>3, Zenon
  <2>6. /\ ~mem'[f][n].huge /\ mem'[f][n].ppn \in Phys
        /\ lvl2[mem'[f][n].ppn] = lvl2[f] - 1
        /\ pos2[mem'[f][n].ppn] = [pos2[f] EXCEPT ![lvl2[f]] = n]
    BY <2>4, <2>5, Zenon
  <2> QED BY <2>1, <2>6, Zenon DEF EntryInv
<1>6. CASE ~(f = call.at /\ n = Here)
  <2>1. mem'[f][n] = mem[f][n]
    BY <1>2, <1>6
  <2>2. lvl[f] # None
    <3>1. SUFFICES ASSUME lvl[f] = None PROVE FALSE
      OBVIOUS
    <3>2. mem[f] = EmptyTable
      BY <3>1 DEF Core, TablesInv
    <3> QED BY <2>1, <3>2 DEF EmptyTable, NoEntry, Index
  <2>3. \A v : UserPage(v) => UserPage(v)'
    BY <1>4, Zenon DEF UserPage
  <2>4. TreeInv(lvl, pos) /\ mem[f][n].present
    BY <2>1, Zenon DEF Core
  <2> QED BY <1>1, <2>1, <2>2, <2>3, <2>4, EntryStays
<1> QED BY <1>5, <1>6

\* A table that a call writes to is no root but its own, and then not at the
\* second entry of the kernel's.
LEMMA WritesRoots ==
  ASSUME NEW lvl \in LevelMaps, NEW pos \in Positions, Core(lvl, pos), call # NoCall,
         UNCHANGED thread_table,
         \A f \in Phys, n \in Index : ~(f = call.at /\ n = Here) => mem'[f][n] = mem[f][n]
  PROVE  RootsInv'
<1>1. /\ lvl[Kernel_PML4_TABLE] = 3 /\ Kernel_PML4_TABLE \in Phys
      /\ thread_table # None =>
           /\ thread_table \in Phys /\ lvl[thread_table] = 3
           /\ thread_table # Kernel_PML4_TABLE
  BY DEF Core, TablesInv
<1>2. /\ lvl[call.at] = call.level
      /\ call.level = 3 => call.at = call.root
      /\ Here = VA_INDEX(call.virt, call.level) /\ Placed(call.root, call.virt, call.size)
  BY CallIs, Zenon
<1>3. 1 \in Index /\ Index \subseteq Int
  BY SizesAre DEF Index
<1>4. thread_table # None => call.root = thread_table
  BY DEF Core, CallInv
<1>5. /\ ~mem[Kernel_PML4_TABLE][1].present
      /\ thread_table # None =>
           \A n \in Index \ {1} : mem[thread_table][n] = mem[Kernel_PML4_TABLE][n]
  BY DEF Core, RootsInv
<1>6. ~(call.at = Kernel_PML4_TABLE /\ Here = 1)
  <2>1. SUFFICES ASSUME call.at = Kernel_PML4_TABLE, Here = 1 PROVE FALSE
    OBVIOUS
  <2>2. call.root = Kernel_PML4_TABLE /\ VA_INDEX(call.virt, 3) = 1
    BY <1>1, <1>2, <2>1
  <2> QED BY <1>2, <2>2, Zenon DEF Placed
<1>7. ~mem'[Kernel_PML4_TABLE][1].present
  BY <1>1, <1>3, <1>5, <1>6
<1>8. ASSUME thread_table # None, NEW n \in Index \ {1}
      PROVE  mem'[thread_table][n] = mem'[Kernel_PML4_TABLE][n]
  <2>1. call.at # Kernel_PML4_TABLE
    BY <1>1, <1>2, <1>4, <1>8
  <2>2. call.at = thread_table => Here = 1
    <3>1. VA_INDEX(call.virt, 3) = 1
      BY <1>1, <1>2, <1>4, <1>8, Zenon DEF Placed
    <3> QED BY <1>1, <1>2, <1>8, <3>1
  <2> QED BY <1>1, <1>5, <1>8, <2>1, <2>2
<1> QED BY <1>7, <1>8 DEF RootsInv

\* What was asked for after it.
LEMMA DescendsAsked ==
  ASSUME NEW lvl \in LevelMaps, NEW pos \in Positions, Core(lvl, pos), mmap \in MemoryMaps,
         NEW lvl2 \in LevelMaps, NEW pos2 \in Positions, NEW g \in Phys, NEW e \in Entries,
         Descends(lvl, pos, lvl2, pos2, g, e)
  PROVE  AskedInv(lvl2, pos2)'
<1>1. UNCHANGED <<mmap, thread_table, asked>> /\ RAM' = RAM /\ Roots' = Roots
  BY DEF Descends, RAM, Roots
<1>2. SUFFICES ASSUME NEW k \in DOMAIN asked, NEW r, r = asked[k]
               PROVE  /\ k \in Phys \X Virt
                      /\ r \in [frame : Nat, size : Sizes, perms : PermRecords]
                      /\ Placed(k[1], k[2], r.size)
                      /\ r.size = 1 /\ r.frame \in RAM => Owned(lvl2, r.frame)'
                      /\ Found(mem', lvl2, pos2, k[1], k[2], r)
  <2>1. \A root, v, size : Placed(root, v, size) => Placed(root, v, size)'
    BY <1>1, Zenon DEF Placed
  <2>2. \A k \in DOMAIN asked :
          /\ k \in Phys \X Virt
          /\ asked[k] \in [frame : Nat, size : Sizes, perms : PermRecords]
          /\ Placed(k[1], k[2], asked[k].size)
          /\ asked[k].size = 1 /\ asked[k].frame \in RAM =>
               asked[k].frame \in used' /\ lvl2[asked[k].frame] = None
          /\ Found(mem', lvl2, pos2, k[1], k[2], asked[k])
    BY <1>2, Zenon DEF Owned
  <2> QED BY <1>1, <2>1, <2>2, Zenon DEF AskedInv, Owned, Placed
<1>3. /\ k \in Phys \X Virt
      /\ r \in [frame : Nat, size : Sizes, perms : PermRecords]
      /\ Placed(k[1], k[2], r.size)
      /\ r.size = 1 /\ r.frame \in RAM => Owned(lvl, r.frame)
      /\ Found(mem, lvl, pos, k[1], k[2], r)
  BY <1>2, Zenon DEF Core, AskedInv
<1>4. r.size = 1 /\ r.frame \in RAM => Owned(lvl2, r.frame)'
  <2>1. r.frame \in RAM => r.frame \in Phys
    BY MemoryIs
  <2>2. \A f \in Phys : Owned(lvl, f) => Owned(lvl2, f)'
    BY DescendsTables, Zenon
  <2> QED BY <1>3, <2>1, <2>2, Zenon
<1>5. Grows(mem, mem', lvl, pos, lvl2, pos2)
  BY DescendsTables, Zenon
<1>6. ASSUME NEW f \in Phys, NEW n \in Index, lvl[f] = LeafOf(r.size),
             OnPath(pos, f, lvl[f], k[2])
      PROVE  mem'[f][n] = mem[f][n]
  <2>1. SUFFICES ASSUME f = call.at PROVE FALSE
    BY DescendsTables
  <2>2. /\ lvl[f] # None /\ lvl[f] # 0
        /\ ~(lvl[f] = 1 /\ pos[f][3] = Top)
    BY <2>1, UpperTable, Zenon DEF Descends
  <2>3. lvl[f] = 1 /\ r.size # 1
    BY <1>6, <2>2 DEF LeafOf
  <2>4. VA_INDEX(k[2], 3) = Top
    BY <1>3, <2>3 DEF Placed
  <2>5. pos[f][3] = VA_INDEX(k[2], 3)
    BY <1>6, <2>3 DEF OnPath
  <2> QED BY <2>2, <2>3, <2>4, <2>5
<1>7. Found(mem', lvl2, pos2, k[1], k[2], r)
  <2>1. PICK v \in Virt : v = k[2]
    BY <1>3
  <2>2. \A f \in Phys, n \in Index :
          /\ lvl[f] = LeafOf(r.size) /\ OnPath(pos, f, lvl[f], v) /\ n = VA_INDEX(v, lvl[f])
          /\ mem[f][n] = Entry(r.frame, r.size # 1, r.perms)
          => mem'[f][n] = mem[f][n]
    BY <1>6, <2>1, Zenon
  <2>3. PICK root : root = k[1]
    OBVIOUS
  <2>4. Found(mem, lvl, pos, root, v, r)
    BY <1>3, <2>1, <2>3, Zenon
  <2>5. Found(mem', lvl2, pos2, root, v, r)
    BY <1>3, <1>5, <2>2, <2>4, FoundGrows
  <2> QED BY <2>1, <2>3, <2>5, Zenon
<1> QED BY <1>3, <1>4, <1>7, Zenon

\* The call after it.
LEMMA DescendsCall ==
  ASSUME NEW lvl \in LevelMaps, NEW pos \in Positions, Core(lvl, pos), mmap \in MemoryMaps,
         NEW lvl2 \in LevelMaps, NEW pos2 \in Positions, NEW g \in Phys, NEW e \in Entries,
         Descends(lvl, pos, lvl2, pos2, g, e)
  PROVE  CallInv(lvl2, pos2)'
<1>1. UNCHANGED <<mmap, thread_table>> /\ RAM' = RAM /\ Roots' = Roots
  BY DEF Descends, RAM, Roots
<1>2. call # NoCall /\ ~LeafLevel
  BY DEF Descends
<1>3. call \in CallRecords
  BY <1>2, CallIs
<1>4. PICK c \in CallRecords : c = [call EXCEPT !.at = g, !.level = call.level - 1]
  BY <1>2, <1>3, UpperTable DEF CallRecords
<1>5. call' = c
  BY <1>4 DEF Descends
<1>6. /\ c.at = g /\ c.level = call.level - 1 /\ c.root = call.root /\ c.virt = call.virt
      /\ c.frame = call.frame /\ c.size = call.size /\ c.perms = call.perms
  BY <1>3, <1>4 DEF CallRecords
<1>7. /\ Placed(call.root, call.virt, call.size)
      /\ thread_table # None => call.root = thread_table
      /\ call.perms.user => call.size = 1 /\ (call.virt = VideoFrame \/ call.root = thread_table)
      /\ call.size = 1 /\ call.frame \in RAM => Owned(lvl, call.frame)
      /\ Reached(mem, lvl, pos, call)
  BY <1>2, Zenon DEF Core, CallInv
<1>8. /\ Placed(c.root, c.virt, c.size)'
      /\ thread_table' # None => c.root = thread_table'
      /\ c.perms.user => c.size = 1 /\ (c.virt = VideoFrame \/ c.root = thread_table')
      /\ LeafOf(c.size) <= c.level
  <2>1. Placed(c.root, c.virt, c.size)'
    BY <1>1, <1>6, <1>7, Zenon DEF Placed
  <2>2. LeafOf(c.size) <= c.level
    BY <1>2, <1>6, UpperTable
  <2> QED BY <1>1, <1>6, <1>7, <2>1, <2>2
<1>9. c.size = 1 /\ c.frame \in RAM' => Owned(lvl2, c.frame)'
  <2>1. c.frame \in RAM => c.frame \in Phys
    BY MemoryIs
  <2>2. \A f \in Phys : Owned(lvl, f) => Owned(lvl2, f)'
    BY DescendsTables, Zenon
  <2> QED BY <1>1, <1>6, <1>7, <2>1, <2>2
<1>10. Reached(mem', lvl2, pos2, c)
  <2>1. PICK t \in Way :
          /\ Path(mem, lvl, pos, call.root, call.virt, call.level, call.perms, t)
          /\ t[call.level] = call.at
    BY <1>7, Zenon DEF Reached
  <2>2. call.level \in 1..3 /\ call.virt \in Virt /\ call.level \in Levels
    BY <1>2, UpperTable, CallIs
  <2>3. Path(mem', lvl2, pos2, call.root, call.virt, call.level, call.perms, t)
    BY <2>1, <2>2, DescendsTables, PathGrows
  <2> DEFINE u == [t EXCEPT ![call.level - 1] = g]
  <2>4. t \in [Levels -> Int] /\ g \in Int /\ call.level - 1 \in Levels
    BY <2>2 DEF Way, Phys, Levels
  <2>5. u \in Way /\ u[call.level - 1] = g
        /\ \A j \in (call.level)..3 : u[j] = t[j]
    BY <2>2, <2>4 DEF Way, Levels
  <2> HIDE DEF u
  <2>6. u[3] = call.root
    BY <2>2, <2>3, <2>5 DEF Path
  <2>7. ASSUME NEW j \in (call.level - 1)..3
        PROVE  u[j] \in Phys /\ lvl2[u[j]] = j /\ OnPath(pos2, u[j], j, call.virt)
    <3>1. CASE j = call.level - 1
      <4>1. u[j] = g /\ lvl2[g] = j
        BY <2>5, <3>1 DEF Descends
      <4>2. pos2[g] = [pos[call.at] EXCEPT ![call.level] = Here]
        BY Zenon DEF Descends
      <4>3. pos[call.at] \in [1..3 -> Int]
        BY <1>2, CallIs DEF Positions
      <4>4. ASSUME NEW n \in (j + 1)..3 PROVE pos2[g][n] = VA_INDEX(call.virt, n)
        <5>1. CASE n = call.level
          BY <1>2, <2>2, <4>2, <4>3, <5>1, CallIs
        <5>2. CASE n # call.level
          <6>1. n \in (call.level + 1)..3
            BY <2>2, <3>1, <5>2
          <6>2. pos[call.at][n] = VA_INDEX(call.virt, n)
            BY <1>2, <6>1, CallIs, Zenon DEF OnPath
          <6> QED BY <2>2, <4>2, <4>3, <5>2, <6>1, <6>2
        <5> QED BY <5>1, <5>2
      <4> QED BY <4>1, <4>4, Zenon DEF OnPath
    <3>2. CASE j # call.level - 1
      <4>1. j \in (call.level)..3 /\ u[j] = t[j]
        BY <2>2, <2>5, <3>2
      <4> QED BY <2>3, <4>1, Zenon DEF Path
    <3> QED BY <3>1, <3>2
  <2>8. ASSUME NEW j \in (call.level - 1 + 1)..3
        PROVE  Link(mem', u[j], VA_INDEX(call.virt, j), u[j - 1], call.perms)
    <3>1. CASE j = call.level
      <4>1. u[j] = call.at /\ u[j - 1] = g /\ VA_INDEX(call.virt, j) = Here
        BY <1>2, <2>1, <2>2, <2>5, <3>1, CallIs
      <4>2. call.at \in Phys /\ Here \in Index
        BY <1>2, CallIs
      <4>3. mem'[call.at][Here] = e
        BY <4>2, DescendsTables
      <4>4. /\ e.present /\ ~e.huge /\ e.ppn = g
            /\ call.perms.user => e.perms.user
            /\ call.perms.writeable => e.perms.writeable
        BY Zenon DEF Descends
      <4> QED BY <4>1, <4>3, <4>4, Zenon DEF Link
    <3>2. CASE j # call.level
      <4>1. j \in (call.level + 1)..3
        BY <2>2, <3>2
      <4>2. u[j] = t[j] /\ u[j - 1] = t[j - 1]
        BY <2>2, <2>5, <4>1
      <4>3. Link(mem', t[j], VA_INDEX(call.virt, j), t[j - 1], call.perms)
        BY <2>3, <4>1, Zenon DEF Path
      <4> QED BY <4>2, <4>3
    <3> QED BY <3>1, <3>2
  <2>9. Path(mem', lvl2, pos2, call.root, call.virt, call.level - 1, call.perms, u)
    BY <2>6, <2>7, <2>8, Zenon DEF Path
  <2> QED BY <1>6, <2>5, <2>9, Zenon DEF Reached
<1> QED BY <1>4, <1>5, <1>8, <1>9, <1>10, Zenon DEF CallInv, Owned, Placed

\* The frames that kmain has in its lists stay taken.
LEMMA StageStays ==
  ASSUME NEW lvl, NEW pos, NEW lvl2, Core(lvl, pos), pc # "heap_null",
         UNCHANGED <<mmap, cr3, thread_table, pc, i, addr, pages>>,
         \A f \in Phys : Owned(lvl, f) => Owned(lvl2, f)'
  PROVE  StageInv(lvl2)'
<1>1. \A n : OwnedList(lvl, pages, n) => OwnedList(lvl2, pages, n)'
  BY Zenon DEF OwnedList
<1>2. addr \in Phys /\ Owned(lvl, addr) => addr' \in Phys /\ Owned(lvl2, addr)'
  BY Zenon
<1>3. RAM' = RAM
  BY DEF RAM
<1>4. StageInv(lvl)
  BY DEF Core
<1> QED BY <1>1, <1>2, <1>3, <1>4, Zenon DEF StageInv

\* Where kmain is after it, and all of the invariant.
LEMMA DescendsCore ==
  ASSUME NEW lvl \in LevelMaps, NEW pos \in Positions, Core(lvl, pos), mmap \in MemoryMaps,
         NEW lvl2 \in LevelMaps, NEW pos2 \in Positions, NEW g \in Phys, NEW e \in Entries,
         Descends(lvl, pos, lvl2, pos2, g, e)
  PROVE  Core(lvl2, pos2)' /\ mmap' \in MemoryMaps /\ RAM' = RAM
<1>1. UNCHANGED <<mmap, cr3, thread_table, pc, i, addr, pages, asked>> /\ RAM' = RAM
  BY DEF Descends, RAM
<1>2. call # NoCall /\ call \in CallRecords /\ pc \notin Ended /\ pc # "heap_null"
  BY CallIs, Zenon DEF Descends
<1>3. /\ call' # NoCall /\ call'.frame = call.frame /\ call'.size = call.size
      /\ call'.virt = call.virt /\ call'.next = call.next /\ call'.failed = call.failed
  <2>1. call' = [call EXCEPT !.at = g, !.level = call.level - 1]
    BY DEF Descends
  <2>2. call'.at = g /\ call'.frame = call.frame /\ call'.size = call.size
        /\ call'.virt = call.virt /\ call'.next = call.next /\ call'.failed = call.failed
    BY <1>2, <2>1 DEF CallRecords
  <2>3. g # None /\ NoCall.at = None
    BY DEF Phys, None, NoCall
  <2> QED BY <2>2, <2>3
<1>4. TablesInv(lvl2)' /\ TreeInv(lvl2, pos2)' /\ AskedInv(lvl2, pos2)' /\ CallInv(lvl2, pos2)'
  BY DescendsTables, DescendsTree, DescendsAsked, DescendsCall, Zenon
<1>5. RootsInv'
  <2>1. \A f \in Phys, n \in Index : ~(f = call.at /\ n = Here) => mem'[f][n] = mem[f][n]
    BY DescendsTables
  <2> QED BY <1>1, <1>2, <2>1, WritesRoots
<1>6. \A f \in Phys : Owned(lvl, f) => Owned(lvl2, f)'
  BY DescendsTables, Zenon
<1>7. StageInv(lvl2)'
  BY <1>1, <1>2, <1>6, StageStays
<1>8. ReturnInv'
  BY <1>1, <1>2, <1>3, Zenon DEF Core, ReturnInv
<1>9. WindowInv'
  BY <1>1, <1>2, <1>3 DEF Core, WindowInv, Windowed, InRegion
<1>10. NoFaultIfCovered'
  BY <1>1, <1>2 DEF NoFaultIfCovered, Ended
<1> QED BY <1>1, <1>4, <1>5, <1>7, <1>8, <1>9, <1>10, Zenon DEF Core

\* The rights an upper entry collects.
LEMMA UpperPerms ==
  ASSUME NEW old \in PermRecords, NEW perms \in PermRecords
  PROVE  LET new == APPLY_UPPER_PERMS(old, perms)
         IN /\ new \in PermRecords
            /\ old.user => new.user
            /\ old.writeable => new.writeable
            /\ perms.user => new.user
            /\ perms.writeable => new.writeable
BY DEF APPLY_UPPER_PERMS, PermRecords

LEMMA PresentStep ==
  ASSUME NEW lvl \in LevelMaps, NEW pos \in Positions, Core(lvl, pos), mmap \in MemoryMaps,
         LowMemory, page_in_present
  PROVE  Core(lvl, pos)' /\ mmap' \in MemoryMaps /\ RAM' = RAM
<1>1. /\ call # NoCall /\ ~LeafLevel /\ Old.present
      /\ mem' = [mem EXCEPT ![call.at][Here].perms = APPLY_UPPER_PERMS(@, call.perms)]
      /\ call' = [call EXCEPT !.at = as_int(Old.ppn), !.level = @ - 1]
      /\ UNCHANGED <<mmap, cr3, thread_table, pc, i, addr, pages, asked>> /\ used' = used
  BY DEF page_in_present, InPageIn
<1>2. /\ call \in CallRecords /\ call.at \in Phys /\ lvl[call.at] = call.level /\ Here \in Index
      /\ call.perms \in PermRecords /\ call.level \in 1..3
      /\ ~(call.level = 1 /\ pos[call.at][3] = Top)
  BY <1>1, CallIs, UpperTable
<1>3. mem \in [Phys -> Tables] /\ mem[call.at] \in [Index -> Entries] /\ Old \in Entries
  BY <1>2 DEF Core, TablesInv, Tables, Old
<1>4. Old.perms \in PermRecords
  BY <1>3 DEF Entries
<1>5. PICK perms \in PermRecords :
        /\ perms = APPLY_UPPER_PERMS(Old.perms, call.perms)
        /\ Old.perms.user => perms.user
        /\ Old.perms.writeable => perms.writeable
        /\ call.perms.user => perms.user
        /\ call.perms.writeable => perms.writeable
  BY <1>2, <1>4, UpperPerms
<1>6. PICK e \in Entries : e = [Old EXCEPT !.perms = perms]
  BY <1>3 DEF Entries
<1>7. e.present = Old.present /\ e.huge = Old.huge /\ e.ppn = Old.ppn /\ e.perms = perms
  BY <1>3, <1>6 DEF Entries
<1>8. /\ ~Old.huge /\ Old.ppn \in Phys /\ lvl[Old.ppn] = call.level - 1
      /\ pos[Old.ppn] = [pos[call.at] EXCEPT ![call.level] = Here]
  <2>1. lvl[call.at] # None /\ lvl[call.at] # 0
    BY <1>2 DEF None
  <2>2. EntryInv(lvl, pos, call.at, Here)
    BY <1>1, <1>2, <2>1, Zenon DEF Core, TreeInv, Old
  <2> QED BY <1>2, <2>1, <2>2, Zenon DEF EntryInv, Old
<1>9. PICK g \in Phys : g = Old.ppn
  BY <1>8
<1>10. mem' = [mem EXCEPT ![call.at] = [mem[call.at] EXCEPT ![Here] = e]]
  BY <1>1, <1>5, <1>6, Zenon DEF Old
<1>11. lvl[g] # None
  BY <1>2, <1>8, <1>9 DEF None
<1>12. call' = [call EXCEPT !.at = g, !.level = call.level - 1]
  <2>1. g \in RAM \cup KernelFrames
    BY <1>11 DEF Core, TablesInv
  <2>2. as_int(Old.ppn) = g
    BY <1>9, <2>1, LowFrame
  <2> QED BY <1>1, <2>2
<1>13. used' \subseteq Phys
  BY <1>1 DEF Core, TablesInv
<1>14. Descends(lvl, pos, lvl, pos, g, e)
  BY <1>1, <1>5, <1>7, <1>8, <1>9, <1>10, <1>11, <1>12, <1>13, Zenon DEF Descends
<1> QED BY <1>14, DescendsCore, Zenon

LEMMA AllocatesStep ==
  ASSUME NEW lvl \in LevelMaps, NEW pos \in Positions, Core(lvl, pos), mmap \in MemoryMaps,
         LowMemory, page_in_allocates
  PROVE  \E lvl2 \in LevelMaps, pos2 \in Positions :
           Core(lvl2, pos2)' /\ mmap' \in MemoryMaps /\ RAM' = RAM
<1>1. PICK f :
        /\ f = LowestOf(Free) /\ call # NoCall /\ ~LeafLevel /\ ~Old.present /\ Free # {}
        /\ used' = used \cup {f}
        /\ mem' = [mem EXCEPT ![f] = EmptyTable,
                     ![call.at][Here] =
                       Entry(f, FALSE, APPLY_UPPER_PERMS(Old.perms, call.perms))]
        /\ call' = [call EXCEPT !.at = as_int(f), !.level = @ - 1]
        /\ UNCHANGED <<mmap, cr3, thread_table, pc, i, addr, pages, asked>>
  BY DEF page_in_allocates, InPageIn, NextIsReachable
<1>2. /\ call \in CallRecords /\ call.at \in Phys /\ lvl[call.at] = call.level /\ Here \in Index
      /\ call.perms \in PermRecords /\ call.level \in 1..3 /\ call.level - 1 \in Levels
  BY <1>1, CallIs, UpperTable
<1>3. mem \in [Phys -> Tables] /\ mem[call.at] \in [Index -> Entries] /\ Old \in Entries
  BY <1>2 DEF Core, TablesInv, Tables, Old
<1>4. Old.perms \in PermRecords
  BY <1>3 DEF Entries
<1>5. f \in RAM /\ f \notin used /\ f \in Phys
  <2>1. f \in Free
    BY <1>1, FreeIs
  <2> QED BY <2>1, MemoryIs DEF Free
<1>6. lvl[f] = None /\ mem[f] = EmptyTable
  BY <1>5 DEF Core, TablesInv
<1>7. PICK perms \in PermRecords :
        /\ perms = APPLY_UPPER_PERMS(Old.perms, call.perms)
        /\ call.perms.user => perms.user
        /\ call.perms.writeable => perms.writeable
  BY <1>2, <1>4, UpperPerms
<1>8. PICK e \in Entries : e = Entry(f, FALSE, perms)
  BY <1>5, <1>7, MemoryIs DEF Entry, Entries
<1>9. e.present /\ ~e.huge /\ e.ppn = f /\ e.perms = perms
  BY <1>8 DEF Entry
<1>10. f # call.at
  BY <1>2, <1>6 DEF None
<1>11. mem' = [mem EXCEPT ![call.at] = [mem[call.at] EXCEPT ![Here] = e]]
  <2>1. [mem EXCEPT ![f] = EmptyTable] = mem
    BY <1>3, <1>5, <1>6
  <2>2. mem' = [[mem EXCEPT ![f] = EmptyTable] EXCEPT ![call.at][Here] = e]
    BY <1>1, <1>7, <1>8, Zenon
  <2> QED BY <2>1, <2>2, Zenon
<1>12. PICK lvl2 \in LevelMaps : lvl2 = [lvl EXCEPT ![f] = call.level - 1]
  BY <1>2, <1>5 DEF LevelMaps
<1>13. PICK pos2 \in Positions :
         pos2 = [pos EXCEPT ![f] = [pos[call.at] EXCEPT ![call.level] = Here]]
  <2>1. pos[call.at] \in [1..3 -> Int] /\ Here \in Int
    BY <1>2 DEF Positions, Index
  <2>2. [pos[call.at] EXCEPT ![call.level] = Here] \in [1..3 -> Int]
    BY <1>2, <2>1
  <2>3. [pos EXCEPT ![f] = [pos[call.at] EXCEPT ![call.level] = Here]] \in Positions
    BY <1>5, <2>2 DEF Positions
  <2> QED BY <2>3
<1>14. /\ lvl2[f] = call.level - 1 /\ \A h \in Phys : h # f => lvl2[h] = lvl[h]
       /\ pos2[f] = [pos[call.at] EXCEPT ![call.level] = Here]
       /\ \A h \in Phys : h # f => pos2[h] = pos[h]
  <2>1. lvl2[f] = call.level - 1 /\ \A h \in Phys : h # f => lvl2[h] = lvl[h]
    BY <1>5, <1>12 DEF LevelMaps
  <2> DEFINE new == [pos[call.at] EXCEPT ![call.level] = Here]
  <2>2. pos2 = [pos EXCEPT ![f] = new]
    BY <1>13
  <2> HIDE DEF new
  <2>3. pos2[f] = new /\ \A h \in Phys : h # f => pos2[h] = pos[h]
    BY <1>5, <2>2 DEF Positions
  <2> QED BY <2>1, <2>3 DEF new
<1>15. call' = [call EXCEPT !.at = f, !.level = call.level - 1]
  <2>1. as_int(f) = f
    BY <1>5, LowFrame
  <2> QED BY <1>1, <2>1
<1>16. used' \subseteq Phys /\ used \subseteq used' /\ f \in used'
  BY <1>1, <1>5 DEF Core, TablesInv
<1>17. /\ \A h \in Phys : lvl[h] # None => lvl2[h] = lvl[h] /\ pos2[h] = pos[h]
       /\ \A h \in Phys : lvl[h] = None /\ h # f => lvl2[h] = None
  BY <1>6, <1>14, Zenon
<1>18. Descends(lvl, pos, lvl2, pos2, f, e)
  BY <1>1, <1>5, <1>7, <1>9, <1>11, <1>14, <1>15, <1>16, <1>17, Zenon DEF Descends
<1>19. Core(lvl2, pos2)' /\ mmap' \in MemoryMaps /\ RAM' = RAM
  BY <1>5, <1>18, DescendsCore, Zenon
<1> QED BY <1>19, Zenon

-----------------------------------------------------------------------------
(* page_in at its end                                                      *)

\* On the maps that the window covers, page_in does not fault.
LEMMA FaultsStep ==
  ASSUME NEW lvl \in LevelMaps, NEW pos \in Positions, Core(lvl, pos), mmap \in MemoryMaps,
         LowMemory, page_in_faults
  PROVE  Core(lvl, pos)' /\ mmap' \in MemoryMaps /\ RAM' = RAM
<1>1. /\ call # NoCall /\ pc' = "fault" /\ call' = NoCall
      /\ UNCHANGED <<mmap, mem, used, cr3, thread_table, i, addr, pages, asked>>
      /\ \/ ~Reachable(call.at)
         \/ Free # {} /\ ~Reachable(LowestOf(Free))
  BY DEF page_in_faults, InPageIn, Faults, NextIsReachable
<1>2. /\ TablesInv(lvl) /\ TreeInv(lvl, pos) /\ RootsInv /\ AskedInv(lvl, pos)
      /\ StageInv(lvl) /\ WindowInv
  BY DEF Core
<1>3. used \subseteq used' /\ used' \subseteq Phys
  BY <1>1, <1>2 DEF TablesInv
<1>4. /\ TablesInv(lvl)' /\ TreeInv(lvl, pos)' /\ RootsInv' /\ AskedInv(lvl, pos)'
      /\ mmap' \in MemoryMaps /\ RAM' = RAM
  BY <1>1, <1>2, <1>3, QuietStep
<1>5. CallInv(lvl, pos)' /\ ReturnInv'
  BY <1>1 DEF CallInv, ReturnInv
<1>6. StageInv(lvl)' /\ WindowInv'
  BY <1>1 DEF StageInv, WindowInv, Stages, Ended, KernelStages, HeapStages, ThreadStages
<1>7. ~Covered
  <2> SUFFICES ASSUME Covered PROVE FALSE
    OBVIOUS
  <2>1. call.at \in Phys /\ lvl[call.at] = call.level /\ call.level \in Levels /\ pc \notin Ended
    BY <1>1, CallIs
  <2>2. call.at \in RAM \cup KernelFrames
    BY <1>2, <2>1 DEF TablesInv, Levels, None
  <2>3. Free # {} => LowestOf(Free) \in RAM
    BY FreeIs
  <2> QED BY <1>1, <1>2, <2>1, <2>2, <2>3, ReachableIs
<1>8. NoFaultIfCovered'
  BY <1>1, <1>4, <1>7, Zenon DEF NoFaultIfCovered, Covered, InWindow
<1> QED BY <1>4, <1>5, <1>6, <1>8, Zenon DEF Core

LEMMA FailsStep ==
  ASSUME NEW lvl \in LevelMaps, NEW pos \in Positions, Core(lvl, pos), mmap \in MemoryMaps,
         page_in_fails
  PROVE  Core(lvl, pos)' /\ mmap' \in MemoryMaps /\ RAM' = RAM
<1>1. /\ call # NoCall /\ pc' = call.failed /\ call' = NoCall /\ Free = {}
      /\ UNCHANGED <<mmap, mem, used, cr3, thread_table, i, addr, pages, asked>>
  BY DEF page_in_fails, InPageIn
<1>2. /\ TablesInv(lvl) /\ TreeInv(lvl, pos) /\ RootsInv /\ AskedInv(lvl, pos)
      /\ StageInv(lvl) /\ WindowInv /\ ReturnInv
  BY DEF Core
<1>3. used \subseteq used' /\ used' \subseteq Phys
  BY <1>1, <1>2 DEF TablesInv
<1>4. /\ TablesInv(lvl)' /\ TreeInv(lvl, pos)' /\ RootsInv' /\ AskedInv(lvl, pos)'
      /\ mmap' \in MemoryMaps /\ RAM' = RAM /\ Free' \subseteq Free
  BY <1>1, <1>2, <1>3, QuietStep
<1>5. CallInv(lvl, pos)' /\ ReturnInv'
  BY <1>1 DEF CallInv, ReturnInv
<1>6. \/ pc' = "halt" \/ pc' = "done"
      \/ pc \in HeapStages /\ pc' = "heap_null"
      \/ pc = "devices" /\ pc' \in {"devices", "thread"}
  BY <1>1, <1>2 DEF ReturnInv, HeapStages
<1>7. StageInv(lvl)'
  <2>1. CASE pc' = "halt" \/ pc' = "done"
    BY <2>1 DEF StageInv, Stages, Ended, KernelStages, HeapStages, ThreadStages
  <2>2. CASE pc \in HeapStages /\ pc' = "heap_null"
    <3>1. cr3 = Kernel_PML4_TABLE /\ thread_table = None
      BY <1>2, <2>2 DEF StageInv, KernelStages
    <3> QED BY <1>1, <1>4, <2>2, <3>1
         DEF StageInv, Stages, Ended, KernelStages, HeapStages, ThreadStages
  <2>3. CASE pc = "devices" /\ pc' \in {"devices", "thread"}
    BY <1>1, <1>2, <1>4, <2>3
       DEF StageInv, Stages, Ended, KernelStages, HeapStages, ThreadStages
  <2> QED BY <1>6, <2>1, <2>2, <2>3
<1>8. WindowInv'
  <2>1. CASE pc' = "halt" \/ pc' = "done"
    BY <2>1 DEF WindowInv, KernelStages, HeapStages, ThreadStages
  <2>2. CASE pc \in HeapStages \cup {"devices"} /\ pc' \in {"heap_null", "devices", "thread"}
    <3>1. \A n \in DOMAIN mmap, a \in Nat : InRegion(n, a) => Windowed(a)
      BY <1>2, <2>2 DEF WindowInv, KernelStages
    <3>2. \A n \in DOMAIN mmap', a \in Nat : InRegion(n, a)' => Windowed(a)'
      BY <1>1, <3>1, Zenon DEF InRegion, Windowed
    <3>3. pc' # "regions"
      BY <2>2
    <3> QED BY <3>2, <3>3, Zenon DEF WindowInv
  <2> QED BY <1>6, <2>1, <2>2
<1>9. NoFaultIfCovered'
  <2>1. pc' # "fault"
    BY <1>6
  <2> QED BY <2>1, Zenon DEF NoFaultIfCovered
<1> QED BY <1>4, <1>5, <1>7, <1>8, <1>9, Zenon DEF Core

\* A page is the only one at its entry.
LEMMA SamePage ==
  ASSUME NEW lvl \in LevelMaps, NEW pos \in Positions, Core(lvl, pos), call # NoCall,
         NEW root, NEW v \in Virt, NEW size \in Sizes, Placed(root, v, size),
         LeafOf(size) = call.level, LeafOf(call.size) = call.level,
         OnPath(pos, call.at, call.level, v), VA_INDEX(v, call.level) = Here
  PROVE  root = call.root /\ v = call.virt
<1>1. /\ call.virt \in Virt /\ Placed(call.root, call.virt, call.size)
      /\ call.level \in Levels /\ call.size \in Sizes
      /\ OnPath(pos, call.at, call.level, call.virt) /\ Here = VA_INDEX(call.virt, call.level)
  BY CallIs, Zenon
<1>2. \A j \in (call.level)..3 : VA_INDEX(v, j) = VA_INDEX(call.virt, j)
  <2> TAKE j \in (call.level)..3
  <2>1. CASE j = call.level
    BY <1>1, <2>1
  <2>2. CASE j # call.level
    <3>1. j \in (call.level + 1)..3
      BY <1>1, <2>2 DEF Levels
    <3> QED BY <1>1, <3>1, Zenon DEF OnPath
  <2> QED BY <2>1, <2>2
<1>3. CASE call.level = 0
  <2>1. \A j \in Levels : VA_INDEX(v, j) = VA_INDEX(call.virt, j)
    BY <1>2, <1>3 DEF Levels
  <2>2. v = call.virt
    BY <1>1, <2>1, SameIndices
  <2>3. /\ root \in Roots /\ call.root \in Roots
        /\ root = Kernel_PML4_TABLE <=> call.root = Kernel_PML4_TABLE
    BY <1>1, <2>2 DEF Placed
  <2> QED BY <2>2, <2>3 DEF Roots
<1>4. CASE call.level # 0
  <2>1. call.level = 1 /\ size # 1 /\ call.size # 1
    BY <1>4 DEF LeafOf
  <2>2. \A j \in 1..3 : VA_INDEX(v, j) = VA_INDEX(call.virt, j)
    BY <1>2, <2>1
  <2>3. /\ v % HUGE_PS = 0 /\ call.virt % HUGE_PS = 0
        /\ root = Kernel_PML4_TABLE /\ call.root = Kernel_PML4_TABLE
    BY <1>1, <2>1, Zenon DEF Placed
  <2> QED BY <1>1, <2>2, <2>3, SameLargePage
<1> QED BY <1>3, <1>4

\* The step that writes the entry of the page.
Leaves(e) ==
  /\ call # NoCall /\ LeafLevel
  /\ e = Entry(call.frame, call.size # 1, call.perms)
  /\ mem' = [mem EXCEPT ![call.at] = [mem[call.at] EXCEPT ![Here] = e]]
  /\ asked' = [k \in DOMAIN asked \cup {<<call.root, call.virt>>} |->
       IF k = <<call.root, call.virt>>
         THEN [frame |-> call.frame, size |-> call.size, perms |-> call.perms]
         ELSE asked[k]]
  /\ pc' = call.next /\ call' = NoCall
  /\ UNCHANGED <<mmap, used, cr3, thread_table, i, addr, pages>>

\* The last table of a way.
LEMMA LastTable ==
  ASSUME NEW lvl \in LevelMaps, NEW pos \in Positions, Core(lvl, pos), call # NoCall, LeafLevel
  PROVE  /\ call.level = LeafOf(call.size) /\ call.level \in {0, 1}
         /\ call.level = 0 => call.size = 1
         /\ call.level # 0 => /\ call.level = 1 /\ call.size # 1
                              /\ pos[call.at][3] = Top /\ ~call.perms.user
<1>1. call.level = LeafOf(call.size) /\ call.level \in {0, 1}
  BY CallIs, LeafLevelIs DEF LeafOf
<1>2. call.level = 0 => call.size = 1
  BY <1>1 DEF LeafOf
<1>3. ASSUME call.level # 0
      PROVE  call.level = 1 /\ call.size # 1 /\ pos[call.at][3] = Top /\ ~call.perms.user
  <2>1. call.level = 1 /\ call.size # 1
    BY <1>1, <1>3 DEF LeafOf
  <2>2. VA_INDEX(call.virt, 3) = Top
    BY <2>1, CallIs, Zenon DEF Placed
  <2>3. pos[call.at][3] = VA_INDEX(call.virt, 3)
    BY <2>1, CallIs DEF OnPath
  <2>4. ~call.perms.user
    BY <2>1, Zenon DEF Core, CallInv
  <2> QED BY <2>1, <2>2, <2>3, <2>4
<1> QED BY <1>1, <1>2, <1>3

LEMMA LeavesTables ==
  ASSUME NEW lvl \in LevelMaps, NEW pos \in Positions, Core(lvl, pos), mmap \in MemoryMaps,
         NEW e, Leaves(e)
  PROVE  /\ \A f \in Phys, n \in Index :
              mem'[f][n] = IF f = call.at /\ n = Here THEN e ELSE mem[f][n]
         /\ Grows(mem, mem', lvl, pos, lvl, pos)
         /\ TablesInv(lvl)' /\ e \in Entries
<1>1. mem \in [Phys -> Tables] /\ used \subseteq Phys
  BY DEF Core, TablesInv
<1>2. /\ call # NoCall /\ LeafLevel /\ call \in CallRecords
      /\ call.at \in Phys /\ lvl[call.at] = call.level /\ Here \in Index
  BY CallIs, Zenon DEF Leaves
<1>3. lvl[call.at] # None
  BY <1>2, LastTable DEF None
<1>4. e \in Entries
  <2>1. call.frame \in Nat /\ call.perms \in PermRecords
    BY <1>2 DEF CallRecords
  <2>2. e = Entry(call.frame, call.size # 1, call.perms)
    BY DEF Leaves
  <2> QED BY <2>1, <2>2 DEF Entry, Entries
<1>5. mem' = [mem EXCEPT ![call.at] = [mem[call.at] EXCEPT ![Here] = e]]
  BY DEF Leaves
<1>6. mem[call.at] \in [Index -> Entries]
  BY <1>1, <1>2 DEF Tables
<1>7. mem' \in [Phys -> Tables]
  <2>1. [mem[call.at] EXCEPT ![Here] = e] \in Tables
    BY <1>4, <1>6 DEF Tables
  <2> QED BY <1>1, <1>5, <2>1
<1>8. \A f \in Phys : f # call.at => mem'[f] = mem[f]
  BY <1>1, <1>5
<1>9. \A f \in Phys, n \in Index :
        mem'[f][n] = IF f = call.at /\ n = Here THEN e ELSE mem[f][n]
  <2>1. mem'[call.at] = [mem[call.at] EXCEPT ![Here] = e]
    BY <1>1, <1>2, <1>5
  <2>2. \A n \in Index : mem'[call.at][n] = IF n = Here THEN e ELSE mem[call.at][n]
    BY <1>6, <2>1
  <2> QED BY <1>8, <2>2
<1>10. ASSUME NEW f \in Phys, lvl[f] # None, lvl[f] # 0, NEW n \in Index, NEW c, NEW perms,
              Link(mem, f, n, c, perms)
       PROVE  Link(mem', f, n, c, perms)
  <2>1. CASE f = call.at /\ n = Here
    <3>1. lvl[call.at] = 1 /\ pos[call.at][3] = Top
      BY <1>2, <1>10, <2>1, LastTable
    <3>2. mem[f][n].present /\ ~mem[f][n].huge
      BY <1>10, Zenon DEF Link
    <3>3. EntryInv(lvl, pos, f, n)
      BY <1>10, <3>2, Zenon DEF Core, TreeInv
    <3> QED BY <1>10, <2>1, <3>1, <3>2, <3>3, Zenon DEF EntryInv
  <2>2. CASE ~(f = call.at /\ n = Here)
    <3>1. mem'[f][n] = mem[f][n]
      BY <1>9, <2>2, Zenon
    <3> QED BY <1>10, <3>1, Zenon DEF Link
  <2> QED BY <2>1, <2>2
<1>11. Grows(mem, mem', lvl, pos, lvl, pos)
  BY <1>10, Zenon DEF Grows
<1>12. UNCHANGED <<mmap, used, thread_table>> /\ RAM' = RAM
  BY DEF Leaves, RAM
<1>13. \A f \in Phys : lvl[f] = None => mem'[f] = EmptyTable
  BY <1>3, <1>8 DEF Core, TablesInv
<1>14. TablesInv(lvl)'
  BY <1>7, <1>12, <1>13 DEF Core, TablesInv
<1> QED BY <1>4, <1>9, <1>11, <1>14

\* The tree after it.
LEMMA LeavesTree ==
  ASSUME NEW lvl \in LevelMaps, NEW pos \in Positions, Core(lvl, pos), mmap \in MemoryMaps,
         NEW e, Leaves(e)
  PROVE  TreeInv(lvl, pos)'
<1> SUFFICES ASSUME NEW f \in Phys, NEW n \in Index, lvl[f] # None, mem'[f][n].present
             PROVE  EntryInv(lvl, pos, f, n)'
  BY Zenon DEF TreeInv
<1>1. mem'[f][n] = IF f = call.at /\ n = Here THEN e ELSE mem[f][n]
  BY LeavesTables
<1>2. /\ call # NoCall /\ LeafLevel /\ UNCHANGED thread_table
      /\ e = Entry(call.frame, call.size # 1, call.perms)
      /\ DOMAIN asked' = DOMAIN asked \cup {<<call.root, call.virt>>}
  BY DEF Leaves
<1>3. /\ lvl[call.at] = call.level /\ call.virt \in Virt /\ Placed(call.root, call.virt, call.size)
      /\ OnPath(pos, call.at, call.level, call.virt) /\ Here = VA_INDEX(call.virt, call.level)
  BY <1>2, CallIs, Zenon
<1>4. e.huge = (call.size # 1) /\ e.perms = call.perms
  BY <1>2 DEF Entry
<1>5. \A v : UserPage(v) => UserPage(v)'
  BY <1>2, Zenon DEF UserPage
<1>6. CASE f = call.at /\ n = Here /\ call.level = 0
  <2>1. call.size = 1 /\ ~e.huge
    BY <1>2, <1>4, <1>6, LastTable
  <2>2. ASSUME call.perms.user, NEW v \in Virt, OnPath(pos, f, 0, v), VA_INDEX(v, 0) = n
        PROVE  UserPage(v)'
    <3>1. \A j \in Levels : VA_INDEX(v, j) = VA_INDEX(call.virt, j)
      <4> TAKE j \in Levels
      <4>1. CASE j = 0
        BY <1>3, <1>6, <2>2, <4>1
      <4>2. CASE j # 0
        <5>1. j \in (0 + 1)..3
          BY <4>2 DEF Levels
        <5> QED BY <1>3, <1>6, <2>2, <5>1, Zenon DEF OnPath
      <4> QED BY <4>1, <4>2
    <3>2. v = call.virt
      BY <1>3, <3>1, SameIndices
    <3>3. call.virt = VideoFrame \/ call.root = thread_table
      BY <1>2, <2>2, Zenon DEF Core, CallInv
    <3>4. call.root # None
      BY <1>3 DEF Placed, Roots
    <3> QED BY <1>2, <3>2, <3>3, <3>4 DEF UserPage
  <2>3. lvl[f] = 0 /\ mem'[f][n] = e
    BY <1>1, <1>3, <1>6
  <2>4. e.perms.user =>
          \A v \in Virt : OnPath(pos, f, 0, v) /\ VA_INDEX(v, 0) = n => UserPage(v)'
    BY <1>4, <2>2
  <2> QED BY <2>1, <2>3, <2>4, Zenon DEF EntryInv
<1>7. CASE f = call.at /\ n = Here /\ call.level # 0
  <2>1. lvl[f] # 0 /\ lvl[f] = 1 /\ pos[f][3] = Top /\ call.size # 1 /\ ~call.perms.user
    BY <1>2, <1>3, <1>7, LastTable
  <2>2. mem'[f][n] = e
    BY <1>1, <1>7
  <2> QED BY <1>4, <2>1, <2>2, Zenon DEF EntryInv
<1>8. CASE ~(f = call.at /\ n = Here)
  <2>1. mem'[f][n] = mem[f][n]
    BY <1>1, <1>8
  <2>2. TreeInv(lvl, pos) /\ mem[f][n].present
    BY <2>1, Zenon DEF Core
  <2> QED BY <1>5, <2>1, <2>2, EntryStays
<1> QED BY <1>6, <1>7, <1>8

\* What was asked for after it.
LEMMA LeavesAsked ==
  ASSUME NEW lvl \in LevelMaps, NEW pos \in Positions, Core(lvl, pos), mmap \in MemoryMaps,
         NEW e, Leaves(e)
  PROVE  AskedInv(lvl, pos)'
<1> DEFINE new == <<call.root, call.virt>>
<1>1. /\ call # NoCall /\ LeafLevel
      /\ UNCHANGED <<mmap, used, thread_table>> /\ RAM' = RAM /\ Roots' = Roots
      /\ e = Entry(call.frame, call.size # 1, call.perms)
      /\ asked' = [k \in DOMAIN asked \cup {new} |->
           IF k = new
             THEN [frame |-> call.frame, size |-> call.size, perms |-> call.perms]
             ELSE asked[k]]
  BY DEF Leaves, RAM, Roots
<1>2. /\ call \in CallRecords /\ Placed(call.root, call.virt, call.size)
      /\ call.at \in Phys /\ lvl[call.at] = call.level /\ Here \in Index
      /\ call.virt \in Virt /\ Here = VA_INDEX(call.virt, call.level)
      /\ call.level = LeafOf(call.size)
  BY <1>1, CallIs, LastTable
<1>3. /\ \A f \in Phys, n \in Index :
           mem'[f][n] = IF f = call.at /\ n = Here THEN e ELSE mem[f][n]
      /\ Grows(mem, mem', lvl, pos, lvl, pos)
  BY LeavesTables, Zenon
<1>4. /\ \A root, v, size : Placed(root, v, size) => Placed(root, v, size)'
      /\ \A f : Owned(lvl, f) => Owned(lvl, f)'
  BY <1>1, Zenon DEF Placed, Owned
<1>5. SUFFICES ASSUME NEW k \in DOMAIN asked', NEW r, r = asked'[k]
               PROVE  /\ k \in Phys \X Virt
                      /\ r \in [frame : Nat, size : Sizes, perms : PermRecords]
                      /\ Placed(k[1], k[2], r.size)
                      /\ r.size = 1 /\ r.frame \in RAM => Owned(lvl, r.frame)
                      /\ Found(mem', lvl, pos, k[1], k[2], r)
  <2>1. SUFFICES ASSUME NEW k \in DOMAIN asked'
                 PROVE  /\ k \in Phys \X Virt
                        /\ (asked[k] \in [frame : Nat, size : Sizes, perms : PermRecords])'
                        /\ Placed(k[1], k[2], asked[k].size)'
                        /\ (asked[k].size = 1 /\ asked[k].frame \in RAM =>
                              Owned(lvl, asked[k].frame))'
                        /\ Found(mem, lvl, pos, k[1], k[2], asked[k])'
    BY Zenon DEF AskedInv
  <2> QED BY <1>1, <1>4, Zenon DEF Placed, Owned
<1>6. CASE k = new
  <2>1. r = [frame |-> call.frame, size |-> call.size, perms |-> call.perms]
    BY <1>1, <1>5, <1>6, Zenon
  <2>2. r.frame = call.frame /\ r.size = call.size /\ r.perms = call.perms
    BY <2>1
  <2>3. r \in [frame : Nat, size : Sizes, perms : PermRecords]
    BY <1>2, <2>1 DEF CallRecords
  <2>4. k[1] = call.root /\ k[2] = call.virt
    BY <1>6
  <2>5. call.root \in Phys
    BY <1>2 DEF Placed, Roots, Core, TablesInv
  <2>6. k \in Phys \X Virt
    BY <1>2, <1>6, <2>5
  <2>7. r.size = 1 /\ r.frame \in RAM => Owned(lvl, r.frame)
    BY <1>1, <2>2, Zenon DEF Core, CallInv
  <2>8. PICK t \in Way :
          /\ Path(mem, lvl, pos, call.root, call.virt, call.level, call.perms, t)
          /\ t[call.level] = call.at
    BY <1>1, Zenon DEF Core, CallInv, Reached
  <2>9. Path(mem', lvl, pos, call.root, call.virt, call.level, call.perms, t)
    <3>1. PICK v \in Virt, l \in Levels : v = call.virt /\ l = call.level
      BY <1>2 DEF CallRecords
    <3>2. Path(mem, lvl, pos, call.root, v, l, call.perms, t)
      BY <2>8, <3>1, Zenon
    <3>3. Path(mem', lvl, pos, call.root, v, l, call.perms, t)
      BY <1>3, <3>2, PathGrows
    <3> QED BY <3>1, <3>3, Zenon
  <2>10. mem'[call.at][Here] = e
    BY <1>2, <1>3
  <2>11. Found(mem', lvl, pos, call.root, call.virt, r)
    BY <1>1, <1>2, <2>2, <2>8, <2>9, <2>10, Zenon DEF Found
  <2> QED BY <1>2, <2>2, <2>3, <2>4, <2>6, <2>7, <2>11, Zenon
<1>7. CASE k # new
  <2>1. k \in DOMAIN asked /\ r = asked[k]
    BY <1>1, <1>5, <1>7, Zenon
  <2>2. /\ k \in Phys \X Virt
        /\ r \in [frame : Nat, size : Sizes, perms : PermRecords]
        /\ Placed(k[1], k[2], r.size)
        /\ r.size = 1 /\ r.frame \in RAM => Owned(lvl, r.frame)
        /\ Found(mem, lvl, pos, k[1], k[2], r)
    BY <2>1, Zenon DEF Core, AskedInv
  <2>3. PICK root, v : root = k[1] /\ v = k[2]
    BY Zenon
  <2>4. v \in Virt /\ k = <<root, v>>
    BY <2>2, <2>3
  <2>5. ASSUME NEW f \in Phys, NEW n \in Index, lvl[f] = LeafOf(r.size),
               OnPath(pos, f, lvl[f], v), n = VA_INDEX(v, lvl[f])
        PROVE  mem'[f][n] = mem[f][n]
    <3>1. SUFFICES ASSUME f = call.at, n = Here PROVE FALSE
      BY <1>3
    <3>2. PICK size \in Sizes : size = r.size
      BY <2>2
    <3>3. /\ Placed(root, v, size) /\ LeafOf(size) = call.level
          /\ OnPath(pos, call.at, call.level, v) /\ VA_INDEX(v, call.level) = Here
      BY <1>2, <2>2, <2>3, <2>5, <3>1, <3>2, Zenon
    <3>4. root = call.root /\ v = call.virt
      BY <1>1, <1>2, <2>4, <3>3, SamePage
    <3> QED BY <1>7, <2>4, <3>4
  <2>6. \A f \in Phys, n \in Index :
          /\ lvl[f] = LeafOf(r.size) /\ OnPath(pos, f, lvl[f], v) /\ n = VA_INDEX(v, lvl[f])
          /\ mem[f][n] = Entry(r.frame, r.size # 1, r.perms)
          => mem'[f][n] = mem[f][n]
    BY <2>5, Zenon
  <2>7. Found(mem, lvl, pos, root, v, r)
    BY <2>2, <2>3, Zenon
  <2>8. Found(mem', lvl, pos, root, v, r)
    BY <1>3, <2>2, <2>4, <2>6, <2>7, FoundGrows
  <2> QED BY <2>2, <2>3, <2>8, Zenon
<1> QED BY <1>6, <1>7

\* A large page of the window starts in memory.
LEMMA RegionIsLow ==
  ASSUME mmap \in MemoryMaps, LowMemory, NEW n \in DOMAIN mmap, NEW a \in Nat, InRegion(n, a)
  PROVE  a \in RAM /\ a \in 0..(2 * SUPER_PS - 1)
<1>1. mmap[n][1] \in Nat /\ mmap[n][2] \in Nat
  BY MemoryIs
<1>2. PICK b \in Nat : b = ALIGN_UP(mmap[n][1], HUGE_PS) /\ mmap[n][1] <= b
  BY <1>1, AlignUpIs
<1>3. b <= a /\ a < mmap[n][2]
  BY <1>2 DEF InRegion
<1>4. a \in mmap[n][1]..(mmap[n][2] - 1)
  BY <1>1, <1>2, <1>3
<1>5. a \in RAM
  BY <1>4 DEF RAM
<1> QED BY <1>5 DEF LowMemory

\* The window keeps the large pages it has, and gets the one of the call.
LEMMA LeavesWindow ==
  ASSUME NEW lvl \in LevelMaps, NEW pos \in Positions, Core(lvl, pos), mmap \in MemoryMaps,
         LowMemory, NEW e, Leaves(e), NEW n \in DOMAIN mmap, NEW a \in Nat, InRegion(n, a)
  PROVE  /\ Windowed(a) => Windowed(a)'
         /\ pc = "regions" /\ call.frame = a => Windowed(a)'
<1> DEFINE new == <<call.root, call.virt>>
<1> DEFINE k == <<Kernel_PML4_TABLE, KERNEL_PHYS_TO_VIRT(a)>>
<1>1. /\ call # NoCall
      /\ asked' = [j \in DOMAIN asked \cup {new} |->
           IF j = new
             THEN [frame |-> call.frame, size |-> call.size, perms |-> call.perms]
             ELSE asked[j]]
  BY DEF Leaves
<1>2. Placed(call.root, call.virt, call.size)
  BY <1>1, CallIs
<1>3. /\ a \in 0..(2 * SUPER_PS - 1) /\ VA_INDEX(KERNEL_PHYS_TO_VIRT(a), 3) = Top
      /\ KERNEL_PHYS_TO_VIRT(a) = a + KERNEL_VMA /\ KERNEL_VMA \in Nat
  BY RegionIsLow, WindowIs
<1>4. /\ k \in DOMAIN asked /\ k # new => k \in DOMAIN asked' /\ asked'[k] = asked[k]
      /\ k = new => k \in DOMAIN asked' /\ asked'[k].size = call.size
                    /\ asked'[k].frame = call.frame
  BY <1>1
<1>5. ASSUME k = new PROVE call.size = HUGE_PS /\ call.frame = a
  <2>1. call.virt = KERNEL_PHYS_TO_VIRT(a)
    BY <1>5
  <2>2. call.size # 1
    BY <1>2, <1>3, <2>1, Zenon DEF Placed
  <2>3. /\ call.size = HUGE_PS /\ call.virt = KERNEL_PHYS_TO_VIRT(call.frame)
        /\ call.frame \in 0..(2 * SUPER_PS - 1)
    BY <1>1, <2>2, Zenon DEF Core, ReturnInv
  <2>4. KERNEL_PHYS_TO_VIRT(call.frame) = call.frame + KERNEL_VMA
    BY <2>3, WindowIs
  <2> QED BY <1>3, <2>1, <2>3, <2>4
<1>6. ASSUME pc = "regions", call.frame = a PROVE k = new
  <2>1. call.size = HUGE_PS /\ call.virt = KERNEL_PHYS_TO_VIRT(call.frame)
    BY <1>1, <1>6 DEF Core, ReturnInv, HeapStages
  <2>2. HUGE_PS # 1
    BY SizesAre
  <2>3. call.root = Kernel_PML4_TABLE
    BY <1>2, <2>1, <2>2 DEF Placed
  <2> QED BY <1>6, <2>1, <2>3
<1>7. /\ Windowed(a) <=> k \in DOMAIN asked /\ asked[k].size = HUGE_PS /\ asked[k].frame = a
      /\ Windowed(a)' <=> k \in DOMAIN asked' /\ asked'[k].size = HUGE_PS /\ asked'[k].frame = a
  BY Zenon DEF Windowed
<1> HIDE DEF k, new
<1> QED BY <1>4, <1>5, <1>6, <1>7

\* page_in has mapped what it was asked for.
LEMMA LeafStep ==
  ASSUME NEW lvl \in LevelMaps, NEW pos \in Positions, Core(lvl, pos), mmap \in MemoryMaps,
         LowMemory, page_in_leaf
  PROVE  Core(lvl, pos)' /\ mmap' \in MemoryMaps /\ RAM' = RAM
<1>1. PICK e : e = Entry(call.frame, call.size # 1, call.perms)
  OBVIOUS
<1>2. Leaves(e)
  <2>1. e = Entry(call.frame, call.size # 1, APPLY_LEAF_PERMS(Old.perms, call.perms))
    BY <1>1, Zenon DEF APPLY_LEAF_PERMS
  <2>2. mem' = [mem EXCEPT ![call.at][Here] = e]
    BY <2>1, Zenon DEF page_in_leaf
  <2>3. mem' = [mem EXCEPT ![call.at] = [mem[call.at] EXCEPT ![Here] = e]]
    BY <2>2, Zenon
  <2>4. /\ asked' = [k \in DOMAIN asked \cup {<<call.root, call.virt>>} |->
             IF k = <<call.root, call.virt>>
               THEN [frame |-> call.frame, size |-> call.size, perms |-> call.perms]
               ELSE asked[k]]
        /\ pc' = call.next /\ call' = NoCall /\ call # NoCall /\ LeafLevel
        /\ UNCHANGED <<mmap, used, cr3, thread_table, i, addr, pages>>
    BY DEF page_in_leaf, InPageIn
  <2> QED BY <1>1, <2>3, <2>4, Zenon DEF Leaves
<1>3. /\ call # NoCall /\ pc' = call.next /\ call' = NoCall
      /\ UNCHANGED <<mmap, used, cr3, thread_table, i, addr, pages>> /\ RAM' = RAM
  BY <1>2, Zenon DEF Leaves, RAM
<1>4. TablesInv(lvl)' /\ TreeInv(lvl, pos)' /\ AskedInv(lvl, pos)'
  BY <1>2, LeavesTables, LeavesTree, LeavesAsked, Zenon
<1>5. RootsInv'
  <2>1. \A f \in Phys, n \in Index : ~(f = call.at /\ n = Here) => mem'[f][n] = mem[f][n]
    BY <1>2, LeavesTables
  <2> QED BY <1>3, <2>1, WritesRoots
<1>6. CallInv(lvl, pos)' /\ ReturnInv'
  BY <1>3 DEF CallInv, ReturnInv
<1>7. \/ pc = "regions" /\ pc' = "regions"
      \/ pc \in HeapStages /\ pc' \in {"heap_pages", "heap_allocator"}
      \/ pc = "devices" /\ pc' \in {"devices", "thread"}
      \/ pc = "supply" /\ pc' = "supply"
  BY <1>3 DEF Core, ReturnInv, HeapStages
<1>8. \A f, n : /\ Owned(lvl, f) => Owned(lvl, f)'
                /\ OwnedList(lvl, pages, n) => OwnedList(lvl, pages, n)'
  BY <1>3, Zenon DEF Owned, OwnedList
<1>9. StageInv(lvl)'
  <2>1. StageInv(lvl)
    BY DEF Core
  <2>2. CASE pc = "regions" /\ pc' = "regions"
    BY <1>3, <2>1, <2>2 DEF StageInv, KernelStages, ThreadStages, HeapStages
  <2>3. CASE pc \in HeapStages /\ pc' \in {"heap_pages", "heap_allocator"}
    <3>1. /\ cr3 = Kernel_PML4_TABLE /\ thread_table = None
          /\ OwnedList(lvl, pages, HeapPages) /\ i \in 2..HeapPages
      BY <2>1, <2>3 DEF StageInv, KernelStages
    <3>2. OwnedList(lvl, pages, HeapPages)'
      BY <1>3, <1>8, <3>1, Zenon DEF OwnedList
    <3> QED BY <1>3, <2>3, <3>1, <3>2
         DEF StageInv, Stages, Ended, KernelStages, ThreadStages, HeapStages
  <2>4. CASE pc = "devices" /\ pc' \in {"devices", "thread"}
    BY <1>3, <2>1, <2>4 DEF StageInv, Stages, Ended, KernelStages, ThreadStages, HeapStages
  <2>5. CASE pc = "supply" /\ pc' = "supply"
    <3>1. /\ cr3 = Kernel_PML4_TABLE /\ thread_table # None
          /\ OwnedList(lvl, pages, ThreadPages) /\ i \in 0..ThreadPages
      BY <2>1, <2>5 DEF StageInv, ThreadStages
    <3>2. OwnedList(lvl, pages, ThreadPages)'
      BY <1>3, <1>8, <3>1, Zenon DEF OwnedList
    <3> QED BY <1>3, <2>5, <3>1, <3>2
         DEF StageInv, Stages, Ended, KernelStages, ThreadStages, HeapStages
  <2> QED BY <1>7, <2>2, <2>3, <2>4, <2>5
<1>10. WindowInv'
  <2>1. WindowInv /\ StageInv(lvl)
    BY DEF Core
  <2>2. \A n \in DOMAIN mmap, a \in Nat :
          InRegion(n, a) =>
            /\ Windowed(a) => Windowed(a)'
            /\ pc = "regions" /\ call.frame = a => Windowed(a)'
    BY <1>2, LeavesWindow
  <2>3. CASE pc = "regions" /\ pc' = "regions"
    <3>1. i \in 0..Len(mmap) /\ DOMAIN mmap = 1..Len(mmap) /\ Len(mmap) \in Nat
      BY <2>1, <2>3, MemoryIs DEF StageInv
    <3>2. 1..i \subseteq DOMAIN mmap
      BY <3>1
    <3>3. \A n \in 1..i, a \in Nat : InRegion(n, a) /\ (n = i => a < addr) => Windowed(a)'
      BY <2>1, <2>2, <2>3, <3>2, Zenon DEF WindowInv
    <3>4. \A n \in 1..i', a \in Nat :
            InRegion(n, a)' /\ (n = i' => a < addr') => Windowed(a)'
      BY <1>3, <3>3, Zenon DEF InRegion
    <3>5. pc' \notin KernelStages \cup ThreadStages
      BY <2>3 DEF KernelStages, ThreadStages, HeapStages
    <3> QED BY <3>4, <3>5, Zenon DEF WindowInv
  <2>4. CASE pc \in KernelStages \cup ThreadStages /\ pc' # "regions"
    <3>1. \A n \in DOMAIN mmap, a \in Nat : InRegion(n, a) => Windowed(a)'
      BY <2>1, <2>2, <2>4, Zenon DEF WindowInv
    <3>2. \A n \in DOMAIN mmap', a \in Nat : InRegion(n, a)' => Windowed(a)'
      BY <1>3, <3>1, Zenon DEF InRegion
    <3> QED BY <2>4, <3>2, Zenon DEF WindowInv
  <2>5. \/ pc = "regions" /\ pc' = "regions"
        \/ pc \in KernelStages \cup ThreadStages /\ pc' # "regions"
    BY <1>7 DEF KernelStages, ThreadStages, HeapStages
  <2> QED BY <2>3, <2>4, <2>5
<1>11. NoFaultIfCovered'
  <2>1. pc' # "fault"
    BY <1>7
  <2> QED BY <2>1, Zenon DEF NoFaultIfCovered
<1>12. mmap' \in MemoryMaps
  BY <1>3
<1> QED BY <1>3, <1>4, <1>5, <1>6, <1>9, <1>10, <1>11, <1>12, Zenon DEF Core

LEMMA PageInStep ==
  ASSUME NEW lvl \in LevelMaps, NEW pos \in Positions, Core(lvl, pos), mmap \in MemoryMaps,
         LowMemory, page_in
  PROVE  \E lvl2 \in LevelMaps, pos2 \in Positions :
           Core(lvl2, pos2)' /\ mmap' \in MemoryMaps /\ RAM' = RAM
<1>1. CASE page_in_allocates
  BY <1>1, AllocatesStep
<1>2. CASE page_in_faults \/ page_in_present \/ page_in_fails \/ page_in_leaf
  <2>1. Core(lvl, pos)' /\ mmap' \in MemoryMaps /\ RAM' = RAM
    BY <1>2, FaultsStep, PresentStep, FailsStep, LeafStep
  <2> QED BY <2>1, Zenon
<1> QED BY <1>1, <1>2 DEF page_in

-----------------------------------------------------------------------------
(* kmain calls page_in                                                     *)

\* What the steps of kmain that leave the tables alone keep.
LEMMA StartsCall ==
  ASSUME NEW lvl \in LevelMaps, NEW pos \in Positions, Core(lvl, pos), mmap \in MemoryMaps,
         NEW root, NEW v, NEW frame \in Nat, NEW size \in Sizes, NEW perms \in PermRecords,
         NEW next \in Stages, NEW failed \in Stages,
         Calls(root, v, frame, size, perms, next, failed),
         Placed(root, v, size), thread_table # None => root = thread_table,
         perms.user => size = 1 /\ (v = VideoFrame \/ root = thread_table),
         size = 1 /\ frame \in RAM => Owned(lvl, frame),
         UNCHANGED <<mmap, mem, used, thread_table, asked>>
  PROVE  /\ TablesInv(lvl)' /\ TreeInv(lvl, pos)' /\ RootsInv' /\ AskedInv(lvl, pos)'
         /\ CallInv(lvl, pos)' /\ mmap' \in MemoryMaps /\ RAM' = RAM
         /\ call' # NoCall /\ call'.frame = frame /\ call'.size = size /\ call'.virt = v
         /\ call'.next = next /\ call'.failed = failed
<1>1. /\ TablesInv(lvl) /\ TreeInv(lvl, pos) /\ RootsInv /\ AskedInv(lvl, pos)
      /\ used \subseteq Phys
  BY DEF Core, TablesInv
<1>2. /\ TablesInv(lvl)' /\ TreeInv(lvl, pos)' /\ RootsInv' /\ AskedInv(lvl, pos)'
      /\ mmap' \in MemoryMaps /\ RAM' = RAM /\ Roots' = Roots
  BY <1>1, QuietStep
<1>3. root \in Phys /\ lvl[root] = 3 /\ v \in Virt
  BY <1>1 DEF Placed, Roots, TablesInv
<1>4. PICK c \in CallRecords :
        c = [at |-> root, level |-> 3, root |-> root, virt |-> v, frame |-> frame,
             size |-> size, perms |-> perms, next |-> next, failed |-> failed]
  <2>1. root \in Int /\ 3 \in Levels
    BY <1>3 DEF Phys, Levels
  <2> QED BY <1>3, <2>1 DEF CallRecords
<1>5. /\ c.at = root /\ c.level = 3 /\ c.root = root /\ c.virt = v /\ c.frame = frame
      /\ c.size = size /\ c.perms = perms /\ c.next = next /\ c.failed = failed
  BY <1>4
<1>6. call' = c
  BY <1>4, Zenon DEF Calls
<1>7. Reached(mem', lvl, pos, c)
  BY <1>3, <1>5, StartIs
<1>8. LeafOf(c.size) <= c.level
  BY <1>5 DEF LeafOf
<1>9. /\ Placed(c.root, c.virt, c.size)'
      /\ c.size = 1 /\ c.frame \in RAM' => Owned(lvl, c.frame)'
  BY <1>2, <1>5, Zenon DEF Placed, Owned
<1>10. CallInv(lvl, pos)'
  BY <1>5, <1>6, <1>7, <1>8, <1>9, Zenon DEF CallInv, Owned, Placed
<1>11. c # NoCall
  BY <1>3, <1>5 DEF NoCall, Phys, None
<1> QED BY <1>2, <1>5, <1>6, <1>10, <1>11

\* Once the window is complete it stays so.
LEMMA WindowStays ==
  ASSUME WindowInv, pc \in KernelStages \cup ThreadStages, pc' # "regions",
         UNCHANGED <<mmap, asked>>
  PROVE  WindowInv'
<1>1. \A n \in DOMAIN mmap, a \in Nat : InRegion(n, a) => Windowed(a)
  BY DEF WindowInv
<1>2. \A n \in DOMAIN mmap', a \in Nat : InRegion(n, a)' => Windowed(a)'
  BY <1>1, Zenon DEF InRegion, Windowed
<1> QED BY <1>2, Zenon DEF WindowInv

\* The places of pages that are not of the window.
LEMMA PlacedIs ==
  ASSUME NEW root \in Roots, NEW v \in Virt, NEW q, VA_INDEX(v, 3) = q, q # Top,
         root = Kernel_PML4_TABLE <=> q # 1
  PROVE  Placed(root, v, 1)
BY DEF Placed, Sizes

\* The next large page of a region, which is one of its own.
LEMMA RegionsStep ==
  ASSUME NEW lvl \in LevelMaps, NEW pos \in Positions, Core(lvl, pos), mmap \in MemoryMaps,
         LowMemory, page_in_regions
  PROVE  Core(lvl, pos)' /\ mmap' \in MemoryMaps /\ RAM' = RAM
<1>1. /\ pc = "regions" /\ call = NoCall /\ addr < RegionEnd(i)
      /\ Calls(Kernel_PML4_TABLE, KERNEL_PHYS_TO_VIRT(addr), addr, HUGE_PS, WRITEABLE,
               "regions", "halt")
      /\ addr' = addr + HUGE_PS
      /\ UNCHANGED <<mmap, mem, used, cr3, thread_table, pc, i, pages, asked>>
  BY DEF page_in_regions, At, window_step
<1>2. /\ TablesInv(lvl) /\ StageInv(lvl) /\ WindowInv
  BY DEF Core
<1>3. /\ cr3 = None /\ thread_table = None /\ i \in 0..Len(mmap) /\ addr \in Nat
      /\ addr % HUGE_PS = 0 /\ (i > 0 => mmap[i][1] <= addr)
  BY <1>1, <1>2 DEF StageInv
<1>4. HUGE_PS \in Nat /\ HUGE_PS >= 5 /\ ENTRIES \in Nat /\ ENTRIES >= 5
  BY SizesAre, PagingAssumption
<1>5. i > 0 /\ i \in DOMAIN mmap /\ mmap[i][1] <= addr /\ addr < mmap[i][2]
  <2>1. i # 0
    BY <1>1, <1>3 DEF RegionEnd
  <2> QED BY <1>1, <1>3, <2>1, MemoryIs DEF RegionEnd
<1>6. addr \in 0..(2 * SUPER_PS - 1)
  <2>1. addr \in mmap[i][1]..(mmap[i][2] - 1)
    BY <1>3, <1>5, MemoryIs
  <2>2. addr \in RAM
    BY <1>5, <2>1 DEF RAM
  <2> QED BY <2>2 DEF LowMemory
<1>7. Placed(Kernel_PML4_TABLE, KERNEL_PHYS_TO_VIRT(addr), HUGE_PS)
  <2>1. /\ KERNEL_PHYS_TO_VIRT(addr) \in Virt
        /\ VA_INDEX(KERNEL_PHYS_TO_VIRT(addr), 3) = Top
        /\ KERNEL_PHYS_TO_VIRT(addr) % HUGE_PS = 0
    BY <1>3, <1>6, WindowIs
  <2>2. Kernel_PML4_TABLE \in Roots
    BY <1>2 DEF TablesInv, Roots, Phys, None
  <2>3. Top # 1 /\ HUGE_PS # 1 /\ HUGE_PS \in Sizes
    BY <1>4 DEF Top, Sizes
  <2> QED BY <2>1, <2>2, <2>3 DEF Placed
<1>8. /\ WRITEABLE \in PermRecords /\ ~WRITEABLE.user
      /\ "regions" \in Stages /\ "halt" \in Stages /\ HUGE_PS \in Sizes /\ HUGE_PS # 1
  BY <1>4 DEF WRITEABLE, Perms, PermRecords, Stages, Ended, Sizes
<1>9. /\ TablesInv(lvl)' /\ TreeInv(lvl, pos)' /\ RootsInv' /\ AskedInv(lvl, pos)'
      /\ CallInv(lvl, pos)' /\ mmap' \in MemoryMaps /\ RAM' = RAM
      /\ call' # NoCall /\ call'.frame = addr /\ call'.size = HUGE_PS
      /\ call'.virt = KERNEL_PHYS_TO_VIRT(addr)
      /\ call'.next = "regions" /\ call'.failed = "halt"
  BY <1>1, <1>3, <1>7, <1>8, StartsCall
<1>10. ReturnInv'
  BY <1>1, <1>6, <1>9 DEF ReturnInv
<1>11. StageInv(lvl)'
  <2>1. (addr + HUGE_PS) % HUGE_PS = 0
    BY <1>3, NextMultiple
  <2>2. /\ addr' \in Nat /\ addr' % HUGE_PS = 0 /\ mmap'[i'][1] <= addr'
        /\ cr3' = None /\ i' \in 0..Len(mmap') /\ thread_table' = None /\ pc' = "regions"
    BY <1>1, <1>3, <1>4, <1>5, <2>1, MemoryIs
  <2> QED BY <1>8, <2>2 DEF StageInv, KernelStages, ThreadStages, HeapStages
<1>12. WindowInv'
  <2>1. ASSUME NEW n \in 1..i, NEW a \in Nat, InRegion(n, a), n = i => a < addr + HUGE_PS
        PROVE  Windowed(a) \/ a = addr
    <3>1. CASE n = i => a < addr
      BY <1>1, <1>2, <2>1, <3>1 DEF WindowInv
    <3>2. CASE n = i /\ addr < a
      <4>1. a % HUGE_PS = 0
        BY <2>1 DEF InRegion
      <4>2. addr + HUGE_PS <= a
        BY <1>3, <3>2, <4>1, NextMultiple
      <4> QED BY <1>3, <1>4, <2>1, <3>2, <4>2
    <3> QED BY <1>3, <3>1, <3>2
  <2>2. \A n \in 1..i', a \in Nat :
          InRegion(n, a)' /\ (n = i' => a < addr') => Windowed(a)' \/ call'.frame = a
    BY <1>1, <1>9, <2>1, Zenon DEF InRegion, Windowed
  <2>3. pc' \notin KernelStages \cup ThreadStages
    BY <1>1 DEF KernelStages, ThreadStages, HeapStages
  <2> QED BY <1>9, <2>2, <2>3, Zenon DEF WindowInv
<1>13. NoFaultIfCovered'
  BY <1>1 DEF NoFaultIfCovered
<1> QED BY <1>9, <1>10, <1>11, <1>12, <1>13, Zenon DEF Core

\* The pages of the heap.
LEMMA HeapPageStep ==
  ASSUME NEW lvl \in LevelMaps, NEW pos \in Positions, Core(lvl, pos), mmap \in MemoryMaps,
         NEW n \in 0..(ENTRIES - 1), NEW frame \in Phys, Owned(lvl, frame), NEW next,
         pc \in HeapStages, call = NoCall, HeapPage(n, frame, next), i' \in 2..HeapPages,
         next = "heap_pages" \/ (pc = "heap_info" /\ next = "heap_allocator")
  PROVE  Core(lvl, pos)' /\ mmap' \in MemoryMaps /\ RAM' = RAM
<1>1. /\ Calls(cr3, KERNEL_HEAP_ADDR + n, frame, 1, WRITEABLE, next, "heap_null")
      /\ UNCHANGED <<mmap, mem, used, cr3, thread_table, pc, addr, pages, asked>>
  BY DEF HeapPage
<1>2. TablesInv(lvl) /\ StageInv(lvl) /\ WindowInv
  BY DEF Core
<1>3. /\ cr3 = Kernel_PML4_TABLE /\ thread_table = None
      /\ OwnedList(lvl, pages, HeapPages)
  BY <1>2 DEF StageInv, KernelStages
<1>4. ENTRIES \in Nat /\ ENTRIES >= 5 /\ frame \in Nat
  BY PagingAssumption DEF Phys
<1>5. Placed(cr3, KERNEL_HEAP_ADDR + n, 1)
  <2>1. /\ KERNEL_HEAP_ADDR + n \in Virt /\ VA_INDEX(KERNEL_HEAP_ADDR + n, 3) = ENTRIES - 2
    BY PlacesAre
  <2>2. Kernel_PML4_TABLE \in Roots
    BY <1>2 DEF TablesInv, Roots, Phys, None
  <2>3. PICK q : q = ENTRIES - 2 /\ q # Top /\ q # 1
    BY <1>4 DEF Top
  <2>4. PICK v \in Virt : v = KERNEL_HEAP_ADDR + n /\ VA_INDEX(v, 3) = q
    BY <2>1, <2>3
  <2>5. Placed(Kernel_PML4_TABLE, v, 1)
    BY <2>2, <2>3, <2>4, PlacedIs
  <2> QED BY <1>3, <2>4, <2>5
<1>6. /\ WRITEABLE \in PermRecords /\ ~WRITEABLE.user
      /\ next \in Stages /\ "heap_null" \in Stages /\ 1 \in Sizes
  BY DEF WRITEABLE, Perms, PermRecords, Stages, KernelStages, HeapStages, Sizes
<1>7. /\ TablesInv(lvl)' /\ TreeInv(lvl, pos)' /\ RootsInv' /\ AskedInv(lvl, pos)'
      /\ CallInv(lvl, pos)' /\ mmap' \in MemoryMaps /\ RAM' = RAM
      /\ call' # NoCall /\ call'.size = 1 /\ call'.next = next /\ call'.failed = "heap_null"
  BY <1>1, <1>3, <1>4, <1>5, <1>6, StartsCall
<1>8. ReturnInv'
  BY <1>1, <1>7 DEF ReturnInv
<1>9. StageInv(lvl)'
  <2>1. OwnedList(lvl, pages, HeapPages)' /\ (pc = "heap_first" => addr \in Phys /\ Owned(lvl, addr)')
    BY <1>1, <1>2, <1>3, Zenon DEF OwnedList, Owned, StageInv
  <2>2. cr3' = Kernel_PML4_TABLE /\ thread_table' = None /\ pc' \in HeapStages /\ pc' = pc /\ addr' = addr
    BY <1>1, <1>3
  <2> QED BY <2>1, <2>2 DEF StageInv, Stages, KernelStages, ThreadStages, HeapStages, Owned
<1>10. WindowInv'
  <2>1. pc \in KernelStages \cup ThreadStages /\ pc' # "regions"
    BY <1>1 DEF KernelStages, HeapStages
  <2> QED BY <1>1, <1>2, <2>1, WindowStays
<1>11. NoFaultIfCovered'
  <2>1. pc' # "fault"
    BY <1>1 DEF HeapStages
  <2> QED BY <2>1, Zenon DEF NoFaultIfCovered
<1> QED BY <1>7, <1>8, <1>9, <1>10, <1>11, Zenon DEF Core

LEMMA HeapSteps ==
  ASSUME NEW lvl \in LevelMaps, NEW pos \in Positions, Core(lvl, pos), mmap \in MemoryMaps,
         heap_info \/ heap_first \/ heap_pages
  PROVE  Core(lvl, pos)' /\ mmap' \in MemoryMaps /\ RAM' = RAM
<1>1. StageInv(lvl)
  BY DEF Core
<1>2. HeapPages \in 2..ENTRIES /\ ENTRIES \in Nat /\ ENTRIES >= 5
  BY PagingAssumption
<1>3. pc \in HeapStages /\ call = NoCall
  BY DEF heap_info, heap_first, heap_pages, At, HeapStages
<1>4. i \in 2..HeapPages /\ \A k \in 1..HeapPages : pages[k] \in Phys /\ Owned(lvl, pages[k])
  BY <1>1, <1>3 DEF StageInv, OwnedList
<1>5. CASE heap_info
  <2>1. 1 \in 0..(ENTRIES - 1) /\ 1 \in 1..HeapPages
    BY <1>2
  <2>2. pc = "heap_info" /\ HeapPage(1, pages[1], "heap_allocator") /\ i' = i
    BY <1>5 DEF heap_info, At
  <2> QED BY <1>3, <1>4, <2>1, <2>2, HeapPageStep
<1>6. CASE heap_first
  <2>1. pc = "heap_first" /\ HeapPage(0, addr, "heap_pages") /\ i' = i /\ 0 \in 0..(ENTRIES - 1)
    BY <1>2, <1>6 DEF heap_first, At
  <2>2. addr \in Phys /\ Owned(lvl, addr)
    BY <1>1, <2>1 DEF StageInv
  <2> QED BY <1>3, <1>4, <2>1, <2>2, HeapPageStep
<1>7. CASE heap_pages
  <2>1. HeapPage(i, pages[i], "heap_pages") /\ i' = i + 1 /\ i < HeapPages
    BY <1>7 DEF heap_pages
  <2>2. i \in 0..(ENTRIES - 1) /\ i \in 1..HeapPages /\ i' \in 2..HeapPages
    BY <1>2, <1>4, <2>1
  <2> QED BY <1>3, <1>4, <2>1, <2>2, HeapPageStep
<1> QED BY <1>5, <1>6, <1>7

\* The registers of a device, and the text screen: not memory.
LEMMA DevicesStep ==
  ASSUME NEW lvl \in LevelMaps, NEW pos \in Positions, Core(lvl, pos), mmap \in MemoryMaps,
         map_mmio \/ kmain_video
  PROVE  Core(lvl, pos)' /\ mmap' \in MemoryMaps /\ RAM' = RAM
<1>1. /\ pc = "devices" /\ call = NoCall
      /\ UNCHANGED <<mmap, mem, used, cr3, thread_table, pc, i, addr, asked>>
  BY DEF map_mmio, kmain_video, At
<1>2. TablesInv(lvl) /\ StageInv(lvl) /\ WindowInv
  BY DEF Core
<1>3. /\ cr3 = Kernel_PML4_TABLE /\ thread_table = None
      /\ pages \in Seq(0..(PML4_PS - 1)) /\ \A n \in DOMAIN pages : pages[n] \notin RAM
  BY <1>1, <1>2 DEF StageInv, KernelStages
<1>4. ENTRIES \in Nat /\ ENTRIES >= 5
  BY PagingAssumption
<1>5. PICK v \in Virt, frame \in 0..(PML4_PS - 1), perms \in PermRecords,
           next \in {"devices", "thread"}, q \in {0, ENTRIES - 3} :
        /\ Calls(cr3, v, frame, 1, perms, next, next) /\ VA_INDEX(v, 3) = q
        /\ frame \notin RAM /\ (perms.user => v = VideoFrame)
        /\ pages' \in Seq(0..(PML4_PS - 1)) /\ \A n \in DOMAIN pages' : pages'[n] \notin RAM
  <2>1. CASE map_mmio
    <3>1. /\ pages # <<>> /\ pages' = Tail(pages)
          /\ Calls(cr3, MMIO_PHYS_TO_VIRT(Head(pages)), Head(pages), 1, DEVICE,
                   "devices", "devices")
      BY <2>1 DEF map_mmio
    <3>2. /\ Head(pages) \in 0..(PML4_PS - 1) /\ Head(pages) \notin RAM
          /\ pages' \in Seq(0..(PML4_PS - 1)) /\ \A n \in DOMAIN pages' : pages'[n] \notin RAM
      <4>1. Len(pages) \in Nat /\ DOMAIN pages = 1..Len(pages) /\ 1 \in DOMAIN pages
        BY <1>3, <3>1
      <4>2. Head(pages) = pages[1]
        BY <1>3, <3>1
      <4>3. pages' \in Seq(0..(PML4_PS - 1))
        BY <1>3, <3>1
      <4>4. \A n \in DOMAIN pages' : pages'[n] = pages[n + 1] /\ n + 1 \in DOMAIN pages
        BY <1>3, <3>1
      <4>5. pages[1] \in 0..(PML4_PS - 1) /\ pages[1] \notin RAM
        <5>1. pages[1] \notin RAM
          BY <1>3, <4>1, Zenon
        <5>2. PICK D : D = 0..(PML4_PS - 1)
          BY Zenon
        <5>3. pages \in Seq(D)
          BY <1>3, <5>2
        <5>4. pages[1] \in D
          BY <4>1, <5>3
        <5> QED BY <5>1, <5>2, <5>4
      <4>6. \A n \in DOMAIN pages' : pages'[n] \notin RAM
        BY <1>3, <4>4, Zenon
      <4> QED BY <4>2, <4>3, <4>5, <4>6
    <3>3. PICK frame \in 0..(PML4_PS - 1) : frame = Head(pages)
      BY <3>2
    <3>4. /\ MMIO_PHYS_TO_VIRT(frame) \in Virt
          /\ VA_INDEX(MMIO_PHYS_TO_VIRT(frame), 3) = ENTRIES - 3
      BY PlacesAre
    <3>5. DEVICE \in PermRecords /\ ~DEVICE.user
      BY DEF DEVICE, Perms, PermRecords
    <3> QED BY <3>1, <3>2, <3>3, <3>4, <3>5
  <2>2. CASE kmain_video
    <3>1. Calls(cr3, VideoFrame, VideoFrame, 1, USER, "thread", "thread") /\ pages' = pages
      BY <2>2 DEF kmain_video
    <3>2. VideoFrame \in 0..(PML4_PS - 1) /\ VideoFrame \notin RAM
      BY DeviceAssumption, MemoryIs
    <3>3. VideoFrame \in Virt /\ VA_INDEX(VideoFrame, 3) = 0
      BY <3>2, PlacesAre
    <3>4. USER \in PermRecords
      BY DEF USER, Perms, PermRecords
    <3> QED BY <1>3, <3>1, <3>2, <3>3, <3>4
  <2> QED BY <2>1, <2>2
<1>6. Placed(Kernel_PML4_TABLE, v, 1)
  <2>1. Kernel_PML4_TABLE \in Roots
    BY <1>2 DEF TablesInv, Roots, Phys, None
  <2>2. q # Top /\ q # 1
    BY <1>4 DEF Top
  <2> QED BY <1>5, <2>1, <2>2, PlacedIs
<1>7. next \in Stages /\ 1 \in Sizes /\ frame \in Nat
  BY DEF Stages, KernelStages, Sizes
<1>8. /\ TablesInv(lvl)' /\ TreeInv(lvl, pos)' /\ RootsInv' /\ AskedInv(lvl, pos)'
      /\ CallInv(lvl, pos)' /\ mmap' \in MemoryMaps /\ RAM' = RAM
      /\ call' # NoCall /\ call'.size = 1 /\ call'.next = next /\ call'.failed = next
  BY <1>1, <1>3, <1>5, <1>6, <1>7, StartsCall
<1>9. ReturnInv'
  BY <1>1, <1>8 DEF ReturnInv
<1>10. StageInv(lvl)'
  BY <1>1, <1>2, <1>3, <1>5, <1>8
     DEF StageInv, Stages, KernelStages, ThreadStages, HeapStages, Ended
<1>11. WindowInv'
  <2>1. pc \in KernelStages \cup ThreadStages /\ pc' # "regions"
    BY <1>1 DEF KernelStages
  <2> QED BY <1>1, <1>2, <2>1, WindowStays
<1>12. NoFaultIfCovered'
  BY <1>1 DEF NoFaultIfCovered
<1> QED BY <1>8, <1>9, <1>10, <1>11, <1>12, Zenon DEF Core

\* A page of the thread's code.
LEMMA SupplyStep ==
  ASSUME NEW lvl \in LevelMaps, NEW pos \in Positions, Core(lvl, pos), mmap \in MemoryMaps,
         thread_supply_mem_region
  PROVE  Core(lvl, pos)' /\ mmap' \in MemoryMaps /\ RAM' = RAM
<1>1. /\ pc = "supply" /\ call = NoCall /\ i < ThreadPages
      /\ Calls(thread_table, THREAD_CODE_VIRT_ADDR + i, pages[i + 1], 1, code_perms,
               "supply", "done")
      /\ i' = i + 1
      /\ UNCHANGED <<mmap, mem, used, cr3, thread_table, pc, addr, pages, asked>>
  BY DEF thread_supply_mem_region, At
<1>2. TablesInv(lvl) /\ StageInv(lvl) /\ WindowInv
  BY DEF Core
<1>3. /\ cr3 = Kernel_PML4_TABLE /\ thread_table # None
      /\ OwnedList(lvl, pages, ThreadPages) /\ i \in 0..ThreadPages
  BY <1>1, <1>2 DEF StageInv, ThreadStages
<1>4. ENTRIES \in Nat /\ ENTRIES >= 5 /\ ThreadPages \in 1..PML4_PS /\ PML4_PS \in Nat
  BY PagingAssumption, SizesAre
<1>5. PICK frame \in Phys : frame = pages[i + 1] /\ Owned(lvl, frame)
  <2>1. i + 1 \in 1..ThreadPages
    BY <1>1, <1>3, <1>4
  <2> QED BY <1>3, <2>1 DEF OwnedList
<1>6. PICK v \in Virt : v = THREAD_CODE_VIRT_ADDR + i /\ VA_INDEX(v, 3) = 1
  <2>1. i \in 0..(PML4_PS - 1)
    BY <1>1, <1>3, <1>4
  <2> QED BY <2>1, PlacesAre
<1>7. Placed(thread_table, v, 1)
  <2>1. thread_table \in Roots /\ thread_table # Kernel_PML4_TABLE
    BY <1>2, <1>3 DEF TablesInv, Roots
  <2>2. 1 # Top
    BY <1>4 DEF Top
  <2> QED BY <1>6, <2>1, <2>2, PlacedIs
<1>8. PICK perms \in PermRecords : perms = code_perms
  <2>1. PICK w \in BOOLEAN : w = ((ThreadPages \div 2) % 2 = 1)
    OBVIOUS
  <2>2. code_perms = Perms(TRUE, w, FALSE)
    BY <2>1, Zenon DEF code_perms
  <2>3. Perms(TRUE, w, FALSE) \in PermRecords
    BY DEF Perms, PermRecords
  <2> QED BY <2>2, <2>3
<1>9. "supply" \in Stages /\ "done" \in Stages /\ 1 \in Sizes /\ frame \in Nat
  BY MemoryIs DEF Stages, ThreadStages, Ended, Sizes
<1>10. Calls(thread_table, v, frame, 1, perms, "supply", "done")
  BY <1>1, <1>5, <1>6, <1>8, Zenon
<1>11. /\ TablesInv(lvl)' /\ TreeInv(lvl, pos)' /\ RootsInv' /\ AskedInv(lvl, pos)'
       /\ CallInv(lvl, pos)' /\ mmap' \in MemoryMaps /\ RAM' = RAM
       /\ call' # NoCall /\ call'.size = 1 /\ call'.next = "supply" /\ call'.failed = "done"
  BY <1>1, <1>5, <1>7, <1>9, <1>10, StartsCall
<1>12. ReturnInv'
  BY <1>1, <1>11 DEF ReturnInv
<1>13. StageInv(lvl)'
  <2>1. OwnedList(lvl, pages, ThreadPages)'
    BY <1>1, <1>3, Zenon DEF OwnedList, Owned
  <2>2. /\ pc' = "supply" /\ i' \in 0..ThreadPages /\ cr3' = Kernel_PML4_TABLE
        /\ thread_table' # None
    BY <1>1, <1>3, <1>4
  <2> QED BY <2>1, <2>2 DEF StageInv, Stages, KernelStages, ThreadStages, HeapStages, Ended
<1>14. WindowInv'
  <2>1. pc \in KernelStages \cup ThreadStages /\ pc' # "regions"
    BY <1>1 DEF ThreadStages
  <2> QED BY <1>1, <1>2, <2>1, WindowStays
<1>15. NoFaultIfCovered'
  BY <1>1 DEF NoFaultIfCovered
<1> QED BY <1>11, <1>12, <1>13, <1>14, <1>15, Zenon DEF Core

-----------------------------------------------------------------------------
(* The other steps of kmain                                                *)

\* Free frames are no tables.
LEMMA FreeFrames ==
  ASSUME NEW lvl, NEW pos, Core(lvl, pos), mmap \in MemoryMaps, NEW f \in Free
  PROVE  f \in Phys /\ f \in RAM /\ f \notin used /\ lvl[f] = None
<1>1. f \in RAM /\ f \notin used /\ f \in Phys
  BY MemoryIs DEF Free
<1> QED BY <1>1 DEF Core, TablesInv

\* On the maps that the window covers, only a lack of frames makes an
\* allocation fault.
LEMMA TakesOrFaults ==
  ASSUME NEW lvl \in LevelMaps, NEW pos \in Positions, Core(lvl, pos), mmap \in MemoryMaps,
         LowMemory, pc \notin Ended, NEW n \in Nat \ {0}, NEW next, NEW failed,
         TakesFrames(n, next, failed)
  PROVE  \/ pc' = "fault" /\ UNCHANGED <<used, pages>> /\ (Covered => Free = {})
         \/ pc' = failed /\ pages' = pages /\ used' = used \cup Free
         \/ /\ pc' = next /\ used' = used \cup {pages'[k] : k \in 1..n}
            /\ \A k \in 1..n : pages'[k] \in Free
<1>1. /\ TablesInv(lvl) /\ AskedInv(lvl, pos) /\ StageInv(lvl) /\ WindowInv
  BY DEF Core
<1>2. ASSUME Covered, Free # {} PROVE NextIsReachable
  <2>1. LowestOf(Free) \in RAM \cup KernelFrames
    BY <1>2, FreeIs
  <2>2. Reachable(LowestOf(Free))
    BY <1>1, <1>2, <2>1, ReachableIs
  <2> QED BY <1>2, <2>2 DEF NextIsReachable
<1> QED BY <1>2, TakesFramesIs

\* What a step has to say that leaves the tables alone.
LEMMA QuietCore ==
  ASSUME NEW lvl \in LevelMaps, NEW pos \in Positions, Core(lvl, pos), mmap \in MemoryMaps,
         call = NoCall, UNCHANGED <<mmap, mem, thread_table, asked, call>>,
         used \subseteq used', used' \subseteq Phys,
         StageInv(lvl)', WindowInv', NoFaultIfCovered'
  PROVE  Core(lvl, pos)' /\ mmap' \in MemoryMaps /\ RAM' = RAM
<1>1. TablesInv(lvl) /\ TreeInv(lvl, pos) /\ RootsInv /\ AskedInv(lvl, pos)
  BY DEF Core
<1>2. /\ TablesInv(lvl)' /\ TreeInv(lvl, pos)' /\ RootsInv' /\ AskedInv(lvl, pos)'
      /\ mmap' \in MemoryMaps /\ RAM' = RAM
  BY <1>1, QuietStep
<1>3. CallInv(lvl, pos)' /\ ReturnInv'
  BY DEF CallInv, ReturnInv
<1> QED BY <1>2, <1>3, Zenon DEF Core

\* A fault, on a map that is not covered or for want of frames.
LEMMA FaultCore ==
  ASSUME NEW lvl \in LevelMaps, NEW pos \in Positions, Core(lvl, pos), mmap \in MemoryMaps,
         call = NoCall, UNCHANGED <<mmap, mem, thread_table, asked, call>>,
         used \subseteq used', used' \subseteq Phys,
         pc' = "fault", Covered => RAM \ used' = {}
  PROVE  Core(lvl, pos)' /\ mmap' \in MemoryMaps /\ RAM' = RAM
<1>1. StageInv(lvl)' /\ WindowInv'
  BY DEF StageInv, WindowInv, Stages, Ended, KernelStages, HeapStages, ThreadStages
<1>2. NoFaultIfCovered'
  BY Zenon DEF NoFaultIfCovered, Covered, InWindow, Free, RAM
<1> QED BY <1>1, <1>2, QuietCore

\* The same if no frame is taken.
LEMMA QuietFault ==
  ASSUME NEW lvl \in LevelMaps, NEW pos \in Positions, Core(lvl, pos), mmap \in MemoryMaps,
         call = NoCall, UNCHANGED <<mmap, mem, used, thread_table, asked, call>>,
         pc' = "fault", Covered => Free = {}
  PROVE  Core(lvl, pos)' /\ mmap' \in MemoryMaps /\ RAM' = RAM
<1>1. used \subseteq used' /\ used' \subseteq Phys
  BY DEF Core, TablesInv
<1>2. Covered => RAM \ used' = {}
  BY DEF Free
<1> QED BY <1>1, <1>2, FaultCore

\* The loop goes on to the next region: those before it are in the window.
LEMMA NextRegionStep ==
  ASSUME NEW lvl \in LevelMaps, NEW pos \in Positions, Core(lvl, pos), mmap \in MemoryMaps,
         page_in_next_region
  PROVE  Core(lvl, pos)' /\ mmap' \in MemoryMaps /\ RAM' = RAM
<1>1. /\ pc = "regions" /\ call = NoCall /\ addr >= RegionEnd(i) /\ i < Len(mmap)
      /\ i' = i + 1 /\ addr' = ALIGN_UP(mmap[i + 1][1], HUGE_PS)
      /\ UNCHANGED <<call, mmap, mem, used, cr3, thread_table, pc, pages, asked>>
  BY DEF page_in_next_region, At
<1>2. TablesInv(lvl) /\ StageInv(lvl) /\ WindowInv
  BY DEF Core
<1>3. /\ cr3 = None /\ thread_table = None /\ i \in 0..Len(mmap) /\ addr \in Nat
      /\ Len(mmap) \in Nat /\ DOMAIN mmap = 1..Len(mmap)
  BY <1>1, <1>2, MemoryIs DEF StageInv
<1>4. i + 1 \in DOMAIN mmap /\ i + 1 \in 0..Len(mmap) /\ i + 1 > 0
  BY <1>1, <1>3
<1>5. mmap[i + 1][1] \in Nat
  BY <1>4, MemoryIs
<1>6. /\ addr' \in Nat /\ addr' % HUGE_PS = 0 /\ mmap[i + 1][1] <= addr'
  BY <1>1, <1>5, AlignUpIs
<1>7. StageInv(lvl)'
  <2>1. /\ pc' = "regions" /\ cr3' = None /\ i' \in 0..Len(mmap') /\ mmap'[i'][1] <= addr'
        /\ thread_table' = None
    BY <1>1, <1>3, <1>4, <1>6
  <2> QED BY <1>6, <2>1 DEF StageInv, Stages, KernelStages, ThreadStages, HeapStages
<1>8. WindowInv'
  <2>1. ASSUME NEW n \in 1..(i + 1), NEW a \in Nat, InRegion(n, a), n = i + 1 => a < addr'
        PROVE  Windowed(a)
    <3>1. CASE n = i + 1
      <4>1. addr' <= a
        BY <1>1, <2>1, <3>1 DEF InRegion
      <4> QED BY <1>6, <2>1, <3>1, <4>1
    <3>2. CASE n # i + 1
      <4>1. n \in 1..i /\ n \in DOMAIN mmap /\ i # 0
        BY <1>3, <3>2
      <4>2. n = i => a < addr
        <5>1. SUFFICES ASSUME n = i PROVE a < addr
          OBVIOUS
        <5>2. RegionEnd(i) = mmap[n][2] /\ a < mmap[n][2] /\ mmap[n][2] \in Nat
          BY <2>1, <4>1, <5>1, MemoryIs DEF InRegion, RegionEnd
        <5> QED BY <1>1, <1>3, <5>2
      <4> QED BY <1>1, <1>2, <2>1, <4>1, <4>2 DEF WindowInv
    <3> QED BY <3>1, <3>2
  <2>2. \A n \in 1..i', a \in Nat : InRegion(n, a)' /\ (n = i' => a < addr') => Windowed(a)'
    BY <1>1, <2>1, Zenon DEF InRegion, Windowed
  <2>3. pc' \notin KernelStages \cup ThreadStages
    BY <1>1 DEF KernelStages, ThreadStages, HeapStages
  <2> QED BY <2>2, <2>3, Zenon DEF WindowInv
<1>9. NoFaultIfCovered' /\ used \subseteq used' /\ used' \subseteq Phys
  BY <1>1, <1>2 DEF NoFaultIfCovered, TablesInv
<1> QED BY <1>1, <1>7, <1>8, <1>9, QuietCore

\* The kernel goes on if it is in the window.
LEMMA WriteCr3Step ==
  ASSUME NEW lvl \in LevelMaps, NEW pos \in Positions, Core(lvl, pos), mmap \in MemoryMaps,
         LowMemory, write_cr3
  PROVE  Core(lvl, pos)' /\ mmap' \in MemoryMaps /\ RAM' = RAM
<1>1. /\ pc = "regions" /\ call = NoCall /\ addr >= RegionEnd(i) /\ i = Len(mmap)
      /\ cr3' = Kernel_PML4_TABLE
      /\ \/ pc' = "alloc_init"
         \/ /\ pc' = "fault"
            /\ \E f \in KernelFrames :
                 Translate(mem, Kernel_PML4_TABLE, KERNEL_PHYS_TO_VIRT(f)) # f
      /\ UNCHANGED <<call, mmap, mem, used, thread_table, i, addr, pages, asked>>
  BY DEF write_cr3, At
<1>2. TablesInv(lvl) /\ AskedInv(lvl, pos) /\ StageInv(lvl) /\ WindowInv
  BY DEF Core
<1>3. /\ thread_table = None /\ addr \in Nat /\ Len(mmap) \in Nat /\ DOMAIN mmap = 1..Len(mmap)
  BY <1>1, <1>2, MemoryIs DEF StageInv
<1>4. \A n \in DOMAIN mmap, a \in Nat : InRegion(n, a) => Windowed(a)
  <2> SUFFICES ASSUME NEW n \in DOMAIN mmap, NEW a \in Nat, InRegion(n, a) PROVE Windowed(a)
    OBVIOUS
  <2>1. n \in 1..i /\ i # 0
    BY <1>1, <1>3
  <2>2. n = i => a < addr
    <3>1. SUFFICES ASSUME n = i PROVE a < addr
      OBVIOUS
    <3>2. RegionEnd(i) = mmap[n][2] /\ a < mmap[n][2] /\ mmap[n][2] \in Nat
      BY <2>1, <3>1, MemoryIs DEF InRegion, RegionEnd
    <3> QED BY <1>1, <1>3, <3>2
  <2> QED BY <1>1, <1>2, <2>1, <2>2 DEF WindowInv
<1>5. CASE pc' = "alloc_init"
  <2>1. StageInv(lvl)'
    BY <1>1, <1>3, <1>5 DEF StageInv, Stages, KernelStages, ThreadStages, HeapStages, Ended
  <2>2. WindowInv'
    <3>1. \A n \in DOMAIN mmap', a \in Nat : InRegion(n, a)' => Windowed(a)'
      BY <1>1, <1>4, Zenon DEF InRegion, Windowed
    <3>2. pc' # "regions"
      BY <1>5
    <3> QED BY <3>1, <3>2, Zenon DEF WindowInv
  <2>3. NoFaultIfCovered' /\ used \subseteq used' /\ used' \subseteq Phys
    BY <1>1, <1>2, <1>5 DEF NoFaultIfCovered, TablesInv
  <2> QED BY <1>1, <2>1, <2>2, <2>3, QuietCore
<1>6. CASE pc' = "fault"
  <2>1. PICK f \in KernelFrames :
          Translate(mem, Kernel_PML4_TABLE, KERNEL_PHYS_TO_VIRT(f)) # f
    BY <1>1, <1>6
  <2>2. f \in Nat
    BY MemoryIs
  <2>3. ~InWindow(f)
    BY <1>2, <1>4, <2>1, <2>2, InWindowIs
  <2>4. ~Covered
    BY <2>3 DEF Covered
  <2> QED BY <1>1, <1>6, <2>4, QuietFault
<1> QED BY <1>1, <1>5, <1>6

\* A list of frames that were free is a list of frames that are taken.
LEMMA TakenList ==
  ASSUME NEW lvl, NEW pos, Core(lvl, pos), mmap \in MemoryMaps, NEW n \in Nat,
         used' = used \cup {pages'[k] : k \in 1..n}, \A k \in 1..n : pages'[k] \in Free
  PROVE  OwnedList(lvl, pages, n)' /\ used \subseteq used' /\ used' \subseteq Phys
<1>1. ASSUME NEW k \in 1..n PROVE pages'[k] \in Phys /\ pages'[k] \in used' /\ lvl[pages'[k]] = None
  <2>1. PICK f \in Free : f = pages'[k]
    OBVIOUS
  <2>2. f \in Phys /\ lvl[f] = None
    BY FreeFrames
  <2> QED BY <2>1, <2>2
<1>2. \A k \in (1..n)' : pages'[k] \in Phys /\ pages'[k] \in used' /\ lvl[pages'[k]] = None
  BY <1>1
<1>3. used \subseteq used' /\ used' \subseteq Phys
  BY <1>1 DEF Core, TablesInv
<1> QED BY <1>1, <1>3, Zenon DEF OwnedList, Owned

\* The frames of the heap, and those of the thread's code.
LEMMA ListStep ==
  ASSUME NEW lvl \in LevelMaps, NEW pos \in Positions, Core(lvl, pos), mmap \in MemoryMaps,
         LowMemory, alloc_init \/ thread_supply_new_mem
  PROVE  Core(lvl, pos)' /\ mmap' \in MemoryMaps /\ RAM' = RAM
<1>1. /\ call = NoCall /\ UNCHANGED <<call, mmap, mem, cr3, thread_table, addr, asked>>
      /\ \/ pc = "alloc_init" /\ TakesFrames(HeapPages, "heap_info", "fault") /\ i' = 2
         \/ pc = "code" /\ TakesFrames(ThreadPages, "supply", "done") /\ i' = 0
  BY DEF alloc_init, thread_supply_new_mem, At
<1>2. TablesInv(lvl) /\ StageInv(lvl) /\ WindowInv
  BY DEF Core
<1>3. HeapPages \in Nat \ {0} /\ ThreadPages \in Nat \ {0} /\ 2 \in 2..HeapPages
      /\ 0 \in 0..ThreadPages
  BY PagingAssumption, SizesAre
<1>4. PICK n \in {HeapPages, ThreadPages}, next \in {"heap_info", "supply"},
           failed \in {"fault", "done"} :
        /\ TakesFrames(n, next, failed) /\ n \in Nat \ {0} /\ pc \notin Ended
        /\ \/ pc = "alloc_init" /\ n = HeapPages /\ next = "heap_info" /\ i' = 2
           \/ pc = "code" /\ n = ThreadPages /\ next = "supply" /\ i' = 0
  BY <1>1, <1>3 DEF Ended
<1>5. \/ pc' = "fault" /\ UNCHANGED <<used, pages>> /\ (Covered => Free = {})
      \/ pc' = failed /\ pages' = pages /\ used' = used \cup Free
      \/ /\ pc' = next /\ used' = used \cup {pages'[k] : k \in 1..n}
         /\ \A k \in 1..n : pages'[k] \in Free
  BY <1>4, TakesOrFaults
<1>6. CASE pc' = "fault" /\ UNCHANGED <<used, pages>> /\ (Covered => Free = {})
  BY <1>1, <1>6, QuietFault
<1>7. CASE pc' = failed /\ pages' = pages /\ used' = used \cup Free
  <2>1. used \subseteq used' /\ used' \subseteq Phys
    BY <1>2, <1>7, FreeIs, MemoryIs DEF TablesInv
  <2>2. RAM \ used' = {}
    BY <1>7 DEF Free
  <2>3. CASE pc' = "fault"
    BY <1>1, <2>1, <2>2, <2>3, FaultCore
  <2>4. CASE pc' = "done"
    <3>1. StageInv(lvl)' /\ WindowInv'
      BY <2>4 DEF StageInv, WindowInv, Stages, Ended, KernelStages, HeapStages, ThreadStages
    <3>2. NoFaultIfCovered'
      BY <2>4 DEF NoFaultIfCovered
    <3> QED BY <1>1, <2>1, <3>1, <3>2, QuietCore
  <2> QED BY <1>7, <2>3, <2>4
<1>8. CASE /\ pc' = next /\ used' = used \cup {pages'[k] : k \in 1..n}
           /\ \A k \in 1..n : pages'[k] \in Free
  <2>1. n \in Nat
    BY <1>4
  <2>2. OwnedList(lvl, pages, n)' /\ used \subseteq used' /\ used' \subseteq Phys
    BY <1>8, <2>1, TakenList
  <2>3. StageInv(lvl)'
    <3>1. CASE pc = "alloc_init"
      <4>1. /\ cr3' = Kernel_PML4_TABLE /\ thread_table' = None /\ pc' = "heap_info"
            /\ i' \in 2..HeapPages /\ n = HeapPages
        BY <1>1, <1>2, <1>3, <1>4, <1>8, <3>1 DEF StageInv, KernelStages
      <4>2. OwnedList(lvl, pages, HeapPages)'
        BY <2>2, <4>1, Zenon DEF OwnedList
      <4> QED BY <4>1, <4>2
           DEF StageInv, Stages, KernelStages, ThreadStages, HeapStages, Ended
    <3>2. CASE pc = "code"
      <4>1. /\ cr3' = Kernel_PML4_TABLE /\ thread_table' # None /\ pc' = "supply"
            /\ i' \in 0..ThreadPages /\ n = ThreadPages
        BY <1>1, <1>2, <1>3, <1>4, <1>8, <3>2 DEF StageInv, ThreadStages
      <4>2. OwnedList(lvl, pages, ThreadPages)'
        BY <2>2, <4>1, Zenon DEF OwnedList
      <4> QED BY <4>1, <4>2
           DEF StageInv, Stages, KernelStages, ThreadStages, HeapStages, Ended
    <3> QED BY <1>1, <3>1, <3>2
  <2>4. WindowInv'
    <3>1. pc \in KernelStages \cup ThreadStages /\ pc' # "regions"
      BY <1>4, <1>8 DEF KernelStages, ThreadStages
    <3> QED BY <1>1, <1>2, <3>1, WindowStays
  <2>5. NoFaultIfCovered'
    BY <1>4, <1>8 DEF NoFaultIfCovered
  <2> QED BY <1>1, <2>2, <2>3, <2>4, <2>5, QuietCore
<1> QED BY <1>5, <1>6, <1>7, <1>8

\* The frame for the first page of the heap.
LEMMA AllocatorStep ==
  ASSUME NEW lvl \in LevelMaps, NEW pos \in Positions, Core(lvl, pos), mmap \in MemoryMaps,
         LowMemory, heap_allocator
  PROVE  Core(lvl, pos)' /\ mmap' \in MemoryMaps /\ RAM' = RAM
<1>1. /\ pc = "heap_allocator" /\ call = NoCall
      /\ UNCHANGED <<call, mmap, mem, cr3, thread_table, i, pages, asked>>
      /\ \/ /\ pc' = "fault" /\ UNCHANGED <<used, addr>>
            /\ ~NextIsReachable
         \/ /\ Free # {} /\ addr' = LowestOf(Free) /\ used' = used \cup {addr'}
            /\ pc' = "heap_first"
  BY DEF heap_allocator, At, NextIsReachable
<1>2. TablesInv(lvl) /\ AskedInv(lvl, pos) /\ StageInv(lvl) /\ WindowInv
  BY DEF Core
<1>3. /\ cr3 = Kernel_PML4_TABLE /\ thread_table = None
      /\ OwnedList(lvl, pages, HeapPages) /\ i \in 2..HeapPages
  BY <1>1, <1>2 DEF StageInv, KernelStages, HeapStages
<1>4. CASE pc' = "fault"
  <2>1. ~NextIsReachable /\ UNCHANGED used
    BY <1>1, <1>4
  <2>2. Covered => Free = {}
    <3>1. SUFFICES ASSUME Free # {}, Covered PROVE FALSE
      OBVIOUS
    <3>2. LowestOf(Free) \in RAM \cup KernelFrames
      BY <3>1, FreeIs
    <3>3. Reachable(LowestOf(Free))
      <4>1. pc \notin Ended
        BY <1>1 DEF Ended
      <4> QED BY <1>2, <3>1, <3>2, <4>1, ReachableIs
    <3> QED BY <2>1, <3>1, <3>3 DEF NextIsReachable
  <2> QED BY <1>1, <1>4, <2>1, <2>2, QuietFault
<1>5. CASE pc' # "fault"
  <2>1. /\ Free # {} /\ addr' = LowestOf(Free) /\ used' = used \cup {addr'}
        /\ pc' = "heap_first"
    BY <1>1, <1>5
  <2>2. addr' \in Phys /\ lvl[addr'] = None
    BY <2>1, FreeIs, FreeFrames
  <2>3. used \subseteq used' /\ used' \subseteq Phys /\ addr' \in used'
    BY <1>2, <2>1, <2>2 DEF TablesInv
  <2>4. StageInv(lvl)'
    <3>1. OwnedList(lvl, pages, HeapPages)'
      <4>1. \A k \in 1..HeapPages : pages[k] \in Phys /\ pages[k] \in used' /\ lvl[pages[k]] = None
        BY <1>3, <2>3 DEF OwnedList, Owned
      <4> QED BY <1>1, <4>1, Zenon DEF OwnedList, Owned
    <3>2. addr' \in Phys /\ Owned(lvl, addr)'
      BY <2>2, <2>3, Zenon DEF Owned
    <3>3. cr3' = Kernel_PML4_TABLE /\ thread_table' = None /\ i' \in 2..HeapPages
      BY <1>1, <1>3
    <3> QED BY <2>1, <3>1, <3>2, <3>3
         DEF StageInv, Stages, KernelStages, ThreadStages, HeapStages, Ended
  <2>5. WindowInv'
    <3>1. pc \in KernelStages \cup ThreadStages /\ pc' # "regions"
      BY <1>1, <2>1 DEF KernelStages, HeapStages
    <3> QED BY <1>1, <1>2, <3>1, WindowStays
  <2>6. NoFaultIfCovered'
    BY <1>5 DEF NoFaultIfCovered
  <2> QED BY <1>1, <2>3, <2>4, <2>5, <2>6, QuietCore
<1> QED BY <1>4, <1>5

\* The first allocation without a heap.
LEMMA HeapNullStep ==
  ASSUME NEW lvl \in LevelMaps, NEW pos \in Positions, Core(lvl, pos), mmap \in MemoryMaps,
         heap_null
  PROVE  Core(lvl, pos)' /\ mmap' \in MemoryMaps /\ RAM' = RAM
<1>1. /\ pc = "heap_null" /\ call = NoCall /\ pc' = "fault"
      /\ UNCHANGED <<call, mmap, mem, used, cr3, thread_table, i, addr, pages, asked>>
  BY DEF heap_null, At
<1>2. Free = {}
  BY <1>1 DEF Core, StageInv
<1> QED BY <1>1, <1>2, QuietFault

\* The devices the tables of the firmware list.
LEMMA AcpiStep ==
  ASSUME NEW lvl \in LevelMaps, NEW pos \in Positions, Core(lvl, pos), mmap \in MemoryMaps,
         handle_ACPI
  PROVE  Core(lvl, pos)' /\ mmap' \in MemoryMaps /\ RAM' = RAM
<1>1. /\ pc = "heap_pages" /\ call = NoCall /\ pages' \in DeviceLists /\ pc' = "devices"
      /\ UNCHANGED <<call, mmap, mem, used, cr3, thread_table, i, addr, asked>>
  BY DEF handle_ACPI, At
<1>2. TablesInv(lvl) /\ StageInv(lvl) /\ WindowInv
  BY DEF Core
<1>3. cr3 = Kernel_PML4_TABLE /\ thread_table = None
  BY <1>1, <1>2 DEF StageInv, KernelStages, HeapStages
<1>4. StageInv(lvl)'
  <2>1. pages' \in Seq(0..(PML4_PS - 1)) /\ \A n \in DOMAIN pages' : pages'[n] \notin RAM
    BY <1>1, MemoryIs
  <2>2. RAM' = RAM
    BY <1>1 DEF RAM
  <2> QED BY <1>1, <1>3, <2>1, <2>2
       DEF StageInv, Stages, KernelStages, ThreadStages, HeapStages, Ended
<1>5. WindowInv'
  <2>1. pc \in KernelStages \cup ThreadStages /\ pc' # "regions"
    BY <1>1 DEF KernelStages, HeapStages
  <2> QED BY <1>1, <1>2, <2>1, WindowStays
<1>6. NoFaultIfCovered' /\ used \subseteq used' /\ used' \subseteq Phys
  BY <1>1, <1>2 DEF NoFaultIfCovered, TablesInv
<1> QED BY <1>1, <1>4, <1>5, <1>6, QuietCore

-----------------------------------------------------------------------------
(* The root of the thread                                                  *)

\* A frame that was free becomes a copy of the kernel's root.
Copies(lvl, pos, lvl2, pos2, f) ==
  /\ pc = "thread" /\ call = NoCall /\ thread_table = None /\ f \in Free
  /\ used' = used \cup {f} /\ thread_table' = f /\ pc' = "code"
  /\ mem' = [mem EXCEPT ![f] = mem[Kernel_PML4_TABLE]]
  /\ UNCHANGED <<call, mmap, cr3, i, addr, asked>>
  /\ lvl2 = [lvl EXCEPT ![f] = 3] /\ pos2 = [pos EXCEPT ![f] = pos[Kernel_PML4_TABLE]]

LEMMA CopiesTables ==
  ASSUME NEW lvl \in LevelMaps, NEW pos \in Positions, Core(lvl, pos), mmap \in MemoryMaps,
         NEW lvl2 \in LevelMaps, NEW pos2 \in Positions, NEW f \in Phys,
         Copies(lvl, pos, lvl2, pos2, f)
  PROVE  /\ f \in RAM /\ f \notin used /\ lvl[f] = None /\ f # Kernel_PML4_TABLE
         /\ mem'[f] = mem[Kernel_PML4_TABLE] /\ \A h \in Phys : h # f => mem'[h] = mem[h]
         /\ lvl2[f] = 3 /\ pos2[f] = pos[Kernel_PML4_TABLE]
         /\ \A h \in Phys : h # f => lvl2[h] = lvl[h] /\ pos2[h] = pos[h]
         /\ Grows(mem, mem', lvl, pos, lvl2, pos2)
         /\ TablesInv(lvl2)' /\ RootsInv'
         /\ \A h \in Phys : Owned(lvl, h) => Owned(lvl2, h)'
<1>1. f \in RAM /\ f \notin used /\ lvl[f] = None
  BY FreeFrames DEF Copies
<1>2. /\ mem \in [Phys -> Tables] /\ used \subseteq Phys
      /\ lvl[Kernel_PML4_TABLE] = 3 /\ Kernel_PML4_TABLE \in Phys
  BY DEF Core, TablesInv
<1>3. f # Kernel_PML4_TABLE
  BY <1>1, <1>2 DEF None
<1>4. /\ mem'[f] = mem[Kernel_PML4_TABLE] /\ \A h \in Phys : h # f => mem'[h] = mem[h]
      /\ mem' \in [Phys -> Tables]
  BY <1>2 DEF Copies
<1>5. /\ lvl2[f] = 3 /\ pos2[f] = pos[Kernel_PML4_TABLE]
      /\ \A h \in Phys : h # f => lvl2[h] = lvl[h] /\ pos2[h] = pos[h]
  <2>1. lvl2[f] = 3 /\ \A h \in Phys : h # f => lvl2[h] = lvl[h]
    BY DEF Copies, LevelMaps
  <2>2. pos2[f] = pos[Kernel_PML4_TABLE] /\ \A h \in Phys : h # f => pos2[h] = pos[h]
    BY DEF Copies, Positions
  <2> QED BY <2>1, <2>2
<1>6. Grows(mem, mem', lvl, pos, lvl2, pos2)
  <2>1. \A h \in Phys : lvl[h] # None => h # f
    BY <1>1
  <2>2. ASSUME NEW h \in Phys, lvl[h] # None, NEW n, NEW c, NEW perms, Link(mem, h, n, c, perms)
        PROVE  Link(mem', h, n, c, perms)
    BY <1>4, <2>1, <2>2, Zenon DEF Link
  <2> QED BY <1>5, <2>1, <2>2, Zenon DEF Grows
<1>7. used' = used \cup {f} /\ thread_table' = f /\ UNCHANGED mmap /\ RAM' = RAM
  BY DEF Copies, RAM
<1>8. TablesInv(lvl2)'
  <2>1. \A h \in Phys : lvl2[h] = None => mem'[h] = EmptyTable
    <3>1. \A h \in Phys : lvl2[h] = None => h # f /\ lvl[h] = None
      BY <1>5 DEF None
    <3> QED BY <1>4, <3>1 DEF Core, TablesInv
  <2>2. \A h \in Phys : lvl2[h] # None => h \in used' /\ h \in RAM \cup KernelFrames
    BY <1>1, <1>5, <1>7 DEF Core, TablesInv
  <2>3. lvl2[Kernel_PML4_TABLE] = 3 /\ used' \subseteq Phys
    BY <1>2, <1>3, <1>5, <1>7
  <2> QED BY <1>2, <1>3, <1>4, <1>5, <1>7, <2>1, <2>2, <2>3 DEF TablesInv
<1>9. RootsInv'
  <2>1. mem'[Kernel_PML4_TABLE] = mem[Kernel_PML4_TABLE]
    BY <1>2, <1>3, <1>4
  <2> QED BY <1>4, <1>7, <2>1 DEF RootsInv, Core
<1>10. \A h \in Phys : Owned(lvl, h) => Owned(lvl2, h)'
  BY <1>1, <1>5, <1>7 DEF Owned
<1> QED BY <1>1, <1>3, <1>4, <1>5, <1>6, <1>8, <1>9, <1>10

LEMMA CopiesTree ==
  ASSUME NEW lvl \in LevelMaps, NEW pos \in Positions, Core(lvl, pos), mmap \in MemoryMaps,
         NEW lvl2 \in LevelMaps, NEW pos2 \in Positions, NEW f \in Phys,
         Copies(lvl, pos, lvl2, pos2, f)
  PROVE  TreeInv(lvl2, pos2)'
<1> SUFFICES ASSUME NEW h \in Phys, NEW n \in Index, lvl2[h] # None, mem'[h][n].present
             PROVE  EntryInv(lvl2, pos2, h, n)'
  BY Zenon DEF TreeInv
<1>1. /\ lvl[f] = None /\ mem'[f] = mem[Kernel_PML4_TABLE]
      /\ \A g \in Phys : g # f => mem'[g] = mem[g]
      /\ lvl2[f] = 3 /\ pos2[f] = pos[Kernel_PML4_TABLE]
      /\ \A g \in Phys : g # f => lvl2[g] = lvl[g] /\ pos2[g] = pos[g]
  BY CopiesTables
<1>2. TreeInv(lvl, pos) /\ lvl[Kernel_PML4_TABLE] = 3 /\ Kernel_PML4_TABLE \in Phys
  BY DEF Core, TablesInv
<1>3. CASE h = f
  <2>1. PICK e : e = mem[Kernel_PML4_TABLE][n] /\ e = mem'[h][n] /\ e.present
    BY <1>1, <1>3
  <2>2. /\ ~e.huge /\ e.ppn \in Phys /\ lvl[e.ppn] = 2
        /\ pos[e.ppn] = [pos[Kernel_PML4_TABLE] EXCEPT ![3] = n]
    <3>1. lvl[Kernel_PML4_TABLE] # None /\ lvl[Kernel_PML4_TABLE] # 0
          /\ lvl[Kernel_PML4_TABLE] # 1
      BY <1>2 DEF None
    <3>2. EntryInv(lvl, pos, Kernel_PML4_TABLE, n)
      BY <1>2, <2>1, <3>1, Zenon DEF TreeInv
    <3>3. /\ ~e.huge /\ e.ppn \in Phys /\ lvl[e.ppn] = 3 - 1
          /\ pos[e.ppn] = [pos[Kernel_PML4_TABLE] EXCEPT ![3] = n]
      BY <1>2, <2>1, <3>1, <3>2, Zenon DEF EntryInv
    <3> QED BY <3>3
  <2>3. e.ppn # f
    BY <1>1, <2>2 DEF None
  <2>4. lvl2[e.ppn] = 2 /\ pos2[e.ppn] = [pos2[h] EXCEPT ![3] = n]
    BY <1>1, <1>3, <2>2, <2>3, Zenon
  <2>5. lvl2[h] = 3 /\ 3 - 1 = 2 /\ 3 # 0 /\ 3 # 1
    BY <1>1, <1>3
  <2>6. /\ ~mem'[h][n].huge /\ mem'[h][n].ppn \in Phys
        /\ lvl2[mem'[h][n].ppn] = lvl2[h] - 1
        /\ pos2[mem'[h][n].ppn] = [pos2[h] EXCEPT ![lvl2[h]] = n]
    BY <2>1, <2>2, <2>4, <2>5, Zenon
  <2> QED BY <2>5, <2>6, Zenon DEF EntryInv
<1>4. CASE h # f
  <2>1. mem'[h][n] = mem[h][n] /\ lvl[h] # None /\ mem[h][n].present
    BY <1>1, <1>4
  <2>2. \A g \in Phys : lvl[g] # None => lvl2[g] = lvl[g] /\ pos2[g] = pos[g]
    BY <1>1, Zenon
  <2>3. \A v : UserPage(v) => UserPage(v)'
    BY Zenon DEF UserPage, Copies
  <2> QED BY <1>2, <2>1, <2>2, <2>3, EntryStays
<1> QED BY <1>3, <1>4

LEMMA CopiesAsked ==
  ASSUME NEW lvl \in LevelMaps, NEW pos \in Positions, Core(lvl, pos), mmap \in MemoryMaps,
         NEW lvl2 \in LevelMaps, NEW pos2 \in Positions, NEW f \in Phys,
         Copies(lvl, pos, lvl2, pos2, f)
  PROVE  AskedInv(lvl2, pos2)'
<1>1. /\ UNCHANGED <<mmap, asked>> /\ RAM' = RAM
      /\ \A root : root \in Roots => root \in Roots'
  BY DEF Copies, RAM, Roots
<1>2. /\ lvl[f] = None /\ \A h \in Phys : h # f => mem'[h] = mem[h]
      /\ Grows(mem, mem', lvl, pos, lvl2, pos2)
      /\ \A h \in Phys : Owned(lvl, h) => Owned(lvl2, h)'
  BY CopiesTables
<1>3. SUFFICES ASSUME NEW k \in DOMAIN asked, NEW r, r = asked[k]
               PROVE  /\ k \in Phys \X Virt
                      /\ r \in [frame : Nat, size : Sizes, perms : PermRecords]
                      /\ Placed(k[1], k[2], r.size)
                      /\ r.size = 1 /\ r.frame \in RAM => Owned(lvl2, r.frame)'
                      /\ Found(mem', lvl2, pos2, k[1], k[2], r)
  <2>1. \A root, v, size : Placed(root, v, size) => Placed(root, v, size)'
    BY <1>1, Zenon DEF Placed
  <2>2. \A k \in DOMAIN asked :
          /\ k \in Phys \X Virt
          /\ asked[k] \in [frame : Nat, size : Sizes, perms : PermRecords]
          /\ Placed(k[1], k[2], asked[k].size)
          /\ asked[k].size = 1 /\ asked[k].frame \in RAM =>
               asked[k].frame \in used' /\ lvl2[asked[k].frame] = None
          /\ Found(mem', lvl2, pos2, k[1], k[2], asked[k])
    BY <1>3, Zenon DEF Owned
  <2> QED BY <1>1, <2>1, <2>2, Zenon DEF AskedInv, Owned, Placed
<1>4. /\ k \in Phys \X Virt
      /\ r \in [frame : Nat, size : Sizes, perms : PermRecords]
      /\ Placed(k[1], k[2], r.size)
      /\ r.size = 1 /\ r.frame \in RAM => Owned(lvl, r.frame)
      /\ Found(mem, lvl, pos, k[1], k[2], r)
  BY <1>3, Zenon DEF Core, AskedInv
<1>5. r.size = 1 /\ r.frame \in RAM => Owned(lvl2, r.frame)'
  <2>1. r.frame \in RAM => r.frame \in Phys
    BY MemoryIs
  <2> QED BY <1>2, <1>4, <2>1, Zenon
<1>6. Found(mem', lvl2, pos2, k[1], k[2], r)
  <2>1. PICK root, v : root = k[1] /\ v = k[2]
    BY Zenon
  <2>2. v \in Virt
    BY <1>4, <2>1
  <2>3. \A h \in Phys, n \in Index :
          /\ lvl[h] = LeafOf(r.size) /\ OnPath(pos, h, lvl[h], v) /\ n = VA_INDEX(v, lvl[h])
          /\ mem[h][n] = Entry(r.frame, r.size # 1, r.perms)
          => mem'[h][n] = mem[h][n]
    <3>1. LeafOf(r.size) # None
      BY DEF LeafOf, None
    <3> QED BY <1>2, <3>1, Zenon
  <2>4. Found(mem, lvl, pos, root, v, r)
    BY <1>4, <2>1, Zenon
  <2>5. Found(mem', lvl2, pos2, root, v, r)
    BY <1>2, <1>4, <2>2, <2>3, <2>4, FoundGrows
  <2> QED BY <2>1, <2>5, Zenon
<1> QED BY <1>4, <1>5, <1>6, Zenon

LEMMA CreateThreadStep ==
  ASSUME NEW lvl \in LevelMaps, NEW pos \in Positions, Core(lvl, pos), mmap \in MemoryMaps,
         LowMemory, create_thread
  PROVE  \E lvl2 \in LevelMaps, pos2 \in Positions :
           Core(lvl2, pos2)' /\ mmap' \in MemoryMaps /\ RAM' = RAM
<1>1. /\ pc = "thread" /\ call = NoCall /\ TakesFrames(1, "code", "fault")
      /\ UNCHANGED <<call, mmap, cr3, i, addr, asked>>
      /\ pc' = "fault" => UNCHANGED <<mem, thread_table>>
      /\ pc' # "fault" => /\ thread_table' = pages'[1]
                          /\ mem' = [mem EXCEPT ![pages'[1]] = mem[Kernel_PML4_TABLE]]
  BY DEF create_thread, copied_root, At
<1>2. TablesInv(lvl) /\ StageInv(lvl) /\ WindowInv
  BY DEF Core
<1>3. cr3 = Kernel_PML4_TABLE /\ thread_table = None /\ pc \notin Ended
  BY <1>1, <1>2 DEF StageInv, KernelStages, Ended
<1>4. \/ pc' = "fault" /\ UNCHANGED <<used, pages>> /\ (Covered => Free = {})
      \/ pc' = "fault" /\ pages' = pages /\ used' = used \cup Free
      \/ /\ pc' = "code" /\ used' = used \cup {pages'[k] : k \in 1..1}
         /\ \A k \in 1..1 : pages'[k] \in Free
  <2>1. PICK n \in Nat \ {0}, next \in {"code"}, failed \in {"fault"} : n = 1
    OBVIOUS
  <2>2. TakesFrames(n, next, failed)
    BY <1>1, <2>1
  <2>3. \/ pc' = "fault" /\ UNCHANGED <<used, pages>> /\ (Covered => Free = {})
        \/ pc' = failed /\ pages' = pages /\ used' = used \cup Free
        \/ /\ pc' = next /\ used' = used \cup {pages'[k] : k \in 1..n}
           /\ \A k \in 1..n : pages'[k] \in Free
    BY <1>3, <2>1, <2>2, TakesOrFaults
  <2> QED BY <2>1, <2>3
<1>5. CASE pc' = "fault"
  <2>1. used \subseteq used' /\ used' \subseteq Phys
    BY <1>2, <1>4, <1>5, FreeIs, MemoryIs DEF TablesInv
  <2>2. Covered => RAM \ used' = {}
    BY <1>4, <1>5 DEF Free
  <2>3. Core(lvl, pos)' /\ mmap' \in MemoryMaps /\ RAM' = RAM
    BY <1>1, <1>5, <2>1, <2>2, FaultCore
  <2> QED BY <2>3, Zenon
<1>6. CASE pc' # "fault"
  <2>1. PICK f \in Free : f = pages'[1] /\ used' = used \cup {f} /\ pc' = "code"
    BY <1>4, <1>6
  <2>2. f \in Phys
    BY FreeFrames
  <2>3. PICK lvl2 \in LevelMaps : lvl2 = [lvl EXCEPT ![f] = 3]
    <3>1. [lvl EXCEPT ![f] = 3] \in LevelMaps
      BY <2>2 DEF LevelMaps, Levels
    <3> QED BY <3>1
  <2>4. PICK pos2 \in Positions : pos2 = [pos EXCEPT ![f] = pos[Kernel_PML4_TABLE]]
    <3>1. pos[Kernel_PML4_TABLE] \in [1..3 -> Int]
      BY <1>2 DEF TablesInv, Positions
    <3>2. [pos EXCEPT ![f] = pos[Kernel_PML4_TABLE]] \in Positions
      BY <2>2, <3>1 DEF Positions
    <3> QED BY <3>2
  <2>5. Copies(lvl, pos, lvl2, pos2, f)
    BY <1>1, <1>3, <1>6, <2>1, <2>3, <2>4, Zenon DEF Copies
  <2>6. TablesInv(lvl2)' /\ RootsInv' /\ TreeInv(lvl2, pos2)' /\ AskedInv(lvl2, pos2)'
    BY <2>2, <2>5, CopiesTables, CopiesTree, CopiesAsked, Zenon
  <2>7. CallInv(lvl2, pos2)' /\ ReturnInv'
    BY <1>1 DEF CallInv, ReturnInv
  <2>8. StageInv(lvl2)'
    <3>1. thread_table' # None /\ cr3' = Kernel_PML4_TABLE /\ pc' = "code"
      BY <1>1, <1>3, <1>6, <2>1, <2>2 DEF Phys, None
    <3> QED BY <3>1 DEF StageInv, Stages, KernelStages, ThreadStages, HeapStages, Ended
  <2>9. WindowInv'
    <3>1. pc \in KernelStages \cup ThreadStages /\ pc' # "regions"
      BY <1>1, <2>1 DEF KernelStages
    <3> QED BY <1>1, <1>2, <3>1, WindowStays
  <2>10. NoFaultIfCovered' /\ mmap' \in MemoryMaps /\ RAM' = RAM
    BY <1>1, <1>6 DEF NoFaultIfCovered, RAM
  <2> QED BY <2>6, <2>7, <2>8, <2>9, <2>10, Zenon DEF Core
<1> QED BY <1>5, <1>6

-----------------------------------------------------------------------------
(* The theorems                                                            *)

LEMMA InitInv ==
  ASSUME Init
  PROVE  Inv
<1>1. /\ mmap \in MemoryMaps /\ mem = [f \in 0..(Frames - 1) |-> EmptyTable]
      /\ used = KernelFrames /\ cr3 = None /\ thread_table = None
      /\ pc = "regions" /\ i = 0 /\ addr = 0 /\ call = NoCall /\ pages = <<>> /\ asked = <<>>
  BY DEF Init
<1>2. Kernel_PML4_TABLE \in Phys /\ KernelFrames \subseteq Phys
      /\ Kernel_PML4_TABLE \in KernelFrames
  BY PagingAssumption DEF Phys
<1>3. PICK lvl \in LevelMaps : lvl = [f \in Phys |-> IF f = Kernel_PML4_TABLE THEN 3 ELSE None]
  <2>1. [f \in Phys |-> IF f = Kernel_PML4_TABLE THEN 3 ELSE None] \in LevelMaps
    BY DEF LevelMaps, Levels
  <2> QED BY <2>1
<1>4. PICK pos \in Positions : TRUE
  <2>1. [f \in Phys |-> [j \in 1..3 |-> 0]] \in Positions
    BY DEF Positions
  <2> QED BY <2>1
<1>5. EmptyTable \in Tables /\ \A n \in Index : ~EmptyTable[n].present
  BY DEF EmptyTable, Tables, Index, Entries, NoEntry, PermRecords, Perms
<1>6. mem \in [Phys -> Tables] /\ \A f \in Phys : mem[f] = EmptyTable
  BY <1>1, <1>5 DEF Phys
<1>7. TablesInv(lvl)
  BY <1>1, <1>2, <1>3, <1>6 DEF TablesInv, None
<1>8. TreeInv(lvl, pos) /\ RootsInv
  <2>1. 1 \in Index
    BY PagingAssumption DEF Index
  <2> QED BY <1>1, <1>2, <1>5, <1>6, <2>1 DEF TreeInv, RootsInv
<1>9. AskedInv(lvl, pos) /\ CallInv(lvl, pos) /\ ReturnInv
  BY <1>1 DEF AskedInv, CallInv, ReturnInv
<1>10. StageInv(lvl)
  <2>1. 0 % HUGE_PS = 0
    BY SizesAre
  <2> QED BY <1>1, <2>1, MemoryIs DEF StageInv, Stages, KernelStages, ThreadStages, HeapStages
<1>11. WindowInv
  BY <1>1 DEF WindowInv, KernelStages, ThreadStages, HeapStages
<1>12. NoFaultIfCovered
  BY <1>1 DEF NoFaultIfCovered
<1>13. Core(lvl, pos)
  BY <1>7, <1>8, <1>9, <1>10, <1>11, <1>12, Zenon DEF Core
<1> QED BY <1>1, <1>13, Zenon DEF Inv

LEMMA NextInv ==
  ASSUME Inv, [Next]_vars
  PROVE  Inv'
<1>1. mmap \in MemoryMaps
  BY DEF Inv
<1>2. mmap' \in MemoryMaps /\ RAM' = RAM
  <2>1. mmap' = mmap
    BY DEF Next, vars, page_in, page_in_faults, page_in_present, page_in_allocates, page_in_fails,
           page_in_leaf, InPageIn, page_in_regions, page_in_next_region, write_cr3, alloc_init,
           heap_info, heap_allocator, heap_first, heap_pages, HeapPage, heap_null, handle_ACPI,
           map_mmio, kmain_video, create_thread, thread_supply_new_mem,
           thread_supply_mem_region, Halted
  <2> QED BY <1>1, <2>1 DEF RAM
<1>3. SUFFICES ASSUME LowMemory
               PROVE  \E lvl2 \in LevelMaps, pos2 \in Positions : Core(lvl2, pos2)'
  BY <1>2, Zenon DEF Inv, LowMemory
<1>4. PICK lvl \in LevelMaps, pos \in Positions : Core(lvl, pos)
  BY <1>3 DEF Inv
<1>5. CASE page_in
  BY <1>1, <1>3, <1>4, <1>5, PageInStep
<1>6. CASE create_thread
  BY <1>1, <1>3, <1>4, <1>6, CreateThreadStep
<1>7. CASE \/ page_in_regions \/ page_in_next_region \/ write_cr3 \/ alloc_init
           \/ heap_info \/ heap_allocator \/ heap_first \/ heap_pages \/ heap_null
           \/ handle_ACPI \/ map_mmio \/ kmain_video
           \/ thread_supply_new_mem \/ thread_supply_mem_region
  <2>1. Core(lvl, pos)'
    BY <1>1, <1>3, <1>4, <1>7, RegionsStep, NextRegionStep, WriteCr3Step, ListStep, HeapSteps,
       AllocatorStep, HeapNullStep, AcpiStep, DevicesStep, SupplyStep
  <2> QED BY <2>1, Zenon
<1>8. CASE UNCHANGED vars
  <2>1. /\ TablesInv(lvl) /\ TreeInv(lvl, pos) /\ RootsInv /\ AskedInv(lvl, pos)
        /\ used \subseteq Phys
    BY <1>4 DEF Core, TablesInv
  <2>2. /\ TablesInv(lvl)' /\ TreeInv(lvl, pos)' /\ RootsInv' /\ AskedInv(lvl, pos)'
        /\ RAM' = RAM /\ Roots' = Roots
    BY <1>1, <1>8, <2>1, QuietStep DEF vars
  <2>3. CallInv(lvl, pos)'
    BY <1>4, <1>8, <2>2, Zenon DEF vars, Core, CallInv, Placed, Owned
  <2>4. /\ mmap' = mmap /\ used' = used /\ cr3' = cr3 /\ thread_table' = thread_table
        /\ pc' = pc /\ i' = i /\ addr' = addr /\ call' = call /\ pages' = pages
        /\ asked' = asked /\ mem' = mem
    BY <1>8 DEF vars
  <2>5. StageInv(lvl) /\ ReturnInv /\ WindowInv /\ NoFaultIfCovered
    BY <1>4, Zenon DEF Core
  <2>6. StageInv(lvl)'
    <3>1. Free' = Free
      BY <2>2, <2>4, Zenon DEF Free
    <3>2. \A list, n : OwnedList(lvl, list, n) => OwnedList(lvl, list, n)'
      BY <2>4, Zenon DEF OwnedList, Owned
    <3>3. \A f : Owned(lvl, f) => Owned(lvl, f)'
      BY <2>4, Zenon DEF Owned
    <3> QED BY <2>2, <2>4, <2>5, <3>1, <3>2, <3>3, Zenon DEF StageInv
  <2>7. ReturnInv'
    BY <2>4, <2>5 DEF ReturnInv
  <2>8. WindowInv'
    <3>1. \A a : Windowed(a) => Windowed(a)'
      BY <2>4, Zenon DEF Windowed
    <3>2. \A n, a : InRegion(n, a)' <=> InRegion(n, a)
      BY <2>4, Zenon DEF InRegion
    <3> QED BY <2>4, <2>5, <3>1, <3>2, Zenon DEF WindowInv
  <2>9. NoFaultIfCovered'
    BY <2>2, <2>4, <2>5, Zenon DEF NoFaultIfCovered, Covered, InWindow, Free
  <2>10. Core(lvl, pos)'
    BY <2>2, <2>3, <2>6, <2>7, <2>8, <2>9, Zenon DEF Core
  <2> QED BY <2>10, Zenon
<1>9. Halted => UNCHANGED vars
  BY DEF Halted
<1> QED BY <1>5, <1>6, <1>7, <1>8, <1>9 DEF Next

\* While kmain builds the tables they are a tree that has every page that was
\* asked for at the end of its path, for the memory maps that fit into the
\* window.
THEOREM Tree == Spec => []Inv
<1>1. Init => Inv
  BY InitInv
<1>2. Inv /\ [Next]_vars => Inv'
  BY NextInv
<1> QED BY <1>1, <1>2, PTL DEF Spec

\* page_in's answer 0 stays true: no later call moves a page, takes its rights
\* or gives it others.
THEOREM Mapped == Spec => [](LowMemory => MappedAsAsked)
<1>1. Inv => (LowMemory => MappedAsAsked)
  BY MappedFollows DEF Inv, Core
<1> QED BY <1>1, Tree, PTL

\* page_in never takes a free frame, or one that is mapped as memory, for a
\* table.
THEOREM OwnFrames == Spec => [](LowMemory => TablesOwnTheirFrames)
<1>1. Inv => (LowMemory => TablesOwnTheirFrames)
  BY OwnFramesFollows DEF Inv, Core
<1> QED BY <1>1, Tree, PTL

\* The rights that the upper entries collect open no page to user code but the
\* text screen and the pages of the thread.
THEOREM UserPages == Spec => [](LowMemory => UserReachesItsPages)
<1>1. Inv => (LowMemory => UserReachesItsPages)
  BY UserFollows DEF Inv, Core
<1> QED BY <1>1, Tree, PTL

\* The root that create_thread copies has what the kernel has mapped, also
\* after the thread's own pages have been added.
THEOREM KernelInThread == Spec => [](LowMemory => KernelMappedInThread)
<1>1. Inv => (LowMemory => KernelMappedInThread)
  BY KernelFollows DEF Inv, Core
<1> QED BY <1>1, Tree, PTL

\* If the window covers memory and kernel, page_in_regions maps all that kmain
\* uses after the switch of the tables: only a lack of frames can fault.
THEOREM NoFault == Spec => [](LowMemory => NoFaultIfCovered)
<1>1. Inv => (LowMemory => NoFaultIfCovered)
  BY Zenon DEF Inv, Core
<1> QED BY <1>1, Tree, PTL
=============================================================================
