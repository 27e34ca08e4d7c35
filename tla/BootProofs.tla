----------------------------- MODULE BootProofs -----------------------------
(***************************************************************************)
(* What Boot promises of the firmware tables, the calibration, the records *)
(* of the I/O APICs and the keyboard's routing, for every set of machines  *)
(* and every width of the timers.                                          *)
(***************************************************************************)
EXTENDS Boot, FiniteSetTheorems, TLAPS

-----------------------------------------------------------------------------
(* The invariant *)

Entries == [dest : Nat, vector : Nat, masked : BOOLEAN]

\* The window is over before the count is divided by it.
TypeInv ==
  /\ TypeOK
  /\ pc = "cal_read" => elapsed >= WAIT
  /\ redir \in [DOMAIN hw.ioapics -> Entries]

\* The walk is at a table or behind the last one, and at a MADT in handle_MADT.
StepInv ==
  /\ pc = "tables" => step \in 1..(Len(hw.tables) + 1)
  /\ pc = "madt" => step \in 1..Len(hw.tables) /\ hw.tables[step].sig = "APIC"

\* What is in FADT was read from a table with its signature.
FadtInv ==
  FADT # None =>
    \E k \in DOMAIN hw.tables : hw.tables[k].sig = "FACP" /\ FADT.is32 = hw.tables[k].is32

\* The local APIC has counted for this many PM ticks, but for those between the
\* first read and the start of the count.
Counted(ticks) == \E t \in 0..MaxGap : t <= ticks /\ lapic = RATE * (ticks - t)

\* The PM ticks since the start are the difference the driver computes, as
\* fewer than the mask have passed.
CalInv ==
  /\ pc \in {"mb2", "tags", "heap", "acpi", "tables", "madt", "cpuid", "apic",
             "cal_start", "cal_arm"} => elapsed = 0
  /\ pc \in {"cal_start", "cal_arm", "cal_poll"} => FADT # None
  /\ pc \in {"cal_arm", "cal_poll"} => start \in 0..(mask - 1)
  /\ pc = "cal_arm" => elapsed_now = gap
  /\ pc = "cal_poll" =>
       /\ Counted(elapsed_now) /\ gap <= elapsed_now
       /\ elapsed_now - gap <= MaxGap \/ elapsed_now - gap < WAIT
  /\ pc = "cal_read" => Counted(elapsed + gap)
  /\ CalibrationAccurate

\* An interrupt, and every entry that may raise one, goes to the routed
\* processor if it has the keyboard's vector.
RouteInv ==
  /\ \A a \in DOMAIN redir : redir[a].vector = KEY_VECTOR => redir[a].dest = 0
  /\ pc = "route_low" /\ Base \in DOMAIN redir => redir[Base].dest = 0
  /\ pending # None /\ pending.vector = KEY_VECTOR => pending.dest = 0
  /\ RoutedWhole

\* The walk over the tables of an ordinary machine: the root is mapped, what was
\* copied comes from a table before the current one, and no MADT was passed over.
WalkInv ==
  /\ pc \in {"mb2", "tags", "heap", "acpi"} => FADT = None /\ MCFG = None
  /\ pc \in {"tables", "madt"} /\ Ordinary =>
       /\ hw.root_pages \subseteq mapped
       /\ FADT # None => \E k \in 1..(step - 1) : hw.tables[k].sig = "FACP"
       /\ MCFG # None => \E k \in 1..(step - 1) :
                           hw.tables[k].sig = "MCFG" /\ MCFG = hw.tables[k]
       /\ APIC_INFO = None => \A k \in 1..(step - 1) : hw.tables[k].sig # "APIC"
  /\ MadtFound

Cells == [kind : Kinds, val : Nat, index : Nat]
Infos ==
  [at : Nat, lapic_addr : Nat, cells : SUBSET Cells, room : [Kinds -> Nat],
   count : [Kinds -> Nat]]

\* The records of a kind before record p, and their number.
Before(t, kind, p) == {k \in 1..(p - 1) : t.recs[k].type = kind}

\* What the second pass has made of the records of t before record i.at.
ReadUpTo(t, i) ==
  /\ i.at \in 1..(Len(t.recs) + 1)
  /\ \A j \in 1..(i.at - 1) : ~malformed(t, j)
  /\ \A kind \in Kinds :
       /\ i.room[kind] = Cardinality({k \in counted(t) : t.recs[k].type = kind})
       /\ i.count[kind] = Cardinality(Before(t, kind, i.at))
  /\ \A c : c \in i.cells <=>
       \E k \in 1..(i.at - 1) :
         /\ t.recs[k].type \in Kinds
         /\ c = [kind |-> t.recs[k].type, val |-> t.recs[k].val,
                 index |-> Cardinality(Before(t, t.recs[k].type, k))]
  /\ \/ Before(t, 5, i.at) = {} /\ i.lapic_addr = t.lapic
     \/ \E k \in Before(t, 5, i.at) :
          i.lapic_addr = t.recs[k].val /\ \A j \in Before(t, 5, i.at) : j <= k

\* The second pass is at a MADT, and is faithful so far if the memory was zero.
ReadInv ==
  /\ pc = "madt" => info \in Infos
  /\ pc = "madt" /\ hw.dirty = 0 => ReadUpTo(hw.tables[step], info)
  /\ MadtFaithful

\* The addresses of i's I/O APICs are those of the machine's.
Named(i) ==
  /\ i.count[1] \in Nat
  /\ \A c \in i.cells : c.kind = 1 => c.val \in DOMAIN hw.ioapics

NamedInv ==
  /\ pc = "madt" => Named(info)
  /\ APIC_INFO # None => Named(APIC_INFO)
  /\ pc \in {"cal_start", "cal_arm", "cal_poll", "cal_read", "io_apics", "io_sizes",
             "io_infos"} => APIC_INFO # None

\* The bytes counted for the n-th record, and ends, the sums of the first ones.
Reserved(n) == SIZEOF_ioapic_info + SIZEOF_redirection * entries_to_reserve(ioapic_addr(n - 1))

Sums(ends, n) ==
  /\ ends \in [0..n -> Nat] /\ ends[0] = 0
  /\ \A k \in 1..n : ends[k] = ends[k - 1] + Reserved(k)
  /\ \A j \in 0..n, k \in 0..n : j <= k => ends[j] <= ends[k]

\* The records so far are in the block, up to the place of the next one.
RecordEnd(r) == r.at + SIZEOF_ioapic_info + SIZEOF_redirection * r.redirection_count

WithRecord(b, r, n) == [b EXCEPT !.next = n, !.apics = Append(b.apics, r)]

RecordsFit(b) ==
  /\ b \in [size : Nat, next : Nat,
            apics : Seq([base : DOMAIN hw.ioapics, at : Nat, redirection_count : Nat])]
  /\ b.next <= b.size
  /\ \A i \in DOMAIN b.apics :
       /\ RecordEnd(b.apics[i]) <= b.next
       /\ \A j \in DOMAIN b.apics : j > i => RecordEnd(b.apics[i]) <= b.apics[j].at

\* No record takes more than was counted for it: the first loop has the sum of
\* the records it has seen, and the second stays below it.
SizesInv ==
  /\ pc \in {"io_sizes", "io_infos"} =>
       /\ step \in 1..(ioapic_count + 1)
       /\ \A i \in 0..(ioapic_count - 1) : \E c \in APIC_INFO.cells : c.kind = 1 /\ c.index = i
  /\ pc = "io_sizes" => \E ends : Sums(ends, step - 1) /\
       total_size = ends[step - 1] + SIZEOF_ioapic_info * (ioapic_count - (step - 1))
  /\ pc = "io_infos" => RecordsFit(ioapic_infos) /\ \E ends : Sums(ends, ioapic_count) /\
       ioapic_infos.size = ends[ioapic_count] /\ ioapic_infos.next <= ends[step - 1]
  /\ ioapic_infos # None => RecordsFit(ioapic_infos)

IoInv == NamedInv /\ SizesInv

-----------------------------------------------------------------------------
(* Arithmetic *)

\* The remainder of a number below twice the divisor.
LEMMA ModOnce ==
  ASSUME NEW m \in Int, m > 0, NEW x \in 0..(2 * m - 1)
  PROVE  x % m = IF x < m THEN x ELSE x - m
<1>1. CASE x < m
  BY <1>1
<1>2. CASE ~(x < m)
  <2>1. x - m \in 0..(m - 1) /\ x = m + (x - m)
    BY <1>2
  <2> QED  BY <1>2, <2>1
<1> QED  BY <1>1, <1>2

\* A quotient of natural numbers is one.
LEMMA DivNat ==
  ASSUME NEW a \in Nat, NEW b \in Int, b > 0
  PROVE  a \div b \in Nat
OBVIOUS

\* Division with remainder.
LEMMA DivMod ==
  ASSUME NEW m \in Int, m > 0, NEW x \in Int
  PROVE  \E q \in Int : \E s \in 0..(m - 1) : x = m * q + s /\ s = x % m
<1>1. x \div m \in Int
  OBVIOUS
<1>2. x % m \in 0..(m - 1)
  OBVIOUS
<1>3. ASSUME NEW q \in Int, NEW s \in Int, q = x \div m, s = x % m
      PROVE  x = m * q + s
  BY <1>3
<1> QED  BY <1>1, <1>2, <1>3

\* A remainder is determined by what it leaves.
LEMMA ModUnique ==
  ASSUME NEW m \in Int, m > 0, NEW k \in Int, NEW r \in 0..(m - 1), NEW x \in Int,
         x = m * k + r
  PROVE  x % m = r
<1> DEFINE q == x \div m
           s == x % m
<1>1. q \in Int /\ s \in 0..(m - 1) /\ x = m * q + s
  OBVIOUS
<1> HIDE DEF q, s
<1>2. m * (k - q) = s - r
  BY <1>1
<1>3. k - q = 0
  <2>1. CASE k - q >= 1
    <3>1. m * (k - q) >= m
      BY <2>1, <1>1
    <3> QED  BY <3>1, <1>1, <1>2
  <2>2. CASE k - q <= -1
    <3>1. m * (k - q) <= -m
      BY <2>2, <1>1
    <3> QED  BY <3>1, <1>1, <1>2
  <2> QED  BY <2>1, <2>2, <1>1
<1>4. s = r
  BY <1>1, <1>2, <1>3
<1> QED  BY <1>4 DEF s

\* A remainder of the larger divisor does not change the smaller one's.
LEMMA ModMod ==
  ASSUME NEW m \in Int, m > 0, NEW M \in Int, M > 0, M % m = 0,
         NEW x \in Int
  PROVE  (x % M) % m = x % m
<1>1. PICK c \in Int : \E z \in 0..(m - 1) : M = m * c + z /\ z = M % m
  BY DivMod
<1>2. PICK q \in Int : \E s \in 0..(M - 1) : x = M * q + s /\ s = x % M
  BY DivMod
<1>3. PICK s \in 0..(M - 1) : x = M * q + s /\ s = x % M
  BY <1>2
<1>4. PICK p \in Int : \E r \in 0..(m - 1) : s = m * p + r /\ r = s % m
  BY DivMod
<1>5. PICK r \in 0..(m - 1) : s = m * p + r /\ r = s % m
  BY <1>4
<1>6. M = m * c
  BY <1>1
<1>7. x = m * (c * q + p) + r
  <2>1. \A a, b, d \in Int : (a * b) * d = a * (b * d)
    OBVIOUS
  <2>2. M * q = m * (c * q)
    BY <1>6, <2>1
  <2>3. \A a, b, d \in Int : a * (b + d) = a * b + a * d
    OBVIOUS
  <2>4. c * q \in Int
    OBVIOUS
  <2>5. m * (c * q + p) = m * (c * q) + m * p
    BY <2>3, <2>4
  <2>6. m * (c * q) \in Int /\ m * p \in Int /\ m * (c * q + p) \in Int
    BY <2>4
  <2>7. x = m * (c * q) + (m * p + r)
    BY <2>2, <1>3, <1>5, Zenon
  <2>8. \A a, b \in Int : a + (b + r) = (a + b) + r
    OBVIOUS
  <2>9. m * (c * q) + (m * p + r) = (m * (c * q) + m * p) + r
    BY <2>6, <2>8
  <2> QED  BY <2>5, <2>7, <2>9, Zenon
<1>8. c * q + p \in Int
  OBVIOUS
<1>9. x % m = r
  BY <1>7, <1>8, ModUnique
<1> QED  BY <1>3, <1>5, <1>9

\* A short timer sees a tick of a long one.
LEMMA ModTick ==
  ASSUME NEW m \in Int, m > 0, NEW M \in Int, M > 0, M % m = 0,
         NEW x \in Nat
  PROVE  ((x + 1) % M) % m = ((x % m) + 1) % m
<1>1. ((x + 1) % M) % m = (x + 1) % m
  <2>1. x + 1 \in Int
    OBVIOUS
  <2> QED  BY <2>1, ModMod
<1>2. PICK q \in Int : \E s \in 0..(m - 1) : x = m * q + s /\ s = x % m
  BY DivMod
<1>3. PICK s \in 0..(m - 1) : x = m * q + s /\ s = x % m
  BY <1>2
<1>4. CASE s + 1 < m
  <2>1. x + 1 = m * q + (s + 1) /\ s + 1 \in 0..(m - 1) /\ x + 1 \in Int
    BY <1>3, <1>4
  <2>2. (x + 1) % m = s + 1
    BY <2>1, ModUnique
  <2>3. (s + 1) % m = s + 1
    BY <1>4
  <2> QED  BY <1>1, <1>3, <2>2, <2>3
<1>5. CASE s + 1 = m
  <2>1. m * (q + 1) = m * q + m
    OBVIOUS
  <2>2. x + 1 = m * (q + 1) + 0 /\ q + 1 \in Int /\ 0 \in 0..(m - 1) /\ x + 1 \in Int
    BY <1>3, <1>5, <2>1
  <2>3. (x + 1) % m = 0
    <3>1. \A k \in Int : \A y \in Int : y = m * k + 0 => y % m = 0
      BY <2>2, ModUnique
    <3> QED  BY <2>2, <3>1
  <2>4. m % m = 0
    OBVIOUS
  <2> QED  BY <1>1, <1>3, <1>5, <2>3, <2>4
<1> QED  BY <1>4, <1>5

\* The difference of two readings is the number of ticks, wherever it wraps.
LEMMA ModDiff ==
  ASSUME NEW m \in Int, m > 0, NEW a \in 0..(m - 1), NEW b \in 0..(m - 1)
  PROVE  (b - a) % m = IF a <= b THEN b - a ELSE b - a + m
OBVIOUS

-----------------------------------------------------------------------------
(* The frame of the steps *)

\* The parser of the tables touches no device.
LEMMA AcpiFrame ==
  ASSUME Acpi
  PROVE  /\ UNCHANGED <<hw, cal_vars, armed, ioapic_vars, irq_vars>>
         /\ pc \in {"mb2", "tags", "heap", "acpi", "tables", "madt"}
         /\ pc' \in {"tags", "heap", "acpi", "tables", "madt", "cpuid", "halted", "fault"}
BY DEF Acpi, AcpiNext, mb2_header, mb2_tag, tar_mb2_init, mb2_end, kmain_heap, acpi_refused,
       acpi_root, table_fault, table_FACP, table_MCFG, table_other, tables_end, madt_count,
       madt_record, madt_map, table_refused, At, Goto

\* enable_io_apics only fills its block.
LEMMA IoApicsFrame ==
  ASSUME enable_io_apics
  PROVE  /\ UNCHANGED <<hw, acpi_vars, cal_vars, armed, irq_vars>>
         /\ pc \in {"io_apics", "io_sizes", "io_infos"}
         /\ pc' \in {"io_sizes", "io_infos", "ps2"}
         /\ step' = 1 \/ step' = step + 1
BY DEF enable_io_apics, total_size_start, total_size_add, ioapic_infos_alloc, enable_io_apic,
       io_apics_end, Goto

\* The machine stays the same, and after the tables so does what was found,
\* but for the pages that are mapped.
LEMMA BootFrame ==
  ASSUME [Next]_vars
  PROVE  /\ hw' = hw
         /\ Acpi \/ UNCHANGED <<mmap, rsdp, rsdp_new, heap_ready, FADT, MCFG, info, APIC_INFO>>
<1>1. CASE Acpi
  BY <1>1, AcpiFrame
<1>2. CASE Kmain /\ ~Acpi
  BY <1>2, IoApicsFrame DEF Kmain, cpuid, enable_apic_fault, cal_fault, enable_apic, cal_start, cal_arm,
     cal_poll, cal_read, io_apics_fault, kmain_ps2, route_fault, ioapic_route, arm_timer, Fault,
     Goto, acpi_vars
<1>3. CASE Tick \/ KeyPress \/ Interrupt
  BY <1>3 DEF Tick, KeyPress, Interrupt, acpi_vars
<1>4. CASE Stopped \/ UNCHANGED vars
  BY <1>4 DEF Stopped, vars, acpi_vars
<1> QED  BY <1>1, <1>2, <1>3, <1>4 DEF Next

-----------------------------------------------------------------------------
(* Types *)

\* The constants, each with its type.
LEMMA Widths ==
  /\ MOD24 \in Int /\ MOD24 > 0 /\ MOD32 \in Int /\ MOD32 > 0 /\ MOD24 < MOD32
  /\ MOD32 % MOD24 = 0 /\ WAIT \in Int /\ WAIT > 0 /\ PM_PER_MS \in Nat /\ RATE \in Nat
  /\ MaxGap \in Int /\ MaxGap > 0 /\ WAIT + 2 * MaxGap < MOD24
BY BootAssumption

\* Where the timer of the machine wraps.
LEMMA TimerWidth ==
  ASSUME hw \in Machines
  PROVE  hw.pm.mod \in Int /\ hw.pm.mod > 0 /\ hw.pm.mod <= MOD32
         /\ (hw.pm.mod = MOD24 \/ hw.pm.mod = MOD32)
BY Widths, DevicesAssumption

\* A reading of the timer is below the mask the driver uses, and the difference
\* of two readings too.
LEMMA ReadingBounds ==
  ASSUME TypeInv
  PROVE  /\ pm_read \in 0..(MOD32 - 1)
         /\ elapsed_now \in 0..(mask - 1) /\ mask \in Int /\ mask > 0 /\ mask <= MOD32
         /\ mask >= MOD24 /\ elapsed_now \in 0..(MOD32 - 1)
<1>1. pm \in Int /\ pm >= 0 /\ pm < MOD32 /\ start \in Int
  BY TimerWidth, Widths DEF TypeInv, TypeOK
<1>2. pm % MOD24 \in 0..(MOD24 - 1)
  BY <1>1, Widths
<1>3. pm_read \in 0..(MOD32 - 1)
  BY <1>1, <1>2, Widths DEF pm_read
<1>4. mask \in Int /\ mask > 0 /\ mask <= MOD32 /\ mask >= MOD24
  BY Widths DEF mask
<1>5. \A a \in Int : \A b \in Int : b > 0 => a % b \in 0..(b - 1)
  OBVIOUS
<1>6. (pm_read - start) % MOD32 \in Int
  <2>1. pm_read - start \in Int
    BY <1>1, <1>3
  <2> QED  BY <2>1, <1>5, Widths
<1>7. elapsed_now \in 0..(mask - 1)
  BY <1>4, <1>5, <1>6 DEF elapsed_now
<1> QED  BY <1>3, <1>4, <1>7, Widths

\* The types hold at the start.
LEMMA TypeInit ==
  ASSUME Init
  PROVE  TypeInv
<1>1. hw \in Machines /\ step = 1 /\ pc = "mb2"
  BY DEF Init, AcpiInit
<1>2. {mmap, rsdp, rsdp_new, heap_ready, armed, line} \subseteq BOOLEAN
  BY DEF Init, AcpiInit
<1>3. pm \in 0..(hw.pm.mod - 1) /\ gap \in 0..MaxGap
  BY Widths DEF Init
<1>4. {start, elapsed} \subseteq 0..(MOD32 - 1) /\ {lapic, LAPIC_TICKS_PER_MS} \subseteq Nat
  BY Widths DEF Init
<1>5. redir \in [DOMAIN hw.ioapics -> Entries]
  BY <1>1, DevicesAssumption DEF Init, Entries
<1> QED  BY <1>1, <1>2, <1>3, <1>4, <1>5 DEF TypeInv, TypeOK

\* The steps of the processor keep to the places of kmain.
LEMMA PlacesStep ==
  ASSUME TypeInv, [Next]_vars
  PROVE  /\ hw' \in Machines /\ step' \in Nat
         /\ pc' \in {"mb2", "tags", "heap", "acpi", "tables", "madt", "cpuid", "apic",
                     "cal_start", "cal_arm", "cal_poll", "cal_read", "io_apics", "io_sizes",
                     "io_infos", "ps2", "route", "route_low", "arm", "running", "halted",
                     "fault"}
<1>0. hw' \in Machines
  BY BootFrame DEF TypeInv, TypeOK
<1>1. CASE Acpi
  <2>1. step' \in Nat
    BY <1>1 DEF TypeInv, TypeOK, Acpi, AcpiNext, mb2_header, mb2_tag, tar_mb2_init, mb2_end,
       kmain_heap, acpi_refused, acpi_root, table_fault, table_FACP, table_MCFG, table_other,
       tables_end, madt_count, madt_record, madt_map, table_refused, Goto
  <2> QED  BY <1>0, <1>1, <2>1, AcpiFrame
<1>2. CASE Kmain /\ ~Acpi
  <2>1. step' = 1 \/ step' = step + 1
    BY <1>2, IoApicsFrame DEF Kmain, cpuid, enable_apic_fault, cal_fault, enable_apic, cal_start,
       cal_arm, cal_poll, cal_read, io_apics_fault, kmain_ps2, route_fault, ioapic_route,
       arm_timer, Fault, Goto
  <2>2. pc' \in {"apic", "halted", "fault", "cal_start", "io_apics", "cal_arm", "cal_poll",
                 "cal_read", "io_sizes", "io_infos", "ps2", "route", "route_low", "arm",
                 "running"}
    BY <1>2, IoApicsFrame DEF Kmain, cpuid, enable_apic_fault, cal_fault, enable_apic, cal_start,
       cal_arm, cal_poll, cal_read, io_apics_fault, kmain_ps2, route_fault, ioapic_route,
       arm_timer, Fault, Goto
  <2> QED  BY <1>0, <2>1, <2>2 DEF TypeInv, TypeOK
<1>3. CASE Tick \/ KeyPress \/ Interrupt
  BY <1>0, <1>3 DEF TypeInv, TypeOK, Tick, KeyPress, Interrupt
<1>4. CASE Stopped \/ UNCHANGED vars
  BY <1>0, <1>4 DEF TypeInv, TypeOK, Stopped, vars
<1> QED  BY <1>1, <1>2, <1>3, <1>4 DEF Next

\* The flags stay Booleans.
LEMMA FlagsStep ==
  ASSUME TypeInv, [Next]_vars
  PROVE  {mmap', rsdp', rsdp_new', heap_ready', armed', line'} \subseteq BOOLEAN
<1>0. /\ mmap \in BOOLEAN /\ rsdp \in BOOLEAN /\ rsdp_new \in BOOLEAN
      /\ heap_ready \in BOOLEAN /\ armed \in BOOLEAN /\ line \in BOOLEAN
  BY DEF TypeInv, TypeOK
<1>1. CASE Acpi
  <2>1. armed' \in BOOLEAN /\ line' \in BOOLEAN
    BY <1>0, <1>1, AcpiFrame DEF irq_vars
  <2>2. CASE mb2_tag
    BY <1>0, <2>1, <2>2 DEF mb2_tag
  <2>3. CASE ~mb2_tag
    BY <1>0, <1>1, <2>1, <2>3 DEF Acpi, AcpiNext, mb2_header, tar_mb2_init, mb2_end,
       kmain_heap, acpi_refused, acpi_root, table_fault, table_FACP, table_MCFG, table_other,
       tables_end, madt_count, madt_record, madt_map, table_refused, acpi_vars
  <2> QED  BY <2>2, <2>3
<1>2. CASE Kmain /\ ~Acpi
  BY <1>0, <1>2, IoApicsFrame DEF Kmain, cpuid, enable_apic_fault, cal_fault, enable_apic, cal_start,
     cal_arm, cal_poll, cal_read, io_apics_fault, kmain_ps2, route_fault, ioapic_route,
     arm_timer, Fault, acpi_vars, irq_vars
<1>3. CASE Tick \/ KeyPress \/ Interrupt
  BY <1>0, <1>3 DEF Tick, KeyPress, Interrupt, acpi_vars, irq_vars
<1>4. CASE Stopped \/ UNCHANGED vars
  BY <1>0, <1>4 DEF Stopped, vars, acpi_vars, irq_vars
<1> QED  BY <1>1, <1>2, <1>3, <1>4 DEF Next

\* Only the calibration and the timers themselves move the timers.
LEMMA CalFrame ==
  ASSUME [Next]_vars
  PROVE  \/ cal_start \/ cal_arm \/ cal_poll \/ cal_read \/ Tick
         \/ UNCHANGED cal_vars
<1>1. CASE Acpi
  BY <1>1, AcpiFrame
<1>2. CASE Kmain /\ ~Acpi
  BY <1>2, IoApicsFrame DEF Kmain, cpuid, enable_apic_fault, cal_fault, enable_apic, io_apics_fault,
     kmain_ps2, route_fault, ioapic_route, arm_timer, Fault
<1>3. CASE KeyPress \/ Interrupt
  BY <1>3 DEF KeyPress, Interrupt
<1>4. CASE Stopped \/ UNCHANGED vars
  BY <1>4 DEF Stopped, vars
<1> QED  BY <1>1, <1>2, <1>3, <1>4 DEF Next

\* The entry of an ordinary redirection table is one again when a half of it is
\* written.
LEMMA HalfWritten ==
  ASSUME NEW e \in Entries
  PROVE  /\ high_half(e) \in Entries /\ high_half(e).dest = 0
         /\ high_half(e).vector = e.vector
         /\ low_half(e) \in Entries /\ low_half(e).dest = e.dest
BY DEF Entries, high_half, low_half, KEY_VECTOR

\* The redirection entries keep their form.
LEMMA RedirStep ==
  ASSUME TypeInv, [Next]_vars
  PROVE  redir' \in [DOMAIN hw'.ioapics -> Entries]
<1>0. hw' = hw /\ redir \in [DOMAIN hw.ioapics -> Entries]
  BY BootFrame DEF TypeInv
<1>1. CASE ioapic_route
  <2>1. PICK half : ioapic_write(half)
    BY <1>1 DEF ioapic_route
  <2>2. redir' = [redir EXCEPT ![Base] = IF half = "high" THEN high_half(redir[Base])
                                                          ELSE low_half(redir[Base])]
    BY <2>1 DEF ioapic_write
  <2>3. Base \in DOMAIN redir => redir[Base] \in Entries
    BY <1>0
  <2>4. Base \in DOMAIN redir =>
          high_half(redir[Base]) \in Entries /\ low_half(redir[Base]) \in Entries
    BY <2>3, HalfWritten
  <2> QED  BY <1>0, <2>2, <2>4
<1>2. CASE ~ioapic_route
  <2>1. redir' = redir
    <3>1. CASE Acpi
      BY <3>1, AcpiFrame DEF irq_vars
    <3>2. CASE Kmain /\ ~Acpi
      BY <1>2, <3>2, IoApicsFrame DEF Kmain, cpuid, enable_apic_fault, cal_fault, enable_apic,
         cal_start, cal_arm, cal_poll, cal_read, io_apics_fault, kmain_ps2, route_fault,
         arm_timer, Fault, irq_vars
    <3>3. CASE Tick \/ KeyPress \/ Interrupt
      BY <3>3 DEF Tick, KeyPress, Interrupt, irq_vars
    <3>4. CASE Stopped \/ UNCHANGED vars
      BY <3>4 DEF Stopped, vars, irq_vars
    <3> QED  BY <3>1, <3>2, <3>3, <3>4 DEF Next
  <2> QED  BY <1>0, <2>1
<1> QED  BY <1>1, <1>2

\* The counters keep their types: a difference is below the mask, and the
\* divisor is not 0.
LEMMA CountersStep ==
  ASSUME TypeInv, [Next]_vars
  PROVE  /\ pm' \in 0..(hw'.pm.mod - 1) /\ gap' \in 0..MaxGap
         /\ start' \in 0..(MOD32 - 1) /\ elapsed' \in 0..(MOD32 - 1)
         /\ lapic' \in Nat /\ LAPIC_TICKS_PER_MS' \in Nat
         /\ pc' = "cal_read" => elapsed' >= WAIT
<1>0. /\ hw' = hw /\ pm \in 0..(hw.pm.mod - 1) /\ gap \in 0..MaxGap
      /\ start \in 0..(MOD32 - 1) /\ elapsed \in 0..(MOD32 - 1)
      /\ lapic \in Nat /\ LAPIC_TICKS_PER_MS \in Nat
      /\ pc = "cal_read" => elapsed >= WAIT
  BY BootFrame DEF TypeInv, TypeOK
<1>1. CASE cal_start
  BY <1>0, <1>1, ReadingBounds, Widths DEF cal_start, Goto
<1>2. CASE cal_arm
  BY <1>0, <1>2, Widths DEF cal_arm, Goto
<1>3. CASE cal_poll
  <2>1. elapsed_now \in 0..(MOD32 - 1)
    BY ReadingBounds
  <2> QED  BY <1>0, <1>3, <2>1, Widths DEF cal_poll, Goto
<1>4. CASE cal_read
  <2>1. elapsed \in Int /\ elapsed > 0
    BY <1>0, <1>4, Widths DEF cal_read
  <2>2. lapic * PM_PER_MS \in Nat
    BY <1>0, Widths
  <2>3. (lapic * PM_PER_MS) \div elapsed \in Nat
    BY <2>1, <2>2, DivNat
  <2> QED  BY <1>0, <1>4, <2>3, Widths DEF cal_read, Goto
<1>5. CASE Tick
  <2>1. hw.pm.mod \in Int /\ hw.pm.mod > 0
    BY TimerWidth DEF TypeInv, TypeOK
  <2>2. pm + 1 \in Int
    BY <1>0
  <2>3. (pm + 1) % hw.pm.mod \in 0..(hw.pm.mod - 1)
    BY <2>1, <2>2
  <2>4. lapic + RATE \in Nat /\ gap + 1 \in Nat /\ gap < MaxGap
    BY <1>0, <1>5, Widths DEF Tick
  <2> QED  BY <1>0, <1>5, <2>3, <2>4, Widths DEF Tick
<1>6. CASE UNCHANGED cal_vars
  <2>1. pc' = "cal_read" => pc = "cal_read" \/ cal_poll
    <3>1. CASE Acpi
      BY <3>1, AcpiFrame
    <3>2. CASE Kmain /\ ~Acpi
      BY <3>2, IoApicsFrame DEF Kmain, cpuid, enable_apic_fault, cal_fault, enable_apic, cal_start,
         cal_arm, cal_read, io_apics_fault, kmain_ps2, route_fault, ioapic_route, arm_timer,
         Fault, Goto
    <3>3. CASE Tick \/ KeyPress \/ Interrupt
      BY <3>3 DEF Tick, KeyPress, Interrupt
    <3>4. CASE Stopped \/ UNCHANGED vars
      BY <3>4 DEF Stopped, vars
    <3> QED  BY <3>1, <3>2, <3>3, <3>4 DEF Next
  <2> QED  BY <1>0, <1>3, <1>6, <2>1 DEF cal_vars
<1> QED  BY <1>1, <1>2, <1>3, <1>4, <1>5, <1>6, CalFrame

\* The types are kept.
LEMMA TypeStep ==
  ASSUME TypeInv, [Next]_vars
  PROVE  TypeInv'
<1>1. TypeOK'
  BY PlacesStep, FlagsStep, CountersStep DEF TypeOK
<1> QED  BY <1>1, RedirStep, CountersStep DEF TypeInv

-----------------------------------------------------------------------------
(* The walk over the tables *)

\* The tables of a machine.
LEMMA TablesOfMachine ==
  ASSUME hw \in Machines
  PROVE  /\ Len(hw.tables) \in Nat /\ DOMAIN hw.tables = 1..Len(hw.tables)
         /\ \A k \in 1..Len(hw.tables) :
              /\ hw.tables[k] \in ACPISDTHeader \cup FADT_TABLE \cup ACPI_APIC
              /\ hw.tables[k].len \in Nat
              /\ hw.tables[k].sig = "FACP" => hw.tables[k] \in FADT_TABLE
              /\ hw.tables[k].sig = "APIC" => hw.tables[k] \in ACPI_APIC
<1> DEFINE S == ACPISDTHeader \cup FADT_TABLE \cup ACPI_APIC
<1>1. hw.tables \in Seq(S)
  BY AcpiAssumption
<1>2. PICK t : t = hw.tables
  OBVIOUS
<1> HIDE DEF S
<1>3. Len(t) \in Nat /\ DOMAIN t = 1..Len(t) /\ \A k \in 1..Len(t) : t[k] \in S
  BY <1>1, <1>2
<1>4. ASSUME NEW x \in S
      PROVE  /\ x.len \in Nat
             /\ x.sig = "FACP" => x \in FADT_TABLE
             /\ x.sig = "APIC" => x \in ACPI_APIC
  BY <1>4 DEF S, ACPISDTHeader, FADT_TABLE, ACPI_APIC
<1> QED  BY <1>2, <1>3, <1>4 DEF S

\* Where the walk begins.
LEMMA StepInit ==
  ASSUME Init
  PROVE  StepInv /\ FadtInv
BY DEF Init, AcpiInit, StepInv, FadtInv

\* It goes from one table to the next.
LEMMA StepStep ==
  ASSUME TypeInv, StepInv, [Next]_vars
  PROVE  StepInv'
<1>0. hw' = hw /\ Len(hw.tables) \in Nat /\ step \in Nat
  BY BootFrame, TablesOfMachine DEF TypeInv, TypeOK
<1>1. CASE Acpi
  <2>1. CASE mb2_header \/ mb2_tag \/ tar_mb2_init \/ mb2_end \/ kmain_heap \/ acpi_refused
             \/ tables_end \/ table_fault
    BY <2>1, <1>0 DEF mb2_header, mb2_tag, tar_mb2_init, mb2_end, kmain_heap, acpi_refused,
       tables_end, table_fault, Goto, StepInv
  <2>2. CASE acpi_root
    BY <2>2, <1>0 DEF acpi_root, Goto, StepInv
  <2>3. CASE table_FACP \/ table_MCFG \/ table_other
    BY <2>3, <1>0 DEF table_FACP, table_MCFG, table_other, table_refused, At, Goto, StepInv
  <2>4. CASE madt_count
    BY <2>4, <1>0 DEF madt_count, table_refused, At, Table, Goto, StepInv
  <2>5. CASE madt_record
    BY <2>5, <1>0 DEF madt_record, Goto, StepInv
  <2>6. CASE madt_map
    BY <2>6, <1>0 DEF madt_map, Goto, StepInv
  <2> QED  BY <1>1, <2>1, <2>2, <2>3, <2>4, <2>5, <2>6 DEF Acpi, AcpiNext
<1>2. CASE Kmain /\ ~Acpi
  <2>1. pc' \notin {"tables", "madt"}
    BY <1>2, IoApicsFrame DEF Kmain, cpuid, enable_apic_fault, cal_fault, enable_apic, cal_start,
       cal_arm, cal_poll, cal_read, io_apics_fault, kmain_ps2, route_fault, ioapic_route,
       arm_timer, Fault, Goto
  <2> QED  BY <2>1 DEF StepInv
<1>3. CASE Tick \/ KeyPress \/ Interrupt \/ Stopped \/ UNCHANGED vars
  <2>1. UNCHANGED <<pc, step, hw>>
    BY <1>3 DEF Tick, KeyPress, Interrupt, Stopped, vars
  <2> QED  BY <2>1 DEF StepInv
<1> QED  BY <1>1, <1>2, <1>3 DEF Next

\* The table that is copied to FADT, and what of it is kept.
LEMMA FadtStep ==
  ASSUME TypeInv, StepInv, FadtInv, [Next]_vars
  PROVE  FadtInv'
<1>0. hw' = hw /\ hw \in Machines
  BY BootFrame DEF TypeInv, TypeOK
<1>1. CASE FADT' = FADT
  BY <1>0, <1>1 DEF FadtInv
<1>2. CASE FADT' # FADT
  <2>1. Acpi
    BY <1>2, BootFrame
  <2>2. table_FACP /\ ~table_refused(FADT, SIZEOF_FADT)
    BY <1>2, <2>1 DEF Acpi, AcpiNext, mb2_header, mb2_tag, tar_mb2_init, mb2_end, kmain_heap,
       acpi_refused, acpi_root, table_fault, table_MCFG, table_other, tables_end, madt_count,
       madt_record, madt_map, table_refused, acpi_vars
  <2>3. /\ pc = "tables" /\ step <= Len(hw.tables) /\ hw.tables[step].sig = "FACP"
        /\ FADT' = [hw.tables[step] EXCEPT !.valid = @ /\ ~full_length(hw.tables[step])]
    BY <2>2 DEF table_FACP, At, Table
  <2>4. step \in 1..Len(hw.tables)
    BY <2>3, <1>0, TablesOfMachine DEF StepInv
  <2>5. hw.tables[step] \in FADT_TABLE
    BY <2>3, <2>4, <1>0, TablesOfMachine
  <2>6. FADT'.is32 = hw.tables[step].is32
    BY <2>3, <2>5 DEF FADT_TABLE
  <2>7. step \in DOMAIN hw.tables
    BY <2>4, <1>0, TablesOfMachine
  <2> QED  BY <2>3, <2>6, <2>7, <1>0 DEF FadtInv
<1> QED  BY <1>1, <1>2

-----------------------------------------------------------------------------
(* The calibration *)

\* A reading is below the mask: what the FADT says of the width is not more than
\* the timer has.
LEMMA ReadingBelowMask ==
  ASSUME FadtTellsWidth, TypeInv, FadtInv, FADT # None
  PROVE  /\ pm_read \in 0..(mask - 1)
         /\ FADT.is32 => hw.pm.mod = MOD32
<1>1. FADT.is32 => hw.pm.mod = MOD32
  BY DEF FadtInv, FadtTellsWidth, TypeInv, TypeOK
<1>2. pm \in 0..(hw.pm.mod - 1)
  BY DEF TypeInv, TypeOK
<1>3. pm \in Int /\ pm % MOD24 \in 0..(MOD24 - 1)
  <2>1. pm \in Int
    BY <1>2, TimerWidth DEF TypeInv, TypeOK
  <2> QED  BY <2>1, Widths
<1>4. pm_read \in 0..(mask - 1)
  BY <1>1, <1>2, <1>3 DEF pm_read, mask
<1> QED  BY <1>1, <1>4

\* The masked difference is the distance from start to the reading, around the
\* end of the timer if it wrapped.
LEMMA DifferenceIsDistance ==
  ASSUME NEW m, m = MOD24 \/ m = MOD32, NEW s \in 0..(m - 1), NEW r \in 0..(m - 1)
  PROVE  ((r - s) % MOD32) % m = IF s <= r THEN r - s ELSE r - s + m
<1>1. m \in Int /\ m > 0
  BY Widths
<1>2. PICK d \in Int : d = r - s
  BY <1>1
<1>3. (d % MOD32) % m = d % m
  <2>1. CASE m = MOD24
    BY <2>1, ModMod, Widths
  <2>2. CASE m = MOD32
    <3>1. d % MOD32 \in 0..(MOD32 - 1)
      BY Widths
    <3>2. \A x \in 0..(MOD32 - 1) : x % MOD32 = x
      BY Widths
    <3> QED  BY <2>2, <3>1, <3>2
  <2> QED  BY <2>1, <2>2
<1>4. d % m = IF s <= r THEN r - s ELSE r - s + m
  BY <1>1, <1>2, ModDiff
<1> QED  BY <1>2, <1>3, <1>4

\* A tick moves the reading by one, modulo the mask.
LEMMA ReadingTicks ==
  ASSUME FadtTellsWidth, TypeInv, FadtInv, FADT # None, Tick
  PROVE  /\ pm_read' = (pm_read + 1) % mask /\ mask' = mask
<1>0. hw' = hw /\ FADT' = FADT /\ pm' = (pm + 1) % hw.pm.mod
  BY DEF Tick, acpi_vars
<1>1. mask' = mask
  BY <1>0 DEF mask
<1>2. pm \in Nat /\ hw.pm.mod \in Int /\ hw.pm.mod > 0
      /\ (hw.pm.mod = MOD24 \/ hw.pm.mod = MOD32)
  BY TimerWidth DEF TypeInv, TypeOK
<1>3. CASE FADT.is32
  <2>1. hw.pm.mod = MOD32
    BY <1>3, ReadingBelowMask
  <2> QED  BY <1>0, <1>1, <1>3, <2>1 DEF pm_read, mask
<1>4. CASE ~FADT.is32
  <2>1. hw.pm.mod % MOD24 = 0
    <3>1. MOD24 % MOD24 = 0
      BY Widths
    <3> QED  BY <1>2, <3>1, Widths
  <2>2. ((pm + 1) % hw.pm.mod) % MOD24 = ((pm % MOD24) + 1) % MOD24
    BY <1>2, <2>1, ModTick, Widths
  <2> QED  BY <1>0, <1>1, <1>4, <2>2 DEF pm_read, mask
<1> QED  BY <1>1, <1>3, <1>4

\* The difference counts the ticks as long as fewer than the mask have passed.
LEMMA DifferenceTicks ==
  ASSUME FadtTellsWidth, TypeInv, FadtInv, FADT # None,
         start \in 0..(mask - 1), Tick, elapsed_now + 1 < mask
  PROVE  elapsed_now' = elapsed_now + 1
<1>0. hw' = hw /\ FADT' = FADT /\ start' = start
  BY DEF Tick, acpi_vars
<1>1. pm_read' = (pm_read + 1) % mask /\ mask' = mask
  BY ReadingTicks
<1>2. pm_read \in 0..(mask - 1) /\ mask \in Int /\ mask > 0
  BY ReadingBelowMask, ReadingBounds
<1>3. (pm_read + 1) % mask = IF pm_read + 1 < mask THEN pm_read + 1 ELSE 0
  <2>1. CASE pm_read + 1 < mask
    BY <2>1, <1>2
  <2>2. CASE ~(pm_read + 1 < mask)
    <3>1. pm_read + 1 = mask /\ mask % mask = 0
      BY <2>2, <1>2
    <3> QED  BY <2>2, <3>1
  <2> QED  BY <2>1, <2>2
<1>4. mask = MOD24 \/ mask = MOD32
  BY DEF mask
<1>5. elapsed_now = IF start <= pm_read THEN pm_read - start ELSE pm_read - start + mask
  BY <1>2, <1>4, DifferenceIsDistance DEF elapsed_now
<1>6. elapsed_now' =
        IF start <= pm_read' THEN pm_read' - start ELSE pm_read' - start + mask
  <2>1. pm_read' \in 0..(mask - 1)
    BY <1>1, <1>2, <1>3
  <2>2. elapsed_now' = ((pm_read' - start) % MOD32) % mask
    BY <1>0, <1>1 DEF elapsed_now
  <2> QED  BY <1>4, <2>1, <2>2, DifferenceIsDistance
<1> QED  BY <1>1, <1>2, <1>3, <1>5, <1>6

\* A step that leaves the place, the timers and the FADT alone.
LEMMA CalUnchanged ==
  ASSUME CalInv, UNCHANGED <<pc, hw, FADT, cal_vars>>
  PROVE  CalInv'
<1>1. UNCHANGED <<pc, pm, gap, lapic, start, elapsed, FADT>>
  BY DEF cal_vars
<1>2. pm_read' = pm_read /\ mask' = mask
  BY <1>1 DEF pm_read, mask
<1>3. elapsed_now' = elapsed_now
  BY <1>1, <1>2 DEF elapsed_now
<1>4. \A n : Counted(n)' <=> Counted(n)
  BY <1>1 DEF Counted
<1>5. Counted(elapsed_now)' <=> Counted(elapsed_now)
  BY <1>1, <1>3 DEF Counted
<1>6. Counted(elapsed + gap)' <=> Counted(elapsed + gap)
  BY <1>1 DEF Counted
<1>7. CalibrationAccurate' <=> CalibrationAccurate
  BY <1>1 DEF CalibrationAccurate
<1> QED  BY <1>1, <1>2, <1>3, <1>5, <1>6, <1>7 DEF CalInv

\* A step to a place where the calibration is over, or has not begun.
LEMMA CalElsewhere ==
  ASSUME pc' \notin {"cal_start", "cal_arm", "cal_poll", "cal_read", "io_apics"},
         pc' \in {"mb2", "tags", "heap", "acpi", "tables", "madt", "cpuid", "apic"}
           => elapsed' = 0
  PROVE  CalInv'
BY DEF CalInv, CalibrationAccurate

\* Nothing has been measured at the start.
LEMMA CalInit ==
  ASSUME Init
  PROVE  CalInv
BY DEF Init, AcpiInit, CalInv, CalibrationAccurate

\* The first reading.
LEMMA CalStartStep ==
  ASSUME FadtTellsWidth, TypeInv, FadtInv, CalInv, cal_start
  PROVE  CalInv'
<1>1. /\ pc = "cal_start" /\ pc' = "cal_arm" /\ FADT # None /\ elapsed = 0
      /\ UNCHANGED <<FADT, pm, elapsed>> /\ start' = pm_read /\ gap' = 0
  BY DEF CalInv, cal_start, Goto, acpi_vars
<1>2. pm_read' = pm_read /\ mask' = mask
  BY <1>1 DEF pm_read, mask
<1>3. pm_read \in 0..(mask - 1) /\ mask \in Int
  BY <1>1, ReadingBelowMask, ReadingBounds
<1>4. elapsed_now' = ((pm_read - pm_read) % MOD32) % mask
  BY <1>1, <1>2 DEF elapsed_now
<1>5. elapsed_now' = 0
  <2>1. mask = MOD24 \/ mask = MOD32
    BY DEF mask
  <2>2. ((pm_read - pm_read) % MOD32) % mask = pm_read - pm_read
    BY <1>3, <2>1, DifferenceIsDistance
  <2> QED  BY <1>3, <1>4, <2>2
<1> QED  BY <1>1, <1>2, <1>3, <1>5 DEF CalInv, CalibrationAccurate

\* The count starts at most MaxGap ticks later.
LEMMA CalArmStep ==
  ASSUME TypeInv, CalInv, cal_arm
  PROVE  CalInv'
<1>1. /\ pc = "cal_arm" /\ pc' = "cal_poll" /\ FADT # None /\ elapsed_now = gap
      /\ UNCHANGED <<FADT, pm, elapsed, start>> /\ lapic' = 0 /\ gap' = 0
      /\ start \in 0..(mask - 1)
  BY DEF CalInv, cal_arm, Goto, acpi_vars
<1>2. pm_read' = pm_read /\ mask' = mask
  BY <1>1 DEF pm_read, mask
<1>3. elapsed_now' = elapsed_now
  BY <1>1, <1>2 DEF elapsed_now
<1>4. gap \in 0..MaxGap /\ RATE \in Nat /\ MaxGap \in Int
  BY Widths DEF TypeInv, TypeOK
<1>5. Counted(elapsed_now)'
  <2>1. lapic' = RATE * (elapsed_now' - gap)
    BY <1>1, <1>3, <1>4
  <2> QED  BY <1>1, <1>3, <1>4, <2>1 DEF Counted
<1>6. gap' <= elapsed_now' /\ elapsed_now' - gap' <= MaxGap
  BY <1>1, <1>3, <1>4
<1> QED  BY <1>1, <1>2, <1>5, <1>6 DEF CalInv, CalibrationAccurate

\* A reading inside the window, or the one that ends it.
LEMMA CalPollStep ==
  ASSUME TypeInv, CalInv, cal_poll
  PROVE  CalInv'
<1>1. /\ pc = "cal_poll" /\ FADT # None /\ Counted(elapsed_now)
      /\ UNCHANGED <<FADT, pm, start, lapic>> /\ elapsed' = elapsed_now /\ gap' = 0
      /\ start \in 0..(mask - 1)
      /\ pc' = IF elapsed_now < WAIT THEN "cal_poll" ELSE "cal_read"
  BY DEF CalInv, cal_poll, Goto, acpi_vars
<1>2. pm_read' = pm_read /\ mask' = mask
  BY <1>1 DEF pm_read, mask
<1>3. elapsed_now' = elapsed_now
  BY <1>1, <1>2 DEF elapsed_now
<1>4. elapsed_now \in Int /\ elapsed_now >= 0
  BY ReadingBounds, Widths
<1>5. CASE elapsed_now < WAIT
  <2>1. Counted(elapsed_now)'
    BY <1>1, <1>3 DEF Counted
  <2>2. gap' <= elapsed_now' /\ elapsed_now' - gap' < WAIT
    BY <1>1, <1>3, <1>4, <1>5, Widths
  <2> QED  BY <1>1, <1>2, <1>5, <2>1, <2>2 DEF CalInv, CalibrationAccurate
<1>6. CASE ~(elapsed_now < WAIT)
  <2>1. (elapsed + gap)' = elapsed_now
    BY <1>1, <1>4
  <2>2. Counted(elapsed + gap)'
    BY <1>1, <2>1 DEF Counted
  <2> QED  BY <1>1, <1>6, <2>2 DEF CalInv, CalibrationAccurate
<1> QED  BY <1>5, <1>6

\* The result: the count is off by the ticks before it started and those after
\* the last reading.
LEMMA CalReadStep ==
  ASSUME TypeInv, CalInv, cal_read
  PROVE  CalInv'
<1>1. /\ pc = "cal_read" /\ pc' = "io_apics" /\ Counted(elapsed + gap)
      /\ UNCHANGED <<lapic, elapsed>>
  BY DEF CalInv, cal_read, Goto
<1>2. PICK t \in 0..MaxGap : lapic = RATE * ((elapsed + gap) - t)
  BY <1>1, Zenon DEF Counted
<1>3. elapsed \in Int /\ gap \in 0..MaxGap /\ elapsed >= WAIT /\ RATE \in Nat /\ MaxGap \in Int
  BY <1>1, Widths DEF TypeInv, TypeOK
<1>4. PICK d \in Int : d = gap - t /\ -MaxGap <= d /\ d <= MaxGap
  BY <1>3
<1>5. lapic - RATE * elapsed = RATE * d
  <2>1. RATE * (elapsed + d) = RATE * elapsed + RATE * d
    BY <1>3
  <2>2. (elapsed + gap) - t = elapsed + d
    BY <1>3, <1>4
  <2> QED  BY <1>2, <1>3, <2>1, <2>2
<1>6. RATE * d <= RATE * MaxGap /\ -(RATE * MaxGap) <= RATE * d
  <2>1. \A a \in Nat : \A x, y \in Int : x <= y => a * x <= a * y
    OBVIOUS
  <2>2. RATE * (-MaxGap) <= RATE * d
    BY <1>3, <1>4, <2>1
  <2> QED  BY <1>3, <1>4, <2>1, <2>2
<1>7. lapic - RATE * elapsed \in -(RATE * MaxGap)..(RATE * MaxGap)
  BY <1>3, <1>5, <1>6
<1>8. CalibrationAccurate'
  BY <1>1, <1>3, <1>7 DEF CalibrationAccurate
<1> QED  BY <1>1, <1>8 DEF CalInv

\* A tick during the calibration.
LEMMA CalTickStep ==
  ASSUME FadtTellsWidth, TypeInv, FadtInv, CalInv, Tick
  PROVE  CalInv'
<1>1. /\ pc' = pc /\ pc \in {"cal_arm", "cal_poll", "cal_read"}
      /\ UNCHANGED <<FADT, start, elapsed>> /\ gap' = gap + 1 /\ gap < MaxGap
      /\ lapic' = lapic + RATE
  BY DEF Tick, Calibrating, acpi_vars
<1>2. mask' = mask
  BY <1>1 DEF mask
<1>3. /\ gap \in Int /\ gap >= 0 /\ MaxGap \in Int /\ WAIT \in Int /\ WAIT > 0 /\ RATE \in Nat
      /\ WAIT + 2 * MaxGap < MOD24 /\ MOD24 \in Int /\ elapsed \in Int /\ lapic \in Nat
  BY Widths DEF TypeInv, TypeOK
<1>4. mask \in Int /\ mask >= MOD24 /\ elapsed_now \in Int
  BY ReadingBounds, Widths
<1>5. ASSUME NEW n \in Int, NEW n1, n1 = n + 1, Counted(n)
      PROVE  \E t \in 0..MaxGap : t <= n1 /\ lapic' = RATE * (n1 - t)
  <2>1. PICK t \in 0..MaxGap : t <= n /\ lapic = RATE * (n - t)
    BY <1>5 DEF Counted
  <2>2. PICK d \in Int : d = n - t
    OBVIOUS
  <2>3. RATE * (d + 1) = RATE * d + RATE
    BY <1>3
  <2>4. n1 - t = d + 1 /\ t <= n1
    BY <1>5, <2>1, <2>2, <1>3
  <2>5. lapic' = RATE * (n1 - t)
    BY <1>1, <2>1, <2>2, <2>3, <2>4
  <2> QED  BY <2>4, <2>5
<1>6. CASE pc = "cal_arm"
  <2>1. FADT # None /\ start \in 0..(mask - 1) /\ elapsed_now = gap /\ elapsed = 0
    BY <1>6 DEF CalInv
  <2>2. elapsed_now + 1 < mask
    BY <1>1, <1>3, <1>4, <2>1
  <2>3. elapsed_now' = elapsed_now + 1
    BY <2>1, <2>2, DifferenceTicks
  <2> QED  BY <1>1, <1>2, <1>6, <2>1, <2>3 DEF CalInv, CalibrationAccurate
<1>7. CASE pc = "cal_poll"
  <2>1. /\ FADT # None /\ start \in 0..(mask - 1) /\ Counted(elapsed_now)
        /\ gap <= elapsed_now
        /\ elapsed_now - gap <= MaxGap \/ elapsed_now - gap < WAIT
    BY <1>7 DEF CalInv
  <2>2. elapsed_now + 1 < mask
    BY <1>1, <1>3, <1>4, <2>1
  <2>3. elapsed_now' = elapsed_now + 1
    BY <2>1, <2>2, DifferenceTicks
  <2>4. Counted(elapsed_now)'
    BY <1>4, <1>5, <2>1, <2>3 DEF Counted
  <2>5. gap' <= elapsed_now' /\ elapsed_now' - gap' = elapsed_now - gap
    BY <1>1, <1>3, <1>4, <2>1, <2>3
  <2> QED  BY <1>1, <1>2, <1>7, <2>1, <2>4, <2>5 DEF CalInv, CalibrationAccurate
<1>8. CASE pc = "cal_read"
  <2>1. Counted(elapsed + gap)
    BY <1>8 DEF CalInv
  <2>2. (elapsed + gap)' = (elapsed + gap) + 1 /\ elapsed + gap \in Int
    BY <1>1, <1>3
  <2>3. Counted(elapsed + gap)'
    BY <1>5, <2>1, <2>2 DEF Counted
  <2> QED  BY <1>1, <1>8, <2>3 DEF CalInv, CalibrationAccurate
<1> QED  BY <1>1, <1>6, <1>7, <1>8

\* Every step keeps the measurement.
LEMMA CalStep ==
  ASSUME FadtTellsWidth, TypeInv, FadtInv, CalInv, [Next]_vars
  PROVE  CalInv'
<1>1. CASE Acpi
  <2>1. elapsed' = 0
    BY <1>1, AcpiFrame DEF cal_vars, CalInv
  <2> QED  BY <1>1, <2>1, AcpiFrame, CalElsewhere
<1>2. CASE cpuid \/ enable_apic_fault \/ cal_fault
  BY <1>2, CalElsewhere DEF cpuid, enable_apic_fault, cal_fault, Fault, Goto, cal_vars, CalInv
<1>3. CASE enable_apic
  <2>1. /\ pc' = IF pm_named THEN "cal_start" ELSE "io_apics"
        /\ elapsed' = 0 /\ FADT' = FADT
    BY <1>3 DEF enable_apic, Goto, cal_vars, CalInv
  <2>2. pm_named => FADT # None
    BY DEF pm_named
  <2> QED  BY <2>1, <2>2 DEF CalInv, CalibrationAccurate
<1>4. CASE cal_start \/ cal_arm \/ cal_poll \/ cal_read \/ Tick
  BY <1>4, CalStartStep, CalArmStep, CalPollStep, CalReadStep, CalTickStep
<1>5. CASE io_apics_fault \/ enable_io_apics \/ kmain_ps2 \/ route_fault \/ ioapic_route
           \/ arm_timer
  <2>1. pc' \in {"fault", "io_sizes", "io_infos", "ps2", "route", "route_low", "arm", "running"}
    BY <1>5, IoApicsFrame DEF io_apics_fault, kmain_ps2, route_fault, ioapic_route,
       arm_timer, Fault, Goto
  <2> QED  BY <2>1, CalElsewhere
<1>6. CASE KeyPress \/ Interrupt \/ Stopped \/ UNCHANGED vars
  <2>1. UNCHANGED <<pc, hw, FADT, cal_vars>>
    BY <1>6 DEF KeyPress, Interrupt, Stopped, vars, acpi_vars
  <2> QED  BY <2>1, CalUnchanged
<1> QED  BY <1>1, <1>2, <1>3, <1>4, <1>5, <1>6 DEF Next, Kmain

-----------------------------------------------------------------------------
(* The routing of the keyboard *)

\* The firmware has not given the vector away.
LEMMA RouteInit ==
  ASSUME KeyVectorFree, Init
  PROVE  RouteInv
<1>1. hw \in Machines /\ pc = "mb2" /\ pending = None /\ delivered = {}
      /\ redir = [a \in DOMAIN hw.ioapics |-> hw.ioapics[a].entry]
  BY DEF Init, AcpiInit
<1>2. \A a \in DOMAIN hw.ioapics : hw.ioapics[a].entry.vector # KEY_VECTOR
  BY <1>1 DEF KeyVectorFree
<1> QED  BY <1>1, <1>2 DEF RouteInv, RoutedWhole

\* The halves are written in the order of the code: the processor, then the vector.
LEMMA RouteWriteStep ==
  ASSUME TypeInv, RouteInv, ioapic_route
  PROVE  RouteInv'
<1>0. redir \in [DOMAIN hw.ioapics -> Entries]
      /\ UNCHANGED <<ioapic_infos, pending, delivered>> /\ Base' = Base
  BY DEF TypeInv, ioapic_route, ioapic_vars, Base
<1>1. CASE pc = "route"
  <2>1. /\ pc' = "route_low"
        /\ redir' = [redir EXCEPT ![Base] = high_half(redir[Base])]
    BY <1>1 DEF ioapic_route, ioapic_route_halves, ioapic_write, Goto
  <2>2. Base \in DOMAIN redir =>
          high_half(redir[Base]).dest = 0
    BY <1>0, HalfWritten
  <2>3. DOMAIN redir' = DOMAIN redir
    BY <2>1
  <2>4. \A a \in DOMAIN redir :
          redir'[a] = IF a = Base THEN high_half(redir[a]) ELSE redir[a]
    BY <2>1
  <2> QED  BY <1>0, <2>1, <2>2, <2>3, <2>4 DEF RouteInv, RoutedWhole
<1>2. CASE pc = "route_low"
  <2>1. /\ pc' = "arm"
        /\ redir' = [redir EXCEPT ![Base] = low_half(redir[Base])]
    BY <1>2 DEF ioapic_route, ioapic_route_halves, ioapic_write, Goto
  <2>2. Base \in DOMAIN redir => low_half(redir[Base]).dest = 0
    <3>1. ASSUME Base \in DOMAIN redir
          PROVE  low_half(redir[Base]).dest = redir[Base].dest /\ redir[Base].dest = 0
      BY <1>0, <1>2, <3>1, HalfWritten DEF RouteInv
    <3> QED  BY <3>1
  <2>3. DOMAIN redir' = DOMAIN redir
    BY <2>1
  <2>4. \A a \in DOMAIN redir :
          redir'[a] = IF a = Base THEN low_half(redir[a]) ELSE redir[a]
    BY <2>1
  <2> QED  BY <1>0, <2>1, <2>2, <2>3, <2>4 DEF RouteInv, RoutedWhole
<1> QED  BY <1>1, <1>2 DEF ioapic_route

\* An interrupt carries what the entry of its pin holds at that moment.
LEMMA KeyPressStep ==
  ASSUME TypeInv, RouteInv, KeyPress
  PROVE  RouteInv'
<1>0. UNCHANGED <<hw, pc, ioapic_infos, redir, delivered>> /\ Base' = Base
  BY DEF KeyPress, ioapic_vars, Base
<1>1. CASE \E a \in Wired : ~redir[a].masked
  <2>1. PICK a \in Wired : a = CHOOSE b \in Wired : TRUE
    BY <1>1
  <2>2. a \in DOMAIN redir
    BY <2>1 DEF Wired, TypeInv
  <2>3. pending' = [vector |-> redir[a].vector, dest |-> redir[a].dest]
    BY <1>1, <2>1 DEF KeyPress
  <2>4. pending'.vector = KEY_VECTOR => pending'.dest = 0
    BY <2>2, <2>3 DEF RouteInv
  <2> QED  BY <1>0, <2>4 DEF RouteInv, RoutedWhole
<1>2. CASE ~\E a \in Wired : ~redir[a].masked
  <2>1. pending' = pending
    BY <1>2 DEF KeyPress
  <2> QED  BY <1>0, <2>1 DEF RouteInv, RoutedWhole
<1> QED  BY <1>1, <1>2

\* Every step keeps the routing whole.
LEMMA RouteStep ==
  ASSUME TypeInv, RouteInv, [Next]_vars
  PROVE  RouteInv'
<1>1. CASE ioapic_route \/ KeyPress
  BY <1>1, RouteWriteStep, KeyPressStep
<1>2. CASE Interrupt
  <2>1. /\ UNCHANGED <<pc, redir, ioapic_infos>> /\ Base' = Base
        /\ pending # None /\ pending' = None /\ delivered' = delivered \cup {pending}
    BY <1>2 DEF Interrupt, ioapic_vars, Base
  <2> QED  BY <2>1 DEF RouteInv, RoutedWhole
<1>3. CASE Acpi
  BY <1>3, AcpiFrame DEF irq_vars, RouteInv, RoutedWhole
<1>4. CASE cpuid \/ enable_apic_fault \/ cal_fault \/ enable_apic \/ cal_start \/ cal_arm \/ cal_poll
           \/ cal_read \/ io_apics_fault \/ enable_io_apics \/ kmain_ps2 \/ route_fault
           \/ arm_timer
  <2>1. UNCHANGED irq_vars /\ pc' # "route_low"
    BY <1>4, IoApicsFrame DEF cpuid, enable_apic_fault, cal_fault, enable_apic, cal_start, cal_arm,
       cal_poll, cal_read, io_apics_fault, kmain_ps2, route_fault, arm_timer, Fault, Goto
  <2> QED  BY <2>1 DEF irq_vars, RouteInv, RoutedWhole
<1>5. CASE Tick \/ Stopped \/ UNCHANGED vars
  <2>1. UNCHANGED <<pc, ioapic_infos, irq_vars>> /\ Base' = Base
    BY <1>5 DEF Tick, Stopped, vars, ioapic_vars, Base
  <2> QED  BY <2>1 DEF irq_vars, RouteInv, RoutedWhole
<1> QED  BY <1>1, <1>2, <1>3, <1>4, <1>5 DEF Next, Kmain

-----------------------------------------------------------------------------
(* The MADT is found *)

\* What the walk uses of an ordinary machine.
LEMMA OrdinaryMachine ==
  ASSUME hw \in Machines, Ordinary
  PROVE  /\ hw.frames /\ hw.root_pages = {Min(hw.root_pages)}
         /\ \A k \in 1..Len(hw.tables) :
              /\ hw.tables[k].valid
              /\ hw.tables[k].sig = "FACP" => hw.tables[k].len <= SIZEOF_FADT
              /\ hw.tables[k].sig \in {"MCFG", "APIC"} => hw.tables[k].len <= SIZEOF_MCFG
              /\ hw.tables[k].sig = "APIC" =>
                   \A j \in 1..Len(hw.tables) :
                     hw.tables[j].sig = "MCFG" => hw.tables[j].len <= hw.tables[k].len
              /\ hw.tables[k].sig \in {"FACP", "MCFG"} =>
                   \A j \in 1..Len(hw.tables) : hw.tables[j].sig = hw.tables[k].sig => j = k
<1>1. hw.frames /\ Cardinality(hw.root_pages) = 1
  BY DEF Ordinary
<1>2. hw.root_pages \in SUBSET Nat /\ IsFiniteSet(hw.root_pages)
  BY AcpiAssumption
<1>3. PICK p : hw.root_pages = {p}
  BY <1>1, <1>2, FS_Singleton
<1>4. Min(hw.root_pages) = p
  <2>1. p \in Nat
    BY <1>2, <1>3
  <2> QED  BY <1>3, <2>1 DEF Min
<1>5. DOMAIN hw.tables = 1..Len(hw.tables)
  BY TablesOfMachine
<1> QED  BY <1>1, <1>3, <1>4, <1>5 DEF Ordinary

\* Nothing is found before the walk.
LEMMA WalkInit ==
  ASSUME Init
  PROVE  WalkInv
BY DEF Init, AcpiInit, WalkInv, MadtFound

\* Before the tables.
LEMMA WalkBefore ==
  ASSUME TypeInv, WalkInv,
         mb2_header \/ mb2_tag \/ tar_mb2_init \/ mb2_end \/ kmain_heap
  PROVE  WalkInv'
<1>1. /\ pc \in {"mb2", "tags", "heap"} /\ pc' \notin {"tables", "madt", "cpuid"}
      /\ UNCHANGED <<FADT, MCFG>>
  BY DEF mb2_header, mb2_tag, tar_mb2_init, mb2_end, kmain_heap, Goto, acpi_vars
<1> QED  BY <1>1 DEF WalkInv, MadtFound

\* The root table of an ordinary machine is not refused, and it is mapped.
LEMMA WalkRoot ==
  ASSUME TypeInv, WalkInv, acpi_refused \/ acpi_root
  PROVE  WalkInv'
<1>0. hw' = hw /\ UNCHANGED <<rsdp, rsdp_new, FADT, MCFG, APIC_INFO>> /\ hw \in Machines
  BY DEF acpi_refused, acpi_root, Goto, acpi_vars, TypeInv, TypeOK
<1>1. Ordinary' <=> Ordinary
  BY <1>0 DEF Ordinary
<1>2. CASE acpi_refused
  <2>1. /\ pc' = "cpuid"
        /\ ~(rsdp \/ rsdp_new) \/ ~rsdp_good(hw.rsdp[chosen]) \/ ~hw.frames
    BY <1>2 DEF acpi_refused, Goto
  <2>2. chosen' = chosen /\ (rsdp_good(hw.rsdp[chosen])' <=> rsdp_good(hw.rsdp[chosen]))
    BY <1>0 DEF chosen, rsdp_good
  <2>3. Ordinary => hw.frames
    BY <1>0, OrdinaryMachine
  <2>4. MadtFound'
    BY <1>0, <1>1, <2>1, <2>2, <2>3 DEF MadtFound
  <2> QED  BY <2>1, <2>4 DEF WalkInv
<1>3. CASE acpi_root
  <2>1. /\ pc = "acpi" /\ pc' = "tables" /\ step' = 1
        /\ mapped' = mapped \cup {Min(hw.root_pages)}
    BY <1>3 DEF acpi_root, Goto
  <2>2. Ordinary => hw'.root_pages \subseteq mapped'
    BY <1>0, <2>1, OrdinaryMachine
  <2>3. FADT' = None /\ MCFG' = None
    BY <1>0, <2>1 DEF WalkInv
  <2>4. 1..(step' - 1) = {}
    BY <2>1
  <2> QED  BY <1>1, <2>1, <2>2, <2>3, <2>4 DEF WalkInv, MadtFound
<1> QED  BY <1>2, <1>3

\* The sum over an empty structure, or over a good table that is not longer than
\* the one at hand and follows no longer one, is 0.
LEMMA SumIsZero ==
  ASSUME NEW held, NEW size, NEW len, len \in Nat, len <= size,
         held = None \/ (held.valid /\ held.len \in Nat /\ held.len <= len /\ ~overwritten(held))
  PROVE  calculate_checksum(held, size, len) = {0}
BY DEF calculate_checksum

\* No known table of an ordinary machine is refused.
LEMMA NotRefused ==
  ASSUME TypeInv, StepInv, WalkInv, Ordinary, pc = "tables", step <= Len(hw.tables)
  PROVE  /\ Table.sig = "FACP" => ~table_refused(FADT, SIZEOF_FADT)
         /\ Table.sig \in {"MCFG", "APIC"} => ~table_refused(MCFG, SIZEOF_MCFG)
<1>0. hw \in Machines /\ step \in 1..Len(hw.tables) /\ Len(hw.tables) \in Nat
  BY TablesOfMachine DEF TypeInv, TypeOK, StepInv
<1>1. \A k \in 1..(step - 1) : k \in 1..Len(hw.tables) /\ k # step
  BY <1>0
<1>5. Table.len \in Nat
  BY <1>0, TablesOfMachine DEF Table
<1>2. CASE Table.sig = "FACP"
  <2>1. FADT = None
    BY <1>0, <1>1, <1>2, OrdinaryMachine DEF WalkInv, Table
  <2>2. Table.len <= SIZEOF_FADT
    BY <1>0, <1>2, OrdinaryMachine DEF Table
  <2>3. calculate_checksum(FADT, SIZEOF_FADT, Table.len) = {0}
    BY <1>5, <2>1, <2>2, SumIsZero
  <2> QED  BY <1>2, <2>3 DEF table_refused
<1>3. CASE Table.sig = "MCFG"
  <2>1. MCFG = None
    BY <1>0, <1>1, <1>3, OrdinaryMachine DEF WalkInv, Table
  <2>2. Table.len <= SIZEOF_MCFG
    BY <1>0, <1>3, OrdinaryMachine DEF Table
  <2>3. calculate_checksum(MCFG, SIZEOF_MCFG, Table.len) = {0}
    BY <1>5, <2>1, <2>2, SumIsZero
  <2> QED  BY <1>3, <2>3 DEF table_refused
<1>4. CASE Table.sig = "APIC"
  <2>1. MCFG # None => \E k \in 1..Len(hw.tables) :
                         hw.tables[k].sig = "MCFG" /\ MCFG = hw.tables[k]
    BY <1>1 DEF WalkInv
  <2>2. MCFG = None \/ (/\ MCFG.valid /\ MCFG.len \in Nat /\ MCFG.len <= Table.len
                         /\ ~overwritten(MCFG))
    <3>1. ASSUME NEW k \in 1..Len(hw.tables), hw.tables[k].sig = "MCFG", MCFG = hw.tables[k]
          PROVE  /\ MCFG.valid /\ MCFG.len \in Nat /\ MCFG.len <= Table.len
                 /\ ~overwritten(MCFG)
      <4>1. MCFG.valid /\ MCFG.len \in Nat /\ MCFG.len <= Table.len
        BY <1>0, <1>4, <3>1, OrdinaryMachine, TablesOfMachine DEF Table
      <4>2. ASSUME NEW j \in 1..(step - 1), hw.tables[j].sig = MCFG.sig
            PROVE  ~(hw.tables[j].len > MCFG.len)
        <5>1. j = k
          BY <1>0, <1>1, <3>1, <4>2, OrdinaryMachine
        <5> QED BY <3>1, <4>1, <5>1
      <4> QED BY <4>1, <4>2 DEF overwritten
    <3> QED BY <2>1, <3>1
  <2>3. Table.len <= SIZEOF_MCFG
    BY <1>0, <1>4, OrdinaryMachine DEF Table
  <2>4. calculate_checksum(MCFG, SIZEOF_MCFG, Table.len) = {0}
    BY <1>5, <2>2, <2>3, SumIsZero
  <2> QED  BY <1>4, <2>4 DEF table_refused
<1> QED  BY <1>2, <1>3, <1>4

\* A table that is refused ends the walk, on a machine that is not ordinary.
LEMMA WalkRefused ==
  ASSUME TypeInv, StepInv, WalkInv, At("FACP") \/ At("MCFG") \/ At("APIC"),
         At("FACP") => table_refused(FADT, SIZEOF_FADT),
         At("MCFG") \/ At("APIC") => table_refused(MCFG, SIZEOF_MCFG)
  PROVE  WalkInv'
<1>1. pc' = "cpuid" /\ hw' = hw
  BY DEF table_refused, Goto
<1>2. ~Ordinary
  <2>1. pc = "tables" /\ step <= Len(hw.tables)
    BY DEF At
  <2>2. CASE At("FACP")
    BY <2>1, <2>2, NotRefused DEF At
  <2>3. CASE At("MCFG") \/ At("APIC")
    BY <2>1, <2>3, NotRefused DEF At
  <2> QED  BY <2>2, <2>3
<1>3. ~Ordinary'
  BY <1>1, <1>2 DEF Ordinary
<1> QED  BY <1>1, <1>3 DEF WalkInv, MadtFound

\* A table that is not a MADT is left behind.
LEMMA WalkTable ==
  ASSUME TypeInv, StepInv, WalkInv, table_FACP \/ table_MCFG \/ table_other
  PROVE  WalkInv'
<1>1. CASE At("FACP") /\ table_refused(FADT, SIZEOF_FADT)
  <2>1. ~At("MCFG") /\ ~At("APIC")
    BY <1>1 DEF At
  <2> QED  BY <1>1, <2>1, WalkRefused
<1>2. CASE At("MCFG") /\ table_refused(MCFG, SIZEOF_MCFG)
  <2>1. ~At("FACP")
    BY <1>2 DEF At
  <2> QED  BY <1>2, <2>1, WalkRefused
<1>3. CASE ~(At("FACP") /\ table_refused(FADT, SIZEOF_FADT))
           /\ ~(At("MCFG") /\ table_refused(MCFG, SIZEOF_MCFG))
  <2>1. /\ pc = "tables" /\ pc' = "tables" /\ step' = step + 1 /\ hw' = hw
        /\ step <= Len(hw.tables) /\ UNCHANGED <<mapped, APIC_INFO>>
        /\ hw.tables[step].sig # "APIC"
    BY <1>3 DEF table_FACP, table_MCFG, table_other, At, Table, Goto, acpi_vars
  <2>2. FADT' = FADT \/ hw.tables[step].sig = "FACP"
    BY <1>3 DEF table_FACP, table_MCFG, table_other, At, Table, acpi_vars
  <2>3. MCFG' = MCFG \/ (hw.tables[step].sig = "MCFG" /\ MCFG' = hw.tables[step])
    BY <1>3 DEF table_FACP, table_MCFG, table_other, At, Table, acpi_vars
  <2>4. step \in Nat /\ step >= 1 /\ Len(hw.tables) \in Nat
    BY <2>1, TablesOfMachine DEF TypeInv, TypeOK, StepInv
  <2>5. step \in 1..(step' - 1) /\ \A k \in 1..(step' - 1) : k = step \/ k \in 1..(step - 1)
    BY <2>1, <2>4
  <2>6. \A k \in 1..(step - 1) : k \in 1..(step' - 1)
    BY <2>1, <2>4
  <2>7. Ordinary' <=> Ordinary
    BY <2>1 DEF Ordinary
  <2>8. CASE Ordinary
    <3>1. /\ hw.root_pages \subseteq mapped
          /\ FADT # None => \E k \in 1..(step - 1) : hw.tables[k].sig = "FACP"
          /\ MCFG # None => \E k \in 1..(step - 1) :
                              hw.tables[k].sig = "MCFG" /\ MCFG = hw.tables[k]
          /\ APIC_INFO = None => \A k \in 1..(step - 1) : hw.tables[k].sig # "APIC"
      BY <2>1, <2>8 DEF WalkInv
    <3>2. FADT' # None => \E k \in 1..(step' - 1) : hw.tables[k].sig = "FACP"
      BY <2>2, <2>5, <2>6, <3>1
    <3>3. MCFG' # None => \E k \in 1..(step' - 1) :
                            hw.tables[k].sig = "MCFG" /\ MCFG' = hw.tables[k]
      BY <2>3, <2>5, <2>6, <3>1
    <3>4. APIC_INFO' = None => \A k \in 1..(step' - 1) : hw.tables[k].sig # "APIC"
      BY <2>1, <2>5, <3>1
    <3> QED  BY <2>1, <3>1, <3>2, <3>3, <3>4 DEF WalkInv, MadtFound
  <2>9. CASE ~Ordinary
    BY <2>1, <2>7, <2>9 DEF WalkInv, MadtFound
  <2> QED  BY <2>8, <2>9
<1> QED  BY <1>1, <1>2, <1>3

\* The end of the walk.
LEMMA WalkEnd ==
  ASSUME TypeInv, StepInv, WalkInv, tables_end
  PROVE  WalkInv'
<1>1. /\ pc = "tables" /\ pc' = "cpuid" /\ hw' = hw /\ step > Len(hw.tables)
      /\ APIC_INFO' = APIC_INFO
  BY DEF tables_end, Goto, acpi_vars
<1>2. hw \in Machines /\ step \in Nat /\ Len(hw.tables) \in Nat
      /\ DOMAIN hw.tables = 1..Len(hw.tables)
  BY TablesOfMachine DEF TypeInv, TypeOK
<1>3. \A k \in DOMAIN hw.tables : k \in 1..(step - 1)
  BY <1>1, <1>2
<1>4. Ordinary' <=> Ordinary
  BY <1>1 DEF Ordinary
<1>5. Ordinary /\ (\E k \in DOMAIN hw.tables : hw.tables[k].sig = "APIC") => APIC_INFO # None
  BY <1>1, <1>3 DEF WalkInv
<1>6. MadtFound'
  BY <1>1, <1>4, <1>5 DEF MadtFound
<1> QED  BY <1>1, <1>6 DEF WalkInv

\* A MADT is read to its end.
LEMMA WalkMadt ==
  ASSUME TypeInv, StepInv, WalkInv, ReadInv, madt_count \/ madt_record \/ madt_map
  PROVE  WalkInv'
<1>1. CASE At("APIC") /\ table_refused(MCFG, SIZEOF_MCFG)
  <2>1. ~At("FACP")
    BY <1>1 DEF At
  <2> QED  BY <1>1, <2>1, WalkRefused
<1>2. CASE madt_map
  <2>1. /\ pc = "madt" /\ pc' = "tables" /\ step' = step + 1 /\ hw' = hw
        /\ mapped \subseteq mapped' /\ UNCHANGED <<FADT, MCFG>> /\ APIC_INFO' = info
    BY <1>2 DEF madt_map, map_mmio, Goto
  <2>2. APIC_INFO' # None
    <3>1. info \in Infos
      BY <2>1 DEF ReadInv
    <3>2. "at" \in DOMAIN info /\ "at" \notin DOMAIN None
      BY <3>1 DEF Infos, None
    <3> QED  BY <2>1, <3>2
  <2>3. step \in Nat
    BY DEF TypeInv, TypeOK
  <2>4. \A k \in 1..(step - 1) : k \in 1..(step' - 1)
    BY <2>1, <2>3
  <2>5. Ordinary' <=> Ordinary
    BY <2>1 DEF Ordinary
  <2>6. CASE Ordinary
    <3>1. /\ hw.root_pages \subseteq mapped
          /\ FADT # None => \E k \in 1..(step - 1) : hw.tables[k].sig = "FACP"
          /\ MCFG # None => \E k \in 1..(step - 1) :
                              hw.tables[k].sig = "MCFG" /\ MCFG = hw.tables[k]
      BY <2>1, <2>6 DEF WalkInv
    <3> QED  BY <2>1, <2>2, <2>4, <3>1 DEF WalkInv, MadtFound
  <2>7. CASE ~Ordinary
    BY <2>1, <2>5, <2>7 DEF WalkInv, MadtFound
  <2> QED  BY <2>6, <2>7
<1>3. CASE ~madt_map /\ ~(At("APIC") /\ table_refused(MCFG, SIZEOF_MCFG))
  <2>1. /\ pc \in {"tables", "madt"} /\ pc' = "madt" /\ step' = step /\ hw' = hw
        /\ UNCHANGED <<mapped, FADT, MCFG, APIC_INFO>>
    BY <1>3 DEF madt_count, madt_record, At, Goto
  <2>2. Ordinary' <=> Ordinary
    BY <2>1 DEF Ordinary
  <2> QED  BY <2>1, <2>2 DEF WalkInv, MadtFound
<1> QED  BY <1>1, <1>2, <1>3

\* Every step keeps the walk in order.
LEMMA WalkStep ==
  ASSUME TypeInv, StepInv, WalkInv, ReadInv, [Next]_vars
  PROVE  WalkInv'
<1>1. CASE Acpi
  <2>1. CASE table_fault
    BY <2>1 DEF table_fault, Goto, WalkInv, MadtFound
  <2> QED  BY <1>1, <2>1, WalkBefore, WalkRoot, WalkTable, WalkEnd, WalkMadt
           DEF Acpi, AcpiNext
<1>2. CASE Kmain /\ ~Acpi
  <2>1. pc' \notin {"mb2", "tags", "heap", "acpi", "tables", "madt", "cpuid"}
    BY <1>2, IoApicsFrame DEF Kmain, cpuid, enable_apic_fault, cal_fault, enable_apic, cal_start,
       cal_arm, cal_poll, cal_read, io_apics_fault, kmain_ps2, route_fault, ioapic_route,
       arm_timer, Fault, Goto
  <2> QED  BY <2>1 DEF WalkInv, MadtFound
<1>3. CASE Tick \/ KeyPress \/ Interrupt \/ Stopped \/ UNCHANGED vars
  <2>1. UNCHANGED <<hw, pc, step, rsdp, rsdp_new, FADT, MCFG, mapped, APIC_INFO>>
    BY <1>3 DEF Tick, KeyPress, Interrupt, Stopped, vars, acpi_vars
  <2>2. /\ Ordinary' <=> Ordinary
        /\ chosen' = chosen
    BY <2>1 DEF Ordinary, chosen
  <2>3. rsdp_good(hw.rsdp[chosen])' <=> rsdp_good(hw.rsdp[chosen])
    BY <2>1, <2>2 DEF rsdp_good
  <2> QED  BY <2>1, <2>2, <2>3 DEF WalkInv, MadtFound
<1> QED  BY <1>1, <1>2, <1>3 DEF Next

-----------------------------------------------------------------------------
(* The MADT is read faithfully *)

\* The records of a MADT.
LEMMA RecordsOfMadt ==
  ASSUME NEW t \in ACPI_APIC
  PROVE  /\ Len(t.recs) \in Nat /\ DOMAIN t.recs = 1..Len(t.recs) /\ t.lapic \in Nat
         /\ \A k \in 1..Len(t.recs) : t.recs[k].type \in Nat /\ t.recs[k].val \in Nat
<1> DEFINE R == [type : Nat, len : Nat, val : Nat]
<1>1. PICK s : s = t.recs
  OBVIOUS
<1>2. s \in Seq(R) /\ t.lapic \in Nat
  BY <1>1 DEF ACPI_APIC
<1>3. \A x \in R : x.type \in Nat /\ x.val \in Nat
  OBVIOUS
<1> HIDE DEF R
<1>4. Len(s) \in Nat /\ DOMAIN s = 1..Len(s) /\ \A k \in 1..Len(s) : s[k] \in R
  BY <1>2
<1> QED  BY <1>1, <1>2, <1>3, <1>4

\* One record more.
LEMMA BeforeNext ==
  ASSUME NEW t, NEW kind, NEW p \in Nat, p >= 1
  PROVE  /\ IsFiniteSet(Before(t, kind, p)) /\ Cardinality(Before(t, kind, p)) \in Nat
         /\ t.recs[p].type # kind => Before(t, kind, p + 1) = Before(t, kind, p)
         /\ t.recs[p].type = kind =>
              /\ Before(t, kind, p + 1) = Before(t, kind, p) \cup {p}
              /\ Cardinality(Before(t, kind, p + 1)) = Cardinality(Before(t, kind, p)) + 1
<1>1. IsFiniteSet(1..(p - 1))
  BY FS_Interval
<1>2. IsFiniteSet(Before(t, kind, p))
  <2>1. Before(t, kind, p) \in SUBSET (1..(p - 1))
    BY DEF Before
  <2> QED  BY <1>1, <2>1, FS_Subset
<1>3. \A k : k \in 1..((p + 1) - 1) <=> (k \in 1..(p - 1) \/ k = p)
  OBVIOUS
<1>4. t.recs[p].type # kind => Before(t, kind, p + 1) = Before(t, kind, p)
  BY <1>3 DEF Before
<1>5. t.recs[p].type = kind => Before(t, kind, p + 1) = Before(t, kind, p) \cup {p}
  BY <1>3 DEF Before
<1>6. p \notin Before(t, kind, p)
  BY DEF Before
<1>7. Cardinality(Before(t, kind, p) \cup {p}) = Cardinality(Before(t, kind, p)) + 1
  BY <1>2, <1>6, FS_AddElement
<1> QED  BY <1>2, <1>4, <1>5, <1>7, FS_CardinalityType

\* What the second pass does with a record r.
Taken(i, r) ==
  LET next == [i EXCEPT !.at = @ + 1]
  IN CASE r.type \in Kinds ->
            [next EXCEPT !.count[r.type] = @ + 1,
                         !.cells = @ \cup {[kind |-> r.type, val |-> r.val,
                                            index |-> i.count[r.type]]}]
       [] r.type = 5 -> [next EXCEPT !.lapic_addr = r.val]
       [] OTHER -> next

\* The counters, cells and the address after a record.
TakenIs(i, r, j) ==
  /\ j \in Infos /\ j.at = i.at + 1 /\ j.room = i.room
  /\ \A kind \in Kinds : j.count[kind] = IF r.type = kind THEN i.count[kind] + 1
                                                          ELSE i.count[kind]
  /\ \A c : c \in j.cells <=>
       \/ c \in i.cells
       \/ /\ r.type \in Kinds
          /\ c = [kind |-> r.type, val |-> r.val, index |-> i.count[r.type]]
  /\ j.lapic_addr = IF r.type = 5 THEN r.val ELSE i.lapic_addr

\* That is what taking a record makes of them.
LEMMA RecordTaken ==
  ASSUME NEW i \in Infos, NEW r, r.type \in Nat, r.val \in Nat, NEW j, j = Taken(i, r)
  PROVE  TakenIs(i, r, j)
<1> USE DEF TakenIs
<1>0. /\ i.at \in Nat /\ i.lapic_addr \in Nat /\ i.cells \in SUBSET Cells
      /\ i.room \in [Kinds -> Nat] /\ i.count \in [Kinds -> Nat]
  BY DEF Infos
<1>1. PICK next : next = [i EXCEPT !.at = i.at + 1]
  OBVIOUS
<1>2. /\ next \in Infos /\ next.at = i.at + 1 /\ next.room = i.room /\ next.count = i.count
      /\ next.cells = i.cells /\ next.lapic_addr = i.lapic_addr
  BY <1>0, <1>1 DEF Infos
<1>3. CASE r.type \in Kinds
  <2>1. PICK cell : cell = [kind |-> r.type, val |-> r.val, index |-> i.count[r.type]]
    OBVIOUS
  <2>2. cell \in Cells
    BY <1>0, <1>3, <2>1 DEF Cells
  <2>3. PICK n : n = [i.count EXCEPT ![r.type] = i.count[r.type] + 1]
    OBVIOUS
  <2>4. n \in [Kinds -> Nat]
    BY <1>0, <1>3, <2>3
  <2>5. \A kind \in Kinds : n[kind] = IF r.type = kind THEN i.count[kind] + 1
                                                       ELSE i.count[kind]
    BY <1>0, <1>3, <2>3
  <2>6. r.type # 5
    BY <1>3 DEF Kinds
  <2>7. j = [next EXCEPT !.count[r.type] = @ + 1, !.cells = @ \cup {cell}]
    BY <1>1, <1>3, <2>1, <2>6 DEF Taken
  <2>8. j = [next EXCEPT !.count = n, !.cells = i.cells \cup {cell}]
    <3>1. j = [next EXCEPT !.count = [next.count EXCEPT ![r.type] = next.count[r.type] + 1],
                           !.cells = next.cells \cup {cell}]
      BY <2>7
    <3> QED  BY <1>2, <2>3, <3>1
  <2>9. i.cells \cup {cell} \in SUBSET Cells
    BY <1>0, <2>2
  <2>10. /\ j \in Infos /\ j.at = i.at + 1 /\ j.room = i.room /\ j.count = n
         /\ j.cells = i.cells \cup {cell} /\ j.lapic_addr = i.lapic_addr
    BY <1>2, <2>4, <2>8, <2>9 DEF Infos
  <2> QED  BY <1>3, <2>1, <2>5, <2>6, <2>10
<1>4. CASE r.type \notin Kinds /\ r.type = 5
  <2>1. j = [next EXCEPT !.lapic_addr = r.val]
    BY <1>1, <1>4 DEF Taken
  <2>2. /\ j \in Infos /\ j.at = i.at + 1 /\ j.room = i.room /\ j.count = i.count
        /\ j.cells = i.cells /\ j.lapic_addr = r.val
    BY <1>2, <2>1 DEF Infos
  <2> QED  BY <1>4, <2>2
<1>5. CASE r.type \notin Kinds /\ r.type # 5
  <2>1. j = next
    BY <1>1, <1>5 DEF Taken
  <2> QED  BY <1>2, <1>5, <2>1
<1> QED  BY <1>3, <1>4, <1>5

\* A record that is taken is added to what was read.
LEMMA RecordRead ==
  ASSUME NEW t \in ACPI_APIC, NEW i \in Infos, ReadUpTo(t, i), second_pass_takes(t, i.at),
         NEW j, j = Taken(i, t.recs[i.at])
  PROVE  j \in Infos /\ ReadUpTo(t, j)
<1>1. PICK p \in Nat : p = i.at /\ p >= 1 /\ p \in 1..Len(t.recs) /\ ~malformed(t, p)
  BY RecordsOfMadt DEF second_pass_takes, ReadUpTo, Infos
<1>2. PICK r : r = t.recs[p]
  OBVIOUS
<1>3. r.type \in Nat /\ r.val \in Nat /\ Len(t.recs) \in Nat
  BY <1>1, <1>2, RecordsOfMadt
<1>4. /\ j \in Infos /\ j.at = p + 1 /\ j.room = i.room
      /\ \A kind \in Kinds : j.count[kind] = IF r.type = kind THEN i.count[kind] + 1
                                                              ELSE i.count[kind]
      /\ \A c : c \in j.cells <=>
           \/ c \in i.cells
           \/ /\ r.type \in Kinds
              /\ c = [kind |-> r.type, val |-> r.val, index |-> i.count[r.type]]
      /\ j.lapic_addr = IF r.type = 5 THEN r.val ELSE i.lapic_addr
  <2>1. j = Taken(i, r) /\ i.at = p
    BY <1>1, <1>2
  <2>2. TakenIs(i, r, j)
    BY <1>3, <2>1, RecordTaken
  <2> QED BY ONLY <2>1, <2>2 DEF TakenIs
<1>5. \A k : k \in 1..(j.at - 1) <=> (k \in 1..(p - 1) \/ k = p)
  <2>1. j.at - 1 = p /\ p \in Nat /\ p >= 1
    BY <1>1, <1>4
  <2> QED BY ONLY <2>1
<1>6. j.at \in 1..(Len(t.recs) + 1) /\ \A k \in 1..(j.at - 1) : ~malformed(t, k)
  BY <1>1, <1>3, <1>4, <1>5 DEF ReadUpTo
<1>7. ASSUME NEW kind \in Kinds
      PROVE  /\ j.room[kind] = Cardinality({k \in counted(t) : t.recs[k].type = kind})
             /\ j.count[kind] = Cardinality(Before(t, kind, j.at))
  <2>1. /\ i.room[kind] = Cardinality({k \in counted(t) : t.recs[k].type = kind})
        /\ i.count[kind] = Cardinality(Before(t, kind, p))
    BY <1>1 DEF ReadUpTo
  <2> QED  BY <1>1, <1>2, <1>4, <2>1, BeforeNext
<1>8. ASSUME NEW c
      PROVE  c \in j.cells <=>
               \E k \in 1..(j.at - 1) :
                 /\ t.recs[k].type \in Kinds
                 /\ c = [kind |-> t.recs[k].type, val |-> t.recs[k].val,
                         index |-> Cardinality(Before(t, t.recs[k].type, k))]
  <2>1. c \in i.cells <=>
          \E k \in 1..(p - 1) :
            /\ t.recs[k].type \in Kinds
            /\ c = [kind |-> t.recs[k].type, val |-> t.recs[k].val,
                    index |-> Cardinality(Before(t, t.recs[k].type, k))]
    BY <1>1 DEF ReadUpTo
  <2>2. r.type \in Kinds => i.count[r.type] = Cardinality(Before(t, r.type, p))
    BY <1>1 DEF ReadUpTo
  <2> QED  BY <1>2, <1>4, <1>5, <2>1, <2>2
<1>9. \/ Before(t, 5, j.at) = {} /\ j.lapic_addr = t.lapic
      \/ \E k \in Before(t, 5, j.at) :
           j.lapic_addr = t.recs[k].val /\ \A m \in Before(t, 5, j.at) : m <= k
  <2>1. CASE r.type = 5
    <3>1. Before(t, 5, j.at) = Before(t, 5, p) \cup {p}
      <4>1. t.recs[p].type = 5 /\ p \in Nat /\ p >= 1
        BY <1>1, <1>2, <2>1
      <4>2. Before(t, 5, p + 1) = Before(t, 5, p) \cup {p}
        BY <4>1, BeforeNext
      <4> QED  BY <1>4, <4>2
    <3>2. \A m \in Before(t, 5, p) : m <= p
      BY <1>1 DEF Before
    <3> QED  BY <1>1, <1>2, <1>4, <2>1, <3>1, <3>2
  <2>2. CASE r.type # 5
    <3>1. Before(t, 5, j.at) = Before(t, 5, p)
      <4>1. t.recs[p].type # 5 /\ p \in Nat /\ p >= 1
        BY <1>1, <1>2, <2>2
      <4>2. Before(t, 5, p + 1) = Before(t, 5, p)
        BY <4>1, BeforeNext
      <4> QED  BY <1>4, <4>2
    <3>2. j.lapic_addr = i.lapic_addr
      BY <1>4, <2>2
    <3> QED  BY <1>1, <3>1, <3>2 DEF ReadUpTo
  <2> QED  BY <2>1, <2>2
<1> QED  BY <1>4, <1>6, <1>7, <1>8, <1>9 DEF ReadUpTo

\* The first pass counted the records the second pass has taken when it stops.
LEMMA PassesAgree ==
  ASSUME NEW t \in ACPI_APIC, NEW i \in Infos, ReadUpTo(t, i), ~second_pass_takes(t, i.at)
  PROVE  counted(t) = 1..(i.at - 1)
<1>1. /\ i.at \in 1..(Len(t.recs) + 1) /\ Len(t.recs) \in Nat
      /\ DOMAIN t.recs = 1..Len(t.recs)
  BY RecordsOfMadt DEF ReadUpTo
<1>2. \A j \in 1..(i.at - 1) : ~malformed(t, j)
  BY DEF ReadUpTo
<1>3. i.at \in 1..Len(t.recs) => malformed(t, i.at)
  BY <1>1 DEF second_pass_takes
<1>4. ASSUME NEW k \in counted(t)
      PROVE  k \in 1..(i.at - 1)
  <2>1. k \in 1..Len(t.recs) /\ \A j \in 1..k : ~malformed(t, j)
    BY <1>1 DEF counted
  <2> QED  BY <1>1, <1>3, <2>1
<1>5. ASSUME NEW k \in 1..(i.at - 1)
      PROVE  k \in counted(t)
  <2>1. k \in 1..Len(t.recs) /\ \A j \in 1..k : j \in 1..(i.at - 1)
    BY <1>1
  <2> QED  BY <1>1, <1>2, <2>1 DEF counted
<1> QED  BY <1>4, <1>5

\* What MadtFaithful says of one table and one structure.
FaithfulTo(t, i) ==
  LET whole(kind) == {k \in counted(t) : t.recs[k].type = kind}
      array(kind) == {c \in i.cells : c.kind = kind}
  IN /\ t.sig = "APIC"
     /\ \A kind \in Kinds :
          /\ i.count[kind] = i.room[kind]
          /\ array(kind) =
               {[kind |-> kind, val |-> t.recs[k].val,
                 index |-> Cardinality({j \in whole(kind) : j < k})] : k \in whole(kind)}
     /\ i.lapic_addr = IF whole(5) = {} THEN t.lapic ELSE t.recs[Max(whole(5))].val

\* When the second pass stops, all of it was read.
LEMMA AllRead ==
  ASSUME NEW t \in ACPI_APIC, NEW i \in Infos, ReadUpTo(t, i), ~second_pass_takes(t, i.at)
  PROVE  FaithfulTo(t, i)
<1> DEFINE whole(kind) == {k \in counted(t) : t.recs[k].type = kind}
<1>1. counted(t) = 1..(i.at - 1) /\ i.at \in Nat /\ i.at >= 1
  <2>1. i.at \in Nat /\ i.at >= 1
    BY RecordsOfMadt DEF ReadUpTo, Infos
  <2> QED  BY <2>1, PassesAgree
<1>2. \A kind : whole(kind) = Before(t, kind, i.at)
  BY <1>1 DEF Before
<1>3. t.sig = "APIC"
  BY DEF ACPI_APIC
<1>4. ASSUME NEW kind \in Kinds
      PROVE  i.count[kind] = i.room[kind]
  BY <1>2 DEF ReadUpTo
<1>5. ASSUME NEW kind \in Kinds, NEW k \in whole(kind)
      PROVE  {j \in whole(kind) : j < k} = Before(t, kind, k)
  <2>1. k \in 1..(i.at - 1)
    BY <1>1
  <2>2. \A j : (j \in 1..(i.at - 1) /\ j < k) <=> j \in 1..(k - 1)
    BY <1>1, <2>1
  <2> QED  BY <1>1, <2>2 DEF Before
<1>6. ASSUME NEW kind \in Kinds
      PROVE  {c \in i.cells : c.kind = kind} =
               {[kind |-> kind, val |-> t.recs[k].val,
                 index |-> Cardinality({j \in whole(kind) : j < k})] : k \in whole(kind)}
  <2>1. ASSUME NEW c \in i.cells, c.kind = kind
        PROVE  \E k \in whole(kind) :
                 c = [kind |-> kind, val |-> t.recs[k].val,
                      index |-> Cardinality({j \in whole(kind) : j < k})]
    <3>1. PICK k \in 1..(i.at - 1) :
            /\ t.recs[k].type \in Kinds
            /\ c = [kind |-> t.recs[k].type, val |-> t.recs[k].val,
                    index |-> Cardinality(Before(t, t.recs[k].type, k))]
      BY DEF ReadUpTo
    <3>2. t.recs[k].type = kind
      BY <2>1, <3>1
    <3>3. k \in whole(kind)
      BY <1>1, <3>2
    <3>4. {j \in whole(kind) : j < k} = Before(t, kind, k)
      BY <1>5, <3>3
    <3> QED  BY <3>1, <3>2, <3>3, <3>4
  <2>2. ASSUME NEW k \in whole(kind)
        PROVE  [kind |-> kind, val |-> t.recs[k].val,
                index |-> Cardinality({j \in whole(kind) : j < k})] \in
                 {c \in i.cells : c.kind = kind}
    <3>1. k \in 1..(i.at - 1) /\ t.recs[k].type = kind
      BY <1>1
    <3>2. {j \in whole(kind) : j < k} = Before(t, kind, k)
      BY <1>5
    <3>3. [kind |-> kind, val |-> t.recs[k].val,
           index |-> Cardinality(Before(t, kind, k))] \in i.cells
      BY <3>1 DEF ReadUpTo
    <3> QED  BY <3>2, <3>3
  <2> QED  BY <2>1, <2>2
<1>7. i.lapic_addr = IF whole(5) = {} THEN t.lapic ELSE t.recs[Max(whole(5))].val
  <2>1. CASE whole(5) = {}
    BY <1>2, <2>1 DEF ReadUpTo
  <2>2. CASE whole(5) # {}
    <3>1. PICK k \in Before(t, 5, i.at) :
            i.lapic_addr = t.recs[k].val /\ \A j \in Before(t, 5, i.at) : j <= k
      BY <1>2, <2>2 DEF ReadUpTo
    <3>2. \A m \in Before(t, 5, i.at) : m \in Int
      BY <1>1 DEF Before
    <3>3. Max(Before(t, 5, i.at)) = k
      BY <3>1, <3>2 DEF Max
    <3> QED  BY <1>2, <2>2, <3>1, <3>3
  <2> QED  BY <2>1, <2>2
<1> QED  BY <1>3, <1>4, <1>6, <1>7 DEF FaithfulTo

\* Nothing is read at the start.
LEMMA ReadInit ==
  ASSUME Init
  PROVE  ReadInv
BY DEF Init, AcpiInit, ReadInv, MadtFaithful

\* MadtFaithful in terms of FaithfulTo.
LEMMA FaithfulShort ==
  MadtFaithful <=>
    (hw.dirty = 0 /\ APIC_INFO # None =>
       \E t \in {hw.tables[k] : k \in DOMAIN hw.tables} : FaithfulTo(t, APIC_INFO))
BY DEF MadtFaithful, FaithfulTo

\* The same one step later.
LEMMA FaithfulShortNext ==
  MadtFaithful' <=>
    (hw'.dirty = 0 /\ APIC_INFO' # None =>
       \E t \in {hw'.tables[k] : k \in DOMAIN hw'.tables} : FaithfulTo(t, APIC_INFO'))
BY DEF MadtFaithful, FaithfulTo

\* The table in handle_MADT is a MADT.
LEMMA AtMadt ==
  ASSUME TypeInv, StepInv, pc = "madt" \/ At("APIC")
  PROVE  Table \in ACPI_APIC /\ step \in DOMAIN hw.tables /\ Table = hw.tables[step]
<1>1. hw \in Machines /\ step \in 1..Len(hw.tables) /\ hw.tables[step].sig = "APIC"
  BY TablesOfMachine DEF TypeInv, TypeOK, StepInv, At, Table
<1> QED  BY <1>1, TablesOfMachine DEF Table

\* The first pass leaves room and counters for the second.
LEMMA ReadCount ==
  ASSUME TypeInv, StepInv, ReadInv, madt_count, ~table_refused(MCFG, SIZEOF_MCFG)
  PROVE  ReadInv'
<1>1. PICK t : t = Table
  OBVIOUS
<1>2. t \in ACPI_APIC /\ hw.tables[step] = t /\ hw \in Machines
  BY <1>1, AtMadt DEF madt_count, TypeInv, TypeOK
<1>3. /\ pc' = "madt" /\ step' = step /\ hw' = hw /\ APIC_INFO' = APIC_INFO
      /\ info' = [at |-> 1, lapic_addr |-> t.lapic, cells |-> {},
                  room |-> [kind \in Kinds |-> Cardinality(
                              {k \in counted(t) : t.recs[k].type = kind})],
                  count |-> [kind \in Kinds |-> hw.dirty]]
  BY <1>1 DEF madt_count, Goto
<1>4. PICK i : i = info'
  OBVIOUS
<1>5. /\ i.at = 1 /\ i.lapic_addr = t.lapic /\ i.cells = {}
      /\ \A kind \in Kinds :
           /\ i.room[kind] = Cardinality({k \in counted(t) : t.recs[k].type = kind})
           /\ i.count[kind] = hw.dirty
  BY <1>3, <1>4
<1>6. \A kind \in Kinds : Cardinality({k \in counted(t) : t.recs[k].type = kind}) \in Nat
  <2>1. IsFiniteSet(DOMAIN t.recs)
    <3>1. PICK n \in Int : n = Len(t.recs) /\ DOMAIN t.recs = 1..n
      BY <1>2, RecordsOfMadt
    <3>2. IsFiniteSet(1..n)
      BY FS_Interval
    <3> QED  BY <3>1, <3>2
  <2>2. ASSUME NEW kind \in Kinds
        PROVE  {k \in counted(t) : t.recs[k].type = kind} \in SUBSET (DOMAIN t.recs)
    BY DEF counted
  <2> QED  BY <2>1, <2>2, FS_Subset, FS_CardinalityType
<1>7. i \in Infos
  <2>1. hw.dirty \in Nat /\ t.lapic \in Nat
    BY <1>2, AcpiAssumption, RecordsOfMadt
  <2> QED  BY <1>3, <1>4, <1>6, <2>1 DEF Infos
<1>8. hw.dirty = 0 => ReadUpTo(t, i)
  <2>1. \A kind : Before(t, kind, 1) = {}
    BY DEF Before
  <2>2. Cardinality({}) = 0
    BY FS_EmptySet
  <2>3. Len(t.recs) \in Nat
    BY <1>2, RecordsOfMadt
  <2>4. i.at \in 1..(Len(t.recs) + 1) /\ 1..(i.at - 1) = {}
    BY <1>5, <2>3
  <2> QED  BY <1>5, <2>1, <2>2, <2>4 DEF ReadUpTo
<1>9. MadtFaithful'
  BY <1>3, FaithfulShort, FaithfulShortNext DEF ReadInv
<1> QED  BY <1>2, <1>3, <1>4, <1>7, <1>8, <1>9 DEF ReadInv

\* The second pass takes a record.
LEMMA ReadRecord ==
  ASSUME TypeInv, StepInv, ReadInv, madt_record
  PROVE  ReadInv'
<1>1. PICK t : t = Table
  OBVIOUS
<1>2. pc = "madt" /\ second_pass_takes(t, info.at)
  BY <1>1 DEF madt_record
<1>3. t \in ACPI_APIC /\ hw.tables[step] = t /\ info \in Infos
  BY <1>1, <1>2, AtMadt DEF ReadInv
<1>4. pc' = "madt" /\ step' = step /\ hw' = hw /\ APIC_INFO' = APIC_INFO
  BY DEF madt_record, Goto
<1>5. info' = Taken(info, t.recs[info.at])
  BY <1>1 DEF madt_record, Taken
<1>6. info' \in Infos
  <2>1. t.recs[info.at].type \in Nat /\ t.recs[info.at].val \in Nat
    BY <1>2, <1>3, RecordsOfMadt DEF second_pass_takes
  <2> QED  BY <1>3, <1>5, <2>1, RecordTaken DEF TakenIs
<1>7. hw.dirty = 0 => ReadUpTo(t, info')
  <2>1. hw.dirty = 0 => ReadUpTo(t, info)
    BY <1>2, <1>3 DEF ReadInv
  <2> QED  BY <1>2, <1>3, <1>5, <2>1, RecordRead
<1>8. MadtFaithful'
  BY <1>4, FaithfulShort, FaithfulShortNext DEF ReadInv
<1> QED  BY <1>3, <1>4, <1>6, <1>7, <1>8 DEF ReadInv

\* The second pass is over.
LEMMA ReadMap ==
  ASSUME TypeInv, StepInv, ReadInv, madt_map
  PROVE  ReadInv'
<1>1. PICK t : t = Table
  OBVIOUS
<1>2. pc = "madt" /\ ~second_pass_takes(t, info.at)
  BY <1>1 DEF madt_map
<1>3. t \in ACPI_APIC /\ hw.tables[step] = t /\ info \in Infos /\ step \in DOMAIN hw.tables
  BY <1>1, <1>2, AtMadt DEF ReadInv
<1>4. pc' = "tables" /\ hw' = hw /\ APIC_INFO' = info
  BY DEF madt_map, Goto
<1>5. hw.dirty = 0 => FaithfulTo(t, info)
  <2>1. hw.dirty = 0 => ReadUpTo(t, info)
    BY <1>2, <1>3 DEF ReadInv
  <2> QED  BY <1>2, <1>3, <2>1, AllRead
<1>6. MadtFaithful'
  BY <1>3, <1>4, <1>5, FaithfulShortNext
<1> QED  BY <1>4, <1>6 DEF ReadInv

\* Every step keeps what was read.
LEMMA ReadStep ==
  ASSUME TypeInv, StepInv, ReadInv, [Next]_vars
  PROVE  ReadInv'
<1>1. CASE madt_count /\ ~table_refused(MCFG, SIZEOF_MCFG)
  BY <1>1, ReadCount
<1>2. CASE madt_record \/ madt_map
  BY <1>2, ReadRecord, ReadMap
<1>3. CASE /\ ~(madt_count /\ ~table_refused(MCFG, SIZEOF_MCFG))
           /\ ~madt_record /\ ~madt_map
  <2>1. hw' = hw /\ APIC_INFO' = APIC_INFO
        /\ (pc' = "madt" => UNCHANGED <<pc, step, info>>)
    <3>1. CASE Acpi
      BY <1>3, <3>1 DEF Acpi, AcpiNext, mb2_header, mb2_tag, tar_mb2_init, mb2_end,
         kmain_heap, acpi_refused, acpi_root, table_fault, table_FACP, table_MCFG,
         table_other, tables_end, madt_count, table_refused, Goto, acpi_vars
    <3>2. CASE Kmain /\ ~Acpi
      <4>1. pc' # "madt"
        BY <3>2, IoApicsFrame DEF Kmain, cpuid, enable_apic_fault, cal_fault, enable_apic, cal_start,
           cal_arm, cal_poll, cal_read, io_apics_fault, kmain_ps2, route_fault, ioapic_route,
           arm_timer, Fault, Goto
      <4>2. ~Acpi
        BY <3>2
      <4> QED  BY <4>1, <4>2, BootFrame
    <3>3. CASE Tick \/ KeyPress \/ Interrupt \/ Stopped \/ UNCHANGED vars
      BY <3>3 DEF Tick, KeyPress, Interrupt, Stopped, vars, acpi_vars
    <3> QED  BY <3>1, <3>2, <3>3 DEF Next
  <2>2. MadtFaithful'
    BY <2>1, FaithfulShort, FaithfulShortNext DEF ReadInv
  <2> QED  BY <2>1, <2>2 DEF ReadInv
<1> QED  BY <1>1, <1>2, <1>3

-----------------------------------------------------------------------------
(* The records of the I/O APICs *)

\* There is no record at the start.
LEMMA NamedInit ==
  ASSUME Init
  PROVE  IoInv
BY DEF Init, AcpiInit, IoInv, NamedInv, SizesInv

\* A record of an I/O APIC names one of the machine.
LEMMA NamedRecord ==
  ASSUME TypeInv, StepInv, ReadInv, NamedInv, madt_record
  PROVE  Named(info)' /\ pc' = "madt" /\ APIC_INFO' = APIC_INFO /\ hw' = hw
<1>1. PICK t : t = Table
  OBVIOUS
<1>2. pc = "madt" /\ second_pass_takes(t, info.at)
  BY <1>1 DEF madt_record
<1>3. /\ t \in ACPI_APIC /\ hw.tables[step] = t /\ step \in DOMAIN hw.tables /\ t.sig = "APIC"
      /\ info \in Infos /\ Named(info)
  BY <1>1, <1>2, AtMadt DEF ReadInv, NamedInv, StepInv
<1>4. pc' = "madt" /\ hw' = hw /\ APIC_INFO' = APIC_INFO
  BY DEF madt_record, Goto
<1>5. PICK r : r = t.recs[info.at]
  OBVIOUS
<1>6. info.at \in DOMAIN t.recs /\ r.type \in Nat /\ r.val \in Nat
  BY <1>2, <1>3, <1>5, RecordsOfMadt DEF second_pass_takes
<1>7. r.type = 1 => r.val \in DOMAIN hw.ioapics
  <2>1. hw \in Machines
    BY DEF TypeInv, TypeOK
  <2> QED BY <1>3, <1>5, <1>6, <2>1, DevicesAssumption
<1>8. info' = Taken(info, r)
  BY <1>1, <1>5 DEF madt_record, Taken
<1>9. TakenIs(info, r, info')
  BY <1>3, <1>6, <1>8, RecordTaken
<1>10. info'.count[1] \in Nat
  <2>1. info' \in Infos /\ 1 \in Kinds
    BY <1>9 DEF TakenIs, Kinds
  <2> QED BY <2>1 DEF Infos
<1>11. ASSUME NEW c \in info'.cells, c.kind = 1
       PROVE  c.val \in DOMAIN hw.ioapics
  <2>1. \/ c \in info.cells
        \/ c = [kind |-> r.type, val |-> r.val, index |-> info.count[r.type]]
    BY <1>9 DEF TakenIs
  <2>2. CASE c \in info.cells
    BY <1>3, <1>11, <2>2 DEF Named
  <2>3. CASE c = [kind |-> r.type, val |-> r.val, index |-> info.count[r.type]]
    BY <1>7, <1>11, <2>3
  <2> QED BY <2>1, <2>2, <2>3
<1> QED BY <1>4, <1>10, <1>11 DEF Named

\* The counts and the arrays start empty.
LEMMA NamedCount ==
  ASSUME TypeInv, madt_count, ~table_refused(MCFG, SIZEOF_MCFG)
  PROVE  Named(info)' /\ pc' = "madt" /\ APIC_INFO' = APIC_INFO /\ hw' = hw
<1>1. /\ pc' = "madt" /\ hw' = hw /\ APIC_INFO' = APIC_INFO /\ info'.cells = {}
      /\ info'.count = [kind \in Kinds |-> hw.dirty]
  BY DEF madt_count, Goto
<1>2. hw.dirty \in Nat
  BY AcpiAssumption DEF TypeInv, TypeOK
<1> QED BY <1>1, <1>2 DEF Named, Kinds

\* The addresses in APIC_INFO are those of I/O APICs, and enable_apic has looked
\* at it before enable_io_apics does.
LEMMA NamedStep ==
  ASSUME TypeInv, StepInv, ReadInv, NamedInv, [Next]_vars
  PROVE  NamedInv'
<1> DEFINE Found == {"cal_start", "cal_arm", "cal_poll", "cal_read", "io_apics", "io_sizes",
                     "io_infos"}
<1>1. CASE madt_record
  BY <1>1, NamedRecord DEF NamedInv, Named
<1>2. CASE madt_count /\ ~table_refused(MCFG, SIZEOF_MCFG)
  BY <1>2, NamedCount DEF NamedInv, Named
<1>3. CASE madt_map
  <2>1. pc = "madt" /\ pc' = "tables" /\ hw' = hw /\ APIC_INFO' = info
    BY <1>3 DEF madt_map, Goto
  <2> QED BY <2>1 DEF NamedInv, Named
<1>4. CASE Acpi /\ ~madt_record /\ ~madt_map
           /\ ~(madt_count /\ ~table_refused(MCFG, SIZEOF_MCFG))
  <2>1. /\ hw' = hw /\ APIC_INFO' = APIC_INFO /\ pc' \notin Found
        /\ pc' = "madt" => UNCHANGED <<pc, info>>
    BY <1>4, AcpiFrame DEF Acpi, AcpiNext, mb2_header, mb2_tag, tar_mb2_init, mb2_end,
       kmain_heap, acpi_refused, acpi_root, table_fault, table_FACP, table_MCFG, table_other,
       tables_end, madt_count, table_refused, Goto, acpi_vars
  <2> QED BY <2>1 DEF NamedInv, Named
<1>5. CASE Kmain /\ ~Acpi
  <2>1. hw' = hw /\ APIC_INFO' = APIC_INFO
    BY <1>5, BootFrame
  <2>2. pc' # "madt" /\ (pc' \in Found => APIC_INFO # None)
    BY <1>5, IoApicsFrame DEF Kmain, cpuid, enable_apic_fault, cal_fault, enable_apic, lapic_ready,
       cal_start, cal_arm, cal_poll, cal_read, io_apics_fault, kmain_ps2, route_fault,
       ioapic_route, arm_timer, Fault, Goto, NamedInv
  <2> QED BY <2>1, <2>2 DEF NamedInv, Named
<1>6. CASE Tick \/ KeyPress \/ Interrupt \/ Stopped \/ UNCHANGED vars
  <2>1. UNCHANGED <<pc, hw, info, APIC_INFO>>
    BY <1>6 DEF Tick, KeyPress, Interrupt, Stopped, vars, acpi_vars
  <2> QED BY <2>1 DEF NamedInv, Named
<1>7. Acpi \/ (Kmain /\ ~Acpi) \/ (Tick \/ KeyPress \/ Interrupt \/ Stopped \/ UNCHANGED vars)
  BY DEF Next, Kmain
<1> QED BY <1>1, <1>2, <1>3, <1>4, <1>5, <1>6, <1>7

\* What is counted for the n-th record, and what it takes.
LEMMA RecordSizes ==
  ASSUME TypeInv, NamedInv, SizesInv, pc \in {"io_sizes", "io_infos"},
         NEW n \in 1..ioapic_count, NEW a, a = ioapic_addr(n - 1)
  PROVE  /\ a \in DOMAIN hw.ioapics /\ hw.ioapics[a].entries % 256 \in Nat
         /\ entries_to_reserve(a) \in Nat
         /\ Reserved(n) = SIZEOF_ioapic_info + SIZEOF_redirection * entries_to_reserve(a)
         /\ info_size(a) = SIZEOF_ioapic_info
                             + SIZEOF_redirection * (hw.ioapics[a].entries % 256)
         /\ info_size(a) <= Reserved(n) /\ info_size(a) \in Nat /\ Reserved(n) \in Nat
<1>1. ioapic_count \in Nat /\ Named(APIC_INFO)
  BY DEF NamedInv, Named, ioapic_count
<1>2. \E c \in APIC_INFO.cells : c.kind = 1 /\ c.index = n - 1
  <2>1. n - 1 \in 0..(ioapic_count - 1)
    BY <1>1
  <2> QED BY <2>1 DEF SizesInv
<1>3. a \in DOMAIN hw.ioapics
  <2>1. PICK c \in APIC_INFO.cells : c.kind = 1 /\ c.index = n - 1 /\ a = c.val
    BY <1>2 DEF ioapic_addr
  <2> QED BY <1>1, <2>1 DEF Named
<1>4. PICK e \in 1..256 : e = hw.ioapics[a].entries
  BY <1>3, DevicesAssumption DEF TypeInv, TypeOK
<1>5. e % 256 \in Nat /\ e % 256 <= e
  OBVIOUS
<1> QED BY <1>3, <1>4, <1>5
        DEF Reserved, info_size, entries_to_reserve, SIZEOF_ioapic_info, SIZEOF_redirection

\* A sum more.
LEMMA SumsNext ==
  ASSUME NEW n \in Nat, NEW ends, Sums(ends, n), Reserved(n + 1) \in Nat,
         NEW more, more = [k \in 0..(n + 1) |->
                             IF k = n + 1 THEN ends[n] + Reserved(n + 1) ELSE ends[k]]
  PROVE  Sums(more, n + 1) /\ more[n + 1] = ends[n] + Reserved(n + 1)
<1>1. /\ \A k \in 0..n : ends[k] \in Nat /\ more[k] = ends[k]
      /\ more[n + 1] = ends[n] + Reserved(n + 1) /\ ends[n] \in Nat
  BY DEF Sums
<1>2. \A k \in 0..(n + 1) : k \in 0..n \/ k = n + 1
  OBVIOUS
<1>3. more \in [0..(n + 1) -> Nat] /\ more[0] = 0
  BY <1>1 DEF Sums
<1>4. ASSUME NEW k \in 1..(n + 1)
      PROVE  more[k] = more[k - 1] + Reserved(k)
  <2>1. CASE k = n + 1
    BY <1>1, <2>1
  <2>2. CASE k # n + 1
    <3>1. k \in 1..n /\ k \in 0..n /\ k - 1 \in 0..n
      BY <2>2
    <3> QED BY <1>1, <3>1 DEF Sums
  <2> QED BY <2>1, <2>2
<1>5. ASSUME NEW j \in 0..(n + 1), NEW k \in 0..(n + 1), j <= k
      PROVE  more[j] <= more[k]
  <2>1. CASE k \in 0..n
    <3>1. j \in 0..n
      BY <1>5, <2>1
    <3> QED BY <1>1, <1>5, <2>1, <3>1 DEF Sums
  <2>2. CASE k = n + 1 /\ j \in 0..n
    <3>1. ends[j] <= ends[n]
      BY <2>2 DEF Sums
    <3>2. more[j] = ends[j] /\ ends[j] \in Nat
      BY <1>1, <2>2
    <3>3. more[k] = ends[n] + Reserved(n + 1) /\ ends[n] \in Nat
      BY <1>1, <2>2
    <3> QED BY <3>1, <3>2, <3>3
  <2>3. CASE k = n + 1 /\ j = n + 1
    BY <1>1, <2>3
  <2> QED BY <1>2, <2>1, <2>2, <2>3
<1> QED BY <1>1, <1>3, <1>4, <1>5 DEF Sums

\* A record more, at the place that was left for it.
LEMMA RecordAppended ==
  ASSUME NEW b, RecordsFit(b),
         NEW r, r \in [base : DOMAIN hw.ioapics, at : Nat, redirection_count : Nat],
         r.at = b.next, NEW n, n \in Nat, n = RecordEnd(r), n <= b.size,
         NEW c, c = WithRecord(b, r, n)
  PROVE  RecordsFit(c) /\ c.size = b.size /\ c.next = n
<1> DEFINE R == [base : DOMAIN hw.ioapics, at : Nat, redirection_count : Nat]
<1>1. /\ b \in [size : Nat, next : Nat, apics : Seq(R)] /\ b.next <= b.size
      /\ \A i \in DOMAIN b.apics :
           /\ RecordEnd(b.apics[i]) <= b.next
           /\ \A j \in DOMAIN b.apics : j > i => RecordEnd(b.apics[i]) <= b.apics[j].at
  BY DEF RecordsFit
<1>2. PICK s \in Seq(R) : s = b.apics
  BY <1>1
<1>3. PICK t : t = Append(s, r)
  OBVIOUS
<1>4. /\ t \in Seq(R) /\ Len(s) \in Nat /\ DOMAIN s = 1..Len(s) /\ DOMAIN t = 1..(Len(s) + 1)
      /\ t[Len(s) + 1] = r /\ \A i \in 1..Len(s) : t[i] = s[i]
  BY <1>2, <1>3
<1>5. /\ c \in [size : Nat, next : Nat, apics : Seq(R)]
      /\ c.size = b.size /\ c.next = n /\ c.apics = t
  BY <1>1, <1>2, <1>3, <1>4 DEF WithRecord
<1>6. b.next <= n /\ b.next \in Nat
  <2>1. r.at \in Nat /\ r.redirection_count \in Nat
    OBVIOUS
  <2> QED BY <1>1, <2>1 DEF RecordEnd, SIZEOF_ioapic_info, SIZEOF_redirection
<1>7. ASSUME NEW i \in 1..Len(s)
      PROVE  RecordEnd(s[i]) <= b.next /\ RecordEnd(s[i]) \in Int
  <2>1. PICK q \in R : q = s[i]
    <3> HIDE DEF R
    <3>1. s[i] \in R
      BY <1>2
    <3> QED BY <3>1
  <2>2. q.at \in Nat /\ q.redirection_count \in Nat
    <3>1. R = [base : DOMAIN hw.ioapics, at : Nat, redirection_count : Nat]
      OBVIOUS
    <3>2. q \in [base : DOMAIN hw.ioapics, at : Nat, redirection_count : Nat]
      BY <2>1, <3>1
    <3> QED BY ONLY <3>2
  <2>3. RecordEnd(q) \in Int
    BY <2>2 DEF RecordEnd, SIZEOF_ioapic_info, SIZEOF_redirection
  <2>4. RecordEnd(s[i]) = RecordEnd(q)
    BY <2>1, Zenon
  <2>5. RecordEnd(s[i]) <= b.next
    BY <1>1, <1>2, <1>4, Zenon
  <2> QED BY <2>3, <2>4, <2>5
<1>8. ASSUME NEW i \in DOMAIN t
      PROVE  RecordEnd(t[i]) <= n
  <2>1. CASE i = Len(s) + 1
    BY <1>4, <2>1
  <2>2. CASE i \in 1..Len(s)
    <3>1. RecordEnd(t[i]) = RecordEnd(s[i])
      BY <1>4, <2>2, Zenon
    <3>2. RecordEnd(s[i]) <= b.next /\ RecordEnd(s[i]) \in Int
      BY <1>7, <2>2, Zenon
    <3> QED BY <1>6, <3>1, <3>2
  <2> QED BY <1>4, <2>1, <2>2
<1>9. ASSUME NEW i \in DOMAIN t, NEW j \in DOMAIN t, j > i
      PROVE  RecordEnd(t[i]) <= t[j].at
  <2>1. i \in 1..Len(s)
    BY <1>4, <1>9
  <2>2. CASE j = Len(s) + 1
    BY <1>4, <1>7, <2>1, <2>2
  <2>3. CASE j \in 1..Len(s)
    BY <1>1, <1>2, <1>4, <1>9, <2>1, <2>3
  <2> QED BY <1>4, <2>2, <2>3
<1> QED BY <1>5, <1>6, <1>8, <1>9 DEF RecordsFit

\* What the places and the block depend on.
LEMMA IoUnchanged ==
  ASSUME SizesInv, UNCHANGED <<hw, pc, step, APIC_INFO, total_size, ioapic_infos>>
  PROVE  SizesInv'
<1>1. \A n : Reserved(n)' = Reserved(n)
  BY DEF Reserved, entries_to_reserve, ioapic_addr
<1>2. \A ends, n : Sums(ends, n)' <=> Sums(ends, n)
  BY <1>1, Zenon DEF Sums
<1>3. RecordsFit(ioapic_infos)' <=> RecordsFit(ioapic_infos)
  BY DEF RecordsFit
<1>4. ioapic_count' = ioapic_count
  BY DEF ioapic_count
<1> QED BY <1>2, <1>3, <1>4, Zenon DEF SizesInv

\* Elsewhere the block is as it was.
LEMMA IoElsewhere ==
  ASSUME SizesInv, UNCHANGED <<hw, ioapic_infos>>, pc' \notin {"io_sizes", "io_infos"}
  PROVE  SizesInv'
BY DEF SizesInv, RecordsFit

\* Before the first loop.
LEMMA SizesStart ==
  ASSUME NamedInv, SizesInv, enable_io_apics, total_size_start
  PROVE  SizesInv'
<1>1. /\ pc = "io_apics" /\ pc' = "io_sizes" /\ step' = 1 /\ hw' = hw /\ APIC_INFO' = APIC_INFO
      /\ ioapic_infos' = ioapic_infos /\ total_size' = SIZEOF_ioapic_info * ioapic_count
      /\ ioapics_ready
  BY DEF enable_io_apics, total_size_start, Goto, acpi_vars
<1>2. ioapic_count' = ioapic_count /\ ioapic_count \in Nat
  BY <1>1 DEF ioapic_count, NamedInv, Named
<1>3. PICK ends : ends = [k \in 0..0 |-> 0]
  OBVIOUS
<1>4. Sums(ends, 0)' /\ ends[0] = 0
  BY <1>3 DEF Sums
<1>5. total_size' = ends[0] + SIZEOF_ioapic_info * (ioapic_count - 0)
  BY <1>1, <1>2, <1>4 DEF SIZEOF_ioapic_info
<1>6. (\E x : Sums(x, step - 1) /\
         total_size = x[step - 1] + SIZEOF_ioapic_info * (ioapic_count - (step - 1)))'
  <2>1. step' - 1 = 0
    BY <1>1
  <2>2. Sums(ends, step - 1)'
    BY <1>4, <2>1
  <2>3. total_size' = ends[step' - 1] + SIZEOF_ioapic_info * (ioapic_count' - (step' - 1))
    BY <1>2, <1>5, <2>1
  <2> QED BY <2>2, <2>3, Zenon
<1>7. step' \in 1..(ioapic_count' + 1)
  BY <1>1, <1>2
<1>8. \A i \in 0..(ioapic_count' - 1) : \E c \in APIC_INFO'.cells : c.kind = 1 /\ c.index = i
  BY <1>1, <1>2, Zenon DEF ioapics_ready
<1>9. ioapic_infos' # None => RecordsFit(ioapic_infos)'
  BY <1>1 DEF SizesInv, RecordsFit
<1> QED BY <1>1, <1>6, <1>7, <1>8, <1>9 DEF SizesInv

\* A turn of the first loop.
LEMMA SizesAdd ==
  ASSUME TypeInv, NamedInv, SizesInv, enable_io_apics, total_size_add
  PROVE  SizesInv'
<1>1. /\ pc = "io_sizes" /\ pc' = "io_sizes" /\ step' = step + 1 /\ hw' = hw
      /\ APIC_INFO' = APIC_INFO /\ ioapic_infos' = ioapic_infos /\ step <= ioapic_count
      /\ total_size' = total_size
           + SIZEOF_redirection * entries_to_reserve(ioapic_addr(step - 1))
  BY DEF enable_io_apics, total_size_add, Goto, acpi_vars
<1>2. ioapic_count' = ioapic_count /\ ioapic_count \in Nat
  BY <1>1 DEF ioapic_count, NamedInv, Named
<1>3. step \in 1..ioapic_count
  BY <1>1, <1>2 DEF SizesInv
<1>4. PICK n \in Nat : n + 1 = step
  <2>1. step - 1 \in Nat /\ (step - 1) + 1 = step
    BY <1>2, <1>3
  <2> QED BY <2>1
<1> DEFINE a == ioapic_addr(n)
<1> HIDE DEF a
<1>5. PICK ends : /\ Sums(ends, n)
                  /\ total_size = ends[n] + SIZEOF_ioapic_info * (ioapic_count - n)
  <2>1. step - 1 = n
    BY <1>2, <1>3, <1>4
  <2> QED BY <1>1, <2>1 DEF SizesInv
<1>6. /\ entries_to_reserve(a) \in Nat /\ Reserved(n + 1) \in Nat
      /\ Reserved(n + 1) = SIZEOF_ioapic_info + SIZEOF_redirection * entries_to_reserve(a)
  <2>1. n + 1 \in 1..ioapic_count /\ (n + 1) - 1 = n
    BY <1>2, <1>3, <1>4
  <2>2. a = ioapic_addr((n + 1) - 1)
    BY <2>1 DEF a
  <2> QED BY <1>1, <2>1, <2>2, RecordSizes
<1>7. PICK more : more = [k \in 0..(n + 1) |->
                            IF k = n + 1 THEN ends[n] + Reserved(n + 1) ELSE ends[k]]
  OBVIOUS
<1>8. Sums(more, n + 1) /\ more[n + 1] = ends[n] + Reserved(n + 1) /\ ends[n] \in Nat
  <2>1. ends[n] \in Nat
    BY <1>5 DEF Sums
  <2> QED BY <1>5, <1>6, <1>7, <2>1, SumsNext
<1>9. Sums(more, n + 1)'
  <2>1. \A k : Reserved(k)' = Reserved(k)
    BY <1>1 DEF Reserved, entries_to_reserve, ioapic_addr
  <2> QED BY <1>8, <2>1 DEF Sums
<1>10. total_size' = more[n + 1] + SIZEOF_ioapic_info * (ioapic_count - (n + 1))
  <2>1. ioapic_addr(step - 1) = a
    <3>1. step - 1 = n
      BY <1>2, <1>3, <1>4
    <3> QED BY <3>1 DEF a
  <2>2. total_size' = ends[n] + SIZEOF_ioapic_info * (ioapic_count - n)
                        + SIZEOF_redirection * entries_to_reserve(a)
    BY <1>1, <1>5, <2>1
  <2> QED BY <1>2, <1>6, <1>8, <2>2 DEF SIZEOF_ioapic_info, SIZEOF_redirection
<1>11. (\E x : Sums(x, step - 1) /\
          total_size = x[step - 1] + SIZEOF_ioapic_info * (ioapic_count - (step - 1)))'
  <2>1. step' - 1 = n + 1
    BY <1>1, <1>4
  <2>2. Sums(more, step - 1)'
    BY <1>9, <2>1
  <2>3. total_size' = more[step' - 1] + SIZEOF_ioapic_info * (ioapic_count' - (step' - 1))
    BY <1>2, <1>10, <2>1
  <2> QED BY <2>2, <2>3, Zenon
<1>12. step' \in 1..(ioapic_count' + 1)
  BY <1>1, <1>2, <1>3
<1>13. \A i \in 0..(ioapic_count' - 1) : \E c \in APIC_INFO'.cells : c.kind = 1 /\ c.index = i
  BY <1>1, <1>2 DEF SizesInv
<1>14. ioapic_infos' # None => RecordsFit(ioapic_infos)'
  BY <1>1 DEF SizesInv, RecordsFit
<1> QED BY <1>1, <1>11, <1>12, <1>13, <1>14 DEF SizesInv

\* The block is asked for.
LEMMA SizesAlloc ==
  ASSUME NamedInv, SizesInv, enable_io_apics, ioapic_infos_alloc
  PROVE  SizesInv'
<1>1. /\ pc = "io_sizes" /\ pc' = "io_infos" /\ step' = 1 /\ hw' = hw /\ APIC_INFO' = APIC_INFO
      /\ step > ioapic_count
      /\ ioapic_infos' = [size |-> total_size, next |-> 0, apics |-> <<>>]
  BY DEF enable_io_apics, ioapic_infos_alloc, Goto, acpi_vars
<1>2. ioapic_count' = ioapic_count /\ ioapic_count \in Nat
  BY <1>1 DEF ioapic_count, NamedInv, Named
<1>3. step - 1 = ioapic_count
  BY <1>1, <1>2 DEF SizesInv
<1>4. PICK ends : Sums(ends, ioapic_count) /\ total_size = ends[ioapic_count]
  <2>1. PICK x : Sums(x, step - 1) /\
          total_size = x[step - 1] + SIZEOF_ioapic_info * (ioapic_count - (step - 1))
    BY <1>1 DEF SizesInv
  <2>2. x[ioapic_count] \in Nat
    BY <1>2, <1>3, <2>1 DEF Sums
  <2>3. total_size = x[ioapic_count]
    BY <1>2, <1>3, <2>1, <2>2 DEF SIZEOF_ioapic_info
  <2> QED BY <1>3, <2>1, <2>3
<1>5. ends[ioapic_count] \in Nat /\ ends[0] = 0
  BY <1>2, <1>4 DEF Sums
<1>6. Sums(ends, ioapic_count)'
  <2>1. \A k : Reserved(k)' = Reserved(k)
    BY <1>1 DEF Reserved, entries_to_reserve, ioapic_addr
  <2> QED BY <1>2, <1>4, <2>1 DEF Sums
<1>7. (\E x : Sums(x, ioapic_count) /\
         ioapic_infos.size = x[ioapic_count] /\ ioapic_infos.next <= x[step - 1])'
  <2>1. ioapic_infos'.size = ends[ioapic_count'] /\ ioapic_infos'.next = 0 /\ step' - 1 = 0
    BY <1>1, <1>2, <1>4
  <2>2. ioapic_infos'.next <= ends[step' - 1]
    BY <1>5, <2>1
  <2> QED BY <1>6, <2>1, <2>2, Zenon
<1>8. RecordsFit(ioapic_infos)'
  <2>1. PICK b : b = ioapic_infos' /\ b = [size |-> total_size, next |-> 0, apics |-> <<>>]
    BY <1>1
  <2>2. b \in [size : Nat, next : Nat,
               apics : Seq([base : DOMAIN hw.ioapics, at : Nat, redirection_count : Nat])]
    BY <1>4, <1>5, <2>1
  <2>3. b.next <= b.size /\ DOMAIN b.apics = {}
    BY <1>4, <1>5, <2>1
  <2>4. RecordsFit(b)
    BY <2>2, <2>3 DEF RecordsFit
  <2> QED BY <1>1, <2>1, <2>4 DEF RecordsFit
<1>9. step' \in 1..(ioapic_count' + 1)
  BY <1>1, <1>2
<1>10. \A i \in 0..(ioapic_count' - 1) : \E c \in APIC_INFO'.cells : c.kind = 1 /\ c.index = i
  BY <1>1, <1>2 DEF SizesInv
<1> QED BY <1>1, <1>7, <1>8, <1>9, <1>10 DEF SizesInv

\* A turn of the second loop.
LEMMA RecordAdd ==
  ASSUME TypeInv, NamedInv, SizesInv, enable_io_apics, enable_io_apic
  PROVE  SizesInv'
<1>1. /\ pc = "io_infos" /\ pc' = "io_infos" /\ step' = step + 1 /\ hw' = hw
      /\ APIC_INFO' = APIC_INFO /\ step <= ioapic_count
  BY DEF enable_io_apics, enable_io_apic, Goto, acpi_vars
<1>2. ioapic_count' = ioapic_count /\ ioapic_count \in Nat
  BY <1>1 DEF ioapic_count, NamedInv, Named
<1>3. step \in 1..ioapic_count
  BY <1>1, <1>2 DEF SizesInv
<1>4. PICK a : a = ioapic_addr(step - 1)
  OBVIOUS
<1>5. PICK b : b = ioapic_infos
  OBVIOUS
<1>6. PICK ends : /\ Sums(ends, ioapic_count)
                  /\ b.size = ends[ioapic_count] /\ b.next <= ends[step - 1]
  BY <1>1, <1>5 DEF SizesInv
<1>7. PICK r : r = [base |-> a, at |-> b.next,
                    redirection_count |-> hw.ioapics[a].entries % 256]
  OBVIOUS
<1>8. RecordsFit(b) /\ b.next \in Nat /\ b.size \in Nat
  BY <1>1, <1>5 DEF SizesInv, RecordsFit
<1>9. /\ a \in DOMAIN hw.ioapics /\ hw.ioapics[a].entries % 256 \in Nat
      /\ info_size(a) = SIZEOF_ioapic_info
                          + SIZEOF_redirection * (hw.ioapics[a].entries % 256)
      /\ info_size(a) <= Reserved(step) /\ info_size(a) \in Nat /\ Reserved(step) \in Nat
  BY <1>1, <1>3, <1>4, RecordSizes
<1>10. PICK n \in Nat : n = b.next + info_size(a)
  BY <1>8, <1>9
<1>11. r \in [base : DOMAIN hw.ioapics, at : Nat, redirection_count : Nat] /\ r.at = b.next
  BY <1>7, <1>8, <1>9
<1>12. n = RecordEnd(r)
  <2>1. r.at = b.next /\ r.redirection_count = hw.ioapics[a].entries % 256
    BY <1>7
  <2> QED BY <1>8, <1>9, <1>10, <2>1 DEF RecordEnd, SIZEOF_ioapic_info, SIZEOF_redirection
<1>13. n <= ends[step] /\ ends[step] <= b.size
  <2>1. ends[step] = ends[step - 1] + Reserved(step) /\ ends[step] \in Nat
        /\ ends[step - 1] \in Nat
    BY <1>2, <1>3, <1>6 DEF Sums
  <2>2. ends[step] <= ends[ioapic_count]
    BY <1>2, <1>3, <1>6 DEF Sums
  <2> QED BY <1>6, <1>8, <1>9, <1>10, <2>1, <2>2
<1>14. n <= b.size
  <2>1. ends[step] \in Nat
    BY <1>2, <1>3, <1>6 DEF Sums
  <2> QED BY <1>8, <1>13, <2>1
<1>15. ioapic_infos' = [b EXCEPT !.next = n, !.apics = Append(b.apics, r)]
  BY <1>4, <1>5, <1>7, <1>10 DEF enable_io_apics, enable_io_apic
<1>16. PICK c : c = ioapic_infos'
  OBVIOUS
<1>17. RecordsFit(c) /\ c.size = b.size /\ c.next = n
  <2>1. c = WithRecord(b, r, n)
    BY <1>15, <1>16, Zenon DEF WithRecord
  <2>2. RecordsFit(b) /\ r.at = b.next
    BY <1>8, <1>11, Zenon
  <2>3. r \in [base : DOMAIN hw.ioapics, at : Nat, redirection_count : Nat]
    BY <1>11, Zenon
  <2>4. n \in Nat
    BY <1>10
  <2> QED BY <1>12, <1>14, <2>1, <2>2, <2>3, <2>4, RecordAppended
<1>18. RecordsFit(ioapic_infos)'
  BY <1>1, <1>16, <1>17 DEF RecordsFit
<1>19. Sums(ends, ioapic_count)'
  <2>1. \A k : Reserved(k)' = Reserved(k)
    BY <1>1 DEF Reserved, entries_to_reserve, ioapic_addr
  <2> QED BY <1>2, <1>6, <2>1 DEF Sums
<1>20. (\E x : Sums(x, ioapic_count) /\
          ioapic_infos.size = x[ioapic_count] /\ ioapic_infos.next <= x[step - 1])'
  <2>1. step' - 1 = step
    BY <1>1, <1>3
  <2>2. ioapic_infos'.size = ends[ioapic_count'] /\ ioapic_infos'.next <= ends[step' - 1]
    BY <1>2, <1>6, <1>13, <1>16, <1>17, <2>1
  <2> QED BY <1>19, <2>2, Zenon
<1>21. step' \in 1..(ioapic_count' + 1)
  BY <1>1, <1>2, <1>3
<1>22. \A i \in 0..(ioapic_count' - 1) : \E d \in APIC_INFO'.cells : d.kind = 1 /\ d.index = i
  BY <1>1, <1>2 DEF SizesInv
<1> QED BY <1>1, <1>18, <1>20, <1>21, <1>22 DEF SizesInv

\* Every step keeps the records in the block.
LEMMA SizesStep ==
  ASSUME TypeInv, NamedInv, SizesInv, [Next]_vars
  PROVE  SizesInv'
<1>1. CASE enable_io_apics
  <2>1. CASE io_apics_end
    <3>1. UNCHANGED <<hw, ioapic_infos>> /\ pc' = "ps2"
      BY <2>1 DEF io_apics_end, ioapic_vars, Goto
    <3> QED BY <3>1, IoElsewhere
  <2> QED BY <1>1, <2>1, SizesStart, SizesAdd, SizesAlloc, RecordAdd DEF enable_io_apics
<1>2. CASE Acpi
  BY <1>2, AcpiFrame, IoElsewhere DEF ioapic_vars
<1>3. CASE Kmain /\ ~Acpi /\ ~enable_io_apics
  <2>1. UNCHANGED <<hw, ioapic_infos>> /\ pc' \notin {"io_sizes", "io_infos"}
    BY <1>3 DEF Kmain, cpuid, enable_apic_fault, cal_fault, enable_apic, cal_start, cal_arm, cal_poll,
       cal_read, io_apics_fault, kmain_ps2, route_fault, ioapic_route, arm_timer, Fault, Goto,
       ioapic_vars
  <2> QED BY <2>1, IoElsewhere
<1>4. CASE Tick \/ KeyPress \/ Interrupt \/ Stopped \/ UNCHANGED vars
  <2>1. UNCHANGED <<hw, pc, step, APIC_INFO, total_size, ioapic_infos>>
    BY <1>4 DEF Tick, KeyPress, Interrupt, Stopped, vars, acpi_vars, ioapic_vars
  <2> QED BY <2>1, IoUnchanged
<1> QED BY <1>1, <1>2, <1>3, <1>4 DEF Next, Kmain

\* Records that fit are what the property asks for.
LEMMA RecordsFitInBlock ==
  ASSUME SizesInv
  PROVE  IoApicsFit
<1>1. SUFFICES ASSUME RecordsFit(ioapic_infos), NEW i \in DOMAIN ioapic_infos.apics
               PROVE  /\ RecordEnd(ioapic_infos.apics[i]) <= ioapic_infos.size
                      /\ \A j \in DOMAIN ioapic_infos.apics :
                           j > i => RecordEnd(ioapic_infos.apics[i]) <= ioapic_infos.apics[j].at
  BY DEF SizesInv, IoApicsFit, RecordEnd
<1>2. PICK b : b = ioapic_infos
  OBVIOUS
<1> DEFINE R == [base : DOMAIN hw.ioapics, at : Nat, redirection_count : Nat]
<1>3. /\ b \in [size : Nat, next : Nat, apics : Seq(R)] /\ b.next <= b.size
      /\ RecordEnd(b.apics[i]) <= b.next
      /\ \A j \in DOMAIN b.apics : j > i => RecordEnd(b.apics[i]) <= b.apics[j].at
  BY <1>1, <1>2 DEF RecordsFit
<1>4. RecordEnd(b.apics[i]) \in Int
  <2>1. PICK s \in Seq(R) : s = b.apics
    BY <1>3
  <2>2. PICK q \in R : q = s[i]
    <3> HIDE DEF R
    <3>1. i \in 1..Len(s)
      BY <1>1, <1>2, <2>1
    <3>2. s[i] \in R
      BY <3>1
    <3> QED BY <3>2
  <2>3. q.at \in Nat /\ q.redirection_count \in Nat
    <3>1. q \in [base : DOMAIN hw.ioapics, at : Nat, redirection_count : Nat]
      BY <2>2
    <3> QED BY ONLY <3>1
  <2>4. RecordEnd(q) \in Int
    BY <2>3 DEF RecordEnd, SIZEOF_ioapic_info, SIZEOF_redirection
  <2> QED BY <2>1, <2>2, <2>4
<1> QED BY <1>2, <1>3, <1>4

-----------------------------------------------------------------------------
(* Theorems *)

\* What holds on every machine: the types, the walk over the tables, the MADT.
TableInv == TypeInv /\ StepInv /\ WalkInv /\ ReadInv

\* The walk over the firmware's tables keeps its invariant (handle_table,
\* handle_MADT).
THEOREM TableInvariant == Spec => []TableInv
<1>1. Init => TableInv
  BY TypeInit, StepInit, WalkInit, ReadInit DEF TableInv
<1>2. TableInv /\ [Next]_vars => TableInv'
  BY TypeStep, StepStep, WalkStep, ReadStep DEF TableInv
<1> QED  BY <1>1, <1>2, PTL DEF Spec

\* Every variable of the boot keeps its type: no counter of the calibration
\* leaves uint32_t and the window is never 0 when it is divided by
\* (calibrate_lapic_ticks_per_ms).
THEOREM BootTypes == Spec => []TypeOK
<1>1. TableInv => TypeOK
  BY DEF TableInv, TypeInv
<1> QED  BY <1>1, TableInvariant, PTL

\* An ordinary machine's MADT is found whatever the order of its tables, although
\* each checksum is taken over another table (handle_table).
THEOREM MadtIsFound == Spec => []MadtFound
<1>1. TableInv => MadtFound
  BY DEF TableInv, WalkInv
<1> QED  BY <1>1, TableInvariant, PTL

\* The two passes over a MADT of any records, of any lengths, agree, and
\* APIC_INFO is what the table says (handle_MADT).
THEOREM MadtIsRead == Spec => []MadtFaithful
<1>1. TableInv => MadtFaithful
  BY DEF TableInv, ReadInv
<1> QED  BY <1>1, TableInvariant, PTL

\* The calibration is accurate from any start of the timer and across its wrap,
\* for timers and windows of any size, if a FADT that claims 32 bits is right
\* (calibrate_lapic_ticks_per_ms).
THEOREM CalibrationIsAccurate ==
  ASSUME FadtTellsWidth
  PROVE  Spec => []CalibrationAccurate
<1> DEFINE I == TypeInv /\ StepInv /\ FadtInv /\ CalInv
<1>1. Init => I
  BY TypeInit, StepInit, CalInit
<1>2. I /\ [Next]_vars => I'
  BY TypeStep, StepStep, FadtStep, CalStep
<1>3. I => CalibrationAccurate
  BY DEF CalInv
<1> QED  BY <1>1, <1>2, <1>3, PTL DEF Spec

\* No interrupt of the keyboard's vector reaches another processor, whenever the
\* key is pressed, if the firmware left the vector free (ioapic_route).
THEOREM RoutingIsWhole ==
  ASSUME KeyVectorFree
  PROVE  Spec => []RoutedWhole
<1> DEFINE I == TypeInv /\ RouteInv
<1>1. Init => I
  BY TypeInit, RouteInit
<1>2. I /\ [Next]_vars => I'
  BY TypeStep, RouteStep
<1>3. I => RoutedWhole
  BY DEF RouteInv
<1> QED  BY <1>1, <1>2, <1>3, PTL DEF Spec
\* However many I/O APICs there are and however many entries each has, the
\* records are in the block that was asked for and none reaches into the next
\* (enable_io_apics, enable_io_apic).
THEOREM RecordsAreInBlock == Spec => []IoApicsFit
<1> DEFINE I == TableInv /\ IoInv
<1>1. Init => I
  BY TypeInit, StepInit, WalkInit, ReadInit, NamedInit DEF TableInv
<1>2. I /\ [Next]_vars => I'
  BY TypeStep, StepStep, WalkStep, ReadStep, NamedStep, SizesStep DEF TableInv, IoInv
<1>3. I => IoApicsFit
  BY RecordsFitInBlock DEF IoInv
<1> QED  BY <1>1, <1>2, <1>3, PTL DEF Spec
=============================================================================
