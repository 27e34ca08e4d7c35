-------------------------------- MODULE Boot --------------------------------
(***************************************************************************)
(* kmain from the boot loader to the idle loop: what Acpi finds is what    *)
(* enable_apic and enable_io_apics use.  The local APIC timer is           *)
(* calibrated against the ACPI PM timer, which counts on its own, and the  *)
(* keyboard's pin is routed while its line may go up at any time.          *)
(*                                                                         *)
(* More of a machine hw: msr (the CPUID feature); pm, the PM timer: where  *)
(* it wraps, mod, and whether it runs; what is read of it in the FADT,     *)
(* port, x and is32; bsp, the id of the processor; ioapics, for each       *)
(* address its number of redirection entries, its first GSI, and the entry *)
(* of pin 1 the firmware leaves; key_gsi, where the keyboard's line goes.  *)
(* Memory, processes and the PS/2 controller have modules of their own.    *)
(***************************************************************************)
EXTENDS Acpi

CONSTANTS
  MOD24, MOD32,     \* 2^24 and 2^32: where a short and a long PM timer wrap, and uint32_t
  WAIT,             \* PM ticks of the calibration window: PM_TIMER_HZ / 100
  PM_PER_MS,        \* PM ticks in a millisecond
  RATE,             \* local APIC ticks in a PM tick
  MaxGap            \* PM ticks that pass between two steps of kmain

ASSUME BootAssumption ==
  /\ {MOD24, MOD32, WAIT, PM_PER_MS, RATE, MaxGap} \subseteq Nat \ {0}
  /\ MOD24 < MOD32 /\ MOD32 % MOD24 = 0 /\ WAIT + 2 * MaxGap < MOD24

ASSUME DevicesAssumption ==
  \A m \in Machines :
    /\ m.pm.mod \in {MOD24, MOD32}
    /\ \A a \in DOMAIN m.ioapics :
         /\ m.ioapics[a].entry \in [dest : Nat, vector : Nat, masked : BOOLEAN]
         /\ m.ioapics[a].entries \in 1..256
    /\ \A k \in DOMAIN m.tables : m.tables[k].sig = "APIC" =>
         \A j \in DOMAIN m.tables[k].recs :
           m.tables[k].recs[j].type = 1 => m.tables[k].recs[j].val \in DOMAIN m.ioapics

VARIABLES
  \* calibration: the PM timer, ticks since kmain's last step, the count of the
  \* local APIC, and the driver's start and elapsed
  pm, gap, lapic, start, elapsed,
  LAPIC_TICKS_PER_MS, armed,
  \* enable_io_apics: the size of the block it asks for, and the block
  total_size, ioapic_infos,
  \* interrupts: the redirection entries of pin 1, the keyboard's line, the
  \* interrupt on its way, the vectors and processors reached so far
  redir, line, pending, delivered

cal_vars == <<pm, gap, lapic, start, elapsed, LAPIC_TICKS_PER_MS>>
ioapic_vars == <<total_size, ioapic_infos>>
irq_vars == <<redir, line, pending, delivered>>
vars == <<hw, pc, step, acpi_vars, cal_vars, armed, ioapic_vars, irq_vars>>

Init ==
  /\ AcpiInit
  /\ pm \in 0..(hw.pm.mod - 1) /\ gap = 0 /\ lapic = 0 /\ start = 0 /\ elapsed = 0
  /\ LAPIC_TICKS_PER_MS = 0 /\ armed = FALSE
  /\ total_size = 0 /\ ioapic_infos = None
  /\ redir = [a \in DOMAIN hw.ioapics |-> hw.ioapics[a].entry]
  /\ line = FALSE /\ pending = None /\ delivered = {}

KEY_VECTOR == 33

-----------------------------------------------------------------------------
(* enable_apic, lapic_ticks_per_ms *)

cpuid ==
  /\ pc = "cpuid" /\ Goto(IF hw.msr THEN "apic" ELSE "halted", 1)
  /\ UNCHANGED <<acpi_vars, cal_vars, armed, ioapic_vars, irq_vars>>

Fault(p) ==
  /\ pc = p /\ Goto("fault", 1)
  /\ UNCHANGED <<acpi_vars, cal_vars, armed, ioapic_vars, irq_vars>>

\* Mutant: only the port of a short FADT is looked at.
pm_named_short == FADT # None /\ FADT.port

\* The FADT names a PM timer: the 32-bit port, or the extended address.
pm_named == FADT # None /\ (IF full_length(FADT) THEN FADT.x # "none" ELSE FADT.port)

\* A null pointer, or registers that were never mapped.
lapic_ready == APIC_INFO # None /\ APIC_INFO.lapic_addr \in mapped

enable_apic_fault == Fault("apic") /\ ~lapic_ready

\* disable_PIC and the spurious vector; without a PM timer the result is 0.
enable_apic ==
  /\ pc = "apic" /\ lapic_ready
  /\ Goto(IF pm_named THEN "cal_start" ELSE "io_apics", 1)
  /\ IF pm_named /\ full_length(FADT) /\ FADT.x = "mmio"
       THEN map_mmio({FADT.x_page}) ELSE UNCHANGED mapped
  /\ UNCHANGED <<mmap, rsdp, rsdp_new, heap_ready, FADT, MCFG, info, APIC_INFO>>
  /\ UNCHANGED <<cal_vars, armed, ioapic_vars, irq_vars>>

-----------------------------------------------------------------------------
(* calibrate_lapic_ticks_per_ms *)

pm_read == IF FADT.is32 THEN pm ELSE pm % MOD24

\* Mutant: the difference is taken as if the timer had 32 bits.
mask_always_32 == MOD32

mask == IF FADT.is32 THEN MOD32 ELSE MOD24

\* Mutant: the difference is signed and not masked.
elapsed_now_signed == pm_read - start

\* The uint32_t difference, masked.
elapsed_now == ((pm_read - start) % MOD32) % mask

\* The timer's registers are in memory that map_mmio could not map.
pm_unmapped == full_length(FADT) /\ FADT.x = "mmio" /\ FADT.x_page \notin mapped

cal_fault == Fault("cal_start") /\ pm_unmapped

cal_start ==
  /\ pc = "cal_start" /\ ~pm_unmapped /\ start' = pm_read /\ gap' = 0
  /\ Goto("cal_arm", 1)
  /\ UNCHANGED <<acpi_vars, pm, lapic, elapsed, LAPIC_TICKS_PER_MS, armed, ioapic_vars,
                 irq_vars>>

\* The count starts.
cal_arm ==
  /\ pc = "cal_arm" /\ lapic' = 0 /\ gap' = 0
  /\ Goto("cal_poll", 1)
  /\ UNCHANGED <<acpi_vars, pm, start, elapsed, LAPIC_TICKS_PER_MS, armed, ioapic_vars,
                 irq_vars>>

cal_poll ==
  /\ pc = "cal_poll" /\ elapsed' = elapsed_now /\ gap' = 0
  /\ Goto(IF elapsed_now < WAIT THEN "cal_poll" ELSE "cal_read", 1)
  /\ UNCHANGED <<acpi_vars, pm, lapic, start, LAPIC_TICKS_PER_MS, armed, ioapic_vars,
                 irq_vars>>

cal_read ==
  /\ pc = "cal_read" /\ gap' = 0
  /\ LAPIC_TICKS_PER_MS' = (lapic * PM_PER_MS) \div elapsed
  /\ Goto("io_apics", 1)
  /\ UNCHANGED <<acpi_vars, pm, lapic, start, elapsed, armed, ioapic_vars, irq_vars>>

\* The PM timer and the local APIC count (external).
Calibrating == pc \in {"cal_arm", "cal_poll", "cal_read"}
Tick ==
  /\ Calibrating /\ hw.pm.runs /\ gap < MaxGap
  /\ pm' = (pm + 1) % hw.pm.mod /\ gap' = gap + 1
  /\ lapic' = lapic + RATE
  /\ UNCHANGED <<hw, pc, step, acpi_vars, start, elapsed, LAPIC_TICKS_PER_MS, armed,
                 ioapic_vars, irq_vars>>

-----------------------------------------------------------------------------
(* enable_io_apics *)

SIZEOF_ioapic_info == 16
SIZEOF_redirection == 8

\* ioapics[i] of APIC_INFO, from 0.
ioapic_addr(i) == (CHOOSE c \in APIC_INFO.cells : c.kind = 1 /\ c.index = i).val
ioapic_count == APIC_INFO.count[1]

\* Mutant: one entry per I/O APIC is forgotten, as the register holds the last.
entries_to_reserve_last(a) == hw.ioapics[a].entries - 1

entries_to_reserve(a) == hw.ioapics[a].entries

\* uint8_t redirection_count.
info_size(a) == SIZEOF_ioapic_info + SIZEOF_redirection * (hw.ioapics[a].entries % 256)

\* Counters that did not start at 0, or registers that are not mapped.
ioapics_ready ==
  /\ APIC_INFO.count = APIC_INFO.room
  /\ \A i \in 0..(ioapic_count - 1) : \E c \in APIC_INFO.cells :
       c.kind = 1 /\ c.index = i /\ c.val \in mapped

io_apics_fault == Fault("io_apics") /\ ~ioapics_ready

total_size_start ==
  /\ pc = "io_apics" /\ ioapics_ready
  /\ total_size' = SIZEOF_ioapic_info * ioapic_count
  /\ Goto("io_sizes", 1) /\ UNCHANGED ioapic_infos

total_size_add ==
  /\ pc = "io_sizes" /\ step <= ioapic_count
  /\ total_size' = total_size + SIZEOF_redirection * entries_to_reserve(ioapic_addr(step - 1))
  /\ Goto("io_sizes", step + 1) /\ UNCHANGED ioapic_infos

\* The block from Imalloc, the second one in the heap (as for madt_count, there is
\* room for it), with the offset at which the next record goes.
ioapic_infos_alloc ==
  /\ pc = "io_sizes" /\ step > ioapic_count
  /\ ioapic_infos' = [size |-> total_size, next |-> 0, apics |-> <<>>]
  /\ Goto("io_infos", 1) /\ UNCHANGED total_size

enable_io_apic ==
  /\ pc = "io_infos" /\ step <= ioapic_count
  /\ LET a == ioapic_addr(step - 1)
     IN ioapic_infos' =
          [ioapic_infos EXCEPT
             !.next = @ + info_size(a),
             !.apics = Append(@, [base |-> a, at |-> ioapic_infos.next,
                                  redirection_count |-> hw.ioapics[a].entries % 256])]
  /\ Goto("io_infos", step + 1) /\ UNCHANGED total_size

io_apics_end ==
  /\ pc = "io_infos" /\ step > ioapic_count
  /\ Goto("ps2", 1) /\ UNCHANGED ioapic_vars

enable_io_apics ==
  /\ \/ total_size_start \/ total_size_add \/ ioapic_infos_alloc \/ enable_io_apic
     \/ io_apics_end
  /\ UNCHANGED <<acpi_vars, cal_vars, armed, irq_vars>>

-----------------------------------------------------------------------------
(* The rest of kmain: ps2_controller_init, the processes, sti,             *)
(* keyboard_ps2_init (ioapic_route of pin 1) and the timer.                *)

kmain_ps2 ==
  /\ pc = "ps2" /\ Goto("route", 1)
  /\ UNCHANGED <<acpi_vars, cal_vars, armed, ioapic_vars, irq_vars>>

\* Without an I/O APIC apics[0] is not one.
route_fault == Fault("route") /\ ioapic_count = 0

Base == ioapic_infos.apics[1].base

high_half(e) == [e EXCEPT !.dest = 0]

\* Mutant: the mask bit of the entry is kept.
low_half_masked(e) == [e EXCEPT !.vector = KEY_VECTOR]

low_half(e) == [e EXCEPT !.vector = KEY_VECTOR, !.masked = FALSE]

\* Mutant: the low half, which unmasks the pin, first.
ioapic_route_halves_swapped == [first |-> "low", second |-> "high"]

ioapic_route_halves == [first |-> "high", second |-> "low"]

ioapic_write(half) ==
  redir' = [redir EXCEPT ![Base] = IF half = "high" THEN high_half(@) ELSE low_half(@)]

ioapic_route ==
  /\ \/ /\ pc = "route" /\ ioapic_count > 0
        /\ ioapic_write(ioapic_route_halves.first) /\ Goto("route_low", 1)
     \/ /\ pc = "route_low"
        /\ ioapic_write(ioapic_route_halves.second) /\ Goto("arm", 1)
  /\ UNCHANGED <<acpi_vars, cal_vars, armed, ioapic_vars, line, pending, delivered>>

\* A timer with an initial count of 0 does not run.
arm_timer ==
  /\ pc = "arm" /\ armed' = (LAPIC_TICKS_PER_MS # 0) /\ Goto("running", 1)
  /\ UNCHANGED <<acpi_vars, cal_vars, ioapic_vars, irq_vars>>

-----------------------------------------------------------------------------
(* The keyboard and the I/O APIC (external).  The line is an edge: a byte  *)
(* that arrives while the pin is masked raises nothing later.              *)

\* The keyboard's line goes to this I/O APIC, if it is pin 1 of one.
Wired == {a \in DOMAIN hw.ioapics : hw.ioapics[a].gsi_base + 1 = hw.key_gsi}

KeyPress ==
  /\ pc \in {"route", "route_low", "arm", "running"} /\ ~line
  /\ line' = TRUE
  /\ pending' = IF \E a \in Wired : ~redir[a].masked
                  THEN LET e == redir[CHOOSE a \in Wired : TRUE]
                       IN [vector |-> e.vector, dest |-> e.dest]
                  ELSE pending
  /\ UNCHANGED <<hw, pc, step, acpi_vars, cal_vars, armed, ioapic_vars, redir, delivered>>

\* keyboard_interrupt_handler reads the byte; any other vector does not.
Interrupt ==
  /\ pending # None
  /\ delivered' = delivered \cup {pending} /\ pending' = None
  /\ line' = (line /\ ~(pending.vector = KEY_VECTOR /\ pending.dest = hw.bsp))
  /\ UNCHANGED <<hw, pc, step, acpi_vars, cal_vars, armed, ioapic_vars, redir>>

-----------------------------------------------------------------------------
Acpi ==
  AcpiNext /\ UNCHANGED <<cal_vars, armed, ioapic_vars, irq_vars>>

Kmain ==
  \/ Acpi \/ cpuid \/ enable_apic_fault \/ enable_apic
  \/ cal_fault \/ cal_start \/ cal_arm \/ cal_poll \/ cal_read
  \/ io_apics_fault \/ enable_io_apics \/ kmain_ps2
  \/ route_fault \/ ioapic_route \/ arm_timer

\* Halted, hanging in the fault handler, or in the idle loop.
Stopped == pc \in {"halted", "fault", "running"} /\ UNCHANGED vars

Next == Kmain \/ Tick \/ KeyPress \/ Interrupt \/ Stopped

\* The processor runs kmain, a timer that runs counts, and an interrupt that
\* was accepted is delivered.
Spec == Init /\ [][Next]_vars /\ WF_vars(Kmain) /\ WF_vars(Tick) /\ WF_vars(Interrupt)

-----------------------------------------------------------------------------
(* What the driver takes from the firmware. *)

\* A FADT that calls the PM timer 32 bits wide is right.
FadtTellsWidth ==
  \A m \in Machines : \A k \in DOMAIN m.tables :
    m.tables[k].sig = "FACP" /\ m.tables[k].is32 => m.pm.mod = MOD32

\* No pin 1 raises the vector of the keyboard before it is routed.
KeyVectorFree ==
  \A m \in Machines : \A a \in DOMAIN m.ioapics :
    m.ioapics[a].entry.vector # KEY_VECTOR

-----------------------------------------------------------------------------
(* Properties *)

\* The types of the variables.
TypeOK ==
  /\ hw \in Machines /\ step \in Nat
  /\ pc \in {"mb2", "tags", "heap", "acpi", "tables", "madt", "cpuid", "apic", "cal_start",
             "cal_arm", "cal_poll", "cal_read", "io_apics", "io_sizes", "io_infos", "ps2", "route",
             "route_low", "arm", "running", "halted", "fault"}
  /\ {mmap, rsdp, rsdp_new, heap_ready, armed, line} \subseteq BOOLEAN
  /\ pm \in 0..(hw.pm.mod - 1) /\ gap \in 0..MaxGap
  /\ {start, elapsed} \subseteq 0..(MOD32 - 1)
  /\ {lapic, LAPIC_TICKS_PER_MS} \subseteq Nat

\* Wherever the PM timer stands when the calibration starts and whenever it
\* wraps, the local APIC was counted over the PM ticks it is divided by, up to
\* the ticks that pass between two reads (calibrate_lapic_ticks_per_ms).
CalibrationAccurate ==
  pc = "io_apics" /\ elapsed > 0 =>
    /\ elapsed >= WAIT
    /\ lapic - RATE * elapsed \in -(RATE * MaxGap)..(RATE * MaxGap)

\* The records of the I/O APICs, one behind the other with tables of different
\* sizes, do not overlap and end inside the block that was counted for them.
IoApicsFit ==
  ioapic_infos # None =>
    \A i \in DOMAIN ioapic_infos.apics :
      LET r == ioapic_infos.apics[i]
          end == r.at + SIZEOF_ioapic_info + SIZEOF_redirection * r.redirection_count
      IN /\ end <= ioapic_infos.size
         /\ \A j \in DOMAIN ioapic_infos.apics : j > i => end <= ioapic_infos.apics[j].at

\* No interrupt of the keyboard's vector goes to another processor than the
\* routed one, whatever the firmware left in the entry and whenever the key is
\* pressed ("high half first", "low half last", ioapic_route).
RoutedWhole == \A d \in delivered : d.vector = KEY_VECTOR => d.dest = 0

\* An ordinary machine whose keyboard is on pin 1 of the first I/O APIC and
\* whose boot processor has the id 0.
KeyboardOrdinary ==
  /\ Ordinary /\ hw.bsp = 0
  /\ ioapic_infos # None /\ ioapic_infos.apics # <<>> /\ Base \in Wired

\* An ordinary machine with everything the kernel needs: a memory map, a good
\* RSDP that leads to an RSDT, a MADT with an I/O APIC, and a PM timer that runs.
Bootable ==
  LET tags == {hw.tags[k] : k \in DOMAIN hw.tags}
      tables(sig) == {t \in {hw.tables[k] : k \in DOMAIN hw.tables} : t.sig = sig}
      r == hw.rsdp["old"]
  IN /\ Ordinary /\ hw.header = "ok" /\ hw.mmap_ok /\ hw.msr /\ hw.pm.runs
     /\ {"mmap", "acpi_old"} \subseteq tags /\ "acpi_new" \notin tags
     /\ r.signature /\ r.sum20
     /\ \E t \in tables("APIC") : \E k \in counted(t) : t.recs[k].type = 1
     /\ \E t \in tables("FACP") : IF full_length(t) THEN t.x # "none" ELSE t.port

\* A bootable machine reaches the idle loop with the scheduler's timer running:
\* its tables are found and mapped in whatever order they are listed, and the
\* calibration, which waits without a limit, ends.
BootFinishes == Bootable => <>(pc = "running" /\ armed)

\* Once the pin is routed, with no byte waiting, every byte is read.
KeysServed ==
  [](pc = "arm" /\ ~line /\ KeyboardOrdinary => [](line => <>~line))
=============================================================================
