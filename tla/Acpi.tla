-------------------------------- MODULE Acpi --------------------------------
(***************************************************************************)
(* What the boot loader and the firmware hand over: the multiboot tags     *)
(* (handle_multiboot2), the ACPI tables behind the RSDP (ACPI.c) and the   *)
(* records of the MADT, which end in APIC_INFO (handle_MADT).              *)
(*                                                                         *)
(* A machine hw is a record.  The multiboot structure: header, tags,       *)
(* mmap_ok (whether handle_mb2_mmap finds memory, see MemMap).  ACPI: the  *)
(* RSDPs rsdp, the pages root_pages of the root table, its tables; a table *)
(* has its signature sig, its length len, whether its bytes sum to 0, its  *)
(* pages, and by signature what the kernel reads of it.  frames tells if   *)
(* page frames are left, dirty what a word of unused memory holds.         *)
(***************************************************************************)
EXTENDS Integers, Sequences, FiniteSets, FiniteSetsExt

CONSTANTS
  Machines,        \* the machines the kernel may be started on
  SIZEOF_FADT,     \* sizeof(struct FADT_TABLE)
  SIZEOF_MCFG,     \* sizeof(struct ACPI_MCFG): 16 entries
  MADT_RECORDS     \* offset of the first record of a MADT

\* What the kernel reads of a table: its header, of the FADT what is about the PM
\* timer, the records of a MADT.  struct FADT_TABLE is not packed: port is at its
\* place in the table, is32 is read four bytes behind the table's Flags and x 32
\* bytes behind its X_PMTimerBlock, so these two are whatever stands there.
ACPISDTHeader ==
  [sig : {"MCFG", "other"}, len : Nat, valid : BOOLEAN, pages : SUBSET Nat]
FADT_TABLE ==
  [sig : {"FACP"}, len : Nat, valid : BOOLEAN, pages : SUBSET Nat, port : BOOLEAN,
   x : {"none", "io", "mmio"}, x_page : Nat, is32 : BOOLEAN]
ACPI_APIC ==
  [sig : {"APIC"}, len : Nat, valid : BOOLEAN, pages : SUBSET Nat, lapic : Nat,
   recs : Seq([type : Nat, len : Nat, val : Nat])]

ASSUME AcpiAssumption ==
  /\ {SIZEOF_FADT, SIZEOF_MCFG, MADT_RECORDS} \subseteq Nat
  /\ \A m \in Machines :
       /\ m.tables \in Seq(ACPISDTHeader \cup FADT_TABLE \cup ACPI_APIC)
       /\ m.root_pages \in SUBSET Nat /\ IsFiniteSet(m.root_pages) /\ m.dirty \in Nat

VARIABLES
  hw,              \* the machine
  pc,              \* where kmain is, "halted" (cli; hlt) or "fault" (#PF)
  step,            \* the tag, table or MADT record it is at
  mmap,            \* whether the memory map tag was seen
  rsdp, rsdp_new,  \* whether the two structures were copied
  heap_ready,      \* whether the heap is mapped
  FADT, MCFG,      \* the tables that were copied there
  mapped,          \* the pages mapped by map_mmio
  info,            \* the madt_info being filled
  APIC_INFO

acpi_vars == <<mmap, rsdp, rsdp_new, heap_ready, FADT, MCFG, mapped, info, APIC_INFO>>

None == [none |-> TRUE]

AcpiInit ==
  /\ hw \in Machines
  /\ pc = "mb2" /\ step = 1
  /\ mmap = FALSE /\ rsdp = FALSE /\ rsdp_new = FALSE /\ heap_ready = FALSE
  /\ FADT = None /\ MCFG = None /\ mapped = {}
  /\ info = None /\ APIC_INFO = None

Goto(p, s) == pc' = p /\ step' = s /\ UNCHANGED hw

-----------------------------------------------------------------------------
(* handle_multiboot2 *)

\* The magic number and the alignment.
mb2_header ==
  /\ pc = "mb2"
  /\ Goto(IF hw.header = "ok" THEN "tags" ELSE "halted", 1)
  /\ UNCHANGED acpi_vars

Tag == hw.tags[step]

\* A tag that is copied, remembered or only printed.
mb2_tag ==
  /\ pc = "tags" /\ step <= Len(hw.tags) /\ Tag # "module"
  /\ mmap' = (mmap \/ Tag = "mmap")
  /\ rsdp' = (rsdp \/ Tag = "acpi_old")
  /\ rsdp_new' = (rsdp_new \/ Tag = "acpi_new")
  /\ Goto("tags", step + 1)
  /\ UNCHANGED <<heap_ready, FADT, MCFG, mapped, info, APIC_INFO>>

\* tar_mb2_init counts the files of the archive and asks Imalloc for their
\* headers: the allocator is read from KERNEL_HEAP_ADDR.
tar_mb2_init ==
  /\ pc = "tags" /\ step <= Len(hw.tags) /\ Tag = "module"
  /\ Goto(IF heap_ready THEN "tags" ELSE "fault", step + 1)
  /\ UNCHANGED acpi_vars

mb2_end ==
  /\ pc = "tags" /\ step > Len(hw.tags)
  /\ Goto(IF mmap /\ hw.mmap_ok THEN "heap" ELSE "halted", 1)
  /\ UNCHANGED acpi_vars

\* kmain after it: gdt_init, write_cr3 and alloc_init (see Paging).
kmain_heap ==
  /\ pc = "heap" /\ heap_ready' = TRUE /\ Goto("acpi", 1)
  /\ UNCHANGED <<mmap, rsdp, rsdp_new, FADT, MCFG, mapped, info, APIC_INFO>>

-----------------------------------------------------------------------------
(* handle_ACPI, handle_new_acpi, handle_old_acpi *)

\* The new structure is preferred; the old one is not tried after it.
chosen == IF rsdp_new THEN "new" ELSE "old"

\* The signature, the sum of the first 20 bytes, and of all of the new one.
rsdp_good(r) == r.signature /\ r.sum20 /\ (chosen = "new" => r.sum)

\* A call for each of the pages; when frames run out any of them may fail.
map_mmio(pages) ==
  \E done \in SUBSET pages : (hw.frames => done = pages) /\ mapped' = mapped \cup done

\* No RSDP, one that is refused or a failed map_mmio: kmain does not look at it.
acpi_refused ==
  /\ pc = "acpi"
  /\ ~(rsdp \/ rsdp_new) \/ ~rsdp_good(hw.rsdp[chosen]) \/ ~hw.frames
  /\ Goto("cpuid", 1) /\ UNCHANGED acpi_vars

\* One page from the start of the root table.
acpi_root ==
  /\ pc = "acpi" /\ (rsdp \/ rsdp_new)
  /\ rsdp_good(hw.rsdp[chosen])
  /\ mapped' = mapped \cup {Min(hw.root_pages)}
  /\ Goto("tables", 1)
  /\ UNCHANGED <<mmap, rsdp, rsdp_new, heap_ready, FADT, MCFG, info, APIC_INFO>>

-----------------------------------------------------------------------------
(* categoriseTablesXSDT, categoriseTablesRSDT, handle_table *)

\* The end of a longer table is left behind the one held.
overwritten(held) ==
  \E j \in 1..(step - 1) : hw.tables[j].sig = held.sig /\ hw.tables[j].len > held.len

\* The sums that len bytes from a structure of the given size may have: it is
\* all zero or holds a table, followed by zeroes unless it was overwritten; part
\* of a table, or what lies after the structure, may sum to anything.
calculate_checksum(held, size, len) ==
  IF held = None THEN (IF len <= size THEN {0} ELSE {0, 1})
  ELSE IF len <= size /\ (held.len = len \/ (held.len < len /\ ~overwritten(held)))
    THEN {IF held.valid THEN 0 ELSE 1}
  ELSE {0, 1}

Table == hw.tables[step]

\* Of a table the kernel does not know only the header is read.
PagesRead == hw.root_pages \cup
             IF Table.sig = "other" THEN {Min(Table.pages)} ELSE Table.pages

\* Whether the entries of the root are read where they stand.  struct XSDT is
\* not packed: its array of 64-bit pointers starts at offset 40 and the entries
\* at 36, so that each pointer is made of halves of two of them.
entries_in_place == chosen = "old"

At(sig) == pc = "tables" /\ step <= Len(hw.tables) /\ Table.sig = sig
           /\ PagesRead \subseteq mapped /\ entries_in_place

\* The root, the table or what is taken for one is not on a page that is mapped.
table_fault ==
  /\ pc = "tables" /\ step <= Len(hw.tables)
  /\ ~(PagesRead \subseteq mapped /\ entries_in_place)
  /\ Goto("fault", step) /\ UNCHANGED acpi_vars

\* A failed checksum ends the walk; its result reaches nobody.
table_refused(held, size) ==
  /\ \E sum \in calculate_checksum(held, size, Table.len) : sum # 0
  /\ Goto("cpuid", 1) /\ UNCHANGED acpi_vars

\* Whether FADT.FullLength is set: no FADT of ACPI 6 or before is that long.
full_length(t) == t.len >= SIZEOF_FADT

\* FullLength takes the place of a byte of the table, which is 0 there.
table_FACP ==
  /\ At("FACP")
  /\ \/ table_refused(FADT, SIZEOF_FADT)
     \/ /\ 0 \in calculate_checksum(FADT, SIZEOF_FADT, Table.len)
        /\ FADT' = [Table EXCEPT !.valid = @ /\ ~full_length(Table)]
        /\ Goto("tables", step + 1)
        /\ UNCHANGED <<mmap, rsdp, rsdp_new, heap_ready, MCFG, mapped, info, APIC_INFO>>

table_MCFG ==
  /\ At("MCFG")
  /\ \/ table_refused(MCFG, SIZEOF_MCFG)
     \/ /\ 0 \in calculate_checksum(MCFG, SIZEOF_MCFG, Table.len)
        /\ MCFG' = Table /\ Goto("tables", step + 1)
        /\ UNCHANGED <<mmap, rsdp, rsdp_new, heap_ready, FADT, mapped, info, APIC_INFO>>

\* Mutant: a table with an unknown signature is an error.
table_other_refused ==
  At("other") /\ Goto("cpuid", 1) /\ UNCHANGED acpi_vars

table_other ==
  /\ At("other") /\ Goto("tables", step + 1) /\ UNCHANGED acpi_vars

\* After the last table; discoverPCIE only maps device pages.
tables_end ==
  /\ pc = "tables" /\ step > Len(hw.tables)
  /\ Goto("cpuid", 1) /\ UNCHANGED acpi_vars

-----------------------------------------------------------------------------
(* handle_MADT *)

\* The records that have an array: processors, I/O APICs, source overrides,
\* NMIs and local NMIs.
Kinds == 0..4

Offset(t, k) == MADT_RECORDS + MapThenSumSet(LAMBDA j : t.recs[j].len, 1..(k - 1))
malformed(t, k) == t.recs[k].len < 2 \/ Offset(t, k) + t.recs[k].len > t.len

\* The first pass counts up to the first malformed record.
counted(t) == {k \in DOMAIN t.recs : \A j \in 1..k : ~malformed(t, j)}

\* Mutant: the second pass does not look where the table ends.
second_pass_takes_cut(t, k) == k \in DOMAIN t.recs /\ t.recs[k].len >= 2

second_pass_takes(t, k) == k \in DOMAIN t.recs /\ ~malformed(t, k)

\* Imalloc, and an Imemset of the 8 bytes before the counters.  The block is the
\* first one in the fresh heap, which has room for it; Imalloc never returns a null
\* pointer (see Heap), so that the return after one is dead.
madt_count ==
  /\ At("APIC")
  /\ \/ table_refused(MCFG, SIZEOF_MCFG)
     \/ /\ 0 \in calculate_checksum(MCFG, SIZEOF_MCFG, Table.len)
        /\ info' = [at |-> 1, lapic_addr |-> Table.lapic, cells |-> {},
                    room |-> [kind \in Kinds |-> Cardinality(
                                {k \in counted(Table) : Table.recs[k].type = kind})],
                    count |-> [kind \in Kinds |-> hw.dirty]]
        /\ Goto("madt", step)
        /\ UNCHANGED <<mmap, rsdp, rsdp_new, heap_ready, FADT, MCFG, mapped, APIC_INFO>>

\* The second pass: a record goes to the next cell of its array, or replaces
\* the address of the local APIC.
madt_record ==
  /\ pc = "madt" /\ second_pass_takes(Table, info.at)
  /\ LET r == Table.recs[info.at]
         next == [info EXCEPT !.at = @ + 1]
     IN info' = CASE r.type \in Kinds ->
                       [next EXCEPT !.count[r.type] = @ + 1,
                                    !.cells = @ \cup {[kind |-> r.type, val |-> r.val,
                                                       index |-> info.count[r.type]]}]
                  [] r.type = 5 -> [next EXCEPT !.lapic_addr = r.val]
                  [] OTHER -> next
  /\ Goto("madt", step)
  /\ UNCHANGED <<mmap, rsdp, rsdp_new, heap_ready, FADT, MCFG, mapped, APIC_INFO>>

\* The registers are mapped, whether or not map_mmio succeeds.
madt_map ==
  /\ pc = "madt" /\ ~second_pass_takes(Table, info.at)
  /\ map_mmio({info.lapic_addr} \cup {c.val : c \in {d \in info.cells : d.kind = 1}})
  /\ APIC_INFO' = info /\ info' = None
  /\ Goto("tables", step + 1)
  /\ UNCHANGED <<mmap, rsdp, rsdp_new, heap_ready, FADT, MCFG>>

AcpiNext ==
  \/ mb2_header \/ mb2_tag \/ tar_mb2_init \/ mb2_end \/ kmain_heap
  \/ acpi_refused \/ acpi_root
  \/ table_fault \/ table_FACP \/ table_MCFG \/ table_other \/ tables_end
  \/ madt_count \/ madt_record \/ madt_map

-----------------------------------------------------------------------------
(* Properties *)

\* A machine the parser is written for: tables that are valid and share the
\* root's page, one FADT and one MCFG at most, an MCFG no longer than the MADT
\* and neither longer than the space for an MCFG, memory that is zero, and no
\* module.
Ordinary ==
  /\ hw.dirty = 0 /\ hw.frames /\ "module" \notin {hw.tags[k] : k \in DOMAIN hw.tags}
  /\ Cardinality(hw.root_pages) = 1
  /\ \A k \in DOMAIN hw.tables :
       LET t == hw.tables[k]
       IN /\ t.valid /\ t.pages = hw.root_pages
          /\ t.sig = "FACP" => t.len <= SIZEOF_FADT
          /\ t.sig \in {"MCFG", "APIC"} => t.len <= SIZEOF_MCFG
          /\ t.sig = "APIC" => \A j \in DOMAIN hw.tables :
               hw.tables[j].sig = "MCFG" => hw.tables[j].len <= t.len
          /\ t.sig \in {"FACP", "MCFG"} => \A j \in DOMAIN hw.tables :
               hw.tables[j].sig = t.sig => j = k

\* Every record of the MADT that is whole is in APIC_INFO, in the order of the
\* table, in an array with room for it; nothing else is; and the 64-bit address
\* of the local APIC, wherever it stands, replaces the 32-bit one (handle_MADT
\* walks the table twice and the passes must agree).
MadtFaithful ==
  hw.dirty = 0 /\ APIC_INFO # None =>
    \E t \in {hw.tables[k] : k \in DOMAIN hw.tables} :
      LET whole(kind) == {k \in counted(t) : t.recs[k].type = kind}
          array(kind) == {c \in APIC_INFO.cells : c.kind = kind}
      IN /\ t.sig = "APIC"
         /\ \A kind \in Kinds :
              /\ APIC_INFO.count[kind] = APIC_INFO.room[kind]
              /\ array(kind) =
                   {[kind |-> kind, val |-> t.recs[k].val,
                     index |-> Cardinality({j \in whole(kind) : j < k})] : k \in whole(kind)}
         /\ APIC_INFO.lapic_addr =
              IF whole(5) = {} THEN t.lapic ELSE t.recs[Max(whole(5))].val

\* An ordinary machine with a good RSDP and a MADT has APIC_INFO when the
\* tables have been walked, in whatever order they are listed, although the
\* checksum of each is taken over another table (handle_table).
MadtFound ==
  (/\ pc = "cpuid" /\ Ordinary /\ (rsdp \/ rsdp_new) /\ rsdp_good(hw.rsdp[chosen])
   /\ \E k \in DOMAIN hw.tables : hw.tables[k].sig = "APIC")
  => APIC_INFO # None
=============================================================================
