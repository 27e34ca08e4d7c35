------------------------------- MODULE MCBoot -------------------------------
(* Machines like those the kernel is tried on, and each of them with one     *)
(* thing changed.  Lengths are in bytes; the timers wrap at MOD24 or MOD32.  *)
EXTENDS Boot, TLC

Rec(type, len, val) == [type |-> type, len |-> len, val |-> val]
Header(sig, len) == [sig |-> sig, len |-> len, valid |-> TRUE, pages |-> {1}]

Cpu(id) == Rec(0, 8, id)
IoApic(page) == Rec(1, 12, page)
Records == <<IoApic(20), Cpu(0), Rec(2, 10, 0), Rec(4, 6, 255), IoApic(21), Rec(3, 8, 2)>>
Records64 == <<Cpu(0), Rec(9, 16, 0), Rec(5, 12, 11), IoApic(20), Cpu(1)>>

Facp(len, port, x, is32) ==
  [port |-> port, x |-> x, is32 |-> is32, x_page |-> 30] @@ Header("FACP", len)
Mcfg(len) == Header("MCFG", len)
Apic(recs, len) == [recs |-> recs, lapic |-> 10] @@ Header("APIC", len)
Other == Header("other", 36)
Wrong(t) == [t EXCEPT !.valid = FALSE]

Short == Facp(244, TRUE, "none", FALSE)
Madt == Apic(Records, 100)

Entry(masked) == [dest |-> 3, vector |-> 9, masked |-> masked]
Pc ==
  [header |-> "ok", tags |-> <<"acpi_old", "mmap">>, mmap_ok |-> TRUE,
   rsdp |-> [r \in {"old", "new"} |-> [signature |-> TRUE, sum20 |-> TRUE, sum |-> TRUE]],
   root_pages |-> {1}, tables |-> <<Short, Mcfg(60), Madt>>,
   frames |-> TRUE, dirty |-> 0, msr |-> TRUE,
   pm |-> [mod |-> MOD24, runs |-> TRUE], bsp |-> 0, key_gsi |-> 1,
   ioapics |-> (20 :> [entries |-> 24, gsi_base |-> 0, entry |-> Entry(TRUE)])
            @@ (21 :> [entries |-> 3, gsi_base |-> 24, entry |-> Entry(TRUE)])]

With(tables) == [Pc EXCEPT !.tables = tables]

\* The tables in every order, and MADTs that are cut short, empty or odd.
Orders ==
  {With(ts) : ts \in {<<Madt, Mcfg(60), Short>>, <<Other, Mcfg(60), Madt, Short>>,
                      <<Short, Apic(Records64, 100)>>, <<Mcfg(60), Apic(Records, 98), Short>>,
                      <<Apic(Records, 44), Short>>, <<Apic(<<Cpu(0), Rec(1, 0, 20)>>, 60)>>}}

\* Tables that break what the parser relies on: a long MCFG before the MADT, a
\* wrong sum, a MADT longer than an MCFG may be, a table on another page.
Odd ==
  {With(ts) : ts \in {<<Mcfg(108), Madt>>, <<Wrong(Mcfg(60)), Madt, Short>>,
                      <<Apic(Records, 320), Short>>, <<Short, [Madt EXCEPT !.pages = {1, 2}]>>,
                      <<Wrong(Mcfg(60)), Mcfg(76), Madt>>, <<Mcfg(76), Mcfg(60), Madt>>, <<Wrong(Short), Short, Madt>>,
                      <<[Other EXCEPT !.pages = {2}]>>, <<Short>>, <<>>}}
  \cup {[Pc EXCEPT !.dirty = 1], [Pc EXCEPT !.frames = FALSE], [Pc EXCEPT !.msr = FALSE],
        [Pc EXCEPT !.header = "magic"], [Pc EXCEPT !.mmap_ok = FALSE],
        [Pc EXCEPT !.tags = <<"mmap">>], [Pc EXCEPT !.tags = <<"acpi_new", "other">>],
        [Pc EXCEPT !.tags = <<"acpi_old", "mmap", "acpi_new">>],
        [Pc EXCEPT !.rsdp["old"].sum20 = FALSE],
        [Pc EXCEPT !.tags = <<"acpi_new", "mmap">>, !.rsdp["new"].sum = FALSE]}

\* Timers of either width, at every value, named in every way, stuck, or with
\* registers for which there may be no frames.
Timers ==
  {[With(<<Facp(244, TRUE, "none", is32), Madt>>) EXCEPT !.pm.mod = MOD32] : is32 \in BOOLEAN}
  \cup {With(<<Facp(SIZEOF_FADT, FALSE, x, FALSE), Madt>>) : x \in {"none", "io", "mmio"}}
  \cup {[Pc EXCEPT !.pm.runs = FALSE],
        [With(<<Facp(SIZEOF_FADT, FALSE, "mmio", FALSE), Madt>>) EXCEPT !.frames = FALSE]}

\* The keyboard elsewhere, another boot processor, an entry the firmware uses.
Wirings ==
  {[Pc EXCEPT !.key_gsi = 25], [Pc EXCEPT !.bsp = 3], [Pc EXCEPT !.ioapics[20].entry = Entry(FALSE)]}

\* grub.cfg loads an archive with the kernel.
InitrdMachines == {[Pc EXCEPT !.tags = <<"module", "acpi_old", "mmap">>]}

\* ACPI 2 with an XSDT.
XsdtMachines == {[Pc EXCEPT !.tags = <<"acpi_new", "mmap">>]}

AllMachines == {Pc} \cup Orders \cup Odd \cup Timers \cup Wirings \cup InitrdMachines
               \cup XsdtMachines

ASSUME MachinesAreUsual == FadtTellsWidth /\ KeyVectorFree
=============================================================================
