------------------------------- MODULE MCBoot -------------------------------
(* Boot for TLC: memory maps of eight bytes in pages of two; kernels of    *)
(* two segments in sectors of four bytes; three processors.                *)
EXTENDS Boot, TLC

E(base, length, type) == [base |-> base, length |-> length, type |-> type]

\* Ranges that touch, overlap, begin and end within pages and reach beyond
\* the last address; one beyond it, and one of unknown type.
MapEntries ==
  { E(b, n, t) : b \in {0, 2, 3}, n \in {2, 5}, t \in {"RAM", "RESERVED"} }
    \cup { E(8, 2, "RAM"), E(0, 2, "UNKNOWN") }

Part(b, lba) == [bootable |-> b, first_lba |-> lba]
Seg(va, file, all, offset) ==
  [p_va |-> va, p_filesz |-> file, p_memsz |-> all, p_offset |-> offset]

K == INSTANCE Loader WITH Disks <- {}

\* Two segments at every place in their sectors, in the same or in different
\* sectors, one of them linked high.
Kernels ==
  { img \in
      { [e_magic |-> TRUE,
         ph |-> <<Seg(MemSize + v1, n1, n1, o1), Seg(v2, n2, n2 + b, o2)>>,
         edata |-> v2 + n2, kstack |-> v2 + n2 + g, end |-> v2 + n2 + b] :
          v1 \in {4, 6, 7}, n1 \in {1, 2, 5}, o1 \in {4, 6, 7},
          v2 \in 8 .. 13, n2 \in {1, 4}, b \in {2, 7}, g \in {0, 3},
          o2 \in 8 .. 17 } :
      K!Linked(img) }

NoKernel == [e_magic |-> FALSE, ph |-> <<>>]

Disk(p, img) == [partition |-> p, image |-> (2 :> img @@ 9 :> NoKernel),
                 smap |-> <<"ram", "reserved", "zero", "ram">>]

KernelDisks ==
  { Disk(<<Part(FALSE, 9), Part(TRUE, 2), Part(TRUE, 9), Part(FALSE, 2)>>, img) : img \in Kernels }
    \cup { Disk(p, CHOOSE img \in Kernels : TRUE) :
             p \in { <<Part(FALSE, 2), Part(FALSE, 2), Part(FALSE, 2), Part(FALSE, 2)>>,
                     <<Part(TRUE, 9), Part(TRUE, 2), Part(FALSE, 2), Part(FALSE, 2)>> } }

Cpu(id, on, boots) == [type |-> "cpu", id |-> id, enabled |-> on, boot |-> boots]
IoApic(addr, gsi) == [type |-> "ioapic", addr |-> addr, id |-> 1, gsi |-> gsi]
Other(type) == [type |-> type]

\* The processors of a machine, the one that boots first.
Machines ==
  { <<Cpu(3, TRUE, TRUE)>>,
    <<Cpu(3, TRUE, TRUE), Cpu(5, FALSE, FALSE), Cpu(6, TRUE, FALSE)>>,
    <<Cpu(3, TRUE, TRUE), Cpu(4, TRUE, FALSE), Cpu(5, TRUE, FALSE), Cpu(6, TRUE, FALSE)>> }

\* The ACPI table has them in this order, the MP table in another.
TableOf(procs, gsi) ==
  [ok |-> TRUE, sig |-> "APIC", lapic_addr |-> "lapic", pcat_compat |-> FALSE,
   ent |-> <<Other("override")>> \o procs \o <<IoApic("io", gsi)>>]
ConfOf(procs, more) ==
  [ok |-> TRUE, lapicaddr |-> "lapic",
   ent |-> <<Other("bus"), IoApic("io", 0)>> \o Reverse(procs) \o more]

NoTable == [ok |-> FALSE]
Broken(t) == [t EXCEPT !.ok = FALSE]
Sdt(ent) == [ok |-> TRUE, ent |-> ent]
Facp == [ok |-> TRUE, sig |-> "FACP"]
Rsdp(x, r) == [ok |-> TRUE, xsdt |-> x, rsdt |-> r]
Empty == [exists |-> FALSE, rsdp |-> <<>>, mp |-> <<>>]

Machine(procs, ebda, base, rom) ==
  [procs |-> procs, boot_cpu |-> 3, devices |-> {}, errors |-> FALSE,
   maxintr |-> [a \in {"io"} |-> 15],
   ebda |-> ebda, base |-> base, rom |-> rom]

\* ACPI by either table, in either area, behind damaged ones; the MP table
\* where ACPI fails, found in each of the areas; no table at all, an I/O APIC
\* that lacks the lines, an unknown entry.
MachinesOf(procs) ==
  LET madt == TableOf(procs, 0)
      good == Rsdp(Sdt(<<Facp, Broken(madt), madt>>), NoTable)
      old  == Rsdp(Broken(Sdt(<<>>)), Sdt(<<madt>>))
      mpt(more) == [ok |-> TRUE, conf |-> ConfOf(procs, more), imcrp |-> TRUE]
  IN  { Machine(procs, [Empty EXCEPT !.exists = TRUE, !.rsdp = <<old>>], Empty, Empty),
        Machine(procs, Empty, Empty, [Empty EXCEPT !.rsdp = <<Broken(good), good>>]),
        Machine(procs, [Empty EXCEPT !.exists = TRUE, !.mp = <<mpt(<<>>)>>], Empty,
                [Empty EXCEPT !.rsdp = <<Rsdp(NoTable, NoTable)>>]),
        Machine(procs, Empty, [Empty EXCEPT !.mp = <<mpt(<<>>)>>], Empty),
        Machine(procs, Empty, [Empty EXCEPT !.mp = <<Broken(mpt(<<>>))>>],
                [Empty EXCEPT !.mp = <<mpt(<<Other("bus")>>)>>]),
        Machine(procs, Empty, Empty, [Empty EXCEPT !.mp = <<mpt(<<Other("new")>>)>>]),
        Machine(procs, Empty, Empty,
                [Empty EXCEPT !.rsdp = <<Rsdp(Sdt(<<TableOf(procs, 16)>>), NoTable)>>]),
        Machine(procs, Empty, Empty, Empty) }

\* Devices interrupt on one machine of each kind of table; on one of them the
\* local APIC meets errors as well.
AllMachines ==
  LET one == <<Cpu(3, TRUE, TRUE)>>
      all == UNION {MachinesOf(procs) : procs \in Machines}
      ran == { CHOOSE m \in MachinesOf(one) : m.ebda.rsdp # <<>>,
               CHOOSE m \in MachinesOf(one) : m.base.mp # <<>> /\ m.rom.mp = <<>> }
  IN  all \cup { IF m.base.mp = <<>> THEN [m EXCEPT !.devices = Irq]
                                   ELSE [m EXCEPT !.devices = {14}, !.errors = TRUE] : m \in ran }
=============================================================================
