--------------------------------- MODULE Mp ---------------------------------
(***************************************************************************)
(* How the kernel finds its processors and interrupt controllers in the    *)
(* tables of the firmware: the ACPI tables (kern/dev/acpi.c), or the older *)
(* MP table when they are missing or damaged (kern/dev/pcpu_mp.c).         *)
(*                                                                         *)
(* A table is a record with a field ok, for its signature and checksum, or *)
(* None.  The candidates for a root pointer are in the order of addresses  *)
(* in which each area of memory is searched.                               *)
(*                                                                         *)
(* An operator whose name ends in _bug is a faulty variant of the one      *)
(* after it, which the specification does not use: put in its place it     *)
(* must break the property its comment names.                              *)
(***************************************************************************)
EXTENDS Integers, Sequences, SequencesExt

CONSTANTS NUM_CPUS, MAX_IOAPIC

None == [ok |-> FALSE]

\* The first good candidate, or None.
First(tables) == LET i == SelectInSeq(tables, LAMBDA t : t.ok)
                 IN  IF i = 0 THEN None ELSE tables[i]
-----------------------------------------------------------------------------
(* kern/dev/acpi.c                                                         *)

acpi_probe_rsdp(fw) ==
  LET rsdp == First(fw.ebda.rsdp) IN IF rsdp.ok THEN rsdp ELSE First(fw.rom.rsdp)

acpi_probe_rsdt(rsdp) == IF rsdp.rsdt.ok THEN rsdp.rsdt ELSE None
acpi_probe_xsdt(rsdp) == IF rsdp.xsdt.ok THEN rsdp.xsdt ELSE None

acpi_probe_rsdt_ent(rsdt, sig) == First(SelectSeq(rsdt.ent, LAMBDA h : h.sig = sig))
acpi_probe_xsdt_ent(xsdt, sig) == First(SelectSeq(xsdt.ent, LAMBDA h : h.sig = sig))

\* The table of interrupt controllers that pcpu_mp_init uses, or None.
Madt(fw) ==
  LET rsdp == acpi_probe_rsdp(fw)
      xsdt == acpi_probe_xsdt(rsdp)
      rsdt == acpi_probe_rsdt(rsdp)
  IN  IF ~rsdp.ok THEN None
      ELSE IF xsdt.ok THEN acpi_probe_xsdt_ent(xsdt, "APIC")
      ELSE IF rsdt.ok THEN acpi_probe_rsdt_ent(rsdt, "APIC")
      ELSE None

-----------------------------------------------------------------------------
(* kern/dev/pcpu_mp.c: what is found is a record of its static variables   *)
(* and of those it fills in pcpu, lapic.c and ioapic.c.                    *)

Nothing == [ismp |-> FALSE, mp_inited |-> FALSE, ncpu |-> 0, ap_idx |-> 1,
            found_bsp |-> FALSE, lapic |-> "NULL", ioapics |-> <<>>, imcr |-> FALSE,
            cpu |-> [i \in 0 .. NUM_CPUS - 1 |-> [lapicid |-> 0, bsp |-> FALSE]],
            loops |-> FALSE]

pcpu_mp_init_cpu(m, idx, id, is_bsp) ==
  IF idx >= NUM_CPUS THEN m
  ELSE [m EXCEPT !.cpu[idx] = [lapicid |-> id, bsp |-> is_bsp]]

ioapic_register(m, addr, id, gsi) ==
  IF Len(m.ioapics) >= MAX_IOAPIC THEN m
  ELSE [m EXCEPT !.ioapics = Append(@, [addr |-> addr, id |-> id, gsi |-> gsi])]

\* CpusFound: a processor that is disabled takes an index.
add_cpu_bug(m, e, is_bsp) ==
  IF ~e.enabled THEN [m EXCEPT !.ap_idx = @ + 1]
  ELSE LET n == [m EXCEPT !.ncpu = @ + 1]
       IN  IF is_bsp THEN [pcpu_mp_init_cpu(n, 0, e.id, TRUE) EXCEPT !.found_bsp = TRUE]
           ELSE [pcpu_mp_init_cpu(n, m.ap_idx, e.id, FALSE) EXCEPT !.ap_idx = @ + 1]

\* An entry of a processor, in either table.
add_cpu(m, e, is_bsp) ==
  IF ~e.enabled THEN m
  ELSE LET n == [m EXCEPT !.ncpu = @ + 1]
       IN  IF is_bsp THEN [pcpu_mp_init_cpu(n, 0, e.id, TRUE) EXCEPT !.found_bsp = TRUE]
           ELSE [pcpu_mp_init_cpu(n, m.ap_idx, e.id, FALSE) EXCEPT !.ap_idx = @ + 1]

\* In the ACPI table the first processor is the one that boots.
madt_entry(m, e) ==
  CASE e.type = "cpu"    -> add_cpu(m, e, ~m.found_bsp)
    [] e.type = "ioapic" -> ioapic_register(m, e.addr, e.id, e.gsi)
    [] OTHER             -> m

\* In the MP table it is marked.  An entry of unknown type is never left.
mp_entry(m, e) ==
  CASE m.loops           -> m
    [] e.type = "cpu"    -> add_cpu(m, e, e.boot)
    [] e.type = "ioapic" -> ioapic_register(m, e.addr, e.id, 0)
    [] e.type = "bus"    -> m
    [] OTHER             -> [m EXCEPT !.loops = TRUE]

\* In the first KB of the extended data area, or in the last of base memory
\* if there is none; then in ROM.
mpsearch(fw) ==
  LET mp == First(IF fw.ebda.exists THEN fw.ebda.mp ELSE fw.base.mp)
  IN  IF mp.ok THEN mp ELSE First(fw.rom.mp)

mpconfig(fw) == LET mp == mpsearch(fw) IN IF mp.ok /\ mp.conf.ok THEN mp.conf ELSE None

mp_init_fallback(fw) ==
  LET conf == mpconfig(fw)
      m    == FoldLeft(mp_entry, [Nothing EXCEPT !.ismp = TRUE, !.lapic = conf.lapicaddr],
                       conf.ent)
  IN  IF ~conf.ok THEN [Nothing EXCEPT !.ncpu = 1]
      ELSE [m EXCEPT !.mp_inited = TRUE, !.imcr = mpsearch(fw).imcrp]

pcpu_mp_init(fw) ==
  LET madt == Madt(fw)
      m    == FoldLeft(madt_entry, [Nothing EXCEPT !.ismp = TRUE, !.lapic = madt.lapic_addr],
                       madt.ent)
  IN  IF ~madt.ok THEN mp_init_fallback(fw)
      ELSE [m EXCEPT !.mp_inited = TRUE, !.imcr = ~madt.pcat_compat]

pcpu_onboot(m, idx) == IF m.mp_inited THEN m.cpu[idx].bsp ELSE idx = 0
=============================================================================
