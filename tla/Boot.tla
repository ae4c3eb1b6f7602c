-------------------------------- MODULE Boot --------------------------------
(***************************************************************************)
(* The way from power-on to processes that can be interrupted.  Its parts  *)
(* share no state: the loader (Loader), the calibration of the clocks      *)
(* (Calibrate), the interrupts (Interrupts) and the map of memory          *)
(* (MemMap).  A behaviour is of one of them.                               *)
(***************************************************************************)
EXTENDS MemMap

CONSTANTS
  SECTOR_SIZE, MemSize, KSTACK, Disks,
  NUM_CPUS, MAX_IOAPIC, Firmware, Thread, Irq, MaxRaise, Lines,
  CAL_LATCH, CAL_MS, CAL_PIT_LOOPS, Tries, Assumed, Steps

VARIABLES
  part,      \* the part of the way, which never changes
  disk, mem, dkernel, mmap_length, ph, rd, boot,
  fw, stage, mp, pic, redir, lvt, TRAP_HANDLER, irr, isr, at, trapno, printed,
  cur, pdir, esp0, raised,
  cal, now, try, per_ms, clock

L == INSTANCE Loader
I == INSTANCE Interrupts
C == INSTANCE Calibrate

lvars == <<disk, mem, dkernel, mmap_length, ph, rd, boot>>
ivars == <<fw, stage, mp, pic, redir, lvt, TRAP_HANDLER, irr, isr, at, trapno, printed,
          cur, pdir, esp0, raised>>
cvars == <<cal, now, try, per_ms, clock>>
bootvars == <<part, vars, lvars, ivars, cvars>>

NoDisk == [partition |-> <<>>]
NoMachine == [procs |-> <<>>]
Here(name, all, none) == IF part = name THEN all ELSE {none}

BootInit ==
  /\ part \in {"load", "clock", "interrupt", "memory"}
  /\ Init
  /\ L!InitOf(Here("load", Disks, NoDisk))
  /\ I!InitOf(Here("interrupt", Firmware, NoMachine))
  /\ C!InitOf(Here("clock", 1 .. Tries, 1))

BootNext ==
  /\ UNCHANGED part
  /\ \/ part = "memory" /\ Next /\ UNCHANGED <<lvars, ivars, cvars>>
     \/ part = "load" /\ L!Next /\ UNCHANGED <<vars, ivars, cvars>>
     \/ part = "interrupt" /\ I!Next /\ UNCHANGED <<vars, lvars, cvars>>
     \/ part = "clock" /\ C!Next /\ UNCHANGED <<vars, lvars, ivars>>

\* The kernel goes on with a trap, and a pending interrupt is taken as soon
\* as the processor may.
BootSpec == BootInit /\ [][BootNext]_bootvars /\ I!Fairness
-----------------------------------------------------------------------------
(* Properties.                                                             *)

\* readsection and seg_init leave the kernel of the first bootable partition
\* at its addresses, and the rest of its data zero.
KernelLoaded == L!KernelLoaded

\* pcpu_mp_init numbers the processors of whichever table is used, the one
\* that boots first.
CpusFound == I!CpusFound

\* A thread runs in user mode in its own context, and never while an interrupt
\* of a device or of the timer is in service.
UserContext == I!UserContext

\* Every interrupt that reaches the local APIC is handled, unless that meets
\* an error.
IrqServed == part = "interrupt" => I!IrqServed

\* A calibration that tsc_calibrate or lapic_calibrate_timer accepts is not
\* too large.
NotTooSlow == C!NotTooSlow
=============================================================================
