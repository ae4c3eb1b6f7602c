----------------------------- MODULE Interrupts -----------------------------
(***************************************************************************)
(* Interrupts, from the tables of the firmware to the handlers: the        *)
(* controllers are found (Mp) and programmed (kern/dev/intr.c, ioapic.c,   *)
(* lapic.c), handlers are registered (kern/trap/TTrapInit), and threads    *)
(* are interrupted in user mode, run the handlers on their own kernel      *)
(* stacks and are switched there (kern/trap/TTrapHandler).                 *)
(*                                                                         *)
(* A vector has its real number.  Every gate turns interrupts off, so that *)
(* none is taken in the kernel, but between the lines that sys_produce and *)
(* sys_consume print; in user mode a pending one comes before the next     *)
(* instruction.  The local APIC holds back whatever is not of a higher     *)
(* class than what is in service.  Exceptions other than page faults, and  *)
(* threads that sleep, are left out.                                       *)
(*                                                                         *)
(* An operator whose name ends in _bug is a faulty variant of the one      *)
(* after it, which the specification does not use: put in its place it     *)
(* must break the property its comment names.                              *)
(***************************************************************************)
EXTENDS Mp, FiniteSets, FiniteSetsExt

CONSTANTS
  Firmware,    \* the tables and the hardware they describe
  Thread,
  Irq,         \* the lines on which devices may interrupt
  MaxRaise,    \* bound: interrupts of each device
  Lines        \* the lines that sys_produce prints

VARIABLES
  fw,          \* the firmware and the hardware, which never change
  stage,       \* how far devinit is
  mp,          \* what was found
  pic,         \* the lines that the older controller lets through
  redir,       \* the redirection tables of the I/O APICs
  lvt,         \* what the local APIC sends by itself, and as which vectors
  TRAP_HANDLER,
  irr, isr,    \* the local APIC: vectors requested, and in service
  at, trapno,  \* where a thread is, and the trap it is in
  printed,     \* the lines that it printed in sys_produce, or Outside
  cur,
  pdir, esp0,  \* the page table, and the stack that the next trap is taken on
  raised       \* interrupts of each device so far

context == <<cur, pdir, esp0>>
setup == <<fw, stage, mp, pic, redir, lvt, TRAP_HANDLER>>
vars == <<fw, stage, mp, pic, redir, lvt, TRAP_HANDLER, irr, isr, at, trapno, printed,
          cur, pdir, esp0, raised>>

T_IRQ0 == 32
IRQ_TIMER == 0
IRQ_KBD == 1
IRQ_SERIAL13 == 4
IRQ_SPURIOUS == 7
IRQ_IDE1 == 14
IRQ_IDE2 == 15
T_PGFLT == 14
T_SYSCALL == 48
T_SECEV == 30
T_LERROR == 50
T_DEFAULT == 254

\* The numbers of the traps that occur.
Trap == {T_PGFLT, T_SYSCALL, T_DEFAULT} \cup T_IRQ0 .. T_IRQ0 + 15

\* What interrupts beside the lines: the timer of the local APIC, an error of
\* it, and a request that it withdraws.
Timer == -1
Error == -2
Withdrawn == -3

-----------------------------------------------------------------------------
(* devinit                                                                 *)

pcpu_init ==
  /\ stage = "pcpu_init"
  /\ mp' = pcpu_mp_init(fw)
  /\ stage' = IF mp'.loops THEN "loops" ELSE "intr_init"
  /\ UNCHANGED <<fw, pic, redir, lvt, TRAP_HANDLER, irr, isr, at, trapno, printed, context,
                 raised>>

\* lapic_eoi ends the highest interrupt in service.
intr_eoi == isr' = IF isr = {} THEN isr ELSE isr \ {Max(isr)}

Masked(pin) == [vector |-> T_IRQ0 + pin, masked |-> TRUE, dest |-> 0]

\* Every pin is masked.
ioapic_init == [i \in DOMAIN mp.ioapics |->
                  [pin \in 0 .. fw.maxintr[mp.ioapics[i].addr] |-> Masked(pin)]]

\* The older controller lets nothing through.
pic_init == {}

\* The timer starts, and the lines that come directly, one of them from the
\* older controller, are masked.
lapic_init == [spurious |-> T_IRQ0 + IRQ_SPURIOUS, timer |-> T_IRQ0 + IRQ_TIMER,
               error |-> T_LERROR, lint0 |-> "masked"]

\* The number that the gate of a vector gives its trap.
intr_init_idt(v) == IF v \in 0 .. 8 \cup 10 .. 14 \cup 16 .. 18 \cup T_IRQ0 .. T_IRQ0 + 15
                            \cup {T_SYSCALL}
                    THEN v ELSE T_DEFAULT

\* lapic_init acknowledges what is left from before.
intr_init ==
  /\ stage = "intr_init"
  /\ pic' = pic_init
  /\ redir' = IF pcpu_onboot(mp, 0) THEN ioapic_init ELSE redir
  /\ IF mp.lapic = "NULL" THEN stage' = "panic" /\ UNCHANGED <<lvt, isr>>
     ELSE stage' = "trap_init" /\ lvt' = lapic_init /\ intr_eoi
  /\ UNCHANGED <<fw, mp, TRAP_HANDLER, irr, at, trapno, printed, context, raised>>

\* The first I/O APIC that has the line; 0 if none has.
Serving(tables, irq) ==
  SelectInSeq([i \in DOMAIN tables |-> i],
              LAMBDA i : irq - mp.ioapics[i].gsi \in DOMAIN tables[i])

\* For a set of lines: the pins that serve them.
ioapic_enable(tables, irqs, apicid) ==
  [i \in DOMAIN tables |-> [pin \in DOMAIN tables[i] |->
     LET irq == pin + mp.ioapics[i].gsi
     IN  IF irq \in irqs /\ Serving(tables, irq) = i
         THEN [vector |-> T_IRQ0 + irq, masked |-> FALSE, dest |-> apicid]
         ELSE tables[i][pin]]]

Enabled == {IRQ_TIMER, IRQ_KBD, IRQ_SERIAL13, IRQ_IDE1}

\* trap_handler_register for all vectors that have a handler; intr_enable
\* stops the kernel when there is no processor or nobody has the line.
trap_init ==
  /\ stage = "trap_init"
  /\ TRAP_HANDLER' = [v \in Trap |->
       CASE v \in 0 .. 19 \cup {T_SECEV} -> "exception_handler"
         [] v = T_SYSCALL -> "syscall_dispatch"
         [] v - T_IRQ0 \in {IRQ_SPURIOUS, IRQ_TIMER, IRQ_KBD, IRQ_SERIAL13, IRQ_IDE1} ->
              "interrupt_handler"
         [] OTHER -> "NULL"]
  /\ IF mp.ncpu > 0 /\ \A irq \in Enabled : Serving(redir, irq) # 0
     THEN /\ redir' = ioapic_enable(redir, Enabled, mp.cpu[0].lapicid)
          /\ stage' = "kern_main"
     ELSE stage' = "panic" /\ UNCHANGED redir
  /\ UNCHANGED <<fw, mp, pic, lvt, irr, isr, at, trapno, printed, context, raised>>

-----------------------------------------------------------------------------
(* The hardware.                                                           *)

Running == stage = "kern_main"
Interruptible == {"user", "sys_produce"}
Kernel == "kernel"
Outside == -1
Class(v) == v \div 16

\* The pending vector that the processor would take.
Deliverable == {v \in irr : /\ v = Max(irr)
                            /\ \A s \in isr : Class(v) > Class(s)}

\* A device pulls its line, which goes to both controllers: the older one
\* has its own line to the local APIC, the other sends to the processor that
\* the pin names.
raise(irq) ==
  /\ Running /\ irq \in fw.devices /\ raised[irq] < MaxRaise
  /\ raised' = [raised EXCEPT ![irq] = @ + 1]
  /\ LET i   == Serving(redir, irq)
         pin == redir[i][irq - mp.ioapics[i].gsi]
     IN  irr' = irr
           \cup (IF irq \in pic /\ lvt.lint0 # "masked" THEN {T_IRQ0 + irq} ELSE {})
           \cup (IF i # 0 /\ ~pin.masked /\ pin.dest = fw.boot_cpu THEN {pin.vector} ELSE {})
  /\ UNCHANGED <<setup, isr, at, trapno, printed, context>>

\* The timer of the local APIC, which shares the vector of the older timer, or
\* an error that it meets.
lapic_intr(source, vector) ==
  /\ Running /\ raised[source] < MaxRaise
  /\ raised' = [raised EXCEPT ![source] = @ + 1]
  /\ irr' = irr \cup {vector}
  /\ UNCHANGED <<setup, isr, at, trapno, printed, context>>

\* The gate, and set_pdir_base at the begin of trap.
Enter(v) == /\ at' = [at EXCEPT ![cur] = "trap"]
            /\ trapno' = [trapno EXCEPT ![cur] = intr_init_idt(v)]
            /\ pdir' = Kernel
            /\ UNCHANGED <<printed, cur, esp0>>

deliver ==
  /\ Running /\ at[cur] \in Interruptible
  /\ \E v \in Deliverable : irr' = irr \ {v} /\ isr' = isr \cup {v} /\ Enter(v)
  /\ UNCHANGED <<setup, raised>>

\* The local APIC withdraws a request; this vector is never in service.
spurious ==
  /\ Running /\ at[cur] \in Interruptible /\ raised[Withdrawn] < MaxRaise
  /\ raised' = [raised EXCEPT ![Withdrawn] = @ + 1]
  /\ Enter(lvt.spurious)
  /\ UNCHANGED <<setup, irr, isr>>

\* The thread calls the kernel, or touches a page that is not there.
int(v) ==
  /\ Running /\ at[cur] = "user" /\ Deliverable = {}
  /\ Enter(v)
  /\ UNCHANGED <<setup, irr, isr, raised>>

-----------------------------------------------------------------------------
(* kern/trap/TTrapHandler                                                  *)

InTrap == Running /\ at[cur] = "trap"
Handler == TRAP_HANDLER[trapno[cur]]
Go(place) == at' = [at EXCEPT ![cur] = place]

\* The page is there when the thread goes on.
exception_handler ==
  /\ InTrap /\ Handler = "exception_handler" /\ Go("return")
  /\ UNCHANGED <<setup, irr, isr, trapno, printed, context, raised>>

syscall_dispatch ==
  /\ InTrap /\ Handler = "syscall_dispatch"
  /\ \/ (Go("return") \/ Go("switch")) /\ UNCHANGED printed
     \/ Go("sys_produce") /\ printed' = [printed EXCEPT ![cur] = 0]
  /\ UNCHANGED <<setup, irr, isr, trapno, context, raised>>

\* A line, printed with interrupts off, or the end of the loop; sys_consume
\* does the same.
sys_produce ==
  /\ Running /\ at[cur] = "sys_produce"
  /\ IF printed[cur] < Lines
     THEN printed' = [printed EXCEPT ![cur] = @ + 1] /\ UNCHANGED at
     ELSE printed' = [printed EXCEPT ![cur] = Outside] /\ Go("return")
  /\ UNCHANGED <<setup, irr, isr, trapno, context, raised>>

\* UserContext: the timer is acknowledged when sched_update is over.
interrupt_handler_bug ==
  LET irq == trapno[cur] - T_IRQ0 IN
  /\ InTrap /\ Handler = "interrupt_handler"
  /\ IF irq = IRQ_TIMER THEN Go("sched_update") /\ UNCHANGED isr
     ELSE Go("return") /\ (IF irq \in {IRQ_SPURIOUS, IRQ_IDE2} THEN UNCHANGED isr ELSE intr_eoi)
  /\ UNCHANGED <<setup, irr, trapno, printed, context, raised>>

\* Spurious interrupts and those of the second disk are not acknowledged; the
\* timer's is before its handler calls sched_update.
interrupt_handler ==
  LET irq == trapno[cur] - T_IRQ0 IN
  /\ InTrap /\ Handler = "interrupt_handler"
  /\ IF irq \in {IRQ_SPURIOUS, IRQ_IDE2} THEN UNCHANGED isr ELSE intr_eoi
  /\ IF irq = IRQ_TIMER THEN Go("sched_update") ELSE Go("return")
  /\ UNCHANGED <<setup, irr, trapno, printed, context, raised>>

\* trap without a handler: nothing is acknowledged.
no_handler ==
  /\ InTrap /\ Handler = "NULL" /\ Go("return")
  /\ UNCHANGED <<setup, irr, isr, trapno, printed, context, raised>>

\* The slice goes on, or is over.
sched_update ==
  /\ Running /\ at[cur] = "sched_update" /\ (Go("return") \/ Go("switch"))
  /\ UNCHANGED <<setup, irr, isr, trapno, printed, context, raised>>

\* IrqServed: the context saved is the one before the call.
kctx_switch_bug ==
  /\ Running /\ at[cur] = "switch"
  /\ \E t \in Thread \ {cur} : cur' = t
  /\ UNCHANGED <<setup, irr, isr, at, trapno, printed, pdir, esp0, raised>>

\* kctx_switch, to a thread that was switched from in the kernel, or is new.
kctx_switch ==
  /\ Running /\ at[cur] = "switch"
  /\ Go("return")
  /\ \E t \in Thread \ {cur} : cur' = t
  /\ UNCHANGED <<setup, irr, isr, trapno, printed, pdir, esp0, raised>>

\* The end of trap, with kstack_switch and set_pdir_base: back to user mode,
\* or to the loop of sys_produce that was interrupted.
trap_return ==
  /\ Running /\ at[cur] = "return"
  /\ Go(IF printed[cur] = Outside THEN "user" ELSE "sys_produce")
  /\ esp0' = cur /\ pdir' = cur
  /\ UNCHANGED <<setup, irr, isr, trapno, printed, cur, raised>>

trap == exception_handler \/ syscall_dispatch \/ sys_produce \/ interrupt_handler \/ no_handler
          \/ sched_update \/ kctx_switch \/ trap_return

InitOf(machines) ==
  /\ fw \in machines
  /\ stage = "pcpu_init" /\ mp = Nothing
  /\ pic = {IRQ_SERIAL13} /\ redir = <<>> /\ lvt = [lint0 |-> "on"]
  /\ TRAP_HANDLER = [v \in Trap |-> "NULL"]
  /\ irr = {} /\ isr = {}
  /\ at = [t \in Thread |-> "return"] /\ trapno = [t \in Thread |-> T_SYSCALL]
  /\ printed = [t \in Thread |-> Outside]
  /\ cur = CHOOSE t \in Thread : TRUE
  /\ pdir = Kernel /\ esp0 = Kernel
  /\ raised = [d \in Irq \cup {Timer, Error, Withdrawn} |-> 0]

Stopped == stage \in {"panic", "loops"} /\ UNCHANGED vars

Next ==
  \/ pcpu_init \/ intr_init \/ trap_init
  \/ \E irq \in Irq : raise(irq)
  \/ lapic_intr(Timer, lvt.timer) \/ (fw.errors /\ lapic_intr(Error, lvt.error))
  \/ deliver \/ spurious \/ int(T_SYSCALL) \/ int(T_PGFLT)
  \/ trap \/ Stopped

-----------------------------------------------------------------------------
(* Properties.                                                             *)

Cpus == {p \in ToSet(fw.procs) : p.enabled}

\* Whichever table is used, wherever it was found and whatever stands between
\* its entries, pcpu_mp_init gives every processor that is enabled an index
\* of its own, as long as there are any, and the one that boots index 0.
CpusFound ==
  mp.mp_inited /\ ~mp.loops =>
    LET n == Min({mp.ncpu, NUM_CPUS})
        found == {mp.cpu[i].lapicid : i \in 0 .. n - 1}
    IN  /\ mp.ncpu = Cardinality(Cpus)
        /\ found \subseteq {p.id : p \in Cpus} /\ Cardinality(found) = n
        /\ mp.cpu[0].lapicid = fw.boot_cpu /\ mp.cpu[0].bsp
        /\ \A i \in 1 .. NUM_CPUS - 1 : ~mp.cpu[i].bsp

\* A thread that runs in user mode has its own page table and kernel stack
\* and can be interrupted: whatever traps it and the other threads were
\* switched in, nothing that the timer, the disk or a device asked for is held
\* back by one that is still in service.  Only an error of the local APIC
\* stays there, which no handler acknowledges.
UserContext == Running /\ at[cur] = "user" =>
                 pdir = cur /\ esp0 = cur /\ isr \subseteq {T_LERROR}

\* The kernel goes on with what it is doing, and a pending interrupt is taken
\* as soon as the processor may.
Fairness == WF_vars(trap) /\ WF_vars(deliver)

\* Every interrupt that reaches the local APIC is handled, unless the local
\* APIC meets an error.
IrqServed ==
  \A irq \in Irq :
    (T_IRQ0 + irq \in irr) ~> (T_IRQ0 + irq \notin irr \cup isr \/ T_LERROR \in isr)

-----------------------------------------------------------------------------
(* What the code does not guarantee: TLC refutes it.                       *)

\* devinit ends: pcpu_mp_init stays at an entry of the MP table that it does
\* not know.
DevinitEnds == stage # "loops"

\* Interrupts go on after an error of the local APIC: its vector, of a higher
\* class than any line's, has no handler and is never acknowledged.
ErrorAcknowledged == Running /\ at[cur] = "user" => isr = {}
=============================================================================
