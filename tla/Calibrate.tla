----------------------------- MODULE Calibrate ------------------------------
(***************************************************************************)
(* The calibration of the time stamp counter and of the timer of the local *)
(* APIC against the interval timer (tsc_calibrate and tsc_init in          *)
(* kern/dev/tsc.c, lapic_calibrate_timer in lapic.c).  The counters        *)
(* advance with time; between any two reads the firmware may take the      *)
(* processor away for a while (an SMI).                                    *)
(*                                                                         *)
(* An operator whose name ends in _bug is a faulty variant of the one      *)
(* after it, which the specification does not use: put in its place it     *)
(* must break the property its comment names.                              *)
(***************************************************************************)
EXTENDS Integers

CONSTANTS
  CAL_LATCH,       \* counter ticks until the interval timer is done
  CAL_MS,          \* the milliseconds this takes
  CAL_PIT_LOOPS,
  Tries,           \* attempts: 10 for the time stamp counter, 5 for the APIC
  Assumed,         \* what is assumed when all fail
  Steps            \* counter ticks between two reads, with and without an SMI

VARIABLES
  cal,             \* the variables of the calibration
  now,             \* the counter, from the start of the interval
  try, per_ms,
  clock            \* where the code is

vars == <<cal, now, try, per_ms, clock>>

Fail == -1
Start == [t1 |-> 0, t2 |-> 0, min |-> Fail, max |-> 0, pitcnt |-> 0]

\* The interval timer is set; the counter is read a little later.
start ==
  /\ clock = "start"
  /\ \E d \in Steps : now' = d /\ cal' = [Start EXCEPT !.t1 = d, !.t2 = d]
  /\ clock' = "poll" /\ UNCHANGED <<try, per_ms>>

\* The loop test reads the port; the counter is read in the body.
poll ==
  /\ clock = "poll"
  /\ clock' = IF now < CAL_LATCH THEN "read" ELSE "check"
  /\ \E d \in {0} \cup Steps : now' = IF now < CAL_LATCH THEN now + d ELSE now
  /\ UNCHANGED <<cal, try, per_ms>>

read ==
  /\ clock = "read"
  /\ LET delta == now - cal.t2
     IN  cal' = [cal EXCEPT !.t2 = now, !.pitcnt = @ + 1,
                            !.min = IF @ = Fail \/ delta < @ THEN delta ELSE @,
                            !.max = IF delta > @ THEN delta ELSE @]
  /\ clock' = "poll" /\ \E d \in Steps : now' = now + d
  /\ UNCHANGED <<try, per_ms>>

\* NotTooSlow: only the number of reads is checked.
Disturbed_bug == cal.pitcnt < CAL_PIT_LOOPS

Disturbed == cal.pitcnt < CAL_PIT_LOOPS \/ (cal.min # Fail /\ cal.max > 10 * cal.min)

\* The result is taken, or another attempt is made, or a value is assumed.
check ==
  /\ clock = "check" /\ now' = 0
  /\ IF ~Disturbed
     THEN per_ms' = (cal.t2 - cal.t1) \div CAL_MS /\ clock' = "calibrated" /\ UNCHANGED try
     ELSE IF try < Tries
     THEN try' = try + 1 /\ clock' = "start" /\ UNCHANGED per_ms
     ELSE per_ms' = Assumed /\ clock' = "assumed" /\ UNCHANGED try
  /\ UNCHANGED cal

InitOf(tries) ==
  /\ cal = Start /\ now = 0 /\ try \in tries /\ per_ms = 0 /\ clock = "start"

Ready == clock \in {"calibrated", "assumed"} /\ UNCHANGED vars

Next == start \/ poll \/ read \/ check \/ Ready

-----------------------------------------------------------------------------
(* Properties.                                                             *)

\* An SMI of any length, or several, at any place make an accepted result
\* larger than the truth by no more than ten of the shortest turns of the
\* loop, of which there were at least CAL_PIT_LOOPS: delay and the slices of
\* the timer are hardly ever longer than they should be.
NotTooSlow ==
  clock = "calibrated" =>
    (per_ms * CAL_MS - CAL_LATCH) * CAL_PIT_LOOPS <= 10 * (per_ms * CAL_MS + CAL_MS)

-----------------------------------------------------------------------------
(* What the code does not guarantee: TLC refutes it.                       *)

\* Nor smaller: an SMI before the first or after the last read is not seen.
NotTooFast ==
  clock = "calibrated" =>
    (CAL_LATCH - per_ms * CAL_MS) * CAL_PIT_LOOPS <= 10 * (per_ms * CAL_MS + CAL_MS)
=============================================================================
