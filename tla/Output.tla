------------------------------- MODULE Output -------------------------------
(***************************************************************************)
(* Console output: processes that print (user/lib/printf.c), the system    *)
(* call that takes their text (sys_puts), the kernel's own buffered output *)
(* (kern/lib/dprintf.c) and the two devices it goes to, the serial line    *)
(* (kern/dev/serial.c) and the screen (kern/dev/video.c).                  *)
(*                                                                         *)
(* A process may be preempted between any two characters; the kernel runs  *)
(* with interrupts off, so that no process takes a step while text waits   *)
(* for the devices.  A character on its way carries the process it comes   *)
(* from, which the code does not record.                                   *)
(*                                                                         *)
(* An operator whose name ends in _bug is a faulty variant of the one      *)
(* after it, which the specification does not use: put in its place it     *)
(* must break the property its comment names.                              *)
(***************************************************************************)
EXTENDS Printfmt, TLC

CONSTANTS
  Chars,                 \* the characters of the texts
  Work,                  \* what is printed: functions from processes to jobs
  MAX_BUF, PAGE_SIZE, CONSOLE_BUFFER_SIZE,
  CRT_ROWS, CRT_COLS,
  Cursors,               \* where the firmware may have left the cursor
  Stalls                 \* whether the serial line may stop for long

VARIABLES
  jobs,      \* for every process, what it prints
  todo,      \* the characters vprintfmt has yet to hand to putch, or Idle
  buf,       \* struct printbuf of every process
  kern,      \* characters the kernel has yet to put on the console
  fifo,      \* the transmitter of the serial port
  line,      \* what has been sent over the serial line
  crt_buf, crt_pos,
  serial_exists

procs == <<jobs, todo, buf>>
vars == <<jobs, todo, buf, kern, fifo, line, crt_buf, crt_pos, serial_exists>>

CRT_SIZE == CRT_ROWS * CRT_COLS
Idle == <<"idle">>
Done == <<"done">>

-----------------------------------------------------------------------------
(* The kernel.                                                             *)

\* cputs stops at the terminating zero.
cputs(str) == LET n == SelectInSeq(str, LAMBDA c : c = "NUL")
              IN  IF n = 0 THEN str ELSE SubSeq(str, 1, n - 1)

\* struct dprintbuf with what has already gone to the console.
\* ConsoleText: the place is used again before the buffer is written out.
dputch_bug(b, ch) ==
  IF Len(b.buf) + 1 > CONSOLE_BUFFER_SIZE - 1
  THEN [out |-> b.out \o cputs(b.buf), buf |-> <<>>]
  ELSE [b EXCEPT !.buf = Append(@, ch)]

dputch(b, ch) ==
  LET full == Append(b.buf, ch)
  IN  IF Len(full) = CONSOLE_BUFFER_SIZE - 1
      THEN [out |-> b.out \o cputs(full), buf |-> <<>>]
      ELSE [b EXCEPT !.buf = full]

vdprintf(fmt, ap) ==
  LET b == FoldLeft(dputch, [out |-> <<>>, buf |-> <<>>], vprintfmt(fmt, ap))
  IN  b.out \o cputs(b.buf)

\* KERN_INFO
debug_info(fmt, ap) == vdprintf(fmt, ap)

\* The loop of sys_puts over the pages of sys_buf.
RECURSIVE chunks(_)
chunks(str) ==
  IF str = <<>> THEN <<>>
  ELSE LET nbytes == IF Len(str) < PAGE_SIZE - 1 THEN Len(str) ELSE PAGE_SIZE - 1
       IN  debug_info(<<"%", "s">>, <<SubSeq(str, 1, nbytes)>>)
           \o chunks(SubSeq(str, nbytes + 1, Len(str)))

sys_puts(p, str) ==
  LET out == chunks(str) IN kern' = [i \in DOMAIN out |-> [from |-> p, ch |-> out[i]]]

\* The bytes of a character on the line.
serial_reformatnewline(c) == IF c.ch = "\n" THEN <<[c EXCEPT !.ch = "\r"], c>> ELSE <<c>>

\* The transmitter is empty, or 12800 polls found it full and the byte goes
\* over what it holds.
serial_putc(c) ==
  IF ~serial_exists THEN UNCHANGED fifo
  ELSE /\ fifo = <<>> \/ Stalls
       /\ fifo' = serial_reformatnewline(c)

\* ImplementsScreen: always downwards.
memmove_bug(mem, dst, src, n) ==
  FoldLeft(LAMBDA m, i : [m EXCEPT ![dst + i] = m[src + i]], mem, [i \in 1 .. n |-> n - i])

\* rep movs, upwards or downwards, an element at a time.
memmove(mem, dst, src, n) ==
  LET up    == [i \in 1 .. n |-> i - 1]
      order == IF src < dst /\ src + n > dst THEN Reverse(up) ELSE up
  IN  FoldLeft(LAMBDA m, i : [m EXCEPT ![dst + i] = m[src + i]], mem, order)

scroll(v) ==
  IF v.crt_pos < CRT_SIZE THEN v
  ELSE LET up == memmove(v.crt_buf, 0, CRT_COLS, CRT_SIZE - CRT_COLS)
       IN  [crt_buf |-> [i \in DOMAIN up |-> IF i < CRT_SIZE - CRT_COLS THEN up[i] ELSE " "],
            crt_pos |-> v.crt_pos - CRT_COLS]

RECURSIVE video(_, _)
video(v, c) ==
  LET pos == v.crt_pos IN
  scroll(CASE c = "BS" -> IF pos > 0 THEN [crt_buf |-> [v.crt_buf EXCEPT ![pos - 1] = " "],
                                           crt_pos |-> pos - 1]
                          ELSE v
           [] c = "\n" -> [v EXCEPT !.crt_pos = pos + CRT_COLS - ((pos + CRT_COLS) % CRT_COLS)]
           [] c = "\r" -> [v EXCEPT !.crt_pos = pos - (pos % CRT_COLS)]
           [] c = "\t" -> FoldLeft(video, v, <<" ", " ", " ", " ", " ">>)
           [] OTHER    -> [crt_buf |-> [v.crt_buf EXCEPT ![pos] = c], crt_pos |-> pos + 1])

video_putc(c) ==
  LET v == video([crt_buf |-> crt_buf, crt_pos |-> crt_pos], c)
  IN  crt_buf' = v.crt_buf /\ crt_pos' = v.crt_pos

cons_putc ==
  /\ kern # <<>> /\ kern' = Tail(kern)
  /\ serial_putc(Head(kern)) /\ video_putc(Head(kern).ch)
  /\ UNCHANGED <<procs, line, serial_exists>>

\* The serial port sends what it holds.
transmit ==
  /\ fifo # <<>> /\ line' = line \o fifo /\ fifo' = <<>>
  /\ UNCHANGED <<procs, kern, crt_buf, crt_pos, serial_exists>>

-----------------------------------------------------------------------------
(* The processes, which run while the kernel does not.                     *)

device == <<fifo, line, crt_buf, crt_pos, serial_exists>>

\* vcprintf calls vprintfmt; a job of a size first goes through snprintf into
\* a buffer of that size, which is then printed.
printf(p) ==
  LET job == jobs[p]
      fmt == Format(job.text)
      ap  == Args(job.text)
  IN  /\ kern = <<>> /\ todo[p] = Idle /\ ~job.kernel
      /\ todo' = [todo EXCEPT ![p] =
                    IF job.size = 0 THEN user_vprintfmt(fmt, ap)
                    ELSE user_vprintfmt(<<"%", "s">>, <<vsnprintf(job.size, fmt, ap).buf>>)]
      /\ UNCHANGED <<jobs, buf, kern, device>>

\* A message of the kernel, in a system call of the process.
KERN_INFO(p) ==
  /\ kern = <<>> /\ todo[p] = Idle /\ jobs[p].kernel
  /\ LET out == debug_info(Format(jobs[p].text), Args(jobs[p].text))
     IN  kern' = [i \in DOMAIN out |-> [from |-> p, ch |-> out[i]]]
  /\ todo' = [todo EXCEPT ![p] = Done]
  /\ UNCHANGED <<jobs, buf, device>>

\* LineWhole: the buffer goes out at every character.
putch_bug(p) ==
  /\ kern = <<>> /\ todo[p] \notin {Idle, Done, <<>>}
  /\ todo' = [todo EXCEPT ![p] = Tail(@)]
  /\ sys_puts(p, <<Head(todo[p])>>)
  /\ UNCHANGED <<jobs, buf, device>>

putch(p) ==
  /\ kern = <<>> /\ todo[p] \notin {Idle, Done, <<>>}
  /\ todo' = [todo EXCEPT ![p] = Tail(@)]
  /\ LET b == Append(buf[p], Head(todo[p]))
     IN  IF Len(b) = MAX_BUF - 1
         THEN sys_puts(p, b) /\ buf' = [buf EXCEPT ![p] = <<>>]
         ELSE buf' = [buf EXCEPT ![p] = b] /\ UNCHANGED kern
  /\ UNCHANGED <<jobs, device>>

\* The end of vcprintf.
vcprintf(p) ==
  /\ kern = <<>> /\ todo[p] = <<>>
  /\ sys_puts(p, buf[p])
  /\ todo' = [todo EXCEPT ![p] = Done] /\ buf' = [buf EXCEPT ![p] = <<>>]
  /\ UNCHANGED <<jobs, device>>

\* serial_init and video_init: the port may be missing, and the cursor is
\* where the firmware left it.
InitOf(works) ==
  /\ jobs \in works
  /\ todo = [p \in DOMAIN jobs |-> Idle] /\ buf = [p \in DOMAIN jobs |-> <<>>]
  /\ kern = <<>> /\ fifo = <<>> /\ line = <<>>
  /\ serial_exists \in BOOLEAN
  /\ crt_buf = [i \in 0 .. CRT_SIZE - 1 |-> " "] /\ crt_pos \in Cursors

Init == InitOf(Work)

\* Everything is printed.
Printed ==
  /\ \A p \in DOMAIN jobs : todo[p] = Done
  /\ kern = <<>> /\ fifo = <<>> /\ UNCHANGED vars

Next ==
  \/ cons_putc \/ transmit \/ Printed
  \/ \E p \in DOMAIN jobs : printf(p) \/ putch(p) \/ vcprintf(p) \/ KERN_INFO(p)

Spec == Init /\ [][Next]_vars
-----------------------------------------------------------------------------
(* Properties.                                                             *)

\* What a job should put on the serial line.
Promised(job) ==
  LET all == Expected(job.text)
      cut == IF job.size = 0 \/ Len(all) < job.size THEN all ELSE SubSeq(all, 1, job.size - 1)
  IN  FlattenSeq([i \in DOMAIN cut |-> IF cut[i] = "\n" THEN <<"\r", "\n">> ELSE <<cut[i]>>])

OnLine == line \o fifo
TextOf(p) == LET mine == SelectSeq(OnLine, LAMBDA c : c.from = p)
             IN  [i \in DOMAIN mine |-> mine[i].ch]

\* Of every process, the serial line carries what its formats and arguments
\* mean, in order and without a character lost or repeated wherever one of
\* the buffers of printf, sys_puts and vdprintf is full, and all of it once
\* printf has returned.
ConsoleText ==
  serial_exists =>
    \A p \in DOMAIN jobs :
      /\ IsPrefix(TextOf(p), Promised(jobs[p]))
      /\ kern = <<>> /\ todo[p] = Done => TextOf(p) = Promised(jobs[p])

\* The comment above struct printbuf: what fits into the buffer is on the
\* line in one piece, however the processes are switched.
LineWhole ==
  \A p \in DOMAIN jobs :
    Len(Expected(jobs[p].text)) < MAX_BUF =>
      \A i, k \in DOMAIN OnLine :
        OnLine[i].from = p /\ OnLine[k].from = p =>
          \A j \in i .. k : OnLine[j].from = p

Page == [r \in 1 .. CRT_ROWS |->
           [c \in 1 .. CRT_COLS |-> crt_buf[(r - 1) * CRT_COLS + c - 1]]]

T == INSTANCE Terminal WITH Char <- Chars, ROWS <- CRT_ROWS, COLS <- CRT_COLS,
       page <- Page, row <- (crt_pos \div CRT_COLS) + 1, col <- (crt_pos % CRT_COLS) + 1

\* video_putc, on a flat array that it moves with memmove, is a page of rows
\* with a cursor that stays on it.
ImplementsScreen == T!Spec

-----------------------------------------------------------------------------
(* What the code does not guarantee: TLC refutes ConsoleText                *)
(*   - when Stalls is TRUE: serial_putc gives up waiting and writes over a  *)
(*     byte that is not sent;                                               *)
(*   - for %.0s, which vprintfmt reads as the flag 0 and prints whole;      *)
(*   - for %3d of -1, which is four places wide, and "%-3d" of 1, which     *)
(*     vprintfmt pads on the left with the flag itself, although its        *)
(*     comment says "flag to pad on the right";                             *)
(*   - for %o in a process, which prints XXX;                               *)
(*   - for %c with a width, which is ignored, and %p with one, which does   *)
(*     not count the 0x.                                                    *)
=============================================================================
