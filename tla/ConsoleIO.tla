----------------------------- MODULE ConsoleIO ------------------------------
(***************************************************************************)
(* The console in both directions: the devices and the monitor that reads  *)
(* them (Console), and the processes that print (Output).  The monitor     *)
(* runs when no process does, so that a behaviour is of one or the other.  *)
(***************************************************************************)
EXTENDS Console

CONSTANTS Bits, Chars, Work, MAX_BUF, PAGE_SIZE, CRT_ROWS, CRT_COLS, Cursors, Stalls

VARIABLES
  direction,     \* "input" or "output", which never changes
  jobs, todo, buf, kern, fifo, line, crt_buf, crt_pos, serial_exists

O == INSTANCE Output

outvars == <<jobs, todo, buf, kern, fifo, line, crt_buf, crt_pos, serial_exists>>
iovars == <<direction, vars, outvars>>

NoDevices == [keys |-> {}, serial |-> {}, serial_exists |-> FALSE]

IOInit ==
  \/ /\ direction = "input" /\ Init
     /\ O!InitOf({<<>>}) /\ ~serial_exists /\ crt_pos = 0
  \/ direction = "output" /\ InitOf({NoDevices}) /\ O!Init

IONext ==
  /\ UNCHANGED direction
  /\ \/ direction = "input" /\ Next /\ UNCHANGED outvars
     \/ direction = "output" /\ O!Next /\ UNCHANGED vars

IOSpec == IOInit /\ [][IONext]_iovars
-----------------------------------------------------------------------------
(* Properties.                                                             *)

\* What printf and the kernel print arrives on the serial line as its
\* formats mean it: nothing lost, repeated or out of order.
ConsoleText == O!ConsoleText

\* A line that fits the buffer of printf is not torn by another process.
LineWhole == O!LineWhole

\* The memory of the screen is a page of rows with a cursor on it.
ImplementsScreen == O!ImplementsScreen
=============================================================================
