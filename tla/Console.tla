------------------------------ MODULE Console -------------------------------
(***************************************************************************)
(* Console input: the keyboard and serial drivers, the buffer they share,  *)
(* and the kernel monitor that reads lines from it (kern/dev/console.c,    *)
(* keyboard.c, serial.c).  Nothing else reads the console; the drivers run *)
(* when cons_getc polls them, a byte at a time, while the devices go on    *)
(* receiving.                                                              *)
(*                                                                         *)
(* Scan codes are those of the keyboard.  The tables of characters are cut *)
(* down to a key of each kind that the code tells apart, and a character   *)
(* is the name of its kind.  What the console prints is in module Output.  *)
(*                                                                         *)
(* An operator whose name ends in _bug is a faulty variant of the one      *)
(* after it, which the specification does not use: put in its place it     *)
(* must break the property its comment names.                              *)
(***************************************************************************)
EXTENDS Integers, Sequences, TLC

CONSTANTS
  CONSOLE_BUFFER_SIZE, BUFLEN,
  Input,       \* what is connected: records of keys, serial characters and
               \* whether there is a serial line
  MaxPending   \* bound: bytes that a device holds back

ASSUME ConsoleAssumption ==
  /\ CONSOLE_BUFFER_SIZE \in Nat \ {0} /\ BUFLEN \in Nat \ {0} /\ MaxPending \in Nat

VARIABLES
  input,      \* what is connected, which never changes
  down,       \* the keys that are held down
  scan,       \* bytes that the keyboard has yet to send
  KBDATAP,    \* the data register of the keyboard controller, or Empty
  COM_RX,     \* characters received by the serial port
  shift,      \* the static variable of kbd_proc_data, as a set of flags
  cons,       \* the buffer
  pc,         \* where the monitor is in readline, getchar and cons_getc
  linebuf     \* the line, up to i

device == <<down, scan, COM_RX>>
vars == <<input, down, scan, KBDATAP, COM_RX, shift, cons, pc, linebuf>>

Empty == -1
NO == "NO"

\* The characters: a letter, with shift, with control; control characters;
\* and one of the special keys, whose codes are negative as a char.
Char == {"a", "A", "^A", "LF", "CR", "BS", "DEL", "KEY_DEL"}
Printable == {"a", "A", "DEL"}
Negative == {"KEY_DEL"}

-----------------------------------------------------------------------------
(* kern/dev/keyboard.c                                                     *)

shiftcode ==
  \h1D :> {"CTL"} @@ \h2A :> {"SHIFT"} @@ \h36 :> {"SHIFT"} @@ \h38 :> {"ALT"}
    @@ \h9D :> {"CTL"} @@ \hB8 :> {"ALT"} @@ [d \in 0 .. 255 |-> {}]

togglecode ==
  \h3A :> {"CAPSLOCK"} @@ \h45 :> {"NUMLOCK"} @@ \h46 :> {"SCROLLLOCK"}
    @@ [d \in 0 .. 255 |-> {}]

normalmap == \h1E :> "a" @@ \h1C :> "LF" @@ \h9C :> "LF" @@ \h0E :> "BS"
               @@ \hD3 :> "KEY_DEL" @@ [d \in 0 .. 255 |-> NO]

shiftmap == \h1E :> "A" @@ normalmap

ctlmap == \h1E :> "^A" @@ \h1C :> "CR" @@ \hD3 :> "KEY_DEL" @@ [d \in 0 .. 255 |-> NO]

charcode(flags) ==
  IF "CTL" \in flags THEN ctlmap ELSE IF "SHIFT" \in flags THEN shiftmap ELSE normalmap

ToggleCase(c) == CASE c = "a" -> "A" [] c = "A" -> "a" [] OTHER -> c

\* NoStuckModifier: a release leaves the escape to the next key.
key_released_bug(data) ==
  shift' = shift \ shiftcode[IF "E0ESC" \in shift THEN data ELSE data - 128]

key_released(data) ==
  shift' = shift \ (shiftcode[IF "E0ESC" \in shift THEN data ELSE data - 128]
                      \cup {"E0ESC"})

\* The flags once the key with this code in the tables is pressed.
Pressed(code) ==
  LET set == (shift \ {"E0ESC"}) \cup shiftcode[code]
  IN  (set \ togglecode[code]) \cup (togglecode[code] \ set)

Code(data) == IF "E0ESC" \in shift THEN data + 128 ELSE data

\* The character kbd_proc_data returns for a byte.
CharOf(data) ==
  LET flags == Pressed(Code(data))
      c     == charcode(flags)[Code(data)]
  IN  IF data >= 128 THEN NO
      ELSE IF "CAPSLOCK" \in flags THEN ToggleCase(c) ELSE c

Reboots(data) ==
  data < 128 /\ {"CTL", "ALT"} \subseteq Pressed(Code(data)) /\ CharOf(data) = "KEY_DEL"

-----------------------------------------------------------------------------
(* kern/dev/console.c                                                      *)

NoInput == [buf |-> [i \in 0 .. CONSOLE_BUFFER_SIZE - 1 |-> NO], rpos |-> 0, wpos |-> 0]

\* ImplementsQueue: the writer goes round one place too early.
cons_put_bug(c) ==
  cons' = IF c = NO THEN cons
          ELSE [cons EXCEPT !.buf[cons.wpos] = c,
                            !.wpos = (@ + 1) % (CONSOLE_BUFFER_SIZE - 1)]

\* The body of the loop of cons_intr: nothing is tested but the end of the
\* array.
cons_put(c) ==
  cons' = IF c = NO THEN cons
          ELSE [cons EXCEPT !.buf[cons.wpos] = c,
                            !.wpos = (@ + 1) % CONSOLE_BUFFER_SIZE]

serial_intr ==
  /\ pc = "serial_intr" /\ UNCHANGED <<input, down, scan, KBDATAP, shift, linebuf>>
  /\ IF input.serial_exists /\ COM_RX /= <<>>
     THEN COM_RX' = Tail(COM_RX) /\ cons_put(Head(COM_RX)) /\ UNCHANGED pc
     ELSE pc' = "keyboard_intr" /\ UNCHANGED <<COM_RX, cons>>

\* kbd_proc_data, called by cons_intr; a reboot starts the kernel again with
\* whatever keys are down.
keyboard_intr ==
  /\ pc = "keyboard_intr" /\ UNCHANGED <<input, down>>
  /\ \/ /\ KBDATAP = Empty
        /\ pc' = "cons_getc"
        /\ UNCHANGED <<scan, KBDATAP, COM_RX, shift, cons, linebuf>>
     \/ /\ KBDATAP /= Empty /\ ~ Reboots(KBDATAP)
        /\ CASE KBDATAP = \hE0 -> shift' = shift \cup {"E0ESC"} /\ UNCHANGED cons
             [] KBDATAP /= \hE0 /\ KBDATAP >= 128 -> key_released(KBDATAP) /\ UNCHANGED cons
             [] OTHER -> shift' = Pressed(Code(KBDATAP)) /\ cons_put(CharOf(KBDATAP))
        /\ KBDATAP' = Empty
        /\ UNCHANGED <<scan, COM_RX, pc, linebuf>>
     \/ /\ KBDATAP /= Empty /\ Reboots(KBDATAP)
        /\ scan' = <<>> /\ KBDATAP' = Empty /\ COM_RX' = <<>>
        /\ shift' = {} /\ cons' = NoInput /\ pc' = "monitor" /\ linebuf' = <<>>

\* What readline does with a character.
readline(c) ==
  LET erased == c \in {"BS", "DEL"} /\ linebuf /= <<>>
      stored == ~ erased /\ c \in Printable /\ Len(linebuf) < BUFLEN - 1
  IN  /\ linebuf' = CASE erased -> SubSeq(linebuf, 1, Len(linebuf) - 1)
                      [] stored -> Append(linebuf, c)
                      [] OTHER  -> linebuf
      /\ pc' = IF c \in Negative \cup {"LF", "CR"} THEN "monitor" ELSE "serial_intr"

\* The rest of cons_getc, after the devices are polled; getchar calls it
\* again as long as there is no character.
cons_getc ==
  /\ pc = "cons_getc" /\ UNCHANGED <<input, down, scan, KBDATAP, COM_RX, shift>>
  /\ IF cons.rpos = cons.wpos
     THEN pc' = "serial_intr" /\ UNCHANGED <<cons, linebuf>>
     ELSE /\ cons' = [cons EXCEPT !.rpos = (@ + 1) % CONSOLE_BUFFER_SIZE]
          /\ readline(cons.buf[cons.rpos])

\* The monitor asks for the next line.
monitor ==
  /\ pc = "monitor" /\ pc' = "serial_intr" /\ linebuf' = <<>>
  /\ UNCHANGED <<input, down, scan, KBDATAP, COM_RX, shift, cons>>

-----------------------------------------------------------------------------
(* The devices.                                                            *)

\* The bytes of a key: those of keys on the right begin with E0.
Bytes(key, released) ==
  (IF key.e0 THEN <<\hE0>> ELSE <<>>) \o <<IF released THEN key.code + 128 ELSE key.code>>

\* A key is pressed, or repeats.
press(key) ==
  /\ Len(scan) < MaxPending
  /\ down' = down \cup {key} /\ scan' = scan \o Bytes(key, FALSE)
  /\ UNCHANGED <<input, KBDATAP, COM_RX, shift, cons, pc, linebuf>>

release(key) ==
  /\ Len(scan) < MaxPending /\ key \in down
  /\ down' = down \ {key} /\ scan' = scan \o Bytes(key, TRUE)
  /\ UNCHANGED <<input, KBDATAP, COM_RX, shift, cons, pc, linebuf>>

send ==
  /\ scan /= <<>> /\ KBDATAP = Empty
  /\ KBDATAP' = Head(scan) /\ scan' = Tail(scan)
  /\ UNCHANGED <<input, down, COM_RX, shift, cons, pc, linebuf>>

receive(c) ==
  /\ input.serial_exists /\ Len(COM_RX) < MaxPending
  /\ COM_RX' = Append(COM_RX, c)
  /\ UNCHANGED <<input, down, scan, KBDATAP, shift, cons, pc, linebuf>>

InitOf(inputs) ==
  /\ input \in inputs
  /\ down = {} /\ scan = <<>> /\ KBDATAP = Empty /\ COM_RX = <<>>
  /\ shift = {} /\ cons = NoInput /\ pc = "monitor" /\ linebuf = <<>>

Init == InitOf(Input)

Next ==
  \/ monitor \/ serial_intr \/ keyboard_intr \/ cons_getc \/ send
  \/ \E key \in input.keys : press(key) \/ release(key)
  \/ \E c \in input.serial : receive(c)

Spec == Init /\ [][Next]_vars
-----------------------------------------------------------------------------
(* Properties.                                                             *)

\* What lies between the reader and the writer.
Unread ==
  LET n == CONSOLE_BUFFER_SIZE
  IN  [k \in 1 .. (cons.wpos - cons.rpos) % n |-> cons.buf[(cons.rpos + k - 1) % n]]

Q == INSTANCE OverrunQueue WITH
       Item <- Char, Size <- CONSOLE_BUFFER_SIZE, queue <- Unread,
       restart <- pc = "keyboard_intr" /\ KBDATAP /= Empty /\ Reboots(KBDATAP)

\* However the drivers and the reader go round the array, characters come
\* out in the order they came in, and are lost only all together, when the
\* writer of cons_intr catches up with the reader or Ctrl-Alt-Del restarts
\* the machine.
ImplementsQueue == Q!Spec

\* Once no key is held and every byte is read, kbd_proc_data takes no
\* modifier for pressed and expects no second byte, whatever keys, left,
\* right or repeating, were pressed in between, and after a reboot too.
NoStuckModifier ==
  down = {} /\ scan = <<>> /\ KBDATAP = Empty =>
    shift \subseteq {"CAPSLOCK", "NUMLOCK", "SCROLLLOCK"}
=============================================================================
