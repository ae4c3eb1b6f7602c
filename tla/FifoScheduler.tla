--------------------------- MODULE FifoScheduler ---------------------------
(***************************************************************************)
(* What the thread layer promises its callers: threads are served in the   *)
(* order in which they became ready.  There are no links, no tick counter  *)
(* and no wakeup loop here, only a sequence of ready threads.              *)
(***************************************************************************)
EXTENDS Integers, Sequences

CONSTANTS Thread, Boot, Cause, NoCause

VARIABLES
  fresh,     \* threads that were never created
  ready,     \* ready threads, the next one to run first
  blocked,   \* what each thread waits for
  current    \* the running thread

vars == <<fresh, ready, blocked, current>>

Init ==
  /\ fresh = Thread \ {Boot}
  /\ ready = <<>>
  /\ blocked = [t \in Thread |-> NoCause]
  /\ current = Boot

Create(t) ==
  /\ t \in fresh
  /\ fresh' = fresh \ {t}
  /\ ready' = Append(ready, t)
  /\ UNCHANGED <<blocked, current>>

\* The boot thread hands the CPU to a ready thread for good.
HandOver(t) ==
  /\ current = Boot
  /\ \E i \in DOMAIN ready :
       /\ ready[i] = t
       /\ ready' = SubSeq(ready, 1, i - 1) \o SubSeq(ready, i + 1, Len(ready))
  /\ current' = t
  /\ UNCHANGED <<fresh, blocked>>

\* The running thread goes to the end of the line.
Yield ==
  /\ current # Boot
  /\ LET line == Append(ready, current)
     IN  ready' = Tail(line) /\ current' = Head(line)
  /\ UNCHANGED <<fresh, blocked>>

Block(c) ==
  /\ current # Boot
  /\ ready # <<>>
  /\ blocked' = [blocked EXCEPT ![current] = c]
  /\ ready' = Tail(ready)
  /\ current' = Head(ready)
  /\ UNCHANGED fresh

Unblock(t) ==
  /\ blocked[t] # NoCause
  /\ blocked' = [blocked EXCEPT ![t] = NoCause]
  /\ ready' = Append(ready, t)
  /\ UNCHANGED <<fresh, current>>

Next ==
  \/ \E t \in Thread : Create(t) \/ HandOver(t) \/ Unblock(t)
  \/ \E c \in Cause : Block(c)
  \/ Yield

Spec == Init /\ [][Next]_vars
============================================================================
