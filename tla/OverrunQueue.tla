---------------------------- MODULE OverrunQueue ----------------------------
(***************************************************************************)
(* What the input buffer of the console promises its readers: a queue, in  *)
(* order, without gaps and duplicates, that loses everything it holds when *)
(* it is filled to its last place or the machine is started again, and     *)
(* never only a part of it.                                                *)
(***************************************************************************)
EXTENDS Naturals, Sequences

CONSTANTS Item, Size

VARIABLES
  queue,
  restart   \* whether the next step starts the machine again

Init == queue = <<>>

Put(c) == queue' = IF Len(queue) = Size - 1 THEN <<>> ELSE Append(queue, c)

Get == queue /= <<>> /\ queue' = Tail(queue)

Reset == restart /\ queue' = <<>>

Next == Get \/ Reset \/ \E c \in Item : Put(c)

Spec == Init /\ [][Next]_queue
=============================================================================
