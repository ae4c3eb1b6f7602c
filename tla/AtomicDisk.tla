----------------------------- MODULE AtomicDisk -----------------------------
(***************************************************************************)
(* What the log promises the file system: a store whose blocks change all  *)
(* together or not at all.  A system call edits a working copy; commit     *)
(* makes the copy the store; a crash throws the copy away.                 *)
(***************************************************************************)
CONSTANTS Block, Val

VARIABLES
  store,    \* what survives a crash
  working   \* what system calls see and change

vars == <<store, working>>

Init == store \in [Block -> Val] /\ working = store

Write(b, v) ==
  /\ working' = [working EXCEPT ![b] = v]
  /\ UNCHANGED store

Commit ==
  /\ store' = working
  /\ UNCHANGED working

Crash ==
  /\ working' = store
  /\ UNCHANGED store

Next ==
  \/ \E b \in Block, v \in Val : Write(b, v)
  \/ Commit
  \/ Crash

Spec == Init /\ [][Next]_vars
=============================================================================
