---------------------------- MODULE LockedStore ----------------------------
(***************************************************************************)
(* What the buffer cache promises: every sector has a content, and a       *)
(* process that has acquired the sector is the only one that may change it *)
(* until it releases it.                                                   *)
(***************************************************************************)
CONSTANTS Proc, Sector, Val, NoProc

VARIABLES content, owner

vars == <<content, owner>>

Init ==
  /\ content \in [Sector -> Val]
  /\ owner = [s \in Sector |-> NoProc]

Acquire(p, s) ==
  /\ owner[s] = NoProc
  /\ owner' = [owner EXCEPT ![s] = p]
  /\ UNCHANGED content

Update(p, s, v) ==
  /\ owner[s] = p
  /\ content' = [content EXCEPT ![s] = v]
  /\ UNCHANGED owner

Release(p, s) ==
  /\ owner[s] = p
  /\ owner' = [owner EXCEPT ![s] = NoProc]
  /\ UNCHANGED content

Next ==
  \E p \in Proc, s \in Sector :
    \/ Acquire(p, s)
    \/ Release(p, s)
    \/ \E v \in Val : Update(p, s, v)

Spec == Init /\ [][Next]_vars
=============================================================================
