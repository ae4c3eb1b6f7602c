---------------------------- MODULE SysFileSteps ----------------------------
(***************************************************************************)
(* What the system calls of module SysFile keep true: a process has the    *)
(* references, the locks and the transaction of the point of the call it   *)
(* is at, and every reference is counted, for any number of processes,     *)
(* i-nodes and files and for any calls and paths.                          *)
(*                                                                         *)
(* Nearly every step ends in inode_put, so most of the work is in one      *)
(* lemma about it, PutStep; an action then only has to be Ready for it.    *)
(* One lemma for each action shows that the step keeps SysInv: each case   *)
(* of the action says where the call goes on, and with which references,   *)
(* locks and transaction; a lemma about the function of kern/fs/inode.c    *)
(* that it ends in does the rest.                                          *)
(***************************************************************************)
EXTENDS SysFileInv, TLAPS
-----------------------------------------------------------------------------
\* 0 is not the number of an i-node.
LEMMA InumIsSome == \A i \in Inum : i # None
BY DEF Inum, None

\* The root directory is an i-node.
LEMMA ROOTINOType == ROOTINO \in Inum
BY ConstAssumption DEF Inum, ROOTINO

\* Numbers of references are natural numbers.
LEMMA UsesNat == \A t, i, b : Uses(t, i) \in Nat /\ One(b) \in Nat
BY DEF Uses, One

\* NoProc is not a process.
LEMMA ProcIsSome == \A p \in Proc : p # NoProc
BY ConstAssumption, Zenon
-----------------------------------------------------------------------------
(* Steps of one process.                                                   *)

\* trans after a step of p that leaves it at t.
TransStep(p, t) ==
  \/ /\ trans' = trans
     /\ InTrans(t) => trans = p
     /\ trans = p => MayTrans(t)
  \/ trans = NoProc /\ trans' = p /\ MayTrans(t)
  \/ trans = p /\ trans' = NoProc /\ ~InTrans(t)

\* A step of p that leaves it at t keeps the invariant when it takes and gives
\* back the locks, the transaction and the references of t.
LEMMA StepKeeps ==
  ASSUME SysInv, NEW p \in Proc, NEW t, WellFormed(t),
         th' = [th EXCEPT ![p] = t],
         work' = work, fs' \in Inodes, ic' \in Cache, cwd' \in [Proc -> Inum],
         fds' \in [Proc -> [1 .. NOFILE -> Inum \cup {None}]],
         TransStep(p, t),
         \A i \in Inum :
           /\ ic'.ref[i] = Count(i)'
           /\ ic'.lock[i] = IF Holds(t, i) THEN p
                            ELSE IF Holds(th[p], i) THEN NoProc ELSE ic.lock[i]
           /\ Holds(t, i) => ic.lock[i] \in {p, NoProc}
           /\ ic'.lock[i] # NoProc => i \in ic'.valid,
         \A i \in ic'.valid : fs'.type[i] # "free",
         panic' # "inode_put:busy"
  PROVE  SysInv'
<1>1. t \in Thread
  BY Zenon DEF WellFormed
<1>2. trans' \in Proc \cup {NoProc}
  BY DEF TransStep, SysInv, Types
<1>3. Types'
  BY <1>1, <1>2, Zenon DEF SysInv, Types
<1>4. \A q \in Proc : th'[q] = IF q = p THEN t ELSE th[q]
  BY ZenonT(30) DEF SysInv, Types
<1>5. \A q \in Proc : WellFormed(th'[q])
  BY <1>4 DEF SysInv
<1>6. ASSUME NEW q \in Proc, NEW i \in Inum
      PROVE  ic'.lock[i] = q <=> Holds(th'[q], i)
  <2>1. ic.lock[i] = q <=> Holds(th[q], i)
    BY Zenon DEF SysInv
  <2>2. ic.lock[i] = p <=> Holds(th[p], i)
    BY Zenon DEF SysInv
  <2>3. q # NoProc /\ p # NoProc
    BY ConstAssumption, Zenon
  <2>4. QED
    BY <1>4, <2>1, <2>2, <2>3
<1>7. ASSUME NEW q \in Proc
      PROVE  (InTrans(th'[q]) => trans' = q) /\ (trans' = q => MayTrans(th'[q]))
  <2>1. (InTrans(th[q]) => trans = q) /\ (trans = q => MayTrans(th[q]))
    BY Zenon DEF SysInv
  <2>2. q # NoProc /\ p # NoProc
    BY ConstAssumption, Zenon
  <2>3. InTrans(t) => MayTrans(t)
    BY Zenon DEF MayTrans
  <2>4. QED
    BY <1>4, <2>1, <2>2, <2>3, ZenonT(30) DEF TransStep
<1>8. QED
  BY <1>3, <1>5, <1>6, <1>7, Zenon DEF SysInv

\* What inode_put(p, i, c, f, t) needs: the cache c has the locks of t, and one
\* reference to i more than those of t and of the current directory w.
Ready(p, i, c, f, t, w) ==
  /\ WellFormed(t) /\ t.pc # "free"
  /\ c \in Cache /\ f \in Inodes
  /\ \A j \in Inum :
       /\ c.ref[j] = ic.ref[j] - Uses(th[p], j) + Uses(t, j)
                     - One(cwd[p] = j) + One(w = j) + One(i = j)
       /\ c.lock[j] = IF Holds(t, j) THEN p
                      ELSE IF Holds(th[p], j) THEN NoProc ELSE ic.lock[j]
       /\ Holds(t, j) => ic.lock[j] \in {p, NoProc}
       /\ c.lock[j] # NoProc => j \in c.valid
  /\ \A j \in c.valid : f.type[j] # "free"

\* A step of p that ends in inode_put keeps the invariant if it is Ready for it:
\* the i-node may be freed next, and then nobody has it locked.
LEMMA PutStep ==
  ASSUME SysInv, Counting, panic = "none", NEW p \in Proc, NEW i \in Inum, NEW c, NEW f, NEW t,
         NEW w \in Inum, cwd' = [cwd EXCEPT ![p] = w],
         Ready(p, i, c, f, t, w), inode_put(p, i, c, f, t),
         TransStep(p, t), UNCHANGED <<work, fds>>
  PROVE  SysInv'
<1>1. /\ t \in Thread /\ t.pc # "free" /\ t.vic = None /\ t.kont = "none" /\ t.pc \in PC
      /\ At(t) = t.pc
  BY Zenon DEF Ready, WellFormed, At, Thread
<1>2. /\ c \in Cache /\ f \in Inodes /\ fs' = f /\ cwd' \in [Proc -> Inum]
      /\ fds' \in [Proc -> [1 .. NOFILE -> Inum \cup {None}]]
  BY Zenon DEF Ready, inode_put, SysInv, Types
<1>3. Types /\ fds' = fds /\ \A j \in Inum : ic.ref[j] = Count(j)
  BY Zenon DEF SysInv
<1>4. i # None
  BY InumIsSome, Zenon
<1>5. CASE c.ref[i] = 1 /\ i \in c.valid /\ f.nlink[i] = 0
  <2> DEFINE u == [t EXCEPT !.pc = "free", !.kont = t.pc, !.vic = i]
  <2>1. /\ u \in Thread /\ u.pc = "free" /\ u.kont = t.pc /\ u.vic = i /\ u.ip = t.ip
        /\ u.dp = t.dp /\ u.old = t.old /\ u.call = t.call /\ u.elems = t.elems
    BY <1>1, ZenonT(60) DEF Thread, PC
  <2>2. /\ panic' = IF c.lock[i] = NoProc THEN panic ELSE "inode_put:busy"
        /\ ic' = [c EXCEPT !.lock[i] = p]
        /\ th' = [th EXCEPT ![p] = u]
    BY <1>5, Zenon DEF inode_put
  <2> HIDE DEF u
  <2>3. At(u) = At(t)
    BY <1>1, <2>1, Zenon DEF At
  <2>4. \A j \in Inum : Uses(u, j) = Uses(t, j) + One(i = j)
    BY <1>1, <2>1, InumIsSome DEF Uses, One
  <2>5. \A j \in Inum : Holds(u, j) <=> Holds(t, j) \/ j = i
    BY <1>1, <2>1, <2>3, InumIsSome, Zenon DEF Holds, Locked
  <2>7. InTrans(u) = InTrans(t) /\ MayTrans(u) = MayTrans(t)
    BY <2>1, <2>3, Zenon DEF InTrans, MayTrans
  <2>8. \A j \in Inum : ic'.ref[j] = Count(j)'
    <3>1. Recount(p, u, w)
      BY <1>3, <2>1, <2>2, Zenon DEF Counting, CountStep
    <3>2. ASSUME NEW j \in Inum
          PROVE  c.ref[j] = Count(j)'
      <4>1. Uses(th[p], j) \in Nat /\ Uses(t, j) \in Nat
        BY DEF Uses, One
      <4>2. c.ref[j] = ic.ref[j] - Uses(th[p], j) + Uses(t, j)
                       - One(cwd[p] = j) + One(w = j) + One(i = j)
        BY Zenon DEF Ready
      <4>3. /\ Count(j) \in Nat
            /\ Count(j)' = Count(j) - Uses(th[p], j) + Uses(u, j)
                           - One(cwd[p] = j) + One(w = j)
        BY <3>1, Zenon DEF Recount
      <4>4. Uses(u, j) = Uses(t, j) + One(i = j) /\ ic.ref[j] = Count(j)
        BY <1>3, <2>4, Zenon
      <4>5. QED
        BY <4>1, <4>2, <4>3, <4>4 DEF One
    <3>3. QED
      BY <1>2, <2>2, <3>2, Zenon DEF Cache
  <2>9. c.lock[i] = NoProc
    <3> SUFFICES ASSUME c.lock[i] # NoProc PROVE FALSE
      BY Zenon
    <3> DEFINE q == c.lock[i]
    <3>1. q \in Proc
      BY <1>2, Zenon DEF Cache
    <3>2. PICK s \in Slots : <<q, s>> # <<p, "vic">> /\ th'[q][s] = i
      <4>1. CASE q = p
        <5>1. Holds(t, i)
          BY <4>1, ZenonT(30) DEF Ready, SysInv
        <5>2. t.ip = i \/ t.dp = i \/ t.old = i
          BY <1>1, <1>4, <5>1, Zenon DEF Holds, Locked
        <5>3. th'[p] = u
          BY <1>3, <2>2, ZenonT(30) DEF Types
        <5>4. QED
          BY <2>1, <4>1, <5>2, <5>3, ZenonT(30) DEF Slots, Thread
      <4>2. CASE q # p
        <5>1. ic.lock[i] = q
          BY <4>2, ZenonT(30) DEF Ready
        <5>2. Holds(th[q], i)
          BY <3>1, <5>1, Zenon DEF SysInv
        <5>3. th'[q] = th[q] /\ th[q] \in Thread
          BY <1>3, <2>2, <3>1, <4>2, Zenon DEF Types
        <5>4. QED
          BY <4>2, <5>2, <5>3, Zenon DEF Holds, Locked, Slots, Thread
      <4>3. QED
        BY <4>1, <4>2, Zenon
    <3>3. <<q, s>> \in Locals(i)'
      BY <3>1, <3>2, Zenon DEF Locals
    <3>4. <<p, "vic">> \in Locals(i)'
      BY <1>3, <2>1, <2>2, Zenon DEF Locals, Slots, Types, Thread
    <3>5. Count(i)' >= 2
      BY <3>2, <3>3, <3>4, Zenon DEF Counting, TwoRefs
    <3>6. ic'.ref[i] = 1
      BY <1>2, <1>5, <2>2, ZenonT(30) DEF Cache
    <3>7. QED
      BY <2>8, <3>5, <3>6
  <2>6. WellFormed(u)
    <3>1. ~Locked(u, u.vic)
      <4>1. ~Holds(t, i)
        BY <2>9, ProcIsSome, Zenon DEF Ready
      <4>2. QED
        BY <2>1, <2>3, <4>1, ZenonT(30) DEF Holds, Locked
    <3>2. QED
      BY <1>1, <1>4, <2>1, <2>3, <3>1, SMTT(30) DEF WellFormed, HasIp, HasDp, HasOld, Ready
  <2>10. /\ ic' \in Cache /\ ic'.valid = c.valid
         /\ \A j \in Inum : ic'.lock[j] = IF j = i THEN p ELSE c.lock[j]
    BY <1>2, <2>2, Zenon DEF Cache
  <2>11. \A j \in Inum :
           /\ ic'.lock[j] = IF Holds(u, j) THEN p
                            ELSE IF Holds(th[p], j) THEN NoProc ELSE ic.lock[j]
           /\ Holds(u, j) => ic.lock[j] \in {p, NoProc}
           /\ ic'.lock[j] # NoProc => j \in ic'.valid
    <3>1. Holds(th[p], i) <=> ic.lock[i] = p
      BY Zenon DEF SysInv
    <3>2. ic.lock[i] \in {p, NoProc}
      BY <2>9, <3>1, Zenon DEF Ready
    <3>3. QED
      BY <1>5, <2>5, <2>10, <3>2, SMTT(30) DEF Ready
  <2>12. TransStep(p, u)
    BY <2>7, Zenon DEF TransStep
  <2>13. \A j \in ic'.valid : fs'.type[j] # "free"
    BY <1>2, <2>10, Zenon DEF Ready
  <2>14. panic' # "inode_put:busy"
    BY <2>2, <2>9, Zenon
  <2>15. QED
    BY <1>2, <2>2, <2>6, <2>8, <2>10, <2>11, <2>12, <2>13, <2>14, StepKeeps, Zenon
<1>6. CASE ~ (c.ref[i] = 1 /\ i \in c.valid /\ f.nlink[i] = 0)
  <2>1. ic' = [c EXCEPT !.ref[i] = @ - 1] /\ th' = [th EXCEPT ![p] = t] /\ panic' = panic
    BY <1>6, ZenonT(30) DEF inode_put
  <2>2. ASSUME NEW j \in Inum
        PROVE  c.ref[j] - One(i = j) = Count(j)' /\ Count(j)' \in Nat
    <3>1. Recount(p, t, w)
      BY <1>1, <1>3, <2>1, Zenon DEF Counting, CountStep
    <3>2. Uses(th[p], j) \in Nat /\ Uses(t, j) \in Nat
      BY DEF Uses, One
    <3>3. QED
      BY <1>3, <3>1, <3>2 DEF Ready, Recount, One
  <2>3. /\ ic' \in Cache /\ ic'.valid = c.valid /\ ic'.lock = c.lock
        /\ \A j \in Inum : ic'.ref[j] = c.ref[j] - One(i = j)
    <3>1. c.ref[i] - 1 \in Nat
      BY <2>2, Zenon DEF One
    <3>2. ic' \in Cache /\ ic'.valid = c.valid /\ ic'.lock = c.lock
      BY <1>2, <2>1, <3>1, Zenon DEF Cache
    <3>3. \A j \in Inum : ic'.ref[j] = IF i = j THEN c.ref[j] - 1 ELSE c.ref[j]
      BY <1>2, <2>1, Zenon DEF Cache
    <3>4. \A j \in Inum : c.ref[j] \in Nat
      BY <1>2, ZenonT(30) DEF Cache
    <3>5. QED
      BY <3>2, <3>3, <3>4 DEF One
  <2>4. WellFormed(t) /\ \A j \in ic'.valid : fs'.type[j] # "free"
    BY <1>2, <2>3, ZenonT(30) DEF Ready
  <2>5. \A j \in Inum :
          /\ ic'.ref[j] = Count(j)'
          /\ ic'.lock[j] = IF Holds(t, j) THEN p
                           ELSE IF Holds(th[p], j) THEN NoProc ELSE ic.lock[j]
          /\ Holds(t, j) => ic.lock[j] \in {p, NoProc}
          /\ ic'.lock[j] # NoProc => j \in ic'.valid
    BY <2>2, <2>3 DEF Ready
  <2>6. panic' # "inode_put:busy"
    BY <2>1, Zenon DEF SysInv
  <2>7. QED
    BY <1>2, <2>1, <2>3, <2>4, <2>5, <2>6, StepKeeps, Zenon
<1>7. QED
  BY <1>5, <1>6, ZenonT(30)

\* A step without inode_put.
LEMMA PlainStep ==
  ASSUME SysInv, Counting, NEW p \in Proc, NEW t, th' = [th EXCEPT ![p] = t],
         Ready(p, None, ic', fs', t, cwd[p]),
         TransStep(p, t), UNCHANGED <<work, cwd, fds>>, panic' # "inode_put:busy"
  PROVE  SysInv'
<1>1. Types /\ \A j \in Inum : ic.ref[j] = Count(j)
  BY ZenonT(30) DEF SysInv
<1>2. /\ t \in Thread /\ ic' \in Cache /\ fs' \in Inodes /\ fds' = fds /\ cwd[p] \in Inum
      /\ cwd' \in [Proc -> Inum] /\ cwd' = [cwd EXCEPT ![p] = cwd[p]]
      /\ fds' \in [Proc -> [1 .. NOFILE -> Inum \cup {None}]]
  BY <1>1, ZenonT(30) DEF Ready, WellFormed, Types
<1>3. Recount(p, t, cwd[p])
  BY <1>1, <1>2, ZenonT(30) DEF Counting, CountStep
<1>4. ASSUME NEW j \in Inum
      PROVE  ic'.ref[j] = Count(j)'
  <2>1. ic'.ref[j] = ic.ref[j] - Uses(th[p], j) + Uses(t, j)
                     - One(cwd[p] = j) + One(cwd[p] = j) + One(None = j)
    BY Zenon DEF Ready
  <2>2. /\ Count(j) \in Nat
        /\ Count(j)' = Count(j) - Uses(th[p], j) + Uses(t, j)
                       - One(cwd[p] = j) + One(cwd[p] = j)
    BY <1>3, Zenon DEF Recount
  <2>3. Uses(th[p], j) \in Nat /\ Uses(t, j) \in Nat /\ None # j
    BY InumIsSome, SMTT(30) DEF Uses, One
  <2>4. QED
    BY <1>1, <2>1, <2>2, <2>3, SMTT(30) DEF One
<1>5. \A j \in Inum :
        /\ ic'.ref[j] = Count(j)'
        /\ ic'.lock[j] = IF Holds(t, j) THEN p
                         ELSE IF Holds(th[p], j) THEN NoProc ELSE ic.lock[j]
        /\ Holds(t, j) => ic.lock[j] \in {p, NoProc}
        /\ ic'.lock[j] # NoProc => j \in ic'.valid
  BY <1>4, ZenonT(30) DEF Ready
<1>6. WellFormed(t) /\ \A j \in ic'.valid : fs'.type[j] # "free"
  BY ZenonT(30) DEF Ready
<1>7. QED
  BY <1>2, <1>5, <1>6, StepKeeps, Zenon

\* A step that only stops the kernel keeps the invariant.
LEMMA PanicStep ==
  ASSUME SysInv, UNCHANGED <<work, fs, ic, trans, cwd, fds, th>>, panic' # "inode_put:busy"
  PROVE  SysInv'
<1>1. \A i : Count(i)' = Count(i)
  BY Zenon DEF Count, Cwds, Files, OpenFiles, Locals
<1>2. Types'
  BY Zenon DEF SysInv, Types
<1>3. QED
  BY <1>1, <1>2, Zenon DEF SysInv

\* What the invariant says of process p.
LEMMA ProcFacts ==
  ASSUME SysInv, NEW p \in Proc
  PROVE  /\ WellFormed(th[p]) /\ th[p] \in Thread
         /\ th[p].pc # "free" =>
              At(th[p]) = th[p].pc /\ th[p].vic = None /\ th[p].kont = "none"
         /\ ic \in Cache /\ fs \in Inodes /\ cwd[p] \in Inum
         /\ \A j \in Inum : ic.lock[j] = p <=> Holds(th[p], j)
         /\ \A j \in Inum : ic.lock[j] # NoProc => j \in ic.valid
         /\ \A j \in ic.valid : fs.type[j] # "free"
         /\ InTrans(th[p]) => trans = p
         /\ trans = p => MayTrans(th[p])
         /\ p # NoProc
BY ConstAssumption, ZenonT(30) DEF SysInv, WellFormed, At, Types

\* From th[p] to t the process gives back its reference to i-node i and gets one
\* to e; it unlocks a and locks b.  Each may be None.
Refs(p, t, i, e) ==
  \A j \in Inum : Uses(t, j) + One(i = j) = Uses(th[p], j) + One(e = j)
Locks(p, t, a, b) ==
  \A j \in Inum : Holds(t, j) <=> (Holds(th[p], j) /\ j # a) \/ j = b

\* The cache c is ic with a reference to e got, a unlocked and b locked.
CacheStep(p, c, e, a, b) ==
  /\ c \in Cache
  /\ \A j \in Inum :
       /\ c.ref[j] = ic.ref[j] + One(e = j)
       /\ c.lock[j] = IF j = b THEN p ELSE IF j = a THEN NoProc ELSE ic.lock[j]
       /\ c.lock[j] # NoProc => j \in c.valid
       /\ j \in c.valid => j \in ic.valid \/ j = b

\* A step that leaves the cache alone is a step of the cache.
LEMMA SameCache ==
  ASSUME SysInv, NEW p
  PROVE  CacheStep(p, ic, None, None, None)
<1>1. \A j \in Inum : ic.ref[j] \in Nat /\ (ic.lock[j] # NoProc => j \in ic.valid)
  BY Zenon DEF SysInv, Types, Cache
<1>2. ic \in Cache
  BY Zenon DEF SysInv, Types
<1>3. QED
  BY <1>1, <1>2, InumIsSome DEF CacheStep, One

\* So is one that also unlocks i-node a,
LEMMA UnlockCache ==
  ASSUME NEW p, NEW c, NEW e, NEW b, NEW a \in Inum, a # b, CacheStep(p, c, e, None, b)
  PROVE  CacheStep(p, inode_unlock(c, a), e, a, b)
<1> DEFINE k == inode_unlock(c, a)
<1>1. /\ k \in Cache /\ k.ref = c.ref /\ k.valid = c.valid
      /\ \A j \in Inum : k.lock[j] = IF j = a THEN NoProc ELSE c.lock[j]
  BY ZenonT(30) DEF CacheStep, inode_unlock, Cache
<1> HIDE DEF k
<1>2. CacheStep(p, k, e, a, b)
  BY <1>1, InumIsSome DEF CacheStep
<1>3. QED
  BY <1>2, Zenon DEF k

\* and one that also locks i-node b.
LEMMA LockCache ==
  ASSUME NEW p \in Proc, NEW c, NEW e, NEW b \in Inum, CacheStep(p, c, e, None, None)
  PROVE  CacheStep(p, [c EXCEPT !.lock[b] = p, !.valid = @ \cup {b}], e, None, b)
<1> DEFINE k == [c EXCEPT !.lock[b] = p, !.valid = @ \cup {b}]
<1>1. /\ k \in Cache /\ k.ref = c.ref /\ k.valid = c.valid \cup {b}
      /\ \A j \in Inum : k.lock[j] = IF j = b THEN p ELSE c.lock[j]
  BY ZenonT(30) DEF CacheStep, Cache
<1> HIDE DEF k
<1>2. CacheStep(p, k, e, None, b)
  BY <1>1, InumIsSome, ZenonT(30) DEF CacheStep
<1>3. QED
  BY <1>2, Zenon DEF k

\* A locked i-node has a reference.
LEMMA HeldIsReferenced ==
  ASSUME SysInv, Counting, NEW j \in Inum, ic.lock[j] # NoProc
  PROVE  ic.ref[j] # 0
<1> DEFINE q == ic.lock[j]
<1>1. q \in Proc /\ Types
  BY SMTT(30) DEF SysInv, Types, Cache
<1>2. Holds(th[q], j) /\ ic.ref[j] = Count(j) /\ th[q] \in Thread
  BY <1>1, ZenonT(30) DEF SysInv, WellFormed
<1>3. PICK s \in Slots : th[q][s] = j
  BY <1>2, Zenon DEF Holds, Locked, Slots, Thread
<1>4. <<q, s>> \in Locals(j)
  BY <1>1, <1>3, Zenon DEF Locals
<1>5. QED
  BY <1>2, <1>4, Zenon DEF Counting, OneRef

\* inode_get forgets that the i-node is valid when there was no reference to it.
LEMMA GetCache ==
  ASSUME SysInv, Counting, NEW p, NEW c, NEW a, NEW e \in Inum,
         CacheStep(p, c, None, a, None)
  PROVE  CacheStep(p, inode_get(c, e), e, a, None)
<1> DEFINE k == inode_get(c, e)
<1>1. c \in Cache /\ c.ref[e] + 1 \in Nat
  BY DEF CacheStep, Cache
<1>2. /\ k \in Cache /\ k.lock = c.lock
      /\ k.valid = IF c.ref[e] = 0 THEN c.valid \ {e} ELSE c.valid
  BY <1>1, Zenon DEF inode_get, Cache
<1>3. \A j \in Inum : k.ref[j] = IF j = e THEN c.ref[j] + 1 ELSE c.ref[j]
  BY <1>1, Zenon DEF inode_get, Cache
<1> HIDE DEF k
<1>4. \A j \in Inum : /\ c.ref[j] = ic.ref[j] /\ ic.ref[j] \in Nat
                       /\ c.lock[j] = IF j = a THEN NoProc ELSE ic.lock[j]
  BY InumIsSome, SMTT(30) DEF CacheStep, One, SysInv, Types, Cache
<1>5. \A j \in Inum : k.ref[j] = ic.ref[j] + One(e = j)
  BY <1>3, <1>4 DEF One
<1>6. \A j \in Inum : k.lock[j] # NoProc => j \in k.valid
  BY <1>2, <1>4, HeldIsReferenced DEF CacheStep
<1>7. CacheStep(p, k, e, a, None)
  BY <1>2, <1>4, <1>5, <1>6, InumIsSome, SMTT(30) DEF CacheStep
<1>8. QED
  BY <1>7, Zenon DEF k

\* The step of the process and that of the cache agree.
LEMMA StepReady ==
  ASSUME SysInv, NEW p \in Proc, NEW c, NEW f, NEW t, NEW i, NEW e, NEW a, NEW b,
         WellFormed(t), t.pc # "free", Refs(p, t, i, e), Locks(p, t, a, b),
         CacheStep(p, c, e, a, b),
         a = None \/ Holds(th[p], a), b = None \/ ic.lock[b] = NoProc,
         f \in Inodes, \A j \in Inum : j # b => f.type[j] = fs.type[j],
         b = None \/ f.type[b] # "free"
  PROVE  Ready(p, i, c, f, t, cwd[p])
<1>1. ASSUME NEW j \in Inum
      PROVE  c.ref[j] = ic.ref[j] - Uses(th[p], j) + Uses(t, j)
                        - One(cwd[p] = j) + One(cwd[p] = j) + One(i = j)
  <2>1. Uses(t, j) + One(i = j) = Uses(th[p], j) + One(e = j)
    BY ZenonT(30) DEF Refs
  <2>2. c.ref[j] = ic.ref[j] + One(e = j) /\ ic.ref[j] \in Nat
    BY DEF CacheStep, SysInv, Types, Cache
  <2>3. Uses(t, j) \in Nat /\ Uses(th[p], j) \in Nat
    BY DEF Uses, One
  <2>4. One(i = j) \in Nat /\ One(e = j) \in Nat /\ One(cwd[p] = j) \in Nat
    BY ZenonT(30) DEF One
  <2>5. QED
    BY <2>1, <2>2, <2>3, <2>4, SMTT(30)
<1>2. ASSUME NEW j \in Inum
      PROVE  /\ c.lock[j] = IF Holds(t, j) THEN p
                            ELSE IF Holds(th[p], j) THEN NoProc ELSE ic.lock[j]
             /\ Holds(t, j) => ic.lock[j] \in {p, NoProc}
             /\ c.lock[j] # NoProc => j \in c.valid
  <2>1. Holds(t, j) <=> (Holds(th[p], j) /\ j # a) \/ j = b
    BY Zenon DEF Locks
  <2>2. /\ c.lock[j] = IF j = b THEN p ELSE IF j = a THEN NoProc ELSE ic.lock[j]
        /\ c.lock[j] # NoProc => j \in c.valid
    BY Zenon DEF CacheStep
  <2>3. (ic.lock[j] = p <=> Holds(th[p], j)) /\ j # None
    BY InumIsSome, Zenon DEF SysInv
  <2>4. QED
    BY <2>1, <2>2, <2>3
<1>3. c \in Cache /\ \A j \in c.valid : f.type[j] # "free"
  <2>1. c \in Cache /\ \A j \in Inum : j \in c.valid => j \in ic.valid \/ j = b
    BY ZenonT(30) DEF CacheStep
  <2>2. c.valid \subseteq Inum /\ \A j \in ic.valid : fs.type[j] # "free"
    BY <2>1, Zenon DEF Cache, SysInv
  <2>3. QED
    BY <2>1, <2>2, InumIsSome, Zenon
<1>4. QED
  BY <1>1, <1>2, <1>3, ZenonT(30) DEF Ready

\* A step that leaves the current directories alone leaves that of p alone.
LEMMA CwdSame ==
  ASSUME SysInv, NEW p \in Proc, UNCHANGED cwd
  PROVE  cwd' = [cwd EXCEPT ![p] = cwd[p]] /\ cwd[p] \in Inum /\ fs \in Inodes
BY ZenonT(30) DEF SysInv, Types

\* The process goes on at t with the references and the locks it has.
LEMMA MoveStep ==
  ASSUME SysInv, Counting, NEW p \in Proc, NEW t, th' = [th EXCEPT ![p] = t],
         WellFormed(t), t.pc # "free", Refs(p, t, None, None), Locks(p, t, None, None),
         TransStep(p, t), UNCHANGED <<work, fs, ic, cwd, fds, panic>>
  PROVE  SysInv'
<1>1. Ready(p, None, ic', fs', t, cwd[p])
  BY SameCache, StepReady, CwdSame, Zenon
<1>2. QED
  BY <1>1, PlainStep, Zenon DEF SysInv

\* inode_lock, where the process goes on at t.
LEMMA LockStep ==
  ASSUME SysInv, Counting, NEW p \in Proc, NEW i \in Inum, NEW t, inode_lock(p, i, t),
         WellFormed(t), t.pc # "free", Refs(p, t, None, None), Locks(p, t, None, i),
         InTrans(t) => trans = p, trans = p => MayTrans(t), UNCHANGED work
  PROVE  SysInv'
<1>1. CASE i \notin ic.valid /\ fs.type[i] = "free"
  BY <1>1, PanicStep, Zenon DEF inode_lock, Panic
<1>2. CASE ~ (i \notin ic.valid /\ fs.type[i] = "free")
  <2>1. /\ ic.lock[i] = NoProc
        /\ ic' = [ic EXCEPT !.lock[i] = p, !.valid = @ \cup {i}]
        /\ th' = [th EXCEPT ![p] = t]
        /\ UNCHANGED <<fs, trans, cwd, fds, panic>>
    BY <1>2, Zenon DEF inode_lock
  <2>2. CacheStep(p, ic', None, None, i)
    BY <2>1, SameCache, LockCache, Zenon
  <2>3. fs.type[i] # "free"
    BY <1>2, Zenon DEF SysInv
  <2>4. Ready(p, None, ic', fs', t, cwd[p])
    BY <2>1, <2>2, <2>3, StepReady, CwdSame, ZenonT(30)
  <2>5. TransStep(p, t) /\ panic' # "inode_put:busy"
    BY <2>1, Zenon DEF TransStep, SysInv
  <2>6. QED
    BY <2>1, <2>4, <2>5, PlainStep, Zenon
<1>3. QED
  BY <1>1, <1>2, Zenon

\* inode_get of e.
LEMMA GetStep ==
  ASSUME SysInv, Counting, NEW p \in Proc, NEW e \in Inum, NEW t,
         th' = [th EXCEPT ![p] = t], ic' = inode_get(ic, e),
         WellFormed(t), t.pc # "free", Refs(p, t, None, e), Locks(p, t, None, None),
         TransStep(p, t), UNCHANGED <<work, fs, cwd, fds, panic>>
  PROVE  SysInv'
<1>1. CacheStep(p, ic', e, None, None)
  BY SameCache, GetCache, Zenon
<1>2. Ready(p, None, ic', fs', t, cwd[p])
  BY <1>1, StepReady, CwdSame, Zenon
<1>3. QED
  BY <1>2, PlainStep, Zenon DEF SysInv

\* inode_unlock of i.
LEMMA UnlockStep ==
  ASSUME SysInv, Counting, NEW p \in Proc, NEW i \in Inum, NEW t,
         th' = [th EXCEPT ![p] = t], ic' = inode_unlock(ic, i),
         WellFormed(t), t.pc # "free", Refs(p, t, None, None), Locks(p, t, i, None),
         Holds(th[p], i), TransStep(p, t), UNCHANGED <<work, fs, cwd, fds, panic>>
  PROVE  SysInv'
<1>1. CacheStep(p, ic', None, i, None)
  BY SameCache, UnlockCache, InumIsSome, Zenon
<1>2. Ready(p, None, ic', fs', t, cwd[p])
  BY <1>1, StepReady, CwdSame, Zenon
<1>3. QED
  BY <1>2, PlainStep, Zenon DEF SysInv

\* inode_put of i, which the process forgets.
LEMMA ForgetStep ==
  ASSUME SysInv, Counting, panic = "none", NEW p \in Proc, NEW i \in Inum, NEW t,
         inode_put(p, i, ic, fs, t),
         WellFormed(t), t.pc # "free", Refs(p, t, i, None), Locks(p, t, None, None),
         TransStep(p, t), UNCHANGED <<work, cwd, fds>>
  PROVE  SysInv'
<1>1. Ready(p, i, ic, fs, t, cwd[p])
  BY SameCache, StepReady, CwdSame, Zenon
<1>2. QED
  BY <1>1, CwdSame, PutStep, Zenon

\* inode_unlockput of i, with the i-nodes f.
LEMMA DropStep ==
  ASSUME SysInv, Counting, panic = "none", NEW p \in Proc, NEW i \in Inum, NEW f, NEW t,
         inode_unlockput(p, i, ic, f, t), f \in Inodes, f.type = fs.type,
         WellFormed(t), t.pc # "free", Refs(p, t, i, None), Locks(p, t, i, None),
         Holds(th[p], i), TransStep(p, t), UNCHANGED <<work, cwd, fds>>
  PROVE  SysInv'
<1>1. inode_put(p, i, inode_unlock(ic, i), f, t)
  BY Zenon DEF inode_unlockput
<1>2. CacheStep(p, inode_unlock(ic, i), None, i, None)
  BY SameCache, UnlockCache, InumIsSome, Zenon
<1>3. Ready(p, i, inode_unlock(ic, i), f, t, cwd[p])
  BY <1>2, StepReady, ZenonT(30)
<1>4. QED
  BY <1>1, <1>3, CwdSame, PutStep, ZenonT(30)

\* e is got, and then i unlocked and put.
LEMMA HopStep ==
  ASSUME SysInv, Counting, panic = "none", NEW p \in Proc, NEW i \in Inum, NEW e \in Inum,
         NEW t, inode_unlockput(p, i, inode_get(ic, e), fs, t),
         WellFormed(t), t.pc # "free", Refs(p, t, i, e), Locks(p, t, i, None),
         Holds(th[p], i), TransStep(p, t), UNCHANGED <<work, cwd, fds>>
  PROVE  SysInv'
<1> DEFINE c == inode_unlock(inode_get(ic, e), i)
<1>1. inode_put(p, i, c, fs, t)
  BY Zenon DEF inode_unlockput
<1>2. CacheStep(p, inode_get(ic, e), e, None, None)
  BY SameCache, GetCache, Zenon
<1>3. CacheStep(p, c, e, i, None)
  BY <1>2, UnlockCache, InumIsSome, ZenonT(30)
<1> HIDE DEF c
<1>4. Ready(p, i, c, fs, t, cwd[p])
  BY <1>3, StepReady, CwdSame, Zenon
<1>5. QED
  BY <1>1, <1>4, CwdSame, PutStep, Zenon

\* Head and Tail of a path that is not empty.
LEMMA ElemFacts ==
  ASSUME NEW S, NEW e \in Seq(S), e # <<>>
  PROVE  Head(e) \in S /\ Tail(e) \in Seq(S)
OBVIOUS

\* dir_lookup returns an i-node or none.
LEMMA LookupType ==
  ASSUME SysInv, NEW d \in Inum, NEW n \in Name \cup {".", ".."}
  PROVE  Lookup(d, n) \in Inum \cup {None}
BY DEF SysInv, Types, Inodes, Lookup

\* Writing nlink changes nothing else.
LEMMA SetNlink ==
  ASSUME NEW f \in Inodes, NEW i \in Inum, NEW k \in Int
  PROVE  /\ [f EXCEPT !.nlink[i] = k] \in Inodes
         /\ [f EXCEPT !.nlink[i] = k].type = f.type
         /\ [f EXCEPT !.nlink[i] = k].ent = f.ent
BY Zenon DEF Inodes

\* Writing an entry changes nothing else.
LEMMA SetEnt ==
  ASSUME NEW f \in Inodes, NEW d \in Inum, NEW n, NEW i \in Inum \cup {None}
  PROVE  /\ dir_link(f, d, n, i) \in Inodes
         /\ dir_link(f, d, n, i).type = f.type
         /\ dir_link(f, d, n, i).nlink = f.nlink
<1> DEFINE e == [f.ent EXCEPT ![d][n] = i]
<1>1. f.ent \in [Inum -> [Name -> Inum \cup {None}]]
  BY Zenon DEF Inodes
<1>2. e \in [Inum -> [Name -> Inum \cup {None}]]
  BY <1>1, Zenon
<1>3. dir_link(f, d, n, i) = [f EXCEPT !.ent = e]
  BY ZenonT(30) DEF dir_link, Inodes
<1> HIDE DEF e
<1>4. QED
  BY <1>2, <1>3, Zenon DEF Inodes

\* namex starts from an i-node.
LEMMA StartType ==
  ASSUME SysInv, NEW p \in Proc, NEW path \in work.Path
  PROVE  Start(p, path) \in Inum /\ path.elems \in Seq(Name \cup {".", ".."})
<1>1. path \in [abs : BOOLEAN, elems : Seq(Name \cup {".", ".."})] /\ cwd[p] \in Inum
  BY ConstAssumption, ZenonT(30) DEF SysInv, Types
<1>2. QED
  BY <1>1, ROOTINOType, ZenonT(30) DEF Start

-----------------------------------------------------------------------------
(* The actions.                                                            *)


\* A process between calls has nothing.
LEMMA IdleAt == IsAt(Idle, "idle", "none", <<>>, None, None, None)
<1>1. <<>> \in Seq(Name \cup {".", ".."})
  OBVIOUS
<1>2. QED
  BY <1>1, ZenonT(30) DEF IsAt, Idle, Thread, PC

\* namex at the test of its loop: lock, fail, or stop at the i-node.
LEMMA NamexKeeps ==
  ASSUME SysInv, Counting, panic = "none", NEW p \in Proc, namex(p), UNCHANGED work
  PROVE  SysInv'
<1> DEFINE t == th[p]
<1>1. /\ t \in Thread /\ t.pc = "walk" /\ At(t) = "walk" /\ t.vic = None /\ t.kont = "none"
      /\ t.ip \in Inum /\ t.dp = None /\ (t.old # None <=> t.call = "link2")
      /\ t.call # "none"
      /\ (InTrans(t) => trans = p) /\ (trans = p => MayTrans(t)) /\ p # NoProc /\ fs \in Inodes
  BY ProcFacts, ZenonT(30) DEF namex, WellFormed, HasIp, HasDp, HasOld, Thread, Parent
<1> USE <1>1, InumIsSome
<1>2. CASE t.elems # <<>> /\ inode_lock(p, t.ip, [t EXCEPT !.pc = "walking"])
  <2> DEFINE u == [t EXCEPT !.pc = "walking"]
  <2>1. IsAt(u, "walking", t.call, t.elems, t.ip, None, t.old) /\ inode_lock(p, t.ip, u)
    BY <1>2, ZenonT(30) DEF Thread, PC, IsAt
  <2> HIDE DEF u
  <2> USE <1>2, <2>1
  <2>2. WellFormed(u) /\ u.pc # "free"
    BY ZenonT(30) DEF WellFormed, At, HasIp, HasDp, HasOld, PC, IsAt, Parent
  <2>3. Refs(p, u, None, None)
    BY ZenonT(30) DEF Refs, Uses, One, IsAt
  <2>4. Locks(p, u, None, t.ip)
    BY ZenonT(30) DEF Locks, Holds, Locked, At, IsAt
  <2>5. (InTrans(u) => trans = p) /\ (trans = p => MayTrans(u))
    BY Zenon DEF InTrans, MayTrans, At, Writes, Parent, IsAt
  <2>6. QED
    BY <2>2, <2>3, <2>4, <2>5, LockStep, Zenon
<1>3. CASE /\ t.elems = <<>> /\ Parent(t.call)
           /\ inode_put(p, t.ip, ic, fs, [t EXCEPT !.pc = "fail", !.ip = None])
           /\ UNCHANGED <<trans, cwd, fds>>
  <2> DEFINE u == [t EXCEPT !.pc = "fail", !.ip = None]
  <2>1. IsAt(u, "fail", t.call, t.elems, None, None, t.old) /\ inode_put(p, t.ip, ic, fs, u)
    BY <1>3, ZenonT(30) DEF Thread, PC, IsAt
  <2> HIDE DEF u
  <2> USE <1>3, <2>1
  <2>2. WellFormed(u) /\ u.pc # "free"
    BY Zenon DEF WellFormed, At, HasIp, HasDp, HasOld, PC, IsAt, Parent
  <2>3. Refs(p, u, t.ip, None)
    BY DEF Refs, Uses, One, IsAt
  <2>4. Locks(p, u, None, None)
    BY Zenon DEF Locks, Holds, Locked, At, IsAt
  <2>5. TransStep(p, u)
    BY Zenon DEF TransStep, InTrans, MayTrans, At, Writes, Parent, IsAt
  <2>6. QED
    BY <2>2, <2>3, <2>4, <2>5, ForgetStep, ZenonT(30)
<1>4. CASE /\ t.elems = <<>> /\ ~Parent(t.call) /\ th' = [th EXCEPT ![p].pc = "found"]
           /\ UNCHANGED <<fs, ic, trans, cwd, fds, panic>>
  <2> DEFINE u == [t EXCEPT !.pc = "found"]
  <2>1. IsAt(u, "found", t.call, t.elems, t.ip, None, t.old) /\ th' = [th EXCEPT ![p] = u]
    BY <1>4, ZenonT(30) DEF Thread, PC, IsAt
  <2> HIDE DEF u
  <2> USE <1>4, <2>1
  <2>2. WellFormed(u) /\ u.pc # "free"
    BY ZenonT(30) DEF WellFormed, At, HasIp, HasDp, HasOld, PC, IsAt, Parent
  <2>3. Refs(p, u, None, None)
    BY ZenonT(30) DEF Refs, Uses, One, IsAt
  <2>4. Locks(p, u, None, None)
    BY Zenon DEF Locks, Holds, Locked, At, IsAt
  <2>5. TransStep(p, u)
    BY Zenon DEF TransStep, InTrans, MayTrans, At, Writes, Parent, IsAt
  <2>6. QED
    BY <2>2, <2>3, <2>4, <2>5, MoveStep, ZenonT(30)
<1>5. QED
  BY <1>2, <1>3, <1>4, ZenonT(30) DEF namex

\* The body of the loop: the i-node is put, and the next one taken or not.
LEMMA NamexBodyKeeps ==
  ASSUME SysInv, Counting, panic = "none", NEW p \in Proc, namex_body(p), UNCHANGED work
  PROVE  SysInv'
<1> DEFINE t == th[p]
<1>1. /\ t \in Thread /\ t.pc = "walking" /\ At(t) = "walking" /\ t.vic = None /\ t.kont = "none"
      /\ t.ip \in Inum /\ t.dp = None /\ (t.old # None <=> t.call = "link2")
      /\ t.call # "none" /\ t.elems # <<>>
      /\ (InTrans(t) => trans = p) /\ (trans = p => MayTrans(t)) /\ p # NoProc /\ fs \in Inodes
  BY ProcFacts, ZenonT(30) DEF namex_body, WellFormed, HasIp, HasDp, HasOld, Thread, Parent
<1> USE <1>1, InumIsSome
<1> DEFINE sub == Lookup(t.ip, Head(t.elems))
<1>2. sub \in Inum \cup {None} /\ Tail(t.elems) \in Seq(Name \cup {".", ".."})
  BY ElemFacts, LookupType, Zenon DEF Thread
<1> USE <1>2
<1> HIDE DEF sub
<1>3. CASE /\ inode_unlockput(p, t.ip, ic, fs, [t EXCEPT !.pc = "fail", !.ip = None])
           /\ UNCHANGED <<trans, cwd, fds>>
  <2> DEFINE u == [t EXCEPT !.pc = "fail", !.ip = None]
  <2>1. IsAt(u, "fail", t.call, t.elems, None, None, t.old) /\ inode_unlockput(p, t.ip, ic, fs, u)
    BY <1>3, ZenonT(30) DEF Thread, PC, IsAt
  <2> HIDE DEF u
  <2> USE <1>3, <2>1
  <2>2. WellFormed(u) /\ u.pc # "free"
    BY Zenon DEF WellFormed, At, HasIp, HasDp, HasOld, PC, IsAt, Parent
  <2>3. Refs(p, u, t.ip, None)
    BY DEF Refs, Uses, One, IsAt
  <2>4. Locks(p, u, t.ip, None) /\ Holds(t, t.ip)
    BY Zenon DEF Locks, Holds, Locked, At, IsAt
  <2>5. TransStep(p, u)
    BY Zenon DEF TransStep, InTrans, MayTrans, At, Writes, Parent, IsAt
  <2>6. QED
    BY <2>2, <2>3, <2>4, <2>5, DropStep, Zenon
<1>4. CASE /\ Parent(t.call) /\ ic' = inode_unlock(ic, t.ip) /\ th' = [th EXCEPT ![p].pc = "found"]
           /\ UNCHANGED <<fs, panic, trans, cwd, fds>>
  <2> DEFINE u == [t EXCEPT !.pc = "found"]
  <2>1. IsAt(u, "found", t.call, t.elems, t.ip, None, t.old) /\ th' = [th EXCEPT ![p] = u]
    BY <1>4, ZenonT(30) DEF Thread, PC, IsAt
  <2> HIDE DEF u
  <2> USE <1>4, <2>1
  <2>2. WellFormed(u) /\ u.pc # "free"
    BY ZenonT(30) DEF WellFormed, At, HasIp, HasDp, HasOld, PC, IsAt, Parent
  <2>3. Refs(p, u, None, None)
    BY ZenonT(30) DEF Refs, Uses, One, IsAt
  <2>4. Locks(p, u, t.ip, None) /\ Holds(t, t.ip)
    BY ZenonT(30) DEF Locks, Holds, Locked, At, IsAt
  <2>5. TransStep(p, u)
    BY Zenon DEF TransStep, InTrans, MayTrans, At, Writes, Parent, IsAt
  <2>6. QED
    BY <2>2, <2>3, <2>4, <2>5, UnlockStep, ZenonT(30)
<1>5. CASE /\ sub # None /\ inode_unlockput(p, t.ip, inode_get(ic, sub), fs,
                              [t EXCEPT !.pc = "walk", !.ip = sub, !.elems = Tail(@)])
           /\ UNCHANGED <<trans, cwd, fds>>
  <2> DEFINE u == [t EXCEPT !.pc = "walk", !.ip = sub, !.elems = Tail(@)]
  <2>1. IsAt(u, "walk", t.call, Tail(t.elems), sub, None, t.old) /\ inode_unlockput(p, t.ip, inode_get(ic, sub), fs, u)
    BY <1>5, ZenonT(30) DEF Thread, PC, IsAt
  <2> HIDE DEF u
  <2> USE <1>5, <2>1
  <2>2. WellFormed(u) /\ u.pc # "free"
    BY Zenon DEF WellFormed, At, HasIp, HasDp, HasOld, PC, IsAt, Parent
  <2>3. Refs(p, u, t.ip, sub)
    BY DEF Refs, Uses, One, IsAt
  <2>4. Locks(p, u, t.ip, None) /\ Holds(t, t.ip)
    BY Zenon DEF Locks, Holds, Locked, At, IsAt
  <2>5. TransStep(p, u)
    BY ZenonT(30) DEF TransStep, InTrans, MayTrans, At, Writes, Parent, IsAt
  <2>6. QED
    BY <2>2, <2>3, <2>4, <2>5, HopStep, ZenonT(30)
<1>6. QED
  BY <1>3, <1>4, <1>5, ZenonT(30) DEF namex_body, sub

\* The calls that start with the path.
LEMMA WalkFirstKeeps ==
  ASSUME SysInv, Counting, panic = "none", NEW p \in Proc, NEW call, NEW path \in work.Path,
         sys_walk_first(p, call, path), UNCHANGED work
  PROVE  SysInv'
<1> DEFINE t == th[p]
<1>1. /\ t \in Thread /\ t.pc = "idle" /\ At(t) = "idle" /\ t.vic = None /\ t.kont = "none"
      /\ t.ip = None /\ t.dp = None /\ t.old = None
      /\ (InTrans(t) => trans = p) /\ (trans = p => MayTrans(t)) /\ p # NoProc /\ fs \in Inodes
  BY ProcFacts, ZenonT(30) DEF sys_walk_first, Begins, WellFormed, HasIp, HasDp, HasOld, Thread, Parent
<1> USE <1>1, InumIsSome
<1> DEFINE i == Start(p, path)
<1>2. i \in Inum /\ path.elems \in Seq(Name \cup {".", ".."})
  BY StartType, ZenonT(30)
<1> USE <1>2
<1>3. CASE /\ call \in {"open", "chdir", "unlink", "link"} /\ ic' = inode_get(ic, i)
           /\ th' = [th EXCEPT ![p] = Walk(p, call, path, Idle)]
           /\ UNCHANGED <<fs, trans, cwd, fds, panic>>
  <2> DEFINE u == [Idle EXCEPT !.pc = "walk", !.call = call, !.elems = path.elems, !.ip = i]
  <2>1. IsAt(u, "walk", call, path.elems, i, None, None) /\ th' = [th EXCEPT ![p] = u]
    BY <1>3, IdleAt, ZenonT(30) DEF Thread, PC, IsAt, Walk
  <2> HIDE DEF u
  <2> USE <1>3, <2>1
  <2>2. WellFormed(u) /\ u.pc # "free"
    BY ZenonT(30) DEF WellFormed, At, HasIp, HasDp, HasOld, PC, IsAt, Parent
  <2>3. Refs(p, u, None, i)
    BY SMTT(30) DEF Refs, Uses, One, IsAt
  <2>4. Locks(p, u, None, None)
    BY ZenonT(30) DEF Locks, Holds, Locked, At, IsAt
  <2>5. TransStep(p, u)
    BY ZenonT(30) DEF TransStep, InTrans, MayTrans, At, Writes, Parent, IsAt
  <2>6. QED
    BY <2>2, <2>3, <2>4, <2>5, GetStep, ZenonT(30)
<1>4. QED
  BY <1>3, Zenon DEF sys_walk_first

\* The calls that start with begin_trans.
LEMMA CreateFirstKeeps ==
  ASSUME SysInv, Counting, panic = "none", NEW p \in Proc, NEW call, NEW path \in work.Path,
         sys_create_first(p, call, path), UNCHANGED work
  PROVE  SysInv'
<1> DEFINE t == th[p]
<1>1. /\ t \in Thread /\ t.pc = "idle" /\ At(t) = "idle" /\ t.vic = None /\ t.kont = "none"
      /\ t.ip = None /\ t.dp = None /\ t.old = None
      /\ (InTrans(t) => trans = p) /\ (trans = p => MayTrans(t)) /\ p # NoProc /\ fs \in Inodes
  BY ProcFacts, ZenonT(30) DEF sys_create_first, Begins, WellFormed, HasIp, HasDp, HasOld, Thread, Parent
<1> USE <1>1, InumIsSome
<1> DEFINE i == Start(p, path)
<1>2. i \in Inum /\ path.elems \in Seq(Name \cup {".", ".."})
  BY StartType, ZenonT(30)
<1> USE <1>2
<1>3. CASE /\ call \in {"create", "mkdir"} /\ ic' = inode_get(ic, i)
           /\ th' = [th EXCEPT ![p] = Walk(p, call, path, Idle)]
           /\ trans = NoProc /\ trans' = p /\ UNCHANGED <<fs, cwd, fds, panic>>
  <2> DEFINE u == [Idle EXCEPT !.pc = "walk", !.call = call, !.elems = path.elems, !.ip = i]
  <2>1. IsAt(u, "walk", call, path.elems, i, None, None) /\ th' = [th EXCEPT ![p] = u]
    BY <1>3, IdleAt, ZenonT(30) DEF Thread, PC, IsAt, Walk
  <2> HIDE DEF u
  <2> USE <1>3, <2>1
  <2>2. WellFormed(u) /\ u.pc # "free"
    BY ZenonT(30) DEF WellFormed, At, HasIp, HasDp, HasOld, PC, IsAt, Parent
  <2>3. Refs(p, u, None, i)
    BY SMTT(30) DEF Refs, Uses, One, IsAt
  <2>4. Locks(p, u, None, None)
    BY ZenonT(30) DEF Locks, Holds, Locked, At, IsAt
  <2>5. TransStep(p, u)
    BY ZenonT(30) DEF TransStep, InTrans, MayTrans, At, Writes, Parent, IsAt
  <2>6. QED
    BY <2>2, <2>3, <2>4, <2>5, GetStep, ZenonT(30)
<1>4. QED
  BY <1>3, ZenonT(30) DEF sys_create_first

\* The calls after a namex that has found nothing.
LEMMA FailedKeeps ==
  ASSUME SysInv, Counting, panic = "none", NEW p \in Proc, failed(p), UNCHANGED work
  PROVE  SysInv'
<1> DEFINE t == th[p]
<1>1. /\ t \in Thread /\ t.pc = "fail" /\ At(t) = "fail" /\ t.vic = None /\ t.kont = "none"
      /\ t.ip = None /\ t.dp = None /\ (t.old # None <=> t.call = "link2")
      /\ t.call # "none"
      /\ (InTrans(t) => trans = p) /\ (trans = p => MayTrans(t)) /\ p # NoProc /\ fs \in Inodes
  BY ProcFacts, ZenonT(30) DEF failed, WellFormed, HasIp, HasDp, HasOld, Thread, Parent
<1> USE <1>1, InumIsSome
<1>2. CASE t.call \in {"create", "mkdir"} /\ UNCHANGED <<fs, ic, trans, cwd, fds, panic>>
           /\ th' = [th EXCEPT ![p] = [t EXCEPT !.pc = "commit"]]
  <2> DEFINE u == [t EXCEPT !.pc = "commit"]
  <2>1. IsAt(u, "commit", t.call, t.elems, None, None, t.old) /\ th' = [th EXCEPT ![p] = u]
    BY <1>2, IdleAt, ZenonT(30) DEF Thread, PC, IsAt
  <2> HIDE DEF u
  <2> USE <1>2, <2>1
  <2>2. WellFormed(u) /\ u.pc # "free"
    BY Zenon DEF WellFormed, At, HasIp, HasDp, HasOld, PC, IsAt, Parent
  <2>3. Refs(p, u, None, None)
    BY ZenonT(30) DEF Refs, Uses, One, IsAt
  <2>4. Locks(p, u, None, None)
    BY ZenonT(30) DEF Locks, Holds, Locked, At, IsAt
  <2>5. TransStep(p, u)
    BY Zenon DEF TransStep, InTrans, MayTrans, At, Writes, Parent, IsAt
  <2>6. QED
    BY <2>2, <2>3, <2>4, <2>5, MoveStep, ZenonT(30)
<1>3. CASE t.call = "link2" /\ UNCHANGED <<fs, ic, trans, cwd, fds, panic>>
           /\ th' = [th EXCEPT ![p] = [t EXCEPT !.pc = "undo"]]
  <2> DEFINE u == [t EXCEPT !.pc = "undo"]
  <2>1. IsAt(u, "undo", t.call, t.elems, None, None, t.old) /\ th' = [th EXCEPT ![p] = u]
    BY <1>3, IdleAt, ZenonT(30) DEF Thread, PC, IsAt
  <2> HIDE DEF u
  <2> USE <1>3, <2>1
  <2>2. WellFormed(u) /\ u.pc # "free"
    BY Zenon DEF WellFormed, At, HasIp, HasDp, HasOld, PC, IsAt, Parent
  <2>3. Refs(p, u, None, None)
    BY ZenonT(30) DEF Refs, Uses, One, IsAt
  <2>4. Locks(p, u, None, None)
    BY ZenonT(30) DEF Locks, Holds, Locked, At, IsAt
  <2>5. TransStep(p, u)
    BY ZenonT(30) DEF TransStep, InTrans, MayTrans, At, Writes, Parent, IsAt
  <2>6. QED
    BY <2>2, <2>3, <2>4, <2>5, MoveStep, ZenonT(30)
<1>4. CASE t.call \notin {"create", "mkdir", "link2"} /\ UNCHANGED <<fs, ic, trans, cwd, fds, panic>>
           /\ th' = [th EXCEPT ![p] = Idle]
  <2> DEFINE u == Idle
  <2>1. IsAt(u, "idle", "none", <<>>, None, None, None) /\ th' = [th EXCEPT ![p] = u]
    BY <1>4, IdleAt, ZenonT(30) DEF Thread, PC, IsAt
  <2> HIDE DEF u
  <2> USE <1>4, <2>1
  <2>2. WellFormed(u) /\ u.pc # "free"
    BY ZenonT(30) DEF WellFormed, At, HasIp, HasDp, HasOld, PC, IsAt, Parent
  <2>3. Refs(p, u, None, None)
    BY ZenonT(30) DEF Refs, Uses, One, IsAt
  <2>4. Locks(p, u, None, None)
    BY ZenonT(30) DEF Locks, Holds, Locked, At, IsAt
  <2>5. TransStep(p, u)
    BY ZenonT(30) DEF TransStep, InTrans, MayTrans, At, Writes, Parent, IsAt
  <2>6. QED
    BY <2>2, <2>3, <2>4, <2>5, MoveStep, ZenonT(30)
<1>5. QED
  BY <1>2, <1>3, <1>4, ZenonT(30) DEF failed

\* inode_lock of what namex has found.
LEMMA FoundLockKeeps ==
  ASSUME SysInv, Counting, panic = "none", NEW p \in Proc, found_lock(p), UNCHANGED work
  PROVE  SysInv'
<1> DEFINE t == th[p]
<1>1. /\ t \in Thread /\ t.pc = "found" /\ At(t) = "found" /\ t.vic = None /\ t.kont = "none"
      /\ t.ip \in Inum /\ t.dp = None /\ (t.old # None <=> t.call = "link2")
      /\ t.call # "none" /\ (Parent(t.call) => t.elems # <<>>)
      /\ (InTrans(t) => trans = p) /\ (trans = p => MayTrans(t)) /\ p # NoProc /\ fs \in Inodes
  BY ProcFacts, ZenonT(30) DEF found_lock, WellFormed, HasIp, HasDp, HasOld, Thread, Parent
<1> USE <1>1, InumIsSome
<1>2. CASE /\ t.call \in {"unlink", "link"} => trans = p
           /\ inode_lock(p, t.ip, [t EXCEPT !.pc = "locked"])
  <2> DEFINE u == [t EXCEPT !.pc = "locked"]
  <2>1. IsAt(u, "locked", t.call, t.elems, t.ip, None, t.old) /\ inode_lock(p, t.ip, u)
    BY <1>2, ZenonT(30) DEF Thread, PC, IsAt
  <2> HIDE DEF u
  <2> USE <1>2, <2>1
  <2>2. WellFormed(u) /\ u.pc # "free"
    BY Zenon DEF WellFormed, At, HasIp, HasDp, HasOld, PC, IsAt, Parent
  <2>3. Refs(p, u, None, None)
    BY ZenonT(30) DEF Refs, Uses, One, IsAt
  <2>4. Locks(p, u, None, t.ip)
    BY ZenonT(30) DEF Locks, Holds, Locked, At, IsAt
  <2>5. (InTrans(u) => trans = p) /\ (trans = p => MayTrans(u))
    BY ZenonT(30) DEF InTrans, MayTrans, At, Writes, Parent, IsAt, Thread
  <2>6. QED
    BY <2>2, <2>3, <2>4, <2>5, LockStep, Zenon
<1>3. QED
  BY <1>2, Zenon DEF found_lock

\* commit_trans: the transaction ends, and the call unless sys_open goes on.
LEMMA CommitTransKeeps ==
  ASSUME SysInv, Counting, panic = "none", NEW p \in Proc, commit_trans(p), UNCHANGED work
  PROVE  SysInv'
<1> DEFINE t == th[p]
<1>1. /\ t \in Thread /\ t.pc = "commit" /\ At(t) = "commit" /\ t.vic = None /\ t.kont = "none"
      /\ t.ip \in Inum \cup {None} /\ t.dp = None /\ t.old = None
      /\ t.ip # None => t.call = "create"
      /\ (InTrans(t) => trans = p) /\ (trans = p => MayTrans(t)) /\ p # NoProc /\ fs \in Inodes
  BY ProcFacts, ZenonT(30) DEF commit_trans, WellFormed, HasIp, HasDp, HasOld, Thread, Parent
<1> USE <1>1, InumIsSome
<1>2. CASE /\ t.ip # None /\ th' = [th EXCEPT ![p] = [t EXCEPT !.pc = "locked", !.call = "open"]]
           /\ trans' = NoProc /\ UNCHANGED <<fs, ic, cwd, fds, panic>>
  <2> DEFINE u == [t EXCEPT !.pc = "locked", !.call = "open"]
  <2>1. IsAt(u, "locked", "open", t.elems, t.ip, None, None) /\ th' = [th EXCEPT ![p] = u]
    BY <1>2, ZenonT(30) DEF Thread, PC, IsAt
  <2> HIDE DEF u
  <2> USE <1>2, <2>1
  <2>2. WellFormed(u) /\ u.pc # "free"
    BY Zenon DEF WellFormed, At, HasIp, HasDp, HasOld, PC, IsAt, Parent
  <2>3. Refs(p, u, None, None)
    BY ZenonT(30) DEF Refs, Uses, One, IsAt
  <2>4. Locks(p, u, None, None)
    BY ZenonT(30) DEF Locks, Holds, Locked, At, IsAt
  <2>5. TransStep(p, u)
    BY Zenon DEF TransStep, InTrans, MayTrans, At, Writes, Parent, IsAt
  <2>6. QED
    BY <2>2, <2>3, <2>4, <2>5, MoveStep, ZenonT(30)
<1>3. CASE /\ t.ip = None /\ th' = [th EXCEPT ![p] = Idle]
           /\ trans' = NoProc /\ UNCHANGED <<fs, ic, cwd, fds, panic>>
  <2> DEFINE u == Idle
  <2>1. IsAt(u, "idle", "none", <<>>, None, None, None) /\ th' = [th EXCEPT ![p] = u]
    BY <1>3, IdleAt, ZenonT(30) DEF Thread, PC, IsAt
  <2> HIDE DEF u
  <2> USE <1>3, <2>1
  <2>2. WellFormed(u) /\ u.pc # "free"
    BY ZenonT(30) DEF WellFormed, At, HasIp, HasDp, HasOld, PC, IsAt, Parent
  <2>3. Refs(p, u, None, None)
    BY ZenonT(30) DEF Refs, Uses, One, IsAt
  <2>4. Locks(p, u, None, None)
    BY ZenonT(30) DEF Locks, Holds, Locked, At, IsAt
  <2>5. TransStep(p, u)
    BY Zenon DEF TransStep, InTrans, MayTrans, At, Writes, Parent, IsAt
  <2>6. QED
    BY <2>2, <2>3, <2>4, <2>5, MoveStep, ZenonT(30)
<1>4. QED
  BY <1>2, <1>3, ZenonT(30) DEF commit_trans

\* file_close: begin_trans, and inode_put of the file's i-node.
LEMMA FileCloseKeeps ==
  ASSUME SysInv, Counting, panic = "none", NEW p \in Proc, file_close(p), UNCHANGED work
  PROVE  SysInv'
<1> DEFINE t == th[p]
<1>1. /\ t \in Thread /\ t.pc = "close" /\ At(t) = "close" /\ t.vic = None /\ t.kont = "none"
      /\ t.ip \in Inum /\ t.dp = None /\ t.old = None
      /\ (InTrans(t) => trans = p) /\ (trans = p => MayTrans(t)) /\ p # NoProc /\ fs \in Inodes
  BY ProcFacts, ZenonT(30) DEF file_close, WellFormed, HasIp, HasDp, HasOld, Thread, Parent
<1> USE <1>1, InumIsSome
<1>2. CASE /\ trans = NoProc /\ trans' = p /\ UNCHANGED <<cwd, fds>>
           /\ inode_put(p, t.ip, ic, fs, [Idle EXCEPT !.pc = "commit"])
  <2> DEFINE u == [Idle EXCEPT !.pc = "commit"]
  <2>1. IsAt(u, "commit", "none", <<>>, None, None, None) /\ inode_put(p, t.ip, ic, fs, u)
    BY <1>2, IdleAt, ZenonT(30) DEF Thread, PC, IsAt
  <2> HIDE DEF u
  <2> USE <1>2, <2>1
  <2>2. WellFormed(u) /\ u.pc # "free"
    BY Zenon DEF WellFormed, At, HasIp, HasDp, HasOld, PC, IsAt, Parent
  <2>3. Refs(p, u, t.ip, None)
    BY DEF Refs, Uses, One, IsAt
  <2>4. Locks(p, u, None, None)
    BY Zenon DEF Locks, Holds, Locked, At, IsAt
  <2>5. TransStep(p, u)
    BY Zenon DEF TransStep, InTrans, MayTrans, At, Writes, Parent, IsAt
  <2>6. QED
    BY <2>2, <2>3, <2>4, <2>5, ForgetStep, Zenon
<1>3. QED
  BY <1>2, Zenon DEF file_close

\* create locks the i-node that is there,
LEMMA LockExistingKeeps ==
  ASSUME SysInv, Counting, panic = "none", NEW p \in Proc, create_lock_existing(p), UNCHANGED work
  PROVE  SysInv'
<1> DEFINE t == th[p]
<1>1. /\ t \in Thread /\ t.pc = "exists" /\ At(t) = "exists" /\ t.vic = None /\ t.kont = "none"
      /\ t.ip \in Inum /\ t.dp = None /\ t.old = None
      /\ t.call \in {"create", "mkdir"}
      /\ (InTrans(t) => trans = p) /\ (trans = p => MayTrans(t)) /\ p # NoProc /\ fs \in Inodes
  BY ProcFacts, ZenonT(30) DEF create_lock_existing, WellFormed, HasIp, HasDp, HasOld, Thread, Parent
<1> USE <1>1, InumIsSome
<1>2. CASE inode_lock(p, t.ip, [t EXCEPT !.pc = "existing"])
  <2> DEFINE u == [t EXCEPT !.pc = "existing"]
  <2>1. IsAt(u, "existing", t.call, t.elems, t.ip, None, None) /\ inode_lock(p, t.ip, u)
    BY <1>2, ZenonT(30) DEF Thread, PC, IsAt
  <2> HIDE DEF u
  <2> USE <1>2, <2>1
  <2>2. WellFormed(u) /\ u.pc # "free"
    BY Zenon DEF WellFormed, At, HasIp, HasDp, HasOld, PC, IsAt, Parent
  <2>3. Refs(p, u, None, None)
    BY ZenonT(30) DEF Refs, Uses, One, IsAt
  <2>4. Locks(p, u, None, t.ip)
    BY ZenonT(30) DEF Locks, Holds, Locked, At, IsAt
  <2>5. (InTrans(u) => trans = p) /\ (trans = p => MayTrans(u))
    BY Zenon DEF InTrans, MayTrans, At, Writes, Parent, IsAt
  <2>6. QED
    BY <2>2, <2>3, <2>4, <2>5, LockStep, Zenon
<1>3. QED
  BY <1>2, Zenon DEF create_lock_existing

\* and returns it or puts it.
LEMMA ExistingKeeps ==
  ASSUME SysInv, Counting, panic = "none", NEW p \in Proc, create_existing(p), UNCHANGED work
  PROVE  SysInv'
<1> DEFINE t == th[p]
<1>1. /\ t \in Thread /\ t.pc = "existing" /\ At(t) = "existing" /\ t.vic = None /\ t.kont = "none"
      /\ t.ip \in Inum /\ t.dp = None /\ t.old = None
      /\ t.call \in {"create", "mkdir"}
      /\ (InTrans(t) => trans = p) /\ (trans = p => MayTrans(t)) /\ p # NoProc /\ fs \in Inodes
  BY ProcFacts, ZenonT(30) DEF create_existing, WellFormed, HasIp, HasDp, HasOld, Thread, Parent
<1> USE <1>1, InumIsSome
<1>2. CASE /\ t.call = "create" /\ th' = [th EXCEPT ![p].pc = "commit"]
           /\ UNCHANGED <<fs, ic, panic, trans, cwd, fds>>
  <2> DEFINE u == [t EXCEPT !.pc = "commit"]
  <2>1. IsAt(u, "commit", t.call, t.elems, t.ip, None, None) /\ th' = [th EXCEPT ![p] = u]
    BY <1>2, Zenon DEF Thread, PC, IsAt
  <2> HIDE DEF u
  <2> USE <1>2, <2>1
  <2>2. WellFormed(u) /\ u.pc # "free"
    BY Zenon DEF WellFormed, At, HasIp, HasDp, HasOld, PC, IsAt, Parent
  <2>3. Refs(p, u, None, None)
    BY ZenonT(30) DEF Refs, Uses, One, IsAt
  <2>4. Locks(p, u, None, None)
    BY ZenonT(30) DEF Locks, Holds, Locked, At, IsAt
  <2>5. TransStep(p, u)
    BY Zenon DEF TransStep, InTrans, MayTrans, At, Writes, Parent, IsAt
  <2>6. QED
    BY <2>2, <2>3, <2>4, <2>5, MoveStep, ZenonT(30)
<1>3. CASE /\ inode_unlockput(p, t.ip, ic, fs, [t EXCEPT !.pc = "commit", !.ip = None])
           /\ UNCHANGED <<trans, cwd, fds>>
  <2> DEFINE u == [t EXCEPT !.pc = "commit", !.ip = None]
  <2>1. IsAt(u, "commit", t.call, t.elems, None, None, None) /\ inode_unlockput(p, t.ip, ic, fs, u)
    BY <1>3, ZenonT(30) DEF Thread, PC, IsAt
  <2> HIDE DEF u
  <2> USE <1>3, <2>1
  <2>2. WellFormed(u) /\ u.pc # "free"
    BY Zenon DEF WellFormed, At, HasIp, HasDp, HasOld, PC, IsAt, Parent
  <2>3. Refs(p, u, t.ip, None)
    BY DEF Refs, Uses, One, IsAt
  <2>4. Locks(p, u, t.ip, None) /\ Holds(t, t.ip)
    BY Zenon DEF Locks, Holds, Locked, At, IsAt
  <2>5. TransStep(p, u)
    BY Zenon DEF TransStep, InTrans, MayTrans, At, Writes, Parent, IsAt
  <2>6. QED
    BY <2>2, <2>3, <2>4, <2>5, DropStep, ZenonT(30)
<1>4. QED
  BY <1>2, <1>3, ZenonT(30) DEF create_existing

\* create returns the new i-node, and sys_mkdir puts it.
LEMMA CreatedKeeps ==
  ASSUME SysInv, Counting, panic = "none", NEW p \in Proc, created(p), UNCHANGED work
  PROVE  SysInv'
<1> DEFINE t == th[p]
<1>1. /\ t \in Thread /\ t.pc = "created" /\ At(t) = "created" /\ t.vic = None /\ t.kont = "none"
      /\ t.ip \in Inum /\ t.dp = None /\ t.old = None
      /\ t.call \in {"create", "mkdir"}
      /\ (InTrans(t) => trans = p) /\ (trans = p => MayTrans(t)) /\ p # NoProc /\ fs \in Inodes
  BY ProcFacts, ZenonT(30) DEF created, WellFormed, HasIp, HasDp, HasOld, Thread, Parent
<1> USE <1>1, InumIsSome
<1>2. CASE /\ t.call = "create" /\ th' = [th EXCEPT ![p].pc = "commit"]
           /\ UNCHANGED <<fs, ic, panic, trans, cwd, fds>>
  <2> DEFINE u == [t EXCEPT !.pc = "commit"]
  <2>1. IsAt(u, "commit", t.call, t.elems, t.ip, None, None) /\ th' = [th EXCEPT ![p] = u]
    BY <1>2, ZenonT(30) DEF Thread, PC, IsAt
  <2> HIDE DEF u
  <2> USE <1>2, <2>1
  <2>2. WellFormed(u) /\ u.pc # "free"
    BY Zenon DEF WellFormed, At, HasIp, HasDp, HasOld, PC, IsAt, Parent
  <2>3. Refs(p, u, None, None)
    BY ZenonT(30) DEF Refs, Uses, One, IsAt
  <2>4. Locks(p, u, None, None)
    BY ZenonT(30) DEF Locks, Holds, Locked, At, IsAt
  <2>5. TransStep(p, u)
    BY Zenon DEF TransStep, InTrans, MayTrans, At, Writes, Parent, IsAt
  <2>6. QED
    BY <2>2, <2>3, <2>4, <2>5, MoveStep, ZenonT(30)
<1>3. CASE /\ inode_unlockput(p, t.ip, ic, fs, [t EXCEPT !.pc = "commit", !.ip = None])
           /\ UNCHANGED <<trans, cwd, fds>>
  <2> DEFINE u == [t EXCEPT !.pc = "commit", !.ip = None]
  <2>1. IsAt(u, "commit", t.call, t.elems, None, None, None) /\ inode_unlockput(p, t.ip, ic, fs, u)
    BY <1>3, ZenonT(30) DEF Thread, PC, IsAt
  <2> HIDE DEF u
  <2> USE <1>3, <2>1
  <2>2. WellFormed(u) /\ u.pc # "free"
    BY Zenon DEF WellFormed, At, HasIp, HasDp, HasOld, PC, IsAt, Parent
  <2>3. Refs(p, u, t.ip, None)
    BY DEF Refs, Uses, One, IsAt
  <2>4. Locks(p, u, t.ip, None) /\ Holds(t, t.ip)
    BY Zenon DEF Locks, Holds, Locked, At, IsAt
  <2>5. TransStep(p, u)
    BY Zenon DEF TransStep, InTrans, MayTrans, At, Writes, Parent, IsAt
  <2>6. QED
    BY <2>2, <2>3, <2>4, <2>5, DropStep, ZenonT(30)
<1>4. QED
  BY <1>2, <1>3, Zenon DEF created

\* sys_unlink gets the i-node of the name, with the parent locked,
LEMMA UnlinkKeeps ==
  ASSUME SysInv, Counting, panic = "none", NEW p \in Proc, sys_unlink(p), UNCHANGED work
  PROVE  SysInv'
<1> DEFINE t == th[p]
<1>1. /\ t \in Thread /\ t.pc = "locked" /\ At(t) = "locked" /\ t.vic = None /\ t.kont = "none"
      /\ t.ip \in Inum /\ t.dp = None /\ t.old = None
      /\ t.call = "unlink" /\ t.elems # <<>>
      /\ (InTrans(t) => trans = p) /\ (trans = p => MayTrans(t)) /\ p # NoProc /\ fs \in Inodes
  BY ProcFacts DEF sys_unlink, WellFormed, HasIp, HasDp, HasOld, Thread, Parent
<1> USE <1>1, InumIsSome
<1> DEFINE e == Lookup(t.ip, Head(t.elems))
<1>2. e \in Inum \cup {None}
  BY ElemFacts, LookupType, Zenon DEF Thread
<1> USE <1>2
<1> HIDE DEF e
<1>3. CASE /\ inode_unlockput(p, t.ip, ic, fs, [t EXCEPT !.pc = "commit", !.ip = None])
           /\ UNCHANGED <<trans, cwd, fds>>
  <2> DEFINE u == [t EXCEPT !.pc = "commit", !.ip = None]
  <2>1. IsAt(u, "commit", t.call, t.elems, None, None, None) /\ inode_unlockput(p, t.ip, ic, fs, u)
    BY <1>3, ZenonT(30) DEF Thread, PC, IsAt
  <2> HIDE DEF u
  <2> USE <1>3, <2>1
  <2>2. WellFormed(u) /\ u.pc # "free"
    BY Zenon DEF WellFormed, At, HasIp, HasDp, HasOld, PC, IsAt, Parent
  <2>3. Refs(p, u, t.ip, None)
    BY DEF Refs, Uses, One, IsAt
  <2>4. Locks(p, u, t.ip, None) /\ Holds(t, t.ip)
    BY Zenon DEF Locks, Holds, Locked, At, IsAt
  <2>5. TransStep(p, u)
    BY Zenon DEF TransStep, InTrans, MayTrans, At, Writes, Parent, IsAt
  <2>6. QED
    BY <2>2, <2>3, <2>4, <2>5, DropStep, Zenon
<1>4. CASE /\ e # None /\ ic' = inode_get(ic, e) /\ th' = [th EXCEPT ![p] = [t EXCEPT !.pc = "victim", !.dp = t.ip, !.ip = e]]
           /\ UNCHANGED <<fs, panic, trans, cwd, fds>>
  <2> DEFINE u == [t EXCEPT !.pc = "victim", !.dp = t.ip, !.ip = e]
  <2>1. IsAt(u, "victim", t.call, t.elems, e, t.ip, None) /\ th' = [th EXCEPT ![p] = u]
    BY <1>4, ZenonT(30) DEF Thread, PC, IsAt
  <2> HIDE DEF u
  <2> USE <1>4, <2>1
  <2>2. WellFormed(u) /\ u.pc # "free"
    BY Zenon DEF WellFormed, At, HasIp, HasDp, HasOld, PC, IsAt, Parent
  <2>3. Refs(p, u, None, e)
    BY DEF Refs, Uses, One, IsAt
  <2>4. Locks(p, u, None, None)
    BY ZenonT(30) DEF Locks, Holds, Locked, At, IsAt
  <2>5. TransStep(p, u)
    BY Zenon DEF TransStep, InTrans, MayTrans, At, Writes, Parent, IsAt
  <2>6. QED
    BY <2>2, <2>3, <2>4, <2>5, GetStep, ZenonT(30)
<1>5. QED
  BY <1>3, <1>4, ZenonT(30) DEF sys_unlink, e

\* locks it,
LEMMA UnlinkLockKeeps ==
  ASSUME SysInv, Counting, panic = "none", NEW p \in Proc, unlink_lock(p), UNCHANGED work
  PROVE  SysInv'
<1> DEFINE t == th[p]
<1>1. /\ t \in Thread /\ t.pc = "victim" /\ At(t) = "victim" /\ t.vic = None /\ t.kont = "none"
      /\ t.ip \in Inum /\ t.dp \in Inum /\ t.old = None
      /\ t.elems # <<>>
      /\ (InTrans(t) => trans = p) /\ (trans = p => MayTrans(t)) /\ p # NoProc /\ fs \in Inodes
  BY ProcFacts, SMTT(30) DEF unlink_lock, WellFormed, HasIp, HasDp, HasOld, Thread, Parent
<1> USE <1>1, InumIsSome
<1>2. t.ip # t.dp
  BY ProcFacts, InumIsSome DEF unlink_lock, inode_lock, Holds, Locked
<1> USE <1>2
<1>3. CASE inode_lock(p, t.ip, [t EXCEPT !.pc = "unlinking"])
  <2> DEFINE u == [t EXCEPT !.pc = "unlinking"]
  <2>1. IsAt(u, "unlinking", t.call, t.elems, t.ip, t.dp, None) /\ inode_lock(p, t.ip, u)
    BY <1>3, Zenon DEF Thread, PC, IsAt
  <2> HIDE DEF u
  <2> USE <1>3, <2>1
  <2>2. WellFormed(u) /\ u.pc # "free"
    BY Zenon DEF WellFormed, At, HasIp, HasDp, HasOld, PC, IsAt, Parent
  <2>3. Refs(p, u, None, None)
    BY ZenonT(30) DEF Refs, Uses, One, IsAt
  <2>4. Locks(p, u, None, t.ip)
    BY Zenon DEF Locks, Holds, Locked, At, IsAt
  <2>5. (InTrans(u) => trans = p) /\ (trans = p => MayTrans(u))
    BY Zenon DEF InTrans, MayTrans, At, Writes, Parent, IsAt
  <2>6. QED
    BY <2>2, <2>3, <2>4, <2>5, LockStep, Zenon
<1>4. QED
  BY <1>3, Zenon DEF unlink_lock

\* clears the entry and puts the parent, or gives up the i-node,
LEMMA UnlinkEntryKeeps ==
  ASSUME SysInv, Counting, panic = "none", NEW p \in Proc, unlink_entry(p), UNCHANGED work
  PROVE  SysInv'
<1> DEFINE t == th[p]
<1>1. /\ t \in Thread /\ t.pc = "unlinking" /\ At(t) = "unlinking" /\ t.vic = None /\ t.kont = "none"
      /\ t.ip \in Inum /\ t.dp \in Inum /\ t.old = None
      /\ t.elems # <<>> /\ t.ip # t.dp
      /\ (InTrans(t) => trans = p) /\ (trans = p => MayTrans(t)) /\ p # NoProc /\ fs \in Inodes
  BY ProcFacts, SMTT(30) DEF unlink_entry, WellFormed, HasIp, HasDp, HasOld, Thread, Parent
<1> USE <1>1, InumIsSome
<1>2. CASE Panic("unlink:nlink<1")
  BY <1>2, PanicStep, Zenon DEF Panic
<1>3. CASE /\ inode_unlockput(p, t.ip, ic, fs, [t EXCEPT !.pc = "unlink_bad", !.ip = None])
           /\ UNCHANGED <<trans, cwd, fds>>
  <2> DEFINE u == [t EXCEPT !.pc = "unlink_bad", !.ip = None]
  <2>1. IsAt(u, "unlink_bad", t.call, t.elems, None, t.dp, None) /\ inode_unlockput(p, t.ip, ic, fs, u)
    BY <1>3, ZenonT(30) DEF Thread, PC, IsAt
  <2> HIDE DEF u
  <2> USE <1>3, <2>1
  <2>2. WellFormed(u) /\ u.pc # "free"
    BY Zenon DEF WellFormed, At, HasIp, HasDp, HasOld, PC, IsAt, Parent
  <2>3. Refs(p, u, t.ip, None)
    BY DEF Refs, Uses, One, IsAt
  <2>4. Locks(p, u, t.ip, None) /\ Holds(t, t.ip)
    BY Zenon DEF Locks, Holds, Locked, At, IsAt
  <2>5. TransStep(p, u)
    BY Zenon DEF TransStep, InTrans, MayTrans, At, Writes, Parent, IsAt
  <2>6. QED
    BY <2>2, <2>3, <2>4, <2>5, DropStep, Zenon
<1> DEFINE f == [fs EXCEPT !.ent[t.dp][Head(t.elems)] = None,
                           !.nlink[t.dp] = IF fs.type[t.ip] = "dir" THEN @ - 1 ELSE @]
<1>4. f \in Inodes /\ f.type = fs.type
  <2> DEFINE g == dir_link(fs, t.dp, Head(t.elems), None)
             k == IF fs.type[t.ip] = "dir" THEN fs.nlink[t.dp] - 1 ELSE fs.nlink[t.dp]
  <2>1. g \in Inodes /\ g.type = fs.type /\ g.nlink = fs.nlink
    BY SetEnt
  <2>2. fs.nlink[t.dp] \in Int
    BY Zenon DEF Inodes
  <2>3. f = [g EXCEPT !.nlink[t.dp] = k]
    BY Zenon DEF dir_link, Inodes
  <2>4. k \in Int
    BY <2>2
  <2> HIDE DEF f, g, k
  <2>5. QED
    BY <2>1, <2>3, <2>4, SetNlink, ZenonT(30)
<1> USE <1>4
<1> HIDE DEF f
<1>5. CASE /\ inode_unlockput(p, t.dp, ic, f, [t EXCEPT !.pc = "unlinked", !.dp = None])
           /\ UNCHANGED <<trans, cwd, fds>>
  <2> DEFINE u == [t EXCEPT !.pc = "unlinked", !.dp = None]
  <2>1. IsAt(u, "unlinked", t.call, t.elems, t.ip, None, None) /\ inode_unlockput(p, t.dp, ic, f, u)
    BY <1>5, ZenonT(30) DEF Thread, PC, IsAt
  <2> HIDE DEF u
  <2> USE <1>5, <2>1
  <2>2. WellFormed(u) /\ u.pc # "free"
    BY Zenon DEF WellFormed, At, HasIp, HasDp, HasOld, PC, IsAt, Parent
  <2>3. Refs(p, u, t.dp, None)
    BY DEF Refs, Uses, One, IsAt
  <2>4. Locks(p, u, t.dp, None) /\ Holds(t, t.dp)
    BY Zenon DEF Locks, Holds, Locked, At, IsAt
  <2>5. TransStep(p, u)
    BY Zenon DEF TransStep, InTrans, MayTrans, At, Writes, Parent, IsAt
  <2>6. QED
    BY <2>2, <2>3, <2>4, <2>5, DropStep, Zenon
<1>6. QED
  BY <1>2, <1>3, <1>5, ZenonT(30) DEF unlink_entry, f

\* then puts the parent,
LEMMA UnlinkBadKeeps ==
  ASSUME SysInv, Counting, panic = "none", NEW p \in Proc, unlink_bad(p), UNCHANGED work
  PROVE  SysInv'
<1> DEFINE t == th[p]
<1>1. /\ t \in Thread /\ t.pc = "unlink_bad" /\ At(t) = "unlink_bad" /\ t.vic = None /\ t.kont = "none"
      /\ t.ip = None /\ t.dp \in Inum /\ t.old = None
      /\ (InTrans(t) => trans = p) /\ (trans = p => MayTrans(t)) /\ p # NoProc /\ fs \in Inodes
  BY ProcFacts, ZenonT(30) DEF unlink_bad, WellFormed, HasIp, HasDp, HasOld, Thread, Parent
<1> USE <1>1, InumIsSome
<1>2. CASE /\ inode_unlockput(p, t.dp, ic, fs, [t EXCEPT !.pc = "commit", !.dp = None])
           /\ UNCHANGED <<trans, cwd, fds>>
  <2> DEFINE u == [t EXCEPT !.pc = "commit", !.dp = None]
  <2>1. IsAt(u, "commit", t.call, t.elems, None, None, None) /\ inode_unlockput(p, t.dp, ic, fs, u)
    BY <1>2, ZenonT(30) DEF Thread, PC, IsAt
  <2> HIDE DEF u
  <2> USE <1>2, <2>1
  <2>2. WellFormed(u) /\ u.pc # "free"
    BY ZenonT(30) DEF WellFormed, At, HasIp, HasDp, HasOld, PC, IsAt, Parent
  <2>3. Refs(p, u, t.dp, None)
    BY DEF Refs, Uses, One, IsAt
  <2>4. Locks(p, u, t.dp, None) /\ Holds(t, t.dp)
    BY Zenon DEF Locks, Holds, Locked, At, IsAt
  <2>5. TransStep(p, u)
    BY Zenon DEF TransStep, InTrans, MayTrans, At, Writes, Parent, IsAt
  <2>6. QED
    BY <2>2, <2>3, <2>4, <2>5, DropStep, ZenonT(30)
<1>3. QED
  BY <1>2, Zenon DEF unlink_bad

\* or counts the link down and puts the i-node.
LEMMA UnlinkDoneKeeps ==
  ASSUME SysInv, Counting, panic = "none", NEW p \in Proc, unlink_done(p), UNCHANGED work
  PROVE  SysInv'
<1> DEFINE t == th[p]
<1>1. /\ t \in Thread /\ t.pc = "unlinked" /\ At(t) = "unlinked" /\ t.vic = None /\ t.kont = "none"
      /\ t.ip \in Inum /\ t.dp = None /\ t.old = None
      /\ (InTrans(t) => trans = p) /\ (trans = p => MayTrans(t)) /\ p # NoProc /\ fs \in Inodes
  BY ProcFacts, ZenonT(30) DEF unlink_done, WellFormed, HasIp, HasDp, HasOld, Thread, Parent
<1> USE <1>1, InumIsSome
<1> DEFINE f == [fs EXCEPT !.nlink[t.ip] = @ - 1]
<1>2. fs.nlink[t.ip] - 1 \in Int
  BY DEF Inodes
<1> USE <1>2
<1>3. f \in Inodes /\ f.type = fs.type
  BY SetNlink, Zenon
<1> USE <1>3
<1> HIDE DEF f
<1>4. CASE /\ inode_unlockput(p, t.ip, ic, f, [t EXCEPT !.pc = "commit", !.ip = None])
           /\ UNCHANGED <<trans, cwd, fds>>
  <2> DEFINE u == [t EXCEPT !.pc = "commit", !.ip = None]
  <2>1. IsAt(u, "commit", t.call, t.elems, None, None, None) /\ inode_unlockput(p, t.ip, ic, f, u)
    BY <1>4, ZenonT(30) DEF Thread, PC, IsAt
  <2> HIDE DEF u
  <2> USE <1>4, <2>1
  <2>2. WellFormed(u) /\ u.pc # "free"
    BY Zenon DEF WellFormed, At, HasIp, HasDp, HasOld, PC, IsAt, Parent
  <2>3. Refs(p, u, t.ip, None)
    BY DEF Refs, Uses, One, IsAt
  <2>4. Locks(p, u, t.ip, None) /\ Holds(t, t.ip)
    BY Zenon DEF Locks, Holds, Locked, At, IsAt
  <2>5. TransStep(p, u)
    BY Zenon DEF TransStep, InTrans, MayTrans, At, Writes, Parent, IsAt
  <2>6. QED
    BY <2>2, <2>3, <2>4, <2>5, DropStep, Zenon
<1>5. QED
  BY <1>4, Zenon DEF unlink_done, f

\* sys_link takes back the link it counted.
LEMMA LinkUndoneKeeps ==
  ASSUME SysInv, Counting, panic = "none", NEW p \in Proc, link_undone(p), UNCHANGED work
  PROVE  SysInv'
<1> DEFINE t == th[p]
<1>1. /\ t \in Thread /\ t.pc = "undoing" /\ At(t) = "undoing" /\ t.vic = None /\ t.kont = "none"
      /\ t.ip = None /\ t.dp = None /\ t.old \in Inum
      /\ (InTrans(t) => trans = p) /\ (trans = p => MayTrans(t)) /\ p # NoProc /\ fs \in Inodes
  BY ProcFacts, ZenonT(30) DEF link_undone, WellFormed, HasIp, HasDp, HasOld, Thread, Parent
<1> USE <1>1, InumIsSome
<1> DEFINE f == [fs EXCEPT !.nlink[t.old] = @ - 1]
<1>2. fs.nlink[t.old] - 1 \in Int
  BY DEF Inodes
<1> USE <1>2
<1>3. f \in Inodes /\ f.type = fs.type
  BY SetNlink, Zenon
<1> USE <1>3
<1> HIDE DEF f
<1>4. CASE /\ inode_unlockput(p, t.old, ic, f, [t EXCEPT !.pc = "commit", !.old = None])
           /\ UNCHANGED <<trans, cwd, fds>>
  <2> DEFINE u == [t EXCEPT !.pc = "commit", !.old = None]
  <2>1. IsAt(u, "commit", t.call, t.elems, None, None, None) /\ inode_unlockput(p, t.old, ic, f, u)
    BY <1>4, ZenonT(30) DEF Thread, PC, IsAt
  <2> HIDE DEF u
  <2> USE <1>4, <2>1
  <2>2. WellFormed(u) /\ u.pc # "free"
    BY Zenon DEF WellFormed, At, HasIp, HasDp, HasOld, PC, IsAt, Parent
  <2>3. Refs(p, u, t.old, None)
    BY DEF Refs, Uses, One, IsAt
  <2>4. Locks(p, u, t.old, None) /\ Holds(t, t.old)
    BY Zenon DEF Locks, Holds, Locked, At, IsAt
  <2>5. TransStep(p, u)
    BY Zenon DEF TransStep, InTrans, MayTrans, At, Writes, Parent, IsAt
  <2>6. QED
    BY <2>2, <2>3, <2>4, <2>5, DropStep, Zenon
<1>5. QED
  BY <1>4, Zenon DEF link_undone, f

\* sys_link makes the entry, or finds that the name is present.
LEMMA LinkEntryKeeps ==
  ASSUME SysInv, Counting, panic = "none", NEW p \in Proc, link_entry(p), UNCHANGED work
  PROVE  SysInv'
<1> DEFINE t == th[p]
<1>1. /\ t \in Thread /\ t.pc = "locked" /\ At(t) = "locked" /\ t.vic = None /\ t.kont = "none"
      /\ t.ip \in Inum /\ t.dp = None /\ t.old \in Inum
      /\ t.call = "link2" /\ t.elems # <<>>
      /\ (InTrans(t) => trans = p) /\ (trans = p => MayTrans(t)) /\ p # NoProc /\ fs \in Inodes
  BY ProcFacts DEF link_entry, WellFormed, HasIp, HasDp, HasOld, Thread, Parent
<1> USE <1>1, InumIsSome
<1>2. CASE /\ inode_unlockput(p, t.ip, ic, fs, [t EXCEPT !.pc = "undo", !.ip = None])
           /\ UNCHANGED <<trans, cwd, fds>>
  <2> DEFINE u == [t EXCEPT !.pc = "undo", !.ip = None]
  <2>1. IsAt(u, "undo", t.call, t.elems, None, None, t.old) /\ inode_unlockput(p, t.ip, ic, fs, u)
    BY <1>2, ZenonT(30) DEF Thread, PC, IsAt
  <2> HIDE DEF u
  <2> USE <1>2, <2>1
  <2>2. WellFormed(u) /\ u.pc # "free"
    BY Zenon DEF WellFormed, At, HasIp, HasDp, HasOld, PC, IsAt, Parent
  <2>3. Refs(p, u, t.ip, None)
    BY DEF Refs, Uses, One, IsAt
  <2>4. Locks(p, u, t.ip, None) /\ Holds(t, t.ip)
    BY Zenon DEF Locks, Holds, Locked, At, IsAt
  <2>5. TransStep(p, u)
    BY Zenon DEF TransStep, InTrans, MayTrans, At, Writes, Parent, IsAt
  <2>6. QED
    BY <2>2, <2>3, <2>4, <2>5, DropStep, Zenon
<1> DEFINE f == dir_link(fs, t.ip, Head(t.elems), t.old)
<1>3. f \in Inodes /\ f.type = fs.type
  BY SetEnt
<1> USE <1>3
<1> HIDE DEF f
<1>4. CASE /\ inode_unlockput(p, t.ip, ic, f, [t EXCEPT !.pc = "linked", !.ip = None])
           /\ UNCHANGED <<trans, cwd, fds>>
  <2> DEFINE u == [t EXCEPT !.pc = "linked", !.ip = None]
  <2>1. IsAt(u, "linked", t.call, t.elems, None, None, t.old) /\ inode_unlockput(p, t.ip, ic, f, u)
    BY <1>4, ZenonT(30) DEF Thread, PC, IsAt
  <2> HIDE DEF u
  <2> USE <1>4, <2>1
  <2>2. WellFormed(u) /\ u.pc # "free"
    BY Zenon DEF WellFormed, At, HasIp, HasDp, HasOld, PC, IsAt, Parent
  <2>3. Refs(p, u, t.ip, None)
    BY DEF Refs, Uses, One, IsAt
  <2>4. Locks(p, u, t.ip, None) /\ Holds(t, t.ip)
    BY Zenon DEF Locks, Holds, Locked, At, IsAt
  <2>5. TransStep(p, u)
    BY Zenon DEF TransStep, InTrans, MayTrans, At, Writes, Parent, IsAt
  <2>6. QED
    BY <2>2, <2>3, <2>4, <2>5, DropStep, Zenon
<1>5. QED
  BY <1>2, <1>4, Zenon DEF link_entry, f

\* sys_link puts the old i-node.
LEMMA LinkDoneKeeps ==
  ASSUME SysInv, Counting, panic = "none", NEW p \in Proc, link_done(p), UNCHANGED work
  PROVE  SysInv'
<1> DEFINE t == th[p]
<1>1. /\ t \in Thread /\ t.pc = "linked" /\ At(t) = "linked" /\ t.vic = None /\ t.kont = "none"
      /\ t.ip = None /\ t.dp = None /\ t.old \in Inum
      /\ (InTrans(t) => trans = p) /\ (trans = p => MayTrans(t)) /\ p # NoProc /\ fs \in Inodes
  BY ProcFacts, ZenonT(30) DEF link_done, WellFormed, HasIp, HasDp, HasOld, Thread, Parent
<1> USE <1>1, InumIsSome
<1>2. CASE /\ inode_put(p, t.old, ic, fs, [t EXCEPT !.pc = "commit", !.old = None])
           /\ UNCHANGED <<trans, cwd, fds>>
  <2> DEFINE u == [t EXCEPT !.pc = "commit", !.old = None]
  <2>1. IsAt(u, "commit", t.call, t.elems, None, None, None) /\ inode_put(p, t.old, ic, fs, u)
    BY <1>2, ZenonT(30) DEF Thread, PC, IsAt
  <2> HIDE DEF u
  <2> USE <1>2, <2>1
  <2>2. WellFormed(u) /\ u.pc # "free"
    BY Zenon DEF WellFormed, At, HasIp, HasDp, HasOld, PC, IsAt, Parent
  <2>3. Refs(p, u, t.old, None)
    BY DEF Refs, Uses, One, IsAt
  <2>4. Locks(p, u, None, None)
    BY Zenon DEF Locks, Holds, Locked, At, IsAt
  <2>5. TransStep(p, u)
    BY Zenon DEF TransStep, InTrans, MayTrans, At, Writes, Parent, IsAt
  <2>6. QED
    BY <2>2, <2>3, <2>4, <2>5, ForgetStep, Zenon
<1>3. QED
  BY <1>2, Zenon DEF link_done

\* sys_link locks the old i-node to take the link back.
LEMMA LinkUndoKeeps ==
  ASSUME SysInv, Counting, panic = "none", NEW p \in Proc, link_undo(p), UNCHANGED work
  PROVE  SysInv'
<1> DEFINE t == th[p]
<1>1. /\ t \in Thread /\ t.pc = "undo" /\ At(t) = "undo" /\ t.vic = None /\ t.kont = "none"
      /\ t.ip = None /\ t.dp = None /\ t.old \in Inum
      /\ (InTrans(t) => trans = p) /\ (trans = p => MayTrans(t)) /\ p # NoProc /\ fs \in Inodes
  BY ProcFacts, ZenonT(30) DEF link_undo, WellFormed, HasIp, HasDp, HasOld, Thread, Parent
<1> USE <1>1, InumIsSome
<1>2. CASE inode_lock(p, t.old, [t EXCEPT !.pc = "undoing"])
  <2> DEFINE u == [t EXCEPT !.pc = "undoing"]
  <2>1. IsAt(u, "undoing", t.call, t.elems, None, None, t.old) /\ inode_lock(p, t.old, u)
    BY <1>2, ZenonT(30) DEF Thread, PC, IsAt
  <2> HIDE DEF u
  <2> USE <1>2, <2>1
  <2>2. WellFormed(u) /\ u.pc # "free"
    BY Zenon DEF WellFormed, At, HasIp, HasDp, HasOld, PC, IsAt, Parent
  <2>3. Refs(p, u, None, None)
    BY Zenon DEF Refs, Uses, One, IsAt
  <2>4. Locks(p, u, None, t.old)
    BY ZenonT(30) DEF Locks, Holds, Locked, At, IsAt
  <2>5. (InTrans(u) => trans = p) /\ (trans = p => MayTrans(u))
    BY Zenon DEF InTrans, MayTrans, At, Writes, Parent, IsAt
  <2>6. QED
    BY <2>2, <2>3, <2>4, <2>5, LockStep, Zenon
<1>3. QED
  BY <1>2, Zenon DEF link_undo

\* The i-node is freed: its lock and the last reference go.
LEMMA FreeInodeKeeps ==
  ASSUME SysInv, Counting, panic = "none", NEW p \in Proc, free_inode(p), UNCHANGED work
  PROVE  SysInv'
<1> DEFINE t == th[p]
           v == t.vic
           u == [t EXCEPT !.pc = t.kont, !.kont = "none", !.vic = None]
<1>1. /\ t \in Thread /\ t.pc = "free" /\ v \in Inum /\ WellFormed(t) /\ At(t) = t.kont
      /\ (InTrans(t) => trans = p) /\ (trans = p => MayTrans(t)) /\ p # NoProc
      /\ ic \in Cache /\ fs \in Inodes
  BY ProcFacts, ZenonT(30) DEF free_inode, WellFormed, Thread, At
<1> USE <1>1, InumIsSome
<1>2. CASE trans = NoProc
  BY <1>2, PanicStep, ZenonT(30) DEF free_inode, Panic
<1>3. CASE trans # NoProc
  <2>1. /\ fs' = [fs EXCEPT !.type[v] = "free"]
        /\ ic' = [ic EXCEPT !.lock[v] = NoProc, !.valid = @ \ {v}, !.ref[v] = @ - 1]
        /\ th' = [th EXCEPT ![p] = u]
        /\ UNCHANGED <<trans, cwd, fds, panic>>
    BY <1>3, Zenon DEF free_inode
  <2>2. /\ u \in Thread /\ u.pc = t.kont /\ u.kont = "none" /\ u.vic = None /\ u.ip = t.ip
        /\ u.dp = t.dp /\ u.old = t.old /\ u.call = t.call /\ u.elems = t.elems
        /\ u.pc # "free"
    <3>1. t.kont \in PC \ {"free"}
      BY Zenon DEF WellFormed
    <3>2. QED
      BY <3>1, ZenonT(30) DEF Thread
  <2> HIDE DEF u
  <2> USE <2>1, <2>2
  <2>3. At(u) = At(t)
    BY ZenonT(30) DEF At
  <2>4. WellFormed(u)
    BY <2>3 DEF WellFormed, HasIp, HasDp, HasOld
  <2>5. \A j \in Inum : Uses(t, j) = Uses(u, j) + One(v = j) /\ Uses(u, j) \in Nat
    BY DEF Uses, One
  <2>6. \A j \in Inum : Holds(u, j) <=> Holds(t, j) /\ j # v
    <3>1. \A j \in Inum : Locked(u, j) <=> Locked(t, j)
      BY <2>3, ZenonT(30) DEF Locked
    <3>2. ~Locked(t, v)
      BY Zenon DEF WellFormed
    <3>3. QED
      BY <3>1, <3>2, Zenon DEF Holds
  <2>7. Holds(t, v) /\ ic.lock[v] = p
    BY ZenonT(30) DEF Holds, SysInv
  <2>8. ic.ref[v] # 0 /\ ic.ref[v] - 1 \in Nat
    <3>1. ic.ref[v] # 0
      BY <2>7, HeldIsReferenced, Zenon
    <3>2. ic.ref[v] \in Nat
      BY ZenonT(30) DEF Cache
    <3>3. QED
      BY <3>1, <3>2
  <2>9. /\ ic' \in Cache /\ ic'.valid = ic.valid \ {v}
        /\ \A j \in Inum : /\ ic'.lock[j] = IF j = v THEN NoProc ELSE ic.lock[j]
                           /\ ic'.ref[j] = IF j = v THEN ic.ref[j] - 1 ELSE ic.ref[j]
    BY <2>8, ZenonT(30) DEF Cache
  <2>10. fs' \in Inodes /\ \A j \in Inum : j # v => fs'.type[j] = fs.type[j]
    BY ZenonT(30) DEF Inodes
  <2>11. ASSUME NEW j \in Inum
         PROVE  ic'.ref[j] = ic.ref[j] - Uses(t, j) + Uses(u, j)
                             - One(cwd[p] = j) + One(cwd[p] = j) + One(None = j)
    <3>1. ic.ref[j] \in Nat /\ One(cwd[p] = j) \in Nat /\ One(None = j) = 0
      BY ZenonT(30) DEF Cache, One
    <3>2. QED
      BY <2>5, <2>9, <3>1, SMTT(30) DEF One
  <2>12. ASSUME NEW j \in Inum
         PROVE  /\ ic'.lock[j] = IF Holds(u, j) THEN p
                                 ELSE IF Holds(t, j) THEN NoProc ELSE ic.lock[j]
                /\ Holds(u, j) => ic.lock[j] \in {p, NoProc}
                /\ ic'.lock[j] # NoProc => j \in ic'.valid
    <3>1. /\ ic.lock[j] = p <=> Holds(t, j)
          /\ ic.lock[j] # NoProc => j \in ic.valid
      BY ZenonT(30) DEF SysInv
    <3>2. QED
      BY <2>6, <2>7, <2>9, <3>1, SMTT(30)
  <2>13. \A j \in ic'.valid : fs'.type[j] # "free"
    BY <2>9, <2>10, SMTT(30) DEF Cache, SysInv
  <2>14. Ready(p, None, ic', fs', u, cwd[p])
    BY <2>4, <2>9, <2>10, <2>11, <2>12, <2>13, ZenonT(30) DEF Ready
  <2>15. InTrans(u) = InTrans(t) /\ MayTrans(u) = MayTrans(t)
    BY <2>3, Zenon DEF InTrans, MayTrans
  <2>16. TransStep(p, u)
    BY <2>15, Zenon DEF TransStep
  <2>17. QED
    BY <2>14, <2>16, PlainStep, ZenonT(30) DEF SysInv
<1>4. QED
  BY <1>2, <1>3, ZenonT(30)

\* begin_trans of sys_unlink and of sys_link.
LEMMA FoundBeginKeeps ==
  ASSUME SysInv, Counting, panic = "none", NEW p \in Proc, found_begin_trans(p),
         UNCHANGED work
  PROVE  SysInv'
<1> DEFINE t == th[p]
<1>1. t.pc = "found" /\ t.call \in {"unlink", "link"} /\ At(t) = "found" /\ WellFormed(t)
  BY ProcFacts, ZenonT(30) DEF found_begin_trans
<1>2. /\ trans = NoProc /\ trans' = p /\ th' = [th EXCEPT ![p] = t]
      /\ UNCHANGED <<fs, ic, cwd, fds, panic>>
  BY Zenon DEF found_begin_trans, SysInv, Types
<1>3. TransStep(p, t)
  BY <1>1, <1>2, ZenonT(30) DEF TransStep, MayTrans
<1>4. Refs(p, t, None, None) /\ Locks(p, t, None, None)
  BY InumIsSome, Zenon DEF Refs, Locks, Uses, One
<1>5. QED
  BY <1>1, <1>2, <1>3, <1>4, MoveStep, ZenonT(30)

\* A process that opens or closes a file: a reference moves between the locals
\* of its call and descriptor d.
LEMMA FileStep ==
  ASSUME SysInv, Counting, NEW p \in Proc, NEW t, th' = [th EXCEPT ![p] = t], WellFormed(t),
         NEW d \in 1 .. NOFILE, NEW v \in Inum \cup {None}, NEW i,
         fds' = [fds EXCEPT ![p][d] = v], CacheStep(p, ic', None, i, None),
         Refs(p, t, v, fds[p][d]), Locks(p, t, i, None), i = None \/ Holds(th[p], i),
         TransStep(p, t), UNCHANGED <<work, fs, cwd, panic>>
  PROVE  SysInv'
<1>1. /\ Types /\ t \in Thread /\ fs' \in Inodes /\ cwd' \in [Proc -> Inum]
      /\ fds' \in [Proc -> [1 .. NOFILE -> Inum \cup {None}]]
      /\ panic' # "inode_put:busy"
  BY ZenonT(30) DEF SysInv, Types, WellFormed
<1>2. RecountFile(p, t, d, v)
  BY <1>1, ZenonT(30) DEF Counting, CountFileStep
<1>3. ASSUME NEW j \in Inum
      PROVE  ic'.ref[j] = Count(j)'
  <2>1. Uses(th[p], j) \in Nat /\ Uses(t, j) \in Nat
    BY DEF Uses, One
  <2>2. Uses(t, j) + One(v = j) = Uses(th[p], j) + One(fds[p][d] = j)
    BY Zenon DEF Refs
  <2>3. /\ Count(j) \in Nat
        /\ Count(j)' = Count(j) - Uses(th[p], j) + Uses(t, j) - One(fds[p][d] = j) + One(v = j)
    BY <1>2, Zenon DEF RecountFile
  <2>4. One(v = j) \in Nat /\ One(fds[p][d] = j) \in Nat /\ One(None = j) = 0
    BY InumIsSome, ZenonT(30) DEF One
  <2>5. ic'.ref[j] = ic.ref[j] + One(None = j) /\ ic.ref[j] = Count(j)
    BY Zenon DEF CacheStep, SysInv
  <2>6. QED
    BY <2>1, <2>2, <2>3, <2>4, <2>5, SMTT(30)
<1>4. ASSUME NEW j \in Inum
      PROVE  /\ ic'.lock[j] = IF Holds(t, j) THEN p
                              ELSE IF Holds(th[p], j) THEN NoProc ELSE ic.lock[j]
             /\ Holds(t, j) => ic.lock[j] \in {p, NoProc}
             /\ ic'.lock[j] # NoProc => j \in ic'.valid
  <2>1. Holds(t, j) <=> (Holds(th[p], j) /\ j # i) \/ j = None
    BY Zenon DEF Locks
  <2>2. /\ ic'.lock[j] = IF j = None THEN p ELSE IF j = i THEN NoProc ELSE ic.lock[j]
        /\ ic'.lock[j] # NoProc => j \in ic'.valid
    BY Zenon DEF CacheStep
  <2>3. (ic.lock[j] = p <=> Holds(th[p], j)) /\ j # None
    BY InumIsSome, Zenon DEF SysInv
  <2>4. QED
    BY <2>1, <2>2, <2>3, SMTT(30)
<1>5. ic' \in Cache /\ \A j \in ic'.valid : fs'.type[j] # "free"
  <2>1. ic' \in Cache /\ \A j \in Inum : j \in ic'.valid => j \in ic.valid \/ j = None
    BY ZenonT(30) DEF CacheStep
  <2>2. ic'.valid \subseteq Inum /\ \A j \in ic.valid : fs.type[j] # "free"
    BY <2>1, Zenon DEF Cache, SysInv
  <2>3. QED
    BY <2>1, <2>2, InumIsSome, ZenonT(30)
<1>6. QED
  BY <1>1, <1>3, <1>4, <1>5, StepKeeps, ZenonT(30)

\* A call that ends with an i-node unlocked and given away.
LEMMA EndsUnlocked ==
  ASSUME SysInv, NEW p \in Proc, th[p].pc = "locked", th[p].call \in {"open", "chdir"}
  PROVE  /\ th[p].ip \in Inum /\ th[p].dp = None /\ th[p].old = None /\ th[p].vic = None
         /\ trans # p /\ fs \in Inodes
         /\ WellFormed(Idle) /\ Idle.pc # "free" /\ ~InTrans(Idle)
         /\ Refs(p, Idle, th[p].ip, None) /\ Locks(p, Idle, th[p].ip, None)
         /\ Holds(th[p], th[p].ip)
<1> DEFINE t == th[p]
<1>1. /\ t.ip \in Inum /\ t.dp = None /\ t.old = None /\ t.vic = None /\ At(t) = "locked"
      /\ fs \in Inodes /\ (trans = p => MayTrans(t))
  BY ProcFacts, ZenonT(30) DEF WellFormed, HasIp, HasDp, HasOld, Thread
<1> USE <1>1, IdleAt, InumIsSome
<1>2. WellFormed(Idle) /\ Idle.pc # "free" /\ ~InTrans(Idle)
  BY ZenonT(30) DEF WellFormed, InTrans, At, HasIp, HasDp, HasOld, PC, IsAt
<1>3. Refs(p, Idle, t.ip, None)
  BY SMTT(30) DEF Refs, Uses, One, IsAt
<1>4. Locks(p, Idle, t.ip, None) /\ Holds(t, t.ip)
  BY Zenon DEF Locks, Holds, Locked, At, IsAt
<1>5. trans # p
  BY ZenonT(30) DEF MayTrans, InTrans
<1>6. QED
  BY <1>2, <1>3, <1>4, <1>5, ZenonT(30)

\* fdalloc returns a descriptor that is free, if there is one.
LEMMA FirstFd ==
  ASSUME LeastNumber, NEW p, ~ \A d \in 1 .. NOFILE : fds[p][d] # None
  PROVE  fdalloc(p) \in 1 .. NOFILE /\ fds[p][fdalloc(p)] = None
<1> DEFINE S == {x \in 1 .. NOFILE : fds[p][x] = None}
<1>1. S \subseteq Nat /\ S # {}
  OBVIOUS
<1>2. PICK x \in S : \A y \in S : x <= y
  <2> HIDE DEF S
  <2>1. QED
    BY <1>1, Zenon DEF LeastNumber
<1>3. x \in 1 .. NOFILE /\ fds[p][x] = None
  BY <1>2, Zenon
<1>4. \A e \in 1 .. x - 1 : e \in 1 .. NOFILE /\ ~ (x <= e)
  BY <1>3, ConstAssumption
<1>5. \A e \in 1 .. x - 1 : fds[p][e] # None
  BY <1>2, <1>4, ZenonT(30)
<1>6. QED
  BY <1>3, <1>5, Zenon DEF fdalloc

\* The end of sys_open: a descriptor takes the reference, or it is put.
LEMMA OpenKeeps ==
  ASSUME SysInv, Counting, panic = "none", NEW p \in Proc, sys_open(p), UNCHANGED work
  PROVE  SysInv'
<1> DEFINE t == th[p]
<1>1. t.pc = "locked" /\ t.call = "open" /\ UNCHANGED <<trans, cwd>>
  BY Zenon DEF sys_open
<1>2. /\ t.ip \in Inum /\ t.dp = None /\ t.old = None /\ t.vic = None /\ fs \in Inodes
      /\ WellFormed(Idle) /\ Idle.pc # "free" /\ TransStep(p, Idle)
      /\ Refs(p, Idle, t.ip, None) /\ Locks(p, Idle, t.ip, None) /\ Holds(t, t.ip)
  BY <1>1, EndsUnlocked, ZenonT(30) DEF TransStep
<1> USE <1>1, <1>2
<1>3. CASE inode_unlockput(p, t.ip, ic, fs, Idle) /\ UNCHANGED fds
  BY <1>3, DropStep, ZenonT(30)
<1>4. CASE /\ ~ \A d \in 1 .. NOFILE : fds[p][d] # None
           /\ fds' = [fds EXCEPT ![p][fdalloc(p)] = t.ip]
           /\ ic' = inode_unlock(ic, t.ip) /\ th' = [th EXCEPT ![p] = Idle]
           /\ UNCHANGED <<fs, panic>>
  <2> DEFINE d == fdalloc(p)
  <2>1. d \in 1 .. NOFILE /\ fds[p][d] = None
    BY <1>4, FirstFd, ZenonT(30) DEF Counting
  <2>2. fds' = [fds EXCEPT ![p][d] = t.ip]
    BY <1>4, ZenonT(30)
  <2> HIDE DEF d
  <2>3. Refs(p, Idle, t.ip, fds[p][d])
    BY <2>1, Zenon
  <2>4. CacheStep(p, ic', None, t.ip, None)
    BY <1>4, SameCache, UnlockCache, InumIsSome, ZenonT(30)
  <2>5. QED
    BY <1>4, <2>1, <2>2, <2>3, <2>4, FileStep, ZenonT(30)
<1>5. QED
  BY <1>3, <1>4, Zenon DEF sys_open

\* sys_close: the call takes over the reference of the descriptor.
LEMMA CloseKeeps ==
  ASSUME SysInv, Counting, panic = "none", NEW p \in Proc, NEW d \in 1 .. NOFILE,
         sys_close(p, d), UNCHANGED work
  PROVE  SysInv'
<1> DEFINE t == th[p]
           i == fds[p][d]
           u == [Idle EXCEPT !.pc = "close", !.ip = i]
<1>1. /\ t.pc = "idle" /\ At(t) = "idle" /\ t.ip = None /\ t.dp = None /\ t.old = None
      /\ t.vic = None /\ (trans = p => MayTrans(t))
  BY ProcFacts, Zenon DEF sys_close, Begins, WellFormed, HasIp, HasDp, HasOld
<1>2. /\ fds' = [fds EXCEPT ![p][d] = None] /\ th' = [th EXCEPT ![p] = u]
      /\ UNCHANGED <<fs, ic, trans, cwd, panic>>
  BY Zenon DEF sys_close
<1>3. i \in Inum
  <2>1. i # None
    BY ZenonT(30) DEF sys_close
  <2>2. fds[p] \in [1 .. NOFILE -> Inum \cup {None}]
    BY ZenonT(30) DEF SysInv, Types
  <2>3. i \in Inum \cup {None}
    BY <2>2, Zenon
  <2>4. QED
    BY <2>1, <2>3, Zenon
<1> HIDE DEF i
<1>4. IsAt(u, "close", "none", <<>>, i, None, None)
  BY <1>3, IdleAt, ZenonT(30) DEF IsAt, Thread, PC
<1> HIDE DEF u
<1> USE <1>1, <1>2, <1>3, <1>4, InumIsSome
<1>5. WellFormed(u)
  BY Zenon DEF WellFormed, At, HasIp, HasDp, HasOld, PC, IsAt
<1>6. Refs(p, u, None, i)
  BY DEF Refs, Uses, One, IsAt
<1>7. Locks(p, u, None, None)
  BY Zenon DEF Locks, Holds, Locked, At, IsAt
<1>8. TransStep(p, u)
  BY ZenonT(30) DEF TransStep, InTrans, MayTrans, At, Writes, IsAt
<1>9. QED
  BY <1>5, <1>6, <1>7, <1>8, SameCache, FileStep, ZenonT(30) DEF i

\* sys_chdir: the old current directory is put, and the new one takes its place.
LEMMA ChdirKeeps ==
  ASSUME SysInv, Counting, panic = "none", NEW p \in Proc, sys_chdir(p), UNCHANGED work
  PROVE  SysInv'
<1> DEFINE t == th[p]
           c == inode_unlock(ic, t.ip)
<1>1. t.pc = "locked" /\ t.call = "chdir" /\ UNCHANGED <<trans, fds>>
  BY Zenon DEF sys_chdir
<1>2. /\ t.ip \in Inum /\ t.dp = None /\ t.old = None /\ t.vic = None /\ fs \in Inodes
      /\ WellFormed(Idle) /\ Idle.pc # "free" /\ TransStep(p, Idle)
      /\ Refs(p, Idle, t.ip, None) /\ Locks(p, Idle, t.ip, None) /\ Holds(t, t.ip)
  BY <1>1, EndsUnlocked, ZenonT(30) DEF TransStep
<1> USE <1>1, <1>2
<1>3. CASE inode_unlockput(p, t.ip, ic, fs, Idle) /\ UNCHANGED cwd
  BY <1>3, DropStep, Zenon
<1>4. CASE inode_put(p, cwd[p], c, fs, Idle) /\ cwd' = [cwd EXCEPT ![p] = t.ip]
  <2>1. CacheStep(p, c, None, t.ip, None)
    BY SameCache, UnlockCache, InumIsSome, Zenon
  <2> HIDE DEF c
  <2>2. Ready(p, t.ip, c, fs, Idle, cwd[p])
    BY <2>1, StepReady, ZenonT(30)
  <2>3. ASSUME NEW j \in Inum
        PROVE  c.ref[j] = ic.ref[j] - Uses(t, j) + Uses(Idle, j)
                          - One(cwd[p] = j) + One(t.ip = j) + One(cwd[p] = j)
    <3>1. c.ref[j] = ic.ref[j] - Uses(t, j) + Uses(Idle, j)
                     - One(cwd[p] = j) + One(cwd[p] = j) + One(t.ip = j)
      BY <2>2, ZenonT(30) DEF Ready
    <3>2. ic.ref[j] \in Nat /\ Uses(t, j) \in Nat /\ Uses(Idle, j) \in Nat
      BY UsesNat, ZenonT(30) DEF SysInv, Types, Cache
    <3>3. One(t.ip = j) \in Nat /\ One(cwd[p] = j) \in Nat
      BY UsesNat, Zenon
    <3>4. QED
      <4> HIDE <1>1, <1>2
      <4>1. QED
        BY <3>1, <3>2, <3>3
  <2>4. Ready(p, cwd[p], c, fs, Idle, t.ip)
    BY <2>2, <2>3, Zenon DEF Ready
  <2>5. cwd[p] \in Inum
    BY ZenonT(30) DEF SysInv, Types
  <2>6. QED
    BY <1>4, <2>4, <2>5, PutStep, ZenonT(30)
<1>5. QED
  BY <1>3, <1>4, ZenonT(30) DEF sys_chdir

\* sys_link with the link counted: the old i-node stays referenced.
LEMMA LinkKeeps ==
  ASSUME SysInv, Counting, panic = "none", NEW p \in Proc, NEW new \in work.Path,
         sys_link(p, new), UNCHANGED work
  PROVE  SysInv'
<1> DEFINE t == th[p]
<1>1. /\ t \in Thread /\ t.pc = "locked" /\ At(t) = "locked" /\ t.vic = None
      /\ t.kont = "none" /\ t.ip \in Inum /\ t.dp = None /\ t.old = None /\ t.call = "link"
      /\ UNCHANGED <<trans, cwd, fds>> /\ fs \in Inodes
      /\ (InTrans(t) => trans = p) /\ (trans = p => MayTrans(t))
  BY ProcFacts, ZenonT(30) DEF sys_link, WellFormed, HasIp, HasDp, HasOld, Thread
<1> USE <1>1, InumIsSome
<1>2. CASE inode_unlockput(p, t.ip, ic, fs, [t EXCEPT !.pc = "commit", !.ip = None])
  <2> DEFINE u == [t EXCEPT !.pc = "commit", !.ip = None]
  <2>1. IsAt(u, "commit", t.call, t.elems, None, None, None) /\ inode_unlockput(p, t.ip, ic, fs, u)
    BY <1>2, ZenonT(30) DEF Thread, PC, IsAt
  <2> HIDE DEF u
  <2> USE <2>1
  <2>2. WellFormed(u) /\ u.pc # "free"
    BY ZenonT(30) DEF WellFormed, At, HasIp, HasDp, HasOld, PC, IsAt
  <2>3. Refs(p, u, t.ip, None)
    BY DEF Refs, Uses, One, IsAt
  <2>4. Locks(p, u, t.ip, None) /\ Holds(t, t.ip)
    BY ZenonT(30) DEF Locks, Holds, Locked, At, IsAt
  <2>5. TransStep(p, u)
    BY ZenonT(30) DEF TransStep, InTrans, MayTrans, At, Writes, IsAt
  <2>6. QED
    BY <2>2, <2>3, <2>4, <2>5, DropStep, ZenonT(30)
<1>3. CASE /\ fs' = [fs EXCEPT !.nlink[t.ip] = @ + 1]
           /\ ic' = inode_get(inode_unlock(ic, t.ip), Start(p, new))
           /\ th' = [th EXCEPT ![p] = Walk(p, "link2", new, [t EXCEPT !.old = t.ip])]
           /\ UNCHANGED panic
  <2> DEFINE s == Start(p, new)
             u == Walk(p, "link2", new, [t EXCEPT !.old = t.ip])
  <2>1. s \in Inum /\ new.elems \in Seq(Name \cup {".", ".."})
    BY StartType, ZenonT(30)
  <2>2. IsAt(u, "walk", "link2", new.elems, s, None, t.ip)
    BY <2>1, ZenonT(30) DEF Thread, PC, IsAt, Walk
  <2>3. CacheStep(p, ic', s, t.ip, None)
    BY <1>3, <2>1, SameCache, UnlockCache, GetCache, ZenonT(30)
  <2>4. th' = [th EXCEPT ![p] = u]
    BY <1>3, ZenonT(30)
  <2> HIDE DEF u, s
  <2>5. WellFormed(u) /\ u.pc # "free"
    BY <2>1, <2>2, ZenonT(30) DEF WellFormed, At, HasIp, HasDp, HasOld, PC, IsAt, Parent
  <2>6. Refs(p, u, None, s)
    <3>1. /\ u.ip = s /\ u.dp = None /\ u.old = t.ip /\ u.vic = None
          /\ t.dp = None /\ t.old = None /\ t.vic = None
      BY <2>2, ZenonT(30) DEF IsAt
    <3> HIDE <1>1
    <3>2. QED
      BY <3>1 DEF Refs, Uses, One
  <2>7. Locks(p, u, t.ip, None) /\ Holds(t, t.ip)
    BY <2>2, Zenon DEF Locks, Holds, Locked, At, IsAt
  <2>8. fs' \in Inodes /\ fs'.type = fs.type
    <3>1. fs.nlink[t.ip] + 1 \in Int
      BY SMTT(30) DEF Inodes
    <3>2. QED
      BY <1>3, <3>1, SetNlink, ZenonT(30)
  <2>9. Ready(p, None, ic', fs', u, cwd[p])
    BY <2>3, <2>5, <2>6, <2>7, <2>8, StepReady, ZenonT(30)
  <2>10. TransStep(p, u)
    BY <2>2, ZenonT(30) DEF TransStep, InTrans, MayTrans, At, Writes, IsAt
  <2>11. QED
    BY <1>3, <2>4, <2>9, <2>10, PlainStep, ZenonT(30) DEF SysInv
<1>4. QED
  BY <1>2, <1>3, ZenonT(30) DEF sys_link

\* create changes the type of the new i-node only.
LEMMA CreatedInodes ==
  ASSUME NEW d \in Inum, NEW i \in Inum, d # i, NEW n, NEW kind \in {"dir", "file"},
         fs \in Inodes
  PROVE  /\ Created(d, n, kind, i) \in Inodes
         /\ \A j \in Inum :
              Created(d, n, kind, i).type[j] = IF j = i THEN kind ELSE fs.type[j]
<1> DEFINE g == [fs EXCEPT !.type[i] = kind,
                           !.nlink[i] = 1,
                           !.nlink[d] = IF kind = "dir" THEN @ + 1 ELSE @,
                           !.ent[i] = [m \in Name |-> None],
                           !.up[i] = IF kind = "dir" THEN d ELSE None]
           ty == [fs.type EXCEPT ![i] = kind]
           nl == [fs.nlink EXCEPT ![i] = 1]
           nd == [nl EXCEPT ![d] = IF kind = "dir" THEN fs.nlink[d] + 1 ELSE fs.nlink[d]]
           en == [fs.ent EXCEPT ![i] = [m \in Name |-> None]]
           up == [fs.up EXCEPT ![i] = IF kind = "dir" THEN d ELSE None]
<1>1. g = [fs EXCEPT !.type = ty, !.nlink = nd, !.ent = en, !.up = up]
  BY ZenonT(30) DEF Inodes
<1>2. ty \in [Inum -> {"free", "dir", "file"}] /\ \A j \in Inum : ty[j] = IF j = i THEN kind ELSE fs.type[j]
  BY Zenon DEF Inodes
<1>3. nd \in [Inum -> Int]
  <2>1. nl \in [Inum -> Int] /\ fs.nlink[d] \in Int
    BY DEF Inodes
  <2> HIDE DEF nl
  <2>2. QED
    BY <2>1
<1>4. en \in [Inum -> [Name -> Inum \cup {None}]]
  BY Zenon DEF Inodes
<1>5. up \in [Inum -> Inum \cup {None}]
  BY Zenon DEF Inodes
<1>6. Created(d, n, kind, i) = dir_link(g, d, n, i)
  BY Zenon DEF Created
<1> HIDE DEF g, ty, nd, en, up
<1>7. g \in Inodes /\ g.type = ty
  BY <1>1, <1>2, <1>3, <1>4, <1>5, ZenonT(30) DEF Inodes
<1>8. QED
  BY <1>2, <1>6, <1>7, SetEnt

\* inode_alloc takes a free i-node.
LEMMA FirstFreeIsFree ==
  ASSUME Counting, Free # {}
  PROVE  FirstFree \in Inum /\ fs.type[FirstFree] = "free"
<1>1. Free \subseteq Nat
  BY ConstAssumption DEF Free, Inum
<1>2. FirstFree \in Free
  BY <1>1, ZenonT(30) DEF FirstFree, Counting, LeastNumber
<1>3. QED
  BY <1>2, ZenonT(30) DEF Free

\* create with the parent locked: the i-node of that name, or a new one, or panic.
LEMMA CreateKeeps ==
  ASSUME SysInv, Counting, panic = "none", NEW p \in Proc, create(p), UNCHANGED work
  PROVE  SysInv'
<1> DEFINE t == th[p]
           n == Head(t.elems)
           e == Lookup(t.ip, n)
           i == FirstFree
           kind == IF t.call = "mkdir" THEN "dir" ELSE "file"
           c == inode_get(ic, i)
           k == [c EXCEPT !.lock[i] = p, !.valid = @ \cup {i}]
           f == Created(t.ip, n, kind, i)
<1>1. /\ t \in Thread /\ t.pc = "locked" /\ At(t) = "locked" /\ t.vic = None
      /\ t.kont = "none" /\ t.ip \in Inum /\ t.dp = None /\ t.old = None
      /\ t.call \in {"create", "mkdir"} /\ t.elems # <<>>
      /\ UNCHANGED <<trans, cwd, fds>> /\ fs \in Inodes
      /\ (InTrans(t) => trans = p) /\ (trans = p => MayTrans(t)) /\ p # NoProc
  BY ProcFacts, ZenonT(30) DEF create, WellFormed, HasIp, HasDp, HasOld, Thread, Parent
<1>2. e \in Inum \cup {None}
  BY <1>1, ElemFacts, LookupType, ZenonT(30) DEF Thread
<1> USE <1>1, InumIsSome
<1>3. CASE /\ e # None
           /\ inode_unlockput(p, t.ip, inode_get(ic, e), fs, [t EXCEPT !.pc = "exists", !.ip = e])
  <2> DEFINE u == [t EXCEPT !.pc = "exists", !.ip = e]
  <2> HIDE DEF e
  <2>1. /\ IsAt(u, "exists", t.call, t.elems, e, None, None)
        /\ inode_unlockput(p, t.ip, inode_get(ic, e), fs, u) /\ e \in Inum
    BY <1>2, <1>3, ZenonT(30) DEF Thread, PC, IsAt
  <2> HIDE DEF u
  <2> USE <2>1
  <2>2. WellFormed(u) /\ u.pc # "free"
    BY ZenonT(30) DEF WellFormed, At, HasIp, HasDp, HasOld, PC, IsAt
  <2>3. Refs(p, u, t.ip, e)
    BY DEF Refs, Uses, One, IsAt
  <2>4. Locks(p, u, t.ip, None) /\ Holds(t, t.ip)
    BY ZenonT(30) DEF Locks, Holds, Locked, At, IsAt
  <2>5. TransStep(p, u)
    BY ZenonT(30) DEF TransStep, InTrans, MayTrans, At, Writes, IsAt
  <2>6. QED
    BY <2>2, <2>3, <2>4, <2>5, HopStep, ZenonT(30)
<1>4. CASE /\ Free # {}
           /\ inode_unlockput(p, t.ip, k, f, [t EXCEPT !.pc = "created", !.ip = i])
  <2> DEFINE u == [t EXCEPT !.pc = "created", !.ip = i]
             x == inode_unlock(k, t.ip)
  <2>1. i \in Inum /\ fs.type[i] = "free"
    BY <1>4, FirstFreeIsFree, ZenonT(30)
  <2>2. Holds(t, t.ip) /\ t.ip # i /\ ic.lock[i] = NoProc
    <3>1. Holds(t, t.ip)
      BY ZenonT(30) DEF Holds, Locked
    <3>2. QED
      <4>1. ic.lock[t.ip] = p /\ (ic.lock[t.ip] # NoProc => t.ip \in ic.valid)
        BY <3>1, ProcFacts, ZenonT(30)
      <4>2. /\ t.ip \in ic.valid => fs.type[t.ip] # "free"
            /\ i \notin ic.valid
            /\ ic.lock[i] # NoProc => i \in ic.valid
        BY <2>1, ProcFacts, ZenonT(30)
      <4>3. QED
        BY <2>1, <3>1, <4>1, <4>2, ZenonT(30)
  <2>3. inode_put(p, t.ip, x, f, u)
    BY <1>4, ZenonT(30) DEF inode_unlockput
  <2>4. f \in Inodes /\ \A j \in Inum : f.type[j] = IF j = i THEN kind ELSE fs.type[j]
    <3>1. kind \in {"dir", "file"}
      <4>1. kind = "dir" \/ kind = "file"
        BY Zenon
      <4> HIDE DEF kind
      <4>2. QED
        BY <4>1, Zenon
    <3> HIDE DEF kind, i, n
    <3> HIDE <1>1
    <3>2. fs \in Inodes /\ t.ip \in Inum /\ t.ip # i
      BY <1>1, <2>2, Zenon
    <3>3. QED
      BY <2>1, <3>1, <3>2, CreatedInodes, SMTT(30)
  <2> HIDE DEF f, i
  <2>5. CacheStep(p, c, i, None, None)
    BY <2>1, SameCache, GetCache, ZenonT(30)
  <2> HIDE DEF c
  <2>6. CacheStep(p, k, i, None, i)
    BY <2>1, <2>5, LockCache, ZenonT(30)
  <2> HIDE DEF k
  <2>7. CacheStep(p, x, i, t.ip, i)
    BY <2>1, <2>2, <2>6, UnlockCache, Zenon
  <2> HIDE DEF x
  <2>8. IsAt(u, "created", t.call, t.elems, i, None, None)
    BY <2>1, ZenonT(30) DEF Thread, PC, IsAt
  <2> HIDE DEF u
  <2> USE <2>1, <2>2, <2>8
  <2>9. WellFormed(u) /\ u.pc # "free"
    BY ZenonT(30) DEF WellFormed, At, HasIp, HasDp, HasOld, PC, IsAt
  <2>10. Refs(p, u, t.ip, i)
    <3>1. /\ u.ip = i /\ u.dp = None /\ u.old = None /\ u.vic = None
          /\ t.dp = None /\ t.old = None /\ t.vic = None
      BY ZenonT(30) DEF IsAt
    <3> HIDE <1>1, <2>1, <2>2, <2>8
    <3>2. QED
      BY <3>1 DEF Refs, Uses, One
  <2>11. Locks(p, u, t.ip, i)
    BY ZenonT(30) DEF Locks, Holds, Locked, At, IsAt
  <2>12. Ready(p, t.ip, x, f, u, cwd[p])
    BY <2>4, <2>7, <2>9, <2>10, <2>11, StepReady, ZenonT(30)
  <2>13. TransStep(p, u)
    BY ZenonT(30) DEF TransStep, InTrans, MayTrans, At, Writes, IsAt
  <2>14. QED
    BY <2>3, <2>12, <2>13, CwdSame, PutStep, ZenonT(30)
<1>5. CASE panic' = "inode_alloc:no_inodes" /\ UNCHANGED <<fs, ic, th>>
  BY <1>5, PanicStep, Zenon
<1>6. QED
  BY <1>3, <1>4, <1>5, ZenonT(30) DEF create

\* Every step keeps it: one case for each action.
LEMMA SysNext ==
  ASSUME Counting, SysInv, [Next]_vars
  PROVE  SysInv'
<1>1. CASE UNCHANGED vars
  BY <1>1, PanicStep, ZenonT(30) DEF vars, SysInv
<1>2. CASE Stopped
  BY <1>2, PanicStep, ZenonT(30) DEF Stopped, vars, SysInv
<1>3. ASSUME NEW p \in Proc, panic = "none", UNCHANGED work, Step(p)
      PROVE  SysInv'
  BY <1>3, WalkFirstKeeps, CreateFirstKeeps, CloseKeeps, FileCloseKeeps, NamexKeeps,
     NamexBodyKeeps, FailedKeeps, FoundBeginKeeps, FoundLockKeeps, FreeInodeKeeps,
     CommitTransKeeps, OpenKeeps, ChdirKeeps, CreateKeeps, LockExistingKeeps, ExistingKeeps,
     CreatedKeeps, UnlinkKeeps, UnlinkLockKeeps, UnlinkEntryKeeps, UnlinkBadKeeps,
     UnlinkDoneKeeps, LinkKeeps, LinkEntryKeeps, LinkDoneKeeps, LinkUndoKeeps, LinkUndoneKeeps,
     ZenonT(30)
     DEF Step
<1>4. ASSUME NEW p \in Proc, UNCHANGED work, inode_get_panic(p)
      PROVE  SysInv'
  BY <1>4, PanicStep, ZenonT(30) DEF inode_get_panic, Panic
<1>5. QED
  BY <1>1, <1>2, <1>3, <1>4, ZenonT(30) DEF Next
=============================================================================
