---------------------------- MODULE SysFileLinks ----------------------------
(***************************************************************************)
(* What the system calls of module SysFile keep true of links: every name  *)
(* of an i-node, every subdirectory of it and every call that has counted  *)
(* a link it has not made yet, or cleared an entry it has not discounted   *)
(* yet, is counted in nlink.  So an i-node that is freed has no name, and  *)
(* nobody gets at it from then on but by the ".." of a directory.          *)
(*                                                                         *)
(* Most steps change no i-node on disk; for those it is enough that the    *)
(* call is Quiet where it goes on.  The lemmas about the others (nlink, an *)
(* entry, create, free_inode) say what of fs changes, and count again.     *)
(***************************************************************************)
EXTENDS SysFileInv, TLAPS
-----------------------------------------------------------------------------
(* Facts about processes and paths.                                        *)

\* 0 is not the number of an i-node.
LEMMA NumberIsSome == \A i \in Inum : i # None
BY DEF Inum, None

\* An idle process.
LEMMA IdleIs == IsAt(Idle, "idle", "none", <<>>, None, None, None)
<1>1. <<>> \in Seq(Name \cup {".", ".."})
  OBVIOUS
<1>2. QED
  BY <1>1, ZenonT(30) DEF IsAt, Idle, Thread, PC

\* What SysInv says of process p.
LEMMA ThreadFacts ==
  ASSUME SysInv, NEW p \in Proc
  PROVE  /\ th[p] \in Thread /\ WellFormed(th[p]) /\ p # NoProc
         /\ ic \in Cache /\ fs \in Inodes /\ cwd[p] \in Inum
         /\ \A j \in Inum : Holds(th[p], j) => ic.lock[j] = p
         /\ \A j \in Inum : ic.lock[j] = p => fs.type[j] # "free"
<1>1. p # NoProc
  BY ConstAssumption, Zenon
<1>2. \A j \in Inum : ic.lock[j] = p => fs.type[j] # "free"
  BY <1>1, ZenonT(30) DEF SysInv
<1>3. QED
  BY <1>1, <1>2, ZenonT(30) DEF SysInv, Types

\* A path begins at an i-node.
LEMMA PathFacts ==
  ASSUME SysInv, NEW p \in Proc, NEW path \in work.Path
  PROVE  Start(p, path) \in Inum /\ path.elems \in Seq(Name \cup {".", ".."})
<1>1. path \in [abs : BOOLEAN, elems : Seq(Name \cup {".", ".."})] /\ cwd[p] \in Inum
  BY ConstAssumption, ZenonT(30) DEF SysInv, Types
<1>2. ROOTINO \in Inum
  BY ConstAssumption DEF Inum, ROOTINO
<1>3. QED
  BY <1>1, <1>2, ZenonT(30) DEF Start

\* The next element of a path, and what dir_lookup finds under it.
LEMMA NextElem ==
  ASSUME SysInv, NEW d \in Inum, NEW e \in Seq(Name \cup {".", ".."}), e # <<>>
  PROVE  /\ Head(e) \in Name \cup {".", ".."} /\ Tail(e) \in Seq(Name \cup {".", ".."})
         /\ Lookup(d, Head(e)) \in Inum \cup {None}
<1>1. Head(e) \in Name \cup {".", ".."} /\ Tail(e) \in Seq(Name \cup {".", ".."})
  OBVIOUS
<1>2. ASSUME NEW n \in Name \cup {".", ".."} PROVE Lookup(d, n) \in Inum \cup {None}
  BY DEF SysInv, Types, Inodes, Lookup
<1>3. QED
  BY <1>1, <1>2, Zenon
-----------------------------------------------------------------------------
(* Steps of one process.                                                   *)

\* The number of links of an i-node, and how a step changes it.
LEMMA LinksStep ==
  ASSUME LinkCounting, NEW i \in Inum
  PROVE  LinkRecount(i)
BY Zenon DEF LinkCounting

\* An i-node without links has no names.
LEMMA LinksZero ==
  ASSUME LinkCounting
  PROVE  \A i \in Inum : /\ Links(i) \in Nat
                         /\ Links(i) = 0 => Names(i) = {} /\ Subs(i) = {} /\ Calls(i) = {}
BY LinksStep, Zenon DEF LinkRecount

\* Another process than p is freeing i-node v.
Freed(p, v) ==
  /\ v \in Inum /\ ic.lock[v] # NoProc /\ ic.lock[v] # p
  /\ fs.type[v] # "free" /\ fs.nlink[v] = 0 /\ Names(v) = {}
  /\ cwd[p] # v /\ (\A d \in 1 .. NOFILE : fds[p][d] # v) /\ Apart(th[p], v)

\* The i-node that another process is freeing.
LEMMA FreedFacts ==
  ASSUME SysInv, LinkInv, LinkCounting, NEW p \in Proc, NEW q \in Proc, q # p, th[q].pc = "free"
  PROVE  Freed(p, th[q].vic)
<1> DEFINE v == th[q].vic
<1>1. v \in Inum
  BY DEF SysInv, WellFormed, Thread
<1>2. ic.lock[v] = q /\ q # NoProc
  BY <1>1, ThreadFacts, Zenon DEF Holds
<1>3. fs.type[v] # "free"
  BY <1>1, <1>2, Zenon DEF SysInv
<1>4. fs.nlink[v] = 0 /\ fs.nlink[v] >= Links(v) /\ Clear(p, v)
  BY <1>1, Zenon DEF LinkInv
<1>5. Names(v) = {}
  <2>1. Links(v) = 0
    BY <1>1, <1>4, LinksZero
  <2>2. QED
    BY <1>1, <2>1, LinksZero, Zenon
<1>6. QED
  BY <1>1, <1>2, <1>3, <1>4, <1>5, Zenon DEF Freed, Clear

\* The step leaves process p at t, or in inode_put on the way there.
GoesTo(p, t) ==
  \E u \in Thread :
    /\ th' = [th EXCEPT ![p] = u]
    /\ At(u) = At(t) /\ u.ip = t.ip /\ u.dp = t.dp /\ u.old = t.old
    /\ u.call = t.call /\ u.elems = t.elems
    /\ u.pc = "free" => fs'.nlink[u.vic] = 0 /\ ic'.ref[u.vic] = 1 /\ u.vic \in Inum

\* A step that leaves the process at t.
LEMMA MoveGoes ==
  ASSUME NEW p, NEW t \in Thread, t.pc # "free", th' = [th EXCEPT ![p] = t]
  PROVE  GoesTo(p, t)
BY Zenon DEF GoesTo

\* inode_put leaves the process at t, or frees the i-node before.
LEMMA PutGoes ==
  ASSUME NEW p, NEW i \in Inum, NEW c \in Cache, NEW f, NEW t \in Thread, t.pc # "free",
         inode_put(p, i, c, f, t)
  PROVE  GoesTo(p, t) /\ fs' = f /\ panic' \in {panic, "inode_put:busy"}
<1>1. CASE c.ref[i] = 1 /\ i \in c.valid /\ f.nlink[i] = 0
  <2> DEFINE u == [t EXCEPT !.pc = "free", !.kont = t.pc, !.vic = i]
  <2>1. /\ u \in Thread /\ u.pc = "free" /\ u.kont = t.pc /\ u.vic = i /\ u.ip = t.ip
        /\ u.dp = t.dp /\ u.old = t.old /\ u.call = t.call /\ u.elems = t.elems
    BY ZenonT(60) DEF Thread, PC
  <2>2. /\ fs' = f /\ panic' = IF c.lock[i] = NoProc THEN panic ELSE "inode_put:busy"
        /\ ic' = [c EXCEPT !.lock[i] = p]
        /\ th' = [th EXCEPT ![p] = u]
    BY <1>1 DEF inode_put
  <2> HIDE DEF u
  <2>3. At(u) = At(t)
    BY <2>1, Zenon DEF At
  <2>4. ic'.ref = c.ref
    BY <2>2, Zenon DEF Cache
  <2>5. QED
    BY <1>1, <2>1, <2>2, <2>3, <2>4, Zenon DEF GoesTo
<1>2. CASE ~ (c.ref[i] = 1 /\ i \in c.valid /\ f.nlink[i] = 0)
  <2>1. fs' = f /\ panic' = panic /\ th' = [th EXCEPT ![p] = t]
    BY <1>2, Zenon DEF inode_put
  <2>2. QED
    BY <2>1, MoveGoes, Zenon
<1>3. QED
  BY <1>1, <1>2, Zenon

\* A step of p leaves alone the i-nodes of others: it frees none but its own,
\* and writes none but those it has locked, or new ones.
Intact(p) ==
  \A i \in Inum :
    /\ fs.type[i] # "free" /\ i # th[p].vic => fs'.type[i] = fs.type[i]
    /\ fs'.ent[i] = fs.ent[i] \/ ic.lock[i] = p \/ fs.type[i] = "free"
    /\ fs'.nlink[i] = fs.nlink[i] \/ ic.lock[i] = p \/ fs.type[i] = "free"

\* What a step that leaves Intact what other processes rely on keeps of process q.
LEMMA OthersKeep ==
  ASSUME SysInv, LinkInv, LinkCounting, NEW p \in Proc, Intact(p), NEW q \in Proc, q # p,
         cwd'[q] = cwd[q], fds'[q] = fds[q]
  PROVE  /\ FilesTyped(q)' /\ Typed(th[q], fs')
         /\ th[q].pc = "free" => fs'.nlink[th[q].vic] = 0
<1> DEFINE t == th[q]
           v == th[p].vic
<1>1. v = None \/ Clear(q, v)
  BY Zenon DEF SysInv, WellFormed, LinkInv
<1>2. /\ FilesTyped(q) /\ Typed(t, fs) /\ WellFormed(t) /\ t \in Thread
      /\ t.pc = "free" => fs.nlink[t.vic] = 0
  BY Zenon DEF LinkInv, SysInv, WellFormed
<1>3. cwd[q] \in Inum /\ \A d \in 1 .. NOFILE : fds[q][d] \in Inum \cup {None}
  <2>1. cwd \in [Proc -> Inum] /\ fds \in [Proc -> [1 .. NOFILE -> Inum \cup {None}]]
    BY Zenon DEF SysInv, Types
  <2>2. cwd[q] \in Inum /\ fds[q] \in [1 .. NOFILE -> Inum \cup {None}]
    BY <2>1, Zenon
  <2>3. QED
    BY <2>2, Zenon
<1> HIDE DEF v
<1>4. \A i \in Inum : fs.type[i] # "free" /\ i # v => fs'.type[i] = fs.type[i]
  BY Zenon DEF Intact, v
<1>5. FilesTyped(q)'
  <2>1. fs'.type[cwd[q]] = "dir"
    BY <1>1, <1>2, <1>3, <1>4, NumberIsSome DEF FilesTyped, Clear
  <2>2. ASSUME NEW d \in 1 .. NOFILE, fds[q][d] # None
        PROVE  fs'.type[fds[q][d]] # "free"
    <3>1. fds[q][d] \in Inum /\ fs.type[fds[q][d]] # "free" /\ fds[q][d] # v
      BY <1>1, <1>2, <1>3, <2>2, Zenon DEF FilesTyped, Clear
    <3>2. QED
      BY <1>4, <3>1, Zenon
  <2>3. QED
    BY <2>1, <2>2, Zenon DEF FilesTyped
<1>6. Typed(t, fs')
  <2>1. t.ip \in Inum \cup {None} /\ t.dp \in Inum \cup {None} /\ t.old \in Inum \cup {None}
    BY <1>2, Zenon DEF Thread
  <2>2. At(t) \in {"found", "locked"} /\ Parent(t.call) => fs'.type[t.ip] = "dir"
    BY <1>1, <1>2, <1>4, <2>1, ZenonT(30) DEF Typed, WellFormed, HasIp, Clear, Apart
  <2>3. ASSUME At(t) \in {"victim", "unlinking"}
        PROVE  /\ fs'.type[t.dp] = "dir" /\ Head(t.elems) \in Name
               /\ fs'.ent[t.dp][Head(t.elems)] = t.ip
    <3>1. /\ fs.type[t.dp] = "dir" /\ Head(t.elems) \in Name
          /\ fs.ent[t.dp][Head(t.elems)] = t.ip /\ t.dp \in Inum
      BY <1>2, <2>1, <2>3, ZenonT(30) DEF Typed, WellFormed, HasDp
    <3>2. t.dp # v
      BY <1>1, <1>2, <2>3, Zenon DEF Clear, Apart, WellFormed, HasDp
    <3>3. ic.lock[t.dp] = q
      BY <3>1, Zenon DEF SysInv, Holds, Locked
    <3>4. fs'.ent[t.dp] = fs.ent[t.dp]
      BY <3>1, <3>3 DEF Intact
    <3>5. QED
      BY <1>4, <3>1, <3>2, <3>4
  <2>4. HasOld(t) /\ At(t) # "linked" => fs'.type[t.old] = "file"
    BY <1>1, <1>2, <1>4, <2>1, ZenonT(30) DEF Typed, WellFormed, Clear, Apart
  <2>5. At(t) = "close" => fs'.type[t.ip] # "free"
    BY <1>1, <1>2, <1>4, <2>1, ZenonT(30) DEF Typed, WellFormed, HasIp, Clear, Apart
  <2>6. QED
    BY <2>2, <2>3, <2>4, <2>5, Zenon DEF Typed
<1>7. ASSUME t.pc = "free"
      PROVE  fs'.nlink[t.vic] = 0
  <2>1. Freed(p, t.vic)
    BY <1>7, FreedFacts, Zenon
  <2>2. QED
    BY <2>1, Zenon DEF Freed, Intact
<1>8. QED
  BY <1>5, <1>6, <1>7, Zenon

\* A step of p keeps the invariant when it keeps the links counted, and p goes to
\* no i-node that another process is freeing.
LEMMA LinkStep ==
  ASSUME SysInv, SysInv', LinkInv, LinkCounting, NEW p \in Proc, NEW t, GoesTo(p, t), Intact(p),
         \A i \in Inum : fs'.nlink[i] >= Links(i)',
         \A i \in Inum : fs'.type[i] = "free" => Names(i)' = {} /\ Calls(i)' = {},
         \A v : Freed(p, v) =>
           cwd'[p] # v /\ (\A d \in 1 .. NOFILE : fds'[p][d] # v) /\ Apart(t, v),
         FilesTyped(p)', Typed(t, fs'),
         \A q \in Proc : q # p => cwd'[q] = cwd[q] /\ fds'[q] = fds[q],
         panic' # "unlink:nlink<1"
  PROVE  LinkInv'
<1>1. PICK u \in Thread :
        /\ th' = [th EXCEPT ![p] = u]
        /\ At(u) = At(t) /\ u.ip = t.ip /\ u.dp = t.dp /\ u.old = t.old
        /\ u.call = t.call /\ u.elems = t.elems
        /\ u.pc = "free" => fs'.nlink[u.vic] = 0 /\ ic'.ref[u.vic] = 1 /\ u.vic \in Inum
  BY Zenon DEF GoesTo
<1>2. th'[p] = u /\ \A q \in Proc : q # p => th'[q] = th[q]
  <2>1. th \in [Proc -> Thread]
    BY Zenon DEF SysInv, Types
  <2>2. QED
    BY <1>1, <2>1, Zenon
<1>3. Typed(u, fs') /\ \A v : Apart(t, v) => Apart(u, v)
  BY <1>1, Zenon DEF Typed, Apart, HasOld
<1>4. ASSUME NEW q \in Proc
      PROVE  FilesTyped(q)' /\ Typed(th'[q], fs')
  <2>1. CASE q = p
    BY <1>2, <1>3, <2>1, Zenon
  <2>2. CASE q # p
    BY <1>2, <2>2, OthersKeep, Zenon
  <2>3. QED
    BY <2>1, <2>2, Zenon
<1>5. ASSUME NEW q \in Proc, th'[q].pc = "free"
      PROVE  (fs.nlink[th[q].vic] = 0 /\ \A r \in Proc : Clear(r, th[q].vic))'
  <2>1. PICK v : v = th'[q].vic
    BY Zenon
  <2> SUFFICES fs'.nlink[v] = 0 /\ \A r \in Proc : Clear(r, v)'
    BY <2>1, Zenon DEF Clear
  <2>2. CASE q = p
    <3>1. v = u.vic /\ u.pc = "free"
      BY <1>2, <1>5, <2>1, <2>2, Zenon
    <3>2. QED
      BY <1>1, <1>2, <3>1, Zenon DEF LinkCounting, SoleRef
  <2>3. CASE q # p
    <3>1. th'[q] = th[q] /\ th[q].pc = "free" /\ v = th[q].vic
      BY <1>2, <1>5, <2>1, <2>3, Zenon
    <3>2. fs'.nlink[v] = 0
      BY <2>3, <3>1, OthersKeep, Zenon
    <3>3. Freed(p, v)
      BY <2>3, <3>1, FreedFacts, Zenon
    <3>4. ASSUME NEW r \in Proc
          PROVE  Clear(r, v)'
      <4>1. CASE r = p
        <5>1. cwd'[p] # v /\ (\A d \in 1 .. NOFILE : fds'[p][d] # v) /\ Apart(t, v)
          BY <3>3, Zenon
        <5>2. QED
          BY <1>2, <1>3, <4>1, <5>1, Zenon DEF Clear
      <4>2. CASE r # p
        <5>1. Clear(r, v)
          BY <3>1, Zenon DEF LinkInv
        <5>2. QED
          BY <1>2, <4>2, <5>1, Zenon DEF Clear
      <4>3. QED
        BY <4>1, <4>2, Zenon
    <3>5. QED
      BY <3>2, <3>4, Zenon
  <2>4. QED
    BY <2>2, <2>3, Zenon
<1>6. QED
  BY <1>4, <1>5, Zenon DEF LinkInv


\* The calls that account for a link of i, after a step that leaves p at t.
LEMMA CallsStep ==
  ASSUME SysInv, NEW p \in Proc, NEW t, GoesTo(p, t), NEW i
  PROVE  /\ Calls(i)' \subseteq Calls(i) \cup {p}
         /\ (Counted(t, i) => Counted(th[p], i)) => Calls(i)' \subseteq Calls(i)
         /\ ~Counted(t, i) => Calls(i)' \subseteq Calls(i) \ {p}
         /\ Counted(th[p], i) => p \in Calls(i)
<1>1. PICK u \in Thread :
        /\ th' = [th EXCEPT ![p] = u]
        /\ At(u) = At(t) /\ u.ip = t.ip /\ u.dp = t.dp /\ u.old = t.old
        /\ u.call = t.call /\ u.elems = t.elems
  BY Zenon DEF GoesTo
<1>2. th \in [Proc -> Thread]
  BY Zenon DEF SysInv, Types
<1>3. th'[p] = u /\ \A q \in Proc : q # p => th'[q] = th[q]
  BY <1>1, <1>2, Zenon
<1>4. Counted(u, i) <=> Counted(t, i)
  BY <1>1, Zenon DEF Counted, HasOld
<1>5. Calls(i)' = {q \in Proc : Counted(th'[q], i)}
  BY Zenon DEF Calls, Counted, HasOld, At
<1>6. \A q : q \in Calls(i)' => q \in Proc /\ ((q = p /\ Counted(t, i)) \/ (q # p /\ q \in Calls(i)))
  <2>1. ASSUME NEW q, q \in Calls(i)'
        PROVE  q \in Proc /\ ((q = p /\ Counted(t, i)) \/ (q # p /\ q \in Calls(i)))
    <3>1. q \in Proc /\ Counted(th'[q], i)
      BY <1>5, <2>1, Zenon
    <3>2. CASE q = p
      <4>1. Counted(u, i)
        BY <1>3, <3>1, <3>2, Zenon
      <4>2. QED
        BY <1>4, <3>1, <3>2, <4>1, Zenon
    <3>3. CASE q # p
      <4>1. Counted(th[q], i)
        BY <1>3, <3>1, <3>3, Zenon
      <4>2. QED
        BY <3>1, <3>3, <4>1, Zenon DEF Calls
    <3>4. QED
      BY <3>2, <3>3, Zenon
  <2>2. QED
    BY <2>1, Zenon
<1>7. QED
  BY <1>6, Zenon DEF Calls

\* A step of p that goes on at t and changes no i-node, and no descriptor or
\* current directory but its own.
LEMMA QuietStep ==
  ASSUME SysInv, SysInv', LinkInv, LinkCounting, NEW p \in Proc, NEW t, GoesTo(p, t),
         UNCHANGED fs,
         \A i \in Inum : Counted(t, i) => Counted(th[p], i),
         \A v : Freed(p, v) =>
           cwd'[p] # v /\ (\A d \in 1 .. NOFILE : fds'[p][d] # v) /\ Apart(t, v),
         FilesTyped(p)', Typed(t, fs),
         \A q \in Proc : q # p => cwd'[q] = cwd[q] /\ fds'[q] = fds[q],
         panic' # "unlink:nlink<1"
  PROVE  LinkInv'
<1>1. ASSUME NEW i \in Inum
      PROVE  /\ fs'.nlink[i] >= Links(i)'
             /\ fs'.type[i] = "free" => Names(i)' = {} /\ Calls(i)' = {}
  <2>1. Names(i)' = Names(i) /\ Subs(i)' = Subs(i)
    BY Zenon DEF Names, Subs
  <2>2. Calls(i)' \subseteq Calls(i)
    BY CallsStep, Zenon
  <2>3. Links(i)' <= Links(i) /\ Links(i) \in Nat /\ Links(i)' \in Nat
    BY <2>1, <2>2, LinksStep, Zenon DEF LinkRecount
  <2>4. fs.nlink[i] >= Links(i) /\ fs.nlink[i] \in Int
    BY DEF LinkInv, SysInv, Types, Inodes
  <2>5. fs'.nlink[i] >= Links(i)'
    <3>1. fs'.nlink[i] = fs.nlink[i]
      BY Zenon
    <3>2. QED
      BY <2>3, <2>4, <3>1
  <2>6. fs.type[i] = "free" => Names(i) = {} /\ Calls(i) = {}
    BY Zenon DEF LinkInv
  <2>7. QED
    BY <2>1, <2>2, <2>5, <2>6, Zenon
<1>2. Intact(p)
  BY Zenon DEF Intact
<1>3. Typed(t, fs')
  BY Zenon
<1>4. QED
  BY <1>1, <1>2, <1>3, LinkStep, Zenon

\* A step that changes neither i-nodes nor processes.
LEMMA SameStep ==
  ASSUME LinkInv, UNCHANGED <<fs, cwd, fds, th>>, panic' # "unlink:nlink<1"
  PROVE  LinkInv'
<1>1. \A i : Names(i)' = Names(i) /\ Subs(i)' = Subs(i) /\ Calls(i)' = Calls(i)
  BY DEF Names, Subs, Calls, Counted, HasOld, At
<1>2. \A p : FilesTyped(p)' = FilesTyped(p)
  BY Zenon DEF FilesTyped
<1>3. \A p, i : Clear(p, i)' = Clear(p, i)
  BY Zenon DEF Clear, Apart, At
<1>4. \A p : Typed(th[p], fs)' <=> Typed(th[p], fs)
  BY DEF Typed, At, HasOld
<1>5. \A i : Links(i)' = Links(i)
  BY <1>1, Zenon DEF Links
<1>6. QED
  BY <1>1, <1>2, <1>3, <1>4, <1>5, Zenon DEF LinkInv

\* At t the call of p is apart from what others are freeing: it keeps its old
\* i-node and its parent, or has them locked; so is its i-node, or it is free
\* or has a name, or it has only been looked up.
Spares(p, t) ==
  /\ t.old = None \/ t.old = th[p].old \/ ic.lock[t.old] = p
  /\ t.dp = None \/ t.dp = th[p].dp \/ ic.lock[t.dp] = p
  /\ \/ t.ip = None \/ ic.lock[t.ip] \in {p, NoProc} \/ fs.type[t.ip] = "free"
     \/ Names(t.ip) # {} \/ \E d \in 1 .. NOFILE : fds[p][d] = t.ip
     \/ At(t) \in {"walk", "exists"} \/ (At(t) = "found" /\ ~Parent(t.call))

\* A process that Spares what others free stays apart from it.
LEMMA SparesFreed ==
  ASSUME NEW p, NEW t, Spares(p, t), NEW v, Freed(p, v)
  PROVE  Apart(t, v)
<1>1. v \in Inum /\ v # None /\ Apart(th[p], v)
  BY NumberIsSome, Zenon DEF Freed
<1>2. t.dp # v
  BY <1>1, Zenon DEF Freed, Spares, Apart
<1>3. t.old # v
  BY <1>1, Zenon DEF Freed, Spares, Apart
<1>4. t.ip = v => /\ At(t) \in {"walk", "found", "exists"}
                  /\ At(t) = "found" => ~Parent(t.call)
  BY <1>1, SMTT(30) DEF Freed, Spares
<1>5. QED
  BY <1>2, <1>3, <1>4, Zenon DEF Apart

\* At t the call of p counts no link that it did not count before, and knows
\* what it has to about its i-nodes.
Quiet(p, t) ==
  /\ Spares(p, t)
  /\ At(t) # "unlinked"
  /\ HasOld(t) /\ At(t) # "linked" =>
       t.old = th[p].old /\ HasOld(th[p]) /\ At(th[p]) # "linked"
  /\ At(t) \in {"found", "locked"} /\ Parent(t.call) => fs.type[t.ip] = "dir"
  /\ At(t) \in {"victim", "unlinking"} =>
       fs.type[t.dp] = "dir" /\ Head(t.elems) \in Name /\ fs.ent[t.dp][Head(t.elems)] = t.ip
  /\ At(t) = "close" => fs.type[t.ip] # "free"

\* Going on there keeps the invariant,
LEMMA QuietFiles ==
  ASSUME SysInv, SysInv', LinkInv, LinkCounting, NEW p \in Proc, NEW t, GoesTo(p, t), Quiet(p, t),
         UNCHANGED fs, panic' # "unlink:nlink<1",
         \A v : Freed(p, v) => cwd'[p] # v /\ \A d \in 1 .. NOFILE : fds'[p][d] # v,
         FilesTyped(p)',
         \A q \in Proc : q # p => cwd'[q] = cwd[q] /\ fds'[q] = fds[q]
  PROVE  LinkInv'
<1>1. \A i \in Inum : Counted(t, i) => Counted(th[p], i)
  BY Zenon DEF Counted, Quiet
<1>2. \A v : Freed(p, v) => Apart(t, v)
  BY SparesFreed, Zenon DEF Quiet
<1>3. Typed(th[p], fs)
  BY Zenon DEF LinkInv
<1>4. Typed(t, fs)
  BY <1>3, Zenon DEF Typed, Quiet
<1>5. QED
  BY <1>1, <1>2, <1>4, QuietStep, Zenon

\* also when no file or directory changes hands,
LEMMA QuietMove ==
  ASSUME SysInv, SysInv', LinkInv, LinkCounting, NEW p \in Proc, NEW t, GoesTo(p, t), Quiet(p, t),
         UNCHANGED <<fs, cwd, fds>>, panic' # "unlink:nlink<1"
  PROVE  LinkInv'
<1>1. \A v : Freed(p, v) => cwd'[p] # v /\ \A d \in 1 .. NOFILE : fds'[p][d] # v
  BY Zenon DEF Freed
<1>2. FilesTyped(p)'
  BY Zenon DEF LinkInv, FilesTyped
<1>3. QED
  BY <1>1, <1>2, QuietFiles, Zenon

\* by inode_lock,
LEMMA QuietLock ==
  ASSUME SysInv, SysInv', LinkInv, LinkCounting, NEW p \in Proc, NEW i, NEW t \in Thread,
         t.pc # "free", inode_lock(p, i, t), Quiet(p, t)
  PROVE  LinkInv'
<1>1. CASE Panic("inode_lock:no_type")
  BY <1>1, SameStep, Zenon DEF Panic
<1>2. CASE th' = [th EXCEPT ![p] = t] /\ UNCHANGED <<fs, cwd, fds, panic>>
  BY <1>2, MoveGoes, QuietMove, Zenon DEF LinkInv
<1>3. QED
  BY <1>1, <1>2, Zenon DEF inode_lock

\* by inode_put
LEMMA QuietPut ==
  ASSUME SysInv, SysInv', LinkInv, LinkCounting, NEW p \in Proc, NEW i \in Inum, NEW c \in Cache,
         NEW t \in Thread, t.pc # "free", inode_put(p, i, c, fs, t), Quiet(p, t),
         UNCHANGED <<cwd, fds>>
  PROVE  LinkInv'
<1>1. GoesTo(p, t) /\ fs' = fs /\ panic' \in {panic, "inode_put:busy"}
  BY PutGoes, Zenon
<1>2. panic' # "unlink:nlink<1"
  BY <1>1, Zenon DEF LinkInv
<1>3. QED
  BY <1>1, <1>2, QuietMove, Zenon

\* and by inode_unlockput.
LEMMA QuietDrop ==
  ASSUME SysInv, SysInv', LinkInv, LinkCounting, NEW p \in Proc, NEW i \in Inum, NEW c \in Cache,
         NEW t \in Thread, t.pc # "free", inode_unlockput(p, i, c, fs, t), Quiet(p, t),
         UNCHANGED <<cwd, fds>>
  PROVE  LinkInv'
<1>1. inode_unlock(c, i) \in Cache
  BY Zenon DEF inode_unlock, Cache
<1>2. QED
  BY <1>1, QuietPut, Zenon DEF inode_unlockput

\* inode_get leaves a cache.
LEMMA GetIsCache ==
  ASSUME NEW c \in Cache, NEW e \in Inum
  PROVE  inode_get(c, e) \in Cache
<1>1. c.ref[e] + 1 \in Nat
  BY DEF Cache
<1>2. QED
  BY <1>1, Zenon DEF inode_get, Cache

\* What the invariants say of process p, when it is not freeing an i-node.
LEMMA LinkFacts ==
  ASSUME SysInv, LinkInv, NEW p \in Proc, th[p].pc # "free"
  PROVE  /\ th[p] \in Thread /\ At(th[p]) = th[p].pc /\ th[p].vic = None /\ th[p].kont = "none"
         /\ WellFormed(th[p]) /\ Typed(th[p], fs) /\ FilesTyped(p)
         /\ ic \in Cache /\ fs \in Inodes /\ cwd[p] \in Inum
         /\ \A j \in Inum : Holds(th[p], j) => ic.lock[j] = p /\ fs.type[j] # "free"
<1>1. Typed(th[p], fs) /\ FilesTyped(p)
  BY Zenon DEF LinkInv
<1>2. th[p].vic = None /\ th[p].kont = "none" /\ At(th[p]) = th[p].pc
  BY ThreadFacts, Zenon DEF WellFormed, At
<1>3. QED
  BY <1>1, <1>2, ThreadFacts, Zenon
-----------------------------------------------------------------------------
(* The actions that change no i-node.                                      *)

\* The beginning of a call.
LEMMA BeginLinks ==
  ASSUME SysInv, SysInv', LinkInv, LinkCounting, panic = "none", NEW p \in Proc, NEW call,
         NEW path \in work.Path,
         sys_walk_first(p, call, path) \/ sys_create_first(p, call, path)
  PROVE  LinkInv'
<1> DEFINE s == Start(p, path)
           u == Walk(p, call, path, Idle)
<1>1. /\ call \in {"open", "chdir", "unlink", "link", "create", "mkdir"}
      /\ th' = [th EXCEPT ![p] = u] /\ UNCHANGED <<fs, cwd, fds, panic>>
  BY Zenon DEF sys_walk_first, sys_create_first
<1>2. s \in Inum /\ path.elems \in Seq(Name \cup {".", ".."})
  BY PathFacts, Zenon
<1>3. IsAt(u, "walk", call, path.elems, s, None, None)
  BY <1>1, <1>2, IdleIs, ZenonT(60) DEF Thread, PC, IsAt, Walk
<1> HIDE DEF u, s
<1>4. Quiet(p, u)
  BY <1>1, <1>3, ZenonT(30) DEF Quiet, Spares, At, HasOld, IsAt
<1>5. QED
  BY <1>1, <1>3, <1>4, MoveGoes, QuietMove, Zenon DEF LinkInv, IsAt

\* namex at the test of its loop.
LEMMA NamexLinks ==
  ASSUME SysInv, SysInv', LinkInv, LinkCounting, panic = "none", NEW p \in Proc, namex(p)
  PROVE  LinkInv'
<1> DEFINE t == th[p]
<1>1. /\ t \in Thread /\ t.pc = "walk" /\ At(t) = "walk" /\ t.vic = None /\ t.kont = "none"
      /\ t.ip \in Inum /\ t.dp = None /\ (t.old # None <=> t.call = "link2") /\ ic \in Cache
  BY LinkFacts, ZenonT(30) DEF namex, WellFormed, HasIp, HasDp, HasOld, Thread
<1> USE <1>1, NumberIsSome
<1>2. CASE inode_lock(p, t.ip, [t EXCEPT !.pc = "walking"])
  <2> DEFINE u == [t EXCEPT !.pc = "walking"]
  <2>1. IsAt(u, "walking", t.call, t.elems, t.ip, None, t.old) /\ inode_lock(p, t.ip, u)
    BY <1>2, ZenonT(30) DEF Thread, PC, IsAt
  <2> HIDE DEF u
  <2>2. Quiet(p, u)
    BY <2>1, ZenonT(30) DEF Quiet, Spares, At, HasOld, IsAt, inode_lock
  <2>3. QED
    BY <2>1, <2>2, QuietLock, Zenon DEF IsAt
<1>3. CASE /\ inode_put(p, t.ip, ic, fs, [t EXCEPT !.pc = "fail", !.ip = None])
           /\ UNCHANGED <<cwd, fds>>
  <2> DEFINE u == [t EXCEPT !.pc = "fail", !.ip = None]
  <2>1. IsAt(u, "fail", t.call, t.elems, None, None, t.old) /\ inode_put(p, t.ip, ic, fs, u)
    BY <1>3, ZenonT(30) DEF Thread, PC, IsAt
  <2> HIDE DEF u
  <2>2. Quiet(p, u)
    BY <2>1, ZenonT(30) DEF Quiet, Spares, At, HasOld, IsAt
  <2>3. QED
    BY <1>3, <2>1, <2>2, QuietPut, Zenon DEF IsAt
<1>4. CASE /\ ~Parent(t.call) /\ th' = [th EXCEPT ![p].pc = "found"]
           /\ UNCHANGED <<fs, cwd, fds, panic>>
  <2> DEFINE u == [t EXCEPT !.pc = "found"]
  <2>1. IsAt(u, "found", t.call, t.elems, t.ip, None, t.old) /\ th' = [th EXCEPT ![p] = u]
    BY <1>4, ZenonT(30) DEF Thread, PC, IsAt
  <2> HIDE DEF u
  <2>2. Quiet(p, u)
    BY <1>4, <2>1, ZenonT(30) DEF Quiet, Spares, At, HasOld, IsAt
  <2>3. QED
    BY <1>4, <2>1, <2>2, MoveGoes, QuietMove, Zenon DEF IsAt, LinkInv
<1>5. QED
  BY <1>2, <1>3, <1>4, Zenon DEF namex

\* The body of the loop.
LEMMA NamexBodyLinks ==
  ASSUME SysInv, SysInv', LinkInv, LinkCounting, panic = "none", NEW p \in Proc, namex_body(p)
  PROVE  LinkInv'
<1> DEFINE t == th[p]
           sub == Lookup(t.ip, Head(t.elems))
<1>1. /\ t \in Thread /\ t.pc = "walking" /\ At(t) = "walking" /\ t.vic = None /\ t.kont = "none"
      /\ t.ip \in Inum /\ t.dp = None /\ (t.old # None <=> t.call = "link2") /\ ic \in Cache
      /\ t.elems # <<>> /\ UNCHANGED <<cwd, fds>>
  BY LinkFacts, ZenonT(30) DEF namex_body, WellFormed, HasIp, HasDp, HasOld, Thread
<1>2. ic.lock[t.ip] = p
  BY <1>1, LinkFacts, Zenon DEF Holds, Locked
<1>3. sub \in Inum \cup {None} /\ Tail(t.elems) \in Seq(Name \cup {".", ".."})
  BY <1>1, NextElem, ZenonT(30) DEF Thread
<1> USE <1>1, NumberIsSome
<1> HIDE DEF sub
<1>4. CASE inode_unlockput(p, t.ip, ic, fs, [t EXCEPT !.pc = "fail", !.ip = None])
  <2> DEFINE u == [t EXCEPT !.pc = "fail", !.ip = None]
  <2>1. IsAt(u, "fail", t.call, t.elems, None, None, t.old) /\ inode_unlockput(p, t.ip, ic, fs, u)
    BY <1>4, ZenonT(30) DEF Thread, PC, IsAt
  <2> HIDE DEF u
  <2>2. Quiet(p, u)
    BY <2>1, ZenonT(30) DEF Quiet, Spares, At, HasOld, IsAt
  <2>3. QED
    BY <2>1, <2>2, QuietDrop, Zenon DEF IsAt
<1>5. CASE /\ fs.type[t.ip] = "dir" /\ th' = [th EXCEPT ![p].pc = "found"]
           /\ UNCHANGED <<fs, panic>>
  <2> DEFINE u == [t EXCEPT !.pc = "found"]
  <2>1. IsAt(u, "found", t.call, t.elems, t.ip, None, t.old) /\ th' = [th EXCEPT ![p] = u]
    BY <1>5, ZenonT(30) DEF Thread, PC, IsAt
  <2> HIDE DEF u
  <2>2. Quiet(p, u)
    BY <1>2, <1>5, <2>1, ZenonT(30) DEF Quiet, Spares, At, HasOld, IsAt
  <2>3. QED
    BY <1>5, <2>1, <2>2, MoveGoes, QuietMove, Zenon DEF IsAt, LinkInv
<1>6. CASE /\ sub # None
           /\ inode_unlockput(p, t.ip, inode_get(ic, sub), fs,
                [t EXCEPT !.pc = "walk", !.ip = sub, !.elems = Tail(@)])
  <2> DEFINE u == [t EXCEPT !.pc = "walk", !.ip = sub, !.elems = Tail(t.elems)]
             c == inode_get(ic, sub)
  <2>1. c \in Cache
    BY <1>3, <1>6, GetIsCache, Zenon
  <2>2. IsAt(u, "walk", t.call, Tail(t.elems), sub, None, t.old) /\ inode_unlockput(p, t.ip, c, fs, u)
    BY <1>3, <1>6, ZenonT(30) DEF Thread, PC, IsAt
  <2> HIDE DEF u, c
  <2>3. Quiet(p, u)
    BY <2>2, ZenonT(30) DEF Quiet, Spares, At, HasOld, IsAt
  <2>4. QED
    BY <2>1, <2>2, <2>3, QuietDrop, Zenon DEF IsAt
<1>7. QED
  BY <1>4, <1>5, <1>6, Zenon DEF namex_body, sub

\* namex has returned 0.
LEMMA FailedLinks ==
  ASSUME SysInv, SysInv', LinkInv, LinkCounting, panic = "none", NEW p \in Proc, failed(p)
  PROVE  LinkInv'
<1> DEFINE t == th[p]
<1>1. /\ t \in Thread /\ t.pc = "fail" /\ At(t) = "fail" /\ t.vic = None /\ t.kont = "none"
      /\ t.ip = None /\ t.dp = None /\ (t.old # None <=> t.call = "link2")
      /\ UNCHANGED <<fs, cwd, fds, panic>>
  BY LinkFacts, ZenonT(30) DEF failed, WellFormed, HasIp, HasDp, HasOld, Thread
<1> USE <1>1, NumberIsSome
<1>2. CASE t.call \in {"create", "mkdir"} /\ th' = [th EXCEPT ![p] = [t EXCEPT !.pc = "commit"]]
  <2> DEFINE u == [t EXCEPT !.pc = "commit"]
  <2>1. IsAt(u, "commit", t.call, t.elems, None, None, None) /\ th' = [th EXCEPT ![p] = u]
    BY <1>2, ZenonT(30) DEF Thread, PC, IsAt
  <2> HIDE DEF u
  <2>2. Quiet(p, u)
    BY <2>1, ZenonT(30) DEF Quiet, Spares, At, HasOld, IsAt
  <2>3. QED
    BY <2>1, <2>2, MoveGoes, QuietMove, Zenon DEF IsAt, LinkInv
<1>3. CASE t.call = "link2" /\ th' = [th EXCEPT ![p] = [t EXCEPT !.pc = "undo"]]
  <2> DEFINE u == [t EXCEPT !.pc = "undo"]
  <2>1. IsAt(u, "undo", t.call, t.elems, None, None, t.old) /\ th' = [th EXCEPT ![p] = u]
    BY <1>3, ZenonT(30) DEF Thread, PC, IsAt
  <2> HIDE DEF u
  <2>2. Quiet(p, u)
    BY <1>3, <2>1, ZenonT(30) DEF Quiet, Spares, At, HasOld, IsAt
  <2>3. QED
    BY <2>1, <2>2, MoveGoes, QuietMove, Zenon DEF IsAt, LinkInv
<1>4. CASE th' = [th EXCEPT ![p] = Idle]
  <2>1. Quiet(p, Idle)
    BY IdleIs, ZenonT(30) DEF Quiet, Spares, At, HasOld, IsAt
  <2>2. QED
    BY <1>4, <2>1, IdleIs, MoveGoes, QuietMove, Zenon DEF IsAt, LinkInv
<1>5. QED
  BY <1>2, <1>3, <1>4, Zenon DEF failed

\* The i-node that was looked up is locked: for nameiparent, still a directory.
LEMMA FoundLockLinks ==
  ASSUME SysInv, SysInv', LinkInv, LinkCounting, panic = "none", NEW p \in Proc, found_lock(p)
  PROVE  LinkInv'
<1> DEFINE t == th[p]
           u == [t EXCEPT !.pc = "locked"]
<1>1. /\ t \in Thread /\ t.pc = "found" /\ At(t) = "found" /\ t.vic = None /\ t.kont = "none"
      /\ t.ip \in Inum /\ t.dp = None /\ (t.old # None <=> t.call = "link2")
      /\ Parent(t.call) => fs.type[t.ip] = "dir"
  <2>1. t.pc = "found"
    BY Zenon DEF found_lock
  <2>2. /\ t \in Thread /\ At(t) = "found" /\ t.vic = None /\ t.kont = "none"
        /\ WellFormed(t) /\ Typed(t, fs)
    BY <2>1, LinkFacts, Zenon
  <2>3. t.ip # None /\ t.dp = None /\ (t.old # None <=> t.call = "link2")
    BY <2>2, Zenon DEF WellFormed, HasIp, HasDp, HasOld
  <2>4. t.ip \in Inum
    BY <2>2, <2>3, Zenon DEF Thread
  <2>5. QED
    BY <2>1, <2>2, <2>3, <2>4, Zenon DEF Typed
<1> USE <1>1, NumberIsSome
<1>2. IsAt(u, "locked", t.call, t.elems, t.ip, None, t.old) /\ inode_lock(p, t.ip, u)
  BY ZenonT(30) DEF Thread, PC, IsAt, found_lock
<1> HIDE DEF u
<1>3. Quiet(p, u)
  BY <1>2, ZenonT(30) DEF Quiet, Spares, At, HasOld, IsAt, inode_lock
<1>4. QED
  BY <1>2, <1>3, QuietLock, Zenon DEF IsAt

\* The end of a transaction.
LEMMA CommitLinks ==
  ASSUME SysInv, SysInv', LinkInv, LinkCounting, panic = "none", NEW p \in Proc, commit_trans(p)
  PROVE  LinkInv'
<1> DEFINE t == th[p]
<1>1. /\ t \in Thread /\ t.pc = "commit" /\ At(t) = "commit" /\ t.vic = None /\ t.kont = "none"
      /\ t.ip \in Inum \cup {None} /\ t.dp = None /\ t.old = None
      /\ UNCHANGED <<fs, cwd, fds, panic>>
  BY LinkFacts, ZenonT(30) DEF commit_trans, WellFormed, HasDp, HasOld, Thread
<1>2. t.ip # None => ic.lock[t.ip] = p
  BY <1>1, LinkFacts, Zenon DEF Holds, Locked
<1> USE <1>1, NumberIsSome
<1>3. CASE th' = [th EXCEPT ![p] = [t EXCEPT !.pc = "locked", !.call = "open"]]
  <2> DEFINE u == [t EXCEPT !.pc = "locked", !.call = "open"]
  <2>1. IsAt(u, "locked", "open", t.elems, t.ip, None, None) /\ th' = [th EXCEPT ![p] = u]
    BY <1>3, ZenonT(30) DEF Thread, PC, IsAt
  <2> HIDE DEF u
  <2>2. Quiet(p, u)
    BY <1>2, <2>1, ZenonT(30) DEF Quiet, Spares, At, HasOld, IsAt, Parent
  <2>3. QED
    BY <2>1, <2>2, MoveGoes, QuietMove, Zenon DEF IsAt, LinkInv
<1>4. CASE th' = [th EXCEPT ![p] = Idle]
  <2>1. Quiet(p, Idle)
    BY IdleIs, ZenonT(30) DEF Quiet, Spares, At, HasOld, IsAt
  <2>2. QED
    BY <1>4, <2>1, IdleIs, MoveGoes, QuietMove, Zenon DEF IsAt, LinkInv
<1>5. QED
  BY <1>3, <1>4, Zenon DEF commit_trans

\* The end of file_close.
LEMMA FileCloseLinks ==
  ASSUME SysInv, SysInv', LinkInv, LinkCounting, panic = "none", NEW p \in Proc, file_close(p)
  PROVE  LinkInv'
<1> DEFINE u == [Idle EXCEPT !.pc = "commit"]
<1>1. th[p].ip \in Inum /\ ic \in Cache /\ UNCHANGED <<cwd, fds>>
  <2>1. th[p].pc = "close" /\ UNCHANGED <<cwd, fds>>
    BY Zenon DEF file_close
  <2>2. th[p] \in Thread /\ th[p].ip # None /\ ic \in Cache
    BY <2>1, LinkFacts, Zenon DEF WellFormed, HasIp
  <2>3. QED
    BY <2>1, <2>2, Zenon DEF Thread
<1>2. IsAt(u, "commit", "none", <<>>, None, None, None) /\ inode_put(p, th[p].ip, ic, fs, u)
  BY IdleIs, ZenonT(30) DEF Thread, PC, IsAt, file_close
<1> HIDE DEF u
<1>3. Quiet(p, u)
  BY <1>2, ZenonT(30) DEF Quiet, Spares, At, HasOld, IsAt
<1>4. QED
  BY <1>1, <1>2, <1>3, QuietPut, Zenon DEF IsAt

\* create has found the name: the i-node is locked, and kept or put.
LEMMA ExistingLinks ==
  ASSUME SysInv, SysInv', LinkInv, LinkCounting, panic = "none", NEW p \in Proc,
         create_lock_existing(p) \/ create_existing(p) \/ created(p)
  PROVE  LinkInv'
<1> DEFINE t == th[p]
<1>1. t.pc \in {"exists", "existing", "created"} /\ t.pc # "free"
  BY Zenon DEF create_lock_existing, create_existing, created
<1>2. /\ t \in Thread /\ At(t) = t.pc /\ t.vic = None /\ t.kont = "none"
      /\ t.ip \in Inum /\ t.dp = None /\ t.old = None /\ ic \in Cache
  <2>1. t \in Thread /\ At(t) = t.pc /\ t.vic = None /\ t.kont = "none" /\ ic \in Cache
    BY <1>1, LinkFacts, Zenon
  <2>2. t.ip # None /\ t.dp = None /\ t.old = None
    BY <1>1, <2>1, LinkFacts, ZenonT(30) DEF WellFormed, HasIp, HasDp, HasOld
  <2>3. QED
    BY <2>1, <2>2, Zenon DEF Thread
<1>3. t.pc \in {"existing", "created"} => ic.lock[t.ip] = p
  BY <1>1, <1>2, LinkFacts, Zenon DEF Holds, Locked
<1> USE <1>2, NumberIsSome
<1>4. CASE inode_lock(p, t.ip, [t EXCEPT !.pc = "existing"])
  <2> DEFINE u == [t EXCEPT !.pc = "existing"]
  <2>1. IsAt(u, "existing", t.call, t.elems, t.ip, None, None) /\ inode_lock(p, t.ip, u)
    BY <1>4, ZenonT(30) DEF Thread, PC, IsAt
  <2> HIDE DEF u
  <2>2. Quiet(p, u)
    BY <2>1, ZenonT(30) DEF Quiet, Spares, At, HasOld, IsAt, inode_lock
  <2>3. QED
    BY <2>1, <2>2, QuietLock, Zenon DEF IsAt
<1>5. CASE /\ t.pc \in {"existing", "created"} /\ th' = [th EXCEPT ![p].pc = "commit"]
           /\ UNCHANGED <<fs, cwd, fds, panic>>
  <2> DEFINE u == [t EXCEPT !.pc = "commit"]
  <2>1. IsAt(u, "commit", t.call, t.elems, t.ip, None, None) /\ th' = [th EXCEPT ![p] = u]
    BY <1>5, ZenonT(30) DEF Thread, PC, IsAt
  <2> HIDE DEF u
  <2>2. Quiet(p, u)
    BY <1>3, <1>5, <2>1, ZenonT(30) DEF Quiet, Spares, At, HasOld, IsAt
  <2>3. QED
    BY <1>5, <2>1, <2>2, MoveGoes, QuietMove, Zenon DEF IsAt, LinkInv
<1>6. CASE /\ inode_unlockput(p, t.ip, ic, fs, [t EXCEPT !.pc = "commit", !.ip = None])
           /\ UNCHANGED <<cwd, fds>>
  <2> DEFINE u == [t EXCEPT !.pc = "commit", !.ip = None]
  <2>1. IsAt(u, "commit", t.call, t.elems, None, None, None) /\ inode_unlockput(p, t.ip, ic, fs, u)
    BY <1>6, ZenonT(30) DEF Thread, PC, IsAt
  <2> HIDE DEF u
  <2>2. Quiet(p, u)
    BY <2>1, ZenonT(30) DEF Quiet, Spares, At, HasOld, IsAt
  <2>3. QED
    BY <1>6, <2>1, <2>2, QuietDrop, Zenon DEF IsAt
<1>7. QED
  BY <1>4, <1>5, <1>6, Zenon DEF create_lock_existing, create_existing, created

\* sys_unlink with the parent locked: the victim has a name.
LEMMA UnlinkLinks ==
  ASSUME SysInv, SysInv', LinkInv, LinkCounting, panic = "none", NEW p \in Proc, sys_unlink(p)
  PROVE  LinkInv'
<1> DEFINE t == th[p]
           n == Head(t.elems)
           e == Lookup(t.ip, n)
<1>1. /\ t \in Thread /\ t.pc = "locked" /\ At(t) = "locked" /\ t.vic = None /\ t.kont = "none"
      /\ t.ip \in Inum /\ t.dp = None /\ t.old = None /\ ic \in Cache /\ t.call = "unlink"
      /\ t.elems # <<>> /\ fs.type[t.ip] = "dir" /\ UNCHANGED <<cwd, fds>>
  <2>1. t.pc = "locked" /\ t.call = "unlink" /\ Parent(t.call) /\ UNCHANGED <<cwd, fds>>
    BY Zenon DEF sys_unlink, Parent
  <2>2. /\ t \in Thread /\ At(t) = "locked" /\ t.vic = None /\ t.kont = "none" /\ ic \in Cache
        /\ WellFormed(t) /\ Typed(t, fs)
    BY <2>1, LinkFacts, Zenon
  <2>3. t.ip # None /\ t.dp = None /\ t.old = None /\ t.elems # <<>> /\ fs.type[t.ip] = "dir"
    BY <2>1, <2>2, ZenonT(30) DEF WellFormed, HasIp, HasDp, HasOld, Typed
  <2>4. QED
    BY <2>1, <2>2, <2>3, Zenon DEF Thread
<1>2. ic.lock[t.ip] = p
  BY <1>1, LinkFacts, Zenon DEF Holds, Locked
<1> USE <1>1, NumberIsSome
<1>3. CASE inode_unlockput(p, t.ip, ic, fs, [t EXCEPT !.pc = "commit", !.ip = None])
  <2> DEFINE u == [t EXCEPT !.pc = "commit", !.ip = None]
  <2>1. IsAt(u, "commit", t.call, t.elems, None, None, None) /\ inode_unlockput(p, t.ip, ic, fs, u)
    BY <1>3, ZenonT(30) DEF Thread, PC, IsAt
  <2> HIDE DEF u
  <2>2. Quiet(p, u)
    BY <2>1, ZenonT(30) DEF Quiet, Spares, At, HasOld, IsAt
  <2>3. QED
    BY <1>3, <2>1, <2>2, QuietDrop, Zenon DEF IsAt
<1>4. CASE /\ ~ (n \in {".", ".."} \/ e = None)
           /\ th' = [th EXCEPT ![p] = [t EXCEPT !.pc = "victim", !.dp = t.ip, !.ip = e]]
           /\ UNCHANGED <<fs, panic>>
  <2> DEFINE u == [t EXCEPT !.pc = "victim", !.dp = t.ip, !.ip = e]
  <2>1. n \in Name /\ e = fs.ent[t.ip][n] /\ e \in Inum
    <3>1. n \in Name \cup {".", ".."}
      BY NextElem, Zenon DEF Thread
    <3>2. e \in Inum \cup {None}
      BY NextElem, Zenon DEF Thread
    <3>3. n \in Name /\ n # "." /\ n # ".."
      BY <1>4, <3>1, Zenon
    <3>4. e = fs.ent[t.ip][n]
      <4> HIDE DEF n
      <4>1. QED
        BY <3>3 DEF Lookup
    <3>5. QED
      BY <1>4, <3>2, <3>3, <3>4, Zenon
  <2>2. <<t.ip, n>> \in Names(e)
    <3> HIDE DEF n, e
    <3>1. QED
      BY <2>1 DEF Names
  <2> HIDE DEF e
  <2>3. IsAt(u, "victim", t.call, t.elems, e, t.ip, None) /\ th' = [th EXCEPT ![p] = u]
    BY <1>4, <2>1, ZenonT(30) DEF Thread, PC, IsAt
  <2> HIDE DEF u
  <2>4. Spares(p, u)
    BY <1>2, <2>2, <2>3, ZenonT(30) DEF Spares, IsAt
  <2>5. Quiet(p, u)
    BY <2>1, <2>3, <2>4, ZenonT(30) DEF Quiet, At, HasOld, IsAt
  <2>6. QED
    BY <1>4, <2>3, <2>5, MoveGoes, QuietMove, Zenon DEF IsAt, LinkInv
<1>5. QED
  BY <1>3, <1>4, Zenon DEF sys_unlink

\* The victim is locked: the entry still leads to it.
LEMMA UnlinkLockLinks ==
  ASSUME SysInv, SysInv', LinkInv, LinkCounting, panic = "none", NEW p \in Proc, unlink_lock(p)
  PROVE  LinkInv'
<1> DEFINE t == th[p]
           u == [t EXCEPT !.pc = "unlinking"]
<1>1. t.pc = "victim" /\ inode_lock(p, t.ip, u)
  BY Zenon DEF unlink_lock
<1>2. /\ t \in Thread /\ At(t) = "victim" /\ t.vic = None /\ t.kont = "none" /\ ic \in Cache
      /\ WellFormed(t) /\ Typed(t, fs)
  BY <1>1, LinkFacts, Zenon
<1>3. t.old = None
  BY <1>2, Zenon DEF WellFormed, HasOld
<1> USE NumberIsSome
<1>4. IsAt(u, "unlinking", t.call, t.elems, t.ip, t.dp, None)
  BY <1>2, <1>3, ZenonT(30) DEF Thread, PC, IsAt
<1> HIDE DEF u
<1>5. Quiet(p, u)
  BY <1>1, <1>2, <1>4, ZenonT(30) DEF Quiet, Spares, At, HasOld, IsAt, inode_lock, Typed
<1>6. QED
  BY <1>1, <1>4, <1>5, QuietLock, Zenon DEF IsAt

\* The victim is a directory that is not empty.
LEMMA UnlinkBadLinks ==
  ASSUME SysInv, SysInv', LinkInv, LinkCounting, panic = "none", NEW p \in Proc, unlink_bad(p)
  PROVE  LinkInv'
<1> DEFINE t == th[p]
           u == [t EXCEPT !.pc = "commit", !.dp = None]
<1>1. t.pc = "unlink_bad" /\ inode_unlockput(p, t.dp, ic, fs, u) /\ UNCHANGED <<cwd, fds>>
  BY Zenon DEF unlink_bad
<1>2. t \in Thread /\ At(t) = "unlink_bad" /\ t.vic = None /\ t.kont = "none" /\ ic \in Cache
  BY <1>1, LinkFacts, Zenon
<1>3. t.old = None /\ t.ip = None /\ t.dp \in Inum
  <2>1. t.old = None /\ t.ip = None /\ t.dp # None
    BY <1>1, <1>2, LinkFacts, Zenon DEF WellFormed, HasIp, HasDp, HasOld
  <2>2. QED
    BY <1>2, <2>1, Zenon DEF Thread
<1> USE NumberIsSome
<1>4. IsAt(u, "commit", t.call, t.elems, None, None, None)
  BY <1>2, <1>3, ZenonT(30) DEF Thread, PC, IsAt
<1> HIDE DEF u
<1>5. Quiet(p, u)
  BY <1>4, ZenonT(30) DEF Quiet, Spares, At, HasOld, IsAt
<1>6. QED
  BY <1>1, <1>2, <1>3, <1>4, <1>5, QuietDrop, Zenon DEF IsAt

\* sys_link is done, or finds that it has to take back its link.
LEMMA LinkEndLinks ==
  ASSUME SysInv, SysInv', LinkInv, LinkCounting, panic = "none", NEW p \in Proc,
         link_done(p) \/ link_undo(p)
  PROVE  LinkInv'
<1> DEFINE t == th[p]
<1>1. t.pc \in {"linked", "undo"} /\ t.pc # "free"
  BY Zenon DEF link_done, link_undo
<1>2. t \in Thread /\ At(t) = t.pc /\ t.vic = None /\ t.kont = "none" /\ ic \in Cache
  BY <1>1, LinkFacts, Zenon
<1>3. t.old \in Inum /\ t.ip = None /\ t.dp = None
  <2>1. WellFormed(t)
    BY <1>1, LinkFacts, Zenon
  <2>2. HasOld(t) /\ ~HasIp(t) /\ ~HasDp(t) /\ At(t) # "commit"
    BY <1>1, <1>2, Zenon DEF HasIp, HasDp, HasOld
  <2>3. t.old # None /\ t.ip = None /\ t.dp = None
    BY <2>1, <2>2, Zenon DEF WellFormed
  <2>4. QED
    BY <1>2, <2>3, Zenon DEF Thread
<1> USE <1>2, <1>3, NumberIsSome
<1>4. CASE link_done(p)
  <2> DEFINE u == [t EXCEPT !.pc = "commit", !.old = None]
  <2>1. IsAt(u, "commit", t.call, t.elems, None, None, None)
    BY ZenonT(30) DEF Thread, PC, IsAt
  <2>2. inode_put(p, t.old, ic, fs, u) /\ UNCHANGED <<cwd, fds>>
    BY <1>4, Zenon DEF link_done
  <2> HIDE DEF u
  <2>3. Quiet(p, u)
    BY <2>1, ZenonT(30) DEF Quiet, Spares, At, HasOld, IsAt
  <2>4. QED
    BY <2>1, <2>2, <2>3, QuietPut, Zenon DEF IsAt
<1>5. CASE link_undo(p)
  <2> DEFINE u == [t EXCEPT !.pc = "undoing"]
  <2>1. IsAt(u, "undoing", t.call, t.elems, None, None, t.old)
    BY ZenonT(30) DEF Thread, PC, IsAt
  <2>2. inode_lock(p, t.old, u) /\ t.pc = "undo"
    BY <1>5, Zenon DEF link_undo
  <2> HIDE DEF u
  <2>3. Quiet(p, u)
    BY <2>1, <2>2, ZenonT(30) DEF Quiet, Spares, At, HasOld, IsAt
  <2>4. QED
    BY <2>1, <2>2, <2>3, QuietLock, Zenon DEF IsAt
<1>6. QED
  BY <1>4, <1>5, Zenon
-----------------------------------------------------------------------------
(* Open files and current directories.                                     *)

\* A call with an i-node locked and nothing else.
LEMMA EndLinks ==
  ASSUME SysInv, LinkInv, NEW p \in Proc, th[p].pc = "locked", th[p].call \in {"open", "chdir"}
  PROVE  /\ th[p].ip \in Inum /\ ic.lock[th[p].ip] = p /\ fs.type[th[p].ip] # "free"
         /\ ic \in Cache /\ FilesTyped(p) /\ cwd[p] \in Inum /\ Quiet(p, Idle)
<1>1. th[p].ip \in Inum /\ Holds(th[p], th[p].ip)
  BY LinkFacts, ZenonT(30) DEF WellFormed, HasIp, Holds, Locked, Thread
<1>2. Quiet(p, Idle)
  BY IdleIs, ZenonT(30) DEF Quiet, Spares, At, HasOld, IsAt
<1>3. QED
  BY <1>1, <1>2, LinkFacts, Zenon

\* sys_open: the new descriptor is for an i-node that is allocated.
LEMMA OpenLinks ==
  ASSUME SysInv, SysInv', LinkInv, LinkCounting, panic = "none", NEW p \in Proc,
         sys_open(p)
  PROVE  LinkInv'
<1> DEFINE i == th[p].ip
<1>1. th[p].pc = "locked" /\ th[p].call = "open" /\ UNCHANGED cwd
  BY Zenon DEF sys_open
<1>2. /\ i \in Inum /\ ic.lock[i] = p /\ fs.type[i] # "free"
      /\ ic \in Cache /\ FilesTyped(p) /\ Quiet(p, Idle)
  BY <1>1, EndLinks, Zenon
<1>3. CASE inode_unlockput(p, i, ic, fs, Idle) /\ UNCHANGED fds
  BY <1>1, <1>2, <1>3, IdleIs, QuietDrop, Zenon DEF IsAt
<1>4. CASE /\ ~ \A d \in 1 .. NOFILE : fds[p][d] # None
           /\ fds' = [fds EXCEPT ![p][fdalloc(p)] = i]
           /\ th' = [th EXCEPT ![p] = Idle]
           /\ UNCHANGED <<fs, panic>>
  <2> DEFINE d == fdalloc(p)
  <2>1. fds' = [fds EXCEPT ![p][d] = i]
    BY <1>4, Zenon
  <2> HIDE DEF d
  <2>2. fds \in [Proc -> [1 .. NOFILE -> Inum \cup {None}]]
    BY Zenon DEF SysInv, Types
  <2>3. fds'[p] = [fds[p] EXCEPT ![d] = i] /\ \A q \in Proc : q # p => fds'[q] = fds[q]
    BY <2>1, <2>2, Zenon
  <2>4. fds[p] \in [1 .. NOFILE -> Inum \cup {None}]
    BY <2>2, Zenon
  <2>5. \A e \in 1 .. NOFILE : fds'[p][e] = i \/ fds'[p][e] = fds[p][e]
    BY <2>3, <2>4, Zenon
  <2>6. \A v : Freed(p, v) => cwd'[p] # v /\ \A e \in 1 .. NOFILE : fds'[p][e] # v
    BY <1>1, <1>2, <2>5, Zenon DEF Freed
  <2>7. FilesTyped(p)'
    BY <1>1, <1>2, <1>4, <2>5, Zenon DEF FilesTyped
  <2>8. GoesTo(p, Idle)
    BY <1>4, IdleIs, MoveGoes, Zenon DEF IsAt
  <2>9. QED
    BY <1>1, <1>2, <1>4, <2>3, <2>6, <2>7, <2>8, QuietFiles, Zenon DEF LinkInv
<1>5. QED
  BY <1>3, <1>4, Zenon DEF sys_open

\* sys_close: the call takes over the reference of the descriptor.
LEMMA CloseLinks ==
  ASSUME SysInv, SysInv', LinkInv, LinkCounting, panic = "none", NEW p \in Proc,
         NEW d \in 1 .. NOFILE, sys_close(p, d)
  PROVE  LinkInv'
<1> DEFINE i == fds[p][d]
           u == [Idle EXCEPT !.pc = "close", !.ip = i]
<1>1. /\ i # None /\ fds' = [fds EXCEPT ![p][d] = None] /\ th' = [th EXCEPT ![p] = u]
      /\ th[p].pc = "idle" /\ UNCHANGED <<fs, cwd, panic>>
  BY Zenon DEF sys_close, Begins
<1>2. fds \in [Proc -> [1 .. NOFILE -> Inum \cup {None}]]
  BY Zenon DEF SysInv, Types
<1>3. fds[p] \in [1 .. NOFILE -> Inum \cup {None}]
  BY <1>2, Zenon
<1>4. i \in Inum
  BY <1>1, <1>3, Zenon
<1>5. FilesTyped(p) /\ fs.type[i] # "free"
  BY <1>1, LinkFacts, Zenon DEF FilesTyped
<1> HIDE DEF i
<1>6. IsAt(u, "close", "none", <<>>, i, None, None)
  BY <1>4, IdleIs, ZenonT(30) DEF IsAt, Thread, PC
<1> HIDE DEF u
<1>7. fds'[p] = [fds[p] EXCEPT ![d] = None] /\ \A q \in Proc : q # p => fds'[q] = fds[q]
  BY <1>1, <1>2, Zenon
<1>8. \A e \in 1 .. NOFILE : fds'[p][e] = None \/ fds'[p][e] = fds[p][e]
  BY <1>3, <1>7, Zenon
<1>9. \A v : Freed(p, v) => cwd'[p] # v /\ \A e \in 1 .. NOFILE : fds'[p][e] # v
  BY <1>1, <1>8, NumberIsSome, Zenon DEF Freed
<1>10. FilesTyped(p)'
  BY <1>1, <1>5, <1>8, Zenon DEF FilesTyped
<1>11. Spares(p, u)
  BY <1>6, Zenon DEF Spares, IsAt, i
<1>12. Quiet(p, u)
  BY <1>5, <1>6, <1>11, Zenon DEF Quiet, At, HasOld, IsAt
<1>13. GoesTo(p, u)
  BY <1>1, <1>6, MoveGoes, Zenon DEF IsAt
<1>14. QED
  BY <1>1, <1>7, <1>9, <1>10, <1>12, <1>13, QuietFiles, Zenon DEF LinkInv

\* sys_chdir: the new current directory is one, and the old one is put.
LEMMA ChdirLinks ==
  ASSUME SysInv, SysInv', LinkInv, LinkCounting, panic = "none", NEW p \in Proc, sys_chdir(p)
  PROVE  LinkInv'
<1> DEFINE i == th[p].ip
           c == inode_unlock(ic, i)
<1>1. th[p].pc = "locked" /\ th[p].call = "chdir" /\ UNCHANGED fds
  BY Zenon DEF sys_chdir
<1>2. /\ i \in Inum /\ ic.lock[i] = p /\ fs.type[i] # "free"
      /\ ic \in Cache /\ FilesTyped(p) /\ cwd[p] \in Inum /\ Quiet(p, Idle)
  BY <1>1, EndLinks, Zenon
<1>3. CASE inode_unlockput(p, i, ic, fs, Idle) /\ UNCHANGED cwd
  BY <1>1, <1>2, <1>3, IdleIs, QuietDrop, Zenon DEF IsAt
<1>4. CASE /\ fs.type[i] = "dir" /\ inode_put(p, cwd[p], c, fs, Idle)
           /\ cwd' = [cwd EXCEPT ![p] = i]
  <2>1. c \in Cache
    BY <1>2, Zenon DEF inode_unlock, Cache
  <2> HIDE DEF c
  <2>2. GoesTo(p, Idle) /\ fs' = fs /\ panic' \in {panic, "inode_put:busy"}
    BY <1>2, <1>4, <2>1, IdleIs, PutGoes, Zenon DEF IsAt
  <2>3. cwd \in [Proc -> Inum]
    BY Zenon DEF SysInv, Types
  <2>4. cwd'[p] = i /\ \A q \in Proc : q # p => cwd'[q] = cwd[q]
    BY <1>4, <2>3, Zenon
  <2>5. \A v : Freed(p, v) => cwd'[p] # v /\ \A e \in 1 .. NOFILE : fds'[p][e] # v
    BY <1>1, <1>2, <2>4, Zenon DEF Freed
  <2>6. FilesTyped(p)'
    BY <1>1, <1>2, <1>4, <2>2, <2>4, Zenon DEF FilesTyped
  <2>7. panic' # "unlink:nlink<1"
    BY <2>2, Zenon DEF LinkInv
  <2>8. QED
    BY <1>1, <1>2, <2>2, <2>4, <2>5, <2>6, <2>7, QuietFiles, Zenon
<1>5. QED
  BY <1>3, <1>4, Zenon DEF sys_chdir
-----------------------------------------------------------------------------
(* The actions that write i-nodes.                                         *)

\* What the invariant says of the links of i-node i.
Linked(i) ==
  /\ fs.nlink[i] >= Links(i)
  /\ fs.type[i] = "free" => Names(i) = {} /\ Calls(i) = {}

\* An i-node whose count is left alone may lose names, subdirectories and calls.
LEMMA LinkedKeeps ==
  ASSUME SysInv, LinkInv, LinkCounting, NEW i \in Inum, fs'.nlink[i] = fs.nlink[i],
         Names(i)' \subseteq Names(i), Subs(i)' \subseteq Subs(i), Calls(i)' \subseteq Calls(i),
         fs'.type[i] = "free" => fs.type[i] = "free"
  PROVE  Linked(i)'
<1>1. fs.nlink[i] >= Links(i) /\ fs.nlink[i] \in Int
  BY DEF LinkInv, SysInv, Types, Inodes
<1>2. Links(i)' <= Links(i) /\ Links(i) \in Nat /\ Links(i)' \in Nat
  BY LinksStep, Zenon DEF LinkRecount
<1>3. fs'.nlink[i] >= Links(i)'
  BY <1>1, <1>2
<1>4. fs.type[i] = "free" => Names(i) = {} /\ Calls(i) = {}
  BY Zenon DEF LinkInv
<1>5. QED
  BY <1>3, <1>4, Zenon DEF Linked

\* A step that frees no i-node and goes on at t.
LEMMA WriteStep ==
  ASSUME SysInv, SysInv', LinkInv, LinkCounting, NEW p \in Proc, NEW t, GoesTo(p, t), Intact(p),
         UNCHANGED <<cwd, fds>>, panic' # "unlink:nlink<1", Spares(p, t), Typed(t, fs'),
         \A i \in Inum : fs.type[i] # "free" => fs'.type[i] = fs.type[i],
         \A i \in Inum : Linked(i)'
  PROVE  LinkInv'
<1>1. /\ \A i \in Inum : fs'.nlink[i] >= Links(i)'
      /\ \A i \in Inum : fs'.type[i] = "free" => Names(i)' = {} /\ Calls(i)' = {}
  BY Zenon DEF Linked
<1>2. \A v : Freed(p, v) =>
        cwd'[p] # v /\ (\A d \in 1 .. NOFILE : fds'[p][d] # v) /\ Apart(t, v)
  BY SparesFreed, Zenon DEF Freed
<1>3. FilesTyped(p) /\ cwd[p] \in Inum
  BY Zenon DEF LinkInv, SysInv, Types
<1>4. \A d \in 1 .. NOFILE : fds[p][d] \in Inum \cup {None}
  <2>1. fds \in [Proc -> [1 .. NOFILE -> Inum \cup {None}]]
    BY Zenon DEF SysInv, Types
  <2>2. fds[p] \in [1 .. NOFILE -> Inum \cup {None}]
    BY <2>1, Zenon
  <2>3. QED
    BY <2>2, Zenon
<1>5. fs'.type[cwd[p]] = "dir"
  BY <1>3, Zenon DEF FilesTyped
<1>6. \A d \in 1 .. NOFILE : fds[p][d] # None => fs'.type[fds[p][d]] # "free"
  BY <1>3, <1>4, Zenon DEF FilesTyped
<1>7. FilesTyped(p)'
  BY <1>5, <1>6, Zenon DEF FilesTyped
<1>8. \A q \in Proc : q # p => cwd'[q] = cwd[q] /\ fds'[q] = fds[q]
  BY Zenon
<1>9. QED
  BY <1>1, <1>2, <1>7, <1>8, LinkStep, Zenon

\* Only the count of i-node i changes: it loses the link of the call of p, which
\* no longer accounts for it, or gets one for which it does.
LEMMA NlinkStep ==
  ASSUME SysInv, SysInv', LinkInv, LinkCounting, NEW p \in Proc, NEW t, GoesTo(p, t),
         NEW i \in Inum, NEW k \in Int, fs' = [fs EXCEPT !.nlink[i] = k], ic.lock[i] = p,
         UNCHANGED <<cwd, fds>>, panic' # "unlink:nlink<1", Spares(p, t), Typed(t, fs'),
         \A j \in Inum : j # i /\ Counted(t, j) => Counted(th[p], j),
         \/ k = fs.nlink[i] - 1 /\ Counted(th[p], i) /\ ~Counted(t, i)
         \/ k = fs.nlink[i] + 1
  PROVE  LinkInv'
<1>1. fs \in Inodes
  BY Zenon DEF SysInv, Types
<1>2. /\ fs'.type = fs.type /\ fs'.ent = fs.ent /\ fs'.nlink[i] = k
      /\ \A j \in Inum : j # i => fs'.nlink[j] = fs.nlink[j]
  BY <1>1, Zenon DEF Inodes
<1>3. Intact(p)
  BY <1>2, Zenon DEF Intact
<1>4. \A j : Names(j)' = Names(j) /\ Subs(j)' = Subs(j)
  BY <1>2, Zenon DEF Names, Subs
<1>5. ASSUME NEW j \in Inum, j # i
      PROVE  Linked(j)'
  <2>1. Calls(j)' \subseteq Calls(j)
    BY <1>5, CallsStep, Zenon
  <2>2. fs'.nlink[j] = fs.nlink[j] /\ fs'.type[j] = fs.type[j]
    BY <1>2, <1>5, Zenon
  <2>3. QED
    BY <1>4, <2>1, <2>2, LinkedKeeps, Zenon
<1>6. Linked(i)'
  <2>1. fs.type[i] # "free"
    BY ThreadFacts, Zenon
  <2>2. fs.nlink[i] >= Links(i) /\ fs.nlink[i] \in Int /\ Links(i) \in Nat /\ Links(i)' \in Nat
    BY LinksStep DEF LinkInv, SysInv, Types, Inodes, LinkRecount
  <2>3. CASE k = fs.nlink[i] - 1 /\ Counted(th[p], i) /\ ~Counted(t, i)
    <3>1. p \in Calls(i) /\ Calls(i)' \subseteq Calls(i) \ {p}
      BY <2>3, CallsStep, Zenon
    <3>2. Links(i)' + 1 <= Links(i)
      BY <1>4, <3>1, LinksStep, Zenon DEF LinkRecount
    <3>3. fs'.nlink[i] >= Links(i)'
      BY <1>2, <2>2, <2>3, <3>2
    <3>4. QED
      BY <1>2, <2>1, <3>3, Zenon DEF Linked
  <2>4. CASE k = fs.nlink[i] + 1
    <3>1. Calls(i)' \subseteq Calls(i) \cup {p}
      BY CallsStep, Zenon
    <3>2. Links(i)' <= Links(i) + 1
      BY <1>4, <3>1, LinksStep, Zenon DEF LinkRecount
    <3>3. fs'.nlink[i] >= Links(i)'
      BY <1>2, <2>2, <2>4, <3>2
    <3>4. QED
      BY <1>2, <2>1, <3>3, Zenon DEF Linked
  <2>5. QED
    BY <2>3, <2>4, Zenon
<1>7. \A j \in Inum : Linked(j)'
  BY <1>5, <1>6, Zenon
<1>8. \A j \in Inum : fs.type[j] # "free" => fs'.type[j] = fs.type[j]
  BY <1>2, Zenon
<1>9. QED
  BY <1>3, <1>7, <1>8, WriteStep, Zenon

\* The link whose entry sys_unlink has cleared is taken off.
LEMMA UnlinkDoneLinks ==
  ASSUME SysInv, SysInv', LinkInv, LinkCounting, panic = "none", NEW p \in Proc, unlink_done(p)
  PROVE  LinkInv'
<1> DEFINE t == th[p]
           i == t.ip
           k == fs.nlink[i] - 1
           f == [fs EXCEPT !.nlink[i] = k]
           c == inode_unlock(ic, i)
           u == [t EXCEPT !.pc = "commit", !.ip = None]
<1>1. t.pc = "unlinked" /\ inode_put(p, i, c, f, u) /\ UNCHANGED <<cwd, fds>>
  BY Zenon DEF unlink_done, inode_unlockput
<1>2. /\ t \in Thread /\ At(t) = "unlinked" /\ t.vic = None /\ t.kont = "none"
      /\ ic \in Cache /\ fs \in Inodes /\ WellFormed(t)
  BY <1>1, LinkFacts, Zenon
<1>3. t.old = None /\ t.dp = None /\ i \in Inum
  <2>1. t.old = None /\ t.dp = None /\ i # None
    BY <1>2, Zenon DEF WellFormed, HasIp, HasDp, HasOld
  <2>2. QED
    BY <1>2, <2>1, Zenon DEF Thread
<1>4. ic.lock[i] = p /\ Counted(t, i)
  BY <1>1, <1>2, <1>3, LinkFacts, Zenon DEF Holds, Locked, Counted
<1>5. IsAt(u, "commit", t.call, t.elems, None, None, None)
  BY <1>2, <1>3, ZenonT(30) DEF Thread, PC, IsAt
<1>6. c \in Cache /\ k \in Int
  <2>1. c \in Cache
    BY <1>2, Zenon DEF inode_unlock, Cache
  <2>2. k \in Int
    BY <1>2, <1>3 DEF Inodes
  <2>3. QED
    BY <2>1, <2>2, Zenon
<1> HIDE DEF u, c
<1>7. u \in Thread /\ u.pc # "free"
  BY <1>5, Zenon DEF IsAt
<1>8. GoesTo(p, u) /\ fs' = f /\ panic' \in {panic, "inode_put:busy"}
  <2> HIDE DEF f
  <2>1. QED
    BY <1>1, <1>3, <1>6, <1>7, PutGoes, Zenon
<1>9. Spares(p, u) /\ Typed(u, fs') /\ \A j \in Inum : ~Counted(u, j)
  BY <1>5, ZenonT(30) DEF Spares, Typed, Counted, At, HasOld, IsAt
<1>10. fs' = [fs EXCEPT !.nlink[i] = k] /\ k = fs.nlink[i] - 1 /\ panic' # "unlink:nlink<1"
  BY <1>8, Zenon DEF LinkInv
<1> HIDE DEF f, k, i
<1>11. QED
  BY <1>1, <1>3, <1>4, <1>6, <1>8, <1>9, <1>10, NlinkStep, Zenon

\* sys_link takes its link back.
LEMMA LinkUndoneLinks ==
  ASSUME SysInv, SysInv', LinkInv, LinkCounting, panic = "none", NEW p \in Proc, link_undone(p)
  PROVE  LinkInv'
<1> DEFINE t == th[p]
           i == t.old
           k == fs.nlink[i] - 1
           f == [fs EXCEPT !.nlink[i] = k]
           c == inode_unlock(ic, i)
           u == [t EXCEPT !.pc = "commit", !.old = None]
<1>1. t.pc = "undoing" /\ inode_put(p, i, c, f, u) /\ UNCHANGED <<cwd, fds>>
  BY Zenon DEF link_undone, inode_unlockput
<1>2. /\ t \in Thread /\ At(t) = "undoing" /\ t.vic = None /\ t.kont = "none"
      /\ ic \in Cache /\ fs \in Inodes /\ WellFormed(t)
  BY <1>1, LinkFacts, Zenon
<1>3. t.ip = None /\ t.dp = None /\ i \in Inum
  <2>1. t.ip = None /\ t.dp = None /\ i # None
    BY <1>2, Zenon DEF WellFormed, HasIp, HasDp, HasOld
  <2>2. QED
    BY <1>2, <2>1, Zenon DEF Thread
<1>4. ic.lock[i] = p /\ Counted(t, i)
  BY <1>1, <1>2, <1>3, LinkFacts, Zenon DEF Holds, Locked, Counted, HasOld
<1>5. IsAt(u, "commit", t.call, t.elems, None, None, None)
  BY <1>2, <1>3, ZenonT(30) DEF Thread, PC, IsAt
<1>6. c \in Cache /\ k \in Int
  <2>1. c \in Cache
    BY <1>2, Zenon DEF inode_unlock, Cache
  <2>2. k \in Int
    BY <1>2, <1>3 DEF Inodes
  <2>3. QED
    BY <2>1, <2>2, Zenon
<1> HIDE DEF u, c
<1>7. u \in Thread /\ u.pc # "free"
  BY <1>5, Zenon DEF IsAt
<1>8. GoesTo(p, u) /\ fs' = f /\ panic' \in {panic, "inode_put:busy"}
  <2> HIDE DEF f
  <2>1. QED
    BY <1>1, <1>3, <1>6, <1>7, PutGoes, Zenon
<1>9. Spares(p, u) /\ Typed(u, fs') /\ \A j \in Inum : ~Counted(u, j)
  BY <1>5, ZenonT(30) DEF Spares, Typed, Counted, At, HasOld, IsAt
<1>10. fs' = [fs EXCEPT !.nlink[i] = k] /\ k = fs.nlink[i] - 1 /\ panic' # "unlink:nlink<1"
  BY <1>8, Zenon DEF LinkInv
<1> HIDE DEF f, k, i
<1>11. QED
  BY <1>1, <1>3, <1>4, <1>6, <1>8, <1>9, <1>10, NlinkStep, Zenon

\* sys_link counts a link before it makes it.
LEMMA LinkLinks ==
  ASSUME SysInv, SysInv', LinkInv, LinkCounting, panic = "none", NEW p \in Proc,
         NEW new \in work.Path, sys_link(p, new)
  PROVE  LinkInv'
<1> DEFINE t == th[p]
           i == t.ip
<1>1. t.pc = "locked" /\ t.call = "link" /\ UNCHANGED <<cwd, fds>>
  BY Zenon DEF sys_link
<1>2. /\ t \in Thread /\ At(t) = "locked" /\ t.vic = None /\ t.kont = "none"
      /\ ic \in Cache /\ fs \in Inodes /\ WellFormed(t)
  BY <1>1, LinkFacts, Zenon
<1>3. t.old = None /\ t.dp = None /\ i \in Inum
  <2>1. t.old = None /\ t.dp = None /\ i # None
    BY <1>1, <1>2, Zenon DEF WellFormed, HasIp, HasDp, HasOld
  <2>2. QED
    BY <1>2, <2>1, Zenon DEF Thread
<1>4. ic.lock[i] = p /\ fs.type[i] # "free"
  BY <1>1, <1>2, <1>3, LinkFacts, Zenon DEF Holds, Locked
<1>5. CASE inode_unlockput(p, t.ip, ic, fs, [t EXCEPT !.pc = "commit", !.ip = None])
  <2> DEFINE u == [t EXCEPT !.pc = "commit", !.ip = None]
  <2>1. IsAt(u, "commit", t.call, t.elems, None, None, None) /\ inode_unlockput(p, t.ip, ic, fs, u)
    BY <1>2, <1>3, <1>5, ZenonT(30) DEF Thread, PC, IsAt
  <2> HIDE DEF u
  <2>2. Quiet(p, u)
    BY <2>1, ZenonT(30) DEF Quiet, Spares, At, HasOld, IsAt
  <2>3. QED
    BY <1>1, <1>2, <1>3, <2>1, <2>2, QuietDrop, Zenon DEF IsAt
<1>6. CASE /\ fs.type[t.ip] # "dir"
           /\ fs' = [fs EXCEPT !.nlink[t.ip] = @ + 1]
           /\ th' = [th EXCEPT ![p] = Walk(p, "link2", new, [t EXCEPT !.old = t.ip])]
           /\ UNCHANGED panic
  <2> DEFINE s == Start(p, new)
             u == Walk(p, "link2", new, [t EXCEPT !.old = t.ip])
             k == fs.nlink[i] + 1
  <2>1. s \in Inum /\ new.elems \in Seq(Name \cup {".", ".."})
    BY PathFacts, Zenon
  <2>2. IsAt(u, "walk", "link2", new.elems, s, None, i)
    BY <1>2, <1>3, <2>1, ZenonT(60) DEF Thread, PC, IsAt, Walk
  <2>3. th' = [th EXCEPT ![p] = u] /\ fs' = [fs EXCEPT !.nlink[i] = k]
    BY <1>6, Zenon
  <2>4. k \in Int
    BY <1>2, <1>3 DEF Inodes
  <2> HIDE DEF u, s, k
  <2>5. GoesTo(p, u)
    BY <2>2, <2>3, MoveGoes, Zenon DEF IsAt
  <2>6. fs.type[i] = "file" /\ fs'.type = fs.type
    <3>1. fs.type[i] \in {"free", "dir", "file"}
      BY <1>2, <1>3, Zenon DEF Inodes
    <3>2. fs'.type = fs.type
      BY <1>2, <2>3, Zenon DEF Inodes
    <3>3. QED
      BY <1>4, <1>6, <3>1, <3>2, Zenon
  <2> HIDE DEF i
  <2>7. Spares(p, u)
    BY <1>4, <2>2, ZenonT(30) DEF Spares, At, IsAt
  <2>8. Typed(u, fs')
    BY <2>2, <2>6, ZenonT(30) DEF Typed, At, HasOld, IsAt
  <2>9. \A j \in Inum : j # i => ~Counted(u, j)
    BY <2>2, ZenonT(30) DEF Counted, At, IsAt
  <2>10. panic' # "unlink:nlink<1"
    BY <1>6, Zenon DEF LinkInv
  <2>11. QED
    BY <1>1, <1>3, <1>4, <2>3, <2>4, <2>5, <2>7, <2>8, <2>9, <2>10, NlinkStep, Zenon DEF k
<1>7. QED
  BY <1>5, <1>6, Zenon DEF sys_link

\* The entry n of directory d becomes e; no other entry changes.
Entered(d, n, e) ==
  \A j \in Inum, m \in Name : fs'.ent[j][m] = IF j = d /\ m = n THEN e ELSE fs.ent[j][m]

\* dir_link, and clearing an entry, do that.
Wrote(d, n, e) == [fs.ent EXCEPT ![d][n] = e]

\* What Wrote says of the directories.
LEMMA EntWritten ==
  ASSUME fs \in Inodes, NEW d \in Inum, NEW n, NEW e, fs'.ent = Wrote(d, n, e)
  PROVE  Entered(d, n, e) /\ \A j \in Inum : j # d => fs'.ent[j] = fs.ent[j]
<1>1. fs.ent \in [Inum -> [Name -> Inum \cup {None}]]
  BY Zenon DEF Inodes
<1>2. fs'.ent[d] = [fs.ent[d] EXCEPT ![n] = e] /\ \A j \in Inum : j # d => fs'.ent[j] = fs.ent[j]
  BY <1>1, Zenon DEF Wrote
<1>3. fs.ent[d] \in [Name -> Inum \cup {None}]
  BY <1>1, Zenon
<1>4. \A m \in Name : fs'.ent[d][m] = IF m = n THEN e ELSE fs.ent[d][m]
  BY <1>2, <1>3, Zenon
<1>5. QED
  BY <1>2, <1>4, Zenon DEF Entered

\* The names and the subdirectories of i-node i after that.
LEMMA EntryStep ==
  ASSUME NEW d \in Inum, NEW n, NEW e, Entered(d, n, e), fs'.type = fs.type, NEW i \in Inum
  PROVE  /\ Names(i)' \subseteq Names(i) \cup {<<d, n>>}
         /\ i # e => Names(i)' \subseteq Names(i) \ {<<d, n>>}
         /\ i # d => Subs(i)' \subseteq Subs(i)
         /\ e = None \/ fs.type[e] # "dir" => Subs(i)' \subseteq Subs(i)
         /\ i = d /\ e = None => Subs(i)' \subseteq Subs(i) \ {n}
<1>1. ASSUME NEW x, x \in Names(i)'
      PROVE  (x \in Names(i) /\ x # <<d, n>>) \/ (x = <<d, n>> /\ i = e)
  <2>1. x \in Inum \X Name /\ fs'.type[x[1]] = "dir" /\ fs'.ent[x[1]][x[2]] = i
    BY <1>1, Zenon DEF Names
  <2>2. PICK j \in Inum, m \in Name : x = <<j, m>> /\ x[1] = j /\ x[2] = m
    BY <2>1
  <2>3. fs.type[j] = "dir" /\ fs'.ent[j][m] = i
    BY <2>1, <2>2, Zenon
  <2>4. CASE j = d /\ m = n
    BY <2>2, <2>3, <2>4, Zenon DEF Entered
  <2>5. CASE ~ (j = d /\ m = n)
    <3>1. fs.ent[j][m] = i
      BY <2>3, <2>5, Zenon DEF Entered
    <3>2. x \in Names(i)
      BY <2>1, <2>2, <2>3, <3>1, Zenon DEF Names
    <3>3. x # <<d, n>>
      BY <2>2, <2>5
    <3>4. QED
      BY <3>2, <3>3, Zenon
  <2>6. QED
    BY <2>4, <2>5, Zenon
<1>2. ASSUME NEW m, m \in Subs(i)'
      PROVE  \/ m \in Subs(i) /\ ~ (i = d /\ m = n)
             \/ i = d /\ m = n /\ e # None /\ fs.type[e] = "dir"
  <2>1. /\ m \in Name /\ fs.type[i] = "dir" /\ fs'.ent[i][m] # None
        /\ fs.type[fs'.ent[i][m]] = "dir"
    BY <1>2, Zenon DEF Subs
  <2>2. CASE i = d /\ m = n
    <3>1. fs'.ent[i][m] = e
      BY <2>1, <2>2, Zenon DEF Entered
    <3>2. QED
      BY <2>1, <2>2, <3>1, Zenon
  <2>3. CASE ~ (i = d /\ m = n)
    <3>1. fs'.ent[i][m] = fs.ent[i][m]
      BY <2>1, <2>3, Zenon DEF Entered
    <3>2. QED
      BY <2>1, <2>3, <3>1, Zenon DEF Subs
  <2>4. QED
    BY <2>2, <2>3, Zenon
<1>3. QED
  BY <1>1, <1>2, Zenon

\* free_inode: nobody else has the i-node, and no name leads to it.
LEMMA FreeLinks ==
  ASSUME SysInv, SysInv', LinkInv, LinkCounting, panic = "none", NEW p \in Proc, free_inode(p)
  PROVE  LinkInv'
<1> DEFINE t == th[p]
           v == t.vic
           u == [t EXCEPT !.pc = t.kont, !.kont = "none", !.vic = None]
<1>1. t \in Thread /\ t.pc = "free" /\ v \in Inum /\ WellFormed(t) /\ At(t) = t.kont /\ fs \in Inodes
  <2>1. t.pc = "free" /\ t \in Thread /\ WellFormed(t) /\ fs \in Inodes
    BY ThreadFacts, Zenon DEF free_inode
  <2>2. v # None /\ At(t) = t.kont
    BY <2>1, Zenon DEF WellFormed, At
  <2>3. QED
    BY <2>1, <2>2, Zenon DEF Thread
<1>2. CASE Panic("write_outside_of_trans")
  BY <1>2, SameStep, Zenon DEF Panic
<1>3. CASE /\ fs' = [fs EXCEPT !.type[v] = "free"] /\ th' = [th EXCEPT ![p] = u]
           /\ UNCHANGED <<cwd, fds, panic>>
  <2>1. /\ u \in Thread /\ u.pc = t.kont /\ u.ip = t.ip /\ u.dp = t.dp /\ u.old = t.old
        /\ u.call = t.call /\ u.elems = t.elems /\ u.pc # "free"
    <3>1. t.kont \in PC \ {"free"}
      BY <1>1, Zenon DEF WellFormed
    <3>2. QED
      BY <1>1, <3>1, ZenonT(30) DEF Thread
  <2> HIDE DEF u
  <2>2. At(u) = At(t) /\ GoesTo(p, u)
    BY <1>1, <1>3, <2>1, MoveGoes, Zenon DEF At
  <2>3. /\ fs'.ent = fs.ent /\ fs'.nlink = fs.nlink /\ fs'.type[v] = "free"
        /\ \A j \in Inum : j # v => fs'.type[j] = fs.type[j]
    BY <1>1, <1>3, Zenon DEF Inodes
  <2>4. Intact(p)
    BY <2>3, Zenon DEF Intact
  <2>5. Clear(p, v) /\ Typed(t, fs) /\ FilesTyped(p) /\ fs.nlink[v] = 0 /\ fs.nlink[v] >= Links(v)
    BY <1>1, Zenon DEF LinkInv
  <2>6. Names(v) = {} /\ Calls(v) = {}
    <3>1. Links(v) = 0
      BY <1>1, <2>5, LinksZero
    <3>2. QED
      BY <1>1, <3>1, LinksZero, Zenon
  <2>7. ASSUME NEW j \in Inum
        PROVE  Linked(j)'
    <3>1. Names(j)' \subseteq Names(j)
      <4>1. \A x \in Inum \X Name : x[1] \in Inum
        OBVIOUS
      <4>2. QED
        BY <2>3, <4>1, Zenon DEF Names
    <3>2. Subs(j)' \subseteq Subs(j)
      <4>1. \A m \in Name : fs.ent[j][m] \in Inum \cup {None}
        BY <1>1 DEF Inodes
      <4>2. QED
        BY <2>3, <4>1, Zenon DEF Subs
    <3>3. Calls(j)' \subseteq Calls(j)
      <4>1. Counted(u, j) => Counted(t, j)
        BY <2>1, <2>2, Zenon DEF Counted, HasOld
      <4>2. QED
        BY <2>2, <4>1, CallsStep, Zenon
    <3>4. CASE j = v
      <4>1. fs.nlink[j] >= Links(j) /\ fs.nlink[j] \in Int
        BY <1>1 DEF LinkInv, Inodes
      <4>2. Links(j)' <= Links(j) /\ Links(j) \in Nat /\ Links(j)' \in Nat
        BY <3>1, <3>2, <3>3, LinksStep, Zenon DEF LinkRecount
      <4>3. fs'.nlink[j] = fs.nlink[j]
        BY <2>3, Zenon
      <4>4. fs'.nlink[j] >= Links(j)'
        BY <4>1, <4>2, <4>3
      <4>5. QED
        BY <2>6, <3>1, <3>3, <3>4, <4>4, Zenon DEF Linked
    <3>5. CASE j # v
      BY <2>3, <3>1, <3>2, <3>3, <3>5, LinkedKeeps, Zenon
    <3>6. QED
      BY <3>4, <3>5, Zenon
  <2>8. FilesTyped(p)'
    <3>1. cwd[p] \in Inum /\ cwd[p] # v /\ \A d \in 1 .. NOFILE : fds[p][d] # v
      BY <2>5, ThreadFacts, Zenon DEF Clear
    <3>2. fds \in [Proc -> [1 .. NOFILE -> Inum \cup {None}]]
      BY Zenon DEF SysInv, Types
    <3>3. fds[p] \in [1 .. NOFILE -> Inum \cup {None}]
      BY <3>2, Zenon
    <3>4. \A d \in 1 .. NOFILE : fds[p][d] \in Inum \cup {None}
      BY <3>3, Zenon
    <3>5. QED
      BY <1>3, <2>3, <2>5, <3>1, <3>4, Zenon DEF FilesTyped
  <2>9. Typed(u, fs')
    <3>1. Apart(t, v)
      BY <2>5, Zenon DEF Clear
    <3>2. /\ HasIp(t) => t.ip \in Inum
          /\ HasDp(t) => t.dp \in Inum
          /\ HasOld(t) => t.old \in Inum
      BY <1>1, Zenon DEF WellFormed, Thread
    <3>3. ASSUME At(t) \in {"found", "locked"}, Parent(t.call)
          PROVE  fs'.type[t.ip] = "dir"
      <4>1. t.ip \in Inum /\ fs.type[t.ip] = "dir"
        BY <2>5, <3>2, <3>3, Zenon DEF HasIp, Typed
      <4>2. t.ip # v
        BY <3>1, <3>3, Zenon DEF Apart
      <4>3. QED
        BY <2>3, <4>1, <4>2, Zenon
    <3>4. ASSUME At(t) \in {"victim", "unlinking"}
          PROVE  /\ fs'.type[t.dp] = "dir" /\ Head(t.elems) \in Name
                 /\ fs'.ent[t.dp][Head(t.elems)] = t.ip
      <4>1. t.dp \in Inum /\ t.dp # v
        BY <3>1, <3>2, <3>4, Zenon DEF HasDp, Apart
      <4>2. QED
        BY <2>3, <2>5, <3>4, <4>1, Zenon DEF Typed
    <3>5. ASSUME HasOld(t), At(t) # "linked"
          PROVE  fs'.type[t.old] = "file"
      <4>1. t.old \in Inum /\ t.old # v
        BY <3>1, <3>2, <3>5, Zenon DEF Apart
      <4>2. QED
        BY <2>3, <2>5, <3>5, <4>1, Zenon DEF Typed
    <3>6. ASSUME At(t) = "close"
          PROVE  fs'.type[t.ip] # "free"
      <4>1. t.ip \in Inum /\ t.ip # v
        BY <3>1, <3>2, <3>6, Zenon DEF HasIp, Apart
      <4>2. QED
        BY <2>3, <2>5, <3>6, <4>1, Zenon DEF Typed
    <3>7. HasOld(u) <=> HasOld(t)
      BY <2>1, <2>2, Zenon DEF HasOld
    <3>8. QED
      BY <2>1, <2>2, <3>3, <3>4, <3>5, <3>6, <3>7, Zenon DEF Typed
  <2>10. \A w : Freed(p, w) =>
           cwd'[p] # w /\ (\A d \in 1 .. NOFILE : fds'[p][d] # w) /\ Apart(u, w)
    BY <1>3, <2>1, <2>2, Zenon DEF Freed, Apart
  <2>11. /\ \A i \in Inum : fs'.nlink[i] >= Links(i)'
         /\ \A i \in Inum : fs'.type[i] = "free" => Names(i)' = {} /\ Calls(i)' = {}
    BY <2>7, Zenon DEF Linked
  <2>12. \A q \in Proc : q # p => cwd'[q] = cwd[q] /\ fds'[q] = fds[q]
    BY <1>3, Zenon
  <2>13. panic' # "unlink:nlink<1"
    BY <1>3, Zenon DEF LinkInv
  <2>14. QED
    BY <2>2, <2>4, <2>8, <2>9, <2>10, <2>11, <2>12, <2>13, LinkStep, Zenon
<1>4. QED
  BY <1>2, <1>3, Zenon DEF free_inode

\* link_entry: the name takes over the link that sys_link has counted.
LEMMA LinkEntryLinks ==
  ASSUME SysInv, SysInv', LinkInv, LinkCounting, panic = "none", NEW p \in Proc, link_entry(p)
  PROVE  LinkInv'
<1> DEFINE t == th[p]
<1>1. t.pc = "locked" /\ t.call = "link2" /\ Parent(t.call) /\ UNCHANGED <<cwd, fds>>
  BY Zenon DEF link_entry, Parent
<1>2. /\ t \in Thread /\ At(t) = "locked" /\ t.vic = None /\ t.kont = "none"
      /\ ic \in Cache /\ fs \in Inodes /\ WellFormed(t) /\ Typed(t, fs)
  BY <1>1, LinkFacts, Zenon
<1>3. t.dp = None /\ t.ip \in Inum /\ t.old \in Inum /\ HasOld(t) /\ Counted(t, t.old)
  <2>1. HasOld(t)
    BY <1>1, <1>2, Zenon DEF HasOld
  <2>2. t.old # None /\ t.dp = None /\ t.ip # None
    BY <1>1, <1>2, <2>1, Zenon DEF WellFormed, HasIp, HasDp
  <2>3. Counted(t, t.old)
    BY <1>2, <2>1, Zenon DEF Counted
  <2>4. QED
    BY <1>2, <2>1, <2>2, <2>3, Zenon DEF Thread
<1>4. PICK d \in Inum, o \in Inum, n \in {Head(t.elems)} : d = t.ip /\ o = t.old
  BY <1>3, Zenon
<1> DEFINE f == dir_link(fs, d, n, o)
<1>5. fs.type[d] = "dir" /\ fs.type[o] = "file" /\ ic.lock[d] = p
  <2>1. fs.type[d] = "dir" /\ fs.type[o] = "file"
    BY <1>4, <1>1, <1>2, <1>3, Zenon DEF Typed
  <2>2. ic.lock[d] = p
    BY <1>4, <1>1, <1>2, <1>3, LinkFacts, Zenon DEF Holds, Locked
  <2>3. QED
    BY <2>1, <2>2, Zenon
<1>6. CASE inode_unlockput(p, t.ip, ic, fs, [t EXCEPT !.pc = "undo", !.ip = None])
  <2> DEFINE u == [t EXCEPT !.pc = "undo", !.ip = None]
  <2>1. IsAt(u, "undo", t.call, t.elems, None, None, o) /\ inode_unlockput(p, t.ip, ic, fs, u)
    BY <1>4, <1>2, <1>3, <1>6, ZenonT(30) DEF Thread, PC, IsAt
  <2> HIDE DEF u
  <2>2. Quiet(p, u)
    BY <1>4, <1>2, <1>3, <2>1, ZenonT(30) DEF Quiet, Spares, At, IsAt
  <2>3. QED
    BY <1>4, <1>1, <1>2, <1>3, <2>1, <2>2, QuietDrop, Zenon DEF IsAt
<1>7. CASE inode_unlockput(p, t.ip, ic, f, [t EXCEPT !.pc = "linked", !.ip = None])
  <2> DEFINE u == [t EXCEPT !.pc = "linked", !.ip = None]
             c == inode_unlock(ic, d)
  <2>1. IsAt(u, "linked", t.call, t.elems, None, None, o) /\ inode_put(p, d, c, f, u)
    BY <1>4, <1>2, <1>3, <1>7, ZenonT(30) DEF Thread, PC, IsAt, inode_unlockput
  <2>2. c \in Cache
    BY <1>4, <1>2, Zenon DEF inode_unlock, Cache
  <2>3. /\ f.type = fs.type /\ f.nlink = fs.nlink
        /\ f.ent = Wrote(d, n, o)
    BY <1>4, <1>2, Zenon DEF dir_link, Inodes, Wrote
  <2> HIDE DEF u, c, f
  <2>4. GoesTo(p, u) /\ fs' = f /\ panic' \in {panic, "inode_put:busy"}
    BY <1>4, <1>3, <2>1, <2>2, PutGoes, Zenon DEF IsAt
  <2>5. fs'.type = fs.type /\ fs'.nlink = fs.nlink /\ fs'.ent = Wrote(d, n, o)
    BY <2>3, <2>4, Zenon
  <2>6. Entered(d, n, o) /\ \A j \in Inum : j # d => fs'.ent[j] = fs.ent[j]
    BY <1>2, <2>5, EntWritten, Zenon
  <2>7. Intact(p)
    BY <1>4, <1>5, <2>5, <2>6, Zenon DEF Intact
  <2>8. Spares(p, u) /\ Typed(u, fs') /\ \A j \in Inum : ~Counted(u, j)
    BY <1>4, <2>1, ZenonT(30) DEF Spares, Typed, Counted, At, HasOld, IsAt
  <2>9. ASSUME NEW j \in Inum
        PROVE  Linked(j)'
    <3>1. Subs(j)' \subseteq Subs(j)
      BY <1>5, <2>5, <2>6, EntryStep, Zenon
    <3>2. Calls(j)' \subseteq Calls(j) \ {p} /\ Calls(j)' \subseteq Calls(j)
      BY <2>4, <2>8, CallsStep, Zenon
    <3>3. CASE j = o
      <4>1. Names(j)' \subseteq Names(j) \cup {<<d, n>>}
        BY <2>5, <2>6, EntryStep, Zenon
      <4>2. p \in Calls(j)
        BY <1>4, <1>3, <3>3, Zenon DEF Calls
      <4>3. Links(j)' <= Links(j) /\ Links(j) \in Nat /\ Links(j)' \in Nat
        BY <3>1, <3>2, <4>1, <4>2, LinksStep, Zenon DEF LinkRecount
      <4>4. fs.nlink[j] >= Links(j) /\ fs.nlink[j] \in Int
        BY <1>4, <1>2 DEF LinkInv, Inodes
      <4>5. fs'.nlink[j] = fs.nlink[j]
        BY <2>5, Zenon
      <4>6. fs'.nlink[j] >= Links(j)'
        BY <4>3, <4>4, <4>5
      <4>7. QED
        BY <1>4, <1>5, <2>5, <3>3, <4>6, Zenon DEF Linked
    <3>4. CASE j # o
      <4>1. Names(j)' \subseteq Names(j)
        <5>1. j # o => Names(j)' \subseteq Names(j) \ {<<d, n>>}
          BY <2>5, <2>6, EntryStep, Zenon
        <5>2. QED
          BY <3>4, <5>1, Zenon
      <4>2. QED
        BY <2>5, <3>1, <3>2, <4>1, LinkedKeeps, Zenon
    <3>5. QED
      BY <3>3, <3>4, Zenon
  <2>10. panic' # "unlink:nlink<1"
    BY <2>4, Zenon DEF LinkInv
  <2>11. \A j \in Inum : fs.type[j] # "free" => fs'.type[j] = fs.type[j]
    BY <2>5, Zenon
  <2>12. QED
    BY <1>1, <2>4, <2>7, <2>8, <2>9, <2>10, <2>11, WriteStep, Zenon
<1>8. QED
  BY <1>4, <1>6, <1>7, Zenon DEF link_entry

\* unlink_entry: there is a link to take off, and the call accounts for it when
\* the entry is gone.
LEMMA UnlinkEntryLinks ==
  ASSUME SysInv, SysInv', LinkInv, LinkCounting, panic = "none", NEW p \in Proc, unlink_entry(p)
  PROVE  LinkInv'
<1> DEFINE t == th[p]
<1>1. t.pc = "unlinking"
  BY Zenon DEF unlink_entry
<1>2. /\ t \in Thread /\ At(t) = "unlinking" /\ t.vic = None /\ t.kont = "none"
      /\ ic \in Cache /\ fs \in Inodes /\ WellFormed(t) /\ Typed(t, fs)
  BY <1>1, LinkFacts, Zenon
<1>3. t.old = None /\ t.dp \in Inum /\ t.ip \in Inum /\ t.dp # t.ip
  <2>1. t.old = None /\ t.dp # None /\ t.ip # None /\ t.dp # t.ip
    BY <1>2, Zenon DEF WellFormed, HasIp, HasDp, HasOld
  <2>2. QED
    BY <1>2, <2>1, Zenon DEF Thread
<1>4. PICK d \in Inum, i \in Inum, n \in {Head(t.elems)} : d = t.dp /\ i = t.ip
  BY <1>3, Zenon
<1> DEFINE dir == fs.type[i] = "dir"
           k == IF dir THEN fs.nlink[d] - 1 ELSE fs.nlink[d]
           f == [fs EXCEPT !.ent[d][n] = None, !.nlink[d] = IF dir THEN @ - 1 ELSE @]
<1>5. /\ ic.lock[d] = p /\ ic.lock[i] = p /\ fs.type[i] # "free"
      /\ fs.type[d] = "dir" /\ n \in Name /\ fs.ent[d][n] = i
  <2>1. fs.type[d] = "dir" /\ n \in Name /\ fs.ent[d][n] = i
    BY <1>4, <1>2, Zenon DEF Typed
  <2>2. Holds(t, d) /\ Holds(t, i)
    BY <1>4, <1>2, Zenon DEF Holds, Locked
  <2>3. QED
    BY <1>4, <1>1, <1>3, <2>1, <2>2, LinkFacts, Zenon
<1>6. <<d, n>> \in Names(i)
  <2>1. QED
    BY <1>4, <1>3, <1>5 DEF Names
<1>7. CASE Panic("unlink:nlink<1") /\ fs.nlink[i] < 1
  <2>1. fs.nlink[i] >= Links(i) /\ Links(i) \in Nat /\ fs.nlink[i] \in Int
    BY <1>4, <1>2, <1>3, LinksStep DEF LinkInv, Inodes, LinkRecount
  <2>2. Links(i) = 0
    BY <1>4, <1>7, <2>1
  <2>3. FALSE
    BY <1>6, <2>2, LinksStep, Zenon DEF LinkRecount
  <2>4. QED
    BY <2>3, Zenon
<1>8. CASE /\ inode_unlockput(p, i, ic, fs, [t EXCEPT !.pc = "unlink_bad", !.ip = None])
           /\ UNCHANGED <<cwd, fds>>
  <2> DEFINE u == [t EXCEPT !.pc = "unlink_bad", !.ip = None]
  <2>1. IsAt(u, "unlink_bad", t.call, t.elems, None, d, None) /\ inode_unlockput(p, i, ic, fs, u)
    BY <1>4, <1>2, <1>3, <1>8, ZenonT(30) DEF Thread, PC, IsAt
  <2> HIDE DEF u
  <2>2. Quiet(p, u)
    BY <1>4, <2>1, ZenonT(30) DEF Quiet, Spares, At, HasOld, IsAt
  <2>3. QED
    BY <1>4, <1>2, <1>3, <1>8, <2>1, <2>2, QuietDrop, Zenon DEF IsAt
<1>9. CASE /\ inode_unlockput(p, d, ic, f, [t EXCEPT !.pc = "unlinked", !.dp = None])
           /\ UNCHANGED <<cwd, fds>>
  <2> DEFINE u == [t EXCEPT !.pc = "unlinked", !.dp = None]
             c == inode_unlock(ic, d)
  <2>1. IsAt(u, "unlinked", t.call, t.elems, i, None, None) /\ inode_put(p, d, c, f, u)
    BY <1>4, <1>2, <1>3, <1>9, ZenonT(30) DEF Thread, PC, IsAt, inode_unlockput
  <2>2. c \in Cache
    BY <1>4, <1>2, Zenon DEF inode_unlock, Cache
  <2>3. /\ f.type = fs.type /\ f.nlink = [fs.nlink EXCEPT ![d] = k]
        /\ f.ent = Wrote(d, n, None)
    BY <1>2, ZenonT(30) DEF Inodes, Wrote
  <2> HIDE DEF u, c, f, k
  <2>4. GoesTo(p, u) /\ fs' = f /\ panic' \in {panic, "inode_put:busy"}
    BY <1>4, <1>3, <2>1, <2>2, PutGoes, Zenon DEF IsAt
  <2>5. fs'.type = fs.type /\ fs'.ent = Wrote(d, n, None)
    BY <2>3, <2>4, Zenon
  <2>6. fs'.nlink[d] = k /\ \A j \in Inum : j # d => fs'.nlink[j] = fs.nlink[j]
    BY <1>4, <1>2, <1>3, <2>3, <2>4, Zenon DEF Inodes
  <2>7. Entered(d, n, None) /\ \A j \in Inum : j # d => fs'.ent[j] = fs.ent[j]
    BY <1>2, <2>5, EntWritten, Zenon
  <2>8. Intact(p)
    BY <1>4, <1>5, <2>5, <2>6, <2>7, Zenon DEF Intact
  <2>9. Spares(p, u) /\ Typed(u, fs') /\ \A j \in Inum : j # i => ~Counted(u, j)
    BY <1>4, <1>5, <2>1, ZenonT(30) DEF Spares, Typed, Counted, At, HasOld, IsAt
  <2>10. \A j \in Inum : Names(j)' \subseteq Names(j) \ {<<d, n>>} /\ Subs(j)' \subseteq Subs(j)
    <3>1. ASSUME NEW j \in Inum
          PROVE  Names(j)' \subseteq Names(j) \ {<<d, n>>} /\ Subs(j)' \subseteq Subs(j)
      <4>1. j # None => Names(j)' \subseteq Names(j) \ {<<d, n>>}
        BY <2>5, <2>7, EntryStep, Zenon
      <4>2. None = None \/ fs.type[None] # "dir" => Subs(j)' \subseteq Subs(j)
        BY <2>5, <2>7, EntryStep, Zenon
      <4>3. QED
        BY <4>1, <4>2, NumberIsSome, Zenon
    <3>2. QED
      BY <3>1, Zenon
  <2>11. Linked(i)'
    <3>1. Calls(i)' \subseteq Calls(i) \cup {p}
      BY <2>4, CallsStep, Zenon
    <3>2. Links(i)' <= Links(i) /\ Links(i) \in Nat /\ Links(i)' \in Nat
      BY <1>3, <1>6, <2>10, <3>1, LinksStep, Zenon DEF LinkRecount
    <3>3. fs.nlink[i] >= Links(i) /\ fs.nlink[i] \in Int
      BY <1>4, <1>2, <1>3 DEF LinkInv, Inodes
    <3>4. fs'.nlink[i] = fs.nlink[i] /\ fs'.type[i] # "free"
      BY <1>4, <1>3, <1>5, <2>5, <2>6, Zenon
    <3>5. fs'.nlink[i] >= Links(i)'
      BY <3>2, <3>3, <3>4
    <3>6. QED
      BY <3>4, <3>5, Zenon DEF Linked
  <2>12. ASSUME NEW j \in Inum, j # i
         PROVE  Calls(j)' \subseteq Calls(j) /\ Names(j)' \subseteq Names(j)
    BY <2>4, <2>9, <2>10, <2>12, CallsStep, Zenon
  <2>13. Linked(d)'
    <3>1. CASE ~dir
      <4>1. fs'.nlink[d] = fs.nlink[d]
        BY <2>6, <3>1, Zenon DEF k
      <4>2. QED
        BY <1>4, <1>3, <2>5, <2>10, <2>12, <4>1, LinkedKeeps, Zenon
    <3>2. CASE dir
      <4>1. n \in Subs(d)
        BY <1>4, <1>3, <1>5, <3>2, NumberIsSome, Zenon DEF Subs
      <4>2. Subs(d)' \subseteq Subs(d) \ {n}
        BY <2>5, <2>7, EntryStep, Zenon
      <4>3. Links(d)' + 1 <= Links(d) /\ Links(d) \in Nat /\ Links(d)' \in Nat
        <5>1. Names(d)' \subseteq Names(d) /\ Calls(d)' \subseteq Calls(d)
          BY <1>3, <1>4, <2>12, Zenon
        <5>2. QED
          BY <4>1, <4>2, <5>1, LinksStep, Zenon DEF LinkRecount
      <4>4. fs.nlink[d] >= Links(d) /\ fs.nlink[d] \in Int
        BY <1>4, <1>2, <1>3 DEF LinkInv, Inodes
      <4>5. fs'.nlink[d] = fs.nlink[d] - 1
        BY <2>6, <3>2, Zenon DEF k
      <4>6. fs'.nlink[d] >= Links(d)'
        BY <4>3, <4>4, <4>5
      <4>7. fs'.type[d] # "free"
        BY <1>4, <1>5, <2>5, Zenon
      <4>8. QED
        BY <4>6, <4>7, Zenon DEF Linked
    <3>3. QED
      BY <3>1, <3>2, Zenon
  <2>14. ASSUME NEW j \in Inum, j # i, j # d
         PROVE  Linked(j)'
    BY <2>5, <2>6, <2>10, <2>12, <2>14, LinkedKeeps, Zenon
  <2>15. \A j \in Inum : Linked(j)'
    BY <2>11, <2>13, <2>14, Zenon
  <2>16. panic' # "unlink:nlink<1"
    BY <2>4, Zenon DEF LinkInv
  <2>17. \A j \in Inum : fs.type[j] # "free" => fs'.type[j] = fs.type[j]
    BY <2>5, Zenon
  <2>18. QED
    BY <1>9, <2>4, <2>8, <2>9, <2>15, <2>16, <2>17, WriteStep, Zenon
<1>10. QED
  BY <1>4, <1>7, <1>8, <1>9, Zenon DEF unlink_entry

\* What create writes.
Creates(d, n, kind, i) ==
  /\ \A j \in Inum : fs'.type[j] = IF j = i THEN kind ELSE fs.type[j]
  /\ \A j \in Inum : fs'.nlink[j] =
       IF j = i THEN 1 ELSE IF j = d /\ kind = "dir" THEN fs.nlink[j] + 1 ELSE fs.nlink[j]
  /\ \A j \in Inum, m \in Name : fs'.ent[j][m] =
       IF j = d /\ m = n THEN i ELSE IF j = i THEN None ELSE fs.ent[j][m]
  /\ \A j \in Inum : j # i /\ j # d => fs'.ent[j] = fs.ent[j]

\* What create writes, field by field.
LEMMA CreatedFields ==
  ASSUME fs \in Inodes, NEW d \in Inum, NEW i \in Inum, d # i, NEW n, NEW kind,
         fs' = Created(d, n, kind, i)
  PROVE  Creates(d, n, kind, i)
<1> DEFINE g == [fs EXCEPT !.type[i] = kind,
                           !.nlink[i] = 1,
                           !.nlink[d] = IF kind = "dir" THEN @ + 1 ELSE @,
                           !.ent[i] = [m \in Name |-> None],
                           !.up[i] = IF kind = "dir" THEN d ELSE None]
           ty == [fs.type EXCEPT ![i] = kind]
           nl == [fs.nlink EXCEPT ![i] = 1]
           nd == [nl EXCEPT ![d] = IF kind = "dir" THEN fs.nlink[d] + 1 ELSE fs.nlink[d]]
           en == [fs.ent EXCEPT ![i] = [m \in Name |-> None]]
           up == [fs.up EXCEPT ![i] = IF kind = "dir" THEN d ELSE None]
           ed == [en EXCEPT ![d][n] = i]
<1>1. g = [fs EXCEPT !.type = ty, !.nlink = nd, !.ent = en, !.up = up]
  BY ZenonT(30) DEF Inodes
<1>2. \A j \in Inum : ty[j] = IF j = i THEN kind ELSE fs.type[j]
  BY Zenon DEF Inodes
<1>3. \A j \in Inum : nd[j] =
        IF j = i THEN 1 ELSE IF j = d /\ kind = "dir" THEN fs.nlink[j] + 1 ELSE fs.nlink[j]
  BY ZenonT(30) DEF Inodes
<1>4. en \in [Inum -> [Name -> Inum \cup {None}]]
  BY Zenon DEF Inodes
<1>5. \A j \in Inum : en[j] = IF j = i THEN [m \in Name |-> None] ELSE fs.ent[j]
  BY Zenon DEF Inodes
<1>6. fs' = dir_link(g, d, n, i)
  BY Zenon DEF Created
<1> HIDE DEF g, ty, nd, en, up
<1>7. g.type = ty /\ g.nlink = nd /\ g.ent = en
  BY <1>1, ZenonT(30) DEF Inodes
<1>8. fs'.type = ty /\ fs'.nlink = nd /\ fs'.ent = ed
  BY <1>1, <1>6, <1>7, ZenonT(30) DEF Inodes, dir_link
<1>9. ed[d] = [en[d] EXCEPT ![n] = i] /\ \A j \in Inum : j # d => ed[j] = en[j]
  BY <1>4, Zenon
<1> HIDE DEF ed
<1>10. en[d] \in [Name -> Inum \cup {None}]
  BY <1>4, Zenon
<1>11. \A m \in Name : ed[d][m] = IF m = n THEN i ELSE en[d][m]
  BY <1>9, <1>10, Zenon
<1>12. \A j \in Inum, m \in Name :
         ed[j][m] = IF j = d /\ m = n THEN i ELSE IF j = i THEN None ELSE fs.ent[j][m]
  <2>1. ASSUME NEW j \in Inum, NEW m \in Name, j = d
        PROVE  ed[j][m] = IF j = d /\ m = n THEN i ELSE IF j = i THEN None ELSE fs.ent[j][m]
    <3>1. en[d] = fs.ent[d]
      BY <1>5, Zenon
    <3>2. QED
      BY <1>11, <2>1, <3>1, Zenon
  <2>2. ASSUME NEW j \in Inum, NEW m \in Name, j # d
        PROVE  ed[j][m] = IF j = d /\ m = n THEN i ELSE IF j = i THEN None ELSE fs.ent[j][m]
    <3>1. ed[j] = en[j]
      BY <1>9, <2>2, Zenon
    <3>2. QED
      BY <1>5, <2>2, <3>1, Zenon
  <2>3. QED
    BY <2>1, <2>2, Zenon
<1>13. QED
  BY <1>2, <1>3, <1>5, <1>8, <1>9, <1>12, Zenon DEF Creates

\* The new i-node had no name, no subdirectory and no call.
LEMMA FreeUnlinked ==
  ASSUME SysInv, LinkInv, LinkCounting, NEW i \in Inum, fs.type[i] = "free"
  PROVE  Names(i) = {} /\ Subs(i) = {} /\ Calls(i) = {} /\ Links(i) = 0
<1>1. Names(i) = {} /\ Calls(i) = {}
  BY Zenon DEF LinkInv
<1>2. Subs(i) = {}
  BY Zenon DEF Subs
<1>3. QED
  BY <1>1, <1>2, LinksStep, Zenon DEF LinkRecount

\* It gets one name, and its directory perhaps a subdirectory.
LEMMA CreatedLinks ==
  ASSUME SysInv, LinkInv, NEW d \in Inum, NEW i \in Inum, d # i, NEW n, NEW kind,
         fs.type[i] = "free", fs' = Created(d, n, kind, i), NEW j \in Inum
  PROVE  /\ Names(j)' \subseteq Names(j) \cup {<<d, n>>}
         /\ j # i => Names(j)' \subseteq Names(j)
         /\ Subs(j)' \subseteq Subs(j) \cup {n}
         /\ j # d \/ kind # "dir" => Subs(j)' \subseteq Subs(j)
<1>1. fs \in Inodes
  BY Zenon DEF SysInv, Types
<1>2. /\ \A a \in Inum : fs'.type[a] = IF a = i THEN kind ELSE fs.type[a]
      /\ \A a \in Inum, m \in Name : fs'.ent[a][m] =
           IF a = d /\ m = n THEN i ELSE IF a = i THEN None ELSE fs.ent[a][m]
  <2>1. Creates(d, n, kind, i)
    BY <1>1, CreatedFields, Zenon
  <2>2. QED
    BY <2>1, Zenon DEF Creates
<1>3. Names(i) = {}
  BY Zenon DEF LinkInv
<1>4. \A a \in Inum, m \in Name : fs.ent[a][m] \in Inum \cup {None}
  BY <1>1 DEF Inodes
<1>5. ASSUME NEW x, x \in Names(j)'
      PROVE  x \in Names(j) \/ (x = <<d, n>> /\ j = i)
  <2>1. x \in Inum \X Name /\ fs'.type[x[1]] = "dir" /\ fs'.ent[x[1]][x[2]] = j
    BY <1>5, Zenon DEF Names
  <2>2. PICK a \in Inum, m \in Name : x = <<a, m>> /\ x[1] = a /\ x[2] = m
    BY <2>1
  <2>3. fs'.type[a] = "dir" /\ fs'.ent[a][m] = j
    BY <2>1, <2>2, Zenon
  <2>4. CASE a = d /\ m = n
    BY <1>2, <2>2, <2>3, <2>4, Zenon
  <2>5. CASE ~ (a = d /\ m = n)
    <3>1. a # i /\ fs.ent[a][m] = j
      BY <1>2, <2>3, <2>5, NumberIsSome, Zenon
    <3>2. fs.type[a] = "dir"
      BY <1>2, <2>3, <3>1, Zenon
    <3>3. QED
      BY <2>1, <2>2, <3>1, <3>2, Zenon DEF Names
  <2>6. QED
    BY <2>4, <2>5, Zenon
<1>6. ASSUME NEW m, m \in Subs(j)'
      PROVE  m \in Subs(j) \/ (j = d /\ m = n /\ kind = "dir")
  <2>1. /\ m \in Name /\ fs'.type[j] = "dir" /\ fs'.ent[j][m] # None
        /\ fs'.type[fs'.ent[j][m]] = "dir"
    BY <1>6, Zenon DEF Subs
  <2>2. CASE j = d /\ m = n
    <3>1. fs'.ent[j][m] = i
      BY <1>2, <2>1, <2>2, Zenon
    <3>2. QED
      BY <1>2, <2>1, <2>2, <3>1, Zenon
  <2>3. CASE ~ (j = d /\ m = n)
    <3>1. j # i /\ fs'.ent[j][m] = fs.ent[j][m] /\ fs.type[j] = "dir"
      BY <1>2, <2>1, <2>3, Zenon
    <3>2. fs.ent[j][m] # i
      <4>1. SUFFICES ASSUME fs.ent[j][m] = i PROVE FALSE
        BY Zenon
      <4>2. <<j, m>> \in Names(i)
        BY <2>1, <3>1, <4>1 DEF Names
      <4>3. QED
        BY <1>3, <4>2, Zenon
    <3>3. fs.ent[j][m] \in Inum
      BY <1>4, <2>1, <3>1, Zenon
    <3>4. fs.type[fs.ent[j][m]] = "dir"
      BY <1>2, <2>1, <3>1, <3>2, <3>3, Zenon
    <3>5. QED
      BY <2>1, <3>1, <3>4, Zenon DEF Subs
  <2>4. QED
    BY <2>2, <2>3, Zenon
<1>7. QED
  BY <1>5, <1>6, Zenon

\* create: the i-node of that name, or a new one.
LEMMA CreateLinks ==
  ASSUME SysInv, SysInv', LinkInv, LinkCounting, panic = "none", NEW p \in Proc, create(p)
  PROVE  LinkInv'
<1> DEFINE t == th[p]
           n == Head(t.elems)
           e == Lookup(t.ip, n)
<1>1. t.pc = "locked" /\ t.call \in {"create", "mkdir"} /\ Parent(t.call) /\ UNCHANGED <<cwd, fds>>
  BY Zenon DEF create, Parent
<1>2. /\ t \in Thread /\ At(t) = "locked" /\ t.vic = None /\ t.kont = "none"
      /\ ic \in Cache /\ fs \in Inodes /\ WellFormed(t) /\ Typed(t, fs)
  BY <1>1, LinkFacts, Zenon
<1>3. t.dp = None /\ t.old = None /\ t.ip \in Inum /\ t.elems # <<>>
  <2>1. t.dp = None /\ t.old = None /\ t.ip # None /\ t.elems # <<>>
    BY <1>1, <1>2, ZenonT(30) DEF WellFormed, HasIp, HasDp, HasOld
  <2>2. QED
    BY <1>2, <2>1, Zenon DEF Thread
<1>4. fs.type[t.ip] = "dir" /\ ic.lock[t.ip] = p
  <2>1. fs.type[t.ip] = "dir"
    BY <1>1, <1>2, Zenon DEF Typed
  <2>2. ic.lock[t.ip] = p
    BY <1>1, <1>2, <1>3, LinkFacts, Zenon DEF Holds, Locked
  <2>3. QED
    BY <2>1, <2>2, Zenon
<1>5. CASE /\ e # None
           /\ inode_unlockput(p, t.ip, inode_get(ic, e), fs, [t EXCEPT !.pc = "exists", !.ip = e])
  <2> DEFINE u == [t EXCEPT !.pc = "exists", !.ip = e]
             c == inode_get(ic, e)
  <2>1. e \in Inum \cup {None}
    BY <1>2, <1>3, NextElem, ZenonT(30) DEF Thread
  <2> HIDE DEF e
  <2>2. c \in Cache
    BY <1>2, <1>5, <2>1, GetIsCache, Zenon
  <2>3. IsAt(u, "exists", t.call, t.elems, e, None, None) /\ inode_unlockput(p, t.ip, c, fs, u)
    BY <1>2, <1>3, <1>5, <2>1, ZenonT(30) DEF Thread, PC, IsAt
  <2> HIDE DEF u, c
  <2>4. Quiet(p, u)
    BY <2>3, ZenonT(30) DEF Quiet, Spares, At, HasOld, IsAt
  <2>5. QED
    BY <1>1, <1>3, <2>2, <2>3, <2>4, QuietDrop, Zenon DEF IsAt
<1>6. CASE panic' = "inode_alloc:no_inodes" /\ UNCHANGED <<fs, th>>
  BY <1>1, <1>6, SameStep, Zenon
<1>7. CASE \E i, kind, c :
             /\ Free # {} /\ i = FirstFree /\ kind \in {"dir", "file"}
             /\ c = [inode_get(ic, i) EXCEPT !.lock[i] = p, !.valid = @ \cup {i}]
             /\ inode_unlockput(p, t.ip, c, Created(t.ip, n, kind, i),
                                [t EXCEPT !.pc = "created", !.ip = i])
  <2>1. PICK d \in Inum, m \in {n} : d = t.ip
    BY <1>3, Zenon
  <2>2. PICK i, kind, c :
             /\ Free # {} /\ i = FirstFree /\ kind \in {"dir", "file"}
             /\ c = [inode_get(ic, i) EXCEPT !.lock[i] = p, !.valid = @ \cup {i}]
             /\ inode_unlockput(p, t.ip, c, Created(t.ip, n, kind, i),
                                [t EXCEPT !.pc = "created", !.ip = i])
    BY <1>7, Zenon
  <2>3. i \in Inum /\ fs.type[i] = "free"
    <3>1. Free \subseteq Nat
      BY ConstAssumption DEF Free, Inum
    <3>2. FirstFree \in Free
      BY <2>2, <3>1, Zenon DEF FirstFree, LinkCounting, LeastNumber
    <3>3. QED
      BY <2>2, <3>2, Zenon DEF Free
  <2>4. d # i /\ fs.type[d] = "dir" /\ ic.lock[d] = p
    BY <1>4, <2>1, <2>3, Zenon
  <2> DEFINE u == [t EXCEPT !.pc = "created", !.ip = i]
             k == inode_unlock(c, d)
             f == Created(d, m, kind, i)
  <2>5. IsAt(u, "created", t.call, t.elems, i, None, None) /\ inode_put(p, d, k, f, u)
    BY <1>2, <1>3, <2>1, <2>2, <2>3, ZenonT(30) DEF Thread, PC, IsAt, inode_unlockput
  <2>6. k \in Cache
    <3>1. inode_get(ic, i) \in Cache
      BY <1>2, <2>3, GetIsCache, Zenon
    <3>2. c \in Cache
      BY <2>2, <2>3, <3>1, Zenon DEF Cache
    <3>3. QED
      BY <3>2, Zenon DEF inode_unlock, Cache
  <2> HIDE DEF u, k, f
  <2>7. GoesTo(p, u) /\ fs' = f /\ panic' \in {panic, "inode_put:busy"}
    BY <2>5, <2>6, PutGoes, Zenon DEF IsAt
  <2>8. fs' = Created(d, m, kind, i)
    BY <2>7, Zenon DEF f
  <2>9. /\ \A j \in Inum : fs'.type[j] = IF j = i THEN kind ELSE fs.type[j]
        /\ \A j \in Inum : fs'.nlink[j] =
             IF j = i THEN 1 ELSE IF j = d /\ kind = "dir" THEN fs.nlink[j] + 1 ELSE fs.nlink[j]
        /\ \A j \in Inum : j # i /\ j # d => fs'.ent[j] = fs.ent[j]
    <3>1. Creates(d, m, kind, i)
      BY <1>2, <2>3, <2>4, <2>8, CreatedFields, Zenon
    <3>2. QED
      BY <3>1, Zenon DEF Creates
  <2>10. Intact(p)
    BY <2>3, <2>4, <2>9, Zenon DEF Intact
  <2>11. Spares(p, u) /\ Typed(u, fs') /\ \A j \in Inum : ~Counted(u, j)
    BY <2>3, <2>5, ZenonT(30) DEF Spares, Typed, Counted, At, HasOld, IsAt
  <2>12. ASSUME NEW j \in Inum
         PROVE  /\ Names(j)' \subseteq Names(j) \cup {<<d, m>>}
                /\ j # i => Names(j)' \subseteq Names(j)
                /\ Subs(j)' \subseteq Subs(j) \cup {m}
                /\ j # d \/ kind # "dir" => Subs(j)' \subseteq Subs(j)
    BY <2>3, <2>4, <2>8, CreatedLinks, Zenon
  <2>13. \A j \in Inum : Calls(j)' \subseteq Calls(j)
    BY <2>7, <2>11, CallsStep, Zenon
  <2>14. Linked(i)'
    <3>1. Links(i) = 0
      BY <2>3, FreeUnlinked, Zenon
    <3>2. Links(i)' <= Links(i) + 1 /\ Links(i)' \in Nat
      <4>1. Names(i)' \subseteq Names(i) \cup {<<d, m>>} /\ Subs(i)' \subseteq Subs(i) /\ Calls(i)' \subseteq Calls(i)
        BY <2>3, <2>4, <2>12, <2>13, Zenon
      <4>2. QED
        BY <2>3, <4>1, LinksStep, Zenon DEF LinkRecount
    <3>3. fs'.nlink[i] = 1 /\ fs'.type[i] # "free"
      BY <2>2, <2>3, <2>9, Zenon
    <3>4. fs'.nlink[i] >= Links(i)'
      BY <3>1, <3>2, <3>3
    <3>5. QED
      BY <3>3, <3>4, Zenon DEF Linked
  <2>15. Linked(d)'
    <3>1. CASE kind = "dir"
      <4>1. Links(d)' <= Links(d) + 1 /\ Links(d) \in Nat /\ Links(d)' \in Nat
        <5>1. Names(d)' \subseteq Names(d) /\ Subs(d)' \subseteq Subs(d) \cup {m} /\ Calls(d)' \subseteq Calls(d)
          BY <2>4, <2>12, <2>13, Zenon
        <5>2. QED
          BY <5>1, LinksStep, Zenon DEF LinkRecount
      <4>2. fs.nlink[d] >= Links(d) /\ fs.nlink[d] \in Int
        BY <1>2 DEF LinkInv, Inodes
      <4>3. fs'.nlink[d] = fs.nlink[d] + 1 /\ fs'.type[d] # "free"
        BY <2>4, <2>9, <3>1, Zenon
      <4>4. fs'.nlink[d] >= Links(d)'
        BY <4>1, <4>2, <4>3
      <4>5. QED
        BY <4>3, <4>4, Zenon DEF Linked
    <3>2. CASE kind # "dir"
      BY <2>4, <2>9, <2>12, <2>13, <3>2, LinkedKeeps, Zenon
    <3>3. QED
      BY <3>1, <3>2, Zenon
  <2>16. ASSUME NEW j \in Inum, j # i, j # d
         PROVE  Linked(j)'
    BY <2>9, <2>12, <2>13, <2>16, LinkedKeeps, Zenon
  <2>17. \A j \in Inum : Linked(j)'
    BY <2>14, <2>15, <2>16, Zenon
  <2>18. panic' # "unlink:nlink<1"
    BY <2>7, Zenon DEF LinkInv
  <2>19. \A j \in Inum : fs.type[j] # "free" => fs'.type[j] = fs.type[j]
    BY <2>3, <2>9, Zenon
  <2>20. QED
    BY <1>1, <2>7, <2>10, <2>11, <2>17, <2>18, <2>19, WriteStep, Zenon
<1>8. QED
  <2>1. (IF t.call = "mkdir" THEN "dir" ELSE "file") \in {"dir", "file"}
    <3>1. CASE t.call = "mkdir"
      BY <3>1, Zenon
    <3>2. CASE t.call # "mkdir"
      BY <3>2, Zenon
    <3>3. QED
      BY <3>1, <3>2, Zenon
  <2>2. QED
    BY <1>5, <1>6, <1>7, <2>1, Zenon DEF create

\* Every step keeps it: one case for each action.
LEMMA LinkNext ==
  ASSUME LinkCounting, SysInv, SysInv', LinkInv, [Next]_vars
  PROVE  LinkInv'
<1>1. CASE UNCHANGED vars
  BY <1>1, SameStep, Zenon DEF vars, LinkInv
<1>2. CASE Stopped
  BY <1>2, SameStep, Zenon DEF Stopped, vars, LinkInv
<1>3. ASSUME NEW p \in Proc, panic = "none", Step(p)
      PROVE  LinkInv'
  <2>1. CASE found_begin_trans(p)
    BY <2>1, SameStep, Zenon DEF found_begin_trans, LinkInv
  <2>2. QED
    BY <1>3, <2>1, BeginLinks, CloseLinks, FileCloseLinks, NamexLinks, NamexBodyLinks,
       FailedLinks, FoundLockLinks, FreeLinks, CommitLinks, OpenLinks, ChdirLinks, CreateLinks,
       ExistingLinks, UnlinkLinks, UnlinkLockLinks, UnlinkEntryLinks, UnlinkBadLinks,
       UnlinkDoneLinks, LinkLinks, LinkEntryLinks, LinkEndLinks, LinkUndoneLinks, ZenonT(30)
       DEF Step
<1>4. ASSUME NEW p \in Proc, inode_get_panic(p)
      PROVE  LinkInv'
  BY <1>4, SameStep DEF inode_get_panic, Panic
<1>5. QED
  BY <1>1, <1>2, <1>3, <1>4, Zenon DEF Next
=============================================================================
