------------------------------ MODULE SysFile ------------------------------
(***************************************************************************)
(* The system calls on names (kern/fs/sysfile.c), path lookup (path.c),    *)
(* directories (dir.c), the cache of i-nodes and their locks (inode.c) and *)
(* open files (file.c), for processes that run them concurrently.          *)
(*                                                                         *)
(* A process may lose the CPU whenever it waits for the disk, for the lock *)
(* of an i-node or for the log; a step runs from one such point to the     *)
(* next one at which another process could tell the difference: what a     *)
(* call does to an i-node while it holds its lock is one step.  Waiting is *)
(* a guard.  The contents of i-nodes and of their cached copies, which the *)
(* lock keeps equal, are one record; block contents are left to FileIO.    *)
(*                                                                         *)
(* An operator whose name ends in _bug is a faulty variant of the one      *)
(* after it, which the specification does not use: put in its place it     *)
(* must break the property its comment names.                              *)
(***************************************************************************)
EXTENDS Integers, Sequences, FiniteSets

CONSTANTS
  Proc,      \* processes
  NoProc,
  NInum,     \* i-nodes are 1 .. NInum; sb.ninodes is one more
  NOFILE,    \* descriptors of a process
  NFILE,     \* open files of the system
  Name,      \* names in directories other than "." and ".."
  Workload   \* what the processes may do: the calls they make and their
             \* paths, and NINODE, the entries of the i-node cache

ASSUME ConstAssumption ==
  /\ NInum \in Nat \ {0}
  /\ NOFILE \in Nat \ {0} /\ NFILE \in Nat
  /\ NoProc \notin Proc /\ IsFiniteSet(Proc)
  /\ IsFiniteSet(Name) /\ Name \cap {".", ".."} = {}
  /\ \A w \in Workload :
       /\ w.NINODE \in Nat \ {0}
       /\ w.Path \subseteq [abs : BOOLEAN, elems : Seq(Name \cup {".", ".."})]

Inum == 1 .. NInum
None == 0     \* no i-node
ROOTINO == 1

VARIABLES
  work,      \* the workload, which never changes
  fs,        \* the i-nodes: type, nlink, and for a directory its entries
             \* (ent), ".." being apart (up)
  ic,        \* the i-node cache: ref, I_VALID, and who has set I_BUSY
  trans,     \* the process in a transaction
  cwd,       \* tcb_get_cwd
  fds,       \* the i-nodes of tcb_get_openfiles
  th,        \* where each process is, and the references it holds
  panic      \* the message of KERN_PANIC, or "none"

vars == <<work, fs, ic, trans, cwd, fds, th, panic>>

\* pc: where the process is.  call, elems: its call and the rest of its path.
\* ip, dp, old, vic: the i-nodes it has a reference to.  kont: where to go
\* when vic is freed.
Idle == [pc |-> "idle", call |-> "none", elems |-> <<>>, kont |-> "none",
         ip |-> None, dp |-> None, old |-> None, vic |-> None]

Lookup(d, n) ==
  CASE n = "." -> d [] n = ".." -> fs.up[d] [] OTHER -> fs.ent[d][n]

dir_link(f, d, n, i) == [f EXCEPT !.ent[d][n] = i]

----------------------------------------------------------------------------
(* The i-node cache: c is its value, f that of the i-nodes, when the       *)
(* function is called, and t the process when it returns.                  *)

inode_get(c, i) ==
  [c EXCEPT !.ref[i] = @ + 1,
            !.valid = IF c.ref[i] = 0 THEN @ \ {i} ELSE @]

inode_unlock(c, i) == [c EXCEPT !.lock[i] = NoProc]

Panic(message) == panic' = message /\ UNCHANGED <<fs, ic, trans, cwd, fds, th>>

\* Waits while the i-node is busy.
inode_lock(p, i, t) ==
  /\ ic.lock[i] = NoProc
  /\ IF i \notin ic.valid /\ fs.type[i] = "free"
     THEN Panic("inode_lock:no_type")
     ELSE /\ ic' = [ic EXCEPT !.lock[i] = p, !.valid = @ \cup {i}]
          /\ th' = [th EXCEPT ![p] = t]
          /\ UNCHANGED <<fs, trans, cwd, fds, panic>>

\* An i-node without links is freed with its last reference, in a step of its
\* own because that takes disk transfers.  (_bug,
\* NamesAllocated: whoever else refers to it.)
inode_put_bug(p, i, c, f, t) ==
  /\ fs' = f
  /\ IF i \in c.valid /\ f.nlink[i] = 0
     THEN /\ panic' = IF c.lock[i] = NoProc THEN panic ELSE "inode_put:busy"
          /\ ic' = [c EXCEPT !.lock[i] = p]
          /\ th' = [th EXCEPT ![p] = [t EXCEPT !.pc = "free", !.kont = t.pc, !.vic = i]]
     ELSE /\ ic' = [c EXCEPT !.ref[i] = @ - 1]
          /\ th' = [th EXCEPT ![p] = t]
          /\ UNCHANGED panic

inode_put(p, i, c, f, t) ==
  /\ fs' = f
  /\ IF c.ref[i] = 1 /\ i \in c.valid /\ f.nlink[i] = 0
     THEN /\ panic' = IF c.lock[i] = NoProc THEN panic ELSE "inode_put:busy"
          /\ ic' = [c EXCEPT !.lock[i] = p]
          /\ th' = [th EXCEPT ![p] = [t EXCEPT !.pc = "free", !.kont = t.pc, !.vic = i]]
     ELSE /\ ic' = [c EXCEPT !.ref[i] = @ - 1]
          /\ th' = [th EXCEPT ![p] = t]
          /\ UNCHANGED panic

\* (_bug, AssertionsHold: puts before it unlocks.)
inode_unlockput_bug(p, i, c, f, t) ==
  IF c.ref[i] = 1 /\ i \in c.valid /\ f.nlink[i] = 0
  THEN inode_put(p, i, c, f, t)
  ELSE inode_put(p, i, inode_unlock(c, i), f, t)

inode_unlockput(p, i, c, f, t) == inode_put(p, i, inode_unlock(c, i), f, t)

\* The rest of inode_put: inode_trunc and inode_update log their writes.
free_inode(p) ==
  LET t == th[p]
  IN  /\ t.pc = "free"
      /\ IF trans = NoProc THEN Panic("write_outside_of_trans")
         ELSE /\ fs' = [fs EXCEPT !.type[t.vic] = "free"]
              /\ ic' = [ic EXCEPT !.lock[t.vic] = NoProc, !.valid = @ \ {t.vic},
                                  !.ref[t.vic] = @ - 1]
              /\ th' = [th EXCEPT ![p] = [t EXCEPT !.pc = t.kont, !.kont = "none", !.vic = None]]
              /\ UNCHANGED <<trans, cwd, fds, panic>>

----------------------------------------------------------------------------
(* Paths.                                                                  *)

\* The beginning of namex for process p: the i-node to start from.
Start(p, path) == IF path.abs THEN ROOTINO ELSE cwd[p]

Walk(p, call, path, t) ==
  [t EXCEPT !.pc = "walk", !.call = call, !.elems = path.elems, !.ip = Start(p, path)]

\* The calls that look for the parent (nameiparent).
Parent(call) == call \in {"create", "mkdir", "unlink", "link2"}

\* One test of the loop of namex.
namex(p) ==
  LET t == th[p]
  IN  /\ t.pc = "walk"
      /\ \/ /\ t.elems # <<>>
            /\ inode_lock(p, t.ip, [t EXCEPT !.pc = "walking"])
         \/ /\ t.elems = <<>> /\ Parent(t.call)
            /\ inode_put(p, t.ip, ic, fs, [t EXCEPT !.pc = "fail", !.ip = None])
            /\ UNCHANGED <<trans, cwd, fds>>
         \/ /\ t.elems = <<>> /\ ~Parent(t.call)
            /\ th' = [th EXCEPT ![p].pc = "found"]
            /\ UNCHANGED <<fs, ic, trans, cwd, fds, panic>>

\* The body of the loop, with the i-node locked.  (_bug, RefsExact: when there is no such
\* name the i-node is unlocked and not put.)
namex_body_bug(p) ==
  LET t == th[p]
      sub == Lookup(t.ip, Head(t.elems))
      c == inode_get(ic, sub)
  IN  /\ t.pc = "walking"
      /\ \/ /\ fs.type[t.ip] # "dir"
            /\ inode_unlockput(p, t.ip, ic, fs, [t EXCEPT !.pc = "fail", !.ip = None])
         \/ /\ fs.type[t.ip] = "dir" /\ Parent(t.call) /\ Len(t.elems) = 1
            /\ ic' = inode_unlock(ic, t.ip)
            /\ th' = [th EXCEPT ![p].pc = "found"]
            /\ UNCHANGED <<fs, panic>>
         \/ /\ fs.type[t.ip] = "dir" /\ ~(Parent(t.call) /\ Len(t.elems) = 1)
            /\ \/ /\ sub = None
                  /\ ic' = inode_unlock(ic, t.ip)
                  /\ th' = [th EXCEPT ![p] = [t EXCEPT !.pc = "fail", !.ip = None]]
                  /\ UNCHANGED <<fs, panic>>
               \/ /\ sub # None
                  /\ inode_unlockput(p, t.ip, c, fs,
                       [t EXCEPT !.pc = "walk", !.ip = sub, !.elems = Tail(@)])
      /\ UNCHANGED <<trans, cwd, fds>>

namex_body(p) ==
  LET t == th[p]
      sub == Lookup(t.ip, Head(t.elems))
      c == inode_get(ic, sub)
  IN  /\ t.pc = "walking"
      /\ \/ /\ fs.type[t.ip] # "dir"
            /\ inode_unlockput(p, t.ip, ic, fs, [t EXCEPT !.pc = "fail", !.ip = None])
         \/ /\ fs.type[t.ip] = "dir" /\ Parent(t.call) /\ Len(t.elems) = 1
            /\ ic' = inode_unlock(ic, t.ip)
            /\ th' = [th EXCEPT ![p].pc = "found"]
            /\ UNCHANGED <<fs, panic>>
         \/ /\ fs.type[t.ip] = "dir" /\ ~(Parent(t.call) /\ Len(t.elems) = 1)
            /\ \/ /\ sub = None
                  /\ inode_unlockput(p, t.ip, ic, fs, [t EXCEPT !.pc = "fail", !.ip = None])
               \/ /\ sub # None
                  /\ inode_unlockput(p, t.ip, c, fs,
                       [t EXCEPT !.pc = "walk", !.ip = sub, !.elems = Tail(@)])
      /\ UNCHANGED <<trans, cwd, fds>>

----------------------------------------------------------------------------
(* The system calls.  `found' and `locked' are the points after namex and  *)
(* after the inode_lock of its result; a transaction ends in `commit'.     *)

Begins(p, call) == panic = "none" /\ th[p].pc = "idle" /\ call \in work.Calls

sys_walk_first(p, call, path) ==
  /\ Begins(p, call) /\ call \in {"open", "chdir", "unlink", "link"}
  /\ ic' = inode_get(ic, Start(p, path))
  /\ th' = [th EXCEPT ![p] = Walk(p, call, path, Idle)]
  /\ UNCHANGED <<fs, trans, cwd, fds, panic>>

\* sys_open with O_CREATE, and sys_mkdir: begin_trans comes first.
sys_create_first(p, call, path) ==
  /\ Begins(p, call) /\ call \in {"create", "mkdir"}
  /\ trans = NoProc /\ trans' = p
  /\ ic' = inode_get(ic, Start(p, path))
  /\ th' = [th EXCEPT ![p] = Walk(p, call, path, Idle)]
  /\ UNCHANGED <<fs, cwd, fds, panic>>

\* namex has returned 0.
failed(p) ==
  LET t == th[p]
  IN  /\ t.pc = "fail"
      /\ th' = [th EXCEPT ![p] =
                  CASE t.call \in {"create", "mkdir"} -> [t EXCEPT !.pc = "commit"]
                    [] t.call = "link2" -> [t EXCEPT !.pc = "undo"]
                    [] OTHER -> Idle]
      /\ UNCHANGED <<fs, ic, trans, cwd, fds, panic>>

\* begin_trans of sys_unlink and sys_link comes after the lookup.
found_begin_trans(p) ==
  /\ th[p].pc = "found" /\ th[p].call \in {"unlink", "link"}
  /\ trans = NoProc /\ trans' = p
  /\ UNCHANGED <<fs, ic, cwd, fds, th, panic>>

found_lock(p) ==
  LET t == th[p]
  IN  /\ t.pc = "found"
      /\ t.call \in {"unlink", "link"} => trans = p
      /\ inode_lock(p, t.ip, [t EXCEPT !.pc = "locked"])

commit_trans(p) ==
  LET t == th[p]
  IN  /\ t.pc = "commit"
      /\ trans' = NoProc
      /\ th' = [th EXCEPT ![p] = IF t.call = "create" /\ t.ip # None
                                 THEN [t EXCEPT !.pc = "locked", !.call = "open"]
                                 ELSE Idle]
      /\ UNCHANGED <<fs, ic, cwd, fds, panic>>

\* The end of sys_open.  A directory is not opened for writing; without a
\* free descriptor or file the i-node is put back.
\* The first free descriptor, where there is one.
fdalloc(p) ==
  CHOOSE fd \in 1 .. NOFILE :
    fds[p][fd] = None /\ \A e \in 1 .. fd - 1 : fds[p][e] # None

OpenFiles == {x \in Proc \X (1 .. NOFILE) : fds[x[1]][x[2]] # None}

sys_open(p) ==
  LET t == th[p]
      full == \/ \A d \in 1 .. NOFILE : fds[p][d] # None
              \/ Cardinality(OpenFiles) >= NFILE
  IN  /\ t.pc = "locked" /\ t.call = "open"
      /\ \/ /\ full \/ fs.type[t.ip] = "dir"
            /\ inode_unlockput(p, t.ip, ic, fs, Idle)
            /\ UNCHANGED fds
         \/ /\ ~full
            /\ fds' = [fds EXCEPT ![p][fdalloc(p)] = t.ip]
            /\ ic' = inode_unlock(ic, t.ip)
            /\ th' = [th EXCEPT ![p] = Idle]
            /\ UNCHANGED <<fs, panic>>
      /\ UNCHANGED <<trans, cwd>>

sys_close(p, fd) ==
  /\ Begins(p, "close") /\ fds[p][fd] # None
  /\ fds' = [fds EXCEPT ![p][fd] = None]
  /\ th' = [th EXCEPT ![p] = [Idle EXCEPT !.pc = "close", !.ip = fds[p][fd]]]
  /\ UNCHANGED <<fs, ic, trans, cwd, panic>>

\* The file has no reference left: begin_trans, inode_put, commit_trans.
file_close(p) ==
  /\ th[p].pc = "close"
  /\ trans = NoProc /\ trans' = p
  /\ inode_put(p, th[p].ip, ic, fs, [Idle EXCEPT !.pc = "commit"])
  /\ UNCHANGED <<cwd, fds>>

sys_chdir(p) ==
  LET t == th[p]
  IN  /\ t.pc = "locked" /\ t.call = "chdir"
      /\ \/ /\ fs.type[t.ip] # "dir"
            /\ inode_unlockput(p, t.ip, ic, fs, Idle)
            /\ UNCHANGED cwd
         \/ /\ fs.type[t.ip] = "dir"
            /\ inode_put(p, cwd[p], inode_unlock(ic, t.ip), fs, Idle)
            /\ cwd' = [cwd EXCEPT ![p] = t.ip]
      /\ UNCHANGED <<trans, fds>>

\* inode_alloc takes the first free i-node; create gives it one link, and a
\* directory the entries "." and "..".
Free == {i \in Inum : fs.type[i] = "free"}
FirstFree == CHOOSE i \in Free : \A j \in Free : i <= j

Created(dp, n, kind, i) ==
  dir_link([fs EXCEPT !.type[i] = kind,
                      !.nlink[i] = 1,
                      !.nlink[dp] = IF kind = "dir" THEN @ + 1 ELSE @,
                      !.ent[i] = [m \in Name |-> None],
                      !.up[i] = IF kind = "dir" THEN dp ELSE None],
           dp, n, i)

create(p) ==
  LET t == th[p]
      n == Head(t.elems)
      e == Lookup(t.ip, n)
      i == FirstFree
      c == inode_get(ic, i)
  IN  /\ t.pc = "locked" /\ t.call \in {"create", "mkdir"}
      /\ \/ /\ e # None
            /\ inode_unlockput(p, t.ip, inode_get(ic, e), fs, [t EXCEPT !.pc = "exists", !.ip = e])
         \/ /\ e = None /\ Free # {}
            /\ inode_unlockput(p, t.ip, [c EXCEPT !.lock[i] = p, !.valid = @ \cup {i}],
                 Created(t.ip, n, IF t.call = "mkdir" THEN "dir" ELSE "file", i),
                 [t EXCEPT !.pc = "created", !.ip = i])
         \/ /\ e = None /\ Free = {}
            /\ panic' = "inode_alloc:no_inodes" /\ UNCHANGED <<fs, ic, th>>
      /\ UNCHANGED <<trans, cwd, fds>>

create_lock_existing(p) ==
  /\ th[p].pc = "exists"
  /\ inode_lock(p, th[p].ip, [th[p] EXCEPT !.pc = "existing"])

\* Only sys_open goes on with an existing i-node, and only with a file.
create_existing(p) ==
  LET t == th[p]
  IN  /\ t.pc = "existing"
      /\ \/ /\ t.call = "create" /\ fs.type[t.ip] = "file"
            /\ th' = [th EXCEPT ![p].pc = "commit"]
            /\ UNCHANGED <<fs, ic, panic>>
         \/ /\ ~(t.call = "create" /\ fs.type[t.ip] = "file")
            /\ inode_unlockput(p, t.ip, ic, fs, [t EXCEPT !.pc = "commit", !.ip = None])
      /\ UNCHANGED <<trans, cwd, fds>>

\* create has returned the new i-node, locked; sys_mkdir puts it.
created(p) ==
  LET t == th[p]
  IN  /\ t.pc = "created"
      /\ \/ /\ t.call = "create"
            /\ th' = [th EXCEPT ![p].pc = "commit"]
            /\ UNCHANGED <<fs, ic, panic>>
         \/ /\ t.call = "mkdir"
            /\ inode_unlockput(p, t.ip, ic, fs, [t EXCEPT !.pc = "commit", !.ip = None])
      /\ UNCHANGED <<trans, cwd, fds>>

\* sys_unlink with the parent locked; "." and ".." cannot be unlinked.
sys_unlink(p) ==
  LET t == th[p]
      n == Head(t.elems)
      e == Lookup(t.ip, n)
      bad == n \in {".", ".."} \/ e = None
  IN  /\ t.pc = "locked" /\ t.call = "unlink"
      /\ \/ /\ bad
            /\ inode_unlockput(p, t.ip, ic, fs, [t EXCEPT !.pc = "commit", !.ip = None])
         \/ /\ ~bad
            /\ ic' = inode_get(ic, e)
            /\ th' = [th EXCEPT ![p] = [t EXCEPT !.pc = "victim", !.dp = t.ip, !.ip = e]]
            /\ UNCHANGED <<fs, panic>>
      /\ UNCHANGED <<trans, cwd, fds>>

unlink_lock(p) ==
  /\ th[p].pc = "victim"
  /\ inode_lock(p, th[p].ip, [th[p] EXCEPT !.pc = "unlinking"])

isdirempty(i) == \A n \in Name : fs.ent[i][n] = None

\* Both are locked: clear the entry, and put the parent.
unlink_entry(p) ==
  LET t == th[p]
      dir == fs.type[t.ip] = "dir"
  IN  /\ t.pc = "unlinking"
      /\ IF fs.nlink[t.ip] < 1 THEN Panic("unlink:nlink<1")
         ELSE /\ \/ /\ dir /\ ~isdirempty(t.ip)
                    /\ inode_unlockput(p, t.ip, ic, fs,
                         [t EXCEPT !.pc = "unlink_bad", !.ip = None])
                 \/ /\ dir => isdirempty(t.ip)
                    /\ inode_unlockput(p, t.dp, ic,
                         [fs EXCEPT !.ent[t.dp][Head(t.elems)] = None,
                                    !.nlink[t.dp] = IF dir THEN @ - 1 ELSE @],
                         [t EXCEPT !.pc = "unlinked", !.dp = None])
              /\ UNCHANGED <<trans, cwd, fds>>

unlink_bad(p) ==
  LET t == th[p]
  IN  /\ t.pc = "unlink_bad"
      /\ inode_unlockput(p, t.dp, ic, fs, [t EXCEPT !.pc = "commit", !.dp = None])
      /\ UNCHANGED <<trans, cwd, fds>>

\* ip->nlink--, and inode_unlockput(ip).
unlink_done(p) ==
  LET t == th[p]
  IN  /\ t.pc = "unlinked"
      /\ inode_unlockput(p, t.ip, ic, [fs EXCEPT !.nlink[t.ip] = @ - 1],
           [t EXCEPT !.pc = "commit", !.ip = None])
      /\ UNCHANGED <<trans, cwd, fds>>

\* sys_link with the old i-node locked: count the link, then look up the parent
\* of the new name.  (_bug, IdleHoldsNothing: the way out for a directory does not
\* commit.)
sys_link_bug(p, new) ==
  LET t == th[p]
  IN  /\ t.pc = "locked" /\ t.call = "link"
      /\ \/ /\ fs.type[t.ip] = "dir"
            /\ inode_unlockput(p, t.ip, ic, fs, Idle)
         \/ /\ fs.type[t.ip] # "dir"
            /\ fs' = [fs EXCEPT !.nlink[t.ip] = @ + 1]
            /\ ic' = inode_get(inode_unlock(ic, t.ip), Start(p, new))
            /\ th' = [th EXCEPT ![p] = Walk(p, "link2", new, [t EXCEPT !.old = t.ip])]
            /\ UNCHANGED panic
      /\ UNCHANGED <<trans, cwd, fds>>

sys_link(p, new) ==
  LET t == th[p]
  IN  /\ t.pc = "locked" /\ t.call = "link"
      /\ \/ /\ fs.type[t.ip] = "dir"
            /\ inode_unlockput(p, t.ip, ic, fs, [t EXCEPT !.pc = "commit", !.ip = None])
         \/ /\ fs.type[t.ip] # "dir"
            /\ fs' = [fs EXCEPT !.nlink[t.ip] = @ + 1]
            /\ ic' = inode_get(inode_unlock(ic, t.ip), Start(p, new))
            /\ th' = [th EXCEPT ![p] = Walk(p, "link2", new, [t EXCEPT !.old = t.ip])]
            /\ UNCHANGED panic
      /\ UNCHANGED <<trans, cwd, fds>>

\* dir_link fails when the name is present.
link_entry(p) ==
  LET t == th[p]
      n == Head(t.elems)
  IN  /\ t.pc = "locked" /\ t.call = "link2"
      /\ \/ /\ Lookup(t.ip, n) # None
            /\ inode_unlockput(p, t.ip, ic, fs, [t EXCEPT !.pc = "undo", !.ip = None])
         \/ /\ Lookup(t.ip, n) = None
            /\ inode_unlockput(p, t.ip, ic, dir_link(fs, t.ip, n, t.old),
                 [t EXCEPT !.pc = "linked", !.ip = None])
      /\ UNCHANGED <<trans, cwd, fds>>

link_done(p) ==
  LET t == th[p]
  IN  /\ t.pc = "linked"
      /\ inode_put(p, t.old, ic, fs, [t EXCEPT !.pc = "commit", !.old = None])
      /\ UNCHANGED <<trans, cwd, fds>>

\* bad: take the link back.  (_bug, NlinkExact: only the reference.)
link_undo(p) ==
  /\ th[p].pc = "undo"
  /\ inode_lock(p, th[p].old, [th[p] EXCEPT !.pc = "undoing"])

link_undone_bug(p) ==
  LET t == th[p]
  IN  /\ t.pc = "undoing"
      /\ inode_unlockput(p, t.old, ic, fs, [t EXCEPT !.pc = "commit", !.old = None])
      /\ UNCHANGED <<trans, cwd, fds>>

link_undone(p) ==
  LET t == th[p]
  IN  /\ t.pc = "undoing"
      /\ inode_unlockput(p, t.old, ic, [fs EXCEPT !.nlink[t.old] = @ - 1],
           [t EXCEPT !.pc = "commit", !.old = None])
      /\ UNCHANGED <<trans, cwd, fds>>

----------------------------------------------------------------------------
(* The cache at its limit.                                                 *)

\* The i-node that the next step of p gets, if any.
Wants(p) ==
  LET t == th[p]
      e == Lookup(t.ip, Head(t.elems))
      last == Len(t.elems) = 1
  IN  CASE t.pc = "walking" /\ fs.type[t.ip] = "dir" /\ ~(Parent(t.call) /\ last) -> e
        [] t.pc = "locked" /\ t.call = "unlink" ->
             IF Head(t.elems) \in {".", ".."} THEN None ELSE e
        [] t.pc = "locked" /\ t.call \in {"create", "mkdir"} ->
             IF e = None /\ Free # {} THEN FirstFree ELSE e
        [] OTHER -> None

NoEntry(i) == i # None /\ ic.ref[i] = 0 /\ Cardinality({j \in Inum : ic.ref[j] > 0}) >= work.NINODE

inode_get_panic(p) == NoEntry(Wants(p)) /\ Panic("inode_get:no_inodes")

----------------------------------------------------------------------------
\* mkfs makes the root directory.  The TCB of every thread refers to it; one
\* thread makes no calls.
Init ==
  /\ work \in Workload
  /\ fs = [type  |-> [i \in Inum |-> IF i = ROOTINO THEN "dir" ELSE "free"],
           nlink |-> [i \in Inum |-> IF i = ROOTINO THEN 1 ELSE 0],
           ent   |-> [i \in Inum |-> [n \in Name |-> None]],
           up    |-> [i \in Inum |-> IF i = ROOTINO THEN ROOTINO ELSE None]]
  /\ ic = [ref   |-> [i \in Inum |-> IF i = ROOTINO THEN Cardinality(Proc) + 1 ELSE 0],
           valid |-> {},
           lock  |-> [i \in Inum |-> NoProc]]
  /\ trans = NoProc
  /\ cwd = [p \in Proc |-> ROOTINO]
  /\ fds = [p \in Proc |-> [d \in 1 .. NOFILE |-> None]]
  /\ th = [p \in Proc |-> Idle]
  /\ panic = "none"

Step(p) ==
  \/ \E call \in work.Calls, path \in work.Path :
       sys_walk_first(p, call, path) \/ sys_create_first(p, call, path)
  \/ \E fd \in 1 .. NOFILE : sys_close(p, fd)
  \/ file_close(p)
  \/ namex(p) \/ namex_body(p) \/ failed(p) \/ found_begin_trans(p) \/ found_lock(p)
  \/ free_inode(p) \/ commit_trans(p)
  \/ sys_open(p) \/ sys_chdir(p)
  \/ create(p) \/ create_lock_existing(p) \/ create_existing(p) \/ created(p)
  \/ sys_unlink(p) \/ unlink_lock(p) \/ unlink_entry(p) \/ unlink_bad(p) \/ unlink_done(p)
  \/ \E new \in work.Path : sys_link(p, new)
  \/ link_entry(p) \/ link_done(p) \/ link_undo(p) \/ link_undone(p)

Stopped == panic # "none" /\ UNCHANGED vars

Next ==
  \/ \E p \in Proc : /\ panic = "none"
                     /\ \/ ~NoEntry(Wants(p)) /\ Step(p)
                        \/ inode_get_panic(p)
                     /\ UNCHANGED work
  \/ Stopped

Spec == Init /\ [][Next]_vars

----------------------------------------------------------------------------
(* Properties.                                                             *)

PC == {"idle", "close", "walk", "walking", "fail", "found", "locked", "free", "commit",
       "exists", "existing", "created", "victim", "unlinking", "unlink_bad", "unlinked",
       "linked", "undo", "undoing"}

Inodes == [type : [Inum -> {"free", "dir", "file"}], nlink : [Inum -> Int],
           ent : [Inum -> [Name -> Inum \cup {None}]], up : [Inum -> Inum \cup {None}]]
Cache == [ref : [Inum -> Nat], valid : SUBSET Inum, lock : [Inum -> Proc \cup {NoProc}]]
Thread == [pc : PC, elems : Seq(Name \cup {".", ".."}), kont : PC \cup {"none"},
           call : {"none", "open", "chdir", "unlink", "link", "create", "mkdir", "link2"},
           ip : Inum \cup {None}, dp : Inum \cup {None},
           old : Inum \cup {None}, vic : Inum \cup {None}]

Types ==
  /\ work \in Workload
  /\ fs \in Inodes
  /\ ic \in Cache
  /\ trans \in Proc \cup {NoProc}
  /\ cwd \in [Proc -> Inum]
  /\ fds \in [Proc -> [1 .. NOFILE -> Inum \cup {None}]]
  /\ th \in [Proc -> Thread]

\* Types, and no link is taken back that was not counted.
TypeOK == Types /\ \A i \in Inum : fs.nlink[i] >= 0

\* ip->ref "tracks the number of in-memory pointers to the entry": every
\* reference is a current directory, an open file or a local of a call in
\* progress, and is counted once, on every path through every call.
RefsExact ==
  panic = "none" => \A i \in Inum :
    ic.ref[i] = (IF i = ROOTINO THEN 1 ELSE 0)
                + Cardinality({p \in Proc : cwd[p] = i})
                + Cardinality({x \in OpenFiles : fds[x[1]][x[2]] = i})
                + Cardinality({x \in Proc \X {"ip", "dp", "old", "vic"} : th[x[1]][x[2]] = i})

\* Between calls a process holds no lock, no transaction and no reference of
\* its own, whichever way its last call ended.
IdleHoldsNothing ==
  \A p \in Proc : th[p].pc = "idle" =>
    /\ \A i \in Inum : ic.lock[i] # p
    /\ trans # p
    /\ th[p] = Idle

\* A name never refers to an i-node that has been freed, and neither does a
\* descriptor or a current directory, however unlinks, opens and closes race.
NamesAllocated ==
  /\ \A d \in Inum, n \in Name :
       fs.type[d] = "dir" /\ fs.ent[d][n] # None => fs.type[fs.ent[d][n]] # "free"
  /\ \A p \in Proc : fs.type[cwd[p]] = "dir"
  /\ \A x \in OpenFiles : fs.type[fds[x[1]][x[2]]] # "free"

\* "Number of links to inode in file system": between transactions nlink is the
\* number of names, and for a directory also of subdirectories, unless somebody
\* has made entries in a current directory that is removed.
NlinkExact ==
  panic = "none" /\ trans = NoProc /\ "chdir" \notin work.Calls => \A i \in Inum : fs.type[i] # "free" =>
    fs.nlink[i] =
      (IF i = ROOTINO THEN 1 ELSE 0)
      + Cardinality({x \in Inum \X Name : fs.type[x[1]] = "dir" /\ fs.ent[x[1]][x[2]] = i})
      + Cardinality({d \in Inum \ {ROOTINO} :
                       fs.type[d] = "dir" /\ fs.nlink[d] > 0 /\ fs.up[d] = i})

\* The assertions of sys_unlink and inode_put hold: no entry leads to an i-node
\* without links while its directory is locked, and nobody locks an i-node that
\* is put for the last time.
AssertionsHold == panic \notin {"unlink:nlink<1", "inode_put:busy"}

-----------------------------------------------------------------------------
(* What the code does not guarantee: TLC refutes it.                       *)

\* "Each system call that might write the file system should be surrounded
\* with begin_trans() and commit_trans() calls": a call that frees an i-node
\* is in its transaction.
FreesInTransaction == \A p \in Proc : th[p].pc = "free" => trans = p

\* inode_trunc is "only called when the inode has no links to it (no directory
\* entries referring to it)": no directory has the freed i-node as its "..".
NoEntryToFreed ==
  \A d \in Inum : fs.type[d] = "dir" => fs.type[fs.up[d]] # "free"
=============================================================================
