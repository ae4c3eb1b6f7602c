------------------------------- MODULE FileIO -------------------------------
(***************************************************************************)
(* Reading and writing open files: sys_read and sys_write                  *)
(* (kern/fs/sysfile.c), file_read and file_write (file.c), inode_read,     *)
(* inode_write, bmap and inode_trunc (inode.c), block_alloc and block_free *)
(* (block.c).                                                              *)
(*                                                                         *)
(* Both calls pass their data through the one array kern_buf.  Interrupts  *)
(* are off in the kernel but a process sleeps for the log, for an i-node   *)
(* and for the disk, so a step is the work on one block: it ends where     *)
(* bufcache_read may sleep.  buf_lock does not exclude anybody, since      *)
(* spinlock_acquire never takes it.  A user's buffer is full of one byte;  *)
(* the blocks are the data blocks, which mkfs leaves free.                 *)
(*                                                                         *)
(* An operator whose name ends in _bug is a faulty variant of the one      *)
(* after it, which the specification does not use: put in its place it     *)
(* must break the property its comment names.                              *)
(***************************************************************************)
EXTENDS Integers, FiniteSets

CONSTANTS
  Proc, NoProc,
  NInum,       \* files
  NBlock,      \* data blocks
  NDIRECT, NINDIRECT,
  BSIZE,       \* bytes of a block
  LOGSIZE,     \* log blocks
  Workload,    \* what the processes may do: the files they open (files) and
               \* the lengths they read and write (lens)
  Byte         \* of each process: what its buffer is full of

ASSUME ConstAssumption ==
  /\ {NInum, NBlock, NDIRECT, NINDIRECT, BSIZE} \subseteq Nat \ {0}
  /\ LOGSIZE \in Nat /\ LOGSIZE >= 6
  /\ \A w \in Workload : w.files \subseteq 1 .. NInum /\ w.lens \subseteq Nat \ {0}
  /\ Byte \in [Proc -> Nat]
  /\ NoProc \notin Proc

Inum == 1 .. NInum
Block == 1 .. NBlock
None == 0                        \* no i-node, no block
MAXFILE == NDIRECT + NINDIRECT
BITMAP == -1                     \* the blocks with the bitmap and the i-nodes
INODES == -2
Zero == 0                        \* what block_zero writes
Lens == UNION {w.lens : w \in Workload}
KBUF == 1 .. (CHOOSE n \in Lens : \A k \in Lens : k <= n)

VARIABLES
  work,       \* the workload, which never changes
  d,          \* the file system: the bitmap (used), and for each i-node its
              \* addrs and size; what is in the blocks, as data and as an
              \* indirect block; the blocks in the log; a panic message
  kern_buf,
  trans,      \* the process in a transaction
  lock,       \* of each i-node
  file,       \* of each process: its i-node and offset
  th,         \* where each process is
  bytes       \* history: the bytes of those who have had the i-node open since
              \* it was allocated

vars == <<work, d, kern_buf, trans, lock, file, th, bytes>>

\* n: what is to be transferred; i: what is done; n1, tot: the same for one
\* inode_read or inode_write.
Idle == [pc |-> "idle", n |-> 0, i |-> 0, n1 |-> 0, tot |-> 0]

Min(a, b) == IF a < b THEN a ELSE b

----------------------------------------------------------------------------
(* Blocks.  e is a value of d; b is a block number.                       *)

log_write(e, b) ==
  [e EXCEPT !.logged = @ \cup {b},
            !.panic = IF Cardinality(e.logged) >= LOGSIZE - 1 THEN "too_big_a_transaction"
                      ELSE IF trans = NoProc THEN "write_outside_of_trans" ELSE @]

block_zero(e, b) ==
  log_write([e EXCEPT !.data[b] = [k \in 0 .. BSIZE - 1 |-> Zero],
                      !.ind[b] = [k \in 0 .. NINDIRECT - 1 |-> None]], b)

\* The first free block.  Without one the function ends without a return: the
\* result is whatever the register held (junk).
block_alloc(e, junk) ==
  LET free == Block \ e.used
      b == CHOOSE x \in free : \A y \in free : x <= y
  IN  IF free = {} THEN [e |-> e, b |-> junk]
      ELSE [e |-> block_zero(log_write([e EXCEPT !.used = @ \cup {b}], BITMAP), b), b |-> b]

\* Of each block of a set.
block_free(e, blocks) ==
  LET f == [e EXCEPT !.used = @ \ blocks,
                     !.panic = IF blocks \subseteq e.used THEN @ ELSE "freeing_free_block"]
  IN  IF blocks = {} THEN e ELSE log_write(f, BITMAP)

bmap_direct(e, i, bn, junk) ==
  LET r == block_alloc(e, junk)
  IN  IF e.addrs[i][bn] # None THEN [e |-> e, b |-> e.addrs[i][bn]]
      ELSE [e |-> [r.e EXCEPT !.addrs[i][bn] = r.b], b |-> r.b]

bmap(e, i, bn, junk) ==
  IF bn < NDIRECT THEN bmap_direct(e, i, bn, junk)
  ELSE LET a == bmap_direct(e, i, NDIRECT, junk)    \* the indirect block
           r == block_alloc(a.e, junk)
           k == bn - NDIRECT
       IN  IF a.e.ind[a.b][k] # None THEN [e |-> a.e, b |-> a.e.ind[a.b][k]]
           ELSE [e |-> log_write([r.e EXCEPT !.ind[a.b][k] = r.b], a.b), b |-> r.b]

\* The blocks of i-node i, by the place that names them.
Places(e, i) ==
  {<<i, k>> : k \in {k \in 0 .. NDIRECT : e.addrs[i][k] # None}}
  \cup IF e.addrs[i][NDIRECT] = None THEN {}
       ELSE {<<i, NDIRECT + 1 + k>> :
               k \in {k \in 0 .. NINDIRECT - 1 : e.ind[e.addrs[i][NDIRECT]][k] # None}}

BlockAt(e, x) ==
  IF x[2] <= NDIRECT THEN e.addrs[x[1]][x[2]]
  ELSE e.ind[e.addrs[x[1]][NDIRECT]][x[2] - NDIRECT - 1]

\* What the register may hold when bmap allocates for process p: any block number,
\* where it matters.
Junk(p) ==
  LET i == file[p].ip
  IN  IF /\ i # None /\ Cardinality(Places(d, i)) <= MAXFILE
         /\ Cardinality(Block \ d.used) < 2
      THEN Block ELSE {1}

\* The cached copy of an i-node is written with the others of its block.
inode_update(e) == log_write(e, INODES)

\* Frees every block, and the i-node with them.  (_bug1, BlocksExact: not the indirect
\* block.  _bug2, SizeMapped: keeps the size.)
inode_trunc_bug1(e, i) ==
  LET blocks == {BlockAt(e, x) : x \in {y \in Places(e, i) : y[2] # NDIRECT}}
  IN  inode_update([block_free(e, blocks) EXCEPT !.addrs[i] = [k \in 0 .. NDIRECT |-> None],
                                                 !.size[i] = 0])

inode_trunc_bug2(e, i) ==
  LET blocks == {BlockAt(e, x) : x \in Places(e, i)}
  IN  inode_update([block_free(e, blocks) EXCEPT !.addrs[i] = [k \in 0 .. NDIRECT |-> None]])

inode_trunc(e, i) ==
  LET blocks == {BlockAt(e, x) : x \in Places(e, i)}
  IN  inode_update([block_free(e, blocks) EXCEPT !.addrs[i] = [k \in 0 .. NDIRECT |-> None],
                                                 !.size[i] = 0])

----------------------------------------------------------------------------
(* Calls.                                                                  *)

Calls(p) == d.panic = "none" /\ th[p].pc = "idle"

\* sys_open gives the process a file.
sys_open(p, i) ==
  /\ Calls(p) /\ file[p].ip = None
  /\ file' = [file EXCEPT ![p] = [ip |-> i, off |-> 0]]
  /\ bytes' = [bytes EXCEPT ![i] = @ \cup {Byte[p]}]
  /\ UNCHANGED <<d, kern_buf, trans, lock, th>>

\* sys_close begins a transaction, in which inode_put frees an i-node that has
\* been unlinked with its last reference.
file_close(p) ==
  /\ Calls(p) /\ file[p].ip # None
  /\ trans = NoProc /\ trans' = p
  /\ th' = [th EXCEPT ![p] = [Idle EXCEPT !.pc = "close"]]
  /\ UNCHANGED <<d, kern_buf, lock, file, bytes>>

inode_put(p, unlinked) ==
  LET i == file[p].ip
  IN  /\ d.panic = "none" /\ th[p].pc = "close"
      /\ IF unlinked /\ \A q \in Proc \ {p} : file[q].ip # i
         THEN /\ d' = [inode_trunc(d, i) EXCEPT !.logged = {}]
              /\ bytes' = [bytes EXCEPT ![i] = {}]
         ELSE UNCHANGED <<d, bytes>>
      /\ file' = [file EXCEPT ![p] = [ip |-> None, off |-> 0]]
      /\ trans' = NoProc
      /\ th' = [th EXCEPT ![p] = Idle]
      /\ UNCHANGED <<kern_buf, lock>>

\* file_read locks the i-node, and inode_read cuts n at the end of the file.
file_read(p, n) ==
  LET f == file[p]
      n1 == IF f.off + n > d.size[f.ip] THEN d.size[f.ip] - f.off ELSE n
  IN  /\ lock[f.ip] = NoProc
      /\ IF f.off > d.size[f.ip] \/ n1 = 0 THEN UNCHANGED <<lock, th>>
         ELSE /\ lock' = [lock EXCEPT ![f.ip] = p]
              /\ th' = [th EXCEPT ![p] = [Idle EXCEPT !.pc = "read", !.n = n, !.n1 = n1]]

sys_read(p, n) ==
  /\ Calls(p) /\ file[p].ip # None
  /\ file_read(p, n)
  /\ UNCHANGED <<d, kern_buf, trans, file, bytes>>

\* The part of a block that the next copy of inode_read or inode_write is about.
Offset(p) == file[p].off + th[p].tot
Amount(p) == Min(th[p].n1 - th[p].tot, BSIZE - (Offset(p) % BSIZE))

\* One block of inode_read; after the last one file_read advances the offset,
\* and sys_read copies kern_buf out to its user.
inode_read(p, junk) ==
  LET t == th[p]
      m == Amount(p)
      r == bmap(d, file[p].ip, Offset(p) \div BSIZE, junk)
  IN  /\ d.panic = "none" /\ t.pc = "read"
      /\ d' = r.e
      /\ kern_buf' = [k \in KBUF |-> IF k \in t.tot + 1 .. t.tot + m
                                      THEN r.e.data[r.b][(Offset(p) % BSIZE) + k - t.tot - 1]
                                      ELSE kern_buf[k]]
      /\ IF t.tot + m < t.n1
         THEN th' = [th EXCEPT ![p].tot = @ + m] /\ UNCHANGED <<lock, file>>
         ELSE /\ file' = [file EXCEPT ![p].off = @ + t.n1]
              /\ lock' = [lock EXCEPT ![file[p].ip] = NoProc]
              /\ th' = [th EXCEPT ![p] = Idle]
      /\ UNCHANGED <<trans, bytes>>

\* sys_write copies the data in, and goes to file_write.
sys_write(p, n) ==
  /\ Calls(p) /\ file[p].ip # None
  /\ kern_buf' = [k \in KBUF |-> IF k <= n THEN Byte[p] ELSE kern_buf[k]]
  /\ th' = [th EXCEPT ![p] = [Idle EXCEPT !.pc = "write", !.n = n]]
  /\ UNCHANGED <<d, trans, lock, file, bytes>>

\* The most that file_write puts into one transaction.  (_bug, NoPanic: as if each block
\* took one log entry.)
Max_bug == (LOGSIZE - 1 - 1 - 2) * BSIZE
Max == ((LOGSIZE - 1 - 1 - 2) \div 2) * BSIZE

\* The loop of file_write: begin_trans, inode_lock, and the checks of
\* inode_write; what does not fit into a file ends the call with -1.
file_write(p) ==
  LET t == th[p]
      f == file[p]
      n1 == Min(t.n - t.i, Max)
  IN  /\ d.panic = "none" /\ t.pc = "write"
      /\ trans = NoProc /\ lock[f.ip] = NoProc
      /\ IF f.off > d.size[f.ip] \/ f.off + n1 > MAXFILE * BSIZE
         THEN th' = [th EXCEPT ![p] = Idle] /\ UNCHANGED <<trans, lock>>
         ELSE /\ trans' = p
              /\ lock' = [lock EXCEPT ![f.ip] = p]
              /\ th' = [th EXCEPT ![p] = [t EXCEPT !.pc = "copy", !.n1 = n1, !.tot = 0]]
      /\ UNCHANGED <<d, kern_buf, file, bytes>>

\* One block of inode_write; after the last one inode_write records the size,
\* file_write advances the offset, unlocks and commits.
inode_write(p, junk) ==
  LET t == th[p]
      f == file[p]
      m == Amount(p)
      o == Offset(p) % BSIZE
      r == bmap(d, f.ip, Offset(p) \div BSIZE, junk)
      e == log_write([r.e EXCEPT !.data[r.b] = [k \in 0 .. BSIZE - 1 |->
             IF k \in o .. o + m - 1 THEN kern_buf[t.i + t.tot + k - o + 1] ELSE @[k]]], r.b)
      off == f.off + t.n1
      g == IF off > d.size[f.ip] THEN inode_update([e EXCEPT !.size[f.ip] = off]) ELSE e
  IN  /\ d.panic = "none" /\ t.pc = "copy"
      /\ IF t.tot + m < t.n1
         THEN /\ d' = e
              /\ th' = [th EXCEPT ![p].tot = @ + m]
              /\ UNCHANGED <<trans, lock, file>>
         ELSE /\ d' = [g EXCEPT !.logged = {}]
              /\ file' = [file EXCEPT ![p].off = off]
              /\ lock' = [lock EXCEPT ![f.ip] = NoProc]
              /\ trans' = NoProc
              /\ th' = [th EXCEPT ![p] = IF t.i + t.n1 = t.n THEN Idle
                          ELSE [t EXCEPT !.pc = "write", !.i = @ + t.n1, !.n1 = 0, !.tot = 0]]
      /\ UNCHANGED <<kern_buf, bytes>>

----------------------------------------------------------------------------
\* Empty files on an empty disk.
Init ==
  /\ work \in Workload
  /\ d = [used   |-> {},
          addrs  |-> [i \in Inum |-> [k \in 0 .. NDIRECT |-> None]],
          size   |-> [i \in Inum |-> 0],
          data   |-> [b \in Block |-> [k \in 0 .. BSIZE - 1 |-> Zero]],
          ind    |-> [b \in Block |-> [k \in 0 .. NINDIRECT - 1 |-> None]],
          logged |-> {},
          panic  |-> "none"]
  /\ kern_buf = [k \in KBUF |-> Zero]
  /\ trans = NoProc
  /\ lock = [i \in Inum |-> NoProc]
  /\ file = [p \in Proc |-> [ip |-> None, off |-> 0]]
  /\ th = [p \in Proc |-> Idle]
  /\ bytes = [i \in Inum |-> {}]

Next ==
  \E p \in Proc :
    /\ \/ \E i \in work.files : sys_open(p, i)
       \/ file_close(p)
       \/ \E unlinked \in BOOLEAN : inode_put(p, unlinked)
       \/ \E n \in work.lens : sys_read(p, n) \/ sys_write(p, n)
       \/ file_write(p)
       \/ \E junk \in Junk(p) : inode_read(p, junk) \/ inode_write(p, junk)
    /\ UNCHANGED work

Spec == Init /\ [][Next]_vars

----------------------------------------------------------------------------
(* Properties.                                                             *)

\* Types of the variables, and the ranges of block numbers and offsets.
TypeOK ==
  /\ work \in Workload
  /\ d.used \subseteq Block
  /\ d.addrs \in [Inum -> [0 .. NDIRECT -> Block \cup {None}]]
  /\ d.size \in [Inum -> 0 .. MAXFILE * BSIZE]
  /\ d.data \in [Block -> [0 .. BSIZE - 1 -> Nat]]
  /\ d.ind \in [Block -> [0 .. NINDIRECT - 1 -> Block \cup {None}]]
  /\ kern_buf \in [KBUF -> Nat]
  /\ trans \in Proc \cup {NoProc} /\ lock \in [Inum -> Proc \cup {NoProc}]
  /\ file \in [Proc -> [ip : Inum \cup {None}, off : 0 .. MAXFILE * BSIZE]]
  /\ \A p \in Proc : LET t == th[p] IN t.i <= t.n /\ t.n1 <= t.n /\ t.tot <= t.n1

\* The bitmap is exact, whatever files grow, share the disk and are freed: a
\* block is marked exactly when one place in one i-node names it.
BlocksExact ==
  LET places == UNION {Places(d, i) : i \in Inum}
  IN  /\ d.used = {BlockAt(d, x) : x \in places}
      /\ Cardinality(d.used) = Cardinality(places)

\* bmap finds a block for every byte below the size, so that inode_read, which
\* runs outside transactions, never allocates one; and an offset is never past
\* the end of its file.
SizeMapped ==
  /\ \A i \in Inum :
       LET mapped == Places(d, i)
       IN  \A k \in 0 .. MAXFILE - 1 :
             k * BSIZE < d.size[i] =>
               <<i, IF k < NDIRECT THEN k ELSE k + 1>> \in mapped
  /\ \A p \in Proc : file[p].ip # None => file[p].off <= d.size[file[p].ip]

\* The chunks of file_write "avoid exceeding the maximum log transaction size":
\* no write or close ends in a panic of log_write or of block_free.
NoPanic == d.panic = "none"

-----------------------------------------------------------------------------
(* What the code does not guarantee: TLC refutes it.                       *)

\* sys_write writes "data in the user's buffer into the file indexed by the
\* file descriptor": what is in a file came from a process that had it open.
OnlyWritersData ==
  \A i \in Inum : \A k \in 0 .. d.size[i] - 1 :
    LET b == k \div BSIZE
        x == <<i, IF b < NDIRECT THEN b ELSE b + 1>>
    IN  d.data[BlockAt(d, x)][k % BSIZE] \in bytes[i]
=============================================================================
