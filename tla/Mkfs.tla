-------------------------------- MODULE Mkfs --------------------------------
(***************************************************************************)
(* The program that makes the disk image (kern/fs/mkfs.c) and the kernel's *)
(* reading of that image (bmap and inode_read of kern/fs/inode.c).         *)
(*                                                                         *)
(* A cell is what one directory entry takes, or that much of a file: sizes *)
(* and offsets count cells, BSIZE of them to a block.  A sector holds the  *)
(* super block, i-nodes, the bitmap, addresses or cells; one that was      *)
(* never written reads as zeroes of any of these.  The host's calls on the *)
(* image file do not fail, and xint and xshort, whose result is what the   *)
(* little-endian reader takes for x, are left out.                         *)
(*                                                                         *)
(* An operator whose name ends in _bug is a faulty variant of the one      *)
(* after it, which the specification does not use: put in its place it     *)
(* must break the property its comment names.                              *)
(***************************************************************************)
EXTENDS Integers, Sequences, FiniteSets, SequencesExt, FiniteSetsExt

CONSTANTS
  BSIZE,       \* cells of a block
  NDIRECT,     \* direct addresses of an i-node
  NINDIRECT,   \* addresses of an indirect block
  IPB,         \* i-nodes of a block
  BPB,         \* bits of a bitmap block
  DIRSIZ,      \* characters of a name in a directory entry
  size, nblocks, ninodes, nlog,   \* of the super block
  Args         \* the possible lists of files to put in the image, each a
               \* record of its name and its length, that fit in nblocks

ROOTINO == 1
MAXFILE == NDIRECT + NINDIRECT

VARIABLES
  argv,    \* the files, which never change
  img,     \* the image, and the counters freeblock, usedblocks, freeinode
  at,      \* where main is: a step, the number of the file and, in the copy
           \* of its data, the cells already read
  abort    \* the assertion that failed, or ""

vars == <<argv, img, at, abort>>

Zeroes == [is |-> "zeroes"]
FreeDinode == [type |-> "free", nlink |-> 0, size |-> 0, addrs |-> [k \in 0 .. NDIRECT |-> 0]]
NoDirent == [inum |-> 0, name |-> ""]

\* A sector as the reader takes it.
Dinodes(b) == IF b = Zeroes THEN [k \in 0 .. IPB - 1 |-> FreeDinode] ELSE b.dinodes
Addrs(b) == IF b = Zeroes THEN [k \in 0 .. NINDIRECT - 1 |-> 0] ELSE b.addrs
Cells(b) == IF b = Zeroes THEN [k \in 0 .. BSIZE - 1 |-> NoDirent] ELSE b.cells
Bits(b) == IF b = Zeroes THEN {} ELSE b.bits

\* The i-th cell of file number f, and its whole contents.
Datum(f, i) == [file |-> f, nth |-> i]
Contents(f) == [i \in 1 .. argv[f].len |-> Datum(f, i)]

----------------------------------------------------------------------------
(* The functions of mkfs.c, on a value m of img.                           *)

wsect(m, sec, b) == [m EXCEPT !.disk[sec] = b]
rsect(m, sec) == m.disk[sec]
i2b(inum) == inum \div IPB + 2

rinode(m, inum) == Dinodes(rsect(m, i2b(inum)))[inum % IPB]

winode(m, inum, din) ==
  wsect(m, i2b(inum),
        [is |-> "dinodes",
         dinodes |-> [Dinodes(rsect(m, i2b(inum))) EXCEPT ![inum % IPB] = din]])

ialloc(m, type) ==
  winode([m EXCEPT !.freeinode = @ + 1], m.freeinode,
         [FreeDinode EXCEPT !.type = type, !.nlink = 1])

\* (_bug, ImageSound: marks one block too few.)
balloc_bug(m, used) ==
  wsect(m, ninodes \div IPB + 3, [is |-> "bits", bits |-> 0 .. used - 2])

balloc(m, used) ==
  wsect(m, ninodes \div IPB + 3, [is |-> "bits", bits |-> 0 .. used - 1])

\* The next free block goes to the block fbn of the i-node, and one more to its
\* indirect block when it has none: the image, the i-node and the sector.
fresh(m) == [m EXCEPT !.freeblock = @ + 1, !.usedblocks = @ + 1]

direct(m, din, fbn) ==
  IF din.addrs[fbn] # 0 THEN [m |-> m, din |-> din, x |-> din.addrs[fbn]]
  ELSE [m |-> fresh(m), din |-> [din EXCEPT !.addrs[fbn] = m.freeblock], x |-> m.freeblock]

indirect(m, din, k) ==
  LET d == direct(m, din, NDIRECT)
      a == Addrs(rsect(d.m, d.x))
      x == IF a[k] # 0 THEN a[k] ELSE d.m.freeblock
  IN  [m |-> IF a[k] # 0 THEN d.m
             ELSE wsect(fresh(d.m), d.x, [is |-> "addrs", addrs |-> [a EXCEPT ![k] = x]]),
       din |-> d.din, x |-> x]

\* The loop of iappend: the cells p go to offset off.
RECURSIVE append(_, _, _, _)
append(m, din, off, p) ==
  IF p = <<>> THEN [m |-> m, din |-> [din EXCEPT !.size = off]]
  ELSE LET fbn == off \div BSIZE
           b == IF fbn < NDIRECT THEN direct(m, din, fbn) ELSE indirect(m, din, fbn - NDIRECT)
           n1 == Min({Len(p), (fbn + 1) * BSIZE - off})
           old == Cells(rsect(b.m, b.x))
           from == off - fbn * BSIZE
           new == [k \in 0 .. BSIZE - 1 |->
                     IF from <= k /\ k < from + n1 THEN p[k - from + 1] ELSE old[k]]
       IN  append(wsect(b.m, b.x, [is |-> "cells", cells |-> new]), b.din, off + n1,
                  SubSeq(p, n1 + 1, Len(p)))

iappend(m, inum, p) ==
  LET din == rinode(m, inum)
      r == append(m, din, din.size, p)
  IN  winode(r.m, inum, r.din)

\* assert(fbn < MAXFILE), in the loop.
TooLong(m, inum, p) == rinode(m, inum).size + Len(p) > MAXFILE * BSIZE

----------------------------------------------------------------------------
(* main, one action for each of its stages.                                *)

bitblocks == size \div BPB + 1
metablocks == ninodes \div IPB + 3 + bitblocks

Init ==
  /\ argv \in Args
  /\ img = [disk |-> [s \in 0 .. size - 1 |-> Zeroes],
            freeblock |-> metablocks, usedblocks |-> metablocks, freeinode |-> 1]
  /\ at = [step |-> "super", file |-> 0, done |-> 0]
  /\ abort = ""

Goto(step) == at' = [at EXCEPT !.step = step]

Append_(inum, p, next) ==
  IF TooLong(img, inum, p) THEN abort' = "fbn < MAXFILE" /\ UNCHANGED <<img, at>>
  ELSE img' = iappend(img, inum, p) /\ at' = next /\ UNCHANGED abort

Running(step) == abort = "" /\ at.step = step

super ==
  /\ Running("super")
  /\ IF nblocks + metablocks + nlog # size
     THEN abort' = "nblocks + usedblocks + nlog == size" /\ UNCHANGED <<img, at>>
     ELSE /\ img' = ialloc(wsect(img, 1, [is |-> "super", ninodes |-> ninodes, size |-> size,
                                          nlog |-> nlog]), "dir")
          /\ Goto("dot") /\ UNCHANGED abort
  /\ UNCHANGED argv

dot ==
  /\ Running("dot")
  /\ Append_(ROOTINO, <<[inum |-> ROOTINO, name |-> "."]>>, [at EXCEPT !.step = "dotdot"])
  /\ UNCHANGED argv

dotdot ==
  /\ Running("dotdot")
  /\ Append_(ROOTINO, <<[inum |-> ROOTINO, name |-> ".."]>>,
             [at EXCEPT !.step = "file", !.file = 1])
  /\ UNCHANGED argv

\* strncpy copies DIRSIZ characters and a leading _ is left out.
StoredName(name) ==
  LET n == IF SubSeq(name, 1, 1) = "_" THEN Tail(name) ELSE name
  IN  SubSeq(n, 1, Min({Len(n), DIRSIZ}))

\* A new i-node and its name in the root.
file ==
  LET inum == img.freeinode
      m == ialloc(img, "file")
      de == <<[inum |-> inum, name |-> StoredName(argv[at.file].name)]>>
  IN  /\ Running("file") /\ at.file <= Len(argv)
      /\ IF TooLong(m, ROOTINO, de) THEN abort' = "fbn < MAXFILE" /\ UNCHANGED <<img, at>>
         ELSE /\ img' = iappend(m, ROOTINO, de)
              /\ at' = [at EXCEPT !.step = "data", !.done = 0]
              /\ UNCHANGED abort
      /\ UNCHANGED argv

\* read of at most one block of the file, and iappend of what it returned.
data ==
  LET p == SubSeq(Contents(at.file), at.done + 1, Min({at.done + BSIZE, argv[at.file].len}))
  IN  /\ Running("data") /\ p # <<>>
      /\ Append_(img.freeinode - 1, p, [at EXCEPT !.done = @ + Len(p)])
      /\ UNCHANGED argv

data_end ==
  /\ Running("data") /\ at.done = argv[at.file].len
  /\ at' = [at EXCEPT !.step = "file", !.file = @ + 1]
  /\ UNCHANGED <<argv, img, abort>>

\* The size of the root is rounded up and the bitmap written.
finish ==
  LET root == rinode(img, ROOTINO)
      fixed == [root EXCEPT !.size = (@ \div BSIZE + 1) * BSIZE]
  IN  /\ Running("file") /\ at.file > Len(argv)
      /\ IF img.usedblocks < BPB
         THEN /\ img' = balloc(winode(img, ROOTINO, fixed), img.usedblocks)
              /\ Goto("exit") /\ UNCHANGED abort
         ELSE abort' = "used < 512*8" /\ UNCHANGED <<img, at>>
      /\ UNCHANGED argv

Next == super \/ dot \/ dotdot \/ file \/ data \/ data_end \/ finish

Spec == Init /\ [][Next]_vars

----------------------------------------------------------------------------
(* The kernel's reading of the image.                                      *)

\* bmap: the sector of block bn of an i-node, 0 when it has none (the kernel
\* then allocates one).
bmap(din, bn) ==
  IF bn < NDIRECT THEN din.addrs[bn]
  ELSE IF din.addrs[NDIRECT] = 0 THEN 0
  ELSE Addrs(rsect(img, din.addrs[NDIRECT]))[bn - NDIRECT]

\* inode_read of a whole i-node; a block without a sector reads as zeroes.
inode_read(din) ==
  [i \in 1 .. din.size |->
     LET x == bmap(din, (i - 1) \div BSIZE)
     IN  IF x = 0 THEN NoDirent ELSE Cells(rsect(img, x))[(i - 1) % BSIZE]]

\* The i-nodes as the kernel reads them.
Inode(inum) == rinode(img, inum)
Allocated == {i \in 1 .. ninodes - 1 : Inode(i).type # "free"}

\* The sectors an i-node occupies, its indirect block included.
Occupied(din) ==
  ({bmap(din, bn) : bn \in 0 .. MAXFILE - 1} \cup {din.addrs[NDIRECT]}) \ {0}

----------------------------------------------------------------------------
(* Properties.                                                             *)

Made == at.step = "exit"

\* The image mkfs leaves is one the kernel can start from: the bitmap marks
\* the metadata and the sectors of the i-nodes and no other, no sector has two
\* owners, none of them is in the log, and the root's blocks are all there
\* unless its entries end exactly at the end of a block (see RootMapped).
ImageSound ==
  Made =>
    LET marked == Bits(rsect(img, ninodes \div IPB + 3))
        owned == UNION {Occupied(Inode(i)) : i \in Allocated}
    IN  /\ marked = 0 .. metablocks - 1 \cup owned
        /\ \A i, j \in Allocated : i # j => Occupied(Inode(i)) \cap Occupied(Inode(j)) = {}
        /\ owned \subseteq metablocks .. metablocks + nblocks - 1
        /\ (Len(argv) + 2) % BSIZE # 0 =>
             \A i \in Allocated : \A bn \in 0 .. (Inode(i).size - 1) \div BSIZE :
               bmap(Inode(i), bn) # 0

\* The kernel finds every file of the image under its name (shorter than
\* DIRSIZ, the longest that path lookup compares) and reads what mkfs was given.
FilesRead ==
  Made =>
    \A f \in 1 .. Len(argv) :
      LET n == StoredName(argv[f].name)
      IN  Len(n) < DIRSIZ =>
            \E k \in 1 .. Inode(ROOTINO).size :
              LET de == inode_read(Inode(ROOTINO))[k]
              IN  /\ de.name = n /\ de.inum # 0
                  /\ inode_read(Inode(de.inum)) = Contents(f)

----------------------------------------------------------------------------
(* What the code does not guarantee: TLC refutes it.                       *)

\* Every block of the root has a sector.  The size of a root whose entries end
\* at the end of a block grows by a whole block that was never allocated, and
\* the kernel's first lookup would allocate it outside a transaction.
RootMapped ==
  Made => \A bn \in 0 .. (Inode(ROOTINO).size - 1) \div BSIZE : bmap(Inode(ROOTINO), bn) # 0

\* block_alloc, which takes any unmarked sector below sb.size, cannot hand out
\* the sectors of the log.
LogReserved == Made => size - nlog .. size - 1 \subseteq Bits(rsect(img, ninodes \div IPB + 3))
=============================================================================
