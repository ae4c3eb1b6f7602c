---------------------------- MODULE FileIOProofs ----------------------------
(***************************************************************************)
(* What holds of module FileIO in every state, for any number of processes *)
(* and files, any geometry of the disk and any transfers: the bitmap says  *)
(* exactly which blocks the files have, every byte below the size of a     *)
(* file has a block, and no transaction outgrows the log.                  *)
(*                                                                         *)
(* block_alloc returns an arbitrary number when no block is free, so the   *)
(* bitmap is exact only as long as there are blocks: while a write is      *)
(* under way two must be free (Room), which a disk that is large enough    *)
(* for all files always has.                                               *)
(***************************************************************************)
EXTENDS FileIO, FiniteSetTheorems, TLAPS
-----------------------------------------------------------------------------
(* The inductive invariant.                                                *)

\* The places of an i-node: its addrs, and then the entries of the indirect block.
Place == 0 .. MAXFILE

\* Where block bn of a file is.
PlaceOf(bn) == IF bn < NDIRECT THEN bn ELSE bn + 1

\* The block that a place names, or None.
Entry(e, i, s) ==
  IF s <= NDIRECT THEN e.addrs[i][s]
  ELSE IF e.addrs[i][NDIRECT] = None THEN None
  ELSE e.ind[e.addrs[i][NDIRECT]][s - NDIRECT - 1]

\* A value of d.
IsDisk(e) ==
  /\ e = [used |-> e.used, addrs |-> e.addrs, size |-> e.size, data |-> e.data, ind |-> e.ind,
          logged |-> e.logged, panic |-> e.panic]
  /\ e.used \subseteq Block
  /\ e.addrs \in [Inum -> [0 .. NDIRECT -> Block \cup {None}]]
  /\ e.size \in [Inum -> Nat]
  /\ e.ind \in [Block -> [0 .. NINDIRECT - 1 -> Block \cup {None}]]
  /\ e.logged \subseteq Block \cup {BITMAP, INODES}

\* A block is marked as used exactly when a place names it, and no two places do.
Marked(e) == \A i \in Inum, s \in Place : Entry(e, i, s) # None => Entry(e, i, s) \in e.used
Named(e) == \A b \in e.used : \E i \in Inum, s \in Place : Entry(e, i, s) = b
Apart(e) ==
  \A i \in Inum, j \in Inum, s \in Place, r \in Place :
    Entry(e, i, s) # None /\ Entry(e, i, s) = Entry(e, j, r) => i = j /\ s = r
Exact(e) == Marked(e) /\ Named(e) /\ Apart(e)

\* The first n bytes of file i have blocks.
Mapped(e, i, n) ==
  \A k \in 0 .. MAXFILE - 1 : k * BSIZE < n => Entry(e, i, PlaceOf(k)) # None

\* The blocks that the write of bytes x .. x + n - 1 of file i may log, up to the
\* i-nodes.
Loggable(e, i, x, n) ==
  {BITMAP, Entry(e, i, NDIRECT)}
  \cup {Entry(e, i, PlaceOf(k)) : k \in x \div BSIZE .. (x + n - 1) \div BSIZE}

Thread == [pc : {"idle", "close", "read", "write", "copy"}, n : Nat, i : Nat, n1 : Nat, tot : Nat]
File == [ip : Inum \cup {None}, off : Nat]

\* What is true of process p where t is in its call and f its file: it has the lock
\* and the transaction that it needs, and a write has a block for every byte that
\* it has written, and logged no others.
Sound(p, t, f, e, l, tr) ==
  /\ f.ip # None => f.off <= e.size[f.ip]
  /\ t.pc # "idle" => f.ip # None
  /\ t.pc \in {"read", "copy"} => l[f.ip] = p /\ t.tot < t.n1
  /\ t.pc \in {"close", "copy"} => tr = p
  /\ t.pc = "close" => e.logged = {}
  /\ t.pc = "read" => f.off + t.n1 <= e.size[f.ip]
  /\ t.pc = "write" => t.i < t.n
  /\ t.pc = "copy" => /\ t.i + t.n1 <= t.n /\ t.n1 <= Max
                      /\ f.off + t.n1 <= MAXFILE * BSIZE
                      /\ Mapped(e, f.ip, f.off + t.tot)
                      /\ e.logged \subseteq Loggable(e, f.ip, f.off, t.n1)

\* The files on the disk.
DiskOK(e) ==
  /\ IsDisk(e) /\ Exact(e) /\ e.panic = "none"
  /\ \A i \in Inum : e.size[i] <= MAXFILE * BSIZE /\ Mapped(e, i, e.size[i])

\* The inductive invariant.
IOInv ==
  /\ work \in Workload
  /\ DiskOK(d)
  /\ trans = NoProc => d.logged = {}
  /\ file \in [Proc -> File] /\ th \in [Proc -> Thread]
  /\ lock \in [Inum -> Proc \cup {NoProc}]
  /\ \A p \in Proc : Sound(p, th[p], file[p], d, lock, trans)

\* While a write is under way two blocks are free.
Room ==
  (\E p \in Proc : th[p].pc = "copy") => \E a, b \in Block \ d.used : a # b

\* The disk has a block for every place of every file.
LargeDisk == NBlock >= NInum * (MAXFILE + 1)
-----------------------------------------------------------------------------
(* Numbers.                                                                *)

\* Quotient and remainder.
LEMMA Division ==
  ASSUME NEW x \in Nat, NEW c \in Nat, c > 0
  PROVE  x \div c \in Nat /\ x % c \in 0 .. c - 1 /\ x = ((x \div c) * c) + (x % c)
<1>1. x \div c \in Nat
  BY SMTT(60)
<1>2. x % c \in 0 .. c - 1
  BY SMTT(60)
<1>3. x = ((x \div c) * c) + (x % c)
  BY SMTT(60)
<1>4. QED
  BY <1>1, <1>2, <1>3, Zenon

\* Block x \div BSIZE has byte x.
LEMMA BlockOfByte ==
  ASSUME NEW x \in Nat
  PROVE  \E k \in Nat, r \in Nat :
           /\ k = x \div BSIZE /\ r = x % BSIZE /\ r < BSIZE
           /\ k * BSIZE \in Nat /\ k * BSIZE <= x /\ x = (k * BSIZE) + r
           /\ x < (k * BSIZE) + BSIZE
<1>1. /\ x \div BSIZE \in Nat /\ x % BSIZE \in 0 .. BSIZE - 1
      /\ x = ((x \div BSIZE) * BSIZE) + (x % BSIZE)
  <2>1. BSIZE \in Nat /\ BSIZE > 0
    BY ConstAssumption
  <2>2. QED
    BY <2>1, Division, Zenon
<1>2. PICK k \in Nat, r \in Nat : k = x \div BSIZE /\ r = x % BSIZE
  BY <1>1
<1>3. r < BSIZE /\ x = (k * BSIZE) + r /\ k * BSIZE \in Nat
  <2>1. r \in 0 .. BSIZE - 1 /\ x = (k * BSIZE) + r
    BY <1>1, <1>2, Zenon
  <2>2. k * BSIZE \in Nat
    BY ConstAssumption
  <2>3. QED
    BY <2>1, <2>2, ConstAssumption
<1>4. k * BSIZE <= x /\ x < (k * BSIZE) + BSIZE
  BY <1>3, ConstAssumption
<1>5. QED
  BY <1>2, <1>3, <1>4

\* Multiples of BSIZE.
LEMMA Multiples ==
  ASSUME NEW a \in Nat, NEW b \in Nat
  PROVE  /\ a * BSIZE \in Nat
         /\ a < b => (a + 1) * BSIZE <= b * BSIZE
         /\ (a + 1) * BSIZE = a * BSIZE + BSIZE
         /\ a * BSIZE < b * BSIZE => a < b
<1>1. BSIZE \in Nat /\ BSIZE > 0
  BY ConstAssumption
<1>2. a * BSIZE \in Nat /\ (a + 1) * BSIZE = a * BSIZE + BSIZE
  BY <1>1
<1>3. ASSUME NEW x \in Nat, NEW y \in Nat, x <= y
      PROVE  x * BSIZE <= y * BSIZE
  <2>1. y * BSIZE = x * BSIZE + (y - x) * BSIZE /\ (y - x) * BSIZE \in Nat
        /\ x * BSIZE \in Nat /\ y * BSIZE \in Nat
    BY <1>1, <1>3
  <2>2. QED
    BY <2>1
<1>4. a < b => (a + 1) * BSIZE <= b * BSIZE
  BY <1>3
<1>5. a >= b => b * BSIZE <= a * BSIZE
  BY <1>3
<1>6. QED
  BY <1>1, <1>2, <1>4, <1>5
\* The largest size of a file.
LEMMA LargestSize == MAXFILE \in Nat /\ MAXFILE * BSIZE \in Nat
<1>1. MAXFILE \in Nat
  BY ConstAssumption DEF MAXFILE
<1>2. QED
  BY <1>1, Multiples, Zenon

-----------------------------------------------------------------------------
(* Blocks in the log.                                                      *)

\* Log entries that leave room for one more.
Fits(X) == IsFiniteSet(X) /\ Cardinality(X) <= LOGSIZE - 2

\* Fewer entries fit as well.
LEMMA FewerFit ==
  ASSUME NEW X, Fits(X), NEW Y, Y \subseteq X
  PROVE  Fits(Y)
<1>1. IsFiniteSet(Y) /\ Cardinality(Y) <= Cardinality(X)
  BY FS_Subset, Zenon DEF Fits
<1>2. Cardinality(X) \in Nat /\ Cardinality(Y) \in Nat
  BY <1>1, FS_CardinalityType, Zenon DEF Fits
<1>3. QED
  BY <1>1, <1>2, ConstAssumption DEF Fits

\* f is e with block b logged; that panics only when the log is full or outside
\* of a transaction.
Logs(e, f, b) ==
  /\ IsDisk(f)
  /\ f.used = e.used /\ f.addrs = e.addrs /\ f.size = e.size /\ f.ind = e.ind
  /\ f.logged = e.logged \cup {b}
  /\ e.panic = "none" /\ trans # NoProc /\ Fits(e.logged) => f.panic = "none"

\* What log_write does.
LEMMA LogWrite ==
  ASSUME NEW e, IsDisk(e), NEW b \in Block \cup {BITMAP, INODES}, NEW f, f = log_write(e, b)
  PROVE  Logs(e, f, b)
<1>1. f = [used |-> e.used, addrs |-> e.addrs, size |-> e.size, data |-> e.data, ind |-> e.ind,
           logged |-> e.logged \cup {b},
           panic |-> IF Cardinality(e.logged) >= LOGSIZE - 1 THEN "too_big_a_transaction"
                     ELSE IF trans = NoProc THEN "write_outside_of_trans" ELSE e.panic]
  BY DEF log_write, IsDisk
<1>2. Fits(e.logged) => ~ (Cardinality(e.logged) >= LOGSIZE - 1)
  BY FS_CardinalityType, ConstAssumption DEF Fits
<1>3. IsDisk(f)
  BY <1>1 DEF IsDisk
<1>4. QED
  BY <1>1, <1>2, <1>3 DEF Logs
-----------------------------------------------------------------------------
(* block_alloc.                                                            *)

\* A nonempty set of natural numbers has a least element.
LEMMA LeastExists ==
  ASSUME NEW S, S \subseteq Nat, S # {}
  PROVE  \E x \in S : \A y \in S : x <= y
<1> DEFINE T == {0 .. x : x \in S}
<1>1. T \subseteq FiniteSubsetsOf(Nat) /\ T # {}
  <2>1. \A x \in S : IsFiniteSet(0 .. x) /\ 0 .. x \in SUBSET Nat
    BY FS_Interval
  <2>2. QED
    BY <2>1, ZenonT(30) DEF FiniteSubsetsOf
<1>2. PICK t \in T : \A u \in T : ~ (<<u, t>> \in StrictSubsetOrdering(Nat))
  BY <1>1, WFMin, FS_StrictSubsetOrderingWellFounded, ZenonT(30)
<1>3. PICK x \in S : t = 0 .. x
  BY ZenonT(30)
<1>4. ASSUME NEW y \in S, y < x
      PROVE  FALSE
  <2>1. 0 .. y \in T /\ <<0 .. y, t>> \in (SUBSET Nat) \X (SUBSET Nat)
    BY <1>3
  <2>2. (0 .. y) \subseteq t /\ 0 .. y # t
    BY <1>3, <1>4
  <2>3. <<0 .. y, t>> \in StrictSubsetOrdering(Nat)
    BY <2>1, <2>2, Zenon DEF StrictSubsetOrdering
  <2>4. QED
    BY <1>2, <2>1, <2>3, ZenonT(30)
<1>5. QED
  BY <1>4

\* An indirect block without entries.
NoEntries == [k \in 0 .. NINDIRECT - 1 |-> None]

\* The entries of indirect blocks when block b is zeroed.
Zeroed(e, b) == [e.ind EXCEPT ![b] = NoEntries]

\* f is e with block b marked, and zeroed, and both logged.
Allocates(e, f, b) ==
  /\ b \in Block \ e.used /\ IsDisk(f)
  /\ f.used = e.used \cup {b} /\ f.addrs = e.addrs /\ f.size = e.size
  /\ f.ind = Zeroed(e, b)
  /\ f.logged = e.logged \cup {BITMAP, b}
  /\ e.panic = "none" /\ trans # NoProc /\ Fits(e.logged \cup {BITMAP}) => f.panic = "none"

\* What block_alloc does where a block is free.
LEMMA Alloc ==
  ASSUME NEW e, IsDisk(e), Block \ e.used # {}, NEW junk
  PROVE  \E f, b : block_alloc(e, junk) = [e |-> f, b |-> b] /\ Allocates(e, f, b)
<1> DEFINE free == Block \ e.used
           Zeros == [n \in 0 .. BSIZE - 1 |-> Zero]
<1>1. PICK x : x \in free /\ x = CHOOSE y \in free : \A z \in free : y <= z
  <2>1. free \subseteq Nat
    BY ConstAssumption DEF Block
  <2>2. QED
    BY <2>1, LeastExists
<1>2. PICK g : g = [e EXCEPT !.used = @ \cup {x}]
  BY Zenon
<1>3. PICK h : h = log_write(g, BITMAP)
  BY Zenon
<1>4. PICK k : k = [h EXCEPT !.data[x] = Zeros, !.ind[x] = NoEntries]
  BY Zenon
<1>5. PICK f : f = log_write(k, x)
  BY Zenon
<1>6. block_alloc(e, junk) = [e |-> f, b |-> x]
  BY <1>1, <1>2, <1>3, <1>4, <1>5, Zenon DEF block_alloc, block_zero, NoEntries
<1>7. IsDisk(g) /\ g.used = e.used \cup {x} /\ g.addrs = e.addrs /\ g.size = e.size
      /\ g.ind = e.ind /\ g.logged = e.logged /\ g.panic = e.panic
  <2>1. g = [used |-> e.used \cup {x}, addrs |-> e.addrs, size |-> e.size, data |-> e.data,
             ind |-> e.ind, logged |-> e.logged, panic |-> e.panic]
    BY <1>2 DEF IsDisk
  <2>2. QED
    BY <1>1, <2>1 DEF IsDisk
<1>8. Logs(g, h, BITMAP)
  BY <1>3, <1>7, LogWrite, Zenon
<1>9. /\ IsDisk(k) /\ k.used = h.used /\ k.addrs = h.addrs /\ k.size = h.size
      /\ k.ind = [h.ind EXCEPT ![x] = NoEntries] /\ k.logged = h.logged /\ k.panic = h.panic
  <2>1. NoEntries \in [0 .. NINDIRECT - 1 -> Block \cup {None}]
    BY DEF NoEntries
  <2>2. k = [used |-> h.used, addrs |-> h.addrs, size |-> h.size,
             data |-> [h.data EXCEPT ![x] = Zeros], ind |-> [h.ind EXCEPT ![x] = NoEntries],
             logged |-> h.logged, panic |-> h.panic]
    <3> HIDE DEF Zeros
    <3>1. QED
      BY <1>4, <1>8 DEF IsDisk, Logs
  <2>3. QED
    BY <1>1, <1>8, <2>1, <2>2 DEF IsDisk, Logs
<1>10. Logs(k, f, x)
  <2>1. x \in Block \cup {BITMAP, INODES}
    BY <1>1, Zenon
  <2>2. QED
    BY <1>5, <1>9, <2>1, LogWrite, Zenon
<1>11. Fits(e.logged \cup {BITMAP}) => Fits(e.logged)
  BY FewerFit, Zenon
<1>12. f.logged = e.logged \cup {BITMAP, x}
  BY <1>7, <1>8, <1>9, <1>10, Zenon DEF Logs
<1>13. Allocates(e, f, x)
  BY <1>1, <1>7, <1>8, <1>9, <1>10, <1>11, <1>12, Zenon DEF Logs, Allocates, Zeroed
<1>14. QED
  BY <1>6, <1>13, Zenon
-----------------------------------------------------------------------------
(* Blocks in files.                                                        *)

\* f is e with place s of file i naming block b.
PlacedAt(e, f, i, s, b) ==
  \A j \in Inum, r \in Place : Entry(f, j, r) = IF j = i /\ r = s THEN b ELSE Entry(e, j, r)

\* An entry is None or a block, and None is no block.
LEMMA EntryType ==
  ASSUME NEW e, IsDisk(e), NEW i \in Inum, NEW s \in Place
  PROVE  Entry(e, i, s) \in Block \cup {None} /\ None \notin Block
<1>1. None \notin Block /\ NDIRECT \in 0 .. NDIRECT
  BY ConstAssumption DEF Block, None
<1> DEFINE a == e.addrs[i]
<1>2. /\ \A k \in 0 .. NDIRECT : a[k] \in Block \cup {None}
      /\ \A b \in Block : \A k \in 0 .. NINDIRECT - 1 : e.ind[b][k] \in Block \cup {None}
  <2>1. a \in [0 .. NDIRECT -> Block \cup {None}]
    BY Zenon DEF IsDisk
  <2>2. e.ind \in [Block -> [0 .. NINDIRECT - 1 -> Block \cup {None}]]
    BY Zenon DEF IsDisk
  <2> HIDE DEF a
  <2>3. QED
    BY <2>1, <2>2, ZenonT(30)
<1> HIDE DEF a
<1>3. CASE s <= NDIRECT
  <2>1. s \in 0 .. NDIRECT
    BY <1>3, ConstAssumption DEF Place, MAXFILE
  <2>2. Entry(e, i, s) = a[s]
    BY <1>3, Zenon DEF Entry, a
  <2>3. QED
    BY <1>1, <1>2, <2>1, <2>2, Zenon
<1>4. CASE ~ (s <= NDIRECT)
  <2>1. s - NDIRECT - 1 \in 0 .. NINDIRECT - 1
    BY <1>4, ConstAssumption DEF Place, MAXFILE
  <2>2. Entry(e, i, s) = None \/ (a[NDIRECT] # None /\ Entry(e, i, s) = e.ind[a[NDIRECT]][s - NDIRECT - 1])
    BY <1>4, Zenon DEF Entry, a
  <2>3. a[NDIRECT] \in Block \cup {None}
    BY <1>1, <1>2, Zenon
  <2>4. QED
    BY <1>1, <1>2, <2>1, <2>2, <2>3, Zenon
<1>5. QED
  BY <1>3, <1>4, Zenon

\* The entry of the indirect block itself.
LEMMA IndirectBlock ==
  ASSUME NEW e, IsDisk(e), NEW i \in Inum
  PROVE  /\ NDIRECT \in Place /\ e.addrs[i][NDIRECT] = Entry(e, i, NDIRECT)
         /\ Entry(e, i, NDIRECT) \in Block \cup {None}
<1>1. NDIRECT \in Place /\ NDIRECT <= NDIRECT
  BY ConstAssumption DEF Place, MAXFILE
<1>2. QED
  BY <1>1, EntryType, Zenon DEF Entry

\* Function g of functions with another value at x, y.
Updated(g, x, y, v) == [g EXCEPT ![x][y] = v]

\* h is g with value v at x, y.
Differs(A, B, C, g, h, x, y, v) ==
  /\ h \in [A -> [B -> C]] /\ h[x][y] = v
  /\ \A k \in A : k # x => h[k] = g[k]
  /\ \A k \in A, q \in B : ~ (k = x /\ q = y) => h[k][q] = g[k][q]

\* What Updated does.
LEMMA UpdatedValues ==
  ASSUME NEW A, NEW B, NEW C, NEW g \in [A -> [B -> C]], NEW x \in A, NEW y \in B, NEW v \in C,
         NEW h, h = Updated(g, x, y, v)
  PROVE  Differs(A, B, C, g, h, x, y, v)
<1>1. h \in [A -> [B -> C]] /\ h[x] = [g[x] EXCEPT ![y] = v] /\ \A k \in A : k # x => h[k] = g[k]
  BY ZenonT(30) DEF Updated
<1>2. QED
  BY <1>1, ZenonT(30) DEF Differs

\* A free block at a place that names none keeps the bitmap exact.
LEMMA PlacedExact ==
  ASSUME NEW e, IsDisk(e), Exact(e), NEW i \in Inum, NEW s \in Place, Entry(e, i, s) = None,
         NEW b \in Block \ e.used, NEW f, f.used = e.used \cup {b}, PlacedAt(e, f, i, s, b)
  PROVE  Exact(f)
<1>1. b # None
  BY EntryType, Zenon
<1>2. Entry(f, i, s) = b
  BY Zenon DEF PlacedAt
<1>3. \A j \in Inum, r \in Place : (j = i /\ r = s) \/ Entry(f, j, r) = Entry(e, j, r)
  BY Zenon DEF PlacedAt
<1>4. Marked(f)
  <2>1. ASSUME NEW j \in Inum, NEW r \in Place, Entry(f, j, r) # None
        PROVE  Entry(f, j, r) \in f.used
    BY <1>2, <1>3, <2>1, Zenon DEF Exact, Marked
  <2>2. QED
    BY <2>1, Zenon DEF Marked
<1>5. Named(f)
  <2>1. ASSUME NEW c \in f.used
        PROVE  \E j \in Inum, r \in Place : Entry(f, j, r) = c
    <3>1. CASE c = b
      BY <1>2, <3>1, Zenon
    <3>2. CASE c \in e.used
      <4>1. PICK j \in Inum, r \in Place : Entry(e, j, r) = c
        BY <3>2, Zenon DEF Exact, Named
      <4>2. c # None
        BY <3>2, EntryType, Zenon DEF IsDisk
      <4>3. QED
        BY <1>3, <4>1, <4>2, Zenon
    <3>3. QED
      BY <3>1, <3>2, Zenon
  <2>2. QED
    BY <2>1, Zenon DEF Named
<1>6. Apart(f)
  <2>1. ASSUME NEW j \in Inum, NEW k \in Inum, NEW r \in Place, NEW q \in Place,
               Entry(f, j, r) # None, Entry(f, j, r) = Entry(f, k, q)
        PROVE  j = k /\ r = q
    <3>1. \A l \in Inum, m \in Place : Entry(e, l, m) # b
      BY <1>1, Zenon DEF Exact, Marked
    <3>2. CASE Entry(f, j, r) = b
      BY <1>3, <2>1, <3>1, <3>2, Zenon
    <3>3. CASE Entry(f, j, r) # b
      <4>1. Entry(f, j, r) = Entry(e, j, r) /\ Entry(f, k, q) = Entry(e, k, q)
        BY <1>2, <1>3, <2>1, <3>3, Zenon
      <4>2. Entry(e, j, r) # None /\ Entry(e, j, r) = Entry(e, k, q)
        BY <2>1, <4>1, Zenon
      <4>3. QED
        BY <4>2, SMT DEF Exact, Apart
    <3>4. QED
      BY <3>2, <3>3, Zenon
  <2>2. QED
    BY <2>1 DEF Apart
<1>7. QED
  BY <1>4, <1>5, <1>6, Zenon DEF Exact

\* A free block put into addrs of file i: the other entries are as before.
LEMMA DirectEntry ==
  ASSUME NEW e, IsDisk(e), Exact(e), NEW i \in Inum, NEW s \in 0 .. NDIRECT, Entry(e, i, s) = None,
         NEW b \in Block \ e.used, NEW f, f.addrs = Updated(e.addrs, i, s, b),
         f.ind = Zeroed(e, b)
  PROVE  PlacedAt(e, f, i, s, b)
<1> SUFFICES ASSUME NEW j \in Inum, NEW r \in Place
             PROVE  Entry(f, j, r) = IF j = i /\ r = s THEN b ELSE Entry(e, j, r)
  BY Zenon DEF PlacedAt
<1>1. /\ b # None /\ NDIRECT \in 0 .. NDIRECT /\ NDIRECT \in Place /\ s \in Place /\ s <= NDIRECT
      /\ NDIRECT <= NDIRECT /\ (r <= NDIRECT => r \in 0 .. NDIRECT)
      /\ (~ (r <= NDIRECT) => r - NDIRECT - 1 \in 0 .. NINDIRECT - 1)
  BY ConstAssumption DEF Block, None, Place, MAXFILE
<1>2. /\ f.addrs[i][s] = b
      /\ \A k \in Inum, q \in 0 .. NDIRECT : ~ (k = i /\ q = s) => f.addrs[k][q] = e.addrs[k][q]
  <2>1. b \in Block \cup {None} /\ e.addrs \in [Inum -> [0 .. NDIRECT -> Block \cup {None}]]
    BY Zenon DEF IsDisk
  <2>2. Differs(Inum, 0 .. NDIRECT, Block \cup {None}, e.addrs, f.addrs, i, s, b)
    BY <2>1, UpdatedValues, Zenon
  <2>3. QED
    BY <2>2, Zenon DEF Differs
<1>3. CASE r <= NDIRECT
  BY <1>1, <1>2, <1>3, Zenon DEF Entry
<1>4. CASE ~ (r <= NDIRECT)
  <2>1. r # s
    BY <1>1, <1>4, Zenon
  <2>2. CASE j = i /\ s = NDIRECT
    <3>1. e.addrs[i][NDIRECT] = None /\ f.addrs[i][NDIRECT] = b
      BY <1>1, <1>2, <2>2, Zenon DEF Entry
    <3>2. f.ind[b] = NoEntries
      BY Zenon DEF IsDisk, Zeroed
    <3>3. NoEntries[r - NDIRECT - 1] = None
      BY <1>1, <1>4, Zenon DEF NoEntries
    <3>4. QED
      BY <1>1, <1>4, <2>1, <2>2, <3>1, <3>2, <3>3, Zenon DEF Entry
  <2>3. CASE ~ (j = i /\ s = NDIRECT)
    <3>1. f.addrs[j][NDIRECT] = e.addrs[j][NDIRECT]
      BY <1>1, <1>2, <2>3, Zenon
    <3>2. /\ NDIRECT \in Place /\ e.addrs[j][NDIRECT] = Entry(e, j, NDIRECT)
          /\ Entry(e, j, NDIRECT) \in Block \cup {None}
      BY IndirectBlock, Zenon
    <3>3. e.addrs[j][NDIRECT] # None => e.addrs[j][NDIRECT] # b
      BY <3>2 DEF Exact, Marked
    <3>4. e.addrs[j][NDIRECT] # None => f.ind[e.addrs[j][NDIRECT]] = e.ind[e.addrs[j][NDIRECT]]
      BY <3>2, <3>3, Zenon DEF IsDisk, Zeroed
    <3>5. QED
      BY <1>4, <2>1, <3>1, <3>4, Zenon DEF Entry
  <2>4. QED
    BY <2>2, <2>3, Zenon
<1>5. QED
  BY <1>3, <1>4, Zenon

\* A free block put into the indirect block of file i: the other entries are as
\* before, since no other file has that indirect block.
LEMMA IndirectEntry ==
  ASSUME NEW e, IsDisk(e), Exact(e), NEW i \in Inum, NEW s \in Place, s > NDIRECT,
         Entry(e, i, s) = None, NEW a, a = e.addrs[i][NDIRECT], a # None,
         NEW b \in Block \ e.used,
         NEW f, f.addrs = e.addrs, f.ind = Updated(Zeroed(e, b), a, s - NDIRECT - 1, b)
  PROVE  PlacedAt(e, f, i, s, b)
<1> SUFFICES ASSUME NEW j \in Inum, NEW r \in Place
             PROVE  Entry(f, j, r) = IF j = i /\ r = s THEN b ELSE Entry(e, j, r)
  BY Zenon DEF PlacedAt
<1>1. /\ NDIRECT \in Place /\ NDIRECT <= NDIRECT
      /\ (~ (r <= NDIRECT) => r - NDIRECT - 1 \in 0 .. NINDIRECT - 1)
      /\ s - NDIRECT - 1 \in 0 .. NINDIRECT - 1 /\ ~ (s <= NDIRECT)
      /\ (r # s => r - NDIRECT - 1 # s - NDIRECT - 1)
  BY ConstAssumption DEF Place, MAXFILE
<1>2. a = Entry(e, i, NDIRECT) /\ a \in Block /\ NDIRECT \in Place
  BY IndirectBlock
<1>3. a # b
  BY <1>2 DEF Exact, Marked
<1>4. /\ f.ind[a][s - NDIRECT - 1] = b
      /\ \A k \in 0 .. NINDIRECT - 1 : k # s - NDIRECT - 1 => f.ind[a][k] = e.ind[a][k]
      /\ \A c \in Block : c # a /\ c # b => f.ind[c] = e.ind[c]
  <2> DEFINE g == Zeroed(e, b)
  <2>1. g \in [Block -> [0 .. NINDIRECT - 1 -> Block \cup {None}]] /\ g[a] = e.ind[a]
        /\ \A c \in Block : c # b => g[c] = e.ind[c]
    BY <1>2, <1>3, SMT DEF IsDisk, NoEntries, Zeroed
  <2> HIDE DEF g
  <2>2. s - NDIRECT - 1 \in 0 .. NINDIRECT - 1 /\ b \in Block \cup {None}
    BY <1>1, Zenon
  <2>3. Differs(Block, 0 .. NINDIRECT - 1, Block \cup {None}, g, f.ind, a, s - NDIRECT - 1, b)
    BY <1>2, <2>1, <2>2, UpdatedValues, Zenon DEF g
  <2>4. f.ind[a][s - NDIRECT - 1] = b
    BY <2>3, Zenon DEF Differs
  <2>5. \A k \in 0 .. NINDIRECT - 1 : k # s - NDIRECT - 1 => f.ind[a][k] = e.ind[a][k]
    <3>1. \A k \in 0 .. NINDIRECT - 1 : k # s - NDIRECT - 1 => f.ind[a][k] = g[a][k]
      BY <1>2, <2>3, Zenon DEF Differs
    <3>2. QED
      BY <2>1, <3>1, Zenon
  <2>6. \A c \in Block : c # a /\ c # b => f.ind[c] = e.ind[c]
    BY <2>1, <2>3, Zenon DEF Differs
  <2>7. QED
    BY <2>4, <2>5, <2>6, Zenon
<1>5. CASE r <= NDIRECT
  BY <1>1, <1>5, Zenon DEF Entry
<1>6. CASE ~ (r <= NDIRECT) /\ j = i
  <2>1. f.addrs[j][NDIRECT] = a /\ e.addrs[j][NDIRECT] = a
    BY <1>6, Zenon
  <2>2. Entry(f, j, r) = f.ind[a][r - NDIRECT - 1] /\ Entry(e, j, r) = e.ind[a][r - NDIRECT - 1]
    BY <1>6, <2>1, Zenon DEF Entry
  <2>3. QED
    BY <1>1, <1>4, <1>6, <2>2, Zenon
<1>7. CASE ~ (r <= NDIRECT) /\ j # i
  <2>1. e.addrs[j][NDIRECT] = Entry(e, j, NDIRECT) /\ Entry(e, j, NDIRECT) \in Block \cup {None}
    BY IndirectBlock, Zenon
  <2>2. Entry(e, j, NDIRECT) # None => Entry(e, j, NDIRECT) # a /\ Entry(e, j, NDIRECT) # b
    BY <1>1, <1>2, <1>7, SMT DEF Exact, Marked, Apart
  <2>3. Entry(e, j, NDIRECT) # None => f.ind[e.addrs[j][NDIRECT]] = e.ind[e.addrs[j][NDIRECT]]
    BY <1>4, <2>1, <2>2, Zenon
  <2>4. QED
    BY <1>7, <2>1, <2>3, Zenon DEF Entry
<1>8. QED
  BY <1>5, <1>6, <1>7, Zenon
-----------------------------------------------------------------------------
(* bmap.                                                                   *)

\* f is e with a block b at place s of file i, that may have been there before.
Grows(e, f, i, s, b) ==
  /\ IsDisk(f) /\ Exact(f) /\ f.size = e.size
  /\ b \in Block /\ Entry(f, i, s) = b
  /\ \A j \in Inum, r \in Place :
       Entry(e, j, r) # None \/ j # i => Entry(f, j, r) = Entry(e, j, r)
  /\ f.used \subseteq e.used \cup {Entry(f, i, NDIRECT), b}
  /\ f.logged \subseteq e.logged \cup {BITMAP, Entry(f, i, NDIRECT), b}
  /\ e.panic = "none" /\ trans # NoProc /\ Fits(e.logged \cup {BITMAP, Entry(f, i, NDIRECT), b})
       => f.panic = "none"

\* The number of a block stored in addrs, and in an indirect block.
AddrSet(e, i, s, b) == [e EXCEPT !.addrs[i][s] = b]
IndSet(e, a, k, b) == [e EXCEPT !.ind[a][k] = b]

\* A new block in addrs.
LEMMA DirectGrows ==
  ASSUME NEW e, IsDisk(e), Exact(e), NEW i \in Inum, NEW s \in 0 .. NDIRECT, Entry(e, i, s) = None,
         NEW g, NEW b, Allocates(e, g, b), NEW f, f = AddrSet(g, i, s, b)
  PROVE  Grows(e, f, i, s, b)
<1>1. b \in Block \ e.used /\ IsDisk(g) /\ s \in Place
  BY ConstAssumption DEF Allocates, Place, MAXFILE
<1>2. f = [used |-> g.used, addrs |-> Updated(g.addrs, i, s, b), size |-> g.size, data |-> g.data,
           ind |-> g.ind, logged |-> g.logged, panic |-> g.panic]
  BY <1>1 DEF IsDisk, Updated, AddrSet, IndSet
<1>3. f.addrs = Updated(e.addrs, i, s, b) /\ f.ind = Zeroed(e, b)
      /\ f.used = e.used \cup {b} /\ f.size = e.size
  <2>1. f.addrs = Updated(g.addrs, i, s, b) /\ f.ind = g.ind /\ f.used = g.used /\ f.size = g.size
    BY <1>2
  <2>2. QED
    BY <2>1, Zenon DEF Allocates
<1>4. PlacedAt(e, f, i, s, b)
  BY <1>1, <1>3, DirectEntry, Zenon
<1>5. Exact(f)
  BY <1>1, <1>3, <1>4, PlacedExact, Zenon
<1>6. f.addrs \in [Inum -> [0 .. NDIRECT -> Block \cup {None}]]
  <2>1. b \in Block \cup {None} /\ e.addrs \in [Inum -> [0 .. NDIRECT -> Block \cup {None}]]
    BY <1>1, Zenon DEF IsDisk
  <2>2. Differs(Inum, 0 .. NDIRECT, Block \cup {None}, e.addrs, f.addrs, i, s, b)
    BY <1>3, <2>1, UpdatedValues, Zenon
  <2>3. QED
    BY <2>2, Zenon DEF Differs
<1>7. IsDisk(f) /\ f.logged = e.logged \cup {BITMAP, b} /\ f.panic = g.panic
  BY <1>1, <1>2, <1>6 DEF IsDisk, Allocates
<1>8. f.panic = "none" \/ ~ (e.panic = "none" /\ trans # NoProc /\ Fits(e.logged \cup {BITMAP}))
  BY <1>7, Zenon DEF Allocates
<1>9. Fits(e.logged \cup {BITMAP, Entry(f, i, NDIRECT), b}) => Fits(e.logged \cup {BITMAP})
  BY FewerFit, Zenon
<1>10. Entry(f, i, s) = b
  BY <1>1, <1>4, Zenon DEF PlacedAt
<1>11. \A j \in Inum, r \in Place : Entry(e, j, r) # None \/ j # i => Entry(f, j, r) = Entry(e, j, r)
  BY <1>4, Zenon DEF PlacedAt
<1>12. QED
  BY <1>1, <1>3, <1>5, <1>7, <1>8, <1>9, <1>10, <1>11, Zenon DEF Grows

\* A new block in the indirect block.
LEMMA IndirectGrows ==
  ASSUME NEW e, IsDisk(e), Exact(e), NEW i \in Inum, NEW s \in Place, s > NDIRECT,
         Entry(e, i, s) = None, NEW a, a = e.addrs[i][NDIRECT], a # None,
         NEW g, NEW b, Allocates(e, g, b),
         NEW h, h = IndSet(g, a, s - NDIRECT - 1, b), NEW f, f = log_write(h, a)
  PROVE  Grows(e, f, i, s, b)
<1>1. b \in Block \ e.used /\ IsDisk(g)
  BY Zenon DEF Allocates
<1>2. a = Entry(e, i, NDIRECT) /\ a \in Block /\ NDIRECT \in Place
  BY IndirectBlock
<1>3. h = [used |-> g.used, addrs |-> g.addrs, size |-> g.size, data |-> g.data,
           ind |-> Updated(g.ind, a, s - NDIRECT - 1, b), logged |-> g.logged, panic |-> g.panic]
  BY <1>1 DEF IsDisk, Updated, AddrSet, IndSet
<1>4. h.addrs = e.addrs /\ h.ind = Updated(g.ind, a, s - NDIRECT - 1, b)
      /\ h.used = e.used \cup {b} /\ h.size = e.size /\ g.ind = Zeroed(e, b)
  <2>1. /\ h.addrs = g.addrs /\ h.ind = Updated(g.ind, a, s - NDIRECT - 1, b)
        /\ h.used = g.used /\ h.size = g.size
    BY <1>3
  <2>2. QED
    BY <2>1, Zenon DEF Allocates
<1>5. h.ind \in [Block -> [0 .. NINDIRECT - 1 -> Block \cup {None}]]
  <2>1. b \in Block \cup {None} /\ g.ind \in [Block -> [0 .. NINDIRECT - 1 -> Block \cup {None}]]
    BY <1>1, Zenon DEF IsDisk
  <2>2. s - NDIRECT - 1 \in 0 .. NINDIRECT - 1
    BY ConstAssumption DEF Place, MAXFILE
  <2>3. Differs(Block, 0 .. NINDIRECT - 1, Block \cup {None}, g.ind, h.ind, a, s - NDIRECT - 1, b)
    BY <1>2, <1>4, <2>1, <2>2, UpdatedValues, Zenon
  <2>4. QED
    BY <2>3, Zenon DEF Differs
<1>6. IsDisk(h) /\ h.logged = e.logged \cup {BITMAP, b} /\ h.panic = g.panic
  <2>1. /\ h.used = g.used /\ h.addrs = g.addrs /\ h.size = g.size /\ h.data = g.data
        /\ h.logged = g.logged /\ h.panic = g.panic
        /\ h = [used |-> h.used, addrs |-> h.addrs, size |-> h.size, data |-> h.data,
                ind |-> h.ind, logged |-> h.logged, panic |-> h.panic]
    BY <1>3
  <2>2. /\ g.used \subseteq Block /\ g.addrs \in [Inum -> [0 .. NDIRECT -> Block \cup {None}]]
        /\ g.size \in [Inum -> Nat] /\ g.logged \subseteq Block \cup {BITMAP, INODES}
    BY <1>1, Zenon DEF IsDisk
  <2>3. g.logged = e.logged \cup {BITMAP, b}
    BY Zenon DEF Allocates
  <2>4. QED
    BY <2>1, <2>2, <2>3, <1>5, ZenonT(30) DEF IsDisk
<1>7. Logs(h, f, a)
  <2>1. a \in Block \cup {BITMAP, INODES}
    BY <1>2, Zenon
  <2>2. QED
    BY <1>6, <2>1, LogWrite, Zenon
<1>8. /\ f.addrs = e.addrs /\ f.ind = Updated(g.ind, a, s - NDIRECT - 1, b) /\ IsDisk(f)
      /\ f.used = e.used \cup {b} /\ f.size = e.size /\ f.logged = e.logged \cup {BITMAP, b, a}
  BY <1>4, <1>6, <1>7, Zenon DEF Logs
<1>9. PlacedAt(e, f, i, s, b)
  <2>1. f.ind = Updated(Zeroed(e, b), a, s - NDIRECT - 1, b)
    BY <1>4, <1>8, Zenon
  <2>2. QED
    BY <1>1, <1>8, <2>1, IndirectEntry, Zenon
<1>10. Exact(f)
  BY <1>1, <1>8, <1>9, PlacedExact, Zenon
<1>11. Entry(f, i, s) = b /\ Entry(f, i, NDIRECT) = a
  BY <1>2, <1>9, Zenon DEF PlacedAt
<1>12. ASSUME e.panic = "none", trans # NoProc, Fits(e.logged \cup {BITMAP, a, b})
       PROVE  f.panic = "none"
  <2>1. Fits(e.logged \cup {BITMAP}) /\ Fits(e.logged \cup {BITMAP, b})
    BY <1>12, FewerFit, Zenon
  <2>2. QED
    BY <1>6, <1>7, <1>12, <2>1, Zenon DEF Logs, Allocates
<1>13. \A j \in Inum, r \in Place : Entry(e, j, r) # None \/ j # i => Entry(f, j, r) = Entry(e, j, r)
  BY <1>9, Zenon DEF PlacedAt
<1>14. f.logged \subseteq e.logged \cup {BITMAP, a, b}
  BY <1>8, Zenon
<1>15. QED
  BY <1>1, <1>8, <1>10, <1>11, <1>12, <1>13, <1>14, Zenon DEF Grows

\* bmap finds a block that is there.
LEMMA BmapFinds ==
  ASSUME NEW e, IsDisk(e), NEW i \in Inum, NEW bn \in 0 .. MAXFILE - 1, NEW junk,
         Entry(e, i, PlaceOf(bn)) # None
  PROVE  bmap(e, i, bn, junk) = [e |-> e, b |-> Entry(e, i, PlaceOf(bn))]
<1>1. CASE bn < NDIRECT
  <2>1. PlaceOf(bn) = bn /\ bn <= NDIRECT
    BY <1>1, ConstAssumption DEF PlaceOf
  <2>2. e.addrs[i][bn] = Entry(e, i, PlaceOf(bn))
    BY <2>1, Zenon DEF Entry
  <2>3. QED
    BY <1>1, <2>2, Zenon DEF bmap, bmap_direct
<1>2. CASE ~ (bn < NDIRECT)
  <2>1. PICK s : s = bn + 1
    BY Zenon
  <2>2. /\ e.addrs[i][NDIRECT] # None
        /\ e.ind[e.addrs[i][NDIRECT]][bn - NDIRECT] = Entry(e, i, PlaceOf(bn))
    <3>1. ~ (s <= NDIRECT) /\ PlaceOf(bn) = s /\ s - NDIRECT - 1 = bn - NDIRECT
      BY <1>2, <2>1, ConstAssumption DEF PlaceOf
    <3>2. QED
      BY <3>1, Zenon DEF Entry
  <2>3. /\ bmap_direct(e, i, NDIRECT, junk).e = e
        /\ bmap_direct(e, i, NDIRECT, junk).b = e.addrs[i][NDIRECT]
    BY <2>2, Zenon DEF bmap_direct
  <2>4. QED
    BY <1>2, <2>2, <2>3, Zenon DEF bmap
<1>3. QED
  BY <1>1, <1>2, Zenon

\* A file that has the block grows by nothing.
LEMMA GrowsNot ==
  ASSUME NEW e, IsDisk(e), Exact(e), NEW i \in Inum, NEW s \in Place, Entry(e, i, s) # None
  PROVE  Grows(e, e, i, s, Entry(e, i, s))
<1>1. Entry(e, i, s) \in Block
  BY EntryType
<1>2. QED
  BY <1>1, Zenon DEF Grows

\* The indirect block, and then a block in it.
LEMMA GrowsTwice ==
  ASSUME NEW e, NEW f, NEW g, NEW i \in Inum, NEW s \in Place, NEW a, NEW b,
         Grows(e, f, i, NDIRECT, a), Grows(f, g, i, s, b)
  PROVE  Grows(e, g, i, s, b)
<1>1. NDIRECT \in Place /\ None \notin Block
  BY ConstAssumption DEF Place, MAXFILE, Block, None
<1>2. a # None /\ Entry(f, i, NDIRECT) = a
  BY <1>1, Zenon DEF Grows
<1>3. Entry(g, i, NDIRECT) = a
  BY <1>1, <1>2, Zenon DEF Grows
<1>4. \A j \in Inum, r \in Place : Entry(e, j, r) # None \/ j # i => Entry(g, j, r) = Entry(e, j, r)
  <2>1. ASSUME NEW j \in Inum, NEW r \in Place, Entry(e, j, r) # None \/ j # i
        PROVE  Entry(g, j, r) = Entry(e, j, r)
    <3>1. Entry(f, j, r) = Entry(e, j, r)
      BY <2>1, Zenon DEF Grows
    <3>2. QED
      BY <2>1, <3>1, Zenon DEF Grows
  <2>2. QED
    BY <2>1, Zenon
<1>5. g.logged \subseteq e.logged \cup {BITMAP, a, b}
  BY <1>2, <1>3, Zenon DEF Grows
<1>6. g.used \subseteq e.used \cup {a, b}
  BY <1>2, <1>3, Zenon DEF Grows
<1>7. ASSUME e.panic = "none", trans # NoProc, Fits(e.logged \cup {BITMAP, a, b})
      PROVE  g.panic = "none"
  <2>1. Fits(e.logged \cup {BITMAP, Entry(f, i, NDIRECT), a})
    <3>1. e.logged \cup {BITMAP, Entry(f, i, NDIRECT), a} \subseteq e.logged \cup {BITMAP, a, b}
      BY <1>2, Zenon
    <3>2. QED
      BY <1>7, <3>1, FewerFit, Zenon
  <2>2. f.panic = "none" /\ f.logged \subseteq e.logged \cup {BITMAP, a}
    BY <1>2, <1>7, <2>1, Zenon DEF Grows
  <2>3. Fits(f.logged \cup {BITMAP, Entry(g, i, NDIRECT), b})
    <3>1. f.logged \cup {BITMAP, Entry(g, i, NDIRECT), b} \subseteq e.logged \cup {BITMAP, a, b}
      BY <1>3, <2>2, Zenon
    <3>2. QED
      BY <1>7, <3>1, FewerFit, Zenon
  <2>4. QED
    BY <1>7, <2>2, <2>3, Zenon DEF Grows
<1>8. QED
  BY <1>3, <1>4, <1>5, <1>6, <1>7, Zenon DEF Grows

\* Blocks are left for the places that name none: one, or two.
Left1(e) == LargeDisk \/ Block \ e.used # {}
Left2(e) == LargeDisk \/ \E x, y \in Block \ e.used : x # y

\* On a large disk a place that names no block leaves one free: there are at
\* most as many blocks in use as places that name one.
LEMMA FreeBlock ==
  ASSUME NEW e, IsDisk(e), Exact(e), LargeDisk, NEW i \in Inum, NEW s \in Place,
         Entry(e, i, s) = None
  PROVE  Block \ e.used # {}
<1> SUFFICES ASSUME e.used = Block PROVE FALSE
  BY Zenon DEF IsDisk
<1> DEFINE A == Inum \X Place
           P == {x \in A : Entry(e, x[1], x[2]) # None}
           F == [x \in P |-> Entry(e, x[1], x[2])]
<1>1. IsFiniteSet(A) /\ Cardinality(A) = NInum * (MAXFILE + 1)
  <2>1. IsFiniteSet(Inum) /\ Cardinality(Inum) = NInum
    BY ConstAssumption, FS_Interval DEF Inum
  <2>2. IsFiniteSet(Place) /\ Cardinality(Place) = MAXFILE + 1
    <3>1. MAXFILE \in Nat /\ 0 \in Int /\ MAXFILE \in Int
      BY ConstAssumption DEF MAXFILE
    <3>2. /\ IsFiniteSet(0 .. MAXFILE)
          /\ Cardinality(0 .. MAXFILE) = IF 0 > MAXFILE THEN 0 ELSE MAXFILE - 0 + 1
      BY <3>1, FS_Interval, Zenon
    <3>3. Cardinality(0 .. MAXFILE) = MAXFILE + 1
      BY <3>1, <3>2, SMTT(60)
    <3>4. QED
      BY <3>2, <3>3, Zenon DEF Place
  <2>3. QED
    BY <2>1, <2>2, FS_Product, Zenon
<1>2. IsFiniteSet(P) /\ Cardinality(P) <= Cardinality(A) /\ Cardinality(A) # Cardinality(P)
  <2>1. <<i, s>> \in A /\ <<i, s>> \notin P
    BY Zenon
  <2>2. P \in SUBSET A /\ A # P
    BY <2>1, Zenon
  <2> HIDE DEF A, P
  <2>3. QED
    BY <1>1, <2>2, FS_Subset, Zenon
<1>3. F \in Surjection(P, Block)
  <2>1. \A x \in P : F[x] \in Block
    <3> TAKE x \in P
    <3>1. x[1] \in Inum /\ x[2] \in Place /\ Entry(e, x[1], x[2]) # None
      BY Zenon
    <3>2. QED
      BY <3>1, EntryType
  <2>2. \A b \in Block : \E x \in P : F[x] = b
    <3> TAKE b \in Block
    <3>1. PICK j \in Inum, r \in Place : Entry(e, j, r) = b
      BY Zenon DEF Exact, Named
    <3>2. b # None
      BY EntryType
    <3>3. <<j, r>> \in A /\ <<j, r>>[1] = j /\ <<j, r>>[2] = r
      BY Zenon
    <3>4. <<j, r>> \in P
      BY <3>1, <3>2, <3>3, Zenon
    <3>5. QED
      BY <3>1, <3>3, <3>4, Zenon
  <2>3. F \in [P -> Block]
    BY <2>1, Zenon
  <2> HIDE DEF F, P
  <2>4. QED
    BY <2>2, <2>3, Zenon DEF Surjection
<1>4. Cardinality(Block) <= Cardinality(P) /\ Cardinality(Block) = NBlock
  <2> HIDE DEF F, P
  <2>1. Cardinality(Block) <= Cardinality(P)
    BY <1>2, <1>3, FS_Surjection, Zenon
  <2>2. Cardinality(Block) = NBlock
    <3>1. NBlock \in Int /\ ~ (1 > NBlock) /\ NBlock - 1 + 1 = NBlock
      BY ConstAssumption
    <3>2. QED
      BY <3>1, FS_Interval DEF Block
  <2>3. QED
    BY <2>1, <2>2, Zenon
<1>5. Cardinality(P) \in Nat /\ Cardinality(A) \in Nat
  <2> HIDE DEF A, P
  <2>1. QED
    BY <1>1, <1>2, FS_CardinalityType, Zenon
<1> HIDE DEF A, P
<1>6. QED
  BY <1>1, <1>2, <1>4, <1>5, ConstAssumption DEF LargeDisk

\* r is e with a block at place s of file i, and the number of the block.
GrowsTo(r, e, i, s) == \E f, b : r = [e |-> f, b |-> b] /\ Grows(e, f, i, s, b)

\* bmap_direct, while a block is left.
LEMMA BmapDirect ==
  ASSUME NEW e, IsDisk(e), Exact(e), NEW i \in Inum, NEW s \in 0 .. NDIRECT, NEW junk, Left1(e)
  PROVE  GrowsTo(bmap_direct(e, i, s, junk), e, i, s)
<1>1. s \in Place /\ s <= NDIRECT
  BY ConstAssumption DEF Place, MAXFILE
<1>2. e.addrs[i][s] = Entry(e, i, s)
  BY <1>1, Zenon DEF Entry
<1>3. CASE Entry(e, i, s) # None
  <2>1. bmap_direct(e, i, s, junk) = [e |-> e, b |-> Entry(e, i, s)]
    BY <1>2, <1>3, Zenon DEF bmap_direct
  <2>2. Grows(e, e, i, s, Entry(e, i, s))
    BY <1>1, <1>3, GrowsNot, Zenon
  <2>3. QED
    BY <2>1, <2>2, Zenon DEF GrowsTo
<1>4. CASE Entry(e, i, s) = None
  <2>1. Block \ e.used # {}
    BY <1>1, <1>4, FreeBlock, Zenon DEF Left1
  <2>2. PICK g, b : block_alloc(e, junk) = [e |-> g, b |-> b] /\ Allocates(e, g, b)
    BY <2>1, Alloc, Zenon
  <2>3. PICK f : f = AddrSet(g, i, s, b)
    BY Zenon
  <2>4. Grows(e, f, i, s, b)
    BY <1>4, <2>2, <2>3, DirectGrows, Zenon
  <2>5. block_alloc(e, junk).e = g /\ block_alloc(e, junk).b = b
    BY <2>2
  <2>6. bmap_direct(e, i, s, junk) = [e |-> f, b |-> b]
    BY <1>2, <1>4, <2>3, <2>5, Zenon DEF bmap_direct, AddrSet
  <2>7. QED
    BY <2>4, <2>6, Zenon DEF GrowsTo
<1>5. QED
  BY <1>3, <1>4, Zenon

\* bmap, while two blocks are left.
LEMMA BmapGrows ==
  ASSUME NEW e, IsDisk(e), Exact(e), NEW i \in Inum, NEW bn \in 0 .. MAXFILE - 1, NEW junk, Left2(e)
  PROVE  GrowsTo(bmap(e, i, bn, junk), e, i, PlaceOf(bn))
<1>1. Left1(e)
  BY Zenon DEF Left1, Left2
<1>2. CASE bn < NDIRECT
  <2>1. PlaceOf(bn) = bn /\ bn \in 0 .. NDIRECT
    BY <1>2, ConstAssumption DEF PlaceOf
  <2>2. bmap(e, i, bn, junk) = bmap_direct(e, i, bn, junk)
    BY <1>2, Zenon DEF bmap
  <2>3. GrowsTo(bmap_direct(e, i, bn, junk), e, i, bn)
    BY <1>1, <2>1, BmapDirect, Zenon
  <2>4. QED
    BY <2>1, <2>2, <2>3, Zenon
<1>3. CASE ~ (bn < NDIRECT)
  <2>1. PICK s : s = bn + 1
    BY Zenon
  <2>2. /\ PlaceOf(bn) = s /\ ~ (s <= NDIRECT) /\ s - NDIRECT - 1 = bn - NDIRECT /\ s \in Place
        /\ s > NDIRECT
    BY <1>3, <2>1, ConstAssumption DEF PlaceOf, Place, MAXFILE
  <2>3. PICK g, a : /\ bmap_direct(e, i, NDIRECT, junk) = [e |-> g, b |-> a]
                    /\ Grows(e, g, i, NDIRECT, a)
    <3>1. NDIRECT \in 0 .. NDIRECT
      BY ConstAssumption
    <3>2. GrowsTo(bmap_direct(e, i, NDIRECT, junk), e, i, NDIRECT)
      BY <1>1, <3>1, BmapDirect, Zenon
    <3>3. QED
      BY <3>2, Zenon DEF GrowsTo
  <2>4. bmap_direct(e, i, NDIRECT, junk).e = g /\ bmap_direct(e, i, NDIRECT, junk).b = a
    BY <2>3
  <2>5. IsDisk(g) /\ Exact(g) /\ a # None /\ a = g.addrs[i][NDIRECT]
    <3>1. IsDisk(g) /\ Exact(g) /\ a \in Block /\ a = Entry(g, i, NDIRECT)
      BY <2>3, Zenon DEF Grows
    <3>2. QED
      BY <3>1, IndirectBlock, EntryType
  <2>6. Entry(g, i, s) = g.ind[a][bn - NDIRECT]
    BY <2>2, <2>5, Zenon DEF Entry
  <2>7. CASE Entry(g, i, s) # None
    <3>1. bmap(e, i, bn, junk) = [e |-> g, b |-> Entry(g, i, s)]
      BY <1>3, <2>4, <2>6, <2>7, Zenon DEF bmap
    <3>2. Grows(g, g, i, s, Entry(g, i, s))
      BY <2>2, <2>5, <2>7, GrowsNot, Zenon
    <3>3. Grows(e, g, i, s, Entry(g, i, s))
      BY <2>2, <2>3, <3>2, GrowsTwice, Zenon
    <3>4. QED
      BY <2>2, <3>1, <3>3, Zenon DEF GrowsTo
  <2>8. CASE Entry(g, i, s) = None
    <3>1. Block \ g.used # {}
      <4>1. LargeDisk \/ Block \ g.used # {}
        <5>1. g.used \subseteq e.used \cup {a}
          BY <2>3, Zenon DEF Grows
        <5>2. QED
          BY <5>1 DEF Left2
      <4>2. QED
        BY <2>2, <2>5, <2>8, <4>1, FreeBlock, Zenon
    <3>2. PICK h, b : block_alloc(g, junk) = [e |-> h, b |-> b] /\ Allocates(g, h, b)
      BY <2>5, <3>1, Alloc, Zenon
    <3>3. PICK k : k = IndSet(h, a, bn - NDIRECT, b)
      BY Zenon
    <3>4. PICK f : f = log_write(k, a)
      BY Zenon
    <3>5. k = IndSet(h, a, s - NDIRECT - 1, b)
      BY <2>2, <3>3, Zenon
    <3>6. Grows(g, f, i, s, b)
      BY <2>2, <2>5, <2>8, <3>2, <3>4, <3>5, IndirectGrows, Zenon
    <3>7. block_alloc(g, junk).e = h /\ block_alloc(g, junk).b = b
      BY <3>2
    <3>8. bmap(e, i, bn, junk) = [e |-> f, b |-> b]
      BY <1>3, <2>4, <2>6, <2>8, <3>3, <3>4, <3>7, Zenon DEF bmap, IndSet
    <3>9. Grows(e, f, i, s, b)
      BY <2>2, <2>3, <3>6, GrowsTwice, Zenon
    <3>10. QED
      BY <2>2, <3>8, <3>9, Zenon DEF GrowsTo
  <2>9. QED
    BY <2>7, <2>8, Zenon
<1>4. QED
  BY <1>2, <1>3, Zenon
-----------------------------------------------------------------------------
(* The log entries and the size of a write.                                *)

\* The block of a byte of a file.
LEMMA PlaceOfBlock ==
  ASSUME NEW k \in 0 .. MAXFILE - 1
  PROVE  PlaceOf(k) \in Place
BY ConstAssumption DEF PlaceOf, Place, MAXFILE

\* A transfer of at most Max bytes touches few enough blocks.
LEMMA ChunkBlocks ==
  ASSUME NEW x \in Nat, NEW n \in Nat, n > 0, n <= Max
  PROVE  LET lo == x \div BSIZE
             hi == (x + n - 1) \div BSIZE
         IN  lo \in Nat /\ hi \in Nat /\ hi - lo + 3 <= LOGSIZE - 2
<1>1. PICK lo \in Nat : lo = x \div BSIZE /\ x < lo * BSIZE + BSIZE /\ lo * BSIZE \in Nat
  BY BlockOfByte, Zenon
<1>2. PICK hi \in Nat : /\ hi = (x + n - 1) \div BSIZE
                        /\ hi * BSIZE \in Nat /\ hi * BSIZE <= x + n - 1
  <2>1. x + n - 1 \in Nat
    OBVIOUS
  <2>2. QED
    BY <2>1, BlockOfByte, Zenon
<1>3. PICK m \in Nat : m = (LOGSIZE - 1 - 1 - 2) \div 2 /\ m + 3 <= LOGSIZE - 2
  BY ConstAssumption
<1>4. n <= m * BSIZE /\ m * BSIZE \in Nat
  BY <1>3, Multiples, Zenon DEF Max
<1>5. (lo + 1 + m) * BSIZE = lo * BSIZE + BSIZE + m * BSIZE
  BY ConstAssumption
<1>6. hi * BSIZE < (lo + 1 + m) * BSIZE
  BY <1>1, <1>2, <1>4, <1>5, ConstAssumption
<1>7. hi < lo + 1 + m
  BY <1>6, Multiples
<1>8. hi - lo + 3 <= LOGSIZE - 2
  BY <1>3, <1>7, ConstAssumption
<1>9. QED
  BY <1>1, <1>2, <1>8, Zenon

\* What a chunk of file_write may log fits.
LEMMA LoggableFits ==
  ASSUME NEW e, NEW i, NEW x \in Nat, NEW n \in Nat, n > 0, n <= Max
  PROVE  Fits(Loggable(e, i, x, n))
<1>1. PICK lo \in Nat, hi \in Nat : /\ lo = x \div BSIZE /\ hi = (x + n - 1) \div BSIZE
                                    /\ hi - lo + 3 <= LOGSIZE - 2
  BY ChunkBlocks, Zenon
<1> DEFINE K == lo .. hi
           T == {Entry(e, i, PlaceOf(k)) : k \in K}
           F == [k \in K |-> Entry(e, i, PlaceOf(k))]
           a == Entry(e, i, NDIRECT)
<1>2. IsFiniteSet(K) /\ Cardinality(K) \in Nat /\ Cardinality(K) + 2 <= LOGSIZE - 2
  <2>1. IsFiniteSet(K) /\ Cardinality(K) = IF lo > hi THEN 0 ELSE hi - lo + 1
    BY FS_Interval
  <2> HIDE DEF K
  <2>2. QED
    BY <1>1, <2>1, ConstAssumption
<1>3. F \in Surjection(K, T)
  BY Zenon DEF Surjection
<1>4. IsFiniteSet(T) /\ Cardinality(T) <= Cardinality(K) /\ Cardinality(T) \in Nat
  <2> HIDE DEF F, K, T
  <2>1. QED
    BY <1>2, <1>3, FS_Surjection, FS_CardinalityType, Zenon
<1>5. Loggable(e, i, x, n) = (T \cup {BITMAP}) \cup {a}
  BY <1>1, Zenon DEF Loggable
<1> HIDE DEF T, K, a
<1>6. IsFiniteSet(T \cup {BITMAP}) /\ Cardinality(T \cup {BITMAP}) <= Cardinality(T) + 1
      /\ Cardinality(T \cup {BITMAP}) \in Nat
  <2>1. IsFiniteSet(T \cup {BITMAP})
        /\ Cardinality(T \cup {BITMAP}) = IF BITMAP \in T THEN Cardinality(T) ELSE Cardinality(T) + 1
    BY <1>4, FS_AddElement, Zenon
  <2>2. QED
    BY <1>4, <2>1
<1> DEFINE U == T \cup {BITMAP}
<1>7. IsFiniteSet(U \cup {a}) /\ Cardinality(U \cup {a}) <= Cardinality(T) + 2
  <2> HIDE DEF U
  <2>1. IsFiniteSet(U) /\ Cardinality(U) <= Cardinality(T) + 1 /\ Cardinality(U) \in Nat
    BY <1>6 DEF U
  <2>2. IsFiniteSet(U \cup {a})
        /\ Cardinality(U \cup {a}) = IF a \in U THEN Cardinality(U) ELSE Cardinality(U) + 1
    BY <2>1, FS_AddElement, Zenon
  <2>3. QED
    BY <1>4, <2>1, <2>2
<1>8. Cardinality(U \cup {a}) \in Nat
  BY <1>7, FS_CardinalityType, Zenon
<1> HIDE DEF U
<1>9. Fits(U \cup {a})
  BY <1>2, <1>4, <1>7, <1>8, ConstAssumption DEF Fits
<1>10. QED
  BY <1>5, <1>9, Zenon DEF U

\* Files of e are files of f, with the same blocks and maybe more in file i.
Keeps(e, f, i) ==
  \A j \in Inum, r \in Place : Entry(e, j, r) # None \/ j # i => Entry(f, j, r) = Entry(e, j, r)

\* What may be logged may still be when the file has grown.
LEMMA LoggableKeeps ==
  ASSUME NEW e, NEW f, NEW i \in Inum, Keeps(e, f, i), NEW x \in Nat, NEW n \in Nat, n > 0,
         x + n <= MAXFILE * BSIZE, NEW y \in Loggable(e, i, x, n), y # None
  PROVE  y \in Loggable(f, i, x, n)
<1>1. NDIRECT \in Place
  BY ConstAssumption DEF Place, MAXFILE
<1>2. CASE y \in {BITMAP, Entry(e, i, NDIRECT)}
  BY <1>1, <1>2, Zenon DEF Keeps, Loggable
<1>3. CASE \E k \in x \div BSIZE .. (x + n - 1) \div BSIZE : y = Entry(e, i, PlaceOf(k))
  <2>1. PICK k \in x \div BSIZE .. (x + n - 1) \div BSIZE : y = Entry(e, i, PlaceOf(k))
    BY <1>3, Zenon
  <2>2. k \in 0 .. MAXFILE - 1
    <3>1. x + n - 1 \in Nat /\ MAXFILE \in Nat
      BY ConstAssumption DEF MAXFILE
    <3>2. PICK hi \in Nat : /\ hi = (x + n - 1) \div BSIZE
                            /\ hi * BSIZE \in Nat /\ hi * BSIZE <= x + n - 1
      BY <3>1, BlockOfByte, Zenon
    <3>3. hi * BSIZE < MAXFILE * BSIZE
      BY <3>1, <3>2, Multiples
    <3>4. hi < MAXFILE
      BY <3>1, <3>2, <3>3, Multiples
    <3>5. PICK lo \in Nat : lo = x \div BSIZE
      BY BlockOfByte, Zenon
    <3>6. QED
      BY <3>1, <3>2, <3>4, <3>5
  <2>3. Entry(f, i, PlaceOf(k)) = y
    BY <2>1, <2>2, PlaceOfBlock, Zenon DEF Keeps
  <2>4. QED
    BY <2>3, Zenon DEF Loggable
<1>4. QED
  BY <1>2, <1>3, Zenon DEF Loggable

\* Bytes that have blocks keep them.
LEMMA MappedKeeps ==
  ASSUME NEW e, NEW f, NEW i, Keeps(e, f, i), NEW j \in Inum, NEW n, Mapped(e, j, n)
  PROVE  Mapped(f, j, n)
BY PlaceOfBlock, Zenon DEF Keeps, Mapped

\* With the block of byte x the bytes up to the end of that block have blocks.
LEMMA MappedNext ==
  ASSUME NEW e, NEW i, NEW x \in Nat, Mapped(e, i, x), Entry(e, i, PlaceOf(x \div BSIZE)) # None,
         NEW m \in Nat, m <= BSIZE - (x % BSIZE)
  PROVE  Mapped(e, i, x + m)
<1> SUFFICES ASSUME NEW k \in 0 .. MAXFILE - 1, k * BSIZE < x + m
             PROVE  Entry(e, i, PlaceOf(k)) # None
  BY Zenon DEF Mapped
<1>1. PICK bn \in Nat, r \in Nat : /\ bn = x \div BSIZE /\ r = x % BSIZE /\ bn * BSIZE \in Nat
                                  /\ bn * BSIZE <= x /\ x = (bn * BSIZE) + r
  BY BlockOfByte, Zenon
<1>2. k * BSIZE < (bn + 1) * BSIZE /\ k \in Nat
  <2>1. x + m <= bn * BSIZE + BSIZE /\ (bn + 1) * BSIZE = bn * BSIZE + BSIZE
    <3>1. m <= BSIZE - r
      BY <1>1, Zenon
    <3>2. (bn + 1) * BSIZE = bn * BSIZE + BSIZE
      BY Multiples
    <3>3. QED
      BY <1>1, <3>1, <3>2, ConstAssumption
  <2>2. k \in Nat /\ k * BSIZE \in Nat
    BY Multiples
  <2>3. QED
    BY <1>1, <2>1, <2>2, ConstAssumption
<1>3. k <= bn
  BY <1>2, Multiples
<1>4. CASE k = bn
  BY <1>1, <1>4, Zenon
<1>5. CASE k < bn
  <2>1. k * BSIZE < x
    BY <1>1, <1>2, <1>5, Multiples, ConstAssumption
  <2>2. QED
    BY <2>1, Zenon DEF Mapped
<1>6. k = bn \/ k < bn
  BY <1>1, <1>2, <1>3
<1>7. QED
  BY <1>4, <1>5, <1>6, Zenon
-----------------------------------------------------------------------------
(* Steps.                                                                  *)

\* What a process that takes no step relies on: its lock, the disk while it has
\* the transaction, and that its file does not shrink.
LEMMA OthersSound ==
  ASSUME IOInv, NEW q \in Proc, NEW l, NEW tr, NEW e, IsDisk(e),
         \A i \in Inum : lock[i] = q => l[i] = q,
         trans = q => tr = q /\ e = d,
         file[q].ip # None => e.size[file[q].ip] >= d.size[file[q].ip]
  PROVE  Sound(q, th[q], file[q], e, l, tr)
<1> DEFINE t == th[q]
           f == file[q]
<1>1. t \in Thread /\ f \in File /\ Sound(q, t, f, d, lock, trans)
  BY Zenon DEF IOInv
<1>2. f.ip # None => f.ip \in Inum
  BY <1>1, Zenon DEF File
<1> HIDE DEF t, f
<1>3. CASE trans = q
  <2>1. e = d /\ tr = q
    BY <1>3, Zenon
  <2>2. t.pc \in {"read", "copy"} => l[f.ip] = q /\ t.tot < t.n1
    BY <1>1, <1>2, Zenon DEF Sound
  <2>3. Sound(q, t, f, d, l, q)
    BY <1>1, <2>2, Zenon DEF Sound
  <2>4. QED
    BY <2>1, <2>3, Zenon DEF t, f
<1>4. CASE trans # q
  <2>1. t.pc \notin {"close", "copy"}
    BY <1>1, <1>4, Zenon DEF Sound
  <2>2. f.ip # None => f.off <= e.size[f.ip]
    BY <1>1, <1>2, SMT DEF Sound, File, IsDisk, IOInv, DiskOK, f
  <2>3. t.pc = "read" => f.off + t.n1 <= e.size[f.ip]
    <3>1. t.pc = "read" => f.ip # None /\ f.off + t.n1 <= d.size[f.ip]
      BY <1>1, Zenon DEF Sound
    <3>2. QED
      BY <1>1, <1>2, <3>1, SMT DEF File, Thread, IsDisk, IOInv, DiskOK, f
  <2>4. t.pc = "read" => l[f.ip] = q /\ t.tot < t.n1
    BY <1>1, <1>2, Zenon DEF Sound
  <2>5. (t.pc # "idle" => f.ip # None) /\ (t.pc = "write" => t.i < t.n)
    BY <1>1, Zenon DEF Sound
  <2>6. QED
    BY <2>1, <2>2, <2>3, <2>4, <2>5, Zenon DEF Sound, t, f
<1>5. QED
  BY <1>3, <1>4, Zenon DEF t, f

\* A step of p keeps the invariant if it keeps what p, and what the others, rely on.
LEMMA StepKeeps ==
  ASSUME IOInv, NEW p \in Proc, work' = work, DiskOK(d'), trans' = NoProc => d'.logged = {},
         NEW t \in Thread, th' = [th EXCEPT ![p] = t],
         NEW f \in File, file' = [file EXCEPT ![p] = f],
         lock' \in [Inum -> Proc \cup {NoProc}],
         \A i \in Inum : lock[i] \in {p, NoProc} \/ lock'[i] = lock[i],
         trans \in {p, NoProc} \/ (trans' = trans /\ d' = d),
         \A q \in Proc : q # p /\ file[q].ip # None => d'.size[file[q].ip] >= d.size[file[q].ip],
         Sound(p, t, f, d', lock', trans')
  PROVE  IOInv'
<1>1. th' \in [Proc -> Thread] /\ file' \in [Proc -> File]
  BY Zenon DEF IOInv
<1>2. th'[p] = t /\ file'[p] = f /\ p # NoProc
  BY ConstAssumption, Zenon DEF IOInv
<1>3. \A q \in Proc : q # p => th'[q] = th[q] /\ file'[q] = file[q]
  BY Zenon DEF IOInv
<1>4. ASSUME NEW q \in Proc, q # p
      PROVE  Sound(q, th[q], file[q], d', lock', trans')
  <2>1. q # NoProc
    BY ConstAssumption, Zenon
  <2>2. \A i \in Inum : lock[i] = q => lock'[i] = q
    BY <1>4, <2>1, Zenon
  <2>3. trans = q => trans' = q /\ d' = d
    BY <1>4, <2>1, Zenon
  <2>4. file[q].ip # None => d'.size[file[q].ip] >= d.size[file[q].ip]
    BY <1>4, Zenon
  <2>5. IsDisk(d')
    BY Zenon DEF DiskOK
  <2>6. QED
    BY <2>2, <2>3, <2>4, <2>5, OthersSound, Zenon
<1>5. \A q \in Proc : Sound(q, th'[q], file'[q], d', lock', trans')
  BY <1>2, <1>3, <1>4, Zenon
<1>6. work' \in Workload
  BY Zenon DEF IOInv
<1>7. QED
  BY <1>1, <1>5, <1>6, Zenon DEF IOInv

\* The threads that a call begins and ends with.
LEMMA Threads ==
  /\ Idle \in Thread /\ Idle.pc = "idle"
  /\ \A pc \in {"idle", "close", "read", "write", "copy"}, n \in Nat, n1 \in Nat :
       LET t == [Idle EXCEPT !.pc = pc, !.n = n, !.n1 = n1]
       IN  t \in Thread /\ t.pc = pc /\ t.n = n /\ t.i = 0 /\ t.n1 = n1 /\ t.tot = 0
<1>1. Idle \in Thread /\ Idle.pc = "idle" /\ Idle.i = 0 /\ Idle.tot = 0
  BY DEF Idle, Thread
<1>2. ASSUME NEW pc \in {"idle", "close", "read", "write", "copy"}, NEW n \in Nat, NEW n1 \in Nat
      PROVE  LET t == [Idle EXCEPT !.pc = pc, !.n = n, !.n1 = n1]
             IN  t \in Thread /\ t.pc = pc /\ t.n = n /\ t.i = 0 /\ t.n1 = n1 /\ t.tot = 0
  <2> DEFINE t == [Idle EXCEPT !.pc = pc, !.n = n, !.n1 = n1]
  <2>1. t \in Thread
    <3> DEFINE t1 == [Idle EXCEPT !.pc = pc]
               t2 == [t1 EXCEPT !.n = n]
               t3 == [t2 EXCEPT !.n1 = n1]
    <3>1. t1 \in Thread
      BY <1>1, SMTT(30) DEF Thread
    <3>2. t = t3
      BY <1>1, SMTT(30) DEF Thread
    <3> HIDE DEF t1
    <3>3. t2 \in Thread
      BY <3>1, SMTT(30) DEF Thread
    <3> HIDE DEF t2
    <3>4. t3 \in Thread
      BY <3>3, SMTT(30) DEF Thread
    <3>5. QED
      BY <3>2, <3>4, Zenon
  <2>2. t.pc = pc /\ t.n = n /\ t.n1 = n1
    BY <1>1, SMTT(30) DEF Thread
  <2>3. t.i = 0 /\ t.tot = 0
    BY <1>1, SMTT(30) DEF Thread
  <2>4. QED
    BY <2>1, <2>2, <2>3, Zenon
<1>3. QED
  BY <1>1, <1>2, Zenon

\* A call of file_write that has another chunk to write.
Chunked(t, k) == [t EXCEPT !.pc = "write", !.i = k, !.n1 = 0, !.tot = 0]

\* It is at the beginning of its loop, k bytes further.
LEMMA NextChunk ==
  ASSUME NEW t \in Thread, NEW k \in Nat, NEW u, u = Chunked(t, k)
  PROVE  u \in Thread /\ u.pc = "write" /\ u.i = k /\ u.n = t.n
BY DEF Thread, Chunked

\* A file at another offset.
Advanced(f, off) == [f EXCEPT !.off = off]

\* It is the same file.
LEMMA NextOffset ==
  ASSUME NEW f \in File, NEW off \in Nat, NEW x, x = Advanced(f, off)
  PROVE  x \in File /\ x.ip = f.ip /\ x.off = off
BY DEF File, Advanced

\* A process and its file.
LEMMA ProcFacts ==
  ASSUME IOInv, NEW p \in Proc
  PROVE  /\ p # NoProc /\ th[p] \in Thread /\ file[p] \in File
         /\ th = [th EXCEPT ![p] = th[p]] /\ file = [file EXCEPT ![p] = file[p]]
         /\ Sound(p, th[p], file[p], d, lock, trans)
         /\ DiskOK(d) /\ lock \in [Inum -> Proc \cup {NoProc}]
<1>1. p # NoProc
  BY ConstAssumption, Zenon
<1>2. th = [th EXCEPT ![p] = th[p]] /\ file = [file EXCEPT ![p] = file[p]]
  BY Zenon DEF IOInv
<1>3. QED
  BY <1>1, <1>2, Zenon DEF IOInv

\* A step of p that does not change the disk.
LEMMA DiskStays ==
  ASSUME IOInv, NEW p \in Proc, work' = work, d' = d, trans' = NoProc => d.logged = {},
         NEW t \in Thread, th' = [th EXCEPT ![p] = t],
         NEW f \in File, file' = [file EXCEPT ![p] = f],
         lock' \in [Inum -> Proc \cup {NoProc}],
         \A i \in Inum : lock[i] \in {p, NoProc} \/ lock'[i] = lock[i],
         trans \in {p, NoProc} \/ trans' = trans,
         Sound(p, t, f, d, lock', trans')
  PROVE  IOInv'
<1>1. DiskOK(d') /\ Sound(p, t, f, d', lock', trans') /\ (trans' = NoProc => d'.logged = {})
  BY ProcFacts, Zenon
<1>2. \A q \in Proc : q # p /\ file[q].ip # None => d'.size[file[q].ip] >= d.size[file[q].ip]
  <2>1. ASSUME NEW q \in Proc, file[q].ip # None
        PROVE  d'.size[file[q].ip] >= d.size[file[q].ip]
    <3>1. file[q].ip \in Inum /\ d.size \in [Inum -> Nat]
      BY <2>1, ProcFacts, Zenon DEF File, DiskOK, IsDisk
    <3>2. QED
      BY <3>1
  <2>2. QED
    BY <2>1, Zenon
<1>3. trans \in {p, NoProc} \/ (trans' = trans /\ d' = d)
  BY Zenon
<1>4. QED
  BY <1>1, <1>2, <1>3, StepKeeps, Zenon

\* sys_open.
LEMMA OpenSound ==
  ASSUME IOInv, NEW p \in Proc, NEW i \in work.files, sys_open(p, i), work' = work
  PROVE  IOInv'
<1> DEFINE f == [ip |-> i, off |-> 0]
<1>1. i \in Inum
  BY ConstAssumption, Zenon DEF IOInv, Inum
<1>2. f \in File /\ f.ip = i /\ f.off = 0
  BY <1>1 DEF File
<1> HIDE DEF f
<1>3. d' = d /\ trans' = trans /\ lock' = lock /\ th' = th /\ th[p].pc = "idle"
      /\ file' = [file EXCEPT ![p] = f]
  BY Zenon DEF sys_open, Calls, f
<1>4. 0 <= d.size[i]
  BY <1>1, ProcFacts DEF DiskOK, IsDisk
<1>5. Sound(p, th[p], f, d, lock, trans)
  BY <1>2, <1>3, <1>4, Zenon DEF Sound
<1>6. trans' = NoProc => d.logged = {}
  BY <1>3, Zenon DEF IOInv
<1>7. QED
  BY <1>2, <1>3, <1>5, <1>6, ProcFacts, DiskStays, Zenon

\* sys_close begins a transaction.
LEMMA CloseSound ==
  ASSUME IOInv, NEW p \in Proc, file_close(p), work' = work
  PROVE  IOInv'
<1> DEFINE t == [Idle EXCEPT !.pc = "close"]
<1>1. t \in Thread /\ t.pc = "close"
  BY DEF Thread, Idle
<1> HIDE DEF t
<1>2. /\ d' = d /\ trans = NoProc /\ trans' = p /\ lock' = lock /\ file' = file
      /\ th' = [th EXCEPT ![p] = t] /\ file[p].ip # None
  BY Zenon DEF file_close, t
<1>3. d.logged = {} /\ (file[p].ip # None => file[p].off <= d.size[file[p].ip])
  BY <1>2, ProcFacts, Zenon DEF Sound, IOInv
<1>4. Sound(p, t, file[p], d, lock, p)
  BY <1>1, <1>2, <1>3, Zenon DEF Sound
<1>5. QED
  BY <1>1, <1>2, <1>3, <1>4, ProcFacts, DiskStays, Zenon

\* sys_write goes to file_write.
LEMMA SysWriteSound ==
  ASSUME IOInv, NEW p \in Proc, NEW n \in work.lens, sys_write(p, n), work' = work
  PROVE  IOInv'
<1> DEFINE t == [Idle EXCEPT !.pc = "write", !.n = n]
<1>1. n \in Nat /\ n > 0
  BY ConstAssumption DEF IOInv
<1>2. t \in Thread /\ t.pc = "write" /\ t.i < t.n
  BY <1>1 DEF Thread, Idle
<1> HIDE DEF t
<1>3. /\ d' = d /\ trans' = trans /\ lock' = lock /\ file' = file
      /\ th' = [th EXCEPT ![p] = t] /\ file[p].ip # None
  BY Zenon DEF sys_write, t
<1>4. file[p].ip # None => file[p].off <= d.size[file[p].ip]
  BY ProcFacts, Zenon DEF Sound
<1>5. Sound(p, t, file[p], d, lock, trans)
  BY <1>2, <1>3, <1>4, Zenon DEF Sound
<1>6. trans' = NoProc => d.logged = {}
  BY <1>3, Zenon DEF IOInv
<1>7. QED
  BY <1>2, <1>3, <1>5, <1>6, ProcFacts, DiskStays, Zenon

\* sys_read, up to the first block.
LEMMA SysReadSound ==
  ASSUME IOInv, NEW p \in Proc, NEW n \in work.lens, sys_read(p, n), work' = work
  PROVE  IOInv'
<1> DEFINE i == file[p].ip
           x == file[p].off
           n1 == IF x + n > d.size[i] THEN d.size[i] - x ELSE n
<1>1. n \in Nat
  BY ConstAssumption, Zenon DEF IOInv
<1>2. i \in Inum /\ x \in Nat /\ x <= d.size[i] /\ d.size[i] \in Nat
  <2>1. i # None
    BY Zenon DEF sys_read
  <2>2. i \in Inum /\ x \in Nat /\ x <= d.size[i] /\ d.size \in [Inum -> Nat]
    BY <2>1, ProcFacts, Zenon DEF Sound, File, DiskOK, IsDisk
  <2>3. QED
    BY <2>2, Zenon
<1>3. d' = d /\ trans' = trans /\ file' = file /\ lock[i] = NoProc
  BY Zenon DEF sys_read, file_read
<1>4. trans' = NoProc => d.logged = {}
  BY <1>3, Zenon DEF IOInv
<1>5. CASE lock' = lock /\ th' = th
  <2>1. /\ th' = [th EXCEPT ![p] = th[p]] /\ file' = [file EXCEPT ![p] = file[p]]
        /\ Sound(p, th[p], file[p], d, lock', trans') /\ th[p] \in Thread /\ file[p] \in File
        /\ lock' \in [Inum -> Proc \cup {NoProc}]
    BY <1>3, <1>5, ProcFacts, Zenon
  <2>2. QED
    BY <1>3, <1>4, <1>5, <2>1, DiskStays, Zenon
<1>6. CASE /\ n1 # 0 /\ lock' = [lock EXCEPT ![i] = p]
           /\ th' = [th EXCEPT ![p] = [Idle EXCEPT !.pc = "read", !.n = n, !.n1 = n1]]
  <2> HIDE DEF i, x
  <2>1. n1 \in Nat /\ 0 < n1 /\ x + n1 <= d.size[i]
    BY <1>1, <1>2, <1>6
  <2> HIDE DEF n1
  <2> DEFINE t == [Idle EXCEPT !.pc = "read", !.n = n, !.n1 = n1]
  <2>2. t \in Thread /\ t.pc = "read" /\ t.n1 = n1 /\ t.tot = 0
    BY <1>1, <2>1 DEF Thread, Idle
  <2> HIDE DEF t
  <2>3. lock' \in [Inum -> Proc \cup {NoProc}] /\ lock'[i] = p
        /\ \A j \in Inum : lock[j] \in {p, NoProc} \/ lock'[j] = lock[j]
    BY <1>2, <1>3, <1>6, ProcFacts, Zenon
  <2>4. Sound(p, t, file[p], d, lock', trans)
    <3>1. i # None
      BY Zenon DEF sys_read, i
    <3>2. QED
      BY <1>2, <2>1, <2>2, <2>3, <3>1, Zenon DEF Sound, i, x
  <2>5. /\ th' = [th EXCEPT ![p] = t] /\ file' = [file EXCEPT ![p] = file[p]]
        /\ Sound(p, t, file[p], d, lock', trans') /\ file[p] \in File
    BY <1>3, <1>6, <2>4, ProcFacts, Zenon DEF t
  <2>6. QED
    BY <1>3, <1>4, <2>2, <2>3, <2>5, DiskStays, Zenon
<1>7. QED
  BY <1>5, <1>6, Zenon DEF sys_read, file_read

\* The block of a byte below the largest size.
LEMMA BlockInFile ==
  ASSUME NEW x \in Nat, x < MAXFILE * BSIZE
  PROVE  x \div BSIZE \in 0 .. MAXFILE - 1 /\ (x \div BSIZE) * BSIZE <= x
<1>1. PICK k \in Nat : k = x \div BSIZE /\ k * BSIZE \in Nat /\ k * BSIZE <= x
  BY BlockOfByte, Zenon
<1>2. MAXFILE \in Nat /\ MAXFILE * BSIZE \in Nat
  BY LargestSize, Zenon
<1>3. k * BSIZE < MAXFILE * BSIZE
  BY <1>1, <1>2
<1>4. k < MAXFILE
  BY <1>2, <1>3, Multiples
<1>5. k \in 0 .. MAXFILE - 1
  BY <1>2, <1>4
<1>6. QED
  BY <1>1, <1>5, Zenon

\* How much of a block the next copy transfers.
LEMMA AmountFacts ==
  ASSUME IOInv, NEW p \in Proc, th[p].pc \in {"read", "copy"}
  PROVE  /\ Offset(p) \in Nat /\ Offset(p) = file[p].off + th[p].tot
         /\ Amount(p) \in Nat /\ Amount(p) > 0 /\ th[p].tot + Amount(p) <= th[p].n1
         /\ Amount(p) <= BSIZE - (Offset(p) % BSIZE)
<1>1. th[p].tot \in Nat /\ th[p].n1 \in Nat /\ file[p].off \in Nat /\ th[p].tot < th[p].n1
  BY ProcFacts, Zenon DEF Thread, File, Sound
<1>2. Offset(p) \in Nat /\ Offset(p) = file[p].off + th[p].tot
  BY <1>1 DEF Offset
<1>3. PICK r \in Nat : r = Offset(p) % BSIZE /\ r < BSIZE
  BY <1>2, BlockOfByte, Zenon
<1>4. Amount(p) = Min(th[p].n1 - th[p].tot, BSIZE - r)
  BY <1>3, Zenon DEF Amount
<1>5. Amount(p) \in Nat /\ Amount(p) > 0 /\ th[p].tot + Amount(p) <= th[p].n1 /\ Amount(p) <= BSIZE - r
  BY <1>1, <1>3, <1>4, ConstAssumption DEF Min
<1>6. QED
  BY <1>2, <1>3, <1>5, Zenon

\* One block of inode_read: it finds the block, so the disk does not change.
LEMMA ReadSound ==
  ASSUME IOInv, NEW p \in Proc, NEW junk, inode_read(p, junk), work' = work
  PROVE  IOInv'
<1> DEFINE t == th[p]
           f == file[p]
           m == Amount(p)
           o == Offset(p)
<1>1. t.pc = "read"
  BY Zenon DEF inode_read
<1>2. /\ o \in Nat /\ o = f.off + t.tot /\ m \in Nat /\ m > 0 /\ t.tot + m <= t.n1
  BY <1>1, AmountFacts, Zenon
<1>3. /\ f.ip \in Inum /\ f.ip # None /\ f.off \in Nat /\ f.off + t.n1 <= d.size[f.ip]
      /\ t.tot < t.n1 /\ t.n1 \in Nat /\ t.tot \in Nat /\ lock[f.ip] = p /\ f.off <= d.size[f.ip]
  BY <1>1, ProcFacts, Zenon DEF Sound, File, Thread
<1>4. /\ d.size[f.ip] \in Nat /\ d.size[f.ip] <= MAXFILE * BSIZE /\ Mapped(d, f.ip, d.size[f.ip])
      /\ IsDisk(d)
  BY <1>3, ProcFacts, Zenon DEF DiskOK, IsDisk
<1> HIDE DEF t, f, m, o
<1>5. o < d.size[f.ip] /\ o < MAXFILE * BSIZE
  <2>1. MAXFILE * BSIZE \in Nat
    BY LargestSize, Zenon
  <2>2. QED
    BY <1>2, <1>3, <1>4, <2>1
<1>6. Entry(d, f.ip, PlaceOf(o \div BSIZE)) # None /\ o \div BSIZE \in 0 .. MAXFILE - 1
  <2>1. PICK k \in 0 .. MAXFILE - 1 : k = o \div BSIZE /\ k * BSIZE <= o
    BY <1>2, <1>5, BlockInFile, Zenon
  <2>2. k * BSIZE < d.size[f.ip]
    <3>1. k \in Nat /\ k * BSIZE \in Nat
      BY Multiples
    <3>2. QED
      BY <1>2, <1>4, <1>5, <2>1, <3>1
  <2>3. QED
    BY <1>4, <2>1, <2>2, Zenon DEF Mapped
<1>7. d' = d
  <2>1. bmap(d, f.ip, o \div BSIZE, junk) = [e |-> d, b |-> Entry(d, f.ip, PlaceOf(o \div BSIZE))]
    BY <1>3, <1>4, <1>6, BmapFinds, Zenon
  <2>2. d' = bmap(d, f.ip, o \div BSIZE, junk).e
    BY Zenon DEF inode_read, f, o
  <2>3. QED
    BY <2>1, <2>2
<1>8. trans' = trans /\ (trans' = NoProc => d.logged = {})
  BY Zenon DEF inode_read, IOInv
<1>9. CASE /\ t.tot + m < t.n1 /\ th' = [th EXCEPT ![p].tot = @ + m]
           /\ lock' = lock /\ file' = file
  <2> DEFINE u == [t EXCEPT !.tot = @ + m]
  <2>1. u \in Thread /\ u.pc = "read" /\ u.tot < u.n1 /\ u.n1 = t.n1
    BY <1>1, <1>2, <1>3, <1>9, ProcFacts DEF Thread, t
  <2> HIDE DEF u
  <2>2. th' = [th EXCEPT ![p] = u]
    BY <1>9, ProcFacts, Zenon DEF u, t
  <2>3. Sound(p, u, f, d, lock, trans)
    BY <1>3, <2>1, Zenon DEF Sound
  <2>4. QED
    BY <1>7, <1>8, <1>9, <2>1, <2>2, <2>3, ProcFacts, DiskStays, Zenon DEF f
<1>10. CASE /\ file' = [file EXCEPT ![p].off = @ + t.n1]
            /\ lock' = [lock EXCEPT ![f.ip] = NoProc] /\ th' = [th EXCEPT ![p] = Idle]
  <2> DEFINE g == [f EXCEPT !.off = @ + t.n1]
  <2>1. g \in File /\ g.ip = f.ip /\ g.off = f.off + t.n1
    BY <1>3, ProcFacts DEF File, f
  <2> HIDE DEF g
  <2>2. file' = [file EXCEPT ![p] = g]
    BY <1>10, ProcFacts, Zenon DEF g, f
  <2>3. lock' \in [Inum -> Proc \cup {NoProc}]
        /\ \A j \in Inum : lock[j] \in {p, NoProc} \/ lock'[j] = lock[j]
    BY <1>3, <1>10, ProcFacts, Zenon
  <2>4. Sound(p, Idle, g, d, lock', trans)
    BY <1>3, <2>1, Threads, Zenon DEF Sound
  <2>5. Idle \in Thread
    BY Threads, Zenon
  <2>6. QED
    BY <1>7, <1>8, <1>10, <2>1, <2>2, <2>3, <2>4, <2>5, DiskStays, Zenon
<1>11. QED
  BY <1>9, <1>10, Zenon DEF inode_read, t, f, m

\* A chunk of file_write is not empty.
LEMMA MaxFacts == Max \in Nat /\ Max > 0
<1>1. PICK k \in {((LOGSIZE - 1 - 1 - 2) \div 2) - 1} : TRUE
  OBVIOUS
<1> k \in Nat /\ k + 1 = (LOGSIZE - 1 - 1 - 2) \div 2
  BY ConstAssumption
<1>2. k * BSIZE \in Nat /\ (k + 1) * BSIZE = k * BSIZE + BSIZE
  BY Multiples
<1>3. Max = (k + 1) * BSIZE
  BY Zenon DEF Max
<1>4. QED
  BY <1>2, <1>3, ConstAssumption

\* Fewer bytes have blocks as well.
LEMMA MappedFewer ==
  ASSUME NEW e, NEW i, NEW n \in Nat, Mapped(e, i, n), NEW m \in Nat, m <= n
  PROVE  Mapped(e, i, m)
<1>1. ASSUME NEW k \in 0 .. MAXFILE - 1, k * BSIZE < m
      PROVE  Entry(e, i, PlaceOf(k)) # None
  <2>1. k \in Nat /\ k * BSIZE \in Nat
    BY Multiples
  <2>2. k * BSIZE < n
    BY <1>1, <2>1
  <2>3. QED
    BY <2>2, Zenon DEF Mapped
<1>2. QED
  BY <1>1, Zenon DEF Mapped

\* An empty file has all its blocks.
LEMMA NothingMapped ==
  ASSUME NEW e, NEW i
  PROVE  Mapped(e, i, 0)
<1>1. ASSUME NEW k \in 0 .. MAXFILE - 1 PROVE ~ (k * BSIZE < 0)
  <2>1. k \in Nat /\ k * BSIZE \in Nat
    BY Multiples
  <2>2. QED
    BY <2>1
<1>2. QED
  BY <1>1, Zenon DEF Mapped

\* The loop of file_write, up to the first block of a chunk.
LEMMA FileWriteSound ==
  ASSUME IOInv, NEW p \in Proc, file_write(p), work' = work
  PROVE  IOInv'
<1> DEFINE t == th[p]
           f == file[p]
           n1 == Min(t.n - t.i, Max)
<1>1. /\ t.pc = "write" /\ trans = NoProc /\ lock[f.ip] = NoProc /\ d' = d /\ file' = file
      /\ d.logged = {}
  BY Zenon DEF file_write, IOInv
<1>2. /\ f.ip \in Inum /\ f.ip # None /\ f.off \in Nat /\ f.off <= d.size[f.ip] /\ t.i < t.n
      /\ t.n \in Nat /\ t.i \in Nat /\ t \in Thread /\ f \in File
  BY <1>1, ProcFacts, Zenon DEF Sound, File, Thread
<1>3. d.size[f.ip] \in Nat /\ Mapped(d, f.ip, d.size[f.ip])
  BY <1>2, ProcFacts, Zenon DEF DiskOK, IsDisk
<1> HIDE DEF t, f
<1>4. n1 \in Nat /\ 0 < n1 /\ t.i + n1 <= t.n /\ n1 <= Max
  BY <1>2, MaxFacts DEF Min
<1> HIDE DEF n1
<1>5. file' = [file EXCEPT ![p] = f]
  BY <1>1, ProcFacts, Zenon DEF f
<1>6. CASE th' = [th EXCEPT ![p] = Idle] /\ trans' = trans /\ lock' = lock
  <2>1. Idle \in Thread /\ Sound(p, Idle, f, d, lock, trans)
    BY <1>2, Threads, Zenon DEF Sound
  <2>2. lock' \in [Inum -> Proc \cup {NoProc}]
    BY <1>6, ProcFacts, Zenon
  <2>3. QED
    BY <1>1, <1>2, <1>5, <1>6, <2>1, <2>2, DiskStays, Zenon
<1>7. CASE /\ ~ (f.off + n1 > MAXFILE * BSIZE) /\ trans' = p /\ lock' = [lock EXCEPT ![f.ip] = p]
           /\ th' = [th EXCEPT ![p] = [t EXCEPT !.pc = "copy", !.n1 = n1, !.tot = 0]]
  <2> DEFINE u == [t EXCEPT !.pc = "copy", !.n1 = n1, !.tot = 0]
  <2>1. u \in Thread /\ u.pc = "copy" /\ u.n1 = n1 /\ u.tot = 0 /\ u.n = t.n /\ u.i = t.i
    BY <1>2, <1>4 DEF Thread
  <2> HIDE DEF u
  <2>2. lock' \in [Inum -> Proc \cup {NoProc}] /\ lock'[f.ip] = p
        /\ \A j \in Inum : lock[j] \in {p, NoProc} \/ lock'[j] = lock[j]
    BY <1>1, <1>2, <1>7, ProcFacts, Zenon
  <2>3. f.off + n1 <= MAXFILE * BSIZE
    BY <1>2, <1>4, <1>7, LargestSize
  <2>4. Mapped(d, f.ip, f.off + 0)
    <3>1. Mapped(d, f.ip, f.off) /\ f.off + 0 = f.off
      BY <1>2, <1>3, MappedFewer
    <3>2. QED
      BY <3>1, Zenon
  <2>5. Sound(p, u, f, d, lock', p)
    BY <1>1, <1>2, <1>4, <2>1, <2>2, <2>3, <2>4, Zenon DEF Sound
  <2>6. th' = [th EXCEPT ![p] = u]
    BY <1>7, Zenon DEF u
  <2>7. trans' = p /\ (trans' = NoProc => d.logged = {}) /\ trans \in {p, NoProc}
    BY <1>1, <1>7, Zenon
  <2>8. Sound(p, u, f, d, lock', trans')
    BY <2>5, <2>7, Zenon
  <2>9. QED
    BY <1>1, <1>2, <1>5, <2>1, <2>2, <2>6, <2>7, <2>8, DiskStays, ZenonT(60)
<1>8. QED
  BY <1>6, <1>7, Zenon DEF file_write, t, f, n1

\* Every place names the same block.
Alike(e, f) == \A i, s : Entry(f, i, s) = Entry(e, i, s)

\* A file system with the same i-nodes and indirect blocks.
LEMMA SameEntries ==
  ASSUME NEW e, NEW f, f.addrs = e.addrs, f.ind = e.ind
  PROVE  Alike(e, f)
BY Zenon DEF Entry, Alike

\* Of three file systems.
LEMMA AlikeTwice ==
  ASSUME NEW e, NEW f, NEW g, Alike(e, f), Alike(f, g)
  PROVE  Alike(e, g)
<1>1. ASSUME NEW i, NEW s PROVE Entry(g, i, s) = Entry(e, i, s)
  <2>1. Entry(g, i, s) = Entry(f, i, s) /\ Entry(f, i, s) = Entry(e, i, s)
    BY SMT DEF Alike
  <2>2. QED
    BY <2>1, Zenon
<1>2. QED
  BY <1>1, Zenon DEF Alike

\* It is as exact, if it has the same bitmap.
LEMMA SameExact ==
  ASSUME NEW e, NEW f, Alike(e, f), f.used = e.used, Exact(e)
  PROVE  Exact(f)
<1>1. Marked(f)
  BY Zenon DEF Exact, Marked, Alike
<1>2. Named(f)
  BY Zenon DEF Exact, Named, Alike
<1>3. Apart(f)
  BY SMT DEF Exact, Apart, Alike
<1>4. QED
  BY <1>1, <1>2, <1>3, Zenon DEF Exact

\* The disk after a block of a write: f, where e was before, for byte o of file i in
\* a chunk of n bytes from x on.
Written(e, f, i, x, n, o) ==
  /\ IsDisk(f) /\ Exact(f) /\ f.panic = "none" /\ f.size = e.size /\ Keeps(e, f, i)
  /\ Entry(f, i, PlaceOf(o \div BSIZE)) # None
  /\ f.logged \subseteq Loggable(f, i, x, n)

\* The contents of a block.
DataSet(e, b, v) == [e EXCEPT !.data[b] = v]

\* Writing a block: bmap gives g and b, the data are v.
LEMMA BlockWritten ==
  ASSUME NEW e, IsDisk(e), Exact(e), e.panic = "none", trans # NoProc, NEW i \in Inum,
         NEW x \in Nat, NEW n \in Nat, n > 0, n <= Max, x + n <= MAXFILE * BSIZE,
         e.logged \subseteq Loggable(e, i, x, n),
         NEW o \in Nat, x <= o, o < x + n,
         NEW g, NEW b, Grows(e, g, i, PlaceOf(o \div BSIZE), b),
         NEW v, NEW f, f = log_write(DataSet(g, b, v), b)
  PROVE  Written(e, f, i, x, n, o)
<1> DEFINE s == PlaceOf(o \div BSIZE)
           L == Loggable(f, i, x, n)
<1>1. PICK h : h = DataSet(g, b, v)
  OBVIOUS
<1>2. /\ IsDisk(g) /\ Exact(g) /\ g.size = e.size /\ b \in Block /\ Entry(g, i, s) = b
      /\ Keeps(e, g, i)
      /\ g.logged \subseteq e.logged \cup {BITMAP, Entry(g, i, NDIRECT), b}
      /\ Fits(e.logged \cup {BITMAP, Entry(g, i, NDIRECT), b}) => g.panic = "none"
  BY Zenon DEF Grows, Keeps
<1>3. /\ h = [used |-> g.used, addrs |-> g.addrs, size |-> g.size, data |-> h.data, ind |-> g.ind,
              logged |-> g.logged, panic |-> g.panic]
  BY <1>1, <1>2 DEF DataSet, IsDisk
<1>4. /\ h.used = g.used /\ h.addrs = g.addrs /\ h.size = g.size /\ h.ind = g.ind
      /\ h.logged = g.logged /\ h.panic = g.panic
  BY <1>3
<1>5. IsDisk(h)
  BY <1>2, <1>3, <1>4, Zenon DEF IsDisk
<1>6. Logs(h, f, b)
  <2>1. b \in Block \cup {BITMAP, INODES} /\ f = log_write(h, b)
    BY <1>1, <1>2, Zenon
  <2>2. QED
    BY <1>5, <2>1, LogWrite, Zenon
<1>7. /\ IsDisk(f) /\ f.used = g.used /\ f.addrs = g.addrs /\ f.size = e.size /\ f.ind = g.ind
      /\ f.logged = g.logged \cup {b}
      /\ g.panic = "none" /\ Fits(g.logged) => f.panic = "none"
  BY <1>2, <1>4, <1>6, Zenon DEF Logs
<1>8. Alike(g, f)
  BY <1>7, SameEntries, Zenon
<1>9. Exact(f)
  BY <1>2, <1>7, <1>8, SameExact, Zenon
<1>10. Keeps(e, f, i)
  <2>1. ASSUME NEW j \in Inum, NEW r \in Place, Entry(e, j, r) # None \/ j # i
        PROVE  Entry(f, j, r) = Entry(e, j, r)
    <3>1. Entry(f, j, r) = Entry(g, j, r)
      BY <1>8, Zenon DEF Alike
    <3>2. Entry(g, j, r) = Entry(e, j, r)
      BY <1>2, <2>1, Zenon DEF Keeps
    <3>3. QED
      BY <3>1, <3>2, Zenon
  <2>2. QED
    BY <2>1, Zenon DEF Keeps
<1>11. b # None
  BY <1>2, ConstAssumption DEF Block, None
<1>12. Entry(f, i, s) # None
  BY <1>2, <1>8, <1>11, Zenon DEF Alike
<1>13. e.logged \subseteq L
  <2>1. ASSUME NEW y \in e.logged PROVE y \in L
    <3>1. y \in Block \cup {BITMAP, INODES} /\ y \in Loggable(e, i, x, n)
      BY <2>1, Zenon DEF IsDisk
    <3>2. y # None
      BY <3>1, ConstAssumption DEF Block, None, BITMAP, INODES
    <3>3. QED
      BY <1>10, <3>1, <3>2, LoggableKeeps, Zenon
  <2>2. QED
    BY <2>1, Zenon
<1>14. BITMAP \in L /\ Entry(g, i, NDIRECT) \in L
  BY <1>8, Zenon DEF Loggable, Alike
<1>15. b \in L
  <2>1. o \div BSIZE \in x \div BSIZE .. (x + n - 1) \div BSIZE
    <3>1. x + n - 1 \in Nat /\ o <= x + n - 1
      OBVIOUS
    <3>2. PICK k0 \in Nat, r0 \in Nat : k0 = x \div BSIZE /\ k0 * BSIZE <= x
      BY BlockOfByte, Zenon
    <3>3. PICK k1 \in Nat, r1 \in Nat : k1 = o \div BSIZE /\ k1 * BSIZE <= o
                                        /\ o < (k1 * BSIZE) + BSIZE
      BY BlockOfByte, Zenon
    <3>4. PICK k2 \in Nat, r2 \in Nat : k2 = (x + n - 1) \div BSIZE
                                        /\ x + n - 1 < (k2 * BSIZE) + BSIZE
      BY <3>1, BlockOfByte, Zenon
    <3>5. /\ k0 * BSIZE \in Nat /\ k1 * BSIZE \in Nat /\ k2 * BSIZE \in Nat
          /\ k1 < k0 => (k1 + 1) * BSIZE <= k0 * BSIZE
          /\ k2 < k1 => (k2 + 1) * BSIZE <= k1 * BSIZE
          /\ (k1 + 1) * BSIZE = k1 * BSIZE + BSIZE
          /\ (k2 + 1) * BSIZE = k2 * BSIZE + BSIZE
      BY Multiples
    <3>6. k1 \in k0 .. k2
      BY <3>1, <3>2, <3>3, <3>4, <3>5, ConstAssumption
    <3>7. QED
      BY <3>2, <3>3, <3>4, <3>6, Zenon
  <2>2. b = Entry(f, i, s)
    BY <1>2, <1>8, Zenon DEF Alike
  <2>3. QED
    BY <2>1, <2>2, Zenon DEF Loggable
<1>16. Fits(L)
  BY LoggableFits, Zenon
<1>17. e.logged \cup {BITMAP, Entry(g, i, NDIRECT), b} \subseteq L
  BY <1>13, <1>14, <1>15, Zenon
<1>18. g.panic = "none"
  BY <1>2, <1>16, <1>17, FewerFit, Zenon
<1>19. g.logged \subseteq L /\ f.logged \subseteq L
  BY <1>2, <1>7, <1>15, <1>17, Zenon
<1>20. f.panic = "none"
  BY <1>7, <1>16, <1>18, <1>19, FewerFit, Zenon
<1>21. QED
  BY <1>7, <1>9, <1>10, <1>12, <1>19, <1>20, Zenon DEF Written

\* The size of a file, and an empty log.
SizeSet(e, i, n) == [e EXCEPT !.size[i] = n]
Commit(e) == [e EXCEPT !.logged = {}]

\* What a commit leaves as it is.
LEMMA Committed ==
  ASSUME NEW e, IsDisk(e), NEW f, f = Commit(e)
  PROVE  /\ IsDisk(f) /\ f.logged = {} /\ Alike(e, f) /\ f.used = e.used /\ f.size = e.size
         /\ f.panic = e.panic
<1>1. f = [used |-> e.used, addrs |-> e.addrs, size |-> e.size, data |-> e.data, ind |-> e.ind,
           logged |-> {}, panic |-> e.panic]
  BY DEF Commit, IsDisk
<1>2. /\ f.used = e.used /\ f.addrs = e.addrs /\ f.size = e.size /\ f.data = e.data
      /\ f.ind = e.ind /\ f.logged = {} /\ f.panic = e.panic
  BY <1>1
<1>3. IsDisk(f)
  BY <1>1, <1>2, Zenon DEF IsDisk
<1>4. QED
  BY <1>2, <1>3, SameEntries, Zenon

\* f is e with the size of i at least n, after a commit.
Sized(e, f, i, n) ==
  /\ IsDisk(f) /\ Exact(f) /\ f.panic = "none" /\ f.logged = {} /\ Alike(e, f)
  /\ \A j \in Inum : f.size[j] = IF j = i /\ n > e.size[i] THEN n ELSE e.size[j]

\* The end of inode_write: the size, if the file has grown, and the commit.
LEMMA SizeRecorded ==
  ASSUME NEW e, IsDisk(e), Exact(e), e.panic = "none", trans # NoProc, Fits(e.logged),
         NEW i \in Inum, NEW n \in Nat,
         NEW g, g = IF n > e.size[i] THEN inode_update(SizeSet(e, i, n)) ELSE e,
         NEW f, f = Commit(g)
  PROVE  Sized(e, f, i, n)
<1>1. CASE n > e.size[i]
  <2>1. PICK h : h = SizeSet(e, i, n)
    OBVIOUS
  <2>2. h = [used |-> e.used, addrs |-> e.addrs, size |-> [e.size EXCEPT ![i] = n], data |-> e.data,
             ind |-> e.ind, logged |-> e.logged, panic |-> e.panic]
    BY <2>1 DEF SizeSet, IsDisk
  <2>3. /\ h.used = e.used /\ h.addrs = e.addrs /\ h.size = [e.size EXCEPT ![i] = n]
        /\ h.data = e.data /\ h.ind = e.ind /\ h.logged = e.logged /\ h.panic = e.panic
    BY <2>2
  <2>4. h.size \in [Inum -> Nat] /\ h.size[i] = n /\ \A j \in Inum : j # i => h.size[j] = e.size[j]
    BY <2>3, Zenon DEF IsDisk
  <2>5. IsDisk(h)
    BY <2>2, <2>3, <2>4, Zenon DEF IsDisk
  <2>6. Logs(h, g, INODES)
    <3>1. g = log_write(h, INODES) /\ INODES \in Block \cup {BITMAP, INODES}
      BY <1>1, <2>1, Zenon DEF inode_update
    <3>2. QED
      BY <2>5, <3>1, LogWrite, Zenon
  <2>7. /\ IsDisk(g) /\ g.used = e.used /\ g.addrs = e.addrs /\ g.ind = e.ind /\ g.size = h.size
        /\ g.panic = "none"
    BY <2>3, <2>6, Zenon DEF Logs
  <2>8. /\ IsDisk(f) /\ f.logged = {} /\ Alike(g, f) /\ f.used = e.used /\ f.size = h.size
        /\ f.panic = "none"
    BY <2>7, Committed, ZenonT(60)
  <2>9. Alike(e, g)
    BY <2>7, SameEntries, Zenon
  <2>10. Alike(e, f)
    BY <2>8, <2>9, AlikeTwice, Zenon
  <2>11. Exact(f)
    BY <2>8, <2>10, SameExact, Zenon
  <2>12. QED
    BY <1>1, <2>4, <2>8, <2>10, <2>11, Zenon DEF Sized
<1>2. CASE ~ (n > e.size[i])
  <2>1. g = e
    BY <1>2, Zenon
  <2>2. /\ IsDisk(f) /\ f.logged = {} /\ Alike(e, f) /\ f.used = e.used /\ f.size = e.size
        /\ f.panic = "none"
    BY <2>1, Committed, Zenon
  <2>3. Exact(f)
    BY <2>2, SameExact, Zenon
  <2>4. QED
    BY <1>2, <2>2, <2>3, Zenon DEF Sized
<1>3. QED
  BY <1>1, <1>2, Zenon

\* The same bytes have blocks where every place names the same.
LEMMA MappedAlike ==
  ASSUME NEW e, NEW f, Alike(e, f), NEW i, NEW n, Mapped(e, i, n)
  PROVE  Mapped(f, i, n)
BY Zenon DEF Mapped, Alike

\* One block of inode_write that leaves more to do.
LEMMA WriteOn ==
  ASSUME IOInv, NEW p \in Proc, th[p].pc = "copy", work' = work,
         Written(d, d', file[p].ip, file[p].off, th[p].n1, Offset(p)),
         th[p].tot + Amount(p) < th[p].n1,
         th' = [th EXCEPT ![p].tot = @ + Amount(p)],
         trans' = trans, lock' = lock, file' = file
  PROVE  IOInv'
<1> DEFINE t == th[p]
           f == file[p]
           m == Amount(p)
           o == Offset(p)
<1>1. /\ t \in Thread /\ f \in File /\ p # NoProc /\ file' = [file EXCEPT ![p] = f]
      /\ DiskOK(d) /\ lock \in [Inum -> Proc \cup {NoProc}]
      /\ Sound(p, t, f, d, lock, trans)
  BY ProcFacts, Zenon
<1>2. /\ o \in Nat /\ o = f.off + t.tot /\ m \in Nat /\ m > 0 /\ m <= BSIZE - (o % BSIZE)
      /\ t.tot + m < t.n1
  BY AmountFacts, Zenon
<1>3. /\ IsDisk(d') /\ Exact(d') /\ d'.panic = "none" /\ d'.size = d.size /\ Keeps(d, d', f.ip)
      /\ Entry(d', f.ip, PlaceOf(o \div BSIZE)) # None
      /\ d'.logged \subseteq Loggable(d', f.ip, f.off, t.n1)
  BY Zenon DEF Written
<1>4. PICK u \in {[t EXCEPT !.tot = t.tot + m]} : th' = [th EXCEPT ![p] = u]
  BY Zenon
<1> HIDE DEF t, f, m, o
<1>5. u \in Thread /\ u.pc = t.pc /\ u.n1 = t.n1 /\ u.tot = t.tot + m /\ u.n = t.n /\ u.i = t.i
  BY <1>1, <1>2 DEF Thread
<1>6. /\ f.ip # None /\ f.off <= d.size[f.ip] /\ lock[f.ip] = p /\ trans = p /\ t.pc = "copy"
      /\ t.i + t.n1 <= t.n /\ t.n1 <= Max /\ f.off + t.n1 <= MAXFILE * BSIZE
      /\ Mapped(d, f.ip, f.off + t.tot) /\ f.ip \in Inum /\ f.off \in Nat /\ t.tot \in Nat
  BY <1>1, Zenon DEF Sound, t, File, Thread
<1>7. DiskOK(d')
  <2>1. \A i \in Inum : d'.size[i] <= MAXFILE * BSIZE /\ Mapped(d', i, d'.size[i])
    BY <1>1, <1>3, MappedKeeps, Zenon DEF DiskOK
  <2>2. QED
    BY <1>3, <2>1, Zenon DEF DiskOK
<1>8. Mapped(d', f.ip, f.off + (t.tot + m))
  <2>1. Mapped(d', f.ip, o)
    BY <1>2, <1>3, <1>6, MappedKeeps, Zenon
  <2>2. Mapped(d', f.ip, o + m)
    BY <1>2, <1>3, <2>1, MappedNext, Zenon
  <2>3. o + m = f.off + (t.tot + m)
    BY <1>2, <1>6
  <2>4. QED
    BY <2>2, <2>3, Zenon
<1>9. Sound(p, u, f, d', lock', trans')
  BY <1>2, <1>3, <1>5, <1>6, <1>8, Zenon DEF Sound
<1>10. \A q \in Proc : q # p /\ file[q].ip # None => d'.size[file[q].ip] >= d.size[file[q].ip]
  <2>1. \A q \in Proc : file[q].ip # None => d.size[file[q].ip] \in Nat
    BY <1>1, Zenon DEF IOInv, File, DiskOK, IsDisk
  <2>2. QED
    BY <1>3, <2>1
<1>11. trans' # NoProc /\ lock' \in [Inum -> Proc \cup {NoProc}]
  BY <1>1, <1>6, Zenon
<1>12. QED
  BY <1>1, <1>4, <1>5, <1>6, <1>7, <1>9, <1>10, <1>11, StepKeeps, Zenon

\* The last block of a chunk.
LEMMA WriteEnds ==
  ASSUME IOInv, NEW p \in Proc, th[p].pc = "copy", work' = work,
         NEW e, Written(d, e, file[p].ip, file[p].off, th[p].n1, Offset(p)),
         ~ (th[p].tot + Amount(p) < th[p].n1),
         Sized(e, d', file[p].ip, file[p].off + th[p].n1),
         NEW x \in File, x.ip = file[p].ip, x.off = file[p].off + th[p].n1,
         file' = [file EXCEPT ![p] = x],
         lock' = [lock EXCEPT ![file[p].ip] = NoProc], trans' = NoProc,
         NEW u \in Thread, u.pc = "idle" \/ (u.pc = "write" /\ u.i < u.n),
         th' = [th EXCEPT ![p] = u]
  PROVE  IOInv'
<1> DEFINE t == th[p]
           f == file[p]
           m == Amount(p)
           o == Offset(p)
           off == f.off + t.n1
<1>1. /\ t \in Thread /\ f \in File /\ p # NoProc
      /\ DiskOK(d) /\ lock \in [Inum -> Proc \cup {NoProc}]
      /\ Sound(p, t, f, d, lock, trans)
  BY ProcFacts, Zenon
<1>2. /\ o \in Nat /\ o = f.off + t.tot /\ m \in Nat /\ m <= BSIZE - (o % BSIZE)
      /\ t.tot + m <= t.n1 /\ ~ (t.tot + m < t.n1)
  BY AmountFacts, Zenon
<1>3. /\ e.size = d.size /\ Keeps(d, e, f.ip) /\ Entry(e, f.ip, PlaceOf(o \div BSIZE)) # None
  BY Zenon DEF Written
<1>4. /\ IsDisk(d') /\ Exact(d') /\ d'.panic = "none" /\ d'.logged = {} /\ Alike(e, d')
      /\ \A j \in Inum : d'.size[j] = IF j = f.ip /\ off > d.size[f.ip] THEN off ELSE d.size[j]
  BY <1>3, Zenon DEF Sized
<1>5. x.ip = f.ip /\ x.off = off
  BY Zenon
<1>7. /\ f.ip # None /\ f.off <= d.size[f.ip] /\ lock[f.ip] = p /\ trans = p
      /\ t.i + t.n1 <= t.n /\ f.off + t.n1 <= MAXFILE * BSIZE
      /\ Mapped(d, f.ip, f.off + t.tot) /\ f.ip \in Inum /\ f.off \in Nat /\ t.tot \in Nat
      /\ t.i \in Nat /\ t.n \in Nat /\ t.n1 \in Nat
  BY <1>1, Zenon DEF Sound, File, Thread
<1>8. lock' = [lock EXCEPT ![f.ip] = NoProc]
  BY Zenon
<1> HIDE DEF t, f, m, o
<1>9. off = o + m /\ off \in Nat
  BY <1>2, <1>7, SMTT(60)
<1>10. Mapped(d', f.ip, off)
  <2>1. Mapped(e, f.ip, o)
    BY <1>2, <1>3, <1>7, MappedKeeps, Zenon
  <2>2. Mapped(e, f.ip, o + m)
    BY <1>2, <1>3, <2>1, MappedNext, Zenon
  <2>3. QED
    BY <1>4, <1>9, <2>2, MappedAlike, Zenon
<1> HIDE DEF off
<1>13. \A j \in Inum : /\ d.size[j] \in Nat /\ d.size[j] <= MAXFILE * BSIZE
                       /\ Mapped(d, j, d.size[j])
  BY <1>1, Zenon DEF DiskOK, IsDisk
<1>14. \A j \in Inum : Mapped(d', j, d.size[j])
  <2>1. \A j \in Inum : Mapped(e, j, d.size[j])
    BY <1>3, <1>13, MappedKeeps, Zenon
  <2>2. QED
    BY <1>4, <2>1, MappedAlike, Zenon
<1>15. DiskOK(d')
  <2>1. off <= MAXFILE * BSIZE
    BY <1>7, Zenon DEF off
  <2>2. \A i \in Inum : d'.size[i] <= MAXFILE * BSIZE /\ Mapped(d', i, d'.size[i])
    BY <1>4, <1>10, <1>13, <1>14, <2>1, Zenon
  <2>3. QED
    BY <1>4, <2>2, Zenon DEF DiskOK
<1>16. \A j \in Inum : d'.size[j] >= d.size[j]
  <2>1. ASSUME NEW j \in Inum PROVE d'.size[j] >= d.size[j]
    <3>1. d'.size[j] = d.size[j] \/ (d'.size[j] = off /\ off > d.size[j])
      BY <1>4, Zenon
    <3>2. d.size[j] \in Nat
      BY <1>13, Zenon
    <3>3. QED
      BY <1>9, <3>1, <3>2
  <2>2. QED
    BY <2>1, Zenon
<1>17. \A q \in Proc : q # p /\ file[q].ip # None => d'.size[file[q].ip] >= d.size[file[q].ip]
  BY <1>16, Zenon DEF IOInv, File
<1>18. off <= d'.size[f.ip]
  <2>1. d'.size[f.ip] = off \/ (d'.size[f.ip] = d.size[f.ip] /\ ~ (off > d.size[f.ip]))
    BY <1>4, <1>7, Zenon
  <2>2. d.size[f.ip] \in Nat
    BY <1>7, <1>13, Zenon
  <2>3. QED
    BY <1>9, <2>1, <2>2
<1>19. Sound(p, u, x, d', lock', trans')
  BY <1>5, <1>7, <1>18, Zenon DEF Sound
<1>20. /\ lock' \in [Inum -> Proc \cup {NoProc}]
       /\ \A i \in Inum : lock[i] \in {p, NoProc} \/ lock'[i] = lock[i]
  BY <1>1, <1>7, <1>8, Zenon
<1>21. /\ trans' = NoProc => d'.logged = {}
       /\ trans \in {p, NoProc} \/ (trans' = trans /\ d' = d)
  BY <1>4, <1>7, Zenon
<1>22. QED
  BY <1>15, <1>17, <1>19, <1>20, <1>21, StepKeeps, Zenon

\* One block of inode_write, as long as the disk has blocks.
LEMMA WriteSound ==
  ASSUME IOInv, NEW p \in Proc, NEW junk, Left2(d), inode_write(p, junk), work' = work
  PROVE  IOInv'
<1> DEFINE t == th[p]
           f == file[p]
           m == Amount(p)
           o == Offset(p)
           off == f.off + t.n1
<1>1. /\ t \in Thread /\ f \in File /\ p # NoProc /\ DiskOK(d) /\ t.pc = "copy"
      /\ Sound(p, t, f, d, lock, trans)
  BY ProcFacts, Zenon DEF inode_write
<1>2. /\ o \in Nat /\ o = f.off + t.tot /\ m \in Nat /\ m > 0 /\ t.tot + m <= t.n1
  BY <1>1, AmountFacts, Zenon
<1>3. /\ f.ip # None /\ trans = p /\ trans # NoProc /\ t.tot < t.n1
      /\ t.i + t.n1 <= t.n /\ t.n1 <= Max /\ f.off + t.n1 <= MAXFILE * BSIZE
      /\ d.logged \subseteq Loggable(d, f.ip, f.off, t.n1)
      /\ f.ip \in Inum /\ f.off \in Nat /\ t.tot \in Nat
      /\ t.i \in Nat /\ t.n \in Nat /\ t.n1 \in Nat
  BY <1>1, Zenon DEF Sound, File, Thread
<1>4. IsDisk(d) /\ Exact(d) /\ d.panic = "none"
  BY <1>1, Zenon DEF DiskOK
<1>5. PICK r : r = bmap(d, f.ip, o \div BSIZE, junk)
  OBVIOUS
<1>6. PICK v : v = [k \in 0 .. BSIZE - 1 |->
                      IF k \in (o % BSIZE) .. (o % BSIZE) + m - 1
                      THEN kern_buf[t.i + t.tot + k - (o % BSIZE) + 1] ELSE r.e.data[r.b][k]]
  OBVIOUS
<1>7. PICK e : e = log_write(DataSet(r.e, r.b, v), r.b)
  OBVIOUS
<1>8. PICK g : g = IF off > d.size[f.ip] THEN inode_update(SizeSet(e, f.ip, off)) ELSE e
  OBVIOUS
<1>9. IF t.tot + m < t.n1
      THEN /\ d' = e
           /\ th' = [th EXCEPT ![p].tot = @ + m]
           /\ UNCHANGED <<trans, lock, file>>
      ELSE /\ d' = Commit(g)
           /\ file' = [file EXCEPT ![p] = Advanced(f, off)]
           /\ lock' = [lock EXCEPT ![f.ip] = NoProc]
           /\ trans' = NoProc
           /\ th' = [th EXCEPT ![p] = IF t.i + t.n1 = t.n THEN Idle ELSE Chunked(t, t.i + t.n1)]
  BY <1>5, <1>6, <1>7, <1>8, Zenon DEF inode_write, Commit, Advanced, Chunked, SizeSet, DataSet
<1>10. Written(d, e, f.ip, f.off, t.n1, o)
  <2>1. /\ f.off <= o /\ o < f.off + t.n1 /\ t.n1 > 0 /\ o < MAXFILE * BSIZE
    BY <1>2, <1>3, LargestSize
  <2>2. o \div BSIZE \in 0 .. MAXFILE - 1
    BY <1>2, <2>1, BlockInFile, Zenon
  <2>3. GrowsTo(r, d, f.ip, PlaceOf(o \div BSIZE))
    BY <1>3, <1>4, <1>5, <2>2, BmapGrows, Zenon
  <2>4. PICK h, b : r = [e |-> h, b |-> b] /\ Grows(d, h, f.ip, PlaceOf(o \div BSIZE), b)
    BY <2>3, Zenon DEF GrowsTo
  <2>5. r.e = h /\ r.b = b
    BY <2>4
  <2>6. e = log_write(DataSet(h, b, v), b)
    BY <1>7, <2>5, Zenon
  <2> HIDE DEF t, f, o
  <2>7. QED
    BY <1>2, <1>3, <1>4, <2>1, <2>4, <2>6, BlockWritten, Zenon
<1>11. CASE t.tot + m < t.n1
  <2>1. d' = e /\ th' = [th EXCEPT ![p].tot = @ + m] /\ trans' = trans /\ lock' = lock /\ file' = file
    BY <1>9, <1>11, Zenon
  <2>2. QED
    BY <1>1, <1>10, <1>11, <2>1, WriteOn, Zenon
<1>12. CASE ~ (t.tot + m < t.n1)
  <2>1. PICK x : x = Advanced(f, off)
    OBVIOUS
  <2>2. PICK u : u = IF t.i + t.n1 = t.n THEN Idle ELSE Chunked(t, t.i + t.n1)
    OBVIOUS
  <2>3. /\ d' = Commit(g) /\ file' = [file EXCEPT ![p] = x] /\ trans' = NoProc
        /\ lock' = [lock EXCEPT ![f.ip] = NoProc] /\ th' = [th EXCEPT ![p] = u]
    BY <1>9, <1>12, <2>1, <2>2, Zenon
  <2>4. off \in Nat /\ t.i + t.n1 \in Nat /\ (t.i + t.n1 # t.n => t.i + t.n1 < t.n) /\ t.n1 > 0
    <3> HIDE DEF t, f
    <3>1. QED
      BY <1>3
  <2>5. x \in File /\ x.ip = f.ip /\ x.off = off
    <3>1. f \in File /\ off \in Nat /\ x = Advanced(f, off)
      BY <1>1, <2>1, <2>4, Zenon
    <3> HIDE DEF f, off
    <3>2. QED
      BY <3>1, NextOffset, Zenon
  <2>6. u \in Thread /\ (u.pc = "idle" \/ (u.pc = "write" /\ u.i < u.n))
    <3>1. CASE t.i + t.n1 = t.n
      BY <2>2, <3>1, Threads, Zenon
    <3>2. CASE t.i + t.n1 # t.n
      <4>1. u = Chunked(t, t.i + t.n1)
        BY <2>2, <3>2, Zenon
      <4>2. u \in Thread /\ u.pc = "write" /\ u.i = t.i + t.n1 /\ u.n = t.n
        <5>1. t \in Thread /\ t.i + t.n1 \in Nat
          BY <1>1, <2>4, Zenon
        <5> HIDE DEF t
        <5>2. QED
          BY <4>1, <5>1, NextChunk
      <4>3. QED
        BY <2>4, <3>2, <4>2, Zenon
    <3>3. QED
      BY <3>1, <3>2, Zenon
  <2>7. Sized(e, d', f.ip, off)
    <3>1. /\ IsDisk(e) /\ Exact(e) /\ e.panic = "none" /\ e.size = d.size
          /\ e.logged \subseteq Loggable(e, f.ip, f.off, t.n1)
      BY <1>10, Zenon DEF Written
    <3>2. Fits(e.logged)
      BY <1>3, <2>4, <3>1, LoggableFits, FewerFit, Zenon
    <3>3. g = IF off > e.size[f.ip] THEN inode_update(SizeSet(e, f.ip, off)) ELSE e
      BY <1>8, <3>1, Zenon
    <3>4. QED
      BY <1>3, <2>3, <2>4, <3>1, <3>2, <3>3, SizeRecorded, Zenon
  <2>8. QED
    BY <1>1, <1>10, <1>12, <2>3, <2>5, <2>6, <2>7, WriteEnds, Zenon
<1>13. QED
  BY <1>11, <1>12, Zenon
-----------------------------------------------------------------------------
(* Freeing a file.                                                         *)

\* The places of file i that name a block, in Places and as entries.
LEMMA PlacesAre ==
  ASSUME NEW e, IsDisk(e), NEW i \in Inum
  PROVE  /\ \A x : x \in Places(e, i) <=> \E s \in Place : x = <<i, s>> /\ Entry(e, i, s) # None
         /\ \A s \in Place : Entry(e, i, s) # None => BlockAt(e, <<i, s>>) = Entry(e, i, s)
<1> DEFINE a == e.addrs[i]
<1>1. NDIRECT \in Nat /\ NINDIRECT \in Nat /\ NINDIRECT > 0
  BY ConstAssumption
<1>2. ASSUME NEW k \in 0 .. NDIRECT
      PROVE  k \in Place /\ Entry(e, i, k) = a[k]
  <2>1. k \in Place /\ k <= NDIRECT
    BY <1>1 DEF Place, MAXFILE
  <2>2. QED
    BY <2>1, Zenon DEF Entry
<1>3. ASSUME NEW k \in 0 .. NINDIRECT - 1
      PROVE  /\ NDIRECT + 1 + k \in Place
             /\ a[NDIRECT] # None => Entry(e, i, NDIRECT + 1 + k) = e.ind[a[NDIRECT]][k]
  <2>1. /\ NDIRECT + 1 + k \in Place /\ ~ (NDIRECT + 1 + k <= NDIRECT)
        /\ (NDIRECT + 1 + k) - NDIRECT - 1 = k
    BY <1>1 DEF Place, MAXFILE
  <2>2. QED
    BY <2>1, Zenon DEF Entry
<1>4. ASSUME NEW s \in Place
      PROVE  \/ s \in 0 .. NDIRECT
             \/ \E k \in 0 .. NINDIRECT - 1 : s = NDIRECT + 1 + k /\ ~ (s <= NDIRECT) /\ s - NDIRECT - 1 = k
  <2>1. CASE s <= NDIRECT
    BY <1>1, <2>1 DEF Place, MAXFILE
  <2>2. CASE ~ (s <= NDIRECT)
    <3>1. s - NDIRECT - 1 \in 0 .. NINDIRECT - 1 /\ s = NDIRECT + 1 + (s - NDIRECT - 1)
      BY <1>1, <2>2 DEF Place, MAXFILE
    <3>2. QED
      BY <2>2, <3>1, Zenon
  <2>3. QED
    BY <2>1, <2>2, Zenon
<1>5. ASSUME NEW x
      PROVE  x \in Places(e, i) <=>
               \/ \E k \in 0 .. NDIRECT : x = <<i, k>> /\ a[k] # None
               \/ /\ a[NDIRECT] # None
                  /\ \E k \in 0 .. NINDIRECT - 1 :
                       x = <<i, NDIRECT + 1 + k>> /\ e.ind[a[NDIRECT]][k] # None
  BY SMT DEF Places
<1>6. ASSUME NEW s \in Place, Entry(e, i, s) # None
      PROVE  BlockAt(e, <<i, s>>) = Entry(e, i, s)
  <2>1. CASE s <= NDIRECT
    BY <2>1 DEF BlockAt, Entry
  <2>2. CASE ~ (s <= NDIRECT)
    <3>1. BlockAt(e, <<i, s>>) = e.ind[a[NDIRECT]][s - NDIRECT - 1]
      BY <2>2 DEF BlockAt
    <3>2. QED
      BY <1>6, <2>2, <3>1, Zenon DEF Entry
  <2>3. QED
    BY <2>1, <2>2, Zenon
<1>7. ASSUME NEW x, x \in Places(e, i)
      PROVE  \E s \in Place : x = <<i, s>> /\ Entry(e, i, s) # None
  <2>1. CASE \E k \in 0 .. NDIRECT : x = <<i, k>> /\ a[k] # None
    BY <1>2, <2>1, Zenon
  <2>2. CASE /\ a[NDIRECT] # None
             /\ \E k \in 0 .. NINDIRECT - 1 :
                  x = <<i, NDIRECT + 1 + k>> /\ e.ind[a[NDIRECT]][k] # None
    BY <1>3, <2>2, Zenon
  <2>3. QED
    BY <1>5, <1>7, <2>1, <2>2, Zenon
<1>8. ASSUME NEW s \in Place, Entry(e, i, s) # None
      PROVE  <<i, s>> \in Places(e, i)
  <2>1. CASE s \in 0 .. NDIRECT
    BY <1>2, <1>5, <1>8, <2>1, Zenon
  <2>2. CASE \E k \in 0 .. NINDIRECT - 1 : s = NDIRECT + 1 + k /\ ~ (s <= NDIRECT) /\ s - NDIRECT - 1 = k
    <3>1. PICK k \in 0 .. NINDIRECT - 1 : s = NDIRECT + 1 + k /\ ~ (s <= NDIRECT) /\ s - NDIRECT - 1 = k
      BY <2>2, Zenon
    <3>2. a[NDIRECT] # None
      BY <1>8, <3>1, Zenon DEF Entry
    <3>3. e.ind[a[NDIRECT]][k] # None
      BY <1>3, <1>8, <3>1, <3>2, Zenon
    <3>4. QED
      BY <1>5, <3>1, <3>2, <3>3, Zenon
  <2>3. QED
    BY <1>4, <2>1, <2>2, Zenon
<1>9. QED
  BY <1>6, <1>7, <1>8, Zenon

\* The blocks of file i.
BlocksOf(e, i) == {BlockAt(e, x) : x \in Places(e, i)}

\* They are its entries.
LEMMA BlocksAre ==
  ASSUME NEW e, IsDisk(e), NEW i \in Inum
  PROVE  \A b : b \in BlocksOf(e, i) <=>
                  \E s \in Place : b = Entry(e, i, s) /\ Entry(e, i, s) # None
<1>1. /\ \A x : x \in Places(e, i) <=> \E s \in Place : x = <<i, s>> /\ Entry(e, i, s) # None
      /\ \A s \in Place : Entry(e, i, s) # None => BlockAt(e, <<i, s>>) = Entry(e, i, s)
  BY PlacesAre
<1>2. ASSUME NEW b, b \in BlocksOf(e, i)
      PROVE  \E s \in Place : b = Entry(e, i, s) /\ Entry(e, i, s) # None
  BY <1>1, <1>2, Zenon DEF BlocksOf
<1>3. ASSUME NEW s \in Place, Entry(e, i, s) # None
      PROVE  Entry(e, i, s) \in BlocksOf(e, i)
  BY <1>1, <1>3, Zenon DEF BlocksOf
<1>4. QED
  BY <1>2, <1>3, Zenon

\* f is e without the blocks of file i.
Freed(e, f, i) ==
  /\ IsDisk(f) /\ f.panic = "none" /\ f.logged = {}
  /\ f.used = e.used \ BlocksOf(e, i)
  /\ \A j \in Inum, s \in Place : Entry(f, j, s) = IF j = i THEN None ELSE Entry(e, j, s)
  /\ \A j \in Inum : f.size[j] = IF j = i THEN 0 ELSE e.size[j]

\* The i-node of an empty file.
Emptied(e, i) == [e EXCEPT !.addrs[i] = [k \in 0 .. NDIRECT |-> None], !.size[i] = 0]

\* What is left of the disk has the blocks of the other files.
LEMMA FreedExact ==
  ASSUME NEW e, IsDisk(e), Exact(e), NEW i \in Inum, NEW f, Freed(e, f, i)
  PROVE  Exact(f)
<1>1. \A j \in Inum, s \in Place : Entry(f, j, s) = IF j = i THEN None ELSE Entry(e, j, s)
  BY Zenon DEF Freed
<1>2. \A b : b \in BlocksOf(e, i) <=> \E s \in Place : b = Entry(e, i, s) /\ Entry(e, i, s) # None
  BY BlocksAre, Zenon
<1>3. f.used = e.used \ BlocksOf(e, i)
  BY Zenon DEF Freed
<1>4. Marked(f)
  <2>1. ASSUME NEW j \in Inum, NEW s \in Place, Entry(f, j, s) # None
        PROVE  Entry(f, j, s) \in f.used
    <3>1. j # i /\ Entry(f, j, s) = Entry(e, j, s)
      BY <1>1, <2>1, Zenon
    <3>2. Entry(e, j, s) \in e.used
      BY <2>1, <3>1, Zenon DEF Exact, Marked
    <3>3. Entry(e, j, s) \notin BlocksOf(e, i)
      <4>1. ASSUME NEW r \in Place, Entry(e, j, s) = Entry(e, i, r) PROVE FALSE
        BY <2>1, <3>1, <4>1, SMT DEF Exact, Apart
      <4>2. QED
        BY <1>2, <4>1, Zenon
    <3>4. QED
      BY <1>3, <3>1, <3>2, <3>3, Zenon
  <2>2. QED
    BY <2>1, Zenon DEF Marked
<1>5. Named(f)
  <2>1. ASSUME NEW b \in f.used
        PROVE  \E j \in Inum, s \in Place : Entry(f, j, s) = b
    <3>1. b \in e.used /\ b \notin BlocksOf(e, i)
      BY <1>3, Zenon
    <3>2. PICK j \in Inum, s \in Place : Entry(e, j, s) = b
      BY <3>1, Zenon DEF Exact, Named
    <3>3. b # None
      <4>1. b \in Block
        BY <3>1, Zenon DEF IsDisk
      <4>2. QED
        BY <4>1, ConstAssumption DEF Block, None
    <3>4. j # i
      BY <1>2, <3>1, <3>2, <3>3, Zenon
    <3>5. QED
      BY <1>1, <3>2, <3>4, Zenon
  <2>2. QED
    BY <2>1, Zenon DEF Named
<1>6. Apart(f)
  <2>1. ASSUME NEW j \in Inum, NEW k \in Inum, NEW s \in Place, NEW r \in Place,
               Entry(f, j, s) # None, Entry(f, j, s) = Entry(f, k, r)
        PROVE  j = k /\ s = r
    <3>1. Entry(f, j, s) = Entry(e, j, s) /\ Entry(f, k, r) = Entry(e, k, r)
      BY <1>1, <2>1, Zenon
    <3>2. Entry(e, j, s) # None /\ Entry(e, j, s) = Entry(e, k, r)
      BY <2>1, <3>1, Zenon
    <3>3. QED
      BY <3>2, SMT DEF Exact, Apart
  <2>2. QED
    BY <2>1, SMT DEF Apart
<1>7. QED
  BY <1>4, <1>5, <1>6, Zenon DEF Exact

\* An empty file names no block.
LEMMA EmptiedEntries ==
  ASSUME NEW e, IsDisk(e), NEW i \in Inum, NEW f, f = Emptied(e, i)
  PROVE  /\ IsDisk(f) /\ f.used = e.used /\ f.logged = e.logged /\ f.panic = e.panic
         /\ \A j \in Inum, s \in Place : Entry(f, j, s) = IF j = i THEN None ELSE Entry(e, j, s)
         /\ \A j \in Inum : f.size[j] = IF j = i THEN 0 ELSE e.size[j]
<1> DEFINE nil == [k \in 0 .. NDIRECT |-> None]
<1>1. nil \in [0 .. NDIRECT -> Block \cup {None}] /\ \A k \in 0 .. NDIRECT : nil[k] = None
  BY Zenon
<1>2. f = [used |-> e.used, addrs |-> [e.addrs EXCEPT ![i] = nil], size |-> [e.size EXCEPT ![i] = 0],
           data |-> e.data, ind |-> e.ind, logged |-> e.logged, panic |-> e.panic]
  BY DEF Emptied, IsDisk
<1> HIDE DEF nil
<1>3. /\ f.used = e.used /\ f.addrs = [e.addrs EXCEPT ![i] = nil]
      /\ f.size = [e.size EXCEPT ![i] = 0]
      /\ f.data = e.data /\ f.ind = e.ind /\ f.logged = e.logged /\ f.panic = e.panic
  BY <1>2
<1>4. /\ f.addrs \in [Inum -> [0 .. NDIRECT -> Block \cup {None}]] /\ f.addrs[i] = nil
      /\ \A j \in Inum : j # i => f.addrs[j] = e.addrs[j]
  BY <1>1, <1>3, Zenon DEF IsDisk
<1>5. 0 \in Nat
  OBVIOUS
<1>6. f.size \in [Inum -> Nat] /\ \A j \in Inum : f.size[j] = IF j = i THEN 0 ELSE e.size[j]
  BY <1>3, <1>5, Zenon DEF IsDisk
<1>7. IsDisk(f)
  BY <1>2, <1>3, <1>4, <1>6, Zenon DEF IsDisk
<1>8. ASSUME NEW s \in Place PROVE Entry(f, i, s) = None
  <2>1. NDIRECT \in 0 .. NDIRECT /\ (s <= NDIRECT => s \in 0 .. NDIRECT)
    BY ConstAssumption DEF Place
  <2>2. QED
    BY <1>1, <1>4, <2>1, Zenon DEF Entry
<1>9. ASSUME NEW j \in Inum, NEW s \in Place, j # i PROVE Entry(f, j, s) = Entry(e, j, s)
  BY <1>3, <1>4, <1>9, Zenon DEF Entry
<1>10. QED
  BY <1>3, <1>6, <1>7, <1>8, <1>9, Zenon

\* The bitmap without a set of blocks.
Unmarked(e, blocks) ==
  [e EXCEPT !.used = @ \ blocks, !.panic = IF blocks \subseteq e.used THEN @ ELSE "freeing_free_block"]

\* Two blocks fit into the log.
LEMMA TwoFit == Fits({}) /\ Fits({BITMAP})
<1>1. IsFiniteSet({}) /\ Cardinality({}) = 0 /\ IsFiniteSet({BITMAP}) /\ Cardinality({BITMAP}) = 1
  BY FS_EmptySet, FS_Singleton, Zenon
<1>2. QED
  BY <1>1, ConstAssumption DEF Fits

\* f is e with fewer blocks marked.
Unmarks(e, f, blocks) ==
  /\ IsDisk(f) /\ f.used = e.used \ blocks /\ f.panic = "none" /\ Fits(f.logged)
  /\ f.size = e.size /\ Alike(e, f)

\* block_free of blocks that are in use.
LEMMA BlocksFreed ==
  ASSUME NEW e, IsDisk(e), e.panic = "none", e.logged = {}, trans # NoProc,
         NEW blocks, blocks \subseteq e.used, NEW f, f = block_free(e, blocks)
  PROVE  Unmarks(e, f, blocks)
<1>1. CASE blocks = {}
  <2>1. f = e
    BY <1>1, Zenon DEF block_free
  <2>2. Alike(e, f) /\ e.used = e.used \ blocks
    BY <1>1, <2>1, Zenon DEF Alike
  <2>3. QED
    BY <2>1, <2>2, TwoFit, Zenon DEF Unmarks
<1>2. CASE blocks # {}
  <2>1. PICK h : h = Unmarked(e, blocks)
    OBVIOUS
  <2>2. h = [used |-> e.used \ blocks, addrs |-> e.addrs, size |-> e.size, data |-> e.data,
             ind |-> e.ind, logged |-> e.logged, panic |-> e.panic]
    BY <2>1 DEF Unmarked, IsDisk
  <2>3. /\ h.used = e.used \ blocks /\ h.addrs = e.addrs /\ h.size = e.size /\ h.data = e.data
        /\ h.ind = e.ind /\ h.logged = e.logged /\ h.panic = e.panic
    BY <2>2
  <2>4. IsDisk(h)
    <3>1. e.used \ blocks \subseteq Block
      BY Zenon DEF IsDisk
    <3>2. QED
      BY <2>2, <2>3, <3>1, Zenon DEF IsDisk
  <2>5. Logs(h, f, BITMAP)
    <3>1. f = log_write(h, BITMAP) /\ BITMAP \in Block \cup {BITMAP, INODES}
      BY <1>2, <2>1, Zenon DEF block_free, Unmarked
    <3>2. QED
      BY <2>4, <3>1, LogWrite, Zenon
  <2>6. /\ IsDisk(f) /\ f.used = e.used \ blocks /\ f.addrs = e.addrs /\ f.ind = e.ind
        /\ f.size = e.size /\ f.logged = {BITMAP} /\ f.panic = "none"
    BY <2>3, <2>5, TwoFit, Zenon DEF Logs
  <2>7. QED
    BY <2>6, TwoFit, SameEntries, Zenon DEF Unmarks
<1>3. QED
  BY <1>1, <1>2, Zenon

\* inode_trunc, and the commit after it.
LEMMA Truncated ==
  ASSUME NEW e, IsDisk(e), Exact(e), e.panic = "none", e.logged = {}, trans # NoProc,
         NEW i \in Inum, NEW f, f = Commit(inode_trunc(e, i))
  PROVE  Freed(e, f, i)
<1>1. PICK h : h = block_free(e, BlocksOf(e, i))
  OBVIOUS
<1>2. PICK g : g = Emptied(h, i)
  OBVIOUS
<1>3. PICK k : k = log_write(g, INODES)
  OBVIOUS
<1>4. f = Commit(k)
  BY <1>1, <1>2, <1>3, Zenon DEF inode_trunc, inode_update, BlocksOf, Emptied
<1>5. BlocksOf(e, i) \subseteq e.used
  <2>1. ASSUME NEW b \in BlocksOf(e, i) PROVE b \in e.used
    <3>1. PICK s \in Place : b = Entry(e, i, s) /\ Entry(e, i, s) # None
      BY BlocksAre, Zenon
    <3>2. QED
      BY <3>1, Zenon DEF Exact, Marked
  <2>2. QED
    BY <2>1, Zenon
<1>6. /\ IsDisk(h) /\ h.used = e.used \ BlocksOf(e, i) /\ h.panic = "none" /\ Fits(h.logged)
      /\ h.size = e.size /\ Alike(e, h)
  <2>1. Unmarks(e, h, BlocksOf(e, i))
    BY <1>1, <1>5, BlocksFreed, Zenon
  <2>2. QED
    BY <2>1, Zenon DEF Unmarks
<1>7. /\ IsDisk(g) /\ g.used = h.used /\ g.logged = h.logged /\ g.panic = h.panic
      /\ \A j \in Inum, s \in Place : Entry(g, j, s) = IF j = i THEN None ELSE Entry(h, j, s)
      /\ \A j \in Inum : g.size[j] = IF j = i THEN 0 ELSE h.size[j]
  BY <1>2, <1>6, EmptiedEntries
<1>8. Logs(g, k, INODES)
  <2>1. INODES \in Block \cup {BITMAP, INODES}
    BY Zenon
  <2>2. QED
    BY <1>3, <1>7, <2>1, LogWrite, Zenon
<1>9. /\ IsDisk(k) /\ k.used = g.used /\ k.addrs = g.addrs /\ k.size = g.size /\ k.ind = g.ind
      /\ k.panic = "none"
  BY <1>6, <1>7, <1>8, Zenon DEF Logs
<1>10. Alike(g, k)
  BY <1>9, SameEntries, Zenon
<1>11. /\ IsDisk(f) /\ f.logged = {} /\ Alike(k, f) /\ f.used = k.used /\ f.size = k.size
       /\ f.panic = k.panic
  BY <1>4, <1>9, Committed, Zenon
<1>12. Alike(g, f)
  BY <1>10, <1>11, AlikeTwice, Zenon
<1>13. ASSUME NEW j \in Inum, NEW s \in Place
       PROVE  Entry(f, j, s) = IF j = i THEN None ELSE Entry(e, j, s)
  <2>1. Entry(f, j, s) = Entry(g, j, s)
    BY <1>12, Zenon DEF Alike
  <2>2. Entry(h, j, s) = Entry(e, j, s)
    BY <1>6, Zenon DEF Alike
  <2>3. QED
    BY <1>7, <2>1, <2>2, Zenon
<1>14. \A j \in Inum : f.size[j] = IF j = i THEN 0 ELSE e.size[j]
  BY <1>6, <1>7, <1>9, <1>11, Zenon
<1>15. f.used = e.used \ BlocksOf(e, i)
  BY <1>6, <1>7, <1>9, <1>11, Zenon
<1>16. QED
  BY <1>9, <1>11, <1>13, <1>14, <1>15, Zenon DEF Freed

\* The end of a call of sys_close.
LEMMA PutSound ==
  ASSUME IOInv, NEW p \in Proc, NEW unlinked, inode_put(p, unlinked), work' = work
  PROVE  IOInv'
<1> DEFINE f == file[p]
<1>1. /\ th[p].pc = "close" /\ trans' = NoProc /\ th' = [th EXCEPT ![p] = Idle] /\ lock' = lock
      /\ file' = [file EXCEPT ![p] = [ip |-> None, off |-> 0]]
  BY Zenon DEF inode_put
<1>2. /\ f.ip # None /\ trans = p /\ d.logged = {} /\ p # NoProc /\ f.ip \in Inum
      /\ DiskOK(d) /\ lock' \in [Inum -> Proc \cup {NoProc}]
  BY <1>1, ProcFacts, Zenon DEF Sound, File
<1>3. PICK x : x = [ip |-> None, off |-> 0]
  OBVIOUS
<1>4. x \in File /\ x.ip = None
  BY <1>3 DEF File
<1>5. Idle \in Thread /\ Idle.pc = "idle"
  BY Threads, Zenon
<1>6. file' = [file EXCEPT ![p] = x]
  BY <1>1, <1>3, Zenon
<1>7. CASE d' = d
  <2>1. Sound(p, Idle, x, d, lock', trans')
    BY <1>4, <1>5, Zenon DEF Sound
  <2>2. QED
    BY <1>1, <1>2, <1>4, <1>5, <1>6, <1>7, <2>1, DiskStays, Zenon
<1>8. CASE d' = Commit(inode_trunc(d, f.ip)) /\ \A q \in Proc \ {p} : file[q].ip # f.ip
  <2>1. IsDisk(d) /\ Exact(d) /\ d.panic = "none"
    BY <1>2, Zenon DEF DiskOK
  <2>2. Freed(d, d', f.ip)
    BY <1>2, <1>8, <2>1, Truncated, Zenon
  <2>3. Exact(d')
    BY <1>2, <2>1, <2>2, FreedExact, Zenon
  <2>4. /\ IsDisk(d') /\ d'.panic = "none" /\ d'.logged = {}
        /\ \A j \in Inum, s \in Place : Entry(d', j, s) = IF j = f.ip THEN None ELSE Entry(d, j, s)
        /\ \A j \in Inum : d'.size[j] = IF j = f.ip THEN 0 ELSE d.size[j]
    BY <2>2, Zenon DEF Freed
  <2>5. \A j \in Inum : d.size[j] \in Nat /\ d.size[j] <= MAXFILE * BSIZE /\ Mapped(d, j, d.size[j])
    BY <1>2, Zenon DEF DiskOK, IsDisk
  <2>6. ASSUME NEW j \in Inum PROVE d'.size[j] <= MAXFILE * BSIZE /\ Mapped(d', j, d'.size[j])
    <3>1. CASE j = f.ip
      <4>1. d'.size[j] = 0
        BY <2>4, <3>1, Zenon
      <4>2. 0 <= MAXFILE * BSIZE
        BY LargestSize
      <4>3. QED
        BY <4>1, <4>2, NothingMapped, Zenon
    <3>2. CASE j # f.ip
      <4>1. d'.size[j] = d.size[j]
        BY <2>4, <3>2, Zenon
      <4>2. \A k \in 0 .. MAXFILE - 1 : Entry(d', j, PlaceOf(k)) = Entry(d, j, PlaceOf(k))
        BY <2>4, <3>2, PlaceOfBlock, Zenon
      <4>3. QED
        BY <2>5, <4>1, <4>2, Zenon DEF Mapped
    <3>3. QED
      BY <3>1, <3>2, Zenon
  <2>7. DiskOK(d')
    BY <2>3, <2>4, <2>6, Zenon DEF DiskOK
  <2>8. Sound(p, Idle, x, d', lock', trans')
    BY <1>4, <1>5, Zenon DEF Sound
  <2>9. ASSUME NEW q \in Proc, q # p, file[q].ip # None
        PROVE  d'.size[file[q].ip] >= d.size[file[q].ip]
    <3>1. file[q].ip \in Inum /\ file[q].ip # f.ip
      BY <1>8, <2>9, Zenon DEF IOInv, File
    <3>2. d'.size[file[q].ip] = d.size[file[q].ip] /\ d.size[file[q].ip] \in Nat
      BY <2>4, <2>5, <3>1, Zenon
    <3>3. QED
      BY <3>2
  <2>10. /\ \A q \in Proc : q # p /\ file[q].ip # None => d'.size[file[q].ip] >= d.size[file[q].ip]
         /\ \A i \in Inum : lock[i] \in {p, NoProc} \/ lock'[i] = lock[i]
         /\ trans' = NoProc => d'.logged = {}
         /\ trans \in {p, NoProc} \/ (trans' = trans /\ d' = d)
    BY <1>1, <1>2, <2>4, <2>9, Zenon
  <2>11. /\ th' = [th EXCEPT ![p] = Idle] /\ lock' \in [Inum -> Proc \cup {NoProc}]
         /\ Idle \in Thread /\ x \in File
    BY <1>1, <1>2, <1>4, <1>5, Zenon
  <2>12. QED
    BY <1>6, <2>7, <2>8, <2>10, <2>11, StepKeeps, Zenon
<1>9. QED
  BY <1>7, <1>8, Zenon DEF inode_put, Commit
-----------------------------------------------------------------------------
(* The invariant holds, and what follows from it.                          *)

\* A table without a block.
Nil(A, B) == [a \in A |-> [b \in B |-> None]]

IsNil(A, B, t) ==
  t \in [A -> [B -> Block \cup {None}]] /\ \A a \in A : \A b \in B : t[a][b] = None

\* Its entries.
LEMMA NilTable ==
  ASSUME NEW A, NEW B, NEW t, t = Nil(A, B)
  PROVE  IsNil(A, B, t)
<1>1. \A a \in A : t[a] = [b \in B |-> None]
  BY Zenon DEF Nil
<1>2. [b \in B |-> None] \in [B -> Block \cup {None}]
  BY Zenon
<1>3. t \in [A -> [B -> Block \cup {None}]]
  BY <1>2, Zenon DEF Nil
<1>4. QED
  BY <1>1, <1>3, Zenon DEF IsNil

\* Empty files on an empty disk.
LEMMA IOInit == Init => IOInv
<1> SUFFICES ASSUME Init PROVE IOInv
  OBVIOUS
<1>1. /\ d = [used |-> d.used, addrs |-> d.addrs, size |-> d.size, data |-> d.data, ind |-> d.ind,
              logged |-> d.logged, panic |-> d.panic]
      /\ d.used = {} /\ d.logged = {} /\ d.panic = "none"
      /\ d.addrs = Nil(Inum, 0 .. NDIRECT)
      /\ d.size = [i \in Inum |-> 0]
      /\ d.ind = Nil(Block, 0 .. NINDIRECT - 1)
  BY DEF Init, Nil
<1>2. 0 \in Nat /\ IsNil(Inum, 0 .. NDIRECT, d.addrs) /\ IsNil(Block, 0 .. NINDIRECT - 1, d.ind)
  BY <1>1, NilTable, Zenon
<1>3. IsDisk(d)
  <2>1. /\ d.used \subseteq Block /\ d.size \in [Inum -> Nat]
        /\ d.logged \subseteq Block \cup {BITMAP, INODES}
    BY <1>1, <1>2, Zenon
  <2>2. d.addrs \in [Inum -> [0 .. NDIRECT -> Block \cup {None}]]
    BY <1>2, Zenon DEF IsNil
  <2>3. d.ind \in [Block -> [0 .. NINDIRECT - 1 -> Block \cup {None}]]
    BY <1>2, Zenon DEF IsNil
  <2>4. QED
    BY <1>1, <2>1, <2>2, <2>3, Zenon DEF IsDisk
<1>4. ASSUME NEW i \in Inum, NEW s \in Place PROVE Entry(d, i, s) = None
  <2>1. NDIRECT \in 0 .. NDIRECT /\ (s <= NDIRECT => s \in 0 .. NDIRECT)
    BY ConstAssumption DEF Place
  <2>2. \A k \in 0 .. NDIRECT : d.addrs[i][k] = None
    BY <1>2, Zenon DEF IsNil
  <2>3. QED
    BY <2>1, <2>2, Zenon DEF Entry
<1>5. Exact(d)
  <2>1. Marked(d)
    BY <1>4, Zenon DEF Marked
  <2>2. Named(d)
    BY <1>1, Zenon DEF Named
  <2>3. Apart(d)
    BY <1>4, Zenon DEF Apart
  <2>4. QED
    BY <2>1, <2>2, <2>3, Zenon DEF Exact
<1>6. ASSUME NEW i \in Inum PROVE d.size[i] <= MAXFILE * BSIZE /\ Mapped(d, i, d.size[i])
  <2>1. d.size[i] = 0 /\ 0 <= MAXFILE * BSIZE
    BY <1>1, LargestSize
  <2>2. QED
    BY <2>1, NothingMapped, Zenon
<1>7. DiskOK(d)
  BY <1>1, <1>3, <1>5, <1>6, Zenon DEF DiskOK
<1>8. [ip |-> None, off |-> 0] \in File /\ [ip |-> None, off |-> 0].ip = None
  BY DEF File
<1>9. Idle \in Thread /\ Idle.pc = "idle"
  BY Threads, Zenon
<1>10. /\ file \in [Proc -> File] /\ th \in [Proc -> Thread]
       /\ lock \in [Inum -> Proc \cup {NoProc}] /\ work \in Workload
       /\ \A p \in Proc : th[p].pc = "idle" /\ file[p].ip = None
  BY <1>8, <1>9, Zenon DEF Init
<1>11. \A p \in Proc : Sound(p, th[p], file[p], d, lock, trans)
  BY <1>10, Zenon DEF Sound
<1>12. QED
  BY <1>1, <1>7, <1>10, <1>11, Zenon DEF IOInv

\* Every step, while the disk has blocks.
LEMMA IONext ==
  ASSUME IOInv, Room \/ LargeDisk, [Next]_vars
  PROVE  IOInv'
<1>1. CASE UNCHANGED vars
  <2>1. /\ work' = work /\ d' = d /\ trans' = trans /\ lock' = lock /\ file' = file /\ th' = th
    BY <1>1, Zenon DEF vars
  <2>2. QED
    BY <2>1, Zenon DEF IOInv
<1>2. CASE Next
  <2>1. PICK p \in Proc :
          /\ \/ \E i \in work.files : sys_open(p, i)
             \/ file_close(p)
             \/ \E unlinked \in BOOLEAN : inode_put(p, unlinked)
             \/ \E n \in work.lens : sys_read(p, n) \/ sys_write(p, n)
             \/ file_write(p)
             \/ \E junk \in Junk(p) : inode_read(p, junk) \/ inode_write(p, junk)
          /\ work' = work
    BY <1>2, Zenon DEF Next
  <2>2. CASE \E i \in work.files : sys_open(p, i)
    BY <2>1, <2>2, OpenSound, Zenon
  <2>3. CASE file_close(p)
    BY <2>1, <2>3, CloseSound, Zenon
  <2>4. CASE \E unlinked \in BOOLEAN : inode_put(p, unlinked)
    BY <2>1, <2>4, PutSound, Zenon
  <2>5. CASE \E n \in work.lens : sys_read(p, n)
    BY <2>1, <2>5, SysReadSound, Zenon
  <2>6. CASE \E n \in work.lens : sys_write(p, n)
    BY <2>1, <2>6, SysWriteSound, Zenon
  <2>7. CASE file_write(p)
    BY <2>1, <2>7, FileWriteSound, Zenon
  <2>8. CASE \E junk : inode_read(p, junk)
    BY <2>1, <2>8, ReadSound, Zenon
  <2>9. CASE \E junk : inode_write(p, junk)
    <3>1. PICK junk : inode_write(p, junk)
      BY <2>9, Zenon
    <3>2. th[p].pc = "copy"
      BY <3>1, Zenon DEF inode_write
    <3>3. Left2(d)
      BY <3>2, Zenon DEF Room, Left2
    <3>4. QED
      BY <2>1, <3>1, <3>3, WriteSound, Zenon
  <2>10. QED
    BY <2>1, <2>2, <2>3, <2>4, <2>5, <2>6, <2>7, <2>8, <2>9, Zenon
<1>3. QED
  BY <1>1, <1>2, Zenon

\* The bitmap, by places.
LEMMA ExactBlocks ==
  ASSUME IOInv
  PROVE  BlocksExact
<1> DEFINE P == UNION {Places(d, i) : i \in Inum}
           F == [x \in P |-> BlockAt(d, x)]
<1>1. IsDisk(d) /\ Exact(d) /\ d.used \subseteq Block
  BY Zenon DEF IOInv, DiskOK, IsDisk
<1>2. ASSUME NEW x \in P
      PROVE  \E i \in Inum, s \in Place : x = <<i, s>> /\ Entry(d, i, s) # None /\ F[x] = Entry(d, i, s)
  <2>1. PICK i \in Inum : x \in Places(d, i)
    BY Zenon
  <2>2. PICK s \in Place : x = <<i, s>> /\ Entry(d, i, s) # None
    BY <1>1, <2>1, PlacesAre
  <2>3. BlockAt(d, x) = Entry(d, i, s)
    BY <1>1, <2>2, PlacesAre
  <2>4. QED
    BY <2>2, <2>3, Zenon
<1>3. ASSUME NEW i \in Inum, NEW s \in Place, Entry(d, i, s) # None
      PROVE  <<i, s>> \in P /\ F[<<i, s>>] = Entry(d, i, s)
  <2>1. <<i, s>> \in Places(d, i) /\ BlockAt(d, <<i, s>>) = Entry(d, i, s)
    BY <1>1, <1>3, PlacesAre
  <2>2. QED
    BY <2>1, Zenon
<1>4. F \in [P -> d.used]
  <2>1. ASSUME NEW x \in P PROVE F[x] \in d.used
    <3>1. PICK i \in Inum, s \in Place : Entry(d, i, s) # None /\ F[x] = Entry(d, i, s)
      BY <1>2, Zenon
    <3>2. QED
      BY <1>1, <3>1, Zenon DEF Exact, Marked
  <2>2. QED
    BY <2>1, Zenon
<1>5. \A b \in d.used : \E x \in P : F[x] = b
  <2>1. ASSUME NEW b \in d.used PROVE \E x \in P : F[x] = b
    <3>1. PICK i \in Inum, s \in Place : Entry(d, i, s) = b
      BY <1>1, Zenon DEF Exact, Named
    <3>2. b # None
      <4>1. b \in Block
        BY <1>1, Zenon
      <4>2. QED
        BY <4>1, ConstAssumption DEF Block, None
    <3>3. QED
      BY <1>3, <3>1, <3>2, Zenon
  <2>2. QED
    BY <2>1, Zenon
<1>6. d.used = {BlockAt(d, x) : x \in P}
  <2>1. ASSUME NEW b \in d.used PROVE \E x \in P : b = BlockAt(d, x)
    BY <1>5, Zenon
  <2>2. ASSUME NEW x \in P PROVE BlockAt(d, x) \in d.used
    <3>1. F[x] = BlockAt(d, x)
      BY Zenon
    <3> HIDE DEF F
    <3>2. QED
      BY <1>4, <3>1, Zenon
  <2> HIDE DEF P, F
  <2>3. QED
    BY <2>1, <2>2, Zenon
<1>7. \A x, y \in P : F[x] = F[y] => x = y
  <2>1. ASSUME NEW x \in P, NEW y \in P, F[x] = F[y] PROVE x = y
    <3>1. PICK i \in Inum, s \in Place : x = <<i, s>> /\ Entry(d, i, s) # None /\ F[x] = Entry(d, i, s)
      BY <1>2, Zenon
    <3>2. PICK j \in Inum, r \in Place : y = <<j, r>> /\ Entry(d, j, r) # None /\ F[y] = Entry(d, j, r)
      BY <1>2, Zenon
    <3>3. Entry(d, i, s) = Entry(d, j, r)
      BY <2>1, <3>1, <3>2, Zenon
    <3>4. i = j /\ s = r
      BY <1>1, <3>1, <3>3, SMT DEF Exact, Apart
    <3>5. QED
      BY <3>1, <3>2, <3>4, Zenon
  <2>2. QED
    BY <2>1, Zenon
<1>8. IsFiniteSet(P)
  <2>1. IsFiniteSet(Inum) /\ IsFiniteSet(Place)
    BY ConstAssumption, LargestSize, FS_Interval DEF Inum, Place
  <2>2. IsFiniteSet(Inum \X Place)
    BY <2>1, FS_Product, Zenon
  <2>3. P \subseteq Inum \X Place
    <3>1. ASSUME NEW x \in P PROVE x \in Inum \X Place
      <4>1. PICK i \in Inum, s \in Place : x = <<i, s>>
        BY <1>2, Zenon
      <4>2. QED
        BY <4>1, Zenon
    <3>2. QED
      BY <3>1, Zenon
  <2> HIDE DEF P
  <2>4. QED
    BY <2>2, <2>3, FS_Subset, Zenon
<1>9. Cardinality(d.used) = Cardinality(P)
  <2> HIDE DEF P, F
  <2>1. F \in Surjection(P, d.used)
    BY <1>4, <1>5, Zenon DEF Surjection
  <2>2. F \in Injection(P, d.used)
    BY <1>4, <1>7, Zenon DEF Injection, IsInjective
  <2>3. QED
    BY <1>8, <2>1, <2>2, FS_Surjection, Zenon
<1>10. QED
  BY <1>6, <1>9, Zenon DEF BlocksExact

\* The sizes, by places.
LEMMA MappedSizes ==
  ASSUME IOInv
  PROVE  SizeMapped
<1>1. IsDisk(d) /\ \A i \in Inum : Mapped(d, i, d.size[i])
  BY Zenon DEF IOInv, DiskOK
<1>2. ASSUME NEW i \in Inum, NEW k \in 0 .. MAXFILE - 1, k * BSIZE < d.size[i]
      PROVE  <<i, PlaceOf(k)>> \in Places(d, i)
  <2>1. PlaceOf(k) \in Place /\ Entry(d, i, PlaceOf(k)) # None
    BY <1>1, <1>2, PlaceOfBlock, Zenon DEF Mapped
  <2>2. QED
    BY <1>1, <2>1, PlacesAre
<1>3. \A p \in Proc : file[p].ip # None => file[p].off <= d.size[file[p].ip]
  BY Zenon DEF IOInv, Sound
<1>4. QED
  BY <1>2, <1>3, Zenon DEF SizeMapped, PlaceOf

-----------------------------------------------------------------------------
(* Theorems.                                                               *)

\* The inductive invariant of reading, writing, closing and freeing files by any
\* number of processes, as long as block_alloc finds the blocks it is asked for.
THEOREM IOInvariant == Spec /\ [](Room \/ LargeDisk) => []IOInv
<1>1. Init => IOInv
  BY IOInit
<1>2. IOInv /\ (Room \/ LargeDisk) /\ [Next]_vars => IOInv'
  BY IONext
<1>3. QED
  BY <1>1, <1>2, PTL DEF Spec

\* The bitmap of block_alloc and block_free marks a block exactly when one place in
\* one i-node names it: bmap and inode_trunc never leak a block nor give it twice.
THEOREM BitmapExact == Spec /\ [](Room \/ LargeDisk) => []BlocksExact
<1>1. IOInv => BlocksExact
  BY ExactBlocks
<1>2. QED
  BY <1>1, IOInvariant, PTL

\* Every byte below the size that inode_write records has a block, so that bmap
\* allocates nothing for inode_read, and no offset is past the end of its file.
THEOREM SizesMapped == Spec /\ [](Room \/ LargeDisk) => []SizeMapped
<1>1. IOInv => SizeMapped
  BY MappedSizes
<1>2. QED
  BY <1>1, IOInvariant, PTL

\* A chunk of file_write fits into the log whatever its offset and length: log_write
\* and block_free never panic.
THEOREM ChunksFit == Spec /\ [](Room \/ LargeDisk) => []NoPanic
<1>1. IOInv => NoPanic
  BY Zenon DEF IOInv, DiskOK, NoPanic
<1>2. QED
  BY <1>1, IOInvariant, PTL

\* All three, without a condition on the behaviour, on a disk with a block for every
\* place of every i-node.
THEOREM LargeDiskSound ==
  ASSUME LargeDisk
  PROVE  Spec => [](BlocksExact /\ SizeMapped /\ NoPanic)
<1>1. Room \/ LargeDisk
  OBVIOUS
<1>2. QED
  BY <1>1, BitmapExact, SizesMapped, ChunksFit, PTL
=============================================================================
