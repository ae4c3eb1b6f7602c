---------------------------- MODULE MemoryProofs ----------------------------
(***************************************************************************)
(* Proofs about module Memory: a physical page has one use, and what a     *)
(* process has mapped stays mapped, for any number of processes, any       *)
(* memory and any program.                                                 *)
(*                                                                         *)
(* The functions of the memory layers call each other, so every lemma      *)
(* about one of them speaks of a memory m and of the memory it returns.    *)
(***************************************************************************)
EXTENDS Memory, FiniteSetTheorems, TLAPS

\* PageOwnership, of any memory.
Owned(m) ==
  /\ \A i, j \in Id, d, e \in PDE :
       m.pdir[i][d] /= None =>
         /\ m.pdir[i][d] \in m.allocated
         /\ m.pdir[i][d] = m.pdir[j][e] => i = j /\ d = e
  /\ \A i, j \in Id, v, w \in VA :
       get_ptbl_entry_by_va(m, i, v) /= None =>
         /\ get_ptbl_entry_by_va(m, i, v) \in m.allocated
         /\ get_ptbl_entry_by_va(m, i, v) = get_ptbl_entry_by_va(m, j, w)
              => i = j /\ v = w
         /\ get_ptbl_entry_by_va(m, i, v) /= m.pdir[j][w[1]]

\* A page that is allocated and has no use yet.
Unused(m, p) ==
  /\ p \in m.allocated
  /\ \A i \in Id, d \in PDE : m.pdir[i][d] /= p
  /\ \A i \in Id, v \in VA : get_ptbl_entry_by_va(m, i, v) /= p

\* n has the page tables of m, and all the pages that are allocated in m.
SameMaps(m, n) ==
  /\ n.pdir = m.pdir /\ n.ptbl = m.ptbl
  /\ m.allocated \subseteq n.allocated
-----------------------------------------------------------------------------
(* Lemmas about the allocation table and the containers.                   *)

\* A nonempty set of naturals has a least element, which Min chooses.
LEMMA MinChosen ==
  ASSUME NEW S, S \subseteq Nat, S /= {}
  PROVE  Min(S) \in S
<1> DEFINE T == {0 .. x : x \in S}
<1>1. T \subseteq FiniteSubsetsOf(Nat) /\ T /= {}
  <2>1. \A x \in S : IsFiniteSet(0 .. x) /\ 0 .. x \in SUBSET Nat
    BY FS_Interval
  <2>2. QED
    BY <2>1, ZenonT(30) DEF FiniteSubsetsOf
<1>2. PICK t \in T : \A u \in T : ~ (<<u, t>> \in StrictSubsetOrdering(Nat))
  BY <1>1, WFMin, FS_StrictSubsetOrderingWellFounded, ZenonT(30)
<1>3. PICK x \in S : t = 0 .. x
  BY Zenon
<1>4. ASSUME NEW y \in S, y < x
      PROVE  FALSE
  <2>1. 0 .. y \in T /\ <<0 .. y, t>> \in (SUBSET Nat) \X (SUBSET Nat)
    BY <1>3
  <2>2. (0 .. y) \subseteq t /\ 0 .. y /= t
    BY <1>3, <1>4
  <2>3. <<0 .. y, t>> \in StrictSubsetOrdering(Nat)
    BY <2>1, <2>2, Zenon DEF StrictSubsetOrdering
  <2>4. QED
    BY <1>2, <2>1, <2>3, ZenonT(30)
<1>5. \A y \in S : x <= y
  BY <1>4
<1>6. QED
  BY <1>5, ZenonT(30) DEF Min

\* palloc returns a page that was not allocated, or none, and leaves the
\* containers and the page tables alone.
LEMMA PallocFresh ==
  ASSUME NEW m \in Mem
  PROVE  LET n == palloc(m)
         IN  /\ n \in Mem /\ SameMaps(m, n) /\ n.CONTAINER = m.CONTAINER
             /\ n.ret /= None => /\ n.ret \in Norm \ m.allocated
                                 /\ n.ret \in n.allocated
<1> DEFINE free == {i \in Available(m) : i > m.last}
           i == IF free = {} THEN None ELSE Min(free)
           n == [m EXCEPT !.allocated = @ \cup ({i} \ {None}), !.last = i, !.ret = i]
<1>1. free \subseteq Norm \ m.allocated /\ free \subseteq Nat
  BY ConstAssumption, ZenonT(30) DEF Available
<1>2. i = None \/ i \in Norm \ m.allocated
  BY <1>1, MinChosen, Zenon
<1>3. palloc(m) = n
  BY Zenon DEF palloc
<1> HIDE DEF i
<1>4. n \in Mem
  BY <1>2, ZenonT(30) DEF Mem
<1>5. /\ n.pdir = m.pdir /\ n.ptbl = m.ptbl /\ n.CONTAINER = m.CONTAINER
      /\ n.allocated = m.allocated \cup ({i} \ {None}) /\ n.ret = i
  BY Zenon DEF Mem
<1> QED
  BY <1>2, <1>3, <1>4, <1>5, ZenonT(30) DEF SameMaps

\* container_alloc is palloc, with the usage counted first.
LEMMA ContainerAllocFresh ==
  ASSUME NEW m \in Mem, NEW id \in Id
  PROVE  LET n == container_alloc(m, id)
         IN  /\ n \in Mem /\ SameMaps(m, n)
             /\ \A i \in Id : n.CONTAINER[i].nchildren = m.CONTAINER[i].nchildren
             /\ n.ret /= None => /\ n.ret \in Norm \ m.allocated
                                 /\ n.ret \in n.allocated
<1> DEFINE c == [m EXCEPT !.CONTAINER[id].usage = @ + 1]
<1>1. CASE m.CONTAINER[id].usage = m.CONTAINER[id].quota
  <2>1. container_alloc(m, id) = [m EXCEPT !.ret = None]
    BY <1>1, Zenon DEF container_alloc
  <2>2. QED
    BY <2>1, ZenonT(30) DEF Mem, SameMaps
<1>2. CASE m.CONTAINER[id].usage /= m.CONTAINER[id].quota
  <2>1. container_alloc(m, id) = palloc(c)
    BY <1>2, Zenon DEF container_alloc
  <2> DEFINE C == [m.CONTAINER EXCEPT ![id].usage = @ + 1]
  <2>2. C \in [Id -> Container]
    BY SMTT(30) DEF Mem, Container
  <2>3. \A i \in Id : C[i].nchildren = m.CONTAINER[i].nchildren
    BY DEF Mem, Container
  <2>4. c = [m EXCEPT !.CONTAINER = C]
    BY Zenon
  <2> HIDE DEF C, c
  <2>5. /\ c \in Mem /\ c.CONTAINER = C
        /\ c.pdir = m.pdir /\ c.ptbl = m.ptbl /\ c.allocated = m.allocated
    BY <2>2, <2>4, ZenonT(30) DEF Mem
  <2>6. QED
    BY <2>1, <2>3, <2>5, PallocFresh DEF SameMaps
<1>3. QED
  BY <1>1, <1>2, Zenon

\* container_split writes two containers and nothing else.
LEMMA ContainerSplitMem ==
  ASSUME NEW m \in Mem, NEW id \in Id, NEW quota \in Nat,
         container_child(m, id) \in Id \ {0}
  PROVE  LET n == container_split(m, id, quota)
         IN  /\ n \in Mem /\ SameMaps(m, n)
             /\ n.CONTAINER[0].nchildren =
                  m.CONTAINER[0].nchildren + (IF id = 0 THEN 1 ELSE 0)
<1> DEFINE child == container_child(m, id)
           new == [quota |-> quota, usage |-> 0, parent |-> id,
                   nchildren |-> 0, used |-> TRUE]
           old == [m.CONTAINER[id] EXCEPT !.usage = @ + quota, !.nchildren = @ + 1]
           C == [m.CONTAINER EXCEPT ![child] = new, ![id] = old]
<1>1. child \in Id \ {0} /\ child /= id
  <2>1. child = id * MAX_CHILDREN + 1 + m.CONTAINER[id].nchildren
    BY Zenon DEF container_child
  <2>2. m.CONTAINER[id].nchildren \in Nat
    BY Zenon DEF Mem, Container
  <2>3. id \in Nat /\ MAX_CHILDREN \in Nat \ {0}
    BY ConstAssumption DEF Id
  <2>4. id * MAX_CHILDREN >= id /\ id * MAX_CHILDREN \in Nat
    BY <2>3
  <2>5. QED
    BY <2>1, <2>2, <2>3, <2>4
<1>2. container_split(m, id, quota) = [m EXCEPT !.CONTAINER = C]
  BY ZenonT(30) DEF container_split
<1> HIDE DEF child
<1>3. new \in Container
  BY Zenon DEF Container
<1>4. old \in Container /\ old.nchildren = m.CONTAINER[id].nchildren + 1
  <2>1. m.CONTAINER[id] \in Container
    BY Zenon DEF Mem
  <2>2. ASSUME NEW c \in Container
        PROVE  LET d == [c EXCEPT !.usage = @ + quota, !.nchildren = @ + 1]
               IN  d \in Container /\ d.nchildren = c.nchildren + 1
    <3>1. c.usage + quota \in Nat /\ c.nchildren + 1 \in Nat
      BY DEF Container
    <3>2. \A u, k \in Nat : LET d == [c EXCEPT !.usage = u, !.nchildren = k]
                            IN  d \in Container /\ d.nchildren = k
      BY ZenonT(30) DEF Container
    <3>3. QED
      BY <3>1, <3>2, ZenonT(30)
  <2>3. QED
    BY <2>1, <2>2, ZenonT(30)
<1>5. 0 \in Id
  BY ConstAssumption DEF Id
<1> HIDE DEF new, old
<1>6. /\ C \in [Id -> Container]
      /\ C[id] = old
      /\ id /= 0 => C[0] = m.CONTAINER[0]
  BY <1>1, <1>3, <1>4, <1>5, Zenon DEF Mem
<1> HIDE DEF C
<1>7. container_split(m, id, quota) \in Mem
  BY <1>2, <1>6, ZenonT(30) DEF Mem
<1>8. m.CONTAINER[0].nchildren \in Nat
  BY <1>5, Zenon DEF Mem, Container
<1>9. /\ container_split(m, id, quota).CONTAINER = C
      /\ SameMaps(m, container_split(m, id, quota))
  BY <1>2, Zenon DEF SameMaps, Mem
<1>10. QED
  BY <1>4, <1>5, <1>6, <1>7, <1>8, <1>9

\* Freeing a page of the allocation table leaves the page tables alone.
LEMMA ContainerFreeMem ==
  ASSUME NEW m \in Mem, NEW id \in Id, NEW p
  PROVE  LET n == container_free(m, id, p)
         IN  /\ n \in Mem
             /\ n.pdir = m.pdir /\ n.ptbl = m.ptbl
             /\ n.allocated = m.allocated \ {p}
             /\ \A i \in Id : n.CONTAINER[i].nchildren = m.CONTAINER[i].nchildren
<1> DEFINE C == [m.CONTAINER EXCEPT ![id].usage = IF @ > 0 THEN @ - 1 ELSE 0]
<1>1. CASE p \notin m.allocated
  BY <1>1 DEF container_free, Mem
<1>2. CASE p \in m.allocated
  <2>1. C \in [Id -> Container]
    BY DEF Mem, Container
  <2>2. \A i \in Id : C[i].nchildren = m.CONTAINER[i].nchildren
    BY DEF Mem, Container
  <2>3. container_free(m, id, p) = pfree([m EXCEPT !.CONTAINER = C], p)
    BY <1>2, Zenon DEF container_free
  <2> HIDE DEF C
  <2>4. QED
    BY <2>1, <2>2, <2>3, ZenonT(30) DEF pfree, Mem
<1>3. QED
  BY <1>1, <1>2, Zenon
-----------------------------------------------------------------------------
(* Lemmas about the page tables.                                           *)

\* With the same page tables every address has the same page.
LEMMA SameMapsOwned ==
  ASSUME NEW m, Owned(m), NEW n, SameMaps(m, n)
  PROVE  /\ Owned(n)
         /\ \A i \in Id, v \in VA :
              get_ptbl_entry_by_va(n, i, v) = get_ptbl_entry_by_va(m, i, v)
         /\ \A p \in m.allocated : Unused(m, p) => Unused(n, p)
<1>1. \A i \in Id, v \in VA : get_ptbl_entry_by_va(n, i, v) = get_ptbl_entry_by_va(m, i, v)
  BY Zenon DEF SameMaps, get_ptbl_entry_by_va, get_pdir_entry_by_va, get_ptbl_entry
<1>2. QED
  BY <1>1 DEF Owned, SameMaps, Unused

\* The result of a call is no part of the page tables.
LEMMA RetSameMaps ==
  ASSUME NEW m \in Mem, NEW r \in Norm \cup {None, MagicNumber}
  PROVE  LET n == [m EXCEPT !.ret = r]
         IN  n \in Mem /\ SameMaps(m, n) /\ n.CONTAINER = m.CONTAINER
BY Zenon DEF Mem, SameMaps

\* A page that palloc has just returned has no use: the pages in use were
\* allocated before.
LEMMA FreshIsUnused ==
  ASSUME NEW m \in Mem, Owned(m), NEW n \in Mem, SameMaps(m, n),
         n.ret \in Norm \ m.allocated, n.ret \in n.allocated
  PROVE  Unused(n, n.ret)
<1>1. n.ret /= None
  BY ConstAssumption, Zenon DEF None
<1>2. \A i \in Id, v \in VA : get_ptbl_entry_by_va(n, i, v) = get_ptbl_entry_by_va(m, i, v)
  BY SameMapsOwned, Zenon
<1>3. QED
  BY <1>1, <1>2 DEF Owned, SameMaps, Unused

\* A new page table is empty, so no address gains or loses a page.
LEMMA AllocPtblKeeps ==
  ASSUME NEW m \in Mem, Owned(m), NEW id \in Id, NEW va \in VA,
         m.pdir[id][va[1]] = None
  PROVE  LET n == alloc_ptbl(m, id, va)
         IN  /\ n \in Mem /\ Owned(n) /\ m.allocated \subseteq n.allocated
             /\ \A i \in Id : n.CONTAINER[i].nchildren = m.CONTAINER[i].nchildren
             /\ \A i \in Id, v \in VA :
                  get_ptbl_entry_by_va(n, i, v) = get_ptbl_entry_by_va(m, i, v)
             /\ n.ret /= None => n.pdir[id][va[1]] \in Norm
             /\ \A p \in m.allocated : Unused(m, p) => Unused(n, p)
<1> DEFINE c == container_alloc(m, id)
           r == c.ret
           n == [[c EXCEPT !.pdir[id][va[1]] = r] EXCEPT !.ptbl[r] = [e \in PTE |-> None]]
           P == [m.pdir EXCEPT ![id][va[1]] = r]
           T == [m.ptbl EXCEPT ![r] = [e \in PTE |-> None]]
<1>1. /\ c \in Mem /\ SameMaps(m, c)
      /\ \A i \in Id : c.CONTAINER[i].nchildren = m.CONTAINER[i].nchildren
      /\ r /= None => r \in Norm \ m.allocated /\ r \in c.allocated
  BY ContainerAllocFresh, Zenon
<1>2. CASE r = None
  <2>1. alloc_ptbl(m, id, va) = c
    BY <1>2, ZenonT(30) DEF alloc_ptbl
  <2> HIDE DEF c
  <2>2. QED
    BY <1>1, <1>2, <2>1, SameMapsOwned, ZenonT(30) DEF SameMaps
<1>3. CASE r /= None
  <2>1. alloc_ptbl(m, id, va) = n
    BY <1>3, Zenon DEF alloc_ptbl, set_pdir_entry_by_va, set_pdir_entry
  <2>2. /\ Owned(c) /\ Unused(c, r)
        /\ r \in Norm \ m.allocated /\ r \in c.allocated
    BY <1>1, <1>3, FreshIsUnused, SameMapsOwned, Zenon
  <2> HIDE DEF c, r
  <2>3. P \in [Id -> [PDE -> Norm \cup {None}]]
    BY <2>2, Zenon DEF Mem, VA
  <2>4. T \in [Norm -> [PTE -> Norm \cup {None}]]
    BY <2>2, Zenon DEF Mem
  <2>5. n = [c EXCEPT !.pdir = P, !.ptbl = T]
    BY <1>1, ZenonT(30) DEF SameMaps
  <2> HIDE DEF n
  <2>6. /\ n \in Mem /\ n.pdir = P /\ n.ptbl = T
        /\ n.allocated = c.allocated /\ n.CONTAINER = c.CONTAINER /\ n.ret = r
    BY <1>1, <2>3, <2>4, <2>5, ZenonT(30) DEF Mem, r
  <2>7. \A i \in Id, d \in PDE :
          P[i][d] = IF i = id /\ d = va[1] THEN r ELSE m.pdir[i][d]
    BY ZenonT(30) DEF Mem, VA
  <2>8. \A q \in Norm : T[q] = IF q = r THEN [e \in PTE |-> None] ELSE m.ptbl[q]
    BY <2>2, Zenon DEF Mem
  <2> HIDE DEF P, T
  <2>9. ASSUME NEW i \in Id, NEW v \in VA
        PROVE  get_ptbl_entry_by_va(n, i, v) = get_ptbl_entry_by_va(m, i, v)
    <3>1. v[1] \in PDE /\ v[2] \in PTE
      BY Zenon DEF VA
    <3>2. CASE i = id /\ v[1] = va[1]
      BY <1>3, <2>2, <2>6, <2>7, <2>8, <3>1, <3>2, SMTT(30)
         DEF get_ptbl_entry_by_va, get_pdir_entry_by_va, get_ptbl_entry
    <3>3. CASE ~ (i = id /\ v[1] = va[1])
      <4>1. m.pdir[i][v[1]] /= None => m.pdir[i][v[1]] \in Norm \ {r}
        BY <2>2, <3>1 DEF Owned, Mem
      <4>2. QED
        BY <2>2, <2>6, <2>7, <2>8, <3>1, <3>3, <4>1, SMTT(30)
           DEF get_ptbl_entry_by_va, get_pdir_entry_by_va, get_ptbl_entry
    <3>4. QED
      BY <3>2, <3>3, Zenon
  <2>10. \A i \in Id, v \in VA : get_ptbl_entry_by_va(c, i, v) = get_ptbl_entry_by_va(m, i, v)
    BY <1>1, SameMapsOwned, Zenon
  <2>11. \A i, j \in Id, d, e \in PDE :
           n.pdir[i][d] /= None =>
             /\ n.pdir[i][d] \in n.allocated
             /\ n.pdir[i][d] = n.pdir[j][e] => i = j /\ d = e
    BY <1>1, <2>2, <2>6, <2>7, SMTT(30) DEF Owned, Unused, SameMaps
  <2>12. \A i, j \in Id, v, w \in VA :
           get_ptbl_entry_by_va(n, i, v) /= None =>
             /\ get_ptbl_entry_by_va(n, i, v) \in n.allocated
             /\ get_ptbl_entry_by_va(n, i, v) = get_ptbl_entry_by_va(n, j, w)
                  => i = j /\ v = w
             /\ get_ptbl_entry_by_va(n, i, v) /= n.pdir[j][w[1]]
    <3>1. \A w \in VA : w[1] \in PDE
      BY Zenon DEF VA
    <3>2. QED
      BY <1>1, <2>2, <2>6, <2>7, <2>9, <2>10, <3>1 DEF Owned, Unused, SameMaps
  <2>13. \A p \in m.allocated : Unused(m, p) => Unused(n, p)
    BY <1>1, <2>2, <2>6, <2>7, <2>9 DEF Unused, SameMaps
  <2>14. n.pdir[id][va[1]] \in Norm
    BY <2>2, <2>6, <2>7, Zenon DEF VA
  <2>15. QED
    BY <1>1, <2>1, <2>6, <2>9, <2>11, <2>12, <2>13, <2>14, SMTT(30) DEF Owned, SameMaps
<1>4. QED
  BY <1>2, <1>3, ZenonT(30)

\* An entry of a page table belongs to one address of one process: setting it
\* to nothing, or to a page without a use, changes that address only.
LEMMA SetPtblEntryOwned ==
  ASSUME NEW m \in Mem, Owned(m), NEW id \in Id, NEW va \in VA,
         m.pdir[id][va[1]] /= None,
         NEW p \in Norm \cup {None}, p /= None => Unused(m, p)
  PROVE  LET n == set_ptbl_entry_by_va(m, id, va, p)
         IN  /\ n \in Mem /\ Owned(n)
             /\ n.CONTAINER = m.CONTAINER /\ n.allocated = m.allocated
             /\ \A i \in Id, v \in VA :
                  get_ptbl_entry_by_va(n, i, v) =
                    IF i = id /\ v = va THEN p ELSE get_ptbl_entry_by_va(m, i, v)
<1> DEFINE q == m.pdir[id][va[1]]
           T == [m.ptbl EXCEPT ![q][va[2]] = p]
           n == [m EXCEPT !.ptbl[q][va[2]] = p]
<1>1. va[1] \in PDE /\ va[2] \in PTE /\ va = <<va[1], va[2]>>
  BY DEF VA
<1>2. q \in Norm /\ q \in m.allocated
  BY <1>1 DEF Mem, Owned
<1>3. set_ptbl_entry_by_va(m, id, va, p) = n
  BY Zenon DEF set_ptbl_entry_by_va, set_ptbl_entry
<1>4. n = [m EXCEPT !.ptbl = T]
  BY Zenon
<1> HIDE DEF q
<1>5. T \in [Norm -> [PTE -> Norm \cup {None}]]
  BY <1>1, <1>2, Zenon DEF Mem
<1>6. \A r \in Norm, e \in PTE : T[r][e] = IF r = q /\ e = va[2] THEN p ELSE m.ptbl[r][e]
  BY <1>1, <1>2, Zenon DEF Mem
<1> HIDE DEF T, n
<1>7. /\ n \in Mem /\ n.ptbl = T /\ n.pdir = m.pdir
      /\ n.CONTAINER = m.CONTAINER /\ n.allocated = m.allocated
  BY <1>4, <1>5, ZenonT(30) DEF Mem
<1>8. ASSUME NEW i \in Id, NEW v \in VA
      PROVE  get_ptbl_entry_by_va(n, i, v) =
               IF i = id /\ v = va THEN p ELSE get_ptbl_entry_by_va(m, i, v)
  <2>1. v[1] \in PDE /\ v[2] \in PTE /\ v = <<v[1], v[2]>>
    BY DEF VA
  <2>2. CASE m.pdir[i][v[1]] = None
    BY <1>7, <2>2, ZenonT(30) DEF get_ptbl_entry_by_va, get_pdir_entry_by_va
  <2>3. CASE m.pdir[i][v[1]] /= None
    <3>1. m.pdir[i][v[1]] \in Norm
      BY <2>1, <2>3 DEF Mem
    <3>2. m.pdir[i][v[1]] = q => i = id /\ v[1] = va[1]
      BY <1>1, <2>1, <2>3 DEF Owned, q
    <3>3. get_ptbl_entry_by_va(n, i, v) = T[m.pdir[i][v[1]]][v[2]]
      BY <1>7, <2>3, Zenon DEF get_ptbl_entry_by_va, get_pdir_entry_by_va, get_ptbl_entry
    <3>4. get_ptbl_entry_by_va(m, i, v) = m.ptbl[m.pdir[i][v[1]]][v[2]]
      BY <2>3, Zenon DEF get_ptbl_entry_by_va, get_pdir_entry_by_va, get_ptbl_entry
    <3>5. QED
      BY <1>1, <1>6, <2>1, <3>1, <3>2, <3>3, <3>4, ZenonT(30) DEF q
  <2>4. QED
    BY <2>2, <2>3, Zenon
<1>9. Owned(n)
  <2>1. \A i \in Id, v \in VA : v[1] \in PDE
    BY Zenon DEF VA
  <2>2. \A i, j \in Id, d, e \in PDE :
          n.pdir[i][d] /= None =>
            /\ n.pdir[i][d] \in n.allocated
            /\ n.pdir[i][d] = n.pdir[j][e] => i = j /\ d = e
    BY <1>7 DEF Owned
  <2>3. ASSUME NEW i \in Id, NEW j \in Id, NEW v \in VA, NEW w \in VA,
               get_ptbl_entry_by_va(n, i, v) /= None
        PROVE  /\ get_ptbl_entry_by_va(n, i, v) \in n.allocated
               /\ get_ptbl_entry_by_va(n, i, v) = get_ptbl_entry_by_va(n, j, w)
                    => i = j /\ v = w
               /\ get_ptbl_entry_by_va(n, i, v) /= n.pdir[j][w[1]]
    BY <1>7, <1>8, <2>1, <2>3 DEF Owned, Unused
  <2>4. QED
    BY <2>2, <2>3, Zenon DEF Owned
<1>10. QED
  BY <1>3, <1>7, <1>8, <1>9, ZenonT(30)

\* map_page puts a page without a use at one address, or gives up.
LEMMA MapPageOwned ==
  ASSUME NEW m \in Mem, Owned(m), NEW id \in Id, NEW va \in VA,
         NEW p \in Norm, Unused(m, p)
  PROVE  LET n == map_page(m, id, va, p)
         IN  /\ n \in Mem /\ Owned(n)
             /\ \A i \in Id : n.CONTAINER[i].nchildren = m.CONTAINER[i].nchildren
             /\ \A i \in Id, v \in VA : ~ (i = id /\ v = va) =>
                  get_ptbl_entry_by_va(n, i, v) = get_ptbl_entry_by_va(m, i, v)
<1>1. CASE get_pdir_entry_by_va(m, id, va) /= None
  <2> DEFINE s == set_ptbl_entry_by_va(m, id, va, p)
  <2>1. map_page(m, id, va, p) = [s EXCEPT !.ret = None]
    BY <1>1, Zenon DEF map_page
  <2>2. /\ s \in Mem /\ Owned(s) /\ s.CONTAINER = m.CONTAINER
        /\ \A i \in Id, v \in VA : ~ (i = id /\ v = va) =>
             get_ptbl_entry_by_va(s, i, v) = get_ptbl_entry_by_va(m, i, v)
    BY <1>1, SetPtblEntryOwned DEF get_pdir_entry_by_va
  <2> HIDE DEF s
  <2>3. QED
    BY <2>1, <2>2, RetSameMaps, SameMapsOwned
<1>2. CASE get_pdir_entry_by_va(m, id, va) = None
  <2> DEFINE a == alloc_ptbl(m, id, va)
             s == set_ptbl_entry_by_va(a, id, va, p)
  <2>1. p \in m.allocated /\ m.pdir[id][va[1]] = None
    BY <1>2, Zenon DEF Unused, get_pdir_entry_by_va
  <2>2. /\ a \in Mem /\ Owned(a) /\ Unused(a, p)
        /\ \A i \in Id : a.CONTAINER[i].nchildren = m.CONTAINER[i].nchildren
        /\ \A i \in Id, v \in VA :
             get_ptbl_entry_by_va(a, i, v) = get_ptbl_entry_by_va(m, i, v)
        /\ a.ret /= None => a.pdir[id][va[1]] \in Norm
    BY <2>1, AllocPtblKeeps, ZenonT(30)
  <2>3. map_page(m, id, va, p) = IF a.ret = None THEN [a EXCEPT !.ret = MagicNumber] ELSE s
    BY <1>2, Zenon DEF map_page
  <2> HIDE DEF a
  <2>4. CASE a.ret = None
    BY <2>2, <2>3, <2>4, RetSameMaps, SameMapsOwned
  <2>5. CASE a.ret /= None
    <3>1. a.pdir[id][va[1]] /= None
      BY <2>2, <2>5, ConstAssumption, Zenon DEF None
    <3>2. QED
      BY <2>2, <2>3, <2>5, <3>1, SetPtblEntryOwned, SMTT(30)
  <2>6. QED
    BY <2>4, <2>5, Zenon
<1>3. QED
  BY <1>1, <1>2, ZenonT(30)

\* alloc_page changes the page of one address, to one without another use.
LEMMA AllocPageOwned ==
  ASSUME NEW m \in Mem, Owned(m), NEW id \in Id, NEW va \in VA
  PROVE  LET n == alloc_page(m, id, va)
         IN  /\ n \in Mem /\ Owned(n)
             /\ \A i \in Id : n.CONTAINER[i].nchildren = m.CONTAINER[i].nchildren
             /\ \A i \in Id, v \in VA : ~ (i = id /\ v = va) =>
                  get_ptbl_entry_by_va(n, i, v) = get_ptbl_entry_by_va(m, i, v)
<1> DEFINE c == container_alloc(m, id)
<1>1. /\ c \in Mem /\ SameMaps(m, c)
      /\ \A i \in Id : c.CONTAINER[i].nchildren = m.CONTAINER[i].nchildren
      /\ c.ret /= None => c.ret \in Norm \ m.allocated /\ c.ret \in c.allocated
  BY ContainerAllocFresh, Zenon
<1>2. alloc_page(m, id, va) = IF c.ret = None THEN [c EXCEPT !.ret = MagicNumber]
                              ELSE map_page(c, id, va, c.ret)
  BY Zenon DEF alloc_page
<1> HIDE DEF c
<1>3. /\ Owned(c)
      /\ \A i \in Id, v \in VA : get_ptbl_entry_by_va(c, i, v) = get_ptbl_entry_by_va(m, i, v)
  BY <1>1, SameMapsOwned, ZenonT(30)
<1>4. CASE c.ret = None
  BY <1>1, <1>2, <1>3, <1>4, RetSameMaps, SameMapsOwned
<1>5. CASE c.ret /= None
  <2>1. Unused(c, c.ret) /\ c.ret \in Norm
    BY <1>1, <1>5, FreshIsUnused, ZenonT(30)
  <2>2. QED
    BY <1>1, <1>2, <1>3, <1>5, <2>1, MapPageOwned
<1>6. QED
  BY <1>4, <1>5, ZenonT(30)

\* pt_copy allocates a page where there is none, and keeps every other.
LEMMA PtCopyOwned ==
  ASSUME NEW m \in Mem, Owned(m), NEW id \in Id, NEW va \in VA
  PROVE  LET n == pt_copy(m, id, va)
         IN  /\ n \in Mem /\ Owned(n)
             /\ \A i \in Id : n.CONTAINER[i].nchildren = m.CONTAINER[i].nchildren
             /\ \A i \in Id, v \in VA :
                  get_ptbl_entry_by_va(m, i, v) /= None \/ i /= id =>
                    get_ptbl_entry_by_va(n, i, v) = get_ptbl_entry_by_va(m, i, v)
BY AllocPageOwned DEF pt_copy

\* unmap_page takes the page of one address away.
LEMMA UnmapPageOwned ==
  ASSUME NEW m \in Mem, Owned(m), NEW id \in Id, NEW va \in VA
  PROVE  LET n == unmap_page(m, id, va)
         IN  /\ n \in Mem /\ Owned(n) /\ n.CONTAINER = m.CONTAINER
             /\ \A i \in Id, v \in VA :
                  get_ptbl_entry_by_va(n, i, v) \in {get_ptbl_entry_by_va(m, i, v), None}
<1>1. CASE get_ptbl_entry_by_va(m, id, va) = None
  BY <1>1, Zenon DEF unmap_page
<1>2. CASE get_ptbl_entry_by_va(m, id, va) /= None
  <2>1. m.pdir[id][va[1]] /= None
    BY <1>2, Zenon DEF get_ptbl_entry_by_va, get_pdir_entry_by_va
  <2>2. unmap_page(m, id, va) = set_ptbl_entry_by_va(m, id, va, None)
    BY <1>2, Zenon DEF unmap_page
  <2>3. QED
    BY <2>1, <2>2, SetPtblEntryOwned
<1>3. QED
  BY <1>1, <1>2, Zenon

\* free_ptbl takes away a page table, and the pages it maps.
LEMMA FreePtblOwned ==
  ASSUME NEW m \in Mem, Owned(m), NEW id \in Id, NEW va \in VA
  PROVE  LET n == free_ptbl(m, id, va)
         IN  /\ n \in Mem /\ Owned(n)
             /\ \A i \in Id : n.CONTAINER[i].nchildren = m.CONTAINER[i].nchildren
             /\ \A i \in Id, v \in VA :
                  get_ptbl_entry_by_va(n, i, v) \in {get_ptbl_entry_by_va(m, i, v), None}
<1> DEFINE q == m.pdir[id][va[1]]
           P == [m.pdir EXCEPT ![id][va[1]] = None]
           s == [m EXCEPT !.pdir[id][va[1]] = None]
           n == container_free(s, id, q)
<1>1. free_ptbl(m, id, va) = n
  BY Zenon DEF free_ptbl, set_pdir_entry_by_va, set_pdir_entry, get_pdir_entry_by_va
<1>2. s = [m EXCEPT !.pdir = P]
  BY Zenon
<1>3. va[1] \in PDE /\ \A v \in VA : v[1] \in PDE
  BY Zenon DEF VA
<1>4. P \in [Id -> [PDE -> Norm \cup {None}]]
  BY ZenonT(30) DEF Mem
<1>5. \A i \in Id, d \in PDE :
        P[i][d] = IF i = id /\ d = va[1] THEN None ELSE m.pdir[i][d]
  BY <1>3, Zenon DEF Mem
<1> HIDE DEF s, P
<1>6. /\ s \in Mem /\ s.pdir = P /\ s.ptbl = m.ptbl
      /\ s.allocated = m.allocated /\ s.CONTAINER = m.CONTAINER
  BY <1>2, <1>4, ZenonT(30) DEF Mem
<1>7. /\ n \in Mem /\ n.pdir = P /\ n.ptbl = m.ptbl /\ n.allocated = m.allocated \ {q}
      /\ \A i \in Id : n.CONTAINER[i].nchildren = m.CONTAINER[i].nchildren
  BY <1>6, ContainerFreeMem
<1> HIDE DEF n
<1>8. ASSUME NEW i \in Id, NEW v \in VA
      PROVE  get_ptbl_entry_by_va(n, i, v) =
               IF i = id /\ v[1] = va[1] THEN None ELSE get_ptbl_entry_by_va(m, i, v)
  BY <1>3, <1>5, <1>7, ZenonT(30) DEF get_ptbl_entry_by_va, get_pdir_entry_by_va, get_ptbl_entry
<1>9. \A i, j \in Id, d, e \in PDE :
        n.pdir[i][d] /= None =>
          /\ n.pdir[i][d] \in n.allocated
          /\ n.pdir[i][d] = n.pdir[j][e] => i = j /\ d = e
  BY <1>3, <1>5, <1>7, SMTT(30) DEF Owned
<1>10. ASSUME NEW i \in Id, NEW j \in Id, NEW v \in VA, NEW w \in VA,
              get_ptbl_entry_by_va(n, i, v) /= None
       PROVE  /\ get_ptbl_entry_by_va(n, i, v) \in n.allocated
              /\ get_ptbl_entry_by_va(n, i, v) = get_ptbl_entry_by_va(n, j, w)
                   => i = j /\ v = w
              /\ get_ptbl_entry_by_va(n, i, v) /= n.pdir[j][w[1]]
  BY <1>3, <1>5, <1>7, <1>8, <1>10 DEF Owned
<1>11. QED
  BY <1>1, <1>7, <1>8, <1>9, <1>10 DEF Owned
-----------------------------------------------------------------------------
(* The invariant.                                                          *)

\* Besides PageOwnership: elf_load has pages left until it is done, and
\* kern_main creates two children of process 0, so a new container is never
\* that of process 0 or outside of the table.
MemInv ==
  /\ TypeOK
  /\ PageOwnership
  /\ load = NoLoad \/ load.vas /= <<>>
  /\ mem.CONTAINER[0].nchildren + booting = 2

\* The property that the run checks.
LEMMA OwnershipIsOwned == PageOwnership <=> Owned(mem)
BY Zenon DEF PageOwnership, Owned, Lookup

\* The initial state satisfies the invariant.
LEMMA MemInit == Init => MemInv
<1> SUFFICES ASSUME Init PROVE MemInv
  BY Zenon
<1> USE DEF Init
<1>1. 0 \in Id /\ Cardinality(Norm) \in Nat
  BY ConstAssumption, FS_CardinalityType DEF Id
<1>2. container_init \in [Id -> Container]
  BY <1>1, Zenon DEF container_init, Container
<1>3. mem \in Mem
  BY <1>2, Zenon DEF Mem, pdir_init
<1>4. NoLoad \in [pid : Id, vas : Seq(VA)]
  BY <1>1 DEF NoLoad
<1>5. TypeOK
  <2>1. work \in Workload /\ load = NoLoad /\ booting = 2 /\ panic = FALSE
    BY Zenon
  <2> HIDE DEF Init
  <2>2. booting \in 0 .. 2
    BY <2>1
  <2>3. panic \in BOOLEAN
    BY <2>1, Zenon
  <2>4. QED
    BY <1>3, <1>4, <2>1, <2>2, <2>3, ZenonT(30) DEF TypeOK
<1>6. \A i \in Id, d \in PDE : mem.pdir[i][d] = None
  BY Zenon DEF pdir_init
<1>7. \A i \in Id, v \in VA : v[1] \in PDE /\ get_ptbl_entry_by_va(mem, i, v) = None
  BY <1>6, Zenon DEF VA, get_ptbl_entry_by_va, get_pdir_entry_by_va
<1>8. PageOwnership
  BY <1>6, <1>7, OwnershipIsOwned, ZenonT(30) DEF Owned
<1>9. mem.CONTAINER[0].nchildren + booting = 2
  BY <1>1 DEF container_init
<1>10. QED
  BY <1>5, <1>8, <1>9, Zenon DEF MemInv

\* A new process has a container of its own number, from 1 upwards.
LEMMA ChildInId ==
  ASSUME MemInv, NEW id \in Id,
         \/ id = 0 /\ booting > 0
         \/ /\ SYS_NUM_IDS >= id * SYS_MAX_CHILDREN + 1 + SYS_MAX_CHILDREN
            /\ mem.CONTAINER[id].nchildren < MaxSpawn
  PROVE  container_child(mem, id) \in Id \ {0}
<1> DEFINE k == mem.CONTAINER[id].nchildren
<1>1. k \in Nat /\ booting \in Nat
  BY DEF MemInv, TypeOK, Mem, Container
<1>2. container_child(mem, id) = id * MAX_CHILDREN + 1 + k
  BY Zenon DEF container_child
<1>3. id * MAX_CHILDREN \in Nat /\ NUM_IDS \in Nat
  BY ConstAssumption, SMTT(30) DEF Id
<1>4. CASE id = 0 /\ booting > 0
  <2>1. k < 2
    BY <1>1, <1>4 DEF MemInv
  <2> HIDE DEF k
  <2>2. QED
    BY <1>1, <1>2, <1>4, <2>1, ConstAssumption DEF Id
<1>5. CASE /\ SYS_NUM_IDS >= id * SYS_MAX_CHILDREN + 1 + SYS_MAX_CHILDREN
           /\ k < MaxSpawn
  <2>1. id * MAX_CHILDREN + SYS_MAX_CHILDREN < NUM_IDS
    BY <1>5, ConstAssumption, Zenon
  <2>2. k + 1 <= SYS_MAX_CHILDREN /\ SYS_MAX_CHILDREN \in Nat
    BY <1>1, <1>5, ConstAssumption, SMTT(30)
  <2> HIDE DEF k
  <2>3. QED
    BY <1>1, <1>2, <1>3, <2>1, <2>2 DEF Id
<1>6. QED
  BY <1>4, <1>5, Zenon

\* A call that leaves the process to load, and the processes to create, alone
\* keeps the invariant when the memory it returns keeps PageOwnership.
LEMMA CallKeepsInv ==
  ASSUME MemInv, mem' \in Mem, Owned(mem)',
         \A i \in Id : mem'.CONTAINER[i].nchildren = mem.CONTAINER[i].nchildren,
         UNCHANGED <<work, load, booting>>, panic' \in BOOLEAN
  PROVE  MemInv'
<1>1. 0 \in Id
  BY ConstAssumption, SMTT(30) DEF Id
<1>2. PageOwnership'
  BY OwnershipIsOwned, Zenon DEF PageOwnership, Owned, Lookup
<1>3. TypeOK'
  BY Zenon DEF MemInv, TypeOK
<1>4. QED
  BY <1>1, <1>2, <1>3, Zenon DEF MemInv

\* Creating a process, by kern_main or by sys_spawn.
LEMMA ProcCreateKeepsInv ==
  ASSUME MemInv, NEW id \in Id, NEW quota \in Nat,
         container_child(mem, id) \in Id \ {0},
         proc_create(id, quota), UNCHANGED <<work, panic>>,
         booting' = booting - (IF id = 0 THEN 1 ELSE 0), booting' \in 0 .. 2
  PROVE  MemInv' /\ \A i \in Id, va \in VA : Lookup(i, va)' = Lookup(i, va)
<1>1. mem \in Mem /\ Owned(mem)
  BY OwnershipIsOwned, Zenon DEF MemInv, TypeOK
<1>2. /\ mem' \in Mem /\ SameMaps(mem, mem')
      /\ mem'.CONTAINER[0].nchildren =
           mem.CONTAINER[0].nchildren + (IF id = 0 THEN 1 ELSE 0)
  BY <1>1, ContainerSplitMem, Zenon DEF proc_create
<1>3. /\ Owned(mem')
      /\ \A i \in Id, v \in VA : get_ptbl_entry_by_va(mem', i, v) = get_ptbl_entry_by_va(mem, i, v)
  BY <1>1, <1>2, SameMapsOwned, ZenonT(30)
<1>4. PageOwnership'
  BY <1>3, Zenon DEF PageOwnership, Owned, Lookup
<1>5. load' \in [pid : Id, vas : Seq(VA)] /\ load'.vas /= <<>>
  BY ConstAssumption, Zenon DEF proc_create
<1>6. TypeOK'
  BY <1>2, <1>5, Zenon DEF MemInv, TypeOK
<1>7. mem'.CONTAINER[0].nchildren + booting' = 2
  <2>1. 0 \in Id
    BY ConstAssumption DEF Id
  <2>2. mem.CONTAINER[0].nchildren \in Nat
    BY <1>1, <2>1, Zenon DEF Mem, Container
  <2>3. booting \in Nat
    BY DEF MemInv, TypeOK
  <2>4. QED
    BY <1>2, <2>2, <2>3 DEF MemInv
<1>8. QED
  BY <1>3, <1>4, <1>5, <1>6, <1>7, Zenon DEF MemInv, Lookup

\* What a step does to the mapping of every address, besides keeping MemInv.
Persists ==
  \A id \in Id, va \in VA :
    load.pid /= id /\ Lookup(id, va) /= None =>
      Lookup(id, va)' \in {Lookup(id, va)} \cup (IF work = "layer" THEN {None} ELSE {})

\* Every step keeps the invariant, and the pages that are mapped.
LEMMA MemNext == MemInv /\ [Next]_vars => MemInv' /\ Persists
<1> SUFFICES ASSUME MemInv, [Next]_vars
             PROVE  MemInv' /\ Persists
  BY Zenon
<1>1. /\ mem \in Mem /\ Owned(mem) /\ load \in [pid : Id, vas : Seq(VA)]
      /\ booting \in 0 .. 2 /\ panic \in BOOLEAN
  BY OwnershipIsOwned, Zenon DEF MemInv, TypeOK
<1>2. 0 \in Id
  BY ConstAssumption DEF Id
<1>3. CASE kern_main /\ UNCHANGED work
  <2>1. container_child(mem, 0) \in Id \ {0}
    BY <1>2, <1>3, ChildInId, Zenon DEF kern_main
  <2>2. booting' = booting - 1 /\ booting' \in 0 .. 2
    BY <1>1, <1>3 DEF kern_main
  <2>3. proc_create(0, BootQuota) /\ BootQuota \in Nat /\ UNCHANGED panic
    BY <1>3, ConstAssumption, Zenon DEF kern_main
  <2>4. QED
    BY <1>2, <1>3, <2>1, <2>2, <2>3, ProcCreateKeepsInv, ZenonT(30) DEF Persists
<1>4. ASSUME NEW id \in Live, NEW quota \in Quotas, sys_spawn(id, quota), UNCHANGED work
      PROVE  MemInv' /\ Persists
  <2>1. id \in Id /\ id /= 0 /\ quota \in Nat
    BY ConstAssumption, Zenon DEF Live
  <2>2. container_child(mem, id) \in Id \ {0}
    BY <1>4, <2>1, ChildInId, Zenon DEF sys_spawn
  <2>3. booting' = booting - 0 /\ booting' \in 0 .. 2
    BY <1>1, <1>4 DEF sys_spawn
  <2>4. proc_create(id, quota) /\ UNCHANGED panic
    BY <1>4, Zenon DEF sys_spawn
  <2>5. QED
    BY <1>4, <2>1, <2>2, <2>3, <2>4, ProcCreateKeepsInv, Zenon DEF Persists
<1>5. CASE elf_load /\ UNCHANGED work
  <2> DEFINE id == load.pid
             va == Head(load.vas)
             a == alloc_page(mem, id, va)
  <2>1. id \in Id /\ va \in VA /\ load.vas /= <<>> /\ Tail(load.vas) \in Seq(VA)
    <3>1. load.vas /= <<>> /\ load.vas \in Seq(VA) /\ load.pid \in Id
      BY <1>1, <1>5, Zenon DEF elf_load, MemInv
    <3>2. QED
      BY <3>1
  <2>2. /\ a \in Mem /\ Owned(a)
        /\ \A i \in Id : a.CONTAINER[i].nchildren = mem.CONTAINER[i].nchildren
        /\ \A i \in Id, v \in VA : i /= id =>
             get_ptbl_entry_by_va(a, i, v) = get_ptbl_entry_by_va(mem, i, v)
    BY <1>1, <2>1, AllocPageOwned
  <2>3. mem' = pt_copy(a, id, va)
    BY <1>5, Zenon DEF elf_load
  <2> HIDE DEF a, va
  <2>4. /\ mem' \in Mem /\ Owned(mem')
        /\ \A i \in Id : mem'.CONTAINER[i].nchildren = mem.CONTAINER[i].nchildren
        /\ \A i \in Id, v \in VA : i /= id =>
             get_ptbl_entry_by_va(mem', i, v) = get_ptbl_entry_by_va(mem, i, v)
    BY <2>1, <2>2, <2>3, PtCopyOwned, SMTT(30)
  <2>5. PageOwnership'
    BY <2>4, Zenon DEF PageOwnership, Owned, Lookup
  <2>6. /\ load' \in [pid : Id, vas : Seq(VA)]
        /\ load' = NoLoad \/ load'.vas /= <<>>
    BY <1>1, <1>2, <1>5, <2>1, ZenonT(30) DEF elf_load, NoLoad
  <2>7. UNCHANGED <<work, booting, panic>>
    BY <1>5, Zenon DEF elf_load
  <2>8. MemInv'
    BY <1>2, <2>4, <2>5, <2>6, <2>7, Zenon DEF MemInv, TypeOK
  <2>9. Persists
    BY <2>4, Zenon DEF Persists, Lookup
  <2>10. QED
    BY <2>8, <2>9, Zenon
<1>6. ASSUME NEW id \in Live, NEW va \in VA, UNCHANGED work,
             pgflt_handler(id, va) \/ copy(id, va) \/ layer_call(id, va)
      PROVE  MemInv' /\ Persists
  <2>1. id \in Id
    BY Zenon DEF Live
  <2>2. UNCHANGED <<load, booting>>
    BY <1>6, Zenon DEF pgflt_handler, copy, layer_call
  <2>3. panic' \in BOOLEAN
    BY <1>1, <1>6, Zenon DEF pgflt_handler, copy, layer_call
  <2>4. CASE UNCHANGED mem
    <3>1. Owned(mem)' /\ \A i \in Id, v \in VA : Lookup(i, v)' = Lookup(i, v)
      BY <1>1, <2>4, Zenon DEF Lookup
    <3>2. QED
      BY <1>1, <1>6, <2>2, <2>3, <2>4, <3>1, CallKeepsInv, ZenonT(30) DEF Persists
  <2>5. CASE mem' = alloc_page(mem, id, va) /\ Lookup(id, va) = None
    <3>1. /\ mem' \in Mem /\ Owned(mem')
          /\ \A i \in Id : mem'.CONTAINER[i].nchildren = mem.CONTAINER[i].nchildren
          /\ \A i \in Id, v \in VA : ~ (i = id /\ v = va) => Lookup(i, v)' = Lookup(i, v)
      BY <1>1, <2>1, <2>5, AllocPageOwned, SMTT(30) DEF Lookup
    <3>2. Persists
      BY <2>5, <3>1, Zenon DEF Persists
    <3>3. QED
      BY <1>6, <2>2, <2>3, <3>1, <3>2, CallKeepsInv, ZenonT(30)
  <2>6. CASE work = "layer" /\ mem' = free_ptbl(mem, id, va)
    <3>1. /\ mem' \in Mem /\ Owned(mem')
          /\ \A i \in Id : mem'.CONTAINER[i].nchildren = mem.CONTAINER[i].nchildren
          /\ \A i \in Id, v \in VA : Lookup(i, v)' \in {Lookup(i, v), None}
      BY <1>1, <2>1, <2>6, FreePtblOwned, ZenonT(30) DEF Lookup
    <3>2. Persists
      BY <2>6, <3>1, Zenon DEF Persists
    <3>3. QED
      BY <1>6, <2>2, <2>3, <3>1, <3>2, CallKeepsInv, Zenon
  <2>7. CASE work = "layer" /\ mem' = unmap_page(mem, id, va)
    <3>1. /\ mem' \in Mem /\ Owned(mem') /\ mem'.CONTAINER = mem.CONTAINER
          /\ \A i \in Id, v \in VA : Lookup(i, v)' \in {Lookup(i, v), None}
      BY <1>1, <2>1, <2>7, UnmapPageOwned, Zenon DEF Lookup
    <3>2. Persists
      BY <2>7, <3>1, Zenon DEF Persists
    <3>3. QED
      BY <1>6, <2>2, <2>3, <3>1, <3>2, CallKeepsInv, Zenon
  <2>8. QED
    BY <1>6, <2>4, <2>5, <2>6, <2>7, ZenonT(30) DEF pgflt_handler, copy, layer_call, pt_copy, Lookup
<1>7. CASE UNCHANGED vars
  <2>1. Owned(mem)' /\ \A i \in Id, v \in VA : Lookup(i, v)' = Lookup(i, v)
    BY <1>1, <1>7, Zenon DEF vars, Lookup
  <2>2. QED
    BY <1>1, <1>7, <2>1, CallKeepsInv, Zenon DEF Persists, vars
<1>8. QED
  BY <1>3, <1>4, <1>5, <1>6, <1>7, Zenon DEF Next, Halted

\* TypeOK, PageOwnership and what they rest on hold in every reachable state,
\* for every number of processes, every set of usable pages, every quota and
\* every program.
THEOREM MemInvariant == Spec => []MemInv
<1>1. MemInv /\ [Next]_vars => MemInv'
  BY MemNext, Zenon
<1>2. QED
  BY <1>1, MemInit, PTL DEF Spec

\* A page is never the page table of two entries, never mapped at two
\* addresses, never both, and never free while it is in use: palloc, the
\* containers, map_page, alloc_page, free_ptbl and unmap_page together.
THEOREM OnePageOneUse == Spec => []PageOwnership
<1>1. MemInv => PageOwnership
  BY Zenon DEF MemInv
<1>2. QED
  BY <1>1, MemInvariant, PTL

\* No step but the layer's own functions takes a page away from the process
\* that has it mapped, or puts another in its place.
THEOREM PagesStay == Spec => MappingsPersist
<1>1. MemInv /\ [Next]_vars => [Persists]_vars
  BY MemNext, Zenon
<1>2. QED
  BY <1>1, MemInvariant, PTL DEF Spec, MappingsPersist, Persists
=============================================================================
