-------------------------------- MODULE Brk ---------------------------------
(***************************************************************************)
(* The heaps of the processes: sys_brk (kern/trap/TSyscall/TSyscall.c) on  *)
(* top of the buddy allocator, which serves the kernel too.  Addresses are *)
(* counted from heap_start, in parts of a page: PAGE_SIZE of them make a   *)
(* page, and a break may lie inside one.  The call runs with interrupts    *)
(* off and does not sleep.                                                 *)
(*                                                                         *)
(* alloc_super_page, map_super_page, lookup_phys_addr and ilog2 are not in *)
(* the kernel and are taken to do what sys_brk uses them for.  map_page    *)
(* (kern/vmm/MPTKern) maps nothing when a page table is missing and cannot *)
(* be had, and returns an unsigned number: the test for its failure never  *)
(* succeeds, and sys_brk moves the break all the same.  sys_brk passes it  *)
(* an address, a physical address and a page directory where it declares a *)
(* process, an address and a page; it is taken to map the page at the      *)
(* address, which is what sys_brk means.                                   *)
(*                                                                         *)
(* An operator whose name ends in _bug is a faulty variant of the one      *)
(* after it, which the specification does not use: put in its place it     *)
(* must break the property its comment names.                              *)
(***************************************************************************)
EXTENDS Integers, Sequences, FiniteSets, FiniteSetsExt, SequencesExt

CONSTANTS
  Proc,
  MAX_ORDER, num_pages, BaseAligned, MetaPages,
  PAGE_SIZE,    \* parts of a page that addresses tell apart
  MaxBrk,       \* bound, of each workload: pages of a heap
  Growth,       \* by how many pages a call makes the heap larger
  Flags,        \* the sets of flags that calls pass
  MaxCalls,     \* bound, of the workloads "bytes" and "any": calls
  MaxFail,      \* bound: calls in which map_page fails
  Workload      \* who uses the allocator: the "kernel"; heaps that grow by
                \* single "pages", by "bytes" up to a page, or by "any" number
                \* of pages in Growth

BRK_CONTIGUOUS == 1
BRK_SUPERPAGE == 2
Unmapped == -1

ASSUME BrkAssumption ==
  /\ {MAX_ORDER, num_pages, MetaPages} \subseteq Nat /\ BaseAligned \in BOOLEAN
  /\ PAGE_SIZE \in Nat \ {0}
  /\ \A w \in Workload : MaxBrk[w] \in Nat /\ MaxCalls[w] \in Nat
  /\ MaxFail \in Nat /\ Growth \subseteq Nat \ {0}
  /\ Flags \subseteq SUBSET {BRK_CONTIGUOUS, BRK_SUPERPAGE}
  /\ Workload \subseteq {"kernel", "pages", "bytes", "any"}

VARIABLES
  work,     \* the workload, which never changes
  pmm,      \* the allocator
  held,     \* the blocks of the kernel
  calls,    \* calls that heaps may still make, except page by page
  brk,      \* of each process: curproc->brk
  pgd,      \* of each process: the page at each page of its heap
  ptbl,     \* of each process: the page tables of its heap that are there
  lost,     \* history: pages that were allocated and are mapped no more, or
            \* never were
  mapfail   \* history: the number of calls in which map_page failed

vars == <<work, calls, pmm, held, brk, pgd, ptbl, lost, mapfail>>

B == INSTANCE Buddy

\* The pages of a heap.
Addr == 0 .. Max({MaxBrk[w] : w \in Workload}) - 1

PageOf(va) == va \div PAGE_SIZE

\* pages_needed, which is also how often a loop from one address to another
\* in steps of a page goes round.
Pages(from, to) == (to - from + PAGE_SIZE - 1) \div PAGE_SIZE

\* A page table maps as many pages as a superpage has.
TableOf(n) == n \div 2^MAX_ORDER

-----------------------------------------------------------------------------
alloc_super_page(m) == B!alloc_pages(m, MAX_ORDER, TRUE)

\* The smallest order whose blocks have n pages.
OrderFor(n) == Min({o \in 0 .. n : 2^o >= n})

\* The loop over map_page: consecutive pages from i on, which are in a block
\* of this order, at the pages of the heap from PageOf(from) on.
map_pages(p, from, to, i, order) ==
  LET heap    == PageOf(from) .. PageOf(from) + Pages(from, to) - 1
      missing == {TableOf(n) : n \in heap} \ ptbl[p]
      At(n)   == i + (n - PageOf(from))
  IN  \E got \in SUBSET missing :
        LET done == {n \in heap : TableOf(n) \in ptbl[p] \cup got}
        IN  /\ got = missing \/ mapfail < MaxFail
            /\ ptbl' = [ptbl EXCEPT ![p] = @ \cup got]
            /\ pgd' = [pgd EXCEPT ![p] =
                         [n \in Addr |-> IF n \in done THEN At(n) ELSE @[n]]]
            /\ mapfail' = IF got = missing THEN mapfail ELSE mapfail + 1
            /\ lost' = lost \cup (B!Span(i, order) \ {At(n) : n \in done})
                            \cup ({pgd[p][n] : n \in done} \ {Unmapped})

\* The directory entry of an address maps a block of the largest order.
map_super_page(p, va, i) ==
  LET t == TableOf(PageOf(va))
  IN  /\ ptbl' = [ptbl EXCEPT ![p] = @ \cup {t}]
      /\ pgd' = [pgd EXCEPT ![p] =
                   [n \in Addr |-> IF TableOf(n) = t THEN i + (n % 2^MAX_ORDER) ELSE @[n]]]
      /\ lost' = lost \cup ({pgd[p][n] : n \in {n \in Addr : TableOf(n) = t}} \ {Unmapped})

\* A call that cannot have what it asks for changes no address.
fail(m) == pmm' = m /\ UNCHANGED <<brk, pgd, ptbl, lost, mapfail>>

brk_super(p, addr) ==
  LET m == alloc_super_page(pmm)
  IN  IF Pages(brk[p], addr) /= 2^MAX_ORDER \/ addr % (PAGE_SIZE * 2^MAX_ORDER) /= 0
      THEN fail(pmm)
      ELSE IF m.ret = B!NULL THEN fail(m)
      ELSE \/ /\ map_super_page(p, brk[p], m.ret)
              /\ pmm' = m
              /\ brk' = [brk EXCEPT ![p] = addr]
              /\ UNCHANGED mapfail
           \/ fail(B!free_pages(m, m.ret, MAX_ORDER))

\* Without BRK_CONTIGUOUS one page is allocated, however many are mapped.
brk_pages(p, addr, flags) ==
  LET need  == Pages(brk[p], addr)
      order == IF BRK_CONTIGUOUS \in flags /\ need > 1 THEN OrderFor(need) ELSE 0
      m     == B!alloc_pages(pmm, order, FALSE)
  IN  IF m.ret = B!NULL THEN fail(m)
      ELSE /\ pmm' = m
           /\ map_pages(p, brk[p], addr, m.ret, order)
           /\ brk' = [brk EXCEPT ![p] = addr]

\* Upwards from the page that the new break is in; a page is freed as a block
\* of order 0.
brk_shrink(p, addr) ==
  LET heap == [k \in 1 .. Pages(addr, brk[p]) |-> PageOf(addr) + k - 1]
      free(m, n) == IF pgd[p][n] = Unmapped THEN m
                    ELSE B!free_pages(m, pgd[p][n], 0)
  IN  /\ pmm' = FoldLeft(free, pmm, heap)
      /\ pgd' = [pgd EXCEPT ![p] = [n \in Addr |->
                                      IF n \in Range(heap) THEN Unmapped ELSE @[n]]]
      /\ brk' = [brk EXCEPT ![p] = addr]
      /\ UNCHANGED <<ptbl, lost, mapfail>>

sys_brk(p, addr, flags) ==
  \/ addr > brk[p] /\ BRK_SUPERPAGE \in flags /\ brk_super(p, addr)
  \/ addr > brk[p] /\ BRK_SUPERPAGE \notin flags /\ brk_pages(p, addr, flags)
  \/ addr < brk[p] /\ brk_shrink(p, addr)

Init ==
  /\ work \in Workload
  /\ calls = MaxCalls[work]
  /\ B!Init
  /\ brk = [p \in Proc |-> 0]
  /\ pgd = [p \in Proc |-> [n \in Addr |-> Unmapped]]
  /\ ptbl = [p \in Proc |-> {}]
  /\ lost = {}
  /\ mapfail = 0

\* What a damaged list leads to is not followed, nor what comes after the
\* last call.
Stopped == (pmm.corrupt \/ calls = 0) /\ UNCHANGED vars

\* The breaks that a process of the workload asks for.
Asked(p) ==
  LET part == IF work = "bytes" THEN 1 ELSE PAGE_SIZE
      more == CASE work = "any" -> {n * PAGE_SIZE : n \in Growth}
                [] OTHER -> {n \in 1 .. PAGE_SIZE : n % part = 0}
  IN  {addr \in 0 .. MaxBrk[work] * PAGE_SIZE :
         addr % part = 0 /\ (addr < brk[p] \/ addr - brk[p] \in more)}

Next ==
  \/ /\ work /= "kernel" /\ ~ pmm.corrupt
     /\ \E p \in Proc, flags \in Flags :
          \E addr \in Asked(p) : sys_brk(p, addr, flags)
     /\ calls > 0 /\ calls' = IF work = "pages" THEN calls ELSE calls - 1
     /\ UNCHANGED <<work, held>>
  \/ /\ work = "kernel" /\ B!Next
     /\ UNCHANGED <<work, calls, brk, pgd, ptbl, lost, mapfail>>
  \/ Stopped

Spec == Init /\ [][Next]_vars
-----------------------------------------------------------------------------
(* Properties.                                                             *)

HeapMapped ==
  \A p \in Proc, n \in Addr : pgd[p][n] /= Unmapped <=> n * PAGE_SIZE < brk[p]

\* free_pages takes a page out of a free list only if it is in that list, as
\* long as blocks are freed with the order they were asked for.
LinksIntact == work /= "any" => ~ pmm.corrupt

=============================================================================
