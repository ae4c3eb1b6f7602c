------------------------------- MODULE Buddy --------------------------------
(***************************************************************************)
(* The buddy allocator of kern/pmm/pmm.c, with a client that keeps to      *)
(* pmm.h: it allocates blocks of 2^order pages and frees them with the     *)
(* order it asked for.                                                     *)
(*                                                                         *)
(* A page is its index in page_array.  A free list is the sequence of the  *)
(* first pages of its blocks.  free_pages takes the buddy out of its list  *)
(* without looking for it there; doing so for a page that is in no list    *)
(* corrupts the links, which the model records and does not go beyond.     *)
(*                                                                         *)
(* An operator whose name ends in _bug is a faulty variant of the one      *)
(* after it, which the specification does not use: put in its place it     *)
(* must break the property its comment names.                              *)
(***************************************************************************)
EXTENDS Naturals, Sequences, FiniteSets, FiniteSetsExt, SequencesExt

CONSTANTS
  MAX_ORDER,
  num_pages,
  BaseAligned,   \* whether mem_base is a multiple of SUPER_PAGE_SIZE
  MetaPages      \* pages that the array page_array takes

VARIABLES
  pmm,    \* page_array and free_lists
  held    \* the blocks of the client: <<first page, order>>

vars == <<pmm, held>>

Page == 0 .. num_pages - 1
Order == 0 .. MAX_ORDER
NULL == num_pages

\* The pages of a block.
Span(i, order) == i .. i + 2^order - 1

TypeOK ==
  /\ pmm \in [allocated  : [Page -> BOOLEAN],
              order      : [Page -> Order],
              free_lists : [Order -> Seq(Page)],
              corrupt    : BOOLEAN,
              ret        : Page \cup {NULL}]
  /\ held \subseteq Page \X Order
-----------------------------------------------------------------------------
\* Blocks of the largest order, the last one first; what is left of memory
\* is not used.
pmm_init ==
  LET heads == {i \in Page : i % 2^MAX_ORDER = 0 /\ i + 2^MAX_ORDER <= num_pages}
  IN  [allocated  |-> [i \in Page |-> FALSE],
       order      |-> [i \in Page |-> IF i \in heads THEN MAX_ORDER ELSE 0],
       free_lists |-> [o \in Order |->
                         IF o = MAX_ORDER
                         THEN SetToSortSeq(heads, LAMBDA i, j : i > j) ELSE <<>>],
       corrupt    |-> FALSE,
       ret        |-> NULL]

\* base_idx ^ (1 << order)
Buddy(base_idx, order) ==
  IF (base_idx \div 2^order) % 2 = 0 THEN base_idx + 2^order
                                     ELSE base_idx - 2^order

\* Brk!LinksIntact: the order of the buddy is not looked at.
Mergeable_bug(m, i, o) ==
  LET b == Buddy(i, o) IN b \in Page /\ ~ m.allocated[b]

\* The condition under which the loop of free_pages goes on.
Mergeable(m, i, o) ==
  LET b == Buddy(i, o)
  IN  b \in Page /\ ~ m.allocated[b] /\ m.order[b] = o

\* Every buddy is that of base_idx, whatever the loop has merged: none of
\* them is a page whose entry the loop has changed, so the loop ends at the
\* first order whose buddy cannot be merged.  The lowest page of a merged
\* block gets its order.
free_pages(m, i, order) ==
  IF i \notin Page \/ order > MAX_ORDER THEN m
  ELSE IF ~ m.allocated[i] THEN m
  ELSE
    LET n == [m EXCEPT !.allocated[i] = FALSE]
        end == Min({o \in order .. MAX_ORDER :
                      o = MAX_ORDER \/ ~ Mergeable(n, i, o)})
        Low(o) == Min({i} \cup {Buddy(i, k) : k \in order .. o - 1})
        merged == order .. end - 1
    IN  [n EXCEPT
          !.order = [p \in Page |->
                       LET os == {o \in order + 1 .. end : Low(o) = p}
                       IN  IF os = {} THEN @[p] ELSE Max(os)],
          !.free_lists =
             [o \in Order |->
                LET rest == IF o \in merged THEN Remove(@[o], Buddy(i, o)) ELSE @[o]
                IN  IF o = end THEN <<Low(end)>> \o rest ELSE rest],
          !.corrupt = @ \/ \E o \in merged : Buddy(i, o) \notin ToSet(n.free_lists[o])]


\* The first block of the smallest order that has one, split down to the
\* order asked for.
alloc_block(m, order) ==
  LET from == {o \in order .. MAX_ORDER : m.free_lists[o] /= <<>>}
      curr == Min(from)
      i    == Head(m.free_lists[curr])
  IN  IF from = {} THEN [m EXCEPT !.ret = NULL]
      ELSE [m EXCEPT
             !.allocated[i] = TRUE,
             !.order = [p \in Page |->
                          IF p = i THEN order
                          ELSE LET os == {o \in order .. curr - 1 : p = i + 2^o}
                               IN  IF os = {} THEN @[p] ELSE Min(os)],
             !.free_lists =
                [o \in Order |->
                   IF o = curr THEN Tail(@[o])
                   ELSE IF o \in order .. curr - 1 THEN <<i + 2^o>> \o @[o]
                   ELSE @[o]],
             !.ret = i]

alloc_pages(m, order, superpage) ==
  LET n == alloc_block(m, order)
  IN  IF order > MAX_ORDER THEN [m EXCEPT !.ret = NULL]
      ELSE IF n.ret /= NULL /\ superpage /\ (order /= MAX_ORDER \/ ~BaseAligned)
      THEN [free_pages(n, n.ret, order) EXCEPT !.ret = NULL]
      ELSE n
-----------------------------------------------------------------------------
alloc(order, superpage) ==
  /\ pmm' = alloc_pages(pmm, order, superpage)
  /\ held' = held \cup (IF pmm'.ret = NULL THEN {} ELSE {<<pmm'.ret, order>>})

free(block) ==
  /\ pmm' = free_pages(pmm, block[1], block[2])
  /\ held' = held \ {block}

Init == pmm = pmm_init /\ held = {}

Next ==
  /\ ~ pmm.corrupt
  /\ \/ \E order \in 0 .. MAX_ORDER + 1, superpage \in BOOLEAN : alloc(order, superpage)
     \/ \E block \in held : free(block)

Spec == Init /\ [][Next]_vars
-----------------------------------------------------------------------------
(* Properties.                                                             *)

FreeBlocks ==
  {<<i, o>> \in Page \X Order : i \in ToSet(pmm.free_lists[o])}

-----------------------------------------------------------------------------
(* What the code does not guarantee: TLC refutes it.                       *)

\* "Coalesce with buddies": two free buddies do not stay apart.
Coalesced ==
  \A b \in FreeBlocks :
    b[2] < MAX_ORDER => <<Buddy(b[1], b[2]), b[2]>> \notin FreeBlocks

\* "Use start of memory for metadata": the pages with page_array are not
\* handed out.
MetadataReserved ==
  \A b \in held : Span(b[1], b[2]) \cap (0 .. MetaPages - 1) = {}
=============================================================================
