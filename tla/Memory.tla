------------------------------- MODULE Memory -------------------------------
(***************************************************************************)
(* Physical pages, memory quotas and address spaces: the allocation table  *)
(* and palloc (kern/pmm/MATIntro, MATOp), the containers (MContainer), the *)
(* two-level page tables (kern/vmm), and the calls that use them: page     *)
(* faults (trap/TTrapHandler), copies to and from user memory              *)
(* (lib/pmap.c), and the creation of a process (sys_spawn, proc_create,    *)
(* thread_spawn, elf_load).                                                *)
(*                                                                         *)
(* All of it runs with interrupts off and never sleeps, so a handler is    *)
(* one step; only elf_load, a loop over the pages of the program, takes a  *)
(* step for each page, and nothing else runs meanwhile.  A virtual address *)
(* is a pair of indexes <<pde, pte>> in the user's part of the address     *)
(* space; the kernel's part is the same identity map everywhere and is     *)
(* left out, as are the permissions of a page.                             *)
(*                                                                         *)
(* MAX_CHILDREN and NUM_IDS have one value in lib/x86.h, which             *)
(* container_split uses, and another in trap/TSyscall, where sys_spawn     *)
(* makes its checks: SYS_MAX_CHILDREN and SYS_NUM_IDS.                     *)
(*                                                                         *)
(* An operator whose name ends in _bug is a faulty variant of the one      *)
(* after it, which the specification does not use: put in its place it     *)
(* must break the property its comment names.                              *)
(***************************************************************************)
EXTENDS Naturals, Sequences, FiniteSets, FiniteSetsExt

CONSTANTS
  NUM_IDS, MAX_CHILDREN,
  SYS_NUM_IDS, SYS_MAX_CHILDREN,
  Norm,            \* the pages that pmem_init finds usable
  KERN_LOW,        \* what last_palloc_index starts from
  PDE, PTE,        \* indexes of page directories and page tables
  ElfPages,        \* the pages of a program, in the order of its segments
  BootQuota,       \* the quota of the processes that kern_main creates
  Quotas,          \* the quotas that sys_spawn is called with
  MaxSpawn,        \* bound: children of a process
  MaxUsage,        \* bound: usage of a process that copies
  Workload         \* what the processes do besides faulting and copying:
                   \* "spawn" others, or call the "layer" of page tables

Id == 0 .. NUM_IDS - 1
VA == PDE \X PTE
None == 0          \* an empty entry; the page palloc returns when it fails
MagicNumber == 1048577

ASSUME ConstAssumption ==
  /\ {NUM_IDS, MAX_CHILDREN, SYS_NUM_IDS, SYS_MAX_CHILDREN} \subseteq Nat \ {0}
  /\ Norm \subseteq Nat \ {0} /\ MagicNumber \notin Norm /\ IsFiniteSet(Norm)
  /\ KERN_LOW \in Nat /\ BootQuota \in Nat /\ Quotas \subseteq Nat
  /\ ElfPages \in Seq(VA) /\ ElfPages /= <<>>
  /\ MaxSpawn \in Nat /\ MaxSpawn <= SYS_MAX_CHILDREN
  /\ \A id \in Id :
       SYS_NUM_IDS >= id * SYS_MAX_CHILDREN + 1 + SYS_MAX_CHILDREN
         => id * MAX_CHILDREN + SYS_MAX_CHILDREN < NUM_IDS
  /\ NUM_IDS > 2 /\ MaxUsage \in Nat
  /\ Workload \subseteq {"spawn", "layer"}

VARIABLES
  work,      \* the workload, which never changes
  mem,       \* the memory, see Memory below
  load,      \* the process that elf_load fills, and the pages it has left
  booting,   \* processes that kern_main has still to create
  panic      \* KERN_PANIC was called

vars == <<work, mem, load, booting, panic>>

Container == [quota : Nat, usage : Nat, parent : Id, nchildren : Nat,
              used : BOOLEAN]

\* CONTAINER, the allocated bits of AT, last_palloc_index, PDirPool, the
\* physical pages read as page tables, and the result of the last call.
Mem == [CONTAINER : [Id -> Container],
        allocated : SUBSET Norm,
        last      : Norm \cup {None, KERN_LOW},
        pdir      : [Id -> [PDE -> Norm \cup {None}]],
        ptbl      : [Norm -> [PTE -> Norm \cup {None}]],
        ret       : Norm \cup {None, MagicNumber}]

NoLoad == [pid |-> 0, vas |-> <<>>]

TypeOK ==
  /\ work \in Workload
  /\ mem \in Mem
  /\ load \in [pid : Id, vas : Seq(VA)]
  /\ booting \in 0 .. 2
  /\ panic \in BOOLEAN
-----------------------------------------------------------------------------
(* The allocation table and the containers.                                *)

\* at_is_norm and not at_is_allocated.
Available(m) == Norm \ m.allocated

\* PageOwnership: the page is not marked as allocated.
palloc_bug2(m) ==
  LET free == {i \in Available(m) : i > m.last}
      i    == IF free = {} THEN None ELSE Min(free)
  IN  [m EXCEPT !.last = i, !.ret = i]

\* palloc searches upwards from the last page it returned, and does not go
\* round: it fails at the end of memory, and starts at 0 the next time.
palloc(m) ==
  LET free == {i \in Available(m) : i > m.last}
      i    == IF free = {} THEN None ELSE Min(free)
  IN  [m EXCEPT !.allocated = @ \cup ({i} \ {None}),
                !.last = i,
                !.ret = i]

pfree(m, i) == [m EXCEPT !.allocated = @ \ {i}]

\* The usage is counted before palloc, and stays when it fails.
container_alloc(m, id) ==
  IF m.CONTAINER[id].usage = m.CONTAINER[id].quota
  THEN [m EXCEPT !.ret = None]
  ELSE palloc([m EXCEPT !.CONTAINER[id].usage = @ + 1])

container_free(m, id, i) ==
  IF i \in m.allocated
  THEN pfree([m EXCEPT !.CONTAINER[id].usage = IF @ > 0 THEN @ - 1 ELSE 0], i)
  ELSE m

container_child(m, id) == id * MAX_CHILDREN + 1 + m.CONTAINER[id].nchildren

\* UsageCovers: the child's quota is not charged to its parent.
container_split_bug(m, id, quota) ==
  [m EXCEPT !.CONTAINER[container_child(m, id)] =
              [quota |-> quota, usage |-> 0, parent |-> id,
               nchildren |-> 0, used |-> TRUE],
            !.CONTAINER[id].nchildren = @ + 1]

container_split(m, id, quota) ==
  LET child  == [quota |-> quota, usage |-> 0, parent |-> id,
                 nchildren |-> 0, used |-> TRUE]
      parent == [m.CONTAINER[id] EXCEPT !.usage = @ + quota, !.nchildren = @ + 1]
  IN  [m EXCEPT !.CONTAINER[container_child(m, id)] = child,
                !.CONTAINER[id] = parent]
-----------------------------------------------------------------------------
(* The page tables.                                                        *)

\* An entry is set to None to remove it.
set_pdir_entry(m, id, d, i) == [m EXCEPT !.pdir[id][d] = i]
get_ptbl_entry(m, id, d, e) == m.ptbl[m.pdir[id][d]][e]
set_ptbl_entry(m, id, d, e, i) == [m EXCEPT !.ptbl[m.pdir[id][d]][e] = i]

get_pdir_entry_by_va(m, id, va) == m.pdir[id][va[1]]
set_pdir_entry_by_va(m, id, va, i) == set_pdir_entry(m, id, va[1], i)

get_ptbl_entry_by_va(m, id, va) ==
  IF get_pdir_entry_by_va(m, id, va) = None THEN None
  ELSE get_ptbl_entry(m, id, va[1], va[2])

set_ptbl_entry_by_va(m, id, va, i) == set_ptbl_entry(m, id, va[1], va[2], i)

alloc_ptbl(m, id, va) ==
  LET n == container_alloc(m, id)
  IN  IF n.ret = None THEN n
      ELSE [set_pdir_entry_by_va(n, id, va, n.ret) EXCEPT
              !.ptbl[n.ret] = [e \in PTE |-> None]]

free_ptbl(m, id, va) ==
  container_free(set_pdir_entry_by_va(m, id, va, None), id,
                 get_pdir_entry_by_va(m, id, va))

map_page(m, id, va, i) ==
  IF get_pdir_entry_by_va(m, id, va) /= None
  THEN [set_ptbl_entry_by_va(m, id, va, i) EXCEPT !.ret = None]
  ELSE LET n == alloc_ptbl(m, id, va)
       IN  IF n.ret = None THEN [n EXCEPT !.ret = MagicNumber]
           ELSE set_ptbl_entry_by_va(n, id, va, i)

unmap_page(m, id, va) ==
  IF get_ptbl_entry_by_va(m, id, va) = None THEN m
  ELSE set_ptbl_entry_by_va(m, id, va, None)

\* The page stays allocated when there is no page table to map it in.
alloc_page(m, id, va) ==
  LET n == container_alloc(m, id)
  IN  IF n.ret = None THEN [n EXCEPT !.ret = MagicNumber]
      ELSE map_page(n, id, va, n.ret)
-----------------------------------------------------------------------------
(* Traps and system calls.                                                 *)

\* A process runs: kern_main has left process 0, and elf_load is done.
Running == booting = 0 /\ load = NoLoad /\ ~panic

Live == {id \in Id \ {0} : mem.CONTAINER[id].used}

\* A fault on a page that is there is one of permissions.
pgflt_handler(id, va) ==
  /\ Running
  /\ IF get_ptbl_entry_by_va(mem, id, va) /= None
     THEN /\ panic' = TRUE
          /\ UNCHANGED mem
     ELSE /\ mem' = alloc_page(mem, id, va)
          /\ panic' = (mem'.ret = MagicNumber)
  /\ UNCHANGED <<load, booting>>

\* MappingsPersist: a page is allocated without a look at the page table.
pt_copy_bug(m, id, va) == alloc_page(m, id, va)

\* pt_copyin, pt_copyout and pt_memset on one page of the address space:
\* they go on even when there is no page.
pt_copy(m, id, va) ==
  IF get_ptbl_entry_by_va(m, id, va) = None THEN alloc_page(m, id, va) ELSE m

copy(id, va) ==
  /\ Running
  /\ mem.CONTAINER[id].usage < MaxUsage
  /\ mem' = pt_copy(mem, id, va)
  /\ UNCHANGED <<load, booting, panic>>

proc_create(id, quota) ==
  /\ load' = [pid |-> container_child(mem, id), vas |-> ElfPages]
  /\ mem' = container_split(mem, id, quota)

\* alloc_page, then pt_copyout or pt_memset on the same page.
elf_load ==
  /\ load /= NoLoad
  /\ mem' = pt_copy(alloc_page(mem, load.pid, Head(load.vas)),
                    load.pid, Head(load.vas))
  /\ load' = IF Tail(load.vas) = <<>> THEN NoLoad
             ELSE [load EXCEPT !.vas = Tail(@)]
  /\ UNCHANGED <<booting, panic>>

\* kern_main, as process 0, creates two processes and never runs again.
kern_main ==
  /\ booting > 0 /\ load = NoLoad
  /\ proc_create(0, BootQuota)
  /\ booting' = booting - 1
  /\ UNCHANGED panic

\* The checks of the quota and of the number of children are made of whatever
\* curid holds before it has a value, so they may come out either way.  A
\* call they refuse changes nothing.
sys_spawn(id, quota) ==
  /\ work = "spawn" /\ Running
  /\ SYS_NUM_IDS >= id * SYS_MAX_CHILDREN + 1 + SYS_MAX_CHILDREN
  /\ mem.CONTAINER[id].nchildren < MaxSpawn
  /\ proc_create(id, quota)
  /\ UNCHANGED <<booting, panic>>

\* Exported by MPTComm and MPTKern; their callers are the tests of the layers.
layer_call(id, va) ==
  /\ work = "layer" /\ Running
  /\ \/ mem' = free_ptbl(mem, id, va)
     \/ mem' = unmap_page(mem, id, va)
  /\ UNCHANGED <<load, booting, panic>>

\* All the usable pages are the quota of process 0.
container_init ==
  [id \in Id |-> [quota |-> IF id = 0 THEN Cardinality(Norm) ELSE 0, usage |-> 0,
                  parent |-> 0, nchildren |-> 0, used |-> id = 0]]

\* The user's part of every page directory is empty.
pdir_init == [id \in Id |-> [e \in PDE |-> None]]

Init ==
  /\ work \in Workload
  /\ mem = [CONTAINER |-> container_init,
            allocated |-> {},
            last      |-> KERN_LOW,
            pdir      |-> pdir_init,
            ptbl      |-> [i \in Norm |-> [e \in PTE |-> None]],
            ret       |-> None]
  /\ load = NoLoad
  /\ booting = 2
  /\ panic = FALSE

Halted == panic /\ UNCHANGED vars

Next ==
  \/ /\ \/ kern_main
        \/ elf_load
        \/ \E id \in Live, va \in VA :
             pgflt_handler(id, va) \/ copy(id, va) \/ layer_call(id, va)
        \/ \E id \in Live, quota \in Quotas : sys_spawn(id, quota)
     /\ UNCHANGED work
  \/ Halted

Spec == Init /\ [][Next]_vars
-----------------------------------------------------------------------------
(* Properties.                                                             *)

Lookup(id, va) == get_ptbl_entry_by_va(mem, id, va)

\* A page has one use: it is the page table of one entry of one page
\* directory, or it is mapped once in one address space, or neither; and a
\* page in use is allocated, so palloc will not hand it out again.
PageOwnership ==
  /\ \A i, j \in Id, d, e \in PDE :
       mem.pdir[i][d] /= None =>
         /\ mem.pdir[i][d] \in mem.allocated
         /\ mem.pdir[i][d] = mem.pdir[j][e] => i = j /\ d = e
  /\ \A i, j \in Id, v, w \in VA :
       Lookup(i, v) /= None =>
         /\ Lookup(i, v) \in mem.allocated
         /\ Lookup(i, v) = Lookup(j, w) => i = j /\ v = w
         /\ Lookup(i, v) /= mem.pdir[j][w[1]]

Pages(id) ==
  ({mem.pdir[id][d] : d \in PDE} \cup {Lookup(id, va) : va \in VA}) \ {None}

\* The usage of a process pays for its page tables, for the pages mapped in
\* its address space and for the quotas it gave to its children.
UsageCovers ==
  \A id \in Id :
    mem.CONTAINER[id].usage >=
      Cardinality(Pages(id)) +
      MapThenSumSet(LAMBDA c : mem.CONTAINER[c].quota,
                    {c \in Live : mem.CONTAINER[c].parent = id})

\* What a process has stored at an address stays there: no later fault, copy
\* or process creation puts another page in its place, and only the layer's
\* functions take it away.
MappingsPersist ==
  [][\A id \in Id, va \in VA :
       load.pid /= id /\ Lookup(id, va) /= None => 
         Lookup(id, va)' \in {Lookup(id, va)} \cup (IF work = "layer" THEN {None} ELSE {})]_vars

-----------------------------------------------------------------------------
(* What the code does not guarantee: TLC refutes it.                       *)

\* A process never uses more than "the maximum memory quota of the process".
UsageWithinQuota ==
  \A id \in Id : mem.CONTAINER[id].usage <= mem.CONTAINER[id].quota

\* palloc fails only when no page is free.
PallocComplete ==
  [][mem'.last = None /\ mem.last /= None => mem.allocated = Norm]_vars

\* A process has as many children as it counts, and a new child never takes
\* the container of another process: sys_spawn admits more children than
\* container_split has numbers for (MaxSpawn above MAX_CHILDREN).
NchildrenExact ==
  \A id \in Id :
    mem.CONTAINER[id].nchildren =
      Cardinality({c \in Live : mem.CONTAINER[c].parent = id})
=============================================================================
