------------------------------- MODULE MemMap -------------------------------
(***************************************************************************)
(* The memory map: how pmmap_init (kern/dev/mboot.c) turns the boot        *)
(* loader's entries into a list of ranges, and pmem_init                   *)
(* (kern/pmm/MATInit) the ranges into the table of usable pages.           *)
(*                                                                         *)
(* The boot loader's table is chosen entry by entry.  The sublists by type *)
(* and mem_npages are left out: nothing reads them.                        *)
(*                                                                         *)
(* An operator whose name ends in _bug is a faulty variant of the one      *)
(* after it, which the specification does not use: put in its place it     *)
(* must break the property its comment names.                              *)
(***************************************************************************)
EXTENDS Integers, Sequences, SequencesExt, FiniteSetsExt

CONSTANTS
  PAGESIZE,
  MAXADDR,        \* 0xffffffff, the largest number of 32 bits
  Entries,        \* of the table: base and length may exceed MAXADDR
  MaxEntries,     \* bound: entries of the table
  NSLOTS,         \* pmmap_slots (128)
  VM_USERLO_PI, VM_USERHI_PI

Type == {"RAM", "RESERVED", "UNKNOWN"}

ASSUME ConstAssumption ==
  /\ {PAGESIZE, MAXADDR} \subseteq Nat \ {0} /\ MAXADDR % PAGESIZE = PAGESIZE - 1
  /\ Entries \subseteq [base : Nat, length : Nat \ {0}, type : Type]
  /\ {MaxEntries, NSLOTS, VM_USERLO_PI, VM_USERHI_PI} \subseteq Nat

VARIABLES
  table,       \* the entries pmmap_init has read
  pmmap_list,  \* the ranges, as the linked list has them
  AT,          \* the permissions of the pages, once pmem_init has set them
  pc

vars == <<table, pmmap_list, AT, pc>>

MapRange == [start : 0 .. MAXADDR, end : 0 .. MAXADDR, type : Type]
Perm == {"kernel", "norm", "unusable"}

TypeOK ==
  /\ table \in Seq(Entries)
  /\ pmmap_list \in Seq(MapRange)
  /\ \A i \in DOMAIN AT : AT[i] \in Perm
  /\ pc \in {"read", "merge", "pages", "done", "panic"}
-----------------------------------------------------------------------------
\* After the last range that starts no later.
pmmap_insert(list, r) ==
  LET before == SelectSeq(list, LAMBDA s : s.start <= r.start)
      after  == SelectSeq(list, LAMBDA s : s.start > r.start)
  IN  before \o <<r>> \o after

RangeOf(e) ==
  [start |-> e.base,
   end   |-> IF e.length >= MAXADDR - e.base THEN MAXADDR ELSE e.base + e.length,
   type  |-> e.type]

\* One turn of the loop of pmmap_init.
read_entry(e) ==
  /\ pc = "read" /\ Len(table) < MaxEntries
  /\ table' = Append(table, e)
  /\ IF e.base > MAXADDR THEN UNCHANGED <<pmmap_list, pc>>
     ELSE IF Len(pmmap_list) = NSLOTS THEN pc' = "panic" /\ UNCHANGED pmmap_list
     ELSE pmmap_list' = pmmap_insert(pmmap_list, RangeOf(e)) /\ UNCHANGED pc
  /\ UNCHANGED AT

read_done ==
  /\ pc = "read"
  /\ pc' = "merge"
  /\ UNCHANGED <<table, pmmap_list, AT>>

Overlap(r, s) == r.start <= s.start /\ r.end >= s.start /\ r.type = s.type

\* Step 1 of pmmap_merge.  A range that has taken in the next one is not
\* compared with the one after.
RECURSIVE Merge(_)
Merge(list) ==
  IF Len(list) < 2 THEN list
  ELSE IF Overlap(list[1], list[2])
  THEN <<[list[1] EXCEPT !.end = Max({@, list[2].end})]>> \o Merge(Tail(Tail(list)))
  ELSE <<list[1]>> \o Merge(Tail(list))

pmmap_merge ==
  /\ pc = "merge"
  /\ pmmap_list' = Merge(pmmap_list)
  /\ pc' = IF \E i \in DOMAIN pmmap_list' : pmmap_list'[i].type = "UNKNOWN"
           THEN "panic" ELSE "pages"
  /\ UNCHANGED <<table, AT>>

get_mms(j) == pmmap_list[j].start
get_mml(j) == pmmap_list[j].end - pmmap_list[j].start
is_usable(j) == pmmap_list[j].type = "RAM"

nps == Max({0} \cup {(get_mms(j) + get_mml(j)) \div PAGESIZE + 1 : j \in DOMAIN pmmap_list})

\* NormIsRam: a page is taken that is only partly in the range.
Holds_bug1(j, i) ==
  get_mms(j) <= i * PAGESIZE /\ get_mml(j) + get_mms(j) > i * PAGESIZE

\* UsablePagesExact: the last page of a range is not taken.
Holds_bug2(j, i) ==
  get_mms(j) <= i * PAGESIZE /\ get_mml(j) + get_mms(j) > (i + 1) * PAGESIZE

Holds(j, i) ==
  get_mms(j) <= i * PAGESIZE /\ get_mml(j) + get_mms(j) >= (i + 1) * PAGESIZE

\* The first range that holds a page decides.
pmem_init ==
  /\ pc = "pages"
  /\ AT' = [i \in 0 .. nps - 1 |->
              LET js == {j \in DOMAIN pmmap_list : Holds(j, i)}
              IN  IF i < VM_USERLO_PI \/ i >= VM_USERHI_PI THEN "kernel"
                  ELSE IF js /= {} /\ is_usable(Min(js)) THEN "norm"
                  ELSE "unusable"]
  /\ pc' = "done"
  /\ UNCHANGED <<table, pmmap_list>>

Init ==
  /\ table = <<>> /\ pmmap_list = <<>>
  /\ AT = [i \in {} |-> "kernel"]
  /\ pc = "read"

Booted == pc \in {"done", "panic"} /\ UNCHANGED vars

Next ==
  \/ \E e \in Entries : read_entry(e)
  \/ read_done
  \/ pmmap_merge
  \/ pmem_init
  \/ Booted

Spec == Init /\ [][Next]_vars
-----------------------------------------------------------------------------
(* Properties.                                                             *)

\* The bytes of an entry, and of page i.
Bytes(e) == e.base .. Min({e.base + e.length, MAXADDR}) - 1
PageBytes(i) == i * PAGESIZE .. (i + 1) * PAGESIZE - 1

\* A page is given out only if every byte of it is RAM by the boot loader's
\* table, whatever was merged.
NormIsRam ==
  \A i \in DOMAIN AT :
    AT[i] = "norm" =>
      \A b \in PageBytes(i) :
        \E k \in DOMAIN table : table[k].type = "RAM" /\ b \in Bytes(table[k])

\* No page of RAM is lost: one that lies in an entry of RAM, touches nothing
\* reserved and is for the user is given out.
UsablePagesExact ==
  pc = "done" =>
    \A i \in VM_USERLO_PI .. VM_USERHI_PI - 1 :
      /\ \E k \in DOMAIN table : table[k].type = "RAM" /\ PageBytes(i) \subseteq Bytes(table[k])
      /\ \A k \in DOMAIN table :
           table[k].type = "RESERVED" => PageBytes(i) \cap Bytes(table[k]) = {}
      => i \in DOMAIN AT /\ AT[i] = "norm"

-----------------------------------------------------------------------------
(* What the code does not guarantee: TLC refutes it.                       *)

\* "Merge overlaped entries": no two neighbours of one type overlap.
MergeComplete ==
  pc \in {"pages", "done"} =>
    \A i \in 1 .. Len(pmmap_list) - 1 : ~ Overlap(pmmap_list[i], pmmap_list[i + 1])
=============================================================================
