------------------------------- MODULE Loader -------------------------------
(***************************************************************************)
(* From the disk to the kernel's first instructions: the second boot stage *)
(* (boot/boot1) finds the bootable partition, counts the memory map and    *)
(* reads the segments of the kernel, sector by sector; the kernel then     *)
(* clears the part of its data that is not in the file (seg_init).         *)
(*                                                                         *)
(* A byte of memory holds the number of the byte of the disk it was read   *)
(* from, Zero, or Junk.  Addresses are above the header and the loader.    *)
(*                                                                         *)
(* An operator whose name ends in _bug is a faulty variant of the one      *)
(* after it, which the specification does not use: put in its place it     *)
(* must break the property its comment names.                              *)
(***************************************************************************)
EXTENDS Integers, Sequences, SequencesExt

CONSTANTS
  SECTOR_SIZE,
  MemSize,      \* 2^24: what is left of an address by the mask 0xFFFFFF
  KSTACK,       \* bytes of bsp_kstack[0] that seg_init keeps
  Disks         \* partition tables, kernel images and memory maps

VARIABLES
  disk,         \* what is on the disk, which never changes
  mem,
  dkernel,      \* the first sector of the kernel's partition
  mmap_length,  \* of mboot_info, in entries
  ph,           \* the program header that is being loaded
  rd,           \* the variables of readsection
  boot          \* where the loader is

vars == <<disk, mem, dkernel, mmap_length, ph, rd, boot>>

Zero == -1
Junk == -2
NoRead == [va |-> 0, end_va |-> 0, offset |-> 0]

Image == disk.image[dkernel]
-----------------------------------------------------------------------------
(* boot/boot1/boot1main.c                                                  *)

\* The first of the four partitions that is marked.
boot1main ==
  LET i == SelectInSeq(disk.partition, LAMBDA p : p.bootable)
  IN  /\ boot = "boot1main"
      /\ IF i = 0 THEN boot' = "panic" /\ UNCHANGED dkernel
         ELSE boot' = "parse_e820" /\ dkernel' = disk.partition[i].first_lba
      /\ UNCHANGED <<disk, mem, mmap_length, ph, rd>>

\* Up to the entry whose fields are all zero.
parse_e820 ==
  /\ boot = "parse_e820" /\ boot' = "load_kernel"
  /\ mmap_length' = SelectInSeq(disk.smap, LAMBDA e : e = "zero") - 1
  /\ UNCHANGED <<disk, mem, dkernel, ph, rd>>

load_kernel ==
  /\ boot = "load_kernel"
  /\ IF Image.e_magic THEN boot' = "readsection" /\ ph' = 1
     ELSE boot' = "panic" /\ UNCHANGED ph
  /\ UNCHANGED <<disk, mem, dkernel, mmap_length, rd>>

-----------------------------------------------------------------------------
(* boot/boot1/boot1lib.c                                                   *)

RoundDown(a) == a - (a % SECTOR_SIZE)

\* KernelLoaded: the end is counted from the start of the sector.
section_bug(va, count, offset, lba) ==
  LET a == RoundDown(va % MemSize)
  IN  [va |-> a, end_va |-> a + count, offset |-> (offset \div SECTOR_SIZE) + lba]

section(va, count, offset, lba) ==
  LET a == va % MemSize
  IN  [va |-> RoundDown(a), end_va |-> a + count, offset |-> (offset \div SECTOR_SIZE) + lba]

\* readsection up to its loop, with all of a segment's memory, for the next
\* program header; without one, the kernel is started.
readsection ==
  /\ boot = "readsection"
  /\ IF ph > Len(Image.ph) THEN boot' = "exec_kernel" /\ UNCHANGED <<ph, rd>>
     ELSE LET seg == Image.ph[ph]
          IN  /\ rd' = section(seg.p_va, seg.p_memsz, seg.p_offset, dkernel)
              /\ boot' = "readsector" /\ ph' = ph + 1
  /\ UNCHANGED <<disk, mem, dkernel, mmap_length>>

\* One turn of the loop; waitdisk waits as long as the drive is busy.
readsector ==
  /\ boot = "readsector"
  /\ IF rd.va < rd.end_va
     THEN /\ mem' = [a \in DOMAIN mem |->
                       IF a \in rd.va .. rd.va + SECTOR_SIZE - 1
                       THEN rd.offset * SECTOR_SIZE + (a - rd.va) ELSE mem[a]]
          /\ rd' = [rd EXCEPT !.va = @ + SECTOR_SIZE, !.offset = @ + 1]
          /\ UNCHANGED boot
     ELSE boot' = "readsection" /\ UNCHANGED <<mem, rd>>
  /\ UNCHANGED <<disk, dkernel, mmap_length, ph>>

-----------------------------------------------------------------------------
(* The kernel.                                                             *)

memzero(m, from, to) == [a \in DOMAIN m |-> IF from <= a /\ a < to THEN Zero ELSE m[a]]

\* seg_init clears the data around the stack it runs on.
seg_init ==
  /\ boot = "exec_kernel" /\ boot' = "kernel"
  /\ mem' = memzero(memzero(mem, Image.edata, Image.kstack),
                    Image.kstack + KSTACK, Image.end)
  /\ UNCHANGED <<disk, dkernel, mmap_length, ph, rd>>

InitOf(disks) ==
  /\ disk \in disks
  /\ mem = [a \in 0 .. MemSize - 1 |-> Junk]
  /\ dkernel = 0 /\ mmap_length = 0 /\ ph = 0 /\ rd = NoRead /\ boot = "boot1main"

Stopped == boot \in {"panic", "kernel"} /\ UNCHANGED vars

Next == boot1main \/ parse_e820 \/ load_kernel \/ readsection \/ readsector
          \/ seg_init \/ Stopped

-----------------------------------------------------------------------------
(* Properties.                                                             *)

\* What the linker makes of the kernel: every segment is where its sector
\* has it, and segments are in order, apart, and at the same distance from
\* their place in the file when they have a sector of memory in common; only
\* the last has memory that is not in the file, and the stack is in it.
Linked(image) ==
  LET n == Len(image.ph)
      p == image.ph
      last == p[n].p_va % MemSize
  IN  /\ \A i \in 1 .. n : /\ p[i].p_va % SECTOR_SIZE = p[i].p_offset % SECTOR_SIZE
                           /\ p[i].p_filesz <= p[i].p_memsz
                           /\ i < n => p[i].p_filesz = p[i].p_memsz
      /\ \A i \in 1 .. n - 1 :
           LET end == (p[i].p_va % MemSize) + p[i].p_memsz
               next == p[i + 1].p_va % MemSize
           IN  /\ end <= next
               /\ RoundDown(end - 1) = RoundDown(next) =>
                    p[i].p_va - p[i].p_offset = p[i + 1].p_va - p[i + 1].p_offset
      /\ image.edata = last + p[n].p_filesz /\ image.end = last + p[n].p_memsz
      /\ image.edata <= image.kstack /\ image.kstack + KSTACK <= image.end
      /\ image.end + SECTOR_SIZE <= MemSize

\* readsection reads whole sectors, more than the segment has at either end,
\* and reads memory that is not in the file: still, when seg_init is done,
\* every byte of the first bootable partition's kernel is at its address, and
\* the rest of its data is zero but for the stack.
KernelLoaded ==
  boot = "kernel" =>
    LET first == CHOOSE i \in 1 .. 4 :
                   disk.partition[i].bootable /\ \A j \in 1 .. i - 1 : ~disk.partition[j].bootable
        lba   == disk.partition[first].first_lba
        image == disk.image[lba]
    IN  /\ \A i \in DOMAIN image.ph :
             LET seg == image.ph[i] IN
             \A k \in 0 .. seg.p_filesz - 1 :
               mem[(seg.p_va % MemSize) + k] = lba * SECTOR_SIZE + seg.p_offset + k
        /\ \A a \in image.edata .. image.end - 1 :
             a \notin image.kstack .. image.kstack + KSTACK - 1 => mem[a] = Zero
=============================================================================
