----------------------------- MODULE FileCalls ------------------------------
(***************************************************************************)
(* The file system as one process at a time sees it: what each system call *)
(* of kern/fs/sysfile.c does from beginning to end, through path.c, dir.c, *)
(* file.c and inode.c, from the registers of the caller to the registers   *)
(* it finds on return (kern/trap/TDispatch, kern/trap/TSyscallArg).        *)
(* SysFile has the steps of the calls and their interleavings, FileIO the  *)
(* blocks; here contents are whole, so that long histories of calls can be *)
(* followed.                                                               *)
(*                                                                         *)
(* Every operator takes the state of the file system and returns the state *)
(* it leaves, with its result: a record k has the fields                   *)
(*   type, nlink, data  of the i-nodes: data is a sequence of the bytes of *)
(*                      a file or of the entries of a directory            *)
(*   ref                references of the i-node cache, 0 for no entry     *)
(*   file, fds          the table of open files and the descriptors of the *)
(*                      process, 0 for none                                *)
(*   cwd, trans, panic  the current directory, whether a transaction is    *)
(*                      open, the message of the first KERN_PANIC          *)
(* A path is its elements and whether it starts with a slash; it is        *)
(* shorter than the 128 bytes the calls copy in.                           *)
(*                                                                         *)
(* An operator whose name ends in _bug is a faulty variant of the one      *)
(* after it, which the specification does not use: put in its place it     *)
(* must break the property its comment names.                              *)
(***************************************************************************)
EXTENDS Integers, Sequences, FiniteSets, FiniteSetsExt

CONSTANTS
  NInum,     \* i-nodes are 1 .. NInum
  NINODE,    \* entries of the i-node cache
  NFILE,     \* open files of the system
  NOFILE,    \* descriptors of a process
  DIRSIZ,    \* bytes of a name in a directory entry
  MaxBytes,  \* MAXFILE * BSIZE
  MaxTrans,  \* bytes that file_write puts in a transaction
  KernBuf    \* sizeof(kern_buf)

Inum == 1 .. NInum
ROOTINO == 1
Dirent(i, n) == [inum |-> i, name |-> n]

Panic(k, message) == IF k.panic = "" THEN [k EXCEPT !.panic = message] ELSE k

begin_trans(k) == [k EXCEPT !.trans = TRUE]
commit_trans(k) == [k EXCEPT !.trans = FALSE]
log_write(k) == IF k.trans THEN k ELSE Panic(k, "write outside of trans")

----------------------------------------------------------------------------
(* I-nodes.  With one process no i-node is busy, and the cached copy is    *)
(* the i-node.                                                             *)

inode_get(k, i) ==
  IF k.ref[i] = 0 /\ Cardinality({j \in Inum : k.ref[j] > 0}) >= NINODE
  THEN Panic(k, "inode_get: no inodes")
  ELSE [k EXCEPT !.ref[i] = @ + 1]

inode_lock(k, i) == IF k.type[i] = "free" THEN Panic(k, "inode_lock: no type") ELSE k

\* An i-node without links goes with its last reference.  (_bug, FsExact: it
\* stays allocated.)
inode_put_bug(k, i) == [k EXCEPT !.ref[i] = @ - 1]

inode_put(k, i) ==
  IF k.ref[i] = 1 /\ k.nlink[i] = 0
  THEN [log_write(k) EXCEPT !.ref[i] = 0, !.type[i] = "free", !.data[i] = <<>>]
  ELSE [k EXCEPT !.ref[i] = @ - 1]

\* The number of the new i-node, 0 when there is none.
inode_alloc(k, type) ==
  LET free == {i \in Inum : k.type[i] = "free"}
      i == Min(free)
  IN  IF free = {} THEN [k |-> Panic(k, "inode_alloc: no inodes"), ip |-> 0]
      ELSE [k |-> inode_get([log_write(k) EXCEPT !.type[i] = type, !.nlink[i] = 0,
                                                 !.data[i] = <<>>], i),
            ip |-> i]

\* -1, or the bytes read.
inode_read(k, i, off, n) ==
  IF off > Len(k.data[i]) THEN [n |-> -1, bytes |-> <<>>]
  ELSE LET to == Min({off + n, Len(k.data[i])})
       IN  [n |-> to - off, bytes |-> SubSeq(k.data[i], off + 1, to)]

inode_write(k, i, off, bytes) ==
  LET old == k.data[i]
      to == off + Len(bytes)
      new == [b \in 1 .. Max({Len(old), to}) |->
                IF off < b /\ b <= to THEN bytes[b - off] ELSE old[b]]
  IN  IF off > Len(old) \/ to > MaxBytes THEN [k |-> k, n |-> -1]
      ELSE [k |-> [log_write(k) EXCEPT !.data[i] = new], n |-> Len(bytes)]

----------------------------------------------------------------------------
(* Directories and paths.                                                  *)

\* The places of name in directory dp; an entry with i-number 0 is free.
Places(k, dp, name) ==
  {e \in DOMAIN k.data[dp] : k.data[dp][e].inum # 0 /\ k.data[dp][e].name = name}

\* The i-number and its offset; 0 when the name is not there.
dir_lookup(k, dp, name) ==
  LET off == Min(Places(k, dp, name))
  IN  IF Places(k, dp, name) = {} THEN [k |-> k, ip |-> 0, off |-> 0]
      ELSE [k |-> inode_get(k, k.data[dp][off].inum),
            ip |-> k.data[dp][off].inum, off |-> off]

\* The first free entry, or the end of the directory.
dir_link(k, dp, name, i) ==
  LET l == dir_lookup(k, dp, name)
      free == {e \in DOMAIN k.data[dp] : k.data[dp][e].inum = 0} \cup {Len(k.data[dp]) + 1}
      w == inode_write(k, dp, Min(free) - 1, <<Dirent(i, name)>>)
  IN  IF l.ip # 0 THEN [k |-> inode_put(l.k, l.ip), n |-> -1]
      ELSE [k |-> IF w.n < 0 THEN Panic(w.k, "dir_link") ELSE w.k, n |-> 0]

isdirempty(k, i) == \A e \in DOMAIN k.data[i] : e > 2 => k.data[i][e].inum = 0

\* The name that is looked up for an element of a path.
\* (_bug, TestsPass: the whole of it.)
skipelem_bug(elem) == elem

skipelem(elem) == IF Len(elem) >= DIRSIZ THEN SubSeq(elem, 1, DIRSIZ - 1) ELSE elem

\* The loop of namex from i-node ip: the i-node found, 0 for none, and the
\* last element when the parent is asked for.
RECURSIVE namex(_, _, _, _)
namex(k, ip, elems, parent) ==
  IF elems = <<>>
  THEN IF parent THEN [k |-> inode_put(k, ip), ip |-> 0, name |-> ""]
       ELSE [k |-> k, ip |-> ip, name |-> ""]
  ELSE LET name == skipelem(Head(elems))
           locked == inode_lock(k, ip)
           l == dir_lookup(locked, ip, name)
       IN  IF k.type[ip] # "dir" THEN [k |-> inode_put(locked, ip), ip |-> 0, name |-> name]
           ELSE IF parent /\ Len(elems) = 1 THEN [k |-> locked, ip |-> ip, name |-> name]
           ELSE IF l.ip = 0 THEN [k |-> inode_put(l.k, ip), ip |-> 0, name |-> name]
           ELSE namex(inode_put(l.k, ip), l.ip, Tail(elems), parent)

Lookup(k, path, parent) ==
  LET from == IF path.abs THEN ROOTINO ELSE k.cwd
  IN  namex(inode_get(k, from), from, path.elems, parent)

namei(k, path) == Lookup(k, path, FALSE)
nameiparent(k, path) == Lookup(k, path, TRUE)

----------------------------------------------------------------------------
(* Open files.                                                             *)

NoFile == [ref |-> 0, ip |-> 0, off |-> 0, readable |-> FALSE, writable |-> FALSE]

\* A file has one reference: nothing duplicates a descriptor.
file_close(k, f) ==
  LET closed == [k EXCEPT !.file[f] = NoFile]
  IN  IF k.file[f].ip = 0 THEN closed
      ELSE commit_trans(inode_put(begin_trans(closed), k.file[f].ip))

file_read(k, f, n) ==
  LET r == inode_read(k, k.file[f].ip, k.file[f].off, n)
  IN  IF ~k.file[f].readable THEN [k |-> k, n |-> -1, bytes |-> <<>>]
      ELSE [k |-> IF r.n > 0 THEN [k EXCEPT !.file[f].off = @ + r.n] ELSE k,
            n |-> r.n, bytes |-> r.bytes]

\* Whether all of it is written, a transaction for each MaxTrans bytes.
RECURSIVE write_loop(_, _, _)
write_loop(k, f, bytes) ==
  LET n1 == Min({Len(bytes), MaxTrans})
      w == inode_write(begin_trans(k), k.file[f].ip, k.file[f].off, SubSeq(bytes, 1, n1))
  IN  IF bytes = <<>> THEN [k |-> k, all |-> TRUE]
      ELSE IF w.n < 0 THEN [k |-> commit_trans(w.k), all |-> FALSE]
      ELSE write_loop(commit_trans([w.k EXCEPT !.file[f].off = @ + w.n]), f,
                      SubSeq(bytes, n1 + 1, Len(bytes)))

file_write(k, f, bytes) ==
  LET w == write_loop(k, f, bytes)
  IN  IF ~k.file[f].writable THEN [k |-> k, n |-> -1]
      ELSE [k |-> w.k, n |-> IF w.all THEN Len(bytes) ELSE -1]

----------------------------------------------------------------------------
(* The system calls.  tf is the trap frame: eax has the number of the call *)
(* and then the error, ebx, ecx, edx and esi the arguments and ebx then    *)
(* the result.  An address is what it points to; out is what a call copies *)
(* to the buffer of the caller.                                            *)

syscall_get_arg2(tf) == tf.ebx
syscall_get_arg3(tf) == tf.ecx
syscall_get_arg4(tf) == tf.edx

syscall_set_errno(tf, errno) == [tf EXCEPT !.eax = errno]
syscall_set_retval1(tf, retval) == [tf EXCEPT !.ebx = retval]

\* A call ends with the error, and with the result where it sets one.
Return(k, tf, errno) == [k |-> k, tf |-> syscall_set_errno(tf, errno), out |-> <<>>]
ReturnValue(k, tf, errno, retval) ==
  Return(k, syscall_set_retval1(tf, retval), errno)

\* The file of a descriptor, 0 when there is none.
FileOf(k, fd) == IF fd \in 0 .. NOFILE - 1 THEN k.fds[fd] ELSE 0

sys_read(k, tf) ==
  LET f == FileOf(k, syscall_get_arg2(tf))
      n == syscall_get_arg4(tf)
      r == file_read(k, f, n)
  IN  IF syscall_get_arg2(tf) \in 0 .. NOFILE - 1 /\ n > KernBuf
      THEN ReturnValue(k, tf, "E_INVAL_ADDR", -1)
      ELSE IF f = 0 THEN ReturnValue(k, tf, "E_BADF", -1)
      ELSE [ReturnValue(r.k, tf, "E_SUCC", r.n) EXCEPT !.out = r.bytes]

sys_write(k, tf) ==
  LET f == FileOf(k, syscall_get_arg2(tf))
      n == syscall_get_arg4(tf)
      w == file_write(k, f, SubSeq(syscall_get_arg3(tf), 1, n))
  IN  IF syscall_get_arg2(tf) \in 0 .. NOFILE - 1 /\ n > KernBuf
      THEN ReturnValue(k, tf, "E_INVAL_ADDR", -1)
      ELSE IF f = 0 THEN ReturnValue(k, tf, "E_BADF", -1)
      ELSE ReturnValue(w.k, tf, "E_SUCC", w.n)

sys_close(k, tf) ==
  LET fd == syscall_get_arg2(tf)
  IN  IF FileOf(k, fd) = 0 THEN ReturnValue(k, tf, "E_BADF", -1)
      ELSE ReturnValue([file_close(k, k.fds[fd]) EXCEPT !.fds[fd] = 0], tf, "E_SUCC", 0)

\* The link count goes up before the new name is made, and down again when
\* that fails.
sys_link(k, tf) ==
  LET bad(j, ip) == Return(commit_trans(inode_put([j EXCEPT !.nlink[ip] = @ - 1], ip)),
                           tf, "E_DISK_OP")
      link(ip, l, dp) ==
        IF l.n < 0 THEN bad(inode_put(l.k, dp), ip)
        ELSE Return(commit_trans(inode_put(inode_put(l.k, dp), ip)), tf, "E_SUCC")
      new(ip, n) ==
        IF n.ip = 0 THEN bad(n.k, ip)
        ELSE link(ip, dir_link(inode_lock(n.k, n.ip), n.ip, n.name, ip), n.ip)
      locked(j, ip) ==
        IF j.type[ip] = "dir" THEN Return(commit_trans(inode_put(j, ip)), tf, "E_DISK_OP")
        ELSE new(ip, nameiparent([log_write(j) EXCEPT !.nlink[ip] = @ + 1],
                                 syscall_get_arg3(tf)))
      old(n) ==
        IF n.ip = 0 THEN Return(n.k, tf, "E_NEXIST")
        ELSE locked(inode_lock(begin_trans(n.k), n.ip), n.ip)
  IN  old(namei(k, syscall_get_arg2(tf)))

sys_unlink(k, tf) ==
  LET bad(j, dp) == Return(commit_trans(inode_put(j, dp)), tf, "E_DISK_OP")
      gone(j, dp, ip) ==
        commit_trans(inode_put([inode_put(j, dp) EXCEPT !.nlink[ip] = @ - 1], ip))
      cleared(j, dp, l) ==
        gone(IF j.type[l.ip] = "dir" THEN [j EXCEPT !.nlink[dp] = @ - 1] ELSE j, dp, l.ip)
      victim(j, dp, l) ==
        IF j.nlink[l.ip] < 1 THEN Return(Panic(j, "unlink: nlink < 1"), tf, "")
        ELSE IF j.type[l.ip] = "dir" /\ ~isdirempty(j, l.ip) THEN bad(inode_put(j, l.ip), dp)
        ELSE Return(cleared(inode_write(j, dp, l.off - 1, <<Dirent(0, "")>>).k, dp, l),
                    tf, "E_SUCC")
      found(dp, l) ==
        IF l.ip = 0 THEN bad(l.k, dp) ELSE victim(inode_lock(l.k, l.ip), dp, l)
      locked(j, dp, name) ==
        IF name \in {".", ".."} THEN bad(j, dp) ELSE found(dp, dir_lookup(j, dp, name))
      parent(n) ==
        IF n.ip = 0 THEN Return(n.k, tf, "E_DISK_OP")
        ELSE locked(inode_lock(begin_trans(n.k), n.ip), n.ip, n.name)
  IN  parent(nameiparent(k, syscall_get_arg2(tf)))

\* An existing file is returned, a new i-node gets its entries and its name.
create(k, path, type) ==
  LET dots(j, i, dp) ==
        dir_link(dir_link([j EXCEPT !.nlink[dp] = @ + 1], i, ".", i).k, i, "..", dp).k
      named(j, i, dp, name) ==
        [k |-> inode_put(dir_link(j, dp, name, i).k, dp), ip |-> i]
      new(j, i, dp, name) == named(IF type = "dir" THEN dots(j, i, dp) ELSE j, i, dp, name)
      alloc(a, dp, name) ==
        IF a.ip = 0 THEN a ELSE new([a.k EXCEPT !.nlink[a.ip] = 1], a.ip, dp, name)
      there(j, i) ==
        IF type = "file" /\ j.type[i] = "file" THEN [k |-> j, ip |-> i]
        ELSE [k |-> inode_put(j, i), ip |-> 0]
      found(l, dp, name) ==
        IF l.ip = 0 THEN alloc(inode_alloc(l.k, type), dp, name)
        ELSE there(inode_lock(inode_put(l.k, dp), l.ip), l.ip)
      parent(n) ==
        IF n.ip = 0 THEN [k |-> n.k, ip |-> 0]
        ELSE found(dir_lookup(inode_lock(n.k, n.ip), n.ip, n.name), n.ip, n.name)
  IN  parent(nameiparent(k, path))

\* An open file and a descriptor for i-node ip, the first of each.
open_inode(k, tf, ip) ==
  LET omode == syscall_get_arg3(tf)
      files == {f \in 1 .. NFILE : k.file[f].ref = 0}
      fds == {fd \in 0 .. NOFILE - 1 : k.fds[fd] = 0}
      opened == [ref |-> 1, ip |-> ip, off |-> 0, readable |-> "WRONLY" \notin omode,
                 writable |-> omode \cap {"WRONLY", "RDWR"} # {}]
  IN  IF files = {} \/ fds = {} THEN ReturnValue(inode_put(k, ip), tf, "E_DISK_OP", -1)
      ELSE ReturnValue([k EXCEPT !.file[Min(files)] = opened, !.fds[Min(fds)] = Min(files)],
                       tf, "E_SUCC", Min(fds))

sys_open(k, tf) ==
  LET omode == syscall_get_arg3(tf)
      created(c) ==
        IF c.ip = 0 THEN ReturnValue(commit_trans(c.k), tf, "E_CREATE", -1)
        ELSE open_inode(commit_trans(c.k), tf, c.ip)
      locked(j, i) ==
        IF j.type[i] = "dir" /\ omode # {} THEN ReturnValue(inode_put(j, i), tf, "E_DISK_OP", -1)
        ELSE open_inode(j, tf, i)
      found(n) ==
        IF n.ip = 0 THEN ReturnValue(n.k, tf, "E_NEXIST", -1)
        ELSE locked(inode_lock(n.k, n.ip), n.ip)
  IN  IF "CREATE" \in omode
      THEN created(create(begin_trans(k), syscall_get_arg2(tf), "file"))
      ELSE found(namei(k, syscall_get_arg2(tf)))

sys_mkdir(k, tf) ==
  LET created(c) ==
        IF c.ip = 0 THEN Return(commit_trans(c.k), tf, "E_DISK_OP")
        ELSE Return(commit_trans(inode_put(c.k, c.ip)), tf, "E_SUCC")
  IN  created(create(begin_trans(k), syscall_get_arg2(tf), "dir"))

\* The old directory is put outside of any transaction.
sys_chdir(k, tf) ==
  LET locked(j, i) ==
        IF j.type[i] # "dir" THEN Return(inode_put(j, i), tf, "E_DISK_OP")
        ELSE Return([inode_put(j, k.cwd) EXCEPT !.cwd = i], tf, "E_SUCC")
      found(n) ==
        IF n.ip = 0 THEN Return(n.k, tf, "E_DISK_OP")
        ELSE locked(inode_lock(n.k, n.ip), n.ip)
  IN  found(namei(k, syscall_get_arg2(tf)))

\* The calls on files, by their numbers.
syscall_dispatch(k, tf) ==
  CASE tf.eax = "SYS_open" -> sys_open(k, tf)
    [] tf.eax = "SYS_close" -> sys_close(k, tf)
    [] tf.eax = "SYS_read" -> sys_read(k, tf)
    [] tf.eax = "SYS_write" -> sys_write(k, tf)
    [] tf.eax = "SYS_mkdir" -> sys_mkdir(k, tf)
    [] tf.eax = "SYS_chdir" -> sys_chdir(k, tf)
    [] tf.eax = "SYS_link" -> sys_link(k, tf)
    [] tf.eax = "SYS_unlink" -> sys_unlink(k, tf)
=============================================================================
