------------------------------- MODULE FsTest -------------------------------
(***************************************************************************)
(* The file system from end to end: mkfs makes an image, the kernel starts *)
(* from it, and the program user/fstest makes its calls through the stubs  *)
(* of user/include/syscall.h, one after the other; no other program of the *)
(* system uses files.                                                      *)
(*                                                                         *)
(* A test of fstest is the sequence of its calls, each with the results    *)
(* for which the test goes on: with any other result it prints an error    *)
(* and returns, and main goes on to the next test.  The numbers of         *)
(* iterations and the sizes are constants.                                 *)
(***************************************************************************)
EXTENDS FileCalls, SequencesExt, TLC

CONSTANTS
  BSIZE, NDIRECT, NINDIRECT, IPB, BPB, size, nblocks, ninodes, nlog, Args,   \* see Mkfs
  NUM_IDS,      \* thread control blocks, whose current directory is the root
  BufLen,       \* sizeof(buf)
  SmallWrites,  \* 100: rounds of smallfile
  WordLen,      \* 10: what it writes at a time
  Creates,      \* 52: files of createtest
  BigWrites,    \* 20: writes of bigfile2
  HalfLen,      \* 300: what it reads at a time, half of what it writes
  IrefRounds,   \* 51: rounds of iref, more than NINODE
  Links         \* 500: names of bigdir

VARIABLES
  argv, img, at, abort,   \* of mkfs
  kernel,                 \* the file system: see FileCalls
  test, step, round,      \* where fstest is: which test, which call, and how
                          \* often a loop of reads went round
  reg,                    \* the variables fd and fd1 of the test
  buf,                    \* its buffer
  failed                  \* the tests that printed an error

M == INSTANCE Mkfs

userVars == <<test, step, round, reg, buf, failed>>
vars == <<argv, img, at, abort, kernel, userVars>>

ASSUME FsTestAssumption ==
  /\ NInum < ninodes /\ NINODE < IrefRounds /\ BufLen <= KernBuf
  /\ MaxBytes = (NDIRECT + NINDIRECT) * BSIZE
  /\ {NFILE, NOFILE, NUM_IDS, BSIZE, NDIRECT, NINDIRECT, IPB, BPB, DIRSIZ, size, nblocks,
      ninodes, nlog} \subseteq Nat \ {0}
  /\ \A a \in Args : \A f \in ToSet(a) : f.len \in Nat

----------------------------------------------------------------------------
(* The stubs: the registers of a call, and the value of the call from the  *)
(* registers it leaves.                                                    *)

Regs(nr, b, c, d) == [eax |-> nr, ebx |-> b, ecx |-> c, edx |-> d]

read(fd, n) == Regs("SYS_read", fd, 0, n)
write(fd, p, n) == Regs("SYS_write", fd, p, n)
close(fd) == Regs("SYS_close", fd, 0, 0)
link(old, new) == Regs("SYS_link", old, new, 0)
unlink(path) == Regs("SYS_unlink", path, 0, 0)
open(path, omode) == Regs("SYS_open", path, omode, 0)
mkdir(path) == Regs("SYS_mkdir", path, 0, 0)
chdir(path) == Regs("SYS_chdir", path, 0, 0)

Value(nr, tf) ==
  IF tf.eax # "E_SUCC" THEN -1
  ELSE IF nr \in {"SYS_read", "SYS_write", "SYS_open"} THEN tf.ebx ELSE 0

----------------------------------------------------------------------------
(* Calls in a test.  ok: the results for which it goes on.                 *)

P(elems) == [abs |-> FALSE, elems |-> elems]
Root == [abs |-> TRUE, elems |-> <<>>]

Ignored == -1 .. MaxBytes       \* the result is not looked at
NonNeg == 0 .. MaxBytes
Fails == {-1}
Zero == {0}
NotZero == Ignored \ Zero
O_RDONLY == {}
O_WRONLY == {"WRONLY"}
O_RDWR == {"RDWR"}
O_CREATE == {"CREATE"}
O_CREATE_RDWR == {"CREATE", "RDWR"}

Open(v, path, mode, ok) == [op |-> "open", v |-> v, path |-> path, mode |-> mode, ok |-> ok]
Close(v) == [op |-> "close", v |-> v, ok |-> Ignored]
Write(v, bytes, ok) == [op |-> "write", v |-> v, bytes |-> bytes, ok |-> ok]
WriteBuf(v, n, ok) == [op |-> "write_buf", v |-> v, n |-> n, ok |-> ok]
Link(old, new, ok) == [op |-> "link", old |-> old, new |-> new, ok |-> ok]
Unlink(path, ok) == [op |-> "unlink", path |-> path, ok |-> ok]
Mkdir(path, ok) == [op |-> "mkdir", path |-> path, ok |-> ok]
Chdir(path, ok) == [op |-> "chdir", path |-> path, ok |-> ok]

\* want: places of the buffer and what must be there afterwards.
Read(v, n, want, ok) == [op |-> "read", v |-> v, n |-> n, want |-> want, ok |-> ok]

\* Reads of n bytes until one returns 0: want[i + 1] is what read number i must
\* find, and in the end the number of reads must be in rounds.
ReadAll(v, n, want, rounds) ==
  [op |-> "read_all", v |-> v, n |-> n, want |-> want, rounds |-> rounds, ok |-> {0, n}]

Bytes(b, n) == [i \in 1 .. n |-> b]
Repeat(n, F(_)) == FlattenSeq([i \in 1 .. n |-> F(i)])

----------------------------------------------------------------------------
(* The tests.                                                              *)

smallfile ==
  LET p == P(<<"small">>)
      len == 2 * SmallWrites * WordLen
  IN  <<Open("fd", p, O_CREATE_RDWR, NonNeg)>>
      \o Repeat(SmallWrites, LAMBDA i : <<Write("fd", Bytes("a", WordLen), {WordLen}),
                                          Write("fd", Bytes("b", WordLen), {WordLen})>>)
      \o <<Close("fd"), Open("fd", p, O_RDONLY, NonNeg), Read("fd", len, {}, {len}),
           Close("fd"), Unlink(p, NonNeg)>>

\* As many blocks as a file can have.
bigfile1 ==
  LET p == P(<<"big">>)
      n == NDIRECT + NINDIRECT
      block(i) == [Bytes("0", BSIZE) EXCEPT ![1] = ToString(i - 1)]
  IN  <<Open("fd", p, O_CREATE_RDWR, NonNeg)>>
      \o Repeat(n, LAMBDA i : <<Write("fd", block(i), {BSIZE})>>)
      \o <<Close("fd"), Open("fd", p, O_RDONLY, NonNeg),
           ReadAll("fd", BSIZE, [i \in 1 .. n |-> {<<1, ToString(i - 1)>>}], Ignored \ {n - 1}),
           Close("fd"), Unlink(p, NonNeg)>>

createtest ==
  LET p(i) == P(<<"a" \o ToString(i)>>)
  IN  Repeat(Creates, LAMBDA i : <<Open("fd", p(i), O_CREATE_RDWR, Ignored), Close("fd")>>)
      \o Repeat(Creates, LAMBDA i : <<Unlink(p(i), Ignored)>>)

rmdot ==
  <<Mkdir(P(<<"dots">>), Zero), Chdir(P(<<"dots">>), Zero),
    Unlink(P(<<".">>), NotZero), Unlink(P(<<"..">>), NotZero),
    Chdir(Root, Ignored),
    Unlink(P(<<"dots", ".">>), NotZero), Unlink(P(<<"dots", "..">>), NotZero),
    Unlink(P(<<"dots">>), Zero)>>

fourteen ==
  LET n14 == "12345678901234"
      n15 == "123456789012345"
  IN  <<Mkdir(P(<<n14>>), Zero), Mkdir(P(<<n14, n15>>), Zero),
        Open("fd", P(<<n15, n15, n15>>), O_CREATE, NonNeg), Close("fd"),
        Open("fd", P(<<n14, n14, n14>>), O_RDONLY, NonNeg), Close("fd"),
        Mkdir(P(<<n14, n14>>), NotZero), Mkdir(P(<<n14, n15>>), NotZero)>>

bigfile2 ==
  LET p == P(<<"bigfile">>)
      both(i) == {<<1, ToString(i)>>, <<HalfLen, ToString(i)>>}
  IN  <<Unlink(p, Ignored), Open("fd", p, O_CREATE_RDWR, NonNeg)>>
      \o Repeat(BigWrites, LAMBDA i : <<Write("fd", Bytes(ToString(i - 1), 2 * HalfLen),
                                              {2 * HalfLen})>>)
      \o <<Close("fd"), Open("fd", p, O_RDONLY, NonNeg),
           ReadAll("fd", HalfLen, [i \in 1 .. 2 * BigWrites |-> both((i - 1) \div 2)],
                   {2 * BigWrites}),
           Close("fd"), Unlink(p, Ignored)>>

subdir ==
  LET dd == P(<<"dd">>)
      ff == P(<<"dd", "ff">>)
      dd2 == P(<<"dd", "dd">>)
      ff2 == P(<<"dd", "dd", "ff">>)
      ffff == P(<<"dd", "dd", "ffff">>)
      ffff_ == P(<<"dd", "ff", "ff">>)
      xxff == P(<<"dd", "xx", "ff">>)
  IN  <<Unlink(P(<<"ff">>), Ignored), Mkdir(dd, Zero),
        Open("fd", ff, O_CREATE_RDWR, NonNeg), Write("fd", Bytes("f", 2), Ignored), Close("fd"),
        Unlink(dd, Fails), Mkdir(dd2, Zero),
        Open("fd", ff2, O_CREATE_RDWR, NonNeg), Write("fd", Bytes("F", 2), Ignored), Close("fd"),
        Open("fd", P(<<"dd", "dd", "..", "ff">>), O_RDONLY, NonNeg),
        Read("fd", BufLen, {<<1, "f">>}, {2}), Close("fd"),
        Link(ff2, ffff, Zero), Unlink(ff2, Zero), Open("none", ff2, O_RDONLY, Fails),
        Chdir(dd, Zero), Chdir(P(<<"dd", "..", "..", "dd">>), Zero),
        Chdir(P(<<"dd", "..", "..", "..", "dd">>), Zero), Chdir(P(<<".", "..">>), Zero),
        Open("fd", ffff, O_RDONLY, NonNeg), Read("fd", BufLen, {}, {2}), Close("fd"),
        Open("none", ff2, O_RDONLY, Fails), Open("none", ffff_, O_CREATE_RDWR, Fails),
        Open("none", xxff, O_CREATE_RDWR, Fails), Open("none", dd, O_CREATE, Fails),
        Open("none", dd, O_RDWR, Fails), Open("none", dd, O_WRONLY, Fails),
        Link(ffff_, P(<<"dd", "dd", "xx">>), NotZero),
        Link(xxff, P(<<"dd", "dd", "xx">>), NotZero), Link(ff, ffff, NotZero),
        Mkdir(ffff_, NotZero), Mkdir(xxff, NotZero), Mkdir(ffff, NotZero),
        Unlink(xxff, NotZero), Unlink(ffff_, NotZero),
        Chdir(ff, NotZero), Chdir(P(<<"dd", "xx">>), NotZero),
        Unlink(ffff, Zero), Unlink(ff, Zero), Unlink(dd, NotZero),
        Unlink(dd2, NonNeg), Unlink(dd, NonNeg)>>

linktest ==
  LET lf1 == P(<<"lf1">>)
      lf2 == P(<<"lf2">>)
  IN  <<Unlink(lf1, Ignored), Unlink(lf2, Ignored), Open("fd", lf1, O_CREATE_RDWR, NonNeg),
        Write("fd", <<"h", "e", "l", "l", "o">>, {5}), Close("fd"),
        Link(lf1, lf2, NonNeg), Unlink(lf1, Ignored), Open("none", lf1, O_RDONLY, Fails),
        Open("fd", lf2, O_RDONLY, NonNeg), Read("fd", BufLen, {}, {5}), Close("fd"),
        Link(lf2, lf2, Fails), Unlink(lf2, Ignored), Link(lf2, lf1, Fails),
        Link(P(<<".">>), lf1, Fails)>>

\* A file is unlinked while it is open, and another takes its name.
unlinkread ==
  LET p == P(<<"unlinkread">>)
  IN  <<Open("fd", p, O_CREATE_RDWR, NonNeg), Write("fd", <<"h", "e", "l", "l", "o">>, Ignored),
        Close("fd"), Open("fd", p, O_RDWR, NonNeg), Unlink(p, Zero),
        Open("fd1", p, O_CREATE_RDWR, Ignored), Write("fd1", Bytes("y", 3), Ignored), Close("fd1"),
        Read("fd", BufLen, {<<1, "h">>}, {5}), WriteBuf("fd", 10, {10}),
        Close("fd"), Unlink(p, Ignored)>>

dirfile ==
  LET f == P(<<"dirfile">>)
      xx == P(<<"dirfile", "xx">>)
      here == P(<<".">>)
  IN  <<Open("fd", f, O_CREATE, NonNeg), Close("fd"), Chdir(f, NotZero),
        Open("fd", xx, O_RDONLY, Fails), Open("fd", xx, O_CREATE, Fails), Mkdir(xx, NotZero),
        Unlink(xx, NotZero), Link(P(<<"README">>), xx, NotZero), Unlink(f, Zero),
        Open("fd", here, O_RDWR, Fails), Open("fd", here, O_RDONLY, Ignored),
        Write("fd", <<"x">>, {-1, 0}), Close("fd")>>

\* Closes only what it opened: with fd < 0 close has no effect either.
iref ==
  LET empty == P(<<>>)
  IN  Repeat(IrefRounds, LAMBDA i :
        <<Mkdir(P(<<"irefd">>), Zero), Chdir(P(<<"irefd">>), Zero), Mkdir(empty, Ignored),
          Link(P(<<"README">>), empty, Ignored), Open("fd", empty, O_CREATE, Ignored), Close("fd"),
          Open("fd", P(<<"xx">>), O_CREATE, Ignored), Close("fd"), Unlink(P(<<"xx">>), Ignored)>>)
      \o <<Chdir(Root, Ignored)>>

\* More entries than the direct blocks of a directory hold.
bigdir ==
  LET bd == P(<<"bd">>)
      namel(i) == P(<<"x" \o ToString(i)>>)
  IN  <<Unlink(bd, Ignored), Open("fd", bd, O_CREATE, NonNeg), Close("fd")>>
      \o Repeat(Links, LAMBDA i : <<Link(bd, namel(i), Zero)>>)
      \o <<Unlink(bd, Ignored)>>
      \o Repeat(Links, LAMBDA i : <<Unlink(namel(i), Zero)>>)

\* The beginning of main; when it fails there are no tests.
fresh ==
  <<Open("none", P(<<"usertests.ran">>), O_RDONLY, Fails),
    Open("fd", P(<<"usertests.ran">>), O_CREATE, Ignored), Close("fd")>>

main ==
  <<fresh, smallfile, bigfile1, createtest, rmdot, fourteen, bigfile2, subdir, linktest,
    unlinkread, dirfile, iref, bigdir>>

----------------------------------------------------------------------------
(* The machine starts from an image of mkfs.                               *)

Off == [panic |-> "off"]

Init ==
  /\ M!Init
  /\ kernel = Off
  /\ test = 1 /\ step = 1 /\ round = 0
  /\ reg = [v \in {"fd", "fd1", "none"} |-> -1]
  /\ buf = Bytes("0", BufLen)
  /\ failed = {}

mkfs == M!Next /\ UNCHANGED <<kernel, userVars>>

\* The directories of all threads are the root (tcb_init_at_id).  In a root
\* with a block that has no sector, the first lookup allocates one outside of
\* a transaction.
boot ==
  /\ M!Made /\ kernel = Off
  /\ kernel' = [type |-> [i \in Inum |-> M!Inode(i).type],
                nlink |-> [i \in Inum |-> M!Inode(i).nlink],
                data |-> [i \in Inum |-> M!inode_read(M!Inode(i))],
                ref |-> [i \in Inum |-> IF i = ROOTINO THEN NUM_IDS ELSE 0],
                file |-> [f \in 1 .. NFILE |-> NoFile],
                fds |-> [fd \in 0 .. NOFILE - 1 |-> 0],
                cwd |-> ROOTINO, trans |-> FALSE,
                panic |-> IF M!RootMapped THEN "" ELSE "write outside of trans"]
  /\ UNCHANGED <<argv, img, at, abort, userVars>>

\* The registers of the call that step c of a test makes.
Stub(c) ==
  CASE c.op = "open" -> open(c.path, c.mode)
    [] c.op = "close" -> close(reg[c.v])
    [] c.op \in {"read", "read_all"} -> read(reg[c.v], c.n)
    [] c.op = "write" -> write(reg[c.v], c.bytes, Len(c.bytes))
    [] c.op = "write_buf" -> write(reg[c.v], buf, c.n)
    [] c.op = "link" -> link(c.old, c.new)
    [] c.op = "unlink" -> unlink(c.path)
    [] c.op = "mkdir" -> mkdir(c.path)
    [] c.op = "chdir" -> chdir(c.path)

\* Whether the test goes on after call c with result v and buffer b.
Finds(want, b) == \A w \in want : b[w[1]] = w[2]
Passes(c, v, b) ==
  /\ v \in c.ok
  /\ c.op = "read" => Finds(c.want, b)
  /\ c.op = "read_all" => IF v = 0 THEN round \in c.rounds
                          ELSE round < Len(c.want) /\ Finds(c.want[round + 1], b)

\* Call c has returned v, with b in the buffer.
returned(c, v, b) ==
  LET again == c.op = "read_all" /\ v > 0
      last == step = Len(main[test]) /\ ~again
  IN  /\ reg' = IF c.op = "open" THEN [reg EXCEPT ![c.v] = v] ELSE reg
      /\ buf' = b
      /\ IF Passes(c, v, b)
         THEN /\ test' = IF last THEN test + 1 ELSE test
              /\ step' = IF last THEN 1 ELSE IF again THEN step ELSE step + 1
              /\ round' = IF again THEN round + 1 ELSE 0
              /\ UNCHANGED failed
         ELSE /\ test' = IF test = 1 THEN Len(main) + 1 ELSE test + 1
              /\ step' = 1 /\ round' = 0
              /\ failed' = failed \cup {test}

\* The next call of the current test.
fstest ==
  /\ kernel.panic = "" /\ test <= Len(main)
  /\ \E c \in {main[test][step]} : \E done \in {syscall_dispatch(kernel, Stub(c))} :
       /\ kernel' = done.k
       /\ returned(c, Value(Stub(c).eax, done.tf),
                   done.out \o SubSeq(buf, Len(done.out) + 1, BufLen))
  /\ UNCHANGED <<argv, img, at, abort>>

Next == mkfs \/ boot \/ fstest

Spec == Init /\ [][Next]_vars

----------------------------------------------------------------------------
(* Properties.                                                             *)

\* The image that mkfs leaves is one the kernel can start from, and the kernel
\* reads in it every file that mkfs was given.
ImageSound == M!ImageSound /\ M!FilesRead

\* Every check that fstest makes succeeds and the kernel does not panic, from
\* any image whose root is mapped.
TestsPass == kernel # Off /\ M!RootMapped => failed = {} /\ kernel.panic = ""

\* Between two calls: an i-node is allocated exactly if it has a link or a
\* reference; its links are the entries that name it, "." aside; its references
\* are the open files and the current directories; no transaction is open.
FsExact ==
  kernel # Off /\ kernel.panic = "" =>
    LET live == {d \in Inum : kernel.type[d] = "dir" /\ kernel.nlink[d] > 0}
        names(i) == UNION {{<<d, e>> : e \in {x \in DOMAIN kernel.data[d] :
                      kernel.data[d][x].inum = i /\ kernel.data[d][x].name # "."}} : d \in live}
        files(i) == {f \in 1 .. NFILE : kernel.file[f].ref > 0 /\ kernel.file[f].ip = i}
        cwds(i) == (IF kernel.cwd = i THEN 1 ELSE 0) + (IF i = ROOTINO THEN NUM_IDS - 1 ELSE 0)
    IN  /\ ~kernel.trans
        /\ \A i \in Inum :
             /\ kernel.type[i] # "free" <=> kernel.nlink[i] > 0 \/ kernel.ref[i] > 0
             /\ kernel.nlink[i] = Cardinality(names(i))
             /\ kernel.ref[i] = Cardinality(files(i)) + cwds(i)
        /\ Cardinality({f \in 1 .. NFILE : kernel.file[f].ref > 0}) =
             Cardinality({fd \in 0 .. NOFILE - 1 : kernel.fds[fd] # 0})
=============================================================================
