-------------------------------- MODULE Log --------------------------------
(***************************************************************************)
(* The redo log (kern/fs/log.c), the part of the buffer cache it relies    *)
(* on, and crashes.                                                        *)
(*                                                                         *)
(* A process gives up the CPU only when it sleeps, here in ide_rw and in   *)
(* begin_trans.  One step runs from a wake-up to the next disk transfer    *)
(* and ends with the effect of that transfer; in between other processes   *)
(* run, or the machine crashes.  A crash before the transfer has reached   *)
(* the disk is a crash before the step.  Writing a sector is atomic.       *)
(* Memory is lost in a crash, the disk is kept.                            *)
(*                                                                         *)
(* An operator whose name ends in _bug is a faulty variant of the one      *)
(* after it, which the specification does not use: put in its place it     *)
(* must break the property its comment names.                              *)
(***************************************************************************)
EXTENDS Integers

CONSTANTS
  Proc,      \* processes that call the file system
  Block,     \* blocks outside the log
  Val,       \* block contents
  NoBuf,     \* the content of a block that has no buffer
  LOGSIZE    \* entries of the log: the smaller of LOGSIZE and log.size - 1

ASSUME ConstAssumption ==
  /\ LOGSIZE \in Nat \ {0}
  /\ Block # {} /\ Val # {} /\ NoBuf \notin Val

VARIABLES
  home,      \* disk: the blocks at their home locations
  logblk,    \* disk: the data blocks of the log
  head,      \* disk: the header block
  lh,        \* memory: log.lh
  busy,      \* memory: log.busy
  buf,       \* memory: contents of the buffers of the cache
  dirty,     \* memory: buffers with B_DIRTY set
  first,     \* memory: sys_open's `first'
  mounted,   \* memory: log_init has set log.size
  recovered, \* log_init has returned
  halted,    \* KERN_PANIC has stopped the machine
  pc,        \* where each process is
  blk,       \* the buffer a process holds while it logs it
  at         \* a process's index into the log (i or tail)

disk == <<home, logblk, head>>
cache == <<buf, dirty>>
flags == <<first, mounted, recovered, halted>>
vars == <<home, logblk, head, lh, busy, buf, dirty,
          first, mounted, recovered, halted, pc, blk, at>>

Header == [n : 0 .. LOGSIZE, sector : [1 .. LOGSIZE -> Block]]

InTrans == {"trans", "append", "install", "erase"}
InRecovery == {"superblock", "read_head", "recover", "clear"}
PC == {"user", "asleep", "woken"} \cup InTrans \cup InRecovery

----------------------------------------------------------------------------
(* The buffer cache: bufcache_read loads a block that has no buffer, and   *)
(* bufcache_get takes a buffer for another block unless it is in use or    *)
(* dirty.                                                                  *)
Held ==
  {blk[p] : p \in {q \in Proc : \/ pc[q] = "append"
                                \/ pc[q] \in {"install", "recover"} /\ at[q] > 0}}

bufcache_read(b) ==
  /\ ~halted
  /\ buf[b] = NoBuf
  /\ buf' = [buf EXCEPT ![b] = home[b]]
  /\ UNCHANGED <<dirty, disk, lh, busy, flags, pc, blk, at>>

bufcache_recycle(b) ==
  /\ ~halted
  /\ buf[b] # NoBuf /\ b \notin dirty \cup Held
  /\ buf' = [buf EXCEPT ![b] = NoBuf]
  /\ UNCHANGED <<dirty, disk, lh, busy, flags, pc, blk, at>>

----------------------------------------------------------------------------
(* log_init, called by the first sys_open after a boot.                    *)
sys_open_first(p) ==
  /\ ~halted /\ pc[p] = "user" /\ first
  /\ first' = FALSE
  /\ pc' = [pc EXCEPT ![p] = "superblock"]
  /\ UNCHANGED <<disk, lh, busy, cache, mounted, recovered, halted, blk, at>>

log_init(p) ==
  /\ ~halted /\ pc[p] = "superblock"
  /\ mounted' = TRUE
  /\ pc' = [pc EXCEPT ![p] = "read_head"]
  /\ UNCHANGED <<disk, lh, busy, cache, first, recovered, halted, blk, at>>

\* The first n entries of a header are copied, the others stay.
CopyHeader(from, to) ==
  [n |-> from.n,
   sector |-> [i \in 1 .. LOGSIZE |-> IF i <= from.n THEN from.sector[i]
                                                     ELSE to.sector[i]]]

\* read_head; without a committed transaction recover_from_log goes on to
\* clear the log.
read_head(p) ==
  /\ ~halted /\ pc[p] = "read_head"
  /\ lh' = CopyHeader(head, lh)
  /\ at' = [at EXCEPT ![p] = 0]
  /\ pc' = [pc EXCEPT ![p] = IF head.n = 0 THEN "clear" ELSE "recover"]
  /\ UNCHANGED <<disk, busy, cache, flags, blk>>

\* One iteration of install_trans, for a recovery or a commit: copy a log
\* block to its home location, through the home location's buffer.
install_trans(p) ==
  /\ ~halted /\ pc[p] \in {"recover", "install"}
  /\ at[p] < lh.n
  /\ LET tail == at[p] + 1
         b == lh.sector[tail]
     IN  /\ home' = [home EXCEPT ![b] = logblk[tail]]
         /\ buf' = [buf EXCEPT ![b] = logblk[tail]]
         /\ dirty' = dirty \ {b}
         /\ blk' = [blk EXCEPT ![p] = b]
         /\ at' = [at EXCEPT ![p] = tail]
  /\ UNCHANGED <<logblk, head, lh, busy, flags, pc>>

\* The loop is over: log.lh.n = 0, and write_head erases the transaction.
erase_log(p) ==
  /\ ~halted /\ pc[p] \in {"recover", "install"}
  /\ at[p] >= lh.n
  /\ lh' = [lh EXCEPT !.n = 0]
  /\ head' = [head EXCEPT !.n = 0]
  /\ pc' = [pc EXCEPT ![p] = IF @ = "recover" THEN "clear" ELSE "erase"]
  /\ UNCHANGED <<home, logblk, busy, cache, flags, blk, at>>

\* log_init returns.
log_init_done(p) ==
  /\ ~halted /\ pc[p] = "clear"
  /\ recovered' = TRUE
  /\ pc' = [pc EXCEPT ![p] = "user"]
  /\ UNCHANGED <<disk, lh, busy, cache, first, mounted, halted, blk, at>>

----------------------------------------------------------------------------
(* Transactions.                                                           *)

\* OneTransaction: a woken process does not test log.busy again.
begin_trans_bug(p) ==
  /\ ~halted /\ pc[p] \in {"user", "woken"}
  /\ \/ /\ busy /\ pc[p] = "user"
        /\ pc' = [pc EXCEPT ![p] = "asleep"]
        /\ UNCHANGED busy
     \/ /\ ~busy \/ pc[p] = "woken"
        /\ busy' = TRUE
        /\ pc' = [pc EXCEPT ![p] = "trans"]
  /\ UNCHANGED <<disk, lh, cache, flags, blk, at>>

\* A caller of begin_trans, or one that thread_wakeup made ready again.
begin_trans(p) ==
  /\ ~halted /\ pc[p] \in {"user", "woken"}
  /\ \/ /\ busy
        /\ pc' = [pc EXCEPT ![p] = "asleep"]
        /\ UNCHANGED busy
     \/ /\ ~busy
        /\ busy' = TRUE
        /\ pc' = [pc EXCEPT ![p] = "trans"]
  /\ UNCHANGED <<disk, lh, cache, flags, blk, at>>

\* The log is full; before log_init its size is 0.
Full == lh.n >= IF mounted THEN LOGSIZE ELSE 0

\* The place of b in the log: the one it has already, or the next free one.
LogIndex(b, i) ==
  /\ i \in 1 .. lh.n + 1
  /\ \A j \in 1 .. i - 1 : lh.sector[j] # b
  /\ i <= lh.n => lh.sector[i] = b

\* The system call reads block b, changes it to v and passes it to log_write,
\* which writes the log block.
log_write(p, b, v) ==
  /\ ~halted /\ pc[p] = "trans" /\ b \notin Held
  /\ ~Full /\ busy
  /\ buf' = [buf EXCEPT ![b] = v]
  /\ \E i \in 1 .. lh.n + 1 :
       /\ LogIndex(b, i)
       /\ lh' = [lh EXCEPT !.sector[i] = b]
       /\ logblk' = [logblk EXCEPT ![i] = v]
       /\ at' = [at EXCEPT ![p] = i]
  /\ blk' = [blk EXCEPT ![p] = b]
  /\ pc' = [pc EXCEPT ![p] = "append"]
  /\ UNCHANGED <<dirty, home, head, busy, flags>>

\* "too big a transaction", or "write outside of trans".
log_write_panic(p) ==
  /\ ~halted /\ pc[p] = "trans"
  /\ Full \/ ~busy
  /\ halted' = TRUE
  /\ UNCHANGED <<disk, lh, busy, cache, first, mounted, recovered, pc, blk, at>>

\* CrashAtomic: the buffer is not pinned.
log_written_bug(p) ==
  /\ ~halted /\ pc[p] = "append"
  /\ lh' = IF at[p] = lh.n + 1 THEN [lh EXCEPT !.n = @ + 1] ELSE lh
  /\ pc' = [pc EXCEPT ![p] = "trans"]
  /\ UNCHANGED <<disk, busy, cache, flags, blk, at>>

\* The end of log_write pins the buffer.
log_written(p) ==
  /\ ~halted /\ pc[p] = "append"
  /\ lh' = IF at[p] = lh.n + 1 THEN [lh EXCEPT !.n = @ + 1] ELSE lh
  /\ dirty' = dirty \cup {blk[p]}
  /\ pc' = [pc EXCEPT ![p] = "trans"]
  /\ UNCHANGED <<disk, busy, buf, flags, blk, at>>

\* WaiterWoken: the waiting processes are not woken.
EndTrans_bug(p) ==
  /\ busy' = FALSE
  /\ pc' = [pc EXCEPT ![p] = "user"]

\* The end of commit_trans: log.busy = 0 and thread_wakeup(&log).
EndTrans(p) ==
  /\ busy' = FALSE
  /\ pc' = [q \in Proc |-> IF q = p THEN "user"
                           ELSE IF pc[q] = "asleep" THEN "woken" ELSE pc[q]]

\* write_head, "the true point at which the current transaction commits";
\* a transaction that wrote nothing just ends.
commit_trans(p) ==
  /\ ~halted /\ pc[p] = "trans"
  /\ \/ /\ lh.n > 0
        /\ head' = CopyHeader(lh, head)
        /\ at' = [at EXCEPT ![p] = 0]
        /\ pc' = [pc EXCEPT ![p] = "install"]
        /\ UNCHANGED busy
     \/ /\ lh.n = 0
        /\ EndTrans(p)
        /\ UNCHANGED <<head, at>>
  /\ UNCHANGED <<home, logblk, lh, cache, flags, blk>>

commit_done(p) ==
  /\ ~halted /\ pc[p] = "erase"
  /\ EndTrans(p)
  /\ UNCHANGED <<disk, lh, cache, flags, blk, at>>

----------------------------------------------------------------------------
EmptyHeader ==
  [n |-> 0, sector |-> [i \in 1 .. LOGSIZE |-> CHOOSE b \in Block : TRUE]]

\* A crash, or the reset of a machine that has panicked: memory is lost.
crash ==
  /\ lh' = EmptyHeader /\ busy' = FALSE
  /\ buf' = [b \in Block |-> NoBuf] /\ dirty' = {}
  /\ first' = TRUE /\ mounted' = FALSE /\ recovered' = FALSE /\ halted' = FALSE
  /\ pc' = [p \in Proc |-> "user"]
  /\ blk' = [p \in Proc |-> CHOOSE b \in Block : TRUE]
  /\ at' = [p \in Proc |-> 0]
  /\ UNCHANGED disk

\* The disk mkfs writes: some files and an empty log.
Init ==
  /\ home \in [Block -> Val]
  /\ logblk = [i \in 1 .. LOGSIZE |-> CHOOSE v \in Val : TRUE]
  /\ head = EmptyHeader
  /\ lh = EmptyHeader /\ busy = FALSE
  /\ buf = [b \in Block |-> NoBuf] /\ dirty = {}
  /\ first = TRUE /\ mounted = FALSE /\ recovered = FALSE /\ halted = FALSE
  /\ pc = [p \in Proc |-> "user"]
  /\ blk = [p \in Proc |-> CHOOSE b \in Block : TRUE]
  /\ at = [p \in Proc |-> 0]

\* The steps in which a process goes on after a disk transfer.
Step(p) ==
  \/ log_init(p) \/ read_head(p) \/ install_trans(p) \/ erase_log(p)
  \/ log_init_done(p) \/ log_written(p) \/ commit_done(p)

\* System calls that start transactions come after the first sys_open has
\* returned from log_init.
Next ==
  \/ \E p \in Proc : \/ sys_open_first(p)
                     \/ Step(p)
                     \/ recovered /\ begin_trans(p)
                     \/ \E b \in Block, v \in Val : log_write(p, b, v)
                     \/ log_write_panic(p)
                     \/ commit_trans(p)
  \/ \E b \in Block : bufcache_read(b) \/ bufcache_recycle(b)
  \/ crash

Spec == Init /\ [][Next]_vars

\* What the code allows: nothing makes a system call wait for log_init.
EagerNext == Next \/ \E p \in Proc : begin_trans(p)
EagerSpec == Init /\ [][EagerNext]_vars

\* A process whose disk transfer is done, or that was woken, runs again (the
\* scheduler is fair), and a system call makes finitely many log_writes.
Fairness ==
  \A p \in Proc : /\ WF_vars(Step(p))
                  /\ WF_vars(pc[p] = "woken" /\ begin_trans(p))
                  /\ SF_vars(commit_trans(p))

FairSpec == Spec /\ Fairness

----------------------------------------------------------------------------
(* Properties.                                                             *)

\* Every variable has the type of the C object it models.
TypeOK ==
  /\ home \in [Block -> Val]
  /\ logblk \in [1 .. LOGSIZE -> Val]
  /\ head \in Header /\ lh \in Header
  /\ buf \in [Block -> Val \cup {NoBuf}] /\ dirty \subseteq Block
  /\ busy \in BOOLEAN /\ first \in BOOLEAN /\ mounted \in BOOLEAN
  /\ recovered \in BOOLEAN /\ halted \in BOOLEAN
  /\ pc \in [Proc -> PC]
  /\ blk \in [Proc -> Block]
  /\ at \in [Proc -> 0 .. LOGSIZE]

\* "begin_trans() ensures that only one system call can be in a transaction".
OneTransaction ==
  \A p, q \in Proc : pc[p] \in InTrans /\ pc[q] \in InTrans => p = q

\* The store that recovery would produce from the disk.
Recovered ==
  [b \in Block |-> IF \E i \in 1 .. head.n : head.sector[i] = b
                   THEN logblk[CHOOSE i \in 1 .. head.n : head.sector[i] = b]
                   ELSE home[b]]

\* What a system call sees: the buffers, and the disk for the other blocks.
Visible ==
  IF recovered THEN [b \in Block |-> IF buf[b] = NoBuf THEN home[b] ELSE buf[b]]
  ELSE Recovered

AD == INSTANCE AtomicDisk WITH store <- Recovered, working <- Visible

\* The log makes transactions atomic across crashes: the store recovery would
\* produce changes only when a commit replaces it by what the system call saw,
\* whatever buffers are recycled, and a crash at any point, in recovery too,
\* loses either the whole transaction or nothing of it.
CrashAtomic == AD!Spec

\* "This is the true point at which the current transaction commits": what
\* recovery would produce changes only when commit_trans writes the header.
StoreChangesAtCommit ==
  [][Recovered' # Recovered =>
       \E p \in Proc : pc[p] = "trans" /\ pc'[p] = "install"]_vars

\* No wakeup is lost: a process that sleeps in begin_trans is woken when the
\* transaction ends, unless the machine stops.
WaiterWoken ==
  \A p \in Proc : pc[p] = "asleep" ~> (pc[p] # "asleep" \/ halted)

----------------------------------------------------------------------------
(* The inductive invariant behind CrashAtomic.                             *)

\* Who may be where.
Exclusion ==
  /\ OneTransaction
  /\ \A p \in Proc : pc[p] \in InTrans => busy /\ recovered
  /\ \A p, q \in Proc : pc[p] \in InRecovery /\ pc[q] \in InRecovery => p = q
  /\ \A p \in Proc : pc[p] \in InRecovery => ~recovered /\ ~first
  /\ recovered => ~first

\* No block is logged twice.
Distinct(h) == \A i, j \in 1 .. h.n : h.sector[i] = h.sector[j] => i = j

\* The two headers and the home locations at each stage.
Stages ==
  /\ Distinct(lh) /\ Distinct(head)
  /\ lh.n # 0 => \E p \in Proc : pc[p] \in {"trans", "append", "install", "recover"}
  /\ head.n # 0 /\ recovered => \E p \in Proc : pc[p] = "install"
  /\ \A p \in Proc :
       /\ pc[p] \in {"trans", "append", "erase", "clear"} => head.n = 0
       /\ pc[p] \in {"erase", "clear"} => lh.n = 0
       /\ pc[p] \in {"install", "recover"} =>
            /\ head.n = lh.n
            /\ \A i \in 1 .. lh.n : head.sector[i] = lh.sector[i]
            /\ at[p] <= lh.n
            /\ \A i \in 1 .. at[p] : home[lh.sector[i]] = logblk[i]
       /\ pc[p] = "append" =>
            /\ LogIndex(blk[p], at[p])
            /\ lh.sector[at[p]] = blk[p]
            /\ buf[blk[p]] = logblk[at[p]]

\* A buffer that is neither dirty nor being logged agrees with the disk; a
\* dirty one is logged and not yet installed, and agrees with the log.
Coherent ==
  /\ \A b \in Block : \/ buf[b] \in {NoBuf, home[b]}
                      \/ b \in dirty
                      \/ \E p \in Proc : pc[p] = "append" /\ blk[p] = b
  /\ \A b \in dirty : \E p \in Proc : \E i \in 1 .. lh.n :
       /\ pc[p] \in {"trans", "append", "install"}
       /\ lh.sector[i] = b
       /\ pc[p] = "install" => i > at[p]
  /\ \A p \in Proc, i \in 1 .. lh.n :
       pc[p] \in {"trans", "append", "install"} =>
         /\ lh.sector[i] \in dirty => buf[lh.sector[i]] = logblk[i]
         /\ lh.sector[i] \in dirty \/ (pc[p] = "install" /\ i <= at[p])

IInv == TypeOK /\ Exclusion /\ Stages /\ Coherent
=============================================================================
