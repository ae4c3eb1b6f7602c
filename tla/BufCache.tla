----------------------------- MODULE BufCache ------------------------------
(***************************************************************************)
(* The buffer cache (kern/fs/bufcache.c) on top of the IDE driver          *)
(* (kern/dev/disk/ide.c).                                                  *)
(*                                                                         *)
(* Kernel code runs with interrupts off and gives up the CPU only in       *)
(* thread_sleep, so a step of a process runs from its call or its wake-up  *)
(* to its next sleep or return, and ide_intr is a step of its own.  The    *)
(* getters of a busy buffer and the process that waits for its transfer    *)
(* sleep on the same channel, the address of the buffer.                   *)
(*                                                                         *)
(* The clients follow the pattern in the comment of log_write: read,       *)
(* modify, write or log_write, release.  Only the process in a transaction *)
(* reads a buffer while it holds another, never one it holds already.      *)
(*                                                                         *)
(* An operator whose name ends in _bug is a faulty variant of the one      *)
(* after it, which the specification does not use: put in its place it     *)
(* must break the property its comment names.                              *)
(***************************************************************************)
EXTENDS Integers, Sequences

CONSTANTS
  Proc,      \* processes in the file system
  Writer,    \* the one in a transaction
  Sector,    \* sectors of the disk
  NBUF,      \* number of buffers
  Val,       \* contents of a sector
  NoSector,  \* the sector of a buffer never used (dev = -1)
  NoProc,    \* no process
  MayFail    \* whether the drive may report an error to a read

ASSUME ConstAssumption ==
  /\ Writer \in Proc
  /\ NBUF \in Nat \ {0}
  /\ Val # {}
  /\ NoSector \notin Sector /\ NoProc \notin Proc
  /\ MayFail \in BOOLEAN

Buf == 1 .. NBUF
NoBuf == 0

VARIABLES
  disk,      \* the sectors
  sector,    \* b->sector
  data,      \* b->data
  busy, valid, dirty,  \* the buffers with B_BUSY, B_VALID, B_DIRTY
  mru,       \* the list from bcache.head, most recently used first
  idequeue,  \* the queue of requests
  active,    \* the buffer of the command given to the drive
  pc,        \* run, or asleep (or woken) in bufcache_get or in ide_rw
  want,      \* the sector bufcache_get looks for
  chan,      \* the buffer a process sleeps on
  held,      \* the buffers a process has made busy
  halted     \* KERN_PANIC has stopped the machine

drive == <<disk, idequeue, active>>
flags == <<busy, valid, dirty>>
vars == <<disk, sector, data, busy, valid, dirty, mru, idequeue, active,
          pc, want, chan, held, halted>>

PC == {"run", "get", "got", "io", "done"}

----------------------------------------------------------------------------
(* The driver.                                                             *)

\* ide_start: a write hands the data to the drive, a read only gives the
\* command.  The caller has set sectors, data and dirty flags to sec, dat, dirt.
ide_start(b, sec, dat, dirt) ==
  /\ active' = b
  /\ disk' = IF b \in dirt THEN [disk EXCEPT ![sec[b]] = dat[b]] ELSE disk

\* ide_rw up to its first thread_sleep.
ide_rw(p, b, sec, dat, dirt) ==
  /\ idequeue' = Append(idequeue, b)
  /\ IF idequeue = <<>> THEN ide_start(b, sec, dat, dirt)
                        ELSE UNCHANGED <<disk, active>>
  /\ pc' = [pc EXCEPT ![p] = "io"]
  /\ chan' = [chan EXCEPT ![p] = b]

\* thread_wakeup(b)
Wakeup(b) ==
  [p \in Proc |-> IF chan[p] # b THEN pc[p]
                  ELSE IF pc[p] = "get" THEN "got"
                  ELSE IF pc[p] = "io" THEN "done" ELSE pc[p]]

\* TransferEnds: the process waits until the drive has nothing to do.
ide_rw_woken_bug(p) ==
  /\ ~halted /\ pc[p] = "done" /\ idequeue = <<>>
  /\ pc' = [pc EXCEPT ![p] = "run"]
  /\ chan' = [chan EXCEPT ![p] = NoBuf]
  /\ UNCHANGED <<drive, sector, data, flags, mru, want, held, halted>>

\* ide_rw goes on after a wake-up.
ide_rw_woken(p) ==
  /\ ~halted /\ pc[p] = "done"
  /\ IF chan[p] \in valid /\ chan[p] \notin dirty
     THEN /\ pc' = [pc EXCEPT ![p] = "run"]
          /\ chan' = [chan EXCEPT ![p] = NoBuf]
     ELSE /\ pc' = [pc EXCEPT ![p] = "io"]
          /\ UNCHANGED chan
  /\ UNCHANGED <<drive, sector, data, flags, mru, want, held, halted>>

\* The interrupt that ends the active request.  A read that fails leaves the
\* data as they were.
ide_intr ==
  /\ ~halted /\ active # NoBuf
  /\ LET b == Head(idequeue)
         rest == Tail(idequeue)
     IN  /\ idequeue' = rest
         /\ \/ /\ b \notin dirty
               /\ data' = [data EXCEPT ![b] = disk[sector[b]]]
            \/ /\ b \in dirty \/ MayFail
               /\ UNCHANGED data
         /\ valid' = valid \cup {b}
         /\ dirty' = dirty \ {b}
         /\ pc' = Wakeup(b)
         /\ IF rest = <<>> THEN active' = NoBuf /\ UNCHANGED disk
                           ELSE ide_start(Head(rest), sector, data, dirty)
  /\ UNCHANGED <<sector, busy, mru, want, chan, held, halted>>

----------------------------------------------------------------------------
(* The cache.                                                              *)

\* A call of bufcache_get, or one that goes to `loop' after a wake-up.
Getting(p, s) ==
  /\ ~halted
  /\ \/ pc[p] = "got" /\ want[p] = s
     \/ /\ pc[p] = "run"
        /\ held[p] = {} \/ p = Writer
        /\ \A b \in held[p] : sector[b] # s

Cached(s) == {b \in Buf : sector[b] = s}

\* CacheIsStore: dirty buffers are recycled.
Clean_bug == Buf \ busy

\* The buffer to recycle: from the least recently used on, the first that is
\* neither busy nor dirty.
Clean == Buf \ (busy \cup dirty)
Victim(b) ==
  \E i \in DOMAIN mru : /\ mru[i] = b /\ b \in Clean
                        /\ \A j \in DOMAIN mru : j > i => mru[j] \notin Clean

\* The sector is cached and its buffer free; the data are there already.
get_cached(p, s) ==
  /\ Getting(p, s)
  /\ \E b \in Cached(s) :
       /\ b \notin busy
       /\ busy' = busy \cup {b}
       /\ held' = [held EXCEPT ![p] = @ \cup {b}]
       /\ IF b \in valid
          THEN /\ pc' = [pc EXCEPT ![p] = "run"]
               /\ chan' = [chan EXCEPT ![p] = NoBuf]
               /\ UNCHANGED drive
          ELSE ide_rw(p, b, sector, data, dirty)
  /\ want' = [want EXCEPT ![p] = NoSector]
  /\ UNCHANGED <<sector, data, valid, dirty, mru, halted>>

\* The sector is cached and its buffer busy.
get_wait(p, s) ==
  /\ Getting(p, s)
  /\ \E b \in Cached(s) :
       /\ b \in busy
       /\ chan' = [chan EXCEPT ![p] = b]
  /\ pc' = [pc EXCEPT ![p] = "get"]
  /\ want' = [want EXCEPT ![p] = s]
  /\ UNCHANGED <<drive, sector, data, flags, mru, held, halted>>

\* OneBufferPerSector: a woken process does not look for the sector again.
get_recycle_bug(p, s) ==
  /\ Getting(p, s) /\ (Cached(s) = {} \/ pc[p] = "got")
  /\ \E b \in Buf :
       /\ Victim(b)
       /\ sector' = [sector EXCEPT ![b] = s]
       /\ busy' = busy \cup {b}
       /\ valid' = valid \ {b}
       /\ held' = [held EXCEPT ![p] = @ \cup {b}]
       /\ ide_rw(p, b, sector', data, dirty)
  /\ want' = [want EXCEPT ![p] = NoSector]
  /\ UNCHANGED <<data, dirty, mru, halted>>

\* The sector is not cached: a buffer is recycled and the sector read.
get_recycle(p, s) ==
  /\ Getting(p, s) /\ Cached(s) = {}
  /\ \E b \in Buf :
       /\ Victim(b)
       /\ sector' = [sector EXCEPT ![b] = s]
       /\ busy' = busy \cup {b}
       /\ valid' = valid \ {b}
       /\ held' = [held EXCEPT ![p] = @ \cup {b}]
       /\ ide_rw(p, b, sector', data, dirty)
  /\ want' = [want EXCEPT ![p] = NoSector]
  /\ UNCHANGED <<data, dirty, mru, halted>>

\* "bufcache_get: no buffers"
get_panic(p, s) ==
  /\ Getting(p, s) /\ Cached(s) = {} /\ Clean = {}
  /\ halted' = TRUE
  /\ UNCHANGED <<drive, sector, data, flags, mru, pc, want, chan, held>>

bufcache_read(p, s) ==
  get_cached(p, s) \/ get_wait(p, s) \/ get_recycle(p, s) \/ get_panic(p, s)

Holds(p, b) == ~halted /\ pc[p] = "run" /\ b \in held[p]

\* The client changes the data and writes them.
bufcache_write(p, b, v) ==
  /\ Holds(p, b) /\ p = Writer
  /\ data' = [data EXCEPT ![b] = v]
  /\ dirty' = dirty \cup {b}
  /\ ide_rw(p, b, sector, data', dirty')
  /\ UNCHANGED <<sector, busy, valid, mru, want, held, halted>>

\* The client changes the data and the end of log_write pins the buffer.
log_write_pin(p, b, v) ==
  /\ Holds(p, b) /\ p = Writer
  /\ data' = [data EXCEPT ![b] = v]
  /\ dirty' = dirty \cup {b}
  /\ UNCHANGED <<drive, sector, busy, valid, mru, pc, want, chan, held, halted>>

\* SleeperHasWaker: nobody is woken.
bufcache_release_bug2(p, b) ==
  /\ Holds(p, b)
  /\ mru' = <<b>> \o SelectSeq(mru, LAMBDA c : c # b)
  /\ busy' = busy \ {b}
  /\ held' = [held EXCEPT ![p] = @ \ {b}]
  /\ UNCHANGED <<drive, sector, data, valid, dirty, pc, want, chan, halted>>

bufcache_release(p, b) ==
  /\ Holds(p, b)
  /\ mru' = <<b>> \o SelectSeq(mru, LAMBDA c : c # b)
  /\ busy' = busy \ {b}
  /\ held' = [held EXCEPT ![p] = @ \ {b}]
  /\ pc' = Wakeup(b)
  /\ UNCHANGED <<drive, sector, data, valid, dirty, want, chan, halted>>

----------------------------------------------------------------------------
\* bufcache_init puts every buffer in turn at the front of the list.
Init ==
  /\ disk \in [Sector -> Val]
  /\ sector = [b \in Buf |-> NoSector]
  /\ data = [b \in Buf |-> CHOOSE v \in Val : TRUE]
  /\ busy = {} /\ valid = {} /\ dirty = {}
  /\ mru = [i \in Buf |-> NBUF + 1 - i]
  /\ idequeue = <<>> /\ active = NoBuf
  /\ pc = [p \in Proc |-> "run"]
  /\ want = [p \in Proc |-> NoSector]
  /\ chan = [p \in Proc |-> NoBuf]
  /\ held = [p \in Proc |-> {}]
  /\ halted = FALSE

\* After a panic the machine stays as it is.
Stopped == halted /\ UNCHANGED vars

Next ==
  \/ ide_intr
  \/ \E p \in Proc : \/ ide_rw_woken(p)
                     \/ \E s \in Sector : bufcache_read(p, s)
                     \/ \E b \in Buf : bufcache_release(p, b)
                     \/ \E b \in Buf, v \in Val : \/ bufcache_write(p, b, v)
                                                 \/ log_write_pin(p, b, v)
  \/ Stopped

Spec == Init /\ [][Next]_vars

\* The drive ends every request with an interrupt, and the scheduler runs
\* every thread that is ready.
Fairness == WF_vars(ide_intr) /\ \A p \in Proc : WF_vars(ide_rw_woken(p))

FairSpec == Spec /\ Fairness

----------------------------------------------------------------------------
(* Properties.                                                             *)

\* Types, but for the list of the buffers.
TypeOK ==
  /\ disk \in [Sector -> Val]
  /\ sector \in [Buf -> Sector \cup {NoSector}]
  /\ data \in [Buf -> Val]
  /\ busy \subseteq Buf /\ valid \subseteq Buf /\ dirty \subseteq Buf
  /\ idequeue \in Seq(Buf) /\ active \in Buf \cup {NoBuf}
  /\ pc \in [Proc -> PC]
  /\ want \in [Proc -> Sector \cup {NoSector}]
  /\ chan \in [Proc -> Buf \cup {NoBuf}]
  /\ held \in [Proc -> SUBSET Buf]
  /\ halted \in BOOLEAN

\* However gets, sleeps and recycling interleave, no sector is cached twice.
OneBufferPerSector ==
  \A b, c \in Buf : sector[b] = sector[c] /\ sector[b] # NoSector => b = c

\* A process asleep in the cache sleeps on something that will wake it: on a
\* buffer another process has yet to release, or on a request in the queue of
\* a drive that is at work on its head.
SleeperHasWaker ==
  /\ \A p \in Proc :
       /\ pc[p] = "get" => \E q \in Proc \ {p} : chan[p] \in held[q]
       /\ pc[p] = "io" => \E i \in DOMAIN idequeue : idequeue[i] = chan[p]
  /\ active = IF idequeue = <<>> THEN NoBuf ELSE Head(idequeue)

Content ==
  [s \in Sector |-> IF Cached(s) \cap valid = {} THEN disk[s]
                    ELSE data[CHOOSE b \in Cached(s) \cap valid : TRUE]]

Owner ==
  [s \in Sector |->
     IF \E p \in Proc : \E b \in held[p] : sector[b] = s
     THEN CHOOSE p \in Proc : \E b \in held[p] : sector[b] = s
     ELSE NoProc]

LS == INSTANCE LockedStore WITH content <- Content, owner <- Owner

\* The cache, its recycling and the queue of the driver are invisible: the
\* content of a sector changes only when the process that holds its buffer
\* changes it, and until then nobody else gets the buffer.
CacheIsStore == LS!Spec

\* Every transfer ends and the process that waits for it goes on, although
\* it shares its channel with the processes waiting for the buffer.
TransferEnds ==
  \A p \in Proc : pc[p] = "io" ~> (pc[p] = "run" \/ halted)

-----------------------------------------------------------------------------
(* The inductive invariant.                                                *)

\* A busy buffer has one holder, and a sector.
Ownership ==
  /\ \A b \in Buf : b \in busy <=> \E p \in Proc : b \in held[p]
  /\ \A p, q \in Proc : \A b \in Buf : b \in held[p] /\ b \in held[q] => p = q
  /\ \A b \in busy : sector[b] # NoSector

Queued(b) == \E i \in DOMAIN idequeue : idequeue[i] = b

\* A process waits for a busy buffer of the sector it wants, or for a transfer
\* of a buffer that it holds.
Waiting ==
  \A p \in Proc :
    /\ pc[p] \in {"get", "got"} => \A b \in held[p] : sector[b] # want[p]
    /\ pc[p] = "get" => chan[p] \in busy /\ sector[chan[p]] = want[p]
    /\ pc[p] \in {"io", "done"} => chan[p] \in held[p]
    /\ pc[p] = "io" => Queued(chan[p])
    /\ pc[p] = "done" => chan[p] \in valid /\ chan[p] \notin dirty

\* The queue has a buffer at most once, with a process that waits for it.
Requests ==
  /\ active = IF idequeue = <<>> THEN NoBuf ELSE Head(idequeue)
  /\ \A i, j \in DOMAIN idequeue : idequeue[i] = idequeue[j] => i = j
  /\ \A i \in DOMAIN idequeue : \E p \in Proc : pc[p] = "io" /\ chan[p] = idequeue[i]

\* A buffer that is not valid is on its way; one that is, and is not dirty, is
\* as the disk; of a dirty one the drive has the data once it is active.
Contents ==
  /\ \A b \in dirty : b \in valid
  /\ \A b \in valid : sector[b] # NoSector
  /\ \A b \in Buf : sector[b] # NoSector /\ b \notin valid => Queued(b)
  /\ \A b \in valid : b \notin dirty => MayFail \/ data[b] = disk[sector[b]]
  /\ active \in dirty => disk[sector[active]] = data[active]

IInv == TypeOK /\ OneBufferPerSector /\ Ownership /\ Waiting /\ Requests /\ Contents

-----------------------------------------------------------------------------
(* What the code does not guarantee: TLC refutes it, when a read may fail  *)
(* (MayFail).                                                              *)

\* "Return a B_BUSY buf with the contents of the indicated disk sector": when
\* ide_rw returns, the buffer has the contents of its sector.
TransferReturnsSector ==
  [][\A p \in Proc : pc[p] = "done" /\ pc'[p] = "run" =>
       data[chan[p]] = disk[sector[chan[p]]]]_vars
=============================================================================
