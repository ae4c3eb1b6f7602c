--------------------------- MODULE BufCacheProofs ---------------------------
(***************************************************************************)
(* Proofs about BufCache for every set of processes and sectors and every  *)
(* number of buffers: its invariants, and that it implements LockedStore.  *)
(***************************************************************************)
EXTENDS BufCache, TLAPS

-----------------------------------------------------------------------------
(* The queue of requests.                                                  *)

\* What ide_rw makes of the queue.
LEMMA AppendRequest ==
  ASSUME NEW q \in Seq(Buf), NEW b \in Buf
  PROVE  /\ Append(q, b) \in Seq(Buf) /\ Append(q, b) # <<>>
         /\ DOMAIN q = 1 .. Len(q) /\ DOMAIN Append(q, b) = 1 .. Len(q) + 1
         /\ \A i \in 1 .. Len(q) : Append(q, b)[i] = q[i]
         /\ Append(q, b)[Len(q) + 1] = b
         /\ Head(Append(q, b)) = IF q = <<>> THEN b ELSE Head(q)
<1>1. /\ Append(q, b) \in Seq(Buf) /\ Len(Append(q, b)) = Len(q) + 1 /\ Len(q) \in Nat
      /\ DOMAIN q = 1 .. Len(q) /\ DOMAIN Append(q, b) = 1 .. Len(q) + 1
      /\ \A i \in 1 .. Len(q) : Append(q, b)[i] = q[i]
      /\ Append(q, b)[Len(q) + 1] = b
  OBVIOUS
<1>2. Append(q, b) # <<>>
  BY <1>1
<1>3. Head(Append(q, b)) = Append(q, b)[1]
  BY <1>1, <1>2
<1>4. CASE q = <<>>
  BY <1>1, <1>2, <1>3, <1>4
<1>5. CASE q # <<>>
  <2>1. Head(q) = q[1] /\ 1 \in 1 .. Len(q)
    BY <1>5
  <2> QED
    BY <1>1, <1>2, <1>3, <1>5, <2>1, Zenon
<1> QED
  BY <1>4, <1>5, Zenon

\* What ide_intr makes of it.
LEMMA TailRequest ==
  ASSUME NEW q \in Seq(Buf), q # <<>>
  PROVE  /\ Head(q) = q[1] /\ q[1] \in Buf /\ Len(q) \in Nat \ {0}
         /\ Tail(q) \in Seq(Buf)
         /\ DOMAIN q = 1 .. Len(q) /\ DOMAIN Tail(q) = 1 .. Len(q) - 1
         /\ \A i \in 1 .. Len(q) - 1 : Tail(q)[i] = q[i + 1]
         /\ Tail(q) # <<>> => Len(q) > 1 /\ Head(Tail(q)) = q[2] /\ q[2] \in Buf
  OBVIOUS

-----------------------------------------------------------------------------
(* The invariant.                                                          *)

\* The initial state satisfies the invariant.
LEMMA InitIInv == Init => IInv
<1> SUFFICES ASSUME Init PROVE IInv
  BY Zenon
<1> USE ConstAssumption
<1>1. TypeOK
  <2>1. (CHOOSE v \in Val : TRUE) \in Val
    BY Zenon
  <2>2. /\ sector \in [Buf -> Sector \cup {NoSector}] /\ data \in [Buf -> Val]
        /\ pc \in [Proc -> PC] /\ want \in [Proc -> Sector \cup {NoSector}]
        /\ chan \in [Proc -> Buf \cup {NoBuf}] /\ held \in [Proc -> SUBSET Buf]
    BY <2>1, Zenon DEF Init, PC
  <2>3. /\ disk \in [Sector -> Val] /\ busy = {} /\ valid = {} /\ dirty = {}
        /\ idequeue = <<>> /\ active = NoBuf /\ halted = FALSE
    BY Zenon DEF Init
  <2>4. idequeue \in Seq(Buf)
    BY <2>3
  <2> QED
    BY <2>2, <2>3, <2>4, ZenonT(60) DEF TypeOK
<1>2. OneBufferPerSector /\ Ownership /\ Waiting
  BY Zenon DEF Init, OneBufferPerSector, Ownership, Waiting
<1>3. Requests /\ Contents
  BY DEF Init, Requests, Contents, NoBuf
<1> QED
  BY <1>1, <1>2, <1>3, Zenon DEF IInv

\* ide_rw_woken finds the transfer done.
LEMMA WokenIInv == ASSUME NEW p \in Proc, IInv, ide_rw_woken(p) PROVE IInv'
<1> USE ConstAssumption
<1>1. /\ pc[p] = "done" /\ pc' = [pc EXCEPT ![p] = "run"] /\ chan' = [chan EXCEPT ![p] = NoBuf]
  BY Zenon DEF ide_rw_woken, IInv, Waiting
<1>2. UNCHANGED <<disk, idequeue, active, sector, data, busy, valid, dirty, want, held, halted>>
  BY Zenon DEF ide_rw_woken, drive, flags
<1>3. TypeOK'
  BY <1>1, <1>2, Zenon DEF IInv, TypeOK, PC
<1>4. OneBufferPerSector' /\ Ownership'
  BY <1>2, Zenon DEF IInv, OneBufferPerSector, Ownership
<1>5. \A q \in Proc : q # p => pc'[q] = pc[q] /\ chan'[q] = chan[q]
  BY <1>1, Zenon DEF IInv, TypeOK
<1>6. pc'[p] = "run"
  BY <1>1, Zenon DEF IInv, TypeOK
<1>7. Waiting'
  BY <1>2, <1>5, <1>6 DEF IInv, Waiting, Queued
<1>8. Requests'
  BY <1>1, <1>2, <1>5 DEF IInv, Requests
<1>9. Contents'
  BY <1>2, Zenon DEF IInv, Contents, Queued
<1> QED
  BY <1>3, <1>4, <1>7, <1>8, <1>9, Zenon DEF IInv

\* The part of a step that calls ide_rw for the buffer that p then waits for.
LEMMA RwRequests ==
  ASSUME NEW p \in Proc, NEW b \in Buf, NEW sec, NEW dat, NEW dirt,
         TypeOK, Requests, pc[p] # "io", ~Queued(b), ide_rw(p, b, sec, dat, dirt)
  PROVE  /\ idequeue' \in Seq(Buf) /\ active' \in Buf
         /\ pc' \in [Proc -> PC] /\ chan' \in [Proc -> Buf \cup {NoBuf}]
         /\ pc'[p] = "io" /\ chan'[p] = b
         /\ \A q \in Proc : q # p => pc'[q] = pc[q] /\ chan'[q] = chan[q]
         /\ Queued(b)' /\ \A c \in Buf : Queued(c) => Queued(c)'
         /\ Requests'
         /\ \/ active' = active /\ disk' = disk
            \/ /\ active' = b
               /\ disk' = IF b \in dirt THEN [disk EXCEPT ![sec[b]] = dat[b]] ELSE disk
<1> DEFINE n == Len(idequeue)
<1>1. idequeue \in Seq(Buf) /\ pc \in [Proc -> PC] /\ chan \in [Proc -> Buf \cup {NoBuf}]
  BY Zenon DEF TypeOK
<1>2. /\ idequeue' = Append(idequeue, b)
      /\ pc' = [pc EXCEPT ![p] = "io"] /\ chan' = [chan EXCEPT ![p] = b]
  BY Zenon DEF ide_rw
<1>3. /\ idequeue' \in Seq(Buf) /\ idequeue' # <<>>
      /\ n \in Nat /\ DOMAIN idequeue = 1 .. n /\ DOMAIN idequeue' = 1 .. n + 1
      /\ \A i \in 1 .. n : idequeue'[i] = idequeue[i]
      /\ idequeue'[n + 1] = b
      /\ Head(idequeue') = IF idequeue = <<>> THEN b ELSE Head(idequeue)
  BY <1>1, <1>2, AppendRequest
<1> HIDE DEF n
<1>4. /\ pc' \in [Proc -> PC] /\ chan' \in [Proc -> Buf \cup {NoBuf}]
      /\ pc'[p] = "io" /\ chan'[p] = b
      /\ \A q \in Proc : q # p => pc'[q] = pc[q] /\ chan'[q] = chan[q]
  BY <1>1, <1>2, Zenon DEF PC
<1>5. Queued(b)' /\ \A c \in Buf : Queued(c) => Queued(c)'
  BY <1>3 DEF Queued
<1>6. /\ active' = Head(idequeue')
      /\ \/ active' = active /\ disk' = disk
         \/ /\ active' = b
            /\ disk' = IF b \in dirt THEN [disk EXCEPT ![sec[b]] = dat[b]] ELSE disk
  BY <1>3, Zenon DEF ide_rw, ide_start, Requests
<1>7. active' \in Buf
  BY <1>1, <1>3, <1>6, TailRequest, ZenonT(30)
<1>8. Requests'
  <2>1. \A i, j \in 1 .. n + 1 : idequeue'[i] = idequeue'[j] => i = j
    <3>1. \A i \in 1 .. n : idequeue[i] # b
      BY <1>3, Zenon DEF Queued
    <3>2. \A i \in 1 .. n + 1 : i \in 1 .. n \/ i = n + 1
      BY <1>3
    <3>3. \A i, j \in 1 .. n : idequeue[i] = idequeue[j] => i = j
      BY <1>3, Zenon DEF Requests
    <3> QED
      BY <1>3, <3>1, <3>2, <3>3, ZenonT(30)
  <2>2. ASSUME NEW i \in 1 .. n + 1
        PROVE  \E q \in Proc : pc'[q] = "io" /\ chan'[q] = idequeue'[i]
    <3>1. CASE i = n + 1
      BY <1>3, <1>4, <3>1, Zenon
    <3>2. CASE i \in 1 .. n
      <4>1. PICK q \in Proc : pc[q] = "io" /\ chan[q] = idequeue[i]
        BY <1>3, <3>2, Zenon DEF Requests
      <4> QED
        BY <1>3, <1>4, <3>2, <4>1, Zenon
    <3> QED
      BY <1>3, <3>1, <3>2
  <2> QED
    BY <1>3, <1>6, <2>1, <2>2, Zenon DEF Requests
<1> QED
  BY <1>3, <1>4, <1>5, <1>6, <1>7, <1>8, Zenon

\* Only busy buffers are in the queue, each with its holder waiting.
LEMMA QueuedBusy ==
  ASSUME IInv, NEW b \in Buf, Queued(b)
  PROVE  \E q \in Proc : pc[q] = "io" /\ chan[q] = b /\ b \in held[q] /\ b \in busy
<1>1. PICK q \in Proc : pc[q] = "io" /\ chan[q] = b
  BY Zenon DEF IInv, Requests, Queued
<1> QED
  BY <1>1, Zenon DEF IInv, Waiting, Ownership

\* A process that gets a buffer sleeps nowhere and holds none of the sector.
LEMMA GettingFacts ==
  ASSUME IInv, NEW p \in Proc, NEW s \in Sector, Getting(p, s)
  PROVE  pc[p] \in {"run", "got"} /\ \A b \in held[p] : sector[b] # s
  BY ZenonT(30) DEF Getting, IInv, Waiting

\* get_cached finds valid data.
LEMMA CachedIInv ==
  ASSUME NEW p \in Proc, NEW s \in Sector, IInv, get_cached(p, s) PROVE IInv'
<1> USE ConstAssumption
<1>1. PICK b \in Buf :
        /\ sector[b] = s /\ b \notin busy
        /\ busy' = busy \cup {b}
        /\ held' = [held EXCEPT ![p] = @ \cup {b}]
        /\ b \in valid => /\ pc' = [pc EXCEPT ![p] = "run"]
                          /\ chan' = [chan EXCEPT ![p] = NoBuf]
                          /\ UNCHANGED drive
  BY ZenonT(60) DEF get_cached, Cached
<1>2. b \in valid
  BY <1>1, QueuedBusy, Zenon DEF IInv, Contents
<1>3. /\ UNCHANGED <<disk, idequeue, active, sector, data, valid, dirty, halted>>
      /\ pc' = [pc EXCEPT ![p] = "run"] /\ chan' = [chan EXCEPT ![p] = NoBuf]
      /\ want' = [want EXCEPT ![p] = NoSector]
  BY <1>1, <1>2, Zenon DEF get_cached, drive
<1>4. pc[p] \in {"run", "got"}
  BY GettingFacts, Zenon DEF get_cached
<1>5. TypeOK'
  BY <1>1, <1>3, ZenonT(30) DEF IInv, TypeOK, PC
<1>6. /\ held'[p] = held[p] \cup {b} /\ pc'[p] = "run"
      /\ \A q \in Proc : q # p => /\ held'[q] = held[q] /\ pc'[q] = pc[q]
                                 /\ chan'[q] = chan[q] /\ want'[q] = want[q]
  BY <1>1, <1>3, ZenonT(30) DEF IInv, TypeOK
<1>7. OneBufferPerSector' /\ Ownership'
  BY <1>1, <1>3, <1>6 DEF IInv, TypeOK, OneBufferPerSector, Ownership
<1>8. Waiting'
  BY <1>1, <1>3, <1>6, SMTT(30) DEF IInv, Waiting, Queued
<1>9. Requests'
  BY <1>3, <1>4, <1>6 DEF IInv, Requests
<1>10. Contents'
  BY <1>3, Zenon DEF IInv, Contents, Queued
<1> QED
  BY <1>5, <1>7, <1>8, <1>9, <1>10, Zenon DEF IInv

\* get_wait sleeps on a buffer that somebody else holds.
LEMMA WaitIInv ==
  ASSUME NEW p \in Proc, NEW s \in Sector, IInv, get_wait(p, s) PROVE IInv'
<1> USE ConstAssumption
<1>1. PICK b \in Buf : sector[b] = s /\ b \in busy /\ chan' = [chan EXCEPT ![p] = b]
  BY ZenonT(60) DEF get_wait, Cached
<1>2. /\ UNCHANGED <<disk, idequeue, active, sector, data, busy, valid, dirty, held, halted>>
      /\ pc' = [pc EXCEPT ![p] = "get"] /\ want' = [want EXCEPT ![p] = s]
  BY Zenon DEF get_wait, drive, flags
<1>3. pc[p] \in {"run", "got"} /\ \A c \in held[p] : sector[c] # s
  BY GettingFacts, Zenon DEF get_wait
<1>4. TypeOK'
  BY <1>1, <1>2, Zenon DEF IInv, TypeOK, PC
<1>5. /\ pc'[p] = "get" /\ chan'[p] = b /\ want'[p] = s
      /\ \A q \in Proc : q # p => pc'[q] = pc[q] /\ chan'[q] = chan[q] /\ want'[q] = want[q]
  BY <1>1, <1>2, Zenon DEF IInv, TypeOK
<1>6. OneBufferPerSector' /\ Ownership'
  BY <1>2, Zenon DEF IInv, OneBufferPerSector, Ownership
<1>7. Waiting'
  BY <1>1, <1>2, <1>3, <1>5, SMTT(30) DEF IInv, Waiting, Queued
<1>8. Requests'
  BY <1>2, <1>3, <1>5, SMTT(30) DEF IInv, Requests
<1>9. Contents'
  BY <1>2, Zenon DEF IInv, Contents, Queued
<1> QED
  BY <1>4, <1>6, <1>7, <1>8, <1>9, Zenon DEF IInv

\* get_recycle takes a buffer that nobody holds and whose data are on the disk.
LEMMA RecycleIInv ==
  ASSUME NEW p \in Proc, NEW s \in Sector, IInv, get_recycle(p, s) PROVE IInv'
<1> USE ConstAssumption
<1>1. PICK b \in Buf :
        /\ b \notin busy /\ b \notin dirty
        /\ sector' = [sector EXCEPT ![b] = s]
        /\ busy' = busy \cup {b} /\ valid' = valid \ {b}
        /\ held' = [held EXCEPT ![p] = @ \cup {b}]
        /\ ide_rw(p, b, sector', data, dirty)
  BY ZenonT(60) DEF get_recycle, Victim, Clean
<1>2. /\ UNCHANGED <<data, dirty, halted>> /\ want' = [want EXCEPT ![p] = NoSector]
      /\ \A c \in Buf : sector[c] # s
  BY Zenon DEF get_recycle, Cached
<1>3. pc[p] \in {"run", "got"} /\ ~Queued(b)
  BY <1>1, GettingFacts, QueuedBusy, Zenon DEF get_recycle
<1>4. /\ idequeue' \in Seq(Buf) /\ active' \in Buf
      /\ pc' \in [Proc -> PC] /\ chan' \in [Proc -> Buf \cup {NoBuf}]
      /\ pc'[p] = "io" /\ chan'[p] = b
      /\ \A q \in Proc : q # p => pc'[q] = pc[q] /\ chan'[q] = chan[q]
      /\ Queued(b)' /\ \A c \in Buf : Queued(c) => Queued(c)'
      /\ Requests'
      /\ disk' = disk /\ active' \in {active, b}
  BY <1>1, <1>3, RwRequests, ZenonT(30) DEF IInv
<1>5. TypeOK'
  BY <1>1, <1>2, <1>4, ZenonT(60) DEF IInv, TypeOK
<1>6. /\ held'[p] = held[p] \cup {b} /\ sector'[b] = s
      /\ \A c \in Buf : c # b => sector'[c] = sector[c]
      /\ \A q \in Proc : q # p => held'[q] = held[q] /\ want'[q] = want[q]
  BY <1>1, <1>2, Zenon DEF IInv, TypeOK
<1>7. OneBufferPerSector'
  BY <1>2, <1>6 DEF IInv, OneBufferPerSector
<1>8. Ownership'
  BY <1>1, <1>6, SMTT(30) DEF IInv, TypeOK, Ownership
<1>9. Waiting'
  <2> SUFFICES ASSUME NEW q \in Proc, q # p
               PROVE  /\ pc[q] \in {"get", "got"} => \A c \in held[q] : sector'[c] # want[q]
                      /\ pc[q] = "get" => chan[q] \in busy' /\ sector'[chan[q]] = want[q]
                      /\ pc[q] \in {"io", "done"} => chan[q] \in held[q]
                      /\ pc[q] = "io" => Queued(chan[q])'
                      /\ pc[q] = "done" => chan[q] \in valid' /\ chan[q] \notin dirty'
    BY <1>4, <1>6 DEF Waiting
  <2>1. held[q] \subseteq Buf /\ b \notin held[q] /\ busy \subseteq Buf
    BY <1>1, Zenon DEF IInv, Ownership, TypeOK
  <2>2. /\ pc[q] \in {"get", "got"} => \A c \in held[q] : sector[c] # want[q]
        /\ pc[q] = "get" => chan[q] \in busy /\ sector[chan[q]] = want[q]
        /\ pc[q] \in {"io", "done"} => chan[q] \in held[q]
        /\ pc[q] = "io" => Queued(chan[q])
        /\ pc[q] = "done" => chan[q] \in valid /\ chan[q] \notin dirty
    BY Zenon DEF IInv, Waiting
  <2> QED
    BY <1>1, <1>2, <1>4, <1>6, <2>1, <2>2, SMTT(30)
<1>10. Contents'
  <2>1. \A c \in dirty : c \in Buf /\ c # b /\ c \in valid /\ c \in valid'
    BY <1>1, Zenon DEF IInv, Contents, TypeOK
  <2>2. \A c \in valid' : c \in Buf /\ c # b /\ c \in valid
    BY <1>1, Zenon DEF IInv, TypeOK
  <2>3. \A c \in Buf : sector'[c] # NoSector /\ c \notin valid' => Queued(c)'
    BY <1>1, <1>4, <1>6, ZenonT(30) DEF IInv, Contents
  <2>4. active' \in dirty => active' = active
    BY <1>1, <1>4, Zenon
  <2> QED
    BY <1>2, <1>4, <1>6, <2>1, <2>2, <2>3, <2>4 DEF IInv, Contents
<1> QED
  BY <1>4, <1>5, <1>7, <1>8, <1>9, <1>10, Zenon DEF IInv

\* bufcache_write hands the data of a buffer that p holds to the drive.
LEMMA WriteIInv ==
  ASSUME NEW p \in Proc, NEW b \in Buf, NEW v \in Val, IInv, bufcache_write(p, b, v)
  PROVE  IInv'
<1> USE ConstAssumption
<1>1. /\ pc[p] = "run" /\ b \in held[p]
      /\ data' = [data EXCEPT ![b] = v] /\ dirty' = dirty \cup {b}
      /\ ide_rw(p, b, sector, data', dirty')
      /\ UNCHANGED <<sector, busy, valid, want, held, halted>>
  BY Zenon DEF bufcache_write, Holds
<1>2. ~Queued(b)
  BY <1>1, QueuedBusy, ZenonT(30) DEF IInv, Ownership
<1>3. b \in valid /\ sector[b] \in Sector
  BY <1>1, <1>2, SMTT(30) DEF IInv, Ownership, Contents, TypeOK
<1>4. /\ idequeue' \in Seq(Buf) /\ active' \in Buf
      /\ pc' \in [Proc -> PC] /\ chan' \in [Proc -> Buf \cup {NoBuf}]
      /\ pc'[p] = "io" /\ chan'[p] = b
      /\ \A q \in Proc : q # p => pc'[q] = pc[q] /\ chan'[q] = chan[q]
      /\ Queued(b)' /\ \A c \in Buf : Queued(c) => Queued(c)'
      /\ Requests'
      /\ \/ active' = active /\ disk' = disk
         \/ active' = b /\ disk' = [disk EXCEPT ![sector[b]] = data'[b]]
  <2>1. b \in dirty' /\ pc[p] # "io" /\ TypeOK /\ Requests
    BY <1>1, Zenon DEF IInv
  <2>2. \/ active' = active /\ disk' = disk
        \/ /\ active' = b
           /\ disk' = IF b \in dirty' THEN [disk EXCEPT ![sector[b]] = data'[b]] ELSE disk
    BY <1>1, Zenon DEF ide_rw, ide_start
  <2> QED
    BY <1>1, <1>2, <2>1, <2>2, RwRequests, ZenonT(30)
<1>5. data' \in [Buf -> Val] /\ data'[b] = v /\ \A c \in Buf : c # b => data'[c] = data[c]
  BY <1>1, Zenon DEF IInv, TypeOK
<1>6. TypeOK'
  BY <1>1, <1>3, <1>4, <1>5, SMTT(30) DEF IInv, TypeOK
<1>7. OneBufferPerSector' /\ Ownership'
  BY <1>1, Zenon DEF IInv, OneBufferPerSector, Ownership
<1>8. Waiting'
  <2> SUFFICES ASSUME NEW q \in Proc, q # p
               PROVE  /\ pc[q] \in {"get", "got"} => \A c \in held[q] : sector[c] # want[q]
                      /\ pc[q] = "get" => chan[q] \in busy /\ sector[chan[q]] = want[q]
                      /\ pc[q] \in {"io", "done"} => chan[q] \in held[q]
                      /\ pc[q] = "io" => Queued(chan[q])'
                      /\ pc[q] = "done" => chan[q] \in valid /\ chan[q] \notin dirty'
    BY <1>1, <1>4 DEF Waiting
  <2>1. held[q] \subseteq Buf /\ b \notin held[q]
    BY <1>1, Zenon DEF IInv, Ownership, TypeOK
  <2> QED
    BY <1>1, <1>4, <2>1, Zenon DEF IInv, Waiting
<1>9. Contents'
  <2>1. \A c \in dirty' : c \in valid'
    BY <1>1, <1>3, Zenon DEF IInv, Contents
  <2>2. \A c \in Buf : c # b => \/ disk'[sector[c]] = disk[sector[c]]
                                \/ sector[c] = NoSector
    BY <1>3, <1>4, SMTT(30) DEF IInv, OneBufferPerSector, TypeOK
  <2>3. \A c \in valid' : c \notin dirty' => MayFail \/ data'[c] = disk'[sector[c]]
    BY <1>1, <1>5, <2>2, ZenonT(30) DEF IInv, Contents, TypeOK
  <2>4. active' \in dirty' => disk'[sector[active']] = data'[active']
    <3>1. CASE active' = active /\ disk' = disk
      <4>1. active' # b
        <5>1. idequeue # <<>> => active = idequeue[1] /\ 1 \in DOMAIN idequeue
          BY TailRequest DEF IInv, Requests, TypeOK
        <5>2. NoBuf \notin Buf
          BY DEF NoBuf, Buf
        <5> QED
          BY <1>2, <1>4, <3>1, <5>1, <5>2 DEF Queued, IInv, Requests
      <4> QED
        BY <1>1, <1>4, <1>5, <3>1, <4>1, Zenon DEF IInv, Contents
    <3>2. CASE active' = b /\ disk' = [disk EXCEPT ![sector[b]] = data'[b]]
      BY <1>3, <3>2, Zenon DEF IInv, TypeOK
    <3> QED
      BY <1>4, <3>1, <3>2, Zenon
  <2> QED
    BY <1>1, <1>4, <2>1, <2>3, <2>4, ZenonT(30) DEF IInv, Contents
<1> QED
  BY <1>4, <1>6, <1>7, <1>8, <1>9, Zenon DEF IInv

\* log_write_pin changes a buffer that no transfer is about.
LEMMA PinIInv ==
  ASSUME NEW p \in Proc, NEW b \in Buf, NEW v \in Val, IInv, log_write_pin(p, b, v)
  PROVE  IInv'
<1> USE ConstAssumption
<1>1. /\ pc[p] = "run" /\ b \in held[p]
      /\ data' = [data EXCEPT ![b] = v] /\ dirty' = dirty \cup {b}
      /\ UNCHANGED <<disk, idequeue, active, sector, busy, valid, pc, want, chan, held, halted>>
  BY Zenon DEF log_write_pin, Holds, drive
<1>2. ~Queued(b)
  BY <1>1, QueuedBusy, ZenonT(30) DEF IInv, Ownership
<1>3. b \in valid
  BY <1>1, <1>2, Zenon DEF IInv, Ownership, Contents, TypeOK
<1>4. data' \in [Buf -> Val] /\ data'[b] = v /\ \A c \in Buf : c # b => data'[c] = data[c]
  BY <1>1, Zenon DEF IInv, TypeOK
<1>5. TypeOK'
  BY <1>1, <1>4, Zenon DEF IInv, TypeOK
<1>6. OneBufferPerSector' /\ Ownership' /\ Requests'
  BY <1>1, ZenonT(30) DEF IInv, OneBufferPerSector, Ownership, Requests
<1>7. Waiting'
  BY <1>1 DEF IInv, TypeOK, Waiting, Ownership, Queued
<1>8. active # b
  <2>1. idequeue # <<>> => active = idequeue[1] /\ 1 \in DOMAIN idequeue
    BY TailRequest DEF IInv, Requests, TypeOK
  <2>2. NoBuf \notin Buf
    BY DEF NoBuf, Buf
  <2> QED
    BY <1>2, <2>1, <2>2, Zenon DEF Queued, IInv, Requests
<1>9. Contents'
  BY <1>1, <1>3, <1>4, <1>8 DEF IInv, TypeOK, Contents, Queued
<1> QED
  BY <1>5, <1>6, <1>7, <1>9, Zenon DEF IInv

\* bufcache_release wakes those who wait for the buffer, and no others.
LEMMA ReleaseIInv ==
  ASSUME NEW p \in Proc, NEW b \in Buf, IInv, bufcache_release(p, b) PROVE IInv'
<1> USE ConstAssumption
<1>1. /\ pc[p] = "run" /\ b \in held[p]
      /\ busy' = busy \ {b} /\ held' = [held EXCEPT ![p] = @ \ {b}] /\ pc' = Wakeup(b)
      /\ UNCHANGED <<disk, idequeue, active, sector, data, valid, dirty, want, chan, halted>>
  BY Zenon DEF bufcache_release, Holds, drive
<1>2. /\ held'[p] = held[p] \ {b}
      /\ \A q \in Proc : q # p => held'[q] = held[q] /\ b \notin held[q]
  BY <1>1, ZenonT(30) DEF IInv, TypeOK, Ownership
<1>3. \A q \in Proc : pc[q] \in {"io", "done"} => chan[q] # b
  BY <1>1, <1>2, ZenonT(30) DEF IInv, Waiting
<1>4. \A q \in Proc : pc'[q] = IF chan[q] = b /\ pc[q] = "get" THEN "got" ELSE pc[q]
  BY <1>1, <1>3, Zenon DEF Wakeup
<1>5. TypeOK'
  <2>1. pc' \in [Proc -> PC]
    BY <1>1, Zenon DEF IInv, TypeOK, Wakeup, PC
  <2> QED
    BY <1>1, <2>1, ZenonT(60) DEF IInv, TypeOK
<1>6. OneBufferPerSector' /\ Ownership'
  BY <1>1, <1>2, SMTT(30) DEF IInv, OneBufferPerSector, Ownership, TypeOK
<1>7. Waiting'
  BY <1>1, <1>2, <1>3, <1>4, SMTT(30) DEF IInv, Waiting, Queued
<1>8. Requests'
  BY <1>1, <1>4, SMTT(30) DEF IInv, Requests
<1>9. Contents'
  BY <1>1, Zenon DEF IInv, Contents, Queued
<1> QED
  BY <1>5, <1>6, <1>7, <1>8, <1>9, Zenon DEF IInv

\* ide_intr ends the request at the head of the queue and starts the next.
LEMMA IntrIInv == ASSUME IInv, ide_intr PROVE IInv'
<1> USE ConstAssumption
<1> DEFINE b == Head(idequeue)
           n == Len(idequeue)
           rest == Tail(idequeue)
<1>1. idequeue # <<>> /\ active = b /\ idequeue \in Seq(Buf)
  BY Zenon DEF ide_intr, IInv, Requests, TypeOK
<1>2. /\ b = idequeue[1] /\ b \in Buf /\ n \in Nat \ {0} /\ rest \in Seq(Buf)
      /\ DOMAIN idequeue = 1 .. n /\ DOMAIN rest = 1 .. n - 1
      /\ \A i \in 1 .. n - 1 : rest[i] = idequeue[i + 1]
      /\ rest # <<>> => n > 1 /\ Head(rest) = idequeue[2] /\ idequeue[2] \in Buf
  BY <1>1, TailRequest, Zenon
<1>3. /\ idequeue' = rest
      /\ \/ b \notin dirty /\ data' = [data EXCEPT ![b] = disk[sector[b]]]
         \/ (b \in dirty \/ MayFail) /\ data' = data
      /\ valid' = valid \cup {b} /\ dirty' = dirty \ {b} /\ pc' = Wakeup(b)
      /\ \/ rest = <<>> /\ active' = NoBuf /\ disk' = disk
         \/ /\ rest # <<>> /\ active' = Head(rest)
            /\ disk' = IF Head(rest) \in dirty
                       THEN [disk EXCEPT ![sector[Head(rest)]] = data[Head(rest)]] ELSE disk
      /\ UNCHANGED <<sector, busy, want, chan, held, halted>>
  BY Zenon DEF ide_intr, ide_start
<1> HIDE DEF b, n, rest
<1>4. Queued(b)
  BY <1>2, SMTT(30) DEF Queued
<1>5. b \in busy /\ sector[b] \in Sector
  BY <1>2, <1>4, QueuedBusy, SMTT(30) DEF IInv, Ownership, TypeOK
<1>6. \A q \in Proc : pc'[q] = IF chan[q] # b THEN pc[q]
                              ELSE IF pc[q] = "get" THEN "got"
                              ELSE IF pc[q] = "io" THEN "done" ELSE pc[q]
  BY <1>3, Zenon DEF Wakeup
<1>7. /\ data' \in [Buf -> Val] /\ \A c \in Buf : c # b => data'[c] = data[c]
      /\ MayFail \/ data'[b] = disk[sector[b]]
  <2>1. b \in dirty => disk[sector[b]] = data[b]
    BY <1>1, Zenon DEF IInv, Contents
  <2> QED
    BY <1>2, <1>3, <1>5, <2>1, ZenonT(30) DEF IInv, TypeOK
<1>8. \A c \in Buf : Queued(c) /\ c # b => Queued(c)'
  <2> SUFFICES ASSUME NEW c \in Buf, Queued(c), c # b PROVE Queued(c)'
    BY Zenon
  <2>1. PICK i \in 1 .. n : idequeue[i] = c
    BY <1>2, Zenon DEF Queued
  <2>2. i - 1 \in 1 .. n - 1 /\ i - 1 + 1 = i
    BY <1>2, <2>1
  <2>3. rest[i - 1] = c
    BY <1>2, <2>1, <2>2, Zenon
  <2> QED
    BY <1>2, <1>3, <2>2, <2>3, Zenon DEF Queued
<1>9. \A i \in 1 .. n - 1 : rest[i] # b /\ rest[i] = idequeue[i + 1] /\ i + 1 \in 1 .. n
  BY <1>2, SMTT(30) DEF IInv, Requests
<1>10. ASSUME NEW c \in Buf, c = b \/ c \notin dirty, sector[c] # NoSector
       PROVE  disk'[sector[c]] = disk[sector[c]]
  <2>1. CASE disk' = disk
    BY <2>1, Zenon
  <2>2. CASE rest # <<>> /\ Head(rest) \in dirty
             /\ disk' = [disk EXCEPT ![sector[Head(rest)]] = data[Head(rest)]]
    <3>1. Head(rest) # b /\ Head(rest) \in Buf
      BY <1>2, <2>2 DEF IInv, Requests
    <3>2. sector[Head(rest)] # sector[c]
      BY <1>10, <2>2, <3>1, Zenon DEF IInv, OneBufferPerSector
    <3> QED
      BY <2>2, <3>2, SMTT(30) DEF IInv, TypeOK
  <2> QED
    BY <1>3, <2>1, <2>2, Zenon
<1>11. TypeOK'
  <2>1. pc' \in [Proc -> PC]
    BY <1>3, Zenon DEF IInv, TypeOK, Wakeup, PC
  <2>2. active' \in Buf \cup {NoBuf}
    BY <1>2, <1>3, ZenonT(30)
  <2>3. disk' \in [Sector -> Val]
    <3>1. rest # <<>> => data[Head(rest)] \in Val
      BY <1>2, Zenon DEF IInv, TypeOK
    <3>2. disk \in [Sector -> Val]
      BY Zenon DEF IInv, TypeOK
    <3> QED
      BY <1>3, <3>1, <3>2, Zenon
  <2> QED
    BY <1>2, <1>3, <1>7, <2>1, <2>2, <2>3, ZenonT(30) DEF IInv, TypeOK
<1>12. OneBufferPerSector' /\ Ownership'
  BY <1>3, Zenon DEF IInv, OneBufferPerSector, Ownership
<1>13. Waiting'
  <2> SUFFICES ASSUME NEW q \in Proc
               PROVE  /\ pc'[q] \in {"get", "got"} => \A c \in held[q] : sector[c] # want[q]
                      /\ pc'[q] = "get" => chan[q] \in busy /\ sector[chan[q]] = want[q]
                      /\ pc'[q] \in {"io", "done"} => chan[q] \in held[q]
                      /\ pc'[q] = "io" => Queued(chan[q])'
                      /\ pc'[q] = "done" => chan[q] \in valid' /\ chan[q] \notin dirty'
    BY <1>3 DEF Waiting
  <2>1. held[q] \subseteq Buf
    BY Zenon DEF IInv, TypeOK
  <2> QED
    BY <1>3, <1>6, <1>8, <2>1, ZenonT(30) DEF IInv, Waiting
<1>14. Requests'
  <2>1. active' = IF idequeue' = <<>> THEN NoBuf ELSE Head(idequeue')
    BY <1>3, Zenon
  <2>2. \A i, j \in 1 .. n - 1 : rest[i] = rest[j] => i = j
    <3>1. \A i, j \in 1 .. n : idequeue[i] = idequeue[j] => i = j
      BY <1>2, Zenon DEF IInv, Requests
    <3>2. \A i, j \in 1 .. n - 1 : i + 1 = j + 1 => i = j
      BY <1>2
    <3> QED
      BY <1>9, <3>1, <3>2, ZenonT(30)
  <2>3. ASSUME NEW i \in 1 .. n - 1
        PROVE  \E q \in Proc : pc'[q] = "io" /\ chan[q] = rest[i]
    <3>1. PICK q \in Proc : pc[q] = "io" /\ chan[q] = rest[i]
      BY <1>2, <1>9, SMTT(30) DEF IInv, Requests
    <3> QED
      BY <1>6, <1>9, <3>1, Zenon
  <2> QED
    BY <1>2, <1>3, <2>1, <2>2, <2>3, ZenonT(30) DEF Requests
<1>15. Contents'
  <2>1. \A c \in dirty' : c \in valid'
    BY <1>3, Zenon DEF IInv, Contents
  <2>2. \A c \in valid' : c \in Buf /\ sector[c] # NoSector
    BY <1>2, <1>3, <1>5, ZenonT(30) DEF IInv, Contents, TypeOK, ConstAssumption
  <2>3. \A c \in Buf : sector[c] # NoSector /\ c \notin valid' => Queued(c)'
    BY <1>3, <1>8, Zenon DEF IInv, Contents
  <2>4. ASSUME NEW c \in valid', c \notin dirty' PROVE MayFail \/ data'[c] = disk'[sector[c]]
    <3>1. c = b \/ (c \in valid /\ c \notin dirty)
      BY <1>3, <2>4, ZenonT(60)
    <3> QED
      BY <1>7, <1>10, <2>2, <3>1, ZenonT(60) DEF IInv, Contents
  <2>5. ASSUME active' \in dirty' PROVE disk'[sector[active']] = data'[active']
    <3>1. active' \in Buf /\ active' # b /\ active' \in dirty
      BY <1>3, <2>5, Zenon DEF IInv, TypeOK
    <3>2. sector[active'] \in Sector /\ active' = Head(rest)
      <4>1. NoBuf \notin Buf
        BY SMTT(30) DEF NoBuf, Buf
      <4> QED
        BY <1>3, <3>1, <4>1, ZenonT(30) DEF IInv, Contents, TypeOK
    <3>3. disk' = [disk EXCEPT ![sector[active']] = data[active']]
      <4>1. NoBuf \notin Buf
        BY SMTT(30) DEF NoBuf, Buf
      <4> QED
        BY <1>3, <3>1, <4>1, ZenonT(60)
    <3> QED
      BY <1>7, <3>1, <3>2, <3>3, Zenon DEF IInv, TypeOK
  <2> QED
    BY <1>3, <2>1, <2>2, <2>3, <2>4, <2>5, Zenon DEF Contents
<1> QED
  BY <1>11, <1>12, <1>13, <1>14, <1>15, Zenon DEF IInv

\* Every step preserves the invariant.
LEMMA NextIInv == IInv /\ [Next]_vars => IInv'
<1> SUFFICES ASSUME IInv, [Next]_vars PROVE IInv'
  BY Zenon
<1>1. ASSUME UNCHANGED <<disk, sector, data, busy, valid, dirty, idequeue, active,
                         pc, want, chan, held>>, halted' \in BOOLEAN
      PROVE  IInv'
  <2>1. TypeOK' /\ OneBufferPerSector' /\ Ownership'
    BY <1>1, Zenon DEF IInv, TypeOK, OneBufferPerSector, Ownership
  <2>2. Waiting' /\ Requests' /\ Contents'
    BY <1>1 DEF IInv, Waiting, Requests, Contents, Queued
  <2> QED
    BY <2>1, <2>2, Zenon DEF IInv
<1>2. CASE ide_intr
  BY <1>2, IntrIInv, Zenon
<1>3. ASSUME NEW p \in Proc, ide_rw_woken(p) PROVE IInv'
  BY <1>3, WokenIInv, Zenon
<1>4. ASSUME NEW p \in Proc, NEW s \in Sector, bufcache_read(p, s) PROVE IInv'
  <2>1. CASE get_panic(p, s)
    BY <1>1, <2>1, Zenon DEF get_panic, drive, flags
  <2> QED
    BY <1>4, <2>1, CachedIInv, WaitIInv, RecycleIInv, Zenon DEF bufcache_read
<1>5. ASSUME NEW p \in Proc, NEW b \in Buf, bufcache_release(p, b) PROVE IInv'
  BY <1>5, ReleaseIInv, Zenon
<1>6. ASSUME NEW p \in Proc, NEW b \in Buf, NEW v \in Val, bufcache_write(p, b, v) PROVE IInv'
  BY <1>6, WriteIInv, Zenon
<1>7. ASSUME NEW p \in Proc, NEW b \in Buf, NEW v \in Val, log_write_pin(p, b, v) PROVE IInv'
  BY <1>7, PinIInv, Zenon
<1>8. CASE Stopped \/ UNCHANGED vars
  <2>1. halted' \in BOOLEAN
    BY <1>8, Zenon DEF Stopped, vars, IInv, TypeOK
  <2> QED
    BY <1>1, <1>8, <2>1, Zenon DEF Stopped, vars
<1> QED
  BY <1>2, <1>3, <1>4, <1>5, <1>6, <1>7, <1>8, Zenon DEF Next

\* The invariant holds throughout.
LEMMA Invariance == Spec => []IInv
  BY InitIInv, NextIInv, PTL DEF Spec

-----------------------------------------------------------------------------
(* The results.                                                            *)

\* However gets, sleeps and recycling of bufcache_get interleave, no sector is
\* cached twice.
THEOREM SectorsOnce == Spec => []OneBufferPerSector
<1>1. IInv => OneBufferPerSector
  BY Zenon DEF IInv
<1> QED
  BY <1>1, Invariance, PTL

\* Whoever sleeps in bufcache_get sleeps on a buffer that another process has
\* yet to release, and whoever sleeps in ide_rw on a request that the drive is
\* at work on or will come to.
THEOREM SleepersWoken == Spec => []SleeperHasWaker
<1>1. ASSUME IInv PROVE SleeperHasWaker
  <2>1. ASSUME NEW p \in Proc, pc[p] = "get"
        PROVE  \E q \in Proc \ {p} : chan[p] \in held[q]
    <3>1. chan[p] \in Buf /\ chan[p] \in busy /\ sector[chan[p]] = want[p]
      BY <1>1, <2>1, Zenon DEF IInv, Waiting, TypeOK
    <3>2. chan[p] \notin held[p]
      BY <1>1, <2>1, <3>1, Zenon DEF IInv, Waiting
    <3> QED
      BY <1>1, <3>1, <3>2, Zenon DEF IInv, Ownership
  <2> QED
    BY <1>1, <2>1, Zenon DEF SleeperHasWaker, IInv, Waiting, Requests, Queued
<1> QED
  BY <1>1, Invariance, PTL
-----------------------------------------------------------------------------
(* The refinement: BufCache implements LockedStore.                        *)


\* What the refinement mapping is, sector by sector.
Mapping ==
  /\ Content \in [Sector -> Val] /\ Owner \in [Sector -> Proc \cup {NoProc}]
  /\ \A b \in valid : Content[sector[b]] = data[b]
  /\ \A s \in Sector : (\A b \in valid : sector[b] # s) => Content[s] = disk[s]
  /\ \A p \in Proc : \A b \in held[p] : Owner[sector[b]] = p
  /\ \A s \in Sector : (\A b \in busy : sector[b] # s) => Owner[s] = NoProc

\* The invariant makes the choices in the mapping unique.
LEMMA MappingFacts == IInv => Mapping
<1> SUFFICES ASSUME IInv PROVE Mapping
  BY Zenon
<1>1. ASSUME NEW s \in Sector, NEW b \in valid, sector[b] = s
      PROVE  Content[s] = data[b]
  <2>1. Cached(s) \cap valid = {b}
    BY <1>1 DEF IInv, TypeOK, OneBufferPerSector, Contents, Cached
  <2>2. (CHOOSE c \in Cached(s) \cap valid : TRUE) = b
    BY <2>1, Zenon
  <2> QED
    BY <2>1, <2>2, Zenon DEF Content
<1>2. ASSUME NEW s \in Sector, \A b \in valid : sector[b] # s
      PROVE  Content[s] = disk[s]
  <2>1. Cached(s) \cap valid = {}
    BY <1>2, Zenon DEF Cached
  <2> QED
    BY <2>1, Zenon DEF Content
<1>3. ASSUME NEW s \in Sector, NEW p \in Proc, NEW b \in held[p], sector[b] = s
      PROVE  Owner[s] = p
  <2>1. \A q \in Proc : (\E c \in held[q] : sector[c] = s) <=> q = p
    BY <1>3, ConstAssumption DEF IInv, TypeOK, OneBufferPerSector, Ownership
  <2>2. (CHOOSE q \in Proc : \E c \in held[q] : sector[c] = s) = p
    BY <2>1, Zenon
  <2> QED
    BY <2>1, <2>2, Zenon DEF Owner
<1>4. ASSUME NEW s \in Sector, \A b \in busy : sector[b] # s
      PROVE  Owner[s] = NoProc
  <2>1. ~\E p \in Proc : \E b \in held[p] : sector[b] = s
    BY <1>4, Zenon DEF IInv, TypeOK, Ownership
  <2> QED
    BY <2>1, Zenon DEF Owner
<1>5. \A b \in valid : sector[b] \in Sector
  BY ZenonT(30) DEF IInv, TypeOK, Contents
<1>6. \A p \in Proc : \A b \in held[p] : sector[b] \in Sector
  BY DEF IInv, TypeOK, Ownership
<1>7. Content \in [Sector -> Val]
  <2>1. \A s \in Sector : Content[s] \in Val
    BY <1>1, <1>2, Zenon DEF IInv, TypeOK
  <2> QED
    BY <2>1, Zenon DEF Content
<1>8. Owner \in [Sector -> Proc \cup {NoProc}]
  <2>1. \A s \in Sector : Owner[s] \in Proc \cup {NoProc}
    BY <1>3, <1>4 DEF IInv, TypeOK, Ownership
  <2> QED
    BY <2>1, ZenonT(60) DEF Owner
<1> QED
  BY <1>1, <1>2, <1>3, <1>4, <1>5, <1>6, <1>7, <1>8 DEF Mapping

\* In the beginning nothing is cached and nobody holds anything.
LEMMA InitRefines == Init => LS!Init
<1> SUFFICES ASSUME Init PROVE LS!Init
  BY Zenon
<1>1. Mapping /\ IInv
  BY InitIInv, MappingFacts, Zenon
<1>2. \A s \in Sector : Owner[s] = NoProc
  BY <1>1, Zenon DEF Mapping, Init
<1> QED
  BY <1>1, <1>2, Zenon DEF Mapping, LS!Init

\* The step of ide_intr is invisible: what it reads is what the sector held,
\* and what it writes was in the cache.
LEMMA IntrRefines ==
  ASSUME MayFail = FALSE, IInv, Mapping, Mapping', ide_intr
  PROVE  Content' = Content /\ Owner' = Owner
<1> DEFINE b == Head(idequeue)
           next == Head(Tail(idequeue))
<1>1. /\ idequeue # <<>> /\ active = b /\ b \in Buf
      /\ Tail(idequeue) # <<>> => next \in Buf
  BY TailRequest DEF ide_intr, IInv, Requests, TypeOK
<1>2. /\ \/ b \notin dirty /\ data' = [data EXCEPT ![b] = disk[sector[b]]]
         \/ b \in dirty /\ data' = data
      /\ valid' = valid \cup {b} /\ UNCHANGED <<sector, busy, held>>
      /\ \/ disk' = disk
         \/ next \in dirty /\ disk' = [disk EXCEPT ![sector[next]] = data[next]]
  BY Zenon DEF ide_intr, ide_start
<1> HIDE DEF b, next
<1>3. \A c \in valid : c \in Buf /\ sector[c] \in Sector /\ data'[c] = data[c]
  BY <1>1, <1>2 DEF IInv, TypeOK, Contents
<1>4. ASSUME NEW s \in Sector, \A c \in valid : sector[c] # s PROVE disk'[s] = disk[s]
  <2>1. next \in dirty => sector[next] # s
    BY <1>4, Zenon DEF IInv, Contents
  <2> QED
    BY <1>2, <2>1, Zenon DEF IInv, TypeOK
<1>5. ASSUME NEW s \in Sector PROVE Content'[s] = Content[s]
  <2>1. CASE \E c \in valid : sector[c] = s
    BY <1>2, <1>3, <2>1 DEF Mapping
  <2>2. CASE (\A c \in valid : sector[c] # s) /\ sector[b] = s
    <3>1. b \notin dirty /\ b \in valid'
      BY <1>2, <2>2, Zenon DEF IInv, Contents
    <3>2. data'[b] = disk[s]
      BY <1>1, <1>2, <2>2, <3>1, Zenon DEF IInv, TypeOK
    <3> QED
      BY <1>2, <2>2, <3>1, <3>2, Zenon DEF Mapping
  <2>3. CASE (\A c \in valid : sector[c] # s) /\ sector[b] # s
    BY <1>2, <1>4, <2>3, ZenonT(30) DEF Mapping
  <2> QED
    BY <2>1, <2>2, <2>3, Zenon
<1>6. Content' = Content
  BY <1>5 DEF Mapping
<1>7. Owner' = Owner
  BY <1>2, ZenonT(30) DEF Owner
<1> QED
  BY <1>6, <1>7, Zenon

\* A buffer b of sector s goes from nobody to p, which holds all it held.
LEMMA OwnerAcquired ==
  ASSUME NEW p \in Proc, NEW s \in Sector, NEW b \in Buf, IInv, IInv', Mapping, Mapping',
         \A c \in busy : sector[c] # s,
         sector' = [sector EXCEPT ![b] = s], b \notin busy, busy' = busy \cup {b},
         held' = [held EXCEPT ![p] = @ \cup {b}]
  PROVE  Owner[s] = NoProc /\ Owner' = [Owner EXCEPT ![s] = p]
<1>1. /\ held'[p] = held[p] \cup {b} /\ sector'[b] = s
      /\ \A q \in Proc : held[q] \subseteq held'[q] /\ held[q] \subseteq busy
      /\ \A c \in Buf : c # b => sector'[c] = sector[c]
      /\ busy \subseteq Buf
  BY DEF IInv, TypeOK, Ownership
<1>2. Owner[s] = NoProc /\ Owner'[s] = p
  BY <1>1 DEF Mapping
<1>3. ASSUME NEW t \in Sector, t # s PROVE Owner'[t] = Owner[t]
  <2>1. CASE \E c \in busy : sector[c] = t
    <3>1. PICK c \in busy : sector[c] = t
      BY <2>1, Zenon
    <3>2. PICK q \in Proc : c \in held[q]
      BY <1>1, Zenon DEF IInv, Ownership
    <3>3. c \in held'[q] /\ sector'[c] = t
      BY <1>1, <3>1, <3>2, Zenon
    <3> QED
      BY <3>1, <3>2, <3>3 DEF Mapping
  <2>2. CASE \A c \in busy : sector[c] # t
    <3>1. \A c \in busy' : sector'[c] # t
      BY <1>1, <1>3, <2>2, Zenon
    <3> QED
      BY <2>2, <3>1, Zenon DEF Mapping
  <2> QED
    BY <2>1, <2>2, Zenon
<1> QED
  BY <1>2, <1>3 DEF Mapping

\* get_cached acquires the sector.
LEMMA CachedRefines ==
  ASSUME NEW p \in Proc, NEW s \in Sector, IInv, IInv', Mapping, Mapping', get_cached(p, s)
  PROVE  LS!Acquire(p, s)
<1>1. PICK b \in Buf : /\ sector[b] = s /\ b \notin busy /\ busy' = busy \cup {b}
                       /\ held' = [held EXCEPT ![p] = @ \cup {b}]
                       /\ b \in valid => disk' = disk
  BY ZenonT(60) DEF get_cached, Cached, drive
<1>2. b \in valid
  BY <1>1, QueuedBusy, ConstAssumption, ZenonT(30) DEF IInv, Contents
<1>3. UNCHANGED <<sector, data, valid, disk>>
  BY <1>1, <1>2, Zenon DEF get_cached
<1>4. \A c \in busy : sector[c] # s
  BY <1>1, ConstAssumption, ZenonT(30) DEF IInv, TypeOK, OneBufferPerSector
<1>5. sector' = [sector EXCEPT ![b] = s]
  BY <1>1, <1>3, Zenon DEF IInv, TypeOK
<1>6. Content' = Content
  BY <1>3 DEF Content, Cached
<1> QED
  BY <1>1, <1>4, <1>5, <1>6, OwnerAcquired, ZenonT(60) DEF LS!Acquire

\* get_recycle acquires the sector, and the sector that loses its buffer keeps
\* its content, which is on the disk.
LEMMA RecycleRefines ==
  ASSUME MayFail = FALSE, NEW p \in Proc, NEW s \in Sector, IInv, IInv', Mapping, Mapping',
         get_recycle(p, s)
  PROVE  LS!Acquire(p, s)
<1>1. PICK b \in Buf :
        /\ b \notin busy /\ b \notin dirty
        /\ sector' = [sector EXCEPT ![b] = s]
        /\ busy' = busy \cup {b} /\ valid' = valid \ {b}
        /\ held' = [held EXCEPT ![p] = @ \cup {b}]
        /\ disk' = disk
  BY ZenonT(60) DEF get_recycle, Victim, Clean, ide_rw, ide_start
<1>2. data' = data /\ \A c \in Buf : sector[c] # s
  BY Zenon DEF get_recycle, Cached
<1>3. Owner[s] = NoProc /\ Owner' = [Owner EXCEPT ![s] = p]
  <2>1. \A c \in busy : sector[c] # s
    BY <1>2, Zenon DEF IInv, TypeOK
  <2> QED
    BY <1>1, <2>1, OwnerAcquired, ZenonT(60)
<1>4. \A c \in valid' : c \in valid /\ c # b /\ c \in Buf /\ sector'[c] = sector[c]
  BY <1>1, Zenon DEF IInv, TypeOK
<1>5. ASSUME NEW t \in Sector PROVE Content'[t] = Content[t]
  <2>1. CASE \E c \in valid' : sector'[c] = t
    BY <1>2, <1>4, <2>1 DEF Mapping
  <2>2. CASE \A c \in valid' : sector'[c] # t
    <3>1. Content'[t] = disk[t]
      BY <1>1, <2>2, Zenon DEF Mapping
    <3>2. CASE b \in valid /\ sector[b] = t
      BY <1>1, <3>1, <3>2, ZenonT(30) DEF Mapping, IInv, Contents
    <3>3. CASE b \notin valid \/ sector[b] # t
      <4>1. \A c \in valid : sector[c] # t
        BY <1>1, <1>4, <2>2, <3>3, Zenon
      <4> QED
        BY <3>1, <4>1, Zenon DEF Mapping
    <3> QED
      BY <3>2, <3>3, Zenon
  <2> QED
    BY <2>1, <2>2, Zenon
<1>6. Content' = Content
  BY <1>5 DEF Mapping
<1> QED
  BY <1>3, <1>6, Zenon DEF LS!Acquire

\* A buffer in the hands of a running process has been read.
LEMMA HeldValid ==
  ASSUME NEW p \in Proc, NEW b \in Buf, IInv, Holds(p, b)
  PROVE  b \in valid /\ sector[b] \in Sector /\ Owner[sector[b]] = p
<1>1. b \in busy /\ sector[b] \in Sector
  BY Zenon DEF IInv, Ownership, TypeOK, Holds
<1>2. b \in valid
  <2> SUFFICES ASSUME Queued(b) PROVE FALSE
    BY <1>1, ConstAssumption, Zenon DEF IInv, Contents
  <2>1. PICK q \in Proc : pc[q] = "io" /\ chan[q] = b
    BY Zenon DEF IInv, Requests, Queued
  <2>2. q = p
    BY <2>1, Zenon DEF IInv, Waiting, Ownership, Holds
  <2> QED
    BY <2>1, <2>2, Zenon DEF Holds
<1>3. Owner[sector[b]] = p
  BY MappingFacts, Zenon DEF Mapping, Holds
<1> QED
  BY <1>1, <1>2, <1>3, Zenon

\* A process changes the data of a buffer it holds, and the disk at most at
\* the sector of that buffer.
LEMMA UpdateRefines ==
  ASSUME NEW p \in Proc, NEW b \in Buf, NEW v \in Val, IInv, Mapping, Mapping', Holds(p, b),
         data' = [data EXCEPT ![b] = v], UNCHANGED <<sector, valid, held>>,
         \A t \in Sector : t # sector[b] => disk'[t] = disk[t]
  PROVE  LS!Update(p, sector[b], v)
<1>1. b \in valid /\ sector[b] \in Sector /\ Owner[sector[b]] = p
  BY HeldValid, Zenon
<1>2. Owner' = Owner
  BY ZenonT(30) DEF Owner
<1>3. Content'[sector[b]] = v
  BY <1>1, SMTT(30) DEF Mapping, IInv, TypeOK
<1>4. ASSUME NEW t \in Sector, t # sector[b] PROVE Content'[t] = Content[t]
  <2>1. CASE \E c \in valid : sector[c] = t
    <3>1. PICK c \in valid : sector[c] = t
      BY <2>1, Zenon
    <3>2. data'[c] = data[c]
      BY <1>4, <3>1, Zenon DEF IInv, TypeOK
    <3> QED
      BY <3>1, <3>2, Zenon DEF Mapping
  <2>2. CASE \A c \in valid : sector[c] # t
    BY <1>4, <2>2, ZenonT(30) DEF Mapping
  <2> QED
    BY <2>1, <2>2, Zenon
<1>5. Content' = [Content EXCEPT ![sector[b]] = v]
  BY <1>1, <1>3, <1>4, Zenon DEF Mapping
<1> QED
  BY <1>1, <1>2, <1>5, Zenon DEF LS!Update

\* bufcache_release gives the sector back.
LEMMA ReleaseRefines ==
  ASSUME NEW p \in Proc, NEW b \in Buf, IInv, IInv', Mapping, Mapping', bufcache_release(p, b)
  PROVE  LS!Release(p, sector[b])
<1>1. /\ Holds(p, b) /\ busy' = busy \ {b} /\ held' = [held EXCEPT ![p] = @ \ {b}]
      /\ UNCHANGED <<disk, sector, data, valid>>
  BY Zenon DEF bufcache_release, drive
<1>2. sector[b] \in Sector /\ Owner[sector[b]] = p
  BY <1>1, HeldValid, Zenon
<1>3. Content' = Content
  BY <1>1, SMTT(30) DEF Content, Cached
<1>4. \A c \in busy' : c \in Buf /\ c # b /\ sector[c] # sector[b]
  BY <1>1, <1>2, ConstAssumption, ZenonT(30) DEF IInv, TypeOK, OneBufferPerSector
<1>5. Owner'[sector[b]] = NoProc
  BY <1>1, <1>2, <1>4, Zenon DEF Mapping
<1>6. ASSUME NEW t \in Sector, t # sector[b] PROVE Owner'[t] = Owner[t]
  <2>1. CASE \E c \in busy : sector[c] = t
    <3>1. PICK c \in busy : sector[c] = t
      BY <2>1, Zenon
    <3>2. PICK q \in Proc : c \in held[q]
      BY <3>1, Zenon DEF IInv, TypeOK, Ownership
    <3>3. c \in held'[q]
      BY <1>1, <1>6, <3>1, <3>2, Zenon DEF IInv, TypeOK
    <3>4. Owner[t] = q
      BY <3>1, <3>2, Zenon DEF Mapping
    <3>5. Owner'[t] = q
      BY <1>1, <3>1, <3>3, ZenonT(30) DEF Mapping
    <3> QED
      BY <3>4, <3>5, Zenon
  <2>2. CASE \A c \in busy : sector[c] # t
    BY <1>1, <2>2, ZenonT(30) DEF Mapping
  <2> QED
    BY <2>1, <2>2, Zenon
<1>7. Owner' = [Owner EXCEPT ![sector[b]] = NoProc]
  BY <1>2, <1>5, <1>6, Zenon DEF Mapping
<1> QED
  BY <1>2, <1>3, <1>7, Zenon DEF LS!Release

\* Every step of the cache and the driver is a step of the store, or one that
\* the store does not see.
LEMMA StepRefines ==
  ASSUME MayFail = FALSE, IInv, IInv', Mapping, Mapping', [Next]_vars
  PROVE  [LS!Next]_LS!vars
<1> DEFINE Same == Content' = Content /\ Owner' = Owner
<1>0. Same => UNCHANGED LS!vars
  BY Zenon DEF LS!vars
<1>1. ASSUME UNCHANGED <<disk, sector, data, valid, held>> PROVE Same
  BY <1>1 DEF Content, Cached, Owner
<1>2. CASE ide_intr
  BY <1>0, <1>2, IntrRefines, ZenonT(60)
<1>3. ASSUME NEW p \in Proc, ide_rw_woken(p) PROVE Same
  BY <1>1, <1>3, Zenon DEF ide_rw_woken, drive, flags
<1>4. ASSUME NEW p \in Proc, NEW s \in Sector, bufcache_read(p, s) PROVE Same \/ LS!Next
  <2>1. CASE get_panic(p, s) \/ get_wait(p, s)
    BY <1>1, <2>1, Zenon DEF get_panic, get_wait, drive, flags
  <2>2. CASE get_cached(p, s) \/ get_recycle(p, s)
    <3>1. LS!Acquire(p, s)
      BY <2>2, CachedRefines, RecycleRefines, ZenonT(60)
    <3> QED
      BY <3>1, Zenon DEF LS!Next
  <2> QED
    BY <1>4, <2>1, <2>2, Zenon DEF bufcache_read
<1>5. ASSUME NEW p \in Proc, NEW b \in Buf, bufcache_release(p, b) PROVE LS!Next
  <2>1. LS!Release(p, sector[b]) /\ sector[b] \in Sector
    BY <1>5, ReleaseRefines, HeldValid, ZenonT(60) DEF bufcache_release
  <2> QED
    BY <2>1, Zenon DEF LS!Next
<1>6. ASSUME NEW p \in Proc, NEW b \in Buf, NEW v \in Val,
             bufcache_write(p, b, v) \/ log_write_pin(p, b, v)
      PROVE  LS!Next
  <2>1. /\ Holds(p, b) /\ data' = [data EXCEPT ![b] = v] /\ UNCHANGED <<sector, valid, held>>
        /\ \/ disk' = disk
           \/ disk' = [disk EXCEPT ![sector[b]] = data'[b]]
    BY <1>6, Zenon DEF bufcache_write, log_write_pin, ide_rw, ide_start, drive
  <2>2. \A t \in Sector : t # sector[b] => disk'[t] = disk[t]
    BY <2>1, Zenon DEF IInv, TypeOK
  <2>3. sector[b] \in Sector
    BY <2>1, HeldValid, Zenon
  <2>4. LS!Update(p, sector[b], v)
    BY <2>1, <2>2, UpdateRefines, ZenonT(60)
  <2> QED
    BY <2>3, <2>4, Zenon DEF LS!Next
<1>7. CASE Stopped \/ UNCHANGED vars
  BY <1>0, <1>1, <1>7, Zenon DEF Stopped, vars
<1> HIDE DEF Same
<1> QED
  BY <1>0, <1>2, <1>3, <1>4, <1>5, <1>6, <1>7, Zenon DEF Next

\* As long as no read of the drive fails, the cache, its recycling and the
\* queue of ide_rw are invisible: BufCache implements LockedStore.
THEOREM CacheStore == ASSUME MayFail = FALSE PROVE Spec => CacheIsStore
<1>1. IInv /\ IInv' /\ [Next]_vars => [LS!Next]_LS!vars
  <2>1. IInv' => Mapping'
    BY MappingFacts, PTL
  <2> QED
    BY <2>1, MappingFacts, StepRefines, ZenonT(60)
<1> QED
  BY <1>1, InitRefines, Invariance, PTL DEF Spec, CacheIsStore, LS!Spec
=============================================================================
