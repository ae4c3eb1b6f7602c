----------------------------- MODULE LogProofs -----------------------------
(***************************************************************************)
(* Proofs about Log for every set of processes, blocks and contents and    *)
(* every size of the log: its invariants, and that it implements           *)
(* AtomicDisk.                                                             *)
(***************************************************************************)
EXTENDS Log, TLAPS

\* The initial state satisfies the invariant.
LEMMA InitIInv == Init => IInv
<1> SUFFICES ASSUME Init PROVE IInv
  BY Zenon
<1> USE ConstAssumption
<1>1. EmptyHeader \in Header /\ EmptyHeader.n = 0
  BY DEF EmptyHeader, Header
<1>2. TypeOK
  <2>1. (CHOOSE b \in Block : TRUE) \in Block /\ (CHOOSE v \in Val : TRUE) \in Val
    BY Zenon
  <2>2. pc \in [Proc -> PC] /\ at \in [Proc -> 0 .. LOGSIZE]
    BY DEF Init, PC
  <2>3. /\ home \in [Block -> Val] /\ logblk \in [1 .. LOGSIZE -> Val]
        /\ buf \in [Block -> Val \cup {NoBuf}] /\ blk \in [Proc -> Block]
    BY <2>1, Zenon DEF Init
  <2> QED
    BY <1>1, <2>2, <2>3, ZenonT(60) DEF Init, TypeOK
<1>3. Exclusion
  BY Zenon DEF Init, Exclusion, OneTransaction, InTrans, InRecovery
<1>4. Stages /\ Coherent
  BY <1>1 DEF Init, Stages, Distinct, Coherent
<1> QED
  BY <1>2, <1>3, <1>4, Zenon DEF IInv

\* Every step preserves the invariant.
LEMMA NextIInv == IInv /\ [Next]_vars => IInv'
<1> SUFFICES ASSUME IInv, [Next]_vars PROVE IInv'
  BY Zenon
<1> USE ConstAssumption
<1>1. ASSUME NEW p \in Proc, sys_open_first(p) PROVE IInv'
  <2>1. TypeOK'
    BY <1>1, ZenonT(60) DEF IInv, TypeOK, Header, PC, InTrans, InRecovery,
           sys_open_first, disk, cache, flags
  <2>2. Exclusion'
    BY <1>1, ZenonT(30) DEF IInv, TypeOK, Exclusion, OneTransaction, InTrans, InRecovery,
           sys_open_first, disk, cache, flags
  <2>3. Stages'
    BY <1>1, SMTT(30) DEF IInv, TypeOK, Header, Exclusion, OneTransaction, InTrans, InRecovery, Stages,
           Distinct, LogIndex,
           sys_open_first, disk, cache, flags
  <2>4. Coherent'
    BY <1>1, SMTT(30) DEF IInv, TypeOK, Header, Exclusion, OneTransaction, InTrans, InRecovery, Stages,
           Distinct, LogIndex, Coherent,
           sys_open_first, disk, cache, flags
  <2> QED
    BY <2>1, <2>2, <2>3, <2>4, Zenon DEF IInv
<1>2. ASSUME NEW p \in Proc, log_init(p) PROVE IInv'
  <2>1. TypeOK'
    BY <1>2, Zenon DEF IInv, TypeOK, Header, PC, InTrans, InRecovery,
           log_init, disk, cache, flags
  <2>2. Exclusion'
    BY <1>2, ZenonT(30) DEF IInv, TypeOK, Exclusion, OneTransaction, InTrans, InRecovery,
           log_init, disk, cache, flags
  <2>3. Stages'
    BY <1>2, SMTT(30) DEF IInv, TypeOK, Header, Exclusion, OneTransaction, InTrans, InRecovery, Stages,
           Distinct, LogIndex,
           log_init, disk, cache, flags
  <2>4. Coherent'
    BY <1>2, SMTT(30) DEF IInv, TypeOK, Header, Exclusion, OneTransaction, InTrans, InRecovery, Stages,
           Distinct, LogIndex, Coherent,
           log_init, disk, cache, flags
  <2> QED
    BY <2>1, <2>2, <2>3, <2>4, Zenon DEF IInv
<1>3. ASSUME NEW p \in Proc, read_head(p) PROVE IInv'
  <2>1. TypeOK'
    BY <1>3 DEF IInv, TypeOK, Header, PC, InTrans, InRecovery,
           read_head, CopyHeader, disk, cache, flags
  <2>2. Exclusion'
    BY <1>3, ZenonT(30) DEF IInv, TypeOK, Exclusion, OneTransaction, InTrans, InRecovery,
           read_head, CopyHeader, disk, cache, flags
  <2>3. Stages'
    BY <1>3, SMTT(30) DEF IInv, TypeOK, Header, Exclusion, OneTransaction, InTrans, InRecovery, Stages,
           Distinct, LogIndex,
           read_head, CopyHeader, disk, cache, flags
  <2>4. Coherent'
    BY <1>3, SMTT(30) DEF IInv, TypeOK, Header, Exclusion, OneTransaction, InTrans, InRecovery, Stages,
           Distinct, LogIndex, Coherent,
           read_head, CopyHeader, disk, cache, flags
  <2> QED
    BY <2>1, <2>2, <2>3, <2>4, Zenon DEF IInv
<1>4. ASSUME NEW p \in Proc, install_trans(p) PROVE IInv'
  <2>1. TypeOK'
    BY <1>4 DEF IInv, TypeOK, Header, PC, InTrans, InRecovery,
           install_trans, disk, cache, flags
  <2>2. Exclusion'
    BY <1>4, Zenon DEF IInv, TypeOK, Exclusion, OneTransaction, InTrans, InRecovery,
           install_trans, disk, cache, flags
  <2>3. Stages'
    BY <1>4, SMTT(30) DEF IInv, TypeOK, Header, Exclusion, OneTransaction, InTrans, InRecovery, Stages,
           Distinct, LogIndex,
           install_trans, disk, cache, flags
  <2>4. Coherent'
    BY <1>4, SMTT(120) DEF IInv, TypeOK, Header, Exclusion, OneTransaction, InTrans, InRecovery, Stages,
           Distinct, LogIndex, Coherent,
           install_trans, disk, cache, flags
  <2> QED
    BY <2>1, <2>2, <2>3, <2>4, Zenon DEF IInv
<1>5. ASSUME NEW p \in Proc, erase_log(p) PROVE IInv'
  <2>1. TypeOK'
    <3>0. lh \in Header /\ head \in Header
      BY Zenon DEF IInv, TypeOK
    <3>1. lh' \in Header /\ head' \in Header
      BY <1>5, <3>0, SMTT(30) DEF erase_log, Header
    <3>2. pc' \in [Proc -> PC]
      BY <1>5, Zenon DEF erase_log, IInv, TypeOK, PC, InTrans, InRecovery
    <3> QED
      BY <1>5, <3>1, <3>2, Zenon DEF erase_log, IInv, TypeOK, cache, flags
  <2>2. Exclusion'
    BY <1>5, ZenonT(30) DEF IInv, TypeOK, Exclusion, OneTransaction, InTrans, InRecovery,
           erase_log, disk, cache, flags
  <2>3. Stages'
    BY <1>5, SMTT(30) DEF IInv, TypeOK, Header, Exclusion, OneTransaction, InTrans, InRecovery, Stages,
           Distinct, LogIndex,
           erase_log, disk, cache, flags
  <2>4. Coherent'
    BY <1>5, SMTT(30) DEF IInv, TypeOK, Header, Exclusion, OneTransaction, InTrans, InRecovery, Stages,
           Distinct, LogIndex, Coherent,
           erase_log, disk, cache, flags
  <2> QED
    BY <2>1, <2>2, <2>3, <2>4, Zenon DEF IInv
<1>6. ASSUME NEW p \in Proc, log_init_done(p) PROVE IInv'
  <2>1. TypeOK'
    BY <1>6, Zenon DEF IInv, TypeOK, Header, PC, InTrans, InRecovery,
           log_init_done, disk, cache, flags
  <2>2. Exclusion'
    BY <1>6, ZenonT(30) DEF IInv, TypeOK, Exclusion, OneTransaction, InTrans, InRecovery,
           log_init_done, disk, cache, flags
  <2>3. Stages'
    BY <1>6, SMTT(30) DEF IInv, TypeOK, Header, Exclusion, OneTransaction, InTrans, InRecovery, Stages,
           Distinct, LogIndex,
           log_init_done, disk, cache, flags
  <2>4. Coherent'
    BY <1>6, SMTT(30) DEF IInv, TypeOK, Header, Exclusion, OneTransaction, InTrans, InRecovery, Stages,
           Distinct, LogIndex, Coherent,
           log_init_done, disk, cache, flags
  <2> QED
    BY <2>1, <2>2, <2>3, <2>4, Zenon DEF IInv
<1>7. ASSUME NEW p \in Proc, recovered /\ begin_trans(p) PROVE IInv'
  <2>1. TypeOK'
    BY <1>7, ZenonT(60) DEF IInv, TypeOK, Header, PC, InTrans, InRecovery,
           begin_trans, disk, cache, flags
  <2>2. Exclusion'
    BY <1>7, SMTT(30) DEF IInv, TypeOK, Exclusion, OneTransaction, InTrans, InRecovery,
           begin_trans, disk, cache, flags
  <2>3. Stages'
    BY <1>7, SMTT(30) DEF IInv, TypeOK, Header, Exclusion, OneTransaction, InTrans, InRecovery, Stages,
           Distinct, LogIndex,
           begin_trans, disk, cache, flags
  <2>4. Coherent'
    <3>1. /\ UNCHANGED <<home, logblk, head, lh, buf, dirty, recovered, blk, at>>
          /\ \A q \in Proc : pc[q] \in {"trans", "append", "install"} => pc'[q] = pc[q]
          /\ \A q \in Proc : pc'[q] \in {"append", "install"} => pc[q] = pc'[q]
      BY <1>7, Zenon DEF begin_trans, disk, cache, flags, IInv, TypeOK
    <3>2. \A q \in Proc : pc'[q] = "trans" => pc[q] = "trans" \/ lh.n = 0
      BY <1>7, ZenonT(30) DEF begin_trans, IInv, TypeOK, Exclusion, InTrans, InRecovery, Stages
    <3>3. \A q \in Proc, i \in 1 .. lh.n :
            pc'[q] \in {"trans", "append", "install"} => pc[q] = pc'[q]
      BY <3>1, <3>2 DEF IInv, TypeOK, Header
    <3> QED
      BY <3>1, <3>3 DEF IInv, Coherent
  <2> QED
    BY <2>1, <2>2, <2>3, <2>4, Zenon DEF IInv
<1>8. ASSUME NEW p \in Proc, NEW b \in Block, NEW v \in Val, log_write(p, b, v) PROVE IInv'
  <2>0. PICK i \in 1 .. LOGSIZE :
          /\ LogIndex(b, i)
          /\ lh' = [lh EXCEPT !.sector[i] = b]
          /\ logblk' = [logblk EXCEPT ![i] = v]
          /\ at' = [at EXCEPT ![p] = i]
    <3>1. lh.n < LOGSIZE /\ lh.n \in Nat
      <4>1. lh.n \in Nat /\ LOGSIZE \in Nat /\ ~Full
        BY <1>8, ConstAssumption DEF log_write, IInv, TypeOK, Header
      <4>2. CASE mounted
        BY <4>1, <4>2 DEF Full
      <4>3. CASE ~mounted
        BY <4>1, <4>3 DEF Full
      <4> QED
        BY <4>1, <4>2, <4>3, Zenon
    <3>2. 1 .. lh.n + 1 \subseteq 1 .. LOGSIZE
      BY <3>1, ConstAssumption
    <3> QED
      BY <1>8, <3>2, ZenonT(60) DEF log_write
  <2>a. /\ pc[p] = "trans" /\ pc' = [pc EXCEPT ![p] = "append"]
        /\ blk' = [blk EXCEPT ![p] = b] /\ buf' = [buf EXCEPT ![b] = v]
        /\ UNCHANGED <<dirty, home, head, busy, first, mounted, recovered, halted>>
    BY <1>8, Zenon DEF log_write, flags
  <2>b. /\ lh' \in Header /\ lh'.n = lh.n
        /\ \A j \in 1 .. LOGSIZE : lh'.sector[j] = IF j = i THEN b ELSE lh.sector[j]
    BY <2>0, ZenonT(60) DEF IInv, TypeOK, Header
  <2>1. TypeOK'
    BY <2>0, <2>a, <2>b DEF IInv, TypeOK, PC, InTrans
  <2>2. Exclusion'
    BY <2>a DEF IInv, TypeOK, Exclusion, OneTransaction, InTrans, InRecovery
  <2>c. \A q \in Proc : q # p => pc[q] \notin InTrans /\ pc[q] \notin InRecovery
    BY <2>a, Zenon DEF IInv, Exclusion, OneTransaction, InTrans
  <2>d. /\ i \in 1 .. lh.n + 1 /\ \A j \in 1 .. i - 1 : lh.sector[j] # b
        /\ i <= lh.n => lh.sector[i] = b
    BY <2>0, Zenon DEF LogIndex
  <2>e. \A j \in 1 .. lh.n : lh'.sector[j] = lh.sector[j]
    BY <2>b, <2>d, SMTT(30) DEF IInv, TypeOK, Header
  <2>3. Stages'
    BY <2>0, <2>a, <2>b, <2>c, <2>d, <2>e, SMTT(30) DEF IInv, TypeOK, Header, Exclusion, OneTransaction, InTrans, InRecovery, Stages,
           Distinct, LogIndex,
           Distinct, LogIndex
  <2>4. Coherent'
    <3>1. ASSUME NEW c \in Block
          PROVE  \/ buf'[c] \in {NoBuf, home'[c]}
                 \/ c \in dirty'
                 \/ \E q \in Proc : pc'[q] = "append" /\ blk'[q] = c
      <4>1. CASE c = b
        BY <2>a, <4>1, Zenon DEF IInv, TypeOK
      <4>2. CASE c # b
        <5>1. buf'[c] = buf[c] /\ home'[c] = home[c] /\ dirty' = dirty
          BY <2>a, <4>2, Zenon DEF IInv, TypeOK
        <5>2. \A q \in Proc : pc[q] # "append"
          BY <2>a, <2>c, Zenon DEF InTrans
        <5> QED
          BY <5>1, <5>2, ZenonT(30) DEF IInv, Coherent
      <4> QED
        BY <4>1, <4>2, Zenon
    <3>2. ASSUME NEW c \in dirty'
          PROVE  \E q \in Proc : \E j \in 1 .. lh'.n :
                   /\ pc'[q] \in {"trans", "append", "install"}
                   /\ lh'.sector[j] = c
                   /\ pc'[q] = "install" => j > at'[q]
      <4>1. PICK j \in 1 .. lh.n : lh.sector[j] = c
        BY <2>a, Zenon DEF IInv, Coherent
      <4>2. pc'[p] = "append"
        BY <2>a, Zenon DEF IInv, TypeOK
      <4> QED
        BY <2>b, <2>e, <4>1, <4>2, Zenon
    <3>3. ASSUME NEW q \in Proc, NEW j \in 1 .. lh'.n,
                 pc'[q] \in {"trans", "append", "install"}
          PROVE  /\ lh'.sector[j] \in dirty' => buf'[lh'.sector[j]] = logblk'[j]
                 /\ lh'.sector[j] \in dirty' \/ (pc'[q] = "install" /\ j <= at'[q])
      <4>1. j \in 1 .. lh.n /\ j \in 1 .. LOGSIZE /\ lh'.sector[j] = lh.sector[j]
        BY <2>b, <2>e DEF IInv, TypeOK, Header
      <4>2. lh.sector[j] \in dirty /\ buf[lh.sector[j]] = logblk[j]
        BY <2>a, <4>1 DEF IInv, Coherent
      <4>3. lh.sector[j] \in Block
        BY <4>1, Zenon DEF IInv, TypeOK, Header
      <4>4. CASE j = i
        BY <2>0, <2>a, <2>d, <4>1, <4>2, <4>3, <4>4 DEF IInv, TypeOK
      <4>5. CASE j # i
        <5>1. lh.sector[j] # b
          <6>1. CASE j < i
            BY <2>d, <4>1, <6>1
          <6>2. CASE j > i
            <7>1. i \in 1 .. lh.n /\ lh.sector[i] = b
              BY <2>d, <4>1, <6>2 DEF IInv, TypeOK, Header
            <7> QED
              BY <4>1, <6>2, <7>1 DEF IInv, Stages, Distinct
          <6> QED
            BY <4>1, <4>5, <6>1, <6>2
        <5> QED
          BY <2>0, <2>a, <4>1, <4>2, <4>3, <4>5, <5>1 DEF IInv, TypeOK
      <4> QED
        BY <4>4, <4>5, Zenon
    <3> QED
      BY <3>1, <3>2, <3>3, Zenon DEF Coherent
  <2> QED
    BY <2>1, <2>2, <2>3, <2>4, Zenon DEF IInv
<1>9. ASSUME NEW p \in Proc, log_write_panic(p) PROVE IInv'
  <2>1. TypeOK'
    BY <1>9, Zenon DEF IInv, TypeOK, Header, PC, InTrans, InRecovery,
           log_write_panic, disk, cache, flags
  <2>2. Exclusion'
    BY <1>9, Zenon DEF IInv, TypeOK, Exclusion, OneTransaction, InTrans, InRecovery,
           log_write_panic, disk, cache, flags
  <2>3. Stages'
    BY <1>9, SMTT(120) DEF IInv, TypeOK, Header, Exclusion, OneTransaction, InTrans, InRecovery, Stages,
           Distinct, LogIndex,
           log_write_panic, disk, cache, flags
  <2>4. Coherent'
    BY <1>9, SMTT(30) DEF IInv, TypeOK, Header, Exclusion, OneTransaction, InTrans, InRecovery, Stages,
           Distinct, LogIndex, Coherent,
           log_write_panic, disk, cache, flags
  <2> QED
    BY <2>1, <2>2, <2>3, <2>4, Zenon DEF IInv
<1>10. ASSUME NEW p \in Proc, log_written(p) PROVE IInv'
  <2>1. TypeOK'
    <3>1. pc[p] = "append" /\ at[p] \in 1 .. LOGSIZE /\ lh \in Header
      BY <1>10 DEF log_written, IInv, TypeOK, Stages, LogIndex, Header
    <3>2. lh' \in Header
      BY <1>10, <3>1 DEF log_written, Header
    <3> QED
      BY <1>10, <3>1, <3>2, Zenon DEF log_written, IInv, TypeOK, PC, InTrans, disk, flags
  <2>2. Exclusion'
    BY <1>10 DEF IInv, TypeOK, Exclusion, OneTransaction, InTrans, InRecovery,
           log_written, disk, cache, flags
  <2>3. Stages'
    BY <1>10, SMTT(30) DEF IInv, TypeOK, Header, Exclusion, OneTransaction, InTrans, InRecovery, Stages,
           Distinct, LogIndex,
           log_written, disk, cache, flags
  <2>4. Coherent'
    BY <1>10, SMTT(30) DEF IInv, TypeOK, Header, Exclusion, OneTransaction, InTrans, InRecovery, Stages,
           Distinct, LogIndex, Coherent,
           log_written, disk, cache, flags
  <2> QED
    BY <2>1, <2>2, <2>3, <2>4, Zenon DEF IInv
<1>11. ASSUME NEW p \in Proc, commit_trans(p) PROVE IInv'
  <2>a. CASE lh.n > 0
    <3>0. /\ pc[p] = "trans" /\ head' = CopyHeader(lh, head)
          /\ at' = [at EXCEPT ![p] = 0] /\ pc' = [pc EXCEPT ![p] = "install"]
          /\ UNCHANGED <<busy, home, logblk, lh, buf, dirty, blk,
                         first, mounted, recovered, halted>>
      BY <1>11, <2>a DEF commit_trans, cache, flags
    <3>1. TypeOK'
      BY <3>0 DEF IInv, TypeOK, Header, CopyHeader, PC, InTrans
    <3>2. Exclusion'
      BY <3>0, ZenonT(30) DEF IInv, TypeOK, Exclusion, OneTransaction, InTrans, InRecovery
    <3>3. Stages'
      BY <3>0, SMTT(30) DEF IInv, TypeOK, Header, Exclusion, OneTransaction, InTrans, InRecovery, Stages,
           Distinct, LogIndex,
             CopyHeader
    <3>4. Coherent'
      BY <3>0, SMTT(30) DEF IInv, TypeOK, Header, Exclusion, OneTransaction, InTrans, InRecovery, Stages,
           Distinct, LogIndex, Coherent
    <3> QED
      BY <3>1, <3>2, <3>3, <3>4, Zenon DEF IInv
  <2>b. CASE lh.n = 0
    <3>0. /\ pc[p] = "trans" /\ busy' = FALSE
          /\ pc' = [q \in Proc |-> IF q = p THEN "user"
                                   ELSE IF pc[q] = "asleep" THEN "woken" ELSE pc[q]]
          /\ UNCHANGED <<head, at, home, logblk, lh, buf, dirty, blk,
                         first, mounted, recovered, halted>>
      BY <1>11, <2>b DEF commit_trans, EndTrans, cache, flags
    <3>1. TypeOK'
      BY <3>0, ZenonT(60) DEF IInv, TypeOK, Header, PC
    <3>2. Exclusion'
      BY <3>0, ZenonT(30) DEF IInv, TypeOK, Exclusion, OneTransaction, InTrans, InRecovery
    <3>3. Stages'
      BY <2>b, <3>0, SMTT(120) DEF IInv, TypeOK, Header, Exclusion, OneTransaction, InTrans, InRecovery, Stages,
           Distinct, LogIndex
    <3>4. Coherent'
      BY <2>b, <3>0, SMTT(120) DEF IInv, TypeOK, Header, Exclusion, OneTransaction, InTrans, InRecovery, Stages,
           Distinct, LogIndex, Coherent
    <3> QED
      BY <3>1, <3>2, <3>3, <3>4, Zenon DEF IInv
  <2> QED
    BY <2>a, <2>b, SMTT(30) DEF IInv, TypeOK, Header
<1>12. ASSUME NEW p \in Proc, commit_done(p) PROVE IInv'
  <2>1. TypeOK'
    BY <1>12, ZenonT(60) DEF IInv, TypeOK, Header, PC, InTrans, InRecovery,
           commit_done, EndTrans, disk, cache, flags
  <2>2. Exclusion'
    BY <1>12, ZenonT(30) DEF IInv, TypeOK, Exclusion, OneTransaction, InTrans, InRecovery,
           commit_done, EndTrans, disk, cache, flags
  <2>3. Stages'
    BY <1>12, SMTT(120) DEF IInv, TypeOK, Header, Exclusion, OneTransaction, InTrans, InRecovery, Stages,
           Distinct, LogIndex,
           commit_done, EndTrans, disk, cache, flags
  <2>4. Coherent'
    BY <1>12, SMTT(120) DEF IInv, TypeOK, Header, Exclusion, OneTransaction, InTrans, InRecovery, Stages,
           Distinct, LogIndex, Coherent,
           commit_done, EndTrans, disk, cache, flags
  <2> QED
    BY <2>1, <2>2, <2>3, <2>4, Zenon DEF IInv
<1>13. ASSUME NEW b \in Block, bufcache_read(b) PROVE IInv'
  <2>1. TypeOK'
    BY <1>13, Zenon DEF IInv, TypeOK, Header, PC, InTrans, InRecovery,
           bufcache_read, disk, cache, flags
  <2>2. Exclusion'
    BY <1>13, Zenon DEF IInv, TypeOK, Exclusion, OneTransaction, InTrans, InRecovery,
           bufcache_read, disk, cache, flags
  <2>3. Stages'
    BY <1>13, SMTT(30) DEF IInv, TypeOK, Header, Exclusion, OneTransaction, InTrans, InRecovery, Stages,
           Distinct, LogIndex,
           bufcache_read, disk, cache, flags
  <2>4. Coherent'
    <3>1. /\ UNCHANGED <<dirty, home, logblk, head, lh, pc, blk, at>>
          /\ \A c \in Block : c # b => buf'[c] = buf[c]
          /\ buf[b] = NoBuf /\ buf'[b] = home[b]
      BY <1>13, Zenon DEF bufcache_read, disk, IInv, TypeOK
    <3>2. ASSUME NEW c \in Block
          PROVE  \/ buf'[c] \in {NoBuf, home'[c]}
                 \/ c \in dirty'
                 \/ \E q \in Proc : pc'[q] = "append" /\ blk'[q] = c
      <4>1. CASE c = b
        BY <3>1, <4>1, Zenon
      <4>2. CASE c # b
        <5>1. buf'[c] = buf[c]
          BY <3>1, <4>2, Zenon
        <5> QED
          BY <3>1, <5>1 DEF IInv, Coherent
      <4> QED
        BY <4>1, <4>2, Zenon
    <3>3. \A c \in dirty : c # b
      <4> SUFFICES ASSUME b \in dirty PROVE FALSE
        BY Zenon
      <4>1. PICK q \in Proc, i \in 1 .. lh.n :
              pc[q] \in {"trans", "append", "install"} /\ lh.sector[i] = b
        BY DEF IInv, Coherent
      <4>2. buf[b] = logblk[i]
        BY <4>1, ZenonT(30) DEF IInv, Coherent
      <4>3. logblk[i] \in Val
        BY SMTT(30) DEF IInv, TypeOK, Header
      <4> QED
        BY <3>1, <4>2, <4>3, Zenon
    <3>4. ASSUME NEW q \in Proc, NEW i \in 1 .. lh.n, lh.sector[i] \in dirty
          PROVE  buf'[lh.sector[i]] = buf[lh.sector[i]]
      BY <3>1, <3>3, <3>4, Zenon DEF IInv, TypeOK
    <3> QED
      <4>1. \A c \in Block : \/ buf'[c] \in {NoBuf, home'[c]}
                             \/ c \in dirty'
                             \/ \E q \in Proc : pc'[q] = "append" /\ blk'[q] = c
        BY <3>1, <3>2, Zenon
      <4>2. \A c \in dirty' : \E q \in Proc : \E i \in 1 .. lh'.n :
              /\ pc'[q] \in {"trans", "append", "install"}
              /\ lh'.sector[i] = c
              /\ pc'[q] = "install" => i > at'[q]
        BY <3>1, SMTT(30) DEF IInv, Coherent
      <4>3. \A q \in Proc, i \in 1 .. lh'.n :
              pc'[q] \in {"trans", "append", "install"} =>
                /\ lh'.sector[i] \in dirty' => buf'[lh'.sector[i]] = logblk'[i]
                /\ lh'.sector[i] \in dirty' \/ (pc'[q] = "install" /\ i <= at'[q])
        BY <3>1, <3>4 DEF IInv, Coherent
      <4> QED
        BY <4>1, <4>2, <4>3, Zenon DEF Coherent
  <2> QED
    BY <2>1, <2>2, <2>3, <2>4, Zenon DEF IInv
<1>14. ASSUME NEW b \in Block, bufcache_recycle(b) PROVE IInv'
  <2>1. TypeOK'
    BY <1>14, Zenon DEF IInv, TypeOK, Header, PC, InTrans, InRecovery,
           bufcache_recycle, disk, cache, flags
  <2>2. Exclusion'
    BY <1>14, Zenon DEF IInv, TypeOK, Exclusion, OneTransaction, InTrans, InRecovery,
           bufcache_recycle, disk, cache, flags
  <2>3. Stages'
    <3>1. /\ UNCHANGED <<recovered, dirty, home, logblk, head, lh, pc, blk, at>>
          /\ \A c \in Block : c # b => buf'[c] = buf[c]
          /\ b \notin Held
      BY <1>14, Zenon DEF bufcache_recycle, disk, flags, IInv, TypeOK
    <3>2. \A q \in Proc : pc[q] = "append" => buf'[blk[q]] = buf[blk[q]]
      BY <3>1, Zenon DEF Held, IInv, TypeOK
    <3> QED
      <4>1. \A q \in Proc : pc[q] = "append" => buf[blk[q]] = logblk[at[q]]
        BY Zenon DEF IInv, Stages
      <4>2. \A q \in Proc : pc'[q] = "append" => buf'[blk'[q]] = logblk'[at'[q]]
        BY <3>1, <3>2, <4>1, Zenon
      <4> QED
        BY <3>1, <4>2, SMTT(30) DEF IInv, Stages, Distinct, LogIndex
  <2>4. Coherent'
    <3>1. /\ UNCHANGED <<dirty, home, logblk, head, lh, pc, blk, at>>
          /\ \A c \in Block : c # b => buf'[c] = buf[c]
          /\ b \notin dirty /\ buf'[b] = NoBuf
      BY <1>14, Zenon DEF bufcache_recycle, disk, IInv, TypeOK
    <3>2. ASSUME NEW c \in Block
          PROVE  \/ buf'[c] \in {NoBuf, home'[c]}
                 \/ c \in dirty'
                 \/ \E q \in Proc : pc'[q] = "append" /\ blk'[q] = c
      <4>1. CASE c = b
        BY <3>1, <4>1, Zenon
      <4>2. CASE c # b
        <5>1. buf'[c] = buf[c]
          BY <3>1, <4>2, Zenon
        <5> QED
          BY <3>1, <5>1 DEF IInv, Coherent
      <4> QED
        BY <4>1, <4>2, Zenon
    <3>3. \A c \in dirty : c # b
      BY <3>1, Zenon
    <3>4. ASSUME NEW q \in Proc, NEW i \in 1 .. lh.n, lh.sector[i] \in dirty
          PROVE  buf'[lh.sector[i]] = buf[lh.sector[i]]
      BY <3>1, <3>3, <3>4, Zenon DEF IInv, TypeOK
    <3> QED
      BY <3>1, <3>2, <3>4 DEF IInv, Coherent
  <2> QED
    BY <2>1, <2>2, <2>3, <2>4, Zenon DEF IInv
<1>15. CASE crash
  <2>1. EmptyHeader \in Header /\ EmptyHeader.n = 0
    BY DEF EmptyHeader, Header
  <2>2. TypeOK'
    <3>1. (CHOOSE b \in Block : TRUE) \in Block
      BY Zenon
    <3>2. pc' \in [Proc -> PC] /\ at' \in [Proc -> 0 .. LOGSIZE]
      BY <1>15 DEF crash, PC
    <3>3. buf' \in [Block -> Val \cup {NoBuf}] /\ blk' \in [Proc -> Block]
      BY <1>15, <3>1, Zenon DEF crash
    <3>4. UNCHANGED <<home, logblk, head>>
      BY <1>15, Zenon DEF crash, disk
    <3> QED
      BY <1>15, <2>1, <3>2, <3>3, <3>4, ZenonT(60) DEF crash, IInv, TypeOK
  <2>3. Exclusion'
    BY <1>15, Zenon DEF crash, Exclusion, OneTransaction, InTrans, InRecovery
  <2>4. Stages'
    BY <1>15, <2>1, SMTT(60) DEF crash, disk, IInv, Stages, Distinct
  <2>5. Coherent'
    BY <1>15, <2>1, Zenon DEF crash, Coherent
  <2> QED
    BY <2>2, <2>3, <2>4, <2>5, Zenon DEF IInv
<1>16. CASE UNCHANGED vars
  <2>1. /\ UNCHANGED <<home, logblk, head, lh, busy, buf, dirty>>
        /\ UNCHANGED <<first, mounted, recovered, halted, pc, blk, at>>
    BY <1>16, Zenon DEF vars
  <2>2. TypeOK'
    BY <2>1, Zenon DEF IInv, TypeOK, Header
  <2>3. Exclusion'
    BY <2>1, Zenon DEF IInv, Exclusion, OneTransaction, InTrans, InRecovery
  <2>4. Stages'
    BY <2>1, SMTT(30) DEF IInv, Stages, Distinct, LogIndex
  <2>5. Coherent'
    <3>1. \A b \in Block : \/ buf'[b] \in {NoBuf, home'[b]}
                          \/ b \in dirty'
                          \/ \E p \in Proc : pc'[p] = "append" /\ blk'[p] = b
      BY <2>1, ZenonT(30) DEF IInv, Coherent
    <3>2. \A b \in dirty' : \E p \in Proc : \E i \in 1 .. lh'.n :
            /\ pc'[p] \in {"trans", "append", "install"}
            /\ lh'.sector[i] = b
            /\ pc'[p] = "install" => i > at'[p]
      BY <2>1, SMTT(30) DEF IInv, Coherent
    <3>3. \A p \in Proc, i \in 1 .. lh'.n :
            pc'[p] \in {"trans", "append", "install"} =>
              /\ lh'.sector[i] \in dirty' => buf'[lh'.sector[i]] = logblk'[i]
              /\ lh'.sector[i] \in dirty' \/ (pc'[p] = "install" /\ i <= at'[p])
      BY <2>1, SMTT(30) DEF IInv, Coherent
    <3> QED
      BY <3>1, <3>2, <3>3, Zenon DEF Coherent
  <2> QED
    BY <2>2, <2>3, <2>4, <2>5, Zenon DEF IInv
<1> QED
  BY <1>1, <1>2, <1>3, <1>4, <1>5, <1>6, <1>7, <1>8, <1>9, <1>10, <1>11, <1>12, Zenon,
     <1>13, <1>14, <1>15, <1>16 DEF Next, Step

\* The inductive invariant holds in every reachable state.
THEOREM Invariance == Spec => []IInv
<1> QED
  BY InitIInv, NextIInv, PTL DEF Spec

\* The log is type correct.
THEOREM TypeCorrect == Spec => []TypeOK
<1>1. IInv => TypeOK
  BY Zenon DEF IInv
<1> QED
  BY <1>1, Invariance, PTL

\* begin_trans admits one system call at a time.
THEOREM Serialized == Spec => []OneTransaction
<1>1. IInv => OneTransaction
  BY Zenon DEF IInv, Exclusion
<1> QED
  BY <1>1, Invariance, PTL
-----------------------------------------------------------------------------
(* The refinement of AtomicDisk.                                           *)

\* What recovery makes of a logged block, and of the others.
RecoveredBlocks ==
  /\ Recovered \in [Block -> Val]
  /\ \A i \in 1 .. head.n : Recovered[head.sector[i]] = logblk[i]
  /\ \A b \in Block : (\A i \in 1 .. head.n : head.sector[i] # b) => Recovered[b] = home[b]

\* Recovered is well defined: no block is logged twice.
LEMMA RecoveredLemma == IInv => RecoveredBlocks
<1> SUFFICES ASSUME IInv PROVE RecoveredBlocks
  BY Zenon
<1> USE ConstAssumption
<1>1. /\ home \in [Block -> Val] /\ logblk \in [1 .. LOGSIZE -> Val]
      /\ head.n \in 0 .. LOGSIZE /\ head.sector \in [1 .. LOGSIZE -> Block]
      /\ \A i, j \in 1 .. head.n : head.sector[i] = head.sector[j] => i = j
  BY Zenon DEF IInv, TypeOK, Header, Stages, Distinct
<1>2. Recovered \in [Block -> Val]
  BY <1>1, SMTT(60) DEF Recovered
<1>3. ASSUME NEW i \in 1 .. head.n PROVE Recovered[head.sector[i]] = logblk[i]
  <2> DEFINE b == head.sector[i]
             j == CHOOSE k \in 1 .. head.n : head.sector[k] = b
  <2>1. b \in Block
    BY <1>1, SMTT(30)
  <2>2. j \in 1 .. head.n /\ head.sector[j] = b
    BY Zenon
  <2>3. j = i
    BY <1>1, <2>2, Zenon
  <2> QED
    BY <2>1, <2>3, Zenon DEF Recovered
<1>4. ASSUME NEW b \in Block, \A i \in 1 .. head.n : head.sector[i] # b
      PROVE  Recovered[b] = home[b]
  BY <1>4, Zenon DEF Recovered
<1> QED
  BY <1>2, <1>3, <1>4, Zenon DEF RecoveredBlocks

\* What system calls see while the log is in use is one value per block.
LEMMA VisibleBlock ==
  ASSUME IInv, recovered, NEW b \in Block
  PROVE  Visible[b] = IF buf[b] = NoBuf THEN home[b] ELSE buf[b]
BY Zenon DEF Visible

\* The initial states are initial states of AtomicDisk.
LEMMA InitRefines == Init => AD!Init
<1> SUFFICES ASSUME Init PROVE AD!Init
  BY Zenon
<1>1. Visible = Recovered
  BY Zenon DEF Init, Visible
<1>2. Recovered \in [Block -> Val]
  BY InitIInv, RecoveredLemma, Zenon DEF RecoveredBlocks
<1> QED
  BY <1>1, <1>2, Zenon DEF AD!Init

\* Every step is a step of AtomicDisk or changes neither of its variables.
LEMMA StepRefines ==
  ASSUME IInv, IInv', [Next]_vars, RecoveredBlocks, RecoveredBlocks'
  PROVE  [AD!Next]_AD!vars
<1> USE ConstAssumption
<1> DEFINE Same == Recovered' = Recovered /\ Visible' = Visible
<1>0. Same => [AD!Next]_AD!vars
  BY Zenon DEF AD!vars
<1>t. /\ home \in [Block -> Val] /\ logblk \in [1 .. LOGSIZE -> Val]
      /\ buf \in [Block -> Val \cup {NoBuf}] /\ at \in [Proc -> 0 .. LOGSIZE]
      /\ lh.n \in 0 .. LOGSIZE /\ lh.sector \in [1 .. LOGSIZE -> Block]
      /\ head.n \in 0 .. LOGSIZE /\ head.sector \in [1 .. LOGSIZE -> Block]
  BY Zenon DEF IInv, TypeOK, Header
<1>s. \A p \in Proc : pc[p] \in {"install", "recover"} =>
            /\ head.n = lh.n
            /\ \A i \in 1 .. lh.n : head.sector[i] = lh.sector[i]
            /\ \A i \in 1 .. at[p] : home[lh.sector[i]] = logblk[i]
  BY Zenon DEF IInv, Stages
<1>c. \A p \in Proc, i \in 1 .. lh.n :
       pc[p] \in {"trans", "append", "install"} =>
         /\ lh.sector[i] \in dirty => buf[lh.sector[i]] = logblk[i]
         /\ lh.sector[i] \in dirty \/ (pc[p] = "install" /\ i <= at[p])
  BY SMTT(30) DEF IInv, Coherent
<1>1. ASSUME NEW p \in Proc, sys_open_first(p) PROVE Same
  BY <1>1, Zenon DEF sys_open_first, Visible, Recovered, disk, cache
<1>2. ASSUME NEW p \in Proc, log_init(p) PROVE Same
  BY <1>2, Zenon DEF log_init, Visible, Recovered, disk, cache
<1>3. ASSUME NEW p \in Proc, read_head(p) PROVE Same
  BY <1>3, Zenon DEF read_head, Visible, Recovered, disk, cache, flags
<1>4. ASSUME NEW p \in Proc, install_trans(p) PROVE Same
  <2> DEFINE tail == at[p] + 1
             b == lh.sector[tail]
  <2>1. /\ tail \in 1 .. head.n /\ head.sector[tail] = b /\ b \in Block
        /\ home' = [home EXCEPT ![b] = logblk[tail]]
        /\ buf' = [buf EXCEPT ![b] = logblk[tail]]
        /\ head' = head /\ logblk' = logblk /\ recovered' = recovered
    <3>1. /\ at[p] < lh.n /\ head.n = lh.n
          /\ \A i \in 1 .. lh.n : head.sector[i] = lh.sector[i]
      BY <1>4, <1>s DEF install_trans
    <3>2. tail \in 1 .. head.n /\ head.sector[tail] = b /\ b \in Block
      BY <1>t, <3>1
    <3> QED
      BY <1>4, <3>2, Zenon DEF install_trans, flags
  <2> HIDE DEF b, tail
  <2>2. \A c \in Block : Recovered'[c] = Recovered[c]
    <3> TAKE c \in Block
    <3>1. CASE \E i \in 1 .. head.n : head.sector[i] = c
      BY <2>1, <3>1 DEF RecoveredBlocks
    <3>2. CASE \A i \in 1 .. head.n : head.sector[i] # c
      <4>1. c # b
        BY <2>1, <3>2, Zenon
      <4>2. home'[c] = home[c]
        BY <1>t, <2>1, <4>1, Zenon
      <4> QED
        BY <2>1, <3>2, <4>2, Zenon DEF RecoveredBlocks
    <3> QED
      BY <3>1, <3>2, Zenon
  <2>3. Recovered' = Recovered
    BY <2>2, SMTT(60) DEF RecoveredBlocks
  <2>4. CASE recovered
    <3>1. pc[p] = "install"
      BY <1>4, <2>4, Zenon DEF install_trans, IInv, Exclusion, InRecovery
    <3>2. buf[b] = logblk[tail] /\ logblk[tail] \in Val
      <4>1. /\ tail \in 1 .. lh.n /\ tail > at[p] /\ lh.sector[tail] = b
            /\ tail \in 1 .. LOGSIZE
        <5>1. at[p] \in 0 .. LOGSIZE /\ head.n = lh.n
          BY <1>t, <1>s, <3>1, Zenon
        <5> QED
          BY <1>t, <2>1, <5>1, SMTT(60) DEF b, tail
      <4>2. b \in dirty
        BY <1>c, <1>t, <3>1, <4>1
      <4>3. buf[b] = logblk[tail]
        BY <1>c, <3>1, <4>1, <4>2, Zenon
      <4> QED
        BY <1>t, <4>1, <4>3, Zenon
    <3>3. buf' = buf
      BY <1>t, <2>1, <3>2, Zenon
    <3>4. \A c \in Block : buf[c] = NoBuf => home'[c] = home[c]
      BY <1>t, <2>1, <3>2, Zenon
    <3> QED
      BY <2>1, <2>3, <2>4, <3>3, <3>4, ZenonT(30) DEF Visible
  <2>5. CASE ~recovered
    BY <2>1, <2>3, <2>5, Zenon DEF Visible
  <2> QED
    BY <2>4, <2>5, Zenon
<1>5. ASSUME NEW p \in Proc, erase_log(p) PROVE Same
  <2>1. /\ home' = home /\ buf' = buf /\ recovered' = recovered /\ head'.n = 0
        /\ \A i \in 1 .. head.n : home[head.sector[i]] = logblk[i]
    <3>1. at[p] \in 0 .. LOGSIZE /\ at[p] >= lh.n /\ pc[p] \in {"install", "recover"}
      BY <1>5, <1>t, Zenon DEF erase_log
    <3>2. \A i \in 1 .. head.n : home[head.sector[i]] = logblk[i]
      <4> TAKE i \in 1 .. head.n
      <4>1. head.n = lh.n /\ i \in 1 .. lh.n /\ i \in 1 .. at[p]
        BY <1>s, <1>t, <3>1, SMTT(30)
      <4> QED
        BY <1>s, <3>1, <4>1, Zenon
    <3> QED
      BY <1>5, <3>2 DEF erase_log, cache, flags
  <2>2. \A c \in Block : Recovered[c] = home[c]
    BY <2>1, SMTT(60) DEF RecoveredBlocks
  <2>3. \A c \in Block : Recovered'[c] = home[c]
    BY <2>1 DEF RecoveredBlocks
  <2>4. Recovered' = Recovered
    BY <2>2, <2>3 DEF RecoveredBlocks
  <2> QED
    BY <2>1, <2>4, Zenon DEF Visible
<1>6. ASSUME NEW p \in Proc, log_init_done(p) PROVE Same
  <2>1. /\ UNCHANGED <<home, logblk, head, buf>> /\ recovered' /\ ~recovered
        /\ pc[p] = "clear" /\ head.n = 0
    BY <1>6, ZenonT(30) DEF log_init_done, disk, cache, IInv, Exclusion, InRecovery, Stages
  <2>2. \A q \in Proc : pc[q] \notin {"trans", "append", "install"}
    BY <2>1, Zenon DEF IInv, Exclusion, InTrans
  <2>3. \A b \in Block : buf[b] \in {NoBuf, home[b]}
    BY <2>2, SMTT(60) DEF IInv, Coherent
  <2>4. Recovered' = Recovered
    BY <2>1, Zenon DEF Recovered
  <2>5. \A b \in Block : Recovered[b] = home[b]
    BY <2>1 DEF RecoveredBlocks
  <2>6. Visible = Recovered
    BY <2>1, Zenon DEF Visible
  <2>7. Visible' = [b \in Block |-> home[b]]
    BY <2>1, <2>3, Zenon DEF Visible
  <2> QED
    BY <2>4, <2>5, <2>6, <2>7, Zenon DEF RecoveredBlocks
<1>7. ASSUME NEW p \in Proc, begin_trans(p) PROVE Same
  BY <1>7, ZenonT(30) DEF begin_trans, Visible, Recovered, disk, cache, flags
<1>8. ASSUME NEW p \in Proc, NEW b \in Block, NEW v \in Val, log_write(p, b, v)
      PROVE  AD!Next
  <2>1. /\ head.n = 0 /\ recovered /\ recovered' /\ home' = home /\ head' = head
        /\ buf' = [buf EXCEPT ![b] = v]
    BY <1>8, Zenon DEF log_write, flags, IInv, Stages, Exclusion, InTrans
  <2>2. Recovered' = Recovered
    <3>1. \A c \in Block : Recovered[c] = home[c] /\ Recovered'[c] = home[c]
      BY <2>1 DEF RecoveredBlocks
    <3> QED
      BY <3>1 DEF RecoveredBlocks
  <2>3. Visible' = [Visible EXCEPT ![b] = v]
    BY <1>t, <2>1, ZenonT(60) DEF Visible
  <2> QED
    BY <2>2, <2>3, ZenonT(60) DEF AD!Next, AD!Write
<1>9. ASSUME NEW p \in Proc, log_write_panic(p) PROVE Same
  BY <1>9, Zenon DEF log_write_panic, Visible, Recovered, disk, cache
<1>10. ASSUME NEW p \in Proc, log_written(p) PROVE Same
  BY <1>10, Zenon DEF log_written, Visible, Recovered, disk, flags
<1>11. ASSUME NEW p \in Proc, commit_trans(p) PROVE Same \/ AD!Next
  <2>a. CASE lh.n > 0
    <3>1. /\ pc[p] = "trans" /\ recovered /\ recovered'
          /\ UNCHANGED <<home, logblk, buf>>
          /\ head'.n = lh.n
          /\ \A i \in 1 .. lh.n : head'.sector[i] = lh.sector[i] /\ lh.sector[i] \in Block
      <4>1. lh \in Header /\ pc[p] = "trans" /\ recovered
        BY <1>11, Zenon DEF commit_trans, IInv, TypeOK, Exclusion, InTrans
      <4>2. head' = CopyHeader(lh, head) /\ UNCHANGED <<home, logblk, buf, recovered>>
        <5>1. lh.n # 0
          BY <2>a, SMTT(30)
        <5> QED
          BY <1>11, <5>1, Zenon DEF commit_trans, cache, flags
      <4>3. head'.n = lh.n
        BY <4>2, Zenon DEF CopyHeader
      <4>4. \A i \in 1 .. lh.n : head'.sector[i] = lh.sector[i] /\ lh.sector[i] \in Block
        BY <1>t, <4>2 DEF CopyHeader
      <4> QED
        BY <4>1, <4>2, <4>3, <4>4, Zenon
    <3>2. Visible' = Visible
      BY <3>1, Zenon DEF Visible
    <3>3. ASSUME NEW b \in Block PROVE Recovered'[b] = Visible[b]
      <4>1. CASE \E i \in 1 .. lh.n : lh.sector[i] = b
        <5>1. PICK i \in 1 .. lh.n : lh.sector[i] = b
          BY <4>1, Zenon
        <5>2. Recovered'[b] = logblk[i]
          BY <3>1, <5>1, ZenonT(30) DEF RecoveredBlocks
        <5>3. buf[b] = logblk[i] /\ logblk[i] \in Val
          <6>1. i \in 1 .. LOGSIZE
            BY <1>t
          <6>2. buf[b] = logblk[i]
            BY <1>c, <3>1, <5>1, Zenon
          <6> QED
            BY <1>t, <6>1, <6>2, Zenon
        <5> QED
          BY <3>1, <5>2, <5>3, Zenon DEF Visible
      <4>2. CASE \A i \in 1 .. lh.n : lh.sector[i] # b
        <5>1. b \notin dirty
          BY <4>2, SMTT(60) DEF IInv, Coherent
        <5>2. \A q \in Proc : pc[q] # "append"
          BY <3>1, Zenon DEF IInv, Exclusion, OneTransaction, InTrans
        <5>3. buf[b] \in {NoBuf, home[b]}
          BY <5>1, <5>2, SMTT(60) DEF IInv, Coherent
        <5>4. Recovered'[b] = home[b]
          BY <3>1, <4>2, ZenonT(60) DEF RecoveredBlocks
        <5> QED
          BY <3>1, <5>3, <5>4, Zenon DEF Visible
      <4> QED
        BY <4>1, <4>2, Zenon
    <3>4. Recovered' = Visible
      <4>1. Visible = [b \in Block |-> Visible[b]]
        BY <3>1, Zenon DEF Visible
      <4> QED
        BY <3>3, <4>1, Zenon DEF RecoveredBlocks
    <3> QED
      BY <3>2, <3>4, Zenon DEF AD!Next, AD!Commit
  <2>b. CASE ~(lh.n > 0)
    <3>1. UNCHANGED <<home, logblk, head, buf, recovered>>
      BY <1>11, <2>b, Zenon DEF commit_trans, cache, flags
    <3> QED
      BY <3>1, Zenon DEF Visible, Recovered
  <2> QED
    BY <2>a, <2>b, Zenon
<1>12. ASSUME NEW p \in Proc, commit_done(p) PROVE Same
  BY <1>12, Zenon DEF commit_done, Visible, Recovered, disk, cache, flags
<1>13. ASSUME NEW b \in Block, bufcache_read(b) PROVE Same
  <2>1. /\ UNCHANGED <<home, logblk, head, recovered>>
        /\ buf[b] = NoBuf /\ buf' = [buf EXCEPT ![b] = home[b]]
    BY <1>13, Zenon DEF bufcache_read, disk, flags
  <2>2. \A c \in Block : (IF buf'[c] = NoBuf THEN home[c] ELSE buf'[c])
                         = (IF buf[c] = NoBuf THEN home[c] ELSE buf[c])
    BY <1>t, <2>1, Zenon
  <2> QED
    BY <2>1, <2>2, ZenonT(30) DEF Visible, Recovered
<1>14. ASSUME NEW b \in Block, bufcache_recycle(b) PROVE Same
  <2>1. /\ UNCHANGED <<home, logblk, head, recovered>>
        /\ b \notin dirty /\ b \notin Held /\ buf' = [buf EXCEPT ![b] = NoBuf]
    BY <1>14, Zenon DEF bufcache_recycle, disk, flags
  <2>2. buf[b] \in {NoBuf, home[b]}
    <3>1. \A q \in Proc : pc[q] = "append" => blk[q] # b
      BY <2>1, Zenon DEF Held
    <3> QED
      BY <2>1, <3>1 DEF IInv, Coherent
  <2>3. \A c \in Block : (IF buf'[c] = NoBuf THEN home[c] ELSE buf'[c])
                         = (IF buf[c] = NoBuf THEN home[c] ELSE buf[c])
    BY <1>t, <2>1, <2>2, Zenon
  <2> QED
    BY <2>1, <2>3, ZenonT(30) DEF Visible, Recovered
<1>15. ASSUME crash PROVE AD!Next
  <2>1. Recovered' = Recovered
    BY <1>15, Zenon DEF crash, disk, Recovered
  <2>2. Visible' = Recovered'
    BY <1>15, Zenon DEF crash, Visible
  <2> QED
    BY <2>1, <2>2, Zenon DEF AD!Next, AD!Crash
<1>16. ASSUME UNCHANGED vars PROVE Same
  BY <1>16, Zenon DEF vars, Visible, Recovered
<1> HIDE DEF Same
<1> QED
  BY <1>0, <1>1, <1>2, <1>3, <1>4, <1>5, <1>6, <1>7, <1>8, <1>9, <1>10, <1>11, <1>12, Zenon,
     <1>13, <1>14, <1>15, <1>16 DEF Next, Step

\* Transactions are atomic across crashes: Log implements AtomicDisk.
THEOREM CrashAtomicity == Spec => CrashAtomic
<1>1. IInv /\ IInv' /\ [Next]_vars => [AD!Next]_AD!vars
  <2>1. IInv' => RecoveredBlocks'
    BY RecoveredLemma, PTL
  <2> QED
    BY <2>1, RecoveredLemma, StepRefines, Zenon
<1> QED
  BY <1>1, InitRefines, Invariance, PTL DEF Spec, CrashAtomic, AD!Spec
=============================================================================
