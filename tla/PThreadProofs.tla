--------------------------- MODULE PThreadProofs ---------------------------
(***************************************************************************)
(* Proofs about PThread for every number of threads, every set of channels *)
(* and every slice length.                                                 *)
(***************************************************************************)
EXTENDS PThread, FiniteSetTheorems, TLAPS
----------------------------------------------------------------------------
(* The queue operations: the linked lists that they leave behind.          *)

\* The null index is no thread.
LEMMA NilNotPid ==
  /\ NIL \in 0 .. NUM_IDS /\ NIL \notin Pid
  /\ \A p \in Pid : p \in 0 .. NUM_IDS /\ p # NIL
BY ConstAssumption DEF Pid, NIL

\* A list of distinct threads that misses a thread is shorter than the pool.
LEMMA RoomForOneMore ==
  ASSUME NEW R \in SUBSET Pid, NEW pid \in Pid \ R, NEW n \in 0 .. NUM_IDS,
         NEW s \in [1 .. n -> R], \A i, j \in 1 .. n : s[i] = s[j] => i = j
  PROVE  n + 1 \in 0 .. NUM_IDS
<1> USE ConstAssumption
<1>1. s \in Injection(1 .. n, Pid \ {pid})
  BY DEF Injection, IsInjective
<1>2. /\ IsFiniteSet(Pid) /\ Cardinality(Pid) = NUM_IDS
  BY FS_Interval DEF Pid
<1>3. /\ IsFiniteSet(Pid \ {pid}) /\ Cardinality(Pid \ {pid}) = NUM_IDS - 1
  BY <1>2, FS_RemoveElement, Zenon
<1>4. Cardinality(1 .. n) <= NUM_IDS - 1
  BY <1>1, <1>3, FS_Injection
<1>5. Cardinality(1 .. n) = n
  BY FS_Interval
<1> QED
  BY <1>4, <1>5

\* A sequence s of n elements with x at its end, without its first element,
\* and without its k-th element.
With(s, n, x) == [i \in 1 .. n + 1 |-> IF i <= n THEN s[i] ELSE x]
Rest(s, n) == [i \in 1 .. n - 1 |-> s[i + 1]]
Without(s, n, k) == [i \in 1 .. n - 1 |-> IF i < k THEN s[i] ELSE s[i + 1]]

\* Append puts an element at the end.
LEMMA AppendIs ==
  ASSUME NEW R, NEW n \in Nat, NEW s \in [1 .. n -> R], NEW x
  PROVE  Append(s, x) = With(s, n, x)
<1> DEFINE a == Append(s, x)
<1>1. s \in Seq(R) /\ Len(s) = n
  OBVIOUS
<1>2. a \in Seq(R \cup {x}) /\ Len(a) = n + 1
  BY <1>1
<1>3. (\A i \in 1 .. n : a[i] = s[i]) /\ a[n + 1] = x
  BY <1>1
<1> HIDE DEF a
<1>4. a \in [1 .. n + 1 -> R \cup {x}]
  BY <1>2
<1>5. \A i \in 1 .. n + 1 : a[i] = IF i <= n THEN s[i] ELSE x
  BY <1>3
<1> QED
  BY <1>4, <1>5, Zenon DEF a, With

\* Tail drops the first element.
LEMMA TailIs ==
  ASSUME NEW R, NEW n \in Nat, NEW s \in [1 .. n -> R], n > 0
  PROVE  Tail(s) = Rest(s, n)
<1> DEFINE a == Tail(s)
<1>1. s \in Seq(R) /\ Len(s) = n
  OBVIOUS
<1>2. a \in Seq(R) /\ Len(a) = n - 1 /\ \A i \in 1 .. n - 1 : a[i] = s[i + 1]
  BY <1>1
<1> HIDE DEF a
<1>3. a \in [1 .. n - 1 -> R]
  BY <1>2
<1> QED
  BY <1>2, <1>3, Zenon DEF a, Rest

\* tqueue_init's empty queue lists no thread.
LEMMA EmptyQueueList == EmptyQueue \in QueueType /\ ListOf(EmptyQueue, {})
<1> USE ConstAssumption DEF Pid, NIL
<1>1. EmptyQueue \in QueueType
  BY DEF EmptyQueue, QueueType
<1> DEFINE s == [i \in 1 .. 0 |-> 0]
<1>2. s \in [1 .. 0 -> {}]
  OBVIOUS
<1>3. Links(EmptyQueue, 0, s)
  BY DEF Links, EmptyQueue
<1> HIDE DEF s
<1>4. \E z \in [1 .. 0 -> {}] :
        Links(EmptyQueue, 0, z) /\ \A p \in {} : \E i \in 1 .. 0 : z[i] = p
  BY <1>2, <1>3, ZenonT(60)
<1>5. 0 \in 0 .. NUM_IDS
  OBVIOUS
<1> QED
  BY <1>1, <1>4, <1>5, ZenonT(60) DEF ListOf

\* tqueue_enqueue appends a thread that is not in the queue.
LEMMA EnqueueLinks ==
  ASSUME NEW q \in QueueType, NEW R \in SUBSET Pid, NEW pid \in Pid \ R,
         NEW n \in 0 .. NUM_IDS, NEW s \in [1 .. n -> R], Links(q, n, s)
  PROVE  /\ tqueue_enqueue(q, pid) \in QueueType
         /\ n + 1 \in 0 .. NUM_IDS
         /\ Append(s, pid) \in [1 .. n + 1 -> R \cup {pid}]
         /\ Links(tqueue_enqueue(q, pid), n + 1, Append(s, pid))
<1> USE ConstAssumption DEF With
<1> DEFINE e == tqueue_enqueue(q, pid)
<1> DEFINE t == With(s, n, pid)
<1>2. n + 1 \in 0 .. NUM_IDS
  BY RoomForOneMore, Zenon DEF Links
<1>3. t \in [1 .. n + 1 -> R \cup {pid}]
  OBVIOUS
<1>4. e \in QueueType
  <2>1. CASE q.tail = NIL
    BY <2>1, NilNotPid, Zenon DEF tqueue_enqueue, QueueType
  <2>2. CASE q.tail # NIL
    BY <2>2, NilNotPid, ZenonT(60) DEF tqueue_enqueue, QueueType
  <2> QED
    BY <2>1, <2>2, Zenon
<1>5. \A i, j \in 1 .. n + 1 : t[i] = t[j] => i = j
  BY DEF Links
<1>6. e.head = t[1] /\ e.tail = t[n + 1]
  BY DEF Links, tqueue_enqueue, Pid, NIL
<1>7. ASSUME NEW i \in 1 .. n + 1
      PROVE  /\ e.next[t[i]] = IF i = n + 1 THEN NIL ELSE t[i + 1]
             /\ e.prev[t[i]] = IF i = 1 THEN NIL ELSE t[i - 1]
  <2>1. CASE n = 0
    BY <2>1, SMTT(30) DEF Links, tqueue_enqueue, QueueType, Pid, NIL
  <2>2. CASE n # 0
    <3>1. q.tail = s[n] /\ s[n] \in R /\ s[n] \in Pid /\ s[n] # NIL
      BY <2>2, NilNotPid DEF Links
    <3>2. /\ e.next = [q.next EXCEPT ![s[n]] = pid, ![pid] = NIL]
          /\ e.prev = [q.prev EXCEPT ![pid] = s[n]]
      BY <3>1, Zenon DEF tqueue_enqueue
    <3>3. CASE i = n + 1
      BY <2>2, <3>1, <3>2, <3>3 DEF QueueType
    <3>4. CASE i = n
      BY <2>2, <3>1, <3>2, <3>4, SMTT(30) DEF QueueType, Links
    <3>5. CASE i < n
      <4>1. s[i] \in Pid /\ s[i] # pid /\ s[i] # s[n]
        BY <3>5, SMTT(30) DEF Links
      <4>2. t[i] = s[i] /\ t[i + 1] = s[i + 1] /\ (i # 1 => t[i - 1] = s[i - 1])
        BY <3>5
      <4>3. /\ q.next[s[i]] = s[i + 1]
            /\ q.prev[s[i]] = IF i = 1 THEN NIL ELSE s[i - 1]
        <5>1. i \in 1 .. n /\ i # n
          BY <3>5
        <5>2. /\ q.next[s[i]] = IF i = n THEN NIL ELSE s[i + 1]
              /\ q.prev[s[i]] = IF i = 1 THEN NIL ELSE s[i - 1]
          BY <5>1, Zenon DEF Links
        <5> QED
          BY <5>1, <5>2, Zenon
      <4>4. e.next[s[i]] = q.next[s[i]] /\ e.prev[s[i]] = q.prev[s[i]]
        BY <3>2, <4>1, ZenonT(30) DEF QueueType
      <4> HIDE DEF e, t
      <4> QED
        BY <3>5, <4>2, <4>3, <4>4
    <3> QED
      BY <3>3, <3>4, <3>5
  <2> QED
    BY <2>1, <2>2, Zenon
<1>8. ASSUME NEW p \in Pid, \A i \in 1 .. n + 1 : t[i] # p
      PROVE  e.next[p] = NIL /\ e.prev[p] = NIL
  <2>1. p # pid
    BY <1>8
  <2>2. \A i \in 1 .. n : s[i] # p
    BY <1>8
  <2>3. q.next[p] = NIL /\ q.prev[p] = NIL
    BY <2>2, Zenon DEF Links
  <2>4. q.tail # p
    BY <2>2, SMTT(30) DEF Links, Pid, NIL
  <2> QED
    BY <2>1, <2>3, <2>4, Zenon DEF tqueue_enqueue, QueueType
<1>9. Links(e, n + 1, t)
  BY <1>5, <1>6, <1>7, <1>8 DEF Links
<1>10. t = Append(s, pid)
  <2>1. n \in Nat
    OBVIOUS
  <2> HIDE DEF With
  <2> QED
    BY <2>1, AppendIs, Zenon
<1> HIDE DEF e, t
<1> QED
  BY <1>2, <1>3, <1>4, <1>9, <1>10, Zenon DEF e

\* It adds the thread to the queued ones.
LEMMA EnqueueList ==
  ASSUME NEW q \in QueueType, NEW R \in SUBSET Pid, NEW pid \in Pid \ R,
         ListOf(q, R)
  PROVE  /\ tqueue_enqueue(q, pid) \in QueueType
         /\ ListOf(tqueue_enqueue(q, pid), R \cup {pid})
<1>0. PICK n \in 0 .. NUM_IDS : \E s \in [1 .. n -> R] :
        /\ Links(q, n, s)
        /\ \A p \in R : \E i \in 1 .. n : s[i] = p
  BY Zenon DEF ListOf
<1>1. PICK s \in [1 .. n -> R] :
        /\ Links(q, n, s)
        /\ \A p \in R : \E i \in 1 .. n : s[i] = p
  BY <1>0, Zenon
<1>2. /\ tqueue_enqueue(q, pid) \in QueueType
      /\ n + 1 \in 0 .. NUM_IDS
      /\ Append(s, pid) \in [1 .. n + 1 -> R \cup {pid}]
      /\ Links(tqueue_enqueue(q, pid), n + 1, Append(s, pid))
  BY <1>1, EnqueueLinks, Zenon
<1>3. \A p \in R \cup {pid} : \E i \in 1 .. n + 1 : Append(s, pid)[i] = p
  BY <1>1
<1> QED
  BY <1>2, <1>3, ZenonT(60) DEF ListOf

\* tqueue_dequeue takes the first thread off a queue that is not empty.
LEMMA DequeueLinks ==
  ASSUME NEW q \in QueueType, NEW R \in SUBSET Pid,
         NEW n \in 0 .. NUM_IDS, NEW s \in [1 .. n -> R], Links(q, n, s), n > 0
  PROVE  /\ q.head = s[1] /\ s[1] \in R
         /\ tqueue_dequeue(q) \in QueueType
         /\ n - 1 \in 0 .. NUM_IDS
         /\ Tail(s) \in [1 .. n - 1 -> R \ {s[1]}]
         /\ Links(tqueue_dequeue(q), n - 1, Tail(s))
<1> USE ConstAssumption DEF Rest
<1> DEFINE d == tqueue_dequeue(q)
<1> DEFINE t == Rest(s, n)
<1>2. n > 0 /\ n - 1 \in 0 .. NUM_IDS
  OBVIOUS
<1>3. /\ q.head = s[1] /\ s[1] \in R /\ s[1] \in Pid /\ s[1] # NIL
      /\ q.next[s[1]] = IF n = 1 THEN NIL ELSE s[2]
  BY <1>2, NilNotPid DEF Links
<1>4. /\ d.head = q.next[s[1]]
      /\ d.tail = IF q.next[s[1]] = NIL THEN NIL ELSE q.tail
      /\ d.prev = [p \in Pid |-> IF p \in {s[1], q.next[s[1]]} THEN NIL ELSE q.prev[p]]
      /\ d.next = [q.next EXCEPT ![s[1]] = NIL]
  BY <1>3, Zenon DEF tqueue_dequeue
<1>5. d \in QueueType
  BY <1>3, NilNotPid, Zenon DEF tqueue_dequeue, QueueType
<1>6. t \in [1 .. n - 1 -> R \ {s[1]}]
  BY <1>2, SMTT(30) DEF Links
<1>7. \A i, j \in 1 .. n - 1 : t[i] = t[j] => i = j
  BY DEF Links
<1>8. /\ d.head = IF n - 1 = 0 THEN NIL ELSE t[1]
      /\ d.tail = IF n - 1 = 0 THEN NIL ELSE t[n - 1]
  <2>1. CASE n = 1
    BY <1>3, <1>4, <2>1
  <2>2. CASE n > 1
    <3>1. s[2] \in Pid /\ s[2] # NIL /\ q.tail = s[n] /\ t[n - 1] = s[n] /\ t[1] = s[2]
      BY <2>2, NilNotPid, SMTT(30) DEF Links
    <3> HIDE DEF d, t
    <3> QED
      BY <1>3, <1>4, <2>2, <3>1, SMTT(30)
  <2> QED
    BY <1>2, <2>1, <2>2
<1>9. ASSUME NEW i \in 1 .. n - 1
      PROVE  /\ d.next[t[i]] = IF i = n - 1 THEN NIL ELSE t[i + 1]
             /\ d.prev[t[i]] = IF i = 1 THEN NIL ELSE t[i - 1]
  <2>1. /\ t[i] = s[i + 1] /\ i + 1 \in 1 .. n /\ s[i + 1] \in Pid
        /\ s[i + 1] # s[1]
        /\ s[i + 1] = s[2] <=> i = 1
    BY <1>2, SMTT(30) DEF Links
  <2>2. /\ q.next[s[i + 1]] = IF i + 1 = n THEN NIL ELSE s[i + 2]
        /\ q.prev[s[i + 1]] = s[i]
    BY <2>1 DEF Links
  <2>3. d.next[t[i]] = q.next[s[i + 1]]
    BY <1>4, <2>1, Zenon DEF QueueType
  <2>4. d.prev[t[i]] = IF i = 1 THEN NIL ELSE q.prev[s[i + 1]]
    <3>1. q.next[s[1]] = s[2]
      BY <1>2, <1>3
    <3> HIDE DEF d
    <3> QED
      BY <1>4, <2>1, <3>1, ZenonT(30)
  <2>5. /\ i # n - 1 => t[i + 1] = s[i + 2]
        /\ i # 1 => t[i - 1] = s[i]
    OBVIOUS
  <2> HIDE DEF d, t
  <2> QED
    BY <2>2, <2>3, <2>4, <2>5, SMTT(30)
<1>10. ASSUME NEW p \in Pid, \A i \in 1 .. n - 1 : t[i] # p
       PROVE  d.next[p] = NIL /\ d.prev[p] = NIL
  <2>1. CASE p = s[1]
    <3> HIDE DEF d
    <3> QED
      BY <1>4, <2>1, Zenon DEF QueueType
  <2>2. CASE p # s[1]
    <3>1. ASSUME NEW i \in 1 .. n PROVE s[i] # p
      <4>1. CASE i = 1
        BY <2>2, <4>1, Zenon
      <4>2. CASE i # 1
        <5>1. i - 1 \in 1 .. n - 1 /\ t[i - 1] = s[i]
          BY <4>2
        <5> QED
          BY <5>1, <1>10, Zenon
      <4> QED
        BY <4>1, <4>2, Zenon
    <3>2. q.next[p] = NIL /\ q.prev[p] = NIL
      BY <3>1, Zenon DEF Links
    <3> HIDE DEF d
    <3> QED
      BY <1>4, <2>2, <3>2, Zenon DEF QueueType
  <2> QED
    BY <2>1, <2>2, Zenon
<1>11. Links(d, n - 1, t)
  BY <1>7, <1>8, <1>9, <1>10, ZenonT(60) DEF Links
<1>12. t = Tail(s)
  <2>1. n \in Nat
    OBVIOUS
  <2> HIDE DEF Rest
  <2> QED
    BY <2>1, TailIs, Zenon
<1> HIDE DEF d, t
<1> QED
  BY <1>2, <1>3, <1>5, <1>6, <1>11, <1>12, Zenon DEF d

\* It takes the first thread out of the queued ones.
LEMMA DequeueList ==
  ASSUME NEW q \in QueueType, NEW R \in SUBSET Pid, R # {}, ListOf(q, R)
  PROVE  /\ q.head \in R
         /\ tqueue_dequeue(q) \in QueueType
         /\ ListOf(tqueue_dequeue(q), R \ {q.head})
<1>0. PICK n \in 0 .. NUM_IDS : \E s \in [1 .. n -> R] :
        /\ Links(q, n, s)
        /\ \A p \in R : \E i \in 1 .. n : s[i] = p
  BY Zenon DEF ListOf
<1>1. PICK s \in [1 .. n -> R] :
        /\ Links(q, n, s)
        /\ \A p \in R : \E i \in 1 .. n : s[i] = p
  BY <1>0, Zenon
<1>2. n > 0
  BY <1>1
<1>3. /\ q.head = s[1] /\ s[1] \in R
      /\ tqueue_dequeue(q) \in QueueType
      /\ n - 1 \in 0 .. NUM_IDS
      /\ Tail(s) \in [1 .. n - 1 -> R \ {s[1]}]
      /\ Links(tqueue_dequeue(q), n - 1, Tail(s))
  BY <1>1, <1>2, DequeueLinks, Zenon
<1>4. ASSUME NEW p \in R \ {s[1]} PROVE \E i \in 1 .. n - 1 : Tail(s)[i] = p
  <2>1. PICK j \in 1 .. n : s[j] = p
    BY <1>1, Zenon
  <2>2. j - 1 \in 1 .. n - 1 /\ Tail(s)[j - 1] = p
    BY <2>1, <1>4
  <2> QED
    BY <2>2, Zenon
<1>5. ListOf(tqueue_dequeue(q), R \ {s[1]})
  BY <1>3, <1>4, ZenonT(60) DEF ListOf
<1> QED
  BY <1>3, <1>5, Zenon

\* tqueue_remove takes any queued thread out and keeps the order of the rest.
LEMMA RemoveLinks ==
  ASSUME NEW q \in QueueType, NEW R \in SUBSET Pid, NEW pid \in R,
         NEW n \in 0 .. NUM_IDS, NEW s \in [1 .. n -> R], Links(q, n, s),
         NEW k \in 1 .. n, s[k] = pid
  PROVE  /\ tqueue_remove(q, pid) \in QueueType
         /\ n - 1 \in 0 .. NUM_IDS
         /\ Without(s, n, k) \in [1 .. n - 1 -> R \ {pid}]
         /\ Links(tqueue_remove(q, pid), n - 1, Without(s, n, k))
<1> USE ConstAssumption DEF Without
<1> DEFINE r == tqueue_remove(q, pid)
<1> DEFINE b == IF k = 1 THEN NIL ELSE s[k - 1]
           a == IF k = n THEN NIL ELSE s[k + 1]
           t == Without(s, n, k)
<1>3. n - 1 \in 0 .. NUM_IDS
  OBVIOUS
<1>4. q.prev[pid] = b /\ q.next[pid] = a
  BY ZenonT(60) DEF Links
<1>5. \A i \in 1 .. n : s[i] \in Pid /\ s[i] # NIL
  BY NilNotPid, Zenon
<1>6. a # pid /\ b # pid /\ (a = b => a = NIL)
  BY <1>5, NilNotPid, SMTT(30) DEF Links
<1>7. /\ r.head = IF b = NIL THEN a ELSE q.head
      /\ r.tail = IF a = NIL THEN b ELSE q.tail
      /\ r.prev = [p \in Pid |-> IF p = pid THEN NIL ELSE IF p = a THEN b ELSE q.prev[p]]
      /\ r.next = [p \in Pid |-> IF p = pid THEN NIL ELSE IF p = b THEN a ELSE q.next[p]]
  <2> HIDE DEF a, b
  <2>1. b \in Pid => b # a
    BY <1>6, NilNotPid, Zenon
  <2> QED
    BY <1>4, <1>6, <2>1, Zenon DEF tqueue_remove
<1>8. a \in 0 .. NUM_IDS /\ b \in 0 .. NUM_IDS
  BY <1>5, NilNotPid
<1>9. r \in QueueType
  <2> HIDE DEF a, b
  <2> QED
    BY <1>4, <1>8, NilNotPid, Zenon DEF tqueue_remove, QueueType
<1>10. t \in [1 .. n - 1 -> R \ {pid}]
  BY SMTT(30) DEF Links
<1>11. ASSUME NEW i \in 1 .. n - 1, NEW j \in 1 .. n - 1, t[i] = t[j]
       PROVE  i = j
  <2> DEFINE at(x) == IF x < k THEN x ELSE x + 1
  <2>1. at(i) \in 1 .. n /\ at(j) \in 1 .. n /\ t[i] = s[at(i)] /\ t[j] = s[at(j)]
    OBVIOUS
  <2>2. at(i) = at(j)
    BY <1>11, <2>1, ZenonT(30) DEF Links
  <2> QED
    BY <2>2
<1>12. /\ r.head = IF n - 1 = 0 THEN NIL ELSE t[1]
       /\ r.tail = IF n - 1 = 0 THEN NIL ELSE t[n - 1]
  <2>1. q.head = s[1] /\ q.tail = s[n]
    BY DEF Links
  <2>2. /\ k = 1 => b = NIL
        /\ k # 1 => b # NIL /\ t[1] = s[1]
        /\ k = n => a = NIL
        /\ k # n => a # NIL /\ t[n - 1] = s[n]
        /\ k = 1 /\ k # n => a = t[1]
        /\ k # 1 /\ k = n => b = t[n - 1]
    BY <1>5
  <2> HIDE DEF r, a, b, t
  <2> QED
    BY <1>7, <2>1, <2>2
<1>13. ASSUME NEW i \in 1 .. n - 1
       PROVE  /\ r.next[t[i]] = IF i = n - 1 THEN NIL ELSE t[i + 1]
              /\ r.prev[t[i]] = IF i = 1 THEN NIL ELSE t[i - 1]
  <2> DEFINE m == IF i < k THEN i ELSE i + 1
  <2>1. m \in 1 .. n /\ m # k /\ t[i] = s[m]
    OBVIOUS
  <2>2. s[m] \in Pid /\ s[m] # pid
    BY <1>5, <2>1, ZenonT(30) DEF Links
  <2>3. /\ q.next[s[m]] = IF m = n THEN NIL ELSE s[m + 1]
        /\ q.prev[s[m]] = IF m = 1 THEN NIL ELSE s[m - 1]
    BY <2>1, ZenonT(60) DEF Links
  <2>4. /\ s[m] = b <=> m = k - 1
        /\ s[m] = a <=> m = k + 1
    <3>1. \A x \in 1 .. n : s[m] = s[x] => m = x
      BY <2>1, Zenon DEF Links
    <3>2. s[m] # NIL
      BY <1>5, <2>1, Zenon
    <3>3. (k = 1 => b = NIL) /\ (k # 1 => b = s[k - 1] /\ k - 1 \in 1 .. n)
      OBVIOUS
    <3>4. (k = n => a = NIL) /\ (k # n => a = s[k + 1] /\ k + 1 \in 1 .. n)
      OBVIOUS
    <3> HIDE DEF a, b, m
    <3> QED
      BY <2>1, <3>1, <3>2, <3>3, <3>4
  <2>5. /\ r.next[s[m]] = IF m = k - 1 THEN a ELSE q.next[s[m]]
        /\ r.prev[s[m]] = IF m = k + 1 THEN b ELSE q.prev[s[m]]
    <3> HIDE DEF r, a, b, m
    <3> QED
      BY <1>7, <2>2, <2>4, Zenon
  <2>6. (IF m = k - 1 THEN a ELSE IF m = n THEN NIL ELSE s[m + 1])
        = IF i = n - 1 THEN NIL ELSE t[i + 1]
    OBVIOUS
  <2>7. (IF m = k + 1 THEN b ELSE IF m = 1 THEN NIL ELSE s[m - 1])
        = IF i = 1 THEN NIL ELSE t[i - 1]
    OBVIOUS
  <2> HIDE DEF r, a, b, m, t
  <2> QED
    BY <2>1, <2>3, <2>5, <2>6, <2>7, Zenon
<1>14. ASSUME NEW p \in Pid, \A i \in 1 .. n - 1 : t[i] # p
       PROVE  r.next[p] = NIL /\ r.prev[p] = NIL
  <2>1. CASE p = pid
    <3> HIDE DEF r
    <3> QED
      BY <1>7, <2>1, Zenon
  <2>2. CASE p # pid
    <3>1. ASSUME NEW i \in 1 .. n PROVE s[i] # p
      <4>1. CASE i = k
        BY <2>2, <4>1, Zenon
      <4>2. CASE i < k
        <5>1. i \in 1 .. n - 1 /\ t[i] = s[i]
          BY <4>2
        <5> QED
          BY <5>1, <1>14, Zenon
      <4>3. CASE i > k
        <5>1. i - 1 \in 1 .. n - 1 /\ t[i - 1] = s[i]
          BY <4>3
        <5> QED
          BY <5>1, <1>14, ZenonT(60)
      <4> QED
        BY <4>1, <4>2, <4>3
    <3>2. q.next[p] = NIL /\ q.prev[p] = NIL
      BY <3>1, Zenon DEF Links
    <3>3. p # a /\ p # b
      BY <3>1, NilNotPid
    <3> HIDE DEF r, a, b
    <3> QED
      BY <1>7, <2>2, <3>2, <3>3, Zenon
  <2> QED
    BY <2>1, <2>2, Zenon
<1>15. Links(r, n - 1, t)
  BY <1>11, <1>12, <1>13, <1>14, ZenonT(60) DEF Links
<1> HIDE DEF r, t
<1> QED
  BY <1>3, <1>9, <1>10, <1>15, Zenon DEF r, t

\* It takes the thread out of the queued ones.
LEMMA RemoveList ==
  ASSUME NEW q \in QueueType, NEW R \in SUBSET Pid, NEW pid \in R, ListOf(q, R)
  PROVE  /\ tqueue_remove(q, pid) \in QueueType
         /\ ListOf(tqueue_remove(q, pid), R \ {pid})
<1>0. PICK n \in 0 .. NUM_IDS : \E s \in [1 .. n -> R] :
        /\ Links(q, n, s)
        /\ \A p \in R : \E i \in 1 .. n : s[i] = p
  BY Zenon DEF ListOf
<1>1. PICK s \in [1 .. n -> R] :
        /\ Links(q, n, s)
        /\ \A p \in R : \E i \in 1 .. n : s[i] = p
  BY <1>0, Zenon
<1>2. PICK k \in 1 .. n : s[k] = pid
  BY <1>1, Zenon
<1> DEFINE t == Without(s, n, k)
<1>3. /\ tqueue_remove(q, pid) \in QueueType
      /\ n - 1 \in 0 .. NUM_IDS
      /\ t \in [1 .. n - 1 -> R \ {pid}]
      /\ Links(tqueue_remove(q, pid), n - 1, t)
  BY <1>1, <1>2, RemoveLinks, Zenon
<1>4. ASSUME NEW p \in R \ {pid} PROVE \E i \in 1 .. n - 1 : t[i] = p
  <2>1. PICK j \in 1 .. n : s[j] = p
    BY <1>1, Zenon
  <2>2. j # k
    BY <1>2, <1>4, <2>1, Zenon
  <2>3. CASE j < k
    <3>1. j \in 1 .. n - 1 /\ t[j] = p
      BY <2>1, <2>3 DEF Without
    <3> QED
      BY <3>1, Zenon
  <2>4. CASE j > k
    <3>1. j - 1 \in 1 .. n - 1 /\ t[j - 1] = p
      BY <2>1, <2>4 DEF Without
    <3> QED
      BY <3>1, ZenonT(60)
  <2> QED
    BY <2>2, <2>3, <2>4
<1> HIDE DEF t
<1> QED
  BY <1>3, <1>4, ZenonT(60) DEF ListOf

----------------------------------------------------------------------------
(* The index of a new thread.                                              *)

\* Two children of one process, or children of two, have different indices:
\* a process has MAX_CHILDREN of them.
LEMMA ChildUnique ==
  ASSUME NEW a \in Nat, NEW b \in Nat,
         NEW j \in 0 .. MAX_CHILDREN - 1, NEW k \in 0 .. MAX_CHILDREN - 1,
         container_child(a, j) = container_child(b, k)
  PROVE  a = b /\ j = k
<1>1. MAX_CHILDREN \in Nat
  BY SpawnAssumption
<1>2. a * MAX_CHILDREN + j = b * MAX_CHILDREN + k
  BY <1>1 DEF container_child
<1>3. ASSUME NEW x \in Nat, NEW y \in Nat, x < y
      PROVE  x * MAX_CHILDREN + MAX_CHILDREN <= y * MAX_CHILDREN
  <2>1. PICK d \in Nat : y = x + 1 + d
    <3>1. y - x - 1 \in Nat /\ y = x + 1 + (y - x - 1)
      BY <1>3
    <3> QED
      BY <3>1
  <2>2. d * MAX_CHILDREN \in Nat
    BY <1>1
  <2>3. y * MAX_CHILDREN = x * MAX_CHILDREN + MAX_CHILDREN + d * MAX_CHILDREN
    BY <1>1, <2>1
  <2> QED
    BY <1>1, <2>2, <2>3
<1>4. a * MAX_CHILDREN \in Nat /\ b * MAX_CHILDREN \in Nat
  BY <1>1
<1>5. ~(a < b)
  BY <1>1, <1>2, <1>3, <1>4
<1>6. ~(b < a)
  BY <1>1, <1>2, <1>3, <1>4
<1>7. a = b
  BY <1>5, <1>6
<1> QED
  BY <1>2, <1>4, <1>7

\* The children of process 0 have the indices 1 and 2.
LEMMA BootChildren == container_child(0, 0) = Idle /\ container_child(0, 1) = Ding
BY SpawnAssumption DEF container_child, Idle, Ding

\* The thread that id spawns next does not exist.
LEMMA NextChildDead ==
  ASSUME ChildrenNew, nchildren \in [Pid -> Nat],
         NEW id \in Pid, nchildren[id] < MAX_CHILDREN,
         NEW pid \in Pid, pid = container_child(id, nchildren[id])
  PROVE  state[pid] = "DEAD" /\ nchildren[pid] = 0
<1>1. nchildren[id] \in nchildren[id] .. MAX_CHILDREN - 1
  BY SpawnAssumption
<1> QED
  BY <1>1, Zenon DEF ChildrenNew

\* A step that spawns nothing, and neither revives nor ends a thread.
LEMMA ChildrenKept ==
  ASSUME ChildrenNew, nchildren' = nchildren, boot' = boot \/ boot' = "done",
         \A p \in Pid : state'[p] = "DEAD" <=> state[p] = "DEAD"
  PROVE  ChildrenNew'
BY Zenon DEF ChildrenNew

----------------------------------------------------------------------------
(* The invariant.                                                          *)

\* The invariant holds when thread_init has returned.
LEMMA InitIInv == Init => IInv
<1> SUFFICES ASSUME Init PROVE IInv
  BY Zenon
<1> USE ConstAssumption DEF Init, thread_init
<1>1. TypeOK
  BY EmptyQueueList DEF TypeOK, Pid, TState, NotWaking, NIL
<1>2. Ready = {}
  BY Zenon DEF Ready
<1>3. ReadyQueueExact
  BY <1>2, EmptyQueueList, Zenon DEF ReadyQueueExact
<1>4. CuridValid /\ OneRunning /\ ChannelIffAsleep
  BY DEF CuridValid, OneRunning, ChannelIffAsleep, Pid
<1>5. BootStages /\ WakingProgress
  BY Zenon DEF BootStages, WakingProgress
<1>6. ChildrenNew
  <2>1. 0 \in Pid /\ \A p \in Pid : nchildren[p] = 0
    BY DEF Pid
  <2>2. ASSUME NEW id \in Pid, NEW k \in 0 .. MAX_CHILDREN - 1,
               container_child(id, k) \in Pid
        PROVE  state[container_child(id, k)] = "DEAD"
    <3>1. container_child(id, k) # 0
      <4>1. id * MAX_CHILDREN \in Nat
        BY SpawnAssumption DEF Pid
      <4> QED
        BY <4>1 DEF container_child
    <3> QED
      BY <2>2, <3>1, Zenon
  <2> QED
    BY <2>1, <2>2, Zenon DEF ChildrenNew
<1> QED
  BY <1>1, <1>3, <1>4, <1>5, <1>6, Zenon DEF IInv

\* After boot a thread that may sleep leaves a ready thread behind: a daemon.
LEMMA SomeDaemonReady ==
  ASSUME IInv, boot = "done", curid \notin Daemons
  PROVE  Idle \in Ready
<1>1. Idle \in Pid /\ Idle # 0 /\ Idle # curid
  BY ConstAssumption DEF Idle, Pid, Daemons
<1>2. state[Idle] # "RUN"
  BY <1>1, Zenon DEF IInv, OneRunning
<1>3. state[Idle] \in {"READY", "RUN"}
  BY Zenon DEF IInv, BootStages, Daemons
<1> QED
  BY <1>1, <1>2, <1>3, Zenon DEF Ready

\* thread_yield: the running thread joins the queue and its head runs.
LEMMA YieldIInv ==
  ASSUME IInv, Running, thread_yield, UNCHANGED <<waking, boot, nchildren>>,
         sched_ticks' \in 0 .. SCHED_SLICE
  PROVE  IInv'
<1> USE ConstAssumption
<1> DEFINE q == tqueue_enqueue(tq, curid)
           new == q.head
           R == Ready \cup {curid}
<1>1. curid \in Pid \ Ready /\ curid # 0 /\ state[curid] = "RUN" /\ state[0] = "RUN"
  BY DEF IInv, CuridValid, OneRunning, Ready, Running, BootStages, Pid
<1>2. q \in QueueType /\ ListOf(q, R)
  BY <1>1, EnqueueList, Zenon DEF IInv, TypeOK, ReadyQueueExact, Ready
<1>3. new \in R /\ tqueue_dequeue(q) \in QueueType /\ ListOf(tqueue_dequeue(q), R \ {new})
  <2> HIDE DEF q
  <2> QED
    BY <1>1, <1>2, DequeueList, ZenonT(60) DEF Ready
<1>4. new \in Pid /\ new # 0
  BY <1>1, <1>3, Zenon DEF Ready
<1> HIDE DEF q, new
<1>5. /\ tq' = tqueue_dequeue(q)
      /\ state' = [[state EXCEPT ![curid] = "READY"] EXCEPT ![new] = "RUN"]
      /\ curid' = new
      /\ insleep' = insleep \ {new}
      /\ channel' = IF new \in insleep THEN [channel EXCEPT ![new] = NoChan] ELSE channel
  BY Zenon DEF thread_yield, Switch, q, new
<1>6. state \in [Pid -> TState] /\ channel \in [Pid -> Chan \cup {NoChan}]
  BY Zenon DEF IInv, TypeOK
<1>7. \A p \in Pid : state'[p] = IF p = new THEN "RUN"
                                 ELSE IF p = curid THEN "READY" ELSE state[p]
  BY <1>1, <1>4, <1>5, <1>6, Zenon
<1>8. channel' = channel
  <2>1. channel[new] = NoChan
    BY <1>1, <1>3, <1>4, Zenon DEF IInv, ChannelIffAsleep, Ready
  <2> QED
    BY <1>4, <1>5, <1>6, <2>1, Zenon
<1>9. TypeOK'
  BY <1>3, <1>4, <1>5, <1>6, <1>8, NilNotPid, Zenon DEF IInv, TypeOK, TState
<1>10. Ready' = R \ {new}
  BY <1>1, <1>4, <1>7, Zenon DEF Ready
<1>11. ReadyQueueExact'
  BY <1>3, <1>5, <1>10, Zenon DEF ReadyQueueExact
<1>12. CuridValid' /\ OneRunning'
  <2>1. \A p \in Pid : state[p] = "RUN" <=> p \in {0, curid}
    BY Zenon DEF IInv, OneRunning
  <2>2. \A p \in Pid : state'[p] = "RUN" <=> p \in {0, new}
    BY <1>1, <1>4, <1>7, <2>1, Zenon
  <2> QED
    BY <1>4, <1>5, <2>2, ZenonT(60) DEF CuridValid, OneRunning
<1>13. ChannelIffAsleep'
  <2>1. curid \notin insleep
    BY <1>1, Zenon DEF IInv, ChannelIffAsleep
  <2>2. state[new] # "SLEEP"
    BY <1>1, <1>3, Zenon DEF Ready
  <2>3. ASSUME NEW p \in Pid
        PROVE  /\ state'[p] = "SLEEP" <=> state[p] = "SLEEP"
               /\ p \in insleep' => p \in insleep /\ p # new
               /\ p \in insleep /\ state[p] = "SLEEP" => p \in insleep'
    <3>1. state'[p] = "SLEEP" <=> state[p] = "SLEEP"
      BY <1>1, <1>7, <2>2, Zenon
    <3> QED
      BY <1>5, <2>2, <3>1, Zenon
  <2>4. ASSUME NEW p \in Pid, p \in insleep'
        PROVE  state'[p] = state[p]
    BY <1>7, <2>1, <2>3, <2>4, Zenon
  <2> QED
    BY <1>8, <2>3, <2>4, Zenon DEF IInv, ChannelIffAsleep
<1>14. BootStages'
  <2>1. Daemons \subseteq Pid
    BY DEF Daemons, Idle, Ding, Pid
  <2>2. boot = "done" /\ boot' = "done"
    BY Zenon DEF Running
  <2>3. \A d \in Daemons : state[d] \in {"READY", "RUN"}
    BY <2>2, Zenon DEF IInv, BootStages
  <2>4. \A d \in Daemons : state'[d] \in {"READY", "RUN"}
    BY <1>7, <2>1, <2>3, Zenon
  <2> QED
    BY <1>4, <1>5, <2>2, <2>4, ZenonT(60) DEF BootStages
<1>15. WakingProgress'
  BY Zenon DEF Running, WakingProgress
<1>16. ChildrenNew'
  <2>1. state[new] # "DEAD"
    BY <1>1, <1>3, Zenon DEF Ready
  <2>2. \A p \in Pid : state'[p] = "DEAD" <=> state[p] = "DEAD"
    BY <1>1, <1>7, <2>1, Zenon
  <2> QED
    BY <2>2, ChildrenKept, Zenon DEF IInv
<1> QED
  BY <1>9, <1>11, <1>12, <1>13, <1>14, <1>15, <1>16, Zenon DEF IInv

\* thread_sleep: the running thread leaves and the head of the queue runs.
LEMMA SleepIInv ==
  ASSUME IInv, NEW c \in Chan, thread_sleep(c)
  PROVE  IInv'
<1> USE ConstAssumption
<1> DEFINE new == tq.head
<1>0. boot = "done" /\ boot' = "done" /\ waking = NotWaking /\ waking' = NotWaking
      /\ curid \notin Daemons
  BY Zenon DEF thread_sleep, Running
<1>1. curid \in Pid \ Ready /\ curid # 0 /\ state[curid] = "RUN" /\ state[0] = "RUN"
  BY <1>0 DEF IInv, CuridValid, OneRunning, Ready, BootStages, Pid
<1>2. Ready # {} /\ Ready \in SUBSET Pid
  BY <1>0, SomeDaemonReady, Zenon DEF Ready
<1>3. new \in Ready /\ tqueue_dequeue(tq) \in QueueType
      /\ ListOf(tqueue_dequeue(tq), Ready \ {new})
  BY <1>2, DequeueList, Zenon DEF IInv, TypeOK, ReadyQueueExact
<1>4. new \in Pid /\ new # 0 /\ new # curid /\ state[new] = "READY"
  BY <1>1, <1>3, Zenon DEF Ready
<1> HIDE DEF new
<1>5. /\ tq' = tqueue_dequeue(tq)
      /\ state' = [[state EXCEPT ![curid] = "SLEEP"] EXCEPT ![new] = "RUN"]
      /\ curid' = new
      /\ insleep' = (insleep \cup {curid}) \ {new}
      /\ channel' = IF new \in insleep \cup {curid}
                    THEN [[channel EXCEPT ![curid] = c] EXCEPT ![new] = NoChan]
                    ELSE [channel EXCEPT ![curid] = c]
      /\ sched_ticks' = sched_ticks /\ nchildren' = nchildren
  BY Zenon DEF thread_sleep, Switch, new
<1>6. state \in [Pid -> TState] /\ channel \in [Pid -> Chan \cup {NoChan}]
  BY Zenon DEF IInv, TypeOK
<1>7. \A p \in Pid : state'[p] = IF p = new THEN "RUN"
                                 ELSE IF p = curid THEN "SLEEP" ELSE state[p]
  BY <1>1, <1>4, <1>5, <1>6, Zenon
<1>8. channel' = [channel EXCEPT ![curid] = c]
  <2>1. channel[new] = NoChan
    BY <1>4, Zenon DEF IInv, ChannelIffAsleep
  <2> QED
    BY <1>4, <1>5, <1>6, <2>1, ZenonT(60)
<1>9. TypeOK'
  <2>1. state' \in [Pid -> TState] /\ channel' \in [Pid -> Chan \cup {NoChan}]
    BY <1>5, <1>6, <1>8, ZenonT(60) DEF TState
  <2>2. insleep' \subseteq Pid /\ curid' \in 0 .. NUM_IDS /\ tq' \in QueueType
    BY <1>1, <1>3, <1>4, <1>5, NilNotPid, Zenon DEF IInv, TypeOK
  <2> QED
    BY <1>0, <1>5, <2>1, <2>2, Zenon DEF IInv, TypeOK
<1>10. Ready' = Ready \ {new}
  BY <1>1, <1>4, <1>7, Zenon DEF Ready
<1>11. ReadyQueueExact'
  BY <1>3, <1>5, <1>10, Zenon DEF ReadyQueueExact
<1>12. CuridValid' /\ OneRunning'
  <2>1. \A p \in Pid : state[p] = "RUN" <=> p \in {0, curid}
    BY Zenon DEF IInv, OneRunning
  <2>2. \A p \in Pid : state'[p] = "RUN" <=> p \in {0, new}
    BY <1>1, <1>4, <1>7, <2>1, Zenon
  <2> QED
    BY <1>4, <1>5, <2>2, ZenonT(60) DEF CuridValid, OneRunning
<1>13. ChannelIffAsleep'
  <2>1. ASSUME NEW p \in Pid
        PROVE  /\ channel'[p] # NoChan <=> state'[p] = "SLEEP"
               /\ state'[p] = "SLEEP" => p \in insleep'
               /\ p \in insleep' => state'[p] \in {"SLEEP", "READY"}
    <3>1. /\ channel[p] # NoChan <=> state[p] = "SLEEP"
          /\ state[p] = "SLEEP" => p \in insleep
          /\ p \in insleep => state[p] \in {"SLEEP", "READY"}
      BY Zenon DEF IInv, ChannelIffAsleep
    <3>2. CASE p = curid
      BY <1>1, <1>4, <1>5, <1>6, <1>7, <1>8, <3>2, Zenon
    <3>3. CASE p # curid
      <4>1. channel'[p] = channel[p]
        BY <1>6, <1>8, <3>3, Zenon
      <4>2. CASE p = new
        <5>1. state'[p] = "RUN" /\ p \notin insleep'
          BY <1>5, <1>7, <4>2, ZenonT(60)
        <5>2. state[p] = "READY"
          BY <1>4, <4>2, Zenon
        <5> QED
          BY <3>1, <4>1, <5>1, <5>2, Zenon
      <4>3. CASE p # new
        BY <1>5, <1>7, <3>1, <3>3, <4>1, <4>3, ZenonT(60)
      <4> QED
        BY <4>2, <4>3, Zenon
    <3> QED
      BY <3>2, <3>3, Zenon
  <2> QED
    BY <2>1, Zenon DEF ChannelIffAsleep
<1>14. BootStages'
  <2>1. Daemons \subseteq Pid
    BY DEF Daemons, Idle, Ding, Pid
  <2>2. \A d \in Daemons : state[d] \in {"READY", "RUN"}
    BY <1>0, Zenon DEF IInv, BootStages
  <2>3. \A d \in Daemons : state'[d] \in {"READY", "RUN"}
    BY <1>0, <1>7, <2>1, <2>2, Zenon
  <2> QED
    BY <1>0, <1>4, <1>5, <2>3, ZenonT(60) DEF BootStages
<1>15. WakingProgress'
  BY <1>0, Zenon DEF WakingProgress
<1>16. ChildrenNew'
  <2>1. \A p \in Pid : state'[p] = "DEAD" <=> state[p] = "DEAD"
    BY <1>1, <1>4, <1>7, Zenon
  <2> QED
    BY <1>0, <1>5, <2>1, ChildrenKept, Zenon DEF IInv
<1> QED
  BY <1>9, <1>11, <1>12, <1>13, <1>14, <1>15, <1>16, Zenon DEF IInv

\* Putting a thread on the queue and marking it READY keeps the queue exact.
LEMMA ReadyIInv ==
  ASSUME IInv, NEW pid \in Pid, pid \notin Ready,
         state' = [state EXCEPT ![pid] = "READY"], tq' = tqueue_enqueue(tq, pid)
  PROVE  /\ state' \in [Pid -> TState] /\ tq' \in QueueType
         /\ \A p \in Pid : state'[p] = IF p = pid THEN "READY" ELSE state[p]
         /\ ReadyQueueExact'
<1>1. state \in [Pid -> TState] /\ tq \in QueueType
  BY Zenon DEF IInv, TypeOK
<1>2. \A p \in Pid : state'[p] = IF p = pid THEN "READY" ELSE state[p]
  BY <1>1, Zenon
<1>3. Ready' = Ready \cup {pid}
  BY <1>2, Zenon DEF Ready
<1>4. tq' \in QueueType /\ ListOf(tq', Ready \cup {pid})
  BY <1>1, EnqueueList, Zenon DEF IInv, ReadyQueueExact, Ready
<1> QED
  BY <1>1, <1>2, <1>3, <1>4, Zenon DEF ReadyQueueExact, TState

\* One iteration of the loop in thread_wakeup.
LEMMA WakeupIInv ==
  ASSUME IInv, wakeup_iteration
  PROVE  /\ IInv'
         /\ \A p \in 1 .. waking.pid : ~(state'[p] = "SLEEP" /\ channel'[p] = waking.chan)
<1> USE ConstAssumption
<1> DEFINE pid == waking.pid
           hit == channel[pid] = waking.chan /\ state[pid] = "SLEEP"
<1>1. /\ waking \in [chan : Chan, pid : 1 .. NUM_IDS - 1]
      /\ pid \in Pid /\ pid \in 1 .. NUM_IDS - 1 /\ waking.chan \in Chan
      /\ boot = "done" /\ boot' = "done" /\ curid' = curid /\ insleep' = insleep
      /\ sched_ticks' = sched_ticks /\ nchildren' = nchildren
      /\ waking' = IF pid + 1 = NUM_IDS THEN NotWaking ELSE [waking EXCEPT !.pid = pid + 1]
  BY SMTT(30) DEF wakeup_iteration, IInv, TypeOK, WakingProgress, Pid
<1>2. state \in [Pid -> TState] /\ channel \in [Pid -> Chan \cup {NoChan}] /\ tq \in QueueType
  BY Zenon DEF IInv, TypeOK
<1>3. /\ \A p \in Pid : /\ state'[p] = IF hit /\ p = pid THEN "READY" ELSE state[p]
                        /\ channel'[p] = IF hit /\ p = pid THEN NoChan ELSE channel[p]
      /\ state' \in [Pid -> TState] /\ channel' \in [Pid -> Chan \cup {NoChan}]
      /\ tq' \in QueueType /\ ReadyQueueExact'
  <2>1. CASE hit
    <3>1. /\ state' = [state EXCEPT ![pid] = "READY"]
          /\ channel' = [channel EXCEPT ![pid] = NoChan]
          /\ tq' = tqueue_enqueue(tq, pid)
      BY <2>1, Zenon DEF wakeup_iteration
    <3>2. pid \notin Ready
      BY <2>1, Zenon DEF Ready
    <3>3. /\ state' \in [Pid -> TState] /\ tq' \in QueueType
          /\ \A p \in Pid : state'[p] = IF p = pid THEN "READY" ELSE state[p]
          /\ ReadyQueueExact'
      BY <1>1, <3>1, <3>2, ReadyIInv, ZenonT(60)
    <3>4. \A p \in Pid : channel'[p] = IF p = pid THEN NoChan ELSE channel[p]
      BY <1>1, <1>2, <3>1, Zenon
    <3>5. channel' \in [Pid -> Chan \cup {NoChan}]
      BY <1>2, <3>1, ZenonT(60)
    <3> HIDE DEF pid, hit
    <3> QED
      BY <2>1, <3>3, <3>4, <3>5, Zenon
  <2>2. CASE ~hit
    <3>1. state' = state /\ channel' = channel /\ tq' = tq
      BY <2>2, Zenon DEF wakeup_iteration
    <3>2. ReadyQueueExact'
      BY <3>1, Zenon DEF IInv, ReadyQueueExact, Ready
    <3> HIDE DEF hit
    <3> QED
      BY <1>2, <2>2, <3>1, <3>2, Zenon
  <2> QED
    BY <2>1, <2>2, Zenon
<1>4. TypeOK'
  <2>1. waking' \in [chan : Chan, pid : 1 .. NUM_IDS - 1] \cup {NotWaking}
    BY <1>1
  <2> QED
    BY <1>1, <1>3, <2>1, Zenon DEF IInv, TypeOK
<1>5. CuridValid' /\ OneRunning'
  <2>1. \A p \in Pid : state[p] = "RUN" <=> p \in {0, curid}
    BY Zenon DEF IInv, OneRunning
  <2>2. \A p \in Pid : state'[p] = "RUN" <=> state[p] = "RUN"
    BY <1>3, Zenon
  <2> QED
    BY <1>1, <2>1, <2>2, Zenon DEF IInv, CuridValid, OneRunning
<1>6. ChannelIffAsleep'
  <2>1. ASSUME NEW p \in Pid
        PROVE  /\ channel'[p] # NoChan <=> state'[p] = "SLEEP"
               /\ state'[p] = "SLEEP" => p \in insleep'
               /\ p \in insleep' => state'[p] \in {"SLEEP", "READY"}
    <3>1. /\ channel[p] # NoChan <=> state[p] = "SLEEP"
          /\ state[p] = "SLEEP" => p \in insleep
          /\ p \in insleep => state[p] \in {"SLEEP", "READY"}
      BY Zenon DEF IInv, ChannelIffAsleep
    <3> HIDE DEF hit, pid
    <3> QED
      BY <1>1, <1>3, <3>1, Zenon
  <2> QED
    BY <2>1, Zenon DEF ChannelIffAsleep
<1>7. BootStages'
  <2>1. Daemons \subseteq Pid
    BY DEF Daemons, Idle, Ding, Pid
  <2>2. curid # 0 /\ \A d \in Daemons : state[d] \in {"READY", "RUN"}
    BY <1>1, Zenon DEF IInv, BootStages
  <2>3. \A d \in Daemons : state'[d] \in {"READY", "RUN"}
    BY <1>3, <2>1, <2>2, Zenon
  <2> QED
    BY <1>1, <2>2, <2>3, Zenon DEF BootStages
<1>8. ASSUME NEW p \in 1 .. pid
      PROVE  ~(state'[p] = "SLEEP" /\ channel'[p] = waking.chan)
  <2>1. p \in Pid
    BY <1>1 DEF Pid
  <2>2. CASE p = pid
    BY <1>3, <2>1, <2>2, ZenonT(30)
  <2>3. CASE p # pid
    <3>1. p \in 1 .. pid - 1
      BY <1>1, <2>3
    <3>2. ~(state[p] = "SLEEP" /\ channel[p] = waking.chan)
      BY <3>1, Zenon DEF IInv, WakingProgress, wakeup_iteration
    <3> HIDE DEF hit
    <3> QED
      BY <1>3, <2>1, <2>3, <3>2, Zenon
  <2> QED
    BY <2>2, <2>3, Zenon
<1>9. WakingProgress'
  <2>1. CASE pid + 1 = NUM_IDS
    BY <1>1, <2>1, Zenon DEF WakingProgress
  <2>2. CASE pid + 1 # NUM_IDS
    <3>1. waking'.pid - 1 = pid /\ waking'.chan = waking.chan
      BY <1>1, <2>2
    <3> HIDE DEF pid
    <3> QED
      BY <1>1, <1>8, <3>1, Zenon DEF WakingProgress
  <2> QED
    BY <2>1, <2>2, Zenon
<1>10. ChildrenNew'
  <2>1. \A p \in Pid : state'[p] = "DEAD" <=> state[p] = "DEAD"
    BY <1>3, Zenon
  <2> QED
    BY <1>1, <2>1, ChildrenKept, Zenon DEF IInv
<1> QED
  BY <1>3, <1>4, <1>5, <1>6, <1>7, <1>8, <1>9, <1>10, ZenonT(30) DEF IInv

\* thread_spawn by id creates pid, an index of the pool.
Spawns(id, pid) ==
  /\ thread_spawn(id)
  /\ pid = container_child(id, nchildren[id])
  /\ state[id] # "DEAD" /\ nchildren[id] < MAX_CHILDREN

\* It leaves the number of its parent's children one larger, and the index
\* that any process will use next still is that of no thread.
LEMMA SpawnChildren ==
  ASSUME ChildrenNew, nchildren \in [Pid -> Nat], state \in [Pid -> TState],
         NEW id \in Pid, NEW pid \in Pid, Spawns(id, pid),
         \/ boot' = boot /\ boot = "done"
         \/ boot = "thread_init" /\ boot' = "idle" /\ id = 0
         \/ boot' = "ding"
  PROVE  nchildren' \in [Pid -> Nat] /\ ChildrenNew'
<1>1. /\ pid = container_child(id, nchildren[id]) /\ state[id] # "DEAD"
      /\ nchildren[id] < MAX_CHILDREN
      /\ nchildren' = [nchildren EXCEPT ![pid] = 0, ![id] = nchildren[id] + 1]
      /\ state' = [state EXCEPT ![pid] = "READY"]
  BY Zenon DEF Spawns, thread_spawn
<1>2. state[pid] = "DEAD" /\ nchildren[pid] = 0
  BY <1>1, NextChildDead, Zenon
<1>3. \A p \in Pid : state'[p] = IF p = pid THEN "READY" ELSE state[p]
  BY <1>1, Zenon
<1>4. /\ nchildren' \in [Pid -> Nat]
      /\ \A p \in Pid : nchildren'[p] = IF p = id THEN nchildren[id] + 1 ELSE nchildren[p]
  BY <1>1, <1>2
<1>5. /\ boot' = "thread_init" => nchildren'[0] = 0
      /\ boot' = "idle" => nchildren'[0] = 1
  <2>1. boot = "thread_init" => nchildren[0] = 0
    BY Zenon DEF ChildrenNew
  <2> QED
    BY <1>4, <2>1
<1>6. ASSUME NEW p \in Pid, state'[p] = "DEAD"
      PROVE  nchildren'[p] = 0
  <2>1. p # pid /\ state[p] = "DEAD" /\ p # id
    BY <1>1, <1>3, <1>6, Zenon
  <2> QED
    BY <1>4, <2>1, Zenon DEF ChildrenNew
<1>7. ASSUME NEW p \in Pid, NEW k \in nchildren'[p] .. MAX_CHILDREN - 1,
             container_child(p, k) \in Pid
      PROVE  state'[container_child(p, k)] = "DEAD"
  <2>1. /\ k \in nchildren[p] .. MAX_CHILDREN - 1 /\ k \in 0 .. MAX_CHILDREN - 1
        /\ p = id => k # nchildren[id]
    BY <1>4, SpawnAssumption
  <2>2. state[container_child(p, k)] = "DEAD"
    BY <1>7, <2>1, Zenon DEF ChildrenNew
  <2>3. p \in Nat /\ id \in Nat /\ nchildren[id] \in 0 .. MAX_CHILDREN - 1
    BY <1>1, SpawnAssumption DEF Pid
  <2>4. container_child(p, k) # pid
    BY <1>1, <2>1, <2>3, ChildUnique, Zenon
  <2> QED
    BY <1>3, <1>7, <2>2, <2>4, Zenon
<1> QED
  BY <1>4, <1>5, <1>6, <1>7, Zenon DEF ChildrenNew

\* thread_spawn: a thread that never ran joins the queue.
LEMMA SpawnIInv ==
  ASSUME IInv, NEW id \in Pid, NEW pid \in Pid, Spawns(id, pid),
         \/ boot = "done" /\ boot' = "done"
         \/ boot = "thread_init" /\ id = 0 /\ pid = Idle /\ boot' = "idle"
         \/ boot = "idle" /\ pid = Ding /\ boot' = "ding"
  PROVE  IInv'
<1> USE ConstAssumption
<1>0. ChildrenNew /\ nchildren \in [Pid -> Nat] /\ state \in [Pid -> TState]
  BY Zenon DEF IInv, TypeOK
<1>1. /\ state[pid] = "DEAD" /\ state' = [state EXCEPT ![pid] = "READY"]
      /\ tq' = tqueue_enqueue(tq, pid)
      /\ channel' = channel /\ curid' = curid /\ sched_ticks' = sched_ticks
      /\ insleep' = insleep /\ waking' = waking
  BY <1>0, NextChildDead, Zenon DEF Spawns, thread_spawn
<1>9. nchildren' \in [Pid -> Nat] /\ ChildrenNew'
  BY <1>0, SpawnChildren, Zenon
<1>2. pid \notin Ready
  BY <1>1, Zenon DEF Ready
<1>3. /\ state' \in [Pid -> TState] /\ tq' \in QueueType
      /\ \A p \in Pid : state'[p] = IF p = pid THEN "READY" ELSE state[p]
      /\ ReadyQueueExact'
  BY <1>1, <1>2, ReadyIInv, ZenonT(60)
<1>4. TypeOK'
  BY <1>1, <1>3, <1>9, Zenon DEF IInv, TypeOK
<1>5. CuridValid' /\ OneRunning'
  <2>1. \A p \in Pid : state[p] = "RUN" <=> p \in {0, curid}
    BY Zenon DEF IInv, OneRunning
  <2>2. \A p \in Pid : state'[p] = "RUN" <=> state[p] = "RUN"
    BY <1>1, <1>3, Zenon
  <2> QED
    BY <1>1, <2>1, <2>2, Zenon DEF IInv, CuridValid, OneRunning
<1>6. ChannelIffAsleep'
  <2>1. ASSUME NEW p \in Pid
        PROVE  /\ channel'[p] # NoChan <=> state'[p] = "SLEEP"
               /\ state'[p] = "SLEEP" => p \in insleep'
               /\ p \in insleep' => state'[p] \in {"SLEEP", "READY"}
    <3>1. /\ channel[p] # NoChan <=> state[p] = "SLEEP"
          /\ state[p] = "SLEEP" => p \in insleep
          /\ p \in insleep => state[p] \in {"SLEEP", "READY"}
      BY Zenon DEF IInv, ChannelIffAsleep
    <3> QED
      BY <1>1, <1>3, <3>1, Zenon
  <2> QED
    BY <2>1, Zenon DEF ChannelIffAsleep
<1>7. BootStages'
  <2>1. Daemons \subseteq Pid /\ Idle # Ding /\ Idle \in Pid /\ Ding \in Pid
    BY DEF Daemons, Idle, Ding, Pid
  <2>2. CASE boot = "done" /\ boot' = "done"
    <3>1. curid # 0 /\ \A d \in Daemons : state[d] \in {"READY", "RUN"}
      BY <2>2, Zenon DEF IInv, BootStages
    <3>2. \A d \in Daemons : state'[d] \in {"READY", "RUN"}
      BY <1>1, <1>3, <2>1, <3>1, Zenon
    <3> QED
      BY <1>1, <2>2, <3>1, <3>2, Zenon DEF BootStages
  <2>3. CASE boot = "thread_init" /\ pid = Idle /\ boot' = "idle"
    <3>1. \A p \in Pid \ {0} : state[p] = "DEAD"
      BY <2>3, Zenon DEF IInv, BootStages
    <3>2. state'[Idle] = "READY" /\ \A p \in Pid \ {0, Idle} : state'[p] = "DEAD"
      BY <1>3, <2>1, <2>3, <3>1, Zenon
    <3>3. curid' = 0 /\ waking' = NotWaking /\ insleep' = {}
      BY <1>1, <2>3, Zenon DEF IInv, BootStages
    <3> QED
      BY <2>3, <3>2, <3>3, Zenon DEF BootStages
  <2>4. CASE boot = "idle" /\ pid = Ding /\ boot' = "ding"
    <3>1. state[Idle] = "READY"
      BY <2>4, Zenon DEF IInv, BootStages
    <3>2. state'[Idle] = "READY" /\ state'[Ding] = "READY"
      BY <1>3, <2>1, <2>4, <3>1, Zenon
    <3>3. curid' = 0 /\ waking' = NotWaking /\ insleep' = {}
      BY <1>1, <2>4, Zenon DEF IInv, BootStages
    <3> QED
      BY <2>4, <3>2, <3>3, Zenon DEF BootStages
  <2> QED
    BY <2>2, <2>3, <2>4, Zenon
<1>8. WakingProgress'
  <2>1. CASE waking = NotWaking
    BY <1>1, <2>1, Zenon DEF WakingProgress
  <2>2. CASE waking # NotWaking
    <3>1. boot = "done" /\ boot' = "done"
      BY <2>2, Zenon DEF IInv, WakingProgress
    <3>2. \A p \in 1 .. waking.pid - 1 : p \in Pid
      BY <2>2 DEF IInv, TypeOK, Pid
    <3>3. \A p \in 1 .. waking.pid - 1 : ~(state[p] = "SLEEP" /\ channel[p] = waking.chan)
      BY <2>2, Zenon DEF IInv, WakingProgress
    <3>4. \A p \in 1 .. waking.pid - 1 : ~(state'[p] = "SLEEP" /\ channel'[p] = waking.chan)
      BY <1>1, <1>3, <3>2, <3>3, Zenon
    <3> QED
      BY <1>1, <3>1, <3>4, Zenon DEF WakingProgress
  <2> QED
    BY <2>1, <2>2, Zenon
<1> QED
  BY <1>3, <1>4, <1>5, <1>6, <1>7, <1>8, <1>9, Zenon DEF IInv

\* What the callers of thread_spawn know of the index they get.
LEMMA SpawnCallers ==
  ASSUME IInv
  PROVE  /\ sys_spawn => \E pid \in Pid : Spawns(curid, pid)
         /\ boot_create_idle => Spawns(0, Idle)
         /\ boot_create_ding => Spawns(0, Ding)
<1>0. 0 \in Pid /\ curid \in Pid /\ state[0] = "RUN" /\ state[curid] = "RUN"
  BY ConstAssumption DEF Pid, IInv, CuridValid, OneRunning
<1>1. ASSUME sys_spawn
      PROVE  \E pid \in Pid : Spawns(curid, pid)
  <2>1. /\ nchildren[curid] \in 0 .. MaxSpawn - 1 /\ nchildren[curid] < MAX_CHILDREN
        /\ MaySpawn(curid) /\ thread_spawn(curid)
    BY <1>0, <1>1, SpawnAssumption DEF sys_spawn, IInv, TypeOK
  <2>2. container_child(curid, nchildren[curid]) \in Pid
    BY <1>0, <2>1, SpawnAssumption, Zenon
  <2> QED
    BY <1>0, <2>1, <2>2, Zenon DEF Spawns
<1>2. ASSUME boot_create_idle
      PROVE  Spawns(0, Idle)
  <2>1. nchildren[0] = 0 /\ 0 < MAX_CHILDREN /\ thread_spawn(0)
    BY <1>2, SpawnAssumption DEF boot_create_idle, IInv, ChildrenNew
  <2> QED
    BY <1>0, <2>1, BootChildren, Zenon DEF Spawns
<1>3. ASSUME boot_create_ding
      PROVE  Spawns(0, Ding)
  <2>1. nchildren[0] = 1 /\ 1 < MAX_CHILDREN /\ thread_spawn(0)
    BY <1>3, SpawnAssumption DEF boot_create_ding, IInv, ChildrenNew
  <2> QED
    BY <1>0, <2>1, BootChildren, Zenon DEF Spawns
<1> QED
  BY <1>1, <1>2, <1>3, Zenon

\* kern_main hands the CPU to ding.
LEMMA BootRunIInv ==
  ASSUME IInv, boot_run_ding
  PROVE  IInv'
<1> USE ConstAssumption
<1>1. /\ boot = "ding" /\ boot' = "done" /\ curid = 0 /\ curid' = Ding
      /\ waking = NotWaking /\ insleep = {}
      /\ state[Idle] = "READY" /\ state[Ding] = "READY"
      /\ state' = [state EXCEPT ![Ding] = "RUN"]
      /\ tq' = tqueue_remove(tq, Ding)
      /\ channel' = channel /\ sched_ticks' = sched_ticks
      /\ insleep' = insleep /\ waking' = waking /\ nchildren' = nchildren
  BY Zenon DEF boot_run_ding, IInv, BootStages
<1>2. Ding \in Pid /\ Ding \in Ready /\ Idle \in Pid /\ Idle # Ding /\ Ding # 0
  BY <1>1 DEF Ding, Idle, Pid, Ready
<1>3. state \in [Pid -> TState] /\ tq \in QueueType
  BY Zenon DEF IInv, TypeOK
<1>4. \A p \in Pid : state'[p] = IF p = Ding THEN "RUN" ELSE state[p]
  BY <1>1, <1>3, Zenon
<1>5. Ready' = Ready \ {Ding}
  BY <1>2, <1>4, Zenon DEF Ready
<1>6. tq' \in QueueType /\ ListOf(tq', Ready \ {Ding})
  BY <1>1, <1>2, <1>3, RemoveList, Zenon DEF IInv, ReadyQueueExact, Ready
<1>7. ReadyQueueExact'
  BY <1>5, <1>6, Zenon DEF ReadyQueueExact
<1>8. TypeOK'
  BY <1>1, <1>2, <1>3, <1>6, NilNotPid, Zenon DEF IInv, TypeOK, TState
<1>9. CuridValid' /\ OneRunning'
  <2>1. \A p \in Pid : state[p] = "RUN" <=> p = 0
    BY <1>1, Zenon DEF IInv, OneRunning
  <2> QED
    BY <1>1, <1>2, <1>4, <2>1, Zenon DEF CuridValid, OneRunning
<1>10. ChannelIffAsleep'
  <2>1. \A p \in Pid : state[p] # "SLEEP" /\ channel[p] = NoChan
    BY <1>1, Zenon DEF IInv, ChannelIffAsleep
  <2> QED
    BY <1>1, <1>4, <2>1, SMTT(30) DEF ChannelIffAsleep
<1>11. BootStages'
  BY <1>1, <1>2, <1>4, Zenon DEF BootStages, Daemons
<1>12. WakingProgress'
  BY <1>1, Zenon DEF WakingProgress
<1>13. ChildrenNew'
  <2>0. state[Ding] = "READY"
    BY <1>1, Zenon
  <2>1. \A p \in Pid : state'[p] = "DEAD" <=> state[p] = "DEAD"
    BY <1>4, <2>0, Zenon
  <2> QED
    BY <1>1, <2>1, ChildrenKept, Zenon DEF IInv
<1> QED
  BY <1>7, <1>8, <1>9, <1>10, <1>11, <1>12, <1>13, Zenon DEF IInv

\* Every step preserves the invariant.
LEMMA NextIInv == IInv /\ [Next]_vars => IInv'
<1> SUFFICES ASSUME IInv, [Next]_vars PROVE IInv'
  BY Zenon
<1> USE ConstAssumption
<1>0. Idle \in Pid /\ Ding \in Pid /\ 0 \in Pid /\ curid \in Pid
  BY DEF Idle, Ding, Pid, IInv, CuridValid
<1>1. CASE boot_create_idle
  BY <1>0, <1>1, SpawnCallers, SpawnIInv, Zenon DEF boot_create_idle
<1>2. CASE boot_create_ding
  BY <1>0, <1>2, SpawnCallers, SpawnIInv, Zenon DEF boot_create_ding
<1>3. CASE boot_run_ding
  BY <1>3, BootRunIInv, Zenon
<1>4. CASE sys_yield
  BY <1>4, YieldIInv, Zenon DEF sys_yield, IInv, TypeOK
<1>5. CASE sched_update
  <2>1. CASE sched_ticks + 1 > SCHED_SLICE
    <3>1. sched_ticks' \in 0 .. SCHED_SLICE /\ thread_yield
      BY <1>5, <2>1, SMTT(30) DEF sched_update, IInv, TypeOK
    <3> QED
      BY <1>5, <3>1, YieldIInv, Zenon DEF sched_update
  <2>2. CASE ~(sched_ticks + 1 > SCHED_SLICE)
    <3>1. /\ sched_ticks' \in 0 .. SCHED_SLICE
          /\ UNCHANGED <<state, channel, tq, curid, insleep, waking, boot, nchildren>>
      BY <1>5, <2>2 DEF sched_update, IInv, TypeOK
    <3> QED
      BY <3>1, ZenonT(30) DEF IInv, TypeOK, ReadyQueueExact, Ready, CuridValid, OneRunning,
                  ChannelIffAsleep, BootStages, WakingProgress, ChildrenNew
  <2> QED
    BY <2>1, <2>2, Zenon
<1>6. ASSUME NEW c \in Chan, thread_sleep(c) PROVE IInv'
  BY <1>6, SleepIInv, Zenon
<1>7. ASSUME NEW c \in Chan, thread_wakeup(c) PROVE IInv'
  <2>1. /\ UNCHANGED <<state, channel, tq, curid, sched_ticks, insleep, boot, nchildren>>
        /\ boot = "done"
        /\ waking' = [chan |-> c, pid |-> 1]
    BY <1>7, Zenon DEF thread_wakeup, Running
  <2>2. waking' \in [chan : Chan, pid : 1 .. NUM_IDS - 1] /\ waking'.pid - 1 = 0
    BY <2>1, SMTT(30)
  <2>3. TypeOK' /\ ReadyQueueExact' /\ CuridValid' /\ OneRunning' /\ ChannelIffAsleep'
    BY <2>1, <2>2, Zenon DEF IInv, TypeOK, ReadyQueueExact, Ready, CuridValid, OneRunning,
                      ChannelIffAsleep
  <2>4. BootStages' /\ WakingProgress'
    BY <2>1, <2>2, SMTT(60) DEF IInv, BootStages, WakingProgress
  <2>5. ChildrenNew'
    BY <2>1, ChildrenKept, Zenon DEF IInv
  <2> QED
    BY <2>3, <2>4, <2>5, Zenon DEF IInv
<1>8. CASE wakeup_iteration
  BY <1>8, WakeupIInv, Zenon
<1>9. CASE sys_spawn
  BY <1>0, <1>9, SpawnCallers, SpawnIInv, Zenon DEF sys_spawn, Running
<1>10. CASE UNCHANGED vars
  BY <1>10, ZenonT(30) DEF vars, IInv, TypeOK, ReadyQueueExact, Ready, CuridValid, OneRunning,
               ChannelIffAsleep, BootStages, WakingProgress, ChildrenNew
<1> QED
  BY <1>1, <1>2, <1>3, <1>4, <1>5, <1>6, <1>7, <1>8, <1>9, <1>10, Zenon DEF Next

----------------------------------------------------------------------------
(* The theorems.                                                           *)

\* The inductive invariant holds in every reachable state.
THEOREM Invariance == Spec => []IInv
<1> QED
  BY InitIInv, NextIInv, PTL DEF Spec

\* The thread layer is type correct.
THEOREM TypeCorrect == Spec => []TypeOK
<1>1. IInv => TypeOK
  BY Zenon DEF IInv
<1> QED
  BY <1>1, Invariance, PTL

\* The ready queue is always a well-linked list of exactly the READY threads:
\* no interleaving of yield, sleep, wakeup and spawn loses a thread or queues
\* one twice.
THEOREM QueueExact == Spec => []ReadyQueueExact
<1>1. IInv => ReadyQueueExact
  BY Zenon DEF IInv
<1> QED
  BY <1>1, Invariance, PTL

\* thread_sleep never dequeues from an empty queue, and exactly one scheduled
\* thread runs.
THEOREM CurrentThread == Spec => [](CuridValid /\ OneRunning)
<1>1. IInv => CuridValid /\ OneRunning
  BY Zenon DEF IInv
<1> QED
  BY <1>1, Invariance, PTL

\* A thread has a channel exactly while it sleeps.
THEOREM ChannelDiscipline == Spec => []ChannelIffAsleep
<1>1. IInv => ChannelIffAsleep
  BY Zenon DEF IInv
<1> QED
  BY <1>1, Invariance, PTL

\* thread_wakeup leaves no thread asleep on its channel.
THEOREM WakeupComplete == Spec => WakeupWakesAll
<1> DEFINE A == waking # NotWaking /\ waking' = NotWaking =>
                  \A p \in Pid : ~(state'[p] = "SLEEP" /\ channel'[p] = waking.chan)
<1>1. IInv /\ IInv' /\ [Next]_vars => [A]_vars
  <2> SUFFICES ASSUME IInv, IInv', [Next]_vars, waking # NotWaking, waking' = NotWaking
               PROVE  \A p \in Pid : ~(state'[p] = "SLEEP" /\ channel'[p] = waking.chan)
    BY Zenon
  <2>1. wakeup_iteration
    BY ConstAssumption, ZenonT(60) DEF Next, vars, boot_create_idle, boot_create_ding, boot_run_ding,
       sys_yield, sched_update, thread_sleep, thread_wakeup, sys_spawn, thread_spawn,
       Running
  <2>2. waking.pid \in 1 .. NUM_IDS - 1 /\ waking.pid + 1 = NUM_IDS
    BY <2>1, ConstAssumption DEF wakeup_iteration, IInv, TypeOK, NotWaking
  <2>3. \A p \in Pid : p = 0 \/ p \in 1 .. waking.pid
    BY <2>2, ConstAssumption DEF Pid
  <2>4. state'[0] = "RUN"
    BY ConstAssumption DEF IInv, OneRunning, Pid
  <2> QED
    BY <2>1, <2>3, <2>4, WakeupIInv, Zenon
<1>2. Spec => [][A]_vars
  BY <1>1, Invariance, PTL DEF Spec
<1> QED
  BY <1>2, Zenon DEF WakeupWakesAll
----------------------------------------------------------------------------
(* The refinement of FifoScheduler.                                        *)

\* The least element of a set of numbers.
LEMMA LeastExists ==
  ASSUME NEW S, S \subseteq Nat, S # {}
  PROVE  \E x \in S : \A y \in S : x <= y
<1> DEFINE T == {0 .. x : x \in S}
<1>1. T \subseteq FiniteSubsetsOf(Nat) /\ T # {}
  <2>1. \A x \in S : IsFiniteSet(0 .. x) /\ 0 .. x \in SUBSET Nat
    BY FS_Interval
  <2> QED
    BY <2>1, ZenonT(30) DEF FiniteSubsetsOf
<1>2. PICK t \in T : \A u \in T : ~ (<<u, t>> \in StrictSubsetOrdering(Nat))
  BY <1>1, WFMin, FS_StrictSubsetOrderingWellFounded, ZenonT(30)
<1>3. PICK x \in S : t = 0 .. x
  BY ZenonT(30)
<1>4. ASSUME NEW y \in S, y < x
      PROVE  FALSE
  <2>1. 0 .. y \in T /\ <<0 .. y, t>> \in (SUBSET Nat) \X (SUBSET Nat)
    BY <1>3
  <2>2. (0 .. y) \subseteq t /\ 0 .. y # t
    BY <1>3, <1>4
  <2>3. <<0 .. y, t>> \in StrictSubsetOrdering(Nat)
    BY <2>1, <2>2, Zenon DEF StrictSubsetOrdering
  <2> QED
    BY <1>2, <2>1, <2>3, ZenonT(30)
<1> QED
  BY <1>4

\* Following the links of a well-linked queue gives its threads, in order.
LEMMA QueueOrder ==
  ASSUME NEW q \in QueueType, NEW n \in 0 .. NUM_IDS, NEW s \in [1 .. n -> Pid],
         Links(q, n, s)
  PROVE  QueueSeq(q) = s
<1> USE ConstAssumption
<1> DEFINE Walk(f) == [i \in 1 .. NUM_IDS |->
                         IF i = 1 THEN q.head
                         ELSE IF f[i - 1] = NIL THEN NIL ELSE q.next[f[i - 1]]]
           g == [i \in 1 .. NUM_IDS |-> IF i <= n THEN s[i] ELSE NIL]
           path == LinkPath(q)
<1>1. g = Walk(g)
  <2>1. ASSUME NEW i \in 1 .. NUM_IDS PROVE g[i] = Walk(g)[i]
    <3>1. CASE i = 1
      BY <3>1 DEF Links
    <3>2. CASE i # 1 /\ i - 1 <= n
      <4>1. i - 1 \in 1 .. n /\ g[i - 1] = s[i - 1] /\ s[i - 1] # NIL
        BY <3>2, NilNotPid
      <4>2. q.next[s[i - 1]] = IF i - 1 = n THEN NIL ELSE s[i]
        BY <4>1 DEF Links
      <4> QED
        BY <3>2, <4>1, <4>2
    <3>3. CASE i # 1 /\ i - 1 > n
      BY <3>3
    <3> QED
      BY <3>1, <3>2, <3>3
  <2> QED
    BY <2>1
<1>2. path = Walk(path)
  <2> HIDE DEF g
  <2> QED
    BY <1>1, Zenon DEF LinkPath
<1>3. ASSUME NEW i \in 1 .. NUM_IDS PROVE path[i] = g[i]
  <2> DEFINE bad == {j \in 1 .. NUM_IDS : path[j] # g[j]}
  <2> SUFFICES ASSUME bad # {} PROVE FALSE
    BY Zenon
  <2>1. bad \subseteq Nat
    <3> HIDE DEF path, g
    <3> QED
      OBVIOUS
  <2>2. PICK m \in bad : \A j \in bad : m <= j
    BY <2>1, LeastExists, Zenon
  <2>3. m \in 1 .. NUM_IDS /\ path[m] # g[m]
    BY Zenon
  <2>4. path[m] = Walk(path)[m] /\ g[m] = Walk(g)[m]
    BY <1>1, <1>2, Zenon
  <2> HIDE DEF path, g
  <2>5. m # 1
    BY <2>3, <2>4
  <2>6. m - 1 \in 1 .. NUM_IDS /\ m - 1 \notin bad
    <3> HIDE DEF bad
    <3> QED
      BY <2>2, <2>3, <2>5
  <2>7. path[m - 1] = g[m - 1]
    BY <2>6, Zenon
  <2> QED
    BY <2>3, <2>4, <2>7
<1>4. \A i \in 1 .. NUM_IDS : path[i] = NIL <=> i > n
  BY <1>3, NilNotPid
<1> DEFINE Is(m) == \A i \in 1 .. NUM_IDS : path[i] = NIL <=> i > m
           len == CHOOSE m \in 0 .. NUM_IDS : Is(m)
<1>5. len = n
  <2> HIDE DEF path
  <2>1. \A m \in 0 .. NUM_IDS : Is(m) => m = n
    BY <1>4
  <2>2. Is(n)
    BY <1>4, Zenon
  <2> HIDE DEF Is
  <2>3. len \in 0 .. NUM_IDS /\ Is(len)
    BY <2>2, Zenon
  <2> QED
    BY <2>1, <2>3, Zenon
<1>6. QueueSeq(q) = [i \in 1 .. len |-> path[i]]
  BY Zenon DEF QueueSeq
<1>7. \A i \in 1 .. n : path[i] = s[i]
  BY <1>3
<1> HIDE DEF path, len
<1> QED
  BY <1>5, <1>6, <1>7

\* tqueue_enqueue puts a thread last.
LEMMA EnqueueOrder ==
  ASSUME NEW q \in QueueType, NEW R \in SUBSET Pid, NEW pid \in Pid \ R,
         ListOf(q, R)
  PROVE  QueueSeq(tqueue_enqueue(q, pid)) = Append(QueueSeq(q), pid)
<1>1. PICK n \in 0 .. NUM_IDS : \E s \in [1 .. n -> R] : Links(q, n, s)
  BY Zenon DEF ListOf
<1>2. PICK s \in [1 .. n -> R] : Links(q, n, s)
  BY <1>1, Zenon
<1>3. /\ tqueue_enqueue(q, pid) \in QueueType
      /\ n + 1 \in 0 .. NUM_IDS
      /\ Append(s, pid) \in [1 .. n + 1 -> R \cup {pid}]
      /\ Links(tqueue_enqueue(q, pid), n + 1, Append(s, pid))
  BY <1>2, EnqueueLinks, Zenon
<1>4. s \in [1 .. n -> Pid] /\ Append(s, pid) \in [1 .. n + 1 -> Pid]
  BY <1>3, Zenon
<1> QED
  BY <1>2, <1>3, <1>4, QueueOrder, Zenon

\* tqueue_dequeue takes the first thread.
LEMMA DequeueOrder ==
  ASSUME NEW q \in QueueType, NEW R \in SUBSET Pid, R # {}, ListOf(q, R)
  PROVE  /\ QueueSeq(q) # <<>> /\ q.head = Head(QueueSeq(q))
         /\ QueueSeq(tqueue_dequeue(q)) = Tail(QueueSeq(q))
<1>1. PICK n \in 0 .. NUM_IDS : \E s \in [1 .. n -> R] :
        Links(q, n, s) /\ \A p \in R : \E i \in 1 .. n : s[i] = p
  BY Zenon DEF ListOf
<1>2. PICK s \in [1 .. n -> R] :
        Links(q, n, s) /\ \A p \in R : \E i \in 1 .. n : s[i] = p
  BY <1>1, Zenon
<1>3. n > 0
  BY <1>2
<1>4. /\ q.head = s[1] /\ s[1] \in R
      /\ tqueue_dequeue(q) \in QueueType
      /\ n - 1 \in 0 .. NUM_IDS
      /\ Tail(s) \in [1 .. n - 1 -> R \ {s[1]}]
      /\ Links(tqueue_dequeue(q), n - 1, Tail(s))
  BY <1>2, <1>3, DequeueLinks, Zenon
<1>5. s \in [1 .. n -> Pid] /\ Tail(s) \in [1 .. n - 1 -> Pid]
  BY <1>4, Zenon
<1>6. QueueSeq(q) = s /\ QueueSeq(tqueue_dequeue(q)) = Tail(s)
  BY <1>2, <1>4, <1>5, QueueOrder, Zenon
<1>7. s # <<>> /\ s[1] = Head(s)
  BY <1>3
<1> QED
  BY <1>4, <1>6, <1>7, Zenon

\* tqueue_remove closes the gap that the thread leaves.
LEMMA RemoveOrder ==
  ASSUME NEW q \in QueueType, NEW R \in SUBSET Pid, NEW pid \in R, ListOf(q, R)
  PROVE  LET s == QueueSeq(q)
         IN  \E i \in DOMAIN s :
               /\ s[i] = pid
               /\ QueueSeq(tqueue_remove(q, pid))
                    = SubSeq(s, 1, i - 1) \o SubSeq(s, i + 1, Len(s))
<1>1. PICK n \in 0 .. NUM_IDS : \E s \in [1 .. n -> R] :
        Links(q, n, s) /\ \A p \in R : \E i \in 1 .. n : s[i] = p
  BY Zenon DEF ListOf
<1>2. PICK s \in [1 .. n -> R] :
        Links(q, n, s) /\ \A p \in R : \E i \in 1 .. n : s[i] = p
  BY <1>1, Zenon
<1>3. PICK k \in 1 .. n : s[k] = pid
  BY <1>2, Zenon
<1> DEFINE t == Without(s, n, k)
<1>4. /\ tqueue_remove(q, pid) \in QueueType
      /\ n - 1 \in 0 .. NUM_IDS
      /\ t \in [1 .. n - 1 -> R \ {pid}]
      /\ Links(tqueue_remove(q, pid), n - 1, t)
  BY <1>2, <1>3, RemoveLinks, Zenon
<1>5. s \in [1 .. n -> Pid] /\ t \in [1 .. n - 1 -> Pid]
  BY <1>4, Zenon
<1> HIDE DEF t
<1>6. QueueSeq(q) = s /\ QueueSeq(tqueue_remove(q, pid)) = t
  BY <1>2, <1>4, <1>5, QueueOrder, Zenon
<1>7. Len(s) = n /\ k \in DOMAIN s
  OBVIOUS
<1>8. t = SubSeq(s, 1, k - 1) \o SubSeq(s, k + 1, n)
  BY DEF t, Without
<1> QED
  BY <1>3, <1>6, <1>7, <1>8, Zenon

\* In the beginning only the boot thread exists, and it runs.
LEMMA InitRefines == Init => Fifo!Init
<1> SUFFICES ASSUME Init PROVE Fifo!Init
  BY Zenon
<1>1. QueueSeq(tq) = <<>>
  <2>1. PICK n \in 0 .. NUM_IDS : \E s \in [1 .. n -> {}] : Links(tq, n, s)
    BY EmptyQueueList, Zenon DEF ListOf, Init, thread_init
  <2>2. PICK s \in [1 .. n -> {}] : Links(tq, n, s)
    BY <2>1, Zenon
  <2>3. s = <<>> /\ s \in [1 .. n -> Pid]
    OBVIOUS
  <2>4. tq \in QueueType
    BY EmptyQueueList, Zenon DEF Init, thread_init
  <2> QED
    BY <2>2, <2>3, <2>4, QueueOrder, Zenon
<1>2. {p \in Pid : state[p] = "DEAD"} = Pid \ {0}
  BY Zenon DEF Init, thread_init
<1> QED
  BY <1>1, <1>2, Zenon DEF Fifo!Init, Init, thread_init

\* The facts of the invariant that the refinement uses.
LEMMA QueueFacts ==
  ASSUME IInv
  PROVE  /\ tq \in QueueType /\ Ready \in SUBSET Pid /\ ListOf(tq, Ready)
         /\ state \in [Pid -> TState] /\ channel \in [Pid -> Chan \cup {NoChan}]
         /\ curid \in Pid \ Ready /\ state[curid] = "RUN"
BY Zenon DEF IInv, TypeOK, ReadyQueueExact, CuridValid, OneRunning, Ready

\* thread_spawn creates a thread.
LEMMA SpawnRefines ==
  ASSUME IInv, NEW id \in Pid, NEW pid \in Pid, Spawns(id, pid)
  PROVE  Fifo!Create(pid)
<1>1. /\ state[pid] = "DEAD" /\ state' = [state EXCEPT ![pid] = "READY"]
      /\ tq' = tqueue_enqueue(tq, pid) /\ channel' = channel /\ curid' = curid
  BY NextChildDead, Zenon DEF Spawns, thread_spawn, IInv, TypeOK
<1>2. {p \in Pid : state'[p] = "DEAD"} = {p \in Pid : state[p] = "DEAD"} \ {pid}
  BY <1>1, QueueFacts, Zenon
<1>3. QueueSeq(tq') = Append(QueueSeq(tq), pid)
  <2>1. pid \in Pid \ Ready
    BY <1>1, Zenon DEF Ready
  <2> QED
    BY <1>1, <2>1, QueueFacts, EnqueueOrder, Zenon
<1>4. pid \in {p \in Pid : state[p] = "DEAD"}
  BY <1>1, Zenon
<1> QED
  BY <1>1, <1>2, <1>3, <1>4, Zenon DEF Fifo!Create

\* thread_yield puts the running thread last and runs the first one.
LEMMA YieldRefines ==
  ASSUME IInv, Running, thread_yield
  PROVE  Fifo!Yield
<1> DEFINE q == tqueue_enqueue(tq, curid)
           new == q.head
           R == Ready \cup {curid}
<1>1. curid # 0
  BY Zenon DEF IInv, BootStages, Running
<1>2. q \in QueueType /\ ListOf(q, R) /\ QueueSeq(q) = Append(QueueSeq(tq), curid)
  BY QueueFacts, EnqueueList, EnqueueOrder, Zenon
<1>3. R \in SUBSET Pid /\ R # {}
  BY QueueFacts, Zenon
<1> HIDE DEF q
<1>4. /\ new = Head(QueueSeq(q)) /\ new \in R
      /\ QueueSeq(tqueue_dequeue(q)) = Tail(QueueSeq(q))
  <2> HIDE DEF R
  <2> QED
    BY <1>2, <1>3, DequeueOrder, DequeueList, Zenon
<1> HIDE DEF new
<1>5. /\ tq' = tqueue_dequeue(q)
      /\ state' = [[state EXCEPT ![curid] = "READY"] EXCEPT ![new] = "RUN"]
      /\ curid' = new
      /\ channel' = IF new \in insleep THEN [channel EXCEPT ![new] = NoChan] ELSE channel
  BY Zenon DEF thread_yield, Switch, q, new
<1>6. new \in Pid /\ state[new] \in {"READY", "RUN"}
  BY <1>4, QueueFacts, Zenon DEF Ready
<1>7. channel' = channel
  <2>1. channel[new] = NoChan
    BY <1>6, Zenon DEF IInv, ChannelIffAsleep
  <2> QED
    BY <1>5, <1>6, <2>1, QueueFacts, Zenon
<1>8. {p \in Pid : state'[p] = "DEAD"} = {p \in Pid : state[p] = "DEAD"}
  BY <1>5, <1>6, QueueFacts, Zenon
<1> QED
  BY <1>1, <1>2, <1>4, <1>5, <1>7, <1>8, Zenon DEF Fifo!Yield

\* thread_sleep blocks the running thread and runs the first one.
LEMMA SleepRefines ==
  ASSUME IInv, NEW c \in Chan, thread_sleep(c)
  PROVE  Fifo!Block(c)
<1> DEFINE new == tq.head
<1>1. curid # 0 /\ Ready # {}
  <2>1. boot = "done" /\ curid \notin Daemons
    BY Zenon DEF thread_sleep, Running
  <2> QED
    BY <2>1, SomeDaemonReady, Zenon DEF IInv, BootStages
<1>2. /\ QueueSeq(tq) # <<>> /\ new = Head(QueueSeq(tq)) /\ new \in Ready
      /\ QueueSeq(tqueue_dequeue(tq)) = Tail(QueueSeq(tq))
  BY <1>1, QueueFacts, DequeueOrder, DequeueList, Zenon
<1>3. new \in Pid /\ new # curid /\ state[new] = "READY"
  BY <1>2, QueueFacts, Zenon DEF Ready
<1> HIDE DEF new
<1>4. /\ tq' = tqueue_dequeue(tq)
      /\ state' = [[state EXCEPT ![curid] = "SLEEP"] EXCEPT ![new] = "RUN"]
      /\ curid' = new
      /\ channel' = IF new \in insleep \cup {curid}
                    THEN [[channel EXCEPT ![curid] = c] EXCEPT ![new] = NoChan]
                    ELSE [channel EXCEPT ![curid] = c]
  BY Zenon DEF thread_sleep, Switch, new
<1>5. channel' = [channel EXCEPT ![curid] = c]
  <2>1. channel[new] = NoChan
    BY <1>3, Zenon DEF IInv, ChannelIffAsleep
  <2> QED
    BY <1>3, <1>4, <2>1, QueueFacts, ZenonT(60)
<1>6. {p \in Pid : state'[p] = "DEAD"} = {p \in Pid : state[p] = "DEAD"}
  BY <1>3, <1>4, QueueFacts, Zenon
<1> QED
  BY <1>1, <1>2, <1>4, <1>5, <1>6, Zenon DEF Fifo!Block

\* An iteration of the loop in thread_wakeup unblocks one thread or none.
LEMMA WakeupRefines ==
  ASSUME IInv, wakeup_iteration
  PROVE  (\E t \in Pid : Fifo!Unblock(t)) \/ UNCHANGED <<state, tq, channel, curid>>
<1> USE ConstAssumption
<1> DEFINE pid == waking.pid
           hit == channel[pid] = waking.chan /\ state[pid] = "SLEEP"
<1>1. pid \in Pid /\ waking.chan \in Chan /\ curid' = curid
  BY SMTT(30) DEF wakeup_iteration, IInv, TypeOK, Pid
<1>2. CASE hit
  <2>1. /\ state' = [state EXCEPT ![pid] = "READY"]
        /\ channel' = [channel EXCEPT ![pid] = NoChan]
        /\ tq' = tqueue_enqueue(tq, pid)
    BY <1>2, Zenon DEF wakeup_iteration
  <2>2. channel[pid] # NoChan
    BY <1>1, <1>2, Zenon
  <2>3. QueueSeq(tq') = Append(QueueSeq(tq), pid)
    <3>1. pid \in Pid \ Ready
      BY <1>1, <1>2, Zenon DEF Ready
    <3> QED
      BY <2>1, <3>1, QueueFacts, EnqueueOrder, Zenon
  <2>4. {p \in Pid : state'[p] = "DEAD"} = {p \in Pid : state[p] = "DEAD"}
    BY <1>1, <1>2, <2>1, QueueFacts, Zenon
  <2> HIDE DEF pid
  <2>5. Fifo!Unblock(pid)
    BY <1>1, <2>1, <2>2, <2>3, <2>4, Zenon DEF Fifo!Unblock
  <2> QED
    BY <1>1, <2>5, Zenon
<1>3. CASE ~hit
  BY <1>1, <1>3, Zenon DEF wakeup_iteration
<1> QED
  BY <1>2, <1>3, Zenon

\* kern_main's switch to ding hands the CPU over.
LEMMA BootRunRefines ==
  ASSUME IInv, boot_run_ding
  PROVE  Fifo!HandOver(Ding)
<1>1. /\ curid = 0 /\ curid' = Ding /\ state[Ding] = "READY"
      /\ state' = [state EXCEPT ![Ding] = "RUN"]
      /\ tq' = tqueue_remove(tq, Ding) /\ channel' = channel
  BY Zenon DEF boot_run_ding, IInv, BootStages
<1>2. Ding \in Ready
  BY <1>1, ConstAssumption DEF Ding, Pid, Ready
<1>3. LET s == QueueSeq(tq)
      IN  \E i \in DOMAIN s :
            /\ s[i] = Ding
            /\ QueueSeq(tq') = SubSeq(s, 1, i - 1) \o SubSeq(s, i + 1, Len(s))
  <2>1. tq \in QueueType /\ Ready \in SUBSET Pid /\ ListOf(tq, Ready)
    BY QueueFacts, Zenon
  <2> QED
    BY <1>1, <1>2, <2>1, RemoveOrder, ZenonT(60)
<1>4. {p \in Pid : state'[p] = "DEAD"} = {p \in Pid : state[p] = "DEAD"}
  BY <1>1, <1>2, QueueFacts, Zenon DEF Ready
<1> QED
  BY <1>1, <1>3, <1>4, Zenon DEF Fifo!HandOver

\* Every step of the thread layer is a step of the FIFO scheduler, or one that
\* it does not see.
LEMMA StepRefines ==
  ASSUME IInv, [Next]_vars
  PROVE  [Fifo!Next]_Fifo!vars
<1>0. Idle \in Pid /\ Ding \in Pid /\ 0 \in Pid /\ curid \in Pid
  BY ConstAssumption DEF Idle, Ding, Pid, IInv, CuridValid
<1>1. UNCHANGED <<state, tq, channel, curid>> => UNCHANGED Fifo!vars
  BY Zenon DEF Fifo!vars
<1>2. CASE boot_create_idle \/ boot_create_ding
  <2>1. Fifo!Create(Idle) \/ Fifo!Create(Ding)
    BY <1>0, <1>2, SpawnCallers, SpawnRefines, Zenon
  <2> QED
    BY <1>0, <2>1, Zenon DEF Fifo!Next
<1>3. CASE boot_run_ding
  BY <1>0, <1>3, BootRunRefines, Zenon DEF Fifo!Next
<1>4. CASE sys_yield
  BY <1>4, YieldRefines, Zenon DEF Fifo!Next, sys_yield
<1>5. CASE sched_update
  <2>1. Running /\ (thread_yield \/ UNCHANGED <<state, tq, channel, curid>>)
    BY <1>5, Zenon DEF sched_update
  <2> QED
    BY <1>1, <2>1, YieldRefines, Zenon DEF Fifo!Next
<1>6. ASSUME NEW c \in Chan, thread_sleep(c) PROVE Fifo!Next
  BY <1>6, SleepRefines, Zenon DEF Fifo!Next
<1>7. ASSUME NEW c \in Chan, thread_wakeup(c) PROVE UNCHANGED Fifo!vars
  BY <1>1, <1>7, Zenon DEF thread_wakeup
<1>8. CASE wakeup_iteration
  BY <1>1, <1>8, WakeupRefines, Zenon DEF Fifo!Next
<1>9. CASE sys_spawn
  BY <1>0, <1>9, SpawnCallers, SpawnRefines, Zenon DEF Fifo!Next
<1>10. CASE UNCHANGED vars
  BY <1>1, <1>10, Zenon DEF vars
<1> QED
  BY <1>2, <1>3, <1>4, <1>5, <1>6, <1>7, <1>8, <1>9, <1>10, Zenon DEF Next

\* The scheduler implements FIFO scheduling: the linked queue, the switch code
\* of thread_yield and thread_sleep and the loop of thread_wakeup serve the
\* threads in the order in which they became ready.
THEOREM FifoImplemented == Spec => ImplementsFifo
<1>1. IInv /\ [Next]_vars => [Fifo!Next]_Fifo!vars
  BY StepRefines, Zenon
<1> QED
  BY <1>1, InitRefines, Invariance, PTL DEF Spec, ImplementsFifo, Fifo!Spec
============================================================================
