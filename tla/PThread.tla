------------------------------ MODULE PThread ------------------------------
(***************************************************************************)
(* The thread layer: the TCB pool (PTCBIntro), the index-based doubly      *)
(* linked thread queue (PTQueueIntro, PTQueueInit), the current id         *)
(* (PCurID) and the scheduler (PThread), with the boot sequence of         *)
(* kern_main.                                                              *)
(*                                                                         *)
(* kern_main boots no other CPU and system calls run with interrupts off,  *)
(* so one CPU executes kernel code and nothing interleaves with a          *)
(* scheduler routine: each routine is one action.  The exception is the    *)
(* loop of thread_wakeup, one step per iteration; `waking' keeps every     *)
(* other action out until the loop ends.                                   *)
(*                                                                         *)
(* A new thread gets the index that container_split computes from the      *)
(* number of its parent's children.  Nothing checks that this index is     *)
(* free: sys_spawn's tests allow more children than container_split leaves *)
(* room for, and the fourth child of a process would get the index of      *)
(* another's first.  MaxSpawn bounds the children of a process; everything *)
(* here is said of programs that keep to it (the only program that spawns, *)
(* user/idle, does so once).                                               *)
(*                                                                         *)
(* An operator whose name ends in _bug is a faulty variant of the one      *)
(* after it.  The specification does not use it; put in its place it must  *)
(* break the property its comment names.                                   *)
(***************************************************************************)
EXTENDS Integers, Sequences

CONSTANTS
  NUM_IDS,      \* size of the TCB pool; also the null index of the queues
  Chan,         \* addresses threads sleep on
  NoChan,       \* the null channel
  SCHED_SLICE,  \* timer ticks of a time slice
  MAX_CHILDREN, \* room for the children of a process (lib/x86.h)
  SYS_NUM_IDS,       \* NUM_IDS and MAX_CHILDREN in the tests of sys_spawn:
  SYS_MAX_CHILDREN,  \* TSyscall.c defines both anew
  MaxSpawn           \* bound: children that a process spawns

Pid == 0 .. NUM_IDS - 1
NIL == NUM_IDS

\* The first two processes kern_main creates: user/idle and user/pingpong/ding.
\* Their programs call neither the file system nor IPC, so they never sleep.
Idle == 1
Ding == 2
Daemons == {Idle, Ding}

\* The index of a process's child that has k elder brothers.
container_child(id, k) == id * MAX_CHILDREN + 1 + k

\* What sys_spawn tests.  Its other tests read the container of a curid that
\* has no value yet, and may refuse any call.
MaySpawn(id) == ~(SYS_NUM_IDS < id * SYS_MAX_CHILDREN + 1 + SYS_MAX_CHILDREN)

ASSUME ConstAssumption ==
  /\ NUM_IDS \in Nat /\ NUM_IDS > 2
  /\ NoChan \notin Chan
  /\ SCHED_SLICE \in Nat

\* kern_main creates two children.  No program spawns more children than
\* container_split has room for, and the index of a child that sys_spawn
\* admits is one of the pool: in the code MAX_CHILDREN is 3 and NUM_IDS 64,
\* sys_spawn's own values are 16 and 256.
ASSUME SpawnAssumption ==
  /\ MAX_CHILDREN \in Nat /\ MAX_CHILDREN >= 2
  /\ SYS_NUM_IDS \in Nat /\ SYS_MAX_CHILDREN \in Nat
  /\ MaxSpawn \in 0 .. MAX_CHILDREN
  /\ \A id \in Pid : MaySpawn(id) =>
       \A k \in 0 .. MaxSpawn - 1 : container_child(id, k) \in Pid

VARIABLES
  state,        \* TCBPool[pid].state
  channel,      \* TCBPool[pid].channel
  tq,           \* TQueuePool[NUM_IDS] and the links: [head, tail, prev, next]
  curid,        \* CURID
  sched_ticks,  \* sched_ticks[0]
  insleep,      \* threads whose saved kernel context is inside thread_sleep
  waking,       \* progress of the loop in thread_wakeup
  boot,         \* progress of kern_main
  nchildren     \* CONTAINER[id].nchildren

vars == <<state, channel, tq, curid, sched_ticks, insleep, waking, boot, nchildren>>

TState == {"READY", "RUN", "SLEEP", "DEAD"}
NotWaking == [chan |-> NoChan, pid |-> NUM_IDS]

----------------------------------------------------------------------------
(* PTQueueInit: the queue operations on a queue value q.                   *)

\* ImplementsFifo: the thread is put first.
tqueue_enqueue_bug(q, pid) ==
  IF q.tail = NIL
  THEN [q EXCEPT !.head = pid, !.tail = pid]
  ELSE [q EXCEPT !.head = pid, !.prev[q.head] = pid, !.next[pid] = q.head]

tqueue_enqueue(q, pid) ==
  IF q.tail = NIL
  THEN [head |-> pid, tail |-> pid,
        prev |-> [q.prev EXCEPT ![pid] = NIL],
        next |-> [q.next EXCEPT ![pid] = NIL]]
  ELSE [head |-> q.head, tail |-> pid,
        prev |-> [q.prev EXCEPT ![pid] = q.tail],
        next |-> [q.next EXCEPT ![q.tail] = pid, ![pid] = NIL]]

\* ReadyQueueExact: the new head keeps its link to the old one.
tqueue_dequeue_bug(q) ==
  LET pid == q.head
  IN  IF pid = NIL THEN q
      ELSE [q EXCEPT !.head = q.next[pid], !.tail = IF @ = pid THEN NIL ELSE @,
                     !.prev[pid] = NIL, !.next[pid] = NIL]

\* The queue that tqueue_dequeue leaves; the thread it returns is q.head.
tqueue_dequeue(q) ==
  LET pid == q.head
      nxt == q.next[pid]
  IN  IF pid = NIL THEN q
      ELSE [head |-> nxt,
            tail |-> IF nxt = NIL THEN NIL ELSE q.tail,
            prev |-> [p \in Pid |-> IF p \in {pid, nxt} THEN NIL ELSE q.prev[p]],
            next |-> [q.next EXCEPT ![pid] = NIL]]

tqueue_remove(q, pid) ==
  LET before == q.prev[pid]
      after  == q.next[pid]
  IN  [head |-> IF before = NIL THEN after ELSE q.head,
       tail |-> IF after = NIL THEN before ELSE q.tail,
       prev |-> [p \in Pid |-> CASE p = pid -> NIL
                                [] p = after /\ p # pid -> before
                                [] OTHER -> q.prev[p]],
       next |-> [p \in Pid |-> CASE p = pid -> NIL
                                [] p = before /\ p # pid /\ before # after -> after
                                [] OTHER -> q.next[p]]]

EmptyQueue ==
  [head |-> NIL, tail |-> NIL,
   prev |-> [p \in Pid |-> NIL], next |-> [p \in Pid |-> NIL]]

----------------------------------------------------------------------------
(* The end of thread_yield and thread_sleep: dequeue the next thread from  *)
(* q, mark it running in st and switch to its kernel context.  A thread    *)
(* that resumes inside thread_sleep clears its channel there.              *)
Switch(q, st, sleepers, ch) ==
  LET new == q.head
  IN  /\ tq' = tqueue_dequeue(q)
      /\ state' = [st EXCEPT ![new] = "RUN"]
      /\ curid' = new
      /\ insleep' = sleepers \ {new}
      /\ channel' = IF new \in sleepers THEN [ch EXCEPT ![new] = NoChan] ELSE ch

Running == boot = "done" /\ waking = NotWaking

\* The running thread gives up the CPU: sys_yield, or a used-up slice.
thread_yield ==
  Switch(tqueue_enqueue(tq, curid), [state EXCEPT ![curid] = "READY"],
         insleep, channel)

sys_yield ==
  /\ Running
  /\ thread_yield
  /\ UNCHANGED <<sched_ticks, waking, boot, nchildren>>

\* ReadyEventuallyRuns: a used-up slice is only renewed.
sched_update_bug2 ==
  /\ Running
  /\ sched_ticks' = (sched_ticks + 1) % (SCHED_SLICE + 1)
  /\ UNCHANGED <<state, channel, tq, curid, insleep, waking, boot, nchildren>>

\* The timer interrupt: 1000 / LAPIC_TIMER_INTR_FREQ is one tick.
sched_update ==
  /\ Running
  /\ \/ /\ sched_ticks + 1 > SCHED_SLICE
        /\ sched_ticks' = 0
        /\ thread_yield
     \/ /\ sched_ticks + 1 <= SCHED_SLICE
        /\ sched_ticks' = sched_ticks + 1
        /\ UNCHANGED <<state, channel, tq, curid, insleep>>
  /\ UNCHANGED <<waking, boot, nchildren>>

\* CuridValid: the daemons sleep too.
thread_sleep_bug1(chan) ==
  /\ Running
  /\ Switch(tq, [state EXCEPT ![curid] = "SLEEP"], insleep \cup {curid},
            [channel EXCEPT ![curid] = chan])
  /\ UNCHANGED <<sched_ticks, waking, boot, nchildren>>

\* Any thread but the two daemons may sleep.  If the queue is empty the code
\* goes on with the index NUM_IDS, and so does this action.
thread_sleep(chan) ==
  /\ Running
  /\ curid \notin Daemons
  /\ Switch(tq, [state EXCEPT ![curid] = "SLEEP"], insleep \cup {curid},
            [channel EXCEPT ![curid] = chan])
  /\ UNCHANGED <<sched_ticks, waking, boot, nchildren>>

\* thread_wakeup, called by the running thread or by an interrupt handler.
thread_wakeup(chan) ==
  /\ Running
  /\ waking' = [chan |-> chan, pid |-> 1]
  /\ UNCHANGED <<state, channel, tq, curid, sched_ticks, insleep, boot, nchildren>>

\* WakeupWakesAll: the loop ends one thread early.
wakeup_iteration_bug1 ==
  LET pid == waking.pid
      hit == channel[pid] = waking.chan /\ state[pid] = "SLEEP"
  IN  /\ waking # NotWaking
      /\ waking' = IF pid + 2 = NUM_IDS THEN NotWaking
                   ELSE [waking EXCEPT !.pid = pid + 1]
      /\ state' = IF hit THEN [state EXCEPT ![pid] = "READY"] ELSE state
      /\ channel' = IF hit THEN [channel EXCEPT ![pid] = NoChan] ELSE channel
      /\ tq' = IF hit THEN tqueue_enqueue(tq, pid) ELSE tq
      /\ UNCHANGED <<curid, sched_ticks, insleep, boot, nchildren>>

wakeup_iteration ==
  LET pid == waking.pid
  IN  /\ waking # NotWaking
      /\ waking' = IF pid + 1 = NUM_IDS THEN NotWaking
                   ELSE [waking EXCEPT !.pid = pid + 1]
      /\ \/ /\ channel[pid] = waking.chan /\ state[pid] = "SLEEP"
            /\ state' = [state EXCEPT ![pid] = "READY"]
            /\ channel' = [channel EXCEPT ![pid] = NoChan]
            /\ tq' = tqueue_enqueue(tq, pid)
         \/ /\ ~(channel[pid] = waking.chan /\ state[pid] = "SLEEP")
            /\ UNCHANGED <<state, channel, tq>>
      /\ UNCHANGED <<curid, sched_ticks, insleep, boot, nchildren>>

\* kctx_new gives the child of id the index that container_split returns.
thread_spawn(id) ==
  LET pid == container_child(id, nchildren[id])
  IN  /\ nchildren' = [nchildren EXCEPT ![pid] = 0, ![id] = nchildren[id] + 1]
      /\ state' = [state EXCEPT ![pid] = "READY"]
      /\ tq' = tqueue_enqueue(tq, pid)
      /\ UNCHANGED <<channel, curid, sched_ticks, insleep, waking>>

\* The running process spawns.
sys_spawn ==
  /\ Running
  /\ MaySpawn(curid)
  /\ nchildren[curid] < MaxSpawn
  /\ thread_spawn(curid)
  /\ UNCHANGED boot

----------------------------------------------------------------------------
(* kern_main: create idle, create ding, take ding off the queue, run it.   *)
(* Thread 0 is never switched to again; it keeps the state RUN.            *)
boot_create_idle ==
  /\ boot = "thread_init"
  /\ thread_spawn(0)
  /\ boot' = "idle"

boot_create_ding ==
  /\ boot = "idle"
  /\ thread_spawn(0)
  /\ boot' = "ding"

boot_run_ding ==
  /\ boot = "ding"
  /\ tq' = tqueue_remove(tq, Ding)
  /\ state' = [state EXCEPT ![Ding] = "RUN"]
  /\ curid' = Ding
  /\ boot' = "done"
  /\ UNCHANGED <<channel, sched_ticks, insleep, waking, nchildren>>

\* thread_init: every TCB dead and unlinked, thread 0 running.
thread_init ==
  /\ state = [p \in Pid |-> IF p = 0 THEN "RUN" ELSE "DEAD"]
  /\ channel = [p \in Pid |-> NoChan]
  /\ tq = EmptyQueue
  /\ curid = 0
  /\ sched_ticks = 0
  /\ insleep = {}
  /\ waking = NotWaking
  /\ boot = "thread_init"
  /\ nchildren = [p \in Pid |-> 0]

Init == thread_init

Next ==
  \/ boot_create_idle \/ boot_create_ding \/ boot_run_ding
  \/ sys_yield \/ sched_update
  \/ \E c \in Chan : thread_sleep(c) \/ thread_wakeup(c)
  \/ wakeup_iteration
  \/ sys_spawn

Spec == Init /\ [][Next]_vars

\* The boot code and the loop of thread_wakeup run to their end.  The timer
\* interrupt stays pending in the local APIC while interrupts are off, so it
\* is taken if it can be taken again and again.
Fairness ==
  /\ WF_vars(boot_create_idle \/ boot_create_ding \/ boot_run_ding)
  /\ WF_vars(wakeup_iteration)
  /\ SF_vars(sched_update)

FairSpec == Spec /\ Fairness

----------------------------------------------------------------------------
(* Properties.                                                             *)

QueueType ==
  [head : 0 .. NUM_IDS, tail : 0 .. NUM_IDS,
   prev : [Pid -> 0 .. NUM_IDS], next : [Pid -> 0 .. NUM_IDS]]

\* Every variable has the type of the C object it models.  NUM_IDS is a legal
\* index of a queue link and of CURID's type, never of a thread.
TypeOK ==
  /\ state \in [Pid -> TState]
  /\ channel \in [Pid -> Chan \cup {NoChan}]
  /\ tq \in QueueType
  /\ curid \in 0 .. NUM_IDS
  /\ sched_ticks \in 0 .. SCHED_SLICE
  /\ insleep \subseteq Pid
  /\ waking \in [chan : Chan, pid : 1 .. NUM_IDS - 1] \cup {NotWaking}
  /\ boot \in {"thread_init", "idle", "ding", "done"}
  /\ nchildren \in [Pid -> Nat]

\* q links exactly the threads s[1], ..., s[n], in this order.
Links(q, n, s) ==
  /\ \A i, j \in 1 .. n : s[i] = s[j] => i = j
  /\ q.head = IF n = 0 THEN NIL ELSE s[1]
  /\ q.tail = IF n = 0 THEN NIL ELSE s[n]
  /\ \A i \in 1 .. n : /\ q.next[s[i]] = IF i = n THEN NIL ELSE s[i + 1]
                       /\ q.prev[s[i]] = IF i = 1 THEN NIL ELSE s[i - 1]
  /\ \A p \in Pid : (\A i \in 1 .. n : s[i] # p) =>
                      q.next[p] = NIL /\ q.prev[p] = NIL

\* q is a well-linked list of the threads in R, each once.
ListOf(q, R) ==
  \E n \in 0 .. NUM_IDS : \E s \in [1 .. n -> R] :
    /\ Links(q, n, s)
    /\ \A p \in R : \E i \in 1 .. n : s[i] = p

Ready == {p \in Pid : state[p] = "READY"}

\* The ready queue is one well-linked list that holds every READY thread once
\* and no other thread, between any two operations and inside the loop of
\* thread_wakeup: no thread is lost by the scheduler and none is queued twice
\* (PTQueueIntro.c: "a thread is in at most one thread queue").
ReadyQueueExact == ListOf(tq, Ready)

\* thread_sleep's "here we assume a new ready process always exists": the
\* thread that is switched to is a thread, not the empty queue's NUM_IDS.
CuridValid == curid \in Pid

\* After boot the running thread is the only one in state RUN besides thread 0,
\* which is never scheduled again.
OneRunning ==
  \A p \in Pid : state[p] = "RUN" <=> p \in {0, curid}

\* A thread has a channel exactly while it sleeps; when its saved context is
\* inside thread_sleep it is asleep or queued, so the channel thread_sleep
\* clears on resumption is already clear and no other sleep is disturbed.
ChannelIffAsleep ==
  \A p \in Pid : /\ channel[p] # NoChan <=> state[p] = "SLEEP"
                 /\ state[p] = "SLEEP" => p \in insleep
                 /\ p \in insleep => state[p] \in {"SLEEP", "READY"}

\* What is true at each stage of kern_main.
BootStages ==
  /\ boot # "done" => curid = 0 /\ waking = NotWaking /\ insleep = {}
  /\ boot = "thread_init" => \A p \in Pid \ {0} : state[p] = "DEAD"
  /\ boot = "idle" => /\ state[Idle] = "READY"
                      /\ \A p \in Pid \ {0, Idle} : state[p] = "DEAD"
  /\ boot = "ding" => state[Idle] = "READY" /\ state[Ding] = "READY"
  /\ boot = "done" => curid # 0 /\ \A d \in Daemons : state[d] \in {"READY", "RUN"}

\* What the loop of thread_wakeup has established so far.
WakingProgress ==
  waking # NotWaking =>
    /\ boot = "done"
    /\ \A p \in 1 .. waking.pid - 1 : ~(state[p] = "SLEEP" /\ channel[p] = waking.chan)

\* The index that the next child of a process will get is that of a thread
\* that does not exist, until the process has used up its MAX_CHILDREN.
ChildrenNew ==
  /\ boot = "thread_init" => nchildren[0] = 0
  /\ boot = "idle" => nchildren[0] = 1
  /\ \A id \in Pid : state[id] = "DEAD" => nchildren[id] = 0
  /\ \A id \in Pid : \A k \in nchildren[id] .. MAX_CHILDREN - 1 :
       container_child(id, k) \in Pid => state[container_child(id, k)] = "DEAD"

\* The inductive invariant.
IInv ==
  /\ TypeOK
  /\ ReadyQueueExact
  /\ CuridValid
  /\ OneRunning
  /\ ChannelIffAsleep
  /\ BootStages
  /\ WakingProgress
  /\ ChildrenNew

\* "Wake up all processes sleeping on chan": when the loop of thread_wakeup
\* ends no thread, thread 0 included, sleeps on its channel.
WakeupWakesAll ==
  [][waking # NotWaking /\ waking' = NotWaking =>
       \A p \in Pid : ~(state'[p] = "SLEEP" /\ channel'[p] = waking.chan)]_vars

\* A ready thread eventually runs, whatever the others do: the queue is FIFO
\* and the timer ends every slice.
ReadyEventuallyRuns ==
  \A p \in Pid : state[p] = "READY" ~> state[p] = "RUN"
----------------------------------------------------------------------------
(* The refinement mapping to FifoScheduler.                                *)

\* The indices met when the links of q are followed from its head.
LinkPath(q) ==
  LET path[i \in 1 .. NUM_IDS] ==
        IF i = 1 THEN q.head
        ELSE IF path[i - 1] = NIL THEN NIL ELSE q.next[path[i - 1]]
  IN  path

\* The threads among them: the path up to the first null index.
QueueSeq(q) ==
  LET len == CHOOSE n \in 0 .. NUM_IDS :
               \A i \in 1 .. NUM_IDS : LinkPath(q)[i] = NIL <=> i > n
  IN  [i \in 1 .. len |-> LinkPath(q)[i]]

Fifo == INSTANCE FifoScheduler WITH
          Thread <- Pid, Boot <- 0, Cause <- Chan, NoCause <- NoChan,
          fresh <- {p \in Pid : state[p] = "DEAD"},
          ready <- QueueSeq(tq), blocked <- channel, current <- curid

\* The linked queue, the switch code and the wakeup loop implement FIFO
\* scheduling: following the links always gives the threads in the order in
\* which they became ready.
ImplementsFifo == Fifo!Spec
============================================================================
