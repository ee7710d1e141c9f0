-------------------------- MODULE TaskQueueProofs --------------------------
(***************************************************************************)
(* Proofs about TaskQueue, for every set of producers and of items.        *)
(***************************************************************************)
EXTENDS TaskQueue, TLAPS

(* Type correctness, for any number of producers.                          *)
THEOREM TypeCorrect == Spec => []TypeOK
<1>1. Init => TypeOK
  BY DEF Init, TypeOK
<1>2. TypeOK /\ [Next]_vars => TypeOK'
  <2> SUFFICES ASSUME TypeOK, [Next]_vars PROVE TypeOK'
    OBVIOUS
  <2> USE DEF TypeOK, Callers, Goto, Return, WakeWorkerAnd
  <2>1. ASSUME NEW p \in Producers, NEW v \in Items, CallEnqueue(p, v)
        PROVE  TypeOK'
    BY <2>1 DEF CallEnqueue
  <2>2. ASSUME NEW t \in Callers, Lock(t) PROVE TypeOK'
    BY <2>2 DEF Lock
  <2>3. ASSUME NEW p \in Producers, EnqueueFails(p) PROVE TypeOK'
    BY <2>3 DEF EnqueueFails
  <2>4. ASSUME NEW p \in Producers, Enqueue(p) PROVE TypeOK'
    BY <2>4 DEF Enqueue
  <2>5. CASE CallDequeue
    BY <2>5 DEF CallDequeue
  <2>6. CASE Wait
    BY <2>6 DEF Wait
  <2>7. CASE DequeueShutdown
    BY <2>7 DEF DequeueShutdown
  <2>8. CASE Dequeue
    BY <2>8 DEF Dequeue
  <2>9. CASE SpuriousWakeup
    BY <2>9 DEF SpuriousWakeup
  <2>10. CASE CallShutdown
    BY <2>10 DEF CallShutdown
  <2>11. CASE Shutdown
    BY <2>11 DEF Shutdown
  <2>12. CASE UNCHANGED vars
    BY <2>12 DEF vars
  <2>. QED
    BY <2>1, <2>2, <2>3, <2>4, <2>5, <2>6, <2>7, <2>8, <2>9, <2>10, <2>11,
       <2>12
    DEF Next, WorkerStep, ProducerStep, CloserStep
<1>. QED BY <1>1, <1>2, PTL DEF Spec

-----------------------------------------------------------------------------
(***************************************************************************)
(* What the mutex protects.                                                *)
(***************************************************************************)
(* The owner of the mutex is the one thread inside the critical section.   *)
MutexHeld == \A t \in Callers : (pc[t] = "locked") <=> (owner = t)

(* The slot is full exactly when it has an item.                           *)
SlotFull == full <=> item # Empty

(* A producer on its way in has its item with it.                          *)
GivenHeld == \A p \in Producers : pc[p] # "idle" => given[p] \in Items

(* A worker that comes for more has nothing left of what it got.           *)
BufferTaken == pc[Worker] # "idle" => buffer = Empty

QueueInv == MutexHeld /\ SlotFull /\ GivenHeld /\ BufferTaken /\ NoLostWakeup

(* The inductive invariant of the queue: a step by any thread keeps it.    *)
LEMMA QueueStep ==
  ASSUME TypeOK, QueueInv, [Next]_vars
  PROVE  QueueInv'
<1> USE TaskQueueAssumption
    DEF TypeOK, Callers, Goto, Return, WakeWorkerAnd, QueueInv, MutexHeld,
        SlotFull, GivenHeld, BufferTaken, NoLostWakeup
<1>1. ASSUME NEW p \in Producers, NEW v \in Items, CallEnqueue(p, v)
      PROVE  QueueInv'
  BY <1>1 DEF CallEnqueue
<1>2. ASSUME NEW t \in Callers, Lock(t) PROVE QueueInv'
  BY <1>2 DEF Lock
<1>3. ASSUME NEW p \in Producers, EnqueueFails(p) PROVE QueueInv'
  BY <1>3 DEF EnqueueFails
<1>4. ASSUME NEW p \in Producers, Enqueue(p) PROVE QueueInv'
  BY <1>4 DEF Enqueue
<1>5. CASE CallDequeue
  BY <1>5 DEF CallDequeue
<1>6. CASE Wait
  BY <1>6 DEF Wait
<1>7. CASE DequeueShutdown
  BY <1>7 DEF DequeueShutdown
<1>8. CASE Dequeue
  BY <1>8 DEF Dequeue
<1>9. CASE SpuriousWakeup
  BY <1>9 DEF SpuriousWakeup
<1>10. CASE CallShutdown
  BY <1>10 DEF CallShutdown
<1>11. CASE Shutdown
  BY <1>11 DEF Shutdown
<1>12. CASE UNCHANGED vars
  BY <1>12 DEF vars
<1>. QED
  BY <1>1, <1>2, <1>3, <1>4, <1>5, <1>6, <1>7, <1>8, <1>9, <1>10, <1>11,
     <1>12
  DEF Next, WorkerStep, ProducerStep, CloserStep

LEMMA QueueInvariant == Spec => []QueueInv
<1>1. Init => QueueInv
  BY TaskQueueAssumption
  DEF Init, QueueInv, MutexHeld, SlotFull, GivenHeld, BufferTaken,
      NoLostWakeup, Callers
<1>. QED BY <1>1, QueueStep, TypeCorrect, PTL DEF Spec

(* A worker asleep in pthread_cond_wait has nothing to take and no         *)
(* shutdown to learn of, however many threads enqueue.                     *)
THEOREM NobodyOversleeps == Spec => []NoLostWakeup
BY QueueInvariant, PTL DEF QueueInv

-----------------------------------------------------------------------------
(***************************************************************************)
(* The queue implements the mailbox: a lock, a wait, a failed enqueue and  *)
(* a wake-up change nothing that its users can see, and every other step   *)
(* is a step of the mailbox.                                               *)
(***************************************************************************)
LEMMA MailboxStep ==
  ASSUME TypeOK, QueueInv, [Next]_vars
  PROVE  [Abstract!Next]_(Abstract!mailboxVars)
<1> USE TaskQueueAssumption
    DEF TypeOK, QueueInv, MutexHeld, SlotFull, GivenHeld, BufferTaken,
        Callers, Goto, Return, WakeWorkerAnd, Abstract!mailboxVars
<1>1. ASSUME NEW p \in Producers, NEW v \in Items, CallEnqueue(p, v)
      PROVE  UNCHANGED Abstract!mailboxVars
  BY <1>1 DEF CallEnqueue
<1>2. ASSUME NEW t \in Callers, Lock(t) PROVE UNCHANGED Abstract!mailboxVars
  BY <1>2 DEF Lock
<1>3. ASSUME NEW p \in Producers, EnqueueFails(p)
      PROVE  UNCHANGED Abstract!mailboxVars
  BY <1>3 DEF EnqueueFails
<1>4. ASSUME NEW p \in Producers, Enqueue(p) PROVE Abstract!Next
  <2>1. given[p] \in Items /\ Abstract!Put(given[p])
    BY <1>4 DEF Enqueue, Abstract!Put
  <2>. QED BY <2>1 DEF Abstract!Next
<1>5. CASE CallDequeue
  <2>1. CASE buffer = Empty
    BY <1>5, <2>1 DEF CallDequeue
  <2>2. CASE buffer # Empty
    <3>1. Abstract!Finish
      BY <1>5, <2>2 DEF CallDequeue, Abstract!Finish
    <3>. QED BY <3>1 DEF Abstract!Next
  <2>. QED BY <2>1, <2>2
<1>6. CASE Wait
  BY <1>6 DEF Wait
<1>7. DequeueShutdown => Abstract!Leave
  BY DEF DequeueShutdown, Abstract!Leave
<1>8. Dequeue => Abstract!Take
  BY DEF Dequeue, Abstract!Take
<1>9. CASE SpuriousWakeup
  BY <1>9 DEF SpuriousWakeup
<1>10. CASE CallShutdown
  BY <1>10 DEF CallShutdown
<1>11. CASE Shutdown
  <2>1. CASE shutdown
    BY <1>11, <2>1 DEF Shutdown
  <2>2. CASE ~shutdown
    <3>1. Abstract!Close
      BY <1>11, <2>2 DEF Shutdown, Abstract!Close
    <3>. QED BY <3>1 DEF Abstract!Next
  <2>. QED BY <2>1, <2>2
<1>12. CASE UNCHANGED vars
  BY <1>12 DEF vars
<1>. QED
  BY <1>1, <1>2, <1>3, <1>4, <1>5, <1>6, <1>7, <1>8, <1>9, <1>10, <1>11,
     <1>12
  DEF Next, WorkerStep, ProducerStep, CloserStep, Abstract!Next

(* task_queue.c implements the mailbox: for any number of producers,       *)
(* nothing that was put is lost, changed or taken twice, and a shutdown is *)
(* learnt of only after it was made.                                       *)
THEOREM MailboxImplemented == Spec => Abstract!Safety
<1>1. Init => Abstract!Init
  BY DEF Init, Abstract!Init
<1>2. TypeOK /\ QueueInv /\ [Next]_vars
        => [Abstract!Next]_(Abstract!mailboxVars)
  BY MailboxStep
<1>. QED
  BY <1>1, <1>2, TypeCorrect, QueueInvariant, PTL DEF Spec, Abstract!Safety
=============================================================================
