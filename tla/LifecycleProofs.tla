-------------------------- MODULE LifecycleProofs --------------------------
(***************************************************************************)
(* Proofs about SendQueue, for every capacity, every set of messages and   *)
(* every set of at most Capacity producers, and then about Lifecycle, for  *)
(* any function threads: the invariants of the queue hold under the        *)
(* daemon's threads, main takes the queue away only when nobody is left to *)
(* use it, and until then the queue is the FIFO of BoundedFifo.            *)
(***************************************************************************)
EXTENDS Lifecycle, FiniteSetTheorems, SequenceTheorems, TLAPS

(* The next place of the ring, without the modulus.                        *)
LEMMA AfterPlace ==
  ASSUME NEW i \in Places
  PROVE  After(i) = IF i = Capacity - 1 THEN 0 ELSE i + 1
<1>1. Capacity \in Nat \ {0} /\ i \in Nat /\ i < Capacity
  BY SendQueueAssumption DEF Places
<1>2. CASE i = Capacity - 1
  <2>1. i + 1 = Capacity
    BY <1>1, <1>2
  <2>2. Capacity % Capacity = 0
    BY <1>1
  <2>. QED BY <1>2, <2>1, <2>2 DEF After
<1>3. CASE i # Capacity - 1
  <2>1. i + 1 \in 0 .. Capacity - 1
    BY <1>1, <1>3
  <2>2. (i + 1) % Capacity = i + 1
    BY <1>1, <2>1
  <2>. QED BY <1>3, <2>2 DEF After
<1>. QED BY <1>2, <1>3

(* The operators of the ring are closed over its places.                   *)
LEMMA AfterType == \A i \in Places : After(i) \in Places
BY AfterPlace, SendQueueAssumption DEF Places

-----------------------------------------------------------------------------
(* Every step of the queue keeps the types.                                *)
LEMMA TypeStep ==
  ASSUME TypeOK, [Next]_vars
  PROVE  TypeOK'
<1> USE SendQueueAssumption DEF TypeOK
<1>1. ASSUME NEW p \in Producers, NEW m \in Messages, Publish(p, m)
     PROVE  TypeOK'
  BY <1>1 DEF Publish, queueVars
<1>2. ASSUME NEW p \in Producers, EnqueueWait(p) PROVE TypeOK'
  BY <1>2 DEF EnqueueWait, queueVars
<1>3. ASSUME NEW p \in Producers, EnqueueFails(p) PROVE TypeOK'
  BY <1>3 DEF EnqueueFails, Return, queueVars
<1>4. ASSUME NEW p \in Producers, Enqueue(p) PROVE TypeOK'
  BY <1>4, AfterType DEF Enqueue, Return
<1>5. CASE DequeueWait
  BY <1>5 DEF DequeueWait, queueVars
<1>6. CASE Dequeue
  <2>1. count - 1 \in 0 .. Capacity
    BY <1>6 DEF Dequeue
  <2>2. pc' \in [Producers -> {"idle", "enter", "waiting"}]
    BY <1>6 DEF Dequeue, SignalNonfull, Waiting
  <2>3. items[head] \in Messages \cup {Null} /\ After(head) \in Places
    BY AfterType
  <2>. QED BY <1>6, <2>1, <2>2, <2>3 DEF Dequeue
<1>7. CASE DequeueShutdown
  BY <1>7 DEF DequeueShutdown, queueVars
<1>8. CASE Published
  BY <1>8 DEF Published, queueVars
<1>9. CASE Shutdown
  BY <1>9 DEF Shutdown, queueVars
<1>10. CASE SpuriousWakeup
  BY <1>10 DEF SpuriousWakeup, Waiting, queueVars
<1>11. CASE UNCHANGED vars
  BY <1>11 DEF vars, queueVars, Waiting
<1>. QED
  BY <1>1, <1>2, <1>3, <1>4, <1>5, <1>6, <1>7, <1>8, <1>9,
     <1>10, <1>11
  DEF Next, ProducerStep, PublisherStep

(* Type correctness: in particular head and tail stay inside the buffer    *)
(* and count never leaves 0 .. Capacity.                                   *)
THEOREM TypeCorrect == Spec => []TypeOK
<1>1. Init => TypeOK
  <2>1. 0 \in Places /\ 0 \in 0 .. Capacity
    BY SendQueueAssumption DEF Places
  <2>2. Init => items \in [Places -> Messages \cup {Null}]
    BY DEF Init
  <2>. QED BY <2>1, <2>2 DEF Init, TypeOK
<1>. QED BY <1>1, TypeStep, PTL DEF Spec

-----------------------------------------------------------------------------
(***************************************************************************)
(* The ring.  RingOK needs one more fact: a producer on its way into the   *)
(* queue has a message, so the place it fills is no longer empty.          *)
(***************************************************************************)
ArgsHeld == \A p \in Producers : pc[p] # "idle" => args[p] # Null

RingInv == ArgsHeld /\ RingOK

(* The empty ring is sound.                                                *)
LEMMA RingInit == Init => RingInv
BY SendQueueAssumption DEF Init, RingInv, ArgsHeld, RingOK, Place, Places

(* A producer at the queue's door has its message with it.                 *)
LEMMA ArgsStep ==
  ASSUME TypeOK, ArgsHeld, [Next]_vars
  PROVE  ArgsHeld'
<1> USE SendQueueAssumption DEF TypeOK, ArgsHeld
<1>1. ArgsHeld'
  <2>1. ASSUME NEW p \in Producers, NEW m \in Messages, Publish(p, m)
       PROVE  ArgsHeld'
    BY <2>1 DEF Publish, queueVars
  <2>2. ASSUME NEW p \in Producers, EnqueueWait(p) PROVE ArgsHeld'
    BY <2>2 DEF EnqueueWait, queueVars
  <2>3. ASSUME NEW p \in Producers, EnqueueFails(p) PROVE ArgsHeld'
    BY <2>3 DEF EnqueueFails, Return, queueVars
  <2>4. ASSUME NEW p \in Producers, Enqueue(p) PROVE ArgsHeld'
    BY <2>4 DEF Enqueue, Return, queueVars
  <2>5. CASE DequeueWait
    BY <2>5 DEF DequeueWait, queueVars
  <2>6. CASE Dequeue
    BY <2>6 DEF Dequeue, SignalNonfull, Waiting, queueVars
  <2>7. CASE DequeueShutdown
    BY <2>7 DEF DequeueShutdown, queueVars
  <2>8. CASE Published
    BY <2>8 DEF Published, queueVars
  <2>9. CASE Shutdown
    BY <2>9 DEF Shutdown, queueVars
  <2>10. CASE SpuriousWakeup
    BY <2>10 DEF SpuriousWakeup, Waiting, queueVars
  <2>11. CASE UNCHANGED vars
    BY <2>11 DEF vars, queueVars, Waiting
  <2>. QED
    BY <2>1, <2>2, <2>3, <2>4, <2>5, <2>6, <2>7, <2>8, <2>9,
       <2>10, <2>11
    DEF Next, ProducerStep, PublisherStep
<1>. QED BY <1>1

(* The places of a ring are counted once round from its head.              *)
LEMMA PlaceOneToOne ==
  ASSUME head \in Places
  PROVE  /\ \A i \in Places : Place(i) \in Places
         /\ \A i, j \in Places : Place(i) = Place(j) => i = j
BY SendQueueAssumption DEF Place, Places

(* The ring is sound as long as nobody touches it.                         *)
LEMMA RingFrame ==
  ASSUME RingOK, UNCHANGED <<items, head, tail, count>>
  PROVE  RingOK'
BY DEF RingOK, Place

(* Enqueue fills the place after the last.                                 *)
LEMMA RingEnqueue ==
  ASSUME TypeOK, RingInv, NEW p \in Producers, Enqueue(p)
  PROVE  RingOK'
<1> USE SendQueueAssumption
<1>1. /\ head \in Places /\ tail \in Places /\ count \in Nat
      /\ count < Capacity /\ items \in [Places -> Messages \cup {Null}]
      /\ args[p] # Null /\ tail = Place(count)
  BY DEF TypeOK, RingInv, ArgsHeld, RingOK, Enqueue
<1>2. /\ head' = head /\ count' = count + 1 /\ tail' = After(tail)
      /\ items' = [items EXCEPT ![tail] = args[p]]
  BY DEF Enqueue
<1>3. \A i \in Places : Place(i)' = Place(i)
  BY <1>2 DEF Place
<1>4. \A i \in Places : (items'[Place(i)] # Null) <=> (i < count + 1)
  <2> SUFFICES ASSUME NEW i \in Places
               PROVE  (items'[Place(i)] # Null) <=> (i < count + 1)
    OBVIOUS
  <2>1. count \in Places /\ i \in Nat
    BY <1>1 DEF Places
  <2>2. Place(i) \in Places /\ (Place(i) = Place(count) => i = count)
    BY <1>1, <2>1, PlaceOneToOne
  <2>3. (items[Place(i)] # Null) <=> (i < count)
    BY DEF RingInv, RingOK
  <2>4. CASE i = count
    BY <1>1, <1>2, <2>1, <2>4
  <2>5. CASE i # count
    <3>1. items'[Place(i)] = items[Place(i)]
      BY <1>1, <1>2, <2>2, <2>5
    <3>. QED BY <1>1, <2>1, <2>3, <2>5, <3>1
  <2>. QED BY <2>4, <2>5
<1>5. After(tail) = IF tail = Capacity - 1 THEN 0 ELSE tail + 1
  BY <1>1, AfterPlace
<1>6. \A i \in Places : i = count + 1 => After(tail) = Place(i)
  BY <1>1, <1>5 DEF Place, Places
<1>7. count + 1 = Capacity => After(tail) = head
  BY <1>1, <1>5 DEF Place, Places
<1>8. count' < Capacity => tail' = Place(count)'
  <2>1. count + 1 < Capacity => count + 1 \in Places
    BY <1>1 DEF Places
  <2>. QED BY <1>1, <1>2, <1>6, <2>1 DEF Place
<1>9. \A i \in Places : (items'[Place(i)'] # Null) <=> (i < count')
  BY <1>2, <1>3, <1>4
<1>. QED
  BY <1>2, <1>7, <1>8, <1>9 DEF RingOK, Places

(* Dequeue empties the first place, and the others move up by one.         *)
LEMMA RingDequeue ==
  ASSUME TypeOK, RingInv, Dequeue
  PROVE  RingOK'
<1> USE SendQueueAssumption
<1>1. /\ head \in Places /\ tail \in Places /\ count \in 1 .. Capacity
      /\ items \in [Places -> Messages \cup {Null}]
  BY DEF TypeOK, Dequeue
<1>2. /\ head' = After(head) /\ count' = count - 1 /\ tail' = tail
      /\ items' = [items EXCEPT ![head] = Null]
  BY DEF Dequeue
<1>3. After(head) = IF head = Capacity - 1 THEN 0 ELSE head + 1
  BY <1>1, AfterPlace
<1>4. \A i \in Places :
        Place(i)' = IF i = Capacity - 1 THEN head ELSE Place(i + 1)
  BY <1>1, <1>2, <1>3 DEF Place, Places
<1>5. \A i \in Places : (items'[Place(i)'] # Null) <=> (i < count - 1)
  <2> SUFFICES ASSUME NEW i \in Places
               PROVE  (items'[Place(i)'] # Null) <=> (i < count - 1)
    OBVIOUS
  <2>1. CASE i = Capacity - 1
    <3>1. Place(i)' = head
      BY <1>4, <2>1
    <3>2. items'[head] = Null
      BY <1>1, <1>2
    <3>. QED BY <1>1, <2>1, <3>1, <3>2
  <2>2. CASE i # Capacity - 1
    <3>1. i + 1 \in Places /\ 0 \in Places /\ i \in Nat
      BY <2>2 DEF Places
    <3>2. Place(i)' = Place(i + 1)
      BY <1>4, <2>2
    <3>3. Place(0) = head
      BY <1>1 DEF Place, Places
    <3>4. Place(i + 1) \in Places /\ Place(i + 1) # head
      BY <1>1, <3>1, <3>3, PlaceOneToOne
    <3>5. items'[Place(i + 1)] = items[Place(i + 1)]
      BY <1>1, <1>2, <3>4
    <3>6. (items[Place(i + 1)] # Null) <=> (i + 1 < count)
      BY <3>1 DEF RingInv, RingOK
    <3>. QED BY <1>1, <3>1, <3>2, <3>5, <3>6
  <2>. QED BY <2>1, <2>2
<1>6. tail' = Place(count)'
  <2>1. count < Capacity => tail = Place(count)
    BY DEF RingInv, RingOK
  <2>2. count = Capacity => tail = head
    BY DEF RingInv, RingOK
  <2>3. CASE count = Capacity
    BY <1>1, <1>2, <1>3, <2>2, <2>3 DEF Place, Places
  <2>4. CASE count < Capacity
    BY <1>1, <1>2, <1>3, <2>1, <2>4 DEF Place, Places
  <2>. QED BY <1>1, <2>3, <2>4
<1>7. \A i \in Places : (items'[Place(i)'] # Null) <=> (i < count')
  BY <1>2, <1>5
<1>8. count' # Capacity
  BY <1>1, <1>2
<1>. QED
  BY <1>6, <1>7, <1>8 DEF RingOK, Places

LEMMA RingStep ==
  ASSUME TypeOK, RingInv, [Next]_vars
  PROVE  RingInv'
<1> SUFFICES RingOK'
  BY ArgsStep DEF RingInv
<1>0. RingOK
  BY DEF RingInv
<1>1. ASSUME NEW p \in Producers, NEW m \in Messages, Publish(p, m)
     PROVE  RingOK'
  BY <1>1, <1>0, RingFrame DEF Publish, queueVars
<1>2. ASSUME NEW p \in Producers, EnqueueWait(p) PROVE RingOK'
  BY <1>2, <1>0, RingFrame DEF EnqueueWait, queueVars
<1>3. ASSUME NEW p \in Producers, EnqueueFails(p) PROVE RingOK'
  BY <1>3, <1>0, RingFrame DEF EnqueueFails, Return, queueVars
<1>4. ASSUME NEW p \in Producers, Enqueue(p) PROVE RingOK'
  BY <1>4, RingEnqueue
<1>5. CASE DequeueWait
  BY <1>5, <1>0, RingFrame DEF DequeueWait, queueVars
<1>6. CASE Dequeue
  BY <1>6, RingDequeue
<1>7. CASE DequeueShutdown
  BY <1>7, <1>0, RingFrame DEF DequeueShutdown, queueVars
<1>8. CASE Published
  BY <1>8, <1>0, RingFrame DEF Published, queueVars
<1>9. CASE Shutdown
  BY <1>9, <1>0, RingFrame DEF Shutdown, queueVars
<1>10. CASE SpuriousWakeup
  <2>1. UNCHANGED queueVars
    BY <1>10 DEF SpuriousWakeup
  <2>. QED BY <1>0, <2>1, RingFrame DEF queueVars
<1>11. CASE UNCHANGED vars
  BY <1>11, <1>0, RingFrame DEF vars, queueVars
<1>. QED
  BY <1>1, <1>2, <1>3, <1>4, <1>5, <1>6, <1>7, <1>8, <1>9,
     <1>10, <1>11
  DEF Next, ProducerStep, PublisherStep

(* The ring is sound for every capacity: no queued message is overwritten, *)
(* no empty place is read.                                                 *)
THEOREM RingIsSound == Spec => []RingOK
BY RingInit, RingStep, TypeCorrect, PTL DEF Spec, RingInv

-----------------------------------------------------------------------------
(***************************************************************************)
(* Wake-ups.                                                               *)
(***************************************************************************)
LEMMA WaitingIsFinite ==
  /\ IsFiniteSet(Waiting) /\ Cardinality(Waiting) \in Nat
  /\ Cardinality(Waiting) <= Capacity
<1>1. Waiting \in SUBSET Producers
  BY DEF Waiting
<1>2. IsFiniteSet(Waiting) /\ Cardinality(Waiting) <= Cardinality(Producers)
  BY <1>1, FS_Subset, SendQueueAssumption
<1>3. Cardinality(Waiting) \in Nat /\ Cardinality(Producers) \in Nat
  BY <1>2, FS_CardinalityType, SendQueueAssumption
<1>. QED BY <1>2, <1>3, SendQueueAssumption

(* When no producer goes to sleep, the set of sleepers does not grow.      *)
LEMMA FewerWaiting ==
  ASSUME Waiting' \subseteq Waiting
  PROVE  /\ Cardinality(Waiting') <= Cardinality(Waiting)
         /\ Cardinality(Waiting') \in Nat
<1>1. IsFiniteSet(Waiting) /\ Waiting' \in SUBSET Waiting
  BY WaitingIsFinite
<1>2. IsFiniteSet(Waiting') /\ Cardinality(Waiting') <= Cardinality(Waiting)
  BY <1>1, FS_Subset
<1>. QED BY <1>2, FS_CardinalityType

(* A step that only wakes producers loses no wake-up.                      *)
LEMMA WaitFrame ==
  ASSUME TypeOK, NoLostWakeup, UNCHANGED <<count, shutdown>>,
         Waiting' \subseteq Waiting, ppc' = "waiting" => ppc = "waiting"
  PROVE  NoLostWakeup'
<1>1. Cardinality(Waiting') \in 0 .. Cardinality(Waiting)
  BY FewerWaiting
<1>2. count \in Nat /\ Cardinality(Waiting) \in 0 .. count
  BY WaitingIsFinite DEF NoLostWakeup, TypeOK
<1>. QED BY <1>1, <1>2 DEF NoLostWakeup

LEMMA WakeupInit == Init => NoLostWakeup
<1> SUFFICES ASSUME Init PROVE NoLostWakeup
  OBVIOUS
<1>1. Waiting = {}
  BY DEF Init, Waiting
<1>. QED BY <1>1, FS_EmptySet DEF Init, NoLostWakeup

LEMMA WakeupStep ==
  ASSUME TypeOK, TypeOK', NoLostWakeup, [Next]_vars
  PROVE  NoLostWakeup'
<1>1. ASSUME NEW p \in Producers, NEW m \in Messages, Publish(p, m)
     PROVE  NoLostWakeup'
  BY <1>1, WaitFrame DEF Publish, queueVars, Waiting, TypeOK
<1>2. ASSUME NEW p \in Producers, EnqueueWait(p) PROVE NoLostWakeup'
  <2>1. count' = Capacity /\ ~shutdown' /\ ppc' = ppc
    BY <1>2 DEF EnqueueWait, queueVars
  <2>2. ppc # "waiting"
    BY <1>2, SendQueueAssumption DEF EnqueueWait, NoLostWakeup
  <2>3. Cardinality(Waiting') <= Capacity
    <3>1. Waiting' \in SUBSET Producers
      BY DEF Waiting
    <3>2. Cardinality(Waiting') <= Cardinality(Producers)
      BY <3>1, FS_Subset, SendQueueAssumption
    <3>3. IsFiniteSet(Waiting')
      BY <3>1, FS_Subset, SendQueueAssumption
    <3>4. Cardinality(Waiting') \in Nat /\ Cardinality(Producers) \in Nat
      BY <3>3, FS_CardinalityType, SendQueueAssumption
    <3>. QED BY <3>2, <3>4, SendQueueAssumption
  <2>. QED BY <2>1, <2>2, <2>3 DEF NoLostWakeup
<1>3. ASSUME NEW p \in Producers, EnqueueFails(p) PROVE NoLostWakeup'
  BY <1>3, WaitFrame DEF EnqueueFails, Return, queueVars, Waiting, TypeOK
<1>4. ASSUME NEW p \in Producers, Enqueue(p) PROVE NoLostWakeup'
  <2>1. Waiting' \subseteq Waiting
    BY <1>4 DEF Enqueue, Return, Waiting, TypeOK
  <2>2. /\ count \in Nat /\ count' = count + 1
        /\ shutdown' = shutdown /\ ~shutdown
        /\ ppc' # "waiting"
    BY <1>4 DEF Enqueue, TypeOK
  <2>3. Cardinality(Waiting') \in 0 .. Cardinality(Waiting)
    BY <2>1, FewerWaiting
  <2>4. Cardinality(Waiting) \in Nat /\ Cardinality(Waiting) <= count
    BY WaitingIsFinite DEF NoLostWakeup
  <2>. QED BY <2>2, <2>3, <2>4 DEF NoLostWakeup
<1>5. CASE DequeueWait
  <2>1. Waiting' = Waiting
    BY <1>5 DEF DequeueWait, Waiting
  <2>. QED BY <1>5, <2>1 DEF DequeueWait, queueVars, NoLostWakeup
<1>6. CASE Dequeue
  <2>1. count \in Nat \ {0} /\ count' = count - 1 /\ shutdown' = shutdown
    BY <1>6 DEF Dequeue, TypeOK
  <2>2. ppc' = "publish"
    BY <1>6 DEF Dequeue
  <2>3. Cardinality(Waiting) \in Nat /\ Cardinality(Waiting) <= count
    BY WaitingIsFinite DEF NoLostWakeup
  <2>4. CASE Waiting = {} /\ pc' = pc
    <3>1. Waiting' = {}
      BY <2>4 DEF Waiting
    <3>2. Cardinality(Waiting') = 0
      BY <3>1, FS_EmptySet
    <3>. QED BY <2>1, <2>2, <3>1, <3>2 DEF NoLostWakeup
  <2>5. ASSUME NEW p \in Waiting, pc' = [pc EXCEPT ![p] = "enter"]
        PROVE  NoLostWakeup'
    <3>1. Waiting' = Waiting \ {p}
      BY <2>5 DEF Waiting, TypeOK
    <3>2. Cardinality(Waiting') = Cardinality(Waiting) - 1
      BY <3>1, FS_RemoveElement, WaitingIsFinite
    <3>3. ~shutdown
      BY DEF NoLostWakeup
    <3>. QED BY <2>1, <2>2, <2>3, <3>2, <3>3 DEF NoLostWakeup
  <2>. QED BY <1>6, <2>4, <2>5 DEF Dequeue, SignalNonfull
<1>7. CASE DequeueShutdown
  BY <1>7, WaitFrame DEF DequeueShutdown, queueVars, Waiting, TypeOK
<1>8. CASE Published
  BY <1>8, WaitFrame DEF Published, queueVars, Waiting, TypeOK
<1>9. CASE Shutdown
  <2>1. Waiting' = {} /\ ppc' # "waiting" /\ count' = count /\ count \in Nat
    BY <1>9 DEF Shutdown, Waiting, TypeOK
  <2>2. Cardinality(Waiting') = 0
    BY <2>1, FS_EmptySet
  <2>. QED BY <2>1, <2>2 DEF NoLostWakeup
<1>10. CASE SpuriousWakeup
  <2>1. UNCHANGED queueVars
    BY <1>10 DEF SpuriousWakeup
  <2>2. Waiting' \subseteq Waiting
    BY <1>10 DEF SpuriousWakeup, Waiting, TypeOK
  <2>3. ppc' = "waiting" => ppc = "waiting"
    BY <1>10 DEF SpuriousWakeup
  <2>. QED BY <2>1, <2>2, <2>3, WaitFrame DEF queueVars
<1>11. CASE UNCHANGED vars
  BY <1>11, WaitFrame DEF vars, queueVars, Waiting
<1>. QED
  BY <1>1, <1>2, <1>3, <1>4, <1>5, <1>6, <1>7, <1>8, <1>9,
     <1>10, <1>11
  DEF Next, ProducerStep, PublisherStep

(* Nobody sleeps on a queue with something to do, for every capacity that  *)
(* is at least the number of threads that publish.                         *)
THEOREM NobodyOversleeps == Spec => []NoLostWakeup
BY WakeupInit, WakeupStep, TypeCorrect, PTL DEF Spec

-----------------------------------------------------------------------------
(***************************************************************************)
(* The daemon.  To the invariants of the queue, DaemonInv adds how far     *)
(* main has come, and who has gone by then.                                *)
(***************************************************************************)
StageNames == {"test", "tested", "pause", "announced", "stopped",
               "disconnected", "destroyed", "unmapped", "closed", "shutdown",
               "workersJoined", "joined", "ended"}

DaemonTypeOK ==
  /\ stage \in StageNames \cup {"crashed"}
  /\ job \in [Workers -> {"wait", "once", "endless", "done", "exited"}]

(* Only at "announced" may main itself be in the queue; the network thread *)
(* is not, once the client is destroyed, nor is a function that has left.  *)
OutOfQueue ==
  /\ stage \notin {"announced", "crashed"} => pc[Main] = "idle"
  /\ stage \in {"destroyed", "unmapped", "closed", "shutdown",
                "workersJoined", "joined", "ended"} => pc[Net] = "idle"
  /\ \A w \in Workers : job[w] = "exited" => pc[w] = "idle"

(* What main has waited for.                                               *)
Joined ==
  /\ stage \in {"workersJoined", "joined", "ended"} =>
       \A w \in Workers : job[w] = "exited"
  /\ stage \in {"joined", "ended"} => ppc = "exited"

(* The publisher holds a message when it publishes, and leaves nothing.    *)
PublisherOK ==
  /\ sending # Null <=> ppc = "publish"
  /\ ppc = "exited" => count = 0 /\ (shutdown \/ stage = "ended")

DaemonInv ==
  /\ TypeOK /\ RingInv /\ NoLostWakeup
  /\ DaemonTypeOK /\ OutOfQueue /\ Joined /\ PublisherOK

QueueInv == TypeOK /\ RingInv /\ NoLostWakeup

LEMMA DaemonInitInv == DaemonInit => DaemonInv
<1> SUFFICES ASSUME DaemonInit PROVE DaemonInv
  OBVIOUS
<1>1. QueueInv
  <2>1. TypeOK
    <3>1. 0 \in Places /\ 0 \in 0 .. Capacity
      BY SendQueueAssumption DEF Places
    <3>2. items \in [Places -> Messages \cup {Null}]
      BY DEF DaemonInit, Init
    <3>. QED BY <3>1, <3>2 DEF DaemonInit, Init, TypeOK
  <2>. QED BY <2>1, RingInit, WakeupInit DEF DaemonInit, QueueInv
<1>2. DaemonTypeOK /\ OutOfQueue /\ Joined /\ PublisherOK
  BY LifecycleAssumption
  DEF DaemonInit, Init, DaemonTypeOK, StageNames, OutOfQueue, Joined,
      PublisherOK
<1>. QED BY <1>1, <1>2 DEF DaemonInv, QueueInv

(* Main, the network thread and the functions are different threads, and   *)
(* all there are.                                                          *)
LEMMA Threads ==
  /\ Main \in Producers /\ Net \in Producers /\ Main # Net
  /\ \A w \in Workers : w \in Producers /\ w # Main /\ w # Net
  /\ \A p \in Producers : p = Main \/ p = Net \/ p \in Workers
  /\ \A p \in Producers : Text[p] \in Messages
BY LifecycleAssumption DEF Workers

LEMMA NotListening ==
  ASSUME stage \in {"destroyed", "unmapped", "closed", "shutdown",
                    "workersJoined", "joined", "ended"}
  PROVE  Reached("disconnected")
<1>1. DOMAIN Stages = 1 .. 13
  BY DEF Stages
<1>2. Stages[6] = "disconnected"
  BY DEF Stages
<1>3. /\ Stages[7] = "destroyed" /\ Stages[8] = "unmapped"
      /\ Stages[9] = "closed" /\ Stages[10] = "shutdown"
      /\ Stages[11] = "workersJoined" /\ Stages[12] = "joined"
      /\ Stages[13] = "ended"
  BY DEF Stages
<1>4. PICK j \in 7 .. 13 : Stages[j] = stage
  BY <1>3
<1>. QED BY <1>1, <1>2, <1>4 DEF Reached

(***************************************************************************)
(* A step of the daemon is one of the send queue's, or main's last.        *)
(***************************************************************************)
LEMMA QueueUse ==
  ASSUME [DaemonNext]_allVars, ~DestroyQueues
  PROVE  [Next]_vars
<1>1. CASE Report
  BY <1>1, Threads DEF Report, Next
<1>2. CASE QueueStep
  BY <1>2 DEF QueueStep, Next
<1>3. ASSUME NEW w \in Workers, Command(w) \/ WorkerStep(w)
      PROVE  [Next]_vars
  <2>1. (\E m \in Messages : Publish(w, m)) \/ UNCHANGED vars
    BY <1>3, Threads
    DEF Command, WorkerStep, Start, Exit, Answer, AnswerOn, Stopped, Finish,
        Fault, Says
  <2>. QED BY <2>1, Threads DEF Next
<1>4. CASE Signal
  BY <1>4 DEF Signal
<1>5. CASE MainStep
  <2>1. (\E m \in Messages : Publish(Main, m)) \/ Shutdown \/ UNCHANGED vars
    BY <1>5, Threads
    DEF MainStep, Test, Pause, Announce, StopAll, Disconnect, Destroy, Unmap,
        CloseTaskQueues, CloseSendQueue, JoinWorkers, JoinPublisher, Passes,
        MainSays, Goes
  <2>. QED BY <2>1, Threads DEF Next
<1>6. CASE UNCHANGED allVars
  BY <1>6 DEF allVars
<1>. QED
  BY <1>1, <1>2, <1>3, <1>4, <1>5, <1>6 DEF DaemonNext

(* When main destroys the queue, no thread is inside and it is empty.      *)
LEMMA NobodyLeft ==
  ASSUME DaemonInv
  PROVE  DestroyedUnused
<1> SUFFICES ASSUME stage \in {"joined", "ended"}
             PROVE  /\ count = 0 /\ sending = Null /\ ppc = "exited"
                    /\ \A p \in Producers : pc[p] = "idle"
                    /\ \A w \in Workers : job[w] = "exited"
  BY DEF DestroyedUnused
<1>1. ppc = "exited" /\ \A w \in Workers : job[w] = "exited"
  BY DEF DaemonInv, Joined
<1>2. count = 0 /\ sending = Null
  BY <1>1 DEF DaemonInv, PublisherOK
<1>3. \A p \in Producers : pc[p] = "idle"
  BY <1>1, Threads DEF DaemonInv, OutOfQueue
<1>. QED BY <1>1, <1>2, <1>3

LEMMA QueueInvStep ==
  ASSUME DaemonInv, [DaemonNext]_allVars
  PROVE  QueueInv'
<1>1. CASE ~DestroyQueues
  BY <1>1, QueueUse, TypeStep, RingStep, WakeupStep DEF DaemonInv, QueueInv
<1>2. CASE DestroyQueues
  <2>1. /\ items' = [i \in Places |-> Null] /\ head' = 0 /\ tail' = 0
        /\ count' = 0 /\ shutdown' = FALSE
        /\ UNCHANGED <<pc, args, ppc, sending>>
    BY <1>2 DEF DestroyQueues
  <2>2. ppc = "exited" /\ \A p \in Producers : pc[p] = "idle"
    BY <1>2, NobodyLeft DEF DestroyedUnused, DestroyQueues, Goes
  <2>3. TypeOK'
    <3>1. 0 \in Places /\ 0 \in 0 .. Capacity
      BY SendQueueAssumption DEF Places
    <3>2. items' \in [Places -> Messages \cup {Null}]
      BY <2>1
    <3>. QED BY <2>1, <3>1, <3>2 DEF DaemonInv, TypeOK
  <2>4. RingInv'
    BY <2>1, <2>2, SendQueueAssumption
    DEF RingInv, ArgsHeld, RingOK, Place, Places
  <2>5. Waiting' = {}
    BY <2>1, <2>2 DEF Waiting
  <2>6. NoLostWakeup'
    BY <2>1, <2>2, <2>5, FS_EmptySet DEF NoLostWakeup
  <2>. QED BY <2>3, <2>4, <2>6 DEF QueueInv
<1>. QED BY <1>1, <1>2

(* Main never turns back, and neither it nor anybody else moves it on from *)
(* "ended".                                                                *)
LEMMA DaemonTypeStep ==
  ASSUME DaemonTypeOK, [DaemonNext]_allVars
  PROVE  DaemonTypeOK'
<1> USE DEF DaemonTypeOK, StageNames
<1>1. CASE Report \/ QueueStep
  BY <1>1 DEF Report, QueueStep, daemonVars
<1>2. ASSUME NEW w \in Workers, Command(w) PROVE DaemonTypeOK'
  BY <1>2 DEF Command
<1>3. ASSUME NEW w \in Workers, WorkerStep(w) PROVE DaemonTypeOK'
  BY <1>3
  DEF WorkerStep, Start, Exit, Answer, AnswerOn, Stopped, Finish, Fault, Says
<1>4. CASE Signal
  BY <1>4 DEF Signal
<1>5. CASE MainStep
  BY <1>5
  DEF MainStep, Test, Pause, Announce, StopAll, Disconnect, Destroy, Unmap,
      CloseTaskQueues, CloseSendQueue, JoinWorkers, JoinPublisher,
      DestroyQueues, Passes, MainSays, Goes
<1>6. CASE UNCHANGED allVars
  BY <1>6 DEF allVars, daemonVars
<1>. QED BY <1>1, <1>2, <1>3, <1>4, <1>5, <1>6 DEF DaemonNext

(* Only Publish brings an idle thread into the queue.                      *)
LEMMA IdleStays ==
  ASSUME TypeOK, QueueStep \/ Shutdown, NEW p \in Producers, pc[p] = "idle"
  PROVE  pc'[p] = "idle"
<1>1. ASSUME NEW q \in Producers, ProducerStep(q) PROVE pc'[p] = "idle"
  BY <1>1 DEF ProducerStep, EnqueueWait, EnqueueFails, Enqueue, Return, TypeOK
<1>2. CASE Dequeue
  BY <1>2 DEF Dequeue, SignalNonfull, Waiting, TypeOK
<1>3. CASE DequeueWait \/ DequeueShutdown \/ Published
  BY <1>3 DEF DequeueWait, DequeueShutdown, Published
<1>4. CASE SpuriousWakeup
  BY <1>4 DEF SpuriousWakeup, Waiting, TypeOK
<1>5. CASE Shutdown
  BY <1>5 DEF Shutdown, TypeOK
<1>. QED
  BY <1>1, <1>2, <1>3, <1>4, <1>5 DEF QueueStep, PublisherStep

LEMMA OutOfQueueStep ==
  ASSUME TypeOK, DaemonTypeOK, OutOfQueue, [DaemonNext]_allVars
  PROVE  OutOfQueue'
<1> USE Threads DEF OutOfQueue
<1>1. CASE Report
  <2>1. /\ pc' = [pc EXCEPT ![Net] = "enter"]
        /\ ~Reached("disconnected") /\ UNCHANGED <<stage, job>>
    BY <1>1 DEF Report, Listening, Publish, daemonVars
  <2>2. stage \notin {"destroyed", "unmapped", "closed", "shutdown",
                      "workersJoined", "joined", "ended"}
    BY <2>1, NotListening
  <2>. QED BY <2>1, <2>2 DEF TypeOK
<1>2. CASE QueueStep
  <2>1. UNCHANGED <<stage, job>>
    BY <1>2 DEF QueueStep, daemonVars
  <2>. QED BY <1>2, <2>1, IdleStays
<1>3. ASSUME NEW w \in Workers, Command(w) PROVE OutOfQueue'
  BY <1>3 DEF Command, vars
<1>4. ASSUME NEW w \in Workers, WorkerStep(w) PROVE OutOfQueue'
  <2>1. CASE Exit(w)
    BY <2>1 DEF Exit, vars, DaemonTypeOK
  <2>2. CASE Fault(w)
    BY <2>2 DEF Fault, vars
  <2>3. CASE ~Exit(w) /\ ~Fault(w)
    <3>1. /\ pc' = [pc EXCEPT ![w] = "enter"]
          /\ \E to \in {"once", "endless", "done", "wait"} :
               job' = [job EXCEPT ![w] = to]
          /\ stage' = stage
      BY <1>4, <2>3
      DEF WorkerStep, Start, Answer, AnswerOn, Stopped, Finish, Says, Publish
    <3>. QED BY <3>1 DEF TypeOK, DaemonTypeOK
  <2>. QED BY <2>1, <2>2, <2>3
<1>5. CASE Signal
  BY <1>5 DEF Signal, vars
<1>6. CASE MainStep
  <2>1. CASE Announce
    BY <2>1 DEF Announce, MainSays, Goes, Publish, TypeOK
  <2>2. CASE CloseSendQueue
    <3>1. /\ pc[Main] = "idle" /\ stage = "closed" /\ stage' = "shutdown"
          /\ job' = job /\ Shutdown
      BY <2>2 DEF CloseSendQueue, Goes
    <3>. QED BY <3>1, IdleStays
  <2>3. CASE ~Announce /\ ~CloseSendQueue
    <3>1. /\ pc[Main] = "idle" /\ pc' = pc /\ job' = job
          /\ stage' = "destroyed" => pc[Net] = "idle"
          /\ stage' \in {"unmapped", "closed", "workersJoined", "joined",
                         "ended"} =>
               stage \in {"destroyed", "unmapped", "closed", "shutdown",
                          "workersJoined", "joined"}
          /\ stage' # "shutdown"
      BY <1>6, <2>3
      DEF MainStep, Test, Pause, StopAll, Disconnect, Destroy, Unmap,
          CloseTaskQueues, JoinWorkers, JoinPublisher, DestroyQueues,
          Passes, Goes, vars
    <3>. QED BY <3>1
  <2>. QED BY <2>1, <2>2, <2>3
<1>7. CASE UNCHANGED allVars
  BY <1>7 DEF allVars, daemonVars, vars
<1>. QED BY <1>1, <1>2, <1>3, <1>4, <1>5, <1>6, <1>7 DEF DaemonNext

(* Who has left does not come back, and main goes on only when they have.  *)
LEMMA JoinedStep ==
  ASSUME DaemonTypeOK, Joined, [DaemonNext]_allVars
  PROVE  Joined'
<1> USE DEF Joined
<1>1. CASE Report
  BY <1>1 DEF Report, Publish, daemonVars
<1>2. CASE QueueStep
  <2>1. UNCHANGED <<stage, job>>
    BY <1>2 DEF QueueStep, daemonVars
  <2>2. ppc = "exited" => ppc' = "exited"
    BY <1>2
    DEF QueueStep, ProducerStep, EnqueueWait, EnqueueFails, Enqueue,
        PublisherStep, DequeueWait, Dequeue, DequeueShutdown, Published,
        SpuriousWakeup
  <2>. QED BY <2>1, <2>2
<1>3. ASSUME NEW w \in Workers, Command(w) PROVE Joined'
  BY <1>3 DEF Command, vars
<1>4. ASSUME NEW w \in Workers, WorkerStep(w) PROVE Joined'
  <2>1. /\ job[w] # "exited" /\ ppc' = ppc
        /\ stage' = stage \/ stage' = "crashed"
    BY <1>4
    DEF WorkerStep, Start, Exit, Answer, AnswerOn, Stopped, Finish, Fault,
        Says, Publish, vars
  <2>. QED BY <2>1
<1>5. CASE Signal
  BY <1>5 DEF Signal, vars
<1>6. CASE MainStep
  <2>1. job' = job /\ (ppc = "exited" => ppc' = "exited")
    BY <1>6
    DEF MainStep, Test, Pause, Announce, StopAll, Disconnect, Destroy, Unmap,
        CloseTaskQueues, CloseSendQueue, JoinWorkers, JoinPublisher,
        DestroyQueues, Passes, MainSays, Goes, Publish, Shutdown, vars
  <2>2. /\ stage' = "workersJoined" => \A w \in Workers : job[w] = "exited"
        /\ stage' = "joined" => stage = "workersJoined" /\ ppc = "exited"
        /\ stage' = "ended" => stage = "joined"
    BY <1>6
    DEF MainStep, Test, Pause, Announce, StopAll, Disconnect, Destroy, Unmap,
        CloseTaskQueues, CloseSendQueue, JoinWorkers, JoinPublisher,
        DestroyQueues, Passes, MainSays, Goes
  <2>. QED BY <2>1, <2>2
<1>7. CASE UNCHANGED allVars
  BY <1>7 DEF allVars, daemonVars, vars
<1>. QED BY <1>1, <1>2, <1>3, <1>4, <1>5, <1>6, <1>7 DEF DaemonNext

(* The oldest message of a queue that is not empty is a message.           *)
LEMMA OldestIsMessage ==
  ASSUME TypeOK, RingOK, count # 0
  PROVE  items[head] \in Messages
<1>1. 0 \in Places /\ Place(0) = head /\ 0 < count
  BY SendQueueAssumption DEF TypeOK, Places, Place
<1>2. items[head] # Null
  BY <1>1 DEF RingOK
<1>. QED BY <1>2 DEF TypeOK

(* Once main has destroyed the queues, no step touches them.               *)
LEMMA EndedIsEnded ==
  ASSUME DaemonInv, [DaemonNext]_allVars, stage = "ended"
  PROVE  stage' = "ended" /\ UNCHANGED <<queueVars, pc, ppc, sending>>
<1>1. /\ ppc = "exited" /\ \A p \in Producers : pc[p] = "idle"
      /\ \A w \in Workers : job[w] = "exited"
  BY NobodyLeft DEF DestroyedUnused
<1>2. Reached("disconnected")
  BY NotListening
<1>3. ~Report /\ \A w \in Workers : ~Command(w)
  BY <1>2 DEF Report, Command, Listening
<1>4. \A w \in Workers : ~WorkerStep(w)
  BY <1>1
  DEF WorkerStep, Start, Exit, Answer, AnswerOn, Stopped, Finish, Fault, Says
<1>5. ~QueueStep
  BY <1>1
  DEF QueueStep, ProducerStep, EnqueueWait, EnqueueFails, Enqueue,
      PublisherStep, DequeueWait, Dequeue, DequeueShutdown, Published,
      SpuriousWakeup, Waiting
<1>6. ~MainStep
  BY DEF MainStep, Test, Pause, Announce, StopAll, Disconnect, Destroy, Unmap,
         CloseTaskQueues, CloseSendQueue, JoinWorkers, JoinPublisher,
         DestroyQueues, Passes, MainSays, Goes
<1>7. CASE Signal
  BY <1>7 DEF Signal, vars
<1>8. CASE UNCHANGED allVars
  BY <1>8 DEF allVars, daemonVars, vars
<1>. QED BY <1>3, <1>4, <1>5, <1>6, <1>7, <1>8 DEF DaemonNext

LEMMA PublisherOKStep ==
  ASSUME DaemonInv, [DaemonNext]_allVars
  PROVE  PublisherOK'
<1> USE DEF PublisherOK
<1>0. PublisherOK /\ TypeOK /\ RingOK
  BY DEF DaemonInv, RingInv
<1>1. CASE DestroyQueues
  BY <1>0, <1>1 DEF DestroyQueues, Goes
<1>2. CASE stage = "ended"
  BY <1>0, <1>2, EndedIsEnded DEF queueVars
<1>3. CASE ~DestroyQueues /\ stage # "ended"
  <2>1. [Next]_vars
    BY <1>3, QueueUse
  <2>2. stage' # "ended"
    BY <1>3
    DEF DaemonNext, Report, Command, WorkerStep, Start, Exit, Answer,
        AnswerOn, Stopped, Finish, Fault, Signal, MainStep, Test, Pause,
        Announce, StopAll, Disconnect, Destroy, Unmap, CloseTaskQueues,
        CloseSendQueue, JoinWorkers, JoinPublisher, Passes, MainSays, Goes,
        QueueStep, allVars, daemonVars
  <2>3. ASSUME NEW p \in Producers, NEW m \in Messages, Publish(p, m)
        PROVE  PublisherOK'
    BY <1>0, <1>3, <2>2, <2>3 DEF Publish, queueVars
  <2>4. ASSUME NEW p \in Producers, ProducerStep(p) PROVE PublisherOK'
    BY <1>0, <1>3, <2>2, <2>4
    DEF ProducerStep, EnqueueWait, EnqueueFails, Enqueue, queueVars
  <2>5. CASE Dequeue
    BY <1>0, <2>5, OldestIsMessage, SendQueueAssumption DEF Dequeue
  <2>6. CASE DequeueWait \/ DequeueShutdown \/ Published
    BY <1>0, <1>3, <2>2, <2>6
    DEF DequeueWait, DequeueShutdown, Published, queueVars
  <2>7. CASE Shutdown
    BY <1>0, <1>3, <2>2, <2>7 DEF Shutdown
  <2>8. CASE SpuriousWakeup
    BY <1>0, <1>3, <2>2, <2>8 DEF SpuriousWakeup, queueVars
  <2>9. CASE UNCHANGED vars
    BY <1>0, <1>3, <2>2, <2>9 DEF vars, queueVars
  <2>. QED
    BY <2>1, <2>3, <2>4, <2>5, <2>6, <2>7, <2>8, <2>9
    DEF Next, PublisherStep
<1>. QED BY <1>1, <1>2, <1>3

LEMMA DaemonInvariant == DaemonSpec => []DaemonInv
<1>1. DaemonInv /\ [DaemonNext]_allVars => DaemonInv'
  BY QueueInvStep, DaemonTypeStep, OutOfQueueStep, JoinedStep,
     PublisherOKStep
  DEF DaemonInv, QueueInv
<1>. QED BY <1>1, DaemonInitInv, PTL DEF DaemonSpec

-----------------------------------------------------------------------------
(* The queue's indices, its ring and its sleepers are also right in the    *)
(* daemon, which destroys the queue.                                       *)
THEOREM DaemonKeepsTypes == DaemonSpec => []TypeOK
BY DaemonInvariant, PTL DEF DaemonInv

THEOREM DaemonKeepsRing == DaemonSpec => []RingOK
BY DaemonInvariant, PTL DEF DaemonInv, RingInv

THEOREM DaemonLosesNoWakeup == DaemonSpec => []NoLostWakeup
BY DaemonInvariant, PTL DEF DaemonInv

(* main's joins, disconnect and shutdowns are in an order that leaves      *)
(* nobody in the queue, and nothing unpublished, when it destroys mutex    *)
(* and condition variables: for any capacity and any functions.            *)
THEOREM QueueDestroyedUnused == DaemonSpec => []DestroyedUnused
BY DaemonInvariant, NobodyLeft, PTL

-----------------------------------------------------------------------------
(***************************************************************************)
(* The refinement: the ring from head on is the FIFO's queue.              *)
(***************************************************************************)
Ring == [i \in 1 .. count |-> items[Place(i - 1)]]

LEMMA RingIsSeq ==
  ASSUME TypeOK, RingOK
  PROVE  Ring \in Seq(Messages) /\ Len(Ring) = count
<1>1. count \in Nat /\ count <= Capacity /\ head \in Places
  BY SendQueueAssumption DEF TypeOK
<1>2. ASSUME NEW i \in 1 .. count PROVE items[Place(i - 1)] \in Messages
  <2>1. i - 1 \in Places /\ i - 1 < count
    BY <1>1, SendQueueAssumption DEF Places
  <2>2. Place(i - 1) \in Places /\ items[Place(i - 1)] # Null
    BY <1>1, <2>1, PlaceOneToOne DEF RingOK
  <2>. QED BY <2>2 DEF TypeOK
<1>. QED BY <1>1, <1>2 DEF Ring

(* Enqueue appends.                                                        *)
LEMMA EnqueueAppends ==
  ASSUME TypeOK, RingInv, NEW p \in Producers, Enqueue(p)
  PROVE  Ring' = Append(Ring, args[p]) /\ args[p] \in Messages
<1>1. /\ head \in Places /\ count \in Nat /\ count < Capacity
      /\ items \in [Places -> Messages \cup {Null}]
      /\ tail = Place(count) /\ tail \in Places
  BY SendQueueAssumption DEF TypeOK, RingInv, RingOK, Enqueue
<1>2. /\ head' = head /\ count' = count + 1
      /\ items' = [items EXCEPT ![tail] = args[p]]
  BY DEF Enqueue
<1>3. args[p] \in Messages
  BY DEF TypeOK, RingInv, ArgsHeld, Enqueue
<1>4. ASSUME NEW i \in 1 .. count + 1
      PROVE  items'[Place(i - 1)'] =
               IF i = count + 1 THEN args[p] ELSE items[Place(i - 1)]
  <2>1. i - 1 \in Places /\ count \in Places
    BY <1>1, SendQueueAssumption DEF Places
  <2>2. Place(i - 1)' = Place(i - 1) /\ Place(i - 1) \in Places
    BY <1>1, <1>2, <2>1, PlaceOneToOne DEF Place
  <2>3. Place(i - 1) = tail => i = count + 1
    BY <1>1, <2>1, PlaceOneToOne
  <2>. QED BY <1>1, <1>2, <2>2, <2>3
<1>5. Ring' = [i \in 1 .. count + 1 |->
                 IF i = count + 1 THEN args[p] ELSE items[Place(i - 1)]]
  BY <1>2, <1>4 DEF Ring
<1>6. Ring \in Seq(Messages) /\ Len(Ring) = count
  BY RingIsSeq DEF RingInv
<1>7. /\ Append(Ring, args[p]) \in Seq(Messages)
      /\ Len(Append(Ring, args[p])) = count + 1
      /\ \A i \in 1 .. count : Append(Ring, args[p])[i] = Ring[i]
      /\ Append(Ring, args[p])[count + 1] = args[p]
  BY <1>3, <1>6, AppendProperties
<1>8. \A i \in 1 .. count : Ring[i] = items[Place(i - 1)]
  BY DEF Ring
<1>9. ASSUME NEW i \in 1 .. count + 1
      PROVE  Ring'[i] \in Messages /\ Ring'[i] = Append(Ring, args[p])[i]
  <2>1. CASE i = count + 1
    BY <1>1, <1>3, <1>5, <1>7, <2>1
  <2>2. CASE i # count + 1
    <3>1. i \in 1 .. count /\ Ring'[i] = items[Place(i - 1)]
      BY <1>1, <1>5, <2>2
    <3>. QED BY <1>6, <1>7, <1>8, <3>1
  <2>. QED BY <2>1, <2>2
<1>10. Ring' \in Seq(Messages) /\ Len(Ring') = count + 1
  <2>1. DOMAIN Ring' = 1 .. count + 1
    BY <1>5
  <2>2. Ring' \in [1 .. count + 1 -> Messages]
    BY <1>5, <1>9, <2>1
  <2>. QED BY <1>1, <2>2
<1>. QED BY <1>3, <1>7, <1>9, <1>10, SeqEqual

(* Dequeue takes the head.                                                 *)
LEMMA DequeueTakesHead ==
  ASSUME TypeOK, RingInv, Dequeue
  PROVE  Ring # <<>> /\ sending' = Head(Ring) /\ Ring' = Tail(Ring)
<1>1. /\ head \in Places /\ count \in Nat \ {0} /\ count <= Capacity
      /\ items \in [Places -> Messages \cup {Null}]
  BY SendQueueAssumption DEF TypeOK, Dequeue
<1>2. /\ head' = After(head) /\ count' = count - 1
      /\ items' = [items EXCEPT ![head] = Null] /\ sending' = items[head]
  BY DEF Dequeue
<1>3. Ring \in Seq(Messages) /\ Len(Ring) = count
  BY RingIsSeq DEF RingInv
<1>4. Place(0) = head /\ 0 \in Places
  BY <1>1, SendQueueAssumption DEF Place, Places
<1>5. Ring # <<>> /\ Head(Ring) = items[head]
  BY <1>1, <1>3, <1>4 DEF Ring
<1>6. ASSUME NEW i \in 1 .. count - 1
      PROVE  items'[Place(i - 1)'] = items[Place(i)]
  <2>1. i \in Places /\ i # 0 /\ i - 1 \in Places
    BY <1>1, SendQueueAssumption DEF Places
  <2>2. Place(i - 1)' = Place(i)
    BY <1>1, <1>2, <2>1, AfterPlace, SendQueueAssumption DEF Place, Places
  <2>3. Place(i) \in Places /\ Place(i) # head
    BY <1>1, <1>4, <2>1, PlaceOneToOne
  <2>. QED BY <1>1, <1>2, <2>2, <2>3
<1>7. Ring' = [i \in 1 .. count - 1 |-> items[Place(i)]]
  BY <1>2, <1>6 DEF Ring
<1>8. /\ Tail(Ring) \in Seq(Messages) /\ Len(Tail(Ring)) = count - 1
      /\ \A i \in 1 .. count - 1 : Tail(Ring)[i] = Ring[i + 1]
  BY <1>1, <1>3, <1>5, HeadTailProperties
<1>9. \A i \in 1 .. count - 1 : Ring[i + 1] = items[Place(i)]
  BY <1>1 DEF Ring
<1>10. Ring' \in Seq(Messages) /\ Len(Ring') = count - 1
  <2>1. \A i \in 1 .. count - 1 : Ring[i + 1] \in Messages
    BY <1>1, <1>3
  <2>. QED BY <1>1, <1>7, <1>9, <2>1
<1>11. \A i \in 1 .. count - 1 : Ring'[i] = Tail(Ring)[i]
  BY <1>7, <1>8, <1>9
<1>. QED BY <1>2, <1>5, <1>8, <1>10, <1>11, SeqEqual

(* A step of the queue other than Enqueue, Dequeue, Published and Shutdown *)
(* is not seen from outside.                                               *)
LEMMA FifoFrame ==
  ASSUME UNCHANGED <<queueVars, sending>>,
         stage' = stage \/ {stage, stage'} \cap {"ended", "crashed"} = {}
  PROVE  UNCHANGED Fifo!fifoVars
BY DEF Fifo!fifoVars, queueVars, Place, Alive

LEMMA FifoStep ==
  ASSUME DaemonInv, DaemonInv', [DaemonNext]_allVars
  PROVE  [Fifo!Next]_(Fifo!fifoVars)
<1>0. TypeOK /\ RingInv /\ RingOK /\ PublisherOK /\ OutOfQueue
  BY DEF DaemonInv, RingInv
<1>1. CASE UNCHANGED allVars
  BY <1>1, FifoFrame DEF allVars, vars, daemonVars
<1>2. CASE Alive /\ Report
  BY <1>2, FifoFrame DEF Report, Publish, daemonVars
<1>3. CASE Alive /\ QueueStep
  <2>1. UNCHANGED stage /\ stage # "crashed" /\ Alive
    BY <1>3 DEF QueueStep, daemonVars, Alive
  <2>2. ASSUME NEW p \in Producers, EnqueueWait(p) \/ EnqueueFails(p)
        PROVE  UNCHANGED Fifo!fifoVars
    BY <2>1, <2>2, FifoFrame DEF EnqueueWait, EnqueueFails
  <2>3. ASSUME NEW p \in Producers, Enqueue(p) PROVE Fifo!Next
    <3>1. Ring' = Append(Ring, args[p]) /\ args[p] \in Messages
      BY <1>0, <2>3, EnqueueAppends
    <3>2. Len(Ring) < Capacity
      BY <1>0, <2>3, RingIsSeq, SendQueueAssumption DEF Enqueue, TypeOK
    <3>3. ~shutdown /\ shutdown' = shutdown /\ sending' = sending
          /\ pc[p] = "enter"
      BY <2>3 DEF Enqueue
    <3>4. stage # "ended"
      BY <3>3, NobodyLeft DEF DestroyedUnused
    <3>5. Fifo!Put(args[p])
      BY <2>1, <3>1, <3>2, <3>3, <3>4 DEF Fifo!Put, Ring, Alive
    <3>. QED BY <3>1, <3>5 DEF Fifo!Next
  <2>4. CASE DequeueWait \/ DequeueShutdown \/ SpuriousWakeup
    BY <2>1, <2>4, FifoFrame DEF DequeueWait, DequeueShutdown, SpuriousWakeup
  <2>5. CASE Dequeue
    <3>1. Ring # <<>> /\ sending' = Head(Ring) /\ Ring' = Tail(Ring)
      BY <1>0, <2>5, DequeueTakesHead
    <3>2. sending = Null /\ shutdown' = shutdown
      BY <1>0, <2>5 DEF PublisherOK, Dequeue
    <3>3. Fifo!Get
      BY <2>1, <3>1, <3>2 DEF Fifo!Get, Ring, Alive
    <3>. QED BY <3>3 DEF Fifo!Next
  <2>6. CASE Published
    <3>1. sending # Null /\ sending' = Null /\ UNCHANGED queueVars
      BY <1>0, <2>6 DEF PublisherOK, Published
    <3>2. Fifo!Sent
      BY <2>1, <3>1 DEF Fifo!Sent, Place, queueVars, Alive
    <3>. QED BY <3>2 DEF Fifo!Next
  <2>. QED
    BY <1>3, <2>2, <2>3, <2>4, <2>5, <2>6
    DEF QueueStep, ProducerStep, PublisherStep
<1>4. ASSUME NEW w \in Workers, Alive, Command(w)
      PROVE  UNCHANGED Fifo!fifoVars
  BY <1>4, FifoFrame DEF Command, vars
<1>5. ASSUME NEW w \in Workers, Alive, WorkerStep(w)
      PROVE  [Fifo!Next]_(Fifo!fifoVars)
  <2>1. CASE Fault(w)
    <3>1. UNCHANGED vars /\ stage' = "crashed" /\ stage # "crashed"
      BY <1>5, <2>1 DEF Fault, Alive
    <3>2. stage # "ended"
      BY <2>1, NobodyLeft DEF Fault, DestroyedUnused
    <3>3. Fifo!Die
      BY <3>1, <3>2 DEF Fifo!Die, Place, vars, queueVars, Alive
    <3>. QED BY <3>3 DEF Fifo!Next
  <2>2. CASE ~Fault(w)
    <3>1. UNCHANGED <<queueVars, sending, stage>>
      BY <1>5, <2>2
      DEF WorkerStep, Start, Exit, Answer, AnswerOn, Stopped, Finish, Says,
          Publish, vars
    <3>. QED BY <3>1, FifoFrame
  <2>. QED BY <2>1, <2>2
<1>6. CASE Alive /\ Signal
  <2>1. /\ UNCHANGED <<queueVars, sending>>
        /\ stage' = stage \/ (stage = "pause" /\ stage' = "test")
    BY <1>6 DEF Signal, vars
  <2>. QED BY <2>1, FifoFrame
<1>7. CASE Alive /\ MainStep
  <2>1. CASE CloseSendQueue
    <3>1. /\ ~shutdown /\ shutdown'
          /\ stage = "closed" /\ stage' = "shutdown"
          /\ UNCHANGED <<items, head, count, sending>>
      BY <2>1 DEF CloseSendQueue, Goes, Shutdown
    <3>2. Fifo!Close
      BY <3>1 DEF Fifo!Close, Place, Alive
    <3>. QED BY <3>2 DEF Fifo!Next
  <2>2. CASE DestroyQueues
    <3>1. /\ stage = "joined" /\ stage' = "ended" /\ sending' = sending
          /\ count' = 0
      BY <2>2 DEF DestroyQueues, Goes
    <3>2. count = 0 /\ shutdown
      BY <1>0, <3>1, NobodyLeft DEF DestroyedUnused, PublisherOK
    <3>3. Ring = <<>> /\ Ring' = <<>>
      BY <1>0, <3>1, <3>2, RingIsSeq DEF DaemonInv, RingInv, Ring
    <3>. QED BY <3>1, <3>2, <3>3 DEF Fifo!fifoVars, Ring, Alive
  <2>3. CASE ~CloseSendQueue /\ ~DestroyQueues
    <3>1. /\ UNCHANGED <<queueVars, sending>>
          /\ stage \notin {"ended", "crashed"}
          /\ stage' \notin {"ended", "crashed"}
      BY <1>7, <2>3
      DEF MainStep, Test, Pause, Announce, StopAll, Disconnect, Destroy,
          Unmap, CloseTaskQueues, JoinWorkers, JoinPublisher, Passes,
          MainSays, Goes, Publish, vars, Alive
    <3>. QED BY <3>1, FifoFrame
  <2>. QED BY <2>1, <2>2, <2>3
<1>. QED
  BY <1>1, <1>2, <1>3, <1>4, <1>5, <1>6, <1>7 DEF DaemonNext

(* mqtt_send_queue.c implements the FIFO, under every order in which main  *)
(* takes the daemon apart: for any capacity and any functions, what is     *)
(* published is what was queued, in its order and nothing twice.           *)
THEOREM FifoImplemented == DaemonSpec => Fifo!Safety
<1>1. DaemonInit => Fifo!Init
  <2>. SUFFICES ASSUME DaemonInit PROVE Fifo!Init
    OBVIOUS
  <2>1. /\ count = 0 /\ sending = Null /\ shutdown = FALSE
        /\ stage = "test"
    BY DEF DaemonInit, Init
  <2>2. Ring = <<>>
    BY <2>1, DaemonInitInv, RingIsSeq DEF DaemonInv, RingInv, Ring
  <2>. QED BY <2>1, <2>2 DEF Fifo!Init, Ring, Alive
<1>2. DaemonInv /\ DaemonInv' /\ [DaemonNext]_allVars
        => [Fifo!Next]_(Fifo!fifoVars)
  BY FifoStep
<1>. QED BY <1>1, <1>2, DaemonInvariant, PTL DEF DaemonSpec, Fifo!Safety
=============================================================================
