----------------------------- MODULE SendQueue -----------------------------
(***************************************************************************)
(* The outgoing MQTT messages: mqtt_publish_async (mqtt_publish.c), called *)
(* by the mosquitto thread, by every worker, by main and by the ADC        *)
(* producer and consumer, the ring buffer of mqtt_send_queue.c, and the    *)
(* publisher thread.                                                       *)
(*                                                                         *)
(* A thread inside the critical section runs it to its end or to a         *)
(* pthread_cond_wait, so each such stretch is one step.  A thread at       *)
(* "enter" wants the mutex; one at "waiting" is in the wait set of its     *)
(* condition variable.                                                     *)
(***************************************************************************)
EXTENDS Integers, FiniteSets

CONSTANTS
  Capacity,    \* SEND_QUEUE_MAX_ITEMS
  Producers,   \* threads that publish
  Messages,
  Null

(* There are far fewer threads than places in the queue (about a dozen     *)
(* against 128).                                                           *)
ASSUME SendQueueAssumption ==
  /\ Capacity \in Nat \ {0}
  /\ IsFiniteSet(Producers)
  /\ Cardinality(Producers) <= Capacity
  /\ Null \notin Messages

VARIABLES
  items, head, tail, count, shutdown,   \* the SendQueue
  pc,        \* step of each producer
  args,      \* the message a producer is queueing
  ppc,       \* step of the publisher thread
  sending    \* the message the publisher dequeued

queueVars == <<items, head, tail, count, shutdown>>
vars == <<queueVars, pc, args, ppc, sending>>

Places == 0 .. Capacity - 1
(* Mutant of After: the index does not wrap.                               *)
AfterUnwrapped(i) == i + 1

After(i) == (i + 1) % Capacity

Init ==
  /\ items = [i \in Places |-> Null]
  /\ head = 0 /\ tail = 0 /\ count = 0
  /\ shutdown = FALSE
  /\ pc = [p \in Producers |-> "idle"]
  /\ args = [p \in Producers |-> Null]
  /\ ppc = "enter"
  /\ sending = Null

Waiting == {p \in Producers : pc[p] = "waiting"}

(* mqtt_publish_async duplicates the strings and calls send_queue_enqueue. *)
(* When strdup fails nothing happens.                                      *)
Publish(p, m) ==
  /\ pc[p] = "idle"
  /\ pc' = [pc EXCEPT ![p] = "enter"]
  /\ args' = [args EXCEPT ![p] = m]
  /\ UNCHANGED <<queueVars, ppc, sending>>

EnqueueWait(p) ==
  /\ pc[p] = "enter" /\ count = Capacity /\ ~shutdown
  /\ pc' = [pc EXCEPT ![p] = "waiting"]
  /\ UNCHANGED <<queueVars, args, ppc, sending>>

Return(p) ==
  /\ pc' = [pc EXCEPT ![p] = "idle"]
  /\ args' = [args EXCEPT ![p] = Null]

(* The queue is shut down, or malloc fails: the message is dropped, and    *)
(* nobody is signalled.                                                    *)
EnqueueFails(p) ==
  /\ pc[p] = "enter" /\ (shutdown \/ count # Capacity)
  /\ Return(p)
  /\ UNCHANGED <<queueVars, ppc, sending>>

Enqueue(p) ==
  /\ pc[p] = "enter" /\ count # Capacity /\ ~shutdown
  /\ items' = [items EXCEPT ![tail] = args[p]]
  /\ tail' = After(tail)
  /\ count' = count + 1
  /\ ppc' = IF ppc = "waiting" THEN "enter" ELSE ppc   \* signal cond_nonempty
  /\ Return(p)
  /\ UNCHANGED <<head, shutdown, sending>>

DequeueWait ==
  /\ ppc = "enter" /\ count = 0 /\ ~shutdown
  /\ ppc' = "waiting"
  /\ UNCHANGED <<queueVars, pc, args, sending>>

(* pthread_cond_signal(&cond_nonfull): one of the waiting threads, if any. *)
SignalNonfull ==
  \/ Waiting = {} /\ pc' = pc
  \/ \E p \in Waiting : pc' = [pc EXCEPT ![p] = "enter"]

(* Mutant of Dequeue: the pointer stays in the ring.                       *)
DequeueKeepingItem ==
  /\ ppc = "enter" /\ count # 0
  /\ sending' = items[head]
  /\ head' = After(head) /\ count' = count - 1
  /\ SignalNonfull
  /\ ppc' = "publish"
  /\ UNCHANGED <<items, tail, shutdown, args>>

(* Mutant of Dequeue: no producer is signalled.                            *)
DequeueSilent ==
  /\ ppc = "enter" /\ count # 0
  /\ sending' = items[head]
  /\ items' = [items EXCEPT ![head] = Null]
  /\ head' = After(head) /\ count' = count - 1
  /\ ppc' = "publish"
  /\ UNCHANGED <<tail, shutdown, pc, args>>

Dequeue ==
  /\ ppc = "enter" /\ count # 0
  /\ sending' = items[head]
  /\ items' = [items EXCEPT ![head] = Null]
  /\ head' = After(head)
  /\ count' = count - 1
  /\ SignalNonfull
  /\ ppc' = "publish"
  /\ UNCHANGED <<tail, shutdown, args>>

(* Mutant of DequeueShutdown: the queue is not drained first.              *)
DequeueShutdownAtOnce ==
  /\ ppc = "enter" /\ shutdown
  /\ ppc' = "exited"
  /\ UNCHANGED <<queueVars, pc, args, sending>>

DequeueShutdown ==
  /\ ppc = "enter" /\ count = 0 /\ shutdown
  /\ ppc' = "exited"
  /\ UNCHANGED <<queueVars, pc, args, sending>>

(* mosquitto_publish, outside the critical section, then the strings are   *)
(* freed.                                                                  *)
Published ==
  /\ ppc = "publish"
  /\ ppc' = "enter" /\ sending' = Null
  /\ UNCHANGED <<queueVars, pc, args>>

(* Mutant of Shutdown: the publisher is not woken.                         *)
ShutdownForProducers ==
  /\ ~shutdown
  /\ shutdown' = TRUE
  /\ pc' = [p \in Producers |-> IF pc[p] = "waiting" THEN "enter" ELSE pc[p]]
  /\ UNCHANGED <<items, head, tail, count, args, ppc, sending>>

(* send_queue_shutdown wakes everybody up.                                 *)
Shutdown ==
  /\ ~shutdown
  /\ shutdown' = TRUE
  /\ pc' = [p \in Producers |-> IF pc[p] = "waiting" THEN "enter" ELSE pc[p]]
  /\ ppc' = IF ppc = "waiting" THEN "enter" ELSE ppc
  /\ UNCHANGED <<items, head, tail, count, args, sending>>

SpuriousWakeup ==
  \/ /\ \E p \in Waiting : pc' = [pc EXCEPT ![p] = "enter"]
     /\ UNCHANGED <<queueVars, args, ppc, sending>>
  \/ /\ ppc = "waiting" /\ ppc' = "enter"
     /\ UNCHANGED <<queueVars, pc, args, sending>>

ProducerStep(p) == EnqueueWait(p) \/ EnqueueFails(p) \/ Enqueue(p)
PublisherStep == DequeueWait \/ Dequeue \/ DequeueShutdown \/ Published

Next ==
  \/ \E p \in Producers : (\E m \in Messages : Publish(p, m)) \/ ProducerStep(p)
  \/ PublisherStep \/ Shutdown \/ SpuriousWakeup

Spec == Init /\ [][Next]_vars
-----------------------------------------------------------------------------
TypeOK ==
  /\ items \in [Places -> Messages \cup {Null}]
  /\ head \in Places /\ tail \in Places
  /\ count \in 0 .. Capacity
  /\ shutdown \in BOOLEAN
  /\ pc \in [Producers -> {"idle", "enter", "waiting"}]
  /\ args \in [Producers -> Messages \cup {Null}]
  /\ ppc \in {"enter", "waiting", "publish", "exited"}
  /\ sending \in Messages \cup {Null}

(* The place of the i-th oldest message, i from 0.                         *)
Place(i) == IF head + i < Capacity THEN head + i ELSE head + i - Capacity

(* The ring is sound: tail is count places after head, the count places    *)
(* from head hold messages and all others are empty, so an enqueue never   *)
(* overwrites a queued message, a dequeue never reads an empty place and   *)
(* destroy frees exactly what is left.                                     *)
RingOK ==
  /\ count < Capacity => tail = Place(count)
  /\ count = Capacity => tail = head
  /\ \A i \in Places : (items[Place(i)] # Null) <=> (i < count)

(* No lost wake-up on either side: a sleeping publisher has nothing to do, *)
(* and for every producer asleep on a full queue there is a queued message *)
(* whose dequeue will signal one, although a producer that is woken and    *)
(* then fails to allocate does not pass the signal on.                     *)
NoLostWakeup ==
  /\ ppc = "waiting" => count = 0 /\ ~shutdown
  /\ Waiting # {} => ~shutdown
  /\ Cardinality(Waiting) <= count
=============================================================================
