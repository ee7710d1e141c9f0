----------------------------- MODULE TaskQueue -----------------------------
(***************************************************************************)
(* task_queue.c: the one-slot queue between the mosquitto thread and a     *)
(* function thread, at the grain of its mutex and condition variable.      *)
(*                                                                         *)
(* The mutex is explicit: "owner" is the thread inside the critical        *)
(* section.  pthread_cond_wait releases it and joins the wait set in one   *)
(* step; a signal moves a waiter to the threads that want the mutex again; *)
(* a waiter may also wake up spuriously.                                   *)
(***************************************************************************)
CONSTANTS
  Producers,   \* threads that call task_queue_enqueue
  Worker,      \* the thread that calls task_queue_dequeue
  Closer,      \* the thread that calls task_queue_shutdown
  Items,       \* commands
  Empty,       \* queue->item.data == NULL
  Nobody       \* owner of a free mutex

Callers == Producers \cup {Worker, Closer}

ASSUME TaskQueueAssumption ==
  /\ Worker \notin Producers /\ Closer \notin Producers /\ Worker # Closer
  /\ Empty \notin Items
  /\ Nobody \notin Callers

VARIABLES
  full, item, shutdown,   \* the TaskQueue
  owner,                  \* thread holding queue->mutex
  pc,                     \* step of each thread
  given,                  \* item each producer is trying to enqueue
  buffer                  \* what task_queue_dequeue returned: Empty while
                          \* nothing, "shutdown" for -1

vars == <<full, item, shutdown, owner, pc, given, buffer>>

Init ==
  /\ full = FALSE /\ item = Empty /\ shutdown = FALSE
  /\ owner = Nobody
  /\ pc = [t \in Callers |-> "idle"]
  /\ given = [p \in Producers |-> Empty]
  /\ buffer = Empty

Goto(t, step) == pc' = [pc EXCEPT ![t] = step]

(* A call begins.  The worker calls again only when it has finished with   *)
(* what it got; main shuts the queue down once.                            *)
CallEnqueue(p, v) ==
  /\ pc[p] = "idle"
  /\ given' = [given EXCEPT ![p] = v]
  /\ Goto(p, "lock")
  /\ UNCHANGED <<full, item, shutdown, owner, buffer>>

CallDequeue ==
  /\ pc[Worker] = "idle" /\ buffer # "shutdown"
  /\ buffer' = Empty
  /\ Goto(Worker, "lock")
  /\ UNCHANGED <<full, item, shutdown, owner, given>>

CallShutdown ==
  /\ pc[Closer] = "idle" /\ ~shutdown
  /\ Goto(Closer, "lock")
  /\ UNCHANGED <<full, item, shutdown, owner, given, buffer>>

Lock(t) ==
  /\ pc[t] = "lock" /\ owner = Nobody
  /\ owner' = t
  /\ Goto(t, "locked")
  /\ UNCHANGED <<full, item, shutdown, given, buffer>>

(* pthread_cond_signal and _broadcast: there is only one possible waiter.  *)
WakeWorkerAnd(t, step) ==
  pc' = [pc EXCEPT ![t] = step,
                   ![Worker] = IF @ = "waiting" THEN "lock" ELSE @]

Return(t, step) == Goto(t, step) /\ owner' = Nobody

(* task_queue_enqueue refuses a second item, or has no memory for it.      *)
EnqueueFails(p) ==
  /\ pc[p] = "locked"
  /\ Return(p, "idle")
  /\ given' = [given EXCEPT ![p] = Empty]
  /\ UNCHANGED <<full, item, shutdown, buffer>>

(* Mutant of Enqueue: the item is the caller's own variable, not its data. *)
EnqueueOwnVariable(p) ==
  /\ pc[p] = "locked" /\ ~full
  /\ item' = p /\ full' = TRUE
  /\ given' = [given EXCEPT ![p] = Empty]
  /\ WakeWorkerAnd(p, "idle")
  /\ owner' = Nobody
  /\ UNCHANGED <<shutdown, buffer>>

(* Mutant of Enqueue: a full slot is overwritten.                          *)
EnqueueOver(p) ==
  /\ pc[p] = "locked"
  /\ item' = given[p] /\ full' = TRUE
  /\ given' = [given EXCEPT ![p] = Empty]
  /\ WakeWorkerAnd(p, "idle")
  /\ owner' = Nobody
  /\ UNCHANGED <<shutdown, buffer>>

(* It never looks at queue->shutdown.                                      *)
Enqueue(p) ==
  /\ pc[p] = "locked" /\ ~full
  /\ item' = given[p]
  /\ full' = TRUE
  /\ given' = [given EXCEPT ![p] = Empty]
  /\ WakeWorkerAnd(p, "idle")
  /\ owner' = Nobody
  /\ UNCHANGED <<shutdown, buffer>>

(* The while loop of task_queue_dequeue: nothing to do, wait.              *)
Wait ==
  /\ pc[Worker] = "locked" /\ ~full /\ ~shutdown
  /\ Return(Worker, "waiting")
  /\ UNCHANGED <<full, item, shutdown, given, buffer>>

SpuriousWakeup ==
  /\ pc[Worker] = "waiting"
  /\ Goto(Worker, "lock")
  /\ UNCHANGED <<full, item, shutdown, owner, given, buffer>>

DequeueShutdown ==
  /\ pc[Worker] = "locked" /\ shutdown
  /\ buffer' = "shutdown"
  /\ Return(Worker, "idle")
  /\ UNCHANGED <<full, item, shutdown, given>>

Dequeue ==
  /\ pc[Worker] = "locked" /\ full /\ ~shutdown
  /\ buffer' = item
  /\ item' = Empty
  /\ full' = FALSE
  /\ Return(Worker, "idle")
  /\ UNCHANGED <<shutdown, given>>

(* Mutant of Shutdown: nobody is woken.                                    *)
ShutdownSilent ==
  /\ pc[Closer] = "locked"
  /\ shutdown' = TRUE
  /\ Return(Closer, "idle")
  /\ UNCHANGED <<full, item, given, buffer>>

Shutdown ==
  /\ pc[Closer] = "locked"
  /\ shutdown' = TRUE
  /\ WakeWorkerAnd(Closer, "idle")
  /\ owner' = Nobody
  /\ UNCHANGED <<full, item, given, buffer>>

WorkerStep == Lock(Worker) \/ Wait \/ DequeueShutdown \/ Dequeue
ProducerStep(p) == Lock(p) \/ EnqueueFails(p) \/ Enqueue(p)
CloserStep == Lock(Closer) \/ Shutdown

Next ==
  \/ \E p \in Producers : (\E v \in Items : CallEnqueue(p, v)) \/ ProducerStep(p)
  \/ CallDequeue \/ WorkerStep \/ SpuriousWakeup
  \/ CallShutdown \/ CloserStep

Spec == Init /\ [][Next]_vars

(* A thread inside a call goes on with it, and gets a mutex that is free   *)
(* again and again.  The worker comes back for more; calls are otherwise   *)
(* not forced, and nothing is owed to spurious wake-ups.                   *)
Fairness ==
  /\ SF_vars(WorkerStep) /\ WF_vars(CallDequeue)
  /\ \A p \in Producers : SF_vars(ProducerStep(p))
  /\ SF_vars(CloserStep)

FairSpec == Spec /\ Fairness
-----------------------------------------------------------------------------
TypeOK ==
  /\ full \in BOOLEAN /\ shutdown \in BOOLEAN
  /\ item \in Items \cup {Empty}
  /\ owner \in Callers \cup {Nobody}
  /\ pc \in [Callers -> {"idle", "lock", "locked", "waiting"}]
  /\ given \in [Producers -> Items \cup {Empty}]
  /\ buffer \in Items \cup {Empty, "shutdown"}

(* No lost wake-up: a worker asleep in pthread_cond_wait has nothing to    *)
(* take and no shutdown to learn of.  So no signal was missed between its  *)
(* test of the condition and its wait.                                     *)
NoLostWakeup == pc[Worker] = "waiting" => ~full /\ ~shutdown

(* task_queue.c implements the mailbox: nothing put is lost, changed or    *)
(* taken twice, and the worker takes it or hears of the shutdown.          *)
Abstract == INSTANCE Mailbox WITH
  box <- item, open <- ~shutdown, taken <- buffer

ImplementsMailbox == Abstract!Spec
=============================================================================
