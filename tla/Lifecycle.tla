----------------------------- MODULE Lifecycle -----------------------------
(***************************************************************************)
(* The daemon from "Ready" to its end: main (main.c), the mosquitto        *)
(* network thread and the function threads, all of them publishing through *)
(* the send queue and its publisher thread (SendQueue), and the order in   *)
(* which main takes client, memory, queues and threads away after SIGINT.  *)
(*                                                                         *)
(* A command is its thread's flag, its place in the task queue and a       *)
(* "job"; who owns what in between is module CommandTask.                  *)
(***************************************************************************)
EXTENDS SendQueue, Sequences

CONSTANTS
  Main,      \* the main thread
  Net,       \* the mosquitto network thread
  Text       \* what each thread says: texts are told apart by the speaker

Workers == Producers \ {Main, Net}

ASSUME LifecycleAssumption ==
  /\ {Main, Net} \subseteq Producers /\ Main # Net
  /\ Text \in [Producers -> Messages]

VARIABLES
  stage,        \* where main is
  keepRunning,
  running,      \* the functions' running flags
  queued,       \* the task queues' full flags
  job           \* step of each function thread

daemonVars == <<stage, keepRunning, running, queued, job>>
allVars == <<vars, daemonVars>>

(* What main does, in this order; each stage is named for what is done.    *)
Stages == <<"test", "tested", "pause", "announced", "stopped",
            "disconnected", "destroyed", "unmapped", "closed", "shutdown",
            "workersJoined", "joined", "ended">>

Reached(s) == \E i, j \in DOMAIN Stages :
                i <= j /\ Stages[i] = s /\ Stages[j] = stage

Alive == stage # "crashed"

DaemonInit ==
  /\ Init
  /\ stage = "test" /\ keepRunning = TRUE
  /\ running = [w \in Workers |-> FALSE]
  /\ queued = [w \in Workers |-> FALSE]
  /\ job = [w \in Workers |-> "wait"]
-----------------------------------------------------------------------------
(***************************************************************************)
(* The network thread: a handler runs, its enqueue included, before the    *)
(* thread looks at the connection again.                                   *)
(***************************************************************************)
Listening == ~Reached("disconnected") /\ pc[Net] = "idle"

Command(w) ==
  /\ Listening /\ ~running[w] /\ ~queued[w]
  /\ running' = [running EXCEPT ![w] = TRUE]
  /\ queued' = [queued EXCEPT ![w] = TRUE]
  /\ UNCHANGED <<vars, stage, keepRunning, job>>

(* A busy function, a message that is not valid, no memory, a full queue.  *)
Report ==
  /\ Listening
  /\ Publish(Net, Text[Net])
  /\ UNCHANGED daemonVars
-----------------------------------------------------------------------------
(***************************************************************************)
(* A function thread reports the mode it is in, works, answers, clears its *)
(* flag and reports the end.  In a trigger mode it answers until stopped.  *)
(***************************************************************************)
Says(w, from, to) ==
  /\ job[w] = from /\ pc[w] = "idle"
  /\ job' = [job EXCEPT ![w] = to]
  /\ Publish(w, Text[w])

Start(w) ==
  /\ queued[w] /\ ~Reached("closed")
  /\ \E to \in {"once", "endless"} : Says(w, "wait", to)
  /\ queued' = [queued EXCEPT ![w] = FALSE]
  /\ UNCHANGED <<stage, keepRunning, running>>

(* task_queue_dequeue fails after the shutdown, although a command waits.  *)
Exit(w) ==
  /\ job[w] = "wait" /\ pc[w] = "idle" /\ Reached("closed")
  /\ job' = [job EXCEPT ![w] = "exited"]
  /\ UNCHANGED <<vars, stage, keepRunning, running, queued>>

(* A single answer, or the report of a time-out.                           *)
Answer(w) ==
  /\ ~Reached("unmapped")
  /\ Says(w, "once", "done")
  /\ UNCHANGED <<stage, keepRunning, running, queued>>

(* One answer of a trigger mode, or of an acquisition in batches.          *)
AnswerOn(w) ==
  /\ ~Reached("unmapped") /\ running[w]
  /\ Says(w, "endless", "endless")
  /\ UNCHANGED <<stage, keepRunning, running, queued>>

Stopped(w) ==
  /\ ~Reached("unmapped") /\ ~running[w]
  /\ \E mode \in {"once", "endless"} : Says(w, mode, "done")
  /\ UNCHANGED <<stage, keepRunning, running, queued>>

Finish(w) ==
  /\ Says(w, "done", "wait")
  /\ running' = [running EXCEPT ![w] = FALSE]
  /\ UNCHANGED <<stage, keepRunning, queued>>

(* Work on shared memory that is no longer mapped kills the process.       *)
Fault(w) ==
  /\ Reached("unmapped") /\ job[w] \in {"once", "endless"} /\ pc[w] = "idle"
  /\ stage' = "crashed"
  /\ UNCHANGED <<vars, keepRunning, running, queued, job>>

WorkerStep(w) ==
  \/ Start(w) \/ Exit(w) \/ Answer(w) \/ AnswerOn(w) \/ Stopped(w)
  \/ Finish(w) \/ Fault(w)
-----------------------------------------------------------------------------
(***************************************************************************)
(* Main.                                                                   *)
(***************************************************************************)
Goes(from, to) ==
  /\ stage = from /\ pc[Main] = "idle"
  /\ stage' = to

Passes(from, to) ==
  /\ Goes(from, to)
  /\ UNCHANGED <<vars, keepRunning, running, queued, job>>

MainSays(from, to) ==
  /\ Goes(from, to)
  /\ Publish(Main, Text[Main])
  /\ UNCHANGED <<keepRunning, running, queued, job>>

(* while (keep_running) pause(): the test and the call are two steps.      *)
Test == keepRunning /\ Passes("test", "tested")

Pause == Passes("tested", "pause")

(* handle_signal; a pause that has begun returns.                          *)
Signal ==
  /\ keepRunning \/ stage = "pause"
  /\ keepRunning' = FALSE
  /\ stage' = IF stage = "pause" THEN "test" ELSE stage
  /\ UNCHANGED <<vars, running, queued, job>>

Announce == ~keepRunning /\ MainSays("test", "announced")

(* task_all_stop.                                                          *)
StopAll ==
  /\ Goes("announced", "stopped")
  /\ running' = [w \in Workers |-> FALSE]
  /\ UNCHANGED <<vars, keepRunning, queued, job>>

(* mosquitto_disconnect: no message is received any more.                  *)
Disconnect == Passes("stopped", "disconnected")

(* mosquitto_loop_stop joins the network thread, then mosquitto_destroy.   *)
Destroy ==
  /\ pc[Net] = "idle"
  /\ Passes("disconnected", "destroyed")

(* prus_off and unmap_memory.                                              *)
Unmap == Passes("destroyed", "unmapped")

(* task_queue_shutdown of every queue.                                     *)
CloseTaskQueues == Passes("unmapped", "closed")

(* send_queue_shutdown.                                                    *)
CloseSendQueue ==
  /\ Goes("closed", "shutdown")
  /\ Shutdown
  /\ UNCHANGED <<keepRunning, running, queued, job>>

JoinWorkers ==
  /\ \A w \in Workers : job[w] = "exited"
  /\ Passes("shutdown", "workersJoined")

(* Mutant of JoinPublisher: mqtt_publish_thread is missing in the joins.   *)
JoinPublisherNot == Passes("workersJoined", "joined")

JoinPublisher ==
  /\ ppc = "exited"
  /\ Passes("workersJoined", "joined")

(* task_queue_destroy of every queue and send_queue_destroy.               *)
DestroyQueues ==
  /\ Goes("joined", "ended")
  /\ items' = [i \in Places |-> Null]
  /\ head' = 0 /\ tail' = 0 /\ count' = 0 /\ shutdown' = FALSE
  /\ queued' = [w \in Workers |-> FALSE]
  /\ UNCHANGED <<pc, args, ppc, sending, keepRunning, running, job>>

MainStep ==
  \/ Test \/ Pause \/ Announce \/ StopAll \/ Disconnect \/ Destroy
  \/ Unmap \/ CloseTaskQueues \/ CloseSendQueue \/ JoinWorkers
  \/ JoinPublisher \/ DestroyQueues

(* The steps of the send queue's callers and of its publisher.             *)
QueueStep ==
  /\ \/ \E p \in Producers : ProducerStep(p)
     \/ PublisherStep \/ SpuriousWakeup
  /\ UNCHANGED daemonVars

DaemonNext ==
  /\ Alive
  /\ \/ Report \/ Signal \/ MainStep \/ QueueStep
     \/ \E w \in Workers : Command(w) \/ WorkerStep(w)

(* Threads that can run do run and mosquitto_publish returns.  A thread    *)
(* that finds room again and again gets a place, and one that waits is     *)
(* signalled in its turn: glibc wakes older waiters first.  Nobody has to  *)
(* send a command or a signal, and a trigger need not come.                *)
Fairness ==
  /\ WF_allVars(Alive /\ MainStep)
  /\ \A p \in Producers :
       /\ SF_allVars(/\ Alive /\ (Enqueue(p) \/ EnqueueFails(p))
                     /\ UNCHANGED daemonVars)
       /\ SF_allVars(/\ Alive /\ Dequeue /\ pc'[p] # pc[p]
                     /\ UNCHANGED daemonVars)
  /\ WF_allVars(Alive /\ PublisherStep /\ UNCHANGED daemonVars)
  /\ \A w \in Workers : WF_allVars(Alive /\ (WorkerStep(w) /\ ~AnswerOn(w)))

DaemonSpec == DaemonInit /\ [][DaemonNext]_allVars /\ Fairness
-----------------------------------------------------------------------------
(* Whatever main has taken away by then, the network thread blocked on a   *)
(* full queue included, the publisher hands over what is queued, in its    *)
(* order and nothing twice; the ring, its wait sets and the publisher are  *)
(* a bounded FIFO from "Ready" to send_queue_destroy or the crash.         *)
Fifo == INSTANCE BoundedFifo WITH
  queue  <- [i \in 1 .. count |-> items[Place(i - 1)]],
  closed <- shutdown \/ stage = "ended",
  dead   <- ~Alive

ImplementsFifo == Fifo!Spec

(* The queue's mutex and condition variables are destroyed when no thread  *)
(* is inside, none can come any more, and nothing is left to be published. *)
DestroyedUnused ==
  stage \in {"joined", "ended"} =>
    /\ count = 0 /\ sending = Null /\ ppc = "exited"
    /\ \A p \in Producers : pc[p] = "idle"
    /\ \A w \in Workers : job[w] = "exited"

(* After SIGINT the process comes to its end, although main itself, the    *)
(* network thread and the functions may then block on a full queue: unless *)
(* the signal fell between the test of keep_running and pause.             *)
DaemonEnds ==
  (~keepRunning /\ stage \notin {"tested", "pause"})
    ~> stage \in {"ended", "crashed"}

(* Refuted: a SIGINT after the test of keep_running, before pause, leaves  *)
(* main in pause until the next signal.                                    *)
SigintEnds == ~keepRunning ~> stage \in {"ended", "crashed"}

(* Refuted: the publisher hands messages to a client already destroyed.    *)
ClientOutlives ==
  ppc = "publish" => ~Reached("destroyed")
=============================================================================
