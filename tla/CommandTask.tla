---------------------------- MODULE CommandTask ----------------------------
(***************************************************************************)
(* How a command travels through the BBRemoteIO daemon, and how it is      *)
(* stopped.                                                                *)
(*                                                                         *)
(* The mosquitto network thread (mqtt_callback.c) accepts a command for a  *)
(* function thread: it tests the function's "running" flag, sets it,       *)
(* builds the command's data block and puts it in the function's one-slot  *)
(* TaskQueue.  The function thread (gpio_input.c, gpio_output_get.c, ...)  *)
(* takes it, works until it is done, times out or sees its flag FALSE,     *)
(* clears the flag and frees the block.  The system thread (system.c)      *)
(* serves "stop" commands by clearing the flags of other threads, and main *)
(* (main.c) clears all of them before it shuts the daemon down.            *)
(*                                                                         *)
(* Every critical section is one step; what a thread does between two of   *)
(* them touches only data of its own and is folded into a neighbour.  The  *)
(* inside of the TaskQueue is module TaskQueue, the exchange with the PRUs *)
(* during "work" is modelled by PruGet and PruSet.                          *)
(***************************************************************************)
EXTENDS Naturals, Sequences

CONSTANTS
  Tasks,      \* function threads: adc, gpio_input, gpio_output_get, ...
  System,     \* the system thread
  Rearming,   \* threads that set their own flag after dequeue (gpio_output_*)
  Spawning,   \* threads that create helper threads for each command (adc)
  Endless,    \* threads with a trigger mode, which ends only when stopped
  Blocks,     \* addresses malloc can return for a command's data
  None,       \* the null pointer
  StopOrder   \* order in which the flags of all functions are cleared

Threads == Tasks \cup {System}

ASSUME CommandTaskAssumption ==
  /\ System \notin Tasks
  /\ Rearming \subseteq Tasks
  /\ Spawning \subseteq Tasks
  /\ Endless \subseteq Tasks
  /\ None \notin Blocks
  /\ StopOrder \in Seq(Tasks)

VARIABLES
  running,    \* the <function>_running flags
  slot,       \* the block in each TaskQueue, None when it is not full
  closed,     \* the TaskQueues' shutdown flags
  heap,       \* blocks now allocated
  payload,    \* what an allocated block holds
  hpc, htask, hblk,   \* mosquitto thread: step, function served, its block
  wpc, wblk,          \* each worker: step and the block it works on
  stopList,   \* flags the system thread has still to clear
  mpc, mlist, \* main thread: step and the threads left in its current loop
  disturbed   \* history: threads stopped while they had a command pending

handlerVars == <<hpc, htask, hblk>>
workerVars  == <<wpc, wblk, stopList>>
mainVars    == <<mpc, mlist>>
vars == <<running, slot, closed, heap, payload, handlerVars, workerVars,
          mainVars, disturbed>>

Payload  == [endless : BOOLEAN, targets : Seq(Tasks)]
NoData   == [endless |-> FALSE, targets |-> <<>>]

(* Mutant of Commands: "stop all" names the system thread as well.         *)
CommandsStoppingItself(t) ==
  IF t = System
  THEN {[endless |-> FALSE, targets |-> Append(StopOrder, System)]}
  ELSE {[endless |-> FALSE, targets |-> <<>>]}

(* The commands the validator lets through for thread t.  A system command *)
(* stops one function or all of them; one for a PRU or the LCD stops none. *)
Commands(t) ==
  IF t = System
  THEN {[endless |-> FALSE, targets |-> s] :
           s \in {<<u>> : u \in Tasks} \cup {StopOrder, <<>>}}
  ELSE {[endless |-> e, targets |-> <<>>] :
           e \in {FALSE} \cup (IF t \in Endless THEN {TRUE} ELSE {})}

Holding == {"alloc", "built", "enqueue", "giveup"}
Busy    == {"arm", "work", "done", "stopped", "orphaned", "dead"}

(* The thread function has returned: at the shutdown of its queue, or on   *)
(* the way, with ("orphaned") or without ("dead") a helper still running.  *)
Returned == {"exited", "orphaned", "dead"}

(* Thread t has a command between the moment its flag is set for it and    *)
(* the moment the flag is cleared for it: in the handler, in the queue, or *)
(* in the worker.  A worker that died on the way keeps it for ever.        *)
InHandler(t) == hpc \in Holding /\ htask = t
InSlot(t)    == slot[t] # None
InWorker(t)  == wpc[t] \in Busy
Pending(t)   == InHandler(t) \/ InSlot(t) \/ InWorker(t)

Alive    == mpc # "crashed"
Mapped   == mpc \in {"run", "stopping", "sleep", "netdown"}
Listening == mpc \in {"run", "stopping", "sleep"}

Init ==
  /\ running = [t \in Threads |-> FALSE]
  /\ slot    = [t \in Threads |-> None]
  /\ closed  = [t \in Threads |-> FALSE]
  /\ heap    = {}
  /\ payload = [b \in Blocks |-> NoData]
  /\ hpc = "idle" /\ htask = System /\ hblk = None
  /\ wpc  = [t \in Threads |-> "wait"]
  /\ wblk = [t \in Threads |-> None]
  /\ stopList = <<>>
  /\ mpc = "run" /\ mlist = <<>>
  /\ disturbed = {}
-----------------------------------------------------------------------------
(***************************************************************************)
(* The mosquitto thread: one handle_<function>_command at a time.          *)
(***************************************************************************)

(* Mutant of Receive: the busy test is missing.                            *)
ReceiveUnchecked(t) ==
  /\ hpc = "idle" /\ Listening
  /\ hpc' = "claim" /\ htask' = t
  /\ UNCHANGED <<running, slot, closed, heap, payload, hblk, workerVars,
                 mainVars, disturbed>>

(* A message arrives and is_running finds the flag FALSE.  When it is TRUE *)
(* the handler only reports BUSY, which leaves this state unchanged.       *)
Receive(t) ==
  /\ hpc = "idle" /\ Listening
  /\ ~running[t]
  /\ hpc' = "claim" /\ htask' = t
  /\ UNCHANGED <<running, slot, closed, heap, payload, hblk, workerVars,
                 mainVars, disturbed>>

(* set_running(TASK_RUNNING), in a critical section of its own.            *)
Claim ==
  /\ hpc = "claim"
  /\ running' = [running EXCEPT ![htask] = TRUE]
  /\ hpc' = "alloc"
  /\ UNCHANGED <<slot, closed, heap, payload, htask, hblk, workerVars,
                 mainVars, disturbed>>

(* malloc of the data block: an address that is free, or NULL.             *)
Alloc ==
  /\ hpc = "alloc"
  /\ \/ \E b \in Blocks \ heap :
          /\ heap' = heap \cup {b} /\ hblk' = b
          /\ hpc' = "built"
     \/ /\ hpc' = "giveup"
        /\ UNCHANGED <<heap, hblk>>
  /\ UNCHANGED <<running, slot, closed, payload, htask, workerVars, mainVars,
                 disturbed>>

FreeHandlerBlock ==
  /\ heap' = heap \ {hblk}
  /\ payload' = [payload EXCEPT ![hblk] = NoData]
  /\ hblk' = None

(* The message is validated into the block; an invalid one, or no memory   *)
(* for the thread arguments, frees it.                                     *)
Validate ==
  /\ hpc = "built"
  /\ \/ /\ \E c \in Commands(htask) : payload' = [payload EXCEPT ![hblk] = c]
        /\ hpc' = "enqueue"
        /\ UNCHANGED <<heap, hblk>>
     \/ /\ FreeHandlerBlock
        /\ hpc' = "giveup"
  /\ UNCHANGED <<running, slot, closed, htask, workerVars, mainVars,
                 disturbed>>

(* task_queue_enqueue: the block now belongs to the queue.  It looks at    *)
(* "full" only, never at the queue's shutdown flag.                        *)
Enqueue ==
  /\ hpc = "enqueue" /\ slot[htask] = None
  /\ slot' = [slot EXCEPT ![htask] = hblk]
  /\ hblk' = None
  /\ hpc' = "idle"
  /\ UNCHANGED <<running, closed, heap, payload, htask, workerVars, mainVars,
                 disturbed>>

(* Mutant of EnqueueFails: the block is not freed.                         *)
EnqueueFailsLeaking ==
  /\ hpc = "enqueue"
  /\ hblk' = None /\ hpc' = "giveup"
  /\ UNCHANGED <<running, slot, closed, heap, payload, htask, workerVars,
                 mainVars, disturbed>>

(* The queue is full, or malloc of its copy fails: the block is freed.     *)
EnqueueFails ==
  /\ hpc = "enqueue"
  /\ FreeHandlerBlock
  /\ hpc' = "giveup"
  /\ UNCHANGED <<running, slot, closed, htask, workerVars, mainVars,
                 disturbed>>

(* A thread with no command pending any more is undisturbed again.         *)
Settle(t, stillPending) ==
  disturbed' = IF stillPending THEN disturbed ELSE disturbed \ {t}

(* Mutant of GiveUp: the flag is left set.                                 *)
GiveUpBusy ==
  /\ hpc = "giveup" /\ hpc' = "idle"
  /\ Settle(htask, InSlot(htask) \/ InWorker(htask))
  /\ UNCHANGED <<running, slot, closed, heap, payload, htask, hblk,
                 workerVars, mainVars>>

(* The error paths end with set_running(TASK_STOPPED).                     *)
GiveUp ==
  /\ hpc = "giveup"
  /\ running' = [running EXCEPT ![htask] = FALSE]
  /\ hpc' = "idle"
  /\ Settle(htask, InSlot(htask) \/ InWorker(htask))
  /\ UNCHANGED <<slot, closed, heap, payload, htask, hblk, workerVars,
                 mainVars>>

Handler ==
  \/ \E t \in Threads : Receive(t)
  \/ Claim \/ Alloc \/ Validate \/ Enqueue \/ EnqueueFails \/ GiveUp
-----------------------------------------------------------------------------
(***************************************************************************)
(* The worker threads.                                                     *)
(***************************************************************************)

(* Mutant of Dequeue: a command stopped in the queue is not taken.         *)
DequeueIfRunning(t) ==
  /\ wpc[t] = "wait" /\ ~closed[t] /\ slot[t] # None /\ running[t]
  /\ wblk' = [wblk EXCEPT ![t] = slot[t]]
  /\ slot' = [slot EXCEPT ![t] = None]
  /\ wpc' = [wpc EXCEPT ![t] = IF t \in Rearming THEN "arm" ELSE "work"]
  /\ stopList' = IF t = System THEN payload[slot[t]].targets ELSE stopList
  /\ UNCHANGED <<running, closed, heap, payload, handlerVars, mainVars,
                 disturbed>>

(* task_queue_dequeue of an open, full queue.                              *)
Dequeue(t) ==
  /\ wpc[t] = "wait" /\ ~closed[t] /\ slot[t] # None
  /\ wblk' = [wblk EXCEPT ![t] = slot[t]]
  /\ slot' = [slot EXCEPT ![t] = None]
  /\ wpc' = [wpc EXCEPT ![t] = IF t \in Rearming THEN "arm" ELSE "work"]
  /\ stopList' = IF t = System THEN payload[slot[t]].targets ELSE stopList
  /\ UNCHANGED <<running, closed, heap, payload, handlerVars, mainVars,
                 disturbed>>

(* Mutant of Exit: the thread leaves only when its queue is empty.         *)
ExitWhenEmpty(t) ==
  /\ wpc[t] = "wait" /\ closed[t] /\ slot[t] = None
  /\ wpc' = [wpc EXCEPT ![t] = "exited"]
  /\ UNCHANGED <<running, slot, closed, heap, payload, handlerVars, wblk,
                 stopList, mainVars, disturbed>>

(* task_queue_dequeue of a queue shut down: -1, full or not; the thread    *)
(* returns and a command left in the queue is never served.                *)
Exit(t) ==
  /\ wpc[t] = "wait" /\ closed[t]
  /\ wpc' = [wpc EXCEPT ![t] = "exited"]
  /\ UNCHANGED <<running, slot, closed, heap, payload, handlerVars, wblk,
                 stopList, mainVars, disturbed>>

(* gpio_output_get and gpio_output_set set their flag once more.           *)
Rearm(t) ==
  /\ wpc[t] = "arm"
  /\ running' = [running EXCEPT ![t] = TRUE]
  /\ wpc' = [wpc EXCEPT ![t] = "work"]
  /\ UNCHANGED <<slot, closed, heap, payload, handlerVars, wblk, stopList,
                 mainVars, disturbed>>

(* The wait loop ends with data or with its time-out.  A command in a      *)
(* trigger mode may instead go on for as long as the PRU answers.          *)
WorkDone(t) ==
  /\ t \in Tasks /\ Mapped
  /\ wpc[t] = "work"
  /\ wpc' = [wpc EXCEPT ![t] = "done"]
  /\ UNCHANGED <<running, slot, closed, heap, payload, handlerVars, wblk,
                 stopList, mainVars, disturbed>>

(* pthread_create of the ADC producer or consumer fails: the ADC thread    *)
(* returns at once, its flag still TRUE and its command never freed.  When *)
(* it is the consumer's, the producer is already running and goes on.      *)
SpawnFails(t) ==
  /\ t \in Spawning
  /\ wpc[t] = "work"
  /\ \E s \in {"dead", "orphaned"} : wpc' = [wpc EXCEPT ![t] = s]
  /\ UNCHANGED <<running, slot, closed, heap, payload, handlerVars, wblk,
                 stopList, mainVars, disturbed>>

(* The orphaned producer is done, times out or finds the flag FALSE; it    *)
(* neither clears the flag nor frees the command.                          *)
OrphanEnds(t) ==
  /\ wpc[t] = "orphaned" /\ Mapped
  /\ wpc' = [wpc EXCEPT ![t] = "dead"]
  /\ UNCHANGED <<running, slot, closed, heap, payload, handlerVars, wblk,
                 stopList, mainVars, disturbed>>

(* The wait loop reads the running flag and finds it FALSE.                *)
WorkStopped(t) ==
  /\ t \in Tasks /\ Mapped
  /\ wpc[t] = "work" /\ ~running[t]
  /\ wpc' = [wpc EXCEPT ![t] = "stopped"]
  /\ UNCHANGED <<running, slot, closed, heap, payload, handlerVars, wblk,
                 stopList, mainVars, disturbed>>

(* After unmap_memory the first access to shared memory kills the process. *)
(* An orphaned producer reads its arguments from the stack of a thread     *)
(* that has returned, so it may do so at any time before the process ends. *)
Fault(t) ==
  /\ t \in Tasks
  /\ \/ wpc[t] = "work" /\ ~Mapped
     \/ wpc[t] = "orphaned" /\ mpc # "destroyed"
  /\ mpc' = "crashed"
  /\ UNCHANGED <<running, slot, closed, heap, payload, handlerVars,
                 workerVars, mlist, disturbed>>

(* A flag of thread t is cleared by a stop.                                *)
Stop(t) ==
  /\ running' = [running EXCEPT ![t] = FALSE]
  /\ disturbed' = IF Pending(t) THEN disturbed \cup {t} ELSE disturbed

(* The system thread clears the flags named by its command, one critical   *)
(* section each.                                                           *)
SystemStop ==
  /\ wpc[System] = "work" /\ stopList # <<>>
  /\ Stop(Head(stopList))
  /\ stopList' = Tail(stopList)
  /\ UNCHANGED <<slot, closed, heap, payload, handlerVars, wpc, wblk,
                 mainVars>>

SystemDone ==
  /\ wpc[System] = "work" /\ stopList = <<>>
  /\ wpc' = [wpc EXCEPT ![System] = "done"]
  /\ UNCHANGED <<running, slot, closed, heap, payload, handlerVars, wblk,
                 stopList, mainVars, disturbed>>

(* The worker clears its flag ...                                          *)
Clear(t) ==
  /\ wpc[t] \in {"done", "stopped"}
  /\ running' = [running EXCEPT ![t] = FALSE]
  /\ wpc' = [wpc EXCEPT ![t] = "free"]
  /\ Settle(t, InSlot(t) \/ InHandler(t))
  /\ UNCHANGED <<slot, closed, heap, payload, handlerVars, wblk, stopList,
                 mainVars>>

(* ... and only then frees the command.                                    *)
Free(t) ==
  /\ wpc[t] = "free"
  /\ heap' = heap \ {wblk[t]}
  /\ payload' = [payload EXCEPT ![wblk[t]] = NoData]
  /\ wblk' = [wblk EXCEPT ![t] = None]
  /\ wpc' = [wpc EXCEPT ![t] = "wait"]
  /\ UNCHANGED <<running, slot, closed, handlerVars, stopList, mainVars,
                 disturbed>>

WorkerStep(t) ==
  \/ Dequeue(t) \/ Exit(t) \/ Rearm(t) \/ WorkDone(t) \/ WorkStopped(t)
  \/ SpawnFails(t) \/ OrphanEnds(t) \/ Fault(t) \/ Clear(t) \/ Free(t)

Worker == (\E t \in Threads : WorkerStep(t)) \/ SystemStop \/ SystemDone
-----------------------------------------------------------------------------
(***************************************************************************)
(* The main thread after SIGINT.                                           *)
(***************************************************************************)
AllThreads == Append(StopOrder, System)

Signal ==
  /\ mpc = "run"
  /\ mpc' = "stopping" /\ mlist' = AllThreads
  /\ UNCHANGED <<running, slot, closed, heap, payload, handlerVars,
                 workerVars, disturbed>>

(* task_all_stop, one flag at a time; then the display says "Tasks finish" *)
MainStop ==
  /\ mpc = "stopping" /\ mlist # <<>>
  /\ Stop(Head(mlist))
  /\ mlist' = Tail(mlist)
  /\ mpc' = IF Tail(mlist) = <<>> THEN "sleep" ELSE mpc
  /\ UNCHANGED <<slot, closed, heap, payload, handlerVars, workerVars>>

(* After sleep(TASK_FINISH_TIME), mosquitto_disconnect: no message is      *)
(* received any more.                                                      *)
Disconnect ==
  /\ mpc = "sleep"
  /\ mpc' = "netdown"
  /\ UNCHANGED <<running, slot, closed, heap, payload, handlerVars,
                 workerVars, mlist, disturbed>>

(* mosquitto_loop_stop joins the network thread; then the PRUs are turned  *)
(* off and the shared memory is unmapped.                                  *)
Unmap ==
  /\ mpc = "netdown" /\ hpc = "idle"
  /\ mpc' = "closing" /\ mlist' = AllThreads
  /\ UNCHANGED <<running, slot, closed, heap, payload, handlerVars,
                 workerVars, disturbed>>

(* task_all_queue_shutdown, one queue at a time.                           *)
CloseQueue ==
  /\ mpc = "closing" /\ mlist # <<>>
  /\ closed' = [closed EXCEPT ![Head(mlist)] = TRUE]
  /\ mlist' = Tail(mlist)
  /\ mpc' = IF Tail(mlist) = <<>> THEN "join" ELSE mpc
  /\ UNCHANGED <<running, slot, heap, payload, handlerVars, workerVars,
                 disturbed>>

(* task_all_pthread_join, then task_all_queue_destroy: a queue forgets the *)
(* command it still holds, whose data block is not freed.                  *)
Join ==
  /\ mpc = "join"
  /\ \A t \in Threads : wpc[t] \in Returned
  /\ mpc' = "destroyed"
  /\ slot' = [t \in Threads |-> None]
  /\ UNCHANGED <<running, closed, heap, payload, handlerVars, workerVars,
                 mlist, disturbed>>

MainStep == MainStop \/ Disconnect \/ Unmap \/ CloseQueue \/ Join

Next == Alive /\ (Handler \/ Worker \/ Signal \/ MainStep)

Spec == Init /\ [][Next]_vars

(* Threads that can run do run; a command without a trigger mode ends by   *)
(* itself (its time-out is finite), one with a trigger mode need not.      *)
(* Nobody has to send a command or a signal.                               *)
BoundedDone(t) == WorkDone(t) /\ ~payload[wblk[t]].endless

Fairness ==
  /\ WF_vars(Alive /\ (Claim \/ Alloc \/ Validate \/ Enqueue
                        \/ EnqueueFails \/ GiveUp))
  /\ \A t \in Threads :
       WF_vars(Alive /\ (Dequeue(t) \/ Exit(t) \/ Rearm(t) \/ BoundedDone(t)
                          \/ WorkStopped(t) \/ OrphanEnds(t) \/ Fault(t)
                          \/ Clear(t) \/ Free(t)))
  /\ WF_vars(Alive /\ (SystemStop \/ SystemDone))
  /\ WF_vars(Alive /\ MainStep)

FairSpec == Spec /\ Fairness
-----------------------------------------------------------------------------
(***************************************************************************)
(* Properties.                                                             *)
(***************************************************************************)
TypeOK ==
  /\ running \in [Threads -> BOOLEAN]
  /\ slot \in [Threads -> Blocks \cup {None}]
  /\ closed \in [Threads -> BOOLEAN]
  /\ heap \subseteq Blocks
  /\ payload \in [Blocks -> Payload]
  /\ hpc \in {"idle", "claim"} \cup Holding
  /\ htask \in Threads
  /\ hblk \in Blocks \cup {None}
  /\ wpc \in [Threads -> Busy \cup {"wait", "free", "exited"}]
  /\ wblk \in [Threads -> Blocks \cup {None}]
  /\ stopList \in Seq(Tasks)
  /\ mpc \in {"run", "stopping", "sleep", "netdown", "closing", "join",
              "destroyed", "crashed"}
  /\ mlist \in Seq(Threads)
  /\ disturbed \subseteq Threads

(* Ownership of the command data: until the queues are destroyed, a data   *)
(* block is allocated exactly while the handler, one queue or one worker   *)
(* points to it, and never two of them do.  So nobody uses or frees a      *)
(* freed block, and no error path leaks one.                               *)
Referenced ==
  ({hblk} \cup {slot[t] : t \in Threads} \cup {wblk[t] : t \in Threads}) \ {None}

OneOwner ==
  /\ Referenced \subseteq heap
  /\ mpc # "destroyed" => heap \subseteq Referenced
  /\ \A t, u \in Threads :
       /\ slot[t] # None => /\ slot[t] # hblk /\ slot[t] # wblk[u]
                            /\ slot[u] = slot[t] => u = t
       /\ wblk[t] # None => /\ wblk[t] # hblk
                            /\ wblk[u] = wblk[t] => u = t

(* No function stays busy for nothing: whatever stops, failures and        *)
(* re-arming come in between, a flag that is TRUE belongs to a command     *)
(* that is still in the handler, in the queue or with the worker, whose    *)
(* last step with it clears the flag.  (A thread that has returned because *)
(* pthread_create failed keeps its command, and its flag, for ever.)       *)
NoStuckBusy ==
  mpc # "destroyed" => \A t \in Threads : running[t] => Pending(t)

(* Unless a stop hit a pending command, the flag is a lock: it is TRUE all *)
(* the time a command is pending, and then there is only one, so the       *)
(* one-slot queue is never found full and no thread runs two commands.     *)
AtMostOne(t) ==
  /\ InHandler(t) => ~InSlot(t) /\ ~InWorker(t)
  /\ InSlot(t) => ~InWorker(t)

FlagIsLock ==
  mpc # "destroyed" =>
    \A t \in Threads \ disturbed :
      Pending(t) => running[t] /\ AtMostOne(t)

(* When the PRU memory is unmapped the tasks have finished, as main has    *)
(* announced after task_all_stop: no function thread is still in its       *)
(* exchange with the PRUs with a flag that tells it to go on.  (A thread   *)
(* whose flag is FALSE has the 3 s of the sleep to notice it, many polls.) *)
(* It does not hold: a command accepted during the sleep is missed.        *)
NoWorkAfterUnmap ==
  ~Mapped => \A t \in Tasks : ~(wpc[t] = "work" /\ running[t])

(* Every command that reached a queue leaves it, into the worker or, at    *)
(* the end, with the queue itself, whatever stops come in between; only a  *)
(* trigger mode at work, which ends by a stop alone, may keep it waiting.  *)
Triggered(t) == wpc[t] = "work" /\ payload[wblk[t]].endless

QueuedIsServed ==
  \A t \in Threads :
    InSlot(t) ~> (~InSlot(t) \/ Triggered(t) \/ wpc[t] \in Returned \/ ~Alive)

(* After SIGINT the daemon ends: every worker sees the shutdown, whatever  *)
(* it was doing, and main joins them all (or a worker died on the way).    *)
ShutdownEnds == (mpc = "stopping") ~> (mpc \in {"destroyed", "crashed"})

(* While the daemon runs, a system command that clears the flag of a       *)
(* working thread ends the work the thread is doing.  It does not hold:    *)
(* the flag is FALSE for is_running too, so the next command for the       *)
(* function sets it again, and a trigger mode that did not poll in between *)
(* goes on.                                                                *)
StopTakesEffect ==
  \A t \in Tasks, b \in Blocks :
    (mpc = "run" /\ wpc[t] = "work" /\ wblk[t] = b /\ ~running[t])
      ~> (mpc # "run" \/ ~(wpc[t] = "work" /\ wblk[t] = b))
=============================================================================
