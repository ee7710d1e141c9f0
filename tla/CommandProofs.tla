---------------------------- MODULE CommandProofs ----------------------------
(***************************************************************************)
(* Proofs about a command in the daemon: CommandTask, for any set of       *)
(* function threads, any stop order and any number of blocks; and Intake,  *)
(* for arrays of any size, and any rates and sizes a client asks for.      *)
(***************************************************************************)
EXTENDS CommandTask, Intake, SequenceTheorems, TLAPS

(* What the program text says of a thread name: it is a function or the    *)
(* system thread.                                                          *)
LEMMA ThreadNames == Tasks \subseteq Threads /\ System \in Threads
BY DEF Threads

(* Commands of the validator are payloads: targets are sequences of tasks. *)
LEMMA CommandsArePayloads ==
  ASSUME NEW t \in Threads
  PROVE  Commands(t) \subseteq Payload
<1>1. StopOrder \in Seq(Tasks)
  BY CommandTaskAssumption
<1>2. \A u \in Tasks : <<u>> \in Seq(Tasks)
  OBVIOUS
<1>3. <<>> \in Seq(Tasks)
  OBVIOUS
<1> SUFFICES ASSUME NEW c \in Commands(t) PROVE c \in Payload
  OBVIOUS
<1>4. CASE t = System
  <2>1. PICK s \in {<<u>> : u \in Tasks} \cup {StopOrder, <<>>} :
          c = [endless |-> FALSE, targets |-> s]
    BY <1>4 DEF Commands
  <2>2. s \in Seq(Tasks)
    BY <1>1, <1>2, <1>3
  <2>. QED BY <2>1, <2>2 DEF Payload
<1>5. CASE t # System
  <2>1. PICK e \in BOOLEAN : c = [endless |-> e, targets |-> <<>>]
    BY <1>5 DEF Commands
  <2>. QED BY <2>1, <1>3 DEF Payload
<1>. QED BY <1>4, <1>5

(* The list main goes through names threads only.                          *)
LEMMA AllThreadsIsSeq == AllThreads \in Seq(Threads)
<1>1. StopOrder \in Seq(Threads)
  BY CommandTaskAssumption, ThreadNames
<1>. QED BY <1>1, ThreadNames DEF AllThreads

(* What an empty block holds is a payload.                                 *)
LEMMA NoDataIsPayload == NoData \in Payload
BY DEF NoData, Payload

-----------------------------------------------------------------------------
(* Type correctness of the whole daemon: every flag, slot, block and list  *)
(* keeps its type through every handler, worker and shutdown step.         *)
THEOREM TypeCorrect == Spec => []TypeOK
<1>1. Init => TypeOK
  <2> SUFFICES ASSUME Init PROVE TypeOK
    OBVIOUS
  <2>1. <<>> \in Seq(Tasks) /\ <<>> \in Seq(Threads)
    OBVIOUS
  <2>. QED BY <2>1, ThreadNames, NoDataIsPayload
       DEF Init, TypeOK, Holding, Busy
<1>2. TypeOK /\ [Next]_vars => TypeOK'
  <2> SUFFICES ASSUME TypeOK, [Next]_vars PROVE TypeOK'
    OBVIOUS
  <2> USE ThreadNames DEF TypeOK, Holding, Busy
  <2>1. ASSUME NEW t \in Threads, Receive(t) PROVE TypeOK'
    BY <2>1 DEF Receive, workerVars, mainVars
  <2>2. CASE Claim
    BY <2>2 DEF Claim, workerVars, mainVars
  <2>3. CASE Alloc
    BY <2>3 DEF Alloc, workerVars, mainVars
  <2>4. CASE Validate
    BY <2>4, CommandsArePayloads, NoDataIsPayload
    DEF Validate, FreeHandlerBlock, workerVars, mainVars
  <2>5. CASE Enqueue
    BY <2>5 DEF Enqueue, workerVars, mainVars
  <2>6. CASE EnqueueFails
    BY <2>6, NoDataIsPayload
    DEF EnqueueFails, FreeHandlerBlock, workerVars, mainVars
  <2>7. CASE GiveUp
    BY <2>7 DEF GiveUp, Settle, workerVars, mainVars
  <2>8. ASSUME NEW t \in Threads, Dequeue(t) PROVE TypeOK'
    <3>1. slot[t] \in Blocks
      BY <2>8 DEF Dequeue
    <3>2. payload[slot[t]].targets \in Seq(Tasks)
      BY <3>1 DEF Payload
    <3>3. stopList' \in Seq(Tasks)
      BY <2>8, <3>2 DEF Dequeue
    <3>. QED BY <2>8, <3>3 DEF Dequeue, handlerVars, mainVars
  <2>9. ASSUME NEW t \in Threads, Exit(t) PROVE TypeOK'
    BY <2>9 DEF Exit, handlerVars, mainVars
  <2>10. ASSUME NEW t \in Threads, Rearm(t) PROVE TypeOK'
    BY <2>10 DEF Rearm, handlerVars, mainVars
  <2>11. ASSUME NEW t \in Threads, WorkDone(t) PROVE TypeOK'
    BY <2>11 DEF WorkDone, handlerVars, mainVars
  <2>12. ASSUME NEW t \in Threads, SpawnFails(t) PROVE TypeOK'
    BY <2>12 DEF SpawnFails, handlerVars, mainVars
  <2>13. ASSUME NEW t \in Threads, WorkStopped(t) PROVE TypeOK'
    BY <2>13 DEF WorkStopped, handlerVars, mainVars
  <2>14. ASSUME NEW t \in Threads, Fault(t) PROVE TypeOK'
    BY <2>14 DEF Fault, handlerVars, workerVars
  <2>15. ASSUME NEW t \in Threads, Clear(t) PROVE TypeOK'
    BY <2>15 DEF Clear, Settle, handlerVars, mainVars
  <2>16. ASSUME NEW t \in Threads, Free(t) PROVE TypeOK'
    BY <2>16, NoDataIsPayload DEF Free, handlerVars, mainVars
  <2>17. CASE SystemStop
    <3>1. Head(stopList) \in Tasks /\ Tail(stopList) \in Seq(Tasks)
      BY <2>17, HeadTailProperties DEF SystemStop
    <3>. QED BY <2>17, <3>1 DEF SystemStop, Stop, handlerVars, mainVars
  <2>18. CASE SystemDone
    BY <2>18 DEF SystemDone, handlerVars, mainVars
  <2>19. CASE Signal
    BY <2>19, AllThreadsIsSeq DEF Signal, handlerVars, workerVars
  <2>20. CASE MainStop
    <3>1. Head(mlist) \in Threads /\ Tail(mlist) \in Seq(Threads)
      BY <2>20, HeadTailProperties DEF MainStop
    <3>. QED BY <2>20, <3>1 DEF MainStop, Stop, handlerVars, workerVars
  <2>21. CASE Disconnect
    BY <2>21 DEF Disconnect, handlerVars, workerVars
  <2>22. CASE Unmap
    BY <2>22, AllThreadsIsSeq DEF Unmap, handlerVars, workerVars
  <2>23. CASE CloseQueue
    <3>1. Head(mlist) \in Threads /\ Tail(mlist) \in Seq(Threads)
      BY <2>23, HeadTailProperties DEF CloseQueue
    <3>. QED BY <2>23, <3>1 DEF CloseQueue, handlerVars, workerVars
  <2>24. CASE Join
    BY <2>24 DEF Join, handlerVars, workerVars
  <2>25. CASE UNCHANGED vars
    BY <2>25 DEF vars, handlerVars, workerVars, mainVars
  <2>26. ASSUME NEW t \in Threads, OrphanEnds(t) PROVE TypeOK'
    BY <2>26 DEF OrphanEnds, handlerVars, mainVars
  <2>. QED
    BY <2>1, <2>2, <2>3, <2>4, <2>5, <2>6, <2>7, <2>8, <2>9, <2>10, <2>11,
       <2>12, <2>13, <2>14, <2>15, <2>16, <2>17, <2>18, <2>19, <2>20, <2>21,
       <2>22, <2>23, <2>24, <2>25, <2>26
    DEF Next, Handler, Worker, WorkerStep, MainStep
<1>. QED BY <1>1, <1>2, PTL DEF Spec
-----------------------------------------------------------------------------
(***************************************************************************)
(* The flag as a lock.  NoStuckBusy and FlagIsLock are not inductive by    *)
(* themselves: between is_running and set_running (step "claim") the       *)
(* handler relies on the function it claims having no command, which       *)
(* nothing but FlagIsLock, at the moment of is_running, has told it; and   *)
(* nothing may happen to a worker once main has joined it.                 *)
(***************************************************************************)
ClaimIsFree ==
  hpc = "claim" /\ htask \notin disturbed =>
    ~InSlot(htask) /\ ~InWorker(htask)

HandlerHolds == (hblk # None) <=> hpc \in {"built", "enqueue"}

JoinedIsOver ==
  mpc = "destroyed" => \A t \in Threads : wpc[t] \in Returned

LockInv ==
  NoStuckBusy /\ FlagIsLock /\ ClaimIsFree /\ HandlerHolds /\ JoinedIsOver

(* At the start no flag is set and nothing is pending.                     *)
LEMMA LockInit == Init => LockInv
BY DEF Init, LockInv, NoStuckBusy, FlagIsLock, ClaimIsFree, HandlerHolds,
       JoinedIsOver, Returned, Pending, InHandler, InSlot, InWorker, Holding, Busy

(* Once main has joined the threads, no worker has a command in hand.      *)
LEMMA JoinedStep ==
  ASSUME TypeOK, JoinedIsOver, [Next]_vars
  PROVE  JoinedIsOver'
<1> USE DEF TypeOK, JoinedIsOver, Returned
<1>1. JoinedIsOver'
  <2>1. ASSUME NEW u \in Threads, Receive(u) PROVE JoinedIsOver'
    BY <2>1 DEF Receive, workerVars, mainVars
  <2>2. CASE Claim
    BY <2>2 DEF Claim, workerVars, mainVars
  <2>3. CASE Alloc
    BY <2>3 DEF Alloc, workerVars, mainVars
  <2>4. CASE Validate
    BY <2>4 DEF Validate, FreeHandlerBlock, workerVars, mainVars
  <2>5. CASE Enqueue
    BY <2>5 DEF Enqueue, workerVars, mainVars
  <2>6. CASE EnqueueFails
    BY <2>6 DEF EnqueueFails, FreeHandlerBlock, workerVars, mainVars
  <2>7. CASE GiveUp
    BY <2>7 DEF GiveUp, Settle, workerVars, mainVars
  <2>8. ASSUME NEW u \in Threads, Dequeue(u) PROVE JoinedIsOver'
    BY <2>8 DEF Dequeue, handlerVars, mainVars
  <2>9. ASSUME NEW u \in Threads, Exit(u) PROVE JoinedIsOver'
    BY <2>9 DEF Exit, handlerVars, mainVars
  <2>10. ASSUME NEW u \in Threads, Rearm(u) PROVE JoinedIsOver'
    BY <2>10 DEF Rearm, handlerVars, mainVars
  <2>11. ASSUME NEW u \in Threads, WorkDone(u) PROVE JoinedIsOver'
    BY <2>11 DEF WorkDone, handlerVars, mainVars
  <2>12. ASSUME NEW u \in Threads, SpawnFails(u) PROVE JoinedIsOver'
    BY <2>12 DEF SpawnFails, handlerVars, mainVars
  <2>13. ASSUME NEW u \in Threads, WorkStopped(u) PROVE JoinedIsOver'
    BY <2>13 DEF WorkStopped, handlerVars, mainVars
  <2>14. ASSUME NEW u \in Threads, Fault(u) PROVE JoinedIsOver'
    BY <2>14 DEF Fault, handlerVars, workerVars
  <2>15. ASSUME NEW u \in Threads, Clear(u) PROVE JoinedIsOver'
    BY <2>15 DEF Clear, Settle, handlerVars, mainVars
  <2>16. ASSUME NEW u \in Threads, Free(u) PROVE JoinedIsOver'
    BY <2>16 DEF Free, handlerVars, mainVars
  <2>17. CASE SystemStop
    BY <2>17 DEF SystemStop, Stop, handlerVars, mainVars
  <2>18. CASE SystemDone
    BY <2>18 DEF SystemDone, handlerVars, mainVars
  <2>19. CASE Signal
    BY <2>19 DEF Signal, handlerVars, workerVars
  <2>20. CASE MainStop
    BY <2>20 DEF MainStop, Stop, handlerVars, workerVars
  <2>21. CASE Disconnect
    BY <2>21 DEF Disconnect, handlerVars, workerVars
  <2>22. CASE Unmap
    BY <2>22 DEF Unmap, handlerVars, workerVars
  <2>23. CASE CloseQueue
    BY <2>23 DEF CloseQueue, handlerVars, workerVars
  <2>24. CASE Join
    BY <2>24 DEF Join, handlerVars, workerVars
  <2>25. CASE UNCHANGED vars
    BY <2>25 DEF vars, handlerVars, workerVars, mainVars
  <2>26. ASSUME NEW u \in Threads, OrphanEnds(u) PROVE JoinedIsOver'
    BY <2>26 DEF OrphanEnds, handlerVars, mainVars
  <2>. QED
    BY <2>1, <2>2, <2>3, <2>4, <2>5, <2>6, <2>7, <2>8, <2>9, <2>10, <2>11,
    <2>12, <2>13, <2>14, <2>15, <2>16, <2>17, <2>18, <2>19, <2>20, <2>21,
    <2>22, <2>23, <2>24, <2>25, <2>26
    DEF Next, Handler, Worker, WorkerStep, MainStep
<1>. QED BY <1>1

(* From malloc to enqueue the handler holds the block it fills.            *)
LEMMA HandlerStep ==
  ASSUME TypeOK, HandlerHolds, [Next]_vars
  PROVE  HandlerHolds'
<1> USE CommandTaskAssumption DEF TypeOK, HandlerHolds
<1>1. HandlerHolds'
  <2>1. ASSUME NEW u \in Threads, Receive(u) PROVE HandlerHolds'
    BY <2>1 DEF Receive, workerVars, mainVars
  <2>2. CASE Claim
    BY <2>2 DEF Claim, workerVars, mainVars
  <2>3. CASE Alloc
    BY <2>3 DEF Alloc, workerVars, mainVars
  <2>4. CASE Validate
    BY <2>4 DEF Validate, FreeHandlerBlock, workerVars, mainVars
  <2>5. CASE Enqueue
    BY <2>5 DEF Enqueue, workerVars, mainVars
  <2>6. CASE EnqueueFails
    BY <2>6 DEF EnqueueFails, FreeHandlerBlock, workerVars, mainVars
  <2>7. CASE GiveUp
    BY <2>7 DEF GiveUp, Settle, workerVars, mainVars
  <2>8. ASSUME NEW u \in Threads, Dequeue(u) PROVE HandlerHolds'
    BY <2>8 DEF Dequeue, handlerVars, mainVars
  <2>9. ASSUME NEW u \in Threads, Exit(u) PROVE HandlerHolds'
    BY <2>9 DEF Exit, handlerVars, mainVars
  <2>10. ASSUME NEW u \in Threads, Rearm(u) PROVE HandlerHolds'
    BY <2>10 DEF Rearm, handlerVars, mainVars
  <2>11. ASSUME NEW u \in Threads, WorkDone(u) PROVE HandlerHolds'
    BY <2>11 DEF WorkDone, handlerVars, mainVars
  <2>12. ASSUME NEW u \in Threads, SpawnFails(u) PROVE HandlerHolds'
    BY <2>12 DEF SpawnFails, handlerVars, mainVars
  <2>13. ASSUME NEW u \in Threads, WorkStopped(u) PROVE HandlerHolds'
    BY <2>13 DEF WorkStopped, handlerVars, mainVars
  <2>14. ASSUME NEW u \in Threads, Fault(u) PROVE HandlerHolds'
    BY <2>14 DEF Fault, handlerVars, workerVars
  <2>15. ASSUME NEW u \in Threads, Clear(u) PROVE HandlerHolds'
    BY <2>15 DEF Clear, Settle, handlerVars, mainVars
  <2>16. ASSUME NEW u \in Threads, Free(u) PROVE HandlerHolds'
    BY <2>16 DEF Free, handlerVars, mainVars
  <2>17. CASE SystemStop
    BY <2>17 DEF SystemStop, Stop, handlerVars, mainVars
  <2>18. CASE SystemDone
    BY <2>18 DEF SystemDone, handlerVars, mainVars
  <2>19. CASE Signal
    BY <2>19 DEF Signal, handlerVars, workerVars
  <2>20. CASE MainStop
    BY <2>20 DEF MainStop, Stop, handlerVars, workerVars
  <2>21. CASE Disconnect
    BY <2>21 DEF Disconnect, handlerVars, workerVars
  <2>22. CASE Unmap
    BY <2>22 DEF Unmap, handlerVars, workerVars
  <2>23. CASE CloseQueue
    BY <2>23 DEF CloseQueue, handlerVars, workerVars
  <2>24. CASE Join
    BY <2>24 DEF Join, handlerVars, workerVars
  <2>25. CASE UNCHANGED vars
    BY <2>25 DEF vars, handlerVars, workerVars, mainVars
  <2>26. ASSUME NEW u \in Threads, OrphanEnds(u) PROVE HandlerHolds'
    BY <2>26 DEF OrphanEnds, handlerVars, mainVars
  <2>. QED
    BY <2>1, <2>2, <2>3, <2>4, <2>5, <2>6, <2>7, <2>8, <2>9, <2>10, <2>11,
    <2>12, <2>13, <2>14, <2>15, <2>16, <2>17, <2>18, <2>19, <2>20, <2>21,
    <2>22, <2>23, <2>24, <2>25, <2>26
    DEF Next, Handler, Worker, WorkerStep, MainStep
<1>. QED BY <1>1

(* Every step that ends a command clears its flag, and every step that     *)
(* sets a flag has a command in hand.                                      *)
LEMMA StuckStep ==
  ASSUME TypeOK, LockInv, [Next]_vars
  PROVE  NoStuckBusy'
<1> USE DEF TypeOK, LockInv, NoStuckBusy, HandlerHolds, JoinedIsOver, Returned,
           Pending, InHandler, InSlot, InWorker, Holding, Busy
<1>1. NoStuckBusy'
  <2>1. ASSUME NEW u \in Threads, Receive(u) PROVE NoStuckBusy'
    BY <2>1 DEF Receive, workerVars, mainVars
  <2>2. CASE Claim
    BY <2>2 DEF Claim, workerVars, mainVars
  <2>3. CASE Alloc
    BY <2>3 DEF Alloc, workerVars, mainVars
  <2>4. CASE Validate
    BY <2>4 DEF Validate, FreeHandlerBlock, workerVars, mainVars
  <2>5. CASE Enqueue
    BY <2>5 DEF Enqueue, workerVars, mainVars
  <2>6. CASE EnqueueFails
    BY <2>6 DEF EnqueueFails, FreeHandlerBlock, workerVars, mainVars
  <2>7. CASE GiveUp
    BY <2>7 DEF GiveUp, Settle, workerVars, mainVars
  <2>8. ASSUME NEW u \in Threads, Dequeue(u) PROVE NoStuckBusy'
    BY <2>8 DEF Dequeue, handlerVars, mainVars
  <2>9. ASSUME NEW u \in Threads, Exit(u) PROVE NoStuckBusy'
    BY <2>9 DEF Exit, handlerVars, mainVars
  <2>10. ASSUME NEW u \in Threads, Rearm(u) PROVE NoStuckBusy'
    BY <2>10 DEF Rearm, handlerVars, mainVars
  <2>11. ASSUME NEW u \in Threads, WorkDone(u) PROVE NoStuckBusy'
    BY <2>11 DEF WorkDone, handlerVars, mainVars
  <2>12. ASSUME NEW u \in Threads, SpawnFails(u) PROVE NoStuckBusy'
    BY <2>12 DEF SpawnFails, handlerVars, mainVars
  <2>13. ASSUME NEW u \in Threads, WorkStopped(u) PROVE NoStuckBusy'
    BY <2>13 DEF WorkStopped, handlerVars, mainVars
  <2>14. ASSUME NEW u \in Threads, Fault(u) PROVE NoStuckBusy'
    BY <2>14 DEF Fault, handlerVars, workerVars
  <2>15. ASSUME NEW u \in Threads, Clear(u) PROVE NoStuckBusy'
    BY <2>15 DEF Clear, Settle, handlerVars, mainVars
  <2>16. ASSUME NEW u \in Threads, Free(u) PROVE NoStuckBusy'
    BY <2>16 DEF Free, handlerVars, mainVars
  <2>17. CASE SystemStop
    BY <2>17 DEF SystemStop, Stop, handlerVars, mainVars
  <2>18. CASE SystemDone
    BY <2>18 DEF SystemDone, handlerVars, mainVars
  <2>19. CASE Signal
    BY <2>19 DEF Signal, handlerVars, workerVars
  <2>20. CASE MainStop
    BY <2>20 DEF MainStop, Stop, handlerVars, workerVars
  <2>21. CASE Disconnect
    BY <2>21 DEF Disconnect, handlerVars, workerVars
  <2>22. CASE Unmap
    BY <2>22 DEF Unmap, handlerVars, workerVars
  <2>23. CASE CloseQueue
    BY <2>23 DEF CloseQueue, handlerVars, workerVars
  <2>24. CASE Join
    BY <2>24 DEF Join, handlerVars, workerVars
  <2>25. CASE UNCHANGED vars
    BY <2>25 DEF vars, handlerVars, workerVars, mainVars
  <2>26. ASSUME NEW u \in Threads, OrphanEnds(u) PROVE NoStuckBusy'
    BY <2>26 DEF OrphanEnds, handlerVars, mainVars
  <2>. QED
    BY <2>1, <2>2, <2>3, <2>4, <2>5, <2>6, <2>7, <2>8, <2>9, <2>10, <2>11,
    <2>12, <2>13, <2>14, <2>15, <2>16, <2>17, <2>18, <2>19, <2>20, <2>21,
    <2>22, <2>23, <2>24, <2>25, <2>26
    DEF Next, Handler, Worker, WorkerStep, MainStep
<1>. QED BY <1>1

(* Every step keeps the flag of an undisturbed function a lock.            *)
LEMMA LockStep ==
  ASSUME TypeOK, TypeOK', LockInv, [Next]_vars
  PROVE  FlagIsLock'
<1> USE DEF TypeOK, LockInv, FlagIsLock, ClaimIsFree, JoinedIsOver, Returned, Pending,
           InHandler, InSlot, InWorker, AtMostOne, Holding, Busy, Listening
<1>1. FlagIsLock'
  <2>1. ASSUME NEW u \in Threads, Receive(u) PROVE FlagIsLock'
    BY <2>1 DEF Receive, workerVars, mainVars
  <2>2. CASE Claim
    BY <2>2 DEF Claim, workerVars, mainVars
  <2>3. CASE Alloc
    BY <2>3 DEF Alloc, workerVars, mainVars
  <2>4. CASE Validate
    BY <2>4 DEF Validate, FreeHandlerBlock, workerVars, mainVars
  <2>5. CASE Enqueue
    BY <2>5 DEF Enqueue, workerVars, mainVars
  <2>6. CASE EnqueueFails
    BY <2>6 DEF EnqueueFails, FreeHandlerBlock, workerVars, mainVars
  <2>7. CASE GiveUp
    BY <2>7 DEF GiveUp, Settle, workerVars, mainVars
  <2>8. ASSUME NEW u \in Threads, Dequeue(u) PROVE FlagIsLock'
    BY <2>8 DEF Dequeue, handlerVars, mainVars
  <2>9. ASSUME NEW u \in Threads, Exit(u) PROVE FlagIsLock'
    BY <2>9 DEF Exit, handlerVars, mainVars
  <2>10. ASSUME NEW u \in Threads, Rearm(u) PROVE FlagIsLock'
    BY <2>10 DEF Rearm, handlerVars, mainVars
  <2>11. ASSUME NEW u \in Threads, WorkDone(u) PROVE FlagIsLock'
    BY <2>11 DEF WorkDone, handlerVars, mainVars
  <2>12. ASSUME NEW u \in Threads, SpawnFails(u) PROVE FlagIsLock'
    BY <2>12 DEF SpawnFails, handlerVars, mainVars
  <2>13. ASSUME NEW u \in Threads, WorkStopped(u) PROVE FlagIsLock'
    BY <2>13 DEF WorkStopped, handlerVars, mainVars
  <2>14. ASSUME NEW u \in Threads, Fault(u) PROVE FlagIsLock'
    BY <2>14 DEF Fault, handlerVars, workerVars
  <2>15. ASSUME NEW u \in Threads, Clear(u) PROVE FlagIsLock'
    BY <2>15 DEF Clear, Settle, handlerVars, mainVars
  <2>16. ASSUME NEW u \in Threads, Free(u) PROVE FlagIsLock'
    BY <2>16 DEF Free, handlerVars, mainVars
  <2>17. CASE SystemStop
    BY <2>17 DEF SystemStop, Stop, handlerVars, mainVars
  <2>18. CASE SystemDone
    BY <2>18 DEF SystemDone, handlerVars, mainVars
  <2>19. CASE Signal
    BY <2>19 DEF Signal, handlerVars, workerVars
  <2>20. CASE MainStop
    BY <2>20 DEF MainStop, Stop, handlerVars, workerVars
  <2>21. CASE Disconnect
    BY <2>21 DEF Disconnect, handlerVars, workerVars
  <2>22. CASE Unmap
    BY <2>22 DEF Unmap, handlerVars, workerVars
  <2>23. CASE CloseQueue
    BY <2>23 DEF CloseQueue, handlerVars, workerVars
  <2>24. CASE Join
    BY <2>24 DEF Join, handlerVars, workerVars
  <2>25. CASE UNCHANGED vars
    BY <2>25 DEF vars, handlerVars, workerVars, mainVars
  <2>26. ASSUME NEW u \in Threads, OrphanEnds(u) PROVE FlagIsLock'
    BY <2>26 DEF OrphanEnds, handlerVars, mainVars
  <2>. QED
    BY <2>1, <2>2, <2>3, <2>4, <2>5, <2>6, <2>7, <2>8, <2>9, <2>10, <2>11,
    <2>12, <2>13, <2>14, <2>15, <2>16, <2>17, <2>18, <2>19, <2>20, <2>21,
    <2>22, <2>23, <2>24, <2>25, <2>26
    DEF Next, Handler, Worker, WorkerStep, MainStep
<1>. QED BY <1>1

(* A function the handler is about to claim has nothing pending, unless    *)
(* disturbed.                                                              *)
LEMMA ClaimStep ==
  ASSUME TypeOK, TypeOK', LockInv, [Next]_vars
  PROVE  ClaimIsFree'
<1> USE DEF TypeOK, LockInv, FlagIsLock, ClaimIsFree, JoinedIsOver, Returned, Pending,
           InHandler, InSlot, InWorker, AtMostOne, Holding, Busy, Listening
<1>1. ClaimIsFree'
  <2>1. ASSUME NEW u \in Threads, Receive(u) PROVE ClaimIsFree'
    BY <2>1 DEF Receive, workerVars, mainVars
  <2>2. CASE Claim
    BY <2>2 DEF Claim, workerVars, mainVars
  <2>3. CASE Alloc
    BY <2>3 DEF Alloc, workerVars, mainVars
  <2>4. CASE Validate
    BY <2>4 DEF Validate, FreeHandlerBlock, workerVars, mainVars
  <2>5. CASE Enqueue
    BY <2>5 DEF Enqueue, workerVars, mainVars
  <2>6. CASE EnqueueFails
    BY <2>6 DEF EnqueueFails, FreeHandlerBlock, workerVars, mainVars
  <2>7. CASE GiveUp
    BY <2>7 DEF GiveUp, Settle, workerVars, mainVars
  <2>8. ASSUME NEW u \in Threads, Dequeue(u) PROVE ClaimIsFree'
    BY <2>8 DEF Dequeue, handlerVars, mainVars
  <2>9. ASSUME NEW u \in Threads, Exit(u) PROVE ClaimIsFree'
    BY <2>9 DEF Exit, handlerVars, mainVars
  <2>10. ASSUME NEW u \in Threads, Rearm(u) PROVE ClaimIsFree'
    BY <2>10 DEF Rearm, handlerVars, mainVars
  <2>11. ASSUME NEW u \in Threads, WorkDone(u) PROVE ClaimIsFree'
    BY <2>11 DEF WorkDone, handlerVars, mainVars
  <2>12. ASSUME NEW u \in Threads, SpawnFails(u) PROVE ClaimIsFree'
    BY <2>12 DEF SpawnFails, handlerVars, mainVars
  <2>13. ASSUME NEW u \in Threads, WorkStopped(u) PROVE ClaimIsFree'
    BY <2>13 DEF WorkStopped, handlerVars, mainVars
  <2>14. ASSUME NEW u \in Threads, Fault(u) PROVE ClaimIsFree'
    BY <2>14 DEF Fault, handlerVars, workerVars
  <2>15. ASSUME NEW u \in Threads, Clear(u) PROVE ClaimIsFree'
    BY <2>15 DEF Clear, Settle, handlerVars, mainVars
  <2>16. ASSUME NEW u \in Threads, Free(u) PROVE ClaimIsFree'
    BY <2>16 DEF Free, handlerVars, mainVars
  <2>17. CASE SystemStop
    BY <2>17 DEF SystemStop, Stop, handlerVars, mainVars
  <2>18. CASE SystemDone
    BY <2>18 DEF SystemDone, handlerVars, mainVars
  <2>19. CASE Signal
    BY <2>19 DEF Signal, handlerVars, workerVars
  <2>20. CASE MainStop
    BY <2>20 DEF MainStop, Stop, handlerVars, workerVars
  <2>21. CASE Disconnect
    BY <2>21 DEF Disconnect, handlerVars, workerVars
  <2>22. CASE Unmap
    BY <2>22 DEF Unmap, handlerVars, workerVars
  <2>23. CASE CloseQueue
    BY <2>23 DEF CloseQueue, handlerVars, workerVars
  <2>24. CASE Join
    BY <2>24 DEF Join, handlerVars, workerVars
  <2>25. CASE UNCHANGED vars
    BY <2>25 DEF vars, handlerVars, workerVars, mainVars
  <2>26. ASSUME NEW u \in Threads, OrphanEnds(u) PROVE ClaimIsFree'
    BY <2>26 DEF OrphanEnds, handlerVars, mainVars
  <2>. QED
    BY <2>1, <2>2, <2>3, <2>4, <2>5, <2>6, <2>7, <2>8, <2>9, <2>10, <2>11,
    <2>12, <2>13, <2>14, <2>15, <2>16, <2>17, <2>18, <2>19, <2>20, <2>21,
    <2>22, <2>23, <2>24, <2>25, <2>26
    DEF Next, Handler, Worker, WorkerStep, MainStep
<1>. QED BY <1>1

(* No function stays busy for nothing, for every set of functions and      *)
(* every order of stops.                                                   *)
THEOREM NeverStuckBusy == Spec => []NoStuckBusy
<1>1. Init => LockInv
  BY LockInit
<1>2. TypeOK /\ TypeOK' /\ LockInv /\ [Next]_vars => LockInv'
  BY JoinedStep, HandlerStep, StuckStep, LockStep, ClaimStep DEF LockInv
<1>3. LockInv => NoStuckBusy
  BY DEF LockInv
<1>. QED BY <1>1, <1>2, <1>3, TypeCorrect, PTL DEF Spec

(* The flag of a function that no stop disturbs is a lock on its one       *)
(* command.                                                                *)
THEOREM FlagLocks == Spec => []FlagIsLock
<1>1. Init => LockInv
  BY LockInit
<1>2. TypeOK /\ TypeOK' /\ LockInv /\ [Next]_vars => LockInv'
  BY JoinedStep, HandlerStep, StuckStep, LockStep, ClaimStep DEF LockInv
<1>3. LockInv => FlagIsLock
  BY DEF LockInv
<1>. QED BY <1>1, <1>2, <1>3, TypeCorrect, PTL DEF Spec
-----------------------------------------------------------------------------
(***************************************************************************)
(* Ownership of the data blocks.  OneOwner needs to know which steps have  *)
(* a block in hand: the handler between malloc and enqueue, a worker from  *)
(* dequeue to free.  The block a step takes up, hands over or frees is     *)
(* then never None, and malloc returns one nobody refers to.               *)
(***************************************************************************)
WorkerHolds ==
  \A t \in Threads : (wblk[t] # None) <=> wpc[t] \in Busy \cup {"free"}

OwnerInv == HandlerHolds /\ WorkerHolds /\ JoinedIsOver /\ OneOwner

(* At the start there is no block at all.                                  *)
LEMMA OwnerInit == Init => OwnerInv
BY DEF Init, OwnerInv, HandlerHolds, WorkerHolds, JoinedIsOver, OneOwner,
       Referenced, Busy

(* A worker holds a block exactly while it serves a command.               *)
LEMMA WorkerHoldsStep ==
  ASSUME TypeOK, WorkerHolds, [Next]_vars
  PROVE  WorkerHolds'
<1> USE CommandTaskAssumption DEF TypeOK, WorkerHolds, Busy
<1>1. WorkerHolds'
  <2>1. ASSUME NEW u \in Threads, Receive(u) PROVE WorkerHolds'
    BY <2>1 DEF Receive, workerVars, mainVars
  <2>2. CASE Claim
    BY <2>2 DEF Claim, workerVars, mainVars
  <2>3. CASE Alloc
    BY <2>3 DEF Alloc, workerVars, mainVars
  <2>4. CASE Validate
    BY <2>4 DEF Validate, FreeHandlerBlock, workerVars, mainVars
  <2>5. CASE Enqueue
    BY <2>5 DEF Enqueue, workerVars, mainVars
  <2>6. CASE EnqueueFails
    BY <2>6 DEF EnqueueFails, FreeHandlerBlock, workerVars, mainVars
  <2>7. CASE GiveUp
    BY <2>7 DEF GiveUp, Settle, workerVars, mainVars
  <2>8. ASSUME NEW u \in Threads, Dequeue(u) PROVE WorkerHolds'
    BY <2>8 DEF Dequeue, handlerVars, mainVars
  <2>9. ASSUME NEW u \in Threads, Exit(u) PROVE WorkerHolds'
    BY <2>9 DEF Exit, handlerVars, mainVars
  <2>10. ASSUME NEW u \in Threads, Rearm(u) PROVE WorkerHolds'
    BY <2>10 DEF Rearm, handlerVars, mainVars
  <2>11. ASSUME NEW u \in Threads, WorkDone(u) PROVE WorkerHolds'
    BY <2>11 DEF WorkDone, handlerVars, mainVars
  <2>12. ASSUME NEW u \in Threads, SpawnFails(u) PROVE WorkerHolds'
    BY <2>12 DEF SpawnFails, handlerVars, mainVars
  <2>13. ASSUME NEW u \in Threads, WorkStopped(u) PROVE WorkerHolds'
    BY <2>13 DEF WorkStopped, handlerVars, mainVars
  <2>14. ASSUME NEW u \in Threads, Fault(u) PROVE WorkerHolds'
    BY <2>14 DEF Fault, handlerVars, workerVars
  <2>15. ASSUME NEW u \in Threads, Clear(u) PROVE WorkerHolds'
    BY <2>15 DEF Clear, Settle, handlerVars, mainVars
  <2>16. ASSUME NEW u \in Threads, Free(u) PROVE WorkerHolds'
    BY <2>16 DEF Free, handlerVars, mainVars
  <2>17. CASE SystemStop
    BY <2>17 DEF SystemStop, Stop, handlerVars, mainVars
  <2>18. CASE SystemDone
    BY <2>18 DEF SystemDone, handlerVars, mainVars
  <2>19. CASE Signal
    BY <2>19 DEF Signal, handlerVars, workerVars
  <2>20. CASE MainStop
    BY <2>20 DEF MainStop, Stop, handlerVars, workerVars
  <2>21. CASE Disconnect
    BY <2>21 DEF Disconnect, handlerVars, workerVars
  <2>22. CASE Unmap
    BY <2>22 DEF Unmap, handlerVars, workerVars
  <2>23. CASE CloseQueue
    BY <2>23 DEF CloseQueue, handlerVars, workerVars
  <2>24. CASE Join
    BY <2>24 DEF Join, handlerVars, workerVars
  <2>25. CASE UNCHANGED vars
    BY <2>25 DEF vars, handlerVars, workerVars, mainVars
  <2>26. ASSUME NEW u \in Threads, OrphanEnds(u) PROVE WorkerHolds'
    BY <2>26 DEF OrphanEnds, handlerVars, mainVars
  <2>. QED
    BY <2>1, <2>2, <2>3, <2>4, <2>5, <2>6, <2>7, <2>8, <2>9, <2>10, <2>11,
    <2>12, <2>13, <2>14, <2>15, <2>16, <2>17, <2>18, <2>19, <2>20, <2>21,
    <2>22, <2>23, <2>24, <2>25, <2>26
    DEF Next, Handler, Worker, WorkerStep, MainStep
<1>. QED BY <1>1

(* A step that leaves the pointers and the heap alone keeps them in order, *)
(* unless it takes the daemon back from its end.                           *)
LEMMA OwnerFrame ==
  ASSUME OneOwner, UNCHANGED <<heap, hblk, slot, wblk>>,
         mpc = "destroyed" => mpc' = "destroyed"
  PROVE  OneOwner'
BY DEF OneOwner, Referenced

(* Blocks are handed over whole: each step moves, makes or frees one       *)
(* pointer.                                                                *)
LEMMA OwnerStep ==
  ASSUME TypeOK, TypeOK', OwnerInv, [Next]_vars
  PROVE  OneOwner'
<1> USE CommandTaskAssumption
    DEF TypeOK, OwnerInv, HandlerHolds, WorkerHolds, JoinedIsOver, OneOwner,
        Referenced, Busy
<1>1. OneOwner'
  <2>1. ASSUME NEW u \in Threads, Receive(u) PROVE OneOwner'
    BY <2>1, OwnerFrame DEF Receive, workerVars, mainVars
  <2>2. CASE Claim
    BY <2>2, OwnerFrame DEF Claim, workerVars, mainVars
  <2>3. CASE Alloc
    <3>1. CASE UNCHANGED <<heap, hblk>>
      BY <2>3, <3>1, OwnerFrame DEF Alloc, workerVars, mainVars
    <3>2. ASSUME NEW b \in Blocks \ heap,
                 heap' = heap \cup {b}, hblk' = b
          PROVE  OneOwner'
      <4>1. hblk = None /\ b # None /\ b \notin Referenced
        BY <2>3, <3>2 DEF Alloc
      <4>2. UNCHANGED <<slot, wblk, mpc>>
        BY <2>3 DEF Alloc, workerVars, mainVars
      <4>3. Referenced' = Referenced \cup {b}
        BY <3>2, <4>1, <4>2
      <4>4. \A t \in Threads :
              /\ slot[t] # None => slot[t] # b
              /\ wblk[t] # None => wblk[t] # b
        BY <4>1
      <4>5. /\ Referenced' \subseteq heap'
            /\ mpc # "destroyed" => heap' \subseteq Referenced'
        BY <3>2, <4>3
      <4>. QED BY <3>2, <4>2, <4>4, <4>5
    <3>. QED BY <2>3, <3>1, <3>2 DEF Alloc
  <2>4. CASE Validate
    <3>1. CASE UNCHANGED <<heap, hblk>>
      BY <2>4, <3>1, OwnerFrame DEF Validate, workerVars, mainVars
    <3>2. CASE FreeHandlerBlock
      <4>1. hblk # None /\ hblk' = None /\ heap' = heap \ {hblk}
        BY <2>4, <3>2 DEF Validate, FreeHandlerBlock
      <4>2. UNCHANGED <<slot, wblk, mpc>>
        BY <2>4 DEF Validate, workerVars, mainVars
      <4>3. Referenced' = Referenced \ {hblk}
        BY <4>1, <4>2
      <4>. QED BY <4>1, <4>2, <4>3
    <3>. QED BY <2>4, <3>1, <3>2 DEF Validate
  <2>5. CASE Enqueue
    <3>1. /\ hblk # None /\ hblk' = None /\ slot[htask] = None
          /\ slot' = [slot EXCEPT ![htask] = hblk]
          /\ UNCHANGED <<heap, wblk, mpc>>
      BY <2>5 DEF Enqueue, workerVars, mainVars
    <3>2. /\ slot'[htask] = hblk
          /\ \A t \in Threads \ {htask} : slot'[t] = slot[t]
      BY <3>1
    <3>3. Referenced' = Referenced
      <4>1. Referenced' \subseteq Referenced
        BY <3>1, <3>2
      <4>2. Referenced \subseteq Referenced'
        BY <3>1, <3>2
      <4>. QED BY <4>1, <4>2
    <3>4. \A t, u \in Threads :
            /\ slot'[t] # None => /\ slot'[t] # hblk' /\ slot'[t] # wblk'[u]
                                  /\ slot'[u] = slot'[t] => u = t
            /\ wblk'[t] # None => /\ wblk'[t] # hblk'
                                  /\ wblk'[u] = wblk'[t] => u = t
      BY <3>1, <3>2
    <3>. QED BY <3>1, <3>3, <3>4
  <2>6. CASE EnqueueFails
    <3>1. /\ hblk # None /\ hblk' = None /\ heap' = heap \ {hblk}
          /\ UNCHANGED <<slot, wblk, mpc>>
      BY <2>6 DEF EnqueueFails, FreeHandlerBlock, workerVars, mainVars
    <3>2. Referenced' = Referenced \ {hblk}
      BY <3>1
    <3>. QED BY <3>1, <3>2
  <2>7. CASE GiveUp
    BY <2>7, OwnerFrame DEF GiveUp, Settle, workerVars, mainVars
  <2>8. ASSUME NEW u \in Threads, Dequeue(u) PROVE OneOwner'
    <3>1. /\ slot[u] # None /\ wblk[u] = None
          /\ wblk' = [wblk EXCEPT ![u] = slot[u]]
          /\ slot' = [slot EXCEPT ![u] = None]
          /\ UNCHANGED <<heap, hblk, mpc>>
      BY <2>8 DEF Dequeue, handlerVars, mainVars
    <3>2. /\ slot'[u] = None /\ wblk'[u] = slot[u]
          /\ \A t \in Threads \ {u} : slot'[t] = slot[t] /\ wblk'[t] = wblk[t]
      BY <3>1
    <3>3. Referenced' = Referenced
      <4>1. Referenced' \subseteq Referenced
        BY <3>1, <3>2
      <4>2. Referenced \subseteq Referenced'
        BY <3>1, <3>2
      <4>. QED BY <4>1, <4>2
    <3>4. \A t, v \in Threads :
            /\ slot'[t] # None => /\ slot'[t] # hblk' /\ slot'[t] # wblk'[v]
                                  /\ slot'[v] = slot'[t] => v = t
            /\ wblk'[t] # None => /\ wblk'[t] # hblk'
                                  /\ wblk'[v] = wblk'[t] => v = t
      BY <3>1, <3>2
    <3>. QED BY <3>1, <3>3, <3>4
  <2>9. ASSUME NEW u \in Threads, Exit(u) PROVE OneOwner'
    BY <2>9, OwnerFrame DEF Exit, handlerVars, mainVars
  <2>10. ASSUME NEW u \in Threads, Rearm(u) PROVE OneOwner'
    BY <2>10, OwnerFrame DEF Rearm, handlerVars, mainVars
  <2>11. ASSUME NEW u \in Threads, WorkDone(u) PROVE OneOwner'
    BY <2>11, OwnerFrame DEF WorkDone, handlerVars, mainVars
  <2>12. ASSUME NEW u \in Threads, SpawnFails(u) PROVE OneOwner'
    BY <2>12, OwnerFrame DEF SpawnFails, handlerVars, mainVars
  <2>13. ASSUME NEW u \in Threads, WorkStopped(u) PROVE OneOwner'
    BY <2>13, OwnerFrame DEF WorkStopped, handlerVars, mainVars
  <2>14. ASSUME NEW u \in Threads, Fault(u) PROVE OneOwner'
    <3>1. mpc # "destroyed" /\ UNCHANGED <<heap, slot, wblk, hblk>>
      BY <2>14 DEF Fault, handlerVars, workerVars, Returned
    <3>. QED BY <3>1, OwnerFrame
  <2>15. ASSUME NEW u \in Threads, Clear(u) PROVE OneOwner'
    BY <2>15, OwnerFrame DEF Clear, Settle, handlerVars, mainVars
  <2>16. ASSUME NEW u \in Threads, Free(u) PROVE OneOwner'
    <3>1. /\ wblk[u] # None /\ heap' = heap \ {wblk[u]}
          /\ wblk' = [wblk EXCEPT ![u] = None]
          /\ UNCHANGED <<slot, hblk, mpc>>
      BY <2>16 DEF Free, handlerVars, mainVars
    <3>2. /\ wblk'[u] = None
          /\ \A t \in Threads \ {u} : wblk'[t] = wblk[t]
      BY <3>1
    <3>3. Referenced' = Referenced \ {wblk[u]}
      <4>1. Referenced' \subseteq Referenced \ {wblk[u]}
        BY <3>1, <3>2
      <4>2. Referenced \ {wblk[u]} \subseteq Referenced'
        BY <3>1, <3>2
      <4>. QED BY <4>1, <4>2
    <3>4. Referenced' \subseteq heap'
      BY <3>1, <3>3
    <3>5. mpc' # "destroyed" => heap' \subseteq Referenced'
      BY <3>1, <3>3
    <3>6. ASSUME NEW t \in Threads, NEW v \in Threads
          PROVE  /\ slot'[t] # None => /\ slot'[t] # hblk' /\ slot'[t] # wblk'[v]
                                       /\ slot'[v] = slot'[t] => v = t
                 /\ wblk'[t] # None => /\ wblk'[t] # hblk'
                                       /\ wblk'[v] = wblk'[t] => v = t
      BY <3>1, <3>2
    <3>. QED BY <3>4, <3>5, <3>6
  <2>17. CASE SystemStop
    BY <2>17, OwnerFrame DEF SystemStop, Stop, handlerVars, mainVars
  <2>18. CASE SystemDone
    BY <2>18, OwnerFrame DEF SystemDone, handlerVars, mainVars
  <2>19. CASE Signal
    BY <2>19, OwnerFrame DEF Signal, handlerVars, workerVars
  <2>20. CASE MainStop
    BY <2>20, OwnerFrame DEF MainStop, Stop, handlerVars, workerVars
  <2>21. CASE Disconnect
    BY <2>21, OwnerFrame DEF Disconnect, handlerVars, workerVars
  <2>22. CASE Unmap
    BY <2>22, OwnerFrame DEF Unmap, handlerVars, workerVars
  <2>23. CASE CloseQueue
    BY <2>23, OwnerFrame DEF CloseQueue, handlerVars, workerVars
  <2>24. CASE Join
    BY <2>24 DEF Join, handlerVars, workerVars
  <2>25. CASE UNCHANGED vars
    BY <2>25 DEF vars, handlerVars, workerVars, mainVars
  <2>26. ASSUME NEW u \in Threads, OrphanEnds(u) PROVE OneOwner'
    BY <2>26, OwnerFrame DEF OrphanEnds, handlerVars, mainVars
  <2>. QED
    BY <2>1, <2>2, <2>3, <2>4, <2>5, <2>6, <2>7, <2>8, <2>9, <2>10, <2>11,
    <2>12, <2>13, <2>14, <2>15, <2>16, <2>17, <2>18, <2>19, <2>20, <2>21,
    <2>22, <2>23, <2>24, <2>25, <2>26
    DEF Next, Handler, Worker, WorkerStep, MainStep
<1>. QED BY <1>1

LEMMA OwnerInvariant == Spec => []OwnerInv
<1>1. TypeOK /\ TypeOK' /\ OwnerInv /\ [Next]_vars => OwnerInv'
  BY HandlerStep, WorkerHoldsStep, JoinedStep, OwnerStep DEF OwnerInv
<1>. QED BY <1>1, OwnerInit, TypeCorrect, PTL DEF Spec

(* A data block has exactly one owner from malloc to free, whatever the    *)
(* number of blocks and of threads: nobody uses or frees a freed block and *)
(* no error path leaks one.                                                *)
THEOREM BlocksHaveOneOwner == Spec => []OneOwner
BY OwnerInvariant, PTL DEF OwnerInv
-----------------------------------------------------------------------------
(***************************************************************************)
(* The queues.  To the daemon the TaskQueue of thread t is one slot and a  *)
(* shutdown flag; TaskQueueProofs shows that task_queue.c, with its mutex  *)
(* and condition variable, is a Mailbox, and here each slot is used as     *)
(* one, by the worker as its only consumer.                                *)
(***************************************************************************)
Box(t) == INSTANCE Mailbox WITH
  Items <- Blocks, Empty <- None, box <- slot[t], open <- ~closed[t],
  taken <- IF wpc[t] = "exited" THEN "shutdown" ELSE wblk[t]

(* What thread t's queue does in a step.                                   *)
BoxStep(t) == Box(t)!Next \/ UNCHANGED Box(t)!mailboxVars

(* A step that leaves the queue and its worker's block alone.              *)
LEMMA BoxFrame ==
  ASSUME NEW t \in Threads, slot'[t] = slot[t], closed'[t] = closed[t],
         wblk'[t] = wblk[t],
         wpc'[t] = "exited" <=> wpc[t] = "exited"
  PROVE  BoxStep(t)
BY DEF BoxStep, Box!mailboxVars

(* Enqueue is a put into its function's queue; what a worker does with its *)
(* block is taking, finishing and leaving; main closes.  No other step     *)
(* touches a queue before main destroys them all.                          *)
LEMMA QueueStep ==
  ASSUME TypeOK, HandlerHolds, WorkerHolds, [Next]_vars, NEW t \in Threads
  PROVE  BoxStep(t) \/ Join
<1> USE DEF TypeOK
<1>1. CASE Enqueue
  <2>1. /\ slot[htask] = None /\ slot' = [slot EXCEPT ![htask] = hblk]
        /\ UNCHANGED <<closed, wpc, wblk>>
    BY <1>1 DEF Enqueue, workerVars
  <2>2. hblk \in Blocks
    BY <1>1 DEF Enqueue, HandlerHolds
  <2>3. CASE t = htask
    <3>1. Box(t)!Put(hblk)
      BY <2>1, <2>3 DEF Box!Put
    <3>. QED BY <2>2, <3>1 DEF BoxStep, Box!Next
  <2>4. CASE t # htask
    BY <2>1, <2>4, BoxFrame
  <2>. QED BY <2>3, <2>4
<1>2. ASSUME NEW u \in Threads, Dequeue(u) PROVE BoxStep(t)
  <2>1. /\ wpc[u] = "wait" /\ ~closed[u] /\ slot[u] # None
        /\ wblk' = [wblk EXCEPT ![u] = slot[u]]
        /\ slot' = [slot EXCEPT ![u] = None]
        /\ wpc' = [wpc EXCEPT ![u] = IF u \in Rearming THEN "arm" ELSE "work"]
        /\ closed' = closed
    BY <1>2 DEF Dequeue
  <2>2. CASE t = u
    <3>1. wblk[t] = None
      BY <2>1, <2>2 DEF WorkerHolds, Busy
    <3>2. wpc[t] = "wait" /\ wpc'[t] \in {"arm", "work"}
      BY <2>1, <2>2
    <3>3. Box(t)!Take
      BY <2>1, <2>2, <3>1, <3>2 DEF Box!Take
    <3>. QED BY <3>3 DEF BoxStep, Box!Next
  <2>3. CASE t # u
    BY <2>1, <2>3, BoxFrame
  <2>. QED BY <2>2, <2>3
<1>3. ASSUME NEW u \in Threads, Exit(u) PROVE BoxStep(t)
  <2>1. /\ wpc[u] = "wait" /\ closed[u]
        /\ wpc' = [wpc EXCEPT ![u] = "exited"]
        /\ UNCHANGED <<slot, closed, wblk>>
    BY <1>3 DEF Exit
  <2>2. CASE t = u
    <3>1. wblk[t] = None
      BY <2>1, <2>2 DEF WorkerHolds, Busy
    <3>2. wpc[t] = "wait" /\ wpc'[t] = "exited"
      BY <2>1, <2>2
    <3>3. Box(t)!Leave
      BY <2>1, <2>2, <3>1, <3>2 DEF Box!Leave
    <3>. QED BY <3>3 DEF BoxStep, Box!Next
  <2>3. CASE t # u
    BY <2>1, <2>3, BoxFrame
  <2>. QED BY <2>2, <2>3
<1>4. ASSUME NEW u \in Threads, Free(u) PROVE BoxStep(t)
  <2>1. /\ wpc[u] = "free" /\ wpc' = [wpc EXCEPT ![u] = "wait"]
        /\ wblk' = [wblk EXCEPT ![u] = None]
        /\ UNCHANGED <<slot, closed>>
    BY <1>4 DEF Free
  <2>2. CASE t = u
    <3>1. wblk[t] \in Blocks
      BY <2>1, <2>2 DEF WorkerHolds
    <3>2. wpc[t] = "free" /\ wpc'[t] = "wait" /\ wblk'[t] = None
      BY <2>1, <2>2
    <3>3. Box(t)!Finish
      BY <2>1, <3>1, <3>2 DEF Box!Finish
    <3>. QED BY <3>3 DEF BoxStep, Box!Next
  <2>3. CASE t # u
    BY <2>1, <2>3, BoxFrame
  <2>. QED BY <2>2, <2>3
<1>5. CASE CloseQueue
  <2>1. /\ closed' = [closed EXCEPT ![Head(mlist)] = TRUE]
        /\ UNCHANGED <<slot, wpc, wblk>>
    BY <1>5 DEF CloseQueue, workerVars
  <2>2. CASE closed'[t] = closed[t]
    BY <2>1, <2>2, BoxFrame
  <2>3. CASE closed'[t] # closed[t]
    <3>1. ~closed[t] /\ closed'[t]
      BY <2>1, <2>3
    <3>2. Box(t)!Close
      BY <2>1, <3>1 DEF Box!Close
    <3>. QED BY <3>2 DEF BoxStep, Box!Next
  <2>. QED BY <2>2, <2>3
<1>6. ASSUME NEW u \in Threads,
             \/ Rearm(u) \/ WorkDone(u) \/ SpawnFails(u) \/ OrphanEnds(u)
             \/ WorkStopped(u)
             \/ Clear(u)
      PROVE  BoxStep(t)
  <2>1. /\ UNCHANGED <<slot, closed, wblk>>
        /\ wpc[u] # "exited" /\ wpc'[u] # "exited"
        /\ \A v \in Threads \ {u} : wpc'[v] = wpc[v]
    BY <1>6 DEF Rearm, WorkDone, SpawnFails, OrphanEnds, WorkStopped, Clear
  <2>. QED BY <2>1, BoxFrame
<1>7. CASE \/ (Handler /\ ~Enqueue) \/ SystemStop \/ Signal
           \/ (MainStep /\ ~CloseQueue /\ ~Join)
           \/ (\E u \in Threads : Fault(u)) \/ UNCHANGED vars
  <2>1. UNCHANGED <<slot, closed, wpc, wblk>>
    BY <1>7
    DEF Handler, Receive, Claim, Alloc, Validate, EnqueueFails,
        FreeHandlerBlock, GiveUp, SystemStop, Signal, MainStep, MainStop,
        Disconnect, Unmap, Fault, vars, workerVars
  <2>. QED BY <2>1, BoxFrame
<1>8. CASE SystemDone
  <2>1. /\ UNCHANGED <<slot, closed, wblk>> /\ wpc[System] = "work"
        /\ wpc' = [wpc EXCEPT ![System] = "done"]
    BY <1>8 DEF SystemDone
  <2>. QED BY <2>1, BoxFrame
<1>. QED
  BY <1>1, <1>2, <1>3, <1>4, <1>5, <1>6, <1>7, <1>8
  DEF Next, Worker, WorkerStep, MainStep

(* Every function's queue is used as the mailbox that TaskQueue            *)
(* implements, in any interleaving of network thread, workers, stops and   *)
(* shutdown, until main destroys the queues: a command is put only into an *)
(* empty slot, only its own worker takes it out, one at a time, and after  *)
(* the shutdown none is taken any more.                                    *)
THEOREM QueuesAreMailboxes ==
  ASSUME NEW t \in Threads
  PROVE  Spec => /\ Box(t)!Init
                 /\ [][Box(t)!Next \/ Join]_(Box(t)!mailboxVars)
<1>1. Init => Box(t)!Init
  BY DEF Init, Box!Init
<1>2. TypeOK /\ OwnerInv /\ [Next]_vars
        => [Box(t)!Next \/ Join]_(Box(t)!mailboxVars)
  BY QueueStep DEF OwnerInv, BoxStep
<1>. QED BY <1>1, <1>2, TypeCorrect, OwnerInvariant, PTL DEF Spec
-----------------------------------------------------------------------------
(***************************************************************************)
(* What the blocks hold.  The queues carry pointers, so that a command     *)
(* arrives as it was validated needs the blocks to have one owner.         *)
(***************************************************************************)
QueuedOrServed(t) == {slot[t], wblk[t]} \ {None}

Intact ==
  [][\A t \in Threads : \A b \in QueuedOrServed(t) \cap heap' :
       payload'[b] = payload[b]]_vars

OwnCommands ==
  /\ hpc = "enqueue" => payload[hblk] \in Commands(htask)
  /\ \A t \in Threads : \A b \in QueuedOrServed(t) :
       payload[b] \in Commands(t)

(* Only the handler writes a block, its own, and only a worker frees the   *)
(* one it has served; both are nobody else's.                              *)
LEMMA IntactStep ==
  ASSUME TypeOK, HandlerHolds, WorkerHolds, OneOwner, Next,
         NEW t \in Threads, NEW b \in QueuedOrServed(t) \cap heap'
  PROVE  payload'[b] = payload[b]
<1> USE CommandTaskAssumption DEF TypeOK, QueuedOrServed
<1>1. b \in Blocks /\ b # hblk
  BY DEF OneOwner
<1>2. CASE Validate \/ EnqueueFails
  <2>1. hblk \in Blocks
    BY <1>2 DEF Validate, EnqueueFails, HandlerHolds
  <2>2. \E d : payload' = [payload EXCEPT ![hblk] = d]
    BY <1>2 DEF Validate, EnqueueFails, FreeHandlerBlock
  <2>. QED BY <1>1, <2>1, <2>2
<1>3. ASSUME NEW u \in Threads, Free(u) PROVE payload'[b] = payload[b]
  <2>1. /\ heap' = heap \ {wblk[u]}
        /\ payload' = [payload EXCEPT ![wblk[u]] = NoData]
    BY <1>3 DEF Free
  <2>2. b # wblk[u]
    BY <2>1
  <2>. QED BY <1>1, <2>1, <2>2
<1>4. CASE payload' = payload
  BY <1>4
<1>. QED
  BY <1>2, <1>3, <1>4
  DEF Next, Handler, Worker, WorkerStep, MainStep, Receive, Claim, Alloc,
      Enqueue, GiveUp, Dequeue, Exit, Rearm, WorkDone, WorkStopped,
      SpawnFails, OrphanEnds, Fault, Clear, SystemStop, SystemDone, Signal, MainStop,
      Disconnect, Unmap, CloseQueue, Join

(* A block comes to a thread only through the handler, which validated it  *)
(* for that thread.                                                        *)
LEMMA OwnCommandsStep ==
  ASSUME TypeOK, TypeOK', OwnerInv, OwnerInv', OwnCommands, [Next]_vars
  PROVE  OwnCommands'
<1> USE CommandTaskAssumption DEF TypeOK
<1>1. CASE UNCHANGED vars
  BY <1>1 DEF OwnCommands, QueuedOrServed, vars, handlerVars, workerVars,
              Commands
<1>2. CASE Next
  <2>1. ASSUME NEW t \in Threads, NEW b \in QueuedOrServed(t)'
        PROVE  payload'[b] \in Commands(t)
    <3>1. b \in heap'
      BY <2>1 DEF OwnerInv, OneOwner, Referenced, QueuedOrServed
    <3>2. CASE b \in QueuedOrServed(t)
      <4>1. payload[b] \in Commands(t)
        BY <3>2 DEF OwnCommands
      <4>2. payload'[b] = payload[b]
        BY <1>2, <3>1, <3>2, IntactStep DEF OwnerInv
      <4>. QED BY <4>1, <4>2
    <3>3. CASE b \notin QueuedOrServed(t)
      <4>1. Enqueue /\ t = htask /\ b = hblk
        <5>1. b # None /\ (b = slot'[t] \/ b = wblk'[t])
          BY <2>1 DEF QueuedOrServed
        <5>2. b # slot[t] /\ b # wblk[t]
          BY <3>3, <5>1 DEF QueuedOrServed
        <5>3. CASE Handler
          BY <5>1, <5>2, <5>3
          DEF Handler, Receive, Claim, Alloc, Validate, FreeHandlerBlock,
              Enqueue, EnqueueFails, GiveUp, workerVars
        <5>4. CASE Worker
          <6>1. ASSUME NEW u \in Threads, WorkerStep(u)
                PROVE  slot'[t] \in {slot[t], None} /\ wblk'[t] \in {slot[t], wblk[t], None}
            <7>1. CASE Dequeue(u)
              BY <7>1 DEF Dequeue
            <7>2. CASE Free(u)
              BY <7>2 DEF Free
            <7>3. CASE UNCHANGED <<slot, wblk>>
              BY <7>3
            <7>. QED
              BY <6>1, <7>1, <7>2, <7>3
              DEF WorkerStep, Exit, Rearm, WorkDone, WorkStopped, SpawnFails,
                  OrphanEnds, Fault, Clear, workerVars
          <6>2. CASE SystemStop \/ SystemDone
            BY <5>1, <5>2, <6>2 DEF SystemStop, SystemDone
          <6>. QED BY <5>1, <5>2, <5>4, <6>1, <6>2 DEF Worker
        <5>5. CASE Signal \/ MainStep
          BY <5>1, <5>2, <5>5
          DEF Signal, MainStep, MainStop, Disconnect, Unmap, CloseQueue,
              Join, workerVars
        <5>. QED BY <1>2, <5>3, <5>4, <5>5 DEF Next
      <4>. QED BY <4>1 DEF Enqueue, OwnCommands
    <3>. QED BY <3>2, <3>3
  <2>2. ASSUME hpc' = "enqueue" PROVE payload'[hblk'] \in Commands(htask')
    <3>1. CASE Validate
      <4>1. PICK c \in Commands(htask) :
              payload' = [payload EXCEPT ![hblk] = c]
        BY <2>2, <3>1 DEF Validate
      <4>2. hblk \in Blocks /\ hblk' = hblk /\ htask' = htask
        BY <2>2, <3>1 DEF Validate, OwnerInv, HandlerHolds
      <4>. QED BY <4>1, <4>2
    <3>2. CASE ~Validate
      <4>1. hpc = "enqueue" /\ hblk' = hblk /\ htask' = htask
        BY <1>2, <2>2, <3>2
        DEF Next, Handler, Worker, WorkerStep, MainStep, Receive, Claim,
            Alloc, Enqueue, EnqueueFails, GiveUp, Dequeue, Exit, Rearm,
            WorkDone, WorkStopped, SpawnFails, OrphanEnds, Fault, Clear, Free,
            SystemStop, SystemDone, Signal, MainStop, Disconnect, Unmap,
            CloseQueue, Join, handlerVars
      <4>2. payload'[hblk] = payload[hblk]
        <5>1. hblk \in Blocks
          BY <4>1 DEF OwnerInv, HandlerHolds
        <5>2. CASE \E u \in Threads : Free(u)
          BY <5>1, <5>2 DEF Free, OwnerInv, WorkerHolds, OneOwner
        <5>3. CASE ~\E u \in Threads : Free(u)
          BY <1>2, <2>2, <3>2, <5>3
          DEF Next, Handler, Worker, WorkerStep, MainStep, Receive, Claim,
              Alloc, Enqueue, EnqueueFails, GiveUp, Dequeue, Exit, Rearm,
              WorkDone, WorkStopped, SpawnFails, OrphanEnds, Fault, Clear, SystemStop,
              SystemDone, Signal, MainStop, Disconnect, Unmap, CloseQueue,
              Join
        <5>. QED BY <5>2, <5>3
      <4>. QED BY <4>1, <4>2 DEF OwnCommands
    <3>. QED BY <3>1, <3>2
  <2>. QED BY <2>1, <2>2 DEF OwnCommands
<1>. QED BY <1>1, <1>2

(* A worker takes, and serves, only commands that the validator let        *)
(* through for its own function, whatever failed, was freed and was        *)
(* allocated again in between.                                             *)
THEOREM ServesItsOwnCommands == Spec => []OwnCommands
<1>1. Init => OwnCommands
  BY DEF Init, OwnCommands, QueuedOrServed
<1>2. TypeOK /\ TypeOK' /\ OwnerInv /\ OwnerInv' /\ OwnCommands /\ [Next]_vars
        => OwnCommands'
  BY OwnCommandsStep
<1>. QED BY <1>1, <1>2, TypeCorrect, OwnerInvariant, PTL DEF Spec

(* From enqueue until the worker frees it a command's data is not          *)
(* written: no later command, stop or shutdown reaches it.                 *)
THEOREM CommandsStayIntact == Spec => Intact
<1>1. TypeOK /\ OwnerInv /\ [Next]_vars
        => [\A t \in Threads : \A b \in QueuedOrServed(t) \cap heap' :
              payload'[b] = payload[b]]_vars
  BY IntactStep DEF OwnerInv
<1>. QED BY <1>1, TypeCorrect, OwnerInvariant, PTL DEF Spec, Intact
-----------------------------------------------------------------------------
(***************************************************************************)
(* The way of a command's data: module Intake.                             *)
(***************************************************************************)
(* What a validator has let through, and filled in.                        *)
Validated ==
  /\ block.kind \in Functions
  /\ block.kind # "system" => block.mode \in 0 .. MaxMode[block.kind]
  /\ block.kind \in Listing =>
       ListOK(block) /\ cells = Arrays[block.kind] \X Places(block)
  /\ block.kind = "adc" => AdcOK(block)
  /\ block.kind = "system" => SystemOK(block)

IntakeInv ==
  /\ pc \in {"idle", "handler", "queued", "exchange", "done"}
  /\ pc \in {"idle", "handler"} => block = NoBlock
  /\ pc = "handler" => topic \in Functions /\ msg \in Messages(topic)
  /\ block = NoBlock \/ Validated
  /\ pc \in {"queued", "exchange"} => Validated
  /\ pc # "done" => outcome = "none"
  /\ pc = "exchange" =>
       /\ block.kind \in Listing
       /\ block.mode \in ThreadModes[block.kind]
  /\ AcceptedIsServed

-----------------------------------------------------------------------------
(* The fields of the messages that a validator may accept.                 *)
LEMMA AcceptedFields ==
  ASSUME NEW f \in Functions, NEW m \in Messages(f), Accepts(f, m)
  PROVE  /\ f \in Listing =>
              DOMAIN m = {"task", "well", "list", "values", "mode"}
         /\ f = "adc" =>
              DOMAIN m = {"task", "well", "rate", "buffer", "samples",
                          "trigger", "mode"}
         /\ f = "system" => DOMAIN m = {"task", "well", "function", "action"}
<1>1. m \notin BadMessages
  <2>1. f # "none" /\ m.task = f
    BY DEF Functions, Listing, Accepts
  <2>. QED BY <2>1 DEF BadMessages
<1>2. CASE f \in Listing
  <2>1. m \in ListMessages(f)
    BY <1>1, <1>2 DEF Messages
  <2>2. PICK l, v, k :
          m = [task |-> f, well |-> TRUE, list |-> l, values |-> v, mode |-> k]
    BY <2>1 DEF ListMessages
  <2>3. f # "adc" /\ f # "system"
    BY <1>2 DEF Listing
  <2>. QED BY <2>2, <2>3
<1>3. CASE f = "adc"
  <2>1. m \in AdcMessages
    BY <1>1, <1>3 DEF Messages, Listing
  <2>2. PICK r, b, s, t, k :
          m = [task |-> "adc", well |-> TRUE, rate |-> r, buffer |-> b,
               samples |-> s, trigger |-> t, mode |-> k]
    BY <2>1 DEF AdcMessages
  <2>. QED BY <1>3, <2>2 DEF Listing
<1>4. CASE f = "system"
  <2>1. m \in SystemMessages
    BY <1>1, <1>4 DEF Messages, Listing
  <2>2. PICK g, a : m = [task |-> "system", well |-> TRUE, function |-> g,
                         action |-> a]
    BY <2>1 DEF SystemMessages
  <2>. QED BY <1>4, <2>2 DEF Listing
<1>. QED BY <1>2, <1>3, <1>4 DEF Functions

(* The handler's block says what the message said.                         *)
LEMMA BlockFacts ==
  ASSUME NEW f, NEW m
  PROVE  /\ Block(f, m).kind = f
         /\ \A x \in DOMAIN m : x # "kind" => Block(f, m)[x] = m[x]
BY DEF Block

LEMMA AcceptStep ==
  ASSUME Accept, topic \in Functions, msg \in Messages(topic)
  PROVE  Validated'
<1>1. /\ Accepts(topic, msg) /\ block' = Block(topic, msg)
      /\ cells' = Written(topic, msg)
  BY DEF Accept
<1>2. block'.kind = topic
  BY <1>1, BlockFacts
<1>3. CASE topic \in Listing
  <2>1. DOMAIN msg = {"task", "well", "list", "values", "mode"}
    BY <1>1, <1>3, AcceptedFields
  <2>2. block'.list = msg.list /\ block'.mode = msg.mode
    BY <1>1, <2>1, BlockFacts
  <2>3. topic # "adc" /\ topic # "system"
    BY <1>3 DEF Listing
  <2>4. ListOK(msg) /\ msg.mode \in 0 .. MaxMode[topic]
    BY <1>1, <1>3, <2>3 DEF Accepts
  <2>5. ListOK(block)'
    BY <2>2, <2>4 DEF ListOK
  <2>6. cells' = Arrays[topic] \X Places(block)'
    BY <1>1, <1>3, <2>2 DEF Written, Places
  <2>. QED BY <1>2, <1>3, <2>2, <2>3, <2>4, <2>5, <2>6 DEF Validated
<1>4. CASE topic = "adc"
  <2>1. DOMAIN msg = {"task", "well", "rate", "buffer", "samples", "trigger",
                      "mode"}
    BY <1>1, <1>4, AcceptedFields
  <2>2. /\ block'.rate = msg.rate /\ block'.buffer = msg.buffer
        /\ block'.samples = msg.samples /\ block'.trigger = msg.trigger
        /\ block'.mode = msg.mode
    BY <1>1, <2>1, BlockFacts
  <2>3. AdcOK(msg) /\ msg.mode \in 0 .. MaxMode[topic]
    BY <1>1, <1>4 DEF Accepts
  <2>4. AdcOK(block)'
    BY <2>2, <2>3 DEF AdcOK
  <2>. QED BY <1>2, <1>4, <2>2, <2>3, <2>4 DEF Validated, Listing
<1>5. CASE topic = "system"
  <2>1. DOMAIN msg = {"task", "well", "function", "action"}
    BY <1>1, <1>5, AcceptedFields
  <2>2. block'.function = msg.function /\ block'.action = msg.action
    BY <1>1, <2>1, BlockFacts
  <2>3. SystemOK(msg)
    BY <1>1, <1>5 DEF Accepts
  <2>4. SystemOK(block)'
    BY <2>2, <2>3 DEF SystemOK
  <2>. QED BY <1>2, <1>5, <2>4 DEF Validated, Listing
<1>. QED BY <1>3, <1>4, <1>5 DEF Functions

(* What the system thread does with an accepted message.                   *)
LEMMA SystemServed ==
  ASSUME NEW b, SystemOK(b)
  PROVE  /\ SystemOutcome(b) \in {"cleared", "powered", "stopped", "invalid"}
         /\ SystemOutcome(b) = "invalid" => b.action = "pause"
<1>1. CASE b.function = "lcd"
  BY <1>1 DEF SystemOutcome
<1>2. CASE b.function \in {"pru0", "pru1"}
  <2>1. b.action \in {"start", "stop", "pause"}
    BY <1>2 DEF SystemOK
  <2>. QED BY <1>2, <2>1 DEF SystemOutcome
<1>3. CASE b.function \notin {"lcd", "pru0", "pru1"}
  <2>1. b.action = "stop"
    BY <1>3 DEF SystemOK
  <2>. QED BY <1>3, <2>1 DEF SystemOutcome
<1>. QED BY <1>1, <1>2, <1>3

(* The half that PRU0 fills of an accepted size.                           *)
LEMMA HalfFacts ==
  ASSUME NEW b, AdcOK(b)
  PROVE  /\ b.rate \in Nat /\ b.buffer = 2 * HalfSize(b)
         /\ HalfSize(b) \in 4 .. 512
         /\ \/ HalfLimit(b) = HalfSize(b)
            \/ /\ b.buffer % 8 # 0 /\ HalfSize(b) >= 6
               /\ HalfLimit(b) = HalfSize(b) - 2
         /\ b.rate <= 100 * HalfSize(b)
<1>1. /\ b.rate \in SamplingTable /\ b.rate \in Nat
      /\ b.buffer \in 8 .. 1024 /\ b.buffer % 4 = 0
      /\ b.buffer >= b.rate \div 50
  BY DEF AdcOK, BufferMin, BufferMax, MinBuffer, SamplingTable
<1>2. b.buffer = 2 * HalfSize(b) /\ HalfSize(b) \in 4 .. 512
  <2> DEFINE n == b.buffer
  <2>1. n \in 8 .. 1024 /\ n % 4 = 0
    BY <1>1
  <2> HIDE DEF n
  <2>2. n = 2 * (n \div 2) /\ n \div 2 \in 4 .. 512
    BY ONLY <2>1
  <2>. QED BY ONLY <2>2 DEF HalfSize, n
<1>3. b.rate <= 100 * HalfSize(b)
  BY <1>1, <1>2 DEF SamplingTable
<1>4. CASE HalfSize(b) % 4 = 0
  BY <1>1, <1>2, <1>3, <1>4 DEF HalfLimit
<1>5. CASE HalfSize(b) % 4 # 0
  <2>1. HalfSize(b) % 4 = 2 /\ HalfSize(b) >= 6 /\ b.buffer % 8 # 0
    BY <1>1, <1>2, <1>5
  <2>. QED BY <1>1, <1>2, <1>3, <2>1 DEF HalfLimit
<1>. QED BY <1>4, <1>5

(* Products and quotients of naturals.                                     *)
LEMMA Product ==
  ASSUME NEW x \in Nat, NEW y \in Nat
  PROVE  x * y \in Nat
OBVIOUS

LEMMA LargerProduct ==
  ASSUME NEW x \in Nat, NEW y \in Nat, NEW z \in Nat, y <= z
  PROVE  x * y <= x * z
<1>1. PICK d \in Nat : z = y + d
  <2>1. z - y \in Nat /\ z = y + (z - y)
    OBVIOUS
  <2>. QED BY <2>1
<1>2. x * z = x * y + x * d
  BY <1>1
<1>3. x * d \in Nat /\ x * y \in Nat
  BY <1>1, Product
<1>. QED BY <1>2, <1>3

LEMMA Quotient ==
  ASSUME NEW n \in Nat, NEW d \in Nat \ {0}
  PROVE  n \div d \in Nat /\ (n \div d) * d <= n
OBVIOUS

(* How an accepted ADC command ends.                                       *)
LEMMA AdcServed ==
  ASSUME NEW b, AdcOK(b), NEW o \in AdcOutcomes(b)
  PROVE  /\ o \in {"answered", "expired", "silent"}
         /\ o = "silent" => b.trigger = 1 \/ b.rate <= 10
         /\ o = "expired" =>
              \/ b.trigger = 1
              \/ b.mode = 0 /\ b.rate <= 100
              \/ b.mode # 0 /\ 20 * b.buffer >= b.rate
<1>. DEFINE L == HalfLimit(b)
            B == b.buffer
            R == b.rate
            k == b.samples \div B
            m == 5120 \div B
<1>1. L \in 0 .. 512 /\ 2 * L <= B /\ B \in 8 .. 1024 /\ R \in Nat
  BY HalfFacts
<1>2. /\ o \in {"answered", "expired", "silent"}
      /\ o = "silent" => b.trigger = 1 \/ ~(1 * L < 50 * R)
      /\ o = "expired" /\ b.trigger # 1 =>
           IF b.mode = 0 THEN ~((2 * k) * L < 50 * R)
           ELSE ~((2 * 1000) * L < 50 * R)
  BY DEF AdcOutcomes, Fits, AdcTimeout, Iterations
<1>3. R \in SamplingTable /\ b.samples \in B .. m * B
  BY DEF AdcOK, SamplesMax
<1>. HIDE DEF L, B, R
<1>4. m \in Nat /\ m * B <= 5120
  BY <1>1, Quotient
<1>5. b.samples \in Nat /\ b.samples <= 5120
  <2>1. m * B \in Nat
    BY <1>1, <1>4, Product
  <2>. QED BY <1>1, <1>3, <1>4, <2>1
<1>6. k \in Nat /\ k * B <= b.samples
  BY <1>1, <1>5, Quotient
<1>. HIDE DEF k, m
<1>7. (2 * k) * L \in Nat /\ k * B \in Nat
  BY <1>1, <1>6, Product
<1>8. (2 * k) * L <= 5120
  <2>1. (2 * k) * L = k * (2 * L)
    BY <1>1, <1>6
  <2>2. k * (2 * L) <= k * B
    <3>1. 2 * L \in Nat /\ B \in Nat
      BY <1>1
    <3>. QED BY <1>1, <1>6, <3>1, LargerProduct
  <2>. QED BY <1>5, <1>6, <1>7, <2>1, <2>2
<1>9. o = "silent" => b.trigger = 1 \/ R <= 10
  BY <1>1, <1>2
<1>10. ASSUME o = "expired", b.trigger # 1, b.mode = 0 PROVE R <= 100
  <2>1. 50 * R <= 5120
    BY <1>1, <1>2, <1>7, <1>8, <1>10
  <2>. QED BY <1>1, <1>3, <2>1 DEF SamplingTable
<1>11. ASSUME o = "expired", b.trigger # 1, b.mode # 0 PROVE 20 * B >= R
  BY <1>1, <1>2, <1>11
<1>. QED BY <1>2, <1>9, <1>10, <1>11 DEF B, R

LEMMA IntakeStep ==
  ASSUME IntakeInv, [IntakeNext]_intakeVars
  PROVE  IntakeInv'
<1>0. NoBlock.kind = "none" /\ "none" \notin Functions
  BY DEF NoBlock, Functions, Listing
<1>1. CASE Arrive
  <2>1. PICK f \in Functions : topic' = f /\ msg' \in Messages(f)
    BY <1>1 DEF Arrive
  <2>2. pc = "idle" /\ pc' = "handler" /\ UNCHANGED <<block, cells, outcome>>
    BY <1>1 DEF Arrive
  <2>. QED BY <2>1, <2>2 DEF IntakeInv, Validated, AcceptedIsServed
<1>2. CASE Refuse
  BY <1>2 DEF Refuse, IntakeInv, Validated, AcceptedIsServed
<1>3. CASE Accept
  <2>1. Validated'
    BY <1>3, AcceptStep DEF IntakeInv, Accept
  <2>2. pc' = "queued" /\ outcome' = "none"
    BY <1>3 DEF Accept, IntakeInv
  <2>. QED BY <2>1, <2>2 DEF IntakeInv, AcceptedIsServed
<1>4. CASE TakeExchange
  <2>1. /\ Validated /\ block.kind \in Listing
        /\ UNCHANGED <<topic, msg, block, cells>> /\ outcome = "none"
    BY <1>4 DEF TakeExchange, IntakeInv
  <2>2. Validated'
    BY <2>1 DEF Validated
  <2>3. CASE block.mode \in ThreadModes[block.kind]
    <3>1. pc' = "exchange" /\ outcome' = "none"
      BY <1>4, <2>1, <2>3 DEF TakeExchange
    <3>. QED BY <2>1, <2>2, <2>3, <3>1 DEF IntakeInv, AcceptedIsServed
  <2>4. CASE block.mode \notin ThreadModes[block.kind]
    <3>1. pc' = "done" /\ outcome' = "invalid"
      BY <1>4, <2>4 DEF TakeExchange
    <3>2. /\ block.kind \in {"gpio_output_get", "gpio_output_set", "motor_set"}
          /\ block.mode = 1
      BY <2>1, <2>4 DEF Validated, MaxMode, ThreadModes, Listing
    <3>. QED BY <2>1, <2>2, <3>1, <3>2 DEF IntakeInv, AcceptedIsServed
  <2>. QED BY <2>3, <2>4
<1>5. CASE TakeOther
  <2>1. /\ Validated /\ block.kind \in {"adc", "system"} /\ pc' = "done"
        /\ UNCHANGED <<topic, msg, block, cells>>
        /\ \/ block.kind = "adc" /\ outcome' \in AdcOutcomes(block)
           \/ block.kind = "system" /\ outcome' = SystemOutcome(block)
    BY <1>5 DEF TakeOther, IntakeInv
  <2>2. Validated'
    BY <2>1 DEF Validated
  <2>3. AcceptedIsServed'
    <3>1. CASE block.kind = "adc"
      <4>1. AdcOK(block) /\ outcome' \in AdcOutcomes(block)
        BY <2>1, <3>1 DEF Validated
      <4>2. /\ outcome' \in {"answered", "expired", "silent"}
            /\ outcome' = "silent" => block.trigger = 1 \/ block.rate <= 10
            /\ outcome' = "expired" =>
                 \/ block.trigger = 1
                 \/ block.mode = 0 /\ block.rate <= 100
                 \/ block.mode # 0 /\ 20 * block.buffer >= block.rate
        BY <4>1, AdcServed
      <4>. QED BY <2>1, <4>2 DEF AcceptedIsServed
    <3>2. CASE block.kind = "system"
      <4>1. /\ outcome' \in {"cleared", "powered", "stopped", "invalid"}
            /\ outcome' = "invalid" => block.action = "pause"
        BY <2>1, <3>2, SystemServed DEF Validated
      <4>. QED BY <2>1, <3>2, <4>1 DEF AcceptedIsServed
    <3>. QED BY <2>1, <3>1, <3>2
  <2>. QED BY <2>1, <2>2, <2>3 DEF IntakeInv
<1>6. CASE Answer
  <2>1. /\ Validated /\ block.kind \in Listing /\ pc' = "done"
        /\ UNCHANGED <<topic, msg, block, cells>>
        /\ block.mode \in ThreadModes[block.kind]
        /\ outcome' = IF block.mode \in PruModes[block.kind] THEN "answered"
                      ELSE "unanswered"
    BY <1>6 DEF Answer, IntakeInv
  <2>2. Validated'
    BY <2>1 DEF Validated
  <2>3. \/ block.mode \in PruModes[block.kind]
        \/ block.kind = "motor_get" /\ block.mode = 2
    BY <2>1 DEF ThreadModes, PruModes, Listing
  <2>4. AcceptedIsServed'
    BY <2>1, <2>3 DEF AcceptedIsServed
  <2>. QED BY <2>1, <2>2, <2>4 DEF IntakeInv
<1>7. CASE Return
  BY <1>7 DEF Return, IntakeInv, AcceptedIsServed
<1>8. CASE UNCHANGED intakeVars
  BY <1>8 DEF intakeVars, IntakeInv, Validated, AcceptedIsServed
<1>. QED
  BY <1>1, <1>2, <1>3, <1>4, <1>5, <1>6, <1>7, <1>8 DEF IntakeNext

LEMMA IntakeInvariant == IntakeSpec => []IntakeInv
<1>1. IntakeInit => IntakeInv
  BY DEF IntakeInit, IntakeInv, AcceptedIsServed
<1>. QED BY <1>1, IntakeStep, PTL DEF IntakeSpec

(* Whatever a client sends, for arrays of any size: a thread reads only    *)
(* cells of its block that the validator has filled for this command, but  *)
(* for the speeds of a motor whose number is not below the list's length,  *)
(* and publishes only what it has filled.                                  *)
THEOREM FilledBeforeRead == IntakeSpec => []ReadsOnlyWritten
<1>1. ASSUME IntakeInv PROVE ReadsOnlyWritten
  <2> SUFFICES ASSUME pc = "exchange"
               PROVE  /\ \A c \in Taken(block) :
                           \/ c \in cells /\ c[2] \in 0 .. Channels - 1
                           \/ /\ block.kind = "motor_set"
                              /\ c[2] >= Len(block.list)
                      /\ block.kind \notin Setting =>
                           Published(block) \subseteq Filled(block)
    BY DEF ReadsOnlyWritten
  <2>1. /\ block.kind \in Listing /\ ListOK(block)
        /\ cells = Arrays[block.kind] \X Places(block)
    BY <1>1 DEF IntakeInv, Validated
  <2>2. Len(block.list) \in 1 .. Channels /\ Channels \in Nat \ {0}
    BY <2>1, IntakeAssumption DEF ListOK
  <2>. DEFINE speeds == IF block.kind = "motor_set"
                        THEN {"factor_step_time", "rpm", "step_per_rev",
                              "micro_step"}
                        ELSE {}
  <2>3. ASSUME NEW c \in Taken(block)
        PROVE  \/ c \in cells /\ c[2] \in 0 .. Channels - 1
               \/ block.kind = "motor_set" /\ c[2] >= Len(block.list)
    <3>1. \/ c \in (Arrays[block.kind] \ speeds) \X Places(block)
          \/ c \in speeds \X {block.list[i] : i \in DOMAIN block.list}
      BY <2>3 DEF Taken
    <3>2. CASE c \in (Arrays[block.kind] \ speeds) \X Places(block)
      BY <2>1, <2>2, <3>2 DEF Places
    <3>3. CASE c \in speeds \X {block.list[i] : i \in DOMAIN block.list}
      <4>1. block.kind = "motor_set" /\ c[1] \in Arrays[block.kind]
        BY <3>3 DEF Arrays
      <4>2. c[2] \in 0 .. Channels - 1 /\ c = <<c[1], c[2]>>
        BY <2>1, <3>3 DEF ListOK
      <4>3. CASE c[2] < Len(block.list)
        <5>1. c[2] \in Places(block)
          BY <2>2, <4>2, <4>3 DEF Places
        <5>. QED BY <2>1, <4>1, <4>2, <5>1
      <4>. QED BY <2>2, <4>1, <4>2, <4>3
    <3>. QED BY <3>1, <3>2, <3>3
  <2>4. ASSUME block.kind \notin Setting
        PROVE  Published(block) \subseteq Filled(block)
    BY <2>1, <2>4
    DEF Published, Filled, Arrays, Setting, Listing
  <2>. QED BY <2>3, <2>4
<1>. QED BY <1>1, IntakeInvariant, PTL

(* Of what the validators let through, only what AcceptedIsServed names    *)
(* goes unserved: modes and an action that nothing implements, and ADC     *)
(* commands, at the rates named, that their time-out ends before the first *)
(* batch or before the last; and no message sets a flag.                   *)
THEOREM AcceptedMeansServed == IntakeSpec => []AcceptedIsServed
<1>1. IntakeInv => AcceptedIsServed
  BY DEF IntakeInv
<1>. QED BY <1>1, IntakeInvariant, PTL

(* For every rate and size that the validator lets through, the producer   *)
(* polls ten times or more in the time that PRU0 takes for one half, and   *)
(* six times or more where PRU0 rounds the half down to a multiple of 4.   *)
THEOREM ProducerPollsInTime == IntakeSpec => []PollsInTime
<1>1. ASSUME IntakeInv PROVE PollsInTime
  <2>. SUFFICES ASSUME block.kind = "adc"
                PROVE  PollsInTime
    BY DEF PollsInTime
  <2>1. AdcOK(block)
    BY <1>1 DEF IntakeInv, Validated, NoBlock
  <2>. DEFINE H == HalfSize(block)
              L == HalfLimit(block)
              r == block.rate
  <2>2. /\ r \in Nat /\ H \in 4 .. 512 /\ r <= 100 * H
        /\ L = H \/ (block.buffer % 8 # 0 /\ H >= 6 /\ L = H - 2)
    BY <2>1, HalfFacts
  <2>3. SleepTime(block) \in {1, 10} /\ (SleepTime(block) = 10 => H >= r)
    BY DEF SleepTime
  <2>. HIDE DEF H, L, r
  <2>4. L * 1000 >= 6 * SleepTime(block) * r
    BY <2>2, <2>3
  <2>5. block.buffer % 8 = 0 => L * 1000 >= 10 * SleepTime(block) * r
    BY <2>2, <2>3
  <2>. QED BY <2>4, <2>5 DEF PollsInTime, L, r
<1>. QED BY <1>1, IntakeInvariant, PTL
=============================================================================
