---------------------------- MODULE BoundedFifo ----------------------------
(***************************************************************************)
(* What mqtt_send_queue.c promises: messages from any thread are published *)
(* one at a time in the order in which they were queued; at most Capacity  *)
(* wait; a queue shut down takes no more but is published to the end,      *)
(* unless the process dies before.                                         *)
(***************************************************************************)
EXTENDS Naturals, Sequences

CONSTANTS Capacity, Messages, Null

VARIABLES queue,     \* messages waiting, oldest first
          sending,   \* message at the publisher, or Null
          closed,
          dead       \* the process was killed

fifoVars == <<queue, sending, closed, dead>>

Init == queue = <<>> /\ sending = Null /\ closed = FALSE /\ dead = FALSE

Put(m) == /\ ~closed /\ Len(queue) < Capacity
          /\ queue' = Append(queue, m)
          /\ UNCHANGED <<sending, closed, dead>>

Get == /\ queue # <<>> /\ sending = Null /\ ~dead
       /\ sending' = Head(queue) /\ queue' = Tail(queue)
       /\ UNCHANGED <<closed, dead>>

Sent == /\ sending # Null /\ ~dead
        /\ sending' = Null
        /\ UNCHANGED <<queue, closed, dead>>

Close == ~closed /\ closed' = TRUE /\ UNCHANGED <<queue, sending, dead>>

Die == ~dead /\ dead' = TRUE /\ UNCHANGED <<queue, sending, closed>>

Next == (\E m \in Messages : Put(m)) \/ Get \/ Sent \/ Close \/ Die

Safety == Init /\ [][Next]_fifoVars

(* What is queued is published, before and after the shutdown.             *)
Spec == Safety /\ WF_fifoVars(Get) /\ WF_fifoVars(Sent)
=============================================================================
