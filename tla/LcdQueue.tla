------------------------------ MODULE LcdQueue ------------------------------
(***************************************************************************)
(* The display: lcd_show_message, called by any thread and never blocking, *)
(* the ring buffer of lcd_queue.c, and the display thread (lcd_display.c), *)
(* which looks before every message whether the display answers and throws *)
(* the queue away when it comes back.                                      *)
(*                                                                         *)
(* Messages are numbered in the order in which they are shown.             *)
(***************************************************************************)
EXTENDS Naturals

CONSTANTS
  Capacity,   \* LCD_QUEUE_CAPACITY
  MaxShown    \* bound on the messages

ASSUME LcdAssumption == Capacity \in Nat \ {0} /\ MaxShown \in Nat

VARIABLES
  buffer, head, tail, count, shutdown,   \* the LcdQueue
  accepted,   \* number of the last message accepted
  lpc, msg,   \* display thread: step and message taken
  available,  \* lcd_available
  displayed   \* history: number of the last message put on the display

queueVars == <<buffer, head, tail, count, shutdown>>
vars == <<queueVars, accepted, lpc, msg, available, displayed>>

Places == 0 .. Capacity - 1
After(i) == (i + 1) % Capacity
NoMessage == 0

Init ==
  /\ buffer = [i \in Places |-> NoMessage]
  /\ head = 0 /\ tail = 0 /\ count = 0 /\ shutdown = FALSE
  /\ accepted = 0
  /\ lpc = "start" /\ msg = NoMessage /\ available = FALSE
  /\ displayed = 0

(* Mutant of Show: the display thread is not woken.                        *)
ShowSilent ==
  /\ ~shutdown /\ count # Capacity /\ accepted < MaxShown
  /\ accepted' = accepted + 1
  /\ buffer' = [buffer EXCEPT ![tail] = accepted + 1]
  /\ tail' = After(tail)
  /\ count' = count + 1
  /\ UNCHANGED <<head, shutdown, lpc, msg, available, displayed>>

(* lcd_queue_enqueue; when the queue is full or shut down the message is   *)
(* dropped, which leaves this state unchanged.  An old text stays in the   *)
(* buffer until it is overwritten.                                         *)
Show ==
  /\ ~shutdown /\ count # Capacity /\ accepted < MaxShown
  /\ accepted' = accepted + 1
  /\ buffer' = [buffer EXCEPT ![tail] = accepted + 1]
  /\ tail' = After(tail)
  /\ count' = count + 1
  /\ lpc' = IF lpc = "asleep" THEN "dequeue" ELSE lpc
  /\ UNCHANGED <<head, shutdown, msg, available, displayed>>

Shutdown ==
  /\ ~shutdown /\ shutdown' = TRUE
  /\ lpc' = IF lpc = "asleep" THEN "dequeue" ELSE lpc
  /\ UNCHANGED <<buffer, head, tail, count, accepted, msg, available, displayed>>
-----------------------------------------------------------------------------
(***************************************************************************)
(* The display thread.                                                     *)
(***************************************************************************)

(* lcd_set_i2c at the start: the display answers, or it does not.          *)
Start ==
  /\ lpc = "start" /\ lpc' = "dequeue"
  /\ available' \in BOOLEAN
  /\ UNCHANGED <<queueVars, accepted, msg, displayed>>

DequeueWait ==
  /\ lpc = "dequeue" /\ count = 0 /\ ~shutdown
  /\ lpc' = "asleep"
  /\ UNCHANGED <<queueVars, accepted, msg, available, displayed>>

SpuriousWakeup ==
  /\ lpc = "asleep" /\ lpc' = "dequeue"
  /\ UNCHANGED <<queueVars, accepted, msg, available, displayed>>

(* A queue that is shut down is emptied first.                             *)
Dequeue ==
  /\ lpc = "dequeue" /\ count # 0
  /\ lpc' = "probe"
  /\ msg' = buffer[head]
  /\ head' = After(head)
  /\ count' = count - 1
  /\ UNCHANGED <<buffer, tail, shutdown, accepted, available, displayed>>

(* Mutant of DequeueEnd: the shutdown does not wait for the queue.         *)
DequeueEndAtOnce ==
  /\ lpc = "dequeue" /\ shutdown
  /\ lpc' = "exited"
  /\ UNCHANGED <<queueVars, accepted, msg, available, displayed>>

(* -1: the thread reads shutdown, outside the mutex, and leaves.           *)
DequeueEnd ==
  /\ lpc = "dequeue" /\ count = 0 /\ shutdown
  /\ lpc' = "exited"
  /\ UNCHANGED <<queueVars, accepted, msg, available, displayed>>

(* lcd_set_i2c before each message.                                        *)
Probe ==
  /\ lpc = "probe"
  /\ \E answers \in BOOLEAN :
       /\ available' = answers
       /\ lpc' = IF answers THEN IF available THEN "display" ELSE "reset"
                            ELSE "dequeue"
       /\ msg' = IF answers THEN msg ELSE NoMessage
  /\ UNCHANGED <<queueVars, accepted, displayed>>

(* Mutant of Reset: the tail is forgotten.                                 *)
ResetKeepingTail ==
  /\ lpc = "reset" /\ lpc' = "display"
  /\ head' = 0 /\ count' = 0
  /\ UNCHANGED <<buffer, tail, shutdown, accepted, msg, available, displayed>>

(* The display is back: it is initialised and what is queued discarded.    *)
Reset ==
  /\ lpc = "reset" /\ lpc' = "display"
  /\ head' = 0 /\ tail' = 0 /\ count' = 0
  /\ UNCHANGED <<buffer, shutdown, accepted, msg, available, displayed>>

Display ==
  /\ lpc = "display" /\ lpc' = "dequeue"
  /\ displayed' = msg /\ msg' = NoMessage
  /\ UNCHANGED <<queueVars, accepted, available>>

DisplayStep ==
  Start \/ DequeueWait \/ Dequeue \/ DequeueEnd \/ Probe \/ Reset \/ Display

Next == Show \/ Shutdown \/ SpuriousWakeup \/ DisplayStep

Spec == Init /\ [][Next]_vars

(* The display thread runs; nobody has to show anything or to shut down.   *)
FairSpec == Spec /\ WF_vars(DisplayStep)
-----------------------------------------------------------------------------
Messages == 0 .. MaxShown

(* Messages are displayed in the order in which they were shown and none   *)
(* twice, although the old texts stay in the ring, the ring is reset while *)
(* other threads fill it, and full rings drop messages: what is queued is  *)
(* ascending from head to the last accepted, and all of it is newer than   *)
(* the message in hand and the one on the display.                         *)
Queued(i) == buffer[(head + i) % Capacity]

AscendingQueue ==
  /\ \A i, j \in 0 .. count - 1 : i < j => Queued(i) < Queued(j)
  /\ \A i \in 0 .. count - 1 : /\ Queued(i) > msg /\ Queued(i) > displayed
                               /\ Queued(i) <= accepted
  /\ msg # NoMessage => msg > displayed

(* The thread never sleeps with a message to display or a shutdown to see. *)
NoLostWakeup == lpc = "asleep" => count = 0 /\ ~shutdown

(* After a shutdown the thread ends, whether the display answers or not,   *)
(* and nothing accepted is left behind in the queue.                       *)
ShutdownEnds == shutdown ~> (lpc = "exited" /\ count = 0 /\ msg = NoMessage)
=============================================================================
