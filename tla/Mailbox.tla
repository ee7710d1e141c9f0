------------------------------ MODULE Mailbox ------------------------------
(***************************************************************************)
(* What task_queue.c promises its users, without mutex and condition       *)
(* variable: a box for one command between any number of producers and one *)
(* worker.  A put into a full box is refused and leaves the box alone; the *)
(* worker takes what is in the box as long as the box is open, and learns  *)
(* of the shutdown otherwise.                                              *)
(***************************************************************************)
CONSTANTS Items, Empty

VARIABLES box,      \* the command in the box, or Empty
          open,     \* not shut down yet
          taken     \* what the worker got last; "shutdown" ends it

mailboxVars == <<box, open, taken>>

Init == box = Empty /\ open = TRUE /\ taken = Empty

Put(v) == box = Empty /\ box' = v /\ UNCHANGED <<open, taken>>

Take == /\ open /\ box # Empty /\ taken = Empty
        /\ taken' = box /\ box' = Empty
        /\ UNCHANGED open

Finish == taken \in Items /\ taken' = Empty /\ UNCHANGED <<box, open>>

Close == open /\ open' = FALSE /\ UNCHANGED <<box, taken>>

Leave == ~open /\ taken = Empty /\ taken' = "shutdown" /\ UNCHANGED <<box, open>>

Next == (\E v \in Items : Put(v)) \/ Take \/ Finish \/ Close \/ Leave

Safety == Init /\ [][Next]_mailboxVars

(* A worker that can take or must leave does so; it finishes its work.     *)
Spec == Safety /\ WF_mailboxVars(Take \/ Leave)
=============================================================================
