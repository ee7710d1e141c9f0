---------------------------- MODULE MCTaskQueue ----------------------------
(* Two producers although only the mosquitto thread enqueues: the queue is *)
(* written for any number of them.                                         *)
EXTENDS TaskQueue
=============================================================================
