----------------------------- MODULE MCLcdQueue -----------------------------
(* A ring of three places and enough messages to go round it twice.        *)
EXTENDS LcdQueue
=============================================================================
