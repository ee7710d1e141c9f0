------------------------------ MODULE MCPruSet ------------------------------
(* Two of the four output pins, so that a command can name one and leave   *)
(* the other.                                                              *)
EXTENDS PruSet

TwoPins == 0..1
=============================================================================
