---------------------------- MODULE MCAdcBuffer ----------------------------
(* Every size and length up to 40; the module keeps the accepted ones.     *)
EXTENDS AdcBuffer

Requested == 1 .. 40
=============================================================================
