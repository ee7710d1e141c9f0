------------------------------ MODULE MCPruGet ------------------------------
(* PruGet is finite: nothing has to be bounded.                            *)
EXTENDS PruGet
=============================================================================
