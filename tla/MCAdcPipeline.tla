--------------------------- MODULE MCAdcPipeline ---------------------------
(* Two commands of one or two double buffers each, a FIFO of two nodes,    *)
(* and more batches than both can use of one acquisition.                  *)
EXTENDS AdcPipeline
=============================================================================
