------------------------- MODULE MCRequestPipeline --------------------------
(* RequestPipeline on small instances.                                     *)
EXTENDS RequestPipeline, TLC

=============================================================================
