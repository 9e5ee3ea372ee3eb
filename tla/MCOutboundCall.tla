--------------------------- MODULE MCOutboundCall ---------------------------
(* OutboundCall, and with it ExecutionLease, on a small instance.          *)
EXTENDS OutboundCall, TLC

Symmetry == Permutations(Attempt)

=============================================================================
