------------------------- MODULE MCSchedulerRuntime -------------------------
(* SchedulerRuntime on small instances.                                    *)
EXTENDS SchedulerRuntime, TLC

Symmetry == Permutations(Replica)

=============================================================================
