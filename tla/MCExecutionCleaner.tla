------------------------- MODULE MCExecutionCleaner -------------------------
(* ExecutionCleaner on small instances.                                    *)
EXTENDS ExecutionCleaner, TLC

Symmetry == Permutations(Cleaner)

=============================================================================
