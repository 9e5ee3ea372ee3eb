--------------------------- MODULE MCJobExecution ---------------------------
(* JobExecution on small instances.                                        *)
EXTENDS JobExecution, TLC

\* Calls and replicas are only ever told apart by what they do.
Symmetry == Permutations(Attempt) \cup Permutations(Replica)

=============================================================================
