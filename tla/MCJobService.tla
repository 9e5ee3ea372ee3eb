---------------------------- MODULE MCJobService ----------------------------
(* JobService on a small instance.                                         *)
EXTENDS JobService, TLC

Symmetry ==
  Permutations(Call) \cup Permutations(Replica) \cup Permutations(Application)

=============================================================================
