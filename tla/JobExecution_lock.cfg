\* Two replicas, a job that is created and never changed, calls that contend
\* for its lock over two ticks.
SPECIFICATION Spec
CONSTANTS
  JobID = {j1}
  Definition = {d1}
  MaxVersion = 1
  Replica = {r1, r2}
  Attempt = {a1, a2}
  MaxTick = 2
  Free = Free
SYMMETRY Symmetry
INVARIANTS
  TypeOK
  MutualExclusion
  RefusedMeansNotRun
  ReportMatchesRow
PROPERTY ImplementsLedger
CHECK_DEADLOCK FALSE
