SPECIFICATION Spec
CONSTANTS
  JobID = {j1}
  Definition = {d1}
  MaxVersion = 2
  Replica = {r1, r2}
  Attempt = {a1}
  MaxTick = 1
  Free = Free
SYMMETRY Symmetry
INVARIANT ScheduledNeverStale
CHECK_DEADLOCK FALSE
