\* One call, and a job that is created, redefined, disabled, enabled and
\* deleted around it.
SPECIFICATION FairSpec
CONSTANTS
  JobID = {j1}
  Definition = {d1, d2}
  MaxVersion = 4
  Replica = {r1}
  Attempt = {a1}
  MaxTick = 1
  Free = Free
INVARIANTS
  ManualRunsPinnedVersion
  ScheduledRunsFiredDefinition
PROPERTIES
  EveryCallReturns
  LockIsReleased
CHECK_DEADLOCK FALSE
