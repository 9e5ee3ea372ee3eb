\* Two cleaners, three executions, batches of two.
SPECIFICATION FairSpec
CONSTANTS
  Execution = {1, 2, 3}
  Cleaner = {c1, c2}
  Batch = 2
  Retention = 1
  MaxTime = 2
INVARIANTS
  DeletedOnce
PROPERTIES
  RetentionRespected
  EventuallyPurged
  PassEnds
CHECK_DEADLOCK FALSE
