\* Two contending runs with their invocations; the tightest Slack the margin allows.
SPECIFICATION CallSpec
CONSTANTS
  Attempt = {a1, a2}
  Free = Free
  Timeout = {2}
  Slack = 4
  FinishTimeout = 1
  Lag = 1
  MaxTime = 6
  MaxAttempts = 3
  InitialBackoff = 1
  MaxBackoff = 2
  Threshold = 2
SYMMETRY Symmetry
INVARIANTS
  LeaseCoversRun
  OneEffect
CHECK_DEADLOCK FALSE
PROPERTIES
  ImplementsLease
  TripTakesRuns
