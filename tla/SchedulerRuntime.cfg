\* A replica that comes and goes; two jobs, sound, poisoned or @every, that are
\* written with and without a signal.
SPECIFICATION FairSpec
CONSTANTS
  JobID = {1, 2}
  Definition = {cron, every, poison}
  CronDef = {cron}
  EveryDef = {every}
  PoisonDef = {poison}
  MaxVersion = 2
  MaxWrites = 2
  Replica = {r1}
  Period = 3
  Delay = 3
  Interval = 2
  Restarts = TRUE
INVARIANTS
  LocalChangeNoticed
  CronStaysAligned
PROPERTIES
  EventuallyLoaded
  CronFires
CHECK_DEADLOCK FALSE
