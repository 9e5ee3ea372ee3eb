\* An accepted expression that AddFunc rejects, beside a sound one.
SPECIFICATION FairSpec
CONSTANTS
  JobID = {1, 2}
  Definition = {cron, poison}
  CronDef = {cron}
  EveryDef = {}
  PoisonDef = {poison}
  MaxVersion = 1
  MaxWrites = 2
  Replica = {r1}
  Period = 2
  Delay = 3
  Interval = 2
  Restarts = FALSE
PROPERTY SoundJobsLoaded
