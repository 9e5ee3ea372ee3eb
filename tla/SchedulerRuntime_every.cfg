\* One @every job whose duration exceeds the reload interval.
SPECIFICATION FairSpec
CONSTANTS
  JobID = {1}
  Definition = {every}
  CronDef = {}
  EveryDef = {every}
  PoisonDef = {}
  MaxVersion = 1
  MaxWrites = 2
  Replica = {r1}
  Period = 2
  Delay = 3
  Interval = 2
  Restarts = FALSE
PROPERTY EveryFires
