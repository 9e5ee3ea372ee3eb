\* Three pieces of work; every configuration that is at most two switches away
\* from a shipped one, with or without secrets and upstream credentials.
SPECIFICATION FairProcessSpec
CONSTANTS
  Work = {w1, w2, w3}
  ProfileSet = {"development", "test", "compose", "production", "staging"}
  Turnings <- MCTurnings
INVARIANTS
  ResourcesOutliveUsers
  OrderlyExit
  ProductionIsGuarded
  ServesEquipped
  AcceptedStarts
PROPERTIES
  StopEnds
CHECK_DEADLOCK FALSE
