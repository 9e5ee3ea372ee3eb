\* Two calls on two replicas, by callers with grants for different applications,
\* that race for one row, new or old.
SPECIFICATION Spec
CONSTANTS
  JobID = {j1}
  Definition = {d1}
  MaxVersion = 3
  Replica = {r1, r2}
  Call = {c1, c2}
  Application = {p1, p2}
  Nobody = Nobody
  Recording = TRUE
SYMMETRY Symmetry
INVARIANTS
  TypeOK
  ReplyIsStoredRow
  DeleteIsFinal
  RefusedMeansUnwritten
  OnlyOwnersWrite
  LogMatchesWrites
PROPERTIES
  AcknowledgedIsNoticed
CHECK_DEADLOCK FALSE
