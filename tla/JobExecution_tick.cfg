SPECIFICATION Spec
CONSTANTS
  JobID = {j1}
  Definition = {d1}
  MaxVersion = 1
  Replica = {r1, r2}
  Attempt = {a1, a2}
  MaxTick = 1
  Free = Free
SYMMETRY Symmetry
INVARIANT OncePerTick
CHECK_DEADLOCK FALSE
