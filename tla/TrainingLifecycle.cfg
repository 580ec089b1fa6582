SPECIFICATION MCSpec
CONSTANTS
  v1 = v1
  v2 = v2
  v3 = v3
  MaxTasks = 3
  Holders = {1, 2, 3}
  Versions = {v1, v2, v3}
  MaxMishaps = 1
  Disabled = FALSE
INVARIANTS
  LockInv
  StatusSettles
  ServedWhenMounted
CHECK_DEADLOCK FALSE
