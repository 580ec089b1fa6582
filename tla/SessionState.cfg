SPECIFICATION FairSessionSpec
CONSTANTS
  Sessions = {s1, s2}
  MaxTurns = 2
  MaxExpiries = 2
  MaxMishaps = 1
  WithRedis = {s1}
  BatchSize = 2
  Modes = {TRUE, FALSE}
INVARIANTS
  RowsInv
  TurnsKept
PROPERTY
  StaleSessionsHandled
CHECK_DEADLOCK FALSE
