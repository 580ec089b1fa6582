SPECIFICATION QueueSpec
CONSTANTS
  Sessions = {s1}
  MaxStarts = 2
  MaxCancels = 0
  MaxCrashes = 0
  Impatient = TRUE
INVARIANT
  StartedOnce
CHECK_DEADLOCK FALSE
