SPECIFICATION QueueSpec
CONSTANTS
  Sessions = {s1, s2}
  MaxStarts = 3
  MaxCancels = 2
  MaxCrashes = 1
  Impatient = FALSE
INVARIANTS
  WorkersInv
  WorkersAccountedFor
  OwnOutput
  NothingHangs
CHECK_DEADLOCK FALSE
