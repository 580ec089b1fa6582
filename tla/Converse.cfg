SPECIFICATION FairSpec
CONSTANTS
  MaxRequests = 2
  MaxReplies = 1
  MaxInstructions = 1
  MaxAttempts = 2
  Patient = TRUE
INVARIANTS
  RepliesInv
PROPERTIES
  ActionsNotCutShort
  RequestsSettle
CHECK_DEADLOCK FALSE
