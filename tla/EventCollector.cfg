SPECIFICATION FairSpec
CONSTANTS
  Ids = {a, b}
  BatchSize = 2
  MaxRetryAttempts = 3
  Databases = {"postgres", "sqlite"}
  MaxVersion = 2
INVARIANTS
  BatchInv
  LastVersionKept
PROPERTIES
  RowsNeverGoBack
  EventuallyFlushed
CHECK_DEADLOCK FALSE
