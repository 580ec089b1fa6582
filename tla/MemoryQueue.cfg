SPECIFICATION FairSpec
CONSTANTS
  j1 = j1
  j2 = j2
  c1 = c1
  c2 = c2
  Jobs = {j1, j3, j4}
  Convs = {c1, c2}
  ConvOf <- MCConvOf
  NumSubscribers = 2
  MaxRetries = 2
  InitialRetries = 1
  Responsive = {c1}
INVARIANTS
  OneAtATime
  NoJobLost
  RetriesBounded
  NoLostWakeup
  IInv
PROPERTY
  HungConversationsIsolated
  ImplementsFifo
CHECK_DEADLOCK FALSE
