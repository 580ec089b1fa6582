SPECIFICATION FairSpec
CONSTANTS
  m1 = m1
  m2 = m2
  c1 = c1
  Events = {e1, e2}
  Convs = {c1}
  ConvOf <- MCConvOf
  MaxAttempts = 2
  Middlewares = {m1, m2, m3}
  Order <- MCOrder
  Loaded <- MCLoaded
  Pausers = {m1}
  Directions = {"incoming", "outgoing"}
  MaxSent <- MCMaxSent
  MaxChanges <- MCMaxChanges
INVARIANTS
  ChainInv
  NoneSkipped
  PauseMutesTheBot
PROPERTIES
  SwallowIsFinal
  EventsSettle
CHECK_DEADLOCK FALSE
