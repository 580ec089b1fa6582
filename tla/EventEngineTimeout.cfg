SPECIFICATION Spec
CONSTANTS
  m1 = m1
  m2 = m2
  c1 = c1
  Events = {e1}
  Convs = {c1}
  ConvOf <- MCConvOf
  MaxAttempts = 2
  Middlewares = {m1, m2}
  Order <- MCOrder
  Loaded <- MCLoaded
  Pausers = {}
  Directions = {"incoming"}
  MaxSent <- MCMaxSent
  MaxChanges <- MCMaxChanges
PROPERTY
  TimeoutStopsProcessing
CHECK_DEADLOCK FALSE
