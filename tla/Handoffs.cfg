SPECIFICATION Spec
CONSTANTS
  Users = {u, v}
  Agents = {ann, bob}
  Newcomers = {bob}
  MaxRequests = 4
  MaxHandoffs = 2
  MaxMessages = 1
  MaxLapses = 1
INVARIANTS
  HandoffInv
  RoutedAtRest
PROPERTIES
  StatusForward
SYMMETRY UserSymmetry
CHECK_DEADLOCK FALSE
