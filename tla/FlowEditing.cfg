SPECIFICATION Spec
CONSTANTS
  Files = {main, sub}
  TopLevel = {main}
  Initially = {main}
  Editors = {ann, bob}
  MaxOps = 2
  Loaders = {studio}
INVARIANTS
  MutexInv
  CachesSettle
  EmptyOnlyIfCrossed
SYMMETRY EditorSymmetry
CHECK_DEADLOCK FALSE
