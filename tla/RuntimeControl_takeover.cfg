CONSTANTS
  Calls = {c1, c2, c3}
  None = None
  Lease = 1
  MaxSnapshots = 2
  PausedStates = {"PAUSED_PERMISSION"}
SPECIFICATION Spec
INVARIANTS RecoverableState CountsOnce HolderIsAlone
PROPERTIES ControlIsFinal
CHECK_DEADLOCK FALSE
SYMMETRY Symmetry
