SPECIFICATION Spec
SYMMETRY Symmetry
CONSTANTS
  None = None
  Ops = {o1}
  Workers = {w1, w2}
  Requests = {r1}
  Lease = 0
  MaxAttempts = 2
  MaxSnapshots = 2
  PausedStates = {"PAUSED_USER"}
  Stages = {"GENERATING"}
  Permissions = {"RESUME_ALLOWED", "MANUAL_VERIFICATION_REQUIRED"}
INVARIANTS
  OneOutcomePerRun
  PausedOnSavedSnapshot
PROPERTIES
  KeepsContract
  PauseWaitsForUser
CHECK_DEADLOCK FALSE
