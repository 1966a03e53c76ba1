SPECIFICATION Spec
SYMMETRY Symmetry
CONSTANTS
  None = None
  Ops = {o1}
  Workers = {w1, w2}
  Requests = {r1, r2}
  Lease = 0
  MaxAttempts = 1
  MaxSnapshots = 2
  PausedStates = {"PAUSED_USER"}
  Stages = {}
  Permissions = {"RESUME_ALLOWED", "MANUAL_VERIFICATION_REQUIRED", "RESUME_DENIED"}
INVARIANTS
  ResumesWhatWasConfirmed
  CompletedResumeHolds
CHECK_DEADLOCK FALSE
