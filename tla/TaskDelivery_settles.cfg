SPECIFICATION FairSpec
CONSTANTS
  None = None
  Ops = {o1}
  Workers = {w1}
  Requests = {r1}
  Lease = 0
  MaxAttempts = 2
  MaxSnapshots = 2
  PausedStates = {"PAUSED_USER", "PAUSED_PERMISSION"}
  Stages = {}
  Permissions = {"RESUME_ALLOWED"}
  Messages = {m1, m2}
  MaxFaults = 1
INVARIANT EventLogMatches
PROPERTIES
  SettlesUnlessOldReceipt ResumeAnswered EntriesDrain
CHECK_DEADLOCK FALSE
