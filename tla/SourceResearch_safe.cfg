SPECIFICATION Spec
SYMMETRY Symmetry
CONSTANTS
  None = None
  a1 = a1
  j1 = j1
  b1 = b1
  Accounts = {a1}
  MaxLogins = 2
  Users = {u1, u2}
  Workers = {w1, w2}
  Callers <- CallersValue
  Jobs = {j1}
  AccountOf <- AccountValue
  BatchOf <- BatchValue
  Supported = {j1}
  MaxFaults = 1
  MaxRequests = 1
  MaxAttempts = 2
  MaxCheckpoint = 2
INVARIANTS SecretsMatch ResultOnce
PROPERTIES ResearchOnlyAdvances
CHECK_DEADLOCK FALSE
