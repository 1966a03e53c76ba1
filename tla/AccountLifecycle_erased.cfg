SPECIFICATION FairSpec
CONSTANTS
  Accounts = {a1}
  Workers = {w1, w2}
  None = None
  Uses = {"research"}
  Grace = 1
  MaxOperations = 2
  MaxRuns = 1
  MaxTime = 1
  MaxEvents = 3
  MaxFaults = 1
INVARIANTS QueuedState ErasedIsPurged LatestStops
PROPERTIES ErasedWhenDue EventsEnd
CHECK_DEADLOCK FALSE
