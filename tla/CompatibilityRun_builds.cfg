CONSTANTS
  r1 = r1
  r2 = r2
  g1 = g1
  n1 = n1
  b1 = b1
  b2 = b2
  b3 = b3
  Runs = {r1, r2}
  GitCandidates = {g1}
  NpmCandidates = {n1}
  Asked <- MCAsked
  Builds = {b1, b2, b3}
  BuildsOf <- MCBuildsOf
  Slots = {s1}
  Mixed = {b3}
  ModelRuns = {r1}
  Left = {g1, s1}
  Earlier = Earlier
  None = None
  MaxPauses = 1
SPECIFICATION Spec
INVARIANTS PublishedIsWhole BuiltOnce ReportIsHonest
PROPERTY EveryRunEnds
CHECK_DEADLOCK FALSE
