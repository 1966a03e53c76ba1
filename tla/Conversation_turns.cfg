SPECIFICATION Spec
SYMMETRY Symmetry
CONSTANTS
  Tabs = {t1, t2}
  Calls = {c1, c2}
  Texts = {x1, x2}
  None = None
  MaxTurns = 3
  MaxLost = 1
INVARIANTS NoTurnRefused HistoryAddsUp SentOnce
CHECK_DEADLOCK FALSE
