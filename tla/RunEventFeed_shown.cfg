SPECIFICATION FeedSpec
CONSTANTS
  t1 = t1
  Tasks = {t1}
  Operations = {o1, o2}
  Writers = {w1, w2}
  Pages = {p1}
  TaskOf <- TaskOfValue
  ShownTask <- ShownTaskValue
  Nothing = Nothing
  MaxCursor = 3
  MaxFeedFaults = 2
INVARIANT NothingSkipped
PROPERTY EventsAreShown
CHECK_DEADLOCK FALSE
