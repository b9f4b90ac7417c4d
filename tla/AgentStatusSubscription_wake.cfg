SPECIFICATION Safety
CONSTANTS
  Panes = {p1, p2}
  NoReply = NoReply
  MaxStarts = 2
  MaxChanges = 2
  MaxLost = 0
  MaxFailures = 1
INVARIANT EveryWakeSurvives
CHECK_DEADLOCK FALSE
