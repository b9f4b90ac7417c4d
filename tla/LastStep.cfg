CONSTANTS
  p1 = p1
  p2 = p2
  w1 = w1
  w2 = w2
  NoWorkspace = NoWorkspace
  Panes = {p1, p2}
  Workspaces = {w1, w2}
  Starts <- MCStarts
  MaxChanges = 3
SPECIFICATION Safety
INVARIANTS IInv QuietMeansSettled SettledIsTrue
PROPERTY StepsAreRecorded
CHECK_DEADLOCK FALSE
SYMMETRY Symmetry
