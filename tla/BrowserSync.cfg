SPECIFICATION Spec
CONSTANTS
  Conns = {c1, c2}
  Default = c1
  Legacy = Legacy
  MaxGen = 2
  MaxAsks = 2
  MaxChanges = 2
  MaxTroubles = 2
INVARIANTS
  IInv
  QuietMeansFresh
PROPERTIES
  FollowsRuntimes
  BrowserCatchesUp
CHECK_DEADLOCK FALSE
