SPECIFICATION Spec
CONSTANTS
  Viewers = {v1, v2}
  MaxAttach = 3
INVARIANTS
  IInv
  ServedOrTold
  StreamsAreWatched
  NothingOutlivesDispose
  NewViewersArePainted
PROPERTY
  ViewersShareStream
SYMMETRY ViewerSymmetry
CHECK_DEADLOCK FALSE
