SPECIFICATION Spec
CONSTANTS
  Viewers = {v1, v2}
  MaxAttach = 3
INVARIANT EveryViewerIsServed
CHECK_DEADLOCK FALSE
