SPECIFICATION Safety
CONSTANTS
  Runtimes = {r1, r2}
  NoRuntime = NoRuntime
  NoLease = NoLease
  MaxGeneration = 2
  MaxIncarnation = 2
  MaxQueue = 1
INVARIANT WireIdentityIsExact
CHECK_DEADLOCK FALSE
