SPECIFICATION Spec
CONSTANTS
  Runtimes = {r1, r2}
  NoRuntime = NoRuntime
  NoLease = NoLease
  MaxGeneration = 3
  MaxIncarnation = 1
  MaxQueue = 1
PROPERTIES
  ShutdownCompletes
CHECK_DEADLOCK FALSE
