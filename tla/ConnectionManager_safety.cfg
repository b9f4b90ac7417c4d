SPECIFICATION Safety
CONSTANTS
  Runtimes = {r1, r2}
  NoRuntime = NoRuntime
  NoLease = NoLease
  MaxGeneration = 3
  MaxIncarnation = 2
  MaxQueue = 1
SYMMETRY RuntimeSymmetry
INVARIANTS
  IInv
  LeaseIsLive
  NoRuntimeLost
  ShutdownDrains
PROPERTIES
  LeaseNeverRevives
  RefinesLifecycle
  StatusIsOrderly
CHECK_DEADLOCK FALSE
