SPECIFICATION Spec
CONSTANTS
  Calls = {c1, c2, c3}
  NoTimer = NoTimer
  MaxAttempts = 2
  MaxCommands = 2
  MaxResets = 1
INVARIANTS
  IInv
  RetriesAreBounded
  DisconnectHolds
  FailureIsAnswered
PROPERTIES
  ExitChargedOnce
  StatusIsOrderly
  ReconnectingEnds
CHECK_DEADLOCK FALSE
