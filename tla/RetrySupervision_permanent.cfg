SPECIFICATION Safety
CONSTANTS
  Calls = {c1, c2, c3, c4}
  NoTimer = NoTimer
  MaxAttempts = 2
  MaxCommands = 2
  MaxResets = 1
INVARIANT PermanentFailureIsFinal
CHECK_DEADLOCK FALSE
