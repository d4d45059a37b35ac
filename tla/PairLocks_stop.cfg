SPECIFICATION Spec
CONSTANTS
  Pairs = {p1}
  Timeframe = 2
  Durations = {1, 3}
  Reasons = {"user"}
  MaxLocks = 2
  MaxTime = 8
PROPERTY ExitsAreLocked
CHECK_DEADLOCK FALSE
