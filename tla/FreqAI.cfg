SPECIFICATION Spec
CONSTANTS
  Pairs = {p1, p2}
  Leaving = {p2}
  NumKeep = 2
  Tensorboard = TRUE
  MaxTrainings = 3
  Failures = 1
  Crashes = 1
INVARIANTS RestartFindsModel OneTraining
PROPERTY TakesTurns
CHECK_DEADLOCK FALSE
