SPECIFICATION FairSpec
CONSTANTS
  MaxCandle = 3
  History = 3
  Full = 3
  MaxList = 1
  Configured = 1
  Changes = 0
  Losses = 0
  Backlog = 2
PROPERTY PairsAreReused
CHECK_DEADLOCK FALSE
