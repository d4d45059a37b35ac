SPECIFICATION FairSpec
CONSTANTS
  MaxCandle = 5
  History = 3
  Full = 3
  MaxList = 2
  Configured = 1
  Changes = 1
  Losses = 1
  Backlog = 2
INVARIANTS NoHole BehindIsOnTheWay OldListIsReplaced
PROPERTY CatchesUp
CHECK_DEADLOCK FALSE
