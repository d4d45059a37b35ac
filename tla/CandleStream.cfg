SPECIFICATION FairStreamSpec
CONSTANTS
  MaxTime = 8
  Limit = 3
  Reserve = 0
  Startup = 0
  Troubles = 1
  Unexpected = TRUE
  OtherPairs = TRUE
INVARIANT NoLookahead
PROPERTY LastCandleIsSeen HolesAreExplained
CHECK_DEADLOCK FALSE
