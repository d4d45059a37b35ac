SPECIFICATION Spec
CONSTANTS
  Pairs = {p1, p2}
  Clients = {c1, c2}
  MaxOpenTrades = 2
  PositionAdjustment = TRUE
  MaxTrades = 5
INVARIANTS TypeOK MainNeverDuplicates
PROPERTY KeepsSlots MainCommitsWithinLimit
CHECK_DEADLOCK FALSE
