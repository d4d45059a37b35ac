SPECIFICATION Spec
CONSTANTS
  Pairs = {p1, p2}
  Clients = {c1, c2}
  MaxOpenTrades = 2
  PositionAdjustment = TRUE
  MaxTrades = 4
CHECK_DEADLOCK FALSE
INVARIANT OneTradePerPair
