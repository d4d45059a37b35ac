SPECIFICATION Spec
CONSTANTS
  Pairs = {p1, p2}
  MaxOpenTrades = 1
  Stacking = {TRUE, FALSE}
  Protect = {TRUE, FALSE}
  CanShort = TRUE
  MaxEntries = 2
  Candles = 2
  Details = 2
  Lookback = 2
  Cooldown = 1
  GuardLimit = 1
  GuardStop = 1
  PerSide = FALSE
INVARIANT OneOrderThatFits
PROPERTY KeepsSlots LocksAreRespected OneTradeAtATime
CHECK_DEADLOCK FALSE
