SPECIFICATION FairSpec
CONSTANTS
  MaxOrders = 3
  EntryAmount = 2
  MinAmount = 1
  ExitTimeouts = 1
  Spare = 0
  OnExchangeStop = TRUE
  TrailingStop = TRUE
  Adjust = FALSE
  Replace = FALSE
  Commands = {}
  Crashes = 1
  Answers = {"raced", "slow", "expired", "lost", "unknown", "forgotten"}
PROPERTIES SoldTradeCloses PositionGetsStop
CHECK_DEADLOCK FALSE
