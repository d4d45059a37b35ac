SPECIFICATION Spec
CONSTANTS
  MaxOrders = 3
  EntryAmount = 2
  MinAmount = 1
  ExitTimeouts = 1
  Spare = 0
  OnExchangeStop = TRUE
  TrailingStop = FALSE
  Adjust = TRUE
  Replace = TRUE
  Commands = {"delete", "reload"}
  Crashes = 1
  Answers = {"raced", "slow", "expired", "error", "lost"}
INVARIANTS AmountIsNet ClosedRowsAreFinal CommittedWhenIdle
CHECK_DEADLOCK FALSE
