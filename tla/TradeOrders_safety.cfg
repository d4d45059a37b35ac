SPECIFICATION Spec
CONSTANTS
  MaxOrders = 4
  EntryAmount = 3
  MinAmount = 2
  ExitTimeouts = 1
  Spare = 0
  OnExchangeStop = TRUE
  TrailingStop = TRUE
  Adjust = FALSE
  Replace = FALSE
  Commands = {"exit", "cancel"}
  Crashes = 0
  Answers = {"raced", "expired", "error"}
INVARIANTS NoOrderForgotten NoEmptyTrade ClosedIsSold AmountIsOwned
PROPERTY RemovedIsEmpty
CHECK_DEADLOCK FALSE
