SPECIFICATION Spec
CONSTANTS
  MaxOrders = 4
  EntryAmount = 2
  MinAmount = 1
  ExitTimeouts = 0
  Spare = 0
  OnExchangeStop = TRUE
  TrailingStop = FALSE
  Adjust = TRUE
  Replace = FALSE
  Commands = {}
  Crashes = 0
  Answers = {}
PROPERTY ClosedHasNoOpenOrders
CHECK_DEADLOCK FALSE
