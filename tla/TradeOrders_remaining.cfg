SPECIFICATION Spec
CONSTANTS
  MaxOrders = 4
  EntryAmount = 2
  MinAmount = 1
  ExitTimeouts = 0
  Spare = 0
  OnExchangeStop = FALSE
  TrailingStop = FALSE
  Adjust = FALSE
  Replace = TRUE
  Commands = {"exit"}
  Crashes = 0
  Answers = {"raced"}
PROPERTY ReplacementIsRemaining
CHECK_DEADLOCK FALSE
