SPECIFICATION Spec
CONSTANTS
  MaxOrders = 3
  EntryAmount = 2
  MinAmount = 1
  ExitTimeouts = 0
  Spare = 0
  OnExchangeStop = FALSE
  TrailingStop = FALSE
  Adjust = FALSE
  Replace = FALSE
  Commands = {}
  Crashes = 1
  Answers = {}
INVARIANT CanceledEntryIsHandled
CHECK_DEADLOCK FALSE
