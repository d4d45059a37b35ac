SPECIFICATION Spec
CONSTANTS
  MaxOrders = 3
  EntryAmount = 2
  MinAmount = 1
  ExitTimeouts = 0
  Spare = 0
  OnExchangeStop = FALSE
  TrailingStop = FALSE
  Adjust = FALSE
  Replace = FALSE
  Commands = {"reload"}
  Crashes = 0
  Answers = {}
PROPERTY RecalculatingClosesAtZero
CHECK_DEADLOCK FALSE
