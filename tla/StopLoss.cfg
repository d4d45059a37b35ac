SPECIFICATION Spec
CONSTANTS
  Prices = {9, 10, 12}
  Den = 10
  Leverages = {1, 2}
  Stoplosses = {3, 4}
  Customs = {1, 5}
  UseCustom = {TRUE, FALSE}
  Trailing = {TRUE, FALSE}
  OnlyOffset = {TRUE, FALSE}
  Positives = {0, 1}
  Offset = 2
  AfterFill = {TRUE, FALSE}
  MaxFills = 2
INVARIANTS TypeOK TrailingMeansMoved StopSellsInCandle
PROPERTY StopOnlyTightens
