SPECIFICATION Spec
CONSTANTS
  Pairs = {p1, p2}
  Configured = {p1}
  Generators = {"static"}
  Filters = {"static", "producer", "remote", "remoteFilter", "remoteBlock", "ranked", "marketcap", "ticker", "candles", "age", "offset", "performance", "full", "shuffle"}
  MaxFilters = 0
  MaxAssets = 1
  MaxOpen = 1
  KeepOnFailure = TRUE
  AllowInactive = FALSE
  MaxBlack = 2
  DeleteInCheck = TRUE
INVARIANT BlacklistIsRespected
