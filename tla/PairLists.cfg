SPECIFICATION Spec
CONSTANTS
  Pairs = {p1, p2}
  Configured = {p1}
  Generators = {"static", "producer", "remote", "ranked"}
  Filters = {"static", "producer", "remote", "remoteFilter", "remoteBlock", "ranked", "marketcap", "ticker", "candles", "age", "offset", "performance", "full", "shuffle"}
  MaxFilters = 1
  MaxAssets = 1
  MaxOpen = 1
  KeepOnFailure = TRUE
  AllowInactive = FALSE
  MaxBlack = 1
  DeleteInCheck = FALSE
INVARIANTS WhitelistIsListed BlacklistIsRespected
