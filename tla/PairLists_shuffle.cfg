SPECIFICATION Spec
CONSTANTS
  Pairs = {p1, p2}
  Configured = {p1}
  Generators = {"ranked"}
  Filters = {"shuffle"}
  MaxFilters = 1
  MaxAssets = 1
  MaxOpen = 1
  KeepOnFailure = TRUE
  AllowInactive = FALSE
  MaxBlack = 1
  DeleteInCheck = FALSE
INVARIANT ShuffledIsListed
