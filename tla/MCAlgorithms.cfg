\* The algorithms stop when they have their answer.
CHECK_DEADLOCK FALSE
CONSTANTS
  a = a
  b = b
  c = c
  x = x
  Names <- MCNames
  Configs <- MCConfigs
  NaN = NaN
  Identifiers <- MCIdentifiers
  Tags <- MCTags
  MaxReleases = 3
  WindowSize = 3
  Budgets <- MCBudgets
  Tokens = {1, 2}
  MaxMessages = 6
SPECIFICATION Spec
INVARIANTS
  OrderRespectsDependencies
  OrderOrCycle
  NewerThanIsOrder
  LatestIsNewest
  PairsKept
  WindowIsLongest
