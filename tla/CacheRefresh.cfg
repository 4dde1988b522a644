CONSTANTS
  x = x
  y = y
  z = z
  Hooks = {hook}
  Queries = {x, y}
  Warm = z
  Nearby <- SimilarTo
  LifeTime <- OneUse
  QueryBytes = 1
  WarmBytes = 1
  MaxEntries = 2
  MaxBytes = 2
  CacheHorizon = 3
  CacheBudget = 3
SPECIFICATION CacheSpec
CHECK_DEADLOCK FALSE
PROPERTY RefreshIsKept
