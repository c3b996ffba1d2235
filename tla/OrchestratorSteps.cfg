SPECIFICATION Spec
CONSTANTS
  Runs = {r1, r2}
  NoRun = NoRun
  Items <- TwoItems
  Regions <- TwoRegions
  RegionOf <- TwoItemsRegion
  Batches <- TwoItemBatches
  Prices = {1, 2}
  Units = {"Hrs"}
  AnomalyThreshold = 2
  RunTimeout = 2
  LockTTL = 2
  MaxAttempts = 1
  MaxStart = 3
  MaxTime = 5
  RedisStates = {TRUE}
SYMMETRY RunSymmetry
PROPERTIES
  ImplementsLedger
  CacheNeverGoesBack
