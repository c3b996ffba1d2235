SPECIFICATION Spec
CONSTANTS
  Runs = {r1, r2}
  NoRun = NoRun
  Items <- OneItem
  Regions <- OneRegion
  RegionOf <- OneItemRegion
  Batches <- Tiers
  Prices = {1, 2}
  Units = {"GB"}
  AnomalyThreshold = 10
  RunTimeout = 2
  LockTTL = 2
  MaxAttempts = 1
  MaxStart = 4
  MaxTime = 6
  RedisStates = {TRUE}
INVARIANT AdjacentRowsDiffer
