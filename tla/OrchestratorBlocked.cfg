SPECIFICATION Spec
CONSTANTS
  Runs = {r1, r2}
  NoRun = NoRun
  Items <- OneItem
  Regions <- OneRegion
  RegionOf <- OneItemRegion
  Batches <- OneMove
  Prices = {0, 1, 2}
  Units = {"Hrs", "Mo"}
  AnomalyThreshold = 2
  RunTimeout = 4
  LockTTL = 4
  MaxAttempts = 3
  MaxStart = 4
  MaxTime = 6
  RedisStates = {TRUE}
INVARIANT PermanentFailuresBlocked
