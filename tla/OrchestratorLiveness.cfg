SPECIFICATION FairSpec
CONSTANTS
  Runs = {r1, r2}
  NoRun = NoRun
  Items <- OneItem
  Regions <- OneRegion
  RegionOf <- OneItemRegion
  Batches <- OneMove
  Prices = {1, 2}
  Units = {"Hrs"}
  AnomalyThreshold = 2
  RunTimeout = 2
  LockTTL = 3
  MaxAttempts = 2
  MaxStart = 3
  MaxTime = 8
  RedisStates = {TRUE, FALSE}
PROPERTIES
  RunsEnd
  LockComesFree
