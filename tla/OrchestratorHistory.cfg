SPECIFICATION Spec
CONSTANTS
  Runs = {r1, r2, r3}
  NoRun = NoRun
  Items <- OneItem
  Regions <- OneRegion
  RegionOf <- OneItemRegion
  Batches <- PriceMoves
  Prices = {0, 1, 2, 3}
  Units = {"Hrs", "Mo"}
  AnomalyThreshold = 2
  RunTimeout = 2
  LockTTL = 2
  MaxAttempts = 1
  MaxStart = 3
  MaxTime = 5
  RedisStates = {TRUE}
SYMMETRY RunSymmetry
INVARIANTS
  TypeOK
  ExclusiveIngestion
  AdjacentRowsDiffer
  AnomalyFlagsExact
  PricePeriodsDisjoint
  DLQCountExact
  IndInv
