SPECIFICATION ServicesSpec
CONSTANTS
  Readers = {c1, c2}
  NoReader = NoReader
  MaxPrices = 2
  Calls <- MCCalls
  Nobody = "none"
  Callers <- MCCallers
  TierRate <- MCTierRate
  Ceiling = 2
  MinuteTicks = 1
  CounterTTL = 2
  RedisTimeout = 1
  MaxRetries = 1
  MaxLost = 1
  MaxTick = 2
  Verifiers = {v1, v2}
  Resends = {s1, s2}
  TokenTTL = 1
  MaxActive = 2
  MaxIssued = 4
  MaxDay = 1
  FxBase = USD
  FxForeign = {EUR, INR}
  FxCalls = {x1, x2}
  MaxDate = 1
  Fetches = {f1, f2, f3}
  NoFetch = NoFetch
  MaxPairs = 3
  MaxStreams = 2
  MaxPages = 2
  Chunks = 2
  PageCap = 3
  MaxUnmapped = 50
  AwsProducts <- MCAwsProducts
  AwsOffers = {"price", "tiered", "invalid", "noOnDemand"}
  AwsOfferCode = "AmazonEC2"
  AzureItems <- MCAzureItems
  AzurePageSize = 1
  GcpSkus <- MCGcpSkus
  GcpTargets = {"compute", "storage", "database_rdbms", "network", "serverless"}
  GcpPageSkus = 1
  GcpPages = 2
  DocItems <- MCDocItems
  DocLength = 2
  MatchTargets <- MCMatchTargets
  MatchForeign <- MCMatchForeign
  MatchLists <- MCMatchLists
  CalcProviders <- MCCalcProviders
  CalcSupports = {"aws"}
  CalcCosts = {3}
  CalcRequests <- MCCalcRequests
  RequestsAsked <- MCRequestsAsked
CHECK_DEADLOCK FALSE
INVARIANTS
  ServicesTypeOK
  OnlyTheCancelledGiveUp
  ListNotOlderThanItsQuery
  LimitHolds
  RejectionsEarned
  CountersExpire
  SessionsNeedMailedToken
  UsedLinkRefused
  ActiveTokensBounded
  ConversionsHonest
  RefreshTokensServeOnce
  RawBeforePrices
  PagesLostOnlyBySkipping
  DriftSurfaces
  ComposedAcrossPages
  PricedOnceInARegion
  ExactMeansAsked
  HonestTotals
  OneContract
PROPERTIES
  ReadersAnswered
  FetchesSettle
  FetchEnds
  GrowthNeverCheaper
