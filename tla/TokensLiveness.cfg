SPECIFICATION FairSpec
CONSTANTS
  Tokens = {t1, t2, t3, t4}
  NoToken = NoToken
  Keys = {k1, k2}
  NoKey = NoKey
  ReplayTTL = 0
  PruneAbove = 0
  Instances = {i1}
  NoInstance = NoInstance
  Requests = {q1, q2, q3}
  NoRequest = NoRequest
  RefreshTTL = 0
  MaxTime = 0
PROPERTIES
  RequestsEnd
