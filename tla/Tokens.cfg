SPECIFICATION Spec
CONSTANTS
  Tokens = {t1, t2, t3}
  NoToken = NoToken
  Keys = {k1, k2}
  NoKey = NoKey
  ReplayTTL = 1
  PruneAbove = 0
  Instances = {i1, i2}
  NoInstance = NoInstance
  Requests = {q1, q2, q3}
  NoRequest = NoRequest
  RefreshTTL = 1
  MaxTime = 2
SYMMETRY Symmetry
INVARIANTS
  OneLiveToken
  IndInv
PROPERTIES
  ImplementsTokenFamily
  RetryIsNotReuse
