SPECIFICATION OidcFairSpec
CONSTANTS
  k1 = k1  k2 = k2
  Kid = {k1, k2}
  Jwk <- MCJwk
  FirstKids = {k1}
  Push = {p1}
  Stray = {s1}
  LoadId = {1, 2}
  Ttl = 1
  Skew = 0
  TokenLife = 1
  MaxLatency = 1
  MaxClock = 2
  MaxRotations = 2
  MaxFaults = 1
  MaxAdmin = 2
INVARIANTS OneFetchAtATime PublishedKeyIsFound RetiredKeyExpires
PROPERTIES PushGetsThrough
CHECK_DEADLOCK FALSE
