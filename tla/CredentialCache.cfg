SPECIFICATION Spec
CONSTANTS
  k1 = k1  k2 = k2  r1 = r1  r2 = r2
  NoRow = NoRow
  Key = {k1, k2}
  Request = {r1, r2}
  Ttl = 2
  TokenTtl = 8
  Skew = 2
  Lifetimes = {2, 5}
  MaxLatency = 1
  MaxClock = 8
  MaxFaults = 1
SYMMETRY Symmetry
INVARIANTS TokenAliveWhenSent RotationIsSeamless OldKeyRetires
CHECK_DEADLOCK FALSE
