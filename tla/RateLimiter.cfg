SPECIFICATION Spec
CONSTANTS
  t1 = t1
  Tenant = {t1}
  Scale = 2
  Rate = 1
  Burst = 2
  ScanCost = 3
  MaxClock = 7
  MaxAdmitted = 9
INVARIANTS AdmittedBounded RetryAfterSuffices
