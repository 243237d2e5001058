SPECIFICATION FairSpec
CONSTANTS
  r1 = r1  r2 = r2
  Request = {r1, r2}
  BatchSize = 2
  MaxBatches = 2
  MaxArrivals = 3
  MaxCrashes = 2
  InitialRows = 5
INVARIANTS OnlyInFlightSurvive CompleteMeansErased
PROPERTIES EventuallyComplete
CHECK_DEADLOCK FALSE
