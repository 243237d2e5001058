SPECIFICATION FairSpec
CONSTANTS
  r1 = r1  r2 = r2
  RowId = {r1, r2}
  Slots <- MCSlots
  Window <- MCWindow
  Keep = Keep
  BatchSize = 1
  MaxBatches = 1
  MaxFaults = 1
  MaxRestarts = 1
  MaxClock = 2
INVARIANTS OneSweep ClosedMeansQuiet NoOrphanDelivery
PROPERTIES OnlyExpiredDeleted ExpiredEventuallyPurged
