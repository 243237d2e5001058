SPECIFICATION FairSpec
CONSTANTS
  NoHeader = NoHeader  Unreadable = Unreadable
  MaxSkew = 1
  d1 = d1  d2 = d2  d3 = d3  t1 = t1  t2 = t2
  Delivery <- ThreeDeliveries
  Tenant = {t1, t2}
  TenantOf <- FirstAlone
  Schedule <- MCSchedule
  MaxRetries = 1
  Concurrency = 2
  Faults = {"db", "decrypt"}
  Broken = {t1}
  Backlog = {d1, d2}
  TickId = {1, 2}
  MaxClock = 1
  MaxAccepts = 0
  MaxDisturbances = 1
PROPERTIES HealthyIsAttempted
CHECK_DEADLOCK FALSE
