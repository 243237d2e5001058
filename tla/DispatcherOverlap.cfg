SPECIFICATION Spec
CONSTANTS
  NoHeader = NoHeader  Unreadable = Unreadable
  MaxSkew = 1
  d1 = d1  d2 = d2  d3 = d3  t1 = t1  t2 = t2
  Delivery <- TwoDeliveries
  Tenant = {t1, t2}
  TenantOf <- TwoTenantsOf
  Schedule <- MCSchedule
  MaxRetries = 1
  Concurrency = 2
  Faults = {"decrypt"}
  Broken = {t1}
  Backlog = {}
  TickId = {1, 2}
  MaxClock = 0
  MaxAccepts = 0
  MaxDisturbances = 0
INVARIANTS OneCallPerDelivery
CHECK_DEADLOCK FALSE
