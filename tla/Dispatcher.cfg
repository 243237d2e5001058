SPECIFICATION Spec
CONSTANTS
  NoHeader = NoHeader  Unreadable = Unreadable
  MaxSkew = 1
  d1 = d1  d2 = d2  d3 = d3  t1 = t1  t2 = t2
  Delivery <- TwoDeliveries
  Tenant = {t1}
  TenantOf <- OneTenantOf
  Schedule <- MCSchedule
  MaxRetries = 1
  Concurrency = 2
  Faults = {}
  Broken = {}
  Backlog = {}
  TickId = {1, 2}
  MaxClock = 1
  MaxAccepts = 3
  MaxDisturbances = 3
INVARIANTS OneCallPerDelivery NoStaleSnapshot AttemptBudget DeliveredMeansAccepted SecretIsCurrent
  EveryAttemptVerifies
PROPERTIES ImplementsLifecycle
CHECK_DEADLOCK FALSE
