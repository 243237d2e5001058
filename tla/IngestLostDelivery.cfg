SPECIFICATION Spec
CONSTANTS
  Absent = Absent
  Text = {"own", "root"}
  Code <- MCCode
  n1 = n1  n2 = n2  t1 = t1  h1 = h1  h2 = h2
  Notification = {n1}
  Tenant = {t1}
  Handler = {h1, h2}
  TenantOf <- MCTenantOf
  SourceOf <- MCSourceOf
  HomeOf <- MCHomeOf
  InitialCreds <- Ready
  MaxDuplicates = 0
  MaxFaults = 1
  MaxPurges = 0
  MaxAdmin = 0
INVARIANTS ExactlyOneDelivery
CHECK_DEADLOCK FALSE
