SPECIFICATION FairSpec
CONSTANTS
  Absent = Absent
  Text = {"own", "root"}
  Code <- MCCode
  n1 = n1  n2 = n2  t1 = t1  h1 = h1  h2 = h2
  Notification = {n1, n2}
  Tenant = {t1}
  Handler = {h1, h2}
  TenantOf <- MCTenantOf
  SourceOf <- MCSourceOf
  HomeOf <- MCHomeOf
  InitialCreds <- SetUps
  MaxDuplicates = 1
  MaxFaults = 1
  MaxPurges = 1
  MaxAdmin = 1
INVARIANTS OnlyFaultsLoseDeliveries OneDeliveryPerEvent AckedMeansPersisted
  OneVocabulary SubjectIsTheResolvedOne
PROPERTIES EventuallyPersisted
CHECK_DEADLOCK FALSE
