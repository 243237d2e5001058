SPECIFICATION FairSpec
CONSTANTS
  Requests = {r1}
  Keys = {k1}
  Asks <- AllAsks
  AuditDefault = TRUE
  MaxPages = 3
  MaxAdmin = 2
  MaxCrashes = 1
CHECK_DEADLOCK FALSE
INVARIANTS
  BarredIsRefused
  AnswerIsHonest
  NegativeIsConclusive
  AuditTellsTheAnswer
  AuditPreferenceHonoured
PROPERTIES
  EveryRequestAnswered
