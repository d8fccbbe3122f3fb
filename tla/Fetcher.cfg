CONSTANTS
  r1 = r1
  r2 = r2
  r3 = r3
  Request = {r1, r2, r3}
  Retries <- Budgets
  ValRetries = 1
  FailCallback = {r1, r2}
  Windows = {0, 1, 2}
  InitialWindow = 1
  MayDestroy = TRUE
  MaxExpressed = 2
CHECK_DEADLOCK FALSE
SPECIFICATION FairSpec
INVARIANTS
  TypeOK
  NeverLostNorDoubled
  AttemptsBounded
PROPERTIES
  WindowUsedAndKept
  SilentAfterDestruction
  EveryRequestEnds
