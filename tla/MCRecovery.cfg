SPECIFICATION RecoverySpec
CONSTANTS
  NoFile = NoFile
  Runs = {r1, r2}
  Resolvers = {v1, v2}
  Requests = {q1, q2}
  Faults = FALSE
  Crashes = TRUE
  OperatorWaits = FALSE
INVARIANT OneRequestPerSource
PROPERTIES RetryFinishesRecovery LeaseComesBack
CHECK_DEADLOCK FALSE
