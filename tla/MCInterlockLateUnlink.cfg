SPECIFICATION Spec
CONSTANTS
  NoFile = NoFile
  Runs = {r1, r2}
  Resolvers = {v1}
  Requests = {q1}
  Faults = FALSE
  Crashes = TRUE
  OperatorWaits = FALSE
INVARIANT UncertainStaysBlocked
CHECK_DEADLOCK FALSE
