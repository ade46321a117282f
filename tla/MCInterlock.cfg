SPECIFICATION Spec
CONSTANTS
  NoFile = NoFile
  Runs = {r1, r2, r3}
  Resolvers = {v1}
  Requests = {q1}
  Faults = TRUE
  Crashes = TRUE
  OperatorWaits = TRUE
SYMMETRY Symmetry
INVARIANTS TypeOK OneSessionAtATime UncertainStaysBlocked LeaseTellsOfRF
PROPERTIES ExclusiveUseSpec BlockersClearedSafely
CHECK_DEADLOCK FALSE
