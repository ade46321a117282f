SPECIFICATION Spec
CONSTANTS
  InterlockFaults = FALSE
  OutputFaults = FALSE
INVARIANT CompleteStillHolds
CHECK_DEADLOCK FALSE
