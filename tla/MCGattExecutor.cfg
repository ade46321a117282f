SPECIFICATION FairSpec
CONSTANTS
  Targets = {t1, t2}
  NoTarget = NoTarget
  MaxOps = 3
  MaxEvents = 2
  MaxBytes = 3
  Sizes = {1, 2}
  MaxDelivered = 3
INVARIANTS TypeOK RadioCovered EvidenceBeforeNext SummaryIsTrue CaptureBounded
PROPERTIES StopsAtFirstFailure InterlockClientSpec RunEnds
CHECK_DEADLOCK FALSE
