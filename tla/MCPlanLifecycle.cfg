SPECIFICATION Spec
CONSTANTS
  HardMax <- MCHardMax
  HardMaxPairing <- MCHardMaxPairing
  Authorizations <- MCAuthorizations
  Requests <- MCRequests
  Reviews <- MCReviews
  Devices = {"a", "b", "c"}
  Times = {0, 1, 2, 3}
  MaxEdits = 1
  None = None
INVARIANTS TypeOK WithinAuthorization PlansAreAccepted EvidenceIsModest
CHECK_DEADLOCK FALSE
