SPECIFICATION FairSpec
CONSTANTS
  InterlockFaults = TRUE
  OutputFaults = TRUE
INVARIANTS TypeOK PairingCovered FinalIsTrue BondIsReported
PROPERTIES InterlockClientSpec PairingEnds
CHECK_DEADLOCK FALSE
