SPECIFICATION FairSpec
CONSTANTS
  Addresses <- MCAddresses
  MaxDevices = 3
  InterlockFaults = TRUE
  OutputFaults = TRUE
INVARIANTS TypeOK SurveyCovered ManifestIsTrue
PROPERTIES ScopeRespected InterlockClientSpec SurveyEnds
CHECK_DEADLOCK FALSE
