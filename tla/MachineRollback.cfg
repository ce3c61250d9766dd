SPECIFICATION MCSpecCalm
CONSTANTS
  Version <- FourVersions
  BadVersion <- ThreeBadUpdates
  Torn = Torn
  None = None
\* The service may wait for good for an installer that died.
CHECK_DEADLOCK FALSE
INVARIANTS
  MenuMeansNoFallback
PROPERTIES
  RollsBack
