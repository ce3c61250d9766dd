SPECIFICATION MCFairSpec
CONSTANTS
  Version <- TwoVersions
  Torn = Torn
  None = None
INVARIANTS
  SuccessMeansInstalled
  VersionInfoIsFresh
  NoCompleteBundleLeft
PROPERTIES
  OnlyNewerIsWritten
  ReturnsToCheck
  LatestGetsInstalled
