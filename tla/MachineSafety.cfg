SPECIFICATION MCSpecMachine
CONSTANTS
  Version <- TwoVersions
  BadVersion <- NoBadVersion
  Torn = Torn
  None = None
INVARIANTS
  TornOnlyByChoice
  MenuAfterThreeStrikes
  RebootCallIsHonest
PROPERTIES
  IsABSystem
