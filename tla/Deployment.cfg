SPECIFICATION FairSpecDeployment
CONSTANTS
  Deployer = {d, e}
  LastVersion = 2
  UPDATE_CERT <- SwitchAtTwo
  ARTIFACTS <- TwoArtifacts
INVARIANTS
  InconsistencyIsReported
PROPERTIES
  IsReleaseServer
  RepairsInTheEnd
