SPECIFICATION FairSpec
CONSTANTS
  DeployFeature = TRUE
  FirstBlock <- MCFirstBlock
  Extra = {0, 2}
  Thresholds = {10, 100}
  MaxBlock = 10
  MaxEnds = 2
INVARIANTS SavedFileLoads DatabaseIsSound QuietStartDeploys OrphansNeedFaults Inductive
PROPERTIES RunsAgain CtrlCEnds
CHECK_DEADLOCK FALSE
