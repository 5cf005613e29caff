SPECIFICATION FairSpec
CONSTANTS
  Fleets <- Disjoint
  MaxPushes = 1
  MaxFaults = 2
INVARIANTS
  TypeOK
  RecordsWhatRuns
  PlannedAsNamed
  OneDeployer
PROPERTIES
  OnlyRollbackGoesBack
  TargetsConverge
  TargetsComeRound
