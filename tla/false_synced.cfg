SPECIFICATION Spec
CONSTANTS
  Agents = {"w"}
  OneShot = {}
  Services = {"api", "db"}
  Commits = {"base", "config", "revert"}
  DeploymentIDs = {1, 2, 3, 4}
  DriftPolicy = "report"
  PullPolicy = "never"
  FaultKinds = {"crash"}
  MaxFaults = 2
  MaxMoves = 2
  Images = {"i1", "i2"}
  Configs = {"k1", "k2"}
  Undeclared = Undeclared
  Gone = Gone
  None = None
  Tree <- MCTree
  Found <- Empty
INVARIANTS
  SyncedRunsCommit
CHECK_DEADLOCK FALSE
