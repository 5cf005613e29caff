SPECIFICATION FairSpec
CONSTANTS
  Agents = {"w"}
  OneShot = {}
  Services = {"api", "db"}
  Commits = {"base", "config", "image"}
  DeploymentIDs = {1, 2, 3, 4, 5}
  DriftPolicy = "repair"
  PullPolicy = "missing"
  FaultKinds = {"crash", "apply", "stop", "journal"}
  MaxFaults = 2
  MaxMoves = 2
  Images = {"i1", "i2"}
  Configs = {"k1", "k2"}
  Undeclared = Undeclared
  Gone = Gone
  None = None
  Tree <- MCTree
  Found <- Empty
INVARIANTS
  WriteAhead
PROPERTIES
  ImplementsLedger
  EventuallyConverges
  EveryDeploymentEnds
CHECK_DEADLOCK FALSE
