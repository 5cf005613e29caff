SPECIFICATION Spec
CONSTANTS
  Agents = {"w", "s"}
  OneShot = {"s"}
  Services = {"api"}
  Commits = {"base", "config", "image"}
  DeploymentIDs = {1, 2, 3}
  DriftPolicy = "repair"
  PullPolicy = "never"
  FaultKinds = {"crash", "apply", "stop", "target"}
  MaxFaults = 2
  MaxMoves = 2
  Images = {"i1", "i2"}
  Configs = {"k1", "k2"}
  Undeclared = Undeclared
  Gone = Gone
  None = None
  Tree <- MCTree
  Found <- Adopted
INVARIANTS
  OneCycleAtATime
  OneOpenDeployment
CHECK_DEADLOCK FALSE
