SPECIFICATION Spec
CONSTANTS
  Agents = {"w"}
  OneShot = {}
  Services = {"api", "db"}
  Commits = {"base", "config", "image"}
  DeploymentIDs = {1, 2, 3, 4}
  DriftPolicy = "report"
  PullPolicy = "changed"
  FaultKinds = {"crash", "apply", "sick", "stop", "source", "target"}
  MaxFaults = 2
  MaxMoves = 2
  Images = {"i1", "i2"}
  Configs = {"k1", "k2"}
  Undeclared = Undeclared
  Gone = Gone
  None = None
  Tree <- MCTree
  Found <- Empty
INVARIANTS
  TypeOK
PROPERTIES
  CycleGoesForward
  SyncedClosesJournal
  RollbackRestoresImages
  CleanHistoryConverges
  ImplementsLedger
CHECK_DEADLOCK FALSE
