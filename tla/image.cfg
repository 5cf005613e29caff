SPECIFICATION FairSpec
CONSTANTS
  Services = {"edge", "relay"}
  Images = {"v1", "v2"}
  Configs = {"c"}
  Undeclared = Undeclared
  Gone = Gone
  None = None
  PullPolicy = "changed"
  Agents = {"watch", "sync", "relay"}
  Daemons = {"watch"}
  Name <- MCName
  Def <- MCDef
  Hosts <- MCHosts
  DriftPolicy = "repair"
  MaxFaults = 2
INVARIANTS TypeOK OneReplacer
PROPERTIES RightIsLeftAlone ComesBack
