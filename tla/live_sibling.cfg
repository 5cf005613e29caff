SPECIFICATION Spec
CONSTANTS
  Live = {"app", "qa"}
  Others = {"old", "other"}
  Dir <- MCSameDir
  Services = {"api", "db"}
  Mounts <- MCMounts
  MaxFaults = 0
  None = None
PROPERTIES OnlyStaleIsRemoved
CHECK_DEADLOCK FALSE
