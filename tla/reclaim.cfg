SPECIFICATION FairSpec
CONSTANTS
  Live = {"app", "qa"}
  Others = {"old", "other"}
  Dir <- MCDir
  Services = {"api", "db"}
  Mounts <- MCMounts
  MaxFaults = 2
  None = None
INVARIANTS TypeOK WholeVolumes
PROPERTIES OnlyStaleIsRemoved CollisionsHeal
