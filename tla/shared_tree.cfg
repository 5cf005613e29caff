SPECIFICATION Spec
CONSTANTS
  Fleets <- SharedTree
  MaxPushes = 1
  MaxFaults = 0
INVARIANTS
  RecordsWhatRuns
CHECK_DEADLOCK FALSE
