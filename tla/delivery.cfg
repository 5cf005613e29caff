SPECIFICATION FairSpec
CONSTANTS
  Events = 3
  Slots = 2
  MaxRetries = 2
  MinBackoff = 1
  MaxBackoff = 3
INVARIANTS TypeOK SlotsAreInFlight NothingIsSilent
PROPERTIES NoRetryAfterAnswer CapacityReturns
CHECK_DEADLOCK FALSE
