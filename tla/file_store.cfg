SPECIFICATION Spec
CONSTANTS
  Receipts = {r1, r2, r3}
  Oversized = {r3}
  Writers = {w1, w2}
  None = None
  Garbled = Garbled
  Unreadable = Unreadable
  FaultKinds = {"kill", "power", "short", "sync"}
  MaxFaults = 2
  MaxLines = 3
CHECK_DEADLOCK FALSE
INVARIANTS TypeOK FailsClosed
PROPERTY ImplementsStore
