\* The process may die of a call through a nil or freed handle.
CHECK_DEADLOCK FALSE
SPECIFICATION ReaderSpec
CONSTANTS
  Lookups = {l1}
  Deleters = {d1, d2}
  MaxTimestamp = 3
INVARIANTS
  TimestampBacked
  StopClosedOnce
PROPERTIES
  TimestampAdvances
  UpdaterStops
  DeleteIsFinal
