\* Run has nothing left to do when the folder is up to date.
CHECK_DEADLOCK FALSE
SPECIFICATION Spec
CONSTANTS
  Mirrors = {m1, m2}
  MaxTimestamp = 3
  FaultKinds = {"crash", "poll", "fetch", "write", "flush", "remove"}
  MaxFaults = 2
INVARIANTS
  LatestSound
PROPERTIES
  LatestAdvances
  Converges
