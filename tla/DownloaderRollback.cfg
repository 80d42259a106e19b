\* Run has nothing left to do when the folder is up to date.
CHECK_DEADLOCK FALSE
SPECIFICATION Spec
CONSTANTS
  Mirrors = {m1, m2}
  MaxTimestamp = 2
  FaultKinds = {"poll"}
  MaxFaults = 2
INVARIANTS
  LatestNamesData
