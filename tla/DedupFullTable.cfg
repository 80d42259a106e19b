SPECIFICATION Spec
CONSTANTS
  Keys = {k1, k2}
  Bytes = {"a", "b"}
  Values <- MCValues
  Garbage = "garbage"
  MaxNumberOfEntries = 2
  ShortSpan = 1
  IndexSpan = 3
  CacheTypes <- MCCacheTypes
  MaxDuplicates = 3
  MaxWriters = 1
  WriteMayFail = FALSE
SYMMETRY MCKeySymmetry
INVARIANTS
  DuplicatedValuesKept
CHECK_DEADLOCK FALSE
