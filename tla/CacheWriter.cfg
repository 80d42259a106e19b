SPECIFICATION Spec
CONSTANTS
  Keys = {k1, k2}
  Bytes = {"a", "b"}
  Values <- MCValues
  Garbage = "garbage"
  MaxNumberOfEntries = 2
  ShortSpan = 1
  IndexSpan = 3
  CacheTypes <- MCCacheTypes
  MaxDuplicates = 2
  MaxWriters = 2
  WriteMayFail = FALSE
SYMMETRY MCKeySymmetry
INVARIANTS
  PublishedComplete
  FinishedIsPublished
  FailedWriterIsHarmless
CHECK_DEADLOCK FALSE
