SPECIFICATION Spec
CONSTANTS
  t1 = t1
  t2 = t2
  Threads <- MCThreads
  Stored <- MCStored
  BadFloats = {"wrong"}
  Inputs <- MCInputs
  Leftover = {"floats"}
  MaxTime = 2
SYMMETRY Symmetry
INVARIANTS
  HeapBalanced
  CrashCauses
  BindingsAgree
  ReturnedTimestampLoads
CHECK_DEADLOCK FALSE
