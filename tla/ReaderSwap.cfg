SPECIFICATION Spec
CONSTANTS
  Threads = {t1, t2}
  MaxGeneration = 5
  FileType <- MCFileType
  Operations = {"getKey", "getLong"}
INVARIANTS
  OwnedWhileRead
  TransparentSwap
  InstalledIsServed
PROPERTIES
  ReplacedIsUnmapped
