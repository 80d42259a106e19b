SPECIFICATION Spec
CONSTANTS
  IntegerOf <- MCIntegerOf
  Escapes <- MCEscapes
  FirstChar <- MCFirstChar
  InputFiles <- MCInputFiles
  NotFloats = {"x"}
  Directories <- MCDirectories
  LoadDir = "datamover"
  LoadName = "c"
  MaxFaults = 0
  ConfigFiles <- MCConfigFiles
  CommandLines <- MCCommandLines
  MaxRuns = 1
  BenchKeys = 2
INVARIANT NamedFilesAreFound
