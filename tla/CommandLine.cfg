SPECIFICATION Spec
CONSTANTS
  IntegerOf <- MCIntegerOf
  Escapes <- MCEscapes
  FirstChar <- MCFirstChar
  InputFiles <- MCInputFiles
  NotFloats = {"x", "v1"}
  Directories <- MCDirectories
  LoadDir = "datamover"
  LoadName = "c"
  MaxFaults = 1
  ConfigFiles <- MCConfigFiles
  CommandLines <- MCCommandLines
  MaxRuns = 2
  BenchKeys = 2
INVARIANTS
  GeneratedExact
  TornOnlyByDeath
  ServedFamily
  ReadsWhatWasWritten
PROPERTY
  FinishedIsLoaded
