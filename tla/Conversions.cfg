SPECIFICATION Spec
CONSTANTS
  Spaces = {" "}
  DigitValue <- MCDigitValue
  WordSpan = 16
  NumberTypes <- MCNumberTypes
  NaN = "n"
  True = "T"
  RoundToFloat <- MCRoundToFloat
  RoundToDouble <- MCRoundToDouble
  FLT_MAX = 92
  Characters <- MCCharacters
  Code <- MCCode
  Delim = ":"
  Behind <- MCBehind
  Defaults <- MCDefaults
  Indices <- MCIndices
  kVectorLength = 3
  kVectorElementLength = 2
  LengthSpan = 4
  MaxLength = 5
INVARIANTS
  TextFunctionsAgree
  IntegersExact
  ScalarsAgree
  FloatReadsAgree
  DuplicatesRecognised
  ListsAgree
CHECK_DEADLOCK FALSE
