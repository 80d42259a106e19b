SPECIFICATION Spec
CONSTANTS
  Keys <- MCKeys
  Values <- MCValues
  NoValue = NoValue
  Hash <- MCHash
  KeySize <- MCKeySize
  ValueSize <- MCValueSize
  ValueType <- MCValueType
  FloatTexts = {"big"}
  NumberOfKeySlots = 4
  MaxLoadPercent = 80
  OffsetBits = 16
  Accessors = {"getString", "getInt64", "getFloatVector"}
  MaxRecords = 3
INVARIANTS
  TypeOK
  ProbeTerminates
  StoredKeysReachable
  RecordsWellPlaced
  HeaderExact
  StalePtrCause
PROPERTIES
  ImplementsStore
