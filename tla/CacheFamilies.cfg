SPECIFICATION Spec
CONSTANTS
  Keys <- MCKeys
  Values <- MCValues
  NoValue = NoValue
  Hash <- MCHash
  KeySize <- MCKeySize
  ValueSize <- MCValueSize
  ValueType <- MCValueType
  NumberOfKeySlots = 3
  MaxLoadPercent = 100
INVARIANTS
  ChainsHoldEveryRecord
  ChainHeaderExact
  FamiliesAgree
