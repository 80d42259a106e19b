-------------------------- MODULE LinearProbeCache --------------------------
(***************************************************************************)
(* The LINEAR_PROBE cache: HashedCacheBase over LinearProbe and            *)
(* LinearProbeValue, in a buffer owned by a MallocMemoryHandler.           *)
(*                                                                         *)
(* The buffer starts with the key space, NumberOfKeySlots slots of eight   *)
(* bytes; records are appended behind it and never move or disappear.  A   *)
(* slot holds the high bits of a key's hash and the offset of its record,  *)
(* and is empty when the offset is zero.  Offsets are relative to          *)
(* mKeyspaceSizeOffset = 8 * NumberOfKeySlots - 8, so that the first       *)
(* record has offset 8 and no record has offset zero.                      *)
(*                                                                         *)
(* Keys and values are opaque; what the code looks at is their hash, size  *)
(* and type, which are constants.  The buffer's address is reduced to      *)
(* whether mKeySpacePtr still points at it: realloc may move the buffer,   *)
(* and a probe through a pointer to the freed block is undefined           *)
(* behaviour, after which the model does not predict anything: such a call *)
(* marks the pointer "dereferenced", and no other call is taken from there.*)
(***************************************************************************)
EXTENDS Naturals, FiniteSets, FiniteSetsExt

CONSTANTS
  Keys, Values, NoValue,
  Hash,                \* [Keys -> Nat]: Xxh3Hasher::hash
  KeySize,             \* [Keys -> Nat]: key.size()
  ValueSize,           \* [Values -> Nat]: size of the transformed value
  ValueType,           \* [Values -> Types]
  FloatTexts,          \* the strings that are lists of floats
  NumberOfKeySlots,
  MaxLoadPercent,      \* 100 * maxLoadFactor
  OffsetBits,
  Accessors,           \* the read calls the clients make
  MaxRecords           \* bound: puts that cannot succeed stop there

Types == {"String", "StringList", "Bool", "Int64", "Double", "FloatList"}

kKeyLength   == 65535       \* Constants::Limit::kKeyLength
kValueLength == 16777215    \* Constants::Limit::kValueLength
kRecordSize  == 6           \* sizeof( LinearProbeRecord )

\* The constructors throw for other offset bits and load factors.
ASSUME ConstantsAssumption ==
  /\ NoValue \notin Values
  /\ Hash \in [Keys -> Nat]
  /\ KeySize \in [Keys -> Nat]
  /\ ValueSize \in [Values -> Nat]
  /\ ValueType \in [Values -> Types]
  /\ \A v \in Values : ValueType[v] = "String" => ValueSize[v] >= 1
  /\ \A v \in Values : ValueType[v] = "StringList" => ValueSize[v] >= 2
  /\ FloatTexts \subseteq {v \in Values : ValueType[v] = "String"}
  /\ NumberOfKeySlots \in Nat \ {0}
  /\ MaxLoadPercent \in 0..80
  /\ OffsetBits \in 16..38
  /\ MaxRecords \in Nat

\* Offsets are masked with 2^OffsetBits - 1, hashes with the complement.
OffsetSpan == 2 ^ OffsetBits

ASSUME OffsetSpanAssumption == OffsetSpan \in Nat \ {0}

VARIABLES
  slot,             \* the key space
  records,          \* the records behind it, by offset
  dataSize,         \* MemoryHandler::mDataSize
  realDataSize,     \* MallocMemoryHandler::mRealDataSize
  keySpacePtr,      \* whether mKeySpacePtr points at the buffer in use
  numberOfEntries,  \* mHeader.numberOfEntries
  maxCollisions,    \* mHeader.maxCollisions
  loaded,           \* built from a file: mMaxNumberOfEntries is zero
  result            \* the answer to the last call

vars == <<slot, records, dataSize, realDataSize, keySpacePtr,
          numberOfEntries, maxCollisions, loaded, result>>

SlotIds == 0 .. NumberOfKeySlots - 1

KeySpaceSize == 8 * NumberOfKeySlots

KeyspaceSizeOffset == KeySpaceSize - 8

MaxNumberOfEntries ==
  IF loaded THEN 0 ELSE (NumberOfKeySlots * MaxLoadPercent) \div 100

RecordBytes(k, v) == kRecordSize + KeySize[k] + ValueSize[v]

Hashcode(k) == Hash[k] \div OffsetSpan

Home(k) == Hash[k] % NumberOfKeySlots

-----------------------------------------------------------------------------
(* The probe *)

\* The slot examined after d steps from the key's home, wrapping at the end.
ProbeSlot(k, d) ==
  IF Home(k) + d < NumberOfKeySlots
  THEN Home(k) + d
  ELSE Home(k) + d - NumberOfKeySlots

Empty(i) == slot[i].offset = 0

\* Mutant: compares the stored hash bits only, not the keys.
MatchesByHashOnly(k, i) == ~Empty(i) /\ slot[i].hashcode = Hashcode(k)

Matches(k, i) ==
  /\ ~Empty(i)
  /\ slot[i].hashcode = Hashcode(k)
  /\ records[slot[i].offset].key = k

Stops(k, d) == Empty(ProbeSlot(k, d)) \/ Matches(k, ProbeSlot(k, d))

\* Both probing loops end at the first slot that is empty or holds the key;
\* they never end when there is no such slot.
ProbeEndsAt(k, d) ==
  /\ d \in SlotIds
  /\ Stops(k, d)
  /\ \A e \in 0 .. d - 1 : ~Stops(k, e)

-----------------------------------------------------------------------------
(* Memory *)

\* Mutant: the new capacity leaves out the size asked for.
GrowByHalfOnly(bytes) ==
  /\ dataSize' = dataSize + bytes
  /\ realDataSize' = IF dataSize + bytes >= realDataSize
                     THEN realDataSize + realDataSize \div 2
                     ELSE realDataSize

\* MemoryHandler::grow after MallocMemoryHandler::resizeToFit, which
\* reallocates with half of the old capacity to spare.  Whether realloc
\* moves the buffer is up to the allocator.
Grow(bytes) ==
  /\ dataSize' = dataSize + bytes
  /\ realDataSize' = IF dataSize + bytes >= realDataSize
                     THEN dataSize + bytes + realDataSize \div 2
                     ELSE realDataSize

MayMove(bytes) == dataSize + bytes >= realDataSize

\* addToEnd writes the record at the old end of the data.
NewOffset == dataSize - KeyspaceSizeOffset

AppendRecord(k, v) ==
  records' = [o \in DOMAIN records \cup {NewOffset} |->
                IF o = NewOffset THEN [key |-> k, value |-> v] ELSE records[o]]

-----------------------------------------------------------------------------
(* Put *)

PutResult(outcome, k, v) ==
  [call |-> "put", outcome |-> outcome, key |-> k, value |-> v]

\* Mutant: the load factor is not applied, every slot may be taken.
RoomInKeySpace == ~loaded /\ numberOfEntries < NumberOfKeySlots

\* The load is checked before the key is looked up.
Room == numberOfEntries < MaxNumberOfEntries

PutKeySpaceFull(k, v) ==
  /\ keySpacePtr # "dereferenced"
  /\ ~Room
  /\ result' = PutResult("keySpaceFull", k, v)
  /\ UNCHANGED <<slot, records, dataSize, realDataSize, keySpacePtr,
                 numberOfEntries, maxCollisions, loaded>>

PutExisting(k, v) ==
  /\ Room
  /\ keySpacePtr = "current"
  /\ \E d \in SlotIds : ProbeEndsAt(k, d) /\ Matches(k, ProbeSlot(k, d))
  /\ result' = PutResult("exists", k, v)
  /\ UNCHANGED <<slot, records, dataSize, realDataSize, keySpacePtr,
                 numberOfEntries, maxCollisions, loaded>>

\* The slot at distance d is free for the new key k.
FreeSlot(k, d) ==
  /\ Room
  /\ keySpacePtr = "current"
  /\ ProbeEndsAt(k, d)
  /\ Empty(ProbeSlot(k, d))

\* LinearProbeValue::addToEnd throws before it grows the buffer.
PutTooLarge(k, v) ==
  /\ \E d \in SlotIds : FreeSlot(k, d)
  /\ \/ /\ KeySize[k] > kKeyLength
        /\ result' = PutResult("keyTooLarge", k, v)
     \/ /\ KeySize[k] <= kKeyLength
        /\ ValueSize[v] > kValueLength
        /\ result' = PutResult("valueTooLarge", k, v)
  /\ UNCHANGED <<slot, records, dataSize, realDataSize, keySpacePtr,
                 numberOfEntries, maxCollisions, loaded>>

Storable(k, v) == KeySize[k] <= kKeyLength /\ ValueSize[v] <= kValueLength

\* LinearProbeValue::add throws after addToEnd has grown the buffer and
\* written the record: the record stays behind without a slot, and
\* updateKeySpacePtr is not reached.
PutOffsetTooShort(k, v) ==
  /\ \E d \in SlotIds : FreeSlot(k, d)
  /\ Storable(k, v)
  /\ NewOffset >= OffsetSpan
  /\ Cardinality(DOMAIN records) < MaxRecords
  /\ Grow(RecordBytes(k, v))
  /\ AppendRecord(k, v)
  /\ \/ keySpacePtr' = keySpacePtr
     \/ MayMove(RecordBytes(k, v)) /\ keySpacePtr' = "freed"
  /\ result' = PutResult("offsetTooShort", k, v)
  /\ UNCHANGED <<slot, numberOfEntries, maxCollisions, loaded>>

\* Mutant: stores the whole hash, without the mask.
PutInsertedUnmasked(k, v) ==
  /\ Storable(k, v)
  /\ NewOffset < OffsetSpan
  /\ \E d \in SlotIds :
       /\ FreeSlot(k, d)
       /\ slot' = [slot EXCEPT ![ProbeSlot(k, d)] =
                     [hashcode |-> Hash[k], offset |-> NewOffset]]
       /\ maxCollisions' = IF d > maxCollisions THEN d ELSE maxCollisions
  /\ Grow(RecordBytes(k, v))
  /\ AppendRecord(k, v)
  /\ numberOfEntries' = numberOfEntries + 1
  /\ keySpacePtr' = "current"
  /\ result' = PutResult("inserted", k, v)
  /\ UNCHANGED loaded

\* Mutant: maxCollisions is the displacement of the last key.
PutInsertedLastCollisions(k, v) ==
  /\ Storable(k, v)
  /\ NewOffset < OffsetSpan
  /\ \E d \in SlotIds :
       /\ FreeSlot(k, d)
       /\ slot' = [slot EXCEPT ![ProbeSlot(k, d)] =
                     [hashcode |-> Hashcode(k), offset |-> NewOffset]]
       /\ maxCollisions' = d
  /\ Grow(RecordBytes(k, v))
  /\ AppendRecord(k, v)
  /\ numberOfEntries' = numberOfEntries + 1
  /\ keySpacePtr' = "current"
  /\ result' = PutResult("inserted", k, v)
  /\ UNCHANGED loaded

\* Mutant: the pointer is not updated.
PutInsertedKeepingPtr(k, v) ==
  /\ Storable(k, v)
  /\ NewOffset < OffsetSpan
  /\ \E d \in SlotIds :
       /\ FreeSlot(k, d)
       /\ slot' = [slot EXCEPT ![ProbeSlot(k, d)] =
                     [hashcode |-> Hashcode(k), offset |-> NewOffset]]
       /\ maxCollisions' = IF d > maxCollisions THEN d ELSE maxCollisions
  /\ Grow(RecordBytes(k, v))
  /\ AppendRecord(k, v)
  /\ numberOfEntries' = numberOfEntries + 1
  /\ keySpacePtr' = IF MayMove(RecordBytes(k, v)) THEN "freed" ELSE "current"
  /\ result' = PutResult("inserted", k, v)
  /\ UNCHANGED loaded

\* putInternal ends with updateKeySpacePtr, wherever realloc put the buffer.
PutInserted(k, v) ==
  /\ Storable(k, v)
  /\ NewOffset < OffsetSpan
  /\ \E d \in SlotIds :
       /\ FreeSlot(k, d)
       /\ slot' = [slot EXCEPT ![ProbeSlot(k, d)] =
                     [hashcode |-> Hashcode(k), offset |-> NewOffset]]
       /\ maxCollisions' = IF d > maxCollisions THEN d ELSE maxCollisions
  /\ Grow(RecordBytes(k, v))
  /\ AppendRecord(k, v)
  /\ numberOfEntries' = numberOfEntries + 1
  /\ keySpacePtr' = "current"
  /\ result' = PutResult("inserted", k, v)
  /\ UNCHANGED loaded

Put(k, v) ==
  \/ PutKeySpaceFull(k, v)
  \/ PutExisting(k, v)
  \/ PutTooLarge(k, v)
  \/ PutOffsetTooShort(k, v)
  \/ PutInserted(k, v)

-----------------------------------------------------------------------------
(* Reads *)

\* The stored types each accessor answers, after conversion where the types
\* differ.  The others get the accessor's default or an empty answer.
Answers ==
  [getString         |-> {"String"},
   get               |-> {"String"},
   getVector         |-> {"StringList"},
   getWithType       |-> Types \ {"StringList"},
   getBool           |-> {"Bool", "Int64", "String"},
   getInt64          |-> {"Int64", "String"},
   getDouble         |-> {"Double", "String"},
   getFloatVector    |-> {"FloatList", "String"},
   getFloatAtIndex   |-> {"FloatList", "String"},
   getFloatAtIndices |-> {"FloatList", "String"},
   getFloatSpan      |-> {"FloatList"},
   readKeys          |-> {"String", "StringList"},
   getKeyType        |-> Types]

ASSUME AccessorsAssumption == Accessors \subseteq DOMAIN Answers

ReadResult(a, outcome, k, v) ==
  [call |-> a, outcome |-> outcome, key |-> k, value |-> v]

\* The values that an accessor does not tell from a missing key: one of no
\* bytes, and where the text or the list is looked at, a text of nothing but
\* its terminator and a list of nothing but its count.
LikeMissing(a, v) ==
  \/ ValueSize[v] = 0
  \/ /\ ValueType[v] = "String" /\ ValueSize[v] = 1
     /\ a \in {"get", "getBool", "getInt64", "getDouble"}
  \/ ValueType[v] = "StringList" /\ ValueSize[v] = 2 /\ a = "getVector"

\* getFloatSpan throws for a string, stringViewToVector for one that is no
\* list of floats.
Throws(a, v) ==
  /\ ValueType[v] = "String"
  /\ \/ a = "getFloatSpan"
     \/ /\ a \in {"getFloatVector", "getFloatAtIndex", "getFloatAtIndices"}
        /\ v \notin FloatTexts

\* getString has found the key, but LinearProbeValue::get answers an empty
\* view for a value of another type; trimExtraNullTerminator then takes one
\* from its size of zero.
FoundResult(a, k, v) ==
  LET outcome ==
        CASE a = "getString" /\ ValueType[v] # "String" -> "sizeWrapped"
          [] Throws(a, v) -> "throws"
          [] ValueType[v] \in Answers[a] /\ ~Throws(a, v)
             /\ ~LikeMissing(a, v) -> "value"
          [] OTHER -> "default"
  IN ReadResult(a, outcome, k, v)

Read(a, k) ==
  /\ keySpacePtr = "current"
  /\ \E d \in SlotIds :
       /\ ProbeEndsAt(k, d)
       /\ LET i == ProbeSlot(k, d)
          IN result' = IF Empty(i)
                       THEN ReadResult(a, "missing", k, NoValue)
                       ELSE FoundResult(a, k, records[slot[i].offset].value)
  /\ UNCHANGED <<slot, records, dataSize, realDataSize, keySpacePtr,
                 numberOfEntries, maxCollisions, loaded>>

\* Any call that probes through a pointer to the freed block: undefined.
ProbeFreed ==
  /\ keySpacePtr # "current"
  /\ keySpacePtr' = "dereferenced"
  /\ UNCHANGED <<slot, records, dataSize, realDataSize, numberOfEntries,
                 maxCollisions, loaded, result>>

-----------------------------------------------------------------------------
(* Construction, and writing the buffer to a file and mapping it again *)

NoResult == [call |-> "none", outcome |-> "none"]

\* Mutant: the constructor leaves mKeySpacePtr at nullptr.
InitNullPtr ==
  /\ slot = [i \in SlotIds |-> [hashcode |-> 0, offset |-> 0]]
  /\ records = [o \in {} |-> [key |-> 0, value |-> 0]]
  /\ dataSize = KeySpaceSize
  /\ realDataSize = KeySpaceSize
  /\ keySpacePtr = "null"
  /\ numberOfEntries = 0
  /\ maxCollisions = 0
  /\ loaded = FALSE
  /\ result = NoResult

Init ==
  /\ slot = [i \in SlotIds |-> [hashcode |-> 0, offset |-> 0]]
  /\ records = [o \in {} |-> [key |-> 0, value |-> 0]]
  /\ dataSize = KeySpaceSize
  /\ realDataSize = KeySpaceSize
  /\ keySpacePtr = "current"
  /\ numberOfEntries = 0
  /\ maxCollisions = 0
  /\ loaded = FALSE
  /\ result = NoResult

\* output writes the buffer in use, and the loading constructor maps it, sets
\* mMaxNumberOfEntries to zero and mKeySpacePtr to the mapping.
Reload ==
  /\ keySpacePtr # "dereferenced"
  /\ loaded' = TRUE
  /\ keySpacePtr' = "current"
  /\ realDataSize' = dataSize
  /\ result' = NoResult
  /\ UNCHANGED <<slot, records, dataSize, numberOfEntries, maxCollisions>>

Next ==
  \/ \E k \in Keys, v \in Values : Put(k, v)
  \/ \E k \in Keys, a \in Accessors : Read(a, k)
  \/ ProbeFreed
  \/ Reload

Spec == Init /\ [][Next]_vars

-----------------------------------------------------------------------------
(* Properties *)

Outcomes == {"none", "keySpaceFull", "exists", "keyTooLarge", "valueTooLarge",
             "offsetTooShort", "inserted", "value", "sizeWrapped", "throws",
             "default", "missing"}

\* Every variable has its type.
TypeOK ==
  /\ slot \in [SlotIds -> [hashcode : Nat, offset : Nat]]
  /\ DOMAIN records \subseteq Nat
  /\ records \in [DOMAIN records -> [key : Keys, value : Values]]
  /\ dataSize \in Nat
  /\ realDataSize \in Nat
  /\ keySpacePtr \in {"current", "freed", "dereferenced"}
  /\ numberOfEntries \in Nat
  /\ maxCollisions \in Nat
  /\ loaded \in BOOLEAN
  /\ result.outcome \in Outcomes

Occupied == {i \in SlotIds : ~Empty(i)}

KeyAt(i) == records[slot[i].offset].key

ValueAt(i) == records[slot[i].offset].value

\* The two while( true ) loops of LinearProbe end for every key, stored or
\* not: the load limit leaves an empty slot however the puts went.
ProbeTerminates == \A k \in Keys : \E d \in SlotIds : ProbeEndsAt(k, d)

\* findKeySlotOffset finds every stored key: the probe for the key of an
\* occupied slot ends at that slot.  No put leaves a gap before it, hides it
\* behind a second slot of the same key, or stores another hash with it.
StoredKeysReachable ==
  \A i \in Occupied :
    \E d \in SlotIds : ProbeEndsAt(KeyAt(i), d) /\ ProbeSlot(KeyAt(i), d) = i

\* Every slot refers to a record of its own; records start behind the key
\* space, lie within the data, and overlap neither it nor each other; and
\* the data lies within the allocated buffer.
RecordsWellPlaced ==
  /\ \A i \in Occupied : slot[i].offset \in DOMAIN records
  /\ \A i, j \in Occupied : slot[i].offset = slot[j].offset => i = j
  /\ \A o \in DOMAIN records :
       /\ o >= 8
       /\ o + RecordBytes(records[o].key, records[o].value)
            + KeyspaceSizeOffset <= dataSize
  /\ \A o, p \in DOMAIN records :
       o < p => o + RecordBytes(records[o].key, records[o].value) <= p
  /\ dataSize <= realDataSize

\* The number of probe steps from the home of key k to slot i.
Distance(k, i) ==
  IF i >= Home(k) THEN i - Home(k) ELSE i + NumberOfKeySlots - Home(k)

\* The header written with the cache tells the truth: numberOfEntries is the
\* number of stored keys, within the load limit, and maxCollisions is the
\* largest displacement of a stored key, whatever puts were refused.
HeaderExact ==
  /\ numberOfEntries = Cardinality(Occupied)
  /\ numberOfEntries <= (NumberOfKeySlots * MaxLoadPercent) \div 100
  /\ maxCollisions = Max({Distance(KeyAt(i), i) : i \in Occupied} \cup {0})

\* The dictionary the slots and records stand for.
Dict ==
  [k \in Keys |-> IF \E i \in Occupied : KeyAt(i) = k
                  THEN ValueAt(CHOOSE i \in Occupied : KeyAt(i) = k)
                  ELSE NoValue]

StoreAnswer ==
  LET verdict ==
        CASE result.outcome = "none" -> "none"
          [] result.outcome \in {"inserted", "exists"} -> result.outcome
          [] result.outcome \in {"keySpaceFull", "keyTooLarge",
                                 "valueTooLarge", "offsetTooShort"} -> "error"
          [] result.outcome = "value" -> "read"
          [] result.outcome = "missing" -> "nothing"
          [] OTHER -> "unspecified"
  IN IF verdict = "none" THEN [verdict |-> "none"]
     ELSE [verdict |-> verdict, key |-> result.key,
           value |-> IF verdict = "unspecified" THEN NoValue
                     ELSE result.value]

\* The cache is a bounded dictionary in which the first put wins: every call
\* answers as KVStore does.
Store == INSTANCE KVStore WITH
  dict <- Dict, sealed <- loaded, answer <- StoreAnswer,
  MaxNumberOfEntries <- (NumberOfKeySlots * MaxLoadPercent) \div 100

ImplementsStore == Store!Spec

\* HashedCacheBase.cpp:146, "Data ptr could have changed, so update the
\* pointer".  Wherever realloc puts the buffer, and whatever mix of puts was
\* refused, mKeySpacePtr points at a freed buffer only when the offset bits
\* have run out: a record that no slot can refer to has been appended.
StalePtrCause ==
  keySpacePtr # "current" => \E o \in DOMAIN records : o >= OffsetSpan

=============================================================================
