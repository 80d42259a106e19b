-------------------------- MODULE BucketChainCache --------------------------
(***************************************************************************)
(* The BUCKET_CHAIN cache: HashedCacheBase over SimpleProbe and            *)
(* ChainedValue.                                                           *)
(*                                                                         *)
(* The buffer starts with one eight-byte link per slot, and every record   *)
(* behind it starts with a link too.  A link is the offset of the next     *)
(* record in the buffer, or zero.  SimpleProbe sends a key to the slot of  *)
(* its hash and never looks whether the key is there, so that a put always *)
(* appends a record to the end of the slot's chain, and a lookup takes the *)
(* first record of its key.                                                *)
(*                                                                         *)
(* Keys and values are opaque; what the code looks at is their hash, size  *)
(* and type, which are constants.                                          *)
(***************************************************************************)
EXTENDS CacheDomain, Naturals, Sequences, FiniteSets, FiniteSetsExt

CONSTANTS
  Hash,                \* [Keys -> Nat]: Xxh3Hasher::hash
  KeySize,             \* [Keys -> Nat]: key.size()
  ValueSize,           \* [Values -> Nat]: size of the transformed value
  NumberOfKeySlots,    \* as asked for; the probe rounds it up
  MaxLoadPercent       \* 100 * maxLoadFactor; may exceed 100 here

kKeyLength   == 65535       \* Constants::Limit::kKeyLength
kValueLength == 16777215    \* Constants::Limit::kValueLength
kLinkSize    == 8           \* KeyWidth, and sizeof( uint64_t )

ASSUME ChainAssumption ==
  /\ Hash \in [Keys -> Nat]
  /\ KeySize \in [Keys -> Nat]
  /\ ValueSize \in [Values -> Nat]
  /\ NumberOfKeySlots \in Nat
  /\ MaxLoadPercent \in Nat

VARIABLES
  next,             \* the links, by the offset of the slot or record
  records,          \* the records, by offset
  dataSize,         \* MemoryHandler::mDataSize
  realDataSize,     \* MallocMemoryHandler::mRealDataSize
  numberOfEntries,  \* mHeader.numberOfEntries
  maxCollisions,    \* mHeader.maxCollisions
  loaded,           \* built from a file: mMaxNumberOfEntries is zero
  result            \* the answer to the last call

chainVars == <<next, records, dataSize, realDataSize, numberOfEntries,
               maxCollisions, loaded>>

-----------------------------------------------------------------------------
(* SimpleProbe *)

\* math::roundUpToPowerOfTwo
RoundUpToPowerOfTwo(n) ==
  2 ^ (CHOOSE i \in 0 .. n : 2 ^ i >= n /\ \A j \in 0 .. i - 1 : 2 ^ j < n)

Slots == RoundUpToPowerOfTwo(NumberOfKeySlots)

KeySpaceSize == kLinkSize * Slots

SlotOffsets == {kLinkSize * i : i \in 0 .. Slots - 1}

\* hashcode & mKeySpaceSizeMask, for reads and for writes.
FindKeySlotOffset(k) == kLinkSize * (Hash[k] % Slots)

MaxNumberOfEntries ==
  IF loaded THEN 0 ELSE (NumberOfKeySlots * MaxLoadPercent) \div 100

-----------------------------------------------------------------------------
(* ChainedValue *)

\* The offsets of the records on the chain behind a link, in order.
Chain(from) ==
  LET walk[o \in DOMAIN next] ==
        IF next[o] = 0 THEN <<>> ELSE <<next[o]>> \o walk[next[o]]
  IN walk[from]

ChainOf(k) == Chain(FindKeySlotOffset(k))

\* The link a new record of the key is hung on.
EndOfChain(k) ==
  LET chain == ChainOf(k)
  IN IF chain = <<>> THEN FindKeySlotOffset(k) ELSE chain[Len(chain)]

CalculateSize(k, v) == kLinkSize + 2 + 1 + 3 + KeySize[k] + ValueSize[v]

\* The record of the key that a lookup stops at.
Matching(k) == {i \in DOMAIN ChainOf(k) : records[ChainOf(k)[i]].key = k}

\* Mutant: a lookup goes on to the last record of the key.
LastFoundValue(k) ==
  IF Matching(k) = {} THEN NoValue
  ELSE records[ChainOf(k)[Max(Matching(k))]].value

FoundValue(k) ==
  IF Matching(k) = {} THEN NoValue
  ELSE records[ChainOf(k)[Min(Matching(k))]].value

-----------------------------------------------------------------------------
(* Put *)

Result(call, outcome, k, v) ==
  [call |-> call, outcome |-> outcome, key |-> k, value |-> v]

Room == numberOfEntries < MaxNumberOfEntries

Storable(k, v) == KeySize[k] <= kKeyLength /\ ValueSize[v] <= kValueLength

\* putInternal throws "keySpace is full", although every chain can grow.
PutKeySpaceFull(k, v) ==
  /\ ~Room
  /\ result' = Result("put", "keySpaceFull", k, v)
  /\ UNCHANGED chainVars

\* addToEnd throws before it grows the buffer.
PutTooLarge(k, v) ==
  /\ Room
  /\ ~Storable(k, v)
  /\ result' = Result("put", "tooLarge", k, v)
  /\ UNCHANGED chainVars

\* memory->grow, which may move the buffer.
Grow(bytes) ==
  /\ dataSize' = dataSize + bytes
  /\ realDataSize' = IF dataSize + bytes >= realDataSize
                     THEN dataSize + bytes + realDataSize \div 2
                     ELSE realDataSize

\* Mutant: the link is written through the pointer taken before the buffer
\* grew, so that it is lost when realloc has moved the buffer.
LinksThroughOldPointer(k, new, bytes) ==
  [o \in DOMAIN next \cup {new} |->
     IF o = new THEN 0
     ELSE IF o = EndOfChain(k) /\ dataSize + bytes < realDataSize THEN new
     ELSE next[o]]

\* addToEnd zeroes the link of the new record; add then recalculates the
\* address of the end of the chain and stores the new offset there.
Links(k, new, bytes) ==
  [o \in DOMAIN next \cup {new} |->
     IF o = new THEN 0
     ELSE IF o = EndOfChain(k) THEN new
     ELSE next[o]]

\* Mutant: the last chain walked sets maxCollisions.
LastCollisions(k) == Len(ChainOf(k))

\* add counts the records it walks over.
Collisions(k) == Max({maxCollisions, Len(ChainOf(k))})

\* The key is not looked for: it is stored, and reported as stored, again.
PutInserted(k, v) ==
  /\ Room
  /\ Storable(k, v)
  /\ Grow(CalculateSize(k, v))
  /\ next' = Links(k, dataSize, CalculateSize(k, v))
  /\ records' = [o \in DOMAIN records \cup {dataSize} |->
                   IF o = dataSize THEN [key |-> k, value |-> v]
                   ELSE records[o]]
  /\ numberOfEntries' = numberOfEntries + 1
  /\ maxCollisions' = Collisions(k)
  /\ result' = Result("put", "inserted", k, v)
  /\ UNCHANGED loaded

-----------------------------------------------------------------------------
(* Reads *)

Answers == [get |-> {"String"}, getString |-> {"String"},
            getVector |-> {"StringList"}, contains |-> Types,
            getWithType |-> {}]

Accessors == DOMAIN Answers

\* get and contains stop at the first record of the key; a value of another
\* type than asked for is an empty view, and isExist stays false.  get takes
\* a string without characters, of which only the terminator is stored, for
\* a missing one.  getWithType always answers an empty view.
ReadOutcome(a, v) ==
  IF v = NoValue THEN "missing"
  ELSE IF ValueType[v] \notin Answers[a] THEN "default"
  ELSE IF a \in {"get", "getVector"} /\ ValueSize[v] <= 1 THEN "default"
  ELSE "value"

Read(a, k) ==
  /\ result' = Result(a, ReadOutcome(a, FoundValue(k)), k, FoundValue(k))
  /\ UNCHANGED chainVars

-----------------------------------------------------------------------------
(* Construction, and writing the buffer to a file and mapping it again *)

NoResult == [call |-> "none", outcome |-> "none"]

ChainInit ==
  /\ next = [o \in SlotOffsets |-> 0]
  /\ records = [o \in {} |-> 0]
  /\ dataSize = KeySpaceSize
  /\ realDataSize = KeySpaceSize
  /\ numberOfEntries = 0
  /\ maxCollisions = 0
  /\ loaded = FALSE
  /\ result = NoResult

\* The header holds the rounded number of slots, which rounds to itself.
Reload ==
  /\ loaded' = TRUE
  /\ realDataSize' = dataSize
  /\ result' = NoResult
  /\ UNCHANGED <<next, records, dataSize, numberOfEntries, maxCollisions>>

-----------------------------------------------------------------------------
(* Properties *)

ChainOutcomes == {"none", "keySpaceFull", "tooLarge", "inserted", "value",
                  "default", "missing"}

\* Every variable has its type.
ChainTypeOK ==
  /\ DOMAIN next = SlotOffsets \cup DOMAIN records
  /\ \A o \in DOMAIN next : next[o] \in {0} \cup DOMAIN records
  /\ \A o \in DOMAIN records :
       records[o].key \in Keys /\ records[o].value \in Values
  /\ dataSize \in Nat /\ realDataSize \in Nat
  /\ numberOfEntries \in Nat /\ maxCollisions \in Nat
  /\ loaded \in BOOLEAN
  /\ result.outcome \in ChainOutcomes

\* Records lie behind the key space and within the data, and do not overlap.
RecordsDisjoint ==
  /\ \A o \in DOMAIN records :
       /\ o >= KeySpaceSize
       /\ o + CalculateSize(records[o].key, records[o].value) <= dataSize
  /\ \A o, p \in DOMAIN records :
       o < p => o + CalculateSize(records[o].key, records[o].value) <= p

\* Every record is on the chain of its key's slot, once, and the chain is in
\* the order in which the records were appended; records do not overlap: no
\* put loses the records behind the link it writes, or writes over another,
\* even when the buffer moves under it.
ChainsHoldEveryRecord ==
  /\ \A s \in SlotOffsets :
       LET chain == Chain(s)
       IN /\ {chain[i] : i \in DOMAIN chain} =
               {o \in DOMAIN records : FindKeySlotOffset(records[o].key) = s}
          /\ \A i, j \in DOMAIN chain : i < j => chain[i] < chain[j]
  /\ RecordsDisjoint

\* The header tells the truth: numberOfEntries is the number of records, the
\* duplicates included, and maxCollisions is one less than the longest chain.
ChainHeaderExact ==
  /\ numberOfEntries = Cardinality(DOMAIN records)
  /\ maxCollisions =
       Max({IF Len(Chain(s)) = 0 THEN 0 ELSE Len(Chain(s)) - 1 :
              s \in SlotOffsets})

=============================================================================
