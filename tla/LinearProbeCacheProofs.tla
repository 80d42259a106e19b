----------------------- MODULE LinearProbeCacheProofs -----------------------
(***************************************************************************)
(* Proofs about LinearProbeCache for every number of slots, every hash     *)
(* function, every set of keys and values and every load factor that the   *)
(* constructor accepts.                                                    *)
(***************************************************************************)
EXTENDS LinearProbeCache, TLAPS, FiniteSetTheorems, WellFoundedInduction

-----------------------------------------------------------------------------
(* Arithmetic of the key space *)

\* A key's home is a slot, and its stored hash bits are a number.
LEMMA HomeIsSlot ==
  ASSUME NEW k \in Keys
  PROVE  Home(k) \in SlotIds /\ Hashcode(k) \in Nat
<1>1. Hash[k] \in Nat /\ NumberOfKeySlots \in Nat \ {0}
  BY ConstantsAssumption
<1>2. Home(k) \in SlotIds
  BY <1>1 DEF Home, SlotIds
<1>3. Hashcode(k) \in Nat
  BY <1>1, OffsetSpanAssumption DEF Hashcode
<1>4. QED
  BY <1>2, <1>3

\* Probing stays in the key space, and never visits a slot twice in a round.
LEMMA ProbeSlotIsSlot ==
  ASSUME NEW k \in Keys, NEW d \in SlotIds
  PROVE  /\ ProbeSlot(k, d) \in SlotIds
         /\ \A e \in SlotIds : ProbeSlot(k, d) = ProbeSlot(k, e) => d = e
BY HomeIsSlot, ConstantsAssumption DEF ProbeSlot, SlotIds

\* Within one round the probe of a key visits every slot.
LEMMA ProbeVisitsAll ==
  ASSUME NEW k \in Keys, NEW i \in SlotIds
  PROVE  \E d \in SlotIds : ProbeSlot(k, d) = i
<1>1. Home(k) \in SlotIds /\ NumberOfKeySlots \in Nat \ {0}
  BY HomeIsSlot, ConstantsAssumption
<1>2. CASE i >= Home(k)
  <2>1. i - Home(k) \in SlotIds /\ ProbeSlot(k, i - Home(k)) = i
    BY <1>1, <1>2 DEF ProbeSlot, SlotIds
  <2>2. QED
    BY <2>1
<1>3. CASE i < Home(k)
  <2>1. /\ i + NumberOfKeySlots - Home(k) \in SlotIds
        /\ ProbeSlot(k, i + NumberOfKeySlots - Home(k)) = i
    BY <1>1, <1>3 DEF ProbeSlot, SlotIds
  <2>2. QED
    BY <2>1
<1>4. QED
  BY <1>1, <1>2, <1>3 DEF SlotIds

\* A set of slot distances that is not empty has a smallest member.
LEMMA FirstDistance ==
  ASSUME NEW T, T \subseteq Nat, T # {}
  PROVE  \E d \in T : \A e \in T : ~(e < d)
<1>1. IsWellFoundedOn(OpToRel(<, Nat), Nat)
  BY NatLessThanWellFounded, Zenon
<1>2. PICK d \in T : \A e \in T : ~(<<e, d>> \in OpToRel(<, Nat))
  BY <1>1, WFMin, Zenon
<1>3. QED
  BY <1>2, Zenon DEF OpToRel

-----------------------------------------------------------------------------
(* Type correctness.  The offset of a new record is a number only because  *)
(* the data never shrinks below the key space.                             *)

TypeInv == TypeOK /\ dataSize >= KeySpaceSize

\* The sizes the memory handler computes with are numbers.
LEMMA SizesAreNumbers ==
  /\ KeySpaceSize \in Nat
  /\ KeyspaceSizeOffset \in Nat
  /\ KeySpaceSize = KeyspaceSizeOffset + 8
  /\ \A k \in Keys, v \in Values : RecordBytes(k, v) \in Nat \ {0}
BY ConstantsAssumption
   DEF KeySpaceSize, KeyspaceSizeOffset, RecordBytes, kRecordSize

\* A new record starts behind the key space.
LEMMA NewOffsetIsNumber ==
  ASSUME TypeInv
  PROVE  NewOffset \in Nat /\ NewOffset >= 8
BY SizesAreNumbers DEF TypeInv, TypeOK, NewOffset

\* The constructor establishes the types.
LEMMA InitTypeInv == Init => TypeInv
<1> SUFFICES ASSUME Init PROVE TypeInv
  OBVIOUS
<1>1. slot \in [SlotIds -> [hashcode : Nat, offset : Nat]]
  BY DEF Init
<1>2. DOMAIN records = {} /\ records \in [DOMAIN records -> [key : Keys, value : Values]]
  BY DEF Init
<1>3. result.outcome \in Outcomes
  BY DEF Init, NoResult, Outcomes
<1>4. /\ dataSize \in Nat /\ dataSize >= KeySpaceSize
      /\ realDataSize \in Nat
      /\ numberOfEntries \in Nat /\ maxCollisions \in Nat
  BY SizesAreNumbers DEF Init
<1>5. loaded \in BOOLEAN /\ keySpacePtr \in {"current", "freed", "dereferenced"}
  BY Zenon DEF Init
<1>6. QED
  BY <1>1, <1>2, <1>3, <1>4, <1>5 DEF TypeInv, TypeOK

\* Growing keeps the sizes numbers and the key space in the data.
LEMMA GrowTypes ==
  ASSUME TypeInv, NEW k \in Keys, NEW v \in Values, Grow(RecordBytes(k, v))
  PROVE  dataSize' \in Nat /\ realDataSize' \in Nat /\ dataSize' >= KeySpaceSize
<1>1. RecordBytes(k, v) \in Nat /\ dataSize \in Nat /\ realDataSize \in Nat
  BY SizesAreNumbers DEF TypeInv, TypeOK
<1>2. realDataSize \div 2 \in Nat
  BY <1>1
<1>3. QED
  BY <1>1, <1>2, SizesAreNumbers DEF Grow, TypeInv

\* Appending a record keeps the records typed.
LEMMA AppendTypes ==
  ASSUME TypeInv, NEW k \in Keys, NEW v \in Values, AppendRecord(k, v)
  PROVE  /\ DOMAIN records' = DOMAIN records \cup {NewOffset}
         /\ DOMAIN records' \subseteq Nat
         /\ records' \in [DOMAIN records' -> [key : Keys, value : Values]]
<1>1. DOMAIN records' = DOMAIN records \cup {NewOffset}
  BY DEF AppendRecord
<1>2. DOMAIN records' \subseteq Nat
  BY <1>1, NewOffsetIsNumber DEF TypeInv, TypeOK
<1>3. \A o \in DOMAIN records' : records'[o] \in [key : Keys, value : Values]
  BY <1>1 DEF AppendRecord, TypeInv, TypeOK
<1>4. QED
  BY <1>1, <1>2, <1>3 DEF AppendRecord

\* Every step of a call keeps the types.
LEMMA NextTypeInv == TypeInv /\ [Next]_vars => TypeInv'
<1> SUFFICES ASSUME TypeInv, [Next]_vars PROVE TypeInv'
  OBVIOUS
<1> USE DEF TypeInv
<1>1. ASSUME NEW k \in Keys, NEW v \in Values, PutKeySpaceFull(k, v)
      PROVE  TypeInv'
  BY <1>1 DEF PutKeySpaceFull, TypeOK, PutResult, Outcomes, KeySpaceSize
<1>2. ASSUME NEW k \in Keys, NEW v \in Values, PutExisting(k, v)
      PROVE  TypeInv'
  BY <1>2 DEF PutExisting, TypeOK, PutResult, Outcomes, KeySpaceSize
<1>3. ASSUME NEW k \in Keys, NEW v \in Values, PutTooLarge(k, v)
      PROVE  TypeInv'
  BY <1>3 DEF PutTooLarge, TypeOK, PutResult, Outcomes, KeySpaceSize
<1>4. ASSUME NEW k \in Keys, NEW v \in Values, PutOffsetTooShort(k, v)
      PROVE  TypeInv'
  <2>1. dataSize' \in Nat /\ realDataSize' \in Nat /\ dataSize' >= KeySpaceSize
    BY <1>4, GrowTypes DEF PutOffsetTooShort
  <2>2. /\ DOMAIN records' \subseteq Nat
        /\ records' \in [DOMAIN records' -> [key : Keys, value : Values]]
    BY <1>4, AppendTypes DEF PutOffsetTooShort
  <2>3. result'.outcome \in Outcomes
    BY <1>4 DEF PutOffsetTooShort, PutResult, Outcomes
  <2>4. QED
    BY <1>4, <2>1, <2>2, <2>3 DEF PutOffsetTooShort, TypeOK
<1>5. ASSUME NEW k \in Keys, NEW v \in Values, PutInserted(k, v)
      PROVE  TypeInv'
  <2>1. dataSize' \in Nat /\ realDataSize' \in Nat /\ dataSize' >= KeySpaceSize
    BY <1>5, GrowTypes DEF PutInserted
  <2>2. /\ DOMAIN records' \subseteq Nat
        /\ records' \in [DOMAIN records' -> [key : Keys, value : Values]]
    BY <1>5, AppendTypes DEF PutInserted
  <2>3. PICK d \in SlotIds :
          /\ slot' = [slot EXCEPT ![ProbeSlot(k, d)] =
                        [hashcode |-> Hashcode(k), offset |-> NewOffset]]
          /\ maxCollisions' = IF d > maxCollisions THEN d ELSE maxCollisions
    BY <1>5 DEF PutInserted
  <2>4. slot' \in [SlotIds -> [hashcode : Nat, offset : Nat]]
    BY <2>3, HomeIsSlot, NewOffsetIsNumber DEF TypeOK
  <2>5. maxCollisions' \in Nat
    BY <2>3, ConstantsAssumption DEF TypeOK, SlotIds
  <2>6. result'.outcome \in Outcomes
    BY <1>5 DEF PutInserted, PutResult, Outcomes
  <2>7. QED
    BY <1>5, <2>1, <2>2, <2>4, <2>5, <2>6 DEF PutInserted, TypeOK
<1>6. ASSUME NEW k \in Keys, NEW a \in Accessors, Read(a, k)
      PROVE  TypeInv'
  <2>1. \A v : FoundResult(a, k, v).outcome \in Outcomes
    BY DEF FoundResult, ReadResult, Outcomes, Throws
  <2>2. result'.outcome \in Outcomes
    BY <1>6, <2>1 DEF Read, ReadResult, Outcomes
  <2>3. QED
    BY <1>6, <2>2 DEF Read, TypeOK
<1>7. CASE ProbeFreed
  BY <1>7 DEF ProbeFreed, TypeOK
<1>8. CASE Reload
  BY <1>8 DEF Reload, TypeOK, NoResult, Outcomes
<1>9. CASE UNCHANGED vars
  BY <1>9 DEF vars, TypeOK
<1>10. QED
  BY <1>1, <1>2, <1>3, <1>4, <1>5, <1>6, <1>7, <1>8, <1>9 DEF Next, Put

\* Every variable of the cache has its type in every reachable state.
THEOREM TypeCorrect == Spec => []TypeOK
<1>1. TypeInv => TypeOK
  BY DEF TypeInv
<1>2. QED
  BY <1>1, InitTypeInv, NextTypeInv, PTL DEF Spec

-----------------------------------------------------------------------------
(* The inductive invariant.  StoredKeysReachable is not inductive by       *)
(* itself: a probe stops at the right slot because no key is stored twice, *)
(* because every slot between a key's home and its slot is taken, and      *)
(* because a slot's hash bits are those of its record's key.               *)

NoDuplicates == \A i, j \in Occupied : KeyAt(i) = KeyAt(j) => i = j

NoGap ==
  \A i \in Occupied : \A e \in SlotIds :
    e < Distance(KeyAt(i), i) => ~Empty(ProbeSlot(KeyAt(i), e))

HashStored == \A i \in Occupied : slot[i].hashcode = Hashcode(KeyAt(i))

Limit == (NumberOfKeySlots * MaxLoadPercent) \div 100

Counted == numberOfEntries = Cardinality(Occupied) /\ numberOfEntries <= Limit

IInv ==
  TypeInv /\ RecordsWellPlaced /\ NoDuplicates /\ NoGap /\ HashStored /\ Counted

\* Distance inverts ProbeSlot.
LEMMA DistanceInverse ==
  ASSUME NEW k \in Keys, NEW i \in SlotIds
  PROVE  /\ Distance(k, i) \in SlotIds
         /\ ProbeSlot(k, Distance(k, i)) = i
         /\ \A d \in SlotIds : ProbeSlot(k, d) = i => Distance(k, i) = d
BY HomeIsSlot, ConstantsAssumption DEF ProbeSlot, Distance, SlotIds

\* The load limit leaves at least one slot empty.
LEMMA LimitBelowSlots == Limit \in Nat /\ Limit < NumberOfKeySlots
<1> DEFINE n == NumberOfKeySlots
           p == NumberOfKeySlots * MaxLoadPercent
<1>1. n \in Nat \ {0} /\ MaxLoadPercent \in 0..80
  BY ConstantsAssumption
<1>2. p \in Nat /\ p <= 80 * n
  BY <1>1
<1> HIDE DEF p
<1>3. p \div 100 \in Nat /\ 100 * (p \div 100) <= p
  BY <1>2
<1>4. QED
  BY <1>1, <1>2, <1>3 DEF Limit, p

\* The key of an occupied slot is a key.
LEMMA KeyAtIsKey ==
  ASSUME TypeOK, RecordsWellPlaced, NEW i \in Occupied
  PROVE  KeyAt(i) \in Keys /\ i \in SlotIds /\ slot[i].offset \in DOMAIN records
BY DEF TypeOK, RecordsWellPlaced, KeyAt, Occupied

\* The probe for the key of an occupied slot ends at that slot.
LEMMA Reachable == IInv => StoredKeysReachable
<1> SUFFICES ASSUME IInv, NEW i \in Occupied
             PROVE  \E d \in SlotIds : /\ ProbeEndsAt(KeyAt(i), d)
                                       /\ ProbeSlot(KeyAt(i), d) = i
  BY DEF StoredKeysReachable
<1> DEFINE k == KeyAt(i)
           d == Distance(KeyAt(i), i)
<1>1. k \in Keys /\ i \in SlotIds /\ ~Empty(i)
  BY KeyAtIsKey DEF IInv, TypeInv, Occupied
<1>2. d \in SlotIds /\ ProbeSlot(k, d) = i
  BY <1>1, DistanceInverse
<1>3. Stops(k, d)
  <2>1. Matches(k, i)
    BY <1>1 DEF IInv, HashStored, Matches, KeyAt
  <2>2. QED
    BY <1>2, <2>1 DEF Stops
<1>4. ASSUME NEW e \in 0 .. d - 1
      PROVE  ~Stops(k, e)
  <2>1. e \in SlotIds /\ e < d
    BY <1>2, ConstantsAssumption DEF SlotIds
  <2>2. ProbeSlot(k, e) \in SlotIds /\ ProbeSlot(k, e) # i
    BY <1>1, <1>2, <2>1, ProbeSlotIsSlot DEF SlotIds
  <2>3. ~Empty(ProbeSlot(k, e))
    BY <2>1 DEF IInv, NoGap
  <2>4. ~Matches(k, ProbeSlot(k, e))
    BY <2>2, <2>3 DEF IInv, NoDuplicates, Matches, Occupied, KeyAt
  <2>5. QED
    BY <2>3, <2>4 DEF Stops
<1>5. QED
  BY <1>2, <1>3, <1>4 DEF ProbeEndsAt

\* Every probe meets an empty slot, if not the key, and stops at the first.
LEMMA Terminates == IInv => ProbeTerminates
<1> SUFFICES ASSUME IInv, NEW k \in Keys
             PROVE  \E d \in SlotIds : ProbeEndsAt(k, d)
  BY DEF ProbeTerminates
<1>1. NumberOfKeySlots \in Nat \ {0}
  BY ConstantsAssumption
<1>2. IsFiniteSet(SlotIds) /\ Cardinality(SlotIds) = NumberOfKeySlots
  BY <1>1, FS_Interval DEF SlotIds
<1>3. Occupied # SlotIds
  BY <1>1, <1>2, LimitBelowSlots DEF IInv, Counted, TypeInv, TypeOK
<1>4. PICK i \in SlotIds : Empty(i)
  BY <1>3 DEF Occupied
<1> DEFINE T == {d \in SlotIds : Stops(k, d)}
<1>5. T # {} /\ T \subseteq Nat
  <2>1. \E d \in SlotIds : Stops(k, d)
    BY <1>4, ProbeVisitsAll DEF Stops
  <2>2. QED
    BY <2>1 DEF SlotIds
<1>6. PICK d \in T : \A e \in T : ~(e < d)
  BY <1>5, FirstDistance
<1>7. \A e \in 0 .. d - 1 : ~Stops(k, e)
  BY <1>1, <1>6 DEF SlotIds
<1>8. QED
  BY <1>6, <1>7 DEF ProbeEndsAt

-----------------------------------------------------------------------------
(* The invariant holds after construction and after every step *)

\* An empty cache satisfies the invariant.
LEMMA InitIInv == Init => IInv
<1> SUFFICES ASSUME Init PROVE IInv
  OBVIOUS
<1>1. TypeInv
  BY InitTypeInv
<1>2. Occupied = {}
  BY DEF Init, Occupied, Empty
<1>3. Cardinality(Occupied) = 0 /\ numberOfEntries = 0
  BY <1>2, FS_EmptySet DEF Init
<1>4. Counted
  BY <1>3, LimitBelowSlots DEF Counted
<1>5. DOMAIN records = {}
  BY DEF Init
<1>6. dataSize <= realDataSize
  BY SizesAreNumbers DEF Init
<1>7. RecordsWellPlaced
  BY <1>2, <1>5, <1>6 DEF RecordsWellPlaced
<1>8. QED
  BY <1>1, <1>2, <1>4, <1>7 DEF IInv, NoDuplicates, NoGap, HashStored

\* A step that leaves slots, records and counters alone keeps the invariant,
\* as long as the buffer still holds the data.
LEMMA SameContents ==
  ASSUME IInv, TypeInv',
         UNCHANGED <<slot, records, dataSize, numberOfEntries>>,
         dataSize' <= realDataSize'
  PROVE  IInv'
<1>1. Occupied' = Occupied
  BY DEF Occupied, Empty
<1>2. RecordsWellPlaced'
  BY <1>1 DEF IInv, RecordsWellPlaced, RecordBytes, KeyspaceSizeOffset, KeySpaceSize
<1>3. NoDuplicates' /\ HashStored'
  BY <1>1 DEF IInv, NoDuplicates, HashStored, KeyAt, Hashcode
<1>4. NoGap'
  BY <1>1 DEF IInv, NoGap, KeyAt, Empty, Distance, ProbeSlot, Home
<1>5. Counted'
  BY <1>1 DEF IInv, Counted, Limit
<1>6. QED
  BY <1>2, <1>3, <1>4, <1>5 DEF IInv

\* Growing and appending: the new record lies behind all the others, which
\* stay what and where they are.
LEMMA AppendKeepsRecords ==
  ASSUME IInv, NEW k \in Keys, NEW v \in Values,
         Grow(RecordBytes(k, v)), AppendRecord(k, v)
  PROVE  /\ NewOffset \notin DOMAIN records
         /\ \A o \in DOMAIN records : o < NewOffset /\ records'[o] = records[o]
         /\ DOMAIN records' = DOMAIN records \cup {NewOffset}
         /\ records'[NewOffset] = [key |-> k, value |-> v]
         /\ dataSize' <= realDataSize'
         /\ \A o \in DOMAIN records' :
              /\ o >= 8
              /\ o + RecordBytes(records'[o].key, records'[o].value)
                   + KeyspaceSizeOffset <= dataSize'
         /\ \A o, p \in DOMAIN records' :
              o < p => o + RecordBytes(records'[o].key, records'[o].value) <= p
<1> DEFINE Bytes(o) == RecordBytes(records[o].key, records[o].value)
<1>1. /\ dataSize \in Nat /\ realDataSize \in Nat /\ KeyspaceSizeOffset \in Nat
      /\ NewOffset \in Nat /\ NewOffset >= 8
      /\ dataSize = NewOffset + KeyspaceSizeOffset
      /\ RecordBytes(k, v) \in Nat \ {0}
  BY SizesAreNumbers, NewOffsetIsNumber DEF IInv, TypeInv, TypeOK, NewOffset
<1>2. \A o \in DOMAIN records : o \in Nat /\ Bytes(o) \in Nat \ {0}
  BY SizesAreNumbers DEF IInv, TypeInv, TypeOK
<1>3. \A o \in DOMAIN records : o >= 8 /\ o + Bytes(o) + KeyspaceSizeOffset <= dataSize
  BY DEF IInv, RecordsWellPlaced
<1>4. \A o \in DOMAIN records : o + Bytes(o) <= NewOffset /\ o < NewOffset
  BY <1>1, <1>2, <1>3
<1>5. DOMAIN records' = DOMAIN records \cup {NewOffset}
  BY DEF AppendRecord
<1>6. NewOffset \notin DOMAIN records
  BY <1>1, <1>4
<1>7. /\ \A o \in DOMAIN records : records'[o] = records[o]
      /\ records'[NewOffset] = [key |-> k, value |-> v]
  BY <1>6 DEF AppendRecord
<1>8. dataSize' = dataSize + RecordBytes(k, v) /\ dataSize' <= realDataSize'
  <2>1. realDataSize \div 2 \in Nat
    BY <1>1
  <2>2. QED
    BY <1>1, <2>1 DEF Grow
<1>9. ASSUME NEW o \in DOMAIN records'
      PROVE  /\ o >= 8
             /\ o + RecordBytes(records'[o].key, records'[o].value)
                  + KeyspaceSizeOffset <= dataSize'
  <2>1. CASE o = NewOffset
    BY <1>1, <1>7, <1>8, <2>1
  <2>2. CASE o \in DOMAIN records
    BY <1>1, <1>2, <1>3, <1>7, <1>8, <2>2
  <2>3. QED
    BY <1>5, <2>1, <2>2
<1>10. ASSUME NEW o \in DOMAIN records', NEW p \in DOMAIN records', o < p
       PROVE  o + RecordBytes(records'[o].key, records'[o].value) <= p
  <2>1. o \in DOMAIN records
    BY <1>1, <1>2, <1>4, <1>5, <1>10
  <2>2. CASE p = NewOffset
    BY <1>4, <1>7, <2>1, <2>2
  <2>3. CASE p \in DOMAIN records
    BY <1>7, <1>10, <2>1, <2>3 DEF IInv, RecordsWellPlaced
  <2>4. QED
    BY <1>5, <2>2, <2>3
<1>11. QED
  BY <1>4, <1>5, <1>6, <1>7, <1>8, <1>9, <1>10

\* A put that fails with "offset bits too short" leaves a record behind but
\* no slot refers to it.
LEMMA OffsetTooShortKeepsIInv ==
  ASSUME IInv, TypeInv', NEW k \in Keys, NEW v \in Values,
         PutOffsetTooShort(k, v)
  PROVE  IInv'
<1>1. Grow(RecordBytes(k, v)) /\ AppendRecord(k, v)
  BY DEF PutOffsetTooShort
<1>2. slot' = slot /\ numberOfEntries' = numberOfEntries
  BY DEF PutOffsetTooShort
<1>3. Occupied' = Occupied
  BY <1>2 DEF Occupied, Empty
<1>4. \A i \in Occupied : KeyAt(i)' = KeyAt(i) /\ slot[i].offset \in DOMAIN records
  BY <1>1, <1>2, AppendKeepsRecords DEF IInv, RecordsWellPlaced, KeyAt
<1>5. RecordsWellPlaced'
  <2>1. \A i \in Occupied' : slot'[i].offset \in DOMAIN records'
    BY <1>1, <1>2, <1>3, <1>4, AppendKeepsRecords
  <2>2. \A i, j \in Occupied' : slot'[i].offset = slot'[j].offset => i = j
    BY <1>2, <1>3 DEF IInv, RecordsWellPlaced
  <2>3. QED
    BY <1>1, <2>1, <2>2, AppendKeepsRecords
       DEF RecordsWellPlaced, RecordBytes, KeyspaceSizeOffset, KeySpaceSize
<1>6. NoDuplicates' /\ HashStored'
  BY <1>2, <1>3, <1>4 DEF IInv, NoDuplicates, HashStored, Hashcode
<1>7. NoGap'
  BY <1>2, <1>3, <1>4 DEF IInv, NoGap, Empty, Distance, ProbeSlot, Home
<1>8. Counted'
  BY <1>2, <1>3 DEF IInv, Counted, Limit
<1>9. QED
  BY <1>5, <1>6, <1>7, <1>8 DEF IInv

\* A probe that ends at an empty slot has passed no slot that holds the key,
\* and none is behind it.
LEMMA ProbeMisses ==
  ASSUME IInv, NEW k \in Keys, NEW d \in SlotIds, ProbeEndsAt(k, d),
         Empty(ProbeSlot(k, d))
  PROVE  /\ ProbeSlot(k, d) \in SlotIds \ Occupied
         /\ \A i \in Occupied : KeyAt(i) # k
         /\ \A e \in SlotIds : e < d => ~Empty(ProbeSlot(k, e))
<1>1. ProbeSlot(k, d) \in SlotIds \ Occupied
  BY ProbeSlotIsSlot DEF Occupied
<1>2. \A e \in SlotIds : e < d => ~Stops(k, e)
  BY ConstantsAssumption DEF ProbeEndsAt, SlotIds
<1>3. ASSUME NEW i \in Occupied, KeyAt(i) = k
      PROVE  FALSE
  <2> DEFINE e == Distance(k, i)
  <2>1. i \in SlotIds /\ e \in SlotIds /\ ProbeSlot(k, e) = i
    BY DistanceInverse DEF Occupied
  <2>2. Stops(k, e)
    BY <1>3, <2>1 DEF Stops, Matches, Occupied, IInv, HashStored, KeyAt
  <2>3. e # d
    BY <1>1, <2>1
  <2>4. ~(e < d)
    BY <1>2, <2>1, <2>2
  <2>5. d < e
    BY <2>1, <2>3, <2>4, ConstantsAssumption DEF SlotIds
  <2>6. ~Empty(ProbeSlot(k, d))
    BY <1>3, <2>5 DEF IInv, NoGap
  <2>7. QED
    BY <2>6
<1>4. QED
  BY <1>1, <1>2, <1>3 DEF Stops

\* The free slot at distance d is none of the slots in use, and the key put
\* there is the key of none of them.
LEMMA FreeSlotIsNew ==
  ASSUME IInv, NEW k \in Keys, NEW d \in SlotIds, FreeSlot(k, d)
  PROVE  /\ ProbeSlot(k, d) \in SlotIds \ Occupied
         /\ \A i \in Occupied : KeyAt(i) # k
         /\ \A e \in SlotIds : e < d => ~Empty(ProbeSlot(k, e))
BY ProbeMisses DEF FreeSlot

\* A successful put: one more slot is taken, at the end of an unbroken run
\* of taken slots from the key's home.
LEMMA InsertedKeepsIInv ==
  ASSUME IInv, TypeInv', NEW k \in Keys, NEW v \in Values, PutInserted(k, v)
  PROVE  IInv'
<1>1. /\ Grow(RecordBytes(k, v)) /\ AppendRecord(k, v)
      /\ numberOfEntries' = numberOfEntries + 1
  BY DEF PutInserted
<1>2. PICK d \in SlotIds :
        /\ FreeSlot(k, d)
        /\ slot' = [slot EXCEPT ![ProbeSlot(k, d)] =
                      [hashcode |-> Hashcode(k), offset |-> NewOffset]]
  BY DEF PutInserted
<1>3. PICK s \in SlotIds \ Occupied : s = ProbeSlot(k, d)
  BY <1>2, FreeSlotIsNew
<1>4. /\ NewOffset \notin DOMAIN records
      /\ DOMAIN records' = DOMAIN records \cup {NewOffset}
      /\ \A o \in DOMAIN records : records'[o] = records[o]
      /\ records'[NewOffset] = [key |-> k, value |-> v]
  BY <1>1, AppendKeepsRecords
<1>5. s \in SlotIds /\ s \notin Occupied
  BY <1>3
<1>6. /\ slot'[s] = [hashcode |-> Hashcode(k), offset |-> NewOffset]
      /\ \A i \in SlotIds : i # s => slot'[i] = slot[i]
  BY <1>2, <1>5, <1>3 DEF IInv, TypeInv, TypeOK
<1>7. NewOffset \in Nat /\ NewOffset >= 8
  BY NewOffsetIsNumber DEF IInv
<1>8. Occupied' = Occupied \cup {s}
  BY <1>5, <1>6, <1>7 DEF Occupied, Empty
<1>9. KeyAt(s)' = k /\ slot'[s].hashcode = Hashcode(k)
  BY <1>6, <1>4 DEF KeyAt
<1>10. ASSUME NEW i \in Occupied
      PROVE  /\ i \in SlotIds /\ i # s
             /\ slot'[i] = slot[i]
             /\ slot[i].offset \in DOMAIN records
             /\ KeyAt(i)' = KeyAt(i)
  <2>1. i \in SlotIds /\ i # s /\ slot'[i] = slot[i]
    BY <1>5, <1>6 DEF Occupied
  <2>2. slot[i].offset \in DOMAIN records
    BY DEF IInv, RecordsWellPlaced
  <2>3. QED
    BY <2>1, <2>2, <1>4 DEF KeyAt
<1>11. RecordsWellPlaced'
  <2>1. \A i \in Occupied' : slot'[i].offset \in DOMAIN records'
    BY <1>6, <1>8, <1>10, <1>4
  <2>2. ASSUME NEW i \in Occupied', NEW j \in Occupied',
               slot'[i].offset = slot'[j].offset
        PROVE  i = j
    <3>1. CASE i \in Occupied /\ j \in Occupied
      BY <1>10, <2>2, <3>1 DEF IInv, RecordsWellPlaced
    <3>2. CASE i = s /\ j \in Occupied
      BY <1>6, <1>10, <2>2, <3>2, <1>4
    <3>3. CASE i \in Occupied /\ j = s
      BY <1>6, <1>10, <2>2, <3>3, <1>4
    <3>4. QED
      BY <1>8, <3>1, <3>2, <3>3
  <2>3. QED
    BY <1>1, <2>1, <2>2, AppendKeepsRecords
       DEF RecordsWellPlaced, RecordBytes, KeyspaceSizeOffset, KeySpaceSize
<1>12. NoDuplicates'
  BY <1>2, <1>8, <1>9, <1>10, FreeSlotIsNew DEF IInv, NoDuplicates
<1>13. HashStored'
  BY <1>8, <1>9, <1>10 DEF IInv, HashStored, Hashcode
<1>14. NoGap'
  <2>1. \A i \in SlotIds : ~Empty(i) => slot'[i].offset # 0
    BY <1>8 DEF Occupied, Empty
  <2>2. ASSUME NEW i \in Occupied', NEW e \in SlotIds,
               e < Distance(KeyAt(i)', i)
        PROVE  slot'[ProbeSlot(KeyAt(i)', e)].offset # 0
    <3>1. CASE i = s
      <4>1. Distance(k, s) = d
        BY <1>3, DistanceInverse
      <4>2. ~Empty(ProbeSlot(k, e))
        BY <1>2, <1>9, <2>2, <3>1, <4>1, FreeSlotIsNew
      <4>3. QED
        BY <1>9, <2>1, <3>1, <4>2, ProbeSlotIsSlot
    <3>2. CASE i \in Occupied
      <4>1. ~Empty(ProbeSlot(KeyAt(i), e)) /\ KeyAt(i) \in Keys
        BY <1>10, <2>2, <3>2, KeyAtIsKey DEF IInv, NoGap, TypeInv
      <4>2. QED
        BY <1>10, <2>1, <3>2, <4>1, ProbeSlotIsSlot
    <3>3. QED
      BY <1>8, <3>1, <3>2
  <2>3. QED
    BY <2>2 DEF NoGap, Empty, Distance, ProbeSlot, Home
<1>15. Counted'
  <2>1. IsFiniteSet(SlotIds)
    BY ConstantsAssumption, FS_Interval DEF SlotIds
  <2>2. IsFiniteSet(Occupied)
    BY <2>1, FS_Subset DEF Occupied
  <2>3. Cardinality(Occupied') = Cardinality(Occupied) + 1
    BY <1>5, <1>8, <2>2, FS_AddElement
  <2>4. numberOfEntries < Limit
    BY <1>2, LimitBelowSlots DEF FreeSlot, Room, MaxNumberOfEntries, IInv, TypeInv, TypeOK, Limit
  <2>5. QED
    BY <1>1, <2>3, <2>4, LimitBelowSlots DEF IInv, Counted, TypeInv, TypeOK, Limit
<1>16. QED
  BY <1>11, <1>12, <1>13, <1>14, <1>15 DEF IInv

\* Every step of a call keeps the invariant.
LEMMA NextIInv == IInv /\ [Next]_vars => IInv'
<1> SUFFICES ASSUME IInv, [Next]_vars PROVE IInv'
  OBVIOUS
<1>1. TypeInv'
  BY NextTypeInv DEF IInv
<1>2. dataSize \in Nat /\ dataSize <= realDataSize
  BY DEF IInv, RecordsWellPlaced, TypeInv, TypeOK
<1>3. ASSUME NEW k \in Keys, NEW v \in Values, PutKeySpaceFull(k, v)
      PROVE  IInv'
  BY <1>1, <1>2, <1>3, SameContents DEF PutKeySpaceFull
<1>4. ASSUME NEW k \in Keys, NEW v \in Values, PutExisting(k, v)
      PROVE  IInv'
  BY <1>1, <1>2, <1>4, SameContents DEF PutExisting
<1>5. ASSUME NEW k \in Keys, NEW v \in Values, PutTooLarge(k, v)
      PROVE  IInv'
  BY <1>1, <1>2, <1>5, SameContents DEF PutTooLarge
<1>6. ASSUME NEW k \in Keys, NEW v \in Values, PutOffsetTooShort(k, v)
      PROVE  IInv'
  BY <1>1, <1>6, OffsetTooShortKeepsIInv
<1>7. ASSUME NEW k \in Keys, NEW v \in Values, PutInserted(k, v)
      PROVE  IInv'
  BY <1>1, <1>7, InsertedKeepsIInv
<1>8. ASSUME NEW k \in Keys, NEW a \in Accessors, Read(a, k)
      PROVE  IInv'
  BY <1>1, <1>2, <1>8, SameContents DEF Read
<1>9. CASE ProbeFreed
  BY <1>1, <1>2, <1>9, SameContents DEF ProbeFreed
<1>10. CASE Reload
  BY <1>1, <1>2, <1>10, SameContents DEF Reload
<1>11. CASE UNCHANGED vars
  BY <1>1, <1>2, <1>11, SameContents DEF vars
<1>12. QED
  BY <1>3, <1>4, <1>5, <1>6, <1>7, <1>8, <1>9, <1>10, <1>11 DEF Next, Put

\* The loops of findKeySlotOffset and findFreeKeySlotOffset end for every
\* key in every reachable state, whatever the hash function does.
THEOREM ProbeAlwaysTerminates == Spec => []ProbeTerminates
BY InitIInv, NextIInv, Terminates, PTL DEF Spec

\* findKeySlotOffset finds every key that a put has stored.
THEOREM StoredKeysAlwaysReachable == Spec => []StoredKeysReachable
BY InitIInv, NextIInv, Reachable, PTL DEF Spec

\* Records never overlap each other or the key space, never reach beyond the
\* buffer, and no two slots share one.
THEOREM RecordsAlwaysWellPlaced == Spec => []RecordsWellPlaced
<1>1. IInv => RecordsWellPlaced
  BY DEF IInv
<1>2. QED
  BY <1>1, InitIInv, NextIInv, PTL DEF Spec

\* The number of entries in the header is the number of taken slots and
\* respects the load limit.
THEOREM EntriesAlwaysCounted == Spec => []Counted
<1>1. IInv => Counted
  BY DEF IInv
<1>2. QED
  BY <1>1, InitIInv, NextIInv, PTL DEF Spec

\* A record that lies beyond the offset bits is never removed, and only a put
\* that appends one leaves the pointer behind.
LEMMA NextStalePtrCause ==
  StalePtrCause /\ [Next]_vars => StalePtrCause'
<1> SUFFICES ASSUME StalePtrCause, [Next]_vars
             PROVE  StalePtrCause'
  OBVIOUS
<1>1. ASSUME records' = records, keySpacePtr' = keySpacePtr
      PROVE  StalePtrCause'
  BY <1>1 DEF StalePtrCause
<1>2. ASSUME NEW k \in Keys, NEW v \in Values, PutOffsetTooShort(k, v)
      PROVE  StalePtrCause'
  <2>1. NewOffset \in DOMAIN records'
    BY <1>2 DEF PutOffsetTooShort, AppendRecord
  <2>2. NewOffset >= OffsetSpan
    BY <1>2 DEF PutOffsetTooShort
  <2>3. QED
    BY <2>1, <2>2 DEF StalePtrCause
<1>3. ASSUME NEW k \in Keys, NEW v \in Values, PutInserted(k, v)
      PROVE  StalePtrCause'
  BY <1>3 DEF PutInserted, StalePtrCause
<1>4. ASSUME NEW k \in Keys, NEW v \in Values,
             PutKeySpaceFull(k, v) \/ PutExisting(k, v) \/ PutTooLarge(k, v)
      PROVE  StalePtrCause'
  BY <1>1, <1>4 DEF PutKeySpaceFull, PutExisting, PutTooLarge
<1>5. ASSUME NEW k \in Keys, NEW a \in Accessors, Read(a, k)
      PROVE  StalePtrCause'
  BY <1>1, <1>5 DEF Read
<1>6. CASE ProbeFreed
  BY <1>6 DEF ProbeFreed, StalePtrCause
<1>7. CASE Reload
  BY <1>7 DEF Reload, StalePtrCause
<1>8. CASE UNCHANGED vars
  BY <1>1, <1>8 DEF vars
<1>9. QED
  BY <1>2, <1>3, <1>4, <1>5, <1>6, <1>7, <1>8 DEF Next, Put

\* mKeySpacePtr points into a freed buffer only after a put was refused for
\* its offset, whatever the allocator does and however large records are.
THEOREM StalePtrAlwaysCaused == Spec => []StalePtrCause
<1>1. Init => StalePtrCause
  BY DEF Init, StalePtrCause
<1>2. QED
  BY <1>1, NextStalePtrCause, PTL DEF Spec

-----------------------------------------------------------------------------
(* The header.  maxCollisions is a maximum over the slots in use; what is  *)
(* inductive is that it bounds every displacement and is one of them.      *)

Furthest ==
  /\ \A i \in Occupied : Distance(KeyAt(i), i) <= maxCollisions
  /\ \/ maxCollisions = 0
     \/ \E i \in Occupied : Distance(KeyAt(i), i) = maxCollisions

\* A step that keeps the slots, their keys and maxCollisions.
LEMMA SameFurthest ==
  ASSUME Furthest, slot' = slot, maxCollisions' = maxCollisions,
         \A i \in Occupied : KeyAt(i)' = KeyAt(i)
  PROVE  Furthest'
<1>1. Occupied' = Occupied
  BY DEF Occupied, Empty
<1>2. QED
  BY <1>1 DEF Furthest, Distance, Home

\* A successful put takes one more slot, at the distance that maxCollisions
\* is compared with.
LEMMA InsertedFurthest ==
  ASSUME IInv, Furthest, NEW k \in Keys, NEW v \in Values, PutInserted(k, v)
  PROVE  Furthest'
<1>1. Grow(RecordBytes(k, v)) /\ AppendRecord(k, v)
  BY DEF PutInserted
<1>2. PICK d \in SlotIds :
        /\ FreeSlot(k, d)
        /\ slot' = [slot EXCEPT ![ProbeSlot(k, d)] =
                      [hashcode |-> Hashcode(k), offset |-> NewOffset]]
        /\ maxCollisions' = IF d > maxCollisions THEN d ELSE maxCollisions
  BY DEF PutInserted
<1>3. PICK s \in SlotIds \ Occupied : s = ProbeSlot(k, d)
  BY <1>2, FreeSlotIsNew
<1>4. /\ \A o \in DOMAIN records : records'[o] = records[o]
      /\ records'[NewOffset] = [key |-> k, value |-> v]
  BY <1>1, AppendKeepsRecords
<1>5. /\ slot'[s] = [hashcode |-> Hashcode(k), offset |-> NewOffset]
      /\ \A i \in SlotIds : i # s => slot'[i] = slot[i]
  BY <1>2, <1>3 DEF IInv, TypeInv, TypeOK
<1>6. Occupied' = Occupied \cup {s}
  <2>1. NewOffset \in Nat /\ NewOffset >= 8
    BY NewOffsetIsNumber DEF IInv
  <2>2. QED
    BY <1>3, <1>5, <2>1 DEF Occupied, Empty
<1>7. KeyAt(s)' = k /\ Distance(k, s) = d
  BY <1>3, <1>4, <1>5, DistanceInverse DEF KeyAt
<1>8. \A i \in Occupied : KeyAt(i)' = KeyAt(i)
  BY <1>3, <1>4, <1>5 DEF IInv, RecordsWellPlaced, KeyAt, Occupied
<1>9. /\ Distance(KeyAt(s), s)' = d
      /\ \A i \in Occupied :
           Distance(KeyAt(i), i)' = Distance(KeyAt(i), i)
  BY <1>7, <1>8 DEF Distance, Home
<1>10. /\ maxCollisions \in Nat /\ d \in Nat
       /\ \A i \in Occupied : Distance(KeyAt(i), i) \in Nat
  <2>1. maxCollisions \in Nat /\ d \in Nat
    BY ConstantsAssumption DEF IInv, TypeInv, TypeOK, SlotIds
  <2>2. \A i \in Occupied : KeyAt(i) \in Keys /\ i \in SlotIds
    BY KeyAtIsKey DEF IInv, TypeInv
  <2>3. QED
    BY <2>1, <2>2, DistanceInverse, ConstantsAssumption DEF SlotIds
<1>11. ASSUME NEW i \in Occupied'
       PROVE  Distance(KeyAt(i), i)' <= maxCollisions'
  BY <1>2, <1>6, <1>9, <1>10 DEF Furthest
<1>12. \/ maxCollisions' = 0
       \/ \E i \in Occupied' : Distance(KeyAt(i), i)' = maxCollisions'
  BY <1>2, <1>6, <1>9, <1>10 DEF Furthest
<1>13. QED
  BY <1>11, <1>12 DEF Furthest

\* Every step keeps maxCollisions at the largest displacement.
LEMMA NextFurthest == IInv /\ Furthest /\ [Next]_vars => Furthest'
<1> SUFFICES ASSUME IInv, Furthest, [Next]_vars PROVE Furthest'
  OBVIOUS
<1>1. ASSUME slot' = slot, records' = records, maxCollisions' = maxCollisions
      PROVE  Furthest'
  BY <1>1, SameFurthest DEF KeyAt
<1>2. ASSUME NEW k \in Keys, NEW v \in Values, PutOffsetTooShort(k, v)
      PROVE  Furthest'
  <2>1. Grow(RecordBytes(k, v)) /\ AppendRecord(k, v)
    BY <1>2 DEF PutOffsetTooShort
  <2>2. slot' = slot /\ maxCollisions' = maxCollisions
    BY <1>2 DEF PutOffsetTooShort
  <2>3. \A i \in Occupied : KeyAt(i)' = KeyAt(i)
    BY <2>1, <2>2, AppendKeepsRecords DEF IInv, RecordsWellPlaced, KeyAt
  <2>4. QED
    BY <2>2, <2>3, SameFurthest
<1>3. ASSUME NEW k \in Keys, NEW v \in Values, PutInserted(k, v)
      PROVE  Furthest'
  BY <1>3, InsertedFurthest
<1>4. ASSUME NEW k \in Keys, NEW v \in Values,
             PutKeySpaceFull(k, v) \/ PutExisting(k, v) \/ PutTooLarge(k, v)
      PROVE  Furthest'
  BY <1>1, <1>4 DEF PutKeySpaceFull, PutExisting, PutTooLarge
<1>5. ASSUME NEW k \in Keys, NEW a \in Accessors, Read(a, k)
      PROVE  Furthest'
  BY <1>1, <1>5 DEF Read
<1>6. CASE ProbeFreed
  BY <1>1, <1>6 DEF ProbeFreed
<1>7. CASE Reload
  BY <1>1, <1>7 DEF Reload
<1>8. CASE UNCHANGED vars
  BY <1>1, <1>8 DEF vars
<1>9. QED
  BY <1>2, <1>3, <1>4, <1>5, <1>6, <1>7, <1>8 DEF Next, Put

\* A member of a set of numbers that none exceeds is its maximum.
LEMMA MaxIsBound ==
  ASSUME NEW S \in SUBSET Nat, NEW m \in S, \A y \in S : y <= m
  PROVE  Max(S) = m
<1>1. \A y \in S : m >= y
  OBVIOUS
<1>2. \A x \in S : (\A y \in S : x >= y) => x = m
  BY <1>1
<1>3. QED
  BY <1>1, <1>2 DEF Max

\* numberOfEntries and maxCollisions in the header are the number of stored
\* keys, within the load limit, and the largest displacement of one.
THEOREM HeaderAlwaysExact == Spec => []HeaderExact
<1>1. Init => Furthest
  BY DEF Init, Furthest, Occupied, Empty
<1>2. IInv /\ Furthest => HeaderExact
  <2> SUFFICES ASSUME IInv, Furthest PROVE HeaderExact
    OBVIOUS
  <2> DEFINE S == {Distance(KeyAt(i), i) : i \in Occupied} \cup {0}
  <2>1. \A i \in Occupied : Distance(KeyAt(i), i) \in Nat
    <3>1. \A i \in Occupied : KeyAt(i) \in Keys /\ i \in SlotIds
      BY KeyAtIsKey DEF IInv, TypeInv
    <3>2. QED
      BY <3>1, DistanceInverse, ConstantsAssumption DEF SlotIds
  <2>2. maxCollisions \in Nat
    BY DEF IInv, TypeInv, TypeOK
  <2>3. S \in SUBSET Nat /\ maxCollisions \in S
    BY <2>1 DEF Furthest
  <2>4. \A y \in S : y <= maxCollisions
    BY <2>2 DEF Furthest
  <2>5. Max(S) = maxCollisions
    BY <2>3, <2>4, MaxIsBound
  <2>6. QED
    BY <2>5 DEF HeaderExact, IInv, Counted, Limit
<1>3. QED
  BY <1>1, <1>2, InitIInv, NextIInv, NextFurthest, PTL DEF Spec

-----------------------------------------------------------------------------
(* The refinement of KVStore.  The mapping gives each key the value of the *)
(* slot that holds it: NoDuplicates makes it one, and FreeSlotIsNew says   *)
(* that a probe which ends at an empty slot has not missed it.             *)

\* The value of an occupied slot is what the dictionary has for its key.
LEMMA DictOfSlot ==
  ASSUME IInv, NEW i \in Occupied
  PROVE  /\ KeyAt(i) \in Keys /\ ValueAt(i) \in Values
         /\ Dict[KeyAt(i)] = ValueAt(i)
<1>1. KeyAt(i) \in Keys /\ slot[i].offset \in DOMAIN records
  BY KeyAtIsKey DEF IInv, TypeInv
<1>2. ValueAt(i) \in Values
  BY <1>1 DEF ValueAt, IInv, TypeInv, TypeOK
<1>3. \A j \in Occupied : KeyAt(j) = KeyAt(i) => j = i
  BY DEF IInv, NoDuplicates
<1>4. (CHOOSE j \in Occupied : KeyAt(j) = KeyAt(i)) = i
  BY <1>3
<1>5. Dict[KeyAt(i)] = ValueAt(CHOOSE j \in Occupied : KeyAt(j) = KeyAt(i))
  BY <1>1 DEF Dict
<1> QED
  BY <1>1, <1>2, <1>4, <1>5

\* A key has no value where no slot holds it.
LEMMA DictOfMissing ==
  ASSUME IInv, NEW k \in Keys
  PROVE  Dict[k] = NoValue <=> \A i \in Occupied : KeyAt(i) # k
<1>1. CASE \A i \in Occupied : KeyAt(i) # k
  BY <1>1 DEF Dict
<1>2. CASE \E i \in Occupied : KeyAt(i) = k
  BY <1>2, DictOfSlot, ConstantsAssumption
<1> QED
  BY <1>1, <1>2

\* KVStore counts its keys with the same operator.
LEMMA StoreCardinality == \A S : Store!Cardinality(S) = Cardinality(S)
BY DEF Store!Cardinality, Cardinality

\* There are as many keys in the dictionary as slots in use.
LEMMA DictCounted ==
  ASSUME IInv
  PROVE  Cardinality(Store!StoredKeys) = numberOfEntries
<1> DEFINE f == [i \in Occupied |-> KeyAt(i)]
<1>1. \A i \in Occupied : KeyAt(i) \in Keys
  BY DictOfSlot
<1>2. Store!StoredKeys = {k \in Keys : \E i \in Occupied : KeyAt(i) = k}
  BY DictOfMissing DEF Store!StoredKeys
<1>3. f \in [Occupied -> Store!StoredKeys]
  BY <1>1, <1>2
<1>4. \A i, j \in Occupied : f[i] = f[j] => i = j
  BY DEF IInv, NoDuplicates
<1>5. \A k \in Store!StoredKeys : \E i \in Occupied : f[i] = k
  BY <1>2
<1>6. f \in Bijection(Occupied, Store!StoredKeys)
  <2> DEFINE T == Store!StoredKeys
  <2>1. /\ f \in [Occupied -> T]
        /\ \A i, j \in Occupied : f[i] = f[j] => i = j
        /\ \A k \in T : \E i \in Occupied : f[i] = k
    BY <1>3, <1>4, <1>5
  <2> HIDE DEF f, T
  <2>2. f \in Bijection(Occupied, T)
    BY <2>1 DEF Bijection, Injection, Surjection, IsInjective
  <2> QED
    BY <2>2 DEF T
<1>7. IsFiniteSet(Occupied)
  <2>1. IsFiniteSet(SlotIds)
    BY ConstantsAssumption, FS_Interval DEF SlotIds
  <2> QED
    BY <2>1, FS_Subset DEF Occupied
<1>8. ExistsBijection(Occupied, Store!StoredKeys)
  BY <1>6 DEF ExistsBijection
<1>9. Cardinality(Store!StoredKeys) = Cardinality(Occupied)
  BY <1>7, <1>8, FS_Bijection
<1> QED
  BY <1>9 DEF IInv, Counted

\* Room for another key is what KVStore calls not full.
LEMMA RoomIsNotFull ==
  ASSUME IInv
  PROVE  Room <=> ~Store!Full
<1>1. Store!Full <=> loaded \/ numberOfEntries >= Limit
  BY DictCounted, StoreCardinality DEF Store!Full, Limit
<1>2. numberOfEntries \in Nat /\ Limit \in Nat
  BY LimitBelowSlots DEF IInv, TypeInv, TypeOK
<1>3. CASE loaded
  BY <1>1, <1>2, <1>3 DEF Room, MaxNumberOfEntries
<1>4. CASE ~loaded
  BY <1>1, <1>2, <1>4 DEF Room, MaxNumberOfEntries, Limit
<1> QED
  BY <1>3, <1>4

\* What a client is told, by the outcome of its call.
LEMMA AnswerOfResult ==
  ASSUME NEW call, NEW k, NEW v, NEW outcome \in Outcomes \ {"none"},
         result' = [call |-> call, outcome |-> outcome, key |-> k, value |-> v]
  PROVE  /\ outcome \in {"inserted", "exists"} =>
              StoreAnswer' = Store!Answer(outcome, k, v)
         /\ outcome \in {"keySpaceFull", "keyTooLarge", "valueTooLarge",
                         "offsetTooShort"} =>
              StoreAnswer' = Store!Answer("error", k, v)
         /\ outcome = "value" => StoreAnswer' = Store!Answer("read", k, v)
         /\ outcome = "missing" => StoreAnswer' = Store!Answer("nothing", k, v)
         /\ outcome \in {"sizeWrapped", "throws", "default"} =>
              StoreAnswer' = Store!Answer("unspecified", k, NoValue)
<1>1. result'.outcome = outcome /\ result'.key = k /\ result'.value = v
  OBVIOUS
<1>2. CASE outcome = "inserted"
  BY <1>1, <1>2 DEF StoreAnswer, Store!Answer
<1>3. CASE outcome = "exists"
  BY <1>1, <1>3 DEF StoreAnswer, Store!Answer
<1>4. CASE outcome \in {"keySpaceFull", "keyTooLarge", "valueTooLarge",
                        "offsetTooShort"}
  BY <1>1, <1>4 DEF StoreAnswer, Store!Answer
<1>5. CASE outcome = "value"
  BY <1>1, <1>5 DEF StoreAnswer, Store!Answer
<1>6. CASE outcome = "missing"
  BY <1>1, <1>6 DEF StoreAnswer, Store!Answer
<1>7. CASE outcome \in {"sizeWrapped", "throws", "default"}
  BY <1>1, <1>7 DEF StoreAnswer, Store!Answer
<1> QED
  BY <1>2, <1>3, <1>4, <1>5, <1>6, <1>7 DEF Outcomes

\* What the dictionary is, at once and after a step.
Mapped ==
  /\ \A i \in Occupied : Dict[KeyAt(i)] = ValueAt(i)
  /\ \A k \in Keys : Dict[k] = NoValue <=> \A i \in Occupied : KeyAt(i) # k

LEMMA DictMapped == IInv => Mapped
BY DictOfSlot, DictOfMissing DEF Mapped

LEMMA DictMappedNext == IInv' => Mapped'
BY DictMapped, PTL

\* A step that keeps the slots and what they refer to keeps the dictionary.
LEMMA SameDict ==
  ASSUME IInv, IInv', slot' = slot,
         \A i \in Occupied : KeyAt(i)' = KeyAt(i) /\ ValueAt(i)' = ValueAt(i)
  PROVE  Dict' = Dict
<1>1. Occupied' = Occupied
  BY DEF Occupied, Empty
<1>2. Mapped /\ Mapped'
  BY DictMapped, DictMappedNext
<1>3. ASSUME NEW k \in Keys PROVE Dict'[k] = Dict[k]
  <2>1. CASE \A i \in Occupied : KeyAt(i) # k
    BY <1>1, <1>2, <2>1 DEF Mapped
  <2>2. CASE \E i \in Occupied : KeyAt(i) = k
    BY <1>1, <1>2, <2>2 DEF Mapped
  <2> QED
    BY <2>1, <2>2
<1> QED
  BY <1>3 DEF Dict

\* A put that stores its key is KVStore's Insert.
LEMMA InsertedMaps ==
  ASSUME IInv, IInv', NEW k \in Keys, NEW v \in Values, PutInserted(k, v)
  PROVE  Store!Insert(k, v)
<1>1. /\ AppendRecord(k, v) /\ Grow(RecordBytes(k, v)) /\ UNCHANGED loaded
      /\ result' = PutResult("inserted", k, v)
  BY DEF PutInserted
<1>2. PICK d \in SlotIds :
        /\ FreeSlot(k, d)
        /\ slot' = [slot EXCEPT ![ProbeSlot(k, d)] =
                      [hashcode |-> Hashcode(k), offset |-> NewOffset]]
  BY DEF PutInserted
<1>3. PICK s \in SlotIds \ Occupied : s = ProbeSlot(k, d)
  BY <1>2, FreeSlotIsNew
<1>4. /\ \A o \in DOMAIN records : records'[o] = records[o]
      /\ records'[NewOffset] = [key |-> k, value |-> v]
  BY <1>1, AppendKeepsRecords
<1>5. /\ slot'[s] = [hashcode |-> Hashcode(k), offset |-> NewOffset]
      /\ \A i \in SlotIds : i # s => slot'[i] = slot[i]
  BY <1>2, <1>3 DEF IInv, TypeInv, TypeOK
<1>6. Occupied' = Occupied \cup {s}
  <2>1. NewOffset \in Nat /\ NewOffset >= 8
    BY NewOffsetIsNumber DEF IInv
  <2> QED
    BY <1>3, <1>5, <2>1 DEF Occupied, Empty
<1>7. KeyAt(s)' = k /\ ValueAt(s)' = v
  BY <1>4, <1>5 DEF KeyAt, ValueAt
<1>8. \A i \in Occupied : KeyAt(i)' = KeyAt(i) /\ ValueAt(i)' = ValueAt(i)
  BY <1>3, <1>4, <1>5 DEF IInv, RecordsWellPlaced, KeyAt, ValueAt, Occupied
<1>9. \A i \in Occupied : KeyAt(i) # k
  BY <1>2, FreeSlotIsNew
<1>10. Mapped /\ Mapped'
  BY DictMapped, DictMappedNext
<1>11. Dict[k] = NoValue /\ Dict'[k] = v
  BY <1>6, <1>7, <1>9, <1>10 DEF Mapped
<1>12. ASSUME NEW c \in Keys, c # k PROVE Dict'[c] = Dict[c]
  <2>1. CASE \A i \in Occupied : KeyAt(i) # c
    BY <1>6, <1>7, <1>8, <1>10, <1>12, <2>1 DEF Mapped
  <2>2. CASE \E i \in Occupied : KeyAt(i) = c
    BY <1>6, <1>8, <1>10, <2>2 DEF Mapped
  <2> QED
    BY <2>1, <2>2
<1>13. Dict' = [Dict EXCEPT ![k] = v]
  <2>1. Dict = [c \in Keys |-> Dict[c]] /\ Dict' = [c \in Keys |-> Dict'[c]]
    BY DEF Dict
  <2> HIDE DEF Dict
  <2> QED
    BY <1>11, <1>12, <2>1
<1>14. ~Store!Full
  BY <1>2, RoomIsNotFull DEF FreeSlot
<1>15. StoreAnswer' = Store!Answer("inserted", k, v)
  <2>1. "inserted" \in Outcomes \ {"none"}
    BY DEF Outcomes
  <2> QED
    BY <1>1, <2>1, AnswerOfResult DEF PutResult
<1> QED
  BY <1>1, <1>11, <1>13, <1>14, <1>15 DEF Store!Insert

\* A put that is refused has an answer of KVStore, and changes no value.
LEMMA RefusedMaps ==
  ASSUME IInv, IInv', NEW k \in Keys, NEW v \in Values,
         \/ PutKeySpaceFull(k, v) \/ PutExisting(k, v) \/ PutTooLarge(k, v)
         \/ PutOffsetTooShort(k, v)
  PROVE  Store!RefuseExisting(k, v) \/ Store!Fail(k, v)
<1>1. slot' = slot /\ UNCHANGED loaded
  BY DEF PutKeySpaceFull, PutExisting, PutTooLarge, PutOffsetTooShort
<1>2. \A i \in Occupied : KeyAt(i)' = KeyAt(i) /\ ValueAt(i)' = ValueAt(i)
  <2>1. CASE records' = records
    BY <1>1, <2>1 DEF KeyAt, ValueAt
  <2>2. CASE PutOffsetTooShort(k, v)
    <3>1. \A o \in DOMAIN records : records'[o] = records[o]
      BY <2>2, AppendKeepsRecords DEF PutOffsetTooShort
    <3> QED
      BY <1>1, <3>1 DEF IInv, RecordsWellPlaced, KeyAt, ValueAt
  <2> QED
    BY <2>1, <2>2 DEF PutKeySpaceFull, PutExisting, PutTooLarge
<1>3. Dict' = Dict
  BY <1>1, <1>2, SameDict
<1>4. ASSUME NEW outcome \in {"keySpaceFull", "keyTooLarge", "valueTooLarge",
                              "offsetTooShort"},
             result' = PutResult(outcome, k, v),
             Store!Full \/ Dict[k] = NoValue
      PROVE  Store!Fail(k, v)
  <2>1. outcome \in Outcomes \ {"none"}
    BY DEF Outcomes
  <2>2. StoreAnswer' = Store!Answer("error", k, v)
    BY <1>4, <2>1, AnswerOfResult DEF PutResult
  <2> QED
    BY <1>1, <1>3, <1>4, <2>2 DEF Store!Fail
<1>5. CASE PutKeySpaceFull(k, v)
  BY <1>4, <1>5, RoomIsNotFull DEF PutKeySpaceFull
<1>6. CASE PutTooLarge(k, v) \/ PutOffsetTooShort(k, v)
  <2>1. PICK d \in SlotIds : FreeSlot(k, d)
    BY <1>6 DEF PutTooLarge, PutOffsetTooShort
  <2>2. Dict[k] = NoValue
    BY <2>1, FreeSlotIsNew, DictMapped DEF Mapped
  <2>3. \E outcome \in {"keySpaceFull", "keyTooLarge", "valueTooLarge",
                        "offsetTooShort"} : result' = PutResult(outcome, k, v)
    BY <1>6 DEF PutTooLarge, PutOffsetTooShort
  <2> QED
    BY <1>4, <2>2, <2>3
<1>7. CASE PutExisting(k, v)
  <2>1. PICK d \in SlotIds : Matches(k, ProbeSlot(k, d))
    BY <1>7 DEF PutExisting
  <2>2. ProbeSlot(k, d) \in Occupied /\ KeyAt(ProbeSlot(k, d)) = k
    BY <2>1, ProbeSlotIsSlot DEF Matches, Occupied, KeyAt
  <2>3. Dict[k] # NoValue
    BY <2>2, DictMapped DEF Mapped
  <2>4. "exists" \in Outcomes \ {"none"}
    BY DEF Outcomes
  <2>5. StoreAnswer' = Store!Answer("exists", k, v)
    BY <1>7, <2>4, AnswerOfResult DEF PutExisting, PutResult
  <2>6. ~Store!Full
    BY <1>7, RoomIsNotFull DEF PutExisting
  <2> QED
    BY <1>1, <1>3, <2>3, <2>5, <2>6 DEF Store!RefuseExisting
<1> QED
  BY <1>5, <1>6, <1>7

\* A read answers what the dictionary has, or that it has nothing.
LEMMA ReadMaps ==
  ASSUME IInv, IInv', NEW k \in Keys, NEW a \in Accessors, Read(a, k)
  PROVE  Store!Read(k) \/ Store!ReadNothing(k) \/ Store!ReadUnsuitable(k)
<1>1. /\ slot' = slot /\ records' = records /\ UNCHANGED loaded
  BY DEF Read
<1>2. Dict' = Dict
  BY <1>1, SameDict DEF KeyAt, ValueAt
<1>3. PICK d \in SlotIds :
        /\ ProbeEndsAt(k, d)
        /\ result' = IF Empty(ProbeSlot(k, d))
                     THEN ReadResult(a, "missing", k, NoValue)
                     ELSE FoundResult(a, k,
                            records[slot[ProbeSlot(k, d)].offset].value)
  BY DEF Read
<1>4. CASE Empty(ProbeSlot(k, d))
  <2>1. Dict[k] = NoValue
    BY <1>3, <1>4, ProbeMisses, DictMapped DEF Mapped
  <2>2. "missing" \in Outcomes \ {"none"}
    BY DEF Outcomes
  <2>3. StoreAnswer' = Store!Answer("nothing", k, NoValue)
    BY <1>3, <1>4, <2>2, AnswerOfResult DEF ReadResult
  <2> QED
    BY <1>1, <1>2, <2>1, <2>3 DEF Store!ReadNothing
<1>5. CASE ~Empty(ProbeSlot(k, d))
  <2> DEFINE i == ProbeSlot(k, d)
             v == ValueAt(i)
  <2>1. i \in Occupied /\ KeyAt(i) = k
    BY <1>3, <1>5, ProbeSlotIsSlot
       DEF ProbeEndsAt, Stops, Matches, Occupied, KeyAt
  <2>2. Dict[k] = v /\ Dict[k] # NoValue
    BY <2>1, DictMapped DEF Mapped
  <2>3. result' = FoundResult(a, k, v)
    BY <1>3, <1>5 DEF ValueAt
  <2> HIDE DEF v
  <2>4. \E outcome \in {"value", "sizeWrapped", "throws", "default"} :
          result' = ReadResult(a, outcome, k, v)
    BY <2>3 DEF FoundResult
  <2>5. PICK outcome \in {"value", "sizeWrapped", "throws", "default"} :
          result' = ReadResult(a, outcome, k, v)
    BY <2>4
  <2>6. outcome \in Outcomes \ {"none"}
    BY DEF Outcomes
  <2>7. CASE outcome = "value"
    <3>1. StoreAnswer' = Store!Answer("read", k, Dict[k])
      BY <2>2, <2>5, <2>6, <2>7, AnswerOfResult DEF ReadResult
    <3> QED
      BY <1>1, <1>2, <2>2, <3>1 DEF Store!Read
  <2>8. CASE outcome # "value"
    <3>1. StoreAnswer' = Store!Answer("unspecified", k, NoValue)
      BY <2>5, <2>6, <2>8, AnswerOfResult DEF ReadResult
    <3> QED
      BY <1>1, <1>2, <2>2, <3>1 DEF Store!ReadUnsuitable
  <2> QED
    BY <2>7, <2>8
<1> QED
  BY <1>4, <1>5

LEMMA NoResultMaps ==
  /\ result = NoResult => StoreAnswer = [verdict |-> "none"]
  /\ result' = NoResult => StoreAnswer' = [verdict |-> "none"]
BY DEF NoResult, StoreAnswer

\* The cache implements the bounded dictionary in which the first put wins:
\* every call, refused or not, answers what KVStore allows, and changes no
\* other value, before and after the cache is written and mapped again.
THEOREM StoreAlwaysImplemented == Spec => ImplementsStore
<1>1. Init => Store!Init
  <2> SUFFICES ASSUME Init PROVE Store!Init
    OBVIOUS
  <2>1. Occupied = {}
    BY DEF Init, Occupied, Empty
  <2>2. Dict = [k \in Keys |-> NoValue]
    BY <2>1 DEF Dict
  <2>3. StoreAnswer = [verdict |-> "none"] /\ loaded = FALSE
    BY NoResultMaps DEF Init
  <2> QED
    BY <2>2, <2>3 DEF Store!Init
<1>2. IInv /\ IInv' /\ [Next]_vars => [Store!Next]_(Store!vars)
  <2> SUFFICES ASSUME IInv, IInv', [Next]_vars
               PROVE  [Store!Next]_(Store!vars)
    OBVIOUS
  <2>1. ASSUME NEW k \in Keys, NEW v \in Values, Put(k, v)
        PROVE  Store!Next
    BY <2>1, InsertedMaps, RefusedMaps DEF Put, Store!Next
  <2>2. ASSUME NEW k \in Keys, NEW a \in Accessors, Read(a, k)
        PROVE  Store!Next
    BY <2>2, ReadMaps DEF Store!Next
  <2>3. CASE Reload
    <3>1. slot' = slot /\ records' = records /\ loaded' = TRUE
      BY <2>3 DEF Reload
    <3>2. Dict' = Dict
      BY <3>1, SameDict DEF KeyAt, ValueAt
    <3>3. StoreAnswer' = [verdict |-> "none"]
      BY <2>3, NoResultMaps DEF Reload
    <3> QED
      BY <3>1, <3>2, <3>3 DEF Store!Next, Store!Seal
  <2>4. CASE ProbeFreed \/ UNCHANGED vars
    <3>1. slot' = slot /\ records' = records /\ loaded' = loaded
          /\ result' = result
      BY <2>4 DEF ProbeFreed, vars
    <3>2. Dict' = Dict
      BY <3>1, SameDict DEF KeyAt, ValueAt
    <3>3. StoreAnswer' = StoreAnswer
      BY <3>1 DEF StoreAnswer
    <3> QED
      BY <3>1, <3>2, <3>3 DEF Store!vars
  <2> QED
    BY <2>1, <2>2, <2>3, <2>4 DEF Next
<1> QED
  BY <1>1, <1>2, InitIInv, NextIInv, PTL DEF Spec, ImplementsStore, Store!Spec

=============================================================================
