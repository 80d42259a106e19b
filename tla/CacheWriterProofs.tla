-------------------------- MODULE CacheWriterProofs -------------------------
(***************************************************************************)
(* Proofs about the writers of cache files, for any keys, values, numbers  *)
(* of writers and spans of the indexes.                                    *)
(***************************************************************************)
EXTENDS CacheWriter, TLAPS, WellFoundedInduction

Finishing == {"truncateLatest", "writeLatest", "rename", "return"}

Writers ==
  [handle : BOOLEAN, isInitialized : BOOLEAN,
   cacheType : CacheTypes \cup {"NONE"}, generateTimestampFile : BOOLEAN,
   renameCacheFile : BOOLEAN]

Typed ==
  /\ writer \in Writers
  /\ builder \in BOOLEAN
  /\ duplicateValues \in Seq(Bytes)
  /\ pc \in {"none", "idle", "write", "segv", "undefined"} \cup Finishing
  /\ cacheFile.state \in {"none", "partial", "whole"}
  /\ clock \in Nat
  /\ latest \in 0 .. clock
  /\ accepted \in [DOMAIN accepted -> Values]
  /\ DOMAIN accepted \subseteq Keys
  /\ DOMAIN records \subseteq Keys
  /\ values \in Seq(Bytes)
  /\ DOMAIN valuesToIndex \subseteq Bytes
  /\ valuesSet \in BOOLEAN
  /\ keySpacePtr \in {"current", "freed"}

\* The life of a writer: it has its builder until its file is written, which
\* happens once, and every file with a timestamp was written before.
InOrder ==
  /\ \A t \in DOMAIN promised : t \in 0 .. clock
  /\ DOMAIN named \subseteq DOMAIN promised
  /\ builder => clock \notin DOMAIN promised
  /\ pc = "write" => builder
  /\ pc \in Finishing => clock \in DOMAIN promised
  /\ pc = "none" => ~builder
  /\ pc # "none" /\ writer.isInitialized /\ writer.handle /\ ~builder =>
       clock \in DOMAIN promised
  /\ pc = "segv" => clock \in DOMAIN promised \/ ~writer.handle

\* What each step of FinishCacheCreation has behind it.
Steps ==
  /\ pc \in {"rename", "return"} /\ writer.generateTimestampFile =>
       latest = clock
  /\ pc = "return" /\ writer.renameCacheFile => clock \in DOMAIN named

OrderInv == Typed /\ InOrder /\ Steps

\* The stored form of the bytes b, with the table as it is.
Stands(value, b) ==
  \/ /\ value.flag = "none"
     /\ value.data = b
  \/ /\ value.flag \in {"short", "extended"}
     /\ valuesSet
     /\ value.index \in 0 .. Len(values) - 1
     /\ values[value.index + 1] = b

\* The records are the inserts that were accepted, and an index that one
\* holds goes on meaning the value it was stored for.
RecordsStand ==
  /\ DOMAIN records = DOMAIN accepted
  /\ \A k \in DOMAIN accepted :
       /\ records[k].type = accepted[k].type
       /\ Stands(records[k].value, accepted[k].bytes)

\* The table is as long as the list it was set from, and is set once.
TableSet ==
  /\ valuesSet => valuesToIndex = IndexOf(values)
  /\ ~valuesSet => values = <<>> /\ DOMAIN valuesToIndex = {}
  /\ Len(values) <= MaxDuplicates
  /\ Len(duplicateValues) <= MaxDuplicates

Holds(file, t) ==
  /\ file.state = "whole"
  /\ Contents(file.content) = promised[t].entries

\* The files in the folder hold what they were promised to.
FilesHold ==
  /\ \A t \in DOMAIN named : Holds(named[t], t)
  /\ pc \in {"truncateLatest", "writeLatest", "rename"} =>
       Holds(cacheFile, clock)

ContentInv == RecordsStand /\ TableSet /\ FilesHold

-----------------------------------------------------------------------------
(* The table of frequent values *)

\* A list has a first position of each of its members.
LEMMA FirstPosition ==
  ASSUME NEW list \in Seq(Bytes), NEW b \in {list[i] : i \in DOMAIN list}
  PROVE  \E i \in DOMAIN list :
           list[i] = b /\ \A j \in DOMAIN list : list[j] = b => i <= j
<1> DEFINE T == {i \in DOMAIN list : list[i] = b}
<1>1. T \subseteq Nat /\ T # {}
  OBVIOUS
<1>2. IsWellFoundedOn(OpToRel(<, Nat), Nat)
  BY NatLessThanWellFounded, Zenon
<1>3. PICK d \in T : \A e \in T : ~(<<e, d>> \in OpToRel(<, Nat))
  BY <1>1, <1>2, WFMin, Zenon
<1>4. \A e \in T : ~(e < d)
  BY <1>1, <1>3, Zenon DEF OpToRel
<1>5. \A e \in T : d <= e
  BY <1>1, <1>4
<1> QED
  BY <1>5

\* mValuesToIndex leads from a listed value back to it.
LEMMA IndexLeadsBack ==
  ASSUME NEW list \in Seq(Bytes), NEW b \in DOMAIN IndexOf(list)
  PROVE  /\ IndexOf(list)[b] \in 0 .. Len(list) - 1
         /\ list[IndexOf(list)[b] + 1] = b
<1>1. b \in {list[i] : i \in DOMAIN list}
  BY DEF IndexOf
<1> DEFINE first == CHOOSE i \in DOMAIN list :
             list[i] = b /\ \A j \in DOMAIN list : list[j] = b => i <= j
<1>2. first \in DOMAIN list /\ list[first] = b
  BY <1>1, FirstPosition
<1>3. IndexOf(list)[b] = first - 1
  BY <1>1 DEF IndexOf
<1>4. DOMAIN list = 1 .. Len(list) /\ Len(list) \in Nat
  OBVIOUS
<1> HIDE DEF first
<1> QED
  BY <1>2, <1>3, <1>4

LEMMA IndexOfDomain ==
  ASSUME NEW list \in Seq(Bytes)
  PROVE  DOMAIN IndexOf(list) \subseteq Bytes
BY DEF IndexOf

\* An index within the span is stored without loss, in one byte or in two.
LEMMA EncodeKeepsIndex ==
  ASSUME NEW i \in Nat, i < IndexSpan
  PROVE  /\ EncodeIndex(i).flag \in {"short", "extended"}
         /\ EncodeIndex(i).index = i
<1>1. i < ShortSpan => i % ShortSpan = i
  BY DedupAssumption
<1>2. i % IndexSpan = i
  BY DedupAssumption
<1> QED
  BY <1>1, <1>2 DEF EncodeIndex

\* With room for its length, the whole table is written.
LEMMA WholeTable ==
  ASSUME Typed, TableSet, MaxDuplicates < IndexSpan
  PROVE  OutputTable = values
<1>1. Len(values) \in Nat /\ Len(values) < IndexSpan
  BY DedupAssumption, WriterAssumption DEF Typed, TableSet
<1>2. Len(values) % IndexSpan = Len(values)
  BY <1>1, DedupAssumption
<1>3. SubSeq(values, 1, Len(values)) = values
  BY DEF Typed
<1> QED
  BY <1>2, <1>3 DEF OutputTable, TableSet

-----------------------------------------------------------------------------
(* The life of a writer *)

LEMMA InitOrderInv == Init => OrderInv
<1> SUFFICES ASSUME Init PROVE OrderInv
  OBVIOUS
<1> USE DEF Init, DedupInit, NoWriter, NoFile, NoRecords
<1>1. writer \in Writers
  BY DEF Writers
<1>2. Typed
  <2>1. builder \in BOOLEAN /\ valuesSet \in BOOLEAN
    BY Zenon
  <2>2. /\ accepted \in [DOMAIN accepted -> Values]
        /\ DOMAIN accepted \subseteq Keys
        /\ DOMAIN records \subseteq Keys
        /\ DOMAIN valuesToIndex \subseteq Bytes
    OBVIOUS
  <2>3. /\ duplicateValues \in Seq(Bytes)
        /\ values \in Seq(Bytes)
        /\ cacheFile.state = "none"
        /\ pc = "none"
        /\ clock \in Nat
        /\ latest \in 0 .. clock
        /\ keySpacePtr = "current"
    OBVIOUS
  <2> QED
    BY <1>1, <2>1, <2>2, <2>3 DEF Typed
<1>3. InOrder /\ Steps
  BY DEF InOrder, Steps, Finishing
<1> QED
  BY <1>2, <1>3 DEF OrderInv

LEMMA NextTyped == Typed /\ [Next]_vars => Typed'
<1> SUFFICES ASSUME Typed, [Next]_vars PROVE Typed'
  OBVIOUS
<1> USE DEF Typed, cacheVars, writerVars, folderVars, historyVars, DedupReset
<1>0. /\ NoRecords \in [DOMAIN NoRecords -> Values]
      /\ DOMAIN NoRecords = {}
      /\ <<>> \in Seq(Bytes)
  BY DEF NoRecords
<1>1. CASE NewCacheWriter
  <2>1. PICK type \in CacheTypes, generate \in BOOLEAN, rename \in BOOLEAN,
             ret \in {0, 1, 3} :
          /\ writer' = NewWriter(type, generate, rename, ret)
          /\ builder' = (ret = 0)
    BY <1>1, Zenon DEF NewCacheWriter
  <2>2. (ret = 0) \in BOOLEAN
    BY Zenon
  <2>3. writer' \in Writers
    BY <2>1, <2>2, Zenon DEF NewWriter, Writers
  <2>4. builder' \in BOOLEAN
    BY <2>1, <2>2, Zenon
  <2>5. /\ clock' = clock + 1
        /\ pc' = "idle"
        /\ duplicateValues' = <<>>
        /\ accepted' = NoRecords
        /\ records' = NoRecords
        /\ values' = <<>>
        /\ valuesToIndex' = [b \in {} |-> 0]
        /\ valuesSet' \in BOOLEAN
        /\ keySpacePtr' = "current"
        /\ UNCHANGED <<cacheFile, latest>>
    BY <1>1, Zenon DEF NewCacheWriter
  <2> QED
    BY <1>0, <2>3, <2>4, <2>5
<1>2. CASE NullCall \/ InsertKeyProbesFreed \/ Delete \/ Exit
  <2>1. CASE NullCall \/ InsertKeyProbesFreed
    BY <1>0, <2>1 DEF NullCall, InsertKeyProbesFreed
  <2>2. CASE Delete
    <3>1. writer' \in Writers
      BY <2>2 DEF Delete, Writers
    <3> QED
      BY <1>0, <2>2, <3>1 DEF Delete
  <2>3. CASE Exit
    <3>1. writer' \in Writers
      BY <2>3 DEF Exit, NoWriter, Writers
    <3> QED
      BY <1>0, <2>3, <3>1 DEF Exit
  <2> QED
    BY <1>2, <2>1, <2>2, <2>3
<1>3. ASSUME NEW k \in Keys, NEW v \in Values, InsertKey(k, v)
      PROVE  Typed'
  <2>1. /\ accepted' \in [DOMAIN accepted' -> Values]
        /\ DOMAIN accepted' \subseteq Keys
    BY <1>3 DEF InsertKey, Extend
  <2>2. DOMAIN records' \subseteq Keys
    BY <1>3 DEF InsertKey, PutInternal
  <2> QED
    BY <1>3, <2>1, <2>2 DEF InsertKey, PutInternal
<1>4. ASSUME NEW b \in Bytes, AddDuplicateValue(b)
      PROVE  Typed'
  BY <1>4 DEF AddDuplicateValue
<1>5. CASE FinishAddDuplicateValues
  BY <1>5, IndexOfDomain DEF FinishAddDuplicateValues, SetDuplicatedValues
<1>6. CASE OpenCacheFile
  BY <1>6 DEF OpenCacheFile
<1>7. CASE WriteCacheFile
  <2>1. cacheFile'.state \in {"none", "partial", "whole"}
    BY <1>7 DEF WriteCacheFile
  <2> QED
    BY <1>0, <1>7, <2>1 DEF WriteCacheFile, Finishing
<1>8. CASE TruncateLatest \/ WriteLatest
  BY <1>8 DEF TruncateLatest, WriteLatest, Finishing
<1>9. CASE RenameCacheFile
  BY <1>9 DEF RenameCacheFile, NoFile, Finishing
<1>10. CASE Return \/ FinishFails
  BY <1>10 DEF Return, FinishFails
<1>11. CASE Uninitialized \/ FinishAddDuplicateValuesFails
              \/ UNCHANGED vars
  BY <1>11 DEF Uninitialized, FinishAddDuplicateValuesFails, vars
<1>12. ASSUME NEW k \in Keys, InsertKeyFails(k)
       PROVE  Typed'
  BY <1>12 DEF InsertKeyFails, PutTooLarge, PutOffsetTooShort
<1> QED
  BY <1>1, <1>2, <1>3, <1>4, <1>5, <1>6, <1>7, <1>8, <1>9, <1>10, <1>11, <1>12
     DEF Next, Call, FinishCacheCreation

LEMMA NextOrder == OrderInv /\ [Next]_vars => InOrder' /\ Steps'
<1> SUFFICES ASSUME OrderInv, [Next]_vars PROVE InOrder' /\ Steps'
  OBVIOUS
<1> USE DEF OrderInv, writerVars, folderVars, historyVars
<1>1. CASE NewCacheWriter
  <2>1. /\ clock \in Nat /\ clock' = clock + 1
        /\ UNCHANGED <<named, promised>>
        /\ pc' = "idle"
        /\ writer'.isInitialized => builder'
    BY <1>1 DEF NewCacheWriter, NewWriter, Typed
  <2>2. clock' \notin DOMAIN promised
    BY <2>1 DEF InOrder
  <2> QED
    BY <2>1, <2>2 DEF InOrder, Steps, Finishing
<1>2. CASE NullCall \/ InsertKeyProbesFreed
  BY <1>2 DEF NullCall, InsertKeyProbesFreed, MayCall, Idle, InOrder, Steps,
       Finishing
<1>3. CASE Delete
  BY <1>3 DEF Delete, Idle, InOrder, Steps, Finishing, Typed, Writers
<1>4. CASE Exit
  BY <1>4 DEF Exit, InOrder, Steps, Finishing
<1>5. CASE \/ Uninitialized \/ FinishAddDuplicateValues
           \/ FinishAddDuplicateValuesFails
           \/ \E k \in Keys, v \in Values : InsertKey(k, v)
           \/ \E k \in Keys : InsertKeyFails(k)
           \/ \E b \in Bytes : AddDuplicateValue(b)
           \/ UNCHANGED vars
  <2>1. UNCHANGED <<writer, builder, pc, named, latest, clock, promised>>
    BY <1>5 DEF Uninitialized, FinishAddDuplicateValues,
         FinishAddDuplicateValuesFails, InsertKey, InsertKeyFails,
         AddDuplicateValue, vars
  <2> QED
    BY <2>1 DEF InOrder, Steps
<1>6. CASE OpenCacheFile
  BY <1>6 DEF OpenCacheFile, MayCall, Idle, InOrder, Steps, Finishing
<1>7. CASE WriteCacheFile
  <2>1. /\ pc = "write"
        /\ UNCHANGED <<writer, named, latest, clock>>
        /\ ~builder'
        /\ DOMAIN promised' = DOMAIN promised \cup {clock}
        /\ pc' = IF writer.generateTimestampFile THEN "truncateLatest"
                 ELSE IF writer.renameCacheFile THEN "rename" ELSE "return"
    BY <1>7 DEF WriteCacheFile, Extend
  <2> QED
    BY <2>1 DEF InOrder, Steps, Finishing, Typed
<1>8. CASE TruncateLatest
  BY <1>8 DEF TruncateLatest, InOrder, Steps, Finishing
<1>9. CASE WriteLatest
  BY <1>9 DEF WriteLatest, InOrder, Steps, Finishing
<1>10. CASE RenameCacheFile
  <2>1. /\ pc = "rename"
        /\ pc' = "return"
        /\ UNCHANGED <<writer, builder, latest, clock, promised>>
        /\ DOMAIN named' = DOMAIN named \cup {clock}
    BY <1>10 DEF RenameCacheFile, Extend
  <2> QED
    BY <2>1 DEF InOrder, Steps, Finishing
<1>11. CASE Return \/ FinishFails
  BY <1>11 DEF Return, FinishFails, InOrder, Steps, Finishing
<1> QED
  BY <1>1, <1>2, <1>3, <1>4, <1>5, <1>6, <1>7, <1>8, <1>9, <1>10, <1>11
     DEF Next, Call, FinishCacheCreation

LEMMA OrderInvariance == Spec => []OrderInv
<1>1. OrderInv /\ [Next]_vars => OrderInv'
  BY NextTyped, NextOrder DEF OrderInv
<1> QED
  BY InitOrderInv, <1>1, PTL DEF Spec

-----------------------------------------------------------------------------
(* The contents of the files *)

\* The disk takes what is written, and the lists of frequent values are
\* shorter than the count of the table can say.  (Of a list as long as
\* IndexSpan, which setDuplicatedValues accepts, no table is written.)
Dependable == ~WriteMayFail /\ MaxDuplicates < IndexSpan

\* What a put stores for the bytes stands for them.
LEMMA EncodedStands ==
  ASSUME Typed, TableSet, Dependable, NEW b \in Bytes
  PROVE  Stands(EncodeValue(b), b)
<1>1. CASE b \in DOMAIN valuesToIndex
  <2> DEFINE i == valuesToIndex[b]
  <2>1. valuesSet /\ valuesToIndex = IndexOf(values)
    BY <1>1 DEF TableSet, Typed
  <2>2. i \in 0 .. Len(values) - 1 /\ values[i + 1] = b
    BY <1>1, <2>1, IndexLeadsBack DEF Typed
  <2>3. i \in Nat /\ i < IndexSpan
    BY <2>2, DedupAssumption, WriterAssumption DEF TableSet, Typed, Dependable
  <2>4. EncodeIndex(i).flag \in {"short", "extended"} /\ EncodeIndex(i).index = i
    BY <2>3, EncodeKeepsIndex
  <2>5. EncodeValue(b) = EncodeIndex(i)
    BY <1>1 DEF EncodeValue
  <2> QED
    BY <2>1, <2>2, <2>4, <2>5 DEF Stands
<1>2. CASE b \notin DOMAIN valuesToIndex
  BY <1>2 DEF EncodeValue, Stands
<1> QED
  BY <1>1, <1>2

\* What stands for the bytes is read back as them.
LEMMA StandingDecodes ==
  ASSUME Typed, NEW value, NEW b \in Bytes, Stands(value, b)
  PROVE  Decode(value, values) = b
BY DEF Typed, Stands, Decode

\* The lookups of the file that is written answer what was accepted.
LEMMA OutputIsAccepted ==
  ASSUME Typed, RecordsStand, TableSet, Dependable
  PROVE  Contents(Output) = accepted
<1>1. OutputTable = values
  BY WholeTable DEF Dependable
<1>2. ASSUME NEW k \in DOMAIN accepted
      PROVE  [type  |-> records[k].type,
              bytes |-> Decode(records[k].value, values)] = accepted[k]
  <2>1. accepted[k] \in Values
    BY DEF Typed
  <2>2. /\ accepted[k].bytes \in Bytes
        /\ accepted[k] = [type  |-> accepted[k].type,
                          bytes |-> accepted[k].bytes]
    BY <2>1, DedupAssumption
  <2>3. Decode(records[k].value, values) = accepted[k].bytes
    BY <2>2, StandingDecodes DEF RecordsStand
  <2> QED
    BY <2>2, <2>3 DEF RecordsStand
<1>3. accepted = [k \in DOMAIN accepted |-> accepted[k]]
  BY DEF Typed
<1> QED
  BY <1>1, <1>2, <1>3 DEF Contents, Output, RecordsStand

LEMMA InitContentInv == Init => ContentInv
<1> SUFFICES ASSUME Init PROVE ContentInv
  OBVIOUS
<1> USE DEF Init, DedupInit, NoRecords
<1>1. RecordsStand
  BY DEF RecordsStand
<1>2. TableSet
  BY WriterAssumption DEF TableSet
<1>3. FilesHold
  BY DEF FilesHold
<1> QED
  BY <1>1, <1>2, <1>3 DEF ContentInv

LEMMA NextContentInv ==
  ASSUME OrderInv, ContentInv, [Next]_vars, Dependable
  PROVE  ContentInv'
<1> USE DEF cacheVars, writerVars, folderVars, historyVars
<1>1. ASSUME DedupReset, accepted' = NoRecords,
             UNCHANGED duplicateValues \/ duplicateValues' = <<>>
      PROVE  RecordsStand' /\ TableSet'
  <2>1. RecordsStand'
    BY <1>1 DEF DedupReset, NoRecords, RecordsStand
  <2>2. /\ values' = <<>>
        /\ DOMAIN valuesToIndex' = {}
        /\ valuesSet' = FALSE
    BY <1>1 DEF DedupReset
  <2> QED
    BY <1>1, <2>1, <2>2, WriterAssumption DEF TableSet, ContentInv
<1>2. ASSUME UNCHANGED <<cacheFile, named, promised, clock>>,
             pc' \notin {"truncateLatest", "writeLatest", "rename"}
      PROVE  FilesHold'
  BY <1>2 DEF ContentInv, FilesHold, Holds
<1>3. CASE NewCacheWriter
  <2>1. /\ DedupReset /\ accepted' = NoRecords /\ duplicateValues' = <<>>
        /\ UNCHANGED <<cacheFile, named, promised>>
        /\ pc' = "idle"
    BY <1>3, Zenon DEF NewCacheWriter
  <2>2. FilesHold'
    BY <2>1 DEF ContentInv, FilesHold, Holds
  <2> QED
    BY <1>1, <2>1, <2>2 DEF ContentInv
<1>4. CASE NullCall \/ InsertKeyProbesFreed \/ Delete \/ Exit
  <2>1. /\ DedupReset /\ accepted' = NoRecords
        /\ UNCHANGED duplicateValues \/ duplicateValues' = <<>>
        /\ UNCHANGED <<cacheFile, named, promised, clock>>
        /\ pc' \in {"idle", "none", "segv", "undefined"}
    BY <1>4 DEF NullCall, InsertKeyProbesFreed, Delete, Exit, Idle
  <2> QED
    BY <1>1, <1>2, <2>1 DEF ContentInv
<1>5. ASSUME NEW k \in Keys, NEW v \in Values, InsertKey(k, v)
      PROVE  ContentInv'
  <2>1. /\ UNCHANGED <<values, valuesToIndex, valuesSet, duplicateValues,
                       pc, cacheFile, named, promised, clock>>
        /\ pc = "idle"
    BY <1>5 DEF InsertKey, PutInternal, MayCall, Idle
  <2>2. TableSet' /\ FilesHold'
    BY <1>2, <2>1 DEF ContentInv, TableSet
  <2>3. Stands(EncodeValue(v.bytes), v.bytes)
    BY EncodedStands, DedupAssumption DEF OrderInv, ContentInv
  <2>4. CASE k \in DOMAIN accepted
    <3>1. UNCHANGED <<records, accepted>>
      BY <1>5, <2>4 DEF InsertKey, PutInternal, ContentInv, RecordsStand
    <3> QED
      BY <2>1, <2>2, <3>1 DEF ContentInv, RecordsStand, Stands
  <2>5. CASE k \notin DOMAIN accepted
    <3> DEFINE r == [type |-> v.type, value |-> EncodeValue(v.bytes)]
    <3>1. /\ accepted' = Extend(accepted, k, v)
          /\ records' = Extend(records, k, r)
      BY <1>5, <2>5
         DEF InsertKey, PutInternal, ContentInv, RecordsStand, Extend
    <3>2. /\ DOMAIN records' = DOMAIN records \cup {k}
          /\ records'[k] = r
          /\ \A x \in DOMAIN records \ {k} : records'[x] = records[x]
      BY <3>1 DEF Extend
    <3>3. /\ DOMAIN accepted' = DOMAIN accepted \cup {k}
          /\ accepted'[k] = v
          /\ \A x \in DOMAIN accepted \ {k} : accepted'[x] = accepted[x]
      BY <3>1 DEF Extend
    <3>4. RecordsStand'
      BY <2>1, <2>3, <3>2, <3>3 DEF ContentInv, RecordsStand, Stands
    <3> QED
      BY <2>2, <3>4 DEF ContentInv
  <2> QED
    BY <2>4, <2>5
<1>6. CASE FinishAddDuplicateValues
  <2>1. /\ UNCHANGED <<records, accepted, duplicateValues, pc, cacheFile,
                       named, promised, clock>>
        /\ pc = "idle"
        /\ ~valuesSet
        /\ values' = duplicateValues
        /\ valuesToIndex' = IndexOf(duplicateValues)
        /\ valuesSet' = TRUE
    BY <1>6 DEF FinishAddDuplicateValues, SetDuplicatedValues,
         MaySetDuplicatedValues, MayCall, Idle
  <2>2. RecordsStand'
    BY <2>1 DEF ContentInv, RecordsStand, Stands
  <2>3. TableSet'
    BY <2>1 DEF ContentInv, TableSet
  <2> QED
    BY <1>2, <2>1, <2>2, <2>3 DEF ContentInv
<1>7. ASSUME NEW b \in Bytes, AddDuplicateValue(b)
      PROVE  ContentInv'
  <2>1. /\ UNCHANGED <<records, accepted, values, valuesToIndex, valuesSet,
                       pc, cacheFile, named, promised, clock>>
        /\ pc = "idle"
        /\ Len(duplicateValues) < MaxDuplicates
        /\ duplicateValues' = Append(duplicateValues, b)
    BY <1>7 DEF AddDuplicateValue, Idle
  <2>2. Len(duplicateValues') <= MaxDuplicates
    BY <2>1, WriterAssumption DEF OrderInv, Typed
  <2> QED
    BY <1>2, <2>1, <2>2 DEF ContentInv, RecordsStand, Stands, TableSet
<1>8. CASE \/ Uninitialized \/ FinishAddDuplicateValuesFails
           \/ \E k \in Keys : InsertKeyFails(k)
           \/ UNCHANGED vars
  <2>1. UNCHANGED <<records, values, valuesToIndex, valuesSet, accepted,
                    duplicateValues, pc, cacheFile, named, promised, clock>>
    BY <1>8 DEF Uninitialized, FinishAddDuplicateValuesFails, InsertKeyFails,
         PutTooLarge, PutOffsetTooShort, vars
  <2> QED
    BY <2>1 DEF ContentInv, RecordsStand, Stands, TableSet, FilesHold, Holds
<1>9. ASSUME UNCHANGED <<cacheVars, accepted, duplicateValues>>
      PROVE  RecordsStand' /\ TableSet'
  BY <1>9 DEF ContentInv, RecordsStand, Stands, TableSet
<1>10. CASE OpenCacheFile
  <2>1. /\ UNCHANGED <<cacheVars, accepted, duplicateValues, named, promised>>
        /\ pc' = "write"
    BY <1>10 DEF OpenCacheFile
  <2>2. FilesHold'
    BY <2>1 DEF ContentInv, FilesHold, Holds
  <2> QED
    BY <1>9, <2>1, <2>2 DEF ContentInv
<1>11. CASE WriteCacheFile
  <2> DEFINE kept == [entries |-> accepted, duplicates |-> values]
  <2>1. /\ pc = "write"
        /\ cacheFile' = [state |-> "whole", content |-> Output]
        /\ promised' = Extend(promised, clock, kept)
        /\ DedupReset /\ accepted' = NoRecords
        /\ UNCHANGED <<duplicateValues, named, clock>>
    BY <1>11 DEF WriteCacheFile, Dependable
  <2>2. clock \notin DOMAIN named /\ DOMAIN named \subseteq DOMAIN promised
    BY <2>1 DEF OrderInv, InOrder
  <2>3. promised'[clock].entries = accepted
    BY <2>1 DEF Extend
  <2>4. \A t \in DOMAIN named : promised'[t] = promised[t]
    BY <2>1, <2>2 DEF Extend
  <2>5. Contents(Output) = accepted
    BY OutputIsAccepted DEF OrderInv, ContentInv
  <2>6. Contents(cacheFile'.content) = promised'[clock].entries
    BY <2>1, <2>3, <2>5
  <2>7. FilesHold'
    BY <2>1, <2>4, <2>6 DEF ContentInv, FilesHold, Holds
  <2> QED
    BY <1>1, <2>1, <2>7 DEF ContentInv
<1>12. CASE TruncateLatest \/ WriteLatest
  <2>1. /\ UNCHANGED <<cacheVars, accepted, duplicateValues, cacheFile, named,
                       promised, clock>>
        /\ pc \in {"truncateLatest", "writeLatest", "rename"}
    BY <1>12 DEF TruncateLatest, WriteLatest
  <2>2. FilesHold'
    BY <2>1 DEF ContentInv, FilesHold, Holds
  <2> QED
    BY <1>9, <2>1, <2>2 DEF ContentInv
<1>13. CASE RenameCacheFile
  <2>1. /\ UNCHANGED <<cacheVars, accepted, duplicateValues, promised, clock>>
        /\ pc = "rename"
        /\ pc' = "return"
        /\ named' = Extend(named, clock, cacheFile)
    BY <1>13 DEF RenameCacheFile
  <2>2. /\ DOMAIN named' = DOMAIN named \cup {clock}
        /\ named'[clock] = cacheFile
        /\ \A t \in DOMAIN named \ {clock} : named'[t] = named[t]
    BY <2>1 DEF Extend
  <2>3. FilesHold'
    BY <2>1, <2>2 DEF ContentInv, FilesHold, Holds
  <2> QED
    BY <1>9, <2>1, <2>3 DEF ContentInv
<1>14. CASE Return \/ FinishFails
  <2>1. /\ UNCHANGED <<cacheVars, accepted, duplicateValues, cacheFile, named,
                       promised, clock>>
        /\ pc' = "idle"
    BY <1>14 DEF Return, FinishFails
  <2> QED
    BY <1>2, <1>9, <2>1 DEF ContentInv
<1> QED
  BY <1>3, <1>4, <1>5, <1>6, <1>7, <1>8, <1>10, <1>11, <1>12, <1>13, <1>14
     DEF Next, Call, FinishCacheCreation

-----------------------------------------------------------------------------
(* The theorems *)

\* Every variable has its type, and a file has a timestamp only after it was
\* written.
THEOREM TypeCorrect == Spec => []TypeOK
<1>1. OrderInv => TypeOK
  BY DEF OrderInv, Typed, InOrder, Finishing, TypeOK
<1> QED
  BY OrderInvariance, <1>1, PTL

\* FinishCacheCreation returns nil only after what was asked for is done: the
\* timestamp is this writer's, the file has its name.
THEOREM FinishedAlwaysPublished == Spec => []FinishedIsPublished
<1>1. OrderInv => FinishedIsPublished
  BY DEF OrderInv, Steps, FinishedIsPublished
<1> QED
  BY OrderInvariance, <1>1, PTL

\* A writer whose initialization failed never gets a null pointer
\* dereferenced, whatever methods its client calls in whatever order.
THEOREM FailedWriterAlwaysHarmless == Spec => []FailedWriterIsHarmless
<1>1. OrderInv => FailedWriterIsHarmless
  BY DEF OrderInv, InOrder, FailedWriterIsHarmless
<1> QED
  BY OrderInvariance, <1>1, PTL

\* Every file with a timestamp answers, for every key, the first value whose
\* insert was answered nil, whenever the frequent values were set and
\* wherever a process died.
THEOREM PublishedAlwaysComplete ==
  ASSUME Dependable
  PROVE  Spec => []PublishedComplete
<1>1. OrderInv /\ ContentInv /\ [Next]_vars => ContentInv'
  BY NextContentInv
<1>2. ContentInv => PublishedComplete
  BY DEF ContentInv, FilesHold, Holds, PublishedComplete
<1> QED
  BY OrderInvariance, InitContentInv, <1>1, <1>2, PTL DEF Spec

=============================================================================
