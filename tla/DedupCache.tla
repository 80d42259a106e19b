----------------------------- MODULE DedupCache -----------------------------
(***************************************************************************)
(* LinearProbeDedupCache: a linear probe cache that stores a value of its  *)
(* table of frequent values as an index, of one byte for the first         *)
(* ShortSpan indexes and of two bytes for the others.  The table is set    *)
(* once and written behind the data; a reader gets it from there.          *)
(*                                                                         *)
(* The probe is the subject of LinearProbeCache: here a key has a record   *)
(* or has none.  A value is the bytes that are stored, with their type; the*)
(* table is searched by the bytes alone, so that values of different types *)
(* may share an entry.                                                     *)
(***************************************************************************)
EXTENDS Naturals, Sequences, FiniteSets

CONSTANTS
  Keys,
  Bytes,               \* the byte strings values are stored as
  Values,              \* records of a type and the bytes stored for it
  Garbage,             \* what an index reads as without its table
  MaxNumberOfEntries,
  ShortSpan,           \* 256 in the code
  IndexSpan            \* 65536 in the code

ASSUME DedupAssumption ==
  /\ Garbage \notin Bytes
  /\ \A v \in Values : v.bytes \in Bytes
  /\ \A v \in Values : v = [type |-> v.type, bytes |-> v.bytes]
  /\ MaxNumberOfEntries \in Nat
  /\ ShortSpan \in Nat \ {0}
  /\ IndexSpan \in Nat \ {0}
  /\ ShortSpan <= IndexSpan

VARIABLES
  records,         \* the stored records, by key
  values,          \* mValues
  valuesToIndex,   \* mValuesToIndex, from bytes to index
  valuesSet,       \* mValuesMemoryHandler != nullptr
  keySpacePtr      \* whether mKeySpacePtr points at the buffer in use

cacheVars == <<records, values, valuesToIndex, valuesSet, keySpacePtr>>

NoRecords == [k \in {} |-> 0]

DedupInit ==
  /\ records = NoRecords
  /\ values = <<>>
  /\ valuesToIndex = [b \in {} |-> 0]
  /\ valuesSet = FALSE
  /\ keySpacePtr = "current"

\* A new cache takes the place of the old one, or none does.
DedupReset ==
  /\ records' = NoRecords
  /\ values' = <<>>
  /\ valuesToIndex' = [b \in {} |-> 0]
  /\ valuesSet' = FALSE
  /\ keySpacePtr' = "current"

-----------------------------------------------------------------------------
(* The table of frequent values *)

\* emplace keeps the first index of a value that is listed twice; the
\* counter is advanced nevertheless.  Indexes start at zero.
IndexOf(list) ==
  [b \in {list[i] : i \in DOMAIN list} |->
     (CHOOSE i \in DOMAIN list :
        list[i] = b /\ \A j \in DOMAIN list : list[j] = b => i <= j) - 1]

\* setDuplicatedValues throws for a list that is too long, and when called
\* again.
MaySetDuplicatedValues(list) == Len(list) <= IndexSpan /\ ~valuesSet

SetDuplicatedValues(list) ==
  /\ MaySetDuplicatedValues(list)
  /\ values' = list
  /\ valuesToIndex' = IndexOf(list)
  /\ valuesSet' = TRUE
  /\ UNCHANGED <<records, keySpacePtr>>

-----------------------------------------------------------------------------
(* Put *)

\* Mutant: an index equal to ShortSpan goes into one byte too.
EncodeIndexClosed(i) ==
  IF i <= ShortSpan THEN [flag |-> "short", index |-> i % ShortSpan]
                    ELSE [flag |-> "extended", index |-> i % IndexSpan]

EncodeIndex(i) ==
  IF i < ShortSpan THEN [flag |-> "short", index |-> i % ShortSpan]
                   ELSE [flag |-> "extended", index |-> i % IndexSpan]

EncodeValue(b) ==
  IF b \in DOMAIN valuesToIndex
  THEN EncodeIndex(valuesToIndex[b])
  ELSE [flag |-> "none", data |-> b]

Full == Cardinality(DOMAIN records) >= MaxNumberOfEntries

\* The limit is looked at first; what passes it probes through mKeySpacePtr.
Probes == ~Full /\ keySpacePtr = "current"

\* putInternal: the first put of a key wins, and a put that stores a record
\* ends with updateKeySpacePtr.
PutInternal(k, v) ==
  /\ Probes
  /\ records' =
       IF k \in DOMAIN records THEN records
       ELSE [x \in DOMAIN records \cup {k} |->
               IF x = k THEN [type |-> v.type, value |-> EncodeValue(v.bytes)]
                        ELSE records[x]]
  /\ UNCHANGED <<values, valuesToIndex, valuesSet, keySpacePtr>>

\* addToEnd throws for a key or a value that is too long before it grows the
\* buffer.
PutTooLarge(k) ==
  /\ Probes
  /\ k \notin DOMAIN records
  /\ UNCHANGED cacheVars

\* add throws after addToEnd has grown the buffer: the record stays behind
\* without a slot, where no lookup finds it, and updateKeySpacePtr is not
\* called.  realloc may have moved the buffer.
PutOffsetTooShort(k) ==
  /\ Probes
  /\ k \notin DOMAIN records
  /\ keySpacePtr' \in {"current", "freed"}
  /\ UNCHANGED <<records, values, valuesToIndex, valuesSet>>

-----------------------------------------------------------------------------
(* Output and reading back *)

\* frequentValuesOutput counts the values in sixteen bits and writes no table
\* when the count is zero.
OutputTable ==
  IF valuesSet THEN SubSeq(values, 1, Len(values) % IndexSpan) ELSE <<>>

Output == [records |-> records, table |-> OutputTable]

\* getFromSlot with the table setFrequentValue has read.  The flags are only
\* looked at when the table is not empty: without it the index is taken for
\* the first byte of the value, and the bytes behind the record for the rest.
Decode(value, table) ==
  CASE value.flag = "none" -> value.data
    [] value.flag # "none" /\ value.index < Len(table) ->
         table[value.index + 1]
    [] OTHER -> Garbage

\* What the lookups of a file answer.
Contents(file) ==
  [k \in DOMAIN file.records |->
     [type  |-> file.records[k].type,
      bytes |-> Decode(file.records[k].value, file.table)]]

=============================================================================
