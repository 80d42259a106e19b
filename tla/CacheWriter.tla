---------------------------- MODULE CacheWriter ----------------------------
(***************************************************************************)
(* The Go CacheWriter over AxonCacheWriter of the C API, which builds a    *)
(* DedupCache, writes it to name.cache, and publishes it: the latest       *)
(* timestamp is written, then name.cache is renamed to name.<ts>.cache.    *)
(*                                                                         *)
(* One goroutine uses a writer, and writers follow one another in a folder *)
(* that outlives them.  A process may die at any step.  The client may call*)
(* any method at any time: what the Go code checks before it calls into C, *)
(* and what it does not, is part of the model.  A call that goes through a *)
(* nil handle or a null builder ends the process ("segv"); of a writer that*)
(* has probed a freed buffer ("undefined") nothing more is said.           *)
(***************************************************************************)
EXTENDS DedupCache

CONSTANTS
  CacheTypes,      \* the types of the caches the writers build
  MaxDuplicates,   \* bound on the calls of AddDuplicateValue
  MaxWriters,      \* bound on the writers, and so on the timestamps
  WriteMayFail     \* the disk may be full while the cache is written

DedupCacheTypes == {"LINEAR_PROBE_DEDUP", "LINEAR_PROBE_DEDUP_TYPED"}

ASSUME WriterAssumption ==
  /\ MaxDuplicates \in Nat
  /\ MaxWriters \in Nat
  /\ WriteMayFail \in BOOLEAN

VARIABLES
  writer,           \* the Go object: handle, isInitialized, its options
  builder,          \* mCacheFileBuilder is not null
  duplicateValues,  \* mDuplicateValues
  pc,               \* where FinishCacheCreation is; "none", "segv",
                    \* "undefined"
  cacheFile,        \* name.cache
  named,            \* name.<ts>.cache, by timestamp
  latest,           \* name.cache.timestamp.latest; zero when unreadable
  clock,            \* the writers so far: the timestamp of this one
  accepted,         \* history: first values of the inserts answered nil
  promised          \* history: what was to be in the file, by timestamp

vars == <<cacheVars, writer, builder, duplicateValues, pc, cacheFile,
          named, latest, clock, accepted, promised>>

writerVars == <<writer, builder, duplicateValues>>
folderVars == <<cacheFile, named, latest>>
historyVars == <<clock, accepted, promised>>

NoWriter == [handle |-> FALSE, isInitialized |-> FALSE, cacheType |-> "NONE",
             generateTimestampFile |-> FALSE, renameCacheFile |-> FALSE]

NoFile == [state |-> "none"]

Init ==
  /\ DedupInit
  /\ writer = NoWriter
  /\ builder = FALSE
  /\ duplicateValues = <<>>
  /\ pc = "none"
  /\ cacheFile = NoFile
  /\ named = [t \in {} |-> 0]
  /\ latest = 0
  /\ clock = 0
  /\ accepted = NoRecords
  /\ promised = [t \in {} |-> 0]

\* The function f with x mapped to y.
Extend(f, x, y) == [z \in DOMAIN f \cup {x} |-> IF z = x THEN y ELSE f[z]]

-----------------------------------------------------------------------------
(* Construction *)

\* Mutant: isInitialized is set before the result is looked at.
NewWriterTrusting(type, generate, rename, ret) ==
  [handle |-> TRUE, isInitialized |-> TRUE, cacheType |-> type,
   generateTimestampFile |-> generate, renameCacheFile |-> rename]

NewWriter(type, generate, rename, ret) ==
  [handle |-> TRUE, isInitialized |-> (ret = 0), cacheType |-> type,
   generateTimestampFile |-> generate, renameCacheFile |-> rename]

\* CacheWriter_Initialize returns 3 for offset bits out of range and 1 when
\* the factory throws: there is no builder then, but NewCacheWriter returns
\* the writer with the error.
NewCacheWriter ==
  /\ pc = "none"
  /\ clock < MaxWriters
  /\ clock' = clock + 1
  /\ \E type \in CacheTypes, generate, rename \in BOOLEAN, ret \in {0, 1, 3} :
       /\ writer' = NewWriter(type, generate, rename, ret)
       /\ builder' = (ret = 0)
  /\ pc' = "idle"
  /\ duplicateValues' = <<>>
  /\ DedupReset
  /\ accepted' = NoRecords
  /\ UNCHANGED <<folderVars, promised>>

-----------------------------------------------------------------------------
(* The methods.  A method that checks isInitialized answers an error when  *)
(* it is not set, which leaves everything else alone.                      *)

Idle == pc = "idle"

Uninitialized ==
  /\ Idle
  /\ ~writer.isInitialized
  /\ UNCHANGED <<cacheVars, writerVars, pc, folderVars, historyVars>>

\* A method that passed the check may call into C, where nothing is checked.
MayCall == Idle /\ writer.isInitialized

\* InsertKey, FinishAddDuplicateValues and FinishCacheCreation use the handle
\* and the builder, AddDuplicateValue only the handle, and does not check
\* isInitialized.
NullCall ==
  /\ \/ MayCall /\ ~(writer.handle /\ builder)
     \/ Idle /\ ~writer.handle
  /\ pc' = "segv"
  /\ DedupReset
  /\ accepted' = NoRecords
  /\ UNCHANGED <<writerVars, folderVars, clock, promised>>

\* A key that is stored already is answered like one that was stored: what
\* consumeValue returns about it is only counted.
InsertKey(k, v) ==
  /\ MayCall
  /\ writer.handle /\ builder
  /\ PutInternal(k, v)
  /\ accepted' = IF k \in DOMAIN accepted THEN accepted
                 ELSE Extend(accepted, k, v)
  /\ UNCHANGED <<writerVars, pc, folderVars, clock, promised>>

\* The put throws and is answered by an error: the key space is full, the key
\* or value is too long, or the offset bits are too short.
InsertKeyFails(k) ==
  /\ MayCall
  /\ writer.handle /\ builder
  /\ \/ Full /\ UNCHANGED cacheVars
     \/ PutTooLarge(k)
     \/ PutOffsetTooShort(k)
  /\ UNCHANGED <<writerVars, pc, folderVars, historyVars>>

\* A put after one that failed for its offset bits, when that one has moved
\* the buffer: the probe reads freed memory.
InsertKeyProbesFreed ==
  /\ MayCall
  /\ writer.handle /\ builder
  /\ ~Full /\ keySpacePtr = "freed"
  /\ pc' = "undefined"
  /\ DedupReset
  /\ accepted' = NoRecords
  /\ UNCHANGED <<writerVars, folderVars, clock, promised>>

\* b is what the value is converted to, by its type: the bytes that a put of
\* it would store, or others when the types do not agree.
AddDuplicateValue(b) ==
  /\ Idle
  /\ writer.handle
  /\ Len(duplicateValues) < MaxDuplicates
  /\ duplicateValues' = Append(duplicateValues, b)
  /\ UNCHANGED <<cacheVars, writer, builder, pc, folderVars, historyVars>>

FinishAddDuplicateValues ==
  /\ MayCall
  /\ writer.handle /\ builder
  /\ writer.cacheType \in DedupCacheTypes
  /\ SetDuplicatedValues(duplicateValues)
  /\ UNCHANGED <<writerVars, pc, folderVars, historyVars>>

\* The type is looked at before the builder is used.
FinishAddDuplicateValuesFails ==
  /\ MayCall
  /\ writer.handle
  /\ \/ writer.cacheType \notin DedupCacheTypes
     \/ builder /\ ~MaySetDuplicatedValues(duplicateValues)
  /\ UNCHANGED <<cacheVars, writerVars, pc, folderVars, historyVars>>

\* Delete frees the C++ writer with its builder and the cache, and leaves
\* isInitialized.
Delete ==
  /\ Idle
  /\ writer.handle
  /\ writer' = [writer EXCEPT !.handle = FALSE]
  /\ builder' = FALSE
  /\ duplicateValues' = <<>>
  /\ DedupReset
  /\ accepted' = NoRecords
  /\ UNCHANGED <<pc, folderVars, clock, promised>>

-----------------------------------------------------------------------------
(* FinishCacheCreation *)

\* The file writer opens name.cache, which creates or truncates it.
OpenCacheFile ==
  /\ MayCall
  /\ writer.handle /\ builder
  /\ cacheFile' = [state |-> "partial"]
  /\ pc' = "write"
  /\ UNCHANGED <<cacheVars, writerVars, named, latest, historyVars>>

\* The header, the data and the table are written and flushed.  The state of
\* the stream is not looked at, and finishCacheCreation always returns 0.
\* The builder is released, and the cache with it.
WriteCacheFile ==
  /\ pc = "write"
  /\ \/ cacheFile' = [state |-> "whole", content |-> Output]
     \/ WriteMayFail /\ UNCHANGED cacheFile
  /\ builder' = FALSE
  /\ promised' = Extend(promised, clock,
                      [entries |-> accepted, duplicates |-> values])
  /\ pc' = IF writer.generateTimestampFile THEN "truncateLatest"
           ELSE IF writer.renameCacheFile THEN "rename" ELSE "return"
  /\ DedupReset
  /\ accepted' = NoRecords
  /\ UNCHANGED <<writer, duplicateValues, named, latest, clock>>

\* os.WriteFile truncates the file, then writes it.
TruncateLatest ==
  /\ pc = "truncateLatest"
  /\ latest' = 0
  /\ pc' = "writeLatest"
  /\ UNCHANGED <<cacheVars, writerVars, cacheFile, named, historyVars>>

WriteLatest ==
  /\ pc = "writeLatest"
  /\ latest' = clock
  /\ pc' = IF writer.renameCacheFile THEN "rename" ELSE "return"
  /\ UNCHANGED <<cacheVars, writerVars, cacheFile, named, historyVars>>

\* Mutant: the error of Rename is ignored.
RenameCacheFileOrNot ==
  /\ pc = "rename"
  /\ \/ named' = Extend(named, clock, cacheFile) /\ cacheFile' = NoFile
     \/ UNCHANGED <<named, cacheFile>>
  /\ pc' = "return"
  /\ UNCHANGED <<cacheVars, writerVars, latest, historyVars>>

RenameCacheFile ==
  /\ pc = "rename"
  /\ named' = Extend(named, clock, cacheFile)
  /\ cacheFile' = NoFile
  /\ pc' = "return"
  /\ UNCHANGED <<cacheVars, writerVars, latest, historyVars>>

Return ==
  /\ pc = "return"
  /\ pc' = "idle"
  /\ UNCHANGED <<cacheVars, writerVars, folderVars, historyVars>>

\* The timestamp cannot be written, or the file cannot be renamed.
FinishFails ==
  /\ pc \in {"truncateLatest", "writeLatest", "rename"}
  /\ pc' = "idle"
  /\ UNCHANGED <<cacheVars, writerVars, folderVars, historyVars>>

-----------------------------------------------------------------------------

\* The process ends, by itself, by a crash, or by a null dereference; the
\* folder stays.
Exit ==
  /\ pc \notin {"none", "undefined"}
  /\ pc' = "none"
  /\ writer' = NoWriter
  /\ builder' = FALSE
  /\ duplicateValues' = <<>>
  /\ DedupReset
  /\ accepted' = NoRecords
  /\ UNCHANGED <<folderVars, clock, promised>>

Call ==
  \/ Uninitialized
  \/ NullCall
  \/ \E k \in Keys, v \in Values : InsertKey(k, v)
  \/ \E k \in Keys : InsertKeyFails(k)
  \/ InsertKeyProbesFreed
  \/ \E b \in Bytes : AddDuplicateValue(b)
  \/ FinishAddDuplicateValues
  \/ FinishAddDuplicateValuesFails
  \/ Delete

FinishCacheCreation ==
  \/ OpenCacheFile
  \/ WriteCacheFile
  \/ TruncateLatest
  \/ WriteLatest
  \/ RenameCacheFile
  \/ Return
  \/ FinishFails

Next == NewCacheWriter \/ Call \/ FinishCacheCreation \/ Exit

Spec == Init /\ [][Next]_vars

-----------------------------------------------------------------------------
(* Properties *)

\* Every variable has its type.
TypeOK ==
  /\ DOMAIN records \subseteq Keys
  /\ values \in Seq(Bytes) /\ duplicateValues \in Seq(Bytes)
  /\ DOMAIN valuesToIndex \subseteq Bytes
  /\ valuesSet \in BOOLEAN /\ builder \in BOOLEAN
  /\ pc \in {"none", "idle", "write", "truncateLatest", "writeLatest",
             "rename", "return", "segv", "undefined"}
  /\ keySpacePtr \in {"current", "freed"}
  /\ cacheFile.state \in {"none", "partial", "whole"}
  /\ DOMAIN named \subseteq DOMAIN promised
  /\ latest \in 0 .. clock
  /\ DOMAIN accepted \subseteq Keys

\* A lookup in a published file finds the first value of every key whose
\* insert was answered nil, with its type, and nothing else: whatever was
\* inserted before, between and after the calls that set the frequent values,
\* whatever failed, and wherever an earlier process died.  A writer whose
\* inserts go on after one that failed for its offset bits and moved the
\* buffer is out of this; one that only finishes then is not.
PublishedComplete ==
  \A t \in DOMAIN named :
    /\ named[t].state = "whole"
    /\ Contents(named[t].content) = promised[t].entries

\* FinishCacheCreation answers nil only when the latest timestamp, if it was
\* asked for, is this writer's, and the file is where a reader looks for it.
FinishedIsPublished ==
  pc = "return" =>
    /\ writer.generateTimestampFile => latest = clock
    /\ writer.renameCacheFile => clock \in DOMAIN named

\* The check of isInitialized keeps a writer whose initialization failed from
\* using the builder it does not have: only a writer that is finished or
\* deleted can reach a null pointer.
FailedWriterIsHarmless ==
  pc = "segv" => clock \in DOMAIN promised \/ ~writer.handle

\* FullCacheTest.cpp:181, CHECK( duplicatedValues.size() == topValues.size() ):
\* a reader finds all the frequent values that were set, and up to 65536 can
\* be set.
DuplicatedValuesKept ==
  \A t \in DOMAIN named :
    named[t].state = "whole" =>
      named[t].content.table = promised[t].duplicates

=============================================================================
