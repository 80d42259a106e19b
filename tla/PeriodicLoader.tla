--------------------------- MODULE PeriodicLoader ---------------------------
(***************************************************************************)
(* CacheOneTimeLoader, and CacheLoader, which a serving process calls now  *)
(* and then to load its cache again when the file has changed.             *)
(*                                                                         *)
(* The file is looked at three times, and the generator may write to it in *)
(* between: for its modification time, for its header, and for the mapping.*)
(* The mapping is shared, so that a cache is served from what the file is  *)
(* now; but it is as long as the file was.  A file that is cut short gives *)
(* no mapping, or a short one, which the loader does not notice: reading   *)
(* from either may end the process, and then it is started again.          *)
(*                                                                         *)
(* The version in the header is that of the one build that all processes   *)
(* are of: the loader's comparison of it never fails here.                 *)
(***************************************************************************)
EXTENDS Generator

CONSTANTS
  LoadDir,       \* axoncache.load_dir of the serving process
  LoadName,      \* the name of its cache
  MaxFaults      \* bound on the loads that fail although the file is there

VARIABLES
  loaderPc,      \* where load is
  lastModified,  \* mLastCacheFileModificationTime
  readHeader,    \* the header loadHeader returned
  served,        \* the cache in use: its header, its file and its mapping
  missed,        \* history: the loads of a complete file that failed, since
                 \* the process was started
  faults

loaderVars == <<loaderPc, lastModified, readHeader, served, missed, faults>>

NotServed == [mtime |-> 0, header |-> NoHeader, mapping |-> "none"]

LoaderInit ==
  /\ loaderPc = "idle"
  /\ lastModified = 0
  /\ readHeader = NoHeader
  /\ served = NotServed
  /\ missed = {}
  /\ faults = 0

-----------------------------------------------------------------------------
(* CacheOneTimeLoader *)

\* getFullCacheFileName
FullCacheFileName(s, name) ==
  FileName(GetString(s, <<"load_dir", name>>, "datamover"), name)

\* getLatestTimestampFullCacheFileName, with the text of the timestamp file:
\* a path, or what no path is when the file is missing or empty.
LatestTimestampFullCacheFileName(s, name, timestamp) ==
  IF timestamp \in {"missing", ""} THEN <<>>
  ELSE <<GetString(s, <<"load_dir", name>>, "datamover"), name, timestamp>>

\* loadHeader throws for a file that is missing or shorter than a header.
HeaderReadable(path) ==
  path \in DOMAIN disk /\ disk[path].state # "empty"

\* The constructor of LinearProbe throws for offset bits out of range; the
\* type in the header is not looked at before.
LoadsAsDedupCache(header) ==
  header.offsetBits \in kMinLinearProbeOffsetBits .. kMaxLinearProbeOffsetBits

\* What loadMmap returns for a file: a null pointer when there is nothing
\* behind the header, and then the data size wraps to minus the header's.
Mappings(f) ==
  CASE f.state = "empty" -> {"null"}
    [] f.state = "partial" -> {"null", "short"}
    [] f.state = "complete" -> {"whole"}

\* The constructor of LinearProbeDedupCache reads the frequent values, from
\* the end of the mapping backwards, unless the header says LINEAR_PROBE.
ReadsTrailer(header) == header.cacheType # "LINEAR_PROBE"

\* The last bytes of the mapping are where setFrequentValue takes them from.
TrailerThere(f, mapping) ==
  mapping = "whole" /\ ReadsTrailer(f.header)

\* What setFrequentValue makes of other bytes: it reads outside the mapping,
\* finds sizes that do not match, or takes them for a table.
ConstructorOutcomes(header, f, mapping) ==
  IF ~ReadsTrailer(header) \/ TrailerThere(f, mapping) THEN {"cache"}
  ELSE IF mapping = "null" THEN {"crash"}
  ELSE {"cache", "throw", "crash"}

-----------------------------------------------------------------------------
(* CacheLoader::load *)

LoadPath == FileName(LoadDir, LoadName)

NoFile == [state |-> "empty", mtime |-> 0, header |-> NoHeader, pairs |-> {}]

\* The file as the next system call finds it.
FileNow == IF LoadPath \in DOMAIN disk THEN disk[LoadPath] ELSE NoFile

\* The memory of the process is gone.
Crash ==
  /\ loaderPc' = "down"
  /\ lastModified' = 0
  /\ readHeader' = NoHeader
  /\ served' = NotServed
  /\ missed' = {}

\* last_write_time throws for a missing file.
StatThrows ==
  /\ loaderPc = "idle"
  /\ LoadPath \notin DOMAIN disk
  /\ UNCHANGED loaderVars

\* Mutant: the times are compared in coarser units.
ChangedInUnits == disk[LoadPath].mtime \div 2 > lastModified \div 2

Changed == disk[LoadPath].mtime > lastModified

\* "not reloading"
StatUnchanged ==
  /\ loaderPc = "idle"
  /\ LoadPath \in DOMAIN disk
  /\ ~Changed
  /\ UNCHANGED loaderVars

\* The modification time is remembered before the file is loaded.
StatChanged ==
  /\ loaderPc = "idle"
  /\ LoadPath \in DOMAIN disk
  /\ Changed
  /\ lastModified' = disk[LoadPath].mtime
  /\ loaderPc' = "header"
  /\ UNCHANGED <<readHeader, served, missed, faults>>

\* The load of a file failed although it was complete.
Miss(f) ==
  missed' = IF f.state = "complete" THEN missed \cup {lastModified} ELSE missed

\* A load that throws leaves the cache of the last one in use.
LoadThrows ==
  /\ loaderPc' = "idle"
  /\ Miss(FileNow)
  /\ UNCHANGED <<lastModified, readHeader, served>>

LoadHeader ==
  /\ loaderPc = "header"
  /\ HeaderReadable(LoadPath)
  /\ readHeader' = disk[LoadPath].header
  /\ loaderPc' = "map"
  /\ UNCHANGED <<lastModified, served, missed, faults>>

LoadHeaderThrows ==
  /\ loaderPc = "header"
  /\ ~HeaderReadable(LoadPath)
  /\ LoadThrows
  /\ UNCHANGED faults

\* The header cannot be opened: the process has no file descriptor left.
HeaderFault ==
  /\ loaderPc = "header"
  /\ faults < MaxFaults
  /\ faults' = faults + 1
  /\ LoadThrows

\* The cache is made on the header that was read, and on the file as it is.
\* (A file that is cut short while setFrequentValue reads it is LookupCrashes
\* of the next state.)
Map(mapping) ==
  /\ loaderPc = "map"
  /\ LoadsAsDedupCache(readHeader)
  /\ "cache" \in ConstructorOutcomes(readHeader, FileNow, mapping)
  /\ served' = [mtime |-> FileNow.mtime, header |-> readHeader,
                mapping |-> mapping]
  /\ loaderPc' = "idle"
  /\ UNCHANGED <<lastModified, readHeader>>

\* The constructor of LinearProbe, or setFrequentValue, throws.
MapThrows(mapping) ==
  /\ loaderPc = "map"
  /\ \/ ~LoadsAsDedupCache(readHeader)
     \/ "throw" \in ConstructorOutcomes(readHeader, FileNow, mapping)
  /\ LoadThrows

MapCrashes(mapping) ==
  /\ loaderPc = "map"
  /\ LoadsAsDedupCache(readHeader)
  /\ "crash" \in ConstructorOutcomes(readHeader, FileNow, mapping)
  /\ Crash

\* loadMmap meets the file that is there...
MapFile ==
  /\ \E mapping \in Mappings(FileNow) :
       \/ Map(mapping) /\ UNCHANGED missed
       \/ MapThrows(mapping)
       \/ MapCrashes(mapping)
  /\ UNCHANGED faults

\* ... or fails to open or to map it, and returns a null pointer as well.
MapFault ==
  /\ faults < MaxFaults
  /\ faults' = faults + 1
  /\ \/ Map("null") /\ Miss(FileNow)
     \/ MapThrows("null")
     \/ MapCrashes("null")

\* The process is started again.
Restart ==
  /\ loaderPc = "down"
  /\ loaderPc' = "idle"
  /\ UNCHANGED <<lastModified, readHeader, served, missed, faults>>

\* Stat has no effect unless the file has changed.
LoaderStep ==
  \/ StatThrows \/ StatUnchanged \/ StatChanged
  \/ LoadHeader \/ LoadHeaderThrows \/ HeaderFault \/ MapFile \/ MapFault
  \/ Restart

\* The cache in use is the file as it is, all of it, under its own header.
ServesWhole(f) ==
  served = [mtime |-> f.mtime, header |-> f.header, mapping |-> "whole"]

\* A lookup in anything else may leave the mapping, or the file.
LookupCrashes ==
  /\ served # NotServed
  /\ ~(FileNow.state = "complete" /\ ServesWhole(FileNow))
  /\ Crash
  /\ UNCHANGED faults

=============================================================================
