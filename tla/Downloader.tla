----------------------------- MODULE Downloader -----------------------------
(***************************************************************************)
(* Downloader.Run: fetch the newest cache file the mirrors offer into the  *)
(* destination folder, publish its timestamp, and remove older files.      *)
(*                                                                         *)
(* The folder outlives the process, which may be killed between any two    *)
(* steps; servers read name.cache.timestamp.latest at any time and open    *)
(* the data file it names.  Every file is written under a temporary name   *)
(* with a random number and renamed, so that it appears in one step.  The  *)
(* temporary files that carry a timestamp stay behind when the process     *)
(* dies, are counted by hasAtLeastOneDownloadedFileAlready and listed by   *)
(* the clean-up.  The .inputs files play no part: this code never writes   *)
(* the local one, so that shouldDownload finds it missing and downloads.   *)
(***************************************************************************)
EXTENDS LatestTimestamp, FiniteSets, FiniteSetsExt

CONSTANTS
  Mirrors,         \* the base urls
  FaultKinds,      \* what may go wrong
  MaxFaults        \* bound: how often in a behaviour

AllFaults == {"crash", "poll", "fetch", "write", "flush", "remove"}

ASSUME DownloaderAssumption ==
  /\ Mirrors # {}
  /\ MaxTimestamp \in Nat
  /\ FaultKinds \subseteq AllFaults
  /\ MaxFaults \in Nat

VARIABLES
  offered,         \* the timestamp every mirror offers, 0 for none
  files,           \* the files of the folder that carry a timestamp
  truncated,       \* timestamps whose data file lacks its last buffer
  timestampFile,   \* what name.cache.timestamp holds, 0 when missing
  pc,              \* the next step of Run
  timestamp,       \* the timestamp being downloaded
  opened,          \* the number in the temporary name being written, or 0
  toRemove,        \* the files a clean-up has listed
  faults           \* how often each fault has struck

vars == <<offered, files, truncated, timestampFile, latest, pc, timestamp,
          opened, toRemove, faults>>

Kinds == {"settings", "data", "size", "checksum", "dataTimestamp"}

\* A file under its own name, and under its n-th temporary name.
File(kind, t) == [kind |-> kind, ts |-> t, tmp |-> 0]

Temp(kind, t, n) == [kind |-> kind, ts |-> t, tmp |-> n]

TempNumbers == 1 .. MaxFaults + 1

\* ListFetchedFiles
FilesOf(t) == {f \in files : f.ts = t}

\* A fault of this kind may happen here, and counts against the bound.
Fault(kind) ==
  /\ kind \in FaultKinds
  /\ MapThenSumSet(LAMBDA f : faults[f], FaultKinds) < MaxFaults
  /\ faults' = [faults EXCEPT ![kind] = @ + 1]

-----------------------------------------------------------------------------
(* GetBaseUrlAndTimestamp and shouldDownload *)

\* The newest timestamp among the mirrors that answer, 0 for an error.
Newest(reached) == Max({offered[m] : m \in reached} \cup {0})

\* Every mirror is asked; one that does not answer is passed over.
Poll(reached) ==
  \/ reached = Mirrors /\ UNCHANGED faults
  \/ reached # Mirrors /\ Fault("poll")

\* Mutant: the files of an up to date timestamp are not counted.
ShouldDownloadByTimestamp(t) == t = 0 \/ latest # t

\* No timestamp, or another one than the latest, or hardly any of its files.
ShouldDownload(t) ==
  \/ t = 0
  \/ latest # t
  \/ Cardinality(FilesOf(t)) <= 2

StartRun ==
  /\ pc = "idle"
  /\ \E reached \in SUBSET Mirrors :
       /\ Poll(reached)
       /\ ShouldDownload(Newest(reached))
  /\ pc' = "choose"
  /\ UNCHANGED <<offered, files, truncated, timestampFile, latest, timestamp,
                 opened, toRemove>>

\* download asks every mirror again.  Without a timestamp there is nothing
\* to clean up.
ChooseMirror ==
  /\ pc = "choose"
  /\ \E reached \in SUBSET Mirrors :
       /\ Poll(reached)
       /\ timestamp' = Newest(reached)
       /\ pc' = IF Newest(reached) = 0 THEN "idle" ELSE "settings"
  /\ UNCHANGED <<offered, files, truncated, timestampFile, latest, opened,
                 toRemove>>

-----------------------------------------------------------------------------
(* download: the files, then the timestamps *)

\* What follows the writing of a file that carries the timestamp.
After ==
  [settings |-> "data", data |-> "size", size |-> "checksum",
   checksum |-> "timestamp", dataTimestamp |-> "removeOld"]

\* The random number is one that no file left behind has.
CreateTemp ==
  /\ pc \in DOMAIN After
  /\ opened = 0
  /\ opened' = Min({n \in TempNumbers : Temp(pc, timestamp, n) \notin files})
  /\ files' = files \cup {Temp(pc, timestamp, opened')}
  /\ UNCHANGED <<offered, truncated, timestampFile, latest, pc, timestamp,
                 toRemove, faults>>

\* The checksum of the data received is right; but the error of the last
\* Flush is ignored, and so is a wrong size on disk.
RenameTemp ==
  /\ pc \in DOMAIN After
  /\ opened > 0
  /\ files' = (files \ {Temp(pc, timestamp, opened)})
                \cup {File(pc, timestamp)}
  /\ \/ /\ truncated' = IF pc = "data" THEN truncated \ {timestamp}
                                       ELSE truncated
        /\ UNCHANGED faults
     \/ /\ pc = "data"
        /\ truncated' = truncated \cup {timestamp}
        /\ Fault("flush")
  /\ opened' = 0
  /\ pc' = After[pc]
  /\ UNCHANGED <<offered, timestampFile, latest, timestamp, toRemove>>

WriteTimestamp ==
  /\ pc = "timestamp"
  /\ timestampFile' = timestamp
  /\ pc' = "latest"
  /\ UNCHANGED <<offered, files, truncated, latest, timestamp, opened,
                 toRemove, faults>>

WriteLatest ==
  /\ pc = "latest"
  /\ latest' = timestamp
  /\ pc' = "dataTimestamp"
  /\ UNCHANGED <<offered, files, truncated, timestampFile, timestamp,
                 opened, toRemove, faults>>

\* An error of a fetch: of the settings, or of the checksum or the data,
\* whose checksum may also be wrong.  An error of a write or of a rename.
DownloadError ==
  \/ pc = "settings" /\ opened = 0 /\ Fault("fetch")
  \/ pc = "data" /\ Fault("fetch")
  \/ pc \in DOMAIN After \cup {"timestamp", "latest"} /\ Fault("write")

\* Mutant: an error also removes name.cache.timestamp.latest.
DownloadFailsClearing ==
  /\ DownloadError
  /\ toRemove' = FilesOf(timestamp)
  /\ pc' = IF FilesOf(timestamp) = {} THEN "idle" ELSE "remove"
  /\ latest' = 0
  /\ opened' = 0
  /\ UNCHANGED <<offered, files, truncated, timestampFile, timestamp>>

\* An error anywhere: RemoveLastDownloadedFilesAfterError lists every file of
\* the timestamp.
DownloadFails ==
  /\ DownloadError
  /\ toRemove' = FilesOf(timestamp)
  /\ pc' = IF FilesOf(timestamp) = {} THEN "idle" ELSE "remove"
  /\ opened' = 0
  /\ UNCHANGED <<offered, files, truncated, timestampFile, latest, timestamp>>

-----------------------------------------------------------------------------
(* Clean-up *)

\* Mutant: the oldest timestamp is retained.
OldFilesNewest == {f \in files : \E g \in files : g.ts < f.ts}

\* GetSortedTimeStamps, of which numRetainedDownloads = 1 is kept: the newest.
OldFiles == {f \in files : \E g \in files : g.ts > f.ts}

RemoveOldFiles ==
  /\ pc = "removeOld"
  /\ toRemove' = OldFiles
  /\ pc' = IF OldFiles = {} THEN "idle" ELSE "remove"
  /\ UNCHANGED <<offered, files, truncated, timestampFile, latest, timestamp,
                 opened, faults>>

\* ListFetchedFiles: the names that start with name.cache.timestamp before
\* those that start with name.timestamp.cache, each group as Glob sorts it.
ListOrder ==
  [settings |-> 1, size |-> 2, checksum |-> 3, data |-> 4,
   dataTimestamp |-> 5]

Rank(f) == IF f.kind = "data" /\ f.tmp > 0 THEN 6 ELSE ListOrder[f.kind]

Before(f, g) ==
  \/ f.ts < g.ts
  \/ f.ts = g.ts /\ Rank(f) < Rank(g)
  \/ f.ts = g.ts /\ Rank(f) = Rank(g) /\ f.tmp < g.tmp

\* One file at a time; a file that cannot be removed is passed over.
RemoveFile ==
  /\ pc = "remove"
  /\ \E f \in toRemove :
       /\ \A g \in toRemove \ {f} : Before(f, g)
       /\ toRemove' = toRemove \ {f}
       /\ \/ files' = files \ {f} /\ UNCHANGED faults
          \/ UNCHANGED files /\ Fault("remove")
       /\ pc' = IF toRemove = {f} THEN "idle" ELSE "remove"
  /\ UNCHANGED <<offered, truncated, timestampFile, latest, timestamp,
                 opened>>

-----------------------------------------------------------------------------

\* The process is killed and started again.
Crash ==
  /\ pc # "idle"
  /\ Fault("crash")
  /\ pc' = "idle"
  /\ timestamp' = 0
  /\ opened' = 0
  /\ toRemove' = {}
  /\ UNCHANGED <<offered, files, truncated, timestampFile, latest>>

\* A mirror gets a newer file.
Offer(m) ==
  /\ offered[m] < MaxTimestamp
  /\ \E t \in offered[m] + 1 .. MaxTimestamp :
       offered' = [offered EXCEPT ![m] = t]
  /\ UNCHANGED <<files, truncated, timestampFile, latest, pc, timestamp,
                 opened, toRemove, faults>>

Init ==
  /\ offered = [m \in Mirrors |-> 0]
  /\ files = {}
  /\ truncated = {}
  /\ timestampFile = 0
  /\ latest = 0
  /\ pc = "idle"
  /\ timestamp = 0
  /\ opened = 0
  /\ toRemove = {}
  /\ faults = [kind \in FaultKinds |-> 0]

\* The steps of one process, in the order of the code.
Step ==
  \/ StartRun
  \/ ChooseMirror
  \/ CreateTemp
  \/ RenameTemp
  \/ WriteTimestamp
  \/ WriteLatest
  \/ RemoveOldFiles
  \/ RemoveFile

Next == Step \/ DownloadFails \/ Crash \/ \E m \in Mirrors : Offer(m)

\* checkForNewFiles calls Run again and again, and a started process runs.
\* Faults are finitely many.
Spec == Init /\ [][Next]_vars /\ WF_vars(Step)

-----------------------------------------------------------------------------
(* Properties *)

Steps == DOMAIN After \cup {"idle", "choose", "timestamp", "latest",
                            "removeOld", "remove"}

\* Every variable has its type.
TypeOK ==
  /\ offered \in [Mirrors -> 0 .. MaxTimestamp]
  /\ files \subseteq [kind : Kinds, ts : Timestamps,
                      tmp : TempNumbers \cup {0}]
  /\ truncated \subseteq Timestamps
  /\ timestampFile \in 0 .. MaxTimestamp
  /\ latest \in 0 .. MaxTimestamp
  /\ pc \in Steps
  /\ timestamp \in 0 .. MaxTimestamp
  /\ opened \in TempNumbers \cup {0}
  /\ toRemove \subseteq files
  /\ faults \in [FaultKinds -> 0 .. MaxFaults]

Whole(t) == File("data", t) \in files /\ t \notin truncated

\* download.go:808, "Now that data has been validated, write timestamp files
\* to disk. Those timestamps files are searched by servers so they should be
\* written last": at every moment the latest timestamp names a data file that
\* exists and is whole.
LatestNamesData == latest > 0 => Whole(latest)

\* No mirror was passed over, and the disk took every write.
Sound == \A kind \in FaultKinds \cap {"poll", "write", "flush"} :
           faults[kind] = 0

\* Kills, failed fetches and failed removals, wherever they strike and
\* however often, never leave the latest timestamp naming a data file that
\* is missing or cut short.
LatestSound == Sound => LatestNamesData

\* Under the same faults the timestamp that servers search never goes back:
\* no clean-up or repeated download publishes an older file again.
LatestAdvances == [][Sound' => latest' >= latest]_latest

\* When the mirrors and the faults come to rest, the latest timestamp comes
\* to be the newest one offered, with its data file in the folder, whatever a
\* crash, an error or a failed removal left behind.
Converges ==
  <>[](/\ latest = Newest(Mirrors)
       /\ latest > 0 => File("data", latest) \in files)

=============================================================================
