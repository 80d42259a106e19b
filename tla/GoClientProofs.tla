--------------------------- MODULE GoClientProofs ---------------------------
(***************************************************************************)
(* Proofs about the Go client: Downloader.Run, for any mirrors, timestamps *)
(* and number of faults, and the CacheReader that follows its latest       *)
(* timestamp, for any number of lookups and of callers of Delete.          *)
(*                                                                         *)
(* What servers search is never a file that is missing, cut short or older,*)
(* as long as no mirror is passed over and the disk takes every write; what*)
(* a lookup meets is what the timestamp in use promises.                   *)
(***************************************************************************)
EXTENDS Downloader, GoCacheReader, TLAPS, FiniteSetTheorems,
        WellFoundedInduction

-----------------------------------------------------------------------------
(* The downloader *)

\* The files that are in place before the timestamps are written.
Payload == {"settings", "data", "size", "checksum"}

\* Where Run is about a timestamp that is not published yet, and where it has
\* just published it.
Fetching == Payload \cup {"timestamp", "latest"}

Published == {"dataTimestamp", "removeOld"}

\* What has been written when Run is here.
Written ==
  [settings |-> {}, data |-> {"settings"}, size |-> {"settings", "data"},
   checksum |-> {"settings", "data", "size"}, timestamp |-> Payload,
   latest |-> Payload]

Typed ==
  /\ offered \in [Mirrors -> 0 .. MaxTimestamp]
  /\ IsFiniteSet(files)
  /\ \A f \in files : f.ts \in 0 .. MaxTimestamp
  /\ latest \in 0 .. MaxTimestamp
  /\ pc \in Steps
  /\ timestamp \in 0 .. MaxTimestamp
  /\ faults \in [FaultKinds -> Nat]

\* Nothing is newer than what the mirrors offer.
NothingNewer ==
  /\ latest <= Newest(Mirrors)
  /\ timestamp <= Newest(Mirrors)
  /\ \A f \in files : f.ts <= Newest(Mirrors)

\* The files of the latest timestamp are all there, so that shouldDownload
\* never has it downloaded again.
LatestComplete ==
  /\ truncated = {}
  /\ latest > 0 => \A kind \in Payload : File(kind, latest) \in files

\* A download is about a timestamp newer than the latest one and not older
\* than any file of the folder.
DownloadAhead ==
  /\ pc = "choose" => Newest(Mirrors) # latest \/ Newest(Mirrors) = 0
  /\ pc \in Fetching =>
       /\ timestamp > latest
       /\ \A kind \in Written[pc] : File(kind, timestamp) \in files
  /\ pc \in Published => timestamp = latest
  /\ pc \in Fetching \cup Published => \A f \in files : f.ts <= timestamp

\* A clean-up never lists a file of the latest timestamp.
RemovesOthers == pc = "remove" => \A f \in toRemove : f.ts # latest

SoundInv == NothingNewer /\ LatestComplete /\ DownloadAhead /\ RemovesOthers

IInv == Typed /\ (Sound => SoundInv)

-----------------------------------------------------------------------------
(* The newest timestamp that the mirrors offer *)

LEMMA NewestExists ==
  ASSUME NEW S \in SUBSET (0 .. MaxTimestamp), S # {}
  PROVE  \E m \in S : \A y \in S : m >= y
<1> USE DownloaderAssumption
<1> DEFINE T == {MaxTimestamp - x : x \in S}
<1>1. T \subseteq Nat /\ T # {}
  <2>1. \A x \in S : MaxTimestamp - x \in Nat
    OBVIOUS
  <2>2. PICK x \in S : TRUE
    OBVIOUS
  <2>3. MaxTimestamp - x \in T
    BY <2>2
  <2> QED
    BY <2>1, <2>3
<1>2. IsWellFoundedOn(OpToRel(<, Nat), Nat)
  BY NatLessThanWellFounded, Zenon
<1>3. PICK d \in T : \A e \in T : ~(<<e, d>> \in OpToRel(<, Nat))
  BY <1>1, <1>2, WFMin, Zenon
<1>4. \A e \in T : ~(e < d)
  BY <1>1, <1>3, Zenon DEF OpToRel
<1>5. PICK m \in S : d = MaxTimestamp - m
  OBVIOUS
<1>6. ASSUME NEW y \in S PROVE m >= y
  <2>1. ~(MaxTimestamp - y < MaxTimestamp - m)
    BY <1>4, <1>5
  <2> QED
    BY <2>1
<1> QED
  BY <1>6

\* What Newest is about: the mirrors' timestamps, and the 0 for none of them.
Answers(offers) == {offers[m] : m \in Mirrors} \cup {0}

LEMMA NewestIsMax ==
  ASSUME NEW offers \in [Mirrors -> 0 .. MaxTimestamp]
  PROVE  /\ Max(Answers(offers)) \in Answers(offers)
         /\ \A m \in Mirrors : offers[m] <= Max(Answers(offers))
         /\ Max(Answers(offers)) \in 0 .. MaxTimestamp
<1> USE DownloaderAssumption
<1>1. Answers(offers) \in SUBSET (0 .. MaxTimestamp) /\ 0 \in Answers(offers)
  BY DEF Answers
<1>2. \E m \in Answers(offers) : \A y \in Answers(offers) : m >= y
  BY <1>1, NewestExists
<1>3. /\ Max(Answers(offers)) \in Answers(offers)
      /\ \A y \in Answers(offers) : Max(Answers(offers)) >= y
  BY <1>2 DEF Max
<1>4. \A m \in Mirrors : offers[m] \in Answers(offers)
  BY DEF Answers
<1> QED
  BY <1>1, <1>3, <1>4

LEMMA NewestSame ==
  ASSUME UNCHANGED offered
  PROVE  Newest(Mirrors)' = Newest(Mirrors)
BY DEF Newest

LEMMA NewestType ==
  ASSUME Typed
  PROVE  Newest(Mirrors) \in 0 .. MaxTimestamp
BY NewestIsMax DEF Typed, Newest, Answers

LEMMA NewestGrows ==
  ASSUME Typed, NEW m \in Mirrors, Offer(m)
  PROVE  Newest(Mirrors) <= Newest(Mirrors)'
<1> USE DownloaderAssumption
<1>1. /\ offered \in [Mirrors -> 0 .. MaxTimestamp]
      /\ offered' \in [Mirrors -> 0 .. MaxTimestamp]
      /\ \A k \in Mirrors : offered[k] <= offered'[k]
  BY DEF Offer, Typed
<1>2. /\ \A k \in Mirrors : offered'[k] <= Newest(Mirrors)'
      /\ Newest(Mirrors)' \in 0 .. MaxTimestamp
  BY <1>1, NewestIsMax DEF Newest, Answers
<1>3. Newest(Mirrors) \in Answers(offered)
  BY <1>1, NewestIsMax DEF Newest, Answers
<1>4. CASE Newest(Mirrors) = 0
  BY <1>2, <1>4
<1>5. ASSUME NEW k \in Mirrors, Newest(Mirrors) = offered[k]
      PROVE  Newest(Mirrors) <= Newest(Mirrors)'
  <2>1. offered[k] \in Nat /\ offered'[k] \in Nat
    BY <1>1
  <2> QED
    BY <1>1, <1>2, <1>5, <2>1
<1> QED
  BY <1>3, <1>4, <1>5 DEF Answers

-----------------------------------------------------------------------------
(* Faults *)

\* A fault of a poll or of a write ends what is promised, for good.
LEMMA FaultIsUnsound ==
  ASSUME Typed, NEW kind \in {"poll", "write", "flush"}, Fault(kind)
  PROVE  ~Sound'
BY DEF Typed, Fault, Sound

LEMMA FaultsGrow ==
  ASSUME [Next]_vars
  PROVE  UNCHANGED faults \/ \E kind \in FaultKinds : Fault(kind)
<1>1. ASSUME NEW kind, Fault(kind) PROVE kind \in FaultKinds
  BY <1>1 DEF Fault
<1>2. ASSUME NEW reached, Poll(reached)
      PROVE  UNCHANGED faults \/ \E kind \in FaultKinds : Fault(kind)
  BY <1>1, <1>2 DEF Poll
<1> QED
  BY <1>1, <1>2
     DEF Next, Step, StartRun, ChooseMirror, CreateTemp, RenameTemp,
         WriteTimestamp, WriteLatest, RemoveOldFiles, RemoveFile,
         DownloadFails, DownloadError, Crash, Offer, vars

LEMMA FaultsType ==
  ASSUME Typed, [Next]_vars
  PROVE  faults' \in [FaultKinds -> Nat]
<1>1. CASE UNCHANGED faults
  BY <1>1 DEF Typed
<1>2. ASSUME NEW kind \in FaultKinds, Fault(kind)
      PROVE  faults' \in [FaultKinds -> Nat]
  <2>1. faults' = [faults EXCEPT ![kind] = @ + 1]
    BY <1>2 DEF Fault
  <2> QED
    BY <2>1 DEF Typed
<1> QED
  BY <1>1, <1>2, FaultsGrow

LEMMA SoundBefore ==
  ASSUME Typed, [Next]_vars, Sound'
  PROVE  Sound
<1>1. CASE UNCHANGED faults
  BY <1>1 DEF Sound
<1>2. ASSUME NEW kind \in FaultKinds, Fault(kind) PROVE Sound
  BY <1>2, FaultIsUnsound DEF Typed, Fault, Sound
<1> QED
  BY <1>1, <1>2, FaultsGrow

\* Under these faults every mirror answers.
LEMMA EveryMirrorAnswers ==
  ASSUME Typed, Sound', NEW reached, Poll(reached)
  PROVE  reached = Mirrors
BY FaultIsUnsound DEF Poll

-----------------------------------------------------------------------------
(* The inductive invariant *)

LEMMA InitIInv == Init => IInv
<1> SUFFICES ASSUME Init PROVE IInv
  OBVIOUS
<1>1. Typed
  BY DownloaderAssumption, FS_EmptySet DEF Init, Typed, Steps, After
<1>2. Newest(Mirrors) \in Nat
  BY <1>1, NewestType, DownloaderAssumption
<1>3. SoundInv
  BY <1>2 DEF Init, SoundInv, NothingNewer, LatestComplete, DownloadAhead,
       RemovesOthers, Fetching, Published, Payload
<1> QED
  BY <1>1, <1>3 DEF IInv

LEMMA NextTyped == Typed /\ [Next]_vars => Typed'
<1> SUFFICES ASSUME Typed, [Next]_vars PROVE Typed'
  OBVIOUS
<1> USE DownloaderAssumption DEF Typed
<1>1. faults' \in [FaultKinds -> Nat]
  BY FaultsType
<1>2. pc' \in Steps
  BY DEF Next, Step, StartRun, ChooseMirror, CreateTemp, RenameTemp,
         WriteTimestamp, WriteLatest, RemoveOldFiles, RemoveFile,
         DownloadFails, Crash, Offer, vars, Steps, After
<1>3. CASE StartRun \/ RemoveOldFiles \/ WriteTimestamp \/ WriteLatest
             \/ DownloadFails \/ Crash
  BY <1>1, <1>2, <1>3
     DEF StartRun, RemoveOldFiles, WriteTimestamp, WriteLatest,
         DownloadFails, Crash
<1>4. CASE ChooseMirror
  <2>1. PICK reached \in SUBSET Mirrors : timestamp' = Newest(reached)
    BY <1>4 DEF ChooseMirror
  <2>2. Newest(reached) \in 0 .. MaxTimestamp
    <3> DEFINE S == {offered[m] : m \in reached} \cup {0}
    <3>1. S \in SUBSET (0 .. MaxTimestamp) /\ S # {}
      OBVIOUS
    <3>2. \E m \in S : \A y \in S : m >= y
      BY <3>1, NewestExists
    <3> QED
      BY <3>1, <3>2 DEF Newest, Max
  <2> QED
    BY <1>1, <1>2, <1>4, <2>1, <2>2 DEF ChooseMirror
<1>5. CASE CreateTemp
  <2>1. IsFiniteSet(files')
    BY <1>5, FS_AddElement DEF CreateTemp
  <2> QED
    BY <1>1, <1>2, <1>5, <2>1 DEF CreateTemp, Temp
<1>6. CASE RenameTemp
  <2>1. IsFiniteSet(files \ {Temp(pc, timestamp, opened)})
    BY FS_Subset
  <2>2. IsFiniteSet(files')
    BY <1>6, <2>1, FS_AddElement DEF RenameTemp
  <2> QED
    BY <1>1, <1>2, <1>6, <2>2 DEF RenameTemp, File
<1>7. CASE RemoveFile
  <2>1. files' \subseteq files
    BY <1>7 DEF RemoveFile
  <2>2. IsFiniteSet(files')
    BY <2>1, FS_Subset
  <2> QED
    BY <1>1, <1>2, <1>7, <2>1, <2>2 DEF RemoveFile
<1>8. ASSUME NEW m \in Mirrors, Offer(m) PROVE Typed'
  BY <1>1, <1>2, <1>8 DEF Offer
<1>9. CASE UNCHANGED vars
  BY <1>1, <1>2, <1>9 DEF vars
<1> QED
  BY <1>3, <1>4, <1>5, <1>6, <1>7, <1>8, <1>9 DEF Next, Step

\* The files of the latest timestamp are too many for shouldDownload to have
\* them downloaded again.
LEMMA LatestNotAgain ==
  ASSUME Typed, LatestComplete, latest > 0
  PROVE  ~ShouldDownload(latest)
<1> DEFINE A == {File("settings", latest)}
           B == A \cup {File("data", latest)}
           C == B \cup {File("size", latest)}
<1>1. IsFiniteSet(A) /\ Cardinality(A) = 1
  BY FS_Singleton
<1>2. File("data", latest) \notin A
  BY DEF File
<1>3. IsFiniteSet(B) /\ Cardinality(B) = 2
  BY <1>1, <1>2, FS_AddElement
<1>4. File("size", latest) \notin B
  BY DEF File
<1>5. IsFiniteSet(C) /\ Cardinality(C) = 3
  BY <1>3, <1>4, FS_AddElement
<1>6. C \subseteq FilesOf(latest)
  BY DEF LatestComplete, Payload, FilesOf, File
<1>7. IsFiniteSet(FilesOf(latest))
  BY FS_Subset DEF FilesOf, Typed
<1>8. /\ Cardinality(FilesOf(latest)) \in Nat
      /\ Cardinality(C) <= Cardinality(FilesOf(latest))
  BY <1>6, <1>7, FS_Subset, FS_CardinalityType
<1> HIDE DEF C
<1> QED
  BY <1>5, <1>8, DownloaderAssumption DEF ShouldDownload, Typed

LEMMA NextSoundInv ==
  ASSUME Typed, SoundInv, [Next]_vars, Sound'
  PROVE  SoundInv'
<1> USE DownloaderAssumption
<1>0. Newest(Mirrors) \in 0 .. MaxTimestamp
  BY NewestType
<1>1. CASE StartRun
  <2>1. PICK reached \in SUBSET Mirrors :
          Poll(reached) /\ ShouldDownload(Newest(reached))
    BY <1>1 DEF StartRun
  <2>2. ShouldDownload(Newest(Mirrors))
    BY <2>1, EveryMirrorAnswers
  <2>3. Newest(Mirrors) # latest \/ Newest(Mirrors) = 0
    BY <1>0, <2>2, LatestNotAgain DEF SoundInv, Typed
  <2>4. UNCHANGED <<offered, files, truncated, latest, timestamp>>
    BY <1>1 DEF StartRun
  <2>5. pc' = "choose"
    BY <1>1 DEF StartRun
  <2> QED
    BY <2>3, <2>4, <2>5, NewestSame
       DEF SoundInv, NothingNewer, LatestComplete, DownloadAhead,
           RemovesOthers, Fetching, Published, Payload
<1>2. CASE ChooseMirror
  <2>1. PICK reached \in SUBSET Mirrors :
          /\ Poll(reached)
          /\ timestamp' = Newest(reached)
          /\ pc' = IF Newest(reached) = 0 THEN "idle" ELSE "settings"
    BY <1>2 DEF ChooseMirror
  <2>2. /\ timestamp' = Newest(Mirrors)
        /\ pc' = IF Newest(Mirrors) = 0 THEN "idle" ELSE "settings"
    BY <2>1, EveryMirrorAnswers
  <2>3. UNCHANGED <<offered, files, truncated, latest>>
    BY <1>2 DEF ChooseMirror
  <2>4. Newest(Mirrors) # 0 => Newest(Mirrors) > latest
    BY <1>0, <1>2 DEF ChooseMirror, SoundInv, DownloadAhead, NothingNewer,
         Typed
  <2> QED
    BY <1>0, <2>2, <2>3, <2>4, NewestSame
       DEF SoundInv, NothingNewer, LatestComplete, DownloadAhead,
           RemovesOthers, Fetching, Published, Payload, Written
<1>3. CASE CreateTemp
  <2>1. /\ UNCHANGED <<offered, truncated, latest, pc, timestamp, toRemove>>
        /\ pc \in DOMAIN After
        /\ files' = files \cup {Temp(pc, timestamp, opened')}
    BY <1>3 DEF CreateTemp
  <2>2. /\ files \subseteq files'
        /\ \A f \in files' : f \in files \/ f.ts = timestamp
    BY <2>1 DEF Temp
  <2>3. timestamp <= timestamp
    BY DEF Typed
  <2> QED
    BY <2>1, <2>2, <2>3, NewestSame
       DEF SoundInv, NothingNewer, LatestComplete, DownloadAhead,
           RemovesOthers, After
<1>4. CASE RenameTemp
  <2>1. /\ UNCHANGED <<offered, latest, timestamp, toRemove>>
        /\ pc \in DOMAIN After
        /\ pc' = After[pc]
        /\ files' = (files \ {Temp(pc, timestamp, opened)})
                      \cup {File(pc, timestamp)}
    BY <1>4 DEF RenameTemp
  <2>2. truncated' = {}
    BY <1>4, FaultIsUnsound DEF RenameTemp, SoundInv, LatestComplete
  <2>3. /\ File(pc, timestamp) \in files'
        /\ \A f \in files' : f \in files \/ f.ts = timestamp
        /\ \A f \in files : f \in files' \/ (f.ts = timestamp /\ f.kind = pc)
    BY <2>1 DEF Temp, File
  <2>4. timestamp <= timestamp
    BY DEF Typed
  <2>5. NothingNewer'
    BY <2>1, <2>3, NewestSame DEF SoundInv, NothingNewer
  <2>6. LatestComplete'
    <3>1. pc \in Payload => timestamp > latest
      BY DEF SoundInv, DownloadAhead, Fetching
    <3>2. ASSUME NEW kind \in Payload, latest > 0
          PROVE  File(kind, latest) \in files'
      BY <2>1, <2>3, <3>1, <3>2
         DEF SoundInv, LatestComplete, File, Payload, After, Typed
    <3> QED
      BY <2>1, <2>2, <3>2 DEF LatestComplete
  <2>7. DownloadAhead'
    <3>1. \A f \in files' : f.ts <= timestamp
      BY <2>1, <2>3, <2>4
         DEF SoundInv, DownloadAhead, Fetching, Published, Payload, After
    <3>2. ASSUME pc \in Payload
          PROVE  /\ timestamp > latest
                 /\ \A kind \in Written[pc'] : File(kind, timestamp) \in files'
      <4>1. /\ timestamp > latest
            /\ \A kind \in Written[pc] : File(kind, timestamp) \in files
        BY <3>2 DEF SoundInv, DownloadAhead, Fetching
      <4>2. \A kind \in Written[pc] : File(kind, timestamp) \in files'
        BY <2>3, <3>2, <4>1 DEF Payload, Written, File
      <4>3. Written[pc'] = Written[pc] \cup {pc}
        BY <2>1, <3>2 DEF Payload, Written, After
      <4> QED
        BY <2>3, <4>1, <4>2, <4>3
    <3>3. CASE pc \in Payload
      <4>1. pc' \in Fetching /\ pc' \notin Published /\ pc' # "choose"
        BY <2>1, <3>3 DEF Payload, Fetching, Published, After
      <4> QED
        BY <2>1, <3>1, <3>2, <3>3, <4>1 DEF DownloadAhead
    <3>4. CASE pc = "dataTimestamp"
      <4>1. pc' = "removeOld"
        BY <2>1, <3>4 DEF After
      <4> QED
        BY <2>1, <3>1, <3>4, <4>1
           DEF SoundInv, DownloadAhead, Fetching, Published, Payload
    <3> QED
      BY <2>1, <3>3, <3>4 DEF Payload, After
  <2>8. RemovesOthers'
    <3>1. pc' # "remove"
      BY <2>1 DEF After
    <3> QED
      BY <3>1 DEF RemovesOthers
  <2> QED
    BY <2>5, <2>6, <2>7, <2>8 DEF SoundInv
<1>5. CASE WriteTimestamp
  <2>1. /\ UNCHANGED <<offered, files, truncated, latest, timestamp, toRemove>>
        /\ pc = "timestamp"
        /\ pc' = "latest"
    BY <1>5 DEF WriteTimestamp
  <2> QED
    BY <2>1, NewestSame
       DEF SoundInv, NothingNewer, LatestComplete, DownloadAhead,
           RemovesOthers, Fetching, Published, Payload, Written
<1>6. CASE WriteLatest
  <2>1. /\ UNCHANGED <<offered, files, truncated, timestamp, toRemove>>
        /\ pc = "latest"
        /\ pc' = "dataTimestamp"
        /\ latest' = timestamp
    BY <1>6 DEF WriteLatest
  <2> QED
    BY <2>1, NewestSame
       DEF SoundInv, NothingNewer, LatestComplete, DownloadAhead,
           RemovesOthers, Fetching, Published, Payload, Written
<1>7. CASE DownloadFails
  <2>1. /\ UNCHANGED <<offered, files, truncated, latest, timestamp>>
        /\ toRemove' = FilesOf(timestamp)
        /\ pc' \in {"idle", "remove"}
    BY <1>7 DEF DownloadFails
  <2>2. pc \in {"settings", "data"}
    BY <1>7, FaultIsUnsound DEF DownloadFails, DownloadError
  <2>3. timestamp > latest
    BY <2>2 DEF SoundInv, DownloadAhead, Fetching, Payload
  <2>4. \A f \in toRemove' : f.ts # latest'
    BY <2>1, <2>3 DEF FilesOf, Typed
  <2> QED
    BY <2>1, <2>4, NewestSame
       DEF SoundInv, NothingNewer, LatestComplete, DownloadAhead,
           RemovesOthers, Fetching, Published, Payload
<1>8. CASE RemoveOldFiles
  <2>1. /\ UNCHANGED <<offered, files, truncated, latest, timestamp>>
        /\ pc = "removeOld"
        /\ toRemove' = OldFiles
        /\ pc' \in {"idle", "remove"}
    BY <1>8 DEF RemoveOldFiles
  <2>2. ASSUME NEW f \in OldFiles
        PROVE  f.ts # latest
    <3>1. PICK g \in files : f \in files /\ g.ts > f.ts
      BY DEF OldFiles
    <3>2. g.ts <= latest
      BY <2>1 DEF SoundInv, DownloadAhead, Published
    <3> QED
      BY <3>1, <3>2 DEF Typed
  <2> QED
    BY <2>1, <2>2, NewestSame
       DEF SoundInv, NothingNewer, LatestComplete, DownloadAhead,
           RemovesOthers, Fetching, Published, Payload
<1>9. CASE RemoveFile
  <2>1. PICK r \in toRemove : files \ {r} \subseteq files'
    BY <1>9 DEF RemoveFile
  <2>2. /\ UNCHANGED <<offered, truncated, latest, timestamp>>
        /\ pc = "remove"
        /\ toRemove' \subseteq toRemove
        /\ files' \subseteq files
        /\ pc' \in {"idle", "remove"}
    BY <1>9 DEF RemoveFile
  <2>3. r.ts # latest
    BY <2>2 DEF SoundInv, RemovesOthers
  <2>4. \A kind \in Payload : File(kind, latest) # r
    BY <2>3 DEF File
  <2>5. LatestComplete'
    BY <2>1, <2>2, <2>4 DEF SoundInv, LatestComplete
  <2> QED
    BY <2>2, <2>5, NewestSame
       DEF SoundInv, NothingNewer, DownloadAhead,
           RemovesOthers, Fetching, Published, Payload
<1>10. CASE Crash
  <2>1. /\ UNCHANGED <<offered, files, truncated, latest>>
        /\ timestamp' = 0
        /\ pc' = "idle"
    BY <1>10 DEF Crash
  <2> QED
    BY <1>0, <2>1, NewestSame
       DEF SoundInv, NothingNewer, LatestComplete, DownloadAhead,
           RemovesOthers, Fetching, Published, Payload
<1>11. ASSUME NEW m \in Mirrors, Offer(m)
       PROVE  SoundInv'
  <2>1. UNCHANGED <<files, truncated, latest, pc, timestamp, toRemove>>
    BY <1>11 DEF Offer
  <2>2. Newest(Mirrors) <= Newest(Mirrors)'
    BY <1>11, NewestGrows
  <2>3. Newest(Mirrors)' \in 0 .. MaxTimestamp
    <3>1. offered' \in [Mirrors -> 0 .. MaxTimestamp]
      BY <1>11 DEF Offer, Typed
    <3> QED
      BY <3>1, NewestIsMax DEF Newest, Answers
  <2>4. NothingNewer'
    BY <1>0, <2>1, <2>2, <2>3 DEF SoundInv, NothingNewer, Typed
  <2>5. pc = "choose" => Newest(Mirrors)' # latest \/ Newest(Mirrors)' = 0
    BY <1>0, <2>2, <2>3 DEF SoundInv, NothingNewer, DownloadAhead, Typed
  <2> QED
    BY <2>1, <2>4, <2>5
       DEF SoundInv, LatestComplete, DownloadAhead, RemovesOthers
<1>12. CASE UNCHANGED vars
  BY <1>12, NewestSame
     DEF vars, SoundInv, NothingNewer, LatestComplete, DownloadAhead,
         RemovesOthers
<1> QED
  BY <1>1, <1>2, <1>3, <1>4, <1>5, <1>6, <1>7, <1>8, <1>9, <1>10, <1>11,
     <1>12 DEF Next, Step

LEMMA Invariance == Spec => []IInv
<1>1. IInv /\ [Next]_vars => IInv'
  BY NextTyped, NextSoundInv, SoundBefore DEF IInv
<1> QED
  BY InitIInv, <1>1, PTL DEF Spec

-----------------------------------------------------------------------------
(* The theorems *)

\* As long as every mirror answers and the disk takes every write, no kill,
\* failed fetch or failed removal leaves the latest timestamp naming a data
\* file that is missing or cut short.
THEOREM LatestAlwaysSound == Spec => []LatestSound
<1>1. IInv => LatestSound
  BY DEF IInv, SoundInv, LatestComplete, LatestSound, LatestNamesData, Whole,
         Payload
<1> QED
  BY Invariance, <1>1, PTL

\* Under the same faults the latest timestamp never goes back.
THEOREM LatestAlwaysAdvances == Spec => LatestAdvances
<1>1. ASSUME IInv, [Next]_vars, Sound', latest' # latest
      PROVE  latest' >= latest
  <2>1. WriteLatest
    BY <1>1 DEF Next, Step, StartRun, ChooseMirror, CreateTemp, RenameTemp,
         WriteTimestamp, RemoveOldFiles, RemoveFile, DownloadFails, Crash,
         Offer, vars
  <2>2. SoundInv
    BY <1>1, SoundBefore DEF IInv
  <2> QED
    BY <1>1, <2>1, <2>2, DownloaderAssumption
       DEF WriteLatest, IInv, Typed, SoundInv, DownloadAhead, Fetching
<1>2. IInv /\ [Next]_vars => [Sound' => latest' >= latest]_latest
  BY <1>1
<1> QED
  BY Invariance, <1>2, PTL DEF Spec, LatestAdvances

-----------------------------------------------------------------------------
(* The CacheReader *)

UpdaterStates ==
  [pc : {"new", "waiting", "stopped"}]
    \cup [pc : {"update", "initialize", "publish"}, ts : Timestamps,
          from : {"first", "pinned", "loop"}]

LookupStates ==
  [pc : {"idle"}]
    \cup [pc : {"call", "answered", "garbage", "uninitialized"},
          ts : 0 .. MaxTimestamp]

DeleterStates == {"idle", "reset", "free", "nil", "close", "returned"}

\* TypeOK with the fields that a goroutine has at each of its places.
ReaderTyped ==
  /\ handle \in {"object", "nil"}
  /\ object \in 0 .. MaxTimestamp
  /\ freed \in BOOLEAN
  /\ mostRecent \in 0 .. MaxTimestamp
  /\ stopClosed \in Nat
  /\ deleteOnce \in {"todo", "running", "done"}
  /\ updater \in UpdaterStates
  /\ lookup \in [Lookups -> LookupStates]
  /\ deleter \in [Deleters -> DeleterStates]
  /\ latest \in 0 .. MaxTimestamp
  /\ crashed \in BOOLEAN

\* The caller that deleteOnce lets in is the only one inside Delete, and what
\* it has done so far can be read off the handle, the object and the channel.
DeleteInOrder ==
  /\ deleteOnce = "todo" =>
       /\ \A d \in Deleters : deleter[d] = "idle"
       /\ stopClosed = 0
       /\ ~freed
       /\ handle = "object"
  /\ deleteOnce = "running" =>
       /\ stopClosed = 0
       /\ \E d \in Deleters :
            /\ deleter[d] \in {"reset", "free", "nil", "close"}
            /\ \A e \in Deleters \ {d} : deleter[e] = "idle"
  /\ deleteOnce = "done" =>
       /\ \A d \in Deleters : deleter[d] \in {"idle", "returned"}
       /\ stopClosed = 1

\* Until Delete is called, the timestamp in use is not ahead of the file that
\* is loaded, and an Update under way is about a newer one.
LoadingAhead ==
  deleteOnce = "todo" =>
    /\ mostRecent <= object
    /\ \A l \in Lookups :
         lookup[l].pc # "idle" => lookup[l].ts <= mostRecent
    /\ updater.pc \in {"update", "initialize", "publish"} =>
         updater.ts > mostRecent
    /\ updater.pc = "publish" => object = updater.ts
    /\ ~Constructed => mostRecent = 0

ReaderInv == ReaderTyped /\ DeleteInOrder /\ LoadingAhead

-----------------------------------------------------------------------------
(* The inductive invariant *)

LEMMA ReaderTypedTypeOK == ReaderTyped => ReaderTypeOK
BY DEF ReaderTyped, ReaderTypeOK, UpdaterStates, LookupStates, DeleterStates

LEMMA InitReaderInv == ReaderInit => ReaderInv
<1> SUFFICES ASSUME ReaderInit PROVE ReaderInv
  OBVIOUS
<1>1. [pc |-> "idle"] \in LookupStates
  BY DEF LookupStates
<1>2. updater \in UpdaterStates
  BY DEF ReaderInit, UpdaterStates
<1>3. ReaderTyped
  <2>1. lookup \in [Lookups -> LookupStates]
    BY <1>1 DEF ReaderInit
  <2>2. deleter \in [Deleters -> DeleterStates]
    BY DEF ReaderInit, DeleterStates
  <2>3. freed \in BOOLEAN /\ crashed \in BOOLEAN
    BY DEF ReaderInit
  <2> QED
    BY <1>2, <2>1, <2>2, <2>3, GoReaderAssumption DEF ReaderInit,
       ReaderTyped
<1>4. DeleteInOrder
  BY Zenon DEF ReaderInit, DeleteInOrder
<1>5. LoadingAhead
  BY GoReaderAssumption DEF ReaderInit, LoadingAhead
<1> QED
  BY <1>3, <1>4, <1>5 DEF ReaderInv

LEMMA NextReaderTyped == ReaderTyped /\ [ReaderNext]_readerVars
   => ReaderTyped'
<1> SUFFICES ASSUME ReaderTyped, [ReaderNext]_readerVars PROVE ReaderTyped'
  OBVIOUS
<1> USE GoReaderAssumption DEF ReaderTyped
<1>1. CASE UpdaterStep
  <2> USE DEF UpdaterStates
  <2>1. CASE NewFails \/ StopUpdater
    BY <2>1 DEF NewFails, StopUpdater
  <2>2. CASE NewCacheReader
    BY <2>2 DEF NewCacheReader, Call, Timestamps
  <2>3. CASE CheckForNewFiles
    BY <2>3 DEF CheckForNewFiles, Call, Timestamps
  <2>4. CASE UpdateNilHandle
    BY <2>4 DEF UpdateNilHandle, AfterUpdate
  <2>5. CASE UpdateHandleSet
    BY <2>5 DEF UpdateHandleSet
  <2>6. CASE Initialize
    BY <2>6 DEF Initialize, AfterUpdate, Timestamps
  <2>7. CASE InitializeFreed
    <3>1. crashed' \in BOOLEAN
      BY <2>7 DEF InitializeFreed
    <3>2. updater' \in UpdaterStates
      BY <2>7 DEF InitializeFreed, AfterUpdate
    <3> QED
      BY <2>7, <3>1, <3>2 DEF InitializeFreed
  <2>8. CASE Publish
    BY <2>8 DEF Publish, AfterUpdate, Timestamps
  <2> QED
    BY <1>1, <2>1, <2>2, <2>3, <2>4, <2>5, <2>6, <2>7, <2>8 DEF
       UpdaterStep
<1>2. ASSUME NEW d \in Deleters, EnterDelete(d)
      PROVE  ReaderTyped'
  BY <1>2 DEF EnterDelete, DeleterStates
<1>3. ASSUME NEW d \in Deleters, DeleteStep(d)
      PROVE  ReaderTyped'
  <2>1. CASE ResetTimestamp(d)
    BY <2>1 DEF ResetTimestamp, DeleterStates
  <2>2. CASE DeleteCppObject(d)
    BY <2>2 DEF DeleteCppObject, DeleterStates
  <2>3. CASE ClearHandle(d)
    BY <2>3 DEF ClearHandle, DeleterStates
  <2>4. CASE CloseStop(d)
    BY <2>4 DEF CloseStop, DeleterStates
  <2> QED
    BY <1>3, <2>1, <2>2, <2>3, <2>4 DEF DeleteStep
<1>4. ASSUME NEW l \in Lookups, StartLookup(l) \/ LookupStep(l)
      PROVE  ReaderTyped'
  <2>1. CASE StartLookup(l)
    BY <2>1 DEF StartLookup, LookupStates
  <2>2. CASE CallObject(l)
    BY <2>2 DEF CallObject, LookupStates
  <2>3. CASE CallFreed(l)
    BY <2>3 DEF CallFreed, LookupStates
  <2>4. CASE LeaveLookup(l)
    BY <2>4 DEF LeaveLookup, LookupStates
  <2> QED
    BY <1>4, <2>1, <2>2, <2>3, <2>4 DEF LookupStep
<1>5. CASE NewFile
  BY <1>5 DEF NewFile
<1>6. CASE UNCHANGED readerVars
  BY <1>6 DEF readerVars
<1> QED
  BY <1>1, <1>2, <1>3, <1>4, <1>5, <1>6 DEF ReaderNext

LEMMA NextDeleteInOrder ==
  ReaderTyped /\ DeleteInOrder /\ [ReaderNext]_readerVars => DeleteInOrder'
<1> SUFFICES ASSUME ReaderTyped, DeleteInOrder, [ReaderNext]_readerVars
   PROVE DeleteInOrder'
  OBVIOUS
<1>1. CASE UpdaterStep
  <2>1. UNCHANGED <<deleteOnce, deleter, stopClosed, freed, handle>>
    BY <1>1 DEF UpdaterStep, NewFails, NewCacheReader,
       CheckForNewFiles, UpdateNilHandle, UpdateHandleSet,
       Initialize, InitializeFreed, Publish,
       StopUpdater
  <2> QED
    BY <2>1 DEF DeleteInOrder
<1>2. ASSUME NEW d \in Deleters, EnterDelete(d)
      PROVE  DeleteInOrder'
  BY <1>2 DEF ReaderTyped, DeleteInOrder, EnterDelete, DeleterStates
<1>3. ASSUME NEW d \in Deleters, DeleteStep(d)
      PROVE  DeleteInOrder'
  <2>1. deleter[d] \in {"reset", "free", "nil", "close"}
    BY <1>3 DEF DeleteStep, ResetTimestamp,
       DeleteCppObject, ClearHandle, CloseStop
  <2>2. /\ deleteOnce = "running"
        /\ stopClosed = 0
        /\ \A e \in Deleters \ {d} : deleter[e] = "idle"
    BY <2>1 DEF ReaderTyped, DeleteInOrder
  <2>3. CASE CloseStop(d)
    BY <2>2, <2>3 DEF ReaderTyped, DeleteInOrder, CloseStop
  <2>4. CASE \/ ResetTimestamp(d) \/ DeleteCppObject(d)
             \/ ClearHandle(d)
    <3>1. /\ deleteOnce' = "running"
          /\ stopClosed' = 0
          /\ deleter'[d] \in {"free", "nil", "close"}
          /\ \A e \in Deleters \ {d} : deleter'[e] = "idle"
      BY <2>2, <2>4 DEF ReaderTyped, ResetTimestamp,
         DeleteCppObject, ClearHandle
    <3> QED
      BY <3>1 DEF DeleteInOrder
  <2> QED
    BY <1>3, <2>3, <2>4 DEF DeleteStep
<1>4. ASSUME NEW l \in Lookups, StartLookup(l) \/ LookupStep(l)
      PROVE  DeleteInOrder'
  BY <1>4 DEF DeleteInOrder, StartLookup, LookupStep,
     CallObject, CallFreed, LeaveLookup
<1>5. CASE NewFile
  BY <1>5 DEF DeleteInOrder, NewFile
<1>6. CASE UNCHANGED readerVars
  BY <1>6 DEF DeleteInOrder, readerVars
<1> QED
  BY <1>1, <1>2, <1>3, <1>4, <1>5, <1>6 DEF ReaderNext

LEMMA NextLoadingAhead == ReaderInv /\ [ReaderNext]_readerVars
   => LoadingAhead'
<1> SUFFICES ASSUME ReaderInv, [ReaderNext]_readerVars, deleteOnce' = "todo"
             PROVE  LoadingAhead'
  BY DEF LoadingAhead
<1>1. deleteOnce = "todo"
  BY DEF ReaderInv, ReaderTyped, ReaderNext, UpdaterStep,
     NewFails, NewCacheReader, CheckForNewFiles,
     UpdateNilHandle, UpdateHandleSet, Initialize,
     InitializeFreed, Publish, StopUpdater,
     EnterDelete, DeleteStep, ResetTimestamp,
     DeleteCppObject, ClearHandle, CloseStop,
     StartLookup, LookupStep, CallObject,
     CallFreed, LeaveLookup, NewFile, readerVars
<1>2. /\ \A d \in Deleters : deleter[d] = "idle"
      /\ ~freed
      /\ handle = "object"
  BY <1>1 DEF ReaderInv, DeleteInOrder
<1>3. CASE UpdaterStep
  <2> USE GoReaderAssumption DEF ReaderInv, ReaderTyped, LoadingAhead
  <2>1. CASE NewFails \/ StopUpdater
    BY <1>1, <2>1 DEF NewFails, StopUpdater, UpdaterStates,
       Constructed
  <2>2. CASE NewCacheReader
    BY <1>1, <2>2 DEF NewCacheReader, Call, Constructed,
       Timestamps
  <2>3. CASE CheckForNewFiles
    BY <1>1, <2>3 DEF CheckForNewFiles, Call, Constructed,
       UpdaterStates
  <2>4. CASE UpdateNilHandle \/ InitializeFreed
    BY <1>2, <2>4 DEF UpdateNilHandle, InitializeFreed
  <2>5. CASE UpdateHandleSet
    BY <1>1, <2>5 DEF UpdateHandleSet, Constructed, UpdaterStates
  <2>6. CASE Initialize
    <3>1. /\ updater.ts > mostRecent
          /\ updater.ts \in 0 .. MaxTimestamp
      BY <1>1, <2>6 DEF Initialize, UpdaterStates, Timestamps
    <3> QED
      BY <1>1, <2>6, <3>1 DEF Initialize, AfterUpdate,
         Constructed, UpdaterStates, LookupStates
  <2>7. CASE Publish
    <3>1. /\ updater.ts > mostRecent
          /\ updater.ts \in 0 .. MaxTimestamp
          /\ object = updater.ts
      BY <1>1, <2>7 DEF Publish, UpdaterStates, Timestamps
    <3>2. \A l \in Lookups :
            lookup[l].pc # "idle" => lookup[l].ts \in 0 .. MaxTimestamp
      BY DEF LookupStates
    <3> QED
      BY <1>1, <2>7, <3>1, <3>2 DEF Publish, AfterUpdate,
         Constructed, UpdaterStates
  <2> QED
    BY <1>3, <2>1, <2>2, <2>3, <2>4, <2>5, <2>6, <2>7 DEF UpdaterStep
<1>4. ASSUME NEW d \in Deleters, EnterDelete(d) \/ DeleteStep(d)
      PROVE  LoadingAhead'
  BY <1>1, <1>2, <1>4 DEF EnterDelete, DeleteStep,
     ResetTimestamp, DeleteCppObject, ClearHandle,
     CloseStop
<1>5. ASSUME NEW l \in Lookups, StartLookup(l) \/ LookupStep(l)
      PROVE  LoadingAhead'
  <2>1. UNCHANGED <<mostRecent, object, updater>>
    BY <1>5 DEF StartLookup, LookupStep, CallObject,
       CallFreed, LeaveLookup
  <2>2. ASSUME NEW k \in Lookups, lookup'[k].pc # "idle"
        PROVE  lookup'[k].ts <= mostRecent
    BY <1>1, <1>5, <2>2 DEF ReaderInv, ReaderTyped, LoadingAhead,
       StartLookup, LookupStep, CallObject,
       CallFreed, LeaveLookup, LookupStates
  <2> QED
    BY <1>1, <2>1, <2>2 DEF ReaderInv, LoadingAhead, Constructed
<1>6. CASE NewFile
  BY <1>1, <1>6 DEF ReaderInv, LoadingAhead, NewFile, Constructed
<1>7. CASE UNCHANGED readerVars
  BY <1>1, <1>7 DEF ReaderInv, LoadingAhead, readerVars, Constructed
<1> QED
  BY <1>3, <1>4, <1>5, <1>6, <1>7 DEF ReaderNext

LEMMA ReaderInvariance == ReaderSpec => []ReaderInv
<1>1. ReaderInv /\ [ReaderNext]_readerVars => ReaderInv'
  BY NextReaderTyped, NextDeleteInOrder, NextLoadingAhead DEF ReaderInv
<1> QED
  BY InitReaderInv, <1>1, PTL DEF ReaderSpec

-----------------------------------------------------------------------------
(* The theorems *)

\* Every goroutine stays within its places and every timestamp within its
\* bounds.
THEOREM ReaderTypeCorrect == ReaderSpec => []ReaderTypeOK
<1>1. ReaderInv => ReaderTypeOK
  BY ReaderTypedTypeOK DEF ReaderInv
<1> QED
  BY ReaderInvariance, <1>1, PTL

\* However many goroutines call Delete at the same time, close(c.Stop) runs
\* once, and has run before any of them returns.
THEOREM StopAlwaysClosedOnce == ReaderSpec => []StopClosedOnce
<1>1. ReaderInv => StopClosedOnce
  BY DEF ReaderInv, ReaderTyped, DeleteInOrder, StopClosedOnce
<1> QED
  BY ReaderInvariance, <1>1, PTL

\* Before Delete, a lookup that isInitialized lets pass meets a live object
\* that has loaded the file of the timestamp it saw, or a newer one.
THEOREM TimestampAlwaysBacked == ReaderSpec => []TimestampBacked
<1>1. ASSUME ReaderInv, deleteOnce = "todo"
      PROVE  /\ ~freed
             /\ mostRecent <= object
             /\ \A l \in Lookups : lookup[l].pc = "call" =>
                                     lookup[l].ts <= object
  <2>1. ASSUME NEW l \in Lookups, lookup[l].pc = "call"
        PROVE  lookup[l].ts <= object
    <3>1. lookup[l].ts \in Nat /\ lookup[l].ts <= mostRecent
      BY <1>1, <2>1, GoReaderAssumption DEF ReaderInv, ReaderTyped,
         LoadingAhead, LookupStates
    <3> QED
      BY <1>1, <3>1, GoReaderAssumption DEF ReaderInv, ReaderTyped,
         LoadingAhead
  <2> QED
    BY <1>1, <2>1 DEF ReaderInv, DeleteInOrder, LoadingAhead
<1>2. ReaderInv => TimestampBacked
  BY <1>1 DEF TimestampBacked
<1> QED
  BY ReaderInvariance, <1>2, PTL

\* No step takes the timestamp in use back before Delete is called, whatever
\* becomes of the latest timestamp on disk and whichever Update fails.
THEOREM TimestampAlwaysAdvances == ReaderSpec => TimestampAdvances
<1> DEFINE Advance == mostRecent' # mostRecent /\ deleteOnce = "todo" =>
                        mostRecent' > mostRecent /\ deleteOnce' = "todo"
<1>1. ASSUME ReaderInv, [ReaderNext]_readerVars, mostRecent' # mostRecent,
             deleteOnce = "todo"
      PROVE  mostRecent' > mostRecent /\ deleteOnce' = "todo"
  <2>1. \A d \in Deleters : deleter[d] = "idle"
    BY <1>1 DEF ReaderInv, DeleteInOrder
  <2>2. Publish
    BY <1>1, <2>1 DEF ReaderNext, UpdaterStep, NewFails,
       NewCacheReader, CheckForNewFiles, UpdateNilHandle,
       UpdateHandleSet, Initialize, InitializeFreed,
       StopUpdater, EnterDelete, DeleteStep,
       ResetTimestamp, DeleteCppObject, ClearHandle,
       CloseStop, StartLookup, LookupStep,
       CallObject, CallFreed, LeaveLookup, NewFile,
       readerVars
  <2> QED
    BY <1>1, <2>2 DEF ReaderInv, LoadingAhead, Publish
<1>2. ReaderInv /\ [ReaderNext]_readerVars => [Advance]_readerVars
  BY <1>1
<1> QED
  BY ReaderInvariance, <1>2, PTL DEF ReaderSpec, TimestampAdvances

\* The handle is gone, the timestamp reset, and no Update has passed the test
\* of the handle that would publish another one.
ReaderClosed ==
  /\ handle = "nil"
  /\ updater.pc \in {"waiting", "stopped", "update"}
  /\ mostRecent = 0

\* Once Delete has cleared the handle and no Update is under way that could
\* still publish, the timestamp stays reset and lookups keep failing.
THEOREM DeleteAlwaysFinal == ReaderSpec => DeleteIsFinal
<1>1. ReaderTyped /\ ReaderClosed /\ [ReaderNext]_readerVars => ReaderClosed'
  <2> SUFFICES ASSUME ReaderTyped, ReaderClosed,
     [ReaderNext]_readerVars PROVE ReaderClosed'
    OBVIOUS
  <2>1. CASE UpdaterStep
    BY <2>1 DEF ReaderClosed, UpdaterStep, NewFails,
       NewCacheReader, CheckForNewFiles, UpdateNilHandle,
       UpdateHandleSet, Initialize, InitializeFreed,
       Publish, StopUpdater, AfterUpdate, Call
  <2>2. CASE ~UpdaterStep
    BY <2>2 DEF ReaderClosed, ReaderNext, EnterDelete,
       DeleteStep, ResetTimestamp, DeleteCppObject,
       ClearHandle, CloseStop, StartLookup,
       LookupStep, CallObject, CallFreed,
       LeaveLookup, NewFile, readerVars
  <2> QED
    BY <2>1, <2>2
<1>2. ReaderInv => ReaderTyped
  BY DEF ReaderInv
<1>3. /\ handle = "nil"
      /\ updater.pc \in {"waiting", "stopped"}
      /\ mostRecent = 0
      => ReaderClosed
  BY DEF ReaderClosed
<1>4. ReaderClosed => mostRecent = 0
  BY DEF ReaderClosed
<1> QED
  BY ReaderInvariance, <1>1, <1>2, <1>3, <1>4, PTL DEF ReaderSpec,
     DeleteIsFinal

=============================================================================
