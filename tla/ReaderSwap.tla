----------------------------- MODULE ReaderSwap -----------------------------
(***************************************************************************)
(* The C++ object behind a reader handle: one thread loads new cache files *)
(* with initializeReader while other threads look keys up, without a lock. *)
(*                                                                         *)
(* The object keeps one shared_ptr per cache family and mCacheType, the    *)
(* type of the file read last, which selects the pointer a lookup uses.    *)
(* The type is assigned before the file is loaded, the pointer is swapped  *)
(* after it, and the last owner of a cache unmaps it.                      *)
(*                                                                         *)
(* A file is known by its generation, the rank of its timestamp.  What a   *)
(* lookup computes from a cache is the subject of LinearProbeCache; here a *)
(* lookup is answered by a generation, or by none.                         *)
(***************************************************************************)
EXTENDS Naturals, FiniteSets, FiniteSetsExt

CONSTANTS
  Threads,        \* the threads that look keys up
  MaxGeneration,  \* bound: the number of files
  FileType,       \* [1 .. MaxGeneration -> CacheTypes]: header.cacheType
  Operations       \* the lookups the threads make

Generations == 1 .. MaxGeneration

CacheTypes == {"BUCKET_CHAIN", "LINEAR_PROBE", "LINEAR_PROBE_DEDUP",
               "LINEAR_PROBE_DEDUP_TYPED", "MAP", "NONE"}

Families == {"LinearProbe", "LinearProbeDedup", "BucketChain"}

\* The pointer that initializeReader stores to and every lookup loads from.
Family(type) ==
  CASE type = "LINEAR_PROBE" -> "LinearProbe"
    [] type \in {"LINEAR_PROBE_DEDUP", "LINEAR_PROBE_DEDUP_TYPED"} ->
         "LinearProbeDedup"
    [] type = "BUCKET_CHAIN" -> "BucketChain"
    [] OTHER -> "none"

\* The families each lookup is implemented for.
Supports ==
  [containsKey      |-> Families,
   getKey           |-> Families,
   getVectorKeyItem |-> Families \ {"BucketChain"},
   getVectorKeySize |-> Families \ {"BucketChain"},
   getLong          |-> Families \ {"BucketChain"},
   getInteger       |-> Families \ {"BucketChain"},
   getDouble        |-> Families \ {"BucketChain"},
   getBool          |-> Families \ {"BucketChain"},
   getVector        |-> Families \ {"BucketChain"},
   getFloatVector   |-> Families \ {"BucketChain"},
   getKeyType       |-> Families \ {"BucketChain"}]

ASSUME ReaderAssumption ==
  /\ IsFiniteSet(Threads)
  /\ MaxGeneration \in Nat
  /\ FileType \in [Generations -> CacheTypes]
  /\ Operations \subseteq DOMAIN Supports

VARIABLES
  cacheType,   \* mCacheType
  reader,      \* mReader...Cache: a generation per family, 0 for nullptr
  useCount,    \* the owners of every loaded cache; unmapped at zero
  updater,     \* where initializeReader is, with which generation
  installed,   \* the newest generation initializeReader has returned 0 for
  thread,      \* where every lookup is, and which cache it owns
  newest,       \* history: the newest generation installed or seen by a
                \* finished lookup
  familiesRead  \* history: the families of the headers read

historyVars == <<newest, familiesRead>>
vars == <<cacheType, reader, useCount, updater, installed, thread, historyVars>>

Idle == [pc |-> "idle"]

-----------------------------------------------------------------------------
(* initializeReader *)

\* The callers load newer files only: CacheReader.checkForNewFiles compares
\* timestamps before it calls Update.

\* The file cannot be opened or is shorter than a header: returns 1.
OpenFails(g) ==
  /\ updater.pc = "idle"
  /\ g > installed
  /\ updater' = [pc |-> "returned", gen |-> g, code |-> 1]
  /\ UNCHANGED <<cacheType, reader, useCount, installed, thread, historyVars>>

\* Mutant: the caches of the other families are released with the header,
\* before the file is known to load.
ReadHeaderResets(g) ==
  /\ updater.pc = "idle"
  /\ g > installed
  /\ cacheType' = FileType[g]
  /\ reader' = [f \in Families |->
       IF f = Family(FileType[g]) THEN reader[f] ELSE 0]
  /\ updater' = IF Family(FileType[g]) = "none"
                THEN [pc |-> "returned", gen |-> g, code |-> 0]
                ELSE [pc |-> "loading", gen |-> g]
  /\ familiesRead' = familiesRead \cup {Family(FileType[g])}
  /\ UNCHANGED <<useCount, installed, thread, newest>>

\* The header has been read; the type takes effect before the cache does.
ReadHeader(g) ==
  /\ updater.pc = "idle"
  /\ g > installed
  /\ cacheType' = FileType[g]
  /\ updater' = IF Family(FileType[g]) = "none"
                THEN [pc |-> "returned", gen |-> g, code |-> 0]
                ELSE [pc |-> "loading", gen |-> g]
  /\ familiesRead' = familiesRead \cup {Family(FileType[g])}
  /\ UNCHANGED <<reader, useCount, installed, thread, newest>>

\* loadAbsolutePath throws for a missing file or another version.
LoadThrows ==
  /\ updater.pc = "loading"
  /\ updater' = [pc |-> "returned", gen |-> updater.gen, code |-> 1]
  /\ UNCHANGED <<cacheType, reader, useCount, installed, thread, historyVars>>

\* loadMmap reports a failure by a null pointer that nobody checks: the cache
\* of a file that is gone by now is loaded like any other.
LoadMmap ==
  /\ updater.pc = "loading"
  /\ useCount' = [useCount EXCEPT ![updater.gen] = 1]
  /\ updater' = [pc |-> "loaded", gen |-> updater.gen]
  /\ UNCHANGED <<cacheType, reader, installed, thread, historyVars>>

\* Mutant: the replaced cache is not released.
AtomicStoreLeaking ==
  /\ updater.pc = "loaded"
  /\ LET f == Family(FileType[updater.gen])
     IN reader' = [reader EXCEPT ![f] = updater.gen]
  /\ updater' = [pc |-> "returned", gen |-> updater.gen, code |-> 0]
  /\ UNCHANGED <<cacheType, useCount, installed, thread, historyVars>>

\* std::atomic_store moves the loader's ownership into the object and gives
\* up the ownership of the cache that was there.
AtomicStore ==
  /\ updater.pc = "loaded"
  /\ LET f == Family(FileType[updater.gen])
         old == reader[f]
     IN /\ reader' = [reader EXCEPT ![f] = updater.gen]
        /\ useCount' = IF old = 0 THEN useCount
                       ELSE [useCount EXCEPT ![old] = @ - 1]
  /\ updater' = [pc |-> "returned", gen |-> updater.gen, code |-> 0]
  /\ UNCHANGED <<cacheType, installed, thread, historyVars>>

Return ==
  /\ updater.pc = "returned"
  /\ updater' = Idle
  /\ IF updater.code = 0
     THEN /\ installed' = updater.gen
          /\ newest' = Max({newest, updater.gen})
     ELSE UNCHANGED <<installed, newest>>
  /\ UNCHANGED <<cacheType, reader, useCount, thread, familiesRead>>

-----------------------------------------------------------------------------
(* A lookup *)

\* Mutant: a lookup uses the LINEAR_PROBE pointer whatever the type is.
ReadTypeInitial(t, op) ==
  /\ thread[t].pc = "idle"
  /\ thread' = [thread EXCEPT ![t] =
       IF "LinearProbe" \in Supports[op]
       THEN [pc |-> "typed", family |-> "LinearProbe", floor |-> newest]
       ELSE [pc |-> "answered", gen |-> 0, floor |-> 0]]
  /\ UNCHANGED <<cacheType, reader, useCount, updater, installed, historyVars>>

\* switch ( mCacheType ): an operation that is not implemented for the
\* family, and any operation on MAP and NONE, has the default answer.
ReadType(t, op) ==
  /\ thread[t].pc = "idle"
  /\ thread' = [thread EXCEPT ![t] =
       IF Family(cacheType) \in Supports[op]
       THEN [pc |-> "typed", family |-> Family(cacheType), floor |-> newest]
       ELSE [pc |-> "answered", gen |-> 0, floor |-> 0]]
  /\ UNCHANGED <<cacheType, reader, useCount, updater, installed, historyVars>>

\* Mutant: the pointer is read without taking ownership.
AtomicLoadRaw(t) ==
  /\ thread[t].pc = "typed"
  /\ LET g == reader[thread[t].family]
     IN thread' = [thread EXCEPT ![t] =
           IF g = 0
           THEN [pc |-> "answered", gen |-> 0, floor |-> thread[t].floor]
           ELSE [pc |-> "reading", gen |-> g, floor |-> thread[t].floor]]
  /\ UNCHANGED <<cacheType, reader, useCount, updater, installed, historyVars>>

\* std::atomic_load takes ownership; nullptr has the default answer.
AtomicLoad(t) ==
  /\ thread[t].pc = "typed"
  /\ LET g == reader[thread[t].family]
     IN IF g = 0
        THEN /\ thread' = [thread EXCEPT ![t] =
                  [pc |-> "answered", gen |-> 0, floor |-> thread[t].floor]]
             /\ UNCHANGED useCount
        ELSE /\ thread' = [thread EXCEPT ![t] =
                  [pc |-> "reading", gen |-> g, floor |-> thread[t].floor]]
             /\ useCount' = [useCount EXCEPT ![g] = @ + 1]
  /\ UNCHANGED <<cacheType, reader, updater, installed, historyVars>>

\* The value is copied out of the mapping before the ownership ends.
FinishRead(t) ==
  /\ thread[t].pc = "reading"
  /\ thread' = [thread EXCEPT ![t].pc = "answered"]
  /\ useCount' = [useCount EXCEPT ![thread[t].gen] = @ - 1]
  /\ newest' = Max({newest, thread[t].gen})
  /\ UNCHANGED <<cacheType, reader, updater, installed, familiesRead>>

LeaveLookup(t) ==
  /\ thread[t].pc = "answered"
  /\ thread' = [thread EXCEPT ![t] = Idle]
  /\ UNCHANGED <<cacheType, reader, useCount, updater, installed, historyVars>>

-----------------------------------------------------------------------------

Init ==
  /\ cacheType = "LINEAR_PROBE_DEDUP"
  /\ reader = [f \in Families |-> 0]
  /\ useCount = [g \in Generations |-> 0]
  /\ updater = Idle
  /\ installed = 0
  /\ thread = [t \in Threads |-> Idle]
  /\ newest = 0
  /\ familiesRead = {}

Update ==
  \/ \E g \in Generations : OpenFails(g) \/ ReadHeader(g)
  \/ LoadThrows
  \/ LoadMmap
  \/ AtomicStore
  \/ Return

LookupStep(t) == AtomicLoad(t) \/ FinishRead(t) \/ LeaveLookup(t)

Next ==
  \/ Update
  \/ \E t \in Threads :
       LookupStep(t) \/ \E op \in Operations : ReadType(t, op)

\* A lookup that has begun finishes: its probe ends, and it never waits.
Fairness == \A t \in Threads : WF_vars(LookupStep(t))

Spec == Init /\ [][Next]_vars /\ Fairness

-----------------------------------------------------------------------------
(* Properties *)

\* Every variable has its type.
TypeOK ==
  /\ cacheType \in CacheTypes
  /\ reader \in [Families -> 0 .. MaxGeneration]
  /\ useCount \in [Generations -> 0 .. Cardinality(Threads) + 1]
  /\ updater.pc \in {"idle", "loading", "loaded", "returned"}
  /\ installed \in 0 .. MaxGeneration
  /\ newest \in 0 .. MaxGeneration
  /\ familiesRead \subseteq Families \cup {"none"}
  /\ \A t \in Threads :
       thread[t].pc \in {"idle", "typed", "reading", "answered"}

\* The cache a lookup reads from is not destroyed before the lookup ends,
\* whatever files initializeReader reads meanwhile, and however it fails.
OwnedWhileRead ==
  \A t \in Threads :
    thread[t].pc = "reading" => useCount[thread[t].gen] > 0

\* The files keep to one family: those that a writer produces for one name
\* with one configuration, of which only the typed flag may change.
OneFamily == \E f \in Families : familiesRead \subseteq {f}

\* README.md:18, "a new cache can be swapped from the previous one
\* transparently": as long as the files are of one family, once
\* initializeReader has returned for a cache, or a lookup was answered from
\* it, every lookup that starts later is answered from that cache or a newer
\* one, and never by the default answer, however many loads fail.
TransparentSwap ==
  OneFamily =>
    \A t \in Threads :
      thread[t].pc = "answered" => thread[t].gen >= thread[t].floor

\* The pointer that the file installed last was stored to.
InstalledFamily == Family(FileType[installed])

\* A failed initializeReader does not drop the cache that was installed, for
\* files of any families: the pointer it was stored to holds it, or a newer
\* one of its family.  Lookups use that pointer, unless mCacheType was
\* assigned (CacheReaderCApi.cpp:116) from the header of a newer file of
\* another family, whose load is under way, has failed or is about to return.
InstalledIsServed ==
  installed > 0 /\ InstalledFamily \in Families =>
    /\ reader[InstalledFamily] >= installed
    /\ \/ Family(cacheType) = InstalledFamily
       \/ \E g \in Generations : g > installed /\ cacheType = FileType[g]

\* A newer cache of its family has been installed in its place.
Replaced(g) ==
  \E f \in Families : Family(FileType[g]) = f /\ reader[f] > g

\* A cache that has been replaced is unmapped once the lookups that own it
\* have finished: nothing else keeps it mapped.
ReplacedIsUnmapped ==
  \A g \in Generations : Replaced(g) ~> useCount[g] = 0

=============================================================================
