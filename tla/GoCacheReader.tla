---------------------------- MODULE GoCacheReader ---------------------------
(***************************************************************************)
(* The Go CacheReader around the C++ reader object: NewCacheReader loads   *)
(* the first file and starts a goroutine that looks for newer ones; lookup *)
(* goroutines and callers of Delete run at the same time, without a lock.  *)
(*                                                                         *)
(* What the goroutines share is c.Handle, the object it points to,         *)
(* MostRecentFileTimestamp (atomic) and the channel Stop.  A cgo call      *)
(* through a nil handle kills the process; through the handle of a freed   *)
(* object its effect is undefined, and the model lets the process die or   *)
(* go on.  The swap inside the object is the subject of ReaderSwap; here   *)
(* the object holds the newest timestamp it has loaded.                    *)
(***************************************************************************)
EXTENDS LatestTimestamp

CONSTANTS
  Lookups,         \* the goroutines that look keys up
  Deleters         \* the goroutines that call Delete

ASSUME GoReaderAssumption == MaxTimestamp \in Nat

VARIABLES
  handle,          \* c.Handle: "object" or "nil"
  object,          \* the timestamp of the file the C++ object has loaded
  freed,           \* the C++ object has been deleted
  mostRecent,      \* c.MostRecentFileTimestamp
  stopClosed,      \* how often close(c.Stop) was called
  deleteOnce,      \* c.deleteOnce: "todo", "running" or "done"
  updater,         \* the goroutine of checkForNewFiles, at first its creator
  lookup,          \* where every lookup is
  deleter,         \* where every call of Delete is
  crashed          \* the process is dead

readerVars == <<handle, object, freed, mostRecent, stopClosed, deleteOnce,
                updater, lookup, deleter, latest, crashed>>

-----------------------------------------------------------------------------
(* The updater: NewCacheReader, then the loop of checkForNewFiles *)

\* Where Update has been called from, and with which timestamp: "first" is
\* the call of NewCacheReader, "pinned" when options.Timestamp is set.
Call(ts, from) == [pc |-> "update", ts |-> ts, from |-> from]

\* An error of the first download, or of the latest timestamp: the caller
\* gets an error and a reader without a goroutine.
NewFails ==
  /\ ~crashed
  /\ updater.pc = "new"
  /\ updater' = [pc |-> "stopped"]
  /\ UNCHANGED <<handle, object, freed, mostRecent, stopClosed, deleteOnce,
                 lookup, deleter, latest, crashed>>

NewCacheReader ==
  /\ ~crashed
  /\ updater.pc = "new"
  /\ \/ latest > 0 /\ updater' = Call(latest, "first")
     \/ \E ts \in Timestamps : updater' = Call(ts, "pinned")
  /\ UNCHANGED <<handle, object, freed, mostRecent, stopClosed, deleteOnce,
                 lookup, deleter, latest, crashed>>

\* select: case <-time.After, then maybeDownload, getLatestTimestamp and the
\* comparison with the timestamp in use.
CheckForNewFiles ==
  /\ ~crashed
  /\ updater.pc = "waiting"
  /\ latest > mostRecent
  /\ updater' = Call(latest, "loop")
  /\ UNCHANGED <<handle, object, freed, mostRecent, stopClosed, deleteOnce,
                 lookup, deleter, latest, crashed>>

\* Where Update returns to; there is no goroutine for a pinned timestamp, and
\* none when the first Update fails.
AfterUpdate(failed) ==
  [pc |-> IF updater.from = "pinned" \/ (failed /\ updater.from = "first")
          THEN "stopped" ELSE "waiting"]

\* Mutant: the error of a nil handle is passed over.
UpdateNilHandlePublishing ==
  /\ ~crashed
  /\ updater.pc = "update"
  /\ handle = "nil"
  /\ updater' = [updater EXCEPT !.pc = "publish"]
  /\ UNCHANGED <<handle, object, freed, mostRecent, stopClosed, deleteOnce,
                 lookup, deleter, latest, crashed>>

UpdateNilHandle ==
  /\ ~crashed
  /\ updater.pc = "update"
  /\ handle = "nil"
  /\ updater' = AfterUpdate(TRUE)
  /\ UNCHANGED <<handle, object, freed, mostRecent, stopClosed, deleteOnce,
                 lookup, deleter, latest, crashed>>

\* Mutant: the timestamp is stored before the file is loaded.
UpdateHandleSetPublishing ==
  /\ ~crashed
  /\ updater.pc = "update"
  /\ handle # "nil"
  /\ updater' = [updater EXCEPT !.pc = "initialize"]
  /\ mostRecent' = updater.ts
  /\ UNCHANGED <<handle, object, freed, stopClosed, deleteOnce, lookup,
                 deleter, latest, crashed>>

UpdateHandleSet ==
  /\ ~crashed
  /\ updater.pc = "update"
  /\ handle # "nil"
  /\ updater' = [updater EXCEPT !.pc = "initialize"]
  /\ UNCHANGED <<handle, object, freed, mostRecent, stopClosed, deleteOnce,
                 lookup, deleter, latest, crashed>>

\* CacheReader_Initialize reads c.Handle again.
Initialize ==
  /\ ~crashed
  /\ updater.pc = "initialize"
  /\ handle # "nil"
  /\ ~freed
  /\ \/ /\ object' = updater.ts
        /\ updater' = [updater EXCEPT !.pc = "publish"]
     \/ /\ UNCHANGED object
        /\ updater' = AfterUpdate(TRUE)
  /\ UNCHANGED <<handle, freed, mostRecent, stopClosed, deleteOnce, lookup,
                 deleter, latest, crashed>>

InitializeFreed ==
  /\ ~crashed
  /\ updater.pc = "initialize"
  /\ handle = "nil" \/ freed
  /\ \/ /\ crashed' = TRUE
        /\ UNCHANGED updater
     \/ /\ handle # "nil"
        /\ \/ updater' = [updater EXCEPT !.pc = "publish"]
           \/ updater' = AfterUpdate(TRUE)
        /\ UNCHANGED crashed
  /\ UNCHANGED <<handle, object, freed, mostRecent, stopClosed, deleteOnce,
                 lookup, deleter, latest>>

\* Mutant: an error of the callback takes the timestamp back.
PublishUndoing ==
  /\ ~crashed
  /\ updater.pc = "publish"
  /\ \/ mostRecent' = updater.ts /\ updater' = AfterUpdate(FALSE)
     \/ mostRecent' = 0 /\ updater' = AfterUpdate(TRUE)
  /\ UNCHANGED <<handle, object, freed, stopClosed, deleteOnce, lookup,
                 deleter, latest, crashed>>

\* StoreInt64, then the callback, whose error is only logged.
Publish ==
  /\ ~crashed
  /\ updater.pc = "publish"
  /\ mostRecent' = updater.ts
  /\ \/ updater' = AfterUpdate(FALSE)
     \/ updater' = AfterUpdate(TRUE)
  /\ UNCHANGED <<handle, object, freed, stopClosed, deleteOnce, lookup,
                 deleter, latest, crashed>>

\* Mutant: a break that leaves the select, and not the loop.
StopUpdaterBreaking ==
  /\ ~crashed
  /\ updater.pc = "waiting"
  /\ stopClosed > 0
  /\ UNCHANGED readerVars

\* select: case <-c.Stop.  When the timer has fired as well, select may
\* choose CheckForNewFiles instead.
StopUpdater ==
  /\ ~crashed
  /\ updater.pc = "waiting"
  /\ stopClosed > 0
  /\ updater' = [pc |-> "stopped"]
  /\ UNCHANGED <<handle, object, freed, mostRecent, stopClosed, deleteOnce,
                 lookup, deleter, latest, crashed>>

-----------------------------------------------------------------------------
(* Delete, which callers can reach once NewCacheReader has returned *)

Constructed ==
  /\ updater.pc # "new"
  /\ "from" \in DOMAIN updater => updater.from = "loop"

\* Mutant: no sync.Once.
EnterDeleteAlways(d) ==
  /\ ~crashed
  /\ deleter[d] = "idle"
  /\ Constructed
  /\ deleter' = [deleter EXCEPT ![d] = "reset"]
  /\ deleteOnce' = "running"
  /\ UNCHANGED <<handle, object, freed, mostRecent, stopClosed, updater,
                 lookup, latest, crashed>>

\* deleteOnce.Do runs the function once, and other callers wait for it.
EnterDelete(d) ==
  /\ ~crashed
  /\ deleter[d] = "idle"
  /\ Constructed
  /\ \/ /\ deleteOnce = "todo"
        /\ deleteOnce' = "running"
        /\ deleter' = [deleter EXCEPT ![d] = "reset"]
     \/ /\ deleteOnce = "done"
        /\ deleter' = [deleter EXCEPT ![d] = "returned"]
        /\ UNCHANGED deleteOnce
  /\ UNCHANGED <<handle, object, freed, mostRecent, stopClosed, updater,
                 lookup, latest, crashed>>

ResetTimestamp(d) ==
  /\ ~crashed
  /\ deleter[d] = "reset"
  /\ mostRecent' = 0
  /\ deleter' = [deleter EXCEPT ![d] = "free"]
  /\ UNCHANGED <<handle, object, freed, stopClosed, deleteOnce, updater,
                 lookup, latest, crashed>>

DeleteCppObject(d) ==
  /\ ~crashed
  /\ deleter[d] = "free"
  /\ freed' = TRUE
  /\ deleter' = [deleter EXCEPT ![d] = "nil"]
  /\ UNCHANGED <<handle, object, mostRecent, stopClosed, deleteOnce, updater,
                 lookup, latest, crashed>>

ClearHandle(d) ==
  /\ ~crashed
  /\ deleter[d] = "nil"
  /\ handle' = "nil"
  /\ deleter' = [deleter EXCEPT ![d] = "close"]
  /\ UNCHANGED <<object, freed, mostRecent, stopClosed, deleteOnce, updater,
                 lookup, latest, crashed>>

CloseStop(d) ==
  /\ ~crashed
  /\ deleter[d] = "close"
  /\ stopClosed' = stopClosed + 1
  /\ deleteOnce' = "done"
  /\ deleter' = [deleter EXCEPT ![d] = "returned"]
  /\ UNCHANGED <<handle, object, freed, mostRecent, updater, lookup, latest,
                 crashed>>

-----------------------------------------------------------------------------
(* Lookups *)

\* isInitialized
StartLookup(l) ==
  /\ ~crashed
  /\ lookup[l].pc = "idle"
  /\ Constructed
  /\ lookup' = [lookup EXCEPT ![l] =
       [pc |-> IF mostRecent > 0 THEN "call" ELSE "uninitialized",
        ts |-> mostRecent]]
  /\ UNCHANGED <<handle, object, freed, mostRecent, stopClosed, deleteOnce,
                 updater, deleter, latest, crashed>>

CallObject(l) ==
  /\ ~crashed
  /\ lookup[l].pc = "call"
  /\ handle # "nil"
  /\ ~freed
  /\ lookup' = [lookup EXCEPT ![l].pc = "answered"]
  /\ UNCHANGED <<handle, object, freed, mostRecent, stopClosed, deleteOnce,
                 updater, deleter, latest, crashed>>

CallFreed(l) ==
  /\ ~crashed
  /\ lookup[l].pc = "call"
  /\ handle = "nil" \/ freed
  /\ \/ /\ crashed' = TRUE
        /\ UNCHANGED lookup
     \/ /\ handle # "nil"
        /\ lookup' = [lookup EXCEPT ![l].pc = "garbage"]
        /\ UNCHANGED crashed
  /\ UNCHANGED <<handle, object, freed, mostRecent, stopClosed, deleteOnce,
                 updater, deleter, latest>>

LeaveLookup(l) ==
  /\ ~crashed
  /\ lookup[l].pc \in {"answered", "garbage", "uninitialized"}
  /\ lookup' = [lookup EXCEPT ![l] = [pc |-> "idle"]]
  /\ UNCHANGED <<handle, object, freed, mostRecent, stopClosed, deleteOnce,
                 updater, deleter, latest, crashed>>

-----------------------------------------------------------------------------

\* maybeDownload or another process changes the latest timestamp: to a newer
\* one, but also back to an older one (see Downloader), and to nothing that
\* can be parsed while the file is being written.
NewFile ==
  /\ ~crashed
  /\ latest' \in 0 .. MaxTimestamp
  /\ UNCHANGED <<handle, object, freed, mostRecent, stopClosed, deleteOnce,
                 updater, lookup, deleter, crashed>>

ReaderInit ==
  /\ handle = "object"
  /\ object = 0
  /\ freed = FALSE
  /\ mostRecent = 0
  /\ stopClosed = 0
  /\ deleteOnce = "todo"
  /\ updater = [pc |-> "new"]
  /\ lookup = [l \in Lookups |-> [pc |-> "idle"]]
  /\ deleter = [d \in Deleters |-> "idle"]
  /\ latest \in 0 .. MaxTimestamp
  /\ crashed = FALSE

UpdaterStep ==
  \/ NewFails
  \/ NewCacheReader
  \/ CheckForNewFiles
  \/ UpdateNilHandle
  \/ UpdateHandleSet
  \/ Initialize
  \/ InitializeFreed
  \/ Publish
  \/ StopUpdater

DeleteStep(d) ==
  \/ ResetTimestamp(d)
  \/ DeleteCppObject(d)
  \/ ClearHandle(d)
  \/ CloseStop(d)

LookupStep(l) == CallObject(l) \/ CallFreed(l) \/ LeaveLookup(l)

ReaderNext ==
  \/ UpdaterStep
  \/ \E d \in Deleters : EnterDelete(d) \/ DeleteStep(d)
  \/ \E l \in Lookups : StartLookup(l) \/ LookupStep(l)
  \/ NewFile

\* Goroutines that can run are scheduled.  select chooses among its ready
\* cases at random, so that the case of Stop is not passed over forever.
ReaderFairness ==
  /\ WF_readerVars(UpdaterStep)
  /\ SF_readerVars(StopUpdater)
  /\ \A d \in Deleters : WF_readerVars(DeleteStep(d))
  /\ \A l \in Lookups : WF_readerVars(LookupStep(l))

ReaderSpec == ReaderInit /\ [][ReaderNext]_readerVars /\ ReaderFairness

-----------------------------------------------------------------------------
(* Properties *)

\* Every variable has its type.
ReaderTypeOK ==
  /\ handle \in {"object", "nil"}
  /\ object \in 0 .. MaxTimestamp
  /\ freed \in BOOLEAN
  /\ mostRecent \in 0 .. MaxTimestamp
  /\ stopClosed \in Nat
  /\ deleteOnce \in {"todo", "running", "done"}
  /\ updater.pc \in {"new", "waiting", "update", "initialize", "publish",
                     "stopped"}
  /\ \A l \in Lookups : lookup[l].pc \in {"idle", "call", "answered",
                                         "garbage", "uninitialized"}
  /\ \A d \in Deleters : deleter[d] \in {"idle", "reset", "free", "nil",
                                         "close", "returned"}
  /\ latest \in 0 .. MaxTimestamp
  /\ crashed \in BOOLEAN

\* Until Delete is called, a timestamp that isInitialized accepts has been
\* loaded: a lookup that passed the test is answered from the file of the
\* timestamp it saw, or a newer one.
TimestampBacked ==
  deleteOnce = "todo" =>
    /\ ~freed
    /\ mostRecent <= object
    /\ \A l \in Lookups : lookup[l].pc = "call" => lookup[l].ts <= object

\* Whatever happens to the latest timestamp on disk, checkForNewFiles never
\* goes back to an older file: the timestamp in use grows until Delete.
TimestampAdvances ==
  [][mostRecent' # mostRecent /\ deleteOnce = "todo" =>
       mostRecent' > mostRecent /\ deleteOnce' = "todo"]_readerVars

\* close(c.Stop) panics on a closed channel: however many goroutines call
\* Delete, it is closed at most once, and by the time any of them returns.
StopClosedOnce ==
  /\ stopClosed <= 1
  /\ \A d \in Deleters : deleter[d] = "returned" => stopClosed = 1

\* The goroutine of checkForNewFiles ends after Delete, although the reset
\* timestamp makes every file on disk look new to it.
UpdaterStops == deleteOnce = "done" ~> updater.pc = "stopped" \/ crashed

\* axoncache.go:307, "Reset the MostRecentFileTimestamp to 0, so that lookups
\* will fail".  Only an Update that was under way can undo that: once Delete
\* has cleared the handle and the goroutine is back in its loop, or has
\* ended, without a timestamp, no file that appears lets a lookup in again.
DeleteIsFinal ==
  [](/\ handle = "nil"
     /\ updater.pc \in {"waiting", "stopped"}
     /\ mostRecent = 0
     => [](mostRecent = 0))

=============================================================================
