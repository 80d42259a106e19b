------------------------------ MODULE Bindings ------------------------------
(***************************************************************************)
(* The Java and the Python binding over the C API: a process in one of the *)
(* two languages with a writer and a reader object, and the files that go  *)
(* from one to the other.                                                  *)
(*                                                                         *)
(* An object holds a pointer to a native object, its handle.  Java methods *)
(* look at the handle, read it again for the native call, and close deletes*)
(* the object before it forgets the handle: the steps of threads that share*)
(* a reader interleave.  In Python a call holds the interpreter lock from  *)
(* its beginning to its end.  What the C API answers in a buffer is to be  *)
(* freed by the binding.                                                   *)
(*                                                                         *)
(* A value is the sequence of its texts, each by what the conversions can  *)
(* tell apart: "text", "empty" or "notUtf8"; a number is one text.         *)
(***************************************************************************)
EXTENDS Naturals, Sequences, FiniteSets

CONSTANTS
  Threads,
  Stored,        \* [key -> [type, items]]: the value that an insert brings
  BadFloats,     \* the keys whose float list is a text that is none
  Inputs,        \* for each writer, the keys to insert, in order
  Leftover,      \* the keys of a c.cache that may be there already
  MaxTime        \* bound on the clock, in seconds

Keys == DOMAIN Stored

Texts == {"text", "empty", "notUtf8"}

\* Strings and string lists are of texts, and a string is one.  The empty
\* text is an empty list of strings, and no list of floats.
ASSUME StoredAssumption ==
  \A k \in Keys :
    /\ Stored[k].type \in {"String", "StringList"} =>
         Stored[k].items \in Seq(Texts)
    /\ Stored[k].type = "String" => Len(Stored[k].items) = 1
    /\ Stored[k].type = "FloatList" => Stored[k].items # <<>>

ASSUME InputAssumption ==
  /\ Inputs \in Seq(Seq(Keys \cup BadFloats))
  /\ Leftover \subseteq Keys
  /\ MaxTime \in Nat

VARIABLES
  language,      \* "java" or "python"
  reader,        \* the object: who has closed it, initialized_, its cache
  live,          \* the native reader is not deleted
  thread,        \* where each thread is in a reader method
  heap,          \* the buffers that are allocated, with the thread
  writer,        \* the object: its handle, builder and settings, and what
                 \* was inserted and finished
  writers,       \* the writers so far
  disk,          \* the files: [<<folder, timestamp or 0>> -> keys]
  clock,
  crash,         \* why and in which thread the process has crashed
  closers,       \* history: the threads that have called close
  returned       \* history: the cache finished last with a timestamp

readerVars == <<reader, live, closers>>
writerVars == <<writer, writers, disk, clock, returned>>
vars == <<language, readerVars, thread, heap, writerVars, crash>>

Idle == [pc |-> "idle"]
NoCrash == [why |-> "none"]
NoWriter == [object |-> FALSE, handle |-> FALSE, builder |-> FALSE,
             keys |-> {}, next |-> 1, finished |-> FALSE,
             settings |-> [folder |-> ".", dotted |-> FALSE]]

\* The destination folder of the settings, and whether the task name has an
\* extension, which the file name has not.  A Java application is told no
\* timestamp and renames the file itself, so that these are its own affair.
WriterSettings ==
  IF language = "python" THEN [folder : {".", "out"}, dotted : BOOLEAN]
  ELSE {NoWriter.settings}

Init ==
  /\ language \in {"java", "python"}
  /\ reader = [forgotBy |-> {}, initialized |-> FALSE, keys |-> {}]
  /\ live = TRUE
  /\ thread = [t \in Threads |-> Idle]
  /\ heap = {}
  /\ writer = NoWriter
  /\ writers = 0
  /\ \/ disk = [f \in {} |-> {}]
     \/ language = "python" /\ disk = [f \in {<<".", 0>>} |-> Leftover]
  /\ clock = 1
  /\ crash = NoCrash
  /\ closers = {}
  /\ returned = [ts \in {} |-> {}]

Running == crash = NoCrash

\* Python methods run one at a time.
MayRun(t) ==
  /\ Running
  /\ language = "python" => \A u \in Threads \ {t} : thread[u].pc = "idle"

Crash(why, t, op) ==
  crash' = [why |-> why, op |-> op, thread |-> t]

-----------------------------------------------------------------------------
(* The C API: what a lookup of key k answers in a cache with these keys,   *)
(* and the buffers that convertToPointer allocates for it.                 *)

\* The lookups, by the types whose values they read.  (A string lookup of a
\* value of another type is not modelled: see LinearProbeCache.)
Types == {"String", "StringList", "FloatList", "Int64"}

Reads == [containsKey |-> Types, getKey |-> {"String"},
          getLong |-> {"Int64", "String"}, getVector |-> {"StringList"},
          getFloatVector |-> {"FloatList", "String"},
          getVectorKeyItem |-> {"StringList"},
          getKeyType |-> Types]

\* The Python binding does not have the last one.
Lookups ==
  IF language = "java" THEN DOMAIN Reads
  ELSE DOMAIN Reads \ {"getVectorKeyItem"}

Items(k, keys) == IF k \in keys THEN Stored[k].items ELSE <<>>

\* getFloatSpan refuses a string, empty or not, with an exception.
Throws(op, k, keys) ==
  op = "getFloatVector" /\ k \in keys /\ Stored[k].type = "String"

\* getInt64 does not find an empty text.  An empty text has no buffer; of a
\* list every text has one.
CResult(op, k, keys) ==
  LET items == Items(k, keys)
      one == IF items = <<>> \/ items[1] = "empty" THEN {} ELSE {<<"value", 1>>}
  IN [exist |-> k \in keys /\ (op = "getLong" => items # <<"empty">>),
      items |-> items,
      buffers |->
        CASE op \in {"containsKey", "getLong"} -> {}
          [] op = "getKey" -> one
          [] op = "getVectorKeyItem" -> one
          [] op = "getFloatVector" ->
               IF items = <<>> THEN {} ELSE {<<"values", 0>>}
          [] op = "getKeyType" ->
               IF k \in keys THEN {<<"value", 1>>} ELSE {}
          [] op = "getVector" ->
               IF items = <<>> THEN {}
               ELSE {<<"values", 0>>, <<"sizes", 0>>}
                    \cup {<<"item", i>> : i \in DOMAIN items}]

\* The values that a lookup reports as missing although they are there: an
\* empty text to those who ask for a number, and an empty list.
Unseen(op, k) ==
  \/ op = "getLong" /\ Stored[k].items = <<"empty">>
  \/ op = "getVector" /\ Stored[k].items = <<>>

-----------------------------------------------------------------------------
(* CacheReaderJNI.cpp and JniHelpers.h: <<"null">> is the null of a text   *)
(* or a number, <<>> the null of a list, as no list that is returned is    *)
(* empty.                                                                  *)

\* convertToUtf16 with a length: no object for an empty text, and none when
\* the bytes are not UTF-8.
ConvertToUtf16(text) == IF text = "text" THEN "text" ELSE "null"

\* Mutant: an empty value is converted like any other.
NativeGetKeyConverting(r) ==
  IF ~r.exist THEN <<"null">> ELSE <<ConvertToUtf16(r.items[1])>>

NativeGetKey(r) ==
  IF ~r.exist THEN <<"null">>
  ELSE IF r.buffers = {} THEN <<"empty">>
  ELSE <<ConvertToUtf16(r.items[1])>>

NativeContainsKey(r) == <<IF r.exist THEN "true" ELSE "false">>

\* nativeGetLong, nativeGetInteger, nativeGetDouble, nativeGetBool
Boxed(r) == IF ~r.exist THEN <<"null">> ELSE <<"number">>

NativeGetVector(r) ==
  IF r.buffers = {} THEN <<>>
  ELSE [i \in DOMAIN r.items |-> ConvertToUtf16(r.items[i])]

NativeGetFloatVector(r) == IF r.buffers = {} THEN <<>> ELSE r.items

NativeGetVectorKey(r) ==
  IF r.buffers = {} THEN <<"null">> ELSE <<ConvertToUtf16(r.items[1])>>

NativeGetKeyType(r) == IF r.buffers = {} THEN <<"null">> ELSE <<"type">>

JavaAnswer(op, r) ==
  CASE op = "containsKey" -> NativeContainsKey(r)
    [] op = "getKey" -> NativeGetKey(r)
    [] op = "getLong" -> Boxed(r)
    [] op = "getVector" -> NativeGetVector(r)
    [] op = "getFloatVector" -> NativeGetFloatVector(r)
    [] op = "getVectorKeyItem" -> NativeGetVectorKey(r)
    [] op = "getKeyType" -> NativeGetKeyType(r)

-----------------------------------------------------------------------------
(* Reader of axoncache.cpp: NotFoundError is written like the null of Java *)
(* here, and a text that pybind11 cannot decode is "undecodable" for the   *)
(* whole list.                                                             *)

GetKey(r) == IF ~r.exist THEN <<"null">> ELSE <<r.items[1]>>

ContainsKey(r) == <<IF r.exist THEN "true" ELSE "false">>

\* get_bool, get_int, get_long, get_double
GetNumber(r) == IF ~r.exist THEN <<"null">> ELSE <<"number">>

GetVector(r) ==
  IF r.buffers = {} THEN <<>>
  ELSE IF \E i \in DOMAIN r.items : r.items[i] = "notUtf8"
  THEN <<"undecodable">>
  ELSE r.items

GetVectorFloat(r) == IF r.buffers = {} THEN <<>> ELSE r.items

GetKeyType(r) == IF r.buffers = {} THEN <<"null">> ELSE <<"type">>

PythonAnswer(op, r) ==
  CASE op = "containsKey" -> ContainsKey(r)
    [] op = "getKey" -> GetKey(r)
    [] op = "getLong" -> GetNumber(r)
    [] op = "getVector" -> GetVector(r)
    [] op = "getFloatVector" -> GetVectorFloat(r)
    [] op = "getKeyType" -> GetKeyType(r)

Of(kinds, buffers) == {b \in buffers : b[1] \in kinds}

\* Mutant: nativeGetVector does not free the texts.
JavaFreedWithoutItems(op, r) == Of({"value", "values", "sizes"}, r.buffers)

\* What each native method frees: nativeGetVector the texts, in its loop,
\* with their array and their sizes, or the arrays alone when the list is
\* null; nativeGetFloatVector the values on both paths; the others the text.
JavaFreed(op, r) ==
  CASE op = "getVector" ->
         Of({"values", "sizes"}, r.buffers)
         \cup {<<"item", i>> : i \in DOMAIN r.items}
    [] op = "getFloatVector" -> Of({"values"}, r.buffers)
    [] OTHER -> Of({"value"}, r.buffers)

\* free_all of get_vector, before NotFoundError too; the guards of
\* get_vector_float, get_key_type and get_key, however the method ends.
PythonFreed(op, r) ==
  IF op = "getVector" THEN Of({"item", "values", "sizes"}, r.buffers)
  ELSE IF op = "getFloatVector" THEN Of({"values"}, r.buffers)
  ELSE Of({"value"}, r.buffers)

Freed(op, r) ==
  IF language = "java" THEN JavaFreed(op, r) ELSE PythonFreed(op, r)

-----------------------------------------------------------------------------
(* CacheReader.java, and the class Reader *)

\* The handle is zero once a thread has closed the reader; a Java thread that
\* has not done so itself may still see the old value, as the field is not
\* volatile.
SeenHandle(t) ==
  IF reader.forgotBy = {} THEN {TRUE}
  ELSE IF language = "python" \/ t \in reader.forgotBy THEN {FALSE}
  ELSE {TRUE, FALSE}

\* "has been closed", ensure_init; update does not check.
Accepted(t, op) ==
  \/ language = "java" /\ TRUE \in SeenHandle(t)
  \/ language = "python" /\ (op = "initialize" \/ reader.initialized)

\* What is looked up, or loaded, is chosen where it is used.
Begin(t, op) ==
  /\ MayRun(t)
  /\ thread[t].pc = "idle"
  /\ Accepted(t, op)
  /\ thread' = [thread EXCEPT ![t] = [pc |-> "accepted", op |-> op]]
  /\ UNCHANGED <<language, readerVars, heap, writerVars, crash>>

\* The handle is read again for the native call, and used there.
Enter(t) ==
  /\ MayRun(t)
  /\ thread[t].pc = "accepted"
  /\ \E handle \in SeenHandle(t) :
       IF handle /\ live
       THEN /\ thread' = [thread EXCEPT ![t].pc = "inside"]
            /\ UNCHANGED crash
       ELSE /\ Crash(IF handle THEN "deleted handle" ELSE "null handle", t,
                     thread[t].op)
            /\ UNCHANGED thread
  /\ UNCHANGED <<language, readerVars, heap, writerVars>>

InsideDeleted(t) ==
  /\ MayRun(t)
  /\ thread[t].pc = "inside" /\ ~live
  /\ Crash("deleted handle", t, thread[t].op)
  /\ UNCHANGED <<language, readerVars, thread, heap, writerVars>>

\* CacheReader_Initialize: ReaderSwap has its steps.
Initialize(t, ts) ==
  LET path == <<".", ts>>
  IN /\ MayRun(t)
     /\ thread[t].pc = "inside" /\ thread[t].op = "initialize" /\ live
     /\ reader' = IF path \in DOMAIN disk
                  THEN [reader EXCEPT !.initialized = TRUE, !.keys = disk[path]]
                  ELSE reader
     /\ thread' = [thread EXCEPT ![t] = Idle]
     /\ UNCHANGED <<language, live, closers, heap, writerVars, crash>>

\* Field unseen is history, for BindingsAgree.
Answer(t, op, k) ==
  LET r == CResult(op, k, reader.keys)
  IN /\ MayRun(t)
     /\ thread[t].pc = "inside" /\ thread[t].op = "lookup" /\ live
     /\ op \in Lookups /\ Stored[k].type \in Reads[op]
     /\ ~Throws(op, k, reader.keys)
     /\ heap' = heap \cup ({t} \X r.buffers)
     /\ thread' = [thread EXCEPT ![t] =
                     [pc |-> "answered", op |-> op, result |-> r,
                      unseen |-> k \notin reader.keys \/ Unseen(op, k)]]
     /\ UNCHANGED <<language, readerVars, writerVars, crash>>

\* nativeGetFloatVector lets the exception of the C API into the JVM, which
\* it ends; pybind11 hands it to the caller.
LookupThrows(t, k) ==
  /\ MayRun(t)
  /\ thread[t].pc = "inside" /\ thread[t].op = "lookup" /\ live
  /\ Throws("getFloatVector", k, reader.keys)
  /\ \/ /\ language = "java"
        /\ Crash("exception", t, "getFloatVector")
        /\ UNCHANGED thread
     \/ /\ language = "python"
        /\ thread' = [thread EXCEPT ![t] = Idle]
        /\ UNCHANGED crash
  /\ UNCHANGED <<language, readerVars, heap, writerVars>>

\* The answer is converted, the buffers are freed.
Return(t) ==
  /\ MayRun(t)
  /\ thread[t].pc = "answered"
  /\ heap' = heap \ ({t} \X Freed(thread[t].op, thread[t].result))
  /\ thread' = [thread EXCEPT ![t] = Idle]
  /\ UNCHANGED <<language, readerVars, writerVars, crash>>

\* close of Java, in the steps that other threads can see.
BeginClose(t) ==
  /\ language = "java" /\ MayRun(t)
  /\ thread[t].pc = "idle"
  /\ TRUE \in SeenHandle(t)
  /\ closers' = closers \cup {t}
  /\ thread' = [thread EXCEPT ![t] = [pc |-> "finalize"]]
  /\ UNCHANGED <<language, reader, live, heap, writerVars, crash>>

\* finalize_internal looks at the handle again.
CloseFinalize(t) ==
  /\ MayRun(t)
  /\ thread[t].pc = "finalize"
  /\ \/ /\ live \/ FALSE \in SeenHandle(t)
        /\ thread' = [thread EXCEPT ![t].pc = "delete"]
        /\ UNCHANGED crash
     \/ /\ ~live /\ TRUE \in SeenHandle(t)
        /\ Crash("deleted handle", t, "close")
        /\ UNCHANGED thread
  /\ UNCHANGED <<language, readerVars, heap, writerVars>>

\* Zero may be deleted, a deleted object may not.
CloseDelete(t) ==
  /\ MayRun(t)
  /\ thread[t].pc = "delete"
  /\ \E handle \in SeenHandle(t) :
       IF handle /\ ~live
       THEN /\ Crash("deleted handle", t, "close")
            /\ UNCHANGED <<live, thread>>
       ELSE /\ live' = (live /\ ~handle)
            /\ thread' = [thread EXCEPT ![t].pc = "forget"]
            /\ UNCHANGED crash
  /\ UNCHANGED <<language, reader, closers, heap, writerVars>>

\* Mutant: the handle is kept.
CloseForgetNot(t) ==
  /\ MayRun(t)
  /\ thread[t].pc = "forget"
  /\ thread' = [thread EXCEPT ![t] = Idle]
  /\ UNCHANGED <<language, reader, live, closers, heap, writerVars, crash>>

CloseForget(t) ==
  /\ MayRun(t)
  /\ thread[t].pc = "forget"
  /\ reader' = [reader EXCEPT !.forgotBy = @ \cup {t}]
  /\ thread' = [thread EXCEPT ![t] = Idle]
  /\ UNCHANGED <<language, live, closers, heap, writerVars, crash>>

\* close of Python; the destructor is the same.
Close(t) ==
  /\ language = "python" /\ MayRun(t)
  /\ thread[t].pc = "idle"
  /\ closers' = closers \cup {t}
  /\ live' = FALSE
  /\ reader' = [reader EXCEPT !.forgotBy = @ \cup {t}, !.initialized = FALSE]
  /\ UNCHANGED <<language, thread, heap, writerVars, crash>>

ReaderStep(t) ==
  \/ \E op \in {"initialize", "lookup"} : Begin(t, op)
  \/ Enter(t) \/ InsideDeleted(t)
  \/ \E ts \in 1 .. clock : Initialize(t, ts)
  \/ \E op \in DOMAIN Reads, k \in Keys : Answer(t, op, k)
  \/ \E k \in Keys : LookupThrows(t, k)
  \/ Return(t)
  \/ BeginClose(t) \/ CloseFinalize(t) \/ CloseDelete(t) \/ CloseForget(t)
  \/ Close(t)

-----------------------------------------------------------------------------
(* CacheWriter.java with CacheWriterJNI.cpp, and the class Writer.  A      *)
(* writer is not shared: its calls are single steps, by no thread of       *)
(* those above.  The frequent values are the subject of CacheWriter.       *)

InWriter ==
  /\ Running /\ writer.object
  /\ UNCHANGED <<language, readerVars, thread, heap>>

WriterCrash(why, op) ==
  /\ Crash(why, "writer", op)
  /\ UNCHANGED writerVars

\* Without handle, Java methods throw, and so do Python methods except
\* finish_add_duplicate_values.
HasHandle == InWriter /\ writer.handle

\* Inserts, finishAddDuplicateValues and finishCacheCreation: the C API uses
\* the builder without a check.
NullBuilder ==
  /\ HasHandle /\ ~writer.builder
  /\ WriterCrash("null builder", "writer")

\* Java: the constructor only makes the handle.  Python: it initializes the
\* writer too, and there is no object when that fails.
NewWriter ==
  /\ Running /\ ~writer.object
  /\ writers < Len(Inputs)
  /\ writers' = writers + 1
  /\ \/ /\ language = "java"
        /\ writer' = [NoWriter EXCEPT !.object = TRUE, !.handle = TRUE]
     \/ /\ language = "python"
        /\ \E ret \in {0, 1, 3}, settings \in WriterSettings :
             writer' = IF ret = 0
                       THEN [NoWriter EXCEPT !.object = TRUE, !.handle = TRUE,
                                             !.builder = TRUE,
                                             !.settings = settings]
                       ELSE NoWriter
  /\ UNCHANGED <<language, readerVars, thread, heap, disk, clock, returned,
                 crash>>

\* nativeInitialize, perhaps once more: a failure leaves the builder alone.
InitializeWriter ==
  /\ language = "java" /\ HasHandle
  /\ \E ret \in {0, 1, 3}, settings \in WriterSettings :
       writer' = IF ret = 0
                 THEN [writer EXCEPT !.builder = TRUE, !.keys = {}, !.next = 1,
                                     !.finished = FALSE, !.settings = settings]
                 ELSE writer
  /\ UNCHANGED <<writers, disk, clock, returned, crash>>

Input == Inputs[writers]

\* A key that is refused with an error code may be tried again.
InsertKey ==
  /\ HasHandle /\ writer.builder
  /\ writer.next <= Len(Input)
  /\ Input[writer.next] \notin BadFloats
  /\ writer' = [writer EXCEPT !.next = @ + 1,
                              !.keys = @ \cup {Input[writer.next]}]
  /\ UNCHANGED <<writers, disk, clock, returned, crash>>

\* stringViewToVector throws outside of the try block: pybind11 translates
\* the exception, the JVM does not.
InsertKeyThrows ==
  /\ HasHandle /\ writer.builder
  /\ writer.next <= Len(Input)
  /\ Input[writer.next] \in BadFloats
  /\ \/ /\ language = "java"
        /\ WriterCrash("exception", "insertKey")
     \/ /\ language = "python"
        /\ writer' = [writer EXCEPT !.next = @ + 1]
        /\ UNCHANGED <<writers, disk, clock, returned, crash>>

FinishAddDuplicateValuesNull ==
  /\ language = "python" /\ InWriter /\ ~writer.handle
  /\ WriterCrash("null handle", "finishAddDuplicateValues")

SetFile(files, path, keys) ==
  [p \in DOMAIN files \cup {path} |-> IF p = path THEN keys ELSE files[p]]

Without(f, x) == [y \in DOMAIN f \ {x} |-> f[y]]

\* Mutant: a file that is there is not replaced.
RenamedUnlessThere(files, from, to) ==
  IF from \in DOMAIN files /\ to \notin DOMAIN files
  THEN Without(SetFile(files, to, files[from]), from) ELSE files

\* rename, whose result is not looked at.
Renamed(files, from, to) ==
  IF from \in DOMAIN files
  THEN Without(SetFile(files, to, files[from]), from) ELSE files

Finished(w) == [w EXCEPT !.builder = FALSE, !.keys = {}, !.finished = TRUE]

\* CacheWriter_FinishCacheCreation writes c.cache in the folder of the
\* settings and releases the builder.
FinishJava ==
  /\ language = "java" /\ HasHandle /\ writer.builder
  /\ disk' = SetFile(disk, <<writer.settings.folder, 0>>, writer.keys)
  /\ writer' = Finished(writer)
  /\ UNCHANGED <<writers, clock, returned, crash>>

\* finish_cache_creation renames the file of the task's name in the folder
\* where the process runs, and returns the time in seconds.
FinishPython ==
  LET written == SetFile(disk, <<writer.settings.folder, 0>>, writer.keys)
      found == writer.settings = [folder |-> ".", dotted |-> FALSE]
  IN /\ language = "python" /\ HasHandle /\ writer.builder
     /\ disk' = IF writer.settings.dotted THEN written
                ELSE Renamed(written, <<".", 0>>, <<".", clock>>)
     /\ returned' = IF found THEN SetFile(returned, clock, writer.keys)
                    ELSE Without(returned, clock)
     /\ writer' = Finished(writer)
     /\ UNCHANGED <<writers, clock, crash>>

\* close, and the next writer may be made.
CloseWriter ==
  /\ HasHandle
  /\ writer' = [writer EXCEPT !.handle = FALSE, !.builder = FALSE, !.keys = {}]
  /\ UNCHANGED <<writers, disk, clock, returned, crash>>

DropWriter ==
  /\ InWriter /\ ~writer.handle
  /\ writer' = NoWriter
  /\ UNCHANGED <<writers, disk, clock, returned, crash>>

\* A Java application gives the file its timestamp itself.
ApplicationRenames ==
  /\ Running /\ language = "java"
  /\ <<".", 0>> \in DOMAIN disk
  /\ disk' = Renamed(disk, <<".", 0>>, <<".", clock>>)
  /\ UNCHANGED <<language, readerVars, thread, heap, writer, writers, clock,
                 returned, crash>>

\* The time that a Java application gives its files is its own affair too.
Tick ==
  /\ Running /\ language = "python" /\ clock < MaxTime
  /\ clock' = clock + 1
  /\ UNCHANGED <<language, readerVars, thread, heap, writer, writers, disk,
                 returned, crash>>

WriterStep ==
  \/ NewWriter \/ InitializeWriter
  \/ InsertKey \/ InsertKeyThrows
  \/ NullBuilder \/ FinishAddDuplicateValuesNull
  \/ FinishJava \/ FinishPython
  \/ CloseWriter \/ DropWriter

Next ==
  \/ \E t \in Threads : ReaderStep(t)
  \/ WriterStep \/ ApplicationRenames \/ Tick

Spec == Init /\ [][Next]_vars

-----------------------------------------------------------------------------
(* Properties *)

\* Every variable has its type: among others, the cache that a reader uses
\* and the files hold keys that were inserted.
TypeOK ==
  /\ reader.forgotBy \subseteq closers
  /\ reader.keys \subseteq Keys
  /\ \A t \in Threads :
       thread[t].pc \in {"idle", "accepted", "inside", "answered", "finalize",
                        "delete", "forget"}
  /\ \A p \in DOMAIN disk : disk[p] \subseteq Keys /\ p[2] <= clock
  /\ writer.builder => writer.handle
  /\ writer.handle => writer.object
  /\ DOMAIN returned \subseteq 1 .. clock

\* No lookup leaks a buffer, on any of its paths, nor frees one that the C
\* API has not given it: all buffers belong to a lookup that has not returned
\* yet.
HeapBalanced ==
  /\ \A b \in heap : thread[b[1]].pc = "answered"
  /\ \A t \in Threads :
       thread[t].pc = "answered" =>
         LET r == thread[t].result
         IN Freed(thread[t].op, r) \subseteq r.buffers

\* The process crashes only where the code relies on its caller: a deleted
\* reader, or none, is used by a Java thread only if another thread has
\* closed it, in Python a closed one by update alone; a writer lacks its
\* builder when it is finished, in Java also before it is initialized; and
\* an exception ends a Java process alone, when it inserts a text that is no
\* float list, or asks for the float list of a key that holds a string.
CrashCauses ==
  crash # NoCrash =>
    CASE crash.why \in {"deleted handle", "null handle"} /\ language = "java" ->
           \E u \in closers : u # crash.thread
      [] crash.why = "null handle" /\ language = "python" ->
           crash.op \in {"initialize", "finishAddDuplicateValues"}
      [] crash.why = "null builder" -> writer.finished \/ language = "java"
      [] crash.why = "exception" /\ crash.op = "insertKey" ->
           language = "java" /\ Input[writer.next] \in BadFloats
      [] crash.why = "exception" /\ crash.op = "getFloatVector" ->
           /\ language = "java"
           /\ \E k \in reader.keys : Stored[k].type = "String"
      [] OTHER -> FALSE

\* How the answer of a lookup says that the key is missing.
Missing(op) ==
  CASE op = "containsKey" -> <<"false">>
    [] op \in {"getVector", "getFloatVector"} -> <<>>
    [] OTHER -> <<"null">>

\* Both bindings report a key as missing if it is, and a key that is there
\* only for the values of Unseen, and Java for a text that is not UTF-8 as well:
\* so an empty text is told from a missing key by getKey, and not by getLong.
\* For the rest they answer alike, save that Java has no text for what is
\* not UTF-8, nor for an empty text in a list.
BindingsAgree ==
  \A t \in Threads :
    thread[t].pc = "answered" /\ thread[t].op # "getVectorKeyItem" =>
      LET op == thread[t].op
          r == thread[t].result
          java == JavaAnswer(op, r)
          python == PythonAnswer(op, r)
          unseen == thread[t].unseen
      IN /\ (python = Missing(op)) <=> unseen
         /\ (java = Missing(op)) <=>
              unseen \/ (op = "getKey" /\ r.items = <<"notUtf8">>)
         /\ \/ java = python
            \/ /\ "notUtf8" \in {r.items[i] : i \in DOMAIN r.items}
               /\ "null" \in {java[i] : i \in DOMAIN java}
            \/ /\ op = "getVector"
               /\ Len(java) = Len(python)
               /\ \A i \in DOMAIN java :
                    java[i] = IF python[i] = "empty" THEN "null" ELSE python[i]

\* The timestamp that finish_cache_creation returns names the cache it has
\* made, or the one made last in the same second: when the settings name the
\* folder in which the process runs, and the task name has no extension.
ReturnedTimestampLoads ==
  \A ts \in DOMAIN returned :
    /\ <<".", ts>> \in DOMAIN disk
    /\ disk[<<".", ts>>] = returned[ts]

=============================================================================
