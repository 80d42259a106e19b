--------------------------- MODULE BindingsProofs ---------------------------
(***************************************************************************)
(* Proofs about the Java and the Python binding, for any number of threads *)
(* that share a reader, any stored values and any sequence of writers.     *)
(***************************************************************************)
EXTENDS Bindings, TLAPS

Closing == {"finalize", "delete", "forget"}

\* A lookup by a method that reads the type of its key, and the cache it uses.
Requests ==
  {q \in [op : DOMAIN Reads, key : Keys, keys : SUBSET Keys] :
     Stored[q.key].type \in Reads[q.op]}

\* A thread that has the answer to a request.
Answered(q) ==
  [pc |-> "answered", op |-> q.op, result |-> CResult(q.op, q.key, q.keys),
   unseen |-> q.key \notin q.keys \/ Unseen(q.op, q.key)]

\* Where a thread can be in a method.
States ==
  [pc : {"idle"} \cup Closing]
  \cup [pc : {"accepted", "inside"}, op : {"initialize", "lookup"}]
  \cup {Answered(q) : q \in Requests}

Folders == {".", "out"}

TypedReader ==
  /\ language \in {"java", "python"}
  /\ reader \in [forgotBy : SUBSET Threads, initialized : BOOLEAN,
                 keys : SUBSET Keys]
  /\ reader.forgotBy \subseteq closers
  /\ live \in BOOLEAN
  /\ thread \in [Threads -> States]

TypedWriter ==
  /\ writer \in [object : BOOLEAN, handle : BOOLEAN, builder : BOOLEAN,
                 keys : SUBSET Keys, next : Nat \ {0}, finished : BOOLEAN,
                 settings : [folder : Folders, dotted : BOOLEAN]]
  /\ writers \in 0 .. Len(Inputs)
  /\ writer.object => writers # 0
  /\ clock \in Nat \ {0}
  /\ disk \in [DOMAIN disk -> SUBSET Keys]
  /\ DOMAIN disk \subseteq Folders \X (0 .. clock)
  /\ DOMAIN returned \subseteq 1 .. clock

\* Every buffer was given to a lookup that has not returned yet.
HeapOwned ==
  \A b \in heap : \E t \in Threads :
    /\ thread[t].pc = "answered"
    /\ \E c \in thread[t].result.buffers : b = <<t, c>>

\* A thread that closes the reader is in none of its methods afterwards, and
\* a native reader is deleted by a thread that forgets it next.
JavaOrder ==
  language = "java" =>
    /\ \A t \in Threads : thread[t].pc \in Closing => t \in closers
    /\ \A t \in reader.forgotBy : thread[t].pc = "idle"
    /\ ~live => \E u \in Threads : u \in reader.forgotBy
                                   \/ thread[u].pc = "forget"

\* A closed reader is marked as such at once: no lookup is accepted.
PythonOrder ==
  language = "python" =>
    /\ live = (reader.forgotBy = {})
    /\ reader.initialized => live
    /\ \A t \in Threads :
         /\ thread[t].pc \notin Closing
         /\ thread[t].pc = "inside" => live
         /\ thread[t].pc \in {"accepted", "inside"}
              /\ thread[t].op = "lookup" => reader.initialized

\* A Python writer has its builder until it is finished.
WriterOrder ==
  /\ writer.builder => writer.handle
  /\ writer.handle => writer.object
  /\ language = "python" /\ writer.handle /\ ~writer.builder =>
       writer.finished

ReaderInv == TypedReader /\ HeapOwned /\ JavaOrder /\ PythonOrder

WriterInv ==
  /\ TypedWriter
  /\ WriterOrder
  /\ language = "java" => DOMAIN returned = {}
  /\ ReturnedTimestampLoads

IInv == ReaderInv /\ WriterInv /\ CrashCauses

-----------------------------------------------------------------------------
(* The buffers of the lookups *)

\* Nothing is lost where every buffer is of the kinds that are freed.
LEMMA AllOfKind ==
  ASSUME NEW S, NEW kinds, \A b \in S : b[1] \in kinds
  PROVE  Of(kinds, S) = S
BY DEF Of

\* A method frees exactly the buffers that it was given.
LEMMA FreedIsGiven ==
  ASSUME NEW op \in DOMAIN Reads, NEW k, NEW keys
  PROVE  Freed(op, CResult(op, k, keys)) = CResult(op, k, keys).buffers
<1> DEFINE items == Items(k, keys)
           one == IF items = <<>> \/ items[1] = "empty" THEN {}
                  ELSE {<<"value", 1>>}
           r == CResult(op, k, keys)
<1>0. op \in {"containsKey", "getKey", "getLong", "getVector",
              "getFloatVector", "getVectorKeyItem", "getKeyType"}
  BY DEF Reads
<1>1. r.items = items
  BY DEF CResult
<1>2. SUFFICES JavaFreed(op, r) = r.buffers /\ PythonFreed(op, r) = r.buffers
  BY DEF Freed
<1>3. CASE op \in {"containsKey", "getKey", "getLong", "getVectorKeyItem",
                   "getKeyType"}
  <2>1. r.buffers \subseteq {<<"value", 1>>}
    <3>1. CASE op \in {"getKey", "getVectorKeyItem"}
      <4>1. r.buffers = one
        BY <3>1 DEF CResult
      <4> QED
        BY <4>1, Zenon
    <3>2. CASE op \in {"containsKey", "getLong"}
      BY <3>2 DEF CResult
    <3>3. CASE op = "getKeyType"
      <4>1. r.buffers = IF k \in keys THEN {<<"value", 1>>} ELSE {}
        BY <3>3 DEF CResult
      <4> QED
        BY <4>1, Zenon
    <3> QED
      BY <1>3, <3>1, <3>2, <3>3
  <2>2. \A b \in r.buffers : b[1] \in {"value"}
    <3>1. <<"value", 1>>[1] = "value"
      OBVIOUS
    <3> QED
      BY <2>1, <3>1, Zenon
  <2>3. JavaFreed(op, r) = Of({"value"}, r.buffers)
        /\ PythonFreed(op, r) = Of({"value"}, r.buffers)
    BY <1>3 DEF JavaFreed, PythonFreed
  <2> QED
    BY <2>2, <2>3, AllOfKind
<1>4. CASE op = "getFloatVector"
  <2>1. r.buffers = IF items = <<>> THEN {} ELSE {<<"values", 0>>}
    BY <1>4 DEF CResult
  <2>2. \A b \in r.buffers : b[1] \in {"values"}
    <3>1. <<"values", 0>>[1] = "values"
      OBVIOUS
    <3> QED
      BY <2>1, <3>1, Zenon
  <2>3. JavaFreed(op, r) = Of({"values"}, r.buffers)
        /\ PythonFreed(op, r) = Of({"values"}, r.buffers)
    BY <1>4 DEF JavaFreed, PythonFreed
  <2> QED
    BY <2>2, <2>3, AllOfKind
<1>5. CASE op = "getVector"
  <2> DEFINE ofItems == {<<"item", i>> : i \in DOMAIN items}
             frames == {<<"values", 0>>, <<"sizes", 0>>}
  <2>1. r.buffers = IF items = <<>> THEN {} ELSE frames \cup ofItems
    BY <1>5 DEF CResult
  <2>2. JavaFreed(op, r) = Of({"values", "sizes"}, r.buffers) \cup ofItems
    BY <1>1, <1>5 DEF JavaFreed
  <2>3. PythonFreed(op, r) = Of({"item", "values", "sizes"}, r.buffers)
    BY <1>5 DEF PythonFreed
  <2>4. items = <<>> => ofItems = {}
    BY DEF Items
  <2>5. \A b \in frames : b[1] \in {"values", "sizes"}
    <3>1. <<"values", 0>>[1] = "values" /\ <<"sizes", 0>>[1] = "sizes"
      OBVIOUS
    <3> QED
      BY <3>1, Zenon
  <2>6. \A b \in ofItems : b[1] \in {"item"}
    OBVIOUS
  <2> HIDE DEF ofItems, frames, items, r
  <2>7. CASE items = <<>>
    BY <2>1, <2>2, <2>3, <2>4, <2>7 DEF Of
  <2>8. CASE items # <<>>
    <3>1. JavaFreed(op, r) = r.buffers
      BY <2>1, <2>2, <2>5, <2>8 DEF Of
    <3>2. \A b \in r.buffers : b[1] \in {"item", "values", "sizes"}
      BY <2>1, <2>5, <2>6, <2>8
    <3> QED
      BY <2>3, <3>1, <3>2, AllOfKind
  <2> QED
    BY <2>7, <2>8
<1> QED
  BY <1>0, <1>3, <1>4, <1>5

-----------------------------------------------------------------------------
(* The threads in the reader *)

\* The states of a thread by where it is.
LEMMA StateKinds ==
  ASSUME NEW s \in States
  PROVE  /\ s.pc \in {"idle", "accepted", "inside", "answered", "finalize",
                      "delete", "forget"}
         /\ s.pc \in {"idle"} \cup Closing => s = [pc |-> s.pc]
         /\ s.pc \in {"accepted", "inside"} =>
              /\ s = [pc |-> s.pc, op |-> s.op]
              /\ s.op \in {"initialize", "lookup"}
         /\ s.pc = "answered" =>
              \E q \in Requests :
                /\ s.op = q.op
                /\ s.result = CResult(q.op, q.key, q.keys)
                /\ s.unseen = (q.key \notin q.keys \/ Unseen(q.op, q.key))
<1>1. CASE s \in [pc : {"idle"} \cup Closing]
  BY <1>1 DEF Closing
<1>2. CASE s \in [pc : {"accepted", "inside"}, op : {"initialize", "lookup"}]
  BY <1>2 DEF Closing
<1>3. CASE s \in {Answered(q) : q \in Requests}
  <2>1. PICK q \in Requests : s = Answered(q)
    BY <1>3
  <2> QED
    BY <2>1 DEF Answered, Closing
<1> QED
  BY <1>1, <1>2, <1>3 DEF States

\* The states that threads go to.
LEMMA Reached ==
  /\ \A pc \in {"idle"} \cup Closing : [pc |-> pc] \in States
  /\ \A pc \in {"accepted", "inside"}, op \in {"initialize", "lookup"} :
       [pc |-> pc, op |-> op] \in States
  /\ \A q \in Requests : Answered(q) \in States
<1>1. \A pc \in {"idle"} \cup Closing :
        [pc |-> pc] \in [pc : {"idle"} \cup Closing]
  OBVIOUS
<1>2. \A pc \in {"accepted", "inside"}, op \in {"initialize", "lookup"} :
        [pc |-> pc, op |-> op]
          \in [pc : {"accepted", "inside"}, op : {"initialize", "lookup"}]
  OBVIOUS
<1> QED
  BY <1>1, <1>2, Zenon DEF States

\* An answer is one of the requests that it types.
LEMMA AnswerTyped ==
  ASSUME TypedReader, NEW t \in Threads, NEW op \in DOMAIN Reads,
         NEW k \in Keys, Answer(t, op, k)
  PROVE  thread'[t] \in States /\ thread' = [thread EXCEPT ![t] = thread'[t]]
<1> DEFINE q == [op |-> op, key |-> k, keys |-> reader.keys]
           s == [pc |-> "answered", op |-> op,
                 result |-> CResult(op, k, reader.keys),
                 unseen |-> k \notin reader.keys \/ Unseen(op, k)]
<1>1. reader.keys \in SUBSET Keys
  BY DEF TypedReader
<1>2. q \in Requests
  BY <1>1 DEF Requests, Answer
<1>3. q.op = op /\ q.key = k /\ q.keys = reader.keys
  OBVIOUS
<1>4. s \in States
  <2>1. Answered(q) \in States
    BY <1>2, Reached, Zenon
  <2> QED
    BY <2>1, <1>3, Zenon DEF Answered
<1>5. thread' = [thread EXCEPT ![t] = s]
  BY DEF Answer
<1> HIDE DEF s
<1> QED
  BY <1>4, <1>5 DEF TypedReader

\* A step of a reader's thread takes it to another state, and leaves the
\* other threads where they are.
LEMMA ReaderMoves ==
  ASSUME TypedReader, NEW t \in Threads, ReaderStep(t)
  PROVE  /\ thread' \in [Threads -> States]
         /\ \A u \in Threads \ {t} : thread'[u] = thread[u]
<1> DEFINE X == thread'[t]
<1>0. thread \in [Threads -> States] /\ thread[t] \in States
  BY DEF TypedReader
<1>1. thread' = thread \/ (X \in States /\ thread' = [thread EXCEPT ![t] = X])
  <2>1. ASSUME NEW op \in {"initialize", "lookup"}, Begin(t, op)
        PROVE  X \in States /\ thread' = [thread EXCEPT ![t] = X]
    <3>1. thread' = [thread EXCEPT ![t] = [pc |-> "accepted", op |-> op]]
      BY <2>1 DEF Begin
    <3> QED
      BY <3>1, <1>0, Reached
  <2>2. CASE Enter(t)
    <3>1. thread' = thread \/ thread' = [thread EXCEPT ![t].pc = "inside"]
      BY <2>2 DEF Enter
    <3>2. thread[t] = [pc |-> "accepted", op |-> thread[t].op]
          /\ thread[t].op \in {"initialize", "lookup"}
      BY <2>2, <1>0, StateKinds DEF Enter
    <3>3. [thread[t] EXCEPT !.pc = "inside"]
            = [pc |-> "inside", op |-> thread[t].op]
      BY <3>2
    <3>4. [thread[t] EXCEPT !.pc = "inside"] \in States
      BY <3>2, <3>3, Reached, Zenon
    <3>5. CASE thread' = [thread EXCEPT ![t].pc = "inside"]
      <4>1. thread' = [thread EXCEPT ![t] = [thread[t] EXCEPT !.pc = "inside"]]
        BY <3>5
      <4> QED
        BY <4>1, <3>4, <1>0
    <3> QED
      BY <3>1, <3>5
  <2>3. CASE InsideDeleted(t)
    BY <2>3 DEF InsideDeleted
  <2>4. CASE \/ \E ts \in 1 .. clock : Initialize(t, ts)
             \/ Return(t) \/ CloseForget(t)
    <3>1. thread' = [thread EXCEPT ![t] = [pc |-> "idle"]]
      BY <2>4 DEF Initialize, Return, CloseForget, Idle
    <3> QED
      BY <3>1, <1>0, Reached
  <2>5. ASSUME NEW op \in DOMAIN Reads, NEW k \in Keys, Answer(t, op, k)
        PROVE  X \in States /\ thread' = [thread EXCEPT ![t] = X]
    BY <2>5, AnswerTyped
  <2>6. CASE BeginClose(t)
    <3>1. thread' = [thread EXCEPT ![t] = [pc |-> "finalize"]]
      BY <2>6 DEF BeginClose
    <3> QED
      BY <3>1, <1>0, Reached DEF Closing
  <2>7. ASSUME NEW pc \in Closing, thread[t].pc \in Closing,
               thread' = [thread EXCEPT ![t].pc = pc]
        PROVE  X \in States /\ thread' = [thread EXCEPT ![t] = X]
    <3>1. thread[t] = [pc |-> thread[t].pc]
      BY <2>7, <1>0, StateKinds
    <3>2. [thread[t] EXCEPT !.pc = pc] = [pc |-> pc]
      BY <3>1
    <3>3. thread' = [thread EXCEPT ![t] = [thread[t] EXCEPT !.pc = pc]]
      BY <2>7
    <3> QED
      BY <3>2, <3>3, <1>0, Reached
  <2>8. CASE CloseFinalize(t)
    <3>1. \/ thread' = thread
          \/ thread[t].pc = "finalize"
             /\ thread' = [thread EXCEPT ![t].pc = "delete"]
      BY <2>8 DEF CloseFinalize
    <3>2. "delete" \in Closing /\ "finalize" \in Closing
      BY DEF Closing
    <3> QED
      BY <3>1, <3>2, <2>7
  <2>9. CASE CloseDelete(t)
    <3>1. \/ thread' = thread
          \/ thread[t].pc = "delete"
             /\ thread' = [thread EXCEPT ![t].pc = "forget"]
      BY <2>9 DEF CloseDelete
    <3>2. "delete" \in Closing /\ "forget" \in Closing
      BY DEF Closing
    <3> QED
      BY <3>1, <3>2, <2>7
  <2>10. CASE Close(t)
    BY <2>10 DEF Close
  <2>11. CASE \E k \in Keys : LookupThrows(t, k)
    <3>1. thread' = thread \/ thread' = [thread EXCEPT ![t] = [pc |-> "idle"]]
      BY <2>11 DEF LookupThrows, Idle
    <3> QED
      BY <3>1, <1>0, Reached
  <2> QED
    BY <2>1, <2>2, <2>3, <2>4, <2>5, <2>6, <2>8, <2>9, <2>10, <2>11
       DEF ReaderStep
<1> QED
  BY <1>0, <1>1

LEMMA ReaderTyped ==
  ASSUME TypedReader, JavaOrder, PythonOrder, TypedWriter,
         NEW t \in Threads, ReaderStep(t)
  PROVE  TypedReader'
<1>1. thread' \in [Threads -> States]
  BY ReaderMoves
<1>2. language' = language
  BY DEF ReaderStep, Begin, Enter, InsideDeleted, Initialize, Answer, Return, LookupThrows,
     BeginClose, CloseFinalize, CloseDelete, CloseForget, Close
<1>3. live' \in BOOLEAN
  <2>1. live' = live \/ live' = FALSE \/ \E h : live' = (live /\ ~h)
    BY DEF ReaderStep, Begin, Enter, InsideDeleted, Initialize, Answer,
       Return, LookupThrows, BeginClose, CloseFinalize, CloseDelete, CloseForget, Close,
       readerVars
  <2> QED
    BY <2>1, Zenon DEF TypedReader
<1>4. /\ reader' \in [forgotBy : SUBSET Threads, initialized : BOOLEAN,
                      keys : SUBSET Keys]
      /\ reader'.forgotBy \subseteq closers'
  <2>1. CASE \E ts \in 1 .. clock : Initialize(t, ts)
    <3>1. PICK ts \in 1 .. clock : Initialize(t, ts)
      BY <2>1
    <3>2. closers' = closers
      BY <3>1 DEF Initialize
    <3>3. CASE <<".", ts>> \in DOMAIN disk
      <4>1. reader' = [reader EXCEPT !.initialized = TRUE,
                                     !.keys = disk[<<".", ts>>]]
        BY <3>1, <3>3 DEF Initialize
      <4>2. disk[<<".", ts>>] \in SUBSET Keys
        BY <3>3 DEF TypedWriter
      <4> QED
        BY <3>2, <4>1, <4>2 DEF TypedReader
    <3>4. CASE <<".", ts>> \notin DOMAIN disk
      <4>1. reader' = reader
        BY <3>1, <3>4 DEF Initialize
      <4> QED
        BY <3>2, <4>1 DEF TypedReader
    <3> QED
      BY <3>3, <3>4
  <2>2. CASE CloseForget(t)
    <3>1. thread[t] \in States /\ reader.forgotBy \subseteq closers
      BY DEF TypedReader
    <3>2. t \in closers
      BY <2>2 DEF CloseForget, TypedReader, JavaOrder, PythonOrder, Closing
    <3> QED
      BY <2>2, <3>1, <3>2 DEF CloseForget, TypedReader
  <2>3. CASE Close(t)
    BY <2>3 DEF Close, TypedReader
  <2>4. CASE BeginClose(t)
    BY <2>4 DEF BeginClose, TypedReader
  <2>5. CASE ~(\/ \E ts \in 1 .. clock : Initialize(t, ts)
               \/ CloseForget(t) \/ Close(t) \/ BeginClose(t))
    <3>1. reader' = reader /\ closers' = closers
      BY <2>5 DEF ReaderStep, Begin, Enter, InsideDeleted, Answer, Return,
         LookupThrows, CloseFinalize, CloseDelete, readerVars
    <3> QED
      BY <3>1 DEF TypedReader
  <2> QED
    BY <2>1, <2>2, <2>3, <2>4, <2>5
<1> QED
  BY <1>1, <1>2, <1>3, <1>4 DEF TypedReader

LEMMA ReaderHeap ==
  ASSUME TypedReader, HeapOwned, NEW t \in Threads, ReaderStep(t)
  PROVE  HeapOwned'
<1>0. thread \in [Threads -> States] /\ thread[t] \in States
  BY DEF TypedReader
<1>1. \A u \in Threads \ {t} : thread'[u] = thread[u]
  BY ReaderMoves
<1>2. SUFFICES ASSUME NEW b \in heap'
               PROVE  \E u \in Threads :
                        /\ thread'[u].pc = "answered"
                        /\ \E c \in thread'[u].result.buffers : b = <<u, c>>
  BY DEF HeapOwned
<1>3. ASSUME NEW u \in Threads \ {t}, thread[u].pc = "answered",
             \E c \in thread[u].result.buffers : b = <<u, c>>
      PROVE  \E v \in Threads :
               /\ thread'[v].pc = "answered"
               /\ \E c \in thread'[v].result.buffers : b = <<v, c>>
  BY <1>1, <1>3
<1>4. CASE Return(t)
  <2>1. PICK u \in Threads : /\ thread[u].pc = "answered"
                             /\ \E c \in thread[u].result.buffers : b = <<u, c>>
    BY <1>4 DEF Return, HeapOwned
  <2>2. PICK q \in Requests :
          /\ thread[t].op = q.op
          /\ thread[t].result = CResult(q.op, q.key, q.keys)
    BY <1>4, <1>0, StateKinds DEF Return
  <2>3. q.op \in DOMAIN Reads
    BY DEF Requests
  <2>4. Freed(thread[t].op, thread[t].result) = thread[t].result.buffers
    BY <2>2, <2>3, FreedIsGiven
  <2>5. b \notin {t} \X thread[t].result.buffers
    BY <1>4, <2>4 DEF Return
  <2>6. u # t
    BY <2>1, <2>5
  <2> QED
    BY <2>1, <2>6, <1>3
<1>5. CASE \E op \in DOMAIN Reads, k \in Keys : Answer(t, op, k)
  <2>1. PICK op \in DOMAIN Reads, k \in Keys : Answer(t, op, k)
    BY <1>5
  <2> DEFINE r == CResult(op, k, reader.keys)
             x == k \notin reader.keys \/ Unseen(op, k)
  <2>2. /\ heap' = heap \cup ({t} \X r.buffers)
        /\ thread' = [thread EXCEPT ![t] = [pc |-> "answered", op |-> op,
                                            result |-> r, unseen |-> x]]
        /\ thread[t].pc = "inside"
    BY <2>1 DEF Answer
  <2> HIDE DEF r, x
  <2>3. thread'[t].pc = "answered" /\ thread'[t].result = r
    BY <2>2, <1>0
  <2>4. CASE b \in {t} \X r.buffers
    <3>1. PICK c \in r.buffers : b = <<t, c>>
      BY <2>4
    <3> QED
      BY <3>1, <2>3
  <2>5. CASE b \in heap
    <3>1. PICK u \in Threads :
            /\ thread[u].pc = "answered"
            /\ \E c \in thread[u].result.buffers : b = <<u, c>>
      BY <2>5 DEF HeapOwned
    <3>2. u # t
      BY <3>1, <2>2
    <3> QED
      BY <3>1, <3>2, <1>3
  <2> QED
    BY <2>2, <2>4, <2>5
<1>6. CASE ~(Return(t) \/ \E op \in DOMAIN Reads, k \in Keys : Answer(t, op, k))
  <2>1. heap' = heap
    BY <1>6 DEF ReaderStep, Begin, Enter, InsideDeleted, Initialize,
       LookupThrows, BeginClose, CloseFinalize, CloseDelete, CloseForget, Close
  <2>2. thread[t].pc # "answered" \/ thread' = thread
    BY <1>6 DEF ReaderStep, Begin, Enter, InsideDeleted, Initialize,
       LookupThrows, BeginClose, CloseFinalize, CloseDelete, CloseForget, Close
  <2>3. PICK u \in Threads : /\ thread[u].pc = "answered"
                             /\ \E c \in thread[u].result.buffers : b = <<u, c>>
    BY <2>1 DEF HeapOwned
  <2>4. CASE thread' = thread
    BY <2>3, <2>4
  <2>5. CASE thread' # thread
    BY <2>2, <2>3, <2>5, <1>3
  <2> QED
    BY <2>4, <2>5
<1> QED
  BY <1>4, <1>5, <1>6

\* Where a step of a reader's thread starts and ends, and what it does to the
\* reader.
LEMMA ReaderPc ==
  ASSUME TypedReader, NEW t \in Threads, ReaderStep(t)
  PROVE  \/ thread' = thread /\ UNCHANGED readerVars
         \/ /\ thread[t].pc = "idle" /\ thread'[t].pc = "accepted"
            /\ \E op \in {"initialize", "lookup"} :
                 thread'[t].op = op /\ Accepted(t, op)
            /\ UNCHANGED readerVars
         \/ /\ thread[t].pc = "accepted" /\ thread'[t].pc = "inside"
            /\ thread'[t].op = thread[t].op
            /\ live /\ UNCHANGED readerVars
         \/ /\ thread[t].pc = "inside" /\ thread'[t].pc = "idle" /\ live
            /\ UNCHANGED <<live, closers>>
            /\ reader'.forgotBy = reader.forgotBy
            /\ reader.initialized => reader'.initialized
         \/ /\ thread[t].pc = "inside" /\ thread'[t].pc = "answered"
            /\ UNCHANGED readerVars
         \/ /\ thread[t].pc = "answered" /\ thread'[t].pc = "idle"
            /\ UNCHANGED readerVars
         \/ /\ thread[t].pc = "idle" /\ thread'[t].pc = "finalize"
            /\ language = "java" /\ TRUE \in SeenHandle(t)
            /\ closers' = closers \cup {t} /\ UNCHANGED <<reader, live>>
         \/ /\ thread[t].pc = "finalize" /\ thread'[t].pc = "delete"
            /\ UNCHANGED readerVars
         \/ /\ thread[t].pc = "delete" /\ thread'[t].pc = "forget"
            /\ UNCHANGED <<reader, closers>>
         \/ /\ thread[t].pc = "forget" /\ thread'[t].pc = "idle"
            /\ reader' = [reader EXCEPT !.forgotBy = @ \cup {t}]
            /\ UNCHANGED <<live, closers>>
         \/ /\ language = "python" /\ MayRun(t)
            /\ thread[t].pc = "idle" /\ thread' = thread
            /\ live' = FALSE /\ closers' = closers \cup {t}
            /\ reader' = [reader EXCEPT !.forgotBy = @ \cup {t},
                                        !.initialized = FALSE]
<1>0. thread \in [Threads -> States] /\ thread[t] \in States
  BY DEF TypedReader
<1>1. CASE \E op \in {"initialize", "lookup"} : Begin(t, op)
  BY <1>1, <1>0 DEF Begin
<1>2. CASE Enter(t)
  <2>1. thread[t] = [pc |-> "accepted", op |-> thread[t].op]
    BY <1>2, <1>0, StateKinds DEF Enter
  <2>2. UNCHANGED readerVars
    BY <1>2 DEF Enter
  <2>3. thread' = thread \/ (live /\ thread' = [thread EXCEPT ![t].pc = "inside"])
    BY <1>2 DEF Enter
  <2>4. thread' = [thread EXCEPT ![t].pc = "inside"] =>
          thread'[t].pc = "inside" /\ thread'[t].op = thread[t].op
    BY <2>1, <1>0
  <2> QED
    BY <1>2, <2>2, <2>3, <2>4 DEF Enter
<1>3. CASE InsideDeleted(t)
  BY <1>3 DEF InsideDeleted
<1>4. CASE \E ts \in 1 .. clock : Initialize(t, ts)
  <2>1. PICK ts \in 1 .. clock : Initialize(t, ts)
    BY <1>4
  <2>2. /\ thread[t].pc = "inside" /\ live
        /\ thread' = [thread EXCEPT ![t] = Idle]
        /\ UNCHANGED <<live, closers>>
    BY <2>1 DEF Initialize
  <2>3. \/ reader' = [reader EXCEPT !.initialized = TRUE,
                                    !.keys = disk[<<".", ts>>]]
        \/ reader' = reader
    BY <2>1 DEF Initialize
  <2>4. reader'.forgotBy = reader.forgotBy
        /\ (reader.initialized => reader'.initialized)
    BY <2>3 DEF TypedReader
  <2> QED
    BY <2>2, <2>4, <1>0 DEF Idle
<1>5. CASE \E op \in DOMAIN Reads, k \in Keys : Answer(t, op, k)
  <2>1. PICK op \in DOMAIN Reads, k \in Keys : Answer(t, op, k)
    BY <1>5
  <2> DEFINE r == CResult(op, k, reader.keys)
             u == k \notin reader.keys \/ Unseen(op, k)
  <2>2. /\ thread' = [thread EXCEPT ![t] = [pc |-> "answered", op |-> op,
                                            result |-> r, unseen |-> u]]
        /\ thread[t].pc = "inside" /\ UNCHANGED readerVars
    BY <2>1 DEF Answer
  <2> HIDE DEF r, u
  <2> QED
    BY <2>2, <1>0
<1>6. CASE Return(t)
  BY <1>6, <1>0 DEF Return, Idle
<1>7. CASE BeginClose(t)
  BY <1>7, <1>0 DEF BeginClose
<1>8. CASE CloseFinalize(t)
  <2>1. thread[t] = [pc |-> "finalize"]
    BY <1>8, <1>0, StateKinds DEF CloseFinalize, Closing
  <2>2. UNCHANGED readerVars
    BY <1>8 DEF CloseFinalize
  <2>3. thread' = thread \/ thread' = [thread EXCEPT ![t].pc = "delete"]
    BY <1>8 DEF CloseFinalize
  <2> QED
    BY <2>1, <2>2, <2>3, <1>0
<1>9. CASE CloseDelete(t)
  <2>1. thread[t] = [pc |-> "delete"]
    BY <1>9, <1>0, StateKinds DEF CloseDelete, Closing
  <2>2. UNCHANGED <<reader, closers>>
    BY <1>9 DEF CloseDelete
  <2>3. \/ thread' = thread /\ UNCHANGED live
        \/ thread' = [thread EXCEPT ![t].pc = "forget"]
    BY <1>9 DEF CloseDelete
  <2> QED
    BY <2>1, <2>2, <2>3, <1>0 DEF readerVars
<1>10. CASE CloseForget(t)
  BY <1>10, <1>0 DEF CloseForget, Idle
<1>11. CASE Close(t)
  BY <1>11 DEF Close
<1>12. CASE \E k \in Keys : LookupThrows(t, k)
  <2>1. /\ thread[t].pc = "inside" /\ live /\ UNCHANGED readerVars
        /\ thread' = thread \/ thread' = [thread EXCEPT ![t] = Idle]
    BY <1>12 DEF LookupThrows
  <2>2. UNCHANGED <<reader, live, closers>>
    BY <2>1 DEF readerVars
  <2> QED
    BY <2>1, <2>2, <1>0 DEF Idle
<1> QED
  BY <1>1, <1>2, <1>3, <1>4, <1>5, <1>6, <1>7, <1>8, <1>9, <1>10, <1>11, <1>12
     DEF ReaderStep

\* What a Java thread that is in a method knows when it finds the handle gone
\* or the reader deleted: another thread has closed it.
LEMMA ClosedByAnother ==
  ASSUME TypedReader, JavaOrder, language = "java", NEW t \in Threads,
         thread[t].pc \notin {"idle", "forget"},
         ~live \/ FALSE \in SeenHandle(t)
  PROVE  \E u \in closers : u # t
<1>1. t \notin reader.forgotBy
  BY DEF JavaOrder
<1>2. CASE ~live
  <2>1. PICK u \in Threads : u \in reader.forgotBy \/ thread[u].pc = "forget"
    BY <1>2 DEF JavaOrder
  <2> QED
    BY <1>1, <2>1 DEF JavaOrder, TypedReader, Closing
<1>3. CASE FALSE \in SeenHandle(t)
  <2>1. PICK u \in reader.forgotBy : TRUE
    BY <1>3 DEF SeenHandle
  <2> QED
    BY <1>1, <2>1 DEF TypedReader
<1> QED
  BY <1>2, <1>3

LEMMA ReaderJava ==
  ASSUME TypedReader, JavaOrder, NEW t \in Threads, ReaderStep(t)
  PROVE  JavaOrder'
<1>0. language' = language
  BY DEF ReaderStep, Begin, Enter, InsideDeleted, Initialize, Answer, Return, LookupThrows,
     BeginClose, CloseFinalize, CloseDelete, CloseForget, Close
<1>1. SUFFICES ASSUME language = "java" PROVE JavaOrder'
  BY <1>0 DEF JavaOrder
<1>2. \A u \in Threads \ {t} : thread'[u] = thread[u]
  BY ReaderMoves
<1>3. /\ \A u \in Threads : thread[u].pc \in Closing => u \in closers
      /\ \A u \in reader.forgotBy : thread[u].pc = "idle"
      /\ ~live => \E u \in Threads : u \in reader.forgotBy
                                     \/ thread[u].pc = "forget"
  BY <1>1 DEF JavaOrder
<1>4. TRUE \in SeenHandle(t) => t \notin reader.forgotBy
  BY DEF SeenHandle
<1>5. \A op \in {"initialize", "lookup"} :
        Accepted(t, op) => t \notin reader.forgotBy
  <2>1. \A op \in {"initialize", "lookup"} :
          Accepted(t, op) => TRUE \in SeenHandle(t)
    BY <1>1 DEF Accepted
  <2> QED
    BY <1>4, <2>1
<1>6. reader.forgotBy \subseteq Threads
  BY DEF TypedReader
<1>7. \A u \in Threads : thread'[u].pc \in Closing => u \in closers'
  BY <1>2, <1>3, ReaderPc, <1>1 DEF readerVars, Closing
<1>8. \A u \in reader'.forgotBy : thread'[u].pc = "idle"
  <2>1. CASE /\ thread'[t].pc = "idle"
             /\ reader' = [reader EXCEPT !.forgotBy = @ \cup {t}]
    <3>1. reader'.forgotBy = reader.forgotBy \cup {t}
      BY <2>1 DEF TypedReader
    <3> QED
      BY <2>1, <3>1, <1>2, <1>3, <1>6
  <2>2. CASE /\ reader'.forgotBy = reader.forgotBy
             /\ \/ t \notin reader.forgotBy
                \/ thread'[t].pc = "idle"
    BY <2>2, <1>2, <1>3, <1>6
  <2>3. CASE thread' = thread /\ reader' = reader
    BY <2>3, <1>3
  <2> QED
    BY <1>1, <1>3, <1>4, <1>5, <2>1, <2>2, <2>3, ReaderPc DEF readerVars
<1>9. ~live' => \E u \in Threads : u \in reader'.forgotBy
                                   \/ thread'[u].pc = "forget"
  BY <1>1, <1>2, <1>3, <1>6, ReaderPc DEF readerVars, TypedReader
<1> QED
  BY <1>7, <1>8, <1>9 DEF JavaOrder

LEMMA ReaderPython ==
  ASSUME TypedReader, PythonOrder, NEW t \in Threads, ReaderStep(t)
  PROVE  PythonOrder'
<1>0. language' = language
  BY DEF ReaderStep, Begin, Enter, InsideDeleted, Initialize, Answer, Return, LookupThrows,
     BeginClose, CloseFinalize, CloseDelete, CloseForget, Close
<1>1. SUFFICES ASSUME language = "python" PROVE PythonOrder'
  BY <1>0 DEF PythonOrder
<1>2. \A u \in Threads \ {t} : thread'[u] = thread[u]
  BY ReaderMoves
<1>3. /\ live = (reader.forgotBy = {})
      /\ reader.initialized => live
      /\ \A u \in Threads :
           /\ thread[u].pc \notin Closing
           /\ thread[u].pc = "inside" => live
           /\ thread[u].pc \in {"accepted", "inside"}
                /\ thread[u].op = "lookup" => reader.initialized
  BY <1>1 DEF PythonOrder
<1>4. Accepted(t, "lookup") => reader.initialized
  BY <1>1 DEF Accepted
<1>5. CASE /\ MayRun(t)
           /\ thread[t].pc = "idle" /\ thread' = thread
           /\ live' = FALSE /\ closers' = closers \cup {t}
           /\ reader' = [reader EXCEPT !.forgotBy = @ \cup {t},
                                       !.initialized = FALSE]
  <2>1. \A u \in Threads : thread'[u].pc = "idle"
    BY <1>1, <1>5 DEF MayRun
  <2>2. reader'.forgotBy # {} /\ ~reader'.initialized
    BY <1>5 DEF TypedReader
  <2> QED
    BY <1>5, <2>1, <2>2 DEF PythonOrder, Closing
<1>6. CASE UNCHANGED readerVars
  <2>1. live' = live /\ reader' = reader
    BY <1>6 DEF readerVars
  <2>2. /\ thread'[t].pc \notin Closing
        /\ thread'[t].pc = "inside" => live
        /\ thread'[t].pc \in {"accepted", "inside"}
             /\ thread'[t].op = "lookup" => reader.initialized
    BY <1>1, <1>3, <1>4, <2>1, ReaderPc DEF Closing
  <2> QED
    BY <1>2, <1>3, <2>1, <2>2 DEF PythonOrder
<1>7. CASE /\ thread[t].pc = "inside" /\ thread'[t].pc = "idle" /\ live
           /\ UNCHANGED <<live, closers>>
           /\ reader'.forgotBy = reader.forgotBy
           /\ reader.initialized => reader'.initialized
  <2>1. live' = live /\ reader'.forgotBy = reader.forgotBy
        /\ (reader.initialized => reader'.initialized)
    BY <1>7
  <2>2. "idle" \notin Closing
    BY DEF Closing
  <2>3. live' = (reader'.forgotBy = {})
    BY <1>3, <2>1
  <2>4. \A u \in Threads : thread'[u].pc = "idle" \/ thread'[u] = thread[u]
    BY <1>2, <1>7
  <2>5. \A u \in Threads :
          /\ thread'[u].pc \notin Closing
          /\ thread'[u].pc \in {"accepted", "inside"}
               /\ thread'[u].op = "lookup" => reader'.initialized
    BY <1>3, <2>1, <2>2, <2>4
  <2>6. live'
    BY <1>7
  <2> QED
    BY <2>3, <2>5, <2>6 DEF PythonOrder
<1> QED
  BY <1>1, <1>3, <1>5, <1>6, <1>7, ReaderPc DEF Closing

\* A step of a reader's thread that crashes has a cause.
LEMMA ReaderCrash ==
  ASSUME ReaderInv, CrashCauses, NEW t \in Threads, ReaderStep(t)
  PROVE  CrashCauses'
<1>0. UNCHANGED <<language, writer>> /\ crash = NoCrash
  BY DEF ReaderStep, Begin, Enter, InsideDeleted, Initialize, Answer, Return, LookupThrows,
     BeginClose, CloseFinalize, CloseDelete, CloseForget, Close, writerVars,
     MayRun, Running
<1>1. TypedReader /\ JavaOrder /\ PythonOrder /\ thread[t] \in States
  BY DEF ReaderInv, TypedReader
<1>2. language \in {"java", "python"}
  BY <1>1 DEF TypedReader
<1>3. CASE crash' = crash
  BY <1>0, <1>3 DEF CrashCauses
<1>4. ASSUME NEW why \in {"deleted handle", "null handle"}, NEW op,
             Crash(why, t, op), language = "java", UNCHANGED closers,
             thread[t].pc \notin {"idle", "forget"},
             ~live \/ FALSE \in SeenHandle(t)
      PROVE  CrashCauses'
  <2>1. \E u \in closers : u # t
    BY <1>1, <1>4, ClosedByAnother
  <2>2. crash'.why = why /\ crash'.thread = t
    BY <1>4 DEF Crash
  <2> QED
    BY <1>0, <1>4, <2>1, <2>2 DEF CrashCauses
<1>5. CASE Enter(t) /\ crash' # crash
  <2>1. PICK handle \in SeenHandle(t) :
          /\ ~(handle /\ live)
          /\ Crash(IF handle THEN "deleted handle" ELSE "null handle", t,
                   thread[t].op)
    BY <1>5 DEF Enter
  <2>2. thread[t].pc = "accepted" /\ UNCHANGED closers
    BY <1>5 DEF Enter, readerVars
  <2>3. handle \in BOOLEAN
    BY <2>1, Zenon DEF SeenHandle
  <2>4. CASE language = "java"
    <3>1. ~live \/ FALSE \in SeenHandle(t)
      BY <2>1, <2>3
    <3>2. (IF handle THEN "deleted handle" ELSE "null handle")
            \in {"deleted handle", "null handle"}
      OBVIOUS
    <3> QED
      BY <1>4, <2>1, <2>2, <2>4, <3>1, <3>2
  <2>5. CASE language = "python"
    <3>1. ~handle
      BY <1>1, <2>1, <2>3, <2>5 DEF PythonOrder, SeenHandle
    <3>2. reader.forgotBy # {}
      BY <2>1, <3>1 DEF SeenHandle
    <3>3. ~reader.initialized
      BY <1>1, <2>5, <3>2 DEF PythonOrder
    <3>4. thread[t].op = "initialize"
      BY <1>1, <2>2, <2>5, <3>3, StateKinds DEF PythonOrder
    <3>5. crash'.why = "null handle" /\ crash'.op = "initialize"
      BY <2>1, <3>1, <3>4 DEF Crash
    <3> QED
      BY <1>0, <2>5, <3>5 DEF CrashCauses
  <2> QED
    BY <1>2, <2>4, <2>5
<1>6. CASE InsideDeleted(t)
  <2>1. /\ Crash("deleted handle", t, thread[t].op)
        /\ thread[t].pc = "inside" /\ ~live /\ UNCHANGED closers
    BY <1>6 DEF InsideDeleted, readerVars
  <2>2. language = "java"
    BY <1>1, <1>2, <2>1 DEF PythonOrder
  <2> QED
    BY <1>4, <2>1, <2>2
<1>7. CASE (CloseFinalize(t) \/ CloseDelete(t)) /\ crash' # crash
  <2>1. /\ Crash("deleted handle", t, "close")
        /\ thread[t].pc \in {"finalize", "delete"} /\ ~live
        /\ UNCHANGED closers
    BY <1>7 DEF CloseFinalize, CloseDelete, readerVars
  <2>2. language = "java"
    BY <1>1, <1>2, <2>1 DEF PythonOrder, Closing
  <2> QED
    BY <1>4, <2>1, <2>2
<1>8. CASE \E k \in Keys : LookupThrows(t, k) /\ crash' # crash
  <2>1. PICK k \in Keys : LookupThrows(t, k) /\ crash' # crash
    BY <1>8
  <2>2. /\ Throws("getFloatVector", k, reader.keys) /\ language = "java"
        /\ crash' = [why |-> "exception", op |-> "getFloatVector",
                     thread |-> t]
        /\ reader' = reader
    BY <2>1 DEF LookupThrows, Crash, readerVars
  <2>3. \E x \in reader'.keys : Stored[x].type = "String"
    BY <2>2 DEF Throws
  <2>4. crash'.why = "exception" /\ crash'.op = "getFloatVector"
    BY <2>2
  <2> QED
    BY <1>0, <2>2, <2>3, <2>4 DEF CrashCauses
<1> QED
  BY <1>3, <1>5, <1>6, <1>7, <1>8 DEF ReaderStep, Begin, Initialize, Answer,
     Return, BeginClose, CloseForget, Close

-----------------------------------------------------------------------------
(* The writer and its files *)

LEMMA SettingsTyped ==
  WriterSettings \subseteq [folder : Folders, dotted : BOOLEAN]
<1>1. NoWriter.settings = [folder |-> ".", dotted |-> FALSE]
  BY DEF NoWriter
<1>2. NoWriter.settings \in [folder : Folders, dotted : BOOLEAN]
  BY <1>1 DEF Folders
<1> QED
  BY <1>2, Zenon DEF WriterSettings, Folders

\* The files after a write or a rename.
LEMMA FilesTyped ==
  ASSUME NEW files, files \in [DOMAIN files -> SUBSET Keys],
         DOMAIN files \subseteq Folders \X (0 .. clock),
         NEW path \in Folders \X (0 .. clock), NEW keys \in SUBSET Keys
  PROVE  /\ SetFile(files, path, keys)
              \in [DOMAIN SetFile(files, path, keys) -> SUBSET Keys]
         /\ DOMAIN SetFile(files, path, keys) \subseteq Folders \X (0 .. clock)
         /\ \A from : /\ Renamed(files, from, path)
                           \in [DOMAIN Renamed(files, from, path)
                                  -> SUBSET Keys]
                      /\ DOMAIN Renamed(files, from, path)
                           \subseteq Folders \X (0 .. clock)
<1>1. ASSUME NEW ks \in SUBSET Keys
      PROVE  SetFile(files, path, ks) \in [DOMAIN files \cup {path} -> SUBSET Keys]
  BY <1>1 DEF SetFile
<1>2. ASSUME NEW from, from \in DOMAIN files
      PROVE  Renamed(files, from, path)
               \in [(DOMAIN files \cup {path}) \ {from} -> SUBSET Keys]
  <2> DEFINE set == SetFile(files, path, files[from])
  <2>1. set \in [DOMAIN files \cup {path} -> SUBSET Keys]
    BY <1>1, <1>2
  <2>2. Renamed(files, from, path) = Without(set, from)
    BY <1>2 DEF Renamed
  <2> HIDE DEF set
  <2> QED
    BY <2>1, <2>2 DEF Without
<1>3. ASSUME NEW from, from \notin DOMAIN files
      PROVE  Renamed(files, from, path) = files
  BY <1>3 DEF Renamed
<1>4. \A from : /\ Renamed(files, from, path)
                     \in [DOMAIN Renamed(files, from, path) -> SUBSET Keys]
                /\ DOMAIN Renamed(files, from, path)
                     \subseteq Folders \X (0 .. clock)
  <2> TAKE from
  <2>1. CASE from \in DOMAIN files
    <3>1. DOMAIN Renamed(files, from, path)
            = (DOMAIN files \cup {path}) \ {from}
      BY <1>2, <2>1
    <3> QED
      BY <1>2, <2>1, <3>1
  <2>2. CASE from \notin DOMAIN files
    BY <1>3, <2>2
  <2> QED
    BY <2>1, <2>2
<1>5. DOMAIN SetFile(files, path, keys) = DOMAIN files \cup {path}
  BY DEF SetFile
<1> QED
  BY <1>1, <1>4, <1>5

WriterRecords ==
  [object : BOOLEAN, handle : BOOLEAN, builder : BOOLEAN, keys : SUBSET Keys,
   next : Nat \ {0}, finished : BOOLEAN,
   settings : [folder : Folders, dotted : BOOLEAN]]

LEMMA NoWriterTyped ==
  /\ NoWriter \in WriterRecords
  /\ ~NoWriter.object /\ ~NoWriter.handle /\ ~NoWriter.builder
BY DEF NoWriter, WriterRecords, Folders

\* The writer object after each of its calls, and what it holds.
LEMMA WriterMoves ==
  ASSUME language \in {"java", "python"}, TypedWriter, WriterOrder, WriterStep
  PROVE  /\ writer' \in WriterRecords
         /\ WriterOrder'
         /\ writers' \in 0 .. Len(Inputs)
         /\ writer'.object => writers' # 0
<1>0. /\ writer \in WriterRecords
      /\ writers \in 0 .. Len(Inputs)
      /\ writer.object => writers # 0
  BY DEF TypedWriter, WriterRecords
<1>1. language' = language
  BY DEF WriterStep, NewWriter, InitializeWriter, InsertKey, InsertKeyThrows,
     NullBuilder, FinishAddDuplicateValuesNull, FinishJava, FinishPython,
     CloseWriter, DropWriter, HasHandle, InWriter
<1>2. CASE NewWriter
  <2>1. writers' \in 1 .. Len(Inputs)
    <3>1. Len(Inputs) \in Nat
      BY InputAssumption
    <3>2. writers' = writers + 1 /\ writers < Len(Inputs)
      BY <1>2 DEF NewWriter
    <3> QED
      BY <1>0, <3>1, <3>2
  <2>2. CASE language = "java"
    <3>1. writer' = [NoWriter EXCEPT !.object = TRUE, !.handle = TRUE]
      BY <1>2, <2>2 DEF NewWriter
    <3>2. writer' \in WriterRecords /\ writer'.object /\ writer'.handle
          /\ ~writer'.builder
      BY <3>1, NoWriterTyped DEF WriterRecords
    <3> QED
      BY <1>1, <2>1, <2>2, <3>2 DEF WriterOrder
  <2>3. CASE language = "python"
    <3>1. PICK ret \in {0, 1, 3}, settings \in WriterSettings :
            writer' = IF ret = 0
                      THEN [NoWriter EXCEPT !.object = TRUE, !.handle = TRUE,
                                            !.builder = TRUE,
                                            !.settings = settings]
                      ELSE NoWriter
      BY <1>2, <2>3 DEF NewWriter
    <3>2. settings \in [folder : Folders, dotted : BOOLEAN]
      BY SettingsTyped
    <3>3. CASE writer' = NoWriter
      BY <2>1, <3>3, NoWriterTyped DEF WriterOrder
    <3>4. CASE writer' = [NoWriter EXCEPT !.object = TRUE, !.handle = TRUE,
                                          !.builder = TRUE,
                                          !.settings = settings]
      <4>1. writer' \in WriterRecords /\ writer'.object /\ writer'.handle
            /\ writer'.builder
        BY <3>2, <3>4, NoWriterTyped DEF WriterRecords
      <4> QED
        BY <2>1, <4>1 DEF WriterOrder
    <3> QED
      BY <3>1, <3>3, <3>4
  <2> QED
    BY <2>2, <2>3
<1>3. CASE InitializeWriter
  <2>1. /\ language = "java" /\ writer.handle /\ writer.object
        /\ writers' = writers
    BY <1>3 DEF InitializeWriter, HasHandle, InWriter
  <2>2. PICK ret \in {0, 1, 3}, settings \in WriterSettings :
          writer' = IF ret = 0
                    THEN [writer EXCEPT !.builder = TRUE, !.keys = {},
                                        !.next = 1, !.finished = FALSE,
                                        !.settings = settings]
                    ELSE writer
    BY <1>3 DEF InitializeWriter
  <2>3. settings \in [folder : Folders, dotted : BOOLEAN]
    BY SettingsTyped
  <2>4. CASE writer' = writer
    BY <1>0, <1>1, <2>1, <2>4 DEF WriterOrder
  <2>5. CASE writer' = [writer EXCEPT !.builder = TRUE, !.keys = {},
                                      !.next = 1, !.finished = FALSE,
                                      !.settings = settings]
    <3>1. writer' \in WriterRecords
      <4>1. {} \in SUBSET Keys /\ 1 \in Nat \ {0}
        OBVIOUS
      <4> QED
        BY <4>1, <1>0, <2>3, <2>5, Zenon DEF WriterRecords
    <3>2. /\ writer'.object = writer.object /\ writer'.handle = writer.handle
          /\ writer'.builder = TRUE
      BY <1>0, <2>5 DEF WriterRecords
    <3> QED
      BY <1>0, <2>1, <3>1, <3>2 DEF WriterOrder
  <2> QED
    BY <2>2, <2>4, <2>5
<1>4. CASE InsertKey \/ (InsertKeyThrows /\ writer' # writer)
  <2>1. /\ writer.handle /\ writer.object /\ writer.builder
        /\ writers' = writers /\ writer.next <= Len(Input)
    BY <1>4 DEF InsertKey, InsertKeyThrows, HasHandle, InWriter, WriterCrash,
       writerVars
  <2>2. \/ /\ Input[writer.next] \notin BadFloats
           /\ writer' = [writer EXCEPT !.next = @ + 1,
                                       !.keys = @ \cup {Input[writer.next]}]
        \/ writer' = [writer EXCEPT !.next = @ + 1]
    BY <1>4 DEF InsertKey, InsertKeyThrows, WriterCrash, writerVars
  <2>3. Input \in Seq(Keys \cup BadFloats)
    BY <1>0, <2>1, InputAssumption DEF Input
  <2>4. writer.next \in Nat \ {0}
    BY <1>0 DEF WriterRecords
  <2>5. Input[writer.next] \in Keys \cup BadFloats
    BY <2>1, <2>3, <2>4
  <2> DEFINE x == Input[writer.next]
  <2>6. /\ x \in Keys \cup BadFloats
        /\ \/ /\ x \notin BadFloats
              /\ writer' = [writer EXCEPT !.next = @ + 1, !.keys = @ \cup {x}]
           \/ writer' = [writer EXCEPT !.next = @ + 1]
    BY <2>2, <2>5
  <2> HIDE DEF x
  <2>7. writer' \in WriterRecords
    <3>1. writer.next + 1 \in Nat \ {0}
      BY <2>4
    <3>2. x \notin BadFloats => writer.keys \cup {x} \in SUBSET Keys
      BY <1>0, <2>6 DEF WriterRecords
    <3>3. CASE writer' = [writer EXCEPT !.next = @ + 1]
      BY <1>0, <3>1, <3>3 DEF WriterRecords
    <3>4. CASE /\ x \notin BadFloats
               /\ writer' = [writer EXCEPT !.next = @ + 1, !.keys = @ \cup {x}]
      BY <1>0, <3>1, <3>2, <3>4 DEF WriterRecords
    <3> QED
      BY <2>6, <3>3, <3>4
  <2>8. /\ writer'.object = writer.object /\ writer'.handle = writer.handle
        /\ writer'.builder = writer.builder
    BY <1>0, <2>6 DEF WriterRecords
  <2> QED
    BY <1>0, <2>1, <2>7, <2>8 DEF WriterOrder
<1>5. CASE FinishJava \/ FinishPython
  <2>1. writer.handle /\ writer.object /\ writers' = writers
    BY <1>5 DEF FinishJava, FinishPython, HasHandle, InWriter
  <2>2. writer' = [writer EXCEPT !.builder = FALSE, !.keys = {},
                                 !.finished = TRUE]
    BY <1>5 DEF FinishJava, FinishPython, Finished
  <2>3. /\ writer' \in WriterRecords /\ writer'.object /\ writer'.handle
        /\ writer'.finished
    BY <1>0, <2>1, <2>2 DEF WriterRecords
  <2> QED
    BY <1>0, <2>1, <2>3 DEF WriterOrder
<1>6. CASE CloseWriter
  <2>1. writer.object /\ writers' = writers
    BY <1>6 DEF CloseWriter, HasHandle, InWriter
  <2>2. writer' = [writer EXCEPT !.handle = FALSE, !.builder = FALSE,
                                 !.keys = {}]
    BY <1>6 DEF CloseWriter
  <2>3. writer' \in WriterRecords /\ ~writer'.handle /\ ~writer'.builder
    BY <1>0, <2>2 DEF WriterRecords
  <2> QED
    BY <1>0, <2>1, <2>3 DEF WriterOrder
<1>7. CASE DropWriter
  BY <1>0, <1>7, NoWriterTyped DEF DropWriter, WriterOrder
<1>8. CASE writer' = writer /\ writers' = writers
  BY <1>0, <1>1, <1>8 DEF WriterOrder
<1> QED
  BY <1>2, <1>3, <1>4, <1>5, <1>6, <1>7, <1>8 DEF WriterStep, InsertKeyThrows,
     NullBuilder, FinishAddDuplicateValuesNull, WriterCrash, writerVars

\* What is on disk and what was returned, as WriterInv has it.
FilesInv ==
  /\ clock \in Nat \ {0}
  /\ disk \in [DOMAIN disk -> SUBSET Keys]
  /\ DOMAIN disk \subseteq Folders \X (0 .. clock)
  /\ DOMAIN returned \subseteq 1 .. clock
  /\ language = "java" => DOMAIN returned = {}
  /\ ReturnedTimestampLoads

\* finish_cache_creation of Python replaces what its timestamp names, and the
\* cache that was returned before with the same timestamp, together.
LEMMA FinishPythonFiles ==
  ASSUME FilesInv, writer \in WriterRecords, FinishPython
  PROVE  FilesInv'
<1> DEFINE zero == <<writer.settings.folder, 0>>
           here == <<".", 0>>
           now == <<".", clock>>
           written == SetFile(disk, zero, writer.keys)
<1>0. /\ language = "python" /\ language' = language /\ clock' = clock
      /\ disk' = IF writer.settings.dotted THEN written
                 ELSE Renamed(written, here, now)
      /\ returned' = IF writer.settings = [folder |-> ".", dotted |-> FALSE]
                     THEN SetFile(returned, clock, writer.keys)
                     ELSE Without(returned, clock)
  BY DEF FinishPython, HasHandle, InWriter
<1>1. /\ writer.keys \in SUBSET Keys
      /\ writer.settings \in [folder : Folders, dotted : BOOLEAN]
      /\ writer.settings.folder \in Folders
  BY DEF WriterRecords
<1>2. /\ zero \in Folders \X (0 .. clock)
      /\ now \in Folders \X (0 .. clock)
  BY <1>1 DEF FilesInv, Folders
<1>3. clock \in Nat \ {0} /\ DOMAIN returned \subseteq 1 .. clock
  BY DEF FilesInv
<1>4. /\ written \in [DOMAIN written -> SUBSET Keys]
      /\ DOMAIN written \subseteq Folders \X (0 .. clock)
  BY <1>1, <1>2, FilesTyped DEF FilesInv
<1>5. /\ DOMAIN written = DOMAIN disk \cup {zero}
      /\ written[zero] = writer.keys
      /\ \A p \in DOMAIN disk \ {zero} : written[p] = disk[p]
  BY DEF written, SetFile
<1>6. \A ts \in 1 .. clock : <<".", ts>> # zero /\ <<".", ts>> # here
  <2>1. \A ts \in 1 .. clock : ts # 0
    OBVIOUS
  <2> QED
    BY <2>1
<1> HIDE DEF written, zero, here, now
<1>7. /\ disk' \in [DOMAIN disk' -> SUBSET Keys]
      /\ DOMAIN disk' \subseteq Folders \X (0 .. clock)
  <2>1. /\ Renamed(written, here, now)
              \in [DOMAIN Renamed(written, here, now) -> SUBSET Keys]
        /\ DOMAIN Renamed(written, here, now) \subseteq Folders \X (0 .. clock)
    BY <1>1, <1>2, <1>4, FilesTyped
  <2>2. CASE writer.settings.dotted
    BY <1>0, <1>4, <2>2
  <2>3. CASE ~writer.settings.dotted
    BY <1>0, <2>1, <2>3
  <2> QED
    BY <2>2, <2>3
<1>8. /\ DOMAIN returned' \subseteq 1 .. clock
      /\ \A ts \in DOMAIN returned' \ {clock} :
           ts \in DOMAIN returned /\ returned'[ts] = returned[ts]
  <2>1. /\ DOMAIN SetFile(returned, clock, writer.keys)
             = DOMAIN returned \cup {clock}
        /\ \A ts \in DOMAIN returned \ {clock} :
             SetFile(returned, clock, writer.keys)[ts] = returned[ts]
        /\ DOMAIN Without(returned, clock) = DOMAIN returned \ {clock}
        /\ \A ts \in DOMAIN returned \ {clock} :
             Without(returned, clock)[ts] = returned[ts]
    BY DEF SetFile, Without
  <2>2. CASE returned' = SetFile(returned, clock, writer.keys)
    BY <1>3, <2>1, <2>2
  <2>3. CASE returned' = Without(returned, clock)
    BY <1>3, <2>1, <2>3
  <2> QED
    BY <1>0, <2>2, <2>3
<1>9. \A ts \in 1 .. clock :
        ts # clock /\ <<".", ts>> \in DOMAIN disk =>
          <<".", ts>> \in DOMAIN disk' /\ disk'[<<".", ts>>] = disk[<<".", ts>>]
  <2> SUFFICES ASSUME NEW ts \in 1 .. clock, ts # clock,
                      <<".", ts>> \in DOMAIN disk
               PROVE  /\ <<".", ts>> \in DOMAIN disk'
                      /\ disk'[<<".", ts>>] = disk[<<".", ts>>]
    OBVIOUS
  <2> DEFINE p == <<".", ts>>
  <2>1. p # zero /\ p # here /\ p # now
    BY <1>6 DEF now
  <2>2. p \in DOMAIN written /\ written[p] = disk[p]
    BY <1>5, <2>1
  <2> HIDE DEF p
  <2>3. CASE here \in DOMAIN written
    <3> DEFINE set == SetFile(written, now, written[here])
    <3>1. p \in DOMAIN set /\ set[p] = written[p]
      BY <2>1, <2>2 DEF SetFile, Without
    <3>2. Renamed(written, here, now) = Without(set, here)
      BY <2>3 DEF Renamed
    <3> HIDE DEF set
    <3>3. p \in DOMAIN Without(set, here) /\ Without(set, here)[p] = set[p]
      BY <2>1, <3>1 DEF SetFile, Without
    <3> QED
      BY <1>0, <2>2, <3>1, <3>2, <3>3 DEF p
  <2>4. CASE here \notin DOMAIN written
    <3>1. Renamed(written, here, now) = written
      BY <2>4 DEF Renamed
    <3> QED
      BY <1>0, <2>2, <3>1 DEF p
  <2> QED
    BY <2>3, <2>4
<1>10. clock \in DOMAIN returned' =>
         now \in DOMAIN disk' /\ disk'[now] = returned'[clock]
  <2> SUFFICES ASSUME clock \in DOMAIN returned'
               PROVE  now \in DOMAIN disk' /\ disk'[now] = returned'[clock]
    OBVIOUS
  <2>1. clock \notin DOMAIN Without(returned, clock)
    BY DEF SetFile, Without
  <2>2. writer.settings = [folder |-> ".", dotted |-> FALSE]
        /\ returned' = SetFile(returned, clock, writer.keys)
    BY <1>0, <2>1
  <2>3. returned'[clock] = writer.keys
    BY <2>2 DEF SetFile, Without
  <2>4. zero = here /\ ~writer.settings.dotted
    BY <2>2 DEF zero, here
  <2>5. here \in DOMAIN written /\ written[here] = writer.keys
    BY <1>5, <2>4
  <2> DEFINE set == SetFile(written, now, written[here])
  <2>6. now \in DOMAIN set /\ set[now] = writer.keys
    BY <2>5 DEF SetFile, Without
  <2>7. disk' = Without(set, here)
    BY <1>0, <2>4, <2>5 DEF Renamed
  <2>8. now # here
    BY <1>3 DEF now, here
  <2> HIDE DEF set
  <2>9. now \in DOMAIN Without(set, here) /\ Without(set, here)[now] = set[now]
    BY <2>6, <2>8 DEF SetFile, Without
  <2> QED
    BY <2>3, <2>6, <2>7, <2>9
<1>11. ReturnedTimestampLoads'
  <2> SUFFICES ASSUME NEW ts \in DOMAIN returned'
               PROVE  /\ <<".", ts>> \in DOMAIN disk'
                      /\ disk'[<<".", ts>>] = returned'[ts]
    BY DEF ReturnedTimestampLoads
  <2>1. CASE ts = clock
    BY <1>10, <2>1 DEF now
  <2>2. CASE ts # clock
    <3>1. ts \in DOMAIN returned /\ returned'[ts] = returned[ts]
      BY <1>8, <2>2
    <3>2. <<".", ts>> \in DOMAIN disk /\ disk[<<".", ts>>] = returned[ts]
      BY <3>1 DEF FilesInv, ReturnedTimestampLoads
    <3>3. ts \in 1 .. clock
      BY <1>8
    <3> QED
      BY <1>9, <2>2, <3>1, <3>2, <3>3
  <2> QED
    BY <2>1, <2>2
<1> QED
  BY <1>0, <1>3, <1>7, <1>8, <1>11 DEF FilesInv

\* The other steps that change files are of Java, where no timestamp is
\* returned.
LEMMA FilesKept ==
  ASSUME FilesInv, writer \in WriterRecords,
         WriterStep \/ ApplicationRenames \/ Tick
  PROVE  FilesInv'
<1>0. language' = language
  BY DEF WriterStep, NewWriter, InitializeWriter, InsertKey, InsertKeyThrows,
     NullBuilder, FinishAddDuplicateValuesNull, FinishJava, FinishPython,
     CloseWriter, DropWriter, HasHandle, InWriter, ApplicationRenames, Tick
<1>1. CASE FinishPython
  BY <1>1, FinishPythonFiles
<1>2. ASSUME language = "java", UNCHANGED <<clock, returned>>,
             disk' \in [DOMAIN disk' -> SUBSET Keys],
             DOMAIN disk' \subseteq Folders \X (0 .. clock)
      PROVE  FilesInv'
  BY <1>0, <1>2 DEF FilesInv, ReturnedTimestampLoads
<1>3. CASE FinishJava
  <2>1. /\ writer.keys \in SUBSET Keys
        /\ writer.settings.folder \in Folders
    BY DEF WriterRecords
  <2>2. <<writer.settings.folder, 0>> \in Folders \X (0 .. clock)
    BY <2>1 DEF FilesInv
  <2>3. /\ disk' = SetFile(disk, <<writer.settings.folder, 0>>, writer.keys)
        /\ language = "java" /\ UNCHANGED <<clock, returned>>
    BY <1>3 DEF FinishJava
  <2> QED
    BY <1>2, <2>1, <2>2, <2>3, FilesTyped DEF FilesInv
<1>4. CASE ApplicationRenames
  <2>1. <<".", clock>> \in Folders \X (0 .. clock) /\ {} \in SUBSET Keys
    BY DEF FilesInv, Folders
  <2>2. /\ disk' = Renamed(disk, <<".", 0>>, <<".", clock>>)
        /\ language = "java" /\ UNCHANGED <<clock, returned>>
    BY <1>4 DEF ApplicationRenames
  <2> QED
    BY <1>2, <2>1, <2>2, FilesTyped DEF FilesInv
<1>5. CASE Tick
  <2>1. clock' = clock + 1 /\ UNCHANGED <<language, disk, returned>>
    BY <1>5 DEF Tick
  <2>2. clock \in Nat \ {0} /\ DOMAIN disk \subseteq Folders \X (0 .. clock)
    BY DEF FilesInv
  <2>3. 0 .. clock \subseteq 0 .. clock' /\ 1 .. clock \subseteq 1 .. clock'
    BY <2>1, <2>2
  <2>4. DOMAIN disk' \subseteq Folders \X (0 .. clock')
    BY <2>1, <2>2, <2>3
  <2> QED
    BY <2>1, <2>2, <2>3, <2>4 DEF FilesInv, ReturnedTimestampLoads
<1>6. CASE UNCHANGED <<disk, clock, returned>>
  BY <1>0, <1>6 DEF FilesInv, ReturnedTimestampLoads
<1> QED
  BY <1>1, <1>3, <1>4, <1>5, <1>6 DEF WriterStep, NewWriter, InitializeWriter,
     InsertKey, InsertKeyThrows, NullBuilder, FinishAddDuplicateValuesNull,
     CloseWriter, DropWriter, WriterCrash, writerVars

LEMMA WriterSteps ==
  ASSUME TypedReader, WriterInv, WriterStep \/ ApplicationRenames \/ Tick
  PROVE  WriterInv'
<1>1. FilesInv /\ writer \in WriterRecords /\ language \in {"java", "python"}
  BY DEF WriterInv, TypedWriter, FilesInv, WriterRecords, TypedReader
<1>2. FilesInv'
  BY <1>1, FilesKept
<1>3. /\ writer' \in WriterRecords /\ WriterOrder'
      /\ writers' \in 0 .. Len(Inputs) /\ (writer'.object => writers' # 0)
  <2>1. CASE WriterStep
    BY <1>1, <2>1, WriterMoves DEF WriterInv
  <2>2. CASE UNCHANGED <<writer, writers, language>>
    BY <1>1, <2>2 DEF WriterInv, TypedWriter, WriterOrder
  <2> QED
    BY <2>1, <2>2 DEF ApplicationRenames, Tick
<1> QED
  BY <1>2, <1>3 DEF WriterInv, TypedWriter, FilesInv, WriterRecords

\* The writer crashes without its builder, with a text that is no float list,
\* or without its handle in the one method that does not look at it.
LEMMA WriterCrashes ==
  ASSUME TypedReader, WriterInv, CrashCauses,
         WriterStep \/ ApplicationRenames \/ Tick
  PROVE  CrashCauses'
<1>0. language' = language /\ language \in {"java", "python"}
      /\ crash = NoCrash
  BY DEF WriterStep, NewWriter, InitializeWriter, InsertKey, InsertKeyThrows,
     NullBuilder, FinishAddDuplicateValuesNull, FinishJava, FinishPython,
     CloseWriter, DropWriter, HasHandle, InWriter, ApplicationRenames, Tick,
     TypedReader, Running
<1>1. CASE crash' = crash
  BY <1>0, <1>1 DEF CrashCauses
<1>2. CASE NullBuilder
  <2>1. /\ writer.handle /\ ~writer.builder /\ UNCHANGED writer
        /\ crash' = [why |-> "null builder", op |-> "writer",
                     thread |-> "writer"]
    BY <1>2 DEF NullBuilder, HasHandle, WriterCrash, writerVars, Crash
  <2>2. crash'.why = "null builder"
    BY <2>1
  <2> QED
    BY <1>0, <2>1, <2>2 DEF CrashCauses, WriterInv, WriterOrder
<1>3. CASE InsertKeyThrows /\ crash' # crash
  <2>1. /\ language = "java"
        /\ Input[writer.next] \in BadFloats /\ UNCHANGED <<writer, writers>>
        /\ crash' = [why |-> "exception", op |-> "insertKey",
                     thread |-> "writer"]
    BY <1>3 DEF InsertKeyThrows, WriterCrash, Crash, writerVars
  <2>2. crash'.why = "exception" /\ crash'.op = "insertKey"
    BY <2>1
  <2>3. Input'[writer'.next] \in BadFloats
    BY <2>1 DEF Input
  <2> QED
    BY <1>0, <2>1, <2>2, <2>3 DEF CrashCauses
<1>4. CASE FinishAddDuplicateValuesNull
  <2>1. /\ language = "python"
        /\ crash' = [why |-> "null handle",
                     op |-> "finishAddDuplicateValues", thread |-> "writer"]
    BY <1>4 DEF FinishAddDuplicateValuesNull, WriterCrash, Crash
  <2>2. crash'.why = "null handle" /\ crash'.op = "finishAddDuplicateValues"
    BY <2>1
  <2> QED
    BY <1>0, <2>1, <2>2 DEF CrashCauses
<1> QED
  BY <1>1, <1>2, <1>3, <1>4 DEF WriterStep, NewWriter, InitializeWriter,
     InsertKey, FinishJava, FinishPython, CloseWriter, DropWriter,
     ApplicationRenames, Tick

-----------------------------------------------------------------------------
(* The invariant *)

LEMMA InitInvariant == Init => IInv
<1> SUFFICES ASSUME Init PROVE IInv
  OBVIOUS
<1>1. TypedReader
  <2>1. Idle \in States
    BY Reached DEF Idle
  <2> QED
    BY <2>1 DEF Init, TypedReader
<1>2. \A t \in Threads : thread[t].pc = "idle"
  BY DEF Init, Idle
<1>3. HeapOwned /\ JavaOrder /\ PythonOrder
  BY <1>2 DEF Init, HeapOwned, JavaOrder, PythonOrder, Closing
<1>4. TypedWriter
  <2>1. disk \in [DOMAIN disk -> SUBSET Keys]
    BY InputAssumption DEF Init
  <2>2. DOMAIN disk \subseteq Folders \X (0 .. clock)
    BY DEF Init, Folders
  <2>3. writers \in 0 .. Len(Inputs) /\ DOMAIN returned \subseteq 1 .. clock
        /\ clock \in Nat \ {0}
    BY InputAssumption DEF Init
  <2>4. writer \in WriterRecords /\ ~writer.object
    BY NoWriterTyped DEF Init
  <2> QED
    BY <2>1, <2>2, <2>3, <2>4 DEF TypedWriter, WriterRecords
<1>5. WriterOrder /\ ReturnedTimestampLoads /\ DOMAIN returned = {}
  BY NoWriterTyped DEF Init, WriterOrder, ReturnedTimestampLoads
<1>6. CrashCauses
  BY DEF Init, CrashCauses
<1> QED
  BY <1>1, <1>3, <1>4, <1>5, <1>6 DEF IInv, ReaderInv, WriterInv

LEMMA NextInvariant == IInv /\ [Next]_vars => IInv'
<1> SUFFICES ASSUME IInv, [Next]_vars PROVE IInv'
  OBVIOUS
<1>1. ASSUME NEW t \in Threads, ReaderStep(t) PROVE IInv'
  <2>1. ReaderInv'
    BY <1>1, ReaderTyped, ReaderHeap, ReaderJava, ReaderPython
       DEF IInv, ReaderInv, WriterInv
  <2>2. UNCHANGED writerVars /\ language' = language
    BY <1>1 DEF ReaderStep, Begin, Enter, InsideDeleted, Initialize, Answer,
       Return, LookupThrows, BeginClose, CloseFinalize, CloseDelete, CloseForget, Close
  <2>3. WriterInv'
    BY <2>2 DEF IInv, WriterInv, TypedWriter, WriterOrder,
       ReturnedTimestampLoads, writerVars
  <2>4. CrashCauses'
    BY <1>1, ReaderCrash DEF IInv
  <2> QED
    BY <2>1, <2>3, <2>4 DEF IInv
<1>2. CASE WriterStep \/ ApplicationRenames \/ Tick
  <2>1. UNCHANGED <<language, readerVars, thread, heap>>
    BY <1>2 DEF WriterStep, NewWriter, InitializeWriter, InsertKey,
       InsertKeyThrows, NullBuilder, FinishAddDuplicateValuesNull, FinishJava,
       FinishPython, CloseWriter, DropWriter, HasHandle, InWriter,
       ApplicationRenames, Tick
  <2>2. ReaderInv'
    BY <2>1 DEF IInv, ReaderInv, TypedReader, HeapOwned, JavaOrder,
       PythonOrder, readerVars
  <2>3. WriterInv' /\ CrashCauses'
    BY <1>2, WriterSteps, WriterCrashes DEF IInv, ReaderInv
  <2> QED
    BY <2>2, <2>3 DEF IInv
<1>3. CASE UNCHANGED vars
  <2>1. UNCHANGED <<language, reader, live, closers, thread, heap, writer,
                    writers, disk, clock, returned, crash>>
    BY <1>3 DEF vars, readerVars, writerVars
  <2>2. ReaderInv'
    BY <2>1 DEF IInv, ReaderInv, TypedReader, HeapOwned, JavaOrder,
       PythonOrder
  <2>3. WriterInv'
    BY <2>1 DEF IInv, WriterInv, TypedWriter, WriterOrder,
       ReturnedTimestampLoads
  <2>4. CrashCauses'
    BY <2>1 DEF IInv, CrashCauses, Input
  <2> QED
    BY <2>2, <2>3, <2>4 DEF IInv
<1> QED
  BY <1>1, <1>2, <1>3 DEF Next

LEMMA Invariance == Spec => []IInv
BY InitInvariant, NextInvariant, PTL DEF Spec

-----------------------------------------------------------------------------
(* Theorems *)

\* Every variable has its type: the cache that a reader uses and the files
\* hold keys that were inserted, whoever renames and loads them.
THEOREM TypeCorrect == Spec => []TypeOK
<1>1. IInv => TypeOK
  <2> SUFFICES ASSUME IInv PROVE TypeOK
    OBVIOUS
  <2>1. TypedReader /\ TypedWriter /\ WriterOrder
    BY DEF IInv, ReaderInv, WriterInv
  <2>2. \A t \in Threads :
          thread[t].pc \in {"idle", "accepted", "inside", "answered",
                            "finalize", "delete", "forget"}
    BY <2>1, StateKinds DEF TypedReader
  <2>3. \A p \in DOMAIN disk : disk[p] \subseteq Keys /\ p[2] <= clock
    BY <2>1 DEF TypedWriter
  <2> QED
    BY <2>1, <2>2, <2>3 DEF TypeOK, TypedReader, TypedWriter, WriterOrder
<1> QED
  BY Invariance, <1>1, PTL

\* Whatever the threads do, every buffer that is allocated belongs to a lookup
\* that is to return, and that frees only what it was given.
THEOREM HeapAlwaysBalanced == Spec => []HeapBalanced
<1>1. IInv => HeapBalanced
  <2> SUFFICES ASSUME IInv PROVE HeapBalanced
    OBVIOUS
  <2>1. TypedReader /\ HeapOwned
    BY DEF IInv, ReaderInv
  <2>2. \A b \in heap : thread[b[1]].pc = "answered"
    BY <2>1 DEF HeapOwned
  <2>3. ASSUME NEW t \in Threads, thread[t].pc = "answered"
        PROVE  Freed(thread[t].op, thread[t].result)
                 \subseteq thread[t].result.buffers
    <3>1. PICK q \in Requests :
            /\ thread[t].op = q.op
            /\ thread[t].result = CResult(q.op, q.key, q.keys)
      BY <2>1, <2>3, StateKinds DEF TypedReader
    <3>2. q.op \in DOMAIN Reads
      BY DEF Requests
    <3> QED
      BY <3>1, <3>2, FreedIsGiven
  <2> QED
    BY <2>2, <2>3 DEF HeapBalanced
<1> QED
  BY Invariance, <1>1, PTL

\* With any number of threads, the process crashes only where the code relies
\* on its caller: after a close by another thread in Java, in Python by update
\* of a closed reader, by a finished writer, or in Java by an exception: of
\* an insert of a text that is no float list, or of a lookup of the float
\* list of a key that holds a string.
THEOREM CrashAlwaysCaused == Spec => []CrashCauses
<1>1. IInv => CrashCauses
  BY DEF IInv
<1> QED
  BY Invariance, <1>1, PTL

\* The timestamp that finish_cache_creation has returned names the cache it
\* made, or the one made last in the same second, whatever is written, renamed
\* and left behind in the meantime.
THEOREM ReturnedTimestampAlwaysLoads == Spec => []ReturnedTimestampLoads
<1>1. IInv => ReturnedTimestampLoads
  BY DEF IInv, WriterInv
<1> QED
  BY Invariance, <1>1, PTL

\* The two answers to one result of the C API, as BindingsAgree compares them.
Agree(op, r) ==
  LET java == JavaAnswer(op, r)
      python == PythonAnswer(op, r)
  IN \/ java = python
     \/ /\ "notUtf8" \in {r.items[i] : i \in DOMAIN r.items}
        /\ "null" \in {java[i] : i \in DOMAIN java}
     \/ /\ op = "getVector"
        /\ Len(java) = Len(python)
        /\ \A i \in DOMAIN java :
             java[i] = IF python[i] = "empty" THEN "null" ELSE python[i]

\* The bindings agree on every text that convertToPointer can hand them.
LEMMA AnswersAgree ==
  ASSUME NEW q \in Requests, q.op # "getVectorKeyItem"
  PROVE  Agree(q.op, CResult(q.op, q.key, q.keys))
<1> DEFINE items == Items(q.key, q.keys)
           r == CResult(q.op, q.key, q.keys)
<1>0. /\ q.op \in {"containsKey", "getKey", "getLong", "getVector",
                   "getFloatVector", "getKeyType"}
      /\ q.key \in Keys /\ Stored[q.key].type \in Reads[q.op]
  BY DEF Requests, Reads
<1>1. /\ r.items = items
      /\ q.op # "getLong" => r.exist = (q.key \in q.keys)
  BY DEF CResult
<1>2. CASE q.op \in {"containsKey", "getLong", "getFloatVector", "getKeyType"}
  <2>1. JavaAnswer(q.op, r) = PythonAnswer(q.op, r)
    BY <1>2 DEF JavaAnswer, PythonAnswer, NativeContainsKey, ContainsKey,
       Boxed, GetNumber, NativeGetFloatVector, GetVectorFloat,
       NativeGetKeyType, GetKeyType
  <2> QED
    BY <2>1 DEF Agree
<1>3. CASE q.op = "getKey"
  <2>1. /\ JavaAnswer(q.op, r) = NativeGetKey(r)
        /\ PythonAnswer(q.op, r) = GetKey(r)
    BY <1>3 DEF JavaAnswer, PythonAnswer
  <2>2. CASE ~r.exist
    BY <2>1, <2>2 DEF Agree, NativeGetKey, GetKey
  <2>3. CASE r.exist
    <3>1. q.key \in q.keys
      BY <1>1, <1>3, <2>3
    <3>2. Stored[q.key].type = "String"
      BY <1>0, <1>3 DEF Reads
    <3>3. items = Stored[q.key].items /\ items \in Seq(Texts)
          /\ Len(items) = 1
      BY <1>0, <3>1, <3>2, StoredAssumption DEF Items
    <3>4. r.buffers = IF items = <<>> \/ items[1] = "empty" THEN {}
                      ELSE {<<"value", 1>>}
      BY <1>3 DEF CResult
    <3> HIDE DEF items, r
    <3>5. items # <<>> /\ items[1] \in Texts /\ 1 \in DOMAIN items
      <4>1. Len(items) # Len(<<>>)
        BY <3>3
      <4>2. DOMAIN items = 1 .. 1
        BY <3>3
      <4>3. 1 \in DOMAIN items
        BY <4>2
      <4> QED
        BY <3>3, <4>1, <4>3
    <3>6. CASE items[1] = "empty"
      <4>1. NativeGetKey(r) = <<"empty">> /\ GetKey(r) = <<"empty">>
        BY <1>1, <2>3, <3>4, <3>6 DEF NativeGetKey, GetKey
      <4>2. JavaAnswer(q.op, r) = PythonAnswer(q.op, r)
        BY <2>1, <4>1
      <4> QED
        BY <4>2 DEF Agree, r
    <3>7. CASE items[1] # "empty"
      <4>1. r.buffers # {}
        BY <3>5, <3>4, <3>7
      <4>2. /\ NativeGetKey(r) = <<ConvertToUtf16(items[1])>>
            /\ GetKey(r) = <<items[1]>>
        BY <1>1, <2>3, <4>1 DEF NativeGetKey, GetKey
      <4>3. CASE items[1] = "text"
        <5>1. JavaAnswer(q.op, r) = PythonAnswer(q.op, r)
          BY <2>1, <4>2, <4>3 DEF ConvertToUtf16
        <5> QED
          BY <5>1 DEF Agree, r
      <4>4. CASE items[1] = "notUtf8"
        <5>1. JavaAnswer(q.op, r) = <<"null">>
          BY <2>1, <4>2, <4>4 DEF ConvertToUtf16
        <5>2. "null" \in {JavaAnswer(q.op, r)[i] :
                            i \in DOMAIN JavaAnswer(q.op, r)}
          BY <5>1
        <5>3. "notUtf8" \in {r.items[i] : i \in DOMAIN r.items}
          BY <1>1, <3>5, <4>4
        <5> QED
          BY <5>2, <5>3 DEF Agree, r
      <4> QED
        BY <3>5, <3>7, <4>3, <4>4 DEF Texts
    <3> QED
      BY <3>6, <3>7
  <2> QED
    BY <2>2, <2>3
<1>4. CASE q.op = "getVector"
  <2>1. /\ JavaAnswer(q.op, r) = NativeGetVector(r)
        /\ PythonAnswer(q.op, r) = GetVector(r)
    BY <1>4 DEF JavaAnswer, PythonAnswer
  <2>2. CASE r.buffers = {}
    BY <2>1, <2>2 DEF Agree, NativeGetVector, GetVector
  <2>3. CASE r.buffers # {}
    <3>1. Stored[q.key].type = "StringList"
      BY <1>0, <1>4 DEF Reads
    <3>2. items \in Seq(Texts)
      BY <1>0, <3>1, StoredAssumption DEF Items
    <3>3. NativeGetVector(r) = [i \in DOMAIN items |-> ConvertToUtf16(items[i])]
      BY <1>1, <2>3 DEF NativeGetVector
    <3> HIDE DEF items, r
    <3> DEFINE java == [i \in DOMAIN items |-> ConvertToUtf16(items[i])]
    <3>4. CASE \E i \in DOMAIN items : items[i] = "notUtf8"
      <4>1. PICK i \in DOMAIN items : items[i] = "notUtf8"
        BY <3>4
      <4>2. java[i] = "null"
        BY <4>1 DEF ConvertToUtf16
      <4>3. "notUtf8" \in {r.items[j] : j \in DOMAIN r.items}
        BY <1>1, <4>1
      <4>4. "null" \in {java[j] : j \in DOMAIN java}
        BY <4>2
      <4>5. java = JavaAnswer(q.op, r)
        BY <2>1, <3>3
      <4> HIDE DEF java
      <4> QED
        BY <4>3, <4>4, <4>5 DEF Agree, r
    <3>5. CASE \A i \in DOMAIN items : items[i] # "notUtf8"
      <4>1. GetVector(r) = items
        BY <1>1, <2>3, <3>5 DEF GetVector
      <4>2. \A i \in DOMAIN items : items[i] \in {"text", "empty"}
        BY <3>2, <3>5 DEF Texts
      <4>3. \A i \in DOMAIN java :
              java[i] = IF items[i] = "empty" THEN "null" ELSE items[i]
        BY <4>2 DEF ConvertToUtf16
      <4>4. Len(java) = Len(items)
        <5>1. \A i \in DOMAIN items : ConvertToUtf16(items[i]) \in {"text", "null"}
          BY DEF ConvertToUtf16
        <5>2. DOMAIN items = 1 .. Len(items) /\ Len(items) \in Nat
          BY <3>2
        <5> QED
          BY <5>1, <5>2
      <4>5. java = JavaAnswer(q.op, r) /\ items = PythonAnswer(q.op, r)
        BY <2>1, <3>3, <4>1
      <4> HIDE DEF java
      <4> QED
        BY <1>4, <4>3, <4>4, <4>5 DEF Agree, r
    <3> QED
      BY <3>4, <3>5
  <2> QED
    BY <2>2, <2>3
<1> QED
  BY <1>0, <1>2, <1>3, <1>4

\* What the two answers say of the key, as BindingsAgree compares it with the
\* cache.
ToldMissing(op, r, unseen) ==
  /\ (PythonAnswer(op, r) = Missing(op)) <=> unseen
  /\ (JavaAnswer(op, r) = Missing(op)) <=>
       unseen \/ (op = "getKey" /\ r.items = <<"notUtf8">>)

\* A key is reported as missing where it is, or where its value is unseen.
LEMMA MissingIsTold ==
  ASSUME NEW q \in Requests, q.op # "getVectorKeyItem"
  PROVE  ToldMissing(q.op, CResult(q.op, q.key, q.keys),
                     q.key \notin q.keys \/ Unseen(q.op, q.key))
<1> DEFINE items == Items(q.key, q.keys)
           r == CResult(q.op, q.key, q.keys)
           unseen == q.key \notin q.keys \/ Unseen(q.op, q.key)
<1>0. /\ q.op \in {"containsKey", "getKey", "getLong", "getVector",
                   "getFloatVector", "getKeyType"}
      /\ q.key \in Keys /\ Stored[q.key].type \in Reads[q.op]
  BY DEF Requests, Reads
<1>1. /\ r.items = items
      /\ r.exist = (q.key \in q.keys
                      /\ (q.op = "getLong" => items # <<"empty">>))
  BY DEF CResult
<1>2. items = IF q.key \in q.keys THEN Stored[q.key].items ELSE <<>>
  BY DEF Items
<1>3. CASE q.op = "containsKey"
  <2>1. /\ JavaAnswer(q.op, r) = <<IF r.exist THEN "true" ELSE "false">>
        /\ PythonAnswer(q.op, r) = <<IF r.exist THEN "true" ELSE "false">>
        /\ Missing(q.op) = <<"false">> /\ ~Unseen(q.op, q.key)
    BY <1>3 DEF JavaAnswer, PythonAnswer, NativeContainsKey, ContainsKey,
       Missing, Unseen
  <2> HIDE DEF r, items
  <2>2. (<<IF r.exist THEN "true" ELSE "false">> = <<"false">>)
          <=> q.key \notin q.keys
    BY <1>1, <1>3
  <2> QED
    BY <1>3, <2>1, <2>2 DEF ToldMissing, r
<1>4. CASE q.op = "getLong"
  <2>1. /\ JavaAnswer(q.op, r) = IF ~r.exist THEN <<"null">> ELSE <<"number">>
        /\ PythonAnswer(q.op, r) = IF ~r.exist THEN <<"null">> ELSE <<"number">>
        /\ Missing(q.op) = <<"null">>
        /\ Unseen(q.op, q.key) = (Stored[q.key].items = <<"empty">>)
    BY <1>4 DEF JavaAnswer, PythonAnswer, Boxed, GetNumber, Missing, Unseen
  <2> HIDE DEF r, items
  <2>2. <<"number">> # <<"null">>
    OBVIOUS
  <2>3. ~r.exist <=> unseen
    BY <1>1, <1>2, <1>4, <2>1
  <2> QED
    BY <1>4, <2>1, <2>2, <2>3 DEF ToldMissing, r
<1>5. CASE q.op = "getKeyType"
  <2>1. /\ JavaAnswer(q.op, r) = IF r.buffers = {} THEN <<"null">> ELSE <<"type">>
        /\ PythonAnswer(q.op, r) = IF r.buffers = {} THEN <<"null">>
                                   ELSE <<"type">>
        /\ Missing(q.op) = <<"null">> /\ ~Unseen(q.op, q.key)
    BY <1>5 DEF JavaAnswer, PythonAnswer, NativeGetKeyType, GetKeyType,
       Missing, Unseen
  <2>2. r.buffers = IF q.key \in q.keys THEN {<<"value", 1>>} ELSE {}
    BY <1>5 DEF CResult
  <2> HIDE DEF r, items
  <2>3. <<"type">> # <<"null">>
    OBVIOUS
  <2>4. r.buffers = {} <=> q.key \notin q.keys
    BY <2>2
  <2> QED
    BY <1>5, <2>1, <2>3, <2>4 DEF ToldMissing, r
<1>6. CASE q.op = "getFloatVector"
  <2>1. /\ JavaAnswer(q.op, r) = IF r.buffers = {} THEN <<>> ELSE r.items
        /\ PythonAnswer(q.op, r) = IF r.buffers = {} THEN <<>> ELSE r.items
        /\ Missing(q.op) = <<>> /\ ~Unseen(q.op, q.key)
    BY <1>6 DEF JavaAnswer, PythonAnswer, NativeGetFloatVector, GetVectorFloat,
       Missing, Unseen
  <2>2. r.buffers = IF items = <<>> THEN {} ELSE {<<"values", 0>>}
    BY <1>6 DEF CResult
  <2>3. Stored[q.key].items # <<>>
    <3>1. Stored[q.key].type \in {"FloatList", "String"}
      BY <1>0, <1>6 DEF Reads
    <3>2. Stored[q.key].type = "String" => Len(Stored[q.key].items) = 1
      BY <1>0, StoredAssumption
    <3>3. Len(<<>>) = 0
      OBVIOUS
    <3>4. Stored[q.key].type = "FloatList" => Stored[q.key].items # <<>>
      BY <1>0, StoredAssumption
    <3>5. CASE Stored[q.key].type = "String"
      <4>1. PICK x : x = Stored[q.key].items
        OBVIOUS
      <4>2. Len(x) = 1
        BY <3>2, <3>5, <4>1, Zenon
      <4>3. x # <<>>
        BY <3>3, <4>2
      <4> QED
        BY <4>1, <4>3
    <3> QED
      BY <3>1, <3>4, <3>5
  <2> HIDE DEF r, items
  <2>4. items = <<>> <=> q.key \notin q.keys
    BY <1>2, <2>3
  <2>5. r.buffers = {} <=> items = <<>>
    BY <2>2
  <2>6. (IF r.buffers = {} THEN <<>> ELSE r.items) = items
    BY <1>1, <2>5
  <2> QED
    BY <1>6, <2>1, <2>4, <2>6 DEF ToldMissing, r
<1>7. CASE q.op = "getVector"
  <2>1. /\ JavaAnswer(q.op, r) = NativeGetVector(r)
        /\ PythonAnswer(q.op, r) = GetVector(r)
        /\ Missing(q.op) = <<>>
        /\ Unseen(q.op, q.key) = (Stored[q.key].items = <<>>)
    BY <1>7 DEF JavaAnswer, PythonAnswer, Missing, Unseen
  <2>2. r.buffers = IF items = <<>> THEN {}
                    ELSE {<<"values", 0>>, <<"sizes", 0>>}
                         \cup {<<"item", i>> : i \in DOMAIN items}
    BY <1>7 DEF CResult
  <2>3. items \in Seq(Texts)
    <3>1. Stored[q.key].type = "StringList"
      BY <1>0, <1>7 DEF Reads
    <3> QED
      BY <1>0, <3>1, StoredAssumption DEF Items
  <2> HIDE DEF r, items
  <2>4. items = <<>> <=> unseen
    BY <1>2, <2>1
  <2>5. CASE items = <<>>
    <3>1. r.buffers = {}
      BY <2>2, <2>5
    <3>2. NativeGetVector(r) = <<>> /\ GetVector(r) = <<>>
      BY <3>1 DEF NativeGetVector, GetVector
    <3> QED
      BY <2>1, <2>4, <2>5, <3>2 DEF ToldMissing, r
  <2>6. CASE items # <<>>
    <3>1. r.buffers # {}
      BY <2>2, <2>6
    <3> DEFINE java == [i \in DOMAIN items |-> ConvertToUtf16(items[i])]
    <3>2. NativeGetVector(r) = java
      BY <1>1, <3>1 DEF NativeGetVector
    <3>3. 1 \in DOMAIN items
      BY <2>3, <2>6
    <3>4. java # <<>>
      <4>1. 1 \in DOMAIN java
        BY <3>3
      <4>2. 1 \notin DOMAIN <<>>
        OBVIOUS
      <4> HIDE DEF java
      <4> QED
        BY <4>1, <4>2
    <3>5. GetVector(r) = <<"undecodable">> \/ GetVector(r) = items
      BY <1>1, <3>1 DEF GetVector
    <3>6. GetVector(r) # <<>>
      BY <2>6, <3>5
    <3> HIDE DEF java
    <3> QED
      BY <1>7, <2>1, <2>4, <2>6, <3>2, <3>4, <3>6 DEF ToldMissing, r
  <2> QED
    BY <2>5, <2>6
<1>8. CASE q.op = "getKey"
  <2>1. /\ JavaAnswer(q.op, r) = NativeGetKey(r)
        /\ PythonAnswer(q.op, r) = GetKey(r)
        /\ Missing(q.op) = <<"null">> /\ ~Unseen(q.op, q.key)
    BY <1>8 DEF JavaAnswer, PythonAnswer, Missing, Unseen
  <2>2. r.buffers = IF items = <<>> \/ items[1] = "empty" THEN {}
                    ELSE {<<"value", 1>>}
    BY <1>8 DEF CResult
  <2>3. q.key \in q.keys => items \in Seq(Texts) /\ Len(items) = 1
    <3>1. Stored[q.key].type = "String"
      BY <1>0, <1>8 DEF Reads
    <3> QED
      BY <1>0, <3>1, StoredAssumption DEF Items
  <2>4. r.exist = (q.key \in q.keys)
    BY <1>1, <1>8
  <2> HIDE DEF r, items
  <2>5. CASE q.key \notin q.keys
    <3>1. NativeGetKey(r) = <<"null">> /\ GetKey(r) = <<"null">>
      BY <2>4, <2>5 DEF NativeGetKey, GetKey
    <3> QED
      BY <2>1, <2>5, <3>1 DEF ToldMissing, r
  <2>6. CASE q.key \in q.keys
    <3>1. items[1] \in Texts /\ items = <<items[1]>>
      <4>1. PICK x \in Seq(Texts) : x = items /\ Len(x) = 1
        BY <2>3, <2>6, Zenon
      <4>2. x[1] \in Texts /\ DOMAIN x = 1 .. 1
        BY <4>1
      <4>3. x = <<x[1]>>
        BY <4>1, <4>2
      <4> QED
        BY <4>1, <4>2, <4>3, Zenon
    <3>2. items # <<>>
      BY <2>3, <2>6
    <3>3. GetKey(r) = <<items[1]>>
      BY <1>1, <2>4, <2>6 DEF GetKey
    <3>4. NativeGetKey(r) = IF items[1] = "empty" THEN <<"empty">>
                            ELSE <<ConvertToUtf16(items[1])>>
      BY <1>1, <2>2, <2>4, <2>6, <3>2 DEF NativeGetKey
    <3>5. GetKey(r) # <<"null">>
      BY <3>1, <3>3 DEF Texts
    <3>6. (NativeGetKey(r) = <<"null">>) <=> items[1] = "notUtf8"
      BY <3>1, <3>4 DEF Texts, ConvertToUtf16
    <3>7. items = <<"notUtf8">> <=> items[1] = "notUtf8"
      BY <3>1
    <3> QED
      BY <1>1, <1>8, <2>1, <2>6, <3>5, <3>6, <3>7 DEF ToldMissing, r
  <2> QED
    BY <2>5, <2>6
<1> QED
  BY <1>0, <1>3, <1>4, <1>5, <1>6, <1>7, <1>8

\* For every stored text and list, the two bindings report a key as missing
\* where it is, where an empty text is asked for as a number or a list is
\* empty, and Java where a text is not UTF-8; for the rest they differ only in
\* what Java has no text for.
THEOREM BindingsAlwaysAgree == Spec => []BindingsAgree
<1>1. IInv => BindingsAgree
  <2> SUFFICES ASSUME IInv, NEW t \in Threads, thread[t].pc = "answered",
                      thread[t].op # "getVectorKeyItem"
               PROVE  /\ Agree(thread[t].op, thread[t].result)
                      /\ ToldMissing(thread[t].op, thread[t].result,
                                     thread[t].unseen)
    BY DEF BindingsAgree, Agree, ToldMissing
  <2>1. PICK q \in Requests :
          /\ thread[t].op = q.op
          /\ thread[t].result = CResult(q.op, q.key, q.keys)
          /\ thread[t].unseen = (q.key \notin q.keys \/ Unseen(q.op, q.key))
    BY StateKinds DEF IInv, ReaderInv, TypedReader
  <2> QED
    BY <2>1, AnswersAgree, MissingIsTold
<1> QED
  BY Invariance, <1>1, PTL

=============================================================================
