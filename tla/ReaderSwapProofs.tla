-------------------------- MODULE ReaderSwapProofs --------------------------
(***************************************************************************)
(* Proofs about the swap of caches behind a reader handle, for any number  *)
(* of lookup threads and of files, of any types.                           *)
(***************************************************************************)
EXTENDS ReaderSwap, FiniteSetTheorems, TLAPS

UpdaterStates ==
  [pc : {"idle"}]
    \cup [pc : {"loading", "loaded"}, gen : Generations]
    \cup [pc : {"returned"}, gen : Generations, code : {0, 1}]

ThreadStates ==
  [pc : {"idle"}]
    \cup [pc : {"typed"}, family : Families, floor : 0 .. MaxGeneration]
    \cup [pc : {"reading"}, gen : Generations, floor : 0 .. MaxGeneration]
    \cup [pc : {"answered"}, gen : 0 .. MaxGeneration,
          floor : 0 .. MaxGeneration]

\* The type invariant, with the fields a thread has at each of its places.
Typed ==
  /\ cacheType \in CacheTypes
  /\ reader \in [Families -> 0 .. MaxGeneration]
  /\ useCount \in [Generations -> Int]
  /\ updater \in UpdaterStates
  /\ installed \in 0 .. MaxGeneration
  /\ thread \in [Threads -> ThreadStates]
  /\ newest \in 0 .. MaxGeneration
  /\ familiesRead \subseteq Families \cup {"none"}

\* The lookups that own the cache of a generation.
Owners(g) == {t \in Threads : thread[t].pc = "reading" /\ thread[t].gen = g}

\* The owner that is not a lookup: the pointer of the object, or the loader
\* that is about to store it there.
Held(g) ==
  \/ \E f \in Families : reader[f] = g
  \/ updater.pc = "loaded" /\ updater.gen = g

Holders(g) == IF Held(g) THEN 1 ELSE 0

\* initializeReader has stored the pointer of this generation and is about to
\* return 0.
Stored(g) ==
  updater.pc = "returned" /\ updater.gen = g /\ updater.code = 0

\* Files are loaded in order, after their header, and a pointer holds a file
\* of its own family.
InOrder ==
  /\ updater.pc # "idle" => updater.gen > installed
  /\ updater.pc \in {"loading", "loaded"} =>
       Family(FileType[updater.gen]) \in Families \cap familiesRead
  /\ \A f \in Families : reader[f] # 0 =>
       /\ Family(FileType[reader[f]]) = f
       /\ f \in familiesRead
       /\ reader[f] <= installed \/ Stored(reader[f])
  /\ \A t \in Threads : thread[t].pc = "reading" =>
       thread[t].gen <= installed \/ Stored(thread[t].gen)

\* The reference count of shared_ptr counts the owners.
CountExact ==
  \A g \in Generations : useCount[g] = Cardinality(Owners(g)) + Holders(g)

IInv == Typed /\ InOrder /\ CountExact

-----------------------------------------------------------------------------
(* Facts about the operators *)

LEMMA FamilyType == \A type : Family(type) \in Families \cup {"none"}
BY DEF Family, Families

LEMMA SupportsFamilies ==
  ASSUME NEW op \in Operations
  PROVE  Supports[op] \subseteq Families
BY ReaderAssumption DEF Supports, Families

LEMMA MaxOfTwo ==
  ASSUME NEW a \in Nat, NEW b \in Nat
  PROVE  /\ Max({a, b}) \in {a, b}
         /\ Max({a, b}) >= a
         /\ Max({a, b}) >= b
<1>1. \E m \in {a, b} : \A y \in {a, b} : m >= y
  <2>1. CASE a >= b
    BY <2>1
  <2>2. CASE b >= a
    BY <2>2
  <2> QED
    BY <2>1, <2>2
<1> QED
  BY <1>1 DEF Max

LEMMA OwnersFinite ==
  ASSUME NEW g \in Generations
  PROVE  /\ IsFiniteSet(Owners(g))
         /\ Cardinality(Owners(g)) \in Nat
         /\ Cardinality(Owners(g)) <= Cardinality(Threads)
<1>1. Owners(g) \subseteq Threads
  BY DEF Owners
<1> QED
  BY <1>1, ReaderAssumption, FS_Subset, FS_CardinalityType

-----------------------------------------------------------------------------
(* The inductive invariant *)

LEMMA InitIInv == Init => IInv
<1> SUFFICES ASSUME Init PROVE IInv
  OBVIOUS
<1> USE ReaderAssumption DEF Init, Idle
<1>1. /\ updater \in UpdaterStates
      /\ [pc |-> "idle"] \in ThreadStates
  BY DEF UpdaterStates, ThreadStates
<1>2. Typed
  BY <1>1 DEF Typed, CacheTypes
<1>3. InOrder
  BY DEF InOrder
<1>4. ASSUME NEW g \in Generations
      PROVE  useCount[g] = Cardinality(Owners(g)) + Holders(g)
  <2>1. Owners(g) = {}
    BY DEF Owners
  <2>2. Holders(g) = 0
    BY DEF Holders, Held, Generations
  <2> QED
    BY <2>1, <2>2, FS_EmptySet
<1> QED
  BY <1>2, <1>3, <1>4 DEF IInv, CountExact

LEMMA NextTyped == IInv /\ [Next]_vars => Typed'
<1> SUFFICES ASSUME IInv, [Next]_vars PROVE Typed'
  OBVIOUS
<1> USE ReaderAssumption DEF IInv, Typed, Generations, historyVars
<1>1. ASSUME NEW g \in Generations, OpenFails(g)
      PROVE  Typed'
  BY <1>1 DEF OpenFails, UpdaterStates
<1>2. ASSUME NEW g \in Generations, ReadHeader(g)
      PROVE  Typed'
  BY <1>2, FamilyType DEF ReadHeader, UpdaterStates
<1>3. CASE LoadThrows
  BY <1>3 DEF LoadThrows, UpdaterStates
<1>4. CASE LoadMmap
  BY <1>4 DEF LoadMmap, UpdaterStates
<1>5. CASE AtomicStore
  <2>1. Family(FileType[updater.gen]) \in Families
    BY <1>5 DEF AtomicStore, InOrder
  <2> QED
    BY <1>5, <2>1 DEF AtomicStore, UpdaterStates
<1>6. CASE Return
  <2>1. updater.gen \in Generations
    BY <1>6 DEF Return, UpdaterStates
  <2>2. Max({newest, updater.gen}) \in 0 .. MaxGeneration
    <3>1. newest \in Nat /\ updater.gen \in Nat
      BY <2>1
    <3>2. Max({newest, updater.gen}) \in {newest, updater.gen}
      BY <3>1, MaxOfTwo, Zenon
    <3> QED
      BY <2>1, <3>2
  <2>3. newest' \in 0 .. MaxGeneration
    BY <1>6, <2>2 DEF Return
  <2> QED
    BY <1>6, <2>1, <2>3 DEF Return, UpdaterStates, Idle
<1>7. ASSUME NEW t \in Threads, NEW op \in Operations, ReadType(t, op)
      PROVE  Typed'
  BY <1>7, SupportsFamilies DEF ReadType, ThreadStates
<1>8. ASSUME NEW t \in Threads, AtomicLoad(t)
      PROVE  Typed'
  <2>1. thread[t].family \in Families /\ thread[t].floor \in 0 .. MaxGeneration
    BY <1>8 DEF AtomicLoad, ThreadStates
  <2> DEFINE g == reader[thread[t].family]
  <2>2. g \in 0 .. MaxGeneration
    BY <2>1
  <2>3. CASE g = 0
    <3>1. [pc |-> "answered", gen |-> 0, floor |-> thread[t].floor]
            \in ThreadStates
      BY <2>1 DEF ThreadStates
    <3>2. thread' \in [Threads -> ThreadStates]
      BY <1>8, <2>3, <3>1 DEF AtomicLoad
    <3> QED
      BY <1>8, <2>3, <3>2 DEF AtomicLoad
  <2>4. CASE g # 0
    <3>1. [pc |-> "reading", gen |-> g, floor |-> thread[t].floor]
            \in ThreadStates
      BY <2>1, <2>2, <2>4 DEF ThreadStates
    <3>2. useCount' = [useCount EXCEPT ![g] = @ + 1]
      BY <1>8, <2>4 DEF AtomicLoad
    <3>3. thread' \in [Threads -> ThreadStates]
      BY <1>8, <2>4, <3>1 DEF AtomicLoad
    <3> QED
      BY <1>8, <2>2, <2>4, <3>2, <3>3 DEF AtomicLoad
  <2> QED
    BY <2>3, <2>4
<1>9. ASSUME NEW t \in Threads, FinishRead(t)
      PROVE  Typed'
  <2>1. thread[t].gen \in Generations /\ thread[t].floor \in 0 .. MaxGeneration
    BY <1>9 DEF FinishRead, ThreadStates
  <2>2. Max({newest, thread[t].gen}) \in 0 .. MaxGeneration
    <3>1. newest \in Nat /\ thread[t].gen \in Nat
      BY <2>1
    <3>2. Max({newest, thread[t].gen}) \in {newest, thread[t].gen}
      BY <3>1, MaxOfTwo, Zenon
    <3> QED
      BY <2>1, <3>2
  <2>3. [thread[t] EXCEPT !.pc = "answered"] \in ThreadStates
    <3>1. thread[t] \in [pc : {"reading"}, gen : Generations,
                          floor : 0 .. MaxGeneration]
      BY <1>9 DEF FinishRead, ThreadStates
    <3>2. [thread[t] EXCEPT !.pc = "answered"]
            \in [pc : {"answered"}, gen : Generations,
                 floor : 0 .. MaxGeneration]
      BY <3>1
    <3> QED
      BY <3>2 DEF ThreadStates
  <2>4. thread' \in [Threads -> ThreadStates]
    BY <1>9, <2>3 DEF FinishRead
  <2> QED
    BY <1>9, <2>1, <2>2, <2>4 DEF FinishRead
<1>10. ASSUME NEW t \in Threads, LeaveLookup(t)
      PROVE  Typed'
  BY <1>10 DEF LeaveLookup, ThreadStates, Idle
<1>11. CASE UNCHANGED vars
  BY <1>11 DEF vars
<1> QED
  BY <1>1, <1>2, <1>3, <1>4, <1>5, <1>6, <1>7, <1>8, <1>9, <1>10, <1>11
     DEF Next, Update, LookupStep

LEMMA NextInOrder == IInv /\ [Next]_vars => InOrder'
<1> SUFFICES ASSUME IInv, [Next]_vars PROVE InOrder'
  OBVIOUS
<1> USE ReaderAssumption DEF IInv, Typed, Generations, historyVars
<1>1. ASSUME NEW g \in Generations, OpenFails(g)
      PROVE  InOrder'
  BY <1>1 DEF OpenFails, InOrder, Stored
<1>2. ASSUME NEW g \in Generations, ReadHeader(g)
      PROVE  InOrder'
  BY <1>2, FamilyType DEF ReadHeader, InOrder, Stored
<1>3. CASE LoadThrows
  BY <1>3 DEF LoadThrows, InOrder, Stored
<1>4. CASE LoadMmap
  BY <1>4 DEF LoadMmap, InOrder, Stored
<1>5. CASE AtomicStore
  BY <1>5 DEF AtomicStore, InOrder, Stored
<1>6. CASE Return
  <2>1. /\ updater'.pc = "idle"
        /\ UNCHANGED <<reader, thread, familiesRead>>
        /\ installed' = IF updater.code = 0 THEN updater.gen ELSE installed
    BY <1>6 DEF Return, Idle
  <2>2. \A g \in Generations :
          g <= installed \/ Stored(g) => g <= installed'
    BY <1>6, <2>1 DEF Return, InOrder, Stored, UpdaterStates
  <2>3. \A f \in Families : reader[f] # 0 => reader[f] \in Generations
    OBVIOUS
  <2>4. \A t \in Threads :
          thread[t].pc = "reading" => thread[t].gen \in Generations
    BY DEF ThreadStates
  <2> QED
    BY <2>1, <2>2, <2>3, <2>4 DEF InOrder
<1>7. ASSUME NEW t \in Threads, NEW op \in Operations, ReadType(t, op)
      PROVE  InOrder'
  BY <1>7 DEF ReadType, InOrder, Stored
<1>8. ASSUME NEW t \in Threads, AtomicLoad(t)
      PROVE  InOrder'
  <2>1. thread[t].family \in Families
    BY <1>8 DEF AtomicLoad, ThreadStates
  <2> DEFINE g == reader[thread[t].family]
  <2>2. CASE g = 0
    <3>1. /\ UNCHANGED <<reader, updater, installed, familiesRead>>
          /\ thread' = [thread EXCEPT ![t] =
               [pc |-> "answered", gen |-> 0, floor |-> thread[t].floor]]
      BY <1>8, <2>2 DEF AtomicLoad
    <3> QED
      BY <3>1 DEF InOrder, Stored
  <2>3. CASE g # 0
    <3>1. g <= installed \/ Stored(g)
      BY <2>1, <2>3 DEF InOrder
    <3>2. thread' = [thread EXCEPT ![t] =
            [pc |-> "reading", gen |-> g, floor |-> thread[t].floor]]
      BY <1>8, <2>3 DEF AtomicLoad
    <3>3. UNCHANGED <<reader, updater, installed, familiesRead>>
      BY <1>8 DEF AtomicLoad
    <3>4. ASSUME NEW u \in Threads, thread'[u].pc = "reading"
          PROVE  thread'[u].gen <= installed \/ Stored(thread'[u].gen)
      BY <3>1, <3>2, <3>4 DEF InOrder
    <3> QED
      BY <3>3, <3>4 DEF InOrder, Stored
  <2> QED
    BY <2>2, <2>3
<1>9. ASSUME NEW t \in Threads, FinishRead(t)
      PROVE  InOrder'
  BY <1>9 DEF FinishRead, InOrder, Stored
<1>10. ASSUME NEW t \in Threads, LeaveLookup(t)
      PROVE  InOrder'
  BY <1>10 DEF LeaveLookup, InOrder, Stored, Idle
<1>11. CASE UNCHANGED vars
  BY <1>11 DEF vars, InOrder, Stored
<1> QED
  BY <1>1, <1>2, <1>3, <1>4, <1>5, <1>6, <1>7, <1>8, <1>9, <1>10, <1>11
     DEF Next, Update, LookupStep

LEMMA NextCountExact == IInv /\ [Next]_vars => CountExact'
<1> SUFFICES ASSUME IInv, [Next]_vars PROVE CountExact'
  OBVIOUS
<1> USE ReaderAssumption DEF IInv, Typed, Generations, historyVars
<1>1. ASSUME UNCHANGED <<reader, useCount>>,
             \A g \in Generations : Owners(g)' = Owners(g),
             updater.pc # "loaded", updater'.pc # "loaded"
      PROVE  CountExact'
  BY <1>1 DEF CountExact, Holders, Held
<1>2. ASSUME UNCHANGED thread
      PROVE  \A g \in Generations : Owners(g)' = Owners(g)
  BY <1>2 DEF Owners
<1>3. ASSUME NEW t \in Threads, UNCHANGED <<reader, useCount, updater>>,
             thread[t].pc # "reading",
             thread'[t].pc # "reading",
             \A u \in Threads \ {t} : thread'[u] = thread[u]
      PROVE  CountExact'
  <2>1. \A g \in Generations : Owners(g)' = Owners(g)
    BY <1>3 DEF Owners
  <2> QED
    BY <1>3, <2>1 DEF CountExact, Holders, Held
<1>4. ASSUME NEW g \in Generations, OpenFails(g) \/ ReadHeader(g)
      PROVE  CountExact'
  <2>1. /\ UNCHANGED <<reader, useCount, thread>>
        /\ updater.pc # "loaded"
        /\ updater'.pc # "loaded"
    BY <1>4 DEF OpenFails, ReadHeader
  <2> QED
    BY <1>1, <1>2, <2>1
<1>5. CASE LoadThrows \/ Return
  <2>1. /\ UNCHANGED <<reader, useCount, thread>>
        /\ updater.pc # "loaded"
        /\ updater'.pc # "loaded"
    BY <1>5 DEF LoadThrows, Return, Idle
  <2> QED
    BY <1>1, <1>2, <2>1
<1>6. CASE LoadMmap
  <2> DEFINE new == updater.gen
  <2>1. /\ updater.pc = "loading"
        /\ new \in Generations
        /\ new > installed
    BY <1>6 DEF LoadMmap, InOrder, UpdaterStates
  <2>2. /\ useCount' = [useCount EXCEPT ![new] = 1]
        /\ UNCHANGED <<reader, thread>>
        /\ updater' = [pc |-> "loaded", gen |-> new]
    BY <1>6 DEF LoadMmap
  <2>3. ASSUME NEW g \in Generations
        PROVE  (useCount[g] = Cardinality(Owners(g)) + Holders(g))'
    <3>1. CASE g = new
      <4>1. Owners(g)' = {}
        BY <2>1, <2>2, <3>1 DEF Owners, InOrder, Stored, ThreadStates
      <4>2. Holders(g)' = 1
        BY <2>2, <3>1 DEF Holders, Held
      <4> QED
        BY <2>2, <3>1, <4>1, <4>2, FS_EmptySet
    <3>2. CASE g # new
      <4>1. Owners(g)' = Owners(g)
        BY <1>2, <2>2
      <4>2. Holders(g)' = Holders(g)
        BY <2>1, <2>2, <3>2 DEF Holders, Held
      <4> QED
        BY <2>2, <3>2, <4>1, <4>2 DEF CountExact
    <3> QED
      BY <3>1, <3>2
  <2> QED
    BY <2>3 DEF CountExact
<1>7. CASE AtomicStore
  <2> DEFINE new == updater.gen
             f == Family(FileType[new])
             old == reader[f]
  <2>1. /\ updater.pc = "loaded"
        /\ new \in Generations
        /\ new > installed
        /\ f \in Families
        /\ old \in 0 .. MaxGeneration
        /\ old <= installed
    BY <1>7 DEF AtomicStore, InOrder, Stored, UpdaterStates
  <2>2. /\ reader' = [reader EXCEPT ![f] = new]
        /\ useCount' = IF old = 0 THEN useCount
                       ELSE [useCount EXCEPT ![old] = @ - 1]
        /\ updater'.pc = "returned"
        /\ UNCHANGED thread
    BY <1>7 DEF AtomicStore
  <2>3. ASSUME NEW g \in Generations
        PROVE  (useCount[g] = Cardinality(Owners(g)) + Holders(g))'
    <3>1. Owners(g)' = Owners(g)
      BY <1>2, <2>2
    <3>2. CASE g = old
      <4>1. Held(g) /\ ~Held(g)'
        BY <2>1, <2>2, <3>2 DEF Held, InOrder
      <4>2. useCount'[g] = useCount[g] - 1
        BY <2>1, <2>2, <3>2
      <4> QED
        BY <3>1, <4>1, <4>2, OwnersFinite DEF CountExact, Holders
    <3>3. CASE g # old
      <4>1. Held(g)' <=> Held(g)
        BY <2>1, <2>2, <3>3 DEF Held
      <4>2. useCount'[g] = useCount[g]
        BY <2>1, <2>2, <3>3
      <4> QED
        BY <3>1, <4>1, <4>2 DEF CountExact, Holders
    <3> QED
      BY <3>2, <3>3
  <2> QED
    BY <2>3 DEF CountExact
<1>8. ASSUME NEW t \in Threads, NEW op \in Operations, ReadType(t, op)
      PROVE  CountExact'
  <2>1. /\ UNCHANGED <<reader, useCount, updater>>
        /\ thread[t].pc # "reading"
        /\ thread'[t].pc # "reading"
        /\ \A u \in Threads \ {t} : thread'[u] = thread[u]
    BY <1>8 DEF ReadType
  <2> QED
    BY <1>3, <2>1
<1>9. ASSUME NEW t \in Threads, AtomicLoad(t)
      PROVE  CountExact'
  <2> DEFINE new == reader[thread[t].family]
  <2>1. /\ thread[t].pc = "typed"
        /\ thread[t].family \in Families
        /\ new \in 0 .. MaxGeneration
        /\ UNCHANGED <<reader, updater>>
    BY <1>9 DEF AtomicLoad, ThreadStates
  <2>2. CASE new = 0
    BY <1>3, <1>9, <2>1, <2>2 DEF AtomicLoad
  <2>3. CASE new # 0
    <3>1. /\ new \in Generations
          /\ useCount' = [useCount EXCEPT ![new] = @ + 1]
          /\ thread' = [thread EXCEPT ![t] =
               [pc |-> "reading", gen |-> new, floor |-> thread[t].floor]]
      BY <1>9, <2>1, <2>3 DEF AtomicLoad
    <3>2. ASSUME NEW g \in Generations
          PROVE  (useCount[g] = Cardinality(Owners(g)) + Holders(g))'
      <4>1. Holders(g)' = Holders(g)
        BY <2>1 DEF Holders, Held
      <4>2. CASE g = new
        <5>1. Owners(g)' = Owners(g) \cup {t}
          BY <3>1, <4>2 DEF Owners
        <5>2. t \notin Owners(g)
          BY <2>1 DEF Owners
        <5>3. Cardinality(Owners(g)') = Cardinality(Owners(g)) + 1
          BY <5>1, <5>2, OwnersFinite, FS_AddElement
        <5> QED
          BY <3>1, <4>1, <4>2, <5>3, OwnersFinite DEF CountExact, Holders
      <4>3. CASE g # new
        <5>1. Owners(g)' = Owners(g)
          BY <2>1, <3>1, <4>3 DEF Owners
        <5> QED
          BY <3>1, <4>1, <4>3, <5>1 DEF CountExact
      <4> QED
        BY <4>2, <4>3
    <3> QED
      BY <3>2 DEF CountExact
  <2> QED
    BY <2>2, <2>3
<1>10. ASSUME NEW t \in Threads, FinishRead(t)
      PROVE  CountExact'
  <2> DEFINE new == thread[t].gen
  <2>1. /\ thread[t].pc = "reading"
        /\ new \in Generations
        /\ UNCHANGED <<reader, updater>>
        /\ useCount' = [useCount EXCEPT ![new] = @ - 1]
        /\ thread' = [thread EXCEPT ![t].pc = "answered"]
    BY <1>10 DEF FinishRead, ThreadStates
  <2>2. /\ thread'[t].pc = "answered"
        /\ \A u \in Threads \ {t} : thread'[u] = thread[u]
    BY <2>1 DEF ThreadStates
  <2>3. ASSUME NEW g \in Generations
        PROVE  (useCount[g] = Cardinality(Owners(g)) + Holders(g))'
    <3>1. Holders(g)' = Holders(g)
      BY <2>1 DEF Holders, Held
    <3>2. CASE g = new
      <4>1. Owners(g)' = Owners(g) \ {t}
        BY <2>2, <3>2 DEF Owners
      <4>2. t \in Owners(g)
        BY <2>1, <3>2 DEF Owners
      <4>3. Cardinality(Owners(g)') = Cardinality(Owners(g)) - 1
        BY <4>1, <4>2, OwnersFinite, FS_RemoveElement
      <4> QED
        BY <2>1, <3>1, <3>2, <4>3, OwnersFinite DEF CountExact, Holders
    <3>3. CASE g # new
      <4>1. Owners(g)' = Owners(g)
        BY <2>2, <3>3 DEF Owners
      <4> QED
        BY <2>1, <3>1, <3>3, <4>1 DEF CountExact
    <3> QED
      BY <3>2, <3>3
  <2> QED
    BY <2>3 DEF CountExact
<1>11. ASSUME NEW t \in Threads, LeaveLookup(t)
      PROVE  CountExact'
  <2>1. /\ UNCHANGED <<reader, useCount, updater>>
        /\ thread[t].pc # "reading"
        /\ thread'[t].pc # "reading"
        /\ \A u \in Threads \ {t} : thread'[u] = thread[u]
    BY <1>11 DEF LeaveLookup, Idle
  <2> QED
    BY <1>3, <2>1
<1>12. CASE UNCHANGED vars
  BY <1>12 DEF vars, CountExact, Owners, Holders, Held
<1> QED
  BY <1>4, <1>5, <1>6, <1>7, <1>8, <1>9, <1>10, <1>11, <1>12
     DEF Next, Update, LookupStep

LEMMA Invariance == Spec => []IInv
<1>1. IInv /\ [Next]_vars => IInv'
  BY NextTyped, NextInOrder, NextCountExact DEF IInv
<1> QED
  BY InitIInv, <1>1, PTL DEF Spec

-----------------------------------------------------------------------------
(* The theorems *)

\* Every variable has its type; the count of a cache stays within the number
\* of threads and the one pointer that can hold it.
THEOREM TypeCorrect == Spec => []TypeOK
<1>1. ASSUME IInv PROVE TypeOK
  <2>1. ASSUME NEW g \in Generations
        PROVE  useCount[g] \in 0 .. Cardinality(Threads) + 1
    <3>1. Holders(g) \in {0, 1}
      BY DEF Holders
    <3>2. Cardinality(Threads) \in Nat
      BY ReaderAssumption, FS_CardinalityType
    <3> QED
      BY <1>1, <3>1, <3>2, OwnersFinite DEF IInv, CountExact
  <2>2. useCount \in [Generations -> 0 .. Cardinality(Threads) + 1]
    BY <1>1, <2>1 DEF IInv, Typed
  <2> QED
    BY <1>1, <2>2 DEF IInv, Typed, TypeOK, UpdaterStates, ThreadStates
<1> QED
  BY Invariance, <1>1, PTL

\* No lookup reads from a cache that has been unmapped, whatever the types of
\* the files, however many lookups overlap and whichever loads fail.
THEOREM AlwaysOwnedWhileRead == Spec => []OwnedWhileRead
<1>1. ASSUME IInv, NEW t \in Threads, thread[t].pc = "reading"
      PROVE  useCount[thread[t].gen] > 0
  <2> DEFINE g == thread[t].gen
  <2>1. g \in Generations
    BY <1>1 DEF IInv, Typed, ThreadStates
  <2>2. t \in Owners(g)
    BY <1>1 DEF Owners
  <2>3. Cardinality(Owners(g)) # 0
    BY <2>1, <2>2, OwnersFinite, FS_EmptySet
  <2>4. Holders(g) \in {0, 1}
    BY DEF Holders
  <2> QED
    BY <1>1, <2>1, <2>3, <2>4, OwnersFinite DEF IInv, CountExact
<1>2. IInv => OwnedWhileRead
  BY <1>1 DEF OwnedWhileRead
<1> QED
  BY Invariance, <1>2, PTL

-----------------------------------------------------------------------------
(* Files of one family *)

\* The headers read so far are of the family F.
OfFamily(F) == familiesRead \subseteq {F}

\* The generation that the pointer of F serves.
Serving(F) == reader[F]

\* Once a cache is served, mCacheType selects its family; what was installed
\* or seen, and what a lookup must not go back behind, is served or older.
ServedInOrder(F) ==
  /\ Serving(F) > 0 \/ updater.pc \in {"loading", "loaded"} =>
       Family(cacheType) = F
  /\ installed <= Serving(F)
  /\ newest <= Serving(F)
  /\ updater.pc = "returned" /\ updater.code = 0 =>
       updater.gen = Serving(F)
  /\ \A t \in Threads :
       /\ thread[t].pc = "typed" =>
            /\ thread[t].floor <= Serving(F)
            /\ thread[t].floor > 0 => thread[t].family = F
       /\ thread[t].pc = "reading" =>
            thread[t].floor <= thread[t].gen /\ thread[t].gen <= Serving(F)
       /\ thread[t].pc = "answered" => thread[t].floor <= thread[t].gen

LEMMA InitServedInOrder ==
  ASSUME NEW F \in Families
  PROVE  Init => ServedInOrder(F)
BY DEF Init, ServedInOrder, Serving, Idle

LEMMA NextServedInOrder ==
  ASSUME NEW F \in Families
  PROVE  IInv /\ ServedInOrder(F) /\ [Next]_vars /\ OfFamily(F)' =>
           ServedInOrder(F)'
<1> SUFFICES ASSUME IInv, ServedInOrder(F), [Next]_vars, OfFamily(F)'
             PROVE  ServedInOrder(F)'
  OBVIOUS
<1> USE ReaderAssumption DEF IInv, Typed, Generations, Serving, historyVars
<1>0. F # "none" /\ reader[F] \in Nat
  BY DEF Families
<1>1. ASSUME NEW g \in Generations, OpenFails(g)
      PROVE  ServedInOrder(F)'
  BY <1>1 DEF OpenFails, ServedInOrder
<1>2. ASSUME NEW g \in Generations, ReadHeader(g)
      PROVE  ServedInOrder(F)'
  <2>1. Family(FileType[g]) = F
    BY <1>2 DEF ReadHeader, OfFamily
  <2> QED
    BY <1>0, <1>2, <2>1 DEF ReadHeader, ServedInOrder
<1>3. CASE LoadThrows
  BY <1>3 DEF LoadThrows, ServedInOrder
<1>4. CASE LoadMmap
  BY <1>4 DEF LoadMmap, ServedInOrder
<1>5. CASE AtomicStore
  <2>1. /\ updater.gen \in Generations
        /\ updater.gen > installed
        /\ Family(FileType[updater.gen]) = F
        /\ reader[F] <= installed
    BY <1>5 DEF AtomicStore, UpdaterStates, InOrder, OfFamily, Stored
  <2>2. /\ reader'[F] = updater.gen
        /\ updater' = [pc |-> "returned", gen |-> updater.gen, code |-> 0]
        /\ UNCHANGED <<cacheType, installed, thread, newest>>
    BY <1>5, <2>1 DEF AtomicStore
  <2>3. updater.gen >= reader[F]
    BY <1>0, <2>1
  <2>4. ASSUME NEW t \in Threads, thread[t].pc = "typed"
        PROVE  thread[t].floor <= updater.gen
    BY <1>0, <2>1, <2>3, <2>4 DEF ServedInOrder, ThreadStates
  <2>5. ASSUME NEW t \in Threads, thread[t].pc = "reading"
        PROVE  thread[t].gen <= updater.gen
    BY <1>0, <2>1, <2>3, <2>5 DEF ServedInOrder, ThreadStates
  <2>6. installed <= updater.gen /\ newest <= updater.gen
    BY <1>0, <2>1, <2>3 DEF ServedInOrder
  <2>7. Family(cacheType) = F
    BY <1>5 DEF AtomicStore, ServedInOrder
  <2> QED
    BY <2>2, <2>4, <2>5, <2>6, <2>7 DEF ServedInOrder
<1>6. CASE Return
  <2>1. updater.gen \in Nat /\ newest \in Nat
    BY <1>6 DEF Return, UpdaterStates
  <2>2. Max({newest, updater.gen}) \in {newest, updater.gen}
    BY <2>1, MaxOfTwo, Zenon
  <2>3. installed' <= reader[F] /\ newest' <= reader[F]
    BY <1>0, <1>6, <2>1, <2>2 DEF Return, ServedInOrder
  <2> QED
    BY <1>6, <2>3 DEF Return, ServedInOrder, Idle
<1>7. ASSUME NEW t \in Threads, NEW op \in Operations, ReadType(t, op)
      PROVE  ServedInOrder(F)'
  <2>1. UNCHANGED <<cacheType, reader, updater, installed, newest>>
    BY <1>7 DEF ReadType
  <2>2. ASSUME NEW u \in Threads
        PROVE  /\ thread'[u].pc = "typed" =>
                    /\ thread'[u].floor <= reader[F]
                    /\ thread'[u].floor > 0 => thread'[u].family = F
               /\ thread'[u].pc = "reading" =>
                    /\ thread'[u].floor <= thread'[u].gen
                    /\ thread'[u].gen <= reader[F]
               /\ thread'[u].pc = "answered" =>
                    thread'[u].floor <= thread'[u].gen
    BY <1>0, <1>7 DEF ReadType, ServedInOrder
  <2> QED
    BY <2>1, <2>2 DEF ServedInOrder
<1>8. ASSUME NEW t \in Threads, AtomicLoad(t)
      PROVE  ServedInOrder(F)'
  <2> DEFINE g == reader[thread[t].family]
  <2>1. /\ thread[t].pc = "typed"
        /\ thread[t].family \in Families
        /\ thread[t].floor \in 0 .. MaxGeneration
        /\ UNCHANGED <<cacheType, reader, updater, installed, newest>>
        /\ OfFamily(F)
    BY <1>8 DEF AtomicLoad, ThreadStates, OfFamily
  <2>2. g \in 0 .. MaxGeneration /\ g <= reader[F] /\ thread[t].floor <= g
    <3>1. g \in 0 .. MaxGeneration
      BY <2>1
    <3>2. ASSUME g # 0 PROVE thread[t].family = F
      BY <2>1, <3>2 DEF InOrder, OfFamily
    <3>3. /\ thread[t].floor > 0 => thread[t].family = F
          /\ thread[t].floor <= reader[F]
      BY <2>1 DEF ServedInOrder
    <3> QED
      BY <1>0, <2>1, <3>1, <3>2, <3>3
  <2>3. /\ thread'[t].pc \in {"reading", "answered"}
        /\ thread'[t].gen = g
        /\ thread'[t].floor = thread[t].floor
        /\ \A u \in Threads \ {t} : thread'[u] = thread[u]
    BY <1>8 DEF AtomicLoad
  <2> QED
    BY <2>1, <2>2, <2>3 DEF ServedInOrder
<1>9. ASSUME NEW t \in Threads, FinishRead(t)
      PROVE  ServedInOrder(F)'
  <2>1. /\ thread[t].pc = "reading"
        /\ thread[t].gen \in Nat /\ newest \in Nat
        /\ thread[t].gen <= reader[F]
        /\ thread[t].floor <= thread[t].gen
    BY <1>9 DEF FinishRead, ThreadStates, ServedInOrder
  <2>2. Max({newest, thread[t].gen}) \in {newest, thread[t].gen}
    BY <2>1, MaxOfTwo, Zenon
  <2>3. newest' <= reader[F]
    BY <1>9, <2>1, <2>2 DEF FinishRead, ServedInOrder
  <2>4. /\ thread'[t].pc = "answered"
        /\ thread'[t].gen = thread[t].gen
        /\ thread'[t].floor = thread[t].floor
        /\ \A u \in Threads \ {t} : thread'[u] = thread[u]
        /\ UNCHANGED <<cacheType, reader, updater, installed>>
    BY <1>9 DEF FinishRead, ThreadStates
  <2> QED
    BY <2>1, <2>3, <2>4 DEF ServedInOrder
<1>10. ASSUME NEW t \in Threads, LeaveLookup(t)
      PROVE  ServedInOrder(F)'
  BY <1>10 DEF LeaveLookup, ServedInOrder, Idle
<1>11. CASE UNCHANGED vars
  BY <1>11 DEF vars, ServedInOrder
<1> QED
  BY <1>1, <1>2, <1>3, <1>4, <1>5, <1>6, <1>7, <1>8, <1>9, <1>10, <1>11
     DEF Next, Update, LookupStep

\* The headers read are never fewer.
LEMMA FamilyBefore ==
  ASSUME NEW F \in Families
  PROVE  [Next]_vars /\ OfFamily(F)' => OfFamily(F)
BY DEF Next, Update, LookupStep, vars, historyVars, OfFamily, OpenFails,
       ReadHeader, LoadThrows, LoadMmap, AtomicStore, Return, ReadType,
       AtomicLoad, FinishRead, LeaveLookup

\* ServedInOrder, for the family that the files are of.
FamilyInv == \A F \in Families : OfFamily(F) => ServedInOrder(F)

\* As long as the files are of one family, a lookup that starts after a cache
\* was installed, or seen by a lookup that has ended, is answered from that
\* cache or a newer one: no interleaving of the swap with lookups, and no load
\* that fails, lets one go back.
THEOREM SwapAlwaysTransparent == Spec => []TransparentSwap
<1>1. Init => FamilyInv
  BY InitServedInOrder DEF FamilyInv
<1>2. IInv /\ FamilyInv /\ [Next]_vars => FamilyInv'
  BY NextServedInOrder, FamilyBefore DEF FamilyInv
<1>3. IInv /\ FamilyInv => TransparentSwap
  BY ReaderAssumption
     DEF IInv, Typed, ThreadStates, FamilyInv, ServedInOrder, TransparentSwap,
         OneFamily, OfFamily
<1> QED
  BY Invariance, <1>1, <1>2, <1>3, PTL DEF Spec

-----------------------------------------------------------------------------
(* What a failed load leaves behind, for files of any families *)

\* initializeReader has read the header and not failed.
UnderWay ==
  \/ updater.pc \in {"loading", "loaded"}
  \/ updater.pc = "returned" /\ updater.code = 0

\* While it is under way mCacheType is the type of its file, and what it is
\* about to return 0 for is stored.
UpdateInOrder ==
  /\ UnderWay => cacheType = FileType[updater.gen]
  /\ \A g \in Generations : Stored(g) /\ Family(FileType[g]) \in Families =>
       reader[Family(FileType[g])] = g

RetainInv == InstalledIsServed /\ UpdateInOrder

LEMMA InitRetainInv == Init => RetainInv
BY DEF Init, Idle, RetainInv, InstalledIsServed, UpdateInOrder, UnderWay,
       Stored

LEMMA NextRetainInv == IInv /\ RetainInv /\ [Next]_vars => RetainInv'
<1> SUFFICES ASSUME IInv, RetainInv, [Next]_vars PROVE RetainInv'
  OBVIOUS
<1> USE ReaderAssumption DEF IInv, Typed, Generations, RetainInv
<1>1. ASSUME UNCHANGED <<cacheType, reader, updater, installed>>
      PROVE  RetainInv'
  BY <1>1 DEF InstalledIsServed, InstalledFamily, UpdateInOrder, UnderWay,
              Stored
<1>2. ASSUME UNCHANGED <<cacheType, reader, installed>>
      PROVE  InstalledIsServed'
  BY <1>2 DEF InstalledIsServed, InstalledFamily
<1>3. ASSUME NEW g \in Generations, OpenFails(g)
      PROVE  RetainInv'
  <2>1. UpdateInOrder'
    BY <1>3 DEF OpenFails, UpdateInOrder, UnderWay, Stored
  <2> QED
    BY <1>2, <1>3, <2>1 DEF OpenFails
<1>4. ASSUME NEW g \in Generations, ReadHeader(g)
      PROVE  RetainInv'
  <2>1. /\ g > installed
        /\ cacheType' = FileType[g]
        /\ UNCHANGED <<reader, installed>>
        /\ updater'.gen = g
        /\ updater'.pc = "returned" => Family(FileType[g]) = "none"
    BY <1>4 DEF ReadHeader
  <2>2. InstalledIsServed'
    BY <2>1 DEF InstalledIsServed, InstalledFamily
  <2>3. UpdateInOrder'
    BY <2>1 DEF UpdateInOrder, UnderWay, Stored, Families
  <2> QED
    BY <2>2, <2>3
<1>5. CASE LoadThrows
  <2>1. UpdateInOrder'
    BY <1>5 DEF LoadThrows, UpdateInOrder, UnderWay, Stored
  <2> QED
    BY <1>2, <1>5, <2>1 DEF LoadThrows
<1>6. CASE LoadMmap
  <2>1. UpdateInOrder'
    BY <1>6 DEF LoadMmap, UpdateInOrder, UnderWay, Stored
  <2> QED
    BY <1>2, <1>6, <2>1 DEF LoadMmap
<1>7. CASE AtomicStore
  <2> DEFINE new == updater.gen
             f == Family(FileType[new])
  <2>1. /\ new \in Generations
        /\ new > installed
        /\ f \in Families
        /\ cacheType = FileType[new]
    BY <1>7 DEF AtomicStore, InOrder, UpdaterStates, UpdateInOrder, UnderWay
  <2>2. /\ reader' = [reader EXCEPT ![f] = new]
        /\ updater' = [pc |-> "returned", gen |-> new, code |-> 0]
        /\ UNCHANGED <<cacheType, installed>>
    BY <1>7 DEF AtomicStore
  <2>3. InstalledIsServed'
    BY <2>1, <2>2 DEF InstalledIsServed, InstalledFamily
  <2>4. UpdateInOrder'
    BY <2>1, <2>2 DEF UpdateInOrder, UnderWay, Stored
  <2> QED
    BY <2>3, <2>4
<1>8. CASE Return
  <2>1. /\ updater.gen \in Generations
        /\ updater'.pc = "idle"
        /\ UNCHANGED <<cacheType, reader>>
        /\ installed' = IF updater.code = 0 THEN updater.gen ELSE installed
    BY <1>8 DEF Return, Idle, UpdaterStates
  <2>2. UpdateInOrder'
    BY <2>1 DEF UpdateInOrder, UnderWay, Stored
  <2>3. CASE updater.code = 0
    <3>1. Stored(updater.gen) /\ cacheType = FileType[updater.gen]
      BY <1>8, <2>3 DEF Return, Stored, UpdateInOrder, UnderWay
    <3>2. Family(FileType[updater.gen]) \in Families =>
            reader[Family(FileType[updater.gen])] = updater.gen
      BY <2>1, <3>1 DEF UpdateInOrder
    <3> QED
      BY <2>1, <2>2, <2>3, <3>1, <3>2 DEF InstalledIsServed, InstalledFamily
  <2>4. CASE updater.code # 0
    BY <1>2, <2>1, <2>2, <2>4
  <2> QED
    BY <2>3, <2>4
<1>9. ASSUME NEW t \in Threads,
             LookupStep(t) \/ \E op \in Operations : ReadType(t, op)
      PROVE  RetainInv'
  BY <1>1, <1>9 DEF LookupStep, AtomicLoad, FinishRead, LeaveLookup, ReadType
<1>10. CASE UNCHANGED vars
  BY <1>1, <1>10 DEF vars
<1> QED
  BY <1>3, <1>4, <1>5, <1>6, <1>7, <1>8, <1>9, <1>10 DEF Next, Update

\* For files of any families, in any order, a load that fails or is under way
\* leaves the installed cache where it is; what it may take away is the type
\* that selects it, and only by the header of a newer file.
THEOREM InstalledAlwaysServed == Spec => []InstalledIsServed
<1>1. IInv /\ RetainInv /\ [Next]_vars => RetainInv'
  BY NextRetainInv
<1>2. RetainInv => InstalledIsServed
  BY DEF RetainInv
<1> QED
  BY Invariance, InitRetainInv, <1>1, <1>2, PTL DEF Spec

=============================================================================
