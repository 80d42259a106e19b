------------------------- MODULE CacheFamiliesProofs -------------------------
(***************************************************************************)
(* Proofs about the BUCKET_CHAIN cache, and its agreement with the MAP     *)
(* cache, for every hash function, number of slots, load factor, and every *)
(* set of keys and values of any sizes.                                    *)
(*                                                                         *)
(* A chain is a walk along the links, a function defined by recursion.     *)
(* That there is one such function is shown by the smallest counterexample:*)
(* every link leads to a larger offset.  That there is one at all is an    *)
(* invariant: the walk after a put is made from the walk before it.        *)
(***************************************************************************)
EXTENDS CacheFamilies, TLAPS, FiniteSetTheorems, SequenceTheorems,
        WellFoundedInduction

-----------------------------------------------------------------------------
(* The key space *)

\* A set of numbers that is not empty has a smallest member.
LEMMA SmallestMember ==
  ASSUME NEW T, T \subseteq Nat, T # {}
  PROVE  \E d \in T : \A e \in T : ~(e < d)
<1>1. IsWellFoundedOn(OpToRel(<, Nat), Nat)
  BY NatLessThanWellFounded, Zenon
<1>2. PICK d \in T : \A e \in T : ~(<<e, d>> \in OpToRel(<, Nat))
  BY <1>1, WFMin, Zenon
<1> QED
  BY <1>2 DEF OpToRel

\* Powers of two, counted as the subsets of an interval.
LEMMA PowerOfTwo ==
  ASSUME NEW n \in Nat
  PROVE  2 ^ n \in Nat /\ 2 ^ n >= 1 /\ 2 ^ n >= n
<1> DEFINE S == 1 .. n
           f == [x \in S |-> {x}]
           h == [x \in {0} |-> {}]
<1>1. IsFiniteSet(S) /\ Cardinality(S) = n
  BY FS_Interval
<1>2. IsFiniteSet(SUBSET S) /\ Cardinality(SUBSET S) = 2 ^ n
  BY <1>1, FS_SUBSET
<1>3. 2 ^ n \in Nat
  BY <1>2, FS_CardinalityType
<1>4. Cardinality(S) <= Cardinality(SUBSET S)
  <2>1. f \in Injection(S, SUBSET S)
    BY DEF Injection, IsInjective
  <2> QED
    BY <1>2, <2>1, FS_Injection
<1>5. SUBSET S # {}
  OBVIOUS
<1>6. 2 ^ n # 0
  BY <1>2, <1>5, FS_EmptySet
<1> QED
  BY <1>1, <1>2, <1>3, <1>4, <1>6

\* SimpleProbe has a slot for every one that was asked for, and at least one.
LEMMA SlotsEnough == Slots \in Nat \ {0} /\ Slots >= NumberOfKeySlots
<1> DEFINE n == NumberOfKeySlots
           Fits(i) == 2 ^ i >= n /\ \A j \in 0 .. i - 1 : 2 ^ j < n
           T == {i \in 0 .. n : 2 ^ i >= n}
<1>1. n \in Nat
  BY ChainAssumption
<1>2. n \in T
  BY <1>1, PowerOfTwo
<1>3. PICK d \in T : \A e \in T : ~(e < d)
  <2>1. T \subseteq Nat /\ T # {}
    BY <1>1, <1>2
  <2> HIDE DEF T
  <2> QED
    BY <2>1, SmallestMember
<1>4. Fits(d)
  <2>1. ASSUME NEW j \in 0 .. d - 1 PROVE 2 ^ j < n
    <3>1. j \in 0 .. n /\ j < d /\ 2 ^ j \in Nat
      BY <1>1, <1>3, PowerOfTwo
    <3>2. j \notin T
      BY <1>3, <3>1
    <3> QED
      BY <1>1, <3>1, <3>2
  <2> QED
    BY <1>3, <2>1
<1>5. d \in 0 .. n
  OBVIOUS
<1> DEFINE c == CHOOSE i \in 0 .. n : Fits(i)
<1>6. c \in 0 .. n /\ Fits(c)
  BY <1>4, <1>5
<1>7. Slots = 2 ^ c
  BY DEF Slots, RoundUpToPowerOfTwo
<1> HIDE DEF c
<1> QED
  BY <1>1, <1>6, <1>7, PowerOfTwo

LEMMA SlotOffsetsAre ==
  /\ KeySpaceSize \in Nat /\ KeySpaceSize >= kLinkSize
  /\ \A s \in SlotOffsets : s \in Nat /\ s < KeySpaceSize
  /\ 0 \in SlotOffsets
  /\ \A k \in Keys : FindKeySlotOffset(k) \in SlotOffsets
<1>1. Slots \in Nat \ {0}
  BY SlotsEnough
<1>2. \A k \in Keys : Hash[k] % Slots \in 0 .. Slots - 1
  BY <1>1, ChainAssumption
<1> QED
  BY <1>1, <1>2 DEF KeySpaceSize, SlotOffsets, FindKeySlotOffset, kLinkSize

LEMMA SizeOfRecord ==
  ASSUME NEW k \in Keys, NEW v \in Values
  PROVE  CalculateSize(k, v) \in Nat /\ CalculateSize(k, v) > 0
BY ChainAssumption DEF CalculateSize, kLinkSize

-----------------------------------------------------------------------------
(* Walks along links *)

Walks(links, f) ==
  f = [o \in DOMAIN links |->
         IF links[o] = 0 THEN <<>> ELSE <<links[o]>> \o f[links[o]]]

Walk(links) == CHOOSE f : Walks(links, f)

\* The chains of the cache, from every slot and record.
chains == [o \in DOMAIN next |-> Chain(o)]

\* Every link leads forward, to a record.
LinksForward(links, targets, bound) ==
  /\ bound \in Nat
  /\ targets \subseteq DOMAIN links
  /\ \A o \in DOMAIN links :
       /\ o \in Nat /\ o < bound
       /\ links[o] = 0 \/ (links[o] \in targets /\ links[o] > o)

LEMMA WalkUnique ==
  ASSUME NEW links, NEW targets, NEW bound, LinksForward(links, targets, bound),
         NEW f, Walks(links, f)
  PROVE  Walk(links) = f
<1> DEFINE g == Walk(links)
<1>1. Walks(links, g)
  BY DEF Walk
<1> HIDE DEF g
<1> DEFINE T == {bound - o : o \in {p \in DOMAIN links : f[p] # g[p]}}
<1>2. T \subseteq Nat
  BY DEF LinksForward
<1>3. ASSUME T # {} PROVE FALSE
  <2>1. PICK d \in T : \A e \in T : ~(e < d)
    BY <1>2, <1>3, SmallestMember
  <2>2. PICK o \in DOMAIN links : f[o] # g[o] /\ d = bound - o
    BY <2>1
  <2>3. /\ f[o] = IF links[o] = 0 THEN <<>> ELSE <<links[o]>> \o f[links[o]]
        /\ g[o] = IF links[o] = 0 THEN <<>> ELSE <<links[o]>> \o g[links[o]]
    BY <1>1 DEF Walks
  <2>4. /\ links[o] # 0 /\ f[links[o]] # g[links[o]]
    BY <2>2, <2>3
  <2>5. links[o] \in DOMAIN links /\ links[o] > o /\ links[o] \in Nat
        /\ o \in Nat /\ bound \in Nat
    BY <2>4 DEF LinksForward
  <2>6. bound - links[o] \in T
    BY <2>4, <2>5
  <2> QED
    BY <2>1, <2>2, <2>5, <2>6
<1>4. \A o \in DOMAIN links : f[o] = g[o]
  BY <1>3
<1>5. f = [o \in DOMAIN links |-> f[o]] /\ g = [o \in DOMAIN links |-> g[o]]
  BY <1>1 DEF Walks
<1> QED
  BY <1>4, <1>5 DEF g

\* The link at which a walk ends.
EndOf(f, o) == IF f[o] = <<>> THEN o ELSE f[o][Len(f[o])]

\* What ChainedValue::add does to the links, and to the walks.
Linked(links, end, new) ==
  [o \in DOMAIN links \cup {new} |->
     IF o = new THEN 0 ELSE IF o = end THEN new ELSE links[o]]

Walked(links, f, end, new) ==
  [o \in DOMAIN links \cup {new} |->
     IF o = new THEN <<>>
     ELSE IF EndOf(f, o) = end THEN Append(f[o], new) ELSE f[o]]

LEMMA ConsLast ==
  ASSUME NEW S, NEW n \in S, NEW t \in Seq(S), NEW u, u = <<n>> \o t
  PROVE  u # <<>> /\ u[Len(u)] = IF t = <<>> THEN n ELSE t[Len(t)]
<1>1. Len(u) = Len(t) + 1 /\ Len(t) \in Nat /\ (t # <<>> => Len(t) # 0)
  BY EmptySeq
<1>2. t = <<>> => Len(t) = 0
  OBVIOUS
<1>3. u[1] = n /\ \A i \in 1 .. Len(t) : u[i + 1] = t[i]
  OBVIOUS
<1>4. u # <<>>
  BY <1>1
<1> QED
  BY <1>1, <1>2, <1>3, <1>4

LEMMA ConsAppend ==
  ASSUME NEW S, NEW n \in S, NEW t \in Seq(S), NEW x, NEW u, u = <<n>> \o t
  PROVE  Append(u, x) = <<n>> \o Append(t, x)
<1> DEFINE U == S \cup {x}
<1>1. t \in [1 .. Len(t) -> S] /\ Len(t) \in Nat
  BY LenProperties
<1>2. t \in [1 .. Len(t) -> U] /\ n \in U /\ x \in U
  BY <1>1
<1> HIDE DEF U
<1>3. t \in Seq(U)
  BY <1>1, <1>2, SeqDef
<1> QED
  BY <1>2, <1>3

\* A put lengthens the walks that end where it hangs its record on, by that
\* record, and no other.
LEMMA AppendWalk ==
  ASSUME NEW links, NEW S, NEW f, Walks(links, f),
         S \subseteq DOMAIN links,
         \A o \in DOMAIN links : /\ links[o] = 0 \/ links[o] \in S
                                 /\ f[o] \in Seq(S),
         NEW end \in DOMAIN links, links[end] = 0,
         NEW new, new \notin DOMAIN links, new # 0
  PROVE  Walks(Linked(links, end, new), Walked(links, f, end, new))
<1> DEFINE nx == Linked(links, end, new)
           g == Walked(links, f, end, new)
           D == DOMAIN links \cup {new}
<1>1. DOMAIN nx = D /\ g = [o \in D |-> g[o]]
  BY DEF Linked, Walked
<1>2. \A o \in DOMAIN links :
        f[o] = IF links[o] = 0 THEN <<>> ELSE <<links[o]>> \o f[links[o]]
  BY DEF Walks
<1>3. /\ nx[new] = 0 /\ g[new] = <<>>
      /\ \A o \in DOMAIN links :
           /\ nx[o] = IF o = end THEN new ELSE links[o]
           /\ g[o] = IF EndOf(f, o) = end THEN Append(f[o], new) ELSE f[o]
  BY DEF Linked, Walked
<1> HIDE DEF nx, g
<1>4. ASSUME NEW o \in D
      PROVE  g[o] = IF nx[o] = 0 THEN <<>> ELSE <<nx[o]>> \o g[nx[o]]
  <2>1. CASE o = new
    BY <1>3, <2>1
  <2>2. CASE o = end
    <3>1. f[end] = <<>> /\ EndOf(f, end) = end
      BY <1>2 DEF EndOf
    <3>2. g[end] = Append(<<>>, new) /\ nx[end] = new /\ g[new] = <<>>
      BY <1>3, <3>1
    <3>3. Append(<<>>, new) = <<new>> /\ <<new>> \o <<>> = <<new>>
      OBVIOUS
    <3> QED
      BY <2>2, <3>2, <3>3
  <2>3. CASE o \in DOMAIN links /\ o # end /\ links[o] = 0
    <3>1. f[o] = <<>> /\ EndOf(f, o) = o
      BY <1>2, <2>3 DEF EndOf
    <3> QED
      BY <1>3, <2>3, <3>1
  <2>4. CASE o \in DOMAIN links /\ links[o] # 0
    <3>0. PICK n : n = links[o]
      OBVIOUS
    <3>1. o # end /\ n \in S /\ n \in DOMAIN links /\ n # 0
      BY <2>4, <3>0
    <3>2. nx[o] = n
      BY <1>3, <2>4, <3>0, <3>1
    <3>3. PICK t \in Seq(S) : t = f[n]
      BY <3>1
    <3>4. PICK u : u = f[o]
      OBVIOUS
    <3>5. u = <<n>> \o t
      BY <1>2, <2>4, <3>0, <3>3, <3>4
    <3>6. EndOf(f, o) = EndOf(f, n)
      <4>1. u # <<>> /\ u[Len(u)] = IF t = <<>> THEN n ELSE t[Len(t)]
        BY <3>1, <3>5, ConsLast
      <4> QED
        BY <3>3, <3>4, <4>1 DEF EndOf
    <3>7. CASE EndOf(f, o) = end
      <4>1. g[o] = Append(u, new) /\ g[n] = Append(t, new)
        BY <1>3, <2>4, <3>1, <3>3, <3>4, <3>6, <3>7
      <4>2. Append(u, new) = <<n>> \o Append(t, new)
        BY <3>1, <3>5, ConsAppend
      <4> QED
        BY <3>1, <3>2, <4>1, <4>2
    <3>8. CASE EndOf(f, o) # end
      <4>1. g[o] = u /\ g[n] = t
        BY <1>3, <2>4, <3>1, <3>3, <3>4, <3>6, <3>8
      <4> QED
        BY <3>1, <3>2, <3>5, <4>1
    <3> QED
      BY <3>7, <3>8
  <2> QED
    BY <2>1, <2>2, <2>3, <2>4
<1> QED
  BY <1>1, <1>4 DEF Walks, nx, g

\* A function that walks along the links of the cache is the function of its
\* chains.
LEMMA ChainsAre ==
  ASSUME NEW targets, NEW bound, LinksForward(next, targets, bound),
         NEW f, Walks(next, f)
  PROVE  chains = f
<1>1. Walk(next) = f
  BY WalkUnique
<1>2. chains = [o \in DOMAIN next |-> Walk(next)[o]]
  BY DEF chains, Chain, Walk, Walks
<1>3. f = [o \in DOMAIN next |-> f[o]]
  BY DEF Walks
<1> QED
  BY <1>1, <1>2, <1>3

LEMMA ChainsAreNext ==
  ASSUME NEW targets, NEW bound, LinksForward(next', targets, bound),
         NEW f, Walks(next', f)
  PROVE  chains' = f
<1>1. Walk(next') = f
  BY WalkUnique
<1>2. chains' = [o \in DOMAIN next' |-> Walk(next')[o]]
  BY DEF chains, Chain, Walk, Walks
<1>3. f = [o \in DOMAIN next' |-> f[o]]
  BY DEF Walks
<1> QED
  BY <1>1, <1>2, <1>3

-----------------------------------------------------------------------------
(* The invariant of the BUCKET_CHAIN cache *)

\* The buffer: the links lead forward, and the records lie behind each other.
BufferInv ==
  /\ ChainTypeOK
  /\ IsFiniteSet(DOMAIN records)
  /\ RecordsDisjoint
  /\ dataSize >= KeySpaceSize
  /\ LinksForward(next, DOMAIN records, dataSize)

\* The chains can be walked, and a record can be hung on at their end.
WalkInv ==
  /\ Walks(next, chains)
  /\ \A o \in DOMAIN next :
       /\ chains[o] \in Seq(DOMAIN records)
       /\ next[EndOf(chains, o)] = 0

RecordsOf(s) == {o \in DOMAIN records : FindKeySlotOffset(records[o].key) = s}

\* The chain of a slot holds its records, in the order of their offsets.
SlotInv ==
  \A s \in SlotOffsets :
    /\ {chains[s][i] : i \in DOMAIN chains[s]} = RecordsOf(s)
    /\ \A i, j \in DOMAIN chains[s] : i < j => chains[s][i] < chains[s][j]

Excess(n) == IF n = 0 THEN 0 ELSE n - 1

HeaderInv ==
  /\ numberOfEntries = Cardinality(DOMAIN records)
  /\ \A s \in SlotOffsets : Excess(Len(chains[s])) <= maxCollisions
  /\ \E s \in SlotOffsets : Excess(Len(chains[s])) = maxCollisions

ChainInv == BufferInv /\ WalkInv /\ SlotInv /\ HeaderInv

LEMMA ChainInit_Inv == ChainInit => ChainInv
<1> SUFFICES ASSUME ChainInit PROVE ChainInv
  OBVIOUS
<1>1. /\ next = [o \in SlotOffsets |-> 0] /\ DOMAIN records = {}
      /\ dataSize = KeySpaceSize /\ realDataSize = KeySpaceSize
      /\ numberOfEntries = 0 /\ maxCollisions = 0 /\ loaded = FALSE
      /\ result.outcome = "none"
  BY DEF ChainInit, NoResult
<1>2. BufferInv
  <2>1. LinksForward(next, DOMAIN records, dataSize)
    BY <1>1, SlotOffsetsAre DEF LinksForward
  <2>2. ChainTypeOK
    BY <1>1, SlotOffsetsAre DEF ChainTypeOK, ChainOutcomes
  <2>3. RecordsDisjoint /\ IsFiniteSet(DOMAIN records)
    BY <1>1, FS_EmptySet DEF RecordsDisjoint
  <2> QED
    BY <1>1, <2>1, <2>2, <2>3, SlotOffsetsAre DEF BufferInv
<1> DEFINE f == [o \in SlotOffsets |-> <<>>]
<1>3. Walks(next, f)
  BY <1>1 DEF Walks
<1>4. chains = f
  BY <1>2, <1>3, ChainsAre DEF BufferInv
<1>5. \A s \in SlotOffsets : chains[s] = <<>> /\ EndOf(chains, s) = s
  BY <1>4 DEF EndOf
<1>6. WalkInv
  BY <1>1, <1>3, <1>4, <1>5 DEF WalkInv
<1>7. SlotInv
  BY <1>1, <1>5 DEF SlotInv, RecordsOf
<1>8. HeaderInv
  BY <1>1, <1>5, SlotOffsetsAre, FS_EmptySet DEF HeaderInv, Excess
<1> QED
  BY <1>2, <1>6, <1>7, <1>8 DEF ChainInv

\* The calls that write nothing.
LEMMA ChainFrame ==
  ASSUME ChainInv, UNCHANGED <<next, records, dataSize, numberOfEntries, maxCollisions>>,
         realDataSize' \in Nat, loaded' \in BOOLEAN,
         result'.outcome \in ChainOutcomes
  PROVE  ChainInv' /\ chains' = chains
<1>1. chains' = chains
  BY DEF chains, Chain
<1>2. BufferInv'
  BY DEF ChainInv, BufferInv, ChainTypeOK, RecordsDisjoint, LinksForward
<1>3. WalkInv'
  BY <1>1 DEF ChainInv, WalkInv, Walks, EndOf
<1>4. SlotInv'
  BY <1>1 DEF ChainInv, SlotInv, RecordsOf
<1>5. HeaderInv'
  BY <1>1 DEF ChainInv, HeaderInv, Excess
<1> QED
  BY <1>1, <1>2, <1>3, <1>4, <1>5 DEF ChainInv

\* Chains of different slots have different ends.
LEMMA EndsDiffer ==
  ASSUME ChainInv, NEW s \in SlotOffsets, NEW t \in SlotOffsets,
         EndOf(chains, s) = EndOf(chains, t)
  PROVE  s = t
<1>1. \A o \in DOMAIN records : o \notin SlotOffsets
  BY SlotOffsetsAre DEF ChainInv, BufferInv, RecordsDisjoint, ChainTypeOK, LinksForward
<1>2. ASSUME NEW u \in SlotOffsets
      PROVE  IF chains[u] = <<>> THEN EndOf(chains, u) = u
             ELSE EndOf(chains, u) \in RecordsOf(u)
  <2>1. chains[u] \in Seq(DOMAIN records)
    BY DEF ChainInv, BufferInv, ChainTypeOK, WalkInv
  <2>2. chains[u] # <<>> => Len(chains[u]) \in DOMAIN chains[u]
    BY <2>1, EmptySeq
  <2>3. \A i \in DOMAIN chains[u] : chains[u][i] \in RecordsOf(u)
    BY DEF ChainInv, SlotInv
  <2> QED
    BY <2>2, <2>3 DEF EndOf
<1> QED
  BY <1>1, <1>2 DEF RecordsOf

\* What a put that stores its record does to the links and the chains.
LEMMA PutChains ==
  ASSUME ChainInv, NEW k \in Keys, NEW v \in Values, PutInserted(k, v)
  PROVE  /\ dataSize \notin DOMAIN next
         /\ LinksForward(next', DOMAIN records \cup {dataSize}, dataSize')
         /\ dataSize' \in Nat /\ dataSize' = dataSize + CalculateSize(k, v)
         /\ next' = Linked(next, EndOf(chains, FindKeySlotOffset(k)), dataSize)
         /\ Walks(next', chains')
         /\ chains' = Walked(next, chains, EndOf(chains, FindKeySlotOffset(k)),
                             dataSize)
<1> DEFINE t == FindKeySlotOffset(k)
           end == EndOf(chains, t)
           new == dataSize
           g == Walked(next, chains, end, new)
           R == DOMAIN records
<1>1. /\ t \in SlotOffsets /\ t \in DOMAIN next
      /\ DOMAIN next = SlotOffsets \cup R
  BY SlotOffsetsAre DEF ChainInv, BufferInv, ChainTypeOK
<1>2. EndOfChain(k) = end
  <2>1. ChainOf(k) = chains[t]
    BY <1>1 DEF ChainOf, chains
  <2> QED
    BY <2>1 DEF EndOfChain, EndOf
<1>3. end \in DOMAIN next /\ next[end] = 0
  <2>1. chains[t] \in Seq(R) /\ next[end] = 0
    BY <1>1 DEF ChainInv, WalkInv
  <2>2. chains[t] # <<>> => chains[t][Len(chains[t])] \in R
    BY <2>1, EmptySeq
  <2> QED
    BY <1>1, <2>1, <2>2 DEF EndOf
<1>4. next' = Linked(next, end, new)
  BY <1>2 DEF PutInserted, Links, Linked
<1>5. /\ new \in Nat /\ new # 0 /\ dataSize' \in Nat /\ dataSize' > new
      /\ dataSize' = dataSize + CalculateSize(k, v)
  <2>1. new \in Nat /\ new >= KeySpaceSize
    BY DEF ChainInv, BufferInv, ChainTypeOK
  <2>2. new # 0
    BY <2>1, SlotOffsetsAre DEF kLinkSize
  <2>3. dataSize' = dataSize + CalculateSize(k, v)
    BY DEF PutInserted, Grow
  <2> QED
    BY <2>1, <2>2, <2>3, SizeOfRecord
<1>6. /\ \A o \in DOMAIN next : /\ o \in Nat /\ o < new
                                /\ next[o] = 0 \/ (next[o] \in R /\ next[o] > o)
  BY DEF ChainInv, BufferInv, LinksForward
<1>7. new \notin DOMAIN next
  BY <1>5, <1>6
<1> HIDE DEF end, new
<1>8. /\ DOMAIN next' = DOMAIN next \cup {new} /\ next'[new] = 0
      /\ \A o \in DOMAIN next : next'[o] = IF o = end THEN new ELSE next[o]
  BY <1>4, <1>7 DEF Linked
<1>9. LinksForward(next', R \cup {new}, dataSize')
  BY <1>1, <1>3, <1>5, <1>6, <1>8 DEF LinksForward
<1>10. Walks(next', g)
  <2>1. \A o \in DOMAIN next : /\ next[o] = 0 \/ next[o] \in R
                               /\ chains[o] \in Seq(R)
    BY <1>6 DEF ChainInv, WalkInv
  <2>2. Walks(next, chains)
    BY DEF ChainInv, WalkInv
  <2> QED
    BY <1>1, <1>3, <1>4, <1>5, <1>7, <2>1, <2>2, AppendWalk
<1>11. chains' = g
  BY <1>9, <1>10, ChainsAreNext
<1> QED
  BY <1>4, <1>5, <1>7, <1>9, <1>10, <1>11 DEF end, new

\* The chain of the key's slot grows by the new record, no other changes.
LEMMA PutSlotChains ==
  ASSUME ChainInv, NEW k \in Keys, NEW v \in Values, PutInserted(k, v)
  PROVE  \A s \in SlotOffsets :
           chains'[s] = IF s = FindKeySlotOffset(k)
                        THEN Append(chains[s], dataSize) ELSE chains[s]
<1> DEFINE t == FindKeySlotOffset(k)
           end == EndOf(chains, t)
<1>1. t \in SlotOffsets
  BY SlotOffsetsAre
<1>2. \A s \in SlotOffsets : s \in DOMAIN next /\ s # dataSize
  BY PutChains DEF ChainInv, BufferInv, ChainTypeOK
<1>3. \A s \in SlotOffsets : EndOf(chains, s) = end <=> s = t
  BY <1>1, EndsDiffer
<1>4. chains' = Walked(next, chains, end, dataSize)
  BY PutChains
<1> HIDE DEF end, t
<1>5. \A s \in SlotOffsets :
        chains'[s] = IF EndOf(chains, s) = end THEN Append(chains[s], dataSize)
                     ELSE chains[s]
  BY <1>2, <1>4 DEF Walked
<1> QED
  BY <1>3, <1>5 DEF t

\* The records after a put.
LEMMA PutRecords ==
  ASSUME ChainInv, NEW k \in Keys, NEW v \in Values, PutInserted(k, v)
  PROVE  /\ DOMAIN records' = DOMAIN records \cup {dataSize}
         /\ dataSize \notin DOMAIN records /\ dataSize \in Nat
         /\ records'[dataSize].key = k /\ records'[dataSize].value = v
         /\ \A o \in DOMAIN records : records'[o] = records[o]
<1>1. records' = [o \in DOMAIN records \cup {dataSize} |->
                    IF o = dataSize THEN [key |-> k, value |-> v] ELSE records[o]]
  BY DEF PutInserted
<1>2. dataSize \notin DOMAIN records /\ dataSize \in Nat
  BY PutChains DEF ChainInv, BufferInv, ChainTypeOK
<1>3. records'[dataSize] = [key |-> k, value |-> v]
  BY <1>1
<1> QED
  BY <1>1, <1>2, <1>3

LEMMA MaxOfTwo ==
  ASSUME NEW a \in Nat, NEW b \in Nat
  PROVE  Max({a, b}) = IF a >= b THEN a ELSE b
<1> DEFINE m == IF a >= b THEN a ELSE b
<1>1. m \in {a, b} /\ \A y \in {a, b} : m >= y
  OBVIOUS
<1>2. \A x \in {a, b} : (\A y \in {a, b} : x >= y) => x = m
  OBVIOUS
<1> HIDE DEF m
<1>3. Max({a, b}) = m
  BY <1>1, <1>2 DEF Max
<1> QED
  BY <1>3 DEF m

LEMMA PutCollisions ==
  ASSUME ChainInv, NEW k \in Keys, NEW v \in Values, PutInserted(k, v)
  PROVE  LET n == Len(chains[FindKeySlotOffset(k)])
         IN n \in Nat /\ maxCollisions' = IF maxCollisions >= n THEN maxCollisions ELSE n
<1> DEFINE t == FindKeySlotOffset(k)
           n == Len(chains[t])
<1>1. t \in DOMAIN next
  BY SlotOffsetsAre DEF ChainInv, BufferInv, ChainTypeOK
<1>2. ChainOf(k) = chains[t]
  BY <1>1 DEF ChainOf, chains
<1>3. chains[t] \in Seq(DOMAIN records)
  BY <1>1 DEF ChainInv, WalkInv
<1>4. n \in Nat /\ maxCollisions \in Nat
  BY <1>3 DEF ChainInv, BufferInv, ChainTypeOK
<1>5. maxCollisions' = Max({maxCollisions, n})
  BY <1>2 DEF PutInserted, Collisions
<1> HIDE DEF n
<1>6. maxCollisions' = IF maxCollisions >= n THEN maxCollisions ELSE n
  BY <1>4, <1>5, MaxOfTwo
<1> QED
  BY <1>4, <1>6 DEF n

LEMMA PutBuffer ==
  ASSUME ChainInv, NEW k \in Keys, NEW v \in Values, PutInserted(k, v)
  PROVE  BufferInv'
<1> DEFINE size == CalculateSize(k, v)
<1>1. /\ DOMAIN records' = DOMAIN records \cup {dataSize}
      /\ dataSize \notin DOMAIN records /\ dataSize \in Nat
      /\ records'[dataSize].key = k /\ records'[dataSize].value = v
      /\ \A o \in DOMAIN records : records'[o] = records[o]
  BY PutRecords
<1>2. /\ LinksForward(next', DOMAIN records', dataSize')
      /\ dataSize' \in Nat /\ dataSize' = dataSize + size
  BY <1>1, PutChains
<1>3. size \in Nat /\ size > 0
  BY SizeOfRecord
<1>4. /\ realDataSize' \in Nat /\ numberOfEntries' \in Nat
      /\ loaded' \in BOOLEAN /\ result'.outcome \in ChainOutcomes
  <2>1. /\ dataSize \in Nat /\ realDataSize \in Nat /\ numberOfEntries \in Nat
        /\ loaded \in BOOLEAN
    BY DEF ChainInv, BufferInv, ChainTypeOK
  <2>2. realDataSize' \in Nat
    BY <1>3, <2>1 DEF PutInserted, Grow
  <2>3. result'.outcome = "inserted"
    BY DEF PutInserted, Result
  <2> QED
    BY <2>1, <2>2, <2>3 DEF PutInserted, ChainOutcomes
<1>5. maxCollisions' \in Nat
  BY PutCollisions DEF ChainInv, BufferInv, ChainTypeOK
<1>6. DOMAIN next' = SlotOffsets \cup DOMAIN records'
  <2>1. DOMAIN next' = DOMAIN next \cup {dataSize}
    BY PutChains DEF Linked
  <2> QED
    BY <1>1, <2>1 DEF ChainInv, BufferInv, ChainTypeOK
<1>7. ChainTypeOK'
  <2>1. \A o \in DOMAIN next' : next'[o] \in {0} \cup DOMAIN records'
    BY <1>2 DEF LinksForward
  <2>2. \A o \in DOMAIN records' : records'[o].key \in Keys /\ records'[o].value \in Values
    BY <1>1 DEF ChainInv, BufferInv, ChainTypeOK
  <2> QED
    BY <1>2, <1>4, <1>5, <1>6, <2>1, <2>2 DEF ChainTypeOK
<1>8. IsFiniteSet(DOMAIN records')
  BY <1>1, FS_AddElement DEF ChainInv, BufferInv
<1>9. dataSize >= KeySpaceSize /\ KeySpaceSize \in Nat
  BY SlotOffsetsAre DEF ChainInv, BufferInv
<1>10. RecordsDisjoint'
  <2> DEFINE Size(o) == CalculateSize(records[o].key, records[o].value)
             SizeN(o) == CalculateSize(records'[o].key, records'[o].value)
  <2>1. \A o \in DOMAIN records :
          /\ o \in Nat /\ Size(o) \in Nat /\ Size(o) > 0
          /\ o >= KeySpaceSize /\ o + Size(o) <= dataSize
          /\ \A p \in DOMAIN records : o < p => o + Size(o) <= p
    <3>1. \A o \in DOMAIN records : o \in Nat
      BY DEF ChainInv, BufferInv, LinksForward
    <3>2. \A o \in DOMAIN records : Size(o) \in Nat /\ Size(o) > 0
      BY SizeOfRecord DEF ChainInv, BufferInv, ChainTypeOK
    <3> QED
      BY <3>1, <3>2 DEF ChainInv, BufferInv, RecordsDisjoint
  <2>2. \A o \in DOMAIN records : SizeN(o) = Size(o)
    BY <1>1
  <2>3. SizeN(dataSize) = size
    BY <1>1
  <2> HIDE DEF Size, SizeN, size
  <2>4. \A o \in DOMAIN records' : o >= KeySpaceSize /\ o + SizeN(o) <= dataSize'
    BY <1>1, <1>2, <1>3, <1>9, <2>1, <2>2, <2>3
  <2>5. \A o, p \in DOMAIN records' : o < p => o + SizeN(o) <= p
    BY <1>1, <1>2, <1>3, <1>9, <2>1, <2>2, <2>3
  <2> QED
    BY <2>4, <2>5 DEF RecordsDisjoint, SizeN, KeySpaceSize
<1>11. dataSize' >= KeySpaceSize
  BY <1>1, <1>2, <1>3, <1>9
<1> QED
  BY <1>2, <1>7, <1>8, <1>10, <1>11 DEF BufferInv

LEMMA AppendTyped ==
  ASSUME NEW S, NEW x, NEW t \in Seq(S)
  PROVE  /\ t \in Seq(S \cup {x})
         /\ Append(t, x) \in Seq(S \cup {x})
         /\ Append(t, x) # <<>> /\ Len(Append(t, x)) = Len(t) + 1
         /\ \A i \in 1 .. Len(t) : Append(t, x)[i] = t[i]
         /\ Append(t, x)[Len(t) + 1] = x
         /\ Len(t) \in Nat /\ DOMAIN t = 1 .. Len(t)
         /\ DOMAIN Append(t, x) = 1 .. Len(t) + 1
<1> DEFINE U == S \cup {x}
<1>1. t \in [1 .. Len(t) -> S] /\ Len(t) \in Nat /\ DOMAIN t = 1 .. Len(t)
  BY LenProperties
<1>2. t \in [1 .. Len(t) -> U] /\ x \in U
  BY <1>1
<1> HIDE DEF U
<1>3. t \in Seq(U)
  BY <1>1, <1>2, SeqDef
<1>4. /\ Append(t, x) \in Seq(U) /\ Append(t, x) # <<>>
      /\ Len(Append(t, x)) = Len(t) + 1
      /\ \A i \in 1 .. Len(t) : Append(t, x)[i] = t[i]
      /\ Append(t, x)[Len(t) + 1] = x
  BY <1>2, <1>3, AppendProperties
<1>5. DOMAIN Append(t, x) = 1 .. Len(t) + 1
  BY <1>4, LenProperties
<1> QED
  BY <1>1, <1>3, <1>4, <1>5 DEF U

LEMMA PutWalk ==
  ASSUME ChainInv, NEW k \in Keys, NEW v \in Values, PutInserted(k, v)
  PROVE  WalkInv'
<1> DEFINE end == EndOf(chains, FindKeySlotOffset(k))
           new == dataSize
           R == DOMAIN records
<1>1. /\ DOMAIN records' = R \cup {new} /\ new \notin DOMAIN next
      /\ next' = Linked(next, end, new) /\ Walks(next', chains')
      /\ chains' = Walked(next, chains, end, new)
  BY PutRecords, PutChains
<1>2. \A o \in DOMAIN next : chains[o] \in Seq(R) /\ next[EndOf(chains, o)] = 0
  BY DEF ChainInv, WalkInv
<1>3. R \subseteq DOMAIN next
  BY DEF ChainInv, BufferInv, LinksForward
<1> HIDE DEF end, new, R
<1>4. /\ DOMAIN next' = DOMAIN next \cup {new} /\ next'[new] = 0
      /\ \A o \in DOMAIN next : next'[o] = IF o = end THEN new ELSE next[o]
  BY <1>1 DEF Linked
<1>5. /\ chains'[new] = <<>>
      /\ \A o \in DOMAIN next :
           chains'[o] = IF EndOf(chains, o) = end THEN Append(chains[o], new)
                        ELSE chains[o]
  BY <1>1 DEF Walked
<1>6. ASSUME NEW o \in DOMAIN next'
      PROVE  chains'[o] \in Seq(R \cup {new}) /\ next'[EndOf(chains, o)'] = 0
  <2>1. EndOf(chains, o)' = EndOf(chains', o)
    BY DEF EndOf
  <2>2. CASE o = new
    <3>1. EndOf(chains', o) = new
      BY <1>5, <2>2 DEF EndOf
    <3>2. chains'[o] \in Seq(R \cup {new})
      BY <1>5, <2>2, EmptySeq
    <3>3. next'[new] = 0
      BY <1>4
    <3> QED
      BY <2>1, <3>1, <3>2, <3>3
  <2>3. CASE o \in DOMAIN next /\ EndOf(chains, o) = end
    <3>1. PICK t \in Seq(R) : t = chains[o]
      BY <1>2, <2>3
    <3>2. chains'[o] = Append(t, new)
      BY <1>5, <2>3, <3>1
    <3>3. /\ Append(t, new) \in Seq(R \cup {new})
          /\ Append(t, new) # <<>>
          /\ Append(t, new)[Len(Append(t, new))] = new
      BY AppendTyped
    <3>4. EndOf(chains', o) = new
      BY <3>2, <3>3 DEF EndOf
    <3> QED
      BY <1>4, <2>1, <3>2, <3>3, <3>4
  <2>4. CASE o \in DOMAIN next /\ EndOf(chains, o) # end
    <3>1. PICK t \in Seq(R) : t = chains[o]
      BY <1>2, <2>4
    <3>2. chains'[o] = t /\ EndOf(chains', o) = EndOf(chains, o)
      BY <1>5, <2>4, <3>1 DEF EndOf
    <3>3. t \in Seq(R \cup {new})
      BY AppendTyped
    <3>4. EndOf(chains, o) \in DOMAIN next
      <4>1. t # <<>> => t[Len(t)] \in R
        BY EmptySeq
      <4> QED
        BY <1>3, <2>4, <3>1, <4>1 DEF EndOf
    <3>5. next'[EndOf(chains, o)] = 0
      BY <1>2, <1>4, <2>4, <3>4
    <3> QED
      BY <2>1, <3>2, <3>3, <3>5
  <2> QED
    BY <1>4, <2>2, <2>3, <2>4
<1> QED
  BY <1>1, <1>6 DEF WalkInv

LEMMA PutSlots ==
  ASSUME ChainInv, NEW k \in Keys, NEW v \in Values, PutInserted(k, v)
  PROVE  SlotInv'
<1> DEFINE t == FindKeySlotOffset(k)
           new == dataSize
           R == DOMAIN records
<1>1. /\ DOMAIN records' = R \cup {new} /\ new \notin R
      /\ records'[new].key = k /\ \A o \in R : records'[o] = records[o]
  BY PutRecords
<1>2. \A s \in SlotOffsets :
        RecordsOf(s)' = IF s = t THEN RecordsOf(s) \cup {new} ELSE RecordsOf(s)
  BY <1>1 DEF RecordsOf, FindKeySlotOffset, Slots
<1>3. \A o \in R : o < new
  BY DEF ChainInv, BufferInv, LinksForward
<1>4. \A s \in SlotOffsets :
        chains'[s] = IF s = t THEN Append(chains[s], new) ELSE chains[s]
  BY PutSlotChains
<1> HIDE DEF t, new
<1>5. ASSUME NEW s \in SlotOffsets
      PROVE  /\ {chains'[s][i] : i \in DOMAIN chains'[s]} = RecordsOf(s)'
             /\ \A i, j \in DOMAIN chains'[s] : i < j => chains'[s][i] < chains'[s][j]
  <2>1. /\ {chains[s][i] : i \in DOMAIN chains[s]} = RecordsOf(s)
        /\ \A i, j \in DOMAIN chains[s] : i < j => chains[s][i] < chains[s][j]
    BY DEF ChainInv, SlotInv
  <2>2. CASE s # t
    BY <1>2, <1>4, <2>1, <2>2
  <2>3. CASE s = t
    <3>1. PICK c \in Seq(R) : c = chains[s]
      BY DEF ChainInv, WalkInv, BufferInv, ChainTypeOK
    <3>2. PICK d : d = Append(c, new)
      OBVIOUS
    <3>3. /\ Len(c) \in Nat /\ DOMAIN c = 1 .. Len(c)
          /\ DOMAIN d = 1 .. Len(c) + 1
          /\ \A i \in 1 .. Len(c) : d[i] = c[i]
          /\ d[Len(c) + 1] = new
      BY <3>2, AppendTyped
    <3>4. \A i \in 1 .. Len(c) : c[i] \in R
      BY <3>3
    <3>5. {d[i] : i \in DOMAIN d} = {c[i] : i \in DOMAIN c} \cup {new}
      BY <3>3
    <3>6. ASSUME NEW i \in DOMAIN d, NEW j \in DOMAIN d, i < j
          PROVE  d[i] < d[j]
      <4>1. i \in 1 .. Len(c) /\ d[i] = c[i] /\ c[i] \in R
        BY <3>3, <3>4, <3>6
      <4>2. CASE j = Len(c) + 1
        BY <1>3, <3>3, <4>1, <4>2
      <4>3. CASE j \in 1 .. Len(c)
        <5>1. c[i] < c[j]
          BY <2>1, <3>1, <3>3, <3>6, <4>1, <4>3
        <5> QED
          BY <3>3, <4>1, <4>3, <5>1
      <4> QED
        BY <3>3, <4>2, <4>3
    <3>7. chains'[s] = d /\ RecordsOf(s)' = RecordsOf(s) \cup {new}
      BY <1>2, <1>4, <2>3, <3>1, <3>2
    <3> QED
      BY <2>1, <3>1, <3>5, <3>6, <3>7
  <2> QED
    BY <2>2, <2>3
<1> QED
  BY <1>5 DEF SlotInv

LEMMA PutHeader ==
  ASSUME ChainInv, NEW k \in Keys, NEW v \in Values, PutInserted(k, v)
  PROVE  HeaderInv'
<1> DEFINE t == FindKeySlotOffset(k)
           n == Len(chains[t])
<1>1. t \in SlotOffsets
  BY SlotOffsetsAre
<1>2. numberOfEntries' = Cardinality(DOMAIN records')
  <2>1. DOMAIN records' = DOMAIN records \cup {dataSize} /\ dataSize \notin DOMAIN records
    BY PutRecords
  <2>2. IsFiniteSet(DOMAIN records) /\ numberOfEntries = Cardinality(DOMAIN records)
    BY DEF ChainInv, BufferInv, HeaderInv
  <2>3. numberOfEntries' = numberOfEntries + 1
    BY DEF PutInserted
  <2> QED
    BY <2>1, <2>2, <2>3, FS_AddElement
<1>3. n \in Nat /\ maxCollisions' = IF maxCollisions >= n THEN maxCollisions ELSE n
  BY PutCollisions
<1>4. maxCollisions \in Nat /\ \A s \in SlotOffsets : Len(chains[s]) \in Nat
  BY DEF ChainInv, BufferInv, ChainTypeOK, WalkInv
<1>5. \A s \in SlotOffsets :
        Len(chains'[s]) = IF s = t THEN n + 1 ELSE Len(chains[s])
  <2>1. chains[t] \in Seq(DOMAIN records)
    BY <1>1 DEF ChainInv, BufferInv, ChainTypeOK, WalkInv
  <2>2. Len(Append(chains[t], dataSize)) = n + 1
    BY <2>1, AppendTyped
  <2> QED
    BY <2>2, PutSlotChains
<1>6. /\ \A s \in SlotOffsets : Excess(Len(chains[s])) <= maxCollisions
      /\ \E s \in SlotOffsets : Excess(Len(chains[s])) = maxCollisions
  BY DEF ChainInv, HeaderInv
<1>7. Excess(n) <= n /\ Excess(n + 1) = n /\ Excess(n) \in Nat
  BY <1>3 DEF Excess
<1> HIDE DEF t, n
<1>8. \A s \in SlotOffsets : Excess(Len(chains'[s])) <= maxCollisions'
  BY <1>3, <1>4, <1>5, <1>6, <1>7 DEF Excess
<1>9. \E s \in SlotOffsets : Excess(Len(chains'[s])) = maxCollisions'
  <2>1. CASE maxCollisions <= n
    BY <1>1, <1>3, <1>4, <1>5, <1>7, <2>1
  <2>2. CASE maxCollisions > n
    <3>1. PICK s \in SlotOffsets : Excess(Len(chains[s])) = maxCollisions
      BY <1>6
    <3>2. s # t
      BY <1>3, <1>4, <1>7, <2>2, <3>1 DEF n
    <3> QED
      BY <1>3, <1>4, <1>5, <2>2, <3>1, <3>2
  <2> QED
    BY <1>3, <1>4, <2>1, <2>2
<1> QED
  BY <1>2, <1>8, <1>9 DEF HeaderInv, Excess

\* Every call leaves the invariant of the cache.
LEMMA ChainStep ==
  ASSUME ChainInv, [Next]_vars
  PROVE  ChainInv'
<1>1. realDataSize \in Nat /\ loaded \in BOOLEAN /\ dataSize \in Nat
      /\ result.outcome \in ChainOutcomes
  BY DEF ChainInv, BufferInv, ChainTypeOK
<1>2. ASSUME NEW k \in Keys, NEW v \in Values, Put(k, v)
      PROVE  ChainInv'
  <2>1. CASE PutInserted(k, v)
    BY <2>1, PutBuffer, PutWalk, PutSlots, PutHeader DEF ChainInv
  <2>2. CASE PutKeySpaceFull(k, v) \/ PutTooLarge(k, v)
    <3>1. /\ UNCHANGED <<next, records, dataSize, numberOfEntries, maxCollisions>>
          /\ UNCHANGED <<realDataSize, loaded>>
      BY <2>2 DEF PutKeySpaceFull, PutTooLarge, chainVars
    <3>2. result'.outcome \in ChainOutcomes
      BY <2>2 DEF PutKeySpaceFull, PutTooLarge, Result, ChainOutcomes
    <3> QED
      BY <1>1, <3>1, <3>2, ChainFrame
  <2> QED
    BY <1>2, <2>1, <2>2 DEF Put
<1>3. ASSUME NEW k \in Keys, NEW a \in Accessors, Read(a, k)
      PROVE  ChainInv'
  <2>1. /\ UNCHANGED <<next, records, dataSize, numberOfEntries, maxCollisions>>
        /\ UNCHANGED <<realDataSize, loaded>>
    BY <1>3 DEF Read, chainVars
  <2>2. result'.outcome = ReadOutcome(a, FoundValue(k))
    BY <1>3 DEF Read, Result
  <2>3. result'.outcome \in ChainOutcomes
    BY <2>2 DEF ReadOutcome, ChainOutcomes
  <2> QED
    BY <1>1, <2>1, <2>3, ChainFrame
<1>4. CASE Reload
  <2>1. /\ UNCHANGED <<next, records, dataSize, numberOfEntries, maxCollisions>>
        /\ loaded' = TRUE /\ realDataSize' = dataSize
    BY <1>4 DEF Reload
  <2>2. result'.outcome \in ChainOutcomes
    BY <1>4 DEF Reload, NoResult, ChainOutcomes
  <2> QED
    BY <1>1, <2>1, <2>2, ChainFrame
<1>5. CASE UNCHANGED vars
  BY <1>1, <1>5, ChainFrame DEF vars, chainVars
<1> QED
  BY <1>2, <1>3, <1>4, <1>5 DEF Next

-----------------------------------------------------------------------------
(* Lookups *)

LEMMA MinIs ==
  ASSUME NEW T, T \subseteq Nat, T # {}
  PROVE  Min(T) \in T /\ \A y \in T : Min(T) <= y
<1>1. PICK d \in T : \A e \in T : ~(e < d)
  BY SmallestMember
<1>2. \A y \in T : d <= y
  BY <1>1
<1> QED
  BY <1>2 DEF Min

\* The chain a lookup walks along, and where it may stop.
LEMMA LookupIs ==
  ASSUME ChainInv, NEW x \in Keys
  PROVE  /\ ChainOf(x) = chains[FindKeySlotOffset(x)]
         /\ FindKeySlotOffset(x) \in SlotOffsets
         /\ chains[FindKeySlotOffset(x)] \in Seq(DOMAIN records)
BY SlotOffsetsAre DEF ChainOf, chains, ChainInv, BufferInv, ChainTypeOK, WalkInv

\* The first record with the key on a sequence of records.
FirstOn(c, recs, x) ==
  LET matching == {i \in DOMAIN c : recs[c[i]].key = x}
  IN IF matching = {} THEN NoValue ELSE recs[c[Min(matching)]].value

LEMMA FoundIsFirst ==
  ASSUME ChainInv, NEW x \in Keys
  PROVE  FoundValue(x) = FirstOn(chains[FindKeySlotOffset(x)], records, x)
BY LookupIs DEF FoundValue, FirstOn, Matching

LEMMA FoundIsFirstNext ==
  ASSUME ChainInv', NEW x \in Keys
  PROVE  FoundValue(x)' = FirstOn(chains'[FindKeySlotOffset(x)], records', x)
<1>1. ChainOf(x)' = chains'[FindKeySlotOffset(x)]
  BY SlotOffsetsAre DEF ChainOf, chains, ChainInv, BufferInv, ChainTypeOK,
     FindKeySlotOffset, Slots
<1> QED
  BY <1>1 DEF FoundValue, FirstOn, Matching

\* A put never changes what is found for a key, unless nothing is.
LEMMA PutFound ==
  ASSUME ChainInv, NEW k \in Keys, NEW v \in Values, PutInserted(k, v),
         NEW x \in Keys
  PROVE  FoundValue(x)' = IF FoundValue(x) # NoValue THEN FoundValue(x)
                          ELSE IF x = k THEN v ELSE NoValue
<1> DEFINE s == FindKeySlotOffset(x)
           R == DOMAIN records
<1>1. /\ DOMAIN records' = R \cup {dataSize}
      /\ records'[dataSize].key = k /\ records'[dataSize].value = v
      /\ \A o \in R : records'[o] = records[o]
  BY PutRecords
<1>2. PICK c \in Seq(R) : c = chains[s]
  BY LookupIs
<1>3. Len(c) \in Nat /\ DOMAIN c = 1 .. Len(c) /\ \A i \in 1 .. Len(c) : c[i] \in R
  BY LenProperties
<1>4. chains'[s] = IF s = FindKeySlotOffset(k) THEN Append(c, dataSize) ELSE c
  BY <1>2, PutSlotChains, LookupIs
<1> DEFINE M == {i \in 1 .. Len(c) : records[c[i]].key = x}
<1>5. FoundValue(x) = IF M = {} THEN NoValue ELSE records[c[Min(M)]].value
  BY <1>2, <1>3, FoundIsFirst DEF FirstOn
<1>6. M # {} => Min(M) \in M /\ \A y \in M : Min(M) <= y
  <2>1. M \subseteq Nat
    BY <1>3
  <2> HIDE DEF M
  <2> QED
    BY <2>1, MinIs
<1>7. (FoundValue(x) # NoValue) <=> (M # {})
  <2>1. \A o \in R : records[o].value \in Values
    BY DEF ChainInv, BufferInv, ChainTypeOK
  <2> QED
    BY <1>3, <1>5, <1>6, <2>1, DomainAssumption
<1>8. ChainInv'
  BY PutBuffer, PutWalk, PutSlots, PutHeader DEF ChainInv
<1>9. FoundValue(x)' = FirstOn(chains'[s], records', x)
  BY <1>8, FoundIsFirstNext
<1>10. CASE s # FindKeySlotOffset(k)
  <2>1. {i \in DOMAIN c : records'[c[i]].key = x} = M
    BY <1>1, <1>3
  <2>2. x # k
    BY <1>10
  <2>3. FirstOn(c, records', x) = IF M = {} THEN NoValue ELSE records'[c[Min(M)]].value
    BY <2>1 DEF FirstOn
  <2> QED
    BY <1>1, <1>3, <1>4, <1>5, <1>6, <1>7, <1>9, <1>10, <2>2, <2>3
<1>11. CASE s = FindKeySlotOffset(k)
  <2>1. PICK d : d = Append(c, dataSize)
    OBVIOUS
  <2>2. /\ DOMAIN d = 1 .. Len(c) + 1
        /\ \A i \in 1 .. Len(c) : d[i] = c[i]
        /\ d[Len(c) + 1] = dataSize
    BY <2>1, AppendTyped
  <2> DEFINE N == {i \in DOMAIN d : records'[d[i]].key = x}
  <2>3. FoundValue(x)' = IF N = {} THEN NoValue ELSE records'[d[Min(N)]].value
    BY <1>4, <1>9, <1>11, <2>1 DEF FirstOn
  <2>4. N = IF x = k THEN M \cup {Len(c) + 1} ELSE M
    BY <1>1, <1>3, <2>2
  <2>5. N \subseteq Nat /\ (N # {} => Min(N) \in N /\ \A y \in N : Min(N) <= y)
    <3>1. N \subseteq Nat
      BY <1>3, <2>2
    <3> HIDE DEF N
    <3> QED
      BY <3>1, MinIs
  <2>6. M \subseteq 1 .. Len(c)
    OBVIOUS
  <2> HIDE DEF N, M
  <2>7. CASE M # {}
    <3>1. PICK m : m = Min(M)
      OBVIOUS
    <3>2. PICK n : n = Min(N)
      OBVIOUS
    <3>3. m \in M /\ m \in N /\ m \in 1 .. Len(c) /\ \A y \in M : m <= y
      BY <1>6, <2>4, <2>6, <2>7, <3>1
    <3>4. n \in N /\ n \in Nat /\ n <= m
      BY <2>5, <3>2, <3>3
    <3>5. n \in M
      BY <1>3, <2>4, <3>3, <3>4
    <3>6. n = m
      BY <3>3, <3>4, <3>5
    <3> QED
      BY <1>1, <1>3, <1>5, <1>7, <2>2, <2>3, <2>7, <3>1, <3>2, <3>3, <3>6
  <2>8. CASE M = {} /\ x = k
    <3>1. N = {Len(c) + 1}
      BY <2>4, <2>8
    <3>2. Min(N) = Len(c) + 1
      BY <2>5, <3>1
    <3> QED
      BY <1>1, <1>7, <2>2, <2>3, <2>8, <3>1, <3>2
  <2>9. CASE M = {} /\ x # k
    BY <1>7, <2>3, <2>4, <2>9
  <2> QED
    BY <2>7, <2>8, <2>9
<1> QED
  BY <1>10, <1>11

-----------------------------------------------------------------------------
(* Agreement with the MAP cache *)

\* The maps, and what FamiliesAgree says of a key but for the output.
MapTyped ==
  /\ IsFiniteSet(DOMAIN strings) /\ IsFiniteSet(DOMAIN stringLists)
  /\ DOMAIN strings \subseteq Keys /\ DOMAIN stringLists \subseteq Keys
  /\ mapPut \in BOOLEAN

AgreeOn(k) ==
  LET v == FoundValue(k)
  IN /\ v # NoValue /\ ValueType[v] = "String" =>
          k \in DOMAIN strings /\ strings[k] = v
     /\ v # NoValue /\ ValueType[v] = "StringList" =>
          k \in DOMAIN stringLists /\ stringLists[k] = v
     /\ MapContains(k) => v # NoValue

MapInv ==
  /\ MapTyped
  /\ MapNumberOfEntries <= numberOfEntries
  /\ \A k \in Keys : AgreeOn(k)

IInv == ChainInv /\ MapInv

LEMMA MapInit_Inv == Init => MapInv
<1> SUFFICES ASSUME Init PROVE MapInv
  OBVIOUS
<1>1. ChainInv
  BY ChainInit_Inv DEF Init
<1>2. DOMAIN records = {} /\ numberOfEntries = 0
  BY DEF Init, ChainInit
<1>3. DOMAIN strings = {} /\ DOMAIN stringLists = {} /\ mapPut = FALSE
  BY DEF Init, MapInit
<1>4. \A k \in Keys : FoundValue(k) = NoValue
  <2> SUFFICES ASSUME NEW k \in Keys PROVE FoundValue(k) = NoValue
    OBVIOUS
  <2>1. PICK c \in Seq({}) : c = chains[FindKeySlotOffset(k)]
    BY <1>1, <1>2, LookupIs
  <2>2. DOMAIN c = {}
    BY LenProperties
  <2>3. FirstOn(c, records, k) = NoValue
    BY <2>2 DEF FirstOn
  <2> QED
    BY <1>1, <2>1, <2>3, FoundIsFirst
<1>5. MapTyped /\ MapNumberOfEntries <= numberOfEntries
  <2>1. IsFiniteSet({}) /\ Cardinality({}) = 0
    BY FS_EmptySet
  <2>2. MapTyped
    BY <1>3, <2>1 DEF MapTyped
  <2>3. MapNumberOfEntries = 0
    BY <1>3, <2>1 DEF MapNumberOfEntries
  <2> QED
    BY <1>2, <2>2, <2>3
<1>6. \A k \in Keys : AgreeOn(k)
  BY <1>3, <1>4 DEF AgreeOn, MapContains
<1> QED
  BY <1>5, <1>6 DEF MapInv

LEMMA EmplaceIs ==
  ASSUME NEW map, NEW k, NEW v, IsFiniteSet(DOMAIN map)
  PROVE  /\ DOMAIN Emplace(map, k, v) = DOMAIN map \cup {k}
         /\ IsFiniteSet(DOMAIN map \cup {k})
         /\ Cardinality(DOMAIN map) \in Nat
         /\ Cardinality(DOMAIN map \cup {k}) \in Nat
         /\ Cardinality(DOMAIN map \cup {k}) <= Cardinality(DOMAIN map) + 1
<1>1. /\ IsFiniteSet(DOMAIN map \cup {k}) /\ Cardinality(DOMAIN map) \in Nat
      /\ Cardinality(DOMAIN map \cup {k}) =
           IF k \in DOMAIN map THEN Cardinality(DOMAIN map)
           ELSE Cardinality(DOMAIN map) + 1
  BY FS_AddElement, FS_CardinalityType
<1>2. DOMAIN Emplace(map, k, v) = DOMAIN map \cup {k}
  <2>1. CASE k \in DOMAIN map
    <3>1. DOMAIN map \cup {k} = DOMAIN map
      BY <2>1
    <3> QED
      BY <2>1, <3>1 DEF Emplace
  <2>2. CASE k \notin DOMAIN map
    BY <2>2 DEF Emplace
  <2> QED
    BY <2>1, <2>2
<1> QED
  BY <1>1, <1>2

LEMMA PutAgrees ==
  ASSUME IInv, NEW k \in Keys, NEW v \in Values, PutInserted(k, v), MapPut(k, v)
  PROVE  MapInv'
<1>1. \A x \in Keys :
        FoundValue(x)' = IF FoundValue(x) # NoValue THEN FoundValue(x)
                         ELSE IF x = k THEN v ELSE NoValue
  BY PutFound DEF IInv
<1>2. numberOfEntries' = numberOfEntries + 1 /\ numberOfEntries \in Nat
  BY DEF PutInserted, IInv, ChainInv, BufferInv, ChainTypeOK
<1>3. v # NoValue
  BY DomainAssumption
<1>4. /\ IsFiniteSet(DOMAIN strings) /\ IsFiniteSet(DOMAIN stringLists)
      /\ DOMAIN strings \subseteq Keys /\ DOMAIN stringLists \subseteq Keys
      /\ Cardinality(DOMAIN strings) \in Nat
      /\ Cardinality(DOMAIN stringLists) \in Nat
      /\ Cardinality(DOMAIN strings) + Cardinality(DOMAIN stringLists)
           <= numberOfEntries
  BY FS_CardinalityType DEF IInv, MapInv, MapTyped, MapNumberOfEntries
<1>5. \A x \in Keys : AgreeOn(x)
  BY DEF IInv, MapInv
<1>6. CASE MapPutString(k, v)
  <2>1. /\ ValueType[v] = "String" /\ strings' = Emplace(strings, k, v)
        /\ mapPut' \in BOOLEAN /\ UNCHANGED stringLists
    BY <1>6 DEF MapPutString
  <2>2. /\ DOMAIN strings' = DOMAIN strings \cup {k}
        /\ \A x \in DOMAIN strings : strings'[x] = strings[x]
        /\ k \notin DOMAIN strings => strings'[k] = v
        /\ IsFiniteSet(DOMAIN strings')
        /\ Cardinality(DOMAIN strings') \in Nat
        /\ Cardinality(DOMAIN strings') <= Cardinality(DOMAIN strings) + 1
    <3> DEFINE D == DOMAIN strings \cup {k}
    <3>1. /\ DOMAIN strings' = D
          /\ IsFiniteSet(D) /\ Cardinality(D) \in Nat
          /\ Cardinality(D) <= Cardinality(DOMAIN strings) + 1
      BY <1>4, <2>1, EmplaceIs
    <3>2. /\ \A x \in DOMAIN strings : strings'[x] = strings[x]
          /\ k \notin DOMAIN strings => strings'[k] = v
      BY <2>1 DEF Emplace
    <3> HIDE DEF D
    <3>3. /\ IsFiniteSet(DOMAIN strings') /\ Cardinality(DOMAIN strings') \in Nat
          /\ Cardinality(DOMAIN strings') <= Cardinality(DOMAIN strings) + 1
      BY <3>1
    <3> QED
      BY <3>1, <3>2, <3>3 DEF D
  <2>3. MapTyped'
    BY <1>4, <2>1, <2>2 DEF MapTyped
  <2>4. MapNumberOfEntries' <= numberOfEntries'
    BY <1>2, <1>4, <2>1, <2>2 DEF MapNumberOfEntries
  <2>5. ASSUME NEW x \in Keys PROVE AgreeOn(x)'
    <3>1. AgreeOn(x)
      BY <1>5
    <3>2. CASE x = k
      BY <1>1, <1>3, <2>1, <2>2, <3>1, <3>2 DEF AgreeOn, MapContains
    <3>3. CASE x # k
      BY <1>1, <2>1, <2>2, <3>1, <3>3 DEF AgreeOn, MapContains
    <3> QED
      BY <3>2, <3>3
  <2> QED
    BY <2>3, <2>4, <2>5 DEF MapInv
<1>7. CASE MapPutStringList(k, v)
  <2>1. /\ ValueType[v] = "StringList" /\ stringLists' = Emplace(stringLists, k, v)
        /\ mapPut' \in BOOLEAN /\ UNCHANGED strings
    BY <1>7 DEF MapPutStringList
  <2>2. /\ DOMAIN stringLists' = DOMAIN stringLists \cup {k}
        /\ \A x \in DOMAIN stringLists : stringLists'[x] = stringLists[x]
        /\ k \notin DOMAIN stringLists => stringLists'[k] = v
        /\ IsFiniteSet(DOMAIN stringLists')
        /\ Cardinality(DOMAIN stringLists') \in Nat
        /\ Cardinality(DOMAIN stringLists') <= Cardinality(DOMAIN stringLists) + 1
    <3> DEFINE D == DOMAIN stringLists \cup {k}
    <3>1. /\ DOMAIN stringLists' = D
          /\ IsFiniteSet(D) /\ Cardinality(D) \in Nat
          /\ Cardinality(D) <= Cardinality(DOMAIN stringLists) + 1
      BY <1>4, <2>1, EmplaceIs
    <3>2. /\ \A x \in DOMAIN stringLists : stringLists'[x] = stringLists[x]
          /\ k \notin DOMAIN stringLists => stringLists'[k] = v
      BY <2>1 DEF Emplace
    <3> HIDE DEF D
    <3>3. /\ IsFiniteSet(DOMAIN stringLists') /\ Cardinality(DOMAIN stringLists') \in Nat
          /\ Cardinality(DOMAIN stringLists') <= Cardinality(DOMAIN stringLists) + 1
      BY <3>1
    <3> QED
      BY <3>1, <3>2, <3>3 DEF D
  <2>3. MapTyped'
    BY <1>4, <2>1, <2>2 DEF MapTyped
  <2>4. MapNumberOfEntries' <= numberOfEntries'
    BY <1>2, <1>4, <2>1, <2>2 DEF MapNumberOfEntries
  <2>5. ASSUME NEW x \in Keys PROVE AgreeOn(x)'
    <3>1. AgreeOn(x)
      BY <1>5
    <3>2. CASE x = k
      BY <1>1, <1>3, <2>1, <2>2, <3>1, <3>2 DEF AgreeOn, MapContains
    <3>3. CASE x # k
      BY <1>1, <2>1, <2>2, <3>1, <3>3 DEF AgreeOn, MapContains
    <3> QED
      BY <3>2, <3>3
  <2> QED
    BY <2>3, <2>4, <2>5 DEF MapInv
<1>8. CASE MapPutOther(k, v)
  <2>1. /\ ValueType[v] \notin {"String", "StringList"}
        /\ mapPut' \in BOOLEAN /\ UNCHANGED <<strings, stringLists>>
    BY <1>8 DEF MapPutOther
  <2>2. MapTyped' /\ MapNumberOfEntries' <= numberOfEntries'
    BY <1>2, <1>4, <2>1 DEF MapTyped, MapNumberOfEntries
  <2>3. ASSUME NEW x \in Keys PROVE AgreeOn(x)'
    <3>1. AgreeOn(x)
      BY <1>5
    <3> QED
      BY <1>1, <1>3, <2>1, <3>1 DEF AgreeOn, MapContains
  <2> QED
    BY <2>2, <2>3 DEF MapInv
<1> QED
  BY <1>6, <1>7, <1>8 DEF MapPut

\* The calls that leave both caches as they are.
LEMMA MapFrame ==
  ASSUME IInv, UNCHANGED <<next, records, numberOfEntries>>, UNCHANGED mapVars
  PROVE  MapInv'
<1>1. \A x \in Keys : FoundValue(x)' = FoundValue(x)
  BY DEF FoundValue, Matching, ChainOf, Chain, FindKeySlotOffset, Slots
<1>2. UNCHANGED <<strings, stringLists, mapPut>>
  BY DEF mapVars
<1>3. \A x \in Keys : AgreeOn(x)'
  BY <1>1, <1>2 DEF IInv, MapInv, AgreeOn, MapContains
<1>4. MapTyped' /\ MapNumberOfEntries' <= numberOfEntries'
  BY <1>2 DEF IInv, MapInv, MapTyped, MapNumberOfEntries
<1> QED
  BY <1>3, <1>4 DEF MapInv

LEMMA NextIInv == IInv /\ [Next]_vars => IInv'
<1> SUFFICES ASSUME IInv, [Next]_vars PROVE IInv'
  OBVIOUS
<1>1. ChainInv'
  BY ChainStep DEF IInv
<1>2. MapInv'
  <2>1. ASSUME NEW k \in Keys, NEW v \in Values, PutInserted(k, v), MapPut(k, v)
        PROVE  MapInv'
    BY <2>1, PutAgrees
  <2>2. ASSUME NEW k \in Keys, NEW v \in Values,
               PutKeySpaceFull(k, v) \/ PutTooLarge(k, v), UNCHANGED mapVars
        PROVE  MapInv'
    BY <2>2, MapFrame DEF PutKeySpaceFull, PutTooLarge, chainVars
  <2>3. ASSUME NEW k \in Keys, NEW a \in Accessors, Read(a, k), UNCHANGED mapVars
        PROVE  MapInv'
    BY <2>3, MapFrame DEF Read, chainVars
  <2>4. CASE Reload /\ UNCHANGED mapVars
    BY <2>4, MapFrame DEF Reload
  <2>5. CASE UNCHANGED vars
    BY <2>5, MapFrame DEF vars, chainVars
  <2> QED
    BY <2>1, <2>2, <2>3, <2>4, <2>5 DEF Next, Put
<1> QED
  BY <1>1, <1>2 DEF IInv

LEMMA Invariance == Spec => []IInv
<1>1. Init => IInv
  BY ChainInit_Inv, MapInit_Inv DEF IInv, Init
<1> QED
  BY <1>1, NextIInv, PTL DEF Spec

-----------------------------------------------------------------------------
(* The theorems *)

\* Every variable of the two caches has its type, and every link leads to a
\* record or nowhere.
THEOREM TypeCorrect == Spec => []TypeOK
<1>1. IInv => TypeOK
  BY DEF IInv, ChainInv, BufferInv, MapInv, MapTyped, TypeOK
<1> QED
  BY <1>1, Invariance, PTL

\* ChainedValue::add never loses a record, puts one on a wrong chain or twice
\* on one, or writes over another, for any hash function and any sizes, even
\* when the buffer moves under it.
THEOREM ChainsAlwaysHoldEveryRecord == Spec => []ChainsHoldEveryRecord
<1>1. ASSUME IInv PROVE ChainsHoldEveryRecord
  <2>1. \A s \in SlotOffsets : Chain(s) = chains[s]
    BY <1>1 DEF IInv, ChainInv, BufferInv, ChainTypeOK, chains
  <2>2. RecordsDisjoint
    BY <1>1 DEF IInv, ChainInv, BufferInv
  <2>3. SlotInv
    BY <1>1 DEF IInv, ChainInv
  <2> QED
    BY <2>1, <2>2, <2>3 DEF ChainsHoldEveryRecord, SlotInv, RecordsOf
<1> QED
  BY <1>1, Invariance, PTL

\* numberOfEntries is the number of records, and maxCollisions what the
\* longest chain makes it: the header that is written into the file is exact.
THEOREM ChainHeaderAlwaysExact == Spec => []ChainHeaderExact
<1>1. ASSUME IInv PROVE ChainHeaderExact
  <2> DEFINE E == {IF Len(Chain(s)) = 0 THEN 0 ELSE Len(Chain(s)) - 1 :
                     s \in SlotOffsets}
  <2>1. \A s \in SlotOffsets : Chain(s) = chains[s] /\ Len(chains[s]) \in Nat
    <3>1. \A s \in SlotOffsets : s \in DOMAIN next
      BY <1>1 DEF IInv, ChainInv, BufferInv, ChainTypeOK
    <3>2. \A s \in SlotOffsets : chains[s] \in Seq(DOMAIN records)
      BY <1>1, <3>1 DEF IInv, ChainInv, WalkInv
    <3> QED
      BY <3>1, <3>2 DEF chains
  <2>2. E = {Excess(Len(chains[s])) : s \in SlotOffsets}
    BY <2>1 DEF Excess
  <2>3. HeaderInv /\ maxCollisions \in Nat
    BY <1>1 DEF IInv, ChainInv, BufferInv, ChainTypeOK
  <2> HIDE DEF E
  <2>4. E \subseteq Nat /\ maxCollisions \in E /\ \A x \in E : x <= maxCollisions
    BY <2>1, <2>2, <2>3 DEF HeaderInv, Excess
  <2>5. Max(E) = maxCollisions
    <3>1. \A x \in E : (\A y \in E : x >= y) => x = maxCollisions
      BY <2>3, <2>4
    <3>2. \A y \in E : maxCollisions >= y
      BY <2>3, <2>4
    <3> QED
      BY <2>4, <3>1, <3>2 DEF Max
  <2> QED
    BY <2>3, <2>5 DEF ChainHeaderExact, HeaderInv, E
<1> QED
  BY <1>1, Invariance, PTL

\* What the chained cache finds for a key is what the map stores for it under
\* that type: the first put wins in both, whatever else is put.
THEOREM FamiliesAlwaysAgree == Spec => []FamiliesAgree
<1>1. ASSUME IInv PROVE FamiliesAgree
  <2>1. MapNumberOfEntries <= numberOfEntries /\ \A k \in Keys : AgreeOn(k)
    BY <1>1 DEF IInv, MapInv
  <2>2. ASSUME NEW k \in Keys, NEW v, v = FoundValue(k)
        PROVE  /\ v # NoValue /\ ValueType[v] = "String" => MapGet(k) = v
               /\ v # NoValue /\ ValueType[v] = "StringList" => MapGetVector(k) = v
               /\ MapContains(k) => v # NoValue
               /\ v # NoValue /\ ValueType[v] \in {"String", "StringList"} =>
                    v \in MapOutput[k]
    <3>1. /\ v # NoValue /\ ValueType[v] = "String" =>
               k \in DOMAIN strings /\ strings[k] = v
          /\ v # NoValue /\ ValueType[v] = "StringList" =>
               k \in DOMAIN stringLists /\ stringLists[k] = v
          /\ MapContains(k) => v # NoValue
      BY <2>1, <2>2 DEF AgreeOn
    <3> QED
      BY <3>1 DEF MapGet, MapGetVector, MapOutput
  <2> QED
    BY <2>1, <2>2 DEF FamiliesAgree
<1> QED
  BY <1>1, Invariance, PTL

=============================================================================
