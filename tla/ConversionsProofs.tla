------------------------- MODULE ConversionsProofs --------------------------
(***************************************************************************)
(* Proofs about what becomes of a text: for texts of any length over any   *)
(* characters, any width of the word and any types of integers.            *)
(***************************************************************************)
EXTENDS Conversions, FiniteSetTheorems, SequenceTheorems, WellFoundedInduction,
        TLAPS

-----------------------------------------------------------------------------
(* Numbers and positions *)

\* A set of numbers that is not empty has a smallest member.
LEMMA SmallestMember ==
  ASSUME NEW T, T \subseteq Nat, T # {}
  PROVE  \E d \in T : \A e \in T : ~(e < d)
<1>1. IsWellFoundedOn(OpToRel(<, Nat), Nat)
  BY NatLessThanWellFounded, Zenon
<1>2. PICK d \in T : \A e \in T : ~(<<e, d>> \in OpToRel(<, Nat))
  BY <1>1, WFMin, Zenon
<1> QED
  BY <1>2 DEF OpToRel

\* Induction up to n, for a set of numbers.
LEMMA InductionUpTo ==
  ASSUME NEW n \in Nat, NEW T, 0 \in T,
         \A i \in 1 .. n : i - 1 \in T => i \in T
  PROVE  \A i \in 0 .. n : i \in T
<1> DEFINE Missed == {i \in 0 .. n : i \notin T}
<1>1. ASSUME Missed # {} PROVE FALSE
  <2>1. PICK d \in Missed : \A e \in Missed : ~(e < d)
    <3>1. Missed \subseteq Nat
      OBVIOUS
    <3> HIDE DEF Missed
    <3> QED
      BY <1>1, <3>1, SmallestMember
  <2>2. d # 0 /\ d \in 1 .. n
    BY <2>1
  <2>3. d - 1 \in 0 .. n /\ d - 1 < d
    BY <2>2
  <2>4. d - 1 \in T
    BY <2>1, <2>3
  <2> QED
    BY <2>1, <2>2, <2>4
<1> QED
  BY <1>1

LEMMA MinIs ==
  ASSUME NEW T, T \subseteq Nat, T # {}
  PROVE  Min(T) \in T /\ \A y \in T : Min(T) <= y
<1>1. PICK d \in T : \A e \in T : ~(e < d)
  BY SmallestMember
<1>2. \A y \in T : d <= y
  BY <1>1
<1> QED
  BY <1>2 DEF Min

LEMMA MaxIs ==
  ASSUME NEW n \in Nat, NEW T, T \subseteq 0 .. n, T # {}
  PROVE  Max(T) \in T /\ \A y \in T : y <= Max(T)
<1> DEFINE U == {u \in 0 .. n : n - u \in T}
<1>1. \A t \in T : t \in Int /\ 0 <= t /\ t <= n
  OBVIOUS
<1>2. \A t \in T : n - t \in U
  <2> TAKE t \in T
  <2>1. n - t \in 0 .. n /\ n - (n - t) = t
    BY <1>1
  <2> QED
    BY <2>1
<1>3. U \subseteq Nat /\ U # {}
  <2>1. PICK t \in T : n - t \in U
    BY <1>2
  <2> QED
    BY <2>1
<1>4. PICK d \in U : \A e \in U : ~(e < d)
  <2> HIDE DEF U
  <2> QED
    BY <1>3, SmallestMember
<1>5. PICK m \in T : m = n - d
  BY <1>4
<1>6. \A y \in T : m >= y
  <2> TAKE y \in T
  <2>1. n - y \in U
    BY <1>2
  <2>2. ~(n - y < d) /\ d \in 0 .. n
    BY <1>4, <2>1
  <2> QED
    BY <1>1, <1>5, <2>2
<1>7. \E x \in T : \A y \in T : x >= y
  BY <1>6
<1>8. Max(T) \in T /\ \A y \in T : Max(T) >= y
  BY <1>7 DEF Max
<1>9. Max(T) \in Int /\ \A y \in T : y \in Int
  BY <1>1, <1>8
<1> QED
  BY <1>8, <1>9

\* The first of the positions I from p on, in a text of n characters.
IsFirst(r, p, n, I) ==
  /\ r \in p .. n + 1
  /\ \A i \in p .. r - 1 : i \notin I
  /\ r <= n => r \in I

LEMMA FirstIs ==
  ASSUME NEW C, NEW t \in Seq(C), NEW p \in 1 .. Len(t) + 1, NEW I
  PROVE  IsFirst(FirstFrom(t, p, I), p, Len(t), I)
<1> DEFINE n == Len(t)
           found == {i \in p .. n : i \in I}
<1>0. n \in Nat
  BY LenProperties
<1>1. CASE found = {}
  <2>1. FirstFrom(t, p, I) = n + 1
    BY <1>1 DEF FirstFrom, End
  <2> QED
    BY <1>0, <1>1, <2>1 DEF IsFirst
<1>2. CASE found # {}
  <2>1. found \subseteq Nat
    BY <1>0
  <2>2. FirstFrom(t, p, I) = Min(found)
    BY <1>2 DEF FirstFrom
  <2>3. Min(found) \in found /\ \A y \in found : Min(found) <= y
    <3> HIDE DEF found
    <3> QED
      BY <1>2, <2>1, MinIs
  <2>4. PICK r : r = Min(found)
    OBVIOUS
  <2>5. r \in p .. n /\ r \in I
    BY <2>3, <2>4
  <2>6. ASSUME NEW i \in p .. r - 1 PROVE i \notin I
    <3>1. i \in p .. n /\ i < r
      BY <1>0, <2>5
    <3> QED
      BY <2>3, <2>4, <3>1
  <2>7. IsFirst(r, p, n, I)
    BY <1>0, <2>5, <2>6 DEF IsFirst
  <2> QED
    BY <2>2, <2>4, <2>7
<1> QED
  BY <1>1, <1>2

LEMMA FirstUnique ==
  ASSUME NEW n \in Nat, NEW p \in 1 .. n + 1, NEW I,
         NEW r, IsFirst(r, p, n, I), NEW s, IsFirst(s, p, n, I)
  PROVE  r = s
<1>1. r \in p .. n + 1 /\ s \in p .. n + 1
  BY DEF IsFirst
<1>2. ~(r < s)
  <2> SUFFICES ASSUME r < s PROVE FALSE
    OBVIOUS
  <2>1. r \in p .. s - 1 /\ r <= n
    BY <1>1
  <2> QED
    BY <2>1 DEF IsFirst
<1>3. ~(s < r)
  <2> SUFFICES ASSUME s < r PROVE FALSE
    OBVIOUS
  <2>1. s \in p .. r - 1 /\ s <= n
    BY <1>1
  <2> QED
    BY <2>1 DEF IsFirst
<1> QED
  BY <1>1, <1>2, <1>3

\* A part of a text.
LEMMA PartIs ==
  ASSUME NEW C, NEW t \in Seq(C), NEW a \in 1 .. Len(t) + 1, NEW b \in 0 .. Len(t)
  PROVE  /\ SubSeq(t, a, b) \in Seq(C)
         /\ Len(SubSeq(t, a, b)) = IF a <= b THEN b - a + 1 ELSE 0
         /\ \A i \in 1 .. b - a + 1 : SubSeq(t, a, b)[i] = t[a + i - 1]
<1>1. Len(t) \in Nat
  BY LenProperties
<1>2. \A i \in a .. b : t[i] \in C
  BY <1>1, ElementOfSeq
<1>3. a \in Int /\ b \in Int
  BY <1>1
<1> QED
  BY <1>2, <1>3, SubSeqProperties

LEMMA EmptyIffLen ==
  ASSUME NEW C, NEW t \in Seq(C)
  PROVE  t = <<>> <=> Len(t) = 0
BY EmptySeq

-----------------------------------------------------------------------------
(* Trimming *)

\* The places of the characters that are not spaces.
Solid(t) == {i \in 1 .. Len(t) : t[i] \notin Spaces}

LEMMA NotInIs ==
  ASSUME NEW C, NEW t \in Seq(C)
  PROVE  NotIn(t, Spaces) = Solid(t)
BY LenProperties DEF NotIn, Solid

LEMMA SolidBounds ==
  ASSUME NEW C, NEW t \in Seq(C), Solid(t) # {}
  PROVE  /\ Min(Solid(t)) \in Solid(t) /\ Max(Solid(t)) \in Solid(t)
         /\ Min(Solid(t)) <= Max(Solid(t))
         /\ \A i \in Solid(t) : Min(Solid(t)) <= i /\ i <= Max(Solid(t))
<1>1. Len(t) \in Nat
  BY LenProperties
<1>2. Solid(t) \subseteq Nat /\ Solid(t) \subseteq 0 .. Len(t)
  BY <1>1 DEF Solid
<1> QED
  BY <1>1, <1>2, MinIs, MaxIs

\* What all functions that trim return.
Core(t) ==
  IF Solid(t) = {} THEN <<>> ELSE SubSeq(t, Min(Solid(t)), Max(Solid(t)))

LEMMA StringViewTrimIs ==
  ASSUME NEW C, NEW t \in Seq(C)
  PROVE  StringViewTrim(t, Spaces) = Core(t)
BY NotInIs DEF StringViewTrim, Core

LEMMA TrimIs ==
  ASSUME NEW C, NEW t \in Seq(C)
  PROVE  Trim(t) = Core(t)
<1>1. CASE Solid(t) = {}
  BY <1>1, NotInIs DEF Trim, Core
<1>2. CASE Solid(t) # {}
  <2>1. PICK lo, hi : lo = Min(Solid(t)) /\ hi = Max(Solid(t))
    OBVIOUS
  <2>2. Len(t) \in Nat
    BY LenProperties
  <2>3. /\ lo \in Solid(t) /\ hi \in Solid(t) /\ lo <= hi
        /\ \A i \in Solid(t) : lo <= i /\ i <= hi
    BY <1>2, <2>1, SolidBounds
  <2>4. lo \in 1 .. Len(t) /\ hi \in 1 .. Len(t)
    BY <2>3 DEF Solid
  <2>5. PICK e : e = SubSeq(t, 1, hi)
    OBVIOUS
  <2>6. e \in Seq(C) /\ Len(e) = hi /\ \A i \in 1 .. hi : e[i] = t[i]
    BY <2>2, <2>4, <2>5, PartIs
  <2>7. Solid(e) = Solid(t)
    BY <2>2, <2>3, <2>4, <2>6 DEF Solid
  <2>8. Trim(t) = SubSeq(e, lo, hi)
    <3>1. NotIn(t, Spaces) = Solid(t) /\ NotIn(e, Spaces) = Solid(e)
      BY <2>6, NotInIs
    <3>2. Trim(t) = From(e, lo)
      BY <1>2, <2>1, <2>5, <2>7, <3>1 DEF Trim
    <3> QED
      BY <2>6, <3>2 DEF From
  <2>9. SubSeq(e, lo, hi) = SubSeq(t, lo, hi)
    <3>1. /\ SubSeq(e, lo, hi) \in Seq(C) /\ SubSeq(t, lo, hi) \in Seq(C)
          /\ Len(SubSeq(e, lo, hi)) = hi - lo + 1
          /\ Len(SubSeq(t, lo, hi)) = hi - lo + 1
          /\ \A i \in 1 .. hi - lo + 1 : SubSeq(e, lo, hi)[i] = e[lo + i - 1]
          /\ \A i \in 1 .. hi - lo + 1 : SubSeq(t, lo, hi)[i] = t[lo + i - 1]
      BY <2>2, <2>3, <2>4, <2>6, PartIs
    <3>2. \A i \in 1 .. hi - lo + 1 : e[lo + i - 1] = t[lo + i - 1]
      BY <2>4, <2>6
    <3> QED
      BY <3>1, <3>2, SeqEqual
  <2> QED
    BY <1>2, <2>1, <2>8, <2>9 DEF Core
<1> QED
  BY <1>1, <1>2

LEMMA TrimSpacesIs ==
  ASSUME NEW C, NEW t \in Seq(C)
  PROVE  TrimSpaces(t) = Core(t)
<1>1. Len(t) \in Nat
  BY LenProperties
<1>2. PICK left : left = FirstFrom(t, 1, Solid(t))
  OBVIOUS
<1>3. IsFirst(left, 1, Len(t), Solid(t))
  BY <1>1, <1>2, FirstIs
<1>4. FirstFrom(t, 1, NotIn(t, Spaces)) = left
  BY <1>2, NotInIs
<1>5. left \in 1 .. Len(t) + 1 /\ \A i \in Solid(t) : left <= i
  <2>1. \A i \in Solid(t) : i \in 1 .. Len(t)
    BY DEF Solid
  <2> QED
    BY <1>1, <1>3, <2>1 DEF IsFirst
<1>6. {i \in left .. Len(t) : t[i] \notin Spaces} = Solid(t)
  BY <1>1, <1>5 DEF Solid
<1>7. PICK right : right = IF Solid(t) = {} THEN left - 1 ELSE Max(Solid(t))
  OBVIOUS
<1>8. TrimSpaces(t) = IF t = <<>> THEN <<>> ELSE SubSeq(t, left, right)
  BY <1>4, <1>6, <1>7 DEF TrimSpaces
<1>9. CASE Solid(t) = {}
  <2>1. SubSeq(t, left, right) = <<>>
    BY <1>5, <1>7, <1>9, SubSeqEmpty
  <2> QED
    BY <1>8, <1>9, <2>1 DEF Core
<1>10. CASE Solid(t) # {}
  <2>1. left = Min(Solid(t))
    <3>1. left <= Len(t) /\ left \in Solid(t)
      <4>1. PICK i \in Solid(t) : left <= i
        BY <1>5, <1>10
      <4> QED
        BY <1>1, <1>3, <1>5, <4>1 DEF IsFirst, Solid
    <3>2. /\ Min(Solid(t)) \in Solid(t)
          /\ \A i \in Solid(t) : Min(Solid(t)) <= i
      BY <1>10, SolidBounds
    <3>3. left <= Min(Solid(t)) /\ Min(Solid(t)) <= left
      BY <1>5, <3>1, <3>2
    <3>4. Min(Solid(t)) \in Nat
      BY <1>1, <3>2 DEF Solid
    <3> QED
      BY <1>5, <3>3, <3>4
  <2>2. t # <<>>
    BY <1>10, EmptySeq DEF Solid
  <2> QED
    BY <1>7, <1>8, <1>10, <2>1, <2>2 DEF Core
<1> QED
  BY <1>9, <1>10

LEMMA CoreIsTrimmed ==
  ASSUME NEW C, NEW t \in Seq(C)
  PROVE  IsTrimmed(t, Core(t))
<1>1. Len(t) \in Nat
  BY LenProperties
<1>2. PICK core : core = Core(t)
  OBVIOUS
<1>3. CASE Solid(t) = {}
  <2>1. core = <<>> /\ SubSeq(t, Len(t) + 1, Len(t)) = <<>>
    BY <1>1, <1>2, <1>3, SubSeqEmpty DEF Core
  <2>2. \A p \in 1 .. Len(t) : t[p] \in Spaces
    BY <1>3 DEF Solid
  <2>3. \E i \in 1 .. End(t), j \in 0 .. Len(t) :
          /\ core = SubSeq(t, i, j)
          /\ \A p \in (1 .. i - 1) \cup (j + 1 .. Len(t)) : t[p] \in Spaces
    <3>1. /\ Len(t) + 1 \in 1 .. End(t) /\ Len(t) \in 0 .. Len(t)
          /\ (1 .. (Len(t) + 1) - 1) \cup (Len(t) + 1 .. Len(t)) = 1 .. Len(t)
      BY <1>1 DEF End
    <3> QED
      BY <2>1, <2>2, <3>1
  <2> QED
    BY <1>2, <2>1, <2>3 DEF IsTrimmed
<1>4. CASE Solid(t) # {}
  <2>1. PICK lo, hi : lo = Min(Solid(t)) /\ hi = Max(Solid(t))
    OBVIOUS
  <2>2. /\ lo \in Solid(t) /\ hi \in Solid(t) /\ lo <= hi
        /\ \A i \in Solid(t) : lo <= i /\ i <= hi
    BY <1>4, <2>1, SolidBounds
  <2>3. lo \in 1 .. Len(t) /\ hi \in 1 .. Len(t)
    BY <2>2 DEF Solid
  <2>4. core = SubSeq(t, lo, hi)
    BY <1>2, <1>4, <2>1 DEF Core
  <2>5. /\ Len(core) = hi - lo + 1
        /\ \A i \in 1 .. hi - lo + 1 : core[i] = t[lo + i - 1]
    BY <1>1, <2>2, <2>3, <2>4, PartIs
  <2>6. core[1] \notin Spaces /\ core[Len(core)] \notin Spaces
    <3>1. core[1] = t[lo] /\ core[Len(core)] = t[hi]
      BY <2>2, <2>3, <2>5
    <3> QED
      BY <2>2, <3>1 DEF Solid
  <2>7. ASSUME NEW p \in (1 .. lo - 1) \cup (hi + 1 .. Len(t))
        PROVE  t[p] \in Spaces
    <3>1. p \in 1 .. Len(t) /\ (p < lo \/ hi < p)
      BY <1>1, <2>3
    <3>2. p \notin Solid(t)
      BY <2>2, <2>3, <3>1
    <3> QED
      BY <3>1, <3>2 DEF Solid
  <2>8. lo \in 1 .. End(t) /\ hi \in 0 .. Len(t)
    BY <1>1, <2>3 DEF End
  <2> QED
    BY <1>2, <2>4, <2>6, <2>7, <2>8 DEF IsTrimmed
<1> QED
  BY <1>3, <1>4

-----------------------------------------------------------------------------
(* The specification *)

\* A text is always made of characters.
LEMMA TextTyped == Spec => [](text \in Seq(Characters))
<1>1. Init => text \in Seq(Characters)
  BY DEF Init
<1>2. text \in Seq(Characters) /\ [Next]_vars => (text \in Seq(Characters))'
  BY DEF Next, Type, vars
<1> QED
  BY <1>1, <1>2, PTL DEF Spec

\* The three functions that trim take off the spaces at both ends and nothing
\* else, for every text and every set of spaces.
LEMMA TrimsAgreeTyped ==
  ASSUME text \in Seq(Characters)
  PROVE  TrimsAgree
BY TrimIs, StringViewTrimIs, TrimSpacesIs, CoreIsTrimmed DEF TrimsAgree

-----------------------------------------------------------------------------
(* Scalars *)

\* The characters of a number that parse_number_string reads to the end.
Numeric == DOMAIN DigitValue \cup {"-", "."}

LEMMA DigitsEndIs ==
  ASSUME NEW C, NEW t \in Seq(C), NEW p \in 1 .. Len(t) + 1
  PROVE  /\ DigitsEnd(t, p) \in p .. Len(t) + 1
         /\ \A i \in p .. DigitsEnd(t, p) - 1 : t[i] \in DOMAIN DigitValue
         /\ DigitsEnd(t, p) <= Len(t) => t[DigitsEnd(t, p)] \notin DOMAIN DigitValue
<1>1. Len(t) \in Nat /\ DOMAIN t = 1 .. Len(t)
  BY LenProperties
<1>2. PICK e : e = DigitsEnd(t, p)
  OBVIOUS
<1>3. IsFirst(e, p, Len(t), NotIn(t, DOMAIN DigitValue))
  BY <1>2, FirstIs DEF DigitsEnd
<1> QED
  BY <1>1, <1>2, <1>3 DEF IsFirst, NotIn

LEMMA FractionNumeric ==
  ASSUME NEW C, NEW t \in Seq(C), NEW sign, NEW start \in 1 .. Len(t) + 1,
         NEW int, int = DigitsEnd(t, start),
         Whole(ParseFraction(t, sign, start, int), t)
  PROVE  \A i \in start .. Len(t) : t[i] \in Numeric
<1>1. Len(t) \in Nat
  BY LenProperties
<1>2. /\ int \in start .. Len(t) + 1
      /\ \A i \in start .. int - 1 : t[i] \in DOMAIN DigitValue
  BY DigitsEndIs
<1>3. CASE int <= Len(t) /\ t[int] = "."
  <2>1. PICK end : end = DigitsEnd(t, int + 1)
    OBVIOUS
  <2>2. \A i \in int + 1 .. end - 1 : t[i] \in DOMAIN DigitValue
    <3>1. int + 1 \in 1 .. Len(t) + 1
      BY <1>1, <1>2, <1>3
    <3> QED
      BY <2>1, <3>1, DigitsEndIs
  <2>3. end = Len(t) + 1
    BY <1>3, <2>1 DEF ParseFraction, ParsedDecimal, Whole, Invalid, Parsed, End
  <2> QED
    BY <1>1, <1>2, <1>3, <2>2, <2>3 DEF Numeric
<1>4. CASE ~(int <= Len(t) /\ t[int] = ".")
  <2>1. int = Len(t) + 1
    BY <1>4 DEF ParseFraction, ParsedDecimal, Whole, Invalid, Parsed, End
  <2> QED
    BY <1>1, <1>2, <2>1 DEF Numeric
<1> QED
  BY <1>3, <1>4

LEMMA NumberNumeric ==
  ASSUME NEW C, NEW t \in Seq(C), t # <<>>, Whole(ParseNumberString(t), t)
  PROVE  \A i \in 1 .. Len(t) : t[i] \in Numeric
<1>1. Len(t) \in Nat /\ Len(t) # 0
  BY LenProperties, EmptySeq
<1>2. CASE t[1] = "-"
  <2>1. Whole(ParseFraction(t, -1, 2, DigitsEnd(t, 2)), t)
    BY <1>2 DEF ParseNumberString
  <2>2. 2 \in 1 .. Len(t) + 1
    BY <1>1
  <2>3. \A i \in 2 .. Len(t) : t[i] \in Numeric
    BY <2>1, <2>2, FractionNumeric
  <2> QED
    BY <1>1, <1>2, <2>3 DEF Numeric
<1>3. CASE t[1] # "-"
  <2>1. Whole(ParseFraction(t, 1, 1, DigitsEnd(t, 1)), t)
    BY <1>3 DEF ParseNumberString
  <2>2. 1 \in 1 .. Len(t) + 1
    BY <1>1
  <2> QED
    BY <2>1, <2>2, FractionNumeric
<1> QED
  BY <1>2, <1>3

LEMMA NumericPlain ==
  "NUL" \notin Numeric /\ \A c \in Numeric : c \notin Spaces
BY NumbersAssumption DEF Numeric

\* strtod reads what parse_number_string does, where that reads all of it.
LEMMA StrtodReads ==
  ASSUME NEW C, NEW t \in Seq(C), t # <<>>, Whole(ParseNumberString(t), t)
  PROVE  Strtod(t) = Parsed(ParseNumberString(t).value, End(t))
<1>1. Len(t) \in Nat /\ Len(t) # 0 /\ DOMAIN t = 1 .. Len(t)
  BY LenProperties, EmptySeq
<1>2. \A i \in 1 .. Len(t) : t[i] \in Numeric
  BY NumberNumeric
<1>3. FirstFrom(t, 1, In(t, {"NUL"})) = Len(t) + 1
  <2>1. In(t, {"NUL"}) = {}
    BY <1>1, <1>2, NumericPlain DEF In
  <2> QED
    BY <2>1 DEF FirstFrom, End
<1>4. SubSeq(t, 1, FirstFrom(t, 1, In(t, {"NUL"})) - 1) = t
  BY <1>1, <1>3, SubSeqFull
<1>5. FirstFrom(t, 1, NotIn(t, Spaces)) = 1
  <2>1. PICK r : r = FirstFrom(t, 1, NotIn(t, Spaces))
    OBVIOUS
  <2>2. IsFirst(r, 1, Len(t), NotIn(t, Spaces))
    BY <1>1, <2>1, FirstIs
  <2>3. 1 \in NotIn(t, Spaces)
    BY <1>1, <1>2, NumericPlain DEF NotIn
  <2> QED
    BY <1>1, <2>1, <2>2, <2>3 DEF IsFirst
<1>6. From(t, 1) = t
  BY SubSeqFull DEF From
<1>7. PICK r : r = ParseNumberString(t)
  OBVIOUS
<1>8. r.ec = "ok" /\ r.end = Len(t) + 1
  BY <1>7 DEF Whole, End
<1>9. FromCharsFloat(t) = r
  BY <1>7, <1>8 DEF FromCharsFloat
<1>10. Strtod(t) = Parsed(r.value, 1 + r.end - 1)
  BY <1>4, <1>5, <1>6, <1>8, <1>9 DEF Strtod
<1> QED
  BY <1>1, <1>7, <1>8, <1>10 DEF End

\* What the reader makes of a double, given what the writer does.
LEMMA DoubleRead ==
  ASSUME NEW C, NEW t \in Seq(C), t # <<>>, NEW behind
  PROVE  ToDoubleCompatible(t, behind) =
           IF ToDouble(t) = Zero THEN RoundToDouble(WholeOr(Strtod(t), t, Zero))
           ELSE ToDouble(t)
<1>1. CASE ~Whole(FromCharsFloat(t), t)
  <2>1. ToDouble(t) = Zero
    BY <1>1, RoundingAssumption DEF ToDouble, WholeOr
  <2>2. ToDoubleCompatible(t, behind) = RoundToDouble(WholeOr(Strtod(t), t, Zero))
    BY <1>1 DEF ToDoubleCompatible, WholeOr
  <2> QED
    BY <2>1, <2>2
<1>2. CASE Whole(FromCharsFloat(t), t)
  <2>1. PICK v : v = FromCharsFloat(t).value
    OBVIOUS
  <2>2. ToDouble(t) = RoundToDouble(v)
    BY <1>2, <2>1 DEF ToDouble, WholeOr
  <2>3. ToDoubleCompatible(t, behind) = RoundToDouble(v)
    BY <1>2, <2>1 DEF ToDoubleCompatible, WholeOr
  <2>4. ASSUME RoundToDouble(v) = Zero
        PROVE  WholeOr(Strtod(t), t, Zero) = v
    <3>1. v # NotNormal
      <4>1. NotNormal # Zero
        BY DEF NotNormal, Zero, Decimal
      <4> QED
        BY <2>4, <4>1, RoundingAssumption
    <3>2. FromCharsFloat(t) = ParseNumberString(t)
      <4>1. CASE ParseNumberString(t).ec = "ok"
        BY <4>1 DEF FromCharsFloat
      <4>2. CASE ParseNumberString(t).ec # "ok"
        <5>1. FromCharsFloat(t) = ParseInfNan(t)
          BY <4>2 DEF FromCharsFloat
        <5>2. ParseInfNan(t).ec = "ok" => ParseInfNan(t).value = NotNormal
          BY DEF ParseInfNan, Parsed, Invalid
        <5> QED
          BY <1>2, <2>1, <3>1, <5>1, <5>2 DEF Whole
      <4> QED
        BY <4>1, <4>2
    <3>3. Strtod(t) = Parsed(v, End(t))
      BY <1>2, <2>1, <3>2, StrtodReads
    <3> QED
      BY <3>3 DEF WholeOr, Whole, Parsed
  <2> QED
    BY <2>2, <2>3, <2>4
<1> QED
  BY <1>1, <1>2

\* What the writer makes of an empty text.
LEMMA EmptyStored ==
  ASSUME NEW t, t = <<>>
  PROVE  InsertScalar(t) = [Double |-> Zero, Int64 |-> 0, Bool |-> FALSE]
<1>1. ToDouble(t) = Zero
  BY RoundingAssumption DEF ToDouble, WholeOr, Whole, FromCharsFloat, Invalid
<1>2. ToIntegral(NumberTypes["int64"], t) = 0
  <2>1. DigitsEnd(t, 1) = 1
    BY DEF DigitsEnd, FirstFrom, End
  <2>2. StdFromChars(NumberTypes["int64"], t) = Invalid
    BY <2>1 DEF StdFromChars
  <2> QED
    BY <2>2 DEF ToIntegral, OkOr, Invalid
<1>3. ToBool(t) = FALSE
  <2>1. <<>> # <<True>> /\ <<>> # <<"1">>
    OBVIOUS
  <2> QED
    BY <2>1 DEF ToBool
<1> QED
  BY <1>1, <1>2, <1>3 DEF InsertScalar

LEMMA TerminatorTrimmed ==
  ASSUME NEW C, NEW t \in Seq(C)
  PROVE  TrimExtraNullTerminator(Transform(t)) = t
<1>1. Len(t) \in Nat /\ Len(Transform(t)) = Len(t) + 1
  BY DEF Transform
<1>2. SubSeq(Append(t, "NUL"), 1, Len(t)) = t
  OBVIOUS
<1> QED
  BY <1>1, <1>2 DEF TrimExtraNullTerminator, Transform

LEMMA ScalarsAgreeTyped ==
  ASSUME text \in Seq(Characters)
  PROVE  ScalarsAgree
<1>1. TrimExtraNullTerminator(Transform(text)) = text
  BY TerminatorTrimmed
<1>2. ASSUME text = <<>>, NEW behind \in Behind, NEW default \in Defaults
      PROVE  GetScalarOfString(Transform(text), behind, default) =
               [found |-> FALSE, value |-> default]
  BY <1>1, <1>2 DEF GetScalarOfString
<1>3. CASE text = <<>>
  BY <1>2, <1>3, EmptyStored DEF ScalarsAgree
<1>4. ASSUME text # <<>>, NEW behind \in Behind, NEW default \in Defaults
      PROVE  LET read == GetScalarOfString(Transform(text), behind, default)
                 stored == InsertScalar(text)
             IN /\ read.found
                /\ read.value.Int64 = stored.Int64 /\ read.value.Bool = stored.Bool
                /\ read.value.Double =
                     IF stored.Double = Zero
                     THEN RoundToDouble(WholeOr(Strtod(text), text, Zero))
                     ELSE stored.Double
  BY <1>1, <1>4, DoubleRead DEF GetScalarOfString, InsertScalar
<1>5. CASE text # <<>>
  BY <1>4, <1>5 DEF ScalarsAgree
<1> QED
  BY <1>3, <1>5

\* A string reads as the scalars the writer would have stored, whatever lies
\* behind it in the cache and whatever the caller's default: getDouble,
\* getInt64 and getBool against insertScalarKey, for texts of any length over
\* any characters; only the empty one reads as not found.
THEOREM ScalarsAlwaysAgree == Spec => []ScalarsAgree
<1>1. text \in Seq(Characters) => ScalarsAgree
  BY ScalarsAgreeTyped
<1> QED
  BY <1>1, TextTyped, PTL

-----------------------------------------------------------------------------
(* Where a text is cut *)

\* A set of positions in a text of n characters.
Places(at, n) == at \subseteq 1 .. n

LEMMA PlaceIs ==
  ASSUME NEW n \in Nat, NEW at, Places(at, n), NEW q \in at
  PROVE  q \in Nat /\ 1 <= q /\ q <= n /\ q \in 1 .. n
BY DEF Places

\* How many of the positions are not behind p.
Rank(at, p) == Cardinality({q \in at : q <= p})

\* The position of the delimiter that ends token j; Cut of Tokens.
CutOf(t, at, j) ==
  IF j = 0 THEN 0
  ELSE IF j = Cardinality(at) + 1 THEN End(t)
  ELSE CHOOSE p \in at : Rank(at, p) = j

LEMMA RankType ==
  ASSUME NEW n \in Nat, NEW at, Places(at, n), NEW p
  PROVE  /\ IsFiniteSet(at) /\ Cardinality(at) \in Nat
         /\ IsFiniteSet({q \in at : q <= p})
         /\ Rank(at, p) \in 0 .. Cardinality(at)
<1>1. IsFiniteSet(at)
  <2>1. IsFiniteSet(1 .. n)
    BY FS_Interval
  <2>2. at \in SUBSET (1 .. n)
    BY DEF Places
  <2> QED
    BY <2>1, <2>2, FS_Subset
<1>2. {q \in at : q <= p} \in SUBSET at
  OBVIOUS
<1> QED
  BY <1>1, <1>2, FS_Subset, FS_CardinalityType DEF Rank

LEMMA RankStep ==
  ASSUME NEW n \in Nat, NEW at, Places(at, n), NEW i \in 1 .. n
  PROVE  Rank(at, i) = IF i \in at THEN Rank(at, i - 1) + 1 ELSE Rank(at, i - 1)
<1> DEFINE Upto(p) == {q \in at : q <= p}
<1>0. \A q \in at : q \in Nat
  BY PlaceIs
<1>1. IsFiniteSet(Upto(i - 1))
  BY RankType
<1>2. i \notin Upto(i - 1)
  OBVIOUS
<1>3. Rank(at, i) = Cardinality(Upto(i)) /\ Rank(at, i - 1) = Cardinality(Upto(i - 1))
  BY DEF Rank
<1>4. CASE i \in at
  <2>1. ASSUME NEW q \in at PROVE q <= i <=> (q <= i - 1 \/ q = i)
    BY <1>0, <2>1
  <2>2. Upto(i) = Upto(i - 1) \cup {i}
    BY <1>4, <2>1, Zenon
  <2> HIDE DEF Upto
  <2> QED
    BY <1>1, <1>2, <1>3, <1>4, <2>2, FS_AddElement
<1>5. CASE i \notin at
  <2>1. Upto(i) = Upto(i - 1)
    BY <1>0, <1>5
  <2> QED
    BY <1>3, <1>5, <2>1
<1> QED
  BY <1>4, <1>5

LEMMA RankEnds ==
  ASSUME NEW n \in Nat, NEW at, Places(at, n)
  PROVE  Rank(at, 0) = 0 /\ Rank(at, n) = Cardinality(at)
<1>1. {q \in at : q <= 0} = {} /\ {q \in at : q <= n} = at
  <2>1. \A q \in at : q \in Nat /\ 1 <= q /\ q <= n
    BY PlaceIs
  <2> QED
    BY <2>1
<1> QED
  BY <1>1, FS_EmptySet DEF Rank

LEMMA RankMonotone ==
  ASSUME NEW n \in Nat, NEW at, Places(at, n),
         NEW i \in Nat, NEW k \in Nat, i <= k
  PROVE  /\ Rank(at, i) <= Rank(at, k)
         /\ (i < k /\ k \in at) => Rank(at, i) < Rank(at, k)
<1>1. ASSUME NEW a \in Nat, NEW b \in Nat, a <= b PROVE Rank(at, a) <= Rank(at, b)
  <2>1. {q \in at : q <= a} \in SUBSET {q \in at : q <= b}
    <3>1. \A q \in at : q \in Nat
      BY PlaceIs
    <3> QED
      BY <1>1, <3>1
  <2>2. IsFiniteSet({q \in at : q <= b})
    BY RankType
  <2> QED
    BY <2>1, <2>2, FS_Subset DEF Rank
<1>2. ASSUME i < k, k \in at PROVE Rank(at, i) < Rank(at, k)
  <2>1. k \in 1 .. n /\ k - 1 \in Nat /\ i <= k - 1
    BY <1>2, PlaceIs
  <2>2. Rank(at, i) <= Rank(at, k - 1)
    BY <1>1, <2>1
  <2>3. Rank(at, k) = Rank(at, k - 1) + 1
    BY <1>2, <2>1, RankStep
  <2>4. Rank(at, i) \in Nat /\ Rank(at, k - 1) \in Nat
    <3>1. \A x : Rank(at, x) \in 0 .. Cardinality(at) /\ Cardinality(at) \in Nat
      BY RankType
    <3> QED
      BY <3>1
  <2> QED
    BY <2>2, <2>3, <2>4
<1> QED
  BY <1>1, <1>2

LEMMA CutAt ==
  ASSUME NEW t, Len(t) \in Nat, NEW at, Places(at, Len(t)), NEW p \in at
  PROVE  Rank(at, p) \in 1 .. Cardinality(at) /\ CutOf(t, at, Rank(at, p)) = p
<1>1. PICK r : r = Rank(at, p)
  OBVIOUS
<1>2. r \in 0 .. Cardinality(at) /\ Cardinality(at) \in Nat
  BY <1>1, RankType
<1>3. \A q \in at : q \in Nat /\ q # 0
  BY PlaceIs
<1>4. r # 0
  <2>1. Rank(at, 0) < Rank(at, p)
    <3>1. 0 <= p /\ 0 < p
      BY <1>3
    <3> QED
      BY <1>3, <3>1, RankMonotone
  <2> QED
    BY <1>1, <1>2, <2>1, RankEnds
<1>5. \A q \in at : Rank(at, q) = r => q = p
  <2> TAKE q \in at
  <2>1. ASSUME q < p PROVE Rank(at, q) < r
    BY <1>1, <1>3, <2>1, RankMonotone
  <2>2. ASSUME p < q PROVE r < Rank(at, q)
    BY <1>1, <1>3, <2>2, RankMonotone
  <2>3. Rank(at, q) \in 0 .. Cardinality(at)
    BY RankType
  <2> QED
    BY <1>2, <1>3, <2>1, <2>2, <2>3
<1>6. CutOf(t, at, r) = CHOOSE q \in at : Rank(at, q) = r
  BY <1>2, <1>4 DEF CutOf
<1>7. (CHOOSE q \in at : Rank(at, q) = r) = p
  BY <1>1, <1>5
<1> QED
  BY <1>1, <1>2, <1>4, <1>6, <1>7

LEMMA CutIs ==
  ASSUME NEW t, Len(t) \in Nat, NEW at, Places(at, Len(t)),
         NEW j \in 1 .. Cardinality(at)
  PROVE  CutOf(t, at, j) \in at /\ Rank(at, CutOf(t, at, j)) = j
<1> DEFINE T == {i \in 0 .. Len(t) :
                   \A k \in 1 .. Rank(at, i) : \E p \in at : Rank(at, p) = k}
<1>0. Cardinality(at) \in Nat /\ \A i : Rank(at, i) \in 0 .. Cardinality(at)
  BY RankType
<1>1. 0 \in T
  BY RankEnds
<1>2. ASSUME NEW i \in 1 .. Len(t), i - 1 \in T PROVE i \in T
  <2> SUFFICES ASSUME NEW k \in 1 .. Rank(at, i)
               PROVE  \E p \in at : Rank(at, p) = k
    OBVIOUS
  <2>1. CASE k \in 1 .. Rank(at, i - 1)
    BY <1>2, <2>1
  <2>2. CASE k \notin 1 .. Rank(at, i - 1)
    <3>1. Rank(at, i) = IF i \in at THEN Rank(at, i - 1) + 1 ELSE Rank(at, i - 1)
      BY RankStep
    <3>2. Rank(at, i) \in Nat /\ Rank(at, i - 1) \in Nat
      BY <1>0
    <3>3. i \in at /\ k = Rank(at, i)
      BY <2>2, <3>1, <3>2
    <3> QED
      BY <3>3
  <2> QED
    BY <2>1, <2>2
<1> HIDE DEF T
<1>3. Len(t) \in T
  BY <1>1, <1>2, InductionUpTo, SMTT(30)
<1>4. PICK p \in at : Rank(at, p) = j
  BY <1>3, RankEnds DEF T
<1> QED
  BY <1>4, CutAt

\* The cuts are in order, and between two of them there is no delimiter.
LEMMA CutsOrdered ==
  ASSUME NEW t, Len(t) \in Nat, NEW at, Places(at, Len(t)),
         NEW j \in 0 .. Cardinality(at)
  PROVE  /\ CutOf(t, at, j) \in 0 .. Len(t)
         /\ Rank(at, CutOf(t, at, j)) = j
         /\ CutOf(t, at, j + 1) \in 1 .. Len(t) + 1
         /\ CutOf(t, at, j) < CutOf(t, at, j + 1)
<1>0. Cardinality(at) \in Nat
  BY RankType
<1>1. CutOf(t, at, 0) = 0 /\ CutOf(t, at, Cardinality(at) + 1) = Len(t) + 1
  BY <1>0 DEF CutOf, End
<1>2. \A k \in 1 .. Cardinality(at) :
        CutOf(t, at, k) \in 1 .. Len(t) /\ Rank(at, CutOf(t, at, k)) = k
  BY CutIs, PlaceIs
<1>3. CutOf(t, at, j) \in 0 .. Len(t) /\ Rank(at, CutOf(t, at, j)) = j
  <2>1. CASE j = 0
    BY <1>1, <2>1, RankEnds
  <2>2. CASE j # 0
    <3>1. j \in 1 .. Cardinality(at)
      BY <1>0, <2>2
    <3> QED
      BY <1>2, <3>1
  <2> QED
    BY <2>1, <2>2
<1>4. CASE j = Cardinality(at)
  BY <1>0, <1>1, <1>3, <1>4
<1>5. CASE j # Cardinality(at)
  <2>1. j + 1 \in 1 .. Cardinality(at)
    BY <1>0, <1>5
  <2>2. PICK a, b : a = CutOf(t, at, j) /\ b = CutOf(t, at, j + 1)
    OBVIOUS
  <2>3. b \in 1 .. Len(t) /\ Rank(at, b) = j + 1
    BY <1>2, <2>1, <2>2
  <2>4. a \in Nat /\ b \in Nat /\ Rank(at, a) = j
    BY <1>3, <2>2, <2>3
  <2>5. ~(b <= a)
    <3> SUFFICES ASSUME b <= a PROVE FALSE
      OBVIOUS
    <3>1. Rank(at, b) <= Rank(at, a)
      BY <2>4, RankMonotone
    <3> QED
      BY <2>3, <2>4, <3>1
  <2> QED
    BY <1>3, <2>2, <2>3, <2>4, <2>5
<1> QED
  BY <1>4, <1>5

\* Token j of a text that is cut at some positions.
TokenOf(t, at, j) == SubSeq(t, CutOf(t, at, j - 1) + 1, CutOf(t, at, j) - 1)

\* The first r tokens.
FirstTokens(t, at, r) == [j \in 1 .. r |-> TokenOf(t, at, j)]

LEMMA TokensIs ==
  ASSUME NEW C, NEW t \in Seq(C), NEW D
  PROVE  /\ Places(In(t, D), Len(t)) /\ Len(t) \in Nat
         /\ Tokens(t, D) = FirstTokens(t, In(t, D), Cardinality(In(t, D)) + 1)
<1>1. Places(In(t, D), Len(t)) /\ Len(t) \in Nat
  BY LenProperties DEF In, Places
<1> QED
  BY <1>1, Zenon DEF Tokens, FirstTokens, TokenOf, CutOf, Rank

LEMMA TokenTyped ==
  ASSUME NEW C, NEW t \in Seq(C), NEW at, Places(at, Len(t)),
         NEW j \in 1 .. Cardinality(at) + 1
  PROVE  TokenOf(t, at, j) \in Seq(C)
<1>1. Len(t) \in Nat /\ Cardinality(at) \in Nat
  BY LenProperties, RankType
<1>2. j - 1 \in 0 .. Cardinality(at) /\ (j - 1) + 1 = j
  BY <1>1
<1>3. PICK a, b : a = CutOf(t, at, j - 1) /\ b = CutOf(t, at, j)
  OBVIOUS
<1>4. a \in 0 .. Len(t) /\ b \in 1 .. Len(t) + 1
  BY <1>1, <1>2, <1>3, CutsOrdered
<1>5. a + 1 \in 1 .. Len(t) + 1 /\ b - 1 \in 0 .. Len(t)
  BY <1>1, <1>4
<1>6. SubSeq(t, a + 1, b - 1) \in Seq(C)
  BY <1>5, PartIs
<1> QED
  BY <1>3, <1>6 DEF TokenOf

-----------------------------------------------------------------------------
(* Splitting *)

LEMMA FirstTokensStep ==
  ASSUME NEW C, NEW t \in Seq(C), NEW at, Places(at, Len(t)),
         NEW r \in 0 .. Cardinality(at)
  PROVE  /\ FirstTokens(t, at, r) \in Seq(Seq(C))
         /\ Append(FirstTokens(t, at, r), TokenOf(t, at, r + 1)) =
              FirstTokens(t, at, r + 1)
<1>1. Len(t) \in Nat /\ Cardinality(at) \in Nat
  BY LenProperties, RankType
<1>2. \A j \in 1 .. r + 1 : TokenOf(t, at, j) \in Seq(C)
  BY <1>1, TokenTyped
<1> DEFINE e(j) == TokenOf(t, at, j)
<1>3. FirstTokens(t, at, r) = [j \in 1 .. r |-> e(j)]
      /\ FirstTokens(t, at, r + 1) = [j \in 1 .. r + 1 |-> e(j)]
  BY DEF FirstTokens
<1>4. \A j \in 1 .. r + 1 : e(j) \in Seq(C)
  BY <1>2
<1> HIDE DEF e
<1>5. [j \in 1 .. r |-> e(j)] \in Seq(Seq(C))
  BY <1>1, <1>4
<1>6. Append([j \in 1 .. r |-> e(j)], e(r + 1)) = [j \in 1 .. r + 1 |-> e(j)]
  BY <1>1, <1>4
<1> QED
  BY <1>3, <1>5, <1>6 DEF e

\* The function by which TokenLoop is defined, up to n.
TokenRun(delim, t, n, f) ==
  f = [i \in 0 .. n |-> IF i = 0 THEN [tokens |-> <<>>, start |-> 1]
                        ELSE TokenStep(delim, t, f[i - 1], i)]

LEMMA TokenRunExists ==
  ASSUME NEW delim, NEW t, NEW n \in Nat
  PROVE  \E f : TokenRun(delim, t, n, f)
<1> DEFINE T == {m \in Nat : \E f : TokenRun(delim, t, m, f)}
<1>1. 0 \in T
  <2> DEFINE f == [i \in 0 .. 0 |-> [tokens |-> <<>>, start |-> 1]]
  <2>1. TokenRun(delim, t, 0, f)
    BY DEF TokenRun
  <2> QED
    BY <2>1
<1>2. ASSUME NEW d \in 1 .. n, d - 1 \in T PROVE d \in T
  <2>1. d - 1 \in Nat /\ d \in Nat
    OBVIOUS
  <2>2. PICK f : TokenRun(delim, t, d - 1, f)
    BY <1>2
  <2> DEFINE At(h, i) == IF i = 0 THEN [tokens |-> <<>>, start |-> 1]
                         ELSE TokenStep(delim, t, h[i - 1], i)
             g == [i \in 0 .. d |-> At(f, i)]
  <2>3. \A i \in 0 .. d - 1 : f[i] = At(f, i)
    BY <2>2 DEF TokenRun
  <2>4. \A i \in 0 .. d : g[i] = At(f, i)
    OBVIOUS
  <2>5. g = [i \in 0 .. d |-> g[i]]
    OBVIOUS
  <2> HIDE DEF g
  <2>6. \A i \in 0 .. d - 1 : g[i] = f[i]
    <3> HIDE DEF At
    <3> QED
      BY <2>1, <2>3, <2>4
  <2>7. ASSUME NEW i \in 1 .. d PROVE g[i - 1] = f[i - 1]
    <3>1. i - 1 \in 0 .. d - 1
      BY <2>1
    <3> QED
      BY <2>6, <3>1
  <2>8. \A i \in 0 .. d : g[i] = At(g, i)
    BY <2>4, <2>7
  <2>9. TokenRun(delim, t, d, g)
    BY <2>5, <2>8 DEF TokenRun
  <2> QED
    BY <2>1, <2>9
<1> HIDE DEF T
<1>3. n \in T
  BY <1>1, <1>2, InductionUpTo
<1> QED
  BY <1>3 DEF T

\* After every character, the tokens that a delimiter has ended so far.
LEMMA TokenLoopIs ==
  ASSUME NEW C, NEW t \in Seq(C), NEW delim, NEW at, at = In(t, {delim})
  PROVE  TokenLoop(delim, t) =
           [tokens |-> FirstTokens(t, at, Cardinality(at)),
            start |-> CutOf(t, at, Cardinality(at)) + 1]
<1> DEFINE f == CHOOSE g : TokenRun(delim, t, Len(t), g)
           State(i) == [tokens |-> FirstTokens(t, at, Rank(at, i)),
                        start |-> CutOf(t, at, Rank(at, i)) + 1]
           T == {i \in 0 .. Len(t) : f[i] = State(i)}
<1>1. Len(t) \in Nat /\ Places(at, Len(t)) /\ Cardinality(at) \in Nat
  BY TokensIs, RankType
<1>2. TokenRun(delim, t, Len(t), f)
  BY <1>1, TokenRunExists
<1>3. TokenLoop(delim, t) = f[Len(t)]
  BY DEF TokenLoop, TokenRun
<1> HIDE DEF f
<1>4. \A i \in 0 .. Len(t) :
        f[i] = IF i = 0 THEN [tokens |-> <<>>, start |-> 1]
               ELSE TokenStep(delim, t, f[i - 1], i)
  BY <1>2 DEF TokenRun
<1>5. 0 \in T
  <2>1. Rank(at, 0) = 0
    BY <1>1, RankEnds
  <2>2. FirstTokens(t, at, 0) = <<>> /\ CutOf(t, at, 0) = 0
    BY DEF FirstTokens, CutOf
  <2>3. f[0] = State(0)
    BY <1>1, <1>4, <2>1, <2>2
  <2> QED
    BY <1>1, <2>3
<1>6. ASSUME NEW i \in 1 .. Len(t), i - 1 \in T PROVE i \in T
  <2>1. PICK r : r = Rank(at, i - 1)
    OBVIOUS
  <2>2. f[i - 1] = [tokens |-> FirstTokens(t, at, r), start |-> CutOf(t, at, r) + 1]
    BY <1>6, <2>1
  <2>3. f[i] = TokenStep(delim, t, f[i - 1], i)
    BY <1>1, <1>4
  <2>4. i \in at <=> t[i] = delim
    BY LenProperties DEF In
  <2>5. CASE i \in at
    <3>1. Rank(at, i) = r + 1 /\ CutOf(t, at, r + 1) = i
      BY <1>1, <2>1, <2>5, RankStep, CutAt
    <3>2. r \in 0 .. Cardinality(at)
      BY <1>1, <2>1, RankType
    <3>3. SubSeq(t, CutOf(t, at, r) + 1, i - 1) = TokenOf(t, at, r + 1)
      <4>1. (r + 1) - 1 = r
        BY <1>1, <3>2
      <4> QED
        BY <3>1, <4>1 DEF TokenOf
    <3>4. f[i] = [tokens |-> Append(FirstTokens(t, at, r), TokenOf(t, at, r + 1)),
                  start |-> i + 1]
      <4>1. /\ f[i - 1].tokens = FirstTokens(t, at, r)
            /\ f[i - 1].start = CutOf(t, at, r) + 1
        BY <2>2
      <4>2. TokenStep(delim, t, f[i - 1], i) =
              [tokens |-> Append(f[i - 1].tokens, SubSeq(t, f[i - 1].start, i - 1)),
               start |-> i + 1]
        BY <2>4, <2>5 DEF TokenStep
      <4> QED
        BY <2>3, <3>3, <4>1, <4>2
    <3>5. Append(FirstTokens(t, at, r), TokenOf(t, at, r + 1)) =
            FirstTokens(t, at, r + 1)
      BY <1>1, <3>2, FirstTokensStep, ZenonT(60)
    <3>6. f[i] = State(i)
      BY <3>1, <3>4, <3>5
    <3> QED
      BY <1>1, <3>6
  <2>6. CASE i \notin at
    <3>1. Rank(at, i) = r
      BY <1>1, <2>1, <2>6, RankStep
    <3>2. f[i] = f[i - 1]
      BY <2>3, <2>4, <2>6 DEF TokenStep
    <3>3. f[i] = State(i)
      BY <2>2, <3>1, <3>2
    <3> QED
      BY <1>1, <3>3
  <2> QED
    BY <2>5, <2>6
<1> HIDE DEF T, State
<1>7. Len(t) \in T
  <2>1. \A i \in 1 .. Len(t) : i - 1 \in T => i \in T
    BY <1>6
  <2>2. \A i \in 0 .. Len(t) : i \in T
    BY <1>1, <1>5, <2>1, InductionUpTo
  <2> QED
    BY <1>1, <2>2
<1>8. f[Len(t)] = State(Len(t)) /\ Rank(at, Len(t)) = Cardinality(at)
  BY <1>1, <1>7, RankEnds DEF T
<1> QED
  BY <1>3, <1>8 DEF State

LEMMA AllTokensIs ==
  ASSUME NEW C, NEW t \in Seq(C), NEW delim
  PROVE  AllTokens(t, delim) = Tokens(t, {delim})
<1>1. PICK at : at = In(t, {delim})
  OBVIOUS
<1>2. PICK n : n = Cardinality(at)
  OBVIOUS
<1>3. Len(t) \in Nat /\ Places(at, Len(t)) /\ n \in Nat
  BY <1>1, <1>2, TokensIs, RankType
<1>4. AllTokens(t, delim) =
        Append(FirstTokens(t, at, n), SubSeq(t, CutOf(t, at, n) + 1, Len(t)))
  <2>1. PICK loop : loop = TokenLoop(delim, t)
    OBVIOUS
  <2>2. loop = [tokens |-> FirstTokens(t, at, n), start |-> CutOf(t, at, n) + 1]
    BY <1>1, <1>2, <2>1, TokenLoopIs
  <2>3. loop.tokens = FirstTokens(t, at, n) /\ loop.start = CutOf(t, at, n) + 1
    BY <2>2
  <2>4. AllTokens(t, delim) = Append(loop.tokens, SubSeq(t, loop.start, Len(t)))
    BY <2>1 DEF AllTokens, From
  <2> QED
    BY <2>3, <2>4
<1>5. SubSeq(t, CutOf(t, at, n) + 1, Len(t)) = TokenOf(t, at, n + 1)
  <2>1. CutOf(t, at, n + 1) = Len(t) + 1
    BY <1>2, <1>3 DEF CutOf, End
  <2>2. (n + 1) - 1 = n /\ (Len(t) + 1) - 1 = Len(t)
    BY <1>3
  <2> QED
    BY <2>1, <2>2 DEF TokenOf
<1>6. Append(FirstTokens(t, at, n), TokenOf(t, at, n + 1)) = FirstTokens(t, at, n + 1)
  BY <1>2, <1>3, FirstTokensStep
<1>7. Tokens(t, {delim}) = FirstTokens(t, at, n + 1)
  BY <1>1, <1>2, TokensIs
<1> QED
  BY <1>4, <1>5, <1>6, <1>7

LEMMA StringViewSplitIs ==
  ASSUME NEW C, NEW t \in Seq(C), NEW delim
  PROVE  StringViewSplit(t, delim) = Tokens(t, {delim})
<1>1. CASE t = <<>>
  <2>1. In(t, {delim}) = {}
    BY <1>1 DEF In
  <2>2. Cardinality(In(t, {delim})) = 0
    BY <2>1, FS_EmptySet
  <2>3. TokenOf(t, In(t, {delim}), 1) = <<>>
    BY <1>1, <2>2, SubSeqEmpty DEF TokenOf, CutOf, End
  <2>4. Tokens(t, {delim}) = [j \in 1 .. 1 |-> TokenOf(t, In(t, {delim}), j)]
    <3>1. Cardinality(In(t, {delim})) + 1 = 1
      BY <2>2
    <3>2. Tokens(t, {delim}) = FirstTokens(t, In(t, {delim}), 1)
      BY <3>1, TokensIs
    <3> QED
      BY <3>2 DEF FirstTokens
  <2>5. [j \in 1 .. 1 |-> TokenOf(t, In(t, {delim}), j)] = << <<>> >>
    BY <2>3
  <2> QED
    BY <1>1, <2>4, <2>5 DEF StringViewSplit
<1>2. CASE t # <<>>
  BY <1>2, AllTokensIs DEF StringViewSplit, AllTokens
<1> QED
  BY <1>1, <1>2

\* The last delimiter is not behind where the loop is.
LEMMA CutBefore ==
  ASSUME NEW t, Len(t) \in Nat, NEW at, Places(at, Len(t)), NEW i \in 0 .. Len(t)
  PROVE  CutOf(t, at, Rank(at, i)) \in 0 .. i
<1>1. PICK r : r = Rank(at, i)
  OBVIOUS
<1>2. r \in 0 .. Cardinality(at) /\ Cardinality(at) \in Nat
  BY <1>1, RankType
<1>3. PICK c : c = CutOf(t, at, r)
  OBVIOUS
<1>4. c \in 0 .. Len(t) /\ Rank(at, c) = r
  BY <1>2, <1>3, CutsOrdered
<1>5. CASE r = 0
  BY <1>1, <1>3, <1>5 DEF CutOf
<1>6. CASE r # 0
  <2>1. c \in at
    <3>1. r \in 1 .. Cardinality(at)
      BY <1>2, <1>6
    <3> QED
      BY <1>3, <3>1, CutIs
  <2>2. ~(i < c)
    <3> SUFFICES ASSUME i < c PROVE FALSE
      OBVIOUS
    <3>1. i \in Nat /\ c \in Nat /\ i <= c
      BY <1>4
    <3>2. Rank(at, i) < Rank(at, c)
      BY <2>1, <3>1, RankMonotone
    <3> QED
      BY <1>1, <1>2, <1>4, <3>2
  <2> QED
    BY <1>1, <1>3, <1>4, <2>2
<1> QED
  BY <1>5, <1>6

\* The function by which Split is defined, up to n.
SplitRun(delim, t, n, f) ==
  f = [i \in 0 .. n |-> IF i = 0 THEN [result |-> <<>>, begin |-> 0, inToken |-> FALSE]
                        ELSE SplitStep(delim, t, f[i - 1], i)]

LEMMA SplitRunExists ==
  ASSUME NEW delim, NEW t, NEW n \in Nat
  PROVE  \E f : SplitRun(delim, t, n, f)
<1> DEFINE T == {m \in Nat : \E f : SplitRun(delim, t, m, f)}
<1>1. 0 \in T
  <2> DEFINE f == [i \in 0 .. 0 |-> [result |-> <<>>, begin |-> 0, inToken |-> FALSE]]
  <2>1. SplitRun(delim, t, 0, f)
    BY DEF SplitRun
  <2> QED
    BY <2>1
<1>2. ASSUME NEW d \in 1 .. n, d - 1 \in T PROVE d \in T
  <2>1. d - 1 \in Nat /\ d \in Nat
    OBVIOUS
  <2>2. PICK f : SplitRun(delim, t, d - 1, f)
    BY <1>2
  <2> DEFINE At(h, i) == IF i = 0 THEN [result |-> <<>>, begin |-> 0, inToken |-> FALSE]
                         ELSE SplitStep(delim, t, h[i - 1], i)
             g == [i \in 0 .. d |-> At(f, i)]
  <2>3. \A i \in 0 .. d - 1 : f[i] = At(f, i)
    BY <2>2 DEF SplitRun
  <2>4. \A i \in 0 .. d : g[i] = At(f, i)
    OBVIOUS
  <2>5. g = [i \in 0 .. d |-> g[i]]
    OBVIOUS
  <2> HIDE DEF g
  <2>6. \A i \in 0 .. d - 1 : g[i] = f[i]
    <3> HIDE DEF At
    <3> QED
      BY <2>1, <2>3, <2>4
  <2>7. ASSUME NEW i \in 1 .. d PROVE g[i - 1] = f[i - 1]
    <3>1. i - 1 \in 0 .. d - 1
      BY <2>1
    <3> QED
      BY <2>6, <3>1
  <2>8. \A i \in 0 .. d : g[i] = At(g, i)
    BY <2>4, <2>7
  <2>9. SplitRun(delim, t, d, g)
    BY <2>5, <2>8 DEF SplitRun
  <2> QED
    BY <2>1, <2>9
<1> HIDE DEF T
<1>3. n \in T
  BY <1>1, <1>2, InductionUpTo
<1> QED
  BY <1>3 DEF T

\* The state of Split's loop behind i characters.
SplitState(t, at, i, s) ==
  /\ s.result = FirstTokens(t, at, Rank(at, i))
  /\ CutOf(t, at, Rank(at, i)) = i => s.inToken = FALSE
  /\ CutOf(t, at, Rank(at, i)) < i =>
       s.inToken = TRUE /\ s.begin = CutOf(t, at, Rank(at, i)) + 1

LEMMA SplitStepIs ==
  ASSUME NEW C, NEW t \in Seq(C), NEW delim, NEW at, at = In(t, {delim}),
         NEW i \in 1 .. Len(t), NEW s, SplitState(t, at, i - 1, s)
  PROVE  SplitState(t, at, i, SplitStep(delim, t, s, i))
<1>1. Len(t) \in Nat /\ Places(at, Len(t)) /\ Cardinality(at) \in Nat
  BY TokensIs, RankType
<1>2. PICK r, c : r = Rank(at, i - 1) /\ c = CutOf(t, at, r)
  OBVIOUS
<1>3. r \in 0 .. Cardinality(at) /\ c \in 0 .. i - 1
  <2>1. i - 1 \in 0 .. Len(t)
    BY <1>1
  <2> QED
    BY <1>1, <1>2, <2>1, RankType, CutBefore
<1>4. /\ s.result = FirstTokens(t, at, r)
      /\ c = i - 1 => s.inToken = FALSE
      /\ c < i - 1 => s.inToken = TRUE /\ s.begin = c + 1
  BY <1>2 DEF SplitState
<1>5. c = i - 1 \/ c < i - 1
  BY <1>1, <1>3
<1>6. i \in at <=> t[i] = delim
  BY LenProperties DEF In
<1>7. PICK next : next = SplitStep(delim, t, s, i)
  OBVIOUS
<1>8. CASE i \in at
  <2>1. Rank(at, i) = r + 1 /\ CutOf(t, at, r + 1) = i
    BY <1>1, <1>2, <1>8, RankStep, CutAt
  <2>2. TokenOf(t, at, r + 1) = SubSeq(t, c + 1, i - 1)
    <3>1. (r + 1) - 1 = r
      BY <1>1, <1>3
    <3> QED
      BY <1>2, <2>1, <3>1 DEF TokenOf
  <2>3. (IF s.inToken THEN SubSeq(t, s.begin, i - 1) ELSE <<>>) = TokenOf(t, at, r + 1)
    <3>1. CASE c = i - 1
      <4>1. SubSeq(t, c + 1, i - 1) = <<>>
        BY <1>1, <1>3, <3>1, SubSeqEmpty
      <4> QED
        BY <1>4, <2>2, <3>1, <4>1
    <3>2. CASE c < i - 1
      BY <1>4, <2>2, <3>2
    <3> QED
      BY <1>5, <3>1, <3>2
  <2>4. next = [result |-> Append(s.result, TokenOf(t, at, r + 1)),
                begin |-> s.begin, inToken |-> FALSE]
    BY <1>6, <1>7, <1>8, <2>3 DEF SplitStep
  <2>5. Append(FirstTokens(t, at, r), TokenOf(t, at, r + 1)) = FirstTokens(t, at, r + 1)
    BY <1>1, <1>3, FirstTokensStep, ZenonT(60)
  <2>6. next.result = FirstTokens(t, at, r + 1) /\ next.inToken = FALSE
    BY <1>4, <2>4, <2>5
  <2> QED
    BY <1>7, <2>1, <2>6 DEF SplitState
<1>9. CASE i \notin at
  <2>1. Rank(at, i) = r
    BY <1>1, <1>2, <1>9, RankStep
  <2>2. next = [result |-> s.result, begin |-> IF s.inToken THEN s.begin ELSE i,
                inToken |-> TRUE]
    BY <1>6, <1>7, <1>9 DEF SplitStep
  <2>3. (IF s.inToken THEN s.begin ELSE i) = c + 1
    <3>1. CASE c = i - 1
      BY <1>1, <1>4, <3>1
    <3>2. CASE c < i - 1
      BY <1>4, <3>2
    <3> QED
      BY <1>5, <3>1, <3>2
  <2>4. next.result = FirstTokens(t, at, r) /\ next.inToken = TRUE /\ next.begin = c + 1
    BY <1>4, <2>2, <2>3
  <2>5. c # i
    BY <1>1, <1>3
  <2> QED
    BY <1>2, <1>7, <2>1, <2>4, <2>5 DEF SplitState
<1> QED
  BY <1>8, <1>9

LEMMA FirstTokensIs ==
  ASSUME NEW C, NEW t \in Seq(C), NEW at, Places(at, Len(t)),
         NEW r \in 0 .. Cardinality(at)
  PROVE  /\ FirstTokens(t, at, r + 1) \in Seq(Seq(C))
         /\ Len(FirstTokens(t, at, r + 1)) = r + 1
         /\ FirstTokens(t, at, r + 1)[r + 1] = TokenOf(t, at, r + 1)
         /\ SubSeq(FirstTokens(t, at, r + 1), 1, r) = FirstTokens(t, at, r)
<1>1. Cardinality(at) \in Nat /\ Len(t) \in Nat
  BY LenProperties, RankType
<1>2. PICK s, e : s = FirstTokens(t, at, r) /\ e = TokenOf(t, at, r + 1)
  OBVIOUS
<1>3. s \in Seq(Seq(C)) /\ FirstTokens(t, at, r + 1) = Append(s, e)
  BY <1>2, FirstTokensStep
<1>4. e \in Seq(C)
  BY <1>1, <1>2, TokenTyped
<1>5. Len(s) = r
  BY <1>1, <1>2 DEF FirstTokens
<1>6. SubSeq(Append(s, e), 1, Len(s)) = s
  BY <1>3, <1>4
<1>7. Append(s, e) \in Seq(Seq(C)) /\ Len(Append(s, e)) = r + 1
  BY <1>3, <1>4, <1>5, AppendProperties
<1>8. Append(s, e)[r + 1] = e
  BY <1>3, <1>4, <1>5, AppendProperties
<1> QED
  BY <1>2, <1>3, <1>5, <1>6, <1>7, <1>8

LEMMA SplitIs ==
  ASSUME NEW C, NEW t \in Seq(C), NEW delim
  PROVE  Split(delim, t) = TokensButEmptyLast(t, {delim})
<1> DEFINE f == CHOOSE g : SplitRun(delim, t, Len(t), g)
           at == In(t, {delim})
           T == {i \in 0 .. Len(t) : SplitState(t, at, i, f[i])}
<1>1. Len(t) \in Nat /\ Places(at, Len(t)) /\ Cardinality(at) \in Nat
  BY TokensIs, RankType
<1>2. SplitRun(delim, t, Len(t), f)
  BY <1>1, SplitRunExists
<1>3. Split(delim, t) =
        IF f[Len(t)].inToken THEN Append(f[Len(t)].result, From(t, f[Len(t)].begin))
        ELSE f[Len(t)].result
  BY DEF Split, SplitRun
<1> HIDE DEF f
<1>4. \A i \in 0 .. Len(t) :
        f[i] = IF i = 0 THEN [result |-> <<>>, begin |-> 0, inToken |-> FALSE]
               ELSE SplitStep(delim, t, f[i - 1], i)
  BY <1>2 DEF SplitRun
<1>5. 0 \in T
  <2>1. Rank(at, 0) = 0 /\ CutOf(t, at, 0) = 0
    BY <1>1, RankEnds DEF CutOf
  <2>2. FirstTokens(t, at, 0) = <<>>
    BY DEF FirstTokens
  <2>3. f[0].result = <<>> /\ f[0].inToken = FALSE
    BY <1>1, <1>4
  <2>4. SplitState(t, at, 0, f[0])
    BY <2>1, <2>2, <2>3 DEF SplitState
  <2> QED
    BY <1>1, <2>4
<1>6. ASSUME NEW i \in 1 .. Len(t), i - 1 \in T PROVE i \in T
  <2>1. SplitState(t, at, i - 1, f[i - 1])
    BY <1>6
  <2>2. SplitState(t, at, i, SplitStep(delim, t, f[i - 1], i))
    BY <2>1, SplitStepIs
  <2>3. f[i] = SplitStep(delim, t, f[i - 1], i)
    BY <1>1, <1>4
  <2> QED
    BY <1>1, <2>2, <2>3
<1> HIDE DEF T
<1>7. Len(t) \in T
  <2>1. \A i \in 1 .. Len(t) : i - 1 \in T => i \in T
    BY <1>6
  <2>2. \A i \in 0 .. Len(t) : i \in T
    BY <1>1, <1>5, <2>1, InductionUpTo
  <2> QED
    BY <1>1, <2>2
<1>8. PICK s : s = f[Len(t)]
  OBVIOUS
<1>9. PICK n, c : n = Cardinality(at) /\ c = CutOf(t, at, n)
  OBVIOUS
<1>10. /\ s.result = FirstTokens(t, at, n)
       /\ c = Len(t) => s.inToken = FALSE
       /\ c < Len(t) => s.inToken = TRUE /\ s.begin = c + 1
  <2>1. Rank(at, Len(t)) = n
    BY <1>1, <1>9, RankEnds
  <2>2. SplitState(t, at, Len(t), s)
    BY <1>7, <1>8 DEF T
  <2> QED
    BY <1>9, <2>1, <2>2 DEF SplitState
<1>11. c \in 0 .. Len(t)
  BY <1>1, <1>9, CutsOrdered
<1>12. TokenOf(t, at, n + 1) = SubSeq(t, c + 1, Len(t))
  <2>1. CutOf(t, at, n + 1) = Len(t) + 1
    BY <1>1, <1>9 DEF CutOf, End
  <2>2. (n + 1) - 1 = n /\ (Len(t) + 1) - 1 = Len(t)
    BY <1>1, <1>9
  <2> QED
    BY <1>9, <2>1, <2>2 DEF TokenOf
<1>13. PICK tokens : tokens = FirstTokens(t, at, n + 1)
  OBVIOUS
<1>14. /\ Len(tokens) = n + 1 /\ tokens[n + 1] = TokenOf(t, at, n + 1)
       /\ SubSeq(tokens, 1, n) = FirstTokens(t, at, n)
       /\ Append(FirstTokens(t, at, n), TokenOf(t, at, n + 1)) = tokens
  <2>1. n \in 0 .. Cardinality(at)
    BY <1>1, <1>9
  <2> HIDE DEF at
  <2>2. /\ Len(tokens) = n + 1 /\ tokens[n + 1] = TokenOf(t, at, n + 1)
        /\ SubSeq(tokens, 1, n) = FirstTokens(t, at, n)
    BY <1>1, <1>13, <2>1, FirstTokensIs, SMTT(30)
  <2> QED
    BY <1>1, <1>13, <2>1, <2>2, FirstTokensStep
<1>15. TokensButEmptyLast(t, {delim}) =
         IF TokenOf(t, at, n + 1) = <<>> THEN FirstTokens(t, at, n) ELSE tokens
  <2>1. Tokens(t, {delim}) = tokens
    BY <1>9, <1>13, TokensIs
  <2>2. Len(tokens) - 1 = n
    BY <1>1, <1>9, <1>14
  <2> QED
    BY <1>14, <2>1, <2>2 DEF TokensButEmptyLast
<1>16. CASE c = Len(t)
  <2>1. TokenOf(t, at, n + 1) = <<>>
    BY <1>1, <1>12, <1>16, SubSeqEmpty
  <2> QED
    BY <1>3, <1>8, <1>10, <1>15, <1>16, <2>1
<1>17. CASE c < Len(t)
  <2>1. c + 1 \in 1 .. Len(t) + 1 /\ Len(t) \in 0 .. Len(t)
    BY <1>1, <1>11
  <2>2. Len(TokenOf(t, at, n + 1)) = Len(t) - c
    BY <1>1, <1>11, <1>12, <1>17, <2>1, PartIs
  <2>3. TokenOf(t, at, n + 1) # <<>>
    BY <1>1, <1>11, <1>17, <2>2
  <2>4. Split(delim, t) = Append(FirstTokens(t, at, n), SubSeq(t, c + 1, Len(t)))
    BY <1>3, <1>8, <1>10, <1>17 DEF From
  <2> QED
    BY <1>12, <1>14, <1>15, <2>3, <2>4
<1> QED
  BY <1>1, <1>11, <1>16, <1>17

-----------------------------------------------------------------------------
(* Splitting at the next delimiter *)

\* The delimiters from p on, the first of which ends the token that p is in.
LEMMA NextCut ==
  ASSUME NEW t, Len(t) \in Nat, NEW at, Places(at, Len(t)),
         NEW p \in 1 .. Len(t) + 1, NEW r, r = Rank(at, p - 1)
  PROVE  /\ r \in 0 .. Cardinality(at)
         /\ r = Cardinality(at) => {i \in at : i >= p} = {}
         /\ r # Cardinality(at) =>
              /\ {i \in at : i >= p} # {}
              /\ Min({i \in at : i >= p}) = CutOf(t, at, r + 1)
              /\ CutOf(t, at, r + 1) \in p .. Len(t)
<1> DEFINE found == {i \in at : i >= p}
<1>1. Cardinality(at) \in Nat /\ r \in 0 .. Cardinality(at)
  BY RankType
<1>2. \A i \in at : i \in Nat /\ 1 <= i /\ i <= Len(t)
  BY PlaceIs
<1>3. ASSUME NEW i \in found PROVE r < Rank(at, i) /\ Rank(at, i) \in 0 .. Cardinality(at)
  <2>1. i \in at /\ i \in Nat /\ p - 1 \in Nat /\ p - 1 <= i /\ p - 1 < i
    BY <1>2, <1>3
  <2> QED
    BY <2>1, RankMonotone, RankType
<1>4. ASSUME r = Cardinality(at) PROVE found = {}
  <2> SUFFICES ASSUME NEW i \in found PROVE FALSE
    OBVIOUS
  <2>1. r < Rank(at, i) /\ Rank(at, i) \in 0 .. Cardinality(at)
    BY <1>3
  <2> QED
    BY <1>1, <1>4, <2>1
<1>5. ASSUME r # Cardinality(at)
      PROVE  /\ found # {} /\ Min(found) = CutOf(t, at, r + 1)
             /\ CutOf(t, at, r + 1) \in p .. Len(t)
  <2>1. PICK c : c = CutOf(t, at, r + 1)
    OBVIOUS
  <2>2. r + 1 \in 1 .. Cardinality(at)
    BY <1>1, <1>5
  <2>3. c \in at /\ Rank(at, c) = r + 1
    BY <2>1, <2>2, CutIs
  <2>4. c \in Nat /\ c <= Len(t) /\ 1 <= c
    BY <1>2, <2>3
  <2>5. c >= p
    <3> SUFFICES ASSUME ~(c >= p) PROVE FALSE
      OBVIOUS
    <3>1. c <= p - 1 /\ p - 1 \in Nat
      BY <2>4
    <3>2. Rank(at, c) <= Rank(at, p - 1)
      BY <2>4, <3>1, RankMonotone
    <3> QED
      BY <1>1, <2>3, <3>2
  <2>6. ASSUME NEW i \in found PROVE c <= i
    <3> SUFFICES ASSUME ~(c <= i) PROVE FALSE
      OBVIOUS
    <3>1. i \in Nat /\ i <= c /\ i < c
      BY <1>2, <2>4, <2>6
    <3>2. Rank(at, i) < Rank(at, c)
      BY <2>3, <2>4, <3>1, RankMonotone
    <3>3. r < Rank(at, i) /\ Rank(at, i) \in 0 .. Cardinality(at)
      BY <1>3, <2>6
    <3> QED
      BY <1>1, <2>3, <3>2, <3>3
  <2>7. c \in found
    BY <2>3, <2>5
  <2>8. PICK m : m = Min(found)
    OBVIOUS
  <2>9. m \in found /\ \A y \in found : m <= y
    <3>1. found \subseteq Nat /\ found # {}
      BY <1>2, <2>7
    <3> HIDE DEF found
    <3> QED
      BY <2>8, <3>1, MinIs
  <2>10. m <= c /\ c <= m /\ m \in Nat
    BY <1>2, <2>6, <2>7, <2>9
  <2>11. m = c
    BY <2>4, <2>10
  <2> QED
    BY <2>1, <2>4, <2>5, <2>7, <2>8, <2>11
<1> QED
  BY <1>1, <1>4, <1>5

\* What SplitAt's function is at p, for delimiters of one character.
Onwards(t, at, f, p) ==
  IF {i \in at : i >= p} = {} THEN <<From(t, p)>>
  ELSE <<SubSeq(t, p, Min({i \in at : i >= p}) - 1)>> \o
       (IF Min({i \in at : i >= p}) + 1 = End(t) THEN << <<>> >>
        ELSE f[Min({i \in at : i >= p}) + 1])

\* The tokens from p on: the rest of the one p is in, and those behind it.
Rest(t, at, p) ==
  [k \in 1 .. Cardinality(at) + 1 - Rank(at, p - 1) |->
     IF k = 1 THEN SubSeq(t, p, CutOf(t, at, Rank(at, p - 1) + 1) - 1)
     ELSE TokenOf(t, at, Rank(at, p - 1) + k)]

LEMMA RestIs ==
  ASSUME NEW C, NEW t \in Seq(C), NEW at, Places(at, Len(t)),
         NEW g, g = [p \in 1 .. Len(t) + 1 |-> Rest(t, at, p)],
         NEW p \in 1 .. Len(t) + 1
  PROVE  g[p] = Onwards(t, at, g, p)
<1>1. Len(t) \in Nat /\ Cardinality(at) \in Nat
  BY LenProperties, RankType
<1>2. PICK n, r, c : n = Cardinality(at) /\ r = Rank(at, p - 1) /\ c = CutOf(t, at, r + 1)
  OBVIOUS
<1>3. /\ r \in 0 .. n
      /\ r = n => {i \in at : i >= p} = {}
      /\ r # n => /\ {i \in at : i >= p} # {}
                  /\ Min({i \in at : i >= p}) = c
                  /\ c \in p .. Len(t)
  BY <1>1, <1>2, NextCut
<1>4. g[p] = [k \in 1 .. n + 1 - r |-> IF k = 1 THEN SubSeq(t, p, c - 1)
                                       ELSE TokenOf(t, at, r + k)]
  BY <1>2 DEF Rest
<1>5. CASE r = n
  <2>1. c - 1 = Len(t)
    BY <1>1, <1>2, <1>5 DEF CutOf, End
  <2>2. n + 1 - r = 1
    BY <1>1, <1>2, <1>5
  <2>3. g[p] = <<SubSeq(t, p, Len(t))>>
    BY <1>4, <2>1, <2>2
  <2> QED
    BY <1>3, <1>5, <2>3 DEF Onwards, From
<1>6. CASE r # n
  <2>1. r \in Nat /\ n \in Nat /\ r < n /\ c \in 1 .. Len(t) /\ c \in p .. Len(t)
    BY <1>1, <1>2, <1>3, <1>6
  <2>2. Rank(at, c) = r + 1
    <3>1. r + 1 \in 1 .. Cardinality(at)
      BY <1>2, <2>1
    <3> QED
      BY <1>1, <1>2, <3>1, CutIs
  <2> DEFINE e(k) == TokenOf(t, at, r + 1 + k)
             head == SubSeq(t, p, c - 1)
             tail == [k \in 1 .. n - r |-> e(k)]
  <2>3. head \in Seq(C) /\ \A k \in 1 .. n - r : e(k) \in Seq(C)
    <3>1. c - 1 \in 0 .. Len(t)
      BY <1>1, <2>1
    <3>2. \A k \in 1 .. n - r : r + 1 + k \in 1 .. Cardinality(at) + 1
      BY <1>2, <2>1, SMTT(30)
    <3> QED
      BY <3>1, <3>2, PartIs, TokenTyped
  <2>4. g[p] = [k \in 1 .. n - r + 1 |-> IF k = 1 THEN head ELSE e(k - 1)]
    <3>1. n + 1 - r = n - r + 1
      BY <2>1
    <3>2. \A k \in 1 .. n - r + 1 : r + 1 + (k - 1) = r + k
      BY <2>1
    <3> QED
      BY <1>4, <3>1, <3>2
  <2>5. (IF c + 1 = End(t) THEN << <<>> >> ELSE g[c + 1]) = tail
    <3>1. e(1) = SubSeq(t, c + 1, CutOf(t, at, r + 2) - 1)
      <4>1. r + 1 + 1 = r + 2 /\ (r + 2) - 1 = r + 1
        BY <2>1
      <4> QED
        BY <1>2, <4>1 DEF TokenOf
    <3>2. CASE c + 1 = End(t)
      <4>1. c = Len(t)
        BY <1>1, <2>1, <3>2 DEF End
      <4>2. n = r + 1
        BY <1>1, <1>2, <2>2, <4>1, RankEnds
      <4>3. CutOf(t, at, r + 2) = Len(t) + 1
        <5>1. r + 2 = Cardinality(at) + 1 /\ r + 2 # 0
          BY <1>2, <2>1, <4>2
        <5> QED
          BY <5>1 DEF CutOf, End
      <4>4. e(1) = <<>>
        BY <1>1, <3>1, <4>1, <4>3, SubSeqEmpty
      <4>5. n - r = 1
        BY <2>1, <4>2
      <4>6. tail = << <<>> >>
        BY <4>4, <4>5
      <4> QED
        BY <3>2, <4>6
    <3>3. CASE c + 1 # End(t)
      <4>1. c + 1 \in 1 .. Len(t) + 1 /\ (c + 1) - 1 = c
        BY <1>1, <2>1
      <4>2. g[c + 1] = Rest(t, at, c + 1)
        BY <4>1
      <4>3. Rest(t, at, c + 1) =
              [k \in 1 .. n + 1 - (r + 1) |->
                 IF k = 1 THEN SubSeq(t, c + 1, CutOf(t, at, r + 1 + 1) - 1)
                 ELSE e(k)]
        BY <1>2, <2>2, <4>1 DEF Rest
      <4>4. n + 1 - (r + 1) = n - r /\ r + 1 + 1 = r + 2
        BY <2>1
      <4>5. Rest(t, at, c + 1) = [k \in 1 .. n - r |-> IF k = 1 THEN e(1) ELSE e(k)]
        BY <3>1, <4>3, <4>4
      <4>6. [k \in 1 .. n - r |-> IF k = 1 THEN e(1) ELSE e(k)] = tail
        OBVIOUS
      <4> QED
        BY <3>3, <4>2, <4>5, <4>6
    <3> QED
      BY <3>2, <3>3
  <2>6. Onwards(t, at, g, p) = <<head>> \o tail
    BY <1>3, <1>6, <2>5 DEF Onwards
  <2>7. <<head>> \o tail = [k \in 1 .. n - r + 1 |-> IF k = 1 THEN head ELSE e(k - 1)]
    <3> HIDE DEF head, e
    <3>1. n - r \in Nat
      BY <2>1
    <3>2. tail \in Seq(Seq(C)) /\ Len(tail) = n - r
      BY <2>3, <3>1
    <3> QED
      BY <2>3, <3>1, <3>2
  <2> QED
    BY <2>4, <2>6, <2>7
<1> QED
  BY <1>5, <1>6

\* There is one such function.
LEMMA OnwardsUnique ==
  ASSUME NEW C, NEW t \in Seq(C), NEW at, Places(at, Len(t)), NEW f, NEW g,
         \A p \in 1 .. Len(t) + 1 : f[p] = Onwards(t, at, f, p),
         \A p \in 1 .. Len(t) + 1 : g[p] = Onwards(t, at, g, p)
  PROVE  \A p \in 1 .. Len(t) + 1 : f[p] = g[p]
<1> DEFINE Differ == {p \in 1 .. Len(t) + 1 : f[p] # g[p]}
<1>1. Len(t) \in Nat /\ Cardinality(at) \in Nat
  BY LenProperties, RankType
<1>2. ASSUME Differ # {} PROVE FALSE
  <2>1. Len(t) + 1 \in Nat /\ Differ \subseteq 0 .. Len(t) + 1
    BY <1>1
  <2>2. PICK p : p = Max(Differ)
    OBVIOUS
  <2>3. p \in Differ /\ \A y \in Differ : y <= p
    <3> HIDE DEF Differ
    <3> QED
      BY <1>2, <2>1, <2>2, MaxIs
  <2>4. PICK found : found = {i \in at : i >= p}
    OBVIOUS
  <2>5. p \in 1 .. Len(t) + 1 /\ f[p] # g[p]
    BY <2>3
  <2>6. found # {} => Min(found) \in p .. Len(t)
    <3>1. PICK r : r = Rank(at, p - 1)
      OBVIOUS
    <3> QED
      BY <1>1, <2>4, <2>5, <3>1, NextCut
  <2>7. ASSUME found # {}, Min(found) + 1 # End(t)
        PROVE  f[Min(found) + 1] = g[Min(found) + 1]
    <3>1. PICK m : m = Min(found) + 1
      OBVIOUS
    <3>2. m \in 1 .. Len(t) + 1 /\ ~(m <= p)
      BY <1>1, <2>5, <2>6, <2>7, <3>1
    <3> QED
      BY <2>3, <3>1, <3>2
  <2>8. Onwards(t, at, f, p) = Onwards(t, at, g, p)
    BY <2>4, <2>7 DEF Onwards
  <2> QED
    BY <2>5, <2>8
<1> QED
  BY <1>2

LEMMA SplitAtIs ==
  ASSUME NEW C, NEW t \in Seq(C), NEW at, Places(at, Len(t))
  PROVE  SplitAt(t, 1, at) = FirstTokens(t, at, Cardinality(at) + 1)
<1> DEFINE Solves(h) == h = [p \in 1 .. End(t) |-> Onwards(t, at, h, p)]
           f == CHOOSE h : Solves(h)
           g == [p \in 1 .. Len(t) + 1 |-> Rest(t, at, p)]
<1>1. Len(t) \in Nat /\ Cardinality(at) \in Nat /\ End(t) = Len(t) + 1
  BY LenProperties, RankType DEF End
<1>2. \A p \in 1 .. Len(t) + 1 : g[p] = Onwards(t, at, g, p)
  BY RestIs
<1>3. g = [p \in 1 .. Len(t) + 1 |-> g[p]] /\ g[1] = Rest(t, at, 1)
  BY <1>1
<1>4. SplitAt(t, 1, at) = f[1]
  BY DEF SplitAt, Onwards
<1> HIDE DEF g
<1>5. Solves(g)
  BY <1>1, <1>2, <1>3
<1>6. Solves(f)
  BY <1>5
<1> HIDE DEF f
<1>7. \A p \in 1 .. Len(t) + 1 : f[p] = Onwards(t, at, f, p)
  BY <1>1, <1>6
<1>8. f[1] = g[1]
  <2>1. 1 \in 1 .. Len(t) + 1
    BY <1>1
  <2> QED
    BY <1>2, <1>7, <2>1, OnwardsUnique
<1>9. Rest(t, at, 1) = FirstTokens(t, at, Cardinality(at) + 1)
  <2>1. Rank(at, 1 - 1) = 0 /\ CutOf(t, at, 0) = 0
    BY <1>1, RankEnds DEF CutOf
  <2>2. TokenOf(t, at, 1) = SubSeq(t, 1, CutOf(t, at, 1) - 1)
    <3>1. 1 - 1 = 0 /\ 0 + 1 = 1
      OBVIOUS
    <3> QED
      BY <2>1, <3>1 DEF TokenOf
  <2>3. Rest(t, at, 1) =
          [k \in 1 .. Cardinality(at) + 1 - 0 |->
             IF k = 1 THEN SubSeq(t, 1, CutOf(t, at, 0 + 1) - 1)
             ELSE TokenOf(t, at, 0 + k)]
    BY <2>1 DEF Rest
  <2>4. /\ Cardinality(at) + 1 - 0 = Cardinality(at) + 1 /\ 0 + 1 = 1
        /\ \A k \in 1 .. Cardinality(at) + 1 : 0 + k = k
    BY <1>1
  <2>5. Rest(t, at, 1) =
          [k \in 1 .. Cardinality(at) + 1 |->
             IF k = 1 THEN TokenOf(t, at, 1) ELSE TokenOf(t, at, k)]
    BY <2>2, <2>3, <2>4
  <2> QED
    BY <2>5 DEF FirstTokens
<1> QED
  BY <1>3, <1>4, <1>8, <1>9

-----------------------------------------------------------------------------
(* Joining *)

\* The function by which FlattenSeq is defined, up to n.
Flattens(seqs, n, f) ==
  f = [i \in 1 .. n |-> IF i = 1 THEN seqs[i] ELSE f[i - 1] \o seqs[i]]

LEMMA FlattensExists ==
  ASSUME NEW seqs, NEW n \in Nat
  PROVE  \E f : Flattens(seqs, n, f)
<1> DEFINE T == {m \in Nat : ~ \E f : Flattens(seqs, m, f)}
<1>1. ASSUME T # {} PROVE FALSE
  <2>1. PICK d \in T : \A e \in T : ~(e < d)
    <3>1. T \subseteq Nat
      OBVIOUS
    <3> HIDE DEF T
    <3> QED
      BY <1>1, <3>1, SmallestMember
  <2>2. CASE d = 0
    <3> DEFINE f == [i \in 1 .. 0 |-> 0]
    <3>1. Flattens(seqs, 0, f)
      BY DEF Flattens
    <3> QED
      BY <2>1, <2>2, <3>1
  <2>3. CASE d # 0
    <3>1. d - 1 \in Nat /\ d - 1 < d
      BY <2>1, <2>3
    <3>2. PICK f : Flattens(seqs, d - 1, f)
      BY <2>1, <3>1
    <3> DEFINE g == [i \in 1 .. d |-> IF i = 1 THEN seqs[i] ELSE f[i - 1] \o seqs[i]]
    <3>3. \A i \in 1 .. d - 1 : f[i] = IF i = 1 THEN seqs[i] ELSE f[i - 1] \o seqs[i]
      BY <3>2 DEF Flattens
    <3>4. \A i \in 1 .. d - 1 : i \in 1 .. d /\ g[i] = f[i]
      BY <3>1, <3>3
    <3>5. \A i \in 1 .. d : g[i] = IF i = 1 THEN seqs[i] ELSE f[i - 1] \o seqs[i]
      OBVIOUS
    <3>6. g = [i \in 1 .. d |-> g[i]]
      OBVIOUS
    <3> HIDE DEF g
    <3>7. ASSUME NEW i \in 1 .. d, i # 1
          PROVE  f[i - 1] = g[i - 1]
      <4>1. i - 1 \in 1 .. d - 1
        BY <3>1, <3>7
      <4> QED
        BY <3>4, <4>1
    <3>8. \A i \in 1 .. d : g[i] = IF i = 1 THEN seqs[i] ELSE g[i - 1] \o seqs[i]
      BY <3>7, <3>5
    <3>9. Flattens(seqs, d, g)
      BY <3>6, <3>8 DEF Flattens
    <3> QED
      BY <2>1, <3>9
  <2> QED
    BY <2>2, <2>3
<1> QED
  BY <1>1

\* The first i of the sequences, one behind the other.
Prefix(seqs, i) ==
  IF i = 0 THEN <<>> ELSE (CHOOSE f : Flattens(seqs, Len(seqs), f))[i]

LEMMA PrefixStep ==
  ASSUME NEW S, NEW seqs, Len(seqs) \in Nat, NEW i \in 1 .. Len(seqs),
         Prefix(seqs, i - 1) \in Seq(S), seqs[i] \in Seq(S)
  PROVE  /\ Prefix(seqs, i) = Prefix(seqs, i - 1) \o seqs[i]
         /\ Prefix(seqs, i) \in Seq(S)
<1> DEFINE f == CHOOSE g : Flattens(seqs, Len(seqs), g)
<1>1. Flattens(seqs, Len(seqs), f)
  BY FlattensExists
<1>2. Prefix(seqs, i) = f[i] /\ (i # 1 => Prefix(seqs, i - 1) = f[i - 1])
  BY DEF Prefix
<1> HIDE DEF f
<1>3. f[i] = IF i = 1 THEN seqs[i] ELSE f[i - 1] \o seqs[i]
  BY <1>1 DEF Flattens
<1>4. i = 1 => Prefix(seqs, i - 1) = <<>>
  BY DEF Prefix
<1>5. <<>> \o seqs[i] = seqs[i]
  BY ConcatEmptySeq
<1>6. Prefix(seqs, i) = Prefix(seqs, i - 1) \o seqs[i]
  BY <1>2, <1>3, <1>4, <1>5
<1>7. Prefix(seqs, i - 1) \o seqs[i] \in Seq(S)
  BY ConcatProperties
<1> QED
  BY <1>6, <1>7

LEMMA PrefixAll ==
  ASSUME NEW seqs, Len(seqs) \in Nat \ {0}
  PROVE  FlattenSeq(seqs) = Prefix(seqs, Len(seqs))
<1>1. FlattenSeq(seqs) = (CHOOSE f : Flattens(seqs, Len(seqs), f))[Len(seqs)]
  BY DEF FlattenSeq, Flattens
<1> QED
  BY <1>1 DEF Prefix

\* What is cut at some of the separators and joined with them is whole again.
LEMMA JoinIs ==
  ASSUME NEW C, NEW t \in Seq(C), NEW sep, NEW at, Places(at, Len(t)),
         \A i \in at : t[i] = sep
  PROVE  Join(sep, FirstTokens(t, at, Cardinality(at) + 1)) = t
<1>1. PICK n : n = Cardinality(at)
  OBVIOUS
<1>2. Len(t) \in Nat /\ n \in Nat
  BY <1>1, LenProperties, RankType
<1>3. PICK parts : parts = FirstTokens(t, at, n + 1)
  OBVIOUS
<1>4. /\ Len(parts) = n + 1
      /\ \A j \in 1 .. n + 1 : parts[j] = TokenOf(t, at, j)
      /\ \A j \in 1 .. n + 1 : parts[j] \in Seq(C)
  <2>1. n \in 0 .. Cardinality(at)
    BY <1>1, <1>2
  <2>2. Len(parts) = n + 1
    BY <1>3, <2>1, FirstTokensIs
  <2>3. \A j \in 1 .. n + 1 : parts[j] = TokenOf(t, at, j)
    BY <1>3 DEF FirstTokens
  <2> QED
    BY <1>1, <2>2, <2>3, TokenTyped
<1> DEFINE seqs == [i \in 1 .. n |-> <<sep>> \o parts[i + 1]]
           T == {i \in 0 .. n :
                   /\ Prefix(seqs, i) \in Seq(C)
                   /\ parts[1] \o Prefix(seqs, i) = SubSeq(t, 1, CutOf(t, at, i + 1) - 1)}
<1>5. Len(seqs) = n /\ \A i \in 1 .. n : seqs[i] = <<sep>> \o parts[i + 1]
  BY <1>2
<1>6. Join(sep, parts) = parts[1] \o FlattenSeq(seqs)
  <2>1. Len(parts) - 1 = n
    BY <1>2, <1>4
  <2>2. parts # <<>>
    BY <1>2, <1>4
  <2> QED
    BY <2>1, <2>2 DEF Join
<1>7. \A i \in 1 .. n : CutOf(t, at, i) \in at
  BY <1>1, <1>2, CutIs
<1>8. parts[1] = SubSeq(t, 1, CutOf(t, at, 1) - 1) /\ parts[1] \in Seq(C)
  <2>1. CutOf(t, at, 0) = 0
    BY DEF CutOf
  <2> QED
    BY <1>2, <1>4, <2>1 DEF TokenOf
<1>9. FlattenSeq(seqs) = Prefix(seqs, n)
  <2>1. CASE n = 0
    BY <1>5, <2>1 DEF FlattenSeq, Prefix
  <2>2. CASE n # 0
    BY <1>2, <1>5, <2>2, PrefixAll
  <2> QED
    BY <2>1, <2>2
<1> HIDE DEF seqs
<1>10. 0 \in T
  <2>1. Prefix(seqs, 0) = <<>>
    BY DEF Prefix
  <2>2. parts[1] \o <<>> = parts[1] /\ <<>> \in Seq(C)
    BY <1>8, ConcatEmptySeq, EmptySeq
  <2>3. 0 \in 0 .. n /\ 0 + 1 = 1
    BY <1>2
  <2> QED
    BY <1>8, <2>1, <2>2, <2>3
<1>11. ASSUME NEW i \in 1 .. n, i - 1 \in T PROVE i \in T
  <2>1. PICK b, d : b = CutOf(t, at, i) /\ d = CutOf(t, at, i + 1)
    OBVIOUS
  <2>2. b \in 1 .. Len(t) /\ d \in 1 .. Len(t) + 1 /\ b < d /\ t[b] = sep
    <3>1. i \in 0 .. Cardinality(at)
      BY <1>1, <1>2
    <3>2. d \in 1 .. Len(t) + 1 /\ b < d
      BY <1>2, <2>1, <3>1, CutsOrdered
    <3>3. b \in at
      BY <1>7, <2>1
    <3> QED
      BY <1>2, <3>2, <3>3, PlaceIs
  <2>3. b - 1 \in 0 .. Len(t) /\ d - 1 \in b .. Len(t)
    BY <1>2, <2>2
  <2>4. /\ Prefix(seqs, i - 1) \in Seq(C)
        /\ parts[1] \o Prefix(seqs, i - 1) = SubSeq(t, 1, b - 1)
    <3>1. (i - 1) + 1 = i
      BY <1>2
    <3> QED
      BY <1>11, <2>1, <3>1
  <2>5. parts[i + 1] = SubSeq(t, b + 1, d - 1) /\ parts[i + 1] \in Seq(C)
    <3>1. i + 1 \in 1 .. n + 1 /\ (i + 1) - 1 = i
      BY <1>2
    <3> QED
      BY <1>4, <2>1, <3>1 DEF TokenOf
  <2>6. seqs[i] = SubSeq(t, b, d - 1)
    <3>1. SubSeq(t, b, d - 1) = <<t[b]>> \o SubSeq(t, b + 1, d - 1)
      BY <1>2, <2>2, <2>3, SubSeqRecursiveFirst
    <3> QED
      BY <1>5, <2>2, <2>5, <3>1
  <2>7. seqs[i] \in Seq(C)
    <3>1. b \in 1 .. Len(t) + 1 /\ d - 1 \in 0 .. Len(t)
      BY <1>2, <2>2
    <3> QED
      BY <2>6, <3>1, PartIs
  <2>8. /\ Prefix(seqs, i) = Prefix(seqs, i - 1) \o seqs[i]
        /\ Prefix(seqs, i) \in Seq(C)
    BY <1>2, <1>5, <2>4, <2>7, PrefixStep
  <2>9. parts[1] \o Prefix(seqs, i) = SubSeq(t, 1, b - 1) \o SubSeq(t, b, d - 1)
    <3>1. PICK x, y, z : x = parts[1] /\ y = Prefix(seqs, i - 1) /\ z = seqs[i]
      OBVIOUS
    <3>2. (x \o y) \o z = x \o (y \o z)
      <4>1. x \in Seq(C) /\ y \in Seq(C) /\ z \in Seq(C)
        BY <1>8, <2>4, <2>7, <3>1
      <4> QED
        BY <4>1, ConcatAssociative, SMTT(30)
    <3> QED
      BY <2>4, <2>6, <2>8, <3>1, <3>2
  <2>10. SubSeq(t, 1, b - 1) \o SubSeq(t, b, d - 1) = SubSeq(t, 1, d - 1)
    <3>1. PICK k : k = b - 1
      OBVIOUS
    <3>2. /\ 1 \in 1 .. Len(t) + 1 /\ k \in 1 - 1 .. Len(t)
          /\ d - 1 \in k .. Len(t) /\ k + 1 = b
      BY <1>2, <2>2, <2>3, <3>1
    <3>3. SubSeq(t, 1, k) \o SubSeq(t, k + 1, d - 1) = SubSeq(t, 1, d - 1)
      BY <3>2, ConcatAdjacentSubSeq
    <3> QED
      BY <3>1, <3>2, <3>3
  <2>11. i \in 0 .. n
    BY <1>2
  <2> QED
    BY <2>1, <2>8, <2>9, <2>10, <2>11
<1> HIDE DEF T
<1>12. n \in T
  <2>1. \A i \in 1 .. n : i - 1 \in T => i \in T
    BY <1>11
  <2>2. \A i \in 0 .. n : i \in T
    BY <1>2, <1>10, <2>1, InductionUpTo
  <2> QED
    BY <1>2, <2>2
<1>13. parts[1] \o Prefix(seqs, n) = t
  <2>1. CutOf(t, at, n + 1) - 1 = Len(t)
    BY <1>1, <1>2 DEF CutOf, End
  <2>2. SubSeq(t, 1, Len(t)) = t
    BY SubSeqFull
  <2> QED
    BY <1>12, <2>1, <2>2 DEF T
<1> QED
  BY <1>1, <1>3, <1>6, <1>9, <1>13

\* Without a delimiter there is one token; with one delimiter there are two.
LEMMA UncutIs ==
  ASSUME NEW C, NEW t \in Seq(C)
  PROVE  Cardinality({}) = 0 /\ Places({}, Len(t)) /\ FirstTokens(t, {}, 1) = <<t>>
<1>1. Cardinality({}) = 0 /\ Len(t) \in Nat
  BY FS_EmptySet, LenProperties
<1>2. CutOf(t, {}, 0) = 0 /\ CutOf(t, {}, 1) = Len(t) + 1
  BY <1>1 DEF CutOf, End
<1>3. TokenOf(t, {}, 1) = t
  <2>1. 1 - 1 = 0 /\ 0 + 1 = 1 /\ (Len(t) + 1) - 1 = Len(t)
    BY <1>1
  <2>2. SubSeq(t, 1, Len(t)) = t
    BY SubSeqFull
  <2> QED
    BY <1>2, <2>1, <2>2 DEF TokenOf
<1>4. FirstTokens(t, {}, 1) = <<t>>
  BY <1>3 DEF FirstTokens
<1> QED
  BY <1>1, <1>4 DEF Places

LEMMA OneCutIs ==
  ASSUME NEW C, NEW t \in Seq(C), NEW p \in 1 .. Len(t)
  PROVE  /\ Cardinality({p}) = 1 /\ Places({p}, Len(t))
         /\ FirstTokens(t, {p}, 2) = <<SubSeq(t, 1, p - 1), SubSeq(t, p + 1, Len(t))>>
<1>1. Len(t) \in Nat
  BY LenProperties
<1>2. Cardinality({p}) = 1
  BY FS_Singleton
<1>3. Places({p}, Len(t))
  BY <1>1 DEF Places
<1>4. CutOf(t, {p}, 0) = 0 /\ CutOf(t, {p}, 2) = Len(t) + 1
  BY <1>1, <1>2 DEF CutOf, End
<1>5. CutOf(t, {p}, 1) = p
  <2>1. p \in {p}
    OBVIOUS
  <2>2. Rank({p}, p) \in 1 .. 1 /\ CutOf(t, {p}, Rank({p}, p)) = p
    BY <1>1, <1>2, <1>3, <2>1, CutAt
  <2> QED
    BY <2>2
<1>6. /\ 1 - 1 = 0 /\ 0 + 1 = 1 /\ 2 - 1 = 1
      /\ (Len(t) + 1) - 1 = Len(t)
  BY <1>1
<1>7. TokenOf(t, {p}, 1) = SubSeq(t, 1, p - 1)
  BY <1>4, <1>5, <1>6 DEF TokenOf
<1>8. TokenOf(t, {p}, 2) = SubSeq(t, p + 1, Len(t))
  BY <1>4, <1>5, <1>6 DEF TokenOf
<1>9. FirstTokens(t, {p}, 2) = <<TokenOf(t, {p}, 1), TokenOf(t, {p}, 2)>>
  <2> DEFINE e(j) == TokenOf(t, {p}, j)
  <2>1. FirstTokens(t, {p}, 2) = [j \in 1 .. 2 |-> e(j)]
    BY DEF FirstTokens
  <2> HIDE DEF e
  <2>2. [j \in 1 .. 2 |-> e(j)] = <<e(1), e(2)>>
    OBVIOUS
  <2> QED
    BY <2>1, <2>2 DEF e
<1> QED
  BY <1>2, <1>3, <1>7, <1>8, <1>9

LEMMA SplitFirstOccurenceIs ==
  ASSUME NEW C, NEW t \in Seq(C), NEW delim
  PROVE  /\ SplitFirstOccurence(delim, t)[1] = Tokens(t, {delim})[1]
         /\ Join(delim, SplitFirstOccurence(delim, t)) = t
<1>1. PICK at : at = In(t, {delim})
  OBVIOUS
<1>2. Len(t) \in Nat /\ Places(at, Len(t)) /\ Cardinality(at) \in Nat
  BY <1>1, TokensIs, RankType
<1>3. \A i \in at : t[i] = delim
  BY <1>1 DEF In
<1>4. Tokens(t, {delim})[1] = TokenOf(t, at, 1)
  <2>1. Tokens(t, {delim}) = FirstTokens(t, at, Cardinality(at) + 1)
    BY <1>1, TokensIs
  <2>2. 1 \in 1 .. Cardinality(at) + 1
    BY <1>2
  <2> QED
    BY <2>1, <2>2 DEF FirstTokens
<1>5. PICK pos : pos = FirstFrom(t, 1, at)
  OBVIOUS
<1>6. SplitFirstOccurence(delim, t) =
        IF pos = Len(t) + 1 THEN <<t>>
        ELSE <<SubSeq(t, 1, pos - 1), SubSeq(t, pos + 1, Len(t))>>
  BY <1>1, <1>5 DEF SplitFirstOccurence, From, End
<1>7. CASE at = {}
  <2>1. pos = Len(t) + 1
    BY <1>5, <1>7 DEF FirstFrom, End
  <2>2. SplitFirstOccurence(delim, t) = <<t>>
    BY <1>6, <2>1
  <2>3. Cardinality(at) = 0 /\ FirstTokens(t, at, 1) = <<t>>
    BY <1>7, UncutIs
  <2>4. TokenOf(t, at, 1) = t
    BY <2>3 DEF FirstTokens
  <2>5. Join(delim, FirstTokens(t, at, Cardinality(at) + 1)) = t
    BY <1>2, <1>3, JoinIs
  <2>6. Cardinality(at) + 1 = 1
    BY <2>3
  <2> QED
    BY <1>4, <2>2, <2>3, <2>4, <2>5, <2>6
<1>8. CASE at # {}
  <2>1. PICK r : r = Rank(at, 1 - 1)
    OBVIOUS
  <2>2. r = 0
    BY <1>2, <2>1, RankEnds
  <2>3. r # Cardinality(at)
    <3>1. IsFiniteSet(at)
      BY <1>2, RankType
    <3> QED
      BY <1>8, <2>2, <3>1, FS_EmptySet
  <2>4. {i \in at : i >= 1} = at /\ {i \in 1 .. Len(t) : i \in at} = at
    <3>1. \A i \in at : i \in 1 .. Len(t) /\ i >= 1
      BY <1>2, PlaceIs
    <3> QED
      BY <3>1
  <2>5. Min(at) = CutOf(t, at, 1) /\ CutOf(t, at, 1) \in 1 .. Len(t)
    <3>1. 1 \in 1 .. Len(t) + 1
      BY <1>2
    <3>2. /\ Min({i \in at : i >= 1}) = CutOf(t, at, r + 1)
          /\ CutOf(t, at, r + 1) \in 1 .. Len(t)
      BY <1>2, <2>1, <2>3, <3>1, NextCut
    <3>3. r + 1 = 1
      BY <2>2
    <3> QED
      BY <2>4, <3>2, <3>3
  <2>6. pos = Min(at)
    BY <1>5, <1>8, <2>4 DEF FirstFrom
  <2>7. pos \in 1 .. Len(t) /\ pos \in at
    <3>1. at \subseteq Nat
      BY <1>2, PlaceIs
    <3> QED
      BY <1>8, <2>5, <2>6, <3>1, MinIs
  <2>8. SplitFirstOccurence(delim, t) =
          <<SubSeq(t, 1, pos - 1), SubSeq(t, pos + 1, Len(t))>>
    BY <1>2, <1>6, <2>7
  <2>9. TokenOf(t, at, 1) = SubSeq(t, 1, pos - 1)
    <3>1. CutOf(t, at, 0) = 0 /\ 1 - 1 = 0 /\ 0 + 1 = 1
      BY DEF CutOf
    <3> QED
      BY <2>5, <2>6, <3>1 DEF TokenOf
  <2>10. Join(delim, SplitFirstOccurence(delim, t)) = t
    <3>1. /\ Cardinality({pos}) = 1 /\ Places({pos}, Len(t))
          /\ FirstTokens(t, {pos}, 2) = SplitFirstOccurence(delim, t)
      BY <2>7, <2>8, OneCutIs
    <3>2. \A i \in {pos} : t[i] = delim
      BY <1>3, <2>7
    <3>3. Join(delim, FirstTokens(t, {pos}, Cardinality({pos}) + 1)) = t
      BY <3>1, <3>2, JoinIs
    <3>4. Cardinality({pos}) + 1 = 2
      BY <3>1
    <3> QED
      BY <3>1, <3>3, <3>4
  <2>11. SplitFirstOccurence(delim, t)[1] = SubSeq(t, 1, pos - 1)
    <3>1. PICK a, b : a = SubSeq(t, 1, pos - 1) /\ b = SubSeq(t, pos + 1, Len(t))
      OBVIOUS
    <3>2. <<a, b>>[1] = a
      OBVIOUS
    <3> QED
      BY <2>8, <3>1, <3>2
  <2> QED
    BY <1>4, <2>9, <2>10, <2>11
<1> QED
  BY <1>7, <1>8

LEMMA MultiDelimitersIs ==
  ASSUME NEW C, NEW t \in Seq(C), NEW D, D # {}
  PROVE  StringViewSplitMultiDelimiters(t, D) = Tokens(t, D)
<1>1. PICK at : at = In(t, D)
  OBVIOUS
<1>2. Places(at, Len(t)) /\ Tokens(t, D) = FirstTokens(t, at, Cardinality(at) + 1)
  BY <1>1, TokensIs
<1>3. CASE t = <<>>
  <2>1. at = {}
    BY <1>1, <1>3 DEF In
  <2>2. Cardinality(at) = 0 /\ FirstTokens(t, at, 1) = <<t>>
    BY <2>1, UncutIs
  <2>3. Cardinality(at) + 1 = 1
    BY <2>2
  <2> QED
    BY <1>2, <1>3, <2>2, <2>3 DEF StringViewSplitMultiDelimiters
<1>4. CASE t # <<>>
  BY <1>1, <1>2, <1>4, SplitAtIs DEF StringViewSplitMultiDelimiters
<1> QED
  BY <1>3, <1>4

LEMMA ByStringIs ==
  ASSUME NEW C, NEW t \in Seq(C), NEW delim
  PROVE  StringViewSplitByString(t, <<delim>>) = Tokens(t, {delim})
<1>1. Len(t) \in Nat /\ DOMAIN t = 1 .. Len(t)
  BY LenProperties
<1>2. PICK starts : starts = {i \in 1 .. End(t) - Len(<<delim>>) :
                                SubSeq(t, i, i + Len(<<delim>>) - 1) = <<delim>>}
  OBVIOUS
<1>3. Len(<<delim>>) = 1 /\ <<delim>> # <<>>
  OBVIOUS
<1>4. ASSUME NEW i \in 1 .. Len(t)
      PROVE  SubSeq(t, i, i + Len(<<delim>>) - 1) = <<delim>> <=> t[i] = delim
  <2>1. i + Len(<<delim>>) - 1 = i
    BY <1>3
  <2>2. SubSeq(t, i, i) = <<t[i]>>
    <3>1. i \in 1 .. Len(t) + 1 /\ i \in 0 .. Len(t)
      BY <1>1
    <3>2. /\ SubSeq(t, i, i) \in Seq(C) /\ Len(SubSeq(t, i, i)) = 1
          /\ SubSeq(t, i, i)[1] = t[i]
      BY <1>1, <3>1, PartIs
    <3>3. t[i] \in C /\ <<t[i]>> \in Seq(C) /\ Len(<<t[i]>>) = 1 /\ <<t[i]>>[1] = t[i]
      BY ElementOfSeq
    <3>4. \A k \in 1 .. 1 : SubSeq(t, i, i)[k] = <<t[i]>>[k]
      BY <3>2, <3>3
    <3> QED
      BY <3>2, <3>3, <3>4, SeqEqual
  <2> QED
    BY <2>1, <2>2
<1>5. starts = In(t, {delim})
  <2>1. End(t) - Len(<<delim>>) = Len(t)
    BY <1>1, <1>3 DEF End
  <2> QED
    BY <1>1, <1>2, <1>4, <2>1 DEF In
<1>6. StringViewSplitByString(t, <<delim>>) =
        IF t = <<>> THEN << <<>> >> ELSE SplitAt(t, 1, starts)
  BY <1>2, <1>3 DEF StringViewSplitByString
<1>7. StringViewSplitMultiDelimiters(t, {delim}) =
        IF t = <<>> THEN << <<>> >> ELSE SplitAt(t, 1, starts)
  BY <1>5 DEF StringViewSplitMultiDelimiters
<1> QED
  BY <1>6, <1>7, MultiDelimitersIs

LEMMA SplitsAgreeTyped ==
  ASSUME text \in Seq(Characters)
  PROVE  SplitsAgree
<1>1. PICK tokens : tokens = Tokens(text, {Delim})
  OBVIOUS
<1>2. StringViewSplit(text, Delim) = tokens
  BY <1>1, StringViewSplitIs
<1>3. StringViewSplitByString(text, <<Delim>>) = tokens
  BY <1>1, ByStringIs
<1>4. /\ StringViewSplitMultiDelimiters(text, {Delim}) = tokens
      /\ StringViewSplitMultiDelimiters(text, {Delim} \cup Spaces) =
           Tokens(text, {Delim} \cup Spaces)
  <2>1. {Delim} # {} /\ {Delim} \cup Spaces # {}
    OBVIOUS
  <2> QED
    BY <1>1, <2>1, MultiDelimitersIs
<1>5. Split(Delim, text) = TokensButEmptyLast(text, {Delim})
  BY SplitIs
<1>6. /\ SplitFirstOccurence(Delim, text)[1] = tokens[1]
      /\ Join(Delim, SplitFirstOccurence(Delim, text)) = text
  BY <1>1, SplitFirstOccurenceIs
<1>7. Join(Delim, tokens) = text
  <2>1. PICK at : at = In(text, {Delim})
    OBVIOUS
  <2>2. Places(at, Len(text)) /\ tokens = FirstTokens(text, at, Cardinality(at) + 1)
    BY <1>1, <2>1, TokensIs
  <2>3. \A i \in at : text[i] = Delim
    BY <2>1 DEF In
  <2> QED
    BY <2>2, <2>3, JoinIs
<1> QED
  BY <1>1, <1>2, <1>3, <1>4, <1>5, <1>6, <1>7 DEF SplitsAgree

\* Whichever of the functions of StringUtils and StringViewUtils a caller
\* takes, splitting returns the texts between the delimiters, joining undoes
\* it and trimming takes off the spaces at both ends: for texts of any length
\* over any characters.
THEOREM TextFunctionsAlwaysAgree == Spec => []TextFunctionsAgree
<1>1. text \in Seq(Characters) => TextFunctionsAgree
  BY SplitsAgreeTyped, TrimsAgreeTyped DEF TextFunctionsAgree
<1> QED
  BY <1>1, TextTyped, PTL

-----------------------------------------------------------------------------
(* Floats *)

\* What toNormalNumber makes of a text that is to be a float.
NormalFloat(t) == ToNormalNumber("float", t)

LEMMA NormalFloatIs ==
  ASSUME NEW t
  PROVE  NormalFloat(t) =
           IF /\ FromCharsFloat(t).ec = "ok"
              /\ RoundToFloat(FromCharsFloat(t).value) # NotNormal
           THEN Returns(RoundToFloat(FromCharsFloat(t).value)) ELSE Throws
<1>1. PICK r, f : r = FromCharsFloat(t) /\ f = RoundToFloat(r.value)
  OBVIOUS
<1>2. NormalFloat(t) = IF RoundedToFloat(r).ec = "ok" /\ RoundedToFloat(r).value # NotNormal
                       THEN Returns(RoundedToFloat(r).value) ELSE Throws
  BY <1>1 DEF NormalFloat, ToNormalNumber, FromChars, IsNormal
<1>3. CASE r.ec # "ok"
  BY <1>1, <1>2, <1>3 DEF RoundedToFloat
<1>4. CASE r.ec = "ok" /\ f = NotNormal
  BY <1>1, <1>2, <1>4 DEF RoundedToFloat, OutOfRange, Parsed
<1>5. CASE r.ec = "ok" /\ f # NotNormal
  BY <1>1, <1>2, <1>5 DEF RoundedToFloat, Parsed
<1> QED
  BY <1>3, <1>4, <1>5

\* A text that goes on behind u, but not with what could belong to a number.
GoesOn(u, w) ==
  /\ Len(u) <= Len(w)
  /\ \A i \in 1 .. Len(u) : w[i] = u[i]
  /\ Len(u) < Len(w) => w[Len(u) + 1] \notin Numeric \cup {NaN}

LEMMA SameDigitsEnd ==
  ASSUME NEW C, NEW u \in Seq(C), NEW w \in Seq(C), GoesOn(u, w),
         NEW p \in 1 .. Len(u) + 1
  PROVE  DigitsEnd(w, p) = DigitsEnd(u, p)
<1>1. Len(u) \in Nat /\ Len(w) \in Nat /\ Len(u) <= Len(w)
  BY LenProperties DEF GoesOn
<1>2. PICK e, d : e = DigitsEnd(u, p) /\ d = DigitsEnd(w, p)
  OBVIOUS
<1>3. /\ e \in p .. Len(u) + 1
      /\ \A i \in p .. e - 1 : u[i] \in DOMAIN DigitValue
      /\ e <= Len(u) => u[e] \notin DOMAIN DigitValue
  BY <1>2, DigitsEndIs
<1>4. /\ d \in p .. Len(w) + 1
      /\ \A i \in p .. d - 1 : w[i] \in DOMAIN DigitValue
      /\ d <= Len(w) => w[d] \notin DOMAIN DigitValue
  <2>1. p \in 1 .. Len(w) + 1
    BY <1>1
  <2> QED
    BY <1>2, <2>1, DigitsEndIs
<1>5. \A i \in 1 .. Len(u) : w[i] = u[i]
  BY DEF GoesOn
<1>6. Len(u) < Len(w) => w[Len(u) + 1] \notin DOMAIN DigitValue
  BY DEF GoesOn, Numeric
<1>7. ~(d < e)
  <2> SUFFICES ASSUME d < e PROVE FALSE
    OBVIOUS
  <2>1. d \in p .. e - 1 /\ d \in 1 .. Len(u) /\ d <= Len(w)
    BY <1>1, <1>3, <1>4
  <2> QED
    BY <1>3, <1>4, <1>5, <2>1
<1>8. ~(e < d)
  <2> SUFFICES ASSUME e < d PROVE FALSE
    OBVIOUS
  <2>1. e \in p .. d - 1 /\ e \in 1 .. Len(w)
    BY <1>1, <1>3, <1>4
  <2>2. w[e] \in DOMAIN DigitValue
    BY <1>4, <2>1
  <2>3. CASE e <= Len(u)
    <3>1. e \in 1 .. Len(u)
      BY <1>1, <2>1, <2>3
    <3> QED
      BY <1>3, <1>5, <2>2, <2>3, <3>1
  <2>4. CASE e = Len(u) + 1
    BY <1>1, <1>6, <2>1, <2>2, <2>4
  <2> QED
    BY <1>1, <1>3, <2>3, <2>4
<1> QED
  BY <1>1, <1>2, <1>3, <1>4, <1>7, <1>8

LEMMA SamePart ==
  ASSUME NEW C, NEW u \in Seq(C), NEW w \in Seq(C), Len(u) <= Len(w),
         \A i \in 1 .. Len(u) : w[i] = u[i],
         NEW a \in 1 .. Len(u) + 1, NEW b \in 0 .. Len(u)
  PROVE  SubSeq(w, a, b) = SubSeq(u, a, b)
<1>1. Len(u) \in Nat /\ Len(w) \in Nat
  BY LenProperties
<1>2. a \in 1 .. Len(w) + 1 /\ b \in 0 .. Len(w)
  BY <1>1
<1>3. PICK x, y : x = SubSeq(w, a, b) /\ y = SubSeq(u, a, b)
  OBVIOUS
<1>4. /\ x \in Seq(C) /\ Len(x) = IF a <= b THEN b - a + 1 ELSE 0
      /\ \A i \in 1 .. b - a + 1 : x[i] = w[a + i - 1]
  BY <1>2, <1>3, PartIs
<1>5. /\ y \in Seq(C) /\ Len(y) = IF a <= b THEN b - a + 1 ELSE 0
      /\ \A i \in 1 .. b - a + 1 : y[i] = u[a + i - 1]
  BY <1>3, PartIs
<1>6. ASSUME NEW i \in 1 .. Len(x) PROVE x[i] = y[i]
  <2>1. i \in 1 .. b - a + 1 /\ a + i - 1 \in 1 .. Len(u)
    BY <1>1, <1>4
  <2> QED
    BY <1>4, <1>5, <2>1
<1>7. x = y
  BY <1>4, <1>5, <1>6, SeqEqual
<1> QED
  BY <1>3, <1>7

LEMMA SameFraction ==
  ASSUME NEW C, NEW u \in Seq(C), NEW w \in Seq(C), GoesOn(u, w), NEW sign,
         NEW start \in 1 .. Len(u) + 1, NEW int, int = DigitsEnd(u, start)
  PROVE  ParseFraction(w, sign, start, int) = ParseFraction(u, sign, start, int)
<1>1. Len(u) \in Nat /\ Len(w) \in Nat /\ Len(u) <= Len(w)
  BY LenProperties DEF GoesOn
<1>2. int \in start .. Len(u) + 1
  BY DigitsEndIs
<1>3. \A i \in 1 .. Len(u) : w[i] = u[i]
  BY DEF GoesOn
<1>4. SubSeq(w, start, int - 1) = SubSeq(u, start, int - 1)
  <2>1. int - 1 \in 0 .. Len(u)
    BY <1>1, <1>2
  <2> QED
    BY <1>1, <1>3, <2>1, SamePart
<1>5. CASE int <= Len(u) /\ u[int] = "."
  <2>1. int <= Len(w) /\ w[int] = "." /\ int + 1 \in 1 .. Len(u) + 1
    BY <1>1, <1>2, <1>3, <1>5
  <2>2. PICK end : end = DigitsEnd(u, int + 1)
    OBVIOUS
  <2>3. DigitsEnd(w, int + 1) = end /\ end \in int + 1 .. Len(u) + 1
    BY <2>1, <2>2, SameDigitsEnd, DigitsEndIs
  <2>4. SubSeq(w, int + 1, end - 1) = SubSeq(u, int + 1, end - 1)
    <3>1. end - 1 \in 0 .. Len(u)
      BY <1>1, <1>2, <2>3
    <3> QED
      BY <1>1, <1>3, <2>1, <3>1, SamePart
  <2> QED
    BY <1>4, <1>5, <2>1, <2>2, <2>3, <2>4 DEF ParseFraction
<1>6. CASE ~(int <= Len(u) /\ u[int] = ".")
  <2>1. ~(int <= Len(w) /\ w[int] = ".")
    <3>1. CASE int <= Len(u)
      <4>1. int \in 1 .. Len(u)
        BY <1>1, <1>2, <3>1
      <4> QED
        BY <1>3, <1>6, <3>1, <4>1
    <3>2. CASE int = Len(u) + 1
      <4>1. Len(u) < Len(w) => w[int] # "."
        BY <3>2 DEF GoesOn, Numeric
      <4> QED
        BY <1>1, <3>2, <4>1
    <3> QED
      BY <1>1, <1>2, <3>1, <3>2
  <2> QED
    BY <1>4, <1>6, <2>1 DEF ParseFraction
<1> QED
  BY <1>5, <1>6

\* fast_float stops where the number does.
LEMMA SameFloat ==
  ASSUME NEW C, NEW u \in Seq(C), NEW w \in Seq(C), GoesOn(u, w), u # <<>>
  PROVE  FromCharsFloat(w) = FromCharsFloat(u)
<1>1. Len(u) \in Nat /\ Len(w) \in Nat /\ Len(u) <= Len(w) /\ Len(u) # 0
  BY LenProperties, EmptySeq DEF GoesOn
<1>2. \A i \in 1 .. Len(u) : w[i] = u[i]
  BY DEF GoesOn
<1>3. w # <<>> /\ w[1] = u[1]
  BY <1>1, <1>2
<1>4. ParseNumberString(w) = ParseNumberString(u)
  <2>1. 1 \in 1 .. Len(u) + 1 /\ 2 \in 1 .. Len(u) + 1
    BY <1>1
  <2>2. DigitsEnd(w, 1) = DigitsEnd(u, 1) /\ DigitsEnd(w, 2) = DigitsEnd(u, 2)
    BY <2>1, SameDigitsEnd
  <2>3. PICK i, j : i = DigitsEnd(u, 1) /\ j = DigitsEnd(u, 2)
    OBVIOUS
  <2>4. /\ ParseFraction(w, 1, 1, i) = ParseFraction(u, 1, 1, i)
        /\ ParseFraction(w, -1, 2, j) = ParseFraction(u, -1, 2, j)
    BY <2>1, <2>3, SameFraction
  <2> QED
    BY <1>3, <2>2, <2>3, <2>4 DEF ParseNumberString
<1>5. ParseInfNan(w) = ParseInfNan(u)
  <2>1. PICK start : start = IF u[1] = "-" THEN 2 ELSE 1
    OBVIOUS
  <2>2. start \in 1 .. Len(u) + 1
    BY <1>1, <2>1
  <2>3. (start <= Len(w) /\ w[start] = NaN) <=> (start <= Len(u) /\ u[start] = NaN)
    <3>1. CASE start <= Len(u)
      BY <1>1, <1>2, <2>2, <3>1
    <3>2. CASE start = Len(u) + 1
      <4>1. Len(u) < Len(w) => w[start] # NaN
        BY <3>2 DEF GoesOn
      <4> QED
        BY <1>1, <3>2, <4>1
    <3> QED
      BY <1>1, <2>2, <3>1, <3>2
  <2> QED
    BY <1>3, <2>1, <2>3 DEF ParseInfNan
<1> QED
  BY <1>3, <1>4, <1>5 DEF FromCharsFloat

\* What does not start like a number is none.
LEMMA NoFloat ==
  ASSUME NEW C, NEW t \in Seq(C), t = <<>> \/ t[1] \notin Numeric \cup {NaN}
  PROVE  NormalFloat(t) = Throws
<1>1. CASE t = <<>>
  <2>1. FromCharsFloat(t).ec # "ok"
    BY <1>1 DEF FromCharsFloat, Invalid
  <2> QED
    BY <2>1, NormalFloatIs
<1>2. CASE t # <<>>
  <2>1. Len(t) \in Nat /\ Len(t) # 0
    BY <1>2, LenProperties, EmptySeq
  <2>2. t[1] \notin DOMAIN DigitValue /\ t[1] # "-" /\ t[1] # "." /\ t[1] # NaN
    BY <1>2 DEF Numeric
  <2>3. DigitsEnd(t, 1) = 1
    <3>1. 1 \in 1 .. Len(t) + 1
      BY <2>1
    <3>2. PICK e : e = DigitsEnd(t, 1)
      OBVIOUS
    <3>3. e \in 1 .. Len(t) + 1 /\ \A i \in 1 .. e - 1 : t[i] \in DOMAIN DigitValue
      BY <3>1, <3>2, DigitsEndIs
    <3>4. e = 1
      <4> SUFFICES ASSUME e # 1 PROVE FALSE
        OBVIOUS
      <4>1. 1 \in 1 .. e - 1
        BY <2>1, <3>3
      <4> QED
        BY <2>2, <3>3, <4>1
    <3> QED
      BY <3>2, <3>4
  <2>4. ParseNumberString(t).ec # "ok"
    <3>1. SubSeq(t, 1, 1 - 1) = <<>>
      BY SubSeqEmpty
    <3> QED
      BY <2>2, <2>3, <3>1 DEF ParseNumberString, ParseFraction, ParsedDecimal, Invalid
  <2>5. ParseInfNan(t).ec # "ok"
    BY <2>2 DEF ParseInfNan, Invalid
  <2>6. FromCharsFloat(t).ec # "ok"
    BY <1>2, <2>4, <2>5 DEF FromCharsFloat
  <2> QED
    BY <2>6, NormalFloatIs
<1> QED
  BY <1>1, <1>2

LEMMA OtherCharacters ==
  "NUL" \notin Spaces /\ \A c \in Spaces \cup {"NUL"} : c \notin Numeric \cup {NaN}
BY NumbersAssumption DEF Numeric

\* The terminator behind the last token does not matter.
LEMMA TerminatedFloat ==
  ASSUME NEW C, "NUL" \in C, NEW u \in Seq(C), NEW w, w = Append(u, "NUL")
  PROVE  NormalFloat(TrimSpaces(w)) = NormalFloat(TrimSpaces(u))
<1>1. /\ Len(u) \in Nat /\ w \in Seq(C) /\ Len(w) = Len(u) + 1
      /\ \A i \in 1 .. Len(u) : w[i] = u[i]
      /\ w[Len(u) + 1] = "NUL"
  BY LenProperties, AppendProperties
<1>2. TrimSpaces(w) = Core(w) /\ TrimSpaces(u) = Core(u)
  BY <1>1, TrimSpacesIs
<1>3. Solid(w) = Solid(u) \cup {Len(u) + 1}
  BY <1>1, OtherCharacters DEF Solid
<1>4. Solid(w) # {}
  BY <1>3
<1>5. PICK lo, hi : lo = Min(Solid(w)) /\ hi = Max(Solid(w))
  OBVIOUS
<1>6. /\ lo \in Solid(w) /\ hi \in Solid(w)
      /\ \A i \in Solid(w) : lo <= i /\ i <= hi
  BY <1>1, <1>4, <1>5, SolidBounds
<1>7. \A i \in Solid(u) : i \in 1 .. Len(u)
  BY DEF Solid
<1>8. hi = Len(u) + 1
  BY <1>1, <1>3, <1>6, <1>7
<1>9. Core(w) = SubSeq(w, lo, Len(u) + 1)
  BY <1>4, <1>5, <1>8 DEF Core
<1>10. lo \in 1 .. Len(w) /\ Len(u) + 1 \in 0 .. Len(w)
  BY <1>1, <1>6 DEF Solid
<1>11. PICK x : x = Core(w)
  OBVIOUS
<1>12. /\ x \in Seq(C) /\ Len(x) = Len(u) + 1 - lo + 1
       /\ \A i \in 1 .. Len(u) + 1 - lo + 1 : x[i] = w[lo + i - 1]
  <2>1. PICK h : h = Len(u) + 1
    OBVIOUS
  <2>2. lo \in 1 .. Len(w) + 1 /\ h \in 0 .. Len(w) /\ lo <= h
    BY <1>1, <1>10, <2>1
  <2>3. /\ SubSeq(w, lo, h) \in Seq(C) /\ Len(SubSeq(w, lo, h)) = h - lo + 1
        /\ \A i \in 1 .. h - lo + 1 : SubSeq(w, lo, h)[i] = w[lo + i - 1]
    BY <1>1, <2>2, PartIs
  <2>4. x = SubSeq(w, lo, h)
    BY <1>9, <1>11, <2>1
  <2>5. /\ x \in Seq(C) /\ Len(x) = h - lo + 1
        /\ \A i \in 1 .. h - lo + 1 : x[i] = w[lo + i - 1]
    BY <2>3, <2>4, Zenon
  <2>6. h - lo + 1 = Len(u) + 1 - lo + 1
    BY <1>1, <1>10, <2>1
  <2> QED
    BY <2>5, <2>6
<1>13. CASE Solid(u) = {}
  <2>1. lo = Len(u) + 1
    BY <1>1, <1>3, <1>6, <1>13
  <2>2. x[1] = "NUL"
    BY <1>1, <1>12, <2>1
  <2>3. NormalFloat(x) = Throws
    BY <1>12, <2>2, OtherCharacters, NoFloat
  <2>4. NormalFloat(<<>>) = Throws /\ Core(u) = <<>>
    BY <1>13, EmptySeq, NoFloat DEF Core
  <2> QED
    BY <1>2, <1>11, <2>3, <2>4
<1>14. CASE Solid(u) # {}
  <2>1. PICK a, b : a = Min(Solid(u)) /\ b = Max(Solid(u))
    OBVIOUS
  <2>2. /\ a \in Solid(u) /\ b \in Solid(u) /\ a <= b
        /\ \A i \in Solid(u) : a <= i /\ i <= b
    BY <1>14, <2>1, SolidBounds
  <2>3. a \in 1 .. Len(u) /\ b \in 1 .. Len(u)
    BY <1>7, <2>2
  <2>4. lo = a
    <3>1. lo <= a /\ a \in Solid(w)
      BY <1>3, <1>6, <2>2
    <3>2. a <= lo
      BY <1>1, <1>3, <1>6, <2>2, <2>3
    <3> QED
      BY <1>10, <2>3, <3>1, <3>2
  <2>5. PICK y : y = Core(u)
    OBVIOUS
  <2>6. /\ y \in Seq(C) /\ Len(y) = b - a + 1
        /\ \A i \in 1 .. b - a + 1 : y[i] = u[a + i - 1]
    <3>1. y = SubSeq(u, a, b)
      BY <1>14, <2>1, <2>5 DEF Core
    <3> QED
      BY <1>1, <2>2, <2>3, <3>1, PartIs
  <2>7. GoesOn(y, x)
    <3>1. Len(y) <= Len(x)
      BY <1>1, <1>12, <2>3, <2>4, <2>6
    <3>2. ASSUME NEW i \in 1 .. Len(y) PROVE x[i] = y[i]
      <4>1. /\ i \in 1 .. b - a + 1 /\ i \in 1 .. Len(u) + 1 - lo + 1
            /\ lo + i - 1 = a + i - 1 /\ a + i - 1 \in 1 .. Len(u)
        BY <1>1, <2>3, <2>4, <2>6
      <4> QED
        BY <1>1, <1>12, <2>6, <4>1
    <3>3. x[Len(y) + 1] \in Spaces \cup {"NUL"}
      <4>1. /\ Len(y) + 1 \in 1 .. Len(u) + 1 - lo + 1
            /\ lo + (Len(y) + 1) - 1 = b + 1
        BY <1>1, <2>2, <2>3, <2>4, <2>6
      <4>2. x[Len(y) + 1] = w[b + 1]
        BY <1>12, <4>1
      <4>3. CASE b = Len(u)
        BY <1>1, <4>2, <4>3
      <4>4. CASE b # Len(u)
        <5>1. b + 1 \in 1 .. Len(u) /\ ~(b + 1 <= b)
          BY <1>1, <2>3, <4>4
        <5>2. b + 1 \notin Solid(u)
          BY <2>2, <5>1
        <5>3. u[b + 1] \in Spaces
          BY <5>1, <5>2 DEF Solid
        <5> QED
          BY <1>1, <4>2, <5>1, <5>3
      <4> QED
        BY <4>3, <4>4
    <3> QED
      BY <3>1, <3>2, <3>3, OtherCharacters DEF GoesOn
  <2>8. y # <<>>
    BY <2>2, <2>3, <2>6
  <2>9. FromCharsFloat(x) = FromCharsFloat(y)
    BY <1>12, <2>6, <2>7, <2>8, SameFloat
  <2>10. NormalFloat(x) = NormalFloat(y)
    BY <2>9, NormalFloatIs
  <2> QED
    BY <1>2, <1>11, <2>5, <2>10
<1> QED
  BY <1>13, <1>14

LEMMA TerminatedTokens ==
  ASSUME NEW t \in Seq(Characters), NEW w, w = Transform(t),
         NEW at, at = In(t, {Delim})
  PROVE  /\ In(w, {Delim}) = at
         /\ \A j \in 1 .. Cardinality(at) : TokenOf(w, at, j) = TokenOf(t, at, j)
         /\ TokenOf(w, at, Cardinality(at) + 1) =
              Transform(TokenOf(t, at, Cardinality(at) + 1))
<1>0. PICK C, delim : C = Characters /\ delim = Delim
  OBVIOUS
<1>1. /\ Len(t) \in Nat /\ w \in Seq(C) /\ Len(w) = Len(t) + 1
      /\ t \in Seq(C) /\ "NUL" \in C /\ delim # "NUL" /\ at = In(t, {delim})
      /\ \A i \in 1 .. Len(t) : w[i] = t[i]
      /\ w[Len(t) + 1] = "NUL"
  BY <1>0, LenProperties, AppendProperties, ConversionsAssumption DEF Transform
<1>2. DOMAIN t = 1 .. Len(t) /\ DOMAIN w = 1 .. Len(w)
  BY <1>1, LenProperties
<1>3. In(w, {delim}) = at
  BY <1>1, <1>2 DEF In
<1>4. PICK n : n = Cardinality(at)
  OBVIOUS
<1>5. Places(at, Len(t)) /\ n \in Nat
  BY <1>1, <1>4, TokensIs, RankType
<1>6. \A j \in 0 .. n : CutOf(w, at, j) = CutOf(t, at, j)
  <2> TAKE j \in 0 .. n
  <2>1. j # n + 1
    BY <1>5
  <2> QED
    BY <1>4, <2>1 DEF CutOf
<1>7. /\ CutOf(w, at, n + 1) = Len(t) + 2 /\ CutOf(t, at, n + 1) = Len(t) + 1
  BY <1>1, <1>4, <1>5 DEF CutOf, End
<1>8. ASSUME NEW j \in 1 .. n PROVE TokenOf(w, at, j) = TokenOf(t, at, j)
  <2>1. PICK a, b : a = CutOf(t, at, j - 1) /\ b = CutOf(t, at, j)
    OBVIOUS
  <2>2. j - 1 \in 0 .. n /\ j \in 0 .. n
    BY <1>5
  <2>3. a \in 0 .. Len(t) /\ b \in 0 .. Len(t)
    BY <1>1, <1>4, <1>5, <2>1, <2>2, CutsOrdered
  <2>4. b # 0
    <3>1. b \in at
      BY <1>1, <1>4, <1>5, <2>1, CutIs
    <3> QED
      BY <1>1, <1>5, <3>1, PlaceIs
  <2>5. a + 1 \in 1 .. Len(t) + 1 /\ b - 1 \in 0 .. Len(t)
    BY <1>1, <2>3, <2>4
  <2>6. SubSeq(w, a + 1, b - 1) = SubSeq(t, a + 1, b - 1)
    BY <1>1, <2>5, SamePart, SMTT(30)
  <2> QED
    BY <1>6, <2>1, <2>2, <2>6 DEF TokenOf
<1>9. TokenOf(w, at, n + 1) = Transform(TokenOf(t, at, n + 1))
  <2>1. PICK c : c = CutOf(t, at, n)
    OBVIOUS
  <2>2. c \in 0 .. Len(t) /\ CutOf(w, at, n) = c
    <3>1. n \in 0 .. Cardinality(at) /\ n \in 0 .. n
      BY <1>4, <1>5
    <3> QED
      BY <1>1, <1>5, <1>6, <2>1, <3>1, CutsOrdered
  <2>3. /\ TokenOf(t, at, n + 1) = SubSeq(t, c + 1, Len(t))
        /\ TokenOf(w, at, n + 1) = SubSeq(w, c + 1, Len(t) + 1)
    <3>1. /\ (n + 1) - 1 = n /\ (Len(t) + 1) - 1 = Len(t)
          /\ (Len(t) + 2) - 1 = Len(t) + 1
      BY <1>1, <1>5
    <3> QED
      BY <1>7, <2>1, <2>2, <3>1 DEF TokenOf
  <2>4. PICK x, y : x = SubSeq(t, c + 1, Len(t)) /\ y = SubSeq(w, c + 1, Len(t) + 1)
    OBVIOUS
  <2>5. /\ c + 1 \in 1 .. Len(t) + 1 /\ Len(t) \in 0 .. Len(t)
        /\ c + 1 \in 1 .. Len(w) + 1 /\ Len(t) + 1 \in 0 .. Len(w)
    BY <1>1, <2>2
  <2>6. /\ x \in Seq(C) /\ Len(x) = Len(t) - c
        /\ \A i \in 1 .. Len(t) - c : x[i] = t[c + i]
    <3>1. /\ Len(t) - (c + 1) + 1 = Len(t) - c
          /\ c + 1 <= Len(t) \/ Len(t) - c = 0
          /\ \A i \in 1 .. Len(t) - c : (c + 1) + i - 1 = c + i
      BY <1>1, <2>2
    <3>2. /\ x \in Seq(C) /\ Len(x) = IF c + 1 <= Len(t) THEN Len(t) - (c + 1) + 1 ELSE 0
          /\ \A i \in 1 .. Len(t) - (c + 1) + 1 : x[i] = t[(c + 1) + i - 1]
      BY <1>1, <2>4, <2>5, PartIs
    <3>3. Len(x) = Len(t) - c
      BY <1>1, <2>2, <3>1, <3>2
    <3>4. \A i \in 1 .. Len(t) - c : x[i] = t[c + i]
      BY <3>1, <3>2
    <3> QED
      BY <3>2, <3>3, <3>4
  <2>7. /\ y \in Seq(C) /\ Len(y) = Len(t) - c + 1
        /\ \A i \in 1 .. Len(t) - c + 1 : y[i] = w[c + i]
    <3>1. PICK h : h = Len(t) + 1
      OBVIOUS
    <3>2. /\ h - (c + 1) + 1 = Len(t) - c + 1 /\ c + 1 <= h
          /\ \A i \in 1 .. Len(t) - c + 1 : (c + 1) + i - 1 = c + i
      BY <1>1, <2>2, <3>1
    <3>3. /\ y \in Seq(C) /\ Len(y) = IF c + 1 <= h THEN h - (c + 1) + 1 ELSE 0
          /\ \A i \in 1 .. h - (c + 1) + 1 : y[i] = w[(c + 1) + i - 1]
      BY <1>1, <2>4, <2>5, <3>1, PartIs
    <3> QED
      BY <3>2, <3>3
  <2>8. /\ Append(x, "NUL") \in Seq(C) /\ Len(Append(x, "NUL")) = Len(t) - c + 1
        /\ \A i \in 1 .. Len(t) - c : Append(x, "NUL")[i] = x[i]
        /\ Append(x, "NUL")[Len(t) - c + 1] = "NUL"
    BY <1>1, <2>6, AppendProperties
  <2>9. ASSUME NEW i \in 1 .. Len(y) PROVE y[i] = Append(x, "NUL")[i]
    <3>1. i \in 1 .. Len(t) - c + 1
      BY <2>7
    <3>2. CASE i = Len(t) - c + 1
      <4>1. c + i = Len(t) + 1
        BY <1>1, <2>2, <3>2
      <4> QED
        BY <1>1, <2>7, <2>8, <3>1, <3>2, <4>1
    <3>3. CASE i # Len(t) - c + 1
      <4>1. i \in 1 .. Len(t) - c /\ c + i \in 1 .. Len(t)
        BY <1>1, <2>2, <3>1, <3>3
      <4> QED
        BY <1>1, <2>6, <2>7, <2>8, <3>1, <4>1
    <3> QED
      BY <3>2, <3>3
  <2>10. y = Append(x, "NUL")
    BY <2>7, <2>8, <2>9, SeqEqual
  <2> QED
    BY <2>3, <2>4, <2>10 DEF Transform
<1> QED
  BY <1>0, <1>3, <1>4, <1>8, <1>9

\* What every token converts to.
Converted(t, at) ==
  [j \in 1 .. Cardinality(at) + 1 |-> NormalFloat(TrimSpaces(TokenOf(t, at, j)))]

\* The same with zeros for what is no number.
OrZeros(t, at) == [j \in 1 .. Cardinality(at) + 1 |-> OkOr(Converted(t, at)[j], Zero)]

\* The conversions to a vector, for floats.
FloatVector(t, delim) == StringViewToVector("float", t, delim)
FloatVectorOrZeros(t, delim) == StringViewToVectorWithDefault("float", t, Zero, delim)
FloatVectorProcessed(t, delim) == StringViewToVectorProcessed("float", t, delim)

LEMMA FloatsIs ==
  ASSUME NEW C, NEW t \in Seq(C), NEW delim, NEW at, at = In(t, {delim})
  PROVE  /\ FloatVector(t, delim) = AllOrThrows(Converted(t, at))
         /\ FloatVectorOrZeros(t, delim) = OrZeros(t, at)
         /\ CutOf(t, at, Cardinality(at)) # Len(t) =>
              FloatVectorProcessed(t, delim) = AllOrThrows(Converted(t, at))
<1>1. PICK tokens, n : tokens = AllTokens(t, delim) /\ n = Cardinality(at)
  OBVIOUS
<1>2. tokens = FirstTokens(t, at, n + 1)
  BY <1>1, AllTokensIs, TokensIs
<1>3. DOMAIN tokens = 1 .. n + 1 /\ \A j \in 1 .. n + 1 : tokens[j] = TokenOf(t, at, j)
  BY <1>2 DEF FirstTokens
<1>4. [i \in DOMAIN tokens |-> ToNormalNumber("float", TrimSpaces(tokens[i]))] =
        Converted(t, at)
  BY <1>1, <1>3 DEF Converted, NormalFloat
<1>5. StringViewToVector("float", t, delim) = AllOrThrows(Converted(t, at))
  BY <1>1, <1>4 DEF StringViewToVector
<1>6. StringViewToVectorWithDefault("float", t, Zero, delim) =
        [j \in 1 .. n + 1 |-> OkOr(Converted(t, at)[j], Zero)]
  <2>1. \A j \in 1 .. n + 1 :
          ToNormalNumberOr("float", TrimSpaces(tokens[j]), Zero) =
            OkOr(Converted(t, at)[j], Zero)
    BY <1>1, <1>3 DEF Converted, NormalFloat, ToNormalNumberOr
  <2>2. StringViewToVectorWithDefault("float", t, Zero, delim) =
          [j \in 1 .. n + 1 |-> ToNormalNumberOr("float", TrimSpaces(tokens[j]), Zero)]
    BY <1>1, <1>3 DEF StringViewToVectorWithDefault
  <2> QED
    BY <2>1, <2>2
<1>7. ASSUME CutOf(t, at, n) # Len(t)
      PROVE  StringViewToVectorProcessed("float", t, delim) =
               AllOrThrows(Converted(t, at))
  <2>1. Len(t) \in Nat /\ n \in Nat /\ CutOf(t, at, n) \in 0 .. Len(t)
    <3>1. Len(t) \in Nat /\ Places(at, Len(t)) /\ n \in Nat
      BY <1>1, TokensIs, RankType
    <3> QED
      BY <1>1, <3>1, CutsOrdered
  <2>2. PICK loop : loop = TokenLoop(delim, t)
    OBVIOUS
  <2>3. loop.start = CutOf(t, at, n) + 1
    BY <1>1, <2>2, TokenLoopIs
  <2>4. loop.start # End(t)
    BY <1>7, <2>1, <2>3 DEF End
  <2> QED
    BY <1>1, <1>4, <2>2, <2>4 DEF StringViewToVectorProcessed
<1> QED
  BY <1>1, <1>5, <1>6, <1>7
     DEF FloatVector, FloatVectorOrZeros, FloatVectorProcessed, OrZeros

\* The values of the tokens, if all of them are numbers.
Floats(t, at) == [j \in 1 .. Cardinality(at) + 1 |-> Converted(t, at)[j].value]

\* All tokens convert, or the conversion throws.
LEMMA ConvertedIs ==
  ASSUME NEW t, NEW at, AllOrThrows(Converted(t, at)) # Throws
  PROVE  /\ AllOrThrows(Converted(t, at)) = Returns(Floats(t, at))
         /\ \A j \in 1 .. Cardinality(at) + 1 :
              Converted(t, at)[j] = Returns(Floats(t, at)[j])
<1>1. PICK c, m : c = Converted(t, at) /\ m = Cardinality(at) + 1
  OBVIOUS
<1>2. DOMAIN c = 1 .. m
  BY <1>1 DEF Converted
<1>3. ASSUME NEW j \in 1 .. m PROVE c[j] = Throws \/ c[j] = Returns(c[j].value)
  <2>1. PICK x : x = TrimSpaces(TokenOf(t, at, j))
    OBVIOUS
  <2>2. c[j] = NormalFloat(x)
    BY <1>1, <2>1 DEF Converted
  <2>3. PICK r : r = FromCharsFloat(x)
    OBVIOUS
  <2>4. c[j] = IF r.ec = "ok" /\ RoundToFloat(r.value) # NotNormal
               THEN Returns(RoundToFloat(r.value)) ELSE Throws
    BY <2>2, <2>3, NormalFloatIs
  <2> QED
    BY <2>4 DEF Returns
<1>4. ~ \E i \in DOMAIN c : c[i] = Throws
  BY <1>1 DEF AllOrThrows
<1>5. AllOrThrows(c) = Returns([j \in DOMAIN c |-> c[j].value])
  BY <1>4 DEF AllOrThrows
<1>6. Floats(t, at) = [j \in 1 .. m |-> c[j].value]
  BY <1>1 DEF Floats
<1>7. \A j \in 1 .. m : c[j] = Returns(Floats(t, at)[j])
  BY <1>2, <1>3, <1>4, <1>6
<1> QED
  BY <1>1, <1>2, <1>5, <1>6, <1>7

\* A string with its terminator reads as the floats of the text.
LEMMA TerminatedFloats ==
  ASSUME text \in Seq(Characters)
  PROVE  GetFloatVectorOfString(Transform(text)) = InsertFloats(text)
<1>1. PICK w, at, n : /\ w = Transform(text) /\ at = In(text, {Delim})
                      /\ n = Cardinality(at)
  OBVIOUS
<1>2. w \in Seq(Characters)
  BY <1>1, AppendProperties, ConversionsAssumption DEF Transform
<1>3. Places(at, Len(text)) /\ Len(text) \in Nat /\ n \in Nat
  BY <1>1, TokensIs, RankType
<1>4. /\ In(w, {Delim}) = at
      /\ \A j \in 1 .. n : TokenOf(w, at, j) = TokenOf(text, at, j)
      /\ TokenOf(w, at, n + 1) = Transform(TokenOf(text, at, n + 1))
  <2>1. /\ In(w, {Delim}) = at
        /\ \A j \in 1 .. Cardinality(at) : TokenOf(w, at, j) = TokenOf(text, at, j)
        /\ TokenOf(w, at, Cardinality(at) + 1) =
             Transform(TokenOf(text, at, Cardinality(at) + 1))
    BY <1>1, TerminatedTokens, ZenonT(60)
  <2> QED
    BY <1>1, <2>1
<1>5. ASSUME NEW j \in 1 .. n + 1
      PROVE  NormalFloat(TrimSpaces(TokenOf(w, at, j))) =
               NormalFloat(TrimSpaces(TokenOf(text, at, j)))
  <2>1. CASE j \in 1 .. n
    BY <1>4, <2>1
  <2>2. CASE j = n + 1
    <3>1. PICK u, v : u = TokenOf(text, at, n + 1) /\ v = Transform(u)
      OBVIOUS
    <3>2. u \in Seq(Characters)
      BY <1>1, <1>3, <2>2, <3>1, TokenTyped
    <3>3. v = Append(u, "NUL") /\ "NUL" \in Characters
      BY <3>1, ConversionsAssumption DEF Transform
    <3>4. NormalFloat(TrimSpaces(v)) = NormalFloat(TrimSpaces(u))
      BY <3>2, <3>3, TerminatedFloat
    <3> QED
      BY <1>4, <2>2, <3>1, <3>4
  <2> QED
    BY <1>3, <2>1, <2>2
<1>6. Converted(w, at) = Converted(text, at)
  BY <1>1, <1>5 DEF Converted
<1>7. FloatVector(w, Delim) = AllOrThrows(Converted(w, at))
  BY <1>2, <1>4, FloatsIs
<1>8. FloatVector(text, Delim) = AllOrThrows(Converted(text, at))
  BY <1>1, FloatsIs
<1> QED
  BY <1>1, <1>6, <1>7, <1>8 DEF GetFloatVectorOfString, InsertFloats, FloatVector

LEMMA AtIndexIs ==
  ASSUME NEW floats, Len(floats) \in Nat, NEW i \in Int
  PROVE  /\ GetFloatAtIndexOfFloats(floats, i) =
              IF i \in 0 .. Len(floats) - 1 THEN floats[i + 1] ELSE Zero
         /\ AtIndexOrZero(floats, i) = GetFloatAtIndexOfFloats(floats, i)
<1>1. PICK n : n = Len(floats)
  OBVIOUS
<1>2. 4 * i < 4 * n <=> i < n
  BY <1>1
<1>3. i \in 0 .. n - 1 <=> 0 <= i /\ i < n
  BY <1>1
<1> QED
  BY <1>1, <1>2, <1>3 DEF GetFloatAtIndexOfFloats, AtIndexOrZero, kFloatSize

LEMMA VectorOfFloats ==
  ASSUME NEW S, NEW floats \in Seq(S)
  PROVE  GetFloatVectorOfFloats(floats) = floats
<1>1. PICK n : n = Len(floats)
  OBVIOUS
<1>2. n \in Nat
  BY <1>1, LenProperties
<1>3. (4 * n) % 4 = 0 /\ (4 * n) \div 4 = n
  BY <1>2
<1>4. SubSeq(floats, 1, n) = floats
  BY <1>1, SubSeqFull
<1> QED
  BY <1>1, <1>3, <1>4 DEF GetFloatVectorOfFloats, FloatsOf, kFloatSize

LEMMA ThrowsIs ==
  ASSUME NEW v
  PROVE  Returns(v) # Throws /\ Returns(v).value = v /\ OkOr(Returns(v), Zero) = v
BY DEF Returns, Throws, OkOr

LEMMA FloatReadsAgreeTyped ==
  ASSUME text \in Seq(Characters)
  PROVE  FloatReadsAgree
<1>1. PICK bytes, inserted : bytes = Transform(text) /\ inserted = InsertFloats(text)
  OBVIOUS
<1>2. GetFloatVectorOfString(bytes) = inserted
  BY <1>1, TerminatedFloats
<1>3. Indices \subseteq Int
  BY ConversionsAssumption
<1>4. CASE inserted = Throws
  <2>1. \A i \in Indices : GetFloatAtIndexOfString(bytes, i) = Throws
    BY <1>2, <1>4 DEF GetFloatAtIndexOfString
  <2> QED
    BY <1>1, <1>2, <1>4, <2>1 DEF FloatReadsAgree
<1>5. CASE inserted # Throws
  <2>1. PICK at, n, c : /\ at = In(text, {Delim}) /\ n = Cardinality(at)
                        /\ c = Converted(text, at)
    OBVIOUS
  <2>2. Len(text) \in Nat /\ Places(at, Len(text)) /\ n \in Nat
    BY <2>1, TokensIs, RankType
  <2>3. inserted = AllOrThrows(c)
    <3>1. inserted = FloatVector(text, Delim)
      BY <1>1 DEF InsertFloats, FloatVector
    <3> QED
      BY <2>1, <3>1, FloatsIs
  <2>4. PICK v : v = Floats(text, at)
    OBVIOUS
  <2>12. /\ inserted = Returns(v)
         /\ \A j \in 1 .. n + 1 : c[j] = Returns(v[j])
    BY <1>5, <2>1, <2>3, <2>4, ConvertedIs
  <2>13. v = [j \in 1 .. n + 1 |-> v[j]]
    BY <2>1, <2>4 DEF Floats
  <2>5. Len(v) = n + 1 /\ \E S : v \in Seq(S)
    <3> DEFINE S == {v[j] : j \in 1 .. n + 1}
    <3>1. v \in [1 .. n + 1 -> S] /\ n + 1 \in Nat
      BY <2>2, <2>13
    <3> HIDE DEF S
    <3>2. v \in Seq(S) /\ Len(v) = n + 1
      BY <3>1
    <3> QED
      BY <3>2
  <2>6. GetFloatVectorOfFloats(v) = v
    BY <2>5, VectorOfFloats
  <2>7. StringViewToVectorWithDefault("float", text, Zero, Delim) = v
    <3>1. \A j \in 1 .. n + 1 : OkOr(c[j], Zero) = v[j]
      BY <2>12, ThrowsIs
    <3>2. FloatVectorOrZeros(text, Delim) = [j \in 1 .. n + 1 |-> OkOr(c[j], Zero)]
      <4>1. FloatVectorOrZeros(text, Delim) = OrZeros(text, at)
        BY <2>1, FloatsIs
      <4> QED
        BY <2>1, <4>1 DEF OrZeros
    <3> QED
      BY <2>13, <3>1, <3>2 DEF FloatVectorOrZeros
  <2>8. StringViewToVectorProcessed("float", text, Delim) = Returns(v)
    <3>1. CutOf(text, at, n) # Len(text)
      <4> SUFFICES ASSUME CutOf(text, at, n) = Len(text) PROVE FALSE
        OBVIOUS
      <4>1. TokenOf(text, at, n + 1) = <<>>
        <5>1. CutOf(text, at, n + 1) = Len(text) + 1
          BY <2>1, <2>2 DEF CutOf, End
        <5>2. (n + 1) - 1 = n /\ (Len(text) + 1) - 1 = Len(text)
          BY <2>2
        <5>3. SubSeq(text, Len(text) + 1, Len(text)) = <<>>
          BY <2>2, SubSeqEmpty
        <5> QED
          BY <5>1, <5>2, <5>3 DEF TokenOf
      <4>2. TrimSpaces(<<>>) = <<>>
        BY DEF TrimSpaces
      <4>3. NormalFloat(<<>>) = Throws
        BY EmptySeq, NoFloat
      <4>4. c[n + 1] = Throws
        BY <2>1, <2>2, <4>1, <4>2, <4>3 DEF Converted
      <4>5. n + 1 \in 1 .. n + 1
        BY <2>2
      <4> QED
        BY <2>12, <4>4, <4>5, ThrowsIs
    <3>2. FloatVectorProcessed(text, Delim) = AllOrThrows(c)
      BY <2>1, <3>1, FloatsIs
    <3> QED
      BY <2>3, <2>12, <3>2 DEF FloatVectorProcessed
  <2>9. ASSUME NEW i \in Indices
        PROVE  /\ GetFloatAtIndexOfFloats(v, i) =
                    IF i \in 0 .. Len(v) - 1 THEN v[i + 1] ELSE Zero
               /\ GetFloatAtIndexOfString(bytes, i) =
                    Returns(GetFloatAtIndexOfFloats(v, i))
    <3>1. i \in Int /\ Len(v) \in Nat
      BY <1>3, <2>2, <2>5
    <3>2. GetFloatAtIndexOfString(bytes, i) = Returns(AtIndexOrZero(v, i))
      BY <1>2, <2>12, ThrowsIs DEF GetFloatAtIndexOfString
    <3> QED
      BY <3>1, <3>2, AtIndexIs
  <2>10. ASSUME NEW i \in Indices, NEW j \in Indices
         PROVE  LET both == GetFloatAtIndicesOfFloats(v, <<j, i>>)
                IN /\ both[2] = GetFloatAtIndexOfFloats(v, i)
                   /\ GetFloatAtIndicesOfString(bytes, <<j, i>>) = Returns(both)
    <3>1. i \in Int /\ j \in Int /\ Len(v) \in Nat
      BY <1>3, <2>2, <2>5
    <3>2. PICK q : q = <<j, i>>
      OBVIOUS
    <3>3. DOMAIN q = 1 .. 2 /\ q[1] = j /\ q[2] = i
      BY <3>2
    <3>4. ASSUME NEW k \in 1 .. 2
          PROVE  AtIndexOrZero(v, q[k]) = GetFloatAtIndexOfFloats(v, q[k])
      <4>1. q[k] \in Int
        BY <3>1, <3>3
      <4> QED
        BY <3>1, <4>1, AtIndexIs
    <3>5. GetFloatAtIndicesOfFloats(v, q) =
            [k \in 1 .. 2 |-> GetFloatAtIndexOfFloats(v, q[k])]
      BY <3>3 DEF GetFloatAtIndicesOfFloats
    <3>6. GetFloatAtIndicesOfString(bytes, q) =
            Returns([k \in 1 .. 2 |-> AtIndexOrZero(v, q[k])])
      <4>1. inserted # Throws /\ inserted.value = v
        BY <1>5, <2>12, ThrowsIs
      <4> QED
        BY <1>2, <3>3, <4>1 DEF GetFloatAtIndicesOfString
    <3>7. [k \in 1 .. 2 |-> AtIndexOrZero(v, q[k])] =
            [k \in 1 .. 2 |-> GetFloatAtIndexOfFloats(v, q[k])]
      BY <3>4
    <3>8. GetFloatAtIndicesOfFloats(v, q)[2] = GetFloatAtIndexOfFloats(v, i)
      BY <3>3, <3>5
    <3> QED
      BY <3>2, <3>5, <3>6, <3>7, <3>8
  <2>11. inserted.value = v
    BY <2>12, ThrowsIs
  <2> QED
    BY <1>1, <1>2, <1>5, <2>12, <2>6, <2>7, <2>8, <2>9, <2>10, <2>11, ZenonT(60)
       DEF FloatReadsAgree
<1> QED
  BY <1>4, <1>5

\* A text reads as the same floats, all of them or one by its index, whether
\* it was stored as a string with its terminator or as floats: getFloatVector,
\* getFloatAtIndex and getFloatAtIndices against insertScalarKey, for texts of
\* any length and any indices.
THEOREM FloatReadsAlwaysAgree == Spec => []FloatReadsAgree
<1>1. text \in Seq(Characters) => FloatReadsAgree
  BY FloatReadsAgreeTyped
<1> QED
  BY <1>1, TextTyped, PTL

-----------------------------------------------------------------------------
(* Values to deduplicate *)

\* What parseAsFloat makes of one token.
OneFloat(t) == RoundToFloat(ToDouble(Trim(t)))
IsKept(t) == WithinFloat(ToDouble(Trim(t)))

\* The function by which ParseAsFloat is defined, up to n.
ParseRun(tokens, n, f) ==
  f = [i \in 0 .. n |-> IF i = 0 THEN <<>>
                        ELSE IF IsKept(tokens[i])
                             THEN Append(f[i - 1], OneFloat(tokens[i]))
                             ELSE f[i - 1]]

LEMMA ParseRunExists ==
  ASSUME NEW tokens, NEW n \in Nat
  PROVE  \E f : ParseRun(tokens, n, f)
<1> DEFINE T == {m \in Nat : \E f : ParseRun(tokens, m, f)}
<1>1. 0 \in T
  <2> DEFINE f == [i \in 0 .. 0 |-> <<>>]
  <2>1. ParseRun(tokens, 0, f)
    BY DEF ParseRun
  <2> QED
    BY <2>1
<1>2. ASSUME NEW d \in 1 .. n, d - 1 \in T PROVE d \in T
  <2>1. d - 1 \in Nat /\ d \in Nat
    OBVIOUS
  <2>2. PICK f : ParseRun(tokens, d - 1, f)
    BY <1>2
  <2> DEFINE At(h, i) == IF i = 0 THEN <<>>
                         ELSE IF IsKept(tokens[i])
                              THEN Append(h[i - 1], OneFloat(tokens[i]))
                              ELSE h[i - 1]
             g == [i \in 0 .. d |-> At(f, i)]
  <2>3. \A i \in 0 .. d - 1 : f[i] = At(f, i)
    BY <2>2 DEF ParseRun
  <2>4. \A i \in 0 .. d : g[i] = At(f, i)
    OBVIOUS
  <2>5. g = [i \in 0 .. d |-> g[i]]
    OBVIOUS
  <2> HIDE DEF g
  <2>6. \A i \in 0 .. d - 1 : g[i] = f[i]
    <3> HIDE DEF At
    <3> QED
      BY <2>1, <2>3, <2>4
  <2>7. ASSUME NEW i \in 1 .. d PROVE g[i - 1] = f[i - 1]
    <3>1. i - 1 \in 0 .. d - 1
      BY <2>1
    <3> QED
      BY <2>6, <3>1
  <2>8. \A i \in 0 .. d : g[i] = At(g, i)
    BY <2>4, <2>7
  <2>9. ParseRun(tokens, d, g)
    BY <2>5, <2>8 DEF ParseRun
  <2> QED
    BY <2>1, <2>9
<1> HIDE DEF T
<1>3. n \in T
  BY <1>1, <1>2, InductionUpTo
<1> QED
  BY <1>3 DEF T

\* What it makes of all of them, when each is within the floats.
OneFloats(tokens) == [j \in 1 .. Len(tokens) |-> OneFloat(tokens[j])]
AllKept(tokens) == \A j \in 1 .. Len(tokens) : IsKept(tokens[j])

\* The function that ParseAsFloat takes its last value of.
LEMMA ParseRunIs ==
  ASSUME NEW t, NEW tokens, tokens = Split(Delim, t), Len(tokens) \in Nat,
         DOMAIN tokens = 1 .. Len(tokens)
  PROVE  \E f : /\ ParseAsFloat(t) = f[Len(tokens)]
                /\ \A i \in 0 .. Len(tokens) :
                     f[i] = IF i = 0 THEN <<>>
                            ELSE IF IsKept(tokens[i])
                                 THEN Append(f[i - 1], OneFloat(tokens[i]))
                                 ELSE f[i - 1]
<1> DEFINE n == Len(tokens)
           d == [i \in DOMAIN tokens |-> ToDouble(Trim(tokens[i]))]
           Run(g) == g = [i \in 0 .. n |->
                            IF i = 0 THEN <<>>
                            ELSE IF WithinFloat(d[i])
                                 THEN Append(g[i - 1], RoundToFloat(d[i]))
                                 ELSE g[i - 1]]
           f == CHOOSE g : Run(g)
<1>1. ParseAsFloat(t) = f[n]
  BY DEF ParseAsFloat
<1>2. ASSUME NEW g, ParseRun(tokens, n, g) PROVE Run(g)
  <2>1. \A i \in 1 .. n : d[i] = ToDouble(Trim(tokens[i]))
    OBVIOUS
  <2> HIDE DEF d
  <2>2. g = [i \in 0 .. n |-> IF i = 0 THEN <<>>
                             ELSE IF IsKept(tokens[i])
                                  THEN Append(g[i - 1], OneFloat(tokens[i]))
                                  ELSE g[i - 1]]
    BY <1>2 DEF ParseRun
  <2>3. \A i \in 0 .. n : i # 0 => i \in 1 .. n
    OBVIOUS
  <2> QED
    BY <2>1, <2>2, <2>3 DEF IsKept, OneFloat
<1>3. \E g : Run(g)
  BY <1>2, ParseRunExists
<1>4. Run(f)
  <2> HIDE DEF Run
  <2> QED
    BY <1>3
<1> HIDE DEF f
<1>5. \A i \in 0 .. n :
        f[i] = IF i = 0 THEN <<>>
               ELSE IF IsKept(tokens[i])
                    THEN Append(f[i - 1], OneFloat(tokens[i]))
                    ELSE f[i - 1]
  <2>1. \A i \in 1 .. n : d[i] = ToDouble(Trim(tokens[i]))
    OBVIOUS
  <2> HIDE DEF d
  <2> SUFFICES ASSUME NEW i \in 0 .. n
      PROVE  f[i] = IF i = 0 THEN <<>>
                    ELSE IF IsKept(tokens[i])
                         THEN Append(f[i - 1], OneFloat(tokens[i]))
                         ELSE f[i - 1]
    OBVIOUS
  <2>2. f[i] = IF i = 0 THEN <<>>
               ELSE IF WithinFloat(d[i])
                    THEN Append(f[i - 1], RoundToFloat(d[i])) ELSE f[i - 1]
    BY <1>4
  <2>3. i # 0 => d[i] = ToDouble(Trim(tokens[i]))
    BY <2>1
  <2> QED
    BY <2>2, <2>3 DEF IsKept, OneFloat
<1> QED
  BY <1>1, <1>5

LEMMA ParseAsFloatIs ==
  ASSUME NEW t, NEW tokens, tokens = Split(Delim, t), Len(tokens) \in Nat,
         DOMAIN tokens = 1 .. Len(tokens), AllKept(tokens)
  PROVE  ParseAsFloat(t) = OneFloats(tokens)
<1>n. PICK n, v, S : /\ n = Len(tokens) /\ v = OneFloats(tokens)
                     /\ S = {OneFloat(tokens[j]) : j \in 1 .. Len(tokens)}
  OBVIOUS
<1>v. /\ n \in Nat /\ v \in [1 .. n -> S]
      /\ \A j \in 1 .. n : OneFloat(tokens[j]) = v[j] /\ IsKept(tokens[j])
  BY <1>n DEF OneFloats, AllKept
<1>m. n \in Nat
  BY <1>n
<1>1. PICK f : /\ ParseAsFloat(t) = f[n]
               /\ \A i \in 0 .. n :
                    f[i] = IF i = 0 THEN <<>>
                           ELSE IF IsKept(tokens[i])
                                THEN Append(f[i - 1], OneFloat(tokens[i]))
                                ELSE f[i - 1]
  BY <1>n, ParseRunIs
<1> DEFINE Start(i) == [j \in 1 .. i |-> v[j]]
           T == {i \in 0 .. n : f[i] = Start(i)}
<1>4. 0 \in T
  <2>1. f[0] = <<>> /\ Start(0) = <<>>
    BY <1>1, <1>v
  <2> QED
    BY <2>1, <1>v
<1>5. ASSUME NEW i \in 1 .. n, i - 1 \in T PROVE i \in T
  <2>1. f[i - 1] = Start(i - 1)
    BY <1>5
  <2>2. f[i] = Append(f[i - 1], v[i])
    <3>1. i \in 0 .. n /\ i # 0
      BY <1>v
    <3>2. OneFloat(tokens[i]) = v[i] /\ IsKept(tokens[i])
      BY <1>v
    <3> QED
      BY <1>1, <3>1, <3>2
  <2>3. Append(Start(i - 1), v[i]) = Start(i)
    <3>1. \A j \in 1 .. i : v[j] \in S
      BY <1>v
    <3>2. Start(i - 1) \in Seq(S) /\ Len(Start(i - 1)) = i - 1
      BY <1>v, <3>1
    <3> QED
      BY <1>v, <3>1, <3>2
  <2>4. i \in 0 .. n
    BY <1>v
  <2> HIDE DEF Start
  <2> QED
    BY <2>1, <2>2, <2>3, <2>4
<1> HIDE DEF T
<1>6. n \in T
  <2>1. \A i \in 1 .. n : i - 1 \in T => i \in T
    BY <1>5
  <2> QED
    BY <1>4, <1>m, <2>1, InductionUpTo
<1>7. f[n] = Start(n)
  BY <1>6 DEF T
<1>8. Start(n) = v
  BY <1>v
<1> QED
  BY <1>n, <1>1, <1>7, <1>8

\* An element that is dropped leaves fewer floats than elements.
LEMMA DroppedIsMissing ==
  ASSUME NEW t, NEW tokens, tokens = Split(Delim, t), Len(tokens) \in Nat,
         DOMAIN tokens = 1 .. Len(tokens), ~AllKept(tokens)
  PROVE  Len(ParseAsFloat(t)) < Len(tokens)
<1>n. PICK n, S : n = Len(tokens) /\ S = {OneFloat(tokens[j]) : j \in 1 .. Len(tokens)}
  OBVIOUS
<1>m. n \in Nat
  BY <1>n
<1>1. PICK f : /\ ParseAsFloat(t) = f[n]
               /\ \A i \in 0 .. n :
                    f[i] = IF i = 0 THEN <<>>
                           ELSE IF IsKept(tokens[i])
                                THEN Append(f[i - 1], OneFloat(tokens[i]))
                                ELSE f[i - 1]
  BY <1>n, ParseRunIs
<1>2. PICK d \in 1 .. n : ~IsKept(tokens[d])
  BY <1>n DEF AllKept
<1> DEFINE Short(i) == IF i < d THEN i ELSE i - 1
           T == {i \in 0 .. n : f[i] \in Seq(S) /\ Len(f[i]) <= Short(i)}
<1>3. 0 \in T
  <2>1. 0 \in 0 .. n /\ f[0] = <<>>
    BY <1>m, <1>1
  <2>2. <<>> \in Seq(S) /\ Len(<<>>) = 0
    OBVIOUS
  <2>3. Short(0) = 0
    BY <1>2
  <2>4. Len(f[0]) <= Short(0) /\ f[0] \in Seq(S)
    <3> HIDE DEF Short
    <3> QED
      BY <2>1, <2>2, <2>3
  <2> QED
    BY <2>1, <2>4
<1>4. ASSUME NEW i \in 1 .. n, i - 1 \in T PROVE i \in T
  <2>1. f[i - 1] \in Seq(S) /\ Len(f[i - 1]) <= Short(i - 1)
    BY <1>4
  <2>2. Len(f[i - 1]) \in Nat
    BY <2>1, LenProperties
  <2>3. i \in 0 .. n /\ i # 0 /\ i \in Int /\ d \in Int
    BY <1>n
  <2>4. CASE IsKept(tokens[i])
    <3>1. f[i] = Append(f[i - 1], OneFloat(tokens[i]))
      BY <1>1, <2>3, <2>4
    <3>2. OneFloat(tokens[i]) \in S
      BY <1>n
    <3>3. f[i] \in Seq(S) /\ Len(f[i]) = Len(f[i - 1]) + 1
      BY <2>1, <3>1, <3>2, AppendProperties
    <3>4. i # d
      BY <1>2, <2>4
    <3> QED
      BY <2>1, <2>2, <2>3, <3>3, <3>4
  <2>5. CASE ~IsKept(tokens[i])
    <3>1. f[i] = f[i - 1]
      BY <1>1, <2>3, <2>5
    <3> QED
      BY <2>1, <2>2, <2>3, <3>1
  <2> QED
    BY <2>4, <2>5
<1> HIDE DEF T
<1>5. n \in T
  <2>1. \A i \in 1 .. n : i - 1 \in T => i \in T
    BY <1>4
  <2>2. \A i \in 0 .. n : i \in T
    BY <1>3, <1>m, <2>1, InductionUpTo, Zenon
  <2> QED
    BY <1>m, <2>2
<1>6. Len(f[n]) \in Nat /\ Len(f[n]) <= n - 1
  BY <1>m, <1>2, <1>5, LenProperties DEF T
<1> QED
  BY <1>n, <1>1, <1>6

LEMMA DuplicatesRecognisedTyped ==
  ASSUME text \in Seq(Characters)
  PROVE  DuplicatesRecognised
<1>1. PICK at, n, tokens : /\ at = In(text, {Delim}) /\ n = Cardinality(at)
                           /\ tokens = Tokens(text, {Delim})
  OBVIOUS
<1>2. Len(text) \in Nat /\ Places(at, Len(text)) /\ n \in Nat
  BY <1>1, TokensIs, RankType
<1>3. tokens = FirstTokens(text, at, n + 1)
  BY <1>1, TokensIs
<1>4. /\ DOMAIN tokens = 1 .. n + 1 /\ Len(tokens) = n + 1
      /\ \A j \in 1 .. n + 1 : tokens[j] = TokenOf(text, at, j)
      /\ \A j \in 1 .. n + 1 : tokens[j] \in Seq(Characters)
  <2>1. n \in 0 .. Cardinality(at)
    BY <1>1, <1>2
  <2>2. Len(tokens) = n + 1
    BY <1>2, <1>3, <2>1, FirstTokensIs
  <2>3. DOMAIN tokens = 1 .. n + 1 /\ \A j \in 1 .. n + 1 : tokens[j] = TokenOf(text, at, j)
    BY <1>3 DEF FirstTokens
  <2>4. \A j \in 1 .. n + 1 : TokenOf(text, at, j) \in Seq(Characters)
    BY <1>1, <1>2, TokenTyped
  <2> QED
    BY <2>2, <2>3, <2>4
<1> SUFFICES ASSUME \A i \in DOMAIN tokens : IsFloatText(TrimSpaces(tokens[i]))
             PROVE  Returns(ParseAsFloat(text)) = InsertFloats(text) <=>
                      \A i \in DOMAIN tokens : RoundsAlike(TrimSpaces(tokens[i]))
  BY <1>1 DEF DuplicatesRecognised
<1> DEFINE Once(j) == RoundToFloat(FromCharsFloat(TrimSpaces(tokens[j])).value)
<1>5. ASSUME NEW j \in 1 .. n + 1
      PROVE  /\ TrimSpaces(tokens[j]) # <<>>
             /\ NormalFloat(TrimSpaces(tokens[j])) = Returns(Once(j))
             /\ RoundsAlike(TrimSpaces(tokens[j])) <=>
                  IsKept(tokens[j]) /\ OneFloat(tokens[j]) = Once(j)
  <2>1. PICK x : x = TrimSpaces(tokens[j])
    OBVIOUS
  <2>2. /\ x # <<>> /\ Whole(FromCharsFloat(x), x)
        /\ RoundToFloat(FromCharsFloat(x).value) # NotNormal
    BY <1>4, <2>1 DEF IsFloatText
  <2>3. Trim(tokens[j]) = x
    BY <1>4, <2>1, TrimIs, TrimSpacesIs
  <2>4. ToDouble(Trim(tokens[j])) = RoundToDouble(FromCharsFloat(x).value)
    BY <2>2, <2>3 DEF ToDouble, WholeOr
  <2>5. NormalFloat(x) = Returns(RoundToFloat(FromCharsFloat(x).value))
    BY <2>2, NormalFloatIs DEF Whole
  <2>6. RoundsAlike(x) <=> /\ IsKept(tokens[j])
                           /\ OneFloat(tokens[j]) = RoundToFloat(FromCharsFloat(x).value)
    BY <2>4 DEF RoundsAlike, IsKept, OneFloat
  <2> QED
    BY <2>1, <2>2, <2>5, <2>6
<1> DEFINE v == [j \in 1 .. n + 1 |-> Once(j)]
<1> HIDE DEF Once
<1>7. Split(Delim, text) = tokens
  <2>1. tokens[n + 1] # <<>>
    <3>1. TrimSpaces(<<>>) = <<>>
      BY DEF TrimSpaces
    <3>2. n + 1 \in 1 .. n + 1
      BY <1>2
    <3> QED
      BY <1>5, <3>1, <3>2
  <2>2. TokensButEmptyLast(text, {Delim}) = tokens
    BY <1>1, <1>4, <2>1 DEF TokensButEmptyLast
  <2> QED
    BY <2>2, SplitIs
<1>9. InsertFloats(text) = Returns(v)
  <2>1. InsertFloats(text) = AllOrThrows(Converted(text, at))
    <3>1. FloatVector(text, Delim) = AllOrThrows(Converted(text, at))
      BY <1>1, FloatsIs
    <3> QED
      BY <3>1 DEF FloatVector, InsertFloats
  <2>2. PICK c : c = Converted(text, at)
    OBVIOUS
  <2>3. DOMAIN c = 1 .. n + 1 /\ \A j \in 1 .. n + 1 : c[j] = Returns(v[j])
    BY <1>1, <1>4, <1>5, <2>2 DEF Converted
  <2>4. \A j \in 1 .. n + 1 : c[j] # Throws /\ c[j].value = v[j]
    BY <2>3, ThrowsIs
  <2>5. AllOrThrows(c) = Returns([j \in DOMAIN c |-> c[j].value])
    BY <2>3, <2>4 DEF AllOrThrows
  <2>6. [j \in DOMAIN c |-> c[j].value] = v
    BY <2>3, <2>4
  <2> QED
    BY <2>1, <2>2, <2>5, <2>6
<1>10. n + 1 \in Nat /\ Len(tokens) \in Nat /\ DOMAIN tokens = 1 .. Len(tokens)
  BY <1>2, <1>4
<1>11. Len(v) = n + 1
  BY <1>10
<1>12. CASE AllKept(tokens)
  <2>1. ParseAsFloat(text) = OneFloats(tokens)
    BY <1>7, <1>10, <1>12, ParseAsFloatIs
  <2>2. OneFloats(tokens) = v <=> \A j \in 1 .. n + 1 : OneFloat(tokens[j]) = Once(j)
    BY <1>4 DEF OneFloats
  <2>3. (\A i \in DOMAIN tokens : RoundsAlike(TrimSpaces(tokens[i]))) <=>
          \A j \in 1 .. n + 1 : OneFloat(tokens[j]) = Once(j)
    BY <1>4, <1>5, <1>12 DEF AllKept
  <2>4. Returns(ParseAsFloat(text)) = Returns(v) <=> ParseAsFloat(text) = v
    <3> HIDE DEF v
    <3> QED
      BY ThrowsIs
  <2> QED
    BY <1>9, <2>1, <2>2, <2>3, <2>4
<1>13. CASE ~AllKept(tokens)
  <2>1. Len(ParseAsFloat(text)) < n + 1
    BY <1>4, <1>7, <1>10, <1>13, DroppedIsMissing
  <2>2. Returns(ParseAsFloat(text)) # Returns(v)
    <3> HIDE DEF v
    <3>1. ParseAsFloat(text) # v
      BY <1>10, <1>11, <2>1
    <3> QED
      BY <3>1, ThrowsIs
  <2>3. ~ \A i \in DOMAIN tokens : RoundsAlike(TrimSpaces(tokens[i]))
    BY <1>4, <1>5, <1>13 DEF AllKept
  <2> QED
    BY <1>9, <2>2, <2>3
<1> QED
  BY <1>12, <1>13

\* A value to deduplicate is stored like the same value given as a float list,
\* parseAsFloat against stringViewToVector, if and only if none of its elements
\* shows the detour by a double: for any number of elements that are numbers
\* from end to end, and any two roundings.
THEOREM DuplicatesAlwaysRecognised == Spec => []DuplicatesRecognised
<1>1. text \in Seq(Characters) => DuplicatesRecognised
  BY DuplicatesRecognisedTyped
<1> QED
  BY <1>1, TextTyped, PTL

-----------------------------------------------------------------------------
(* Integers *)

\* The function by which PowerOfTen is defined, up to n.
PowerRun(n, f) == f = [i \in 0 .. n |-> IF i = 0 THEN 1 ELSE 10 * f[i - 1]]

LEMMA PowerRunExists ==
  ASSUME NEW n \in Nat
  PROVE  \E f : PowerRun(n, f)
<1> DEFINE T == {m \in Nat : \E f : PowerRun(m, f)}
<1>1. 0 \in T
  <2> DEFINE f == [i \in 0 .. 0 |-> 1]
  <2>1. PowerRun(0, f)
    BY DEF PowerRun
  <2> QED
    BY <2>1
<1>2. ASSUME NEW d \in 1 .. n, d - 1 \in T PROVE d \in T
  <2>1. d - 1 \in Nat /\ d \in Nat
    OBVIOUS
  <2>2. PICK f : PowerRun(d - 1, f)
    BY <1>2
  <2> DEFINE At(h, i) == IF i = 0 THEN 1
                         ELSE 10 * h[i - 1]
             g == [i \in 0 .. d |-> At(f, i)]
  <2>3. \A i \in 0 .. d - 1 : f[i] = At(f, i)
    BY <2>2 DEF PowerRun
  <2>4. \A i \in 0 .. d : g[i] = At(f, i)
    OBVIOUS
  <2>5. g = [i \in 0 .. d |-> g[i]]
    OBVIOUS
  <2> HIDE DEF g
  <2>6. \A i \in 0 .. d - 1 : g[i] = f[i]
    <3> HIDE DEF At
    <3> QED
      BY <2>1, <2>3, <2>4
  <2>7. ASSUME NEW i \in 1 .. d PROVE g[i - 1] = f[i - 1]
    <3>1. i - 1 \in 0 .. d - 1
      BY <2>1
    <3> QED
      BY <2>6, <3>1
  <2>8. \A i \in 0 .. d : g[i] = At(g, i)
    BY <2>4, <2>7
  <2>9. PowerRun(d, g)
    BY <2>5, <2>8 DEF PowerRun
  <2> QED
    BY <2>1, <2>9
<1> HIDE DEF T
<1>3. n \in T
  BY <1>1, <1>2, InductionUpTo
<1> QED
  BY <1>3 DEF T

\* Powers of ten, and what the functions up to a number have in common.
IsPower(f, n) == \A i \in 0 .. n : f[i] \in Nat /\ f[i] = IF i = 0 THEN 1 ELSE 10 * f[i - 1]

LEMMA PowerRunIs ==
  ASSUME NEW n \in Nat, NEW f, PowerRun(n, f)
  PROVE  IsPower(f, n)
<1>1. \A i \in 0 .. n : f[i] = IF i = 0 THEN 1 ELSE 10 * f[i - 1]
  BY DEF PowerRun
<1> DEFINE T == {i \in 0 .. n : f[i] \in Nat}
<1>2. 0 \in T
  BY <1>1
<1>3. ASSUME NEW i \in 1 .. n, i - 1 \in T PROVE i \in T
  <2>1. i \in 0 .. n /\ i # 0
    OBVIOUS
  <2>2. f[i] = 10 * f[i - 1] /\ f[i - 1] \in Nat
    BY <1>1, <1>3, <2>1
  <2> QED
    BY <2>1, <2>2
<1> HIDE DEF T
<1>4. \A i \in 0 .. n : i \in T
  BY <1>2, <1>3, InductionUpTo
<1> QED
  BY <1>1, <1>4 DEF IsPower, T

LEMMA PowerUnique ==
  ASSUME NEW n \in Nat, NEW f, NEW g, IsPower(f, n), IsPower(g, n)
  PROVE  \A i \in 0 .. n : f[i] = g[i]
<1> DEFINE T == {i \in 0 .. n : f[i] = g[i]}
<1>1. 0 \in T
  BY DEF IsPower
<1>2. ASSUME NEW i \in 1 .. n, i - 1 \in T PROVE i \in T
  <2>1. i \in 0 .. n /\ i # 0 /\ f[i - 1] = g[i - 1]
    BY <1>2
  <2>2. f[i] = 10 * f[i - 1] /\ g[i] = 10 * g[i - 1]
    BY <2>1 DEF IsPower
  <2> QED
    BY <2>1, <2>2
<1> HIDE DEF T
<1>3. \A i \in 0 .. n : i \in T
  BY <1>1, <1>2, InductionUpTo
<1> QED
  BY <1>3 DEF T

Power(n) == CHOOSE f : PowerRun(n, f)

LEMMA PowerOfTenIs ==
  /\ PowerOfTen[0] = 1
  /\ \A n \in Nat : PowerOfTen[n] \in Nat
  /\ \A n \in Nat \ {0} : PowerOfTen[n] = 10 * PowerOfTen[n - 1]
<1>1. ASSUME NEW n \in Nat PROVE IsPower(Power(n), n)
  BY PowerRunExists, PowerRunIs DEF Power
<1>2. ASSUME NEW n \in Nat \ {0} PROVE Power(n)[n - 1] = Power(n - 1)[n - 1]
  <2>1. IsPower(Power(n), n) /\ IsPower(Power(n - 1), n - 1)
    BY <1>1
  <2>2. PICK f, g, m : f = Power(n) /\ g = Power(n - 1) /\ m = n - 1
    OBVIOUS
  <2>3. m \in Nat /\ IsPower(f, m) /\ IsPower(g, m)
    BY <2>1, <2>2 DEF IsPower
  <2>4. m \in 0 .. m
    BY <2>3
  <2> QED
    BY <2>2, <2>3, <2>4, PowerUnique
<1> DEFINE p == [n \in Nat |-> Power(n)[n]]
<1>3. /\ p[0] = 1
      /\ \A n \in Nat \ {0} : p[n] = 10 * p[n - 1]
      /\ \A n \in Nat : p[n] \in Nat
  <2>1. p[0] = 1
    <3>1. IsPower(Power(0), 0)
      BY <1>1
    <3> QED
      BY <3>1 DEF IsPower
  <2>2. ASSUME NEW n \in Nat \ {0} PROVE p[n] = 10 * p[n - 1]
    <3>1. n - 1 \in Nat /\ n \in 0 .. n /\ n # 0
      OBVIOUS
    <3>2. Power(n)[n] = 10 * Power(n)[n - 1]
      BY <1>1, <3>1 DEF IsPower
    <3> QED
      BY <1>2, <3>1, <3>2
  <2>3. ASSUME NEW n \in Nat PROVE p[n] \in Nat
    <3>1. n \in 0 .. n
      OBVIOUS
    <3> QED
      BY <1>1, <3>1 DEF IsPower
  <2> QED
    BY <2>1, <2>2, <2>3
<1>4. p = [n \in Nat |-> p[n]]
  OBVIOUS
<1> HIDE DEF p
<1>5. p = [n \in Nat |-> IF n = 0 THEN 1 ELSE 10 * p[n - 1]]
  BY <1>3, <1>4
<1>6. PowerOfTen = CHOOSE f : f = [n \in Nat |-> IF n = 0 THEN 1 ELSE 10 * f[n - 1]]
  BY DEF PowerOfTen
<1>7. PowerOfTen = [n \in Nat |-> IF n = 0 THEN 1 ELSE 10 * PowerOfTen[n - 1]]
  BY <1>5, <1>6
<1>8. /\ PowerOfTen[0] = 1
      /\ \A n \in Nat \ {0} : PowerOfTen[n] = 10 * PowerOfTen[n - 1]
  BY <1>7
<1>9. ASSUME NEW n \in Nat PROVE PowerOfTen[n] \in Nat
  <2> DEFINE T == {i \in 0 .. n : PowerOfTen[i] \in Nat}
  <2>1. 0 \in T
    BY <1>8
  <2>2. ASSUME NEW i \in 1 .. n, i - 1 \in T PROVE i \in T
    <3>1. i \in 0 .. n /\ i \in Nat \ {0} /\ PowerOfTen[i - 1] \in Nat
      BY <2>2
    <3>2. PowerOfTen[i] = 10 * PowerOfTen[i - 1]
      BY <1>8, <3>1
    <3> QED
      BY <3>1, <3>2
  <2> HIDE DEF T
  <2>3. n \in T
    BY <2>1, <2>2, InductionUpTo
  <2> QED
    BY <2>3 DEF T
<1> QED
  BY <1>8, <1>9

\* They grow, and so one exceeds any number.
LEMMA PowerGrows ==
  ASSUME NEW n \in Nat
  PROVE  /\ n < PowerOfTen[n]
         /\ \A i \in 0 .. n : PowerOfTen[i] <= PowerOfTen[n]
<1> DEFINE T == {m \in 0 .. n : /\ m < PowerOfTen[m]
                               /\ \A i \in 0 .. m : PowerOfTen[i] <= PowerOfTen[m]}
<1>1. 0 \in T
  BY PowerOfTenIs
<1>2. ASSUME NEW m \in 1 .. n, m - 1 \in T PROVE m \in T
  <2>1. PICK a, b : a = PowerOfTen[m - 1] /\ b = PowerOfTen[m]
    OBVIOUS
  <2>2. m - 1 < a /\ \A i \in 0 .. m - 1 : PowerOfTen[i] <= a
    BY <1>2, <2>1
  <2>3. m \in 0 .. n /\ a \in Nat /\ b \in Nat /\ b = 10 * a
    BY <2>1, PowerOfTenIs
  <2>4. m < b /\ a <= b
    BY <2>2, <2>3
  <2>5. ASSUME NEW i \in 0 .. m PROVE PowerOfTen[i] <= b
    <3>1. CASE i = m
      <4>1. PowerOfTen[i] = b
        BY <2>1, <3>1
      <4>2. b <= b
        BY <2>3
      <4> QED
        BY <4>1, <4>2
    <3>2. CASE i # m
      <4>1. i \in 0 .. m - 1 /\ PowerOfTen[i] \in Nat
        BY <3>2, PowerOfTenIs
      <4>2. PowerOfTen[i] <= a
        BY <2>2, <4>1
      <4> QED
        BY <2>3, <2>4, <4>1, <4>2
    <3> QED
      BY <3>1, <3>2
  <2> QED
    BY <2>1, <2>3, <2>4, <2>5
<1> HIDE DEF T
<1>3. n \in T
  BY <1>1, <1>2, InductionUpTo
<1> QED
  BY <1>3 DEF T

\* The word has values of MaxDigits digits, and none of more.
LEMMA MaxDigitsIs ==
  /\ MaxDigits \in Nat \ {0} /\ MinSafe \in Nat
  /\ MinSafe < WordSpan /\ WordSpan <= PowerOfTen[MaxDigits]
<1>1. WordSpan \in Nat /\ WordSpan > 1
  BY NumbersAssumption
<1> DEFINE T == {m \in Nat : WordSpan <= PowerOfTen[m]}
<1>2. PICK m \in T : \A e \in T : ~(e < m)
  <2>1. WordSpan \in T
    BY <1>1, PowerGrows, PowerOfTenIs
  <2>2. T \subseteq Nat /\ T # {}
    BY <2>1
  <2> HIDE DEF T
  <2> QED
    BY <2>2, SmallestMember
<1>3. m \in Nat /\ m # 0 /\ WordSpan <= PowerOfTen[m]
  BY <1>1, <1>2, PowerOfTenIs
<1>4. m <= WordSpan
  <2>1. WordSpan \in T
    BY <1>1, PowerGrows, PowerOfTenIs
  <2> QED
    BY <1>1, <1>2, <1>3, <2>1
<1>5. PowerOfTen[m - 1] < WordSpan
  <2>1. m - 1 \in Nat /\ m - 1 < m
    BY <1>3
  <2>2. m - 1 \notin T
    BY <1>2, <2>1
  <2> QED
    BY <1>1, <2>1, <2>2, PowerOfTenIs
<1>6. m \in 1 .. WordSpan
  BY <1>1, <1>3, <1>4
<1>7. /\ MaxDigits \in 1 .. WordSpan
      /\ PowerOfTen[MaxDigits - 1] < WordSpan /\ WordSpan <= PowerOfTen[MaxDigits]
  BY <1>3, <1>5, <1>6 DEF MaxDigits
<1> HIDE DEF MaxDigits
<1> QED
  BY <1>7, PowerOfTenIs DEF MinSafe

\* The function by which Value is defined, up to n.
ValueRun(digits, n, f) ==
  f = [i \in 0 .. n |-> IF i = 0 THEN 0
                        ELSE 10 * f[i - 1] + DigitValue[digits[i]]]

LEMMA ValueRunExists ==
  ASSUME NEW digits, NEW n \in Nat
  PROVE  \E f : ValueRun(digits, n, f)
<1> DEFINE T == {m \in Nat : \E f : ValueRun(digits, m, f)}
<1>1. 0 \in T
  <2> DEFINE f == [i \in 0 .. 0 |-> 0]
  <2>1. ValueRun(digits, 0, f)
    BY DEF ValueRun
  <2> QED
    BY <2>1
<1>2. ASSUME NEW d \in 1 .. n, d - 1 \in T PROVE d \in T
  <2>1. d - 1 \in Nat /\ d \in Nat
    OBVIOUS
  <2>2. PICK f : ValueRun(digits, d - 1, f)
    BY <1>2
  <2> DEFINE At(h, i) == IF i = 0 THEN 0
                         ELSE 10 * h[i - 1] + DigitValue[digits[i]]
             g == [i \in 0 .. d |-> At(f, i)]
  <2>3. \A i \in 0 .. d - 1 : f[i] = At(f, i)
    BY <2>2 DEF ValueRun
  <2>4. \A i \in 0 .. d : g[i] = At(f, i)
    OBVIOUS
  <2>5. g = [i \in 0 .. d |-> g[i]]
    OBVIOUS
  <2> HIDE DEF g
  <2>6. \A i \in 0 .. d - 1 : g[i] = f[i]
    <3> HIDE DEF At
    <3> QED
      BY <2>1, <2>3, <2>4
  <2>7. ASSUME NEW i \in 1 .. d PROVE g[i - 1] = f[i - 1]
    <3>1. i - 1 \in 0 .. d - 1
      BY <2>1
    <3> QED
      BY <2>6, <3>1
  <2>8. \A i \in 0 .. d : g[i] = At(g, i)
    BY <2>4, <2>7
  <2>9. ValueRun(digits, d, g)
    BY <2>5, <2>8 DEF ValueRun
  <2> QED
    BY <2>1, <2>9
<1> HIDE DEF T
<1>3. n \in T
  BY <1>1, <1>2, InductionUpTo
<1> QED
  BY <1>3 DEF T

\* The function by which WordValue is defined, up to n.
WordRun(digits, n, f) ==
  f = [i \in 0 .. n |-> IF i = 0 THEN 0
                        ELSE (10 * f[i - 1] + DigitValue[digits[i]]) % WordSpan]

LEMMA WordRunExists ==
  ASSUME NEW digits, NEW n \in Nat
  PROVE  \E f : WordRun(digits, n, f)
<1> DEFINE T == {m \in Nat : \E f : WordRun(digits, m, f)}
<1>1. 0 \in T
  <2> DEFINE f == [i \in 0 .. 0 |-> 0]
  <2>1. WordRun(digits, 0, f)
    BY DEF WordRun
  <2> QED
    BY <2>1
<1>2. ASSUME NEW d \in 1 .. n, d - 1 \in T PROVE d \in T
  <2>1. d - 1 \in Nat /\ d \in Nat
    OBVIOUS
  <2>2. PICK f : WordRun(digits, d - 1, f)
    BY <1>2
  <2> DEFINE At(h, i) == IF i = 0 THEN 0
                         ELSE (10 * h[i - 1] + DigitValue[digits[i]]) % WordSpan
             g == [i \in 0 .. d |-> At(f, i)]
  <2>3. \A i \in 0 .. d - 1 : f[i] = At(f, i)
    BY <2>2 DEF WordRun
  <2>4. \A i \in 0 .. d : g[i] = At(f, i)
    OBVIOUS
  <2>5. g = [i \in 0 .. d |-> g[i]]
    OBVIOUS
  <2> HIDE DEF g
  <2>6. \A i \in 0 .. d - 1 : g[i] = f[i]
    <3> HIDE DEF At
    <3> QED
      BY <2>1, <2>3, <2>4
  <2>7. ASSUME NEW i \in 1 .. d PROVE g[i - 1] = f[i - 1]
    <3>1. i - 1 \in 0 .. d - 1
      BY <2>1
    <3> QED
      BY <2>6, <3>1
  <2>8. \A i \in 0 .. d : g[i] = At(g, i)
    BY <2>4, <2>7
  <2>9. WordRun(digits, d, g)
    BY <2>5, <2>8 DEF WordRun
  <2> QED
    BY <2>1, <2>9
<1> HIDE DEF T
<1>3. n \in T
  BY <1>1, <1>2, InductionUpTo
<1> QED
  BY <1>3 DEF T

Decimals == Seq(DOMAIN DigitValue)

LEMMA DigitIs ==
  ASSUME NEW c \in DOMAIN DigitValue
  PROVE  DigitValue[c] \in 0 .. 9 /\ (c # "0" => DigitValue[c] >= 1)
BY NumbersAssumption

\* The value of the first digits, for every number of them.
IsValue(digits, n, f) ==
  \A i \in 0 .. n :
    f[i] \in Nat /\ f[i] = IF i = 0 THEN 0 ELSE 10 * f[i - 1] + DigitValue[digits[i]]

LEMMA ValueRunIs ==
  ASSUME NEW digits, NEW n \in Nat, NEW f, ValueRun(digits, n, f),
         \A i \in 1 .. n : digits[i] \in DOMAIN DigitValue
  PROVE  IsValue(digits, n, f)
<1>1. \A i \in 0 .. n : f[i] = IF i = 0 THEN 0 ELSE 10 * f[i - 1] + DigitValue[digits[i]]
  BY DEF ValueRun
<1> DEFINE T == {i \in 0 .. n : f[i] \in Nat}
<1>2. 0 \in T
  <2>1. 0 \in 0 .. n
    OBVIOUS
  <2>2. f[0] = 0
    BY <1>1, <2>1, Zenon
  <2> QED
    BY <2>1, <2>2
<1>3. ASSUME NEW i \in 1 .. n, i - 1 \in T PROVE i \in T
  <2>1. i \in 0 .. n /\ i # 0 /\ digits[i] \in DOMAIN DigitValue
    OBVIOUS
  <2>2. f[i] = 10 * f[i - 1] + DigitValue[digits[i]] /\ f[i - 1] \in Nat
    BY <1>1, <1>3, <2>1
  <2>3. DigitValue[digits[i]] \in 0 .. 9
    BY <2>1, DigitIs
  <2> QED
    BY <2>1, <2>2, <2>3
<1> HIDE DEF T
<1>4. \A i \in 0 .. n : i \in T
  BY <1>2, <1>3, InductionUpTo
<1> QED
  BY <1>1, <1>4 DEF IsValue, T

LEMMA ValueIs ==
  ASSUME NEW digits \in Decimals
  PROVE  \E f : IsValue(digits, Len(digits), f) /\ Value(digits) = f[Len(digits)]
<1>1. Len(digits) \in Nat /\ \A i \in 1 .. Len(digits) : digits[i] \in DOMAIN DigitValue
  BY LenProperties, ElementOfSeq DEF Decimals
<1> DEFINE f == CHOOSE g : ValueRun(digits, Len(digits), g)
<1>2. ValueRun(digits, Len(digits), f)
  BY <1>1, ValueRunExists
<1>3. Value(digits) = f[Len(digits)]
  BY DEF Value, ValueRun
<1> HIDE DEF f
<1> QED
  BY <1>1, <1>2, <1>3, ValueRunIs

\* One step of it.
LEMMA ValueStep ==
  ASSUME NEW digits \in Decimals, NEW f, IsValue(digits, Len(digits), f),
         NEW i \in 1 .. Len(digits)
  PROVE  /\ i \in 0 .. Len(digits) /\ i - 1 \in 0 .. Len(digits)
         /\ f[i - 1] \in Nat /\ f[i] \in Nat /\ DigitValue[digits[i]] \in 0 .. 9
         /\ f[i] = 10 * f[i - 1] + DigitValue[digits[i]]
<1>1. Len(digits) \in Nat /\ digits[i] \in DOMAIN DigitValue
  BY LenProperties, ElementOfSeq DEF Decimals
<1>2. i \in 0 .. Len(digits) /\ i - 1 \in 0 .. Len(digits) /\ i # 0
  BY <1>1
<1> QED
  BY <1>1, <1>2, DigitIs DEF IsValue

\* Of n digits, without a zero in front, there is a number of n digits.
LEMMA ValueBounds ==
  ASSUME NEW digits \in Decimals
  PROVE  /\ Value(digits) \in Nat
         /\ Value(digits) < PowerOfTen[Len(digits)]
         /\ Len(digits) > 0 /\ digits[1] # "0" =>
              PowerOfTen[Len(digits) - 1] <= Value(digits)
<1>1. PICK f, n : /\ n = Len(digits) /\ IsValue(digits, n, f)
                  /\ Value(digits) = f[n]
  BY ValueIs
<1>2. n \in Nat
  BY <1>1, LenProperties DEF Decimals
<1>3. f[0] = 0 /\ f[n] \in Nat
  BY <1>1, <1>2 DEF IsValue
<1>4. f[n] < PowerOfTen[n]
  <2> DEFINE T == {i \in 0 .. n : f[i] < PowerOfTen[i]}
  <2>1. 0 \in T
    BY <1>2, <1>3, PowerOfTenIs
  <2>2. ASSUME NEW i \in 1 .. n, i - 1 \in T PROVE i \in T
    <3>1. PICK a, b, d, p, q : /\ a = f[i - 1] /\ b = f[i] /\ d = DigitValue[digits[i]]
                               /\ p = PowerOfTen[i - 1] /\ q = PowerOfTen[i]
      OBVIOUS
    <3>2. a \in Nat /\ b \in Nat /\ d \in 0 .. 9 /\ b = 10 * a + d
      BY <1>1, <3>1, ValueStep
    <3>3. i - 1 \in Nat /\ i \in Nat \ {0} /\ i \in 0 .. n
      BY <1>2
    <3>4. p \in Nat /\ q \in Nat /\ q = 10 * p
      BY <3>1, <3>3, PowerOfTenIs
    <3>5. a < p
      BY <2>2, <3>1
    <3>6. b < q
      BY <3>2, <3>4, <3>5
    <3> QED
      BY <3>1, <3>3, <3>6
  <2> HIDE DEF T
  <2>3. n \in T
    BY <1>2, <2>1, <2>2, InductionUpTo
  <2> QED
    BY <2>3 DEF T
<1>5. ASSUME n > 0, digits[1] # "0" PROVE PowerOfTen[n - 1] <= f[n]
  <2> DEFINE T == {i \in 0 .. n : i = 0 \/ PowerOfTen[i - 1] <= f[i]}
  <2>1. 0 \in T
    BY <1>2
  <2>2. ASSUME NEW i \in 1 .. n, i - 1 \in T PROVE i \in T
    <3>1. PICK a, b, d, p : /\ a = f[i - 1] /\ b = f[i] /\ d = DigitValue[digits[i]]
                            /\ p = PowerOfTen[i - 1]
      OBVIOUS
    <3>2. a \in Nat /\ b \in Nat /\ d \in 0 .. 9 /\ b = 10 * a + d
      BY <1>1, <3>1, ValueStep
    <3>3. i - 1 \in Nat /\ i \in 0 .. n
      BY <1>2
    <3>4. CASE i = 1
      <4>1. digits[1] \in DOMAIN DigitValue
        BY <1>1, <1>2, <1>5, ElementOfSeq DEF Decimals
      <4>2. d >= 1
        BY <1>5, <3>1, <3>4, <4>1, DigitIs
      <4>3. p = 1
        BY <3>1, <3>4, PowerOfTenIs
      <4>4. p <= b
        BY <3>2, <4>2, <4>3
      <4> QED
        BY <3>1, <3>3, <4>4
    <3>5. CASE i # 1
      <4>1. PICK q : q = PowerOfTen[i - 1 - 1]
        OBVIOUS
      <4>2. i - 1 \in Nat \ {0} /\ i - 1 - 1 \in Nat
        BY <3>3, <3>5
      <4>3. q \in Nat /\ p \in Nat /\ p = 10 * q
        BY <3>1, <4>1, <4>2, PowerOfTenIs
      <4>4. q <= a
        BY <2>2, <3>1, <4>1, <4>2
      <4>5. p <= b
        BY <3>2, <4>3, <4>4
      <4> QED
        BY <3>1, <3>3, <4>5
    <3> QED
      BY <3>4, <3>5
  <2> HIDE DEF T
  <2>3. n \in T
    BY <1>2, <2>1, <2>2, InductionUpTo
  <2> QED
    BY <1>2, <1>5, <2>3 DEF T
<1> QED
  BY <1>1, <1>3, <1>4, <1>5

\* The word holds the value of the digits when it can.
LEMMA WordValueIs ==
  ASSUME NEW digits \in Decimals, Value(digits) < WordSpan
  PROVE  WordValue(digits) = Value(digits)
<1>1. PICK f, n : /\ n = Len(digits) /\ IsValue(digits, n, f)
                  /\ Value(digits) = f[n]
  BY ValueIs
<1>2. n \in Nat /\ WordSpan \in Nat \ {0}
  BY <1>1, LenProperties, NumbersAssumption DEF Decimals
<1> DEFINE w == CHOOSE g : WordRun(digits, Len(digits), g)
<1>3. WordRun(digits, Len(digits), w)
  BY <1>1, <1>2, WordRunExists
<1>4. WordValue(digits) = w[Len(digits)]
  BY DEF WordValue, WordRun
<1> HIDE DEF w
<1>5. \A i \in 0 .. n : w[i] = IF i = 0 THEN 0
                               ELSE (10 * w[i - 1] + DigitValue[digits[i]]) % WordSpan
  BY <1>1, <1>3 DEF WordRun
<1>6. f[0] = 0
  BY <1>1, <1>2 DEF IsValue
<1> DEFINE T == {i \in 0 .. n : f[i] < WordSpan => w[i] = f[i]}
<1>7. 0 \in T
  BY <1>2, <1>5, <1>6
<1>8. ASSUME NEW i \in 1 .. n, i - 1 \in T PROVE i \in T
  <2>1. PICK a, b, d : a = f[i - 1] /\ b = f[i] /\ d = DigitValue[digits[i]]
    OBVIOUS
  <2>2. a \in Nat /\ b \in Nat /\ d \in 0 .. 9 /\ b = 10 * a + d
    BY <1>1, <2>1, ValueStep
  <2>3. i \in 0 .. n /\ i # 0
    BY <1>2
  <2>4. ASSUME b < WordSpan PROVE w[i] = b
    <3>1. a < WordSpan
      BY <1>2, <2>2, <2>4
    <3>2. w[i - 1] = a
      BY <1>8, <2>1, <3>1
    <3>3. w[i] = (10 * a + d) % WordSpan
      BY <1>5, <2>1, <2>3, <3>2
    <3>4. w[i] = b % WordSpan
      BY <2>2, <3>3
    <3>5. b % WordSpan = b
      BY <1>2, <2>2, <2>4
    <3> QED
      BY <3>4, <3>5
  <2> QED
    BY <2>1, <2>3, <2>4
<1> HIDE DEF T
<1>9. n \in T
  BY <1>2, <1>7, <1>8, InductionUpTo
<1> QED
  BY <1>1, <1>4, <1>9 DEF T

\* What it holds otherwise is a number all the same.
LEMMA WordValueType ==
  ASSUME NEW digits \in Decimals
  PROVE  WordValue(digits) \in Nat
<1>1. PICK n : n = Len(digits)
  OBVIOUS
<1>2. n \in Nat /\ WordSpan \in Nat \ {0}
  BY <1>1, LenProperties, NumbersAssumption DEF Decimals
<1> DEFINE w == CHOOSE g : WordRun(digits, Len(digits), g)
<1>3. WordRun(digits, Len(digits), w)
  BY <1>1, <1>2, WordRunExists
<1>4. WordValue(digits) = w[Len(digits)]
  BY DEF WordValue, WordRun
<1> HIDE DEF w
<1>5. \A i \in 0 .. n : w[i] = IF i = 0 THEN 0
                               ELSE (10 * w[i - 1] + DigitValue[digits[i]]) % WordSpan
  BY <1>1, <1>3 DEF WordRun
<1> DEFINE T == {i \in 0 .. n : w[i] \in Nat}
<1>6. 0 \in T
  <2>1. 0 \in 0 .. n
    BY <1>2
  <2>2. w[0] = 0
    BY <1>5, <2>1, Zenon
  <2> QED
    BY <2>1, <2>2
<1>7. ASSUME NEW i \in 1 .. n, i - 1 \in T PROVE i \in T
  <2>1. PICK a, d : a = w[i - 1] /\ d = DigitValue[digits[i]]
    OBVIOUS
  <2>2. digits[i] \in DOMAIN DigitValue
    BY <1>1, ElementOfSeq DEF Decimals
  <2>3. a \in Nat /\ d \in 0 .. 9 /\ i \in 0 .. n /\ i # 0
    BY <1>2, <1>7, <2>1, <2>2, DigitIs
  <2>4. w[i] = (10 * a + d) % WordSpan
    BY <1>5, <2>1, <2>3
  <2>5. (10 * a + d) % WordSpan \in Nat
    BY <1>2, <2>3
  <2> QED
    BY <2>3, <2>4, <2>5
<1> HIDE DEF T
<1>8. n \in T
  BY <1>2, <1>6, <1>7, InductionUpTo
<1> QED
  BY <1>1, <1>4, <1>8 DEF T

\* Zeros in front change nothing.
LEMMA LeadingZeros ==
  ASSUME NEW u \in Decimals, NEW v \in Decimals, NEW k \in Nat,
         Len(u) = k + Len(v),
         \A i \in 1 .. k : u[i] = "0",
         \A i \in 1 .. Len(v) : u[k + i] = v[i]
  PROVE  Value(u) = Value(v)
<1>1. PICK f, n : n = Len(u) /\ IsValue(u, n, f) /\ Value(u) = f[n]
  BY ValueIs
<1>2. PICK g, m : m = Len(v) /\ IsValue(v, m, g) /\ Value(v) = g[m]
  BY ValueIs
<1>3. n \in Nat /\ m \in Nat /\ n = k + m
  BY <1>1, <1>2, LenProperties DEF Decimals
<1>4. f[0] = 0 /\ g[0] = 0
  BY <1>1, <1>2, <1>3 DEF IsValue
<1>5. f[k] = 0
  <2> DEFINE T == {i \in 0 .. k : f[i] = 0}
  <2>1. 0 \in T
    BY <1>4
  <2>2. ASSUME NEW i \in 1 .. k, i - 1 \in T PROVE i \in T
    <3>1. i \in 1 .. n /\ i \in 0 .. k /\ f[i - 1] = 0
      BY <1>3, <2>2
    <3>2. DigitValue[u[i]] = 0
      BY NumbersAssumption
    <3>3. f[i] = 10 * f[i - 1] + DigitValue[u[i]]
      BY <1>1, <3>1, ValueStep
    <3>4. f[i] = 0
      BY <3>1, <3>2, <3>3
    <3> QED
      BY <3>1, <3>4
  <2> HIDE DEF T
  <2>3. \A i \in 1 .. k : i - 1 \in T => i \in T
    BY <2>2
  <2>4. k \in 0 .. k
    OBVIOUS
  <2>5. k \in T
    BY <2>1, <2>3, <2>4, InductionUpTo
  <2> QED
    BY <2>5 DEF T
<1>6. f[k + m] = g[m]
  <2> DEFINE T == {i \in 0 .. m : f[k + i] = g[i]}
  <2>1. 0 \in T
    <3>1. k + 0 = k /\ 0 \in 0 .. m
      BY <1>3
    <3> QED
      BY <1>4, <1>5, <3>1
  <2>2. ASSUME NEW i \in 1 .. m, i - 1 \in T PROVE i \in T
    <3>1. PICK j : j = k + i
      OBVIOUS
    <3>2. j \in 1 .. n /\ j - 1 = k + (i - 1) /\ i \in 0 .. m
      BY <1>3, <3>1
    <3>3. f[j - 1] = g[i - 1]
      BY <2>2, <3>2
    <3>4. u[j] = v[i]
      BY <1>2, <3>1
    <3>5. f[j] = 10 * f[j - 1] + DigitValue[u[j]]
      BY <1>1, <3>2, ValueStep
    <3>6. g[i] = 10 * g[i - 1] + DigitValue[v[i]]
      BY <1>2, ValueStep
    <3>7. f[j] = g[i]
      BY <3>3, <3>4, <3>5, <3>6
    <3> QED
      BY <3>1, <3>2, <3>7
  <2> HIDE DEF T
  <2>3. \A i \in 1 .. m : i - 1 \in T => i \in T
    BY <2>2
  <2>4. m \in Nat /\ m \in 0 .. m
    BY <1>3
  <2>5. m \in T
    BY <2>1, <2>3, <2>4, InductionUpTo
  <2> QED
    BY <2>5 DEF T
<1> QED
  BY <1>1, <1>2, <1>3, <1>6

Word == NumberTypes["uint64"]

\* What the limits of a type have to do with the word.
IsType(T) ==
  /\ T.signed \in BOOLEAN /\ T.max \in Nat
  /\ T = Word => T.signed = FALSE /\ T.max = WordSpan - 1
  /\ T # Word => T.max + 1 < MinSafe

LEMMA NumberTypesAre ==
  ASSUME NEW type \in DOMAIN NumberTypes
  PROVE  IsType(NumberTypes[type])
<1>1. WordSpan \in Nat /\ WordSpan > 1
  BY NumbersAssumption
<1>2. Word.signed = FALSE /\ Word.max = WordSpan - 1
  BY NumbersAssumption DEF Word
<1>3. CASE type = "uint64"
  <2>1. NumberTypes[type] = Word
    BY <1>3 DEF Word
  <2>2. Word.max \in Nat
    BY <1>1, <1>2
  <2>3. Word.signed \in BOOLEAN
    BY <1>2, Zenon
  <2>4. IsType(Word)
    BY <1>2, <2>2, <2>3, Zenon DEF IsType
  <2> QED
    BY <2>1, <2>4
<1>4. CASE type # "uint64"
  <2>1. PICK T : T = NumberTypes[type]
    OBVIOUS
  <2>2. T.signed \in BOOLEAN /\ T.max \in Nat /\ T.max + 1 < MinSafe
    BY <1>4, <2>1, NumbersAssumption
  <2>3. T # Word
    BY <1>1, <1>2, <2>2, MaxDigitsIs
  <2> QED
    BY <2>1, <2>2, <2>3 DEF IsType
<1> QED
  BY <1>3, <1>4

\* What the two make of digits that they found.
ReadOf(T, negative, digits, end) ==
  IF WordOverflow(digits) THEN OutOfRange
  ELSE IF T # Word /\ WordValue(digits) > T.max + (IF negative THEN 1 ELSE 0)
       THEN OutOfRange
  ELSE Parsed(IF negative THEN -WordValue(digits) ELSE WordValue(digits), end)

ExactOf(T, negative, n, end) ==
  IF n > T.max + (IF negative THEN 1 ELSE 0) THEN OutOfRange
  ELSE Parsed(IF negative THEN -n ELSE n, end)

\* The word wrapped, and what is left has the digits of a number that fits.
Wrapped(T, read, exact) ==
  T = Word /\ exact = OutOfRange /\ read.ec = "ok" /\ read.value >= MinSafe

LEMMA DigitsRead ==
  ASSUME NEW T, IsType(T), NEW negative \in BOOLEAN, negative => T.signed,
         NEW digits \in Decimals, Len(digits) > 0, digits[1] # "0", NEW end
  PROVE  \/ ReadOf(T, negative, digits, end) = ExactOf(T, negative, Value(digits), end)
         \/ Wrapped(T, ReadOf(T, negative, digits, end),
                    ExactOf(T, negative, Value(digits), end))
<1>1. PICK n, w, more, L : /\ n = Value(digits) /\ w = WordValue(digits)
                           /\ more = T.max + (IF negative THEN 1 ELSE 0)
                           /\ L = Len(digits)
  OBVIOUS
<1>2. L \in Nat /\ L > 0
  BY <1>1, LenProperties DEF Decimals
<1>3. n \in Nat /\ n < PowerOfTen[L] /\ PowerOfTen[L - 1] <= n
  BY <1>1, ValueBounds
<1>4. /\ MaxDigits \in Nat \ {0} /\ MinSafe \in Nat /\ WordSpan \in Nat
      /\ MinSafe < WordSpan /\ WordSpan <= PowerOfTen[MaxDigits]
  BY MaxDigitsIs, NumbersAssumption
<1>5. /\ more \in Nat
      /\ T = Word => more = WordSpan - 1
      /\ T # Word => more < MinSafe
  <2>1. T.max \in Nat
    BY DEF IsType
  <2>2. T = Word => ~negative /\ T.max = WordSpan - 1
    BY DEF IsType
  <2>3. T # Word => T.max + 1 < MinSafe
    BY DEF IsType
  <2> QED
    BY <1>1, <1>4, <2>1, <2>2, <2>3
<1>6. n < WordSpan => w = n
  BY <1>1, WordValueIs
<1>7. WordOverflow(digits) <=> L > MaxDigits \/ (L = MaxDigits /\ w < MinSafe)
  BY <1>1 DEF WordOverflow
<1>8. CASE L > MaxDigits
  <2>1. L - 1 \in Nat /\ MaxDigits \in 0 .. L - 1
    BY <1>2, <1>4, <1>8
  <2>2. PICK p, q : p = PowerOfTen[MaxDigits] /\ q = PowerOfTen[L - 1]
    OBVIOUS
  <2>3. p <= q /\ p \in Nat /\ q \in Nat
    BY <1>4, <2>1, <2>2, PowerGrows, PowerOfTenIs
  <2>4. n >= WordSpan
    BY <1>3, <1>4, <2>2, <2>3
  <2>5. n > more
    BY <1>3, <1>4, <1>5, <2>4
  <2>6. ExactOf(T, negative, n, end) = OutOfRange
    BY <1>1, <2>5 DEF ExactOf
  <2>7. ReadOf(T, negative, digits, end) = OutOfRange
    BY <1>7, <1>8 DEF ReadOf
  <2> QED
    BY <1>1, <2>6, <2>7
<1>9. CASE L = MaxDigits /\ w < MinSafe
  <2>1. n >= MinSafe
    BY <1>1, <1>3, <1>9 DEF MinSafe
  <2>2. n >= WordSpan
    BY <1>3, <1>4, <1>6, <1>9, <2>1
  <2>3. n > more
    BY <1>3, <1>4, <1>5, <2>2
  <2>4. ExactOf(T, negative, n, end) = OutOfRange
    BY <1>1, <2>3 DEF ExactOf
  <2>5. ReadOf(T, negative, digits, end) = OutOfRange
    BY <1>7, <1>9 DEF ReadOf
  <2> QED
    BY <1>1, <2>4, <2>5
<1>10. CASE n < WordSpan /\ ~WordOverflow(digits)
  <2>1. ReadOf(T, negative, digits, end) =
          IF T # Word /\ n > more THEN OutOfRange
          ELSE Parsed(IF negative THEN -n ELSE n, end)
    BY <1>1, <1>6, <1>10 DEF ReadOf
  <2>2. ExactOf(T, negative, n, end) =
          IF n > more THEN OutOfRange ELSE Parsed(IF negative THEN -n ELSE n, end)
    BY <1>1 DEF ExactOf
  <2>3. T = Word => ~(n > more)
    BY <1>3, <1>4, <1>5, <1>10
  <2> QED
    BY <1>1, <2>1, <2>2, <2>3
<1>11. CASE n >= WordSpan /\ ~WordOverflow(digits)
  <2>1. L = MaxDigits
    <3> SUFFICES ASSUME L < MaxDigits PROVE FALSE
      BY <1>2, <1>4, <1>7, <1>11
    <3>1. MaxDigits - 1 \in Nat /\ L \in 0 .. MaxDigits - 1
      BY <1>2, <1>4
    <3>2. PICK p, q : p = PowerOfTen[L] /\ q = PowerOfTen[MaxDigits - 1]
      OBVIOUS
    <3>3. p \in Nat /\ q \in Nat /\ p <= q
      BY <1>2, <3>1, <3>2, PowerGrows, PowerOfTenIs
    <3>4. q = MinSafe
      BY <3>2 DEF MinSafe
    <3>5. n < p
      BY <1>3, <3>2
    <3> QED
      BY <1>3, <1>4, <1>11, <3>3, <3>4, <3>5
  <2>2. ~(w < MinSafe)
    BY <1>7, <1>11, <2>1
  <2>3. w \in Nat
    BY <1>1, WordValueType
  <2>4. w >= MinSafe
    BY <1>4, <2>2, <2>3
  <2>5. ExactOf(T, negative, n, end) = OutOfRange
    <3>1. n > more
      BY <1>3, <1>4, <1>5, <1>11
    <3> QED
      BY <1>1, <3>1 DEF ExactOf
  <2>6. CASE T # Word
    <3>1. w > more
      BY <1>4, <1>5, <2>3, <2>4, <2>6
    <3>2. ReadOf(T, negative, digits, end) = OutOfRange
      BY <1>1, <1>11, <2>6, <3>1 DEF ReadOf
    <3> QED
      BY <1>1, <2>5, <3>2
  <2>7. CASE T = Word
    <3>1. ~negative
      BY <2>7 DEF IsType
    <3>2. ReadOf(T, negative, digits, end) = Parsed(w, end)
      BY <1>1, <1>11, <2>7, <3>1 DEF ReadOf
    <3>3. Parsed(w, end).ec = "ok" /\ Parsed(w, end).value = w
      BY DEF Parsed
    <3> QED
      BY <1>1, <2>4, <2>5, <2>7, <3>2, <3>3 DEF Wrapped
  <2> QED
    BY <2>6, <2>7
<1> QED
  BY <1>3, <1>4, <1>7, <1>8, <1>9, <1>10, <1>11

LEMMA MinusZero == -0 = 0
<1>1. \A z \in Int : -z = 0 - z
  OBVIOUS
<1>2. 0 \in Int
  OBVIOUS
<1>3. -0 = 0 - 0
  BY <1>1, <1>2, Zenon
<1>4. 0 - 0 = 0
  OBVIOUS
<1> QED
  BY <1>3, <1>4, Zenon

LEMMA ValueEmpty ==
  ASSUME NEW digits \in Decimals, digits = <<>>
  PROVE  Value(digits) = 0
<1>1. PICK f, n : n = Len(digits) /\ IsValue(digits, n, f) /\ Value(digits) = f[n]
  BY ValueIs
<1>2. n = 0
  BY <1>1
<1> QED
  BY <1>1, <1>2 DEF IsValue

LEMMA IntegerRead ==
  ASSUME NEW C, NEW t \in Seq(C), NEW T, IsType(T)
  PROVE  \/ FromCharsInt(T, t) = StdFromChars(T, t)
         \/ Wrapped(T, FromCharsInt(T, t), StdFromChars(T, t))
<1>1. Len(t) \in Nat /\ DOMAIN t = 1 .. Len(t)
  BY LenProperties
<1>2. /\ "-" \notin DOMAIN DigitValue /\ "0" \in DOMAIN DigitValue
      /\ T.signed \in BOOLEAN /\ T.max \in Nat
  BY NumbersAssumption DEF IsType
<1>3. CASE t = <<>>
  <2>1. DigitsEnd(t, 1) \in 1 .. Len(t) + 1
    BY <1>1, DigitsEndIs
  <2>2. DigitsEnd(t, 1) = 1
    BY <1>3, <2>1
  <2>3. StdFromChars(T, t) = Invalid
    BY <1>3, <2>2 DEF StdFromChars
  <2>4. FromCharsInt(T, t) = Invalid
    BY <1>3 DEF FromCharsInt
  <2> QED
    BY <2>3, <2>4
<1>4. CASE t # <<>> /\ t[1] = "-" /\ ~T.signed
  <2>1. Len(t) >= 1
    BY <1>1, <1>4, EmptyIffLen
  <2>2. /\ DigitsEnd(t, 1) \in 1 .. Len(t) + 1
        /\ \A i \in 1 .. DigitsEnd(t, 1) - 1 : t[i] \in DOMAIN DigitValue
    BY <1>1, DigitsEndIs
  <2>3. DigitsEnd(t, 1) = 1
    <3>1. ~(DigitsEnd(t, 1) > 1)
      BY <1>2, <1>4, <2>2
    <3> QED
      BY <1>1, <2>2, <3>1
  <2>4. StdFromChars(T, t) = Invalid
    BY <1>4, <2>3 DEF StdFromChars
  <2>5. FromCharsInt(T, t) = Invalid
    BY <1>4 DEF FromCharsInt
  <2> QED
    BY <2>4, <2>5
<1>5. CASE t # <<>> /\ ~(t[1] = "-" /\ ~T.signed)
  <2>1. PICK negative, start, zeros, end, digits, all :
          /\ negative = (t[1] = "-")
          /\ start = (IF negative THEN 2 ELSE 1)
          /\ zeros = FirstFrom(t, start, NotIn(t, {"0"}))
          /\ end = DigitsEnd(t, zeros)
          /\ digits = SubSeq(t, zeros, end - 1)
          /\ all = SubSeq(t, start, end - 1)
    OBVIOUS
  <2>2. negative \in BOOLEAN /\ (negative => T.signed)
    BY <1>5, <2>1
  <2>3. Len(t) >= 1 /\ start \in 1 .. Len(t) + 1
    <3>1. Len(t) >= 1
      BY <1>1, <1>5, EmptyIffLen
    <3> QED
      BY <1>1, <2>1, <3>1
  <2>4. IsFirst(zeros, start, Len(t), NotIn(t, {"0"}))
    BY <2>1, <2>3, FirstIs
  <2>5. /\ zeros \in start .. Len(t) + 1
        /\ \A i \in start .. zeros - 1 : t[i] = "0"
        /\ zeros <= Len(t) => t[zeros] # "0"
    <3>1. zeros \in start .. Len(t) + 1
      BY <2>4 DEF IsFirst
    <3>2. ASSUME NEW i \in start .. zeros - 1 PROVE t[i] = "0"
      <4>1. i \notin NotIn(t, {"0"})
        BY <2>4 DEF IsFirst
      <4>2. i \in DOMAIN t
        BY <1>1, <2>3, <3>1
      <4> QED
        BY <4>1, <4>2 DEF NotIn
    <3>3. zeros <= Len(t) => t[zeros] # "0"
      BY <2>4 DEF IsFirst, NotIn
    <3> QED
      BY <3>1, <3>2, <3>3
  <2>6. zeros \in 1 .. Len(t) + 1
    BY <1>1, <2>3, <2>5
  <2>7. /\ end \in zeros .. Len(t) + 1
        /\ \A i \in zeros .. end - 1 : t[i] \in DOMAIN DigitValue
        /\ end <= Len(t) => t[end] \notin DOMAIN DigitValue
    BY <2>1, <2>6, DigitsEndIs
  <2>8. \A i \in start .. end - 1 : t[i] \in DOMAIN DigitValue
    <3> TAKE i \in start .. end - 1
    <3>1. CASE i < zeros
      <4>1. i \in start .. zeros - 1
        BY <1>1, <2>3, <2>6, <2>7, <3>1
      <4> QED
        BY <1>2, <2>5, <4>1
    <3>2. CASE ~(i < zeros)
      <4>1. i \in zeros .. end - 1
        BY <1>1, <2>3, <2>6, <2>7, <3>2
      <4> QED
        BY <2>7, <4>1
    <3> QED
      BY <3>1, <3>2
  <2>9. DigitsEnd(t, start) = end
    <3>1. IsFirst(end, start, Len(t), NotIn(t, DOMAIN DigitValue))
      <4>1. end \in start .. Len(t) + 1
        BY <1>1, <2>3, <2>5, <2>7
      <4>2. end <= Len(t) => end \in DOMAIN t
        BY <1>1, <2>3, <4>1
      <4> QED
        BY <2>7, <2>8, <4>1, <4>2 DEF IsFirst, NotIn
    <3>2. IsFirst(DigitsEnd(t, start), start, Len(t), NotIn(t, DOMAIN DigitValue))
      BY <2>3, FirstIs DEF DigitsEnd
    <3>3. PICK I, e : I = NotIn(t, DOMAIN DigitValue) /\ e = DigitsEnd(t, start)
      OBVIOUS
    <3>4. IsFirst(end, start, Len(t), I) /\ IsFirst(e, start, Len(t), I)
      BY <3>1, <3>2, <3>3
    <3>5. e = end
      BY <1>1, <2>3, <3>4, FirstUnique
    <3> QED
      BY <3>3, <3>5
  <2>10. FromCharsInt(T, t) =
           IF digits = <<>>
           THEN IF zeros > start THEN Parsed(0, end) ELSE Invalid
           ELSE ReadOf(T, negative, digits, end)
    BY <1>5, <2>1 DEF FromCharsInt, ReadOf, Word
  <2>11. StdFromChars(T, t) = IF end = start THEN Invalid
                              ELSE ExactOf(T, negative, Value(all), end)
    <3>1. (t # <<>> /\ t[1] = "-" /\ T.signed) = negative
      BY <1>5, <2>1
    <3> QED
      BY <2>1, <2>9, <3>1 DEF StdFromChars, ExactOf
  <2>12. end - 1 \in 0 .. Len(t)
    BY <1>1, <2>6, <2>7
  <2>13. /\ digits \in Seq(C) /\ Len(digits) = end - zeros
         /\ \A i \in 1 .. end - zeros : digits[i] = t[zeros + i - 1]
    <3>1. PICK b : b = end - 1
      OBVIOUS
    <3>2. /\ digits \in Seq(C) /\ Len(digits) = IF zeros <= b THEN b - zeros + 1 ELSE 0
          /\ \A i \in 1 .. b - zeros + 1 : digits[i] = t[zeros + i - 1]
      BY <2>1, <2>6, <2>12, <3>1, PartIs, SMTT(30)
    <3>3. /\ (IF zeros <= b THEN b - zeros + 1 ELSE 0) = end - zeros
          /\ b - zeros + 1 = end - zeros
      BY <1>1, <2>6, <2>7, <3>1
    <3> QED
      BY <3>2, <3>3
  <2>14. /\ all \in Seq(C) /\ Len(all) = end - start
         /\ \A i \in 1 .. end - start : all[i] = t[start + i - 1]
    <3>1. PICK b : b = end - 1
      OBVIOUS
    <3>2. /\ all \in Seq(C) /\ Len(all) = IF start <= b THEN b - start + 1 ELSE 0
          /\ \A i \in 1 .. b - start + 1 : all[i] = t[start + i - 1]
      BY <2>1, <2>3, <2>12, <3>1, PartIs
    <3>3. /\ (IF start <= b THEN b - start + 1 ELSE 0) = end - start
          /\ b - start + 1 = end - start
      BY <1>1, <2>3, <2>5, <2>7, <3>1
    <3> QED
      BY <3>2, <3>3
  <2>15. /\ start \in Nat /\ zeros \in Nat /\ end \in Nat
         /\ start <= zeros /\ zeros <= end
    BY <1>1, <2>3, <2>5, <2>7
  <2>16. digits \in Decimals /\ all \in Decimals
    <3>1. ASSUME NEW i \in 1 .. end - zeros PROVE digits[i] \in DOMAIN DigitValue
      <4>1. zeros + i - 1 \in zeros .. end - 1
        BY <2>15
      <4> QED
        BY <2>7, <2>13, <4>1
    <3>2. ASSUME NEW i \in 1 .. end - start PROVE all[i] \in DOMAIN DigitValue
      <4>1. start + i - 1 \in start .. end - 1
        BY <2>15
      <4> QED
        BY <2>8, <2>14, <4>1
    <3> QED
      BY <2>13, <2>14, <3>1, <3>2, SeqDef DEF Decimals
  <2>17. PICK k : k = zeros - start
    OBVIOUS
  <2>18. Value(all) = Value(digits)
    <3>1. k \in Nat /\ Len(all) = k + Len(digits)
      BY <2>13, <2>14, <2>15, <2>17
    <3>2. ASSUME NEW i \in 1 .. k PROVE all[i] = "0"
      <4>1. i \in 1 .. end - start /\ start + i - 1 \in start .. zeros - 1
        BY <2>15, <2>17
      <4> QED
        BY <2>5, <2>14, <4>1
    <3>3. ASSUME NEW i \in 1 .. Len(digits) PROVE all[k + i] = digits[i]
      <4>1. /\ k + i \in 1 .. end - start /\ i \in 1 .. end - zeros
            /\ start + (k + i) - 1 = zeros + i - 1
        BY <2>13, <2>15, <2>17
      <4>2. all[k + i] = t[start + (k + i) - 1]
        BY <2>14, <4>1
      <4> QED
        BY <2>13, <4>1, <4>2
    <3> QED
      BY <2>16, <3>1, <3>2, <3>3, LeadingZeros
  <2>19. digits = <<>> <=> end = zeros
    BY <2>13, <2>15, EmptyIffLen
  <2>20. CASE end = zeros
    <3>1. FromCharsInt(T, t) = IF zeros > start THEN Parsed(0, end) ELSE Invalid
      BY <2>10, <2>19, <2>20
    <3>2. CASE zeros = start
      BY <2>11, <2>15, <2>20, <3>1, <3>2
    <3>3. CASE zeros # start
      <4>1. Value(digits) = 0
        BY <2>16, <2>19, <2>20, ValueEmpty
      <4>2. StdFromChars(T, t) = ExactOf(T, negative, 0, end)
        BY <2>11, <2>18, <2>20, <3>3, <4>1
      <4>3. ExactOf(T, negative, 0, end) = Parsed(0, end)
        <5>1. PICK more : more = T.max + (IF negative THEN 1 ELSE 0)
          OBVIOUS
        <5>2. ~(0 > more)
          BY <1>2, <5>1
        <5>3. -0 = 0
          BY MinusZero, Zenon
        <5>4. (IF negative THEN -0 ELSE 0) = 0
          BY <5>3, Zenon
        <5> QED
          BY <5>1, <5>2, <5>4 DEF ExactOf
      <4>4. zeros > start
        BY <2>15, <3>3
      <4> QED
        BY <3>1, <4>2, <4>3, <4>4
    <3> QED
      BY <3>2, <3>3
  <2>21. CASE end # zeros
    <3>1. FromCharsInt(T, t) = ReadOf(T, negative, digits, end)
      BY <2>10, <2>19, <2>21
    <3>2. StdFromChars(T, t) = ExactOf(T, negative, Value(digits), end)
      BY <2>11, <2>15, <2>18, <2>21
    <3>3. Len(digits) > 0
      BY <2>13, <2>15, <2>21
    <3>4. digits[1] # "0"
      <4>1. 1 \in 1 .. end - zeros /\ zeros + 1 - 1 = zeros /\ zeros <= Len(t)
        BY <1>1, <2>7, <2>15, <2>21
      <4>2. digits[1] = t[zeros]
        BY <2>13, <4>1
      <4> QED
        BY <2>5, <4>1, <4>2
    <3>5. \/ ReadOf(T, negative, digits, end) = ExactOf(T, negative, Value(digits), end)
          \/ Wrapped(T, ReadOf(T, negative, digits, end),
                     ExactOf(T, negative, Value(digits), end))
      BY <2>2, <2>16, <3>3, <3>4, DigitsRead
    <3> QED
      BY <3>1, <3>2, <3>5
  <2> QED
    BY <2>20, <2>21
<1> QED
  BY <1>3, <1>4, <1>5

LEMMA IntegersExactTyped ==
  ASSUME text \in Seq(Characters)
  PROVE  IntegersExact
<1> SUFFICES ASSUME NEW type \in DOMAIN NumberTypes
             PROVE  LET read == FromCharsInt(NumberTypes[type], text)
                        exact == StdFromChars(NumberTypes[type], text)
                    IN \/ /\ read = exact
                          /\ ToNumberOr(type, text, 0) = ToIntegral(NumberTypes[type], text)
                          /\ ToNumber(type, text) = Throws <=> exact.ec # "ok"
                       \/ /\ type = "uint64" /\ exact = OutOfRange
                          /\ read.ec = "ok" /\ read.value >= MinSafe
  BY DEF IntegersExact
<1>1. PICK T, read, exact : /\ T = NumberTypes[type]
                            /\ read = FromCharsInt(T, text)
                            /\ exact = StdFromChars(T, text)
  OBVIOUS
<1>2. IsType(T)
  BY <1>1, NumberTypesAre
<1>3. type # "float"
  BY NumbersAssumption
<1>4. FromChars(type, text) = read
  BY <1>1, <1>3 DEF FromChars
<1>5. read = exact \/ Wrapped(T, read, exact)
  BY <1>1, <1>2, IntegerRead
<1>6. CASE read = exact
  <2>1. ToNumberOr(type, text, 0) = ToIntegral(T, text)
    BY <1>1, <1>4, <1>6 DEF ToNumberOr, ToIntegral
  <2>2. ToNumber(type, text) = IF exact.ec = "ok" THEN Returns(exact.value) ELSE Throws
    BY <1>4, <1>6 DEF ToNumber
  <2>3. Returns(exact.value) # Throws
    BY ThrowsIs
  <2> QED
    BY <1>1, <1>6, <2>1, <2>2, <2>3
<1>7. CASE Wrapped(T, read, exact)
  <2>1. type = "uint64"
    <3> SUFFICES ASSUME type # "uint64" PROVE FALSE
      OBVIOUS
    <3>1. T.max \in Nat /\ T.max + 1 < MinSafe
      BY <1>1, NumbersAssumption
    <3>2. T.max = WordSpan - 1
      BY <1>2, <1>7 DEF IsType, Wrapped
    <3>3. WordSpan \in Nat
      BY NumbersAssumption
    <3> QED
      BY <3>1, <3>2, <3>3, MaxDigitsIs
  <2> QED
    BY <1>1, <1>7, <2>1 DEF Wrapped
<1> QED
  BY <1>5, <1>6, <1>7

\* fast_float's integers are the ones of std::from_chars for every width of
\* the word and every narrower type, whatever the length of the text: the
\* number of digits, and the least number of as many as the largest has, tell
\* a word that wrapped, but for the word's own type.
THEOREM IntegersAlwaysExact == Spec => []IntegersExact
<1>1. text \in Seq(Characters) => IntegersExact
  BY IntegersExactTyped
<1> QED
  BY <1>1, TextTyped, PTL

-----------------------------------------------------------------------------
(* Lists of strings *)

\* The function by which DecodeList is defined, up to n.
DecodeRun(bytes, n, f) ==
  f = [i \in 0 .. n |-> IF i = 0 THEN [list |-> <<>>, ptr |-> 2]
                        ELSE DecodeStep(bytes, f[i - 1])]

LEMMA DecodeRunExists ==
  ASSUME NEW bytes, NEW n \in Nat
  PROVE  \E f : DecodeRun(bytes, n, f)
<1> DEFINE T == {m \in Nat : \E f : DecodeRun(bytes, m, f)}
<1>1. 0 \in T
  <2> DEFINE f == [i \in 0 .. 0 |-> [list |-> <<>>, ptr |-> 2]]
  <2>1. DecodeRun(bytes, 0, f)
    BY DEF DecodeRun
  <2> QED
    BY <2>1
<1>2. ASSUME NEW d \in 1 .. n, d - 1 \in T PROVE d \in T
  <2>1. d - 1 \in Nat /\ d \in Nat
    OBVIOUS
  <2>2. PICK f : DecodeRun(bytes, d - 1, f)
    BY <1>2
  <2> DEFINE At(h, i) == IF i = 0 THEN [list |-> <<>>, ptr |-> 2]
                         ELSE DecodeStep(bytes, h[i - 1])
             g == [i \in 0 .. d |-> At(f, i)]
  <2>3. \A i \in 0 .. d - 1 : f[i] = At(f, i)
    BY <2>2 DEF DecodeRun
  <2>4. \A i \in 0 .. d : g[i] = At(f, i)
    OBVIOUS
  <2>5. g = [i \in 0 .. d |-> g[i]]
    OBVIOUS
  <2> HIDE DEF g
  <2>6. \A i \in 0 .. d - 1 : g[i] = f[i]
    <3> HIDE DEF At
    <3> QED
      BY <2>1, <2>3, <2>4
  <2>7. ASSUME NEW i \in 1 .. d PROVE g[i - 1] = f[i - 1]
    <3>1. i - 1 \in 0 .. d - 1
      BY <2>1
    <3> QED
      BY <2>6, <3>1
  <2>8. \A i \in 0 .. d : g[i] = At(g, i)
    BY <2>4, <2>7
  <2>9. DecodeRun(bytes, d, g)
    BY <2>5, <2>8 DEF DecodeRun
  <2> QED
    BY <2>1, <2>9
<1> HIDE DEF T
<1>3. n \in T
  BY <1>1, <1>2, InductionUpTo
<1> QED
  BY <1>3 DEF T

\* What was put one behind the other is found again, each behind the former.
Found(seqs, s, j) ==
  \A i \in 1 .. j : \A k \in 1 .. Len(seqs[i]) :
    /\ Len(Prefix(seqs, i - 1)) + k \in 1 .. Len(s)
    /\ s[Len(Prefix(seqs, i - 1)) + k] = seqs[i][k]

LEMMA PrefixHas ==
  ASSUME NEW S, NEW seqs, Len(seqs) \in Nat,
         \A i \in 1 .. Len(seqs) : seqs[i] \in Seq(S)
  PROVE  \A j \in 0 .. Len(seqs) :
           Prefix(seqs, j) \in Seq(S) /\ Found(seqs, Prefix(seqs, j), j)
<1>1. PICK m : m = Len(seqs)
  OBVIOUS
<1>2. m \in Nat
  BY <1>1
<1> DEFINE T == {j \in 0 .. m : /\ Prefix(seqs, j) \in Seq(S)
                               /\ Found(seqs, Prefix(seqs, j), j)}
<1>3. 0 \in T
  <2>1. Prefix(seqs, 0) = <<>> /\ <<>> \in Seq(S)
    BY EmptySeq DEF Prefix
  <2>2. Found(seqs, <<>>, 0)
    BY DEF Found
  <2>3. Prefix(seqs, 0) \in Seq(S) /\ Found(seqs, Prefix(seqs, 0), 0)
    BY <2>1, <2>2
  <2>4. 0 \in 0 .. m
    BY <1>2
  <2> QED
    BY <2>3, <2>4
<1>4. ASSUME NEW j \in 1 .. m, j - 1 \in T PROVE j \in T
  <2>1. PICK p, q, s : /\ p = Prefix(seqs, j - 1) /\ q = Prefix(seqs, j)
                       /\ s = seqs[j]
    OBVIOUS
  <2>2. p \in Seq(S) /\ Found(seqs, p, j - 1) /\ s \in Seq(S)
    BY <1>1, <1>4, <2>1
  <2>3. q = p \o s /\ q \in Seq(S)
    <3>1. j \in 1 .. Len(seqs)
      BY <1>1
    <3> QED
      BY <2>1, <2>2, <3>1, PrefixStep
  <2>4. /\ Len(p) \in Nat /\ Len(s) \in Nat /\ Len(q) = Len(p) + Len(s)
        /\ \A i \in 1 .. Len(q) : q[i] = IF i <= Len(p) THEN p[i] ELSE s[i - Len(p)]
    BY <2>2, <2>3, LenProperties, ConcatProperties
  <2>5. ASSUME NEW i \in 1 .. j, NEW k \in 1 .. Len(seqs[i])
        PROVE  /\ Len(Prefix(seqs, i - 1)) + k \in 1 .. Len(q)
               /\ q[Len(Prefix(seqs, i - 1)) + k] = seqs[i][k]
    <3>1. PICK a : a = Len(Prefix(seqs, i - 1)) + k
      OBVIOUS
    <3>2. CASE i = j
      <4>1. a = Len(p) + k /\ k \in 1 .. Len(s)
        BY <2>1, <3>1, <3>2
      <4>2. a \in 1 .. Len(q) /\ ~(a <= Len(p)) /\ a - Len(p) = k
        BY <2>4, <4>1
      <4>3. q[a] = s[k]
        BY <2>4, <4>2
      <4> QED
        BY <2>1, <3>1, <3>2, <4>2, <4>3
    <3>3. CASE i # j
      <4>1. i \in 1 .. j - 1
        BY <1>2, <3>3
      <4>2. a \in 1 .. Len(p) /\ p[a] = seqs[i][k]
        BY <2>2, <3>1, <4>1 DEF Found
      <4>3. a \in 1 .. Len(q) /\ a <= Len(p)
        BY <2>4, <4>2
      <4>4. q[a] = p[a]
        BY <2>4, <4>3
      <4> QED
        BY <3>1, <4>2, <4>3, <4>4
    <3> QED
      BY <3>2, <3>3
  <2>6. Found(seqs, q, j)
    BY <2>5 DEF Found
  <2>7. j \in 0 .. m
    BY <1>2
  <2> QED
    BY <2>1, <2>3, <2>6, <2>7
<1> HIDE DEF T
<1>5. \A j \in 1 .. m : j - 1 \in T => j \in T
  BY <1>4
<1>6. \A j \in 0 .. m : j \in T
  BY <1>2, <1>3, <1>5, InductionUpTo
<1> QED
  BY <1>1, <1>6 DEF T

LEMMA SmallRemainder ==
  ASSUME NEW a \in Nat, NEW b \in Nat, a < b
  PROVE  a % b = a
OBVIOUS

\* An element behind its length.
Cell(t) == <<Len(t) % LengthSpan>> \o Transform(t)
Cells(list) == [i \in DOMAIN list |-> Cell(list[i])]

LEMMA CellIs ==
  ASSUME NEW C, NEW t \in Seq(C), Len(t) <= kVectorElementLength
  PROVE  /\ Cell(t) \in Seq(C \cup {"NUL"} \cup Nat) /\ Len(Cell(t)) = Len(t) + 2
         /\ Cell(t)[1] = Len(t) /\ \A k \in 1 .. Len(t) : Cell(t)[k + 1] = t[k]
<1> DEFINE S == C \cup {"NUL"} \cup Nat
<1>1. PICK n, c, head : n = Len(t) /\ c = Transform(t) /\ head = <<Len(t) % LengthSpan>>
  OBVIOUS
<1>2. n \in Nat /\ n % LengthSpan = n
  <2>1. /\ kVectorElementLength \in Nat /\ LengthSpan \in Nat
        /\ kVectorElementLength < LengthSpan
    BY ConversionsAssumption
  <2>2. n \in Nat /\ n < LengthSpan
    BY <1>1, <2>1, LenProperties
  <2> QED
    BY <2>1, <2>2, SmallRemainder
<1>3. t \in Seq(S) /\ "NUL" \in S
  OBVIOUS
<1> HIDE DEF S
<1>4. /\ c \in Seq(S) /\ Len(c) = n + 1
      /\ \A k \in 1 .. n : c[k] = t[k]
  BY <1>1, <1>2, <1>3, AppendProperties DEF Transform
<1>5. head \in Seq(S) /\ Len(head) = 1 /\ head[1] = n
  <2>1. n \in S
    BY <1>2 DEF S
  <2> QED
    BY <1>1, <1>2, <2>1
<1>6. PICK cell : cell = head \o c
  OBVIOUS
<1>7. /\ cell \in Seq(S) /\ Len(cell) = n + 2
      /\ \A i \in 1 .. n + 2 : cell[i] = IF i <= 1 THEN head[i] ELSE c[i - 1]
  <2>1. /\ cell \in Seq(S) /\ Len(cell) = Len(head) + Len(c)
        /\ \A i \in 1 .. Len(head) + Len(c) :
             cell[i] = IF i <= Len(head) THEN head[i] ELSE c[i - Len(head)]
    <3>1. head \in Seq(S) /\ c \in Seq(S)
      BY <1>4, <1>5
    <3>2. /\ head \o c \in Seq(S) /\ Len(head \o c) = Len(head) + Len(c)
          /\ \A i \in 1 .. Len(head) + Len(c) :
               (head \o c)[i] = IF i <= Len(head) THEN head[i] ELSE c[i - Len(head)]
      BY <3>1, ConcatProperties
    <3> QED
      BY <1>6, <3>2
  <2>2. Len(head) + Len(c) = n + 2
    BY <1>2, <1>4, <1>5
  <2> QED
    BY <1>5, <2>1, <2>2
<1>8. cell[1] = n
  BY <1>2, <1>5, <1>7
<1>9. ASSUME NEW k \in 1 .. n PROVE cell[k + 1] = t[k]
  <2>1. k + 1 \in 1 .. n + 2 /\ ~(k + 1 <= 1) /\ (k + 1) - 1 = k
    BY <1>2
  <2> QED
    BY <1>4, <1>7, <2>1
<1>10. cell = Cell(t)
  BY <1>1, <1>6 DEF Cell
<1> QED
  BY <1>1, <1>7, <1>8, <1>9, <1>10 DEF S

\* The first i elements of a list.
FirstOf(list, i) == [j \in 1 .. i |-> list[j]]

LEMMA FirstOfStep ==
  ASSUME NEW S, NEW list \in Seq(S), NEW i \in 1 .. Len(list)
  PROVE  Append(FirstOf(list, i - 1), list[i]) = FirstOf(list, i)
<1>1. Len(list) \in Nat /\ \A j \in 1 .. i : list[j] \in S
  BY LenProperties, ElementOfSeq
<1>2. FirstOf(list, i - 1) \in Seq(S) /\ Len(FirstOf(list, i - 1)) = i - 1
  BY <1>1 DEF FirstOf
<1> QED
  BY <1>1, <1>2 DEF FirstOf

\* A list that fits comes back as it was.
LEMMA DecodeEncoded ==
  ASSUME NEW C, NEW list \in Seq(Seq(C)), FitsList(list)
  PROVE  DecodeList(EncodeList(list)) = list
<1> DEFINE S == C \cup {"NUL"} \cup Nat
<1>1. PICK n, cells, all, bytes, head :
        /\ n = Len(list) /\ cells = Cells(list) /\ all = Prefix(cells, n)
        /\ head = <<n>> /\ bytes = head \o all
  OBVIOUS
<1>2. n \in Nat /\ DOMAIN list = 1 .. n /\ \A i \in 1 .. n : list[i] \in Seq(C)
  BY <1>1, LenProperties, ElementOfSeq
<1>3. n % LengthSpan = n
  <2>1. /\ kVectorLength \in Nat /\ LengthSpan \in Nat
        /\ kVectorLength < LengthSpan /\ n <= kVectorLength
    BY <1>1, ConversionsAssumption DEF FitsList
  <2>2. n < LengthSpan
    BY <1>2, <2>1
  <2> QED
    BY <1>2, <2>1, <2>2, SmallRemainder
<1>4. DOMAIN cells = 1 .. n /\ \A i \in 1 .. n : cells[i] = Cell(list[i])
  BY <1>1, <1>2 DEF Cells
<1>5. ASSUME NEW i \in 1 .. n
      PROVE  /\ cells[i] \in Seq(S) /\ Len(cells[i]) = Len(list[i]) + 2
             /\ cells[i][1] = Len(list[i])
             /\ \A k \in 1 .. Len(list[i]) : cells[i][k + 1] = list[i][k]
             /\ Len(list[i]) \in Nat
  <2>1. PICK t : t = list[i]
    OBVIOUS
  <2>2. t \in Seq(C) /\ Len(t) <= kVectorElementLength /\ Len(t) \in Nat
    BY <1>2, <2>1, LenProperties DEF FitsList
  <2>3. /\ Cell(t) \in Seq(S) /\ Len(Cell(t)) = Len(t) + 2
        /\ Cell(t)[1] = Len(t) /\ \A k \in 1 .. Len(t) : Cell(t)[k + 1] = t[k]
    BY <2>2, CellIs
  <2> QED
    BY <1>4, <2>1, <2>2, <2>3
<1> HIDE DEF S
<1>6. Len(cells) = n
  <2>1. cells = [i \in 1 .. n |-> Cell(list[i])]
    BY <1>1, <1>2 DEF Cells
  <2> QED
    BY <1>2, <2>1
<1>7. EncodeList(list) = bytes
  <2>1. EncodeList(list) = <<Len(list) % LengthSpan>> \o FlattenSeq(cells)
    BY <1>1 DEF EncodeList, Cells, Cell
  <2>2. FlattenSeq(cells) = all
    <3>1. CASE n = 0
      <4>1. cells = <<>>
        BY <1>1, <1>2, <3>1 DEF Cells
      <4> QED
        BY <1>1, <1>6, <3>1, <4>1 DEF FlattenSeq, Prefix
    <3>2. CASE n # 0
      BY <1>1, <1>2, <1>6, <3>2, PrefixAll
    <3> QED
      BY <3>1, <3>2
  <2> QED
    BY <1>1, <1>3, <2>1, <2>2
<1>8. \A j \in 0 .. n : Prefix(cells, j) \in Seq(S) /\ Found(cells, Prefix(cells, j), j)
  BY <1>2, <1>5, <1>6, PrefixHas
<1>9. all \in Seq(S) /\ Found(cells, all, n) /\ Len(all) \in Nat
  <2>1. n \in 0 .. n
    BY <1>2
  <2> QED
    BY <1>1, <1>8, <2>1, LenProperties
<1>10. /\ bytes \in Seq(S) /\ Len(bytes) = 1 + Len(all) /\ bytes[1] = n
       /\ \A i \in 1 .. Len(all) : bytes[i + 1] = all[i]
  <2>1. head \in Seq(S) /\ Len(head) = 1 /\ head[1] = n
    <3>1. n \in S
      BY <1>2 DEF S
    <3> QED
      BY <1>1, <3>1
  <2>2. /\ bytes \in Seq(S) /\ Len(bytes) = Len(head) + Len(all)
        /\ \A i \in 1 .. Len(head) + Len(all) :
             bytes[i] = IF i <= Len(head) THEN head[i] ELSE all[i - Len(head)]
    BY <1>1, <1>9, <2>1, ConcatProperties
  <2>3. bytes[1] = n
    BY <1>9, <2>1, <2>2
  <2>4. ASSUME NEW i \in 1 .. Len(all) PROVE bytes[i + 1] = all[i]
    <3>1. i + 1 \in 1 .. 1 + Len(all) /\ ~(i + 1 <= 1) /\ (i + 1) - 1 = i
      BY <1>9
    <3> QED
      BY <2>1, <2>2, <3>1
  <2> QED
    BY <2>1, <2>2, <2>3, <2>4
<1> DEFINE f == CHOOSE g : DecodeRun(bytes, bytes[1], g)
<1>11. DecodeRun(bytes, bytes[1], f)
  BY <1>2, <1>10, DecodeRunExists
<1>12. DecodeList(bytes) = f[bytes[1]].list
  BY DEF DecodeList, DecodeRun
<1> HIDE DEF f
<1>13. \A i \in 0 .. n : f[i] = IF i = 0 THEN [list |-> <<>>, ptr |-> 2]
                               ELSE DecodeStep(bytes, f[i - 1])
  BY <1>10, <1>11 DEF DecodeRun
<1> DEFINE T == {i \in 0 .. n : /\ f[i].list = FirstOf(list, i)
                               /\ f[i].ptr = 2 + Len(Prefix(cells, i))}
<1>14. 0 \in T
  <2>1. f[0] = [list |-> <<>>, ptr |-> 2]
    BY <1>2, <1>13
  <2>2. FirstOf(list, 0) = <<>> /\ Prefix(cells, 0) = <<>>
    BY DEF FirstOf, Prefix
  <2>3. 2 + Len(<<>>) = 2
    OBVIOUS
  <2>4. f[0].list = FirstOf(list, 0) /\ f[0].ptr = 2 + Len(Prefix(cells, 0))
    BY <2>1, <2>2, <2>3
  <2>5. 0 \in 0 .. n
    BY <1>2
  <2> QED
    BY <2>4, <2>5
<1>15. ASSUME NEW i \in 1 .. n, i - 1 \in T PROVE i \in T
  <2>1. PICK t, L, p, ptr : /\ t = list[i] /\ L = Len(list[i])
                            /\ p = Len(Prefix(cells, i - 1)) /\ ptr = 2 + p
    OBVIOUS
  <2>2. /\ i \in 0 .. n /\ i - 1 \in 0 .. n /\ i # 0
        /\ f[i - 1].list = FirstOf(list, i - 1) /\ f[i - 1].ptr = ptr
    BY <1>2, <1>15, <2>1
  <2>3. L \in Nat /\ p \in Nat /\ t \in Seq(C) /\ Len(t) = L
    BY <1>2, <1>5, <1>8, <2>1, <2>2, LenProperties
  <2>p. ptr = 2 + p /\ ptr \in Nat
    BY <2>1, <2>3
  <2>4. Len(Prefix(cells, i)) = p + L + 2
    <3>1. PICK x, y : x = Prefix(cells, i - 1) /\ y = cells[i]
      OBVIOUS
    <3>2. x \in Seq(S) /\ y \in Seq(S) /\ Len(x) = p /\ Len(y) = L + 2
      BY <1>5, <1>8, <2>1, <2>2, <3>1
    <3>3. Prefix(cells, i) = x \o y
      BY <1>2, <1>6, <3>1, <3>2, PrefixStep
    <3>4. Len(x \o y) = Len(x) + Len(y)
      BY <3>2, ConcatProperties
    <3> QED
      BY <2>3, <3>2, <3>3, <3>4
  <2>5. ASSUME NEW k \in 1 .. L + 2
        PROVE  p + k \in 1 .. Len(all) /\ bytes[(p + k) + 1] = cells[i][k]
    <3>1. Len(cells[i]) = L + 2
      BY <1>5, <2>1
    <3>2. p + k \in 1 .. Len(all) /\ all[p + k] = cells[i][k]
      BY <1>9, <2>1, <3>1 DEF Found
    <3> QED
      BY <1>10, <3>2
  <2>6. bytes[ptr] = L
    <3>1. 1 \in 1 .. L + 2 /\ (p + 1) + 1 = ptr
      BY <2>1, <2>3
    <3> QED
      BY <1>5, <2>1, <2>5, <3>1
  <2>7. ASSUME NEW k \in 1 .. L PROVE bytes[ptr + k] = t[k]
    <3>1. k + 1 \in 1 .. L + 2 /\ (p + (k + 1)) + 1 = ptr + k
      BY <2>1, <2>3
    <3>2. cells[i][k + 1] = t[k]
      BY <1>5, <2>1
    <3> QED
      BY <2>5, <3>1, <3>2
  <2>8. ptr + L \in 0 .. Len(bytes) /\ ptr + 1 \in 1 .. Len(bytes) + 1
    <3>1. L + 2 \in 1 .. L + 2
      BY <2>3
    <3>2. p + (L + 2) <= Len(all)
      BY <1>9, <2>5, <3>1
    <3> QED
      BY <1>9, <1>10, <2>3, <2>p, <3>2
  <2>9. SubSeq(bytes, ptr + 1, ptr + L) = t
    <3>1. PICK a, b, s : a = ptr + 1 /\ b = ptr + L /\ s = SubSeq(bytes, ptr + 1, ptr + L)
      OBVIOUS
    <3>2. /\ s \in Seq(S) /\ Len(s) = IF a <= b THEN b - a + 1 ELSE 0
          /\ \A k \in 1 .. b - a + 1 : s[k] = bytes[a + k - 1]
      <4>1. a \in 1 .. Len(bytes) + 1 /\ b \in 0 .. Len(bytes) /\ s = SubSeq(bytes, a, b)
        BY <2>8, <3>1
      <4> QED
        BY <1>10, <4>1, PartIs
    <3>3. b - a + 1 = L /\ (IF a <= b THEN b - a + 1 ELSE 0) = L
      <4>1. a \in Nat /\ b \in Nat /\ a = ptr + 1 /\ b = ptr + L
        BY <2>3, <2>p, <3>1
      <4> QED
        BY <2>3, <2>p, <4>1
    <3>4. ASSUME NEW k \in 1 .. L PROVE s[k] = t[k]
      <4>1. a + k - 1 = ptr + k
        BY <2>1, <2>3, <3>1
      <4> QED
        BY <2>7, <3>2, <3>3, <4>1
    <3>5. s = t
      <4>1. Len(s) = L /\ Len(t) = L /\ DOMAIN s = 1 .. L /\ DOMAIN t = 1 .. L
        BY <2>3, <3>2, <3>3, LenProperties
      <4>2. s = [k \in 1 .. L |-> s[k]] /\ t = [k \in 1 .. L |-> t[k]]
        BY <2>3, <3>2, <4>1, LenProperties
      <4> QED
        BY <3>4, <4>2
    <3> QED
      BY <3>1, <3>5
  <2>10. f[i] = [list |-> Append(FirstOf(list, i - 1), t), ptr |-> ptr + 1 + L + 1]
    <3>1. f[i] = DecodeStep(bytes, f[i - 1])
      BY <1>13, <2>2
    <3> QED
      BY <2>2, <2>6, <2>9, <3>1 DEF DecodeStep
  <2>11. Append(FirstOf(list, i - 1), t) = FirstOf(list, i)
    BY <1>1, <2>1, FirstOfStep
  <2>12. ptr + 1 + L + 1 = 2 + Len(Prefix(cells, i))
    <3>1. ptr + 1 + L + 1 = 2 + (p + L + 2)
      BY <2>3, <2>p
    <3> QED
      BY <2>4, <3>1
  <2>13. f[i].list = FirstOf(list, i) /\ f[i].ptr = 2 + Len(Prefix(cells, i))
    BY <2>10, <2>11, <2>12
  <2> QED
    BY <2>2, <2>13
<1> HIDE DEF T
<1>16. \A i \in 1 .. n : i - 1 \in T => i \in T
  BY <1>15
<1>17. n \in T
  <2>1. \A i \in 0 .. n : i \in T
    BY <1>2, <1>14, <1>16, InductionUpTo
  <2> QED
    BY <1>2, <2>1
<1>18. f[n].list = FirstOf(list, n)
  BY <1>17 DEF T
<1>19. FirstOf(list, n) = list
  BY <1>1, <1>2 DEF FirstOf
<1> QED
  BY <1>7, <1>10, <1>12, <1>18, <1>19

\* The bytes a list is stored as are read back as the same list, empty
\* elements and those that hold a terminator included.
LEMMA ListRoundTripTyped ==
  ASSUME text \in Seq(Characters)
  PROVE  ListRoundTrip
<1>1. PICK at, n, list : /\ at = In(text, {Delim}) /\ n = Cardinality(at)
                         /\ list = StringViewSplit(text, Delim)
  OBVIOUS
<1>2. Places(at, Len(text)) /\ Len(text) \in Nat /\ n \in Nat
  BY <1>1, TokensIs, RankType
<1>3. list = FirstTokens(text, at, n + 1)
  BY <1>1, StringViewSplitIs, TokensIs
<1>4. \A j \in 1 .. n + 1 : TokenOf(text, at, j) \in Seq(Characters)
  BY <1>1, <1>2, TokenTyped
<1>5. list \in Seq(Seq(Characters))
  <2>1. list = [j \in 1 .. n + 1 |-> TokenOf(text, at, j)]
    BY <1>3 DEF FirstTokens
  <2> QED
    BY <1>2, <1>4, <2>1
<1> QED
  BY <1>1, <1>5, DecodeEncoded DEF ListRoundTrip

-----------------------------------------------------------------------------
(* The order of the elements *)

Texts == Seq(Characters)

LEMMA TextIs ==
  ASSUME NEW t \in Texts
  PROVE  /\ Len(t) \in Nat /\ DOMAIN t = 1 .. Len(t)
         /\ \A i \in 1 .. Len(t) : t[i] \in Characters
BY LenProperties, ElementOfSeq DEF Texts

LEMMA CodeIs ==
  /\ "NUL" \in Characters
  /\ \A c \in Characters : Code[c] \in Nat /\ Code["NUL"] <= Code[c]
  /\ \A c \in Characters, d \in Characters : Code[c] = Code[d] => c = d
BY ConversionsAssumption DEF IsInjective

\* The texts differ first at d, where s ends or has the lower character.
LowerAt(s, t, d) ==
  /\ d \in 1 .. Len(t) /\ d <= Len(s) + 1
  /\ \A i \in 1 .. d - 1 : s[i] = t[i]
  /\ d = Len(s) + 1 \/ Code[s[d]] < Code[t[d]]

LEMMA SameText ==
  ASSUME NEW C, NEW s \in Seq(C), NEW t \in Seq(C), Len(s) = Len(t),
         \A i \in 1 .. Len(s) : s[i] = t[i]
  PROVE  s = t
<1>1. s = [i \in 1 .. Len(s) |-> s[i]] /\ t = [i \in 1 .. Len(t) |-> t[i]]
  BY LenProperties
<1> QED
  BY <1>1

LEMMA BeforeIs ==
  ASSUME NEW s \in Texts, NEW t \in Texts
  PROVE  Before(s, t) <=> \E d \in Nat : LowerAt(s, t, d)
<1>1. PICK m, n : m = Len(s) /\ n = Len(t)
  OBVIOUS
<1>2. m \in Nat /\ n \in Nat /\ DOMAIN s = 1 .. m /\ DOMAIN t = 1 .. n
  BY <1>1, TextIs
<1>3. ASSUME IsStrictPrefix(s, t) PROVE LowerAt(s, t, m + 1)
  <2>1. m <= n /\ SubSeq(s, 1, m) = SubSeq(t, 1, m) /\ s # t
    BY <1>1, <1>3 DEF IsStrictPrefix, IsPrefix
  <2>2. \A i \in 1 .. m : s[i] = t[i]
    <3>1. \A i \in 1 .. m : SubSeq(s, 1, m)[i] = s[i] /\ SubSeq(t, 1, m)[i] = t[i]
      <4>1. 1 \in 1 .. Len(s) + 1 /\ 1 \in 1 .. Len(t) + 1 /\ m \in 0 .. Len(s) /\ m \in 0 .. Len(t)
        BY <1>1, <1>2, <2>1
      <4>2. \A i \in 1 .. m - 1 + 1 : SubSeq(s, 1, m)[i] = s[1 + i - 1]
        BY <4>1, PartIs DEF Texts
      <4>3. \A i \in 1 .. m - 1 + 1 : SubSeq(t, 1, m)[i] = t[1 + i - 1]
        BY <4>1, PartIs DEF Texts
      <4>4. m - 1 + 1 = m /\ \A i \in 1 .. m : 1 + i - 1 = i
        BY <1>2
      <4> QED
        BY <4>2, <4>3, <4>4
    <3> QED
      BY <2>1, <3>1
  <2>3. m # n
    BY <1>1, <2>1, <2>2, SameText DEF Texts
  <2>4. m + 1 \in 1 .. n /\ (m + 1) - 1 = m
    BY <1>2, <2>1, <2>3
  <2> QED
    BY <1>1, <1>2, <2>2, <2>4 DEF LowerAt
<1>4. ASSUME NEW d \in DOMAIN s \cap DOMAIN t,
             \A i \in 1 .. d - 1 : s[i] = t[i], Code[s[d]] < Code[t[d]]
      PROVE  LowerAt(s, t, d) /\ d \in Nat
  <2>1. d \in 1 .. n /\ d <= m + 1 /\ d \in Nat
    BY <1>2, <1>4
  <2> QED
    BY <1>1, <1>4, <2>1 DEF LowerAt
<1>5. ASSUME NEW d \in Nat, LowerAt(s, t, d), d = m + 1 PROVE IsStrictPrefix(s, t)
  <2>1. m + 1 <= n /\ \A i \in 1 .. m : s[i] = t[i]
    <3>1. d - 1 = m
      BY <1>2, <1>5
    <3> QED
      BY <1>1, <1>2, <1>5, <3>1 DEF LowerAt
  <2>2. s # t /\ m <= n
    BY <1>1, <1>2, <2>1
  <2>3. SubSeq(s, 1, m) = SubSeq(t, 1, m)
    <3>1. PICK u : u = SubSeq(t, 1, m)
      OBVIOUS
    <3>2. SubSeq(s, 1, m) = s
      BY <1>1, SubSeqFull DEF Texts
    <3>3. /\ u \in Seq(Characters) /\ Len(u) = IF 1 <= m THEN m - 1 + 1 ELSE 0
          /\ \A i \in 1 .. m - 1 + 1 : u[i] = t[1 + i - 1]
      <4>1. 1 \in 1 .. Len(t) + 1 /\ m \in 0 .. Len(t)
        BY <1>1, <1>2, <2>2
      <4> QED
        BY <3>1, <4>1, PartIs DEF Texts
    <3>4. m - 1 + 1 = m /\ (IF 1 <= m THEN m - 1 + 1 ELSE 0) = m /\ \A i \in 1 .. m : 1 + i - 1 = i
      BY <1>2
    <3>5. Len(u) = Len(s) /\ \A i \in 1 .. Len(s) : s[i] = u[i]
      BY <1>1, <2>1, <3>3, <3>4
    <3>6. s = u
      BY <3>3, <3>5, SameText DEF Texts
    <3> QED
      BY <3>1, <3>2, <3>6
  <2> QED
    BY <1>1, <2>2, <2>3 DEF IsStrictPrefix, IsPrefix
<1>6. ASSUME NEW d \in Nat, LowerAt(s, t, d), d # m + 1
      PROVE  \E i \in DOMAIN s \cap DOMAIN t :
               (\A j \in 1 .. i - 1 : s[j] = t[j]) /\ Code[s[i]] < Code[t[i]]
  <2>1. d \in DOMAIN s \cap DOMAIN t
    BY <1>1, <1>2, <1>6 DEF LowerAt
  <2> QED
    BY <1>1, <1>6, <2>1 DEF LowerAt
<1>7. m + 1 \in Nat
  BY <1>2
<1> QED
  BY <1>3, <1>4, <1>5, <1>6, <1>7 DEF Before

\* It is a total order, and the empty text is the first.
LEMMA NeverBeforeItself ==
  ASSUME NEW s \in Texts
  PROVE  ~Before(s, s)
<1> SUFFICES ASSUME NEW d \in Nat, LowerAt(s, s, d) PROVE FALSE
  BY BeforeIs
<1>1. d \in 1 .. Len(s) /\ Len(s) \in Nat
  BY TextIs DEF LowerAt
<1>2. Code[s[d]] \in Nat
  BY <1>1, TextIs, CodeIs
<1> QED
  BY <1>1, <1>2 DEF LowerAt

LEMMA BeforeTransitive ==
  ASSUME NEW s \in Texts, NEW t \in Texts, NEW u \in Texts,
         Before(s, t), Before(t, u)
  PROVE  Before(s, u)
<1>1. PICK d \in Nat : LowerAt(s, t, d)
  BY BeforeIs
<1>2. PICK e \in Nat : LowerAt(t, u, e)
  BY BeforeIs
<1>3. Len(s) \in Nat /\ Len(t) \in Nat /\ Len(u) \in Nat
  BY TextIs
<1>4. /\ d \in 1 .. Len(t) /\ d <= Len(s) + 1 /\ e \in 1 .. Len(u) /\ e <= Len(t) + 1
      /\ \A i \in 1 .. d - 1 : s[i] = t[i]
      /\ \A i \in 1 .. e - 1 : t[i] = u[i]
      /\ d = Len(s) + 1 \/ Code[s[d]] < Code[t[d]]
      /\ e = Len(t) + 1 \/ Code[t[e]] < Code[u[e]]
  BY <1>1, <1>2 DEF LowerAt
<1>5. /\ d <= Len(s) => Code[s[d]] \in Nat
      /\ Code[t[d]] \in Nat /\ Code[u[e]] \in Nat
      /\ e <= Len(t) => Code[t[e]] \in Nat
  <2>1. /\ d <= Len(s) => d \in 1 .. Len(s)
        /\ e <= Len(t) => e \in 1 .. Len(t)
    BY <1>3, <1>4
  <2> QED
    BY <1>4, <2>1, TextIs, CodeIs
<1>6. CASE d < e
  <2>1. d \in 1 .. Len(u) /\ d \in 1 .. e - 1
    BY <1>3, <1>4, <1>6
  <2>2. \A i \in 1 .. d - 1 : s[i] = u[i]
    <3> TAKE i \in 1 .. d - 1
    <3>1. i \in 1 .. e - 1
      BY <1>3, <1>4, <1>6
    <3> QED
      BY <1>4, <3>1
  <2>3. t[d] = u[d]
    BY <1>4, <2>1
  <2>4. LowerAt(s, u, d)
    BY <1>4, <2>1, <2>2, <2>3 DEF LowerAt
  <2> QED
    BY <2>4, BeforeIs
<1>7. CASE d = e
  <2>1. d \in 1 .. Len(u) /\ \A i \in 1 .. d - 1 : s[i] = u[i]
    BY <1>4, <1>7
  <2>2. Code[t[d]] < Code[u[d]]
    BY <1>3, <1>4, <1>7
  <2>3. d = Len(s) + 1 \/ Code[s[d]] < Code[u[d]]
    <3>1. d # Len(s) + 1 => d <= Len(s)
      BY <1>3, <1>4
    <3> QED
      BY <1>4, <1>5, <1>7, <2>2, <3>1
  <2>4. LowerAt(s, u, d)
    BY <1>4, <2>1, <2>3 DEF LowerAt
  <2> QED
    BY <2>4, BeforeIs
<1>8. CASE d > e
  <2>1. e \in 1 .. d - 1 /\ e <= Len(s) + 1 /\ e # Len(t) + 1
    BY <1>3, <1>4, <1>8
  <2>2. \A i \in 1 .. e - 1 : s[i] = u[i]
    <3> TAKE i \in 1 .. e - 1
    <3>1. i \in 1 .. d - 1
      BY <1>3, <1>4, <1>8
    <3> QED
      BY <1>4, <3>1
  <2>3. s[e] = t[e]
    BY <1>4, <2>1
  <2>4. LowerAt(s, u, e)
    BY <1>4, <2>1, <2>2, <2>3 DEF LowerAt
  <2> QED
    BY <2>4, BeforeIs
<1> QED
  BY <1>4, <1>6, <1>7, <1>8

LEMMA BeforeTotal ==
  ASSUME NEW s \in Texts, NEW t \in Texts, s # t
  PROVE  Before(s, t) \/ Before(t, s)
<1>1. PICK m, n : m = Len(s) /\ n = Len(t)
  OBVIOUS
<1>2. m \in Nat /\ n \in Nat
  BY <1>1, TextIs
<1> DEFINE T == {i \in Nat : i >= 1 /\ ~(i <= m /\ i <= n /\ s[i] = t[i])}
<1>3. PICK d \in T : \A e \in T : ~(e < d)
  <2>1. m + 1 \in T
    BY <1>2
  <2>2. T \subseteq Nat /\ T # {}
    BY <2>1
  <2> HIDE DEF T
  <2> QED
    BY <2>2, SmallestMember
<1>4. d \in Nat /\ d >= 1 /\ ~(d <= m /\ d <= n /\ s[d] = t[d])
  BY <1>3
<1>5. ASSUME NEW i \in 1 .. d - 1 PROVE i <= m /\ i <= n /\ s[i] = t[i]
  <2>1. i \in Nat /\ i >= 1 /\ i < d
    BY <1>4
  <2>2. i \notin T
    BY <1>3, <2>1
  <2> QED
    BY <2>1, <2>2
<1>6. d <= m + 1 /\ d <= n + 1
  <2>1. CASE d = 1
    BY <1>2, <2>1
  <2>2. CASE d # 1
    <3>1. d - 1 \in 1 .. d - 1
      BY <1>4, <2>2
    <3>2. d - 1 <= m /\ d - 1 <= n
      BY <1>5, <3>1
    <3> QED
      BY <1>2, <1>4, <3>2
  <2> QED
    BY <2>1, <2>2
<1> HIDE DEF T
<1>7. CASE d = m + 1 /\ d = n + 1
  <2>1. m = n /\ d - 1 = m
    BY <1>2, <1>7
  <2>2. \A i \in 1 .. Len(s) : s[i] = t[i]
    BY <1>1, <1>5, <2>1
  <2> QED
    BY <1>1, <2>1, <2>2, SameText DEF Texts
<1>8. CASE d = m + 1 /\ d # n + 1
  <2>1. d \in 1 .. n
    BY <1>2, <1>4, <1>6, <1>8
  <2>2. LowerAt(s, t, d)
    BY <1>1, <1>5, <1>6, <1>8, <2>1 DEF LowerAt
  <2> QED
    BY <1>4, <2>2, BeforeIs
<1>9. CASE d # m + 1 /\ d = n + 1
  <2>1. d \in 1 .. m
    BY <1>2, <1>4, <1>6, <1>9
  <2>2. LowerAt(t, s, d)
    BY <1>1, <1>5, <1>6, <1>9, <2>1 DEF LowerAt
  <2> QED
    BY <1>4, <2>2, BeforeIs
<1>10. CASE d # m + 1 /\ d # n + 1
  <2>1. d \in 1 .. m /\ d \in 1 .. n /\ d <= m /\ d <= n
    BY <1>2, <1>4, <1>6, <1>10
  <2>2. s[d] # t[d] /\ s[d] \in Characters /\ t[d] \in Characters
    BY <1>1, <1>4, <2>1, TextIs
  <2>3. Code[s[d]] # Code[t[d]] /\ Code[s[d]] \in Nat /\ Code[t[d]] \in Nat
    BY <2>2, CodeIs
  <2>4. Code[s[d]] < Code[t[d]] \/ Code[t[d]] < Code[s[d]]
    BY <2>3
  <2>5. LowerAt(s, t, d) \/ LowerAt(t, s, d)
    BY <1>1, <1>5, <1>6, <2>1, <2>4 DEF LowerAt
  <2> QED
    BY <1>4, <2>5, BeforeIs
<1> QED
  BY <1>7, <1>8, <1>9, <1>10

LEMMA EmptyFirst ==
  ASSUME NEW s \in Texts
  PROVE  Before(<<>>, s) <=> s # <<>>
<1>1. <<>> \in Texts /\ Len(<<>>) = 0
  BY DEF Texts
<1>2. ASSUME s # <<>> PROVE Before(<<>>, s)
  <2>1. 1 \in 1 .. Len(s)
    BY <1>2, TextIs, EmptyIffLen DEF Texts
  <2>2. LowerAt(<<>>, s, 1)
    BY <1>1, <2>1 DEF LowerAt
  <2> QED
    BY <1>1, <2>2, BeforeIs
<1> QED
  BY <1>1, <1>2, NeverBeforeItself

-----------------------------------------------------------------------------
(* Sorting *)

\* Where an element comes to stand.
Position(list, i) == Cardinality(NotBehind(list, i))

LEMMA NotBehindIs ==
  ASSUME NEW list \in Seq(Texts), NEW i \in 1 .. Len(list)
  PROVE  /\ NotBehind(list, i) \subseteq 1 .. Len(list) /\ i \in NotBehind(list, i)
         /\ IsFiniteSet(NotBehind(list, i)) /\ Position(list, i) \in 1 .. Len(list)
<1>1. Len(list) \in Nat /\ DOMAIN list = 1 .. Len(list)
  BY LenProperties
<1>2. PICK S, n : S = NotBehind(list, i) /\ n = Len(list)
  OBVIOUS
<1>3. S \subseteq 1 .. n /\ i \in S
  BY <1>1, <1>2 DEF NotBehind
<1>4. IsFiniteSet(1 .. n) /\ Cardinality(1 .. n) = n
  BY <1>1, <1>2, FS_Interval
<1>5. IsFiniteSet(S) /\ Cardinality(S) <= n
  BY <1>3, <1>4, FS_Subset
<1>6. Cardinality(S) \in Nat /\ Cardinality(S) # 0
  BY <1>3, <1>5, FS_CardinalityType, FS_EmptySet
<1>7. Cardinality(S) \in 1 .. n
  BY <1>1, <1>2, <1>5, <1>6
<1> QED
  BY <1>2, <1>3, <1>5, <1>7 DEF Position

\* What is before another element comes to stand before it.
LEMMA PositionsOrdered ==
  ASSUME NEW list \in Seq(Texts), NEW i \in 1 .. Len(list), NEW j \in 1 .. Len(list),
         Before(list[i], list[j]) \/ (list[i] = list[j] /\ i < j)
  PROVE  Position(list, i) < Position(list, j)
<1>1. Len(list) \in Nat /\ DOMAIN list = 1 .. Len(list)
  BY LenProperties
<1>2. PICK S, T : S = NotBehind(list, i) /\ T = NotBehind(list, j)
  OBVIOUS
<1>3. \A k \in 1 .. Len(list) : list[k] \in Texts
  BY ElementOfSeq
<1>4. S \subseteq T
  <2> SUFFICES ASSUME NEW k \in S PROVE k \in T
    OBVIOUS
  <2>1. k \in 1 .. Len(list) /\ (Before(list[k], list[i]) \/ (list[k] = list[i] /\ k <= i))
    BY <1>1, <1>2 DEF NotBehind
  <2>2. Before(list[k], list[j]) \/ (list[k] = list[j] /\ k <= j)
    <3>1. CASE Before(list[i], list[j])
      BY <1>3, <2>1, <3>1, BeforeTransitive
    <3>2. CASE list[i] = list[j] /\ i < j
      <4>1. k <= i => k <= j
        BY <1>1, <2>1, <3>2
      <4> QED
        BY <2>1, <3>2, <4>1
    <3> QED
      BY <3>1, <3>2
  <2> QED
    BY <1>1, <1>2, <2>1, <2>2 DEF NotBehind
<1>5. j \in T /\ j \notin S
  <2>1. j \in T
    BY <1>2, NotBehindIs
  <2>2. ASSUME j \in S PROVE FALSE
    <3>1. Before(list[j], list[i]) \/ (list[j] = list[i] /\ j <= i)
      BY <1>2, <2>2 DEF NotBehind
    <3>2. CASE Before(list[i], list[j])
      <4>1. Before(list[j], list[j])
        BY <1>3, <3>1, <3>2, BeforeTransitive
      <4> QED
        BY <1>3, <4>1, NeverBeforeItself
    <3>3. CASE list[i] = list[j] /\ i < j
      <4>1. ~(j <= i)
        BY <1>1, <3>3
      <4>2. Before(list[j], list[j])
        BY <3>1, <3>3, <4>1
      <4> QED
        BY <1>3, <4>2, NeverBeforeItself
    <3> QED
      BY <3>2, <3>3
  <2> QED
    BY <2>1, <2>2
<1>6. IsFiniteSet(S) /\ IsFiniteSet(T)
  BY <1>2, NotBehindIs
<1>7. Cardinality(S) <= Cardinality(T) /\ Cardinality(S) # Cardinality(T)
  BY <1>4, <1>5, <1>6, FS_Subset
<1>8. Cardinality(S) \in Nat /\ Cardinality(T) \in Nat
  BY <1>6, FS_CardinalityType
<1>9. Cardinality(S) < Cardinality(T)
  BY <1>7, <1>8
<1> QED
  BY <1>2, <1>9 DEF Position

LEMMA PositionsDiffer ==
  ASSUME NEW list \in Seq(Texts), NEW i \in 1 .. Len(list), NEW j \in 1 .. Len(list),
         Position(list, i) = Position(list, j)
  PROVE  i = j
<1> SUFFICES ASSUME i # j PROVE FALSE
  OBVIOUS
<1>1. Len(list) \in Nat /\ list[i] \in Texts /\ list[j] \in Texts
  BY LenProperties, ElementOfSeq
<1>2. i < j \/ j < i
  BY <1>1
<1>3. \/ Before(list[i], list[j]) \/ (list[i] = list[j] /\ i < j)
      \/ Before(list[j], list[i]) \/ (list[j] = list[i] /\ j < i)
  BY <1>1, <1>2, BeforeTotal
<1>4. Position(list, i) < Position(list, j) \/ Position(list, j) < Position(list, i)
  BY <1>3, PositionsOrdered
<1>5. Position(list, i) \in Nat
  BY <1>1, NotBehindIs
<1> QED
  BY <1>4, <1>5

\* Every place is taken.
LEMMA PositionsTaken ==
  ASSUME NEW list \in Seq(Texts), NEW k \in 1 .. Len(list)
  PROVE  \E i \in 1 .. Len(list) : Position(list, i) = k
<1>1. PICK n : n = Len(list)
  OBVIOUS
<1>2. n \in Nat
  BY <1>1, LenProperties
<1> DEFINE f == [i \in 1 .. n |-> Position(list, i)]
<1>3. f \in [1 .. n -> 1 .. n]
  BY <1>1, NotBehindIs
<1>4. f \in Injection(1 .. n, 1 .. n)
  <2>1. \A i, j \in 1 .. n : f[i] = f[j] => i = j
    BY <1>1, PositionsDiffer
  <2> QED
    BY <1>3, <2>1 DEF Injection, IsInjective
<1> HIDE DEF f
<1>5. IsFiniteSet(1 .. n)
  BY <1>2, FS_Interval
<1>6. f \in Surjection(1 .. n, 1 .. n)
  BY <1>4, <1>5, FS_Injection
<1>7. \E i \in 1 .. n : f[i] = k
  BY <1>1, <1>6 DEF Surjection
<1> QED
  BY <1>1, <1>7 DEF f

LEMMA SortedIs ==
  ASSUME NEW list \in Seq(Texts)
  PROVE  /\ Sorted(list) \in Seq(Texts) /\ Len(Sorted(list)) = Len(list)
         /\ \A i \in 1 .. Len(list) : Sorted(list)[Position(list, i)] = list[i]
<1>1. Len(list) \in Nat /\ DOMAIN list = 1 .. Len(list)
  BY LenProperties
<1> DEFINE at(k) == CHOOSE i \in DOMAIN list : Position(list, i) = k
<1>2. Sorted(list) = [k \in 1 .. Len(list) |-> list[at(k)]]
  BY <1>1 DEF Sorted, Position
<1>3. ASSUME NEW k \in 1 .. Len(list)
      PROVE  at(k) \in 1 .. Len(list) /\ Position(list, at(k)) = k
  BY <1>1, PositionsTaken
<1> HIDE DEF at
<1>4. \A k \in 1 .. Len(list) : list[at(k)] \in Texts
  BY <1>3, ElementOfSeq
<1>5. ASSUME NEW i \in 1 .. Len(list) PROVE Sorted(list)[Position(list, i)] = list[i]
  <2>1. PICK k : k = Position(list, i)
    OBVIOUS
  <2>2. k \in 1 .. Len(list)
    BY <2>1, NotBehindIs
  <2>3. at(k) = i
    BY <1>3, <2>1, <2>2, PositionsDiffer
  <2> QED
    BY <1>2, <2>1, <2>2, <2>3
<1>6. Sorted(list) \in Seq(Texts) /\ Len(Sorted(list)) = Len(list)
  BY <1>1, <1>2, <1>4
<1> QED
  BY <1>5, <1>6

LEMMA SortedInOrder ==
  ASSUME NEW list \in Seq(Texts)
  PROVE  InOrder(Sorted(list))
<1>1. PICK s, n : s = Sorted(list) /\ n = Len(list)
  OBVIOUS
<1>2. n \in Nat /\ Len(s) = n
  BY <1>1, LenProperties, SortedIs
<1>3. ASSUME NEW k \in 1 .. n - 1 PROVE ~Before(s[k + 1], s[k])
  <2>1. k \in 1 .. n /\ k + 1 \in 1 .. n /\ ~(k + 1 < k)
    BY <1>2
  <2>2. PICK i \in 1 .. n : Position(list, i) = k
    BY <1>1, <2>1, PositionsTaken
  <2>3. PICK j \in 1 .. n : Position(list, j) = k + 1
    BY <1>1, <2>1, PositionsTaken
  <2>4. s[k] = list[i] /\ s[k + 1] = list[j]
    BY <1>1, <2>2, <2>3, SortedIs
  <2>5. ~Before(list[j], list[i])
    BY <1>1, <2>1, <2>2, <2>3, PositionsOrdered
  <2> QED
    BY <2>4, <2>5
<1> QED
  BY <1>1, <1>2, <1>3 DEF InOrder

\* An empty text at the end of a list is sorted to the front.
LEMMA SortedWithEmpty ==
  ASSUME NEW list \in Seq(Texts)
  PROVE  Sorted(Append(list, <<>>)) = << <<>> >> \o Sorted(list)
<1>1. PICK n, more, s, t : /\ n = Len(list) /\ more = Append(list, <<>>)
                           /\ s = Sorted(list) /\ t = Sorted(more)
  OBVIOUS
<1>2. <<>> \in Texts
  BY DEF Texts
<1>3. /\ n \in Nat /\ more \in Seq(Texts) /\ Len(more) = n + 1
      /\ more[n + 1] = <<>> /\ \A i \in 1 .. n : more[i] = list[i]
  BY <1>1, <1>2, LenProperties, AppendProperties
<1>4. DOMAIN list = 1 .. n /\ DOMAIN more = 1 .. n + 1 /\ \A i \in 1 .. n : list[i] \in Texts
  BY <1>1, <1>3, LenProperties, ElementOfSeq
<1>5. ASSUME NEW i \in 1 .. n, list[i] # <<>>
      PROVE  Position(more, i) = Position(list, i) + 1
  <2>1. PICK S, T : S = NotBehind(list, i) /\ T = NotBehind(more, i)
    OBVIOUS
  <2>2. n + 1 \in T
    <3>1. Before(more[n + 1], more[i])
      BY <1>3, <1>4, <1>5, EmptyFirst
    <3>2. n + 1 \in DOMAIN more
      BY <1>3, <1>4
    <3> QED
      BY <2>1, <3>1, <3>2 DEF NotBehind
  <2>3. ASSUME NEW k \in 1 .. n PROVE k \in S <=> k \in T
    <3>1. k \in DOMAIN list /\ k \in DOMAIN more /\ more[k] = list[k] /\ more[i] = list[i]
      BY <1>3, <1>4
    <3> QED
      BY <2>1, <3>1 DEF NotBehind
  <2>4. S \subseteq 1 .. n /\ T \subseteq 1 .. n + 1
    BY <1>4, <2>1 DEF NotBehind
  <2>5. T = S \cup {n + 1} /\ n + 1 \notin S
    <3>1. \A k \in 1 .. n + 1 : k = n + 1 \/ k \in 1 .. n
      BY <1>3
    <3>2. n + 1 \notin 1 .. n
      BY <1>3
    <3> QED
      BY <2>2, <2>3, <2>4, <3>1, <3>2
  <2>6. IsFiniteSet(S)
    BY <1>1, <2>1, NotBehindIs
  <2>7. Cardinality(S \cup {n + 1}) = Cardinality(S) + 1
    BY <2>5, <2>6, FS_AddElement
  <2> QED
    BY <2>1, <2>5, <2>7 DEF Position
<1>6. /\ s \in Seq(Texts) /\ Len(s) = n /\ t \in Seq(Texts) /\ Len(t) = n + 1
      /\ \A i \in 1 .. n : s[Position(list, i)] = list[i]
      /\ \A i \in 1 .. n + 1 : t[Position(more, i)] = more[i]
  BY <1>1, <1>3, SortedIs
<1>7. t[1] = <<>>
  <2>1. PICK i \in 1 .. n + 1 : Position(more, i) = 1
    <3>1. 1 \in 1 .. Len(more)
      BY <1>3
    <3> QED
      BY <1>3, <3>1, PositionsTaken
  <2>2. t[1] = more[i]
    BY <1>6, <2>1
  <2>3. CASE i = n + 1
    BY <1>3, <2>2, <2>3
  <2>4. CASE i # n + 1
    <3>1. i \in 1 .. n
      BY <1>3, <2>4
    <3>2. Position(list, i) \in 1 .. n
      BY <1>1, <3>1, NotBehindIs
    <3>3. list[i] = <<>>
      BY <1>3, <1>5, <2>1, <3>1, <3>2
    <3> QED
      BY <1>3, <2>2, <3>1, <3>3
  <2> QED
    BY <2>3, <2>4
<1>8. ASSUME NEW k \in 1 .. n PROVE t[k + 1] = s[k]
  <2>1. PICK i \in 1 .. n : Position(list, i) = k
    BY <1>1, PositionsTaken
  <2>2. s[k] = list[i]
    BY <1>6, <2>1
  <2>3. CASE list[i] # <<>>
    <3>1. Position(more, i) = k + 1 /\ i \in 1 .. n + 1
      BY <1>3, <1>5, <2>1, <2>3
    <3>2. t[k + 1] = more[i]
      BY <1>6, <3>1
    <3> QED
      BY <1>3, <2>2, <3>2
  <2>4. CASE list[i] = <<>>
    <3>1. PICK m \in 1 .. n + 1 : Position(more, m) = k + 1
      <4>1. k + 1 \in 1 .. Len(more)
        BY <1>3
      <4> QED
        BY <1>3, <4>1, PositionsTaken
    <3>2. t[k + 1] = more[m]
      BY <1>6, <3>1
    <3>3. ASSUME more[m] # <<>> PROVE FALSE
      <4>1. m \in 1 .. n
        BY <1>3, <3>3
      <4>2. list[m] # <<>>
        BY <1>3, <3>3, <4>1
      <4>3. Position(list, m) + 1 = k + 1 /\ Position(list, m) \in 1 .. n
        BY <1>1, <1>5, <3>1, <4>1, <4>2, NotBehindIs
      <4>4. Position(list, m) = k
        BY <1>3, <4>3
      <4>5. m = i
        BY <1>1, <2>1, <4>1, <4>4, PositionsDiffer
      <4> QED
        BY <2>4, <4>2, <4>5
    <3> QED
      BY <2>2, <2>4, <3>2, <3>3
  <2> QED
    BY <2>3, <2>4
<1>9. PICK u : u = << <<>> >> \o s
  OBVIOUS
<1>10. u \in Seq(Texts) /\ Len(u) = n + 1 /\ u[1] = <<>> /\ \A k \in 1 .. n : u[k + 1] = s[k]
  <2>1. PICK head : head = << <<>> >>
    OBVIOUS
  <2>2. head \in Seq(Texts) /\ Len(head) = 1 /\ head[1] = <<>>
    BY <1>2, <2>1
  <2>3. /\ head \o s \in Seq(Texts) /\ Len(head \o s) = Len(head) + Len(s)
        /\ \A i \in 1 .. Len(head) + Len(s) :
             (head \o s)[i] = IF i <= Len(head) THEN head[i] ELSE s[i - Len(head)]
    BY <1>6, <2>2, ConcatProperties
  <2>4. Len(head) + Len(s) = n + 1
    BY <1>3, <1>6, <2>2
  <2>5. \A i \in 1 .. n + 1 : u[i] = IF i <= 1 THEN head[i] ELSE s[i - 1]
    BY <1>9, <2>1, <2>2, <2>3, <2>4
  <2>6. u[1] = <<>>
    BY <1>3, <2>2, <2>5
  <2>7. ASSUME NEW k \in 1 .. n PROVE u[k + 1] = s[k]
    <3>1. k + 1 \in 1 .. n + 1 /\ ~(k + 1 <= 1) /\ (k + 1) - 1 = k
      BY <1>3
    <3> QED
      BY <2>5, <3>1
  <2> QED
    BY <1>9, <2>1, <2>3, <2>4, <2>6, <2>7
<1>11. \A i \in 1 .. n + 1 : t[i] = u[i]
  <2> TAKE i \in 1 .. n + 1
  <2>1. CASE i = 1
    BY <1>7, <1>10, <2>1
  <2>2. CASE i # 1
    <3>1. PICK k \in 1 .. n : i = k + 1
      <4>1. i - 1 \in 1 .. n /\ i = (i - 1) + 1
        BY <1>3, <2>2
      <4> QED
        BY <4>1
    <3> QED
      BY <1>8, <1>10, <3>1
  <2> QED
    BY <2>1, <2>2
<1>12. t = u
  BY <1>6, <1>10, <1>11, SameText
<1> QED
  BY <1>1, <1>9, <1>12

-----------------------------------------------------------------------------
(* The front ends *)

LEMMA TruncateIs ==
  ASSUME NEW t \in Texts
  PROVE  \E z \in 1 .. Len(t) + 1 :
           /\ TruncateAtNull(t) \in Texts /\ Len(TruncateAtNull(t)) = z - 1
           /\ \A i \in 1 .. z - 1 : TruncateAtNull(t)[i] = t[i] /\ t[i] # "NUL"
           /\ z <= Len(t) => t[z] = "NUL"
<1>1. Len(t) \in Nat /\ DOMAIN t = 1 .. Len(t)
  BY TextIs
<1>2. PICK z, I, u : /\ I = In(t, {"NUL"}) /\ z = FirstFrom(t, 1, I)
                     /\ u = SubSeq(t, 1, z - 1)
  OBVIOUS
<1>3. IsFirst(z, 1, Len(t), I)
  <2>1. 1 \in 1 .. Len(t) + 1
    BY <1>1
  <2> QED
    BY <1>2, <2>1, FirstIs DEF Texts
<1>4. z \in 1 .. Len(t) + 1 /\ z - 1 \in 0 .. Len(t) /\ z \in Nat
  BY <1>1, <1>3 DEF IsFirst
<1>5. \A i \in 1 .. Len(t) : i \in I <=> t[i] = "NUL"
  BY <1>1, <1>2 DEF In
<1>6. /\ u \in Seq(Characters) /\ Len(u) = IF 1 <= z - 1 THEN z - 1 - 1 + 1 ELSE 0
      /\ \A i \in 1 .. z - 1 - 1 + 1 : u[i] = t[1 + i - 1]
  <2>1. PICK b : b = z - 1
    OBVIOUS
  <2>2. b \in 0 .. Len(t) /\ 1 \in 1 .. Len(t) + 1 /\ u = SubSeq(t, 1, b)
    BY <1>1, <1>2, <1>4, <2>1
  <2>3. /\ u \in Seq(Characters) /\ Len(u) = IF 1 <= b THEN b - 1 + 1 ELSE 0
        /\ \A i \in 1 .. b - 1 + 1 : u[i] = t[1 + i - 1]
    BY <2>2, PartIs DEF Texts
  <2> QED
    BY <2>1, <2>3
<1>7. /\ (IF 1 <= z - 1 THEN z - 1 - 1 + 1 ELSE 0) = z - 1 /\ z - 1 - 1 + 1 = z - 1
      /\ \A i \in 1 .. z - 1 : 1 + i - 1 = i /\ i \in 1 .. Len(t)
  BY <1>1, <1>4
<1>8. u \in Texts /\ Len(u) = z - 1 /\ \A i \in 1 .. z - 1 : u[i] = t[i]
  BY <1>6, <1>7 DEF Texts
<1>9. \A i \in 1 .. z - 1 : t[i] # "NUL"
  BY <1>3, <1>5, <1>7 DEF IsFirst
<1>10. z <= Len(t) => t[z] = "NUL"
  BY <1>3, <1>4, <1>5 DEF IsFirst
<1>11. TruncateAtNull(t) = u
  BY <1>2 DEF TruncateAtNull
<1> QED
  BY <1>4, <1>8, <1>9, <1>10, <1>11

\* The terminator is the lowest character, so that texts keep their order
\* when they are cut there.
LEMMA TruncateKeepsOrder ==
  ASSUME NEW s \in Texts, NEW t \in Texts, Before(s, t)
  PROVE  \/ TruncateAtNull(s) = TruncateAtNull(t)
         \/ Before(TruncateAtNull(s), TruncateAtNull(t))
<1>1. PICK d \in Nat : LowerAt(s, t, d)
  BY BeforeIs
<1>2. PICK m, n, u, v : /\ m = Len(s) /\ n = Len(t)
                        /\ u = TruncateAtNull(s) /\ v = TruncateAtNull(t)
  OBVIOUS
<1>3. m \in Nat /\ n \in Nat
  BY <1>2, TextIs
<1>4. /\ d \in 1 .. n /\ d <= m + 1 /\ \A i \in 1 .. d - 1 : s[i] = t[i]
      /\ d = m + 1 \/ Code[s[d]] < Code[t[d]]
  BY <1>1, <1>2 DEF LowerAt
<1>5. PICK y \in 1 .. m + 1 :
        /\ u \in Texts /\ Len(u) = y - 1
        /\ \A i \in 1 .. y - 1 : u[i] = s[i] /\ s[i] # "NUL"
        /\ y <= m => s[y] = "NUL"
  BY <1>2, TruncateIs
<1>6. PICK z \in 1 .. n + 1 :
        /\ v \in Texts /\ Len(v) = z - 1
        /\ \A i \in 1 .. z - 1 : v[i] = t[i] /\ t[i] # "NUL"
        /\ z <= n => t[z] = "NUL"
  BY <1>2, TruncateIs
<1>7. y \in Nat /\ z \in Nat /\ y >= 1 /\ z >= 1
  BY <1>3
<1>8. CASE y < d
  <2>1. y \in 1 .. d - 1 /\ y <= m
    BY <1>3, <1>4, <1>7, <1>8
  <2>2. s[y] = "NUL" /\ t[y] = "NUL"
    BY <1>4, <1>5, <2>1
  <2>3. ~(y < z)
    <3> SUFFICES ASSUME y < z PROVE FALSE
      OBVIOUS
    <3>1. y \in 1 .. z - 1
      BY <1>7
    <3> QED
      BY <1>6, <2>2, <3>1
  <2>4. ~(z < y)
    <3> SUFFICES ASSUME z < y PROVE FALSE
      OBVIOUS
    <3>1. z \in 1 .. y - 1 /\ z \in 1 .. d - 1 /\ z <= n
      BY <1>3, <1>4, <1>7, <1>8
    <3> QED
      BY <1>4, <1>5, <1>6, <3>1
  <2>5. y = z
    BY <1>7, <2>3, <2>4
  <2>6. \A i \in 1 .. y - 1 : u[i] = v[i]
    <3> TAKE i \in 1 .. y - 1
    <3>1. i \in 1 .. d - 1
      BY <1>3, <1>7, <1>8
    <3> QED
      BY <1>4, <1>5, <1>6, <2>5, <3>1
  <2>7. Len(u) = Len(v) /\ \A i \in 1 .. Len(u) : u[i] = v[i]
    BY <1>5, <1>6, <2>5, <2>6
  <2>8. u = v
    BY <1>5, <1>6, <2>7, SameText DEF Texts
  <2> QED
    BY <1>2, <2>8
<1>9. CASE ~(y < d)
  <2>1. ~(z < d)
    <3> SUFFICES ASSUME z < d PROVE FALSE
      OBVIOUS
    <3>1. z \in 1 .. d - 1 /\ z <= n /\ z \in 1 .. y - 1
      BY <1>3, <1>4, <1>7, <1>9
    <3> QED
      BY <1>4, <1>5, <1>6, <3>1
  <2>2. ASSUME NEW i \in 1 .. d - 1 PROVE u[i] = v[i]
    <3>1. i \in 1 .. y - 1 /\ i \in 1 .. z - 1
      BY <1>3, <1>7, <1>9, <2>1
    <3> QED
      BY <1>4, <1>5, <1>6, <3>1
  <2>3. CASE z = d /\ y = d
    <3>1. Len(u) = Len(v) /\ \A i \in 1 .. Len(u) : u[i] = v[i]
      BY <1>5, <1>6, <2>2, <2>3
    <3>2. u = v
      BY <1>5, <1>6, <3>1, SameText DEF Texts
    <3> QED
      BY <1>2, <3>2
  <2>4. CASE z > d /\ y = d
    <3>1. d \in 1 .. Len(v) /\ d <= Len(u) + 1 /\ d = Len(u) + 1
      BY <1>4, <1>5, <1>6, <1>7, <2>4
    <3>2. LowerAt(u, v, d)
      BY <2>2, <3>1 DEF LowerAt
    <3>3. Before(u, v)
      BY <1>5, <1>6, <3>2, BeforeIs
    <3> QED
      BY <1>2, <3>3
  <2>5. CASE y > d
    <3>1. d \in 1 .. m /\ d # m + 1 /\ d \in 1 .. y - 1
      BY <1>3, <1>4, <1>7, <2>5
    <3>2. Code[s[d]] < Code[t[d]] /\ s[d] \in Characters /\ t[d] \in Characters
      BY <1>2, <1>4, <3>1, TextIs
    <3>3. t[d] # "NUL"
      <4>1. PICK a, b, c : a = Code[s[d]] /\ b = Code[t[d]] /\ c = Code["NUL"]
        OBVIOUS
      <4>2. a \in Nat /\ b \in Nat /\ c \in Nat /\ c <= a /\ a < b
        BY <3>2, <4>1, CodeIs
      <4>3. b # c
        BY <4>2
      <4> QED
        BY <4>1, <4>3
    <3>4. z # d
      BY <1>4, <1>6, <3>3
    <3>5. d \in 1 .. z - 1 /\ d \in 1 .. Len(v) /\ d <= Len(u) + 1
      BY <1>4, <1>5, <1>6, <1>7, <2>1, <2>5, <3>4
    <3>6. u[d] = s[d] /\ v[d] = t[d]
      BY <1>5, <1>6, <3>1, <3>5
    <3>7. LowerAt(u, v, d)
      BY <2>2, <3>2, <3>5, <3>6 DEF LowerAt
    <3>8. Before(u, v)
      BY <1>5, <1>6, <3>7, BeforeIs
    <3> QED
      BY <1>2, <3>8
  <2> QED
    BY <1>4, <1>7, <1>9, <2>1, <2>3, <2>4, <2>5
<1> QED
  BY <1>8, <1>9

LEMMA TruncatedInOrder ==
  ASSUME NEW list \in Seq(Texts), InOrder(list)
  PROVE  InOrder([i \in DOMAIN list |-> TruncateAtNull(list[i])])
<1>1. PICK n, cut : /\ n = Len(list)
                    /\ cut = [i \in DOMAIN list |-> TruncateAtNull(list[i])]
  OBVIOUS
<1>2. n \in Nat /\ DOMAIN list = 1 .. n /\ \A i \in 1 .. n : list[i] \in Texts
  BY <1>1, LenProperties, ElementOfSeq
<1>3. cut = [i \in 1 .. n |-> TruncateAtNull(list[i])]
  BY <1>1, <1>2
<1>4. Len(cut) = n
  BY <1>2, <1>3
<1>5. ASSUME NEW k \in 1 .. n - 1, Before(cut[k + 1], cut[k]) PROVE FALSE
  <2>1. PICK s, t, u, v : /\ s = list[k] /\ t = list[k + 1]
                          /\ u = TruncateAtNull(list[k]) /\ v = TruncateAtNull(list[k + 1])
    OBVIOUS
  <2>2. k \in 1 .. n /\ k + 1 \in 1 .. n
    BY <1>2
  <2>3. s \in Texts /\ t \in Texts /\ ~Before(t, s)
    BY <1>1, <1>2, <2>1, <2>2 DEF InOrder
  <2>4. u \in Texts /\ v \in Texts /\ Before(v, u)
    <3>1. u \in Texts /\ v \in Texts
      BY <2>1, <2>3, TruncateIs
    <3>2. cut[k] = u /\ cut[k + 1] = v
      BY <1>3, <2>1, <2>2
    <3> QED
      BY <1>5, <3>1, <3>2
  <2>5. s = t \/ Before(s, t)
    BY <2>3, BeforeTotal
  <2>6. u = v \/ Before(u, v)
    <3>1. CASE s = t
      BY <2>1, <3>1
    <3>2. CASE Before(s, t)
      BY <2>1, <2>3, <3>2, TruncateKeepsOrder
    <3> QED
      BY <2>5, <3>1, <3>2
  <2>7. Before(v, v) \/ Before(u, u)
    BY <2>4, <2>6, BeforeTransitive
  <2> QED
    BY <2>4, <2>7, NeverBeforeItself
<1> QED
  BY <1>1, <1>4, <1>5 DEF InOrder

LEMMA FrontEndsAgreeTyped ==
  ASSUME text \in Seq(Characters)
  PROVE  FrontEndsAgree
<1>1. PICK at, n, tokens, list :
        /\ at = In(text, {Delim}) /\ n = Cardinality(at)
        /\ tokens = Tokens(text, {Delim}) /\ list = Split(Delim, text)
  OBVIOUS
<1>2. Places(at, Len(text)) /\ Len(text) \in Nat /\ n \in Nat
  BY <1>1, TokensIs, RankType
<1>3. tokens = FirstTokens(text, at, n + 1) /\ StringViewSplit(text, Delim) = tokens
  BY <1>1, StringViewSplitIs, TokensIs
<1>4. /\ tokens \in Seq(Texts) /\ Len(tokens) = n + 1 /\ DOMAIN tokens = 1 .. n + 1
      /\ \A j \in 1 .. n + 1 : tokens[j] \in Texts
  <2>1. tokens = [j \in 1 .. n + 1 |-> TokenOf(text, at, j)]
    BY <1>3 DEF FirstTokens
  <2>2. \A j \in 1 .. n + 1 : TokenOf(text, at, j) \in Texts
    BY <1>1, <1>2, TokenTyped DEF Texts
  <2> QED
    BY <1>2, <2>1, <2>2
<1>5. list = IF tokens[n + 1] = <<>> THEN SubSeq(tokens, 1, n) ELSE tokens
  <2>1. list = TokensButEmptyLast(text, {Delim})
    BY <1>1, SplitIs
  <2>2. (n + 1) - 1 = n
    BY <1>2
  <2> QED
    BY <1>1, <1>4, <2>1, <2>2 DEF TokensButEmptyLast
<1>6. list \in Seq(Texts) /\ (list = tokens \/ tokens = Append(list, <<>>))
  <2>1. CASE tokens[n + 1] # <<>>
    BY <1>4, <1>5, <2>1
  <2>2. CASE tokens[n + 1] = <<>>
    <3>1. list = SubSeq(tokens, 1, n)
      BY <1>5, <2>2
    <3>2. list = [j \in 1 .. n |-> tokens[j]]
      <4>1. 1 \in 1 .. Len(tokens) + 1 /\ n \in 0 .. Len(tokens)
        BY <1>2, <1>4
      <4>2. /\ list \in Seq(Texts) /\ Len(list) = IF 1 <= n THEN n - 1 + 1 ELSE 0
            /\ \A j \in 1 .. n - 1 + 1 : list[j] = tokens[1 + j - 1]
        BY <1>4, <3>1, <4>1, PartIs
      <4>3. /\ n - 1 + 1 = n /\ (IF 1 <= n THEN n - 1 + 1 ELSE 0) = n
            /\ \A j \in 1 .. n : 1 + j - 1 = j
        BY <1>2
      <4>4. list = [j \in 1 .. Len(list) |-> list[j]]
        BY <4>2, LenProperties
      <4> QED
        BY <4>2, <4>3, <4>4
    <3>3. \A j \in 1 .. n : tokens[j] \in Texts
      BY <1>2, <1>4
    <3>4. list \in Seq(Texts) /\ Len(list) = n
      BY <1>2, <3>2, <3>3
    <3>5. PICK more : more = Append(list, <<>>)
      OBVIOUS
    <3>6. <<>> \in Texts
      BY DEF Texts
    <3>7. /\ more \in Seq(Texts) /\ Len(more) = n + 1
          /\ more[n + 1] = <<>> /\ \A j \in 1 .. n : more[j] = list[j]
      BY <3>4, <3>5, <3>6, AppendProperties
    <3>8. \A j \in 1 .. n + 1 : tokens[j] = more[j]
      <4> TAKE j \in 1 .. n + 1
      <4>1. j = n + 1 \/ j \in 1 .. n
        BY <1>2
      <4> QED
        BY <2>2, <3>2, <3>7, <4>1
    <3>9. tokens = more
      BY <1>4, <3>7, <3>8, SameText
    <3> QED
      BY <3>4, <3>5, <3>9
  <2> QED
    BY <2>1, <2>2
<1>7. PICK stored, parsed : stored = Sorted(list) /\ parsed = ParseVector(text)
  OBVIOUS
<1>8. /\ InsertVectorKey(text, FALSE) = stored
      /\ InsertVectorKey(text, TRUE) = [i \in DOMAIN stored |-> TruncateAtNull(stored[i])]
      /\ Sorted(CreateModeList(text)) = stored
  BY <1>1, <1>7 DEF InsertVectorKey, CreateModeList
<1>9. stored \in Seq(Texts) /\ InOrder(stored)
  BY <1>6, <1>7, SortedIs, SortedInOrder
<1>10. CASE text = <<>>
  <2>1. at = {} /\ n = 0
    BY <1>1, <1>10, FS_EmptySet DEF In
  <2>2. tokens[n + 1] = <<>>
    <3>1. tokens[1] = TokenOf(text, at, 1)
      BY <1>2, <1>3, <2>1 DEF FirstTokens
    <3>2. TokenOf(text, at, 1) = <<>>
      BY <1>1, <1>10, <2>1, SubSeqEmpty DEF TokenOf, CutOf, End
    <3>3. n + 1 = 1
      BY <2>1
    <3> QED
      BY <3>1, <3>2, <3>3
  <2>3. list = <<>>
    <3>1. list = SubSeq(tokens, 1, 0)
      BY <1>5, <2>1, <2>2
    <3> QED
      BY <3>1, SubSeqEmpty
  <2>4. stored = <<>> /\ parsed = <<>>
    BY <1>7, <1>10, <2>3 DEF Sorted, ParseVector
  <2>5. InOrder(parsed)
    BY <1>9, <2>4
  <2> QED
    BY <1>7, <1>8, <1>9, <2>4, <2>5, TruncatedInOrder DEF FrontEndsAgree
<1>11. CASE text # <<>>
  <2>1. parsed = Sorted(tokens)
    BY <1>3, <1>7, <1>11 DEF ParseVector
  <2>2. parsed = stored \/ parsed = << <<>> >> \o stored
    BY <1>6, <1>7, <2>1, SortedWithEmpty
  <2>3. InOrder(parsed)
    BY <1>4, <2>1, SortedInOrder
  <2> QED
    BY <1>7, <1>8, <1>9, <2>2, <2>3, TruncatedInOrder DEF FrontEndsAgree
<1> QED
  BY <1>10, <1>11

\* A list goes through any of the front ends into the cache and out again with
\* its elements, in order, for every list that transform does not refuse:
\* empty elements are stored first, and the cut at the terminator, which the
\* C API makes after sorting, cannot disturb the order.
THEOREM ListsAlwaysAgree == Spec => []ListsAgree
<1>1. text \in Seq(Characters) => ListsAgree
  BY ListRoundTripTyped, FrontEndsAgreeTyped DEF ListsAgree
<1> QED
  BY <1>1, TextTyped, PTL

=============================================================================
