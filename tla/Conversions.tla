---------------------------- MODULE Conversions -----------------------------
(***************************************************************************)
(* What becomes of a text on its way through the cache: the conversions a  *)
(* writer applies to it (CacheValueParser, CacheWriterCApi), the bytes the *)
(* transformers store, and what the accessors of HashedCacheBase make of   *)
(* them.                                                                   *)
(*                                                                         *)
(* The state is one text, which Type extends by a character; the           *)
(* properties are about every text of up to MaxLength characters.          *)
(***************************************************************************)
EXTENDS Numbers

CONSTANTS
  Characters,      \* what a text is made of
  Code,            \* the codes that std::sort compares characters by
  Delim,           \* ':' between floats, '|' between list elements
  Behind,          \* the texts that may follow a value in the cache
  Defaults,        \* the scalars that a caller gives for what is not found
  Indices,         \* the indices asked for; some are negative
  kVectorLength,   \* Constants::Limit; 65535, like the next one
  kVectorElementLength,
  LengthSpan,      \* 65536, the values of a uint16_t
  MaxLength        \* bound

ASSUME ConversionsAssumption ==
  /\ "NUL" \in Characters /\ Code \in [Characters -> Nat] /\ IsInjective(Code)
  /\ \A c \in Characters : Code["NUL"] <= Code[c]
  /\ Delim # "NUL" /\ Indices \subseteq Int
  /\ kVectorLength \in Nat /\ kVectorElementLength \in Nat /\ LengthSpan \in Nat
  /\ kVectorLength < LengthSpan /\ kVectorElementLength < LengthSpan
  /\ MaxLength \in Nat

VARIABLE text

vars == <<text>>

-----------------------------------------------------------------------------
(* StringViewToNullTerminatedString *)

Transform(t) == Append(t, "NUL")

TrimExtraNullTerminator(bytes) == SubSeq(bytes, 1, Len(bytes) - 1)

-----------------------------------------------------------------------------
(* StringListToString.  The bytes are cells here: a length, or a character.*)

\* transform throws for what the lengths cannot express.
FitsList(list) ==
  /\ Len(list) <= kVectorLength
  /\ \A i \in DOMAIN list : Len(list[i]) <= kVectorElementLength

\* The number of elements, then every element behind its length and before a
\* terminator.
EncodeList(list) ==
  <<Len(list) % LengthSpan>> \o
  FlattenSeq([i \in DOMAIN list |->
                <<Len(list[i]) % LengthSpan>> \o Transform(list[i])])

\* The way back trusts the lengths.
DecodeStep(bytes, s) ==
  [list |-> Append(s.list, SubSeq(bytes, s.ptr + 1, s.ptr + bytes[s.ptr])),
   ptr |-> s.ptr + 1 + bytes[s.ptr] + 1]

DecodeList(bytes) ==
  LET loop[i \in 0 .. bytes[1]] ==
        IF i = 0 THEN [list |-> <<>>, ptr |-> 2]
        ELSE DecodeStep(bytes, loop[i - 1])
  IN loop[bytes[1]].list

-----------------------------------------------------------------------------
(* Lists of strings, as the front ends read them *)

Before(s, t) ==
  \/ IsStrictPrefix(s, t)
  \/ \E n \in DOMAIN s \cap DOMAIN t :
       /\ \A i \in 1 .. n - 1 : s[i] = t[i]
       /\ Code[s[n]] < Code[t[n]]

\* The elements that std::sort leaves no further back than element i.
NotBehind(list, i) ==
  {j \in DOMAIN list :
     Before(list[j], list[i]) \/ (list[j] = list[i] /\ j <= i)}

Sorted(list) ==
  [k \in DOMAIN list |->
     list[CHOOSE i \in DOMAIN list : Cardinality(NotBehind(list, i)) = k]]

\* CacheValueParser::parseVector
ParseVector(t) ==
  IF t = <<>> THEN <<>>
  ELSE Sorted(StringViewSplit(t, Delim))

\* insertVectorKey: "Truncate value at null if exist", after sorting.
TruncateAtNull(t) ==
  SubSeq(t, 1, FirstFrom(t, 1, In(t, {"NUL"})) - 1)

\* Mutant: the elements are not sorted.
InsertVectorKeyUnsorted(t, noNull) ==
  LET list == Split(Delim, t)
  IN IF noNull THEN [i \in DOMAIN list |-> TruncateAtNull(list[i])] ELSE list

InsertVectorKey(t, noNull) ==
  LET list == Sorted(Split(Delim, t))
  IN IF noNull THEN [i \in DOMAIN list |-> TruncateAtNull(list[i])] ELSE list

\* createMode of the command line tool: in the order of the text.
CreateModeList(t) == Split(Delim, t)

-----------------------------------------------------------------------------
(* Lists of floats *)

kFloatSize == 4

\* insertScalarKey with the type FloatList: outside the try block, so that
\* the exception leaves the C function.
InsertFloats(t) == StringViewToVector("float", t, Delim)

\* valueDbl < FLT_MAX && valueDbl > -FLT_MAX
WithinFloat(double) ==
  LET max == FLT_MAX * PowerOfTen[-double.exponent]
  IN double.normal /\ -max < double.mantissa /\ double.mantissa < max

\* parseAsFloat, for the values to deduplicate: every element becomes a
\* double, zero if it is no number, and the double a float; what is not within
\* the floats is dropped.
ParseAsFloat(t) ==
  LET tokens == Split(Delim, t)
      doubles == [i \in DOMAIN tokens |-> ToDouble(Trim(tokens[i]))]
      values[i \in 0 .. Len(tokens)] ==
        IF i = 0 THEN <<>>
        ELSE IF WithinFloat(doubles[i])
             THEN Append(values[i - 1], RoundToFloat(doubles[i]))
             ELSE values[i - 1]
  IN values[Len(tokens)]

\* transform to a vector or span of floats, from as many bytes.
FloatsOf(floats, size) ==
  IF size % kFloatSize # 0 THEN <<>>
  ELSE SubSeq(floats, 1, size \div kFloatSize)

\* getFloatVector on a string converts the value with its terminator.
GetFloatVectorOfString(bytes) == StringViewToVector("float", bytes, Delim)

GetFloatVectorOfFloats(floats) ==
  FloatsOf(floats, kFloatSize * Len(floats))

AtIndexOrZero(values, index) ==
  IF 0 <= index /\ index < Len(values) THEN values[index + 1] ELSE Zero

\* getFloatAtIndex
GetFloatAtIndexOfString(bytes, index) ==
  LET At(r) == IF r = Throws THEN Throws
               ELSE Returns(AtIndexOrZero(r.value, index))
  IN At(GetFloatVectorOfString(bytes))

\* Mutant: the offset may be the size.
GetFloatAtIndexUpToSize(floats, index) ==
  LET size == kFloatSize * Len(floats)
      offset == kFloatSize * index
  IN IF 0 <= index /\ offset <= size
     THEN IF offset = size THEN NotNormal ELSE floats[index + 1]
     ELSE Zero

GetFloatAtIndexOfFloats(floats, index) ==
  LET size == kFloatSize * Len(floats)
      offset == kFloatSize * index
  IN IF 0 <= index /\ offset < size THEN floats[index + 1] ELSE Zero

\* getFloatAtIndices: zeros, overwritten where the index is within the value.
GetFloatAtIndicesOfString(bytes, indices) ==
  LET At(r) == IF r = Throws THEN Throws
               ELSE Returns([at \in DOMAIN indices |->
                               AtIndexOrZero(r.value, indices[at])])
  IN At(GetFloatVectorOfString(bytes))

GetFloatAtIndicesOfFloats(floats, indices) ==
  [at \in DOMAIN indices |-> GetFloatAtIndexOfFloats(floats, indices[at])]

-----------------------------------------------------------------------------
(* Scalars *)

\* insertScalarKey with the types Double, Int64 and Bool.
InsertScalar(t) ==
  [Double |-> ToDouble(t), Int64 |-> ToIntegral(NumberTypes["int64"], t),
   Bool |-> ToBool(t)]

\* getDouble, getInt64 and getBool on a string: what is left of an empty one
\* without its terminator counts as not found.
GetScalarOfString(bytes, behind, default) ==
  LET t == TrimExtraNullTerminator(bytes)
  IN IF t = <<>> THEN [found |-> FALSE, value |-> default]
     ELSE [found |-> TRUE,
           value |-> [Double |-> ToDoubleCompatible(t, behind),
                      Int64 |-> ToIntegral(NumberTypes["int64"], t),
                      Bool |-> ToBool(t)]]

-----------------------------------------------------------------------------
(* The specification *)

Init == text = <<>>

Type(c) ==
  /\ Len(text) < MaxLength
  /\ text' = Append(text, c)

Next == \E c \in Characters : Type(c)

Spec == Init /\ [][Next]_vars

-----------------------------------------------------------------------------
(* Properties *)

\* The functions that split a text agree: those of StringViewUtils return
\* every token, those of StringUtils all but an empty last one, splitting at
\* the first occurrence cuts the text where they do, and join undoes them.
SplitsAgree ==
  LET tokens == Tokens(text, {Delim})
  IN /\ StringViewSplit(text, Delim) = tokens
     /\ StringViewSplitByString(text, <<Delim>>) = tokens
     /\ StringViewSplitMultiDelimiters(text, {Delim}) = tokens
     /\ StringViewSplitMultiDelimiters(text, {Delim} \cup Spaces) =
          Tokens(text, {Delim} \cup Spaces)
     /\ Split(Delim, text) = TokensButEmptyLast(text, {Delim})
     /\ SplitFirstOccurence(Delim, text)[1] = tokens[1]
     /\ Join(Delim, StringViewSplit(text, Delim)) = text
     /\ Join(Delim, SplitFirstOccurence(Delim, text)) = text

\* The functions that trim a text take off all spaces at both ends, nothing
\* else, and agree.
TrimsAgree ==
  /\ IsTrimmed(text, Trim(text))
  /\ StringViewTrim(text, Spaces) = Trim(text)
  /\ TrimSpaces(text) = Trim(text)

\* What splits and what trims a text agree with one another and with what
\* splitting and trimming mean, whichever of the variants a caller uses.
TextFunctionsAgree == SplitsAgree /\ TrimsAgree

\* fast_float's integers are the ones std::from_chars reads, and it rejects
\* what does not fit: the number that wrapped in the word it accumulates
\* never passes for one of a narrower type, and for the word itself only when
\* it has as many digits as the largest.  The functions of StringUtils and of
\* StringConversion then give the same number, or neither gives one.
IntegersExact ==
  \A type \in DOMAIN NumberTypes :
    LET read == FromCharsInt(NumberTypes[type], text)
        exact == StdFromChars(NumberTypes[type], text)
    IN \/ /\ read = exact
          /\ ToNumberOr(type, text, 0) = ToIntegral(NumberTypes[type], text)
          /\ ToNumber(type, text) = Throws <=> exact.ec # "ok"
       \/ /\ type = "uint64" /\ exact = OutOfRange
          /\ read.ec = "ok" /\ read.value >= MinSafe

\* A string that is not empty reads as the scalars that the writer would have
\* stored for it, whatever lies behind it in the cache and whatever the
\* caller's default; only for the texts that strtod alone accepts a double is
\* read where the writer stores zero.  An empty string reads as not found, so
\* that the caller gets its default, where the writer stores zero and false.
ScalarsAgree ==
  LET stored == InsertScalar(text)
      Alike(read) ==
        /\ read.Int64 = stored.Int64 /\ read.Bool = stored.Bool
        /\ read.Double = IF stored.Double = Zero
                         THEN RoundToDouble(WholeOr(Strtod(text), text, Zero))
                         ELSE stored.Double
      Reads(read, default) ==
        IF text = <<>>
        THEN /\ ~read.found /\ read.value = default
             /\ stored = [Double |-> Zero, Int64 |-> 0, Bool |-> FALSE]
        ELSE read.found /\ Alike(read.value)
  IN \A behind \in Behind, default \in Defaults :
       Reads(GetScalarOfString(Transform(text), behind, default), default)

\* A text reads as the same floats whether it was stored as a string or as
\* floats; an index reads the element of the vector, or zero; the version
\* with a default, and the one that is handed trimSpaces, differ only where
\* a token is no number or the last one is empty.
FloatReadsAgree ==
  LET bytes == Transform(text)
      ReadAs(floats) ==
        /\ GetFloatVectorOfFloats(floats) = floats
        /\ StringViewToVectorWithDefault("float", text, Zero, Delim) = floats
        /\ StringViewToVectorProcessed("float", text, Delim) = Returns(floats)
        /\ \A i \in Indices :
             LET one == GetFloatAtIndexOfFloats(floats, i)
             IN /\ one = IF i \in 0 .. Len(floats) - 1
                         THEN floats[i + 1] ELSE Zero
                /\ GetFloatAtIndexOfString(bytes, i) = Returns(one)
                /\ \A j \in Indices :
                     LET both == GetFloatAtIndicesOfFloats(floats, <<j, i>>)
                     IN /\ both[2] = one
                        /\ GetFloatAtIndicesOfString(bytes, <<j, i>>) =
                             Returns(both)
      Alike(inserted) ==
        /\ GetFloatVectorOfString(bytes) = inserted
        /\ IF inserted = Throws
           THEN \A i \in Indices : GetFloatAtIndexOfString(bytes, i) = Throws
           ELSE ReadAs(inserted.value)
  IN Alike(InsertFloats(text))

\* The token is a number from end to end, and one that a float can hold.
IsFloatText(t) ==
  /\ t # <<>> /\ Whole(FromCharsFloat(t), t)
  /\ RoundToFloat(FromCharsFloat(t).value) # NotNormal

\* Its double is within the floats, and rounds to the float that it rounds to
\* itself.
RoundsAlike(t) ==
  LET exact == FromCharsFloat(t).value
  IN /\ WithinFloat(RoundToDouble(exact))
     /\ RoundToFloat(RoundToDouble(exact)) = RoundToFloat(exact)

\* A value given as one to deduplicate is recognised by being stored like the
\* same value given as a float list.  If every element of it is a number from
\* end to end it is, unless the detour of parseAsFloat by a double shows: one
\* element that rounds twice to another float, or whose double is not below
\* FLT_MAX, and the value is stored differently.
DuplicatesRecognised ==
  LET tokens == Tokens(text, {Delim})
  IN (\A i \in DOMAIN tokens : IsFloatText(TrimSpaces(tokens[i]))) =>
       (Returns(ParseAsFloat(text)) = InsertFloats(text) <=>
          \A i \in DOMAIN tokens : RoundsAlike(TrimSpaces(tokens[i])))

\* A list that is stored comes back, element by element.
ListRoundTrip ==
  LET list == StringViewSplit(text, Delim)
  IN FitsList(list) => DecodeList(EncodeList(list)) = list

InOrder(list) ==
  \A i \in 1 .. Len(list) - 1 : ~Before(list[i + 1], list[i])

\* The front ends store the same elements for a text; only the parser stores
\* an empty one more, behind a delimiter that ends the text, and sorting puts
\* it in front.  The parser and the C API store them in order, also when the C
\* API cuts them at their terminator after sorting.
FrontEndsAgree ==
  LET stored == InsertVectorKey(text, FALSE)
  IN /\ ParseVector(text) \in {stored, << <<>> >> \o stored}
     /\ Sorted(CreateModeList(text)) = stored
     /\ InOrder(ParseVector(text))
     /\ InOrder(InsertVectorKey(text, TRUE))

\* A list goes through the parser, the C API or the command line into the
\* cache and out again with its elements, in order.
ListsAgree == ListRoundTrip /\ FrontEndsAgree

=============================================================================
