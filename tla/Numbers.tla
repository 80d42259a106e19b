------------------------------ MODULE Numbers -------------------------------
(***************************************************************************)
(* Texts to numbers: std::from_chars and strtod as StringUtils uses them,  *)
(* fast_float as StringConversion and StringViewUtils do.                  *)
(*                                                                         *)
(* The word that fast_float accumulates an integer in has WordSpan values, *)
(* 2^64 in the code; the digits beyond it are lost and the overflow is to  *)
(* be noticed afterwards, from the number of digits.  A floating point     *)
(* number is the decimal that parse_number_string makes of the text,       *)
(* rounded to a float or to a double, or NaN, which stands for all numbers *)
(* that are not normal.  Exponents, more than 19 digits and what no double *)
(* can hold are left out.                                                  *)
(***************************************************************************)
EXTENDS Text, Integers

CONSTANTS
  DigitValue,     \* the value of every character that is a digit
  WordSpan,       \* 2^64 in the code
  NumberTypes,    \* [name -> [signed, max]]; "uint64" is the word itself
  NaN,            \* the character that stands for the spelling "nan"
  True,           \* the character that stands for "true" in any case
  RoundToFloat(_),  \* the float next to a decimal, NotNormal beyond FLT_MAX
  RoundToDouble(_), \* the double next to a decimal
  FLT_MAX         \* the largest float

PowerOfTen[n \in Nat] == IF n = 0 THEN 1 ELSE 10 * PowerOfTen[n - 1]

\* max_digits_u64( 10 ) and min_safe_u64( 10 )
MaxDigits ==
  CHOOSE n \in 1 .. WordSpan :
    PowerOfTen[n - 1] < WordSpan /\ WordSpan <= PowerOfTen[n]

MinSafe == PowerOfTen[MaxDigits - 1]

\* The digits are decimal, and neither they nor the other characters of a
\* number are spaces; the types other than the word itself hold less than
\* every number of as many digits as the word has.
ASSUME NumbersAssumption ==
  /\ WordSpan \in Nat \ {0, 1}
  /\ NumberTypes["uint64"] = [signed |-> FALSE, max |-> WordSpan - 1]
  /\ \A type \in DOMAIN NumberTypes \ {"uint64"} :
       /\ NumberTypes[type].signed \in BOOLEAN
       /\ NumberTypes[type].max \in Nat
       /\ NumberTypes[type].max + 1 < MinSafe
  /\ "uint64" \in DOMAIN NumberTypes /\ "float" \notin DOMAIN NumberTypes
  /\ "0" \in DOMAIN DigitValue
  /\ \A c \in DOMAIN DigitValue : /\ DigitValue[c] \in 0 .. 9
                                  /\ DigitValue[c] = 0 <=> c = "0"
  /\ {"-", ".", NaN, "NUL"} \cap DOMAIN DigitValue = {}
  /\ NaN \notin {"-", ".", "NUL"}
  /\ Spaces \cap (DOMAIN DigitValue \cup {"-", ".", NaN, "NUL"}) = {}

\* The decimal number of m units of 10^e.
Decimal(m, e) == [normal |-> TRUE, mantissa |-> m, exponent |-> e]

Zero == Decimal(0, 0)

NotNormal == [Zero EXCEPT !.normal = FALSE]

\* Zero is a float and a double, and neither rounding makes a number of what
\* is none.
ASSUME RoundingAssumption ==
  /\ RoundToFloat(Zero) = Zero /\ RoundToFloat(NotNormal) = NotNormal
  /\ RoundToDouble(Zero) = Zero /\ RoundToDouble(NotNormal) = NotNormal
  /\ FLT_MAX \in Nat

\* The position behind the digits that start at p.
DigitsEnd(text, p) == FirstFrom(text, p, NotIn(text, DOMAIN DigitValue))

\* What the digits of a text mean.
Value(digits) ==
  LET value[i \in 0 .. Len(digits)] ==
        IF i = 0 THEN 0 ELSE 10 * value[i - 1] + DigitValue[digits[i]]
  IN value[Len(digits)]

Invalid == [ec |-> "invalid_argument"]
OutOfRange == [ec |-> "result_out_of_range"]
Parsed(value, end) == [ec |-> "ok", value |-> value, end |-> end]

OkOr(r, default) == IF r.ec = "ok" THEN r.value ELSE default

-----------------------------------------------------------------------------
(* Integers *)

\* The accumulator of parse_int_string, which wraps.
WordValue(digits) ==
  LET value[i \in 0 .. Len(digits)] ==
        IF i = 0 THEN 0
        ELSE (10 * value[i - 1] + DigitValue[digits[i]]) % WordSpan
  IN value[Len(digits)]

\* Mutant: the word is compared with the type's limits, but the number of
\* digits is not looked at.
WordOverflowUnnoticed(digits) == FALSE

\* "this is the value below which it has definitely overflowed"
WordOverflow(digits) ==
  \/ Len(digits) > MaxDigits
  \/ Len(digits) = MaxDigits /\ WordValue(digits) < MinSafe

\* fast_float::from_chars for an integer type: parse_int_string.
FromCharsInt(T, text) ==
  LET negative == text[1] = "-"
      start == IF negative THEN 2 ELSE 1
      zeros == FirstFrom(text, start, NotIn(text, {"0"}))
      end == DigitsEnd(text, zeros)
      digits == SubSeq(text, zeros, end - 1)
      i == WordValue(digits)
  IN IF text = <<>> THEN Invalid
     ELSE IF negative /\ ~T.signed THEN Invalid
     ELSE IF digits = <<>>
          THEN IF zeros > start THEN Parsed(0, end) ELSE Invalid
     ELSE IF WordOverflow(digits) THEN OutOfRange
     ELSE IF T # NumberTypes["uint64"]
             /\ i > T.max + (IF negative THEN 1 ELSE 0) THEN OutOfRange
     ELSE Parsed(IF negative THEN -i ELSE i, end)

\* std::from_chars, as the standard has it: the longest prefix that is an
\* integer, and out of range when the type cannot hold it.
StdFromChars(T, text) ==
  LET negative == text # <<>> /\ text[1] = "-" /\ T.signed
      start == IF negative THEN 2 ELSE 1
      end == DigitsEnd(text, start)
      n == Value(SubSeq(text, start, end - 1))
  IN IF end = start THEN Invalid
     ELSE IF n > T.max + (IF negative THEN 1 ELSE 0) THEN OutOfRange
     ELSE Parsed(IF negative THEN -n ELSE n, end)

\* StringUtils::toLong and toInteger: zero for what is no number, and for
\* what does not fit.
ToIntegral(T, text) == OkOr(StdFromChars(T, text), 0)

-----------------------------------------------------------------------------
(* Floating point numbers *)

\* One digit at least, before the point or behind it.
ParsedDecimal(sign, digits, places, end) ==
  IF digits = <<>> THEN Invalid
  ELSE Parsed(Decimal(sign * Value(digits), -places), end)

\* The fraction, if the digits that end at int are followed by a point.
ParseFraction(text, sign, start, int) ==
  LET whole == SubSeq(text, start, int - 1)
      end == DigitsEnd(text, int + 1)
  IN IF int <= Len(text) /\ text[int] = "."
     THEN ParsedDecimal(sign, whole \o SubSeq(text, int + 1, end - 1),
                        end - (int + 1), end)
     ELSE ParsedDecimal(sign, whole, 0, int)

\* parse_number_string: digits, then a point with more digits or none.
ParseNumberString(text) ==
  IF text[1] = "-" THEN ParseFraction(text, -1, 2, DigitsEnd(text, 2))
  ELSE ParseFraction(text, 1, 1, DigitsEnd(text, 1))

\* parse_infnan, for what parse_number_string rejects.
ParseInfNan(text) ==
  LET start == IF text[1] = "-" THEN 2 ELSE 1
  IN IF start <= Len(text) /\ text[start] = NaN
     THEN Parsed(NotNormal, start + 1) ELSE Invalid

\* fast_float::from_chars for float and double, before it rounds.
FromCharsFloat(text) ==
  LET FirstOk(r, other) == IF r.ec = "ok" THEN r ELSE other
  IN IF text = <<>> THEN Invalid
     ELSE FirstOk(ParseNumberString(text), ParseInfNan(text))

\* strtod on a terminated copy, which ends at the first zero byte: spaces may
\* come first.
Strtod(text) ==
  LET terminated == SubSeq(text, 1, FirstFrom(text, 1, In(text, {"NUL"})) - 1)
      start == FirstFrom(terminated, 1, NotIn(terminated, Spaces))
      Shifted(r) == IF r.ec = "ok" THEN Parsed(r.value, start + r.end - 1)
                    ELSE Parsed(Zero, 1)
  IN Shifted(FromCharsFloat(From(terminated, start)))

Whole(r, text) == r.ec = "ok" /\ r.end = End(text)

WholeOr(r, text, default) == IF Whole(r, text) THEN r.value ELSE default

\* StringUtils::toDouble
ToDouble(text) == RoundToDouble(WholeOr(FromCharsFloat(text), text, Zero))

\* Mutant: strtod is given the view, and reads on behind it.
ToDoublePastTheEnd(text, behind) ==
  IF text = <<>> THEN Zero
  ELSE RoundToDouble(WholeOr(FromCharsFloat(text), text,
                             WholeOr(Strtod(text \o behind), text, Zero)))

\* StringUtils::toDoubleCompatible on a view, with what is behind it in the
\* cache: the copy that strtod gets ends where the view does.
ToDoubleCompatible(text, behind) ==
  IF text = <<>> THEN Zero
  ELSE RoundToDouble(WholeOr(FromCharsFloat(text), text,
                             WholeOr(Strtod(text), text, Zero)))

\* StringUtils::toBool
ToBool(text) == text \in {<<True>>, <<"1">>}

-----------------------------------------------------------------------------
(* StringConversion and StringViewUtils: a conversion returns or throws.   *)

Returns(value) == [ec |-> "ok", value |-> value]
Throws == [ec |-> "throws"]

\* from_chars rounds once.  A subnormal float counts as out of range here:
\* toNormalNumber rejects both.
RoundedToFloat(r) ==
  IF r.ec # "ok" THEN r
  ELSE IF r.value # NotNormal /\ RoundToFloat(r.value) = NotNormal
       THEN OutOfRange
       ELSE Parsed(RoundToFloat(r.value), r.end)

FromChars(type, text) ==
  IF type = "float" THEN RoundedToFloat(FromCharsFloat(text))
  ELSE FromCharsInt(NumberTypes[type], text)

\* toNumber, toInt32 and so on: a prefix of the text is enough.
ToNumber(type, text) ==
  LET Checked(r) == IF r.ec = "ok" THEN Returns(r.value) ELSE Throws
  IN Checked(FromChars(type, text))

ToNumberOr(type, text, default) == OkOr(FromChars(type, text), default)

IsNormal(type, value) == type = "float" => value # NotNormal

\* toNormalNumber: infinities, NaN and subnormals are rejected too.
ToNormalNumber(type, text) ==
  LET Checked(r) == IF r.ec = "ok" /\ IsNormal(type, r.value)
                    THEN Returns(r.value) ELSE Throws
  IN Checked(FromChars(type, text))

ToNormalNumberOr(type, text, default) ==
  OkOr(ToNormalNumber(type, text), default)

\* The last token counts even when it, or the whole text, is empty.
AllTokens(text, delim) ==
  LET loop == TokenLoop(delim, text)
  IN Append(loop.tokens, From(text, loop.start))

\* One token that cannot be converted makes the whole conversion throw.
AllOrThrows(converted) ==
  IF \E i \in DOMAIN converted : converted[i] = Throws THEN Throws
  ELSE Returns([i \in DOMAIN converted |-> converted[i].value])

\* Mutant: tokens are not trimmed.
StringViewToVectorUntrimmed(type, text, delim) ==
  LET tokens == AllTokens(text, delim)
  IN AllOrThrows([i \in DOMAIN tokens |-> ToNormalNumber(type, tokens[i])])

\* stringViewToVector, toInt32Vector, toFloatVector and so on
StringViewToVector(type, text, delim) ==
  LET tokens == AllTokens(text, delim)
  IN AllOrThrows([i \in DOMAIN tokens |->
                    ToNormalNumber(type, TrimSpaces(tokens[i]))])

\* stringViewToVectorWithDefault and its wrappers
StringViewToVectorWithDefault(type, text, default, delim) ==
  LET tokens == AllTokens(text, delim)
  IN [i \in DOMAIN tokens |->
        ToNormalNumberOr(type, TrimSpaces(tokens[i]), default)]

\* stringViewToVector with trimSpaces as its processFunc: an empty last token
\* is left out.
StringViewToVectorProcessed(type, text, delim) ==
  LET loop == TokenLoop(delim, text)
      tokens == IF loop.start = End(text) THEN loop.tokens
                ELSE AllTokens(text, delim)
  IN AllOrThrows([i \in DOMAIN tokens |->
                    ToNormalNumber(type, TrimSpaces(tokens[i]))])

=============================================================================
