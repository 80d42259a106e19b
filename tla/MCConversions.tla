--------------------------- MODULE MCConversions ----------------------------
(***************************************************************************)
(* A word of 16 values, in which 10 is the least number of two digits, as  *)
(* 10^19 is the least of twenty in a word of 64 bits; int64 holds less than*)
(* that, as it does in the code.  Lists may have three elements, of two    *)
(* characters each, and lengths wrap at four.  A double is a multiple of a *)
(* half and a float a whole number, up to 92: "9.29" is the float 9, and   *)
(* the double 9.5, from which the float 10 is made.                        *)
(***************************************************************************)
EXTENDS Conversions

MCDigitValue == [c \in {"0", "2", "9"} |->
                   CASE c = "0" -> 0 [] c = "2" -> 2 [] c = "9" -> 9]

MCNumberTypes ==
  [int32  |-> [signed |-> TRUE, max |-> 3],
   uint32 |-> [signed |-> FALSE, max |-> 7],
   int64  |-> [signed |-> TRUE, max |-> 7],
   uint64 |-> [signed |-> FALSE, max |-> 15]]

MCCharacters == {"NUL", " ", "-", ".", ":", "0", "2", "9", "n", "T"}

MCCode == [c \in MCCharacters |->
             CASE c = "NUL" -> 0 [] c = " " -> 1 [] c = "-" -> 2
               [] c = "." -> 3 [] c = "0" -> 4 [] c = "2" -> 5
               [] c = "9" -> 6 [] c = ":" -> 7 [] c = "T" -> 8 [] c = "n" -> 9]

MCBehind == {<<>>, <<"2">>, <<"NUL", "9">>}

MCIndices == {-1, 0, 1}

MCDefaults == {[Double |-> Zero, Int64 |-> 0, Bool |-> FALSE],
               [Double |-> Decimal(9, 0), Int64 |-> 9, Bool |-> TRUE]}

\* n / d to the nearest whole number, to the even one of two.
Nearest(n, d) ==
  LET twice == 2 * n + d
      up == twice \div (2 * d)
  IN IF twice % (2 * d) = 0 /\ up % 2 = 1 THEN up - 1 ELSE up

MCRoundToDouble(x) ==
  LET half == Nearest(2 * x.mantissa, PowerOfTen[-x.exponent])
  IN IF ~x.normal THEN x
     ELSE IF half % 2 = 0 THEN Decimal(half \div 2, 0) ELSE Decimal(5 * half, -1)

MCRoundToFloat(x) ==
  LET float == Nearest(x.mantissa, PowerOfTen[-x.exponent])
  IN IF x.normal /\ float \in -92 .. 92 THEN Decimal(float, 0) ELSE NotNormal

=============================================================================
