-------------------------------- MODULE Text --------------------------------
(***************************************************************************)
(* StringUtils and StringViewUtils: the functions that split, trim and join*)
(* texts.  A text is a sequence of characters; a position is an index into *)
(* it, and one more than its length stands for the end pointer.            *)
(*                                                                         *)
(* Each loop of the code is a recursive function over positions; Tokens and*)
(* IsTrimmed, at the end, say without a loop what they compute.            *)
(***************************************************************************)
EXTENDS Naturals, Sequences, SequencesExt, FiniteSets, FiniteSetsExt

CONSTANTS
  Spaces          \* the characters of kWhitespaces, and of std::isspace

ASSUME SpacesAssumption == IsFiniteSet(Spaces)

End(text) == Len(text) + 1

From(text, p) == SubSeq(text, p, Len(text))

\* The first position from p on of a set of positions, or the end.
FirstFrom(text, p, positions) ==
  LET found == {i \in p .. Len(text) : i \in positions}
  IN IF found = {} THEN End(text) ELSE Min(found)

\* The positions of the characters in a set, and of the others.
In(text, S) == {i \in DOMAIN text : text[i] \in S}
NotIn(text, S) == {i \in DOMAIN text : text[i] \notin S}

-----------------------------------------------------------------------------
(* Splitting *)

\* StringUtils::split and splitStringView, for one character: inToken tells
\* whether pTokenBegin is the start of a token.
SplitStep(delim, text, s, i) ==
  IF text[i] = delim
  THEN [result |-> Append(s.result, IF s.inToken THEN SubSeq(text, s.begin, i - 1)
                                    ELSE <<>>),
        begin |-> s.begin, inToken |-> FALSE]
  ELSE [result |-> s.result, begin |-> IF s.inToken THEN s.begin ELSE i,
        inToken |-> TRUE]

Split(delim, text) ==
  LET loop[i \in 0 .. Len(text)] ==
        IF i = 0 THEN [result |-> <<>>, begin |-> 0, inToken |-> FALSE]
        ELSE SplitStep(delim, text, loop[i - 1], i)
      s == loop[Len(text)]
  IN IF s.inToken THEN Append(s.result, From(text, s.begin)) ELSE s.result

\* StringUtils::splitFirstOccurence
SplitFirstOccurence(delim, text) ==
  LET pos == FirstFrom(text, 1, In(text, {delim}))
  IN IF pos = End(text) THEN <<text>>
     ELSE <<SubSeq(text, 1, pos - 1), From(text, pos + 1)>>

\* The loop of stringViewSplit by a character and of stringViewToVector: the
\* tokens that a delimiter ends, and where the last one starts.
TokenStep(delim, text, s, i) ==
  IF text[i] = delim
  THEN [tokens |-> Append(s.tokens, SubSeq(text, s.start, i - 1)),
        start |-> i + 1]
  ELSE s

TokenLoop(delim, text) ==
  LET loop[i \in 0 .. Len(text)] ==
        IF i = 0 THEN [tokens |-> <<>>, start |-> 1]
        ELSE TokenStep(delim, text, loop[i - 1], i)
  IN loop[Len(text)]

\* Mutant: the last token is only added when it has a character.
StringViewSplitDropsLast(text, delim) ==
  LET loop == TokenLoop(delim, text)
  IN IF text = <<>> THEN << <<>> >>
     ELSE IF loop.start = End(text) THEN loop.tokens
     ELSE Append(loop.tokens, From(text, loop.start))

\* stringViewSplit by a character
StringViewSplit(text, delim) ==
  LET loop == TokenLoop(delim, text)
  IN IF text = <<>> THEN << <<>> >>
     ELSE Append(loop.tokens, From(text, loop.start))

\* The loop of stringViewSplit by a string and of its sibling for several
\* delimiters: the next one of the given starts, from p on, is searched for.
\* A delimiter at the end of the text is followed by an empty token.
SplitAt(text, size, starts) ==
  LET tokens[p \in 1 .. End(text)] ==
        LET found == {i \in starts : i >= p}
            n == Min(found)
        IN IF found = {} THEN <<From(text, p)>>
           ELSE <<SubSeq(text, p, n - 1)>> \o
                (IF n + size = End(text) THEN << <<>> >>
                 ELSE tokens[n + size])
  IN tokens[1]

\* stringViewSplit by a string, with std::search
StringViewSplitByString(text, delim) ==
  IF text = <<>> THEN << <<>> >>
  ELSE IF delim = <<>> THEN <<text>>
  ELSE SplitAt(text, Len(delim),
               {i \in 1 .. End(text) - Len(delim) :
                  SubSeq(text, i, i + Len(delim) - 1) = delim})

\* stringViewSplitMultiDelimiters, with std::find_first_of
StringViewSplitMultiDelimiters(text, delims) ==
  IF text = <<>> THEN << <<>> >>
  ELSE IF delims = {} THEN <<text>>
  ELSE SplitAt(text, 1, In(text, delims))

\* StringUtils::join
Join(separator, parts) ==
  IF parts = <<>> THEN <<>>
  ELSE parts[1] \o FlattenSeq([i \in 1 .. Len(parts) - 1 |->
                                 <<separator>> \o parts[i + 1]])

-----------------------------------------------------------------------------
(* Trimming *)

\* StringUtils::trim: what follows the last other character is erased, then
\* what precedes the first.
Trim(text) ==
  IF NotIn(text, Spaces) = {} THEN <<>>
  ELSE LET erased == SubSeq(text, 1, Max(NotIn(text, Spaces)))
       IN From(erased, Min(NotIn(erased, Spaces)))

\* stringViewTrim
StringViewTrim(text, trimChars) ==
  IF NotIn(text, trimChars) = {} THEN <<>>
  ELSE SubSeq(text, Min(NotIn(text, trimChars)), Max(NotIn(text, trimChars)))

\* trimSpaces: left moves right over spaces, then right moves left, but not
\* beyond left.
TrimSpaces(text) ==
  LET left == FirstFrom(text, 1, NotIn(text, Spaces))
      stops == {i \in left .. Len(text) : text[i] \notin Spaces}
      right == IF stops = {} THEN left - 1 ELSE Max(stops)
  IN IF text = <<>> THEN <<>> ELSE SubSeq(text, left, right)

-----------------------------------------------------------------------------
(* What they compute *)

\* The texts between the delimiters: one more than there are delimiters.
Tokens(text, delims) ==
  LET at == In(text, delims)
      n == Cardinality(at)
      Cut(j) == IF j = 0 THEN 0
                ELSE IF j = n + 1 THEN End(text)
                ELSE CHOOSE p \in at :
                       Cardinality({q \in at : q <= p}) = j
  IN [j \in 1 .. n + 1 |-> SubSeq(text, Cut(j - 1) + 1, Cut(j) - 1)]

\* The tokens without the last one when that is empty.
TokensButEmptyLast(text, delims) ==
  LET tokens == Tokens(text, delims)
  IN IF tokens[Len(tokens)] = <<>> THEN SubSeq(tokens, 1, Len(tokens) - 1)
     ELSE tokens

\* A trimmed text: the rest is spaces, and it neither starts nor ends with one.
IsTrimmed(text, trimmed) ==
  \E i \in 1 .. End(text), j \in 0 .. Len(text) :
    /\ trimmed = SubSeq(text, i, j)
    /\ \A p \in (1 .. i - 1) \cup (j + 1 .. Len(text)) : text[p] \in Spaces
    /\ trimmed # <<>> => trimmed[1] \notin Spaces
                         /\ trimmed[Len(trimmed)] \notin Spaces

=============================================================================
