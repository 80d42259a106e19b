------------------------------ MODULE Settings ------------------------------
(***************************************************************************)
(* SharedSettingsProvider, the map from names to texts that a properties   *)
(* file fills.  A line of the file is a record: whether it has a '=', what *)
(* stands before it (with the spaces trimmed, and whether a '#' is in it)  *)
(* and behind it.  A name of the form axoncache.type.c is <<"type", "c">>, *)
(* and a list with commas is a sequence.                                   *)
(***************************************************************************)
EXTENDS Naturals, Sequences, SequencesExt

CONSTANTS
  IntegerOf,   \* the texts that are integers, and which; see Conversions
  Escapes,     \* the two-character spellings of getChar, and their meaning
  FirstChar    \* the first character of every other text

NoSettings == [name \in {} |-> ""]

\* mSettings[key] = value
SetSetting(settings, name, value) ==
  [n \in DOMAIN settings \cup {name} |->
     IF n = name THEN value ELSE settings[n]]

IsSet(settings, name) == name \in DOMAIN settings

SetIfNotSet(settings, name, value) ==
  IF IsSet(settings, name) THEN settings
  ELSE SetSetting(settings, name, value)

\* A file that cannot be opened has no lines.  Lines without '=' and lines
\* with '#' before it are skipped; of two lines for a name the later wins.
ReadSettings(lines) ==
  FoldLeft(LAMBDA s, line :
             IF line.equals /\ ~line.comment
             THEN SetSetting(s, line.name, line.value) ELSE s,
           NoSettings, lines)

GetString(settings, name, default) ==
  IF IsSet(settings, name) THEN settings[name] ELSE default

\* StringUtils::toInteger
ToInteger(text) == IF text \in DOMAIN IntegerOf THEN IntegerOf[text] ELSE 0

\* An empty text counts as not set, a text that is no number as zero.
GetInt(settings, name, default) ==
  LET text == GetString(settings, name, "")
  IN IF text = "" THEN default ELSE ToInteger(text)

GetChar(settings, name, default) ==
  LET text == GetString(settings, name, "")
  IN IF text = "" THEN default
     ELSE IF text \in DOMAIN Escapes THEN Escapes[text]
     ELSE FirstChar[text]

=============================================================================
