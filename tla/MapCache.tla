------------------------------ MODULE MapCache ------------------------------
(***************************************************************************)
(* The MAP cache: MapCacheBase, two unordered maps, one of strings and one *)
(* of string lists.  Values of the other types are not stored.             *)
(***************************************************************************)
EXTENDS CacheDomain, Naturals, FiniteSets

VARIABLES
  strings,      \* mStrings
  stringLists,  \* mStringLists
  mapPut        \* what the last put answered

mapVars == <<strings, stringLists, mapPut>>

MapInit ==
  /\ strings = [k \in {} |-> NoValue]
  /\ stringLists = [k \in {} |-> NoValue]
  /\ mapPut = FALSE

\* emplace leaves a key that is there alone.
Emplace(map, k, v) ==
  IF k \in DOMAIN map THEN map
  ELSE [x \in DOMAIN map \cup {k} |-> IF x = k THEN v ELSE map[x]]

MapPutString(k, v) ==
  /\ ValueType[v] = "String"
  /\ strings' = Emplace(strings, k, v)
  /\ mapPut' = (k \notin DOMAIN strings)
  /\ UNCHANGED stringLists

MapPutStringList(k, v) ==
  /\ ValueType[v] = "StringList"
  /\ stringLists' = Emplace(stringLists, k, v)
  /\ mapPut' = (k \notin DOMAIN stringLists)
  /\ UNCHANGED strings

\* put of a bool, an integer, a double or floats: not supported.
MapPutOther(k, v) ==
  /\ ValueType[v] \notin {"String", "StringList"}
  /\ mapPut' = FALSE
  /\ UNCHANGED <<strings, stringLists>>

MapPut(k, v) ==
  MapPutString(k, v) \/ MapPutStringList(k, v) \/ MapPutOther(k, v)

MapGet(k) == IF k \in DOMAIN strings THEN strings[k] ELSE NoValue

MapGetVector(k) ==
  IF k \in DOMAIN stringLists THEN stringLists[k] ELSE NoValue

MapContains(k) == k \in DOMAIN strings \/ k \in DOMAIN stringLists

\* A key that is in both maps counts twice.
MapNumberOfEntries ==
  Cardinality(DOMAIN strings) + Cardinality(DOMAIN stringLists)

\* output writes one line per entry, the strings first; a list loses its
\* length and its type, and a map cache is never read back.
MapOutput ==
  [k \in DOMAIN strings \cup DOMAIN stringLists |->
     {MapGet(k), MapGetVector(k)} \ {NoValue}]

=============================================================================
