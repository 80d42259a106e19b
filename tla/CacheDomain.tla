---------------------------- MODULE CacheDomain -----------------------------
(***************************************************************************)
(* What the caches of the CacheBase interface are asked to store.          *)
(***************************************************************************)

CONSTANTS
  Keys, Values,
  NoValue,             \* nothing is stored under this key; not in Values
  ValueType            \* [Values -> Types]

Types == {"String", "StringList", "Bool", "Int64", "Double", "FloatList"}

ASSUME DomainAssumption ==
  /\ NoValue \notin Values
  /\ ValueType \in [Values -> Types]

=============================================================================
