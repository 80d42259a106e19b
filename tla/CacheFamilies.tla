--------------------------- MODULE CacheFamilies ----------------------------
(***************************************************************************)
(* One client that fills a BUCKET_CHAIN cache and a MAP cache with the same*)
(* values.  The two have one interface, CacheBase, and should answer alike *)
(* as far as the MAP cache can store the values.                           *)
(*                                                                         *)
(* A put that makes the chained cache throw is not made on the map, which  *)
(* has no limits: the client has stopped at the exception.                 *)
(***************************************************************************)
EXTENDS BucketChainCache, MapCache

vars == <<chainVars, result, mapVars>>

Init == ChainInit /\ MapInit

Put(k, v) ==
  \/ PutKeySpaceFull(k, v) /\ UNCHANGED mapVars
  \/ PutTooLarge(k, v) /\ UNCHANGED mapVars
  \/ PutInserted(k, v) /\ MapPut(k, v)

Next ==
  \/ \E k \in Keys, v \in Values : Put(k, v)
  \/ \E k \in Keys, a \in Accessors : Read(a, k) /\ UNCHANGED mapVars
  \/ Reload /\ UNCHANGED mapVars

Spec == Init /\ [][Next]_vars

-----------------------------------------------------------------------------
(* Properties *)

\* Every variable has its type.
TypeOK ==
  /\ ChainTypeOK
  /\ DOMAIN strings \subseteq Keys /\ DOMAIN stringLists \subseteq Keys
  /\ mapPut \in BOOLEAN

\* The first put of a key wins in both caches: what the chained cache finds
\* for a key is what the map stores for it under that type, however many
\* puts of the key, of its neighbours on the chain, or of another type came
\* later; the map's output has it too; every key of the map is found in the
\* chained cache, and the map counts no more entries than it does.
FamiliesAgree ==
  /\ MapNumberOfEntries <= numberOfEntries
  /\ \A k \in Keys :
       LET v == FoundValue(k)
       IN /\ v # NoValue /\ ValueType[v] = "String" => MapGet(k) = v
          /\ v # NoValue /\ ValueType[v] = "StringList" => MapGetVector(k) = v
          /\ MapContains(k) => v # NoValue
          /\ v # NoValue /\ ValueType[v] \in {"String", "StringList"} =>
               v \in MapOutput[k]

=============================================================================
