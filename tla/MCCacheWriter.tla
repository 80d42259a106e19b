--------------------------- MODULE MCCacheWriter ---------------------------
(***************************************************************************)
(* Two keys, and two values that are stored as the same bytes although     *)
(* their types differ; the other byte string is only ever in the table.    *)
(* The first index takes one byte, the others two, and the count of the    *)
(* table has room for three.                                               *)
(***************************************************************************)
EXTENDS CacheWriter, TLC

MCValues == {[type |-> "String", bytes |-> "a"],
             [type |-> "Int64", bytes |-> "a"]}

MCCacheTypes == {"LINEAR_PROBE", "LINEAR_PROBE_DEDUP"}

\* Keys are only compared for equality, and no liveness is checked.
MCKeySymmetry == Permutations(Keys)

=============================================================================
