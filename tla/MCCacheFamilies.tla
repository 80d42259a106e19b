-------------------------- MODULE MCCacheFamilies ---------------------------
(***************************************************************************)
(* Three slots are asked for and four are made.  k1 and k2 share the last  *)
(* slot, the one the rounding adds; k3 is longer than a key may be, and k4 *)
(* is the empty key, in the first slot.  Of the values one has only its    *)
(* terminator, and one is too large.  Three entries fit, so that a chain   *)
(* can hold a key twice with another key between.                          *)
(***************************************************************************)
EXTENDS CacheFamilies

MCHash == [k1 |-> 3, k2 |-> 7, k3 |-> 1, k4 |-> 0]

MCKeys == DOMAIN MCHash

MCKeySize == [k1 |-> 1, k2 |-> 1, k3 |-> 65536, k4 |-> 0]

MCValueType == [str |-> "String", nul |-> "String", list |-> "StringList",
                num |-> "Int64", huge |-> "String"]

MCValueSize == [str |-> 3, nul |-> 1, list |-> 9, num |-> 8,
                huge |-> 16777216]

MCValues == DOMAIN MCValueType

=============================================================================
