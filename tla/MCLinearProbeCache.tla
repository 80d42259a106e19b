------------------------- MODULE MCLinearProbeCache -------------------------
(***************************************************************************)
(* Five keys for four slots.  k1 and k2 agree in home slot and in the      *)
(* stored hash bits, k3 only in the home slot, which is the last one, so   *)
(* that probes wrap; k4 has a slot the others spill into, and is as long   *)
(* as a key may be; k5 is a byte too long.  "big" fills the 64KB that 16   *)
(* offset bits reach with two records, "none" has no byte at all, "bare"   *)
(* nothing but its terminator, and "huge" is a byte too long.  The         *)
(* accessors differ in what they make of a value of another type, and of   *)
(* an empty one.                                                           *)
(***************************************************************************)
EXTENDS LinearProbeCache

MCHash == [k1 |-> 3, k2 |-> 7, k3 |-> 65539, k4 |-> 1, k5 |-> 2]

MCKeys == DOMAIN MCHash

MCKeySize == [k1 |-> 1, k2 |-> 3, k3 |-> 3, k4 |-> 65535, k5 |-> 65536]

MCValueType == [big |-> "String", none |-> "FloatList", bare |-> "String",
                huge |-> "String"]

MCValueSize == [big |-> 40000, none |-> 0, bare |-> 1, huge |-> 16777216]

MCValues == DOMAIN MCValueType

=============================================================================
