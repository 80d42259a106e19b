---------------------------- MODULE MCBindings -----------------------------
(***************************************************************************)
(* Two threads share the reader.  Two caches are written, the first with   *)
(* the texts that need care, the second with lists, an empty one too, and  *)
(* with a text that is no float list; the clock may stand still between    *)
(* them or not.                                                            *)
(***************************************************************************)
EXTENDS Bindings, TLC

CONSTANTS t1, t2

MCThreads == {t1, t2}

MCStored ==
  [empty |-> [type |-> "String", items |-> <<"empty">>],
   bytes |-> [type |-> "String", items |-> <<"notUtf8">>],
   list |-> [type |-> "StringList", items |-> <<"text", "empty">>],
   badlist |-> [type |-> "StringList", items |-> <<"text", "notUtf8">>],
   floats |-> [type |-> "FloatList", items |-> <<"number", "number">>],
   none |-> [type |-> "StringList", items |-> <<>>]]

MCInputs == <<<<"empty", "bytes">>,
              <<"list", "badlist", "floats", "none", "wrong">>>>

Symmetry == Permutations(MCThreads)

=============================================================================
