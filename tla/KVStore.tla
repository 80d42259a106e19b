------------------------------ MODULE KVStore ------------------------------
(***************************************************************************)
(* What a hashed cache promises its clients, without slots, offsets or     *)
(* memory: a bounded dictionary in which the first put of a key wins.      *)
(*                                                                         *)
(*   - a put of a new key is recorded while fewer than MaxNumberOfEntries  *)
(*     distinct keys are stored, and the store is not sealed;              *)
(*   - a put of a stored key is refused and leaves the dictionary alone;   *)
(*   - a put may fail without any effect on the dictionary;                *)
(*   - a read of a stored key returns the first value put under it, a read *)
(*     of any other key returns nothing.                                   *)
(*                                                                         *)
(* A store read back from a file is sealed: it can only be read.           *)
(***************************************************************************)
EXTENDS Naturals, FiniteSets

CONSTANTS
  Keys,                \* the keys a client may use
  Values,              \* the values a client may store
  NoValue,             \* nothing is stored under this key; not in Values
  MaxNumberOfEntries   \* how many distinct keys the store accepts

VARIABLES
  dict,     \* the value of every key, or NoValue
  sealed,   \* TRUE once the store has been read back from a file
  answer    \* the answer to the last call

vars == <<dict, sealed, answer>>

Verdicts == {"none", "inserted", "exists", "error", "read", "nothing",
             "unspecified"}

Answer(verdict, k, v) == [verdict |-> verdict, key |-> k, value |-> v]

StoredKeys == {k \in Keys : dict[k] # NoValue}

Full == sealed \/ Cardinality(StoredKeys) >= MaxNumberOfEntries

-----------------------------------------------------------------------------

Init ==
  /\ dict = [k \in Keys |-> NoValue]
  /\ sealed = FALSE
  /\ answer = [verdict |-> "none"]

Insert(k, v) ==
  /\ answer' = Answer("inserted", k, v)
  /\ ~Full
  /\ dict[k] = NoValue
  /\ dict' = [dict EXCEPT ![k] = v]
  /\ UNCHANGED sealed

RefuseExisting(k, v) ==
  /\ answer' = Answer("exists", k, v)
  /\ ~Full
  /\ dict[k] # NoValue
  /\ UNCHANGED <<dict, sealed>>

\* A full store refuses every put, and any other put of a new key may fail.
Fail(k, v) ==
  /\ answer' = Answer("error", k, v)
  /\ Full \/ dict[k] = NoValue
  /\ UNCHANGED <<dict, sealed>>

Read(k) ==
  /\ answer' = Answer("read", k, dict[k])
  /\ dict[k] # NoValue
  /\ UNCHANGED <<dict, sealed>>

ReadNothing(k) ==
  /\ answer' = Answer("nothing", k, NoValue)
  /\ dict[k] = NoValue
  /\ UNCHANGED <<dict, sealed>>

\* A read that asks for another type than the stored one, or that finds a
\* value without content, has no promised answer, but it changes nothing.
ReadUnsuitable(k) ==
  /\ answer' = Answer("unspecified", k, NoValue)
  /\ dict[k] # NoValue
  /\ UNCHANGED <<dict, sealed>>

Seal ==
  /\ answer' = [verdict |-> "none"]
  /\ sealed' = TRUE
  /\ UNCHANGED dict

Next ==
  \/ \E k \in Keys, v \in Values :
       Insert(k, v) \/ RefuseExisting(k, v) \/ Fail(k, v)
  \/ \E k \in Keys : Read(k) \/ ReadNothing(k) \/ ReadUnsuitable(k)
  \/ Seal

Spec == Init /\ [][Next]_vars

=============================================================================
