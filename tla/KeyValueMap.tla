----------------------------- MODULE KeyValueMap -----------------------------
(***************************************************************************)
(* What a hash table promises: a map from keys to values.  Updates are     *)
(* asked for one after the other, and each takes effect once, in one step. *)
(***************************************************************************)
CONSTANTS Keys, Values, NoKey, NoValue

VARIABLES
  map,   \* NoValue for a key that is not in the table
  op     \* the update that has been asked for and has not taken effect

Nothing == [key |-> NoKey, value |-> NoValue]

Init == map = [k \in Keys |-> NoValue] /\ op = Nothing

\* Ask for k to be given value v, or with NoValue to be removed.
Ask(k, v) == op = Nothing /\ op' = [key |-> k, value |-> v] /\ UNCHANGED map

TakeEffect ==
  op # Nothing /\ map' = [map EXCEPT ![op.key] = op.value] /\ op' = Nothing

Next == TakeEffect \/ \E k \in Keys, v \in Values \cup {NoValue} : Ask(k, v)

Spec == Init /\ [][Next]_<<map, op>>
=============================================================================
