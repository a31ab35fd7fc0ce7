----------------------------- MODULE BoundedFifo -----------------------------
(***************************************************************************)
(* What a queue of vlibmemory promises its users: a first-in first-out     *)
(* queue of at most capacity elements.                                     *)
(***************************************************************************)
EXTENDS Naturals, Sequences

CONSTANT Values

VARIABLES items, capacity

Init == items = <<>>

Put(v) ==
  /\ Len(items) < capacity
  /\ items' = Append(items, v)

Get ==
  /\ items # <<>>
  /\ items' = Tail(items)

Next == (Get \/ \E v \in Values : Put(v)) /\ UNCHANGED capacity

Spec == Init /\ [][Next]_<<items, capacity>>
=============================================================================
