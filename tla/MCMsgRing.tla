------------------------------ MODULE MCMsgRing ------------------------------
(***************************************************************************)
(* MsgRing for TLC: the rings.                                             *)
(***************************************************************************)
EXTENDS MsgRing

\* A ring of two items, and two rings of one.
SmallLayouts ==
  {<<[data |-> 0, nitems |-> 2]>>,
   <<[data |-> 0, nitems |-> 1], [data |-> 1, nitems |-> 1]>>}

OneRing == {<<[data |-> 0, nitems |-> 2]>>}
=============================================================================
