------------------------------ MODULE MCHandoff ------------------------------
(***************************************************************************)
(* Handoff for TLC: who hands off to whom.                                 *)
(***************************************************************************)
EXTENDS Handoff, TLC

\* Nobody hands off in a circle and no two workers share two receivers: a chain,
\* one worker that deals packets to two others, and two that share a receiver.
Trees == {1 :> {2} @@ 2 :> {3} @@ 3 :> {},
          1 :> {2, 3} @@ 2 :> {} @@ 3 :> {},
          1 :> {3} @@ 2 :> {3} @@ 3 :> {}}

\* Two workers poll the interfaces, two others receive.
Fan == {1 :> {3, 4} @@ 2 :> {3, 4} @@ 3 :> {} @@ 4 :> {}}
=============================================================================
