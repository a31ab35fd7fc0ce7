---------------------------- MODULE MCApiClients ----------------------------
\* Two client processes that may connect once each, or one of them twice.
EXTENDS ApiClients, TLC

CONSTANTS c1, c2

TwoAndOne == c1 :> 2 @@ c2 :> 1

TwoInAll == {c1 :> 0 @@ c2 :> 1, c1 :> 1 @@ c2 :> 0}
=============================================================================
