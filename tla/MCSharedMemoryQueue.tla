------------------------- MODULE MCSharedMemoryQueue -------------------------
(***************************************************************************)
(* SharedMemoryQueue for TLC: a queue that several processes read with     *)
(* _sub, and the event queue of the session layer, drained by one worker,  *)
(* of the least size whose eighth is not zero.                             *)
(***************************************************************************)
EXTENDS SharedMemoryQueue

CONSTANTS p1, p2, c1, c2, d1

ApiAndSession ==
  {[maxsize |-> 2, users |-> {p1, p2, c1, c2}, nowait |-> BOOLEAN,
    spurious |-> {p1, p2, c1, c2}],
   [maxsize |-> 8, users |-> {p1, p2, d1}, nowait |-> {FALSE}, spurious |-> {}]}
=============================================================================
