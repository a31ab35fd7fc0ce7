----------------------------- MODULE ByteStream -----------------------------
(***************************************************************************)
(* What a FIFO of a session promises its two ends: the bytes of a stream   *)
(* arrive in any order within a window, and the reader gets them in the    *)
(* order of the stream, each once, and none that has not arrived.  A byte  *)
(* is its position in the stream.                                          *)
(***************************************************************************)
EXTENDS Integers, Sequences

CONSTANTS
  Capacity,   \* bytes the reader may find at a time
  Positions   \* 1..n, the positions of the stream

VARIABLES
  arrived,    \* positions handed in by the writer
  delivered,  \* how far the stream has been made readable
  buf         \* bytes that can be read, oldest first

Init == arrived = {} /\ delivered = 0 /\ buf = <<>>

Arrive ==
  /\ \E a, b \in Positions : arrived' = arrived \cup (a..b)
  /\ UNCHANGED <<delivered, buf>>

\* All that has arrived without a gap becomes readable.
Deliver ==
  \E n \in Positions :
    /\ (delivered + 1)..(delivered + n) \subseteq arrived
    /\ delivered + n + 1 \notin arrived
    /\ delivered' = delivered + n
    /\ Len(buf) + n <= Capacity
    /\ buf' = buf \o [i \in 1..n |-> delivered + i]
    /\ UNCHANGED arrived

Read ==
  /\ \E n \in 1..Len(buf) : buf' = SubSeq(buf, n + 1, Len(buf))
  /\ UNCHANGED <<arrived, delivered>>

Next == Arrive \/ Deliver \/ Read

Spec == Init /\ [][Next]_<<arrived, delivered, buf>>
=============================================================================
