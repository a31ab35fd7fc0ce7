------------------------------- MODULE SvmFifo -------------------------------
(***************************************************************************)
(* svm_fifo_t (svm/svm_fifo.c): a ring of bytes in shared memory between   *)
(* one producer and one consumer in different processes, without a lock.   *)
(* The producer owns tail and the list of out-of-order segments, the       *)
(* consumer owns head, and both change cursize with atomic instructions.   *)
(*                                                                         *)
(* Bytes of the stream are known by their position in it, 1, 2, ...        *)
(* Segments are kept as the sequence their linked list stands for.         *)
(* Positions in the ring and offsets from tail are computed modulo nitems  *)
(* as in the code.                                                         *)
(***************************************************************************)
EXTENDS Integers, Sequences, FiniteSetsExt, SequencesExt

CONSTANTS
  NItems,      \* f->nitems
  Word,        \* 2^w for the w bits of a length
  MaxBytes,    \* bound: bytes per call
  MaxStream,   \* bound: length of the stream
  Anyhow       \* TRUE: bytes arrive anyhow; FALSE: as the Orderly operators say

ASSUME NItemsAssumption == NItems \in Nat \ {0}
ASSUME WordAssumption == Word \in Nat /\ Word > NItems
ASSUME BoundsAssumption == MaxBytes \in Nat \ {0} /\ MaxStream \in Nat
ASSUME AnyhowAssumption == Anyhow \in BOOLEAN

Places == 0..(NItems - 1)

\* A position that is at most a few turns ahead, as a place of the ring.
Wrap(i) == i % NItems

VARIABLES
  cursize, head, tail,
  data,        \* the byte in each place, 0 at first
  ooo,         \* out-of-order segments in list order: [fifo_position, length]
  p_pc,        \* producer: "idle", "copy" (has read cursize), "add"
  p_bytes,     \* its total_copy_bytes
  c_pc,        \* consumer: "idle", "copy", "drop", "peek" (has read cursize),
               \* "sub", "peeked"
  c_bytes,     \* its total_copy_bytes
  c_offset,    \* offset argument of svm_fifo_peek
  c_cursize,   \* cursize as svm_fifo_peek has read it
  copied,      \* what the consumer's call has copied out
  sent,        \* bytes made readable, rcv_nxt of a TCP connection
  ahead,       \* bytes in the ring that are not readable yet
  received     \* bytes dequeued or dropped

producer == <<tail, ooo, p_pc, p_bytes, sent, ahead>>
consumer == <<head, c_pc, c_bytes, c_offset, c_cursize, copied, received>>
vars == <<cursize, data, producer, consumer>>

\* svm_fifo_create
Init ==
  /\ cursize = 0 /\ head = 0 /\ tail = 0
  /\ data = [i \in Places |-> 0]
  /\ ooo = <<>>
  /\ p_pc = "idle" /\ p_bytes = 0
  /\ c_pc = "idle" /\ c_bytes = 0 /\ c_offset = 0 /\ c_cursize = 0
  /\ copied = <<>>
  /\ sent = 0 /\ ahead = {} /\ received = 0

-----------------------------------------------------------------------------
(***************************************************************************)
(* Out-of-order segments.  Offsets are counted from tail t.                *)
(***************************************************************************)

ooo_segment_offset(t, s) == Wrap(NItems + s.fifo_position - t)

ooo_segment_end_offset(t, s) == Wrap(NItems + s.fifo_position + s.length - t)

Segment(t, offset, length) ==
  [fifo_position |-> Wrap(t + offset), length |-> length]

(***************************************************************************)
(* ooo_segment_add, "Merge at head": the new segment, from offset to end,  *)
(* begins no later than segment k.  first is segment k after its           *)
(* beginning has been moved; rest are the segments behind k that the new   *)
(* one does not cover.                                                     *)
(***************************************************************************)
MergeAtHead(t, segs, k, offset, end) ==
  LET s       == segs[k]
      s_eof   == ooo_segment_end_offset(t, s)
      joined  == k > 1 /\ ooo_segment_end_offset(t, segs[k - 1]) >= offset
      start   == IF joined THEN ooo_segment_offset(t, segs[k - 1])
                 ELSE IF k > 1 THEN ooo_segment_offset(t, s) ELSE offset
      first   == Segment(t, start, IF joined \/ k = 1 THEN (s_eof - start) % Word
                                   ELSE s.length)
      before  == SubSeq(segs, 1, IF joined THEN k - 2 ELSE k - 1)
      behind  == SubSeq(segs, k + 1, Len(segs))
      covered == CHOOSE n \in 0..Len(behind) :
                   /\ \A i \in 1..n : ooo_segment_end_offset(t, behind[i]) < end
                   /\ n < Len(behind) =>
                        ~(ooo_segment_end_offset(t, behind[n + 1]) < end)
      rest    == SubSeq(behind, covered + 1, Len(behind))
      partial == rest # <<>> /\ ooo_segment_offset(t, Head(rest)) < end
      length  == IF partial
                 THEN end - start + Head(rest).length
                        - (ooo_segment_offset(t, Head(rest)) - end)
                 ELSE end - start
  IN  IF s_eof < end
      THEN before \o <<Segment(t, start, length)>>
             \o (IF partial THEN Tail(rest) ELSE rest)
      ELSE before \o <<first>> \o behind

\* Wrong: segments that touch are not merged.
mut_segment_add(t, segs, offset, length) ==
  LET end   == offset + length
      new   == Segment(t, offset, length)
      later == {i \in DOMAIN segs : ooo_segment_offset(t, segs[i]) > offset}
      k     == Min(later \cup {Len(segs)})
  IN  IF segs = <<>> THEN <<new>>
      ELSE IF end <= ooo_segment_offset(t, segs[k]) THEN InsertAt(segs, k, new)
      ELSE Append(segs, new)

\* The new segment is added to a list that is not empty, at or behind segment k.
AddAt(t, segs, k, offset, length) ==
  LET end   == offset + length
      new   == Segment(t, offset, length)
      s_sof == ooo_segment_offset(t, segs[k])
      s_eof == ooo_segment_end_offset(t, segs[k])
  IN  IF end < s_sof THEN InsertAt(segs, k, new)
      ELSE IF s_eof < offset THEN InsertAt(segs, k + 1, new)
      ELSE IF offset <= s_sof THEN MergeAtHead(t, segs, k, offset, end)
      ELSE IF s_eof <= end THEN [segs EXCEPT ![k].length = end - s_sof]
      ELSE segs

\* Segment k is the first one that begins behind offset, or the last one.
ooo_segment_add(t, segs, offset, length) ==
  LET later == {i \in DOMAIN segs : ooo_segment_offset(t, segs[i]) > offset}
  IN  IF segs = <<>> THEN <<Segment(t, offset, length)>>
      ELSE AddAt(t, segs, Min(later \cup {Len(segs)}), offset, length)


Collected(t, segs, n) == [tail |-> t, ooo |-> segs, bytes |-> n]

(***************************************************************************)
(* ooo_segment_try_collect after the tail has been moved to t by n bytes.  *)
(* The loop removes the segments that are past and ends at segment i.      *)
(***************************************************************************)
ooo_segment_try_collect(t, segs, n) ==
  LET diff(j) == Wrap(NItems + t - segs[j].fifo_position)
      In(j)   == 0 < diff(j) /\ diff(j) < n
      Past(j) == j < Len(segs) /\ In(j) /\ diff(j) >= segs[j].length
      i       == CHOOSE j \in DOMAIN segs : ~Past(j) /\ \A k \in 1..(j - 1) : Past(k)
      s       == segs[i]
      rest    == SubSeq(segs, i, Len(segs))
      bytes   == Min({NItems - cursize, s.length})
  IN  IF segs = <<>> THEN Collected(t, segs, 0)
      ELSE IF In(i) /\ diff(i) < s.length
           THEN Collected(Wrap(t + s.length - diff(i)), rest, 0)
      ELSE IF diff(i) = 0 THEN Collected(Wrap(t + bytes), Tail(rest), bytes)
      ELSE Collected(t, rest, 0)

-----------------------------------------------------------------------------
(***************************************************************************)
(* The producer                                                            *)
(***************************************************************************)

\* The ring with n bytes of the stream from position p on copied to place i.
CopyIn(i, p, n) ==
  [j \in Places |-> LET d == Wrap(NItems + j - i)
                    IN  IF d < n THEN p + d ELSE data[j]]

(***************************************************************************)
(* The arrivals that the list of segments is right for; the callers keep   *)
(* to none of this.  Bytes of the stream are in segments when they are in  *)
(* ahead, so a segment begins where the byte before is missing.            *)
(***************************************************************************)

\* Bytes up to t arrive in order: what they overlap ends with them or before, and
\* there is a segment beyond them.
OrderlyInOrder(t) ==
  ((sent + 1)..t) \cap ahead # {} =>
    /\ ~(t \in ahead /\ t + 1 \in ahead)
    /\ \E x \in ahead : x > t

(***************************************************************************)
(* Bytes p..q arrive early, and s is where the next segment behind p       *)
(* begins.  They touch segments on both sides or on none when there are    *)
(* segments on both; and when they reach beyond the segment at s they do   *)
(* not reach into, or up to, yet another.  The last place of an empty ring *)
(* is not used: the end of a segment there has offset 0.                   *)
(***************************************************************************)
OrderlyEarly(p, q) ==
  LET later == {x \in ahead : x > p /\ x - 1 \notin ahead}
  IN
  /\ q - sent < NItems
  /\ \A s \in later : (\A x \in later : s <= x) =>
       /\ (\E x \in ahead : x <= p) =>
            ((p \in ahead \/ p - 1 \in ahead) <=> s <= q + 1)
       /\ s..q \subseteq ahead \/ (q \notin ahead /\ q + 1 \notin ahead)

\* Wrong: one byte more than there is room for.
MutEnqueueOneMore(max_bytes) ==
  /\ p_pc = "idle"
  /\ cursize # NItems
  /\ p_bytes' = Min({NItems - cursize + 1, max_bytes})
  /\ p_pc' = "copy"
  /\ UNCHANGED <<cursize, data, tail, ooo, sent, ahead, consumer>>

\* svm_fifo_enqueue_internal: "read cursize, which can only decrease while we're
\* working".  A full FIFO is left as it is.
Enqueue(max_bytes) ==
  /\ p_pc = "idle"
  /\ cursize # NItems
  /\ p_bytes' = Min({NItems - cursize, max_bytes})
  /\ Anyhow \/ OrderlyInOrder(sent + p_bytes')
  /\ p_pc' = "copy"
  /\ UNCHANGED <<cursize, data, tail, ooo, sent, ahead, consumer>>

\* Wrong: the segment that has been collected stays in the list.
MutEnqueueKeepsSegment ==
  /\ p_pc = "copy"
  /\ data' = CopyIn(tail, sent + 1, p_bytes)
  /\ LET c == ooo_segment_try_collect(Wrap(tail + p_bytes), ooo, p_bytes)
     IN  tail' = c.tail /\ p_bytes' = p_bytes + c.bytes
  /\ ahead' = ahead \cup ((sent + 1)..(sent + p_bytes))
  /\ p_pc' = "add"
  /\ UNCHANGED <<cursize, ooo, sent, consumer>>

\* Copy in one or two parts, move the tail, collect segments it has reached.
EnqueueCopies ==
  /\ p_pc = "copy"
  /\ data' = CopyIn(tail, sent + 1, p_bytes)
  /\ LET c == ooo_segment_try_collect(Wrap(tail + p_bytes), ooo, p_bytes)
     IN  tail' = c.tail /\ ooo' = c.ooo /\ p_bytes' = p_bytes + c.bytes
  /\ ahead' = ahead \cup ((sent + 1)..(sent + p_bytes))
  /\ p_pc' = "add"
  /\ UNCHANGED <<cursize, sent, consumer>>

\* "Atomically increase the queue length"
EnqueueAdds ==
  /\ p_pc = "add"
  /\ cursize' = cursize + p_bytes
  /\ sent' = sent + p_bytes
  /\ ahead' = {x \in ahead : x > sent'}
  /\ p_pc' = "idle"
  /\ p_bytes' = 0
  /\ UNCHANGED <<data, tail, ooo, consumer>>

\* svm_fifo_enqueue_with_offset_internal2: all of the bytes or none.
EnqueueWithOffset(offset, required_bytes) ==
  LET p == sent + offset + 1
      q == sent + offset + required_bytes
  IN
  /\ p_pc = "idle"
  /\ required_bytes + offset <= NItems - cursize
  /\ Anyhow \/ OrderlyEarly(p, q)
  /\ ooo' = ooo_segment_add(tail, ooo, offset, required_bytes)
  /\ data' = CopyIn(Wrap(tail + offset), p, required_bytes)
  /\ ahead' = ahead \cup (p..q)
  /\ UNCHANGED <<cursize, tail, p_pc, p_bytes, sent, consumer>>

Producer ==
  \/ EnqueueCopies \/ EnqueueAdds
  \/ \E n \in 1..MaxBytes :
       \/ sent + n <= MaxStream /\ Enqueue(n)
       \/ \E o \in 1..NItems :
            sent + o + n <= MaxStream /\ EnqueueWithOffset(o, n)

-----------------------------------------------------------------------------
(***************************************************************************)
(* The consumer                                                            *)
(***************************************************************************)

\* svm_fifo_dequeue_internal2, svm_fifo_dequeue_drop: "read cursize, which can
\* only increase while we're working".  An empty FIFO is left as it is.
Dequeue(to, max_bytes) ==
  /\ c_pc = "idle"
  /\ cursize # 0
  /\ c_bytes' = Min({cursize, max_bytes})
  /\ c_pc' = to
  /\ UNCHANGED <<cursize, data, head, c_offset, c_cursize, copied, received, producer>>

DequeueCopies ==
  /\ c_pc \in {"copy", "drop"}
  /\ head' = Wrap(head + c_bytes)
  /\ copied' = IF c_pc = "copy"
               THEN [i \in 1..c_bytes |-> data[Wrap(head + i - 1)]] ELSE <<>>
  /\ c_pc' = "sub"
  /\ UNCHANGED <<cursize, data, c_bytes, c_offset, c_cursize, received, producer>>

DequeueSubtracts ==
  /\ c_pc = "sub"
  /\ cursize' = cursize - c_bytes
  /\ received' = received + c_bytes
  /\ copied' = <<>>
  /\ c_bytes' = 0
  /\ c_pc' = "idle"
  /\ UNCHANGED <<data, head, c_offset, c_cursize, producer>>

\* svm_fifo_peek
Peek(offset, max_bytes) ==
  /\ c_pc = "idle"
  /\ cursize # 0
  /\ c_cursize' = cursize
  /\ c_bytes' = Min({cursize, max_bytes})
  /\ c_offset' = offset
  /\ c_pc' = "peek"
  /\ UNCHANGED <<cursize, data, head, copied, received, producer>>

\* What is found in place i; 0, no byte of the stream, when that is beyond the ring.
At(i) == IF i \in Places THEN data[i] ELSE 0

PeekCopies ==
  LET first == Min({NItems - head + c_offset, c_bytes}) IN
  /\ c_pc = "peek"
  /\ copied' = [i \in 1..c_bytes |-> IF i <= first THEN At(head + c_offset + i - 1)
                                     ELSE At(i - first - 1)]
  /\ c_pc' = "peeked"
  /\ UNCHANGED <<cursize, data, head, c_bytes, c_offset, c_cursize, received, producer>>

PeekReturns ==
  /\ c_pc = "peeked"
  /\ copied' = <<>>
  /\ c_bytes' = 0
  /\ c_offset' = 0
  /\ c_cursize' = 0
  /\ c_pc' = "idle"
  /\ UNCHANGED <<cursize, data, head, received, producer>>

Consumer ==
  \/ DequeueCopies \/ DequeueSubtracts \/ PeekCopies \/ PeekReturns
  \/ \E n \in 1..MaxBytes :
       \/ Dequeue("copy", n) \/ Dequeue("drop", n)
       \/ \E o \in 0..(NItems - 1) : Peek(o, n)

Next == Producer \/ Consumer

Spec == Init /\ [][Next]_vars

-----------------------------------------------------------------------------
\* n bytes from place i on.
Ring(i, n) == [j \in 1..n |-> data[Wrap(i + j - 1)]]

\* Head and cursize are given up by the consumer one after the other.
arrived  == (1..sent) \cup ahead
readable == Ring(head, IF c_pc = "sub" THEN cursize - c_bytes ELSE cursize)

Stream == INSTANCE ByteStream WITH
  Capacity  <- NItems,
  Positions <- 1..MaxStream,
  delivered <- sent,
  buf       <- readable

\* Whatever the interleaving of the two processes, which share nothing but
\* cursize, the consumer finds the bytes of the stream, in order and each once,
\* and all of those that have arrived without a gap.
ImplementsStream == Stream!Spec

\* "Takes care of merging adjacent segments and removing overlapping ones": the
\* list is in order, no two segments touch or overlap, and together they are the
\* bytes that have arrived beyond the tail.  It holds for the arrivals that the
\* Orderly operators allow, which may overlap segments, fill gaps and fall between
\* segments; the callers pass on others too, and for those it fails.
SegmentsExact ==
  LET From(i) == sent + ooo_segment_offset(tail, ooo[i]) + 1
      To(i)   == sent + ooo_segment_offset(tail, ooo[i]) + ooo[i].length
  IN
  p_pc # "add" =>
    /\ ahead = UNION {From(i)..To(i) : i \in DOMAIN ooo}
    /\ \A i \in 1..(Len(ooo) - 1) : To(i) + 1 < From(i + 1)

\* The stream, from where the call was asked to begin.
Exact == \A i \in DOMAIN copied : copied[i] = received + c_offset + i

\* What a dequeue and a peek without an offset copy out is the stream: the producer
\* does not touch the places before they are given up.  A peek with an offset, for no
\* more than there is behind it, copies the stream if it ends before the end of the
\* ring, and only then: svm_fifo_peek adds the offset to the bytes it takes there to
\* be before the end, and reads beyond the ring.
CopiesExact ==
  /\ c_pc = "sub" \/ (c_pc = "peeked" /\ c_offset = 0) => Exact
  /\ c_pc = "peeked" /\ c_offset > 0 /\ c_offset + c_bytes <= c_cursize =>
       (Exact <=> head + c_offset + c_bytes <= NItems)

(***************************************************************************)
(* The inductive strengthening, for bytes that arrive in an orderly way.   *)
(* Byte x of the stream has its place Wrap(x - 1), from the moment it      *)
(* arrives until the consumer has given up the place; the list of segments *)
(* describes what has arrived beyond the tail.                             *)
(***************************************************************************)

\* The bytes of the stream that tail and head have moved past.
TailAt == IF p_pc = "add" THEN sent + p_bytes ELSE sent
HeadAt == IF c_pc = "sub" THEN received + c_bytes ELSE received

Segments == [fifo_position : Places, length : Nat \ {0}]

TypeOK ==
  /\ cursize \in 0..NItems /\ head \in Places /\ tail \in Places
  /\ data \in [Places -> Nat]
  /\ ooo \in Seq(Segments)
  /\ p_pc \in {"idle", "copy", "add"} /\ p_bytes \in Nat
  /\ c_pc \in {"idle", "copy", "drop", "peek", "sub", "peeked"}
  /\ c_bytes \in Nat /\ c_offset \in Nat /\ c_cursize \in Nat
  /\ copied \in Seq(Nat)
  /\ sent \in Nat /\ received \in Nat /\ ahead \in SUBSET Nat

Indices ==
  /\ cursize = sent - received
  /\ tail = Wrap(TailAt) /\ head = Wrap(HeadAt)

\* What is there is within the ring, and the producer adds what is there.
Window ==
  /\ \A x \in ahead : /\ sent < x /\ x <= received + NItems /\ x <= MaxStream
                      /\ x > TailAt => x < sent + NItems
  /\ p_pc = "copy" => /\ p_bytes > 0 /\ sent + p_bytes <= received + NItems
                      /\ sent + p_bytes <= MaxStream
                      /\ OrderlyInOrder(sent + p_bytes)
  /\ p_pc = "add" => /\ p_bytes > 0
                     /\ (sent + 1)..(sent + p_bytes) \subseteq ahead
                     /\ sent + p_bytes + 1 \notin ahead

DataExact ==
  \A x \in ((received + 1)..sent) \cup ahead : data[Wrap(x - 1)] = x

\* The bytes that segment s stands for when the tail has moved past b bytes.
From(b, s) == b + ooo_segment_offset(Wrap(b), s) + 1
To(b, s)   == b + ooo_segment_offset(Wrap(b), s) + s.length

\* The segments, in order and apart, are the bytes of A beyond b; the one after b
\* is missing.
Describes(b, segs, A) ==
  /\ {x \in A : x > b} = UNION {From(b, segs[i])..To(b, segs[i]) : i \in DOMAIN segs}
  /\ \A i \in DOMAIN segs : From(b, segs[i]) > b + 1
  /\ \A i, j \in DOMAIN segs : i < j => To(b, segs[i]) + 1 < From(b, segs[j])

\* What the consumer has read of cursize is still there.
Reads ==
  /\ c_pc # "idle" => 0 < c_bytes /\ c_bytes <= cursize
  /\ c_cursize <= cursize
  /\ c_pc \notin {"peek", "peeked"} => c_offset = 0 /\ c_cursize = 0

\* What every reachable state satisfies and every step preserves.
IInv ==
  /\ TypeOK /\ Indices /\ Window /\ DataExact
  /\ Describes(TailAt, ooo, ahead)
  /\ Reads /\ CopiesExact

\* "Returns the number of bytes added to tail": when neither end is in a call the
\* tail is cursize places behind the head.
TailMatchesSize ==
  p_pc = "idle" /\ c_pc = "idle" => tail = Wrap(head + cursize)

=============================================================================
