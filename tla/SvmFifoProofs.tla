---------------------------- MODULE SvmFifoProofs ----------------------------
(***************************************************************************)
(* For every size of the ring and every bound: when bytes arrive as the    *)
(* Orderly operators of SvmFifo say, the list of segments is exact, the    *)
(* consumer copies the bytes of the stream, and the FIFO implements        *)
(* ByteStream.  The callers of the code do not keep to these operators;    *)
(* every theorem names the condition as ~Anyhow.                           *)
(*                                                                         *)
(* All arithmetic on the ring is done in the first section.  After it a    *)
(* byte is its position in the stream and Wrap is not opened again.        *)
(***************************************************************************)
EXTENDS SvmFifo, SequenceTheorems, WellFoundedInduction, TLAPS

-----------------------------------------------------------------------------
(***************************************************************************)
(* The ring                                                                *)
(***************************************************************************)

\* Division with remainder, for the size of the ring.
LEMMA Division ==
  ASSUME NEW a \in Nat
  PROVE  /\ a = NItems * (a \div NItems) + Wrap(a)
         /\ Wrap(a) \in Places
         /\ a \div NItems \in Nat
  BY NItemsAssumption DEF Wrap, Places

\* The remainder is the only one.
LEMMA Remainder ==
  ASSUME NEW k \in Nat, NEW r \in Places
  PROVE  Wrap(NItems * k + r) = r
<1> DEFINE a == NItems * k + r
           m == a \div NItems
           w == Wrap(a)
<1>1. a \in Nat
  BY NItemsAssumption DEF Places
<1>2. a = NItems * m + w /\ w \in Places /\ m \in Nat
  BY <1>1, Division
<1>3. NItems * m + w = NItems * k + r
  BY <1>2
<1> HIDE DEF a, m, w
<1>4. NItems * (m - k) = r - w
  BY <1>2, <1>3, NItemsAssumption DEF Places
<1>5. w = r
  <2>1. CASE m - k >= 1
    BY <2>1, <1>4, <1>2, NItemsAssumption DEF Places
  <2>2. CASE m - k <= -1
    BY <2>2, <1>4, <1>2, NItemsAssumption DEF Places
  <2>3. CASE m = k
    BY <2>3, <1>4, <1>2, NItemsAssumption DEF Places
  <2>. QED
    BY <2>1, <2>2, <2>3, <1>2
<1>. QED
  BY <1>5 DEF a, w

\* A place is its own remainder.
LEMMA WrapPlace ==
  ASSUME NEW r \in Places
  PROVE  /\ Wrap(r) = r
         /\ Wrap(r + NItems) = r
         /\ Wrap(r + NItems + NItems) = r
<1>1. Wrap(NItems * 0 + r) = r /\ Wrap(NItems * 1 + r) = r /\ Wrap(NItems * 2 + r) = r
  BY Remainder
<1>2. NItems * 0 + r = r /\ NItems * 1 + r = r + NItems /\ NItems * 2 + r = r + NItems + NItems
  BY NItemsAssumption DEF Places
<1>. QED
  BY <1>1, <1>2

\* Moving on from a place is moving on from any position that has this place.
LEMMA WrapAdd ==
  ASSUME NEW a \in Nat, NEW n \in Nat
  PROVE  Wrap(Wrap(a) + n) = Wrap(a + n)
<1> DEFINE k == a \div NItems
           r == Wrap(a)
           m == (r + n) \div NItems
           w == Wrap(r + n)
<1>1. a = NItems * k + r /\ r \in Places /\ k \in Nat
  BY Division
<1>2. r + n \in Nat
  BY <1>1 DEF Places
<1>3. r + n = NItems * m + w /\ w \in Places /\ m \in Nat
  BY <1>2, Division
<1> HIDE DEF k, r, m, w
<1>4. a + n = NItems * k + NItems * m + w
  BY <1>1, <1>3, NItemsAssumption DEF Places
<1>5. a + n = NItems * (k + m) + w
  BY <1>1, <1>3, <1>4, NItemsAssumption DEF Places
<1>6. Wrap(a + n) = w
  BY <1>5, <1>1, <1>3, Remainder
<1>. QED
  BY <1>6 DEF r, w

\* Two positions less than a turn apart have different places.
LEMMA WrapApart ==
  ASSUME NEW a \in Nat, NEW d \in Nat, d < NItems, Wrap(a) = Wrap(a + d)
  PROVE  d = 0
<1> DEFINE r == Wrap(a)
<1>1. r \in Places
  BY Division
<1>2. Wrap(r + d) = r
  BY WrapAdd
<1> HIDE DEF r
<1>3. CASE r + d \in Places
  BY <1>3, <1>2, <1>1, WrapPlace DEF Places
<1>4. CASE r + d \notin Places
  <2>1. r + d - NItems \in Places
    BY <1>4, <1>1, NItemsAssumption DEF Places
  <2>2. Wrap(r + d - NItems + NItems) = r + d - NItems
    BY <2>1, WrapPlace
  <2>3. r + d - NItems + NItems = r + d
    BY <1>1, NItemsAssumption DEF Places
  <2>. QED
    BY <2>2, <2>3, <1>1, <1>2, NItemsAssumption DEF Places
<1>. QED
  BY <1>3, <1>4

\* The distance from the place of position a to place j is d when d more
\* positions lead there.
LEMMA Distance ==
  ASSUME NEW a \in Nat, NEW d \in Places
  PROVE  Wrap(NItems + Wrap(a + d) - Wrap(a)) = d
<1> DEFINE r == Wrap(a)
<1>0. d \in Nat
  BY NItemsAssumption DEF Places
<1>1. r \in Places /\ Wrap(a + d) = Wrap(r + d)
  BY <1>0, Division, WrapAdd
<1> HIDE DEF r
<1>2. CASE r + d \in Places
  <2>1. NItems + Wrap(r + d) - r = d + NItems
    BY <1>1, <1>2, WrapPlace, NItemsAssumption DEF Places
  <2>. QED
    BY <2>1, <1>1, WrapPlace DEF r
<1>3. CASE r + d \notin Places
  <2>1. r + d - NItems \in Places
    BY <1>3, <1>1, NItemsAssumption DEF Places
  <2>2. Wrap(r + d - NItems + NItems) = r + d - NItems
    BY <2>1, WrapPlace
  <2>3. r + d - NItems + NItems = r + d
    BY <1>1, NItemsAssumption DEF Places
  <2>4. NItems + Wrap(r + d) - r = d
    BY <2>2, <2>3, <1>1, NItemsAssumption DEF Places
  <2>. QED
    BY <2>4, <1>1, WrapPlace DEF r
<1>. QED
  BY <1>2, <1>3

\* Every place is less than a turn away, and the distance leads there.
LEMMA Reached ==
  ASSUME NEW a \in Nat, NEW j \in Places
  PROVE  /\ Wrap(NItems + j - Wrap(a)) \in Places
         /\ Wrap(a + Wrap(NItems + j - Wrap(a))) = j
<1> DEFINE r == Wrap(a)
           d == Wrap(NItems + j - r)
<1>1. r \in Places
  BY Division
<1>2. d \in Places /\ Wrap(r + d) = j
  <2> HIDE DEF r
  <2>1. CASE j < r
    <3>1. NItems + j - r \in Places
      BY <2>1, <1>1, NItemsAssumption DEF Places
    <3>2. d = NItems + j - r
      BY <3>1, WrapPlace
    <3>3. r + d = j + NItems
      BY <3>2, <1>1, NItemsAssumption DEF Places
    <3>. QED
      BY <3>1, <3>2, <3>3, WrapPlace
  <2>2. CASE j >= r
    <3>1. j - r \in Places
      BY <2>2, <1>1, NItemsAssumption DEF Places
    <3>2. NItems + j - r = j - r + NItems
      BY <1>1, NItemsAssumption DEF Places
    <3>3. d = j - r
      BY <3>1, <3>2, WrapPlace
    <3>4. r + d = j
      BY <3>3, <1>1, NItemsAssumption DEF Places
    <3>. QED
      BY <3>1, <3>3, <3>4, WrapPlace
  <2>. QED
    BY <2>1, <2>2, <1>1 DEF Places
<1>. QED
  BY <1>2, WrapAdd DEF Places

-----------------------------------------------------------------------------
(***************************************************************************)
(* Segments as bytes of the stream                                         *)
(***************************************************************************)

\* A segment is less than a turn ahead of the tail, and its position is the place
\* of its first byte.
LEMMA Offset ==
  ASSUME NEW b \in Nat, NEW s \in Segments
  PROVE  /\ ooo_segment_offset(Wrap(b), s) \in Places
         /\ s.fifo_position = Wrap(b + ooo_segment_offset(Wrap(b), s))
         /\ From(b, s) \in Nat /\ To(b, s) \in Nat
         /\ From(b, s) > b /\ From(b, s) <= b + NItems
         /\ From(b, s) = b + ooo_segment_offset(Wrap(b), s) + 1
         /\ To(b, s) = From(b, s) + s.length - 1 /\ s.length \in Nat \ {0}
<1>1. s.fifo_position \in Places /\ s.length \in Nat \ {0}
  BY DEF Segments
<1>2. /\ ooo_segment_offset(Wrap(b), s) \in Places
      /\ s.fifo_position = Wrap(b + ooo_segment_offset(Wrap(b), s))
  BY <1>1, Reached DEF ooo_segment_offset
<1>. QED
  BY <1>1, <1>2, NItemsAssumption DEF From, To, Places

\* A segment has a first byte and a last one.
LEMMA Bytes ==
  ASSUME NEW b \in Nat, NEW s \in Segments
  PROVE  From(b, s) \in Nat /\ To(b, s) \in Nat /\ From(b, s) <= To(b, s)
<1> DEFINE f == From(b, s)
           t == To(b, s)
           n == s.length
<1>1. f \in Nat /\ t \in Nat /\ t = f + n - 1 /\ n \in Nat \ {0}
  BY Offset
<1> HIDE DEF f, t, n
<1>2. f <= t
  BY <1>1
<1>. QED
  BY <1>1, <1>2 DEF f, t

\* A segment whose position is the place of byte x + 1 begins there.
LEMMA BeginsAt ==
  ASSUME NEW b \in Nat, NEW d \in Places, NEW s \in Segments,
         s.fifo_position = Wrap(b + d)
  PROVE  /\ ooo_segment_offset(Wrap(b), s) = d
         /\ From(b, s) = b + d + 1 /\ To(b, s) = b + d + s.length
  BY Distance DEF ooo_segment_offset, From, To

\* What Segment makes.
LEMMA SegmentAt ==
  ASSUME NEW b \in Nat, NEW d \in Places, NEW n \in Nat \ {0}
  PROVE  /\ Segment(Wrap(b), d, n) \in Segments
         /\ Segment(Wrap(b), d, n).length = n
         /\ From(b, Segment(Wrap(b), d, n)) = b + d + 1
         /\ To(b, Segment(Wrap(b), d, n)) = b + d + n
<1> DEFINE s == Segment(Wrap(b), d, n)
<1>1. d \in Nat
  BY DEF Places
<1>2. s.fifo_position = Wrap(b + d) /\ s.length = n
  BY <1>1, WrapAdd DEF Segment
<1>3. s \in Segments
  BY <1>1, <1>2, Division DEF Segment, Segments
<1>. QED
  BY <1>2, <1>3, BeginsAt

\* The end offset of a segment that ends before the tail comes round.
LEMMA EndOffset ==
  ASSUME NEW b \in Nat, NEW s \in Segments, To(b, s) < b + NItems
  PROVE  ooo_segment_end_offset(Wrap(b), s) = To(b, s) - b
<1> DEFINE o == ooo_segment_offset(Wrap(b), s)
           e == o + s.length
           r == Wrap(b)
<1>1. /\ o \in Places /\ s.length \in Nat \ {0} /\ s.fifo_position = Wrap(b + o)
      /\ r \in Places /\ s.fifo_position \in Places
  BY Offset, Division DEF Segments
<1>2. e \in Places /\ e = To(b, s) - b
  BY <1>1, NItemsAssumption DEF To, Places
<1>3. s.fifo_position = Wrap(r + o)
  BY <1>1, WrapAdd DEF Places
<1>4. s.fifo_position = r + o \/ s.fifo_position = r + o - NItems
  <2>1. CASE r + o \in Places
    BY <2>1, <1>3, WrapPlace
  <2>2. CASE r + o \notin Places
    <3>1. r + o - NItems \in Places
      BY <2>2, <1>1, NItemsAssumption DEF Places
    <3>2. Wrap(r + o - NItems + NItems) = r + o - NItems
      BY <3>1, WrapPlace
    <3>3. r + o - NItems + NItems = r + o
      BY <1>1, NItemsAssumption DEF Places
    <3>. QED
      BY <3>2, <3>3, <1>3
  <2>. QED
    BY <2>1, <2>2
<1> HIDE DEF o, r
<1>5. \/ NItems + s.fifo_position + s.length - r = e + NItems
      \/ NItems + s.fifo_position + s.length - r = e
  BY <1>1, <1>4, NItemsAssumption DEF Places
<1>6. Wrap(NItems + s.fifo_position + s.length - r) = e
  BY <1>5, <1>2, WrapPlace
<1>. QED
  BY <1>6, <1>2 DEF ooo_segment_end_offset, r

\* A segment stands for the same bytes when the tail moves up to it.
LEMMA Moved ==
  ASSUME NEW b \in Nat, NEW n \in Nat, NEW s \in Segments, b + n < From(b, s)
  PROVE  From(b + n, s) = From(b, s) /\ To(b + n, s) = To(b, s)
<1> DEFINE o == ooo_segment_offset(Wrap(b), s)
<1>1. /\ o \in Places /\ s.fifo_position = Wrap(b + o) /\ From(b, s) = b + o + 1
      /\ s.length \in Nat \ {0} /\ To(b, s) = From(b, s) + s.length - 1
  BY Offset
<1> HIDE DEF o
<1>2. o - n \in Places /\ b + n + (o - n) = b + o
  BY <1>1, NItemsAssumption DEF Places
<1>3. From(b + n, s) = b + n + (o - n) + 1 /\ To(b + n, s) = b + n + (o - n) + s.length
  BY <1>1, <1>2, BeginsAt
<1>. QED
  BY <1>1, <1>2, <1>3 DEF Places

-----------------------------------------------------------------------------
(***************************************************************************)
(* The list of segments                                                    *)
(***************************************************************************)

\* segs with s in place of the segments behind i and before j.
Splice(segs, i, j, s) == SubSeq(segs, 1, i) \o <<s>> \o SubSeq(segs, j, Len(segs))

\* res is such a list.
Spliced(segs, i, j, res) ==
  /\ Len(res) = Len(segs) + i + 2 - j
  /\ \A m \in 1..i : res[m] = segs[m]
  /\ \A m \in (i + 2)..Len(res) : res[m] = segs[m + j - i - 2]

\* Segment s stands for bytes p..q and for the segments behind i and before j.
StandsFor(b, segs, i, j, s, p, q) ==
  /\ From(b, s) > b + 1
  /\ \A x \in Nat : x \in From(b, s)..To(b, s) <=>
       \/ x \in p..q
       \/ \E m \in (i + 1)..(j - 1) : x \in From(b, segs[m])..To(b, segs[m])
  /\ \A m \in 1..i : To(b, segs[m]) + 1 < From(b, s)
  /\ \A m \in j..Len(segs) : To(b, s) + 1 < From(b, segs[m])

\* The elements of a list that was spliced.
LEMMA SpliceElements ==
  ASSUME NEW segs \in Seq(Segments), NEW s \in Segments,
         NEW i \in 0..Len(segs), NEW j \in (i + 1)..(Len(segs) + 1)
  PROVE  /\ Splice(segs, i, j, s) \in Seq(Segments)
         /\ Splice(segs, i, j, s)[i + 1] = s
         /\ Spliced(segs, i, j, Splice(segs, i, j, s))
<1> DEFINE u == SubSeq(segs, 1, i)
           v == SubSeq(segs, j, Len(segs))
           w == u \o <<s>>
<1>1. Len(segs) \in Nat /\ i \in Nat /\ j \in Nat /\ i < j /\ j <= Len(segs) + 1 /\ i <= Len(segs)
  OBVIOUS
<1>2. \A m \in 1..Len(segs) : segs[m] \in Segments
  OBVIOUS
<1>3. u \in Seq(Segments) /\ Len(u) = i /\ \A m \in 1..i : u[m] = segs[m]
  <2>1. \A m \in 1..i : segs[m] \in Segments
    BY <1>1, <1>2
  <2>2. /\ u \in Seq(Segments) /\ Len(u) = IF 1 <= i THEN i - 1 + 1 ELSE 0
        /\ \A m \in 1..(i - 1 + 1) : u[m] = segs[1 + m - 1]
    BY <1>1, <2>1, SubSeqProperties
  <2>. QED
    BY <2>2, <1>1
<1>4. v \in Seq(Segments) /\ Len(v) = Len(segs) - j + 1
      /\ \A m \in 1..(Len(segs) - j + 1) : v[m] = segs[j + m - 1]
  <2>1. \A m \in j..Len(segs) : segs[m] \in Segments
    BY <1>1, <1>2
  <2>2. /\ v \in Seq(Segments) /\ Len(v) = IF j <= Len(segs) THEN Len(segs) - j + 1 ELSE 0
        /\ \A m \in 1..(Len(segs) - j + 1) : v[m] = segs[j + m - 1]
    BY <1>1, <2>1, SubSeqProperties
  <2>. QED
    BY <2>2, <1>1
<1>5. <<s>> \in Seq(Segments) /\ Len(<<s>>) = 1 /\ <<s>>[1] = s
  OBVIOUS
<1> HIDE DEF u, v
<1>6. /\ w \in Seq(Segments) /\ Len(w) = i + 1
      /\ \A m \in 1..(i + 1) : w[m] = IF m <= i THEN u[m] ELSE <<s>>[m - i]
  BY <1>1, <1>3, <1>5, ConcatProperties
<1> HIDE DEF w
<1>7. /\ w \o v \in Seq(Segments) /\ Len(w \o v) = Len(w) + Len(v)
      /\ \A m \in 1..(Len(w) + Len(v)) :
            (w \o v)[m] = IF m <= Len(w) THEN w[m] ELSE v[m - Len(w)]
  BY <1>4, <1>6, ConcatProperties
<1>8. Splice(segs, i, j, s) = w \o v
  BY DEF Splice, u, v, w
<1>9. w[i + 1] = s /\ \A m \in 1..i : w[m] = segs[m]
  BY <1>1, <1>3, <1>5, <1>6
<1>10. \A m \in (i + 2)..Len(w \o v) : (w \o v)[m] = segs[m + j - i - 2]
  <2> SUFFICES ASSUME NEW m \in (i + 2)..Len(w \o v) PROVE (w \o v)[m] = segs[m + j - i - 2]
    OBVIOUS
  <2>1. m \in Int /\ m >= i + 2 /\ m <= Len(segs) + i + 2 - j
    BY <1>1, <1>4, <1>6, <1>7
  <2>2. (w \o v)[m] = v[m - (i + 1)]
    BY <2>1, <1>1, <1>4, <1>6, <1>7
  <2>3. m - (i + 1) \in 1..(Len(segs) - j + 1)
    BY <2>1, <1>1
  <2>4. v[m - (i + 1)] = segs[j + (m - (i + 1)) - 1]
    BY <2>3, <1>4
  <2>5. j + (m - (i + 1)) - 1 = m + j - i - 2
    BY <2>1, <1>1
  <2>. QED
    BY <2>2, <2>4, <2>5
<1>11. (w \o v)[i + 1] = s /\ \A m \in 1..i : (w \o v)[m] = segs[m]
  BY <1>1, <1>4, <1>6, <1>7, <1>9
<1>12. Len(w \o v) = Len(segs) + i + 2 - j
  BY <1>1, <1>4, <1>6, <1>7
<1>. QED
  BY <1>7, <1>8, <1>10, <1>11, <1>12 DEF Spliced

\* Describes, byte by byte.
LEMMA Described ==
  ASSUME NEW b \in Nat, NEW segs \in Seq(Segments), NEW A \in SUBSET Nat
  PROVE  Describes(b, segs, A) <=>
         /\ \A x \in Nat : x > b /\ x \in A <=>
              \E m \in 1..Len(segs) : x \in From(b, segs[m])..To(b, segs[m])
         /\ \A m \in 1..Len(segs) : From(b, segs[m]) > b + 1
         /\ \A m, n \in 1..Len(segs) : m < n => To(b, segs[m]) + 1 < From(b, segs[n])
<1> DEFINE U == UNION {From(b, segs[m])..To(b, segs[m]) : m \in 1..Len(segs)}
<1>1. DOMAIN segs = 1..Len(segs)
  OBVIOUS
<1>2. \A x : x \in U <=> \E m \in 1..Len(segs) : x \in From(b, segs[m])..To(b, segs[m])
  OBVIOUS
<1>3. \A x \in U : x \in Nat
  <2> SUFFICES ASSUME NEW x \in U PROVE x \in Nat
    OBVIOUS
  <2>1. PICK m \in 1..Len(segs) : x \in From(b, segs[m])..To(b, segs[m])
    BY <1>2
  <2>2. segs[m] \in Segments
    OBVIOUS
  <2>3. From(b, segs[m]) \in Nat
    BY <2>2, Bytes
  <2>. QED
    BY <2>1, <2>3
<1>4. Describes(b, segs, A) <=>
         /\ {x \in A : x > b} = U
         /\ \A m \in 1..Len(segs) : From(b, segs[m]) > b + 1
         /\ \A m, n \in 1..Len(segs) : m < n => To(b, segs[m]) + 1 < From(b, segs[n])
  BY <1>1, Zenon DEF Describes
<1> HIDE DEF U
<1>5. {x \in A : x > b} = U <=> \A x \in Nat : x > b /\ x \in A <=> x \in U
  BY <1>3
<1>. QED
  BY <1>2, <1>4, <1>5

\* New bytes p..q are described by a list in which one segment stands for them
\* and for the segments it replaces.
LEMMA Replaced ==
  ASSUME NEW b \in Nat, NEW segs \in Seq(Segments), NEW A \in SUBSET Nat,
         Describes(b, segs, A),
         NEW p \in Nat, NEW q \in Nat, b < p,
         NEW i \in 0..Len(segs), NEW j \in (i + 1)..(Len(segs) + 1),
         NEW res \in Seq(Segments), Spliced(segs, i, j, res),
         StandsFor(b, segs, i, j, res[i + 1], p, q)
  PROVE  Describes(b, res, A \cup (p..q))
<1> DEFINE lo(m) == From(b, segs[m])
           hi(m) == To(b, segs[m])
           nlo(m) == From(b, res[m])
           nhi(m) == To(b, res[m])
<1>1. Len(segs) \in Nat /\ i \in Nat /\ j \in Nat /\ i < j /\ j <= Len(segs) + 1 /\ i <= Len(segs)
  OBVIOUS
<1>2. \A m \in 1..Len(segs) : lo(m) \in Nat /\ hi(m) \in Nat /\ lo(m) <= hi(m)
  <2> SUFFICES ASSUME NEW m \in 1..Len(segs)
               PROVE  lo(m) \in Nat /\ hi(m) \in Nat /\ lo(m) <= hi(m)
    OBVIOUS
  <2>1. segs[m] \in Segments
    OBVIOUS
  <2>. QED
    BY <2>1, Bytes
<1>3. \A m \in 1..Len(res) : nlo(m) \in Nat /\ nhi(m) \in Nat /\ nlo(m) <= nhi(m)
  <2> SUFFICES ASSUME NEW m \in 1..Len(res)
               PROVE  nlo(m) \in Nat /\ nhi(m) \in Nat /\ nlo(m) <= nhi(m)
    OBVIOUS
  <2>1. res[m] \in Segments
    OBVIOUS
  <2>. QED
    BY <2>1, Bytes
<1>4. \A x \in Nat : x > b /\ x \in A <=> \E m \in 1..Len(segs) : x \in lo(m)..hi(m)
  BY Described
<1>5. \A m \in 1..Len(segs) : lo(m) > b + 1
  BY Described
<1>6. \A m, n \in 1..Len(segs) : m < n => hi(m) + 1 < lo(n)
  BY Described
<1>7. \A m \in 1..i : nlo(m) = lo(m) /\ nhi(m) = hi(m)
  BY DEF Spliced
<1>8. \A m \in (i + 2)..Len(res) :
         m + j - i - 2 \in j..Len(segs) /\ nlo(m) = lo(m + j - i - 2) /\ nhi(m) = hi(m + j - i - 2)
  <2> SUFFICES ASSUME NEW m \in (i + 2)..Len(res)
               PROVE  m + j - i - 2 \in j..Len(segs) /\ res[m] = segs[m + j - i - 2]
    OBVIOUS
  <2>1. res[m] = segs[m + j - i - 2] /\ Len(res) = Len(segs) + i + 2 - j
    BY DEF Spliced
  <2>. QED
    BY <1>1, <2>1
<1>9. /\ nlo(i + 1) > b + 1
      /\ \A m \in 1..i : hi(m) + 1 < nlo(i + 1)
      /\ \A m \in j..Len(segs) : nhi(i + 1) + 1 < lo(m)
      /\ \A x \in Nat : x \in nlo(i + 1)..nhi(i + 1) <=>
            \/ x \in p..q
            \/ \E m \in (i + 1)..(j - 1) : x \in lo(m)..hi(m)
  BY DEF StandsFor
<1>10. Len(res) = Len(segs) + i + 2 - j
  BY DEF Spliced
<1> HIDE DEF lo, hi, nlo, nhi
<1>12. \A m \in 1..Len(res) : nlo(m) > b + 1
  <2> SUFFICES ASSUME NEW m \in 1..Len(res) PROVE nlo(m) > b + 1
    OBVIOUS
  <2>1. CASE m <= i
    BY <2>1, <1>1, <1>5, <1>7
  <2>2. CASE m = i + 1
    BY <2>2, <1>9
  <2>3. CASE m > i + 1
    <3>1. m \in (i + 2)..Len(res)
      BY <2>3, <1>1
    <3>. QED
      BY <3>1, <1>1, <1>5, <1>8
  <2>. QED
    BY <2>1, <2>2, <2>3, <1>1
<1>13. \A m, n \in 1..Len(res) : m < n => nhi(m) + 1 < nlo(n)
  <2> SUFFICES ASSUME NEW m \in 1..Len(res), NEW n \in 1..Len(res), m < n
               PROVE  nhi(m) + 1 < nlo(n)
    OBVIOUS
  <2>1. CASE n <= i
    BY <2>1, <1>1, <1>6, <1>7
  <2>2. CASE n = i + 1
    BY <2>2, <1>1, <1>7, <1>9
  <2>3. CASE n > i + 1 /\ m <= i
    <3>1. n \in (i + 2)..Len(res) /\ m \in 1..i
      BY <2>3, <1>1
    <3>2. n + j - i - 2 \in j..Len(segs)
      BY <3>1, <1>8
    <3>3. m \in 1..Len(segs) /\ n + j - i - 2 \in 1..Len(segs) /\ m < n + j - i - 2
      BY <3>1, <3>2, <1>1
    <3>4. hi(m) + 1 < lo(n + j - i - 2)
      BY <3>3, <1>6
    <3>. QED
      BY <3>1, <3>4, <1>7, <1>8
  <2>4. CASE n > i + 1 /\ m = i + 1
    <3>1. n \in (i + 2)..Len(res)
      BY <2>4, <1>1
    <3>. QED
      BY <2>4, <3>1, <1>8, <1>9
  <2>5. CASE m > i + 1
    <3>1. m \in (i + 2)..Len(res) /\ n \in (i + 2)..Len(res)
      BY <2>5, <1>1
    <3>2. m + j - i - 2 \in 1..Len(segs) /\ n + j - i - 2 \in 1..Len(segs)
          /\ m + j - i - 2 < n + j - i - 2
      BY <3>1, <1>8, <1>1
    <3>3. hi(m + j - i - 2) + 1 < lo(n + j - i - 2)
      BY <3>2, <1>6
    <3>. QED
      BY <3>1, <3>3, <1>8
  <2>. QED
    BY <2>1, <2>2, <2>3, <2>4, <2>5, <1>1
<1>14. \A x \in Nat : x > b /\ x \in A \cup (p..q) <=> \E m \in 1..Len(res) : x \in nlo(m)..nhi(m)
  <2> SUFFICES ASSUME NEW x \in Nat
               PROVE  x > b /\ x \in A \cup (p..q) <=> \E m \in 1..Len(res) : x \in nlo(m)..nhi(m)
    OBVIOUS
  <2>1. ASSUME x > b, x \in A \cup (p..q)
        PROVE  \E m \in 1..Len(res) : x \in nlo(m)..nhi(m)
    <3>1. i + 1 \in 1..Len(res)
      BY <1>1, <1>10
    <3>2. CASE x \in p..q
      BY <3>1, <3>2, <1>9
    <3>3. CASE x \in A
      <4>1. PICK m \in 1..Len(segs) : x \in lo(m)..hi(m)
        BY <2>1, <3>3, <1>4
      <4>2. CASE m <= i
        BY <4>1, <4>2, <1>1, <1>7, <1>10
      <4>3. CASE m > i /\ m < j
        BY <4>1, <4>3, <3>1, <1>1, <1>9
      <4>4. CASE m >= j
        <5>1. m - j + i + 2 \in (i + 2)..Len(res) /\ (m - j + i + 2) + j - i - 2 = m
          BY <4>4, <1>1, <1>10
        <5>2. nlo(m - j + i + 2) = lo(m) /\ nhi(m - j + i + 2) = hi(m)
          BY <5>1, <1>8
        <5>3. m - j + i + 2 \in 1..Len(res)
          BY <5>1, <1>1
        <5>. QED
          BY <5>2, <5>3, <4>1
      <4>. QED
        BY <4>2, <4>3, <4>4, <1>1
    <3>. QED
      BY <2>1, <3>2, <3>3
  <2>2. ASSUME NEW m \in 1..Len(res), x \in nlo(m)..nhi(m)
        PROVE  x > b /\ x \in A \cup (p..q)
    <3>1. CASE m <= i
      <4>1. m \in 1..Len(segs) /\ x \in lo(m)..hi(m)
        BY <2>2, <3>1, <1>1, <1>7
      <4>. QED
        BY <4>1, <1>4
    <3>2. CASE m = i + 1
      <4>1. CASE x \in p..q
        BY <4>1
      <4>2. CASE \E n \in (i + 1)..(j - 1) : x \in lo(n)..hi(n)
        <5>1. PICK n \in (i + 1)..(j - 1) : x \in lo(n)..hi(n)
          BY <4>2
        <5>2. n \in 1..Len(segs)
          BY <1>1
        <5>. QED
          BY <5>1, <5>2, <1>4
      <4>. QED
        BY <4>1, <4>2, <3>2, <2>2, <1>9
    <3>3. CASE m > i + 1
      <4>1. m \in (i + 2)..Len(res)
        BY <3>3, <1>1
      <4>2. m + j - i - 2 \in 1..Len(segs) /\ x \in lo(m + j - i - 2)..hi(m + j - i - 2)
        BY <4>1, <2>2, <1>1, <1>8
      <4>. QED
        BY <4>2, <1>4
    <3>. QED
      BY <3>1, <3>2, <3>3, <1>1
  <2>. QED
    BY <2>1, <2>2
<1>15. A \cup (p..q) \in SUBSET Nat
  OBVIOUS
<1>. QED
  BY <1>12, <1>13, <1>14, <1>15, Described DEF nlo, nhi

\* Every nonempty set of naturals has a least element.
LEMMA Least ==
  ASSUME NEW S \in SUBSET Nat, S # {}
  PROVE  Min(S) \in S /\ \A x \in S : Min(S) <= x
<1> DEFINE Less == {ss \in Nat \X Nat : ss[1] < ss[2]}
<1>1. IsWellFoundedOn(Less, Nat)
  BY NatLessThanWellFounded DEF OpToRel
<1>2. \A x, y \in Nat : x < y => <<x, y>> \in Less
  OBVIOUS
<1> HIDE DEF Less
<1>3. \E x \in S : \A y \in S : ~ (<<y, x>> \in Less)
  <2>1. S \subseteq Nat /\ S # {}
    OBVIOUS
  <2>. QED
    BY <1>1, <2>1, WFMin, Zenon
<1>4. PICK x \in S : \A y \in S : ~ (<<y, x>> \in Less)
  BY <1>3
<1>5. ASSUME NEW y \in S PROVE x <= y
  <2>1. x \in Nat /\ y \in Nat
    OBVIOUS
  <2>2. ~ (y < x)
    BY <2>1, <1>2, <1>4, Zenon
  <2>. QED
    BY <2>1, <2>2
<1>. QED
  BY <1>5 DEF Min

\* The smaller one of two numbers.
LEMMA LeastOfTwo ==
  ASSUME NEW x \in Nat, NEW y \in Nat
  PROVE  Min({x, y}) = IF x <= y THEN x ELSE y
<1>1. Min({x, y}) \in {x, y} /\ \A z \in {x, y} : Min({x, y}) <= z
  BY Least
<1>. QED
  BY <1>1

-----------------------------------------------------------------------------
(***************************************************************************)
(* ooo_segment_add                                                         *)
(***************************************************************************)

\* n bytes arrive o bytes behind byte b + 1, which is missing: OrderlyEarly of the
\* bytes A that are there.
Early(b, A, o, n) ==
  LET p == b + o + 1
      q == b + o + n
      later == {x \in A : x > p /\ x - 1 \notin A}
  IN
  /\ o + n < NItems
  /\ \A x \in A : x > b /\ x < b + NItems
  /\ \A s \in later : (\A x \in later : s <= x) =>
       /\ (\E x \in A : x <= p) => ((p \in A \/ p - 1 \in A) <=> s <= q + 1)
       /\ s..q \subseteq A \/ (q \notin A /\ q + 1 \notin A)

\* Where a segment is, and that its offsets do not wrap.
LEMMA Around ==
  ASSUME NEW b \in Nat, NEW segs \in Seq(Segments), NEW A \in SUBSET Nat,
         Describes(b, segs, A), NEW o \in Nat \ {0}, NEW n \in Nat \ {0}, Early(b, A, o, n),
         NEW m \in 1..Len(segs)
  PROVE  /\ From(b, segs[m]) \in Nat /\ To(b, segs[m]) \in Nat
         /\ b + 1 < From(b, segs[m]) /\ From(b, segs[m]) <= To(b, segs[m])
         /\ To(b, segs[m]) < b + NItems
         /\ From(b, segs[m]) \in A /\ To(b, segs[m]) \in A
         /\ ooo_segment_offset(Wrap(b), segs[m]) = From(b, segs[m]) - b - 1
         /\ ooo_segment_end_offset(Wrap(b), segs[m]) = To(b, segs[m]) - b
<1> DEFINE lo == From(b, segs[m])
           hi == To(b, segs[m])
           off == ooo_segment_offset(Wrap(b), segs[m])
<1>1. segs[m] \in Segments
  OBVIOUS
<1>2. lo \in Nat /\ hi \in Nat /\ lo <= hi
  BY <1>1, Bytes
<1>3. lo > b + 1 /\ \A x \in Nat : x \in lo..hi => x \in A
  BY Described
<1>4. lo = b + off + 1 /\ off \in Places
  BY <1>1, Offset
<1>5. NItems \in Nat
  BY NItemsAssumption
<1>6. lo \in A /\ hi \in A
  <2> HIDE DEF lo, hi
  <2>. QED
    BY <1>2, <1>3
<1>7. hi < b + NItems
  BY <1>6 DEF Early
<1>8. ooo_segment_end_offset(Wrap(b), segs[m]) = hi - b
  BY <1>1, <1>7, EndOffset
<1>9. off = lo - b - 1
  <2> HIDE DEF lo, off
  <2>. QED
    BY <1>4, <1>2, <1>5 DEF Places
<1>. QED
  BY <1>2, <1>3, <1>6, <1>7, <1>8, <1>9

\* What Early says of segment k, the first one that begins behind the new bytes'
\* beginning: they touch it when they touch the one before it, and otherwise
\* neither; when they go beyond its end, every other segment is covered or apart.
LEMMA NextSegment ==
  ASSUME NEW b \in Nat, NEW segs \in Seq(Segments), NEW A \in SUBSET Nat,
         Describes(b, segs, A), NEW o \in Nat \ {0}, NEW n \in Nat \ {0}, Early(b, A, o, n),
         NEW k \in 1..Len(segs), From(b, segs[k]) > b + o + 1,
         \A m \in 1..(k - 1) : From(b, segs[m]) <= b + o + 1
  PROVE  /\ k > 1 => (To(b, segs[k - 1]) >= b + o <=> From(b, segs[k]) <= b + o + n + 1)
         /\ b + o + n > To(b, segs[k]) =>
              \A m \in (k + 1)..Len(segs) :
                To(b, segs[m]) < b + o + n \/ From(b, segs[m]) > b + o + n + 1
<1> DEFINE lo(m) == From(b, segs[m])
           hi(m) == To(b, segs[m])
           p == b + o + 1
           q == b + o + n
           L == Len(segs)
           later == {x \in A : x > p /\ x - 1 \notin A}
<1>1. L \in Nat /\ p \in Nat /\ q \in Nat /\ p <= q /\ p - 1 \in Nat /\ p - 1 = b + o
      /\ q + 1 = b + o + n + 1 /\ k \in Nat
  OBVIOUS
<1>2. \A m \in 1..L : /\ lo(m) \in Nat /\ hi(m) \in Nat /\ lo(m) <= hi(m)
                      /\ lo(m) \in A /\ hi(m) \in A /\ b + 1 < lo(m)
  BY Around
<1>3. \A m, l \in 1..L : m < l => hi(m) + 1 < lo(l)
  BY Described
<1>4. \A x \in Nat : x \in A <=> \E m \in 1..L : x \in lo(m)..hi(m)
  <2>1. \A x \in Nat : x > b /\ x \in A <=> \E m \in 1..L : x \in lo(m)..hi(m)
    BY Described
  <2>2. \A x \in A : x > b
    BY DEF Early
  <2>. QED
    BY <2>1, <2>2
<1>5. \A s \in later : (\A x \in later : s <= x) =>
        /\ (\E x \in A : x <= p) => ((p \in A \/ p - 1 \in A) <=> s <= q + 1)
        /\ s..q \subseteq A \/ (q \notin A /\ q + 1 \notin A)
  BY DEF Early
<1>6. lo(k) > p /\ \A m \in 1..(k - 1) : lo(m) <= p
  OBVIOUS
<1> HIDE DEF lo, hi, p, q, L
<1>7. ASSUME NEW m \in 1..L PROVE lo(m) - 1 \notin A /\ hi(m) + 1 \notin A
  <2> SUFFICES ASSUME NEW y \in {lo(m) - 1, hi(m) + 1}, y \in A PROVE FALSE
    OBVIOUS
  <2>1. y \in Nat /\ lo(m) \in Nat /\ hi(m) \in Nat /\ lo(m) <= hi(m)
    BY <1>2
  <2>2. PICK l \in 1..L : y \in lo(l)..hi(l)
    BY <2>1, <1>4
  <2>3. lo(l) \in Nat /\ hi(l) \in Nat
    BY <1>2
  <2>4. CASE l = m
    BY <2>1, <2>2, <2>4
  <2>5. CASE l < m
    <3>1. hi(l) + 1 < lo(m)
      BY <2>5, <1>3
    <3>. QED
      BY <3>1, <2>1, <2>2, <2>3
  <2>6. CASE m < l
    <3>1. hi(m) + 1 < lo(l)
      BY <2>6, <1>3
    <3>. QED
      BY <3>1, <2>1, <2>2, <2>3
  <2>. QED
    BY <2>4, <2>5, <2>6, <1>1
<1>8. lo(k) \in later /\ \A x \in later : lo(k) <= x
  <2>1. k \in 1..L /\ lo(k) \in A /\ lo(k) \in Nat
    BY <1>2 DEF L
  <2>2. lo(k) \in later
    BY <2>1, <1>6, <1>7
  <2>3. ASSUME NEW x \in later PROVE lo(k) <= x
    <3>1. x \in A /\ x > p /\ x - 1 \notin A /\ x \in Nat
      OBVIOUS
    <3>2. PICK m \in 1..L : x \in lo(m)..hi(m)
      BY <3>1, <1>4
    <3>3. lo(m) \in Nat /\ hi(m) \in Nat /\ lo(m) <= x /\ x <= hi(m)
      BY <3>2, <1>2
    <3>4. x = lo(m)
      <4>1. CASE x > lo(m)
        <5>1. x - 1 \in lo(m)..hi(m) /\ x - 1 \in Nat
          BY <4>1, <3>3
        <5>. QED
          BY <5>1, <3>1, <1>4
      <4>. QED
        BY <4>1, <3>3
    <3>5. ~ (m \in 1..(k - 1))
      BY <3>1, <3>3, <3>4, <1>1, <1>6
    <3>6. CASE m = k
      BY <3>6, <3>3
    <3>7. CASE k < m
      <4>1. hi(k) + 1 < lo(m) /\ hi(k) \in Nat /\ lo(k) <= hi(k)
        BY <3>7, <2>1, <1>2, <1>3
      <4>. QED
        BY <4>1, <3>3, <2>1
    <3>. QED
      BY <3>5, <3>6, <3>7, <1>1
  <2>. QED
    BY <2>2, <2>3
<1>9. /\ (\E x \in A : x <= p) => ((p \in A \/ p - 1 \in A) <=> lo(k) <= q + 1)
      /\ lo(k)..q \subseteq A \/ (q \notin A /\ q + 1 \notin A)
  BY <1>5, <1>8
<1>10. ASSUME k > 1 PROVE hi(k - 1) >= p - 1 <=> lo(k) <= q + 1
  <2> DEFINE j == k - 1
  <2>1. j \in 1..L /\ j \in 1..(k - 1) /\ k \in 1..L
    BY <1>10, <1>1 DEF L
  <2>2. lo(j) \in Nat /\ hi(j) \in Nat /\ lo(j) <= p /\ lo(j) \in A /\ lo(j) <= hi(j)
    BY <2>1, <1>2, <1>6
  <2>3. ASSUME hi(j) >= p - 1 PROVE p \in A \/ p - 1 \in A
    <3>1. CASE hi(j) = p - 1
      BY <3>1, <2>1, <1>2
    <3>2. CASE hi(j) # p - 1
      <4>1. p \in lo(j)..hi(j)
        BY <3>2, <2>2, <2>3, <1>1
      <4>. QED
        BY <4>1, <2>1, <1>1, <1>4
    <3>. QED
      BY <3>1, <3>2
  <2>4. ASSUME NEW y \in {p, p - 1}, y \in A PROVE hi(j) >= p - 1
    <3>1. y \in Nat /\ y <= p /\ p - 1 <= y
      BY <1>1
    <3>2. PICK m \in 1..L : y \in lo(m)..hi(m)
      BY <3>1, <2>4, <1>4
    <3>3. lo(m) \in Nat /\ hi(m) \in Nat /\ lo(m) <= y /\ y <= hi(m)
      BY <3>2, <1>2
    <3>4. CASE m = j
      BY <3>4, <3>3, <3>1, <1>1
    <3>5. CASE m < j
      <4>1. hi(m) + 1 < lo(j)
        BY <3>5, <2>1, <1>3
      <4>. QED
        BY <4>1, <3>1, <3>3, <2>2, <1>1
    <3>6. CASE m = k
      BY <3>6, <3>1, <3>3, <1>1, <1>6
    <3>7. CASE k < m
      <4>1. hi(k) + 1 < lo(m) /\ hi(k) \in Nat /\ lo(k) \in Nat /\ lo(k) <= hi(k)
        BY <3>7, <2>1, <1>2, <1>3
      <4>. QED
        BY <4>1, <3>1, <3>3, <1>1, <1>6
    <3>. QED
      BY <3>4, <3>5, <3>6, <3>7, <2>1, <1>1 DEF j
  <2>5. (p \in A \/ p - 1 \in A) <=> lo(k) <= q + 1
    BY <2>2, <1>9
  <2> HIDE DEF j
  <2>6. hi(j) >= p - 1 <=> lo(k) <= q + 1
    BY <2>3, <2>4, <2>5
  <2>. QED
    BY <2>6 DEF j
<1>11. ASSUME q > hi(k), NEW m \in (k + 1)..L PROVE hi(m) < q \/ lo(m) > q + 1
  <2>1. k \in 1..L /\ m \in 1..L /\ k < m
    BY <1>1 DEF L
  <2>2. /\ lo(k) \in Nat /\ hi(k) \in Nat /\ lo(k) <= hi(k)
        /\ lo(m) \in Nat /\ hi(m) \in Nat /\ lo(m) <= hi(m)
        /\ hi(k) + 1 \notin A
    BY <2>1, <1>2, <1>7
  <2>3. hi(k) + 1 \in lo(k)..q
    BY <2>2, <1>11, <1>1
  <2>4. q \notin A /\ q + 1 \notin A
    BY <2>2, <2>3, <1>9
  <2>5. q \notin lo(m)..hi(m) /\ q + 1 \notin lo(m)..hi(m)
    BY <2>1, <2>4, <1>1, <1>4
  <2>. QED
    BY <2>2, <2>5, <1>1
<1>. QED
  BY <1>1, <1>10, <1>11 DEF lo, hi, p, q, L

\* Lengths of segments are far from overflow.
LEMMA WordExact ==
  ASSUME NEW x \in Nat, x <= NItems
  PROVE  x % Word = x
<1> DEFINE d == x \div Word
           r == x % Word
<1>1. Word \in Nat \ {0} /\ x < Word
  BY WordAssumption, NItemsAssumption
<1>2. x = Word * d + r /\ r \in 0..(Word - 1) /\ d \in Nat
  BY <1>1
<1> HIDE DEF d, r
<1>3. CASE d >= 1
  BY <1>1, <1>2, <1>3
<1>4. CASE d = 0
  BY <1>1, <1>2, <1>4 DEF r
<1>. QED
  BY <1>2, <1>3, <1>4

\* New bytes that reach up to segment k, and not beyond its end, are merged with it,
\* and with the one before it if they touch that, too.
LEMMA MergeJoined ==
  ASSUME NEW t, NEW segs, NEW k, NEW o, NEW e,
         ~ (ooo_segment_end_offset(t, segs[k]) < e), k > 1,
         ooo_segment_end_offset(t, segs[k - 1]) >= o
  PROVE  MergeAtHead(t, segs, k, o, e) =
         Splice(segs, k - 2, k + 1,
                Segment(t, ooo_segment_offset(t, segs[k - 1]),
                        (ooo_segment_end_offset(t, segs[k])
                           - ooo_segment_offset(t, segs[k - 1])) % Word))
  BY Zenon DEF MergeAtHead, Splice

\* New bytes that reach up to the first segment.
LEMMA MergeFirst ==
  ASSUME NEW t, NEW segs, NEW k, NEW o, NEW e,
         ~ (ooo_segment_end_offset(t, segs[k]) < e), ~ (k > 1), k = 1
  PROVE  MergeAtHead(t, segs, k, o, e) =
         Splice(segs, k - 1, k + 1,
                Segment(t, o, (ooo_segment_end_offset(t, segs[k]) - o) % Word))
  BY Zenon DEF MergeAtHead, Splice

\* New bytes that begin with a segment, do not touch the one before it, and do not
\* reach beyond its end.
LEMMA MergeApart ==
  ASSUME NEW t, NEW segs, NEW k, NEW o, NEW e,
         ~ (ooo_segment_end_offset(t, segs[k]) < e), k > 1,
         ~ (ooo_segment_end_offset(t, segs[k - 1]) >= o), ~ (k = 1)
  PROVE  MergeAtHead(t, segs, k, o, e) =
         Splice(segs, k - 1, k + 1,
                Segment(t, ooo_segment_offset(t, segs[k]), segs[k].length))
  BY Zenon DEF MergeAtHead, Splice

\* The segments from the c-th on.
LEMMA RestOf ==
  ASSUME NEW segs \in Seq(Segments), NEW c \in 1..(Len(segs) + 1)
  PROVE  /\ SubSeq(segs, c, Len(segs)) \in Seq(Segments)
         /\ Len(SubSeq(segs, c, Len(segs))) =
              IF c <= Len(segs) THEN Len(segs) - c + 1 ELSE 0
         /\ \A m \in 1..(Len(segs) - c + 1) :
              SubSeq(segs, c, Len(segs))[m] = segs[c + m - 1]
<1>1. PICK l \in Nat : l = Len(segs)
  OBVIOUS
<1>2. c \in Int /\ l \in Int /\ \A m \in c..l : segs[m] \in Segments
  BY <1>1
<1>3. /\ SubSeq(segs, c, l) \in Seq(Segments)
      /\ Len(SubSeq(segs, c, l)) = IF c <= l THEN l - c + 1 ELSE 0
      /\ \A m \in 1..(l - c + 1) : SubSeq(segs, c, l)[m] = segs[c + m - 1]
  BY <1>2, SubSeqProperties
<1>. QED
  BY <1>1, <1>3

\* New bytes that reach beyond the end of segment k, cover the segments behind it up
\* to c and do not touch c.
LEMMA MergeCovered ==
  ASSUME NEW t, NEW segs \in Seq(Segments), NEW k \in 1..Len(segs), NEW o, NEW e,
         ooo_segment_end_offset(t, segs[k]) < e,
         NEW c \in (k + 1)..(Len(segs) + 1),
         \A m \in (k + 1)..(c - 1) : ooo_segment_end_offset(t, segs[m]) < e,
         c <= Len(segs) => /\ ~ (ooo_segment_end_offset(t, segs[c]) < e)
                           /\ ~ (ooo_segment_offset(t, segs[c]) < e),
         NEW i, NEW start,
         \/ /\ k > 1 /\ ooo_segment_end_offset(t, segs[k - 1]) >= o
            /\ i = k - 2 /\ start = ooo_segment_offset(t, segs[k - 1])
         \/ /\ k > 1 /\ ~ (ooo_segment_end_offset(t, segs[k - 1]) >= o)
            /\ i = k - 1 /\ start = ooo_segment_offset(t, segs[k])
         \/ ~ (k > 1) /\ i = k - 1 /\ start = o
  PROVE  MergeAtHead(t, segs, k, o, e) = Splice(segs, i, c, Segment(t, start, e - start))
<1> DEFINE eof(s) == ooo_segment_end_offset(t, s)
           joined  == k > 1 /\ eof(segs[k - 1]) >= o
           st      == IF joined THEN ooo_segment_offset(t, segs[k - 1])
                      ELSE IF k > 1 THEN ooo_segment_offset(t, segs[k]) ELSE o
           before  == SubSeq(segs, 1, IF joined THEN k - 2 ELSE k - 1)
           behind  == SubSeq(segs, k + 1, Len(segs))
           Cov(n)  == /\ \A m \in 1..n : eof(behind[m]) < e
                      /\ n < Len(behind) => ~(eof(behind[n + 1]) < e)
           covered == CHOOSE n \in 0..Len(behind) : Cov(n)
           rest    == SubSeq(behind, covered + 1, Len(behind))
           partial == rest # <<>> /\ ooo_segment_offset(t, Head(rest)) < e
           length  == IF partial
                      THEN e - st + Head(rest).length
                             - (ooo_segment_offset(t, Head(rest)) - e)
                      ELSE e - st
           L == Len(segs)
<1>1. MergeAtHead(t, segs, k, o, e) =
        before \o <<Segment(t, st, length)>> \o (IF partial THEN Tail(rest) ELSE rest)
  BY Zenon DEF MergeAtHead
<1>2. before = SubSeq(segs, 1, i) /\ st = start
  BY Zenon
<1>3. L \in Nat /\ k \in Nat /\ c \in Nat /\ k >= 1 /\ k <= L /\ k + 1 <= c /\ c <= L + 1
  OBVIOUS
<1>4. /\ behind \in Seq(Segments) /\ Len(behind) = L - k
      /\ \A m \in 1..(L - k) : behind[m] = segs[k + m]
  <2>2. /\ behind \in Seq(Segments)
        /\ Len(behind) = IF k + 1 <= L THEN L - (k + 1) + 1 ELSE 0
        /\ \A m \in 1..(L - (k + 1) + 1) : behind[m] = segs[(k + 1) + m - 1]
    <3>1. k + 1 \in 1..(Len(segs) + 1)
      BY <1>3
    <3>. QED
      BY <3>1, RestOf
  <2>3. Len(behind) = L - k /\ L - (k + 1) + 1 = L - k
    BY <2>2, <1>3
  <2>4. \A m \in 1..(L - k) : (k + 1) + m - 1 = k + m
    BY <1>3
  <2> HIDE DEF behind
  <2>. QED
    BY <2>2, <2>3, <2>4
<1> HIDE DEF behind
<1>5. covered = c - k - 1
  <2>1. PICK v \in 0..(L - k) : v = c - k - 1
    BY <1>3
  <2>2. ASSUME NEW m \in 1..v PROVE eof(behind[m]) < e
    <3>1. k + m \in (k + 1)..(c - 1) /\ m \in 1..(L - k)
      BY <2>1, <1>3
    <3>. QED
      BY <3>1, <1>4
  <2>3. ASSUME v < L - k PROVE ~(eof(behind[v + 1]) < e)
    <3>1. v + 1 \in 1..(L - k) /\ k + (v + 1) = c /\ c <= L
      BY <2>1, <2>3, <1>3
    <3>2. behind[v + 1] = segs[c]
      BY <3>1, <1>4
    <3>. QED
      BY <3>1, <3>2
  <2>4. v \in 0..Len(behind) /\ Cov(v)
    BY <2>1, <2>2, <2>3, <1>4
  <2>5. ASSUME NEW w \in 0..Len(behind), Cov(w) PROVE w = v
    <3>1. CASE w < v
      <4>1. w < Len(behind) /\ w + 1 \in 1..v
        BY <3>1, <2>1, <1>4, <1>3
      <4>. QED
        BY <4>1, <2>2, <2>5
    <3>2. CASE v < w
      <4>1. v < L - k /\ v + 1 \in 1..w
        BY <3>2, <2>1, <2>5, <1>4, <1>3
      <4>. QED
        BY <4>1, <2>3, <2>5
    <3>. QED
      BY <3>1, <3>2, <2>1, <2>5, <1>3, <1>4
  <2> HIDE DEF Cov
  <2>6. covered \in 0..Len(behind) /\ Cov(covered)
    BY <2>4
  <2> HIDE DEF covered
  <2>. QED
    BY <2>1, <2>5, <2>6
<1>6. rest = SubSeq(segs, c, L)
  <2>1. PICK v \in 0..(L - k) : v = c - k - 1 /\ v = covered
    BY <1>3, <1>5
  <2>2. rest = SubSeq(behind, v + 1, L - k)
    BY <2>1, <1>4
  <2>3. \A m \in (v + 1)..(L - k) : behind[m] \in Segments
    BY <1>3, <1>4, <2>1
  <2>4. /\ SubSeq(behind, v + 1, L - k) \in Seq(Segments)
        /\ Len(SubSeq(behind, v + 1, L - k)) =
             IF v + 1 <= L - k THEN L - k - (v + 1) + 1 ELSE 0
        /\ \A m \in 1..(L - k - (v + 1) + 1) :
             SubSeq(behind, v + 1, L - k)[m] = behind[(v + 1) + m - 1]
    BY <2>1, <2>3, <1>3, <1>4, SubSeqProperties
  <2>6. /\ SubSeq(segs, c, L) \in Seq(Segments)
        /\ Len(SubSeq(segs, c, L)) = IF c <= L THEN L - c + 1 ELSE 0
        /\ \A m \in 1..(L - c + 1) : SubSeq(segs, c, L)[m] = segs[c + m - 1]
    <3>1. c \in 1..(Len(segs) + 1)
      BY <1>3
    <3>. QED
      BY <3>1, RestOf
  <2>7. L - k - (v + 1) + 1 = L - c + 1 /\ (v + 1 <= L - k <=> c <= L) /\ (v + 1) + k = c
    BY <2>1, <1>3
  <2>8. ASSUME NEW m \in 1..(L - c + 1)
        PROVE  SubSeq(behind, v + 1, L - k)[m] = SubSeq(segs, c, L)[m]
    <3>1. (v + 1) + m - 1 \in 1..(L - k) /\ k + ((v + 1) + m - 1) = c + m - 1
      BY <2>1, <1>3
    <3>2. behind[(v + 1) + m - 1] = segs[c + m - 1]
      BY <3>1, <1>4
    <3>. QED
      BY <3>2, <2>4, <2>6, <2>7
  <2>9. Len(SubSeq(behind, v + 1, L - k)) = Len(SubSeq(segs, c, L))
        /\ Len(SubSeq(segs, c, L)) = L - c + 1
    <3>1. CASE c <= L
      BY <3>1, <2>4, <2>6, <2>7
    <3>2. CASE ~ (c <= L)
      <4>1. L - c + 1 = 0
        BY <3>2, <1>3
      <4>. QED
        BY <4>1, <3>2, <2>4, <2>6, <2>7
    <3>. QED
      BY <3>1, <3>2
  <2>. QED
    BY <2>2, <2>4, <2>6, <2>8, <2>9, SeqEqual
<1>7. ~ partial
  <2> HIDE DEF rest, partial
  <2> SUFFICES ASSUME partial PROVE FALSE
    OBVIOUS
  <2>1. \A m \in c..L : segs[m] \in Segments
    BY <1>3
  <2>2. /\ rest \in Seq(Segments) /\ Len(rest) = IF c <= L THEN L - c + 1 ELSE 0
        /\ \A m \in 1..(L - c + 1) : rest[m] = segs[c + m - 1]
    BY <2>1, <1>3, <1>6, SubSeqProperties
  <2>3. rest # <<>> /\ ooo_segment_offset(t, Head(rest)) < e
    BY DEF partial
  <2>4. Len(rest) > 0 /\ Head(rest) = rest[1]
    BY <2>2, <2>3
  <2>5. c <= L /\ 1 \in 1..(L - c + 1) /\ c + 1 - 1 = c
    BY <2>2, <2>4, <1>3
  <2>6. Head(rest) = segs[c]
    BY <2>2, <2>4, <2>5
  <2>. QED
    BY <2>3, <2>5, <2>6
<1>. QED
  BY <1>1, <1>2, <1>6, <1>7, Zenon DEF Splice

\* Bytes that arrive early are merged with the segments they touch, overlap or
\* cover, or become a segment of their own.
LEMMA AddExact ==
  ASSUME NEW b \in Nat, NEW segs \in Seq(Segments), NEW A \in SUBSET Nat,
         Describes(b, segs, A), NEW o \in Nat \ {0}, NEW n \in Nat \ {0}, Early(b, A, o, n)
  PROVE  /\ ooo_segment_add(Wrap(b), segs, o, n) \in Seq(Segments)
         /\ Describes(b, ooo_segment_add(Wrap(b), segs, o, n), A \cup ((b + o + 1)..(b + o + n)))
<1> DEFINE lo(m) == From(b, segs[m])
           hi(m) == To(b, segs[m])
           off(m) == ooo_segment_offset(Wrap(b), segs[m])
           eof(m) == ooo_segment_end_offset(Wrap(b), segs[m])
           p == b + o + 1
           q == b + o + n
           L == Len(segs)
           new == Segment(Wrap(b), o, n)
           later == {i \in DOMAIN segs : off(i) > o}
           k == Min(later \cup {L})
           res == ooo_segment_add(Wrap(b), segs, o, n)
<1>1. res = IF segs = <<>> THEN <<new>> ELSE AddAt(Wrap(b), segs, k, o, n)
  BY DEF ooo_segment_add
<1>2. L \in Nat /\ DOMAIN segs = 1..L /\ \A m \in 1..L : segs[m] \in Segments
  OBVIOUS
<1>3. \A m \in 1..L :
        /\ lo(m) \in Nat /\ hi(m) \in Nat /\ b + 1 < lo(m) /\ lo(m) <= hi(m)
        /\ hi(m) < b + NItems
        /\ off(m) = lo(m) - b - 1 /\ eof(m) = hi(m) - b
  BY Around
<1>4. \A m, l \in 1..L : m < l => hi(m) + 1 < lo(l)
  BY Described
<1>6. /\ p \in Nat /\ q \in Nat /\ b + 1 < p /\ p <= q /\ NItems \in Nat /\ o \in Places
      /\ q < b + NItems
  BY NItemsAssumption DEF Early, Places
<1>7. /\ new \in Segments /\ From(b, new) = p /\ To(b, new) = q
  BY <1>6, SegmentAt
<1>8. ASSUME NEW l \in 1..L, lo(l) > p, \A m \in 1..(l - 1) : lo(m) <= p
      PROVE  /\ l > 1 => (hi(l - 1) >= p - 1 <=> lo(l) <= q + 1)
             /\ q > hi(l) => \A m \in (l + 1)..L : hi(m) < q \/ lo(m) > q + 1
  <2>1. p - 1 = b + o /\ q + 1 = b + o + n + 1
    OBVIOUS
  <2>. QED
    BY <2>1, <1>8, NextSegment
<1>9. ASSUME NEW i \in 0..L, NEW j \in (i + 1)..(L + 1), res \in Seq(Segments),
             Spliced(segs, i, j, res), StandsFor(b, segs, i, j, res[i + 1], p, q)
      PROVE  Describes(b, res, A \cup (p..q))
  <2> HIDE DEF res
  <2>. QED
    BY <1>6, <1>9, Replaced
<1>10. SUFFICES \E i \in 0..L : \E j \in (i + 1)..(L + 1) :
                  /\ res \in Seq(Segments) /\ Spliced(segs, i, j, res)
                  /\ StandsFor(b, segs, i, j, res[i + 1], p, q)
  BY <1>9
<1>11. \A m \in 1..L : m \in later <=> off(m) > o
  BY <1>2
<1>12. later \in SUBSET (1..L)
  BY <1>2
<1> HIDE DEF res, lo, hi, off, eof, p, q, L, new, later
<1>13. CASE segs = <<>>
  <2>1. res = <<new>> /\ L = 0
    BY <1>1, <1>13 DEF L
  <2>2. res \in Seq(Segments) /\ Len(res) = 1 /\ res[1] = new
    BY <2>1, <1>7
  <2>3. Spliced(segs, 0, 1, res)
    BY <2>1, <2>2 DEF Spliced, L
  <2>4. StandsFor(b, segs, 0, 1, res[0 + 1], p, q)
    BY <2>1, <2>2, <1>6, <1>7 DEF StandsFor, L
  <2>. QED
    BY <2>1, <2>2, <2>3, <2>4
<1>14. CASE segs # <<>>
  <2>1. L \in Nat \ {0} /\ res = AddAt(Wrap(b), segs, k, o, n)
    BY <1>1, <1>2, <1>14 DEF L
  <2>2. k \in later \cup {L} /\ \A x \in later \cup {L} : k <= x
    <3>1. later \cup {L} \in SUBSET Nat /\ later \cup {L} # {}
      BY <2>1, <1>12
    <3>. QED
      BY <3>1, Least
  <2> HIDE DEF k
  <2>3. k \in 1..L
    BY <2>1, <2>2, <1>12
  <2>4. /\ lo(k) \in Nat /\ hi(k) \in Nat /\ b + 1 < lo(k) /\ lo(k) <= hi(k)
        /\ hi(k) < b + NItems
        /\ off(k) = lo(k) - b - 1 /\ eof(k) = hi(k) - b
    BY <2>3, <1>3
  <2>5. /\ o + n < off(k) => res = InsertAt(segs, k, new)
        /\ ~ (o + n < off(k)) /\ eof(k) < o => res = InsertAt(segs, k + 1, new)
        /\ ~ (o + n < off(k)) /\ ~ (eof(k) < o) /\ o <= off(k) =>
             res = MergeAtHead(Wrap(b), segs, k, o, o + n)
        /\ ~ (o + n < off(k)) /\ ~ (eof(k) < o) /\ ~ (o <= off(k)) /\ eof(k) <= o + n =>
             res = [segs EXCEPT ![k].length = (o + n) - off(k)]
        /\ ~ (o + n < off(k)) /\ ~ (eof(k) < o) /\ ~ (o <= off(k)) /\ ~ (eof(k) <= o + n) =>
             res = segs
    <3>1. o + n < off(k) => res = InsertAt(segs, k, new)
      BY <2>1, Zenon DEF AddAt, off, eof, new
    <3>2. ~ (o + n < off(k)) /\ eof(k) < o => res = InsertAt(segs, k + 1, new)
      BY <2>1, Zenon DEF AddAt, off, eof, new
    <3>3. ~ (o + n < off(k)) /\ ~ (eof(k) < o) /\ o <= off(k) =>
             res = MergeAtHead(Wrap(b), segs, k, o, o + n)
      BY <2>1, Zenon DEF AddAt, off, eof, new
    <3>4. ~ (o + n < off(k)) /\ ~ (eof(k) < o) /\ ~ (o <= off(k)) /\ eof(k) <= o + n =>
             res = [segs EXCEPT ![k].length = (o + n) - off(k)]
      BY <2>1, Zenon DEF AddAt, off, eof, new
    <3>5. ~ (o + n < off(k)) /\ ~ (eof(k) < o) /\ ~ (o <= off(k)) /\ ~ (eof(k) <= o + n) =>
             res = segs
      BY <2>1, Zenon DEF AddAt, off, eof, new
    <3>. QED
      BY <3>1, <3>2, <3>3, <3>4, <3>5
  <2>6. ASSUME NEW i \in 0..L, NEW j \in (i + 1)..(L + 1),
               NEW so \in Places, NEW len \in Nat \ {0}, NEW f, NEW l,
               f = b + so + 1, l = b + so + len, so > 0,
               res = Splice(segs, i, j, Segment(Wrap(b), so, len)),
               \A x \in Nat : x \in f..l <=>
                 x \in p..q \/ \E m \in (i + 1)..(j - 1) : x \in lo(m)..hi(m),
               \A m \in 1..i : hi(m) + 1 < f,
               \A m \in j..L : l + 1 < lo(m)
        PROVE  /\ res \in Seq(Segments) /\ Spliced(segs, i, j, res)
               /\ StandsFor(b, segs, i, j, res[i + 1], p, q)
    <3> DEFINE s == Segment(Wrap(b), so, len)
    <3>1. s \in Segments /\ From(b, s) = f /\ To(b, s) = l
      BY <2>6, SegmentAt
    <3> HIDE DEF s
    <3>2. res = Splice(segs, i, j, s)
      BY <2>6 DEF s
    <3>3. res \in Seq(Segments) /\ res[i + 1] = s /\ Spliced(segs, i, j, res)
      BY <3>1, <3>2, SpliceElements DEF L
    <3>4. From(b, s) > b + 1
      BY <3>1, <2>6 DEF Places
    <3>5. StandsFor(b, segs, i, j, s, p, q)
      BY <3>1, <3>4, <2>6, Zenon DEF StandsFor, L, lo, hi
    <3>. QED
      BY <3>3, <3>5
  <2>7. CASE k \in later
    <3>1. off(k) > o /\ lo(k) > p
      BY <2>3, <2>4, <2>7, <1>6, <1>11 DEF p
    <3>2. ASSUME NEW m \in 1..L, m < k PROVE lo(m) <= p
      <4>1. m \notin later
        BY <3>2, <2>2, <2>3
      <4>2. off(m) <= o /\ off(m) = lo(m) - b - 1 /\ lo(m) \in Nat
        <5>1. ~ (off(m) > o) /\ off(m) = lo(m) - b - 1 /\ lo(m) \in Nat
          BY <4>1, <1>3, <1>11
        <5>. QED
          BY <5>1
      <4>. QED
        BY <4>2 DEF p
    <3>3. ASSUME NEW m \in 1..L, m > k PROVE hi(k) + 1 < lo(m)
      BY <3>3, <2>3, <1>4
    <3>4. /\ k > 1 => (hi(k - 1) >= p - 1 <=> lo(k) <= q + 1)
          /\ q > hi(k) => \A m \in (k + 1)..L : hi(m) < q \/ lo(m) > q + 1
      <4>1. \A m \in 1..(k - 1) : lo(m) <= p
        BY <3>2, <2>1, <2>3
      <4>. QED
        BY <4>1, <3>1, <2>3, <1>8
    <3>5. CASE lo(k) > q + 1
      <4>1. o + n < off(k)
        BY <3>5, <2>4, <1>6 DEF q
      <4>2. res = Splice(segs, k - 1, k, new)
        BY <4>1, <2>5 DEF InsertAt, Splice
      <4>3. k - 1 \in 0..L /\ k \in (k - 1 + 1)..(L + 1) /\ (k - 1 + 1)..(k - 1) = {}
        BY <2>1, <2>3
      <4>4. ASSUME NEW m \in 1..(k - 1) PROVE hi(m) + 1 < p
        <5>1. k > 1 /\ k - 1 \in 1..L /\ m \in 1..L /\ (m = k - 1 \/ m < k - 1)
          BY <2>1, <2>3
        <5>2. hi(k - 1) \in Nat /\ hi(m) \in Nat /\ ~ (hi(k - 1) >= p - 1)
          <6>1. ~ (lo(k) <= q + 1)
            BY <3>5, <2>4, <1>6
          <6>2. ~ (hi(k - 1) >= p - 1)
            BY <6>1, <5>1, <3>4
          <6>. QED
            BY <6>2, <5>1, <1>3
        <5>3. hi(k - 1) + 1 < p
          BY <5>2, <1>6
        <5>4. CASE m < k - 1
          <6>1. hi(m) + 1 < lo(k - 1) /\ lo(k - 1) \in Nat /\ lo(k - 1) <= hi(k - 1)
            BY <5>1, <5>4, <1>3, <1>4
          <6>. QED
            BY <6>1, <5>2, <5>3, <1>6
        <5>. QED
          BY <5>1, <5>3, <5>4
      <4>5. ASSUME NEW m \in k..L PROVE q + 1 < lo(m)
        <5>1. m \in 1..L /\ (m = k \/ m > k)
          BY <2>1, <2>3
        <5>2. lo(m) \in Nat
          BY <5>1, <1>3
        <5>3. CASE m = k
          BY <5>3, <3>5, Zenon
        <5>4. CASE m > k
          BY <5>1, <5>2, <5>4, <3>3, <3>5, <2>4, <1>6
        <5>. QED
          BY <5>1, <5>3, <5>4
      <4>6. /\ p = b + o + 1 /\ q = b + o + n /\ o > 0
            /\ res = Splice(segs, k - 1, k, Segment(Wrap(b), o, n))
        BY <4>2 DEF p, q, new
      <4>7. \A x \in Nat : x \in p..q <=>
              x \in p..q \/ \E m \in (k - 1 + 1)..(k - 1) : x \in lo(m)..hi(m)
        BY <4>3
      <4>. QED
        BY <4>3, <4>4, <4>5, <4>6, <4>7, <2>6, <1>6
    <3>6. CASE lo(k) <= q + 1
      \* The new bytes are merged from segment k - 1, or from p, up to c.
      <4> DEFINE i == IF k > 1 THEN k - 2 ELSE 0
                 so == IF k > 1 THEN off(k - 1) ELSE o
                 f == IF k > 1 THEN lo(k - 1) ELSE p
                 l == IF q > hi(k) THEN q ELSE hi(k)
      <4>0. /\ k > 1 => i = k - 2 /\ so = off(k - 1) /\ f = lo(k - 1)
            /\ ~ (k > 1) => i = 0 /\ so = o /\ f = p
            /\ q > hi(k) => l = q
            /\ ~ (q > hi(k)) => l = hi(k)
        OBVIOUS
      <4> HIDE DEF i, so, f, l
      <4>1. ~ (o + n < off(k)) /\ ~ (eof(k) < o) /\ o <= off(k)
        BY <3>1, <3>6, <2>4, <1>6 DEF p, q
      <4>2. res = MergeAtHead(Wrap(b), segs, k, o, o + n)
        BY <4>1, <2>5
      <4>3. k > 1 => /\ k - 1 \in 1..L /\ lo(k - 1) \in Nat /\ hi(k - 1) \in Nat
                     /\ lo(k - 1) <= p /\ hi(k - 1) >= p - 1 /\ b + 1 < lo(k - 1)
                     /\ off(k - 1) = lo(k - 1) - b - 1 /\ eof(k - 1) = hi(k - 1) - b
                     /\ lo(k - 1) <= hi(k - 1) /\ hi(k - 1) + 1 < lo(k)
        <5> SUFFICES ASSUME k > 1
                     PROVE /\ k - 1 \in 1..L /\ lo(k - 1) \in Nat /\ hi(k - 1) \in Nat
                     /\ lo(k - 1) <= p /\ hi(k - 1) >= p - 1 /\ b + 1 < lo(k - 1)
                     /\ off(k - 1) = lo(k - 1) - b - 1 /\ eof(k - 1) = hi(k - 1) - b
                     /\ lo(k - 1) <= hi(k - 1) /\ hi(k - 1) + 1 < lo(k)
          OBVIOUS
        <5>1. k - 1 \in 1..L /\ k - 1 < k
          BY <2>1, <2>3
        <5>. QED
          BY <5>1, <3>2, <3>4, <3>6, <2>3, <1>3, <1>4
      <4>4. /\ i \in 0..L /\ so \in Nat /\ so > 0 /\ f \in Nat /\ f <= p /\ f = b + so + 1
            /\ i <= k - 1 /\ f < b + NItems
        <5>1. CASE k > 1
          <6>1. i = k - 2 /\ so = off(k - 1) /\ f = lo(k - 1)
            BY <5>1, <4>0
          <6>2. i \in 0..L /\ i <= k - 1
            BY <6>1, <5>1, <2>1, <2>3
          <6>3. f \in Nat /\ f <= p /\ b + 1 < f /\ so = f - b - 1
            BY <6>1, <5>1, <4>3, Zenon
          <6>. QED
            BY <6>2, <6>3, <1>6
        <5>2. CASE ~ (k > 1)
          BY <5>2, <4>0, <2>1, <2>3, <2>4, <1>6 DEF p
        <5>. QED
          BY <5>1, <5>2
      <4>5. l \in Nat /\ q <= l /\ hi(k) <= l /\ l < b + NItems /\ f <= l
        <5>1. CASE q > hi(k)
          BY <5>1, <4>0, <4>4, <2>4, <1>6
        <5>2. CASE ~ (q > hi(k))
          BY <5>2, <4>0, <4>4, <2>4, <1>6
        <5>. QED
          BY <5>1, <5>2
      <4>6. PICK len \in Nat \ {0} : l = b + so + len
        <5>1. l - b - so \in Nat \ {0} /\ l = b + so + (l - b - so)
          BY <4>4, <4>5
        <5>. QED
          BY <5>1
      <4>7. so \in Places /\ len <= NItems
        BY <4>4, <4>5, <4>6, <1>6 DEF Places
      <4>8. ASSUME NEW m \in 1..i PROVE hi(m) + 1 < f
        <5>1. k > 1 /\ m \in 1..L /\ k - 1 \in 1..L /\ m < k - 1
          BY <4>0, <4>4, <2>1, <2>3
        <5>2. hi(m) + 1 < lo(k - 1)
          BY <5>1, <1>4
        <5>. QED
          BY <5>1, <5>2, <4>0
      <4>9. \E c \in (k + 1)..(L + 1) :
              /\ \A m \in (k + 1)..(c - 1) : hi(m) < l /\ hi(m) < q
              /\ \A m \in c..L : l + 1 < lo(m)
              /\ q > hi(k) \/ c = k + 1
        <5>1. CASE q > hi(k)
          <6> DEFINE S == {m \in (k + 1)..L : lo(m) > q + 1} \cup {L + 1}
          <6>1. S \in SUBSET Nat /\ S # {} /\ S \in SUBSET ((k + 1)..(L + 1))
            BY <2>1, <2>3
          <6>2. PICK c \in S : \A x \in S : c <= x
            <7> HIDE DEF S
            <7>. QED
              BY <6>1, Least
          <6>3. c \in (k + 1)..(L + 1)
            BY <6>1, <6>2
          <6>4. ASSUME NEW m \in (k + 1)..(c - 1) PROVE hi(m) < l /\ hi(m) < q
            <7>1. m \in (k + 1)..L /\ m \in 1..L /\ m < c
              BY <6>3, <2>1, <2>3
            <7>2. m \notin S
              BY <7>1, <6>2
            <7>3. ~ (lo(m) > q + 1)
              BY <7>1, <7>2
            <7>4. hi(m) < q
              BY <7>1, <7>3, <5>1, <3>4
            <7>. QED
              BY <7>4, <5>1, <4>0
          <6>5. ASSUME NEW m \in c..L PROVE l + 1 < lo(m)
            <7>1. c \in (k + 1)..L /\ m \in 1..L /\ (m = c \/ c < m) /\ c \in 1..L /\ c # L + 1
              BY <6>3, <2>1, <2>3
            <7>2. lo(c) > q + 1
              BY <7>1, <6>2
            <7>3. lo(m) \in Nat /\ lo(c) \in Nat /\ hi(c) \in Nat /\ lo(c) <= hi(c)
              BY <7>1, <1>3
            <7>4. lo(m) > q + 1
              <8>1. CASE m = c
                BY <8>1, <7>2, Zenon
              <8>2. CASE c < m
                <9>1. hi(c) + 1 < lo(m)
                  BY <8>2, <7>1, <1>4
                <9>. QED
                  BY <9>1, <7>2, <7>3, <1>6
              <8>. QED
                BY <7>1, <8>1, <8>2
            <7>. QED
              BY <7>3, <7>4, <5>1, <4>0, <1>6
          <6>. QED
            BY <6>3, <6>4, <6>5, <5>1
        <5>2. CASE ~ (q > hi(k))
          <6>1. k + 1 \in (k + 1)..(L + 1) /\ (k + 1)..((k + 1) - 1) = {}
            BY <2>1, <2>3
          <6>2. ASSUME NEW m \in (k + 1)..L PROVE l + 1 < lo(m)
            <7>1. m \in 1..L /\ m > k
              BY <2>1, <2>3
            <7>2. hi(k) + 1 < lo(m) /\ l = hi(k)
              BY <7>1, <5>2, <4>0, <3>3
            <7>. QED
              BY <7>2
          <6>. QED
            BY <6>1, <6>2
        <5>. QED
          BY <5>1, <5>2
      <4>10. PICK c \in (k + 1)..(L + 1) :
              /\ \A m \in (k + 1)..(c - 1) : hi(m) < l /\ hi(m) < q
              /\ \A m \in c..L : l + 1 < lo(m)
              /\ q > hi(k) \/ c = k + 1
        BY <4>9
      <4>11. c \in (i + 1)..(L + 1) /\ c \in Nat /\ i \in Nat
        BY <4>4, <2>1, <2>3
      <4>12. res = Splice(segs, i, c, Segment(Wrap(b), so, len))
        <5>1. CASE q > hi(k)
          <6>1. (o + n) - so = len
            BY <5>1, <4>0, <4>4, <4>6, <1>6 DEF q
          <6>2. eof(k) < o + n
            BY <5>1, <2>4, <1>6 DEF q
          <6>3. ASSUME NEW m \in (k + 1)..(c - 1) PROVE eof(m) < o + n
            <7>1. m \in 1..L
              BY <4>11, <2>1, <2>3
            <7>2. hi(m) < q /\ hi(m) \in Nat /\ eof(m) = hi(m) - b
              BY <7>1, <4>10, <1>3
            <7>. QED
              BY <7>2, <1>6 DEF q
          <6>4. ASSUME c <= L PROVE ~ (eof(c) < o + n) /\ ~ (off(c) < o + n)
            <7>1. c \in c..L /\ c \in 1..L
              BY <6>4, <4>11, <2>1, <2>3
            <7>2. /\ l + 1 < lo(c) /\ lo(c) \in Nat /\ hi(c) \in Nat /\ lo(c) <= hi(c)
                  /\ off(c) = lo(c) - b - 1 /\ eof(c) = hi(c) - b
              BY <7>1, <4>10, <1>3
            <7>. QED
              BY <7>2, <4>5, <1>6 DEF q
          <6>5. \/ /\ k > 1 /\ eof(k - 1) >= o /\ i = k - 2 /\ so = off(k - 1)
                \/ ~ (k > 1) /\ i = k - 1 /\ so = o
            <7>1. CASE k > 1
              BY <7>1, <4>0, <4>3, <1>6 DEF p
            <7>2. CASE ~ (k > 1)
              BY <7>2, <4>0, <2>1, <2>3
            <7>. QED
              BY <7>1, <7>2
          <6>6. MergeAtHead(Wrap(b), segs, k, o, o + n) =
                  Splice(segs, i, c, Segment(Wrap(b), so, (o + n) - so))
            <7>1. /\ ooo_segment_end_offset(Wrap(b), segs[k]) < o + n
                  /\ \A m \in (k + 1)..(c - 1) :
                       ooo_segment_end_offset(Wrap(b), segs[m]) < o + n
                  /\ c <= Len(segs) =>
                       /\ ~ (ooo_segment_end_offset(Wrap(b), segs[c]) < o + n)
                       /\ ~ (ooo_segment_offset(Wrap(b), segs[c]) < o + n)
              BY <6>2, <6>3, <6>4, Zenon DEF eof, off, L
            <7>2. \/ /\ k > 1 /\ ooo_segment_end_offset(Wrap(b), segs[k - 1]) >= o
                     /\ i = k - 2 /\ so = ooo_segment_offset(Wrap(b), segs[k - 1])
                  \/ ~ (k > 1) /\ i = k - 1 /\ so = o
              BY <6>5, Zenon DEF eof, off
            <7>3. k \in 1..Len(segs) /\ c \in (k + 1)..(Len(segs) + 1)
              BY <2>3 DEF L
            <7>. QED
              BY <7>1, <7>2, <7>3, MergeCovered
          <6>. QED
            BY <6>1, <6>6, <4>2
        <5>2. CASE ~ (q > hi(k))
          <6>1. (eof(k) - so) % Word = len /\ c = k + 1
            <7>1. eof(k) - so = len
              BY <5>2, <4>0, <4>4, <4>6, <2>4
            <7>2. len % Word = len
              BY <4>7, WordExact
            <7>. QED
              BY <7>1, <7>2, <5>2, <4>10
          <6>2. ~ (eof(k) < o + n)
            BY <5>2, <2>4, <1>6 DEF q
          <6>3. CASE k > 1
            <7>1. eof(k - 1) >= o /\ i = k - 2 /\ so = off(k - 1)
              BY <6>3, <4>0, <4>3, <1>6 DEF p
            <7>2. MergeAtHead(Wrap(b), segs, k, o, o + n) =
                    Splice(segs, k - 2, k + 1,
                           Segment(Wrap(b), off(k - 1), (eof(k) - off(k - 1)) % Word))
              BY <7>1, <6>2, <6>3, MergeJoined DEF eof, off
            <7>. QED
              BY <7>1, <7>2, <6>1, <4>2
          <6>4. CASE ~ (k > 1)
            <7>1. k = 1 /\ k - 1 = 0 /\ i = 0 /\ so = o
              BY <6>4, <4>0, <2>1, <2>3
            <7>2. MergeAtHead(Wrap(b), segs, k, o, o + n) =
                    Splice(segs, k - 1, k + 1, Segment(Wrap(b), o, (eof(k) - o) % Word))
              BY <7>1, <6>2, <6>4, MergeFirst DEF eof
            <7>. QED
              BY <7>1, <7>2, <6>1, <4>2
          <6>. QED
            BY <6>3, <6>4
        <5>. QED
          BY <5>1, <5>2
      <4>13. ASSUME NEW x \in Nat
             PROVE  x \in f..l <=>
                      x \in p..q \/ \E m \in (i + 1)..(c - 1) : x \in lo(m)..hi(m)
        <5>1. ASSUME x \in f..l, ~ (x \in p..q)
              PROVE  \E m \in (i + 1)..(c - 1) : x \in lo(m)..hi(m)
          <6>1. CASE x < p
            <7>1. k > 1
              BY <6>1, <5>1, <4>0, <1>6
            <7>2. x \in lo(k - 1)..hi(k - 1)
              BY <7>1, <6>1, <5>1, <4>0, <4>3, <1>6
            <7>3. k - 1 \in (i + 1)..(c - 1)
              BY <7>1, <4>0, <4>11, <2>1, <2>3
            <7>. QED
              BY <7>2, <7>3
          <6>2. CASE x > q
            <7>1. l = hi(k) /\ x \in lo(k)..hi(k)
              BY <6>2, <5>1, <4>0, <4>4, <3>6, <2>4, <1>6
            <7>2. k \in (i + 1)..(c - 1)
              BY <4>4, <4>11, <2>1, <2>3
            <7>. QED
              BY <7>1, <7>2
          <6>. QED
            BY <6>1, <6>2, <5>1, <1>6
        <5>2. ASSUME NEW m \in (i + 1)..(c - 1), x \in lo(m)..hi(m) PROVE x \in f..l
          <6>1. m \in 1..L /\ (m = k - 1 \/ m = k \/ m \in (k + 1)..(c - 1)) /\ (m = k - 1 => k > 1)
            <7>1. CASE k > 1
              BY <7>1, <4>0, <4>11, <2>1, <2>3
            <7>2. CASE ~ (k > 1)
              BY <7>2, <4>0, <4>11, <2>1, <2>3
            <7>. QED
              BY <7>1, <7>2
          <6>2. lo(m) \in Nat /\ hi(m) \in Nat /\ lo(m) <= x /\ x <= hi(m)
            BY <6>1, <5>2, <1>3
          <6>3. CASE m = k - 1
            <7>1. k > 1 /\ f = lo(m) /\ hi(m) + 1 < lo(k)
              BY <6>1, <6>3, <4>0, <4>3
            <7>. QED
              BY <7>1, <6>2, <4>4, <4>5, <2>4
          <6>4. CASE m = k
            <7>1. lo(m) = lo(k) /\ hi(m) = hi(k)
              BY <6>4
            <7>. QED
              BY <7>1, <6>2, <4>4, <4>5, <3>1, <2>4, <1>6
          <6>5. CASE m \in (k + 1)..(c - 1)
            <7>1. m > k /\ hi(m) < l
              BY <6>5, <4>10, <2>1, <2>3
            <7>2. hi(k) + 1 < lo(m)
              BY <7>1, <6>1, <3>3
            <7>. QED
              <8>1. x <= l
                BY <7>1, <6>2, <4>5
              <8>2. f <= p /\ p < lo(k) /\ lo(k) <= hi(k) /\ lo(k) \in Nat /\ hi(k) \in Nat
                    /\ p \in Nat /\ f \in Nat
                BY <4>4, <3>1, <2>4, <1>6
              <8>3. f <= x
                BY <8>2, <7>2, <6>2
              <8>. QED
                BY <8>1, <8>2, <8>3, <6>2, <4>5
          <6>. QED
            BY <6>1, <6>3, <6>4, <6>5
        <5>3. x \in p..q => x \in f..l
          BY <4>4, <4>5, <1>6
        <5>. QED
          BY <5>1, <5>2, <5>3
      <4>. QED
        BY <4>4, <4>6, <4>7, <4>8, <4>10, <4>11, <4>12, <4>13, <2>6
    <3>. QED
      BY <3>5, <3>6, <2>4, <1>6
  <2>8. CASE k \notin later
    <3>1. k = L /\ \A m \in 1..L : m \notin later
      BY <2>2, <2>3, <2>7, <2>8, <1>12
    <3>2. lo(k) <= p
      <4>1. ~ (off(k) > o)
        BY <3>1, <2>3, <1>11
      <4>. QED
        BY <4>1, <2>4, <1>6 DEF p
    <3>3. ASSUME NEW m \in 1..(k - 1) PROVE hi(m) + 1 < lo(k)
      BY <2>1, <2>3, <1>4
    <3>4. CASE hi(k) < p - 1
      <4>1. ~ (o + n < off(k)) /\ eof(k) < o
        BY <3>4, <2>4, <1>6 DEF p
      <4>2. (k + 1) - 1 = k /\ k \in 0..L /\ k + 1 \in (k + 1)..(L + 1)
            /\ (k + 1)..((k + 1) - 1) = {} /\ (k + 1)..L = {}
        BY <3>1, <2>1, <2>3
      <4>3. res = Splice(segs, k, k + 1, new)
        <5>1. res = InsertAt(segs, k + 1, new)
          BY <4>1, <2>5
        <5>. QED
          BY <5>1, <4>2, Zenon DEF InsertAt, Splice
      <4>4. ASSUME NEW m \in 1..k PROVE hi(m) + 1 < p
        <5>1. CASE m = k
          BY <5>1, <3>4, <2>4, <1>6
        <5>2. CASE m # k
          <6>1. m \in 1..L /\ hi(m) + 1 < lo(k)
            BY <5>2, <3>3, <2>1, <2>3
          <6>2. hi(m) \in Nat
            BY <6>1, <1>3
          <6>. QED
            BY <6>1, <6>2, <3>4, <2>4, <1>6
        <5>. QED
          BY <5>1, <5>2
      <4>5. /\ p = b + o + 1 /\ q = b + o + n /\ o > 0
            /\ res = Splice(segs, k, k + 1, Segment(Wrap(b), o, n))
        BY <4>3 DEF p, q, new
      <4>6. /\ \A x \in Nat : x \in p..q <=>
                 x \in p..q \/ \E m \in (k + 1)..((k + 1) - 1) : x \in lo(m)..hi(m)
            /\ \A m \in (k + 1)..L : q + 1 < lo(m)
        BY <4>2
      <4>. QED
        BY <4>2, <4>4, <4>5, <4>6, <2>6, <1>6
    <3>5. CASE ~ (hi(k) < p - 1)
      \* The new bytes are merged with the last segment.
      <4> DEFINE l == IF q > hi(k) THEN q ELSE hi(k)
                 len == l - b - off(k)
      <4>0. (q > hi(k) => l = q) /\ (~ (q > hi(k)) => l = hi(k))
        OBVIOUS
      <4> HIDE DEF l
      <4>1. /\ k - 1 \in 0..L /\ k + 1 \in (k - 1 + 1)..(L + 1) /\ k - 1 + 1 = k
            /\ (k + 1) - 1 = k /\ (k + 1)..L = {} /\ ~ (o + n < off(k)) /\ ~ (eof(k) < o)
        <5>1. /\ k - 1 \in 0..L /\ k + 1 \in (k - 1 + 1)..(L + 1) /\ k - 1 + 1 = k
              /\ (k + 1) - 1 = k /\ (k + 1)..L = {}
          BY <3>1, <2>1, <2>3
        <5>2. ~ (o + n < off(k)) /\ ~ (eof(k) < o)
          BY <3>2, <3>5, <2>4, <1>6 DEF p, q
        <5>. QED
          BY <5>1, <5>2
      <4>2. /\ off(k) \in Places /\ off(k) > 0 /\ lo(k) = b + off(k) + 1
            /\ l \in Nat /\ q <= l /\ hi(k) <= l /\ l < b + NItems
            /\ len \in Nat \ {0} /\ len <= NItems /\ l = b + off(k) + len
        <5>1. off(k) \in Places /\ off(k) > 0 /\ lo(k) = b + off(k) + 1
          BY <2>4, <1>6 DEF Places
        <5>2. l \in Nat /\ q <= l /\ hi(k) <= l /\ l < b + NItems
          <6>1. CASE q > hi(k)
            BY <6>1, <4>0, <2>4, <1>6
          <6>2. CASE ~ (q > hi(k))
            BY <6>2, <4>0, <2>4, <1>6
          <6>. QED
            BY <6>1, <6>2
        <5>3. len \in Nat \ {0} /\ len <= NItems /\ l = b + off(k) + len
          <6>1. \A y, z \in Nat : b + y + 1 <= z /\ z < b + NItems =>
                  z - b - y \in Nat \ {0} /\ z - b - y <= NItems /\ z = b + y + (z - b - y)
            BY <1>6
          <6>2. off(k) \in Nat
            BY <5>1 DEF Places
          <6>3. b + off(k) + 1 <= l
            BY <6>2, <5>1, <5>2, <2>4
          <6> HIDE DEF off
          <6>. QED
            BY <6>1, <6>2, <6>3, <5>2
        <5>. QED
          BY <5>1, <5>2, <5>3
      <4> HIDE DEF len
      <4>3. ASSUME NEW x \in Nat
            PROVE  x \in lo(k)..l <=>
                     x \in p..q \/ \E m \in (k - 1 + 1)..((k + 1) - 1) : x \in lo(m)..hi(m)
        <5>1. \A m : m \in (k - 1 + 1)..((k + 1) - 1) <=> m = k
          BY <4>1, <2>1, <2>3
        <5>2. x \in lo(k)..l <=> x \in p..q \/ x \in lo(k)..hi(k)
          <6>0. lo(k) \in Nat /\ hi(k) \in Nat /\ p \in Nat /\ q \in Nat
            BY <2>4, <1>6
          <6>1. CASE q > hi(k)
            BY <6>0, <6>1, <4>0, <3>2, <3>5, <2>4, <1>6
          <6>2. CASE ~ (q > hi(k))
            BY <6>0, <6>2, <4>0, <3>2, <2>4, <1>6
          <6>. QED
            BY <6>1, <6>2
        <5>. QED
          BY <5>1, <5>2, Zenon
      <4>4. CASE lo(k) = p
        <5>1. o <= off(k) /\ off(k) = o
          BY <4>4, <2>4, <1>6 DEF p
        <5>2. res = MergeAtHead(Wrap(b), segs, k, o, o + n)
          BY <5>1, <4>1, <2>5
        <5>3. k > 1 => ~ (eof(k - 1) >= o)
          <6> SUFFICES ASSUME k > 1 PROVE ~ (eof(k - 1) >= o)
            OBVIOUS
          <6>1. k - 1 \in 1..(k - 1) /\ k - 1 \in 1..L
            BY <2>1, <2>3
          <6>2. hi(k - 1) + 1 < lo(k) /\ hi(k - 1) \in Nat /\ eof(k - 1) = hi(k - 1) - b
            BY <6>1, <3>3, <1>3
          <6>. QED
            BY <6>2, <4>4, <1>6 DEF p
        <5>4. res = Splice(segs, k - 1, k + 1, Segment(Wrap(b), off(k), len))
          <6>1. CASE q > hi(k)
            <7>1. eof(k) < o + n /\ (o + n) - off(k) = len
              <8>1. eof(k) < o + n
                BY <6>1, <2>4, <1>6 DEF q
              <8>2. off(k) \in Nat /\ len \in Nat /\ b + o + n = b + off(k) + len
                <9>1. l = b + o + n
                  BY <6>1, <4>0 DEF q
                <9>. QED
                  BY <9>1, <4>2 DEF Places
              <8>3. \A u \in Nat : b + o + n = b + u + len => (o + n) - u = len
                BY <8>2
              <8>. QED
                BY <8>1, <8>2, <8>3
            <7>2. \/ /\ k > 1 /\ ~ (ooo_segment_end_offset(Wrap(b), segs[k - 1]) >= o)
                     /\ off(k) = ooo_segment_offset(Wrap(b), segs[k])
                  \/ ~ (k > 1) /\ off(k) = o
              BY <5>1, <5>3 DEF eof, off
            <7>3. k \in 1..Len(segs) /\ k + 1 \in (k + 1)..(Len(segs) + 1)
                  /\ ~ (k + 1 <= Len(segs)) /\ (k + 1)..((k + 1) - 1) = {}
              BY <3>1, <2>1, <2>3 DEF L
            <7>4. /\ ooo_segment_end_offset(Wrap(b), segs[k]) < o + n
                  /\ \A m \in (k + 1)..((k + 1) - 1) :
                       ooo_segment_end_offset(Wrap(b), segs[m]) < o + n
              BY <7>1, <7>3, Zenon DEF eof
            <7>5. MergeAtHead(Wrap(b), segs, k, o, o + n) =
                    Splice(segs, k - 1, k + 1, Segment(Wrap(b), off(k), (o + n) - off(k)))
              BY <7>2, <7>3, <7>4, MergeCovered
            <7>. QED
              BY <7>1, <7>5, <5>2
          <6>2. CASE ~ (q > hi(k))
            <7>1. ~ (eof(k) < o + n) /\ eof(k) - o = len
              BY <6>2, <5>1, <4>0, <4>2, <2>4, <1>6 DEF q
            <7>2. CASE k > 1
              <8>1. segs[k].length = len
                <9>1. segs[k] \in Segments
                  BY <2>3, <1>2
                <9>2. hi(k) = lo(k) + segs[k].length - 1 /\ segs[k].length \in Nat
                  BY <9>1, Offset DEF lo, hi
                <9>3. PICK sl \in Nat : sl = segs[k].length
                  BY <9>2
                <9>. QED
                  <10>1. l = hi(k)
                    BY <6>2, <4>0
                  <10>2. off(k) \in Nat /\ len \in Nat /\ b + off(k) + 1 + sl - 1 = b + off(k) + len
                    BY <10>1, <9>2, <9>3, <4>2 DEF Places
                  <10>3. \A u \in Nat : b + u + 1 + sl - 1 = b + u + len => sl = len
                    BY <10>2
                  <10>. QED
                    BY <10>2, <10>3, <9>3
              <8>2. k > 1 /\ ~ (k = 1)
                BY <7>2, <2>3
              <8>3. MergeAtHead(Wrap(b), segs, k, o, o + n) =
                      Splice(segs, k - 1, k + 1, Segment(Wrap(b), off(k), segs[k].length))
                BY <7>1, <8>2, <5>3, MergeApart DEF eof, off
              <8>. QED
                BY <8>1, <8>3, <5>2
            <7>3. CASE ~ (k > 1)
              <8>1. k = 1 /\ (eof(k) - o) % Word = len
                BY <7>1, <7>3, <4>2, <2>1, <2>3, WordExact
              <8>2. MergeAtHead(Wrap(b), segs, k, o, o + n) =
                      Splice(segs, k - 1, k + 1, Segment(Wrap(b), o, (eof(k) - o) % Word))
                BY <8>1, <7>1, <7>3, MergeFirst DEF eof
              <8>. QED
                BY <8>1, <8>2, <5>1, <5>2
            <7>. QED
              BY <7>2, <7>3
          <6>. QED
            BY <6>1, <6>2
        <5>5. \A m \in (k + 1)..L : l + 1 < lo(m)
          BY <4>1
        <5>. QED
          <6>1. /\ res \in Seq(Segments) /\ Spliced(segs, k - 1, k + 1, res)
                /\ StandsFor(b, segs, k - 1, k + 1, res[k - 1 + 1], p, q)
            BY <5>4, <5>5, <4>1, <4>2, <4>3, <3>3, <2>6, Zenon
          <6>. QED
            BY <6>1, <4>1, Zenon
      <4>5. CASE lo(k) # p
        <5> DEFINE s == [segs[k] EXCEPT !.length = len]
        <5>1. ~ (o <= off(k))
          BY <4>5, <3>2, <2>4, <1>6 DEF p
        <5>2. segs[k] \in Segments /\ segs[k].fifo_position = Wrap(b + off(k))
          BY <2>3, <1>2, Offset DEF off
        <5>3. res = [segs EXCEPT ![k] = s]
          <6>1. CASE eof(k) <= o + n
            <7>1. (o + n) - off(k) = len
              <8>1. q >= hi(k)
                BY <6>1, <2>4, <1>6 DEF q
              <8>2. l = q
                BY <8>1, <4>0, <2>4, <1>6
              <8>3. off(k) \in Nat /\ len \in Nat /\ b + o + n = b + off(k) + len
                BY <8>2, <4>2 DEF q, Places
              <8>4. \A u \in Nat : b + o + n = b + u + len => (o + n) - u = len
                BY <8>3, <1>6
              <8>. QED
                BY <8>3, <8>4
            <7>2. res = [segs EXCEPT ![k].length = (o + n) - off(k)]
              BY <6>1, <5>1, <4>1, <2>5
            <7>. QED
              BY <7>1, <7>2
          <6>2. CASE ~ (eof(k) <= o + n)
            <7>1. res = segs
              BY <6>2, <5>1, <4>1, <2>5
            <7>2. l = hi(k)
              BY <6>2, <4>0, <2>4, <1>6 DEF q
            <7>3. segs[k].length = len
              <8>1. hi(k) = lo(k) + segs[k].length - 1 /\ segs[k].length \in Nat
                BY <5>2, Offset DEF lo, hi
              <8>2. PICK sl \in Nat : sl = segs[k].length
                BY <8>1
              <8>. QED
                <9>1. off(k) \in Nat /\ len \in Nat /\ b + off(k) + 1 + sl - 1 = b + off(k) + len
                  BY <8>1, <8>2, <7>2, <4>2 DEF Places
                <9>2. \A u \in Nat : b + u + 1 + sl - 1 = b + u + len => sl = len
                  BY <9>1
                <9>. QED
                  BY <9>1, <9>2, <8>2
            <7>4. s = segs[k]
              BY <7>3, <5>2 DEF Segments
            <7> HIDE DEF s
            <7>. QED
              BY <7>1, <7>4, <2>3, <1>2
          <6>. QED
            BY <6>1, <6>2
        <5>4. s \in Segments /\ s.fifo_position = Wrap(b + off(k)) /\ s.length = len
          BY <5>2, <4>2 DEF Segments
        <5> HIDE DEF s
        <5>5. /\ res \in Seq(Segments) /\ Len(res) = L /\ res[k] = s
              /\ \A m \in 1..L : m # k => res[m] = segs[m]
          BY <5>3, <5>4, <2>3 DEF L
        <5>6. From(b, s) = lo(k) /\ To(b, s) = l
          BY <5>4, <4>2, BeginsAt
        <5>7. Spliced(segs, k - 1, k + 1, res)
          <6>1. Len(res) = Len(segs) + (k - 1) + 2 - (k + 1)
            BY <5>5, <2>1, <2>3 DEF L
          <6>2. \A m \in 1..(k - 1) : res[m] = segs[m]
            BY <5>5, <2>1, <2>3
          <6>3. ASSUME NEW m \in (k - 1 + 2)..Len(res)
                PROVE  res[m] = segs[m + (k + 1) - (k - 1) - 2]
            <7>1. m + (k + 1) - (k - 1) - 2 = m /\ m \in 1..L /\ m # k
              BY <5>5, <2>1, <2>3
            <7>. QED
              BY <7>1, <5>5
          <6>. QED
            BY <6>1, <6>2, <6>3 DEF Spliced
        <5>8. StandsFor(b, segs, k - 1, k + 1, s, p, q)
          <6>1. From(b, s) > b + 1
            BY <5>6, <2>4
          <6>2. \A m \in 1..(k - 1) : hi(m) + 1 < From(b, s)
            BY <5>6, <3>3
          <6>3. \A m \in (k + 1)..L : To(b, s) + 1 < lo(m)
            BY <4>1
          <6>. QED
            BY <6>1, <6>2, <6>3, <5>6, <4>3, Zenon DEF StandsFor, L, lo, hi
        <5>. QED
          BY <5>5, <5>7, <5>8, <4>1
      <4>. QED
        BY <4>4, <4>5
    <3>. QED
      BY <3>4, <3>5
  <2>. QED
    BY <2>7, <2>8
<1>. QED
  BY <1>13, <1>14

-----------------------------------------------------------------------------
(***************************************************************************)
(* ooo_segment_try_collect                                                 *)
(***************************************************************************)

\* A turn of the ring leads to the same place.
LEMMA WrapTurn ==
  ASSUME NEW a \in Nat
  PROVE  Wrap(a + NItems) = Wrap(a)
<1>1. Wrap(a) \in Places /\ NItems \in Nat
  BY Division, NItemsAssumption
<1>2. Wrap(Wrap(a) + NItems) = Wrap(a)
  BY <1>1, WrapPlace
<1>. QED
  BY <1>1, <1>2, WrapAdd

\* The distance back from a place that is d positions ahead.
LEMMA Behind ==
  ASSUME NEW a \in Nat, NEW d \in Places
  PROVE  Wrap(NItems + Wrap(a) - Wrap(a + d)) = IF d = 0 THEN 0 ELSE NItems - d
<1>1. d \in Nat /\ NItems \in Nat /\ d < NItems /\ NItems > 0 /\ a + d \in Nat
      /\ Wrap(a) \in Nat
  BY NItemsAssumption, Division DEF Places
<1>2. CASE d = 0
  <2>1. NItems + Wrap(a) - Wrap(a + d) = 0 + NItems
    BY <1>1, <1>2
  <2>2. 0 \in Places
    BY <1>1 DEF Places
  <2>. QED
    BY <2>1, <2>2, <1>2, WrapPlace
<1>3. CASE d # 0
  <2>1. PICK e \in Places : e = NItems - d
    BY <1>1, <1>3 DEF Places
  <2>2. Wrap(NItems + Wrap((a + d) + e) - Wrap(a + d)) = e
    BY <1>1, Distance
  <2>3. (a + d) + e = a + NItems
    BY <1>1, <2>1
  <2>. QED
    BY <2>1, <2>2, <2>3, <1>3, WrapTurn
<1>. QED
  BY <1>2, <1>3

\* The tail moves e bytes on, over the first f segments and not up to the next one.
LEMMA Forward ==
  ASSUME NEW b \in Nat, NEW segs \in Seq(Segments), NEW A \in SUBSET Nat,
         Describes(b, segs, A), NEW e \in Nat, NEW f \in 0..Len(segs),
         NEW res \in Seq(Segments), Len(res) = Len(segs) - f,
         \A m \in 1..Len(res) : res[m] = segs[m + f],
         \A m \in 1..f : To(b, segs[m]) <= b + e,
         \A m \in (f + 1)..Len(segs) : From(b, segs[m]) > b + e + 1
  PROVE  Describes(b + e, res, A) /\ b + e + 1 \notin A
<1> DEFINE lo(m) == From(b, segs[m])
           hi(m) == To(b, segs[m])
           L == Len(segs)
<1>1. L \in Nat /\ f \in Nat /\ f <= L
  OBVIOUS
<1>2. ASSUME NEW m \in 1..L PROVE lo(m) \in Nat /\ hi(m) \in Nat /\ lo(m) <= hi(m)
  <2>1. segs[m] \in Segments
    OBVIOUS
  <2>. QED
    BY <2>1, Bytes
<1>3. /\ \A x \in Nat : x > b /\ x \in A <=> \E m \in 1..L : x \in lo(m)..hi(m)
      /\ \A m, l \in 1..L : m < l => hi(m) + 1 < lo(l)
  BY Described
<1>4. ASSUME NEW m \in 1..Len(res)
      PROVE  /\ m + f \in 1..L /\ From(b + e, res[m]) = lo(m + f)
             /\ To(b + e, res[m]) = hi(m + f) /\ lo(m + f) > b + e + 1
  <2>1. m + f \in 1..L /\ m + f \in (f + 1)..L /\ res[m] = segs[m + f]
    BY <1>1
  <2>2. lo(m + f) > b + e + 1 /\ lo(m + f) \in Nat
    BY <2>1, <1>2
  <2>3. b + e < lo(m + f) /\ segs[m + f] \in Segments
    BY <2>1, <2>2
  <2>4. From(b + e, segs[m + f]) = lo(m + f) /\ To(b + e, segs[m + f]) = hi(m + f)
    BY <2>3, Moved
  <2>. QED
    BY <2>1, <2>2, <2>4
<1>5. /\ \A m \in 1..f : hi(m) <= b + e
      /\ \A m \in (f + 1)..L : lo(m) > b + e + 1
      /\ Len(res) = L - f
  OBVIOUS
<1> HIDE DEF lo, hi, L
<1>6. \A m \in 1..Len(res) : From(b + e, res[m]) > b + e + 1
  BY <1>4
<1>7. ASSUME NEW m \in 1..Len(res), NEW l \in 1..Len(res), m < l
      PROVE  To(b + e, res[m]) + 1 < From(b + e, res[l])
  <2>1. m + f \in 1..L /\ l + f \in 1..L /\ m + f < l + f
    BY <1>4, <1>7, <1>1
  <2>2. hi(m + f) + 1 < lo(l + f)
    BY <2>1, <1>3
  <2>. QED
    BY <2>2, <1>4
<1>8. ASSUME NEW x \in Nat
      PROVE  x > b + e /\ x \in A <=>
               \E m \in 1..Len(res) : x \in From(b + e, res[m])..To(b + e, res[m])
  <2>1. ASSUME x > b + e, x \in A
        PROVE  \E m \in 1..Len(res) : x \in From(b + e, res[m])..To(b + e, res[m])
    <3>1. PICK m \in 1..L : x \in lo(m)..hi(m)
      BY <2>1, <1>3
    <3>2. ~ (m \in 1..f)
      BY <3>1, <2>1, <1>2, <1>5
    <3>3. m - f \in 1..Len(res) /\ m - f + f = m
      BY <3>2, <1>1, <1>5
    <3>4. From(b + e, res[m - f]) = lo(m) /\ To(b + e, res[m - f]) = hi(m)
      BY <3>3, <1>4
    <3>. QED
      BY <3>1, <3>3, <3>4
  <2>2. ASSUME NEW m \in 1..Len(res), x \in From(b + e, res[m])..To(b + e, res[m])
        PROVE  x > b + e /\ x \in A
    <3>1. m + f \in 1..L /\ x \in lo(m + f)..hi(m + f) /\ lo(m + f) > b + e + 1
      BY <2>2, <1>4
    <3>2. x \in A
      BY <3>1, <1>3
    <3>. QED
      BY <3>1, <3>2, <1>2
  <2>. QED
    BY <2>1, <2>2
<1>9. Describes(b + e, res, A)
  BY <1>6, <1>7, <1>8, Described, SMTT(30)
<1>10. b + e + 1 \notin A
  <2> SUFFICES ASSUME b + e + 1 \in A PROVE FALSE
    OBVIOUS
  <2>1. PICK m \in 1..Len(res) : b + e + 1 \in From(b + e, res[m])..To(b + e, res[m])
    BY <1>8
  <2>2. From(b + e, res[m]) > b + e + 1 /\ From(b + e, res[m]) \in Nat
    BY <1>4, <1>2
  <2>. QED
    BY <2>1, <2>2
<1>. QED
  BY <1>9, <1>10

\* n bytes arrive behind byte b: OrderlyInOrder of the bytes A that are there.
InOrder(b, A, n) ==
  ((b + 1)..(b + n)) \cap A # {} =>
    /\ ~(b + n \in A /\ b + n + 1 \in A)
    /\ \E x \in A : x > b + n

\* The distance of the tail from segment m, which begins behind b: the tail is
\* past its beginning, at it, or before it.
LEMMA Diff ==
  ASSUME NEW b \in Nat, NEW s \in Segments, NEW n \in Nat \ {0}, n <= NItems,
         From(b, s) > b + 1, From(b, s) < b + NItems
  PROVE  Wrap(NItems + Wrap(b + n) - s.fifo_position) =
           IF From(b, s) <= b + n THEN b + n + 1 - From(b, s)
           ELSE IF From(b, s) = b + n + 1 THEN 0
           ELSE NItems - (From(b, s) - b - n - 1)
<1>1. /\ From(b, s) = b + ooo_segment_offset(Wrap(b), s) + 1
      /\ s.fifo_position = Wrap(b + ooo_segment_offset(Wrap(b), s))
      /\ ooo_segment_offset(Wrap(b), s) \in Places
  BY Offset
<1>2. PICK o \in Places : o = ooo_segment_offset(Wrap(b), s)
  BY <1>1
<1>3. /\ From(b, s) = b + o + 1 /\ s.fifo_position = Wrap(b + o)
      /\ NItems \in Nat /\ NItems > 0 /\ o \in Nat /\ o > 0 /\ b + n \in Nat /\ b + o \in Nat
  BY <1>1, <1>2, NItemsAssumption DEF Places
<1>4. CASE From(b, s) <= b + n
  <2>1. PICK d \in Places : d = n - o
    BY <1>3, <1>4 DEF Places
  <2>2. (b + o) + d = b + n /\ d = b + n + 1 - From(b, s)
    BY <2>1, <1>3
  <2>3. Wrap(NItems + Wrap((b + o) + d) - Wrap(b + o)) = d
    BY <1>3, Distance
  <2>. QED
    BY <2>2, <2>3, <1>3, <1>4
<1>5. CASE ~ (From(b, s) <= b + n)
  <2>1. PICK d \in Places : d = o - n
    BY <1>3, <1>5 DEF Places
  <2>2. (b + n) + d = b + o /\ d = From(b, s) - b - n - 1 /\ (d = 0 <=> From(b, s) = b + n + 1)
    BY <2>1, <1>3
  <2>3. Wrap(NItems + Wrap(b + n) - Wrap((b + n) + d)) = IF d = 0 THEN 0 ELSE NItems - d
    BY <1>3, Behind
  <2>. QED
    BY <2>2, <2>3, <1>3, <1>5
<1>. QED
  BY <1>4, <1>5

\* The segments that the tail has passed are removed, and the one that it has come
\* to is collected.
LEMMA CollectExact ==
  ASSUME NEW b \in Nat, NEW segs \in Seq(Segments), NEW A \in SUBSET Nat,
         Describes(b, segs, A), NEW n \in Nat \ {0}, cursize \in 0..NItems,
         n <= NItems - cursize, InOrder(b, A, n),
         \A x \in A : x > b /\ x < b + NItems /\ x <= b + NItems - cursize
  PROVE  \E e \in Nat :
           LET c == ooo_segment_try_collect(Wrap(b + n), segs, n) IN
           /\ c.bytes = e /\ c.tail = Wrap(b + n + e)
           /\ c.ooo \in Seq(Segments) /\ Describes(b + n + e, c.ooo, A)
           /\ (b + n + 1)..(b + n + e) \subseteq A /\ b + n + e + 1 \notin A
<1> DEFINE lo(m) == From(b, segs[m])
           hi(m) == To(b, segs[m])
           L == Len(segs)
           t == Wrap(b + n)
           diff(j) == Wrap(NItems + t - segs[j].fifo_position)
           In(j)   == 0 < diff(j) /\ diff(j) < n
           Past(j) == j < Len(segs) /\ In(j) /\ diff(j) >= segs[j].length
           i       == CHOOSE j \in DOMAIN segs : ~Past(j) /\ \A k \in 1..(j - 1) : Past(k)
           s       == segs[i]
           rest    == SubSeq(segs, i, Len(segs))
           bytes   == Min({NItems - cursize, s.length})
           c == ooo_segment_try_collect(t, segs, n)
<1>1. L \in Nat /\ DOMAIN segs = 1..L /\ NItems \in Nat /\ NItems > 0 /\ b + n \in Nat /\ n > 0
      /\ cursize \in Nat /\ cursize <= NItems /\ n <= NItems
  BY NItemsAssumption
<1>2. /\ \A x \in Nat : x > b /\ x \in A <=> \E m \in 1..L : x \in lo(m)..hi(m)
      /\ \A m, l \in 1..L : m < l => hi(m) + 1 < lo(l)
      /\ \A m \in 1..L : lo(m) > b + 1
  BY Described
<1>3. ASSUME NEW m \in 1..L
      PROVE  /\ lo(m) \in Nat /\ hi(m) \in Nat /\ lo(m) <= hi(m) /\ lo(m) > b + 1
             /\ lo(m) \in A /\ hi(m) \in A /\ \A x \in Nat : x \in lo(m)..hi(m) => x \in A
             /\ hi(m) < b + NItems /\ hi(m) <= b + NItems - cursize
             /\ hi(m) = lo(m) + segs[m].length - 1 /\ segs[m].length \in Nat \ {0}
             /\ diff(m) = IF lo(m) <= b + n THEN b + n + 1 - lo(m)
                          ELSE IF lo(m) = b + n + 1 THEN 0 ELSE NItems - (lo(m) - b - n - 1)
  <2>1. segs[m] \in Segments
    OBVIOUS
  <2>2. lo(m) \in Nat /\ hi(m) \in Nat /\ lo(m) <= hi(m)
    BY <2>1, Bytes
  <2>3. lo(m) \in A /\ hi(m) \in A /\ \A x \in Nat : x \in lo(m)..hi(m) => x \in A
    <3>1. lo(m) \in lo(m)..hi(m) /\ hi(m) \in lo(m)..hi(m)
      BY <2>2
    <3>. QED
      BY <3>1, <2>2, <1>2
  <2>4. lo(m) > b + 1 /\ hi(m) < b + NItems /\ hi(m) <= b + NItems - cursize
    BY <2>3, <1>2
  <2>5. hi(m) = lo(m) + segs[m].length - 1 /\ segs[m].length \in Nat \ {0}
    BY <2>1, Offset
  <2>6. lo(m) < b + NItems
    BY <2>2, <2>4, <1>1
  <2>7. diff(m) = IF lo(m) <= b + n THEN b + n + 1 - lo(m)
                  ELSE IF lo(m) = b + n + 1 THEN 0 ELSE NItems - (lo(m) - b - n - 1)
    BY <2>1, <2>4, <2>6, <1>1, Diff
  <2>. QED
    BY <2>2, <2>3, <2>4, <2>5, <2>7
<1>4. c = IF segs = <<>> THEN Collected(t, segs, 0)
          ELSE IF In(i) /\ diff(i) < s.length
               THEN Collected(Wrap(t + s.length - diff(i)), rest, 0)
          ELSE IF diff(i) = 0 THEN Collected(Wrap(t + bytes), Tail(rest), bytes)
          ELSE Collected(t, rest, 0)
  BY DEF ooo_segment_try_collect
<1> HIDE DEF lo, hi, c, diff, t
<1>5. ASSUME NEW m \in 1..L, lo(m) > b + n PROVE ~ In(m)
  <2>1. /\ lo(m) \in Nat /\ hi(m) \in Nat /\ lo(m) <= hi(m) /\ hi(m) < b + NItems
        /\ diff(m) = IF lo(m) = b + n + 1 THEN 0 ELSE NItems - (lo(m) - b - n - 1)
    BY <1>1, <1>3, <1>5
  <2>. QED
    BY <2>1, <1>1, <1>5
<1>6. ASSUME NEW m \in 1..L, lo(m) <= b + n
      PROVE  hi(m) <= b + n /\ In(m) /\ diff(m) >= segs[m].length /\ \E x \in A : x > b + n
  <2>1. /\ lo(m) \in Nat /\ hi(m) \in Nat /\ lo(m) <= hi(m) /\ lo(m) > b + 1 /\ lo(m) \in A
        /\ hi(m) = lo(m) + segs[m].length - 1 /\ segs[m].length \in Nat
        /\ diff(m) = b + n + 1 - lo(m)
    BY <1>3, <1>6
  <2>2. lo(m) \in (b + 1)..(b + n)
    BY <2>1, <1>1, <1>6
  <2>3. ~(b + n \in A /\ b + n + 1 \in A) /\ \E x \in A : x > b + n
    BY <2>1, <2>2 DEF InOrder
  <2>0. b + n \in Nat /\ b + n + 1 \in Nat
    BY <1>1
  <2>4. ASSUME hi(m) > b + n PROVE FALSE
    <3>1. b + n \in lo(m)..hi(m) /\ b + n + 1 \in lo(m)..hi(m) /\ b + n + 1 \in Nat
      BY <2>0, <2>1, <2>4, <1>6
    <3>2. b + n \in A /\ b + n + 1 \in A
      BY <3>1, <1>1, <1>3
    <3>. QED
      BY <3>2, <2>3
  <2>5. hi(m) <= b + n
    <3>1. hi(m) \in Nat /\ ~(hi(m) > b + n)
      BY <2>1, <2>4
    <3>. QED
      BY <3>1, <2>0
  <2>6. In(m)
    BY <2>1, <2>2, <1>1
  <2>7. diff(m) >= segs[m].length
    <3>1. PICK len \in Nat : len = segs[m].length
      BY <2>1
    <3>. QED
      BY <3>1, <2>1, <2>5, <1>1
  <2>. QED
    BY <2>3, <2>5, <2>6, <2>7
<1> SUFFICES \E e \in Nat :
           /\ c.bytes = e /\ c.tail = Wrap(b + n + e)
           /\ c.ooo \in Seq(Segments) /\ Describes(b + n + e, c.ooo, A)
           /\ (b + n + 1)..(b + n + e) \subseteq A /\ b + n + e + 1 \notin A
  BY Zenon DEF c, t
<1>7. CASE segs = <<>>
  <2>1. c = Collected(t, segs, 0) /\ L = 0
    BY <1>7, <1>4
  <2>2. c.bytes = 0 /\ c.tail = t /\ c.ooo = segs
    BY <2>1 DEF Collected
  <2>3. Describes(b + n, segs, A) /\ b + n + 1 \notin A
    <3>1. 0 \in 0..L /\ n \in Nat
      BY <1>1
    <3>2. /\ Len(segs) = Len(segs) - 0
          /\ \A m \in 1..Len(segs) : segs[m] = segs[m + 0]
          /\ \A m \in 1..0 : To(b, segs[m]) <= b + n
          /\ \A m \in (0 + 1)..Len(segs) : From(b, segs[m]) > b + n + 1
      BY <2>1
    <3>. QED
      BY <3>1, <3>2, Forward
  <2>4. b + n + 0 = b + n /\ b + n + 0 + 1 = b + n + 1 /\ (b + n + 1)..(b + n + 0) = {}
    BY <1>1
  <2>. QED
    BY <2>2, <2>3, <2>4 DEF t
<1>8. CASE segs # <<>>
  <2>1. L >= 1 /\ 1 \in 1..L
    BY <1>1, <1>8
  <2>2. \E m \in 1..L : lo(m) > b + n
    <3>1. CASE lo(1) > b + n
      BY <3>1, <2>1
    <3>2. CASE ~ (lo(1) > b + n)
      <4>1. lo(1) \in Nat
        BY <2>1, <1>3
      <4>2. PICK x \in A : x > b + n
        BY <4>1, <3>2, <2>1, <1>1, <1>6
      <4>3. PICK m \in 1..L : x \in lo(m)..hi(m)
        BY <1>2
      <4>4. hi(m) > b + n /\ lo(m) \in Nat
        BY <4>2, <4>3, <1>1, <1>3
      <4>5. lo(m) > b + n
        BY <4>4, <1>1, <1>3, <1>6
      <4>. QED
        BY <4>5
    <3>. QED
      BY <3>1, <3>2
  <2>3. PICK k \in 1..L : lo(k) > b + n /\ \A m \in 1..L : m < k => lo(m) <= b + n
    <3> DEFINE S == {m \in 1..L : lo(m) > b + n}
    <3>1. S \in SUBSET Nat /\ S # {}
      BY <2>2
    <3>2. Min(S) \in S /\ \A x \in S : Min(S) <= x
      BY <3>1, Least
    <3>3. PICK k \in S : \A x \in S : k <= x
      BY <3>2
    <3>4. ASSUME NEW m \in 1..L, m < k PROVE lo(m) <= b + n
      <4>1. m \notin S
        BY <3>3, <3>4
      <4>2. ~ (lo(m) > b + n) /\ lo(m) \in Nat
        BY <4>1, <1>3
      <4>. QED
        BY <4>2, <1>1
    <3>. QED
      BY <3>3, <3>4
  <2>4. i = k
    <3>1. \A j \in 1..L : j < k => Past(j)
      BY <2>3, <1>1, <1>6
    <3>2. ~ Past(k)
      BY <2>3, <1>5
    <3> HIDE DEF Past
    <3>3. k \in DOMAIN segs /\ ~Past(k) /\ \A l \in 1..(k - 1) : Past(l)
      BY <3>1, <3>2, <1>1
    <3>4. i \in DOMAIN segs /\ ~ Past(i) /\ \A l \in 1..(i - 1) : Past(l)
      BY <3>3
    <3> HIDE DEF i
    <3>5. ~ (i < k) /\ ~ (k < i)
      BY <3>1, <3>2, <3>4, <1>1
    <3>. QED
      BY <3>4, <3>5, <1>1
  <2>5. /\ rest \in Seq(Segments) /\ Len(rest) = L - (k - 1) /\ rest # <<>>
        /\ \A m \in 1..Len(rest) : rest[m] = segs[m + (k - 1)]
    <3>1. rest = SubSeq(segs, k, L)
      BY <2>4
    <3> HIDE DEF rest, i
    <3>2. \A m \in 1..L : segs[m] \in Segments
      OBVIOUS
    <3>3. \A m \in k..L : segs[m] \in Segments
      BY <3>2, <1>1
    <3>4. /\ SubSeq(segs, k, L) \in Seq(Segments)
          /\ Len(SubSeq(segs, k, L)) = IF k <= L THEN L - k + 1 ELSE 0
          /\ \A m \in 1..(L - k + 1) : SubSeq(segs, k, L)[m] = segs[k + m - 1]
      BY <3>3, <1>1, SubSeqProperties
    <3>5. Len(rest) = L - (k - 1) /\ Len(rest) = L - k + 1 /\ Len(rest) > 0
      BY <3>1, <3>4, <1>1
    <3>6. \A m \in 1..Len(rest) : k + m - 1 = m + (k - 1)
      BY <3>5, <1>1
    <3>7. rest \in Seq(Segments)
      BY <3>1, <3>4, Zenon
    <3>9. rest # <<>>
      <4>1. Len(<<>>) = 0
        OBVIOUS
      <4>2. Len(rest) # 0
        BY <3>5
      <4>. QED
        BY <4>1, <4>2, Zenon
    <3>8. \A m \in 1..Len(rest) : rest[m] = segs[k + m - 1]
      BY <3>1, <3>4, <3>5, Zenon
    <3>. QED
      BY <3>5, <3>6, <3>7, <3>8, <3>9
  <2> DEFINE len == segs[k].length
             f == k - 1
  <2>6. c = IF diff(k) = 0 THEN Collected(Wrap(t + Min({NItems - cursize, len})),
                                          Tail(rest), Min({NItems - cursize, len}))
            ELSE Collected(t, rest, 0)
    <3>1. ~ In(k)
      BY <2>3, <1>5
    <3> HIDE DEF i, rest, In
    <3>2. ~ In(i) /\ i = k
      BY <3>1, <2>4
    <3>3. c = IF diff(i) = 0 THEN Collected(Wrap(t + bytes), Tail(rest), bytes)
              ELSE Collected(t, rest, 0)
      BY <3>2, <1>4, <1>8
    <3>. QED
      BY <3>2, <3>3, Zenon
  <2> HIDE DEF i, rest
  <2>7. /\ lo(k) \in Nat /\ hi(k) \in Nat /\ lo(k) > b + n /\ hi(k) <= b + NItems - cursize
        /\ hi(k) = lo(k) + len - 1 /\ len \in Nat \ {0} /\ hi(k) < b + NItems
        /\ diff(k) = IF lo(k) = b + n + 1 THEN 0 ELSE NItems - (lo(k) - b - n - 1)
    BY <2>3, <1>1, <1>3
  <2>8. ASSUME NEW m \in (k + 1)..L PROVE hi(k) + 1 < lo(m)
    BY <1>1, <1>2
  <2>9. ASSUME NEW m \in 1..f PROVE hi(m) <= b + n
    BY <2>3, <1>1, <1>6
  <2> HIDE DEF len
  <2>10. CASE lo(k) = b + n + 1
    <3>1. hi(k) = b + n + len /\ len <= NItems - cursize /\ NItems - cursize \in Nat
      BY <2>7, <2>10, <1>1
    <3>2. Min({NItems - cursize, len}) = len
      BY <3>1, <2>7, LeastOfTwo
    <3>3. c = Collected(Wrap(t + len), Tail(rest), len)
      BY <3>2, <2>6, <2>7, <2>10
    <3>4. c.bytes = len /\ c.tail = Wrap(t + len) /\ c.ooo = Tail(rest)
      BY <3>3 DEF Collected
    <3>5. Wrap(t + len) = Wrap(b + n + len)
      BY <2>7, <1>1, WrapAdd DEF t
    <3>6. /\ Tail(rest) \in Seq(Segments) /\ Len(Tail(rest)) = L - k
          /\ \A m \in 1..(L - k) : Tail(rest)[m] = segs[m + k]
      <4>1. /\ Tail(rest) \in Seq(Segments) /\ Len(Tail(rest)) = Len(rest) - 1
            /\ \A m \in 1..(Len(rest) - 1) : Tail(rest)[m] = rest[m + 1]
        BY <2>5
      <4>2. \A m \in 1..(L - k) : m + 1 \in 1..Len(rest) /\ (m + 1) + (k - 1) = m + k
        BY <2>5, <1>1
      <4>3. Len(rest) - 1 = L - k
        BY <2>5, <1>1
      <4>. QED
        BY <4>1, <4>2, <4>3, <2>5
    <3>7. PICK e \in Nat : e = n + len
      BY <2>7
    <3>8. b + e = b + n + len
      BY <3>7, <2>7
    <3>9. Describes(b + e, Tail(rest), A) /\ b + e + 1 \notin A
      <4>1. k \in 0..Len(segs)
        BY <2>1
      <4>2. ASSUME NEW m \in 1..k PROVE To(b, segs[m]) <= b + e
        <5>1. CASE m = k
          BY <5>1, <3>1, <3>8, <2>7 DEF hi
        <5>2. CASE m # k
          <6>1. m \in 1..f /\ m \in 1..L
            BY <5>2, <1>1
          <6>. QED
            BY <6>1, <3>8, <2>7, <2>9, <1>1, <1>3 DEF hi
        <5>. QED
          BY <5>1, <5>2
      <4>3. \A m \in (k + 1)..Len(segs) : From(b, segs[m]) > b + e + 1
        BY <2>8, <3>1, <3>8 DEF lo
      <4>. QED
        BY <4>1, <4>2, <4>3, <3>6, Forward
    <3>10. (b + n + 1)..(b + n + len) \subseteq A
      <4> SUFFICES ASSUME NEW x \in (b + n + 1)..(b + n + len) PROVE x \in A
        OBVIOUS
      <4>1. x \in Nat /\ x \in lo(k)..hi(k)
        BY <3>1, <2>7, <2>10
      <4>. QED
        BY <4>1, <1>2
    <3>. QED
      BY <3>4, <3>5, <3>6, <3>8, <3>9, <3>10, <2>7
  <2>11. CASE lo(k) # b + n + 1
    <3>1. diff(k) # 0
      BY <2>7, <2>11, <1>1
    <3>2. c.bytes = 0 /\ c.tail = t /\ c.ooo = rest
      BY <3>1, <2>6 DEF Collected
    <3>3. Describes(b + n, rest, A) /\ b + n + 1 \notin A
      <4>1. f \in 0..Len(segs) /\ n \in Nat
        BY <1>1
      <4>2. \A m \in (f + 1)..Len(segs) : From(b, segs[m]) > b + n + 1
        <5>0. f + 1 = k
          BY <1>1
        <5> SUFFICES ASSUME NEW m \in k..L PROVE lo(m) > b + n + 1
          BY <5>0 DEF lo
        <5>1. CASE m = k
          <6>1. lo(k) > b + n + 1
            <7>1. PICK l \in Nat : l = lo(k) /\ l > b + n /\ l # b + n + 1
              BY <2>7, <2>11
            <7>. QED
              BY <7>1
          <6>2. lo(m) = lo(k)
            BY <5>1
          <6>. QED
            BY <6>1, <6>2
        <5>2. CASE m # k
          <6>1. m \in (k + 1)..L /\ m \in 1..L
            BY <5>2, <1>1
          <6>2. hi(k) + 1 < lo(m) /\ lo(m) \in Nat /\ lo(k) <= hi(k)
            BY <6>1, <2>8, <1>3
          <6>. QED
            BY <6>2, <2>7, <1>1
        <5>. QED
          BY <5>1, <5>2
      <4>3. \A m \in 1..f : To(b, segs[m]) <= b + n
        BY <2>9 DEF hi
      <4>. QED
        BY <4>1, <4>2, <4>3, <2>5, Forward
    <3>4. b + n + 0 = b + n /\ b + n + 0 + 1 = b + n + 1 /\ (b + n + 1)..(b + n + 0) = {}
      BY <1>1
    <3>. QED
      BY <3>2, <3>3, <3>4, <2>5 DEF t
  <2>. QED
    BY <2>10, <2>11
<1>. QED
  BY <1>7, <1>8

-----------------------------------------------------------------------------
(***************************************************************************)
(* Bytes in the ring                                                       *)
(***************************************************************************)

\* Bytes p..p + n - 1 are copied to their places, and the places of the other
\* bytes of the window behind r are left alone.
LEMMA CopyInExact ==
  ASSUME NEW r \in Nat, NEW p \in Nat \ {0}, NEW n \in Nat \ {0},
         r < p, p + n - 1 <= r + NItems, data \in [Places -> Nat]
  PROVE  /\ CopyIn(Wrap(p - 1), p, n) \in [Places -> Nat]
         /\ \A x \in (r + 1)..(r + NItems) :
              CopyIn(Wrap(p - 1), p, n)[Wrap(x - 1)] =
                IF x \in p..(p + n - 1) THEN x ELSE data[Wrap(x - 1)]
<1> DEFINE d(j) == Wrap(NItems + j - Wrap(p - 1))
           v(j) == IF d(j) < n THEN p + d(j) ELSE data[j]
<1>1. CopyIn(Wrap(p - 1), p, n) = [j \in Places |-> v(j)]
  BY DEF CopyIn
<1>2. p - 1 \in Nat /\ NItems \in Nat /\ NItems > 0
  BY NItemsAssumption
<1>3. ASSUME NEW j \in Places PROVE d(j) \in Places
  BY <1>2, Reached
<1>4. CopyIn(Wrap(p - 1), p, n) \in [Places -> Nat]
  <2>1. ASSUME NEW j \in Places PROVE v(j) \in Nat
    <3> HIDE DEF d
    <3>1. d(j) \in Nat
      BY <1>3 DEF Places
    <3>. QED
      BY <3>1
  <2> HIDE DEF v
  <2>. QED
    BY <2>1, <1>1
<1>5. ASSUME NEW x \in (r + 1)..(r + NItems)
      PROVE  CopyIn(Wrap(p - 1), p, n)[Wrap(x - 1)] =
                IF x \in p..(p + n - 1) THEN x ELSE data[Wrap(x - 1)]
  <2>1. x \in Nat /\ x - 1 \in Nat /\ Wrap(x - 1) \in Places
    BY <1>2, Division
  <2>2. CopyIn(Wrap(p - 1), p, n)[Wrap(x - 1)] = v(Wrap(x - 1))
    <3> HIDE DEF v
    <3>. QED
      BY <2>1, <1>1
  <2>3. CASE x >= p
    <3>1. PICK k \in Places : k = x - p
      BY <2>1, <2>3, <1>2 DEF Places
    <3>2. (p - 1) + k = x - 1
      BY <3>1, <2>1
    <3>3. d(Wrap(x - 1)) = k
      BY <3>2, <1>2, Distance
    <3> HIDE DEF d
    <3>4. v(Wrap(x - 1)) = IF k < n THEN p + k ELSE data[Wrap(x - 1)]
      BY <3>3
    <3>5. (k < n <=> x \in p..(p + n - 1)) /\ p + k = x
      BY <3>1, <2>1, <2>3
    <3>. QED
      BY <3>4, <3>5, <2>2
  <2>4. CASE x < p
    <3>1. PICK k \in Places : k = p - x
      BY <2>1, <2>4, <1>2 DEF Places
    <3>2. (x - 1) + k = p - 1 /\ k # 0
      BY <3>1, <2>1, <2>4
    <3>3. d(Wrap(x - 1)) = NItems - k
      BY <3>2, <2>1, Behind
    <3> HIDE DEF d
    <3>4. v(Wrap(x - 1)) = IF NItems - k < n THEN p + (NItems - k) ELSE data[Wrap(x - 1)]
      BY <3>3
    <3>5. ~ (NItems - k < n) /\ x \notin p..(p + n - 1)
      BY <3>1, <2>1, <2>4, <1>2
    <3>. QED
      BY <3>4, <3>5, <2>2
  <2>. QED
    BY <2>1, <2>3, <2>4
<1>. QED
  BY <1>4, <1>5

-----------------------------------------------------------------------------
(***************************************************************************)
(* Steps of the producer                                                   *)
(***************************************************************************)

\* Only the bytes beyond b count.
LEMMA Beyond ==
  ASSUME NEW b, NEW segs, NEW A, NEW B, Describes(b, segs, A),
         {x \in A : x > b} = {x \in B : x > b}
  PROVE  Describes(b, segs, B)
  BY DEF Describes

\* svm_fifo_create
LEMMA InitInv ==
  Init => IInv
<1> SUFFICES ASSUME Init PROVE IInv
  OBVIOUS
<1> USE DEF Init
<1>1. NItems \in Nat /\ NItems > 0 /\ Wrap(0) = 0 /\ 0 \in Places
  BY NItemsAssumption, WrapPlace DEF Places
<1>2. TypeOK /\ Indices
  BY <1>1 DEF TypeOK, Indices, TailAt, HeadAt
<1>3. Window /\ DataExact /\ Reads /\ CopiesExact
  BY DEF Window, DataExact, Reads, CopiesExact, Exact
<1>4. Describes(TailAt, ooo, ahead)
  BY DEF Describes
<1>. QED
  BY <1>2, <1>3, <1>4 DEF IInv

\* svm_fifo_enqueue_internal reads cursize.
LEMMA EnqueueKeeps ==
  ASSUME IInv, ~ Anyhow, NEW n \in 1..MaxBytes, sent + n <= MaxStream, Enqueue(n)
  PROVE  IInv'
<1> USE DEF IInv
<1>1. /\ cursize \in 0..NItems /\ cursize # NItems /\ cursize = sent - received /\ NItems \in Nat
      /\ sent \in Nat /\ received \in Nat /\ n \in Nat \ {0}
      /\ p_bytes' = Min({NItems - cursize, n})
  BY NItemsAssumption, BoundsAssumption DEF TypeOK, Indices, Enqueue
<1>2. /\ p_bytes' \in Nat \ {0} /\ sent + p_bytes' <= received + NItems
      /\ sent + p_bytes' <= MaxStream
  <2>1. NItems - cursize \in Nat \ {0}
    BY <1>1
  <2>2. p_bytes' = IF NItems - cursize <= n THEN NItems - cursize ELSE n
    BY <1>1, <2>1, LeastOfTwo
  <2>. QED
    BY <1>1, <2>1, <2>2, BoundsAssumption
<1>3. /\ p_pc = "idle" /\ p_pc' = "copy" /\ OrderlyInOrder(sent + p_bytes')
      /\ UNCHANGED <<cursize, data, tail, ooo, sent, ahead>>
      /\ UNCHANGED <<head, c_pc, c_bytes, c_offset, c_cursize, copied, received>>
  BY DEF Enqueue, consumer
<1>4. TailAt' = TailAt /\ TailAt = sent /\ HeadAt' = HeadAt
  BY <1>3 DEF TailAt, HeadAt
<1>5. TypeOK' /\ Indices'
  BY <1>2, <1>3, <1>4 DEF TypeOK, Indices
<1>6. Window'
  BY <1>2, <1>3, <1>4 DEF Window, OrderlyInOrder
<1>7. DataExact' /\ Reads' /\ CopiesExact'
  BY <1>3 DEF DataExact, Reads, CopiesExact, Exact
<1>8. Describes(TailAt, ooo, ahead)'
  BY <1>3, <1>4
<1>. QED
  BY <1>5, <1>6, <1>7, <1>8

\* It copies, moves the tail and collects.
LEMMA EnqueueCopiesKeeps ==
  ASSUME IInv, EnqueueCopies
  PROVE  IInv'
<1> USE DEF IInv
<1> DEFINE n == p_bytes
           new == (sent + 1)..(sent + n)
           c == ooo_segment_try_collect(Wrap(sent + n), ooo, n)
<1>1. /\ cursize \in 0..NItems /\ cursize = sent - received /\ NItems \in Nat
      /\ sent \in Nat /\ received \in Nat /\ n \in Nat \ {0}
      /\ ooo \in Seq(Segments) /\ ahead \in SUBSET Nat /\ data \in [Places -> Nat]
      /\ p_pc = "copy" /\ TailAt = sent /\ tail = Wrap(sent)
  BY NItemsAssumption DEF TypeOK, Indices, Window, EnqueueCopies, TailAt
<1>2. /\ \A x \in ahead : x > sent /\ x < sent + NItems /\ x <= received + NItems
                          /\ x <= MaxStream
      /\ sent + n <= received + NItems /\ sent + n <= MaxStream
      /\ InOrder(sent, ahead, n)
  <2>1. ASSUME NEW x \in ahead
        PROVE  sent < x /\ x < sent + NItems /\ x <= received + NItems /\ x <= MaxStream
    BY <1>1 DEF Window
  <2>2. /\ sent + n <= received + NItems /\ sent + n <= MaxStream
        /\ OrderlyInOrder(sent + n)
    BY <1>1 DEF Window
  <2>. QED
    BY <2>1, <2>2 DEF OrderlyInOrder, InOrder
<1>3. /\ data' = CopyIn(tail, sent + 1, n)
      /\ tail' = c.tail /\ ooo' = c.ooo /\ p_bytes' = n + c.bytes
      /\ ahead' = ahead \cup new /\ p_pc' = "add"
      /\ UNCHANGED <<cursize, sent, head, c_pc, c_bytes, c_offset, c_cursize, copied, received>>
  <2>1. Wrap(tail + n) = Wrap(sent + n)
    BY <1>1, WrapAdd
  <2>. QED
    BY <2>1 DEF EnqueueCopies, consumer
<1>4. PICK e \in Nat :
           /\ c.bytes = e /\ c.tail = Wrap(sent + n + e)
           /\ c.ooo \in Seq(Segments) /\ Describes(sent + n + e, c.ooo, ahead)
           /\ (sent + n + 1)..(sent + n + e) \subseteq ahead /\ sent + n + e + 1 \notin ahead
  <2>1. /\ \A x \in ahead : x > sent /\ x < sent + NItems /\ x <= sent + NItems - cursize
        /\ n <= NItems - cursize
    BY <1>1, <1>2
  <2>2. Describes(sent, ooo, ahead)
    BY <1>1
  <2>. QED
    BY <2>1, <2>2, <1>1, <1>2, CollectExact
<1> HIDE DEF c
<1>5. /\ p_bytes' = n + e /\ tail' = Wrap(sent + n + e) /\ ooo' \in Seq(Segments)
      /\ Describes(sent + n + e, ooo', ahead)
  BY <1>3, <1>4
<1>6. TailAt' = sent + n + e /\ HeadAt' = HeadAt
  BY <1>1, <1>3, <1>5 DEF TailAt, HeadAt
<1>7. /\ data' \in [Places -> Nat]
      /\ \A x \in (received + 1)..(received + NItems) :
           data'[Wrap(x - 1)] = IF x \in new THEN x ELSE data[Wrap(x - 1)]
  <2>1. PICK p \in Nat \ {0} : p = sent + 1
    BY <1>1
  <2>2. received < p /\ p + n - 1 <= received + NItems /\ p - 1 = sent /\ p + n - 1 = sent + n
    BY <2>1, <1>1, <1>2
  <2>3. data' = CopyIn(Wrap(p - 1), p, n) /\ new = p..(p + n - 1)
    BY <2>1, <2>2, <1>1, <1>3
  <2>. QED
    BY <2>2, <2>3, <1>1, CopyInExact
<1>8. TypeOK'
  <2>1. tail' \in Places
    BY <1>5, <1>1, Division
  <2>2. p_bytes' \in Nat /\ ahead' \in SUBSET Nat
    BY <1>1, <1>3, <1>5
  <2>. QED
    BY <2>1, <2>2, <1>1, <1>3, <1>5, <1>7 DEF TypeOK
<1>9. Indices'
  BY <1>1, <1>3, <1>5, <1>6 DEF Indices
<1>10. Window'
  <2>1. ASSUME NEW x \in ahead'
        PROVE  /\ sent < x /\ x <= received + NItems /\ x <= MaxStream
               /\ x > sent + n + e => x < sent + NItems
    <3>1. CASE x \in ahead
      BY <3>1, <1>1, <1>2
    <3>2. CASE x \in new
      BY <3>2, <1>1, <1>2, BoundsAssumption
    <3>. QED
      BY <3>1, <3>2, <1>3
  <2>2. /\ p_bytes' > 0 /\ (sent + 1)..(sent + p_bytes') \subseteq ahead'
        /\ sent + p_bytes' + 1 \notin ahead'
    <3>1. sent + p_bytes' = sent + n + e /\ p_bytes' > 0
      BY <1>1, <1>5
    <3>2. \A x \in (sent + 1)..(sent + n + e) :
             x \in new \/ x \in (sent + n + 1)..(sent + n + e)
      BY <1>1
    <3>3. sent + n + e + 1 \notin new
      BY <1>1
    <3>. QED
      BY <3>1, <3>2, <3>3, <1>3, <1>4
  <2>. QED
    BY <2>1, <2>2, <1>3, <1>6 DEF Window
<1>11. DataExact'
  <2>1. ASSUME NEW x \in ((received + 1)..sent) \cup ahead'
        PROVE  data'[Wrap(x - 1)] = x
    <3>1. x \in (received + 1)..(received + NItems)
      BY <1>1, <1>2, <1>3
    <3>2. x \notin new => x \in ((received + 1)..sent) \cup ahead
      BY <1>3
    <3>3. x \notin new => data[Wrap(x - 1)] = x
      BY <3>2 DEF DataExact
    <3>. QED
      BY <3>1, <3>3, <1>7
  <2>. QED
    BY <2>1, <1>3 DEF DataExact
<1>12. Describes(TailAt, ooo, ahead)'
  <2>1. {x \in ahead : x > sent + n + e} = {x \in ahead' : x > sent + n + e}
    BY <1>1, <1>3
  <2>2. Describes(sent + n + e, ooo', ahead')
    BY <2>1, <1>5, Beyond
  <2>. QED
    BY <2>2, <1>6
<1>13. Reads' /\ CopiesExact'
  BY <1>3 DEF Reads, CopiesExact, Exact
<1>. QED
  BY <1>8, <1>9, <1>10, <1>11, <1>12, <1>13

\* It adds to cursize.
LEMMA EnqueueAddsKeeps ==
  ASSUME IInv, EnqueueAdds
  PROVE  IInv'
<1> USE DEF IInv
<1>1. /\ cursize \in 0..NItems /\ cursize = sent - received /\ NItems \in Nat
      /\ sent \in Nat /\ received \in Nat /\ p_bytes \in Nat \ {0}
      /\ ahead \in SUBSET Nat /\ p_pc = "add" /\ TailAt = sent + p_bytes
      /\ (sent + 1)..(sent + p_bytes) \subseteq ahead
  BY NItemsAssumption DEF TypeOK, Indices, Window, EnqueueAdds, TailAt
<1>2. /\ cursize' = cursize + p_bytes /\ sent' = sent + p_bytes
      /\ ahead' = {x \in ahead : x > sent'} /\ p_pc' = "idle" /\ p_bytes' = 0
      /\ UNCHANGED <<data, tail, ooo, head, c_pc, c_bytes, c_offset, c_cursize, copied, received>>
  BY DEF EnqueueAdds, consumer
<1>3. TailAt' = TailAt /\ HeadAt' = HeadAt
  BY <1>1, <1>2 DEF TailAt, HeadAt
<1>4. sent + p_bytes <= received + NItems
  <2>1. sent + p_bytes \in ahead
    BY <1>1
  <2>. QED
    BY <2>1 DEF Window
<1>5. TypeOK'
  <2>1. cursize' \in 0..NItems /\ sent' \in Nat
    BY <1>1, <1>2, <1>4
  <2>2. ahead' \in SUBSET Nat
    BY <1>1, <1>2
  <2>. QED
    BY <2>1, <2>2, <1>2 DEF TypeOK
<1>6. Indices'
  BY <1>1, <1>2, <1>3 DEF Indices
<1>7. Window'
  <2>1. ASSUME NEW x \in ahead'
        PROVE  sent' < x /\ x <= received + NItems /\ x <= MaxStream /\ x < sent' + NItems
    <3>1. x \in ahead /\ x \in Nat /\ x > TailAt
      BY <1>1, <1>2
    <3>2. x <= received + NItems /\ x <= MaxStream /\ x < sent + NItems
      BY <3>1 DEF Window
    <3>. QED
      BY <3>1, <3>2, <1>1, <1>2
  <2>. QED
    BY <2>1, <1>2 DEF Window
<1>8. DataExact'
  <2>1. ASSUME NEW x \in ((received + 1)..sent') \cup ahead'
        PROVE  x \in ((received + 1)..sent) \cup ahead
    BY <1>1, <1>2
  <2>. QED
    BY <2>1, <1>2 DEF DataExact
<1>9. Describes(TailAt, ooo, ahead)'
  <2>1. {x \in ahead : x > TailAt} = {x \in ahead' : x > TailAt}
    BY <1>1, <1>2
  <2>2. Describes(TailAt, ooo, ahead')
    BY <2>1, Beyond
  <2>. QED
    BY <2>2, <1>2, <1>3
<1>10. Reads' /\ CopiesExact'
  <2>1. Reads'
    BY <1>1, <1>2 DEF Reads, TypeOK
  <2>. QED
    BY <2>1, <1>2 DEF CopiesExact, Exact
<1>. QED
  BY <1>5, <1>6, <1>7, <1>8, <1>9, <1>10

\* svm_fifo_enqueue_with_offset_internal2
LEMMA EnqueueWithOffsetKeeps ==
  ASSUME IInv, ~ Anyhow, NEW n \in 1..MaxBytes, NEW o \in 1..NItems,
         sent + o + n <= MaxStream, EnqueueWithOffset(o, n)
  PROVE  IInv'
<1> USE DEF IInv
<1> DEFINE p == sent + o + 1
           q == sent + o + n
           res == ooo_segment_add(Wrap(sent), ooo, o, n)
<1>1. /\ cursize \in 0..NItems /\ cursize = sent - received /\ NItems \in Nat
      /\ sent \in Nat /\ received \in Nat /\ n \in Nat \ {0} /\ o \in Nat \ {0}
      /\ ooo \in Seq(Segments) /\ ahead \in SUBSET Nat /\ data \in [Places -> Nat]
      /\ p_pc = "idle" /\ TailAt = sent /\ tail = Wrap(sent)
  BY NItemsAssumption, BoundsAssumption DEF TypeOK, Indices, EnqueueWithOffset, TailAt
<1>2. /\ n + o <= NItems - cursize /\ OrderlyEarly(p, q)
      /\ ooo' = res /\ data' = CopyIn(Wrap(tail + o), p, n) /\ ahead' = ahead \cup (p..q)
      /\ UNCHANGED <<cursize, tail, p_pc, p_bytes, sent>>
      /\ UNCHANGED <<head, c_pc, c_bytes, c_offset, c_cursize, copied, received>>
  BY <1>1 DEF EnqueueWithOffset, consumer
<1>3. q <= received + NItems /\ q < sent + NItems /\ q <= MaxStream /\ o + n < NItems
      /\ p > sent + 1 /\ p \in Nat /\ q \in Nat
  BY <1>1, <1>2 DEF OrderlyEarly
<1>4. ASSUME NEW x \in ahead
      PROVE  /\ x \in Nat /\ sent < x /\ x < sent + NItems /\ x <= received + NItems
             /\ x <= MaxStream
  BY <1>1, <1>2, <1>3 DEF Window
<1>5. Early(sent, ahead, o, n)
  BY <1>2, <1>3, <1>4 DEF Early, OrderlyEarly
<1>6. res \in Seq(Segments) /\ Describes(sent, res, ahead \cup (p..q))
  BY <1>1, <1>5, AddExact
<1> HIDE DEF res
<1>7. /\ data' \in [Places -> Nat]
      /\ \A x \in (received + 1)..(received + NItems) :
           data'[Wrap(x - 1)] = IF x \in p..q THEN x ELSE data[Wrap(x - 1)]
  <2>1. PICK k \in Nat \ {0} : k = p
    BY <1>1
  <2>2. received < k /\ k + n - 1 <= received + NItems /\ k - 1 = sent + o /\ k + n - 1 = q
    BY <2>1, <1>1, <1>3
  <2>3. Wrap(tail + o) = Wrap(sent + o)
    BY <1>1, WrapAdd
  <2>4. data' = CopyIn(Wrap(k - 1), k, n)
    BY <2>1, <2>2, <2>3, <1>2
  <2>5. /\ CopyIn(Wrap(k - 1), k, n) \in [Places -> Nat]
        /\ \A x \in (received + 1)..(received + NItems) :
             CopyIn(Wrap(k - 1), k, n)[Wrap(x - 1)] =
               IF x \in k..(k + n - 1) THEN x ELSE data[Wrap(x - 1)]
    <3>1. /\ received < k /\ k + n - 1 <= received + NItems
          /\ received \in Nat /\ n \in Nat \ {0} /\ data \in [Places -> Nat]
      BY <2>2, <1>1
    <3>. QED
      BY <3>1, CopyInExact
  <2>. QED
    BY <2>1, <2>2, <2>4, <2>5
<1>8. TailAt' = TailAt /\ HeadAt' = HeadAt
  BY <1>2 DEF TailAt, HeadAt
<1>9. TypeOK'
  <2>1. ahead' \in SUBSET Nat
    BY <1>1, <1>2, <1>3
  <2>. QED
    BY <2>1, <1>2, <1>6, <1>7 DEF TypeOK
<1>10. Indices'
  BY <1>2, <1>8 DEF Indices
<1>11. Window'
  <2>1. ASSUME NEW x \in ahead'
        PROVE  sent < x /\ x <= received + NItems /\ x <= MaxStream /\ x < sent + NItems
    <3>1. CASE x \in ahead
      BY <3>1, <1>4
    <3>2. CASE x \in p..q
      BY <3>2, <1>1, <1>3, BoundsAssumption
    <3>. QED
      BY <3>1, <3>2, <1>2
  <2>. QED
    BY <2>1, <1>1, <1>2 DEF Window
<1>12. DataExact'
  <2>1. ASSUME NEW x \in ((received + 1)..sent) \cup ahead'
        PROVE  data'[Wrap(x - 1)] = x
    <3>1. x \in (received + 1)..(received + NItems)
      BY <1>1, <1>2, <1>3, <1>4
    <3>2. x \notin p..q => data[Wrap(x - 1)] = x
      BY <1>2 DEF DataExact
    <3>. QED
      BY <3>1, <3>2, <1>7
  <2>. QED
    BY <2>1, <1>2 DEF DataExact
<1>13. Describes(TailAt, ooo, ahead)'
  BY <1>1, <1>2, <1>6, <1>8
<1>14. Reads' /\ CopiesExact'
  BY <1>2 DEF Reads, CopiesExact, Exact
<1>. QED
  BY <1>9, <1>10, <1>11, <1>12, <1>13, <1>14

-----------------------------------------------------------------------------
(***************************************************************************)
(* Steps of the consumer                                                   *)
(***************************************************************************)

\* The readable bytes are where head says.
LEMMA Readable ==
  ASSUME IInv, c_pc # "sub", NEW k \in Nat, k < cursize
  PROVE  /\ head = Wrap(received) /\ Wrap(head + k) = Wrap(received + k)
         /\ data[Wrap(head + k)] = received + k + 1
<1>1. /\ cursize \in 0..NItems /\ cursize = sent - received /\ NItems \in Nat
      /\ sent \in Nat /\ received \in Nat /\ head = Wrap(received)
  BY NItemsAssumption DEF IInv, TypeOK, Indices, HeadAt
<1>2. Wrap(head + k) = Wrap(received + k)
  BY <1>1, WrapAdd
<1>3. PICK x \in Nat : x = received + k + 1
  BY <1>1
<1>4. x - 1 = received + k /\ x \in (received + 1)..sent
  BY <1>1, <1>3
<1>5. data[Wrap(x - 1)] = x
  BY <1>4 DEF IInv, DataExact
<1>. QED
  BY <1>1, <1>2, <1>3, <1>4, <1>5

\* svm_fifo_dequeue_internal2 and svm_fifo_dequeue_drop read cursize.
LEMMA DequeueKeeps ==
  ASSUME IInv, NEW n \in 1..MaxBytes, NEW to \in {"copy", "drop"}, Dequeue(to, n)
  PROVE  IInv'
<1> USE DEF IInv
<1>1. /\ cursize \in 0..NItems /\ NItems \in Nat /\ cursize # 0 /\ n \in Nat \ {0}
      /\ c_bytes' = Min({cursize, n}) /\ c_pc = "idle" /\ c_pc' = to /\ c_offset = 0
      /\ UNCHANGED <<cursize, data, head, c_offset, c_cursize, copied, received>>
      /\ UNCHANGED <<tail, ooo, p_pc, p_bytes, sent, ahead>>
  BY NItemsAssumption, BoundsAssumption DEF TypeOK, Dequeue, Reads, producer
<1>2. c_bytes' \in Nat /\ 0 < c_bytes' /\ c_bytes' <= cursize
  <2>1. cursize \in Nat
    BY <1>1
  <2>2. c_bytes' = IF cursize <= n THEN cursize ELSE n
    BY <2>1, <1>1, LeastOfTwo
  <2>. QED
    BY <2>1, <2>2, <1>1
<1>3. TailAt' = TailAt /\ HeadAt' = HeadAt
  BY <1>1 DEF TailAt, HeadAt
<1>4. TypeOK' /\ Indices'
  BY <1>1, <1>2, <1>3 DEF TypeOK, Indices
<1>5. Window' /\ DataExact'
  BY <1>1, <1>3 DEF Window, DataExact, OrderlyInOrder
<1>6. Describes(TailAt, ooo, ahead)'
  BY <1>1, <1>3
<1>7. Reads'
  BY <1>1, <1>2 DEF Reads
<1>8. CopiesExact'
  BY <1>1 DEF CopiesExact, Exact
<1>. QED
  BY <1>4, <1>5, <1>6, <1>7, <1>8

\* They copy and move the head.
LEMMA DequeueCopiesKeeps ==
  ASSUME IInv, DequeueCopies
  PROVE  IInv'
<1> USE DEF IInv
<1>1. /\ cursize \in 0..NItems /\ NItems \in Nat /\ c_bytes \in Nat /\ c_bytes <= cursize
      /\ received \in Nat /\ head \in Nat
      /\ c_pc \in {"copy", "drop"} /\ c_pc' = "sub" /\ c_offset = 0
      /\ head = Wrap(received) /\ head' = Wrap(head + c_bytes)
      /\ copied' = IF c_pc = "copy"
                   THEN [i \in 1..c_bytes |-> data[Wrap(head + i - 1)]] ELSE <<>>
      /\ UNCHANGED <<cursize, data, c_bytes, c_offset, c_cursize, received>>
      /\ UNCHANGED <<tail, ooo, p_pc, p_bytes, sent, ahead>>
  BY NItemsAssumption
     DEF TypeOK, Indices, HeadAt, DequeueCopies, Reads, producer, Places
<1>2. TailAt' = TailAt /\ HeadAt' = received + c_bytes
  BY <1>1 DEF TailAt, HeadAt
<1>3. head' = Wrap(received + c_bytes) /\ head' \in Places
  BY <1>1, WrapAdd, Division
<1>4. ASSUME NEW i \in 1..c_bytes
      PROVE  data[Wrap(head + i - 1)] = received + i
  <2>1. PICK k \in Nat : k = i - 1
    BY <1>1
  <2>2. k < cursize /\ head + i - 1 = head + k /\ received + k + 1 = received + i
    BY <2>1, <1>1
  <2>3. data[Wrap(head + k)] = received + k + 1
    BY <2>2, <1>1, Readable
  <2>. QED
    BY <2>2, <2>3
<1>5. copied' \in Seq(Nat) /\ \A i \in DOMAIN copied' : copied'[i] = received + i
  <2>1. CASE c_pc = "copy"
    <3>1. copied' = [i \in 1..c_bytes |-> received + i]
      BY <2>1, <1>1, <1>4
    <3>. QED
      BY <3>1, <1>1
  <2>2. CASE c_pc = "drop"
    BY <2>2, <1>1
  <2>. QED
    BY <2>1, <2>2, <1>1
<1>6. TypeOK'
  BY <1>1, <1>3, <1>5 DEF TypeOK
<1>7. Indices'
  BY <1>1, <1>2, <1>3 DEF Indices
<1>8. Window' /\ DataExact'
  BY <1>1, <1>2 DEF Window, DataExact, OrderlyInOrder
<1>9. Describes(TailAt, ooo, ahead)'
  BY <1>1, <1>2
<1>10. Reads'
  BY <1>1 DEF Reads
<1>11. CopiesExact'
  <2>1. ASSUME NEW i \in DOMAIN copied' PROVE copied'[i] = received + 0 + i
    <3>1. received + 0 = received
      BY <1>1
    <3>. QED
      BY <3>1, <1>5
  <2>. QED
    BY <2>1, <1>1 DEF CopiesExact, Exact
<1>. QED
  BY <1>6, <1>7, <1>8, <1>9, <1>10, <1>11

\* They subtract from cursize.
LEMMA DequeueSubtractsKeeps ==
  ASSUME IInv, DequeueSubtracts
  PROVE  IInv'
<1> USE DEF IInv
<1>1. /\ cursize \in 0..NItems /\ NItems \in Nat /\ c_bytes \in Nat /\ c_bytes <= cursize
      /\ received \in Nat /\ sent \in Nat /\ cursize = sent - received /\ c_offset = 0
      /\ c_pc = "sub" /\ c_pc' = "idle" /\ cursize' = cursize - c_bytes
      /\ received' = received + c_bytes /\ copied' = <<>> /\ c_bytes' = 0
      /\ UNCHANGED <<data, head, c_offset, c_cursize, tail, ooo, p_pc, p_bytes, sent, ahead>>
  BY NItemsAssumption DEF TypeOK, Indices, DequeueSubtracts, Reads, producer
<1>2. TailAt' = TailAt /\ HeadAt' = HeadAt
  BY <1>1 DEF TailAt, HeadAt
<1>3. TypeOK'
  <2>1. cursize' \in 0..NItems /\ received' \in Nat /\ copied' \in Seq(Nat)
    BY <1>1
  <2>. QED
    BY <2>1, <1>1 DEF TypeOK
<1>4. Indices'
  BY <1>1, <1>2 DEF Indices
<1>5. Window'
  <2>1. \A x \in ahead : x \in Nat /\ x <= received + NItems => x <= received' + NItems
    BY <1>1
  <2>2. p_bytes \in Nat /\ \A x \in ahead : x \in Nat
    BY DEF TypeOK
  <2>3. sent + p_bytes <= received + NItems => sent + p_bytes <= received' + NItems
    BY <2>2, <1>1
  <2>. QED
    BY <2>1, <2>2, <2>3, <1>1, <1>2 DEF Window, OrderlyInOrder
<1>6. DataExact'
  BY <1>1 DEF DataExact
<1>7. Describes(TailAt, ooo, ahead)'
  BY <1>1, <1>2
<1>8. Reads' /\ CopiesExact'
  BY <1>1 DEF Reads, CopiesExact, Exact
<1>. QED
  BY <1>3, <1>4, <1>5, <1>6, <1>7, <1>8

\* svm_fifo_peek reads cursize.
LEMMA PeekKeeps ==
  ASSUME IInv, NEW n \in 1..MaxBytes, NEW o \in 0..(NItems - 1), Peek(o, n)
  PROVE  IInv'
<1> USE DEF IInv
<1>1. /\ cursize \in 0..NItems /\ NItems \in Nat /\ cursize # 0 /\ n \in Nat \ {0}
      /\ c_bytes' = Min({cursize, n}) /\ c_pc = "idle" /\ c_pc' = "peek"
      /\ o \in Nat /\ c_offset' = o /\ c_cursize' = cursize
      /\ UNCHANGED <<cursize, data, head, copied, received>>
      /\ UNCHANGED <<tail, ooo, p_pc, p_bytes, sent, ahead>>
  BY NItemsAssumption, BoundsAssumption DEF TypeOK, Peek, producer
<1>2. c_bytes' \in Nat /\ 0 < c_bytes' /\ c_bytes' <= cursize
      /\ c_cursize' \in Nat /\ c_cursize' <= cursize
  <2>1. cursize \in Nat
    BY <1>1
  <2>2. c_bytes' = IF cursize <= n THEN cursize ELSE n
    BY <2>1, <1>1, LeastOfTwo
  <2>. QED
    BY <2>1, <2>2, <1>1
<1>3. TailAt' = TailAt /\ HeadAt' = HeadAt
  BY <1>1 DEF TailAt, HeadAt
<1>4. TypeOK' /\ Indices'
  BY <1>1, <1>2, <1>3 DEF TypeOK, Indices
<1>5. Window' /\ DataExact'
  BY <1>1, <1>3 DEF Window, DataExact, OrderlyInOrder
<1>6. Describes(TailAt, ooo, ahead)'
  BY <1>1, <1>3
<1>7. Reads' /\ CopiesExact'
  BY <1>1, <1>2 DEF Reads, CopiesExact, Exact
<1>. QED
  BY <1>4, <1>5, <1>6, <1>7

\* It copies in two parts.
LEMMA PeekCopiesKeeps ==
  ASSUME IInv, PeekCopies
  PROVE  IInv'
<1> USE DEF IInv
<1> DEFINE first == Min({NItems - head + c_offset, c_bytes})
           v(i) == IF i <= first THEN At(head + c_offset + i - 1) ELSE At(i - first - 1)
           within == c_offset > 0 => /\ c_offset + c_bytes <= c_cursize
                                     /\ head + c_offset + c_bytes <= NItems
           beyond == c_offset > 0 /\ head + c_offset + c_bytes > NItems
<1>1. /\ cursize \in 0..NItems /\ NItems \in Nat /\ c_bytes \in Nat /\ c_offset \in Nat
      /\ 0 < c_bytes /\ c_bytes <= cursize /\ c_cursize \in Nat /\ c_cursize <= cursize
      /\ head \in Places /\ received \in Nat /\ data \in [Places -> Nat]
      /\ c_pc = "peek" /\ c_pc' = "peeked"
      /\ copied' = [i \in 1..c_bytes |-> v(i)]
      /\ UNCHANGED <<cursize, data, head, c_bytes, c_offset, c_cursize, received>>
      /\ UNCHANGED <<tail, ooo, p_pc, p_bytes, sent, ahead>>
  BY NItemsAssumption DEF TypeOK, PeekCopies, Reads, producer
<1>2. first = IF NItems - head + c_offset <= c_bytes THEN NItems - head + c_offset ELSE c_bytes
  <2>1. NItems - head + c_offset \in Nat
    BY <1>1 DEF Places
  <2>. QED
    BY <2>1, <1>1, LeastOfTwo
<1> HIDE DEF first
<1>3. ASSUME NEW i \in 1..c_bytes, within PROVE v(i) = received + c_offset + i
  <2>1. PICK k \in Nat : k = c_offset + i - 1
    BY <1>1
  <2>2. k < cursize /\ received + k + 1 = received + c_offset + i
    BY <2>1, <1>1, <1>3
  <2>3. data[Wrap(head + k)] = received + k + 1
    BY <2>2, <1>1, Readable
  <2>4. CASE i <= first
    <3>1. head + k \in Places /\ head + c_offset + i - 1 = head + k
      BY <2>1, <2>4, <1>1, <1>2, <1>3 DEF Places
    <3>2. Wrap(head + k) = head + k
      BY <3>1, WrapPlace
    <3>. QED
      BY <3>1, <3>2, <2>2, <2>3, <2>4 DEF At
  <2>5. CASE ~ (i <= first)
    <3>1. i - first - 1 \in Places /\ (i - first - 1) + NItems = head + k
      BY <2>1, <2>5, <1>1, <1>2, <1>3 DEF Places
    <3>2. PICK j \in Places : j = i - first - 1
      BY <3>1
    <3>3. Wrap(head + k) = j
      BY <3>1, <3>2, WrapPlace
    <3>. QED
      BY <3>2, <3>3, <2>2, <2>3, <2>5 DEF At
  <2>. QED
    BY <2>4, <2>5
<1>0. ASSUME beyond PROVE \E i \in 1..c_bytes : v(i) # received + c_offset + i
  <2>1. PICK i \in 1..c_bytes : i <= first /\ head + c_offset + i - 1 \notin Places
    <3>1. CASE head + c_offset >= NItems
      <4>1. 1 \in 1..c_bytes /\ 1 <= first /\ head + c_offset + 1 - 1 \notin Places
        BY <3>1, <1>0, <1>1, <1>2 DEF Places
      <4>. QED
        BY <4>1
    <3>2. CASE head + c_offset < NItems
      <4>1. PICK i \in Nat : i = NItems - head - c_offset + 1
        BY <3>2, <1>1 DEF Places
      <4>2. i \in 1..c_bytes /\ i <= first /\ head + c_offset + i - 1 \notin Places
        BY <4>1, <3>2, <1>0, <1>1, <1>2 DEF Places
      <4>. QED
        BY <4>2
    <3>. QED
      BY <3>1, <3>2, <1>1 DEF Places
  <2>2. v(i) = 0
    BY <2>1 DEF At
  <2>3. received + c_offset + i # 0
    BY <1>1
  <2>. QED
    BY <2>2, <2>3
<1>4. /\ copied' \in Seq(Nat)
      /\ within => \A i \in DOMAIN copied' : copied'[i] = received + c_offset + i
      /\ beyond => ~ \A i \in DOMAIN copied' : copied'[i] = received + c_offset + i
  <2>1. ASSUME NEW i \in 1..c_bytes PROVE v(i) \in Nat
    BY <1>1 DEF At
  <2> HIDE DEF v, within, beyond
  <2>. QED
    BY <2>1, <1>0, <1>1, <1>3
<1>5. TailAt' = TailAt /\ HeadAt' = HeadAt
  BY <1>1 DEF TailAt, HeadAt
<1>6. TypeOK'
  BY <1>1, <1>4 DEF TypeOK
<1>7. Indices'
  BY <1>1, <1>5 DEF Indices
<1>8. Window' /\ DataExact'
  BY <1>1, <1>5 DEF Window, DataExact, OrderlyInOrder
<1>9. Describes(TailAt, ooo, ahead)'
  BY <1>1, <1>5
<1>10. Reads'
  BY <1>1 DEF Reads
<1>11. CopiesExact'
  <2>1. Exact' <=> \A i \in DOMAIN copied' : copied'[i] = received + c_offset + i
    BY <1>1 DEF Exact
  <2>2. c_offset = 0 => Exact'
    BY <2>1, <1>4
  <2>3. c_offset > 0 /\ c_offset + c_bytes <= c_cursize =>
          (Exact' <=> head + c_offset + c_bytes <= NItems)
    BY <2>1, <1>1, <1>4 DEF Places
  <2>. QED
    BY <2>2, <2>3, <1>1 DEF CopiesExact
<1>. QED
  BY <1>6, <1>7, <1>8, <1>9, <1>10, <1>11

\* It returns.
LEMMA PeekReturnsKeeps ==
  ASSUME IInv, PeekReturns
  PROVE  IInv'
<1> USE DEF IInv
<1>1. /\ c_pc = "peeked" /\ c_pc' = "idle" /\ copied' = <<>> /\ c_bytes' = 0 /\ c_offset' = 0
      /\ c_cursize' = 0
      /\ UNCHANGED <<cursize, data, head, received, tail, ooo, p_pc, p_bytes, sent, ahead>>
  BY DEF PeekReturns, producer
<1>2. TailAt' = TailAt /\ HeadAt' = HeadAt
  BY <1>1 DEF TailAt, HeadAt
<1>3. copied' \in Seq(Nat)
  BY <1>1
<1>4. TypeOK' /\ Indices'
  BY <1>1, <1>2, <1>3 DEF TypeOK, Indices
<1>5. Window' /\ DataExact'
  BY <1>1, <1>2 DEF Window, DataExact, OrderlyInOrder
<1>6. Describes(TailAt, ooo, ahead)'
  BY <1>1, <1>2
<1>7. Reads' /\ CopiesExact'
  BY <1>1 DEF TypeOK, Reads, CopiesExact, Exact
<1>. QED
  BY <1>4, <1>5, <1>6, <1>7

\* A step in which nothing happens.
LEMMA StutterKeeps ==
  ASSUME IInv, UNCHANGED vars
  PROVE  IInv'
<1>1. /\ UNCHANGED <<cursize, data, tail, ooo, p_pc, p_bytes, sent, ahead>>
      /\ UNCHANGED <<head, c_pc, c_bytes, c_offset, c_cursize, copied, received>>
  BY DEF vars, producer, consumer
<1>2. TailAt' = TailAt /\ HeadAt' = HeadAt
  BY <1>1 DEF TailAt, HeadAt
<1>3. TypeOK' /\ Indices'
  BY <1>1, <1>2 DEF IInv, TypeOK, Indices
<1>4. Window' /\ DataExact'
  BY <1>1, <1>2 DEF IInv, Window, DataExact, OrderlyInOrder
<1>5. Describes(TailAt, ooo, ahead)'
  BY <1>1, <1>2 DEF IInv
<1>6. Reads' /\ CopiesExact'
  BY <1>1 DEF IInv, Reads, CopiesExact, Exact
<1>. QED
  BY <1>3, <1>4, <1>5, <1>6 DEF IInv

\* Every step preserves the inductive invariant.
LEMMA NextInv ==
  ASSUME IInv, ~ Anyhow, [Next]_vars
  PROVE  IInv'
<1>1. CASE Producer
  BY <1>1, EnqueueKeeps, EnqueueCopiesKeeps, EnqueueAddsKeeps, EnqueueWithOffsetKeeps
     DEF Producer
<1>2. CASE Consumer
  BY <1>2, DequeueKeeps, DequeueCopiesKeeps, DequeueSubtractsKeeps, PeekKeeps,
     PeekCopiesKeeps, PeekReturnsKeeps DEF Consumer
<1>3. CASE UNCHANGED vars
  BY <1>3, StutterKeeps
<1>. QED
  BY <1>1, <1>2, <1>3 DEF Next

-----------------------------------------------------------------------------
(***************************************************************************)
(* What holds of every FIFO                                                *)
(***************************************************************************)

\* The inductive invariant: bytes are in their places, the list of segments
\* describes what has arrived early, and neither end has read a cursize that is
\* no longer good for what it does with it.
THEOREM IInvHolds ==
  ASSUME ~ Anyhow
  PROVE  Spec => []IInv
<1>1. Init => IInv
  BY InitInv
<1>2. IInv /\ [Next]_vars => IInv'
  BY NextInv
<1>. QED
  BY <1>1, <1>2, PTL DEF Spec

\* cursize, head and tail stay within the ring: the two atomic updates of cursize
\* never take it below zero or beyond nitems.
THEOREM TypeCorrect ==
  ASSUME ~ Anyhow
  PROVE  Spec => []TypeOK
<1>1. IInv => TypeOK
  BY DEF IInv
<1>. QED
  BY <1>1, IInvHolds, PTL

\* "Takes care of merging adjacent segments and removing overlapping ones": the
\* list of ooo_segment_add and ooo_segment_try_collect is in order, no two
\* segments touch or overlap, and together they are the bytes beyond the tail.
\* Condition: the arrivals are those of OrderlyInOrder and OrderlyEarly, which may
\* overlap segments, fill gaps and fall between two segments.
THEOREM SegmentsHeld ==
  ASSUME ~ Anyhow
  PROVE  Spec => []SegmentsExact
<1>1. IInv => SegmentsExact
  <2> SUFFICES ASSUME IInv, p_pc # "add" PROVE SegmentsExact
    BY DEF SegmentsExact
  <2> DEFINE lo(i) == From(sent, ooo[i])
             hi(i) == To(sent, ooo[i])
  <2>1. /\ ahead \in SUBSET Nat /\ ooo \in Seq(Segments) /\ tail = Wrap(sent)
        /\ Describes(sent, ooo, ahead) /\ \A x \in ahead : x > sent
    BY DEF IInv, TypeOK, Indices, Window, TailAt
  <2>2. {x \in ahead : x > sent} = ahead
    BY <2>1
  <2>3. ahead = UNION {lo(i)..hi(i) : i \in DOMAIN ooo}
    BY <2>1, <2>2 DEF Describes
  <2>4. ASSUME NEW i \in 1..(Len(ooo) - 1) PROVE hi(i) + 1 < lo(i + 1)
    <3>1. i < i + 1 /\ i \in DOMAIN ooo /\ i + 1 \in DOMAIN ooo
      BY <2>1
    <3>. QED
      BY <3>1, <2>1 DEF Describes
  <2>. QED
    BY <2>1, <2>3, <2>4, Zenon DEF SegmentsExact, From, To
<1>. QED
  BY <1>1, IInvHolds, PTL

\* What svm_fifo_dequeue_internal2 copies is the stream, and so is what
\* svm_fifo_peek copies without an offset, or with one when the bytes asked for end
\* before the end of the ring and of what was readable: nothing is overwritten
\* before its place has been given up.  Condition: as for SegmentsHeld.
THEOREM CopiesHeld ==
  ASSUME ~ Anyhow
  PROVE  Spec => []CopiesExact
<1>1. IInv => CopiesExact
  BY DEF IInv
<1>. QED
  BY <1>1, IInvHolds, PTL

\* What the tail has been moved by is what cursize has grown by.  Condition: as for
\* SegmentsHeld; without it bytes in order that end inside a segment, or at or
\* behind the end of the last one, break it.
THEOREM TailHeld ==
  ASSUME ~ Anyhow
  PROVE  Spec => []TailMatchesSize
<1>1. IInv => TailMatchesSize
  <2> SUFFICES ASSUME IInv, p_pc = "idle", c_pc = "idle" PROVE tail = Wrap(head + cursize)
    BY DEF TailMatchesSize
  <2>1. /\ sent \in Nat /\ received \in Nat /\ cursize \in Nat /\ cursize = sent - received
        /\ tail = Wrap(sent) /\ head = Wrap(received)
    BY NItemsAssumption DEF IInv, TypeOK, Indices, TailAt, HeadAt
  <2>2. Wrap(head + cursize) = Wrap(received + cursize) /\ received + cursize = sent
    BY <2>1, WrapAdd
  <2>. QED
    BY <2>1, <2>2
<1>. QED
  BY <1>1, IInvHolds, PTL

-----------------------------------------------------------------------------
(***************************************************************************)
(* The FIFO implements ByteStream                                          *)
(***************************************************************************)

\* What can be read, as bytes of the stream.
ReadableExact ==
  /\ sent - HeadAt \in 0..NItems /\ HeadAt \in Nat
  /\ readable = [i \in 1..(sent - HeadAt) |-> HeadAt + i]

\* What can be read is what has been sent and not been given up.
LEMMA ReadableBytes ==
  IInv => ReadableExact
<1> SUFFICES ASSUME IInv PROVE ReadableExact
  OBVIOUS
<1> USE DEF IInv
<1>1. /\ cursize \in 0..NItems /\ cursize = sent - received /\ NItems \in Nat
      /\ sent \in Nat /\ received \in Nat /\ c_bytes \in Nat /\ head = Wrap(HeadAt)
      /\ c_pc = "sub" => c_bytes <= cursize
  BY NItemsAssumption DEF TypeOK, Indices, Reads
<1>2. /\ HeadAt \in Nat /\ received <= HeadAt /\ sent - HeadAt \in 0..NItems
      /\ (IF c_pc = "sub" THEN cursize - c_bytes ELSE cursize) = sent - HeadAt
  BY <1>1 DEF HeadAt
<1>3. ASSUME NEW i \in 1..(sent - HeadAt)
      PROVE  data[Wrap(head + i - 1)] = HeadAt + i
  <2>1. PICK k \in Nat : k = i - 1
    BY <1>1, <1>2
  <2>2. PICK x \in Nat : x = HeadAt + i
    BY <1>2
  <2>3. x - 1 = HeadAt + k /\ x \in (received + 1)..sent /\ head + i - 1 = head + k
    BY <2>1, <2>2, <1>1, <1>2, Division DEF Places
  <2>4. Wrap(head + k) = Wrap(HeadAt + k)
    BY <1>1, <1>2, WrapAdd
  <2>5. data[Wrap(x - 1)] = x
    BY <2>3 DEF DataExact
  <2>. QED
    BY <2>2, <2>3, <2>4, <2>5
<1>4. readable = [j \in 1..(sent - HeadAt) |-> data[Wrap(head + j - 1)]]
  BY <1>2, Zenon DEF readable, Ring
<1>. QED
  BY <1>2, <1>3, <1>4 DEF ReadableExact

\* A step that neither moves the head nor makes bytes readable.
LEMMA ReadableKept ==
  ASSUME IInv, IInv', sent' = sent, HeadAt' = HeadAt
  PROVE  readable' = readable
<1>1. ReadableExact /\ ReadableExact'
  BY ReadableBytes, PTL
<1>. QED
  BY <1>1 DEF ReadableExact

\* Bytes arrive within the stream.
LEMMA Arrives ==
  ASSUME IInv, IInv', sent' = sent, HeadAt' = HeadAt,
         NEW a \in 1..MaxStream, NEW b \in 1..MaxStream, ahead' = ahead \cup (a..b)
  PROVE  Stream!Next
<1>1. arrived' = arrived \cup (a..b)
  BY DEF arrived
<1>. QED
  BY <1>1, ReadableKept DEF Stream!Next, Stream!Arrive

\* cursize grows: all that has arrived without a gap becomes readable.
LEMMA Delivers ==
  ASSUME IInv, IInv', EnqueueAdds
  PROVE  Stream!Next
<1> DEFINE n == p_bytes
           more == [i \in 1..n |-> sent + i]
<1>1. /\ sent \in Nat /\ n \in Nat \ {0} /\ ahead \in SUBSET Nat /\ MaxStream \in Nat
      /\ (sent + 1)..(sent + n) \subseteq ahead /\ sent + n + 1 \notin ahead
      /\ sent' = sent + n /\ ahead' = {x \in ahead : x > sent'}
      /\ \A x \in ahead : sent < x /\ x <= MaxStream
      /\ c_pc' = c_pc /\ received' = received /\ c_bytes' = c_bytes
  BY BoundsAssumption DEF IInv, TypeOK, Window, EnqueueAdds, consumer
<1>2. n \in 1..MaxStream
  <2>1. sent + n \in ahead
    BY <1>1
  <2>. QED
    BY <2>1, <1>1
<1>3. HeadAt' = HeadAt
  BY <1>1 DEF HeadAt
<1>4. ReadableExact /\ ReadableExact'
  BY ReadableBytes, PTL
<1>5. PICK m \in Nat : m = sent - HeadAt
  BY <1>4 DEF ReadableExact
<1>6. /\ HeadAt \in Nat /\ NItems \in Nat /\ m + n <= NItems
      /\ readable = [i \in 1..m |-> HeadAt + i]
      /\ readable' = [i \in 1..(m + n) |-> HeadAt + i] /\ sent = HeadAt + m
  BY <1>1, <1>3, <1>4, <1>5, NItemsAssumption DEF ReadableExact
<1>7. readable' = readable \o more /\ Len(readable) = m
  <2>1. /\ readable \in Seq(Nat) /\ Len(readable) = m /\ more \in Seq(Nat) /\ Len(more) = n
        /\ readable' \in Seq(Nat) /\ Len(readable') = m + n
    BY <1>1, <1>6
  <2> HIDE DEF more
  <2>2. /\ readable \o more \in Seq(Nat) /\ Len(readable \o more) = m + n
        /\ \A i \in 1..(m + n) :
              (readable \o more)[i] = IF i <= m THEN readable[i] ELSE more[i - m]
    <3>1. /\ readable \o more \in Seq(Nat) /\ Len(readable \o more) = Len(readable) + Len(more)
          /\ \A i \in 1..(Len(readable) + Len(more)) :
               (readable \o more)[i] =
                 IF i <= Len(readable) THEN readable[i] ELSE more[i - Len(readable)]
      BY <2>1, ConcatProperties
    <3>. QED
      BY <3>1, <2>1
  <2>3. ASSUME NEW i \in 1..(m + n) PROVE readable'[i] = (readable \o more)[i]
    <3>1. CASE i <= m
      BY <3>1, <2>2, <1>1, <1>6
    <3>2. CASE i > m
      <4>1. i - m \in 1..n /\ HeadAt + i = sent + (i - m)
        BY <3>2, <1>1, <1>6
      <4>2. more[i - m] = sent + (i - m) /\ readable'[i] = HeadAt + i
        BY <4>1, <1>6 DEF more
      <4>3. (readable \o more)[i] = more[i - m]
        BY <3>2, <2>2
      <4>. QED
        BY <4>1, <4>2, <4>3
    <3>3. i <= m \/ i > m
      <4>1. m \in Nat /\ n \in Nat
        BY <1>1
      <4>. QED
        BY <4>1
    <3>. QED
      BY <3>1, <3>2, <3>3
  <2>. QED
    BY <2>1, <2>2, <2>3, SeqEqual
<1>8. arrived' = arrived
  <2>1. ASSUME NEW x PROVE x \in arrived' <=> x \in arrived
    <3>1. CASE x \in 1..sent
      BY <3>1, <1>1 DEF arrived
    <3>2. CASE x \in (sent + 1)..(sent + n)
      <4>1. x \in 1..sent' /\ x \in ahead
        BY <3>2, <1>1
      <4>. QED
        BY <4>1 DEF arrived
    <3>3. CASE x \notin 1..(sent + n)
      <4>1. x \notin 1..sent' /\ x \notin 1..sent
        BY <3>3, <1>1
      <4>2. x \in ahead => x \in ahead'
        BY <3>3, <1>1
      <4>. QED
        BY <4>1, <4>2, <1>1 DEF arrived
    <3>. QED
      BY <3>1, <3>2, <3>3, <1>1
  <2>. QED
    BY <2>1
<1>9. (sent + 1)..(sent + n) \subseteq arrived /\ sent + n + 1 \notin arrived
  BY <1>1 DEF arrived
<1>10. Stream!Deliver
  BY <1>1, <1>2, <1>6, <1>7, <1>8, <1>9 DEF Stream!Deliver
<1>. QED
  BY <1>10 DEF Stream!Next

\* The head moves: bytes have been read.
LEMMA IsRead ==
  ASSUME IInv, IInv', DequeueCopies
  PROVE  [Stream!Next]_<<arrived, sent, readable>>
<1> DEFINE n == c_bytes
<1>1. /\ sent \in Nat /\ n \in Nat /\ sent' = sent /\ ahead' = ahead
      /\ HeadAt = received /\ HeadAt' = received + n
  BY DEF IInv, TypeOK, DequeueCopies, HeadAt, producer
<1>2. ReadableExact /\ ReadableExact'
  BY ReadableBytes, PTL
<1>3. PICK m \in Nat : m = sent - HeadAt
  BY <1>2 DEF ReadableExact
<1>4. /\ HeadAt \in Nat /\ n <= m /\ readable = [i \in 1..m |-> HeadAt + i]
      /\ readable' = [i \in 1..(m - n) |-> HeadAt + n + i]
  BY <1>1, <1>2, <1>3, NItemsAssumption DEF ReadableExact
<1>5. arrived' = arrived
  BY <1>1 DEF arrived
<1>6. CASE n = 0
  <2>1. readable' = readable
    BY <1>1, <1>4, <1>6
  <2>. QED
    BY <2>1, <1>1, <1>5
<1>7. CASE n # 0
  <2>1. /\ readable \in Seq(Nat) /\ Len(readable) = m
        /\ readable' \in Seq(Nat) /\ Len(readable') = m - n
    BY <1>1, <1>4
  <2>2. /\ SubSeq(readable, n + 1, m) \in Seq(Nat)
        /\ Len(SubSeq(readable, n + 1, m)) = IF n + 1 <= m THEN m - (n + 1) + 1 ELSE 0
        /\ \A i \in 1..(m - (n + 1) + 1) :
             SubSeq(readable, n + 1, m)[i] = readable[(n + 1) + i - 1]
    <3>1. \A i \in (n + 1)..m : readable[i] \in Nat
      BY <2>1, <1>1
    <3>. QED
      BY <3>1, <1>1, SubSeqProperties
  <2>3. Len(SubSeq(readable, n + 1, m)) = m - n
    BY <2>2, <1>1, <1>4
  <2>4. ASSUME NEW i \in 1..(m - n) PROVE readable'[i] = SubSeq(readable, n + 1, m)[i]
    <3>1. i \in 1..(m - (n + 1) + 1) /\ (n + 1) + i - 1 = n + i /\ n + i \in 1..m
      BY <1>1, <1>4
    <3>2. SubSeq(readable, n + 1, m)[i] = HeadAt + (n + i)
      BY <3>1, <2>2, <1>4
    <3>. QED
      BY <3>2, <1>1, <1>4
  <2>5. readable' = SubSeq(readable, n + 1, m)
    BY <2>1, <2>2, <2>3, <2>4, SeqEqual
  <2>6. n \in 1..Len(readable)
    BY <2>1, <1>1, <1>4, <1>7
  <2>. QED
    BY <2>1, <2>5, <2>6, <1>1, <1>5 DEF Stream!Next, Stream!Read
<1>. QED
  BY <1>6, <1>7

\* Every step of the two ends is a step of the stream or leaves it alone.
LEMMA StreamStep ==
  ASSUME IInv, IInv', ~ Anyhow, [Next]_vars
  PROVE  [Stream!Next]_<<arrived, sent, readable>>
<1>1. ASSUME sent' = sent, ahead' = ahead, HeadAt' = HeadAt
      PROVE  [Stream!Next]_<<arrived, sent, readable>>
  BY <1>1, ReadableKept DEF arrived
<1>2. CASE EnqueueCopies
  <2>1. /\ sent' = sent /\ ahead' = ahead \cup ((sent + 1)..(sent + p_bytes))
        /\ c_pc' = c_pc /\ received' = received /\ c_bytes' = c_bytes
        /\ sent \in Nat /\ p_bytes \in Nat \ {0} /\ sent + p_bytes <= MaxStream
    BY <1>2 DEF IInv, TypeOK, Window, EnqueueCopies, consumer
  <2>2. HeadAt' = HeadAt
    BY <2>1 DEF HeadAt
  <2>3. sent + 1 \in 1..MaxStream /\ sent + p_bytes \in 1..MaxStream
    BY <2>1, BoundsAssumption
  <2>. QED
    BY <2>1, <2>2, <2>3, Arrives
<1>3. CASE EnqueueAdds
  BY <1>3, Delivers
<1>4. ASSUME NEW n \in 1..MaxBytes, NEW o \in 1..NItems, sent + o + n <= MaxStream,
             EnqueueWithOffset(o, n)
      PROVE  [Stream!Next]_<<arrived, sent, readable>>
  <2>1. /\ sent' = sent /\ ahead' = ahead \cup ((sent + o + 1)..(sent + o + n))
        /\ c_pc' = c_pc /\ received' = received /\ c_bytes' = c_bytes
        /\ sent \in Nat
    BY <1>4 DEF IInv, TypeOK, EnqueueWithOffset, consumer
  <2>2. HeadAt' = HeadAt
    BY <2>1 DEF HeadAt
  <2>3. sent + o + 1 \in 1..MaxStream /\ sent + o + n \in 1..MaxStream
    BY <2>1, <1>4, BoundsAssumption, NItemsAssumption
  <2>. QED
    BY <2>1, <2>2, <2>3, Arrives
<1>5. ASSUME NEW n \in 1..MaxBytes, Enqueue(n)
      PROVE  sent' = sent /\ ahead' = ahead /\ HeadAt' = HeadAt
  BY <1>5 DEF Enqueue, consumer, HeadAt
<1>6. CASE DequeueCopies
  BY <1>6, IsRead
<1>7. CASE DequeueSubtracts \/ PeekCopies \/ PeekReturns
  BY <1>1, <1>7 DEF DequeueSubtracts, PeekCopies, PeekReturns, producer, HeadAt
<1>8. ASSUME NEW n \in 1..MaxBytes,
             \/ Dequeue("copy", n) \/ Dequeue("drop", n)
             \/ \E o \in 0..(NItems - 1) : Peek(o, n)
      PROVE  sent' = sent /\ ahead' = ahead /\ HeadAt' = HeadAt
  BY <1>8 DEF Dequeue, Peek, producer, HeadAt
<1>9. CASE UNCHANGED vars
  BY <1>1, <1>9 DEF vars, producer, consumer, HeadAt
<1>. QED
  BY <1>1, <1>2, <1>3, <1>4, <1>5, <1>6, <1>7, <1>8, <1>9 DEF Next, Producer, Consumer

\* Whatever the interleaving of the two processes, svm_fifo_enqueue_nowait,
\* svm_fifo_enqueue_with_offset, svm_fifo_dequeue_nowait and svm_fifo_dequeue_drop
\* carry the stream: the consumer finds its bytes in order and each once, and all
\* of those that have arrived without a gap.
THEOREM Refinement ==
  ASSUME ~ Anyhow
  PROVE  Spec => ImplementsStream
<1>1. Init => Stream!Init
  <2> SUFFICES ASSUME Init PROVE Stream!Init
    OBVIOUS
  <2>1. arrived = {}
    BY DEF Init, arrived
  <2>2. readable = <<>>
    BY DEF Init, readable, Ring
  <2>. QED
    BY <2>1, <2>2 DEF Init, Stream!Init
<1>2. IInv /\ IInv' /\ [Next]_vars => [Stream!Next]_<<arrived, sent, readable>>
  BY StreamStep
<1>. QED
  BY <1>1, <1>2, IInvHolds, PTL DEF Spec, ImplementsStream, Stream!Spec
=============================================================================
