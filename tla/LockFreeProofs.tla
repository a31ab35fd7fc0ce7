---------------------------- MODULE LockFreeProofs ----------------------------
(***************************************************************************)
(* The two structures that threads use without a lock: the frame queue,    *)
(* whose producers and consumer take no lock at all, and the hash table,   *)
(* whose readers take none.                                                *)
(*                                                                         *)
(* For every set of producers, every ring size and every packet limit: a   *)
(* handoff queue neither loses nor repeats nor reorders a frame, and no    *)
(* two threads touch one element at the same time.  All of it rests on one *)
(* fact about the ring: the tickets that may have an element are fewer     *)
(* than nelts apart, so that they have different elements (SameSlot).      *)
(*                                                                         *)
(* For every hash function, number of buckets, page size, sets of writers  *)
(* and of readers: the hash table is a map that changes in one step per    *)
(* update, and a search which is not disturbed finds what is in it.  This  *)
(* rests on an invariant of the blocks (the pages of a bucket are its own, *)
(* and have each of its keys once, where a search looks for it) and on     *)
(* counting: the n-th of the places in use is defined, for each n, by the  *)
(* number of those before it (Ranks), so that no pair is lost or doubled   *)
(* when the pairs are dealt to other pages.                                *)
(***************************************************************************)
EXTENDS FrameQueue, Bihash, FiniteSetTheorems, SequenceTheorems, TLAPS

-----------------------------------------------------------------------------
(***************************************************************************)
(* The frame queue                                                         *)
(***************************************************************************)

\* RingDivision with remainder, for the ring size.
LEMMA RingDivision ==
  ASSUME NEW a \in Nat
  PROVE  /\ a = NElts * (a \div NElts) + (a % NElts)
         /\ a % NElts \in 0..(NElts - 1)
         /\ a \div NElts \in Nat
  BY NEltsAssumption

\* new_tail & (fq->nelts - 1) is an index of the ring.
LEMMA SlotType ==
  ASSUME NEW t \in Nat
  PROVE  Slot(t) \in Slots
  BY RingDivision DEF Slot, Slots

\* Two tickets less than nelts apart have the same element only if they are the
\* same ticket.
LEMMA SameSlotOrdered ==
  ASSUME NEW a \in Nat, NEW b \in Nat, a <= b, b < a + NElts, Slot(a) = Slot(b)
  PROVE  a = b
<1> DEFINE qa == a \div NElts
           qb == b \div NElts
           r == a % NElts
<1>1. a = NElts * qa + r /\ qa \in Nat /\ r \in Nat
  BY RingDivision, NEltsAssumption
<1>2. b = NElts * qb + r /\ qb \in Nat
  BY RingDivision DEF Slot
<1> HIDE DEF qa, qb, r
<1>3. b - a = NElts * qb - NElts * qa
  BY <1>1, <1>2, NEltsAssumption
<1>4. NElts * qb - NElts * qa = NElts * (qb - qa)
  BY <1>1, <1>2, NEltsAssumption
<1>5. CASE qb - qa >= 1
  BY <1>5, <1>3, <1>4, <1>1, <1>2, NEltsAssumption
<1>6. CASE qb - qa <= 0
  BY <1>6, <1>3, <1>4, <1>1, <1>2, NEltsAssumption
<1>. QED
  BY <1>5, <1>6, <1>1, <1>2

\* The same for two tickets of one window of nelts tickets.
LEMMA SameSlot ==
  ASSUME NEW h \in Nat, NEW a \in Nat, NEW b \in Nat,
         h < a, a <= h + NElts, h < b, b <= h + NElts,
         Slot(a) = Slot(b)
  PROVE  a = b
<1>1. CASE a <= b
  BY <1>1, SameSlotOrdered, NEltsAssumption
<1>2. CASE b <= a
  BY <1>2, SameSlotOrdered, NEltsAssumption
<1>. QED
  BY <1>1, <1>2

\* Granted elements of two producers are different, and so are the element of a
\* granted producer and any valid element.
LEMMA OwnersApart ==
  ASSUME IInv, NEW p \in Producers, Owns(p)
  PROVE  /\ Slot(new_tail[p]) \in Slots
         /\ new_tail[p] \in Nat
         /\ \A q \in Producers \ {p} :
              Owns(q) => Slot(new_tail[q]) # Slot(new_tail[p])
         /\ ConsumerReads => Slot(new_tail[p]) # NextSlot
<1>1. new_tail[p] \in Nat
  BY DEF IInv, TypeOK
<1>2. Slot(new_tail[p]) \in Slots
  BY <1>1, SlotType
<1>3. ASSUME NEW q \in Producers \ {p}, Owns(q)
      PROVE  Slot(new_tail[q]) # Slot(new_tail[p])
  <2>1. /\ head \in Nat /\ head_hint \in Nat /\ head_hint <= head
        /\ new_tail[q] \in Nat /\ new_tail[p] \in Nat
    BY <1>3 DEF IInv, TypeOK, HintBehindHead
  <2>2. /\ prod_pc[p] # "idle" /\ prod_pc[q] # "idle"
    BY <1>3 DEF Owns
  <2>3. /\ head < new_tail[p] /\ head < new_tail[q]
        /\ new_tail[q] # new_tail[p]
    BY <1>3, <2>2 DEF IInv, HeldTickets
  <2>4. /\ new_tail[p] < head_hint + NElts
        /\ new_tail[q] < head_hint + NElts
    BY <1>3 DEF IInv, OwnedElements
  <2>5. /\ new_tail[p] <= head + NElts
        /\ new_tail[q] <= head + NElts
    BY <2>1, <2>4, NEltsAssumption
  <2>. QED
    BY <2>1, <2>3, <2>5, SameSlot
<1>4. ConsumerReads => Slot(new_tail[p]) # NextSlot
  BY DEF IInv, OwnedElements, ConsumerPhase
<1>. QED
  BY <1>1, <1>2, <1>3, <1>4

\* The consumer looks at an element of the ring.
LEMMA NextSlotType ==
  ASSUME IInv
  PROVE  NextSlot \in Slots /\ head \in Nat
<1>1. head \in Nat /\ head + 1 \in Nat
  BY DEF IInv, TypeOK
<1>. QED
  BY <1>1, SlotType DEF NextSlot

\* A valid element in the consumer's place carries the next ticket.
LEMMA NextFrame ==
  ASSUME IInv, elts[NextSlot].valid = 1
  PROVE  elts[NextSlot].frame = head + 1
<1>1. /\ head \in Nat /\ head_hint \in Nat /\ head_hint <= head
  BY DEF IInv, TypeOK, HintBehindHead
<1>2. NextSlot \in Slots
  BY <1>1, SlotType DEF NextSlot
<1>3. elts[NextSlot].frame \in Nat
  BY <1>2 DEF IInv, TypeOK, Elt, Tickets
<1>4. /\ head < elts[NextSlot].frame
      /\ elts[NextSlot].frame < head_hint + NElts
      /\ Slot(elts[NextSlot].frame) = Slot(head + 1)
  BY <1>2 DEF IInv, ValidElements, NextSlot
<1>5. elts[NextSlot].frame <= head + NElts /\ head + 1 <= head + NElts
  BY <1>1, <1>3, <1>4, NEltsAssumption
<1>. QED
  BY <1>1, <1>3, <1>4, <1>5, SameSlot, head + 1 \in Nat, head < head + 1

\* The zeroed queue of vlib_frame_queue_alloc satisfies the invariant.
LEMMA InitIInv == Init => IInv
<1>. SUFFICES ASSUME Init PROVE IInv
  OBVIOUS
<1>1. TypeOK
  BY MaxTailAssumption DEF Init, TypeOK, Elt, Tickets, ProducerStates, ConsumerStates
<1>2. HintBehindHead /\ HeldTickets /\ OwnedElements /\ ValidElements
  BY DEF Init, HintBehindHead, HeldTickets, OwnedElements, ValidElements, Owns
<1>3. ConsumerPhase /\ Delivered
  BY DEF Init, ConsumerPhase, ConsumerReads, Delivered
<1>. QED
  BY <1>1, <1>2, <1>3 DEF IInv

\* Taking a ticket: it is ahead of every other one.
LEMMA TakeTicketIInv ==
  ASSUME IInv, NEW p \in Producers, TakeTicket(p)
  PROVE  IInv'
<1>. USE DEF TakeTicket, MoveProducer
<1>1. TypeOK'
  BY MaxTailAssumption DEF IInv, TypeOK, ProducerStates
<1>2. HintBehindHead'
  BY DEF IInv, TypeOK, HintBehindHead
<1>3. HeldTickets'
  BY DEF IInv, TypeOK, HintBehindHead, HeldTickets
<1>4. OwnedElements'
  BY DEF IInv, TypeOK, OwnedElements, Owns
<1>5. ValidElements'
  BY DEF IInv, TypeOK, ValidElements, Elt, Tickets
<1>6. ConsumerPhase'
  BY DEF IInv, TypeOK, HintBehindHead, ConsumerPhase, ConsumerReads, NextSlot
<1>7. Delivered'
  BY DEF IInv, Delivered
<1>. QED
  BY <1>1, <1>2, <1>3, <1>4, <1>5, <1>6, <1>7 DEF IInv

\* A granted ticket is less than nelts ahead of head, hence not the ticket of
\* a valid element in the same place.
LEMMA SlotAvailableIInv ==
  ASSUME IInv, NEW p \in Producers, SlotAvailable(p)
  PROVE  IInv'
<1>. USE DEF SlotAvailable, MoveProducer
<1>1. TypeOK'
  BY DEF IInv, TypeOK, ProducerStates
<1>2. HintBehindHead' /\ Delivered'
  BY DEF IInv, HintBehindHead, Delivered
<1>3. HeldTickets'
  BY DEF IInv, TypeOK, HeldTickets
<1>4. elts[Slot(new_tail[p])].valid = 0
  <2> DEFINE t == new_tail[p]
             e == elts[Slot(t)]
  <2>1. /\ t \in Nat /\ head \in Nat /\ head_hint \in Nat /\ head_hint <= head
        /\ Slot(t) \in Slots
    BY SlotType DEF IInv, TypeOK, HintBehindHead
  <2>2. head < t /\ t <= head + NElts
    BY <2>1, NEltsAssumption DEF IInv, HeldTickets
  <2>3. e.valid \in {0, 1} /\ e.frame \in Nat
    BY <2>1 DEF IInv, TypeOK, Elt, Tickets
  <2>4. ASSUME e.valid = 1 PROVE FALSE
    <3>1. /\ head < e.frame /\ e.frame < head_hint + NElts
          /\ Slot(e.frame) = Slot(t) /\ t # e.frame
      BY <2>1, <2>4 DEF IInv, ValidElements
    <3>2. e.frame <= head + NElts
      BY <3>1, <2>1, <2>3, NEltsAssumption
    <3>. QED
      BY <3>1, <3>2, <2>1, <2>2, <2>3, SameSlot
  <2>. QED
    BY <2>3, <2>4
<1>5. OwnedElements'
  BY <1>4 DEF IInv, TypeOK, OwnedElements, Owns
<1>6. ValidElements'
  BY DEF IInv, TypeOK, ValidElements
<1>7. ConsumerPhase'
  BY DEF IInv, TypeOK, ConsumerPhase, ConsumerReads, NextSlot
<1>. QED
  BY <1>1, <1>2, <1>3, <1>5, <1>6, <1>7 DEF IInv

\* Resetting the element disturbs no other producer and no valid element.
LEMMA ClaimEltIInv ==
  ASSUME IInv, NEW p \in Producers, ClaimElt(p)
  PROVE  IInv'
<1>. USE DEF ClaimElt, MoveProducer
<1>0. Owns(p) /\ Slot(new_tail[p]) \in Slots
  BY OwnersApart DEF Owns
<1>1. TypeOK'
  <2>1. elts' \in [Slots -> Elt]
    BY <1>0 DEF IInv, TypeOK, Elt
  <2>. QED
    BY <2>1 DEF IInv, TypeOK, ProducerStates
<1>2. HintBehindHead' /\ Delivered'
  BY DEF IInv, HintBehindHead, Delivered
<1>3. HeldTickets'
  BY DEF IInv, TypeOK, HeldTickets
<1>4. OwnedElements'
  BY <1>0, OwnersApart DEF IInv, TypeOK, OwnedElements, Owns
<1>5. ValidElements'
  BY <1>0 DEF IInv, TypeOK, ValidElements
<1>6. ConsumerPhase'
  BY <1>0 DEF IInv, TypeOK, ConsumerPhase, ConsumerReads, NextSlot
<1>. QED
  BY <1>1, <1>2, <1>3, <1>4, <1>5, <1>6 DEF IInv

\* Filling the element stores the producer's own ticket there and nowhere else.
LEMMA FillEltIInv ==
  ASSUME IInv, NEW p \in Producers, NEW n \in Sizes, FillElt(p, n)
  PROVE  IInv'
<1>. USE DEF FillElt, MoveProducer
<1>0. Owns(p) /\ Slot(new_tail[p]) \in Slots
  BY OwnersApart DEF Owns
<1>1. TypeOK'
  <2>1. new_tail[p] \in Tickets
    BY <1>0 DEF IInv, TypeOK, HeldTickets, Owns, Tickets
  <2>2. elts' \in [Slots -> Elt]
    BY ZenonT(60), <1>0, <2>1 DEF IInv, TypeOK, Elt
  <2>. QED
    BY <2>2 DEF IInv, TypeOK, ProducerStates
<1>2. HintBehindHead' /\ Delivered'
  BY DEF IInv, HintBehindHead, Delivered
<1>3. HeldTickets'
  BY DEF IInv, TypeOK, HeldTickets
<1>4. OwnedElements'
  BY <1>0, OwnersApart DEF IInv, TypeOK, OwnedElements, Owns
<1>5. ValidElements'
  BY <1>0 DEF IInv, TypeOK, ValidElements, OwnedElements
<1>6. ConsumerPhase'
  <2>1. NextSlot \in Slots
    BY NextSlotType
  <2>2. elts'[NextSlot].valid = elts[NextSlot].valid
    BY <1>0, <2>1 DEF IInv, TypeOK
  <2>3. /\ cons_pc' = cons_pc /\ head' = head /\ tail' = tail
        /\ NextSlot' = NextSlot /\ new_tail' = new_tail
        /\ \A q \in Producers : prod_pc'[q] # "idle" => prod_pc[q] # "idle"
    BY DEF IInv, TypeOK, NextSlot
  <2>. QED
    BY <2>2, <2>3 DEF IInv, ConsumerPhase, ConsumerReads
<1>. QED
  BY <1>1, <1>2, <1>3, <1>4, <1>5, <1>6 DEF IInv

\* Putting the element hands its ticket over from the producer to the element.
LEMMA PutEltIInv ==
  ASSUME IInv, NEW p \in Producers, PutElt(p)
  PROVE  IInv'
<1>. USE DEF PutElt, MoveProducer
<1>0. Owns(p) /\ Slot(new_tail[p]) \in Slots
  BY OwnersApart DEF Owns
<1>1. TypeOK'
  <2>1. elts' \in [Slots -> Elt]
    BY <1>0 DEF IInv, TypeOK, Elt
  <2>. QED
    BY <2>1, MaxTailAssumption DEF IInv, TypeOK, ProducerStates
<1>2. HintBehindHead' /\ Delivered'
  BY DEF IInv, HintBehindHead, Delivered
<1>3. HeldTickets'
  BY DEF IInv, TypeOK, HeldTickets
<1>4. OwnedElements'
  BY <1>0, OwnersApart DEF IInv, TypeOK, OwnedElements, Owns
<1>5. ValidElements'
  <2>. SUFFICES ASSUME NEW i \in Slots, elts'[i].valid = 1
                PROVE  /\ head < elts'[i].frame /\ elts'[i].frame <= tail
                       /\ elts'[i].frame < head_hint + NElts
                       /\ Slot(elts'[i].frame) = i
                       /\ elts'[i].n_vectors \in Sizes
                       /\ \A q \in Producers :
                            prod_pc'[q] # "idle" => new_tail'[q] # elts'[i].frame
    BY DEF ValidElements
  <2>1. CASE i = Slot(new_tail[p])
    BY <1>0, <2>1 DEF IInv, TypeOK, OwnedElements, HeldTickets, Owns
  <2>2. CASE i # Slot(new_tail[p])
    BY <1>0, <2>2 DEF IInv, TypeOK, ValidElements
  <2>. QED
    BY <2>1, <2>2
<1>6. ConsumerPhase'
  <2>1. cons_pc = "advance" => Slot(new_tail[p]) # NextSlot
    <3>. SUFFICES ASSUME cons_pc = "advance" PROVE Slot(new_tail[p]) # NextSlot
      OBVIOUS
    <3>1. /\ new_tail[p] \in Nat /\ head \in Nat /\ head_hint \in Nat
          /\ head_hint <= head
      BY DEF IInv, TypeOK, HintBehindHead
    <3>2. head < new_tail[p] /\ new_tail[p] # head + 1
      BY DEF IInv, HeldTickets, ConsumerPhase
    <3>3. new_tail[p] <= head + NElts /\ head + 1 <= head + NElts
      BY <1>0, <3>1, NEltsAssumption DEF IInv, OwnedElements
    <3>. QED
      BY <3>1, <3>2, <3>3, SameSlot, head + 1 \in Nat, head < head + 1 DEF NextSlot
  <2>2. NextSlot \in Slots
    BY NextSlotType
  <2>. QED
    BY <1>0, <2>1, <2>2 DEF IInv, TypeOK, ConsumerPhase, ConsumerReads, NextSlot
<1>. QED
  BY <1>1, <1>2, <1>3, <1>4, <1>5, <1>6 DEF IInv

\* Steps of the consumer that change nothing but its place, its packet count
\* and the hint, which stays at or behind head.
LEMMA ConsumerMovesIInv ==
  ASSUME IInv,
         \/ DequeueCalled \/ QueueEmpty \/ QueueNotEmpty
         \/ EltNotValid \/ EltValid
  PROVE  IInv'
<1>0. /\ UNCHANGED <<tail, head, elts, new_tail, prod_pc, dispatched>>
      /\ head_hint' \in {head_hint, head}
      /\ vectors' \in Nat
      /\ cons_pc' \in ConsumerStates \ {"clear", "advance"}
      /\ cons_pc \notin {"clear", "advance"}
      /\ cons_pc' \notin {"idle", "empty"} => head # tail \/ cons_pc = "valid"
      /\ cons_pc' = "copy" => elts[NextSlot].valid = 1
  BY DEF IInv, TypeOK, ConsumerStates, DequeueReturns,
         DequeueCalled, QueueEmpty, QueueNotEmpty, EltNotValid, EltValid
<1>h. head_hint <= head_hint' /\ head_hint' <= head /\ head_hint' \in 0..MaxTail
  BY <1>0 DEF IInv, TypeOK, HintBehindHead
<1>1. TypeOK'
  BY <1>0, <1>h DEF IInv, TypeOK
<1>2. HintBehindHead'
  BY <1>0, <1>h DEF IInv, HintBehindHead
<1>3. HeldTickets'
  BY <1>0 DEF IInv, HeldTickets
<1>4. OwnedElements'
  <2>1. \A p \in Producers : new_tail[p] \in Nat
    BY DEF IInv, TypeOK
  <2>2. ASSUME NEW p \in Producers, new_tail[p] < head_hint + NElts
        PROVE  new_tail[p] < head_hint' + NElts
    BY <1>h, <2>1, <2>2, NEltsAssumption DEF IInv, TypeOK
  <2>. QED
    BY <1>0, <2>2 DEF IInv, OwnedElements, Owns
<1>5. ValidElements'
  <2>1. \A i \in Slots : elts[i].frame \in Nat
    BY DEF IInv, TypeOK, Elt, Tickets
  <2>2. ASSUME NEW i \in Slots, elts[i].frame < head_hint + NElts
        PROVE  elts[i].frame < head_hint' + NElts
    BY <1>h, <2>1, <2>2, NEltsAssumption DEF IInv, TypeOK
  <2>. QED
    BY <1>0, <2>2 DEF IInv, ValidElements
<1>6. ConsumerPhase'
  BY <1>0 DEF IInv, TypeOK, HintBehindHead, ConsumerPhase, ConsumerReads,
     NextSlot, ConsumerStates
<1>7. Delivered'
  BY <1>0 DEF IInv, Delivered
<1>. QED
  BY <1>1, <1>2, <1>3, <1>4, <1>5, <1>6, <1>7 DEF IInv

\* The frame that is copied is the one of the next ticket.
LEMMA CopyEltIInv ==
  ASSUME IInv, CopyElt
  PROVE  IInv'
<1>. USE DEF CopyElt
<1>0. /\ NextSlot \in Slots /\ head \in Nat
      /\ elts[NextSlot].frame = head + 1
  BY NextSlotType, NextFrame DEF IInv, ConsumerPhase, ConsumerReads
<1>1. TypeOK'
  <2>0. elts[NextSlot] \in Elt
    BY <1>0 DEF IInv, TypeOK
  <2>1. elts[NextSlot].frame \in 0..MaxTail
    BY <2>0, MaxTailAssumption DEF Elt, Tickets
  <2>2. elts[NextSlot].n_vectors \in Nat
    <3>1. elts[NextSlot].n_vectors \in Sizes \cup {0}
      BY <2>0 DEF Elt
    <3>2. \A n \in Sizes : n \in Nat
      BY SizesAssumption
    <3>. QED
      BY <3>1, <3>2, 0 \in Nat
  <2>3. dispatched' \in Seq(0..MaxTail)
    BY <2>1 DEF IInv, TypeOK
  <2>4. vectors' \in Nat
    BY <2>2 DEF IInv, TypeOK
  <2>. QED
    BY <2>3, <2>4 DEF IInv, TypeOK, ConsumerStates
<1>2. HintBehindHead' /\ HeldTickets'
  BY DEF IInv, HintBehindHead, HeldTickets
<1>3. OwnedElements' /\ ValidElements'
  BY DEF IInv, OwnedElements, ValidElements, Owns
<1>4. ConsumerPhase'
  BY DEF IInv, ConsumerPhase, ConsumerReads, NextSlot
<1>5. Delivered'
  <2>1. dispatched \in Seq(0..MaxTail) /\ Len(dispatched) = head
    BY DEF IInv, TypeOK, Delivered
  <2>2. /\ Len(dispatched') = head + 1
        /\ \A i \in 1..head : dispatched'[i] = dispatched[i]
        /\ dispatched'[head + 1] = head + 1
        /\ DOMAIN dispatched' = 1..(head + 1)
        /\ DOMAIN dispatched = 1..head
    BY <1>0, <2>1
  <2>3. \A i \in DOMAIN dispatched' : dispatched'[i] = i
    BY <1>0, <2>2 DEF IInv, Delivered
  <2>. QED
    BY <2>2, <2>3 DEF Delivered
<1>. QED
  BY <1>1, <1>2, <1>3, <1>4, <1>5 DEF IInv

\* Clearing the element frees it; nobody holds its ticket.
LEMMA ClearEltIInv ==
  ASSUME IInv, ClearElt
  PROVE  IInv'
<1>. USE DEF ClearElt
<1>n. NextSlot' = NextSlot
  BY DEF NextSlot
<1>0. /\ NextSlot \in Slots
      /\ elts[NextSlot].valid = 1
      /\ elts[NextSlot].frame = head + 1
  BY NextSlotType, NextFrame DEF IInv, ConsumerPhase, ConsumerReads
<1>e. /\ elts' \in [Slots -> Elt]
      /\ elts'[NextSlot].valid = 0
      /\ \A i \in Slots \ {NextSlot} : elts'[i] = elts[i]
  BY <1>0 DEF IInv, TypeOK, Elt
<1>1. TypeOK'
  BY <1>e DEF IInv, TypeOK, ConsumerStates
<1>2. HintBehindHead' /\ HeldTickets' /\ Delivered'
  BY DEF IInv, HintBehindHead, HeldTickets, Delivered
<1>3. OwnedElements'
  <2>. SUFFICES ASSUME NEW p \in Producers, Owns(p)
                PROVE  elts'[Slot(new_tail[p])] = elts[Slot(new_tail[p])]
    BY DEF IInv, OwnedElements, Owns
  <2>. QED
    BY <1>e, OwnersApart DEF ConsumerReads
<1>4. ValidElements'
  <2>. SUFFICES ASSUME NEW i \in Slots, elts'[i].valid = 1
                PROVE  elts'[i] = elts[i]
    BY DEF IInv, ValidElements
  <2>. QED
    BY <1>e
<1>5. ConsumerPhase'
  <2>1. \A p \in Producers : prod_pc[p] # "idle" => new_tail[p] # head + 1
    BY <1>0 DEF IInv, ValidElements
  <2>. QED
    BY <1>0, <1>n, <1>e, <2>1 DEF IInv, ConsumerPhase, ConsumerReads
<1>. QED
  BY <1>1, <1>2, <1>3, <1>4, <1>5 DEF IInv

\* Advancing head leaves the next ticket behind, which nobody holds and no
\* valid element carries.
LEMMA AdvanceHeadIInv ==
  ASSUME IInv, AdvanceHead
  PROVE  IInv'
<1>. USE DEF AdvanceHead
<1>0. /\ head \in Nat /\ tail \in Nat /\ head_hint \in Nat /\ MaxTail \in Nat
      /\ head_hint <= head /\ head < tail /\ tail <= MaxTail
      /\ head' = head + 1
      /\ head_hint' \in {head_hint, head + 1}
      /\ cons_pc' \in {"idle", "empty"}
  BY MaxTailAssumption
     DEF IInv, TypeOK, HintBehindHead, ConsumerPhase, DequeueReturns
<1>h. head_hint <= head_hint' /\ head_hint' <= head' /\ head_hint' \in 0..MaxTail
  BY <1>0
<1>1. TypeOK'
  BY <1>0, <1>h DEF IInv, TypeOK, ConsumerStates
<1>2. HintBehindHead'
  BY <1>0, <1>h DEF HintBehindHead
<1>3. HeldTickets'
  <2>1. ASSUME NEW p \in Producers, prod_pc[p] # "idle"
        PROVE  head' < new_tail[p]
    <3>1. new_tail[p] \in Nat /\ head < new_tail[p] /\ new_tail[p] # head + 1
      BY <2>1 DEF IInv, TypeOK, HeldTickets, ConsumerPhase
    <3>. QED
      BY <1>0, <3>1
  <2>. QED
    BY <2>1 DEF IInv, HeldTickets
<1>4. OwnedElements'
  <2>1. ASSUME NEW p \in Producers, new_tail[p] < head_hint + NElts
        PROVE  new_tail[p] < head_hint' + NElts
    BY <1>0, <1>h, <2>1, NEltsAssumption DEF IInv, TypeOK
  <2>. QED
    BY <2>1 DEF IInv, OwnedElements, Owns
<1>5. ValidElements'
  <2>1. ASSUME NEW i \in Slots, elts[i].valid = 1
        PROVE  head' < elts[i].frame /\ elts[i].frame < head_hint' + NElts
    <3>1. /\ elts[i].frame \in Nat /\ head < elts[i].frame
          /\ elts[i].frame < head_hint + NElts /\ Slot(elts[i].frame) = i
      BY <2>1 DEF IInv, TypeOK, Elt, Tickets, ValidElements
    <3>2. i # NextSlot
      BY <2>1 DEF IInv, ConsumerPhase
    <3>3. elts[i].frame # head + 1
      BY <3>1, <3>2 DEF NextSlot
    <3>. QED
      BY <1>0, <1>h, <3>1, <3>3, NEltsAssumption
  <2>. QED
    BY <2>1 DEF IInv, ValidElements
<1>6. ConsumerPhase'
  BY <1>0 DEF ConsumerPhase, ConsumerReads
<1>7. Delivered'
  BY <1>0 DEF IInv, Delivered
<1>. QED
  BY <1>1, <1>2, <1>3, <1>4, <1>5, <1>6, <1>7 DEF IInv

\* A ticket is in one place at a time, in every reachable state.
THEOREM IInvHolds == Spec => []IInv
<1>1. IInv /\ [Next]_vars => IInv'
  <2>. SUFFICES ASSUME IInv, [Next]_vars PROVE IInv'
    OBVIOUS
  <2>1. CASE Consume
    BY <2>1, ConsumerMovesIInv, CopyEltIInv, ClearEltIInv, AdvanceHeadIInv DEF Consume
  <2>2. CASE \E p \in Producers : Produce(p)
    BY <2>2, TakeTicketIInv, SlotAvailableIInv, ClaimEltIInv, FillEltIInv, PutEltIInv
       DEF Produce
  <2>3. CASE UNCHANGED vars
    BY <2>3 DEF vars, IInv, TypeOK, HintBehindHead, HeldTickets, OwnedElements,
       ValidElements, ConsumerPhase, Delivered, Owns, ConsumerReads, NextSlot
  <2>. QED
    BY <2>1, <2>2, <2>3 DEF Next
<1>. QED
  BY InitIInv, <1>1, PTL DEF Spec

\* Every variable of the queue keeps its type.
THEOREM TypeCorrect == Spec => []TypeOK
<1>1. IInv => TypeOK
  BY DEF IInv
<1>. QED
  BY <1>1, IInvHolds, PTL

\* "this would be very bad...": a granted producer never spins on the flag.
THEOREM GrantedIsFree == Spec => []NeverSpinsOnValid
<1>1. IInv => NeverSpinsOnValid
  BY DEF IInv, OwnedElements, NeverSpinsOnValid, Owns
<1>. QED
  BY <1>1, IInvHolds, PTL

\* No two threads are in one element of the ring at the same time.
THEOREM Exclusive == Spec => []ExclusiveElement
<1>1. IInv => ExclusiveElement
  BY OwnersApart DEF ExclusiveElement
<1>. QED
  BY <1>1, IInvHolds, PTL

\* Frames reach the graph once each and in ticket order.
THEOREM Ordered == Spec => []InOrderOnce
<1>1. ASSUME IInv PROVE InOrderOnce
  <2>1. NextSlot \in Slots
    BY <1>1, NextSlotType
  <2>. QED
    BY <1>1, <2>1 DEF IInv, Delivered, InOrderOnce, ConsumerPhase, ConsumerReads,
       ValidElements
<1>. QED
  BY <1>1, IInvHolds, PTL

-----------------------------------------------------------------------------
(***************************************************************************)
(* The hash table                                                          *)
(***************************************************************************)

(***************************************************************************)
(* The inductive invariant                                                 *)
(***************************************************************************)

\* Bucket numbers, pairs as they are in a block (a free block has None in the place of
\* its first key), and buckets.
Indices == 0..(NBuckets - 1)
Cell == [key : Keys \cup {NoKey, None}, value : Values \cup {NoValue}]
Shapes == [offset : Nat \cup Writers, log2_pages : 0..MaxLog2, linear_search : BOOLEAN]

\* The pages of a bucket, while readers are sent to a copy of them too.
Home(b) ==
  IF w_pc \in {"copied", "changed"} /\ b = ThisBucket THEN saved_bucket ELSE buckets[b]

\* A block of pairs of bucket b, pages as in s: a key is on its page, and once.
Sound(block, s, b) ==
  /\ block \in [1..Size(s.log2_pages) -> Cell]
  /\ \A i \in 1..Size(s.log2_pages) : block[i].key # NoKey =>
       /\ block[i].key \in DOMAIN table.hash
       /\ BucketIndex(block[i].key) = b
       /\ i \in Places(block[i].key, s)
  /\ \A i, j \in 1..Size(s.log2_pages) :
       block[i].key # NoKey /\ block[i].key = block[j].key => i = j

\* The blocks in live are not on the free lists, and no block is there twice.
Separate(m, live) ==
  /\ m.heap \in Seq(Seq(Cell))
  /\ m.free \in [0..MaxLog2 -> Seq(Nat)]
  /\ live \subseteq 1..Len(m.heap)
  /\ \A n \in 0..MaxLog2 : \A i \in 1..Len(m.free[n]) :
       m.free[n][i] \in (1..Len(m.heap)) \ live
  /\ \A n, p \in 0..MaxLog2 : \A i \in 1..Len(m.free[n]), j \in 1..Len(m.free[p]) :
       m.free[n][i] = m.free[p][j] => n = p /\ i = j

\* The blocks in use: the pages of the buckets, and those a bucket has grown out of.
Live ==
  ({Home(b).offset : b \in Indices} \cup
   (IF w_pc = "grown" THEN {saved_bucket.offset} ELSE {})) \ {0}

\* The type of every variable but the blocks, which are in Separate.
BihashTypeOK ==
  /\ table \in Tables
  /\ buckets \in [Indices -> Shapes]
  /\ working_copies \in [Writers -> Seq(Cell)]
  /\ saved_bucket \in Shapes
  /\ writer_lock \in Writers \cup {None}
  /\ w_pc \in {"idle", "locked", "copied", "changed", "grown"}
  /\ add_v \in [key : Keys \cup {NoKey}, value : Values \cup {NoValue}]
  /\ search \in [Readers -> [pc : {"idle", "offset", "shape"}, key : Keys \cup {NoKey},
                             bucket : Shapes]]
  /\ overlap \in [Readers -> SUBSET Writers]
  /\ disturbed \in [Readers -> BOOLEAN]

\* The lock is held, for a key of the table, whenever an update is under way.
WriterInv ==
  /\ w_pc = "idle" => writer_lock = None /\ add_v = FreePair
  /\ w_pc # "idle" => writer_lock # None /\ add_v.key \in DOMAIN table.hash

\* Every bucket has sound pages of its own, and what it has grown out of is no
\* bucket's.
BlocksInv ==
  /\ Separate([heap |-> heap, free |-> freelists], Live)
  /\ \A b \in Indices : Home(b).offset \in Nat
  /\ \A b \in Indices : Home(b).offset # 0 => Sound(heap[Home(b).offset], Home(b), b)
  /\ \A b, c \in Indices : Home(b).offset # 0 /\ Home(b).offset = Home(c).offset => b = c
  /\ w_pc = "grown" =>
       /\ saved_bucket.offset \in Nat \ {0}
       /\ \A b \in Indices : Home(b).offset # saved_bucket.offset

\* While readers are sent to the working copy of the writer: it is what the pages
\* were before the change.
CopyInv ==
  w_pc \in {"copied", "changed"} =>
    /\ saved_bucket.offset # 0
    /\ buckets[ThisBucket] = [saved_bucket EXCEPT !.offset = writer_lock]
    /\ Sound(working_copies[writer_lock], saved_bucket, ThisBucket)
    /\ w_pc = "copied" => working_copies[writer_lock] = heap[saved_bucket.offset]
    /\ w_pc = "changed" =>
         \A k \in DOMAIN table.hash : BucketIndex(k) = ThisBucket =>
           Lookup(k, heap[saved_bucket.offset], saved_bucket) =
             IF k = add_v.key THEN add_v.value
             ELSE Lookup(k, working_copies[writer_lock], saved_bucket)

\* The working copy of w that reader r has been sent to.
Stale(r, w, k, h) ==
  /\ w \in Writers /\ w \in overlap[r]
  /\ w_pc = "locked" => writer_lock # w
  /\ DOMAIN working_copies[w] = 1..Size(h.log2_pages)
  /\ Lookup(k, working_copies[w], h) = Lookup(k, heap[h.offset], h)

\* Reader r looks for k in the pages h of its bucket or in a copy of them.
Undisturbed(r, k, h) ==
  /\ add_v.key # k
  /\ h.offset # 0
  /\ search[r].pc = "shape" =>
       search[r].bucket = [h EXCEPT !.offset = search[r].bucket.offset]
  /\ \/ search[r].bucket.offset = h.offset
     \/ Stale(r, search[r].bucket.offset, k, h)

\* The searches that nobody has disturbed.
ReaderInv ==
  \A r \in Readers : search[r].pc # "idle" =>
    /\ search[r].key \in DOMAIN table.hash
    /\ ~disturbed[r] => Undisturbed(r, search[r].key, Home(BucketIndex(search[r].key)))

\* The inductive invariant.
BihashIInv == BihashTypeOK /\ WriterInv /\ BlocksInv /\ CopyInv /\ ReaderInv

-----------------------------------------------------------------------------
(***************************************************************************)
(* Powers of two and places in a block                                     *)
(***************************************************************************)

\* A power of two is positive and less than the next, and the first is 1: the
\* number of subsets of an interval.
LEMMA Powers ==
  /\ 2 ^ 0 = 1
  /\ \A n \in Nat : 2 ^ n \in Nat \ {0} /\ 2 ^ (n + 1) \in Nat /\ 2 ^ n < 2 ^ (n + 1)
<1>1. ASSUME NEW n \in Nat
      PROVE  /\ IsFiniteSet(SUBSET (1..n))
             /\ Cardinality(SUBSET (1..n)) = 2 ^ n
             /\ 2 ^ n \in Nat \ {0}
  <2>1. IsFiniteSet(1..n) /\ Cardinality(1..n) = n
    BY FS_Interval
  <2>2. IsFiniteSet(SUBSET (1..n)) /\ Cardinality(SUBSET (1..n)) = 2 ^ n
    BY <2>1, FS_SUBSET
  <2>3. SUBSET (1..n) # {}
    OBVIOUS
  <2>. QED
    BY <2>2, <2>3, FS_CardinalityType, FS_EmptySet
<1>2. 2 ^ 0 = 1
  <2>1. SUBSET (1..0) = {{}}
    <3>1. 1..0 = {}
      OBVIOUS
    <3>. QED
      BY <3>1
  <2>. QED
    BY <2>1, <1>1, FS_Singleton
<1>3. ASSUME NEW n \in Nat
      PROVE  2 ^ n < 2 ^ (n + 1)
  <2>1. SUBSET (1..n) \in SUBSET (SUBSET (1..(n + 1)))
    OBVIOUS
  <2>2. n + 1 \in 1..(n + 1) /\ n + 1 \notin 1..n
    OBVIOUS
  <2>3. SUBSET (1..n) # SUBSET (1..(n + 1))
    <3>1. {n + 1} \in SUBSET (1..(n + 1)) /\ {n + 1} \notin SUBSET (1..n)
      BY <2>2
    <3>. QED
      BY <3>1
  <2>4. n + 1 \in Nat
    OBVIOUS
  <2>5. /\ IsFiniteSet(SUBSET (1..(n + 1)))
        /\ Cardinality(SUBSET (1..(n + 1))) = 2 ^ (n + 1)
        /\ 2 ^ (n + 1) \in Nat
    BY <2>4, <1>1
  <2>6. /\ Cardinality(SUBSET (1..n)) <= Cardinality(SUBSET (1..(n + 1)))
        /\ Cardinality(SUBSET (1..n)) # Cardinality(SUBSET (1..(n + 1)))
    BY <2>1, <2>3, <2>5, FS_Subset
  <2>. QED
    BY <2>5, <2>6, <1>1
<1>4. \A n \in Nat : n + 1 \in Nat
  OBVIOUS
<1>. QED
  BY <1>1, <1>2, <1>3, <1>4

\* A bucket has at least one place, and more when it grows.
LEMMA SizeGrows ==
  ASSUME NEW n \in Nat
  PROVE  /\ Size(n) \in Nat \ {0}
         /\ Size(n + 1) \in Nat
         /\ Size(n) < Size(n + 1)
         /\ Size(0) = KvpPerPage
<1>. DEFINE a == 2 ^ n
            b == 2 ^ (n + 1)
<1>1. a \in Nat \ {0} /\ b \in Nat /\ a < b /\ 2 ^ 0 = 1
  BY Powers
<1>2. KvpPerPage \in Nat \ {0}
  BY PagesAssumption
<1>. HIDE DEF a, b
<1>3. KvpPerPage * a \in Nat \ {0} /\ KvpPerPage * b \in Nat
  BY <1>1, <1>2
<1>4. KvpPerPage * a < KvpPerPage * b
  BY <1>1, <1>2
<1>. QED
  BY <1>1, <1>2, <1>3, <1>4 DEF a, b, Size

\* Division with remainder.
LEMMA Division ==
  ASSUME NEW x \in Nat, NEW n \in Nat \ {0}
  PROVE  /\ x \div n \in Nat
         /\ x % n \in 0..(n - 1)
         /\ x = (x \div n) * n + (x % n)
  OBVIOUS

\* A key has a bucket, and in a bucket of any size a page.
LEMMA KeyIndices ==
  ASSUME table \in Tables, NEW k \in DOMAIN table.hash, NEW n \in Nat
  PROVE  /\ k \in Keys
         /\ BucketIndex(k) \in Indices
         /\ PageIndex(k, n) \in 0..(2 ^ n - 1)
<1>1. table.hash[k] \in Nat /\ k \in Keys
  BY TablesAssumption
<1>2. NBuckets \in Nat \ {0}
  BY PagesAssumption
<1>3. BucketIndex(k) \in Indices
  BY <1>1, <1>2, Division DEF BucketIndex, Indices
<1>4. table.hash[k] \div NBuckets \in Nat
  BY <1>1, <1>2, Division
<1>5. 2 ^ n \in Nat \ {0}
  BY Powers
<1>6. PageIndex(k, n) \in 0..(2 ^ n - 1)
  BY <1>4, <1>5, Division DEF PageIndex
<1>. QED
  BY <1>1, <1>3, <1>6

\* The places of a page are places of its block.
LEMMA PageInside ==
  ASSUME NEW n \in Nat, NEW p \in 0..(2 ^ n - 1)
  PROVE  /\ p * KvpPerPage \in Nat
         /\ p * KvpPerPage + KvpPerPage <= Size(n)
<1>. DEFINE a == 2 ^ n
<1>1. a \in Nat \ {0} /\ p \in Nat /\ p + 1 <= a
  BY Powers
<1>2. KvpPerPage \in Nat \ {0}
  BY PagesAssumption
<1>. HIDE DEF a
<1>3. p * KvpPerPage \in Nat
  BY <1>1, <1>2
<1>4. (p + 1) * KvpPerPage <= a * KvpPerPage
  BY <1>1, <1>2
<1>5. (p + 1) * KvpPerPage = p * KvpPerPage + KvpPerPage
  BY <1>1, <1>2
<1>6. a * KvpPerPage = KvpPerPage * a
  BY <1>1, <1>2
<1>. QED
  BY <1>3, <1>4, <1>5, <1>6 DEF a, Size

\* A place is on page p when p is what dividing by the size of a page gives.
LEMMA PageOf ==
  ASSUME NEW i \in Nat \ {0}, NEW p \in Nat
  PROVE  (i - 1) \div KvpPerPage = p <=>
           i \in (p * KvpPerPage + 1)..(p * KvpPerPage + KvpPerPage)
<1>1. KvpPerPage \in Nat \ {0}
  BY PagesAssumption
<1>2. PICK x \in Nat : x = i - 1
  OBVIOUS
<1>3. PICK q \in Nat, m \in 0..(KvpPerPage - 1) :
        q = x \div KvpPerPage /\ x = q * KvpPerPage + m
  BY <1>1, Division
<1>4. q = p => i \in (p * KvpPerPage + 1)..(p * KvpPerPage + KvpPerPage)
  BY <1>1, <1>2, <1>3
<1>5. ASSUME i \in (p * KvpPerPage + 1)..(p * KvpPerPage + KvpPerPage), q # p
      PROVE  FALSE
  <2>1. CASE q >= p + 1
    <3>1. q * KvpPerPage >= (p + 1) * KvpPerPage
      BY <2>1, <1>1
    <3>2. (p + 1) * KvpPerPage = p * KvpPerPage + KvpPerPage
      BY <1>1
    <3>3. p * KvpPerPage \in Nat /\ q * KvpPerPage \in Nat
      BY <1>1
    <3>. QED
      BY <3>1, <3>2, <3>3, <1>1, <1>2, <1>3, <1>5
  <2>2. CASE p >= q + 1
    <3>1. p * KvpPerPage >= (q + 1) * KvpPerPage
      BY <2>2, <1>1
    <3>2. (q + 1) * KvpPerPage = q * KvpPerPage + KvpPerPage
      BY <1>1
    <3>3. p * KvpPerPage \in Nat /\ q * KvpPerPage \in Nat
      BY <1>1
    <3>. QED
      BY <3>1, <3>2, <3>3, <1>1, <1>2, <1>3, <1>5
  <2>. QED
    BY <2>1, <2>2, <1>3, <1>5
<1>. QED
  BY <1>2, <1>3, <1>4, <1>5

\* The places where a key may be are places of the block.
LEMMA PlacesInside ==
  ASSUME table \in Tables, NEW k \in DOMAIN table.hash, NEW s \in Shapes
  PROVE  Places(k, s) \subseteq 1..Size(s.log2_pages)
<1>1. s.log2_pages \in Nat
  BY PagesAssumption DEF Shapes
<1>2. PICK n \in Nat : n = s.log2_pages
  BY <1>1
<1>3. PICK p \in 0..(2 ^ n - 1) : p = PageIndex(k, n)
  BY KeyIndices
<1>4. p * KvpPerPage \in Nat /\ p * KvpPerPage + KvpPerPage <= Size(n)
  BY PageInside
<1>5. Size(n) \in Nat
  BY SizeGrows
<1>6. (p * KvpPerPage + 1)..(p * KvpPerPage + KvpPerPage) \subseteq 1..Size(n)
  BY <1>4, <1>5, PagesAssumption
<1>. QED
  BY <1>2, <1>3, <1>6 DEF Places

-----------------------------------------------------------------------------
(***************************************************************************)
(* What is in a block                                                      *)
(***************************************************************************)

\* The least element of a set of one element.
LEMMA MinOfOne ==
  ASSUME NEW i \in Int
  PROVE  Min({i}) = i
  BY DEF Min

\* In a sound block a key is found where it is, and nowhere when it is not there.
LEMMA LookupSound ==
  ASSUME table \in Tables, NEW s \in Shapes, NEW b, NEW block, Sound(block, s, b),
         NEW k \in DOMAIN table.hash
  PROVE  /\ \A i \in DOMAIN block : block[i].key = k => Lookup(k, block, s) = block[i].value
         /\ (\A i \in DOMAIN block : block[i].key # k) => Lookup(k, block, s) = NoValue
<1>1. k \in Keys /\ k # NoKey
  BY TablesAssumption, NamesAssumption
<1>2. DOMAIN block = 1..Size(s.log2_pages)
  BY DEF Sound
<1>3. ASSUME NEW i \in DOMAIN block, block[i].key = k
      PROVE  Lookup(k, block, s) = block[i].value
  <2>1. i \in Places(k, s)
    BY <1>1, <1>2, <1>3 DEF Sound
  <2>2. Holding(block, Places(k, s), k) = {i}
    BY <1>1, <1>2, <1>3, <2>1 DEF Sound, Holding
  <2>3. i \in Int
    BY <1>2
  <2>. QED
    BY <2>2, <2>3, MinOfOne DEF Lookup
<1>4. ASSUME \A i \in DOMAIN block : block[i].key # k
      PROVE  Lookup(k, block, s) = NoValue
  BY <1>4 DEF Lookup, Holding
<1>. QED
  BY <1>3, <1>4

\* Only the number of pages and the order of the pairs matter to a search.
LEMMA LookupShape ==
  ASSUME NEW s \in Shapes, NEW t \in Shapes, s.log2_pages = t.log2_pages,
         s.linear_search = t.linear_search, NEW k
  PROVE  /\ Places(k, s) = Places(k, t)
         /\ \A block : Lookup(k, block, s) = Lookup(k, block, t)
<1>1. Places(k, s) = Places(k, t)
  BY DEF Places
<1>. QED
  BY <1>1 DEF Lookup

\* The hash function does not change, and what depends on it alone does not.
LEMMA TableStays ==
  ASSUME table' = table
  PROVE  /\ \A k : BucketIndex(k)' = BucketIndex(k)
         /\ \A k, n : PageIndex(k, n)' = PageIndex(k, n)
         /\ \A k, s : Places(k, s)' = Places(k, s)
         /\ \A k, block, s : Lookup(k, block, s)' = Lookup(k, block, s)
         /\ \A block, s, b : Sound(block, s, b)' <=> Sound(block, s, b)
<1>1. \A k : BucketIndex(k)' = BucketIndex(k)
  BY DEF BucketIndex
<1>2. \A k, n : PageIndex(k, n)' = PageIndex(k, n)
  BY DEF PageIndex
<1>3. \A k, s : Places(k, s)' = Places(k, s)
  BY <1>2 DEF Places
<1>4. \A k, block, s : Lookup(k, block, s)' = Lookup(k, block, s)
  BY <1>3 DEF Lookup
<1>5. ASSUME NEW block, NEW s, NEW b
      PROVE  Sound(block, s, b)' <=> Sound(block, s, b)
  BY <1>1, <1>3 DEF Sound
<1>. QED
  BY <1>1, <1>2, <1>3, <1>4, <1>5

-----------------------------------------------------------------------------
(***************************************************************************)
(* Blocks and free lists                                                   *)
(***************************************************************************)

\* A function on 1..n is a sequence.
LEMMA FunctionSeq ==
  ASSUME NEW S, NEW n \in Nat, NEW f \in [1..n -> S]
  PROVE  f \in Seq(S) /\ Len(f) = n /\ DOMAIN f = 1..n
  BY SeqDef

\* A sequence with another element in the place of one.
LEMMA WriteSeq ==
  ASSUME NEW S, NEW s \in Seq(S), NEW i, NEW e \in S
  PROVE  /\ [s EXCEPT ![i] = e] \in Seq(S)
         /\ Len([s EXCEPT ![i] = e]) = Len(s)
         /\ \A j \in 1..Len(s) : j # i => [s EXCEPT ![i] = e][j] = s[j]
         /\ i \in 1..Len(s) => [s EXCEPT ![i] = e][i] = e
<1>. DEFINE t == [s EXCEPT ![i] = e]
<1>1. Len(s) \in Nat /\ s \in [1..Len(s) -> S]
  BY LenProperties
<1>2. t \in [1..Len(s) -> S]
  BY <1>1
<1>3. t \in Seq(S) /\ Len(t) = Len(s)
  BY <1>1, <1>2, FunctionSeq
<1>4. \A j \in 1..Len(s) : j # i => t[j] = s[j]
  BY <1>1
<1>5. i \in 1..Len(s) => t[i] = e
  BY <1>1
<1>. QED
  BY <1>3, <1>4, <1>5

\* All but the last element.
LEMMA FrontSeq ==
  ASSUME NEW S, NEW s \in Seq(S), s # <<>>
  PROVE  /\ Len(s) \in Nat \ {0} /\ Last(s) = s[Len(s)]
         /\ Front(s) \in Seq(S) /\ Len(Front(s)) = Len(s) - 1
         /\ \A i \in 1..(Len(s) - 1) : Front(s)[i] = s[i]
<1>1. Len(s) \in Nat \ {0}
  BY EmptySeq
<1>2. PICK n \in Nat : n = Len(s) - 1
  BY <1>1
<1>3. \A i \in 1..n : s[i] \in S
  BY <1>1, <1>2, ElementOfSeq
<1>4. /\ SubSeq(s, 1, n) \in Seq(S) /\ Len(SubSeq(s, 1, n)) = IF 1 <= n THEN n - 1 + 1 ELSE 0
      /\ \A i \in 1..(n - 1 + 1) : SubSeq(s, 1, n)[i] = s[1 + i - 1]
  BY <1>3, SubSeqProperties
<1>5. n - 1 + 1 = n /\ (IF 1 <= n THEN n ELSE 0) = n /\ \A i \in 1..n : 1 + i - 1 = i
  OBVIOUS
<1>6. /\ Len(SubSeq(s, 1, n)) = n
      /\ \A i \in 1..n : SubSeq(s, 1, n)[i] = s[i]
  BY <1>4, <1>5
<1>. QED
  BY <1>1, <1>2, <1>4, <1>6 DEF Last, Front

\* A block without pairs.
LEMMA BlankType ==
  ASSUME NEW n \in Nat
  PROVE  Blank(n) \in [1..Size(n) -> Cell] /\ Blank(n) \in Seq(Cell)
<1>1. FreePair \in Cell
  BY DEF FreePair, Pair, Cell
<1>2. Blank(n) \in [1..Size(n) -> Cell]
  BY <1>1 DEF Blank
<1>3. Size(n) \in Nat
  BY SizeGrows
<1>. QED
  BY <1>2, <1>3, FunctionSeq

\* What is in the blocks does not matter to the free lists.
LEMMA SeparateWrite ==
  ASSUME NEW m, NEW live, Separate(m, live), NEW w, w.free = m.free,
         w.heap \in Seq(Seq(Cell)), Len(w.heap) = Len(m.heap)
  PROVE  Separate(w, live)
  BY DEF Separate

\* The free blocks, with their places in the lists.
Free(m, n, i, id) == n \in 0..MaxLog2 /\ i \in 1..Len(m.free[n]) /\ m.free[n][i] = id

\* The same condition on the free lists in terms of places in them.
LEMMA SeparateFree ==
  ASSUME NEW m, NEW live,
         m.heap \in Seq(Seq(Cell)), m.free \in [0..MaxLog2 -> Seq(Nat)],
         live \subseteq 1..Len(m.heap)
  PROVE  Separate(m, live) <=>
           /\ \A n, i, id : Free(m, n, i, id) => id \in 1..Len(m.heap) /\ id \notin live
           /\ \A n, p, i, j, id : Free(m, n, i, id) /\ Free(m, p, j, id) => n = p /\ i = j
<1>1. ASSUME Separate(m, live)
      PROVE  /\ \A n, i, id : Free(m, n, i, id) => id \in 1..Len(m.heap) /\ id \notin live
             /\ \A n, p, i, j, id : Free(m, n, i, id) /\ Free(m, p, j, id) => n = p /\ i = j
  <2>1. ASSUME NEW n, NEW i, NEW id, Free(m, n, i, id)
        PROVE  id \in 1..Len(m.heap) /\ id \notin live
    <3>1. n \in 0..MaxLog2 /\ i \in 1..Len(m.free[n]) /\ m.free[n][i] = id
      BY <2>1 DEF Free
    <3>. QED
      BY <1>1, <3>1 DEF Separate
  <2>2. ASSUME NEW n, NEW p, NEW i, NEW j, NEW id, Free(m, n, i, id), Free(m, p, j, id)
        PROVE  n = p /\ i = j
    <3>1. /\ n \in 0..MaxLog2 /\ i \in 1..Len(m.free[n]) /\ m.free[n][i] = id
          /\ p \in 0..MaxLog2 /\ j \in 1..Len(m.free[p]) /\ m.free[p][j] = id
      BY <2>2 DEF Free
    <3>. QED
      BY <1>1, <3>1 DEF Separate
  <2>. QED
    BY <2>1, <2>2
<1>2. ASSUME \A n, i, id : Free(m, n, i, id) => id \in 1..Len(m.heap) /\ id \notin live,
             \A n, p, i, j, id : Free(m, n, i, id) /\ Free(m, p, j, id) => n = p /\ i = j
      PROVE  Separate(m, live)
  <2>1. ASSUME NEW n \in 0..MaxLog2, NEW i \in 1..Len(m.free[n])
        PROVE  Free(m, n, i, m.free[n][i])
    BY DEF Free
  <2>2. \A n \in 0..MaxLog2 : \A i \in 1..Len(m.free[n]) :
          m.free[n][i] \in (1..Len(m.heap)) \ live
    BY <1>2, <2>1
  <2>3. ASSUME NEW n \in 0..MaxLog2, NEW p \in 0..MaxLog2,
               NEW i \in 1..Len(m.free[n]), NEW j \in 1..Len(m.free[p]),
               m.free[n][i] = m.free[p][j]
        PROVE  n = p /\ i = j
    <3>1. PICK id : id = m.free[n][i] /\ id = m.free[p][j]
      BY <2>3
    <3>2. Free(m, n, i, id) /\ Free(m, p, j, id)
      BY <2>1, <3>1
    <3>. QED
      BY <1>2, <3>2, Zenon
  <2>. QED
    BY <2>2, <2>3 DEF Separate
<1>. QED
  BY <1>1, <1>2

\* Memory a is m with another block of size n in use.
Fresh(m, live, n, a) ==
  /\ a.id \in 1..Len(a.heap) /\ a.id \notin live
  /\ Separate(a, live \cup {a.id})
  /\ a.heap[a.id] = Blank(n)
  /\ \A i \in live : a.heap[i] = m.heap[i]

\* value_alloc takes a block that is not in use, and leaves those that are alone.
LEMMA AllocSeparate ==
  ASSUME NEW m, NEW live, Separate(m, live), NEW n \in 0..MaxLog2
  PROVE  Fresh(m, live, n, Alloc(m, n))
<1>0. PICK a : a = Alloc(m, n)
  OBVIOUS
<1>1. /\ m.heap \in Seq(Seq(Cell)) /\ Len(m.heap) \in Nat
      /\ live \subseteq 1..Len(m.heap)
      /\ m.free \in [0..MaxLog2 -> Seq(Nat)]
  BY DEF Separate
<1>2. Blank(n) \in Seq(Cell)
  BY BlankType, PagesAssumption
<1>3. /\ \A p, i, id : Free(m, p, i, id) => id \in 1..Len(m.heap) /\ id \notin live
      /\ \A p, q, i, j, id : Free(m, p, i, id) /\ Free(m, q, j, id) => p = q /\ i = j
  BY <1>1, SeparateFree
<1>4. CASE m.free[n] = <<>>
  <2>1. /\ a.heap = Append(m.heap, Blank(n)) /\ a.free = m.free
        /\ a.id = Len(m.heap) + 1
    BY <1>0, <1>4 DEF Alloc
  <2>2. /\ a.heap \in Seq(Seq(Cell)) /\ Len(a.heap) = Len(m.heap) + 1
        /\ a.heap[a.id] = Blank(n)
        /\ \A i \in 1..Len(m.heap) : a.heap[i] = m.heap[i]
    BY <1>1, <1>2, <2>1, AppendProperties
  <2>3. /\ a.id \in 1..Len(a.heap) /\ a.id \notin 1..Len(m.heap)
        /\ 1..Len(m.heap) \subseteq 1..Len(a.heap)
    BY <1>1, <2>1, <2>2
  <2>4. live \cup {a.id} \subseteq 1..Len(a.heap)
    BY <1>1, <2>3
  <2>5. \A p, i, id : Free(a, p, i, id) <=> Free(m, p, i, id)
    BY <2>1 DEF Free
  <2>6. \A p, i, id : Free(a, p, i, id) => id \in 1..Len(a.heap) /\ id \notin live \cup {a.id}
    BY <1>3, <2>3, <2>5
  <2>7. \A p, q, i, j, id : Free(a, p, i, id) /\ Free(a, q, j, id) => p = q /\ i = j
    BY <1>3, <2>5
  <2>8. a.free \in [0..MaxLog2 -> Seq(Nat)]
    BY <1>1, <2>1
  <2>9. Separate(a, live \cup {a.id})
    BY <2>2, <2>4, <2>6, <2>7, <2>8, SeparateFree
  <2>10. Fresh(m, live, n, a)
    BY <1>1, <2>2, <2>3, <2>9 DEF Fresh
  <2>. QED
    BY <1>0, <2>10
<1>5. CASE m.free[n] # <<>>
  <2>1. PICK s : s = m.free[n]
    OBVIOUS
  <2>2. s \in Seq(Nat) /\ s # <<>>
    BY <1>1, <1>5, <2>1
  <2>3. /\ Len(s) \in Nat \ {0} /\ Last(s) = s[Len(s)]
        /\ Front(s) \in Seq(Nat) /\ Len(Front(s)) = Len(s) - 1
        /\ \A i \in 1..(Len(s) - 1) : Front(s)[i] = s[i]
    BY <2>2, FrontSeq
  <2>4. /\ a.heap = [m.heap EXCEPT ![s[Len(s)]] = Blank(n)]
        /\ a.free = [m.free EXCEPT ![n] = Front(s)]
        /\ a.id = s[Len(s)]
    BY <1>0, <1>5, <2>1, <2>3 DEF Alloc
  <2>5. Free(m, n, Len(s), a.id)
    BY <2>1, <2>3, <2>4 DEF Free
  <2>6. a.id \in 1..Len(m.heap) /\ a.id \notin live
    BY <1>3, <2>5
  <2>7. /\ a.heap \in Seq(Seq(Cell)) /\ Len(a.heap) = Len(m.heap)
        /\ a.heap[a.id] = Blank(n)
        /\ \A i \in 1..Len(m.heap) : i # a.id => a.heap[i] = m.heap[i]
    BY <1>1, <1>2, <2>4, <2>6, WriteSeq
  <2>8. /\ a.free \in [0..MaxLog2 -> Seq(Nat)] /\ a.free[n] = Front(s)
        /\ \A p \in 0..MaxLog2 : p # n => a.free[p] = m.free[p]
    BY <1>1, <2>3, <2>4
  <2>9. ASSUME NEW p, NEW i, NEW id, Free(a, p, i, id)
        PROVE  Free(m, p, i, id) /\ ~(p = n /\ i = Len(s))
    <3>1. CASE p = n
      <4>1. i \in 1..(Len(s) - 1) /\ Front(s)[i] = id
        BY <2>3, <2>8, <2>9, <3>1 DEF Free
      <4>2. i \in 1..Len(s) /\ i # Len(s) /\ s[i] = id
        BY <2>3, <4>1
      <4>. QED
        BY <2>1, <3>1, <4>2 DEF Free
    <3>2. CASE p # n
      BY <2>8, <2>9, <3>2 DEF Free
    <3>. QED
      BY <3>1, <3>2
  <2>10. live \cup {a.id} \subseteq 1..Len(a.heap)
    BY <1>1, <2>6, <2>7
  <2>11. \A p, i, id : Free(a, p, i, id) => id \in 1..Len(a.heap) /\ id \notin live \cup {a.id}
    <3>. SUFFICES ASSUME NEW p, NEW i, NEW id, Free(a, p, i, id)
                  PROVE  id \in 1..Len(a.heap) /\ id \notin live \cup {a.id}
      OBVIOUS
    <3>1. Free(m, p, i, id) /\ ~(p = n /\ i = Len(s))
      BY <2>9
    <3>2. id # a.id
      BY <1>3, <2>5, <3>1
    <3>3. id \in 1..Len(m.heap) /\ id \notin live
      BY <1>3, <3>1
    <3>. QED
      BY <2>7, <3>2, <3>3
  <2>12. Separate(a, live \cup {a.id})
    BY <1>3, <2>7, <2>8, <2>9, <2>10, <2>11, SeparateFree
  <2>13. Fresh(m, live, n, a)
    BY <1>1, <2>6, <2>7, <2>12 DEF Fresh
  <2>. QED
    BY <1>0, <2>13
<1>. QED
  BY <1>4, <1>5

\* Memory a is m with block id not in use any more.
Freed(m, live, id, a) ==
  /\ Separate(a, live \ {id})
  /\ \A i \in live \ {id} : a.heap[i] = m.heap[i]

\* value_free: the block is not in use any more, and the others are left alone.
LEMMA ReleaseSeparate ==
  ASSUME NEW m, NEW live, Separate(m, live), NEW id \in live, NEW n \in 0..MaxLog2
  PROVE  Freed(m, live, id, Release(m, id, n))
<1>0. PICK a : a = Release(m, id, n)
  OBVIOUS
<1>1. /\ m.heap \in Seq(Seq(Cell)) /\ Len(m.heap) \in Nat
      /\ live \subseteq 1..Len(m.heap)
      /\ m.free \in [0..MaxLog2 -> Seq(Nat)]
  BY DEF Separate
<1>2. id \in 1..Len(m.heap) /\ id \in Nat /\ m.heap[id] \in Seq(Cell)
  BY <1>1, ElementOfSeq
<1>3. PICK block : block = [m.heap[id] EXCEPT ![1].key = None]
  OBVIOUS
<1>4. block \in Seq(Cell)
  <2>1. PICK x \in Seq(Cell) : x = m.heap[id]
    BY <1>2
  <2>2. Len(x) \in Nat /\ x \in [1..Len(x) -> Cell]
    BY LenProperties
  <2>3. \A c \in Cell : [c EXCEPT !.key = None] \in Cell
    BY DEF Cell
  <2>4. block = [x EXCEPT ![1] = [x[1] EXCEPT !.key = None]]
    BY <1>3, <2>1
  <2>5. block \in [1..Len(x) -> Cell]
    BY <2>2, <2>3, <2>4
  <2>. QED
    BY <2>2, <2>5, FunctionSeq
<1>5. /\ a.heap = [m.heap EXCEPT ![id] = block]
      /\ a.free = [m.free EXCEPT ![n] = Append(m.free[n], id)]
  BY <1>0, <1>3 DEF Release
<1>6. /\ a.heap \in Seq(Seq(Cell)) /\ Len(a.heap) = Len(m.heap)
      /\ \A i \in 1..Len(m.heap) : i # id => a.heap[i] = m.heap[i]
  BY <1>1, <1>4, <1>5, WriteSeq
<1>7. PICK s \in Seq(Nat) : s = m.free[n]
  BY <1>1
<1>8. /\ Len(s) \in Nat /\ Append(s, id) \in Seq(Nat) /\ Len(Append(s, id)) = Len(s) + 1
      /\ \A i \in 1..Len(s) : Append(s, id)[i] = s[i]
      /\ Append(s, id)[Len(s) + 1] = id
  BY <1>2, LenProperties, AppendProperties
<1>9. /\ a.free \in [0..MaxLog2 -> Seq(Nat)] /\ a.free[n] = Append(s, id)
      /\ \A p \in 0..MaxLog2 : p # n => a.free[p] = m.free[p]
  BY <1>1, <1>5, <1>7, <1>8
<1>10. ASSUME NEW p, NEW i, NEW x, Free(a, p, i, x)
       PROVE  Free(m, p, i, x) \/ (p = n /\ i = Len(s) + 1 /\ x = id)
  <2>1. CASE p = n
    <3>1. i \in 1..(Len(s) + 1) /\ Append(s, id)[i] = x
      BY <1>8, <1>9, <1>10, <2>1 DEF Free
    <3>2. i \in 1..Len(s) \/ i = Len(s) + 1
      BY <1>8, <3>1
    <3>. QED
      BY <1>7, <1>8, <2>1, <3>1, <3>2 DEF Free
  <2>2. CASE p # n
    BY <1>9, <1>10, <2>2 DEF Free
  <2>. QED
    BY <2>1, <2>2
<1>11. /\ \A p, i, x : Free(m, p, i, x) => x \in 1..Len(m.heap) /\ x \notin live
       /\ \A p, q, i, j, x : Free(m, p, i, x) /\ Free(m, q, j, x) => p = q /\ i = j
  BY <1>1, SeparateFree
<1>12. \A p, i, x : Free(a, p, i, x) => x \in 1..Len(a.heap) /\ x \notin live \ {id}
  BY <1>2, <1>6, <1>10, <1>11
<1>13. \A p, q, i, j, x : Free(a, p, i, x) /\ Free(a, q, j, x) => p = q /\ i = j
  BY <1>10, <1>11
<1>14. live \ {id} \subseteq 1..Len(a.heap)
  BY <1>1, <1>6
<1>15. Separate(a, live \ {id})
  BY <1>6, <1>9, <1>12, <1>13, <1>14, SeparateFree
<1>16. Freed(m, live, id, a)
  BY <1>1, <1>6, <1>15 DEF Freed
<1>. QED
  BY <1>0, <1>16

-----------------------------------------------------------------------------
(***************************************************************************)
(* Dealing the pairs to the pages of a new block                           *)
(***************************************************************************)

\* How many elements of S are before x.
Rank(S, x) == Cardinality({y \in S : y < x})

\* The numbers of elements before each element of a finite set of integers are
\* different, and they are all the numbers below its cardinality.
LEMMA Ranks ==
  ASSUME NEW S \in SUBSET Int, IsFiniteSet(S)
  PROVE  /\ Cardinality(S) \in Nat
         /\ \A x \in S : Rank(S, x) \in Nat /\ Rank(S, x) < Cardinality(S)
         /\ \A x, y \in S : Rank(S, x) = Rank(S, y) => x = y
         /\ \A n \in Nat : n < Cardinality(S) => \E x \in S : Rank(S, x) = n
<1>1. Cardinality(S) \in Nat
  BY FS_CardinalityType
<1>2. ASSUME NEW x \in S
      PROVE  /\ IsFiniteSet({y \in S : y < x})
             /\ Rank(S, x) \in Nat /\ Rank(S, x) < Cardinality(S)
  <2>1. {y \in S : y < x} \in SUBSET S
    OBVIOUS
  <2>2. x \notin {y \in S : y < x}
    OBVIOUS
  <2>3. /\ IsFiniteSet({y \in S : y < x})
        /\ Rank(S, x) <= Cardinality(S)
        /\ Rank(S, x) # Cardinality(S)
    BY <2>1, <2>2, FS_Subset DEF Rank
  <2>4. Rank(S, x) \in Nat
    BY <2>3, FS_CardinalityType DEF Rank
  <2>. QED
    BY <1>1, <2>3, <2>4
<1>3. ASSUME NEW x \in S, NEW y \in S, x < y
      PROVE  Rank(S, x) # Rank(S, y)
  <2>1. PICK A, B : A = {z \in S : z < x} /\ B = {z \in S : z < y}
    OBVIOUS
  <2>2. \A z \in S : z < x => z < y
    BY <1>3
  <2>3. A \in SUBSET B
    BY <2>1, <2>2, Zenon
  <2>4. x \in B /\ x \notin A
    BY <1>3, <2>1
  <2>5. IsFiniteSet(B)
    BY <1>2, <2>1
  <2>6. Cardinality(A) # Cardinality(B)
    BY <2>3, <2>4, <2>5, FS_Subset
  <2>. QED
    BY <2>1, <2>6 DEF Rank
<1>4. ASSUME NEW x \in S, NEW y \in S, Rank(S, x) = Rank(S, y)
      PROVE  x = y
  <2>1. x \in Int /\ y \in Int
    OBVIOUS
  <2>. QED
    BY <1>3, <1>4, <2>1
<1>5. ASSUME NEW n \in Nat, n < Cardinality(S)
      PROVE  \E x \in S : Rank(S, x) = n
  <2>1. PICK T : T = 0..(Cardinality(S) - 1)
    OBVIOUS
  <2>2. IsFiniteSet(T) /\ Cardinality(T) = Cardinality(S)
    <3>1. Cardinality(S) - 1 \in Int
      BY <1>1
    <3>2. /\ IsFiniteSet(T)
          /\ Cardinality(T) = IF 0 > Cardinality(S) - 1 THEN 0 ELSE Cardinality(S) - 1 - 0 + 1
      BY <2>1, <3>1, FS_Interval
    <3>. QED
      BY <1>1, <3>2
  <2>3. PICK f : f = [x \in S |-> Rank(S, x)]
    OBVIOUS
  <2>4. f \in [S -> T]
    <3>1. ASSUME NEW x \in S
          PROVE  Rank(S, x) \in T
      <4>1. PICK c \in Nat : c = Cardinality(S)
        BY <1>1
      <4>2. PICK m \in Nat : m = Rank(S, x) /\ m < c
        BY <1>2, <4>1
      <4>3. m \in 0..(c - 1)
        BY <4>2
      <4>. QED
        BY <2>1, <4>1, <4>2, <4>3
    <3>. QED
      BY <2>3, <3>1, Zenon
  <2>5. f \in Injection(S, T)
    <3>1. DOMAIN f = S /\ \A x \in S : f[x] = Rank(S, x)
      BY <2>3
    <3>2. ASSUME NEW a \in DOMAIN f, NEW b \in DOMAIN f, f[a] = f[b]
          PROVE  a = b
      <4>1. a \in S /\ b \in S
        BY <3>1, Zenon
      <4>2. Rank(S, a) = Rank(S, b)
        BY <3>1, <3>2, <4>1, Zenon
      <4>. QED
        BY <1>4, <4>1, <4>2, Zenon
    <3>3. IsInjective(f)
      BY <3>2, Zenon DEF IsInjective
    <3>. QED
      BY <2>4, <3>3 DEF Injection
  <2>6. f \in Surjection(S, T)
    BY <2>2, <2>5, FS_Injection
  <2>7. n \in T
    BY <1>1, <1>5, <2>1
  <2>. QED
    BY <2>3, <2>6, <2>7 DEF Surjection
<1>. QED
  BY <1>1, <1>2, <1>4, <1>5

\* After takes each of the places once.
LEMMA AfterPlaces ==
  ASSUME NEW pairs, NEW S \in SUBSET Int, IsFiniteSet(S)
  PROVE  /\ \A x \in S : /\ Rank(S, x) \in Nat /\ Rank(S, x) < Cardinality(S)
                         /\ After(pairs, S, Rank(S, x)) = pairs[x]
         /\ \A n \in Nat : \/ After(pairs, S, n) = FreePair
                           \/ \E x \in S : Rank(S, x) = n /\ After(pairs, S, n) = pairs[x]
<1>1. /\ Cardinality(S) \in Nat
      /\ \A x \in S : Rank(S, x) \in Nat /\ Rank(S, x) < Cardinality(S)
      /\ \A x, y \in S : Rank(S, x) = Rank(S, y) => x = y
      /\ \A n \in Nat : n < Cardinality(S) => \E x \in S : Rank(S, x) = n
  BY Ranks
<1>2. ASSUME NEW n, n < Cardinality(S)
      PROVE  After(pairs, S, n) = pairs[CHOOSE i \in S : Rank(S, i) = n]
  BY <1>2 DEF After, Rank
<1>3. ASSUME NEW x \in S
      PROVE  After(pairs, S, Rank(S, x)) = pairs[x]
  <2>1. PICK n \in Nat : n = Rank(S, x) /\ n < Cardinality(S)
    BY <1>1
  <2>2. (CHOOSE i \in S : Rank(S, i) = n) \in S /\ Rank(S, CHOOSE i \in S : Rank(S, i) = n) = n
    BY <2>1, Zenon
  <2>3. (CHOOSE i \in S : Rank(S, i) = n) = x
    BY <1>1, <2>1, <2>2, Zenon
  <2>4. After(pairs, S, n) = pairs[CHOOSE i \in S : Rank(S, i) = n]
    BY <1>2, <2>1
  <2>. QED
    BY <2>1, <2>3, <2>4
<1>4. ASSUME NEW n \in Nat
      PROVE  \/ After(pairs, S, n) = FreePair
             \/ \E x \in S : Rank(S, x) = n /\ After(pairs, S, n) = pairs[x]
  <2>1. CASE n < Cardinality(S)
    <3>1. PICK x \in S : Rank(S, x) = n
      BY <1>1, <2>1
    <3>. QED
      BY <1>3, <3>1
  <2>2. CASE ~(n < Cardinality(S))
    BY <2>2 DEF After
  <2>. QED
    BY <2>1, <2>2
<1>. QED
  BY <1>1, <1>3, <1>4

\* Pairs of bucket b, no key twice.
Keyed(pairs, b) ==
  /\ pairs \in Seq(Cell)
  /\ \A i \in InUse(pairs) :
       pairs[i].key \in DOMAIN table.hash /\ BucketIndex(pairs[i].key) = b
  /\ \A i, j \in InUse(pairs) : pairs[i].key = pairs[j].key => i = j

\* A block has the pairs that are in use and no other.
SamePairs(block, pairs) ==
  /\ \A j \in InUse(pairs) : \E i \in DOMAIN block : block[i] = pairs[j]
  /\ \A i \in InUse(block) : \E j \in InUse(pairs) : pairs[j] = block[i]

\* The places in use are a finite set.
LEMMA InUseFinite ==
  ASSUME NEW pairs \in Seq(Cell), NEW S \in SUBSET InUse(pairs)
  PROVE  S \in SUBSET Int /\ IsFiniteSet(S) /\ Cardinality(S) <= Len(pairs)
<1>1. Len(pairs) \in Nat /\ DOMAIN pairs = 1..Len(pairs)
  BY LenProperties
<1>2. S \in SUBSET (1..Len(pairs))
  BY <1>1 DEF InUse
<1>3. IsFiniteSet(1..Len(pairs)) /\ Cardinality(1..Len(pairs)) = Len(pairs)
  BY <1>1, FS_Interval
<1>4. S \in SUBSET Int
  BY <1>2
<1>. QED
  BY <1>2, <1>3, <1>4, FS_Subset

\* split_and_rehash, when the pairs fit: a sound block with all of them.
LEMMA SplitSound ==
  ASSUME table \in Tables, NEW b, NEW pairs, Keyed(pairs, b),
         NEW s \in Shapes, NEW n \in Nat, n = s.log2_pages, ~s.linear_search, Fits(pairs, n)
  PROVE  /\ Sound(split_and_rehash(pairs, n), s, b)
         /\ SamePairs(split_and_rehash(pairs, n), pairs)
<1>. DEFINE D(p) == Dealt(pairs, n, p)
            q(i) == (i - 1) \div KvpPerPage
            m(i) == (i - 1) % KvpPerPage
<1>1. PICK block : block = split_and_rehash(pairs, n)
  OBVIOUS
<1>2. /\ DOMAIN block = 1..Size(n)
      /\ \A i \in 1..Size(n) : block[i] = After(pairs, D(q(i)), m(i))
  BY <1>1 DEF split_and_rehash
<1>3. KvpPerPage \in Nat \ {0} /\ Size(n) \in Nat
  BY PagesAssumption, SizeGrows
<1>4. pairs \in Seq(Cell)
  BY DEF Keyed
<1>5. ASSUME NEW p
      PROVE  /\ D(p) \in SUBSET InUse(pairs)
             /\ D(p) \in SUBSET Int /\ IsFiniteSet(D(p))
             /\ \A x \in D(p) : PageIndex(pairs[x].key, n) = p
  <2>1. D(p) \in SUBSET InUse(pairs) /\ \A x \in D(p) : PageIndex(pairs[x].key, n) = p
    BY DEF Dealt
  <2>. QED
    BY <1>4, <2>1, InUseFinite
<1>6. ASSUME NEW i \in 1..Size(n)
      PROVE  /\ q(i) \in Nat /\ m(i) \in Nat
             /\ i = q(i) * KvpPerPage + m(i) + 1
  <2>1. PICK x \in Nat : x = i - 1
    BY <1>3
  <2>2. x \div KvpPerPage \in Nat /\ x % KvpPerPage \in 0..(KvpPerPage - 1)
        /\ x = (x \div KvpPerPage) * KvpPerPage + (x % KvpPerPage)
    BY <1>3, Division
  <2>3. (x \div KvpPerPage) * KvpPerPage \in Nat
    BY <1>3, <2>2
  <2>. QED
    BY <1>3, <2>1, <2>2, <2>3
<1>. HIDE DEF D, q, m
<1>7. ASSUME NEW i \in 1..Size(n)
      PROVE  \/ block[i] = FreePair
             \/ \E x \in InUse(pairs) :
                  /\ x \in D(q(i)) /\ Rank(D(q(i)), x) = m(i) /\ block[i] = pairs[x]
  <2>1. block[i] = After(pairs, D(q(i)), m(i)) /\ m(i) \in Nat
    BY <1>2, <1>6
  <2>2. D(q(i)) \in SUBSET InUse(pairs) /\ D(q(i)) \in SUBSET Int /\ IsFiniteSet(D(q(i)))
    BY <1>5
  <2>3. \/ After(pairs, D(q(i)), m(i)) = FreePair
        \/ \E x \in D(q(i)) : /\ Rank(D(q(i)), x) = m(i)
                              /\ After(pairs, D(q(i)), m(i)) = pairs[x]
    <3>. HIDE DEF FreePair
    <3>. QED
      BY <2>1, <2>2, AfterPlaces
  <2>. QED
    BY <2>1, <2>2, <2>3, Zenon
<1>8. FreePair.key = NoKey /\ FreePair \in Cell
  BY DEF FreePair, Pair, Cell
<1>9. block \in [1..Size(n) -> Cell]
  <2>1. \A x \in InUse(pairs) : pairs[x] \in Cell
    BY <1>4 DEF InUse
  <2>2. \A i \in 1..Size(n) : block[i] \in Cell
    BY <1>7, <1>8, <2>1
  <2>3. block = [i \in 1..Size(n) |-> block[i]]
    BY <1>1 DEF split_and_rehash
  <2>. QED
    BY <2>2, <2>3
<1>10. ASSUME NEW i \in 1..Size(n), block[i].key # NoKey
       PROVE  /\ block[i].key \in DOMAIN table.hash
              /\ BucketIndex(block[i].key) = b
              /\ PageIndex(block[i].key, n) = q(i)
  BY <1>5, <1>7, <1>8, <1>10 DEF Keyed
<1>11. ASSUME NEW i \in 1..Size(n), block[i].key # NoKey
       PROVE  i \in Places(block[i].key, s)
  <2>1. (i - 1) \div KvpPerPage = PageIndex(block[i].key, n) /\ q(i) \in Nat
    BY <1>6, <1>10, <1>11 DEF q
  <2>2. i \in Nat \ {0}
    BY <1>3
  <2>3. PICK p \in Nat : p = PageIndex(block[i].key, n)
    BY <1>6, <1>10, <1>11
  <2>4. i \in (p * KvpPerPage + 1)..(p * KvpPerPage + KvpPerPage)
    BY <2>1, <2>2, <2>3, PageOf
  <2>. QED
    BY <2>3, <2>4 DEF Places
<1>12. ASSUME NEW i \in 1..Size(n), NEW j \in 1..Size(n),
              block[i].key # NoKey, block[i].key = block[j].key
       PROVE  i = j
  <2>1. PICK x \in InUse(pairs) :
          x \in D(q(i)) /\ Rank(D(q(i)), x) = m(i) /\ block[i] = pairs[x]
    BY <1>7, <1>8, <1>12
  <2>2. PICK y \in InUse(pairs) :
          y \in D(q(j)) /\ Rank(D(q(j)), y) = m(j) /\ block[j] = pairs[y]
    BY <1>7, <1>8, <1>12
  <2>3. x = y
    BY <1>12, <2>1, <2>2 DEF Keyed
  <2>4. q(i) = q(j)
    BY <1>10, <1>12
  <2>5. m(i) = m(j)
    BY <2>1, <2>2, <2>3, <2>4
  <2>. QED
    BY <1>6, <2>4, <2>5
<1>13. Sound(block, s, b)
  BY <1>9, <1>10, <1>11, <1>12 DEF Sound
<1>14. ASSUME NEW j \in InUse(pairs)
       PROVE  \E i \in 1..Size(n) : block[i] = pairs[j]
  <2>1. pairs[j].key \in DOMAIN table.hash
    BY DEF Keyed
  <2>2. PICK p \in 0..(2 ^ n - 1) : p = PageIndex(pairs[j].key, n)
    BY <2>1, KeyIndices
  <2>3. j \in D(p)
    BY <2>2 DEF D, Dealt
  <2>4. PICK r \in Nat : /\ r = Rank(D(p), j) /\ r < Cardinality(D(p))
                         /\ After(pairs, D(p), r) = pairs[j]
    BY <1>5, <2>3, AfterPlaces
  <2>5. Cardinality(D(p)) <= KvpPerPage /\ Cardinality(D(p)) \in Nat
    BY <1>5, FS_CardinalityType DEF Fits, D
  <2>6. r < KvpPerPage
    BY <1>3, <2>4, <2>5
  <2>7. p \in Nat /\ p * KvpPerPage \in Nat /\ p * KvpPerPage + KvpPerPage <= Size(n)
    BY PageInside, Powers
  <2>8. PICK i \in Nat \ {0} : i = p * KvpPerPage + r + 1
    BY <2>7
  <2>9. i \in 1..Size(n) /\ i \in (p * KvpPerPage + 1)..(p * KvpPerPage + KvpPerPage)
    BY <1>3, <2>6, <2>7, <2>8
  <2>10. q(i) = p
    BY <2>7, <2>9, PageOf DEF q
  <2>11. m(i) = r
    BY <1>6, <2>7, <2>8, <2>9, <2>10
  <2>. QED
    BY <1>2, <2>4, <2>9, <2>10, <2>11
<1>15. ASSUME NEW i \in InUse(block)
       PROVE  \E j \in InUse(pairs) : pairs[j] = block[i]
  BY <1>2, <1>7, <1>8 DEF InUse
<1>. QED
  BY <1>1, <1>2, <1>13, <1>14, <1>15 DEF SamePairs

\* split_and_rehash_linear, when there are enough places: the same.
LEMMA LinearSound ==
  ASSUME table \in Tables, NEW b, NEW pairs, Keyed(pairs, b),
         NEW s \in Shapes, NEW n \in Nat, n = s.log2_pages, s.linear_search,
         Len(pairs) <= Size(n)
  PROVE  /\ Sound(split_and_rehash_linear(pairs, n), s, b)
         /\ SamePairs(split_and_rehash_linear(pairs, n), pairs)
<1>1. PICK block : block = split_and_rehash_linear(pairs, n)
  OBVIOUS
<1>2. PICK U : U = InUse(pairs)
  OBVIOUS
<1>3. /\ DOMAIN block = 1..Size(n)
      /\ \A i \in 1..Size(n) : block[i] = After(pairs, U, i - 1)
  BY <1>1, <1>2 DEF split_and_rehash_linear
<1>4. pairs \in Seq(Cell) /\ Len(pairs) \in Nat /\ Size(n) \in Nat
  BY SizeGrows, LenProperties DEF Keyed
<1>5. U \in SUBSET Int /\ IsFiniteSet(U) /\ Cardinality(U) <= Len(pairs)
  BY <1>2, <1>4, InUseFinite
<1>6. ASSUME NEW i \in 1..Size(n)
      PROVE  \/ block[i] = FreePair
             \/ \E x \in U : Rank(U, x) = i - 1 /\ block[i] = pairs[x]
  <2>1. PICK k \in Nat : k = i - 1
    BY <1>4
  <2>2. \/ After(pairs, U, k) = FreePair
        \/ \E x \in U : Rank(U, x) = k /\ After(pairs, U, k) = pairs[x]
    BY <1>5, AfterPlaces
  <2>. QED
    BY <1>3, <2>1, <2>2
<1>7. FreePair.key = NoKey /\ FreePair \in Cell
  BY DEF FreePair, Pair, Cell
<1>8. block \in [1..Size(n) -> Cell]
  <2>1. \A x \in U : pairs[x] \in Cell
    BY <1>2, <1>4 DEF InUse
  <2>2. ASSUME NEW i \in 1..Size(n)
        PROVE  block[i] \in Cell
    <3>1. CASE block[i] = FreePair
      BY <1>7, <3>1
    <3>2. CASE block[i] # FreePair
      <4>1. PICK x \in U : block[i] = pairs[x]
        BY <1>6, <3>2
      <4>. QED
        BY <2>1, <4>1
    <3>. QED
      BY <3>1, <3>2
  <2>3. block = [i \in 1..Size(n) |-> block[i]]
    BY <1>1 DEF split_and_rehash_linear
  <2>. QED
    BY <2>2, <2>3
<1>9. ASSUME NEW i \in 1..Size(n), block[i].key # NoKey
      PROVE  /\ block[i].key \in DOMAIN table.hash
             /\ BucketIndex(block[i].key) = b
             /\ i \in Places(block[i].key, s)
  BY <1>2, <1>6, <1>7, <1>9 DEF Keyed, Places
<1>10. ASSUME NEW i \in 1..Size(n), NEW j \in 1..Size(n),
              block[i].key # NoKey, block[i].key = block[j].key
       PROVE  i = j
  <2>1. PICK x \in U : Rank(U, x) = i - 1 /\ block[i] = pairs[x]
    BY <1>6, <1>7, <1>10
  <2>2. PICK y \in U : Rank(U, y) = j - 1 /\ block[j] = pairs[y]
    BY <1>6, <1>7, <1>10
  <2>3. x = y
    BY <1>2, <1>10, <2>1, <2>2 DEF Keyed
  <2>. QED
    BY <1>4, <2>1, <2>2, <2>3
<1>11. Sound(block, s, b)
  BY <1>8, <1>9, <1>10 DEF Sound
<1>12. ASSUME NEW j \in U
       PROVE  \E i \in 1..Size(n) : block[i] = pairs[j]
  <2>1. PICK r \in Nat : /\ r = Rank(U, j) /\ r < Cardinality(U)
                         /\ After(pairs, U, r) = pairs[j]
    BY <1>5, AfterPlaces
  <2>2. Cardinality(U) \in Nat
    BY <1>5, FS_CardinalityType
  <2>3. r + 1 \in 1..Size(n) /\ r + 1 - 1 = r
    BY <1>4, <1>5, <2>1, <2>2
  <2>. QED
    BY <1>3, <2>1, <2>3
<1>13. ASSUME NEW i \in InUse(block)
       PROVE  \E j \in U : pairs[j] = block[i]
  BY <1>3, <1>6, <1>7 DEF InUse
<1>. QED
  BY <1>1, <1>2, <1>3, <1>11, <1>12, <1>13 DEF SamePairs

-----------------------------------------------------------------------------
(***************************************************************************)
(* What the invariant says of the buckets, of what is found, and of a      *)
(* search                                                                  *)
(***************************************************************************)

\* A finite set of integers has a least element.
LEMMA MinIn ==
  ASSUME NEW S \in SUBSET Int, IsFiniteSet(S), S # {}
  PROVE  Min(S) \in S
<1>1. Cardinality(S) \in Nat /\ Cardinality(S) # 0
  BY FS_CardinalityType, FS_EmptySet
<1>2. 0 \in Nat /\ 0 < Cardinality(S)
  BY <1>1
<1>3. PICK x \in S : Rank(S, x) = 0
  BY <1>2, Ranks
<1>4. PICK A : A = {y \in S : y < x}
  OBVIOUS
<1>5. A \in SUBSET S
  BY <1>4
<1>6. A = {}
  BY <1>3, <1>4, <1>5, FS_Subset, FS_EmptySet DEF Rank
<1>7. \A y \in S : x <= y
  BY <1>4, <1>6
<1>. QED
  BY <1>7 DEF Min

\* The bucket of the update, and its writer.
LEMMA WriterFacts ==
  ASSUME BihashIInv, w_pc # "idle"
  PROVE  /\ add_v.key \in DOMAIN table.hash /\ add_v.key \in Keys
         /\ ThisBucket \in Indices
         /\ writer_lock \in Writers /\ writer_lock \notin Nat /\ writer_lock # 0
<1>1. add_v.key \in DOMAIN table.hash /\ writer_lock \in Writers /\ table \in Tables
  BY DEF BihashIInv, BihashTypeOK, WriterInv
<1>2. writer_lock \notin Nat
  BY <1>1, NamesAssumption
<1>3. 0 \in Nat
  OBVIOUS
<1>4. add_v.key \in Keys /\ ThisBucket \in Indices
  BY <1>1, <1>3, KeyIndices DEF ThisBucket
<1>. QED
  BY <1>1, <1>2, <1>3, <1>4

\* The pages of a bucket.
LEMMA HomeFacts ==
  ASSUME BihashIInv, NEW b \in Indices
  PROVE  /\ Home(b) \in Shapes
         /\ Home(b).offset \in Nat /\ Home(b).offset \notin Writers
         /\ Home(b).offset # 0 =>
              /\ Home(b).offset \in Live /\ Home(b).offset \in 1..Len(heap)
              /\ Sound(heap[Home(b).offset], Home(b), b)
<1>1. Home(b) \in Shapes
  BY DEF BihashIInv, BihashTypeOK, Home
<1>2. Home(b).offset \in Nat
  BY DEF BihashIInv, BlocksInv
<1>3. Home(b).offset \notin Writers
  BY <1>2, NamesAssumption
<1>4. ASSUME Home(b).offset # 0
      PROVE  Home(b).offset \in Live
  BY <1>4 DEF Live
<1>5. Live \subseteq 1..Len(heap)
  BY DEF BihashIInv, BlocksInv, Separate
<1>. QED
  BY <1>1, <1>2, <1>3, <1>4, <1>5 DEF BihashIInv, BlocksInv

\* What is found for a key is what is in the pages of its bucket, but for the key
\* that has been changed in them and not yet in the table.
FoundOK ==
  \A k \in DOMAIN table.hash :
    /\ Home(BucketIndex(k)).offset = 0 => Found(k) = NoValue
    /\ Home(BucketIndex(k)).offset # 0 /\ (k # add_v.key \/ w_pc # "changed") =>
         Found(k) = Lookup(k, heap[Home(BucketIndex(k)).offset], Home(BucketIndex(k)))
    /\ w_pc \in {"copied", "changed"} /\ BucketIndex(k) = ThisBucket =>
         Found(k) = Lookup(k, working_copies[writer_lock], saved_bucket)

\* The invariant implies it.
LEMMA FoundIs == BihashIInv => FoundOK
<1>. SUFFICES ASSUME BihashIInv, NEW k \in DOMAIN table.hash, NEW B, B = BucketIndex(k)
              PROVE  /\ Home(B).offset = 0 => Found(k) = NoValue
                     /\ Home(B).offset # 0 /\ (k # add_v.key \/ w_pc # "changed") =>
                          Found(k) = Lookup(k, heap[Home(B).offset], Home(B))
                     /\ w_pc \in {"copied", "changed"} /\ B = ThisBucket =>
                          Found(k) = Lookup(k, working_copies[writer_lock], saved_bucket)
  BY DEF FoundOK
<1>1. 0 \in Nat /\ table \in Tables
  BY DEF BihashIInv, BihashTypeOK
<1>2. B \in Indices
  BY <1>1, KeyIndices
<1>3. CASE ~(w_pc \in {"copied", "changed"} /\ B = ThisBucket)
  <2>1. Home(B) = buckets[B]
    BY <1>3 DEF Home
  <2>2. Home(B).offset \notin Writers
    BY <1>2, HomeFacts
  <2>3. Block(buckets[B].offset) = heap[Home(B).offset]
    BY <2>1, <2>2 DEF Block
  <2>. QED
    BY <1>3, <2>1, <2>3 DEF Found
<1>4. CASE w_pc \in {"copied", "changed"} /\ B = ThisBucket
  <2>1. Home(B) = saved_bucket /\ saved_bucket.offset # 0
    BY <1>4 DEF Home, BihashIInv, CopyInv
  <2>2. writer_lock \in Writers /\ writer_lock # 0
    BY <1>4, WriterFacts
  <2>3. buckets[B] = [saved_bucket EXCEPT !.offset = writer_lock]
    BY <1>4 DEF BihashIInv, CopyInv
  <2>4. saved_bucket \in Shapes /\ buckets[B] \in Shapes
    BY <1>2 DEF BihashIInv, BihashTypeOK
  <2>5. /\ buckets[B].offset = writer_lock
        /\ buckets[B].log2_pages = saved_bucket.log2_pages
        /\ buckets[B].linear_search = saved_bucket.linear_search
    BY <2>3, <2>4 DEF Shapes
  <2>6. Found(k) = Lookup(k, working_copies[writer_lock], saved_bucket)
    <3>1. Block(buckets[B].offset) = working_copies[writer_lock]
      BY <2>2, <2>5 DEF Block
    <3>2. Found(k) = Lookup(k, working_copies[writer_lock], buckets[B])
      BY <2>2, <2>5, <3>1 DEF Found
    <3>. QED
      BY <2>4, <2>5, <3>2, LookupShape
  <2>7. ASSUME k # add_v.key \/ w_pc # "changed"
        PROVE  Found(k) = Lookup(k, heap[saved_bucket.offset], saved_bucket)
    <3>1. CASE w_pc = "copied"
      BY <2>6, <3>1 DEF BihashIInv, CopyInv
    <3>2. CASE w_pc = "changed"
      BY <1>4, <2>6, <2>7, <3>2 DEF BihashIInv, CopyInv
    <3>. QED
      BY <1>4, <3>1, <3>2
  <2>. QED
    BY <1>4, <2>1, <2>6, <2>7
<1>. QED
  BY <1>3, <1>4

\* The same after a step.
LEMMA FoundIsPrime == BihashIInv' => FoundOK'
  BY FoundIs, PTL

\* The invariant implies that a search which nobody has disturbed is exact.
LEMMA ExactFromInvariant == BihashIInv => SearchExact
<1>. SUFFICES ASSUME BihashIInv, NEW r \in Readers, search[r].pc = "shape", ~disturbed[r]
              PROVE  Outcomes(r) = {Found(search[r].key)}
  BY DEF SearchExact
<1>1. PICK k : k = search[r].key
  OBVIOUS
<1>2. PICK B : B = BucketIndex(k)
  OBVIOUS
<1>3. PICK o : o = search[r].bucket.offset
  OBVIOUS
<1>4. k \in DOMAIN table.hash /\ Undisturbed(r, k, Home(B))
  BY <1>1, <1>2 DEF BihashIInv, ReaderInv
<1>5. 0 \in Nat /\ table \in Tables
  BY DEF BihashIInv, BihashTypeOK
<1>6. B \in Indices
  BY <1>2, <1>4, <1>5, KeyIndices
<1>7. PICK h : h = Home(B)
  OBVIOUS
<1>8. /\ h \in Shapes /\ h.offset # 0 /\ h.offset \notin Writers
      /\ Sound(heap[h.offset], h, B)
  BY <1>4, <1>6, <1>7, HomeFacts DEF Undisturbed
<1>9. Found(k) = Lookup(k, heap[h.offset], h)
  BY <1>2, <1>4, <1>7, <1>8, FoundIs DEF FoundOK, Undisturbed
<1>10. search[r].bucket = [h EXCEPT !.offset = o] /\ search[r].bucket \in Shapes
  BY <1>3, <1>4, <1>7 DEF Undisturbed, BihashIInv, BihashTypeOK
<1>11. /\ search[r].bucket.log2_pages = h.log2_pages
       /\ search[r].bucket.linear_search = h.linear_search
  BY <1>8, <1>10 DEF Shapes
<1>12. /\ Places(k, search[r].bucket) = Places(k, h)
       /\ \A block : Lookup(k, block, search[r].bucket) = Lookup(k, block, h)
  BY <1>8, <1>10, <1>11, LookupShape
<1>13. Places(k, h) \subseteq 1..Size(h.log2_pages)
  BY <1>4, <1>5, <1>8, PlacesInside
<1>14. /\ DOMAIN Block(o) = 1..Size(h.log2_pages)
       /\ Lookup(k, Block(o), h) = Found(k)
  <2>1. CASE o = h.offset
    BY <1>8, <1>9, <2>1 DEF Block, Sound
  <2>2. CASE Stale(r, o, k, h)
    BY <1>9, <2>2 DEF Block, Stale
  <2>. QED
    BY <1>3, <1>4, <1>7, <2>1, <2>2 DEF Undisturbed
<1>. QED
  BY <1>1, <1>3, <1>12, <1>13, <1>14 DEF Outcomes

-----------------------------------------------------------------------------
(***************************************************************************)
(* Every step keeps the invariant                                          *)
(***************************************************************************)

\* The table is empty and nobody is at work.
LEMMA BihashInitIInv == BihashInit => BihashIInv
<1>. SUFFICES ASSUME BihashInit
              PROVE  BihashIInv
  OBVIOUS
<1>1. NoBucket \in Shapes /\ NoBucket.offset = 0
  BY PagesAssumption DEF NoBucket, Shapes
<1>2. BihashTypeOK
  <2>1. working_copies \in [Writers -> Seq(Cell)]
    BY EmptySeq DEF BihashInit
  <2>2. add_v \in [key : Keys \cup {NoKey}, value : Values \cup {NoValue}]
    BY DEF BihashInit, FreePair, Pair
  <2>3. search \in [Readers -> [pc : {"idle", "offset", "shape"}, key : Keys \cup {NoKey},
                                bucket : Shapes]]
    BY <1>1 DEF BihashInit, Idle
  <2>4. buckets \in [Indices -> Shapes]
    BY <1>1 DEF BihashInit, Indices
  <2>. QED
    BY <1>1, <2>1, <2>2, <2>3, <2>4 DEF BihashInit, BihashTypeOK
<1>3. \A b \in Indices : Home(b) = NoBucket
  BY DEF BihashInit, Home, Indices
<1>4. Live = {}
  BY <1>1, <1>3 DEF Live, BihashInit
<1>5. Separate([heap |-> heap, free |-> freelists], Live)
  <2>1. heap \in Seq(Seq(Cell)) /\ \A n \in 0..MaxLog2 : freelists[n] = <<>>
    BY EmptySeq DEF BihashInit
  <2>2. freelists \in [0..MaxLog2 -> Seq(Nat)]
    BY EmptySeq DEF BihashInit
  <2>3. \A n \in 0..MaxLog2 : 1..Len(freelists[n]) = {}
    BY <2>1, EmptySeq
  <2>. QED
    BY <1>4, <2>1, <2>2, <2>3 DEF Separate
<1>6. BlocksInv
  BY <1>1, <1>3, <1>5 DEF BlocksInv, BihashInit
<1>7. WriterInv /\ CopyInv /\ ReaderInv
  BY DEF WriterInv, CopyInv, ReaderInv, BihashInit, Idle
<1>. QED
  BY <1>2, <1>6, <1>7 DEF BihashIInv

\* A step that neither touches the blocks nor gives a bucket other pages.
LEMMA BlocksSame ==
  ASSUME BihashIInv, table' = table, heap' = heap, freelists' = freelists,
         \A b \in Indices : Home(b)' = Home(b),
         w_pc' = "grown" <=> w_pc = "grown",
         w_pc = "grown" => saved_bucket' = saved_bucket
  PROVE  BlocksInv'
<1>1. Live' = Live
  BY DEF Live
<1>2. Separate([heap |-> heap, free |-> freelists], Live)'
  BY <1>1 DEF BihashIInv, BlocksInv, Separate
<1>3. \A b \in Indices : Home(b)'.offset # 0 => Sound(heap[Home(b).offset], Home(b), b)'
  BY TableStays DEF BihashIInv, BlocksInv
<1>. QED
  BY <1>2, <1>3 DEF BihashIInv, BlocksInv

\* A search that goes on undisturbed while its bucket keeps its pages and they the
\* pair with its key, if there is one.
LEMMA ReaderKept ==
  ASSUME BihashIInv, table' = table, NEW r \in Readers, search[r].pc # "idle",
         NEW k, k = search[r].key, NEW h, h = Home(BucketIndex(k)),
         search'[r] = search[r], ~disturbed[r],
         add_v'.key # k,
         Home(BucketIndex(k))' = h,
         Lookup(k, heap'[h.offset], h) = Lookup(k, heap[h.offset], h),
         overlap[r] \subseteq overlap'[r],
         \A w \in overlap[r] : (w_pc = "locked" => writer_lock # w) =>
           /\ working_copies'[w] = working_copies[w]
           /\ w_pc' = "locked" => writer_lock' # w
  PROVE  Undisturbed(r, search[r].key, Home(BucketIndex(search[r].key)))'
<1>1. Undisturbed(r, k, h)
  BY DEF BihashIInv, ReaderInv
<1>2. PICK o : o = search[r].bucket.offset
  OBVIOUS
<1>3. \A x, block, s : Lookup(x, block, s)' = Lookup(x, block, s)
  BY TableStays
<1>4. o = h.offset \/ Stale(r, o, k, h)'
  <2>1. CASE Stale(r, o, k, h)
    BY <1>3, <2>1 DEF Stale
  <2>. QED
    BY <1>1, <1>2, <2>1 DEF Undisturbed
<1>5. Undisturbed(r, k, h)'
  BY <1>1, <1>2, <1>4 DEF Undisturbed
<1>6. search[r].key' = k /\ Home(BucketIndex(search[r].key))' = h
  BY TableStays
<1>. QED
  BY <1>5, <1>6

\* The steps that leave the searches where they are.
LEMMA ReadersKept ==
  ASSUME BihashIInv, table' = table, search' = search,
         ASSUME NEW r \in Readers, search[r].pc # "idle", ~disturbed'[r],
                NEW k \in DOMAIN table.hash, k = search[r].key,
                NEW b \in Indices, b = BucketIndex(k), Home(b).offset # 0
         PROVE  /\ ~disturbed[r] /\ overlap[r] \subseteq overlap'[r]
                /\ add_v'.key # k
                /\ Home(b)' = Home(b)
                /\ Lookup(k, heap'[Home(b).offset], Home(b)) =
                     Lookup(k, heap[Home(b).offset], Home(b))
                /\ \A w \in overlap[r] : (w_pc = "locked" => writer_lock # w) =>
                     /\ working_copies'[w] = working_copies[w]
                     /\ w_pc' = "locked" => writer_lock' # w,
         \A r \in Readers : disturbed[r] => disturbed'[r]
  PROVE  ReaderInv'
<1>. SUFFICES ASSUME NEW r \in Readers, search'[r].pc # "idle"
              PROVE  /\ search'[r].key \in DOMAIN table'.hash
                     /\ ~disturbed'[r] =>
                          Undisturbed(r, search[r].key, Home(BucketIndex(search[r].key)))'
  BY DEF ReaderInv
<1>1. search[r].key \in DOMAIN table.hash /\ table \in Tables
  BY DEF BihashIInv, ReaderInv, BihashTypeOK
<1>2. ASSUME ~disturbed'[r]
      PROVE  Undisturbed(r, search[r].key, Home(BucketIndex(search[r].key)))'
  <2>1. PICK k \in DOMAIN table.hash : k = search[r].key
    BY <1>1
  <2>2. 0 \in Nat
    OBVIOUS
  <2>3. PICK b \in Indices : b = BucketIndex(k)
    BY <1>1, <2>2, KeyIndices
  <2>4. PICK h : h = Home(b)
    OBVIOUS
  <2>5. search[r].pc # "idle" /\ ~disturbed[r]
    BY <1>2
  <2>6. h.offset # 0
    BY <2>1, <2>3, <2>4, <2>5 DEF BihashIInv, ReaderInv, Undisturbed
  <2>7. /\ overlap[r] \subseteq overlap'[r]
        /\ add_v'.key # k
        /\ Home(b)' = h
        /\ Lookup(k, heap'[h.offset], h) = Lookup(k, heap[h.offset], h)
        /\ \A w \in overlap[r] : (w_pc = "locked" => writer_lock # w) =>
             /\ working_copies'[w] = working_copies[w]
             /\ w_pc' = "locked" => writer_lock' # w
    BY <1>2, <2>1, <2>3, <2>4, <2>5, <2>6
  <2>8. h = Home(BucketIndex(k)) /\ Home(BucketIndex(k))' = h
    BY <2>3, <2>4, <2>7, TableStays
  <2>. QED
    BY <2>1, <2>5, <2>7, <2>8, ReaderKept
<1>. QED
  BY <1>1, <1>2

\* Taking the lock.
LEMMA LockIInv ==
  ASSUME BihashIInv, NEW w \in table.writers, NEW k \in DOMAIN table.hash,
         NEW v \in table.values \cup {NoValue}, Lock(w, k, v)
  PROVE  BihashIInv'
<1>1. w \in Writers /\ k \in Keys /\ v \in Values \cup {NoValue} /\ table \in Tables
  BY TablesAssumption DEF BihashIInv, BihashTypeOK
<1>2. w # None /\ k # NoKey
  BY <1>1, NamesAssumption
<1>3. /\ w_pc = "idle" /\ w_pc' = "locked" /\ writer_lock' = w /\ add_v'.key = k
      /\ table' = table /\ heap' = heap /\ freelists' = freelists
      /\ buckets' = buckets /\ working_copies' = working_copies /\ search' = search
  BY DEF Lock, BihashIInv, BihashTypeOK, WriterInv, Pair, memory
<1>4. BihashTypeOK'
  <2>1. add_v' \in [key : Keys \cup {NoKey}, value : Values \cup {NoValue}]
    BY <1>1 DEF Lock, Pair
  <2>2. disturbed' \in [Readers -> BOOLEAN]
    BY DEF Lock
  <2>3. overlap' \in [Readers -> SUBSET Writers]
    BY <1>1 DEF Lock, BihashIInv, BihashTypeOK
  <2>. QED
    BY <1>1, <2>1, <2>2, <2>3 DEF Lock, BihashIInv, BihashTypeOK
<1>5. WriterInv'
  BY <1>2 DEF Lock, WriterInv, Pair
<1>6. \A b \in Indices : Home(b)' = Home(b)
  BY <1>3 DEF Home
<1>7. BlocksInv'
  BY <1>3, <1>6, BlocksSame
<1>8. CopyInv'
  BY <1>3 DEF CopyInv
<1>9. ReaderInv'
  <2>1. ASSUME NEW r \in Readers, search[r].pc # "idle", ~disturbed'[r]
        PROVE  /\ ~disturbed[r] /\ overlap[r] \subseteq overlap'[r]
               /\ k # search[r].key /\ w \notin overlap[r]
    BY <2>1 DEF Lock
  <2>2. \A r \in Readers : disturbed[r] => disturbed'[r]
    BY DEF Lock
  <2>. QED
    BY <1>3, <1>6, <2>1, <2>2, ReadersKept
<1>. QED
  BY <1>4, <1>5, <1>7, <1>8, <1>9 DEF BihashIInv

\* Sending the readers of a bucket to a copy of its pages.
LEMMA CopyIInv ==
  ASSUME BihashIInv, make_working_copy
  PROVE  BihashIInv'
<1>1. PICK B : B = ThisBucket
  OBVIOUS
<1>2. PICK h : h = buckets[B]
  OBVIOUS
<1>3. PICK w : w = writer_lock
  OBVIOUS
<1>4. /\ w_pc = "locked" /\ w_pc' = "copied" /\ h.offset # 0
      /\ saved_bucket' = h
      /\ working_copies' = [working_copies EXCEPT ![w] = Block(h.offset)]
      /\ buckets' = [buckets EXCEPT ![B].offset = w]
      /\ table' = table /\ heap' = heap /\ freelists' = freelists
      /\ writer_lock' = w /\ add_v' = add_v
      /\ search' = search /\ overlap' = overlap /\ disturbed' = disturbed
  BY <1>1, <1>2, <1>3 DEF make_working_copy, memory, readers
<1>5. w \in Writers /\ B \in Indices /\ w \notin Nat
  BY <1>1, <1>3, <1>4, WriterFacts
<1>6. Home(B) = h
  BY <1>2, <1>4 DEF Home
<1>7. /\ h \in Shapes /\ h.offset \in Nat /\ h.offset \notin Writers
      /\ Sound(heap[h.offset], h, B)
  BY <1>4, <1>5, <1>6, HomeFacts
<1>8. Block(h.offset) = heap[h.offset] /\ heap[h.offset] \in Seq(Cell)
  <2>1. h.log2_pages \in Nat
    BY <1>7, PagesAssumption DEF Shapes
  <2>2. Size(h.log2_pages) \in Nat
    BY <2>1, SizeGrows
  <2>. QED
    BY <1>7, <2>2, FunctionSeq DEF Block, Sound
<1>9. buckets \in [Indices -> Shapes] /\ working_copies \in [Writers -> Seq(Cell)]
  BY DEF BihashIInv, BihashTypeOK
<1>10. /\ buckets'[B] = [h EXCEPT !.offset = w]
       /\ \A b \in Indices : b # B => buckets'[b] = buckets[b]
       /\ working_copies'[w] = heap[h.offset]
       /\ \A x \in Writers : x # w => working_copies'[x] = working_copies[x]
  BY <1>2, <1>4, <1>5, <1>8, <1>9
<1>11. [h EXCEPT !.offset = w] \in Shapes
  BY <1>5, <1>7 DEF Shapes
<1>12. BihashTypeOK'
  <2>1. buckets' \in [Indices -> Shapes]
    BY <1>2, <1>4, <1>5, <1>9, <1>11
  <2>2. working_copies' \in [Writers -> Seq(Cell)]
    BY <1>4, <1>5, <1>8, <1>9
  <2>. QED
    BY <1>4, <1>5, <1>7, <2>1, <2>2 DEF BihashIInv, BihashTypeOK
<1>13. WriterInv'
  BY <1>3, <1>4 DEF BihashIInv, WriterInv
<1>14. ThisBucket' = B
  BY <1>1, <1>4, TableStays DEF ThisBucket
<1>15. \A b \in Indices : Home(b)' = Home(b)
  BY <1>2, <1>4, <1>10, <1>14 DEF Home
<1>16. BlocksInv'
  BY <1>4, <1>15, BlocksSame
<1>17. CopyInv'
  <2>1. Sound(heap[h.offset], h, B)'
    BY <1>4, <1>7, TableStays
  <2>. QED
    BY <1>4, <1>10, <1>14, <2>1 DEF CopyInv
<1>18. ReaderInv'
  <2>1. ASSUME NEW r \in Readers, search[r].pc # "idle", ~disturbed'[r]
        PROVE  add_v'.key # search[r].key
    BY <1>4, <2>1 DEF BihashIInv, ReaderInv, Undisturbed
  <2>2. overlap \in [Readers -> SUBSET Writers]
    BY DEF BihashIInv, BihashTypeOK
  <2>3. \A r \in Readers : \A x \in overlap[r] : writer_lock # x =>
          working_copies'[x] = working_copies[x]
    BY <1>3, <1>10, <2>2
  <2>. QED
    BY <1>4, <1>15, <2>1, <2>3, ReadersKept
<1>. QED
  BY <1>12, <1>13, <1>16, <1>17, <1>18 DEF BihashIInv

\* Sending them back.
LEMMA RestoreIInv ==
  ASSUME BihashIInv, Restore
  PROVE  BihashIInv'
<1>1. PICK B : B = ThisBucket
  OBVIOUS
<1>2. /\ w_pc = "changed" /\ w_pc' = "idle"
      /\ buckets' = [buckets EXCEPT ![B] = saved_bucket]
      /\ table' = table /\ heap' = heap /\ freelists' = freelists
      /\ working_copies' = working_copies
      /\ writer_lock' = None /\ add_v' = FreePair /\ saved_bucket' = NoBucket
      /\ search' = search /\ overlap' = overlap /\ disturbed' = disturbed
  BY <1>1 DEF Restore, Unlock, memory, readers
<1>3. B \in Indices
  BY <1>1, <1>2, WriterFacts
<1>4. saved_bucket \in Shapes /\ buckets \in [Indices -> Shapes]
  BY DEF BihashIInv, BihashTypeOK
<1>5. BihashTypeOK'
  <2>1. buckets' \in [Indices -> Shapes]
    BY <1>2, <1>3, <1>4
  <2>2. NoBucket \in Shapes
    BY PagesAssumption DEF NoBucket, Shapes
  <2>3. FreePair \in [key : Keys \cup {NoKey}, value : Values \cup {NoValue}]
    BY DEF FreePair, Pair
  <2>. QED
    BY <1>2, <2>1, <2>2, <2>3 DEF BihashIInv, BihashTypeOK
<1>6. WriterInv'
  BY <1>2 DEF WriterInv, FreePair
<1>7. \A b \in Indices : Home(b)' = Home(b)
  BY <1>1, <1>2, <1>3, <1>4 DEF Home
<1>8. BlocksInv'
  BY <1>2, <1>7, BlocksSame
<1>9. CopyInv'
  BY <1>2 DEF CopyInv
<1>10. ReaderInv'
  <2>1. add_v'.key = NoKey
    BY <1>2 DEF FreePair, Pair
  <2>2. \A k \in DOMAIN table.hash : k # NoKey
    BY TablesAssumption, NamesAssumption DEF BihashIInv, BihashTypeOK
  <2>. QED
    BY <1>2, <1>7, <2>1, <2>2, ReadersKept
<1>. QED
  BY <1>5, <1>6, <1>8, <1>9, <1>10 DEF BihashIInv

\* Nothing but the state of reader r changes.
OnlyReader(r) ==
  /\ table' = table /\ buckets' = buckets /\ heap' = heap /\ freelists' = freelists
  /\ working_copies' = working_copies
  /\ saved_bucket' = saved_bucket /\ writer_lock' = writer_lock
  /\ w_pc' = w_pc /\ add_v' = add_v
  /\ \A q \in Readers \ {r} :
       search'[q] = search[q] /\ overlap'[q] = overlap[q] /\ disturbed'[q] = disturbed[q]

\* The type of the variables of the readers.
SearchTypeOK ==
  /\ search \in [Readers -> [pc : {"idle", "offset", "shape"}, key : Keys \cup {NoKey},
                             bucket : Shapes]]
  /\ overlap \in [Readers -> SUBSET Writers]
  /\ disturbed \in [Readers -> BOOLEAN]

\* Where the pages of the buckets are does not change with a search.
LEMMA ReaderHomes ==
  ASSUME NEW r \in Readers, OnlyReader(r)
  PROVE  ThisBucket' = ThisBucket /\ \A b \in Indices : Home(b)' = Home(b)
<1>1. ThisBucket' = ThisBucket
  BY TableStays DEF OnlyReader, ThisBucket
<1>. QED
  BY <1>1 DEF OnlyReader, Home

\* A step of reader r keeps the invariant when it does for r.
LEMMA ReaderIInv ==
  ASSUME BihashIInv, NEW r \in Readers, OnlyReader(r), SearchTypeOK',
         search'[r].pc # "idle" =>
           /\ search'[r].key \in DOMAIN table.hash
           /\ ~disturbed'[r] =>
                Undisturbed(r, search[r].key, Home(BucketIndex(search[r].key)))'
  PROVE  BihashIInv'
<1>1. BihashTypeOK'
  BY DEF BihashIInv, BihashTypeOK, OnlyReader, SearchTypeOK
<1>2. WriterInv'
  BY DEF BihashIInv, WriterInv, OnlyReader
<1>3. ThisBucket' = ThisBucket /\ \A b \in Indices : Home(b)' = Home(b)
  BY ReaderHomes
<1>4. BlocksInv'
  BY <1>3, BlocksSame DEF OnlyReader
<1>5. CopyInv'
  <2>1. table' = table
    BY DEF OnlyReader
  <2>. QED
    BY <1>3, <2>1, TableStays DEF BihashIInv, CopyInv, OnlyReader
<1>6. ReaderInv'
  <2>. SUFFICES ASSUME NEW q \in Readers, search'[q].pc # "idle"
                PROVE  /\ search'[q].key \in DOMAIN table'.hash
                       /\ ~disturbed'[q] =>
                            Undisturbed(q, search[q].key, Home(BucketIndex(search[q].key)))'
    BY DEF ReaderInv
  <2>1. CASE q = r
    BY <2>1 DEF OnlyReader
  <2>2. CASE q # r
    <3>1. /\ search'[q] = search[q] /\ overlap'[q] = overlap[q]
          /\ disturbed'[q] = disturbed[q] /\ table' = table
      BY <2>2 DEF OnlyReader
    <3>2. PICK k \in DOMAIN table.hash : k = search[q].key
      BY <3>1 DEF BihashIInv, ReaderInv
    <3>3. 0 \in Nat /\ table \in Tables
      BY DEF BihashIInv, BihashTypeOK
    <3>4. PICK h : h = Home(BucketIndex(k))
      OBVIOUS
    <3>5. Home(BucketIndex(k))' = h
      BY <1>3, <3>1, <3>2, <3>3, <3>4, KeyIndices, TableStays
    <3>6. ~disturbed[q] => add_v'.key # k
      BY <3>1, <3>2 DEF BihashIInv, ReaderInv, Undisturbed, OnlyReader
    <3>7. ~disturbed[q] =>
            Undisturbed(q, search[q].key, Home(BucketIndex(search[q].key)))'
      BY <3>1, <3>2, <3>4, <3>5, <3>6, ReaderKept DEF OnlyReader
    <3>. QED
      BY <3>1, <3>2, <3>7
  <2>. QED
    BY <2>1, <2>2
<1>. QED
  BY <1>1, <1>2, <1>4, <1>5, <1>6 DEF BihashIInv

\* A bucket of one page, as the first pair makes it.
LEMMA AtOffset ==
  ASSUME NEW o \in Nat \cup Writers, NEW s, s = [NoBucket EXCEPT !.offset = o]
  PROVE  s \in Shapes /\ s.offset = o /\ s.log2_pages = 0 /\ s.linear_search = FALSE
<1>1. 0 \in 0..MaxLog2
  BY PagesAssumption
<1>2. s \in Shapes
  BY <1>1 DEF NoBucket, Shapes
<1>3. s.offset = o /\ s.log2_pages = 0 /\ s.linear_search = FALSE
  BY DEF NoBucket
<1>. QED
  BY <1>2, <1>3

\* A search reads the offset of its bucket.
LEMMA SearchBeginsIInv ==
  ASSUME BihashIInv, NEW r \in Readers, NEW k \in table.searched, SearchBegins(r, k)
  PROVE  BihashIInv'
<1>1. k \in DOMAIN table.hash /\ k \in Keys /\ table \in Tables /\ 0 \in Nat
  BY TablesAssumption DEF BihashIInv, BihashTypeOK
<1>2. PICK B \in Indices : B = BucketIndex(k)
  BY <1>1, KeyIndices
<1>3. PICK o : o = buckets[B].offset
  OBVIOUS
<1>4. o \in Nat \cup Writers /\ o # 0
  BY <1>2, <1>3 DEF SearchBegins, BihashIInv, BihashTypeOK, Shapes
<1>5. PICK s : s = [pc |-> "offset", key |-> k, bucket |-> [NoBucket EXCEPT !.offset = o]]
  OBVIOUS
<1>6. /\ search' = [search EXCEPT ![r] = s]
      /\ overlap' = [overlap EXCEPT ![r] = {writer_lock} \ {None}]
      /\ disturbed' = [disturbed EXCEPT ![r] = add_v.key = k]
      /\ UNCHANGED <<table, buckets, memory, working_copies, writer>>
  BY <1>2, <1>3, <1>5 DEF SearchBegins
<1>7. /\ s \in [pc : {"idle", "offset", "shape"}, key : Keys \cup {NoKey}, bucket : Shapes]
      /\ s.pc = "offset" /\ s.key = k /\ s.bucket.offset = o
  <2>1. PICK c : c = [NoBucket EXCEPT !.offset = o]
    OBVIOUS
  <2>2. c \in Shapes /\ c.offset = o
    BY <1>4, <2>1, AtOffset
  <2>. QED
    BY <1>1, <1>5, <2>1, <2>2
<1>8. SearchTypeOK
  BY DEF BihashIInv, BihashTypeOK, SearchTypeOK
<1>9. {writer_lock} \ {None} \in SUBSET Writers
  BY DEF BihashIInv, BihashTypeOK
<1>10. SearchTypeOK'
  BY <1>6, <1>7, <1>8, <1>9 DEF SearchTypeOK
<1>11. /\ search'[r] = s /\ overlap'[r] = {writer_lock} \ {None}
       /\ disturbed'[r] = (add_v.key = k)
  BY <1>6, <1>8 DEF SearchTypeOK
<1>12. OnlyReader(r)
  BY <1>6, <1>8 DEF OnlyReader, memory, writer, SearchTypeOK
<1>13. ASSUME ~disturbed'[r]
       PROVE  Undisturbed(r, search[r].key, Home(BucketIndex(search[r].key)))'
  <2>1. add_v.key # k
    BY <1>11, <1>13
  <2>2. PICK h : h = Home(B)
    OBVIOUS
  <2>3. h.offset # 0 /\ (o = h.offset \/ Stale(r, o, k, h)')
    <3>1. CASE ~(w_pc \in {"copied", "changed"} /\ B = ThisBucket)
      BY <1>3, <1>4, <2>2, <3>1 DEF Home
    <3>2. CASE w_pc \in {"copied", "changed"} /\ B = ThisBucket
      <4>1. /\ h = saved_bucket /\ h.offset # 0
            /\ buckets[B] = [saved_bucket EXCEPT !.offset = writer_lock]
            /\ Sound(working_copies[writer_lock], h, B)
        BY <2>2, <3>2 DEF Home, BihashIInv, CopyInv
      <4>2. o = writer_lock
        BY <1>3, <4>1 DEF BihashIInv, BihashTypeOK, Shapes
      <4>3. o \in Writers /\ o # None
        BY <3>2, <4>2, WriterFacts, NamesAssumption
      <4>4. Lookup(k, working_copies[o], h) = Lookup(k, heap[h.offset], h)
        BY <1>1, <1>2, <2>1, <3>2, <4>1, <4>2 DEF BihashIInv, CopyInv
      <4>5. DOMAIN working_copies[o] = 1..Size(h.log2_pages)
        BY <4>1, <4>2 DEF Sound
      <4>6. Stale(r, o, k, h)'
        BY <1>11, <1>12, <3>2, <4>2, <4>3, <4>4, <4>5, TableStays DEF Stale, OnlyReader
      <4>. QED
        BY <4>1, <4>6
    <3>. QED
      BY <3>1, <3>2
  <2>4. Undisturbed(r, k, h)'
    BY <1>7, <1>11, <1>12, <2>1, <2>3 DEF Undisturbed, OnlyReader
  <2>5. table' = table
    BY <1>12 DEF OnlyReader
  <2>6. BucketIndex(k)' = B
    BY <1>2, <2>5, TableStays
  <2>7. Home(B)' = h
    BY <1>12, <2>2, ReaderHomes
  <2>. QED
    BY <1>7, <1>11, <2>4, <2>6, <2>7
<1>. QED
  BY <1>1, <1>7, <1>10, <1>11, <1>12, <1>13, ReaderIInv

\* A search reads the shape of its bucket.
LEMMA SearchShapeIInv ==
  ASSUME BihashIInv, NEW r \in Readers, SearchShape(r)
  PROVE  BihashIInv'
<1>1. PICK k : k = search[r].key
  OBVIOUS
<1>2. k \in DOMAIN table.hash /\ table \in Tables /\ 0 \in Nat
  BY <1>1 DEF BihashIInv, BihashTypeOK, ReaderInv, SearchShape
<1>3. PICK B \in Indices : B = BucketIndex(k)
  BY <1>2, KeyIndices
<1>4. PICK o : o = search[r].bucket.offset
  OBVIOUS
<1>5. PICK c : c = [buckets[B] EXCEPT !.offset = o]
  OBVIOUS
<1>6. /\ search' = [search EXCEPT ![r].pc = "shape", ![r].bucket = c]
      /\ search[r].pc = "offset"
      /\ UNCHANGED <<table, buckets, memory, working_copies, writer, overlap, disturbed>>
  BY <1>1, <1>3, <1>4, <1>5 DEF SearchShape
<1>7. SearchTypeOK
  BY DEF BihashIInv, BihashTypeOK, SearchTypeOK
<1>8. o \in Nat \cup Writers
  BY <1>4, <1>7 DEF SearchTypeOK, Shapes
<1>9. /\ c \in Shapes /\ c.offset = o /\ c.log2_pages = buckets[B].log2_pages
      /\ c.linear_search = buckets[B].linear_search
  BY <1>5, <1>8 DEF BihashIInv, BihashTypeOK, Shapes
<1>10. SearchTypeOK'
  BY <1>6, <1>7, <1>9 DEF SearchTypeOK
<1>11. search'[r].pc = "shape" /\ search'[r].key = k /\ search'[r].bucket = c
  BY <1>1, <1>6, <1>7 DEF SearchTypeOK
<1>12. OnlyReader(r)
  BY <1>6, <1>7 DEF OnlyReader, memory, writer, SearchTypeOK
<1>13. ASSUME ~disturbed'[r]
       PROVE  Undisturbed(r, search[r].key, Home(BucketIndex(search[r].key)))'
  <2>1. PICK h : h = Home(B)
    OBVIOUS
  <2>2. Undisturbed(r, k, h)
    BY <1>1, <1>3, <1>6, <1>13, <2>1 DEF BihashIInv, ReaderInv
  <2>3. /\ h \in Shapes /\ h.log2_pages = buckets[B].log2_pages
        /\ h.linear_search = buckets[B].linear_search
    <3>1. h \in Shapes
      BY <2>1, HomeFacts
    <3>2. CASE w_pc \in {"copied", "changed"} /\ B = ThisBucket
      <4>1. h = saved_bucket /\ buckets[B] = [saved_bucket EXCEPT !.offset = writer_lock]
        BY <2>1, <3>2 DEF Home, BihashIInv, CopyInv
      <4>. QED
        BY <3>1, <4>1 DEF Shapes
    <3>3. CASE ~(w_pc \in {"copied", "changed"} /\ B = ThisBucket)
      BY <2>1, <3>1, <3>3 DEF Home
    <3>. QED
      BY <3>2, <3>3
  <2>4. c = [h EXCEPT !.offset = o]
    BY <1>9, <2>3 DEF Shapes
  <2>5. table' = table /\ \A x, block, s : Lookup(x, block, s)' = Lookup(x, block, s)
    BY <1>12, TableStays DEF OnlyReader
  <2>6. o = h.offset \/ Stale(r, o, k, h)'
    <3>1. CASE Stale(r, o, k, h)
      BY <1>6, <1>12, <2>5, <3>1 DEF Stale, OnlyReader
    <3>. QED
      BY <1>4, <2>2, <3>1 DEF Undisturbed
  <2>7. Undisturbed(r, k, h)'
    BY <1>9, <1>11, <1>12, <2>2, <2>4, <2>6 DEF Undisturbed, OnlyReader
  <2>8. BucketIndex(k)' = B
    BY <1>3, <2>5, TableStays
  <2>9. Home(B)' = h
    BY <1>12, <2>1, ReaderHomes
  <2>. QED
    BY <1>11, <2>7, <2>8, <2>9
<1>. QED
  BY <1>2, <1>10, <1>11, <1>12, <1>13, ReaderIInv

\* A search returns.
LEMMA SearchReturnsIInv ==
  ASSUME BihashIInv, NEW r \in Readers, SearchReturns(r)
  PROVE  BihashIInv'
<1>1. SearchTypeOK
  BY DEF BihashIInv, BihashTypeOK, SearchTypeOK
<1>2. /\ Idle \in [pc : {"idle", "offset", "shape"}, key : Keys \cup {NoKey}, bucket : Shapes]
      /\ Idle.pc = "idle"
  <2>1. NoBucket \in Shapes
    BY PagesAssumption DEF NoBucket, Shapes
  <2>. QED
    BY <2>1 DEF Idle
<1>3. SearchTypeOK'
  BY <1>1, <1>2 DEF SearchReturns, SearchTypeOK
<1>4. OnlyReader(r)
  BY <1>1 DEF SearchReturns, OnlyReader, memory, writer, SearchTypeOK
<1>5. search'[r].pc = "idle"
  BY <1>1, <1>2 DEF SearchReturns, SearchTypeOK
<1>. QED
  BY <1>3, <1>4, <1>5, ReaderIInv

-----------------------------------------------------------------------------
(***************************************************************************)
(* Changing a pair of a block                                              *)
(***************************************************************************)

\* A block without pairs has no keys.
LEMMA BlankSound ==
  ASSUME NEW s \in Shapes, NEW b
  PROVE  /\ Sound(Blank(s.log2_pages), s, b)
         /\ \A i \in 1..Size(s.log2_pages) : Blank(s.log2_pages)[i].key = NoKey
<1>1. s.log2_pages \in Nat
  BY PagesAssumption DEF Shapes
<1>2. PICK block : block = Blank(s.log2_pages)
  OBVIOUS
<1>3. block \in [1..Size(s.log2_pages) -> Cell]
  BY <1>1, <1>2, BlankType
<1>4. \A i \in 1..Size(s.log2_pages) : block[i].key = NoKey
  BY <1>2 DEF Blank, FreePair, Pair
<1>. QED
  BY <1>2, <1>3, <1>4 DEF Sound

\* Writing a pair with key k, or freeing one, at a place of k when k is nowhere else:
\* the block stays sound.
LEMMA WriteSound ==
  ASSUME table \in Tables, NEW s \in Shapes, NEW b, NEW block, Sound(block, s, b),
         NEW k \in DOMAIN table.hash, BucketIndex(k) = b,
         NEW i \in 1..Size(s.log2_pages), i \in Places(k, s),
         block[i].key \in {k, NoKey},
         \A j \in 1..Size(s.log2_pages) : block[j].key = k => j = i,
         NEW c \in Cell, c = FreePair \/ c.key = k,
         NEW new \in [1..Size(s.log2_pages) -> Cell], new[i] = c,
         \A j \in 1..Size(s.log2_pages) : j # i => new[j] = block[j]
  PROVE  Sound(new, s, b)
<1>1. /\ block \in [1..Size(s.log2_pages) -> Cell]
      /\ DOMAIN block = 1..Size(s.log2_pages) /\ DOMAIN new = 1..Size(s.log2_pages)
  BY DEF Sound
<1>2. FreePair.key = NoKey /\ FreePair.value = NoValue
  BY DEF FreePair, Pair
<1>3. \A x \in DOMAIN table.hash : x # NoKey
  BY TablesAssumption, NamesAssumption
<1>4. ASSUME NEW j \in 1..Size(s.log2_pages), new[j].key # NoKey
      PROVE  /\ new[j].key \in DOMAIN table.hash
             /\ BucketIndex(new[j].key) = b
             /\ j \in Places(new[j].key, s)
  <2>1. CASE j = i
    BY <1>1, <1>2, <1>4, <2>1
  <2>2. CASE j # i
    BY <1>1, <1>4, <2>2 DEF Sound
  <2>. QED
    BY <2>1, <2>2
<1>5. ASSUME NEW j \in 1..Size(s.log2_pages), NEW l \in 1..Size(s.log2_pages),
             new[j].key # NoKey, new[j].key = new[l].key
      PROVE  j = l
  <2>1. CASE j = i
    BY <1>1, <1>2, <1>5, <2>1
  <2>2. CASE l = i
    BY <1>1, <1>2, <1>5, <2>2
  <2>3. CASE j # i /\ l # i
    BY <1>1, <1>5, <2>3 DEF Sound
  <2>. QED
    BY <2>1, <2>2, <2>3
<1>6. Sound(new, s, b)
  BY <1>1, <1>4, <1>5 DEF Sound
<1>. QED
  BY <1>6

\* After that the key has the value of the pair, and other keys have what they had.
LEMMA WriteLookup ==
  ASSUME table \in Tables, NEW s \in Shapes, NEW b, NEW block, Sound(block, s, b),
         NEW new, Sound(new, s, b),
         NEW k \in DOMAIN table.hash, NEW i \in DOMAIN new,
         \A j \in DOMAIN new : block[j].key = k => j = i, block[i].key \in {k, NoKey},
         NEW c, new[i] = c, c = FreePair \/ c.key = k,
         \A j \in DOMAIN new : j # i => new[j] = block[j]
  PROVE  /\ Lookup(k, new, s) = c.value
         /\ \A x \in DOMAIN table.hash : x # k => Lookup(x, new, s) = Lookup(x, block, s)
<1>1. FreePair.key = NoKey /\ FreePair.value = NoValue
  BY DEF FreePair, Pair
<1>2. \A x \in DOMAIN table.hash : x # NoKey
  BY TablesAssumption, NamesAssumption
<1>3. DOMAIN block = DOMAIN new
  BY DEF Sound
<1>4. Lookup(k, new, s) = c.value
  <2>1. CASE c.key = k
    BY <2>1, LookupSound
  <2>2. CASE c = FreePair
    <3>1. \A j \in DOMAIN new : new[j].key # k
      BY <1>1, <1>2, <2>2
    <3>2. Lookup(k, new, s) = NoValue
      BY <3>1, LookupSound
    <3>. QED
      BY <1>1, <2>2, <3>2
  <2>. QED
    BY <2>1, <2>2
<1>5. ASSUME NEW x \in DOMAIN table.hash, x # k
      PROVE  Lookup(x, new, s) = Lookup(x, block, s)
  <2>1. \A j \in DOMAIN new : (block[j].key = x <=> new[j].key = x) /\
                              (block[j].key = x => new[j] = block[j])
    BY <1>1, <1>2, <1>5
  <2>2. CASE \E j \in DOMAIN new : block[j].key = x
    <3>1. PICK j \in DOMAIN new : block[j].key = x
      BY <2>2
    <3>2. Lookup(x, block, s) = block[j].value
      BY <1>3, <3>1, LookupSound
    <3>3. Lookup(x, new, s) = new[j].value
      BY <2>1, <3>1, LookupSound
    <3>. QED
      BY <2>1, <3>1, <3>2, <3>3
  <2>3. CASE \A j \in DOMAIN new : block[j].key # x
    <3>1. Lookup(x, block, s) = NoValue
      BY <1>3, <2>3, LookupSound
    <3>2. Lookup(x, new, s) = NoValue
      BY <2>1, <2>3, LookupSound
    <3>. QED
      BY <3>1, <3>2
  <2>. QED
    BY <2>2, <2>3
<1>. QED
  BY <1>4, <1>5

\* Where the pair goes: a place of its key, and the key is nowhere else.
LEMMA TargetFacts ==
  ASSUME BihashIInv, w_pc = "copied", NEW h, h = saved_bucket,
         NEW block, block = heap[h.offset]
  PROVE  /\ Sound(block, h, ThisBucket)
         /\ \A i \in Targets :
              /\ i \in 1..Size(h.log2_pages) /\ i \in Places(add_v.key, h)
              /\ block[i].key \in {add_v.key, NoKey}
              /\ \A j \in 1..Size(h.log2_pages) : block[j].key = add_v.key => j = i
         /\ Targets # {} => Min(Targets) \in Targets
         /\ Targets = {} => \A j \in 1..Size(h.log2_pages) : block[j].key # add_v.key
<1>1. PICK k : k = add_v.key
  OBVIOUS
<1>2. PICK N : N = Size(h.log2_pages)
  OBVIOUS
<1>3. Sound(block, h, ThisBucket)
  BY DEF BihashIInv, CopyInv
<1>4. DOMAIN block = 1..N
  BY <1>2, <1>3 DEF Sound
<1>5. k \in DOMAIN table.hash /\ k # NoKey
  <2>1. k \in DOMAIN table.hash /\ k \in Keys
    BY <1>1, WriterFacts
  <2>. QED
    BY <2>1, NamesAssumption
<1>6. \A j \in 1..N : block[j].key = k => j \in Places(k, h)
  BY <1>2, <1>3, <1>5 DEF Sound
<1>7. \A i, j \in 1..N : block[i].key = k /\ block[j].key = k => i = j
  BY <1>2, <1>3, <1>5 DEF Sound
<1>8. \A x : InPlaces(x) = {i \in Places(k, h) \cap (1..N) : block[i].key = x}
  BY <1>1, <1>4 DEF InPlaces, Holding
<1>9. CASE InPlaces(k) # {}
  <2>1. Targets = InPlaces(k)
    BY <1>1, <1>9 DEF Targets
  <2>2. PICK i : i \in InPlaces(k)
    BY <1>9
  <2>3. InPlaces(k) = {i} /\ i \in 1..N
    BY <1>7, <1>8, <2>2
  <2>4. i \in Int
    BY <2>3
  <2>5. Min(Targets) \in Targets
    BY <2>1, <2>3, <2>4, MinOfOne
  <2>. QED
    BY <1>1, <1>2, <1>3, <1>7, <1>8, <2>1, <2>3, <2>5
<1>10. CASE InPlaces(k) = {}
  <2>1. \A j \in 1..N : block[j].key # k
    BY <1>6, <1>8, <1>10
  <2>2. Targets \in SUBSET InPlaces(NoKey)
    BY <1>1, <1>10 DEF Targets
  <2>3. \A i \in Targets : i \in 1..N /\ i \in Places(k, h) /\ block[i].key = NoKey
    BY <1>8, <2>2
  <2>4. Targets # {} => Min(Targets) \in Targets
    <3>1. h.log2_pages \in Nat
      BY PagesAssumption DEF BihashIInv, BihashTypeOK, Shapes
    <3>2. N \in Nat
      BY <1>2, <3>1, SizeGrows
    <3>3. Targets \in SUBSET (1..N) /\ IsFiniteSet(1..N)
      BY <2>3, <3>2, FS_Interval
    <3>4. IsFiniteSet(Targets)
      BY <3>3, FS_Subset
    <3>5. Targets \in SUBSET Int
      BY <3>2, <3>3
    <3>. QED
      BY <3>4, <3>5, MinIn
  <2>. QED
    BY <1>1, <1>2, <1>3, <2>1, <2>3, <2>4
<1>. QED
  BY <1>9, <1>10

\* Changing the pages nobody is sent to.
LEMMA ChangeIInv ==
  ASSUME BihashIInv, Change
  PROVE  BihashIInv'
<1>1. PICK B : B = ThisBucket
  OBVIOUS
<1>2. PICK h : h = saved_bucket
  OBVIOUS
<1>3. PICK k : k = add_v.key
  OBVIOUS
<1>4. /\ w_pc = "copied" /\ w_pc' = "changed"
      /\ table' = table /\ buckets' = buckets /\ freelists' = freelists
      /\ working_copies' = working_copies /\ saved_bucket' = saved_bucket
      /\ writer_lock' = writer_lock /\ add_v' = add_v
      /\ search' = search /\ overlap' = overlap /\ disturbed' = disturbed
  BY DEF Change, readers
<1>5. table \in Tables /\ h \in Shapes /\ k \in DOMAIN table.hash /\ B \in Indices
  BY <1>1, <1>2, <1>3, <1>4, WriterFacts DEF BihashIInv, BihashTypeOK
<1>6. PICK block : block = heap[h.offset]
  OBVIOUS
<1>7. Home(B) = h /\ h.offset # 0 /\ working_copies[writer_lock] = block
  BY <1>1, <1>2, <1>4, <1>6 DEF Home, BihashIInv, CopyInv
<1>8. h.offset \in 1..Len(heap) /\ h.offset \in Live
  BY <1>5, <1>7, HomeFacts
<1>9. ThisBucket' = B
  BY <1>1, <1>4, TableStays DEF ThisBucket
<1>10. \A b \in Indices : Home(b)' = Home(b)
  BY <1>1, <1>4, <1>9 DEF Home
<1>11. Live' = Live
  BY <1>4, <1>10 DEF Live
<1>12. Separate([heap |-> heap, free |-> freelists], Live)
  BY DEF BihashIInv, BlocksInv
<1>13. /\ Sound(block, h, B)
       /\ \A i \in Targets :
            /\ i \in 1..Size(h.log2_pages) /\ i \in Places(k, h)
            /\ block[i].key \in {k, NoKey}
            /\ \A j \in 1..Size(h.log2_pages) : block[j].key = k => j = i
       /\ Targets # {} => Min(Targets) \in Targets
       /\ Targets = {} => \A j \in 1..Size(h.log2_pages) : block[j].key # k
  BY <1>1, <1>2, <1>3, <1>4, <1>6, TargetFacts
<1>14. /\ Separate([heap |-> heap', free |-> freelists], Live)
       /\ \A o \in Live : o # h.offset => heap'[o] = heap[o]
       /\ Sound(heap'[h.offset], h, B)
       /\ Lookup(k, heap'[h.offset], h) = add_v.value
       /\ \A x \in DOMAIN table.hash : x # k =>
            Lookup(x, heap'[h.offset], h) = Lookup(x, block, h)
  <2>1. CASE Targets = {}
    <3>1. heap' = heap /\ add_v.value = NoValue
      BY <2>1 DEF Change
    <3>2. Lookup(k, block, h) = NoValue
      <4>1. DOMAIN block = 1..Size(h.log2_pages)
        BY <1>13 DEF Sound
      <4>2. ASSUME NEW i \in DOMAIN block
            PROVE  block[i].key # k
        BY <1>13, <2>1, <4>1, <4>2
      <4>3. Sound(block, h, B)
        BY <1>13
      <4>. QED
        BY <1>5, <4>2, <4>3, LookupSound
    <3>. QED
      BY <1>6, <1>12, <1>13, <3>1, <3>2
  <2>2. CASE Targets # {}
    <3>1. PICK i : i = Min(Targets)
      OBVIOUS
    <3>2. PICK c : c = IF add_v.value = NoValue THEN FreePair ELSE add_v
      OBVIOUS
    <3>3. c \in Cell /\ (c = FreePair \/ c.key = k) /\ c.value = add_v.value
      <4>1. add_v \in Cell
        BY DEF BihashIInv, BihashTypeOK, Cell
      <4>. QED
        BY <1>3, <3>2, <4>1 DEF FreePair, Pair, Cell
    <3>4. PICK new : new = [block EXCEPT ![i] = c]
      OBVIOUS
    <3>5. /\ i \in 1..Size(h.log2_pages) /\ i \in Places(k, h)
          /\ block[i].key \in {k, NoKey}
          /\ \A j \in 1..Size(h.log2_pages) : block[j].key = k => j = i
      BY <1>13, <2>2, <3>1
    <3>6. BucketIndex(k) = B
      BY <1>1, <1>3 DEF ThisBucket
    <3>7. /\ Sound(new, h, B) /\ Lookup(k, new, h) = c.value
          /\ \A x \in DOMAIN table.hash : x # k => Lookup(x, new, h) = Lookup(x, block, h)
      <4>1. block \in [1..Size(h.log2_pages) -> Cell]
        BY <1>13 DEF Sound
      <4>2. /\ new \in [1..Size(h.log2_pages) -> Cell] /\ new[i] = c
            /\ \A j \in 1..Size(h.log2_pages) : j # i => new[j] = block[j]
        BY <3>3, <3>4, <3>5, <4>1
      <4>3. Sound(new, h, B)
        BY <1>5, <1>13, <3>3, <3>5, <3>6, <4>2, WriteSound
      <4>4. DOMAIN new = 1..Size(h.log2_pages)
        BY <4>2
      <4>5. /\ i \in DOMAIN new /\ new[i] = c
            /\ \A j \in DOMAIN new : block[j].key = k => j = i
            /\ \A j \in DOMAIN new : j # i => new[j] = block[j]
        BY <3>5, <4>2, <4>4
      <4>6. Sound(block, h, B) /\ block[i].key \in {k, NoKey} /\ (c = FreePair \/ c.key = k)
        BY <1>13, <3>3, <3>5
      <4>. QED
        BY <1>5, <4>3, <4>5, <4>6, WriteLookup
    <3>8. heap' = [heap EXCEPT ![h.offset] = new]
      BY <1>2, <1>6, <2>2, <3>1, <3>2, <3>4 DEF Change
    <3>9. new \in Seq(Cell)
      <4>1. h.log2_pages \in Nat
        BY <1>5, PagesAssumption DEF Shapes
      <4>2. Size(h.log2_pages) \in Nat
        BY <4>1, SizeGrows
      <4>. QED
        BY <3>7, <4>2, FunctionSeq DEF Sound
    <3>10. PICK m, w : /\ m = [heap |-> heap, free |-> freelists]
                       /\ w = [heap |-> heap', free |-> freelists]
      OBVIOUS
    <3>11. /\ m.heap = heap /\ m.free = freelists /\ Separate(m, Live)
           /\ w.heap = heap' /\ w.free = freelists
      BY <1>12, <3>10
    <3>12. heap \in Seq(Seq(Cell)) /\ Live \subseteq 1..Len(heap)
      BY <3>11 DEF Separate
    <3>13. /\ heap' \in Seq(Seq(Cell)) /\ Len(heap') = Len(heap)
           /\ \A o \in 1..Len(heap) : o # h.offset => heap'[o] = heap[o]
           /\ heap'[h.offset] = new
      BY <1>8, <3>8, <3>9, <3>12, WriteSeq
    <3>14. Separate(w, Live)
      BY <3>11, <3>13, SeparateWrite
    <3>15. \A o \in Live : o # h.offset => heap'[o] = heap[o]
      BY <3>12, <3>13
    <3>. QED
      BY <3>3, <3>7, <3>10, <3>13, <3>14, <3>15
  <2>. QED
    BY <2>1, <2>2
<1>15. BihashTypeOK' /\ WriterInv'
  BY <1>4 DEF BihashIInv, BihashTypeOK, WriterInv
<1>16. BlocksInv'
  <2>1. ASSUME NEW b \in Indices, Home(b).offset # 0
        PROVE  Sound(heap'[Home(b).offset], Home(b), b)
    <3>1. CASE b = B
      BY <1>7, <1>14, <3>1
    <3>2. CASE b # B
      <4>1. Home(b).offset # h.offset
        BY <1>5, <1>7, <2>1, <3>2 DEF BihashIInv, BlocksInv
      <4>. QED
        BY <1>14, <2>1, <4>1, HomeFacts
    <3>. QED
      BY <3>1, <3>2
  <2>2. \A b \in Indices : Home(b)'.offset # 0 => Sound(heap[Home(b).offset], Home(b), b)'
    BY <1>4, <1>10, <2>1, TableStays
  <2>3. Separate([heap |-> heap, free |-> freelists], Live)'
    BY <1>4, <1>11, <1>14 DEF Separate
  <2>. QED
    BY <1>4, <1>10, <2>2, <2>3 DEF BihashIInv, BlocksInv
<1>17. CopyInv'
  <2>1. /\ \A x, y, s : Lookup(x, y, s)' = Lookup(x, y, s)
        /\ \A y, s, b : Sound(y, s, b)' <=> Sound(y, s, b)
        /\ \A x : BucketIndex(x)' = BucketIndex(x)
    BY <1>4, TableStays
  <2>2. Sound(working_copies[writer_lock], saved_bucket, ThisBucket)'
    BY <1>2, <1>4, <1>7, <1>9, <1>13, <2>1
  <2>3. ASSUME NEW x \in DOMAIN table.hash
        PROVE  Lookup(x, heap'[h.offset], h) =
                 IF x = k THEN add_v.value ELSE Lookup(x, working_copies[writer_lock], h)
    BY <1>7, <1>14
  <2>4. buckets'[B] = [saved_bucket' EXCEPT !.offset = writer_lock']
    BY <1>1, <1>4 DEF BihashIInv, CopyInv
  <2>. QED
    BY <1>2, <1>3, <1>4, <1>7, <1>9, <2>1, <2>2, <2>3, <2>4 DEF CopyInv
<1>18. ReaderInv'
  <2>1. ASSUME NEW r \in Readers, search[r].pc # "idle", ~disturbed'[r]
        PROVE  add_v'.key # search[r].key
    BY <1>4, <2>1 DEF BihashIInv, ReaderInv, Undisturbed
  <2>2. ASSUME NEW b \in Indices, NEW x \in DOMAIN table.hash, x # k, Home(b).offset # 0
        PROVE  Lookup(x, heap'[Home(b).offset], Home(b)) =
                 Lookup(x, heap[Home(b).offset], Home(b))
    <3>1. CASE b = B
      BY <1>6, <1>7, <1>14, <2>2, <3>1
    <3>2. CASE b # B
      <4>1. Home(b).offset # h.offset /\ Home(b).offset \in Live
        BY <1>5, <1>7, <2>2, <3>2, HomeFacts DEF BihashIInv, BlocksInv
      <4>. QED
        BY <1>14, <4>1
    <3>. QED
      BY <3>1, <3>2
  <2>. QED
    BY <1>3, <1>4, <1>10, <2>1, <2>2, ReadersKept
<1>. QED
  BY <1>15, <1>16, <1>17, <1>18 DEF BihashIInv

\* The bucket of the update gets pages h with these pairs, which no bucket has had.
MovedTo(h, pairs) ==
  /\ h \in Shapes /\ h.offset \in Nat \ {0} /\ h.offset \notin Live
  /\ buckets' = [buckets EXCEPT ![ThisBucket] = h]
  /\ \A i \in Live : heap'[i] = heap[i]
  /\ Separate([heap |-> heap', free |-> freelists'], Live \cup {h.offset})
  /\ Sound(heap'[h.offset], h, ThisBucket)
  /\ SamePairs(heap'[h.offset], pairs)

\* A bucket gets pages that no bucket has had: the first ones, or others while the
\* old ones wait to be freed.
LEMMA NewPages ==
  ASSUME BihashIInv, table' = table, w_pc # "grown",
         NEW B \in Indices, NEW id \in Nat \ {0}, id \notin Live,
         \A b \in Indices : b # B => Home(b)' = Home(b),
         Home(B)'.offset = id, Sound(heap'[id], Home(B)', B),
         \A i \in Live : heap'[i] = heap[i],
         Separate([heap |-> heap', free |-> freelists'], Live \cup {id}),
         \/ Home(B).offset = 0 /\ w_pc' # "grown"
         \/ Home(B).offset # 0 /\ w_pc' = "grown" /\ saved_bucket'.offset = Home(B).offset
  PROVE  BlocksInv'
<1>1. \A b \in Indices : Home(b).offset # 0 => Home(b).offset \in Live
  BY HomeFacts
<1>2. \A b, c \in Indices : Home(b).offset # 0 /\ Home(b).offset = Home(c).offset => b = c
  BY DEF BihashIInv, BlocksInv
<1>3. Live = {Home(b).offset : b \in Indices} \ {0}
  BY DEF Live
<1>4. Live' = Live \cup {id}
  <2>1. \A x : x \in Live' => x \in Live \cup {id}
    <3>1. \A b \in Indices : Home(b)'.offset \in {0, id} \cup Live
      BY <1>1
    <3>2. w_pc' = "grown" => saved_bucket'.offset \in Live
      BY <1>1
    <3>. QED
      BY <3>1, <3>2 DEF Live
  <2>2. id \in Live'
    BY DEF Live
  <2>3. ASSUME NEW x \in Live
        PROVE  x \in Live'
    <3>1. PICK b \in Indices : x = Home(b).offset /\ x # 0
      BY <1>3
    <3>2. CASE b = B
      BY <3>1, <3>2 DEF Live
    <3>3. CASE b # B
      BY <3>1, <3>3 DEF Live
    <3>. QED
      BY <3>2, <3>3
  <2>. QED
    BY <2>1, <2>2, <2>3
<1>5. Separate([heap |-> heap, free |-> freelists], Live)'
  BY <1>4 DEF Separate
<1>6. \A b \in Indices : Home(b)'.offset \in Nat
  BY HomeFacts
<1>7. ASSUME NEW b \in Indices, Home(b)'.offset # 0
      PROVE  Sound(heap[Home(b).offset], Home(b), b)'
  <2>1. \A y, s, c : Sound(y, s, c)' <=> Sound(y, s, c)
    BY TableStays
  <2>2. CASE b = B
    BY <2>1, <2>2
  <2>3. CASE b # B
    <3>1. PICK h : h = Home(b)
      OBVIOUS
    <3>2. Home(b)' = h /\ h.offset # 0
      BY <1>7, <2>3, <3>1
    <3>3. Sound(heap[h.offset], h, b) /\ h.offset \in Live
      BY <3>1, <3>2, HomeFacts
    <3>4. Sound(heap'[h.offset], h, b)
      BY <3>3
    <3>. QED
      BY <2>1, <3>2, <3>4
  <2>. QED
    BY <2>2, <2>3
<1>8. ASSUME NEW b \in Indices, NEW c \in Indices, Home(b)'.offset # 0,
             Home(b)'.offset = Home(c)'.offset
      PROVE  b = c
  <2>1. CASE b = B \/ c = B
    BY <1>1, <1>8, <2>1
  <2>2. CASE b # B /\ c # B
    BY <1>2, <1>8, <2>2
  <2>. QED
    BY <2>1, <2>2
<1>9. ASSUME w_pc' = "grown"
      PROVE  /\ saved_bucket'.offset \in Nat \ {0}
             /\ \A b \in Indices : Home(b)'.offset # saved_bucket'.offset
  <2>1. saved_bucket'.offset = Home(B).offset /\ Home(B).offset \in Live
    BY <1>1, <1>9
  <2>2. Home(B).offset \in Nat \ {0}
    BY <1>9, HomeFacts
  <2>3. ASSUME NEW b \in Indices
        PROVE  Home(b)'.offset # Home(B).offset
    <3>1. CASE b = B
      BY <2>1, <3>1
    <3>2. CASE b # B
      BY <1>2, <2>2, <3>2
    <3>. QED
      BY <3>1, <3>2
  <2>. QED
    BY <2>1, <2>2, <2>3
<1>. QED
  BY <1>5, <1>6, <1>7, <1>8, <1>9 DEF BlocksInv

\* The pages of a bucket that has had none.
LEMMA FirstPages ==
  ASSUME BihashIInv, First, add_v.value # NoValue
  PROVE  \E h : MovedTo(h, <<add_v>>)
<1>1. PICK B, k : B = ThisBucket /\ k = add_v.key
  OBVIOUS
<1>2. B \in Indices /\ table \in Tables /\ k \in DOMAIN table.hash /\ BucketIndex(k) = B
  BY <1>1, WriterFacts DEF First, BihashIInv, BihashTypeOK, ThisBucket
<1>3. PICK m : m = [heap |-> heap, free |-> freelists]
  OBVIOUS
<1>4. m.heap = heap /\ Separate(m, Live)
  BY <1>3 DEF BihashIInv, BlocksInv
<1>5. PICK a : a = Alloc(m, 0)
  OBVIOUS
<1>6. PICK h : h = [NoBucket EXCEPT !.offset = a.id]
  OBVIOUS
<1>7. /\ heap' = [a.heap EXCEPT ![a.id][1] = add_v]
      /\ freelists' = a.free
      /\ buckets' = [buckets EXCEPT ![B] = h]
  BY <1>1, <1>3, <1>5, <1>6 DEF First
<1>8. 0 \in 0..MaxLog2 /\ 0 \in Nat
  BY PagesAssumption
<1>9. /\ a.id \in 1..Len(a.heap) /\ a.id \notin Live
      /\ Separate(a, Live \cup {a.id})
      /\ a.heap[a.id] = Blank(0)
      /\ \A i \in Live : a.heap[i] = m.heap[i]
  <2>1. Fresh(m, Live, 0, a)
    BY <1>4, <1>5, <1>8, AllocSeparate
  <2>. QED
    BY <2>1 DEF Fresh
<1>10. a.heap \in Seq(Seq(Cell)) /\ Len(a.heap) \in Nat
  BY <1>9, LenProperties DEF Separate
<1>11. a.id \in Nat \ {0}
  BY <1>9, <1>10
<1>12. h \in Shapes /\ h.offset = a.id /\ h.log2_pages = 0 /\ h.linear_search = FALSE
  BY <1>6, <1>11, AtOffset
<1>13. PICK new : new = [Blank(0) EXCEPT ![1] = add_v]
  OBVIOUS
<1>14. add_v \in Cell
  BY DEF BihashIInv, BihashTypeOK, Cell
<1>15. Sound(new, h, B) /\ new \in Seq(Cell) /\ SamePairs(new, <<add_v>>)
  <2>1. Size(0) \in Nat \ {0} /\ Size(0) = KvpPerPage
    BY <1>8, SizeGrows
  <2>2. PICK old : old = Blank(0)
    OBVIOUS
  <2>3. /\ Sound(old, h, B) /\ \A i \in 1..Size(0) : old[i].key = NoKey
        /\ old \in [1..Size(0) -> Cell]
    BY <1>8, <1>12, <2>2, BlankSound, BlankType
  <2>4. 1 \in 1..Size(0)
    BY <2>1
  <2>5. /\ new \in [1..Size(0) -> Cell] /\ new[1] = add_v
        /\ \A j \in 1..Size(0) : j # 1 => new[j] = old[j]
    BY <1>13, <1>14, <2>2, <2>3, <2>4
  <2>6. 1 \in Places(k, h)
    <3>1. PICK p \in 0..(2 ^ 0 - 1) : p = PageIndex(k, 0)
      BY <1>2, <1>8, KeyIndices
    <3>2. p = 0
      BY Powers
    <3>3. p * KvpPerPage = 0 /\ 1 \in (0 + 1)..(0 + KvpPerPage)
      BY <3>2, PagesAssumption
    <3>. QED
      BY <1>12, <3>1, <3>3 DEF Places
  <2>7. k # NoKey
    BY <1>2, TablesAssumption, NamesAssumption
  <2>8. Sound(new, h, B)
    <3>1. PICK N : N = Size(h.log2_pages) /\ N = Size(0)
      BY <1>12
    <3>2. /\ 1 \in 1..Size(h.log2_pages) /\ old[1].key \in {k, NoKey}
          /\ \A j \in 1..Size(h.log2_pages) : old[j].key = k => j = 1
          /\ new \in [1..Size(h.log2_pages) -> Cell]
          /\ \A j \in 1..Size(h.log2_pages) : j # 1 => new[j] = old[j]
      BY <2>3, <2>4, <2>5, <2>7, <3>1
    <3>3. h \in Shapes /\ Sound(old, h, B) /\ new[1] = add_v /\ add_v.key = k
      BY <1>1, <1>12, <2>3, <2>5
    <3>. QED
      BY <1>2, <1>14, <2>6, <3>2, <3>3, WriteSound
  <2>9. SamePairs(new, <<add_v>>)
    <3>1. \A j \in InUse(<<add_v>>) : j = 1
      BY DEF InUse
    <3>2. 1 \in InUse(<<add_v>>) /\ <<add_v>>[1] = add_v
      BY <1>1, <2>7 DEF InUse
    <3>3. DOMAIN new = 1..Size(0)
      BY <2>5
    <3>4. \A i \in InUse(new) : i = 1
      BY <2>3, <2>5, <3>3 DEF InUse
    <3>. QED
      BY <2>4, <2>5, <3>1, <3>2, <3>3, <3>4 DEF SamePairs
  <2>. QED
    BY <2>1, <2>5, <2>8, <2>9, FunctionSeq
<1>16. heap' = [a.heap EXCEPT ![a.id] = new]
  BY <1>7, <1>9, <1>13
<1>17. /\ heap' \in Seq(Seq(Cell)) /\ Len(heap') = Len(a.heap)
       /\ \A i \in 1..Len(a.heap) : i # a.id => heap'[i] = a.heap[i]
       /\ heap'[a.id] = new
  BY <1>9, <1>10, <1>15, <1>16, WriteSeq
<1>18. PICK w : w = [heap |-> heap', free |-> freelists']
  OBVIOUS
<1>19. Separate(w, Live \cup {a.id})
  <2>1. w.heap = heap' /\ w.free = a.free
    BY <1>7, <1>18
  <2>. QED
    BY <1>9, <1>17, <2>1, SeparateWrite
<1>20. \A i \in Live : heap'[i] = heap[i]
  <2>1. Live \subseteq 1..Len(a.heap)
    BY <1>9 DEF Separate
  <2>. QED
    BY <1>4, <1>9, <1>17, <2>1
<1>21. MovedTo(h, <<add_v>>)
  BY <1>1, <1>7, <1>9, <1>11, <1>12, <1>15, <1>17, <1>18, <1>19, <1>20 DEF MovedTo
<1>. QED
  BY <1>21

\* The first pair of a bucket, or nothing to delete.
LEMMA FirstIInv ==
  ASSUME BihashIInv, First
  PROVE  BihashIInv'
<1>1. PICK B : B = ThisBucket
  OBVIOUS
<1>2. /\ w_pc = "locked" /\ w_pc' = "idle" /\ buckets[B].offset = 0
      /\ table' = table /\ working_copies' = working_copies
      /\ writer_lock' = None /\ add_v' = FreePair /\ saved_bucket' = NoBucket
      /\ search' = search /\ overlap' = overlap /\ disturbed' = disturbed
  BY <1>1 DEF First, Unlock, readers
<1>4. B \in Indices /\ table \in Tables /\ buckets \in [Indices -> Shapes]
  BY <1>1, <1>2, WriterFacts DEF BihashIInv, BihashTypeOK
<1>5. Home(B).offset = 0
  BY <1>2 DEF Home
<1>6. WriterInv' /\ CopyInv'
  BY <1>2 DEF WriterInv, CopyInv, FreePair
<1>7. buckets' \in [Indices -> Shapes] => BihashTypeOK'
  <2>1. NoBucket \in Shapes
    BY PagesAssumption DEF NoBucket, Shapes
  <2>2. FreePair \in [key : Keys \cup {NoKey}, value : Values \cup {NoValue}]
    BY DEF FreePair, Pair
  <2>. QED
    BY <1>2, <2>1, <2>2 DEF BihashIInv, BihashTypeOK
<1>8. ASSUME \A b \in Indices : b # B => Home(b)' = Home(b),
             \A i \in Live : heap'[i] = heap[i]
      PROVE  ReaderInv'
  <2>1. \A x \in DOMAIN table.hash : x # add_v'.key
    BY <1>2, TablesAssumption, NamesAssumption
    DEF BihashIInv, BihashTypeOK, FreePair, Pair
  <2>2. ASSUME NEW b \in Indices, Home(b).offset # 0
        PROVE  Home(b)' = Home(b) /\ heap'[Home(b).offset] = heap[Home(b).offset]
    BY <1>5, <1>8, <2>2, HomeFacts
  <2>. QED
    BY <1>2, <2>1, <2>2, ReadersKept
<1>9. CASE add_v.value = NoValue
  <2>1. heap' = heap /\ freelists' = freelists /\ buckets' = buckets
    BY <1>9 DEF First, memory
  <2>2. \A b \in Indices : Home(b)' = Home(b)
    BY <1>2, <2>1 DEF Home
  <2>3. BlocksInv'
    BY <1>2, <2>1, <2>2, BlocksSame
  <2>. QED
    BY <1>4, <1>6, <1>7, <1>8, <2>1, <2>2, <2>3 DEF BihashIInv
<1>10. CASE add_v.value # NoValue
  <2>1. PICK h : MovedTo(h, <<add_v>>)
    BY <1>10, FirstPages
  <2>2. /\ h \in Shapes /\ h.offset \in Nat \ {0} /\ h.offset \notin Live
        /\ buckets' = [buckets EXCEPT ![B] = h]
        /\ \A i \in Live : heap'[i] = heap[i]
        /\ Separate([heap |-> heap', free |-> freelists'], Live \cup {h.offset})
        /\ Sound(heap'[h.offset], h, B)
    BY <1>1, <2>1 DEF MovedTo
  <2>3. /\ buckets' \in [Indices -> Shapes] /\ buckets'[B] = h
        /\ \A b \in Indices : b # B => buckets'[b] = buckets[b]
    BY <1>4, <2>2
  <2>4. Home(B)' = h /\ \A b \in Indices : b # B => Home(b)' = Home(b)
    BY <1>2, <2>3 DEF Home
  <2>5. BlocksInv'
    BY <1>2, <1>4, <1>5, <2>2, <2>4, NewPages
  <2>. QED
    BY <1>6, <1>7, <1>8, <2>2, <2>3, <2>4, <2>5 DEF BihashIInv
<1>. QED
  BY <1>9, <1>10

\* Freeing the pages a bucket has grown out of.
LEMMA FreeOldIInv ==
  ASSUME BihashIInv, FreeOld
  PROVE  BihashIInv'
<1>1. PICK m : m = [heap |-> heap, free |-> freelists]
  OBVIOUS
<1>2. PICK id, n : id = saved_bucket.offset /\ n = saved_bucket.log2_pages
  OBVIOUS
<1>3. PICK a : a = Release(m, id, n)
  OBVIOUS
<1>4. /\ w_pc = "grown" /\ w_pc' = "idle"
      /\ heap' = a.heap /\ freelists' = a.free
      /\ table' = table /\ buckets' = buckets /\ working_copies' = working_copies
      /\ writer_lock' = None /\ add_v' = FreePair /\ saved_bucket' = NoBucket
      /\ search' = search /\ overlap' = overlap /\ disturbed' = disturbed
  BY <1>1, <1>2, <1>3 DEF FreeOld, Unlock, readers
<1>5. m.heap = heap /\ Separate(m, Live)
  BY <1>1 DEF BihashIInv, BlocksInv
<1>6. id \in Live /\ n \in 0..MaxLog2
  BY <1>2, <1>4 DEF Live, BihashIInv, BihashTypeOK, BlocksInv, Shapes
<1>7. Freed(m, Live, id, a)
  BY <1>3, <1>5, <1>6, ReleaseSeparate
<1>8. \A i \in Live \ {id} : heap'[i] = heap[i]
  BY <1>4, <1>5, <1>7 DEF Freed
<1>9. \A b \in Indices : Home(b)' = Home(b)
  BY <1>4 DEF Home
<1>10. \A b \in Indices : Home(b).offset # id
  BY <1>2, <1>4 DEF BihashIInv, BlocksInv
<1>11. Live' = Live \ {id}
  BY <1>2, <1>4, <1>9, <1>10 DEF Live
<1>12. BihashTypeOK'
  <2>1. NoBucket \in Shapes
    BY PagesAssumption DEF NoBucket, Shapes
  <2>2. FreePair \in [key : Keys \cup {NoKey}, value : Values \cup {NoValue}]
    BY DEF FreePair, Pair
  <2>. QED
    BY <1>4, <2>1, <2>2 DEF BihashIInv, BihashTypeOK
<1>13. WriterInv' /\ CopyInv'
  BY <1>4 DEF WriterInv, CopyInv, FreePair
<1>14. BlocksInv'
  <2>1. PICK w : w = [heap |-> heap', free |-> freelists']
    OBVIOUS
  <2>2. w.heap = a.heap /\ w.free = a.free
    BY <1>4, <2>1
  <2>3. Separate(w, Live \ {id})
    <3>1. Separate(a, Live \ {id})
      BY <1>7 DEF Freed
    <3>2. a.heap \in Seq(Seq(Cell))
      BY <3>1 DEF Separate
    <3>. QED
      BY <2>2, <3>1, <3>2, SeparateWrite
  <2>4. Separate([heap |-> heap, free |-> freelists], Live)'
    BY <1>11, <2>1, <2>3 DEF Separate
  <2>5. ASSUME NEW b \in Indices, Home(b).offset # 0
        PROVE  Sound(heap'[Home(b).offset], Home(b), b)
    <3>1. Home(b).offset \in Live \ {id} /\ Sound(heap[Home(b).offset], Home(b), b)
      BY <1>10, <2>5, HomeFacts
    <3>2. heap'[Home(b).offset] = heap[Home(b).offset]
      BY <1>8, <3>1
    <3>. QED
      BY <3>1, <3>2
  <2>6. \A b \in Indices : Home(b)'.offset # 0 => Sound(heap[Home(b).offset], Home(b), b)'
    BY <1>4, <1>9, <2>5, TableStays
  <2>. QED
    BY <1>4, <1>9, <2>4, <2>6 DEF BihashIInv, BlocksInv
<1>15. ReaderInv'
  <2>1. \A x \in DOMAIN table.hash : x # add_v'.key
    BY <1>4, TablesAssumption, NamesAssumption
    DEF BihashIInv, BihashTypeOK, FreePair, Pair
  <2>2. ASSUME NEW b \in Indices, Home(b).offset # 0
        PROVE  Home(b)' = Home(b) /\ heap'[Home(b).offset] = heap[Home(b).offset]
    BY <1>8, <1>9, <1>10, <2>2, HomeFacts
  <2>. QED
    BY <1>4, <2>1, <2>2, ReadersKept
<1>. QED
  BY <1>12, <1>13, <1>14, <1>15 DEF BihashIInv

-----------------------------------------------------------------------------
(***************************************************************************)
(* A bucket grows                                                          *)
(***************************************************************************)

\* Memory t is m as far as the blocks in use are concerned.
Tried(m, live, t) ==
  /\ Separate(t, live)
  /\ \A i \in live : t.heap[i] = m.heap[i]

\* A block that did not do is given back.
LEMMA TrySeparate ==
  ASSUME NEW m, NEW live, Separate(m, live), NEW n \in 0..MaxLog2
  PROVE  Tried(m, live, Release(Alloc(m, n), Alloc(m, n).id, n))
<1>1. PICK a : a = Alloc(m, n)
  OBVIOUS
<1>2. PICK t : t = Release(a, a.id, n)
  OBVIOUS
<1>3. Fresh(m, live, n, a)
  BY <1>1, AllocSeparate
<1>4. PICK L : L = live \cup {a.id}
  OBVIOUS
<1>5. Separate(a, L) /\ a.id \in L /\ a.id \notin live /\ \A i \in live : a.heap[i] = m.heap[i]
  BY <1>3, <1>4 DEF Fresh
<1>6. Freed(a, L, a.id, t)
  BY <1>2, <1>5, ReleaseSeparate
<1>7. L \ {a.id} = live
  BY <1>4, <1>5
<1>8. Separate(t, live) /\ \A i \in live : t.heap[i] = a.heap[i]
  BY <1>6, <1>7 DEF Freed
<1>9. \A i \in live : t.heap[i] = m.heap[i]
  BY <1>5, <1>8
<1>10. Tried(m, live, t)
  BY <1>8, <1>9 DEF Tried
<1>. QED
  BY <1>1, <1>2, <1>10

\* The pairs of a bucket without room, and the one that is to be added.
LEMMA GrowPairs ==
  ASSUME BihashIInv, w_pc = "copied", Targets = {},
         NEW pairs, pairs = Append(working_copies[writer_lock], add_v)
  PROVE  /\ Keyed(pairs, ThisBucket)
         /\ Len(pairs) = Size(saved_bucket.log2_pages) + 1
         /\ pairs[Len(pairs)] = add_v
         /\ \A i \in 1..Size(saved_bucket.log2_pages) :
              pairs[i] = working_copies[writer_lock][i] /\ pairs[i].key # add_v.key
<1>1. PICK B, h, k, wc : /\ B = ThisBucket /\ h = saved_bucket /\ k = add_v.key
                         /\ wc = working_copies[writer_lock]
  OBVIOUS
<1>2. wc = heap[h.offset]
  BY <1>1 DEF BihashIInv, CopyInv
<1>3. Sound(wc, h, B) /\ \A j \in 1..Size(h.log2_pages) : wc[j].key # k
  BY <1>1, <1>2, TargetFacts
<1>4. PICK N \in Nat : N = Size(h.log2_pages)
  <2>1. h.log2_pages \in Nat
    BY <1>1, PagesAssumption DEF BihashIInv, BihashTypeOK, Shapes
  <2>. QED
    BY <2>1, SizeGrows
<1>5. wc \in [1..N -> Cell]
  BY <1>3, <1>4 DEF Sound
<1>6. wc \in Seq(Cell) /\ Len(wc) = N
  BY <1>5, FunctionSeq
<1>7. add_v \in Cell
  BY DEF BihashIInv, BihashTypeOK, Cell
<1>8. /\ pairs \in Seq(Cell) /\ Len(pairs) = N + 1
      /\ \A i \in 1..N : pairs[i] = wc[i]
      /\ pairs[N + 1] = add_v
  BY <1>1, <1>6, <1>7, AppendProperties
<1>9. DOMAIN pairs = 1..(N + 1)
  BY <1>4, <1>8, LenProperties
<1>10. k \in DOMAIN table.hash /\ BucketIndex(k) = B
  BY <1>1, WriterFacts DEF ThisBucket
<1>11. \A i \in DOMAIN pairs : i \in 1..N \/ i = N + 1
  BY <1>4, <1>9
<1>12. ASSUME NEW i \in InUse(pairs)
       PROVE  pairs[i].key \in DOMAIN table.hash /\ BucketIndex(pairs[i].key) = B
  <2>1. i \in DOMAIN pairs /\ pairs[i].key # NoKey
    BY DEF InUse
  <2>2. CASE i \in 1..N
    BY <1>3, <1>4, <1>8, <2>1, <2>2 DEF Sound
  <2>3. CASE i = N + 1
    BY <1>1, <1>8, <1>10, <2>3
  <2>. QED
    BY <1>11, <2>1, <2>2, <2>3
<1>13. ASSUME NEW i \in InUse(pairs), NEW j \in InUse(pairs), pairs[i].key = pairs[j].key
       PROVE  i = j
  <2>1. i \in DOMAIN pairs /\ pairs[i].key # NoKey /\ j \in DOMAIN pairs
    BY DEF InUse
  <2>2. CASE i \in 1..N /\ j \in 1..N
    BY <1>3, <1>4, <1>8, <1>13, <2>1, <2>2 DEF Sound
  <2>3. CASE i = N + 1 /\ j \in 1..N
    BY <1>1, <1>3, <1>4, <1>8, <1>13, <2>3
  <2>4. CASE j = N + 1 /\ i \in 1..N
    BY <1>1, <1>3, <1>4, <1>8, <1>13, <2>4
  <2>. QED
    BY <1>11, <2>1, <2>2, <2>3, <2>4
<1>14. Keyed(pairs, B)
  BY <1>8, <1>12, <1>13 DEF Keyed
<1>. QED
  BY <1>1, <1>3, <1>4, <1>8, <1>14

\* How many pages were chosen, in which order, and after what tries.
Chosen(t, n, linear, pairs) ==
  /\ Tried([heap |-> heap, free |-> freelists], Live, t)
  /\ n \in 0..MaxLog2 /\ linear \in BOOLEAN
  /\ IF linear THEN n = saved_bucket.log2_pages + 1 ELSE Fits(pairs, n)
  /\ heap' = [Alloc(t, n).heap EXCEPT ![Alloc(t, n).id] =
                IF linear THEN split_and_rehash_linear(pairs, n)
                ELSE split_and_rehash(pairs, n)]
  /\ freelists' = Alloc(t, n).free
  /\ buckets' = [buckets EXCEPT ![ThisBucket] =
                   [offset |-> Alloc(t, n).id, log2_pages |-> n, linear_search |-> linear]]

\* Twice the pages, four times as many, or twice as many searched linearly.
LEMMA GrowChooses ==
  ASSUME BihashIInv, Grow, NEW pairs, pairs = Append(working_copies[writer_lock], add_v)
  PROVE  \E t, n, linear : Chosen(t, n, linear, pairs)
<1>1. PICK twice : twice = saved_bucket.log2_pages + 1
  OBVIOUS
<1>2. twice \in 0..MaxLog2 /\ twice + 1 \in 0..MaxLog2
  <2>1. saved_bucket.log2_pages \in 0..MaxLog2
    BY DEF BihashIInv, BihashTypeOK, Shapes
  <2>2. twice < MaxLog2
    BY <1>1 DEF Grow
  <2>. QED
    BY <1>1, <2>1, <2>2, PagesAssumption
<1>3. PICK now : now = [heap |-> heap, free |-> freelists]
  OBVIOUS
<1>4. Separate(now, Live)
  BY <1>3 DEF BihashIInv, BlocksInv
<1>5. PICK t1 : t1 = Release(Alloc(now, twice), Alloc(now, twice).id, twice)
  OBVIOUS
<1>6. PICK t2 : t2 = Release(Alloc(t1, twice + 1), Alloc(t1, twice + 1).id, twice + 1)
  OBVIOUS
<1>7. Tried(now, Live, now)
  BY <1>4 DEF Tried
<1>8. Tried(now, Live, t1)
  BY <1>2, <1>4, <1>5, TrySeparate
<1>9. Tried(now, Live, t2)
  <2>1. Tried(t1, Live, t2)
    BY <1>2, <1>6, <1>8, TrySeparate DEF Tried
  <2>. QED
    BY <1>8, <2>1 DEF Tried
<1>10. CASE Fits(pairs, twice)
  <2>1. Chosen(now, twice, FALSE, pairs)
    BY <1>1, <1>2, <1>3, <1>7, <1>10 DEF Grow, Chosen
  <2>. QED
    BY <2>1
<1>11. CASE ~Fits(pairs, twice) /\ Fits(pairs, twice + 1)
  <2>1. Chosen(t1, twice + 1, FALSE, pairs)
    BY <1>1, <1>2, <1>3, <1>5, <1>8, <1>11 DEF Grow, Chosen
  <2>. QED
    BY <2>1
<1>12. CASE ~Fits(pairs, twice) /\ ~Fits(pairs, twice + 1)
  <2>1. Chosen(t2, twice, TRUE, pairs)
    BY <1>1, <1>2, <1>3, <1>5, <1>6, <1>9, <1>12 DEF Grow, Chosen
  <2>. QED
    BY <2>1
<1>. QED
  BY <1>10, <1>11, <1>12

\* The new pages are sound, nobody else has them, and all the pairs are there.
LEMMA GrowFacts ==
  ASSUME BihashIInv, Grow, NEW pairs, pairs = Append(working_copies[writer_lock], add_v)
  PROVE  \E h : MovedTo(h, pairs)
<1>1. PICK t, n, linear : Chosen(t, n, linear, pairs)
  BY GrowChooses
<1>2. PICK a : a = Alloc(t, n)
  OBVIOUS
<1>3. PICK new : new = IF linear THEN split_and_rehash_linear(pairs, n)
                       ELSE split_and_rehash(pairs, n)
  OBVIOUS
<1>4. PICK h : h = [offset |-> a.id, log2_pages |-> n, linear_search |-> linear]
  OBVIOUS
<1>5. PICK now : now = [heap |-> heap, free |-> freelists]
  OBVIOUS
<1>6. /\ Tried(now, Live, t) /\ n \in 0..MaxLog2 /\ linear \in BOOLEAN
      /\ heap' = [a.heap EXCEPT ![a.id] = new] /\ freelists' = a.free
      /\ buckets' = [buckets EXCEPT ![ThisBucket] = h]
  BY <1>1, <1>2, <1>3, <1>4, <1>5 DEF Chosen
<1>7. IF linear THEN n = saved_bucket.log2_pages + 1 ELSE Fits(pairs, n)
  BY <1>1 DEF Chosen
<1>8. Separate(t, Live) /\ \A i \in Live : t.heap[i] = heap[i]
  BY <1>5, <1>6 DEF Tried
<1>9. Fresh(t, Live, n, a)
  BY <1>2, <1>6, <1>8, AllocSeparate
<1>10. /\ a.id \in 1..Len(a.heap) /\ a.id \notin Live
       /\ Separate(a, Live \cup {a.id})
       /\ \A i \in Live : a.heap[i] = heap[i]
  BY <1>8, <1>9 DEF Fresh
<1>11. a.heap \in Seq(Seq(Cell)) /\ Len(a.heap) \in Nat
  BY <1>10, LenProperties DEF Separate
<1>12. a.id \in Nat \ {0}
  BY <1>10, <1>11
<1>13. /\ h \in Shapes /\ h.offset = a.id /\ h.log2_pages = n /\ h.linear_search = linear
       /\ n \in Nat
  BY <1>4, <1>6, <1>12, PagesAssumption DEF Shapes
<1>14. /\ w_pc = "copied" /\ Targets = {} /\ table \in Tables
       /\ saved_bucket.log2_pages \in Nat
  <2>1. table \in Tables /\ saved_bucket \in Shapes
    BY DEF BihashIInv, BihashTypeOK
  <2>2. saved_bucket.log2_pages \in Nat
    BY <2>1, PagesAssumption DEF Shapes
  <2>. QED
    BY <2>1, <2>2, Zenon DEF Grow
<1>15. Keyed(pairs, ThisBucket) /\ Len(pairs) = Size(saved_bucket.log2_pages) + 1
  BY <1>14, GrowPairs
<1>16. Sound(new, h, ThisBucket) /\ SamePairs(new, pairs)
  <2>1. CASE linear
    <3>1. PICK l \in Nat : l = saved_bucket.log2_pages
      BY <1>14
    <3>2. Size(l) \in Nat /\ Size(l + 1) \in Nat /\ Size(l) < Size(l + 1)
      BY SizeGrows
    <3>3. Len(pairs) <= Size(n)
      BY <1>7, <1>15, <2>1, <3>1, <3>2
    <3>. QED
      BY <1>3, <1>13, <1>14, <1>15, <2>1, <3>3, LinearSound
  <2>2. CASE ~linear
    BY <1>3, <1>7, <1>13, <1>14, <1>15, <2>2, SplitSound
  <2>. QED
    BY <2>1, <2>2
<1>17. new \in Seq(Cell)
  <2>1. Size(n) \in Nat
    BY <1>13, SizeGrows
  <2>2. new \in [1..Size(n) -> Cell]
    BY <1>13, <1>16 DEF Sound
  <2>. QED
    BY <2>1, <2>2, FunctionSeq
<1>18. /\ heap' \in Seq(Seq(Cell)) /\ Len(heap') = Len(a.heap)
       /\ \A i \in 1..Len(a.heap) : i # a.id => heap'[i] = a.heap[i]
       /\ heap'[a.id] = new
  BY <1>6, <1>10, <1>11, <1>17, WriteSeq
<1>19. \A i \in Live : heap'[i] = heap[i]
  <2>1. Live \subseteq 1..Len(a.heap)
    BY <1>10 DEF Separate
  <2>. QED
    BY <1>10, <1>18, <2>1
<1>20. Separate([heap |-> heap', free |-> freelists'], Live \cup {a.id})
  <2>1. PICK w : w = [heap |-> heap', free |-> freelists']
    OBVIOUS
  <2>2. w.heap = heap' /\ w.free = a.free
    BY <1>6, <2>1
  <2>3. Separate(w, Live \cup {a.id})
    BY <1>10, <1>18, <2>2, SeparateWrite
  <2>. QED
    BY <2>1, <2>3
<1>21. MovedTo(h, pairs)
  BY <1>6, <1>10, <1>12, <1>13, <1>16, <1>18, <1>19, <1>20 DEF MovedTo
<1>. QED
  BY <1>21

\* A bucket grows.
LEMMA GrowIInv ==
  ASSUME BihashIInv, Grow
  PROVE  BihashIInv'
<1>1. PICK pairs : pairs = Append(working_copies[writer_lock], add_v)
  OBVIOUS
<1>2. PICK h : MovedTo(h, pairs)
  BY <1>1, GrowFacts
<1>3. PICK B : B = ThisBucket
  OBVIOUS
<1>4. /\ w_pc = "copied" /\ w_pc' = "grown"
      /\ table' = table /\ working_copies' = working_copies
      /\ saved_bucket' = saved_bucket /\ writer_lock' = writer_lock /\ add_v' = add_v
      /\ search' = search /\ overlap' = overlap
      /\ disturbed' = [r \in Readers |-> disturbed[r] \/ (search[r].pc # "idle" /\
                                         BucketIndex(search[r].key) = B)]
  BY <1>3 DEF Grow
<1>5. B \in Indices /\ buckets \in [Indices -> Shapes]
  BY <1>3, <1>4, WriterFacts DEF BihashIInv, BihashTypeOK
<1>6. /\ h \in Shapes /\ h.offset \in Nat \ {0} /\ h.offset \notin Live
      /\ buckets' = [buckets EXCEPT ![B] = h]
      /\ \A i \in Live : heap'[i] = heap[i]
      /\ Separate([heap |-> heap', free |-> freelists'], Live \cup {h.offset})
      /\ Sound(heap'[h.offset], h, B)
  BY <1>2, <1>3 DEF MovedTo
<1>7. /\ buckets' \in [Indices -> Shapes] /\ buckets'[B] = h
      /\ \A b \in Indices : b # B => buckets'[b] = buckets[b]
  BY <1>5, <1>6
<1>8. disturbed' \in [Readers -> BOOLEAN]
  BY <1>4
<1>9. BihashTypeOK'
  BY <1>4, <1>7, <1>8 DEF BihashIInv, BihashTypeOK
<1>10. WriterInv' /\ CopyInv'
  BY <1>4 DEF BihashIInv, WriterInv, CopyInv
<1>11. Home(B) = saved_bucket /\ saved_bucket.offset # 0
  BY <1>3, <1>4 DEF Home, BihashIInv, CopyInv
<1>12. Home(B)' = h /\ \A b \in Indices : b # B => Home(b)' = Home(b)
  BY <1>3, <1>4, <1>7 DEF Home
<1>13. BlocksInv'
  BY <1>4, <1>5, <1>6, <1>11, <1>12, NewPages
<1>14. ReaderInv'
  <2>1. ASSUME NEW r \in Readers, search[r].pc # "idle", ~disturbed'[r]
        PROVE  ~disturbed[r] /\ BucketIndex(search[r].key) # B
    BY <1>4, <2>1
  <2>2. ASSUME NEW r \in Readers, search[r].pc # "idle", ~disturbed[r]
        PROVE  add_v'.key # search[r].key
    BY <1>4, <2>2 DEF BihashIInv, ReaderInv, Undisturbed
  <2>3. ASSUME NEW b \in Indices, b # B, Home(b).offset # 0
        PROVE  Home(b)' = Home(b) /\ heap'[Home(b).offset] = heap[Home(b).offset]
    BY <1>6, <1>12, <2>3, HomeFacts
  <2>4. \A r \in Readers : disturbed[r] => disturbed'[r]
    BY <1>4
  <2>. QED
    BY <1>4, <2>1, <2>2, <2>3, <2>4, ReadersKept
<1>. QED
  BY <1>9, <1>10, <1>13, <1>14 DEF BihashIInv

\* Every step keeps the invariant.
LEMMA BihashNextIInv ==
  ASSUME BihashIInv, [BihashNext]_bihash_vars
  PROVE  BihashIInv'
<1>1. CASE UNCHANGED bihash_vars
  <2>1. /\ table' = table /\ buckets' = buckets /\ heap' = heap /\ freelists' = freelists
        /\ working_copies' = working_copies /\ saved_bucket' = saved_bucket
        /\ writer_lock' = writer_lock /\ w_pc' = w_pc /\ add_v' = add_v
        /\ search' = search /\ overlap' = overlap /\ disturbed' = disturbed
    BY <1>1 DEF bihash_vars, memory, writer, readers
  <2>2. \A b \in Indices : Home(b)' = Home(b)
    BY <2>1, TableStays DEF Home, ThisBucket
  <2>3. BihashTypeOK' /\ WriterInv'
    BY <2>1 DEF BihashIInv, BihashTypeOK, WriterInv
  <2>4. BlocksInv'
    BY <2>1, <2>2, BlocksSame
  <2>5. CopyInv'
    <3>1. /\ ThisBucket' = ThisBucket
          /\ \A x : BucketIndex(x)' = BucketIndex(x)
          /\ \A x, y, s : Lookup(x, y, s)' = Lookup(x, y, s)
          /\ \A y, s, b : Sound(y, s, b)' <=> Sound(y, s, b)
      BY <2>1, TableStays DEF ThisBucket
    <3>. QED
      BY <2>1, <3>1 DEF BihashIInv, CopyInv
  <2>6. ReaderInv'
    <3>1. ASSUME NEW r \in Readers, search[r].pc # "idle", ~disturbed[r]
          PROVE  add_v.key # search[r].key
      BY <3>1 DEF BihashIInv, ReaderInv, Undisturbed
    <3>. QED
      BY <2>1, <2>2, <3>1, ReadersKept
  <2>. QED
    BY <2>3, <2>4, <2>5, <2>6 DEF BihashIInv
<1>2. ASSUME NEW w \in table.writers, NEW k \in DOMAIN table.hash,
             NEW v \in table.values \cup {NoValue}, Lock(w, k, v)
      PROVE  BihashIInv'
  BY <1>2, LockIInv
<1>3. CASE First
  BY <1>3, FirstIInv
<1>4. CASE make_working_copy
  BY <1>4, CopyIInv
<1>5. CASE Change
  BY <1>5, ChangeIInv
<1>6. CASE Restore
  BY <1>6, RestoreIInv
<1>7. CASE Grow
  BY <1>7, GrowIInv
<1>8. CASE FreeOld
  BY <1>8, FreeOldIInv
<1>9. ASSUME NEW r \in Readers, NEW k \in table.searched, SearchBegins(r, k)
      PROVE  BihashIInv'
  BY <1>9, SearchBeginsIInv
<1>10. ASSUME NEW r \in Readers, SearchShape(r)
       PROVE  BihashIInv'
  BY <1>10, SearchShapeIInv
<1>11. ASSUME NEW r \in Readers, SearchReturns(r)
       PROVE  BihashIInv'
  BY <1>11, SearchReturnsIInv
<1>. QED
  BY <1>1, <1>2, <1>3, <1>4, <1>5, <1>6, <1>7, <1>8, <1>9, <1>10, <1>11
  DEF BihashNext, Update, Search

\* The invariant of the hash table: at every moment every bucket has pages of its
\* own, apart from the free ones, with each key of the bucket at most once and where a
\* search looks for it; and a reader that clib_bihash_add_del sends to a working copy,
\* or back, finds there what is in the pages of the bucket.
THEOREM BihashInvariant == BihashSpec => []BihashIInv
<1>1. BihashInit => BihashIInv
  BY BihashInitIInv
<1>2. BihashIInv /\ [BihashNext]_bihash_vars => BihashIInv'
  BY BihashNextIInv
<1>. QED
  BY <1>1, <1>2, PTL DEF BihashSpec

\* clib_bihash_search takes no lock, and reads the offset of the bucket, its shape and
\* its pages in three steps.  Whatever updates come between, it finds what is in the
\* table, as long as no thread makes more than one update meanwhile, and the key
\* itself is left alone and its bucket does not grow.
THEOREM SearchIsExact == BihashSpec => []SearchExact
<1>1. BihashIInv => SearchExact
  BY ExactFromInvariant
<1>. QED
  BY <1>1, BihashInvariant, PTL

-----------------------------------------------------------------------------
(***************************************************************************)
(* The table is a map                                                      *)
(***************************************************************************)

\* The map the table stands for, and the update that has been asked for.
TheMap == [k \in Keys |-> IF k \in DOMAIN table.hash THEN Found(k) ELSE NoValue]
Asked == IF w_pc = "grown" THEN FreePair ELSE add_v

\* What a search finds in pages with these pairs.
LEMMA PairsLookup ==
  ASSUME table \in Tables, NEW s \in Shapes, NEW b, NEW block, Sound(block, s, b),
         NEW pairs, SamePairs(block, pairs), NEW k \in DOMAIN table.hash
  PROVE  /\ \A j \in DOMAIN pairs : pairs[j].key = k => Lookup(k, block, s) = pairs[j].value
         /\ (\A j \in DOMAIN pairs : pairs[j].key # k) => Lookup(k, block, s) = NoValue
<1>1. k # NoKey
  BY TablesAssumption, NamesAssumption
<1>2. ASSUME NEW j \in DOMAIN pairs, pairs[j].key = k
      PROVE  Lookup(k, block, s) = pairs[j].value
  <2>1. j \in InUse(pairs)
    BY <1>1, <1>2 DEF InUse
  <2>2. PICK i \in DOMAIN block : block[i] = pairs[j]
    BY <2>1 DEF SamePairs
  <2>. QED
    BY <1>2, <2>2, LookupSound
<1>3. ASSUME \A j \in DOMAIN pairs : pairs[j].key # k
      PROVE  Lookup(k, block, s) = NoValue
  <2>1. \A i \in DOMAIN block : block[i].key # k
    BY <1>1, <1>3 DEF SamePairs, InUse
  <2>. QED
    BY <2>1, LookupSound
<1>. QED
  BY <1>2, <1>3

\* A bucket whose pages are left alone.
LEMMA FoundKept ==
  ASSUME BihashIInv, BihashIInv', table' = table, NEW k \in DOMAIN table.hash,
         Home(BucketIndex(k))' = Home(BucketIndex(k)),
         Home(BucketIndex(k)).offset # 0 =>
           heap'[Home(BucketIndex(k)).offset] = heap[Home(BucketIndex(k)).offset],
         k # add_v.key \/ w_pc # "changed", k # add_v'.key \/ w_pc' # "changed"
  PROVE  Found(k)' = Found(k)
<1>1. PICK h : h = Home(BucketIndex(k))
  OBVIOUS
<1>2. Home(BucketIndex(k))' = h /\ k \in DOMAIN table'.hash
  BY <1>1
<1>3. FoundOK /\ FoundOK'
  BY FoundIs, FoundIsPrime
<1>4. Lookup(k, heap[h.offset], h)' = Lookup(k, heap'[h.offset], h)
  BY TableStays
<1>5. h.offset = 0 => Found(k) = NoValue /\ Found(k)' = NoValue
  BY <1>1, <1>2, <1>3 DEF FoundOK
<1>6. h.offset # 0 => Found(k) = Lookup(k, heap[h.offset], h)
  BY <1>1, <1>3 DEF FoundOK
<1>7. h.offset # 0 => Found(k)' = Lookup(k, heap'[h.offset], h)
  BY <1>2, <1>3, <1>4 DEF FoundOK
<1>. QED
  BY <1>1, <1>5, <1>6, <1>7

\* The update takes effect on what is found.
Effect == \A k \in DOMAIN table.hash : Found(k)' = IF k = add_v.key THEN add_v.value ELSE Found(k)

\* Nothing else is found than before.
NoEffect == \A k \in DOMAIN table.hash : Found(k)' = Found(k)

\* What is found is the map.
LEMMA MapSteps ==
  ASSUME table' = table
  PROVE  /\ NoEffect => TheMap' = TheMap
         /\ Effect /\ add_v.key \in DOMAIN table.hash =>
              TheMap' = [TheMap EXCEPT ![add_v.key] = add_v.value]
<1>1. NoEffect => TheMap' = TheMap
  BY DEF NoEffect, TheMap
<1>2. ASSUME Effect, add_v.key \in DOMAIN table.hash
      PROVE  TheMap' = [TheMap EXCEPT ![add_v.key] = add_v.value]
  BY <1>2 DEF Effect, TheMap
<1>. QED
  BY <1>1, <1>2

\* Taking the lock, and searching, change nothing in the table.
LEMMA SameFound ==
  ASSUME table' = table, buckets' = buckets, heap' = heap, working_copies' = working_copies
  PROVE  NoEffect
<1>. SUFFICES ASSUME NEW k \in DOMAIN table.hash
              PROVE  Found(k)' = Found(k)
  BY DEF NoEffect
<1>1. BucketIndex(k)' = BucketIndex(k)
  BY TableStays
<1>2. \A o : Block(o)' = Block(o)
  BY DEF Block
<1>3. \A x, y, s : Lookup(x, y, s)' = Lookup(x, y, s)
  BY TableStays
<1>. QED
  BY <1>1, <1>2, <1>3 DEF Found

\* Readers find in the working copy what they found in the pages.
LEMMA CopyNoEffect ==
  ASSUME BihashIInv, BihashIInv', make_working_copy
  PROVE  NoEffect
<1>1. PICK B : B = ThisBucket
  OBVIOUS
<1>2. /\ w_pc = "locked" /\ w_pc' = "copied" /\ saved_bucket' = buckets[B]
      /\ buckets' = [buckets EXCEPT ![B].offset = writer_lock]
      /\ table' = table /\ heap' = heap /\ add_v' = add_v
  BY <1>1 DEF make_working_copy, memory
<1>3. B \in Indices /\ buckets \in [Indices -> Shapes] /\ table \in Tables
  BY <1>1, <1>2, WriterFacts DEF BihashIInv, BihashTypeOK
<1>4. ThisBucket' = B
  BY <1>1, <1>2, TableStays DEF ThisBucket
<1>5. \A b \in Indices : Home(b)' = Home(b)
  BY <1>1, <1>2, <1>3, <1>4 DEF Home
<1>. SUFFICES ASSUME NEW k \in DOMAIN table.hash
              PROVE  Found(k)' = Found(k)
  BY DEF NoEffect
<1>6. Home(BucketIndex(k))' = Home(BucketIndex(k))
  <2>1. 0 \in Nat
    OBVIOUS
  <2>2. BucketIndex(k) \in Indices /\ BucketIndex(k)' = BucketIndex(k)
    BY <1>2, <1>3, <2>1, KeyIndices, TableStays
  <2>. QED
    BY <1>5, <2>2
<1>. QED
  BY <1>2, <1>6, FoundKept

\* Nobody finds what is changed in the pages before the readers are sent back.
LEMMA ChangeNoEffect ==
  ASSUME BihashIInv, BihashIInv', Change
  PROVE  NoEffect
<1>1. PICK B : B = ThisBucket
  OBVIOUS
<1>2. /\ w_pc = "copied" /\ w_pc' = "changed" /\ saved_bucket' = saved_bucket
      /\ buckets' = buckets /\ working_copies' = working_copies
      /\ writer_lock' = writer_lock /\ table' = table /\ add_v' = add_v
  BY DEF Change
<1>3. \A o \in Live : o # saved_bucket.offset => heap'[o] = heap[o]
  <2>1. PICK id, new : /\ id = saved_bucket.offset
                       /\ new = [heap[id] EXCEPT ![Min(Targets)] =
                                   IF add_v.value = NoValue THEN FreePair ELSE add_v]
    OBVIOUS
  <2>2. heap' = heap \/ heap' = [heap EXCEPT ![id] = new]
    BY <2>1 DEF Change
  <2>3. heap \in Seq(Seq(Cell)) /\ Live \subseteq 1..Len(heap)
    BY DEF BihashIInv, BlocksInv, Separate
  <2>4. DOMAIN heap = 1..Len(heap)
    BY <2>3, LenProperties
  <2>5. \A o \in Live : o # id => heap'[o] = heap[o]
    BY <2>2, <2>3, <2>4
  <2>. QED
    BY <2>1, <2>5
<1>4. B \in Indices /\ table \in Tables
  BY <1>1, <1>2, WriterFacts DEF BihashIInv, BihashTypeOK
<1>5. ThisBucket' = B /\ \A x : BucketIndex(x)' = BucketIndex(x)
  BY <1>1, <1>2, TableStays DEF ThisBucket
<1>6. \A b \in Indices : Home(b)' = Home(b)
  BY <1>1, <1>2, <1>5 DEF Home
<1>7. Home(B) = saved_bucket
  BY <1>1, <1>2 DEF Home
<1>. SUFFICES ASSUME NEW k \in DOMAIN table.hash
              PROVE  Found(k)' = Found(k)
  BY DEF NoEffect
<1>8. PICK b \in Indices : b = BucketIndex(k)
  <2>1. 0 \in Nat
    OBVIOUS
  <2>. QED
    BY <1>4, <2>1, KeyIndices
<1>9. CASE b = B
  <2>1. Found(k) = Lookup(k, working_copies[writer_lock], saved_bucket)
    BY <1>1, <1>2, <1>8, <1>9, FoundIs DEF FoundOK
  <2>2. Found(k)' = Lookup(k, working_copies[writer_lock], saved_bucket)'
    <3>1. FoundOK'
      BY FoundIsPrime
    <3>2. k \in DOMAIN table'.hash /\ BucketIndex(k)' = ThisBucket' /\ w_pc' = "changed"
      BY <1>2, <1>5, <1>8, <1>9
    <3>. QED
      BY <3>1, <3>2 DEF FoundOK
  <2>3. \A x, y, s : Lookup(x, y, s)' = Lookup(x, y, s)
    BY <1>2, TableStays
  <2>. QED
    BY <1>2, <2>1, <2>2, <2>3
<1>10. CASE b # B
  <2>1. k # add_v.key
    BY <1>1, <1>8, <1>10 DEF ThisBucket
  <2>2. Home(b).offset # 0 =>
          Home(b).offset # saved_bucket.offset /\ Home(b).offset \in Live
    BY <1>4, <1>7, <1>10, HomeFacts DEF BihashIInv, BlocksInv
  <2>3. Home(BucketIndex(k))' = Home(BucketIndex(k))
    BY <1>5, <1>6, <1>8
  <2>4. Home(BucketIndex(k)).offset # 0 =>
          heap'[Home(BucketIndex(k)).offset] = heap[Home(BucketIndex(k)).offset]
    BY <1>3, <1>8, <2>2
  <2>. QED
    BY <1>2, <2>1, <2>3, <2>4, FoundKept
<1>. QED
  BY <1>9, <1>10

\* When they are sent back the update takes effect.
LEMMA RestoreEffect ==
  ASSUME BihashIInv, BihashIInv', Restore
  PROVE  Effect
<1>1. PICK B : B = ThisBucket
  OBVIOUS
<1>2. /\ w_pc = "changed" /\ w_pc' = "idle"
      /\ buckets' = [buckets EXCEPT ![B] = saved_bucket]
      /\ heap' = heap /\ table' = table
  BY <1>1 DEF Restore, Unlock, memory
<1>3. /\ B \in Indices /\ table \in Tables /\ buckets \in [Indices -> Shapes]
      /\ saved_bucket.offset # 0
  BY <1>1, <1>2, WriterFacts DEF BihashIInv, BihashTypeOK, CopyInv
<1>4. /\ \A x : BucketIndex(x)' = BucketIndex(x)
      /\ \A x, y, s : Lookup(x, y, s)' = Lookup(x, y, s)
  BY <1>2, TableStays
<1>5. Home(B)' = saved_bucket /\ \A b \in Indices : Home(b)' = Home(b)
  BY <1>1, <1>2, <1>3 DEF Home
<1>. SUFFICES ASSUME NEW k \in DOMAIN table.hash
              PROVE  Found(k)' = IF k = add_v.key THEN add_v.value ELSE Found(k)
  BY DEF Effect
<1>6. PICK b \in Indices : b = BucketIndex(k)
  <2>1. 0 \in Nat
    OBVIOUS
  <2>. QED
    BY <1>3, <2>1, KeyIndices
<1>7. Home(BucketIndex(k))' = Home(b)'
  BY <1>4, <1>6
<1>8. CASE b = B
  <2>1. Found(k) = Lookup(k, working_copies[writer_lock], saved_bucket)
    BY <1>1, <1>2, <1>6, <1>8, FoundIs DEF FoundOK
  <2>2. Found(k)' = Lookup(k, heap'[saved_bucket.offset], saved_bucket)
    BY <1>2, <1>3, <1>4, <1>5, <1>7, <1>8, FoundIsPrime DEF FoundOK
  <2>3. Lookup(k, heap[saved_bucket.offset], saved_bucket) =
          IF k = add_v.key THEN add_v.value
          ELSE Lookup(k, working_copies[writer_lock], saved_bucket)
    BY <1>1, <1>2, <1>6, <1>8 DEF BihashIInv, CopyInv
  <2>. QED
    BY <1>2, <2>1, <2>2, <2>3
<1>9. CASE b # B
  <2>1. k # add_v.key
    BY <1>1, <1>6, <1>9 DEF ThisBucket
  <2>2. Home(BucketIndex(k))' = Home(BucketIndex(k))
    BY <1>5, <1>6, <1>7
  <2>3. Found(k)' = Found(k)
    BY <1>2, <2>1, <2>2, FoundKept
  <2>. QED
    BY <2>1, <2>3
<1>. QED
  BY <1>8, <1>9

\* The first pair of a bucket takes effect, or there was nothing to delete.
LEMMA FirstEffect ==
  ASSUME BihashIInv, BihashIInv', First
  PROVE  Effect
<1>1. PICK B : B = ThisBucket
  OBVIOUS
<1>2. w_pc = "locked" /\ w_pc' = "idle" /\ table' = table /\ buckets[B].offset = 0
  BY <1>1 DEF First, Unlock
<1>3. B \in Indices /\ table \in Tables /\ buckets \in [Indices -> Shapes]
  BY <1>1, <1>2, WriterFacts DEF BihashIInv, BihashTypeOK
<1>4. /\ \A x : BucketIndex(x)' = BucketIndex(x)
      /\ \A x, y, s : Lookup(x, y, s)' = Lookup(x, y, s)
  BY <1>2, TableStays
<1>5. Home(B).offset = 0
  BY <1>2 DEF Home
<1>. SUFFICES ASSUME NEW k \in DOMAIN table.hash
              PROVE  Found(k)' = IF k = add_v.key THEN add_v.value ELSE Found(k)
  BY DEF Effect
<1>6. PICK b \in Indices : b = BucketIndex(k)
  <2>1. 0 \in Nat
    OBVIOUS
  <2>. QED
    BY <1>3, <2>1, KeyIndices
<1>7. Home(BucketIndex(k))' = Home(b)'
  BY <1>4, <1>6
<1>8. b # B => k # add_v.key
  BY <1>1, <1>6 DEF ThisBucket
<1>9. b = B => Found(k) = NoValue
  BY <1>5, <1>6, FoundIs DEF FoundOK
<1>10. CASE add_v.value = NoValue
  <2>1. heap' = heap /\ buckets' = buckets
    BY <1>10 DEF First, memory
  <2>2. Home(BucketIndex(k))' = Home(BucketIndex(k))
    BY <1>2, <1>6, <1>7, <2>1 DEF Home
  <2>3. Found(k)' = Found(k)
    BY <1>2, <2>1, <2>2, FoundKept
  <2>. QED
    BY <1>8, <1>9, <1>10, <2>3
<1>11. CASE add_v.value # NoValue
  <2>1. PICK h : MovedTo(h, <<add_v>>)
    BY <1>11, FirstPages
  <2>2. /\ h \in Shapes /\ h.offset # 0
        /\ buckets' = [buckets EXCEPT ![B] = h]
        /\ \A i \in Live : heap'[i] = heap[i]
        /\ Sound(heap'[h.offset], h, B) /\ SamePairs(heap'[h.offset], <<add_v>>)
    BY <1>1, <2>1 DEF MovedTo
  <2>3. Home(B)' = h /\ \A c \in Indices : c # B => Home(c)' = Home(c)
    BY <1>2, <1>3, <2>2 DEF Home
  <2>4. CASE b = B
    <3>1. Found(k)' = Lookup(k, heap'[h.offset], h)
      BY <1>2, <1>4, <1>7, <2>2, <2>3, <2>4, FoundIsPrime DEF FoundOK
    <3>2. DOMAIN <<add_v>> = {1} /\ <<add_v>>[1] = add_v
      OBVIOUS
    <3>3. /\ add_v.key = k => Lookup(k, heap'[h.offset], h) = add_v.value
          /\ add_v.key # k => Lookup(k, heap'[h.offset], h) = NoValue
      BY <1>3, <2>2, <3>2, PairsLookup
    <3>. QED
      BY <1>9, <2>4, <3>1, <3>3
  <2>5. CASE b # B
    <3>1. Home(BucketIndex(k))' = Home(BucketIndex(k))
      BY <1>6, <1>7, <2>3, <2>5
    <3>2. Home(BucketIndex(k)).offset # 0 =>
            heap'[Home(BucketIndex(k)).offset] = heap[Home(BucketIndex(k)).offset]
      BY <1>6, <2>2, HomeFacts
    <3>3. Found(k)' = Found(k)
      BY <1>2, <3>1, <3>2, FoundKept
    <3>. QED
      BY <1>8, <2>5, <3>3
  <2>. QED
    BY <2>4, <2>5
<1>. QED
  BY <1>10, <1>11

\* The pair takes effect when readers are sent to the new pages, where the others are.
LEMMA GrowEffect ==
  ASSUME BihashIInv, BihashIInv', Grow
  PROVE  Effect
<1>1. PICK B, wc, pairs : /\ B = ThisBucket /\ wc = working_copies[writer_lock]
                          /\ pairs = Append(wc, add_v)
  OBVIOUS
<1>2. w_pc = "copied" /\ w_pc' = "grown" /\ table' = table /\ Targets = {}
  BY DEF Grow
<1>3. /\ B \in Indices /\ table \in Tables /\ buckets \in [Indices -> Shapes]
      /\ saved_bucket \in Shapes
  BY <1>1, <1>2, WriterFacts DEF BihashIInv, BihashTypeOK
<1>4. /\ \A x : BucketIndex(x)' = BucketIndex(x)
      /\ \A x, y, s : Lookup(x, y, s)' = Lookup(x, y, s)
  BY <1>2, TableStays
<1>5. PICK h : MovedTo(h, pairs)
  BY <1>1, GrowFacts
<1>6. /\ h \in Shapes /\ h.offset # 0
      /\ buckets' = [buckets EXCEPT ![B] = h]
      /\ \A i \in Live : heap'[i] = heap[i]
      /\ Sound(heap'[h.offset], h, B) /\ SamePairs(heap'[h.offset], pairs)
  BY <1>1, <1>5 DEF MovedTo
<1>7. Home(B)' = h /\ \A c \in Indices : c # B => Home(c)' = Home(c)
  BY <1>1, <1>2, <1>3, <1>6 DEF Home
<1>8. PICK N : N = Size(saved_bucket.log2_pages)
  OBVIOUS
<1>9. /\ Keyed(pairs, B) /\ Len(pairs) = N + 1 /\ pairs[Len(pairs)] = add_v
      /\ \A i \in 1..N : pairs[i] = wc[i] /\ pairs[i].key # add_v.key
  BY <1>1, <1>2, <1>8, GrowPairs
<1>10. N \in Nat /\ DOMAIN pairs = 1..(N + 1)
  <2>1. saved_bucket.log2_pages \in Nat
    BY <1>3, PagesAssumption DEF Shapes
  <2>2. N \in Nat
    BY <1>8, <2>1, SizeGrows
  <2>. QED
    BY <1>9, <2>2, LenProperties DEF Keyed
<1>11. Sound(wc, saved_bucket, B) /\ DOMAIN wc = 1..N
  BY <1>1, <1>2, <1>8 DEF BihashIInv, CopyInv, Sound
<1>. SUFFICES ASSUME NEW k \in DOMAIN table.hash
              PROVE  Found(k)' = IF k = add_v.key THEN add_v.value ELSE Found(k)
  BY DEF Effect
<1>12. PICK b \in Indices : b = BucketIndex(k)
  <2>1. 0 \in Nat
    OBVIOUS
  <2>. QED
    BY <1>3, <2>1, KeyIndices
<1>13. Home(BucketIndex(k))' = Home(b)'
  BY <1>4, <1>12
<1>14. CASE b = B
  <2>1. Found(k)' = Lookup(k, heap'[h.offset], h)
    BY <1>2, <1>4, <1>6, <1>7, <1>13, <1>14, FoundIsPrime DEF FoundOK
  <2>2. Found(k) = Lookup(k, wc, saved_bucket)
    BY <1>1, <1>2, <1>12, <1>14, FoundIs DEF FoundOK
  <2>3. PICK block : block = heap'[h.offset]
    OBVIOUS
  <2>4. Sound(block, h, B) /\ SamePairs(block, pairs)
    BY <1>6, <2>3
  <2>5. /\ \A j \in DOMAIN pairs : pairs[j].key = k => Lookup(k, block, h) = pairs[j].value
        /\ (\A j \in DOMAIN pairs : pairs[j].key # k) => Lookup(k, block, h) = NoValue
    BY <1>3, <1>6, <2>4, PairsLookup
  <2>6. /\ \A j \in DOMAIN wc : wc[j].key = k => Lookup(k, wc, saved_bucket) = wc[j].value
        /\ (\A j \in DOMAIN wc : wc[j].key # k) => Lookup(k, wc, saved_bucket) = NoValue
    BY <1>3, <1>11, LookupSound
  <2>7. N + 1 \in DOMAIN pairs /\ pairs[N + 1] = add_v /\ 1..N \subseteq DOMAIN pairs
    BY <1>9, <1>10
  <2>8. CASE k = add_v.key
    BY <2>1, <2>3, <2>5, <2>7, <2>8
  <2>9. CASE k # add_v.key /\ \E j \in 1..N : wc[j].key = k
    <3>1. PICK j \in 1..N : wc[j].key = k
      BY <2>9
    <3>2. Lookup(k, wc, saved_bucket) = wc[j].value
      BY <1>11, <2>6, <3>1
    <3>3. Lookup(k, block, h) = wc[j].value
      BY <1>9, <2>5, <2>7, <3>1
    <3>. QED
      BY <2>1, <2>2, <2>3, <2>9, <3>2, <3>3
  <2>10. CASE k # add_v.key /\ \A j \in 1..N : wc[j].key # k
    <3>1. Lookup(k, wc, saved_bucket) = NoValue
      BY <1>11, <2>6, <2>10
    <3>2. ASSUME NEW j \in DOMAIN pairs
          PROVE  pairs[j].key # k
      <4>1. j \in 1..N \/ j = N + 1
        BY <1>10
      <4>. QED
        BY <1>9, <2>7, <2>10, <4>1
    <3>3. Lookup(k, block, h) = NoValue
      BY <2>5, <3>2
    <3>. QED
      BY <2>1, <2>2, <2>3, <2>10, <3>1, <3>3
  <2>. QED
    BY <2>8, <2>9, <2>10
<1>15. CASE b # B
  <2>1. k # add_v.key
    BY <1>1, <1>12, <1>15 DEF ThisBucket
  <2>2. Home(BucketIndex(k))' = Home(BucketIndex(k))
    BY <1>7, <1>12, <1>13, <1>15
  <2>3. Home(BucketIndex(k)).offset # 0 =>
          heap'[Home(BucketIndex(k)).offset] = heap[Home(BucketIndex(k)).offset]
    BY <1>6, <1>12, HomeFacts
  <2>4. Found(k)' = Found(k)
    BY <1>2, <2>1, <2>2, <2>3, FoundKept
  <2>. QED
    BY <2>1, <2>4
<1>. QED
  BY <1>14, <1>15

\* Freeing the old pages changes nothing in the table.
LEMMA FreeOldNoEffect ==
  ASSUME BihashIInv, BihashIInv', FreeOld
  PROVE  NoEffect
<1>1. PICK m, a, id, n : /\ m = [heap |-> heap, free |-> freelists]
                         /\ id = saved_bucket.offset /\ n = saved_bucket.log2_pages
                         /\ a = Release(m, id, n)
  OBVIOUS
<1>2. /\ w_pc = "grown" /\ w_pc' = "idle" /\ heap' = a.heap
      /\ table' = table /\ buckets' = buckets
  BY <1>1 DEF FreeOld, Unlock
<1>3. m.heap = heap /\ Separate(m, Live) /\ table \in Tables
  BY <1>1 DEF BihashIInv, BlocksInv, BihashTypeOK
<1>4. id \in Live /\ n \in 0..MaxLog2
  BY <1>1, <1>2 DEF Live, BihashIInv, BihashTypeOK, BlocksInv, Shapes
<1>5. Freed(m, Live, id, a)
  BY <1>1, <1>3, <1>4, ReleaseSeparate
<1>6. \A i \in Live \ {id} : heap'[i] = heap[i]
  BY <1>2, <1>3, <1>5 DEF Freed
<1>. SUFFICES ASSUME NEW k \in DOMAIN table.hash
              PROVE  Found(k)' = Found(k)
  BY DEF NoEffect
<1>7. PICK b \in Indices : b = BucketIndex(k)
  <2>1. 0 \in Nat
    OBVIOUS
  <2>. QED
    BY <1>3, <2>1, KeyIndices
<1>8. Home(BucketIndex(k))' = Home(BucketIndex(k))
  BY <1>2, TableStays DEF Home
<1>9. Home(b).offset # id /\ (Home(b).offset # 0 => Home(b).offset \in Live)
  BY <1>1, <1>2, HomeFacts DEF BihashIInv, BlocksInv
<1>10. Home(BucketIndex(k)).offset # 0 =>
         heap'[Home(BucketIndex(k)).offset] = heap[Home(BucketIndex(k)).offset]
  BY <1>6, <1>7, <1>9
<1>. QED
  BY <1>2, <1>8, <1>10, FoundKept

\* Every step of the table is a step of the map, or none.
LEMMA MapStep ==
  ASSUME BihashIInv, BihashIInv', [BihashNext]_bihash_vars
  PROVE  [Map!Next]_<<TheMap, Asked>>
<1>1. Effect /\ table' = table /\ add_v.key \in DOMAIN table.hash /\ w_pc # "grown" =>
           TheMap' = [TheMap EXCEPT ![Asked.key] = Asked.value]
  BY MapSteps DEF Asked
<1>2. table \in Tables /\ DOMAIN table.hash \subseteq Keys /\ NoKey \notin Keys
  BY TablesAssumption, NamesAssumption DEF BihashIInv, BihashTypeOK
<1>3. ASSUME Effect, table' = table, w_pc \in {"locked", "copied", "changed"},
             Asked' = FreePair
      PROVE  Map!Next
  <2>1. add_v.key \in DOMAIN table.hash
    BY <1>3 DEF BihashIInv, WriterInv
  <2>2. Asked = add_v
    BY <1>3 DEF Asked
  <2>3. Asked # FreePair
    BY <1>2, <2>1, <2>2 DEF FreePair, Pair
  <2>4. TheMap' = [TheMap EXCEPT ![Asked.key] = Asked.value]
    BY <1>1, <1>3, <2>1
  <2>5. Map!TakeEffect
    BY <1>3, <2>3, <2>4 DEF Map!TakeEffect, Map!Nothing, TheMap, Asked, FreePair, Pair
  <2>. QED
    BY <2>5 DEF Map!Next
<1>4. ASSUME NoEffect, table' = table, Asked' = Asked
      PROVE  UNCHANGED <<TheMap, Asked>>
  BY <1>4, MapSteps
<1>5. CASE UNCHANGED bihash_vars
  <2>1. /\ table' = table /\ buckets' = buckets /\ heap' = heap
        /\ working_copies' = working_copies /\ w_pc' = w_pc /\ add_v' = add_v
    BY <1>5 DEF bihash_vars, memory, writer
  <2>. QED
    BY <1>4, <2>1, SameFound DEF Asked
<1>6. ASSUME NEW w \in table.writers, NEW k \in DOMAIN table.hash,
             NEW v \in table.values \cup {NoValue}, Lock(w, k, v)
      PROVE  Map!Next
  <2>1. /\ table' = table /\ buckets' = buckets /\ heap' = heap
        /\ working_copies' = working_copies /\ add_v' = Pair(k, v) /\ w_pc' = "locked"
    BY <1>6 DEF Lock, memory
  <2>2. w_pc = "idle" /\ add_v = FreePair
    BY <1>6 DEF Lock, BihashIInv, BihashTypeOK, WriterInv
  <2>3. TheMap' = TheMap
    BY <2>1, SameFound, MapSteps
  <2>4. k \in Keys /\ v \in Values \cup {NoValue}
    BY <1>2, TablesAssumption
  <2>5. Map!Ask(k, v)
    BY <2>1, <2>2, <2>3 DEF Map!Ask, Map!Nothing, TheMap, FreePair, Pair
  <2>. QED
    BY <2>4, <2>5 DEF Map!Next
<1>7. CASE First
  <2>1. Asked' = FreePair /\ table' = table /\ w_pc = "locked"
    BY <1>7 DEF First, Unlock, Asked
  <2>. QED
    BY <1>3, <1>7, <2>1, FirstEffect
<1>8. CASE make_working_copy
  <2>1. Asked' = Asked /\ table' = table
    BY <1>8 DEF make_working_copy, Asked
  <2>. QED
    BY <1>4, <1>8, <2>1, CopyNoEffect
<1>9. CASE Change
  <2>1. Asked' = Asked /\ table' = table
    BY <1>9 DEF Change, Asked
  <2>. QED
    BY <1>4, <1>9, <2>1, ChangeNoEffect
<1>10. CASE Restore
  <2>1. Asked' = FreePair /\ table' = table /\ w_pc = "changed"
    BY <1>10 DEF Restore, Unlock, Asked
  <2>. QED
    BY <1>3, <1>10, <2>1, RestoreEffect
<1>11. CASE Grow
  <2>1. Asked' = FreePair /\ table' = table /\ w_pc = "copied"
    BY <1>11 DEF Grow, Asked
  <2>. QED
    BY <1>3, <1>11, <2>1, GrowEffect
<1>12. CASE FreeOld
  <2>1. Asked' = Asked /\ table' = table
    BY <1>12 DEF FreeOld, Unlock, Asked
  <2>. QED
    BY <1>4, <1>12, <2>1, FreeOldNoEffect
<1>13. ASSUME NEW r \in Readers, Search(r)
       PROVE  UNCHANGED <<TheMap, Asked>>
  <2>1. /\ table' = table /\ buckets' = buckets /\ heap' = heap
        /\ working_copies' = working_copies /\ w_pc' = w_pc /\ add_v' = add_v
    BY <1>13 DEF Search, SearchBegins, SearchShape, SearchReturns, memory, writer
  <2>. QED
    BY <1>4, <2>1, SameFound DEF Asked
<1>. QED
  BY <1>5, <1>6, <1>7, <1>8, <1>9, <1>10, <1>11, <1>12, <1>13 DEF BihashNext, Update

\* The hash table is a map: what clib_bihash_search finds, in the middle of an update
\* too, is changed by clib_bihash_add_del in one step and as it was told, and by
\* nothing else.  No key is lost, comes back or is found twice when pages are copied,
\* split, split again or given up for a list.
THEOREM BihashImplementsMap == BihashSpec => ImplementsMap
<1>1. BihashInit => Map!Init
  <2>. SUFFICES ASSUME BihashInit
                PROVE  Map!Init
    OBVIOUS
  <2>1. table \in Tables /\ 0 \in Nat
    BY DEF BihashInit
  <2>2. \A k \in DOMAIN table.hash : BucketIndex(k) \in Indices
    BY <2>1, KeyIndices
  <2>3. \A k \in DOMAIN table.hash : Found(k) = NoValue
    BY <2>2 DEF BihashInit, Found, NoBucket, Indices
  <2>. QED
    BY <2>3 DEF BihashInit, Map!Init, Map!Nothing, FreePair, Pair
<1>2. BihashIInv /\ BihashIInv' /\ [BihashNext]_bihash_vars => [Map!Next]_<<TheMap, Asked>>
  BY MapStep
<1>. QED
  BY <1>1, <1>2, BihashInvariant, PTL DEF BihashSpec, ImplementsMap, Map!Spec, TheMap, Asked
===============================================================================
