------------------------------ MODULE FrameQueue ------------------------------
(***************************************************************************)
(* One handoff queue between threads (vlib/threads.h, vlib/threads.c): a   *)
(* ring of nelts elements, filled by any number of threads and emptied by  *)
(* the one thread that owns it, without a lock.                            *)
(*                                                                         *)
(* A producer takes a ticket with an atomic add on tail, waits until the   *)
(* element of its ticket is free, fills it and sets its valid flag.  The   *)
(* consumer takes valid elements in ticket order.  Producers do not read   *)
(* head but head_hint, which the consumer refreshes only when a call of    *)
(* vlib_frame_queue_dequeue returns.                                       *)
(*                                                                         *)
(* Every access to a shared word is a step of its own.  The contents of a  *)
(* frame are named by the ticket of the producer that wrote them.          *)
(***************************************************************************)
EXTENDS Integers, Sequences

CONSTANTS
  Producers,         \* threads that hand frames off to this queue
  NElts,             \* fq->nelts
  Sizes,             \* possible numbers of packets in a frame
  VectorThreshold,   \* fq->vector_threshold: packets per dequeue call
  MaxTail            \* bound: tickets handed out

ASSUME NEltsAssumption == NElts \in Nat \ {0}
\* vlib_frame_queue_alloc aborts otherwise; it is what makes t & (nelts - 1)
\* the remainder of t modulo nelts.
ASSUME PowerOfTwoAssumption == \E k \in 0..16 : NElts = 2 ^ k
ASSUME SizesAssumption == Sizes \subseteq Nat \ {0}
ASSUME ThresholdAssumption == VectorThreshold \in Nat
ASSUME MaxTailAssumption == MaxTail \in Nat

VARIABLES
  tail,          \* fq->tail: the last ticket handed out
  head,          \* fq->head: the last ticket consumed
  head_hint,     \* fq->head_hint
  elts,          \* fq->elts, indexed from 0
  new_tail,      \* each producer's ticket, 0 when it has none
  prod_pc,       \* where each producer is
  cons_pc,       \* where the consumer is
  vectors,       \* packets taken by the current dequeue call
  dispatched     \* the frames handed to the graph, in order

vars == <<tail, head, head_hint, elts, new_tail, prod_pc, cons_pc, vectors,
          dispatched>>

\* fq->elts + (t & (fq->nelts - 1))
Slot(t) == t % NElts

Slots == 0..(NElts - 1)

Tickets == 1..MaxTail

ProducerStates == {"idle", "wait", "claim", "fill", "put"}

ConsumerStates == {"idle", "empty", "valid", "copy", "clear", "advance"}

\* vlib_frame_queue_alloc: everything is zero.
Init ==
  /\ tail = 0
  /\ head = 0
  /\ head_hint = 0
  /\ elts = [i \in Slots |-> [valid |-> 0, n_vectors |-> 0, frame |-> 0]]
  /\ new_tail = [p \in Producers |-> 0]
  /\ prod_pc = [p \in Producers |-> "idle"]
  /\ cons_pc = "idle"
  /\ vectors = 0
  /\ dispatched = <<>>

-----------------------------------------------------------------------------
(***************************************************************************)
(* Producers: vlib_get_frame_queue_elt, the code that fills the element,   *)
(* vlib_put_frame_queue_elt                                                *)
(***************************************************************************)

MoveProducer(p, from, to) ==
  /\ prod_pc[p] = from
  /\ prod_pc' = [prod_pc EXCEPT ![p] = to]

\* Wrong: the ticket is read before the add instead of after it.
MutTakeTicketRacy(p) ==
  /\ tail < MaxTail
  /\ MoveProducer(p, "idle", "wait")
  /\ tail' = tail + 1
  /\ new_tail' = [new_tail EXCEPT ![p] = IF tail = 0 THEN 1 ELSE tail]
  /\ UNCHANGED <<head, head_hint, elts, cons_pc, vectors, dispatched>>

\* new_tail = __sync_add_and_fetch (&fq->tail, 1)
TakeTicket(p) ==
  /\ tail < MaxTail
  /\ MoveProducer(p, "idle", "wait")
  /\ tail' = tail + 1
  /\ new_tail' = [new_tail EXCEPT ![p] = tail + 1]
  /\ UNCHANGED <<head, head_hint, elts, cons_pc, vectors, dispatched>>

\* Wrong: no wait at all, only the valid flag protects the element.
MutNoWait(p) ==
  /\ MoveProducer(p, "wait", "claim")
  /\ UNCHANGED <<tail, head, head_hint, elts, new_tail, cons_pc, vectors,
                 dispatched>>

\* while (new_tail >= fq->head_hint + fq->nelts) ends.  (The loop polls the
\* worker barrier, which module Handoff adds.)
SlotAvailable(p) ==
  /\ new_tail[p] < head_hint + NElts
  /\ MoveProducer(p, "wait", "claim")
  /\ UNCHANGED <<tail, head, head_hint, elts, new_tail, cons_pc, vectors,
                 dispatched>>

\* while (elt->valid) ends; the element is reset.
ClaimElt(p) ==
  /\ elts[Slot(new_tail[p])].valid = 0
  /\ MoveProducer(p, "claim", "fill")
  /\ elts' = [elts EXCEPT ![Slot(new_tail[p])].n_vectors = 0]
  /\ UNCHANGED <<tail, head, head_hint, new_tail, cons_pc, vectors, dispatched>>

\* The producer stores its buffer indices and their number.
FillElt(p, n) ==
  /\ MoveProducer(p, "fill", "put")
  /\ elts' = [elts EXCEPT ![Slot(new_tail[p])].n_vectors = n,
                          ![Slot(new_tail[p])].frame = new_tail[p]]
  /\ UNCHANGED <<tail, head, head_hint, new_tail, cons_pc, vectors, dispatched>>

\* vlib_put_frame_queue_elt
PutElt(p) ==
  /\ MoveProducer(p, "put", "idle")
  /\ elts' = [elts EXCEPT ![Slot(new_tail[p])].valid = 1]
  /\ new_tail' = [new_tail EXCEPT ![p] = 0]
  /\ UNCHANGED <<tail, head, head_hint, cons_pc, vectors, dispatched>>

Produce(p) ==
  \/ TakeTicket(p) \/ SlotAvailable(p) \/ ClaimElt(p)
  \/ (\E n \in Sizes : FillElt(p, n)) \/ PutElt(p)

-----------------------------------------------------------------------------
(***************************************************************************)
(* Consumer: vlib_frame_queue_dequeue                                      *)
(***************************************************************************)

\* The element of the next ticket.
NextSlot == Slot(head + 1)

DequeueCalled ==
  /\ cons_pc = "idle"
  /\ cons_pc' = "empty"
  /\ vectors' = 0
  /\ UNCHANGED <<tail, head, head_hint, elts, new_tail, prod_pc, dispatched>>

\* Wrong: the hint is one ahead.
MutHintAhead(h) ==
  /\ cons_pc' = "idle"
  /\ head_hint' = h + 1

\* Wrong: the hint is never refreshed.
MutHintNever(h) ==
  /\ cons_pc' = "idle"
  /\ UNCHANGED head_hint

\* The call returns: the producers learn how far the consumer is.
DequeueReturns(h) ==
  /\ cons_pc' = "idle"
  /\ head_hint' = h

\* if (fq->head == fq->tail)
QueueEmpty ==
  /\ cons_pc = "empty"
  /\ head = tail
  /\ DequeueReturns(head)
  /\ UNCHANGED <<tail, head, elts, new_tail, prod_pc, vectors, dispatched>>

QueueNotEmpty ==
  /\ cons_pc = "empty"
  /\ head # tail
  /\ cons_pc' = "valid"
  /\ UNCHANGED <<tail, head, head_hint, elts, new_tail, prod_pc, vectors,
                 dispatched>>

\* if (!elt->valid): the ticket is taken, its element not filled yet.
EltNotValid ==
  /\ cons_pc = "valid"
  /\ elts[NextSlot].valid = 0
  /\ DequeueReturns(head)
  /\ UNCHANGED <<tail, head, elts, new_tail, prod_pc, vectors, dispatched>>

\* Wrong: the element is used without a look at its flag.
MutSkipValid ==
  /\ cons_pc = "valid"
  /\ cons_pc' = "copy"
  /\ UNCHANGED <<tail, head, head_hint, elts, new_tail, prod_pc, vectors,
                 dispatched>>

EltValid ==
  /\ cons_pc = "valid"
  /\ elts[NextSlot].valid = 1
  /\ cons_pc' = "copy"
  /\ UNCHANGED <<tail, head, head_hint, elts, new_tail, prod_pc, vectors,
                 dispatched>>

\* The buffer indices go to a frame of the handoff node.
CopyElt ==
  /\ cons_pc = "copy"
  /\ vectors' = vectors + elts[NextSlot].n_vectors
  /\ dispatched' = Append(dispatched, elts[NextSlot].frame)
  /\ cons_pc' = "clear"
  /\ UNCHANGED <<tail, head, head_hint, elts, new_tail, prod_pc>>

\* elt->valid = 0; elt->n_vectors = 0
ClearElt ==
  /\ cons_pc = "clear"
  /\ elts' = [elts EXCEPT ![NextSlot].valid = 0, ![NextSlot].n_vectors = 0]
  /\ cons_pc' = "advance"
  /\ UNCHANGED <<tail, head, head_hint, new_tail, prod_pc, vectors, dispatched>>

\* fq->head++, then go round the loop or stop at the packet limit.
AdvanceHead ==
  /\ cons_pc = "advance"
  /\ head' = head + 1
  /\ \/ vectors >= VectorThreshold /\ DequeueReturns(head + 1)
     \/ vectors < VectorThreshold /\ cons_pc' = "empty" /\ UNCHANGED head_hint
  /\ UNCHANGED <<tail, elts, new_tail, prod_pc, vectors, dispatched>>

Consume ==
  \/ DequeueCalled \/ QueueEmpty \/ QueueNotEmpty \/ EltNotValid \/ EltValid
  \/ CopyElt \/ ClearElt \/ AdvanceHead

Next == Consume \/ \E p \in Producers : Produce(p)

(***************************************************************************)
(* The consumer calls vlib_frame_queue_dequeue in every turn of its        *)
(* dispatch loop, and a producer that has a ticket does not stop before it *)
(* has put the element.  Nothing forces a producer to take a ticket.       *)
(***************************************************************************)
Fairness ==
  /\ WF_vars(Consume)
  /\ \A p \in Producers :
       WF_vars(SlotAvailable(p) \/ ClaimElt(p)
               \/ (\E n \in Sizes : FillElt(p, n)) \/ PutElt(p))

Spec == Init /\ [][Next]_vars

LiveSpec == Spec /\ Fairness

-----------------------------------------------------------------------------
(***************************************************************************)
(* Properties                                                              *)
(***************************************************************************)

Elt == [valid : {0, 1}, n_vectors : Sizes \cup {0}, frame : Tickets \cup {0}]

TypeOK ==
  /\ tail \in 0..MaxTail
  /\ head \in 0..MaxTail
  /\ head_hint \in 0..MaxTail
  /\ elts \in [Slots -> Elt]
  /\ new_tail \in [Producers -> 0..MaxTail]
  /\ prod_pc \in [Producers -> ProducerStates]
  /\ cons_pc \in ConsumerStates
  /\ vectors \in Nat
  /\ dispatched \in Seq(0..MaxTail)

\* "this would be very bad...": a producer that has been granted its slot by
\* head_hint never finds the element still valid, so the second spin loop of
\* vlib_get_frame_queue_elt, which does not poll the barrier, never spins.
NeverSpinsOnValid ==
  \A p \in Producers :
    prod_pc[p] = "claim" => elts[Slot(new_tail[p])].valid = 0

Owns(p) == prod_pc[p] \in {"claim", "fill", "put"}

ConsumerReads == cons_pc \in {"copy", "clear"}

\* Between its grant and its put a producer is alone with its element: no other
\* producer writes it and the consumer does not read it.
ExclusiveElement ==
  \A p \in Producers : Owns(p) =>
    /\ \A q \in Producers \ {p} :
         Owns(q) => Slot(new_tail[q]) # Slot(new_tail[p])
    /\ ConsumerReads => Slot(new_tail[p]) # NextSlot

\* Every frame reaches the graph once, in ticket order, whatever order the
\* producers finish in; and its packet count is the one its producer stored.
InOrderOnce ==
  /\ Len(dispatched) = IF cons_pc \in {"clear", "advance"} THEN head + 1 ELSE head
  /\ \A i \in DOMAIN dispatched : dispatched[i] = i
  /\ cons_pc = "copy" => elts[NextSlot].n_vectors \in Sizes

(***************************************************************************)
(* The inductive strengthening: where a ticket can be.                     *)
(***************************************************************************)

HintBehindHead == head_hint <= head /\ head <= tail

\* A ticket that is not yet put lies ahead of head, and has one holder.
HeldTickets ==
  \A p \in Producers : prod_pc[p] # "idle" =>
    /\ head < new_tail[p] /\ new_tail[p] <= tail
    /\ \A q \in Producers \ {p} :
         prod_pc[q] # "idle" => new_tail[q] # new_tail[p]

\* The holder of a granted element finds it not valid, and stores itself there.
OwnedElements ==
  \A p \in Producers : Owns(p) =>
    /\ new_tail[p] < head_hint + NElts
    /\ elts[Slot(new_tail[p])].valid = 0
    /\ prod_pc[p] = "put" => /\ elts[Slot(new_tail[p])].frame = new_tail[p]
                             /\ elts[Slot(new_tail[p])].n_vectors \in Sizes

\* A valid element carries a ticket not yet consumed that nobody holds any more.
ValidElements ==
  \A i \in Slots : elts[i].valid = 1 =>
    /\ head < elts[i].frame /\ elts[i].frame <= tail
    /\ elts[i].frame < head_hint + NElts
    /\ Slot(elts[i].frame) = i
    /\ elts[i].n_vectors \in Sizes
    /\ \A p \in Producers : prod_pc[p] # "idle" => new_tail[p] # elts[i].frame

\* What the consumer has established at each of its steps.
ConsumerPhase ==
  /\ cons_pc \notin {"idle", "empty"} => head < tail
  /\ ConsumerReads => elts[NextSlot].valid = 1
  /\ cons_pc = "advance" =>
       /\ elts[NextSlot].valid = 0
       /\ \A p \in Producers : prod_pc[p] # "idle" => new_tail[p] # head + 1

Delivered ==
  /\ Len(dispatched) = IF cons_pc \in {"clear", "advance"} THEN head + 1 ELSE head
  /\ \A i \in DOMAIN dispatched : dispatched[i] = i

\* A ticket is in one place at a time on its way from vlib_get_frame_queue_elt
\* to the graph: held by one producer, carried by one valid element within
\* nelts of head, or consumed.
IInv ==
  /\ TypeOK /\ HintBehindHead /\ HeldTickets /\ OwnedElements /\ ValidElements
  /\ ConsumerPhase /\ Delivered

\* No frame is stuck: every ticket that is handed out is dispatched.
EveryTicketServed ==
  \A t \in Tickets : tail >= t ~> Len(dispatched) >= t
=============================================================================
