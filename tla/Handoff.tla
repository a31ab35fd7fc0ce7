------------------------------- MODULE Handoff -------------------------------
(***************************************************************************)
(* Worker threads that hand packets to one another while the main thread   *)
(* stops and restarts them: the dispatch loop of a worker (vlib/main.c),   *)
(* the node worker-handoff (vnet/handoff.c), one frame queue per worker    *)
(* (module FrameQueue) and the barrier (module WorkerBarrier).             *)
(*                                                                         *)
(* A worker polls the barrier in two places: at the top of its loop, and   *)
(* inside vlib_get_frame_queue_elt while it waits for an element of a full *)
(* queue, in the middle of a node.  FrameQueue shows that tickets in       *)
(* flight have elements of their own, so a queue is kept here as its       *)
(* counters and the set of tickets whose elements are valid.               *)
(***************************************************************************)
EXTENDS Integers, FiniteSets

CONSTANTS
  N,          \* workers are numbered 1..N, the index order of the ship loop
  Topologies, \* who may hand off to whom: what "set interface handoff" allows
  NElts,      \* fq->nelts, the same for every queue
  MaxTail     \* bound: tickets handed out per queue

Workers == 1..N

ASSUME NAssumption == N \in Nat \ {0}
ASSUME TopologiesAssumption == Topologies \subseteq [Workers -> SUBSET Workers]
ASSUME NEltsAssumption == NElts \in Nat \ {0}
ASSUME MaxTailAssumption == MaxTail \in Nat

VARIABLES
  targets,     \* targets[w]: the workers that w's interfaces hand off to
  wait_at_barrier, workers_at_barrier, recursion_level, main_pc, worker_pc,
  loc,         \* where each worker is between two polls of the barrier
  tail, head, head_hint,   \* of each worker's queue
  valid,       \* tickets of each queue whose element is valid
  elt,         \* elt[w][v]: w's open ticket for v's queue, 0 when it has none
  target       \* the worker whose queue w is waiting for

barrierVars == <<wait_at_barrier, workers_at_barrier, recursion_level, main_pc,
                 worker_pc>>

queueVars == <<tail, head, head_hint, valid, elt>>

vars == <<targets, barrierVars, loc, queueVars, target>>

Barrier == INSTANCE WorkerBarrier WITH MaxRecursion <- 1, Impatient <- FALSE

(***************************************************************************)
(* "top": before the barrier check of the dispatch loop.  "dequeue": in    *)
(* vlib_frame_queue_dequeue, "more" once it has taken a frame.  "input":   *)
(* dispatching input and pending nodes.  "node": in                        *)
(* worker_handoff_node_fn.  "wait": about to test whether the element is   *)
(* available.  "poll": it was not, about to poll the barrier.  "ship": in  *)
(* the ship loop of the node.                                              *)
(***************************************************************************)
Locations ==
  {"top", "dequeue", "more", "input", "node", "wait", "poll", "ship"}

\* The threads are up and the first barrier is released.
Init ==
  /\ targets \in Topologies
  /\ wait_at_barrier = 0
  /\ workers_at_barrier = 0
  /\ recursion_level = 0
  /\ main_pc = "run"
  /\ worker_pc = [w \in Workers |-> "run"]
  /\ loc = [w \in Workers |-> "top"]
  /\ tail = [w \in Workers |-> 0]
  /\ head = [w \in Workers |-> 0]
  /\ head_hint = [w \in Workers |-> 0]
  /\ valid = [w \in Workers |-> {}]
  /\ elt = [w \in Workers |-> [v \in Workers |-> 0]]
  /\ target = [w \in Workers |-> w]

-----------------------------------------------------------------------------
\* A step of a worker that is not inside vlib_worker_thread_barrier_check.
Go(w, from, to) ==
  /\ worker_pc[w] = "run"
  /\ loc[w] = from
  /\ loc' = [loc EXCEPT ![w] = to]
  /\ UNCHANGED barrierVars

\* vlib_worker_thread_barrier_check finds the flag set, at either place.
PollStops(w) ==
  /\ loc[w] \in {"top", "poll"}
  /\ Barrier!BarrierCheck(w)
  /\ UNCHANGED <<loc, queueVars, target>>

\* Where the code after the barrier check continues.
AfterPoll(w) == IF loc[w] = "top" THEN "dequeue" ELSE "wait"

\* Wrong: the wait loop does not look at the flag.
MutWaitIgnoresFlag(w) ==
  /\ loc[w] \in {"top", "poll"}
  /\ loc[w] = "top" => wait_at_barrier = 0
  /\ Go(w, loc[w], AfterPoll(w))
  /\ UNCHANGED <<queueVars, target>>

\* vlib_worker_thread_barrier_check finds the flag clear.
PollPasses(w) ==
  /\ loc[w] \in {"top", "poll"}
  /\ wait_at_barrier = 0
  /\ Go(w, loc[w], AfterPoll(w))
  /\ UNCHANGED <<queueVars, target>>

\* Inside the barrier check.
AtBarrier(w) ==
  /\ Barrier!BarrierEnter(w) \/ Barrier!BarrierSpinEnds(w)
  /\ UNCHANGED <<loc, queueVars, target>>

\* The barrier check returns.
LeaveBarrier(w) ==
  /\ Barrier!BarrierLeave(w)
  /\ loc' = [loc EXCEPT ![w] = AfterPoll(w)]
  /\ UNCHANGED <<queueVars, target>>

\* Wrong: the hint is never refreshed.
MutHintNever(w) ==
  /\ loc[w] \in {"dequeue", "more"}
  /\ loc[w] = "dequeue" => head[w] + 1 \notin valid[w]
  /\ Go(w, loc[w], "input")
  /\ UNCHANGED <<queueVars, target>>

\* vlib_frame_queue_dequeue returns: at an empty queue, at an element that is
\* not valid, or, after any number of frames of 1 to 256 packets, at the packet
\* limit.
DequeueReturns(w) ==
  /\ loc[w] \in {"dequeue", "more"}
  /\ loc[w] = "dequeue" => head[w] + 1 \notin valid[w]
  /\ Go(w, loc[w], "input")
  /\ head_hint' = [head_hint EXCEPT ![w] = head[w]]
  /\ UNCHANGED <<tail, head, valid, elt, target>>

\* Wrong: the element is taken without a look at its flag.
MutDequeueUnchecked(w) ==
  /\ loc[w] \in {"dequeue", "more"}
  /\ Go(w, loc[w], "more")
  /\ valid' = [valid EXCEPT ![w] = @ \ {head[w] + 1}]
  /\ head' = [head EXCEPT ![w] = @ + 1]
  /\ UNCHANGED <<tail, head_hint, elt, target>>

\* One turn of its loop: the frame of the next ticket goes to the graph.
DequeueFrame(w) ==
  /\ loc[w] \in {"dequeue", "more"}
  /\ head[w] + 1 \in valid[w]
  /\ Go(w, loc[w], "more")
  /\ valid' = [valid EXCEPT ![w] = @ \ {head[w] + 1}]
  /\ head' = [head EXCEPT ![w] = @ + 1]
  /\ UNCHANGED <<tail, head_hint, elt, target>>

\* No (further) frame for worker-handoff in this turn of the dispatch loop.
LoopEnds(w) ==
  /\ Go(w, "input", "top")
  /\ UNCHANGED <<queueVars, target>>

\* Wrong: __sync_fetch_and_add, the ticket is the value before the add.
MutFetchThenAdd(w, v) ==
  /\ loc[w] \in {"input", "node"}
  /\ v \in targets[w]
  /\ elt[w][v] = 0
  /\ tail[v] < MaxTail
  /\ Go(w, loc[w], "wait")
  /\ tail' = [tail EXCEPT ![v] = @ + 1]
  /\ elt' = [elt EXCEPT ![w][v] = tail[v]]
  /\ target' = [target EXCEPT ![w] = v]
  /\ UNCHANGED <<head, head_hint, valid>>

\* A packet for a worker w has no open element for: vlib_get_frame_queue_elt
\* takes a ticket.  From "input" it is the first packet of the frame.
TakeTicket(w, v) ==
  /\ loc[w] \in {"input", "node"}
  /\ v \in targets[w]
  /\ elt[w][v] = 0
  /\ tail[v] < MaxTail
  /\ Go(w, loc[w], "wait")
  /\ tail' = [tail EXCEPT ![v] = @ + 1]
  /\ elt' = [elt EXCEPT ![w][v] = tail[v] + 1]
  /\ target' = [target EXCEPT ![w] = v]
  /\ UNCHANGED <<head, head_hint, valid>>

\* new_tail >= fq->head_hint + fq->nelts
NoSlot(w) == elt[w][target[w]] >= head_hint[target[w]] + NElts

\* The wait loop goes round.
WaitContinues(w) ==
  /\ NoSlot(w)
  /\ Go(w, "wait", "poll")
  /\ UNCHANGED <<queueVars, target>>

\* The wait loop ends; packets go into the element.
SlotAvailable(w) ==
  /\ ~NoSlot(w)
  /\ Go(w, "wait", "node")
  /\ UNCHANGED <<queueVars, target>>

\* The frame has no packet left.
FrameEnds(w) ==
  /\ Go(w, "node", "ship")
  /\ UNCHANGED <<queueVars, target>>

\* vlib_put_frame_queue_elt on the open elements, in index order.
ShipElt(w) ==
  \E v \in Workers :
    /\ elt[w][v] # 0
    /\ \A u \in 1..(v - 1) : elt[w][u] = 0
    /\ Go(w, "ship", IF \E u \in (v + 1)..N : elt[w][u] # 0
                       THEN "ship" ELSE "input")
    /\ valid' = [valid EXCEPT ![v] = @ \cup {elt[w][v]}]
    /\ elt' = [elt EXCEPT ![w][v] = 0]
    /\ UNCHANGED <<tail, head, head_hint, target>>

Worker(w) ==
  /\ \/ PollStops(w) \/ PollPasses(w) \/ AtBarrier(w) \/ LeaveBarrier(w)
     \/ DequeueReturns(w) \/ DequeueFrame(w) \/ LoopEnds(w)
     \/ (\E v \in Workers : TakeTicket(w, v))
     \/ WaitContinues(w) \/ SlotAvailable(w) \/ FrameEnds(w) \/ ShipElt(w)
  /\ UNCHANGED targets

Main ==
  /\ \/ Barrier!BarrierSync \/ Barrier!BarrierSyncDone
     \/ Barrier!BarrierRelease \/ Barrier!BarrierReleaseDone
  /\ UNCHANGED <<targets, loc, queueVars, target>>

Next == Main \/ \E w \in Workers : Worker(w)

(***************************************************************************)
(* Workers busy-poll: each keeps taking steps of its own.  The main thread *)
(* ends the calls it has begun and never holds the barrier for ever; it    *)
(* need not begin one.                                                     *)
(***************************************************************************)
Fairness ==
  /\ WF_vars(Main /\ main_pc # "run")
  /\ \A w \in Workers : WF_vars(Worker(w))

Spec == Init /\ [][Next]_vars

LiveSpec == Spec /\ Fairness

-----------------------------------------------------------------------------
TypeOK ==
  /\ targets \in Topologies
  /\ Barrier!TypeOK
  /\ loc \in [Workers -> Locations]
  /\ tail \in [Workers -> 0..MaxTail]
  /\ head \in [Workers -> 0..MaxTail]
  /\ head_hint \in [Workers -> 0..MaxTail]
  /\ valid \in [Workers -> SUBSET (1..MaxTail)]
  /\ elt \in [Workers -> [Workers -> 0..MaxTail]]
  /\ target \in [Workers -> Workers]

Holders(v) == {w \in Workers : elt[w][v] # 0}

\* Every ticket of a queue is in one place: consumed, in a valid element, or
\* open at exactly one worker.
TicketsAccounted ==
  \A v \in Workers :
    /\ {elt[w][v] : w \in Holders(v)} \cup valid[v] = (head[v] + 1)..tail[v]
    /\ Cardinality(Holders(v)) + Cardinality(valid[v]) = tail[v] - head[v]

Waiting(w) == loc[w] \in {"wait", "poll"}

(***************************************************************************)
(* The inductive strengthening: a worker stops at the barrier only where   *)
(* it polls, it leaves worker_handoff_node_fn with no element open, and a  *)
(* ticket belongs to one place.                                            *)
(***************************************************************************)
\* The deadline of the barrier never runs out here.
NoPanic == main_pc # "panic"

StopsAtPoll ==
  \A w \in Workers : worker_pc[w] # "run" => loc[w] \in {"top", "poll"}

NothingLeftOpen ==
  \A w, v \in Workers :
    loc[w] \in {"top", "dequeue", "more", "input"} => elt[w][v] = 0

HintBehind ==
  \A v \in Workers : head_hint[v] <= head[v] /\ head[v] <= tail[v]

TicketsKnown ==
  \A v \in Workers :
    {elt[w][v] : w \in Holders(v)} \cup valid[v] = (head[v] + 1)..tail[v]

TicketsApart ==
  \A v, w \in Workers :
    elt[w][v] # 0 =>
      /\ elt[w][v] \notin valid[v]
      /\ \A u \in Workers : elt[u][v] = elt[w][v] => u = w

\* w writes packets to its element of v's queue.
Writes(w, v) == elt[w][v] # 0 /\ ~(Waiting(w) /\ target[w] = v)

TicketsNear ==
  \A v \in Workers :
    /\ \A t \in valid[v] : t < head_hint[v] + NElts
    /\ \A w \in Workers : Writes(w, v) => elt[w][v] < head_hint[v] + NElts

\* What every reachable state satisfies and every step preserves.
IInv ==
  /\ TypeOK
  /\ Barrier!IInv
  /\ NoPanic
  /\ StopsAtPoll
  /\ NothingLeftOpen
  /\ HintBehind
  /\ TicketsKnown
  /\ TicketsApart
  /\ TicketsNear

\* The tickets whose elements are being written or read.
Occupied(v) == valid[v] \cup {elt[w][v] : w \in {u \in Workers : Writes(u, v)}}

\* What entitles this module to keep tickets instead of elements: two tickets in
\* use are never the same element, new_tail & (nelts - 1), of a queue.
ElementsApart ==
  \A v \in Workers : \A t, u \in Occupied(v) : t # u => t % NElts # u % NElts

\* While the main thread holds the barrier no queue changes, although workers
\* may be stopped in the middle of worker_handoff_node_fn.
QuietWhileHeld == [][main_pc = "held" => UNCHANGED <<queueVars, loc>>]_vars

\* The main thread gets its barrier even when every worker is waiting for an
\* element of a full queue.
BarrierReached == main_pc = "sync" ~> main_pc = "held"

\* "Wait until a ring slot is available": a worker that waits for an element of
\* a queue gets it.
SlotGranted == \A w \in Workers : Waiting(w) ~> ~Waiting(w)
=============================================================================
