-------------------------- MODULE SharedMemoryQueue --------------------------
(***************************************************************************)
(* unix_shared_memory_queue_t (vlibmemory/unix_shared_memory_queue.c): a   *)
(* bounded ring of elements between processes, guarded by one mutex, with  *)
(* one condition variable for both the threads that wait for room and the  *)
(* threads that wait for an element.  A broadcast is sent only when the    *)
(* queue stops being empty or stops being full.                            *)
(*                                                                         *)
(* There are three kinds of users: adders call _add (or lock, _add_nolock, *)
(* unlock), subbers call _sub, and drainers empty the queue with _sub_raw  *)
(* as session_queue_node_fn does (vnet/session/node.c).  A call with       *)
(* nowait set that finds the mutex taken returns -1 and changes nothing.   *)
(***************************************************************************)
EXTENDS Integers, Sequences, FiniteSets

CONSTANTS
  Adders, Subbers, Drainers,   \* threads of the processes that share a queue
  Queues,                      \* queues as they are created, see QueuesAssumption
  MoreAdds,                    \* bound: elements added after the first lap of the ring
  None                         \* the mutex is free

ASSUME MoreAddsAssumption == MoreAdds \in Nat
ASSUME ThreadsAssumption ==
  /\ IsFiniteSet(Adders)
  /\ Adders \cap Subbers = {} /\ Adders \cap Drainers = {}
  /\ Subbers \cap Drainers = {}
  /\ None \notin Adders \cup Subbers \cup Drainers

Threads == Adders \cup Subbers \cup Drainers

Elements ==
  UNION {1..(x.maxsize + MoreAdds + Cardinality(Adders)) : x \in Queues}

\* A queue has a size, threads that use it, the values of nowait they pass, and
\* threads that pthread_cond_wait may wake up unasked.  The event queue of a
\* session node, vpp_event_queues[my_thread_index], is read by that node only.
ASSUME QueuesAssumption ==
  /\ Queues \subseteq [maxsize : Nat \ {0}, users : SUBSET Threads,
                      nowait : SUBSET BOOLEAN, spurious : SUBSET Threads]
  /\ \A x \in Queues : \A d \in x.users \cap Drainers :
       x.users \cap (Subbers \cup Drainers) = {d}

VARIABLES
  q,          \* which queue it is; never changes
  mutex,      \* the thread that holds q->mutex, or None
  head, tail, cursize,
  data,       \* the element last stored in each place; elements are numbered
  pc,         \* where each thread is
  nowait,     \* the nowait argument of each thread's call
  n_left,     \* drainers: elements still to take in this call
  added       \* elements added so far

vars == <<q, mutex, head, tail, cursize, data, pc, nowait, n_left, added>>

ring == <<head, tail, cursize, data>>

(***************************************************************************)
(* "idle": not in a call.  "body": has the mutex, before the test for full *)
(* or empty.  "sleep": in pthread_cond_wait.  "woken": still in it, but    *)
(* about to take the mutex again.  "trylock", "drain": the steps of a      *)
(* drainer.  "unlock": about to give the mutex back.                       *)
(***************************************************************************)
States == {"idle", "body", "sleep", "woken", "trylock", "drain", "unlock"}

Init ==
  /\ q \in Queues
  /\ mutex = None
  /\ head = 0 /\ tail = 0 /\ cursize = 0
  /\ data = [i \in 0..(q.maxsize - 1) |-> 0]
  /\ pc = [t \in Threads |-> "idle"]
  /\ nowait = [t \in Threads |-> FALSE]
  /\ n_left = [d \in Drainers |-> 0]
  /\ added = 0

\* unix_shared_memory_queue_is_full
IsFull == cursize = q.maxsize

-----------------------------------------------------------------------------
(***************************************************************************)
(* The mutex and the condition variable                                    *)
(***************************************************************************)

\* pthread_mutex_lock, or pthread_mutex_trylock that succeeds.
Lock(t, to) ==
  /\ mutex = None
  /\ mutex' = t
  /\ pc' = [pc EXCEPT ![t] = to]

\* pthread_mutex_unlock by the thread that has it.
Unlock(t, to) ==
  /\ mutex' = None
  /\ pc' = [pc EXCEPT ![t] = to]

\* Wrong: pthread_cond_signal, which wakes one thread.
MutSignal(cond, t, to) ==
  \E u \in Threads :
    /\ cond /\ (\E w \in Threads : pc[w] = "sleep") => pc[u] = "sleep"
    /\ pc' = [w \in Threads |-> IF w = t THEN to
                                ELSE IF cond /\ w = u /\ pc[w] = "sleep"
                                THEN "woken" ELSE pc[w]]

\* if (need_broadcast) pthread_cond_broadcast; the caller goes on.
Broadcast(cond, t, to) ==
  pc' = [u \in Threads |-> IF u = t THEN to
                           ELSE IF cond /\ pc[u] = "sleep" THEN "woken" ELSE pc[u]]

\* pthread_cond_wait: the mutex is given back until the thread is woken.
CondWait(t) == Unlock(t, "sleep")

\* pthread_cond_wait may return without a broadcast.
SpuriousWakeup(t) ==
  /\ t \in q.spurious
  /\ pc[t] = "sleep"
  /\ pc' = [pc EXCEPT ![t] = "woken"]
  /\ UNCHANGED <<mutex, ring, nowait, n_left, added>>

\* A woken thread takes the mutex again and repeats the test of its loop.
Relock(t) ==
  /\ pc[t] = "woken"
  /\ Lock(t, "body")
  /\ UNCHANGED <<ring, nowait, n_left, added>>

CallEnds(t) ==
  /\ pc[t] = "unlock"
  /\ Unlock(t, "idle")
  /\ UNCHANGED <<ring, nowait, n_left, added>>

-----------------------------------------------------------------------------
(***************************************************************************)
(* unix_shared_memory_queue_add, _add_nolock                               *)
(***************************************************************************)

AddCalled(p) ==
  /\ pc[p] = "idle"
  /\ added < q.maxsize + MoreAdds
  /\ Lock(p, "body")
  /\ \E b \in q.nowait : nowait' = [nowait EXCEPT ![p] = b]
  /\ UNCHANGED <<ring, n_left, added>>

\* The queue is full and the caller waits.
AddWaits(p) ==
  /\ pc[p] = "body"
  /\ IsFull
  /\ ~nowait[p]
  /\ CondWait(p)
  /\ UNCHANGED <<ring, nowait, n_left, added>>

\* The queue is full and the call returns -2.
AddRefused(p) ==
  /\ pc[p] = "body"
  /\ IsFull
  /\ nowait[p]
  /\ Unlock(p, "idle")
  /\ UNCHANGED <<ring, nowait, n_left, added>>

\* There is room: store the element, wake the sleepers if it is the only one.
AddStores(p) ==
  /\ pc[p] = "body"
  /\ ~IsFull
  /\ data' = [data EXCEPT ![tail] = added + 1]
  /\ tail' = IF tail + 1 = q.maxsize THEN 0 ELSE tail + 1
  /\ cursize' = cursize + 1
  /\ Broadcast(cursize + 1 = 1, p, "unlock")
  /\ added' = added + 1
  /\ UNCHANGED <<mutex, head, nowait, n_left>>

Add(p) == AddCalled(p) \/ AddWaits(p) \/ AddRefused(p) \/ AddStores(p)

-----------------------------------------------------------------------------
(***************************************************************************)
(* unix_shared_memory_queue_sub                                            *)
(***************************************************************************)

SubCalled(c) ==
  /\ pc[c] = "idle"
  /\ Lock(c, "body")
  /\ \E b \in q.nowait : nowait' = [nowait EXCEPT ![c] = b]
  /\ UNCHANGED <<ring, n_left, added>>

SubWaits(c) ==
  /\ pc[c] = "body"
  /\ cursize = 0
  /\ ~nowait[c]
  /\ CondWait(c)
  /\ UNCHANGED <<ring, nowait, n_left, added>>

SubRefused(c) ==
  /\ pc[c] = "body"
  /\ cursize = 0
  /\ nowait[c]
  /\ Unlock(c, "idle")
  /\ UNCHANGED <<ring, nowait, n_left, added>>

\* Wrong: the head stays where it is.
MutHeadStays ==
  /\ cursize' = cursize - 1
  /\ UNCHANGED <<head, tail, data>>

\* The first element leaves the ring: _sub after its test, and _sub_raw.
TakeHead ==
  /\ head' = IF head + 1 = q.maxsize THEN 0 ELSE head + 1
  /\ cursize' = cursize - 1
  /\ UNCHANGED <<tail, data>>

\* Wrong: "shouldn't this be == 0?"
MutSubBroadcastsAtZero(c) ==
  /\ pc[c] = "body"
  /\ cursize # 0
  /\ TakeHead
  /\ Broadcast(cursize - 1 = 0, c, "unlock")
  /\ UNCHANGED <<mutex, nowait, n_left, added>>

\* There is an element: take it, wake the sleepers if the queue was full.
SubTakes(c) ==
  /\ pc[c] = "body"
  /\ cursize # 0
  /\ TakeHead
  /\ Broadcast(IsFull, c, "unlock")
  /\ UNCHANGED <<mutex, nowait, n_left, added>>

Sub(c) == SubCalled(c) \/ SubWaits(c) \/ SubRefused(c) \/ SubTakes(c)

-----------------------------------------------------------------------------
(***************************************************************************)
(* session_queue_node_fn: the number of events is read without the mutex,  *)
(* then that many are taken under it.                                      *)
(***************************************************************************)

\* Wrong: one more than there are.
MutDrainOneMore(d) ==
  /\ pc[d] = "idle"
  /\ n_left' = [n_left EXCEPT ![d] = cursize + 1]
  /\ pc' = [pc EXCEPT ![d] = "trylock"]
  /\ UNCHANGED <<mutex, ring, nowait, added>>

\* n_to_dequeue = q->cursize, which is 0 when the node goes on only because
\* events of an earlier call are left over.
DrainCalled(d) ==
  /\ pc[d] = "idle"
  /\ n_left' = [n_left EXCEPT ![d] = cursize]
  /\ pc' = [pc EXCEPT ![d] = "trylock"]
  /\ UNCHANGED <<mutex, ring, nowait, added>>

\* "See you in the next life, don't be late"
DrainBusy(d) ==
  /\ pc[d] = "trylock"
  /\ mutex # None
  /\ n_left' = [n_left EXCEPT ![d] = 0]
  /\ pc' = [pc EXCEPT ![d] = "idle"]
  /\ UNCHANGED <<mutex, ring, nowait, added>>

DrainLocks(d) ==
  /\ pc[d] = "trylock"
  /\ Lock(d, "drain")
  /\ UNCHANGED <<ring, nowait, n_left, added>>

\* unix_shared_memory_queue_sub_raw, which would spin at an empty queue.
DrainTakes(d) ==
  /\ pc[d] = "drain"
  /\ n_left[d] > 0
  /\ cursize # 0
  /\ TakeHead
  /\ n_left' = [n_left EXCEPT ![d] = @ - 1]
  /\ UNCHANGED <<mutex, pc, nowait, added>>

\* Wrong: the sleepers are not woken.
MutDrainSilent(d) ==
  /\ pc[d] = "drain"
  /\ n_left[d] = 0
  /\ Broadcast(FALSE, d, "unlock")
  /\ UNCHANGED <<mutex, ring, nowait, n_left, added>>

\* "The other side of the connection is not polling"
DrainEnds(d) ==
  /\ pc[d] = "drain"
  /\ n_left[d] = 0
  /\ Broadcast(cursize < q.maxsize \div 8, d, "unlock")
  /\ UNCHANGED <<mutex, ring, nowait, n_left, added>>

Drain(d) ==
  DrainCalled(d) \/ DrainBusy(d) \/ DrainLocks(d) \/ DrainTakes(d) \/ DrainEnds(d)

\* A step of a thread that uses the queue.
User(t, A) == t \in q.users /\ A /\ UNCHANGED q

Next ==
  \/ \E p \in Adders : User(p, Add(p))
  \/ \E c \in Subbers : User(c, Sub(c))
  \/ \E d \in Drainers : User(d, Drain(d))
  \/ \E t \in Threads : User(t, Relock(t) \/ CallEnds(t) \/ SpuriousWakeup(t))

(***************************************************************************)
(* A thread inside a call goes on, and the mutex is not refused to one     *)
(* that asks for it for ever.  Readers keep calling; adders need not, and  *)
(* nothing ever has to wake up without a broadcast.                        *)
(***************************************************************************)
Fairness ==
  /\ \A p \in Adders :
       WF_vars(User(p, AddWaits(p) \/ AddRefused(p) \/ AddStores(p)))
  /\ \A c \in Subbers :
       /\ SF_vars(User(c, SubCalled(c)))
       /\ WF_vars(User(c, SubWaits(c) \/ SubRefused(c) \/ SubTakes(c)))
  /\ \A d \in Drainers :
       /\ WF_vars(User(d, DrainCalled(d) \/ DrainBusy(d) \/ DrainTakes(d) \/ DrainEnds(d)))
       /\ SF_vars(User(d, DrainLocks(d)))
  /\ \A t \in Threads :
       SF_vars(User(t, Relock(t))) /\ WF_vars(User(t, CallEnds(t)))

Spec == Init /\ [][Next]_vars

LiveSpec == Spec /\ Fairness

-----------------------------------------------------------------------------
TypeOK ==
  /\ q \in Queues
  /\ mutex \in q.users \cup {None}
  /\ head \in 0..(q.maxsize - 1)
  /\ tail \in 0..(q.maxsize - 1)
  /\ cursize \in 0..q.maxsize
  /\ data \in [0..(q.maxsize - 1) -> 0..added]
  /\ pc \in [Threads -> States]
  /\ nowait \in [Threads -> BOOLEAN]
  /\ n_left \in [Drainers -> 0..q.maxsize]
  /\ added \in Nat

\* The elements in the ring, oldest first.
items == [i \in 1..cursize |-> data[(head + i - 1) % q.maxsize]]

Fifo == INSTANCE BoundedFifo WITH Values <- Elements, capacity <- q.maxsize

\* To its users the ring is a bounded FIFO, whichever of _add, _sub and _sub_raw
\* they call and however they interleave.
ImplementsFifo == Fifo!Spec

Sleeping(t) == pc[t] = "sleep"

\* No wakeup is lost between adders and subbers although they share one
\* condition variable and broadcasts are rare: whoever sleeps has a reason to.
\* (The session node wakes adders late; for its queue there is CallsEnd.)
NoLostWakeup ==
  q.users \cap Drainers = {} =>
  /\ \A p \in Adders : Sleeping(p) => IsFull
  /\ \A c \in Subbers : Sleeping(c) => cursize = 0

\* "min number of events we can dequeue without blocking": what the session node
\* read before it had the mutex is still there when it takes the events.
DrainNeverBlocks ==
  \A d \in Drainers : pc[d] = "drain" => n_left[d] <= cursize

\* One thread at a time is in the part of its call that the mutex protects.
MutexOwner ==
  \A t \in Threads : pc[t] \in {"body", "drain", "unlock"} <=> mutex = t

(***************************************************************************)
(* The inductive strengthening: tail is cursize places after head, what a  *)
(* drainer has read is there from the moment it reads it, and the bound    *)
(* on the elements counts the adders that are still in their calls.        *)
(***************************************************************************)
RingShape ==
  tail = IF head + cursize < q.maxsize THEN head + cursize ELSE head + cursize - q.maxsize

DrainCovered ==
  \A d \in Drainers : pc[d] # "idle" => d \in q.users /\ n_left[d] <= cursize

Adding == {p \in Adders : pc[p] \in {"body", "sleep", "woken"}}

AddsBounded ==
  added + Cardinality(Adding) <= q.maxsize + MoreAdds + Cardinality(Adders)

\* What every reachable state satisfies and every step preserves.
IInv ==
  /\ TypeOK
  /\ MutexOwner
  /\ RingShape
  /\ DrainCovered
  /\ NoLostWakeup
  /\ AddsBounded

\* A call of _add that is under way always ends, even if it waits for room in the
\* queue of a session node, whose rare broadcast is the only one to wake it.
CallsEnd == \A p \in Adders : pc[p] # "idle" ~> pc[p] = "idle"

\* Every element is taken in the end: no broadcast is used up by threads that can
\* do nothing with it while the readers sleep on.
ElementsTaken == cursize > 0 ~> cursize = 0
=============================================================================
