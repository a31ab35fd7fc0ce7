------------------------------- MODULE MsgRing -------------------------------
(***************************************************************************)
(* Message buffers of the binary API (vlibmemory/memory_shared.c): rings   *)
(* of fixed-size items in shared memory, one ring per size.  An allocator  *)
(* looks only at the head item of each ring that is large enough, smallest *)
(* first, and falls back to the heap.  Whoever has control of a buffer     *)
(* frees it by clearing its q field, without a lock.  An item that is in   *)
(* use each time an allocator passes by is taken for leaked once its mark  *)
(* is more than ten seconds old, and is given to the allocator.            *)
(*                                                                         *)
(* Modelled are the rings for clients, pool 0, which have a mutex each.    *)
(* Times are kept as ages: now - gc_mark_timestamp, not the time stamps.   *)
(***************************************************************************)
EXTENDS Integers, Sequences, FiniteSets

CONSTANTS
  Procs,       \* threads and processes that allocate and free messages
  Layouts,     \* layouts of the rings in ascending item size: the address of each
               \* ring's data, counted in items, and the number of its items
  GcAge,       \* ten seconds in vl_msg_api_alloc_internal
  HoldLimit,   \* seconds within which control of a message is given up
  None         \* a mutex is free

\* The items of a ring.
Places(q) == q.data..(q.data + q.nitems - 1)

\* vl_map_shmem gives each ring its own memory.
ASSUME LayoutsAssumption ==
  \A l \in Layouts :
    /\ l \in Seq([data : Nat, nitems : Nat \ {0}]) /\ l # <<>>
    /\ \A r, s \in DOMAIN l : r # s => Places(l[r]) \cap Places(l[s]) = {}
ASSUME AgesAssumption == GcAge \in Nat /\ HoldLimit \in Nat
ASSUME NoneAssumption == None \notin Procs

\* The rings of all the layouts.
Rings == UNION {DOMAIN l : l \in Layouts}

\* The items of all the rings.
Items == UNION {UNION {Places(l[r]) : r \in DOMAIN l} : l \in Layouts}

\* All the buffers of the heap together: their q field is 0, and a process may
\* have control of some of them or of none.
Heap == -1

Buffers == Items \cup {Heap}

VARIABLES
  layout,      \* the layout; never changes
  head,       \* q->head of each ring
  mutex,      \* who holds q->mutex of each ring
  in_use,     \* rv->q # 0
  mark,       \* age of gc_mark_timestamp in seconds, -1 when it is 0
  control,    \* who has control of each buffer
  held,       \* seconds since each item was handed out
  pc,         \* where each process is
  ring,       \* the ring its allocation is at, 1 outside of a call
  item        \* the item whose mark its free is about to clear, or Heap

vars == <<layout, head, mutex, in_use, mark, control, held, pc, ring, item>>

States == {"idle", "lock", "mark", "take", "unmark"}

Unmarked == -1

\* The age of a mark a second later; above GcAge one is as good as another.
Older(age) == IF age = Unmarked \/ age > GcAge THEN age ELSE age + 1

Init ==
  /\ layout \in Layouts
  /\ head = [r \in Rings |-> 0]
  /\ mutex = [r \in Rings |-> None]
  /\ in_use = [x \in Buffers |-> FALSE]
  /\ mark = [x \in Items |-> Unmarked]
  /\ control = [x \in Buffers |-> {}]
  /\ held = [x \in Buffers |-> 0]
  /\ pc = [p \in Procs |-> "idle"]
  /\ ring = [p \in Procs |-> 1]
  /\ item = [p \in Procs |-> Heap]

\* &q->data[0] + q->head * q->elsize
HeadItem(r) == layout[r].data + head[r]

-----------------------------------------------------------------------------
(***************************************************************************)
(* vl_msg_api_alloc_internal                                               *)
(***************************************************************************)

\* The loop skips the rings whose items are too small.
AllocCalled(p) ==
  /\ pc[p] = "idle"
  /\ \E r \in DOMAIN layout : ring' = [ring EXCEPT ![p] = r]
  /\ pc' = [pc EXCEPT ![p] = "lock"]
  /\ UNCHANGED <<layout, head, mutex, in_use, mark, control, held, item>>

\* Wrong: the item is taken whether it is in use or not.
MutAllocAnyway(p) ==
  /\ pc[p] = "lock"
  /\ mutex[ring[p]] = None
  /\ mutex' = [mutex EXCEPT ![ring[p]] = p]
  /\ pc' = [pc EXCEPT ![p] = "take"]
  /\ UNCHANGED <<layout, head, in_use, mark, control, held, ring, item>>

\* "Is this item still in use?" is the first question under the mutex.
AllocLocks(p) ==
  /\ pc[p] = "lock"
  /\ mutex[ring[p]] = None
  /\ mutex' = [mutex EXCEPT ![ring[p]] = p]
  /\ pc' = [pc EXCEPT ![p] = IF in_use[HeadItem(ring[p])] THEN "mark" ELSE "take"]
  /\ UNCHANGED <<layout, head, in_use, mark, control, held, ring, item>>

\* "Fall back to shared-memory malloc": the caller has control of a buffer from
\* the heap, or, where it may, returns without one.  Bound: one of them at a time.
HeapAlloc(p) ==
  /\ pc' = [pc EXCEPT ![p] = "idle"]
  /\ \/ control[Heap] = {} /\ control' = [control EXCEPT ![Heap] = {p}]
     \/ UNCHANGED control

\* "Request too big": every ring is skipped.
AllocTooBig(p) ==
  /\ pc[p] = "idle"
  /\ HeapAlloc(p)
  /\ UNCHANGED <<layout, head, mutex, in_use, mark, held, ring, item>>

\* "yes, loser; try next larger pool"; after the last one the heap.
NextRing(p) ==
  /\ mutex' = [mutex EXCEPT ![ring[p]] = None]
  /\ \/ /\ ring[p] = Len(layout)
        /\ HeapAlloc(p)
        /\ ring' = [ring EXCEPT ![p] = 1]
     \/ /\ ring[p] < Len(layout)
        /\ pc' = [pc EXCEPT ![p] = "lock"]
        /\ ring' = [ring EXCEPT ![p] = @ + 1]
        /\ UNCHANGED control
  /\ UNCHANGED <<layout, head, in_use, held, item>>

\* The first allocator to pass by marks the item.
AllocMarks(p) ==
  LET x == HeadItem(ring[p]) IN
  /\ pc[p] = "mark"
  /\ mark[x] = Unmarked
  /\ mark' = [mark EXCEPT ![x] = 0]
  /\ NextRing(p)

\* Wrong: no item is ever taken back.
MutNeverCollects(p) ==
  LET x == HeadItem(ring[p]) IN
  /\ pc[p] = "mark"
  /\ mark[x] # Unmarked
  /\ NextRing(p)
  /\ UNCHANGED mark

\* The mark is young.
AllocPassesBy(p) ==
  LET x == HeadItem(ring[p]) IN
  /\ pc[p] = "mark"
  /\ mark[x] # Unmarked
  /\ ~(mark[x] > GcAge)
  /\ NextRing(p)
  /\ UNCHANGED mark

\* The mark is old: "garbage collect pool %d ring %d index %d"
AllocCollects(p) ==
  LET x == HeadItem(ring[p]) IN
  /\ pc[p] = "mark"
  /\ mark[x] > GcAge
  /\ pc' = [pc EXCEPT ![p] = "take"]
  /\ UNCHANGED <<layout, head, mutex, in_use, mark, control, held, ring, item>>

\* Wrong: the head runs one past the end of the ring.
MutHeadWrap(p) ==
  LET r == ring[p]
      x == HeadItem(r)
  IN
  /\ pc[p] = "take"
  /\ in_use' = [in_use EXCEPT ![x] = TRUE]
  /\ mark' = [mark EXCEPT ![x] = Unmarked]
  /\ head' = [head EXCEPT ![r] = IF @ = layout[r].nitems THEN 0 ELSE @ + 1]
  /\ mutex' = [mutex EXCEPT ![r] = None]
  /\ control' = [control EXCEPT ![x] = @ \cup {p}]
  /\ held' = [held EXCEPT ![x] = 0]
  /\ pc' = [pc EXCEPT ![p] = "idle"]
  /\ ring' = [ring EXCEPT ![p] = 1]
  /\ UNCHANGED <<layout, item>>

\* "OK, we have a winner"
AllocTakes(p) ==
  LET r == ring[p]
      x == HeadItem(r)
  IN
  /\ pc[p] = "take"
  /\ in_use' = [in_use EXCEPT ![x] = TRUE]
  /\ mark' = [mark EXCEPT ![x] = Unmarked]
  /\ head' = [head EXCEPT ![r] = IF @ + 1 = layout[r].nitems THEN 0 ELSE @ + 1]
  /\ mutex' = [mutex EXCEPT ![r] = None]
  /\ control' = [control EXCEPT ![x] = @ \cup {p}]
  /\ held' = [held EXCEPT ![x] = 0]
  /\ pc' = [pc EXCEPT ![p] = "idle"]
  /\ ring' = [ring EXCEPT ![p] = 1]
  /\ UNCHANGED <<layout, item>>

Alloc(p) ==
  \/ AllocLocks(p) \/ AllocMarks(p) \/ AllocPassesBy(p)
  \/ AllocCollects(p) \/ AllocTakes(p)

-----------------------------------------------------------------------------
(***************************************************************************)
(* vl_msg_api_free, vl_msg_api_free_nolock                                 *)
(***************************************************************************)

GivesUp(p, x) ==
  /\ pc[p] = "idle"
  /\ p \in control[x]
  /\ control' = [control EXCEPT ![x] = @ \ {p}]
  /\ held' = [held EXCEPT ![x] = 0]

\* "we just clear the queue field"; vl_msg_api_free then clears the mark.
FreeClears(p, x) ==
  /\ GivesUp(p, x)
  /\ in_use[x]
  /\ in_use' = [in_use EXCEPT ![x] = FALSE]
  /\ item' = [item EXCEPT ![p] = x]
  /\ pc' = [pc EXCEPT ![p] = "unmark"]
  /\ UNCHANGED <<layout, head, mutex, mark, ring>>

\* Wrong: the queue field is cleared once more.
MutUnmarkClears(p) ==
  /\ pc[p] = "unmark"
  /\ mark' = [mark EXCEPT ![item[p]] = Unmarked]
  /\ in_use' = [in_use EXCEPT ![item[p]] = FALSE]
  /\ pc' = [pc EXCEPT ![p] = "idle"]
  /\ item' = [item EXCEPT ![p] = Heap]
  /\ UNCHANGED <<layout, head, mutex, control, held, ring>>

FreeUnmarks(p) ==
  /\ pc[p] = "unmark"
  /\ mark' = [mark EXCEPT ![item[p]] = Unmarked]
  /\ pc' = [pc EXCEPT ![p] = "idle"]
  /\ item' = [item EXCEPT ![p] = Heap]
  /\ UNCHANGED <<layout, head, mutex, in_use, control, held, ring>>

\* vl_msg_api_free_nolock leaves the mark as it is.
FreeNolock(p, x) ==
  /\ GivesUp(p, x)
  /\ in_use[x]
  /\ in_use' = [in_use EXCEPT ![x] = FALSE]
  /\ UNCHANGED <<layout, head, mutex, mark, pc, ring, item>>

\* The q field is clear: the buffer is from the heap, or taken for one.
FreeToHeap(p, x) ==
  /\ GivesUp(p, x)
  /\ ~in_use[x]
  /\ UNCHANGED <<layout, head, mutex, in_use, mark, pc, ring, item>>

Free(p, x) == FreeClears(p, x) \/ FreeNolock(p, x) \/ FreeToHeap(p, x)

\* A process dies, or forgets the message: nobody has control of it any more.
Leak(p, x) ==
  /\ GivesUp(p, x)
  /\ UNCHANGED <<layout, head, mutex, in_use, mark, pc, ring, item>>

\* A second passes, unless somebody has yet to give up a message.
Tick ==
  /\ \A x \in Items : control[x] # {} => held[x] < HoldLimit
  /\ mark' = [x \in Items |-> Older(mark[x])]
  /\ held' = [x \in Buffers |->
                IF x = Heap \/ control[x] = {} THEN 0 ELSE held[x] + 1]
  /\ UNCHANGED <<layout, head, mutex, in_use, control, pc, ring, item>>

Next ==
  \/ Tick
  \/ \E p \in Procs :
       \/ AllocCalled(p) \/ AllocTooBig(p) \/ Alloc(p) \/ FreeUnmarks(p)
       \/ \E x \in Buffers : Free(p, x) \/ Leak(p, x)

(***************************************************************************)
(* Time passes, calls that have begun go on, messages are given up, and    *)
(* messages of every size keep being asked for.                            *)
(***************************************************************************)
Fairness ==
  /\ WF_vars(Tick)
  /\ \A p \in Procs : SF_vars(Alloc(p) \/ FreeUnmarks(p))
  /\ \A x \in Items : SF_vars(\E p \in Procs : Free(p, x))
  /\ \A r \in Rings : SF_vars(\E p \in Procs : AllocCalled(p) /\ ring'[p] = r)

Spec == Init /\ [][Next]_vars

LiveSpec == Spec /\ Fairness

-----------------------------------------------------------------------------
TypeOK ==
  /\ layout \in Layouts
  /\ head \in [Rings -> Nat]
  /\ \A r \in DOMAIN layout : head[r] \in 0..(layout[r].nitems - 1)
  /\ mutex \in [Rings -> Procs \cup {None}]
  /\ in_use \in [Buffers -> BOOLEAN]
  /\ mark \in [Items -> -1..(GcAge + 1)]
  /\ control \in [Buffers -> SUBSET Procs]
  /\ held \in [Buffers -> 0..HoldLimit]
  /\ pc \in [Procs -> States]
  /\ ring \in [Procs -> DOMAIN layout]
  /\ item \in [Procs -> Buffers]

\* "Only one proc/thread has control of a given message buffer."
SingleControl == \A x \in Items : Cardinality(control[x]) <= 1

\* A message somebody has control of is marked as in use, so that clearing its q
\* field is all it takes to free it and no ring item goes to clib_mem_free.
ControlledInUse == \A x \in Items : control[x] # {} => in_use[x]

(***************************************************************************)
(* The inductive strengthening, for HoldLimit <= GcAge: an allocator under *)
(* the mutex of a ring is the only one there, an item it is about to take  *)
(* is under nobody's control, and the mark of an item under control is no  *)
(* older than the control.                                                 *)
(***************************************************************************)
RingOwner ==
  \A p \in Procs, r \in Rings :
    mutex[r] = p <=> pc[p] \in {"mark", "take"} /\ ring[p] = r

AboutToTake ==
  \A p \in Procs : pc[p] = "take" => control[HeadItem(ring[p])] = {}

MarkYounger == \A x \in Items : control[x] # {} => mark[x] <= held[x]

SoleControl == \A x \in Items : \A p, q \in control[x] : p = q

\* What every reachable state satisfies and every step preserves.
IInv ==
  /\ TypeOK
  /\ RingOwner
  /\ AboutToTake
  /\ MarkYounger
  /\ SoleControl
  /\ ControlledInUse

\* An item whose holder is gone is not lost: as long as messages are asked for
\* it is handed out again.
LeakReclaimed ==
  \A x \in Items : in_use[x] /\ control[x] = {} ~> control[x] # {}
=============================================================================
