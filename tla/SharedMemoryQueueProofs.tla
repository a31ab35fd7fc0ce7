----------------------- MODULE SharedMemoryQueueProofs -----------------------
(***************************************************************************)
(* For any threads, any queue size and any use of nowait: a shared memory  *)
(* queue is a bounded first-in first-out queue, no wakeup is lost between  *)
(* adders and subbers, and the session node finds the events it has seen.  *)
(***************************************************************************)
EXTENDS SharedMemoryQueue, FiniteSetTheorems, SequenceTheorems, TLAPS

\* What QueuesAssumption says about the queue at hand.
LEMMA QueueType ==
  ASSUME q \in Queues
  PROVE  /\ q.maxsize \in Nat /\ q.maxsize > 0
         /\ q.users \subseteq Threads
         /\ q.nowait \subseteq BOOLEAN
         /\ \A d \in Drainers, c \in Subbers \cup Drainers :
              d \in q.users /\ c \in q.users => c = d
<1>1. q \in [maxsize : Nat \ {0}, users : SUBSET Threads,
             nowait : SUBSET BOOLEAN, spurious : SUBSET Threads]
  BY QueuesAssumption
<1>2. \A d \in q.users \cap Drainers : q.users \cap (Subbers \cup Drainers) = {d}
  BY QueuesAssumption
<1>3. \A d \in Drainers, c \in Subbers \cup Drainers :
        d \in q.users /\ c \in q.users => c = d
  BY <1>2
<1>. QED
  BY <1>1, <1>3

-----------------------------------------------------------------------------
(***************************************************************************)
(* Adders in their calls                                                   *)
(***************************************************************************)

\* The adders in a call are a finite set, no larger than Adders.
LEMMA AddingFinite ==
  /\ IsFiniteSet(Adding) /\ Cardinality(Adding) \in Nat
  /\ Cardinality(Adders) \in Nat /\ Cardinality(Adding) <= Cardinality(Adders)
<1>1. Adding \subseteq Adders
  BY DEF Adding
<1>. QED
  BY <1>1, ThreadsAssumption, FS_Subset, FS_CardinalityType

\* The same in the state after a step.
LEMMA AddingFinitePrime ==
  /\ IsFiniteSet(Adding') /\ Cardinality(Adding') \in Nat
  /\ Cardinality(Adding') <= Cardinality(Adders)
<1>1. Adding' \subseteq Adders
  BY DEF Adding
<1>. QED
  BY <1>1, ThreadsAssumption, FS_Subset, FS_CardinalityType

\* The bound survives a step after which no more adders are in their calls.
LEMMA BoundKept ==
  ASSUME TypeOK, AddsBounded, Adding' \subseteq Adding, UNCHANGED <<q, added>>
  PROVE  AddsBounded'
<1>1. Cardinality(Adding') <= Cardinality(Adding)
  BY AddingFinite, FS_Subset
<1>2. q.maxsize \in Nat /\ added \in Nat
  BY QueueType DEF TypeOK
<1>. QED
  BY <1>1, <1>2, AddingFinite, AddingFinitePrime, MoreAddsAssumption DEF AddsBounded

\* An adder that stores its element is no longer in its call.
LEMMA BoundStores ==
  ASSUME TypeOK, AddsBounded, NEW p \in Adding, Adding' \subseteq Adding \ {p},
         added' = added + 1, UNCHANGED q
  PROVE  AddsBounded' /\ added + 1 <= q.maxsize + MoreAdds + Cardinality(Adders)
<1>1. /\ IsFiniteSet(Adding \ {p})
      /\ Cardinality(Adding \ {p}) = Cardinality(Adding) - 1
  BY AddingFinite, FS_RemoveElement
<1>2. Cardinality(Adding') <= Cardinality(Adding \ {p})
  BY <1>1, FS_Subset
<1>. QED
  BY SMTT(30), <1>1, <1>2, AddingFinite, AddingFinitePrime, MoreAddsAssumption, QueueType
     DEF TypeOK, AddsBounded

\* An adder may begin a call while the bound is not reached.
LEMMA BoundBegins ==
  ASSUME TypeOK, added < q.maxsize + MoreAdds, UNCHANGED <<q, added>>
  PROVE  AddsBounded'
  BY AddingFinite, AddingFinitePrime, MoreAddsAssumption, QueueType
     DEF TypeOK, AddsBounded

-----------------------------------------------------------------------------
(***************************************************************************)
(* The steps                                                               *)
(***************************************************************************)

\* A new queue is empty and nobody uses it.
LEMMA InitIInv == Init => IInv
<1>. SUFFICES ASSUME Init PROVE IInv
  OBVIOUS
<1>1. Adding = {}
  BY DEF Init, Adding, Threads
<1>2. AddsBounded
  <2>1. q.maxsize \in Nat /\ added = 0 /\ Cardinality(Adding) = 0
    BY <1>1, QueueType, FS_EmptySet DEF Init
  <2>. QED
    BY <2>1, AddingFinite, MoreAddsAssumption DEF AddsBounded
<1>3. nowait \in [Threads -> BOOLEAN]
  BY Zenon DEF Init
<1>4. TypeOK
  BY <1>3, QueueType DEF Init, TypeOK, States
<1>5. MutexOwner
  BY ThreadsAssumption DEF Init, MutexOwner, Threads
<1>. QED
  BY <1>2, <1>4, <1>5, QueueType
     DEF Init, IInv, RingShape, DrainCovered, NoLostWakeup, Sleeping, Threads

\* The tests of the two loops around pthread_cond_wait.
MayWait(t) ==
  \/ t \in Adders /\ IsFull
  \/ t \in Subbers /\ cursize = 0

\* Threads that leave the ring alone: one that takes, gives back or waits for the
\* mutex, wakes up, or broadcasts.  A thread falls asleep only when the test of its
\* loop says so.
LEMMA ThreadIInv ==
  ASSUME IInv, UNCHANGED <<q, ring, added>>,
         pc' \in [Threads -> States],
         \A u \in Threads : pc'[u] = "sleep" =>
           pc[u] = "sleep" \/ MayWait(u) \/ u \in Drainers,
         mutex' \in q.users \cup {None}, MutexOwner',
         nowait' \in [Threads -> BOOLEAN],
         n_left' \in [Drainers -> 0..q.maxsize],
         DrainCovered', AddsBounded'
  PROVE  IInv'
<1>1. TypeOK'
  BY DEF IInv, TypeOK, ring
<1>2. RingShape'
  BY DEF IInv, RingShape, ring
<1>3. NoLostWakeup'
  BY ThreadsAssumption DEF IInv, NoLostWakeup, Sleeping, ring, IsFull, Threads, MayWait
<1>. QED
  BY <1>1, <1>2, <1>3 DEF IInv

\* A thread whose step moves only itself, with its mutex.
LEMMA MoveIInv ==
  ASSUME IInv, UNCHANGED <<q, ring, added>>,
         NEW t \in q.users, NEW to \in States, pc' = [pc EXCEPT ![t] = to],
         to = "sleep" => pc[t] = "sleep" \/ MayWait(t),
         \/ mutex = None /\ mutex' = t /\ to \in {"body", "drain", "unlock"}
         \/ mutex = t /\ mutex' = None /\ to \notin {"body", "drain", "unlock"}
         \/ mutex' = mutex
              /\ (pc[t] \in {"body", "drain", "unlock"} <=> to \in {"body", "drain", "unlock"}),
         nowait' \in [Threads -> BOOLEAN],
         n_left' \in [Drainers -> 0..q.maxsize],
         t \in Drainers => n_left'[t] <= cursize,
         \A d \in Drainers \ {t} : n_left'[d] = n_left[d],
         \/ AddsBounded'
         \/ to \in {"body", "sleep", "woken"} => pc[t] \in {"body", "sleep", "woken"}
         \/ t \notin Adders
  PROVE  IInv'
<1>0. t \in Threads /\ pc \in [Threads -> States] /\ None \notin Threads
  BY QueueType, ThreadsAssumption DEF IInv, TypeOK, Threads
<1>1. pc' \in [Threads -> States]
  BY <1>0
<1>2. MutexOwner'
  BY <1>0 DEF IInv, MutexOwner
<1>3. DrainCovered'
  BY <1>0 DEF IInv, DrainCovered, ring, Threads
<1>4. AddsBounded'
  <2>1. CASE to \in {"body", "sleep", "woken"} => pc[t] \in {"body", "sleep", "woken"}
    <3>1. Adding' \subseteq Adding
      BY <1>0, <2>1 DEF Adding, Threads
    <3>. QED
      BY <3>1, BoundKept DEF IInv
  <2>2. CASE t \notin Adders
    <3>1. Adding' \subseteq Adding
      BY <1>0, <2>2 DEF Adding, Threads
    <3>. QED
      BY <3>1, BoundKept DEF IInv
  <2>. QED
    BY <2>1, <2>2
<1>5. mutex' \in q.users \cup {None}
  BY DEF IInv, TypeOK
<1>6. \A u \in Threads : pc'[u] = "sleep" =>
        pc[u] = "sleep" \/ MayWait(u) \/ u \in Drainers
  BY <1>0
<1>. QED
  BY <1>1, <1>2, <1>3, <1>4, <1>5, <1>6, ThreadIInv

\* Broadcast moves its caller and wakes sleepers; it neither takes nor gives the
\* mutex and puts nobody to sleep.
LEMMA BroadcastMoves ==
  ASSUME IInv, NEW cond, NEW t \in Threads, NEW to \in States, to # "sleep",
         Broadcast(cond, t, to), mutex' = mutex,
         pc[t] \in {"body", "drain", "unlock"}, to \in {"body", "drain", "unlock"}
  PROVE  /\ pc' \in [Threads -> States]
         /\ MutexOwner'
         /\ \A u \in Threads : pc'[u] = "sleep" => pc[u] = "sleep"
         /\ \A u \in Threads : cond => pc'[u] # "sleep"
         /\ \A u \in Threads : pc'[u] = "idle" <=> pc[u] = "idle"
         /\ \A u \in Threads \ {t} :
              pc'[u] \in {"body", "sleep", "woken"} <=> pc[u] \in {"body", "sleep", "woken"}
<1>1. pc \in [Threads -> States]
  BY DEF IInv, TypeOK
<1>2. pc' \in [Threads -> States]
  BY <1>1 DEF Broadcast, States
<1>3. \A u \in Threads :
        pc'[u] = IF u = t THEN to
                 ELSE IF cond /\ pc[u] = "sleep" THEN "woken" ELSE pc[u]
  BY DEF Broadcast
<1>. QED
  BY <1>2, <1>3 DEF IInv, MutexOwner

\* A thread that wakes up, and one whose call ends.
LEMMA AnyIInv ==
  ASSUME IInv, NEW t \in Threads, User(t, Relock(t) \/ CallEnds(t) \/ SpuriousWakeup(t))
  PROVE  IInv'
<1>1. /\ UNCHANGED <<q, ring, added, nowait, n_left>> /\ t \in q.users
      /\ nowait \in [Threads -> BOOLEAN] /\ n_left \in [Drainers -> 0..q.maxsize]
  BY DEF User, Relock, CallEnds, SpuriousWakeup, IInv, TypeOK
<1>2. pc[t] # "idle"
  BY DEF User, Relock, CallEnds, SpuriousWakeup
<1>3. t \in Drainers => n_left'[t] <= cursize
  BY <1>1, <1>2 DEF IInv, DrainCovered
<1>4. nowait' \in [Threads -> BOOLEAN]
  BY <1>1, Zenon
<1>5. n_left' \in [Drainers -> 0..q.maxsize] /\ \A d \in Drainers : n_left'[d] = n_left[d]
  BY <1>1
<1>6. CASE Relock(t)
  BY <1>1, <1>3, <1>4, <1>5, <1>6, MoveIInv DEF Relock, Lock, States
<1>7. CASE CallEnds(t)
  <2>1. mutex = t
    BY <1>7 DEF CallEnds, IInv, MutexOwner
  <2>. QED
    BY <1>1, <1>3, <1>4, <1>5, <1>7, <2>1, MoveIInv DEF CallEnds, Unlock, States
<1>8. CASE SpuriousWakeup(t)
  BY <1>1, <1>3, <1>4, <1>5, <1>8, MoveIInv DEF SpuriousWakeup, States
<1>. QED
  BY <1>6, <1>7, <1>8 DEF User

\* The argument nowait of a call, and its type.
LEMMA NowaitType ==
  ASSUME IInv, NEW t \in Threads, \E b \in q.nowait : nowait' = [nowait EXCEPT ![t] = b]
  PROVE  nowait' \in [Threads -> BOOLEAN]
<1>1. nowait \in [Threads -> BOOLEAN] /\ q.nowait \subseteq BOOLEAN
  BY QueueType DEF IInv, TypeOK
<1>. QED
  BY <1>1

\* The steps of _add and _sub that leave the ring alone.
LEMMA CallIInv ==
  ASSUME IInv, NEW t \in q.users,
         \/ t \in Adders /\ (AddCalled(t) \/ AddWaits(t) \/ AddRefused(t))
         \/ t \in Subbers /\ (SubCalled(t) \/ SubWaits(t) \/ SubRefused(t)),
         UNCHANGED q
  PROVE  IInv'
<1>. USE DEF States, Lock, Unlock, CondWait
<1>1. /\ UNCHANGED <<ring, added, n_left>> /\ t \in Threads /\ t \notin Drainers
      /\ n_left' \in [Drainers -> 0..q.maxsize]
      /\ \A d \in Drainers : n_left'[d] = n_left[d]
  BY ThreadsAssumption
     DEF IInv, TypeOK, Threads, AddCalled, AddWaits, AddRefused, SubCalled, SubWaits,
         SubRefused
<1>2. pc[t] = "body" => mutex = t
  BY <1>1 DEF IInv, MutexOwner
<1>3. nowait' \in [Threads -> BOOLEAN]
  <2>1. CASE UNCHANGED nowait
    BY <2>1 DEF IInv, TypeOK
  <2>2. CASE \E b \in q.nowait : nowait' = [nowait EXCEPT ![t] = b]
    BY <1>1, <2>2, NowaitType
  <2>. QED
    BY <2>1, <2>2 DEF AddCalled, AddWaits, AddRefused, SubCalled, SubWaits, SubRefused
<1>4. CASE t \in Adders /\ AddCalled(t)
  <2>1. AddsBounded'
    BY <1>4, BoundBegins DEF AddCalled, IInv
  <2>. QED
    BY <1>1, <1>3, <1>4, <2>1, MoveIInv DEF AddCalled
<1>5. CASE t \in Adders /\ AddWaits(t)
  <2>1. /\ mutex = t /\ mutex' = None /\ MayWait(t)
        /\ pc[t] = "body" /\ pc' = [pc EXCEPT ![t] = "sleep"]
    BY <1>2, <1>5 DEF AddWaits, MayWait
  <2>. QED
    BY <1>1, <1>3, <2>1, MoveIInv
<1>6. CASE t \in Adders /\ AddRefused(t)
  BY <1>1, <1>2, <1>3, <1>6, MoveIInv DEF AddRefused
<1>7. CASE t \in Subbers /\ SubCalled(t)
  <2>1. t \notin Adders
    BY <1>7, ThreadsAssumption
  <2>. QED
    BY <1>1, <1>3, <1>7, <2>1, MoveIInv DEF SubCalled
<1>8. CASE t \in Subbers /\ SubWaits(t)
  <2>1. /\ mutex = t /\ mutex' = None /\ MayWait(t)
        /\ pc[t] = "body" /\ pc' = [pc EXCEPT ![t] = "sleep"]
    BY <1>2, <1>8 DEF SubWaits, MayWait
  <2>. QED
    BY <1>1, <1>3, <2>1, MoveIInv
<1>9. CASE t \in Subbers /\ SubRefused(t)
  BY <1>1, <1>2, <1>3, <1>9, MoveIInv DEF SubRefused
<1>. QED
  BY <1>4, <1>5, <1>6, <1>7, <1>8, <1>9

\* The steps of session_queue_node_fn that leave the ring alone.
LEMMA DrainCallIInv ==
  ASSUME IInv, NEW d \in Drainers, d \in q.users,
         DrainCalled(d) \/ DrainBusy(d) \/ DrainLocks(d) \/ DrainEnds(d),
         UNCHANGED q
  PROVE  IInv'
<1>. USE DEF States
<1>1. /\ UNCHANGED <<ring, added>> /\ d \in Threads /\ d \notin Adders
      /\ q.maxsize \in Nat /\ cursize \in 0..q.maxsize
      /\ n_left \in [Drainers -> 0..q.maxsize]
  BY ThreadsAssumption, QueueType
     DEF IInv, TypeOK, Threads, DrainCalled, DrainBusy, DrainLocks, DrainEnds
<1>2. nowait' \in [Threads -> BOOLEAN]
  <2>1. UNCHANGED nowait /\ nowait \in [Threads -> BOOLEAN]
    BY DEF DrainCalled, DrainBusy, DrainLocks, DrainEnds, IInv, TypeOK
  <2>. QED
    BY <2>1, Zenon
<1>3. pc[d] # "idle" => n_left[d] <= cursize
  BY DEF IInv, DrainCovered
<1>4. CASE DrainCalled(d)
  <2>1. /\ n_left' \in [Drainers -> 0..q.maxsize] /\ n_left'[d] <= cursize
        /\ \A e \in Drainers \ {d} : n_left'[e] = n_left[e]
    BY <1>1, <1>4 DEF DrainCalled
  <2>. QED
    BY <1>1, <1>2, <1>4, <2>1, MoveIInv DEF DrainCalled
<1>5. CASE DrainBusy(d)
  <2>1. /\ n_left' \in [Drainers -> 0..q.maxsize] /\ n_left'[d] <= cursize
        /\ \A e \in Drainers \ {d} : n_left'[e] = n_left[e]
    BY <1>1, <1>5 DEF DrainBusy
  <2>. QED
    BY <1>1, <1>2, <1>5, <2>1, MoveIInv DEF DrainBusy
<1>6. CASE DrainLocks(d)
  BY <1>1, <1>2, <1>3, <1>6, MoveIInv DEF DrainLocks, Lock
<1>7. CASE DrainEnds(d)
  <2>1. /\ pc' \in [Threads -> States]
        /\ MutexOwner'
        /\ \A u \in Threads : pc'[u] = "sleep" => pc[u] = "sleep"
        /\ \A u \in Threads : pc'[u] = "idle" <=> pc[u] = "idle"
        /\ \A u \in Threads \ {d} :
             pc'[u] \in {"body", "sleep", "woken"} <=> pc[u] \in {"body", "sleep", "woken"}
    BY <1>1, <1>7, BroadcastMoves DEF DrainEnds
  <2>2. Adding' \subseteq Adding
    BY <1>1, <2>1 DEF Adding, Threads
  <2>3. AddsBounded'
    BY <1>1, <2>2, BoundKept DEF IInv
  <2>4. DrainCovered'
    BY <1>1, <1>7, <2>1 DEF IInv, DrainCovered, DrainEnds, ring, Threads
  <2>5. mutex' \in q.users \cup {None}
    BY <1>7 DEF IInv, TypeOK, DrainEnds
  <2>6. n_left' \in [Drainers -> 0..q.maxsize]
    BY <1>1, <1>7 DEF DrainEnds
  <2>. QED
    BY <1>1, <1>2, <2>1, <2>3, <2>4, <2>5, <2>6, ThreadIInv
<1>. QED
  BY <1>4, <1>5, <1>6, <1>7

-----------------------------------------------------------------------------
(***************************************************************************)
(* The ring                                                                *)
(***************************************************************************)

\* The place of the i-th element, counted from the head: the remainder is taken at
\* most once.
LEMMA Wrap ==
  ASSUME NEW m \in Nat, m > 0, NEW h \in 0..(m - 1), NEW i \in 1..m
  PROVE  (h + i - 1) % m = IF h + i - 1 < m THEN h + i - 1 ELSE h + i - 1 - m
  OBVIOUS

\* The element after the head is the first one once the head has moved.
LEMMA WrapNext ==
  ASSUME NEW m \in Nat, m > 0, NEW h \in 0..(m - 1), NEW i \in 1..(m - 1),
         NEW g, g = IF h + 1 = m THEN 0 ELSE h + 1
  PROVE  (g + i - 1) % m = (h + (i + 1) - 1) % m
<1>1. g \in 0..(m - 1) /\ i \in 1..m /\ i + 1 \in 1..m
  OBVIOUS
<1>2. (g + i - 1) % m = IF g + i - 1 < m THEN g + i - 1 ELSE g + i - 1 - m
  BY <1>1, Wrap
<1>3. (h + (i + 1) - 1) % m = IF h + i < m THEN h + i ELSE h + i - m
  BY <1>1, Wrap
<1>. QED
  BY <1>1, <1>2, <1>3

\* The place after the last element holds none of the elements.
LEMMA WrapApart ==
  ASSUME NEW m \in Nat, m > 0, NEW h \in 0..(m - 1), NEW c \in 0..(m - 1), NEW i \in 1..c,
         NEW t, t = IF h + c < m THEN h + c ELSE h + c - m
  PROVE  (h + i - 1) % m \in 0..(m - 1) \ {t}
<1>1. i \in 1..m
  OBVIOUS
<1>2. (h + i - 1) % m = IF h + i - 1 < m THEN h + i - 1 ELSE h + i - 1 - m
  BY <1>1, Wrap
<1>3. CASE h + i - 1 < m
  BY <1>2, <1>3
<1>4. CASE h + i - 1 >= m
  BY <1>2, <1>4
<1>. QED
  BY <1>3, <1>4

\* The facts about the ring that the steps below share.
LEMMA RingFacts ==
  ASSUME IInv
  PROVE  /\ q.maxsize \in Nat /\ q.maxsize > 0
         /\ head \in 0..(q.maxsize - 1) /\ tail \in 0..(q.maxsize - 1)
         /\ cursize \in 0..q.maxsize
  BY QueueType DEF IInv, TypeOK

\* The elements in the ring are a sequence of cursize elements.
LEMMA ItemsType ==
  ASSUME IInv
  PROVE  items \in Seq(0..added) /\ Len(items) = cursize
<1>1. data \in [0..(q.maxsize - 1) -> 0..added]
  BY DEF IInv, TypeOK
<1>2. \A i \in 1..cursize : (head + i - 1) % q.maxsize \in 0..(q.maxsize - 1)
  BY RingFacts
<1>3. items \in [1..cursize -> 0..added] /\ cursize \in Nat
  BY <1>1, <1>2, RingFacts DEF items
<1>4. items \in Seq(0..added)
  BY <1>3, SeqDef
<1>5. DOMAIN items = 1..cursize /\ DOMAIN items = 1..Len(items) /\ Len(items) \in Nat
  BY <1>3, <1>4, LenProperties
<1>. QED
  BY <1>3, <1>4, <1>5

\* What taking the head does to the ring, in numbers and as a sequence.
LEMMA TakeHeadRing ==
  ASSUME IInv, TakeHead, cursize # 0, UNCHANGED q
  PROVE  /\ head' \in 0..(q.maxsize - 1) /\ cursize' \in 0..q.maxsize
         /\ cursize' = cursize - 1
         /\ RingShape'
         /\ items # <<>> /\ items' = Tail(items)
<1>1. /\ head' \in 0..(q.maxsize - 1) /\ cursize' \in 0..q.maxsize
      /\ cursize' = cursize - 1 /\ cursize \in 1..q.maxsize
      /\ head' = IF head + 1 = q.maxsize THEN 0 ELSE head + 1
      /\ data' = data /\ tail' = tail
  BY RingFacts DEF TakeHead
<1>2. RingShape'
  <2>1. tail = IF head + cursize < q.maxsize THEN head + cursize ELSE head + cursize - q.maxsize
    BY DEF IInv, RingShape
  <2>. QED
    BY <1>1, <2>1, RingFacts DEF RingShape
<1>3. ASSUME NEW i \in 1..cursize'
      PROVE  (head' + i - 1) % q.maxsize = (head + (i + 1) - 1) % q.maxsize
  <2>1. i \in 1..(q.maxsize - 1)
    BY <1>1, RingFacts
  <2>. QED
    BY <1>1, <2>1, RingFacts, WrapNext
<1>4. items' = [i \in 1..(cursize - 1) |-> items[i + 1]]
  <2>1. \A i \in 1..(cursize - 1) : i + 1 \in 1..cursize
    BY <1>1, RingFacts
  <2>2. \A i \in 1..(cursize - 1) : items[i + 1] = data[(head + (i + 1) - 1) % q.maxsize]
    BY <2>1 DEF items
  <2>3. items' = [i \in 1..(cursize - 1) |-> data[(head' + i - 1) % q.maxsize]]
    BY <1>1 DEF items
  <2>4. \A i \in 1..(cursize - 1) :
          data[(head' + i - 1) % q.maxsize] = data[(head + (i + 1) - 1) % q.maxsize]
    BY <1>1, <1>3
  <2>. QED
    BY <2>2, <2>3, <2>4
<1>5. items # <<>> /\ items \in Seq(0..added) /\ Len(items) = cursize
  BY <1>1, ItemsType, EmptySeq
<1>6. /\ Tail(items) \in [1..Len(Tail(items)) -> 0..added]
      /\ Len(Tail(items)) = cursize - 1
      /\ \A i \in 1..Len(Tail(items)) : Tail(items)[i] = items[i + 1]
  BY <1>5, HeadTailProperties, LenProperties
<1>7. Tail(items) = [i \in 1..(cursize - 1) |-> items[i + 1]]
  BY <1>6
<1>. QED
  BY <1>1, <1>2, <1>4, <1>5, <1>7

\* What storing an element does to the ring, in numbers and as a sequence.
LEMMA StoreRing ==
  ASSUME IInv, ~IsFull, UNCHANGED <<q, head>>,
         data' = [data EXCEPT ![tail] = added + 1],
         tail' = IF tail + 1 = q.maxsize THEN 0 ELSE tail + 1,
         cursize' = cursize + 1
  PROVE  /\ tail' \in 0..(q.maxsize - 1) /\ cursize' \in 0..q.maxsize
         /\ RingShape'
         /\ Len(items) < q.maxsize /\ items' = Append(items, added + 1)
<1>1. /\ tail' \in 0..(q.maxsize - 1) /\ cursize' \in 0..q.maxsize
      /\ cursize < q.maxsize
      /\ tail = IF head + cursize < q.maxsize THEN head + cursize
                                             ELSE head + cursize - q.maxsize
  BY RingFacts DEF IsFull, IInv, RingShape
<1>2. RingShape'
  BY <1>1, RingFacts DEF RingShape
<1>3. (head + (cursize + 1) - 1) % q.maxsize = tail
  <2>1. cursize + 1 \in 1..q.maxsize
    BY <1>1, RingFacts
  <2>2. (head + (cursize + 1) - 1) % q.maxsize =
          IF head + (cursize + 1) - 1 < q.maxsize THEN head + (cursize + 1) - 1
          ELSE head + (cursize + 1) - 1 - q.maxsize
    BY <2>1, RingFacts, Wrap
  <2>. QED
    BY <1>1, <2>2, RingFacts
<1>4. ASSUME NEW i \in 1..cursize
      PROVE  (head + i - 1) % q.maxsize \in 0..(q.maxsize - 1) \ {tail}
  <2>1. cursize \in 0..(q.maxsize - 1)
    BY <1>1, RingFacts
  <2>. QED
    BY <1>1, <2>1, RingFacts, WrapApart
<1>5. data \in [0..(q.maxsize - 1) -> 0..added]
  BY DEF IInv, TypeOK
<1>6. items' = [i \in 1..(cursize + 1) |-> IF i = cursize + 1 THEN added + 1 ELSE items[i]]
  <2>1. items' = [i \in 1..(cursize + 1) |-> data'[(head + i - 1) % q.maxsize]]
    BY DEF items
  <2>2. data'[(head + (cursize + 1) - 1) % q.maxsize] = added + 1
    BY <1>3, <1>5, RingFacts
  <2>3. ASSUME NEW i \in 1..(cursize + 1), i # cursize + 1
        PROVE  data'[(head + i - 1) % q.maxsize] = items[i]
    <3>1. i \in 1..cursize
      BY <2>3, RingFacts
    <3>2. items[i] = data[(head + i - 1) % q.maxsize]
      BY <3>1 DEF items
    <3>. QED
      BY <1>4, <1>5, <3>1, <3>2
  <2>. QED
    BY <2>1, <2>2, <2>3
<1>7. Append(items, added + 1) =
        [i \in 1..(cursize + 1) |-> IF i = cursize + 1 THEN added + 1 ELSE items[i]]
  BY ItemsType, RingFacts
<1>. QED
  BY <1>1, <1>2, <1>6, <1>7, ItemsType

\* _add stores its element: whoever sleeps for want of one is woken, and nobody
\* sleeps for want of room.
LEMMA AddStoresIInv ==
  ASSUME IInv, NEW p \in Adders, p \in q.users, AddStores(p), UNCHANGED q
  PROVE  IInv'
<1>. USE DEF AddStores
<1>1. p \in Threads /\ "unlock" \in States
  BY DEF Threads, States
<1>2. /\ tail' \in 0..(q.maxsize - 1) /\ cursize' \in 0..q.maxsize /\ RingShape'
  BY StoreRing
<1>3. /\ pc' \in [Threads -> States] /\ MutexOwner'
      /\ \A u \in Threads : pc'[u] = "sleep" => pc[u] = "sleep"
      /\ \A u \in Threads : cursize + 1 = 1 => pc'[u] # "sleep"
      /\ \A u \in Threads : pc'[u] = "idle" <=> pc[u] = "idle"
      /\ \A u \in Threads \ {p} :
           pc'[u] \in {"body", "sleep", "woken"} <=> pc[u] \in {"body", "sleep", "woken"}
  BY <1>1, BroadcastMoves
<1>4. pc'[p] = "unlock"
  BY <1>1 DEF Broadcast
<1>5. AddsBounded'
  <2>1. p \in Adding /\ Adding' \subseteq Adding \ {p}
    BY <1>3, <1>4 DEF Adding, Threads
  <2>. QED
    BY <2>1, BoundStores DEF IInv
<1>6. data' \in [0..(q.maxsize - 1) -> 0..added'] /\ added' \in Nat
  <2>1. data \in [0..(q.maxsize - 1) -> 0..added] /\ added \in Nat
    BY DEF IInv, TypeOK
  <2>2. added + 1 \in 0..(added + 1) /\ \A x \in 0..added : x \in 0..(added + 1)
    BY <2>1
  <2>. QED
    BY <2>1, <2>2, RingFacts
<1>7. TypeOK'
  <2>1. nowait' \in [Threads -> BOOLEAN]
    BY Zenon DEF IInv, TypeOK
  <2>. QED
    BY <1>2, <1>3, <1>6, <2>1 DEF IInv, TypeOK
<1>8. DrainCovered'
  <2>1. \A d \in Drainers : d \in Threads /\ n_left[d] \in 0..q.maxsize
    BY DEF IInv, TypeOK, Threads
  <2>. QED
    BY <1>3, <2>1, RingFacts DEF IInv, DrainCovered
<1>9. NoLostWakeup'
  BY <1>3, RingFacts DEF IInv, NoLostWakeup, Sleeping, IsFull, Threads
<1>. QED
  BY <1>2, <1>3, <1>5, <1>7, <1>8, <1>9 DEF IInv

\* _sub takes the first element: if the queue was full whoever sleeps for want of
\* room is woken, and nobody sleeps for want of an element.
LEMMA SubTakesIInv ==
  ASSUME IInv, NEW c \in Subbers, c \in q.users, SubTakes(c), UNCHANGED q
  PROVE  IInv'
<1>. USE DEF SubTakes
<1>1. c \in Threads /\ c \notin Adders /\ "unlock" \in States
  BY ThreadsAssumption DEF Threads, States
<1>2. /\ head' \in 0..(q.maxsize - 1) /\ cursize' \in 0..q.maxsize /\ RingShape'
      /\ cursize' = cursize - 1 /\ tail' = tail /\ data' = data
  BY TakeHeadRing DEF TakeHead
<1>3. /\ pc' \in [Threads -> States] /\ MutexOwner'
      /\ \A u \in Threads : pc'[u] = "sleep" => pc[u] = "sleep"
      /\ \A u \in Threads : IsFull => pc'[u] # "sleep"
      /\ \A u \in Threads : pc'[u] = "idle" <=> pc[u] = "idle"
      /\ \A u \in Threads \ {c} :
           pc'[u] \in {"body", "sleep", "woken"} <=> pc[u] \in {"body", "sleep", "woken"}
  BY <1>1, BroadcastMoves
<1>4. AddsBounded'
  <2>1. Adding' \subseteq Adding
    BY <1>1, <1>3 DEF Adding, Threads
  <2>. QED
    BY <2>1, BoundKept DEF IInv
<1>5. TypeOK'
  <2>1. nowait' \in [Threads -> BOOLEAN]
    BY Zenon DEF IInv, TypeOK
  <2>. QED
    BY <1>2, <1>3, <2>1 DEF IInv, TypeOK
<1>6. DrainCovered'
  <2>1. \A d \in Drainers : d \in q.users => c = d
    BY QueueType DEF IInv, TypeOK
  <2>2. c \notin Drainers
    BY ThreadsAssumption
  <2>. QED
    BY <1>3, <2>1, <2>2 DEF IInv, DrainCovered, Threads
<1>7. NoLostWakeup'
  BY <1>3 DEF IInv, NoLostWakeup, Sleeping, Threads
<1>. QED
  BY <1>2, <1>3, <1>4, <1>5, <1>6, <1>7 DEF IInv

\* _sub_raw takes the first element for the only reader of the queue.
LEMMA DrainTakesIInv ==
  ASSUME IInv, NEW d \in Drainers, d \in q.users, DrainTakes(d), UNCHANGED q
  PROVE  IInv'
<1>. USE DEF DrainTakes
<1>1. /\ head' \in 0..(q.maxsize - 1) /\ cursize' \in 0..q.maxsize /\ RingShape'
      /\ cursize' = cursize - 1 /\ tail' = tail /\ data' = data
  BY TakeHeadRing DEF TakeHead
<1>2. n_left \in [Drainers -> 0..q.maxsize]
  BY DEF IInv, TypeOK
<1>3. n_left' \in [Drainers -> 0..q.maxsize] /\ n_left'[d] = n_left[d] - 1
  <2>1. n_left[d] - 1 \in 0..q.maxsize
    BY <1>2, RingFacts
  <2>. QED
    BY <1>2, <2>1
<1>4. TypeOK'
  <2>1. nowait' \in [Threads -> BOOLEAN]
    BY Zenon DEF IInv, TypeOK
  <2>. QED
    BY <1>1, <1>3, <2>1 DEF IInv, TypeOK
<1>5. AddsBounded'
  <2>1. Adding' \subseteq Adding
    BY DEF Adding
  <2>. QED
    BY <2>1, BoundKept DEF IInv
<1>6. DrainCovered'
  <2>1. \A e \in Drainers : e \in q.users => e = d
    BY QueueType DEF IInv, TypeOK
  <2>2. pc[d] # "idle" => n_left[d] - 1 <= cursize - 1
    BY <1>2, RingFacts DEF IInv, DrainCovered
  <2>. QED
    BY <1>1, <1>3, <2>1, <2>2 DEF IInv, DrainCovered
<1>7. NoLostWakeup' /\ MutexOwner'
  BY DEF IInv, NoLostWakeup, MutexOwner
<1>. QED
  BY <1>1, <1>4, <1>5, <1>6, <1>7 DEF IInv

\* A step that changes nothing.
LEMMA StutterIInv ==
  ASSUME IInv, UNCHANGED vars
  PROVE  IInv'
<1>1. AddsBounded'
  <2>1. Adding' \subseteq Adding
    BY DEF Adding, vars
  <2>. QED
    BY <2>1, BoundKept DEF IInv, vars
<1>2. TypeOK'
  BY DEF IInv, TypeOK, vars
<1>. QED
  BY <1>1, <1>2 DEF IInv, vars, MutexOwner, RingShape, DrainCovered, NoLostWakeup,
                    Sleeping, IsFull

-----------------------------------------------------------------------------
(***************************************************************************)
(* The theorems                                                            *)
(***************************************************************************)

\* Every step preserves the invariant.
LEMMA NextIInv ==
  ASSUME IInv, [Next]_vars
  PROVE  IInv'
<1>1. ASSUME NEW p \in Adders, User(p, Add(p)) PROVE IInv'
  BY <1>1, CallIInv, AddStoresIInv DEF User, Add
<1>2. ASSUME NEW c \in Subbers, User(c, Sub(c)) PROVE IInv'
  BY <1>2, CallIInv, SubTakesIInv DEF User, Sub
<1>3. ASSUME NEW d \in Drainers, User(d, Drain(d)) PROVE IInv'
  BY <1>3, DrainCallIInv, DrainTakesIInv DEF User, Drain
<1>. QED
  BY <1>1, <1>2, <1>3, AnyIInv, StutterIInv DEF Next

\* The invariant holds in every reachable state.
THEOREM IInvHolds == Spec => []IInv
<1>1. IInv /\ [Next]_vars => IInv'
  BY NextIInv
<1>. QED
  BY InitIInv, <1>1, PTL DEF Spec

\* cursize, head and tail stay in the ring, and what the ring holds was added.
THEOREM TypeCorrect == Spec => []TypeOK
<1>1. IInv => TypeOK
  BY DEF IInv
<1>. QED
  BY <1>1, IInvHolds, PTL

\* A thread that sleeps in unix_shared_memory_queue_add or _sub has a reason to,
\* whatever broadcasts the others leave out.
THEOREM WakeupsKept == Spec => []NoLostWakeup
<1>1. IInv => NoLostWakeup
  BY DEF IInv
<1>. QED
  BY <1>1, IInvHolds, PTL

\* session_queue_node_fn never finds the queue empty before it has taken the
\* events that it counted without the mutex.
THEOREM DrainFinds == Spec => []DrainNeverBlocks
<1>1. IInv => DrainNeverBlocks
  BY DEF IInv, DrainCovered, DrainNeverBlocks
<1>. QED
  BY <1>1, IInvHolds, PTL

\* One thread at a time is between lock and unlock of the queue.
THEOREM OneOwner == Spec => []MutexOwner
<1>1. IInv => MutexOwner
  BY DEF IInv
<1>. QED
  BY <1>1, IInvHolds, PTL

\* A step that leaves the ring alone leaves its elements alone.
LEMMA ItemsKept ==
  ASSUME UNCHANGED <<q, ring>>
  PROVE  UNCHANGED <<items, q.maxsize>>
  BY DEF ring, items

\* An adder's element is one of those the abstract queue may be given.
LEMMA ElementType ==
  ASSUME IInv, NEW p \in Adders, AddStores(p), UNCHANGED q
  PROVE  added + 1 \in Elements
<1>1. p \in Adding /\ pc'[p] = "unlock"
  BY DEF AddStores, Adding, Broadcast, Threads
<1>2. \A u \in Threads : pc'[u] = IF u = p THEN "unlock"
                         ELSE IF cursize + 1 = 1 /\ pc[u] = "sleep" THEN "woken" ELSE pc[u]
  BY DEF AddStores, Broadcast
<1>3. Adding' \subseteq Adding \ {p}
  BY <1>1, <1>2 DEF Adding, Threads
<1>4. added + 1 <= q.maxsize + MoreAdds + Cardinality(Adders)
  BY <1>1, <1>3, BoundStores DEF IInv, AddStores
<1>5. added \in Nat /\ q \in Queues
  BY DEF IInv, TypeOK
<1>6. added + 1 \in 1..(q.maxsize + MoreAdds + Cardinality(Adders))
  BY <1>4, <1>5, RingFacts, AddingFinite, MoreAddsAssumption
<1>. QED
  BY <1>5, <1>6 DEF Elements

\* Every step of the ring is a step of the abstract queue or leaves it alone.
LEMMA FifoStep ==
  ASSUME IInv, [Next]_vars
  PROVE  [Fifo!Next]_<<items, q.maxsize>>
<1>1. CASE UNCHANGED vars
  BY <1>1, ItemsKept DEF vars, ring
<1>2. ASSUME NEW p \in Adders, User(p, Add(p))
      PROVE  [Fifo!Next]_<<items, q.maxsize>>
  <2>1. CASE AddStores(p)
    <3>1. Len(items) < q.maxsize /\ items' = Append(items, added + 1)
      BY <1>2, <2>1, StoreRing DEF User, AddStores
    <3>2. added + 1 \in Elements
      BY <1>2, <2>1, ElementType DEF User
    <3>. QED
      BY <1>2, <3>1, <3>2 DEF User, Fifo!Next, Fifo!Put
  <2>2. CASE AddCalled(p) \/ AddWaits(p) \/ AddRefused(p)
    BY <1>2, <2>2, ItemsKept DEF User, AddCalled, AddWaits, AddRefused
  <2>. QED
    BY <1>2, <2>1, <2>2 DEF User, Add
<1>3. ASSUME TakeHead, cursize # 0, UNCHANGED q
      PROVE  [Fifo!Next]_<<items, q.maxsize>>
  <2>1. items # <<>> /\ items' = Tail(items)
    BY <1>3, TakeHeadRing
  <2>. QED
    BY <1>3, <2>1 DEF Fifo!Next, Fifo!Get
<1>4. ASSUME NEW c \in Subbers, User(c, Sub(c))
      PROVE  [Fifo!Next]_<<items, q.maxsize>>
  <2>1. CASE SubTakes(c)
    BY <1>3, <1>4, <2>1 DEF User, SubTakes
  <2>2. CASE SubCalled(c) \/ SubWaits(c) \/ SubRefused(c)
    BY <1>4, <2>2, ItemsKept DEF User, SubCalled, SubWaits, SubRefused
  <2>. QED
    BY <1>4, <2>1, <2>2 DEF User, Sub
<1>5. ASSUME NEW d \in Drainers, User(d, Drain(d))
      PROVE  [Fifo!Next]_<<items, q.maxsize>>
  <2>1. CASE DrainTakes(d)
    BY <1>3, <1>5, <2>1 DEF User, DrainTakes
  <2>2. CASE DrainCalled(d) \/ DrainBusy(d) \/ DrainLocks(d) \/ DrainEnds(d)
    BY <1>5, <2>2, ItemsKept DEF User, DrainCalled, DrainBusy, DrainLocks, DrainEnds
  <2>. QED
    BY <1>5, <2>1, <2>2 DEF User, Drain
<1>6. ASSUME NEW t \in Threads, User(t, Relock(t) \/ CallEnds(t) \/ SpuriousWakeup(t))
      PROVE  [Fifo!Next]_<<items, q.maxsize>>
  BY <1>6, ItemsKept DEF User, Relock, CallEnds, SpuriousWakeup
<1>. QED
  BY <1>1, <1>2, <1>4, <1>5, <1>6 DEF Next

\* unix_shared_memory_queue_add, _sub and _sub_raw implement a bounded first-in
\* first-out queue.
THEOREM Refinement == Spec => ImplementsFifo
<1>1. Init => Fifo!Init
  BY DEF Init, Fifo!Init, items
<1>2. IInv /\ [Next]_vars => [Fifo!Next]_<<items, q.maxsize>>
  BY FifoStep
<1>. QED
  BY <1>1, <1>2, IInvHolds, PTL DEF Spec, ImplementsFifo, Fifo!Spec
=============================================================================
