---------------------------- MODULE MsgRingProofs ----------------------------
(***************************************************************************)
(* For any rings and any number of processes: as long as nobody keeps a    *)
(* message for longer than the garbage collector waits, a message buffer   *)
(* has one owner, and an owned buffer is marked as in use.                 *)
(***************************************************************************)
EXTENDS MsgRing, FiniteSetTheorems, SequenceTheorems, TLAPS

-----------------------------------------------------------------------------
(***************************************************************************)
(* The rings                                                               *)
(***************************************************************************)

\* What the layout says about its rings.
LEMMA LayoutFacts ==
  ASSUME layout \in Layouts
  PROVE  /\ Len(layout) \in Nat \ {0} /\ DOMAIN layout = 1..Len(layout)
         /\ DOMAIN layout \subseteq Rings
         /\ \A r \in DOMAIN layout :
              /\ layout[r].data \in Nat /\ layout[r].nitems \in Nat \ {0}
              /\ Places(layout[r]) \subseteq Items
         /\ \A r, s \in DOMAIN layout :
              r # s => Places(layout[r]) \cap Places(layout[s]) = {}
<1>1. /\ layout \in Seq([data : Nat, nitems : Nat \ {0}]) /\ layout # <<>>
      /\ \A r, s \in DOMAIN layout :
           r # s => Places(layout[r]) \cap Places(layout[s]) = {}
  BY LayoutsAssumption
<1>2. /\ Len(layout) \in Nat \ {0} /\ DOMAIN layout = 1..Len(layout)
      /\ layout \in [1..Len(layout) -> [data : Nat, nitems : Nat \ {0}]]
  BY <1>1, LenProperties, EmptySeq
<1>3. DOMAIN layout \subseteq Rings
  BY DEF Rings
<1>4. \A r \in DOMAIN layout : Places(layout[r]) \subseteq Items
  BY DEF Items
<1>. QED
  BY <1>1, <1>2, <1>3, <1>4

\* The heap is not an item of a ring.
LEMMA HeapApart == Heap \notin Items
<1>. SUFFICES ASSUME NEW l \in Layouts, NEW r \in DOMAIN l PROVE Heap \notin Places(l[r])
  BY DEF Items
<1>1. l \in [1..Len(l) -> [data : Nat, nitems : Nat \ {0}]]
  BY LayoutsAssumption, LenProperties
<1>2. l[r].data \in Nat /\ l[r].nitems \in Nat
  BY <1>1
<1>. QED
  BY <1>2 DEF Places, Heap

\* The item an allocator looks at is an item of its ring, and allocators at
\* different rings look at different items.
LEMMA HeadItems ==
  ASSUME TypeOK
  PROVE  /\ \A r \in DOMAIN layout : HeadItem(r) \in Items
         /\ \A r, s \in DOMAIN layout : HeadItem(r) = HeadItem(s) => r = s
<1>1. ASSUME NEW r \in DOMAIN layout PROVE HeadItem(r) \in Places(layout[r])
  <2>1. layout[r].data \in Nat /\ layout[r].nitems \in Nat \ {0}
    BY LayoutFacts DEF TypeOK
  <2>2. head[r] \in 0..(layout[r].nitems - 1)
    BY DEF TypeOK
  <2>. QED
    BY <2>1, <2>2 DEF HeadItem, Places
<1>. QED
  BY <1>1, LayoutFacts DEF TypeOK

-----------------------------------------------------------------------------
(***************************************************************************)
(* Types                                                                   *)
(***************************************************************************)

\* A mark may be absent or fresh, and control of a message begins at age 0.
LEMMA Ages ==
  Unmarked \in -1..(GcAge + 1) /\ 0 \in -1..(GcAge + 1) /\ 0 \in 0..HoldLimit
  BY AgesAssumption DEF Unmarked

\* New rings: nothing is in use, marked or locked.
LEMMA InitType == Init => TypeOK
<1>. SUFFICES ASSUME Init PROVE TypeOK
  OBVIOUS
<1>1. \A r \in DOMAIN layout : layout[r].nitems \in Nat \ {0}
  BY LayoutFacts DEF Init
<1>2. \A r \in DOMAIN layout : head[r] \in 0..(layout[r].nitems - 1)
  BY <1>1, LayoutFacts DEF Init
<1>3. in_use \in [Buffers -> BOOLEAN]
  BY Zenon DEF Init
<1>4. 1 \in DOMAIN layout
  BY LayoutFacts DEF Init
<1>5. mark \in [Items -> -1..(GcAge + 1)] /\ held \in [Buffers -> 0..HoldLimit]
  BY AgesAssumption DEF Init, Unmarked
<1>. QED
  BY <1>2, <1>3, <1>4, <1>5 DEF Init, TypeOK, States, Buffers

\* A process goes on to the next ring, or to the heap.
LEMMA NextRingType ==
  ASSUME TypeOK, NEW p \in Procs, NextRing(p)
  PROVE  /\ pc' \in [Procs -> States] /\ ring' \in [Procs -> DOMAIN layout]
         /\ control' \in [Buffers -> SUBSET Procs]
         /\ mutex' \in [Rings -> Procs \cup {None}]
<1>1. ring[p] \in DOMAIN layout /\ ring[p] \in Rings
  BY LayoutFacts DEF TypeOK
<1>2. ring' \in [Procs -> DOMAIN layout]
  <2>1. 1 \in DOMAIN layout /\ (ring[p] < Len(layout) => ring[p] + 1 \in DOMAIN layout)
    BY <1>1, LayoutFacts DEF TypeOK
  <2>. QED
    BY <2>1 DEF TypeOK, NextRing
<1>3. pc' \in [Procs -> States]
  BY DEF TypeOK, NextRing, HeapAlloc, States
<1>4. control' \in [Buffers -> SUBSET Procs]
  <2>1. control' = control \/ control' = [control EXCEPT ![Heap] = {p}]
    BY DEF NextRing, HeapAlloc
  <2>. QED
    BY <2>1 DEF TypeOK
<1>5. mutex' \in [Rings -> Procs \cup {None}]
  BY <1>1 DEF TypeOK, NextRing
<1>. QED
  BY <1>2, <1>3, <1>4, <1>5

\* Every step preserves the types.
LEMMA NextType ==
  ASSUME TypeOK, [Next]_vars
  PROVE  TypeOK'
<1>0. CASE UNCHANGED vars
  BY <1>0 DEF TypeOK, vars
<1>1. CASE Tick
  <2>1. in_use' \in [Buffers -> BOOLEAN]
    BY <1>1, Zenon DEF Tick, TypeOK
  <2>2. mark' \in [Items -> -1..(GcAge + 1)]
    BY <1>1, AgesAssumption DEF Tick, TypeOK, Older, Unmarked
  <2>3. held' \in [Buffers -> 0..HoldLimit]
    BY <1>1, AgesAssumption DEF Tick, TypeOK, Buffers
  <2>. QED
    BY <1>1, <2>1, <2>2, <2>3 DEF Tick, TypeOK
<1>2. ASSUME NEW p \in Procs, AllocCalled(p) PROVE TypeOK'
  <2>1. in_use' \in [Buffers -> BOOLEAN]
    BY <1>2, Zenon DEF AllocCalled, TypeOK
  <2>. QED
    BY <1>2, <2>1 DEF AllocCalled, TypeOK, States
<1>3. ASSUME NEW p \in Procs, AllocTooBig(p) PROVE TypeOK'
  <2>1. in_use' \in [Buffers -> BOOLEAN]
    BY <1>3, Zenon DEF AllocTooBig, TypeOK
  <2>2. control' \in [Buffers -> SUBSET Procs]
    BY <1>3 DEF AllocTooBig, HeapAlloc, TypeOK
  <2>. QED
    BY <1>3, <2>1, <2>2 DEF AllocTooBig, HeapAlloc, TypeOK, States
<1>4. ASSUME NEW p \in Procs, AllocLocks(p) PROVE TypeOK'
  <2>1. in_use' \in [Buffers -> BOOLEAN]
    BY <1>4, Zenon DEF AllocLocks, TypeOK
  <2>2. ring[p] \in Rings
    BY LayoutFacts DEF TypeOK
  <2>. QED
    BY <1>4, <2>1, <2>2 DEF AllocLocks, TypeOK, States
<1>5. ASSUME NEW p \in Procs, AllocMarks(p) PROVE TypeOK'
  <2>1. in_use' \in [Buffers -> BOOLEAN]
    BY <1>5, Zenon DEF AllocMarks, NextRing, TypeOK
  <2>2. mark' \in [Items -> -1..(GcAge + 1)]
    <3>1. mark' = [mark EXCEPT ![HeadItem(ring[p])] = 0]
      BY <1>5 DEF AllocMarks
    <3>. QED
      BY <3>1, Ages DEF TypeOK
  <2>3. NextRing(p)
    BY <1>5 DEF AllocMarks
  <2>. QED
    BY <2>1, <2>2, <2>3, NextRingType DEF NextRing, TypeOK
<1>6. ASSUME NEW p \in Procs, AllocPassesBy(p) PROVE TypeOK'
  <2>1. in_use' \in [Buffers -> BOOLEAN]
    BY <1>6, Zenon DEF AllocPassesBy, NextRing, TypeOK
  <2>2. NextRing(p) /\ mark' = mark
    BY <1>6 DEF AllocPassesBy
  <2>. QED
    BY <2>1, <2>2, NextRingType DEF NextRing, TypeOK
<1>7. ASSUME NEW p \in Procs, AllocCollects(p) PROVE TypeOK'
  <2>1. in_use' \in [Buffers -> BOOLEAN]
    BY <1>7, Zenon DEF AllocCollects, TypeOK
  <2>. QED
    BY <1>7, <2>1 DEF AllocCollects, TypeOK, States
<1>8. ASSUME NEW p \in Procs, AllocTakes(p) PROVE TypeOK'
  <2>1. in_use' \in [Buffers -> BOOLEAN]
    BY <1>8 DEF AllocTakes, TypeOK
  <2>2. mark' \in [Items -> -1..(GcAge + 1)]
    <3>1. mark' = [mark EXCEPT ![HeadItem(ring[p])] = Unmarked]
      BY <1>8 DEF AllocTakes
    <3>. QED
      BY <3>1, Ages DEF TypeOK
  <2>3. ring[p] \in DOMAIN layout /\ ring[p] \in Rings /\ 1 \in DOMAIN layout
    BY LayoutFacts DEF TypeOK
  <2>4. /\ head' \in [Rings -> Nat]
        /\ \A r \in DOMAIN layout : head'[r] \in 0..(layout[r].nitems - 1)
    <3>1. \A r \in DOMAIN layout : layout[r].nitems \in Nat \ {0} /\ r \in Rings
      BY LayoutFacts DEF TypeOK
    <3>2. \A r \in DOMAIN layout : head[r] \in 0..(layout[r].nitems - 1)
      BY DEF TypeOK
    <3>3. head \in [Rings -> Nat]
      BY DEF TypeOK
    <3>4. head' = [head EXCEPT ![ring[p]] =
                     IF head[ring[p]] + 1 = layout[ring[p]].nitems THEN 0 ELSE head[ring[p]] + 1]
      BY <1>8, <2>3, <3>3 DEF AllocTakes
    <3>. QED
      BY <2>3, <3>1, <3>2, <3>3, <3>4
  <2>5. /\ mutex' \in [Rings -> Procs \cup {None}] /\ pc' \in [Procs -> States]
        /\ control' \in [Buffers -> SUBSET Procs] /\ ring' \in [Procs -> DOMAIN layout]
    BY <1>8, <2>3 DEF AllocTakes, TypeOK, States
  <2>6. held' \in [Buffers -> 0..HoldLimit]
    <3>1. held' = [held EXCEPT ![HeadItem(ring[p])] = 0]
      BY <1>8 DEF AllocTakes
    <3>. QED
      BY <3>1, Ages DEF TypeOK
  <2>. QED
    BY <1>8, <2>1, <2>2, <2>4, <2>5, <2>6 DEF AllocTakes, TypeOK
<1>9. ASSUME NEW p \in Procs, NEW x \in Buffers, Free(p, x) \/ Leak(p, x) PROVE TypeOK'
  <2>. USE DEF Free, FreeClears, FreeNolock, FreeToHeap, Leak, GivesUp
  <2>1. in_use' \in [Buffers -> BOOLEAN]
    BY <1>9 DEF TypeOK
  <2>2. held' \in [Buffers -> 0..HoldLimit]
    BY <1>9, AgesAssumption DEF TypeOK
  <2>3. control' \in [Buffers -> SUBSET Procs]
    BY <1>9 DEF TypeOK
  <2>4. pc' \in [Procs -> States] /\ item' \in [Procs -> Buffers]
    BY <1>9 DEF TypeOK, States
  <2>. QED
    BY <1>9, <2>1, <2>2, <2>3, <2>4 DEF TypeOK
<1>10. ASSUME NEW p \in Procs, FreeUnmarks(p) PROVE TypeOK'
  <2>1. in_use' \in [Buffers -> BOOLEAN]
    BY <1>10, Zenon DEF FreeUnmarks, TypeOK
  <2>2. mark' \in [Items -> -1..(GcAge + 1)]
    <3>1. mark' = [mark EXCEPT ![item[p]] = Unmarked]
      BY <1>10 DEF FreeUnmarks
    <3>. QED
      BY <3>1, Ages DEF TypeOK
  <2>. QED
    BY <1>10, <2>1, <2>2 DEF FreeUnmarks, TypeOK, States, Buffers
<1>. QED
  BY <1>0, <1>1, <1>2, <1>3, <1>4, <1>5, <1>6, <1>7, <1>8, <1>9, <1>10 DEF Next, Alloc

-----------------------------------------------------------------------------
(***************************************************************************)
(* Control                                                                 *)
(***************************************************************************)

\* A step after which no more processes are about to take an item, and nobody has
\* gained control of one.
LEMMA TakersKept ==
  ASSUME IInv, UNCHANGED <<layout, head>>,
         \A x \in Items : control'[x] \subseteq control[x],
         \A u \in Procs : pc'[u] = "take" => pc[u] = "take" /\ ring'[u] = ring[u]
  PROVE  AboutToTake'
<1>. SUFFICES ASSUME NEW u \in Procs, pc'[u] = "take"
              PROVE  control'[layout'[ring'[u]].data + head'[ring'[u]]] = {}
  BY DEF AboutToTake, HeadItem
<1>1. pc[u] = "take" /\ ring'[u] = ring[u] /\ ring[u] \in DOMAIN layout
  BY DEF IInv, TypeOK
<1>2. HeadItem(ring[u]) \in Items /\ control[HeadItem(ring[u])] = {}
  BY <1>1, HeadItems DEF IInv, AboutToTake
<1>. QED
  BY <1>1, <1>2 DEF HeadItem

\* A process that leaves its ring, with the mutex, for the next ring or the heap.
LEMMA NextRingControl ==
  ASSUME IInv, NEW p \in Procs, pc[p] = "mark", NextRing(p)
  PROVE  /\ RingOwner' /\ AboutToTake' /\ SoleControl' /\ ControlledInUse'
         /\ \A x \in Items : control'[x] = control[x]
         /\ held' = held
<1>. USE DEF NextRing, HeapAlloc
<1>1. /\ ring[p] \in DOMAIN layout /\ ring[p] \in Rings
      /\ pc \in [Procs -> States] /\ ring \in [Procs -> DOMAIN layout]
      /\ mutex \in [Rings -> Procs \cup {None}] /\ control \in [Buffers -> SUBSET Procs]
  BY LayoutFacts DEF IInv, TypeOK
<1>2. mutex[ring[p]] = p /\ pc'[p] \in {"idle", "lock"}
  BY <1>1 DEF IInv, RingOwner
<1>3. \A u \in Procs \ {p} : pc'[u] = pc[u] /\ ring'[u] = ring[u]
  BY <1>1
<1>4. mutex' = [mutex EXCEPT ![ring[p]] = None]
  OBVIOUS
<1>5. RingOwner'
  BY <1>1, <1>2, <1>3, <1>4, NoneAssumption DEF IInv, RingOwner
<1>6. \A x \in Items : control'[x] = control[x]
  BY <1>1, HeapApart DEF Buffers
<1>7. AboutToTake'
  BY <1>2, <1>3, <1>6, TakersKept
<1>8. SoleControl' /\ ControlledInUse'
  BY <1>6 DEF IInv, SoleControl, ControlledInUse
<1>. QED
  BY <1>5, <1>6, <1>7, <1>8

\* A step that takes no mutex and moves no process into or out of a ring.
LEMMA OwnersKept ==
  ASSUME IInv, mutex' = mutex,
         \A u \in Procs : pc'[u] \in {"mark", "take"} <=> pc[u] \in {"mark", "take"},
         \A u \in Procs : pc[u] \in {"mark", "take"} => ring'[u] = ring[u]
  PROVE  RingOwner'
  BY DEF IInv, RingOwner

\* A message that is freed or forgotten is under nobody's control.
LEMMA GivesUpControl ==
  ASSUME IInv, NEW p \in Procs, NEW x \in Buffers, GivesUp(p, x), mark' = mark
  PROVE  /\ \A y \in Items : control'[y] \subseteq control[y]
         /\ \A y \in Items : y # x => control'[y] = control[y]
         /\ x \in Items => control'[x] = {}
         /\ SoleControl' /\ MarkYounger'
<1>1. /\ control \in [Buffers -> SUBSET Procs] /\ held \in [Buffers -> 0..HoldLimit]
      /\ Items \subseteq Buffers
  BY DEF IInv, TypeOK, Buffers
<1>2. /\ \A y \in Items : control'[y] \subseteq control[y]
      /\ \A y \in Items : y # x => control'[y] = control[y] /\ held'[y] = held[y]
      /\ control'[x] = control[x] \ {p} /\ p \in control[x]
  BY <1>1 DEF GivesUp
<1>3. x \in Items => control'[x] = {}
  BY <1>2 DEF IInv, SoleControl
<1>4. SoleControl'
  BY <1>2 DEF IInv, SoleControl
<1>5. MarkYounger'
  BY <1>2, <1>3 DEF IInv, MarkYounger
<1>. QED
  BY <1>2, <1>3, <1>4, <1>5

\* Time passes: a mark and the control it belongs to grow older together.
LEMMA TickIInv ==
  ASSUME IInv, Tick, TypeOK'
  PROVE  IInv'
<1>. USE DEF Tick
<1>1. RingOwner'
  BY OwnersKept
<1>2. AboutToTake'
  BY TakersKept
<1>3. SoleControl' /\ ControlledInUse'
  BY DEF IInv, SoleControl, ControlledInUse
<1>4. MarkYounger'
  <2>. SUFFICES ASSUME NEW x \in Items, control[x] # {} PROVE mark'[x] <= held'[x]
    BY DEF MarkYounger
  <2>1. /\ mark[x] <= held[x] /\ mark[x] \in Int /\ held[x] \in Nat
    BY AgesAssumption DEF IInv, MarkYounger, TypeOK, Buffers
  <2>2. held'[x] = held[x] + 1
    BY HeapApart DEF Buffers
  <2>3. mark'[x] = Older(mark[x])
    OBVIOUS
  <2>4. Older(mark[x]) <= mark[x] + 1
    BY <2>1 DEF Older
  <2>. QED
    BY <2>1, <2>2, <2>3, <2>4, AgesAssumption DEF Older
<1>. QED
  BY <1>1, <1>2, <1>3, <1>4 DEF IInv

\* The steps of an allocation up to the one that takes an item.  Here the
\* collector's patience counts: an item whose mark is older than GcAge is under
\* nobody's control.
LEMMA AllocIInv ==
  ASSUME HoldLimit <= GcAge, IInv, TypeOK', NEW p \in Procs,
         \/ AllocCalled(p) \/ AllocTooBig(p) \/ AllocLocks(p)
         \/ AllocMarks(p) \/ AllocPassesBy(p) \/ AllocCollects(p)
  PROVE  IInv'
<1>0. /\ ring[p] \in DOMAIN layout /\ ring[p] \in Rings /\ HeadItem(ring[p]) \in Items
      /\ pc \in [Procs -> States] /\ ring \in [Procs -> DOMAIN layout]
      /\ mutex \in [Rings -> Procs \cup {None}] /\ control \in [Buffers -> SUBSET Procs]
  BY LayoutFacts, HeadItems DEF IInv, TypeOK
<1>1. CASE AllocCalled(p)
  <2>1. RingOwner'
    BY <1>0, <1>1, OwnersKept DEF AllocCalled
  <2>2. AboutToTake'
    BY <1>0, <1>1, TakersKept DEF AllocCalled
  <2>. QED
    BY <1>1, <2>1, <2>2
       DEF IInv, AllocCalled, SoleControl, ControlledInUse, MarkYounger
<1>2. CASE AllocTooBig(p)
  <2>0. \A x \in Items : control'[x] = control[x]
    BY <1>0, <1>2, HeapApart DEF AllocTooBig, HeapAlloc, Buffers
  <2>1. RingOwner'
    BY <1>0, <1>2, OwnersKept DEF AllocTooBig, HeapAlloc
  <2>2. AboutToTake'
    BY <1>0, <1>2, <2>0, TakersKept DEF AllocTooBig, HeapAlloc
  <2>. QED
    BY <1>2, <2>0, <2>1, <2>2
       DEF IInv, AllocTooBig, SoleControl, ControlledInUse, MarkYounger
<1>3. CASE AllocLocks(p)
  <2>1. RingOwner'
    BY <1>0, <1>3, NoneAssumption DEF AllocLocks, IInv, RingOwner
  <2>2. AboutToTake'
    <3>. SUFFICES ASSUME NEW u \in Procs, pc'[u] = "take"
                  PROVE  control[HeadItem(ring[u])] = {}
      BY <1>3 DEF AboutToTake, HeadItem, AllocLocks
    <3>1. CASE u = p
      BY <1>0, <1>3, <3>1 DEF AllocLocks, IInv, ControlledInUse
    <3>2. CASE u # p
      BY <1>0, <1>3, <3>2 DEF AllocLocks, IInv, AboutToTake
    <3>. QED
      BY <3>1, <3>2
  <2>. QED
    BY <1>3, <2>1, <2>2
       DEF IInv, AllocLocks, SoleControl, ControlledInUse, MarkYounger
<1>4. CASE AllocMarks(p)
  <2>1. pc[p] = "mark" /\ NextRing(p) /\ mark' = [mark EXCEPT ![HeadItem(ring[p])] = 0]
    BY <1>4 DEF AllocMarks
  <2>2. /\ RingOwner' /\ AboutToTake' /\ SoleControl' /\ ControlledInUse'
        /\ \A x \in Items : control'[x] = control[x]
        /\ held' = held
    BY <2>1, NextRingControl
  <2>3. MarkYounger'
    <3>1. mark \in [Items -> -1..(GcAge + 1)] /\ \A x \in Items : held[x] \in Nat
      BY AgesAssumption DEF IInv, TypeOK, Buffers
    <3>. QED
      BY <2>1, <2>2, <3>1 DEF IInv, MarkYounger
  <2>. QED
    BY <2>2, <2>3 DEF IInv
<1>5. CASE AllocPassesBy(p)
  <2>1. pc[p] = "mark" /\ NextRing(p) /\ mark' = mark
    BY <1>5 DEF AllocPassesBy
  <2>2. /\ RingOwner' /\ AboutToTake' /\ SoleControl' /\ ControlledInUse'
        /\ \A x \in Items : control'[x] = control[x]
        /\ held' = held
    BY <2>1, NextRingControl
  <2>. QED
    BY <2>1, <2>2 DEF IInv, MarkYounger
<1>6. CASE AllocCollects(p)
  <2>1. RingOwner'
    BY <1>0, <1>6, OwnersKept DEF AllocCollects
  <2>2. control[HeadItem(ring[p])] = {}
    <3>1. mark[HeadItem(ring[p])] > GcAge
      BY <1>6 DEF AllocCollects
    <3>2. /\ mark[HeadItem(ring[p])] \in Int /\ held[HeadItem(ring[p])] \in 0..HoldLimit
          /\ control[HeadItem(ring[p])] # {} =>
               mark[HeadItem(ring[p])] <= held[HeadItem(ring[p])]
      BY <1>0, AgesAssumption DEF IInv, TypeOK, MarkYounger, Buffers
    <3>. QED
      BY <3>1, <3>2, AgesAssumption
  <2>3. AboutToTake'
    <3>. SUFFICES ASSUME NEW u \in Procs, pc'[u] = "take"
                  PROVE  control[HeadItem(ring[u])] = {}
      BY <1>6 DEF AboutToTake, HeadItem, AllocCollects
    <3>1. CASE u = p
      BY <2>2, <3>1
    <3>2. CASE u # p
      BY <1>0, <1>6, <3>2 DEF AllocCollects, IInv, AboutToTake
    <3>. QED
      BY <3>1, <3>2
  <2>. QED
    BY <1>6, <2>1, <2>3
       DEF IInv, AllocCollects, SoleControl, ControlledInUse, MarkYounger
<1>. QED
  BY <1>1, <1>2, <1>3, <1>4, <1>5, <1>6

\* An allocator takes an item that nobody has control of.  The others that are
\* about to take one are at other rings, and look at other items.
LEMMA AllocTakesIInv ==
  ASSUME IInv, TypeOK', NEW p \in Procs, AllocTakes(p)
  PROVE  IInv'
<1>. DEFINE x == HeadItem(ring[p])
<1>0. /\ ring[p] \in DOMAIN layout /\ ring[p] \in Rings /\ x \in Items
      /\ pc \in [Procs -> States] /\ ring \in [Procs -> DOMAIN layout]
      /\ mutex \in [Rings -> Procs \cup {None}] /\ control \in [Buffers -> SUBSET Procs]
      /\ head \in [Rings -> Nat] /\ in_use \in [Buffers -> BOOLEAN]
      /\ Items \subseteq Buffers
  BY LayoutFacts, HeadItems DEF IInv, TypeOK, Buffers
<1>1. /\ pc[p] = "take" /\ pc'[p] = "idle" /\ layout' = layout
      /\ \A u \in Procs \ {p} : pc'[u] = pc[u] /\ ring'[u] = ring[u]
  BY <1>0 DEF AllocTakes
<1>2. /\ control'[x] = control[x] \cup {p}
      /\ \A y \in Items : y # x => control'[y] = control[y]
  BY <1>0 DEF AllocTakes
<1>3. control[x] = {}
  BY <1>1 DEF IInv, AboutToTake
<1>4. RingOwner'
  <2>1. mutex' = [mutex EXCEPT ![ring[p]] = None]
    BY DEF AllocTakes
  <2>. QED
    BY <1>0, <1>1, <2>1, NoneAssumption DEF IInv, RingOwner
<1>5. AboutToTake'
  <2>. SUFFICES ASSUME NEW u \in Procs, pc'[u] = "take"
                PROVE  control'[layout'[ring'[u]].data + head'[ring'[u]]] = {}
    BY DEF AboutToTake, HeadItem
  <2>1. u # p /\ pc[u] = "take" /\ ring'[u] = ring[u] /\ ring[u] \in DOMAIN layout
    BY <1>0, <1>1
  <2>2. mutex[ring[u]] = u /\ mutex[ring[p]] = p /\ ring[u] \in Rings
    BY <1>0, <1>1, <2>1, LayoutFacts DEF IInv, RingOwner, TypeOK
  <2>3. ring[u] # ring[p]
    BY <2>1, <2>2
  <2>4. head'[ring[u]] = head[ring[u]]
    <3>1. \E v : head' = [head EXCEPT ![ring[p]] = v]
      BY DEF AllocTakes
    <3>. QED
      BY <1>0, <2>2, <2>3, <3>1
  <2>5. HeadItem(ring[u]) # x /\ HeadItem(ring[u]) \in Items
    BY <1>0, <2>1, <2>3, HeadItems DEF IInv
  <2>6. control'[HeadItem(ring[u])] = {}
    BY <1>2, <2>1, <2>5 DEF IInv, AboutToTake
  <2>. QED
    BY <1>1, <2>1, <2>4, <2>6 DEF HeadItem
<1>6. MarkYounger'
  <2>1. /\ mark' = [mark EXCEPT ![x] = -1] /\ held' = [held EXCEPT ![x] = 0]
    BY DEF AllocTakes, Unmarked
  <2>2. mark \in [Items -> -1..(GcAge + 1)] /\ held \in [Buffers -> 0..HoldLimit]
    BY DEF IInv, TypeOK
  <2>3. mark'[x] = -1 /\ held'[x] = 0
    BY <1>0, <2>1, <2>2
  <2>4. \A y \in Items : y # x => mark'[y] = mark[y] /\ held'[y] = held[y]
    BY <1>0, <2>1, <2>2
  <2>5. -1 <= 0
    OBVIOUS
  <2>. QED
    BY <1>2, <2>3, <2>4, <2>5 DEF IInv, MarkYounger
<1>7. SoleControl'
  BY <1>2, <1>3 DEF IInv, SoleControl
<1>8. ControlledInUse'
  <2>1. in_use' = [in_use EXCEPT ![x] = TRUE]
    BY DEF AllocTakes
  <2>. QED
    BY <1>0, <1>2, <2>1 DEF IInv, ControlledInUse
<1>. QED
  BY <1>4, <1>5, <1>6, <1>7, <1>8 DEF IInv

\* A message is freed, or forgotten; the owner was the only one.
LEMMA FreeIInv ==
  ASSUME IInv, TypeOK', NEW p \in Procs, NEW x \in Buffers, Free(p, x) \/ Leak(p, x)
  PROVE  IInv'
<1>. USE DEF Free, FreeClears, FreeNolock, FreeToHeap, Leak
<1>1. /\ GivesUp(p, x) /\ mark' = mark /\ mutex' = mutex
      /\ UNCHANGED <<layout, head>> /\ ring' = ring
  OBVIOUS
<1>2. /\ \A y \in Items : control'[y] \subseteq control[y]
      /\ \A y \in Items : y # x => control'[y] = control[y]
      /\ x \in Items => control'[x] = {}
      /\ SoleControl' /\ MarkYounger'
  BY <1>1, GivesUpControl
<1>3. \A u \in Procs : pc'[u] = pc[u] \/ (pc[u] = "idle" /\ pc'[u] = "unmark")
  BY DEF IInv, TypeOK, GivesUp
<1>4. RingOwner'
  BY <1>1, <1>3, OwnersKept
<1>5. AboutToTake'
  BY <1>1, <1>2, <1>3, TakersKept
<1>6. ControlledInUse'
  <2>1. in_use \in [Buffers -> BOOLEAN] /\ Items \subseteq Buffers
    BY DEF IInv, TypeOK, Buffers
  <2>2. \A y \in Items : y # x => in_use'[y] = in_use[y]
    BY <2>1
  <2>. QED
    BY <1>2, <2>2 DEF IInv, ControlledInUse
<1>. QED
  BY <1>2, <1>4, <1>5, <1>6 DEF IInv

\* The mark of an item that was freed before is cleared, even if the item has been
\* handed out again in between.
LEMMA FreeUnmarksIInv ==
  ASSUME IInv, TypeOK', NEW p \in Procs, FreeUnmarks(p)
  PROVE  IInv'
<1>. USE DEF FreeUnmarks
<1>1. \A u \in Procs : pc'[u] = pc[u] \/ (pc[u] = "unmark" /\ pc'[u] = "idle")
  BY DEF IInv, TypeOK
<1>2. RingOwner'
  BY <1>1, OwnersKept
<1>3. AboutToTake'
  BY <1>1, TakersKept
<1>4. MarkYounger'
  <2>1. mark' = [mark EXCEPT ![item[p]] = -1] /\ control' = control /\ held' = held
    BY DEF Unmarked
  <2>2. mark \in [Items -> -1..(GcAge + 1)] /\ \A x \in Items : held[x] \in Nat
    BY AgesAssumption DEF IInv, TypeOK, Buffers
  <2>3. \A x \in Items : mark'[x] = mark[x] \/ mark'[x] = -1
    BY <2>1, <2>2
  <2>4. \A n \in Nat : -1 <= n
    OBVIOUS
  <2>. QED
    BY <2>1, <2>2, <2>3, <2>4 DEF IInv, MarkYounger
<1>. QED
  BY <1>2, <1>3, <1>4 DEF IInv, SoleControl, ControlledInUse

\* New rings satisfy the invariant.
LEMMA InitIInv == Init => IInv
<1>. SUFFICES ASSUME Init PROVE IInv
  OBVIOUS
<1>1. TypeOK
  BY InitType
<1>2. RingOwner
  BY NoneAssumption DEF Init, RingOwner
<1>3. \A x \in Items : control[x] = {}
  BY DEF Init, Buffers
<1>. QED
  BY <1>1, <1>2, <1>3
     DEF IInv, Init, AboutToTake, MarkYounger, SoleControl, ControlledInUse

\* Every step preserves the invariant.
LEMMA NextIInv ==
  ASSUME HoldLimit <= GcAge, IInv, [Next]_vars
  PROVE  IInv'
<1>0. TypeOK'
  BY NextType DEF IInv
<1>1. CASE UNCHANGED vars
  BY ZenonT(60), <1>1 DEF vars, IInv, TypeOK, RingOwner, AboutToTake, HeadItem, MarkYounger,
              SoleControl, ControlledInUse
<1>2. CASE Tick
  BY <1>0, <1>2, TickIInv
<1>3. ASSUME NEW p \in Procs,
             AllocCalled(p) \/ AllocTooBig(p) \/ Alloc(p) \/ FreeUnmarks(p)
      PROVE  IInv'
  BY <1>0, <1>3, AllocIInv, AllocTakesIInv, FreeUnmarksIInv DEF Alloc
<1>4. ASSUME NEW p \in Procs, NEW x \in Buffers, Free(p, x) \/ Leak(p, x)
      PROVE  IInv'
  BY <1>0, <1>4, FreeIInv
<1>. QED
  BY <1>1, <1>2, <1>3, <1>4 DEF Next

-----------------------------------------------------------------------------
(***************************************************************************)
(* The theorems                                                            *)
(***************************************************************************)

\* The rings stay well formed, however long a message is kept: no head leaves its
\* ring (vl_msg_api_alloc_internal: q->head == q->maxsize goes back to 0).
THEOREM TypeCorrect == Spec => []TypeOK
<1>1. Init => TypeOK
  BY InitType
<1>2. TypeOK /\ [Next]_vars => TypeOK'
  BY NextType
<1>. QED
  BY <1>1, <1>2, PTL DEF Spec

\* The inductive invariant holds as long as nobody keeps a message for longer than
\* the ten seconds vl_msg_api_alloc_internal waits before it collects one.
THEOREM IInvHolds ==
  ASSUME HoldLimit <= GcAge
  PROVE  Spec => []IInv
<1>1. Init => IInv
  BY InitIInv
<1>2. IInv /\ [Next]_vars => IInv'
  BY NextIInv
<1>. QED
  BY <1>1, <1>2, PTL DEF Spec

\* "Only one proc/thread has control of a given message buffer", with the garbage
\* collector at work, if messages are given up in time.
THEOREM SingleHolder ==
  ASSUME HoldLimit <= GcAge
  PROVE  Spec => []SingleControl
<1>1. IInv => SingleControl
  <2>. SUFFICES ASSUME IInv, NEW x \in Items PROVE Cardinality(control[x]) <= 1
    BY DEF SingleControl
  <2>1. CASE control[x] = {}
    BY <2>1, FS_EmptySet
  <2>2. CASE control[x] # {}
    <3>1. PICK p : p \in control[x]
      BY <2>2
    <3>2. control[x] = {p}
      BY <3>1 DEF IInv, SoleControl
    <3>3. Cardinality({p}) = 1
      BY FS_Singleton
    <3>. QED
      BY <3>2, <3>3
  <2>. QED
    BY <2>1, <2>2
<1>. QED
  BY <1>1, IInvHolds, PTL

\* A message somebody has control of is marked as in use: vl_msg_api_free gives
\* no item of a ring to clib_mem_free.
THEOREM OwnedInUse ==
  ASSUME HoldLimit <= GcAge
  PROVE  Spec => []ControlledInUse
<1>1. IInv => ControlledInUse
  BY DEF IInv
<1>. QED
  BY <1>1, IInvHolds, PTL
=============================================================================
