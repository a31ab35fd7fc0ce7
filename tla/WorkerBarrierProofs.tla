------------------------- MODULE WorkerBarrierProofs -------------------------
(***************************************************************************)
(* For every finite set of workers and every nesting depth: the barrier    *)
(* excludes the workers, its counter is exact, and nested calls hold it.   *)
(***************************************************************************)
EXTENDS WorkerBarrier, FiniteSetTheorems, TLAPS

\* The number of workers that sync waits for is a natural number.
LEMMA CountType == count \in Nat
  BY WorkersAssumption, FS_CardinalityType DEF count

\* The counted workers form a finite set, at most as large as Workers, and as
\* large only when it is all of them.
LEMMA CountedFinite ==
  /\ IsFiniteSet(Counted)
  /\ Cardinality(Counted) \in 0..count
  /\ Cardinality(Counted) = count => Counted = Workers
<1>1. Counted \in SUBSET Workers
  BY DEF Counted
<1>2. /\ IsFiniteSet(Counted)
      /\ Cardinality(Counted) <= Cardinality(Workers)
      /\ Cardinality(Workers) = Cardinality(Counted) => Workers = Counted
  BY <1>1, WorkersAssumption, FS_Subset
<1>3. Cardinality(Counted) \in Nat
  BY <1>2, FS_CardinalityType
<1>. QED
  BY <1>2, <1>3, CountType DEF count

\* A worker's atomic add of one accompanies its joining the counted ones.
LEMMA CountUp ==
  ASSUME TypeOK, CountExact,
         NEW w \in Workers, worker_pc[w] \in {"init", "enter"},
         workers_at_barrier' = workers_at_barrier + 1,
         worker_pc' = [worker_pc EXCEPT ![w] = "spin"]
  PROVE  CountExact' /\ workers_at_barrier' \in 0..count
<1>1. Counted' = Counted \cup {w}
  BY DEF Counted, TypeOK
<1>2. w \notin Counted
  BY DEF Counted
<1>3. Cardinality(Counted') = Cardinality(Counted) + 1
  BY <1>1, <1>2, CountedFinite, FS_AddElement
<1>4. CountExact'
  BY <1>3 DEF CountExact
<1>5. Cardinality(Counted) # count
  BY <1>2, CountedFinite
<1>. QED
  BY <1>4, <1>5, CountedFinite, CountType DEF CountExact

\* A worker's atomic add of minus one accompanies its leaving the counted ones.
LEMMA CountDown ==
  ASSUME TypeOK, CountExact,
         NEW w \in Workers, worker_pc[w] = "leave",
         workers_at_barrier' = workers_at_barrier - 1,
         worker_pc' = [worker_pc EXCEPT ![w] = "run"]
  PROVE  CountExact' /\ workers_at_barrier' \in 0..count
<1>1. Counted' = Counted \ {w}
  BY DEF Counted, TypeOK
<1>2. w \in Counted
  BY DEF Counted
<1>3. Cardinality(Counted') = Cardinality(Counted) - 1
  BY <1>1, <1>2, CountedFinite, FS_RemoveElement
<1>4. Cardinality(Counted) # 0
  BY <1>2, CountedFinite, FS_EmptySet
<1>. QED
  BY <1>3, <1>4, CountedFinite, CountType DEF CountExact

\* A step that moves no worker between the counted and the others leaves the
\* counter exact.
LEMMA CountSame ==
  ASSUME CountExact, workers_at_barrier' = workers_at_barrier, Counted' = Counted
  PROVE  CountExact'
  BY DEF CountExact

\* Before the workers start nobody is counted and the flag is set.
LEMMA InitIInv == Init => IInv
<1>. SUFFICES ASSUME Init PROVE IInv
  OBVIOUS
<1>1. Counted = {}
  BY DEF Init, Counted
<1>2. CountExact
  BY <1>1, FS_EmptySet DEF Init, CountExact
<1>3. TypeOK
  BY CountType, RecursionAssumption DEF Init, TypeOK, MainStates, WorkerStates
<1>. QED
  BY <1>2, <1>3 DEF Init, IInv, PhaseRun, PhaseSync, PhaseHeld, PhaseRelease,
                    PhasePanic, WorkersIn

\* The state after startup, in which the composed modules begin: the workers run
\* and the flag is clear.
LEMMA IdleIInv ==
  ASSUME wait_at_barrier = 0, workers_at_barrier = 0, recursion_level = 0,
         main_pc = "run", worker_pc = [w \in Workers |-> "run"]
  PROVE  IInv
<1>1. Counted = {}
  BY DEF Counted
<1>2. CountExact
  BY <1>1, FS_EmptySet DEF CountExact
<1>3. TypeOK
  BY CountType, RecursionAssumption DEF TypeOK, MainStates, WorkerStates
<1>. QED
  BY <1>2, <1>3 DEF IInv, PhaseRun, PhaseSync, PhaseHeld, PhaseRelease,
                    PhasePanic, WorkersIn

\* The steps of the main thread.
LEMMA MainIInv ==
  ASSUME IInv, Alive, Main
  PROVE  IInv'
<1>. USE CountType, RecursionAssumption
     DEF IInv, TypeOK, MainStates, WorkerStates, PhaseRun, PhaseSync, PhaseHeld,
         PhaseRelease, PhasePanic, WorkersIn
<1>0. worker_pc' = worker_pc /\ workers_at_barrier' = workers_at_barrier
  BY DEF Main, BarrierSync, BarrierSyncNested, BarrierSyncDone,
         BarrierReleaseNested, BarrierRelease, BarrierReleaseDone, BarrierTimeout
<1>c. CountExact'
  BY <1>0, CountSame DEF Counted
<1>1. CASE BarrierSync
  BY <1>0, <1>1, <1>c DEF BarrierSync
<1>2. CASE BarrierSyncNested
  BY <1>0, <1>2, <1>c DEF BarrierSyncNested
<1>3. CASE BarrierSyncDone
  <2>1. Counted = Workers
    BY <1>3, CountedFinite DEF BarrierSyncDone, CountExact
  <2>2. \A w \in Workers : worker_pc[w] = "spin"
    BY <2>1, <1>3 DEF Counted, BarrierSyncDone
  <2>. QED
    BY <1>0, <1>3, <1>c, <2>2 DEF BarrierSyncDone
<1>4. CASE BarrierReleaseNested
  BY <1>0, <1>4, <1>c DEF BarrierReleaseNested
<1>5. CASE BarrierRelease
  BY <1>0, <1>5, <1>c DEF BarrierRelease
<1>6. CASE BarrierReleaseDone
  <2>1. Counted = {}
    BY <1>6, CountedFinite, FS_EmptySet DEF BarrierReleaseDone, CountExact
  <2>2. \A w \in Workers : worker_pc[w] = "run"
    BY <2>1, <1>6 DEF Counted, BarrierReleaseDone
  <2>. QED
    BY <1>0, <1>6, <1>c, <2>2 DEF BarrierReleaseDone
<1>7. CASE BarrierTimeout
  BY <1>0, <1>7, <1>c DEF BarrierTimeout
<1>. QED
  BY <1>1, <1>2, <1>3, <1>4, <1>5, <1>6, <1>7 DEF Main

\* The steps of a worker.
LEMMA WorkerIInv ==
  ASSUME IInv, Alive, NEW w \in Workers, Worker(w)
  PROVE  IInv'
<1>. USE CountType, RecursionAssumption
     DEF IInv, Alive, TypeOK, MainStates, WorkerStates, PhaseRun, PhaseSync,
         PhaseHeld, PhaseRelease, PhasePanic, WorkersIn
<1>1. CASE WorkerInit(w)
  <2>1. CountExact' /\ workers_at_barrier' \in 0..count
    BY <1>1, CountUp DEF WorkerInit
  <2>. QED
    BY <1>1, <2>1 DEF WorkerInit
<1>2. CASE BarrierCheck(w)
  <2>1. CountExact'
    BY <1>2, CountSame DEF BarrierCheck, Counted
  <2>. QED
    BY <1>2, <2>1 DEF BarrierCheck
<1>3. CASE BarrierEnter(w)
  <2>1. CountExact' /\ workers_at_barrier' \in 0..count
    BY <1>3, CountUp DEF BarrierEnter
  <2>. QED
    BY <1>3, <2>1 DEF BarrierEnter
<1>4. CASE BarrierSpinEnds(w)
  <2>1. CountExact'
    BY <1>4, CountSame DEF BarrierSpinEnds, Counted
  <2>. QED
    BY <1>4, <2>1 DEF BarrierSpinEnds
<1>5. CASE BarrierLeave(w)
  <2>1. CountExact' /\ workers_at_barrier' \in 0..count
    BY <1>5, CountDown DEF BarrierLeave
  <2>. QED
    BY <1>5, <2>1 DEF BarrierLeave
<1>. QED
  BY <1>1, <1>2, <1>3, <1>4, <1>5 DEF Worker

\* A step that changes nothing preserves the invariant.
LEMMA StutterIInv ==
  ASSUME IInv, UNCHANGED vars
  PROVE  IInv'
  BY CountSame DEF IInv, vars, TypeOK, Counted, PhaseRun, PhaseSync,
     PhaseHeld, PhaseRelease, PhasePanic, WorkersIn

\* The phase invariant holds in every reachable state of the barrier.
THEOREM IInvHolds == Spec => []IInv
<1>1. IInv /\ [Next]_vars => IInv'
  BY MainIInv, WorkerIInv, StutterIInv DEF Next
<1>. QED
  BY InitIInv, <1>1, PTL DEF Spec

\* The counter never exceeds the number of workers and the recursion level
\* stays in its range.
THEOREM TypeCorrect == Spec => []TypeOK
<1>1. IInv => TypeOK
  BY DEF IInv
<1>. QED
  BY <1>1, IInvHolds, PTL

\* The counter that sync and release spin on is the number of workers between
\* their two atomic adds.
THEOREM Exact == Spec => []CountExact
<1>1. IInv => CountExact
  BY DEF IInv
<1>. QED
  BY <1>1, IInvHolds, PTL

\* Whatever the main thread does between sync and release, no worker runs.
THEOREM Exclusion == Spec => []BarrierExclusion
<1>1. IInv => BarrierExclusion
  BY DEF IInv, PhaseHeld, WorkersIn, BarrierExclusion
<1>. QED
  BY <1>1, IInvHolds, PTL

\* No worker is left on its way out when release returns.
THEOREM Stragglers == Spec => []NoStragglers
<1>1. IInv => NoStragglers
  BY DEF IInv, TypeOK, PhaseRun, WorkersIn, NoStragglers
<1>. QED
  BY <1>1, IInvHolds, PTL

\* Nested calls neither clear the flag nor let a worker move.
THEOREM Nested == Spec => NestedHold
<1>1. IInv /\ [Next]_vars =>
        [recursion_level > 1 => wait_at_barrier' = 1 /\ UNCHANGED worker_pc]_vars
  <2>. SUFFICES ASSUME IInv, Next, recursion_level > 1
                PROVE  wait_at_barrier' = 1 /\ UNCHANGED worker_pc
    OBVIOUS
  <2>1. main_pc = "held" /\ wait_at_barrier = 1 /\ WorkersIn({"spin"})
    BY DEF IInv, TypeOK, MainStates, PhaseRun, PhaseSync, PhaseHeld,
           PhaseRelease, PhasePanic
  <2>2. CASE Main
    BY <2>1, <2>2 DEF Main, BarrierSync, BarrierSyncNested, BarrierSyncDone,
       BarrierReleaseNested, BarrierRelease, BarrierReleaseDone, BarrierTimeout
  <2>3. ASSUME NEW w \in Workers, Worker(w) PROVE FALSE
    BY <2>1, <2>3 DEF WorkersIn, Worker, WorkerInit, BarrierCheck, BarrierEnter,
       BarrierSpinEnds, BarrierLeave
  <2>. QED
    BY <2>2, <2>3 DEF Next
<1>. QED
  BY <1>1, IInvHolds, PTL DEF Spec, NestedHold
=============================================================================
