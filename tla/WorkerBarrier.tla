---------------------------- MODULE WorkerBarrier ----------------------------
(***************************************************************************)
(* The worker-thread barrier of vlib (vlib/threads.c, vlib/threads.h).     *)
(*                                                                         *)
(* The main thread stops every worker before it changes a structure that   *)
(* the workers read without a lock: it sets *wait_at_barrier, spins until  *)
(* *workers_at_barrier has counted every worker, does its work, clears the *)
(* flag and spins until the count is back to zero.  A worker polls the     *)
(* flag once per turn of its dispatch loop.  Calls nest: only the          *)
(* outermost sync and release touch the flag.                              *)
(*                                                                         *)
(* Every read of the flag and every atomic add of the counter is a step of *)
(* its own.                                                                *)
(***************************************************************************)
EXTENDS Integers, FiniteSets

CONSTANTS
  Workers,        \* threads with a cloned vlib_main_t: vlib_mains[1..]
  MaxRecursion,   \* bound: how deep the main thread nests sync calls
  Impatient       \* TRUE: BARRIER_SYNC_TIMEOUT may run out while main spins

ASSUME WorkersAssumption == IsFiniteSet(Workers) /\ Workers # {}
ASSUME RecursionAssumption == MaxRecursion \in Nat \ {0}
ASSUME ImpatientAssumption == Impatient \in BOOLEAN

VARIABLES
  wait_at_barrier,      \* *vlib_worker_threads->wait_at_barrier
  workers_at_barrier,   \* *vlib_worker_threads->workers_at_barrier
  recursion_level,      \* vlib_worker_threads[0].recursion_level
  main_pc,              \* where the main thread is
  worker_pc             \* where each worker is

vars == <<wait_at_barrier, workers_at_barrier, recursion_level,
          main_pc, worker_pc>>

(***************************************************************************)
(* "run": no call in progress, barrier not held.  "sync": spinning in      *)
(* vlib_worker_thread_barrier_sync.  "held": the outermost sync has        *)
(* returned.  "release": spinning in vlib_worker_thread_barrier_release.   *)
(* "panic": os_panic has stopped the process.                              *)
(***************************************************************************)
MainStates == {"run", "sync", "held", "release", "panic"}

(***************************************************************************)
(* "init": started, not yet counted.  "run": dispatching graph nodes.      *)
(* "enter": has seen the flag set.  "spin": counted, waiting for the flag  *)
(* to clear.  "leave": has seen the flag clear, still counted.             *)
(***************************************************************************)
WorkerStates == {"init", "run", "enter", "spin", "leave"}

\* vec_len (vlib_mains) - 1
count == Cardinality(Workers)

Alive == main_pc # "panic"

\* start_threads asks for an initial sync before it launches the workers.
Init ==
  /\ wait_at_barrier = 1
  /\ workers_at_barrier = 0
  /\ recursion_level = 0
  /\ main_pc = "run"
  /\ worker_pc = [w \in Workers |-> "init"]

-----------------------------------------------------------------------------
(***************************************************************************)
(* Main thread                                                             *)
(***************************************************************************)

\* Outermost vlib_worker_thread_barrier_sync: set the flag, start to spin.
BarrierSync ==
  /\ main_pc = "run"
  /\ recursion_level' = recursion_level + 1
  /\ wait_at_barrier' = 1
  /\ main_pc' = "sync"
  /\ UNCHANGED <<workers_at_barrier, worker_pc>>

\* "Tolerate recursive calls": a nested sync returns at once.
BarrierSyncNested ==
  /\ main_pc = "held"
  /\ recursion_level < MaxRecursion
  /\ recursion_level' = recursion_level + 1
  /\ UNCHANGED <<wait_at_barrier, workers_at_barrier, main_pc, worker_pc>>

\* Wrong: sync returns one worker short.
MutSyncOffByOne ==
  /\ main_pc = "sync"
  /\ workers_at_barrier >= count - 1
  /\ main_pc' = "held"
  /\ UNCHANGED <<wait_at_barrier, workers_at_barrier, recursion_level, worker_pc>>

\* The spin loop of sync sees every worker counted, and sync returns.
BarrierSyncDone ==
  /\ main_pc = "sync"
  /\ workers_at_barrier = count
  /\ main_pc' = "held"
  /\ UNCHANGED <<wait_at_barrier, workers_at_barrier, recursion_level, worker_pc>>

\* Wrong: a nested release clears the flag as well.
MutNestedReleaseClears ==
  /\ main_pc = "held"
  /\ recursion_level > 1
  /\ recursion_level' = recursion_level - 1
  /\ wait_at_barrier' = 0
  /\ UNCHANGED <<workers_at_barrier, main_pc, worker_pc>>

\* A release that is not the outermost only drops the recursion level.
BarrierReleaseNested ==
  /\ main_pc = "held"
  /\ recursion_level > 1
  /\ recursion_level' = recursion_level - 1
  /\ UNCHANGED <<wait_at_barrier, workers_at_barrier, main_pc, worker_pc>>

\* Outermost vlib_worker_thread_barrier_release: clear the flag, start to spin.
BarrierRelease ==
  /\ main_pc = "held"
  /\ recursion_level = 1
  /\ recursion_level' = 0
  /\ wait_at_barrier' = 0
  /\ main_pc' = "release"
  /\ UNCHANGED <<workers_at_barrier, worker_pc>>

\* Wrong: release does not wait for the workers to leave.
MutReleaseNoWait ==
  /\ main_pc = "release"
  /\ main_pc' = "run"
  /\ UNCHANGED <<wait_at_barrier, workers_at_barrier, recursion_level, worker_pc>>

\* The spin loop of release sees the count back at zero, and release returns.
BarrierReleaseDone ==
  /\ main_pc = "release"
  /\ ~(workers_at_barrier > 0)
  /\ main_pc' = "run"
  /\ UNCHANGED <<wait_at_barrier, workers_at_barrier, recursion_level, worker_pc>>

\* Either spin loop runs past its deadline and calls os_panic.
BarrierTimeout ==
  /\ Impatient
  /\ \/ main_pc = "sync" /\ workers_at_barrier # count
     \/ main_pc = "release" /\ workers_at_barrier > 0
  /\ main_pc' = "panic"
  /\ UNCHANGED <<wait_at_barrier, workers_at_barrier, recursion_level, worker_pc>>

Main ==
  \/ BarrierSync \/ BarrierSyncNested \/ BarrierSyncDone
  \/ BarrierReleaseNested \/ BarrierRelease \/ BarrierReleaseDone
  \/ BarrierTimeout

-----------------------------------------------------------------------------
(***************************************************************************)
(* Workers                                                                 *)
(***************************************************************************)

\* vlib_worker_thread_init: a starting worker counts itself without polling.
WorkerInit(w) ==
  /\ worker_pc[w] = "init"
  /\ workers_at_barrier' = workers_at_barrier + 1
  /\ worker_pc' = [worker_pc EXCEPT ![w] = "spin"]
  /\ UNCHANGED <<wait_at_barrier, recursion_level, main_pc>>

\* vlib_worker_thread_barrier_check finds the flag set.
BarrierCheck(w) ==
  /\ worker_pc[w] = "run"
  /\ wait_at_barrier = 1
  /\ worker_pc' = [worker_pc EXCEPT ![w] = "enter"]
  /\ UNCHANGED <<wait_at_barrier, workers_at_barrier, recursion_level, main_pc>>

\* Wrong: the worker goes back to its loop instead of counting itself.
MutEnterSkips(w) ==
  /\ worker_pc[w] = "enter"
  /\ worker_pc' = [worker_pc EXCEPT ![w] = "run"]
  /\ UNCHANGED <<wait_at_barrier, workers_at_barrier, recursion_level, main_pc>>

\* clib_smp_atomic_add (workers_at_barrier, 1)
BarrierEnter(w) ==
  /\ worker_pc[w] = "enter"
  /\ workers_at_barrier' = workers_at_barrier + 1
  /\ worker_pc' = [worker_pc EXCEPT ![w] = "spin"]
  /\ UNCHANGED <<wait_at_barrier, recursion_level, main_pc>>

\* Wrong: the worker takes itself off the count when it sees the flag clear,
\* and again when it leaves.
MutSpinUncounts(w) ==
  /\ worker_pc[w] = "spin"
  /\ wait_at_barrier = 0
  /\ workers_at_barrier' = workers_at_barrier - 1
  /\ worker_pc' = [worker_pc EXCEPT ![w] = "leave"]
  /\ UNCHANGED <<wait_at_barrier, recursion_level, main_pc>>

\* while (*wait_at_barrier) ; ends
BarrierSpinEnds(w) ==
  /\ worker_pc[w] = "spin"
  /\ wait_at_barrier = 0
  /\ worker_pc' = [worker_pc EXCEPT ![w] = "leave"]
  /\ UNCHANGED <<wait_at_barrier, workers_at_barrier, recursion_level, main_pc>>

\* clib_smp_atomic_add (workers_at_barrier, -1)
BarrierLeave(w) ==
  /\ worker_pc[w] = "leave"
  /\ workers_at_barrier' = workers_at_barrier - 1
  /\ worker_pc' = [worker_pc EXCEPT ![w] = "run"]
  /\ UNCHANGED <<wait_at_barrier, recursion_level, main_pc>>

Worker(w) ==
  \/ WorkerInit(w) \/ BarrierCheck(w) \/ BarrierEnter(w)
  \/ BarrierSpinEnds(w) \/ BarrierLeave(w)

\* os_panic stops every thread of the process.
Next == Alive /\ (Main \/ \E w \in Workers : Worker(w))

(***************************************************************************)
(* A thread that can take its next step takes it: workers busy-poll and    *)
(* the main thread busy-waits in both spin loops.  Nothing forces the main *)
(* thread to start a call, but it always ends the one it holds.            *)
(***************************************************************************)
Fairness ==
  /\ WF_vars(Alive /\ (BarrierSyncDone \/ BarrierReleaseDone))
  /\ WF_vars(Alive /\ (BarrierReleaseNested \/ BarrierRelease))
  /\ \A w \in Workers : WF_vars(Alive /\ Worker(w))

Spec == Init /\ [][Next]_vars

LiveSpec == Spec /\ Fairness

-----------------------------------------------------------------------------
(***************************************************************************)
(* Properties                                                              *)
(***************************************************************************)

TypeOK ==
  /\ wait_at_barrier \in {0, 1}
  /\ workers_at_barrier \in 0..count
  /\ recursion_level \in 0..MaxRecursion
  /\ main_pc \in MainStates
  /\ worker_pc \in [Workers -> WorkerStates]

Counted == {w \in Workers : worker_pc[w] \in {"spin", "leave"}}

\* While the main thread holds the barrier every worker is in the spin loop of
\* barrier_check: none dispatches nodes, and none is on its way out.
BarrierExclusion ==
  main_pc = "held" => \A w \in Workers : worker_pc[w] = "spin"

\* Once the main thread is back from vlib_worker_thread_barrier_release every
\* worker has left the barrier, so that the next sync cannot count one that is
\* still leaving; before the first release none has entered the dispatch loop.
NoStragglers ==
  main_pc = "run" =>
     \A w \in Workers : worker_pc[w] \in IF wait_at_barrier = 0
                                           THEN {"run"} ELSE {"init", "spin"}

\* A nested release never lets a worker go: while the recursion level is above
\* one no step clears the flag or moves a worker out of its spin loop.
NestedHold ==
  [][recursion_level > 1 => wait_at_barrier' = 1 /\ UNCHANGED worker_pc]_vars

\* The counter the spin loops read is the number of workers between their two
\* atomic adds, at startup and in barrier_check alike.
CountExact == workers_at_barrier = Cardinality(Counted)

(***************************************************************************)
(* The inductive strengthening: what each phase of the main thread says    *)
(* about the flag, the recursion level and the workers.                    *)
(***************************************************************************)
WorkersIn(S) == \A w \in Workers : worker_pc[w] \in S

PhaseRun ==
  main_pc = "run" =>
    /\ recursion_level = 0
    /\ wait_at_barrier = 0 => WorkersIn({"run"})
    /\ wait_at_barrier = 1 => WorkersIn({"init", "spin"})

PhaseSync ==
  main_pc = "sync" =>
    /\ recursion_level = 1
    /\ wait_at_barrier = 1
    /\ WorkersIn({"init", "run", "enter", "spin"})

PhaseHeld ==
  main_pc = "held" =>
    /\ recursion_level > 0
    /\ wait_at_barrier = 1
    /\ WorkersIn({"spin"})

PhaseRelease ==
  main_pc = "release" =>
    /\ recursion_level = 0
    /\ wait_at_barrier = 0
    /\ WorkersIn({"spin", "leave", "run"})

PhasePanic == main_pc = "panic" => recursion_level < 2

\* What every reachable state satisfies and every step preserves: the phases of
\* vlib_worker_thread_barrier_sync and _release with the exact counter.
IInv ==
  /\ TypeOK
  /\ CountExact
  /\ PhaseRun /\ PhaseSync /\ PhaseHeld /\ PhaseRelease /\ PhasePanic

\* A sync call that is spinning returns, unless its deadline runs out first: no
\* worker can stay away from the barrier for ever, whatever it was doing when the
\* flag was set.
SyncReturns == main_pc = "sync" ~> main_pc \in {"held", "panic"}

\* After a release every worker gets back to dispatching nodes, even if the
\* main thread asks for the next barrier at once.
WorkersResume ==
  \A w \in Workers : main_pc = "release" ~> worker_pc[w] = "run" \/ ~Alive
=============================================================================
