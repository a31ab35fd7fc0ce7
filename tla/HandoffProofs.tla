---------------------------- MODULE HandoffProofs ----------------------------
(***************************************************************************)
(* For any number of workers, any interfaces, any size of the queues: no   *)
(* ticket is lost or held twice, two tickets in use never share an         *)
(* element, and nothing moves while the main thread holds the barrier.     *)
(*                                                                         *)
(* The barrier is not proved again: every step here is a step of           *)
(* WorkerBarrier or leaves its variables alone, and the lemmas of          *)
(* WorkerBarrierProofs carry its invariant over them.                      *)
(***************************************************************************)
EXTENDS Handoff, FiniteSetTheorems, FunctionTheorems, TLAPS

BP == INSTANCE WorkerBarrierProofs WITH MaxRecursion <- 1, Impatient <- FALSE

-----------------------------------------------------------------------------
(***************************************************************************)
(* The barrier                                                             *)
(***************************************************************************)

\* There are finitely many workers and at least one.
LEMMA WorkersFinite == IsFiniteSet(Workers) /\ Workers # {}
<1>1. IsFiniteSet(1..N)
  BY NAssumption, FS_Interval
<1>2. 1 \in 1..N
  BY NAssumption
<1>. QED
  BY <1>1, <1>2 DEF Workers

\* The constants satisfy what WorkerBarrierProofs assumes of them.
LEMMA BarrierAssumptions ==
  BP!WorkersAssumption /\ BP!RecursionAssumption /\ BP!ImpatientAssumption
<1>1. BP!WorkersAssumption
  BY WorkersFinite DEF BP!WorkersAssumption, BP!IsFiniteSet, IsFiniteSet
<1>2. BP!RecursionAssumption /\ BP!ImpatientAssumption
  BY DEF BP!RecursionAssumption, BP!ImpatientAssumption
<1>. QED
  BY <1>1, <1>2

\* The invariant of the barrier in the instance of the proofs is the one in the
\* instance of the specification.
LEMMA BarrierSame == BP!IInv <=> Barrier!IInv
<1>1. BP!Cardinality(Workers) = Barrier!Cardinality(Workers)
  BY DEF BP!Cardinality, Barrier!Cardinality
<1>2. BP!Cardinality(BP!Counted) = Barrier!Cardinality(Barrier!Counted)
  BY DEF BP!Cardinality, Barrier!Cardinality, BP!Counted, Barrier!Counted
<1>. QED
  BY <1>1, <1>2
  DEF Barrier!IInv, Barrier!CountExact, Barrier!TypeOK, Barrier!count,
      Barrier!PhaseRun, Barrier!PhaseSync, Barrier!PhaseHeld, Barrier!PhaseRelease,
      Barrier!PhasePanic, Barrier!WorkersIn, Barrier!MainStates, Barrier!WorkerStates,
      BP!IInv, BP!CountExact, BP!TypeOK, BP!count,
      BP!PhaseRun, BP!PhaseSync, BP!PhaseHeld, BP!PhaseRelease,
      BP!PhasePanic, BP!WorkersIn, BP!MainStates, BP!WorkerStates

\* The same in the state after a step.
LEMMA BarrierSamePrime == BP!IInv' <=> Barrier!IInv'
  BY BarrierSame, PTL

\* A step of the main thread in the barrier keeps the barrier's invariant.
LEMMA BarrierMainStep ==
  ASSUME Barrier!IInv, Main
  PROVE  Barrier!IInv'
<1>1. BP!Main
  BY DEF Main, BP!Main,
         BP!BarrierSync, BP!BarrierSyncDone, BP!BarrierRelease, BP!BarrierReleaseDone,
         Barrier!BarrierSync, Barrier!BarrierSyncDone, Barrier!BarrierRelease,
         Barrier!BarrierReleaseDone, BP!count, Barrier!count,
         BP!Cardinality, Barrier!Cardinality
<1>2. main_pc # "panic"
  BY DEF Main, Barrier!BarrierSync, Barrier!BarrierSyncDone, Barrier!BarrierRelease,
         Barrier!BarrierReleaseDone
<1>3. BP!IInv /\ BP!Alive
  BY <1>2, BarrierSame DEF BP!Alive
<1>4. BP!IInv'
  BY <1>1, <1>3, BarrierAssumptions, BP!MainIInv
<1>. QED
  BY <1>4, BarrierSamePrime

\* So does a step of a worker in the barrier.
LEMMA BarrierWorkerStep ==
  ASSUME Barrier!IInv, main_pc # "panic", NEW w \in Workers,
         \/ Barrier!BarrierCheck(w) \/ Barrier!BarrierEnter(w)
         \/ Barrier!BarrierSpinEnds(w) \/ Barrier!BarrierLeave(w)
  PROVE  Barrier!IInv'
<1>1. BP!Worker(w)
  BY DEF BP!Worker,
         BP!BarrierCheck, BP!BarrierEnter, BP!BarrierSpinEnds, BP!BarrierLeave,
         Barrier!BarrierCheck, Barrier!BarrierEnter, Barrier!BarrierSpinEnds,
         Barrier!BarrierLeave
<1>2. BP!IInv /\ BP!Alive
  BY BarrierSame DEF BP!Alive
<1>3. BP!IInv'
  BY <1>1, <1>2, BarrierAssumptions, BP!WorkerIInv
<1>. QED
  BY <1>3, BarrierSamePrime

\* So does a step that leaves the barrier alone.
LEMMA BarrierStutter ==
  ASSUME Barrier!IInv, UNCHANGED barrierVars
  PROVE  Barrier!IInv'
<1>1. BP!IInv /\ UNCHANGED BP!vars
  BY BarrierSame DEF BP!vars, barrierVars
<1>2. BP!IInv'
  BY <1>1, BarrierAssumptions, BP!StutterIInv
<1>. QED
  BY <1>2, BarrierSamePrime

\* Once the workers run, the barrier is idle and nobody is counted.
LEMMA BarrierInit == Init => Barrier!IInv
<1>1. Init => BP!IInv
  BY BarrierAssumptions, BP!IdleIInv DEF Init
<1>. QED
  BY <1>1, BarrierSame

-----------------------------------------------------------------------------
(***************************************************************************)
(* Steps that leave the queues alone                                       *)
(***************************************************************************)

\* What the type of the state says about its parts.
LEMMA Types ==
  ASSUME TypeOK
  PROVE  /\ loc \in [Workers -> Locations] /\ target \in [Workers -> Workers]
         /\ \A v \in Workers : /\ tail[v] \in Nat /\ tail[v] <= MaxTail
                               /\ head[v] \in Nat /\ head_hint[v] \in Nat
                               /\ valid[v] \subseteq Nat \ {0}
                               /\ \A w \in Workers : elt[w][v] \in Nat
  BY MaxTailAssumption DEF TypeOK

\* A worker moves on without touching a queue: it may not begin to wait or cease
\* to, nor leave the node with an element open.
LEMMA MoveIInv ==
  ASSUME IInv, Barrier!IInv', NEW w \in Workers, NEW to \in Locations,
         loc' = [loc EXCEPT ![w] = to],
         UNCHANGED <<targets, queueVars, target, main_pc>>,
         \A u \in Workers \ {w} : worker_pc'[u] = worker_pc[u],
         worker_pc'[w] # "run" => to \in {"top", "poll"},
         \/ to \in {"wait", "poll"} /\ Waiting(w)
         \/ to \notin {"wait", "poll"} /\ ~Waiting(w)
         \/ to = "node" /\ ~NoSlot(w),
         to \in {"top", "dequeue", "more", "input"} =>
           loc[w] \in {"top", "dequeue", "more", "input"}
  PROVE  IInv'
<1>0. /\ loc \in [Workers -> Locations] /\ target \in [Workers -> Workers]
      /\ UNCHANGED <<tail, head, head_hint, valid, elt, target>>
  BY Types DEF IInv, queueVars
<1>1. TypeOK'
  BY <1>0 DEF IInv, TypeOK, Barrier!IInv, queueVars
<1>2. loc'[w] = to /\ \A u \in Workers \ {w} : loc'[u] = loc[u]
  BY <1>0
<1>3. NoPanic' /\ StopsAtPoll'
  BY <1>2 DEF IInv, NoPanic, StopsAtPoll
<1>4. NothingLeftOpen'
  BY <1>0, <1>2 DEF IInv, NothingLeftOpen
<1>5. HintBehind' /\ TicketsKnown' /\ TicketsApart'
  BY <1>0 DEF IInv, HintBehind, TicketsKnown, TicketsApart, Holders
<1>6. TicketsNear'
  <2>1. \A u, v \in Workers : u # w => (Waiting(u)' <=> Waiting(u))
    BY <1>2 DEF Waiting
  <2>2. CASE Waiting(w)' <=> Waiting(w)
    BY <1>0, <2>1, <2>2 DEF IInv, TicketsNear, Writes
  <2>3. CASE to = "node" /\ ~NoSlot(w)
    <3>1. elt[w][target[w]] < head_hint[target[w]] + NElts
      BY <1>0, <2>3, Types, NEltsAssumption DEF IInv, NoSlot
    <3>2. \A v \in Workers : Writes(w, v)' => Writes(w, v) \/ v = target[w]
      BY <1>0 DEF Writes
    <3>. QED
      BY <1>0, <2>1, <3>1, <3>2 DEF IInv, TicketsNear, Writes
  <2>. QED
    BY <1>2, <2>2, <2>3 DEF Waiting
<1>. QED
  BY <1>1, <1>3, <1>4, <1>5, <1>6 DEF IInv

\* A step after which the workers are where they were.
LEMMA StayIInv ==
  ASSUME IInv, Barrier!IInv', UNCHANGED <<targets, loc, queueVars, target>>,
         main_pc' # "panic",
         \A w \in Workers : worker_pc'[w] # "run" =>
           worker_pc[w] # "run" \/ loc[w] \in {"top", "poll"}
  PROVE  IInv'
<1>1. TypeOK'
  BY DEF IInv, TypeOK, Barrier!IInv, queueVars
<1>2. NoPanic' /\ StopsAtPoll'
  BY DEF IInv, NoPanic, StopsAtPoll
<1>3. /\ NothingLeftOpen' /\ HintBehind' /\ TicketsKnown' /\ TicketsApart'
      /\ TicketsNear'
  BY DEF IInv, NothingLeftOpen, HintBehind, TicketsKnown, TicketsApart, Holders,
         TicketsNear, Writes, Waiting, queueVars
<1>. QED
  BY <1>1, <1>2, <1>3 DEF IInv

\* A worker that polls, passes the barrier, or moves on inside its loop.
LEMMA QuietIInv ==
  ASSUME IInv, NEW w \in Workers, UNCHANGED targets,
         \/ PollStops(w) \/ PollPasses(w) \/ AtBarrier(w) \/ LeaveBarrier(w)
         \/ LoopEnds(w) \/ WaitContinues(w) \/ SlotAvailable(w) \/ FrameEnds(w)
  PROVE  IInv'
<1>0. /\ loc \in [Workers -> Locations] /\ worker_pc \in [Workers -> Barrier!WorkerStates]
      /\ main_pc # "panic" /\ Barrier!IInv
  BY Types DEF IInv, NoPanic, Barrier!IInv, Barrier!TypeOK
<1>1. CASE PollStops(w)
  <2>1. Barrier!IInv'
    BY <1>0, <1>1, BarrierWorkerStep DEF PollStops
  <2>2. /\ main_pc' = main_pc
        /\ \A u \in Workers : worker_pc'[u] # "run" =>
             worker_pc[u] # "run" \/ loc[u] \in {"top", "poll"}
    BY <1>0, <1>1 DEF PollStops, Barrier!BarrierCheck
  <2>. QED
    BY <1>0, <1>1, <2>1, <2>2, StayIInv DEF PollStops
<1>2. CASE AtBarrier(w)
  <2>1. Barrier!IInv'
    BY <1>0, <1>2, BarrierWorkerStep DEF AtBarrier
  <2>2. /\ main_pc' = main_pc
        /\ \A u \in Workers : worker_pc'[u] # "run" => worker_pc[u] # "run"
    BY <1>0, <1>2 DEF AtBarrier, Barrier!BarrierEnter, Barrier!BarrierSpinEnds
  <2>. QED
    BY <1>0, <1>2, <2>1, <2>2, StayIInv DEF AtBarrier
<1>3. CASE LeaveBarrier(w)
  <2>1. Barrier!IInv'
    BY <1>0, <1>3, BarrierWorkerStep DEF LeaveBarrier
  <2>2. /\ main_pc' = main_pc /\ worker_pc'[w] = "run" /\ worker_pc[w] = "leave"
        /\ \A u \in Workers \ {w} : worker_pc'[u] = worker_pc[u]
    BY <1>0, <1>3 DEF LeaveBarrier, Barrier!BarrierLeave
  <2>3. loc[w] \in {"top", "poll"}
    BY <2>2 DEF IInv, StopsAtPoll
  <2>. QED
    BY <1>3, <2>1, <2>2, <2>3, MoveIInv DEF LeaveBarrier, AfterPoll, Waiting, Locations
<1>4. CASE \/ PollPasses(w) \/ LoopEnds(w) \/ WaitContinues(w)
           \/ SlotAvailable(w) \/ FrameEnds(w)
  <2>. USE DEF PollPasses, LoopEnds, WaitContinues, SlotAvailable, FrameEnds, Go
  <2>1. UNCHANGED barrierVars /\ worker_pc[w] = "run"
    BY <1>4
  <2>2. Barrier!IInv'
    BY <1>0, <2>1, BarrierStutter
  <2>3. worker_pc' = worker_pc /\ main_pc' = main_pc
    BY <2>1 DEF barrierVars
  <2>. QED
    BY <1>4, <2>1, <2>2, <2>3, MoveIInv DEF AfterPoll, Waiting, Locations
<1>. QED
  BY <1>1, <1>2, <1>3, <1>4

\* The main thread asks for the barrier, gets it, and lets it go.
LEMMA MainIInv ==
  ASSUME IInv, Main
  PROVE  IInv'
<1>1. Barrier!IInv'
  BY BarrierMainStep DEF IInv
<1>2. worker_pc' = worker_pc /\ main_pc' # "panic"
  BY DEF Main, Barrier!BarrierSync, Barrier!BarrierSyncDone, Barrier!BarrierRelease,
         Barrier!BarrierReleaseDone
<1>. QED
  BY <1>1, <1>2, StayIInv DEF Main

-----------------------------------------------------------------------------
(***************************************************************************)
(* The queues                                                              *)
(***************************************************************************)

\* What a step of a worker outside of the barrier check leaves alone.
LEMMA GoKeeps ==
  ASSUME IInv, NEW w \in Workers, NEW from, NEW to \in Locations, Go(w, from, to)
  PROVE  /\ Barrier!IInv' /\ NoPanic' /\ StopsAtPoll'
         /\ loc' \in [Workers -> Locations]
         /\ loc'[w] = to /\ \A u \in Workers \ {w} : loc'[u] = loc[u]
<1>0. loc \in [Workers -> Locations] /\ worker_pc[w] = "run"
  BY Types DEF IInv, Go
<1>1. UNCHANGED barrierVars /\ loc' = [loc EXCEPT ![w] = to]
  BY DEF Go
<1>2. Barrier!IInv'
  BY <1>1, BarrierStutter DEF IInv
<1>3. main_pc' = main_pc /\ worker_pc' = worker_pc
  BY <1>1 DEF barrierVars
<1>. QED
  BY <1>0, <1>1, <1>2, <1>3 DEF IInv, NoPanic, StopsAtPoll

\* The hint catches up with the head.
LEMMA DequeueReturnsIInv ==
  ASSUME IInv, NEW w \in Workers, UNCHANGED targets, DequeueReturns(w)
  PROVE  IInv'
<1>0. /\ Go(w, loc[w], "input") /\ loc[w] \in {"dequeue", "more"}
      /\ head_hint' = [head_hint EXCEPT ![w] = head[w]]
      /\ UNCHANGED <<targets, tail, head, valid, elt, target>>
  BY DEF DequeueReturns
<1>1. /\ Barrier!IInv' /\ NoPanic' /\ StopsAtPoll' /\ loc' \in [Workers -> Locations]
      /\ loc'[w] = "input" /\ \A u \in Workers \ {w} : loc'[u] = loc[u]
  BY <1>0, GoKeeps DEF Locations
<1>2. TypeOK'
  BY <1>0, <1>1 DEF IInv, TypeOK, Barrier!IInv
<1>3. NothingLeftOpen'
  BY <1>0, <1>1 DEF IInv, NothingLeftOpen
<1>4. \A v \in Workers : head_hint[v] <= head_hint'[v] /\ head_hint'[v] <= head[v]
  BY <1>0, Types DEF IInv, TypeOK, HintBehind
<1>5. HintBehind' /\ TicketsKnown' /\ TicketsApart'
  BY <1>0, <1>4 DEF IInv, HintBehind, TicketsKnown, TicketsApart, Holders
<1>6. TicketsNear'
  <2>1. \A u, v \in Workers : Writes(u, v)' => Writes(u, v)
    BY <1>0, <1>1 DEF Writes, Waiting
  <2>2. ASSUME NEW v \in Workers, NEW t \in Nat, t < head_hint[v] + NElts
        PROVE  t < head_hint'[v] + NElts
    <3>1. head_hint[v] \in Nat /\ head_hint'[v] \in Nat
      BY <1>2, MaxTailAssumption, Types DEF TypeOK, IInv
    <3>. QED
      BY <1>4, <2>2, <3>1, NEltsAssumption
  <2>3. \A u, v \in Workers : elt[u][v] \in Nat /\ valid[v] \subseteq Nat
    BY Types DEF IInv
  <2>. QED
    BY <1>0, <2>1, <2>2, <2>3 DEF IInv, TicketsNear
<1>. QED
  BY <1>1, <1>2, <1>3, <1>5, <1>6 DEF IInv

\* The next ticket is consumed; nobody else has it.
LEMMA DequeueFrameIInv ==
  ASSUME IInv, NEW w \in Workers, UNCHANGED targets, DequeueFrame(w)
  PROVE  IInv'
<1>0. /\ Go(w, loc[w], "more") /\ loc[w] \in {"dequeue", "more"}
      /\ head[w] + 1 \in valid[w]
      /\ valid' = [valid EXCEPT ![w] = valid[w] \ {head[w] + 1}]
      /\ head' = [head EXCEPT ![w] = head[w] + 1]
      /\ UNCHANGED <<targets, tail, head_hint, elt, target>>
  BY DEF DequeueFrame
<1>1. /\ Barrier!IInv' /\ NoPanic' /\ StopsAtPoll' /\ loc' \in [Workers -> Locations]
      /\ loc'[w] = "more" /\ \A u \in Workers \ {w} : loc'[u] = loc[u]
  BY <1>0, GoKeeps DEF Locations
<1>2. /\ head[w] \in Nat /\ tail[w] \in Nat /\ tail[w] <= MaxTail /\ head_hint[w] \in Nat
      /\ head_hint[w] <= head[w] /\ head[w] + 1 \in (head[w] + 1)..tail[w]
  BY <1>0, Types DEF IInv, HintBehind, TicketsKnown
<1>3. /\ \A v \in Workers : v # w => valid'[v] = valid[v] /\ head'[v] = head[v]
      /\ valid'[w] = valid[w] \ {head[w] + 1} /\ head'[w] = head[w] + 1
  BY <1>0 DEF IInv, TypeOK
<1>4. TypeOK'
  <2>1. head' \in [Workers -> 0..MaxTail]
    BY <1>0, <1>2, MaxTailAssumption DEF IInv, TypeOK
  <2>2. valid' \in [Workers -> SUBSET (1..MaxTail)]
    BY <1>0 DEF IInv, TypeOK
  <2>. QED
    BY <1>0, <1>1, <2>1, <2>2 DEF IInv, TypeOK, Barrier!IInv
<1>5. NothingLeftOpen'
  BY <1>0, <1>1 DEF IInv, NothingLeftOpen
<1>6. HintBehind'
  BY <1>0, <1>2, <1>3 DEF IInv, HintBehind
<1>7. TicketsApart'
  BY <1>0, <1>3 DEF IInv, TicketsApart
<1>8. TicketsKnown'
  <2>1. \A v \in Workers : Holders(v)' = Holders(v)
    BY <1>0 DEF Holders
  <2>2. \A u \in Holders(w) : elt[u][w] # head[w] + 1
    BY <1>0 DEF IInv, TicketsApart, Holders
  <2>3. {elt[u][w] : u \in Holders(w)} \cup (valid[w] \ {head[w] + 1})
          = ((head[w] + 1)..tail[w]) \ {head[w] + 1}
    BY <2>2 DEF IInv, TicketsKnown
  <2>4. ((head[w] + 1)..tail[w]) \ {head[w] + 1} = ((head[w] + 1) + 1)..tail[w]
    BY <1>2
  <2>5. ASSUME NEW v \in Workers, v # w
        PROVE  {elt[u][v] : u \in Holders(v)} \cup valid'[v] = (head'[v] + 1)..tail[v]
    BY <1>3, <2>5 DEF IInv, TicketsKnown
  <2>6. \A v \in Workers :
          {elt[u][v] : u \in Holders(v)} \cup valid'[v] = (head'[v] + 1)..tail[v]
    BY <1>3, <2>3, <2>4, <2>5
  <2>. QED
    BY <1>0, <2>1, <2>6 DEF TicketsKnown
<1>9. TicketsNear'
  BY <1>0, <1>1, <1>3 DEF IInv, TicketsNear, Writes, Waiting
<1>. QED
  BY <1>1, <1>4, <1>5, <1>6, <1>7, <1>8, <1>9 DEF IInv

\* A worker takes the next ticket of a queue, and waits for its element.
LEMMA TakeTicketIInv ==
  ASSUME IInv, NEW w \in Workers, NEW v \in Workers, UNCHANGED targets, TakeTicket(w, v)
  PROVE  IInv'
<1>0. /\ Go(w, loc[w], "wait") /\ loc[w] \in {"input", "node"}
      /\ elt[w][v] = 0 /\ tail[v] < MaxTail
      /\ tail' = [tail EXCEPT ![v] = tail[v] + 1]
      /\ elt' = [elt EXCEPT ![w][v] = tail[v] + 1]
      /\ target' = [target EXCEPT ![w] = v]
      /\ UNCHANGED <<targets, head, head_hint, valid>>
  BY DEF TakeTicket
<1>1. /\ Barrier!IInv' /\ NoPanic' /\ StopsAtPoll' /\ loc' \in [Workers -> Locations]
      /\ loc'[w] = "wait" /\ \A u \in Workers \ {w} : loc'[u] = loc[u]
  BY <1>0, GoKeeps DEF Locations
<1>2. /\ tail'[v] = tail[v] + 1 /\ \A x \in Workers : x # v => tail'[x] = tail[x]
      /\ elt'[w][v] = tail[v] + 1
      /\ \A u, x \in Workers : u # w \/ x # v => elt'[u][x] = elt[u][x]
      /\ target'[w] = v /\ \A u \in Workers : u # w => target'[u] = target[u]
  BY <1>0 DEF IInv, TypeOK
<1>3. /\ tail[v] \in Nat /\ head[v] \in Nat /\ head[v] <= tail[v]
      /\ \A t \in valid[v] : t \in (head[v] + 1)..tail[v]
      /\ \A u \in Workers : elt[u][v] # 0 => elt[u][v] \in (head[v] + 1)..tail[v]
  BY Types DEF IInv, HintBehind, TicketsKnown, Holders
<1>4. TypeOK'
  <2>1. tail[v] + 1 \in 0..MaxTail
    BY <1>0, <1>3, MaxTailAssumption
  <2>2. tail' \in [Workers -> 0..MaxTail]
    BY <1>0, <2>1 DEF IInv, TypeOK
  <2>3. elt' \in [Workers -> [Workers -> 0..MaxTail]]
    BY <1>0, <2>1 DEF IInv, TypeOK
  <2>. QED
    BY <1>0, <1>1, <2>2, <2>3 DEF IInv, TypeOK, Barrier!IInv
<1>5. NothingLeftOpen'
  BY <1>1, <1>2 DEF IInv, NothingLeftOpen
<1>6. HintBehind'
  BY <1>0, <1>2, <1>3, Types DEF IInv, HintBehind
<1>7. TicketsApart'
  <2>1. tail[v] + 1 \notin valid[v] /\ \A u \in Workers : elt[u][v] # tail[v] + 1
    BY <1>3
  <2>2. ASSUME NEW x \in Workers, x # v, NEW u \in Workers, elt'[u][x] # 0
        PROVE  /\ elt'[u][x] \notin valid'[x]
               /\ \A y \in Workers : elt'[y][x] = elt'[u][x] => y = u
    BY <1>0, <1>2, <2>2 DEF IInv, TicketsApart
  <2>3. ASSUME NEW u \in Workers, elt'[u][v] # 0
        PROVE  /\ elt'[u][v] \notin valid'[v]
               /\ \A y \in Workers : elt'[y][v] = elt'[u][v] => y = u
    BY <1>0, <1>2, <2>1, <2>3 DEF IInv, TicketsApart
  <2>. QED
    BY <2>2, <2>3 DEF TicketsApart
<1>8. TicketsKnown'
  <2>1. Holders(v)' = Holders(v) \cup {w} /\ w \notin Holders(v)
    BY <1>0, <1>2, <1>3 DEF Holders
  <2>2. \A x \in Workers : x # v => Holders(x)' = Holders(x)
    BY <1>2 DEF Holders
  <2>3. {elt'[u][v] : u \in Holders(v)'} = {elt[u][v] : u \in Holders(v)} \cup {tail[v] + 1}
    <3>1. \A u \in Holders(v) : u \in Workers /\ elt'[u][v] = elt[u][v]
      BY <1>2, <2>1 DEF Holders
    <3>. QED
      BY <1>2, <2>1, <3>1
  <2>4. ((head[v] + 1)..tail[v]) \cup {tail[v] + 1} = (head[v] + 1)..(tail[v] + 1)
    BY <1>3
  <2>5. {elt'[u][v] : u \in Holders(v)'} \cup valid[v] = (head[v] + 1)..(tail[v] + 1)
    BY <2>3, <2>4 DEF IInv, TicketsKnown
  <2>6. ASSUME NEW x \in Workers, x # v
        PROVE  {elt'[u][x] : u \in Holders(x)'} \cup valid[x] = (head[x] + 1)..tail[x]
    <3>1. \A u \in Holders(x) : elt'[u][x] = elt[u][x]
      BY <1>2, <2>6 DEF Holders
    <3>. QED
      BY <2>2, <2>6, <3>1 DEF IInv, TicketsKnown
  <2>. QED
    BY <1>0, <1>2, <2>5, <2>6 DEF TicketsKnown
<1>9. TicketsNear'
  <2>1. \A u, x \in Workers : Writes(u, x)' => Writes(u, x) /\ elt'[u][x] = elt[u][x]
    BY <1>0, <1>1, <1>2 DEF Writes, Waiting
  <2>. QED
    BY <1>0, <2>1 DEF IInv, TicketsNear
<1>. QED
  BY <1>1, <1>4, <1>5, <1>6, <1>7, <1>8, <1>9 DEF IInv

\* An open element is handed over: its ticket goes from the worker to the queue.
LEMMA ShipEltIInv ==
  ASSUME IInv, NEW w \in Workers, UNCHANGED targets, ShipElt(w)
  PROVE  IInv'
<1>1. PICK v \in Workers :
        /\ elt[w][v] # 0
        /\ \A u \in 1..(v - 1) : elt[w][u] = 0
        /\ Go(w, "ship", IF \E u \in (v + 1)..N : elt[w][u] # 0 THEN "ship" ELSE "input")
        /\ valid' = [valid EXCEPT ![v] = valid[v] \cup {elt[w][v]}]
        /\ elt' = [elt EXCEPT ![w][v] = 0]
        /\ UNCHANGED <<tail, head, head_hint, target>>
  BY DEF ShipElt
<1>. DEFINE to == IF \E u \in (v + 1)..N : elt[w][u] # 0 THEN "ship" ELSE "input"
            t  == elt[w][v]
<1>2. /\ Barrier!IInv' /\ NoPanic' /\ StopsAtPoll' /\ loc' \in [Workers -> Locations]
      /\ loc'[w] = to /\ \A u \in Workers \ {w} : loc'[u] = loc[u]
      /\ loc[w] = "ship"
  <2>1. to \in Locations
    BY DEF Locations
  <2>. HIDE DEF to
  <2>2. Go(w, "ship", to)
    BY <1>1 DEF to
  <2>. QED
    BY <2>1, <2>2, GoKeeps DEF Go
<1>3. /\ valid'[v] = valid[v] \cup {t} /\ \A x \in Workers : x # v => valid'[x] = valid[x]
      /\ elt'[w][v] = 0 /\ \A u, x \in Workers : u # w \/ x # v => elt'[u][x] = elt[u][x]
  BY <1>1 DEF IInv, TypeOK
<1>4. TypeOK'
  <2>1. t \in 1..MaxTail
    BY <1>1, MaxTailAssumption DEF IInv, TypeOK
  <2>2. valid' \in [Workers -> SUBSET (1..MaxTail)]
    BY <1>1, <2>1 DEF IInv, TypeOK
  <2>3. 0 \in 0..MaxTail
    BY MaxTailAssumption
  <2>4. elt' \in [Workers -> [Workers -> 0..MaxTail]]
    BY <1>1, <2>3 DEF IInv, TypeOK
  <2>. QED
    BY <1>1, <1>2, <2>2, <2>4 DEF IInv, TypeOK, Barrier!IInv
<1>5. NothingLeftOpen'
  <2>1. ASSUME NEW x \in Workers, to = "input" PROVE elt'[w][x] = 0
    <3>1. x \in 1..(v - 1) \/ x = v \/ x \in (v + 1)..N
      BY NAssumption DEF Workers
    <3>2. \A u \in (v + 1)..N : elt[w][u] = 0
      BY <2>1
    <3>. QED
      BY <1>1, <1>3, <3>1, <3>2
  <2>2. to \in {"ship", "input"}
    OBVIOUS
  <2>. HIDE DEF to
  <2>3. ASSUME NEW u \in Workers, NEW x \in Workers,
               loc'[u] \in {"top", "dequeue", "more", "input"}
        PROVE  elt'[u][x] = 0
    <3>1. CASE u = w
      BY <1>2, <2>1, <2>2, <2>3, <3>1
    <3>2. CASE u # w
      BY <1>2, <1>3, <2>3, <3>2 DEF IInv, NothingLeftOpen
    <3>. QED
      BY <3>1, <3>2
  <2>. QED
    BY <2>3 DEF NothingLeftOpen
<1>6. HintBehind'
  BY <1>1 DEF IInv, HintBehind
<1>7. TicketsApart'
  BY <1>1, <1>3 DEF IInv, TicketsApart
<1>8. TicketsKnown'
  <2>1. Holders(v) = Holders(v)' \cup {w} /\ w \notin Holders(v)'
    BY <1>1, <1>3 DEF Holders
  <2>2. \A x \in Workers : x # v => Holders(x)' = Holders(x)
    BY <1>3 DEF Holders
  <2>3. {elt[u][v] : u \in Holders(v)} = {elt'[u][v] : u \in Holders(v)'} \cup {t}
    <3>1. \A u \in Holders(v)' : u \in Workers /\ elt'[u][v] = elt[u][v]
      BY <1>3, <2>1 DEF Holders
    <3>. QED
      BY <1>3, <2>1, <3>1
  <2>5. {elt'[u][v] : u \in Holders(v)'} \cup valid'[v] = (head[v] + 1)..tail[v]
    BY <1>3, <2>3 DEF IInv, TicketsKnown
  <2>6. ASSUME NEW x \in Workers, x # v
        PROVE  {elt'[u][x] : u \in Holders(x)'} \cup valid'[x] = (head[x] + 1)..tail[x]
    <3>1. \A u \in Holders(x) : elt'[u][x] = elt[u][x]
      BY <1>3, <2>6 DEF Holders
    <3>. QED
      BY <1>3, <2>2, <2>6, <3>1 DEF IInv, TicketsKnown
  <2>. QED
    BY <1>1, <2>5, <2>6 DEF TicketsKnown
<1>9. TicketsNear'
  <2>1. \A u, x \in Workers : Writes(u, x)' => Writes(u, x) /\ elt'[u][x] = elt[u][x]
    <3>1. to \notin {"wait", "poll"}
      OBVIOUS
    <3>. HIDE DEF to
    <3>2. ~Waiting(w) /\ ~Waiting(w)'
      BY <1>2, <3>1 DEF Waiting
    <3>3. \A u \in Workers \ {w} : Waiting(u)' <=> Waiting(u)
      BY <1>2 DEF Waiting
    <3>. QED
      BY <1>1, <1>3, <3>2, <3>3 DEF Writes
  <2>2. t < head_hint[v] + NElts
    BY <1>1, <1>2 DEF IInv, TicketsNear, Writes, Waiting
  <2>. QED
    BY <1>1, <1>3, <2>1, <2>2 DEF IInv, TicketsNear
<1>. QED
  BY <1>2, <1>4, <1>5, <1>6, <1>7, <1>8, <1>9 DEF IInv

\* Every step preserves the invariant.
LEMMA NextIInv ==
  ASSUME IInv, [Next]_vars
  PROVE  IInv'
<1>1. CASE UNCHANGED vars
  <2>1. Barrier!IInv'
    BY <1>1, BarrierStutter DEF IInv, vars
  <2>2. main_pc' = main_pc /\ worker_pc' = worker_pc
    BY <1>1 DEF vars, barrierVars
  <2>. QED
    BY <1>1, <2>1, <2>2, StayIInv DEF vars, IInv, NoPanic
<1>2. CASE Main
  BY <1>2, MainIInv
<1>3. ASSUME NEW w \in Workers, Worker(w) PROVE IInv'
  BY <1>3, QuietIInv, DequeueReturnsIInv, DequeueFrameIInv, TakeTicketIInv, ShipEltIInv
     DEF Worker
<1>. QED
  BY <1>1, <1>2, <1>3 DEF Next

\* Empty queues satisfy it.
LEMMA InitIInv == Init => IInv
<1>. SUFFICES ASSUME Init PROVE IInv
  OBVIOUS
<1>1. Barrier!IInv
  BY BarrierInit
<1>2. TypeOK
  BY <1>1, MaxTailAssumption DEF Init, TypeOK, Barrier!IInv, Locations
<1>3. NoPanic /\ StopsAtPoll /\ NothingLeftOpen /\ HintBehind /\ TicketsApart
  BY DEF Init, NoPanic, StopsAtPoll, NothingLeftOpen, HintBehind, TicketsApart
<1>4. TicketsKnown
  <2>1. \A v \in Workers : Holders(v) = {} /\ valid[v] = {} /\ head[v] = 0 /\ tail[v] = 0
    BY DEF Init, Holders
  <2>2. (0 + 1)..0 = {}
    OBVIOUS
  <2>. QED
    BY <2>1, <2>2 DEF TicketsKnown
<1>5. TicketsNear
  BY DEF Init, TicketsNear, Writes
<1>. QED
  BY <1>1, <1>2, <1>3, <1>4, <1>5 DEF IInv

-----------------------------------------------------------------------------
(***************************************************************************)
(* Counting tickets, and elements                                          *)
(***************************************************************************)

\* The invariant accounts for every ticket, once.
LEMMA Accounted == IInv => TicketsAccounted
<1>. SUFFICES ASSUME IInv, NEW v \in Workers
              PROVE  /\ {elt[w][v] : w \in Holders(v)} \cup valid[v] = (head[v] + 1)..tail[v]
                     /\ Cardinality(Holders(v)) + Cardinality(valid[v]) = tail[v] - head[v]
  BY DEF TicketsAccounted
<1>. DEFINE H == Holders(v)
            T == {elt[w][v] : w \in H}
            f == [w \in H |-> elt[w][v]]
<1>1. T \cup valid[v] = (head[v] + 1)..tail[v]
  BY DEF IInv, TicketsKnown
<1>2. IsFiniteSet(H)
  BY WorkersFinite, FS_Subset DEF Holders
<1>3. IsFiniteSet(T) /\ Cardinality(T) = Cardinality(H)
  <2>1. \A a, b \in H : elt[a][v] = elt[b][v] => a = b
    BY DEF IInv, TicketsApart, Holders
  <2>. HIDE DEF H
  <2>2. f \in Injection(H, T) /\ f \in Surjection(H, T)
    BY <2>1 DEF Injection, Surjection, IsInjective
  <2>3. f \in Bijection(H, T)
    BY <2>2 DEF Bijection
  <2>. QED
    BY <1>2, <2>3, FS_Bijection DEF ExistsBijection
<1>4. T \cap valid[v] = {}
  BY DEF IInv, TicketsApart, Holders
<1>5. /\ head[v] \in Nat /\ tail[v] \in Nat /\ head[v] <= tail[v]
  BY Types DEF IInv, HintBehind
<1>6. /\ IsFiniteSet((head[v] + 1)..tail[v])
      /\ Cardinality((head[v] + 1)..tail[v]) = tail[v] - head[v]
  <2>1. /\ IsFiniteSet((head[v] + 1)..tail[v])
        /\ Cardinality((head[v] + 1)..tail[v]) =
             IF head[v] + 1 > tail[v] THEN 0 ELSE tail[v] - (head[v] + 1) + 1
    <3>1. head[v] + 1 \in Int /\ tail[v] \in Int
      BY <1>5
    <3>. QED
      BY <3>1, FS_Interval
  <2>. QED
    BY <1>5, <2>1
<1>7. IsFiniteSet(valid[v])
  BY <1>1, <1>6, FS_Subset
<1>. HIDE DEF T, H
<1>8. Cardinality(T \cup valid[v]) = Cardinality(T) + Cardinality(valid[v])
  <2>1. Cardinality(T \cup valid[v]) =
          Cardinality(T) + Cardinality(valid[v]) - Cardinality(T \cap valid[v])
    BY <1>3, <1>7, FS_Union
  <2>2. Cardinality(T) \in Nat /\ Cardinality(valid[v]) \in Nat
    BY <1>3, <1>7, FS_CardinalityType
  <2>. QED
    BY <1>4, <2>1, <2>2, FS_EmptySet
<1>. QED
  BY <1>1, <1>3, <1>6, <1>8 DEF T, H

\* Two different tickets less than nelts apart are different elements.
LEMMA SlotsApart ==
  ASSUME NEW t \in Nat, NEW d \in 1..(NElts - 1)
  PROVE  t % NElts # (t + d) % NElts
<1>. DEFINE a == t \div NElts
            b == (t + d) \div NElts
            r == t % NElts
            s == (t + d) % NElts
<1>1. /\ t = NElts * a + r /\ a \in Nat /\ r \in Nat
      /\ t + d = NElts * b + s /\ b \in Nat /\ s \in Nat
  BY NEltsAssumption
<1>. SUFFICES ASSUME r = s PROVE FALSE
  OBVIOUS
<1>. HIDE DEF a, b, r, s
<1>2. d = NElts * b - NElts * a /\ NElts * a \in Nat /\ NElts * b \in Nat
  BY <1>1, NEltsAssumption
<1>3. CASE b <= a
  <2>1. NElts * b <= NElts * a
    BY <1>1, <1>3, NEltsAssumption
  <2>. QED
    BY <1>2, <2>1, NEltsAssumption
<1>4. CASE a + 1 <= b
  <2>1. NElts * (a + 1) <= NElts * b /\ NElts * (a + 1) = NElts * a + NElts
    BY <1>1, <1>4, NEltsAssumption
  <2>. QED
    BY <1>2, <2>1, NEltsAssumption
<1>. QED
  BY <1>1, <1>3, <1>4

\* All the tickets in use lie between the head and the hint plus nelts, so that no
\* two of them have the same element.
LEMMA Apart == IInv => ElementsApart
<1>. SUFFICES ASSUME IInv, NEW v \in Workers,
                     NEW t \in Occupied(v), NEW u \in Occupied(v), t < u
              PROVE  t % NElts # u % NElts
  <2>1. IInv => \A y \in Workers : \A x \in Occupied(y) : x \in Nat
    BY Types DEF IInv, Occupied
  <2>. QED
    BY <2>1 DEF ElementsApart
<1>1. ASSUME NEW x \in Occupied(v)
      PROVE  x \in Nat /\ head[v] < x /\ x < head_hint[v] + NElts
  <2>1. x \in (head[v] + 1)..tail[v]
    BY DEF IInv, TicketsKnown, Occupied, Holders, Writes
  <2>2. x < head_hint[v] + NElts
    BY DEF IInv, TicketsNear, Occupied
  <2>. QED
    BY <2>1, <2>2, Types DEF IInv
<1>2. /\ head[v] \in Nat /\ head_hint[v] \in Nat /\ head_hint[v] <= head[v]
  BY Types DEF IInv, HintBehind
<1>3. t \in Nat /\ u - t \in 1..(NElts - 1) /\ u = t + (u - t)
  BY <1>1, <1>2, NEltsAssumption
<1>. QED
  BY <1>3, SlotsApart

-----------------------------------------------------------------------------
(***************************************************************************)
(* The theorems                                                            *)
(***************************************************************************)

\* The inductive invariant holds in every reachable state.
THEOREM IInvHolds == Spec => []IInv
<1>1. Init => IInv
  BY InitIInv
<1>2. IInv /\ [Next]_vars => IInv'
  BY NextIInv
<1>. QED
  BY <1>1, <1>2, PTL DEF Spec

\* No ticket of a frame queue is lost and none is held twice, whatever workers hand
\* off to one another and whenever the main thread stops them.
THEOREM NoTicketLost == Spec => []TicketsAccounted
  BY IInvHolds, Accounted, PTL

\* Two tickets in use never have the same element of vlib_frame_queue_t.
THEOREM OwnElements == Spec => []ElementsApart
  BY IInvHolds, Apart, PTL

\* worker_handoff_node_fn returns with every element it opened handed over.
THEOREM AllShipped == Spec => []NothingLeftOpen
<1>1. IInv => NothingLeftOpen
  BY DEF IInv
<1>. QED
  BY <1>1, IInvHolds, PTL

\* No queue changes and no worker moves while the main thread holds the barrier,
\* even with workers stopped in the middle of worker_handoff_node_fn.
THEOREM Quiet == Spec => QuietWhileHeld
<1>1. IInv /\ [Next]_vars => [main_pc = "held" => UNCHANGED <<queueVars, loc>>]_vars
  <2>. SUFFICES ASSUME IInv, Next, main_pc = "held" PROVE UNCHANGED <<queueVars, loc>>
    OBVIOUS
  <2>1. wait_at_barrier = 1 /\ \A w \in Workers : worker_pc[w] = "spin"
    BY DEF IInv, Barrier!IInv, Barrier!PhaseHeld, Barrier!WorkersIn
  <2>2. CASE Main
    BY <2>2 DEF Main
  <2>3. ASSUME NEW w \in Workers, Worker(w) PROVE FALSE
    <3>1. worker_pc[w] = "spin"
      BY <2>1
    <3>. QED
      BY <2>1, <2>3, <3>1
         DEF Worker, PollStops, PollPasses, AtBarrier, LeaveBarrier, DequeueReturns,
             DequeueFrame, LoopEnds, TakeTicket, WaitContinues, SlotAvailable,
             FrameEnds, ShipElt, Go, Barrier!BarrierCheck, Barrier!BarrierEnter,
             Barrier!BarrierSpinEnds, Barrier!BarrierLeave
  <2>. QED
    BY <2>2, <2>3 DEF Next
<1>. QED
  BY <1>1, IInvHolds, PTL DEF Spec, QuietWhileHeld
=============================================================================
