------------------------- MODULE MainThreadRpcProofs -------------------------
(***************************************************************************)
(* For any number of workers, clients, messages and queue elements: no     *)
(* worker brings the mutex of the main input queue to the barrier, a       *)
(* handler that asked for the barrier runs alone, a sleeping client is     *)
(* sure to be woken, and no call is lost or handled twice.                 *)
(*                                                                         *)
(* What the barrier does is not proved again: the steps of this module     *)
(* are steps of WorkerBarrier or leave its variables alone, and the lemmas *)
(* of WorkerBarrierProofs carry its invariant over them.                   *)
(***************************************************************************)
EXTENDS MainThreadRpc, FiniteSetTheorems, TLAPS

BP == INSTANCE WorkerBarrierProofs WITH MaxRecursion <- 2, Impatient <- FALSE

-----------------------------------------------------------------------------
(***************************************************************************)
(* The barrier                                                             *)
(***************************************************************************)

\* The constants satisfy what WorkerBarrierProofs assumes of them.
LEMMA BarrierAssumptions ==
  BP!WorkersAssumption /\ BP!RecursionAssumption /\ BP!ImpatientAssumption
<1>1. BP!WorkersAssumption
  BY ThreadsAssumption DEF BP!WorkersAssumption, BP!IsFiniteSet, IsFiniteSet
<1>2. BP!RecursionAssumption /\ BP!ImpatientAssumption
  BY DEF BP!RecursionAssumption, BP!ImpatientAssumption
<1>. QED
  BY <1>1, <1>2

\* The invariant of the barrier in the instance of the proofs is the one in the
\* instance of the specification.
LEMMA BarrierSame == BP!IInv <=> Barrier!IInv
<1>1. BP!Cardinality(Workers) = Barrier!Cardinality(Workers)
  BY DEF BP!Cardinality, Barrier!Cardinality
<1>2. BP!Cardinality(BP!Counted) = Barrier!Cardinality(Barrier!Counted)
  BY DEF BP!Cardinality, Barrier!Cardinality, BP!Counted, Barrier!Counted
<1>. QED
  BY <1>1, <1>2
  DEF Barrier!IInv, Barrier!CountExact, Barrier!TypeOK, Barrier!count,
      Barrier!PhaseRun, Barrier!PhaseSync, Barrier!PhaseHeld, Barrier!PhaseRelease,
      Barrier!PhasePanic, Barrier!WorkersIn, Barrier!MainStates, Barrier!WorkerStates,
      BP!IInv, BP!CountExact, BP!TypeOK, BP!count,
      BP!PhaseRun, BP!PhaseSync, BP!PhaseHeld, BP!PhaseRelease,
      BP!PhasePanic, BP!WorkersIn, BP!MainStates, BP!WorkerStates

\* The same in the state after a step.
LEMMA BarrierSamePrime == BP!IInv' <=> Barrier!IInv'
  BY BarrierSame, PTL

\* A step of the main thread in the barrier keeps the barrier's invariant.
LEMMA BarrierMainStep ==
  ASSUME Barrier!IInv, main_pc # "panic",
         \/ Barrier!BarrierSync \/ Barrier!BarrierSyncNested
         \/ Barrier!BarrierSyncDone \/ Barrier!BarrierReleaseNested
         \/ Barrier!BarrierRelease \/ Barrier!BarrierReleaseDone
  PROVE  Barrier!IInv'
<1>1. BP!Main
  BY DEF BP!Main,
         BP!BarrierSync, BP!BarrierSyncNested, BP!BarrierSyncDone,
         BP!BarrierReleaseNested, BP!BarrierRelease, BP!BarrierReleaseDone,
         Barrier!BarrierSync, Barrier!BarrierSyncNested, Barrier!BarrierSyncDone,
         Barrier!BarrierReleaseNested, Barrier!BarrierRelease,
         Barrier!BarrierReleaseDone, BP!count, Barrier!count,
         BP!Cardinality, Barrier!Cardinality
<1>2. BP!IInv /\ BP!Alive
  BY BarrierSame DEF BP!Alive
<1>3. BP!IInv'
  BY <1>1, <1>2, BarrierAssumptions, BP!MainIInv
<1>. QED
  BY <1>3, BarrierSamePrime

\* So does a step of a worker in the barrier.
LEMMA BarrierWorkerStep ==
  ASSUME Barrier!IInv, main_pc # "panic", NEW w \in Workers,
         \/ Barrier!BarrierCheck(w) \/ Barrier!BarrierEnter(w)
         \/ Barrier!BarrierSpinEnds(w) \/ Barrier!BarrierLeave(w)
  PROVE  Barrier!IInv'
<1>1. BP!Worker(w)
  BY DEF BP!Worker,
         BP!BarrierCheck, BP!BarrierEnter, BP!BarrierSpinEnds, BP!BarrierLeave,
         Barrier!BarrierCheck, Barrier!BarrierEnter, Barrier!BarrierSpinEnds,
         Barrier!BarrierLeave
<1>2. BP!IInv /\ BP!Alive
  BY BarrierSame DEF BP!Alive
<1>3. BP!IInv'
  BY <1>1, <1>2, BarrierAssumptions, BP!WorkerIInv
<1>. QED
  BY <1>3, BarrierSamePrime

\* So does a step that leaves the barrier alone.
LEMMA BarrierStutter ==
  ASSUME Barrier!IInv, UNCHANGED barrierVars
  PROVE  Barrier!IInv'
<1>1. BP!IInv /\ UNCHANGED BP!vars
  BY BarrierSame DEF BP!vars, barrierVars
<1>2. BP!IInv'
  BY <1>1, BarrierAssumptions, BP!StutterIInv
<1>. QED
  BY <1>2, BarrierSamePrime

\* Once the workers run, the barrier is idle and nobody is counted.
LEMMA BarrierInit == Init => Barrier!IInv
<1>1. Init => BP!IInv
  BY BarrierAssumptions, BP!IdleIInv DEF Init
<1>. QED
  BY <1>1, BarrierSame

-----------------------------------------------------------------------------
(***************************************************************************)
(* Calls whose message is not in the queue yet                             *)
(***************************************************************************)

\* The threads with a call in progress form a finite set.
LEMMA PendingFinite == IsFiniteSet(Pending) /\ Cardinality(Pending) \in Nat
<1>1. IsFiniteSet(Workers \cup Clients)
  BY ThreadsAssumption, FS_Union
<1>2. Pending \subseteq Workers \cup Clients
  BY DEF Pending
<1>3. IsFiniteSet(Pending)
  BY <1>1, <1>2, FS_Subset
<1>. QED
  BY <1>3, FS_CardinalityType

\* A thread that begins a call joins them.
LEMMA PendingUp ==
  ASSUME TypeOK, NEW t \in Workers \cup Clients, NEW to \in CallLocs,
         loc[t] \notin CallLocs, loc' = [loc EXCEPT ![t] = to]
  PROVE  Cardinality(Pending') = Cardinality(Pending) + 1
<1>1. Pending' = Pending \cup {t}
  BY DEF Pending, TypeOK
<1>2. t \notin Pending
  BY DEF Pending
<1>. QED
  BY <1>1, <1>2, PendingFinite, FS_AddElement

\* A thread that has put its message into the queue leaves them.
LEMMA PendingDown ==
  ASSUME TypeOK, NEW t \in Workers \cup Clients, NEW to, to \notin CallLocs,
         loc[t] \in CallLocs, loc' = [loc EXCEPT ![t] = to]
  PROVE  Cardinality(Pending') = Cardinality(Pending) - 1
<1>1. Pending' = Pending \ {t}
  BY DEF Pending, TypeOK
<1>2. t \in Pending
  BY DEF Pending
<1>. QED
  BY <1>1, <1>2, PendingFinite, FS_RemoveElement

\* Every other move leaves the set as it is.
LEMMA PendingKept ==
  ASSUME TypeOK, NEW t \in Workers \cup Clients, NEW to,
         loc[t] \in CallLocs <=> to \in CallLocs, loc' = [loc EXCEPT ![t] = to]
  PROVE  Pending' = Pending
  BY DEF Pending, TypeOK

\* A call that begins is with its caller.
LEMMA CallsBegin ==
  ASSUME TypeOK, CallsAccounted, calls < MaxCalls, calls' = calls + 1,
         Cardinality(Pending') = Cardinality(Pending) + 1,
         UNCHANGED <<handled, queue, msg>>
  PROVE  CallsAccounted' /\ calls' \in 0..MaxCalls
  BY SMTT(30), PendingFinite, MaxCallsAssumption DEF TypeOK, CallsAccounted, Taken

\* A message that is sent goes from its caller to the queue.
LEMMA CallsSent ==
  ASSUME TypeOK, CallsAccounted, Len(queue') = Len(queue) + 1,
         Cardinality(Pending') = Cardinality(Pending) - 1,
         UNCHANGED <<handled, calls, msg>>
  PROVE  CallsAccounted'
  BY PendingFinite DEF TypeOK, CallsAccounted, Taken

\* A message whose handler returns is counted once, by its handler or as handled.
LEMMA CallsHandled ==
  ASSUME TypeOK, CallsAccounted, handled' \in Nat,
         handled' + Taken' = handled + Taken,
         Pending' = Pending, UNCHANGED <<queue, calls>>
  PROVE  CallsAccounted' /\ handled' \in 0..MaxCalls
<1>1. /\ Cardinality(Pending) \in Nat /\ Len(queue) \in Nat /\ MaxCalls \in Nat
      /\ calls \in 0..MaxCalls /\ handled \in Nat /\ Taken \in Nat /\ Taken' \in Nat
  BY PendingFinite, MaxCallsAssumption DEF TypeOK, Taken
<1>2. calls = handled' + Taken' + Len(queue) + Cardinality(Pending)
  BY <1>1 DEF CallsAccounted
<1>3. CallsAccounted'
  BY <1>2 DEF CallsAccounted
<1>. QED
  BY <1>1, <1>2, <1>3

-----------------------------------------------------------------------------
(***************************************************************************)
(* The steps                                                               *)
(***************************************************************************)

\* At the start nobody has called and nobody holds the mutex.
LEMMA InitIInv == Init => IInv
<1>. SUFFICES ASSUME Init PROVE IInv
  OBVIOUS
<1>1. Barrier!IInv
  BY BarrierInit
<1>2. Pending = {}
  BY DEF Init, Pending, CallLocs
<1>3. CallsAccounted
  BY <1>2, FS_EmptySet DEF Init, CallsAccounted, Taken
<1>4. TypeOK
  <2>1. /\ loc \in [Workers \cup Clients -> WorkerLocs \cup ClientLocs]
        /\ \A w \in Workers : loc[w] \in WorkerLocs
        /\ \A c \in Clients : loc[c] \in ClientLocs
    BY ThreadsAssumption DEF Init, WorkerLocs, ClientLocs
  <2>2. queue \in Seq(Messages) /\ Len(queue) <= MaxSize
    BY MaxSizeAssumption DEF Init
  <2>3. queue_signal_pending \in BOOLEAN
    BY Zenon DEF Init
  <2>. QED
    BY <1>1, <2>1, <2>2, <2>3, MaxCallsAssumption
       DEF Init, TypeOK, Barrier!IInv, MainLocs
<1>5. MutexOwner
  BY ThreadsAssumption DEF Init, MutexOwner
<1>. QED
  BY <1>1, <1>3, <1>4, <1>5
     DEF Init, IInv, MainPhase, MsgPhase, StoppedPolling, SleepersCovered

\* The steps of a worker, with the barrier and the count of pending calls.
LEMMA WorkerIInv ==
  ASSUME IInv, NEW w \in Workers, Worker(w)
  PROVE  IInv'
<1>. USE ThreadsAssumption, MaxSizeAssumption, MaxCallsAssumption, PendingFinite
     DEF IInv, TypeOK, MainPhase, MsgPhase, StoppedPolling, MutexOwner,
         SleepersCovered, CallsAccounted, Taken, WorkerLocs, ClientLocs, CallLocs,
         mainVars, barrierVars, AfterPoll
<1>0. main_pc # "panic" /\ worker_pc \in [Workers -> Barrier!WorkerStates]
  BY DEF MainLocs, Barrier!IInv, Barrier!TypeOK
<1>1. CASE PollStops(w)
  <2>1. Barrier!IInv'
    BY <1>0, <1>1, BarrierWorkerStep DEF PollStops
  <2>2. Pending' = Pending
    BY <1>1 DEF PollStops, Pending
  <2>. QED
    BY <1>0, <1>1, <2>1, <2>2 DEF PollStops, Barrier!IInv, Barrier!BarrierCheck
<1>2. CASE PollPasses(w)
  <2>1. Barrier!IInv'
    BY <1>2, BarrierStutter DEF PollPasses, Go
  <2>2. Pending' = Pending
    BY <1>2, PendingKept DEF PollPasses, Go
  <2>. QED
    BY <1>2, <2>1, <2>2 DEF PollPasses, Go, Barrier!IInv
<1>3. CASE AtBarrier(w)
  <2>1. Barrier!IInv'
    BY <1>0, <1>3, BarrierWorkerStep DEF AtBarrier
  <2>2. Pending' = Pending
    BY <1>3 DEF AtBarrier, Pending
  <2>. QED
    BY <1>0, <1>3, <2>1, <2>2 DEF AtBarrier, Barrier!IInv, Barrier!BarrierEnter,
       Barrier!BarrierSpinEnds
<1>4. CASE LeaveBarrier(w)
  <2>1. Barrier!IInv'
    BY <1>0, <1>4, BarrierWorkerStep DEF LeaveBarrier
  <2>2. loc[w] \in {"top", "poll"}
    BY <1>4 DEF LeaveBarrier, Barrier!BarrierLeave
  <2>3. Pending' = Pending
    BY <1>4, <2>2, PendingKept DEF LeaveBarrier
  <2>. QED
    BY <1>0, <1>4, <2>1, <2>2, <2>3 DEF LeaveBarrier, Barrier!IInv, Barrier!BarrierLeave
<1>5. ASSUME NEW from, NEW to, Go(w, from, to)
      PROVE  /\ Barrier!IInv'
             /\ MainPhase' /\ MsgPhase'
             /\ main_loc' = main_loc /\ msg' = msg /\ handled' = handled
             /\ to \in WorkerLocs =>
                  /\ \A v \in Workers : loc'[v] \in WorkerLocs
                  /\ \A c \in Clients : loc'[c] = loc[c]
                  /\ loc' \in [Workers \cup Clients -> WorkerLocs \cup ClientLocs]
                  /\ StoppedPolling'
  <2>1. Barrier!IInv'
    BY <1>5, BarrierStutter DEF Go
  <2>. QED
    BY <1>5, <2>1 DEF Go
<1>6. CASE NodesReturn(w)
  <2>1. Pending' = Pending
    BY <1>6, PendingKept DEF NodesReturn, Go
  <2>. QED
    BY <1>6, <1>5, <2>1 DEF NodesReturn, Go, Barrier!IInv
<1>7. CASE RpcCall(w)
  <2>1. Cardinality(Pending') = Cardinality(Pending) + 1
    BY <1>7, PendingUp DEF RpcCall, Go
  <2>2. CallsAccounted' /\ calls' \in 0..MaxCalls
    BY <1>7, <2>1, CallsBegin DEF RpcCall, Go
  <2>. QED
    BY <1>7, <1>5, <2>2 DEF RpcCall, Go, Barrier!IInv
<1>8. CASE TrylockFails(w)
  <2>1. Pending' = Pending
    BY <1>8, PendingKept DEF TrylockFails, Go
  <2>. QED
    BY <1>8, <1>5, <2>1 DEF TrylockFails, Go, Barrier!IInv
<1>9. CASE TrylockTakes(w)
  <2>1. Pending' = Pending
    BY <1>9, PendingKept DEF TrylockTakes, Go
  <2>. QED
    BY <1>9, <1>5, <2>1 DEF TrylockTakes, Go, Barrier!IInv
<1>10. CASE RpcFull(w)
  <2>1. Pending' = Pending
    BY <1>10, PendingKept DEF RpcFull, Go
  <2>. QED
    BY ZenonT(60), <1>10, <1>5, <2>1 DEF RpcFull, Go, Barrier!IInv
<1>11. CASE RpcSends(w)
  <2>1. Cardinality(Pending') = Cardinality(Pending) - 1
    BY <1>11, PendingDown DEF RpcSends, Go
  <2>2. queue' \in Seq(Messages) /\ Len(queue') = Len(queue) + 1
    BY <1>11 DEF RpcSends, Messages
  <2>3. CallsAccounted'
    BY <1>11, <2>1, <2>2, CallsSent DEF RpcSends, Go
  <2>4. Len(queue') <= MaxSize
    BY <1>11, <2>2 DEF RpcSends, IsFull
  <2>5. SleepersCovered'
    BY <1>11, <1>5, <2>2 DEF RpcSends
  <2>6. MutexOwner'
    BY <1>11, <1>5 DEF RpcSends, Go
  <2>7. TypeOK'
    BY <1>11, <1>5, <2>2, <2>4 DEF RpcSends, Go, Barrier!IInv
  <2>. QED
    BY <1>11, <1>5, <2>3, <2>5, <2>6, <2>7 DEF RpcSends
<1>12. CASE RpcReturns(w)
  <2>1. Pending' = Pending
    BY <1>12, PendingKept DEF RpcReturns, Go
  <2>. QED
    BY ZenonT(60), <1>12, <1>5, <2>1 DEF RpcReturns, Go, Barrier!IInv
<1>. QED
  BY <1>1, <1>2, <1>3, <1>4, <1>6, <1>7, <1>8, <1>9, <1>10, <1>11, <1>12 DEF Worker

\* The steps of a client.
LEMMA ClientIInv ==
  ASSUME IInv, NEW c \in Clients, Client(c)
  PROVE  IInv'
<1>. USE ThreadsAssumption, MaxSizeAssumption, MaxCallsAssumption, PendingFinite
     DEF IInv, TypeOK, MainPhase, MsgPhase, StoppedPolling, MutexOwner,
         SleepersCovered, CallsAccounted, Taken, WorkerLocs, ClientLocs, CallLocs,
         mainVars, barrierVars
<1>1. ASSUME NEW from, NEW to, Move(c, from, to)
      PROVE  /\ Barrier!IInv'
             /\ MainPhase' /\ MsgPhase' /\ StoppedPolling'
             /\ main_loc' = main_loc /\ msg' = msg /\ handled' = handled
             /\ queue_signal_pending' = queue_signal_pending
             /\ to \in ClientLocs =>
                  /\ \A v \in Workers : loc'[v] \in WorkerLocs
                  /\ \A d \in Clients : loc'[d] \in ClientLocs
                  /\ loc' \in [Workers \cup Clients -> WorkerLocs \cup ClientLocs]
  <2>1. Barrier!IInv'
    BY <1>1, BarrierStutter DEF Move
  <2>. QED
    BY <1>1, <2>1 DEF Move
<1>2. CASE ClientLocks(c)
  <2>1. Cardinality(Pending') = Cardinality(Pending) + 1
    BY <1>2, PendingUp DEF ClientLocks, Move
  <2>2. CallsAccounted' /\ calls' \in 0..MaxCalls
    BY <1>2, <2>1, CallsBegin DEF ClientLocks, Move
  <2>. QED
    BY <1>2, <1>1, <2>2 DEF ClientLocks, Move, Barrier!IInv
<1>3. CASE ClientWaits(c)
  <2>1. Pending' = Pending
    BY <1>3, PendingKept DEF ClientWaits, Move
  <2>2. SleepersCovered'
    BY <1>3 DEF ClientWaits, Move, IsFull
  <2>. QED
    BY ZenonT(60), <1>3, <1>1, <2>1, <2>2 DEF ClientWaits, Move, Barrier!IInv
<1>4. CASE ClientRelocks(c)
  <2>1. Pending' = Pending
    BY <1>4, PendingKept DEF ClientRelocks, Move
  <2>. QED
    BY <1>4, <1>1, <2>1 DEF ClientRelocks, Move, Barrier!IInv
<1>5. CASE ClientSends(c)
  <2>1. Cardinality(Pending') = Cardinality(Pending) - 1
    BY <1>5, PendingDown DEF ClientSends, Move
  <2>2. queue' \in Seq(Messages) /\ Len(queue') = Len(queue) + 1
    BY <1>5 DEF ClientSends, Messages
  <2>3. CallsAccounted'
    BY <1>5, <2>1, <2>2, CallsSent DEF ClientSends, Move
  <2>4. Len(queue') <= MaxSize
    BY <1>5, <2>2 DEF ClientSends, IsFull
  <2>5. SleepersCovered'
    BY <1>5, <1>1, <2>2 DEF ClientSends, Move
  <2>6. MutexOwner'
    BY <1>5, <1>1 DEF ClientSends, Move
  <2>7. TypeOK'
    BY <1>5, <1>1, <2>2, <2>4 DEF ClientSends, Move, Barrier!IInv
  <2>. QED
    BY <1>5, <1>1, <2>3, <2>5, <2>6, <2>7 DEF ClientSends
<1>6. CASE ClientReturns(c)
  <2>1. Pending' = Pending
    BY <1>6, PendingKept DEF ClientReturns, Move
  <2>. QED
    BY ZenonT(60), <1>6, <1>1, <2>1 DEF ClientReturns, Move, Barrier!IInv
<1>. QED
  BY <1>2, <1>3, <1>4, <1>5, <1>6 DEF Client, InCall

\* memclnt_process at the queue.
LEMMA ProcessIInv ==
  ASSUME IInv, Process
  PROVE  IInv'
<1>. USE ThreadsAssumption, MaxSizeAssumption, MaxCallsAssumption, PendingFinite
     DEF IInv, TypeOK, MainPhase, MsgPhase, StoppedPolling, MutexOwner,
         SleepersCovered, CallsAccounted, Taken, WorkerLocs, ClientLocs, CallLocs,
         MainLocs, MainGo
<1>1. Barrier!IInv'
  BY BarrierStutter
     DEF Process, ProcessLocks, ProcessFindsNone, ProcessTakes, ProcessBroadcasts
<1>2. CASE ProcessLocks
  <2>1. Pending' = Pending
    BY <1>2 DEF ProcessLocks, Pending
  <2>. QED
    BY <1>1, <1>2, <2>1 DEF ProcessLocks, Barrier!IInv, barrierVars
<1>3. CASE ProcessFindsNone
  <2>1. Pending' = Pending
    BY <1>3 DEF ProcessFindsNone, Pending
  <2>. QED
    BY <1>1, <1>3, <2>1 DEF ProcessFindsNone, Barrier!IInv, barrierVars
<1>4. CASE ProcessTakes
  <2>1. Pending' = Pending
    BY <1>4 DEF ProcessTakes, Pending
  <2>2. /\ queue' \in Seq(Messages) /\ Len(queue') = Len(queue) - 1
        /\ msg' \in Messages
    BY <1>4 DEF ProcessTakes
  <2>3. msg = "none" /\ msg' # "none"
    BY <1>4, <2>2 DEF ProcessTakes, Messages
  <2>4. CallsAccounted'
    BY <1>4, <2>1, <2>2, <2>3 DEF ProcessTakes
  <2>5. SleepersCovered'
    <3>1. MaxSize \div 2 \in Nat /\ Len(queue) \in Nat
      OBVIOUS
    <3>2. /\ \A c \in Clients : loc[c] = "sleep" => Len(queue) >= MaxSize \div 2
          /\ main_loc' = "broadcast" \/ Len(queue) # MaxSize \div 2
          /\ loc' = loc
      BY <1>4 DEF ProcessTakes, NeedBroadcast
    <3>. HIDE DEF IInv
    <3>. QED
      BY <2>2, <3>1, <3>2
  <2>6. MutexOwner'
    BY <1>4 DEF ProcessTakes
  <2>7. TypeOK'
    BY <1>1, <1>4, <2>2 DEF ProcessTakes, Barrier!IInv
  <2>. QED
    BY <1>1, <1>4, <2>3, <2>4, <2>5, <2>6, <2>7 DEF ProcessTakes, barrierVars
<1>5. CASE ProcessBroadcasts
  <2>1. Pending' = Pending
    BY <1>5 DEF ProcessBroadcasts, Pending
  <2>2. /\ \A v \in Workers : loc'[v] = loc[v]
        /\ \A c \in Clients : loc'[c] \in ClientLocs /\ loc'[c] # "sleep"
        /\ \A c \in Clients : loc'[c] \in {"body", "unlock"} <=> loc[c] \in {"body", "unlock"}
        /\ loc' \in [Workers \cup Clients -> WorkerLocs \cup ClientLocs]
    BY <1>5 DEF ProcessBroadcasts
  <2>3. MutexOwner' /\ SleepersCovered' /\ StoppedPolling'
    BY <1>5, <2>2 DEF ProcessBroadcasts, barrierVars
  <2>4. TypeOK'
    BY <1>1, <1>5, <2>2 DEF ProcessBroadcasts, Barrier!IInv
  <2>. QED
    BY <1>1, <1>5, <2>1, <2>3, <2>4 DEF ProcessBroadcasts, barrierVars
<1>. QED
  BY <1>2, <1>3, <1>4, <1>5 DEF Process

\* The handlers, the events and the direct calls of the main thread: none of them
\* touches the queue, the mutex or a worker that runs.
LEMMA RestOfMainIInv ==
  ASSUME IInv,
         \/ Handler \/ QueueCallback \/ Resume
         \/ DirectCall \/ DirectGoesOn \/ DirectReturns
  PROVE  IInv'
<1>. USE DEF MainGo, HandlerReturned, threadVars, barrierVars, Handler
<1>. USE DEF HandlesMpSafe, HandlerSync, HandlerRuns, RpcHandlerSync,
             RpcHandlerRelease, HandlerRelease, HandlerReleased, QueueCallback,
             Resume, DirectCall, DirectGoesOn, DirectReturns
<1>0. main_pc # "panic"
  BY DEF IInv, TypeOK, MainPhase, MainLocs
<1>1. Barrier!IInv'
  <2>1. Barrier!IInv
    BY DEF IInv
  <2>2. CASE UNCHANGED barrierVars
    BY <2>1, <2>2, BarrierStutter
  <2>3. CASE \/ Barrier!BarrierSync \/ Barrier!BarrierSyncNested
             \/ Barrier!BarrierSyncDone \/ Barrier!BarrierReleaseNested
             \/ Barrier!BarrierRelease \/ Barrier!BarrierReleaseDone
    BY <1>0, <2>1, <2>3, BarrierMainStep
  <2>. QED
    BY <2>2, <2>3
<1>2. UNCHANGED <<mutex, queue, loc, calls, worker_pc>>
  BY DEF Barrier!BarrierSync, Barrier!BarrierSyncNested, Barrier!BarrierSyncDone,
         Barrier!BarrierReleaseNested, Barrier!BarrierRelease,
         Barrier!BarrierReleaseDone
<1>3. /\ main_loc \notin {"body", "broadcast"} /\ main_loc' \in MainLocs
      /\ main_loc' \notin {"body", "broadcast"}
  BY DEF MainLocs
<1>4. MainPhase'
  BY DEF IInv, MainPhase,
         Barrier!BarrierSync, Barrier!BarrierSyncNested, Barrier!BarrierSyncDone,
         Barrier!BarrierReleaseNested, Barrier!BarrierRelease,
         Barrier!BarrierReleaseDone
<1>5. MsgPhase'
  BY DEF IInv, MsgPhase
<1>6. /\ msg' \in Messages \cup {"none"} /\ handled' \in Nat
      /\ handled' + Taken' = handled + Taken
  BY DEF IInv, TypeOK, MsgPhase, Taken
<1>7. queue_signal_pending' \in BOOLEAN
  <2>1. queue_signal_pending \in BOOLEAN
    BY DEF IInv, TypeOK
  <2>2. \/ queue_signal_pending' = queue_signal_pending
        \/ queue_signal_pending' = TRUE \/ queue_signal_pending' = FALSE
    BY Zenon
  <2>. QED
    BY <2>1, <2>2, Zenon
<1>8. Pending' = Pending
  BY <1>2 DEF Pending
<1>9. CallsAccounted' /\ handled' \in 0..MaxCalls
  BY <1>2, <1>6, <1>8, CallsHandled DEF IInv
<1>10. MutexOwner' /\ SleepersCovered' /\ StoppedPolling'
  BY <1>2, <1>3 DEF IInv, MutexOwner, SleepersCovered, StoppedPolling
<1>11. TypeOK'
  BY <1>1, <1>2, <1>3, <1>6, <1>7, <1>9 DEF IInv, TypeOK, Barrier!IInv
<1>. QED
  BY <1>1, <1>4, <1>5, <1>9, <1>10, <1>11 DEF IInv

\* A step that changes nothing.
LEMMA StutterIInv ==
  ASSUME IInv, UNCHANGED vars
  PROVE  IInv'
<1>1. Barrier!IInv'
  BY BarrierStutter DEF IInv, vars
<1>2. Pending' = Pending
  BY DEF Pending, vars
<1>. QED
  BY <1>1, <1>2 DEF IInv, vars, barrierVars, TypeOK, Barrier!IInv, MainPhase, MsgPhase,
     StoppedPolling, MutexOwner, SleepersCovered, CallsAccounted, Taken

-----------------------------------------------------------------------------
(***************************************************************************)
(* The theorems                                                            *)
(***************************************************************************)

\* The invariant holds in every reachable state.
THEOREM IInvHolds == Spec => []IInv
<1>1. IInv /\ [Next]_vars => IInv'
  BY WorkerIInv, ClientIInv, ProcessIInv, RestOfMainIInv, StutterIInv
     DEF Next, MainThread, ResumeOnEvent, ResumeOnClock
<1>. QED
  BY InitIInv, <1>1, PTL DEF Spec

\* The queue never holds more than maxsize messages, and every location, message
\* and counter stays in its range.
THEOREM TypeCorrect == Spec => []TypeOK
<1>1. IInv => TypeOK
  BY DEF IInv
<1>. QED
  BY <1>1, IInvHolds, PTL

\* A worker that vlib_worker_thread_barrier_check has stopped, in its dispatch loop
\* or in vl_api_rpc_call_main_thread, does not hold the mutex of the queue.
THEOREM NoMutex == Spec => []NoMutexAtBarrier
<1>1. IInv => NoMutexAtBarrier
  BY DEF IInv, StoppedPolling, MutexOwner, NoMutexAtBarrier
<1>. QED
  BY <1>1, IInvHolds, PTL

\* vl_msg_api_handler_with_vm_node has stopped every worker before the handler's
\* first instruction and lets none go before its last, although the handler of a
\* call syncs and releases again.
THEOREM Alone == Spec => []HandlerExclusive
<1>1. IInv => HandlerExclusive
  BY DEF IInv, MainPhase, HandlerExclusive, Barrier!IInv, Barrier!PhaseHeld,
         Barrier!WorkersIn
<1>. QED
  BY <1>1, IInvHolds, PTL

\* A client sleeps only while the broadcast that will wake it is still to come:
\* memclnt_process passes the half-empty queue, or stands before the broadcast.
THEOREM SleepersWoken == Spec => []SleepersCovered
<1>1. IInv => SleepersCovered
  BY DEF IInv
<1>. QED
  BY <1>1, IInvHolds, PTL

\* One thread at a time is between lock and unlock of the queue.
THEOREM OneOwner == Spec => []MutexOwner
<1>1. IInv => MutexOwner
  BY DEF IInv
<1>. QED
  BY <1>1, IInvHolds, PTL

\* No call of a worker and no message of a client is lost or handled twice.
THEOREM NoCallLost == Spec => []CallsAccounted
<1>1. IInv => CallsAccounted
  BY DEF IInv
<1>. QED
  BY <1>1, IInvHolds, PTL
=============================================================================
