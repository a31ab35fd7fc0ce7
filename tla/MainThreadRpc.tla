---------------------------- MODULE MainThreadRpc ----------------------------
(***************************************************************************)
(* The main input queue of the binary API (vlibmemory/memory_vlib.c): API  *)
(* clients send messages to it and sleep while it is full; worker threads  *)
(* send remote procedure calls to it and must not sleep, because the main  *)
(* thread may be waiting for them at the barrier; memclnt_process takes    *)
(* the messages and runs their handlers, most of them at the barrier.      *)
(*                                                                         *)
(* The ring itself is module SharedMemoryQueue; it is kept here as the     *)
(* sequence of its elements.  The barrier is module WorkerBarrier.         *)
(***************************************************************************)
EXTENDS Integers, Sequences, FiniteSets

CONSTANTS
  Workers,    \* worker threads
  Clients,    \* API clients, processes of their own
  MaxSize,    \* q->maxsize of shmem_hdr->vl_input_queue
  MaxCalls,   \* bound: calls and messages sent
  MainProc, None    \* the main thread; the mutex is free

ASSUME MaxSizeAssumption == MaxSize \in Nat /\ MaxSize > 1
ASSUME MaxCallsAssumption == MaxCalls \in Nat
ASSUME ThreadsAssumption ==
  /\ IsFiniteSet(Workers) /\ Workers # {}
  /\ IsFiniteSet(Clients)
  /\ Workers \cap Clients = {}
  /\ {MainProc, None} \cap (Workers \cup Clients) = {}
  /\ MainProc # None

VARIABLES
  wait_at_barrier, workers_at_barrier, recursion_level, main_pc, worker_pc,
  mutex,        \* who holds q->mutex
  queue,        \* the messages in the queue, oldest first
  loc,          \* where each worker and each client is
  main_loc,     \* where the main thread is
  msg,          \* the message memclnt_process has taken, or "none"
  queue_signal_pending,
  calls,        \* calls and messages begun (bounds the model)
  handled       \* messages whose handlers have returned

barrierVars == <<wait_at_barrier, workers_at_barrier, recursion_level, main_pc,
                 worker_pc>>

vars == <<barrierVars, mutex, queue, loc, main_loc, msg, queue_signal_pending,
          calls, handled>>

mainVars == <<main_loc, msg, queue_signal_pending, handled>>

Barrier == INSTANCE WorkerBarrier WITH MaxRecursion <- 2, Impatient <- FALSE

\* A call from a worker; a message whose handler runs at the barrier; a message
\* that is_mp_safe says may run beside the workers.
Messages == {"rpc_call", "api", "mp_safe"}

(***************************************************************************)
(* A worker is at the "top" of its dispatch loop, in a "node", or in       *)
(* vl_api_rpc_call_main_thread: "trylock", "poll" (the barrier check),     *)
(* "body" (has the mutex), "unlock".  A client is "idle" or in             *)
(* unix_shared_memory_queue_add: "body", "sleep", "woken", "unlock".       *)
(***************************************************************************)
WorkerLocs == {"top", "node", "trylock", "poll", "body", "unlock"}
ClientLocs == {"idle", "body", "sleep", "woken", "unlock"}

(***************************************************************************)
(* memclnt_process: "lock", "body" (has the mutex), "broadcast", "handle"  *)
(* (about to run the handler), "sync", "handler" (at the barrier), "fp"    *)
(* (in the function of the call), "leave" (it has returned), "release",    *)
(* "pause" (waiting for an event or the clock, other processes and nodes   *)
(* of the main thread run).  "direct": one of these is in                  *)
(* vl_api_rpc_call_main_thread.                                            *)
(***************************************************************************)
MainLocs ==
  {"lock", "body", "broadcast", "handle", "sync", "handler", "fp", "leave",
   "release", "pause", "direct"}

Init ==
  /\ wait_at_barrier = 0
  /\ workers_at_barrier = 0
  /\ recursion_level = 0
  /\ main_pc = "run"
  /\ worker_pc = [w \in Workers |-> "run"]
  /\ mutex = None
  /\ queue = <<>>
  /\ loc = [t \in Workers \cup Clients |-> IF t \in Workers THEN "top" ELSE "idle"]
  /\ main_loc = "lock"
  /\ msg = "none"
  /\ queue_signal_pending = FALSE
  /\ calls = 0
  /\ handled = 0

\* unix_shared_memory_queue_is_full
IsFull == Len(queue) = MaxSize

-----------------------------------------------------------------------------
(***************************************************************************)
(* Workers                                                                 *)
(***************************************************************************)

\* A step of a worker that is not inside vlib_worker_thread_barrier_check.
Go(w, from, to) ==
  /\ worker_pc[w] = "run"
  /\ loc[w] = from
  /\ loc' = [loc EXCEPT ![w] = to]
  /\ UNCHANGED <<barrierVars, mainVars>>

\* Where the code after the barrier check continues.
AfterPoll(w) == IF loc[w] = "top" THEN "node" ELSE "trylock"

PollStops(w) ==
  /\ loc[w] \in {"top", "poll"}
  /\ Barrier!BarrierCheck(w)
  /\ UNCHANGED <<mutex, queue, loc, calls, mainVars>>

\* Wrong: a worker that waits for the queue does not look at the flag.
MutPollIgnoresFlag(w) ==
  /\ loc[w] \in {"top", "poll"}
  /\ loc[w] = "top" => wait_at_barrier = 0
  /\ Go(w, loc[w], AfterPoll(w))
  /\ UNCHANGED <<mutex, queue, calls>>

PollPasses(w) ==
  /\ loc[w] \in {"top", "poll"}
  /\ wait_at_barrier = 0
  /\ Go(w, loc[w], AfterPoll(w))
  /\ UNCHANGED <<mutex, queue, calls>>

AtBarrier(w) ==
  /\ Barrier!BarrierEnter(w) \/ Barrier!BarrierSpinEnds(w)
  /\ UNCHANGED <<mutex, queue, loc, calls, mainVars>>

LeaveBarrier(w) ==
  /\ Barrier!BarrierLeave(w)
  /\ loc' = [loc EXCEPT ![w] = AfterPoll(w)]
  /\ UNCHANGED <<mutex, queue, calls, mainVars>>

NodesReturn(w) ==
  /\ Go(w, "node", "top")
  /\ UNCHANGED <<mutex, queue, calls>>

\* vl_api_rpc_call_main_thread, up to its first pthread_mutex_trylock.
RpcCall(w) ==
  /\ calls < MaxCalls
  /\ Go(w, "node", "trylock")
  /\ calls' = calls + 1
  /\ UNCHANGED <<mutex, queue>>

\* pthread_mutex_trylock fails: poll the barrier, try again.
TrylockFails(w) ==
  /\ mutex # None
  /\ Go(w, "trylock", "poll")
  /\ UNCHANGED <<mutex, queue, calls>>

TrylockTakes(w) ==
  /\ mutex = None
  /\ Go(w, "trylock", "body")
  /\ mutex' = w
  /\ UNCHANGED <<queue, calls>>

\* Wrong: the worker polls the barrier before it gives the mutex back.
MutRpcKeepsMutex(w) ==
  /\ IsFull
  /\ Go(w, "body", "poll")
  /\ UNCHANGED <<mutex, queue, calls>>

\* "if the main input queue is full, we cannot block"
RpcFull(w) ==
  /\ IsFull
  /\ Go(w, "body", "poll")
  /\ mutex' = None
  /\ UNCHANGED <<queue, calls>>

\* vl_msg_api_send_shmem_nolock.  Nobody sleeps for want of a message, so its
\* broadcast at the first element wakes nobody.
RpcSends(w) ==
  /\ ~IsFull
  /\ Go(w, "body", "unlock")
  /\ queue' = Append(queue, "rpc_call")
  /\ UNCHANGED <<mutex, calls>>

RpcReturns(w) ==
  /\ Go(w, "unlock", "node")
  /\ mutex' = None
  /\ UNCHANGED <<queue, calls>>

Worker(w) ==
  \/ PollStops(w) \/ PollPasses(w) \/ AtBarrier(w) \/ LeaveBarrier(w)
  \/ NodesReturn(w) \/ RpcCall(w) \/ TrylockFails(w) \/ TrylockTakes(w)
  \/ RpcFull(w) \/ RpcSends(w) \/ RpcReturns(w)

-----------------------------------------------------------------------------
(***************************************************************************)
(* Clients: vl_msg_api_send_shmem                                          *)
(***************************************************************************)

Move(c, from, to) ==
  /\ loc[c] = from
  /\ loc' = [loc EXCEPT ![c] = to]
  /\ UNCHANGED <<barrierVars, mainVars>>

ClientLocks(c) ==
  /\ calls < MaxCalls
  /\ mutex = None
  /\ Move(c, "idle", "body")
  /\ mutex' = c
  /\ calls' = calls + 1
  /\ UNCHANGED queue

ClientWaits(c) ==
  /\ IsFull
  /\ Move(c, "body", "sleep")
  /\ mutex' = None
  /\ UNCHANGED <<queue, calls>>

ClientRelocks(c) ==
  /\ mutex = None
  /\ Move(c, "woken", "body")
  /\ mutex' = c
  /\ UNCHANGED <<queue, calls>>

ClientSends(c) ==
  /\ ~IsFull
  /\ Move(c, "body", "unlock")
  /\ \E m \in {"api", "mp_safe"} : queue' = Append(queue, m)
  /\ UNCHANGED <<mutex, calls>>

ClientReturns(c) ==
  /\ Move(c, "unlock", "idle")
  /\ mutex' = None
  /\ UNCHANGED <<queue, calls>>

InCall(c) == ClientWaits(c) \/ ClientRelocks(c) \/ ClientSends(c) \/ ClientReturns(c)

Client(c) == ClientLocks(c) \/ InCall(c)

-----------------------------------------------------------------------------
(***************************************************************************)
(* Main thread: memclnt_process                                            *)
(***************************************************************************)

MainGo(from, to) == main_loc = from /\ main_loc' \in to

ProcessLocks ==
  /\ MainGo("lock", {"body"})
  /\ mutex = None
  /\ mutex' = MainProc
  /\ UNCHANGED <<barrierVars, queue, loc, msg, queue_signal_pending, calls, handled>>

\* The queue is empty: leave the inner loop.
ProcessFindsNone ==
  /\ MainGo("body", {"pause"})
  /\ queue = <<>>
  /\ mutex' = None
  /\ UNCHANGED <<barrierVars, queue, loc, msg, queue_signal_pending, calls, handled>>

\* Wrong: meant to wake the clients when the queue has become empty, but the
\* message has not been taken off yet.
MutNeedBroadcast == Len(queue) = 0

\* need_broadcast = (q->cursize == q->maxsize / 2)
NeedBroadcast == Len(queue) = MaxSize \div 2

\* Take the first message and give the mutex back.
ProcessTakes ==
  /\ MainGo("body", {IF NeedBroadcast THEN "broadcast" ELSE "handle"})
  /\ queue # <<>>
  /\ msg' = Head(queue)
  /\ queue' = Tail(queue)
  /\ mutex' = None
  /\ UNCHANGED <<barrierVars, loc, queue_signal_pending, calls, handled>>

\* pthread_cond_broadcast, after the mutex has been given back.
ProcessBroadcasts ==
  /\ MainGo("broadcast", {"handle"})
  /\ loc' = [t \in Workers \cup Clients |->
                IF loc[t] = "sleep" THEN "woken" ELSE loc[t]]
  /\ UNCHANGED <<barrierVars, mutex, queue, msg, queue_signal_pending, calls, handled>>

threadVars == <<mutex, queue, loc, queue_signal_pending, calls>>

\* The handler has returned; the inner loop goes on, or has used up its 10us.
HandlerReturned ==
  /\ main_loc' \in {"lock", "pause"}
  /\ msg' = "none"
  /\ handled' = handled + 1

\* vl_msg_api_handler_with_vm_node, a handler that needs no barrier.
HandlesMpSafe ==
  /\ main_loc = "handle"
  /\ msg = "mp_safe"
  /\ HandlerReturned
  /\ UNCHANGED <<barrierVars, threadVars>>

\* The same for the others: sync before the handler ...
HandlerSync ==
  /\ MainGo("handle", {"sync"})
  /\ msg # "mp_safe"
  /\ Barrier!BarrierSync
  /\ UNCHANGED <<threadVars, msg, handled>>

HandlerRuns ==
  /\ MainGo("sync", {"handler"})
  /\ Barrier!BarrierSyncDone
  /\ UNCHANGED <<threadVars, msg, handled>>

\* vl_api_rpc_call_t_handler: need_barrier_sync is set, a nested sync.
RpcHandlerSync ==
  /\ MainGo("handler", {"fp"})
  /\ msg = "rpc_call"
  /\ Barrier!BarrierSyncNested
  /\ UNCHANGED <<threadVars, msg, handled>>

RpcHandlerRelease ==
  /\ MainGo("fp", {"leave"})
  /\ Barrier!BarrierReleaseNested
  /\ UNCHANGED <<threadVars, msg, handled>>

\* ... and release after it.
HandlerRelease ==
  /\ \/ MainGo("handler", {"release"}) /\ msg = "api"
     \/ MainGo("leave", {"release"})
  /\ Barrier!BarrierRelease
  /\ UNCHANGED <<threadVars, msg, handled>>

HandlerReleased ==
  /\ main_loc = "release"
  /\ Barrier!BarrierReleaseDone
  /\ HandlerReturned
  /\ UNCHANGED threadVars

\* Wrong: the last message in the queue goes unnoticed.
MutCallbackOffByOne ==
  /\ main_loc = "pause"
  /\ ~queue_signal_pending
  /\ Len(queue) > 1
  /\ queue_signal_pending' = TRUE
  /\ UNCHANGED <<barrierVars, mutex, queue, loc, main_loc, msg, calls, handled>>

\* memclnt_queue_callback, once per turn of the main loop.
QueueCallback ==
  /\ main_loc = "pause"
  /\ ~queue_signal_pending
  /\ Len(queue) >= 1
  /\ queue_signal_pending' = TRUE
  /\ UNCHANGED <<barrierVars, mutex, queue, loc, main_loc, msg, calls, handled>>

\* vlib_process_wait_for_event_or_clock returns.
Resume ==
  /\ MainGo("pause", {"lock"})
  /\ queue_signal_pending' = FALSE
  /\ UNCHANGED <<barrierVars, mutex, queue, loc, msg, calls, handled>>

ResumeOnEvent == queue_signal_pending /\ Resume
ResumeOnClock == ~queue_signal_pending /\ Resume

\* vl_api_rpc_call_main_thread on the main thread: call the function directly.
DirectCall ==
  /\ MainGo("pause", {"direct"})
  /\ Barrier!BarrierSync
  /\ UNCHANGED <<threadVars, msg, handled>>

DirectGoesOn ==
  /\ MainGo("direct", {"direct"})
  /\ Barrier!BarrierSyncDone \/ Barrier!BarrierRelease
  /\ UNCHANGED <<threadVars, msg, handled>>

DirectReturns ==
  /\ MainGo("direct", {"pause"})
  /\ Barrier!BarrierReleaseDone
  /\ UNCHANGED <<threadVars, msg, handled>>

Process == ProcessLocks \/ ProcessFindsNone \/ ProcessTakes \/ ProcessBroadcasts

Handler ==
  \/ HandlesMpSafe \/ HandlerSync \/ HandlerRuns \/ RpcHandlerSync
  \/ RpcHandlerRelease \/ HandlerRelease \/ HandlerReleased

MainThread ==
  \/ Process \/ Handler \/ QueueCallback \/ ResumeOnEvent \/ ResumeOnClock
  \/ DirectCall \/ DirectGoesOn \/ DirectReturns

Next ==
  \/ MainThread
  \/ \E w \in Workers : Worker(w)
  \/ \E c \in Clients : Client(c)

(***************************************************************************)
(* Threads go on, and the mutex is not refused for ever to one that keeps  *)
(* asking for it: it is held for a few instructions at a time, so that a   *)
(* worker that retries comes back at a moment when it is free.  The main   *)
(* loop comes back to the queue callback and to the processes with an      *)
(* event, whatever else it runs.  Nothing is owed to the 20 second clock,  *)
(* and nobody has to send anything.                                        *)
(***************************************************************************)
Fairness ==
  /\ SF_vars(Process \/ Handler \/ DirectGoesOn \/ DirectReturns)
  /\ SF_vars(QueueCallback) /\ SF_vars(ResumeOnEvent)
  /\ \A w \in Workers :
       /\ WF_vars(Worker(w))
       /\ SF_vars(TrylockTakes(w))
       /\ SF_vars(PollPasses(w) /\ mutex = None)
  /\ \A c \in Clients : SF_vars(InCall(c))

Spec == Init /\ [][Next]_vars

LiveSpec == Spec /\ Fairness

-----------------------------------------------------------------------------
TypeOK ==
  /\ Barrier!TypeOK
  /\ mutex \in Workers \cup Clients \cup {MainProc, None}
  /\ queue \in Seq(Messages) /\ Len(queue) <= MaxSize
  /\ loc \in [Workers \cup Clients -> WorkerLocs \cup ClientLocs]
  /\ \A w \in Workers : loc[w] \in WorkerLocs
  /\ \A c \in Clients : loc[c] \in ClientLocs
  /\ main_loc \in MainLocs
  /\ msg \in Messages \cup {"none"}
  /\ queue_signal_pending \in BOOLEAN
  /\ calls \in 0..MaxCalls
  /\ handled \in 0..MaxCalls

\* A worker never takes the mutex of the main input queue to the barrier, where
\* it would lock out the clients and the main thread itself.
NoMutexAtBarrier == \A w \in Workers : worker_pc[w] # "run" => mutex # w

\* From the first instruction of a handler that needs the barrier to the last,
\* nested calls included, no worker runs.
HandlerExclusive ==
  main_loc \in {"handler", "fp", "leave"} =>
    \A w \in Workers : worker_pc[w] = "spin"

\* A client may sleep on although there is room, but only until the queue is
\* half empty; below that the main thread is about to wake it.
SleepersCovered ==
  \A c \in Clients :
    loc[c] = "sleep" => Len(queue) >= MaxSize \div 2 \/ main_loc = "broadcast"

\* The mutex has one holder, and the holder is in the part of its code that the
\* mutex protects: vl_api_rpc_call_main_thread and memclnt_process lock and unlock
\* by hand around unix_shared_memory_queue_add_nolock and _sub.
MutexOwner ==
  /\ \A t \in Workers \cup Clients : loc[t] \in {"body", "unlock"} <=> mutex = t
  /\ main_loc = "body" <=> mutex = MainProc

\* Those whose call has begun and whose message is not in the queue yet.
CallLocs == {"trylock", "poll", "body", "sleep", "woken"}
Pending == {t \in Workers \cup Clients : loc[t] \in CallLocs}

\* The message that memclnt_process has taken.
Taken == IF msg = "none" THEN 0 ELSE 1

\* No call is lost and none is handled twice: each one begun is still with its
\* caller, in the queue, with its handler, or handled.
CallsAccounted == calls = handled + Taken + Len(queue) + Cardinality(Pending)

(***************************************************************************)
(* The inductive strengthening: where the main thread is in                *)
(* memclnt_process and in the barrier, and where workers are that the      *)
(* barrier has stopped.                                                    *)
(***************************************************************************)
MainPhase ==
  /\ main_loc \in {"lock", "body", "broadcast", "handle", "pause"} => main_pc = "run"
  /\ main_loc = "sync" => main_pc = "sync"
  /\ main_loc \in {"handler", "fp", "leave"} => main_pc = "held"
  /\ main_loc = "release" => main_pc = "release"
  /\ main_loc = "direct" => main_pc \in {"sync", "held", "release"}

MsgPhase == msg = "none" <=> main_loc \in {"lock", "body", "pause", "direct"}

StoppedPolling == \A w \in Workers : worker_pc[w] # "run" => loc[w] \in {"top", "poll"}

\* What every reachable state satisfies and every step preserves.
IInv ==
  /\ Barrier!IInv
  /\ TypeOK
  /\ MainPhase /\ MsgPhase /\ StoppedPolling
  /\ MutexOwner
  /\ SleepersCovered
  /\ CallsAccounted

\* "if the main input queue is full, we cannot block. Otherwise, we can expect a
\* barrier sync timeout": workers that wait for room come to the barrier.
BarrierReached == main_pc = "sync" ~> main_pc = "held"

\* Every call of a worker and every message of a client is handled in the end,
\* and without the help of the 20 second clock.
EveryCallHandled == calls > handled ~> calls = handled
=============================================================================
