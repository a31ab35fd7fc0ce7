----------------------------- MODULE ApiClients -----------------------------
(***************************************************************************)
(* Registration of the clients of the binary API (vlibmemory/              *)
(* memory_shared.c, memory_client.c, memory_vlib.c): clients connect, send *)
(* requests and disconnect through the main input queue; vpp keeps a       *)
(* private pool of registrations and answers on each client's own queue;   *)
(* clients may die and vpp may die and be restarted on the shared memory   *)
(* its predecessor left behind.                                            *)
(*                                                                         *)
(* Queues are kept as the sequences of their elements (see                 *)
(* SharedMemoryQueue).  A step that holds a mutex in shared memory is one  *)
(* action, and a process may die in it and leave the mutex locked; only    *)
(* vpp holds one, that of the region, across several steps, when it starts *)
(* again.  The barrier around the handlers is module MainThreadRpc.        *)
(***************************************************************************)
EXTENDS Integers, Sequences, FiniteSetsExt, SequencesExt

CONSTANTS
  Clients,       \* client processes
  MainSize,      \* maxsize of the main input queue
  QueueSize,     \* maxsize of a client's queue
  Epochs,        \* VL_API_EPOCH_MASK + 1
  MaxRestarts,   \* bound: restarts of vpp
  MaxConnects,   \* bound: connections each process asks for
  Before,        \* choices: how many of these it had before, and ended
  MaxLost,       \* bound: mutexes that are left locked
  None           \* no client

ASSUME SizesAssumption ==
  /\ MainSize \in Nat /\ MainSize > 1
  /\ QueueSize \in Nat /\ QueueSize > 0
  /\ MaxConnects \in [Clients -> Nat] /\ MaxLost \in Nat
  /\ Before \subseteq [Clients -> Nat]
  /\ \A before \in Before, c \in Clients : before[c] <= MaxConnects[c]

\* The epoch in a handle is the low bits of the number of restarts: no client
\* lives through so many of them that it comes round.
ASSUME EpochsAssumption ==
  Epochs \in Nat /\ MaxRestarts \in Nat /\ MaxRestarts < Epochs

VARIABLES
  \* shared memory
  queue,        \* the main input queue
  lost,         \* mutexes a process has died with: of the main input queue
                \* ("main"), of the region, of the root region
  lost_queues,  \* clients' queues whose mutex a process has died with
  restarts,     \* shmem_hdr->application_restarts
  inbox,        \* the queues of the clients
  \* vpp
  vpp_pc,
  vl_clients,   \* the pool: each element a client's queue, or None when free
  free_indices, \* its free elements, the last one is used first
  msg,          \* the message whose answer is about to be sent
  out,          \* this answer, and the queue it goes to
  \* clients
  pc,
  op,           \* the call a client is in: "create", "request", "delete", "none"
  conn,         \* which of its connections: numbers its queue
  handle,       \* my_client_index
  \* history
  reaped        \* handles of the registrations taken from dead clients

mutexes == <<lost, lost_queues>>
shared == <<queue, mutexes, restarts, inbox>>
vpp == <<vpp_pc, vl_clients, free_indices, msg, out, reaped>>
clients == <<pc, op, conn, handle>>
vars == <<shared, vpp, clients>>

\* A process creates a queue for each connection it asks for.
Queues == UNION {{c} \X (1..MaxConnects[c]) : c \in Clients}
ASSUME NoneAssumption == None \notin Queues

Owner(q) == q[1]
Mine(c) == <<c, conn[c]>>

(***************************************************************************)
(* vl_msg_api_handle_from_index_and_epoch.  A handle has the index of the  *)
(* registration, here from 1, and the epoch.  The model keeps the number   *)
(* of restarts the epoch is made from.  ~0 is the handle of nobody.        *)
(***************************************************************************)
Handle(i, r) == [index |-> i, life |-> r]
NoHandle == Handle(0, -1)
vl_msg_api_handle_get_epoch(h) == h.life % Epochs

Message(type, q, h) == [type |-> type, from |-> q, handle |-> h]
NoMsg == Message("none", None, NoHandle)
NoOut == [to |-> None, type |-> "none", handle |-> NoHandle]

\* vlib_rp->mutex can be had.
RegionFree == "region" \notin lost /\ vpp_pc \notin {"trylock", "drain"}

FewLost == Cardinality(lost) + Cardinality(lost_queues) <= MaxLost

\* vpp runs, in its first life.
Init ==
  /\ queue = <<>> /\ lost = {} /\ lost_queues = {} /\ restarts = 0
  /\ inbox = [q \in Queues |-> <<>>]
  /\ vpp_pc = "loop"
  /\ vl_clients = <<>> /\ free_indices = <<>>
  /\ msg = NoMsg /\ out = NoOut
  /\ pc = [c \in Clients |-> "off"]
  /\ op = [c \in Clients |-> "none"]
  /\ conn \in Before
  /\ handle = [c \in Clients |-> NoHandle]
  /\ reaped = {}

\* pthread_cond_broadcast on the main input queue.
Woken(p) == [c \in Clients |-> IF p[c] = "sleep" THEN "send" ELSE p[c]]

-----------------------------------------------------------------------------
(***************************************************************************)
(* Clients                                                                 *)
(***************************************************************************)

\* Begin to send a message to vpp.
Call(c, type) ==
  /\ pc' = [pc EXCEPT ![c] = "send"]
  /\ op' = [op EXCEPT ![c] = type]

\* vl_client_connect, after vl_client_api_map: a new queue, which takes the mutexes
\* of the root region and of the region; no registration.
Connect(c) ==
  /\ pc[c] = "off"
  /\ conn[c] < MaxConnects[c]
  /\ RegionFree /\ "root" \notin lost
  /\ Call(c, "create")
  /\ conn' = [conn EXCEPT ![c] = @ + 1]
  /\ handle' = [handle EXCEPT ![c] = NoHandle]
  /\ UNCHANGED <<shared, vpp>>

\* vl_client_get_first_plugin_msg_id, and any other request.
Request(c) ==
  /\ pc[c] = "on"
  /\ Call(c, "request")
  /\ UNCHANGED <<shared, vpp, conn, handle>>

\* vl_client_disconnect_from_vlib: the receive thread has come to the message
\* that ends it, vl_client_disconnect begins.
Disconnect(c) ==
  /\ pc[c] = "on"
  /\ inbox[Mine(c)] = <<>>
  /\ Mine(c) \notin lost_queues
  /\ Call(c, "delete")
  /\ UNCHANGED <<shared, vpp, conn, handle>>

\* unix_shared_memory_queue_add on the main input queue: with the mutex, sleep
\* while it is full ...
SendSleeps(c) ==
  /\ pc[c] = "send"
  /\ "main" \notin lost
  /\ Len(queue) = MainSize
  /\ pc' = [pc EXCEPT ![c] = "sleep"]
  /\ UNCHANGED <<shared, vpp, op, conn, handle>>

\* ... then add, and broadcast at the first element.
SendAdds(c) ==
  /\ pc[c] = "send"
  /\ "main" \notin lost
  /\ Len(queue) < MainSize
  /\ queue' = Append(queue, Message(op[c], Mine(c), handle[c]))
  /\ pc' = [(IF queue = <<>> THEN Woken(pc) ELSE pc) EXCEPT ![c] = "wait"]
  /\ UNCHANGED <<mutexes, restarts, inbox, vpp, op, conn, handle>>

\* The call returns, the client is now at p.
Return(c, p) ==
  /\ pc' = [pc EXCEPT ![c] = p]
  /\ op' = [op EXCEPT ![c] = "none"]

FirstIs(c, type) == inbox[Mine(c)] # <<>> /\ Head(inbox[Mine(c)]).type = type

\* Take the first message off the client's own queue.
Read(c) ==
  /\ inbox[Mine(c)] # <<>>
  /\ Mine(c) \notin lost_queues
  /\ inbox' = [inbox EXCEPT ![Mine(c)] = Tail(@)]
  /\ UNCHANGED <<queue, mutexes, restarts, vpp, conn>>

Waiting(c, type) == pc[c] = "wait" /\ op[c] = type

\* The end of vl_client_connect: memclnt_create_reply; anything else is skipped.
ConnectReply(c) ==
  /\ Waiting(c, "create")
  /\ Read(c)
  /\ IF FirstIs(c, "create")
     THEN /\ Return(c, "on")
          /\ handle' = [handle EXCEPT ![c] = Head(inbox[Mine(c)]).handle]
     ELSE UNCHANGED <<pc, op, handle>>

\* "memclnt_create_reply timeout": ten seconds without a message, or without the
\* mutex of the queue.
ConnectTimeout(c) ==
  /\ Waiting(c, "create")
  /\ inbox[Mine(c)] = <<>> \/ Mine(c) \in lost_queues
  /\ Return(c, "off")
  /\ UNCHANGED <<shared, vpp, conn, handle>>

\* The receive thread of client c runs.
Listens(c) == pc[c] = "on" \/ op[c] = "request"

\* memclnt_delete_reply takes the handle away.
HandleAfterRead(c) == IF FirstIs(c, "delete") THEN NoHandle ELSE handle[c]

\* Wrong: nothing is read while the client waits to send.
MutReceiveIdle(c) ==
  /\ pc[c] = "on" \/ Waiting(c, "request")
  /\ Read(c)
  /\ FirstIs(c, "delete") => RegionFree
  /\ handle' = [handle EXCEPT ![c] = HandleAfterRead(c)]
  /\ IF FirstIs(c, "request") /\ Waiting(c, "request") THEN Return(c, "on")
     ELSE UNCHANGED <<pc, op>>

(***************************************************************************)
(* rx_thread_fn reads the queue of a connected client, also while the      *)
(* client waits to send.  A request returns with the first answer that     *)
(* comes.  The handler of memclnt_delete_reply takes the mutex of the      *)
(* region and frees the queue; what is in it then is not modelled.         *)
(***************************************************************************)
Receive(c) ==
  /\ Listens(c)
  /\ Read(c)
  /\ FirstIs(c, "delete") => RegionFree
  /\ handle' = [handle EXCEPT ![c] = HandleAfterRead(c)]
  /\ IF FirstIs(c, "request") /\ Waiting(c, "request") THEN Return(c, "on")
     ELSE UNCHANGED <<pc, op>>

\* A second without an answer.  To empty the main input queue after a restart
\* takes vpp less than that.
RequestTimeout(c) ==
  /\ Waiting(c, "request")
  /\ vpp_pc # "drain"
  /\ Return(c, "on")
  /\ UNCHANGED <<shared, vpp, conn, handle>>

\* The end of vl_client_disconnect: messages are handled until
\* memclnt_delete_reply comes ...
DisconnectReply(c) ==
  /\ Waiting(c, "delete")
  /\ Read(c)
  /\ FirstIs(c, "delete") => RegionFree
  /\ handle' = [handle EXCEPT ![c] = HandleAfterRead(c)]
  /\ IF FirstIs(c, "delete") THEN Return(c, "off") ELSE UNCHANGED <<pc, op>>

\* ... or two seconds have passed: "peer unresponsive, give up".
DisconnectTimeout(c) ==
  /\ Waiting(c, "delete")
  /\ Return(c, "off")
  /\ handle' = [handle EXCEPT ![c] = NoHandle]
  /\ UNCHANGED <<shared, vpp, conn>>

\* The mutexes client c may hold: of the region when it maps it, and when it takes or
\* frees a message that is on the heap; of the main input queue when it sends.
MayHold(c) ==
  (IF RegionFree THEN {"region"} ELSE {}) \cup (IF pc[c] = "send" THEN {"main"} ELSE {})

\* A client dies, whatever it is doing, and its memory with it; the mutexes it holds,
\* perhaps that of its own queue, stay locked.
Die(c) ==
  /\ pc[c] # "dead"
  /\ Return(c, "dead")
  /\ handle' = [handle EXCEPT ![c] = NoHandle]
  /\ \E held \in SUBSET MayHold(c) : lost' = lost \cup held
  /\ \/ UNCHANGED lost_queues
     \/ pc[c] # "off" /\ lost_queues' = lost_queues \cup {Mine(c)}
  /\ FewLost'
  /\ UNCHANGED <<queue, restarts, inbox, vpp, conn>>

Sends(c) == SendSleeps(c) \/ SendAdds(c)

Receives(c) == ConnectReply(c) \/ Receive(c) \/ DisconnectReply(c)

TimesOut(c) == ConnectTimeout(c) \/ RequestTimeout(c) \/ DisconnectTimeout(c)

Client(c) ==
  \/ Connect(c) \/ Request(c) \/ Disconnect(c)
  \/ Sends(c) \/ Receives(c) \/ TimesOut(c) \/ Die(c)

-----------------------------------------------------------------------------
(***************************************************************************)
(* vpp: the loop of memclnt_process                                        *)
(***************************************************************************)

\* Take a message from the main input queue; need_broadcast =
\* (q->cursize == q->maxsize / 2).
Takes ==
  /\ vpp_pc = "loop"
  /\ "main" \notin lost
  /\ queue # <<>>
  /\ queue' = Tail(queue)
  /\ pc' = IF Len(queue) = MainSize \div 2 THEN Woken(pc) ELSE pc
  /\ UNCHANGED <<mutexes, restarts, inbox, reaped, op, conn, handle>>

\* The handler of message m is about to send an answer.
Answers(m, q, h) ==
  /\ msg' = m
  /\ out' = [to |-> q, type |-> m.type, handle |-> h]
  /\ vpp_pc' = "reply"

\* vl_api_memclnt_create_t_handler.  pool_get takes the index freed last, or one
\* more.
HandleCreate ==
  LET m == Head(queue)
      i == IF free_indices = <<>> THEN Len(vl_clients) + 1 ELSE Last(free_indices)
  IN
  /\ Takes
  /\ m.type = "create"
  /\ "region" \notin lost
  /\ vl_clients' = IF free_indices = <<>> THEN Append(vl_clients, m.from)
                   ELSE [vl_clients EXCEPT ![i] = m.from]
  /\ free_indices' = IF free_indices = <<>> THEN <<>> ELSE Front(free_indices)
  /\ Answers(m, m.from, Handle(i, restarts))

\* The same handler waits for the mutex of the region for ever; the element that
\* pool_get took is of no more use.
CreateBlocks ==
  /\ Takes
  /\ Head(queue).type = "create"
  /\ "region" \in lost
  /\ vpp_pc' = "stuck"
  /\ UNCHANGED <<vl_clients, free_indices, msg, out>>

\* Wrong: the epoch is not looked at.
MutRegistrationAnyEpoch(h) ==
  IF h.index \in DOMAIN vl_clients THEN vl_clients[h.index] ELSE None

\* vl_api_client_index_to_registration_internal, and the same tests in
\* vl_api_memclnt_delete_t_handler: None for a handle of another epoch and for a
\* free index.
Registration(h) ==
  IF vl_msg_api_handle_get_epoch(h) = restarts % Epochs /\ h.index \in DOMAIN vl_clients
  THEN vl_clients[h.index] ELSE None

\* vl_api_memclnt_delete_t_handler, vl_api_get_first_msg_id_t_handler: there is an
\* answer only for a client that is registered; a dump may have none.
HandleOther ==
  LET m == Head(queue)
      q == Registration(m.handle)
  IN
  /\ Takes
  /\ m.type = "delete" \/ (m.type = "request" /\ m.handle # NoHandle)
  /\ \/ (q = None \/ m.type = "request") /\ UNCHANGED <<vpp_pc, msg, out>>
     \/ q # None /\ Answers(m, q, NoHandle)
  /\ UNCHANGED <<vl_clients, free_indices>>

\* vl_api_client_index_to_input_queue: "Special case: vlib trying to send itself a
\* message".  A client that has lost its handle has its requests answered so.
HandleOfNobody ==
  /\ Takes
  /\ Head(queue).type = "request" /\ Head(queue).handle = NoHandle
  /\ vpp_pc' = "self"
  /\ msg' = Head(queue)
  /\ UNCHANGED <<vl_clients, free_indices, out>>

\* The answer is added to the main input queue: vpp sleeps if it is full.
RepliesToSelf ==
  /\ vpp_pc = "self"
  /\ "main" \notin lost
  /\ Len(queue) < MainSize
  /\ queue' = Append(queue, Message("answer", msg.from, NoHandle))
  /\ pc' = IF queue = <<>> THEN Woken(pc) ELSE pc
  /\ vpp_pc' = "loop"
  /\ msg' = NoMsg
  /\ UNCHANGED <<mutexes, restarts, inbox, vl_clients, free_indices, out, reaped, op,
                 conn, handle>>

\* vpp has no handler for the answer to a request.
HandleAnswer ==
  /\ Takes
  /\ Head(queue).type = "answer"
  /\ UNCHANGED <<vpp_pc, vl_clients, free_indices, msg, out>>

\* pool_put_index for each of a sequence of indices.
PoolPut(indices) ==
  /\ vl_clients' = [i \in DOMAIN vl_clients |->
                      IF i \in ToSet(indices) THEN None ELSE vl_clients[i]]
  /\ free_indices' = free_indices \o indices

\* vl_msg_api_send_shmem to the client, which sleeps while the client's queue is
\* full.
Sent ==
  /\ vpp_pc = "reply"
  /\ out.to \notin lost_queues
  /\ Len(inbox[out.to]) < QueueSize
  /\ inbox' = [inbox EXCEPT ![out.to] =
                 Append(@, [type |-> out.type, handle |-> out.handle])]
  /\ UNCHANGED <<queue, mutexes, restarts, reaped, clients>>

\* A dump has an answer for each of the things it asks for.
DumpGoesOn ==
  /\ Sent
  /\ out.type = "request"
  /\ UNCHANGED <<vpp_pc, vl_clients, free_indices, msg, out>>

\* The last answer, or the only one; after memclnt_delete_reply the registration
\* goes, for which the mutex of the region is needed.
VppReplies ==
  /\ Sent
  /\ IF out.type = "delete" THEN PoolPut(<<msg.handle.index>>)
     ELSE UNCHANGED <<vl_clients, free_indices>>
  /\ vpp_pc' = IF out.type = "delete" /\ "region" \in lost THEN "stuck" ELSE "loop"
  /\ msg' = NoMsg
  /\ out' = NoOut

\* A set of indices as pool_foreach comes upon them.
Ascending(S) ==
  {s \in [1..Cardinality(S) -> S] : \A i, j \in DOMAIN s : i < j => s[i] < s[j]}

\* What the scan finds: elements of the pool in use without a registration, and
\* registrations whose process kill (pid, 0) does not find.
Confused == {i \in DOMAIN vl_clients : vl_clients[i] = None /\ i \notin ToSet(free_indices)}
Dead == {i \in DOMAIN vl_clients :
           vl_clients[i] # None /\ pc[Owner(vl_clients[i])] = "dead"}

\* Wrong: the scan begins with the second element of the pool.
MutScanOffByOne ==
  /\ vpp_pc = "loop"
  /\ Dead \ {1} # {}
  /\ "region" \notin lost
  /\ \E dead_indices \in Ascending(Dead \ {1}) : PoolPut(dead_indices)
  /\ reaped' = reaped \cup {Handle(i, restarts) : i \in Dead \ {1}}
  /\ UNCHANGED <<shared, vpp_pc, msg, out, clients>>

(***************************************************************************)
(* Every twenty seconds: elements without a registration are freed, "This  *)
(* should "never happen," but if it does, fix it"; then registrations of   *)
(* dead processes are removed, with the mutex of the region.               *)
(***************************************************************************)
DeadClientScan ==
  /\ vpp_pc = "loop"
  /\ Confused # {} \/ Dead # {}
  /\ Dead # {} => "region" \notin lost
  /\ \E confused_indices \in Ascending(Confused), dead_indices \in Ascending(Dead) :
       PoolPut(confused_indices \o dead_indices)
  /\ reaped' = reaped \cup {Handle(i, restarts) : i \in Dead}
  /\ UNCHANGED <<shared, vpp_pc, msg, out, clients>>

\* The same scan waits for the mutex of the region for ever.
ScanBlocks ==
  /\ vpp_pc = "loop"
  /\ Dead # {} /\ "region" \in lost
  /\ \E confused_indices \in Ascending(Confused) : PoolPut(confused_indices)
  /\ vpp_pc' = "stuck"
  /\ UNCHANGED <<shared, msg, out, reaped, clients>>

-----------------------------------------------------------------------------
(***************************************************************************)
(* vpp dies and comes back                                                 *)
(***************************************************************************)

\* The mutexes vpp may hold at each point, and those it does hold.
VppMayHold ==
  CASE vpp_pc \in {"loop", "reply"} -> {"main", "region"}
    [] vpp_pc \in {"self", "drain"} -> {"main"}
    [] vpp_pc = "root" -> {"root"}
    [] OTHER -> {}
VppHolds == IF vpp_pc \in {"trylock", "drain"} THEN {"region"} ELSE {}

\* vpp dies, and the mutexes it holds stay locked, perhaps that of the queue it
\* answers on.
Crash ==
  /\ vpp_pc # "down"
  /\ vpp_pc' = "down"
  /\ vl_clients' = <<>> /\ free_indices' = <<>>
  /\ msg' = NoMsg /\ out' = NoOut
  /\ \E held \in SUBSET VppMayHold : lost' = lost \cup held \cup VppHolds
  /\ \/ UNCHANGED lost_queues
     \/ vpp_pc = "reply" /\ lost_queues' = lost_queues \cup {out.to}
  /\ FewLost'
  /\ UNCHANGED <<queue, restarts, inbox, reaped, clients>>

(***************************************************************************)
(* vl_map_shmem finds the variables of its predecessor: "application       *)
(* restart".  Before, svm_region_find_or_create takes the mutex of the     *)
(* root region and svm_map_region that of the region; vl_map_shmem takes   *)
(* that of the region again and keeps it.                                  *)
(***************************************************************************)
Restart ==
  /\ vpp_pc = "down"
  /\ restarts < MaxRestarts
  /\ "root" \notin lost /\ "region" \notin lost
  /\ restarts' = restarts + 1
  /\ vpp_pc' = "trylock"
  /\ UNCHANGED <<queue, mutexes, inbox, vl_clients, free_indices, msg, out, reaped,
                 clients>>

\* One of ten pthread_mutex_trylock succeeds.
MutexOk ==
  /\ vpp_pc = "trylock"
  /\ "main" \notin lost
  /\ vpp_pc' = "drain"
  /\ UNCHANGED <<shared, vl_clients, free_indices, msg, out, reaped, clients>>


\* "Mutex buggered, "fix" it".  A client that is alive does not hold it through
\* all ten tries, 100 milliseconds.
MutexForced ==
  /\ vpp_pc = "trylock"
  /\ "main" \in lost
  /\ lost' = lost \ {"main"}
  /\ vpp_pc' = "drain"
  /\ UNCHANGED <<queue, lost_queues, restarts, inbox, vl_clients, free_indices, msg, out,
                 reaped, clients>>

\* unix_shared_memory_queue_sub, nowait: the message is freed unread.
Drains ==
  /\ vpp_pc = "drain"
  /\ "main" \notin lost
  /\ queue # <<>>
  /\ queue' = Tail(queue)
  /\ pc' = IF Len(queue) = MainSize THEN Woken(pc) ELSE pc
  /\ UNCHANGED <<mutexes, restarts, inbox, vpp, op, conn, handle>>

\* "queue underflow": the mutex of the region is given back.
DrainEnds ==
  /\ vpp_pc = "drain"
  /\ "main" \notin lost
  /\ queue = <<>>
  /\ vpp_pc' = "root"
  /\ UNCHANGED <<shared, vl_clients, free_indices, msg, out, reaped, clients>>

\* "Clean up the root region client list", with its mutex; then memclnt_process.
RootCleaned ==
  /\ vpp_pc = "root"
  /\ "root" \notin lost
  /\ vpp_pc' = "loop"
  /\ UNCHANGED <<shared, vl_clients, free_indices, msg, out, reaped, clients>>

Handles ==
  HandleCreate \/ CreateBlocks \/ HandleOther \/ HandleOfNobody \/ HandleAnswer

Serves == Handles \/ RepliesToSelf \/ DumpGoesOn \/ VppReplies

Scans == DeadClientScan \/ ScanBlocks

\* The restart once vpp has the mutex of the region.
ComesUp == MutexOk \/ MutexForced \/ Drains \/ DrainEnds \/ RootCleaned

Next ==
  \/ Serves \/ Scans \/ Crash \/ Restart \/ ComesUp
  \/ \E c \in Clients : Client(c)

Spec == Init /\ [][Next]_vars

(***************************************************************************)
(* A handler comes to its last answer, and sends it once there is room; a  *)
(* vpp that has begun its restart goes on with it; the scan comes round    *)
(* every twenty seconds unless vpp is held up at the main input queue; the *)
(* receive thread of a client reads.  Nothing else has to happen: nobody   *)
(* has to start vpp again, no client has to call, to die or to see a       *)
(* timeout.                                                                *)
(***************************************************************************)
LiveSpec ==
  /\ Spec
  /\ SF_vars(VppReplies) /\ WF_vars(RepliesToSelf) /\ WF_vars(ComesUp)
  /\ SF_vars("main" \notin lost /\ DeadClientScan)
  /\ \A c \in Clients : WF_vars(Receive(c))

-----------------------------------------------------------------------------
Up == vpp_pc \in {"loop", "reply", "self", "stuck"}

\* An answer goes to the client that asked, across restarts of vpp, timeouts and
\* reuse of indices; except that a handle whose owner died may have been given
\* out again while a message that carries it was still in the queue.
AnswersBelong ==
  vpp_pc = "reply" => out.to = msg.from \/ msg.handle \in reaped

\* As long as vpp lives, a client it has given a handle to, and that has not asked
\* for its removal, is the one registered under this handle; with the same
\* exception.
HandlesHonoured ==
  \A c \in Clients :
    /\ Up /\ pc[c] \notin {"off", "dead"} /\ handle[c].life = restarts
    /\ op[c] # "delete"
    => Registration(handle[c]) = Mine(c) \/ handle[c] \in reaped


(***************************************************************************)
(* The inductive strengthening.                                            *)
(***************************************************************************)

Types == {"create", "request", "delete"}
Mutexes == {"main", "region", "root"}

\* The handles vpp has given out so far, in this life and in earlier ones.
Known == {NoHandle} \cup [index : Nat \ {0}, life : 0..restarts]

Requests == [type : Types \cup {"answer"}, from : Queues, handle : Known]
Replies == [type : Types, handle : Known]

TypeOK ==
  /\ restarts \in 0..MaxRestarts
  /\ queue \in Seq(Requests)
  /\ lost \subseteq Mutexes /\ lost_queues \subseteq Queues
  /\ inbox \in [Queues -> Seq(Replies)]
  /\ vpp_pc \in {"loop", "reply", "self", "stuck", "down", "trylock", "drain", "root"}
  /\ vl_clients \in Seq(Queues \cup {None})
  /\ free_indices \in Seq(DOMAIN vl_clients)
  /\ IF vpp_pc \in {"reply", "self"} THEN msg \in Requests ELSE msg = NoMsg
  /\ IF vpp_pc = "reply" THEN out \in [to : Queues, type : Types, handle : Known]
     ELSE out = NoOut
  /\ pc \in [Clients -> {"off", "send", "sleep", "wait", "on", "dead"}]
  /\ op \in [Clients -> Types \cup {"none"}]
  /\ conn \in [Clients -> Nat]
  /\ handle \in [Clients -> Known]
  /\ reaped \subseteq Known

\* A client that is not off or dead has a queue; it has no handle before its
\* connection is answered and none after it has disconnected.
ClientPhase ==
  \A c \in Clients :
    /\ pc[c] \in {"off", "on", "dead"} <=> op[c] = "none"
    /\ conn[c] <= MaxConnects[c]
    /\ pc[c] \notin {"off", "dead"} => conn[c] > 0
    /\ pc[c] \in {"off", "dead"} \/ op[c] = "create" => handle[c] = NoHandle

\* The free elements of the pool are free, each once, and a queue is registered
\* once; there is no other element without a registration.  Only a vpp that is up has
\* a pool.
PoolExact ==
  /\ ~Up => vl_clients = <<>> /\ free_indices = <<>>
  /\ \A k \in DOMAIN free_indices : vl_clients[free_indices[k]] = None
  /\ Confused = {}
  /\ \A k, l \in DOMAIN free_indices : free_indices[k] = free_indices[l] => k = l
  /\ \A i, j \in DOMAIN vl_clients :
       vl_clients[i] = vl_clients[j] /\ vl_clients[i] # None => i = j

\* The queue of a connection that a client has asked for.
Created(q) == q[2] <= conn[Owner(q)]

Unregistered(q) == \A i \in DOMAIN vl_clients : vl_clients[i] # q

\* Nothing is known of a connection before it is asked for.
QueuesCreated ==
  /\ \A i \in DOMAIN queue : Created(queue[i].from)
  /\ vpp_pc \in {"reply", "self"} => Created(msg.from)
  /\ \A q \in Queues : ~Created(q) => inbox[q] = <<>> /\ Unregistered(q)

\* Handle h is of use to connection q as long as vpp lives, or has been reaped.
Honoured(h, q) ==
  vpp_pc # "down" /\ h.life = restarts =>
    \/ h \in reaped
    \/ h.index \in DOMAIN vl_clients /\ vl_clients[h.index] = q

\* Wherever a handle may yet be used it is honoured: in a message, by a client that
\* has not sent its last message, in an answer a client waits for.
MessagesHonoured ==
  \A i \in DOMAIN queue :
    queue[i].type # "answer" => Honoured(queue[i].handle, queue[i].from)

ClientsHonoured ==
  \A c \in Clients :
    pc[c] \notin {"off", "dead"} /\ ~Waiting(c, "delete") => Honoured(handle[c], Mine(c))

RepliesHonoured ==
  \A c \in Clients : Waiting(c, "create") =>
    \A k \in DOMAIN inbox[Mine(c)] :
      inbox[Mine(c)][k].type = "create" => Honoured(inbox[Mine(c)][k].handle, Mine(c))

\* The last message of connection q was of this type, and its client still waits for
\* the answer, if it has not given up.
Awaits(q, type) ==
  Mine(Owner(q)) = q => pc[Owner(q)] \in {"off", "dead"} \/ Waiting(Owner(q), type)

\* Message m comes from connection q, and not from vpp.
Sender(m, q) == m.from = q /\ m.type # "answer"

\* memclnt_delete is the last message of a connection.
DeletesLast ==
  /\ \A i \in DOMAIN queue : queue[i].type = "delete" =>
       /\ Awaits(queue[i].from, "delete")
       /\ \A j \in DOMAIN queue : j > i => ~Sender(queue[j], queue[i].from)
  /\ vpp_pc = "reply" /\ msg.type = "delete" =>
       /\ Awaits(msg.from, "delete")
       /\ \A j \in DOMAIN queue : ~Sender(queue[j], msg.from)

\* The answer vpp is about to send goes to the client that is registered.
ReplyMatches ==
  vpp_pc = "reply" =>
    LET h == IF msg.type = "create" THEN out.handle ELSE msg.handle IN
    /\ out.type = msg.type
    /\ h.life = restarts
    /\ h.index \in DOMAIN vl_clients /\ vl_clients[h.index] = out.to
    /\ msg.type = "create" => out.to = msg.from
    /\ out.to = msg.from \/ msg.handle \in reaped

\* vpp has not handled a message of connection q yet.
Fresh(q) == Unregistered(q) /\ inbox[q] = <<>> /\ msg.from # q

\* memclnt_create is the first message of a connection, and there is no other until
\* it is answered.
CreatesFirst ==
  /\ \A i \in DOMAIN queue : queue[i].type = "create" =>
       /\ Fresh(queue[i].from) /\ Awaits(queue[i].from, "create")
       /\ \A j \in DOMAIN queue : queue[j].from = queue[i].from => j = i
  /\ \A c \in Clients : op[c] = "create" /\ pc[c] # "wait" =>
       /\ Fresh(Mine(c))
       /\ \A j \in DOMAIN queue : queue[j].from # Mine(c)
  /\ vpp_pc = "reply" /\ msg.type = "create" =>
       /\ inbox[msg.from] = <<>> /\ Awaits(msg.from, "create")
       /\ \A j \in DOMAIN queue : queue[j].from # msg.from

\* What every reachable state satisfies and every step preserves.
IInv ==
  /\ TypeOK /\ ClientPhase /\ PoolExact /\ QueuesCreated
  /\ MessagesHonoured /\ ClientsHonoured /\ RepliesHonoured
  /\ DeletesLast /\ ReplyMatches /\ CreatesFirst

-----------------------------------------------------------------------------
\* The receive thread of a client reads queue q.
Attended(q) == Mine(Owner(q)) = q /\ Listens(Owner(q)) /\ q \notin lost_queues

\* The main thread, which sleeps while the queue it answers on is full, comes to the
\* end of its handler as long as the client's receive thread runs, even when the
\* client itself is asleep at the full main input queue; unless this thread has come
\* to a memclnt_delete_reply and the mutex of the region is lost.
HandlerReturns ==
  vpp_pc = "reply" ~> vpp_pc # "reply" \/ ~Attended(out.to) \/ "region" \in lost


\* vpp waits for a client that does not read, or for itself.
HeldUp ==
  \/ vpp_pc = "reply" /\ ~Attended(out.to)
  \/ vpp_pc = "self" /\ Len(queue) = MainSize

\* The registrations of clients that have died go away, unless a process has died
\* with a mutex that vpp needs, or vpp is held up.
DeadReaped ==
  Dead # {} ~> Dead = {} \/ "main" \in lost \/ "region" \in lost \/ HeldUp

=============================================================================
