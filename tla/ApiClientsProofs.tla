-------------------------- MODULE ApiClientsProofs --------------------------
(***************************************************************************)
(* For any number of clients, connections and restarts: an answer of vpp   *)
(* goes to the client that asked, and a client keeps its registration as   *)
(* long as vpp lives.                                                      *)
(***************************************************************************)
EXTENDS ApiClients, FiniteSetTheorems, SequenceTheorems, TLAPS

-----------------------------------------------------------------------------
(***************************************************************************)
(* Queues, handles and messages                                            *)
(***************************************************************************)

\* A queue belongs to a client and has the number of a connection.
LEMMA QueueFacts ==
  /\ \A q \in Queues : Owner(q) \in Clients /\ q[2] \in 1..MaxConnects[Owner(q)]
                       /\ q = <<Owner(q), q[2]>> /\ q # None
  /\ \A c \in Clients, n \in Nat : n > 0 /\ n <= MaxConnects[c] => <<c, n>> \in Queues
<1>1. \A c \in Clients : MaxConnects[c] \in Nat
  BY SizesAssumption
<1>2. ASSUME NEW q \in Queues
      PROVE  Owner(q) \in Clients /\ q[2] \in 1..MaxConnects[Owner(q)]
             /\ q = <<Owner(q), q[2]>>
  <2>1. PICK c \in Clients : q \in {c} \X (1..MaxConnects[c])
    BY DEF Queues
  <2>. QED
    BY <2>1 DEF Owner
<1>3. ASSUME NEW c \in Clients, NEW n \in Nat, n > 0, n <= MaxConnects[c]
      PROVE  <<c, n>> \in Queues
  <2>1. <<c, n>> \in {c} \X (1..MaxConnects[c])
    BY <1>1, <1>3
  <2>. QED
    BY <2>1 DEF Queues
<1>. QED
  BY <1>2, <1>3, NoneAssumption

\* A client that is neither off nor dead has a queue.
LEMMA MineIsQueue ==
  ASSUME TypeOK, ClientPhase, NEW c \in Clients, pc[c] \notin {"off", "dead"}
  PROVE  Mine(c) \in Queues /\ Owner(Mine(c)) = c
  BY QueueFacts DEF TypeOK, ClientPhase, Mine, Owner

\* The epoch of a handle tells its life; the handle of nobody has no index.
LEMMA EpochTells ==
  ASSUME TypeOK, NEW h \in Known, Registration(h) # None
  PROVE  /\ h.life = restarts /\ h.index \in DOMAIN vl_clients
         /\ Registration(h) = vl_clients[h.index]
<1>1. /\ vl_msg_api_handle_get_epoch(h) = restarts % Epochs
      /\ h.index \in DOMAIN vl_clients /\ Registration(h) = vl_clients[h.index]
  BY DEF Registration
<1>2. h # NoHandle
  <2>1. 0 \notin DOMAIN vl_clients
    BY DEF TypeOK
  <2>. QED
    BY <1>1, <2>1 DEF NoHandle, Handle
<1>3. h.life \in 0..restarts /\ restarts \in 0..MaxRestarts
  BY <1>2 DEF Known, TypeOK
<1>4. h.life % Epochs = h.life /\ restarts % Epochs = restarts
  <2>1. \A n \in Nat : n < Epochs => n % Epochs = n
    BY EpochsAssumption
  <2>. QED
    BY <1>3, <2>1, EpochsAssumption
<1>. QED
  BY <1>1, <1>4 DEF vl_msg_api_handle_get_epoch

\* A handle of the present life is known by its index.
LEMMA PresentHandle ==
  ASSUME TypeOK, NEW h \in Known, h.life = restarts
  PROVE  h = Handle(h.index, restarts)
<1>1. restarts # -1
  BY DEF TypeOK
<1>. QED
  BY <1>1 DEF Known, NoHandle, Handle

\* The messages in the main input queue and the one that is being handled.
LEMMA MessageFacts ==
  ASSUME TypeOK
  PROVE  /\ Len(queue) \in Nat /\ DOMAIN queue = 1..Len(queue)
         /\ \A i \in DOMAIN queue :
              /\ queue[i] \in Requests /\ queue[i].from \in Queues
              /\ queue[i].handle \in Known
         /\ vpp_pc \in {"reply", "self"} => msg.from \in Queues /\ msg.handle \in Known
<1>1. /\ Len(queue) \in Nat /\ DOMAIN queue = 1..Len(queue)
      /\ \A i \in DOMAIN queue : queue[i] \in Requests
  BY LenProperties, ElementOfSeq DEF TypeOK
<1>2. \A m \in Requests : m.from \in Queues /\ m.handle \in Known
  BY DEF Requests
<1>3. vpp_pc \in {"reply", "self"} => msg \in Requests
  BY DEF TypeOK
<1>. QED
  BY <1>1, <1>2, <1>3

-----------------------------------------------------------------------------
(***************************************************************************)
(* What a step leaves as it is                                             *)
(***************************************************************************)

\* A client is where it was, but for waking up.
SamePhase(d) ==
  /\ op'[d] = op[d] /\ conn'[d] = conn[d] /\ handle'[d] = handle[d]
  /\ \/ pc'[d] = pc[d]
     \/ pc[d] \in {"send", "sleep"} /\ pc'[d] \in {"send", "sleep"}

\* Then nothing the invariant says about its queues has changed.
LEMMA QueueSame ==
  ASSUME NEW q \in Queues, SamePhase(Owner(q))
  PROVE  /\ Created(q)' <=> Created(q)
         /\ \A type \in Types : Awaits(q, type)' <=> Awaits(q, type)
<1>1. Mine(Owner(q))' = Mine(Owner(q))
  BY DEF SamePhase, Mine
<1>2. Created(q)' <=> Created(q)
  BY DEF SamePhase, Created
<1>3. \A type \in Types : Awaits(q, type)' <=> Awaits(q, type)
  BY <1>1 DEF SamePhase, Awaits, Waiting
<1>. QED
  BY <1>2, <1>3

\* Nor about itself.
LEMMA ClientSame ==
  ASSUME NEW d \in Clients, SamePhase(d)
  PROVE  /\ Mine(d)' = Mine(d)
         /\ \A type \in Types : Waiting(d, type)' <=> Waiting(d, type)
         /\ pc'[d] \in {"off", "dead"} <=> pc[d] \in {"off", "dead"}
         /\ pc'[d] \in {"off", "on", "dead"} <=> pc[d] \in {"off", "on", "dead"}
         /\ pc'[d] = "wait" <=> pc[d] = "wait"
  BY DEF SamePhase, Mine, Waiting

\* The pool of registrations, and what it says about handles, is the same.
LEMMA PoolSame ==
  ASSUME UNCHANGED <<restarts, vpp>>
  PROVE  /\ PoolExact' <=> PoolExact
         /\ ReplyMatches' <=> ReplyMatches
         /\ \A q \in Queues : Unregistered(q)' <=> Unregistered(q)
         /\ \A h, q : Honoured(h, q)' <=> Honoured(h, q)
<1>. USE DEF vpp
<1>1. (PoolExact' <=> PoolExact) /\ (ReplyMatches' <=> ReplyMatches)
  BY DEF PoolExact, Confused, Up, ReplyMatches
<1>2. \A q \in Queues : Unregistered(q)' <=> Unregistered(q)
  BY DEF Unregistered
<1>3. \A h, q : Honoured(h, q)' <=> Honoured(h, q)
  BY DEF Honoured
<1>. QED
  BY <1>1, <1>2, <1>3

\* A client reads its queue, or does not.
Reads(c) ==
  \/ inbox' = inbox
  \/ /\ inbox[Mine(c)] # <<>>
     /\ inbox' = [inbox EXCEPT ![Mine(c)] = Tail(inbox[Mine(c)])]

\* What is in a queue then was in it before.
LEMMA InboxShrinks ==
  ASSUME TypeOK, NEW c \in Clients, Reads(c), NEW q \in Queues
  PROVE  /\ Len(inbox'[q]) \in Nat /\ Len(inbox'[q]) <= Len(inbox[q])
         /\ inbox[q] = <<>> => inbox'[q] = <<>>
         /\ \A k \in DOMAIN inbox'[q] :
              \E l \in DOMAIN inbox[q] : inbox'[q][k] = inbox[q][l]
         /\ inbox'[q] \in Seq(Replies)
<1>1. inbox[q] \in Seq(Replies) /\ inbox \in [Queues -> Seq(Replies)]
  BY DEF TypeOK
<1>2. CASE inbox'[q] = inbox[q]
  BY <1>1, <1>2
<1>3. CASE inbox[q] # <<>> /\ inbox'[q] = Tail(inbox[q])
  <2>1. /\ Tail(inbox[q]) \in Seq(Replies) /\ Len(Tail(inbox[q])) = Len(inbox[q]) - 1
        /\ \A i \in 1..Len(Tail(inbox[q])) : Tail(inbox[q])[i] = inbox[q][i + 1]
        /\ DOMAIN Tail(inbox[q]) = 1..Len(Tail(inbox[q]))
        /\ DOMAIN inbox[q] = 1..Len(inbox[q]) /\ Len(inbox[q]) \in Nat \ {0}
    BY <1>1, <1>3, HeadTailProperties, LenProperties, EmptySeq
  <2>. QED
    BY <1>3, <2>1
<1>. QED
  BY <1>1, <1>2, <1>3 DEF Reads


-----------------------------------------------------------------------------
(***************************************************************************)
(* Steps of a client that leave the main input queue alone                 *)
(***************************************************************************)

\* A client moves on, and may read a message.  It forgets or keeps its handle, or
\* takes one it has been given; it does not wait again for what it has given up;
\* and it stops to wait for memclnt_create_reply only with a message, or for good.
Quiet(c) ==
  /\ UNCHANGED <<queue, restarts, vpp, conn>>
  /\ \A d \in Clients \ {c} : SamePhase(d)
  /\ Reads(c)
  /\ pc'[c] \notin {"off", "dead"} /\ ~Waiting(c, "delete")' =>
       handle'[c] = NoHandle \/ Honoured(handle'[c], Mine(c))
  /\ Waiting(c, "create")' => Waiting(c, "create")
  /\ pc[c] \in {"off", "dead"} \/ Waiting(c, "delete") =>
       pc'[c] \in {"off", "dead"} \/ Waiting(c, "delete")'
  /\ Waiting(c, "create") =>
       pc'[c] \in {"off", "dead"} \/ Waiting(c, "create")' \/ inbox[Mine(c)] # <<>>
  /\ op'[c] = "create" /\ pc'[c] # "wait" => op[c] = "create" /\ pc[c] # "wait"
  /\ pc[c] \in {"off", "dead"} => pc'[c] \in {"off", "dead"}

\* Such a step keeps the invariant.
LEMMA QuietKeeps ==
  ASSUME IInv, TypeOK', ClientPhase', NEW c \in Clients, Quiet(c)
  PROVE  /\ PoolExact' /\ QueuesCreated' /\ MessagesHonoured' /\ ClientsHonoured'
         /\ RepliesHonoured' /\ DeletesLast' /\ ReplyMatches' /\ CreatesFirst'
<1>0. /\ TypeOK /\ ClientPhase /\ UNCHANGED <<queue, restarts, vpp>>
      /\ queue \in Seq(Requests) /\ \A d \in Clients : conn'[d] = conn[d]
      /\ vpp_pc' = vpp_pc /\ msg' = msg
  BY DEF IInv, TypeOK, Quiet, vpp
<1>1. PoolExact' /\ ReplyMatches'
  BY <1>0, PoolSame DEF IInv
<1>2. \A h, q : Honoured(h, q)' <=> Honoured(h, q)
  BY <1>0, PoolSame
<1>3. \A d \in Clients : Mine(d)' = Mine(d)
  BY <1>0 DEF Mine
<1>4. \A q \in Queues : (Created(q)' <=> Created(q)) /\ (Unregistered(q)' <=> Unregistered(q))
  BY <1>0, PoolSame, QueueFacts DEF Created
<1>5. \A i \in DOMAIN queue : queue[i].from \in Queues /\ queue[i] \in Requests
  BY <1>0, MessageFacts
<1>6. vpp_pc \in {"reply", "self"} => msg.from \in Queues
  BY <1>0, MessageFacts
<1>7. QueuesCreated'
  <2>1. \A q \in Queues : inbox[q] = <<>> => inbox'[q] = <<>>
    BY <1>0, InboxShrinks DEF Quiet
  <2>. QED
    BY <1>0, <1>4, <1>5, <1>6, <2>1 DEF IInv, QueuesCreated
<1>8. MessagesHonoured'
  BY <1>0, <1>2 DEF IInv, MessagesHonoured
<1>9. ClientsHonoured'
  <2>1. \A q : Honoured(NoHandle, q)
    <3>1. restarts # -1
      BY <1>0 DEF TypeOK
    <3>. QED
      BY <3>1 DEF Honoured, NoHandle, Handle
  <2>2. ASSUME NEW d \in Clients, pc'[d] \notin {"off", "dead"}, ~Waiting(d, "delete")'
        PROVE  Honoured(handle'[d], Mine(d))
    <3>1. CASE d = c
      BY <2>1, <2>2, <3>1 DEF Quiet
    <3>2. CASE d # c
      <4>1. SamePhase(d)
        BY <3>2 DEF Quiet
      <4>. QED
        BY <2>2, <4>1, ClientSame DEF SamePhase, IInv, ClientsHonoured, Types
    <3>. QED
      BY <3>1, <3>2
  <2>. QED
    BY <1>2, <1>3, <2>2 DEF ClientsHonoured
<1>10. RepliesHonoured'
  <2>. SUFFICES ASSUME NEW d \in Clients, Waiting(d, "create")',
                       NEW k \in DOMAIN inbox'[Mine(d)],
                       inbox'[Mine(d)][k].type = "create"
                PROVE  Honoured(inbox'[Mine(d)][k].handle, Mine(d))
    BY <1>2, <1>3 DEF RepliesHonoured
  <2>1. Waiting(d, "create")
    <3>1. CASE d = c
      BY <3>1 DEF Quiet
    <3>2. CASE d # c
      BY <3>2, ClientSame DEF Quiet, Types
    <3>. QED
      BY <3>1, <3>2
  <2>2. Mine(d) \in Queues
    BY <1>0, <2>1, MineIsQueue DEF Waiting
  <2>3. PICK l \in DOMAIN inbox[Mine(d)] : inbox'[Mine(d)][k] = inbox[Mine(d)][l]
    BY <1>0, <2>2, InboxShrinks DEF Quiet
  <2>. QED
    BY <2>1, <2>3 DEF IInv, RepliesHonoured
<1>11. ASSUME NEW q \in Queues, Awaits(q, "delete") PROVE Awaits(q, "delete")'
  <2>1. CASE Owner(q) = c
    BY <1>3, <1>11, <2>1 DEF Awaits, Quiet
  <2>2. CASE Owner(q) # c
    BY <1>11, <2>2, QueueFacts, QueueSame DEF Quiet, Types
  <2>. QED
    BY <2>1, <2>2
<1>12. DeletesLast'
  BY <1>0, <1>5, <1>6, <1>11 DEF IInv, DeletesLast
<1>13. ASSUME NEW q \in Queues, inbox[q] = <<>>
       PROVE  inbox'[q] = <<>> /\ (Awaits(q, "create") => Awaits(q, "create")')
  <2>1. inbox'[q] = <<>>
    BY <1>0, <1>13, InboxShrinks DEF Quiet
  <2>2. CASE Owner(q) = c
    BY <1>3, <1>13, <2>1, <2>2 DEF Awaits, Quiet
  <2>3. CASE Owner(q) # c
    BY <1>13, <2>1, <2>3, QueueFacts, QueueSame DEF Quiet, Types
  <2>. QED
    BY <2>2, <2>3
<1>14. \A q \in Queues : Fresh(q) => Fresh(q)'
  BY <1>0, <1>4, <1>13 DEF Fresh
<1>15. CreatesFirst'
  <2>1. ASSUME NEW i \in DOMAIN queue, queue[i].type = "create",
               NEW q \in Queues, q = queue[i].from
        PROVE  Fresh(q)' /\ Awaits(q, "create")'
               /\ \A j \in DOMAIN queue : queue[j].from = q => j = i
    <3>1. Fresh(q) /\ Awaits(q, "create") /\ \A j \in DOMAIN queue : queue[j].from = q => j = i
      BY <2>1 DEF IInv, CreatesFirst
    <3>. QED
      BY <1>13, <1>14, <3>1 DEF Fresh
  <2>2. ASSUME vpp_pc = "reply", msg.type = "create", NEW q \in Queues, q = msg.from
        PROVE  inbox'[q] = <<>> /\ Awaits(q, "create")'
               /\ \A j \in DOMAIN queue : queue[j].from # q
    BY <1>13, <2>2 DEF IInv, CreatesFirst
  <2>3. ASSUME NEW d \in Clients, op'[d] = "create", pc'[d] # "wait",
               NEW q \in Queues, q = Mine(d)
        PROVE  Fresh(q)' /\ \A j \in DOMAIN queue : queue[j].from # q
    <3>1. op[d] = "create" /\ pc[d] # "wait"
      <4>1. CASE d = c
        BY <2>3, <4>1 DEF Quiet
      <4>2. CASE d # c
        BY <2>3, <4>2, ClientSame DEF Quiet, SamePhase
      <4>. QED
        BY <4>1, <4>2
    <3>. QED
      BY <1>14, <2>3, <3>1 DEF IInv, CreatesFirst
  <2>4. ASSUME NEW d \in Clients, op'[d] = "create" PROVE Mine(d)' \in Queues
    <3>1. conn'[d] \in Nat /\ conn'[d] > 0 /\ conn'[d] <= MaxConnects[d]
      BY <2>4 DEF TypeOK, ClientPhase
    <3>. QED
      BY <3>1, QueueFacts DEF Mine
  <2>. QED
    BY <1>0, <1>3, <1>5, <1>6, <2>1, <2>2, <2>3, <2>4 DEF CreatesFirst
<1>. QED
  BY <1>1, <1>7, <1>8, <1>9, <1>10, <1>12, <1>15

\* The sets of the type invariant grow only with the number of restarts.
LEMMA SameTypes ==
  ASSUME restarts' = restarts
  PROVE  Known' = Known /\ Requests' = Requests /\ Replies' = Replies
  BY DEF Known, Requests, Replies

\* The types after such a step.
LEMMA QuietType ==
  ASSUME TypeOK, NEW c \in Clients, Reads(c), UNCHANGED <<queue, restarts, vpp, conn>>,
         lost' \subseteq Mutexes, lost_queues' \subseteq Queues,
         NEW p \in {"off", "send", "sleep", "wait", "on", "dead"}, pc' = [pc EXCEPT ![c] = p],
         NEW o \in Types \cup {"none"}, op' = [op EXCEPT ![c] = o],
         NEW h \in Known, handle' = [handle EXCEPT ![c] = h]
  PROVE  /\ TypeOK'
         /\ pc'[c] = p /\ op'[c] = o /\ handle'[c] = h
         /\ \A d \in Clients \ {c} : SamePhase(d)
<1>. USE SameTypes
<1>1. inbox' \in [Queues -> Seq(Replies)]
  <2>1. \A q \in Queues : inbox'[q] \in Seq(Replies)
    BY InboxShrinks
  <2>2. inbox' = inbox \/ \E v : inbox' = [inbox EXCEPT ![Mine(c)] = v]
    BY DEF Reads
  <2>3. DOMAIN inbox' = Queues /\ inbox' = [q \in Queues |-> inbox'[q]]
    BY <2>2 DEF TypeOK
  <2>. QED
    BY <2>1, <2>3
<1>2. /\ pc' \in [Clients -> {"off", "send", "sleep", "wait", "on", "dead"}]
      /\ op' \in [Clients -> Types \cup {"none"}] /\ handle' \in [Clients -> Known]
  BY DEF TypeOK
<1>3. TypeOK'
  BY <1>1, <1>2 DEF TypeOK, vpp
<1>4. pc'[c] = p /\ op'[c] = o /\ handle'[c] = h
  BY DEF TypeOK
<1>5. \A d \in Clients \ {c} : SamePhase(d)
  BY DEF TypeOK, SamePhase
<1>. QED
  BY <1>3, <1>4, <1>5

\* The same, said of the client's new place, call and handle.
LEMMA QuietTypes ==
  ASSUME TypeOK, NEW c \in Clients, Reads(c), UNCHANGED <<queue, restarts, vpp, conn>>,
         lost' \subseteq Mutexes, lost_queues' \subseteq Queues,
         pc'[c] \in {"off", "send", "sleep", "wait", "on", "dead"},
         pc' = [pc EXCEPT ![c] = pc'[c]],
         op'[c] \in Types \cup {"none"}, op' = [op EXCEPT ![c] = op'[c]],
         handle'[c] \in Known, handle' = [handle EXCEPT ![c] = handle'[c]]
  PROVE  TypeOK' /\ \A d \in Clients \ {c} : SamePhase(d)
<1>. DEFINE p == pc'[c]
            o == op'[c]
            h == handle'[c]
<1>1. /\ p \in {"off", "send", "sleep", "wait", "on", "dead"} /\ pc' = [pc EXCEPT ![c] = p]
      /\ o \in Types \cup {"none"} /\ op' = [op EXCEPT ![c] = o]
      /\ h \in Known /\ handle' = [handle EXCEPT ![c] = h]
  OBVIOUS
<1>. HIDE DEF p, o, h
<1>. QED
  BY <1>1, QuietType

\* The phases of the clients, from the one that moves.
LEMMA PhaseKept ==
  ASSUME ClientPhase, NEW c \in Clients, \A d \in Clients \ {c} : SamePhase(d),
         pc'[c] \in {"off", "on", "dead"} <=> op'[c] = "none",
         pc'[c] \in {"off", "dead"} \/ op'[c] = "create" => handle'[c] = NoHandle,
         conn'[c] <= MaxConnects[c],
         pc'[c] \notin {"off", "dead"} => conn'[c] > 0
  PROVE  ClientPhase'
<1>1. ASSUME NEW d \in Clients
      PROVE  /\ pc'[d] \in {"off", "on", "dead"} <=> op'[d] = "none"
             /\ conn'[d] <= MaxConnects[d]
             /\ pc'[d] \notin {"off", "dead"} => conn'[d] > 0
             /\ pc'[d] \in {"off", "dead"} \/ op'[d] = "create" => handle'[d] = NoHandle
  <2>1. CASE d = c
    BY <2>1
  <2>2. CASE d # c
    BY <2>2, ClientSame DEF ClientPhase, SamePhase
  <2>. QED
    BY <2>1, <2>2
<1>. QED
  BY <1>1 DEF ClientPhase

\* A quiet step of a client, from its new place, call and handle.
LEMMA QuietIInv ==
  ASSUME IInv, NEW c \in Clients, TypeOK', Quiet(c),
         pc'[c] \in {"off", "on", "dead"} <=> op'[c] = "none",
         pc'[c] \in {"off", "dead"} \/ op'[c] = "create" => handle'[c] = NoHandle
  PROVE  IInv'
<1>1. ClientPhase'
  BY PhaseKept DEF IInv, ClientPhase, Quiet
<1>. QED
  BY <1>1, QuietKeeps DEF IInv

\* The timeouts of a client's calls, and its death.
LEMMA TimeoutIInv ==
  ASSUME IInv, NEW c \in Clients,
         \/ ConnectTimeout(c) \/ RequestTimeout(c) \/ DisconnectTimeout(c) \/ Die(c)
  PROVE  IInv'
<1>0. TypeOK /\ ClientPhase /\ NoHandle \in Known
  BY DEF IInv, Known
<1>1. CASE ConnectTimeout(c)
  <2>. USE <1>1 DEF ConnectTimeout, Return, shared, mutexes, vpp, Waiting
  <2>1. handle' = [handle EXCEPT ![c] = handle[c]] /\ handle[c] \in Known
    BY <1>0 DEF TypeOK
  <2>2. /\ TypeOK' /\ pc'[c] = "off" /\ op'[c] = "none" /\ handle'[c] = handle[c]
        /\ \A d \in Clients \ {c} : SamePhase(d)
    BY ZenonT(60), <1>0, <2>1, QuietType DEF Reads, TypeOK
  <2>3. Quiet(c)
    BY <2>2 DEF Quiet, Reads
  <2>4. handle[c] = NoHandle
    BY DEF IInv, ClientPhase
  <2>. QED
    BY <2>2, <2>3, <2>4, QuietIInv
<1>2. CASE RequestTimeout(c)
  <2>. USE <1>2 DEF RequestTimeout, Return, shared, mutexes, vpp, Waiting
  <2>1. handle' = [handle EXCEPT ![c] = handle[c]] /\ handle[c] \in Known
    BY <1>0 DEF TypeOK
  <2>2. /\ TypeOK' /\ pc'[c] = "on" /\ op'[c] = "none" /\ handle'[c] = handle[c]
        /\ \A d \in Clients \ {c} : SamePhase(d)
    BY ZenonT(60), <1>0, <2>1, QuietType DEF Reads, TypeOK
  <2>3. Honoured(handle[c], Mine(c))
    BY DEF IInv, ClientsHonoured
  <2>4. Quiet(c)
    BY <2>2, <2>3 DEF Quiet, Reads
  <2>. QED
    BY <2>2, <2>4, QuietIInv
<1>3. CASE DisconnectTimeout(c)
  <2>. USE <1>3 DEF DisconnectTimeout, Return, shared, mutexes, vpp, Waiting
  <2>1. lost' \subseteq Mutexes /\ lost_queues' \subseteq Queues /\ Reads(c)
    BY <1>0 DEF Reads, TypeOK
  <2>2. /\ TypeOK' /\ pc'[c] = "off" /\ op'[c] = "none" /\ handle'[c] = NoHandle
        /\ \A d \in Clients \ {c} : SamePhase(d)
    BY <1>0, <2>1, QuietType
  <2>3. Quiet(c)
    BY <2>2 DEF Quiet, Reads
  <2>. QED
    BY <2>2, <2>3, QuietIInv
<1>4. CASE Die(c)
  <2>. USE <1>4 DEF Die, Return, vpp, Waiting
  <2>1. lost' \subseteq Mutexes /\ lost_queues' \subseteq Queues
    <3>1. lost \subseteq Mutexes /\ lost_queues \subseteq Queues /\ MayHold(c) \subseteq Mutexes
      BY <1>0 DEF TypeOK, MayHold, Mutexes
    <3>2. PICK held \in SUBSET MayHold(c) : lost' = lost \cup held
      OBVIOUS
    <3>3. pc[c] # "off" => Mine(c) \in Queues
      BY <1>0, MineIsQueue
    <3>. QED
      BY <3>1, <3>2, <3>3
  <2>2. /\ TypeOK' /\ pc'[c] = "dead" /\ op'[c] = "none" /\ handle'[c] = NoHandle
        /\ \A d \in Clients \ {c} : SamePhase(d)
    BY <1>0, <2>1, QuietType DEF Reads
  <2>3. Quiet(c)
    BY <2>2 DEF Quiet, Reads
  <2>. QED
    BY <2>2, <2>3, QuietIInv
<1>. QED
  BY <1>1, <1>2, <1>3, <1>4

\* A client goes to sleep at the full main input queue.
LEMMA SendSleepsIInv ==
  ASSUME IInv, NEW c \in Clients, SendSleeps(c)
  PROVE  IInv'
<1>. USE DEF SendSleeps, shared, mutexes, vpp, Waiting
<1>0. TypeOK
  BY DEF IInv
<1>1. /\ handle' = [handle EXCEPT ![c] = handle[c]] /\ handle[c] \in Known
      /\ op' = [op EXCEPT ![c] = op[c]] /\ op[c] \in Types \cup {"none"}
  BY <1>0 DEF TypeOK
<1>2. /\ TypeOK' /\ pc'[c] = "sleep" /\ op'[c] = op[c] /\ handle'[c] = handle[c]
      /\ \A d \in Clients \ {c} : SamePhase(d)
  <2>1. /\ pc'[c] = "sleep" /\ pc' = [pc EXCEPT ![c] = pc'[c]]
        /\ op'[c] = op[c] /\ handle'[c] = handle[c] /\ lost' \subseteq Mutexes
        /\ lost_queues' \subseteq Queues
    BY <1>0 DEF TypeOK
  <2>. QED
    BY <1>0, <1>1, <2>1, QuietTypes DEF Reads
<1>3. Honoured(handle[c], Mine(c)) /\ op[c] # "none"
  BY DEF IInv, ClientsHonoured, ClientPhase
<1>4. op[c] = "create" => handle[c] = NoHandle
  BY DEF IInv, ClientPhase
<1>5. Quiet(c)
  BY <1>2, <1>3 DEF Quiet, Reads
<1>. QED
  BY <1>2, <1>3, <1>4, <1>5, QuietIInv

\* A client reads a message from its queue.
LEMMA ReceivesIInv ==
  ASSUME IInv, NEW c \in Clients, Receives(c)
  PROVE  IInv'
<1>0. TypeOK /\ ClientPhase /\ NoHandle \in Known
  BY DEF IInv, Known
<1>1. /\ Read(c) /\ pc[c] \notin {"off", "dead"}
      /\ pc[c] \in {"send", "sleep", "wait", "on"}
  BY <1>0 DEF Receives, ConnectReply, Receive, Listens, DisconnectReply, Waiting, ClientPhase,
                  TypeOK
<1>2. /\ UNCHANGED <<queue, lost, lost_queues, restarts, vpp, conn>>
      /\ inbox[Mine(c)] # <<>> /\ Reads(c)
  BY <1>1 DEF Read, Reads, mutexes
<1>3. /\ Mine(c) \in Queues /\ inbox[Mine(c)] \in Seq(Replies)
      /\ Head(inbox[Mine(c)]) \in Replies /\ Head(inbox[Mine(c)]).handle \in Known
      /\ 1 \in DOMAIN inbox[Mine(c)] /\ Head(inbox[Mine(c)]) = inbox[Mine(c)][1]
  <2>1. Mine(c) \in Queues /\ inbox[Mine(c)] \in Seq(Replies)
    BY <1>0, <1>1, MineIsQueue DEF TypeOK
  <2>2. Head(inbox[Mine(c)]) \in Replies
    BY <1>2, <2>1, HeadTailProperties
  <2>3. 1 \in DOMAIN inbox[Mine(c)] /\ Head(inbox[Mine(c)]) = inbox[Mine(c)][1]
    BY <1>2, <2>1
  <2>. QED
    BY <2>1, <2>2, <2>3 DEF Replies
<1>4. /\ pc' = [pc EXCEPT ![c] = pc'[c]] /\ op' = [op EXCEPT ![c] = op'[c]]
      /\ handle' = [handle EXCEPT ![c] = handle'[c]] /\ handle'[c] \in Known
      /\ \/ /\ Waiting(c, "create") /\ pc'[c] = "on" /\ op'[c] = "none"
            /\ FirstIs(c, "create") /\ handle'[c] = Head(inbox[Mine(c)]).handle
         \/ /\ pc'[c] = pc[c] /\ op'[c] = op[c] /\ handle'[c] \in {handle[c], NoHandle}
         \/ /\ Waiting(c, "request") /\ pc'[c] = "on" /\ op'[c] = "none"
            /\ handle'[c] \in {handle[c], NoHandle}
         \/ /\ Waiting(c, "delete") /\ pc'[c] = "off" /\ op'[c] = "none"
            /\ handle'[c] = NoHandle
  <2>1. /\ pc \in [Clients -> {"off", "send", "sleep", "wait", "on", "dead"}]
        /\ op \in [Clients -> Types \cup {"none"}] /\ handle \in [Clients -> Known]
    BY <1>0 DEF TypeOK
  <2>2. CASE ConnectReply(c)
    BY <1>3, <2>1, <2>2 DEF ConnectReply, Return
  <2>3. CASE Receive(c)
    <3>1. handle' = [handle EXCEPT ![c] = HandleAfterRead(c)]
          /\ HandleAfterRead(c) \in {handle[c], NoHandle}
      BY <2>3 DEF Receive, HandleAfterRead
    <3>2. /\ handle'[c] \in {handle[c], NoHandle} /\ handle'[c] \in Known
          /\ handle' = [handle EXCEPT ![c] = handle'[c]]
      BY <1>0, <2>1, <3>1
    <3>. QED
      BY <2>1, <2>3, <3>2 DEF Receive, Return
  <2>4. CASE DisconnectReply(c)
    <3>1. handle' = [handle EXCEPT ![c] = HandleAfterRead(c)]
          /\ HandleAfterRead(c) \in {handle[c], NoHandle}
          /\ (FirstIs(c, "delete") => HandleAfterRead(c) = NoHandle)
      BY <2>4 DEF DisconnectReply, HandleAfterRead
    <3>2. /\ handle'[c] \in {handle[c], NoHandle} /\ handle'[c] \in Known
          /\ handle' = [handle EXCEPT ![c] = handle'[c]]
          /\ (FirstIs(c, "delete") => handle'[c] = NoHandle)
      BY <1>0, <2>1, <3>1
    <3>. QED
      BY <2>1, <2>4, <3>2 DEF DisconnectReply, Return
  <2>. QED
    BY <2>2, <2>3, <2>4 DEF Receives
<1>5. /\ TypeOK' /\ \A d \in Clients \ {c} : SamePhase(d)
  <2>1. /\ pc'[c] \in {"off", "send", "sleep", "wait", "on", "dead"}
        /\ op'[c] \in Types \cup {"none"} /\ lost' \subseteq Mutexes
        /\ lost_queues' \subseteq Queues
    BY <1>0, <1>1, <1>2, <1>4 DEF TypeOK
  <2>. QED
    BY <1>0, <1>2, <1>4, <2>1, QuietTypes
<1>6. /\ ~Waiting(c, "delete") => Honoured(handle[c], Mine(c))
      /\ Waiting(c, "create") /\ FirstIs(c, "create") =>
           Honoured(Head(inbox[Mine(c)]).handle, Mine(c))
  <2>1. ~Waiting(c, "delete") => Honoured(handle[c], Mine(c))
    BY <1>1 DEF IInv, ClientsHonoured
  <2>2. Waiting(c, "create") /\ FirstIs(c, "create") =>
           Honoured(inbox[Mine(c)][1].handle, Mine(c))
    BY <1>3 DEF IInv, RepliesHonoured, FirstIs
  <2>. QED
    BY <1>3, <2>1, <2>2
<1>7. /\ pc[c] = "on" <=> op[c] = "none"
      /\ op[c] = "create" => handle[c] = NoHandle
  BY <1>0, <1>1 DEF ClientPhase
<1>8. Quiet(c)
  <2>1. CASE Waiting(c, "create") /\ pc'[c] = "on" /\ op'[c] = "none"
             /\ FirstIs(c, "create") /\ handle'[c] = Head(inbox[Mine(c)]).handle
    BY <1>1, <1>2, <1>5, <1>6, <2>1 DEF Quiet, Waiting
  <2>2. CASE pc'[c] = pc[c] /\ op'[c] = op[c] /\ handle'[c] \in {handle[c], NoHandle}
    BY <1>1, <1>2, <1>5, <1>6, <2>2 DEF Quiet, Waiting
  <2>3. CASE Waiting(c, "request") /\ pc'[c] = "on" /\ op'[c] = "none"
             /\ handle'[c] \in {handle[c], NoHandle}
    BY <1>1, <1>2, <1>5, <1>6, <2>3 DEF Quiet, Waiting
  <2>4. CASE Waiting(c, "delete") /\ pc'[c] = "off" /\ op'[c] = "none"
             /\ handle'[c] = NoHandle
    BY <1>1, <1>2, <1>5, <2>4 DEF Quiet, Waiting
  <2>. QED
    BY <1>4, <2>1, <2>2, <2>3, <2>4
<1>. QED
  BY <1>1, <1>4, <1>5, <1>7, <1>8, QuietIInv DEF Waiting

\* A client that is connected calls.
LEMMA CallIInv ==
  ASSUME IInv, NEW c \in Clients, Request(c) \/ Disconnect(c)
  PROVE  IInv'
<1>. USE DEF Call, shared, mutexes, vpp, Waiting
<1>0. TypeOK /\ ClientPhase
  BY DEF IInv
<1>1. /\ pc[c] = "on" /\ UNCHANGED <<shared, vpp, conn, handle>>
      /\ pc' = [pc EXCEPT ![c] = "send"]
      /\ op' = [op EXCEPT ![c] = "request"] \/ op' = [op EXCEPT ![c] = "delete"]
  BY DEF Request, Disconnect
<1>2. /\ pc'[c] = "send" /\ pc' = [pc EXCEPT ![c] = pc'[c]]
      /\ op'[c] \in {"request", "delete"} /\ op' = [op EXCEPT ![c] = op'[c]]
      /\ handle'[c] = handle[c] /\ handle[c] \in Known
      /\ handle' = [handle EXCEPT ![c] = handle'[c]]
      /\ lost' \subseteq Mutexes /\ lost_queues' \subseteq Queues
  BY <1>0, <1>1 DEF TypeOK
<1>3. TypeOK' /\ \A d \in Clients \ {c} : SamePhase(d)
  BY <1>0, <1>1, <1>2, QuietTypes DEF Reads, Types
<1>4. Honoured(handle[c], Mine(c)) /\ op[c] = "none"
  BY <1>1 DEF IInv, ClientsHonoured, ClientPhase
<1>5. Quiet(c)
  BY <1>1, <1>2, <1>3, <1>4 DEF Quiet, Reads
<1>. QED
  BY <1>2, <1>3, <1>5, QuietIInv

\* The handle of nobody asks for nothing.
LEMMA NobodyHonoured ==
  ASSUME TypeOK, NEW q
  PROVE  Honoured(NoHandle, q)
<1>1. restarts # -1
  BY DEF TypeOK
<1>. QED
  BY <1>1 DEF Honoured, NoHandle, Handle

\* A registered queue is the queue of a connection that was asked for.
LEMMA RegisteredCreated ==
  ASSUME TypeOK, QueuesCreated, NEW i \in DOMAIN vl_clients, vl_clients[i] # None
  PROVE  vl_clients[i] \in Queues /\ Created(vl_clients[i])
<1>1. vl_clients[i] \in Queues
  BY ElementOfSeq, LenProperties DEF TypeOK
<1>. QED
  BY <1>1 DEF QueuesCreated, Unregistered

\* A connection begins, with a queue nobody has heard of.
LEMMA ConnectIInv ==
  ASSUME IInv, NEW c \in Clients, Connect(c)
  PROVE  IInv'
<1>0. /\ TypeOK /\ ClientPhase /\ QueuesCreated /\ NoHandle \in Known /\ conn[c] \in Nat
      /\ MaxConnects[c] \in Nat
  BY SizesAssumption DEF IInv, Known, TypeOK
<1>1. /\ pc[c] = "off" /\ conn[c] < MaxConnects[c]
      /\ pc' = [pc EXCEPT ![c] = "send"] /\ op' = [op EXCEPT ![c] = "create"]
      /\ conn' = [conn EXCEPT ![c] = conn[c] + 1]
      /\ handle' = [handle EXCEPT ![c] = NoHandle]
      /\ queue' = queue /\ lost' = lost /\ lost_queues' = lost_queues
      /\ inbox' = inbox /\ restarts' = restarts
      /\ UNCHANGED <<restarts, vpp>> /\ vpp_pc' = vpp_pc /\ msg' = msg /\ out' = out
      /\ vl_clients' = vl_clients /\ reaped' = reaped /\ free_indices' = free_indices
  BY DEF Connect, Call, shared, mutexes, vpp
<1>2. /\ pc'[c] = "send" /\ op'[c] = "create" /\ conn'[c] = conn[c] + 1
      /\ handle'[c] = NoHandle /\ \A d \in Clients \ {c} : SamePhase(d)
  BY <1>0, <1>1 DEF TypeOK, SamePhase
<1>3. TypeOK'
  <2>1. /\ pc' \in [Clients -> {"off", "send", "sleep", "wait", "on", "dead"}]
        /\ op' \in [Clients -> Types \cup {"none"}]
        /\ conn' \in [Clients -> Nat] /\ handle' \in [Clients -> Known]
    BY <1>0, <1>1 DEF TypeOK, Types
  <2>. QED
    BY <1>0, <1>1, <2>1, SameTypes DEF TypeOK
<1>4. ClientPhase'
  BY <1>0, <1>1, <1>2, PhaseKept
<1>5. /\ PoolExact' /\ ReplyMatches'
      /\ \A q \in Queues : Unregistered(q)' <=> Unregistered(q)
      /\ \A h, q : Honoured(h, q)' <=> Honoured(h, q)
  BY <1>1, PoolSame DEF IInv
<1>a. PICK new \in Queues : new = <<c, conn[c] + 1>>
  <2>1. conn[c] + 1 \in Nat /\ conn[c] + 1 > 0 /\ conn[c] + 1 <= MaxConnects[c]
    BY <1>0, <1>1
  <2>2. <<c, conn[c] + 1>> \in Queues
    BY <2>1, QueueFacts
  <2>. QED
    BY <2>2
<1>6. /\ ~Created(new) /\ Owner(new) = c /\ Mine(c)' = new
  <2>1. Owner(new) = c /\ new[2] = conn[c] + 1 /\ Mine(c)' = new
    BY <1>2, <1>a DEF Owner, Mine
  <2>2. ~(conn[c] + 1 <= conn[c])
    BY <1>0
  <2>. QED
    BY <2>1, <2>2 DEF Created
<1>7. ASSUME NEW q \in Queues, q # new
      PROVE  /\ Created(q)' <=> Created(q)
             /\ \A type \in Types : Awaits(q, type) => Awaits(q, type)'
  <2>1. Owner(q) \in Clients /\ q[2] \in Nat /\ q = <<Owner(q), q[2]>>
    <3>1. Owner(q) \in Clients /\ q[2] \in 1..MaxConnects[Owner(q)] /\ q = <<Owner(q), q[2]>>
      BY QueueFacts
    <3>. QED
      BY <3>1, SizesAssumption
  <2>2. CASE Owner(q) = c
    <3>1. q[2] # conn[c] + 1
      BY <1>7, <1>a, <2>1, <2>2
    <3>2. Created(q)' <=> Created(q)
      BY <1>0, <1>2, <2>1, <2>2, <3>1 DEF Created
    <3>3. Mine(Owner(q))' # q
      BY <1>6, <1>7, <2>2
    <3>. QED
      BY <3>2, <3>3 DEF Awaits
  <2>3. CASE Owner(q) # c
    <3>1. SamePhase(Owner(q))
      BY <1>2, <2>1, <2>3
    <3>. QED
      BY <3>1, QueueSame
  <2>. QED
    BY <2>2, <2>3
<1>8. /\ \A i \in DOMAIN queue : queue[i].from \in Queues \ {new}
      /\ vpp_pc \in {"reply", "self"} => msg.from \in Queues \ {new}
      /\ inbox[new] = <<>> /\ Unregistered(new)
  BY <1>0, <1>6, MessageFacts DEF QueuesCreated
<1>9. QueuesCreated'
  BY <1>0, <1>1, <1>5, <1>7, <1>8 DEF QueuesCreated
<1>10. MessagesHonoured'
  BY <1>1, <1>5 DEF IInv, MessagesHonoured
<1>11. ClientsHonoured'
  <2>1. ASSUME NEW d \in Clients, pc'[d] \notin {"off", "dead"}, ~Waiting(d, "delete")',
               NEW q, q = Mine(d)'
        PROVE  Honoured(handle'[d], q)
    <3>1. CASE d = c
      BY <1>0, <1>2, <3>1, NobodyHonoured
    <3>2. CASE d # c
      BY <1>2, <2>1, <3>2, ClientSame DEF SamePhase, IInv, ClientsHonoured, Types
    <3>. QED
      BY <3>1, <3>2
  <2>. QED
    BY <1>5, <2>1 DEF ClientsHonoured
<1>12. RepliesHonoured'
  <2>1. ASSUME NEW d \in Clients, Waiting(d, "create")'
        PROVE  Waiting(d, "create") /\ Mine(d)' = Mine(d)
    <3>1. d # c
      BY <1>2, <2>1 DEF Waiting
    <3>. QED
      BY <1>2, <2>1, <3>1, ClientSame DEF Types
  <2>. QED
    BY <1>1, <1>5, <2>1 DEF IInv, RepliesHonoured
<1>13. DeletesLast'
  BY <1>1, <1>7, <1>8 DEF IInv, DeletesLast, Types
<1>14. msg.from # new
  BY <1>0, <1>6, <1>8, QueueFacts DEF TypeOK, NoMsg, Message
<1>15. \A q \in Queues : Fresh(q)' <=> Fresh(q)
  BY <1>1, <1>5 DEF Fresh
<1>16. CreatesFirst'
  <2>1. ASSUME NEW i \in DOMAIN queue, queue[i].type = "create",
               NEW q \in Queues \ {new}, q = queue[i].from
        PROVE  Fresh(q)' /\ Awaits(q, "create")'
               /\ \A j \in DOMAIN queue : queue[j].from = q => j = i
    <3>1. Fresh(q) /\ Awaits(q, "create") /\ \A j \in DOMAIN queue : queue[j].from = q => j = i
      BY <2>1 DEF IInv, CreatesFirst
    <3>. QED
      BY <1>7, <1>15, <3>1 DEF Types
  <2>2. ASSUME vpp_pc = "reply", msg.type = "create", NEW q \in Queues \ {new}, q = msg.from
        PROVE  inbox[q] = <<>> /\ Awaits(q, "create")'
               /\ \A j \in DOMAIN queue : queue[j].from # q
    <3>1. inbox[q] = <<>> /\ Awaits(q, "create") /\ \A j \in DOMAIN queue : queue[j].from # q
      BY <2>2 DEF IInv, CreatesFirst
    <3>. QED
      BY <1>7, <3>1 DEF Types
  <2>3. ASSUME NEW d \in Clients \ {c}, op'[d] = "create", pc'[d] # "wait",
               NEW q, q = Mine(d)
        PROVE  Fresh(q)' /\ \A j \in DOMAIN queue : queue[j].from # q
    <3>1. op[d] = "create" /\ pc[d] # "wait"
      BY <1>2, <2>3, ClientSame DEF SamePhase
    <3>2. q \in Queues
      BY <1>0, <2>3, <3>1, MineIsQueue DEF ClientPhase
    <3>3. Fresh(q) /\ \A j \in DOMAIN queue : queue[j].from # q
      BY <2>3, <3>1 DEF IInv, CreatesFirst
    <3>. QED
      BY <1>15, <3>2, <3>3
  <2>4. Fresh(new)' /\ \A j \in DOMAIN queue : queue[j].from # new
    BY <1>8, <1>14, <1>15 DEF Fresh
  <2>5. \A d \in Clients \ {c} : Mine(d)' = Mine(d)
    BY <1>2, ClientSame
  <2>. QED
    BY <1>1, <1>6, <1>8, <2>1, <2>2, <2>3, <2>4, <2>5 DEF CreatesFirst
<1>. QED
  BY <1>3, <1>4, <1>5, <1>9, <1>10, <1>11, <1>12, <1>13, <1>16 DEF IInv

-----------------------------------------------------------------------------
(***************************************************************************)
(* A client's message goes into the main input queue                       *)
(***************************************************************************)

\* A client adds its message.
LEMMA SendAddsIInv ==
  ASSUME IInv, NEW c \in Clients, SendAdds(c)
  PROVE  IInv'
<1>0. /\ TypeOK /\ ClientPhase /\ QueuesCreated /\ ClientsHonoured /\ CreatesFirst
      /\ DeletesLast
  BY DEF IInv
<1>1. /\ pc[c] = "send" /\ UNCHANGED <<restarts, vpp>>
      /\ queue' = Append(queue, Message(op[c], Mine(c), handle[c]))
      /\ lost' = lost /\ lost_queues' = lost_queues /\ restarts' = restarts
      /\ inbox' = inbox /\ op' = op
      /\ conn' = conn /\ handle' = handle /\ vpp_pc' = vpp_pc /\ msg' = msg
      /\ out' = out /\ vl_clients' = vl_clients /\ free_indices' = free_indices
      /\ reaped' = reaped
  BY DEF SendAdds, mutexes, vpp
<1>2. /\ pc' \in [Clients -> {"off", "send", "sleep", "wait", "on", "dead"}]
      /\ pc'[c] = "wait" /\ \A d \in Clients \ {c} : SamePhase(d)
  <2>1. /\ Woken(pc) \in [Clients -> {"off", "send", "sleep", "wait", "on", "dead"}]
        /\ \A d \in Clients : \/ Woken(pc)[d] = pc[d]
                              \/ pc[d] = "sleep" /\ Woken(pc)[d] = "send"
    BY <1>0 DEF TypeOK, Woken
  <2>2. PICK p \in {pc, Woken(pc)} : pc' = [p EXCEPT ![c] = "wait"]
    BY DEF SendAdds
  <2>3. /\ p \in [Clients -> {"off", "send", "sleep", "wait", "on", "dead"}]
        /\ \A d \in Clients : p[d] = pc[d] \/ (pc[d] = "sleep" /\ p[d] = "send")
    BY <1>0, <2>1 DEF TypeOK
  <2>4. \A d \in Clients \ {c} : pc'[d] = p[d]
    BY <2>2, <2>3
  <2>. QED
    BY <1>1, <2>2, <2>3, <2>4 DEF SamePhase
<1>3. /\ op[c] \in Types /\ conn[c] > 0 /\ handle[c] \in Known
      /\ Honoured(handle[c], Mine(c))
  <2>1. op[c] # "none" /\ conn[c] > 0
    BY <1>0, <1>1 DEF ClientPhase
  <2>2. Honoured(handle[c], Mine(c))
    BY <1>0, <1>1 DEF ClientsHonoured, Waiting
  <2>. QED
    BY <1>0, <2>1, <2>2 DEF TypeOK
<1>4. PICK own \in Queues : own = Mine(c)
  BY <1>0, <1>1, MineIsQueue
<1>5. PICK m \in Requests : /\ m = Message(op[c], Mine(c), handle[c])
                            /\ m.type = op[c] /\ m.from = own /\ m.handle = handle[c]
  <2>1. [type |-> op[c], from |-> own, handle |-> handle[c]] \in Requests
    BY <1>3 DEF Requests
  <2>. QED
    BY <1>4, <2>1 DEF Message
<1>6. TypeOK'
  <2>1. queue' \in Seq(Requests)
    BY <1>0, <1>1, <1>5, AppendProperties DEF TypeOK
  <2>. QED
    BY <1>0, <1>1, <1>2, <2>1, SameTypes DEF TypeOK
<1>7. ClientPhase'
  BY <1>0, <1>1, <1>2, <1>3, PhaseKept DEF ClientPhase, Types
<1>8. /\ PoolExact' /\ ReplyMatches'
      /\ \A q \in Queues : Unregistered(q)' <=> Unregistered(q)
      /\ \A h, q : Honoured(h, q)' <=> Honoured(h, q)
  BY <1>1, PoolSame DEF IInv
<1>9. /\ \A d \in Clients : Mine(d)' = Mine(d)
      /\ \A q \in Queues : Created(q)' <=> Created(q)
      /\ Owner(own) = c
  BY <1>1, <1>4, QueueFacts DEF Mine, Created, Owner
<1>10. ASSUME NEW q \in Queues
       PROVE  /\ q # own => \A type \in Types : Awaits(q, type) => Awaits(q, type)'
              /\ q = own => /\ \A type \in Types : ~Awaits(q, type)
                            /\ \A type \in Types : type = op[c] => Awaits(q, type)'
  <2>1. CASE Owner(q) # c
    BY <1>2, <1>9, <2>1, QueueFacts, QueueSame
  <2>2. CASE Owner(q) = c /\ q # own
    <3>1. Mine(Owner(q)) # q /\ Mine(Owner(q))' # q
      BY <1>4, <1>9, <2>2
    <3>. QED
      BY <2>2, <3>1 DEF Awaits
  <2>3. CASE q = own
    <3>1. Owner(q) = c /\ Mine(c) = q /\ Mine(c)' = q
      BY <1>4, <1>9, <2>3
    <3>3. /\ \A type \in Types : type = op[c] => Awaits(q, type)'
          /\ \A type \in Types : ~Awaits(q, type)
      BY <1>1, <1>2, <3>1 DEF Awaits, Waiting
    <3>. QED
      BY <2>3, <3>3
  <2>. QED
    BY <2>1, <2>2, <2>3
<1>12. PICK n \in Nat : /\ DOMAIN queue = 1..n /\ DOMAIN queue' = 1..(n + 1)
                        /\ queue'[n + 1] = m /\ \A i \in 1..n : queue'[i] = queue[i]
  <2>1. /\ Len(queue) \in Nat /\ DOMAIN queue = 1..Len(queue)
        /\ DOMAIN queue' = 1..(Len(queue) + 1) /\ queue'[Len(queue) + 1] = m
        /\ \A i \in 1..Len(queue) : queue'[i] = queue[i]
    BY <1>0, <1>1, <1>5 DEF TypeOK
  <2>. QED
    BY <2>1
<1>13. /\ \A i \in 1..n : queue[i].from \in Queues
       /\ \A i \in 1..(n + 1) : i = n + 1 \/ i \in 1..n
       /\ vpp_pc \in {"reply", "self"} => msg.from \in Queues
  BY <1>0, <1>12, MessageFacts
<1>14. QueuesCreated'
  <2>1. Created(own)
    BY <1>0, <1>4, <1>9 DEF Created, Mine, TypeOK
  <2>2. ASSUME NEW i \in 1..(n + 1), NEW q, q = queue'[i].from PROVE Created(q)'
    <3>1. q \in Queues /\ Created(q)
      BY <1>0, <1>5, <1>12, <1>13, <2>1, <2>2 DEF QueuesCreated
    <3>. QED
      BY <1>9, <3>1
  <2>3. ASSUME vpp_pc \in {"reply", "self"}, NEW q, q = msg.from PROVE Created(q)'
    BY <1>0, <1>9, <1>13, <2>3 DEF QueuesCreated
  <2>4. \A q \in Queues : ~Created(q)' => inbox[q] = <<>> /\ Unregistered(q)'
    BY <1>0, <1>8, <1>9 DEF QueuesCreated
  <2>. QED
    BY <1>1, <1>12, <2>2, <2>3, <2>4 DEF QueuesCreated
<1>15. MessagesHonoured'
  BY <1>3, <1>4, <1>5, <1>8, <1>12, <1>13 DEF IInv, MessagesHonoured
<1>16. ClientsHonoured'
  <2>1. ASSUME NEW d \in Clients, pc'[d] \notin {"off", "dead"}, ~Waiting(d, "delete")'
        PROVE  Honoured(handle[d], Mine(d))
    <3>1. CASE d = c
      BY <1>3, <3>1
    <3>2. CASE d # c
      BY <1>0, <1>2, <2>1, <3>2, ClientSame DEF ClientsHonoured, Types
    <3>. QED
      BY <3>1, <3>2
  <2>. QED
    BY <1>1, <1>8, <1>9, <2>1 DEF ClientsHonoured
<1>17. op[c] = "create" => Fresh(own) /\ \A j \in 1..n : queue[j].from # own
  BY <1>0, <1>1, <1>4, <1>12 DEF CreatesFirst
<1>18. RepliesHonoured'
  <2>1. ASSUME NEW d \in Clients, Waiting(d, "create")', NEW k \in DOMAIN inbox[Mine(d)],
               inbox[Mine(d)][k].type = "create"
        PROVE  Honoured(inbox[Mine(d)][k].handle, Mine(d))
    <3>1. CASE d = c
      <4>1. op[c] = "create"
        BY <1>1, <2>1, <3>1 DEF Waiting
      <4>. QED
        BY <1>4, <1>17, <2>1, <3>1, <4>1 DEF Fresh
    <3>2. CASE d # c
      BY <1>2, <2>1, <3>2, ClientSame DEF IInv, RepliesHonoured, Types
    <3>. QED
      BY <3>1, <3>2
  <2>. QED
    BY <1>1, <1>8, <1>9, <2>1 DEF RepliesHonoured
<1>19. DeletesLast'
  <2>1. ASSUME NEW i \in 1..n, queue[i].type = "delete", NEW q \in Queues, q = queue[i].from
        PROVE  Awaits(q, "delete")' /\ q # own /\ \A j \in 1..n : j > i => ~Sender(queue[j], q)
    BY <1>0, <1>10, <1>12, <2>1 DEF DeletesLast, Types
  <2>2. ASSUME vpp_pc = "reply", msg.type = "delete", NEW q \in Queues, q = msg.from
        PROVE  Awaits(q, "delete")' /\ q # own /\ \A j \in 1..n : ~Sender(queue[j], q)
    BY <1>0, <1>10, <1>12, <2>2 DEF DeletesLast, Types
  <2>3. \A q : q # own => ~Sender(m, q)
    BY <1>5 DEF Sender
  <2>4. ASSUME NEW i \in 1..(n + 1), queue'[i].type = "delete",
               NEW q, q = queue'[i].from
        PROVE  Awaits(q, "delete")' /\ \A j \in 1..(n + 1) : j > i => ~Sender(queue'[j], q)
    <3>1. CASE i \in 1..n
      <4>1. queue'[i] = queue[i] /\ q \in Queues
        BY <1>12, <1>13, <2>4, <3>1
      <4>2. Awaits(q, "delete")' /\ q # own /\ \A j \in 1..n : j > i => ~Sender(queue[j], q)
        BY <2>1, <2>4, <3>1, <4>1
      <4>3. ASSUME NEW j \in 1..(n + 1), j > i PROVE ~Sender(queue'[j], q)
        BY <1>12, <1>13, <2>3, <4>2, <4>3
      <4>. QED
        BY <4>2, <4>3
    <3>2. CASE i = n + 1
      <4>1. q = own /\ op[c] = "delete"
        BY <1>5, <1>12, <2>4, <3>2
      <4>2. \A j \in 1..(n + 1) : ~(j > i)
        BY <3>2
      <4>. QED
        BY <1>10, <4>1, <4>2 DEF Types
    <3>. QED
      BY <1>13, <3>1, <3>2
  <2>5. vpp_pc = "reply" /\ msg.type = "delete" =>
          Awaits(msg.from, "delete")' /\ \A j \in 1..(n + 1) : ~Sender(queue'[j], msg.from)
    <3>. SUFFICES ASSUME vpp_pc = "reply", msg.type = "delete", NEW q \in Queues, q = msg.from
                  PROVE  Awaits(q, "delete")' /\ \A j \in 1..(n + 1) : ~Sender(queue'[j], q)
      BY <1>1, <1>13
    <3>1. Awaits(q, "delete")' /\ q # own /\ \A j \in 1..n : ~Sender(queue[j], q)
      BY <2>2
    <3>2. ASSUME NEW j \in 1..(n + 1) PROVE ~Sender(queue'[j], q)
      BY <1>12, <1>13, <2>3, <3>1
    <3>. QED
      BY <3>1, <3>2
  <2>. QED
    BY <1>1, <1>12, <2>4, <2>5 DEF DeletesLast
<1>20. \A q \in Queues : Fresh(q)' <=> Fresh(q)
  BY <1>1, <1>8 DEF Fresh
<1>21. CreatesFirst'
  <2>1. ASSUME NEW i \in 1..(n + 1), queue'[i].type = "create",
               NEW q, q = queue'[i].from
        PROVE  Fresh(q)' /\ Awaits(q, "create")'
               /\ \A j \in 1..(n + 1) : queue'[j].from = q => j = i
    <3>1. CASE i \in 1..n
      <4>1. /\ q \in Queues /\ Fresh(q) /\ Awaits(q, "create")
            /\ \A j \in 1..n : queue[j].from = q => j = i
        BY <1>0, <1>12, <1>13, <2>1, <3>1 DEF CreatesFirst
      <4>2. q # own
        BY <1>10, <4>1 DEF Types
      <4>3. \A j \in 1..(n + 1) : queue'[j].from = q => j = i
        BY <1>5, <1>12, <1>13, <4>1, <4>2
      <4>. QED
        BY <1>10, <1>20, <4>1, <4>2, <4>3 DEF Types
    <3>2. CASE i = n + 1
      <4>1. q = own /\ op[c] = "create"
        BY <1>5, <1>12, <2>1, <3>2
      <4>2. \A j \in 1..(n + 1) : queue'[j].from = q => j = i
        BY <1>12, <1>13, <1>17, <3>2, <4>1
      <4>. QED
        BY <1>10, <1>17, <1>20, <4>1, <4>2 DEF Types
    <3>. QED
      BY <1>13, <3>1, <3>2
  <2>2. ASSUME NEW d \in Clients, op[d] = "create", pc'[d] # "wait", NEW q, q = Mine(d)
        PROVE  Fresh(q)' /\ \A j \in 1..(n + 1) : queue'[j].from # q
    <3>1. d # c /\ pc[d] # "wait"
      BY <1>2, <2>2, ClientSame
    <3>2. pc[d] \notin {"off", "dead"}
      BY <1>0, <2>2 DEF ClientPhase
    <3>3. q \in Queues /\ Owner(q) = d /\ Fresh(q) /\ \A j \in 1..n : queue[j].from # q
      BY <1>0, <1>12, <2>2, <3>1, <3>2, MineIsQueue DEF CreatesFirst
    <3>4. q # own
      BY <1>9, <3>1, <3>3
    <3>. QED
      BY <1>5, <1>12, <1>13, <1>20, <3>3, <3>4
  <2>3. ASSUME vpp_pc = "reply", msg.type = "create", NEW q, q = msg.from
        PROVE  inbox[q] = <<>> /\ Awaits(q, "create")'
               /\ \A j \in 1..(n + 1) : queue'[j].from # q
    <3>1. q \in Queues /\ inbox[q] = <<>> /\ Awaits(q, "create")
          /\ \A j \in 1..n : queue[j].from # q
      BY <1>0, <1>12, <1>13, <2>3 DEF CreatesFirst
    <3>2. q # own
      BY <1>10, <3>1 DEF Types
    <3>. QED
      BY <1>5, <1>10, <1>12, <1>13, <3>1, <3>2 DEF Types
  <2>. QED
    BY <1>1, <1>9, <1>12, <2>1, <2>2, <2>3 DEF CreatesFirst
<1>. QED
  BY <1>6, <1>7, <1>8, <1>14, <1>15, <1>16, <1>18, <1>19, <1>21 DEF IInv

-----------------------------------------------------------------------------
(***************************************************************************)
(* Steps of vpp                                                            *)
(***************************************************************************)

\* The clients stay where they are, but for waking up, and the main input queue
\* stays as it is or loses its first message.
VppMoves ==
  /\ \A d \in Clients : SamePhase(d)
  /\ queue' = queue \/ (queue # <<>> /\ queue' = Tail(queue))

\* What is in the queue then was in it before, in the same order.
LEMMA MovesQueue ==
  ASSUME TypeOK, VppMoves
  PROVE  /\ queue' \in Seq(Requests)
         /\ \E s \in {0, 1} : \A i \in DOMAIN queue' :
              i \in Nat /\ i + s \in DOMAIN queue /\ queue'[i] = queue[i + s]
         /\ \A i \in DOMAIN queue' :
              /\ queue'[i].from \in Queues /\ queue'[i].handle \in Known
              /\ \E j \in DOMAIN queue : queue'[i] = queue[j]
<1>1. queue \in Seq(Requests) /\ DOMAIN queue = 1..Len(queue) /\ Len(queue) \in Nat
  BY LenProperties DEF TypeOK
<1>2. PICK s \in {0, 1} : /\ queue' \in Seq(Requests)
                          /\ \A i \in DOMAIN queue' :
                               i \in Nat /\ i + s \in DOMAIN queue /\ queue'[i] = queue[i + s]
  <2>1. CASE queue' = queue
    <3>1. \A i \in DOMAIN queue' :
            i \in Nat /\ i + 0 \in DOMAIN queue /\ queue'[i] = queue[i + 0]
      BY <1>1, <2>1
    <3>. QED
      BY <1>1, <2>1, <3>1
  <2>2. CASE queue # <<>> /\ queue' = Tail(queue)
    <3>1. /\ queue' \in Seq(Requests) /\ DOMAIN queue' = 1..(Len(queue) - 1)
          /\ \A i \in 1..(Len(queue) - 1) : queue'[i] = queue[i + 1]
      BY <1>1, <2>2, EmptySeq, HeadTailProperties, LenProperties
    <3>2. \A i \in DOMAIN queue' :
            i \in Nat /\ i + 1 \in DOMAIN queue /\ queue'[i] = queue[i + 1]
      BY <1>1, <3>1
    <3>. QED
      BY <3>1, <3>2
  <2>. QED
    BY <2>1, <2>2 DEF VppMoves
<1>3. \A i \in DOMAIN queue' : \E j \in DOMAIN queue : queue'[i] = queue[j]
  BY <1>2
<1>. QED
  BY <1>2, <1>3, MessageFacts

\* Nothing has changed for the clients and their queues.
LEMMA MovesClients ==
  ASSUME TypeOK, VppMoves
  PROVE  /\ \A d \in Clients :
              /\ Mine(d)' = Mine(d) /\ handle'[d] = handle[d] /\ op'[d] = op[d]
              /\ pc'[d] \in {"off", "dead"} <=> pc[d] \in {"off", "dead"}
              /\ pc'[d] = "wait" <=> pc[d] = "wait"
              /\ \A type \in Types : Waiting(d, type)' <=> Waiting(d, type)
         /\ \A q \in Queues :
              /\ Created(q)' <=> Created(q)
              /\ \A type \in Types : Awaits(q, type)' <=> Awaits(q, type)
<1>1. \A d \in Clients :
        /\ Mine(d)' = Mine(d) /\ handle'[d] = handle[d] /\ op'[d] = op[d]
        /\ pc'[d] \in {"off", "dead"} <=> pc[d] \in {"off", "dead"}
        /\ pc'[d] = "wait" <=> pc[d] = "wait"
        /\ \A type \in Types : Waiting(d, type)' <=> Waiting(d, type)
  BY ClientSame DEF VppMoves, SamePhase
<1>2. \A q \in Queues : SamePhase(Owner(q))
  BY QueueFacts DEF VppMoves
<1>3. ASSUME NEW q \in Queues
      PROVE  /\ Created(q)' <=> Created(q)
             /\ \A type \in Types : Awaits(q, type)' <=> Awaits(q, type)
  BY <1>2, QueueSame
<1>. QED
  BY <1>1, <1>3

\* What every such step keeps.
LEMMA MovesKeep ==
  ASSUME IInv, TypeOK', VppMoves
  PROVE  /\ ClientPhase'
         /\ \A i \in DOMAIN queue' : queue'[i].from \in Queues
         /\ \A i \in DOMAIN queue', q \in Queues : q = queue'[i].from => Created(q)'
         /\ \A i \in DOMAIN queue', q \in Queues :
              q = queue'[i].from /\ queue'[i].type = "delete" =>
                Awaits(q, "delete")' /\ \A j \in DOMAIN queue' : j > i => ~Sender(queue'[j], q)
<1>0. TypeOK /\ ClientPhase /\ QueuesCreated /\ DeletesLast
  BY DEF IInv
<1>1. ClientPhase'
  BY <1>0, ClientSame DEF ClientPhase, VppMoves, SamePhase
<1>2. PICK s \in {0, 1} : \A i \in DOMAIN queue' :
              i \in Nat /\ i + s \in DOMAIN queue /\ queue'[i] = queue[i + s]
  BY <1>0, MovesQueue
<1>3. ASSUME NEW i \in DOMAIN queue', NEW q, q = queue'[i].from
      PROVE  q \in Queues /\ Created(q)'
  BY <1>0, <1>3, MovesQueue, MovesClients DEF QueuesCreated
<1>4. ASSUME NEW i \in DOMAIN queue', queue'[i].type = "delete", NEW q, q = queue'[i].from
      PROVE  Awaits(q, "delete")' /\ \A j \in DOMAIN queue' : j > i => ~Sender(queue'[j], q)
  <2>1. /\ i \in Nat /\ i + s \in DOMAIN queue /\ queue[i + s].type = "delete"
        /\ queue[i + s].from = q
    BY <1>2, <1>4
  <2>2. Awaits(q, "delete") /\ \A k \in DOMAIN queue : k > i + s => ~Sender(queue[k], q)
    BY <1>0, <2>1 DEF DeletesLast
  <2>3. ASSUME NEW j \in DOMAIN queue', j > i PROVE ~Sender(queue'[j], q)
    <3>1. j \in Nat /\ j + s \in DOMAIN queue /\ queue'[j] = queue[j + s]
      BY <1>2
    <3>2. j + s > i + s
      BY <2>1, <2>3, <3>1
    <3>. QED
      BY <2>2, <3>1, <3>2
  <2>. QED
    BY <1>0, <1>3, <1>4, <2>2, <2>3, MovesClients DEF Types
<1>. QED
  BY <1>1, <1>3, <1>4

\* The messages, the clients and the answers keep what they were promised, but for
\* a connection whose client has sent its last message.
LEMMA MovesHonouredBut ==
  ASSUME IInv, VppMoves, NEW gone,
         \A h \in Known, q \in Queues \ {gone} : Honoured(h, q) => Honoured(h, q)',
         \A i \in DOMAIN queue' : ~Sender(queue'[i], gone),
         \A d \in Clients :
           Mine(d) = gone => pc[d] \in {"off", "dead"} \/ Waiting(d, "delete")
  PROVE  /\ MessagesHonoured' /\ ClientsHonoured'
         /\ \A d \in Clients, q \in Queues :
              Waiting(d, "create") /\ q = Mine(d) =>
                \A k \in DOMAIN inbox[q], h \in Known :
                  inbox[q][k].type = "create" /\ h = inbox[q][k].handle => Honoured(h, q)'
<1>0. TypeOK /\ ClientPhase /\ MessagesHonoured /\ ClientsHonoured /\ RepliesHonoured
  BY DEF IInv
<1>1. MessagesHonoured'
  <2>1. ASSUME NEW i \in DOMAIN queue', queue'[i].type # "answer",
               NEW h, NEW q, h = queue'[i].handle, q = queue'[i].from
        PROVE  Honoured(h, q)'
    <3>1. h \in Known /\ q \in Queues \ {gone} /\ Honoured(h, q)
      BY <1>0, <2>1, MovesQueue DEF MessagesHonoured, Sender
    <3>. QED
      BY <3>1
  <2>. QED
    BY <2>1 DEF MessagesHonoured
<1>2. \A d \in Clients : handle[d] \in Known
  BY <1>0 DEF TypeOK
<1>3. ClientsHonoured'
  <2>1. ASSUME NEW d \in Clients, pc[d] \notin {"off", "dead"}, ~Waiting(d, "delete"),
               NEW h, NEW q, h = handle[d], q = Mine(d)
        PROVE  Honoured(h, q)'
    <3>1. h \in Known /\ q \in Queues \ {gone} /\ Honoured(h, q)
      BY <1>0, <1>2, <2>1, MineIsQueue DEF ClientsHonoured
    <3>. QED
      BY <3>1
  <2>. QED
    BY <1>0, <2>1, MovesClients DEF ClientsHonoured, Types
<1>4. ASSUME NEW d \in Clients, Waiting(d, "create"), NEW q \in Queues, q = Mine(d),
             NEW k \in DOMAIN inbox[q], inbox[q][k].type = "create",
             NEW h \in Known, h = inbox[q][k].handle
      PROVE  Honoured(h, q)'
  <2>1. q # gone
    BY <1>4 DEF Waiting
  <2>2. Honoured(h, q)
    BY <1>0, <1>4 DEF RepliesHonoured
  <2>. QED
    BY <2>1, <2>2
<1>. QED
  BY <1>1, <1>3, <1>4

\* An answer in a client's queue holds a handle that was given out.
LEMMA ReplyHandles ==
  ASSUME TypeOK, NEW q \in Queues, NEW k \in DOMAIN inbox[q]
  PROVE  inbox[q][k].handle \in Known
<1>1. inbox[q][k] \in Replies
  BY ElementOfSeq, LenProperties DEF TypeOK
<1>. QED
  BY <1>1 DEF Replies

\* In most steps there is no exception.
LEMMA MovesHonoured ==
  ASSUME IInv, VppMoves, \A h \in Known, q \in Queues : Honoured(h, q) => Honoured(h, q)'
  PROVE  /\ MessagesHonoured' /\ ClientsHonoured'
         /\ inbox' = inbox => RepliesHonoured'
<1>0. TypeOK /\ ClientPhase
  BY DEF IInv
<1>2. /\ \A i \in DOMAIN queue' : queue'[i].from \in Queues
      /\ \A d \in Clients : pc[d] \notin {"off", "dead"} => Mine(d) \in Queues
  BY <1>0, MovesQueue, MineIsQueue
<1>3. /\ MessagesHonoured' /\ ClientsHonoured'
      /\ \A d \in Clients, q \in Queues :
           Waiting(d, "create") /\ q = Mine(d) =>
             \A k \in DOMAIN inbox[q], h \in Known :
               inbox[q][k].type = "create" /\ h = inbox[q][k].handle => Honoured(h, q)'
  <2>1. PICK none : none = None
    OBVIOUS
  <2>2. none \notin Queues
    BY <2>1, NoneAssumption
  <2>. QED
    BY <1>2, <2>2, MovesHonouredBut DEF Sender
<1>4. ASSUME inbox' = inbox PROVE RepliesHonoured'
  <2>1. ASSUME NEW d \in Clients, Waiting(d, "create"), NEW q, q = Mine(d),
               NEW k \in DOMAIN inbox[q], inbox[q][k].type = "create",
               NEW h, h = inbox[q][k].handle
        PROVE  Honoured(h, q)'
    <3>1. q \in Queues
      BY <1>2, <2>1 DEF Waiting
    <3>2. h \in Known
      BY <1>0, <2>1, <3>1, ReplyHandles
    <3>. QED
      BY <1>3, <2>1, <3>1, <3>2
  <2>. QED
    BY <1>0, <1>4, <2>1, MovesClients DEF RepliesHonoured, Types
<1>. QED
  BY <1>3, <1>4

\* memclnt_create stays the first message of its connection, if the connections vpp
\* has heard nothing of are the same, but for the one whose message it takes.
LEMMA MovesCreates ==
  ASSUME IInv, VppMoves,
         \A q \in Queues :
           /\ Fresh(q)
           /\ queue # <<>> /\ queue' = Tail(queue) => Head(queue).from # q
           => Fresh(q)',
         vpp_pc' = "reply" /\ msg'.type = "create" =>
           /\ inbox'[msg'.from] = <<>> /\ Awaits(msg.from, "create")'
           /\ \A j \in DOMAIN queue' : queue'[j].from # msg'.from
  PROVE  CreatesFirst'
<1>0. TypeOK /\ CreatesFirst /\ ClientPhase
  BY DEF IInv
<1>1. PICK s \in {0, 1} : \A i \in DOMAIN queue' :
              i \in Nat /\ i + s \in DOMAIN queue /\ queue'[i] = queue[i + s]
  BY <1>0, MovesQueue
<1>2. queue # <<>> => 1 \in DOMAIN queue /\ Head(queue) = queue[1]
  BY <1>0, EmptySeq, LenProperties DEF TypeOK
<1>3. queue # <<>> /\ queue' = Tail(queue) =>
        \A i \in DOMAIN queue' :
          i \in Nat /\ i + 1 \in DOMAIN queue /\ queue'[i] = queue[i + 1] /\ i + 1 # 1
  BY <1>0, EmptySeq, HeadTailProperties, LenProperties DEF TypeOK
<1>4. ASSUME NEW i \in DOMAIN queue', queue'[i].type = "create", NEW q, q = queue'[i].from
      PROVE  Fresh(q)' /\ Awaits(q, "create")'
             /\ \A j \in DOMAIN queue' : queue'[j].from = q => j = i
  <2>1. /\ i \in Nat /\ i + s \in DOMAIN queue /\ queue[i + s].type = "create"
        /\ queue[i + s].from = q
    BY <1>1, <1>4
  <2>2. /\ Fresh(q) /\ Awaits(q, "create") /\ q \in Queues
        /\ \A k \in DOMAIN queue : queue[k].from = q => k = i + s
    BY <1>0, <2>1, MessageFacts DEF CreatesFirst
  <2>3. ASSUME NEW j \in DOMAIN queue', queue'[j].from = q PROVE j = i
    <3>1. j \in Nat /\ j + s \in DOMAIN queue /\ queue'[j] = queue[j + s]
      BY <1>1
    <3>2. j + s = i + s
      BY <2>2, <2>3, <3>1
    <3>. QED
      BY <2>1, <3>1, <3>2
  <2>4. ASSUME queue # <<>>, queue' = Tail(queue) PROVE Head(queue).from # q
    <3>1. PICK k \in DOMAIN queue : k # 1 /\ queue[k].from = q
      BY <1>3, <1>4, <2>4
    <3>2. k = i + s
      BY <2>2, <3>1
    <3>. QED
      BY <1>2, <2>2, <2>4, <3>1, <3>2
  <2>5. Fresh(q)'
    BY <2>2, <2>4
  <2>6. Awaits(q, "create")'
    BY <1>0, <2>2, MovesClients DEF Types
  <2>. QED
    BY <2>3, <2>5, <2>6
<1>5. ASSUME NEW d \in Clients, op'[d] = "create", pc'[d] # "wait", NEW q, q = Mine(d)
      PROVE  Fresh(q)' /\ \A j \in DOMAIN queue' : queue'[j].from # q
  <2>1. op[d] = "create" /\ pc[d] # "wait"
    BY <1>0, <1>5, MovesClients
  <2>2. /\ q \in Queues /\ Fresh(q) /\ \A k \in DOMAIN queue : queue[k].from # q
    BY <1>0, <1>5, <2>1, MineIsQueue DEF CreatesFirst, ClientPhase
  <2>3. queue # <<>> => Head(queue).from # q
    BY <1>2, <2>2
  <2>. QED
    BY <1>1, <2>2, <2>3
<1>6. \A d \in Clients : Mine(d)' = Mine(d)
  BY <1>0, MovesClients
<1>. QED
  BY <1>4, <1>5, <1>6 DEF CreatesFirst

\* vpp loses a message, or registrations, and has no answer to send to a client.
LEMMA LosesIInv ==
  ASSUME IInv, TypeOK', VppMoves, PoolExact', inbox' = inbox, vpp_pc' # "reply",
         IF vpp_pc' = "self"
           THEN queue # <<>> /\ queue' = Tail(queue) /\ msg' = Head(queue)
           ELSE msg' \in {msg, NoMsg},
         \A i \in DOMAIN vl_clients' : vl_clients'[i] # None =>
           i \in DOMAIN vl_clients /\ vl_clients[i] = vl_clients'[i],
         \A h \in Known, q \in Queues : Honoured(h, q) => Honoured(h, q)'
  PROVE  IInv'
<1>0. TypeOK /\ QueuesCreated
  BY DEF IInv
<1>1. \A q \in Queues : Unregistered(q) => Unregistered(q)'
  BY QueueFacts DEF Unregistered
<1>2. QueuesCreated'
  <2>1. ASSUME vpp_pc' = "self", NEW q, q = msg'.from PROVE Created(q)'
    <3>1. 1 \in DOMAIN queue /\ Head(queue) = queue[1]
      BY <1>0, <2>1, EmptySeq, LenProperties DEF TypeOK
    <3>2. q \in Queues /\ Created(q)
      BY <1>0, <2>1, <3>1, MessageFacts DEF QueuesCreated
    <3>. QED
      BY <1>0, <3>2, MovesClients
  <2>. QED
    BY <1>0, <1>1, <2>1, MovesKeep, MovesClients DEF QueuesCreated
<1>3. DeletesLast'
  BY MovesKeep DEF DeletesLast
<1>4. CreatesFirst'
  <2>1. ASSUME NEW q \in Queues, Fresh(q),
               queue # <<>> /\ queue' = Tail(queue) => Head(queue).from # q
        PROVE  Fresh(q)'
    <3>1. NoMsg.from # q
      BY QueueFacts DEF NoMsg, Message
    <3>. QED
      BY <1>1, <2>1, <3>1 DEF Fresh
  <2>. QED
    BY <2>1, MovesCreates
<1>5. ReplyMatches'
  BY DEF ReplyMatches
<1>. QED
  BY <1>2, <1>3, <1>4, <1>5, MovesKeep, MovesHonoured DEF IInv

\* The pool of a vpp that is going down, or has not come up yet, is empty.
LEMMA EmptyPool ==
  ASSUME vl_clients' = <<>>, free_indices' = <<>>
  PROVE  PoolExact' /\ DOMAIN vl_clients' = {}
  BY DEF PoolExact, Confused

\* vpp dies.
LEMMA CrashIInv ==
  ASSUME IInv, Crash
  PROVE  IInv'
<1>0. TypeOK
  BY DEF IInv
<1>1. TypeOK'
  <2>1. lost' \subseteq Mutexes /\ lost_queues' \subseteq Queues
    <3>1. lost \subseteq Mutexes /\ lost_queues \subseteq Queues
          /\ (vpp_pc = "reply" => out.to \in Queues)
      BY <1>0 DEF TypeOK
    <3>2. VppMayHold \subseteq Mutexes /\ VppHolds \subseteq Mutexes
      BY DEF VppMayHold, VppHolds, Mutexes
    <3>3. PICK held \in SUBSET VppMayHold : lost' = lost \cup held \cup VppHolds
      BY DEF Crash
    <3>. QED
      BY <3>1, <3>2, <3>3 DEF Crash
  <2>2. free_indices' \in Seq(DOMAIN vl_clients') /\ vl_clients' \in Seq(Queues \cup {None})
    BY DEF Crash
  <2>. QED
    BY <1>0, <2>1, <2>2, SameTypes DEF Crash, TypeOK, clients
<1>2. VppMoves /\ inbox' = inbox /\ vpp_pc' = "down" /\ msg' = NoMsg
  BY DEF Crash, VppMoves, SamePhase, clients
<1>3. PoolExact' /\ DOMAIN vl_clients' = {}
  BY EmptyPool DEF Crash
<1>4. \A h \in Known, q \in Queues : Honoured(h, q)'
  BY <1>2 DEF Honoured
<1>. QED
  BY <1>1, <1>2, <1>3, <1>4, LosesIInv

\* vpp starts on what its predecessor has left: every handle is of an earlier life.
LEMMA RestartIInv ==
  ASSUME IInv, Restart
  PROVE  IInv'
<1>0. TypeOK /\ vl_clients = <<>> /\ free_indices = <<>>
  BY DEF IInv, PoolExact, Up, Restart
<1>1. restarts \in Nat /\ restarts' = restarts + 1 /\ restarts + 1 <= MaxRestarts
  BY <1>0, EpochsAssumption DEF TypeOK, Restart
<1>2. Known \subseteq Known' /\ Requests \subseteq Requests' /\ Replies \subseteq Replies'
  <2>1. 0..restarts \subseteq 0..restarts'
    BY <1>1
  <2>2. Known \subseteq Known'
    BY <2>1 DEF Known
  <2>. QED
    BY <2>2 DEF Requests, Replies
<1>3. /\ vpp_pc = "down" /\ vpp_pc' = "trylock" /\ msg' = msg /\ out' = out
      /\ queue' = queue /\ lost' = lost /\ lost_queues' = lost_queues /\ inbox' = inbox /\ vl_clients' = <<>>
      /\ free_indices' = <<>> /\ reaped' = reaped
      /\ pc' = pc /\ op' = op /\ conn' = conn /\ handle' = handle
  BY <1>0 DEF Restart, mutexes, clients
<1>4. TypeOK'
  <2>1. queue' \in Seq(Requests')
    BY <1>0, <1>2, <1>3 DEF TypeOK
  <2>2. inbox' \in [Queues -> Seq(Replies')]
    <3>1. \A s \in Seq(Replies) : s \in Seq(Replies')
      BY <1>2
    <3>. QED
      BY <1>0, <1>3, <3>1 DEF TypeOK
  <2>3. handle' \in [Clients -> Known'] /\ reaped' \subseteq Known'
    BY <1>0, <1>2, <1>3 DEF TypeOK
  <2>4. vl_clients' \in Seq(Queues \cup {None}) /\ free_indices' \in Seq(DOMAIN vl_clients')
    BY <1>3
  <2>5. restarts' \in 0..MaxRestarts
    BY <1>1, EpochsAssumption
  <2>. QED
    BY <1>0, <1>3, <2>1, <2>2, <2>3, <2>4, <2>5 DEF TypeOK
<1>5. VppMoves
  BY <1>3 DEF VppMoves, SamePhase
<1>6. PoolExact' /\ DOMAIN vl_clients' = {}
  BY <1>3, EmptyPool
<1>7. \A h \in Known, q \in Queues : Honoured(h, q)'
  <2>1. \A h \in Known : h.life # restarts'
    BY <1>1 DEF Known, NoHandle, Handle
  <2>. QED
    BY <2>1 DEF Honoured
<1>. QED
  BY <1>3, <1>4, <1>5, <1>6, <1>7, LosesIInv

\* vpp tests the mutex, finds the queue empty, and cleans the root region.
LEMMA ComesUpIInv ==
  ASSUME IInv, MutexOk \/ MutexForced \/ DrainEnds \/ RootCleaned
  PROVE  IInv'
<1>0. TypeOK /\ PoolExact
  BY DEF IInv
<1>1. /\ vpp_pc \in {"trylock", "drain", "root"} /\ vpp_pc' \in {"drain", "root", "loop"}
      /\ lost' \subseteq lost /\ lost_queues' = lost_queues /\ msg' = msg /\ out' = out
      /\ queue' = queue /\ inbox' = inbox /\ restarts' = restarts
      /\ vl_clients' = vl_clients /\ free_indices' = free_indices /\ reaped' = reaped
      /\ pc' = pc /\ op' = op /\ conn' = conn /\ handle' = handle
  BY DEF MutexOk, MutexForced, DrainEnds, RootCleaned, shared, mutexes, clients
<1>2. TypeOK'
  BY <1>0, <1>1, SameTypes DEF TypeOK
<1>3. VppMoves
  BY <1>1 DEF VppMoves, SamePhase
<1>4. vl_clients = <<>> /\ free_indices = <<>>
  BY <1>0, <1>1 DEF PoolExact, Up
<1>5. PoolExact' /\ DOMAIN vl_clients' = {}
  BY <1>1, <1>4, EmptyPool
<1>6. \A h \in Known, q \in Queues : Honoured(h, q) => Honoured(h, q)'
  BY <1>1 DEF Honoured
<1>. QED
  BY <1>1, <1>2, <1>3, <1>5, <1>6, LosesIInv

\* Who is woken stays in its call.
LEMMA WokenSame ==
  ASSUME TypeOK, pc' \in {pc, Woken(pc)}, UNCHANGED <<op, conn, handle>>
  PROVE  /\ pc' \in [Clients -> {"off", "send", "sleep", "wait", "on", "dead"}]
         /\ \A d \in Clients : SamePhase(d)
  BY DEF TypeOK, Woken, SamePhase

\* vpp frees a message unread.
LEMMA DrainsIInv ==
  ASSUME IInv, Drains
  PROVE  IInv'
<1>0. TypeOK /\ PoolExact
  BY DEF IInv
<1>1. /\ queue # <<>> /\ queue' = Tail(queue) /\ pc' \in {pc, Woken(pc)}
      /\ vpp_pc = "drain" /\ lost' = lost /\ lost_queues' = lost_queues
      /\ restarts' = restarts /\ inbox' = inbox
      /\ UNCHANGED <<restarts, vpp>> /\ vpp_pc' = vpp_pc /\ msg' = msg /\ out' = out
      /\ vl_clients' = vl_clients /\ free_indices' = free_indices /\ reaped' = reaped
      /\ op' = op /\ conn' = conn /\ handle' = handle
  BY DEF Drains, mutexes, vpp
<1>2. VppMoves /\ pc' \in [Clients -> {"off", "send", "sleep", "wait", "on", "dead"}]
  BY <1>0, <1>1, WokenSame DEF VppMoves
<1>3. TypeOK'
  BY <1>0, <1>1, <1>2, SameTypes, MovesQueue DEF TypeOK
<1>4. PoolExact' /\ \A h, q : Honoured(h, q)' <=> Honoured(h, q)
  BY <1>0, <1>1, PoolSame
<1>. QED
  BY <1>1, <1>2, <1>3, <1>4, LosesIInv

\* Elements of the pool are freed, each once, and were in use.
LEMMA PoolPutExact ==
  ASSUME TypeOK, PoolExact, Up, NEW n \in Nat, NEW s \in [1..n -> DOMAIN vl_clients],
         \A k \in 1..n : vl_clients[s[k]] # None,
         \A k, l \in 1..n : s[k] = s[l] => k = l,
         PoolPut(s), Up'
  PROVE  /\ PoolExact'
         /\ vl_clients' \in Seq(Queues \cup {None}) /\ DOMAIN vl_clients' = DOMAIN vl_clients
         /\ free_indices' \in Seq(DOMAIN vl_clients')
         /\ \A i \in DOMAIN vl_clients :
              \/ vl_clients'[i] = vl_clients[i] /\ \A k \in 1..n : s[k] # i
              \/ vl_clients'[i] = None /\ \E k \in 1..n : s[k] = i
<1>1. s \in Seq(DOMAIN vl_clients) /\ Len(s) = n /\ DOMAIN s = 1..n
  BY SeqDef
<1>2. ToSet(s) = {s[k] : k \in 1..n}
  BY <1>1 DEF ToSet
<1>3. /\ DOMAIN vl_clients' = DOMAIN vl_clients
      /\ \A i \in DOMAIN vl_clients :
           vl_clients'[i] = IF i \in ToSet(s) THEN None ELSE vl_clients[i]
  BY DEF PoolPut
<1>4. \A i \in DOMAIN vl_clients :
        \/ vl_clients'[i] = vl_clients[i] /\ \A k \in 1..n : s[k] # i
        \/ vl_clients'[i] = None /\ \E k \in 1..n : s[k] = i
  BY <1>2, <1>3
<1>5. vl_clients' \in Seq(Queues \cup {None})
  <2>1. vl_clients \in Seq(Queues \cup {None}) /\ DOMAIN vl_clients = 1..Len(vl_clients)
        /\ Len(vl_clients) \in Nat
    BY LenProperties DEF TypeOK
  <2>2. \A i \in 1..Len(vl_clients) : vl_clients'[i] \in Queues \cup {None}
    BY <1>3, <2>1, ElementOfSeq
  <2>3. vl_clients' = [i \in 1..Len(vl_clients) |-> vl_clients'[i]]
    BY <2>1 DEF PoolPut
  <2>4. vl_clients' \in [1..Len(vl_clients) -> Queues \cup {None}]
    BY <2>2, <2>3
  <2>. QED
    BY <2>1, <2>4, SeqDef
<1>6. free_indices \in Seq(DOMAIN vl_clients)
  BY DEF TypeOK
<1>7. PICK m \in Nat : /\ DOMAIN free_indices = 1..m /\ DOMAIN free_indices' = 1..(m + n)
                       /\ \A k \in 1..m : free_indices'[k] = free_indices[k]
                       /\ \A k \in 1..n : free_indices'[m + k] = s[k]
                       /\ free_indices' \in Seq(DOMAIN vl_clients)
  <2>1. /\ Len(free_indices) \in Nat /\ DOMAIN free_indices = 1..Len(free_indices)
        /\ DOMAIN (free_indices \o s) = 1..(Len(free_indices) + n)
        /\ \A k \in 1..Len(free_indices) : (free_indices \o s)[k] = free_indices[k]
        /\ \A k \in 1..n : (free_indices \o s)[Len(free_indices) + k] = s[k]
        /\ free_indices \o s \in Seq(DOMAIN vl_clients)
    <3>1. Len(free_indices) \in Nat /\ DOMAIN free_indices = 1..Len(free_indices)
      BY <1>6, LenProperties
    <3>2. /\ free_indices \o s \in Seq(DOMAIN vl_clients)
          /\ Len(free_indices \o s) = Len(free_indices) + n
          /\ \A i \in 1..(Len(free_indices) + n) : (free_indices \o s)[i] =
               IF i <= Len(free_indices) THEN free_indices[i] ELSE s[i - Len(free_indices)]
      <4>. DEFINE S == DOMAIN vl_clients
      <4>1. free_indices \in Seq(S) /\ s \in Seq(S)
        BY <1>1, <1>6
      <4>. HIDE DEF S
      <4>2. /\ free_indices \o s \in Seq(S)
            /\ Len(free_indices \o s) = Len(free_indices) + Len(s)
            /\ \A i \in 1..(Len(free_indices) + Len(s)) : (free_indices \o s)[i] =
                 IF i <= Len(free_indices) THEN free_indices[i] ELSE s[i - Len(free_indices)]
        BY <4>1, ConcatProperties
      <4>. QED
        BY <1>1, <4>2 DEF S
    <3>3. DOMAIN (free_indices \o s) = 1..(Len(free_indices) + n)
      BY <3>2, LenProperties
    <3>4. \A k \in 1..Len(free_indices) : (free_indices \o s)[k] = free_indices[k]
      BY <3>1, <3>2
    <3>5. \A k \in 1..n : (free_indices \o s)[Len(free_indices) + k] = s[k]
      BY <3>1, <3>2
    <3>. QED
      BY <3>1, <3>2, <3>3, <3>4, <3>5
  <2>2. free_indices' = free_indices \o s
    BY DEF PoolPut
  <2>. QED
    BY <2>1, <2>2
<1>8. \A k \in 1..(m + n) : k \in 1..m \/ \E l \in 1..n : k = m + l
  <2>1. ASSUME NEW k \in 1..(m + n), k \notin 1..m PROVE k - m \in 1..n /\ k = m + (k - m)
    BY <2>1
  <2>. QED
    BY <2>1
<1>9. \A k \in 1..m : free_indices[k] \in DOMAIN vl_clients /\ vl_clients[free_indices[k]] = None
  <2>1. DOMAIN free_indices = 1..Len(free_indices)
    BY <1>6, LenProperties
  <2>2. \A k \in 1..m : free_indices[k] \in DOMAIN vl_clients
    BY <1>6, <1>7, <2>1, ElementOfSeq
  <2>. QED
    BY <1>7, <2>2 DEF PoolExact
<1>10. \A k \in 1..(m + n) : vl_clients'[free_indices'[k]] = None
  <2>1. \A k \in 1..m : vl_clients'[free_indices'[k]] = None
    BY <1>4, <1>7, <1>9
  <2>2. \A l \in 1..n : vl_clients'[free_indices'[m + l]] = None
    <3>1. \A l \in 1..n : s[l] \in DOMAIN vl_clients
      OBVIOUS
    <3>2. \A l \in 1..n : vl_clients'[s[l]] = None
      BY <1>4, <3>1
    <3>. QED
      BY <1>7, <3>2
  <2>. QED
    BY ZenonT(60), <1>8, <2>1, <2>2
<1>11. ASSUME NEW k \in 1..(m + n), NEW l \in 1..(m + n), free_indices'[k] = free_indices'[l]
       PROVE  k = l
  <2>1. CASE k \in 1..m /\ l \in 1..m
    BY <1>7, <1>11, <2>1 DEF PoolExact
  <2>2. ASSUME NEW a \in 1..n, NEW b \in 1..n, k = m + a, l = m + b PROVE k = l
    <3>1. s[a] = s[b]
      BY <1>7, <1>11, <2>2
    <3>. QED
      BY <2>2, <3>1
  <2>3. ASSUME NEW a \in 1..m, NEW b \in 1..n PROVE free_indices'[a] # free_indices'[m + b]
    <3>1. vl_clients[free_indices'[a]] = None
      BY <1>7, <1>9
    <3>2. vl_clients[free_indices'[m + b]] # None
      BY <1>7
    <3>. QED
      BY <3>1, <3>2
  <2>. QED
    BY <1>8, <1>11, <2>1, <2>2, <2>3
<1>12. \A i, j \in DOMAIN vl_clients' :
         vl_clients'[i] = vl_clients'[j] /\ vl_clients'[i] # None => i = j
  BY <1>3, <1>4 DEF PoolExact
<1>13. Confused' = {}
  <2>1. ASSUME NEW i \in DOMAIN vl_clients', vl_clients'[i] = None
        PROVE  \E k \in DOMAIN free_indices' : free_indices'[k] = i
    <3>1. CASE vl_clients[i] = None
      <4>1. PICK k \in 1..m : free_indices[k] = i
        BY <1>3, <1>7, <3>1 DEF PoolExact, Confused, ToSet
      <4>2. k \in 1..(m + n)
        OBVIOUS
      <4>. QED
        BY <1>7, <4>1, <4>2
    <3>2. ASSUME NEW k \in 1..n, s[k] = i PROVE \E l \in DOMAIN free_indices' : free_indices'[l] = i
      <4>1. m + k \in 1..(m + n)
        OBVIOUS
      <4>. QED
        BY <1>7, <3>2, <4>1
    <3>. QED
      BY <1>3, <1>4, <2>1, <3>1, <3>2
  <2>. QED
    BY <2>1 DEF Confused, ToSet
<1>. QED
  BY <1>3, <1>4, <1>5, <1>7, <1>10, <1>11, <1>12, <1>13 DEF PoolExact

\* The scan finds no element of the pool that is in use without a registration.
LEMMA NobodyConfused ==
  ASSUME PoolExact, NEW s \in Ascending(Confused)
  PROVE  s = <<>>
<1>1. Confused = {} /\ Cardinality({}) = 0
  BY FS_EmptySet DEF PoolExact
<1>2. s \in [1..0 -> {}]
  BY <1>1 DEF Ascending
<1>. QED
  BY <1>2

\* The registrations of dead clients are removed; whoever held such a handle finds
\* it reaped.
LEMMA ScanIInv ==
  ASSUME IInv, DeadClientScan
  PROVE  IInv'
<1>. DEFINE dead == Dead
<1>0. TypeOK /\ PoolExact
  BY DEF IInv
<1>1. /\ vpp_pc = "loop" /\ vpp_pc' = "loop" /\ msg' = msg /\ out' = out
      /\ queue' = queue /\ lost' = lost /\ lost_queues' = lost_queues /\ inbox' = inbox /\ restarts' = restarts
      /\ reaped' = reaped \cup {Handle(i, restarts) : i \in dead}
      /\ pc' = pc /\ op' = op /\ conn' = conn /\ handle' = handle
      /\ \E e \in Ascending(Confused), s \in Ascending(dead) : PoolPut(e \o s)
  BY DEF DeadClientScan, shared, mutexes, clients
<1>2. /\ DOMAIN vl_clients = 1..Len(vl_clients) /\ Len(vl_clients) \in Nat
      /\ IsFiniteSet(dead)
  <2>1. DOMAIN vl_clients = 1..Len(vl_clients) /\ Len(vl_clients) \in Nat
    BY <1>0, LenProperties DEF TypeOK
  <2>2. 1 \in Int /\ Len(vl_clients) \in Int
    BY <2>1
  <2>3. IsFiniteSet(1..Len(vl_clients))
    BY <2>2, FS_Interval
  <2>. QED
    BY <2>1, <2>3, FS_Subset DEF Dead
<1>3. PICK n \in Nat : n = Cardinality(dead)
  BY <1>2, FS_CardinalityType
<1>4. PICK s \in [1..n -> dead] :
        PoolPut(s) /\ \A i, j \in 1..n : i < j => s[i] < s[j]
  <2>1. PICK e \in Ascending(Confused), s \in Ascending(dead) : PoolPut(e \o s)
    BY <1>1
  <2>2. s \in [1..n -> dead] /\ \A i, j \in 1..n : i < j => s[i] < s[j]
    BY <1>3, <2>1 DEF Ascending
  <2>3. e = <<>> /\ s \in Seq(dead)
    BY <1>0, <2>2, NobodyConfused, SeqDef
  <2>4. e \o s = s
    BY <2>3, ConcatEmptySeq
  <2>. QED
    BY <2>1, <2>2, <2>4
<1>5. \A k \in 1..n : s[k] \in dead /\ s[k] \in Nat /\ s[k] \in DOMAIN vl_clients
                   /\ vl_clients[s[k]] # None
  BY <1>2, <1>4 DEF Dead
<1>6. \A k, l \in 1..n : s[k] = s[l] => k = l
  BY <1>4, <1>5
<1>7. /\ PoolExact' /\ vl_clients' \in Seq(Queues \cup {None})
      /\ DOMAIN vl_clients' = DOMAIN vl_clients
      /\ free_indices' \in Seq(DOMAIN vl_clients')
      /\ \A i \in DOMAIN vl_clients :
           \/ vl_clients'[i] = vl_clients[i] /\ \A k \in 1..n : s[k] # i
           \/ vl_clients'[i] = None /\ \E k \in 1..n : s[k] = i
  <2>1. Up /\ Up'
    BY <1>1 DEF Up
  <2>2. s \in [1..n -> DOMAIN vl_clients] /\ \A k \in 1..n : vl_clients[s[k]] # None
    BY <1>4, <1>5
  <2>. QED
    BY <1>0, <1>4, <1>6, <2>1, <2>2, PoolPutExact
<1>8. \A i \in dead : Handle(i, restarts) \in Known
  <2>1. \A i \in dead : i \in Nat \ {0}
    BY <1>2 DEF Dead
  <2>2. restarts \in 0..restarts
    BY <1>0 DEF TypeOK
  <2>. QED
    BY <2>1, <2>2 DEF Known, Handle
<1>9. TypeOK'
  <2>1. reaped' \subseteq Known
    BY <1>0, <1>1, <1>8 DEF TypeOK
  <2>. QED
    BY <1>0, <1>1, <1>7, <2>1, SameTypes DEF TypeOK
<1>10. VppMoves
  BY <1>1 DEF VppMoves, SamePhase
<1>11. ASSUME NEW h \in Known, NEW q \in Queues, Honoured(h, q) PROVE Honoured(h, q)'
  <2>. SUFFICES ASSUME h.life = restarts, h \notin reaped'
                PROVE  h.index \in DOMAIN vl_clients' /\ vl_clients'[h.index] = q
    BY <1>1 DEF Honoured
  <2>1. h.index \in DOMAIN vl_clients /\ vl_clients[h.index] = q
    BY <1>1, <1>11 DEF Honoured
  <2>2. h = Handle(h.index, restarts)
    BY <1>0, PresentHandle
  <2>3. h.index \notin dead
    BY <1>1, <2>2
  <2>4. \A k \in 1..n : s[k] # h.index
    BY <1>5, <2>3
  <2>. QED
    BY <1>7, <2>1, <2>4
<1>12. \A i \in DOMAIN vl_clients' : vl_clients'[i] # None =>
           i \in DOMAIN vl_clients /\ vl_clients[i] = vl_clients'[i]
  BY <1>1, <1>7
<1>. QED
  BY <1>1, <1>7, <1>9, <1>10, <1>11, <1>12, LosesIInv

\* The scan waits for the mutex of the region.
LEMMA ScanBlocksIInv ==
  ASSUME IInv, ScanBlocks
  PROVE  IInv'
<1>0. TypeOK /\ PoolExact
  BY DEF IInv
<1>1. /\ vpp_pc = "loop" /\ vpp_pc' = "stuck" /\ msg' = msg /\ out' = out
      /\ queue' = queue /\ lost' = lost /\ lost_queues' = lost_queues /\ inbox' = inbox
      /\ restarts' = restarts /\ reaped' = reaped
      /\ pc' = pc /\ op' = op /\ conn' = conn /\ handle' = handle
      /\ \E e \in Ascending(Confused) : PoolPut(e)
  BY DEF ScanBlocks, shared, mutexes, clients
<1>2. PICK n \in Nat : n = 0
  OBVIOUS
<1>3. PICK s \in [1..n -> DOMAIN vl_clients] : PoolPut(s)
  <2>1. PICK e \in Ascending(Confused) : PoolPut(e)
    BY <1>1
  <2>2. e = <<>>
    BY <1>0, NobodyConfused
  <2>3. e \in [1..n -> DOMAIN vl_clients]
    BY <1>2, <2>2
  <2>. QED
    BY <2>1, <2>3
<1>4. \A k \in 1..n : FALSE
  BY <1>2
<1>5. Up /\ Up'
  BY <1>1 DEF Up
<1>6. /\ PoolExact' /\ vl_clients' \in Seq(Queues \cup {None})
      /\ DOMAIN vl_clients' = DOMAIN vl_clients
      /\ free_indices' \in Seq(DOMAIN vl_clients')
      /\ \A i \in DOMAIN vl_clients :
           \/ vl_clients'[i] = vl_clients[i] /\ \A k \in 1..n : s[k] # i
           \/ vl_clients'[i] = None /\ \E k \in 1..n : s[k] = i
  BY <1>0, <1>3, <1>4, <1>5, PoolPutExact
<1>7. \A i \in DOMAIN vl_clients : vl_clients'[i] = vl_clients[i]
  BY <1>4, <1>6
<1>8. TypeOK'
  BY <1>0, <1>1, <1>6, SameTypes DEF TypeOK
<1>9. VppMoves
  BY <1>1 DEF VppMoves, SamePhase
<1>10. \A h \in Known, q \in Queues : Honoured(h, q) => Honoured(h, q)'
  BY <1>1, <1>6, <1>7 DEF Honoured
<1>. QED
  BY <1>1, <1>6, <1>7, <1>8, <1>9, <1>10, LosesIInv

\* vpp takes a message off the main input queue.
LEMMA TakesFacts ==
  ASSUME IInv, Takes, NEW m, m = Head(queue)
  PROVE  /\ VppMoves /\ queue # <<>> /\ queue' = Tail(queue)
         /\ pc' \in [Clients -> {"off", "send", "sleep", "wait", "on", "dead"}]
         /\ m \in Requests /\ m.from \in Queues /\ m.handle \in Known
         /\ 1 \in DOMAIN queue /\ queue[1] = m
         /\ vpp_pc = "loop" /\ msg = NoMsg /\ out = NoOut
         /\ lost' = lost /\ lost_queues' = lost_queues /\ restarts' = restarts
         /\ inbox' = inbox /\ reaped' = reaped
         /\ op' = op /\ conn' = conn /\ handle' = handle
         /\ queue' \in Seq(Requests)
         /\ m.type = "delete" =>
              Awaits(m.from, "delete") /\ \A j \in DOMAIN queue' : ~Sender(queue'[j], m.from)
<1>0. TypeOK /\ DeletesLast
  BY DEF IInv
<1>1. /\ vpp_pc = "loop" /\ queue # <<>> /\ queue' = Tail(queue)
      /\ pc' \in {pc, Woken(pc)} /\ UNCHANGED <<op, conn, handle>>
      /\ lost' = lost /\ lost_queues' = lost_queues /\ restarts' = restarts
      /\ inbox' = inbox /\ reaped' = reaped
      /\ op' = op /\ conn' = conn /\ handle' = handle
  BY DEF Takes, mutexes
<1>2. /\ VppMoves /\ pc' \in [Clients -> {"off", "send", "sleep", "wait", "on", "dead"}]
  BY <1>0, <1>1, WokenSame DEF VppMoves
<1>3. msg = NoMsg /\ out = NoOut
  BY <1>0, <1>1 DEF TypeOK
<1>4. /\ Len(queue) \in Nat \ {0} /\ DOMAIN queue = 1..Len(queue)
      /\ DOMAIN queue' = 1..(Len(queue) - 1) /\ Head(queue) = queue[1]
      /\ \A i \in 1..(Len(queue) - 1) : queue'[i] = queue[i + 1]
  BY <1>0, <1>1, EmptySeq, HeadTailProperties, LenProperties DEF TypeOK
<1>5. 1 \in DOMAIN queue /\ queue[1] = m
  BY <1>4
<1>6. m \in Requests /\ m.from \in Queues /\ m.handle \in Known
  BY <1>0, <1>5, MessageFacts
<1>7. ASSUME m.type = "delete"
      PROVE  Awaits(m.from, "delete") /\ \A j \in DOMAIN queue' : ~Sender(queue'[j], m.from)
  <2>1. Awaits(m.from, "delete") /\ \A k \in DOMAIN queue : k > 1 => ~Sender(queue[k], m.from)
    BY <1>0, <1>5, <1>7 DEF DeletesLast
  <2>2. \A j \in DOMAIN queue' : j + 1 \in DOMAIN queue /\ j + 1 > 1
    BY <1>4
  <2>. QED
    BY <1>4, <2>1, <2>2
<1>. QED
  BY <1>0, <1>1, <1>2, <1>3, <1>5, <1>6, <1>7, MovesQueue

\* A message is taken and no client is answered: vpp waits for the mutex of the region,
\* answers itself, or has no handler for it.
LEMMA DropsIInv ==
  ASSUME IInv, CreateBlocks \/ HandleOfNobody \/ HandleAnswer
  PROVE  IInv'
<1>0. TypeOK /\ PoolExact
  BY DEF IInv
<1>1. PICK m : m = Head(queue)
  OBVIOUS
<1>2. /\ Takes /\ vl_clients' = vl_clients /\ free_indices' = free_indices /\ out' = out
      /\ \/ vpp_pc' \in {"stuck", vpp_pc} /\ msg' = msg
         \/ vpp_pc' = "self" /\ msg' = m
  BY <1>1 DEF CreateBlocks, HandleOfNobody, HandleAnswer
<1>3. /\ VppMoves /\ queue # <<>> /\ queue' = Tail(queue)
      /\ pc' \in [Clients -> {"off", "send", "sleep", "wait", "on", "dead"}]
      /\ m \in Requests
      /\ vpp_pc = "loop" /\ msg = NoMsg /\ out = NoOut
      /\ lost' = lost /\ lost_queues' = lost_queues /\ restarts' = restarts
      /\ inbox' = inbox /\ reaped' = reaped
      /\ op' = op /\ conn' = conn /\ handle' = handle
      /\ queue' \in Seq(Requests)
  BY <1>1, <1>2, TakesFacts
<1>4. TypeOK'
  BY <1>0, <1>2, <1>3, SameTypes DEF TypeOK
<1>5. PoolExact'
  BY <1>0, <1>2, <1>3 DEF PoolExact, Confused, Up
<1>6. \A h \in Known, q \in Queues : Honoured(h, q) => Honoured(h, q)'
  BY <1>2, <1>3 DEF Honoured
<1>. QED
  BY <1>1, <1>2, <1>3, <1>4, <1>5, <1>6, LosesIInv

\* A request or memclnt_delete: an answer goes to the client that is registered
\* under the handle in it, if there is one.
LEMMA HandleOtherIInv ==
  ASSUME IInv, HandleOther
  PROVE  IInv'
<1>0. TypeOK /\ PoolExact /\ QueuesCreated /\ MessagesHonoured /\ ClientPhase
  BY DEF IInv
<1>1. PICK m : m = Head(queue)
  OBVIOUS
<1>2. PICK to : to = Registration(m.handle)
  OBVIOUS
<1>3. /\ Takes /\ m.type \in {"request", "delete"}
      /\ \/ UNCHANGED <<vpp_pc, msg, out>>
         \/ to # None /\ Answers(m, to, NoHandle)
      /\ vl_clients' = vl_clients /\ free_indices' = free_indices
  BY <1>1, <1>2 DEF HandleOther
<1>4. /\ VppMoves /\ queue # <<>> /\ queue' = Tail(queue)
      /\ pc' \in [Clients -> {"off", "send", "sleep", "wait", "on", "dead"}]
      /\ m \in Requests /\ m.from \in Queues /\ m.handle \in Known
      /\ 1 \in DOMAIN queue /\ queue[1] = m
      /\ vpp_pc = "loop" /\ msg = NoMsg /\ out = NoOut
      /\ lost' = lost /\ lost_queues' = lost_queues /\ restarts' = restarts
      /\ inbox' = inbox /\ reaped' = reaped
      /\ op' = op /\ conn' = conn /\ handle' = handle
      /\ queue' \in Seq(Requests)
      /\ m.type = "delete" =>
           Awaits(m.from, "delete") /\ \A j \in DOMAIN queue' : ~Sender(queue'[j], m.from)
  BY <1>1, <1>3, TakesFacts
<1>5. CASE UNCHANGED <<vpp_pc, msg, out>>
  <2>1. vpp_pc' = vpp_pc /\ msg' = msg /\ out' = out
    BY <1>5
  <2>2. TypeOK'
    BY <1>0, <1>3, <1>4, <2>1, SameTypes DEF TypeOK
  <2>3. PoolExact' /\ \A h, q : Honoured(h, q)' <=> Honoured(h, q)
    BY <1>0, <1>3, <1>4, <2>1, PoolSame DEF vpp
  <2>. QED
    BY <1>3, <1>4, <2>1, <2>2, <2>3, LosesIInv
<1>6. CASE to # None /\ Answers(m, to, NoHandle)
  <2>1. /\ msg' = m /\ vpp_pc' = "reply"
        /\ out' = [to |-> to, type |-> m.type, handle |-> NoHandle]
    BY <1>6 DEF Answers
  <2>2. /\ m.handle.life = restarts /\ m.handle.index \in DOMAIN vl_clients
        /\ vl_clients[m.handle.index] = to
    BY <1>0, <1>2, <1>4, <1>6, EpochTells
  <2>3. to \in Queues
    BY <1>0, <1>6, <2>2, RegisteredCreated
  <2>4. TypeOK'
    <3>1. out' \in [to : Queues, type : Types, handle : Known]
      BY <1>3, <2>1, <2>3 DEF Types, Known
    <3>. QED
      BY <1>0, <1>3, <1>4, <2>1, <3>1, SameTypes DEF TypeOK
  <2>6. \A q \in Queues : Unregistered(q)' <=> Unregistered(q)
    BY <1>3 DEF Unregistered
  <2>7. \A h \in Known, q \in Queues : Honoured(h, q) => Honoured(h, q)'
    BY <1>3, <1>4, <2>1 DEF Honoured
  <2>8. PoolExact'
    BY <1>0, <1>3, <1>4, <2>1 DEF PoolExact, Confused, Up
  <2>9. QueuesCreated'
    <3>1. Created(m.from)
      BY <1>0, <1>4 DEF QueuesCreated
    <3>2. ASSUME NEW q, q = m.from PROVE Created(q)'
      BY <1>0, <1>4, <3>1, <3>2, MovesClients
    <3>3. \A q \in Queues : ~Created(q)' => inbox[q] = <<>> /\ Unregistered(q)'
      BY <1>0, <1>4, <2>6, MovesClients DEF QueuesCreated
    <3>. QED
      BY <1>4, <2>1, <2>4, <3>2, <3>3, MovesKeep DEF QueuesCreated
  <2>10. DeletesLast'
    <3>1. ASSUME m.type = "delete", NEW q, q = m.from PROVE Awaits(q, "delete")'
      BY <1>0, <1>4, <3>1, MovesClients DEF Types
    <3>. QED
      BY <1>4, <2>1, <2>4, <3>1, MovesKeep DEF DeletesLast
  <2>11. ReplyMatches'
    <3>1. to = m.from \/ m.handle \in reaped
      <4>1. Honoured(m.handle, m.from)
        BY <1>0, <1>3, <1>4 DEF MessagesHonoured
      <4>. QED
        BY <1>4, <2>2, <4>1 DEF Honoured
    <3>. QED
      BY <1>3, <1>4, <2>1, <2>2, <3>1 DEF ReplyMatches
  <2>12. CreatesFirst'
    <3>1. ASSUME NEW q \in Queues, Fresh(q), m.from # q PROVE Fresh(q)'
      BY <1>4, <2>1, <2>6, <3>1 DEF Fresh
    <3>. QED
      BY <1>1, <1>3, <1>4, <2>1, <3>1, MovesCreates
  <2>. QED
    BY <1>4, <2>4, <2>7, <2>8, <2>9, <2>10, <2>11, <2>12, MovesKeep, MovesHonoured
    DEF IInv
<1>. QED
  BY <1>3, <1>5, <1>6

\* pool_get, of element i for queue q.
PoolGet(i, q) ==
  \/ /\ free_indices = <<>> /\ free_indices' = <<>>
     /\ i = Len(vl_clients) + 1
     /\ vl_clients' = Append(vl_clients, q)
  \/ /\ free_indices # <<>> /\ free_indices' = Front(free_indices)
     /\ i = Last(free_indices)
     /\ vl_clients' = [vl_clients EXCEPT ![i] = q]

\* An element that was free, or one more, is taken.
LEMMA PoolGetExact ==
  ASSUME TypeOK, PoolExact, Up, Up', NEW q \in Queues, Unregistered(q), NEW i, PoolGet(i, q)
  PROVE  /\ PoolExact'
         /\ vl_clients' \in Seq(Queues \cup {None}) /\ free_indices' \in Seq(DOMAIN vl_clients')
         /\ i \in Nat \ {0} /\ DOMAIN vl_clients' = DOMAIN vl_clients \cup {i}
         /\ vl_clients'[i] = q
         /\ \A j \in DOMAIN vl_clients \ {i} : vl_clients'[j] = vl_clients[j]
         /\ i \in DOMAIN vl_clients => vl_clients[i] = None
<1>0. /\ vl_clients \in Seq(Queues \cup {None}) /\ Len(vl_clients) \in Nat
      /\ DOMAIN vl_clients = 1..Len(vl_clients) /\ free_indices \in Seq(DOMAIN vl_clients)
      /\ Len(free_indices) \in Nat /\ DOMAIN free_indices = 1..Len(free_indices)
  BY LenProperties DEF TypeOK
<1>1. /\ vl_clients' \in Seq(Queues \cup {None}) /\ free_indices' \in Seq(DOMAIN vl_clients')
      /\ i \in Nat \ {0} /\ DOMAIN vl_clients' = DOMAIN vl_clients \cup {i}
      /\ vl_clients'[i] = q
      /\ \A j \in DOMAIN vl_clients \ {i} : vl_clients'[j] = vl_clients[j]
      /\ i \in DOMAIN vl_clients => vl_clients[i] = None
      /\ \A k \in DOMAIN free_indices' :
           k \in DOMAIN free_indices /\ free_indices'[k] = free_indices[k]
           /\ free_indices[k] # i
      /\ \A k \in DOMAIN free_indices : k \in DOMAIN free_indices' \/ free_indices[k] = i
  <2>1. CASE free_indices = <<>>
    <3>1. i = Len(vl_clients) + 1 /\ vl_clients' = Append(vl_clients, q) /\ free_indices' = <<>>
      BY <2>1 DEF PoolGet
    <3>2. /\ vl_clients' \in Seq(Queues \cup {None}) /\ DOMAIN vl_clients' = 1..i
          /\ vl_clients'[i] = q /\ \A j \in 1..Len(vl_clients) : vl_clients'[j] = vl_clients[j]
      BY <1>0, <3>1
    <3>3. 1..i = (1..Len(vl_clients)) \cup {i} /\ i \notin 1..Len(vl_clients)
      BY <1>0, <3>1
    <3>4. free_indices' = free_indices /\ \A k \in DOMAIN free_indices : FALSE
      BY <2>1, <3>1
    <3>5. free_indices' \in Seq(DOMAIN vl_clients') /\ i \in Nat \ {0}
      BY <1>0, <3>1
    <3>. QED
      BY <1>0, <3>2, <3>3, <3>4, <3>5
  <2>2. CASE free_indices # <<>>
    <3>1. Len(free_indices) > 0 /\ Len(free_indices) \in DOMAIN free_indices
      BY <1>0, <2>2, EmptySeq
    <3>2. i = free_indices[Len(free_indices)]
      BY <2>2 DEF Last, PoolGet
    <3>3. i \in DOMAIN vl_clients /\ vl_clients[i] = None
      BY <1>0, <3>1, <3>2, ElementOfSeq DEF PoolExact
    <3>4. vl_clients' = [vl_clients EXCEPT ![i] = q]
      BY <2>2 DEF PoolGet
    <3>5. /\ DOMAIN vl_clients' = DOMAIN vl_clients /\ vl_clients'[i] = q
          /\ \A j \in DOMAIN vl_clients \ {i} : vl_clients'[j] = vl_clients[j]
      BY <3>3, <3>4
    <3>6. vl_clients' \in Seq(Queues \cup {None})
      <4>1. vl_clients \in [1..Len(vl_clients) -> Queues \cup {None}]
        BY <1>0, ElementOfSeq
      <4>2. vl_clients' \in [1..Len(vl_clients) -> Queues \cup {None}]
        BY <3>4, <4>1
      <4>. QED
        BY <1>0, <4>2, SeqDef
    <3>7. /\ free_indices' \in Seq(DOMAIN vl_clients)
          /\ DOMAIN free_indices' = 1..(Len(free_indices) - 1)
          /\ \A k \in 1..(Len(free_indices) - 1) : free_indices'[k] = free_indices[k]
      <4>1. free_indices' = SubSeq(free_indices, 1, Len(free_indices) - 1)
        BY <2>2 DEF Front, PoolGet
      <4>. QED
        BY <1>0, <3>1, <4>1
    <3>8. \A k \in 1..(Len(free_indices) - 1) :
            k \in DOMAIN free_indices /\ k # Len(free_indices)
      <4>1. \A n \in Nat : \A k \in 1..(n - 1) : k \in 1..n /\ k # n
        OBVIOUS
      <4>2. Len(free_indices) \in Nat /\ DOMAIN free_indices = 1..Len(free_indices)
        BY <1>0
      <4>. QED
        BY <4>1, <4>2
    <3>9. \A k \in 1..(Len(free_indices) - 1) : free_indices[k] # i
      BY <3>1, <3>2, <3>8 DEF PoolExact
    <3>10. i \in Nat \ {0} /\ DOMAIN vl_clients = DOMAIN vl_clients \cup {i}
      BY <1>0, <3>3
    <3>11. \A k \in DOMAIN free_indices' :
             k \in DOMAIN free_indices /\ free_indices'[k] = free_indices[k]
             /\ free_indices[k] # i
      BY <3>7, <3>8, <3>9
    <3>12. \A k \in DOMAIN free_indices : k \in DOMAIN free_indices' \/ free_indices[k] = i
      <4>1. \A n \in Nat : \A k \in 1..n : k \in 1..(n - 1) \/ k = n
        OBVIOUS
      <4>. QED
        BY <1>0, <3>2, <3>7, <4>1
    <3>. QED
      BY <3>3, <3>5, <3>6, <3>7, <3>10, <3>11, <3>12
  <2>. QED
    BY <2>1, <2>2
<1>2. \A k \in DOMAIN free_indices' : vl_clients'[free_indices'[k]] = None
  <2>1. \A k \in DOMAIN free_indices : free_indices[k] \in DOMAIN vl_clients
    BY <1>0, ElementOfSeq
  <2>. QED
    BY <1>1, <2>1 DEF PoolExact
<1>3. \A k, l \in DOMAIN free_indices' : free_indices'[k] = free_indices'[l] => k = l
  BY <1>1 DEF PoolExact
<1>4. ASSUME NEW j \in DOMAIN vl_clients', NEW k \in DOMAIN vl_clients',
             vl_clients'[j] = vl_clients'[k], vl_clients'[j] # None
      PROVE  j = k
  <2>1. \A l \in DOMAIN vl_clients \ {i} : vl_clients'[l] # q
    BY <1>1 DEF Unregistered
  <2>2. CASE j # i /\ k # i
    BY <1>1, <1>4, <2>2 DEF PoolExact
  <2>. QED
    BY <1>1, <1>4, <2>1, <2>2
<1>5. Confused' = {}
  <2>1. ASSUME NEW j \in DOMAIN vl_clients', vl_clients'[j] = None
        PROVE  \E k \in DOMAIN free_indices' : free_indices'[k] = j
    <3>1. j # i /\ j \in DOMAIN vl_clients /\ vl_clients[j] = None
      BY <1>1, <2>1, QueueFacts
    <3>2. PICK k \in DOMAIN free_indices : free_indices[k] = j
      BY <3>1 DEF PoolExact, Confused, ToSet
    <3>. QED
      BY <1>1, <3>1, <3>2
  <2>. QED
    BY <2>1 DEF Confused, ToSet
<1>. QED
  BY <1>1, <1>2, <1>3, <1>4, <1>5 DEF PoolExact

\* memclnt_create: the client is registered, and its handle is in the answer.
LEMMA HandleCreateIInv ==
  ASSUME IInv, HandleCreate
  PROVE  IInv'
<1>0. TypeOK /\ PoolExact /\ QueuesCreated /\ ClientPhase /\ CreatesFirst
  BY DEF IInv
<1>1. PICK m : m = Head(queue)
  OBVIOUS
<1>2. PICK i : i = IF free_indices = <<>> THEN Len(vl_clients) + 1 ELSE Last(free_indices)
  OBVIOUS
<1>3. /\ Takes /\ m.type = "create" /\ Answers(m, m.from, Handle(i, restarts))
      /\ PoolGet(i, m.from)
  BY <1>1, <1>2 DEF HandleCreate, PoolGet
<1>4. /\ VppMoves /\ queue # <<>> /\ queue' = Tail(queue)
      /\ pc' \in [Clients -> {"off", "send", "sleep", "wait", "on", "dead"}]
      /\ m \in Requests /\ m.from \in Queues /\ m.handle \in Known
      /\ 1 \in DOMAIN queue /\ queue[1] = m
      /\ vpp_pc = "loop" /\ msg = NoMsg /\ out = NoOut
      /\ lost' = lost /\ lost_queues' = lost_queues /\ restarts' = restarts
      /\ inbox' = inbox /\ reaped' = reaped
      /\ op' = op /\ conn' = conn /\ handle' = handle
      /\ queue' \in Seq(Requests)
  BY <1>1, <1>3, TakesFacts
<1>5. PICK own \in Queues : own = m.from
  BY <1>4
<1>6. /\ msg' = m /\ vpp_pc' = "reply"
      /\ out' = [to |-> own, type |-> m.type, handle |-> Handle(i, restarts)]
  BY <1>3, <1>5 DEF Answers
<1>7. /\ Fresh(own) /\ Unregistered(own) /\ Awaits(own, "create") /\ Created(own)
      /\ \A j \in DOMAIN queue : queue[j].from = own => j = 1
  BY <1>0, <1>3, <1>4, <1>5 DEF CreatesFirst, QueuesCreated, Fresh
<1>8. /\ PoolExact'
      /\ vl_clients' \in Seq(Queues \cup {None}) /\ free_indices' \in Seq(DOMAIN vl_clients')
      /\ i \in Nat \ {0} /\ DOMAIN vl_clients' = DOMAIN vl_clients \cup {i}
      /\ vl_clients'[i] = own
      /\ \A j \in DOMAIN vl_clients \ {i} : vl_clients'[j] = vl_clients[j]
      /\ i \in DOMAIN vl_clients => vl_clients[i] = None
  <2>1. Up /\ Up'
    BY <1>4, <1>6 DEF Up
  <2>2. PoolGet(i, own) /\ Unregistered(own)
    BY <1>3, <1>5, <1>7
  <2>. QED
    BY <1>0, <2>1, <2>2, PoolGetExact
<1>9. Handle(i, restarts) \in Known
  <2>1. restarts \in 0..restarts
    BY <1>0 DEF TypeOK
  <2>. QED
    BY <1>8, <2>1 DEF Known, Handle
<1>10. TypeOK'
  <2>1. out' \in [to : Queues, type : Types, handle : Known]
    BY <1>3, <1>6, <1>9 DEF Types
  <2>. QED
    BY <1>0, <1>4, <1>6, <1>8, <2>1, SameTypes DEF TypeOK
<1>11. \A j \in DOMAIN queue' : queue'[j].from # own
  <2>1. \A j \in DOMAIN queue' : j + 1 \in DOMAIN queue /\ queue'[j] = queue[j + 1] /\ j + 1 # 1
    BY <1>0, <1>4, EmptySeq, HeadTailProperties, LenProperties DEF TypeOK
  <2>. QED
    BY <1>7, <2>1
<1>12. ASSUME NEW h \in Known, NEW q \in Queues, Honoured(h, q) PROVE Honoured(h, q)'
  <2>. SUFFICES ASSUME h.life = restarts, h \notin reaped
                PROVE  h.index \in DOMAIN vl_clients' /\ vl_clients'[h.index] = q
    BY <1>4 DEF Honoured
  <2>1. h.index \in DOMAIN vl_clients /\ vl_clients[h.index] = q
    BY <1>4, <1>12 DEF Honoured
  <2>2. h.index # i
    BY <1>8, <2>1, QueueFacts
  <2>. QED
    BY <1>8, <2>1, <2>2
<1>13. \A q \in Queues : Unregistered(q) /\ q # own => Unregistered(q)'
  BY <1>8 DEF Unregistered
<1>14. QueuesCreated'
  <2>1. Created(own)'
    BY <1>0, <1>4, <1>7, MovesClients
  <2>2. \A q \in Queues : ~Created(q)' => inbox[q] = <<>> /\ Unregistered(q)'
    BY <1>0, <1>4, <1>7, <1>13, MovesClients DEF QueuesCreated
  <2>. QED
    BY <1>4, <1>5, <1>6, <1>10, <2>1, <2>2, MovesKeep DEF QueuesCreated
<1>15. DeletesLast'
  BY <1>3, <1>4, <1>6, <1>10, MovesKeep DEF DeletesLast
<1>16. ReplyMatches'
  <2>1. Handle(i, restarts).life = restarts /\ Handle(i, restarts).index = i
    BY DEF Handle
  <2>. QED
    BY <1>3, <1>4, <1>5, <1>6, <1>8, <2>1 DEF ReplyMatches
<1>17. CreatesFirst'
  <2>1. ASSUME NEW q \in Queues, Fresh(q), m.from # q PROVE Fresh(q)'
    BY <1>4, <1>5, <1>6, <1>13, <2>1 DEF Fresh
  <2>2. Awaits(own, "create")'
    BY <1>0, <1>4, <1>7, MovesClients DEF Types
  <2>3. inbox'[msg'.from] = <<>> /\ Awaits(msg.from, "create")'
    BY <1>4, <1>5, <1>6, <1>7, <2>2 DEF Fresh
  <2>. QED
    BY <1>1, <1>4, <1>5, <1>6, <1>11, <2>1, <2>3, MovesCreates
<1>. QED
  BY <1>4, <1>8, <1>10, <1>12, <1>14, <1>15, <1>16, <1>17, MovesKeep, MovesHonoured
  DEF IInv

\* What an answer adds to the queue it goes to.
Adds(q) ==
  /\ inbox' \in [Queues -> Seq(Replies)]
  /\ \A p \in Queues \ {q} : inbox'[p] = inbox[p]
  /\ \A k \in DOMAIN inbox'[q] :
       \/ k \in DOMAIN inbox[q] /\ inbox'[q][k] = inbox[q][k]
       \/ inbox'[q][k].type = msg.type /\ inbox'[q][k].handle = out.handle

\* vpp sends an answer to a client that is registered.
LEMMA SentFacts ==
  ASSUME IInv, Sent, NEW to, to = out.to
  PROVE  /\ vpp_pc = "reply" /\ to \in Queues /\ Adds(to)
         /\ queue' = queue /\ lost' = lost /\ lost_queues' = lost_queues
         /\ restarts' = restarts /\ reaped' = reaped
         /\ pc' = pc /\ op' = op /\ conn' = conn /\ handle' = handle
         /\ msg.type \in Types /\ msg.handle \in Known /\ out.type = msg.type
         /\ out.handle \in Known /\ msg.from \in Queues /\ VppMoves
         /\ Created(to) /\ ~Unregistered(to)
<1>0. TypeOK /\ QueuesCreated /\ ReplyMatches
  BY DEF IInv
<1>1. /\ vpp_pc = "reply"
      /\ queue' = queue /\ lost' = lost /\ lost_queues' = lost_queues
      /\ restarts' = restarts /\ reaped' = reaped
      /\ pc' = pc /\ op' = op /\ conn' = conn /\ handle' = handle
      /\ inbox' = [inbox EXCEPT ![out.to] =
                     Append(inbox[out.to], [type |-> out.type, handle |-> out.handle])]
  BY DEF Sent, mutexes, clients
<1>2. /\ out.type \in Types /\ msg.handle \in Known /\ out.type = msg.type
      /\ out.to \in Queues /\ out.handle \in Known /\ msg.from \in Queues
  BY <1>0, <1>1, MessageFacts DEF TypeOK, ReplyMatches
<1>3. Adds(to)
  <2>1. PICK e \in Replies : e = [type |-> out.type, handle |-> out.handle]
    BY <1>2 DEF Replies
  <2>2. inbox \in [Queues -> Seq(Replies)] /\ inbox[to] \in Seq(Replies)
    BY <1>0, <1>2 DEF TypeOK
  <2>3. inbox' = [inbox EXCEPT ![to] = Append(inbox[to], e)]
    BY <1>1, <2>1
  <2>4. /\ Append(inbox[to], e) \in Seq(Replies)
        /\ \A k \in DOMAIN Append(inbox[to], e) :
             \/ k \in DOMAIN inbox[to] /\ Append(inbox[to], e)[k] = inbox[to][k]
             \/ Append(inbox[to], e)[k] = e
    BY <2>2
  <2>5. inbox'[to] = Append(inbox[to], e) /\ \A q \in Queues \ {to} : inbox'[q] = inbox[q]
    BY <1>2, <2>2, <2>3
  <2>6. inbox' \in [Queues -> Seq(Replies)]
    BY <2>2, <2>3, <2>4
  <2>7. e.type = msg.type /\ e.handle = out.handle
    BY <1>2, <2>1
  <2>. QED
    BY <2>4, <2>5, <2>6, <2>7 DEF Adds
<1>4. PICK i \in DOMAIN vl_clients : vl_clients[i] = to
  BY <1>0, <1>1 DEF ReplyMatches
<1>5. Created(to) /\ ~Unregistered(to)
  BY <1>0, <1>2, <1>4, QueueFacts, RegisteredCreated DEF Unregistered
<1>6. VppMoves
  BY <1>1 DEF VppMoves, SamePhase
<1>. QED
  BY <1>1, <1>2, <1>3, <1>5, <1>6

\* A dump has one more answer.
LEMMA DumpIInv ==
  ASSUME IInv, DumpGoesOn
  PROVE  IInv'
<1>0. TypeOK /\ QueuesCreated /\ DeletesLast /\ CreatesFirst /\ RepliesHonoured /\ ClientPhase
  BY DEF IInv
<1>1. PICK to : to = out.to
  OBVIOUS
<1>2. /\ vpp_pc = "reply" /\ to \in Queues /\ Adds(to)
      /\ queue' = queue /\ lost' = lost /\ lost_queues' = lost_queues
      /\ restarts' = restarts /\ reaped' = reaped
      /\ pc' = pc /\ op' = op /\ conn' = conn /\ handle' = handle
      /\ out.type = msg.type /\ msg.from \in Queues /\ VppMoves
      /\ Created(to) /\ ~Unregistered(to)
  BY <1>1, SentFacts DEF DumpGoesOn
<1>3. /\ msg.type = "request" /\ vpp_pc' = vpp_pc /\ vl_clients' = vl_clients
      /\ free_indices' = free_indices /\ msg' = msg /\ out' = out
      /\ UNCHANGED <<restarts, vpp>>
  BY <1>2 DEF DumpGoesOn, vpp
<1>4. TypeOK'
  BY <1>0, <1>2, <1>3, SameTypes DEF TypeOK, Adds
<1>5. /\ PoolExact' /\ ReplyMatches'
      /\ \A q \in Queues : Unregistered(q)' <=> Unregistered(q)
      /\ \A h, q : Honoured(h, q)' <=> Honoured(h, q)
  BY <1>3, PoolSame DEF IInv
<1>6. QueuesCreated'
  <2>1. Created(msg.from)
    BY <1>0, <1>2 DEF QueuesCreated
  <2>2. \A q \in Queues : ~Created(q)' => inbox'[q] = <<>> /\ Unregistered(q)'
    BY <1>0, <1>2, <1>5, MovesClients DEF QueuesCreated, Adds
  <2>3. ASSUME NEW q \in Queues, q = msg.from PROVE Created(q)'
    BY <1>0, <1>2, <2>1, <2>3, MovesClients
  <2>. QED
    BY <1>2, <1>3, <1>4, <2>2, <2>3, MovesKeep DEF QueuesCreated
<1>7. DeletesLast'
  BY <1>2, <1>3, <1>4, MovesKeep DEF DeletesLast
<1>8. RepliesHonoured'
  <2>1. ASSUME NEW d \in Clients, Waiting(d, "create"), NEW q, q = Mine(d),
               NEW k \in DOMAIN inbox'[q], inbox'[q][k].type = "create",
               NEW g, g = inbox'[q][k].handle
        PROVE  Honoured(g, q)'
    <3>1. q \in Queues
      BY <1>0, <2>1, MineIsQueue DEF Waiting
    <3>2. k \in DOMAIN inbox[q] /\ inbox'[q][k] = inbox[q][k]
      BY <1>2, <1>3, <2>1, <3>1 DEF Adds
    <3>. QED
      BY <1>0, <1>5, <2>1, <3>2 DEF RepliesHonoured
  <2>2. /\ \A d \in Clients : Mine(d)' = Mine(d)
        /\ \A d \in Clients : Waiting(d, "create")' <=> Waiting(d, "create")
    BY <1>0, <1>2, MovesClients DEF Types
  <2>. QED
    BY <2>1, <2>2 DEF RepliesHonoured
<1>9. CreatesFirst'
  <2>1. ASSUME NEW q \in Queues, Fresh(q) PROVE Fresh(q)'
    BY <1>2, <1>3, <1>5, <2>1 DEF Fresh, Adds
  <2>. QED
    BY <1>2, <1>3, <2>1, MovesCreates
<1>. QED
  BY <1>2, <1>4, <1>5, <1>6, <1>7, <1>8, <1>9, MovesKeep, MovesHonoured DEF IInv

\* vpp sends its last answer, and after memclnt_delete_reply frees the registration.
LEMMA VppRepliesIInv ==
  ASSUME IInv, VppReplies
  PROVE  IInv'
<1>0. /\ TypeOK /\ PoolExact /\ QueuesCreated /\ ClientPhase /\ DeletesLast /\ ReplyMatches
  BY DEF IInv
<1>1. PICK to : to = out.to
  OBVIOUS
<1>2. /\ vpp_pc = "reply" /\ to \in Queues /\ Adds(to)
      /\ queue' = queue /\ lost' = lost /\ lost_queues' = lost_queues
      /\ restarts' = restarts /\ reaped' = reaped
      /\ pc' = pc /\ op' = op /\ conn' = conn /\ handle' = handle
      /\ msg.type \in Types /\ msg.handle \in Known /\ out.type = msg.type
      /\ out.handle \in Known /\ msg.from \in Queues /\ VppMoves
      /\ Created(to) /\ ~Unregistered(to)
  BY <1>1, SentFacts DEF VppReplies
<1>3. /\ vpp_pc' \in {"loop", "stuck"} /\ msg' = NoMsg /\ out' = NoOut
      /\ IF out.type = "delete" THEN PoolPut(<<msg.handle.index>>)
         ELSE UNCHANGED <<vl_clients, free_indices>>
  BY DEF VppReplies
<1>4. PICK from \in Queues : from = msg.from
  BY <1>2
<1>5. PICK h \in Known : h = IF msg.type = "create" THEN out.handle ELSE msg.handle
  BY <1>2
<1>6. /\ h.life = restarts /\ h.index \in DOMAIN vl_clients /\ vl_clients[h.index] = to
      /\ msg.type = "create" => to = from /\ h = out.handle
      /\ msg.type # "create" => h = msg.handle
      /\ to = from \/ msg.handle \in reaped
  BY <1>0, <1>1, <1>2, <1>4, <1>5 DEF ReplyMatches
<1>7. to = from \/ (h \in reaped /\ msg.type # "create")
  BY <1>6
<1>8. /\ PoolExact' /\ vl_clients' \in Seq(Queues \cup {None})
      /\ DOMAIN vl_clients' = DOMAIN vl_clients
      /\ free_indices' \in Seq(DOMAIN vl_clients')
      /\ \A i \in DOMAIN vl_clients :
           \/ vl_clients'[i] = vl_clients[i]
           \/ vl_clients'[i] = None /\ msg.type = "delete" /\ i = h.index
  <2>0. Up /\ Up'
    BY <1>2, <1>3 DEF Up
  <2>1. CASE msg.type = "delete"
    <3>1. PICK s : s = <<h.index>>
      OBVIOUS
    <3>2. PoolPut(s)
      BY <1>2, <1>3, <1>6, <2>1, <3>1
    <3>3. PICK n \in Nat : n = 1
      OBVIOUS
    <3>4. s \in [1..n -> DOMAIN vl_clients] /\ s[1] = h.index /\ \A k \in 1..n : k = 1
      BY <1>6, <3>1, <3>3
    <3>5. vl_clients[h.index] # None
      BY <1>2, <1>6, QueueFacts
    <3>6. /\ \A k \in 1..n : vl_clients[s[k]] # None
          /\ \A k, l \in 1..n : s[k] = s[l] => k = l
      BY <3>4, <3>5
    <3>7. /\ PoolExact'
          /\ vl_clients' \in Seq(Queues \cup {None}) /\ DOMAIN vl_clients' = DOMAIN vl_clients
          /\ free_indices' \in Seq(DOMAIN vl_clients')
          /\ \A i \in DOMAIN vl_clients :
               \/ vl_clients'[i] = vl_clients[i] /\ \A k \in 1..n : s[k] # i
               \/ vl_clients'[i] = None /\ \E k \in 1..n : s[k] = i
      BY <1>0, <2>0, <3>2, <3>4, <3>6, PoolPutExact
    <3>. QED
      BY <2>1, <3>4, <3>7
  <2>2. CASE msg.type # "delete"
    <3>1. vl_clients' = vl_clients /\ free_indices' = free_indices
      BY <1>2, <1>3, <2>2
    <3>. QED
      BY <1>0, <2>0, <3>1 DEF TypeOK, PoolExact, Confused
  <2>. QED
    BY <2>1, <2>2
<1>9. TypeOK'
  BY <1>0, <1>2, <1>3, <1>8, SameTypes DEF TypeOK, Adds
<1>10. \A q \in Queues : Unregistered(q) => Unregistered(q)' /\ q # to
  BY <1>2, <1>8, QueueFacts DEF Unregistered
<1>11. PICK gone : gone = IF msg.type = "delete" THEN from ELSE None
  OBVIOUS
<1>12. ASSUME NEW g \in Known, NEW q \in Queues \ {gone}, Honoured(g, q)
       PROVE  Honoured(g, q)'
  <2>. SUFFICES ASSUME g.life = restarts, g \notin reaped
                PROVE  g.index \in DOMAIN vl_clients' /\ vl_clients'[g.index] = q
    BY <1>2 DEF Honoured
  <2>1. g.index \in DOMAIN vl_clients /\ vl_clients[g.index] = q
    BY <1>2, <1>12 DEF Honoured
  <2>2. ~(msg.type = "delete" /\ g.index = h.index)
    <3>. SUFFICES ASSUME msg.type = "delete", g.index = h.index PROVE FALSE
      OBVIOUS
    <3>1. g = h
      <4>1. g = Handle(g.index, restarts) /\ h = Handle(h.index, restarts)
        BY <1>0, <1>6, PresentHandle
      <4>. QED
        BY <4>1
    <3>2. q = to /\ q # from
      BY <1>6, <1>11, <1>12, <2>1
    <3>. QED
      BY <1>7, <3>1, <3>2
  <2>. QED
    BY <1>8, <2>1, <2>2
<1>13. /\ \A i \in DOMAIN queue' : ~Sender(queue'[i], gone)
       /\ \A d \in Clients :
            Mine(d) = gone => pc[d] \in {"off", "dead"} \/ Waiting(d, "delete")
  <2>1. CASE msg.type = "delete"
    <3>1. Awaits(from, "delete") /\ \A j \in DOMAIN queue : ~Sender(queue[j], from)
      BY <1>0, <1>2, <1>4, <2>1 DEF DeletesLast
    <3>2. \A d \in Clients : Mine(d) = from => Owner(from) = d
      BY DEF Mine, Owner
    <3>. QED
      BY <1>2, <1>11, <2>1, <3>1, <3>2 DEF Awaits
  <2>2. CASE msg.type # "delete"
    <3>1. gone \notin Queues
      BY <1>11, <2>2, NoneAssumption
    <3>. QED
      BY <1>0, <1>2, <3>1, MessageFacts, MineIsQueue DEF Sender
  <2>. QED
    BY <2>1, <2>2
<1>14. /\ MessagesHonoured' /\ ClientsHonoured'
       /\ \A d \in Clients, q \in Queues :
            Waiting(d, "create") /\ q = Mine(d) =>
              \A k \in DOMAIN inbox[q], g \in Known :
                inbox[q][k].type = "create" /\ g = inbox[q][k].handle => Honoured(g, q)'
  BY <1>2, <1>12, <1>13, MovesHonouredBut
<1>15. RepliesHonoured'
  <2>1. ASSUME NEW d \in Clients, Waiting(d, "create"), NEW q, q = Mine(d),
               NEW k \in DOMAIN inbox'[q], inbox'[q][k].type = "create",
               NEW g, g = inbox'[q][k].handle
        PROVE  Honoured(g, q)'
    <3>1. q \in Queues
      BY <1>0, <2>1, MineIsQueue DEF Waiting
    <3>2. CASE k \in DOMAIN inbox[q] /\ inbox'[q][k] = inbox[q][k]
      <4>1. g \in Known
        BY <1>0, <2>1, <3>1, <3>2, ReplyHandles
      <4>. QED
        BY <1>14, <2>1, <3>1, <3>2, <4>1
    <3>3. CASE q = to /\ msg.type = "create" /\ g = h
      <4>1. vl_clients'[h.index] = to /\ h.index \in DOMAIN vl_clients'
        BY <1>6, <1>8, <3>3
      <4>. QED
        BY <3>3, <4>1 DEF Honoured
    <3>. QED
      BY <1>2, <1>6, <2>1, <3>1, <3>2, <3>3 DEF Adds
  <2>2. /\ \A d \in Clients : Mine(d)' = Mine(d)
        /\ \A d \in Clients : Waiting(d, "create")' <=> Waiting(d, "create")
    BY <1>0, <1>2, MovesClients DEF Types
  <2>. QED
    BY <2>1, <2>2 DEF RepliesHonoured
<1>16. QueuesCreated'
  <2>1. \A q \in Queues : ~Created(q)' => inbox'[q] = <<>> /\ Unregistered(q)'
    BY <1>0, <1>2, <1>10, MovesClients DEF QueuesCreated, Adds
  <2>. QED
    BY <1>2, <1>3, <1>9, <2>1, MovesKeep DEF QueuesCreated
<1>17. DeletesLast'
  BY <1>2, <1>3, <1>9, MovesKeep DEF DeletesLast
<1>18. ReplyMatches'
  BY <1>3 DEF ReplyMatches
<1>19. CreatesFirst'
  <2>1. ASSUME NEW q \in Queues, Fresh(q) PROVE Fresh(q)'
    <3>1. NoMsg.from # q
      BY QueueFacts DEF NoMsg, Message
    <3>. QED
      BY <1>2, <1>3, <1>10, <2>1, <3>1 DEF Fresh, Adds
  <2>. QED
    BY <1>2, <1>3, <2>1, MovesCreates
<1>. QED
  BY <1>2, <1>8, <1>9, <1>14, <1>15, <1>16, <1>17, <1>18, <1>19, MovesKeep DEF IInv

\* vpp adds its answer to the main input queue.
LEMMA RepliesToSelfIInv ==
  ASSUME IInv, RepliesToSelf
  PROVE  IInv'
<1>0. /\ TypeOK /\ ClientPhase /\ PoolExact /\ QueuesCreated /\ MessagesHonoured
      /\ ClientsHonoured /\ RepliesHonoured /\ DeletesLast /\ CreatesFirst
  BY DEF IInv
<1>1. /\ vpp_pc = "self" /\ vpp_pc' = "loop" /\ msg' = NoMsg /\ out' = out
      /\ queue' = Append(queue, Message("answer", msg.from, NoHandle))
      /\ pc' \in {pc, Woken(pc)} /\ UNCHANGED <<op, conn, handle>>
      /\ lost' = lost /\ lost_queues' = lost_queues /\ restarts' = restarts
      /\ inbox' = inbox /\ vl_clients' = vl_clients /\ free_indices' = free_indices
      /\ reaped' = reaped /\ op' = op /\ conn' = conn /\ handle' = handle
  BY DEF RepliesToSelf, mutexes
<1>2. PICK from \in Queues : from = msg.from
  BY <1>0, <1>1, MessageFacts
<1>3. PICK m \in Requests : /\ m = Message("answer", msg.from, NoHandle)
                            /\ m.type = "answer" /\ m.from = from
  <2>1. [type |-> "answer", from |-> from, handle |-> NoHandle] \in Requests
    BY DEF Requests, Known
  <2>. QED
    BY <1>2, <2>1 DEF Message
<1>4. /\ pc' \in [Clients -> {"off", "send", "sleep", "wait", "on", "dead"}]
      /\ \A d \in Clients : SamePhase(d)
  BY <1>0, <1>1, WokenSame
<1>5. TypeOK'
  <2>1. queue' \in Seq(Requests) /\ out = NoOut
    BY <1>0, <1>1, <1>3, AppendProperties DEF TypeOK
  <2>. QED
    BY <1>0, <1>1, <1>4, <2>1, SameTypes DEF TypeOK
<1>6. ClientPhase'
  BY <1>0, <1>4, ClientSame DEF ClientPhase, SamePhase
<1>7. /\ PoolExact' /\ ReplyMatches'
      /\ \A q \in Queues : Unregistered(q)' <=> Unregistered(q)
      /\ \A h, q : Honoured(h, q) => Honoured(h, q)'
  <2>1. PoolExact' /\ ReplyMatches'
    BY <1>0, <1>1 DEF PoolExact, Confused, Up, ReplyMatches
  <2>2. \A q \in Queues : Unregistered(q)' <=> Unregistered(q)
    BY <1>1 DEF Unregistered
  <2>3. \A h, q : Honoured(h, q) => Honoured(h, q)'
    BY <1>1 DEF Honoured
  <2>. QED
    BY <2>1, <2>2, <2>3
<1>8. PICK n \in Nat : /\ DOMAIN queue = 1..n /\ DOMAIN queue' = 1..(n + 1)
                       /\ queue'[n + 1] = m /\ \A i \in 1..n : queue'[i] = queue[i]
  <2>1. /\ Len(queue) \in Nat /\ DOMAIN queue = 1..Len(queue)
        /\ DOMAIN queue' = 1..(Len(queue) + 1) /\ queue'[Len(queue) + 1] = m
        /\ \A i \in 1..Len(queue) : queue'[i] = queue[i]
    BY <1>0, <1>1, <1>3 DEF TypeOK
  <2>. QED
    BY <2>1
<1>9. /\ \A i \in 1..n : queue[i].from \in Queues
      /\ \A i \in 1..(n + 1) : i = n + 1 \/ i \in 1..n
  BY <1>0, <1>8, MessageFacts
<1>10. /\ \A q \in Queues : Created(q)' <=> Created(q)
       /\ \A q \in Queues, type \in Types : Awaits(q, type)' <=> Awaits(q, type)
  BY <1>4, QueueFacts, QueueSame
<1>11. QueuesCreated'
  <2>1. Created(from)
    BY <1>0, <1>1, <1>2 DEF QueuesCreated
  <2>2. ASSUME NEW i \in 1..(n + 1), NEW q, q = queue'[i].from PROVE Created(q)'
    <3>1. q \in Queues /\ Created(q)
      BY <1>0, <1>3, <1>8, <1>9, <2>1, <2>2 DEF QueuesCreated
    <3>. QED
      BY <1>10, <3>1
  <2>3. \A q \in Queues : ~Created(q)' => inbox[q] = <<>> /\ Unregistered(q)'
    BY <1>0, <1>7, <1>10 DEF QueuesCreated
  <2>. QED
    BY <1>1, <1>8, <2>2, <2>3 DEF QueuesCreated
<1>12. MessagesHonoured'
  BY <1>0, <1>3, <1>7, <1>8, <1>9 DEF MessagesHonoured
<1>13. ClientsHonoured' /\ RepliesHonoured'
  <2>1. \A d \in Clients :
          /\ Mine(d)' = Mine(d) /\ handle'[d] = handle[d]
          /\ pc'[d] \in {"off", "dead"} <=> pc[d] \in {"off", "dead"}
          /\ \A type \in Types : Waiting(d, type)' <=> Waiting(d, type)
    BY <1>4, ClientSame DEF SamePhase
  <2>2. ClientsHonoured'
    BY <1>0, <1>7, <2>1 DEF ClientsHonoured, Types
  <2>3. RepliesHonoured'
    BY <1>0, <1>1, <1>7, <2>1 DEF RepliesHonoured, Types
  <2>. QED
    BY <2>2, <2>3
<1>14. DeletesLast'
  <2>1. \A q : ~Sender(m, q)
    BY <1>3 DEF Sender
  <2>2. ASSUME NEW i \in 1..(n + 1), queue'[i].type = "delete", NEW q, q = queue'[i].from
        PROVE  Awaits(q, "delete")' /\ \A j \in 1..(n + 1) : j > i => ~Sender(queue'[j], q)
    <3>1. i \in 1..n /\ queue'[i] = queue[i] /\ q \in Queues
      BY <1>3, <1>8, <1>9, <2>2
    <3>2. Awaits(q, "delete") /\ \A j \in 1..n : j > i => ~Sender(queue[j], q)
      BY <1>0, <1>8, <2>2, <3>1 DEF DeletesLast
    <3>3. ASSUME NEW j \in 1..(n + 1), j > i PROVE ~Sender(queue'[j], q)
      BY <1>8, <1>9, <2>1, <3>2, <3>3
    <3>. QED
      BY <1>10, <3>1, <3>2, <3>3 DEF Types
  <2>. QED
    BY <1>1, <1>8, <2>2 DEF DeletesLast
<1>15. \A q \in Queues : Fresh(q) => Fresh(q)' /\ from # q
  <2>1. \A q \in Queues : NoMsg.from # q
    BY QueueFacts DEF NoMsg, Message
  <2>. QED
    BY <1>1, <1>2, <1>7, <2>1 DEF Fresh
<1>16. CreatesFirst'
  <2>1. ASSUME NEW i \in 1..(n + 1), queue'[i].type = "create", NEW q, q = queue'[i].from
        PROVE  Fresh(q)' /\ Awaits(q, "create")'
               /\ \A j \in 1..(n + 1) : queue'[j].from = q => j = i
    <3>1. i \in 1..n /\ queue'[i] = queue[i] /\ q \in Queues
      BY <1>3, <1>8, <1>9, <2>1
    <3>2. Fresh(q) /\ Awaits(q, "create") /\ \A j \in 1..n : queue[j].from = q => j = i
      BY <1>0, <1>8, <2>1, <3>1 DEF CreatesFirst
    <3>3. \A j \in 1..(n + 1) : queue'[j].from = q => j = i
      BY <1>3, <1>8, <1>9, <1>15, <3>1, <3>2
    <3>. QED
      BY <1>10, <1>15, <3>1, <3>2, <3>3 DEF Types
  <2>2. ASSUME NEW d \in Clients, op[d] = "create", pc'[d] # "wait", NEW q, q = Mine(d)
        PROVE  Fresh(q)' /\ \A j \in 1..(n + 1) : queue'[j].from # q
    <3>1. pc[d] # "wait" /\ pc[d] \notin {"off", "dead"}
      BY <1>0, <1>4, <2>2, ClientSame DEF ClientPhase
    <3>2. q \in Queues /\ Fresh(q) /\ \A j \in 1..n : queue[j].from # q
      BY <1>0, <1>8, <2>2, <3>1, MineIsQueue DEF CreatesFirst
    <3>. QED
      BY <1>3, <1>8, <1>9, <1>15, <3>2
  <2>3. \A d \in Clients : Mine(d)' = Mine(d)
    BY <1>4, ClientSame
  <2>. QED
    BY <1>1, <1>8, <2>1, <2>2, <2>3 DEF CreatesFirst
<1>. QED
  BY <1>5, <1>6, <1>7, <1>11, <1>12, <1>13, <1>14, <1>16 DEF IInv

-----------------------------------------------------------------------------
(***************************************************************************)
(* The theorems                                                            *)
(***************************************************************************)

\* The invariant holds at the start.
LEMMA InitIInv == Init => IInv
<1>. SUFFICES ASSUME Init PROVE IInv
  OBVIOUS
<1>. USE DEF Init
<1>1. NoHandle \in Known /\ DOMAIN queue = {} /\ DOMAIN vl_clients = {}
      /\ DOMAIN free_indices = {}
  BY DEF Known
<1>0. conn \in [Clients -> Nat] /\ \A c \in Clients : conn[c] <= MaxConnects[c]
  BY SizesAssumption
<1>2. TypeOK
  <2>1. restarts \in 0..MaxRestarts
    BY EpochsAssumption
  <2>2. /\ queue \in Seq(Requests) /\ inbox \in [Queues -> Seq(Replies)]
        /\ vl_clients \in Seq(Queues \cup {None}) /\ free_indices \in Seq(DOMAIN vl_clients)
    OBVIOUS
  <2>. QED
    BY <1>0, <1>1, <2>1, <2>2 DEF TypeOK
<1>3. ClientPhase
  BY <1>0 DEF ClientPhase
<1>4. PoolExact /\ MessagesHonoured /\ DeletesLast /\ ReplyMatches
  BY <1>1 DEF PoolExact, Confused, MessagesHonoured, DeletesLast, ReplyMatches
<1>5. QueuesCreated
  BY <1>1 DEF QueuesCreated, Unregistered
<1>6. ClientsHonoured /\ RepliesHonoured /\ CreatesFirst
  BY <1>1 DEF ClientsHonoured, RepliesHonoured, CreatesFirst, Waiting
<1>. QED
  BY <1>2, <1>3, <1>4, <1>5, <1>6 DEF IInv

\* A step that changes nothing.
LEMMA StutterIInv ==
  ASSUME IInv, UNCHANGED vars
  PROVE  IInv'
<1>0. TypeOK /\ PoolExact
  BY DEF IInv
<1>1. /\ queue' = queue /\ lost' = lost /\ lost_queues' = lost_queues
      /\ restarts' = restarts /\ inbox' = inbox
      /\ vpp_pc' = vpp_pc /\ vl_clients' = vl_clients /\ free_indices' = free_indices
      /\ msg' = msg /\ out' = out /\ reaped' = reaped
      /\ pc' = pc /\ op' = op /\ conn' = conn /\ handle' = handle
  BY DEF vars, shared, mutexes, vpp, clients
<1>2. TypeOK' /\ ClientPhase'
  BY <1>0, <1>1, SameTypes DEF IInv, TypeOK, ClientPhase
<1>3. /\ PoolExact' /\ ReplyMatches'
      /\ \A q \in Queues : Unregistered(q)' <=> Unregistered(q)
      /\ \A h, q : Honoured(h, q)' <=> Honoured(h, q)
  BY <1>1, PoolSame DEF IInv, vpp
<1>4. /\ \A q, type : Awaits(q, type)' <=> Awaits(q, type)
      /\ \A q : Created(q)' <=> Created(q)
      /\ \A d, type : Waiting(d, type)' <=> Waiting(d, type)
      /\ \A d : Mine(d)' = Mine(d)
  BY <1>1 DEF Awaits, Waiting, Mine, Created
<1>5. QueuesCreated' /\ DeletesLast'
  BY <1>1, <1>3, <1>4 DEF IInv, QueuesCreated, DeletesLast
<1>6. MessagesHonoured' /\ ClientsHonoured' /\ RepliesHonoured'
  BY <1>1, <1>3, <1>4 DEF IInv, MessagesHonoured, ClientsHonoured, RepliesHonoured
<1>7. CreatesFirst'
  BY <1>1, <1>4 DEF IInv, CreatesFirst, Fresh, Unregistered
<1>. QED
  BY <1>2, <1>3, <1>5, <1>6, <1>7 DEF IInv

\* Every step keeps the invariant.
LEMMA NextIInv == IInv /\ [Next]_vars => IInv'
<1>. SUFFICES ASSUME IInv, [Next]_vars PROVE IInv'
  OBVIOUS
<1>1. CASE Serves
  BY <1>1, HandleCreateIInv, HandleOtherIInv, DropsIInv, RepliesToSelfIInv, DumpIInv,
     VppRepliesIInv DEF Serves, Handles
<1>2. CASE Scans
  BY <1>2, ScanIInv, ScanBlocksIInv DEF Scans
<1>3. CASE Crash
  BY <1>3, CrashIInv
<1>4. CASE Restart \/ ComesUp
  BY <1>4, RestartIInv, ComesUpIInv, DrainsIInv DEF ComesUp
<1>5. ASSUME NEW c \in Clients, Client(c) PROVE IInv'
  <2>1. CASE Connect(c)
    BY <2>1, ConnectIInv
  <2>2. CASE Request(c) \/ Disconnect(c)
    BY <2>2, CallIInv
  <2>3. CASE Sends(c)
    BY <2>3, SendSleepsIInv, SendAddsIInv DEF Sends
  <2>4. CASE Receives(c)
    BY <2>4, ReceivesIInv
  <2>5. CASE TimesOut(c) \/ Die(c)
    BY <2>5, TimeoutIInv DEF TimesOut
  <2>. QED
    BY <1>5, <2>1, <2>2, <2>3, <2>4, <2>5 DEF Client
<1>6. CASE UNCHANGED vars
  BY <1>6, StutterIInv
<1>. QED
  BY <1>1, <1>2, <1>3, <1>4, <1>5, <1>6 DEF Next

\* The inductive invariant: who is registered, which handles are still good, and in
\* which order the messages of a connection come, across timeouts, deaths and restarts.
THEOREM IInvHolds == Spec => []IInv
<1>. QED
  BY InitIInv, NextIInv, PTL DEF Spec

\* Messages, answers and handles have their types; in particular the life in a handle
\* is never a later one, so that its epoch, of few bits, tells it.
THEOREM TypeCorrect == Spec => []TypeOK
<1>1. IInv => TypeOK
  BY DEF IInv
<1>. QED
  BY <1>1, IInvHolds, PTL

\* vl_msg_api_send_shmem: the answer goes to the client that asked, for any clients,
\* restarts and reuse of indices, but for a handle taken from a dead client.
THEOREM AnswersGoHome == Spec => []AnswersBelong
<1>1. IInv => AnswersBelong
  BY DEF IInv, ReplyMatches, AnswersBelong
<1>. QED
  BY <1>1, IInvHolds, PTL

\* vl_api_client_index_to_registration_internal finds the registration of every
\* client that still uses its handle, as long as vpp lives; with the same exception.
THEOREM HandlesKept == Spec => []HandlesHonoured
<1>1. ASSUME IInv, NEW c \in Clients, Up, pc[c] \notin {"off", "dead"},
             handle[c].life = restarts, op[c] # "delete"
      PROVE  Registration(handle[c]) = Mine(c) \/ handle[c] \in reaped
  <2>1. Honoured(handle[c], Mine(c)) /\ vpp_pc # "down"
    BY <1>1 DEF IInv, ClientsHonoured, Waiting, Up
  <2>2. CASE handle[c].index \in DOMAIN vl_clients /\ vl_clients[handle[c].index] = Mine(c)
    BY <1>1, <2>2 DEF Registration, vl_msg_api_handle_get_epoch
  <2>. QED
    BY <1>1, <2>1, <2>2 DEF Honoured
<1>2. IInv => HandlesHonoured
  BY <1>1 DEF HandlesHonoured
<1>. QED
  BY <1>2, IInvHolds, PTL
=============================================================================
