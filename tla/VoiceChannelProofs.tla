------------------------- MODULE VoiceChannelProofs -------------------------
(***************************************************************************)
(* Proofs about VoiceChannel, for any number of clients, source ids, tasks *)
(* and addresses, and any queue capacity.                                  *)
(***************************************************************************)
EXTENDS VoiceChannel, TLAPS

-----------------------------------------------------------------------------
(* Type correctness *)

(* What the Forwarder does next is well typed. *)
LEMMA DoingType ==
    ASSUME NEW op \in Ops, NEW t \in Tasks \cup {None},
           NEW a \in Addrs \cup {None}, NEW k \in Packets \cup {None}
    PROVE  Doing(op, t, a, k) \in Forwarder
BY DEF Doing, Forwarder, Replies

(* Back in its select loop, the Forwarder's state is well typed. *)
LEMMA SelectType == Select \in Forwarder
BY DoingType DEF Select, Ops, Asking

(* The initial state is well typed. *)
LEMMA InitTypeOK == Init => TypeOK
BY SelectType, MsgCapPositive
DEF Init, TypeOK, NoListing, Listing, TaskStates

(* What an answering voice task leaves the Forwarder with is well typed. *)
LEMMA AnswerType ==
    ASSUME TypeOK, NEW r \in Replies, Answer(r)
    PROVE  fwd' \in Forwarder
BY DEF TypeOK, Answer, Forwarder

(* A voice task that ends leaves everything well typed. *)
LEMMA FinishType ==
    ASSUME TypeOK, NEW t \in Tasks, Finish(t), fwd' \in Forwarder
    PROVE  TypeOK'
<1>1. mbox' \in [Tasks -> Seq(Packet)] /\ \A u \in Tasks : Len(mbox'[u]) <= MsgCap
  BY MsgCapPositive DEF TypeOK, Finish
<1>2. /\ state \in [Tasks -> TaskStates]
      /\ state' = [state EXCEPT ![t] = "done"]
      /\ due \subseteq Tasks
      /\ due' = due \ {t}
  BY DEF TypeOK, Finish
<1>3. UNCHANGED <<connections, client_id_to_src_id, tasks, owner, source_id,
                  peer_addr, listing, armed, handles>>
  BY DEF Finish, tables
<1> QED BY <1>1, <1>2, <1>3 DEF TypeOK, TaskStates

(* Asking the next voice task of a listing keeps the types. *)
LEMMA AskNextType ==
    ASSUME TypeOK,
           NEW todo \in SUBSET (Clients \X SrcIds),
           NEW found \in SUBSET (Clients \X (SrcIds \cup {None})),
           \A p \in todo : Present(p[2]),
           AskNext(todo, found)
    PROVE  fwd' \in Forwarder /\ listing' \in Listing /\ armed' \in BOOLEAN
<1>1. listing' \in Listing
  BY DEF AskNext, Listing
<1>2. "peers" \in Ops
  BY DEF Ops, Asking
<1>3. CASE todo = {}
  <2>1. fwd' = Doing("peers", None, None, None) /\ UNCHANGED armed
    BY <1>3 DEF AskNext, Ask
  <2>2. fwd' \in Forwarder
    BY <1>2, <2>1, DoingType
  <2> QED BY <1>1, <2>1, <2>2 DEF TypeOK
<1>4. CASE todo # {}
  <2>1. PICK p \in todo : Ask("peers", connections[p[2]].task, None)
    BY <1>4 DEF AskNext
  <2>2. p[2] \in SrcIds /\ connections[p[2]] # None
    BY <2>1 DEF Present
  <2>3. connections[p[2]].task \in Tasks
    BY <2>2 DEF TypeOK, Conn
  <2> QED BY <1>1, <1>2, <2>1, <2>3, DoingType DEF Ask, TypeOK
<1> QED BY <1>3, <1>4

(* Every step of the channel keeps every variable's type, and with it the
   bound on the packet queues.                                               *)
LEMMA NextTypeOK == TypeOK /\ ForwarderKnows /\ [Next]_vars => TypeOK'
<1> SUFFICES ASSUME TypeOK, ForwarderKnows, [Next]_vars PROVE TypeOK'
  OBVIOUS
<1>1. ASSUME NEW c \in Clients, OpenConnection(c) PROVE TypeOK'
  <2>1. PICK t \in Tasks \ (tasks \cup ConnTasks), s \in SrcIds :
          /\ state' = [state EXCEPT ![t] = "waiting"]
          /\ owner' = [owner EXCEPT ![t] = c]
          /\ source_id' = [source_id EXCEPT ![t] = s]
          /\ tasks' = tasks \cup {t}
          /\ connections' =
               [connections EXCEPT ![s] = [task |-> t, addr |-> None]]
          /\ client_id_to_src_id' = [client_id_to_src_id EXCEPT ![c] = s]
          /\ NextIteration(tasks \cup {t})
    BY <1>1 DEF OpenConnection
  <2>2. UNCHANGED <<peer_addr, due, mbox, listing, handles>>
    BY <1>1 DEF OpenConnection
  <2>3. connections' \in [SrcIds -> Conn \cup {None}]
    BY <2>1 DEF TypeOK, Conn
  <2>4. fwd' \in Forwarder /\ armed' \in BOOLEAN
    BY <2>1, SelectType DEF NextIteration
  <2> QED BY <2>1, <2>2, <2>3, <2>4 DEF TypeOK, TaskStates, Running
<1>2. ASSUME NEW c \in Clients, Known(c), ConnOf(c) # None
      PROVE  client_id_to_src_id[c] \in SrcIds /\ ConnOf(c) \in Conn
                /\ ConnOf(c).task \in Tasks
  BY <1>2 DEF Known, ConnOf, TypeOK, Conn
<1>3. ASSUME NEW c \in Clients, NEW a \in Addrs, Establish(c, a) PROVE TypeOK'
  <2>1. /\ client_id_to_src_id[c] \in SrcIds
        /\ ConnOf(c) \in Conn
        /\ ConnOf(c).task \in Tasks
    BY <1>2, <1>3 DEF Establish
  <2>2. connections' \in [SrcIds -> Conn \cup {None}]
    BY <1>3, <2>1 DEF Establish, TypeOK, Conn, ConnOf
  <2>3. fwd' \in Forwarder /\ UNCHANGED armed
    BY <1>3, <2>1, DoingType DEF Establish, Ask, Ops, Asking
  <2> QED BY <1>3, <2>2, <2>3 DEF Establish, TypeOK, taskVars
<1>4. ASSUME NEW c \in Clients, Leave(c) \/ Status(c) PROVE TypeOK'
  <2>1. ConnOf(c).task \in Tasks
    BY <1>2, <1>4 DEF Leave, Status
  <2>2. fwd' \in Forwarder /\ UNCHANGED armed
    BY <1>4, <2>1, DoingType DEF Leave, Status, Ask, Ops, Asking
  <2> QED BY <1>4, <2>2 DEF Leave, Status, TypeOK, taskVars, tables
<1>5. CASE Peers
  <2>1. Zipped \in SUBSET (Clients \X SrcIds) /\ \A p \in Zipped : Present(p[2])
    BY DEF Zipped
  <2>2. fwd' \in Forwarder /\ listing' \in Listing /\ armed' \in BOOLEAN
    BY <1>5, <2>1, AskNextType DEF Peers
  <2> QED BY <1>5, <2>2 DEF Peers, TypeOK, taskVars, tables
<1>6. CASE PeersNext
  <2>1. PICK p \in listing.todo :
          AskNext(listing.todo \ {p},
                  listing.found \cup
                    (IF fwd.reply = "peered"
                     THEN {<<p[1], source_id[connections[p[2]].task]>>}
                     ELSE {}))
    BY <1>6 DEF PeersNext
  <2>2. /\ listing.todo \subseteq Clients \X SrcIds
        /\ listing.found \subseteq Clients \X (SrcIds \cup {None})
    BY DEF TypeOK, Listing
  <2>3. p[1] \in Clients /\ p[2] \in SrcIds /\ connections[p[2]] # None
    BY <2>1, <2>2 DEF ForwarderKnows, Present
  <2>4. source_id[connections[p[2]].task] \in SrcIds \cup {None}
    BY <2>3 DEF TypeOK, Conn
  <2>5. fwd' \in Forwarder /\ listing' \in Listing /\ armed' \in BOOLEAN
    BY <2>1, <2>2, <2>3, <2>4, AskNextType DEF ForwarderKnows
  <2> QED BY <1>6, <2>5 DEF PeersNext, TypeOK, taskVars, tables
<1>7. CASE PeersReturn
  BY <1>7, SelectType
  DEF PeersReturn, TypeOK, NoListing, Listing, NextIteration, taskVars, tables
<1>8. CASE Resume
  BY <1>8, SelectType DEF Resume, TypeOK, NextIteration, taskVars, tables
<1>9. ASSUME NEW s \in SrcIds, NEW a \in Addrs, NEW k \in Packets,
             RecvPacket(s, a, k)
      PROVE  TypeOK'
  <2>1. connections[s].task \in Tasks
    BY <1>9 DEF RecvPacket, Present, TypeOK, Conn
  <2>2. fwd' \in Forwarder
    BY <1>9, <2>1, DoingType DEF RecvPacket, Ops
  <2> QED BY <1>9, <2>2 DEF RecvPacket, TypeOK, taskVars, tables
<1>10. CASE Deliver
  <2>1. fwd' \in Forwarder /\ armed' \in BOOLEAN
    BY <1>10, SelectType DEF Deliver, NextIteration
  <2>2. CASE UNCHANGED mbox
    BY <1>10, <2>1, <2>2 DEF Deliver, TypeOK, tables
  <2>3. CASE mbox' # mbox
    <3> DEFINE t == fwd.task
               m == [kind |-> fwd.kind, from |-> fwd.addr]
    <3>1. /\ mbox' = [mbox EXCEPT ![t] = Append(@, m)]
          /\ HasRoom(t)
      BY <1>10, <2>3 DEF Deliver
    <3>2. t \in Tasks /\ m \in Packet
      BY <1>10 DEF Deliver, ForwarderKnows, Packet
    <3>3. mbox[t] \in Seq(Packet) /\ Len(mbox[t]) < MsgCap
      BY <3>1, <3>2 DEF HasRoom, TypeOK
    <3>4. /\ Append(mbox[t], m) \in Seq(Packet)
          /\ Len(Append(mbox[t], m)) <= MsgCap
      BY <3>2, <3>3, MsgCapPositive
    <3>5. /\ mbox' \in [Tasks -> Seq(Packet)]
          /\ \A u \in Tasks : Len(mbox'[u]) <= MsgCap
      BY <3>1, <3>2, <3>4 DEF TypeOK
    <3> QED BY <1>10, <2>1, <3>5 DEF Deliver, TypeOK, tables
  <2> QED BY <2>2, <2>3
<1>11. ASSUME NEW t \in Tasks, Reap(t) PROVE TypeOK'
  <2>1. /\ client_id_to_src_id' \in [Clients -> SrcIds \cup {None}]
        /\ connections' \in [SrcIds -> Conn \cup {None}]
    <3>1. CASE Known(owner[t])
      BY <1>11, <3>1 DEF Reap, ForgetTask, TypeOK
    <3>2. CASE ~Known(owner[t])
      BY <1>11, <3>2 DEF Reap, ForgetTask, TypeOK, tables
    <3> QED BY <3>1, <3>2
  <2>2. fwd' \in Forwarder /\ armed' \in BOOLEAN
    BY <1>11, SelectType DEF Reap, NextIteration
  <2>3. /\ tasks' \subseteq Tasks
        /\ state' \in [Tasks -> TaskStates]
        /\ owner' \in [Tasks -> Clients \cup {None}]
        /\ source_id' \in [Tasks -> SrcIds \cup {None}]
        /\ peer_addr' \in [Tasks -> Addrs \cup {None}]
    BY <1>11 DEF Reap, TypeOK, TaskStates
  <2> QED BY <1>11, <2>1, <2>2, <2>3 DEF Reap, TypeOK
<1>12. ASSUME IdleTimeout \/ DropHandles \/ ControlClosed \/ NotifySent PROVE TypeOK'
  <2>1. Doing("notify", None, None, None) \in Forwarder
    BY DoingType DEF Ops
  <2>2. Doing("ended", None, None, None) \in Forwarder
    BY DoingType DEF Ops
  <2>3. NoListing \in Listing
    BY DEF NoListing, Listing
  <2>4. CASE IdleTimeout
    BY <2>1, <2>3, <2>4 DEF IdleTimeout, TypeOK, taskVars, tables
  <2>5. CASE DropHandles
    BY <2>5 DEF DropHandles, TypeOK, taskVars, tables
  <2>6. CASE ControlClosed
    BY <2>1, <2>6 DEF ControlClosed, TypeOK, taskVars, tables
  <2>7. CASE NotifySent
    BY <2>2, <2>7 DEF NotifySent, TypeOK, taskVars
  <2> QED BY <1>12, <2>4, <2>5, <2>6, <2>7
<1>13. ASSUME NEW t \in Tasks, TaskInit(t) PROVE TypeOK'
  <2>1. fwd' \in Forwarder
    BY <1>13, AnswerType DEF TaskInit, Replies
  <2>2. state' \in [Tasks -> TaskStates] /\ peer_addr' \in [Tasks -> Addrs \cup {None}]
    BY <1>13 DEF TaskInit, TypeOK, TaskStates, Running, Forwarder
  <2> QED BY <1>13, <2>1, <2>2 DEF TaskInit, TypeOK, tables
<1>14. ASSUME NEW t \in Tasks, TaskStatus(t) PROVE TypeOK'
  <2>1. fwd' \in Forwarder
    BY <1>14, AnswerType DEF TaskStatus, Replies
  <2> QED BY <1>14, <2>1 DEF TaskStatus, TypeOK, taskVars, tables
<1>15. ASSUME NEW t \in Tasks, TaskStop(t) PROVE TypeOK'
  <2>1. fwd' \in Forwarder
    BY <1>15, AnswerType DEF TaskStop, Replies
  <2> QED BY <1>15, <2>1, FinishType DEF TaskStop
<1>16. ASSUME NEW t \in Tasks,
              InitTimeout(t) \/ KeepAliveElapsed(t) \/ RelayFails(t) \/ Orphaned(t)
       PROVE  TypeOK'
  <2>1. Finish(t) /\ fwd' \in Forwarder
    BY <1>16 DEF InitTimeout, KeepAliveElapsed, RelayFails, Orphaned, TypeOK
  <2> QED BY <2>1, FinishType
<1>17. ASSUME NEW t \in Tasks, DeadlinePasses(t) PROVE TypeOK'
  BY <1>17 DEF DeadlinePasses, TypeOK, tables
<1>18. ASSUME NEW t \in Tasks, TaskPacket(t) PROVE TypeOK'
  <2>1. fwd' \in Forwarder
    BY <1>18 DEF TaskPacket, TypeOK
  <2>2. CASE Finish(t)
    BY <2>1, <2>2, FinishType
  <2>3. CASE /\ mbox' = [mbox EXCEPT ![t] = Tail(@)]
             /\ due' = IF Head(mbox[t]).kind = "ping" THEN due \ {t} ELSE due
             /\ UNCHANGED <<tables, tasks, state, owner, source_id, peer_addr,
                            listing, armed, handles>>
    <3>1. mbox[t] \in Seq(Packet) /\ mbox[t] # <<>> /\ Len(mbox[t]) <= MsgCap
      BY <1>18 DEF TaskPacket, TypeOK
    <3>2. Tail(mbox[t]) \in Seq(Packet) /\ Len(Tail(mbox[t])) <= MsgCap
      BY <3>1, MsgCapPositive
    <3>3. /\ mbox' \in [Tasks -> Seq(Packet)]
          /\ \A u \in Tasks : Len(mbox'[u]) <= MsgCap
      BY <2>3, <3>2 DEF TypeOK
    <3>4. due' \subseteq Tasks
      BY <2>3 DEF TypeOK
    <3> QED BY <2>1, <2>3, <3>3, <3>4 DEF TypeOK, tables
  <2> QED BY <1>18, <2>2, <2>3 DEF TaskPacket
<1>19. CASE UNCHANGED vars
  BY <1>19 DEF vars, TypeOK
<1> QED
  BY <1>1, <1>3, <1>4, <1>5, <1>6, <1>7, <1>8, <1>9, <1>10, <1>11, <1>12,
     <1>13, <1>14, <1>15, <1>16, <1>17, <1>18, <1>19
  DEF Next, ControlRequest, SocketPacket, ForwarderStep, TaskStep, TaskTimer

-----------------------------------------------------------------------------
(* The inductive invariant *)

(* No random source id collides with one that is in use. *)
NoCollision == "collide" \notin Allowed

(* Nothing is tracked, asked or bound at the start. *)
LEMMA InitIInv == Init => IInv
<1> SUFFICES ASSUME Init PROVE IInv
  OBVIOUS
<1>1. TypeOK
  BY InitTypeOK
<1>2. Spawned /\ ForwarderKnows /\ ConnTracked /\ EntryTracked /\ RunningTracked
  BY DEF Init, Spawned, ForwarderKnows, ConnTracked, EntryTracked,
         RunningTracked, Select, Doing, NoListing, Known
<1>3. BoundIsTold /\ TimeoutSet
  BY DEF Init, BoundIsTold, TimeoutSet, Select, Doing, Present
<1> QED BY <1>1, <1>2, <1>3 DEF IInv

(* Steps that leave the tables, the tasks and whom they serve alone. *)
LEMMA TablesKept ==
    ASSUME IInv, UNCHANGED <<tables, tasks, state, owner, source_id>>
    PROVE  Spawned' /\ ConnTracked' /\ EntryTracked'
BY DEF IInv, Spawned, ConnTracked, EntryTracked, tables, Present, Known, ConnOf

(* The connection that a client's entry leads to, and its task. *)
LEMMA EntryLeads ==
    ASSUME IInv, NEW c \in Clients, Known(c)
    PROVE  /\ client_id_to_src_id[c] \in SrcIds
           /\ ConnOf(c) # None
           /\ ConnOf(c) \in Conn
           /\ ConnOf(c).task \in Tasks
           /\ ConnOf(c).task \in tasks
BY DEF IInv, TypeOK, EntryTracked, Known, Present, ConnOf, Conn

(* The Forwarder asks a task one thing: nothing but its own state changes. *)
LEMMA AskKeeps ==
    ASSUME IInv, fwd.op = "select", NEW op \in {"init", "status", "stop"},
           NEW t \in Tasks, NEW a, Ask(op, t, a),
           UNCHANGED <<tasks, state, listing, handles>>
    PROVE  ForwarderKnows' /\ RunningTracked' /\ TimeoutSet'
BY DEF IInv, ForwarderKnows, RunningTracked, TimeoutSet, Ask, Doing

(* The Forwarder is back in its loop, no request pending. *)
LEMMA IterationKeeps ==
    ASSUME IInv, fwd.op \notin {"notify", "ended"}, NextIteration(tasks),
           listing'.todo = {}, UNCHANGED <<tables, tasks, state, handles>>
    PROVE  ForwarderKnows' /\ RunningTracked' /\ TimeoutSet'
BY DEF IInv, ForwarderKnows, RunningTracked, TimeoutSet, NextIteration,
       Select, Doing

(* The Forwarder asks the next task of a listing, or is through with it. *)
LEMMA AskNextKeeps ==
    ASSUME IInv, fwd.op \in {"select", "peers"}, NEW todo, NEW found,
           \A p \in todo : Present(p[2]), AskNext(todo, found),
           UNCHANGED <<tables, tasks, state, handles>>
    PROVE  /\ ForwarderKnows' /\ RunningTracked' /\ TimeoutSet'
           /\ fwd'.op = "peers"
<1>1. /\ listing'.todo = todo
      /\ fwd'.op = "peers"
      /\ UNCHANGED armed
  BY DEF AskNext, Ask, Doing
<1>2. ForwarderKnows'
  BY <1>1 DEF ForwarderKnows, Present, tables
<1>3. RunningTracked' /\ TimeoutSet'
  BY <1>1 DEF IInv, RunningTracked, TimeoutSet
<1> QED BY <1>1, <1>2, <1>3

(* A running voice task ends: its client's entry and its connection stay. *)
LEMMA FinishKeeps ==
    ASSUME IInv, NEW t \in Tasks, state[t] \in Running, Finish(t),
           \/ UNCHANGED fwd
           \/ fwd.op = "stop" /\ fwd.task = t /\ Answer("stopped")
    PROVE  /\ Spawned' /\ ForwarderKnows'
           /\ ConnTracked' /\ EntryTracked' /\ RunningTracked'
           /\ BoundIsTold' /\ TimeoutSet'
<1>1. /\ state' = [state EXCEPT ![t] = "done"]
      /\ mbox' = [mbox EXCEPT ![t] = <<>>]
      /\ state \in [Tasks -> TaskStates] /\ mbox \in [Tasks -> Seq(Packet)]
      /\ state[t] # "free"
      /\ UNCHANGED <<connections, client_id_to_src_id, tasks, owner, source_id,
                     listing, armed, handles>>
  BY DEF IInv, TypeOK, Finish, tables, Running
<1>2. /\ fwd'.op = fwd.op /\ fwd'.task = fwd.task
      /\ fwd'.addr = fwd.addr /\ fwd'.kind = fwd.kind
      /\ fwd'.reply = fwd.reply \/ fwd.op = "stop"
  BY DEF IInv, TypeOK, Answer, Forwarder
<1>3. Spawned' /\ RunningTracked'
  BY <1>1, <1>2 DEF IInv, Spawned, RunningTracked
<1>4. ForwarderKnows'
  BY <1>1, <1>2 DEF IInv, ForwarderKnows, Present
<1>5. ConnTracked' /\ EntryTracked'
  BY <1>1 DEF IInv, TypeOK, ConnTracked, EntryTracked, Present, Known, ConnOf
<1>6. BoundIsTold'
  <2>1. ASSUME NEW s \in SrcIds, Present(s)
        PROVE  connections[s].task \in Tasks
    BY <2>1 DEF IInv, TypeOK, Conn, Present
  <2> QED BY <1>1, <1>2, <2>1 DEF IInv, BoundIsTold, Present
<1>7. TimeoutSet'
  BY <1>1, <1>2 DEF IInv, TimeoutSet
<1> QED BY <1>3, <1>4, <1>5, <1>6, <1>7

(* A connection opened under a fresh source id, for a fresh task, leads to
   that task, and no other task's or client's connection is touched.         *)
LEMMA OpenKeeps ==
    ASSUME NoCollision, IInv, NEW c \in Clients, OpenConnection(c), TypeOK'
    PROVE  IInv'
<1>1. PICK t \in Tasks \ (tasks \cup ConnTasks), s \in SrcIds :
        /\ state[t] = "free"
        /\ ~Present(s)
        /\ state' = [state EXCEPT ![t] = "waiting"]
        /\ owner' = [owner EXCEPT ![t] = c]
        /\ source_id' = [source_id EXCEPT ![t] = s]
        /\ tasks' = tasks \cup {t}
        /\ connections' =
             [connections EXCEPT ![s] = [task |-> t, addr |-> None]]
        /\ client_id_to_src_id' = [client_id_to_src_id EXCEPT ![c] = s]
        /\ NextIteration(tasks \cup {t})
  BY DEF OpenConnection, NoCollision
<1>2. /\ fwd.op = "select"
      /\ UNCHANGED <<mbox, listing, handles>>
      /\ fwd' = Select
      /\ armed' = FALSE
  BY <1>1 DEF OpenConnection, AcceptsRequests, NextIteration
<1>3. t \notin tasks /\ \A r \in SrcIds : Present(r) => connections[r].task # t
  BY <1>1 DEF ConnTasks
<1>3a. connections'[s] # None /\ connections'[s].task = t
  <2>1. [task |-> t, addr |-> None] \in Conn
    BY <1>1 DEF Conn
  <2> QED BY <1>1, <2>1, NoneIsNoConn DEF IInv, TypeOK
<1>4. ConnTracked'
  <2> SUFFICES ASSUME NEW u \in tasks'
               PROVE  /\ state'[u] # "free"
                      /\ connections'[source_id'[u]] # None
                      /\ connections'[source_id'[u]].task = u
    BY DEF ConnTracked, Present
  <2>1. CASE u = t
    BY <1>1, <1>3a, <2>1 DEF IInv, TypeOK
  <2>2. CASE u # t
    <3>1. u \in tasks /\ u \in Tasks
      BY <1>1, <2>2 DEF IInv, TypeOK
    <3>2. /\ state[u] # "free"
          /\ source_id[u] \in SrcIds
          /\ connections[source_id[u]] # None
          /\ connections[source_id[u]].task = u
      BY <3>1 DEF IInv, ConnTracked, Spawned, Present
    <3>3. source_id[u] # s
      BY <1>1, <3>2 DEF Present
    <3> QED BY <1>1, <2>2, <3>1, <3>2, <3>3 DEF IInv, TypeOK
  <2> QED BY <2>1, <2>2
<1>5. EntryTracked'
  <2> SUFFICES ASSUME NEW d \in Clients, client_id_to_src_id'[d] # None
               PROVE  LET r == client_id_to_src_id'[d]
                      IN  /\ connections'[r] # None
                          /\ connections'[r].task \in tasks'
                          /\ owner'[connections'[r].task] = d
                          /\ source_id'[connections'[r].task] = r
    BY DEF EntryTracked, Known, ConnOf, Present
  <2>1. CASE d = c
    BY <1>1, <1>3a, <2>1 DEF IInv, TypeOK
  <2>2. CASE d # c
    <3>1. client_id_to_src_id'[d] = client_id_to_src_id[d] /\ Known(d)
      BY <1>1, <2>2 DEF IInv, TypeOK, Known
    <3> DEFINE r == client_id_to_src_id[d]
    <3>2. /\ r \in SrcIds /\ Present(r)
          /\ connections[r].task \in tasks /\ connections[r].task \in Tasks
          /\ owner[connections[r].task] = d
          /\ source_id[connections[r].task] = r
      BY <3>1, EntryLeads DEF IInv, EntryTracked, ConnOf
    <3>3. r # s /\ connections[r].task # t
      BY <1>1, <1>3, <3>2
    <3>4. connections'[r] = connections[r]
      BY <1>1, <3>2, <3>3 DEF IInv, TypeOK
    <3> QED BY <1>1, <3>1, <3>2, <3>3, <3>4 DEF IInv, TypeOK, Present
  <2> QED BY <2>1, <2>2
<1>6. Spawned' /\ RunningTracked'
  BY <1>1, <1>2 DEF IInv, TypeOK, Spawned, RunningTracked
<1>7. ForwarderKnows' /\ TimeoutSet'
  BY <1>2 DEF IInv, ForwarderKnows, TimeoutSet, Select, Doing
<1>8. BoundIsTold'
  <2>1. ASSUME NEW r \in SrcIds, connections'[r] # None,
               connections'[r].addr # None
        PROVE  state'[connections'[r].task] # "waiting"
    <3>1. r # s /\ connections'[r] = connections[r]
      BY <1>1, <2>1 DEF IInv, TypeOK
    <3>2. Present(r) /\ connections[r].addr # None /\ connections[r].task \in Tasks
      BY <2>1, <3>1 DEF IInv, TypeOK, Present, Conn
    <3> QED BY <1>1, <1>2, <1>3, <3>1, <3>2 DEF IInv, TypeOK, BoundIsTold
  <2>2. \A u \in Tasks : state'[u] # "peered" => mbox'[u] = <<>>
    BY <1>1, <1>2 DEF IInv, TypeOK, BoundIsTold
  <2> QED BY <2>1, <2>2 DEF BoundIsTold, Present
<1> QED BY <1>4, <1>5, <1>6, <1>7, <1>8 DEF IInv

(* Binding a connection to an address keeps its task, and the task is being
   told of it.                                                              *)
LEMMA EstablishKeeps ==
    ASSUME IInv, NEW c \in Clients, NEW a \in Addrs, Establish(c, a), TypeOK'
    PROVE  IInv'
<1> DEFINE s == client_id_to_src_id[c]
<1>1. s \in SrcIds /\ connections[s] \in Conn /\ connections[s].task \in Tasks
  BY EntryLeads DEF Establish, ConnOf
<1>2. /\ fwd.op = "select"
      /\ connections' = [connections EXCEPT ![s].addr = a]
      /\ Ask("init", connections[s].task, a)
      /\ UNCHANGED <<client_id_to_src_id, tasks, state, owner, source_id, mbox,
                     listing, handles>>
  BY DEF Establish, AcceptsRequests, ConnOf, taskVars
<1>3. \A r \in SrcIds :
        /\ connections'[r] # None <=> connections[r] # None
        /\ connections[r] # None => connections'[r].task = connections[r].task
        /\ r # s => connections'[r] = connections[r]
  <2>1. connections \in [SrcIds -> Conn \cup {None}] /\ connections[s] # None
    BY DEF IInv, TypeOK, Establish, ConnOf
  <2>2. [connections[s] EXCEPT !.addr = a] \in Conn
    BY <1>1 DEF Conn
  <2>3. /\ connections'[s] = [connections[s] EXCEPT !.addr = a]
        /\ \A r \in SrcIds \ {s} : connections'[r] = connections[r]
    BY <1>1, <1>2, <2>1
  <2>4. connections'[s] # None /\ connections'[s].task = connections[s].task
    BY <1>1, <2>2, <2>3, NoneIsNoConn DEF Conn
  <2> QED BY <2>1, <2>3, <2>4
<1>4. Spawned' /\ ConnTracked'
  BY <1>2, <1>3 DEF IInv, TypeOK, Spawned, ConnTracked, Present
<1>5. EntryTracked'
  <2> SUFFICES ASSUME NEW d \in Clients, client_id_to_src_id'[d] # None
               PROVE  LET r == client_id_to_src_id'[d]
                      IN  /\ connections'[r] # None
                          /\ connections'[r].task \in tasks'
                          /\ owner'[connections'[r].task] = d
                          /\ source_id'[connections'[r].task] = r
    BY DEF EntryTracked, Known, ConnOf, Present
  <2>1. client_id_to_src_id'[d] = client_id_to_src_id[d] /\ Known(d)
    BY <1>2 DEF Known
  <2> QED BY <1>2, <1>3, <2>1, EntryLeads DEF IInv, EntryTracked, ConnOf, Present
<1>6. ForwarderKnows' /\ RunningTracked' /\ TimeoutSet'
  BY <1>1, <1>2, AskKeeps
<1>7. BoundIsTold'
  <2>1. ASSUME NEW r \in SrcIds, connections'[r] # None,
               connections'[r].addr # None, r # s
        PROVE  state'[connections'[r].task] # "waiting"
    BY <1>2, <1>3, <2>1 DEF IInv, BoundIsTold, Present
  <2>2. /\ fwd'.op = "init"
        /\ fwd'.task = connections'[s].task
        /\ fwd'.reply = None
    BY <1>1, <1>2, <1>3 DEF Ask, Doing, Establish, ConnOf
  <2> QED BY <1>2, <2>1, <2>2 DEF IInv, BoundIsTold, Present
<1> QED BY <1>4, <1>5, <1>6, <1>7 DEF IInv

(* A reaped task takes its own connection along and, if its client was not
   given another, the entry leading to it; every other task keeps its own.   *)
LEMMA ReapKeeps ==
    ASSUME IInv, NEW t \in Tasks, Reap(t), TypeOK'
    PROVE  IInv'
<1> DEFINE s == source_id[t]
           o == owner[t]
<1>1. /\ fwd.op = "select"
      /\ t \in tasks
      /\ state[t] = "done"
      /\ tasks' = tasks \ {t}
      /\ ForgetTask(t)
      /\ state' = [state EXCEPT ![t] = "free"]
      /\ owner' = [owner EXCEPT ![t] = None]
      /\ source_id' = [source_id EXCEPT ![t] = None]
      /\ fwd' = Select
      /\ armed' = (tasks \ {t} = {})
      /\ UNCHANGED <<mbox, listing, handles>>
  BY DEF Reap, NextIteration
<1>2. /\ s \in SrcIds /\ o \in Clients
      /\ connections[s] # None /\ connections[s].task = t
  BY <1>1 DEF IInv, Spawned, ConnTracked, Present
<1>3. ASSUME NEW r \in SrcIds, r # s PROVE connections'[r] = connections[r]
  BY <1>1, <1>3 DEF ForgetTask, IInv, TypeOK, tables
<1>4. ASSUME NEW r \in SrcIds, connections'[r] # None
      PROVE  connections'[r] = connections[r]
  BY <1>1, <1>2, <1>4 DEF ForgetTask, IInv, TypeOK, tables
<1>5. ConnTracked'
  <2> SUFFICES ASSUME NEW u \in tasks'
               PROVE  /\ state'[u] # "free"
                      /\ connections'[source_id'[u]] # None
                      /\ connections'[source_id'[u]].task = u
    BY DEF ConnTracked, Present
  <2>1. u \in tasks /\ u \in Tasks /\ u # t
    BY <1>1 DEF IInv, TypeOK
  <2>2. /\ state[u] # "free" /\ source_id[u] \in SrcIds
        /\ connections[source_id[u]] # None
        /\ connections[source_id[u]].task = u
    BY <2>1 DEF IInv, ConnTracked, Spawned, Present
  <2>3. source_id[u] # s
    BY <1>2, <2>1, <2>2
  <2> QED BY <1>1, <1>3, <2>1, <2>2, <2>3 DEF IInv, TypeOK
<1>6. EntryTracked'
  <2> SUFFICES ASSUME NEW d \in Clients, client_id_to_src_id'[d] # None
               PROVE  LET r == client_id_to_src_id'[d]
                      IN  /\ connections'[r] # None
                          /\ connections'[r].task \in tasks'
                          /\ owner'[connections'[r].task] = d
                          /\ source_id'[connections'[r].task] = r
    BY DEF EntryTracked, Known, ConnOf, Present
  <2> DEFINE r == client_id_to_src_id[d]
             u == connections[r].task
  <2>1. client_id_to_src_id'[d] = r /\ r # None /\ ~(d = o /\ r = s)
    BY <1>1, <1>2 DEF ForgetTask, Known, IInv, TypeOK, tables
  <2>2. /\ r \in SrcIds /\ connections[r] # None
        /\ u \in tasks /\ u \in Tasks
        /\ owner[u] = d /\ source_id[u] = r
    BY <2>1, EntryLeads DEF IInv, EntryTracked, Known, ConnOf, Present
  <2>3. u # t
    BY <2>1, <2>2
  <2>4. r # s
    BY <1>2, <2>2, <2>3
  <2> QED BY <1>1, <1>3, <2>1, <2>2, <2>3, <2>4 DEF IInv, TypeOK
<1>7. Spawned' /\ RunningTracked'
  BY <1>1 DEF IInv, TypeOK, Spawned, RunningTracked
<1>8. ForwarderKnows' /\ TimeoutSet'
  BY <1>1 DEF IInv, ForwarderKnows, TimeoutSet, Select, Doing
<1>9. BoundIsTold'
  <2>1. ASSUME NEW r \in SrcIds, connections'[r] # None,
               connections'[r].addr # None
        PROVE  state'[connections'[r].task] # "waiting"
    <3>1. connections'[r] = connections[r] /\ connections[r].task \in Tasks
      BY <1>4, <2>1 DEF IInv, TypeOK, Conn
    <3> QED BY <1>1, <2>1, <3>1 DEF IInv, TypeOK, BoundIsTold, Present
  <2>2. \A u \in Tasks : state'[u] # "peered" => mbox'[u] = <<>>
    BY <1>1 DEF IInv, TypeOK, BoundIsTold
  <2> QED BY <2>1, <2>2 DEF BoundIsTold, Present
<1> QED BY <1>5, <1>6, <1>7, <1>8, <1>9 DEF IInv

(* Every step keeps the bookkeeping right, if no source id collides with one
   in use: one case per action, and per action the parts that it disturbs.   *)
LEMMA NextIInv == NoCollision /\ IInv /\ [Next]_vars => IInv'
<1> SUFFICES ASSUME NoCollision, IInv, [Next]_vars PROVE IInv'
  OBVIOUS
<1>0. TypeOK'
  BY NextTypeOK DEF IInv
<1>1. ASSUME NEW c \in Clients, OpenConnection(c) PROVE IInv'
  BY <1>0, <1>1, OpenKeeps
<1>2. ASSUME NEW c \in Clients, NEW a \in Addrs, Establish(c, a) PROVE IInv'
  BY <1>0, <1>2, EstablishKeeps
<1>3. ASSUME NEW c \in Clients, Leave(c) \/ Status(c) PROVE IInv'
  <2>1. /\ fwd.op = "select"
        /\ ConnOf(c).task \in Tasks
        /\ UNCHANGED <<tables, tasks, state, owner, source_id, mbox, listing, handles>>
    BY <1>3, EntryLeads DEF Leave, Status, AcceptsRequests, taskVars
  <2>2. ForwarderKnows' /\ RunningTracked' /\ TimeoutSet'
    BY <1>3, <2>1, AskKeeps DEF Leave, Status
  <2>3. BoundIsTold'
    BY <2>1 DEF IInv, BoundIsTold, Present, tables
  <2> QED BY <1>0, <2>1, <2>2, <2>3, TablesKept DEF IInv
<1>4. CASE Peers
  <2>1. /\ fwd.op = "select"
        /\ UNCHANGED <<tables, tasks, state, owner, source_id, mbox, handles>>
    BY <1>4 DEF Peers, AcceptsRequests, taskVars
  <2>2. ForwarderKnows' /\ RunningTracked' /\ TimeoutSet'
    <3>1. \A p \in Zipped : Present(p[2])
      BY DEF Zipped
    <3> QED BY <1>4, <2>1, <3>1, AskNextKeeps DEF Peers
  <2>3. BoundIsTold'
    BY <2>1 DEF IInv, BoundIsTold, Present, tables
  <2> QED BY <1>0, <2>1, <2>2, <2>3, TablesKept DEF IInv
<1>5. CASE PeersNext
  <2>1. /\ fwd.op = "peers"
        /\ UNCHANGED <<tables, tasks, state, owner, source_id, mbox, handles>>
    BY <1>5 DEF PeersNext, taskVars
  <2>2. PICK p \in listing.todo :
          AskNext(listing.todo \ {p},
                  listing.found \cup
                    (IF fwd.reply = "peered"
                     THEN {<<p[1], source_id[connections[p[2]].task]>>}
                     ELSE {}))
    BY <1>5 DEF PeersNext
  <2>3. ForwarderKnows' /\ RunningTracked' /\ TimeoutSet'
    BY <2>1, <2>2, AskNextKeeps DEF IInv, ForwarderKnows
  <2>4. BoundIsTold'
    BY <2>1 DEF IInv, BoundIsTold, Present, tables
  <2> QED BY <1>0, <2>1, <2>3, <2>4, TablesKept DEF IInv
<1>6. CASE PeersReturn
  <2>1. /\ fwd.op = "peers"
        /\ NextIteration(tasks)
        /\ listing'.todo = {}
        /\ UNCHANGED <<tables, tasks, state, owner, source_id, mbox, handles>>
    BY <1>6 DEF PeersReturn, taskVars, NoListing
  <2>2. BoundIsTold'
    BY <2>1 DEF IInv, BoundIsTold, Present, tables
  <2> QED BY <1>0, <2>1, <2>2, TablesKept, IterationKeeps DEF IInv
<1>7. CASE Resume
  <2>1. /\ fwd.op \in {"init", "status", "stop"}
        /\ NextIteration(tasks)
        /\ fwd.task \in Tasks /\ Answered(fwd.task)
        /\ listing.todo = {}
        /\ UNCHANGED <<tables, tasks, state, owner, source_id, mbox, listing, handles>>
    BY <1>7 DEF Resume, taskVars, Asking, IInv, ForwarderKnows
  <2>2. BoundIsTold'
    <3>1. ASSUME NEW s \in SrcIds, Present(s), connections[s].addr # None
          PROVE  state[connections[s].task] # "waiting"
      BY <2>1, <3>1 DEF IInv, BoundIsTold, Answered, Running
    <3> QED BY <2>1, <3>1 DEF IInv, BoundIsTold, Present, tables
  <2> QED BY <1>0, <2>1, <2>2, TablesKept, IterationKeeps DEF IInv
<1>8. ASSUME NEW s \in SrcIds, NEW a \in Addrs, NEW k \in Packets,
             RecvPacket(s, a, k)
      PROVE  IInv'
  <2>1. /\ fwd.op = "select"
        /\ Present(s) /\ connections[s].addr = a
        /\ fwd' = Doing("forward", connections[s].task, a, k)
        /\ UNCHANGED <<tables, tasks, state, owner, source_id, mbox, listing,
                       armed, handles>>
    BY <1>8 DEF RecvPacket, Accepts, taskVars
  <2>2. connections[s].task \in Tasks /\ a # None
    BY <2>1, NoneIsNoId DEF IInv, TypeOK, Conn, Present
  <2>3. state[connections[s].task] # "waiting"
    BY <2>1, <2>2 DEF IInv, BoundIsTold
  <2>4. ForwarderKnows'
    BY <2>1, <2>2, <2>3 DEF IInv, ForwarderKnows, Doing
  <2>5. RunningTracked' /\ TimeoutSet' /\ BoundIsTold'
    BY <2>1 DEF IInv, RunningTracked, TimeoutSet, BoundIsTold, Present, Doing, tables
  <2> QED BY <1>0, <2>1, <2>4, <2>5, TablesKept DEF IInv
<1>9. CASE Deliver
  <2>1. /\ fwd.op = "forward"
        /\ fwd.task \in Tasks /\ state[fwd.task] # "waiting"
        /\ NextIteration(tasks)
        /\ listing.todo = {}
        /\ UNCHANGED <<tables, tasks, state, owner, source_id, listing, handles>>
    BY <1>9 DEF Deliver, IInv, ForwarderKnows
  <2>2. BoundIsTold'
    <3>1. \A t \in Tasks : state[t] # "peered" => mbox'[t] = <<>>
      BY <1>9, <2>1 DEF Deliver, Running, IInv, TypeOK, BoundIsTold
    <3> QED BY <2>1, <3>1 DEF IInv, BoundIsTold, Present, tables
  <2> QED BY <1>0, <2>1, <2>2, TablesKept, IterationKeeps DEF IInv
<1>10. ASSUME NEW t \in Tasks, Reap(t) PROVE IInv'
  BY <1>0, <1>10, ReapKeeps
<1>11. CASE IdleTimeout \/ ControlClosed
  <2>1. /\ fwd.op # "notify" /\ fwd.op # "ended"
        /\ armed \/ ~handles
        /\ fwd' = Doing("notify", None, None, None)
        /\ listing' = NoListing \/ (fwd.op = "select" /\ listing' = listing)
        /\ UNCHANGED <<tables, tasks, state, owner, source_id, mbox, armed, handles>>
    BY <1>11 DEF IdleTimeout, ControlClosed, taskVars
  <2>2. ForwarderKnows'
    BY <2>1 DEF IInv, ForwarderKnows, NoListing, Doing
  <2>3. RunningTracked' /\ TimeoutSet' /\ BoundIsTold'
    BY <2>1 DEF IInv, RunningTracked, TimeoutSet, BoundIsTold, Present, Doing, tables
  <2> QED BY <1>0, <2>1, <2>2, <2>3, TablesKept DEF IInv
<1>12. CASE DropHandles
  <2>1. /\ handles' = FALSE
        /\ UNCHANGED <<tables, tasks, state, owner, source_id, mbox, fwd, listing, armed>>
    BY <1>12 DEF DropHandles, taskVars
  <2>2. ForwarderKnows' /\ RunningTracked' /\ TimeoutSet' /\ BoundIsTold'
    BY <2>1 DEF IInv, ForwarderKnows, RunningTracked, TimeoutSet, BoundIsTold,
                Present, tables
  <2> QED BY <1>0, <2>1, <2>2, TablesKept DEF IInv
<1>13. CASE NotifySent
  <2>1. /\ fwd'.op = "ended"
        /\ connections' = [s \in SrcIds |-> None]
        /\ client_id_to_src_id' = [c \in Clients |-> None]
        /\ tasks' = {}
        /\ listing.todo = {}
        /\ UNCHANGED <<state, owner, source_id, mbox, listing>>
    BY <1>13 DEF NotifySent, taskVars, Doing, IInv, ForwarderKnows
  <2>2. EntryTracked'
    BY <2>1 DEF EntryTracked, Known
  <2>3. Spawned' /\ ConnTracked' /\ RunningTracked'
    BY <2>1 DEF IInv, Spawned, ConnTracked, RunningTracked
  <2>4. ForwarderKnows' /\ TimeoutSet' /\ BoundIsTold'
    BY <2>1 DEF IInv, ForwarderKnows, TimeoutSet, BoundIsTold, Present
  <2> QED BY <1>0, <2>2, <2>3, <2>4 DEF IInv
<1>14. ASSUME NEW t \in Tasks, TaskInit(t) PROVE IInv'
  <2>1. /\ state[t] \in Running
        /\ fwd.op = "init" /\ fwd.task = t
        /\ fwd'.op = "init" /\ fwd'.task = t /\ fwd'.reply = "key"
        /\ \/ state' = [state EXCEPT ![t] = "peered"]
           \/ state[t] # "waiting" /\ UNCHANGED state
        /\ UNCHANGED <<tables, tasks, owner, source_id, mbox, listing, armed, handles>>
    BY <1>14 DEF TaskInit, AskedFor, Answer, IInv, TypeOK, Forwarder
  <2>2. state \in [Tasks -> TaskStates] /\ state[t] # "free"
    BY <2>1 DEF IInv, TypeOK, Running
  <2>3. Spawned' /\ RunningTracked'
    BY <2>1, <2>2 DEF IInv, Spawned, RunningTracked
  <2>4. ConnTracked' /\ EntryTracked'
    BY <2>1, <2>2 DEF IInv, TypeOK, ConnTracked, EntryTracked, Known, Present,
                      ConnOf, tables
  <2>5. ForwarderKnows' /\ TimeoutSet'
    BY <2>1 DEF IInv, ForwarderKnows, TimeoutSet, Present, tables
  <2>6. BoundIsTold'
    <3>1. ASSUME NEW s \in SrcIds, Present(s), connections[s].addr # None
          PROVE  state'[connections[s].task] # "waiting"
      <4>1. connections[s].task \in Tasks
        BY <3>1 DEF IInv, TypeOK, Conn, Present
      <4> QED BY <2>1, <2>2, <3>1, <4>1 DEF IInv, BoundIsTold
    <3>2. \A u \in Tasks : state'[u] # "peered" => mbox'[u] = <<>>
      BY <2>1, <2>2 DEF IInv, BoundIsTold
    <3> QED BY <2>1, <3>1, <3>2 DEF BoundIsTold, Present, tables
  <2> QED BY <1>0, <2>3, <2>4, <2>5, <2>6 DEF IInv
<1>15. ASSUME NEW t \in Tasks, TaskStatus(t) PROVE IInv'
  <2>1. /\ fwd.op \in {"status", "peers"}
        /\ fwd'.op = fwd.op /\ fwd'.task = fwd.task
        /\ UNCHANGED <<tables, tasks, state, owner, source_id, mbox, listing, armed,
                       handles>>
    BY <1>15 DEF TaskStatus, AskedFor, Answer, IInv, TypeOK, Forwarder, taskVars
  <2>2. ForwarderKnows' /\ RunningTracked' /\ TimeoutSet' /\ BoundIsTold'
    BY <2>1 DEF IInv, ForwarderKnows, RunningTracked, TimeoutSet, BoundIsTold,
                Present, tables
  <2> QED BY <1>0, <2>1, <2>2, TablesKept DEF IInv
<1>16. ASSUME NEW t \in Tasks, TaskStop(t) PROVE IInv'
  <2>1. state[t] \in Running /\ Finish(t) /\ fwd.op = "stop" /\ fwd.task = t
    BY <1>16 DEF TaskStop, AskedFor
  <2> QED BY <1>0, <1>16, <2>1, FinishKeeps DEF TaskStop, IInv
<1>17. ASSUME NEW t \in Tasks,
              InitTimeout(t) \/ KeepAliveElapsed(t) \/ RelayFails(t) \/ Orphaned(t)
       PROVE  IInv'
  <2>1. state[t] \in Running /\ Finish(t) /\ UNCHANGED fwd
    BY <1>17 DEF InitTimeout, KeepAliveElapsed, RelayFails, Orphaned, Running
  <2> QED BY <1>0, <2>1, FinishKeeps DEF IInv
<1>18. ASSUME NEW t \in Tasks, DeadlinePasses(t) PROVE IInv'
  <2>1. UNCHANGED <<tables, tasks, state, owner, source_id, mbox, fwd, listing, armed,
                    handles>>
    BY <1>18 DEF DeadlinePasses
  <2>2. ForwarderKnows' /\ RunningTracked' /\ TimeoutSet' /\ BoundIsTold'
    BY <2>1 DEF IInv, ForwarderKnows, RunningTracked, TimeoutSet, BoundIsTold,
                Present, tables
  <2> QED BY <1>0, <2>1, <2>2, TablesKept DEF IInv
<1>19. ASSUME NEW t \in Tasks, TaskPacket(t) PROVE IInv'
  <2>1. state[t] = "peered" /\ UNCHANGED fwd
    BY <1>19 DEF TaskPacket
  <2>2. CASE Finish(t)
    BY <1>0, <2>1, <2>2, FinishKeeps DEF IInv, Running
  <2>3. CASE /\ mbox' = [mbox EXCEPT ![t] = Tail(@)]
             /\ UNCHANGED <<tables, tasks, state, owner, source_id, peer_addr,
                            listing, armed, handles>>
    <3>1. \A u \in Tasks : state[u] # "peered" => mbox'[u] = <<>>
      BY <2>1, <2>3 DEF IInv, TypeOK, BoundIsTold
    <3>2. ForwarderKnows' /\ RunningTracked' /\ TimeoutSet' /\ BoundIsTold'
      BY <2>1, <2>3, <3>1 DEF IInv, ForwarderKnows, RunningTracked, TimeoutSet,
                              BoundIsTold, Present, tables
    <3> QED BY <1>0, <2>3, <3>2, TablesKept DEF IInv
  <2> QED BY <1>19, <2>2, <2>3 DEF TaskPacket
<1>20. CASE UNCHANGED vars
  <2>1. UNCHANGED <<tables, tasks, state, owner, source_id, mbox, fwd, listing, armed,
                    handles>>
    BY <1>20 DEF vars, tables
  <2>2. ForwarderKnows' /\ RunningTracked' /\ TimeoutSet' /\ BoundIsTold'
    BY <2>1 DEF IInv, ForwarderKnows, RunningTracked, TimeoutSet, BoundIsTold,
                Present, tables
  <2> QED BY <1>0, <2>1, <2>2, TablesKept DEF IInv
<1> QED
  BY <1>1, <1>2, <1>3, <1>4, <1>5, <1>6, <1>7, <1>8, <1>9, <1>10, <1>11, <1>12,
     <1>13, <1>14, <1>15, <1>16, <1>17, <1>18, <1>19, <1>20
  DEF Next, ControlRequest, SocketPacket, ForwarderStep, TaskStep, TaskTimer

-----------------------------------------------------------------------------
(* The properties of every behaviour *)

(* As long as no source id collides with one in use, the bookkeeping of the
   Forwarder is right in every reachable state.                             *)
THEOREM Tracked == NoCollision => (Spec => []IInv)
<1> SUFFICES ASSUME NoCollision PROVE Spec => []IInv
  OBVIOUS
<1>1. Init => IInv
  BY InitIInv
<1>2. IInv /\ [Next]_vars => IInv'
  BY NextIInv
<1> QED BY <1>1, <1>2, PTL DEF Spec

(* No variable loses its type, and no packet queue exceeds its capacity. *)
THEOREM TypeCorrect == NoCollision => (Spec => []TypeOK)
<1>1. IInv => TypeOK
  BY DEF IInv
<1> QED BY <1>1, Tracked, PTL

(* The expect("always present") of Establish never fails, and Status never
   indexes a connection that is not there.                                 *)
THEOREM NeverPanics == NoCollision => (Spec => []AlwaysPresent)
<1>1. IInv => AlwaysPresent
  BY EntryLeads DEF AlwaysPresent
<1> QED BY <1>1, Tracked, PTL

(* The Forwarder hands packets only to tasks that read their queues. *)
THEOREM WaitingTasksNotFed == NoCollision => (Spec => []WaitingNotFed)
<1>1. IInv => WaitingNotFed
  BY DEF IInv, BoundIsTold, ForwarderKnows, WaitingNotFed
<1> QED BY <1>1, Tracked, PTL

(* A channel that anyone holds ends only when no voice task is running. *)
THEOREM EndsOnlyIdle == NoCollision => (Spec => []EndsIdle)
<1>1. IInv => EndsIdle
  BY DEF IInv, TimeoutSet, RunningTracked, EndsIdle, Running
<1> QED BY <1>1, Tracked, PTL

-----------------------------------------------------------------------------
(* VoiceChannel implements ClientSession *)

(* A client with an entry has a task of its own, which is not free. *)
LEMMA EntryTask ==
    ASSUME IInv, NEW c \in Clients, Known(c)
    PROVE  /\ ConnOf(c).task \in Tasks /\ ConnOf(c).task \in tasks
           /\ owner[ConnOf(c).task] = c
           /\ source_id[ConnOf(c).task] = client_id_to_src_id[c]
           /\ state[ConnOf(c).task] \in Running \cup {"done"}
<1>1. /\ ConnOf(c).task \in Tasks /\ ConnOf(c).task \in tasks
      /\ owner[ConnOf(c).task] = c
      /\ source_id[ConnOf(c).task] = client_id_to_src_id[c]
  BY EntryLeads DEF IInv, EntryTracked
<1>2. state[ConnOf(c).task] # "free" /\ state[ConnOf(c).task] \in TaskStates
  BY <1>1 DEF IInv, ConnTracked, TypeOK
<1> QED BY <1>1, <1>2 DEF TaskStates

(* What is reported of a client is one of the states of ClientSession. *)
LEMMA StatusType ==
    ASSUME IInv, NEW c \in Clients
    PROVE  StatusOf(c) \in {"absent", "waiting", "peered", "stopped"}
BY EntryTask DEF StatusOf, Running

(* Nothing that a status is read from changes. *)
LEMMA SameReported ==
    ASSUME \A c \in Clients : StatusOf(c)' = StatusOf(c)
    PROVE  Reported' = Reported
BY DEF Reported

(* One client's status changes. *)
LEMMA OneReported ==
    ASSUME NEW c \in Clients, NEW from, NEW to,
           StatusOf(c) \in from, StatusOf(c)' = to,
           \A d \in Clients \ {c} : StatusOf(d)' = StatusOf(d)
    PROVE  Session!Move(c, from, to)
<1>1. Reported[c] \in from
  BY DEF Reported
<1>2. Reported' = [Reported EXCEPT ![c] = to]
  BY DEF Reported
<1> QED BY <1>1, <1>2 DEF Session!Move

(* Where the tables stay, only a task that changes can change a status, and
   only that of the client whose entry leads to it.                          *)
LEMMA TaskMoves ==
    ASSUME IInv, NEW t \in Tasks, NEW new,
           UNCHANGED client_id_to_src_id,
           \A s \in SrcIds : connections'[s] = connections[s],
           state' = [state EXCEPT ![t] = new]
    PROVE  /\ \A c \in Clients : \/ Known(c) /\ ConnOf(c).task = t
                                 \/ StatusOf(c)' = StatusOf(c)
           /\ \A c \in Clients : Known(c) /\ ConnOf(c).task = t =>
                 /\ \A d \in Clients \ {c} : StatusOf(d)' = StatusOf(d)
                 /\ StatusOf(c)' = IF new = "done" THEN "stopped" ELSE new
<1>1. \A c \in Clients : Known(c)' = Known(c) /\ (Known(c) => ConnOf(c)' = ConnOf(c))
  BY EntryLeads DEF Known, ConnOf
<1>2. \A c \in Clients : Known(c) => ConnOf(c).task \in Tasks /\ owner[ConnOf(c).task] = c
  BY EntryTask
<1>3. \A u \in Tasks : state'[u] = IF u = t THEN new ELSE state[u]
  BY DEF IInv, TypeOK
<1> QED BY <1>1, <1>2, <1>3 DEF StatusOf

(* What leaves entries, tasks and their states alone changes no report. *)
LEMMA NothingReported ==
    ASSUME IInv, UNCHANGED <<client_id_to_src_id, state>>,
           \A s \in SrcIds : Present(s) => connections'[s].task = connections[s].task
    PROVE  UNCHANGED Reported
<1>1. ASSUME NEW c \in Clients PROVE StatusOf(c)' = StatusOf(c)
  <2>1. CASE Known(c)
    <3>1. client_id_to_src_id[c] \in SrcIds /\ Present(client_id_to_src_id[c])
      BY <2>1, EntryLeads DEF ConnOf, Present
    <3> QED BY <2>1, <3>1 DEF StatusOf, Known, ConnOf
  <2>2. CASE ~Known(c)
    BY <2>2 DEF StatusOf, Known
  <2> QED BY <2>1, <2>2
<1> QED BY <1>1, SameReported

(* A task that ends stops its client's connection, or one replaced before. *)
LEMMA FinishReported ==
    ASSUME IInv, NEW t \in Tasks, state[t] \in Running, Finish(t)
    PROVE  [Session!Next]_Reported
<1>1. /\ state' = [state EXCEPT ![t] = "done"]
      /\ UNCHANGED <<connections, client_id_to_src_id>>
  BY DEF Finish, tables
<1>2. ASSUME NEW c \in Clients, Known(c), ConnOf(c).task = t
      PROVE  Session!Stop(c)
  <2>1. StatusOf(c) \in {"waiting", "peered"}
    BY <1>2 DEF StatusOf, Running
  <2>2. StatusOf(c)' = "stopped" /\ \A d \in Clients \ {c} : StatusOf(d)' = StatusOf(d)
    BY <1>1, <1>2, TaskMoves
  <2> QED BY <2>1, <2>2, OneReported DEF Session!Stop
<1>3. CASE \A c \in Clients : ~(Known(c) /\ ConnOf(c).task = t)
  BY <1>1, <1>3, TaskMoves, SameReported
<1> QED BY <1>2, <1>3 DEF Session!Next

(* The first init peers the connection of a client, or a replaced one. *)
LEMMA InitReported ==
    ASSUME IInv, NEW t \in Tasks, TaskInit(t)
    PROVE  [Session!Next]_Reported
<1>1. CASE state[t] # "waiting"
  BY <1>1, NothingReported DEF TaskInit, tables
<1>2. CASE state[t] = "waiting"
  <2>1. /\ state' = [state EXCEPT ![t] = "peered"]
        /\ UNCHANGED <<connections, client_id_to_src_id>>
    BY <1>2 DEF TaskInit, tables
  <2>2. ASSUME NEW c \in Clients, Known(c), ConnOf(c).task = t
        PROVE  Session!Peer(c)
    <3>1. StatusOf(c) \in {"waiting"}
      BY <1>2, <2>2 DEF StatusOf
    <3>2. StatusOf(c)' = "peered" /\ \A d \in Clients \ {c} : StatusOf(d)' = StatusOf(d)
      BY <2>1, <2>2, TaskMoves
    <3> QED BY <3>1, <3>2, OneReported DEF Session!Peer
  <2>3. CASE \A c \in Clients : ~(Known(c) /\ ConnOf(c).task = t)
    BY <2>1, <2>3, TaskMoves, SameReported
  <2> QED BY <2>2, <2>3 DEF Session!Next
<1> QED BY <1>1, <1>2

(* The client of a new connection waits again, whatever it had before. *)
LEMMA OpenReported ==
    ASSUME NoCollision, IInv, NEW c \in Clients, OpenConnection(c)
    PROVE  [Session!Next]_Reported
<1>1. PICK t \in Tasks \ (tasks \cup ConnTasks), s \in SrcIds :
        /\ ~Present(s)
        /\ state' = [state EXCEPT ![t] = "waiting"]
        /\ connections' =
             [connections EXCEPT ![s] = [task |-> t, addr |-> None]]
        /\ client_id_to_src_id' = [client_id_to_src_id EXCEPT ![c] = s]
  BY DEF OpenConnection, NoCollision
<1>2. s # None
  BY NoneIsNoId
<1>3. StatusOf(c) \in IF "reopen" \in Allowed THEN Session!States ELSE {"absent"}
  <2>1. CASE "reopen" \in Allowed
    BY <2>1, StatusType DEF Session!States
  <2>2. CASE "reopen" \notin Allowed
    BY <2>2 DEF OpenConnection, StatusOf
  <2> QED BY <2>1, <2>2
<1>4. StatusOf(c)' = "waiting"
  <2>1. client_id_to_src_id'[c] = s /\ connections'[s].task = t /\ state'[t] = "waiting"
    BY <1>1 DEF IInv, TypeOK
  <2> QED BY <1>2, <2>1 DEF StatusOf, Known, ConnOf
<1>5. ASSUME NEW d \in Clients \ {c} PROVE StatusOf(d)' = StatusOf(d)
  <2>1. client_id_to_src_id'[d] = client_id_to_src_id[d]
    BY <1>1 DEF IInv, TypeOK
  <2>2. CASE Known(d)
    <3>1. /\ client_id_to_src_id[d] \in SrcIds /\ client_id_to_src_id[d] # s
          /\ ConnOf(d).task \in Tasks /\ ConnOf(d).task # t
      BY <1>1, <2>2, EntryTask, EntryLeads DEF Present, ConnOf
    <3>2. connections'[client_id_to_src_id[d]] = ConnOf(d)
      BY <1>1, <3>1 DEF IInv, TypeOK, ConnOf
    <3>3. state'[ConnOf(d).task] = state[ConnOf(d).task]
      BY <1>1, <3>1 DEF IInv, TypeOK
    <3>4. Known(d)' /\ ConnOf(d)' = ConnOf(d)
      BY <2>1, <2>2, <3>2 DEF Known, ConnOf
    <3> QED BY <2>2, <3>3, <3>4 DEF StatusOf
  <2>3. CASE ~Known(d)
    BY <2>1, <2>3 DEF StatusOf, Known
  <2> QED BY <2>2, <2>3
<1> QED BY <1>3, <1>4, <1>5, OneReported DEF Session!Next, Session!Open

(* A reaped task's client is forgotten, unless it has a newer connection. *)
LEMMA ReapReported ==
    ASSUME IInv, NEW t \in Tasks, Reap(t)
    PROVE  [Session!Next]_Reported
<1>0. PICK c \in Clients, s \in SrcIds : c = owner[t] /\ s = source_id[t]
  BY DEF Reap, IInv, Spawned
<1>1. /\ t \in tasks /\ state[t] = "done" /\ state' = [state EXCEPT ![t] = "free"]
      /\ connections[s].task = t
      /\ IF Known(c)
         THEN /\ client_id_to_src_id' =
                   [client_id_to_src_id EXCEPT ![c] = IF @ = s THEN None ELSE @]
              /\ connections' = [connections EXCEPT ![s] = None]
         ELSE UNCHANGED <<connections, client_id_to_src_id>>
  BY <1>0 DEF Reap, ForgetTask, tables, IInv, ConnTracked
<1>2. \A d \in Clients : Known(d) /\ (d # c \/ client_id_to_src_id[d] # s) =>
         client_id_to_src_id[d] # s /\ ConnOf(d).task # t
  BY <1>0, <1>1, EntryTask DEF ConnOf
<1>3. ASSUME NEW d \in Clients, ~Known(d) \/ d # c \/ client_id_to_src_id[d] # s
      PROVE  StatusOf(d)' = StatusOf(d)
  <2>1. client_id_to_src_id'[d] = client_id_to_src_id[d]
    BY <1>1, <1>3 DEF Known, IInv, TypeOK
  <2>2. CASE Known(d)
    <3>1. /\ client_id_to_src_id[d] \in SrcIds /\ client_id_to_src_id[d] # s
          /\ ConnOf(d).task \in Tasks /\ ConnOf(d).task # t
      BY <1>2, <1>3, <2>2, EntryTask, EntryLeads
    <3>2. connections'[client_id_to_src_id[d]] = ConnOf(d)
      BY <1>1, <3>1 DEF IInv, TypeOK, ConnOf
    <3>3. state'[ConnOf(d).task] = state[ConnOf(d).task]
      BY <1>1, <3>1 DEF IInv, TypeOK
    <3>4. Known(d)' /\ ConnOf(d)' = ConnOf(d)
      BY <2>1, <2>2, <3>2 DEF Known, ConnOf
    <3> QED BY <2>2, <3>3, <3>4 DEF StatusOf
  <2>3. CASE ~Known(d)
    BY <2>1, <2>3 DEF StatusOf, Known
  <2> QED BY <2>2, <2>3
<1>4. CASE ~Known(c) \/ client_id_to_src_id[c] # s
  BY <1>3, <1>4, SameReported
<1>5. CASE Known(c) /\ client_id_to_src_id[c] = s
  <2>1. StatusOf(c) \in {"stopped"}
    BY <1>1, <1>5 DEF StatusOf, ConnOf
  <2>2. StatusOf(c)' = "absent"
    BY <1>1, <1>5 DEF StatusOf, Known, IInv, TypeOK
  <2>3. \A d \in Clients \ {c} : StatusOf(d)' = StatusOf(d)
    BY <1>3
  <2>4. Session!Forget(c)
    BY <1>1, <2>1, <2>2, <2>3, OneReported DEF Session!Forget
  <2> QED BY <1>1, <2>4 DEF Session!Next
<1> QED BY <1>4, <1>5

(* The channel ends idle, or is dropped with all its connections. *)
LEMMA NotifyReported ==
    ASSUME IInv, handles \/ "drop" \in Allowed, NotifySent
    PROVE  [Session!Next]_Reported
<1>1. \A c \in Clients : StatusOf(c)' = "absent"
  BY DEF NotifySent, StatusOf, Known
<1>2. CASE handles
  <2>1. tasks = {}
    BY <1>2 DEF NotifySent, IInv, TimeoutSet
  <2>2. \A c \in Clients : StatusOf(c) = "absent"
    BY <2>1, EntryTask DEF StatusOf
  <2> QED BY <1>1, <2>2, SameReported
<1>3. CASE "drop" \in Allowed
  <2>1. Reported' = [c \in Clients |-> "absent"]
    BY <1>1 DEF Reported
  <2> QED BY <1>3, <2>1 DEF Session!Next, Session!Abandon
<1> QED BY <1>2, <1>3

(* At first nobody has a connection. *)
LEMMA InitReportedAbsent == Init => Session!Init
BY DEF Init, Session!Init, Reported, StatusOf, Known

(* A step of the channel is a step of ClientSession, or none. *)
LEMMA NextReported ==
    ASSUME NoCollision, IInv, handles \/ "drop" \in Allowed, [Next]_vars
    PROVE  [Session!Next]_Reported
<1>1. ASSUME NEW c \in Clients, OpenConnection(c) PROVE [Session!Next]_Reported
  BY <1>1, OpenReported
<1>2. ASSUME NEW c \in Clients, NEW a \in Addrs, Establish(c, a)
      PROVE  [Session!Next]_Reported
  <2>1. \A s \in SrcIds : connections'[s] =
           IF s = client_id_to_src_id[c]
           THEN [connections[s] EXCEPT !.addr = a] ELSE connections[s]
    BY <1>2 DEF Establish, IInv, TypeOK
  <2>2. \A s \in SrcIds : Present(s) => connections[s] \in Conn
    BY DEF IInv, TypeOK, Present
  <2>3. \A s \in SrcIds : Present(s) => connections'[s].task = connections[s].task
    BY <2>1, <2>2 DEF Conn
  <2> QED BY <1>2, <2>3, NothingReported DEF Establish, taskVars
<1>3. ASSUME UNCHANGED <<tables, state>> PROVE [Session!Next]_Reported
  BY <1>3, NothingReported DEF tables
<1>4. CASE (\E c \in Clients : Leave(c) \/ Status(c)) \/ Peers
  BY <1>3, <1>4 DEF Leave, Status, Peers, taskVars
<1>5. CASE SocketPacket \/ IdleTimeout \/ DropHandles \/ ControlClosed
  BY <1>3, <1>5
     DEF SocketPacket, RecvPacket, IdleTimeout, DropHandles, ControlClosed, taskVars
<1>6. CASE PeersNext \/ PeersReturn \/ Resume \/ Deliver
  BY <1>3, <1>6 DEF PeersNext, PeersReturn, Resume, Deliver, taskVars
<1>7. CASE NotifySent
  BY <1>7, NotifyReported
<1>8. ASSUME NEW t \in Tasks, Reap(t) PROVE [Session!Next]_Reported
  BY <1>8, ReapReported
<1>9. ASSUME NEW t \in Tasks, TaskStep(t) PROVE [Session!Next]_Reported
  <2>1. CASE TaskInit(t)
    BY <2>1, InitReported
  <2>2. CASE TaskStatus(t)
    BY <1>3, <2>2 DEF TaskStatus, taskVars
  <2>3. CASE TaskStop(t) \/ RelayFails(t) \/ Orphaned(t)
    BY <2>3, FinishReported DEF TaskStop, RelayFails, Orphaned, Running
  <2>4. CASE TaskPacket(t)
    BY <1>3, <2>4, FinishReported DEF TaskPacket, Running
  <2> QED BY <1>9, <2>1, <2>2, <2>3, <2>4 DEF TaskStep
<1>10. ASSUME NEW t \in Tasks, TaskTimer(t) PROVE [Session!Next]_Reported
  BY <1>3, <1>10, FinishReported
     DEF TaskTimer, InitTimeout, DeadlinePasses, KeepAliveElapsed, Running
<1>11. CASE UNCHANGED vars
  BY <1>3, <1>11 DEF vars, tables
<1> QED
  BY <1>1, <1>2, <1>4, <1>5, <1>6, <1>7, <1>8, <1>9, <1>10, <1>11
  DEF Next, ControlRequest, ForwarderStep

(* The connection of each client, as user_status reports it, behaves as
   ClientSession promises: it waits, is peered, stops and is forgotten, in this
   order, through reopening, reaping and the end of the channel (mod.rs,
   Forwarder; connection.rs, VoiceConnection).                                *)
THEOREM ImplementsClientSession == NoCollision => (Spec => SessionPromise)
<1> SUFFICES ASSUME NoCollision PROVE Spec => SessionPromise
  OBVIOUS
<1> DEFINE Dropped == handles \/ "drop" \in Allowed
<1>1. Spec => []IInv
  BY Tracked
<1>2. Init => Dropped
  BY DEF Init
<1>3. Dropped /\ [Next]_vars => Dropped'
  BY DEF Next, vars, ControlRequest, OpenConnection, Leave, Status, Establish, Peers,
     SocketPacket, RecvPacket, ForwarderStep, PeersNext, PeersReturn, Resume, Deliver,
     NotifySent, IdleTimeout, DropHandles, ControlClosed, Reap, TaskStep, TaskTimer,
     TaskInit, TaskStatus, TaskStop, TaskPacket, RelayFails, Orphaned, InitTimeout,
     DeadlinePasses, KeepAliveElapsed, Finish
<1>4. Init => Session!Init
  BY InitReportedAbsent
<1>5. IInv /\ Dropped /\ [Next]_vars => [Session!Next]_Reported
  BY NextReported
<1> HIDE DEF Dropped
<1> QED BY <1>1, <1>2, <1>3, <1>4, <1>5, PTL DEF Spec, SessionPromise, Session!Spec

-----------------------------------------------------------------------------
(* No connection is left behind *)

(* While nobody reopens, every connection is the one its client's entry leads
   to, and its task has not been reaped.                                      *)
Led(s) ==
    /\ connections[s].task \in tasks
    /\ source_id[connections[s].task] = s
    /\ Known(owner[connections[s].task])
    /\ client_id_to_src_id[owner[connections[s].task]] = s
AllLed == "reopen" \notin Allowed => \A s \in SrcIds : Present(s) => Led(s)

(* What leads to the connections stays. *)
LEMMA LedStays ==
    ASSUME IInv, AllLed, UNCHANGED <<client_id_to_src_id, tasks, owner, source_id>>,
           \A s \in SrcIds : /\ Present(s)' = Present(s)
                             /\ Present(s) => connections'[s].task = connections[s].task
    PROVE  AllLed'
BY DEF AllLed, Led, Known

(* An opened connection is led to; the others still are. *)
LEMMA OpenLed ==
    ASSUME NoCollision, IInv, AllLed, NEW c \in Clients, OpenConnection(c)
    PROVE  AllLed'
<1> SUFFICES ASSUME "reopen" \notin Allowed, NEW r \in SrcIds, Present(r)'
             PROVE  Led(r)'
  BY DEF AllLed
<1>1. PICK t \in Tasks \ (tasks \cup ConnTasks), s \in SrcIds :
        /\ ~Present(s)
        /\ owner' = [owner EXCEPT ![t] = c]
        /\ source_id' = [source_id EXCEPT ![t] = s]
        /\ tasks' = tasks \cup {t}
        /\ connections' =
             [connections EXCEPT ![s] = [task |-> t, addr |-> None]]
        /\ client_id_to_src_id' = [client_id_to_src_id EXCEPT ![c] = s]
  BY DEF OpenConnection, NoCollision
<1>2. ~Known(c) /\ s # None
  BY NoneIsNoId DEF OpenConnection
<1>3. CASE r = s
  <2>1. /\ connections'[r].task = t /\ t \in tasks' /\ owner'[t] = c
        /\ source_id'[t] = s /\ client_id_to_src_id'[c] = s
    BY <1>1, <1>3 DEF IInv, TypeOK
  <2> QED BY <1>2, <1>3, <2>1 DEF Led, Known
<1>4. CASE r # s
  <2> DEFINE u == connections[r].task
  <2>1. connections'[r] = connections[r] /\ Present(r)
    BY <1>1, <1>4 DEF Present, IInv, TypeOK
  <2>2. Led(r) /\ u \in tasks /\ u \in Tasks /\ u # t
    BY <1>1, <2>1 DEF AllLed, Led, IInv, TypeOK
  <2>3. owner'[u] = owner[u] /\ source_id'[u] = source_id[u] /\ owner[u] \in Clients
    BY <1>1, <2>2 DEF IInv, TypeOK, Spawned, ConnTracked
  <2>4. owner[u] # c
    BY <1>2, <2>2 DEF Led
  <2>5. client_id_to_src_id'[owner[u]] = client_id_to_src_id[owner[u]]
    BY <1>1, <2>3, <2>4 DEF IInv, TypeOK
  <2> QED BY <1>1, <2>1, <2>2, <2>3, <2>5 DEF Led, Known
<1> QED BY <1>3, <1>4

(* Reaping takes a task's connection and its client's entry together. *)
LEMMA ReapLed ==
    ASSUME IInv, AllLed, NEW t \in Tasks, Reap(t)
    PROVE  AllLed'
<1> SUFFICES ASSUME "reopen" \notin Allowed, NEW r \in SrcIds, Present(r)'
             PROVE  Led(r)'
  BY DEF AllLed
<1>1. PICK c \in Clients, s \in SrcIds : c = owner[t] /\ s = source_id[t]
  BY DEF Reap, IInv, Spawned
<1>2. /\ t \in tasks /\ tasks' = tasks \ {t} /\ Present(s) /\ connections[s].task = t
      /\ owner' = [owner EXCEPT ![t] = None]
      /\ source_id' = [source_id EXCEPT ![t] = None]
  BY <1>1 DEF Reap, IInv, ConnTracked
<1>3. Known(c) /\ client_id_to_src_id[c] = s
  BY <1>1, <1>2 DEF AllLed, Led
<1>4. /\ client_id_to_src_id' =
             [client_id_to_src_id EXCEPT ![c] = IF @ = s THEN None ELSE @]
      /\ connections' = [connections EXCEPT ![s] = None]
  BY <1>1, <1>3 DEF Reap, ForgetTask
<1>5. r # s /\ connections'[r] = connections[r] /\ Present(r)
  BY <1>4 DEF Present, IInv, TypeOK
<1> DEFINE u == connections[r].task
<1>6. Led(r) /\ u \in tasks /\ u \in Tasks /\ u # t
  BY <1>1, <1>5 DEF AllLed, Led, IInv, TypeOK
<1>7. owner'[u] = owner[u] /\ source_id'[u] = source_id[u] /\ owner[u] \in Clients
  BY <1>2, <1>6 DEF IInv, TypeOK, Spawned, ConnTracked
<1>8. owner[u] # c
  BY <1>3, <1>5, <1>6 DEF Led
<1>9. client_id_to_src_id'[owner[u]] = client_id_to_src_id[owner[u]]
  BY <1>4, <1>7, <1>8 DEF IInv, TypeOK
<1> QED BY <1>2, <1>5, <1>6, <1>7, <1>9 DEF Led, Known

(* Every step keeps every connection led to. *)
LEMMA NextLed ==
    ASSUME NoCollision, IInv, AllLed, [Next]_vars
    PROVE  AllLed'
<1>1. ASSUME NEW c \in Clients, OpenConnection(c) PROVE AllLed'
  BY <1>1, OpenLed
<1>2. ASSUME NEW c \in Clients, NEW a \in Addrs, Establish(c, a) PROVE AllLed'
  <2>1. ConnOf(c) \in Conn /\ client_id_to_src_id[c] \in SrcIds
    BY <1>2, EntryLeads DEF Establish
  <2>2. \A s \in SrcIds : connections'[s] =
           IF s = client_id_to_src_id[c]
           THEN [connections[s] EXCEPT !.addr = a] ELSE connections[s]
    BY <1>2 DEF Establish, IInv, TypeOK
  <2>3. [ConnOf(c) EXCEPT !.addr = a] \in Conn
    BY <2>1 DEF Conn
  <2>4. \A s \in SrcIds : Present(s) => connections[s] \in Conn
    BY DEF IInv, TypeOK, Present
  <2>5. \A s \in SrcIds : Present(s) => connections'[s].task = connections[s].task
    BY <2>2, <2>4 DEF Conn
  <2>6. \A s \in SrcIds : Present(s)' = Present(s)
    BY <2>1, <2>2, <2>3, NoneIsNoConn DEF Present, ConnOf
  <2> QED BY <1>2, <2>5, <2>6, LedStays DEF Establish, taskVars
<1>3. ASSUME UNCHANGED <<tables, tasks, owner, source_id>> PROVE AllLed'
  BY <1>3, LedStays DEF tables, Present
<1>4. CASE (\E c \in Clients : Leave(c) \/ Status(c)) \/ Peers
  BY <1>3, <1>4 DEF Leave, Status, Peers, taskVars
<1>5. CASE SocketPacket \/ IdleTimeout \/ DropHandles \/ ControlClosed
  BY <1>3, <1>5
     DEF SocketPacket, RecvPacket, IdleTimeout, DropHandles, ControlClosed, taskVars
<1>6. CASE PeersNext \/ PeersReturn \/ Resume \/ Deliver
  BY <1>3, <1>6 DEF PeersNext, PeersReturn, Resume, Deliver, taskVars
<1>7. CASE NotifySent
  BY <1>7 DEF NotifySent, AllLed, Present
<1>8. ASSUME NEW t \in Tasks, Reap(t) PROVE AllLed'
  BY <1>8, ReapLed
<1>9. ASSUME NEW t \in Tasks, TaskStep(t) \/ TaskTimer(t) PROVE AllLed'
  BY <1>3, <1>9
     DEF TaskStep, TaskInit, TaskStatus, TaskStop, TaskPacket, RelayFails, Orphaned,
         TaskTimer, InitTimeout, DeadlinePasses, KeepAliveElapsed, Finish, taskVars
<1>10. CASE UNCHANGED vars
  BY <1>3, <1>10 DEF vars, tables
<1> QED
  BY <1>1, <1>2, <1>4, <1>5, <1>6, <1>7, <1>8, <1>9, <1>10
  DEF Next, ControlRequest, ForwarderStep

(* Unless a client reopens, the last task that is reaped takes the last
   connection with it (mod.rs, the reaping branch of Forwarder::event).        *)
THEOREM NothingLeaks == NoCollision => (Spec => []NoLeak)
<1> SUFFICES ASSUME NoCollision PROVE Spec => []NoLeak
  OBVIOUS
<1>1. Spec => []IInv
  BY Tracked
<1>2. Init => AllLed
  BY DEF Init, AllLed, Present
<1>3. IInv /\ AllLed /\ [Next]_vars => AllLed'
  BY NextLed
<1>4. AllLed => NoLeak
  BY DEF AllLed, Led, NoLeak
<1> QED BY <1>1, <1>2, <1>3, <1>4, PTL DEF Spec

-----------------------------------------------------------------------------
(* Answers go back to where the packets come from *)

(* A connection whose task is not reaped is the one its task was given.  While
   no session moves, a peered task of such a connection sends to the address the
   connection is bound to, has packets from there only, and the Forwarder hands
   it no other address, be it in an init or with a packet.                    *)
OwnConn == \A s \in SrcIds : Present(s) /\ connections[s].task \in tasks =>
    source_id[connections[s].task] = s
BoundTo(t, a) == a \in Addrs /\ connections[source_id[t]].addr = a
PeerBound(t) == state[t] = "peered" =>
    /\ BoundTo(t, peer_addr[t])
    /\ \A i \in 1..Len(mbox[t]) : mbox[t][i].from = peer_addr[t]
HandsBound == fwd.op \in {"init", "forward"} /\ fwd.task \in tasks =>
    BoundTo(fwd.task, fwd.addr)
AllBound == "rebind" \notin Allowed => (\A t \in tasks : PeerBound(t)) /\ HandsBound
Paired == OwnConn /\ AllBound

(* The tables, the tasks and their source ids stay, and so do the peered tasks'
   addresses and packets: what the Forwarder hands on decides.                *)
LEMMA PairedStays ==
    ASSUME IInv, Paired, UNCHANGED <<connections, tasks, source_id>>,
           \A t \in tasks : state'[t] = "peered" =>
               /\ state[t] = "peered" /\ peer_addr'[t] = peer_addr[t]
               /\ mbox'[t] = mbox[t],
           \/ fwd'.op \notin {"init", "forward"}
           \/ /\ fwd'.op = fwd.op /\ fwd'.task = fwd.task /\ fwd'.addr = fwd.addr
    PROVE  Paired'
<1>1. OwnConn'
  BY DEF Paired, OwnConn, Present
<1>2. ASSUME "rebind" \notin Allowed, NEW t \in tasks PROVE PeerBound(t)'
  BY <1>2 DEF Paired, AllBound, PeerBound, BoundTo
<1>3. ASSUME "rebind" \notin Allowed PROVE HandsBound'
  BY <1>3 DEF Paired, AllBound, HandsBound, BoundTo
<1> QED BY <1>1, <1>2, <1>3 DEF Paired, AllBound

(* An opened connection's task waits; the others keep their addresses. *)
LEMMA OpenPaired ==
    ASSUME NoCollision, IInv, Paired, NEW c \in Clients, OpenConnection(c)
    PROVE  Paired'
<1>1. PICK t \in Tasks \ (tasks \cup ConnTasks), s \in SrcIds :
        /\ ~Present(s)
        /\ state' = [state EXCEPT ![t] = "waiting"]
        /\ source_id' = [source_id EXCEPT ![t] = s]
        /\ tasks' = tasks \cup {t}
        /\ connections' =
             [connections EXCEPT ![s] = [task |-> t, addr |-> None]]
        /\ NextIteration(tasks \cup {t})
  BY DEF OpenConnection, NoCollision
<1>2. state'[t] = "waiting" /\ source_id'[t] = s /\ connections'[s].task = t
  BY <1>1 DEF IInv, TypeOK
<1>3. ASSUME NEW u \in tasks
      PROVE  /\ u # t /\ state'[u] = state[u] /\ source_id'[u] = source_id[u]
             /\ connections'[source_id[u]] = connections[source_id[u]]
  <2>1. u \in Tasks /\ Present(source_id[u]) /\ source_id[u] \in SrcIds
    BY <1>3 DEF IInv, TypeOK, Spawned, ConnTracked
  <2> QED BY <1>1, <1>3, <2>1 DEF IInv, TypeOK
<1>4. ASSUME NEW r \in SrcIds, Present(r)', connections'[r].task \in tasks'
      PROVE  source_id'[connections'[r].task] = r
  <2>1. CASE r = s
    BY <1>2, <2>1
  <2>2. CASE r # s
    <3>1. connections'[r] = connections[r] /\ Present(r)
      BY <1>1, <1>4, <2>2 DEF Present, IInv, TypeOK
    <3>2. connections[r].task # t /\ connections[r].task \in tasks
      BY <1>1, <1>4, <3>1 DEF ConnTasks
    <3> QED BY <1>3, <3>1, <3>2 DEF Paired, OwnConn
  <2> QED BY <2>1, <2>2
<1>5. ASSUME "rebind" \notin Allowed, NEW u \in tasks' PROVE PeerBound(u)'
  <2>1. CASE u = t
    BY <1>2, <2>1 DEF PeerBound
  <2>2. CASE u # t
    <3>1. u \in tasks /\ PeerBound(u)
      BY <1>1, <1>5, <2>2 DEF Paired, AllBound
    <3> QED BY <1>3, <3>1 DEF PeerBound, BoundTo, OpenConnection
  <2> QED BY <2>1, <2>2
<1>6. HandsBound'
  BY <1>1 DEF NextIteration, Select, Doing, HandsBound
<1> QED BY <1>4, <1>5, <1>6 DEF Paired, OwnConn, AllBound

(* Establishing gives the connection the address its task has or will have. *)
LEMMA EstablishPaired ==
    ASSUME IInv, Paired, NEW c \in Clients, NEW a \in Addrs, Establish(c, a)
    PROVE  Paired'
<1> DEFINE s == client_id_to_src_id[c]
           t == ConnOf(c).task
<1>1. /\ s \in SrcIds /\ connections[s] \in Conn /\ t = connections[s].task
      /\ t \in tasks /\ t \in Tasks /\ source_id[t] = s
  <2>1. Known(c)
    BY DEF Establish
  <2> QED BY <2>1, EntryLeads DEF IInv, EntryTracked, ConnOf
<1>2. /\ \A r \in SrcIds \ {s} : connections'[r] = connections[r]
      /\ connections'[s] = [connections[s] EXCEPT !.addr = a]
      /\ UNCHANGED <<tasks, state, source_id, peer_addr, mbox>>
  BY <1>1 DEF Establish, IInv, TypeOK, taskVars
<1>3. connections'[s].task = t /\ connections'[s].addr = a
  BY <1>1, <1>2 DEF Conn
<1>4. ASSUME NEW r \in SrcIds, Present(r)', connections'[r].task \in tasks'
      PROVE  source_id'[connections'[r].task] = r
  <2>1. CASE r = s
    BY <1>1, <1>2, <1>3, <2>1
  <2>2. CASE r # s
    BY <1>2, <1>4, <2>2 DEF Paired, OwnConn, Present
  <2> QED BY <2>1, <2>2
<1>5. ASSUME "rebind" \notin Allowed, NEW u \in tasks' PROVE PeerBound(u)'
  <2>1. u \in tasks /\ PeerBound(u) /\ u \in Tasks
    BY <1>2, <1>5 DEF Paired, AllBound, IInv, TypeOK
  <2>2. CASE u = t
    <3>1. connections[s].addr \in {None, a}
      BY <1>5 DEF Establish, ConnOf
    <3>2. state[t] = "peered" => peer_addr[t] = a
      BY <1>1, <2>1, <2>2, <3>1, NoneIsNoId DEF PeerBound, BoundTo
    <3> QED BY <1>1, <1>2, <1>3, <2>1, <2>2, <3>2 DEF PeerBound, BoundTo
  <2>3. CASE u # t
    <3>1. source_id[u] \in SrcIds \ {s}
      BY <1>1, <2>1, <2>3 DEF IInv, Spawned, ConnTracked
    <3> QED BY <1>2, <2>1, <3>1 DEF PeerBound, BoundTo
  <2> QED BY <2>2, <2>3
<1>6. fwd'.task = t /\ fwd'.addr = a
  BY DEF Establish, Ask, Doing
<1>7. HandsBound'
  BY <1>1, <1>2, <1>3, <1>6 DEF HandsBound, BoundTo
<1> QED BY <1>4, <1>5, <1>7 DEF Paired, OwnConn, AllBound

(* Reaping a task leaves the others' connections and addresses. *)
LEMMA ReapPaired ==
    ASSUME IInv, Paired, NEW t \in Tasks, Reap(t)
    PROVE  Paired'
<1>1. /\ t \in tasks /\ tasks' = tasks \ {t} /\ Present(source_id[t])
      /\ source_id' = [source_id EXCEPT ![t] = None]
      /\ source_id[t] \in SrcIds /\ connections[source_id[t]].task = t
  BY DEF Reap, IInv, ConnTracked, Spawned
<1>2. /\ \A r \in SrcIds \ {source_id[t]} : connections'[r] = connections[r]
      /\ connections'[source_id[t]] \in {None, connections[source_id[t]]}
  BY <1>1 DEF Reap, ForgetTask, tables, IInv, TypeOK
<1>3. ASSUME NEW u \in tasks, u # t
      PROVE  /\ source_id'[u] = source_id[u] /\ state'[u] = state[u]
             /\ peer_addr'[u] = peer_addr[u] /\ mbox'[u] = mbox[u]
             /\ connections'[source_id[u]] = connections[source_id[u]]
  <2>1. u \in Tasks /\ source_id[u] \in SrcIds \ {source_id[t]}
    BY <1>1, <1>3 DEF IInv, TypeOK, Spawned, ConnTracked
  <2> QED BY <1>1, <1>2, <1>3, <2>1 DEF Reap, IInv, TypeOK
<1>4. ASSUME NEW r \in SrcIds, Present(r)', connections'[r].task \in tasks'
      PROVE  source_id'[connections'[r].task] = r
  <2>1. connections'[r] = connections[r] /\ Present(r)
    BY <1>2, <1>4 DEF Present
  <2> QED BY <1>1, <1>3, <1>4, <2>1 DEF Paired, OwnConn
<1>5. ASSUME "rebind" \notin Allowed, NEW u \in tasks' PROVE PeerBound(u)'
  BY <1>1, <1>3, <1>5 DEF Paired, AllBound, PeerBound, BoundTo
<1>6. HandsBound'
  BY DEF Reap, NextIteration, Select, Doing, HandsBound
<1> QED BY <1>4, <1>5, <1>6 DEF Paired, OwnConn, AllBound

(* A task becomes peered with the address its connection is bound to. *)
LEMMA InitPaired ==
    ASSUME IInv, Paired, NEW t \in Tasks, TaskInit(t)
    PROVE  Paired'
<1>1. /\ fwd.op = "init" /\ fwd.task = t
      /\ fwd'.op = fwd.op /\ fwd'.task = fwd.task /\ fwd'.addr = fwd.addr
      /\ UNCHANGED <<connections, tasks, source_id, mbox>>
  BY DEF TaskInit, AskedFor, Answer, IInv, TypeOK, Forwarder, tables
<1>2. CASE state[t] # "waiting"
  BY <1>1, <1>2, PairedStays DEF TaskInit
<1>3. CASE state[t] = "waiting"
  <2>1. /\ state' = [state EXCEPT ![t] = "peered"]
        /\ peer_addr' = [peer_addr EXCEPT ![t] = fwd.addr]
        /\ mbox[t] = <<>>
    BY <1>3 DEF TaskInit, IInv, BoundIsTold
  <2>2. OwnConn'
    BY <1>1 DEF Paired, OwnConn, Present
  <2>3. ASSUME "rebind" \notin Allowed, NEW u \in tasks PROVE PeerBound(u)'
    <3>1. PeerBound(u) /\ u \in Tasks /\ HandsBound
      BY <2>3 DEF Paired, AllBound, IInv, TypeOK
    <3>2. CASE u = t
      BY <1>1, <2>1, <2>3, <3>1, <3>2
      DEF PeerBound, BoundTo, HandsBound, IInv, TypeOK
    <3>3. CASE u # t
      BY <1>1, <2>1, <3>1, <3>3 DEF PeerBound, BoundTo, IInv, TypeOK
    <3> QED BY <3>2, <3>3
  <2>4. ASSUME "rebind" \notin Allowed PROVE HandsBound'
    BY <1>1, <2>4 DEF Paired, AllBound, HandsBound, BoundTo
  <2> QED BY <1>1, <2>2, <2>3, <2>4 DEF Paired, AllBound
<1> QED BY <1>2, <1>3

(* A packet is queued for a task from the address that task sends to. *)
LEMMA DeliverPaired ==
    ASSUME IInv, Paired, Deliver
    PROVE  Paired'
<1> DEFINE t == fwd.task
<1>1. /\ fwd.op = "forward" /\ t \in Tasks /\ state[t] # "waiting"
      /\ fwd'.op = "select"
      /\ UNCHANGED <<connections, tasks, source_id, state, peer_addr>>
  BY DEF Deliver, IInv, ForwarderKnows, NextIteration, Select, Doing, tables
<1>2. CASE UNCHANGED mbox
  BY <1>1, <1>2, PairedStays
<1>3. CASE /\ state[t] \in Running
           /\ mbox' = [mbox EXCEPT ![t] =
                         Append(@, [kind |-> fwd.kind, from |-> fwd.addr])]
  <2>1. OwnConn'
    BY <1>1 DEF Paired, OwnConn, Present
  <2>2. ASSUME "rebind" \notin Allowed, NEW u \in tasks PROVE PeerBound(u)'
    <3>1. PeerBound(u) /\ HandsBound /\ u \in Tasks
      BY <2>2 DEF Paired, AllBound, IInv, TypeOK
    <3>2. CASE u # t
      BY <1>1, <1>3, <3>1, <3>2 DEF PeerBound, BoundTo, IInv, TypeOK
    <3>3. CASE u = t
      <4>1. state[t] = "peered" /\ peer_addr[t] = fwd.addr
        BY <1>1, <1>3, <3>1, <3>3 DEF Running, HandsBound, PeerBound, BoundTo
      <4>2. /\ mbox[t] \in Seq(Packet)
            /\ mbox'[t] = Append(mbox[t], [kind |-> fwd.kind, from |-> fwd.addr])
        BY <1>1, <1>3 DEF IInv, TypeOK
      <4>3. \A i \in 1..Len(mbox'[t]) : mbox'[t][i].from = peer_addr[t]
        BY <3>1, <3>3, <4>1, <4>2 DEF PeerBound
      <4> QED BY <1>1, <3>1, <3>3, <4>1, <4>3 DEF PeerBound, BoundTo
    <3> QED BY <3>2, <3>3
  <2>3. HandsBound'
    BY <1>1 DEF HandsBound
  <2> QED BY <1>1, <2>1, <2>2, <2>3 DEF Paired, AllBound
<1> QED BY <1>2, <1>3 DEF Deliver

(* A packet is taken up only from the address its connection is bound to. *)
LEMMA RecvPaired ==
    ASSUME IInv, Paired, NEW s \in SrcIds, NEW a \in Addrs, NEW k \in Packets,
           RecvPacket(s, a, k)
    PROVE  Paired'
<1>1. /\ Present(s) /\ connections[s].addr = a
      /\ fwd'.task = connections[s].task /\ fwd'.addr = a
      /\ UNCHANGED <<connections, tasks, source_id, state, peer_addr, mbox>>
  BY DEF RecvPacket, Accepts, Doing, tables, taskVars
<1>2. OwnConn'
  BY <1>1 DEF Paired, OwnConn, Present
<1>3. HandsBound'
  BY <1>1 DEF HandsBound, BoundTo, Paired, OwnConn
<1>4. ASSUME "rebind" \notin Allowed, NEW u \in tasks PROVE PeerBound(u)'
  BY <1>1, <1>4 DEF Paired, AllBound, PeerBound, BoundTo
<1> QED BY <1>1, <1>2, <1>3, <1>4 DEF Paired, AllBound

(* A voice task handles a packet: the rest of its queue is as it was. *)
LEMMA PacketPaired ==
    ASSUME IInv, Paired, NEW t \in Tasks, state[t] = "peered", mbox[t] # <<>>,
           mbox' = [mbox EXCEPT ![t] = Tail(@)],
           UNCHANGED <<connections, tasks, source_id, state, peer_addr, fwd>>
    PROVE  Paired'
<1>1. OwnConn'
  BY DEF Paired, OwnConn, Present
<1>2. ASSUME "rebind" \notin Allowed, NEW u \in tasks PROVE PeerBound(u)'
  <2>1. PeerBound(u) /\ u \in Tasks
    BY <1>2 DEF Paired, AllBound, IInv, TypeOK
  <2>2. CASE u # t
    BY <2>1, <2>2 DEF PeerBound, BoundTo, IInv, TypeOK
  <2>3. CASE u = t
    <3>1. mbox[t] \in Seq(Packet) /\ mbox'[t] = Tail(mbox[t])
      BY DEF IInv, TypeOK
    <3>2. \A i \in 1..Len(mbox'[t]) : mbox'[t][i] = mbox[t][i + 1]
                                        /\ i + 1 \in 1..Len(mbox[t])
      <4>1. ASSUME NEW q \in Seq(Packet), q # <<>>
            PROVE  /\ Len(q) \in Nat \ {0} /\ Len(Tail(q)) = Len(q) - 1
                   /\ \A i \in 1..Len(Tail(q)) : Tail(q)[i] = q[i + 1]
        BY <4>1
      <4>2. /\ Len(mbox[t]) \in Nat \ {0} /\ Len(mbox'[t]) = Len(mbox[t]) - 1
            /\ \A i \in 1..Len(mbox'[t]) : mbox'[t][i] = mbox[t][i + 1]
        BY <3>1, <4>1
      <4> QED BY <4>2
    <3> QED BY <2>1, <2>3, <3>2 DEF PeerBound, BoundTo
  <2> QED BY <2>2, <2>3
<1>3. ASSUME "rebind" \notin Allowed PROVE HandsBound'
  BY <1>3 DEF Paired, AllBound, HandsBound, BoundTo
<1> QED BY <1>1, <1>2, <1>3 DEF Paired, AllBound

(* A task that ends has no packets any more; the others keep theirs. *)
LEMMA FinishPaired ==
    ASSUME IInv, Paired, NEW t \in Tasks, Finish(t),
           \/ UNCHANGED fwd
           \/ fwd.op = "stop" /\ Answer("stopped")
    PROVE  Paired'
<1>1. /\ UNCHANGED <<connections, tasks, source_id, peer_addr>>
      /\ state' = [state EXCEPT ![t] = "done"] /\ mbox' = [mbox EXCEPT ![t] = <<>>]
  BY DEF Finish, tables
<1>2. ASSUME NEW u \in tasks, state'[u] = "peered"
      PROVE  state[u] = "peered" /\ mbox'[u] = mbox[u]
  BY <1>1, <1>2 DEF IInv, TypeOK
<1>3. fwd'.op = fwd.op
  BY DEF Answer, IInv, TypeOK, Forwarder
<1> QED BY <1>1, <1>2, <1>3, PairedStays

(* Every step keeps addresses, packets and connections in agreement. *)
LEMMA NextPaired ==
    ASSUME NoCollision, IInv, Paired, [Next]_vars
    PROVE  Paired'
<1>1. ASSUME NEW c \in Clients, OpenConnection(c) PROVE Paired'
  BY <1>1, OpenPaired
<1>2. ASSUME NEW c \in Clients, NEW a \in Addrs, Establish(c, a) PROVE Paired'
  BY <1>2, EstablishPaired
<1>3. ASSUME UNCHANGED <<tables, tasks, taskVars>>,
             UNCHANGED fwd \/ fwd'.op \notin {"init", "forward"}
      PROVE  Paired'
  BY <1>3, PairedStays DEF tables, taskVars
<1>4. CASE (\E c \in Clients : Leave(c) \/ Status(c)) \/ Peers
  BY <1>3, <1>4 DEF Leave, Status, Peers, AskNext, Ask, Doing
<1>5. CASE SocketPacket
  BY <1>5, RecvPaired DEF SocketPacket
<1>6. CASE IdleTimeout \/ DropHandles \/ ControlClosed
  BY <1>3, <1>6 DEF IdleTimeout, DropHandles, ControlClosed, Doing
<1>7. CASE PeersNext \/ PeersReturn \/ Resume
  BY <1>3, <1>7
  DEF PeersNext, PeersReturn, Resume, AskNext, Ask, NextIteration, Select, Doing
<1>8. CASE Deliver
  BY <1>8, DeliverPaired
<1>9. CASE NotifySent
  BY <1>9 DEF NotifySent, Paired, OwnConn, AllBound, HandsBound, Present, Doing
<1>10. ASSUME NEW t \in Tasks, Reap(t) PROVE Paired'
  BY <1>10, ReapPaired
<1>11. ASSUME NEW t \in Tasks, TaskStep(t) PROVE Paired'
  <2>1. CASE TaskInit(t)
    BY <2>1, InitPaired
  <2>2. CASE TaskStatus(t)
    <3>1. fwd'.op = fwd.op /\ fwd.op \in {"status", "peers"}
      BY <2>2 DEF TaskStatus, AskedFor, Answer, IInv, TypeOK, Forwarder
    <3> QED BY <1>3, <2>2, <3>1 DEF TaskStatus
  <2>3. CASE TaskStop(t) \/ RelayFails(t) \/ Orphaned(t)
    BY <2>3, FinishPaired DEF TaskStop, AskedFor, RelayFails, Orphaned
  <2>4. CASE TaskPacket(t)
    BY <2>4, FinishPaired, PacketPaired DEF TaskPacket, tables
  <2> QED BY <1>11, <2>1, <2>2, <2>3, <2>4 DEF TaskStep
<1>12. ASSUME NEW t \in Tasks, TaskTimer(t) PROVE Paired'
  <2>1. CASE InitTimeout(t) \/ KeepAliveElapsed(t)
    BY <2>1, FinishPaired DEF InitTimeout, KeepAliveElapsed
  <2>2. CASE DeadlinePasses(t)
    BY <2>2, PairedStays DEF DeadlinePasses, tables
  <2> QED BY <1>12, <2>1, <2>2 DEF TaskTimer
<1>13. CASE UNCHANGED vars
  BY <1>3, <1>13 DEF vars, tables, taskVars
<1> QED
  BY <1>1, <1>2, <1>4, <1>5, <1>6, <1>7, <1>8, <1>9, <1>10, <1>11, <1>12, <1>13
  DEF Next, ControlRequest, ForwarderStep

(* Unless sessions are moved, a task that is not reaped sends to the address its
   packets are accepted from, and has only packets from there (mod.rs, Establish
   and the packet branch; connection.rs, peered).                              *)
THEOREM AnswersReturn == NoCollision => (Spec => []AnswersGoBack)
<1> SUFFICES ASSUME NoCollision PROVE Spec => []AnswersGoBack
  OBVIOUS
<1>1. Spec => []IInv
  BY Tracked
<1>2. Init => Paired
  BY DEF Init, Paired, OwnConn, AllBound, HandsBound, Present, Select, Doing
<1>3. IInv /\ Paired /\ [Next]_vars => Paired'
  BY NextPaired
<1>4. Paired => AnswersGoBack
  BY DEF Paired, AllBound, PeerBound, BoundTo, AnswersGoBack
<1> QED BY <1>1, <1>2, <1>3, <1>4, PTL DEF Spec
=============================================================================
