---------------------------- MODULE VoiceChannel ----------------------------
(***************************************************************************)
(* One voice channel of the voice server: the Forwarder task, which owns   *)
(* the UDP socket and the connection tables, and the VoiceConnection tasks *)
(* it spawns, one per opened connection                                    *)
(* (server/voice/core/src/channel/mod.rs and connection.rs).               *)
(*                                                                         *)
(* The Forwarder is one sequential task.  It takes one event at a time in  *)
(* its select loop; an event that needs a voice task (init, status, stop,  *)
(* a packet to pass on) makes it wait for that task, and the task may time *)
(* out, fail or move on while it waits.  The audio that the tasks pass to  *)
(* each other is not modelled, only which packets reach which task, and    *)
(* that passing them on may fail.                                          *)
(***************************************************************************)
EXTENDS Naturals, FiniteSets, Sequences

CONSTANTS
    Clients,    \* client ids, ordered as the keys of a BTreeMap are
    SrcIds,     \* source ids, ordered as the keys of a BTreeMap are
    Tasks,      \* spawned voice tasks; a reaped one may be used again
    Addrs,      \* UDP addresses
    Packets,    \* the kinds of packets clients send; "bad" fails to decrypt
    MsgCap,     \* capacity of a connection's packet queue (10 in the code)
    Allowed,    \* what callers and chance may do, see below
    None

(***************************************************************************)
(* "reopen"  : a client opens a connection while it still has one.         *)
(* "rebind"  : a session is established again with another address.        *)
(* "drop"    : every handle on the channel is dropped while it runs.       *)
(* "collide" : the random source id of a new connection is in use already. *)
(***************************************************************************)
Freedoms == {"reopen", "rebind", "drop", "collide"}

ASSUME OrderedIds == Clients \subseteq Nat /\ SrcIds \subseteq Nat
ASSUME PacketsKnown == Packets \subseteq {"voice", "ping", "bad"}
ASSUME MsgCapPositive == MsgCap \in Nat \ {0}
ASSUME AllowedKnown == Allowed \subseteq Freedoms
ASSUME NoneIsNoId == None \notin Clients \cup SrcIds \cup Tasks \cup Addrs
ASSUME NoneIsNoWord ==
    None \notin Packets \cup {"key", "stopped", "waiting", "peered"}

VARIABLES
    connections,            \* source id -> the Conn kept for it, or None
    client_id_to_src_id,    \* client -> source id of its connection, or None
    tasks,                  \* spawned and not yet reaped (FuturesUnordered)
    state,                  \* what each voice task is doing
    owner,                  \* the client a voice task was started for
    source_id,              \* the source id a voice task was given
    peer_addr,              \* the address a peered task sends to
    due,                    \* peered tasks whose ping deadline has passed
    mbox,                   \* packets queued for each voice task
    fwd,                    \* what the Forwarder is doing
    listing,                \* progress of a Peers request
    armed,                  \* the idle timeout of this loop iteration is set
    handles                 \* a handle, or a request queued by one, exists

tables == <<connections, client_id_to_src_id>>
taskVars == <<state, owner, source_id, peer_addr, due, mbox>>
vars == <<connections, client_id_to_src_id, tasks, state, owner, source_id,
          peer_addr, due, mbox, fwd, listing, armed, handles>>

-----------------------------------------------------------------------------
(* Values *)

Conn == [task : Tasks, addr : Addrs \cup {None}]
ASSUME NoneIsNoConn == None \notin Conn
Packet == [kind : Packets, from : Addrs]
Running == {"waiting", "peered"}
TaskStates == Running \cup {"free", "done"}
Asking == {"init", "status", "stop", "peers"}   \* requests to a voice task
Ops == Asking \cup {"select", "forward", "notify", "ended"}
Replies == {None, "key", "stopped"} \cup Running

Forwarder == [op : Ops, task : Tasks \cup {None}, addr : Addrs \cup {None},
              kind : Packets \cup {None}, reply : Replies]
Listing == [todo : SUBSET (Clients \X SrcIds),
            found : SUBSET (Clients \X (SrcIds \cup {None}))]

(* The Forwarder doing op, for which it waits on task t. *)
Doing(op, t, a, k) ==
    [op |-> op, task |-> t, addr |-> a, kind |-> k, reply |-> None]
Select == Doing("select", None, None, None)
NoListing == [todo |-> {}, found |-> {}]

Present(s) == connections[s] # None
ConnTasks == {connections[s].task : s \in {r \in SrcIds : Present(r)}}
Known(c) == client_id_to_src_id[c] # None
ConnOf(c) == connections[client_id_to_src_id[c]]

Init ==
    /\ connections = [s \in SrcIds |-> None]
    /\ client_id_to_src_id = [c \in Clients |-> None]
    /\ tasks = {}
    /\ state = [t \in Tasks |-> "free"]
    /\ owner = [t \in Tasks |-> None]
    /\ source_id = [t \in Tasks |-> None]
    /\ peer_addr = [t \in Tasks |-> None]
    /\ due = {}
    /\ mbox = [t \in Tasks |-> <<>>]
    /\ fwd = Select
    /\ listing = NoListing
    /\ armed = TRUE
    /\ handles = TRUE

-----------------------------------------------------------------------------
(* The Forwarder: control requests.                                        *)
(* A request naming an unknown client is answered at once and changes      *)
(* nothing, so it is a stuttering step.                                    *)

(* Operators named Bug... are no part of the specification: each is a faulty
   form of the definition that follows it, which some property must reject.  *)

BugTimerKept(left) ==
    /\ fwd' = Select
    /\ armed' = (armed \/ left = {})

(* An event has been handled: the loop starts over with the tasks left, and
   arms a new timeout if there are none.                                    *)
NextIteration(left) ==
    /\ fwd' = Select
    /\ armed' = (left = {})

(* Wait for voice task t. *)
Ask(op, t, a) ==
    /\ fwd' = Doing(op, t, a, None)
    /\ UNCHANGED armed

AcceptsRequests == fwd.op = "select" /\ handles

OpenConnection(c) ==
    /\ AcceptsRequests
    /\ Known(c) => "reopen" \in Allowed
    /\ \E t \in Tasks \ (tasks \cup ConnTasks), s \in SrcIds :
        /\ state[t] = "free"
        /\ Present(s) => "collide" \in Allowed
        /\ state' = [state EXCEPT ![t] = "waiting"]
        /\ owner' = [owner EXCEPT ![t] = c]
        /\ source_id' = [source_id EXCEPT ![t] = s]
        /\ tasks' = tasks \cup {t}
        /\ connections' =
             [connections EXCEPT ![s] = [task |-> t, addr |-> None]]
        /\ client_id_to_src_id' = [client_id_to_src_id EXCEPT ![c] = s]
        /\ NextIteration(tasks \cup {t})
    /\ UNCHANGED <<peer_addr, due, mbox, listing, handles>>

(* The connection is bound to the address before its task hears of it. *)
Establish(c, a) ==
    /\ AcceptsRequests
    /\ Known(c)
    /\ ConnOf(c) # None
    /\ ConnOf(c).addr \in {None, a} \/ "rebind" \in Allowed
    /\ connections' =
         [connections EXCEPT ![client_id_to_src_id[c]].addr = a]
    /\ Ask("init", ConnOf(c).task, a)
    /\ UNCHANGED <<client_id_to_src_id, tasks, taskVars, listing, handles>>

Leave(c) ==
    /\ AcceptsRequests
    /\ Known(c)
    /\ ConnOf(c) # None
    /\ Ask("stop", ConnOf(c).task, None)
    /\ UNCHANGED <<tables, tasks, taskVars, listing, handles>>

Status(c) ==
    /\ AcceptsRequests
    /\ Known(c)
    /\ ConnOf(c) # None
    /\ Ask("status", ConnOf(c).task, None)
    /\ UNCHANGED <<tables, tasks, taskVars, listing, handles>>

(* keys().zip(values()): the i-th client id with the i-th source id. *)
Zipped ==
    LET keys == {c \in Clients : Known(c)}
        values == {s \in SrcIds : Present(s)}
        Rank(x, S) == Cardinality({y \in S : y < x})
    IN {p \in keys \X values : Rank(p[1], keys) = Rank(p[2], values)}

(* Ask the task of the first pair of todo; with none left, have the answer. *)
AskNext(todo, found) ==
    /\ listing' = [todo |-> todo, found |-> found]
    /\ IF todo = {}
       THEN Ask("peers", None, None)
       ELSE \E p \in todo : /\ \A q \in todo : p[1] <= q[1]
                            /\ Ask("peers", connections[p[2]].task, None)

Peers ==
    /\ AcceptsRequests
    /\ AskNext(Zipped, {})
    /\ UNCHANGED <<tables, tasks, taskVars, handles>>

BugAnswerAwaited(t) == fwd.reply # None

(* The awaited task has answered, or is gone and dropped the request. *)
Answered(t) == fwd.reply # None \/ state[t] \notin Running

PeersNext ==
    /\ fwd.op = "peers"
    /\ fwd.task # None
    /\ Answered(fwd.task)
    /\ \E p \in listing.todo :
        /\ \A q \in listing.todo : p[1] <= q[1]
        /\ AskNext(listing.todo \ {p},
                   listing.found \cup
                     (IF fwd.reply = "peered"
                      THEN {<<p[1], source_id[connections[p[2]].task]>>}
                      ELSE {}))
    /\ UNCHANGED <<tables, tasks, taskVars, handles>>

PeersReturn ==
    /\ fwd.op = "peers"
    /\ fwd.task = None
    /\ listing' = NoListing
    /\ NextIteration(tasks)
    /\ UNCHANGED <<tables, tasks, taskVars, handles>>

(* The voice task has answered an init, status or stop request, or died. *)
Resume ==
    /\ fwd.op \in Asking \ {"peers"}
    /\ Answered(fwd.task)
    /\ NextIteration(tasks)
    /\ UNCHANGED <<tables, tasks, taskVars, listing, handles>>

-----------------------------------------------------------------------------
(* The Forwarder: packets, finished tasks, and its end *)

BugUnboundAccepted(s, a) == connections[s].addr \in {None, a}
BugAnyAddress(s, a) == connections[s].addr # None

Accepts(s, a) == connections[s].addr = a

(* A packet whose source id is unknown, whose session is not established or
   whose sender is not the bound address is dropped: a stuttering step.     *)
RecvPacket(s, a, k) ==
    /\ fwd.op = "select"
    /\ Present(s)
    /\ Accepts(s, a)
    /\ fwd' = Doing("forward", connections[s].task, a, k)
    /\ UNCHANGED <<tables, tasks, taskVars, listing, armed, handles>>

HasRoom(t) == Len(mbox[t]) < MsgCap

(* tx.send(msg).await: waits for room in the queue, fails if the task ended. *)
Deliver ==
    /\ fwd.op = "forward"
    /\ \/ /\ state[fwd.task] \notin Running
          /\ UNCHANGED mbox
       \/ /\ state[fwd.task] \in Running
          /\ HasRoom(fwd.task)
          /\ mbox' = [mbox EXCEPT ![fwd.task] =
                        Append(@, [kind |-> fwd.kind, from |-> fwd.addr])]
    /\ NextIteration(tasks)
    /\ UNCHANGED <<tables, tasks, state, owner, source_id, peer_addr, due,
                   listing, handles>>

BugEntryKept(t) ==
    /\ connections' = [connections EXCEPT ![source_id[t]] = None]
    /\ UNCHANGED client_id_to_src_id

BugNewerEntryForgotten(t) ==
    IF Known(owner[t])
    THEN /\ client_id_to_src_id' = [client_id_to_src_id EXCEPT ![owner[t]] = None]
         /\ connections' = [connections EXCEPT ![source_id[t]] = None]
    ELSE UNCHANGED tables

BugConnectionKept(t) ==
    /\ client_id_to_src_id' = [client_id_to_src_id EXCEPT ![owner[t]] = None]
    /\ UNCHANGED connections

(* A finished task: its client's entry goes if it is still this task's, and
   its connection goes unless its client has no entry at all.               *)
ForgetTask(t) ==
    IF Known(owner[t])
    THEN /\ client_id_to_src_id' =
              [client_id_to_src_id EXCEPT ![owner[t]] =
                 IF @ = source_id[t] THEN None ELSE @]
         /\ connections' = [connections EXCEPT ![source_id[t]] = None]
    ELSE UNCHANGED tables

Reap(t) ==
    /\ fwd.op = "select"
    /\ t \in tasks
    /\ state[t] = "done"
    /\ tasks' = tasks \ {t}
    /\ ForgetTask(t)
    /\ state' = [state EXCEPT ![t] = "free"]
    /\ owner' = [owner EXCEPT ![t] = None]
    /\ source_id' = [source_id EXCEPT ![t] = None]
    /\ peer_addr' = [peer_addr EXCEPT ![t] = None]
    /\ NextIteration(tasks \ {t})
    /\ UNCHANGED <<due, mbox, listing, handles>>

(* The timeout belongs to the whole iteration: it would also fire while an
   event is being handled.                                                  *)
IdleTimeout ==
    /\ fwd.op \notin {"notify", "ended"}
    /\ armed
    /\ fwd' = Doing("notify", None, None, None)
    /\ listing' = NoListing
    /\ UNCHANGED <<tables, tasks, taskVars, armed, handles>>

DropHandles ==
    /\ "drop" \in Allowed
    /\ handles' = FALSE
    /\ UNCHANGED <<tables, tasks, taskVars, fwd, listing, armed>>

ControlClosed ==
    /\ fwd.op = "select"
    /\ ~handles
    /\ fwd' = Doing("notify", None, None, None)
    /\ UNCHANGED <<tables, tasks, taskVars, listing, armed, handles>>

(* The end is announced, and the Forwarder dropped with all it owns; tasks
   that still run are detached.                                             *)
NotifySent ==
    /\ fwd.op = "notify"
    /\ fwd' = Doing("ended", None, None, None)
    /\ connections' = [s \in SrcIds |-> None]
    /\ client_id_to_src_id' = [c \in Clients |-> None]
    /\ tasks' = {}
    /\ UNCHANGED <<taskVars, listing, armed, handles>>

-----------------------------------------------------------------------------
(* The voice tasks *)

AskedFor(t, ops) == fwd.task = t /\ fwd.op \in ops /\ fwd.reply = None
Answer(r) == fwd' = [fwd EXCEPT !.reply = r]

(* Task t returns: its queues are closed and dropped. *)
Finish(t) ==
    /\ state' = [state EXCEPT ![t] = "done"]
    /\ mbox' = [mbox EXCEPT ![t] = <<>>]
    /\ due' = due \ {t}
    /\ UNCHANGED <<tables, tasks, owner, source_id, peer_addr, listing, armed,
                   handles>>

(* The first init makes a waiting task peered; later ones only repeat the key. *)
TaskInit(t) ==
    /\ state[t] \in Running
    /\ AskedFor(t, {"init"})
    /\ Answer("key")
    /\ IF state[t] = "waiting"
       THEN /\ state' = [state EXCEPT ![t] = "peered"]
            /\ peer_addr' = [peer_addr EXCEPT ![t] = fwd.addr]
       ELSE UNCHANGED <<state, peer_addr>>
    /\ UNCHANGED <<tables, tasks, owner, source_id, due, mbox, listing, armed,
                   handles>>

TaskStatus(t) ==
    /\ state[t] \in Running
    /\ AskedFor(t, {"status", "peers"})
    /\ Answer(state[t])
    /\ UNCHANGED <<tables, tasks, taskVars, listing, armed, handles>>

TaskStop(t) ==
    /\ state[t] \in Running
    /\ AskedFor(t, {"stop"})
    /\ Answer("stopped")
    /\ Finish(t)

(* No init within IDLE_TIMEOUT of the start. *)
InitTimeout(t) ==
    /\ state[t] = "waiting"
    /\ Finish(t)
    /\ UNCHANGED fwd

(* IDLE_TIMEOUT passes and no ping is handled. *)
DeadlinePasses(t) ==
    /\ state[t] = "peered"
    /\ t \notin due
    /\ mbox[t] = <<>>
    /\ due' = due \cup {t}
    /\ UNCHANGED <<tables, tasks, state, owner, source_id, peer_addr, mbox,
                   fwd, listing, armed, handles>>

KeepAliveElapsed(t) ==
    /\ state[t] = "peered"
    /\ t \in due
    /\ Finish(t)
    /\ UNCHANGED fwd

(* A ping moves the deadline; voice is passed on; what does not decrypt, or
   a send error while answering, ends the task.                             *)
TaskPacket(t) ==
    /\ state[t] = "peered"
    /\ mbox[t] # <<>>
    /\ UNCHANGED fwd
    /\ \/ /\ Head(mbox[t]).kind # "bad"
          /\ mbox' = [mbox EXCEPT ![t] = Tail(@)]
          /\ due' = IF Head(mbox[t]).kind = "ping" THEN due \ {t} ELSE due
          /\ UNCHANGED <<tables, tasks, state, owner, source_id, peer_addr,
                         listing, armed, handles>>
       \/ /\ Head(mbox[t]).kind \in {"bad", "ping"}
          /\ Finish(t)

(* Another client's voice cannot be encrypted or sent on to this one. *)
RelayFails(t) ==
    /\ state[t] = "peered"
    /\ Finish(t)
    /\ UNCHANGED fwd

(* Every sender to the task is gone: its Conn was dropped. *)
Orphaned(t) ==
    /\ state[t] \in Running
    /\ t \notin ConnTasks
    /\ Finish(t)
    /\ UNCHANGED fwd

-----------------------------------------------------------------------------

ControlRequest ==
    \/ \E c \in Clients :
        \/ OpenConnection(c)
        \/ Leave(c)
        \/ Status(c)
        \/ \E a \in Addrs : Establish(c, a)
    \/ Peers

SocketPacket == \E s \in SrcIds, a \in Addrs, k \in Packets : RecvPacket(s, a, k)

ForwarderStep == PeersNext \/ PeersReturn \/ Resume \/ Deliver \/ NotifySent

TaskStep(t) ==
    \/ TaskInit(t) \/ TaskStatus(t) \/ TaskStop(t) \/ TaskPacket(t)
    \/ RelayFails(t) \/ Orphaned(t)

TaskTimer(t) == InitTimeout(t) \/ DeadlinePasses(t) \/ KeepAliveElapsed(t)

Next ==
    \/ ControlRequest
    \/ SocketPacket
    \/ ForwarderStep
    \/ IdleTimeout \/ DropHandles \/ ControlClosed
    \/ \E t \in Tasks : Reap(t) \/ TaskStep(t) \/ TaskTimer(t)

Spec == Init /\ [][Next]_vars

-----------------------------------------------------------------------------
(* Properties *)

(* Every variable keeps its type, and no packet queue exceeds its capacity. *)
TypeOK ==
    /\ connections \in [SrcIds -> Conn \cup {None}]
    /\ client_id_to_src_id \in [Clients -> SrcIds \cup {None}]
    /\ tasks \subseteq Tasks
    /\ state \in [Tasks -> TaskStates]
    /\ owner \in [Tasks -> Clients \cup {None}]
    /\ source_id \in [Tasks -> SrcIds \cup {None}]
    /\ peer_addr \in [Tasks -> Addrs \cup {None}]
    /\ due \subseteq Tasks
    /\ mbox \in [Tasks -> Seq(Packet)]
    /\ \A t \in Tasks : Len(mbox[t]) <= MsgCap
    /\ fwd \in Forwarder
    /\ listing \in Listing
    /\ armed \in BOOLEAN
    /\ handles \in BOOLEAN

(* A client's entry always leads to a connection: the expect("always
   present") of Establish and the indexing of Status cannot panic, whatever
   the order in which a client's connections are reopened and reaped.       *)
AlwaysPresent == \A c \in Clients : Known(c) => ConnOf(c) # None

(* The Forwarder never hands a packet to a task that is still waiting for
   its address: such a task does not read its queue, so the Forwarder would
   hang on a full one, and every client of the channel with it.             *)
WaitingNotFed ==
    \A t \in Tasks : state[t] = "waiting" =>
        mbox[t] = <<>> /\ ~(fwd.op = "forward" /\ fwd.task = t)

(* The channel ends by its idle timeout only when no voice task is left
   running: the timeout set before an event never outlives a connection
   opened by that event.                                                    *)
EndsIdle ==
    fwd.op = "notify" /\ handles =>
        /\ tasks = {}
        /\ \A t \in Tasks : state[t] \notin Running

(* What the invariants above rest on, when no random source id collides with
   one in use.  Each spawned task knows whom it serves; the Forwarder waits
   only for tasks and connections it knows; a task it has not reaped is led
   to by its connection, and a client's entry leads to such a connection of
   its own; a task left running is one not reaped; a bound connection's task
   has its address or is being given it; only a peered task has packets; and
   the timeout is set exactly while there are no tasks.                      *)
Spawned ==
    \A t \in Tasks : state[t] # "free" =>
        owner[t] \in Clients /\ source_id[t] \in SrcIds
ForwarderKnows ==
    /\ fwd.op \in {"init", "status", "stop", "forward"} => fwd.task \in Tasks
    /\ fwd.op = "forward" => /\ fwd.addr \in Addrs
                             /\ fwd.kind \in Packets
                             /\ state[fwd.task] # "waiting"
    /\ fwd.op # "peers" => listing.todo = {}
    /\ \A p \in listing.todo : Present(p[2])
ConnTracked ==
    \A t \in tasks :
        /\ state[t] # "free"
        /\ Present(source_id[t])
        /\ connections[source_id[t]].task = t
EntryTracked ==
    \A c \in Clients : Known(c) =>
        /\ Present(client_id_to_src_id[c])
        /\ ConnOf(c).task \in tasks
        /\ owner[ConnOf(c).task] = c
        /\ source_id[ConnOf(c).task] = client_id_to_src_id[c]
RunningTracked ==
    fwd.op # "ended" => \A t \in Tasks : state[t] # "free" => t \in tasks
BoundIsTold ==
    /\ \A s \in SrcIds :
        /\ Present(s)
        /\ connections[s].addr # None
        /\ state[connections[s].task] = "waiting"
        => \/ fwd.op = "init" /\ fwd.task = connections[s].task /\ fwd.reply = None
           \/ fwd.op \in {"notify", "ended"}
    /\ \A t \in Tasks : state[t] # "peered" => mbox[t] = <<>>
TimeoutSet ==
    /\ armed => tasks = {}
    /\ fwd.op = "notify" /\ handles => tasks = {}
IInv ==
    /\ TypeOK /\ Spawned /\ ForwarderKnows
    /\ ConnTracked /\ EntryTracked /\ RunningTracked
    /\ BoundIsTold /\ TimeoutSet

(* While nobody opens a connection over an older one of the same client, the
   last task that is reaped leaves no connection behind.                    *)
NoLeak ==
    "reopen" \notin Allowed /\ tasks = {} =>
        \A s \in SrcIds : ~Present(s)

(* While no session is moved to another address, what a task sends goes to
   the very address its packets are accepted from.                          *)
AnswersGoBack ==
    "rebind" \notin Allowed =>
        \A t \in tasks : state[t] = "peered" =>
            /\ connections[source_id[t]].addr = peer_addr[t]
            /\ \A i \in 1..Len(mbox[t]) : mbox[t][i].from = peer_addr[t]

(* A listing of the peers names each client with its own source id. *)
PeersPaired ==
    \A p \in listing.found : \E t \in Tasks :
        owner[t] = p[1] /\ source_id[t] = p[2]

(* The connection of each client, as user_status reports it, does what
   ClientSession promises.                                                  *)
StatusOf(c) ==
    IF ~Known(c) THEN "absent"
    ELSE IF state[ConnOf(c).task] = "done" THEN "stopped"
    ELSE state[ConnOf(c).task]
Reported == [c \in Clients |-> StatusOf(c)]
Session == INSTANCE ClientSession WITH
    MayReopen <- "reopen" \in Allowed,
    MayAbandon <- "drop" \in Allowed,
    session <- Reported
SessionPromise == Session!Spec
=============================================================================
