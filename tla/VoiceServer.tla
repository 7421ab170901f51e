----------------------------- MODULE VoiceServer -----------------------------
(***************************************************************************)
(* The voice server's table of hosted channels, the pool of UDP ports the  *)
(* channels are bound to, and the life of each channel's Forwarder as the  *)
(* table sees it (server/voice/core/src/lib.rs, ports.rs, and the run and  *)
(* Channel parts of channel/mod.rs).                                       *)
(*                                                                         *)
(* Four kinds of task run at once: the callers (gRPC handlers), each       *)
(* holding a clone of a channel's handle while its request is under way;   *)
(* a Forwarder per hosted channel; and the one cleanup task, which removes *)
(* a channel from the table when told that its Forwarder has ended.  What  *)
(* a Forwarder does inside is VoiceChannel; here it is occupied (it has    *)
(* voice tasks) or not, and only an unoccupied one ends.                   *)
(***************************************************************************)
EXTENDS Naturals, FiniteSets, Sequences

CONSTANTS
    Channels,       \* channel ids
    Instances,      \* Forwarders with their sockets, used again once gone
    Callers,        \* tasks that serve requests
    FirstPort, LastPort,
    NotifyCap,      \* capacity of the end notification queue (10 in the code)
    MayPanic,       \* a Forwarder may panic
    None

ASSUME PortRange ==
    FirstPort \in Nat /\ LastPort \in Nat /\ FirstPort <= LastPort
ASSUME NotifyCapPositive == NotifyCap \in Nat \ {0}
ASSUME MayPanicBoolean == MayPanic \in BOOLEAN
ASSUME NoneIsNothing ==
    None \notin Channels \cup Instances \cup Callers \cup (FirstPort..LastPort)

VARIABLES
    channels,   \* channel -> the instance the table holds a handle on, or None
    phase,      \* where each Forwarder is
    chan,       \* the channel an instance was made for
    port,       \* the port an instance's socket is bound to
    occupied,   \* instances with a voice task
    taken,      \* ports whose flag says they are in use
    writer,     \* the caller that holds the table's write lock, or None
    caller,     \* what each caller is doing
    queue,      \* channels whose Forwarders announced their end
    cleaner     \* the channel the cleanup task is about to remove, or None

vars == <<channels, phase, chan, port, occupied, taken, writer, caller,
          queue, cleaner>>

-----------------------------------------------------------------------------
(* Values *)

AllPorts == FirstPort..LastPort
Phases == {"live", "ending", "notified", "closed"}

Caller == [at : {"idle", "scan", "bind", "assigned", "call", "answered"},
           chan : Channels \cup {None},
           port : AllPorts \cup {None},
           inst : Instances \cup {None}]

(* A caller with a clone of instance i's handle *)
Handed(p, i) == [at |-> p, chan |-> None, port |-> None, inst |-> i]
Idle == Handed("idle", None)

(* The receiver of the channel's requests still exists. *)
Healthy(i) == phase[i] # "closed"

(* The socket lives and dies with the receiver. *)
Bound(p) == \E i \in Instances : Healthy(i) /\ port[i] = p

(* Some clone of the handle, and with it the PortRef, exists. *)
InTable(i) == \E c \in Channels : channels[c] = i
HeldBy(i) == {k \in Callers : caller[k].inst = i}
Held(i) == InTable(i) \/ HeldBy(i) # {}

Init ==
    /\ channels = [c \in Channels |-> None]
    /\ phase = [i \in Instances |-> "closed"]
    /\ chan = [i \in Instances |-> None]
    /\ port = [i \in Instances |-> None]
    /\ occupied = {}
    /\ taken = {}
    /\ writer = None
    /\ caller = [k \in Callers |-> Idle]
    /\ queue = <<>>
    /\ cleaner = None

-----------------------------------------------------------------------------
(* Callers: assign_channel.  Operators named Bug... are no part of the
   specification: each is a faulty form of the definition that follows it,
   which some property must reject.                                         *)

BugAssignReplaces(c) == TRUE

Vacant(c) == channels[c] = None

(* The write lock is held until the request has its result. *)
AssignChannel(k, c) ==
    /\ caller[k].at = "idle"
    /\ writer = None
    /\ IF Vacant(c)
       THEN /\ writer' = k
            /\ caller' = [caller EXCEPT ![k] =
                 [at |-> "scan", chan |-> c, port |-> FirstPort, inst |-> None]]
       ELSE /\ caller' = [caller EXCEPT ![k] = Handed("assigned", channels[c])]
            /\ UNCHANGED writer
    /\ UNCHANGED <<channels, phase, chan, port, occupied, taken, queue, cleaner>>

HasNext(p) == p < LastPort

(* Ports::get looks at one flag after the other, each with an atomic swap. *)
ProbePort(k) ==
    /\ caller[k].at = "scan"
    /\ LET p == caller[k].port
       IN \/ /\ p \notin taken
             /\ taken' = taken \cup {p}
             /\ caller' = [caller EXCEPT ![k].at = "bind"]
             /\ UNCHANGED writer
          \/ /\ p \in taken
             /\ HasNext(p)
             /\ caller' = [caller EXCEPT ![k].port = p + 1]
             /\ UNCHANGED <<taken, writer>>
          \/ /\ p \in taken         \* ports exhausted
             /\ ~HasNext(p)
             /\ caller' = [caller EXCEPT ![k] = Idle]
             /\ writer' = None
             /\ UNCHANGED taken
    /\ UNCHANGED <<channels, phase, chan, port, occupied, queue, cleaner>>

(* Channel::new: binding the socket fails while another one has the port, be
   it ours or a stranger's, and the port is then given back; else the
   Forwarder starts.                                                         *)
BindSocket(k) ==
    /\ caller[k].at = "bind"
    /\ writer' = None
    /\ LET p == caller[k].port
           c == caller[k].chan
       IN \/ /\ taken' = taken \ {p}
             /\ caller' = [caller EXCEPT ![k] = Idle]
             /\ UNCHANGED <<channels, phase, chan, port>>
          \/ /\ ~Bound(p)
             /\ \E i \in Instances :
                 /\ ~Healthy(i)
                 /\ ~Held(i)
                 /\ phase' = [phase EXCEPT ![i] = "live"]
                 /\ chan' = [chan EXCEPT ![i] = c]
                 /\ port' = [port EXCEPT ![i] = p]
                 /\ channels' = [channels EXCEPT ![c] = i]
                 /\ caller' = [caller EXCEPT ![k] = Handed("assigned", i)]
             /\ UNCHANGED taken
    /\ UNCHANGED <<occupied, queue, cleaner>>

-----------------------------------------------------------------------------
(* Callers: requests to a channel *)

(* get_channel: an entry whose receiver is gone counts as not found. *)
GetChannel(k, c) ==
    /\ caller[k].at = "idle"
    /\ writer = None
    /\ channels[c] # None
    /\ Healthy(channels[c])
    /\ caller' = [caller EXCEPT ![k] = Handed("call", channels[c])]
    /\ UNCHANGED <<channels, phase, chan, port, occupied, taken, writer, queue,
                   cleaner>>

(* The Forwarder takes the request and answers it; open_connection leaves a
   voice task behind.                                                       *)
Serve(k) ==
    /\ caller[k].at = "call"
    /\ phase[caller[k].inst] = "live"
    /\ caller' = [caller EXCEPT ![k].at = "answered"]
    /\ \/ occupied' = occupied \cup {caller[k].inst}
       \/ UNCHANGED occupied
    /\ UNCHANGED <<channels, phase, chan, port, taken, writer, queue, cleaner>>

BugUnheardRefusal(k) == FALSE

(* The receiver is gone: sending fails, or the queued request is dropped. *)
Refused(k) == phase[caller[k].inst] = "closed"

Refuse(k) ==
    /\ caller[k].at = "call"
    /\ Refused(k)
    /\ caller' = [caller EXCEPT ![k].at = "answered"]
    /\ UNCHANGED <<channels, phase, chan, port, occupied, taken, writer, queue,
                   cleaner>>

BugFreedEarly(ports, i, others) == ports \ {port[i]}

(* PortRef::drop: the last handle on instance i frees its port. *)
FreePort(ports, i, others) == IF others THEN ports ELSE ports \ {port[i]}

(* The caller is done and drops its handle. *)
Release(k) ==
    /\ caller[k].at \in {"assigned", "answered"}
    /\ caller' = [caller EXCEPT ![k] = Idle]
    /\ LET i == caller[k].inst
       IN taken' = FreePort(taken, i, InTable(i) \/ HeldBy(i) # {k})
    /\ UNCHANGED <<channels, phase, chan, port, occupied, writer, queue, cleaner>>

-----------------------------------------------------------------------------
(* Forwarders *)

Step(i, from, to) ==
    /\ phase[i] = from
    /\ phase' = [phase EXCEPT ![i] = to]

(* The last voice task has been reaped. *)
Vacate(i) ==
    /\ phase[i] = "live"
    /\ i \in occupied
    /\ occupied' = occupied \ {i}
    /\ UNCHANGED <<channels, phase, chan, port, taken, writer, caller, queue,
                   cleaner>>

IdleTimeout(i) ==
    /\ i \notin occupied
    /\ Step(i, "live", "ending")
    /\ UNCHANGED <<channels, chan, port, occupied, taken, writer, caller, queue,
                   cleaner>>

BugNotifiedTwice(i) ==
    /\ Len(queue) < NotifyCap
    /\ phase[i] \in {"ending", "notified"}
    /\ phase' = [phase EXCEPT ![i] = "notified"]
    /\ queue' = Append(queue, chan[i])

BugDroppedWhenFull(i) ==
    /\ Step(i, "ending", "notified")
    /\ queue' = IF Len(queue) < NotifyCap THEN Append(queue, chan[i]) ELSE queue

Announce(i) ==
    /\ Len(queue) < NotifyCap
    /\ Step(i, "ending", "notified")
    /\ queue' = Append(queue, chan[i])

(* end_notify.send: waits for room in the queue. *)
NotifyEnd(i) ==
    /\ Announce(i)
    /\ UNCHANGED <<channels, chan, port, occupied, taken, writer, caller, cleaner>>

(* The Forwarder is dropped: receiver and socket are closed. *)
Close(i) ==
    /\ Step(i, "notified", "closed")
    /\ UNCHANGED <<channels, chan, port, occupied, taken, writer, caller, queue,
                   cleaner>>

(* The task unwinds: it is dropped, and nobody is told. *)
Panic(i) ==
    /\ MayPanic
    /\ Step(i, "live", "closed")
    /\ occupied' = occupied \ {i}
    /\ UNCHANGED <<channels, chan, port, taken, writer, caller, queue, cleaner>>

-----------------------------------------------------------------------------
(* The cleanup task *)

ReceiveEnd ==
    /\ cleaner = None
    /\ queue # <<>>
    /\ cleaner' = Head(queue)
    /\ queue' = Tail(queue)
    /\ UNCHANGED <<channels, phase, chan, port, occupied, taken, writer, caller>>

RemoveChannel ==
    /\ cleaner # None
    /\ writer = None
    /\ channels' = [channels EXCEPT ![cleaner] = None]
    /\ LET i == channels[cleaner]
       IN taken' = IF i = None THEN taken ELSE FreePort(taken, i, HeldBy(i) # {})
    /\ cleaner' = None
    /\ UNCHANGED <<phase, chan, port, occupied, writer, caller, queue>>

-----------------------------------------------------------------------------

CallerStep(k) ==
    \/ ProbePort(k) \/ BindSocket(k) \/ Serve(k) \/ Refuse(k) \/ Release(k)

ForwarderStep(i) == IdleTimeout(i) \/ NotifyEnd(i) \/ Close(i)

Next ==
    \/ \E k \in Callers :
        \/ \E c \in Channels : AssignChannel(k, c) \/ GetChannel(k, c)
        \/ CallerStep(k)
    \/ \E i \in Instances : ForwarderStep(i) \/ Vacate(i) \/ Panic(i)
    \/ ReceiveEnd
    \/ RemoveChannel

Spec == Init /\ [][Next]_vars

(***************************************************************************)
(* Tasks are scheduled and timers fire.  The table's lock is fair (tokio   *)
(* queues its waiters), so RemoveChannel gets it in turn: strong fairness; *)
(* so does the sender to a bounded queue.  Nothing is assumed of callers   *)
(* that ask nothing, nor that a channel ever becomes idle.                 *)
(***************************************************************************)
Fairness ==
    /\ \A k \in Callers : WF_vars(CallerStep(k))
    /\ \A i \in Instances :
        /\ WF_vars(Close(i))
        /\ SF_vars(NotifyEnd(i))
    /\ WF_vars(ReceiveEnd)
    /\ SF_vars(RemoveChannel)

FairSpec == Spec /\ Fairness

-----------------------------------------------------------------------------
(* Properties *)

(* Every variable keeps its type, and the notification queue its capacity. *)
TypeOK ==
    /\ channels \in [Channels -> Instances \cup {None}]
    /\ phase \in [Instances -> Phases]
    /\ chan \in [Instances -> Channels \cup {None}]
    /\ port \in [Instances -> AllPorts \cup {None}]
    /\ occupied \subseteq Instances
    /\ taken \subseteq AllPorts
    /\ writer \in Callers \cup {None}
    /\ caller \in [Callers -> Caller]
    /\ queue \in Seq(Channels)
    /\ Len(queue) <= NotifyCap
    /\ cleaner \in Channels \cup {None}

(* A port is marked as in use exactly while an instance that somebody holds,
   or the caller that is about to bind it, owns it; and it has one owner.
   No interleaving of handles dropped by callers and by the cleanup task
   loses a port or frees it under a channel that is still in use.           *)
Binding(p) == {k \in Callers : caller[k].at = "bind" /\ caller[k].port = p}
Owners(p) == {i \in Instances : Held(i) /\ port[i] = p}
PortsOwned ==
    \A p \in AllPorts :
        Cardinality(Binding(p)) + Cardinality(Owners(p)) =
            IF p \in taken THEN 1 ELSE 0

(* What the cleanup task removes has ended: a notification, which names only
   the channel, never removes a later instance of the same channel.         *)
Ended(c) ==
    channels[c] # None => phase[channels[c]] \in {"notified", "closed"}
Announced == {queue[n] : n \in 1..Len(queue)}
CleanupSparesLive ==
    \A c \in Channels : c \in Announced \/ c = cleaner => Ended(c)

(* A channel has at most one running Forwarder on this server, and it is the
   one the table leads to, so none is left running beyond anybody's reach.  *)
RunningInTable ==
    \A i \in Instances :
        phase[i] \in {"live", "ending"} => channels[chan[i]] = i

(* What makes the three above inductive: a caller that assigns a channel holds
   the table's lock, and the channel is vacant until it is done; a caller holds
   a handle exactly when it was handed one; the table leads to a Forwarder made
   for that very channel; a channel that has ended is announced once, and stays
   in the table until the cleanup task has removed it; and a port in use is
   either being bound or owned by one instance.                             *)
AssignerHasTable ==
    \A k \in Callers : caller[k].at \in {"scan", "bind"} =>
        /\ writer = k
        /\ caller[k].port \in AllPorts
        /\ caller[k].chan \in Channels
        /\ Vacant(caller[k].chan)
HandlesHeld ==
    \A k \in Callers :
        caller[k].inst # None <=> caller[k].at \in {"assigned", "call", "answered"}
TableNamesChannel ==
    /\ \A c \in Channels : channels[c] # None => chan[channels[c]] = c
    /\ \A i \in Instances : Healthy(i) => chan[i] \in Channels
EndsPending ==
    /\ \A c \in Channels : c \in Announced \/ c = cleaner => ~Vacant(c) /\ Ended(c)
    /\ \A m, n \in 1..Len(queue) : m # n => queue[m] # queue[n]
    /\ cleaner \notin Announced
PortsExact ==
    /\ \A i \in Instances : Held(i) => port[i] \in AllPorts
    /\ \A i, j \in Instances : Held(i) /\ Held(j) /\ port[i] = port[j] => i = j
    /\ \A p \in AllPorts : Binding(p) # {} => Owners(p) = {}
    /\ \A p \in AllPorts : p \in taken <=> Binding(p) # {} \/ Owners(p) # {}
IInv ==
    /\ TypeOK
    /\ AssignerHasTable
    /\ HandlesHeld
    /\ TableNamesChannel
    /\ EndsPending
    /\ RunningInTable
    /\ PortsExact

(* Every channel that is to announce its end leaves the table, and every
   caller that waits on an ended one is answered, however the two interleave
   and whichever other Forwarders panic.                                    *)
EndedIsRemoved ==
    \A i \in Instances, c \in Channels :
        (phase[i] \in {"ending", "notified"} /\ channels[c] = i)
            ~> (channels[c] # i)
CallersAnswered ==
    \A k \in Callers :
        (caller[k].at = "call" /\ phase[caller[k].inst] # "live")
            ~> (caller[k].at # "call")
=============================================================================
