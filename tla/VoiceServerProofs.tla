-------------------------- MODULE VoiceServerProofs --------------------------
(***************************************************************************)
(* Proofs about VoiceServer, for any number of channels, instances and     *)
(* callers, any range of ports and any capacity of the queue.              *)
(***************************************************************************)
EXTENDS VoiceServer, FiniteSetTheorems, TLAPS

-----------------------------------------------------------------------------
(* Type correctness *)

(* The initial state is well typed. *)
LEMMA InitTypeOK == Init => TypeOK
BY NotifyCapPositive DEF Init, TypeOK, Idle, Handed, Caller, Phases

(* Callers that do nothing, or that were handed an instance, are well typed. *)
LEMMA CallerType ==
    /\ Idle \in Caller
    /\ \A i \in Instances \cup {None} :
        /\ Handed("assigned", i) \in Caller
        /\ Handed("call", i) \in Caller
BY DEF Idle, Handed, Caller

(* What a caller does to assign a channel keeps the types. *)
LEMMA AssignType ==
    ASSUME IInv, NEW k \in Callers,
           (\E c \in Channels : AssignChannel(k, c)) \/ ProbePort(k) \/ BindSocket(k)
    PROVE  TypeOK'
<1> USE DEF IInv
<1>1. ASSUME NEW c \in Channels, AssignChannel(k, c) PROVE TypeOK'
  <2>1. FirstPort \in AllPorts
    BY PortRange DEF AllPorts
  <2>2. /\ [at |-> "scan", chan |-> c, port |-> FirstPort, inst |-> None] \in Caller
        /\ channels[c] \in Instances \cup {None}
    BY <2>1 DEF Caller, TypeOK
  <2>3. caller' \in [Callers -> Caller] /\ writer' \in Callers \cup {None}
    BY <1>1, <2>2, CallerType DEF AssignChannel, TypeOK
  <2> QED BY <1>1, <2>3 DEF AssignChannel, TypeOK
<1>2. CASE ProbePort(k)
  <2>1. caller[k].port \in AllPorts
    BY <1>2 DEF AssignerHasTable, ProbePort
  <2>2. HasNext(caller[k].port) => caller[k].port + 1 \in AllPorts
    BY <2>1, PortRange DEF HasNext, AllPorts
  <2>3. caller' \in [Callers -> Caller]
    <3>1. CASE UNCHANGED taken /\ ~HasNext(caller[k].port)
      BY <1>2, <3>1, CallerType DEF ProbePort, TypeOK
    <3>2. CASE HasNext(caller[k].port)
      BY <1>2, <2>2, <3>2 DEF ProbePort, TypeOK, Caller
    <3>3. CASE caller' = [caller EXCEPT ![k].at = "bind"]
      BY <3>3 DEF TypeOK, Caller
    <3> QED BY <1>2, <3>1, <3>2, <3>3 DEF ProbePort
  <2>4. writer' \in Callers \cup {None} /\ taken' \subseteq AllPorts
    BY <1>2, <2>1 DEF ProbePort, TypeOK
  <2> QED BY <1>2, <2>3, <2>4 DEF ProbePort, TypeOK
<1>3. CASE BindSocket(k)
  <2>1. caller[k].port \in AllPorts /\ caller[k].chan \in Channels
    BY <1>3 DEF AssignerHasTable, BindSocket
  <2>2. caller' \in [Callers -> Caller]
    <3>1. CASE caller' = [caller EXCEPT ![k] = Idle]
      BY <3>1, CallerType DEF TypeOK
    <3>2. ASSUME NEW i \in Instances,
                 caller' = [caller EXCEPT ![k] =
                              Handed("assigned", i)]
          PROVE  caller' \in [Callers -> Caller]
      BY <3>2, CallerType DEF TypeOK
    <3> QED BY <1>3, <3>1, <3>2 DEF BindSocket
  <2>3. /\ channels' \in [Channels -> Instances \cup {None}]
        /\ phase' \in [Instances -> Phases]
        /\ chan' \in [Instances -> Channels \cup {None}]
        /\ port' \in [Instances -> AllPorts \cup {None}]
    <3>1. CASE UNCHANGED <<channels, phase, chan, port>>
      BY <3>1 DEF TypeOK
    <3>2. ASSUME NEW i \in Instances,
                 phase' = [phase EXCEPT ![i] = "live"],
                 chan' = [chan EXCEPT ![i] = caller[k].chan],
                 port' = [port EXCEPT ![i] = caller[k].port],
                 channels' = [channels EXCEPT ![caller[k].chan] = i]
          PROVE  /\ channels' \in [Channels -> Instances \cup {None}]
                 /\ phase' \in [Instances -> Phases]
                 /\ chan' \in [Instances -> Channels \cup {None}]
                 /\ port' \in [Instances -> AllPorts \cup {None}]
      BY <2>1, <3>2 DEF TypeOK, Phases
    <3> QED BY <1>3, <3>1, <3>2 DEF BindSocket
  <2>4. taken' \subseteq AllPorts
    BY <1>3 DEF BindSocket, TypeOK
  <2> QED BY <1>3, <2>2, <2>3, <2>4 DEF BindSocket, TypeOK
<1> QED BY <1>1, <1>2, <1>3

(* What a caller does with a channel's handle keeps the types. *)
LEMMA UseType ==
    ASSUME IInv, NEW k \in Callers,
           \/ \E c \in Channels : GetChannel(k, c)
           \/ Serve(k) \/ Refuse(k) \/ Release(k)
    PROVE  TypeOK'
<1> USE DEF IInv
<1>1. caller[k] \in Caller
  BY DEF TypeOK
<1>2. caller' \in [Callers -> Caller]
  <2>1. ASSUME NEW c \in Channels, GetChannel(k, c) PROVE caller' \in [Callers -> Caller]
    BY <2>1, CallerType DEF GetChannel, TypeOK
  <2>2. CASE Serve(k) \/ Refuse(k)
    BY <1>1, <2>2 DEF Serve, Refuse, TypeOK, Caller
  <2>3. CASE Release(k)
    BY <2>3, CallerType DEF Release, TypeOK
  <2> QED BY <2>1, <2>2, <2>3
<1>3. ASSUME Serve(k) PROVE occupied' \subseteq Instances
  <2>1. caller[k].inst \in Instances
    BY <1>1, <1>3 DEF HandlesHeld, Serve, Caller
  <2> QED BY <1>3, <2>1 DEF Serve, TypeOK
<1>4. ASSUME Release(k) PROVE taken' \subseteq AllPorts
  BY <1>4 DEF Release, FreePort, TypeOK
<1> QED BY <1>2, <1>3, <1>4 DEF GetChannel, Serve, Refuse, Release, TypeOK

(* What the Forwarders and the cleanup task do keeps the types. *)
LEMMA ServerType ==
    ASSUME IInv,
           \/ \E i \in Instances : ForwarderStep(i) \/ Vacate(i) \/ Panic(i)
           \/ ReceiveEnd \/ RemoveChannel
    PROVE  TypeOK'
<1> USE DEF IInv
<1>1. ASSUME NEW i \in Instances, NotifyEnd(i) PROVE TypeOK'
  <2>1. chan[i] \in Channels
    BY <1>1 DEF TableNamesChannel, NotifyEnd, Announce, Step, Healthy
  <2>2. queue' \in Seq(Channels) /\ Len(queue') <= NotifyCap
    BY <1>1, <2>1, NotifyCapPositive DEF NotifyEnd, Announce, TypeOK
  <2>3. phase' \in [Instances -> Phases]
    BY <1>1 DEF NotifyEnd, Announce, Step, TypeOK, Phases
  <2> QED BY <1>1, <2>2, <2>3 DEF NotifyEnd, Announce, TypeOK
<1>2. ASSUME NEW i \in Instances,
             IdleTimeout(i) \/ Close(i) \/ Vacate(i) \/ Panic(i)
      PROVE  TypeOK'
  <2>1. phase' \in [Instances -> Phases] /\ occupied' \subseteq Instances
    BY <1>2 DEF IdleTimeout, Close, Vacate, Panic, Step, TypeOK, Phases
  <2> QED BY <1>2, <2>1 DEF IdleTimeout, Close, Vacate, Panic, TypeOK
<1>3. CASE ReceiveEnd
  <2>1. Head(queue) \in Channels /\ Tail(queue) \in Seq(Channels)
           /\ Len(Tail(queue)) <= NotifyCap
    BY <1>3, NotifyCapPositive DEF ReceiveEnd, TypeOK
  <2> QED BY <1>3, <2>1 DEF ReceiveEnd, TypeOK
<1>4. CASE RemoveChannel
  <2>1. channels' \in [Channels -> Instances \cup {None}] /\ taken' \subseteq AllPorts
    BY <1>4 DEF RemoveChannel, FreePort, TypeOK
  <2> QED BY <1>4, <2>1 DEF RemoveChannel, TypeOK
<1> QED BY <1>1, <1>2, <1>3, <1>4 DEF ForwarderStep

(* Every step keeps every variable's type, and the queue its capacity. *)
LEMMA NextTypeOK == IInv /\ [Next]_vars => TypeOK'
<1> SUFFICES ASSUME IInv, [Next]_vars PROVE TypeOK'
  OBVIOUS
<1>1. CASE UNCHANGED vars
  BY <1>1 DEF vars, IInv, TypeOK
<1> QED BY <1>1, AssignType, UseType, ServerType DEF Next, CallerStep

-----------------------------------------------------------------------------
(* Callers: the table's lock, and the handles they hold *)

(* Only the caller itself changes what it is doing. *)
LEMMA OthersWait ==
    ASSUME TypeOK, NEW k \in Callers,
           \/ \E c \in Channels : AssignChannel(k, c) \/ GetChannel(k, c)
           \/ CallerStep(k)
    PROVE  \A l \in Callers \ {k} : caller'[l] = caller[l]
BY DEF AssignChannel, GetChannel, CallerStep, ProbePort, BindSocket, Serve,
       Refuse, Release, TypeOK

(* While a channel is being assigned it stays vacant: nobody else may touch
   the table's entry without its lock.                                      *)
LEMMA NextAssignerHasTable == IInv /\ [Next]_vars => AssignerHasTable'
<1> SUFFICES ASSUME IInv, [Next]_vars PROVE AssignerHasTable'
  OBVIOUS
<1>0. TypeOK /\ AssignerHasTable
  BY DEF IInv
<1>1. ASSUME NEW k \in Callers, NEW c \in Channels, AssignChannel(k, c)
      PROVE  AssignerHasTable'
  <2>1. FirstPort \in AllPorts
    BY PortRange DEF AllPorts
  <2>2. \A l \in Callers : caller[l].at \notin {"scan", "bind"}
    BY <1>0, <1>1, NoneIsNothing DEF AssignChannel, AssignerHasTable
  <2>3. \A l \in Callers \ {k} : caller'[l] = caller[l]
    BY <1>0, <1>1, OthersWait
  <2>4. /\ UNCHANGED channels
        /\ \/ /\ Vacant(c)
              /\ writer' = k
              /\ caller'[k] =
                   [at |-> "scan", chan |-> c, port |-> FirstPort, inst |-> None]
           \/ caller'[k].at = "assigned"
    BY <1>0, <1>1 DEF AssignChannel, TypeOK, Idle, Handed
  <2> QED BY <2>1, <2>2, <2>3, <2>4 DEF AssignerHasTable, Vacant
<1>2. ASSUME NEW k \in Callers, ProbePort(k) PROVE AssignerHasTable'
  <2>1. /\ writer = k
        /\ caller[k].port \in AllPorts
        /\ caller[k].chan \in Channels
        /\ Vacant(caller[k].chan)
    BY <1>0, <1>2 DEF AssignerHasTable, ProbePort
  <2>2. \A l \in Callers \ {k} : caller[l].at \notin {"scan", "bind"}
    BY <1>0, <2>1 DEF AssignerHasTable
  <2>3. \A l \in Callers \ {k} : caller'[l] = caller[l]
    BY <1>0, <1>2, OthersWait DEF CallerStep
  <2>4. UNCHANGED channels
    BY <1>2 DEF ProbePort
  <2>5. caller[k].port \in taken /\ HasNext(caller[k].port) =>
            caller[k].port + 1 \in AllPorts
    BY <2>1, PortRange DEF HasNext, AllPorts
  <2>6. \/ caller'[k].at = "idle"
        \/ /\ writer' = k
           /\ caller'[k].chan = caller[k].chan
           /\ caller'[k].port \in AllPorts
    BY <1>0, <1>2, <2>1, <2>5 DEF ProbePort, TypeOK, Caller, Idle, Handed
  <2> QED BY <2>1, <2>2, <2>3, <2>4, <2>6 DEF AssignerHasTable, Vacant
<1>3. ASSUME NEW k \in Callers, BindSocket(k) PROVE AssignerHasTable'
  <2>1. writer = k
    BY <1>0, <1>3 DEF AssignerHasTable, BindSocket
  <2>2. \A l \in Callers \ {k} : caller[l].at \notin {"scan", "bind"}
    BY <1>0, <2>1 DEF AssignerHasTable
  <2>3. \A l \in Callers \ {k} : caller'[l] = caller[l]
    BY <1>0, <1>3, OthersWait DEF CallerStep
  <2>4. caller'[k].at \notin {"scan", "bind"}
    BY <1>0, <1>3 DEF BindSocket, TypeOK, Idle, Handed
  <2> QED BY <2>2, <2>3, <2>4 DEF AssignerHasTable
<1>4. ASSUME NEW k \in Callers,
             \/ \E c \in Channels : GetChannel(k, c)
             \/ Serve(k) \/ Refuse(k) \/ Release(k)
      PROVE  AssignerHasTable'
  <2>1. UNCHANGED <<channels, writer>>
    BY <1>4 DEF GetChannel, Serve, Refuse, Release
  <2>2. \A l \in Callers \ {k} : caller'[l] = caller[l]
    BY <1>0, <1>4, OthersWait DEF CallerStep
  <2>3. caller'[k].at \notin {"scan", "bind"}
    BY <1>0, <1>4 DEF GetChannel, Serve, Refuse, Release, TypeOK, Caller, Idle, Handed
  <2> QED BY <1>0, <2>1, <2>2, <2>3 DEF AssignerHasTable, Vacant
<1>5. CASE RemoveChannel
  <2>1. \A l \in Callers : caller[l].at \notin {"scan", "bind"}
    BY <1>0, <1>5, NoneIsNothing DEF RemoveChannel, AssignerHasTable
  <2> QED BY <1>5, <2>1 DEF RemoveChannel, AssignerHasTable
<1>6. CASE \/ \E i \in Instances : ForwarderStep(i) \/ Vacate(i) \/ Panic(i)
           \/ ReceiveEnd \/ UNCHANGED vars
  <2>1. UNCHANGED <<channels, writer, caller>>
    BY <1>6 DEF ForwarderStep, IdleTimeout, NotifyEnd, Close, Vacate, Panic,
                ReceiveEnd, vars
  <2> QED BY <1>0, <2>1 DEF AssignerHasTable, Vacant
<1> QED BY <1>1, <1>2, <1>3, <1>4, <1>5, <1>6 DEF Next, CallerStep

(* A caller holds a handle from being handed it until it drops it. *)
LEMMA NextHandlesHeld == IInv /\ [Next]_vars => HandlesHeld'
<1> SUFFICES ASSUME IInv, [Next]_vars PROVE HandlesHeld'
  OBVIOUS
<1>0. TypeOK /\ HandlesHeld /\ None \notin Instances
  BY NoneIsNothing DEF IInv
<1>1. ASSUME NEW k \in Callers, NEW c \in Channels,
             AssignChannel(k, c) \/ GetChannel(k, c)
      PROVE  HandlesHeld'
  <2>1. \A l \in Callers \ {k} : caller'[l] = caller[l]
    BY <1>0, <1>1, OthersWait
  <2>2. \/ caller'[k].at = "scan" /\ caller'[k].inst = None
        \/ caller'[k].at \in {"assigned", "call"} /\ caller'[k].inst # None
    BY <1>0, <1>1 DEF AssignChannel, GetChannel, Vacant, Idle, Handed, TypeOK
  <2> QED BY <1>0, <2>1, <2>2 DEF HandlesHeld
<1>2. ASSUME NEW k \in Callers, CallerStep(k) PROVE HandlesHeld'
  <2>1. \A l \in Callers \ {k} : caller'[l] = caller[l]
    BY <1>0, <1>2, OthersWait
  <2>2. \/ /\ caller'[k].at \in {"idle", "scan", "bind"}
           /\ caller'[k].inst = None
        \/ /\ caller'[k].at \in {"assigned", "answered"}
           /\ caller'[k].inst # None
    <3>1. CASE ProbePort(k)
      BY <1>0, <3>1 DEF ProbePort, HandlesHeld, Idle, Handed, TypeOK, Caller
    <3>2. CASE BindSocket(k)
      BY <1>0, <3>2 DEF BindSocket, Idle, Handed, TypeOK
    <3>3. CASE Serve(k) \/ Refuse(k)
      BY <1>0, <3>3 DEF Serve, Refuse, HandlesHeld, TypeOK, Caller
    <3>4. CASE Release(k)
      BY <1>0, <3>4 DEF Release, Idle, Handed, TypeOK
    <3> QED BY <1>2, <3>1, <3>2, <3>3, <3>4 DEF CallerStep
  <2> QED BY <1>0, <2>1, <2>2 DEF HandlesHeld
<1>3. CASE \/ \E i \in Instances : ForwarderStep(i) \/ Vacate(i) \/ Panic(i)
           \/ ReceiveEnd \/ RemoveChannel \/ UNCHANGED vars
  <2>1. UNCHANGED caller
    BY <1>3 DEF ForwarderStep, IdleTimeout, NotifyEnd, Close, Vacate, Panic,
                ReceiveEnd, RemoveChannel, vars
  <2> QED BY <1>0, <2>1 DEF HandlesHeld
<1> QED BY <1>1, <1>2, <1>3 DEF Next

-----------------------------------------------------------------------------
(* The table, and the Forwarders it leads to *)

(* A socket that is bound: either nothing but the port is given back, or a
   Forwarder that nobody had a handle on starts for a vacant channel.       *)
LEMMA BindOutcome ==
    ASSUME IInv, NEW k \in Callers, BindSocket(k)
    PROVE  \/ /\ taken' = taken \ {caller[k].port}
              /\ caller' = [caller EXCEPT ![k] = Idle]
              /\ UNCHANGED <<channels, phase, chan, port, queue, cleaner>>
           \/ \E i \in Instances :
                /\ ~Healthy(i)
                /\ ~Held(i)
                /\ caller[k].chan \in Channels
                /\ Vacant(caller[k].chan)
                /\ phase' = [phase EXCEPT ![i] = "live"]
                /\ chan' = [chan EXCEPT ![i] = caller[k].chan]
                /\ port' = [port EXCEPT ![i] = caller[k].port]
                /\ channels' = [channels EXCEPT ![caller[k].chan] = i]
                /\ caller' = [caller EXCEPT ![k] = Handed("assigned", i)]
                /\ UNCHANGED <<taken, queue, cleaner>>
<1>1. caller[k].chan \in Channels /\ Vacant(caller[k].chan)
  BY DEF IInv, AssignerHasTable, BindSocket
<1> QED BY <1>1 DEF BindSocket

(* The steps of Forwarders, and of callers but BindSocket, leave the table
   and the instances' channels and ports alone.                             *)
LEMMA TableKept ==
    ASSUME \/ \E k \in Callers :
                \/ \E c \in Channels : AssignChannel(k, c) \/ GetChannel(k, c)
                \/ ProbePort(k) \/ Serve(k) \/ Refuse(k) \/ Release(k)
           \/ \E i \in Instances : ForwarderStep(i) \/ Vacate(i) \/ Panic(i)
           \/ ReceiveEnd \/ UNCHANGED vars
    PROVE  UNCHANGED <<channels, chan, port>>
BY DEF AssignChannel, GetChannel, ProbePort, Serve, Refuse, Release,
       ForwarderStep, IdleTimeout, NotifyEnd, Announce, Step, Close, Vacate,
       Panic, ReceiveEnd, vars

(* A Forwarder is started by BindSocket only. *)
LEMMA NoneRevives ==
    ASSUME TypeOK,
           \/ \E k \in Callers :
                \/ \E c \in Channels : AssignChannel(k, c) \/ GetChannel(k, c)
                \/ ProbePort(k) \/ Serve(k) \/ Refuse(k) \/ Release(k)
           \/ \E i \in Instances : ForwarderStep(i) \/ Vacate(i) \/ Panic(i)
           \/ ReceiveEnd \/ RemoveChannel \/ UNCHANGED vars
    PROVE  \A j \in Instances :
             /\ phase'[j] # "closed" => phase[j] # "closed"
             /\ phase'[j] \in {"live", "ending"} => phase[j] \in {"live", "ending"}
<1>1. \/ UNCHANGED phase
      \/ \E i \in Instances :
           \/ Step(i, "live", "ending") \/ Step(i, "ending", "notified")
           \/ Step(i, "notified", "closed") \/ Step(i, "live", "closed")
  BY DEF AssignChannel, GetChannel, ProbePort, Serve, Refuse, Release,
         ForwarderStep, IdleTimeout, NotifyEnd, Announce, Close, Vacate,
         Panic, ReceiveEnd, RemoveChannel, vars
<1> QED BY <1>1 DEF Step, TypeOK

(* The table leads to Forwarders that were made for the channel. *)
LEMMA NextTableNamesChannel == IInv /\ [Next]_vars => TableNamesChannel'
<1> SUFFICES ASSUME IInv, [Next]_vars PROVE TableNamesChannel'
  OBVIOUS
<1>0. TypeOK /\ TableNamesChannel /\ None \notin Instances
  BY NoneIsNothing DEF IInv
<1>1. ASSUME NEW k \in Callers, BindSocket(k) PROVE TableNamesChannel'
  <2>1. CASE UNCHANGED <<channels, phase, chan>>
    BY <1>0, <2>1 DEF TableNamesChannel, Healthy
  <2>2. ASSUME NEW i \in Instances, ~Held(i),
               caller[k].chan \in Channels,
               phase' = [phase EXCEPT ![i] = "live"],
               chan' = [chan EXCEPT ![i] = caller[k].chan],
               channels' = [channels EXCEPT ![caller[k].chan] = i]
        PROVE  TableNamesChannel'
    <3>1. \A d \in Channels : channels[d] # i
      BY <2>2 DEF Held, InTable
    <3>2. \A d \in Channels : channels'[d] # None => chan'[channels'[d]] = d
      BY <1>0, <2>2, <3>1 DEF TableNamesChannel, TypeOK
    <3>3. \A j \in Instances : phase'[j] # "closed" => chan'[j] \in Channels
      BY <1>0, <2>2 DEF TableNamesChannel, TypeOK, Healthy
    <3> QED BY <3>2, <3>3 DEF TableNamesChannel, Healthy
  <2> QED BY <1>1, <2>1, <2>2, BindOutcome
<1>2. CASE RemoveChannel
  <2>1. /\ channels' = [channels EXCEPT ![cleaner] = None]
        /\ UNCHANGED <<phase, chan>>
    BY <1>2 DEF RemoveChannel
  <2> QED BY <1>0, <2>1 DEF TableNamesChannel, TypeOK, Healthy
<1>3. CASE /\ UNCHANGED <<channels, chan>>
           /\ \A j \in Instances : phase'[j] # "closed" => phase[j] # "closed"
  BY <1>0, <1>3 DEF TableNamesChannel, Healthy
<1> QED BY <1>0, <1>1, <1>2, <1>3, TableKept, NoneRevives DEF Next, CallerStep

(* A Forwarder that runs stays in the table: what the cleanup task removes is
   a channel's entry, and that has ended.                                   *)
LEMMA NextRunningInTable == IInv /\ [Next]_vars => RunningInTable'
<1> SUFFICES ASSUME IInv, [Next]_vars PROVE RunningInTable'
  OBVIOUS
<1>0. /\ TypeOK
      /\ RunningInTable
      /\ TableNamesChannel
      /\ None \notin Instances
  BY NoneIsNothing DEF IInv
<1>1. ASSUME NEW k \in Callers, BindSocket(k) PROVE RunningInTable'
  <2>1. CASE UNCHANGED <<channels, phase, chan>>
    BY <1>0, <2>1 DEF RunningInTable
  <2>2. ASSUME NEW i \in Instances,
               caller[k].chan \in Channels,
               Vacant(caller[k].chan),
               phase' = [phase EXCEPT ![i] = "live"],
               chan' = [chan EXCEPT ![i] = caller[k].chan],
               channels' = [channels EXCEPT ![caller[k].chan] = i]
        PROVE  RunningInTable'
    <3>1. channels'[chan'[i]] = i
      BY <1>0, <2>2 DEF TypeOK
    <3>2. ASSUME NEW j \in Instances \ {i}, phase[j] \in {"live", "ending"}
          PROVE  channels'[chan'[j]] = j
      <4>1. chan[j] \in Channels /\ channels[chan[j]] = j
        BY <1>0, <3>2 DEF RunningInTable, TableNamesChannel, Healthy
      <4>2. chan[j] # caller[k].chan
        BY <1>0, <2>2, <4>1 DEF Vacant
      <4> QED BY <1>0, <2>2, <4>1, <4>2 DEF TypeOK
    <3> QED BY <1>0, <2>2, <3>1, <3>2 DEF RunningInTable, TypeOK
  <2> QED BY <1>1, <2>1, <2>2, BindOutcome
<1>2. CASE RemoveChannel
  <2>1. /\ cleaner \in Channels
        /\ channels' = [channels EXCEPT ![cleaner] = None]
        /\ UNCHANGED <<phase, chan>>
    BY <1>0, <1>2 DEF RemoveChannel, TypeOK
  <2>2. ~Vacant(cleaner) /\ Ended(cleaner)
    BY <1>2, <2>1 DEF IInv, EndsPending, RemoveChannel
  <2>3. ASSUME NEW j \in Instances, phase[j] \in {"live", "ending"}
        PROVE  channels'[chan[j]] = j
    <3>1. chan[j] \in Channels /\ channels[chan[j]] = j
      BY <1>0, <2>3 DEF RunningInTable, TableNamesChannel, Healthy
    <3>2. chan[j] # cleaner
      BY <2>2, <2>3, <3>1 DEF Vacant, Ended
    <3> QED BY <1>0, <2>1, <3>1, <3>2 DEF TypeOK
  <2> QED BY <2>1, <2>3 DEF RunningInTable
<1>3. CASE /\ UNCHANGED <<channels, chan>>
           /\ \A j \in Instances :
                phase'[j] \in {"live", "ending"} => phase[j] \in {"live", "ending"}
  BY <1>0, <1>3 DEF RunningInTable
<1> QED BY <1>0, <1>1, <1>2, <1>3, TableKept, NoneRevives DEF Next, CallerStep

-----------------------------------------------------------------------------
(* The end of channels *)

(* An instance that ended stays ended, unless BindSocket uses it again. *)
LEMMA EndedStays ==
    ASSUME TypeOK, [Next]_vars, NEW j \in Instances,
           phase[j] \in {"notified", "closed"}, Held(j)
    PROVE  phase'[j] \in {"notified", "closed"}
<1>1. ASSUME NEW k \in Callers, BindSocket(k)
      PROVE  phase'[j] \in {"notified", "closed"}
  BY <1>1 DEF BindSocket, TypeOK
<1>2. ASSUME NEW i \in Instances, ForwarderStep(i) \/ Panic(i)
      PROVE  phase'[j] \in {"notified", "closed"}
  BY <1>2 DEF ForwarderStep, IdleTimeout, NotifyEnd, Announce, Close, Panic, Step,
              TypeOK
<1> QED BY <1>1, <1>2
        DEF Next, CallerStep, AssignChannel, GetChannel, ProbePort, Serve, Refuse,
            Release, Vacate, ReceiveEnd, RemoveChannel, vars

(* A channel whose entry is kept, and which has ended, still has. *)
LEMMA EndedKept ==
    ASSUME TypeOK, [Next]_vars, NEW c \in Channels,
           ~Vacant(c), Ended(c), channels'[c] = channels[c]
    PROVE  ~Vacant(c)' /\ Ended(c)'
<1>1. channels[c] \in Instances /\ Held(channels[c])
  BY DEF Vacant, TypeOK, Held, InTable
<1>2. phase[channels[c]] \in {"notified", "closed"}
  BY DEF Vacant, Ended
<1>3. phase'[channels[c]] \in {"notified", "closed"}
  BY <1>1, <1>2, EndedStays
<1> QED BY <1>3 DEF Vacant, Ended

(* A channel that ends is announced once: it is not announced already, as it
   was running, and what is announced has ended.                            *)
LEMMA NextEndsPending == IInv /\ [Next]_vars => EndsPending'
<1> SUFFICES ASSUME IInv, [Next]_vars PROVE EndsPending'
  OBVIOUS
<1>0. /\ TypeOK
      /\ EndsPending
      /\ None \notin Instances
      /\ None \notin Channels
  BY NoneIsNothing DEF IInv
<1>1. queue \in Seq(Channels) /\ Announced \subseteq Channels
  BY <1>0 DEF TypeOK, Announced
<1>2. ASSUME UNCHANGED <<queue, cleaner>>,
             \A c \in Channels : ~Vacant(c) => channels'[c] = channels[c]
      PROVE  EndsPending'
  <2>1. ASSUME NEW c \in Channels, c \in Announced \/ c = cleaner
        PROVE  ~Vacant(c)' /\ Ended(c)'
    BY <1>0, <1>2, <2>1, EndedKept DEF EndsPending
  <2> QED BY <1>0, <1>2, <2>1 DEF EndsPending, Announced
<1>3. ASSUME NEW i \in Instances, NotifyEnd(i) PROVE EndsPending'
  <2>1. /\ chan[i] \in Channels
        /\ channels[chan[i]] = i
        /\ phase[i] = "ending"
        /\ UNCHANGED <<channels, cleaner>>
        /\ queue' = Append(queue, chan[i])
        /\ phase' = [phase EXCEPT ![i] = "notified"]
    BY <1>3 DEF IInv, RunningInTable, TableNamesChannel, Healthy, NotifyEnd,
                Announce, Step
  <2>2. chan[i] \notin Announced /\ cleaner # chan[i]
    BY <1>0, <2>1 DEF EndsPending, Ended
  <2>3. /\ Len(queue) \in Nat
        /\ Len(queue') = Len(queue) + 1
        /\ queue'[Len(queue) + 1] = chan[i]
        /\ \A n \in 1..Len(queue) : queue'[n] = queue[n]
    BY <1>1, <2>1
  <2>4. \A n \in 1..Len(queue') : n \in 1..Len(queue) \/ n = Len(queue) + 1
    BY <2>3
  <2>5. Announced' \subseteq Announced \cup {chan[i]}
    BY <2>3, <2>4 DEF Announced
  <2>6. ASSUME NEW c \in Channels, c \in Announced' \/ c = cleaner'
        PROVE  ~Vacant(c)' /\ Ended(c)'
    <3>1. CASE c = chan[i]
      BY <1>0, <2>1, <3>1 DEF Vacant, Ended, TypeOK
    <3>2. CASE c \in Announced \/ c = cleaner
      BY <1>0, <2>1, <3>2, EndedKept DEF EndsPending
    <3> QED BY <2>1, <2>5, <2>6, <3>1, <3>2
  <2>7. \A m, n \in 1..Len(queue') : m # n => queue'[m] # queue'[n]
    BY <1>0, <2>2, <2>3, <2>4 DEF EndsPending, Announced
  <2>8. cleaner' \notin Announced'
    BY <1>0, <2>1, <2>2, <2>5 DEF EndsPending
  <2> QED BY <2>6, <2>7, <2>8 DEF EndsPending
<1>4. CASE ReceiveEnd
  <2>1. /\ queue # <<>>
        /\ cleaner' = Head(queue)
        /\ queue' = Tail(queue)
        /\ UNCHANGED <<channels, phase>>
    BY <1>4 DEF ReceiveEnd
  <2>2. /\ Len(queue') = Len(queue) - 1
        /\ cleaner' = queue[1]
        /\ 1 \in 1..Len(queue)
        /\ \A n \in 1..Len(queue') : /\ queue'[n] = queue[n + 1]
                                      /\ n + 1 \in 1..Len(queue)
                                      /\ n + 1 # 1
    BY <1>1, <2>1
  <2>3. Announced' \subseteq Announced /\ cleaner' \in Announced
    BY <2>2 DEF Announced
  <2>4. \A m, n \in 1..Len(queue') : m # n => m + 1 # n + 1
    BY <1>1, <2>1, <2>2
  <2>5. \A m, n \in 1..Len(queue') : m # n => queue'[m] # queue'[n]
    BY <1>0, <2>2, <2>4 DEF EndsPending
  <2>6. cleaner' \notin Announced'
    BY <1>0, <2>2 DEF EndsPending, Announced
  <2> QED BY <1>0, <2>1, <2>3, <2>5, <2>6 DEF EndsPending, Vacant, Ended
<1>5. CASE RemoveChannel
  <2>1. /\ cleaner' = None
        /\ channels' = [channels EXCEPT ![cleaner] = None]
        /\ UNCHANGED <<queue, phase>>
    BY <1>5 DEF RemoveChannel
  <2>2. \A c \in Channels : c \in Announced => channels'[c] = channels[c]
    BY <1>0, <2>1 DEF EndsPending, TypeOK
  <2>3. Announced' = Announced
    BY <2>1 DEF Announced
  <2> QED BY <1>0, <1>1, <2>1, <2>2, <2>3 DEF EndsPending, Vacant, Ended
<1>6. ASSUME NEW k \in Callers, BindSocket(k) PROVE EndsPending'
  <2>1. UNCHANGED <<queue, cleaner>>
    BY <1>6 DEF BindSocket
  <2>2. \A c \in Channels : ~Vacant(c) => channels'[c] = channels[c]
    BY <1>0, <1>6, BindOutcome DEF TypeOK
  <2> QED BY <1>2, <2>1, <2>2
<1>7. CASE \/ \E k \in Callers :
                \/ \E c \in Channels : AssignChannel(k, c) \/ GetChannel(k, c)
                \/ ProbePort(k) \/ Serve(k) \/ Refuse(k) \/ Release(k)
           \/ \E i \in Instances : IdleTimeout(i) \/ Close(i) \/ Vacate(i) \/ Panic(i)
           \/ UNCHANGED vars
  <2>1. UNCHANGED <<queue, cleaner, channels>>
    BY <1>7 DEF AssignChannel, GetChannel, ProbePort, Serve, Refuse, Release,
                IdleTimeout, Close, Vacate, Panic, vars
  <2> QED BY <1>2, <2>1
<1> QED BY <1>3, <1>4, <1>5, <1>6, <1>7 DEF Next, CallerStep, ForwarderStep

-----------------------------------------------------------------------------
(* Ports *)

(* What one caller does decides which handles it holds and what it binds. *)
LEMMA CallerMoves ==
    ASSUME TypeOK, NEW k \in Callers, \A l \in Callers \ {k} : caller'[l] = caller[l]
    PROVE  /\ \A i \in Instances : HeldBy(i)' =
                (HeldBy(i) \ {k}) \cup (IF caller'[k].inst = i THEN {k} ELSE {})
           /\ \A p \in AllPorts : Binding(p)' =
                (Binding(p) \ {k}) \cup
                  (IF caller'[k].at = "bind" /\ caller'[k].port = p THEN {k} ELSE {})
BY DEF HeldBy, Binding

(* As long as the same instances are held and the same ports are about to be
   bound, the flags are right.                                              *)
LEMMA PortsKept ==
    ASSUME PortsExact, UNCHANGED <<taken, port>>,
           \A i \in Instances : Held(i)' <=> Held(i),
           \A p \in AllPorts : Binding(p)' = Binding(p)
    PROVE  PortsExact'
<1>1. \A p \in AllPorts : Owners(p)' = Owners(p)
  BY DEF Owners
<1> QED BY <1>1 DEF PortsExact

(* A caller that assigns a channel and does not touch a port. *)
LEMMA AssignPorts ==
    ASSUME IInv, NEW k \in Callers, NEW c \in Channels,
           AssignChannel(k, c) \/ GetChannel(k, c)
    PROVE  PortsExact'
<1>0. TypeOK /\ PortsExact /\ HandlesHeld /\ None \notin Instances
  BY NoneIsNothing DEF IInv
<1>1. \A l \in Callers \ {k} : caller'[l] = caller[l]
  BY <1>0, OthersWait
<1>2. /\ caller[k].at = "idle"
      /\ caller[k].inst = None
      /\ UNCHANGED <<taken, port, channels>>
  BY <1>0 DEF AssignChannel, GetChannel, HandlesHeld
<1>3. /\ caller'[k].at # "bind"
      /\ caller'[k].inst \in {None, channels[c]}
  BY <1>0 DEF AssignChannel, GetChannel, Handed, TypeOK
<1>4. \A p \in AllPorts : Binding(p)' = Binding(p)
  BY <1>0, <1>1, <1>2, <1>3, CallerMoves DEF Binding
<1>5. \A i \in Instances : HeldBy(i)' # HeldBy(i) => InTable(i)
  BY <1>0, <1>1, <1>2, <1>3, CallerMoves DEF HeldBy, InTable
<1>6. \A i \in Instances : Held(i)' <=> Held(i)
  BY <1>2, <1>5 DEF Held, InTable
<1> QED BY <1>0, <1>2, <1>4, <1>6, PortsKept

(* Taking a port: it had no owner, and the caller that holds the table's lock
   is the only one to bind.                                                 *)
LEMMA ProbePorts ==
    ASSUME IInv, NEW k \in Callers, ProbePort(k)
    PROVE  PortsExact'
<1>0. /\ TypeOK
      /\ PortsExact
      /\ HandlesHeld
      /\ None \notin Instances
  BY NoneIsNothing DEF IInv
<1>1. \A l \in Callers \ {k} : caller'[l] = caller[l]
  BY <1>0, OthersWait DEF CallerStep
<1>2. /\ caller[k].at = "scan"
      /\ caller[k].inst = None
      /\ caller'[k].inst = None
      /\ caller[k].port \in AllPorts
      /\ UNCHANGED <<channels, port>>
  BY <1>0 DEF IInv, ProbePort, HandlesHeld, AssignerHasTable, Idle, Handed, TypeOK,
              Caller
<1>3. \A i \in Instances : HeldBy(i)' = HeldBy(i)
  BY <1>0, <1>1, <1>2, CallerMoves DEF HeldBy
<1>4. \A i \in Instances : Held(i)' <=> Held(i)
  BY <1>2, <1>3 DEF Held, InTable
<1>5. CASE UNCHANGED taken /\ caller'[k].at # "bind"
  <2>1. \A p \in AllPorts : Binding(p)' = Binding(p)
    BY <1>0, <1>1, <1>2, <1>5, CallerMoves DEF Binding
  <2> QED BY <1>0, <1>2, <1>4, <1>5, <2>1, PortsKept
<1>6. CASE /\ caller[k].port \notin taken
           /\ taken' = taken \cup {caller[k].port}
           /\ caller' = [caller EXCEPT ![k].at = "bind"]
  <2>1. caller'[k].at = "bind" /\ caller'[k].port = caller[k].port
    BY <1>0, <1>6 DEF TypeOK, Caller
  <2>2. \A p \in AllPorts :
          Binding(p)' = Binding(p) \cup (IF p = caller[k].port THEN {k} ELSE {})
    BY <1>0, <1>1, <1>2, <2>1, CallerMoves DEF Binding
  <2>3. \A p \in AllPorts : Owners(p)' = Owners(p)
    BY <1>2, <1>4 DEF Owners
  <2> QED BY <1>0, <1>2, <1>4, <1>6, <2>2, <2>3 DEF PortsExact
<1>7. \/ UNCHANGED taken /\ caller'[k].at # "bind"
      \/ /\ caller[k].port \notin taken
         /\ taken' = taken \cup {caller[k].port}
         /\ caller' = [caller EXCEPT ![k].at = "bind"]
  BY <1>0 DEF ProbePort, Idle, Handed, TypeOK, Caller
<1> QED BY <1>5, <1>6, <1>7

(* Binding a port: it is given back, or the new instance owns it. *)
LEMMA BindPorts ==
    ASSUME IInv, NEW k \in Callers, BindSocket(k)
    PROVE  PortsExact'
<1>0. /\ TypeOK
      /\ PortsExact
      /\ HandlesHeld
      /\ None \notin Instances
  BY NoneIsNothing DEF IInv
<1> DEFINE p == caller[k].port
<1>1. \A l \in Callers \ {k} : caller'[l] = caller[l]
  BY <1>0, OthersWait DEF CallerStep
<1>2. /\ caller[k].at = "bind"
      /\ caller[k].inst = None
      /\ p \in AllPorts
      /\ \A l \in Callers : caller[l].at = "bind" => l = k
  BY <1>0 DEF IInv, BindSocket, HandlesHeld, AssignerHasTable
<1>3. \A q \in AllPorts : Binding(q) = IF q = p THEN {k} ELSE {}
  BY <1>2 DEF Binding
<1>4. Owners(p) = {} /\ p \in taken
  BY <1>0, <1>2, <1>3 DEF PortsExact
<1>5. CASE /\ taken' = taken \ {p}
           /\ caller' = [caller EXCEPT ![k] = Idle]
           /\ UNCHANGED <<channels, port>>
  <2>1. caller'[k].at # "bind" /\ caller'[k].inst = None
    BY <1>0, <1>5 DEF TypeOK, Idle, Handed
  <2>2. \A q \in AllPorts : Binding(q)' = {}
    BY <1>0, <1>1, <1>3, <2>1, CallerMoves
  <2>3. \A i \in Instances : HeldBy(i)' = HeldBy(i)
    BY <1>0, <1>1, <1>2, <2>1, CallerMoves DEF HeldBy
  <2>4. \A i \in Instances : Held(i)' <=> Held(i)
    BY <1>5, <2>3 DEF Held, InTable
  <2>5. \A q \in AllPorts : Owners(q)' = Owners(q)
    BY <1>5, <2>4 DEF Owners
  <2> QED BY <1>0, <1>3, <1>4, <1>5, <2>2, <2>4, <2>5 DEF PortsExact
<1>6. ASSUME NEW i \in Instances,
             ~Held(i),
             caller[k].chan \in Channels,
             Vacant(caller[k].chan),
             port' = [port EXCEPT ![i] = p],
             channels' = [channels EXCEPT ![caller[k].chan] = i],
             caller' = [caller EXCEPT ![k] = Handed("assigned", i)],
             UNCHANGED taken
      PROVE  PortsExact'
  <2>1. caller'[k].at # "bind" /\ caller'[k].inst = i
    BY <1>0, <1>6 DEF TypeOK, Handed
  <2>2. \A q \in AllPorts : Binding(q)' = {}
    BY <1>0, <1>1, <1>3, <2>1, CallerMoves
  <2>3. \A j \in Instances \ {i} : HeldBy(j)' = HeldBy(j)
    BY <1>0, <1>1, <1>2, <2>1, CallerMoves DEF HeldBy
  <2>4. \A j \in Instances \ {i} : InTable(j)' <=> InTable(j)
    BY <1>0, <1>6 DEF InTable, Vacant, TypeOK
  <2>5. \A j \in Instances \ {i} : Held(j)' <=> Held(j)
    BY <2>3, <2>4 DEF Held
  <2>6. Held(i)'
    BY <1>0, <1>1, <2>1, CallerMoves DEF Held
  <2>7. \A j \in Instances : port'[j] = IF j = i THEN p ELSE port[j]
    BY <1>0, <1>6 DEF TypeOK
  <2>8. \A q \in AllPorts : Owners(q)' = Owners(q) \cup (IF q = p THEN {i} ELSE {})
    BY <1>6, <2>5, <2>6, <2>7 DEF Owners
  <2>9. \A j \in Instances : Held(j) => port[j] # p
    BY <1>4 DEF Owners
  <2>10. \A j \in Instances : Held(j)' => port'[j] \in AllPorts
    BY <1>0, <1>2, <2>5, <2>7 DEF PortsExact
  <2>11. \A j, l \in Instances : Held(j)' /\ Held(l)' /\ port'[j] = port'[l] => j = l
    BY <1>0, <2>5, <2>7, <2>9 DEF PortsExact
  <2>12. \A q \in AllPorts : q \in taken' <=> Binding(q)' # {} \/ Owners(q)' # {}
    BY <1>0, <1>3, <1>4, <1>6, <2>2, <2>8 DEF PortsExact
  <2> QED BY <2>2, <2>10, <2>11, <2>12 DEF PortsExact
<1> QED BY <1>5, <1>6, BindOutcome

(* FreePort: once nobody holds instance i, its port, and no other, is free. *)
LEMMA PortFreed ==
    ASSUME PortsExact, NEW i \in Instances, Held(i), NEW others \in BOOLEAN,
           taken' = FreePort(taken, i, others),
           UNCHANGED port,
           Held(i)' <=> others,
           \A j \in Instances \ {i} : Held(j)' <=> Held(j),
           \A p \in AllPorts : Binding(p)' = Binding(p)
    PROVE  PortsExact'
<1>1. CASE others
  <2>1. UNCHANGED taken
    BY <1>1 DEF FreePort
  <2> QED BY <1>1, <2>1, PortsKept
<1>2. CASE ~others
  <2>1. taken' = taken \ {port[i]}
    BY <1>2 DEF FreePort
  <2>2. i \in Owners(port[i]) /\ port[i] \in AllPorts
    BY DEF Owners, PortsExact
  <2>3. Binding(port[i]) = {}
    BY <2>2 DEF PortsExact
  <2>4. \A j \in Instances \ {i} : Held(j) => port[j] # port[i]
    BY DEF PortsExact
  <2>5. \A p \in AllPorts : Owners(p)' = IF p = port[i] THEN {} ELSE Owners(p)
    BY <1>2, <2>4 DEF Owners
  <2>6. \A p \in AllPorts : p \in taken' <=> Binding(p)' # {} \/ Owners(p)' # {}
    BY <2>1, <2>2, <2>3, <2>5 DEF PortsExact
  <2> QED BY <1>2, <2>5, <2>6 DEF PortsExact
<1> QED BY <1>1, <1>2

(* Dropping a handle, or using it: the port is freed with the last one. *)
LEMMA HandlePorts ==
    ASSUME IInv, NEW k \in Callers, Serve(k) \/ Refuse(k) \/ Release(k)
    PROVE  PortsExact'
<1>0. /\ TypeOK
      /\ PortsExact
      /\ HandlesHeld
      /\ None \notin Instances
  BY NoneIsNothing DEF IInv
<1>1. \A l \in Callers \ {k} : caller'[l] = caller[l]
  BY <1>0, OthersWait DEF CallerStep
<1> PICK i \in Instances : caller[k].inst = i
  BY <1>0 DEF HandlesHeld, Serve, Refuse, Release, TypeOK, Caller
<1>2. /\ k \in HeldBy(i)
      /\ caller[k].at \in {"assigned", "call", "answered"}
      /\ caller'[k].at # "bind"
      /\ UNCHANGED <<channels, port>>
  BY <1>0 DEF HandlesHeld, Serve, Refuse, Release, TypeOK, Caller, Idle, Handed,
              HeldBy
<1>3. \A p \in AllPorts : Binding(p)' = Binding(p)
  BY <1>0, <1>1, <1>2, CallerMoves DEF Binding
<1>4. \A j \in Instances : InTable(j)' <=> InTable(j)
  BY <1>2 DEF InTable
<1>5. CASE Serve(k) \/ Refuse(k)
  <2>1. caller'[k].inst = i /\ UNCHANGED taken
    BY <1>0, <1>5 DEF Serve, Refuse, TypeOK, Caller
  <2>2. \A j \in Instances : HeldBy(j)' = HeldBy(j)
    BY <1>0, <1>1, <2>1, CallerMoves DEF HeldBy
  <2>3. \A j \in Instances : Held(j)' <=> Held(j)
    BY <1>4, <2>2 DEF Held
  <2> QED BY <1>0, <1>2, <1>3, <2>1, <2>3, PortsKept
<1>6. CASE Release(k)
  <2>1. /\ caller'[k].inst = None
        /\ taken' = FreePort(taken, i, InTable(i) \/ HeldBy(i) # {k})
    BY <1>0, <1>6 DEF Release, TypeOK, Idle, Handed
  <2>2. \A j \in Instances : HeldBy(j)' = HeldBy(j) \ {k}
    BY <1>0, <1>1, <2>1, CallerMoves
  <2>3. \A j \in Instances \ {i} : Held(j)' <=> Held(j)
    BY <1>4, <2>2 DEF Held, HeldBy
  <2>4. /\ Held(i)
        /\ Held(i)' <=> (InTable(i) \/ HeldBy(i) # {k})
    BY <1>2, <1>4, <2>2 DEF Held
  <2> QED BY <1>0, <1>2, <1>3, <2>1, <2>3, <2>4, PortFreed
<1> QED BY <1>5, <1>6

(* The cleanup task drops the table's handle. *)
LEMMA RemovePorts ==
    ASSUME IInv, RemoveChannel
    PROVE  PortsExact'
<1>0. /\ TypeOK
      /\ PortsExact
      /\ TableNamesChannel
      /\ EndsPending
      /\ None \notin Instances
      /\ cleaner \in Channels
  BY NoneIsNothing DEF IInv, TypeOK, RemoveChannel
<1> PICK i \in Instances : channels[cleaner] = i
  BY <1>0 DEF EndsPending, Vacant, TypeOK
<1>1. /\ channels' = [channels EXCEPT ![cleaner] = None]
      /\ taken' = FreePort(taken, i, HeldBy(i) # {})
      /\ UNCHANGED <<port, caller>>
  BY <1>0 DEF RemoveChannel
<1>2. \A j \in Instances : HeldBy(j)' = HeldBy(j)
  BY <1>1 DEF HeldBy
<1>3. \A p \in AllPorts : Binding(p)' = Binding(p)
  BY <1>1 DEF Binding
<1>4. InTable(i)
  BY <1>0 DEF InTable
<1>5. ~InTable(i)'
  BY <1>0, <1>1 DEF InTable, TableNamesChannel, TypeOK
<1>6. \A j \in Instances \ {i} : InTable(j)' <=> InTable(j)
  BY <1>0, <1>1 DEF InTable, TypeOK
<1>7. \A j \in Instances \ {i} : Held(j)' <=> Held(j)
  BY <1>2, <1>6 DEF Held
<1>8. Held(i) /\ (Held(i)' <=> HeldBy(i) # {})
  BY <1>2, <1>4, <1>5 DEF Held
<1> QED BY <1>0, <1>1, <1>3, <1>7, <1>8, PortFreed

(* The flags of the ports stay right, whoever drops the last handle. *)
LEMMA NextPortsExact == IInv /\ [Next]_vars => PortsExact'
<1> SUFFICES ASSUME IInv, [Next]_vars PROVE PortsExact'
  OBVIOUS
<1>1. CASE \/ \E i \in Instances : ForwarderStep(i) \/ Vacate(i) \/ Panic(i)
           \/ ReceiveEnd \/ UNCHANGED vars
  <2>1. UNCHANGED <<channels, port, caller, taken>>
    BY <1>1 DEF ForwarderStep, IdleTimeout, NotifyEnd, Close, Vacate, Panic,
                ReceiveEnd, vars
  <2>2. \A i \in Instances : Held(i)' <=> Held(i)
    BY <2>1 DEF Held, InTable, HeldBy
  <2>3. \A p \in AllPorts : Binding(p)' = Binding(p)
    BY <2>1 DEF Binding
  <2> QED BY <2>1, <2>2, <2>3, PortsKept DEF IInv
<1> QED BY <1>1, AssignPorts, ProbePorts, BindPorts, HandlePorts, RemovePorts
        DEF Next, CallerStep

-----------------------------------------------------------------------------
(* The inductive invariant, and what it implies *)

(* At the start no channel is hosted, and no port in use. *)
LEMMA InitIInv == Init => IInv
<1> SUFFICES ASSUME Init PROVE IInv
  OBVIOUS
<1>1. TypeOK
  BY InitTypeOK
<1>2. \A i \in Instances : ~Held(i) /\ ~Healthy(i) /\ phase[i] = "closed"
  BY NoneIsNothing DEF Init, Held, InTable, HeldBy, Healthy, Idle, Handed
<1>3. AssignerHasTable /\ HandlesHeld
  BY DEF Init, AssignerHasTable, HandlesHeld, Idle, Handed
<1>4. TableNamesChannel /\ RunningInTable
  BY <1>2 DEF Init, TableNamesChannel, RunningInTable
<1>5. EndsPending
  BY NoneIsNothing DEF Init, EndsPending, Announced
<1>6. PortsExact
  BY <1>2 DEF Init, PortsExact, Binding, Owners, Idle, Handed
<1> QED BY <1>1, <1>3, <1>4, <1>5, <1>6 DEF IInv

(* Every step of the server keeps the invariant. *)
LEMMA NextIInv == IInv /\ [Next]_vars => IInv'
BY NextTypeOK, NextAssignerHasTable, NextHandlesHeld, NextTableNamesChannel,
   NextEndsPending, NextRunningInTable, NextPortsExact DEF IInv

(* The table, the ports and the announced ends are consistent in every
   reachable state (lib.rs, ports.rs).                                      *)
THEOREM Consistent == Spec => []IInv
BY InitIInv, NextIInv, PTL DEF Spec

(* Every variable keeps its type, and the notification queue its capacity. *)
THEOREM TypeCorrect == Spec => []TypeOK
<1>1. IInv => TypeOK
  BY DEF IInv
<1> QED BY <1>1, Consistent, PTL

(* The cleanup task (VoiceServerImpl::new) never removes a running channel. *)
THEOREM CleanupRemovesEnded == Spec => []CleanupSparesLive
<1>1. IInv => CleanupSparesLive
  BY DEF IInv, EndsPending, CleanupSparesLive
<1> QED BY <1>1, Consistent, PTL

(* Every running Forwarder is the one its channel's entry leads to. *)
THEOREM RunningReachable == Spec => []RunningInTable
<1>1. IInv => RunningInTable
  BY DEF IInv
<1> QED BY <1>1, Consistent, PTL

(* A port is marked as in use exactly while it has an owner, and it has at
   most one (PortRef::drop, Ports::get).                                    *)
THEOREM PortsAccounted == Spec => []PortsOwned
<1>1. ASSUME IInv, NEW p \in AllPorts
      PROVE  Cardinality(Binding(p)) + Cardinality(Owners(p)) =
               IF p \in taken THEN 1 ELSE 0
  <2>1. \A k, l \in Binding(p) : k = l
    BY <1>1 DEF IInv, AssignerHasTable, Binding
  <2>2. \A i, j \in Owners(p) : i = j
    BY <1>1 DEF IInv, PortsExact, Owners
  <2>3. \/ Binding(p) = {}
        \/ \E k \in Callers : Binding(p) = {k}
    BY <2>1 DEF Binding
  <2>4. \/ Owners(p) = {}
        \/ \E i \in Instances : Owners(p) = {i}
    BY <2>2 DEF Owners
  <2>5. /\ Binding(p) # {} => Owners(p) = {}
        /\ p \in taken <=> Binding(p) # {} \/ Owners(p) # {}
    BY <1>1 DEF IInv, PortsExact
  <2>6. Cardinality(Binding(p)) = IF Binding(p) = {} THEN 0 ELSE 1
    BY <2>3, FS_EmptySet, FS_Singleton
  <2>7. Cardinality(Owners(p)) = IF Owners(p) = {} THEN 0 ELSE 1
    BY <2>4, FS_EmptySet, FS_Singleton
  <2> QED BY <2>5, <2>6, <2>7
<1>2. IInv => PortsOwned
  BY <1>1 DEF PortsOwned
<1> QED BY <1>2, Consistent, PTL
=============================================================================
