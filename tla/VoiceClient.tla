----------------------------- MODULE VoiceClient -----------------------------
(***************************************************************************)
(* The command line client (client/src/main.rs, udp.rs) with its web       *)
(* socket task (server/ws-proto/src/client.rs).                            *)
(*                                                                         *)
(* main drives the handshake with the gateway, discovers the client's      *)
(* address at the voice server (up to five requests by UDP, each answered  *)
(* late, never or twice), starts udp_rx, and passes on who joined and left *)
(* until the user stops it.  The web socket task moves messages between    *)
(* the socket and two bounded queues; udp_rx keeps a stream for each       *)
(* source it was told of.  What the streams do with voice packets is       *)
(* VoiceStream; here one may only end.  The gateway is external: it tells  *)
(* what a session does (gateway/src/server/session.rs), and keep-alives,   *)
(* which neither side's queues see, are left out.                          *)
(***************************************************************************)
EXTENDS Naturals, Sequences, FiniteSets

CONSTANTS
    Sources,        \* source ids of other clients
    Own,            \* this client's source id
    MaxAttempts,    \* requests of the address discovery (5 in the code)
    OutSlots,       \* messages queued for the socket (10 in the code)
    IncSlots,       \* messages queued for main (10 in the code)
    VoiceSlots,     \* events queued for udp_rx (10 in the code)
    MaxEvents,      \* bound: joins and leaves the gateway announces
    MaxCopies,      \* bound: discovery datagrams the network repeats
    OutputMissing,  \* the machine may have no audio output
    None

ASSUME OwnIsOwn == Own \notin Sources
ASSUME LimitsPositive ==
    /\ MaxAttempts \in Nat \ {0} /\ OutSlots \in Nat \ {0}
    /\ IncSlots \in Nat \ {0} /\ VoiceSlots \in Nat \ {0}
ASSUME RepeatsNat == MaxEvents \in Nat /\ MaxCopies \in Nat
ASSUME OutputMissingBoolean == OutputMissing \in BOOLEAN

VARIABLES
    main,       \* where main is
    hand,       \* voice events main has yet to pass on
    attempt,    \* discovery requests made
    asked,      \* discovery requests the voice server may still answer
    answers,    \* answers waiting in the UDP socket
    copied,     \* requests and answers the network has repeated
    ws,         \* the web socket task
    held,       \* the message it waits to pass on, or None
    stop,       \* stop's request: none, asked for, or replied to
    out, inc,   \* queues from and to main
    toServer, fromServer,   \* the socket
    srv,        \* the gateway's session
    told,       \* the other sources it has told of as present
    events,     \* joins and leaves it has told of
    receiver,   \* udp_rx
    output,     \* the thread with the audio output
    voiceq,     \* events waiting for udp_rx
    current,    \* sources with a registered stream
    broken      \* those whose stream's task has ended by an error

mainVars == <<main, hand, attempt, stop, out>>
udpVars == <<asked, answers, copied>>
wsVars == <<ws, held>>
srvVars == <<srv, told, events>>
rxVars == <<receiver, output, current, broken>>
clientVars == <<mainVars, udpVars, wsVars, inc, toServer, fromServer, srvVars,
                rxVars, voiceq>>

-----------------------------------------------------------------------------
(* Values *)

Msg(t, s, p) == [type |-> t, source |-> s, present |-> p]
Plain(t) == Msg(t, None, {})

Notices == {Plain(t) : t \in {"init", "udp", "joinerror", "disconnected"}}
Listings == {Msg("ready", None, P \cup {Own}) : P \in SUBSET Sources}
Announcements == {Msg(t, s, {}) : t \in {"joined", "left"}, s \in Sources}
ServerMsg == Notices \cup Listings \cup Announcements
ASSUME NoneIsNoMessage == None \notin ServerMsg
ClientMsg == {"init", "join", "announce", "leave"}
VoiceEvent == {Msg(t, s, {}) : t \in {"present", "joined", "left"},
                               s \in Sources \cup {Own}}

Ended == main \in {"left", "failed"}

(* What the message, or voice event, e says of who is present *)
Applied(S, e) ==
    CASE e.type \in {"joined", "present"} -> S \cup {e.source}
      [] e.type = "left" -> S \ {e.source}
      [] e.type = "ready" -> e.present \ {Own}
      [] OTHER -> S

ClientInit ==
    /\ main = "start" /\ hand = {} /\ attempt = 0
    /\ asked = 0 /\ answers = 0 /\ copied = 0
    /\ ws = "running" /\ held = None /\ stop = "none"
    /\ out = <<>> /\ inc = <<>> /\ toServer = <<>> /\ fromServer = <<>>
    /\ srv = "new" /\ told = {} /\ events = 0
    /\ receiver = "none" /\ output = "none" /\ voiceq = <<>>
    /\ current = {} /\ broken = {}

-----------------------------------------------------------------------------
(* main: the handshake.  Operators named Bug... are no part of the
   specification: each is a faulty form of the definition that follows it,
   which some property must reject.                                         *)

Goto(p) == main' = p /\ UNCHANGED <<hand, attempt, stop>>

(* ControlStream::send waits for room, and fails once the task is gone. *)
Send(m, p) ==
    \/ ws # "closed" /\ Len(out) < OutSlots /\ out' = Append(out, m) /\ Goto(p)
    \/ ws = "closed" /\ Goto("failed") /\ UNCHANGED out

SendInit ==
    /\ main = "start"
    /\ Send("init", "await init")
    /\ UNCHANGED <<udpVars, wsVars, inc, toServer, fromServer, srvVars, rxVars, voiceq>>

SendJoin ==
    /\ main = "join"
    /\ Send("join", "await udp")
    /\ UNCHANGED <<udpVars, wsVars, inc, toServer, fromServer, srvVars, rxVars, voiceq>>

SendAnnounce ==
    /\ main = "announce"
    /\ Send("announce", "await ready")
    /\ UNCHANGED <<udpVars, wsVars, inc, toServer, fromServer, srvVars, rxVars, voiceq>>

(* Who waits for one message takes any other, a JoinError too, for a failure. *)
Awaited == [p \in {"await init", "await udp", "await ready"} |->
    CASE p = "await init" -> "init" [] p = "await udp" -> "udp" [] OTHER -> "ready"]

TakeAwaited ==
    /\ main \in {"await init", "await udp"} /\ inc # <<>>
    /\ Goto(IF Head(inc).type # Awaited[main] THEN "failed"
            ELSE IF main = "await init" THEN "join" ELSE "discover")
    /\ inc' = Tail(inc)
    /\ UNCHANGED <<out, udpVars, wsVars, toServer, fromServer, srvVars, rxVars, voiceq>>

BugKeepsWaiting == FALSE

QueueEnded == inc = <<>> /\ ws = "closed"

(* next_event: the queue's sender is gone. *)
StreamEnds ==
    /\ main \in {"await init", "await udp", "await ready", "loop"}
    /\ QueueEnded
    /\ Goto("failed")
    /\ UNCHANGED <<out, udpVars, wsVars, inc, toServer, fromServer, srvVars, rxVars, voiceq>>

-----------------------------------------------------------------------------
(* main: address discovery *)

(* The request is sent, or sending it fails and the attempt is used up. *)
Discover ==
    /\ main = "discover" /\ attempt < MaxAttempts
    /\ attempt' = attempt + 1
    /\ \/ main' = "await answer" /\ asked' = asked + 1
       \/ UNCHANGED <<main, asked>>
    /\ UNCHANGED <<hand, stop, out, answers, copied, wsVars, inc, toServer, fromServer,
                   srvVars, rxVars, voiceq>>

DiscoveryFails ==
    /\ main = "discover" /\ attempt = MaxAttempts
    /\ Goto("failed")
    /\ UNCHANGED <<out, udpVars, wsVars, inc, toServer, fromServer, srvVars, rxVars, voiceq>>

BugAnswerPeeked(n) == n

AnswerTaken(n) == n - 1

(* Any answer will do, that to an earlier request too. *)
TakeAnswer ==
    /\ main = "await answer" /\ answers > 0
    /\ Goto("announce")
    /\ answers' = AnswerTaken(answers)
    /\ UNCHANGED <<out, asked, copied, wsVars, inc, toServer, fromServer, srvVars, rxVars,
                   voiceq>>

AnswerTimesOut ==
    /\ main = "await answer" /\ answers = 0
    /\ Goto("discover")
    /\ UNCHANGED <<out, udpVars, wsVars, inc, toServer, fromServer, srvVars, rxVars, voiceq>>

(* The voice server's answer to one of the requests, whenever it comes.  The
   network may repeat the request or the answer: another one is still to come. *)
AnswerArrives ==
    /\ ~Ended /\ asked > 0
    /\ answers' = answers + 1
    /\ \/ asked' = asked - 1 /\ UNCHANGED copied
       \/ copied < MaxCopies /\ copied' = copied + 1 /\ UNCHANGED asked
    /\ UNCHANGED <<mainVars, wsVars, inc, toServer, fromServer, srvVars, rxVars, voiceq>>

-----------------------------------------------------------------------------
(* main: in the channel *)

BugOwnRegistered(present) == present

NewSources(present) == present \ {Own}

(* UdpSetup::run starts the tasks; it fails without a microphone. *)
TakeReady ==
    /\ main = "await ready" /\ inc # <<>>
    /\ inc' = Tail(inc)
    /\ \/ /\ Head(inc).type = "ready"
          /\ main' = "feed"
          /\ hand' = {Msg("present", s, {}) : s \in NewSources(Head(inc).present)}
          /\ receiver' = "running" /\ output' = "starting"
          /\ UNCHANGED <<attempt, stop, current, broken>>
       \/ Goto("failed") /\ UNCHANGED rxVars
    /\ UNCHANGED <<out, udpVars, wsVars, toServer, fromServer, srvVars, voiceq>>

BugUnboundedQueue == TRUE

HasRoom == Len(voiceq) < VoiceSlots

(* An event for a task that has ended is dropped. *)
Feed(e) ==
    /\ main = "feed" /\ e \in hand
    /\ hand' = hand \ {e}
    /\ \/ receiver = "running" /\ HasRoom /\ voiceq' = Append(voiceq, e)
       \/ receiver # "running" /\ UNCHANGED voiceq
    /\ UNCHANGED <<main, attempt, stop, out, udpVars, wsVars, inc, toServer,
                   fromServer, srvVars, rxVars>>

Fed ==
    /\ main = "feed" /\ hand = {}
    /\ Goto("loop")
    /\ UNCHANGED <<out, udpVars, wsVars, inc, toServer, fromServer, srvVars, rxVars, voiceq>>

TakeEvent ==
    /\ main = "loop" /\ inc # <<>>
    /\ inc' = Tail(inc)
    /\ main' = CASE Head(inc).type \in {"joined", "left"} -> "feed"
                 [] Head(inc).type = "disconnected" -> "failed"
                 [] Head(inc).type = "joinerror" -> "stop"
                 [] OTHER -> "loop"
    /\ hand' = IF Head(inc).type \in {"joined", "left"} THEN {Head(inc)} ELSE {}
    /\ UNCHANGED <<attempt, stop, out, udpVars, wsVars, toServer, fromServer,
                   srvVars, rxVars, voiceq>>

UserStops ==
    /\ main = "loop"
    /\ Goto("leave")
    /\ UNCHANGED <<out, udpVars, wsVars, inc, toServer, fromServer, srvVars, rxVars, voiceq>>

SendLeave ==
    /\ main = "leave"
    /\ Send("leave", "stop")
    /\ UNCHANGED <<udpVars, wsVars, inc, toServer, fromServer, srvVars, rxVars, voiceq>>

AskStop ==
    /\ main = "stop" /\ ws # "closed"
    /\ main' = "stopping" /\ stop' = "asked"
    /\ UNCHANGED <<hand, attempt, out, udpVars, wsVars, inc, toServer, fromServer,
                   srvVars, rxVars, voiceq>>

Stopped ==
    /\ main = "stopping" /\ stop = "replied"
    /\ Goto("left")
    /\ UNCHANGED <<out, udpVars, wsVars, inc, toServer, fromServer, srvVars, rxVars, voiceq>>

(* The task is gone, or 50 ms have passed. *)
StopFails ==
    /\ main \in {"stop", "stopping"}
    /\ main = "stop" => ws = "closed"
    /\ Goto("failed")
    /\ UNCHANGED <<out, udpVars, wsVars, inc, toServer, fromServer, srvVars, rxVars, voiceq>>

-----------------------------------------------------------------------------
(* The web socket task.  It chooses freely among what is ready, so that it may
   take stop's request before a message main queued earlier.                *)

WsSend ==
    /\ ~Ended /\ ws = "running" /\ out # <<>>
    /\ out' = Tail(out)
    /\ toServer' = Append(toServer, Head(out))
    /\ UNCHANGED <<main, hand, attempt, stop, udpVars, wsVars, inc, fromServer,
                   srvVars, rxVars, voiceq>>

(* While it waits for room in main's queue it does nothing else. *)
WsReceive ==
    /\ ~Ended /\ ws = "running" /\ fromServer # <<>>
    /\ ws' = "forwarding" /\ held' = Head(fromServer)
    /\ fromServer' = Tail(fromServer)
    /\ UNCHANGED <<mainVars, udpVars, inc, toServer, srvVars, rxVars, voiceq>>

WsForward ==
    /\ ~Ended /\ ws = "forwarding" /\ Len(inc) < IncSlots
    /\ inc' = Append(inc, held)
    /\ ws' = "running" /\ held' = None
    /\ UNCHANGED <<mainVars, udpVars, toServer, fromServer, srvVars, rxVars, voiceq>>

CloseSocket == ws' = "closed" /\ srv' = "gone" /\ UNCHANGED <<held, told, events>>

(* The gateway closed the socket. *)
WsEnds ==
    /\ ~Ended /\ ws = "running" /\ fromServer = <<>> /\ srv = "gone"
    /\ CloseSocket
    /\ UNCHANGED <<mainVars, udpVars, inc, toServer, fromServer, rxVars, voiceq>>

(* A message or a keep-alive cannot be sent, or the socket fails. *)
WsFails ==
    /\ ~Ended /\ ws = "running"
    /\ CloseSocket
    /\ UNCHANGED <<mainVars, udpVars, inc, toServer, fromServer, rxVars, voiceq>>

WsStops ==
    /\ ~Ended /\ ws = "running" /\ stop = "asked"
    /\ CloseSocket
    /\ stop' = "replied"
    /\ UNCHANGED <<main, hand, attempt, out, udpVars, inc, toServer, fromServer,
                   rxVars, voiceq>>

-----------------------------------------------------------------------------
(* udp_rx, its streams and the audio output *)

BugWaitsForOutput == receiver = "running" /\ output = "up"

Listens == receiver = "running"

(* A source that is registered gets a new stream. *)
TakeVoiceEvent ==
    /\ ~Ended /\ Listens /\ voiceq # <<>>
    /\ voiceq' = Tail(voiceq)
    /\ current' = Applied(current, Head(voiceq))
    /\ broken' = broken \ {Head(voiceq).source}
    /\ UNCHANGED <<mainVars, udpVars, wsVars, inc, toServer, fromServer, srvVars,
                   receiver, output>>

(* With udp_rx go its queue and its streams. *)
RxEnd(how) ==
    /\ receiver' = how
    /\ voiceq' = <<>> /\ current' = {} /\ broken' = {}
    /\ UNCHANGED <<mainVars, wsVars, inc, toServer, fromServer, srvVars, output>>

(* An answer to a discovery request: todo!() *)
RxAnswer ==
    /\ ~Ended /\ receiver = "running" /\ answers > 0
    /\ answers' = answers - 1
    /\ RxEnd("todo")
    /\ UNCHANGED <<asked, copied>>

(* The stream's task ends by an error, and the stream stays registered. *)
StreamBreaks(s) ==
    /\ ~Ended /\ receiver = "running" /\ s \in current
    /\ broken' = broken \cup {s}
    /\ UNCHANGED <<mainVars, udpVars, wsVars, inc, toServer, fromServer, srvVars,
                   receiver, output, current, voiceq>>

(* A voice packet for a stream whose queue has no reader: panic!("ded") *)
RxVoice(s) ==
    /\ ~Ended /\ receiver = "running" /\ s \in current
    /\ output = "down" \/ s \in broken
    /\ RxEnd("ded")
    /\ UNCHANGED udpVars

(* A packet that cannot be decrypted or decoded, or a refused connection *)
RxFails ==
    /\ ~Ended /\ receiver = "running"
    /\ RxEnd("ended")
    /\ UNCHANGED udpVars

(* sink_thread unwraps the default output. *)
PlayerStarts ==
    /\ ~Ended /\ output = "starting"
    /\ output' \in {"up"} \cup (IF OutputMissing THEN {"down"} ELSE {})
    /\ UNCHANGED <<mainVars, udpVars, wsVars, inc, toServer, fromServer, srvVars,
                   receiver, voiceq, current, broken>>

-----------------------------------------------------------------------------
(* The gateway's session *)

Tell(m) ==
    /\ fromServer' = Append(fromServer, m)
    /\ told' = Applied(told, m)

Serve(from, m, to) ==
    /\ srv = from /\ toServer # <<>> /\ Head(toServer) = m
    /\ toServer' = Tail(toServer)
    /\ srv' = to

SrvInit ==
    /\ ~Ended /\ Serve("new", "init", "idle")
    /\ Tell(Plain("init"))
    /\ UNCHANGED <<mainVars, udpVars, wsVars, inc, events, rxVars, voiceq>>

SrvJoin ==
    /\ ~Ended
    /\ \/ Serve("idle", "join", "joining") /\ Tell(Plain("udp"))
       \/ Serve("idle", "join", "idle") /\ Tell(Plain("joinerror"))
    /\ UNCHANGED <<mainVars, udpVars, wsVars, inc, events, rxVars, voiceq>>

SrvReady(P) ==
    /\ ~Ended /\ Serve("joining", "announce", "joined")
    /\ Tell(Msg("ready", None, P \cup {Own}))
    /\ UNCHANGED <<mainVars, udpVars, wsVars, inc, events, rxVars, voiceq>>

(* A join may be announced of a source that was listed already. *)
SrvEvent(t, s) ==
    /\ ~Ended /\ srv = "joined" /\ events < MaxEvents
    /\ events' = events + 1
    /\ Tell(Msg(t, s, {}))
    /\ UNCHANGED <<srv, mainVars, udpVars, wsVars, inc, toServer, rxVars, voiceq>>

(* The voice connection died. *)
SrvDisconnects ==
    /\ ~Ended /\ srv = "joined"
    /\ srv' = "idle"
    /\ Tell(Plain("disconnected"))
    /\ UNCHANGED <<mainVars, udpVars, wsVars, inc, toServer, events, rxVars, voiceq>>

SrvLeave ==
    /\ ~Ended
    /\ \/ Serve("joined", "leave", "idle") /\ Tell(Plain("disconnected"))
       \/ Serve("idle", "leave", "idle") /\ UNCHANGED <<fromServer, told>>
    /\ UNCHANGED <<mainVars, udpVars, wsVars, inc, events, rxVars, voiceq>>

SrvGone ==
    /\ ~Ended /\ srv # "gone"
    /\ srv' = "gone"
    /\ UNCHANGED <<mainVars, udpVars, wsVars, inc, toServer, fromServer, told, events,
                   rxVars, voiceq>>

-----------------------------------------------------------------------------
MainStep ==
    \/ SendInit \/ SendJoin \/ SendAnnounce \/ TakeAwaited \/ StreamEnds
    \/ Discover \/ DiscoveryFails \/ TakeAnswer \/ AnswerTimesOut
    \/ TakeReady \/ Fed \/ TakeEvent \/ (\E e \in hand : Feed(e))
    \/ SendLeave \/ AskStop \/ Stopped \/ StopFails
WsStep == WsSend \/ WsReceive \/ WsForward \/ WsEnds \/ WsStops
RxStep == TakeVoiceEvent \/ RxAnswer \/ PlayerStarts
SrvStep ==
    \/ SrvInit \/ SrvJoin \/ SrvDisconnects \/ SrvLeave \/ SrvGone
    \/ \E P \in SUBSET Sources : SrvReady(P)
    \/ \E t \in {"joined", "left"}, s \in Sources : SrvEvent(t, s)

ClientNext ==
    \/ MainStep \/ UserStops
    \/ WsStep \/ WsFails
    \/ AnswerArrives
    \/ RxStep \/ RxFails \/ (\E s \in current : StreamBreaks(s) \/ RxVoice(s))
    \/ SrvStep

ClientSpec == ClientInit /\ [][ClientNext]_clientVars

(* Each of the client's tasks goes on while it can; the runtime polls all of
   them, and the web socket task's choice is random, so no branch that stays
   ready is passed over for ever.                                           *)
ClientFairness ==
    /\ WF_clientVars(MainStep)
    /\ WF_clientVars(WsSend) /\ WF_clientVars(WsReceive) /\ WF_clientVars(WsForward)
    /\ WF_clientVars(WsEnds) /\ WF_clientVars(WsStops)
    /\ WF_clientVars(TakeVoiceEvent) /\ WF_clientVars(PlayerStarts)

FairClientSpec == ClientSpec /\ ClientFairness

-----------------------------------------------------------------------------
(* Properties *)

(* Every variable keeps its type; the queues their limits. *)
ClientTypeOK ==
    /\ main \in {"start", "await init", "join", "await udp", "discover",
                 "await answer", "announce", "await ready", "feed", "loop",
                 "leave", "stop", "stopping", "left", "failed"}
    /\ hand \subseteq VoiceEvent
    /\ attempt \in 0..MaxAttempts
    /\ asked \in Nat /\ answers \in Nat /\ copied \in 0..MaxCopies
    /\ ws \in {"running", "forwarding", "closed"}
    /\ held \in ServerMsg \cup {None}
    /\ stop \in {"none", "asked", "replied"}
    /\ out \in Seq(ClientMsg) /\ Len(out) <= OutSlots
    /\ inc \in Seq(ServerMsg) /\ Len(inc) <= IncSlots
    /\ toServer \in Seq(ClientMsg)
    /\ fromServer \in Seq(ServerMsg)
    /\ srv \in {"new", "idle", "joining", "joined", "gone"}
    /\ told \subseteq Sources
    /\ events \in 0..MaxEvents
    /\ receiver \in {"none", "running", "ended", "todo", "ded"}
    /\ output \in {"none", "starting", "up", "down"}
    /\ voiceq \in Seq(VoiceEvent) /\ Len(voiceq) <= VoiceSlots
    /\ current \subseteq Sources /\ broken \subseteq current

(* What is known once the messages of q, or the events of h, have been taken
   too: of each source, what the last of them to speak of it says.            *)
Tells(m, s) ==
    \/ m.type = "ready"
    \/ m.type \in {"joined", "present", "left"} /\ m.source = s
AsPresent(m, s) == IF m.type = "ready" THEN s \in m.present \ {Own} ELSE m.type # "left"
Silent(q, n, s) == \A k \in n..Len(q) : ~Tells(q[k], s)
After(known, q) ==
    {s \in known : Silent(q, 1, s)}
      \cup {s \in Sources \cup {Own} : \E n \in 1..Len(q) :
                Tells(q[n], s) /\ AsPresent(q[n], s) /\ Silent(q, n + 1, s)}
Handed(known, h) ==
    {s \in known : \A e \in h : e.source = s => e.type # "left"}
      \cup {e.source : e \in {e \in h : e.type # "left"}}

(* The streams udp_rx keeps, with the events still under way in the queues, in
   main's hands and on the socket, are those of exactly the clients the gateway
   has told of: the listing, joins and leaves pass three tasks and four queues
   without loss or exchange, and the client's own stream is not among them.   *)
AtReceiver == After(current, voiceq)
AtMain == After(Handed(AtReceiver, hand), inc)
AtSocket == IF held = None THEN AtMain ELSE Applied(AtMain, held)
Follows == ~Ended /\ ws # "closed" /\ receiver \in {"none", "running"}
ViewFollows == Follows => After(AtSocket, fromServer) = told

(* udp_rx comes to its todo!() for an answer to the address discovery only when
   the client has asked more than once, or the network has repeated a request or
   an answer: the answer that main took is not there any more, whatever comes
   late, and only one that nobody took stays in the socket.                   *)
TodoNeedsRepeat == receiver = "todo" => attempt + copied > 1

(* Whatever the gateway tells of is followed in the end, while the client and
   its connection live: no task waits for ever on another's full queue.     *)
Heard ==
    \A s \in Sources :
        (Follows /\ (s \in told) # (s \in current))
            ~> ((s \in told) = (s \in current) \/ ~Follows)

(* The client ends when its user stops it and when the gateway is gone, wherever
   it is in the handshake and whatever its tasks wait for.                  *)
ClientEnds == (srv = "gone" \/ main = "leave") ~> Ended

(***************************************************************************)
(* The inductive invariant behind ViewFollows and TodoNeedsRepeat: udp_rx  *)
(* starts when the channel is ready, which the gateway says once; only     *)
(* then does main hand on events, of each source one at a time and none of *)
(* its own; the web socket task holds a message while it waits for room;   *)
(* and there are no more answers of the discovery than requests and copies *)
(* the network made, fewer once main has taken one.                        *)
(***************************************************************************)
Handshakes == {"start", "await init", "join", "await udp", "discover",
               "await answer", "announce", "await ready"}
StartsReady ==
    /\ main \in Handshakes => receiver = "none"
    /\ receiver = "none" => /\ main \in Handshakes \cup {"failed"}
                            /\ current = {} /\ voiceq = <<>>
    /\ hand # {} => main = "feed"
HandApart == \A e, f \in hand : e.source = f.source => e = f
OthersOnly ==
    /\ \A e \in hand : e.source # Own
    /\ \A n \in 1..Len(voiceq) : voiceq[n].source # Own
Holding == ws # "closed" => (held # None <=> ws = "forwarding")
AnswersCounted ==
    /\ asked + answers <= attempt + copied
    /\ main \in {"announce", "await ready"} \/ receiver # "none" =>
          asked + answers < attempt + copied

(* The announcement, and the answer to it, on their way: where they may be *)
Has(q, S) == \E n \in 1..Len(q) : q[n] \in S
Once(q, S) == \A m, n \in 1..Len(q) : q[m] \in S /\ q[n] \in S => m = n
Announcing == {"announce"}
Readies == {m \in ServerMsg : m.type = "ready"}
Legs == {"out", "to server", "from server", "held", "inc"}
OnLeg(l) ==
    CASE l = "out" -> Has(out, Announcing)
      [] l = "to server" -> Has(toServer, Announcing)
      [] l = "from server" -> Has(fromServer, Readies)
      [] l = "held" -> held \in Readies
      [] l = "inc" -> Has(inc, Readies)
ReadyOnce ==
    /\ Once(out, Announcing) /\ Once(toServer, Announcing)
    /\ Once(fromServer, Readies) /\ Once(inc, Readies)
    /\ \A l, k \in Legs : OnLeg(l) /\ OnLeg(k) => l = k
    /\ ~Ended /\ main # "await ready" => \A l \in Legs : ~OnLeg(l)

ClientIInv ==
    /\ ClientTypeOK
    /\ StartsReady
    /\ HandApart
    /\ OthersOnly
    /\ Holding
    /\ AnswersCounted
    /\ ReadyOnce
    /\ TodoNeedsRepeat
    /\ ViewFollows
=============================================================================
