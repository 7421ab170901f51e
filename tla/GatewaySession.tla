--------------------------- MODULE GatewaySession ---------------------------
(***************************************************************************)
(* One client's session at a gateway: the WebSocket task, which passes     *)
(* messages between the socket and two bounded queues, the session task,   *)
(* which handles them one at a time, and the status check task of a joined *)
(* channel (server/gateway/src/server/session.rs and ws.rs).               *)
(*                                                                         *)
(* The voice server is seen as the session sees it, through RPCs: it keeps *)
(* the newest connection of the client per channel, as ClientSession       *)
(* describes it.  A dropped VoiceHandle sends its leave from a task of its *)
(* own, which may arrive at any later time and names only client and       *)
(* channel.  Presence in the channel is the subject of Presence: here it   *)
(* is the events that a joined session is told of.                         *)
(***************************************************************************)
EXTENDS Naturals, FiniteSets, Sequences

CONSTANTS
    Channels,
    Attempts,   \* attempts to join, used again once nothing refers to them
    InCap,      \* capacity of the queue to the session (10 in the code)
    OutCap,     \* capacity of the queue to the socket (10 in the code)
    Floods,     \* the client sends before its last message has been taken
    None

ASSUME CapsPositive == InCap \in Nat \ {0} /\ OutCap \in Nat \ {0}
ASSUME FloodsBoolean == Floods \in BOOLEAN
ASSUME NoneIsNothing == None \notin Channels \cup Attempts

VARIABLES
    client,     \* alive, or gone: it sends nothing any more
    ws,         \* what the WebSocket task is doing
    inc, out,   \* ControlStream.inc and .out
    view,       \* whether the client has been told that it is in a channel
    session,    \* what the session task is doing
    voice,      \* the VoiceHandle of the session, or None
    conn,       \* the voice server's connection of the client, per channel
    leaves      \* leave requests sent and not handled yet

vars == <<client, ws, inc, out, view, session, voice, conn, leaves>>

-----------------------------------------------------------------------------
(* Values *)

(* leave stands for Leave and Disconnect, which are handled alike. *)
ClientMsg == [kind : {"init", "join", "udp", "leave"},
              chan : Channels \cup {None}]
Msg(k, c) == [kind |-> k, chan |-> c]
Messages == {Msg("join", c) : c \in Channels}
              \cup {Msg(k, None) : k \in {"init", "udp", "leave"}}
ServerMsgs == {"welcome", "announce", "ready", "event", "disconnected",
               "joinError"}
Points == {"handshake", "loop", "get", "open", "join", "await", "establish",
           "voice", "drop", "ended"}

(* at "send", msg waits for room in the out queue, and then comes next. *)
Session == [at : Points \cup {"send"},
            msg : ServerMsgs \cup {None},
            then : Points \cup {None},
            chan : Channels \cup {None},
            attempt : Attempts \cup {None}]
Voice == [chan : Channels, attempt : Attempts, check : {"running", "finished"}]
Leave == [chan : Channels, attempt : Attempts]
Conn == [attempt : Attempts \cup {None},
         state : {"absent", "waiting", "peered", "stopped"}]

ASSUME NoneIsNoVoice == None \notin Voice

Absent == [attempt |-> None, state |-> "absent"]
Runs(c) == conn[c].state \in {"waiting", "peered"}
Unused(a) ==
    /\ session.attempt # a
    /\ voice # None => voice.attempt # a
    /\ \A c \in Channels : conn[c].attempt # a
    /\ \A l \in leaves : l.attempt # a

Init ==
    /\ client = "alive"
    /\ ws = [at |-> "select", msg |-> None]
    /\ inc = <<>>
    /\ out = <<>>
    /\ view = "out"
    /\ session = [at |-> "handshake", msg |-> None, then |-> None,
                  chan |-> None, attempt |-> None]
    /\ voice = None
    /\ conn = [c \in Channels |-> Absent]
    /\ leaves = {}

-----------------------------------------------------------------------------
(* The client and the WebSocket task.  Keep-alives, and their answers, only
   keep an idle client alive.  Operators named Bug... are no part of
   the specification: each is a faulty form of the definition that follows
   it, which some property must reject.                                     *)

(* It closes its socket, or falls silent and sends no keep-alives either. *)
ClientLeaves ==
    /\ client = "alive"
    /\ client' = "gone"
    /\ UNCHANGED <<ws, inc, out, view, session, voice, conn, leaves>>

(* The next message of the socket is decoded, and is to be forwarded. *)
ClientSends(m) ==
    /\ client = "alive"
    /\ ws.at = "select"
    /\ Floods \/ inc = <<>>
    /\ ws' = [at |-> "forward", msg |-> m]
    /\ UNCHANGED <<client, inc, out, view, session, voice, conn, leaves>>

Closed == ws.at = "closed"

BugNoLimit(queue, cap) == TRUE

HasRoom(queue, cap) == Len(queue) < cap

(* The task returns: both its ends of the queues are gone. *)
CloseSocket ==
    /\ ws' = [at |-> "closed", msg |-> None]
    /\ out' = <<>>

(* forward.send(evt).await: nothing else is served until there is room. *)
Forward ==
    /\ ws.at = "forward"
    /\ \/ /\ session.at = "ended"
          /\ CloseSocket
          /\ UNCHANGED inc
       \/ /\ session.at # "ended"
          /\ HasRoom(inc, InCap)
          /\ inc' = Append(inc, ws.msg)
          /\ ws' = [at |-> "select", msg |-> None]
          /\ UNCHANGED out
    /\ UNCHANGED <<client, view, session, voice, conn, leaves>>

Views == {"in", "out", "confused"}

(* What the client makes of a message; an event of a channel that it is not
   in confuses it.                                                          *)
Show(v, m) ==
    CASE m = "ready" -> "in"
      [] m = "disconnected" -> "out"
      [] m = "event" /\ v # "in" -> "confused"
      [] OTHER -> v

SendBack ==
    /\ ws.at = "select"
    /\ out # <<>>
    /\ view' = Show(view, Head(out))
    /\ out' = Tail(out)
    /\ UNCHANGED <<client, ws, inc, session, voice, conn, leaves>>

(* The stream ends, or the keep-alive deadline elapses. *)
ClientGone ==
    /\ ws.at = "select"
    /\ client = "gone"
    /\ CloseSocket
    /\ UNCHANGED <<client, inc, view, session, voice, conn, leaves>>

(* A message that does not decode, or sending fails or times out. *)
SocketFails ==
    /\ ws.at = "select"
    /\ CloseSocket
    /\ UNCHANGED <<client, inc, view, session, voice, conn, leaves>>

-----------------------------------------------------------------------------
(* The session task: sending and stopping *)

At(p) == session.at = p
Moved(p) == [session EXCEPT !.at = p]
Sending(m, then) ==
    [session EXCEPT !.at = "send", !.msg = m, !.then = then]
Goto(p) == session' = Moved(p)
Send(m, then) == session' = Sending(m, then)

(* Drop of a VoiceHandle: a leave is sent by a task of its own. *)
DropVoice ==
    /\ voice' = None
    /\ leaves' = IF voice = None THEN leaves
                 ELSE leaves \cup {[chan |-> voice.chan, attempt |-> voice.attempt]}

(* The session returns, with an error or without, and drops what it holds. *)
End ==
    /\ session' = [session EXCEPT !.at = "ended", !.msg = None, !.then = None,
                                  !.chan = None, !.attempt = None]
    /\ inc' = <<>>
    /\ DropVoice

(* Only stop_voice ignores that its message cannot be sent. *)
Ignored == session.msg = "disconnected" /\ voice = None

(* self.out.send(evt).await, and what follows it *)
Sent ==
    /\ At("send")
    /\ ~Closed
    /\ HasRoom(out, OutCap)
    /\ out' = Append(out, session.msg)
    /\ session' = [session EXCEPT !.at = session.then, !.msg = None, !.then = None]
    /\ UNCHANGED <<client, ws, inc, view, voice, conn, leaves>>

SendFails ==
    /\ At("send")
    /\ Closed
    /\ IF Ignored
       THEN /\ session' = [session EXCEPT !.at = session.then, !.msg = None,
                                          !.then = None]
            /\ UNCHANGED <<inc, voice, leaves>>
       ELSE End
    /\ UNCHANGED <<client, ws, out, view, conn>>

BugSilentStop(next, c) ==
    /\ DropVoice
    /\ session' = [Moved(next) EXCEPT !.chan = c, !.attempt = None]

BugNoLeave(next, c) ==
    /\ voice' = None
    /\ session' =
         [IF voice = None THEN Moved(next) ELSE Sending("disconnected", next)
            EXCEPT !.chan = c, !.attempt = None]
    /\ UNCHANGED leaves

(* stop_voice: the handle is dropped first, then the client is told. *)
StopVoice(next, c) ==
    /\ DropVoice
    /\ session' =
         [IF voice = None THEN Moved(next) ELSE Sending("disconnected", next)
            EXCEPT !.chan = c, !.attempt = None]

-----------------------------------------------------------------------------
(* The session task: events *)

Handshake ==
    /\ At("handshake")
    /\ inc # <<>>
    /\ IF Head(inc).kind = "init"
       THEN /\ inc' = Tail(inc)
            /\ Send("welcome", "loop")
            /\ UNCHANGED <<voice, leaves>>
       ELSE End
    /\ UNCHANGED <<client, ws, out, view, conn>>

(* Whatever the client sends stops its voice connection, a join too. *)
HandleEvent ==
    /\ At("loop")
    /\ inc # <<>>
    /\ inc' = Tail(inc)
    /\ StopVoice(IF Head(inc).kind = "join" THEN "get" ELSE "loop", Head(inc).chan)
    /\ UNCHANGED <<client, ws, out, view, conn>>

BugDeafToEnd == At("handshake") \/ At("loop")

Listens == At("handshake") \/ At("loop") \/ At("await")

(* No message is left, and the WebSocket task is gone. *)
StreamEnds ==
    /\ Listens
    /\ inc = <<>>
    /\ Closed
    /\ End
    /\ UNCHANGED <<client, ws, out, view, conn>>

(* A channel event of another client. *)
ChanEvent ==
    /\ At("loop")
    /\ voice # None
    /\ Send("event", "loop")
    /\ UNCHANGED <<client, ws, inc, out, view, voice, conn, leaves>>

(* The status check has ended: the client is told, then the handle dropped. *)
VoiceDied ==
    /\ At("loop")
    /\ voice # None
    /\ voice.check = "finished"
    /\ Send("disconnected", "drop")
    /\ UNCHANGED <<client, ws, inc, out, view, voice, conn, leaves>>

ForgetVoice ==
    /\ At("drop")
    /\ DropVoice
    /\ session' = [Moved("loop") EXCEPT !.chan = None, !.attempt = None]
    /\ UNCHANGED <<client, ws, inc, out, view, conn>>

-----------------------------------------------------------------------------
(* The session task: initialize_voice_connection.  An error at any point
   ends the session.                                                        *)

Fails ==
    /\ session.at \in {"get", "open", "join", "await", "establish"}
    /\ At("await") => inc # <<>>
    /\ End
    /\ UNCHANGED <<client, ws, out, view, conn>>

GetChannel ==
    /\ At("get")
    /\ Goto("open") \/ Send("joinError", "loop")
    /\ UNCHANGED <<client, ws, inc, out, view, voice, conn, leaves>>

(* The voice server takes the new connection for the client's; the answer
   arrives, or does not.  A reassignment and the second attempt that may come
   before are no step of their own.                                         *)
OpenConnection ==
    /\ At("open")
    /\ \E a \in Attempts :
        /\ Unused(a)
        /\ conn' = [conn EXCEPT ![session.chan] =
                       [attempt |-> a, state |-> "waiting"]]
        /\ \/ /\ session' = [Moved("join") EXCEPT !.attempt = a]
              /\ UNCHANGED <<inc, voice, leaves>>
           \/ End
    /\ UNCHANGED <<client, ws, out, view>>

JoinChannel ==
    /\ At("join")
    /\ Send("announce", "await")
    /\ UNCHANGED <<client, ws, inc, out, view, voice, conn, leaves>>

(* Any other message than the address is an error, see Fails. *)
AwaitClientUdp ==
    /\ At("await")
    /\ inc # <<>>
    /\ Head(inc).kind = "udp"
    /\ inc' = Tail(inc)
    /\ Goto("establish")
    /\ UNCHANGED <<client, ws, out, view, voice, conn, leaves>>

Establish ==
    /\ At("establish")
    /\ Runs(session.chan)
    /\ conn' = [conn EXCEPT ![session.chan].state = "peered"]
    /\ \/ /\ Send("ready", "voice")
          /\ UNCHANGED <<inc, voice, leaves>>
       \/ End
    /\ UNCHANGED <<client, ws, out, view>>

EnterChannel ==
    /\ At("voice")
    /\ voice' = [chan |-> session.chan, attempt |-> session.attempt,
                 check |-> "running"]
    /\ session' = [Moved("loop") EXCEPT !.chan = None, !.attempt = None]
    /\ UNCHANGED <<client, ws, inc, out, view, conn, leaves>>

-----------------------------------------------------------------------------
(* The status check, and the voice server *)

BugOnlyStopped(c) == conn[c].state = "stopped"

(* What user_status says, or that it knows no such client, ends the check. *)
Dead(c) == conn[c].state \in {"stopped", "absent"}

CheckEnds ==
    /\ voice' = [voice EXCEPT !.check = "finished"]
    /\ UNCHANGED <<client, ws, inc, out, view, session, conn, leaves>>

StatusCheck ==
    /\ voice # None
    /\ voice.check = "running"
    /\ Dead(voice.chan)
    /\ CheckEnds

StatusFails ==
    /\ voice # None
    /\ voice.check = "running"
    /\ CheckEnds

(* The connection times out, or fails. *)
ConnectionStops(c) ==
    /\ Runs(c)
    /\ conn' = [conn EXCEPT ![c].state = "stopped"]
    /\ UNCHANGED <<client, ws, inc, out, view, session, voice, leaves>>

ConnectionForgotten(c) ==
    /\ conn[c].state = "stopped"
    /\ conn' = [conn EXCEPT ![c] = Absent]
    /\ UNCHANGED <<client, ws, inc, out, view, session, voice, leaves>>

(* The leave stops the newest connection, be it of another attempt. *)
LeaveArrives(l) ==
    /\ l \in leaves
    /\ leaves' = leaves \ {l}
    /\ conn' = IF Runs(l.chan) THEN [conn EXCEPT ![l.chan].state = "stopped"]
               ELSE conn
    /\ UNCHANGED <<client, ws, inc, out, view, session, voice>>

-----------------------------------------------------------------------------

Initialize ==
    GetChannel \/ OpenConnection \/ JoinChannel \/ Establish \/ EnterChannel

Next ==
    \/ ClientLeaves
    \/ \E m \in Messages : ClientSends(m)
    \/ Forward \/ SendBack \/ ClientGone \/ SocketFails
    \/ Sent \/ SendFails \/ Handshake \/ HandleEvent \/ StreamEnds
    \/ ChanEvent \/ VoiceDied \/ ForgetVoice
    \/ Fails \/ Initialize \/ AwaitClientUdp
    \/ StatusCheck \/ StatusFails
    \/ \E c \in Channels : ConnectionStops(c) \/ ConnectionForgotten(c)
    \/ \E l \in leaves : LeaveArrives(l)

Spec == Init /\ [][Next]_vars

(***************************************************************************)
(* Tasks are scheduled, RPCs end, the deadline fires.  select! polls its   *)
(* branches in random order, so that no branch which is ready again and    *)
(* again is passed over for ever: strong fairness.  Nothing is assumed of  *)
(* the client, of a leave under way, or of when a connection stops.        *)
(***************************************************************************)
Fairness ==
    /\ WF_vars(Forward)
    /\ SF_vars(SendBack)
    /\ SF_vars(ClientGone)
    /\ WF_vars(Sent) /\ WF_vars(SendFails)
    /\ WF_vars(Handshake) /\ SF_vars(HandleEvent) /\ SF_vars(StreamEnds)
    /\ SF_vars(VoiceDied) /\ WF_vars(ForgetVoice)
    /\ WF_vars(Fails \/ Initialize \/ AwaitClientUdp)
    /\ WF_vars(StatusCheck)

FairSpec == Spec /\ Fairness

-----------------------------------------------------------------------------
(* Properties *)

(* Every variable keeps its type, and the queues their capacities. *)
TypeOK ==
    /\ client \in {"alive", "gone"}
    /\ ws \in [at : {"select", "forward", "closed"}, msg : ClientMsg \cup {None}]
    /\ inc \in Seq(ClientMsg) /\ Len(inc) <= InCap
    /\ out \in Seq(ServerMsgs) /\ Len(out) <= OutCap
    /\ view \in Views
    /\ session \in Session
    /\ voice \in Voice \cup {None}
    /\ conn \in [Channels -> Conn]
    /\ leaves \subseteq Leave

(* Once it has received what is queued for it, a client of a session that is
   ready for the next event knows whether it is in a channel, and it is never
   told of events of a channel it is not in: no way in or out of a channel
   forgets to tell, and no event is queued on the wrong side of it.          *)
Becomes(v, q, w) ==     \* the view v, with the messages q shown to it, is w
    \E run \in [0..Len(q) -> Views] :
        /\ run[0] = v /\ run[Len(q)] = w
        /\ \A i \in 1..Len(q) : run[i] = Show(run[i - 1], q[i])
ClientKnows ==
    At("loop") /\ ~Closed =>
        Becomes(view, out, IF voice = None THEN "out" ELSE "in")

(* While the session runs, every connection that the voice server serves is
   the one being established, the one joined, or about to be told to stop:
   none goes on unknown to the session, whatever the order of its attempts.  *)
Held(c) ==
    \/ session.chan = c /\ session.attempt = conn[c].attempt
    \/ voice # None /\ voice.chan = c /\ voice.attempt = conn[c].attempt
    \/ \E l \in leaves : l.chan = c
PeeredIsHeld ==
    \A c \in Channels :
        ~At("ended") /\ conn[c].state = "peered" => Held(c)

(***************************************************************************)
(* The inductive invariant behind PeeredIsHeld.  Heading is where the      *)
(* session goes on once its message is sent.  It knows its attempt from    *)
(* the answer of the voice server until it has joined (AttemptKnown), which *)
(* is then the newest of its channel (NewestIsOwn); and it initializes no  *)
(* connection while it has one (OneVoice).                                 *)
(***************************************************************************)
Heading == IF At("send") THEN session.then ELSE session.at
Initializing == {"join", "await", "establish", "voice"}

WellFormed ==
    /\ inc \in Seq(Messages)
    /\ ws.at = "forward" => ws.msg \in Messages
    /\ At("send") => session.msg \in ServerMsgs /\ session.then \in Points
    /\ \A c \in Channels : conn[c].attempt = None <=> conn[c].state = "absent"
AttemptKnown ==
    /\ session.attempt # None <=> Heading \in Initializing
    /\ Heading \in Initializing \cup {"get", "open"} => session.chan \in Channels
NewestIsOwn ==
    session.attempt # None => conn[session.chan].attempt \in {session.attempt, None}
OneVoice == voice # None => Heading \in {"loop", "drop"}

IInv ==
    /\ TypeOK
    /\ WellFormed
    /\ AttemptKnown
    /\ NewestIsOwn
    /\ OneVoice
    /\ PeeredIsHeld

(* A session runs to completion once its client is gone, wherever it was
   waiting: for a message, for room in a queue, or for the voice server.     *)
SessionCompletes == (client = "gone") ~> At("ended")

(* A session whose voice connection is no longer served notices, and leaves
   the channel, unless it does so for another reason.                        *)
DeadVoiceNoticed ==
    \A a \in Attempts :
        (voice # None /\ voice.attempt = a /\ Dead(voice.chan))
            ~> ~(voice # None /\ voice.attempt = a)
=============================================================================
