------------------------ MODULE GatewaySessionProofs ------------------------
(***************************************************************************)
(* Proofs about GatewaySession, for any channels, attempts and capacities  *)
(* of the queues, and clients that flood or do not.                        *)
(***************************************************************************)
EXTENDS GatewaySession, TLAPS

-----------------------------------------------------------------------------
(* Queues and handles *)

(* A message added where there is room *)
LEMMA PushBounded ==
    ASSUME NEW S, NEW q \in Seq(S), NEW m \in S, NEW cap \in Nat, HasRoom(q, cap)
    PROVE  Append(q, m) \in Seq(S) /\ Len(Append(q, m)) <= cap
BY DEF HasRoom

(* A message taken off a queue *)
LEMMA PopBounded ==
    ASSUME NEW S, NEW q \in Seq(S), q # <<>>, NEW cap \in Nat, Len(q) <= cap
    PROVE  Head(q) \in S /\ Tail(q) \in Seq(S) /\ Len(Tail(q)) <= cap
OBVIOUS

(* What a client may send is a client's message. *)
LEMMA MessagesTyped == Messages \subseteq ClientMsg
BY DEF Messages, ClientMsg, Msg

(* The message the session takes next, and what is left *)
LEMMA InQueue ==
    ASSUME IInv, inc # <<>>
    PROVE  /\ Head(inc) \in Messages
           /\ Tail(inc) \in Seq(Messages) /\ Tail(inc) \in Seq(ClientMsg)
           /\ Len(Tail(inc)) <= InCap
<1>1. inc \in Seq(Messages) /\ inc \in Seq(ClientMsg) /\ Len(inc) <= InCap
  BY DEF IInv, TypeOK, WellFormed
<1> QED BY <1>1, PopBounded, CapsPositive

(* A dropped handle is replaced by a leave for its channel. *)
LEMMA DroppedIsLeaving ==
    ASSUME IInv, DropVoice
    PROVE  /\ voice' = None
           /\ leaves' \subseteq Leave
           /\ leaves \subseteq leaves'
           /\ voice # None => \E l \in leaves' : l.chan = voice.chan
<1>1. voice # None => voice \in Voice
  BY DEF IInv, TypeOK
<1>2. voice # None => [chan |-> voice.chan, attempt |-> voice.attempt] \in Leave
  BY <1>1 DEF Voice, Leave
<1>3. leaves \subseteq Leave
  BY DEF IInv, TypeOK
<1> QED BY <1>2, <1>3 DEF DropVoice

-----------------------------------------------------------------------------
(* What the steps have in common *)

(* Where the connections are as they were, the session still knows of each
   that is served if it knows of its own attempt and its handle's channel.   *)
LEMMA ConnectionsStay ==
    ASSUME IInv, UNCHANGED conn, ~At("ended"),
           leaves \subseteq leaves',
           session.attempt # None =>
              \/ session'.chan = session.chan /\ session'.attempt = session.attempt
              \/ /\ voice' # None
                 /\ voice'.chan = session.chan /\ voice'.attempt = session.attempt,
           voice # None => \/ voice' = voice
                           \/ \E l \in leaves' : l.chan = voice.chan
    PROVE  PeeredIsHeld'
<1> SUFFICES ASSUME NEW c \in Channels, conn[c].state = "peered" PROVE Held(c)'
  BY DEF PeeredIsHeld
<1>1. Held(c)
  BY DEF IInv, PeeredIsHeld
<1>2. conn[c].attempt # None
  BY DEF IInv, WellFormed
<1> QED BY <1>1, <1>2 DEF Held

(* A session that has ended has nothing left to account for. *)
LEMMA EndedKeeps ==
    ASSUME IInv, End,
           client' \in {"alive", "gone"},
           UNCHANGED <<ws, out, view>>,
           conn' \in [Channels -> Conn],
           \A c \in Channels : conn'[c].attempt = None <=> conn'[c].state = "absent"
    PROVE  IInv'
<1>1. /\ session' \in Session /\ session'.at = "ended"
      /\ session'.attempt = None /\ session'.chan = None
  BY DEF IInv, TypeOK, Session, Points, End
<1>2. inc' = <<>>
  BY DEF End
<1>3. voice' = None /\ leaves' \subseteq Leave
  BY DroppedIsLeaving DEF End
<1>4. TypeOK'
  BY <1>1, <1>2, <1>3, CapsPositive DEF IInv, TypeOK
<1>5. WellFormed'
  BY <1>1, <1>2 DEF IInv, WellFormed, At
<1>6. AttemptKnown' /\ NewestIsOwn' /\ OneVoice' /\ PeeredIsHeld'
  BY <1>1, <1>3 DEF AttemptKnown, NewestIsOwn, OneVoice, PeeredIsHeld, Heading,
     Initializing, At
<1> QED BY <1>4, <1>5, <1>6 DEF IInv

(* Neither the session nor what the voice server has changes. *)
LEMMA SocketStepKeeps ==
    ASSUME IInv, UNCHANGED <<session, voice, conn, leaves>>,
           client' \in {"alive", "gone"},
           ws' \in [at : {"select", "forward", "closed"}, msg : ClientMsg \cup {None}],
           ws'.at = "forward" => ws'.msg \in Messages,
           inc' \in Seq(Messages), inc' \in Seq(ClientMsg), Len(inc') <= InCap,
           out' \in Seq(ServerMsgs), Len(out') <= OutCap,
           view' \in Views
    PROVE  IInv'
<1>1. TypeOK'
  BY DEF IInv, TypeOK
<1>2. WellFormed'
  BY DEF IInv, WellFormed, At
<1>3. AttemptKnown' /\ NewestIsOwn' /\ OneVoice' /\ PeeredIsHeld'
  BY DEF IInv, AttemptKnown, NewestIsOwn, OneVoice, PeeredIsHeld, Heading, At, Held
<1> QED BY <1>1, <1>2, <1>3 DEF IInv

(* The session moves on with what it has, or takes up or gives up what a
   step may: its queues are in order and it does not forget its connection.  *)
LEMMA SessionStepKeeps ==
    ASSUME IInv, UNCHANGED <<client, ws, view, conn>>,
           inc' \in Seq(Messages), inc' \in Seq(ClientMsg), Len(inc') <= InCap,
           out' \in Seq(ServerMsgs), Len(out') <= OutCap,
           session' \in Session,
           session'.at = "send" =>
              session'.msg \in ServerMsgs /\ session'.then \in Points,
           AttemptKnown', NewestIsOwn', OneVoice', PeeredIsHeld',
           voice' \in Voice \cup {None}, leaves' \subseteq Leave
    PROVE  IInv'
<1>1. TypeOK'
  BY DEF IInv, TypeOK
<1>2. WellFormed'
  BY DEF IInv, WellFormed, At
<1> QED BY <1>1, <1>2 DEF IInv

-----------------------------------------------------------------------------
(* The client, the WebSocket task and the voice server *)

(* The types, one by one *)
LEMMA Typed ==
    ASSUME IInv
    PROVE  /\ inc \in Seq(Messages) /\ inc \in Seq(ClientMsg) /\ Len(inc) <= InCap
           /\ out \in Seq(ServerMsgs) /\ Len(out) <= OutCap
           /\ session \in Session
           /\ voice \in Voice \cup {None} /\ leaves \subseteq Leave
           /\ conn \in [Channels -> Conn]
           /\ InCap \in Nat /\ OutCap \in Nat
BY CapsPositive DEF IInv, TypeOK, WellFormed

(* The client and the web socket task change the queues only. *)
LEMMA SocketKeeps ==
    ASSUME IInv,
           \/ ClientLeaves
           \/ \E m \in Messages : ClientSends(m)
           \/ Forward \/ SendBack \/ ClientGone \/ SocketFails
    PROVE  IInv'
<1>1. CASE ClientLeaves
  BY <1>1, Typed, SocketStepKeeps DEF ClientLeaves, IInv, TypeOK, WellFormed
<1>2. ASSUME NEW m \in Messages, ClientSends(m) PROVE IInv'
  BY <1>2, Typed, MessagesTyped, SocketStepKeeps DEF ClientSends, IInv, TypeOK
<1>3. ASSUME CloseSocket,
             UNCHANGED <<client, inc, view, session, voice, conn, leaves>>
      PROVE  IInv'
  BY <1>3, Typed, SocketStepKeeps DEF CloseSocket, IInv, TypeOK
<1>4. CASE Forward
  <2>1. CASE CloseSocket /\ UNCHANGED inc
    BY <1>3, <1>4, <2>1 DEF Forward
  <2>2. CASE /\ HasRoom(inc, InCap)
             /\ inc' = Append(inc, ws.msg)
             /\ ws' = [at |-> "select", msg |-> None]
             /\ UNCHANGED out
    <3>1. ws.msg \in Messages /\ ws.msg \in ClientMsg
      BY <1>4, MessagesTyped DEF Forward, IInv, WellFormed
    <3>2. inc' \in Seq(Messages) /\ inc' \in Seq(ClientMsg) /\ Len(inc') <= InCap
      BY <2>2, <3>1, Typed, PushBounded
    <3> QED BY <1>4, <2>2, <3>2, Typed, SocketStepKeeps DEF Forward, IInv, TypeOK
  <2> QED BY <1>4, <2>1, <2>2 DEF Forward
<1>5. CASE SendBack
  <2>1. out # <<>> /\ out' = Tail(out) /\ view' = Show(view, Head(out))
    BY <1>5 DEF SendBack
  <2>2. out' \in Seq(ServerMsgs) /\ Len(out') <= OutCap
    BY <2>1, Typed, PopBounded
  <2>3. view' \in Views
    BY <2>1 DEF Show, Views, IInv, TypeOK
  <2> QED BY <1>5, <2>2, <2>3, Typed, SocketStepKeeps
          DEF SendBack, IInv, TypeOK, WellFormed
<1>6. CASE ClientGone \/ SocketFails
  BY <1>3, <1>6 DEF ClientGone, SocketFails
<1> QED BY <1>1, <1>2, <1>4, <1>5, <1>6

(* The voice server serves no more connections than before, and none under
   another attempt; a leave that has arrived has stopped the channel's.      *)
LEMMA ServingLessKeeps ==
    ASSUME IInv, UNCHANGED <<client, ws, inc, out, view, session, voice>>,
           conn' \in [Channels -> Conn],
           \A c \in Channels :
              /\ conn'[c].attempt = None <=> conn'[c].state = "absent"
              /\ conn'[c].attempt \in {conn[c].attempt, None}
              /\ conn'[c].state = "peered" => /\ conn[c] = conn'[c]
                                              /\ \A l \in leaves \ leaves' : l.chan # c,
           leaves' \subseteq leaves
    PROVE  IInv'
<1>1. TypeOK'
  BY DEF IInv, TypeOK
<1>2. WellFormed' /\ AttemptKnown' /\ OneVoice'
  BY DEF IInv, WellFormed, AttemptKnown, OneVoice, Heading, At
<1>3. NewestIsOwn'
  BY DEF IInv, NewestIsOwn, AttemptKnown
<1>4. PeeredIsHeld'
  <2> SUFFICES ASSUME NEW c \in Channels, ~At("ended"), conn'[c].state = "peered"
               PROVE  Held(c)'
    BY DEF PeeredIsHeld, At
  <2>1. Held(c) /\ conn'[c] = conn[c] /\ \A l \in leaves \ leaves' : l.chan # c
    BY DEF IInv, PeeredIsHeld
  <2> QED BY <2>1 DEF Held
<1> QED BY <1>1, <1>2, <1>3, <1>4 DEF IInv

(* A connection that stops, or is forgotten, is not served any longer. *)
LEMMA VoiceServerKeeps ==
    ASSUME IInv,
           \/ \E c \in Channels : ConnectionStops(c) \/ ConnectionForgotten(c)
           \/ \E l \in leaves : LeaveArrives(l)
    PROVE  IInv'
<1> USE DEF Conn
<1>1. \A c \in Channels : conn[c].attempt = None <=> conn[c].state = "absent"
  BY DEF IInv, WellFormed
<1>2. ASSUME NEW c \in Channels, ConnectionStops(c) PROVE IInv'
  BY <1>1, <1>2, Typed, ServingLessKeeps DEF ConnectionStops, Runs
<1>3. ASSUME NEW c \in Channels, ConnectionForgotten(c) PROVE IInv'
  BY <1>1, <1>3, Typed, ServingLessKeeps DEF ConnectionForgotten, Absent
<1>4. ASSUME NEW l \in leaves, LeaveArrives(l) PROVE IInv'
  <2>1. l \in Leave /\ l.chan \in Channels
    BY Typed DEF Leave
  <2>2. conn' \in [Channels -> Conn] /\ leaves' \subseteq leaves
    BY <1>4, <2>1, Typed DEF LeaveArrives, Runs
  <2>3. \A c \in Channels :
           /\ conn'[c].attempt = conn[c].attempt
           /\ conn'[c].state = "absent" <=> conn[c].state = "absent"
           /\ conn'[c].state = "peered" => conn'[c] = conn[c] /\ l.chan # c
    BY <1>4, <2>1, Typed DEF LeaveArrives, Runs
  <2>4. \A k \in leaves \ leaves' : k = l
    BY <1>4 DEF LeaveArrives
  <2> QED BY <1>1, <1>4, <2>2, <2>3, <2>4, ServingLessKeeps DEF LeaveArrives
<1> QED BY <1>2, <1>3, <1>4

(* The status check only ends itself. *)
LEMMA StatusKeeps ==
    ASSUME IInv, StatusCheck \/ StatusFails
    PROVE  IInv'
<1>1. voice \in Voice /\ CheckEnds /\ voice # None
  BY Typed DEF StatusCheck, StatusFails
<1>2. /\ voice' \in Voice /\ voice' # None
      /\ voice'.chan = voice.chan /\ voice'.attempt = voice.attempt
  BY <1>1, NoneIsNoVoice DEF CheckEnds, Voice
<1>3. TypeOK'
  BY <1>1, <1>2 DEF CheckEnds, IInv, TypeOK
<1>4. WellFormed' /\ AttemptKnown' /\ OneVoice' /\ NewestIsOwn' /\ PeeredIsHeld'
  BY <1>1, <1>2 DEF CheckEnds, IInv, WellFormed, AttemptKnown, OneVoice, NewestIsOwn,
     PeeredIsHeld, Held, Heading, At
<1> QED BY <1>3, <1>4 DEF IInv

-----------------------------------------------------------------------------
(* The session *)

(* A session may end anywhere. *)
LEMMA AnyEndKeeps ==
    ASSUME IInv, End, UNCHANGED <<client, ws, out, view, conn>>
    PROVE  IInv'
BY Typed, EndedKeeps DEF IInv, TypeOK, WellFormed

(* A message sent, or not, leads on to where the session meant to go. *)
LEMMA SentKeeps ==
    ASSUME IInv, Sent \/ SendFails
    PROVE  IInv'
<1> DEFINE next == [session EXCEPT !.at = session.then, !.msg = None, !.then = None]
<1>1. At("send") /\ session.msg \in ServerMsgs /\ session.then \in Points
  BY DEF IInv, WellFormed, Sent, SendFails
<1>2. /\ next \in Session /\ next.at = session.then /\ next.at # "send"
      /\ next.chan = session.chan /\ next.attempt = session.attempt
  BY <1>1, Typed DEF Session, Points
<1>3. ASSUME session' = next, UNCHANGED <<client, ws, inc, view, voice, conn, leaves>>,
             out' \in Seq(ServerMsgs), Len(out') <= OutCap
      PROVE  IInv'
  <2>1. Heading' = Heading /\ ~At("ended")
    BY <1>1, <1>2, <1>3 DEF Heading, At
  <2>2. PeeredIsHeld'
    BY <1>2, <1>3, <2>1, ConnectionsStay
  <2>3. AttemptKnown' /\ NewestIsOwn' /\ OneVoice'
    BY <1>2, <1>3, <2>1 DEF IInv, AttemptKnown, NewestIsOwn, OneVoice
  <2> QED BY <1>2, <1>3, <2>2, <2>3, Typed, SessionStepKeeps
<1>4. CASE Sent
  <2>1. out' = Append(out, session.msg) /\ HasRoom(out, OutCap)
    BY <1>4 DEF Sent
  <2>2. out' \in Seq(ServerMsgs) /\ Len(out') <= OutCap
    BY <1>1, <2>1, Typed, PushBounded
  <2> QED BY <1>3, <1>4, <2>2 DEF Sent
<1>5. CASE SendFails
  BY <1>3, <1>5, Typed, AnyEndKeeps DEF SendFails
<1> QED BY <1>4, <1>5

(* The handshake holds nothing yet. *)
LEMMA HandshakeKeeps ==
    ASSUME IInv, Handshake
    PROVE  IInv'
<1>1. CASE End
  BY <1>1, AnyEndKeeps DEF Handshake
<1>2. CASE inc' = Tail(inc) /\ Send("welcome", "loop") /\ UNCHANGED <<voice, leaves>>
  <2>1. /\ session' \in Session /\ session'.msg = "welcome" /\ Heading' = "loop"
        /\ session'.chan = session.chan /\ session'.attempt = session.attempt
    BY <1>2, Typed DEF Send, Sending, Session, ServerMsgs, Points, Heading, At
  <2>2. At("handshake") /\ Heading = "handshake" /\ inc # <<>>
    BY DEF Handshake, Heading, At
  <2>3. PeeredIsHeld'
    BY <1>2, <2>1, <2>2, ConnectionsStay DEF Handshake, At
  <2>4. AttemptKnown' /\ NewestIsOwn' /\ OneVoice'
    BY <1>2, <2>1, <2>2 DEF IInv, AttemptKnown, NewestIsOwn, OneVoice, Initializing
  <2>5. session'.at = "send" /\ session'.then = "loop"
    BY <1>2, Typed DEF Send, Sending, Session
  <2> QED BY <1>2, <2>1, <2>2, <2>3, <2>4, <2>5, InQueue, Typed, SessionStepKeeps
          DEF Handshake, ServerMsgs, Points
<1> QED BY <1>1, <1>2 DEF Handshake

(* stop_voice leaves whatever the session had. *)
LEMMA StopVoiceForgets ==
    ASSUME IInv, At("loop"), NEW next \in {"loop", "get"},
           NEW c \in Channels \cup {None}, next = "get" => c \in Channels,
           StopVoice(next, c), UNCHANGED conn
    PROVE  /\ session' \in Session /\ voice' = None /\ leaves' \subseteq Leave
           /\ session'.at = "send" =>
                 session'.msg \in ServerMsgs /\ session'.then \in Points
           /\ AttemptKnown' /\ NewestIsOwn' /\ OneVoice' /\ PeeredIsHeld'
<1>1. /\ session' \in Session /\ Heading' = next
      /\ session'.chan = c /\ session'.attempt = None
      /\ session'.at = "send" =>
            session'.msg \in ServerMsgs /\ session'.then \in Points
  BY Typed DEF StopVoice, Moved, Sending, Session, Points, ServerMsgs, Heading, At
<1>2. /\ voice' = None /\ leaves' \subseteq Leave /\ leaves \subseteq leaves'
      /\ voice # None => \E l \in leaves' : l.chan = voice.chan
  BY DroppedIsLeaving DEF StopVoice
<1>3. session.attempt = None
  BY DEF IInv, AttemptKnown, Heading, Initializing, At
<1>4. PeeredIsHeld'
  BY <1>2, <1>3, ConnectionsStay DEF At
<1> QED BY <1>1, <1>2, <1>4 DEF AttemptKnown, NewestIsOwn, OneVoice, Initializing

(* Whatever the client sends, the session gives its old handle up first. *)
LEMMA HandleEventKeeps ==
    ASSUME IInv, HandleEvent
    PROVE  IInv'
<1> DEFINE m == Head(inc)
           next == IF m.kind = "join" THEN "get" ELSE "loop"
<1>1. inc # <<>> /\ inc' = Tail(inc) /\ At("loop") /\ StopVoice(next, m.chan)
      /\ UNCHANGED <<client, ws, out, view, conn>>
  BY DEF HandleEvent
<1>2. m \in Messages
  BY <1>1, InQueue
<1>3. /\ next \in {"loop", "get"} /\ m.chan \in Channels \cup {None}
      /\ next = "get" => m.chan \in Channels
  BY <1>2 DEF Messages, Msg
<1> HIDE DEF m, next
<1>4. /\ session' \in Session /\ voice' = None /\ leaves' \subseteq Leave
      /\ session'.at = "send" =>
            session'.msg \in ServerMsgs /\ session'.then \in Points
      /\ AttemptKnown' /\ NewestIsOwn' /\ OneVoice' /\ PeeredIsHeld'
  BY <1>1, <1>3, StopVoiceForgets
<1> QED BY <1>1, <1>4, InQueue, Typed, SessionStepKeeps

(* A dead handle is given up by a leave of its channel. *)
LEMMA ForgetVoiceKeeps ==
    ASSUME IInv, ForgetVoice
    PROVE  IInv'
<1>1. session' \in Session /\ session'.at = "loop" /\ session'.attempt = None
  BY Typed DEF ForgetVoice, Moved, Session, Points
<1>2. /\ voice' = None /\ leaves' \subseteq Leave /\ leaves \subseteq leaves'
      /\ voice # None => \E l \in leaves' : l.chan = voice.chan
  BY DroppedIsLeaving DEF ForgetVoice
<1>3. session.attempt = None /\ ~At("ended")
  BY DEF ForgetVoice, IInv, AttemptKnown, Heading, Initializing, At
<1>4. PeeredIsHeld'
  BY <1>2, <1>3, ConnectionsStay DEF ForgetVoice
<1>5. AttemptKnown' /\ NewestIsOwn' /\ OneVoice'
  BY <1>1, <1>2 DEF AttemptKnown, NewestIsOwn, OneVoice, Heading, Initializing, At
<1> QED BY <1>1, <1>2, <1>4, <1>5, Typed, SessionStepKeeps DEF ForgetVoice

(* The session goes on to another point with what it has. *)
LEMMA MovesOnKeeps ==
    ASSUME IInv, UNCHANGED <<client, ws, out, view, voice, conn, leaves>>,
           ~At("ended"),
           inc' \in Seq(Messages), inc' \in Seq(ClientMsg), Len(inc') <= InCap,
           NEW p \in Points, Heading' = p,
           session' = Moved(p) \/ \E m \in ServerMsgs : session' = Sending(m, p),
           session.attempt # None <=> p \in Initializing,
           p \in Initializing \cup {"get", "open"} => session.chan \in Channels,
           voice # None => p \in {"loop", "drop"}
    PROVE  IInv'
<1>1. /\ session' \in Session
      /\ session'.chan = session.chan /\ session'.attempt = session.attempt
      /\ session'.at = "send" =>
            session'.msg \in ServerMsgs /\ session'.then \in Points
  BY Typed DEF Moved, Sending, Session, Points
<1>2. PeeredIsHeld'
  BY <1>1, ConnectionsStay
<1>3. AttemptKnown' /\ NewestIsOwn' /\ OneVoice'
  BY <1>1 DEF IInv, AttemptKnown, NewestIsOwn, OneVoice
<1> QED BY <1>1, <1>2, <1>3, Typed, SessionStepKeeps

(* The steps that only move the session on *)
LEMMA MovingKeeps ==
    ASSUME IInv, ChanEvent \/ VoiceDied \/ GetChannel \/ JoinChannel \/ AwaitClientUdp
    PROVE  IInv'
<1>1. /\ session.attempt # None <=> Heading \in Initializing
      /\ Heading \in Initializing \cup {"get", "open"} => session.chan \in Channels
      /\ voice # None => Heading \in {"loop", "drop"}
  BY DEF IInv, AttemptKnown, OneVoice
<1>2. /\ \A p \in Points : Moved(p).at = p /\ p # "send"
      /\ \A p \in Points, m \in ServerMsgs :
            Sending(m, p).at = "send" /\ Sending(m, p).then = p
  BY Typed DEF Moved, Sending, Session, Points
<1>3. {"event", "disconnected", "joinError", "announce"} \subseteq ServerMsgs
      /\ {"loop", "drop", "open", "await", "establish"} \subseteq Points
  BY DEF ServerMsgs, Points
<1>4. CASE ChanEvent \/ VoiceDied
  <2>1. PICK p \in {"loop", "drop"}, m \in {"event", "disconnected"} :
            session' = Sending(m, p)
    BY <1>4 DEF ChanEvent, VoiceDied, Send
  <2>2. Heading' = p /\ p \notin Initializing /\ p \notin {"get", "open"}
    BY <1>2, <1>3, <2>1 DEF Heading, At, Initializing
  <2>3. Heading = "loop"
    BY <1>4 DEF ChanEvent, VoiceDied, Heading, At
  <2>4. session.attempt = None
    BY <1>1, <2>3 DEF Initializing
  <2> QED BY <1>3, <1>4, <2>1, <2>2, <2>4, Typed, MovesOnKeeps DEF ChanEvent, VoiceDied, At
<1>5. CASE GetChannel
  <2>1. Heading = "get" /\ At("get")
    BY <1>5 DEF GetChannel, Heading, At
  <2>2. session.attempt = None /\ voice = None /\ session.chan \in Channels
    BY <1>1, <2>1 DEF Initializing
  <2>3. CASE session' = Moved("open")
    <3>1. Heading' = "open"
      BY <1>2, <1>3, <2>3 DEF Heading, At
    <3> QED BY <1>3, <1>5, <2>1, <2>2, <2>3, <3>1, Typed, MovesOnKeeps
            DEF GetChannel, At, Initializing
  <2>4. CASE session' = Sending("joinError", "loop")
    <3>1. Heading' = "loop"
      BY <1>2, <1>3, <2>4 DEF Heading, At
    <3> QED BY <1>3, <1>5, <2>1, <2>2, <2>4, <3>1, Typed, MovesOnKeeps
            DEF GetChannel, At, Initializing
  <2> QED BY <1>5, <2>3, <2>4 DEF GetChannel, Goto, Send
<1>6. CASE JoinChannel
  <2>1. Heading = "join" /\ At("join") /\ session' = Sending("announce", "await")
    BY <1>6 DEF JoinChannel, Heading, At, Send
  <2>2. session.attempt # None /\ voice = None /\ session.chan \in Channels
    BY <1>1, <2>1 DEF Initializing
  <2>3. Heading' = "await"
    BY <1>2, <1>3, <2>1 DEF Heading, At
  <2> QED BY <1>3, <1>6, <2>1, <2>2, <2>3, Typed, MovesOnKeeps
          DEF JoinChannel, At, Initializing
<1>7. CASE AwaitClientUdp
  <2>1. Heading = "await" /\ At("await") /\ session' = Moved("establish")
    BY <1>7 DEF AwaitClientUdp, Heading, At, Goto
  <2>2. session.attempt # None /\ voice = None /\ session.chan \in Channels
    BY <1>1, <2>1 DEF Initializing
  <2>3. Heading' = "establish"
    BY <1>2, <1>3, <2>1 DEF Heading, At
  <2>4. inc # <<>> /\ inc' = Tail(inc)
    BY <1>7 DEF AwaitClientUdp
  <2> QED BY <1>3, <1>7, <2>1, <2>2, <2>3, <2>4, InQueue, Typed, MovesOnKeeps
          DEF AwaitClientUdp, At, Initializing
<1> QED BY <1>4, <1>5, <1>6, <1>7

(* The new connection replaces the client's one in the channel, which nobody
   needs to know of any more.                                                *)
LEMMA OpenConnectionKeeps ==
    ASSUME IInv, OpenConnection
    PROVE  IInv'
<1>1. At("open") /\ session.chan \in Channels /\ session.attempt = None /\ voice = None
  BY DEF OpenConnection, IInv, AttemptKnown, OneVoice, Heading, Initializing, At
<1>2. PICK a \in Attempts :
        /\ conn' = [conn EXCEPT ![session.chan] = [attempt |-> a, state |-> "waiting"]]
        /\ \/ /\ session' = [Moved("join") EXCEPT !.attempt = a]
              /\ UNCHANGED <<inc, voice, leaves>>
           \/ End
  BY DEF OpenConnection
<1>3. a # None
  BY NoneIsNothing
<1>4. /\ conn' \in [Channels -> Conn]
      /\ conn'[session.chan] = [attempt |-> a, state |-> "waiting"]
      /\ \A c \in Channels : c # session.chan => conn'[c] = conn[c]
  BY <1>1, <1>2, Typed DEF Conn
<1>5. \A c \in Channels : conn'[c].attempt = None <=> conn'[c].state = "absent"
  BY <1>3, <1>4 DEF IInv, WellFormed
<1>6. CASE End
  BY <1>4, <1>5, <1>6, EndedKeeps DEF OpenConnection, IInv, TypeOK
<1>7. CASE /\ session' = [Moved("join") EXCEPT !.attempt = a]
           /\ UNCHANGED <<inc, voice, leaves>>
  <2>1. /\ session' \in Session /\ session'.at = "join" /\ session'.attempt = a
        /\ session'.chan = session.chan
    BY <1>7, Typed DEF Moved, Session, Points
  <2>2. TypeOK'
    BY <1>4, <1>7, <2>1 DEF OpenConnection, IInv, TypeOK
  <2>3. WellFormed'
    BY <1>5, <1>7, <2>1 DEF OpenConnection, IInv, WellFormed, At
  <2>4. AttemptKnown' /\ NewestIsOwn' /\ OneVoice'
    BY <1>1, <1>3, <1>4, <1>7, <2>1
       DEF AttemptKnown, NewestIsOwn, OneVoice, Heading, Initializing, At
  <2>5. ASSUME NEW c \in Channels, conn'[c].state = "peered" PROVE Held(c)'
    <3>1. c # session.chan /\ conn[c].state = "peered"
      BY <1>4, <2>5
    <3>2. Held(c)
      BY <1>1, <3>1 DEF IInv, PeeredIsHeld, At
    <3> QED BY <1>1, <1>7, <3>1, <3>2 DEF Held
  <2> QED BY <2>2, <2>3, <2>4, <2>5 DEF IInv, PeeredIsHeld
<1> QED BY <1>2, <1>6, <1>7

(* What is peered is the connection of the session's own attempt. *)
LEMMA EstablishKeeps ==
    ASSUME IInv, Establish
    PROVE  IInv'
<1>1. /\ At("establish") /\ session.chan \in Channels
      /\ session.attempt # None /\ voice = None
  BY DEF Establish, IInv, AttemptKnown, OneVoice, Heading, Initializing, At
<1>2. conn[session.chan].attempt = session.attempt
  <2>1. conn[session.chan].attempt # None
    BY <1>1 DEF Establish, Runs, IInv, WellFormed
  <2> QED BY <1>1, <2>1 DEF IInv, NewestIsOwn
<1>3. /\ conn' \in [Channels -> Conn]
      /\ conn'[session.chan].state = "peered"
      /\ conn'[session.chan].attempt = session.attempt
      /\ \A c \in Channels : c # session.chan => conn'[c] = conn[c]
  BY <1>1, <1>2, Typed DEF Establish, Conn
<1>4. \A c \in Channels : conn'[c].attempt = None <=> conn'[c].state = "absent"
  BY <1>1, <1>3 DEF IInv, WellFormed
<1>5. CASE End
  BY <1>3, <1>4, <1>5, EndedKeeps DEF Establish, IInv, TypeOK
<1>6. CASE Send("ready", "voice") /\ UNCHANGED <<inc, voice, leaves>>
  <2>1. /\ session' \in Session /\ session'.at = "send" /\ session'.then = "voice"
        /\ session'.msg = "ready"
        /\ session'.chan = session.chan /\ session'.attempt = session.attempt
    BY <1>6, Typed DEF Send, Sending, Session, Points, ServerMsgs
  <2>2. TypeOK'
    BY <1>3, <1>6, <2>1 DEF Establish, IInv, TypeOK
  <2>3. WellFormed'
    BY <1>4, <1>6, <2>1 DEF Establish, IInv, WellFormed, At, ServerMsgs, Points
  <2>4. AttemptKnown' /\ NewestIsOwn' /\ OneVoice'
    BY <1>1, <1>3, <1>6, <2>1
       DEF AttemptKnown, NewestIsOwn, OneVoice, Heading, Initializing, At
  <2>5. ASSUME NEW c \in Channels, conn'[c].state = "peered" PROVE Held(c)'
    <3>1. CASE c = session.chan
      BY <1>3, <2>1, <3>1 DEF Held
    <3>2. CASE c # session.chan
      BY <1>1, <1>3, <1>6, <2>1, <2>5, <3>2 DEF Held, IInv, PeeredIsHeld, At
    <3> QED BY <3>1, <3>2
  <2> QED BY <2>2, <2>3, <2>4, <2>5 DEF IInv, PeeredIsHeld
<1> QED BY <1>5, <1>6 DEF Establish

(* The handle takes over the attempt. *)
LEMMA EnterChannelKeeps ==
    ASSUME IInv, EnterChannel
    PROVE  IInv'
<1>1. /\ At("voice") /\ session.chan \in Channels
      /\ session.attempt # None /\ voice = None
  BY DEF EnterChannel, IInv, AttemptKnown, OneVoice, Heading, Initializing, At
<1>2. /\ voice' \in Voice /\ voice' # None
      /\ voice'.chan = session.chan /\ voice'.attempt = session.attempt
  BY <1>1, Typed, NoneIsNoVoice DEF EnterChannel, Voice, Session
<1>3. session' \in Session /\ session'.at = "loop" /\ session'.attempt = None
  BY Typed DEF EnterChannel, Moved, Session, Points
<1>4. PeeredIsHeld'
  BY <1>1, <1>2, ConnectionsStay DEF EnterChannel, At
<1>5. AttemptKnown' /\ NewestIsOwn' /\ OneVoice'
  BY <1>3 DEF AttemptKnown, NewestIsOwn, OneVoice, Heading, Initializing, At
<1> QED BY <1>2, <1>3, <1>4, <1>5, Typed, SessionStepKeeps DEF EnterChannel

-----------------------------------------------------------------------------

(* At first the session has no handle and no connection. *)
LEMMA InitOK == Init => IInv
<1> SUFFICES ASSUME Init PROVE IInv
  OBVIOUS
<1>1. session \in Session /\ session.at = "handshake" /\ session.attempt = None
  BY DEF Init, Session, Points
<1>2. conn \in [Channels -> Conn] /\ \A c \in Channels : conn[c] = Absent
  BY DEF Init, Conn, Absent
<1>3. TypeOK
  BY <1>1, <1>2, CapsPositive DEF Init, TypeOK, Views
<1>4. WellFormed /\ AttemptKnown /\ NewestIsOwn /\ OneVoice /\ PeeredIsHeld
  BY <1>1, <1>2 DEF Init, WellFormed, AttemptKnown, NewestIsOwn, OneVoice, PeeredIsHeld,
     Heading, Initializing, At, Absent
<1> QED BY <1>3, <1>4 DEF IInv

(* No step of the session, its tasks or the voice server breaks the invariant. *)
LEMMA StepKeeps == IInv /\ [Next]_vars => IInv'
<1> SUFFICES ASSUME IInv, [Next]_vars PROVE IInv'
  OBVIOUS
<1>1. CASE ClientLeaves \/ (\E m \in Messages : ClientSends(m))
             \/ Forward \/ SendBack \/ ClientGone \/ SocketFails
  BY <1>1, SocketKeeps
<1>2. CASE Sent \/ SendFails
  BY <1>2, SentKeeps
<1>3. CASE Handshake
  BY <1>3, HandshakeKeeps
<1>4. CASE HandleEvent
  BY <1>4, HandleEventKeeps
<1>5. CASE StreamEnds \/ Fails
  BY <1>5, AnyEndKeeps DEF StreamEnds, Fails
<1>6. CASE ChanEvent \/ VoiceDied \/ GetChannel \/ JoinChannel \/ AwaitClientUdp
  BY <1>6, MovingKeeps
<1>7. CASE ForgetVoice
  BY <1>7, ForgetVoiceKeeps
<1>8. CASE OpenConnection \/ Establish \/ EnterChannel
  BY <1>8, OpenConnectionKeeps, EstablishKeeps, EnterChannelKeeps
<1>9. CASE StatusCheck \/ StatusFails
  BY <1>9, StatusKeeps
<1>10. CASE \/ \E c \in Channels : ConnectionStops(c) \/ ConnectionForgotten(c)
            \/ \E l \in leaves : LeaveArrives(l)
  BY <1>10, VoiceServerKeeps
<1>11. CASE UNCHANGED vars
  BY <1>11, Typed, SocketStepKeeps DEF vars, IInv, TypeOK, WellFormed
<1> QED BY <1>1, <1>2, <1>3, <1>4, <1>5, <1>6, <1>7, <1>8, <1>9, <1>10, <1>11
        DEF Next, Initialize

(* What the session knows of its attempt, its handle and the voice server's
   connections agree as IInv says (session.rs, ServerSession::run).            *)
THEOREM SessionIInv == Spec => []IInv
BY InitOK, StepKeeps, PTL DEF Spec

(* Every variable keeps its type, and both queues of the web socket task their
   capacity (ws.rs, ControlStream).                                            *)
THEOREM TypeCorrect == Spec => []TypeOK
<1>1. IInv => TypeOK
  BY DEF IInv
<1> QED BY <1>1, SessionIInv, PTL

(* No voice connection that is served goes on unknown to a running session,
   whatever the order of joins, leaves, failures and late leaves of dropped
   handles (session.rs, initialize_voice_connection and stop_voice).           *)
THEOREM ServedIsHeld == Spec => []PeeredIsHeld
<1>1. IInv => PeeredIsHeld
  BY DEF IInv
<1> QED BY <1>1, SessionIInv, PTL

-----------------------------------------------------------------------------
(* What the client is told *)

(* What the client knows once it has received what is queued for it: a message
   that takes it out of its channel is on its way when the handle is gone, and one
   that takes it in before the handle is there.                                *)
Due ==
    IF voice # None THEN (IF At("drop") THEN "out" ELSE "in")
    ELSE IF At("voice") \/ (At("send") /\ session.msg = "disconnected") THEN "in"
    ELSE "out"
ToBeTold == ~At("ended") /\ ~Closed => Becomes(view, out, Due)

(* Where the session goes on from each message, with its handle or without. *)
Sendings ==
    {<<"welcome", "loop">>, <<"joinError", "loop">>, <<"announce", "await">>,
     <<"ready", "voice">>, <<"disconnected", "loop">>, <<"disconnected", "get">>}
SendingsInChannel == {<<"event", "loop">>, <<"disconnected", "drop">>}
InOrder ==
    /\ At("send") => <<session.msg, session.then>> \in
          IF voice = None THEN Sendings ELSE SendingsInChannel
    /\ At("drop") => voice # None
Tells == ToBeTold /\ InOrder

(* A message is queued. *)
LEMMA BecomesAppend ==
    ASSUME NEW v \in Views, NEW q \in Seq(ServerMsgs), NEW w \in Views,
           NEW m \in ServerMsgs, Becomes(v, q, w)
    PROVE  Becomes(v, Append(q, m), Show(w, m))
<1>1. PICK run \in [0..Len(q) -> Views] :
        /\ run[0] = v /\ run[Len(q)] = w
        /\ \A i \in 1..Len(q) : run[i] = Show(run[i - 1], q[i])
  BY DEF Becomes
<1> DEFINE n == Len(q)
           longer == [i \in 0..(n + 1) |-> IF i = n + 1 THEN Show(w, m) ELSE run[i]]
<1>2. n \in Nat /\ Len(Append(q, m)) = n + 1
  OBVIOUS
<1>3. Show(w, m) \in Views
  BY DEF Show, Views
<1>4. longer \in [0..(n + 1) -> Views]
  BY <1>1, <1>2, <1>3
<1>5. longer[0] = v /\ longer[n + 1] = Show(w, m)
  BY <1>1, <1>2
<1>6. ASSUME NEW i \in 1..(n + 1)
      PROVE  longer[i] = Show(longer[i - 1], Append(q, m)[i])
  <2>1. CASE i = n + 1
    BY <1>1, <1>2, <2>1
  <2>2. CASE i # n + 1
    <3>1. i \in 1..n /\ i - 1 \in 0..n
      BY <1>2, <2>2
    <3>2. longer[i] = run[i] /\ longer[i - 1] = run[i - 1] /\ Append(q, m)[i] = q[i]
      BY <1>2, <3>1
    <3> QED BY <1>1, <3>1, <3>2
  <2> QED BY <2>1, <2>2
<1> HIDE DEF longer
<1> QED BY <1>2, <1>4, <1>5, <1>6 DEF Becomes

(* A message is received. *)
LEMMA BecomesTail ==
    ASSUME NEW v \in Views, NEW q \in Seq(ServerMsgs), NEW w \in Views,
           q # <<>>, Becomes(v, q, w)
    PROVE  Becomes(Show(v, Head(q)), Tail(q), w)
<1>1. PICK run \in [0..Len(q) -> Views] :
        /\ run[0] = v /\ run[Len(q)] = w
        /\ \A i \in 1..Len(q) : run[i] = Show(run[i - 1], q[i])
  BY DEF Becomes
<1> DEFINE n == Len(q) - 1
           rest == [i \in 0..n |-> run[i + 1]]
<1>2. n \in Nat /\ Len(q) = n + 1 /\ Len(Tail(q)) = n /\ Head(q) = q[1]
  OBVIOUS
<1>3. \A i \in 1..n : Tail(q)[i] = q[i + 1]
  OBVIOUS
<1>4. rest \in [0..n -> Views]
  BY <1>1, <1>2
<1>5. rest[0] = Show(v, Head(q)) /\ rest[n] = w
  BY <1>1, <1>2
<1>6. ASSUME NEW i \in 1..n PROVE rest[i] = Show(rest[i - 1], Tail(q)[i])
  <2>1. /\ rest[i] = run[i + 1] /\ rest[i - 1] = run[(i + 1) - 1]
        /\ i + 1 \in 1..Len(q)
    BY <1>2
  <2> QED BY <1>1, <1>3, <2>1
<1> HIDE DEF rest
<1> QED BY <1>2, <1>4, <1>5, <1>6 DEF Becomes

(* Nothing reaches or leaves the queue of a session whose client is to be told
   what it was to be told before.                                              *)
LEMMA ToldTheSame ==
    ASSUME ToBeTold, UNCHANGED <<view, out>>, Due' = Due \/ At("ended")' \/ Closed',
           At("ended") => At("ended")', Closed => Closed'
    PROVE  ToBeTold'
BY DEF ToBeTold

(* A session that waits for no room, and is not to forget its handle. *)
LEMMA InOrderElsewhere ==
    ASSUME session'.at \notin {"send", "drop"}
    PROVE  InOrder'
BY DEF InOrder, At

(* The session is where it was and has what it had. *)
LEMMA SessionTells ==
    ASSUME Tells, UNCHANGED session, (voice' = None) <=> (voice = None),
           UNCHANGED <<view, out>>, Closed => Closed'
    PROVE  Tells'
<1>1. Due' = Due
  BY DEF Due, At
<1>2. ToBeTold'
  BY <1>1, ToldTheSame DEF Tells, At
<1>3. InOrder'
  BY DEF Tells, InOrder, At
<1> QED BY <1>2, <1>3 DEF Tells

(* The session has ended. *)
LEMMA EndTells ==
    ASSUME End PROVE Tells'
<1>1. session'.at = "ended"
  BY DEF End
<1> QED BY <1>1 DEF Tells, ToBeTold, InOrder, At

(* The client and the web socket task: what is received is off the queue, and
   what is queued is lost with the socket.                                     *)
LEMMA SocketTells ==
    ASSUME IInv, Tells, ClientLeaves \/ (\E m \in Messages : ClientSends(m))
                          \/ Forward \/ SendBack \/ ClientGone \/ SocketFails
    PROVE  Tells'
<1>1. ASSUME CloseSocket, UNCHANGED <<session, voice>> PROVE Tells'
  <2>1. Closed'
    BY <1>1 DEF CloseSocket, Closed
  <2> QED BY <1>1, <2>1 DEF Tells, ToBeTold, InOrder, At
<1>2. CASE ClientLeaves \/ (\E m \in Messages : ClientSends(m))
  <2>1. UNCHANGED <<session, voice, view, out>> /\ (Closed => Closed')
    BY <1>2 DEF ClientLeaves, ClientSends, Closed
  <2> QED BY <2>1, SessionTells
<1>3. CASE Forward
  <2>1. CASE CloseSocket
    BY <1>1, <1>3, <2>1 DEF Forward
  <2>2. CASE ~CloseSocket
    <3>1. UNCHANGED <<session, voice, view, out>> /\ ~Closed
      BY <1>3, <2>2 DEF Forward, Closed
    <3> QED BY <3>1, SessionTells
  <2> QED BY <2>1, <2>2
<1>4. CASE SendBack
  <2>1. /\ out # <<>> /\ out' = Tail(out) /\ view' = Show(view, Head(out))
        /\ UNCHANGED <<ws, session, voice>>
    BY <1>4 DEF SendBack
  <2>2. Due \in Views /\ Due' = Due
    BY <2>1 DEF Due, Views, At
  <2>3. view \in Views /\ out \in Seq(ServerMsgs)
    BY DEF IInv, TypeOK
  <2>4. ToBeTold'
    BY <2>1, <2>2, <2>3, BecomesTail DEF Tells, ToBeTold, At, Closed
  <2>5. InOrder'
    BY <2>1 DEF Tells, InOrder, At
  <2> QED BY <2>4, <2>5 DEF Tells
<1>5. CASE ClientGone \/ SocketFails
  BY <1>1, <1>5 DEF ClientGone, SocketFails
<1> QED BY <1>2, <1>3, <1>4, <1>5

(* A message that was waiting is queued, or cannot be. *)
LEMMA SentTells ==
    ASSUME IInv, Tells, Sent \/ SendFails
    PROVE  Tells'
<1>1. session \in Session /\ view \in Views /\ out \in Seq(ServerMsgs)
  BY DEF IInv, TypeOK
<1>2. /\ At("send") /\ session.msg \in ServerMsgs
      /\ <<session.msg, session.then>> \in IF voice = None THEN Sendings ELSE SendingsInChannel
  BY DEF Tells, InOrder, Sent, SendFails, IInv, WellFormed
<1>3. session.then = "drop" => voice # None
  BY <1>2 DEF Sendings
<1>4. session.then \notin {"send", "ended"}
  BY <1>2 DEF Sendings, SendingsInChannel
<1>5. CASE Sent
  <2>1. /\ session'.at = session.then /\ out' = Append(out, session.msg)
        /\ UNCHANGED <<ws, view, voice>> /\ ~Closed
    BY <1>1, <1>5 DEF Sent, Session
  <2>2. Becomes(view, out, Due)
    BY <1>2, <2>1 DEF Tells, ToBeTold, At
  <2>3. Due \in Views
    BY DEF Due, Views
  <2>4. Due' = Show(Due, session.msg)
    BY <1>2, <2>1 DEF Due, At, Show, Sendings, SendingsInChannel
  <2>5. ToBeTold'
    BY <1>1, <1>2, <2>1, <2>2, <2>3, <2>4, BecomesAppend DEF ToBeTold
  <2>6. InOrder'
    BY <1>3, <1>4, <2>1 DEF InOrder, At
  <2> QED BY <2>5, <2>6 DEF Tells
<1>6. CASE SendFails
  <2>1. Closed /\ UNCHANGED ws
    BY <1>6 DEF SendFails
  <2>2. CASE End
    BY <2>2, EndTells
  <2>3. CASE ~End
    <3>1. session'.at = session.then /\ UNCHANGED voice
      BY <1>1, <1>6, <2>3 DEF SendFails, Session
    <3>2. InOrder'
      BY <1>3, <1>4, <3>1 DEF InOrder, At
    <3> QED BY <2>1, <3>2 DEF Tells, ToBeTold, Closed
  <2> QED BY <2>2, <2>3
<1> QED BY <1>5, <1>6

(* The session goes on without telling the client yet. *)
LEMMA MovedTells ==
    ASSUME IInv, Tells, UNCHANGED <<view, out, ws>>, session' \in Session,
           ~At("ended"), Due' = Due,
           session'.at # "drop",
           session'.at = "send" => <<session'.msg, session'.then>> \in
              IF voice' = None THEN Sendings ELSE SendingsInChannel
    PROVE  Tells'
<1>1. ToBeTold'
  BY ToldTheSame DEF Tells, Closed
<1>2. InOrder'
  BY DEF InOrder, At
<1> QED BY <1>1, <1>2 DEF Tells

(* The session handles an event or takes the next step of an attempt to join. *)
LEMMA EventTells ==
    ASSUME IInv, Tells,
           Handshake \/ HandleEvent \/ ChanEvent \/ VoiceDied \/ ForgetVoice
             \/ GetChannel \/ OpenConnection \/ JoinChannel \/ AwaitClientUdp
             \/ Establish \/ EnterChannel
    PROVE  Tells'
<1>1. session \in Session /\ UNCHANGED <<view, out, ws>>
  BY DEF IInv, TypeOK, Handshake, HandleEvent, ChanEvent, VoiceDied, ForgetVoice,
     GetChannel, OpenConnection, JoinChannel, AwaitClientUdp, Establish, EnterChannel
<1>2. session' \in Session
  <2>1. IInv'
    BY HandshakeKeeps, HandleEventKeeps, ForgetVoiceKeeps, MovingKeeps,
       OpenConnectionKeeps, EstablishKeeps, EnterChannelKeeps
  <2> QED BY <2>1 DEF IInv, TypeOK
<1>3. CASE End
  BY <1>3, EndTells
<1>4. voice # None => session.at \in {"loop", "drop", "send"}
  BY DEF IInv, OneVoice, Heading, At
<1>5. CASE Handshake /\ ~End
  BY <1>1, <1>2, <1>4, <1>5, MovedTells DEF Handshake, Send, Sending, Due, At, Sendings, Session
<1>6. CASE HandleEvent
  <2>1. /\ voice' = None
        /\ session'.at = "send" \/ session'.at \in {"get", "loop"}
    BY <1>1, <1>6 DEF HandleEvent, StopVoice, DropVoice, Sending, Moved, Session
  <2>2. CASE voice = None
    <3>1. session'.at \in {"get", "loop"}
      BY <1>1, <1>6, <2>2 DEF HandleEvent, StopVoice, Moved, Session
    <3> QED BY <1>1, <1>2, <1>6, <2>1, <2>2, <3>1, MovedTells DEF HandleEvent, Due, At
  <2>3. CASE voice # None
    <3>1. /\ session'.at = "send" /\ session'.msg = "disconnected"
          /\ session'.then \in {"get", "loop"}
      BY <1>1, <1>6, <2>3 DEF HandleEvent, StopVoice, Sending, Session
    <3> QED BY <1>1, <1>2, <1>6, <2>1, <2>3, <3>1, MovedTells
            DEF HandleEvent, Due, At, Sendings
  <2> QED BY <2>2, <2>3
<1>7. CASE ChanEvent \/ VoiceDied
  BY <1>1, <1>2, <1>7, MovedTells
  DEF ChanEvent, VoiceDied, Send, Sending, Due, At, SendingsInChannel, Session
<1>8. CASE ForgetVoice
  <2>1. voice # None /\ voice' = None /\ session'.at = "loop"
    BY <1>1, <1>8 DEF Tells, InOrder, ForgetVoice, DropVoice, Moved, Session
  <2> QED BY <1>1, <1>2, <1>8, <2>1, MovedTells DEF ForgetVoice, Due, At
<1>9. CASE GetChannel \/ JoinChannel \/ AwaitClientUdp
  BY <1>1, <1>2, <1>4, <1>9, MovedTells
  DEF GetChannel, JoinChannel, AwaitClientUdp, Goto, Moved, Send, Sending, Due, At,
      Sendings, Session
<1>10. CASE OpenConnection /\ ~End
  <2>1. session'.at = "join" /\ UNCHANGED voice /\ At("open")
    BY <1>1, <1>10 DEF OpenConnection, Moved, Session
  <2> QED BY <1>1, <1>2, <1>4, <2>1, MovedTells DEF Due, At
<1>11. CASE Establish /\ ~End
  BY <1>1, <1>2, <1>4, <1>11, MovedTells
  DEF Establish, Send, Sending, Due, At, Sendings, Session
<1>12. CASE EnterChannel
  <2>1. voice' # None
    <3>1. session.chan \in Channels /\ session.attempt \in Attempts
      BY <1>12, <1>1 DEF EnterChannel, IInv, AttemptKnown, Heading, Initializing, At, Session
    <3> QED BY <1>12, <3>1, NoneIsNoVoice DEF EnterChannel, Voice
  <2>2. session'.at = "loop" /\ At("voice")
    BY <1>1, <1>12 DEF EnterChannel, Moved, Session
  <2> QED BY <1>1, <1>2, <1>4, <2>1, <2>2, MovedTells DEF Due, At
<1> QED BY <1>3, <1>5, <1>6, <1>7, <1>8, <1>9, <1>10, <1>11, <1>12

(* Every step keeps what the client is to be told in step with the session. *)
LEMMA StepTells == IInv /\ Tells /\ [Next]_vars => Tells'
<1> SUFFICES ASSUME IInv, Tells, [Next]_vars PROVE Tells'
  OBVIOUS
<1>1. CASE ClientLeaves \/ (\E m \in Messages : ClientSends(m))
             \/ Forward \/ SendBack \/ ClientGone \/ SocketFails
  BY <1>1, SocketTells
<1>2. CASE Sent \/ SendFails
  BY <1>2, SentTells
<1>3. CASE Handshake \/ HandleEvent \/ ChanEvent \/ VoiceDied \/ ForgetVoice
             \/ AwaitClientUdp \/ Initialize
  BY <1>3, EventTells DEF Initialize
<1>4. CASE StreamEnds \/ Fails
  BY <1>4, EndTells DEF StreamEnds, Fails
<1>5. CASE StatusCheck \/ StatusFails
  <2>1. voice \in Voice /\ voice' = [voice EXCEPT !.check = "finished"]
    BY <1>5 DEF StatusCheck, StatusFails, CheckEnds, IInv, TypeOK
  <2>2. voice' \in Voice
    BY <2>1 DEF Voice
  <2>3. voice' # None /\ voice # None
    BY <2>1, <2>2, NoneIsNoVoice
  <2> QED BY <1>5, <2>3, SessionTells DEF StatusCheck, StatusFails, CheckEnds, Closed
<1>6. CASE \/ \E c \in Channels : ConnectionStops(c) \/ ConnectionForgotten(c)
           \/ \E l \in leaves : LeaveArrives(l)
  <2>1. UNCHANGED <<session, voice, view, out, ws>>
    BY <1>6 DEF ConnectionStops, ConnectionForgotten, LeaveArrives
  <2> QED BY <2>1, SessionTells DEF Closed
<1>7. CASE UNCHANGED vars
  BY <1>7, SessionTells DEF vars, Closed
<1> QED BY <1>1, <1>2, <1>3, <1>4, <1>5, <1>6, <1>7 DEF Next

(* At first the client is in no channel, and nothing is queued. *)
LEMMA InitTells == Init => Tells
<1> SUFFICES ASSUME Init PROVE Tells
  OBVIOUS
<1>1. Due = "out" /\ view = "out" /\ out = <<>>
  BY DEF Init, Due, At
<1>2. Becomes("out", <<>>, "out")
  <2> DEFINE run == [i \in 0..0 |-> "out"]
  <2>1. run \in [0..Len(<<>>) -> Views] /\ run[0] = "out" /\ run[Len(<<>>)] = "out"
    BY DEF Views
  <2>2. \A i \in 1..Len(<<>>) : FALSE
    OBVIOUS
  <2> HIDE DEF run
  <2> QED BY <2>1, <2>2 DEF Becomes
<1> QED BY <1>1, <1>2 DEF Tells, ToBeTold, InOrder, Init, At

(* A client of a session that is ready for the next event will know, once it has
   received what is queued, whether it is in a channel, and is told of no event of
   a channel that it is not in (session.rs, stop_voice, initialize_voice_connection
   and the voice branches of run).                                              *)
THEOREM ClientIsTold == Spec => []ClientKnows
<1>1. Tells => ClientKnows
  BY DEF Tells, ToBeTold, ClientKnows, Due, At
<1> QED BY <1>1, InitTells, StepTells, SessionIInv, PTL DEF Spec
=============================================================================
