--------------------------- MODULE PresenceProofs ---------------------------
(***************************************************************************)
(* Proofs about Presence, for any number of clients, states and leave      *)
(* tasks and any capacity of the broadcast.                                *)
(***************************************************************************)
EXTENDS Presence, TLAPS

-----------------------------------------------------------------------------
(* The broadcast *)

(* Both kinds of events are events. *)
LEMMA EventType == \A c \in Clients : Joined(c) \in Events /\ Left(c) \in Events
BY DEF Events

(* Push changes a subscriber's queue only, and keeps it within capacity. *)
LEMMA PushType ==
    ASSUME NEW ses \in Sessions, NEW e \in Events, Len(ses.queue) <= EventCap
    PROVE  /\ Push(ses, e) \in Sessions
           /\ Len(Push(ses, e).queue) <= EventCap
           /\ Push(ses, e).at = ses.at
           /\ Push(ses, e).chan = ses.chan
<1>1. ses.queue \in Seq(Events) /\ Len(ses.queue) \in Nat /\ EventCap \in Nat
  BY EventCapPositive DEF Sessions
<1>2. ASSUME NEW q \in Seq(Events), Len(q) <= EventCap, NEW lost \in BOOLEAN,
             Push(ses, e) = [ses EXCEPT !.queue = q, !.lagged = lost]
      PROVE  /\ Push(ses, e) \in Sessions
             /\ Len(Push(ses, e).queue) <= EventCap
             /\ Push(ses, e).at = ses.at
             /\ Push(ses, e).chan = ses.chan
  BY <1>2 DEF Sessions
<1>3. CASE Len(ses.queue) < EventCap
  <2>1. /\ Append(ses.queue, e) \in Seq(Events)
        /\ Len(Append(ses.queue, e)) <= EventCap
    BY <1>1, <1>3
  <2>2. Push(ses, e) = [ses EXCEPT !.queue = Append(ses.queue, e),
                                   !.lagged = ses.lagged]
    BY <1>3 DEF Push, Sessions
  <2>3. ses.lagged \in BOOLEAN
    BY DEF Sessions
  <2> QED BY <1>2, <2>1, <2>2, <2>3
<1>4. CASE ~(Len(ses.queue) < EventCap)
  <2>1. Len(ses.queue) > 0
    BY <1>1, <1>4, EventCapPositive
  <2>2. /\ Tail(ses.queue) \in Seq(Events)
        /\ Len(Tail(ses.queue)) = Len(ses.queue) - 1
    BY <1>1, <2>1
  <2>3. /\ Append(Tail(ses.queue), e) \in Seq(Events)
        /\ Len(Append(Tail(ses.queue), e)) <= EventCap
    BY <1>1, <2>2
  <2>4. Push(ses, e) = [ses EXCEPT !.queue = Append(Tail(ses.queue), e),
                                   !.lagged = TRUE]
    BY <1>4 DEF Push
  <2> QED BY <1>2, <2>3, <2>4
<1> QED BY <1>3, <1>4

(* A broadcast changes queues only. *)
LEMMA BroadcastType ==
    ASSUME TypeOK, NEW e \in Events, NEW to
    PROVE  /\ Broadcast(session, e, to) \in [Clients -> Sessions]
           /\ \A d \in Clients :
                /\ Len(Broadcast(session, e, to)[d].queue) <= EventCap
                /\ Broadcast(session, e, to)[d].at = session[d].at
                /\ Broadcast(session, e, to)[d].chan = session[d].chan
BY PushType DEF Broadcast, TypeOK

(* A session with another program point, state, queue or view is well typed. *)
Points == {"idle", "init", "open", "reassign", "join", "announce", "list", "setup", "in"}
Bounded(ses) == ses \in Sessions /\ Len(ses.queue) <= EventCap

Moved(ses, a) == [ses EXCEPT !.at = a]
Lent(ses, a, ch) == [ses EXCEPT !.at = a, !.chan = ch]
Heard(ses, a, q) == [ses EXCEPT !.at = a, !.queue = q]
Told(ses, a, v) == [ses EXCEPT !.at = a, !.view = v]
Updated(ses, q, v) == [ses EXCEPT !.queue = q, !.view = v]

(* A session moved on *)
LEMMA MovedType ==
    ASSUME NEW ses, Bounded(ses), NEW a \in Points
    PROVE  Bounded(Moved(ses, a)) /\ Moved(ses, a).at = a /\ Moved(ses, a).chan = ses.chan
BY DEF Bounded, Sessions, Points, Moved

(* A session given a state *)
LEMMA LentType ==
    ASSUME NEW ses, Bounded(ses), NEW a \in Points, NEW ch \in States \cup {None}
    PROVE  Bounded(Lent(ses, a, ch)) /\ Lent(ses, a, ch).at = a /\ Lent(ses, a, ch).chan = ch
BY DEF Bounded, Sessions, Points, Lent

(* A session with another queue *)
LEMMA HeardType ==
    ASSUME NEW ses, Bounded(ses), NEW a \in Points,
           NEW q \in Seq(Events), Len(q) <= EventCap
    PROVE  Bounded(Heard(ses, a, q)) /\ Heard(ses, a, q).at = a
             /\ Heard(ses, a, q).chan = ses.chan
BY DEF Bounded, Sessions, Points, Heard

(* A session with another view *)
LEMMA ToldType ==
    ASSUME NEW ses, Bounded(ses), NEW a \in Points, NEW v \in SUBSET Clients
    PROVE  Bounded(Told(ses, a, v)) /\ Told(ses, a, v).at = a /\ Told(ses, a, v).chan = ses.chan
BY DEF Bounded, Sessions, Points, Told

(* A session that received an event *)
LEMMA UpdatedType ==
    ASSUME NEW ses, Bounded(ses), NEW v \in SUBSET Clients,
           NEW q \in Seq(Events), Len(q) <= EventCap
    PROVE  Bounded(Updated(ses, q, v)) /\ Updated(ses, q, v).at = ses.at
             /\ Updated(ses, q, v).chan = ses.chan
BY DEF Bounded, Sessions, Points, Updated

(* What the client is shown are clients. *)
LEMMA ShowType ==
    ASSUME NEW c \in Clients, NEW view \in SUBSET Clients, NEW e \in Events
    PROVE  Show(c, view, e) \in SUBSET Clients
BY DEF Show, Events, Joined, Left

(* A session that does nothing is well typed. *)
LEMMA IdleType == Idle \in Sessions /\ Len(Idle.queue) <= EventCap
BY EventCapPositive DEF Idle, Sessions

-----------------------------------------------------------------------------
(* The initial state satisfies the invariant. *)
LEMMA InitIInv == Init => IInv
<1> SUFFICES ASSUME Init PROVE IInv
  OBVIOUS
<1>1. TypeOK
  BY IdleType DEF Init, TypeOK, LeaveTasks, NoTask
<1>2. ClosedLeavesMap /\ SessionsNamed /\ TasksNamed /\ LockHeld
  BY DEF Init, ClosedLeavesMap, SessionsNamed, TasksNamed, LockHeld, NoTask, Idle
<1>3. SharedState
  BY DEF Init, SharedState, OpenIsMapped, MembersListed, LeaversListed,
         ClosersAlone, OneLeaveEach, NoTask, Member, Idle
<1> QED BY <1>1, <1>2, <1>3 DEF IInv

-----------------------------------------------------------------------------
(* Steps of a session *)

(* Steps that change sessions only, put nobody into the channel, and begin
   no session for a client whose leave is under way.                         *)
LEMMA SessionOnly ==
    ASSUME IInv,
           UNCHANGED <<entry, present, live, guard, leaver>>,
           session' \in [Clients -> Sessions],
           \A d \in Clients :
             /\ Len(session'[d].queue) <= EventCap
             /\ session'[d].at \notin {"idle", "init"} => session'[d].chan # None
             /\ session'[d].at \in {"announce", "list", "setup", "in"} =>
                  Member(d) /\ session'[d].chan = session[d].chan
             /\ session[d].at = "idle" /\ ~MayRejoin /\ LeavesOf(d) # {} =>
                  session'[d].at = "idle"
    PROVE  IInv'
<1> USE DEF IInv
<1>1. TypeOK'
  BY DEF TypeOK
<1>2. ClosedLeavesMap' /\ SessionsNamed' /\ TasksNamed' /\ LockHeld'
  BY DEF ClosedLeavesMap, SessionsNamed, TasksNamed, LockHeld
<1>3. ASSUME ~MayRejoin PROVE SharedState'
  <2>1. (OpenIsMapped /\ LeaversListed /\ ClosersAlone)'
    BY <1>3 DEF SharedState, OpenIsMapped, LeaversListed, ClosersAlone
  <2>2. MembersListed'
    BY <1>3 DEF SharedState, MembersListed, Member
  <2>3. OneLeaveEach'
    BY <1>3 DEF SharedState, OneLeaveEach, LeavesOf, TasksNamed, TypeOK, LeaveTasks
  <2> QED BY <2>1, <2>2, <2>3 DEF SharedState
<1> QED BY <1>1, <1>2, <1>3, MayRejoinBoolean

(* The steps that only move a session along, and what it receives. *)
LEMMA SessionMoves ==
    ASSUME IInv, NEW c \in Clients,
           Get(c) \/ OpenConnection(c) \/ GiveUp(c) \/ AnnounceJoined(c)
             \/ ListMembers(c) \/ Ready(c) \/ ReceiveEvent(c)
    PROVE  IInv'
<1>1. /\ session \in [Clients -> Sessions]
      /\ \A d \in Clients :
           /\ Bounded(session[d])
           /\ session[d].at \notin {"idle", "init"} => session[d].chan # None
  BY DEF IInv, TypeOK, Bounded, SessionsNamed
<1>2. ASSUME NEW ses, Bounded(ses),
             UNCHANGED <<entry, present, live, guard, leaver>>,
             session' = [session EXCEPT ![c] = ses],
             ses.at \notin {"idle", "init"} => ses.chan # None,
             ses.at \in {"announce", "list", "setup", "in"} =>
               Member(c) /\ ses.chan = session[c].chan,
             session[c].at = "idle" /\ ~MayRejoin => LeavesOf(c) = {}
      PROVE  IInv'
  <2>1. session' \in [Clients -> Sessions]
    BY <1>1, <1>2 DEF Bounded
  <2>2. ASSUME NEW d \in Clients
        PROVE  /\ Len(session'[d].queue) <= EventCap
               /\ session'[d].at \notin {"idle", "init"} => session'[d].chan # None
               /\ session'[d].at \in {"announce", "list", "setup", "in"} =>
                    Member(d) /\ session'[d].chan = session[d].chan
               /\ session[d].at = "idle" /\ ~MayRejoin /\ LeavesOf(d) # {} =>
                    session'[d].at = "idle"
    BY <1>1, <1>2 DEF Member, Bounded
  <2> QED BY <1>2, <2>1, <2>2, SessionOnly
<1>3. CASE Get(c)
  <2>1. PICK a \in {"init", "open"} :
          /\ session' = [session EXCEPT ![c] = Lent(session[c], a, entry)]
          /\ a = "open" => entry # None
    BY <1>1, <1>3 DEF Get, Lent
  <2>2. entry \in States \cup {None} /\ a \in Points
    BY DEF IInv, TypeOK, Points
  <2> DEFINE ses == Lent(session[c], a, entry)
  <2>3. Bounded(ses) /\ ses.at = a /\ ses.chan = entry
    BY <1>1, <2>2, LentType
  <2>7. session' = [session EXCEPT ![c] = ses]
    BY <2>1
  <2> HIDE DEF ses
  <2>4. /\ UNCHANGED <<entry, present, live, guard, leaver>>
        /\ MayRejoin \/ LeavesOf(c) = {}
    BY <1>3 DEF Get, MayJoin
  <2>5. ses.at \notin {"announce", "list", "setup", "in"}
    BY <2>3
  <2>6. ses.at \notin {"idle", "init"} => ses.chan # None
    BY <2>1, <2>3
  <2> QED BY <1>2, <2>3, <2>4, <2>5, <2>6, <2>7, MayRejoinBoolean
<1>4. CASE OpenConnection(c)
  <2>1. PICK a \in {"join", "reassign"} :
          session' = [session EXCEPT ![c] = Moved(session[c], a)]
    BY <1>1, <1>4 DEF OpenConnection, Moved
  <2> DEFINE ses == Moved(session[c], a)
  <2>2. Bounded(ses) /\ ses.at = a /\ ses.chan = session[c].chan
    BY <1>1, MovedType DEF Points
  <2>5. session' = [session EXCEPT ![c] = ses]
    BY <2>1
  <2> HIDE DEF ses
  <2>3. /\ UNCHANGED <<entry, present, live, guard, leaver>>
        /\ session[c].at = "open"
    BY <1>4 DEF OpenConnection, At
  <2>4. /\ ses.at \notin {"announce", "list", "setup", "in"}
        /\ ses.chan # None
    BY <1>1, <2>2, <2>3
  <2> QED BY <1>2, <2>2, <2>3, <2>4, <2>5
<1>5. CASE GiveUp(c)
  BY <1>2, <1>5, IdleType DEF GiveUp, Idle, Bounded
<1>6. CASE AnnounceJoined(c)
  <2> DEFINE b == Broadcast(session, Joined(c), Subscribers(session[c].chan))
             ses == Heard(b[c], "list", <<Joined(c)>>)
  <2>1. /\ b \in [Clients -> Sessions]
        /\ \A d \in Clients : /\ Bounded(b[d])
                              /\ b[d].at = session[d].at
                              /\ b[d].chan = session[d].chan
    BY BroadcastType, EventType DEF IInv, Bounded
  <2>2. <<Joined(c)>> \in Seq(Events) /\ Len(<<Joined(c)>>) <= EventCap
    BY EventType, EventCapPositive
  <2>3. session' = [b EXCEPT ![c] = ses]
    BY <1>6, <2>1 DEF AnnounceJoined, Heard
  <2> HIDE DEF b
  <2>4. Bounded(ses) /\ ses.chan = session[c].chan /\ ses.at = "list"
    <3>1. "list" \in Points
      BY DEF Points
    <3> QED BY <2>1, <2>2, <3>1, HeardType, Zenon
  <2> HIDE DEF ses
  <2>5. session' \in [Clients -> Sessions]
    BY <2>1, <2>3, <2>4 DEF Bounded
  <2>6. ASSUME NEW d \in Clients
        PROVE  /\ Len(session'[d].queue) <= EventCap
               /\ session'[d].at \notin {"idle", "init"} => session'[d].chan # None
               /\ session'[d].at \in {"announce", "list", "setup", "in"} =>
                    Member(d) /\ session'[d].chan = session[d].chan
               /\ session[d].at = "idle" => session'[d].at = "idle"
    <3>1. session[c].at = "announce"
      BY <1>6 DEF AnnounceJoined, At
    <3>2. CASE d = c
      BY <1>1, <2>1, <2>3, <2>4, <3>1, <3>2 DEF Member, Bounded
    <3>3. CASE d # c
      BY <1>1, <2>1, <2>3, <3>3 DEF Member, Bounded
    <3> QED BY <3>2, <3>3
  <2> QED BY <1>6, <2>5, <2>6, SessionOnly DEF AnnounceJoined
<1>7. CASE ListMembers(c)
  <2> DEFINE v == present[session[c].chan]
             ses == Told(session[c], "setup", v)
  <2>1. v \in SUBSET Clients
    BY <1>1, <1>7 DEF ListMembers, At, IInv, TypeOK, Bounded, Sessions
  <2>2. session' = [session EXCEPT ![c] = ses]
    BY <1>1, <1>7 DEF ListMembers, Told
  <2> HIDE DEF v
  <2>3. Bounded(ses) /\ ses.chan = session[c].chan
    <3>1. "setup" \in Points
      BY DEF Points
    <3> QED BY <1>1, <2>1, <3>1, ToldType, Zenon
  <2> HIDE DEF ses
  <2> QED BY <1>1, <1>2, <1>7, <2>2, <2>3 DEF ListMembers, At, Member
<1>8. CASE Ready(c)
  <2> DEFINE ses == Moved(session[c], "in")
  <2>1. Bounded(ses) /\ ses.chan = session[c].chan
    BY <1>1, MovedType DEF Points
  <2>2. session' = [session EXCEPT ![c] = ses]
    BY <1>1, <1>8 DEF Ready, Moved
  <2> HIDE DEF ses
  <2> QED BY <1>1, <1>2, <1>8, <2>1, <2>2 DEF Ready, At, Member
<1>9. CASE ReceiveEvent(c)
  <2> DEFINE q == session[c].queue
             v == Show(c, session[c].view, Head(q))
             ses == Updated(session[c], Tail(q), v)
  <2>1. q \in Seq(Events) /\ q # <<>> /\ Len(q) <= EventCap /\ EventCap \in Nat
    BY <1>1, <1>9, EventCapPositive DEF ReceiveEvent, Sessions, Bounded
  <2>2. Head(q) \in Events /\ Tail(q) \in Seq(Events) /\ Len(Tail(q)) <= EventCap
    <3> HIDE DEF q
    <3> QED BY <2>1
  <2>3. v \in SUBSET Clients
    BY <1>1, <2>2, ShowType DEF Sessions
  <2>4. session' = [session EXCEPT ![c] = ses]
    BY <1>1, <1>9 DEF ReceiveEvent, Updated
  <2> HIDE DEF v, q
  <2>5. Bounded(ses) /\ ses.chan = session[c].chan /\ ses.at = session[c].at
    BY <1>1, <2>2, <2>3, UpdatedType, Zenon
  <2> HIDE DEF ses
  <2> QED BY <1>1, <1>2, <1>9, <2>4, <2>5 DEF ReceiveEvent, At, Member
<1> QED BY <1>3, <1>4, <1>5, <1>6, <1>7, <1>8, <1>9

(* Mapping a fresh state, or taking the one mapped meanwhile
   (Channels::get_or_init, reassign_voice).                                  *)
LEMMA InsertIInv ==
    ASSUME IInv, NEW c \in Clients, Insert(c), session[c].at \in {"init", "reassign"}
    PROVE  IInv'
<1>1. /\ session \in [Clients -> Sessions]
      /\ \A d \in Clients : Bounded(session[d])
  BY DEF IInv, TypeOK, Bounded
<1>2. PICK s \in States :
        /\ Unreachable(s)
        /\ entry' = OrInsert(s)
        /\ IF entry' = s
           THEN live' = live \cup {s} /\ present' = [present EXCEPT ![s] = {}]
           ELSE UNCHANGED <<live, present>>
        /\ session' = [session EXCEPT ![c].at = "open", ![c].chan = entry']
        /\ UNCHANGED <<guard, leaver>>
  BY DEF Insert
<1>3. entry # s /\ entry' \in States /\ entry' # None
  BY <1>2, NoneIsNobody DEF OrInsert, Unreachable, IInv, TypeOK
<1>4. session' = [session EXCEPT ![c] = Lent(session[c], "open", entry')]
  BY <1>1, <1>2 DEF Lent
<1>5. \A d \in Clients :
        /\ session'[d] \in Sessions
        /\ Len(session'[d].queue) <= EventCap
        /\ d # c => session'[d] = session[d]
        /\ d = c => session'[d].at = "open" /\ session'[d].chan = entry'
  <2>1. /\ Bounded(Lent(session[c], "open", entry'))
        /\ Lent(session[c], "open", entry').at = "open"
        /\ Lent(session[c], "open", entry').chan = entry'
    BY <1>1, <1>3, LentType DEF Points
  <2> QED BY <1>1, <1>4, <2>1 DEF Bounded
<1>6. TypeOK'
  <2>1. session' \in [Clients -> Sessions]
    BY <1>1, <1>4, <1>5
  <2>2. present' \in [States -> SUBSET Clients] /\ live' \subseteq States
    BY <1>2 DEF IInv, TypeOK
  <2> QED BY <1>2, <1>3, <1>5, <2>1, <2>2 DEF IInv, TypeOK
<1>7. SessionsNamed' /\ TasksNamed' /\ LockHeld'
  BY <1>2, <1>3, <1>5 DEF IInv, SessionsNamed, TasksNamed, LockHeld
<1>8. CASE entry = None
  <2>1. entry' = s /\ live' = live \cup {s} /\ present' = [present EXCEPT ![s] = {}]
    BY <1>2, <1>8 DEF OrInsert
  <2>2. ClosedLeavesMap'
    BY <2>1 DEF ClosedLeavesMap
  <2>3. ASSUME ~MayRejoin PROVE SharedState'
    <3> USE DEF SharedState, IInv
    <3>1. OpenIsMapped'
      BY <1>8, <2>1, <2>3, NoneIsNobody DEF OpenIsMapped, TypeOK
    <3>2. \A d \in Clients : ~Member(d)
      BY <1>8, <2>3 DEF MembersListed
    <3>3. MembersListed'
      BY <1>5, <3>2 DEF MembersListed, Member
    <3>4. LeaversListed' /\ ClosersAlone'
      BY <1>2, <1>8, <2>3 DEF LeaversListed, ClosersAlone
    <3>5. OneLeaveEach'
      BY <1>2, <1>5, <2>3 DEF OneLeaveEach, TasksNamed, TypeOK, LeaveTasks
    <3> QED BY <3>1, <3>3, <3>4, <3>5
  <2> QED BY <1>6, <1>7, <2>2, <2>3, MayRejoinBoolean DEF IInv
<1>9. CASE entry # None
  <2>1. UNCHANGED <<entry, live, present>>
    BY <1>2, <1>3, <1>9 DEF OrInsert
  <2>2. ClosedLeavesMap'
    BY <1>2, <2>1 DEF ClosedLeavesMap, IInv
  <2>3. ASSUME ~MayRejoin PROVE SharedState'
    <3> USE DEF SharedState, IInv
    <3>1. OpenIsMapped' /\ LeaversListed' /\ ClosersAlone'
      BY <1>2, <2>1, <2>3 DEF OpenIsMapped, LeaversListed, ClosersAlone
    <3>2. MembersListed'
      BY <1>5, <2>1, <2>3 DEF MembersListed, Member
    <3>3. OneLeaveEach'
      BY <1>2, <1>5, <2>3 DEF OneLeaveEach, TasksNamed, TypeOK, LeaveTasks
    <3> QED BY <3>1, <3>2, <3>3
  <2> QED BY <1>6, <1>7, <2>2, <2>3, MayRejoinBoolean DEF IInv
<1> QED BY <1>8, <1>9

(* LocallyPresent::join admits a client to an open state only, and that is
   the mapped one.                                                           *)
LEMMA JoinIInv ==
    ASSUME IInv, NEW c \in Clients, Join(c)
    PROVE  IInv'
<1> DEFINE s == session[c].chan
<1>1. /\ session \in [Clients -> Sessions]
      /\ \A d \in Clients : Bounded(session[d])
      /\ session[c].at = "join"
      /\ s \in States
      /\ guard[s] = None
  BY DEF IInv, TypeOK, Bounded, SessionsNamed, Join, At, Sessions
<1>2. CASE Admits(s)
  <2>1. /\ present' = [present EXCEPT ![s] = @ \cup {c}]
        /\ UNCHANGED <<entry, live, guard, leaver>>
        /\ session' = [session EXCEPT ![c] = Moved(session[c], "announce")]
    BY <1>1, <1>2 DEF Join, Moved
  <2>2. \A d \in Clients :
          /\ session'[d] \in Sessions
          /\ Len(session'[d].queue) <= EventCap
          /\ d # c => session'[d] = session[d]
          /\ d = c => session'[d].at = "announce" /\ session'[d].chan = s
    <3>1. /\ Bounded(Moved(session[c], "announce"))
          /\ Moved(session[c], "announce").at = "announce"
          /\ Moved(session[c], "announce").chan = s
      BY <1>1, MovedType DEF Points
    <3> QED BY <1>1, <2>1, <3>1 DEF Bounded
  <2>3. TypeOK'
    <3>1. session' \in [Clients -> Sessions]
      BY <1>1, <2>1, <2>2
    <3>2. present' \in [States -> SUBSET Clients]
      BY <2>1 DEF IInv, TypeOK
    <3> QED BY <2>1, <2>2, <3>1, <3>2 DEF IInv, TypeOK
  <2>4. ClosedLeavesMap' /\ SessionsNamed' /\ TasksNamed' /\ LockHeld'
    BY <1>1, <2>1, <2>2, NoneIsNobody
    DEF IInv, ClosedLeavesMap, SessionsNamed, TasksNamed, LockHeld
  <2>5. ASSUME ~MayRejoin PROVE SharedState'
    <3> USE DEF SharedState, IInv
    <3>1. s = entry /\ entry # None
      BY <1>1, <1>2, <2>5, NoneIsNobody DEF Admits, OpenIsMapped
    <3>2. \A t \in States : present[t] \subseteq present'[t]
      BY <2>1 DEF TypeOK
    <3>3. c \in present'[s]
      BY <1>1, <2>1 DEF TypeOK
    <3>4. OpenIsMapped'
      BY <2>1, <2>5 DEF OpenIsMapped
    <3>5. MembersListed'
      BY <1>1, <2>1, <2>2, <2>5, <3>1, <3>2, <3>3 DEF MembersListed, Member
    <3>6. LeaversListed'
      BY <1>1, <2>1, <2>5, <3>1, <3>2 DEF LeaversListed
    <3>7. ClosersAlone'
      BY <1>2, <2>1, <2>5, <3>1 DEF ClosersAlone, Admits
    <3>8. OneLeaveEach'
      BY <1>1, <2>1, <2>2, <2>5 DEF OneLeaveEach
    <3> QED BY <3>4, <3>5, <3>6, <3>7, <3>8
  <2> QED BY <2>3, <2>4, <2>5, MayRejoinBoolean DEF IInv
<1>3. CASE ~Admits(s)
  <2>1. /\ session' = [session EXCEPT ![c] = Idle]
        /\ UNCHANGED <<entry, present, live, guard, leaver>>
    BY <1>3 DEF Join
  <2>2. session' \in [Clients -> Sessions]
    BY <1>1, <2>1, IdleType
  <2>3. ASSUME NEW d \in Clients
        PROVE  /\ Len(session'[d].queue) <= EventCap
               /\ session'[d].at \notin {"idle", "init"} => session'[d].chan # None
               /\ session'[d].at \in {"announce", "list", "setup", "in"} =>
                    Member(d) /\ session'[d].chan = session[d].chan
               /\ session[d].at = "idle" => session'[d].at = "idle"
    <3>1. CASE d = c
      BY <1>1, <2>1, <3>1, IdleType DEF Idle
    <3>2. CASE d # c
      BY <1>1, <2>1, <3>2 DEF IInv, SessionsNamed, Member, Bounded
    <3> QED BY <3>1, <3>2
  <2> QED BY <2>1, <2>2, <2>3, SessionOnly
<1> QED BY <1>2, <1>3

-----------------------------------------------------------------------------
(* Leaving *)

(* A dropped handle hands its place in the channel to a leave task
   (ChatRoomJoined::drop, and the task LocalChannelEvents::join spawned).    *)
LEMMA DropHandleIInv ==
    ASSUME IInv, NEW c \in Clients, DropHandle(c)
    PROVE  IInv'
<1>1. /\ session \in [Clients -> Sessions]
      /\ \A d \in Clients : Bounded(session[d])
      /\ leaver \in [Leavers -> LeaveTasks]
      /\ session[c].chan \in States
      /\ Member(c)
      /\ session[c].at # "idle"
  BY DEF IInv, TypeOK, Bounded, SessionsNamed, DropHandle, Sessions, Member
<1>2. PICK l \in Leavers :
        /\ leaver[l] = NoTask
        /\ leaver' = [leaver EXCEPT ![l] =
             [at |-> "woken", client |-> c, chan |-> session[c].chan]]
  BY DEF DropHandle
<1>3. /\ session' = [session EXCEPT ![c] = Idle]
      /\ UNCHANGED <<entry, present, live, guard>>
  BY DEF DropHandle
<1>4. \A d \in Clients :
        /\ session'[d] \in Sessions
        /\ Len(session'[d].queue) <= EventCap
        /\ d # c => session'[d] = session[d]
        /\ d = c => session'[d].at = "idle"
  BY <1>1, <1>3, IdleType DEF Idle, Bounded
<1>5. \A m \in Leavers :
        /\ m # l => leaver'[m] = leaver[m]
        /\ m = l => /\ leaver'[m].at = "woken"
                    /\ leaver'[m].client = c
                    /\ leaver'[m].chan = session[c].chan
  BY <1>1, <1>2
<1>6. leaver[l].at = "none" /\ leaver[l].client = None
  BY <1>2 DEF NoTask
<1>7. TypeOK'
  <2>1. session' \in [Clients -> Sessions]
    BY <1>1, <1>3, IdleType
  <2>2. leaver' \in [Leavers -> LeaveTasks]
    BY <1>1, <1>2 DEF LeaveTasks
  <2> QED BY <1>3, <1>4, <2>1, <2>2 DEF IInv, TypeOK
<1>8. ClosedLeavesMap' /\ SessionsNamed' /\ TasksNamed' /\ LockHeld'
  BY <1>1, <1>3, <1>4, <1>5, <1>6, NoneIsNobody
  DEF IInv, ClosedLeavesMap, SessionsNamed, TasksNamed, LockHeld
<1>9. ASSUME ~MayRejoin PROVE SharedState'
  <2> USE DEF SharedState, IInv
  <2>1. OpenIsMapped'
    BY <1>3, <1>9 DEF OpenIsMapped
  <2>2. MembersListed'
    BY <1>3, <1>4, <1>9 DEF MembersListed, Member
  <2>3. LeaversListed'
    BY <1>1, <1>3, <1>5, <1>9 DEF LeaversListed, MembersListed
  <2>4. ClosersAlone'
    BY <1>3, <1>5, <1>9 DEF ClosersAlone
  <2>5. \A m \in Leavers : leaver[m].client # c
    <3> SUFFICES ASSUME NEW m \in Leavers, leaver[m].client = c PROVE FALSE
      OBVIOUS
    <3>1. leaver[m].at = "none"
      BY <1>1, <1>9 DEF OneLeaveEach
    <3> QED BY <3>1, NoneIsNobody DEF TasksNamed, NoTask
  <2>6. OneLeaveEach'
    BY <1>1, <1>4, <1>5, <1>6, <1>9, <2>5 DEF OneLeaveEach, TasksNamed, TypeOK, LeaveTasks
  <2> QED BY <2>1, <2>2, <2>3, <2>4, <2>6
<1> QED BY <1>7, <1>8, <1>9, MayRejoinBoolean DEF IInv

(* A task that leaves while it holds the state's lock, and closes the state if
   nobody is left (LocallyPresent::leave).                                   *)
LEMMA LeaveIInv ==
    ASSUME IInv, NEW l \in Leavers, Leave(l)
    PROVE  IInv'
<1> DEFINE s == leaver[l].chan
           left == present[s] \ {leaver[l].client}
<1>1. /\ leaver \in [Leavers -> LeaveTasks]
      /\ leaver[l].at = "woken"
      /\ s \in States
      /\ leaver[l].client \in Clients
      /\ guard[s] = None
  BY DEF IInv, TypeOK, TasksNamed, LeaveTasks, Leave
<1>2. /\ guard' = [guard EXCEPT ![s] = l]
      /\ present' = [present EXCEPT ![s] = left]
      /\ live' = IF left = {} THEN live \ {s} ELSE live \cup {s}
      /\ UNCHANGED <<entry, session>>
  BY DEF Leave
<1>3. PICK a \in {"closing", "announce"} :
        /\ leaver' = [leaver EXCEPT ![l].at = a]
        /\ a = "closing" <=> left = {}
  BY DEF Leave
<1>4. \A m \in Leavers :
        /\ leaver'[m].client = leaver[m].client
        /\ leaver'[m].chan = leaver[m].chan
        /\ m # l => leaver'[m] = leaver[m]
        /\ m = l => leaver'[m].at = a
  BY <1>1, <1>3 DEF LeaveTasks
<1>5. TypeOK'
  <2>1. leaver' \in [Leavers -> LeaveTasks]
    BY <1>1, <1>3 DEF LeaveTasks
  <2>2. present' \in [States -> SUBSET Clients] /\ live' \subseteq States
    BY <1>1, <1>2 DEF IInv, TypeOK
  <2> QED BY <1>2, <2>1, <2>2 DEF IInv, TypeOK
<1>6. SessionsNamed' /\ TasksNamed'
  BY <1>1, <1>2, <1>4 DEF IInv, SessionsNamed, TasksNamed
<1>7. ClosedLeavesMap'
  <2>1. CASE left = {} /\ entry = s
    BY <1>2, <1>3, <1>4, <2>1 DEF ClosedLeavesMap
  <2>2. CASE ~(left = {} /\ entry = s)
    <3>1. entry # None /\ entry \notin live' => entry \notin live
      BY <1>2, <2>2
    <3> QED BY <1>1, <1>2, <1>4, <3>1 DEF IInv, ClosedLeavesMap
  <2> QED BY <2>1, <2>2
<1>8. LockHeld'
  <2>1. ASSUME NEW m \in Leavers, leaver'[m].at \in {"closing", "announce"}
        PROVE  guard'[leaver'[m].chan] = m
    <3>1. CASE m = l
      BY <1>1, <1>2, <1>4, <3>1 DEF IInv, TypeOK
    <3>2. CASE m # l
      <4>1. guard[leaver[m].chan] = m
        BY <1>4, <2>1, <3>2 DEF IInv, LockHeld
      <4> QED BY <1>1, <1>2, <1>4, <3>2, <4>1, NoneIsNobody DEF IInv, TypeOK
    <3> QED BY <3>1, <3>2
  <2> QED BY <2>1 DEF LockHeld
<1>9. ASSUME ~MayRejoin PROVE SharedState'
  <2> USE DEF SharedState, IInv
  <2>1. s = entry /\ entry # None /\ leaver[l].client \in present[entry]
    BY <1>1, <1>9 DEF LeaversListed
  <2>2. \A d \in Clients : d # leaver[l].client /\ d \in present[entry] => d \in present'[entry]
    BY <1>1, <1>2, <2>1 DEF TypeOK
  <2>3. present'[entry] = left
    BY <1>1, <1>2, <2>1 DEF TypeOK
  <2>4. OpenIsMapped'
    BY <1>2, <1>9, <2>1 DEF OpenIsMapped
  <2>5. MembersListed'
    <3>1. session[leaver[l].client].at = "idle"
      BY <1>1, <1>9 DEF OneLeaveEach
    <3> QED BY <1>2, <1>9, <2>2, <3>1 DEF MembersListed, Member
  <2>6. LeaversListed'
    <3>1. \A m \in Leavers : m # l => leaver[m].client # leaver[l].client
      BY <1>1, <1>9 DEF OneLeaveEach
    <3>2. \A m \in Leavers : leaver'[m].at = "woken" => m # l /\ leaver[m].at = "woken"
      BY <1>3, <1>4
    <3>3. \A m \in Leavers : leaver[m].at = "woken" => leaver[m].client \in Clients
      BY <1>1, NoneIsNobody DEF TasksNamed, LeaveTasks
    <3> QED BY <1>2, <1>4, <1>9, <2>2, <3>1, <3>2, <3>3 DEF LeaversListed
  <2>7. ClosersAlone'
    <3>1. ASSUME NEW m \in Leavers, leaver'[m].at = "closing"
          PROVE  /\ leaver'[m].chan = entry' /\ entry' # None
                 /\ entry' \notin live' /\ present'[entry'] = {}
      <4>1. CASE m = l
        BY <1>2, <1>3, <1>4, <2>1, <2>3, <3>1, <4>1
      <4>2. CASE m # l
        BY <1>1, <1>2, <1>4, <1>9, <2>1, <3>1, <4>2, NoneIsNobody
        DEF ClosersAlone, LockHeld
      <4> QED BY <4>1, <4>2
    <3> QED BY <3>1 DEF ClosersAlone
  <2>8. OneLeaveEach'
    BY <1>1, <1>2, <1>4, <1>9 DEF OneLeaveEach
  <2> QED BY <2>4, <2>5, <2>6, <2>7, <2>8
<1> QED BY <1>5, <1>6, <1>7, <1>8, <1>9, MayRejoinBoolean DEF IInv

(* The channel is removed from the map (ChannelMap::close); while nobody
   rejoins early, it is the one that was closed.                             *)
LEMMA CloseChannelIInv ==
    ASSUME IInv, NEW l \in Leavers, CloseChannel(l)
    PROVE  IInv'
<1>1. /\ leaver \in [Leavers -> LeaveTasks]
      /\ leaver[l].at = "closing"
      /\ entry' = None
      /\ leaver' = [leaver EXCEPT ![l].at = "announce"]
      /\ UNCHANGED <<present, live, guard, session>>
  BY DEF IInv, TypeOK, CloseChannel, Remaining
<1>2. \A m \in Leavers :
        /\ leaver'[m].client = leaver[m].client
        /\ leaver'[m].chan = leaver[m].chan
        /\ m # l => leaver'[m] = leaver[m]
        /\ m = l => leaver'[m].at = "announce"
  BY <1>1 DEF LeaveTasks
<1>3. TypeOK'
  <2>1. leaver' \in [Leavers -> LeaveTasks]
    BY <1>1 DEF LeaveTasks
  <2> QED BY <1>1, <2>1 DEF IInv, TypeOK
<1>4. ClosedLeavesMap' /\ SessionsNamed' /\ TasksNamed' /\ LockHeld'
  BY <1>1, <1>2 DEF IInv, ClosedLeavesMap, SessionsNamed, TasksNamed, LockHeld
<1>5. ASSUME ~MayRejoin PROVE SharedState'
  <2> USE DEF SharedState, IInv
  <2>1. /\ leaver[l].chan = entry
        /\ entry \notin live
        /\ present[entry] = {}
    BY <1>1, <1>5 DEF ClosersAlone
  <2>2. OpenIsMapped'
    BY <1>1, <1>5, <2>1 DEF OpenIsMapped
  <2>3. MembersListed'
    BY <1>1, <1>5, <2>1 DEF MembersListed, Member
  <2>4. LeaversListed'
    BY <1>1, <1>2, <1>5, <2>1 DEF LeaversListed
  <2>5. ClosersAlone'
    <3>1. \A m \in Leavers : leaver[m].at = "closing" => m = l
      BY <1>1, <1>5, <2>1 DEF ClosersAlone, LockHeld
    <3> QED BY <1>2, <3>1 DEF ClosersAlone
  <2>6. OneLeaveEach'
    BY <1>1, <1>2, <1>5 DEF OneLeaveEach
  <2> QED BY <2>2, <2>3, <2>4, <2>5, <2>6
<1> QED BY <1>3, <1>4, <1>5, MayRejoinBoolean DEF IInv

(* The others are told, and the lock is released. *)
LEMMA AnnounceLeftIInv ==
    ASSUME IInv, NEW l \in Leavers, AnnounceLeft(l)
    PROVE  IInv'
<1> DEFINE s == leaver[l].chan
           b == Broadcast(session, Left(leaver[l].client), Subscribers(s))
<1>1. /\ leaver \in [Leavers -> LeaveTasks]
      /\ leaver[l].at = "announce"
      /\ s \in States
      /\ leaver[l].client \in Clients
      /\ guard[s] = l
  BY DEF IInv, TypeOK, TasksNamed, LockHeld, LeaveTasks, AnnounceLeft
<1>2. /\ session' = b
      /\ guard' = [guard EXCEPT ![s] = None]
      /\ leaver' = [leaver EXCEPT ![l] = NoTask]
      /\ UNCHANGED <<entry, present, live>>
  BY DEF AnnounceLeft
<1>3. /\ b \in [Clients -> Sessions]
      /\ \A d \in Clients : /\ Len(b[d].queue) <= EventCap
                            /\ b[d].at = session[d].at
                            /\ b[d].chan = session[d].chan
  BY <1>1, BroadcastType, EventType DEF IInv
<1> HIDE DEF b
<1>4. \A m \in Leavers :
        /\ m # l => leaver'[m] = leaver[m]
        /\ m = l => leaver'[m] = NoTask
  BY <1>1, <1>2
<1>5. NoTask \in LeaveTasks /\ NoTask.at = "none" /\ NoTask.client = None
  BY DEF NoTask, LeaveTasks
<1>6. TypeOK'
  <2>1. leaver' \in [Leavers -> LeaveTasks]
    BY <1>1, <1>2, <1>5
  <2> QED BY <1>2, <1>3, <2>1 DEF IInv, TypeOK
<1>7. ClosedLeavesMap' /\ SessionsNamed' /\ TasksNamed'
  BY <1>1, <1>2, <1>3, <1>4, <1>5
  DEF IInv, ClosedLeavesMap, SessionsNamed, TasksNamed
<1>8. LockHeld'
  <2>1. ASSUME NEW m \in Leavers, leaver'[m].at \in {"closing", "announce"}
        PROVE  guard'[leaver'[m].chan] = m
    <3>1. m # l /\ guard[leaver[m].chan] = m
      BY <1>4, <1>5, <2>1 DEF IInv, LockHeld
    <3> QED BY <1>1, <1>2, <1>4, <3>1 DEF IInv, TypeOK
  <2> QED BY <2>1 DEF LockHeld
<1>9. ASSUME ~MayRejoin PROVE SharedState'
  <2> USE DEF SharedState, IInv
  <2>1. OpenIsMapped'
    BY <1>2, <1>9 DEF OpenIsMapped
  <2>2. MembersListed'
    BY <1>2, <1>3, <1>9 DEF MembersListed, Member
  <2>3. LeaversListed'
    BY <1>2, <1>4, <1>5, <1>9 DEF LeaversListed
  <2>4. ClosersAlone'
    BY <1>2, <1>4, <1>5, <1>9 DEF ClosersAlone
  <2>5. \A m \in Leavers : leaver[m].at # "none" => leaver[m].client \in Clients
    BY <1>1 DEF TasksNamed, LeaveTasks
  <2>6. OneLeaveEach'
    BY <1>2, <1>3, <1>4, <1>5, <1>9, <2>5, NoneIsNobody DEF OneLeaveEach
  <2> QED BY <2>1, <2>2, <2>3, <2>4, <2>6
<1> QED BY <1>6, <1>7, <1>8, <1>9, MayRejoinBoolean DEF IInv

-----------------------------------------------------------------------------
(* Every step keeps the invariant. *)
LEMMA NextIInv == IInv /\ [Next]_vars => IInv'
<1> SUFFICES ASSUME IInv, [Next]_vars PROVE IInv'
  OBVIOUS
<1>1. CASE UNCHANGED vars
  BY <1>1 DEF vars, IInv, TypeOK, ClosedLeavesMap, SessionsNamed, TasksNamed, LockHeld,
              SharedState, OpenIsMapped, MembersListed, Member, LeaversListed,
              ClosersAlone, OneLeaveEach
<1>2. ASSUME NEW c \in Clients, Get(c) \/ SessionStep(c) \/ DropHandle(c)
      PROVE  IInv'
  <2>1. CASE \/ Get(c) \/ OpenConnection(c) \/ GiveUp(c) \/ AnnounceJoined(c)
             \/ ListMembers(c) \/ Ready(c) \/ ReceiveEvent(c)
    BY <2>1, SessionMoves
  <2>2. CASE InitChannel(c) \/ ReassignVoice(c)
    BY <2>2, InsertIInv DEF InitChannel, ReassignVoice, At
  <2>3. CASE Join(c)
    BY <2>3, JoinIInv
  <2>4. CASE DropHandle(c)
    BY <2>4, DropHandleIInv
  <2> QED BY <1>2, <2>1, <2>2, <2>3, <2>4 DEF SessionStep
<1>3. ASSUME NEW l \in Leavers, LeaveStep(l)
      PROVE  IInv'
  BY <1>3, LeaveIInv, CloseChannelIInv, AnnounceLeftIInv DEF LeaveStep
<1> QED BY <1>1, <1>2, <1>3 DEF Next

(* The invariant holds throughout. *)
THEOREM Consistent == Spec => []IInv
BY InitIInv, NextIInv, PTL DEF Spec

(* Types, and the capacity of every subscriber's queue
   (LocalChannelInitializer::init).                                          *)
THEOREM TypeCorrect == Spec => []TypeOK
<1>1. IInv => TypeOK
  BY DEF IInv
<1> QED BY <1>1, Consistent, PTL

(* A closed state that is still mapped is about to be removed by the task that
   closed it (LocalChannelEvents::leave, ChannelMap::close).                 *)
THEOREM ClosedStatesLeave == Spec => []ClosedLeavesMap
<1>1. IInv => ClosedLeavesMap
  BY DEF IInv
<1> QED BY <1>1, Consistent, PTL

(* Unless clients rejoin before their last leave is done, all who are in the
   channel share the mapped state and are listed in it (get_or_init, join,
   leave).                                                                   *)
THEOREM MembersShareState == Spec => []OneChannel
<1>1. IInv => OneChannel
  BY DEF IInv, OneChannel, SharedState, MembersListed
<1> QED BY <1>1, Consistent, PTL

-----------------------------------------------------------------------------
(* What a list of members becomes as events arrive *)

(* An event is either a join or a leave, and of one client. *)
LEMMA EventsApart ==
    \A c, d \in Clients : /\ Joined(c) # Left(d)
                          /\ Joined(c) = Joined(d) => c = d
                          /\ Left(c) = Left(d) => c = d
BY DEF Joined, Left

(* Another event is broadcast. *)
LEMMA AfterAppend ==
    ASSUME NEW view, NEW q \in Seq(Events), NEW x \in Clients, NEW d \in Clients
    PROVE  /\ d \in After(view, Append(q, Joined(x))) <=> d = x \/ d \in After(view, q)
           /\ d \in After(view, Append(q, Left(x))) <=> d # x /\ d \in After(view, q)
<1>1. Joined(x) \in Events /\ Left(x) \in Events
  BY EventType
<1>2. ASSUME NEW e \in Events
      PROVE  /\ DOMAIN Append(q, e) = 1..(Len(q) + 1) /\ DOMAIN q = 1..Len(q)
             /\ Len(q) \in Nat
             /\ Append(q, e)[Len(q) + 1] = e
             /\ \A i \in 1..Len(q) : Append(q, e)[i] = q[i]
  OBVIOUS
<1>3. d \in After(view, Append(q, Joined(x))) <=> d = x \/ d \in After(view, q)
  BY <1>1, <1>2, EventsApart DEF After
<1>4. d \in After(view, Append(q, Left(x))) <=> d # x /\ d \in After(view, q)
  BY <1>1, <1>2, EventsApart DEF After
<1> QED BY <1>3, <1>4

(* An event is received. *)
LEMMA AfterTail ==
    ASSUME NEW view \in SUBSET Clients, NEW q \in Seq(Events), q # <<>>,
           NEW c \in Clients, NEW d \in Clients \ {c}
    PROVE  d \in After(Show(c, view, Head(q)), Tail(q)) <=> d \in After(view, q)
<1>1. /\ Len(q) \in Nat \ {0} /\ DOMAIN q = 1..Len(q) /\ DOMAIN Tail(q) = 1..(Len(q) - 1)
      /\ Head(q) = q[1] /\ q[1] \in Events
      /\ \A i \in 1..(Len(q) - 1) : Tail(q)[i] = q[i + 1]
  OBVIOUS
<1>2. PICK x \in Clients : q[1] \in {Joined(x), Left(x)}
  BY <1>1 DEF Events
<1>3. /\ d \in Show(c, view, q[1]) /\ q[1] = Joined(x) <=>
            q[1] = Joined(x) /\ (d \in view \/ d = x)
      /\ d \in Show(c, view, q[1]) /\ q[1] = Left(x) <=>
            q[1] = Left(x) /\ (d \in view /\ d # x)
  BY <1>2 DEF Show, Joined, Left
<1>4. /\ \A j \in 1..Len(q) : j = 1 \/ (j - 1 \in 1..(Len(q) - 1) /\ Tail(q)[j - 1] = q[j])
      /\ \A j \in 1..(Len(q) - 1) : j + 1 \in 1..Len(q) /\ Tail(q)[j] = q[j + 1]
      /\ 1 \in 1..Len(q)
  BY <1>1
<1>5. (\A j \in DOMAIN q : q[j] # Left(d)) <=>
         q[1] # Left(d) /\ \A j \in DOMAIN Tail(q) : Tail(q)[j] # Left(d)
  <2>1. ASSUME \A j \in 1..Len(q) : q[j] # Left(d), NEW j \in 1..(Len(q) - 1)
        PROVE  Tail(q)[j] # Left(d)
    BY <1>4, <2>1
  <2>2. ASSUME q[1] # Left(d), \A j \in 1..(Len(q) - 1) : Tail(q)[j] # Left(d),
               NEW j \in 1..Len(q)
        PROVE  q[j] # Left(d)
    BY <1>4, <2>2
  <2> QED BY <1>1, <1>4, <2>1, <2>2
<1>6. (\E i \in DOMAIN q : q[i] = Joined(d) /\ \A j \in DOMAIN q : j > i => q[j] # Left(d))
        <=> \/ q[1] = Joined(d) /\ \A j \in DOMAIN Tail(q) : Tail(q)[j] # Left(d)
            \/ \E i \in DOMAIN Tail(q) :
                  /\ Tail(q)[i] = Joined(d)
                  /\ \A j \in DOMAIN Tail(q) : j > i => Tail(q)[j] # Left(d)
  <2> DEFINE Stays(s, i) == s[i] = Joined(d) /\ \A j \in DOMAIN s : j > i => s[j] # Left(d)
  <2>0. ASSUME NEW i \in 0..(Len(q) - 1)
        PROVE  (\A j \in 1..Len(q) : j > i + 1 => q[j] # Left(d)) <=>
                  \A j \in 1..(Len(q) - 1) : j > i => Tail(q)[j] # Left(d)
    <3>1. ASSUME \A j \in 1..Len(q) : j > i + 1 => q[j] # Left(d),
                 NEW j \in 1..(Len(q) - 1), j > i
          PROVE  Tail(q)[j] # Left(d)
      <4>1. j + 1 \in 1..Len(q) /\ j + 1 > i + 1 /\ Tail(q)[j] = q[j + 1]
        BY <1>4, <3>1
      <4> QED BY <3>1, <4>1
    <3>2. ASSUME \A j \in 1..(Len(q) - 1) : j > i => Tail(q)[j] # Left(d),
                 NEW j \in 1..Len(q), j > i + 1
          PROVE  q[j] # Left(d)
      <4>1. j # 1 /\ j - 1 > i
        BY <3>2
      <4> QED BY <1>4, <3>2, <4>1
    <3> QED BY <3>1, <3>2
  <2>1. Stays(q, 1) <=> q[1] = Joined(d) /\ \A j \in DOMAIN Tail(q) : Tail(q)[j] # Left(d)
    <3>1. (\A j \in 1..Len(q) : j > 0 + 1 => q[j] # Left(d)) <=>
             \A j \in 1..(Len(q) - 1) : j > 0 => Tail(q)[j] # Left(d)
      BY <1>1, <2>0
    <3>2. \A j \in 1..(Len(q) - 1) : j > 0
      BY <1>1
    <3>3. (\A j \in 1..Len(q) : j > 1 => q[j] # Left(d)) <=>
             \A j \in 1..(Len(q) - 1) : Tail(q)[j] # Left(d)
      BY <3>1, <3>2
    <3> QED BY <1>1, <3>3
  <2>2. ASSUME NEW i \in 1..(Len(q) - 1) PROVE Stays(q, i + 1) <=> Stays(Tail(q), i)
    <3>1. i \in 0..(Len(q) - 1)
      BY <1>1
    <3> QED BY <1>1, <1>4, <2>0, <3>1
  <2>3. (\E i \in DOMAIN q : Stays(q, i)) <=>
           Stays(q, 1) \/ \E i \in 1..(Len(q) - 1) : Stays(q, i + 1)
    <3> HIDE DEF Stays
    <3>1. \A i \in 1..Len(q) : i = 1 \/ (i - 1 \in 1..(Len(q) - 1) /\ i = (i - 1) + 1)
      BY <1>1
    <3>2. \A i \in 1..(Len(q) - 1) : i + 1 \in 1..Len(q)
      BY <1>1
    <3> QED BY <1>1, <3>1, <3>2
  <2>4. (\E i \in DOMAIN Tail(q) : Stays(Tail(q), i)) <=>
           \E i \in 1..(Len(q) - 1) : Stays(q, i + 1)
    <3> HIDE DEF Stays
    <3> QED BY <1>1, <2>2
  <2> QED BY <2>1, <2>3, <2>4
<1> HIDE DEF After
<1> QED BY <1>1, <1>2, <1>3, <1>5, <1>6, EventsApart DEF After

(* What a list becomes lies between what the empty and the full one become. *)
LEMMA AfterBetween ==
    ASSUME NEW view, NEW q, NEW d \in Clients
    PROVE  d \in After(view, q) <=>
              d \in After({}, q) \/ (d \in view /\ d \in After(Clients, q))
BY DEF After

-----------------------------------------------------------------------------
(* What subscribers are shown *)

(* A client whose leave is not announced is one whose task holds the lock. *)
LEMMA LeavingIs ==
    ASSUME IInv, GuardHeld, NEW s \in States, NEW d \in Clients
    PROVE  d \in Leaving(s) <=> guard[s] # None /\ leaver[guard[s]].client = d
<1>1. guard[s] \in Leavers \cup {None} /\ None \notin Leavers
  BY NoneIsNobody DEF IInv, TypeOK
<1> QED BY <1>1 DEF Leaving, GuardHeld

(* The same for the next state. *)
LEMMA LeavingNext ==
    ASSUME IInv', GuardHeld', NEW s \in States, NEW d \in Clients
    PROVE  d \in Leaving(s)' <=> guard'[s] # None /\ leaver'[guard'[s]].client = d
<1>1. guard'[s] \in Leavers \cup {None} /\ None \notin Leavers
  BY NoneIsNobody DEF IInv, TypeOK
<1> QED BY <1>1 DEF Leaving, GuardHeld

(* A subscriber that has heard of nothing, where nothing has happened to the
   others that it can hear of. *)
LEMMA Bystander ==
    ASSUME NEW c \in Clients, NEW d \in Clients \ {c}, Listens(c) => Fits(c, d),
           NEW s, session[c].chan = s, session'[c] = session[c],
           HasHandle(c) => /\ d \in Counted(s)' <=> d \in Counted(s)
                           /\ d \in Unannounced(s) => d \in Unannounced(s)'
    PROVE  Listens(c)' => Fits(c, d)'
BY DEF Listens, HasHandle, Fits, Fewest, Most, At

(* What a session keeps when it moves along. *)
LEMMA MovedKeeps ==
    ASSUME NEW ses \in Sessions, NEW a
    PROVE  /\ Moved(ses, a).at = a /\ Moved(ses, a).chan = ses.chan
           /\ Moved(ses, a).queue = ses.queue /\ Moved(ses, a).view = ses.view
           /\ Moved(ses, a).lagged = ses.lagged
BY DEF Sessions, Moved

(* A session given a state is where it was to be. *)
LEMMA LentKeeps ==
    ASSUME NEW ses \in Sessions, NEW a, NEW ch
    PROVE  Lent(ses, a, ch).at = a
BY DEF Sessions, Lent

(* A session that was told a list keeps everything else. *)
LEMMA ToldKeeps ==
    ASSUME NEW ses \in Sessions, NEW a, NEW v
    PROVE  /\ Told(ses, a, v).at = a /\ Told(ses, a, v).chan = ses.chan
           /\ Told(ses, a, v).queue = ses.queue /\ Told(ses, a, v).view = v
           /\ Told(ses, a, v).lagged = ses.lagged
BY DEF Sessions, Told

(* One session changes. *)
LEMMA OneMoves ==
    ASSUME session \in [Clients -> Sessions], NEW c \in Clients, NEW ses,
           session' = [session EXCEPT ![c] = ses]
    PROVE  session'[c] = ses /\ \A x \in Clients \ {c} : session'[x] = session[x]
OBVIOUS

(* A channel's state is known to whoever has entered or is about to. *)
LEMMA StateKnown ==
    ASSUME IInv, NEW c \in Clients, session[c].at \notin {"idle", "init"}
    PROVE  session[c].chan \in States
BY DEF IInv, TypeOK, SessionsNamed, Sessions

(* Steps of one session that concern nobody else. *)
LEMMA QuietViews ==
    ASSUME IInv, ViewsAgree, NEW c \in Clients,
           Get(c) \/ OpenConnection(c) \/ GiveUp(c) \/ Ready(c)
    PROVE  ViewsAgree'
<1>1. session \in [Clients -> Sessions] /\ session[c] \in Sessions
  BY DEF IInv, TypeOK
<1>2. PICK ses :
        /\ session' = [session EXCEPT ![c] = ses]
        /\ \/ \E a \in {"init", "open"} : ses = Lent(session[c], a, entry)
           \/ \E a \in {"join", "reassign"} : ses = Moved(session[c], a)
           \/ ses = Idle
           \/ At(c, "setup") /\ ses = Moved(session[c], "in")
        /\ UNCHANGED <<present, guard, leaver>>
        /\ ~At(c, "announce")
  <2>1. CASE Get(c)
    <3>1. PICK a \in {"init", "open"} :
             session' = [session EXCEPT ![c] = Lent(session[c], a, entry)]
      BY <1>1, <2>1 DEF Get, Lent
    <3> QED BY <2>1, <3>1 DEF Get, At
  <2>2. CASE OpenConnection(c)
    <3>1. PICK a \in {"join", "reassign"} :
             session' = [session EXCEPT ![c] = Moved(session[c], a)]
      BY <1>1, <2>2 DEF OpenConnection, Moved
    <3> QED BY <2>2, <3>1 DEF OpenConnection, At
  <2>3. CASE GiveUp(c)
    BY <2>3 DEF GiveUp, At
  <2>4. CASE Ready(c)
    <3>1. session' = [session EXCEPT ![c] = Moved(session[c], "in")]
      BY <1>1, <2>4 DEF Ready, Moved
    <3> QED BY <2>4, <3>1 DEF Ready, At
  <2> QED BY <2>1, <2>2, <2>3, <2>4
<1>3. session'[c] = ses /\ \A x \in Clients \ {c} : session'[x] = session[x]
  BY <1>1, <1>2, OneMoves
<1>4. /\ ses.at # "announce"
      /\ \/ ses.at \notin {"list", "setup", "in"}
         \/ At(c, "setup") /\ ses = Moved(session[c], "in")
  BY <1>1, <1>2, MovedKeeps, LentKeeps DEF Idle
<1>5. ASSUME NEW x \in Clients, NEW d \in Clients \ {x}, Listens(x)'
      PROVE  Fits(x, d)'
  <2>1. \A s : Counted(s)' = Counted(s) /\ Unannounced(s)' = Unannounced(s)
    BY <1>2, <1>3, <1>4 DEF Counted, Leaving, Unannounced, At
  <2>2. CASE x # c
    BY <1>3, <1>5, <2>1, <2>2, Bystander DEF ViewsAgree
  <2>3. CASE x = c
    <3>1. At(c, "setup") /\ ses = Moved(session[c], "in")
      BY <1>5, <1>3, <1>4, <2>3 DEF Listens, HasHandle
    <3>2. /\ session'[c].chan = session[c].chan /\ session'[c].queue = session[c].queue
          /\ session'[c].view = session[c].view /\ session'[c].lagged = session[c].lagged
          /\ session[c].at = "setup" /\ session'[c].at = "in"
      BY <1>1, <1>3, <3>1, MovedKeeps DEF At
    <3>3. Fits(c, d)
      BY <1>5, <2>3, <3>2 DEF ViewsAgree, Listens, HasHandle
    <3> QED BY <2>1, <2>3, <3>2, <3>3 DEF Fits, Fewest, Most, At
  <2> QED BY <2>2, <2>3
<1> QED BY <1>5 DEF ViewsAgree

(* A fresh state is nobody's. *)
LEMMA InsertViews ==
    ASSUME IInv, ViewsAgree, NEW c \in Clients, Insert(c),
           session[c].at \in {"init", "reassign"}
    PROVE  ViewsAgree'
<1>1. session \in [Clients -> Sessions] /\ present \in [States -> SUBSET Clients]
  BY DEF IInv, TypeOK
<1>2. PICK t \in States :
         /\ Unreachable(t) /\ present' \in {[present EXCEPT ![t] = {}], present}
         /\ session' = [session EXCEPT ![c].at = "open", ![c].chan = entry']
         /\ UNCHANGED <<guard, leaver>>
  BY DEF Insert
<1>3. /\ \A x \in Clients \ {c} : session'[x] = session[x]
      /\ session'[c].at = "open"
      /\ \A s \in States : s # t => present'[s] = present[s]
  <2>1. session' = [session EXCEPT ![c] = Lent(session[c], "open", entry')]
    BY <1>1, <1>2 DEF Lent
  <2>2. session'[c].at = "open" /\ \A x \in Clients \ {c} : session'[x] = session[x]
    BY <1>1, <2>1, OneMoves, LentKeeps
  <2> QED BY <1>1, <1>2, <2>2
<1>4. ASSUME NEW x \in Clients, NEW d \in Clients \ {x}, Listens(x)'
      PROVE  Fits(x, d)'
  <2>1. x # c
    BY <1>3, <1>4 DEF Listens, HasHandle
  <2>2. session[x].chan # t
    BY <1>2 DEF Unreachable
  <2>3. session[x].chan \in States
    BY <1>3, <1>4, <2>1, StateKnown DEF Listens, HasHandle
  <2>4. Counted(session[x].chan)' = Counted(session[x].chan)
    <3>1. ASSUME NEW s \in States, s # t PROVE Counted(s)' = Counted(s)
      <4>1. present'[s] = present[s] /\ leaver' = leaver /\ guard' = guard
        BY <1>2, <1>3, <3>1
      <4> QED BY <4>1 DEF Counted, Leaving
    <3>2. session'[x] = session[x]
      BY <1>3, <2>1
    <3> QED BY <2>2, <2>3, <3>1, <3>2
  <2>5. \A s : Unannounced(s)' = Unannounced(s)
    BY <1>3 DEF Unannounced, At
  <2> QED BY <1>3, <1>4, <2>1, <2>5, <2>4, Bystander DEF ViewsAgree
<1> QED BY <1>4 DEF ViewsAgree

(* Who is inserted has yet to announce itself. *)
LEMMA JoinViews ==
    ASSUME IInv, ViewsAgree, NEW c \in Clients, Join(c)
    PROVE  ViewsAgree'
<1> DEFINE s == session[c].chan
<1>1. /\ session \in [Clients -> Sessions] /\ present \in [States -> SUBSET Clients]
      /\ session[c] \in Sessions /\ session[c].at = "join"
  BY DEF IInv, TypeOK, Join, At
<1>2. PICK ses :
        /\ session' = [session EXCEPT ![c] = ses]
        /\ \/ ses = Moved(session[c], "announce") /\ present' = [present EXCEPT ![s] = @ \cup {c}]
           \/ ses = Idle /\ present' = present
        /\ UNCHANGED <<guard, leaver>>
  BY <1>1 DEF Join, Moved
<1>3. session'[c] = ses /\ \A x \in Clients \ {c} : session'[x] = session[x]
  BY <1>1, <1>2, OneMoves
<1>4. /\ ses.at \notin {"list", "setup", "in"}
      /\ \/ ses.at = "announce" /\ ses.chan = s
         \/ ses.at = "idle" /\ present' = present
  BY <1>1, <1>2, MovedKeeps DEF Idle
<1>5. /\ \A t \in States : \A d \in Clients \ {c} : d \in present'[t] <=> d \in present[t]
      /\ \A t \in States : t # s => present'[t] = present[t]
  BY <1>1, <1>2
<1>6. ASSUME NEW x \in Clients, NEW d \in Clients \ {x}, Listens(x)'
      PROVE  Fits(x, d)'
  <2>1. x # c
    BY <1>3, <1>4, <1>6 DEF Listens, HasHandle
  <2> DEFINE t == session[x].chan
  <2>3. t \in States
    BY <1>3, <1>6, <2>1, StateKnown DEF Listens, HasHandle
  <2>4. CASE d # c
    <3>1. (d \in Counted(t)' <=> d \in Counted(t))
             /\ (d \in Unannounced(t)' <=> d \in Unannounced(t))
      BY <1>2, <1>3, <1>5, <2>1, <2>3, <2>4 DEF Counted, Leaving, Unannounced, At
    <3> QED BY <1>3, <1>6, <2>1, <3>1, Bystander DEF ViewsAgree
  <2>5. CASE d = c /\ (ses.at = "idle" \/ t # s)
    <3>1. present'[t] = present[t]
      BY <1>4, <1>5, <2>3, <2>5
    <3>2. d \in Counted(t)' <=> d \in Counted(t)
      BY <1>2, <1>3, <2>1, <2>3, <3>1 DEF Counted, Leaving
    <3>3. d \notin Unannounced(t)
      BY <1>1, <2>5 DEF Unannounced, At
    <3> QED BY <1>3, <1>6, <2>1, <3>2, <3>3, Bystander DEF ViewsAgree
  <2>6. CASE d = c /\ ses.at # "idle" /\ t = s
    <3>1. session'[c].at = "announce" /\ session'[c].chan = session'[x].chan
      BY <1>3, <1>4, <2>1, <2>6
    <3> QED BY <2>6, <3>1 DEF Fits, Unannounced, At
  <2> QED BY <2>4, <2>5, <2>6
<1> QED BY <1>6 DEF ViewsAgree

(* What the broadcast of one event does to a session that keeps up. *)
LEMMA PushAdds ==
    ASSUME NEW ses \in Sessions, NEW e
    PROVE  /\ Push(ses, e).at = ses.at /\ Push(ses, e).chan = ses.chan
           /\ Push(ses, e).view = ses.view
           /\ ~Push(ses, e).lagged => ~ses.lagged /\ Push(ses, e).queue = Append(ses.queue, e)
BY DEF Push, Sessions

(* A session announces itself, and subscribes. *)
LEMMA AnnounceJoinedViews ==
    ASSUME IInv, ~MayRejoin, ViewsAgree, NEW c \in Clients, AnnounceJoined(c)
    PROVE  ViewsAgree'
<1> DEFINE s == session[c].chan
           b == Broadcast(session, Joined(c), Subscribers(s))
<1>1. /\ session \in [Clients -> Sessions] /\ At(c, "announce")
      /\ UNCHANGED <<present, guard, leaver>>
      /\ c \in present[s]
  BY DEF IInv, SharedState, MembersListed, Member, TypeOK, AnnounceJoined, At
<1>2. /\ b \in [Clients -> Sessions]
      /\ \A x \in Clients : /\ b[x].at = session[x].at /\ b[x].chan = session[x].chan
                            /\ x \notin Subscribers(s) => b[x] = session[x]
                            /\ x \in Subscribers(s) => b[x] = Push(session[x], Joined(c))
  BY BroadcastType, EventType DEF IInv, Broadcast
<1>3. session' = [b EXCEPT ![c] = Heard(b[c], "list", <<Joined(c)>>)]
  BY <1>2 DEF AnnounceJoined, Heard
<1> HIDE DEF b
<1>4. /\ session'[c] = Heard(b[c], "list", <<Joined(c)>>)
      /\ \A x \in Clients \ {c} : session'[x] = b[x]
  BY <1>2, <1>3
<1>5. /\ session'[c].at = "list" /\ session'[c].chan = s
      /\ session'[c].queue = <<Joined(c)>>
  BY <1>2, <1>4 DEF Heard, Sessions
<1>6. \A t : Counted(t)' = Counted(t)
  BY <1>1 DEF Counted, Leaving
<1>7. \A t : \A d \in Clients \ {c} : d \in Unannounced(t)' <=> d \in Unannounced(t)
  BY <1>2, <1>4 DEF Unannounced, At
<1>8. ASSUME NEW x \in Clients, NEW d \in Clients \ {x}, Listens(x)'
      PROVE  Fits(x, d)'
  <2>1. CASE x = c
    <3>1. d # c
      BY <2>1
    <3>2. d \notin After({}, <<Joined(c)>>) /\ d \in After(Clients, <<Joined(c)>>)
      <4>1. <<Joined(c)>> = Append(<<>>, Joined(c)) /\ <<>> \in Seq(Events)
        BY EventType
      <4>2. d \notin After({}, <<>>) /\ d \in After(Clients, <<>>)
        BY DEF After
      <4> QED BY <3>1, <4>1, <4>2, AfterAppend
    <3> QED BY <1>5, <2>1, <3>2 DEF Fits, Fewest, Most, At
  <2>2. CASE x # c /\ x \notin Subscribers(s)
    <3>1. session'[x] = session[x]
      BY <1>2, <1>4, <2>2
    <3>2. session[x].chan # s
      BY <1>8, <2>2, <3>1 DEF Listens, HasHandle, Subscribers
    <3>3. d \in Unannounced(session[x].chan) => d \in Unannounced(session[x].chan)'
      BY <1>7, <3>1, <3>2 DEF Unannounced
    <3> QED BY <1>6, <1>8, <3>1, <3>3, Bystander DEF ViewsAgree
  <2>3. CASE x # c /\ x \in Subscribers(s)
    <3>1. session'[x] = Push(session[x], Joined(c)) /\ session[x] \in Sessions
      BY <1>1, <1>2, <1>4, <2>3
    <3>2. /\ session'[x].at = session[x].at /\ session'[x].chan = s
          /\ session[x].chan = s /\ session'[x].view = session[x].view
          /\ session'[x].queue = Append(session[x].queue, Joined(c))
          /\ session[x].queue \in Seq(Events)
          /\ Listens(x)
      BY <1>8, <2>3, <3>1, PushAdds DEF Listens, HasHandle, Subscribers, Sessions
    <3>3. /\ d \in After(Fewest(x), session[x].queue) \/ d = c <=>
                d \in After(Fewest(x)', session'[x].queue)
          /\ d \in After(Most(x), session[x].queue) \/ d = c <=>
                d \in After(Most(x)', session'[x].queue)
      <4>1. Fewest(x)' = Fewest(x) /\ Most(x)' = Most(x)
        BY <3>2 DEF Fewest, Most, At
      <4>2. \A view : d \in After(view, Append(session[x].queue, Joined(c))) <=>
                        d = c \/ d \in After(view, session[x].queue)
        BY <3>2, AfterAppend
      <4> QED BY <3>2, <4>1, <4>2
    <3>4. CASE d = c
      <4>1. d \in Counted(s)
        BY <1>1, <3>4 DEF Counted
      <4> QED BY <1>6, <3>2, <3>3, <3>4, <4>1 DEF Fits
    <3>5. CASE d # c
      <4>1. Fits(x, d)
        BY <3>2 DEF ViewsAgree
      <4> QED BY <1>6, <1>7, <3>2, <3>3, <3>5, <4>1 DEF Fits
    <3> QED BY <3>4, <3>5
  <2> QED BY <2>1, <2>2, <2>3
<1> QED BY <1>8 DEF ViewsAgree

(* The list is read under the lock: no leave is between the removal and the
   announcement. *)
LEMMA ListMembersViews ==
    ASSUME IInv, GuardHeld, ViewsAgree, NEW c \in Clients, ListMembers(c)
    PROVE  ViewsAgree'
<1> DEFINE s == session[c].chan
<1>1. /\ session \in [Clients -> Sessions] /\ session[c] \in Sessions /\ At(c, "list")
      /\ UNCHANGED <<present, guard, leaver>>
      /\ guard[s] = None
      /\ s \in States
  BY StateKnown DEF IInv, TypeOK, ListMembers, Readable, At
<1>2. session' = [session EXCEPT ![c] = Told(session[c], "setup", present[s])]
  BY <1>1 DEF ListMembers, Told
<1>3. /\ \A x \in Clients \ {c} : session'[x] = session[x]
      /\ session'[c].at = "setup" /\ session'[c].chan = s
      /\ session'[c].queue = session[c].queue /\ session'[c].view = present[s]
      /\ session'[c].lagged = session[c].lagged
  BY <1>1, <1>2, OneMoves, ToldKeeps
<1>4. \A t : Counted(t)' = Counted(t)
  BY <1>1 DEF Counted, Leaving
<1>5. \A t : Unannounced(t)' = Unannounced(t)
  BY <1>1, <1>3 DEF Unannounced, At
<1>6. ASSUME NEW x \in Clients, NEW d \in Clients \ {x}, Listens(x)'
      PROVE  Fits(x, d)'
  <2>1. CASE x # c
    BY <1>3, <1>4, <1>5, <1>6, <2>1, Bystander DEF ViewsAgree
  <2>2. CASE x = c
    <3>1. Fits(c, d)
      BY <1>1, <1>3, <1>6, <2>2 DEF ViewsAgree, Listens, HasHandle, At
    <3>2. d \in Counted(s) <=> d \in present[s]
      BY <1>1, LeavingIs DEF Counted
    <3>3. Fewest(c) = {} /\ Most(c) = Clients
      BY <1>1 DEF Fewest, Most
    <3>4. d \in After(present[s], session[c].queue) <=>
             \/ d \in After({}, session[c].queue)
             \/ d \in present[s] /\ d \in After(Clients, session[c].queue)
      BY AfterBetween
    <3>5. Fewest(c)' = present[s] /\ Most(c)' = present[s]
      BY <1>3 DEF Fewest, Most, At
    <3> QED BY <1>3, <1>4, <1>5, <2>2, <3>1, <3>2, <3>3, <3>4, <3>5 DEF Fits
  <2> QED BY <2>1, <2>2
<1> QED BY <1>6 DEF ViewsAgree

(* A subscriber receives the oldest event. *)
LEMMA ReceiveEventViews ==
    ASSUME IInv, ViewsAgree, NEW c \in Clients, ReceiveEvent(c)
    PROVE  ViewsAgree'
<1> DEFINE q == session[c].queue
           v == Show(c, session[c].view, Head(q))
<1>1. /\ session \in [Clients -> Sessions] /\ session[c] \in Sessions /\ At(c, "in")
      /\ UNCHANGED <<present, guard, leaver>>
      /\ q \in Seq(Events) /\ q # <<>> /\ session[c].view \in SUBSET Clients
  BY DEF IInv, TypeOK, ReceiveEvent, At, Sessions
<1>2. session' = [session EXCEPT ![c] = Updated(session[c], Tail(q), v)]
  BY <1>1 DEF ReceiveEvent, Updated
<1>3. /\ \A x \in Clients \ {c} : session'[x] = session[x]
      /\ session'[c].at = "in" /\ session'[c].chan = session[c].chan
      /\ session'[c].queue = Tail(q) /\ session'[c].view = v
      /\ session'[c].lagged = session[c].lagged
  <2> HIDE DEF v, q
  <2>1. session'[c] = Updated(session[c], Tail(q), v)
    BY <1>1, <1>2, OneMoves
  <2> QED BY <1>1, <1>2, <2>1, OneMoves DEF Updated, Sessions, At
<1>4. \A t : Counted(t)' = Counted(t)
  BY <1>1 DEF Counted, Leaving
<1>5. \A t : Unannounced(t)' = Unannounced(t)
  BY <1>1, <1>3 DEF Unannounced, At
<1>6. ASSUME NEW x \in Clients, NEW d \in Clients \ {x}, Listens(x)'
      PROVE  Fits(x, d)'
  <2>1. CASE x # c
    BY <1>3, <1>4, <1>5, <1>6, <2>1, Bystander DEF ViewsAgree
  <2>2. CASE x = c
    <3>1. Fits(c, d)
      BY <1>1, <1>3, <1>6, <2>2 DEF ViewsAgree, Listens, HasHandle, At
    <3>2. d \in After(v, Tail(q)) <=> d \in After(session[c].view, q)
      BY <1>1, <2>2, AfterTail
    <3>3. /\ Fewest(c) = session[c].view /\ Most(c) = session[c].view
          /\ Fewest(c)' = session'[c].view /\ Most(c)' = session'[c].view
      BY <1>1, <1>3 DEF Fewest, Most, At
    <3> HIDE DEF v, q
    <3> QED BY <1>3, <1>4, <1>5, <2>2, <3>1, <3>2, <3>3 DEF Fits, q
  <2> QED BY <2>1, <2>2
<1> QED BY <1>6 DEF ViewsAgree

(* A handle is dropped; its task has yet to take the lock. *)
LEMMA DropHandleViews ==
    ASSUME IInv, GuardHeld, NEW c \in Clients, DropHandle(c)
    PROVE  GuardHeld' /\ (ViewsAgree => ViewsAgree')
<1>1. /\ session \in [Clients -> Sessions] /\ ~At(c, "announce")
      /\ UNCHANGED <<present, guard>>
      /\ session' = [session EXCEPT ![c] = Idle]
  BY DEF IInv, TypeOK, DropHandle, At
<1>2. /\ session'[c] = Idle
      /\ \A x \in Clients \ {c} : session'[x] = session[x]
  BY <1>1, OneMoves
<1>3. PICK l \in Leavers :
        /\ leaver[l] = NoTask
        /\ leaver' = [leaver EXCEPT ![l] =
             [at |-> "woken", client |-> c, chan |-> session[c].chan]]
  BY DEF DropHandle
<1>4. \A m \in Leavers : m # l => leaver'[m] = leaver[m]
  BY <1>3 DEF IInv, TypeOK
<1>5. \A s \in States : guard[s] # l
  BY <1>3, NoneIsNobody DEF GuardHeld, NoTask
<1>6. GuardHeld'
  <2>1. \A s \in States : guard[s] \in Leavers \cup {None}
    BY DEF IInv, TypeOK
  <2> QED BY <1>1, <1>4, <1>5, <2>1 DEF GuardHeld
<1>7. ASSUME NEW s \in States PROVE Counted(s)' = Counted(s)
  <2>1. Leaving(s)' = Leaving(s)
    BY <1>1, <1>4, <1>5, <1>7 DEF Leaving
  <2> QED BY <1>1, <2>1 DEF Counted
<1>8. \A t : Unannounced(t)' = Unannounced(t)
  BY <1>1, <1>2 DEF Unannounced, At, Idle
<1>9. ASSUME ViewsAgree, NEW x \in Clients, NEW d \in Clients \ {x}, Listens(x)'
      PROVE  Fits(x, d)'
  <2>1. x # c
    BY <1>2, <1>9 DEF Listens, HasHandle, Idle
  <2>2. session[x].chan \in States
    BY <1>2, <1>9, <2>1, StateKnown DEF Listens, HasHandle
  <2> QED BY <1>2, <1>7, <1>8, <1>9, <2>1, <2>2, Bystander DEF ViewsAgree
<1> QED BY <1>6, <1>9 DEF ViewsAgree

(* Taking the lock and releasing it, whoever rejoins. *)
LEMMA LeaveLocks ==
    ASSUME IInv, GuardHeld, NEW l \in Leavers, Leave(l) \/ AnnounceLeft(l)
    PROVE  GuardHeld'
<1> DEFINE s == leaver[l].chan
<1>1. guard \in [States -> Leavers \cup {None}] /\ leaver \in [Leavers -> LeaveTasks]
  BY DEF IInv, TypeOK
<1>2. CASE Leave(l)
  <2>1. PICK a \in {"closing", "announce"} : leaver' = [leaver EXCEPT ![l].at = a]
    BY <1>2 DEF Leave
  <2>2. /\ leaver'[l].at = a /\ leaver'[l].chan = s
        /\ \A m \in Leavers : m # l => leaver'[m] = leaver[m]
    BY <1>1, <2>1 DEF LeaveTasks
  <2>3. guard' = [guard EXCEPT ![s] = l] /\ \A t \in States : guard[t] # l
    BY <1>2, NoneIsNobody DEF Leave, GuardHeld
  <2> QED BY <1>1, <2>2, <2>3 DEF GuardHeld
<1>3. CASE AnnounceLeft(l)
  <2>1. \A t \in States : t # s => guard[t] # l
    BY NoneIsNobody DEF GuardHeld
  <2>2. guard' = [guard EXCEPT ![s] = None] /\ \A m \in Leavers : m # l => leaver'[m] = leaver[m]
    BY <1>1, <1>3 DEF AnnounceLeft
  <2> QED BY <1>1, <2>1, <2>2 DEF GuardHeld
<1> QED BY <1>2, <1>3

(* The task that leaves takes the lock and the client off the list: it is no
   longer present, and leaving. *)
LEMMA LeaveViews ==
    ASSUME IInv, IInv', ~MayRejoin, GuardHeld, LeaversGone, ViewsAgree,
           NEW l \in Leavers, Leave(l)
    PROVE  ViewsAgree' /\ GuardHeld' /\ LeaversGone'
<1> DEFINE s == leaver[l].chan
           k == leaver[l].client
<1>1. /\ s \in States /\ k \in Clients /\ guard[s] = None /\ session' = session
      /\ guard' = [guard EXCEPT ![s] = l]
      /\ present' = [present EXCEPT ![s] = @ \ {k}]
      /\ k \in present[s]
      /\ leaver[l].at = "woken"
  BY DEF Leave, IInv, TypeOK, LeaveTasks, TasksNamed, SharedState, LeaversListed
<1>2. PICK a \in {"closing", "announce"} : leaver' = [leaver EXCEPT ![l].at = a]
  BY DEF Leave
<1>3. /\ leaver'[l].at = a /\ leaver'[l].chan = s /\ leaver'[l].client = k
      /\ \A m \in Leavers : m # l => leaver'[m] = leaver[m]
  BY <1>2 DEF IInv, TypeOK, LeaveTasks
<1>4. /\ guard \in [States -> Leavers \cup {None}]
      /\ present \in [States -> SUBSET Clients]
  BY DEF IInv, TypeOK
<1>5. GuardHeld'
  BY LeaveLocks
<1>6. LeaversGone'
  BY <1>1, <1>3, <1>4 DEF LeaversGone, IInv, TypeOK, LeaveTasks, TasksNamed
<1>7. ASSUME NEW t \in States, NEW d \in Clients
      PROVE  d \in Counted(t)' <=> d \in Counted(t)
  <2>1. /\ d \in Leaving(t) <=> guard[t] # None /\ leaver[guard[t]].client = d
        /\ d \in Leaving(t)' <=> guard'[t] # None /\ leaver'[guard'[t]].client = d
    BY <1>5, <1>7, LeavingIs, LeavingNext
  <2>2. CASE t = s
    BY <1>1, <1>3, <1>4, <2>1, <2>2, NoneIsNobody DEF Counted
  <2>3. CASE t # s
    <3>1. guard'[t] = guard[t] /\ present'[t] = present[t] /\ guard[t] # l
      BY <1>1, <1>4, <2>3, NoneIsNobody DEF GuardHeld
    <3> QED BY <1>3, <1>4, <2>1, <3>1 DEF Counted
  <2> QED BY <2>2, <2>3
<1>8. \A t : Unannounced(t)' = Unannounced(t)
  BY <1>1 DEF Unannounced, At
<1>9. ASSUME NEW x \in Clients, NEW d \in Clients \ {x}, Listens(x)'
      PROVE  Fits(x, d)'
  <2>1. session[x].chan \in States
    BY <1>1, <1>9, StateKnown DEF Listens, HasHandle
  <2> QED BY <1>1, <1>7, <1>8, <1>9, <2>1, Bystander DEF ViewsAgree
<1> QED BY <1>5, <1>6, <1>9 DEF ViewsAgree

(* The channel leaves the map. *)
LEMMA CloseChannelViews ==
    ASSUME IInv, NEW l \in Leavers, CloseChannel(l)
    PROVE  /\ GuardHeld => GuardHeld'
           /\ LeaversGone => LeaversGone'
           /\ ViewsAgree => ViewsAgree'
<1>1. /\ leaver' = [leaver EXCEPT ![l].at = "announce"] /\ leaver[l].at = "closing"
      /\ UNCHANGED <<present, guard, session>>
      /\ guard \in [States -> Leavers \cup {None}]
  BY DEF CloseChannel, IInv, TypeOK
<1>2. /\ \A m \in Leavers : leaver'[m].client = leaver[m].client /\ leaver'[m].chan = leaver[m].chan
      /\ \A m \in Leavers : m # l => leaver'[m] = leaver[m]
      /\ leaver'[l].at = "announce"
  BY <1>1 DEF IInv, TypeOK, LeaveTasks
<1>3. (GuardHeld => GuardHeld') /\ (LeaversGone => LeaversGone')
  <2>1. GuardHeld => GuardHeld'
    BY <1>1, <1>2 DEF GuardHeld
  <2>2. LeaversGone => LeaversGone'
    BY <1>1, <1>2 DEF LeaversGone
  <2> QED BY <2>1, <2>2
<1>4. ASSUME NEW s PROVE Counted(s)' = Counted(s) /\ Unannounced(s)' = Unannounced(s)
  <2>1. Leaving(s)' = Leaving(s)
    <3>1. {m \in Leavers : leaver'[m].chan = s /\ guard'[s] = m}
            = {m \in Leavers : leaver[m].chan = s /\ guard[s] = m}
      BY <1>1, <1>2
    <3> QED BY <1>2, <3>1 DEF Leaving
  <2> QED BY <1>1, <2>1 DEF Counted, Unannounced, At
<1>5. ASSUME ViewsAgree, NEW x \in Clients, NEW d \in Clients \ {x}, Listens(x)'
      PROVE  Fits(x, d)'
  BY <1>1, <1>4, <1>5, Bystander DEF ViewsAgree
<1> QED BY <1>3, <1>5 DEF ViewsAgree

(* All subscribers hear of the leave, and the lock is released. *)
LEMMA AnnounceLeftViews ==
    ASSUME IInv, IInv', ~MayRejoin, GuardHeld, LeaversGone, ViewsAgree,
           NEW l \in Leavers, AnnounceLeft(l)
    PROVE  ViewsAgree' /\ GuardHeld' /\ LeaversGone'
<1> DEFINE s == leaver[l].chan
           k == leaver[l].client
<1>1. /\ session \in [Clients -> Sessions]
      /\ s \in States /\ k \in Clients /\ guard[s] = l /\ leaver[l].at = "announce"
      /\ session' = Broadcast(session, Left(k), Subscribers(s))
      /\ guard' = [guard EXCEPT ![s] = None]
      /\ leaver' = [leaver EXCEPT ![l] = NoTask]
      /\ UNCHANGED present
      /\ k \notin present[s]
  BY DEF AnnounceLeft, IInv, TypeOK, LeaveTasks, TasksNamed, LockHeld, LeaversGone
<1>2. /\ guard \in [States -> Leavers \cup {None}]
      /\ leaver'[l] = NoTask
      /\ \A m \in Leavers : m # l => leaver'[m] = leaver[m]
      /\ guard'[s] = None
      /\ \A t \in States : t # s => guard'[t] = guard[t] /\ guard[t] # l
  <2>1. \A t \in States : t # s => guard[t] # l
    BY NoneIsNobody DEF GuardHeld
  <2> QED BY <1>1, <2>1 DEF IInv, TypeOK
<1>3. GuardHeld' /\ LeaversGone'
  <2>1. GuardHeld'
    BY LeaveLocks
  <2>2. LeaversGone'
    BY <1>1, <1>2 DEF LeaversGone, NoTask
  <2> QED BY <2>1, <2>2
<1>4. \A x \in Clients : /\ session'[x].at = session[x].at
                         /\ session'[x].chan = session[x].chan
                         /\ x \notin Subscribers(s) => session'[x] = session[x]
                         /\ x \in Subscribers(s) => session'[x] = Push(session[x], Left(k))
  BY <1>1, BroadcastType, EventType DEF IInv, Broadcast
<1>5. \A t : Unannounced(t)' = Unannounced(t)
  BY <1>4 DEF Unannounced, At
<1>6. ASSUME NEW t \in States, NEW d \in Clients
      PROVE  d \in Counted(t)' <=> d \in Counted(t) /\ (t = s => d # k)
  <2>1. /\ d \in Leaving(t) <=> guard[t] # None /\ leaver[guard[t]].client = d
        /\ d \in Leaving(t)' <=> guard'[t] # None /\ leaver'[guard'[t]].client = d
    BY <1>3, <1>6, LeavingIs, LeavingNext
  <2>2. CASE t = s
    BY <1>1, <1>2, <2>1, <2>2, NoneIsNobody DEF Counted
  <2>3. CASE t # s
    BY <1>1, <1>2, <2>1, <2>3 DEF Counted
  <2> QED BY <2>2, <2>3
<1>7. ASSUME NEW x \in Clients, NEW d \in Clients \ {x}, Listens(x)'
      PROVE  Fits(x, d)'
  <2>1. session[x].chan \in States /\ HasHandle(x)
    BY <1>4, <1>7, StateKnown DEF Listens, HasHandle
  <2>2. CASE x \notin Subscribers(s)
    <3>1. session'[x] = session[x] /\ session[x].chan # s
      BY <1>4, <2>1, <2>2 DEF Subscribers
    <3> QED BY <1>5, <1>6, <1>7, <2>1, <3>1, Bystander DEF ViewsAgree
  <2>3. CASE x \in Subscribers(s)
    <3>1. session'[x] = Push(session[x], Left(k)) /\ session[x] \in Sessions
      BY <1>1, <1>4, <2>3
    <3>2. /\ session'[x].at = session[x].at /\ session'[x].chan = s
          /\ session[x].chan = s /\ session'[x].view = session[x].view
          /\ session'[x].queue = Append(session[x].queue, Left(k))
          /\ session[x].queue \in Seq(Events)
          /\ Listens(x)
      BY <1>7, <2>1, <2>3, <3>1, PushAdds DEF Listens, Subscribers, Sessions
    <3>3. /\ Fewest(x)' = Fewest(x) /\ Most(x)' = Most(x)
          /\ \A view : d \in After(view, Append(session[x].queue, Left(k))) <=>
                          d # k /\ d \in After(view, session[x].queue)
      <4>1. Fewest(x)' = Fewest(x) /\ Most(x)' = Most(x)
        BY <3>2 DEF Fewest, Most, At
      <4>2. \A view : d \in After(view, Append(session[x].queue, Left(k))) <=>
                          d # k /\ d \in After(view, session[x].queue)
        BY <1>1, <3>2, AfterAppend
      <4> QED BY <4>1, <4>2
    <3>4. Fits(x, d)
      BY <3>2 DEF ViewsAgree
    <3>5. PICK t \in States : t = s
      BY <1>1
    <3>6. d \in Counted(t)' <=> d \in Counted(t) /\ d # k
      BY <1>6, <3>5
    <3>7. session[x].chan = t /\ session'[x].chan = t
      BY <3>2, <3>5
    <3> HIDE DEF s, k
    <3> QED BY <1>5, <3>2, <3>3, <3>4, <3>6, <3>7 DEF Fits
  <2> QED BY <2>2, <2>3
<1> QED BY <1>3, <1>7 DEF ViewsAgree

(* Every step keeps the stronger invariant. *)
LEMMA InitWatch == Init => Watch
<1> SUFFICES ASSUME Init PROVE Watch
  OBVIOUS
<1>1. GuardHeld /\ LeaversGone /\ ViewsAgree
  BY DEF Init, GuardHeld, LeaversGone, ViewsAgree, Listens, HasHandle, NoTask, Idle
<1> QED BY <1>1, InitIInv DEF Watch

(* Only the tasks that leave take the lock, and nobody joins meanwhile whom
   one of them takes off the list. *)
LEMMA LockSteps ==
    ASSUME IInv, NEW c \in Clients, Get(c) \/ SessionStep(c)
    PROVE  /\ GuardHeld => GuardHeld'
           /\ ~MayRejoin /\ LeaversGone => LeaversGone'
<1>1. UNCHANGED <<guard, leaver>>
  BY DEF Get, SessionStep, InitChannel, OpenConnection, ReassignVoice, Insert, GiveUp,
         Join, AnnounceJoined, ListMembers, Ready, ReceiveEvent
<1>2. ASSUME ~MayRejoin, NEW l \in Leavers, leaver[l].at # "none"
      PROVE  \A s \in States : leaver[l].client \in present'[s] => leaver[l].client \in present[s]
  <2>1. present \in [States -> SUBSET Clients] /\ session[leaver[l].client].at = "idle"
    BY <1>2 DEF IInv, TypeOK, SharedState, OneLeaveEach
  <2>2. CASE Join(c)
    <3>1. leaver[l].client # c
      BY <2>1, <2>2 DEF Join, At
    <3> QED BY <2>1, <2>2, <3>1 DEF Join
  <2>3. CASE Insert(c)
    BY <2>1, <2>3 DEF Insert
  <2>4. CASE UNCHANGED present
    BY <2>4
  <2> QED BY <2>2, <2>3, <2>4
          DEF Get, SessionStep, InitChannel, OpenConnection, ReassignVoice, GiveUp,
              AnnounceJoined, ListMembers, Ready, ReceiveEvent
<1>3. GuardHeld => GuardHeld'
  BY <1>1 DEF GuardHeld
<1>4. \A l \in Leavers : leaver[l].at \in {"closing", "announce"} => leaver[l].chan \in States
  BY DEF IInv, TypeOK, TasksNamed, LeaveTasks
<1>5. ASSUME ~MayRejoin, LeaversGone PROVE LeaversGone'
  BY <1>1, <1>2, <1>4, <1>5 DEF LeaversGone
<1> QED BY <1>3, <1>5

(* Every step keeps the stronger invariant. *)
LEMMA NextWatch == Watch /\ [Next]_vars => Watch'
<1> SUFFICES ASSUME Watch, [Next]_vars PROVE Watch'
  OBVIOUS
<1>1. IInv /\ IInv' /\ GuardHeld
  BY NextIInv DEF Watch
<1>2. CASE UNCHANGED vars
  <2>1. GuardHeld' /\ (LeaversGone => LeaversGone')
    BY <1>1, <1>2 DEF vars, GuardHeld, LeaversGone
  <2>2. ViewsAgree => ViewsAgree'
    <3>1. ASSUME ViewsAgree, NEW c \in Clients, NEW d \in Clients \ {c}, Listens(c)'
          PROVE  Fits(c, d)'
      <4>1. \A s : Counted(s)' = Counted(s) /\ Unannounced(s)' = Unannounced(s)
        BY <1>2 DEF vars, Counted, Leaving, Unannounced, At
      <4>2. session'[c] = session[c]
        BY <1>2 DEF vars
      <4> QED BY <3>1, <4>1, <4>2, Bystander DEF ViewsAgree
    <3> QED BY <3>1 DEF ViewsAgree
  <2> QED BY <1>1, <2>1, <2>2 DEF Watch
<1>3. ASSUME NEW c \in Clients, Get(c) \/ SessionStep(c)
      PROVE  Watch'
  <2>1. ASSUME ~MayRejoin, ViewsAgree PROVE ViewsAgree'
    BY <1>1, <1>3, <2>1, QuietViews, InsertViews, JoinViews, AnnounceJoinedViews,
       ListMembersViews, ReceiveEventViews
       DEF SessionStep, InitChannel, ReassignVoice, At
  <2> QED BY <1>1, <1>3, <2>1, LockSteps DEF Watch
<1>4. ASSUME NEW c \in Clients, DropHandle(c)
      PROVE  Watch'
  <2>1. LeaversGone => LeaversGone'
    BY <1>1, <1>4 DEF LeaversGone, DropHandle, IInv, TypeOK
  <2> QED BY <1>1, <1>4, <2>1, DropHandleViews DEF Watch
<1>5. ASSUME NEW l \in Leavers, LeaveStep(l)
      PROVE  Watch'
  <2>1. CASE CloseChannel(l)
    BY <1>1, <2>1, CloseChannelViews DEF Watch
  <2>2. CASE Leave(l) \/ AnnounceLeft(l)
    <3>1. ASSUME ~MayRejoin, LeaversGone, ViewsAgree PROVE ViewsAgree' /\ LeaversGone'
      BY <1>1, <2>2, <3>1, LeaveViews, AnnounceLeftViews
    <3> QED BY <1>1, <2>2, <3>1, LeaveLocks DEF Watch
  <2> QED BY <1>5, <2>1, <2>2 DEF LeaveStep
<1> QED BY <1>2, <1>3, <1>4, <1>5 DEF Next

(* The stronger invariant holds throughout. *)
THEOREM Watched == Spec => []Watch
BY InitWatch, NextWatch, PTL DEF Spec

(* Unless clients rejoin before their last leave is done, what a subscriber
   that keeps up is shown once it has received its events are the others that
   are in the channel: no join or leave of another is lost between the
   insertion and the announcement, or between the subscription and the reading
   of the list (LocalChannelInitializer::init, LocalChannelEvents::leave).   *)
THEOREM ViewsAreExact == Spec => []ViewExact
<1>1. ASSUME IInv, ViewsAgree PROVE ViewExact
  <2>1. ASSUME NEW c \in Clients, session[c].at \in {"setup", "in"}, ~session[c].lagged,
               NEW d \in Clients \ (Unannounced(session[c].chan) \cup {c})
        PROVE  d \in Shown(c) <=> d \in Counted(session[c].chan)
    <3>1. Fits(c, d) /\ Fewest(c) = session[c].view /\ Most(c) = session[c].view
      BY <1>1, <2>1 DEF ViewsAgree, Listens, HasHandle, Fewest, Most, At
    <3> QED BY <2>1, <3>1 DEF Fits, Shown
  <2>2. ASSUME NEW c \in Clients, session[c].at \in {"setup", "in"}
        PROVE  Shown(c) \subseteq Clients /\ Counted(session[c].chan) \subseteq Clients
    <3>1. session[c].chan \in States
      BY <1>1, <2>2, StateKnown
    <3>2. \A l \in Leavers : guard[session[c].chan] = l /\ leaver[l].chan = session[c].chan
                              => leaver[l].client \in Clients
      BY <1>1, <3>1, NoneIsNobody DEF IInv, TypeOK, TasksNamed, LeaveTasks, NoTask
    <3>3. Leaving(session[c].chan) \subseteq Clients
      BY <3>2 DEF Leaving
    <3>4. present[session[c].chan] \subseteq Clients
      BY <1>1, <3>1 DEF IInv, TypeOK
    <3> QED BY <3>3, <3>4 DEF Shown, After, Counted
  <2> QED BY <2>1, <2>2 DEF ViewExact, Counted
<1>2. Watch => ViewExact
  BY <1>1 DEF Watch, ViewExact
<1> QED BY <1>2, Watched, PTL
=============================================================================
