------------------------ MODULE SharedPresenceProofs ------------------------
(***************************************************************************)
(* Proofs about SharedPresence, for any number of clients, gateways,       *)
(* states and leave tasks, any capacity of the broadcast, with or without  *)
(* failures and early rejoins.                                             *)
(***************************************************************************)
EXTENDS SharedPresence, TLAPS

-----------------------------------------------------------------------------
(* Types *)

Bounded(ses) == ses \in Sessions /\ Len(ses.queue) <= EventCap

(* Joins and leaves are events. *)
LEMMA EventType == \A c \in Clients : Joined(c) \in Events /\ Left(c) \in Events
BY DEF Events

(* An idle session has no state. *)
LEMMA IdleType == Bounded(Idle) /\ Idle.at = "idle" /\ Idle.chan = None
BY CapsPositive DEF Bounded, Idle, Sessions

(* A session with another program point, state, queue or view is well typed. *)
Points == {"idle", "open", "store", "publish", "list", "in"}

Moved(ses, a) == [ses EXCEPT !.at = a]
Lent(ses, a, s) == [ses EXCEPT !.at = a, !.chan = s]
Published(ses, a, gone) == [ses EXCEPT !.at = a, !.ghosts = gone]
Told(ses, a, v, cov, gone) ==
    [ses EXCEPT !.at = a, !.view = v, !.covered = cov, !.ghosts = gone]
Updated(ses, q, v) == [ses EXCEPT !.queue = q, !.view = v]

(* A session moved on *)
LEMMA MovedType ==
    ASSUME NEW ses, Bounded(ses), NEW a \in Points
    PROVE  Bounded(Moved(ses, a)) /\ Moved(ses, a).at = a /\ Moved(ses, a).chan = ses.chan
BY DEF Bounded, Sessions, Points, Moved

(* A session given a state *)
LEMMA LentType ==
    ASSUME NEW ses, Bounded(ses), NEW a \in Points, NEW s \in States
    PROVE  Bounded(Lent(ses, a, s)) /\ Lent(ses, a, s).at = a /\ Lent(ses, a, s).chan = s
BY DEF Bounded, Sessions, Points, Lent

(* A session that has announced itself *)
LEMMA PublishedType ==
    ASSUME NEW ses, Bounded(ses), NEW a \in Points, NEW gone \in SUBSET Clients
    PROVE  /\ Bounded(Published(ses, a, gone))
           /\ Published(ses, a, gone).at = a /\ Published(ses, a, gone).chan = ses.chan
BY DEF Bounded, Sessions, Points, Published

(* A session with another view *)
LEMMA ToldType ==
    ASSUME NEW ses, Bounded(ses), NEW a \in Points, NEW v \in SUBSET Clients,
           NEW cov \in BOOLEAN, NEW gone \in SUBSET Clients
    PROVE  /\ Bounded(Told(ses, a, v, cov, gone))
           /\ Told(ses, a, v, cov, gone).at = a
           /\ Told(ses, a, v, cov, gone).chan = ses.chan
BY DEF Bounded, Sessions, Points, Told

(* A session that received an event *)
LEMMA UpdatedType ==
    ASSUME NEW ses, Bounded(ses), NEW q \in Seq(Events), Len(q) <= EventCap,
           NEW v \in SUBSET Clients
    PROVE  /\ Bounded(Updated(ses, q, v))
           /\ Updated(ses, q, v).at = ses.at /\ Updated(ses, q, v).chan = ses.chan
BY DEF Bounded, Sessions, Updated

(* Every session, one by one *)
LEMMA SessionsTyped ==
    ASSUME IInv
    PROVE  /\ session \in [Clients -> Sessions]
           /\ \A c \in Clients : Bounded(session[c])
BY DEF IInv, TypeOK, Bounded

(* A full subscriber takes an event too, and keeps within its capacity. *)
LEMMA PushType ==
    ASSUME NEW ses, Bounded(ses), NEW e \in Events
    PROVE  /\ Bounded(Push(ses, e))
           /\ Push(ses, e).at = ses.at /\ Push(ses, e).chan = ses.chan
<1> DEFINE long == Append(ses.queue, e)
           moved == Append(Tail(ses.queue), e)
<1>1. ses.queue \in Seq(Events) /\ Len(ses.queue) \in Nat /\ EventCap \in Nat \ {0}
  BY CapsPositive DEF Bounded, Sessions
<1>2. CASE Len(ses.queue) < EventCap
  <2>1. long \in Seq(Events) /\ Len(long) <= EventCap
    BY <1>1, <1>2
  <2> HIDE DEF long
  <2> QED BY <1>2, <2>1 DEF Push, Bounded, Sessions, long
<1>3. CASE ~(Len(ses.queue) < EventCap)
  <2>1. Len(ses.queue) > 0 /\ Len(ses.queue) <= EventCap
    BY <1>1, <1>3 DEF Bounded
  <2>2. Tail(ses.queue) \in Seq(Events) /\ Len(Tail(ses.queue)) = Len(ses.queue) - 1
    BY <1>1, <2>1
  <2>3. moved \in Seq(Events) /\ Len(moved) <= EventCap
    BY <1>1, <2>1, <2>2
  <2> HIDE DEF moved
  <2> QED BY <1>3, <2>3 DEF Push, Bounded, Sessions, moved
<1> QED BY <1>2, <1>3

(* A publication reaches pipes as an event. *)
LEMMA PublishType ==
    ASSUME IInv, NEW s, NEW e \in Events, Publish(s, e)
    PROVE  pipe' \in [States -> Seq(Events)]
<1>1. \A t \in States : Append(pipe[t], e) \in Seq(Events) /\ pipe[t] \in Seq(Events)
  BY DEF IInv, TypeOK
<1> QED BY <1>1 DEF Publish

-----------------------------------------------------------------------------
(* What the steps have in common *)

InHash == {"publish", "list", "in"}

(* The invariant as it concerns one client *)
LEMMA HashByClient ==
    HashAccounted <=>
        MayRejoin \/ \A c \in Clients :
            /\ session[c].at \in InHash => c \in members
            /\ c \in members => \/ session[c].at \in InHash
                                \/ \E l \in Leavers : leaver[l].client = c
                                \/ c \in stale
BY DEF HashAccounted, InHash, LeavesOf

(* Neither a session's point and state nor a leave changes. *)
LEMMA QuietKeeps ==
    ASSUME IInv, TypeOK',
           UNCHANGED <<entry, home, members, stale, leaver>>,
           \A c \in Clients : /\ session'[c].at = session[c].at
                              /\ session'[c].chan = session[c].chan
    PROVE  IInv'
<1>1. Placed'
  BY DEF IInv, Placed, At
<1>2. OneLeaveEach'
  BY DEF IInv, OneLeaveEach, LeavesOf, At
<1>3. HashAccounted'
  BY DEF IInv, HashAccounted, LeavesOf
<1> QED BY <1>1, <1>2, <1>3 DEF IInv

(* One client's session moves on, without leaving. *)
LEMMA SessionMoves ==
    ASSUME IInv, NEW c \in Clients, NEW ses, Bounded(ses),
           session' = [session EXCEPT ![c] = ses],
           UNCHANGED <<stale, leaver>>,
           members' \in {members, members \cup {c}},
           entry' \in [Gateways -> States \cup {None}],
           home' \in [States -> Gateways \cup {None}],
           local' \in [States -> SUBSET Clients],
           live' \subseteq States,
           source' \in [States -> {"none", "starting", "subscribed", "ended"}],
           pipe' \in [States -> Seq(Events)],
           \A s \in States : home[s] \in Gateways => home'[s] \in Gateways,
           \A g \in Gateways : entry'[g] # None => home'[entry'[g]] \in Gateways,
           ses.at = "idle" <=> ses.chan = None,
           ses.at # "idle" => home'[ses.chan] \in Gateways,
           MayRejoin \/ LeavesOf(c) = {} \/ ses.at = "idle",
           \/ MayRejoin
           \/ /\ ses.at \in InHash => c \in members'
              /\ c \in members' => \/ ses.at \in InHash
                                   \/ session[c].at \notin InHash /\ members' = members
    PROVE  IInv'
<1>1. \A d \in Clients : session'[d] = IF d = c THEN ses ELSE session[d]
  BY SessionsTyped
<1>2. TypeOK'
  <2>1. session' \in [Clients -> Sessions]
    BY SessionsTyped DEF Bounded
  <2>2. \A d \in Clients : Len(session'[d].queue) <= EventCap
    BY <1>1, SessionsTyped DEF Bounded
  <2>3. members' \subseteq Clients
    BY DEF IInv, TypeOK
  <2> QED BY <2>1, <2>2, <2>3 DEF IInv, TypeOK
<1>3. Placed'
  <2>1. \A d \in Clients : session[d].chan # None => session[d].chan \in States
    BY SessionsTyped DEF Bounded, Sessions
  <2>2. \A d \in Clients : /\ session'[d].at = "idle" <=> session'[d].chan = None
                           /\ session'[d].at # "idle" => home'[session'[d].chan] \in Gateways
    BY <1>1, <2>1 DEF IInv, Placed, At
  <2> QED BY <2>2 DEF IInv, Placed, At
<1>4. OneLeaveEach'
  BY <1>1 DEF IInv, OneLeaveEach, LeavesOf, At
<1>5. HashAccounted'
  BY <1>1, HashByClient DEF IInv, HashAccounted, InHash, LeavesOf
<1> QED BY <1>2, <1>3, <1>4, <1>5 DEF IInv

(* No state, source, event or member changes. *)
LEMMA OnlySessionMoves ==
    ASSUME IInv, NEW c \in Clients, NEW ses, Bounded(ses),
           session' = [session EXCEPT ![c] = ses],
           UNCHANGED <<states, source, redis, stale, leaver>>,
           \/ ses.at = "idle" /\ ses.chan = None /\ session[c].at \notin InHash
           \/ /\ ses.at # "idle" /\ ses.chan = session[c].chan /\ ~At(c, "idle")
              /\ ses.at \in InHash <=> session[c].at \in InHash
    PROVE  IInv'
<1>1. /\ entry' \in [Gateways -> States \cup {None}]
      /\ home' \in [States -> Gateways \cup {None}]
      /\ local' \in [States -> SUBSET Clients]
      /\ live' \subseteq States
      /\ source' \in [States -> {"none", "starting", "subscribed", "ended"}]
      /\ pipe' \in [States -> Seq(Events)]
  BY DEF IInv, TypeOK, states, redis
<1>2. \A g \in Gateways : entry[g] # None => home[entry[g]] \in Gateways
  BY DEF IInv, Placed
<1>3. \/ ses.at = "idle" /\ ses.chan = None
      \/ ses.at # "idle" /\ ses.chan # None /\ home[ses.chan] \in Gateways
  BY DEF IInv, Placed, At
<1>4. MayRejoin \/ LeavesOf(c) = {} \/ ses.at = "idle"
  BY DEF IInv, OneLeaveEach, At
<1>5. \/ MayRejoin
      \/ /\ ses.at \in InHash => c \in members
         /\ c \in members => ses.at \in InHash \/ session[c].at \notin InHash
  BY <1>3, HashByClient DEF IInv, InHash
<1> QED BY <1>1, <1>2, <1>3, <1>4, <1>5, SessionMoves DEF states, redis

-----------------------------------------------------------------------------
(* Joining *)

(* A client that looks up a state has the one that the map then leads to. *)
LEMMA LookupKeeps ==
    ASSUME IInv, NEW c \in Clients, NEW g \in Gateways, Lookup(c, g),
           session[c].at \in {"idle", "open"}, MayRejoin \/ LeavesOf(c) = {}
    PROVE  IInv'
<1>1. PICK s \in States :
        /\ IF entry[g] # None
           THEN s = entry[g] /\ UNCHANGED <<states, source, pipe>>
           ELSE /\ Unreachable(s)
                /\ entry' = [entry EXCEPT ![g] = s]
                /\ home' = [home EXCEPT ![s] = g]
                /\ local' = [local EXCEPT ![s] = {}]
                /\ live' = live \cup {s}
                /\ source' = [source EXCEPT ![s] = "starting"]
                /\ pipe' = [pipe EXCEPT ![s] = <<>>]
        /\ session' = [session EXCEPT ![c].at = "open", ![c].chan = s]
        /\ UNCHANGED <<members, stale, leaver>>
  BY DEF Lookup
<1> DEFINE ses == Lent(session[c], "open", s)
<1>2. session' = [session EXCEPT ![c] = ses]
  BY <1>1, SessionsTyped DEF Lent
<1>3. Bounded(ses) /\ ses.at = "open" /\ ses.chan = s /\ s # None
  BY SessionsTyped, NoneIsNobody, LentType DEF Points
<1>4. /\ entry' \in [Gateways -> States \cup {None}]
      /\ home' \in [States -> Gateways \cup {None}]
      /\ local' \in [States -> SUBSET Clients]
      /\ live' \subseteq States
      /\ source' \in [States -> {"none", "starting", "subscribed", "ended"}]
      /\ pipe' \in [States -> Seq(Events)]
  <2>1. CASE entry[g] # None
    BY <1>1, <2>1 DEF IInv, TypeOK, states
  <2>2. CASE entry[g] = None
    <3>1. /\ entry' = [entry EXCEPT ![g] = s] /\ home' = [home EXCEPT ![s] = g]
          /\ local' = [local EXCEPT ![s] = {}] /\ live' = live \cup {s}
      BY <1>1, <2>2
    <3>4. /\ entry' \in [Gateways -> States \cup {None}]
          /\ home' \in [States -> Gateways \cup {None}]
      BY <3>1 DEF IInv, TypeOK
    <3>5. local' \in [States -> SUBSET Clients]
      <4>1. {} \in SUBSET Clients /\ local \in [States -> SUBSET Clients]
        BY DEF IInv, TypeOK
      <4> QED BY <3>1, <4>1
    <3>6. live' \subseteq States
      BY <3>1 DEF IInv, TypeOK
    <3>2. source' \in [States -> {"none", "starting", "subscribed", "ended"}]
      BY <1>1, <2>2 DEF IInv, TypeOK
    <3>3. pipe' \in [States -> Seq(Events)]
      <4>1. <<>> \in Seq(Events) /\ pipe \in [States -> Seq(Events)]
        BY DEF IInv, TypeOK
      <4> QED BY <1>1, <2>2, <4>1
    <3> QED BY <3>2, <3>3, <3>4, <3>5, <3>6
  <2> QED BY <2>1, <2>2
<1>5. /\ \A t \in States : home[t] \in Gateways => home'[t] \in Gateways
      /\ \A h \in Gateways : entry'[h] # None => home'[entry'[h]] \in Gateways
      /\ home'[s] \in Gateways
  <2>1. CASE entry[g] # None
    BY <1>1, <2>1 DEF IInv, Placed, states
  <2>2. CASE entry[g] = None
    <3>1. \A t \in States : home'[t] = IF t = s THEN g ELSE home[t]
      BY <1>1, <2>2 DEF IInv, TypeOK
    <3>2. \A h \in Gateways : entry'[h] = IF h = g THEN s ELSE entry[h]
      BY <1>1, <2>2 DEF IInv, TypeOK
    <3>3. \A h \in Gateways : entry[h] \in States \cup {None}
      BY DEF IInv, TypeOK
    <3> QED BY <3>1, <3>2, <3>3 DEF IInv, Placed
  <2> QED BY <2>1, <2>2
<1>6. ses.at \notin InHash /\ session[c].at \notin InHash /\ ses.at # "idle"
  BY <1>3 DEF InHash
<1> HIDE DEF ses
<1> QED BY <1>1, <1>2, <1>3, <1>4, <1>5, <1>6, SessionMoves

(* Getting the state, or a new voice host, changes no membership. *)
LEMMA GetKeeps ==
    ASSUME IInv, NEW c \in Clients, Get(c) \/ ReassignVoice(c)
    PROVE  IInv'
<1>1. CASE Get(c)
  BY <1>1, LookupKeeps DEF Get, At
<1>2. CASE ReassignVoice(c)
  BY <1>2, LookupKeeps DEF ReassignVoice, IInv, Placed, OneLeaveEach, At
<1> QED BY <1>1, <1>2

(* A session that gives up before joining has nothing to leave. *)
LEMMA GiveUpKeeps ==
    ASSUME IInv, NEW c \in Clients, GiveUp(c)
    PROVE  IInv'
BY IdleType, OnlySessionMoves DEF GiveUp, InHash, At

(* The join lists the client at a state that is live, and not yet in the hash. *)
LEMMA JoinKeeps ==
    ASSUME IInv, NEW c \in Clients, Join(c)
    PROVE  IInv'
<1> DEFINE s == session[c].chan
<1>1. At(c, "open") /\ s \in States /\ home[s] \in Gateways /\ s # None
  BY SessionsTyped, NoneIsNobody DEF Join, IInv, Placed, At, Bounded, Sessions
<1>2. CASE s \in live
  <2> DEFINE ses == Moved(session[c], "store")
  <2>1. session' = [session EXCEPT ![c] = ses] /\ local' = [local EXCEPT ![s] = @ \cup {c}]
        /\ UNCHANGED <<entry, home, live, source, redis, stale, leaver>>
    BY <1>2, SessionsTyped DEF Join, Moved
  <2>2. Bounded(ses) /\ ses.at = "store" /\ ses.chan = s
    BY SessionsTyped, MovedType DEF Points
  <2>3. /\ entry' \in [Gateways -> States \cup {None}]
        /\ home' \in [States -> Gateways \cup {None}]
        /\ local' \in [States -> SUBSET Clients]
        /\ live' \subseteq States
        /\ source' \in [States -> {"none", "starting", "subscribed", "ended"}]
        /\ pipe' \in [States -> Seq(Events)]
    BY <2>1 DEF IInv, TypeOK, redis
  <2>4. MayRejoin \/ LeavesOf(c) = {}
    BY <1>1 DEF IInv, OneLeaveEach, At
  <2>5. /\ \A g \in Gateways : entry[g] # None => home[entry[g]] \in Gateways
        /\ ses.at \notin InHash /\ session[c].at \notin InHash
    BY <1>1, <2>2 DEF IInv, Placed, InHash, At
  <2> HIDE DEF ses
  <2> QED BY <1>1, <2>1, <2>2, <2>3, <2>4, <2>5, SessionMoves DEF redis
<1>3. CASE s \notin live
  BY <1>1, <1>3, IdleType, OnlySessionMoves DEF Join, InHash, At, states
<1> QED BY <1>2, <1>3

(* Storing puts the client of a joining session into the hash. *)
LEMMA StoreKeeps ==
    ASSUME IInv, NEW c \in Clients, Store(c)
    PROVE  IInv'
<1> DEFINE ses == Moved(session[c], "publish")
<1>1. /\ At(c, "store") /\ session' = [session EXCEPT ![c] = ses]
      /\ members' = members \cup {c}
      /\ UNCHANGED <<entry, home, local, live, source, pipe, stale, leaver>>
  BY SessionsTyped DEF Store, Moved, states
<1>2. Bounded(ses) /\ ses.at = "publish" /\ ses.chan = session[c].chan
  BY SessionsTyped, MovedType DEF Points
<1>3. /\ entry' \in [Gateways -> States \cup {None}]
      /\ home' \in [States -> Gateways \cup {None}]
      /\ local' \in [States -> SUBSET Clients]
      /\ live' \subseteq States
      /\ source' \in [States -> {"none", "starting", "subscribed", "ended"}]
      /\ pipe' \in [States -> Seq(Events)]
  BY <1>1 DEF IInv, TypeOK
<1>4. MayRejoin \/ LeavesOf(c) = {}
  BY <1>1 DEF IInv, OneLeaveEach, At
<1>5. /\ ses.chan # None /\ home[ses.chan] \in Gateways
      /\ \A g \in Gateways : entry[g] # None => home[entry[g]] \in Gateways
      /\ ses.at \in InHash /\ ses.at # "idle"
  BY <1>1, <1>2 DEF IInv, Placed, InHash, At
<1> HIDE DEF ses
<1> QED BY <1>1, <1>2, <1>3, <1>4, <1>5, SessionMoves

(* The announcement takes its client off every list of ghosts, and what failed
   to be deleted before is stored anew.                                       *)
LEMMA AnnounceJoinedKeeps ==
    ASSUME IInv, NEW c \in Clients, AnnounceJoined(c)
    PROVE  IInv'
<1>0. ASSUME NEW d \in Clients
      PROVE  /\ session'[d] = Published(session[d], IF d = c THEN "list" ELSE session[d].at,
                                         session[d].ghosts \ {c})
             /\ session[d].ghosts \ {c} \in SUBSET Clients /\ session[d].at \in Points
  BY SessionsTyped DEF AnnounceJoined, Published, Bounded, Sessions, Points
<1>1. \A d \in Clients :
        /\ Bounded(session'[d])
        /\ session'[d].at = IF d = c THEN "list" ELSE session[d].at
        /\ session'[d].chan = session[d].chan
  <2> SUFFICES ASSUME NEW d \in Clients
               PROVE  /\ Bounded(session'[d])
                      /\ session'[d].at = IF d = c THEN "list" ELSE session[d].at
                      /\ session'[d].chan = session[d].chan
    OBVIOUS
  <2> DEFINE a == IF d = c THEN "list" ELSE session[d].at
             gone == session[d].ghosts \ {c}
  <2>1. session'[d] = Published(session[d], a, gone)
    BY <1>0
  <2>2. a \in Points /\ gone \in SUBSET Clients
    BY <1>0 DEF Points
  <2>3. Bounded(session[d])
    BY SessionsTyped
  <2> HIDE DEF gone
  <2>4. /\ Bounded(Published(session[d], a, gone))
        /\ Published(session[d], a, gone).at = a
        /\ Published(session[d], a, gone).chan = session[d].chan
    <3> HIDE DEF a
    <3> QED BY <2>2, <2>3, PublishedType
  <2> QED BY <2>1, <2>4
<1>2. At(c, "publish") /\ stale' = stale \ {c}
      /\ UNCHANGED <<entry, home, local, live, source, members, leaver>>
  BY DEF AnnounceJoined, states
<1>3. pipe' \in [States -> Seq(Events)]
  BY PublishType, EventType DEF AnnounceJoined
<1>4. session' \in [Clients -> Sessions]
  BY <1>1 DEF AnnounceJoined, Bounded
<1>5. TypeOK'
  BY <1>1, <1>2, <1>3, <1>4 DEF IInv, TypeOK, Bounded
<1>6. Placed'
  BY <1>1, <1>2 DEF IInv, Placed, At
<1>7. OneLeaveEach'
  BY <1>1, <1>2 DEF IInv, OneLeaveEach, LeavesOf, At
<1>8. HashAccounted'
  BY <1>1, <1>2 DEF IInv, HashAccounted, LeavesOf, At
<1> QED BY <1>5, <1>6, <1>7, <1>8 DEF IInv

(* Listing changes only what the session knows. *)
LEMMA ListMembersKeeps ==
    ASSUME IInv, NEW c \in Clients, ListMembers(c)
    PROVE  IInv'
<1> DEFINE covered == (source[session[c].chan] = "subscribed")
           ses == Told(session[c], "in", members, covered, members \cap Departing)
<1>1. session' = [session EXCEPT ![c] = ses] /\ At(c, "list")
      /\ UNCHANGED <<states, source, redis, stale, leaver>>
  BY SessionsTyped DEF ListMembers, Told
<1>2. members \subseteq Clients /\ covered \in BOOLEAN
  BY DEF IInv, TypeOK
<1>3. Bounded(ses) /\ ses.at = "in" /\ ses.chan = session[c].chan
  <2> HIDE DEF covered
  <2>1. members \in SUBSET Clients /\ members \cap Departing \in SUBSET Clients
    BY <1>2
  <2> QED BY <1>2, <2>1, SessionsTyped, ToldType DEF Points
<1> HIDE DEF ses
<1> QED BY <1>1, <1>3, OnlySessionMoves DEF InHash, At

(* So does receiving an event. *)
LEMMA ReceiveEventKeeps ==
    ASSUME IInv, NEW c \in Clients, ReceiveEvent(c)
    PROVE  IInv'
<1> DEFINE q == session[c].queue
           view == Show(c, session[c].view, Head(q))
           ses == Updated(session[c], Tail(q), view)
<1>1. session' = [session EXCEPT ![c] = ses] /\ At(c, "in") /\ q # <<>>
      /\ UNCHANGED <<states, source, redis, stale, leaver>>
  BY SessionsTyped DEF ReceiveEvent, Updated
<1>2. q \in Seq(Events) /\ Len(q) <= EventCap /\ EventCap \in Nat
  BY SessionsTyped, CapsPositive DEF Bounded, Sessions
<1>3. Head(q) \in Events /\ Tail(q) \in Seq(Events) /\ Len(Tail(q)) <= EventCap
  BY <1>1, <1>2
<1>4. view \subseteq Clients
  BY <1>3, SessionsTyped DEF Show, Events, Joined, Left, Bounded, Sessions
<1>5. Bounded(ses) /\ ses.at = session[c].at /\ ses.chan = session[c].chan
  <2> HIDE DEF q, view
  <2>1. view \in SUBSET Clients
    BY <1>4
  <2> QED BY <1>3, <2>1, SessionsTyped, UpdatedType
<1> HIDE DEF ses
<1> QED BY <1>1, <1>5, OnlySessionMoves DEF InHash, At

(* Whoever drops its handle has a task that will leave for it. *)
LEMMA DropHandleKeeps ==
    ASSUME IInv, NEW c \in Clients, DropHandle(c)
    PROVE  IInv'
<1>1. HasHandle(c) /\ ~At(c, "idle")
  BY DEF DropHandle, HasHandle, At
<1>2. PICK l \in Leavers :
        /\ leaver[l] = NoTask
        /\ leaver' = [leaver EXCEPT ![l] =
              [at |-> "woken", client |-> c, chan |-> session[c].chan]]
  BY <1>1 DEF DropHandle, HasTask
<1>3. session' = [session EXCEPT ![c] = Idle]
      /\ UNCHANGED <<entry, home, local, live, source, pipe, members, stale>>
  BY DEF DropHandle, states, redis
<1>4. session[c].chan \in States
  BY <1>1, SessionsTyped, NoneIsNobody DEF IInv, Placed, Bounded, Sessions
<1>5. \A d \in Clients : session'[d] = IF d = c THEN Idle ELSE session[d]
  BY <1>3, SessionsTyped
<1>6. /\ leaver' \in [Leavers -> LeaveTasks]
      /\ leaver'[l].client = c /\ leaver'[l].chan \in States /\ leaver[l].client = None
      /\ \A k \in Leavers : k # l => leaver'[k] = leaver[k]
  BY <1>2, <1>4 DEF IInv, TypeOK, LeaveTasks, NoTask
<1>7. TypeOK'
  <2>1. /\ session' \in [Clients -> Sessions]
        /\ \A d \in Clients : Len(session'[d].queue) <= EventCap
    BY <1>3, <1>5, SessionsTyped, IdleType DEF Bounded
  <2> QED BY <1>3, <1>6, <2>1 DEF IInv, TypeOK
<1>8. Placed'
  BY <1>3, <1>5, <1>6, IdleType DEF IInv, Placed, At
<1>9. OneLeaveEach'
  BY <1>5, <1>6, IdleType DEF IInv, OneLeaveEach, LeavesOf, At
<1>10. HashAccounted'
  <2> SUFFICES ASSUME ~MayRejoin, NEW d \in Clients
               PROVE  /\ session'[d].at \in InHash => d \in members'
                      /\ d \in members' => \/ session'[d].at \in InHash
                                           \/ \E k \in Leavers : leaver'[k].client = d
                                           \/ d \in stale'
    BY DEF HashAccounted, InHash, LeavesOf
  <2>1. /\ session[d].at \in InHash => d \in members
        /\ d \in members => \/ session[d].at \in InHash
                            \/ \E k \in Leavers : leaver[k].client = d
                            \/ d \in stale
    BY HashByClient DEF IInv
  <2>2. CASE d = c
    BY <1>5, <1>6, <2>2, IdleType DEF InHash
  <2>3. CASE d # c
    <3>1. \A k \in Leavers : leaver[k].client = d => leaver'[k].client = d
      BY <1>6, NoneIsNobody
    <3> QED BY <1>3, <1>5, <2>1, <2>3, <3>1
  <2> QED BY <2>2, <2>3
<1> QED BY <1>7, <1>8, <1>9, <1>10 DEF IInv

-----------------------------------------------------------------------------
(* Leaving *)

(* A leave goes on to its next step, and has not deleted its client yet. *)
LEMMA LeaveMovesKeeps ==
    ASSUME IInv, NEW l \in Leavers, leaver[l].at # "none",
           NEW a \in {"woken", "publish", "delete"},
           leaver' = [leaver EXCEPT ![l].at = a],
           UNCHANGED <<home, source, members, stale, session>>,
           local' \in [States -> SUBSET Clients],
           live' \subseteq States,
           pipe' \in [States -> Seq(Events)],
           entry' \in [Gateways -> States \cup {None}],
           \A g \in Gateways : entry'[g] \in {entry[g], None}
    PROVE  IInv'
<1>1. /\ leaver' \in [Leavers -> LeaveTasks]
      /\ \A k \in Leavers : /\ leaver'[k].client = leaver[k].client
                            /\ leaver'[k].chan = leaver[k].chan
                            /\ leaver'[k].at # "none" => leaver[k].at # "none"
  BY DEF IInv, TypeOK, LeaveTasks
<1>2. TypeOK'
  BY <1>1 DEF IInv, TypeOK
<1>3. Placed'
  BY <1>1 DEF IInv, Placed, At
<1>4. OneLeaveEach'
  BY <1>1 DEF IInv, OneLeaveEach, LeavesOf, At
<1>5. HashAccounted'
  BY <1>1, HashByClient DEF IInv, HashAccounted, InHash, LeavesOf
<1> QED BY <1>2, <1>3, <1>4, <1>5 DEF IInv

(* Leaving the local list leaves the hash as it is. *)
LEMMA LeaveKeeps ==
    ASSUME IInv, NEW l \in Leavers, Leave(l)
    PROVE  IInv'
<1> DEFINE s == leaver[l].chan
           left == local[s] \ {leaver[l].client}
<1>1. leaver[l].at = "woken" /\ s \in States
  BY DEF Leave, IInv, Placed
<1>2. /\ local' = [local EXCEPT ![s] = left]
      /\ live' = IF left = {} THEN live \ {s} ELSE live \cup {s}
      /\ entry' = IF left = {} THEN [entry EXCEPT ![home[s]] = None] ELSE entry
      /\ leaver' = [leaver EXCEPT ![l].at = "publish"]
      /\ UNCHANGED <<home, source, members, pipe, stale, session>>
  BY DEF Leave, redis
<1>3. left \in SUBSET Clients
  BY <1>1 DEF IInv, TypeOK
<1> HIDE DEF left
<1>4. local' \in [States -> SUBSET Clients] /\ live' \subseteq States
  <2>1. local \in [States -> SUBSET Clients] /\ live \subseteq States
    BY DEF IInv, TypeOK
  <2> QED BY <1>1, <1>2, <1>3, <2>1
<1>5. /\ entry' \in [Gateways -> States \cup {None}]
      /\ \A g \in Gateways : entry'[g] \in {entry[g], None}
  BY <1>2 DEF IInv, TypeOK
<1>6. pipe' \in [States -> Seq(Events)]
  BY <1>2 DEF IInv, TypeOK
<1> QED BY <1>1, <1>2, <1>4, <1>5, <1>6, LeaveMovesKeeps

(* So does announcing it. *)
LEMMA AnnounceLeftKeeps ==
    ASSUME IInv, NEW l \in Leavers, AnnounceLeft(l)
    PROVE  IInv'
<1>1. leaver[l].at = "publish" /\ leaver[l].client \in Clients
  BY DEF AnnounceLeft, IInv, Placed
<1>2. pipe' \in [States -> Seq(Events)]
  BY <1>1, PublishType, EventType DEF AnnounceLeft
<1>3. /\ entry \in [Gateways -> States \cup {None}]
      /\ local \in [States -> SUBSET Clients] /\ live \subseteq States
  BY DEF IInv, TypeOK
<1> QED BY <1>1, <1>2, <1>3, LeaveMovesKeeps DEF AnnounceLeft, states

(* A leave that is over has deleted its client, or left it stale. *)
LEMMA LeaveEndsKeeps ==
    ASSUME IInv, NEW l \in Leavers, Delete(l) \/ LeaveFails(l)
    PROVE  IInv'
<1> DEFINE c == leaver[l].client
<1>1. leaver[l].at # "none" /\ c \in Clients
  BY DEF Delete, LeaveFails, IInv, Placed
<1>2. /\ leaver' = [leaver EXCEPT ![l] = NoTask]
      /\ UNCHANGED <<entry, home, local, live, source, pipe, session>>
      /\ \/ members' = members \ {c} /\ stale' = stale
         \/ members' = members /\ stale' = stale \cup {c}
  BY DEF Delete, LeaveFails, states, redis
<1>3. /\ leaver' \in [Leavers -> LeaveTasks]
      /\ \A k \in Leavers : leaver'[k] = IF k = l THEN NoTask ELSE leaver[k]
  BY <1>2 DEF IInv, TypeOK, LeaveTasks, NoTask
<1>4. TypeOK'
  BY <1>1, <1>2, <1>3 DEF IInv, TypeOK
<1>5. Placed'
  BY <1>2, <1>3 DEF IInv, Placed, At, NoTask
<1>6. \A d \in Clients, k \in Leavers : leaver'[k].client = d => leaver[k].client = d
  BY <1>3, NoneIsNobody DEF NoTask
<1>7. OneLeaveEach'
  BY <1>2, <1>6 DEF IInv, OneLeaveEach, LeavesOf, At
<1>8. HashAccounted'
  <2> SUFFICES ASSUME ~MayRejoin, NEW d \in Clients
               PROVE  /\ session'[d].at \in InHash => d \in members'
                      /\ d \in members' => \/ session'[d].at \in InHash
                                           \/ \E k \in Leavers : leaver'[k].client = d
                                           \/ d \in stale'
    BY DEF HashAccounted, InHash, LeavesOf
  <2>1. /\ session[d].at \in InHash => d \in members
        /\ d \in members => \/ session[d].at \in InHash
                            \/ \E k \in Leavers : leaver[k].client = d
                            \/ d \in stale
    BY HashByClient DEF IInv
  <2>2. CASE d = c
    <3>1. session[d].at \notin InHash
      BY <1>1, <2>2 DEF IInv, OneLeaveEach, LeavesOf, At, InHash
    <3> QED BY <1>2, <2>1, <2>2, <3>1
  <2>3. CASE d # c
    <3>1. \A k \in Leavers : leaver[k].client = d => leaver'[k].client = d
      BY <1>3, <2>3
    <3> QED BY <1>2, <2>1, <2>3, <3>1
  <2> QED BY <2>2, <2>3
<1> QED BY <1>4, <1>5, <1>7, <1>8 DEF IInv

-----------------------------------------------------------------------------
(* The event sources *)

(* Event sources change no membership. *)
LEMMA SourceStepKeeps ==
    ASSUME IInv, NEW s \in States, SourceStep(s)
    PROVE  IInv'
<1>1. ASSUME NEW v \in {"subscribed", "ended"},
             source' = [source EXCEPT ![s] = v],
             pipe' = pipe \/ pipe' = [pipe EXCEPT ![s] = <<>>],
             UNCHANGED <<states, members, stale, session, leaver>>
      PROVE  IInv'
  <2>1. pipe' \in [States -> Seq(Events)]
    <3>1. <<>> \in Seq(Events) /\ pipe \in [States -> Seq(Events)]
      BY DEF IInv, TypeOK
    <3> QED BY <1>1, <3>1
  <2>2. TypeOK'
    BY <1>1, <2>1 DEF IInv, TypeOK, states
  <2> QED BY <1>1, <2>2, QuietKeeps DEF states
<1>2. CASE Subscribe(s) \/ Retire(s) \/ SourceFails(s)
  BY <1>1, <1>2 DEF Subscribe, Retire, SourceFails, redis
<1>3. CASE Deliver(s)
  <2>1. /\ pipe[s] # <<>> /\ pipe' = [pipe EXCEPT ![s] = Tail(@)]
        /\ session' = [c \in Clients |->
              IF c \in Receivers(s) THEN Push(session[c], Head(pipe[s])) ELSE session[c]]
        /\ UNCHANGED <<states, source, members, stale, leaver>>
    BY <1>3 DEF Deliver
  <2>2. pipe \in [States -> Seq(Events)] /\ pipe[s] \in Seq(Events)
    BY DEF IInv, TypeOK
  <2>3. Head(pipe[s]) \in Events /\ Tail(pipe[s]) \in Seq(Events)
    BY <2>1, <2>2
  <2>4. \A c \in Clients : /\ Bounded(session'[c])
                           /\ session'[c].at = session[c].at
                           /\ session'[c].chan = session[c].chan
    BY <2>1, <2>3, SessionsTyped, PushType
  <2>5. pipe' \in [States -> Seq(Events)]
    BY <2>1, <2>2, <2>3
  <2>6. session' \in [Clients -> Sessions]
    <3> DEFINE f(c) == IF c \in Receivers(s) THEN Push(session[c], Head(pipe[s]))
                       ELSE session[c]
    <3>1. \A c \in Clients : session'[c] = f(c) /\ session' = [d \in Clients |-> f(d)]
      BY <2>1
    <3>2. \A c \in Clients : f(c) \in Sessions
      BY <2>4, <3>1 DEF Bounded
    <3>3. session' = [d \in Clients |-> f(d)]
      BY <2>1
    <3> HIDE DEF f
    <3> QED BY <3>2, <3>3
  <2>7. TypeOK'
    BY <2>1, <2>4, <2>5, <2>6 DEF IInv, TypeOK, states, Bounded
  <2> QED BY <2>1, <2>4, <2>7, QuietKeeps DEF states
<1> QED BY <1>2, <1>3 DEF SourceStep

-----------------------------------------------------------------------------

(* At first nobody is anywhere. *)
LEMMA InitOK == Init => IInv
<1> SUFFICES ASSUME Init PROVE IInv
  OBVIOUS
<1>1. TypeOK
  BY IdleType DEF Init, TypeOK, Bounded, LeaveTasks, NoTask
<1>2. Placed
  BY IdleType DEF Init, Placed, At, NoTask
<1>3. OneLeaveEach /\ HashAccounted
  BY IdleType DEF Init, OneLeaveEach, HashAccounted, At
<1> QED BY <1>1, <1>2, <1>3 DEF IInv

(* No step of a session, a leave task or an event source breaks the invariant. *)
LEMMA StepKeeps == IInv /\ [Next]_vars => IInv'
<1> SUFFICES ASSUME IInv, [Next]_vars PROVE IInv'
  OBVIOUS
<1>1. ASSUME NEW c \in Clients, SessionStep(c) PROVE IInv'
  BY <1>1, GetKeeps, GiveUpKeeps, JoinKeeps, StoreKeeps, AnnounceJoinedKeeps,
     ListMembersKeeps, ReceiveEventKeeps, DropHandleKeeps DEF SessionStep
<1>2. ASSUME NEW l \in Leavers, LeaveStep(l) PROVE IInv'
  BY <1>2, LeaveKeeps, AnnounceLeftKeeps, LeaveEndsKeeps DEF LeaveStep
<1>3. ASSUME NEW s \in States, SourceStep(s) PROVE IInv'
  BY <1>3, SourceStepKeeps
<1>4. CASE UNCHANGED vars
  <2>1. TypeOK'
    BY <1>4 DEF vars, states, redis, IInv, TypeOK
  <2> QED BY <1>4, <2>1, QuietKeeps DEF vars, states, redis
<1> QED BY <1>1, <1>2, <1>3, <1>4 DEF Next

(* Sessions, the tasks that leave for them and the hash in Redis agree as IInv
   says (state/distributed.rs, with channels/mod.rs).                         *)
THEOREM SharedIInv == Spec => []IInv
BY InitOK, StepKeeps, PTL DEF Spec

(* Every variable keeps its type, and no subscriber holds more than the
   broadcast keeps (state/mod.rs).                                            *)
THEOREM TypeCorrect == Spec => []TypeOK
<1>1. IInv => TypeOK
  BY DEF IInv
<1> QED BY <1>1, SharedIInv, PTL

(* The hash lists everyone who has joined on any gateway, and nobody else but
   those whose leave is under way or failed half-way (join and leave of
   DistributedChannelState, whose requests fail at any point).                *)
THEOREM HashExact == Spec => []HashAccounted
<1>1. IInv => HashAccounted
  BY DEF IInv
<1> QED BY <1>1, SharedIInv, PTL

-----------------------------------------------------------------------------
(* What a list of members becomes as events arrive *)

(* An event is either a join or a leave, and of one client. *)
LEMMA EventsApart ==
    \A c, d \in Clients : /\ Joined(c) # Left(d)
                          /\ Joined(c) = Joined(d) => c = d
                          /\ Left(c) = Left(d) => c = d
BY DEF Joined, Left

(* Another event is broadcast. *)
LEMMA AfterAppend ==
    ASSUME NEW view, NEW q \in Seq(Events), NEW x \in Clients, NEW d \in Clients
    PROVE  /\ d \in After(view, Append(q, Joined(x))) <=> d = x \/ d \in After(view, q)
           /\ d \in After(view, Append(q, Left(x))) <=> d # x /\ d \in After(view, q)
<1>1. Joined(x) \in Events /\ Left(x) \in Events
  BY EventType
<1>2. ASSUME NEW e \in Events
      PROVE  /\ DOMAIN Append(q, e) = 1..(Len(q) + 1) /\ DOMAIN q = 1..Len(q)
             /\ Len(q) \in Nat
             /\ Append(q, e)[Len(q) + 1] = e
             /\ \A i \in 1..Len(q) : Append(q, e)[i] = q[i]
  OBVIOUS
<1>3. d \in After(view, Append(q, Joined(x))) <=> d = x \/ d \in After(view, q)
  BY <1>1, <1>2, EventsApart DEF After
<1>4. d \in After(view, Append(q, Left(x))) <=> d # x /\ d \in After(view, q)
  BY <1>1, <1>2, EventsApart DEF After
<1> QED BY <1>3, <1>4

(* The oldest event is taken into account. *)
LEMMA AfterHead ==
    ASSUME NEW v, NEW w, NEW q \in Seq(Events), q # <<>>, NEW d \in Clients,
           d \in w <=> Head(q) = Joined(d) \/ (d \in v /\ Head(q) # Left(d))
    PROVE  d \in After(w, Tail(q)) <=> d \in After(v, q)
<1>1. /\ Len(q) \in Nat \ {0} /\ DOMAIN q = 1..Len(q) /\ DOMAIN Tail(q) = 1..(Len(q) - 1)
      /\ Head(q) = q[1] /\ q[1] \in Events
      /\ \A i \in 1..(Len(q) - 1) : Tail(q)[i] = q[i + 1]
  OBVIOUS
<1>2. /\ \A j \in 1..Len(q) : j = 1 \/ (j - 1 \in 1..(Len(q) - 1) /\ Tail(q)[j - 1] = q[j])
      /\ \A j \in 1..(Len(q) - 1) : j + 1 \in 1..Len(q) /\ Tail(q)[j] = q[j + 1]
      /\ 1 \in 1..Len(q)
  BY <1>1
<1>3. (\A j \in DOMAIN q : q[j] # Left(d)) <=>
         q[1] # Left(d) /\ \A j \in DOMAIN Tail(q) : Tail(q)[j] # Left(d)
  <2>1. ASSUME \A j \in 1..Len(q) : q[j] # Left(d), NEW j \in 1..(Len(q) - 1)
        PROVE  Tail(q)[j] # Left(d)
    BY <1>2, <2>1
  <2>2. ASSUME q[1] # Left(d), \A j \in 1..(Len(q) - 1) : Tail(q)[j] # Left(d),
               NEW j \in 1..Len(q)
        PROVE  q[j] # Left(d)
    BY <1>2, <2>2
  <2> QED BY <1>1, <1>2, <2>1, <2>2
<1>4. (\E i \in DOMAIN q : q[i] = Joined(d) /\ \A j \in DOMAIN q : j > i => q[j] # Left(d))
        <=> \/ q[1] = Joined(d) /\ \A j \in DOMAIN Tail(q) : Tail(q)[j] # Left(d)
            \/ \E i \in DOMAIN Tail(q) :
                  /\ Tail(q)[i] = Joined(d)
                  /\ \A j \in DOMAIN Tail(q) : j > i => Tail(q)[j] # Left(d)
  <2> DEFINE Stays(s, i) == s[i] = Joined(d) /\ \A j \in DOMAIN s : j > i => s[j] # Left(d)
  <2>0. ASSUME NEW i \in 0..(Len(q) - 1)
        PROVE  (\A j \in 1..Len(q) : j > i + 1 => q[j] # Left(d)) <=>
                  \A j \in 1..(Len(q) - 1) : j > i => Tail(q)[j] # Left(d)
    <3>1. ASSUME \A j \in 1..Len(q) : j > i + 1 => q[j] # Left(d),
                 NEW j \in 1..(Len(q) - 1), j > i
          PROVE  Tail(q)[j] # Left(d)
      <4>1. j + 1 \in 1..Len(q) /\ j + 1 > i + 1 /\ Tail(q)[j] = q[j + 1]
        BY <1>2, <3>1
      <4> QED BY <3>1, <4>1
    <3>2. ASSUME \A j \in 1..(Len(q) - 1) : j > i => Tail(q)[j] # Left(d),
                 NEW j \in 1..Len(q), j > i + 1
          PROVE  q[j] # Left(d)
      <4>1. j # 1 /\ j - 1 > i
        BY <3>2
      <4> QED BY <1>2, <3>2, <4>1
    <3> QED BY <3>1, <3>2
  <2>1. Stays(q, 1) <=> q[1] = Joined(d) /\ \A j \in DOMAIN Tail(q) : Tail(q)[j] # Left(d)
    <3>1. (\A j \in 1..Len(q) : j > 0 + 1 => q[j] # Left(d)) <=>
             \A j \in 1..(Len(q) - 1) : j > 0 => Tail(q)[j] # Left(d)
      BY <1>1, <2>0
    <3>2. \A j \in 1..(Len(q) - 1) : j > 0
      BY <1>1
    <3>3. (\A j \in 1..Len(q) : j > 1 => q[j] # Left(d)) <=>
             \A j \in 1..(Len(q) - 1) : Tail(q)[j] # Left(d)
      BY <3>1, <3>2
    <3> QED BY <1>1, <3>3
  <2>2. ASSUME NEW i \in 1..(Len(q) - 1) PROVE Stays(q, i + 1) <=> Stays(Tail(q), i)
    <3>1. i \in 0..(Len(q) - 1)
      BY <1>1
    <3> QED BY <1>1, <1>2, <2>0, <3>1
  <2>3. (\E i \in DOMAIN q : Stays(q, i)) <=>
           Stays(q, 1) \/ \E i \in 1..(Len(q) - 1) : Stays(q, i + 1)
    <3> HIDE DEF Stays
    <3>1. \A i \in 1..Len(q) : i = 1 \/ (i - 1 \in 1..(Len(q) - 1) /\ i = (i - 1) + 1)
      BY <1>1
    <3>2. \A i \in 1..(Len(q) - 1) : i + 1 \in 1..Len(q)
      BY <1>1
    <3>3. ASSUME NEW i \in 1..Len(q), Stays(q, i)
          PROVE  Stays(q, 1) \/ \E k \in 1..(Len(q) - 1) : Stays(q, k + 1)
      BY <3>1, <3>3
    <3> QED BY <1>1, <1>2, <3>2, <3>3
  <2>4. (\E i \in DOMAIN Tail(q) : Stays(Tail(q), i)) <=>
           \E i \in 1..(Len(q) - 1) : Stays(q, i + 1)
    <3> HIDE DEF Stays
    <3> QED BY <1>1, <2>2
  <2> QED BY <2>1, <2>3, <2>4
<1> QED BY <1>1, <1>3, <1>4, EventsApart DEF After

(* What a list becomes lies between what the empty and the full one become. *)
LEMMA AfterBetween ==
    ASSUME NEW view, NEW q, NEW d \in Clients
    PROVE  d \in After(view, q) <=>
              d \in After({}, q) \/ (d \in view /\ d \in After(Clients, q))
BY DEF After

(* Without events, nothing changes. *)
LEMMA AfterNothing ==
    ASSUME NEW view, NEW d \in Clients
    PROVE  d \in After(view, <<>>) <=> d \in view
BY DEF After

-----------------------------------------------------------------------------
(* What subscribers are shown *)

(* Whether a client is a member has not changed, or is now undecided. *)
Same(d) == Undecided(d)' \/ (~Undecided(d) /\ (Announced(d)' <=> Announced(d)))

(* Only a lookup makes a state reachable. *)
LEMMA Reach ==
    ASSUME \A g \in Gateways : entry'[g] \in {entry[g], None},
           \A c \in Clients : session'[c].chan \in {session[c].chan, None},
           \A l \in Leavers : \/ leaver'[l].chan \in {leaver[l].chan, None}
                             \/ \E c \in Clients : leaver'[l].chan = session[c].chan,
           NEW s \in States
    PROVE  Unreachable(s) => Unreachable(s)'
BY NoneIsNobody DEF Unreachable

(* A state is known to whoever has a session past the first step. *)
LEMMA StateKnown ==
    ASSUME IInv, NEW c \in Clients, ~At(c, "idle")
    PROVE  session[c].chan \in States
BY SessionsTyped, NoneIsNobody DEF IInv, Placed, Bounded, Sessions

(* A session that has heard of nothing. *)
LEMMA Bystander ==
    ASSUME NEW c \in Clients, NEW d \in Clients \ {c}, Watches(c) => Fits(c, d),
           NEW s, session[c].chan = s, session'[c] = session[c],
           HasHandle(c) /\ source'[s] = "subscribed" =>
              source[s] = "subscribed" /\ pipe'[s] = pipe[s],
           Same(d)
    PROVE  Watches(c)' => Fits(c, d)'
BY DEF Watches, HasHandle, Fits, Fewest, Most, Resurrected, Says, Same, At

(* No event is published or delivered. *)
LEMMA Calm ==
    ASSUME IInv, PipesAgree, ViewsAgree,
           \A s \in States : source'[s] = "subscribed" =>
               /\ source[s] = "subscribed" /\ pipe'[s] = pipe[s]
               /\ Unreachable(s) => Unreachable(s)',
           \A d \in Clients : Same(d),
           \A x \in Clients : \/ session'[x] = session[x]
                              \/ Watches(x)' => \A d \in Clients \ {x} : Fits(x, d)'
    PROVE  PipesAgree' /\ ViewsAgree'
<1>1. ASSUME NEW s \in States, (s \in Recipients(s))', NEW d \in Clients
      PROVE  Undecided(d)' \/ Says({}, Clients, pipe[s], d)'
  BY <1>1 DEF PipesAgree, Recipients, Says, Same
<1>2. ASSUME NEW x \in Clients, NEW d \in Clients \ {x}, Watches(x)'
      PROVE  Fits(x, d)'
  <2>1. CASE session'[x] = session[x]
    <3>1. session[x].chan \in States
      BY <1>2, <2>1, StateKnown DEF Watches, HasHandle, At
    <3> QED BY <1>2, <2>1, <3>1, Bystander DEF ViewsAgree
  <2> QED BY <1>2, <2>1
<1> QED BY <1>1, <1>2 DEF PipesAgree, ViewsAgree

(* An event about k is published: every state whose source is subscribed takes
   it, and what it says is so. *)
LEMMA PublishViews ==
    ASSUME IInv, PipesAgree, ViewsAgree, NEW s, NEW k \in Clients,
           NEW e \in {Joined(k), Left(k)},
           pipe' = [t \in States |->
                      IF t \in Recipients(s) THEN Append(pipe[t], e) ELSE pipe[t]],
           source' = source,
           \A t \in States : Unreachable(t) => Unreachable(t)',
           \A x \in Clients :
              /\ session'[x].chan = session[x].chan /\ session'[x].queue = session[x].queue
              /\ session'[x].view = session[x].view /\ session'[x].lagged = session[x].lagged
              /\ session'[x].covered = session[x].covered
              /\ session[x].ghosts \subseteq session'[x].ghosts \cup {k}
              /\ \/ session'[x].at = session[x].at
                 \/ session[x].at = "publish" /\ session'[x].at = "list",
           \A d \in Clients \ {k} : Same(d),
           Undecided(k)' \/ (Announced(k)' <=> e = Joined(k))
    PROVE  PipesAgree' /\ ViewsAgree'
<1>1. /\ pipe \in [States -> Seq(Events)]
      /\ \A t \in States : t \in Recipients(s) <=> source[t] = "subscribed" /\ ~Unreachable(t)
      /\ \A t \in States : t \in Recipients(t) <=> source[t] = "subscribed" /\ ~Unreachable(t)
      /\ \A t \in States : (t \in Recipients(t))' => t \in Recipients(t) /\ t \in Recipients(s)
  BY DEF IInv, TypeOK, Recipients
<1>2. Joined(k) # Left(k)
  BY EventsApart
<1>3. ASSUME NEW few, NEW many, NEW q \in Seq(Events), NEW d \in Clients,
             d # k => Undecided(d) \/ Says(few, many, q, d)
      PROVE  Undecided(d)' \/ /\ d \in After(few, Append(q, e)) => Announced(d)'
                              /\ Announced(d)' => d \in After(many, Append(q, e))
  <2>1. /\ d \in After(few, Append(q, e)) <=>
             IF d = k THEN e = Joined(k) ELSE d \in After(few, q)
        /\ d \in After(many, Append(q, e)) <=>
             IF d = k THEN e = Joined(k) ELSE d \in After(many, q)
    <3>1. CASE e = Joined(k)
      BY <3>1, AfterAppend
    <3>2. CASE e = Left(k)
      <4>1. \A v : d \in After(v, Append(q, Left(k))) <=> d # k /\ d \in After(v, q)
        BY AfterAppend
      <4> QED BY <1>2, <3>2, <4>1
    <3> QED BY <3>1, <3>2
  <2>2. CASE d = k
    BY <2>1, <2>2
  <2>3. CASE d # k
    BY <1>3, <2>1, <2>3 DEF Says, Same
  <2> QED BY <2>2, <2>3
<1>4. ASSUME NEW t \in States, (t \in Recipients(t))', NEW d \in Clients
      PROVE  Undecided(d)' \/ Says({}, Clients, pipe[t], d)'
  <2>1. pipe'[t] = Append(pipe[t], e) /\ pipe[t] \in Seq(Events)
    BY <1>1, <1>4
  <2>2. Undecided(d) \/ Says({}, Clients, pipe[t], d)
    BY <1>1, <1>4 DEF PipesAgree
  <2>3. Undecided(d)' \/ /\ d \in After({}, Append(pipe[t], e)) => Announced(d)'
                         /\ Announced(d)' => d \in After(Clients, Append(pipe[t], e))
    BY <1>3, <2>1, <2>2
  <2> QED BY <2>1, <2>3 DEF Says
<1>5. ASSUME NEW x \in Clients, NEW d \in Clients \ {x}, Watches(x)'
      PROVE  Fits(x, d)'
  <2> DEFINE t == session[x].chan
             q == session[x].queue
  <2>1. /\ Watches(x) /\ HasHandle(x)
        /\ Fewest(x)' = Fewest(x) /\ Most(x)' = Most(x)
        /\ d # k /\ d \in Resurrected(x) => d \in Resurrected(x)'
    BY <1>5 DEF Watches, HasHandle, Fewest, Most, Resurrected, At
  <2>2. t \in States
    BY <2>1, StateKnown DEF HasHandle, At
  <2>3. t \in Recipients(s)
    BY <1>1, <2>1, <2>2 DEF Watches, Unreachable
  <2>4. pipe'[t] = Append(pipe[t], e) /\ pipe[t] \in Seq(Events)
    BY <1>1, <2>2, <2>3
  <2>5. Fits(x, d)
    BY <2>1 DEF ViewsAgree
  <2>6. CASE d # k /\ d \in Resurrected(x)
    BY <2>1, <2>6 DEF Fits
  <2>7. CASE d = k \/ d \notin Resurrected(x)
    <3>1. d # k => Undecided(d) \/ Says(After(Fewest(x), q), After(Most(x), q), pipe[t], d)
      BY <2>5, <2>7 DEF Fits
    <3>2. Undecided(d)' \/
            /\ d \in After(After(Fewest(x), q), Append(pipe[t], e)) => Announced(d)'
            /\ Announced(d)' => d \in After(After(Most(x), q), Append(pipe[t], e))
      BY <1>3, <2>4, <3>1
    <3>3. session'[x].queue = q /\ session'[x].chan = t
      OBVIOUS
    <3> HIDE DEF t, q
    <3> QED BY <2>1, <2>4, <3>2, <3>3 DEF Fits, Says
  <2> QED BY <2>6, <2>7
<1> QED BY <1>4, <1>5 DEF PipesAgree, ViewsAgree

(* What a session keeps when it moves along. *)
LEMMA MovedKeeps ==
    ASSUME NEW ses \in Sessions, NEW a
    PROVE  /\ Moved(ses, a).at = a /\ Moved(ses, a).chan = ses.chan
           /\ Moved(ses, a).queue = ses.queue /\ Moved(ses, a).view = ses.view
           /\ Moved(ses, a).lagged = ses.lagged
BY DEF Sessions, Moved

(* A session given a state keeps its queue. *)
LEMMA LentKeeps ==
    ASSUME NEW ses \in Sessions, NEW a, NEW s
    PROVE  Lent(ses, a, s).at = a /\ Lent(ses, a, s).chan = s /\ Lent(ses, a, s).queue = ses.queue
BY DEF Sessions, Lent

(* A session that was told a list keeps everything else. *)
LEMMA ToldKeeps ==
    ASSUME NEW ses \in Sessions, NEW a, NEW v, NEW cov, NEW gone
    PROVE  /\ Told(ses, a, v, cov, gone).at = a /\ Told(ses, a, v, cov, gone).chan = ses.chan
           /\ Told(ses, a, v, cov, gone).queue = ses.queue
           /\ Told(ses, a, v, cov, gone).view = v
           /\ Told(ses, a, v, cov, gone).lagged = ses.lagged
           /\ Told(ses, a, v, cov, gone).covered = cov
           /\ Told(ses, a, v, cov, gone).ghosts = gone
BY DEF Sessions, Told

(* A session that received an event keeps everything else. *)
LEMMA UpdatedKeeps ==
    ASSUME NEW ses \in Sessions, NEW q, NEW v
    PROVE  /\ Updated(ses, q, v).at = ses.at /\ Updated(ses, q, v).chan = ses.chan
           /\ Updated(ses, q, v).queue = q /\ Updated(ses, q, v).view = v
           /\ Updated(ses, q, v).lagged = ses.lagged
           /\ Updated(ses, q, v).covered = ses.covered
           /\ Updated(ses, q, v).ghosts = ses.ghosts
BY DEF Sessions, Updated

(* One session changes. *)
LEMMA OneMoves ==
    ASSUME IInv, NEW c \in Clients, NEW ses, session' = [session EXCEPT ![c] = ses]
    PROVE  session'[c] = ses /\ \A x \in Clients \ {c} : session'[x] = session[x]
BY DEF IInv, TypeOK

(* A client whose session and leaves stay where they are. *)
LEMMA StaysSame ==
    ASSUME NEW d, session'[d].at = session[d].at, d \in stale' <=> d \in stale,
           \A l \in Leavers :
              leaver'[l].client = d /\ leaver'[l].at \in {"woken", "publish"} <=>
                 leaver[l].client = d /\ leaver[l].at \in {"woken", "publish"}
    PROVE  Same(d)
BY DEF Same, Undecided, Announced, LeavesOf

(* A client whose session has not got as far as the hash, or has a member's
   place in it. *)
LEMMA MovesSame ==
    ASSUME NEW d, UNCHANGED <<stale, leaver>>,
           \/ session'[d].at \in {"store", "publish"}
           \/ session[d].at \in {"idle", "open"} /\ session'[d].at \in {"idle", "open"}
           \/ session[d].at \in {"list", "in"} /\ session'[d].at \in {"list", "in"}
    PROVE  Same(d)
BY DEF Same, Undecided, Announced, LeavesOf

(* A looked-up state that is new has an event source that has yet to start. *)
LEMMA LookupViews ==
    ASSUME IInv, PipesAgree, ViewsAgree, NEW c \in Clients, NEW g \in Gateways, Lookup(c, g),
           session[c].at \in {"idle", "open"}
    PROVE  PipesAgree' /\ ViewsAgree'
<1>1. PICK s \in States :
        /\ IF entry[g] # None
           THEN s = entry[g] /\ UNCHANGED <<states, source, pipe>>
           ELSE /\ Unreachable(s)
                /\ entry' = [entry EXCEPT ![g] = s]
                /\ home' = [home EXCEPT ![s] = g]
                /\ local' = [local EXCEPT ![s] = {}]
                /\ live' = live \cup {s}
                /\ source' = [source EXCEPT ![s] = "starting"]
                /\ pipe' = [pipe EXCEPT ![s] = <<>>]
        /\ session' = [session EXCEPT ![c].at = "open", ![c].chan = s]
        /\ UNCHANGED <<members, stale, leaver>>
  BY DEF Lookup
<1>2. session' = [session EXCEPT ![c] = Lent(session[c], "open", s)]
  BY <1>1, SessionsTyped DEF Lent
<1>3. /\ session'[c].at = "open" /\ session'[c].chan = s
      /\ \A x \in Clients \ {c} : session'[x] = session[x]
  BY <1>2, OneMoves, LentKeeps, SessionsTyped DEF Bounded
<1>4. \A t \in States : source'[t] = "subscribed" =>
        /\ source[t] = "subscribed" /\ pipe'[t] = pipe[t]
        /\ Unreachable(t) => Unreachable(t)'
  <2> SUFFICES ASSUME NEW t \in States, source'[t] = "subscribed"
               PROVE  /\ source[t] = "subscribed" /\ pipe'[t] = pipe[t]
                      /\ Unreachable(t) => Unreachable(t)'
    OBVIOUS
  <2>1. CASE entry[g] # None
    BY <1>1, <1>3, <2>1 DEF Unreachable, states
  <2>2. CASE entry[g] = None
    <3>1. t # s /\ source[t] = "subscribed" /\ pipe'[t] = pipe[t]
      BY <1>1, <2>2 DEF IInv, TypeOK
    <3>2. \A h \in Gateways : entry'[h] \in {entry[h], s}
      BY <1>1, <2>2 DEF IInv, TypeOK
    <3>3. Unreachable(t) => Unreachable(t)'
      <4>1. leaver' = leaver /\ \A x \in Clients : session'[x].chan \in {session[x].chan, s}
        BY <1>1, <1>3
      <4> QED BY <3>1, <3>2, <4>1 DEF Unreachable
    <3> QED BY <3>1, <3>3
  <2> QED BY <2>1, <2>2
<1>5. \A d \in Clients : Same(d)
  BY <1>1, <1>3, StaysSame, MovesSame
<1>6. ~Watches(c)'
  BY <1>3 DEF Watches, HasHandle
<1>7. \A x \in Clients : \/ session'[x] = session[x]
                         \/ Watches(x)' => \A d \in Clients \ {x} : Fits(x, d)'
  BY <1>3, <1>6
<1> QED BY <1>4, <1>5, <1>7, Calm

(* Steps of a session that concern nobody else: it gives up, joins, stores its
   client, or drops its handle. *)
LEMMA SessionViews ==
    ASSUME IInv, Silent, PipesAgree, ViewsAgree, NEW c \in Clients,
           GiveUp(c) \/ Join(c) \/ Store(c)
    PROVE  PipesAgree' /\ ViewsAgree'
<1>1. PICK ses :
        /\ session' = [session EXCEPT ![c] = ses]
        /\ \/ At(c, "open") /\ ses = Idle
           \/ At(c, "open") /\ ses = Moved(session[c], "store")
           \/ At(c, "store") /\ ses = Moved(session[c], "publish")
        /\ UNCHANGED <<entry, source, pipe, stale, leaver>>
  BY SessionsTyped DEF GiveUp, Join, Store, Moved, states, redis
<1>2. session[c] \in Sessions
  BY SessionsTyped DEF Bounded
<1>3. session'[c] = ses /\ \A x \in Clients \ {c} : session'[x] = session[x]
  BY <1>1, OneMoves
<1>4. session'[c].chan \in {session[c].chan, None}
      /\ \/ session'[c].at \in {"store", "publish"}
         \/ session[c].at = "open" /\ session'[c].at = "idle"
  BY <1>1, <1>2, <1>3, MovedKeeps DEF Idle, At
<1>5. \A t \in States : Unreachable(t) => Unreachable(t)'
  BY <1>1, <1>3, <1>4, Reach
<1>6. \A d \in Clients : Same(d)
  BY <1>1, <1>3, <1>4, StaysSame, MovesSame
<1>7. ASSUME Watches(c)', NEW d \in Clients \ {c}
      PROVE  Fits(c, d)'
  <2>1. session'[c].at \in {"store", "publish"}
    BY <1>4, <1>7 DEF Watches, HasHandle
  <2>2. /\ session'[c].chan = session[c].chan /\ session'[c].queue = session[c].queue
        /\ session'[c].lagged = session[c].lagged
    BY <1>1, <1>2, <1>3, <2>1, MovedKeeps DEF Idle
  <2>3. CASE At(c, "store")
    <3>1. Fits(c, d)
      BY <1>1, <1>7, <2>2, <2>3 DEF ViewsAgree, Watches, HasHandle, At
    <3> QED BY <1>1, <1>6, <2>1, <2>2, <2>3, <3>1
            DEF Fits, Fewest, Most, Resurrected, Says, Same, At
  <2>4. CASE At(c, "open")
    <3> DEFINE t == session[c].chan
    <3>1. t \in States
      BY <2>4, StateKnown DEF At
    <3>2. t \in Recipients(t)
      BY <1>1, <1>7, <2>2, <3>1 DEF Recipients, Watches, Unreachable
    <3>3. Undecided(d) \/ Says({}, Clients, pipe[t], d)
      BY <3>1, <3>2 DEF PipesAgree
    <3>4. session'[c].queue = <<>>
      BY <2>2, <2>4 DEF Silent, HasHandle, At
    <3>5. \A v, q : d \in After(After(v, <<>>), q) <=> d \in After(v, q)
      BY AfterNothing DEF After
    <3>6. Fewest(c)' = {} /\ Most(c)' = Clients
      BY <2>1 DEF Fewest, Most, At
    <3>7. session'[c].chan = t /\ pipe' = pipe
      BY <1>1, <2>2
    <3> HIDE DEF t
    <3> QED BY <1>6, <3>3, <3>4, <3>5, <3>6, <3>7 DEF Fits, Says, Same
  <2> QED BY <1>1, <2>3, <2>4
<1>8. \A x \in Clients : \/ session'[x] = session[x]
                         \/ Watches(x)' => \A d \in Clients \ {x} : Fits(x, d)'
  BY <1>3, <1>7
<1>9. \A s \in States : source'[s] = "subscribed" =>
        /\ source[s] = "subscribed" /\ pipe'[s] = pipe[s]
        /\ Unreachable(s) => Unreachable(s)'
  BY <1>1, <1>5
<1> QED BY <1>6, <1>8, <1>9, Calm

(* The list is read: it has all that are announced, and, besides those that are
   undecided, only such as have a leave that is published and not deleted. *)
LEMMA ListMembersViews ==
    ASSUME IInv, Silent, ~MayRejoin, PipesAgree, ViewsAgree, NEW c \in Clients, ListMembers(c)
    PROVE  PipesAgree' /\ ViewsAgree'
<1> DEFINE t == session[c].chan
           q == session[c].queue
           covered == (source[t] = "subscribed")
           gone == members \cap Departing
<1>1. /\ session' = [session EXCEPT ![c] = Told(session[c], "in", members, covered, gone)]
      /\ At(c, "list") /\ session[c] \in Sessions
      /\ UNCHANGED <<entry, source, pipe, members, stale, leaver>>
  BY SessionsTyped DEF ListMembers, Told, states, redis, Bounded
<1>2. /\ \A x \in Clients \ {c} : session'[x] = session[x]
      /\ session'[c].at = "in" /\ session'[c].chan = t /\ session'[c].queue = q
      /\ session'[c].view = members /\ session'[c].lagged = session[c].lagged
      /\ session'[c].covered = covered /\ session'[c].ghosts = gone
  <2> HIDE DEF covered, gone
  <2>1. /\ session'[c] = Told(session[c], "in", members, covered, gone)
        /\ \A x \in Clients \ {c} : session'[x] = session[x]
    BY <1>1, OneMoves
  <2> QED BY <1>1, <2>1, ToldKeeps
<1>3. \A s \in States : Unreachable(s) => Unreachable(s)'
  BY <1>1, <1>2, Reach
<1>4. \A d \in Clients : Same(d)
  BY <1>1, <1>2, StaysSame, MovesSame DEF At
<1>5. ASSUME Watches(c)', NEW d \in Clients \ {c}
      PROVE  Fits(c, d)'
  <2>1. Watches(c)
    BY <1>1, <1>2, <1>5 DEF Watches, HasHandle, At
  <2>2. Undecided(d) \/ Says(After({}, q), After(Clients, q), pipe[t], d)
    BY <1>1, <2>1 DEF ViewsAgree, Fits, Fewest, Most, Resurrected, At
  <2>3. Announced(d) => d \in members
    BY DEF IInv, HashAccounted, Announced
  <2>4. d \in members => Announced(d) \/ Undecided(d) \/ d \in gone
    <3> SUFFICES ASSUME d \in members, ~Announced(d), ~Undecided(d) PROVE d \in Departing
      OBVIOUS
    <3>1. LeavesOf(d) # {}
      BY DEF IInv, HashAccounted, Announced, Undecided
    <3>2. PICK l \in Leavers : leaver[l].client = d
      BY <3>1 DEF LeavesOf
    <3>3. leaver[l].at \in {"none", "woken", "publish", "delete"}
      BY DEF IInv, TypeOK, LeaveTasks
    <3>4. leaver[l].at # "none"
      BY <3>2, NoneIsNobody DEF Silent, NoTask
    <3>5. leaver[l].at \notin {"woken", "publish"}
      BY <3>2 DEF Undecided, LeavesOf
    <3> QED BY <3>2, <3>3, <3>4, <3>5 DEF Departing
  <2>5. \A v : d \in After(After(v, q), pipe[t]) <=>
                 \/ d \in After({}, pipe[t])
                 \/ /\ d \in After({}, q) \/ (d \in v /\ d \in After(Clients, q))
                    /\ d \in After(Clients, pipe[t])
    BY AfterBetween
  <2>6. \/ Undecided(d) \/ d \in gone
        \/ Says(After(members, q), After(members, q), pipe[t], d)
    BY <2>2, <2>3, <2>4, <2>5 DEF Says
  <2>7. Fewest(c)' = members /\ Most(c)' = members /\ Resurrected(c)' = gone
    BY <1>2 DEF Fewest, Most, Resurrected, At
  <2>8. Undecided(d)' \/ (~Undecided(d) /\ (Announced(d)' <=> Announced(d)))
    BY <1>4 DEF Same
  <2>9. session'[c].queue = q /\ session'[c].chan = t /\ pipe' = pipe
    BY <1>1, <1>2
  <2> HIDE DEF t, q, gone, covered
  <2> QED BY <2>6, <2>7, <2>8, <2>9 DEF Fits, Says
<1>6. \A x \in Clients : \/ session'[x] = session[x]
                         \/ Watches(x)' => \A d \in Clients \ {x} : Fits(x, d)'
  BY <1>2, <1>5
<1>7. \A s \in States : source'[s] = "subscribed" =>
        /\ source[s] = "subscribed" /\ pipe'[s] = pipe[s]
        /\ Unreachable(s) => Unreachable(s)'
  BY <1>1, <1>3
<1> QED BY <1>4, <1>6, <1>7, Calm

(* An event received moves from the queue to the view. *)
LEMMA ReceiveEventViews ==
    ASSUME IInv, PipesAgree, ViewsAgree, NEW c \in Clients, ReceiveEvent(c)
    PROVE  PipesAgree' /\ ViewsAgree'
<1> DEFINE q == session[c].queue
           v == session[c].view
           w == Show(c, v, Head(q))
<1>1. /\ session' = [session EXCEPT ![c] = Updated(session[c], Tail(q), w)]
      /\ At(c, "in") /\ session[c] \in Sessions
      /\ q \in Seq(Events) /\ q # <<>>
      /\ UNCHANGED <<entry, source, pipe, stale, leaver>>
  BY SessionsTyped DEF ReceiveEvent, Updated, states, redis, Bounded, Sessions
<1>2. /\ \A x \in Clients \ {c} : session'[x] = session[x]
      /\ session'[c].at = "in" /\ session'[c].chan = session[c].chan
      /\ session'[c].queue = Tail(q) /\ session'[c].view = w
      /\ session'[c].lagged = session[c].lagged
      /\ session'[c].covered = session[c].covered /\ session'[c].ghosts = session[c].ghosts
  <2> DEFINE rest == Tail(q)
             ses == Updated(session[c], rest, w)
  <2> HIDE DEF q, w, rest
  <2>1. session'[c] = ses /\ \A x \in Clients \ {c} : session'[x] = session[x]
    BY <1>1, OneMoves DEF rest
  <2>2. /\ ses.at = session[c].at /\ ses.chan = session[c].chan
        /\ ses.queue = rest /\ ses.view = w /\ ses.lagged = session[c].lagged
        /\ ses.covered = session[c].covered /\ ses.ghosts = session[c].ghosts
    BY <1>1, UpdatedKeeps
  <2> HIDE DEF ses
  <2> QED BY <1>1, <2>1, <2>2 DEF At, rest
<1>3. \A s \in States : Unreachable(s) => Unreachable(s)'
  BY <1>1, <1>2, Reach
<1>4. \A d \in Clients : Same(d)
  BY <1>1, <1>2, StaysSame, MovesSame DEF At
<1>5. ASSUME Watches(c)', NEW d \in Clients \ {c}
      PROVE  Fits(c, d)'
  <2>1. Fits(c, d)
    BY <1>1, <1>2, <1>5 DEF ViewsAgree, Watches, HasHandle, At
  <2>2. d \in w <=> Head(q) = Joined(d) \/ (d \in v /\ Head(q) # Left(d))
    <3>1. Head(q) \in Events
      BY <1>1
    <3>2. PICK x \in Clients : Head(q) \in {Joined(x), Left(x)}
      BY <3>1 DEF Events
    <3> QED BY <3>2 DEF Show, Joined, Left
  <2>3. d \in After(w, Tail(q)) <=> d \in After(v, q)
    BY <1>1, <2>2, AfterHead
  <2>4. d \in After(After(w, Tail(q)), pipe[session[c].chan]) <=>
           d \in After(After(v, q), pipe[session[c].chan])
    BY <2>3, AfterBetween
  <2>5. /\ Fewest(c) = v /\ Most(c) = v /\ Fewest(c)' = w /\ Most(c)' = w
        /\ Resurrected(c)' = Resurrected(c)
    BY <1>1, <1>2 DEF Fewest, Most, Resurrected, At
  <2>6. Undecided(d)' \/ (~Undecided(d) /\ (Announced(d)' <=> Announced(d)))
    BY <1>4 DEF Same
  <2> HIDE DEF v, w
  <2> QED BY <1>1, <1>2, <2>1, <2>4, <2>5, <2>6 DEF Fits, Says
<1>6. \A x \in Clients : \/ session'[x] = session[x]
                         \/ Watches(x)' => \A d \in Clients \ {x} : Fits(x, d)'
  BY <1>2, <1>5
<1>7. \A s \in States : source'[s] = "subscribed" =>
        /\ source[s] = "subscribed" /\ pipe'[s] = pipe[s]
        /\ Unreachable(s) => Unreachable(s)'
  BY <1>1, <1>3
<1> QED BY <1>4, <1>6, <1>7, Calm

(* Who drops the handle is undecided until the leave is announced. *)
LEMMA DropHandleViews ==
    ASSUME IInv, PipesAgree, ViewsAgree, NEW c \in Clients, DropHandle(c)
    PROVE  PipesAgree' /\ ViewsAgree'
<1>1. HasHandle(c)
  BY DEF DropHandle, HasHandle, At
<1>2. PICK l \in Leavers :
        /\ leaver[l] = NoTask
        /\ leaver' = [leaver EXCEPT ![l] =
              [at |-> "woken", client |-> c, chan |-> session[c].chan]]
  BY <1>1 DEF DropHandle, HasTask
<1>3. session' = [session EXCEPT ![c] = Idle] /\ UNCHANGED <<entry, source, pipe, stale>>
  BY DEF DropHandle, states, redis
<1>4. session'[c] = Idle /\ \A x \in Clients \ {c} : session'[x] = session[x]
  BY <1>3, OneMoves
<1>5. /\ leaver'[l].at = "woken" /\ leaver'[l].client = c /\ leaver'[l].chan = session[c].chan
      /\ leaver[l].at = "none"
      /\ \A k \in Leavers : k # l => leaver'[k] = leaver[k]
  BY <1>2 DEF IInv, TypeOK, NoTask
<1>6. \A s \in States : Unreachable(s) => Unreachable(s)'
  <2>1. \A x \in Clients : session'[x].chan \in {session[x].chan, None}
    BY <1>4 DEF Idle
  <2> QED BY <1>3, <1>5, <2>1, Reach
<1>7. ASSUME NEW d \in Clients PROVE Same(d)
  <2>1. CASE d = c
    BY <1>5, <2>1 DEF Same, Undecided, LeavesOf
  <2>2. CASE d # c
    BY <1>3, <1>4, <1>5, <2>2, StaysSame
  <2> QED BY <2>1, <2>2
<1>8. ~Watches(c)'
  BY <1>4 DEF Watches, HasHandle, Idle
<1>9. \A x \in Clients : \/ session'[x] = session[x]
                         \/ Watches(x)' => \A d \in Clients \ {x} : Fits(x, d)'
  BY <1>4, <1>8
<1>10. \A s \in States : source'[s] = "subscribed" =>
         /\ source[s] = "subscribed" /\ pipe'[s] = pipe[s]
         /\ Unreachable(s) => Unreachable(s)'
  BY <1>3, <1>6
<1> QED BY <1>7, <1>9, <1>10, Calm

(* A leave that publishes nothing decides nothing. *)
LEMMA LeaveViews ==
    ASSUME IInv, PipesAgree, ViewsAgree, NEW l \in Leavers,
           Leave(l) \/ Delete(l) \/ LeaveFails(l)
    PROVE  PipesAgree' /\ ViewsAgree'
<1>1. UNCHANGED <<session, source, pipe>>
  BY DEF Leave, Delete, LeaveFails, states, redis
<1>2. /\ \A k \in Leavers : k # l => leaver'[k] = leaver[k]
      /\ \/ /\ leaver[l].at = "woken" /\ leaver'[l].at = "publish" /\ stale' = stale
            /\ leaver'[l].client = leaver[l].client /\ leaver'[l].chan = leaver[l].chan
         \/ leaver[l].at = "delete" /\ leaver'[l] = NoTask /\ stale' = stale
         \/ leaver'[l] = NoTask /\ stale' = stale \cup {leaver[l].client}
  BY DEF Leave, Delete, LeaveFails, IInv, TypeOK, LeaveTasks
<1>3. \A g \in Gateways : entry'[g] \in {entry[g], None}
  BY DEF Leave, Delete, LeaveFails, states, IInv, TypeOK
<1>4. \A s \in States : Unreachable(s) => Unreachable(s)'
  <2>1. \A k \in Leavers : leaver'[k].chan \in {leaver[k].chan, None}
    BY <1>2 DEF NoTask
  <2> QED BY <1>1, <1>3, <2>1, Reach
<1>5. ASSUME NEW d \in Clients PROVE Same(d)
  BY <1>1, <1>2 DEF Same, Undecided, Announced, LeavesOf, NoTask
<1>6. \A x \in Clients : session'[x] = session[x]
  BY <1>1
<1>7. \A s \in States : source'[s] = "subscribed" =>
        /\ source[s] = "subscribed" /\ pipe'[s] = pipe[s]
        /\ Unreachable(s) => Unreachable(s)'
  BY <1>1, <1>4
<1> QED BY <1>5, <1>6, <1>7, Calm

(* A join and a leave are published. *)
LEMMA AnnounceJoinedViews ==
    ASSUME IInv, ~MayRejoin, PipesAgree, ViewsAgree, NEW c \in Clients, AnnounceJoined(c)
    PROVE  PipesAgree' /\ ViewsAgree'
<1>1. /\ At(c, "publish") /\ Publish(session[c].chan, Joined(c)) /\ stale' = stale \ {c}
      /\ UNCHANGED <<entry, source, leaver>>
  BY DEF AnnounceJoined, states
<1>2. ASSUME NEW x \in Clients
      PROVE  session'[x] = Published(session[x], IF x = c THEN "list" ELSE session[x].at,
                                      session[x].ghosts \ {c})
             /\ session[x] \in Sessions
  BY SessionsTyped DEF AnnounceJoined, Published, Bounded
<1>3. ASSUME NEW x \in Clients
      PROVE  /\ session'[x].at = IF x = c THEN "list" ELSE session[x].at
             /\ session'[x].chan = session[x].chan /\ session'[x].queue = session[x].queue
             /\ session'[x].view = session[x].view /\ session'[x].lagged = session[x].lagged
             /\ session'[x].covered = session[x].covered
             /\ session[x].ghosts \subseteq session'[x].ghosts \cup {c}
  <2> DEFINE a == IF x = c THEN "list" ELSE session[x].at
             gone == session[x].ghosts \ {c}
  <2>1. session'[x] = Published(session[x], a, gone) /\ session[x] \in Sessions
    BY <1>2
  <2>2. session[x].ghosts \subseteq gone \cup {c}
    OBVIOUS
  <2> HIDE DEF a, gone
  <2>3. /\ session'[x].at = a
        /\ session'[x].chan = session[x].chan /\ session'[x].queue = session[x].queue
        /\ session'[x].view = session[x].view /\ session'[x].lagged = session[x].lagged
        /\ session'[x].covered = session[x].covered
        /\ session'[x].ghosts = gone
    BY <2>1 DEF Published, Sessions
  <2> QED BY <2>2, <2>3 DEF a
<1>4. \A s \in States : Unreachable(s) => Unreachable(s)'
  BY <1>1, <1>3, Reach
<1>5. \A d \in Clients \ {c} : Same(d)
  BY <1>1, <1>3, StaysSame
<1>6. Undecided(c)' \/ (Announced(c)' <=> Joined(c) = Joined(c))
  BY <1>3 DEF Announced
<1>7. \A x \in Clients : \/ session'[x].at = session[x].at
                         \/ session[x].at = "publish" /\ session'[x].at = "list"
  BY <1>1, <1>3 DEF At
<1>8. /\ pipe' = [t \in States |-> IF t \in Recipients(session[c].chan)
                                  THEN Append(pipe[t], Joined(c)) ELSE pipe[t]]
      /\ source' = source
  BY <1>1 DEF Publish
<1>9. \A x \in Clients :
         /\ session'[x].chan = session[x].chan /\ session'[x].queue = session[x].queue
         /\ session'[x].view = session[x].view /\ session'[x].lagged = session[x].lagged
         /\ session'[x].covered = session[x].covered
         /\ session[x].ghosts \subseteq session'[x].ghosts \cup {c}
         /\ \/ session'[x].at = session[x].at
            \/ session[x].at = "publish" /\ session'[x].at = "list"
  BY <1>3, <1>7
<1> QED BY <1>4, <1>5, <1>6, <1>8, <1>9, PublishViews

(* Announcing a leave tells every subscribed state, and decides it. *)
LEMMA AnnounceLeftViews ==
    ASSUME IInv, ~MayRejoin, PipesAgree, ViewsAgree, NEW l \in Leavers, AnnounceLeft(l)
    PROVE  PipesAgree' /\ ViewsAgree'
<1>1. PICK k \in Clients :
      /\ leaver[l].at = "publish" /\ k = leaver[l].client
      /\ leaver' = [leaver EXCEPT ![l].at = "delete"]
      /\ pipe' = [t \in States |-> IF t \in Recipients(leaver[l].chan)
                                  THEN Append(pipe[t], Left(k)) ELSE pipe[t]]
      /\ UNCHANGED <<entry, source, stale, session>>
  BY DEF AnnounceLeft, Publish, states, IInv, Placed
<1>2. /\ \A m \in Leavers : m # l => leaver'[m] = leaver[m]
      /\ leaver'[l].at = "delete" /\ leaver'[l].client = k /\ leaver'[l].chan = leaver[l].chan
  BY <1>1 DEF IInv, TypeOK, LeaveTasks
<1>3. \A s \in States : Unreachable(s) => Unreachable(s)'
  BY <1>1, <1>2, Reach
<1>4. \A d \in Clients \ {k} : Same(d)
  BY <1>1, <1>2, StaysSame
<1>5. ~Announced(k)'
  BY <1>1 DEF IInv, OneLeaveEach, LeavesOf, At, Announced
<1>6. Left(k) # Joined(k)
  BY <1>1, EventsApart
<1>7. Undecided(k)' \/ (Announced(k)' <=> Left(k) = Joined(k))
  BY <1>5, <1>6
<1>8. \A x \in Clients :
         /\ session'[x].chan = session[x].chan /\ session'[x].queue = session[x].queue
         /\ session'[x].view = session[x].view /\ session'[x].lagged = session[x].lagged
         /\ session'[x].covered = session[x].covered
         /\ session[x].ghosts \subseteq session'[x].ghosts \cup {k}
         /\ \/ session'[x].at = session[x].at
            \/ session[x].at = "publish" /\ session'[x].at = "list"
  BY <1>1
<1>9. source' = source
  BY <1>1
<1> QED BY <1>1, <1>3, <1>4, <1>7, <1>8, <1>9, PublishViews

(* A source that subscribes has been sent nothing yet. *)
LEMMA SubscribeViews ==
    ASSUME IInv, Silent, PipesAgree, ViewsAgree, NEW s \in States, Subscribe(s)
    PROVE  PipesAgree' /\ ViewsAgree'
<1>1. /\ source[s] = "starting" /\ source' = [source EXCEPT ![s] = "subscribed"]
      /\ UNCHANGED <<entry, pipe, stale, session, leaver>>
      /\ source \in [States -> {"none", "starting", "subscribed", "ended"}]
  BY DEF Subscribe, states, redis, IInv, TypeOK
<1>2. \A t \in States : Unreachable(t) => Unreachable(t)'
  BY <1>1 DEF Unreachable
<1>3. \A d \in Clients : Same(d)
  BY <1>1, StaysSame
<1>4. pipe[s] = <<>>
  BY <1>1 DEF Silent
<1>5. ASSUME NEW t \in States, (t \in Recipients(t))', NEW d \in Clients
      PROVE  Undecided(d)' \/ Says({}, Clients, pipe[t], d)'
  <2>1. CASE t = s
    BY <1>1, <1>4, <2>1, AfterNothing DEF Says
  <2>2. CASE t # s
    <3>1. t \in Recipients(t)
      BY <1>1, <1>2, <1>5, <2>2 DEF Recipients
    <3> QED BY <1>1, <1>3, <3>1 DEF PipesAgree, Says, Same
  <2> QED BY <2>1, <2>2
<1>6. ASSUME NEW x \in Clients, NEW d \in Clients \ {x}, Watches(x)'
      PROVE  Fits(x, d)'
  <2>1. CASE session[x].chan = s
    <3>1. HasHandle(x) /\ ~At(x, "in")
      BY <1>1, <1>6, <2>1 DEF Watches, HasHandle, Silent, At
    <3>2. session[x].queue = <<>>
      BY <1>1, <2>1, <3>1 DEF Silent
    <3>3. Fewest(x)' = {} /\ Most(x)' = Clients
      BY <1>1, <3>1 DEF Fewest, Most, At
    <3>4. d \notin After(After({}, <<>>), <<>>) /\ d \in After(After(Clients, <<>>), <<>>)
      BY AfterNothing
    <3> QED BY <1>1, <1>4, <2>1, <3>2, <3>3, <3>4 DEF Fits, Says
  <2>2. CASE session[x].chan # s
    <3>1. session'[x] = session[x] /\ Same(d) /\ pipe' = pipe
      BY <1>1, <1>3
    <3>2. session[x].chan \in States
      BY <1>6, <3>1, StateKnown DEF Watches, HasHandle, At
    <3>3. source'[session[x].chan] = source[session[x].chan]
      BY <1>1, <2>2, <3>2
    <3> QED BY <1>6, <3>1, <3>3, Bystander DEF ViewsAgree
  <2> QED BY <2>1, <2>2
<1> QED BY <1>5, <1>6 DEF PipesAgree, ViewsAgree

(* The rest of the events says less than all of them. *)
LEMMA AfterRest ==
    ASSUME NEW q \in Seq(Events), q # <<>>, NEW d \in Clients
    PROVE  /\ d \in After({}, Tail(q)) => d \in After({}, q)
           /\ d \in After(Clients, q) => d \in After(Clients, Tail(q))
<1> DEFINE lo == IF Head(q) = Joined(d) THEN Clients ELSE {}
           hi == IF Head(q) = Left(d) THEN {} ELSE Clients
<1>1. d \in lo <=> Head(q) = Joined(d) \/ (d \in {} /\ Head(q) # Left(d))
  OBVIOUS
<1>2. d \in hi <=> Head(q) = Joined(d) \/ (d \in Clients /\ Head(q) # Left(d))
  BY EventsApart
<1> HIDE DEF lo, hi
<1>3. d \in After(lo, Tail(q)) <=> d \in After({}, q)
  BY <1>1, AfterHead
<1>4. d \in After(hi, Tail(q)) <=> d \in After(Clients, q)
  BY <1>2, AfterHead
<1> QED BY <1>3, <1>4, AfterBetween

(* What the broadcast of one event does to a session that keeps up. *)
LEMMA PushAdds ==
    ASSUME NEW ses \in Sessions, NEW e
    PROVE  /\ Push(ses, e).at = ses.at /\ Push(ses, e).chan = ses.chan
           /\ Push(ses, e).view = ses.view
           /\ Push(ses, e).covered = ses.covered /\ Push(ses, e).ghosts = ses.ghosts
           /\ ~Push(ses, e).lagged => ~ses.lagged /\ Push(ses, e).queue = Append(ses.queue, e)
BY DEF Push, Sessions

(* An event moves from the pipe of a state to those who listen there. *)
LEMMA AfterMoves ==
    ASSUME NEW q \in Seq(Events), NEW p \in Seq(Events), p # <<>>, NEW d \in Clients, NEW v
    PROVE  d \in After(After(v, Append(q, Head(p))), Tail(p)) <=> d \in After(After(v, q), p)
<1>1. PICK k \in Clients : Head(p) \in {Joined(k), Left(k)}
  <2>1. Head(p) \in Events
    OBVIOUS
  <2> QED BY <2>1 DEF Events
<1>2. d \in After(v, Append(q, Head(p))) <=>
         Head(p) = Joined(d) \/ (d \in After(v, q) /\ Head(p) # Left(d))
  <2>1. CASE Head(p) = Joined(k)
    BY <2>1, AfterAppend, EventsApart
  <2>2. CASE Head(p) = Left(k)
    <3>1. d \in After(v, Append(q, Left(k))) <=> d # k /\ d \in After(v, q)
      BY AfterAppend
    <3> QED BY <2>2, <3>1, EventsApart
  <2> QED BY <1>1, <2>1, <2>2
<1> QED BY <1>2, AfterHead

(* An event delivered moves from the pipe to every queue behind it. *)
LEMMA DeliverViews ==
    ASSUME IInv, PipesAgree, ViewsAgree, NEW s \in States, Deliver(s)
    PROVE  PipesAgree' /\ ViewsAgree'
<1> DEFINE p == pipe[s]
<1>1. /\ source[s] = "subscribed" /\ p # <<>> /\ p \in Seq(Events)
      /\ pipe' = [pipe EXCEPT ![s] = Tail(p)]
      /\ UNCHANGED <<entry, source, stale, leaver>>
      /\ pipe \in [States -> Seq(Events)]
  BY DEF Deliver, states, IInv, TypeOK
<1>2. /\ pipe'[s] = Tail(p)
      /\ \A t \in States \ {s} : pipe'[t] = pipe[t]
  BY <1>1
<1>3. \A x \in Clients :
        /\ x \in Receivers(s) => session'[x] = Push(session[x], Head(p))
        /\ x \notin Receivers(s) => session'[x] = session[x]
        /\ session[x] \in Sessions
  BY SessionsTyped DEF Deliver, Bounded
<1>4. \A x \in Clients : session'[x].at = session[x].at /\ session'[x].chan = session[x].chan
  BY <1>3, PushAdds
<1>5. \A t \in States : Unreachable(t) => Unreachable(t)'
  BY <1>1, <1>4 DEF Unreachable
<1>6. \A d \in Clients : Same(d)
  BY <1>1, <1>4, StaysSame
<1>7. ASSUME NEW t \in States, (t \in Recipients(t))', NEW d \in Clients
      PROVE  Undecided(d)' \/ Says({}, Clients, pipe[t], d)'
  <2>1. t \in Recipients(t)
    BY <1>1, <1>5, <1>7 DEF Recipients
  <2>2. Undecided(d) \/ Says({}, Clients, pipe[t], d)
    BY <2>1 DEF PipesAgree
  <2>3. /\ d \in After({}, pipe'[t]) => d \in After({}, pipe[t])
        /\ d \in After(Clients, pipe[t]) => d \in After(Clients, pipe'[t])
    <3>1. CASE t = s
      BY <1>1, <1>2, <3>1, AfterRest
    <3>2. CASE t # s
      BY <1>2, <3>2
    <3> QED BY <3>1, <3>2
  <2> QED BY <1>6, <2>2, <2>3 DEF Says, Same
<1>8. ASSUME NEW x \in Clients, NEW d \in Clients \ {x}, Watches(x)'
      PROVE  Fits(x, d)'
  <2>1. HasHandle(x) /\ session[x].chan \in States
    BY <1>4, <1>8, StateKnown DEF Watches, HasHandle, At
  <2>2. CASE x \in Receivers(s)
    <3> DEFINE q == session[x].queue
    <3>1. session'[x] = Push(session[x], Head(p)) /\ session[x] \in Sessions
      BY <1>3, <2>2
    <3>2. /\ session[x].chan = s /\ session'[x].chan = s
          /\ session'[x].view = session[x].view /\ session'[x].covered = session[x].covered
          /\ session'[x].ghosts = session[x].ghosts
          /\ ~session[x].lagged /\ session'[x].queue = Append(q, Head(p))
          /\ q \in Seq(Events)
      BY <1>4, <1>8, <2>2, <3>1, PushAdds DEF Watches, Receivers, Sessions
    <3>3. Fits(x, d)
      BY <1>1, <1>4, <1>8, <3>2 DEF ViewsAgree, Watches, HasHandle, At
    <3>4. Fewest(x)' = Fewest(x) /\ Most(x)' = Most(x) /\ Resurrected(x)' = Resurrected(x)
      BY <1>4, <3>2 DEF Fewest, Most, Resurrected, At
    <3>5. \A v : d \in After(After(v, Append(q, Head(p))), Tail(p)) <=>
                   d \in After(After(v, q), p)
      <4> HIDE DEF p, q
      <4> QED BY <1>1, <3>2, AfterMoves
    <3>6. Undecided(d)' \/ (~Undecided(d) /\ (Announced(d)' <=> Announced(d)))
      BY <1>6 DEF Same
    <3>7. \/ Undecided(d) \/ d \in Resurrected(x)
          \/ Says(After(Fewest(x), q), After(Most(x), q), p, d)
      BY <3>2, <3>3 DEF Fits
    <3>8. pipe'[session'[x].chan] = Tail(p) /\ session'[x].queue = Append(q, Head(p))
      BY <1>2, <3>2
    <3> HIDE DEF p, q
    <3> QED BY <3>4, <3>5, <3>6, <3>7, <3>8 DEF Fits, Says
  <2>3. CASE x \notin Receivers(s)
    <3>1. session'[x] = session[x] /\ session[x].chan # s
      BY <1>3, <2>1, <2>3 DEF Receivers
    <3>2. source' = source /\ pipe'[session[x].chan] = pipe[session[x].chan] /\ Same(d)
      BY <1>1, <1>2, <1>6, <2>1, <3>1
    <3> QED BY <1>8, <3>1, <3>2, Bystander DEF ViewsAgree
  <2> QED BY <2>2, <2>3
<1> QED BY <1>7, <1>8 DEF PipesAgree, ViewsAgree

(* A source that ends watches for nobody. *)
LEMMA SourceEndsViews ==
    ASSUME IInv, PipesAgree, ViewsAgree, NEW s \in States, Retire(s) \/ SourceFails(s)
    PROVE  PipesAgree' /\ ViewsAgree'
<1>1. /\ source' = [source EXCEPT ![s] = "ended"] /\ pipe' = [pipe EXCEPT ![s] = <<>>]
      /\ UNCHANGED <<entry, stale, session, leaver>>
  BY DEF Retire, SourceFails, states
<1>2. \A t \in States : source'[t] = "subscribed" =>
        /\ source[t] = "subscribed" /\ pipe'[t] = pipe[t]
        /\ Unreachable(t) => Unreachable(t)'
  BY <1>1 DEF Unreachable, IInv, TypeOK
<1>3. \A d \in Clients : Same(d)
  BY <1>1, StaysSame
<1>4. \A x \in Clients : session'[x] = session[x]
  BY <1>1
<1> QED BY <1>2, <1>3, <1>4, Calm

-----------------------------------------------------------------------------
(* Silence until a source has subscribed *)

SilentPipes == \A s \in States : source[s] # "subscribed" => pipe[s] = <<>>
SilentSession(c) ==
    /\ ~HasHandle(c) => session[c].queue = <<>>
    /\ HasHandle(c) /\ source[session[c].chan] = "starting" => session[c].queue = <<>>
    /\ At(c, "in") /\ session[c].covered =>
          source[session[c].chan] \in {"subscribed", "ended"}
NoTasks == \A l \in Leavers : leaver[l].at = "none" => leaver[l] = NoTask

(* Silent in its parts, before a step and after it *)
LEMMA SilentParts ==
    /\ Silent <=> SilentPipes /\ (\A c \in Clients : SilentSession(c)) /\ NoTasks
    /\ Silent' <=> SilentPipes' /\ (\A c \in Clients : SilentSession(c)') /\ NoTasks'
BY DEF Silent, SilentPipes, SilentSession, NoTasks

(* A session that nothing happens to, whose source has not started anew. *)
LEMMA SilentStays ==
    ASSUME NEW c \in Clients, SilentSession(c), session'[c] = session[c],
           HasHandle(c) => \/ source'[session[c].chan] = source[session[c].chan]
                          \/ source'[session[c].chan] \in {"subscribed", "ended"}
    PROVE  SilentSession(c)'
BY DEF SilentSession, HasHandle, At

(* Who finds or makes a state has nothing from it in its queue. *)
LEMMA LookupSilent ==
    ASSUME IInv, Silent, NEW c \in Clients, NEW g \in Gateways, Lookup(c, g),
           session[c].at \in {"idle", "open"}
    PROVE  Silent'
<1>1. PICK s \in States :
        /\ \/ UNCHANGED <<source, pipe>>
           \/ /\ Unreachable(s)
              /\ source' = [source EXCEPT ![s] = "starting"]
              /\ pipe' = [pipe EXCEPT ![s] = <<>>]
        /\ session' = [session EXCEPT ![c].at = "open", ![c].chan = s]
        /\ leaver' = leaver
  BY DEF Lookup
<1>2. session' = [session EXCEPT ![c] = Lent(session[c], "open", s)]
  BY <1>1, SessionsTyped DEF Lent
<1>3. /\ session'[c].at = "open" /\ session'[c].queue = session[c].queue
      /\ \A x \in Clients \ {c} : session'[x] = session[x]
  BY <1>2, OneMoves, LentKeeps, SessionsTyped DEF Bounded
<1>4. SilentPipes'
  BY <1>1, SilentParts DEF SilentPipes, IInv, TypeOK
<1>5. ASSUME NEW x \in Clients PROVE SilentSession(x)'
  <2>1. CASE x = c
    BY <1>3, <2>1 DEF SilentSession, Silent, HasHandle, At
  <2>2. CASE x # c
    <3>1. HasHandle(x) => source'[session[x].chan] = source[session[x].chan]
      <4> SUFFICES ASSUME HasHandle(x) PROVE source'[session[x].chan] = source[session[x].chan]
        OBVIOUS
      <4>1. session[x].chan \in States
        BY StateKnown DEF HasHandle, At
      <4> QED BY <1>1, <4>1 DEF Unreachable, IInv, TypeOK
    <3> QED BY <1>3, <2>2, <3>1, SilentStays, SilentParts
  <2> QED BY <2>1, <2>2
<1>6. NoTasks'
  BY <1>1, SilentParts DEF NoTasks
<1> QED BY <1>4, <1>5, <1>6, SilentParts

(* Steps of a session that reach no source. *)
LEMMA SessionSilent ==
    ASSUME IInv, Silent, NEW c \in Clients,
           \/ GiveUp(c) \/ Join(c) \/ Store(c) \/ ListMembers(c)
           \/ ReceiveEvent(c) \/ DropHandle(c)
    PROVE  Silent'
<1>1. PICK ses :
        /\ session' = [session EXCEPT ![c] = ses]
        /\ \/ ses = Idle
           \/ At(c, "open") /\ ses = Moved(session[c], "store")
           \/ At(c, "store") /\ ses = Moved(session[c], "publish")
           \/ /\ At(c, "list")
              /\ ses = Told(session[c], "in", members, source[session[c].chan] = "subscribed",
                            members \cap Departing)
           \/ /\ At(c, "in") /\ session[c].queue # <<>>
              /\ ses = Updated(session[c], Tail(session[c].queue),
                               Show(c, session[c].view, Head(session[c].queue)))
        /\ UNCHANGED <<source, pipe>>
  <2>1. CASE GiveUp(c) \/ DropHandle(c)
    BY <2>1 DEF GiveUp, DropHandle, redis
  <2>2. CASE Join(c) \/ Store(c)
    BY <2>2, SessionsTyped DEF Join, Store, Moved, redis
  <2>3. CASE ListMembers(c)
    BY <2>3, SessionsTyped DEF ListMembers, Told, redis
  <2>4. CASE ReceiveEvent(c)
    BY <2>4, SessionsTyped DEF ReceiveEvent, Updated, redis
  <2> QED BY <2>1, <2>2, <2>3, <2>4
<1>2. session'[c] = ses /\ \A x \in Clients \ {c} : session'[x] = session[x]
  BY <1>1, OneMoves
<1>3. SilentPipes'
  BY <1>1, SilentParts DEF SilentPipes
<1>4. SilentSession(c)'
  <2> DEFINE t == session[c].chan
  <2>1. session[c] \in Sessions /\ SilentSession(c)
    BY SessionsTyped, SilentParts DEF Bounded
  <2>2. CASE ses = Idle
    BY <1>2, <2>2 DEF SilentSession, HasHandle, At, Idle
  <2>3. CASE At(c, "open") /\ ses = Moved(session[c], "store")
    <3>1. ses.at = "store" /\ ses.queue = <<>>
      BY <2>1, <2>3, MovedKeeps DEF SilentSession, HasHandle, At
    <3> QED BY <1>2, <3>1 DEF SilentSession, At
  <2>4. CASE At(c, "store") /\ ses = Moved(session[c], "publish")
    <3>1. ses.at = "publish" /\ ses.queue = session[c].queue /\ ses.chan = t
      BY <2>1, <2>4, MovedKeeps
    <3> QED BY <1>1, <1>2, <2>1, <2>4, <3>1 DEF SilentSession, HasHandle, At
  <2>5. CASE /\ At(c, "list")
             /\ ses = Told(session[c], "in", members, source[session[c].chan] = "subscribed",
                           members \cap Departing)
    <3>1. /\ ses.at = "in" /\ ses.queue = session[c].queue /\ ses.chan = t
          /\ ses.covered = (source[t] = "subscribed")
      BY <2>1, <2>5, ToldKeeps
    <3> QED BY <1>1, <1>2, <2>1, <2>5, <3>1 DEF SilentSession, HasHandle, At
  <2>6. CASE /\ At(c, "in") /\ session[c].queue # <<>>
             /\ ses = Updated(session[c], Tail(session[c].queue),
                              Show(c, session[c].view, Head(session[c].queue)))
    <3> DEFINE rest == Tail(session[c].queue)
               view == Show(c, session[c].view, Head(session[c].queue))
    <3> HIDE DEF rest, view
    <3>1. ses = Updated(session[c], rest, view)
      BY <2>6 DEF rest, view
    <3>2. ses.at = session[c].at /\ ses.chan = t /\ ses.covered = session[c].covered
      BY <2>1, <3>1, UpdatedKeeps
    <3>3. source[t] # "starting"
      BY <2>1, <2>6 DEF SilentSession, HasHandle, At
    <3> QED BY <1>1, <1>2, <2>1, <2>6, <3>2, <3>3 DEF SilentSession, HasHandle, At
  <2> QED BY <1>1, <2>2, <2>3, <2>4, <2>5, <2>6
<1>5. ASSUME NEW x \in Clients PROVE SilentSession(x)'
  BY <1>1, <1>2, <1>4, SilentStays, SilentParts
<1>6. NoTasks'
  <2>1. CASE leaver' = leaver
    BY <2>1, SilentParts DEF NoTasks
  <2>2. CASE DropHandle(c)
    <3>1. \/ leaver' = leaver
          \/ \E l \in Leavers : leaver' = [leaver EXCEPT ![l] =
                [at |-> "woken", client |-> c, chan |-> session[c].chan]]
      BY <2>2 DEF DropHandle
    <3>2. \A k \in Leavers : leaver'[k] = leaver[k] \/ leaver'[k].at = "woken"
      BY <3>1 DEF IInv, TypeOK
    <3> QED BY <3>2, SilentParts DEF NoTasks
  <2> QED BY <2>1, <2>2 DEF GiveUp, Join, Store, ListMembers, ReceiveEvent
<1> QED BY <1>3, <1>5, <1>6, SilentParts

(* No step brings an event to where nobody listens. *)
LEMMA StepSilent == IInv /\ Silent /\ [Next]_vars => Silent'
<1> SUFFICES ASSUME IInv, Silent, [Next]_vars PROVE Silent'
  OBVIOUS
<1>1. ASSUME UNCHANGED <<session, source, pipe>>, NoTasks' PROVE Silent'
  BY <1>1, SilentParts DEF SilentPipes, SilentSession, HasHandle, At
<1>2. ASSUME NEW c \in Clients, SessionStep(c) PROVE Silent'
  <2>1. CASE Get(c) \/ ReassignVoice(c)
    BY <2>1, LookupSilent DEF Get, ReassignVoice, At, IInv, Placed
  <2>2. CASE AnnounceJoined(c)
    <3>1. /\ UNCHANGED <<source, leaver>> /\ Publish(session[c].chan, Joined(c))
          /\ At(c, "publish")
      BY <2>2 DEF AnnounceJoined, states
    <3>2. SilentPipes'
      BY <3>1, SilentParts DEF SilentPipes, Publish, Recipients, IInv, TypeOK
    <3>3. ASSUME NEW x \in Clients PROVE SilentSession(x)'
      <4> DEFINE a == IF x = c THEN "list" ELSE session[x].at
                 gone == session[x].ghosts \ {c}
      <4>1. session'[x] = Published(session[x], a, gone) /\ session[x] \in Sessions
        BY <2>2, SessionsTyped DEF AnnounceJoined, Published, Bounded
      <4> HIDE DEF a, gone
      <4>2. /\ session'[x].at = a /\ session'[x].chan = session[x].chan
            /\ session'[x].queue = session[x].queue
            /\ session'[x].covered = session[x].covered
        BY <4>1 DEF Published, Sessions
      <4> QED BY <3>1, <4>2, SilentParts DEF SilentSession, HasHandle, At, a
    <3>4. NoTasks'
      BY <3>1, SilentParts DEF NoTasks
    <3> QED BY <3>2, <3>3, <3>4, SilentParts
  <2> QED BY <1>2, <2>1, <2>2, SessionSilent DEF SessionStep
<1>3. ASSUME NEW l \in Leavers, LeaveStep(l) PROVE Silent'
  <2>1. NoTasks'
    <3>1. \A k \in Leavers : \/ leaver'[k] \in {leaver[k], NoTask}
                             \/ leaver'[k].at \in {"publish", "delete"}
      BY <1>3 DEF LeaveStep, Leave, AnnounceLeft, Delete, LeaveFails, IInv, TypeOK, LeaveTasks
    <3> QED BY <3>1, SilentParts DEF NoTasks
  <2>2. CASE Leave(l) \/ Delete(l) \/ LeaveFails(l)
    BY <1>1, <2>1, <2>2 DEF Leave, Delete, LeaveFails, states, redis
  <2>3. CASE AnnounceLeft(l)
    <3>1. UNCHANGED <<source, session>> /\ Publish(leaver[l].chan, Left(leaver[l].client))
      BY <2>3 DEF AnnounceLeft
    <3>2. SilentPipes'
      BY <3>1, SilentParts DEF SilentPipes, Publish, Recipients, IInv, TypeOK
    <3>3. \A x \in Clients : SilentSession(x)'
      BY <3>1, SilentParts, SilentStays
    <3> QED BY <2>1, <3>2, <3>3, SilentParts
  <2> QED BY <1>3, <2>2, <2>3 DEF LeaveStep
<1>4. ASSUME NEW s \in States, SourceStep(s) PROVE Silent'
  <2>1. NoTasks'
    <3>1. leaver' = leaver
      BY <1>4 DEF SourceStep, Subscribe, Deliver, Retire, SourceFails
    <3> QED BY <3>1, SilentParts DEF NoTasks
  <2>2. CASE Subscribe(s) \/ Retire(s) \/ SourceFails(s)
    <3>1. PICK v \in {"subscribed", "ended"} :
            /\ source' = [source EXCEPT ![s] = v] /\ session' = session
            /\ \/ v = "subscribed" /\ pipe' = pipe
               \/ pipe' = [pipe EXCEPT ![s] = <<>>]
      BY <2>2 DEF Subscribe, Retire, SourceFails, redis
    <3>2. SilentPipes'
      BY <3>1, SilentParts DEF SilentPipes, IInv, TypeOK
    <3>3. ASSUME NEW x \in Clients PROVE SilentSession(x)'
      <4>1. HasHandle(x) => session[x].chan \in States
        BY StateKnown DEF HasHandle, At
      <4>2. HasHandle(x) => source'[session[x].chan] \in {source[session[x].chan], v}
        BY <3>1, <4>1 DEF IInv, TypeOK
      <4> QED BY <3>1, <4>2, SilentStays, SilentParts
    <3> QED BY <2>1, <3>2, <3>3, SilentParts
  <2>3. CASE Deliver(s)
    <3>1. /\ source[s] = "subscribed" /\ source' = source
          /\ \A t \in States \ {s} : pipe'[t] = pipe[t]
          /\ \A x \in Clients : x \notin Receivers(s) => session'[x] = session[x]
          /\ \A x \in Receivers(s) : session'[x] = Push(session[x], Head(pipe[s]))
      BY <2>3 DEF Deliver, Receivers, IInv, TypeOK
    <3>2. SilentPipes'
      BY <3>1, SilentParts DEF SilentPipes
    <3>3. ASSUME NEW x \in Clients PROVE SilentSession(x)'
      <4>1. CASE x \notin Receivers(s)
        BY <3>1, <4>1, SilentStays, SilentParts
      <4>2. CASE x \in Receivers(s)
        <5>1. session'[x] = Push(session[x], Head(pipe[s])) /\ session[x] \in Sessions
          BY <3>1, <4>2, SessionsTyped DEF Bounded
        <5>2. /\ session'[x].at = session[x].at /\ session'[x].chan = s
              /\ HasHandle(x)
          BY <4>2, <5>1, PushAdds DEF Receivers
        <5> QED BY <3>1, <5>2 DEF SilentSession, HasHandle, At
      <4> QED BY <4>1, <4>2
    <3> QED BY <2>1, <3>2, <3>3, SilentParts
  <2> QED BY <1>4, <2>2, <2>3 DEF SourceStep
<1>5. CASE UNCHANGED vars
  <2>1. NoTasks'
    BY <1>5, SilentParts DEF vars, NoTasks
  <2> QED BY <1>1, <1>5, <2>1 DEF vars, redis
<1> QED BY <1>2, <1>3, <1>4, <1>5 DEF Next

-----------------------------------------------------------------------------

(* At first there is nothing to hear and nobody to be shown. *)
LEMMA InitWatch == Init => Watch
<1> SUFFICES ASSUME Init PROVE Watch
  OBVIOUS
<1>1. Silent /\ PipesAgree /\ ViewsAgree
  BY DEF Init, Silent, PipesAgree, ViewsAgree, Recipients, Watches, HasHandle, At, NoTask, Idle
<1> QED BY <1>1, InitOK DEF Watch

(* No step makes a view, with what is on its way to it, wrong. *)
LEMMA StepWatch == Watch /\ [Next]_vars => Watch'
<1> SUFFICES ASSUME Watch, [Next]_vars PROVE Watch'
  OBVIOUS
<1>1. IInv /\ IInv' /\ Silent /\ Silent'
  BY StepKeeps, StepSilent DEF Watch
<1>2. ASSUME ~MayRejoin PROVE PipesAgree' /\ ViewsAgree'
  <2>1. PipesAgree /\ ViewsAgree
    BY <1>2 DEF Watch
  <2>2. ASSUME NEW c \in Clients, SessionStep(c) PROVE PipesAgree' /\ ViewsAgree'
    <3>1. CASE Get(c) \/ ReassignVoice(c)
      BY <1>1, <2>1, <3>1, LookupViews DEF Get, ReassignVoice, At, IInv, Placed
    <3> QED BY <1>1, <1>2, <2>1, <2>2, <3>1, SessionViews, AnnounceJoinedViews,
               ListMembersViews, ReceiveEventViews, DropHandleViews DEF SessionStep
  <2>3. ASSUME NEW l \in Leavers, LeaveStep(l) PROVE PipesAgree' /\ ViewsAgree'
    BY <1>1, <1>2, <2>1, <2>3, LeaveViews, AnnounceLeftViews DEF LeaveStep
  <2>4. ASSUME NEW s \in States, SourceStep(s) PROVE PipesAgree' /\ ViewsAgree'
    BY <1>1, <2>1, <2>4, SubscribeViews, DeliverViews, SourceEndsViews DEF SourceStep
  <2>5. CASE UNCHANGED vars
    <3>1. UNCHANGED <<entry, source, pipe, stale, session, leaver>>
      BY <2>5 DEF vars, states, redis
    <3>2. /\ \A d \in Clients : Same(d)
          /\ \A x \in Clients : session'[x] = session[x]
      BY <3>1, StaysSame
    <3>3. \A s \in States : source'[s] = "subscribed" =>
            /\ source[s] = "subscribed" /\ pipe'[s] = pipe[s]
            /\ Unreachable(s) => Unreachable(s)'
      BY <3>1 DEF Unreachable
    <3> QED BY <1>1, <2>1, <3>2, <3>3, Calm
  <2> QED BY <2>2, <2>3, <2>4, <2>5 DEF Next
<1> QED BY <1>1, <1>2, FlagsBoolean DEF Watch

(* The stronger invariant holds throughout. *)
THEOREM Watched == Spec => []Watch
BY InitWatch, StepWatch, PTL DEF Spec

(* Unless clients rejoin early, a client whose gateway was subscribed when it
   read the hash, and which has lost no event, is shown just those whose join
   has been published and whose leave has not, on any gateway, but for such as
   were listed between the publication and the deletion of their leave
   (state/distributed.rs: join, leave, list_members, the event source).      *)
THEOREM ViewsAreExact == Spec => []ViewExact
<1>1. ASSUME ViewsAgree PROVE ViewExact
  <2> SUFFICES ASSUME NEW c \in Clients, At(c, "in"), session[c].covered, ~session[c].lagged,
                      source[session[c].chan] = "subscribed",
                      NEW d \in Clients \ (session[c].ghosts \cup {c}), ~Undecided(d)
               PROVE  d \in Shown(c) <=> session[d].at \in {"list", "in"}
    BY DEF ViewExact
  <2>1. Fits(c, d)
    BY <1>1 DEF ViewsAgree, Watches, HasHandle, At
  <2> QED BY <2>1 DEF Fits, Fewest, Most, Resurrected, Says, Announced, Shown
<1>2. Watch => ViewExact
  BY <1>1 DEF Watch, ViewExact
<1> QED BY <1>2, Watched, PTL
=============================================================================
