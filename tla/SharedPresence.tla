--------------------------- MODULE SharedPresence ---------------------------
(***************************************************************************)
(* Who is present in one channel that several gateways share over Redis    *)
(* (server/gateway/src/server/channels/state/distributed.rs, used as       *)
(* channels/mod.rs and session.rs do): a hash of members that sessions     *)
(* list, and published events that each gateway's event source hands to    *)
(* its own sessions.                                                       *)
(*                                                                         *)
(* What a gateway keeps by itself (its map, LocallyPresent, the lock a     *)
(* leave holds while it closes the channel) is the subject of Presence;    *)
(* here a lookup and a leave are one step each, and the steps between them *)
(* are those that go to Redis.                                             *)
(***************************************************************************)
EXTENDS Naturals, FiniteSets, Sequences

CONSTANTS
    Clients,    \* clients, each with one session at a time
    Gateways,
    States,     \* a gateway's channel states, used again once unreachable
    Leavers,    \* tasks of the sessions' handles, once these are dropped
    EventCap,   \* capacity of a state's broadcast (100 in the code)
    PipeCap,    \* bound: events on their way from Redis to an event source
    MayRejoin,  \* a client joins again although its last leave is under way
    MayFail,    \* requests to Redis and event sources fail
    None

ASSUME CapsPositive == EventCap \in Nat \ {0} /\ PipeCap \in Nat \ {0}
ASSUME FlagsBoolean == MayRejoin \in BOOLEAN /\ MayFail \in BOOLEAN
ASSUME NoneIsNobody == None \notin Clients \cup Gateways \cup States

VARIABLES
    entry,      \* the state each gateway's map leads to, or None
    home,       \* the gateway of each state
    local,      \* LocallyPresent.inner of each state
    live,       \* the states whose LocallyPresent.live is set
    source,     \* what the event source of each state is doing
    pipe,       \* published events that a source has not read
    members,    \* clients in the Redis hash of the channel
    stale,      \* history: clients whose last leave failed half-way
    session,
    leaver

redis == <<members, pipe>>
states == <<entry, home, local, live>>
vars == <<states, source, redis, stale, session, leaver>>

-----------------------------------------------------------------------------
(* Values *)

Joined(c) == [kind |-> "joined", source |-> c]
Left(c) == [kind |-> "left", source |-> c]
Events == {Joined(c) : c \in Clients} \cup {Left(c) : c \in Clients}

(* covered (history): the source was subscribed when the members were listed;
   ghosts (history): members listed whose leave had been published before.   *)
Sessions ==
    [at : {"idle", "open", "store", "publish", "list", "in"},
     chan : States \cup {None},
     queue : Seq(Events),
     view : SUBSET Clients,
     lagged : BOOLEAN,
     covered : BOOLEAN,
     ghosts : SUBSET Clients]

Idle == [at |-> "idle", chan |-> None, queue |-> <<>>, view |-> {},
         lagged |-> FALSE, covered |-> FALSE, ghosts |-> {}]

LeaveTasks == [at : {"none", "woken", "publish", "delete"},
               client : Clients \cup {None},
               chan : States \cup {None}]

NoTask == [at |-> "none", client |-> None, chan |-> None]

At(c, at) == session[c].at = at
HasHandle(c) == session[c].at \in {"store", "publish", "list", "in"}
LeavesOf(c) == {l \in Leavers : leaver[l].client = c}

(* Nothing but its event source knows of the state. *)
Unreachable(s) ==
    /\ \A g \in Gateways : entry[g] # s
    /\ \A c \in Clients : session[c].chan # s
    /\ \A l \in Leavers : leaver[l].chan # s

Init ==
    /\ entry = [g \in Gateways |-> None]
    /\ home = [s \in States |-> None]
    /\ local = [s \in States |-> {}]
    /\ live = {}
    /\ source = [s \in States |-> "none"]
    /\ pipe = [s \in States |-> <<>>]
    /\ members = {}
    /\ stale = {}
    /\ session = [c \in Clients |-> Idle]
    /\ leaver = [l \in Leavers |-> NoTask]

-----------------------------------------------------------------------------
(* Events.  Operators named Bug... are no part of the specification: each is
   a faulty form of the definition that follows it, which some property must
   reject.                                                                   *)

BugUnboundedQueue(ses, e) == [ses EXCEPT !.queue = Append(@, e)]

(* A full subscriber loses its oldest event. *)
Push(ses, e) ==
    IF Len(ses.queue) < EventCap
    THEN [ses EXCEPT !.queue = Append(@, e)]
    ELSE [ses EXCEPT !.queue = Append(Tail(@), e), !.lagged = TRUE]

Receivers(s) == {c \in Clients : HasHandle(c) /\ session[c].chan = s}

(* The client is shown what the event says, unless it is its own. *)
Show(c, view, e) ==
    IF e.source = c THEN view
    ELSE IF e.kind = "joined" THEN view \cup {e.source}
    ELSE view \ {e.source}

BugRemoteOnly(s) ==
    {t \in States \ {s} : source[t] = "subscribed" /\ ~Unreachable(t)}

(* Redis hands a published event to every subscribed source, and a gateway
   hears its own events in no other way.  What reaches the source of an
   unreachable state reaches nobody.                                         *)
Recipients(s) == {t \in States : source[t] = "subscribed" /\ ~Unreachable(t)}

Publish(s, e) ==
    /\ \A t \in Recipients(s) : Len(pipe[t]) < PipeCap
    /\ pipe' = [t \in States |->
                  IF t \in Recipients(s) THEN Append(pipe[t], e) ELSE pipe[t]]

-----------------------------------------------------------------------------
(* Joining *)

(* get_or_init: the mapped state, or a new one, whose source is spawned and
   not awaited.                                                              *)
Lookup(c, g) ==
    \E s \in States :
        /\ IF entry[g] # None
           THEN s = entry[g] /\ UNCHANGED <<states, source, pipe>>
           ELSE /\ Unreachable(s)
                /\ entry' = [entry EXCEPT ![g] = s]
                /\ home' = [home EXCEPT ![s] = g]
                /\ local' = [local EXCEPT ![s] = {}]
                /\ live' = live \cup {s}
                /\ source' = [source EXCEPT ![s] = "starting"]
                /\ pipe' = [pipe EXCEPT ![s] = <<>>]
        /\ session' = [session EXCEPT ![c].at = "open", ![c].chan = s]
        /\ UNCHANGED <<members, stale, leaver>>

Get(c) ==
    /\ At(c, "idle")
    /\ MayRejoin \/ LeavesOf(c) = {}
    /\ \E g \in Gateways : Lookup(c, g)

(* reassign_voice, when the voice server does not know the channel. *)
ReassignVoice(c) == At(c, "open") /\ Lookup(c, home[session[c].chan])

(* An error before the join: a failed RPC to the voice server. *)
GiveUp(c) ==
    /\ At(c, "open")
    /\ session' = [session EXCEPT ![c] = Idle]
    /\ UNCHANGED <<states, source, redis, stale, leaver>>

(* LocallyPresent::join; the subscription to the broadcast and the task that
   will leave follow before the first await.  A closed state refuses.        *)
Join(c) ==
    LET s == session[c].chan
    IN /\ At(c, "open")
       /\ IF s \in live
          THEN /\ local' = [local EXCEPT ![s] = @ \cup {c}]
               /\ session' = [session EXCEPT ![c].at = "store"]
          ELSE /\ session' = [session EXCEPT ![c] = Idle]
               /\ UNCHANGED local
       /\ UNCHANGED <<entry, home, live, source, redis, stale, leaver>>

(* hset_multiple *)
Store(c) ==
    /\ At(c, "store")
    /\ members' = members \cup {c}
    /\ session' = [session EXCEPT ![c].at = "publish"]
    /\ UNCHANGED <<states, source, pipe, stale, leaver>>

AnnounceJoined(c) ==
    /\ At(c, "publish")
    /\ Publish(session[c].chan, Joined(c))
    /\ session' = [d \in Clients |->
                     [session[d] EXCEPT !.at = IF d = c THEN "list" ELSE @,
                                        !.ghosts = @ \ {c}]]
    /\ stale' = stale \ {c}
    /\ UNCHANGED <<states, source, members, leaver>>

Departing == {leaver[l].client : l \in {m \in Leavers : leaver[m].at = "delete"}}

(* list_members; the client is shown the answer. *)
ListMembers(c) ==
    /\ At(c, "list")
    /\ session' = [session EXCEPT
                     ![c].at = "in",
                     ![c].view = members,
                     ![c].covered = (source[session[c].chan] = "subscribed"),
                     ![c].ghosts = members \cap Departing]
    /\ UNCHANGED <<states, source, redis, stale, leaver>>

ReceiveEvent(c) ==
    /\ At(c, "in")
    /\ session[c].queue # <<>>
    /\ session' = [session EXCEPT ![c].queue = Tail(@),
                                  ![c].view = Show(c, @, Head(session[c].queue))]
    /\ UNCHANGED <<states, source, redis, stale, leaver>>

BugSpawnedLast(c) == session[c].at \in {"list", "in"}

(* The task that leaves has been spawned before anything can fail. *)
HasTask(c) == HasHandle(c)

(* The handle is dropped, by a session that is in the channel or because a
   request to Redis failed on the way in.                                    *)
DropHandle(c) ==
    /\ At(c, "in") \/ (MayFail /\ HasHandle(c))
    /\ session' = [session EXCEPT ![c] = Idle]
    /\ IF HasTask(c)
       THEN \E l \in Leavers :
              /\ leaver[l] = NoTask
              /\ leaver' = [leaver EXCEPT ![l] =
                   [at |-> "woken", client |-> c, chan |-> session[c].chan]]
       ELSE UNCHANGED leaver
    /\ UNCHANGED <<states, source, redis, stale>>

-----------------------------------------------------------------------------
(* Leaving *)

(* LocallyPresent::leave and, if nobody is left, ChannelMap::close. *)
Leave(l) ==
    LET s == leaver[l].chan
        left == local[s] \ {leaver[l].client}
    IN /\ leaver[l].at = "woken"
       /\ local' = [local EXCEPT ![s] = left]
       /\ live' = IF left = {} THEN live \ {s} ELSE live \cup {s}
       /\ entry' = IF left = {} THEN [entry EXCEPT ![home[s]] = None] ELSE entry
       /\ leaver' = [leaver EXCEPT ![l].at = "publish"]
       /\ UNCHANGED <<home, source, redis, stale, session>>

AnnounceLeft(l) ==
    /\ leaver[l].at = "publish"
    /\ Publish(leaver[l].chan, Left(leaver[l].client))
    /\ leaver' = [leaver EXCEPT ![l].at = "delete"]
    /\ UNCHANGED <<states, source, members, stale, session>>

(* hdel *)
Delete(l) ==
    /\ leaver[l].at = "delete"
    /\ members' = members \ {leaver[l].client}
    /\ leaver' = [leaver EXCEPT ![l] = NoTask]
    /\ UNCHANGED <<states, source, pipe, stale, session>>

(* A request to Redis fails, which is logged; the rest is not done. *)
LeaveFails(l) ==
    /\ MayFail
    /\ leaver[l].at \in {"publish", "delete"}
    /\ stale' = stale \cup {leaver[l].client}
    /\ leaver' = [leaver EXCEPT ![l] = NoTask]
    /\ UNCHANGED <<states, source, redis, session>>

-----------------------------------------------------------------------------
(* The event source of a state *)

Subscribe(s) ==
    /\ source[s] = "starting"
    /\ source' = [source EXCEPT ![s] = "subscribed"]
    /\ UNCHANGED <<states, redis, stale, session, leaver>>

(* An event reaches the broadcast. *)
Deliver(s) ==
    /\ source[s] = "subscribed"
    /\ pipe[s] # <<>>
    /\ pipe' = [pipe EXCEPT ![s] = Tail(@)]
    /\ session' = [c \in Clients |->
         IF c \in Receivers(s) THEN Push(session[c], Head(pipe[s])) ELSE session[c]]
    /\ UNCHANGED <<states, source, members, stale, leaver>>

(* No receivers, and for 5 seconds none: the source unsubscribes. *)
Retire(s) ==
    /\ source[s] = "subscribed"
    /\ pipe[s] # <<>>
    /\ Receivers(s) = {}
    /\ source' = [source EXCEPT ![s] = "ended"]
    /\ pipe' = [pipe EXCEPT ![s] = <<>>]
    /\ UNCHANGED <<states, members, stale, session, leaver>>

(* No connection, or a lost one: nothing reconnects. *)
SourceFails(s) ==
    /\ MayFail
    /\ source[s] \in {"starting", "subscribed"}
    /\ source' = [source EXCEPT ![s] = "ended"]
    /\ pipe' = [pipe EXCEPT ![s] = <<>>]
    /\ UNCHANGED <<states, members, stale, session, leaver>>

-----------------------------------------------------------------------------

SessionStep(c) ==
    \/ Get(c) \/ ReassignVoice(c) \/ GiveUp(c) \/ Join(c) \/ Store(c)
    \/ AnnounceJoined(c) \/ ListMembers(c) \/ ReceiveEvent(c) \/ DropHandle(c)

LeaveStep(l) == Leave(l) \/ AnnounceLeft(l) \/ Delete(l) \/ LeaveFails(l)

SourceStep(s) == Subscribe(s) \/ Deliver(s) \/ Retire(s) \/ SourceFails(s)

Next ==
    \/ \E c \in Clients : SessionStep(c)
    \/ \E l \in Leavers : LeaveStep(l)
    \/ \E s \in States : SourceStep(s)

Spec == Init /\ [][Next]_vars

-----------------------------------------------------------------------------
(* Properties *)

(* Every variable keeps its type, and no subscriber holds more events than
   the broadcast keeps.                                                      *)
TypeOK ==
    /\ entry \in [Gateways -> States \cup {None}]
    /\ home \in [States -> Gateways \cup {None}]
    /\ local \in [States -> SUBSET Clients]
    /\ live \subseteq States
    /\ source \in [States -> {"none", "starting", "subscribed", "ended"}]
    /\ pipe \in [States -> Seq(Events)]
    /\ members \subseteq Clients
    /\ stale \subseteq Clients
    /\ session \in [Clients -> Sessions]
    /\ \A c \in Clients : Len(session[c].queue) <= EventCap
    /\ leaver \in [Leavers -> LeaveTasks]

(* The hash in Redis lists everyone who has joined, whichever gateway they
   are on, and nobody else but those whose leave is under way or failed: a
   join that fails after it has stored its client is undone like any other.
   (A client that rejoins early is deleted by its last leave.)               *)
HashAccounted ==
    MayRejoin \/ \A c \in Clients :
        /\ session[c].at \in {"publish", "list", "in"} => c \in members
        /\ c \in members => \/ session[c].at \in {"publish", "list", "in"}
                            \/ LeavesOf(c) # {}
                            \/ c \in stale

(* The inductive invariant behind HashAccounted: a client that waits for its
   last leave has no session that the leave could undo (OneLeaveEach), and
   whoever has a state or leaves one knows which, and whose it is (Placed).   *)
Placed ==
    /\ \A c \in Clients :
          /\ At(c, "idle") <=> session[c].chan = None
          /\ ~At(c, "idle") => home[session[c].chan] \in Gateways
    /\ \A g \in Gateways : entry[g] # None => home[entry[g]] \in Gateways
    /\ \A l \in Leavers : leaver[l].at # "none" =>
          leaver[l].client \in Clients /\ leaver[l].chan \in States
OneLeaveEach ==
    MayRejoin \/ \A c \in Clients : LeavesOf(c) # {} => At(c, "idle")

IInv ==
    /\ TypeOK
    /\ Placed
    /\ OneLeaveEach
    /\ HashAccounted

(* The members a client is shown, once it has received what is on its way to
   it, are those whose join has been published and whose leave has not, over
   all gateways: the list that is read from the hash and the events, which
   come by another connection, neither miss nor resurrect anybody.  It takes
   that the source was subscribed when the list was read and did not fail;
   and a member whose leave was published before but not yet deleted from the
   hash is listed (ghosts) and stays on the list.                            *)
After(view, q) ==       \* the view, or joined by an event, and not left by a later one
    {d \in Clients :
        \/ d \in view /\ \A j \in DOMAIN q : q[j] # Left(d)
        \/ \E i \in DOMAIN q : /\ q[i] = Joined(d)
                              /\ \A j \in DOMAIN q : j > i => q[j] # Left(d)}
Shown(c) == After(After(session[c].view, session[c].queue), pipe[session[c].chan])
Undecided(d) ==
    \/ session[d].at \in {"store", "publish"}
    \/ \E l \in LeavesOf(d) : leaver[l].at \in {"woken", "publish"}
    \/ d \in stale
ViewExact ==
    MayRejoin \/ \A c \in Clients :
        /\ At(c, "in")
        /\ session[c].covered
        /\ ~session[c].lagged
        /\ source[session[c].chan] = "subscribed"
        => \A d \in Clients \ (session[c].ghosts \cup {c}) :
              Undecided(d) \/ (d \in Shown(c) <=> session[d].at \in {"list", "in"})

(***************************************************************************)
(* The inductive invariant behind ViewExact, on top of IInv.  Nothing is on  *)
(* its way where no source is subscribed, and nothing has reached a session  *)
(* that has no handle or whose source has yet to subscribe (Silent); and,    *)
(* unless a client's membership is undecided, the last event about it that   *)
(* is on its way to a state, or to a session, says whether it is a member    *)
(* (PipesAgree, ViewsAgree): to the session that has yet to list the members *)
(* whatever it will find, to one that was covered by what it has listed.     *)
(***************************************************************************)
Silent ==
    /\ \A s \in States : source[s] # "subscribed" => pipe[s] = <<>>
    /\ \A c \in Clients :
          /\ ~HasHandle(c) => session[c].queue = <<>>
          /\ HasHandle(c) /\ source[session[c].chan] = "starting" => session[c].queue = <<>>
          /\ At(c, "in") /\ session[c].covered =>
                source[session[c].chan] \in {"subscribed", "ended"}
    /\ \A l \in Leavers : leaver[l].at = "none" => leaver[l] = NoTask

Announced(d) == session[d].at \in {"list", "in"}

(* Between what the last event about d says, if there is one. *)
Says(few, many, q, d) ==
    /\ d \in After(few, q) => Announced(d)
    /\ Announced(d) => d \in After(many, q)

PipesAgree == \A s \in States : s \in Recipients(s) => \A d \in Clients :
    Undecided(d) \/ Says({}, Clients, pipe[s], d)

Watches(c) ==
    /\ HasHandle(c) /\ (At(c, "in") => session[c].covered)
    /\ ~session[c].lagged
    /\ source[session[c].chan] = "subscribed"
Fewest(c) == IF At(c, "in") THEN session[c].view ELSE {}
Most(c) == IF At(c, "in") THEN session[c].view ELSE Clients
Resurrected(c) == IF At(c, "in") THEN session[c].ghosts ELSE {}
Fits(c, d) ==
    LET q == session[c].queue
    IN \/ Undecided(d) \/ d \in Resurrected(c)
       \/ Says(After(Fewest(c), q), After(Most(c), q), pipe[session[c].chan], d)
ViewsAgree == \A c \in Clients : Watches(c) => \A d \in Clients \ {c} : Fits(c, d)

Watch == IInv /\ Silent /\ (MayRejoin \/ (PipesAgree /\ ViewsAgree))

(* Who is in the channel hears of the others: the gateway unsubscribes only
   after the last of its clients has left.                                   *)
HeardWhileIn == \A c \in Clients : At(c, "in") => source[session[c].chan] # "ended"
=============================================================================
