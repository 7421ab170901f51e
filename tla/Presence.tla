------------------------------ MODULE Presence ------------------------------
(***************************************************************************)
(* Who is present in one channel of a gateway: the gateway's channel map,  *)
(* the states it leads to, the sessions that join and the leave tasks they *)
(* spawn (server/gateway/src/server/channels/mod.rs and state/local.rs,    *)
(* joined and left as session.rs does).                                    *)
(*                                                                         *)
(* A session gets a clone of the mapped channel, joins its state much      *)
(* later (after an RPC to the voice server), and drops its handle at any   *)
(* time; the drop wakes a detached task that leaves the state, and the     *)
(* task that empties it closes the channel: removes it from the map.  The  *)
(* map has an entry per channel, and entries have nothing in common but    *)
(* the map's lock, which nobody holds while waiting for another: one       *)
(* channel is modelled.                                                    *)
(***************************************************************************)
EXTENDS Naturals, FiniteSets, Sequences

CONSTANTS
    Clients,    \* clients, each with one session at a time
    States,     \* channel states, used again once unreachable
    Leavers,    \* leave tasks, used again once finished
    EventCap,   \* capacity of the broadcast (100 in the code)
    MayRejoin,  \* a client joins again although its last leave is under way
    None

ASSUME EventCapPositive == EventCap \in Nat \ {0}
ASSUME MayRejoinBoolean == MayRejoin \in BOOLEAN
ASSUME NoneIsNobody == None \notin Clients \cup States \cup Leavers

VARIABLES
    entry,      \* the state the map leads to, or None
    present,    \* LocallyPresent.inner of each state
    live,       \* the states whose LocallyPresent.live is set
    guard,      \* the leave task that holds a state's lock, or None
    session,    \* what each client's session is doing
    leaver      \* what each leave task is doing

vars == <<entry, present, live, guard, session, leaver>>

-----------------------------------------------------------------------------
(* Values *)

Joined(c) == [kind |-> "joined", source |-> c]
Left(c) == [kind |-> "left", source |-> c]
Events == {Joined(c) : c \in Clients} \cup {Left(c) : c \in Clients}

(* chan: the state of the channel clone; queue: the events broadcast to this
   subscriber and not yet received; view: the members shown to the client.   *)
Sessions ==
    [at : {"idle", "init", "open", "reassign", "join", "announce", "list",
           "setup", "in"},
     chan : States \cup {None},
     queue : Seq(Events),
     view : SUBSET Clients,
     lagged : BOOLEAN]

Idle == [at |-> "idle", chan |-> None, queue |-> <<>>, view |-> {},
         lagged |-> FALSE]

LeaveTasks == [at : {"none", "woken", "closing", "announce"},
               client : Clients \cup {None},
               chan : States \cup {None}]

NoTask == [at |-> "none", client |-> None, chan |-> None]

HasHandle(c) == session[c].at \in {"list", "setup", "in"}
Subscribers(s) == {c \in Clients : HasHandle(c) /\ session[c].chan = s}
LeavesOf(c) == {l \in Leavers : leaver[l].client = c}

(* No clone of the state exists: not in the map, a session or a leave task. *)
Unreachable(s) ==
    /\ entry # s
    /\ \A c \in Clients : session[c].chan # s
    /\ \A l \in Leavers : leaver[l].chan # s

Init ==
    /\ entry = None
    /\ present = [s \in States |-> {}]
    /\ live = {}
    /\ guard = [s \in States |-> None]
    /\ session = [c \in Clients |-> Idle]
    /\ leaver = [l \in Leavers |-> NoTask]

-----------------------------------------------------------------------------
(* The broadcast channel.  Operators named Bug... are no part of the
   specification: each is a faulty form of the definition that follows it,
   which some property must reject.                                          *)

(* A full subscriber loses its oldest event. *)
Push(ses, e) ==
    IF Len(ses.queue) < EventCap
    THEN [ses EXCEPT !.queue = Append(@, e)]
    ELSE [ses EXCEPT !.queue = Append(Tail(@), e), !.lagged = TRUE]

Broadcast(sessions, e, to) ==
    [d \in Clients |-> IF d \in to THEN Push(sessions[d], e) ELSE sessions[d]]

(* The client is shown what the event says, unless it is its own. *)
Show(c, view, e) ==
    IF e.source = c THEN view
    ELSE IF e.kind = "joined" THEN view \cup {e.source}
    ELSE view \ {e.source}

-----------------------------------------------------------------------------
(* Joining *)

At(c, at) == session[c].at = at

MayJoin(c) == MayRejoin \/ LeavesOf(c) = {}

(* get_or_init, first half: the mapped channel, if there is one. *)
Get(c) ==
    /\ At(c, "idle")
    /\ MayJoin(c)
    /\ session' = [session EXCEPT ![c].chan = entry,
                                  ![c].at = IF entry = None THEN "init" ELSE "open"]
    /\ UNCHANGED <<entry, present, live, guard, leaver>>

BugInitOverwrites(s) == s

(* entry(id).or_insert(room) *)
OrInsert(s) == IF entry = None THEN s ELSE entry

(* A fresh state, dropped at once if the map has an entry by now. *)
Insert(c) ==
    \E s \in States :
        /\ Unreachable(s)
        /\ entry' = OrInsert(s)
        /\ IF entry' = s
           THEN /\ live' = live \cup {s}
                /\ present' = [present EXCEPT ![s] = {}]
           ELSE UNCHANGED <<live, present>>
        /\ session' = [session EXCEPT ![c].at = "open", ![c].chan = entry']
        /\ UNCHANGED <<guard, leaver>>

(* get_or_init, second half: the registry has named a voice host. *)
InitChannel(c) == At(c, "init") /\ Insert(c)

(* open_connection succeeds, or finds no such channel on the voice server. *)
OpenConnection(c) ==
    /\ At(c, "open")
    /\ \E next \in {"join", "reassign"} :
        session' = [session EXCEPT ![c].at = next]
    /\ UNCHANGED <<entry, present, live, guard, leaver>>

(* reassign_voice: the mapped channel gets another voice server and replaces
   the clone this session has; without one, a new channel is mapped.         *)
ReassignVoice(c) == At(c, "reassign") /\ Insert(c)

(* An error on the way: no voice host, a failed RPC.  The session ends, and
   the client may connect again.                                             *)
GiveUp(c) ==
    /\ session[c].at \in {"init", "open", "reassign"}
    /\ session' = [session EXCEPT ![c] = Idle]
    /\ UNCHANGED <<entry, present, live, guard, leaver>>

Admits(s) == s \in live

(* LocallyPresent::join under the state's lock; a closed state refuses. *)
Join(c) ==
    LET s == session[c].chan
    IN /\ At(c, "join")
       /\ guard[s] = None
       /\ IF Admits(s)
          THEN /\ present' = [present EXCEPT ![s] = @ \cup {c}]
               /\ session' = [session EXCEPT ![c].at = "announce"]
          ELSE /\ session' = [session EXCEPT ![c] = Idle]
               /\ UNCHANGED present
       /\ UNCHANGED <<entry, live, guard, leaver>>

(* The lock is released; the session subscribes, and all subscribers hear
   of it. *)
AnnounceJoined(c) ==
    /\ At(c, "announce")
    /\ session' = [Broadcast(session, Joined(c), Subscribers(session[c].chan))
                     EXCEPT ![c].at = "list", ![c].queue = <<Joined(c)>>]
    /\ UNCHANGED <<entry, present, live, guard, leaver>>

BugListedUnlocked(s) == TRUE

Readable(s) == guard[s] = None

ListMembers(c) ==
    /\ At(c, "list")
    /\ Readable(session[c].chan)
    /\ session' = [session EXCEPT ![c].at = "setup",
                                  ![c].view = present[session[c].chan]]
    /\ UNCHANGED <<entry, present, live, guard, leaver>>

(* The client announced its address, and the voice session is established. *)
Ready(c) ==
    /\ At(c, "setup")
    /\ session' = [session EXCEPT ![c].at = "in"]
    /\ UNCHANGED <<entry, present, live, guard, leaver>>

ReceiveEvent(c) ==
    /\ At(c, "in")
    /\ session[c].queue # <<>>
    /\ session' = [session EXCEPT ![c].queue = Tail(@),
                                  ![c].view = Show(c, @, Head(session[c].queue))]
    /\ UNCHANGED <<entry, present, live, guard, leaver>>

(* The handle is dropped (leave, another join, a disconnect, a dead voice
   connection, a failed setup), and that wakes the task that leaves.        *)
DropHandle(c) ==
    /\ session[c].at \in {"setup", "in"}
    /\ session' = [session EXCEPT ![c] = Idle]
    /\ \E l \in Leavers :
        /\ leaver[l] = NoTask
        /\ leaver' = [leaver EXCEPT ![l] =
             [at |-> "woken", client |-> c, chan |-> session[c].chan]]
    /\ UNCHANGED <<entry, present, live, guard>>

-----------------------------------------------------------------------------
(* Leaving *)

(* LocallyPresent::leave; the task that finds the state empty closes it. *)
Leave(l) ==
    LET s == leaver[l].chan
        left == present[s] \ {leaver[l].client}
    IN /\ leaver[l].at = "woken"
       /\ guard[s] = None
       /\ guard' = [guard EXCEPT ![s] = l]
       /\ present' = [present EXCEPT ![s] = left]
       /\ live' = IF left = {} THEN live \ {s} ELSE live \cup {s}
       /\ leaver' = [leaver EXCEPT ![l].at =
                       IF left = {} THEN "closing" ELSE "announce"]
       /\ UNCHANGED <<entry, session>>

BugAwaitsJoins(l) ==
    \A c \in Clients : At(c, "join") => session[c].chan # leaver[l].chan

(* Nothing is checked before a channel is removed from the map. *)
MayClose(l) == TRUE

BugKeptForJoins(l) ==
    IF \E c \in Clients : session[c].chan = leaver[l].chan THEN entry ELSE None

(* remove(&channel): whatever the map leads to. *)
Remaining(l) == None

(* ChannelMap::close; the state's lock is held meanwhile. *)
CloseChannel(l) ==
    /\ leaver[l].at = "closing"
    /\ MayClose(l)
    /\ entry' = Remaining(l)
    /\ leaver' = [leaver EXCEPT ![l].at = "announce"]
    /\ UNCHANGED <<present, live, guard, session>>

AnnounceLeft(l) ==
    LET s == leaver[l].chan
    IN /\ leaver[l].at = "announce"
       /\ session' = Broadcast(session, Left(leaver[l].client), Subscribers(s))
       /\ guard' = [guard EXCEPT ![s] = None]
       /\ leaver' = [leaver EXCEPT ![l] = NoTask]
       /\ UNCHANGED <<entry, present, live>>

-----------------------------------------------------------------------------

SessionStep(c) ==
    \/ InitChannel(c) \/ OpenConnection(c) \/ ReassignVoice(c) \/ GiveUp(c)
    \/ Join(c) \/ AnnounceJoined(c) \/ ListMembers(c) \/ Ready(c)
    \/ ReceiveEvent(c)

LeaveStep(l) == Leave(l) \/ CloseChannel(l) \/ AnnounceLeft(l)

Next ==
    \/ \E c \in Clients : Get(c) \/ SessionStep(c) \/ DropHandle(c)
    \/ \E l \in Leavers : LeaveStep(l)

Spec == Init /\ [][Next]_vars

(***************************************************************************)
(* Tasks are scheduled; a state's RwLock is fair, so whoever waits for it  *)
(* gets it in turn: strong fairness of the steps that take it.  Clients    *)
(* need neither join nor leave.                                            *)
(***************************************************************************)
Fairness ==
    /\ \A c \in Clients : WF_vars(SessionStep(c)) /\ SF_vars(Join(c) \/ ListMembers(c))
    /\ \A l \in Leavers : WF_vars(LeaveStep(l)) /\ SF_vars(Leave(l))

FairSpec == Spec /\ Fairness

-----------------------------------------------------------------------------
(* Properties *)

(* Every variable keeps its type, and no subscriber holds more events than
   the broadcast keeps.                                                      *)
TypeOK ==
    /\ entry \in States \cup {None}
    /\ present \in [States -> SUBSET Clients]
    /\ live \subseteq States
    /\ guard \in [States -> Leavers \cup {None}]
    /\ session \in [Clients -> Sessions]
    /\ \A c \in Clients : Len(session[c].queue) <= EventCap
    /\ leaver \in [Leavers -> LeaveTasks]

(* A closed state is never lent to a new session for long: while the map
   leads to it, the task that closed it is about to remove it, whatever was
   mapped, reassigned or closed by others in between.                        *)
ClosedLeavesMap ==
    entry # None /\ entry \notin live =>
        \E l \in Leavers : leaver[l].at = "closing" /\ leaver[l].chan = entry

(* All who are in the channel share the mapped state and are listed in it:
   nobody is left in a state that was closed or replaced.                    *)
Member(c) == session[c].at \in {"announce", "list", "setup", "in"}
OneChannel ==
    MayRejoin \/ \A c \in Clients : Member(c) =>
        /\ session[c].chan = entry
        /\ c \in present[entry]

(* The members shown to a client, once it has received what was broadcast to
   it, are those present: neither the gap between the insertion and the
   announcement of another session nor that between its own subscription and
   its reading of the list loses a join or a leave.                          *)
After(view, q) ==       \* the view, or joined by an event, and not left by a later one
    {d \in Clients :
        \/ d \in view /\ \A j \in DOMAIN q : q[j] # Left(d)
        \/ \E i \in DOMAIN q : /\ q[i] = Joined(d)
                              /\ \A j \in DOMAIN q : j > i => q[j] # Left(d)}
Shown(c) == After(session[c].view, session[c].queue)
Unannounced(s) == {d \in Clients : At(d, "announce") /\ session[d].chan = s}
Leaving(s) ==
    {leaver[l].client : l \in {m \in Leavers : leaver[m].chan = s /\ guard[s] = m}}
ViewExact ==
    MayRejoin \/ \A c \in Clients :
        session[c].at \in {"setup", "in"} /\ ~session[c].lagged =>
            LET s == session[c].chan
                Others(S) == S \ (Unannounced(s) \cup {c})
            IN Others(Shown(c)) = Others(present[s] \cup Leaving(s))

(***************************************************************************)
(* The inductive invariant behind OneChannel, whose last parts hold as long  *)
(* as nobody rejoins early: at most the mapped state is open; who is in the  *)
(* channel, or has yet to be removed from it, is listed in the mapped state; *)
(* a task that closes it has found it empty and keeps its lock; and a client *)
(* with a leave under way has one such leave and no session.                 *)
(***************************************************************************)
OpenIsMapped == live \subseteq {entry}
MembersListed == \A c \in Clients : Member(c) =>
    session[c].chan = entry /\ entry # None /\ c \in present[entry]
LeaversListed == \A l \in Leavers : leaver[l].at = "woken" =>
    leaver[l].chan = entry /\ entry # None /\ leaver[l].client \in present[entry]
ClosersAlone == \A l \in Leavers : leaver[l].at = "closing" =>
    leaver[l].chan = entry /\ entry # None /\ entry \notin live /\ present[entry] = {}
LockHeld == \A l \in Leavers : leaver[l].at \in {"closing", "announce"} =>
    guard[leaver[l].chan] = l
SessionsNamed == \A c \in Clients :
    session[c].at \notin {"idle", "init"} => session[c].chan # None
TasksNamed == \A l \in Leavers :
    /\ leaver[l].at = "none" => leaver[l] = NoTask
    /\ leaver[l].at # "none" => leaver[l].client # None /\ leaver[l].chan # None
OneLeaveEach == \A l \in Leavers : leaver[l].at # "none" =>
    /\ session[leaver[l].client].at = "idle"
    /\ \A m \in Leavers : leaver[m].client = leaver[l].client => m = l

SharedState ==
    /\ OpenIsMapped
    /\ MembersListed
    /\ LeaversListed
    /\ ClosersAlone
    /\ OneLeaveEach

IInv ==
    /\ TypeOK
    /\ ClosedLeavesMap
    /\ SessionsNamed
    /\ TasksNamed
    /\ LockHeld
    /\ MayRejoin \/ SharedState

(***************************************************************************)
(* The inductive invariant behind ViewExact, on top of IInv.  Counted: a     *)
(* client whose leave is not announced counts as there, and the lock is held *)
(* exactly until it is.  A subscriber is never wrong about another client    *)
(* that has announced itself: what it is shown once it has received its      *)
(* events, or will be whatever list it is about to read, is who counts.      *)
(***************************************************************************)
Counted(s) == present[s] \cup Leaving(s)
Listens(c) == HasHandle(c) /\ ~session[c].lagged
Fewest(c) == IF At(c, "list") THEN {} ELSE session[c].view
Most(c) == IF At(c, "list") THEN Clients ELSE session[c].view

Fits(c, d) ==
    LET s == session[c].chan
        q == session[c].queue
    IN d \notin Unannounced(s) =>
         /\ d \in After(Fewest(c), q) => d \in Counted(s)
         /\ d \in Counted(s) => d \in After(Most(c), q)

GuardHeld == \A s \in States : guard[s] # None =>
    leaver[guard[s]].at \in {"closing", "announce"} /\ leaver[guard[s]].chan = s
LeaversGone == \A l \in Leavers : leaver[l].at \in {"closing", "announce"} =>
    leaver[l].client \notin present[leaver[l].chan]
ViewsAgree == \A c \in Clients : Listens(c) => \A d \in Clients \ {c} : Fits(c, d)

Watch == IInv /\ GuardHeld /\ (MayRejoin \/ (LeaversGone /\ ViewsAgree))

(* Every attempt to join is decided: the tasks that leave, close and join
   never wait for each other, though a leave keeps the state's lock while it
   waits for the map's.                                                      *)
JoinDecided ==
    \A c \in Clients : At(c, "join") ~> ~At(c, "join")

(* Who has joined a channel and not left it is on its list of present users. *)
JoinedIsPresent ==
    \A c \in Clients : At(c, "in") => c \in present[session[c].chan]
=============================================================================
