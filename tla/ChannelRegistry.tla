--------------------------- MODULE ChannelRegistry ---------------------------
(***************************************************************************)
(* How several gateways agree on the voice server of a channel: the        *)
(* channels service and its two tables (server/channels/core/src), the     *)
(* voice servers that register there by heartbeat, host channels and       *)
(* unassign themselves when one ends (server/voice/grpc/src), and the      *)
(* gateways, whose sessions resolve a channel to a voice server            *)
(* (server/gateway/src/channel_registry/distributed.rs) and keep the       *)
(* server in the gateway's map of channels until the last of its sessions  *)
(* has left (server/gateway/src/server/channels).                          *)
(*                                                                         *)
(* Every arrow is an RPC, and every answer is acted on later.  An RPC may  *)
(* fail at any point, which ends the resolution it is part of.             *)
(***************************************************************************)
EXTENDS Naturals, FiniteSets

CONSTANTS
    Channels,
    Servers,    \* voice servers, known by their configured server_id
    Gateways,
    Sessions,   \* client sessions, each of one gateway
    Home,       \* session -> its gateway
    None

ASSUME NoneIsNoName == None \notin Channels \cup Servers
ASSUME HomeIsGateway == Home \in [Sessions -> Gateways]

VARIABLES
    assigned,   \* channels.assigned_to
    known,      \* the rows of voice_servers
    fresh,      \* those whose last_seen is within the staleness duration
    up,         \* the voice servers that run
    hosted,     \* the channels each voice server has a Forwarder for
    members,    \* the sessions with a voice connection, per server and channel
    ending,     \* unassign requests sent and not yet handled
    mapped,     \* the voice host in each gateway's map of channels, or None
    joined,     \* the sessions in the channel's state at their gateway
    resolver,   \* what each session is doing
    calm        \* history: the channels nothing has gone wrong for so far

registryVars == <<assigned, known, fresh>>
voiceVars == <<up, hosted, members, ending>>
mapVars == <<mapped, joined>>
vars == <<registryVars, voiceVars, mapVars, resolver, calm>>

-----------------------------------------------------------------------------
(* Values *)

Resolver == [at : {"idle", "ask", "check", "pick", "store", "assign", "map", "open"},
             chan : Channels \cup {None},
             reassign : BOOLEAN,        \* the second attempt
             host : Servers \cup {None}]

Idle == [at |-> "idle", chan |-> None, reassign |-> FALSE, host |-> None]

Load(s) == Cardinality({c \in Channels : assigned[c] = s})
Resolving(c) == {p \in Sessions : resolver[p].chan = c}
MappedFor(p, c) == mapped[Home[p]][c]

Init ==
    /\ assigned = [c \in Channels |-> None]
    /\ known = {}
    /\ fresh = {}
    /\ up = {}
    /\ hosted = [s \in Servers |-> {}]
    /\ members = [s \in Servers |-> [c \in Channels |-> {}]]
    /\ ending = {}
    /\ mapped = [g \in Gateways |-> [c \in Channels |-> None]]
    /\ joined = [c \in Channels |-> {}]
    /\ resolver = [p \in Sessions |-> Idle]
    /\ calm = Channels

-----------------------------------------------------------------------------
(* A session of a gateway: get_or_init or reassign_voice, with the
   get_voice_host_for they call, and open_connection and join.
   Operators named Bug... are no part of the specification: each is a faulty
   form of the definition that follows it, which some property must reject.  *)

At(p, at) == resolver[p].at = at
Goto(p, at) == resolver' = [resolver EXCEPT ![p].at = at]
GotoHost(p, at, s) == resolver' = [resolver EXCEPT ![p].at = at, ![p].host = s]

(* A channel in the gateway's map is used with the host it has there, and the
   registry is not asked.  A session comes back to a channel when the leave of
   its last visit has run; Presence has what happens if it has not.           *)
Join(p, c) ==
    /\ At(p, "idle")
    /\ p \notin joined[c]
    /\ resolver' = [resolver EXCEPT ![p] =
         [Idle EXCEPT !.at = IF MappedFor(p, c) = None THEN "ask" ELSE "open",
                      !.chan = c, !.host = MappedFor(p, c)]]
    /\ calm' = IF Resolving(c) = {} THEN calm ELSE calm \ {c}
    /\ UNCHANGED <<registryVars, voiceVars, mapVars>>

(* get_channel: the voice server, if it is assigned and not stale. *)
ActiveHost(c) == IF assigned[c] \in fresh THEN assigned[c] ELSE None

AskRegistry(p) ==
    LET c == resolver[p].chan
        s == ActiveHost(c)
    IN /\ At(p, "ask")
       /\ IF s # None /\ ~resolver[p].reassign
          THEN GotoHost(p, "check", s)
          ELSE Goto(p, "pick")
       /\ UNCHANGED <<registryVars, voiceVars, mapVars, calm>>

(* status: a server that lost the channel is asked to host it again. *)
CheckHost(p) ==
    /\ At(p, "check")
    /\ resolver[p].host \in up
    /\ Goto(p, IF resolver[p].chan \in hosted[resolver[p].host]
               THEN "map" ELSE "assign")
    /\ UNCHANGED <<registryVars, voiceVars, mapVars, calm>>

(* get_smallest_load: a server that is not stale, and of those the one with
   the fewest channels. *)
Eligible(s) == s \in fresh /\ \A r \in fresh : Load(s) <= Load(r)

PickServer(p) ==
    /\ At(p, "pick")
    /\ \E s \in Servers : Eligible(s) /\ GotoHost(p, "store", s)
    /\ UNCHANGED <<registryVars, voiceVars, mapVars, calm>>

BugKeepsOld(c, s, reassign) == IF assigned[c] = None THEN s ELSE assigned[c]

(* do_assign_to: an assignment is replaced only on reassignment.  A server
   removed meanwhile cannot be referenced: the update fails.                 *)
AssignTo(c, s, reassign) ==
    IF assigned[c] # None /\ ~reassign THEN assigned[c] ELSE s

(* The server that was picked is returned, whatever was stored.  No other
   gateway hears of a reassignment.                                          *)
StoreAssignment(p) ==
    LET r == resolver[p]
        a == AssignTo(r.chan, r.host, r.reassign)
    IN /\ At(p, "store")
       /\ a \in known
       /\ assigned' = [assigned EXCEPT ![r.chan] = a]
       /\ Goto(p, "assign")
       /\ calm' = IF \E g \in Gateways \ {Home[p]} : mapped[g][r.chan] \notin {None, a}
                  THEN calm \ {r.chan} ELSE calm
       /\ UNCHANGED <<known, fresh, voiceVars, mapVars>>

AssignChannel(p) ==
    LET r == resolver[p]
    IN /\ At(p, "assign")
       /\ r.host \in up
       /\ hosted' = [hosted EXCEPT ![r.host] = @ \cup {r.chan}]
       /\ Goto(p, "map")
       /\ calm' = IF <<r.host, r.chan>> \in ending THEN calm \ {r.chan} ELSE calm
       /\ UNCHANGED <<registryVars, up, members, ending, mapVars>>

(* get_or_init keeps an entry made meanwhile, reassign_voice replaces it. *)
HostInMap(old, s, reassign) == IF old # None /\ ~reassign THEN old ELSE s

MapChannel(p) ==
    LET r == resolver[p]
        s == HostInMap(MappedFor(p, r.chan), r.host, r.reassign)
    IN /\ At(p, "map")
       /\ mapped' = [mapped EXCEPT ![Home[p]][r.chan] = s]
       /\ GotoHost(p, "open", s)
       /\ UNCHANGED <<registryVars, voiceVars, joined, calm>>

(* open_connection on the host, and then the join of the channel's state, which
   may fail.  A host that does not have the channel any more is given up once,
   by a reassignment.                                                        *)
OpenConnection(p) ==
    LET r == resolver[p]
    IN /\ At(p, "open")
       /\ r.host \in up
       /\ \/ /\ r.chan \in hosted[r.host]
             /\ members' = [members EXCEPT ![r.host][r.chan] = @ \cup {p}]
             /\ joined' \in {joined, [joined EXCEPT ![r.chan] = @ \cup {p}]}
             /\ resolver' = [resolver EXCEPT ![p] = Idle]
          \/ /\ r.chan \notin hosted[r.host]
             /\ ~r.reassign
             /\ resolver' = [resolver EXCEPT ![p] =
                  [Idle EXCEPT !.at = "ask", !.chan = r.chan, !.reassign = TRUE]]
             /\ UNCHANGED <<members, joined>>
       /\ UNCHANGED <<registryVars, up, hosted, ending, mapped, calm>>

(* The channel is assigned, and the gateway's map has another host for it. *)
Outdated(g, c) == assigned[c] # None /\ mapped[g][c] \notin {None, assigned[c]}

(* An RPC fails, or the host does not have the channel a second time.  A
   reassignment may have been stored, and not have come into the map.        *)
GiveUp(p) ==
    /\ ~At(p, "idle")
    /\ resolver' = [resolver EXCEPT ![p] = Idle]
    /\ calm' = IF Outdated(Home[p], resolver[p].chan)
               THEN calm \ {resolver[p].chan} ELSE calm
    /\ UNCHANGED <<registryVars, voiceVars, mapVars>>

(* The voice connection ends, by a leave or by its own timeouts. *)
Disconnect(p, s, c) ==
    /\ p \in members[s][c]
    /\ members' = [members EXCEPT ![s][c] = @ \ {p}]
    /\ UNCHANGED <<registryVars, up, hosted, ending, mapVars, resolver, calm>>

(* The session has left the channel's state; the gateway's last one takes the
   channel out of the map.                                                   *)
LeaveState(p, c) ==
    /\ p \in joined[c]
    /\ joined' = [joined EXCEPT ![c] = @ \ {p}]
    /\ mapped' = IF \E q \in joined'[c] : Home[q] = Home[p] THEN mapped
                 ELSE [mapped EXCEPT ![Home[p]][c] = None]
    /\ UNCHANGED <<registryVars, voiceVars, resolver, calm>>

-----------------------------------------------------------------------------
(* Voice servers and the registry's tables *)

(* An empty channel ends by its idle timeout; a detached task tells. *)
EndChannel(s, c) ==
    /\ c \in hosted[s]
    /\ members[s][c] = {}
    /\ hosted' = [hosted EXCEPT ![s] = @ \ {c}]
    /\ ending' = ending \cup {<<s, c>>}
    /\ UNCHANGED <<registryVars, up, members, mapVars, resolver, calm>>

(* Only the server that asks for it is unassigned. *)
Unassigns(c, s) == assigned[c] = s

Unassign(s, c) ==
    /\ <<s, c>> \in ending
    /\ ending' = ending \ {<<s, c>>}
    /\ assigned' = [assigned EXCEPT ![c] = IF Unassigns(c, s) THEN None ELSE @]
    /\ calm' = IF \E p \in Resolving(c) : resolver[p].host = s
               THEN calm \ {c} ELSE calm
    /\ UNCHANGED <<known, fresh, up, hosted, members, mapVars, resolver>>

(* The request fails: that is logged, and it is not tried again. *)
UnassignFails(s, c) ==
    /\ <<s, c>> \in ending
    /\ ending' = ending \ {<<s, c>>}
    /\ UNCHANGED <<registryVars, up, hosted, members, mapVars, resolver, calm>>

(* register_voice_server, at the start and every HEARTBEAT_INTERVAL. *)
Register(s) ==
    /\ up' = up \cup {s}
    /\ known' = known \cup {s}
    /\ fresh' = fresh \cup {s}
    /\ UNCHANGED <<assigned, hosted, members, ending, mapVars, resolver, calm>>

(* A request to unassign that is on its way may arrive all the same. *)
Crash(s) ==
    /\ s \in up
    /\ up' = up \ {s}
    /\ hosted' = [hosted EXCEPT ![s] = {}]
    /\ members' = [members EXCEPT ![s] = [c \in Channels |-> {}]]
    /\ UNCHANGED <<registryVars, ending, mapVars, resolver, calm>>

(* No heartbeat arrived within the staleness duration. *)
BecomeStale(s) ==
    /\ s \in fresh
    /\ fresh' = fresh \ {s}
    /\ calm' = calm \ {c \in Channels :
                   \/ assigned[c] = s
                   \/ \E p \in Resolving(c) : resolver[p].host = s}
    /\ UNCHANGED <<assigned, known, voiceVars, mapVars, resolver>>

BugDangling(c) == assigned[c]

(* ON DELETE SET NULL *)
AfterCleanup(c) == IF assigned[c] \in fresh THEN assigned[c] ELSE None

CleanupStale ==
    /\ known # fresh
    /\ known' = fresh
    /\ assigned' = [c \in Channels |-> AfterCleanup(c)]
    /\ UNCHANGED <<fresh, voiceVars, mapVars, resolver, calm>>

-----------------------------------------------------------------------------

SessionStep(p) ==
    \/ AskRegistry(p) \/ CheckHost(p) \/ PickServer(p) \/ StoreAssignment(p)
    \/ AssignChannel(p) \/ MapChannel(p) \/ OpenConnection(p)

Next ==
    \/ \E p \in Sessions :
        \/ \E c \in Channels : Join(p, c) \/ LeaveState(p, c)
        \/ SessionStep(p) \/ GiveUp(p)
        \/ \E s \in Servers, c \in Channels : Disconnect(p, s, c)
    \/ \E s \in Servers :
        \/ \E c \in Channels : EndChannel(s, c) \/ Unassign(s, c) \/ UnassignFails(s, c)
        \/ Register(s) \/ Crash(s) \/ BecomeStale(s)
    \/ CleanupStale

Spec == Init /\ [][Next]_vars

-----------------------------------------------------------------------------
(* Properties *)

(* Every variable keeps its type, and the tables their referential integrity:
   an assignment names a registered server.                                  *)
TypeOK ==
    /\ assigned \in [Channels -> known \cup {None}]
    /\ known \subseteq Servers
    /\ fresh \subseteq known
    /\ up \subseteq Servers
    /\ hosted \in [Servers -> SUBSET Channels]
    /\ members \in [Servers -> [Channels -> SUBSET Sessions]]
    /\ ending \subseteq Servers \X Channels
    /\ mapped \in [Gateways -> [Channels -> Servers \cup {None}]]
    /\ joined \in [Channels -> SUBSET Sessions]
    /\ resolver \in [Sessions -> Resolver]
    /\ calm \subseteq Channels

(* Everyone in a channel is on the one server the registry names, whether it was
   asked for it or the gateway had it in its map, through crashes, restarts,
   failed calls and reassignments, as long as no two sessions resolve the
   channel at the same time, its server does not become stale, no unassignment
   by the server that is to host it is under way, and it is not assigned to a
   server while a gateway has another one in its map, but for the gateway that
   does so to replace that.                                                  *)
UsedIsAssigned ==
    \A c \in calm, s \in Servers : members[s][c] # {} => assigned[c] = s

(***************************************************************************)
(* The inductive invariant behind UsedIsAssigned: a voice server has a     *)
(* channel only if the channel is assigned to it; a session on its way to  *)
(* a host is on its way to the assigned one, or finds the channel at none, *)
(* and one that is to have a host assigned finds none assigned or, the     *)
(* second time, no host that has the channel; a gateway's map has no host  *)
(* for a channel that the registry is asked for the first time, and        *)
(* otherwise the assigned one, or is about to be told of the reassignment  *)
(* by a session of its own; no host that is named for a calm channel is    *)
(* stale; and a server that is about to unassign a channel has not taken   *)
(* it again.                                                               *)
(***************************************************************************)
Placed == \A p \in Sessions :
    /\ At(p, "idle") <=> resolver[p].chan = None
    /\ resolver[p].at \in {"check", "store", "assign", "map", "open"} =>
          resolver[p].host \in Servers
OneResolver == \A p, q \in Sessions :
    resolver[p].chan \in calm /\ resolver[q].chan = resolver[p].chan => p = q
NamedAreFresh ==
    /\ \A c \in calm : assigned[c] \in fresh \cup {None}
    /\ \A p \in Sessions :
          resolver[p].chan \in calm /\ ~At(p, "open") =>
              resolver[p].host \in fresh \cup {None}
Agreed == \A p \in Sessions : resolver[p].chan \in calm =>
    /\ resolver[p].at \in {"check", "assign", "map"} =>
          assigned[resolver[p].chan] = resolver[p].host
    /\ At(p, "open") => assigned[resolver[p].chan] \in {resolver[p].host, None}
    /\ resolver[p].at \in {"pick", "store"} /\ ~resolver[p].reassign =>
          assigned[resolver[p].chan] = None
NotInMap == \A p \in Sessions :
    resolver[p].chan \in calm /\ ~resolver[p].reassign /\ ~At(p, "open") =>
        MappedFor(p, resolver[p].chan) = None
MapAgrees == \A c \in calm, g \in Gateways : Outdated(g, c) =>
    \E p \in Resolving(c) : Home[p] = g /\ resolver[p].reassign /\ ~At(p, "open")
NobodyLeft == \A p \in Sessions :
    /\ resolver[p].chan \in calm
    /\ resolver[p].reassign
    /\ resolver[p].at \in {"ask", "pick", "store"}
    => \A s \in Servers : resolver[p].chan \notin hosted[s]
HostedIsAssigned == \A c \in calm, s \in Servers : c \in hosted[s] => assigned[c] = s
MembersHosted == \A s \in Servers, c \in Channels :
    members[s][c] # {} => c \in hosted[s]
EndedNotHosted == \A c \in calm, s \in Servers :
    <<s, c>> \in ending => c \notin hosted[s]

IInv ==
    /\ TypeOK
    /\ Placed
    /\ OneResolver
    /\ NamedAreFresh
    /\ Agreed
    /\ NotInMap
    /\ MapAgrees
    /\ NobodyLeft
    /\ HostedIsAssigned
    /\ MembersHosted
    /\ EndedNotHosted
    /\ UsedIsAssigned

(* What assign_channel returns is what get_channel will find. *)
ReturnedIsStored ==
    [][\A p \in Sessions :
         At(p, "store") /\ resolver'[p].at = "assign" =>
             assigned'[resolver[p].chan] = resolver[p].host]_vars
=============================================================================
