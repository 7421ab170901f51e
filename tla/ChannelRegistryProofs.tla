------------------------ MODULE ChannelRegistryProofs ------------------------
(***************************************************************************)
(* Proofs about ChannelRegistry, for any number of channels, voice         *)
(* servers, gateways and sessions.                                         *)
(***************************************************************************)
EXTENDS ChannelRegistry, TLAPS

-----------------------------------------------------------------------------
(* What IInv asks of the resolver of one session, whose gateway has the host m
   in its map for the channel                                                *)

ResolverOK(r, m) ==
    /\ r.at = "idle" <=> r.chan = None
    /\ r.at \in {"check", "store", "assign", "map", "open"} => r.host \in Servers
    /\ r.chan \in calm =>
          /\ r.at # "open" => r.host \in fresh \cup {None}
          /\ r.at \in {"check", "assign", "map"} => assigned[r.chan] = r.host
          /\ r.at = "open" => assigned[r.chan] \in {r.host, None}
          /\ r.at \in {"pick", "store"} /\ ~r.reassign => assigned[r.chan] = None
          /\ ~r.reassign /\ r.at # "open" => m = None
          /\ r.reassign /\ r.at \in {"ask", "pick", "store"} =>
                \A s \in Servers : r.chan \notin hosted[s]

ResolversOK == \A p \in Sessions : ResolverOK(resolver[p], MappedFor(p, resolver[p].chan))

(* The parts of IInv that are about the tables and the voice servers *)
TablesOK ==
    /\ \A c \in calm : assigned[c] \in fresh \cup {None}
    /\ HostedIsAssigned
    /\ MembersHosted
    /\ EndedNotHosted

(* Members are where the channel is hosted, and that is where it is assigned. *)
LEMMA UsedOfHosted ==
    ASSUME TypeOK, HostedIsAssigned, MembersHosted PROVE UsedIsAssigned
BY DEF TypeOK, HostedIsAssigned, MembersHosted, UsedIsAssigned

(* IInv, with its parts about resolvers put together by resolver *)
LEMMA ByResolver ==
    IInv <=> TypeOK /\ OneResolver /\ ResolversOK /\ MapAgrees /\ TablesOK
<1>1. IInv => TypeOK /\ OneResolver /\ ResolversOK /\ MapAgrees /\ TablesOK
  BY DEF IInv, Placed, NamedAreFresh, Agreed, NotInMap, NobodyLeft, ResolversOK,
     ResolverOK, TablesOK, At
<1>2. TypeOK /\ OneResolver /\ ResolversOK /\ MapAgrees /\ TablesOK => IInv
  BY UsedOfHosted
     DEF IInv, Placed, NamedAreFresh, Agreed, NotInMap, NobodyLeft, ResolversOK,
     ResolverOK, TablesOK, At
<1> QED BY <1>1, <1>2

(* The invariant after a step, resolver by resolver *)
LEMMA ByResolverNext ==
    ASSUME TypeOK', OneResolver', ResolversOK', MapAgrees', TablesOK'
    PROVE  IInv'
<1>1. UsedIsAssigned'
  BY DEF TypeOK, HostedIsAssigned, MembersHosted, UsedIsAssigned, TablesOK
<1> QED BY <1>1
     DEF IInv, Placed, NamedAreFresh, Agreed, NotInMap, NobodyLeft, ResolversOK,
     ResolverOK, TablesOK, At

(* What resolves nothing is in order, whatever the map has. *)
LEMMA IdleOK ==
    /\ Idle \in Resolver
    /\ Idle.at = "idle" /\ Idle.chan = None
    /\ calm \subseteq Channels => \A m : ResolverOK(Idle, m)
BY NoneIsNoName DEF Idle, Resolver, ResolverOK

(* A session that is about to tell the gateway's map of a reassignment *)
Tells(r, c) == r.chan = c /\ r.reassign /\ r.at # "open"

(* The maps stay in order when neither they nor the assignments of the calm
   channels change, and who is about to tell of a reassignment still is.     *)
LEMMA MapsKept ==
    ASSUME IInv, calm' \subseteq calm, UNCHANGED mapped,
           \A c \in calm' : assigned'[c] = assigned[c],
           \A p \in Sessions, c \in calm' : Tells(resolver[p], c) => Tells(resolver'[p], c)
    PROVE  MapAgrees'
<1> SUFFICES ASSUME NEW c \in calm', NEW g \in Gateways, Outdated(g, c)
             PROVE  \E p \in Sessions : Home[p] = g /\ Tells(resolver'[p], c)
  BY DEF MapAgrees, Outdated, Resolving, Tells, At
<1>1. PICK p \in Sessions : Home[p] = g /\ Tells(resolver[p], c)
  BY DEF IInv, MapAgrees, Resolving, Tells, At
<1> QED BY <1>1

(* A session that goes on to another step of the same resolution, or ends it,
   keeps the invariant, if what it then knows is in order.                   *)
LEMMA ResolverChanges ==
    ASSUME IInv, NEW p \in Sessions, NEW r \in Resolver,
           ResolverOK(r, MappedFor(p, r.chan)),
           r.chan \in {resolver[p].chan, None},
           resolver' = [resolver EXCEPT ![p] = r],
           calm' \subseteq calm, MapAgrees',
           UNCHANGED <<assigned, known, fresh, up, hosted, members, ending, mapped, joined>>
    PROVE  IInv'
<1>1. \A q \in Sessions : resolver'[q] = IF q = p THEN r ELSE resolver[q]
  BY DEF IInv, TypeOK
<1>2. TypeOK'
  BY DEF IInv, TypeOK
<1>3. OneResolver'
  BY <1>1, NoneIsNoName DEF IInv, TypeOK, OneResolver
<1>4. TablesOK'
  BY ByResolver DEF TablesOK, HostedIsAssigned, MembersHosted, EndedNotHosted
<1>5. ResolversOK'
  BY <1>1, ByResolver DEF ResolversOK, ResolverOK, MappedFor
<1> QED BY <1>2, <1>3, <1>4, <1>5, ByResolverNext

(* As it goes on, it still has to tell the map of the reassignment. *)
LEMMA ResolverGoesOn ==
    ASSUME IInv, NEW p \in Sessions, NEW r \in Resolver,
           ResolverOK(r, MappedFor(p, r.chan)),
           r.chan = resolver[p].chan,
           ~At(p, "open") => r.reassign = resolver[p].reassign /\ r.at # "open",
           resolver' = [resolver EXCEPT ![p] = r],
           UNCHANGED <<assigned, known, fresh, up, hosted, members, ending, mapped, joined, calm>>
    PROVE  IInv'
<1>1. \A q \in Sessions : resolver'[q] = IF q = p THEN r ELSE resolver[q]
  BY DEF IInv, TypeOK
<1>2. MapAgrees'
  BY <1>1, MapsKept DEF Tells, At
<1> QED BY <1>2, ResolverChanges

-----------------------------------------------------------------------------
(* Steps of a session *)

(* Asking for a channel while another session does makes it no longer calm;
   what the map has is the assigned host, or the channel has none.           *)
LEMMA JoinKeeps ==
    ASSUME IInv, NEW p \in Sessions, NEW c \in Channels, Join(p, c)
    PROVE  IInv'
<1> DEFINE m == MappedFor(p, c)
           r == [Idle EXCEPT !.at = IF m = None THEN "ask" ELSE "open",
                             !.chan = c, !.host = m]
<1>1. m \in Servers \cup {None}
  BY HomeIsGateway DEF MappedFor, IInv, TypeOK
<1>2. r \in Resolver /\ r.at = (IF m = None THEN "ask" ELSE "open")
      /\ r.chan = c /\ r.host = m /\ r.reassign = FALSE
  BY <1>1 DEF Idle, Resolver
<1>3. resolver' = [resolver EXCEPT ![p] = r]
  BY DEF Join
<1>4. \A q \in Sessions : resolver'[q] = IF q = p THEN r ELSE resolver[q]
  BY <1>3 DEF IInv, TypeOK
<1>5. calm' \subseteq calm /\ (c \in calm' => Resolving(c) = {})
  BY DEF Join
<1>6. UNCHANGED <<assigned, known, fresh, up, hosted, members, ending, mapped, joined>>
  BY DEF Join, registryVars, voiceVars, mapVars
<1> HIDE DEF r, m
<1>7. TypeOK'
  BY <1>2, <1>3, <1>5, <1>6 DEF IInv, TypeOK
<1>8. OneResolver'
  <2> SUFFICES ASSUME NEW h \in Sessions, NEW k \in Sessions,
                      resolver'[h].chan \in calm',
                      resolver'[k].chan = resolver'[h].chan
               PROVE  h = k
    BY DEF OneResolver
  <2>1. CASE h # p /\ k # p
    BY <2>1, <1>4, <1>5 DEF IInv, OneResolver
  <2>2. ASSUME c \in calm', NEW l \in Sessions, resolver[l].chan = c PROVE FALSE
    BY <2>2, <1>5 DEF Resolving
  <2> QED BY <2>1, <2>2, <1>2, <1>4
<1>9. TablesOK'
  BY <1>5, <1>6, ByResolver DEF TablesOK, HostedIsAssigned, MembersHosted, EndedNotHosted
<1>10. resolver[p].chan = None
  BY DEF Join, IInv, Placed
<1>11. MapAgrees'
  <2>1. \A q \in Sessions, d \in calm' : Tells(resolver[q], d) => Tells(resolver'[q], d)
    BY <1>4, <1>5, <1>10, NoneIsNoName DEF Tells, IInv, TypeOK
  <2> QED BY <2>1, <1>5, <1>6, MapsKept
<1>12. c \in calm' /\ m # None => assigned[c] \in {m, None}
  <2> SUFFICES ASSUME c \in calm', m # None, ~Outdated(Home[p], c)
               PROVE  assigned[c] \in {m, None}
    BY <1>5, HomeIsGateway DEF IInv, MapAgrees
  <2> QED BY DEF Outdated, m, MappedFor
<1>13. ResolversOK'
  <2> SUFFICES ASSUME NEW q \in Sessions
               PROVE  ResolverOK(resolver[q], MappedFor(q, resolver[q].chan))'
    BY DEF ResolversOK
  <2>1. CASE q = p
    <3>1. MappedFor(q, resolver[q].chan)' = m
      BY <2>1, <1>2, <1>4, <1>6 DEF m, MappedFor
    <3>2. resolver'[q] = r
      BY <2>1, <1>4
    <3> QED BY <3>1, <3>2, <1>1, <1>2, <1>6, <1>12, NoneIsNoName DEF ResolverOK
  <2>2. CASE q # p
    BY <2>2, <1>4, <1>5, <1>6, ByResolver DEF ResolversOK, ResolverOK, MappedFor
  <2> QED BY <2>1, <2>2
<1> QED BY <1>7, <1>8, <1>9, <1>11, <1>13, ByResolverNext

(* The registry names the assigned server, if that is not stale. *)
LEMMA AskRegistryKeeps ==
    ASSUME IInv, NEW p \in Sessions, AskRegistry(p)
    PROVE  IInv'
<1> DEFINE c == resolver[p].chan
           s == ActiveHost(c)
           m == MappedFor(p, c)
<1>1. resolver[p] \in Resolver /\ ResolverOK(resolver[p], m) /\ c \in Channels
      /\ resolver[p].at = "ask"
  BY ByResolver DEF ResolversOK, ResolverOK, AskRegistry, At, IInv, TypeOK, Resolver
<1>2. s \in (fresh \cap Servers) \cup {None} /\ (s # None => assigned[c] = s)
      /\ (s = None /\ c \in calm => assigned[c] = None)
  BY <1>1, NoneIsNoName DEF ActiveHost, IInv, TypeOK, NamedAreFresh
<1>3. UNCHANGED <<assigned, known, fresh, up, hosted, members, ending, mapped, joined, calm>>
  BY DEF AskRegistry, registryVars, voiceVars, mapVars
<1>4. CASE s # None /\ ~resolver[p].reassign
  <2> DEFINE r == [resolver[p] EXCEPT !.at = "check", !.host = s]
  <2>1. r \in Resolver /\ r.at = "check" /\ r.host = s /\ r.chan = c
        /\ r.reassign = resolver[p].reassign
    BY <1>1, <1>2, <1>4 DEF Resolver
  <2>2. resolver' = [resolver EXCEPT ![p] = r]
    BY <1>4 DEF AskRegistry, GotoHost, IInv, TypeOK, Resolver
  <2> HIDE DEF r
  <2>3. ResolverOK(r, MappedFor(p, r.chan))
    BY <2>1, <1>1, <1>2, <1>4, NoneIsNoName DEF ResolverOK
  <2> QED BY <2>1, <2>2, <2>3, <1>3, ResolverGoesOn
<1>5. CASE ~(s # None /\ ~resolver[p].reassign)
  <2> DEFINE r == [resolver[p] EXCEPT !.at = "pick"]
  <2>1. r \in Resolver /\ r.at = "pick" /\ r.host = resolver[p].host /\ r.chan = c
        /\ r.reassign = resolver[p].reassign
    BY <1>1 DEF Resolver
  <2>2. resolver' = [resolver EXCEPT ![p] = r]
    BY <1>5 DEF AskRegistry, Goto, IInv, TypeOK, Resolver
  <2> HIDE DEF r
  <2>3. ResolverOK(r, MappedFor(p, r.chan))
    BY <2>1, <1>1, <1>2, <1>5, NoneIsNoName DEF ResolverOK
  <2> QED BY <2>1, <2>2, <2>3, <1>3, ResolverGoesOn
<1> QED BY <1>4, <1>5

(* A host that lost the channel is still the assigned one. *)
LEMMA CheckHostKeeps ==
    ASSUME IInv, NEW p \in Sessions, CheckHost(p)
    PROVE  IInv'
<1> DEFINE at == IF resolver[p].chan \in hosted[resolver[p].host] THEN "map" ELSE "assign"
           r == [resolver[p] EXCEPT !.at = at]
<1>1. resolver[p] \in Resolver /\ resolver[p].at = "check"
      /\ ResolverOK(resolver[p], MappedFor(p, resolver[p].chan))
  BY ByResolver DEF ResolversOK, CheckHost, At, IInv, TypeOK
<1>2. r \in Resolver /\ r.at \in {"map", "assign"} /\ r.host = resolver[p].host
      /\ r.chan = resolver[p].chan /\ r.reassign = resolver[p].reassign
  BY <1>1 DEF Resolver
<1>3. resolver' = [resolver EXCEPT ![p] = r]
  BY DEF CheckHost, Goto, IInv, TypeOK, Resolver
<1> HIDE DEF r
<1>4. ResolverOK(r, MappedFor(p, r.chan))
  BY <1>1, <1>2 DEF ResolverOK
<1> QED BY <1>2, <1>3, <1>4, ResolverGoesOn
        DEF CheckHost, registryVars, voiceVars, mapVars

(* A session picks a fresh server; nothing is stored yet. *)
LEMMA PickServerKeeps ==
    ASSUME IInv, NEW p \in Sessions, PickServer(p)
    PROVE  IInv'
<1> PICK s \in Servers : Eligible(s) /\ GotoHost(p, "store", s)
  BY DEF PickServer
<1> DEFINE r == [resolver[p] EXCEPT !.at = "store", !.host = s]
<1>1. resolver[p] \in Resolver /\ resolver[p].at = "pick"
      /\ ResolverOK(resolver[p], MappedFor(p, resolver[p].chan))
  BY ByResolver DEF ResolversOK, PickServer, At, IInv, TypeOK
<1>2. r \in Resolver /\ r.at = "store" /\ r.host = s
      /\ r.chan = resolver[p].chan /\ r.reassign = resolver[p].reassign
  BY <1>1 DEF Resolver
<1>3. resolver' = [resolver EXCEPT ![p] = r]
  BY DEF GotoHost, IInv, TypeOK, Resolver
<1> HIDE DEF r
<1>4. ResolverOK(r, MappedFor(p, r.chan))
  BY <1>1, <1>2 DEF ResolverOK, Eligible
<1> QED BY <1>2, <1>3, <1>4, ResolverGoesOn
        DEF PickServer, registryVars, voiceVars, mapVars

(* What is stored is the server that was picked: the channel had none, or is
   reassigned, and nobody has it.  Another gateway that maps another host makes
   the channel no longer calm; the session's own is told, or has none.        *)
LEMMA StoreAssignmentKeeps ==
    ASSUME IInv, NEW p \in Sessions, StoreAssignment(p)
    PROVE  IInv'
<1> DEFINE q == resolver[p]
           c == q.chan
           a == AssignTo(c, q.host, q.reassign)
           r == [q EXCEPT !.at = "assign"]
<1>1. q \in Resolver /\ ResolverOK(q, MappedFor(p, c)) /\ q.at = "store"
      /\ c \in Channels /\ q.host \in Servers
  BY ByResolver DEF ResolversOK, ResolverOK, StoreAssignment, At, IInv, TypeOK, Resolver
<1>2. r \in Resolver /\ r.at = "assign" /\ r.host = q.host /\ r.chan = c
      /\ r.reassign = q.reassign
  BY <1>1 DEF Resolver
<1>3. \A h \in Sessions : resolver'[h] = IF h = p THEN r ELSE resolver[h]
  BY DEF StoreAssignment, Goto, IInv, TypeOK, Resolver
<1>4. \A d \in Channels : assigned'[d] = IF d = c THEN a ELSE assigned[d]
  BY <1>1 DEF StoreAssignment, IInv, TypeOK
<1>5. c \in calm => a = q.host /\ a \in fresh
  BY <1>1, NoneIsNoName DEF ResolverOK, AssignTo
<1>6. c \in calm => \A s \in Servers : c \notin hosted[s]
  <2>1. CASE q.reassign
    BY <2>1, <1>1 DEF ResolverOK
  <2>2. CASE ~q.reassign
    BY <2>2, <1>1, NoneIsNoName DEF ResolverOK, IInv, HostedIsAssigned
  <2> QED BY <2>1, <2>2
<1>7. a \in known /\ calm' \subseteq calm
      /\ UNCHANGED <<known, fresh, up, hosted, members, ending, mapped, joined>>
  BY DEF StoreAssignment, voiceVars, mapVars
<1>8. c \in calm' => \A g \in Gateways \ {Home[p]} : mapped[g][c] \in {None, a}
  BY DEF StoreAssignment
<1>9. TypeOK'
  <2>1. assigned' \in [Channels -> known' \cup {None}]
    BY <1>7 DEF StoreAssignment, IInv, TypeOK
  <2>2. resolver' \in [Sessions -> Resolver]
    BY <1>2 DEF StoreAssignment, Goto, IInv, TypeOK
  <2> QED BY <2>1, <2>2, <1>7 DEF IInv, TypeOK
<1>10. ASSUME NEW h \in Sessions, h # p, resolver[h].chan \in calm
       PROVE  resolver[h].chan # c /\ resolver[h].chan \in Channels
  BY <1>10, <1>1 DEF IInv, TypeOK, OneResolver
<1> HIDE DEF r, a, q
<1>11. OneResolver'
  BY <1>2, <1>3, <1>7 DEF IInv, OneResolver, q
<1>12. TablesOK'
  <2>1. \A d \in calm' : assigned'[d] \in fresh' \cup {None}
    BY <1>4, <1>5, <1>7 DEF IInv, TypeOK, NamedAreFresh
  <2>2. HostedIsAssigned'
    BY <1>4, <1>6, <1>7 DEF IInv, TypeOK, HostedIsAssigned
  <2>3. MembersHosted' /\ EndedNotHosted'
    BY <1>7 DEF IInv, MembersHosted, EndedNotHosted
  <2> QED BY <2>1, <2>2, <2>3 DEF TablesOK
<1>13. ResolversOK'
  <2> SUFFICES ASSUME NEW h \in Sessions
               PROVE  ResolverOK(resolver[h], MappedFor(h, resolver[h].chan))'
    BY DEF ResolversOK
  <2>1. CASE h = p
    <3>1. resolver'[h] = r /\ MappedFor(h, resolver[h].chan)' = MappedFor(p, c)
      BY <2>1, <1>2, <1>3, <1>7 DEF MappedFor
    <3> QED BY <3>1, <1>1, <1>2, <1>4, <1>5, <1>7, NoneIsNoName DEF ResolverOK
  <2>2. CASE h # p
    <3>1. resolver'[h] = resolver[h] /\ ResolverOK(resolver[h], MappedFor(h, resolver[h].chan))
          /\ MappedFor(h, resolver[h].chan)' = MappedFor(h, resolver[h].chan)
      BY <2>2, <1>3, <1>7, ByResolver DEF ResolversOK, MappedFor
    <3> QED BY <3>1, <2>2, <1>10, <1>4, <1>7 DEF ResolverOK
  <2> QED BY <2>1, <2>2
<1>14. MapAgrees'
  <2> SUFFICES ASSUME NEW d \in calm', NEW g \in Gateways, Outdated(g, d)'
               PROVE  \E h \in Sessions : Home[h] = g /\ Tells(resolver'[h], d)
    BY DEF MapAgrees, Resolving, Tells, At
  <2>0. d \in Channels /\ d \in calm
    BY <1>7 DEF IInv, TypeOK
  <2>1. CASE d = c
    <3>1. g = Home[p] /\ mapped[g][c] \notin {None, a}
      BY <2>1, <1>1, <1>4, <1>7, <1>8 DEF Outdated
    <3>2. q.reassign
      BY <3>1, <2>1, <2>0, <1>1 DEF ResolverOK, MappedFor
    <3> QED BY <3>1, <3>2, <2>1, <1>2, <1>3 DEF Tells
  <2>2. CASE d # c
    <3>1. Outdated(g, d)
      BY <2>2, <2>0, <1>4, <1>7 DEF Outdated
    <3>2. PICK h \in Sessions : Home[h] = g /\ Tells(resolver[h], d)
      BY <3>1, <2>0 DEF IInv, MapAgrees, Resolving, Tells, At
    <3>3. h # p
      BY <3>2, <2>2 DEF Tells, q
    <3> QED BY <3>2, <3>3, <1>3
  <2> QED BY <2>1, <2>2
<1> QED BY <1>9, <1>11, <1>12, <1>13, <1>14, ByResolverNext

(* The host takes the channel; if it is about to unassign it, the channel is no
   longer calm.                                                              *)
LEMMA AssignChannelKeeps ==
    ASSUME IInv, NEW p \in Sessions, AssignChannel(p)
    PROVE  IInv'
<1> DEFINE q == resolver[p]
           r == [q EXCEPT !.at = "map"]
<1>1. q \in Resolver /\ ResolverOK(q, MappedFor(p, q.chan)) /\ q.at = "assign"
      /\ q.chan \in Channels /\ q.host \in Servers
  BY ByResolver DEF ResolversOK, ResolverOK, AssignChannel, At, IInv, TypeOK, Resolver
<1>2. r \in Resolver /\ r.at = "map" /\ r.host = q.host /\ r.chan = q.chan
      /\ r.reassign = q.reassign
  BY <1>1 DEF Resolver
<1>3. \A h \in Sessions : resolver'[h] = IF h = p THEN r ELSE resolver[h]
  BY DEF AssignChannel, Goto, IInv, TypeOK, Resolver
<1>4. \A s \in Servers :
        hosted'[s] = IF s = q.host THEN hosted[s] \cup {q.chan} ELSE hosted[s]
  BY <1>1 DEF AssignChannel, IInv, TypeOK
<1>5. calm' \subseteq calm /\ (<<q.host, q.chan>> \in ending => q.chan \notin calm')
      /\ UNCHANGED <<assigned, known, fresh, up, members, ending, mapped, joined>>
  BY DEF AssignChannel, registryVars, mapVars
<1>6. TypeOK'
  <2>1. hosted' \in [Servers -> SUBSET Channels]
    BY <1>1 DEF AssignChannel, IInv, TypeOK
  <2>2. resolver' \in [Sessions -> Resolver]
    BY <1>2 DEF AssignChannel, Goto, IInv, TypeOK
  <2> QED BY <2>1, <2>2, <1>5 DEF IInv, TypeOK
<1>7. ASSUME NEW h \in Sessions, h # p, resolver[h].chan \in calm
      PROVE  resolver[h].chan # q.chan
  BY <1>7, <1>1 DEF IInv, TypeOK, OneResolver
<1> HIDE DEF r, q
<1>8. OneResolver'
  BY <1>2, <1>3, <1>5 DEF IInv, OneResolver, q
<1>9. TablesOK'
  <2>1. MembersHosted'
    BY <1>4, <1>5 DEF IInv, MembersHosted
  <2>2. ASSUME NEW d \in calm', NEW s \in Servers, <<s, d>> \in ending
        PROVE  d \notin hosted'[s]
    <3>1. ~(s = q.host /\ d = q.chan)
      BY <2>2, <1>5
    <3>2. d \notin hosted[s]
      BY <2>2, <1>5 DEF IInv, EndedNotHosted
    <3> QED BY <3>1, <3>2, <1>4
  <2>3. ASSUME NEW d \in calm', NEW s \in Servers, d \in hosted'[s]
        PROVE  assigned'[d] = s
    <3>1. CASE d \in hosted[s]
      BY <3>1, <1>5 DEF IInv, HostedIsAssigned
    <3>2. CASE d \notin hosted[s]
      <4>1. s = q.host /\ d = q.chan
        BY <3>2, <2>3, <1>4
      <4> QED BY <4>1, <1>1, <1>5 DEF ResolverOK
    <3> QED BY <3>1, <3>2
  <2>4. \A d \in calm' : assigned'[d] \in fresh' \cup {None}
    BY <1>5 DEF IInv, NamedAreFresh
  <2> QED BY <2>1, <2>2, <2>3, <2>4, <1>5 DEF TablesOK, EndedNotHosted, HostedIsAssigned
<1>10. ResolversOK'
  <2> SUFFICES ASSUME NEW h \in Sessions
               PROVE  ResolverOK(resolver[h], MappedFor(h, resolver[h].chan))'
    BY DEF ResolversOK
  <2>1. CASE h = p
    <3>1. resolver'[h] = r /\ MappedFor(h, resolver[h].chan)' = MappedFor(p, q.chan)
      BY <2>1, <1>2, <1>3, <1>5 DEF MappedFor
    <3> QED BY <3>1, <1>1, <1>2, <1>5 DEF ResolverOK
  <2>2. CASE h # p
    <3>1. resolver'[h] = resolver[h] /\ ResolverOK(resolver[h], MappedFor(h, resolver[h].chan))
          /\ MappedFor(h, resolver[h].chan)' = MappedFor(h, resolver[h].chan)
      BY <2>2, <1>3, <1>5, ByResolver DEF ResolversOK, MappedFor
    <3>2. resolver[h].chan \in calm =>
            \A s \in Servers : resolver[h].chan \in hosted'[s] => resolver[h].chan \in hosted[s]
      BY <2>2, <1>4, <1>7
    <3> QED BY <3>1, <3>2, <1>5 DEF ResolverOK
  <2> QED BY <2>1, <2>2
<1>11. MapAgrees'
  <2>1. \A h \in Sessions, d \in calm' : Tells(resolver[h], d) => Tells(resolver'[h], d)
    BY <1>2, <1>3 DEF Tells, q
  <2> QED BY <2>1, <1>5, MapsKept
<1> QED BY <1>6, <1>8, <1>9, <1>10, <1>11, ByResolverNext

(* What comes into the map is the assigned host: it had none, or is told of the
   reassignment.                                                             *)
LEMMA MapChannelKeeps ==
    ASSUME IInv, NEW p \in Sessions, MapChannel(p)
    PROVE  IInv'
<1> DEFINE q == resolver[p]
           s == HostInMap(MappedFor(p, q.chan), q.host, q.reassign)
           r == [q EXCEPT !.at = "open", !.host = s]
<1>1. q \in Resolver /\ ResolverOK(q, MappedFor(p, q.chan)) /\ q.at = "map"
      /\ q.chan \in Channels /\ q.host \in Servers
  BY ByResolver DEF ResolversOK, ResolverOK, MapChannel, At, IInv, TypeOK, Resolver
<1>2. s \in Servers
  BY <1>1, HomeIsGateway DEF HostInMap, MappedFor, IInv, TypeOK
<1>3. q.chan \in calm => s = q.host /\ assigned[q.chan] = s
  BY <1>1 DEF HostInMap, ResolverOK
<1>4. r \in Resolver /\ r.at = "open" /\ r.host = s /\ r.chan = q.chan
      /\ r.reassign = q.reassign
  BY <1>1, <1>2 DEF Resolver
<1>5. \A h \in Sessions : resolver'[h] = IF h = p THEN r ELSE resolver[h]
  BY DEF MapChannel, GotoHost, IInv, TypeOK, Resolver
<1>6. \A g \in Gateways, d \in Channels :
        mapped'[g][d] = IF g = Home[p] /\ d = q.chan THEN s ELSE mapped[g][d]
  BY <1>1, HomeIsGateway DEF MapChannel, IInv, TypeOK
<1>7. UNCHANGED <<assigned, known, fresh, up, hosted, members, ending, joined, calm>>
  BY DEF MapChannel, registryVars, voiceVars
<1>8. TypeOK'
  <2>1. resolver' \in [Sessions -> Resolver]
    BY <1>4 DEF MapChannel, GotoHost, IInv, TypeOK
  <2>2. mapped' \in [Gateways -> [Channels -> Servers \cup {None}]]
    BY <1>1, <1>2 DEF MapChannel, IInv, TypeOK
  <2> QED BY <2>1, <2>2, <1>7 DEF IInv, TypeOK
<1>9. ASSUME NEW h \in Sessions, h # p, resolver[h].chan \in calm
      PROVE  resolver[h].chan # q.chan /\ resolver[h].chan \in Channels
  BY <1>9, <1>1 DEF IInv, TypeOK, OneResolver
<1> HIDE DEF r, s, q
<1>10. OneResolver'
  BY <1>4, <1>5, <1>7 DEF IInv, OneResolver, q
<1>11. TablesOK'
  BY <1>7, ByResolver DEF TablesOK, HostedIsAssigned, MembersHosted, EndedNotHosted
<1>12. ResolversOK'
  <2> SUFFICES ASSUME NEW h \in Sessions
               PROVE  ResolverOK(resolver[h], MappedFor(h, resolver[h].chan))'
    BY DEF ResolversOK
  <2>1. CASE h = p
    <3>1. resolver'[h] = r
      BY <2>1, <1>5
    <3> QED BY <3>1, <1>1, <1>2, <1>3, <1>4, <1>7 DEF ResolverOK
  <2>2. CASE h # p
    <3>1. resolver'[h] = resolver[h] /\ ResolverOK(resolver[h], MappedFor(h, resolver[h].chan))
      BY <2>2, <1>5, ByResolver DEF ResolversOK
    <3>2. resolver[h].chan \in calm =>
            MappedFor(h, resolver[h].chan)' = MappedFor(h, resolver[h].chan)
      BY <2>2, <3>1, <1>6, <1>9, HomeIsGateway DEF MappedFor
    <3> QED BY <3>1, <3>2, <1>7 DEF ResolverOK
  <2> QED BY <2>1, <2>2
<1>13. MapAgrees'
  <2> SUFFICES ASSUME NEW d \in calm', NEW g \in Gateways, Outdated(g, d)'
               PROVE  \E h \in Sessions : Home[h] = g /\ Tells(resolver'[h], d)
    BY DEF MapAgrees, Resolving, Tells, At
  <2>0. d \in Channels /\ d \in calm
    BY <1>7 DEF IInv, TypeOK
  <2>1. ~(g = Home[p] /\ d = q.chan)
    BY <2>0, <1>3, <1>6, <1>7 DEF Outdated
  <2>2. Outdated(g, d)
    BY <2>0, <2>1, <1>6, <1>7 DEF Outdated
  <2>3. PICK h \in Sessions : Home[h] = g /\ Tells(resolver[h], d)
    BY <2>0, <2>2 DEF IInv, MapAgrees, Resolving, Tells, At
  <2>4. h # p
    BY <2>1, <2>3 DEF Tells, q
  <2> QED BY <2>3, <2>4, <1>5
<1> QED BY <1>8, <1>10, <1>11, <1>12, <1>13, ByResolverNext

(* A session that gives up leaves what is stored as it is; if it had to tell
   the map of a reassignment that is stored, the channel is no longer calm.  *)
LEMMA GiveUpKeeps ==
    ASSUME IInv, NEW p \in Sessions, GiveUp(p)
    PROVE  IInv'
<1> DEFINE k == resolver[p].chan
<1>1. resolver' = [resolver EXCEPT ![p] = Idle] /\ calm' \subseteq calm
      /\ (Outdated(Home[p], k) => k \notin calm')
      /\ UNCHANGED <<assigned, known, fresh, up, hosted, members, ending, mapped, joined>>
  BY DEF GiveUp, registryVars, voiceVars, mapVars
<1>2. \A h \in Sessions : resolver'[h] = IF h = p THEN Idle ELSE resolver[h]
  BY <1>1 DEF IInv, TypeOK
<1>3. MapAgrees'
  <2> SUFFICES ASSUME NEW d \in calm', NEW g \in Gateways, Outdated(g, d)
               PROVE  \E h \in Sessions : Home[h] = g /\ Tells(resolver'[h], d)
    BY <1>1 DEF MapAgrees, Outdated, Resolving, Tells, At
  <2>1. PICK h \in Sessions : Home[h] = g /\ Tells(resolver[h], d)
    BY <1>1 DEF IInv, MapAgrees, Resolving, Tells, At
  <2>2. h # p
    BY <2>1, <1>1 DEF Tells
  <2> QED BY <2>1, <2>2, <1>2
<1>4. ResolverOK(Idle, MappedFor(p, Idle.chan))
  BY IdleOK DEF IInv, TypeOK
<1> QED BY <1>1, <1>3, <1>4, IdleOK, ResolverChanges

(* Whoever connects does so on the assigned host, the only one that has the
   channel; whoever is refused there leaves nobody behind who has it.        *)
LEMMA OpenConnectionKeeps ==
    ASSUME IInv, NEW p \in Sessions, OpenConnection(p)
    PROVE  IInv'
<1> DEFINE q == resolver[p]
<1>1. q \in Resolver /\ ResolverOK(q, MappedFor(p, q.chan)) /\ q.at = "open"
      /\ q.chan \in Channels /\ q.host \in Servers
  BY ByResolver DEF ResolversOK, ResolverOK, OpenConnection, At, IInv, TypeOK, Resolver
<1>2. UNCHANGED <<assigned, known, fresh, up, hosted, ending, mapped, calm>>
  BY DEF OpenConnection, registryVars
<1>3. CASE /\ q.chan \in hosted[q.host]
           /\ members' = [members EXCEPT ![q.host][q.chan] = @ \cup {p}]
           /\ joined' \in {joined, [joined EXCEPT ![q.chan] = @ \cup {p}]}
           /\ resolver' = [resolver EXCEPT ![p] = Idle]
  <2>1. \A h \in Sessions : resolver'[h] = IF h = p THEN Idle ELSE resolver[h]
    BY <1>3 DEF IInv, TypeOK
  <2>2. \A s \in Servers, c \in Channels :
          members'[s][c] = IF s = q.host /\ c = q.chan
                           THEN members[s][c] \cup {p} ELSE members[s][c]
    BY <1>1, <1>3 DEF IInv, TypeOK
  <2>3. TypeOK'
    <3>1. resolver' \in [Sessions -> Resolver]
      BY <1>3, IdleOK DEF IInv, TypeOK
    <3>2. members' \in [Servers -> [Channels -> SUBSET Sessions]]
      BY <1>1, <1>3 DEF IInv, TypeOK
    <3>3. joined' \in [Channels -> SUBSET Sessions]
      BY <1>1, <1>3 DEF IInv, TypeOK
    <3> QED BY <3>1, <3>2, <3>3, <1>2 DEF IInv, TypeOK
  <2> HIDE DEF q
  <2>4. OneResolver'
    BY <2>1, <1>2, IdleOK, NoneIsNoName DEF IInv, TypeOK, OneResolver
  <2>5. TablesOK'
    <3>1. MembersHosted'
      BY <2>2, <1>2, <1>3 DEF IInv, MembersHosted
    <3> QED BY <3>1, <1>2, ByResolver DEF TablesOK, HostedIsAssigned, EndedNotHosted
  <2>6. ResolversOK'
    <3> SUFFICES ASSUME NEW h \in Sessions
                 PROVE  ResolverOK(resolver[h], MappedFor(h, resolver[h].chan))'
      BY DEF ResolversOK
    <3>1. CASE h = p
      <4>1. resolver'[h] = Idle
        BY <3>1, <2>1
      <4> QED BY <4>1, IdleOK, NoneIsNoName, <1>2 DEF ResolverOK, IInv, TypeOK
    <3>2. CASE h # p
      <4>1. resolver'[h] = resolver[h] /\ ResolverOK(resolver[h], MappedFor(h, resolver[h].chan))
            /\ MappedFor(h, resolver[h].chan)' = MappedFor(h, resolver[h].chan)
        BY <3>2, <2>1, <1>2, ByResolver DEF ResolversOK, MappedFor
      <4> QED BY <4>1, <1>2 DEF ResolverOK
    <3> QED BY <3>1, <3>2
  <2>7. MapAgrees'
    <3>1. \A h \in Sessions, d \in calm' : Tells(resolver[h], d) => Tells(resolver'[h], d)
      BY <1>1, <2>1 DEF Tells, q
    <3> QED BY <3>1, <1>2, MapsKept
  <2> QED BY <2>3, <2>4, <2>5, <2>6, <2>7, ByResolverNext
<1>4. CASE /\ q.chan \notin hosted[q.host]
           /\ ~q.reassign
           /\ resolver' = [resolver EXCEPT ![p] =
                [Idle EXCEPT !.at = "ask", !.chan = q.chan, !.reassign = TRUE]]
           /\ UNCHANGED <<members, joined>>
  <2> DEFINE r == [Idle EXCEPT !.at = "ask", !.chan = q.chan, !.reassign = TRUE]
  <2>1. r \in Resolver /\ r.at = "ask" /\ r.chan = q.chan /\ r.host = None /\ r.reassign
    BY <1>1 DEF Idle, Resolver
  <2>2. ASSUME q.chan \in calm, NEW s \in Servers, q.chan \in hosted[s] PROVE FALSE
    <3>1. assigned[q.chan] = s
      BY <2>2 DEF IInv, HostedIsAssigned
    <3>2. s = q.host
      BY <3>1, <2>2, <1>1, NoneIsNoName DEF ResolverOK
    <3> QED BY <3>2, <2>2, <1>4
  <2> HIDE DEF q
  <2>3. resolver' = [resolver EXCEPT ![p] = r]
    BY <1>4
  <2> HIDE DEF r
  <2>4. ResolverOK(r, MappedFor(p, r.chan))
    BY <1>1, <2>1, <2>2, NoneIsNoName DEF ResolverOK
  <2> QED BY <1>1, <1>2, <1>4, <2>1, <2>3, <2>4, ResolverGoesOn DEF q, At
<1> QED BY <1>3, <1>4 DEF OpenConnection

(* The map may forget a host. *)
LEMMA LeaveStateKeeps ==
    ASSUME IInv, NEW p \in Sessions, NEW c \in Channels, LeaveState(p, c)
    PROVE  IInv'
<1>1. UNCHANGED <<assigned, known, fresh, up, hosted, members, ending, resolver, calm>>
  BY DEF LeaveState, registryVars, voiceVars
<1>2. \A g \in Gateways, d \in Channels : mapped'[g][d] \in {mapped[g][d], None}
  BY HomeIsGateway DEF LeaveState, IInv, TypeOK
<1>3. TypeOK'
  <2>1. joined' \in [Channels -> SUBSET Sessions]
    BY DEF LeaveState, IInv, TypeOK
  <2>2. mapped' \in [Gateways -> [Channels -> Servers \cup {None}]]
    BY HomeIsGateway DEF LeaveState, IInv, TypeOK
  <2> QED BY <2>1, <2>2, <1>1 DEF IInv, TypeOK
<1>4. OneResolver' /\ TablesOK'
  BY <1>1, ByResolver DEF OneResolver, TablesOK, HostedIsAssigned, MembersHosted, EndedNotHosted
<1>5. ResolversOK'
  <2> SUFFICES ASSUME NEW h \in Sessions
               PROVE  ResolverOK(resolver[h], MappedFor(h, resolver[h].chan))'
    BY DEF ResolversOK
  <2>1. ResolverOK(resolver[h], MappedFor(h, resolver[h].chan))
    BY ByResolver DEF ResolversOK
  <2>2. resolver[h].chan \in calm =>
          MappedFor(h, resolver[h].chan)' \in {MappedFor(h, resolver[h].chan), None}
    BY <1>1, <1>2, HomeIsGateway DEF MappedFor, IInv, TypeOK
  <2> QED BY <2>1, <2>2, <1>1 DEF ResolverOK
<1>6. MapAgrees'
  <2> SUFFICES ASSUME NEW d \in calm, NEW g \in Gateways, Outdated(g, d)'
               PROVE  \E h \in Sessions : Home[h] = g /\ Tells(resolver'[h], d)
    BY <1>1 DEF MapAgrees, Resolving, Tells, At
  <2>1. Outdated(g, d)
    BY <1>1, <1>2 DEF Outdated, IInv, TypeOK
  <2> QED BY <2>1, <1>1 DEF IInv, MapAgrees, Resolving, Tells, At
<1> QED BY <1>3, <1>4, <1>5, <1>6, ByResolverNext

-----------------------------------------------------------------------------
(* Steps that leave the resolvers alone *)

(* Who leaves, crashes or ends a channel takes members away, and hosts only
   where nobody is left; what is to be unassigned is not hosted.             *)
LEMMA MembersLeave ==
    ASSUME IInv, TypeOK', MembersHosted', EndedNotHosted',
           \A s \in Servers : hosted'[s] \subseteq hosted[s],
           UNCHANGED <<assigned, known, fresh, mapped, joined, resolver, calm>>
    PROVE  IInv'
<1>1. OneResolver'
  BY DEF IInv, OneResolver
<1>2. TablesOK'
  BY DEF IInv, TablesOK, NamedAreFresh, HostedIsAssigned
<1>3. ResolversOK'
  BY ByResolver DEF ResolversOK, ResolverOK, MappedFor
<1>4. MapAgrees'
  BY MapsKept
<1> QED BY <1>1, <1>2, <1>3, <1>4, ByResolverNext

(* One connection fewer leaves nobody elsewhere. *)
LEMMA DisconnectKeeps ==
    ASSUME IInv, NEW p \in Sessions, NEW s \in Servers, NEW c \in Channels,
           Disconnect(p, s, c)
    PROVE  IInv'
<1>1. \A t \in Servers, d \in Channels : members'[t][d] \subseteq members[t][d]
  BY DEF Disconnect, IInv, TypeOK
<1>2. UNCHANGED <<assigned, known, fresh, up, hosted, ending, mapped, joined, resolver, calm>>
  BY DEF Disconnect, registryVars, mapVars
<1>3. TypeOK'
  <2>1. members' \in [Servers -> [Channels -> SUBSET Sessions]]
    BY DEF Disconnect, IInv, TypeOK
  <2> QED BY <2>1, <1>2 DEF IInv, TypeOK
<1>4. MembersHosted' /\ EndedNotHosted'
  BY <1>1, <1>2 DEF IInv, MembersHosted, EndedNotHosted
<1> QED BY <1>2, <1>3, <1>4, MembersLeave

(* A server ends a channel only when nobody is connected to it. *)
LEMMA EndChannelKeeps ==
    ASSUME IInv, NEW s \in Servers, NEW c \in Channels, EndChannel(s, c)
    PROVE  IInv'
<1>1. \A t \in Servers :
        hosted'[t] = IF t = s THEN hosted[t] \ {c} ELSE hosted[t]
  BY DEF EndChannel, IInv, TypeOK
<1>2. UNCHANGED <<assigned, known, fresh, up, members, mapped, joined, resolver, calm>>
  BY DEF EndChannel, registryVars, mapVars
<1>3. TypeOK'
  BY <1>2 DEF EndChannel, IInv, TypeOK
<1>4. MembersHosted'
  BY <1>1 DEF EndChannel, IInv, MembersHosted
<1>5. EndedNotHosted'
  <2> SUFFICES ASSUME NEW d \in calm, NEW t \in Servers, <<t, d>> \in ending'
               PROVE  d \notin hosted'[t]
    BY <1>2 DEF EndedNotHosted
  <2>1. CASE <<t, d>> \in ending
    BY <2>1, <1>1 DEF IInv, EndedNotHosted
  <2>2. CASE t = s /\ d = c
    BY <2>2, <1>1
  <2> QED BY <2>1, <2>2 DEF EndChannel
<1> QED BY <1>1, <1>2, <1>3, <1>4, <1>5, MembersLeave

(* A lost unassignment leaves the assignment where it was. *)
LEMMA UnassignFailsKeeps ==
    ASSUME IInv, NEW s \in Servers, NEW c \in Channels, UnassignFails(s, c)
    PROVE  IInv'
<1>1. UNCHANGED <<assigned, known, fresh, up, hosted, members, mapped, joined, resolver, calm>>
      /\ ending' \subseteq ending
  BY DEF UnassignFails, registryVars, mapVars
<1>2. TypeOK' /\ MembersHosted' /\ EndedNotHosted'
  BY <1>1 DEF IInv, TypeOK, MembersHosted, EndedNotHosted
<1> QED BY <1>1, <1>2, MembersLeave

(* A crash takes the connections of the server with it. *)
LEMMA CrashKeeps ==
    ASSUME IInv, NEW s \in Servers, Crash(s)
    PROVE  IInv'
<1>1. \A t \in Servers :
        /\ hosted'[t] = IF t = s THEN {} ELSE hosted[t]
        /\ members'[t] = IF t = s THEN [c \in Channels |-> {}] ELSE members[t]
  BY DEF Crash, IInv, TypeOK
<1>2. UNCHANGED <<assigned, known, fresh, ending, mapped, joined, resolver, calm>>
  BY DEF Crash, registryVars, mapVars
<1>3. TypeOK'
  BY <1>2 DEF Crash, IInv, TypeOK
<1>4. MembersHosted' /\ EndedNotHosted'
  BY <1>1, <1>2 DEF IInv, MembersHosted, EndedNotHosted
<1> QED BY <1>1, <1>2, <1>3, <1>4, MembersLeave

(* Nobody has a channel that its server is to unassign, and no session of a
   channel that stays calm is on its way to that server.                     *)
LEMMA UnassignKeeps ==
    ASSUME IInv, NEW s \in Servers, NEW c \in Channels, Unassign(s, c)
    PROVE  IInv'
<1>1. \A d \in Channels :
        assigned'[d] = IF d = c /\ assigned[c] = s THEN None ELSE assigned[d]
  BY DEF Unassign, Unassigns, IInv, TypeOK
<1>2. calm' \subseteq calm
      /\ \A p \in Sessions : resolver[p].chan = c /\ resolver[p].host = s => c \notin calm'
  BY DEF Unassign, Resolving
<1>3. UNCHANGED <<known, fresh, up, hosted, members, mapped, joined, resolver>>
      /\ ending' = ending \ {<<s, c>>} /\ <<s, c>> \in ending
  BY DEF Unassign, mapVars
<1>4. TypeOK'
  <2>1. assigned' \in [Channels -> known \cup {None}]
    BY DEF Unassign, IInv, TypeOK
  <2> QED BY <2>1, <1>2, <1>3 DEF IInv, TypeOK
<1>5. OneResolver'
  BY <1>2, <1>3 DEF IInv, OneResolver
<1>6. TablesOK'
  <2>1. MembersHosted' /\ EndedNotHosted'
    BY <1>2, <1>3 DEF IInv, MembersHosted, EndedNotHosted
  <2>2. ASSUME NEW d \in calm', NEW t \in Servers, d \in hosted[t]
        PROVE  assigned'[d] = t
    <3>1. d \in calm /\ d \in Channels /\ assigned[d] = t
      BY <2>2, <1>2 DEF IInv, TypeOK, HostedIsAssigned
    <3>2. ~(d = c /\ t = s)
      BY <3>1, <2>2, <1>3 DEF IInv, EndedNotHosted
    <3> QED BY <3>1, <3>2, <1>1
  <2>3. \A d \in calm' : assigned'[d] \in fresh' \cup {None}
    BY <1>1, <1>2, <1>3 DEF IInv, TypeOK, NamedAreFresh
  <2> QED BY <2>1, <2>2, <2>3, <1>3 DEF TablesOK, HostedIsAssigned
<1>7. ResolversOK'
  <2> SUFFICES ASSUME NEW p \in Sessions
               PROVE  ResolverOK(resolver[p], MappedFor(p, resolver[p].chan))'
    BY DEF ResolversOK
  <2>1. ResolverOK(resolver[p], MappedFor(p, resolver[p].chan)) /\ resolver[p] \in Resolver
        /\ MappedFor(p, resolver[p].chan)' = MappedFor(p, resolver[p].chan)
    BY <1>3, ByResolver DEF ResolversOK, MappedFor, IInv, TypeOK
  <2>2. CASE resolver[p].chan \notin calm'
    BY <2>1, <2>2, <1>3 DEF ResolverOK
  <2>3. CASE resolver[p].chan \in calm'
    <3>1. resolver[p].chan \in calm /\ resolver[p].chan \in Channels
      BY <2>3, <1>2 DEF IInv, TypeOK
    <3>2. CASE resolver[p].chan = c /\ assigned[c] = s
      <4>1. resolver[p].host # s
        BY <3>2, <2>3, <1>2
      <4>2. assigned'[c] = None /\ resolver[p].at \notin {"check", "assign", "map"}
        BY <3>1, <3>2, <4>1, <2>1, <1>1 DEF ResolverOK
      <4> QED BY <2>1, <3>1, <3>2, <4>2, <1>3 DEF ResolverOK
    <3>3. CASE ~(resolver[p].chan = c /\ assigned[c] = s)
      <4>1. assigned'[resolver[p].chan] = assigned[resolver[p].chan]
        BY <3>1, <3>3, <1>1
      <4> QED BY <2>1, <3>1, <4>1, <1>3 DEF ResolverOK
    <3> QED BY <3>2, <3>3
  <2> QED BY <2>2, <2>3
<1>8. MapAgrees'
  <2> SUFFICES ASSUME NEW d \in calm', NEW g \in Gateways, Outdated(g, d)'
               PROVE  \E h \in Sessions : Home[h] = g /\ Tells(resolver'[h], d)
    BY DEF MapAgrees, Resolving, Tells, At
  <2>1. d \in calm /\ Outdated(g, d)
    BY <1>1, <1>2, <1>3 DEF Outdated, IInv, TypeOK
  <2> QED BY <2>1, <1>3 DEF IInv, MapAgrees, Resolving, Tells, At
<1> QED BY <1>4, <1>5, <1>6, <1>7, <1>8, ByResolverNext

(* A heartbeat makes a server known and fresh, and moves nothing. *)
LEMMA RegisterKeeps ==
    ASSUME IInv, NEW s \in Servers, Register(s)
    PROVE  IInv'
<1>1. UNCHANGED <<assigned, hosted, members, ending, mapped, joined, resolver, calm>>
      /\ fresh \subseteq fresh'
  BY DEF Register, mapVars
<1>2. TypeOK'
  BY <1>1 DEF Register, IInv, TypeOK
<1>3. OneResolver' /\ TablesOK'
  BY <1>1, ByResolver DEF OneResolver, TablesOK, HostedIsAssigned, MembersHosted, EndedNotHosted
<1>4. ResolversOK'
  BY <1>1, ByResolver DEF ResolversOK, ResolverOK, MappedFor
<1>5. MapAgrees'
  BY <1>1, MapsKept
<1> QED BY <1>2, <1>3, <1>4, <1>5, ByResolverNext

(* A channel that stays calm has not had the stale server named to anybody. *)
LEMMA BecomeStaleKeeps ==
    ASSUME IInv, NEW s \in Servers, BecomeStale(s)
    PROVE  IInv'
<1>1. calm' \subseteq calm /\ fresh' = fresh \ {s}
      /\ UNCHANGED <<assigned, known, up, hosted, members, ending, mapped, joined, resolver>>
  BY DEF BecomeStale, voiceVars, mapVars
<1>2. \A c \in calm' : assigned[c] # s
  BY DEF BecomeStale, IInv, TypeOK
<1>3. \A p \in Sessions : resolver[p].chan \in calm' => resolver[p].host # s
  BY DEF BecomeStale, Resolving, IInv, TypeOK
<1>4. TypeOK'
  BY <1>1 DEF IInv, TypeOK
<1>5. OneResolver'
  BY <1>1 DEF IInv, OneResolver
<1>6. TablesOK'
  BY <1>1, <1>2, ByResolver DEF TablesOK, HostedIsAssigned, MembersHosted, EndedNotHosted
<1>7. ResolversOK'
  BY <1>1, <1>3, ByResolver DEF ResolversOK, ResolverOK, MappedFor
<1>8. MapAgrees'
  BY <1>1, MapsKept
<1> QED BY <1>4, <1>5, <1>6, <1>7, <1>8, ByResolverNext

(* The cleanup unassigns stale servers, and a calm channel is on none. *)
LEMMA CleanupStaleKeeps ==
    ASSUME IInv, CleanupStale
    PROVE  IInv'
<1>1. \A c \in Channels :
        assigned'[c] = IF assigned[c] \in fresh THEN assigned[c] ELSE None
  BY DEF CleanupStale, AfterCleanup
<1>2. \A c \in calm : c \in Channels /\ assigned'[c] = assigned[c]
  BY <1>1 DEF IInv, TypeOK, NamedAreFresh
<1>3. UNCHANGED <<fresh, up, hosted, members, ending, mapped, joined, resolver, calm>>
  BY DEF CleanupStale, voiceVars, mapVars
<1>4. TypeOK'
  <2>1. assigned' \in [Channels -> known' \cup {None}]
    BY DEF CleanupStale, AfterCleanup
  <2> QED BY <2>1, <1>3 DEF CleanupStale, IInv, TypeOK
<1>5. OneResolver'
  BY <1>3 DEF IInv, OneResolver
<1>6. TablesOK'
  BY <1>2, <1>3, ByResolver DEF TablesOK, HostedIsAssigned, MembersHosted, EndedNotHosted
<1>7. ResolversOK'
  BY <1>2, <1>3, ByResolver DEF ResolversOK, ResolverOK, MappedFor
<1>8. MapAgrees'
  BY <1>2, <1>3, MapsKept
<1> QED BY <1>4, <1>5, <1>6, <1>7, <1>8, ByResolverNext

-----------------------------------------------------------------------------
(* The theorems *)

(* At first nothing is assigned or in a map, and nobody is connected. *)
LEMMA InitOK == Init => IInv
<1> SUFFICES ASSUME Init PROVE IInv
  OBVIOUS
<1>1. TypeOK
  BY IdleOK DEF Init, TypeOK
<1>2. OneResolver
  BY NoneIsNoName, IdleOK DEF Init, OneResolver
<1>3. ResolversOK
  BY IdleOK, <1>1 DEF Init, ResolversOK, TypeOK
<1>4. MapAgrees
  BY DEF Init, MapAgrees, Outdated
<1>5. TablesOK
  BY DEF Init, TablesOK, HostedIsAssigned, MembersHosted, EndedNotHosted
<1> QED BY <1>1, <1>2, <1>3, <1>4, <1>5, ByResolver

(* No step of a session, a server or the database breaks the invariant. *)
LEMMA StepKeeps == IInv /\ [Next]_vars => IInv'
<1> SUFFICES ASSUME IInv, [Next]_vars PROVE IInv'
  OBVIOUS
<1>1. ASSUME NEW p \in Sessions, NEW c \in Channels, Join(p, c) \/ LeaveState(p, c)
      PROVE  IInv'
  BY <1>1, JoinKeeps, LeaveStateKeeps
<1>2. ASSUME NEW p \in Sessions, SessionStep(p) PROVE IInv'
  BY <1>2, AskRegistryKeeps, CheckHostKeeps, PickServerKeeps, StoreAssignmentKeeps,
     AssignChannelKeeps, MapChannelKeeps, OpenConnectionKeeps DEF SessionStep
<1>3. ASSUME NEW p \in Sessions, GiveUp(p) PROVE IInv'
  BY <1>3, GiveUpKeeps
<1>4. ASSUME NEW p \in Sessions, NEW s \in Servers, NEW c \in Channels,
             Disconnect(p, s, c)
      PROVE  IInv'
  BY <1>4, DisconnectKeeps
<1>5. ASSUME NEW s \in Servers, NEW c \in Channels,
             EndChannel(s, c) \/ Unassign(s, c) \/ UnassignFails(s, c)
      PROVE  IInv'
  BY <1>5, EndChannelKeeps, UnassignKeeps, UnassignFailsKeeps
<1>6. ASSUME NEW s \in Servers, Register(s) \/ Crash(s) \/ BecomeStale(s) PROVE IInv'
  BY <1>6, RegisterKeeps, CrashKeeps, BecomeStaleKeeps
<1>7. CASE CleanupStale
  BY <1>7, CleanupStaleKeeps
<1>8. CASE UNCHANGED vars
  <2>1. UNCHANGED <<assigned, known, fresh, up, hosted, members, ending, mapped, joined,
                    resolver, calm>>
    BY <1>8 DEF vars, registryVars, voiceVars, mapVars
  <2>2. TypeOK' /\ MembersHosted' /\ EndedNotHosted'
    BY <2>1 DEF IInv, TypeOK, MembersHosted, EndedNotHosted
  <2> QED BY <2>1, <2>2, MembersLeave
<1> QED BY <1>1, <1>2, <1>3, <1>4, <1>5, <1>6, <1>7, <1>8 DEF Next

(* The registry's tables, the gateways' maps, the voice servers and the sessions
   that open a channel agree as IInv says (channels/mod.rs, distributed.rs,
   channels/core/src/lib.rs).                                                  *)
THEOREM RegistryIInv == Spec => []IInv
BY InitOK, StepKeeps, PTL DEF Spec

(* Every variable keeps its type, and an assignment names a registered voice
   server (the foreign key of channels.assigned_to, with ON DELETE SET NULL).  *)
THEOREM TypeCorrect == Spec => []TypeOK
<1>1. IInv => TypeOK
  BY DEF IInv
<1> QED BY <1>1, RegistryIInv, PTL

(* get_or_init, open_connection and reassign_voice: everyone in a calm channel
   is on the voice server that the registry names, whatever crashes, restarts,
   ends, unassigns or fails meanwhile, and whatever host a gateway has kept.   *)
THEOREM EveryoneOnAssigned == Spec => []UsedIsAssigned
<1>1. IInv => UsedIsAssigned
  BY DEF IInv
<1> QED BY <1>1, RegistryIInv, PTL
=============================================================================
