------------------------ MODULE ServerDirectoryProofs ------------------------
(***************************************************************************)
(* Proofs about ServerDirectory, for any number of servers, channels,      *)
(* states, clients and users and any size of a page.                       *)
(***************************************************************************)
EXTENDS ServerDirectory, FiniteSetTheorems, TLAPS

-----------------------------------------------------------------------------
(* What IInv asks of one request *)

BoundsKept(r) == r.at \in {"row", "next", "list"} =>
    \A c \in Channels : r.stayed[c] \subseteq Members(c) /\ Members(c) \subseteq r.seen[c]
Holds(r) == r.at = "list" =>
    /\ r.chan \in r.todo /\ r.state \in States
    /\ \/ entry[r.chan] = r.state
       \/ /\ present[r.state] = {} /\ r.stayed[r.chan] = {}
          /\ \A c \in Channels : entry[c] # r.state
ReadRight(r) == \A c \in r.done :
    /\ home[c] = r.server /\ home[c] \in servers
    /\ r.stayed[c] \subseteq r.rows[c] /\ r.rows[c] \subseteq r.seen[c]
Owes(r) ==
    /\ r.at \in {"row", "next", "list"} => r.server \in servers
    /\ r.at = "row" => r.due \subseteq ChannelsOf(r.server)
    /\ r.at \in {"next", "list"} =>
          r.due \subseteq r.done \cup r.todo /\ r.todo \subseteq ChannelsOf(r.server)
    /\ r.at = "answered" => r.due \subseteq r.done

RequestOK(r) == BoundsKept(r) /\ Holds(r) /\ ReadRight(r) /\ Owes(r)

(* Every request of a user meets them. *)
LEMMA RequestsOK == ASSUME IInv, NEW u \in Users PROVE RequestOK(request[u])
<1>1. BoundsKept(request[u])
  BY DEF IInv, Followed, Open, BoundsKept
<1>2. Holds(request[u])
  BY DEF IInv, StateHeld, Holds
<1>3. ReadRight(request[u])
  BY DEF IInv, RowsBounded, ReadRight
<1>4. Owes(request[u])
  BY DEF IInv, DueKept, Open, Owes
<1> QED BY <1>1, <1>2, <1>3, <1>4 DEF RequestOK

(* The request of a user who has not asked is a request, and meets them. *)
LEMMA NothingType == Nothing \in Request /\ Nobody \in [Channels -> SUBSET Clients]
BY DEF Nothing, Nobody, Request

(* The members of the channels are clients. *)
LEMMA HereType ==
    ASSUME TypeOK
    PROVE  Here \in [Channels -> SUBSET Clients]
<1> SUFFICES ASSUME NEW c \in Channels PROVE Members(c) \in SUBSET Clients
  BY DEF Here
<1> QED BY DEF TypeOK, Members

(* A step of one user that leaves the request in order keeps the invariant. *)
LEMMA RequestChanges ==
    ASSUME IInv, NEW u \in Users, NEW r \in Request, RequestOK(r),
           request' = [request EXCEPT ![u] = r],
           UNCHANGED <<servers, home, entry, present, closing>>
    PROVE  IInv'
<1>1. \A v \in Users : request'[v] = IF v = u THEN r ELSE request[v]
  BY DEF IInv, TypeOK
<1>2. TypeOK'
  BY DEF IInv, TypeOK
<1>3. StatesApart' /\ ClosingEmpty'
  BY DEF IInv, StatesApart, ClosingEmpty
<1>4. \A c \in Channels : Members(c)' = Members(c)
  BY DEF Members
<1>5. \A s : ChannelsOf(s)' = ChannelsOf(s)
  BY DEF ChannelsOf
<1>6. Followed'
  BY <1>1, <1>4 DEF IInv, Followed, Open, RequestOK, BoundsKept
<1>7. StateHeld'
  BY <1>1 DEF IInv, StateHeld, RequestOK, Holds
<1>8. RowsBounded'
  BY <1>1 DEF IInv, RowsBounded, RequestOK, ReadRight
<1>9. DueKept'
  <2> SUFFICES ASSUME NEW v \in Users
               PROVE  Owes(request'[v])
    BY <1>5 DEF DueKept, Open, Owes, ChannelsOf
  <2>1. CASE v = u
    BY <2>1, <1>1 DEF RequestOK, Owes
  <2>2. CASE v # u
    BY <2>2, <1>1, RequestsOK DEF RequestOK, Owes
  <2> QED BY <2>1, <2>2
<1> QED BY <1>2, <1>3, <1>6, <1>7, <1>8, <1>9 DEF IInv

-----------------------------------------------------------------------------
(* Steps of a user *)

(* A request that has just come is in order: nothing has been read, and those
   who stayed, and who have been seen, are those present.                    *)
LEMMA AskedKeeps ==
    ASSUME IInv, NEW u \in Users, NEW at \in {"row", "next", "absent"},
           NEW s \in Servers \cup {None}, NEW todo \in SUBSET Channels,
           NEW due \in SUBSET Channels,
           at # "absent" => s \in servers,
           at = "row" => due \subseteq ChannelsOf(s),
           at = "next" => due \subseteq todo /\ todo \subseteq ChannelsOf(s),
           Asked(u, at, s, todo, due),
           UNCHANGED <<servers, home, entry, present, closing>>
    PROVE  IInv'
<1> DEFINE r == [Nothing EXCEPT !.at = at, !.server = s, !.todo = todo, !.due = due,
                                !.stayed = Here, !.seen = Here]
<1>1. Here \in [Channels -> SUBSET Clients] /\ \A c \in Channels : Here[c] = Members(c)
  BY HereType DEF IInv, Here
<1>2. r \in Request /\ r.at = at /\ r.server = s /\ r.todo = todo /\ r.due = due
      /\ r.stayed = Here /\ r.seen = Here /\ r.done = {}
  BY <1>1, NothingType DEF Nothing, Request
<1>3. request' = [request EXCEPT ![u] = r]
  BY DEF Asked
<1> HIDE DEF r
<1>4. RequestOK(r)
  BY <1>1, <1>2 DEF RequestOK, BoundsKept, Holds, ReadRight, Owes
<1> QED BY <1>2, <1>3, <1>4, RequestChanges

(* Nor does asking for what is not there disturb anything. *)
LEMMA AbsentKeeps ==
    ASSUME IInv, NEW u \in Users, NotFound(u),
           UNCHANGED <<servers, home, entry, present, closing>>
    PROVE  IInv'
<1>1. /\ "absent" \in {"row", "next", "absent"} /\ None \in Servers \cup {None}
      /\ {} \in SUBSET Channels /\ "absent" # "row" /\ "absent" # "next"
  OBVIOUS
<1> PICK at \in {"row", "next", "absent"} : at = "absent"
  OBVIOUS
<1> QED BY <1>1, AskedKeeps DEF NotFound

(* Reading the members of a channel that was due keeps the bounds, if they
   are between those who stayed and those seen.                              *)
LEMMA ReadKeeps ==
    ASSUME IInv, NEW u \in Users, NEW c \in Channels, NEW who \in SUBSET Clients,
           request[u].at \in {"next", "list"}, c \in request[u].todo,
           request[u].stayed[c] \subseteq who, who \subseteq request[u].seen[c],
           Read(u, c, who),
           UNCHANGED <<servers, home, entry, present, closing>>
    PROVE  IInv'
<1> DEFINE q == request[u]
           r == [q EXCEPT !.at = "next", !.todo = @ \ {c}, !.chan = None,
                          !.state = None, !.done = @ \cup {c},
                          !.rows[c] = who]
<1>1. q \in Request /\ RequestOK(q)
  BY RequestsOK DEF IInv, TypeOK
<1>2. /\ r \in Request /\ r.at = "next" /\ r.todo = q.todo \ {c}
      /\ r.done = q.done \cup {c} /\ r.rows = [q.rows EXCEPT ![c] = who]
      /\ r.stayed = q.stayed /\ r.seen = q.seen /\ r.due = q.due
      /\ r.server = q.server
  BY <1>1 DEF Request
<1>3. request' = [request EXCEPT ![u] = r]
  BY DEF Read
<1>4. q.rows \in [Channels -> SUBSET Clients] /\ q.at \in {"next", "list"}
      /\ c \in q.todo /\ q.stayed[c] \subseteq who /\ who \subseteq q.seen[c]
      /\ q.done \subseteq Channels
  BY <1>1 DEF Request
<1> HIDE DEF q, r
<1>5. BoundsKept(r) /\ Holds(r)
  BY <1>1, <1>2, <1>4 DEF RequestOK, BoundsKept, Holds
<1>6. Owes(r)
  BY <1>1, <1>2, <1>4 DEF RequestOK, Owes
<1>7. home[c] = q.server /\ home[c] \in servers
  BY <1>1, <1>4 DEF RequestOK, Owes, ChannelsOf
<1>8. ReadRight(r)
  BY <1>1, <1>2, <1>4, <1>7 DEF RequestOK, ReadRight
<1> QED BY <1>2, <1>3, <1>5, <1>6, <1>8, RequestChanges DEF RequestOK

(* Whatever a user does keeps the invariant. *)
LEMMA UserStepKeeps ==
    ASSUME IInv, NEW u \in Users,
           \/ \E s \in Servers : GetServer(u, s)
           \/ \E c \in Channels : GetChannel(u, c) \/ NextChannel(u, c)
           \/ ReadChannels(u) \/ ListMembers(u) \/ Answer(u)
           \/ TakeAnswer(u) \/ RequestFails(u)
    PROVE  IInv'
<1> DEFINE q == request[u]
<1>1. q \in Request /\ RequestOK(q)
  BY RequestsOK DEF IInv, TypeOK
<1>2. ASSUME NEW s \in Servers, GetServer(u, s) PROVE IInv'
  <2>1. ChannelsOf(s) \in SUBSET Channels
    BY DEF ChannelsOf
  <2>2. CASE s \in servers /\ Asked(u, "row", s, {}, ChannelsOf(s))
    BY <1>2, <2>1, <2>2, AskedKeeps DEF GetServer
  <2>3. CASE NotFound(u)
    BY <1>2, <2>3, AbsentKeeps DEF GetServer
  <2> QED BY <1>2, <2>2, <2>3 DEF GetServer
<1>3. ASSUME NEW c \in Channels, GetChannel(u, c) PROVE IInv'
  <2>1. CASE Exists(c) /\ Asked(u, "next", home[c], {c}, {c})
    <3>1. home[c] \in servers /\ servers \subseteq Servers /\ {c} \subseteq ChannelsOf(home[c])
      BY <2>1 DEF IInv, TypeOK, ChannelsOf, Exists
    <3> QED BY <1>3, <2>1, <3>1, AskedKeeps DEF GetChannel
  <2>2. CASE NotFound(u)
    BY <1>3, <2>2, AbsentKeeps DEF GetChannel
  <2> QED BY <1>3, <2>1, <2>2 DEF GetChannel
<1>4. ASSUME NEW c \in Channels, NextChannel(u, c) PROVE IInv'
  <2>1. /\ q.at = "next" /\ c \in q.todo
        /\ q.stayed[c] \subseteq Members(c) /\ Members(c) \subseteq q.seen[c]
    BY <1>1, <1>4 DEF NextChannel, RequestOK, BoundsKept
  <2>2. CASE entry[c] = None /\ Read(u, c, {})
    BY <1>4, <2>1, <2>2, ReadKeeps DEF NextChannel, Members
  <2>3. CASE entry[c] # None
    <3> DEFINE r == [q EXCEPT !.at = "list", !.chan = c, !.state = entry[c]]
    <3>1. entry[c] \in States
      BY <2>3 DEF IInv, TypeOK
    <3>2. /\ r \in Request /\ r.at = "list" /\ r.chan = c /\ r.state = entry[c]
          /\ r.todo = q.todo /\ r.done = q.done /\ r.rows = q.rows
          /\ r.stayed = q.stayed /\ r.seen = q.seen /\ r.due = q.due
          /\ r.server = q.server
      BY <1>1, <3>1 DEF Request
    <3>3. request' = [request EXCEPT ![u] = r]
      BY <1>4, <2>3 DEF NextChannel, Read
    <3> HIDE DEF q, r
    <3>4. RequestOK(r)
      BY <1>1, <2>1, <3>1, <3>2 DEF RequestOK, BoundsKept, Holds, ReadRight, Owes
    <3> QED BY <1>4, <3>2, <3>3, <3>4, RequestChanges DEF NextChannel
  <2> QED BY <1>4, <2>2, <2>3 DEF NextChannel
<1>5. ASSUME ReadChannels(u) PROVE IInv'
  <2> DEFINE r == [q EXCEPT !.at = "next", !.todo = ChannelsOf(q.server)]
  <2>1. /\ r \in Request /\ r.at = "next" /\ r.todo = ChannelsOf(q.server)
        /\ r.done = q.done /\ r.rows = q.rows /\ r.stayed = q.stayed
        /\ r.seen = q.seen /\ r.due = q.due /\ r.server = q.server
    BY <1>1 DEF Request, ChannelsOf
  <2>2. request' = [request EXCEPT ![u] = r] /\ q.at = "row"
    BY <1>5 DEF ReadChannels
  <2> HIDE DEF q, r
  <2>3. RequestOK(r)
    BY <1>1, <2>1, <2>2 DEF RequestOK, BoundsKept, Holds, ReadRight, Owes
  <2> QED BY <1>5, <2>1, <2>2, <2>3, RequestChanges DEF ReadChannels
<1>6. ASSUME ListMembers(u) PROVE IInv'
  <2>1. q.at = "list" /\ Holds(q) /\ q.chan \in q.todo /\ q.todo \subseteq Channels
    BY <1>1, <1>6 DEF ListMembers, RequestOK, Holds, Request
  <2> PICK c \in Channels : c = q.chan
    BY <2>1
  <2>2. present[q.state] \in SUBSET Clients
    BY <2>1 DEF Holds, IInv, TypeOK
  <2>3. q.stayed[c] \subseteq Members(c) /\ Members(c) \subseteq q.seen[c]
    BY <1>1, <2>1 DEF RequestOK, BoundsKept
  <2>4. q.stayed[c] \subseteq present[q.state] /\ present[q.state] \subseteq q.seen[c]
    <3>1. CASE entry[c] = q.state
      <4>1. entry[c] # None
        BY <2>1, <3>1, NoneIsNothing DEF Holds
      <4> QED BY <2>3, <3>1, <4>1 DEF Members
    <3>2. CASE present[q.state] = {} /\ q.stayed[c] = {}
      BY <3>2
    <3> QED BY <2>1, <3>1, <3>2 DEF Holds
  <2> QED BY <1>6, <2>1, <2>2, <2>4, ReadKeeps DEF ListMembers
<1>7. ASSUME Answer(u) PROVE IInv'
  <2> DEFINE r == [q EXCEPT !.at = "answered"]
  <2>1. /\ r \in Request /\ r.at = "answered" /\ r.todo = q.todo
        /\ r.done = q.done /\ r.rows = q.rows /\ r.stayed = q.stayed
        /\ r.seen = q.seen /\ r.due = q.due /\ r.server = q.server
    BY <1>1 DEF Request
  <2>2. request' = [request EXCEPT ![u] = r] /\ q.at = "next" /\ q.todo = {}
    BY <1>7 DEF Answer
  <2> HIDE DEF q, r
  <2>3. RequestOK(r)
    BY <1>1, <2>1, <2>2 DEF RequestOK, BoundsKept, Holds, ReadRight, Owes
  <2> QED BY <1>7, <2>1, <2>2, <2>3, RequestChanges DEF Answer
<1>8. ASSUME TakeAnswer(u) \/ RequestFails(u) PROVE IInv'
  <2>1. RequestOK(Nothing)
    BY DEF Nothing, RequestOK, BoundsKept, Holds, ReadRight, Owes
  <2> QED BY <1>8, <2>1, NothingType, RequestChanges DEF TakeAnswer, RequestFails
<1> QED BY <1>2, <1>3, <1>4, <1>5, <1>6, <1>7, <1>8

-----------------------------------------------------------------------------
(* Steps of the tables and of the clients *)

(* Creating a server adds a row; what the requests found is still there. *)
LEMMA CreateServerKeeps ==
    ASSUME IInv, NEW s \in Servers, CreateServer(s)
    PROVE  IInv'
<1>1. TypeOK'
  BY DEF IInv, CreateServer, TypeOK
<1>2. StatesApart' /\ ClosingEmpty' /\ StateHeld' /\ RowsBounded'
  BY DEF IInv, CreateServer, StatesApart, ClosingEmpty, StateHeld, RowsBounded
<1>3. Followed'
  BY DEF IInv, CreateServer, Followed, Open, Members
<1>4. DueKept'
  BY DEF IInv, CreateServer, DueKept, Open, ChannelsOf
<1> QED BY <1>1, <1>2, <1>3, <1>4 DEF IInv

(* A channel keeps the server it was created in. *)
LEMMA CreateChannelKeeps ==
    ASSUME IInv, NEW s \in Servers, NEW c \in Channels, CreateChannel(s, c)
    PROVE  IInv'
<1>1. TypeOK'
  BY DEF IInv, TypeOK, CreateChannel, Refers
<1>2. StatesApart' /\ ClosingEmpty' /\ StateHeld'
  BY DEF IInv, CreateChannel, StatesApart, ClosingEmpty, StateHeld
<1>3. Followed'
  BY DEF IInv, CreateChannel, Followed, Open, Members
<1>4. ASSUME NEW d \in Channels, home[d] \in servers PROVE home'[d] = home[d]
  BY <1>4, NoneIsNothing DEF IInv, TypeOK, CreateChannel, Exists
<1>5. servers' = servers /\ request' = request
      /\ \A u \in Users : request[u] \in Request
  BY DEF CreateChannel, IInv, TypeOK
<1>6. RowsBounded'
  BY <1>4, <1>5 DEF IInv, RowsBounded, Request
<1>7. ASSUME NEW t \in servers PROVE ChannelsOf(t) \subseteq ChannelsOf(t)'
  BY <1>4 DEF ChannelsOf
<1>8. DueKept'
  <2> SUFFICES ASSUME NEW u \in Users
               PROVE  LET r == request[u] IN
                      /\ Open(u) => r.server \in servers
                      /\ r.at = "row" => r.due \subseteq ChannelsOf(r.server)'
                      /\ r.at \in {"next", "list"} =>
                            r.due \subseteq r.done \cup r.todo
                            /\ r.todo \subseteq ChannelsOf(r.server)'
                      /\ r.at = "answered" => r.due \subseteq r.done
    BY <1>5 DEF DueKept, Open, ChannelsOf
  <2>1. Open(u) => ChannelsOf(request[u].server) \subseteq ChannelsOf(request[u].server)'
    BY <1>5, <1>7 DEF IInv, DueKept, ChannelsOf
  <2> QED BY <2>1 DEF IInv, DueKept, Open
<1> QED BY <1>1, <1>2, <1>3, <1>6, <1>8 DEF IInv

(* A state that is mapped is new: no request holds it, and nobody is in it. *)
LEMMA MapChannelKeeps ==
    ASSUME IInv, NEW c \in Channels, MapChannel(c)
    PROVE  IInv'
<1> PICK s \in States : /\ Unreachable(s)
                        /\ entry' = [entry EXCEPT ![c] = s]
                        /\ present' = [present EXCEPT ![s] = {}]
  BY DEF MapChannel
<1>1. /\ entry[c] = None /\ UNCHANGED <<servers, home, closing, request>>
      /\ entry \in [Channels -> States \cup {None}]
      /\ present \in [States -> SUBSET Clients]
      /\ \A d \in Channels : entry[d] # s
      /\ \A u \in Users : request[u].state # s
      /\ None \notin States
  BY NoneIsNothing DEF MapChannel, Unreachable, IInv, TypeOK
<1>2. s \notin closing
  BY <1>1 DEF IInv, ClosingEmpty
<1>3. TypeOK'
  BY <1>1 DEF IInv, TypeOK
<1>4. StatesApart'
  BY <1>1 DEF IInv, StatesApart
<1>5. ClosingEmpty'
  BY <1>1, <1>2 DEF IInv, TypeOK, ClosingEmpty
<1>6. \A d \in Channels : Members(d)' = Members(d)
  BY <1>1 DEF Members
<1>7. Followed'
  BY <1>1, <1>6 DEF IInv, Followed, Open
<1>8. RowsBounded' /\ DueKept'
  BY <1>1 DEF IInv, RowsBounded, DueKept, Open, ChannelsOf
<1>9. StateHeld'
  <2> SUFFICES ASSUME NEW u \in Users, request[u].at = "list"
               PROVE  LET r == request[u] IN
                      /\ r.chan \in r.todo /\ r.state \in States
                      /\ \/ entry'[r.chan] = r.state
                         \/ /\ present'[r.state] = {} /\ r.stayed[r.chan] = {}
                            /\ \A d \in Channels : entry'[d] # r.state
    BY <1>1 DEF StateHeld
  <2>1. request[u].state # s /\ present'[request[u].state] = present[request[u].state]
    BY <1>1 DEF IInv, StateHeld
  <2>2. request[u] \in Request
    BY DEF IInv, TypeOK
  <2> QED BY <1>1, <2>1, <2>2 DEF IInv, StateHeld, Request
<1> QED BY <1>3, <1>4, <1>5, <1>7, <1>8, <1>9 DEF IInv

(* Whoever joins has been seen by the requests under way. *)
LEMMA JoinKeeps ==
    ASSUME IInv, NEW d \in Clients, NEW c \in Channels, Join(d, c)
    PROVE  IInv'
<1>1. /\ UNCHANGED <<servers, home, entry, closing>>
      /\ entry[c] \in States /\ entry[c] # None /\ entry[c] \notin closing
      /\ present' = [present EXCEPT ![entry[c]] = @ \cup {d}]
      /\ request' = [u \in Users |-> [request[u] EXCEPT !.seen[c] = @ \cup {d}]]
      /\ present \in [States -> SUBSET Clients]
      /\ entry \in [Channels -> States \cup {None}]
  BY DEF Join, IInv, TypeOK
<1>2. ASSUME NEW u \in Users
      PROVE  LET q == request[u] r == request'[u] IN
             /\ q \in Request /\ r \in Request
             /\ r.at = q.at /\ r.server = q.server /\ r.todo = q.todo /\ r.chan = q.chan
             /\ r.state = q.state /\ r.done = q.done /\ r.rows = q.rows
             /\ r.due = q.due /\ r.stayed = q.stayed
             /\ \A b \in Channels :
                   r.seen[b] = IF b = c THEN q.seen[b] \cup {d} ELSE q.seen[b]
  <2>1. request[u] \in Request /\ request[u].seen \in [Channels -> SUBSET Clients]
    BY DEF IInv, TypeOK, Request
  <2> PICK f : f = [request[u].seen EXCEPT ![c] = request[u].seen[c] \cup {d}]
    OBVIOUS
  <2>2. f \in [Channels -> SUBSET Clients]
    BY <2>1
  <2>3. request'[u] = [request[u] EXCEPT !.seen = f]
    BY <1>1
  <2>4. LET q == request[u] r == request'[u] IN
        /\ r \in Request /\ r.seen = f
        /\ r.at = q.at /\ r.server = q.server /\ r.todo = q.todo /\ r.chan = q.chan
        /\ r.state = q.state /\ r.done = q.done /\ r.rows = q.rows
        /\ r.due = q.due /\ r.stayed = q.stayed
    BY <2>1, <2>2, <2>3 DEF Request
  <2>5. \A b \in Channels :
          f[b] = IF b = c THEN request[u].seen[b] \cup {d} ELSE request[u].seen[b]
    BY <2>1
  <2> QED BY <2>1, <2>4, <2>5
<1>3. TypeOK'
  <2>1. request' \in [Users -> Request]
    BY <1>1, <1>2
  <2> QED BY <1>1, <2>1 DEF IInv, TypeOK
<1>4. StatesApart' /\ ClosingEmpty'
  BY <1>1 DEF IInv, StatesApart, ClosingEmpty
<1>5. ASSUME NEW b \in Channels
      PROVE  Members(b)' = IF b = c THEN Members(b) \cup {d} ELSE Members(b)
  <2>1. b # c /\ entry[b] # None => entry[b] # entry[c]
    BY DEF IInv, StatesApart
  <2> QED BY <1>1, <2>1 DEF Members
<1>6. Followed'
  <2> SUFFICES ASSUME NEW u \in Users, Open(u)', NEW b \in Channels
               PROVE  /\ request'[u].stayed[b] \subseteq Members(b)'
                      /\ Members(b)' \subseteq request'[u].seen[b]
    BY DEF Followed
  <2>1. /\ request[u].stayed[b] \subseteq Members(b)
        /\ Members(b) \subseteq request[u].seen[b]
    BY <1>2 DEF IInv, Followed, Open
  <2>2. request'[u].stayed[b] \subseteq Members(b)'
    BY <1>2, <1>5, <2>1
  <2>3. CASE b = c
    <3>1. request'[u].seen[b] = request[u].seen[b] \cup {d}
      BY <1>2, <2>3
    <3> QED BY <1>5, <2>1, <2>2, <2>3, <3>1
  <2>4. CASE b # c
    <3>1. request'[u].seen[b] = request[u].seen[b]
      BY <1>2, <2>4
    <3> QED BY <1>5, <2>1, <2>2, <2>4, <3>1
  <2> QED BY <2>3, <2>4
<1>7. StateHeld'
  <2> SUFFICES ASSUME NEW u \in Users, request'[u].at = "list"
               PROVE  LET r == request'[u] IN
                      /\ r.chan \in r.todo /\ r.state \in States
                      /\ \/ entry'[r.chan] = r.state
                         \/ /\ present'[r.state] = {} /\ r.stayed[r.chan] = {}
                            /\ \A b \in Channels : entry'[b] # r.state
    BY DEF StateHeld
  <2>0. /\ entry' = entry /\ request[u].at = "list"
        /\ request'[u].chan = request[u].chan /\ request'[u].todo = request[u].todo
        /\ request'[u].state = request[u].state
    BY <1>1, <1>2
  <2>1. CASE entry[request[u].chan] = request[u].state
    BY <2>0, <2>1 DEF IInv, StateHeld
  <2>2. CASE /\ \A b \in Channels : entry[b] # request[u].state
             /\ request[u].stayed[request[u].chan] = {}
             /\ present[request[u].state] = {}
    <3>1. request'[u].stayed = request[u].stayed
      BY <1>2
    <3>2. present'[request[u].state] = {}
      BY <1>1, <2>2, <2>0 DEF IInv, StateHeld
    <3> QED BY <2>0, <2>2, <3>1, <3>2 DEF IInv, StateHeld
  <2> QED BY <2>0, <2>1, <2>2 DEF IInv, StateHeld
<1>8. RowsBounded'
  <2> SUFFICES ASSUME NEW u \in Users, NEW b \in request[u].done
               PROVE  /\ home[b] = request[u].server /\ home[b] \in servers
                      /\ request[u].stayed[b] \subseteq request[u].rows[b]
                      /\ request[u].rows[b] \subseteq request'[u].seen[b]
    <3>1. servers' = servers /\ home' = home
      BY <1>1
    <3> QED BY <1>2, <3>1 DEF RowsBounded
  <2>1. b \in Channels
    BY <1>2 DEF Request
  <2>2. request[u].seen[b] \subseteq request'[u].seen[b]
    BY <1>2, <2>1
  <2> QED BY <2>2 DEF IInv, RowsBounded
<1>9. DueKept'
  <2>1. servers' = servers /\ \A s : ChannelsOf(s)' = ChannelsOf(s)
    BY <1>1 DEF ChannelsOf
  <2> QED BY <1>2, <2>1 DEF IInv, DueKept, Open
<1> QED BY <1>3, <1>4, <1>6, <1>7, <1>8, <1>9 DEF IInv

(* Whoever leaves has not stayed, and who leaves last leaves nobody. *)
LEMMA LeaveKeeps ==
    ASSUME IInv, NEW d \in Clients, NEW c \in Channels, Leave(d, c)
    PROVE  IInv'
<1> DEFINE left == Members(c) \ {d}
<1>1. /\ UNCHANGED <<servers, home, entry>>
      /\ entry[c] # None /\ entry[c] \in States
      /\ present' = [present EXCEPT ![entry[c]] = left]
      /\ left = present[entry[c]] \ {d}
      /\ closing' = IF left = {} THEN closing \cup {entry[c]} ELSE closing
      /\ request' = [u \in Users |-> [request[u] EXCEPT !.stayed[c] = @ \ {d}]]
      /\ present \in [States -> SUBSET Clients]
      /\ entry \in [Channels -> States \cup {None}]
      /\ closing \subseteq States
  BY DEF Leave, Closes, Members, IInv, TypeOK
<1> HIDE DEF left
<1>2. ASSUME NEW u \in Users
      PROVE  LET q == request[u] r == request'[u] IN
             /\ q \in Request /\ r \in Request
             /\ r.at = q.at /\ r.server = q.server /\ r.todo = q.todo /\ r.chan = q.chan
             /\ r.state = q.state /\ r.done = q.done /\ r.rows = q.rows
             /\ r.due = q.due /\ r.seen = q.seen
             /\ \A b \in Channels :
                   r.stayed[b] = IF b = c THEN q.stayed[b] \ {d} ELSE q.stayed[b]
  <2>1. request[u] \in Request /\ request[u].stayed \in [Channels -> SUBSET Clients]
    BY DEF IInv, TypeOK, Request
  <2> PICK f : f = [request[u].stayed EXCEPT ![c] = request[u].stayed[c] \ {d}]
    OBVIOUS
  <2>2. f \in [Channels -> SUBSET Clients]
    BY <2>1
  <2>3. request'[u] = [request[u] EXCEPT !.stayed = f]
    BY <1>1
  <2>4. LET q == request[u] r == request'[u] IN
        /\ r \in Request /\ r.stayed = f
        /\ r.at = q.at /\ r.server = q.server /\ r.todo = q.todo /\ r.chan = q.chan
        /\ r.state = q.state /\ r.done = q.done /\ r.rows = q.rows
        /\ r.due = q.due /\ r.seen = q.seen
    BY <2>1, <2>2, <2>3 DEF Request
  <2>5. \A b \in Channels :
          f[b] = IF b = c THEN request[u].stayed[b] \ {d} ELSE request[u].stayed[b]
    BY <2>1
  <2> QED BY <2>1, <2>4, <2>5
<1>3. TypeOK'
  <2>1. request' \in [Users -> Request]
    BY <1>1, <1>2
  <2>2. present' \in [States -> SUBSET Clients] /\ closing' \subseteq States
    BY <1>1
  <2> QED BY <1>1, <2>1, <2>2 DEF IInv, TypeOK
<1>4. StatesApart' /\ ClosingEmpty'
  BY <1>1 DEF IInv, StatesApart, ClosingEmpty
<1>5. ASSUME NEW b \in Channels
      PROVE  Members(b)' = IF b = c THEN Members(b) \ {d} ELSE Members(b)
  <2>1. b # c /\ entry[b] # None => entry[b] # entry[c]
    BY DEF IInv, StatesApart
  <2> QED BY <1>1, <2>1 DEF Members
<1>6. Followed'
  <2> SUFFICES ASSUME NEW u \in Users, Open(u)', NEW b \in Channels
               PROVE  /\ request'[u].stayed[b] \subseteq Members(b)'
                      /\ Members(b)' \subseteq request'[u].seen[b]
    BY DEF Followed
  <2>1. /\ request[u].stayed[b] \subseteq Members(b)
        /\ Members(b) \subseteq request[u].seen[b]
    BY <1>2 DEF IInv, Followed, Open
  <2>2. Members(b)' \subseteq request'[u].seen[b]
    BY <1>2, <1>5, <2>1
  <2>3. CASE b = c
    <3>1. request'[u].stayed[b] = request[u].stayed[b] \ {d}
      BY <1>2, <2>3
    <3> QED BY <1>5, <2>1, <2>2, <2>3, <3>1
  <2>4. CASE b # c
    <3>1. request'[u].stayed[b] = request[u].stayed[b]
      BY <1>2, <2>4
    <3> QED BY <1>5, <2>1, <2>2, <2>4, <3>1
  <2> QED BY <2>3, <2>4
<1>7. StateHeld'
  <2> SUFFICES ASSUME NEW u \in Users, request'[u].at = "list"
               PROVE  LET r == request'[u] IN
                      /\ r.chan \in r.todo /\ r.state \in States
                      /\ \/ entry'[r.chan] = r.state
                         \/ /\ present'[r.state] = {} /\ r.stayed[r.chan] = {}
                            /\ \A b \in Channels : entry'[b] # r.state
    BY DEF StateHeld
  <2>0. /\ entry' = entry /\ request[u].at = "list"
        /\ request'[u].chan = request[u].chan /\ request'[u].todo = request[u].todo
        /\ request'[u].state = request[u].state
    BY <1>1, <1>2
  <2>1. CASE entry[request[u].chan] = request[u].state
    BY <2>0, <2>1 DEF IInv, StateHeld
  <2>2. CASE /\ \A b \in Channels : entry[b] # request[u].state
             /\ request[u].stayed[request[u].chan] = {}
             /\ present[request[u].state] = {}
    <3>1. request[u].chan \in request[u].todo /\ request[u].todo \subseteq Channels
      BY <2>0, <1>2 DEF IInv, StateHeld, Request
    <3>2. request'[u].stayed[request[u].chan] = {}
      BY <1>2, <2>2, <3>1
    <3>3. present'[request[u].state] = {}
      BY <1>1, <2>2, <2>0 DEF IInv, StateHeld
    <3> QED BY <2>0, <2>2, <3>2, <3>3 DEF IInv, StateHeld
  <2> QED BY <2>0, <2>1, <2>2 DEF IInv, StateHeld
<1>8. RowsBounded'
  <2> SUFFICES ASSUME NEW u \in Users, NEW b \in request[u].done
               PROVE  /\ home[b] = request[u].server /\ home[b] \in servers
                      /\ request'[u].stayed[b] \subseteq request[u].rows[b]
                      /\ request[u].rows[b] \subseteq request[u].seen[b]
    BY <1>1, <1>2 DEF RowsBounded
  <2>1. b \in Channels
    BY <1>2 DEF Request
  <2>2. request'[u].stayed[b] \subseteq request[u].stayed[b]
    BY <1>2, <2>1
  <2> QED BY <2>2 DEF IInv, RowsBounded
<1>9. DueKept'
  <2>1. servers' = servers /\ \A s : ChannelsOf(s)' = ChannelsOf(s)
    BY <1>1 DEF ChannelsOf
  <2> QED BY <1>2, <2>1 DEF IInv, DueKept, Open
<1> QED BY <1>3, <1>4, <1>6, <1>7, <1>8, <1>9 DEF IInv

(* A state that is closed is empty, and is not its channel's any longer. *)
LEMMA CloseChannelKeeps ==
    ASSUME IInv, NEW c \in Channels, CloseChannel(c)
    PROVE  IInv'
<1>1. /\ UNCHANGED <<servers, home, present, request>>
      /\ entry[c] \in closing /\ entry[c] \in States
      /\ entry' = [entry EXCEPT ![c] = None]
      /\ closing' = closing \ {entry[c]}
      /\ entry \in [Channels -> States \cup {None}]
      /\ closing \subseteq States
      /\ None \notin States
  BY NoneIsNothing DEF CloseChannel, IInv, TypeOK
<1>2. present[entry[c]] = {}
  BY <1>1 DEF IInv, ClosingEmpty
<1>3. TypeOK'
  BY <1>1 DEF IInv, TypeOK
<1>4. StatesApart'
  BY <1>1 DEF IInv, StatesApart
<1>5. ClosingEmpty'
  <2> SUFFICES ASSUME NEW s \in closing, s # entry[c]
               PROVE  present[s] = {} /\ \E b \in Channels : entry'[b] = s
    BY <1>1 DEF ClosingEmpty
  <2> QED BY <1>1 DEF IInv, ClosingEmpty
<1>6. \A b \in Channels : Members(b)' = Members(b)
  BY <1>1, <1>2 DEF Members
<1>7. Followed'
  BY <1>1, <1>6 DEF IInv, Followed, Open
<1>8. RowsBounded' /\ DueKept'
  BY <1>1 DEF IInv, RowsBounded, DueKept, Open, ChannelsOf
<1>9. StateHeld'
  <2> SUFFICES ASSUME NEW u \in Users, request[u].at = "list"
               PROVE  LET r == request[u] IN
                      /\ r.chan \in r.todo /\ r.state \in States
                      /\ \/ entry'[r.chan] = r.state
                         \/ /\ present[r.state] = {} /\ r.stayed[r.chan] = {}
                            /\ \A b \in Channels : entry'[b] # r.state
    BY <1>1 DEF StateHeld
  <2>1. /\ request[u].chan \in request[u].todo /\ request[u].state \in States
        /\ request[u].chan \in Channels
    BY DEF IInv, TypeOK, StateHeld, Request
  <2>2. CASE entry[request[u].chan] # request[u].state
    BY <1>1, <2>1, <2>2 DEF IInv, StateHeld
  <2>3. CASE entry[request[u].chan] = request[u].state /\ request[u].chan # c
    BY <1>1, <2>1, <2>3
  <2>4. CASE entry[request[u].chan] = request[u].state /\ request[u].chan = c
    <3>1. Members(c) = {}
      BY <1>1, <1>2 DEF Members
    <3>2. request[u].stayed[c] = {}
      BY <3>1 DEF IInv, Followed, Open
    <3>3. \A b \in Channels : entry'[b] # entry[c]
      BY <1>1 DEF IInv, StatesApart
    <3> QED BY <1>2, <2>1, <2>4, <3>2, <3>3
  <2> QED BY <2>2, <2>3, <2>4
<1> QED BY <1>3, <1>4, <1>5, <1>7, <1>8, <1>9 DEF IInv

(* A page and its size are numbers, asked for or not. *)
LEMMA PageType ==
    ASSUME NEW page \in AskedPages, NEW size \in AskedSizes
    PROVE  PageAsked(page) \in Nat /\ SizeAsked(size) \in Nat
<1>1. PageAsked(page) \in Nat
  BY AskedNat DEF PageAsked
<1> PICK n \in Nat : n = IF size = None THEN DefaultSize ELSE size
  BY AskedNat, SizesNat
<1>2. \E m \in {n, MaxSize} : \A k \in {n, MaxSize} : m <= k
  <2>1. CASE n <= MaxSize
    BY <2>1, SizesNat
  <2>2. CASE MaxSize <= n
    BY <2>2, SizesNat
  <2> QED BY <2>1, <2>2, SizesNat
<1>3. Min({n, MaxSize}) \in {n, MaxSize}
  BY <1>2 DEF Min
<1> QED BY <1>1, <1>3, SizesNat DEF SizeAsked

(* A listing of servers is a page of them, and asks nothing of a channel. *)
LEMMA ListServersKeeps ==
    ASSUME IInv, IsFiniteSet(servers), NEW u \in Users,
           NEW page \in Nat, NEW size \in Nat, ListServers(u, page, size)
    PROVE  IInv'
<1>1. PICK found \in OnPage(page, size) :
        request' = [request EXCEPT ![u] =
            [Nothing EXCEPT !.at = "listed", !.listed = found,
                !.page = page, !.size = size, !.all = servers,
                !.pages = IF found = {} THEN 0 ELSE Pages(Cardinality(servers), size)]]
  BY DEF ListServers
<1>2. found \in SUBSET servers /\ servers \in SUBSET Servers
  BY DEF OnPage, kSubset, IInv, TypeOK
<1>3. ASSUME found # {} PROVE size # 0
  <2> PICK n \in Nat : n = Cardinality(servers)
    BY FS_CardinalityType
  <2>1. found \subseteq servers /\ IsFiniteSet(found)
    BY <1>2, FS_Subset
  <2>2. Cardinality(found) # 0
    BY <1>3, <2>1, FS_EmptySet
  <2>3. CASE n <= Offset(page, size)
    BY <2>2, <2>3 DEF OnPage, kSubset
  <2>4. CASE ~(n <= Offset(page, size)) /\ size = 0
    <3>1. Offset(page, size) = 0
      BY <2>4 DEF Offset
    <3>2. Min({n - Offset(page, size), size}) = 0
      BY <2>4, <3>1 DEF Min
    <3> QED BY <2>2, <2>4, <3>2 DEF OnPage, kSubset
  <2> QED BY <2>3, <2>4
<1>4. found # {} => Pages(Cardinality(servers), size) \in Nat
  <2> SUFFICES ASSUME found # {} PROVE Pages(Cardinality(servers), size) \in Nat
    OBVIOUS
  <2> PICK n \in Nat : n = Cardinality(servers)
    BY FS_CardinalityType
  <2>1. n + size - 1 \in Nat /\ size \in Nat \ {0}
    BY <1>3
  <2>2. \A a \in Nat, b \in Nat \ {0} : a \div b \in Nat
    OBVIOUS
  <2> QED BY <2>1, <2>2 DEF Pages
<1> PICK pages \in Nat :
        pages = IF found = {} THEN 0 ELSE Pages(Cardinality(servers), size)
  BY <1>4
<1> DEFINE r == [Nothing EXCEPT !.at = "listed", !.listed = found, !.page = page,
                                !.size = size, !.all = servers, !.pages = pages]
<1>5. r \in Request /\ r.at = "listed" /\ r.done = {}
  <2>1. found \in SUBSET Servers /\ servers \in SUBSET Servers
    BY <1>2
  <2>2. Nothing.done = {}
    BY DEF Nothing
  <2>3. r \in Request
    BY <2>1, NothingType DEF Request
  <2>4. r.at = "listed" /\ r.done = Nothing.done
    BY NothingType DEF Request
  <2> QED BY <2>2, <2>3, <2>4
<1>6. request' = [request EXCEPT ![u] = r]
  BY <1>1
<1> HIDE DEF r
<1>7. RequestOK(r)
  BY <1>5 DEF RequestOK, BoundsKept, Holds, ReadRight, Owes
<1> QED BY <1>5, <1>6, <1>7, RequestChanges DEF ListServers

-----------------------------------------------------------------------------
(* What the pages of a listing tell *)

(* A quotient is how often the divisor fits. *)
LEMMA Division ==
    ASSUME NEW a \in Nat, NEW b \in Nat \ {0}
    PROVE  /\ a \div b \in Nat
           /\ (a \div b) * b <= a
           /\ a < (a \div b) * b + b
<1>1. a \div b \in Nat
  OBVIOUS
<1>2. a = b * (a \div b) + (a % b)
  OBVIOUS
<1>3. a % b \in 0 .. b - 1
  OBVIOUS
<1>4. (a \div b) * b \in Nat
  BY <1>1
<1> QED BY <1>1, <1>2, <1>3, <1>4

(* The pages before another end where it begins, or before. *)
LEMMA Times ==
    ASSUME NEW p \in Nat, NEW q \in Nat, NEW b \in Nat
    PROVE  /\ p * b \in Nat /\ (p + 1) * b = p * b + b /\ (p - 1) * b = p * b - b
           /\ p < q => p * b + b <= q * b
<1>1. p * b \in Nat /\ (p + 1) * b = p * b + b /\ (p - 1) * b = p * b - b
  OBVIOUS
<1>2. ASSUME p < q PROVE p * b + b <= q * b
  <2> PICK k \in Nat : q = p + 1 + k
    <3>1. q - p - 1 \in Nat /\ q = p + 1 + (q - p - 1)
      BY <1>2
    <3> QED BY <3>1
  <2>1. q * b = p * b + b + k * b
    OBVIOUS
  <2>2. k * b \in Nat /\ p * b \in Nat
    OBVIOUS
  <2> QED BY <2>1, <2>2
<1> QED BY <1>1, <1>2

(* The lesser of two numbers *)
LEMMA MinOfTwo ==
    ASSUME NEW m \in Nat, NEW k \in Nat
    PROVE  Min({m, k}) = IF m <= k THEN m ELSE k
<1> DEFINE P(x) == x \in {m, k} /\ \A y \in {m, k} : x <= y
<1>1. P(IF m <= k THEN m ELSE k)
  OBVIOUS
<1>2. \A x : P(x) => x = IF m <= k THEN m ELSE k
  OBVIOUS
<1>3. Min({m, k}) = CHOOSE x \in {m, k} : \A y \in {m, k} : x <= y
  BY DEF Min
<1> QED BY <1>1, <1>2, <1>3

(* The total and the page that OFFSET and LIMIT cut tell what PagesTell says. *)
LEMMA PagesRight ==
    ASSUME IsFiniteSet(servers), NEW page \in Nat, NEW size \in Nat,
           Offset(page, size) >= 0, NEW found \in OnPage(page, size),
           NEW pages,
           pages = IF found = {} THEN 0 ELSE Pages(Cardinality(servers), size)
    PROVE  /\ page = 1 /\ pages <= 1 /\ size > 0 => found = servers
           /\ page < pages => Cardinality(found) = size
           /\ pages = 0 <=> size = 0 \/ Cardinality(servers) <= (page - 1) * size
<1> PICK n \in Nat : n = Cardinality(servers)
  BY FS_CardinalityType
<1> PICK before \in Nat : before = (page - 1) * size
  BY Times DEF Offset
<1>1. /\ found \subseteq servers /\ IsFiniteSet(found)
      /\ Cardinality(found) = IF n <= before THEN 0
                              ELSE IF n - before <= size THEN n - before ELSE size
  <2>1. n > before => n - before \in Nat
    OBVIOUS
  <2>2. n > before =>
          Min({n - before, size}) = IF n - before <= size THEN n - before ELSE size
    BY <2>1, MinOfTwo
  <2> QED BY <2>2, FS_Subset DEF OnPage, kSubset, Offset
<1>2. found = {} <=> Cardinality(found) = 0
  BY <1>1, FS_EmptySet
<1>3. found = {} <=> n <= before \/ size = 0
  BY <1>1, <1>2
<1>4. CASE found = {}
  <2>1. pages = 0
    BY <1>4
  <2>2. page = 1 /\ size > 0 => servers = {}
    <3>1. page = 1 => before = 0
      OBVIOUS
    <3>2. n = 0 => servers = {}
      BY FS_EmptySet
    <3> QED BY <1>3, <1>4, <3>1, <3>2
  <2> QED BY <1>3, <1>4, <2>1, <2>2
<1>5. CASE found # {}
  <2>1. size \in Nat \ {0} /\ n > before /\ n + size - 1 \in Nat
    BY <1>3, <1>5
  <2>2. pages = (n + size - 1) \div size
    BY <1>5 DEF Pages
  <2>3. /\ pages \in Nat /\ pages * size <= n + size - 1
        /\ n + size - 1 < pages * size + size
    BY <2>1, <2>2, Division
  <2>4. before = page * size - size /\ page * size \in Nat /\ pages * size \in Nat
    BY <2>3, Times
  <2>5. pages # 0
    <3>1. pages = 0 => pages * size = 0
      BY <2>1
    <3> QED BY <2>1, <2>3, <3>1
  <2>6. ASSUME page < pages PROVE Cardinality(found) = size
    <3>1. page * size + size <= pages * size
      BY <2>3, <2>6, Times
    <3>2. n - before >= size
      BY <2>3, <2>4, <3>1
    <3> QED BY <1>1, <2>1, <3>2
  <2>7. ASSUME page = 1, pages <= 1 PROVE found = servers
    <3>1. pages = 1 /\ pages * size = size /\ before = 0
      BY <2>3, <2>5, <2>7
    <3>2. n <= size
      BY <2>1, <2>3, <3>1
    <3>3. Cardinality(found) = Cardinality(servers)
      BY <1>1, <2>1, <3>1, <3>2
    <3> QED BY <1>1, <3>3, FS_Subset
  <2> QED BY <2>1, <2>5, <2>6, <2>7
<1> QED BY <1>4, <1>5

(* What a listing told is kept until its user has taken it. *)
LEMMA PagesKept ==
    ASSUME IInv, IsFiniteSet(servers), PagesTell, [Next]_vars
    PROVE  PagesTell'
<1> DEFINE Tells(r) ==
      /\ r.page = 1 /\ r.pages <= 1 /\ r.size > 0 => r.listed = r.all
      /\ r.page < r.pages => Cardinality(r.listed) = r.size
      /\ r.pages = 0 <=> r.size = 0 \/ Cardinality(r.all) <= (r.page - 1) * r.size
<1> SUFFICES ASSUME NEW u \in Users, request'[u].at = "listed"
             PROVE  Tells(request'[u])
  BY DEF PagesTell
<1>1. request \in [Users -> Request] /\ request[u] \in Request
  BY DEF IInv, TypeOK
<1>2. request[u].at = "listed" => Tells(request[u])
  BY DEF PagesTell
<1>3. ASSUME NEW page \in AskedPages, NEW size \in AskedSizes,
             ListServers(u, PageAsked(page), SizeAsked(size))
      PROVE  Tells(request'[u])
  <2> PICK p \in Nat, z \in Nat : p = PageAsked(page) /\ z = SizeAsked(size)
    BY PageType
  <2> PICK found \in OnPage(p, z) :
        request' = [request EXCEPT ![u] =
            [Nothing EXCEPT !.at = "listed", !.listed = found,
                !.page = p, !.size = z, !.all = servers,
                !.pages = IF found = {} THEN 0 ELSE Pages(Cardinality(servers), z)]]
    BY <1>3 DEF ListServers
  <2> PICK pages : pages = IF found = {} THEN 0 ELSE Pages(Cardinality(servers), z)
    OBVIOUS
  <2>1. /\ request'[u].listed = found /\ request'[u].page = p /\ request'[u].size = z
        /\ request'[u].all = servers /\ request'[u].pages = pages
    BY <1>1 DEF Nothing
  <2>2. Offset(p, z) >= 0
    BY <1>3 DEF ListServers
  <2> QED BY <2>1, <2>2, PagesRight
<1>4. ASSUME request'[u] = request[u] PROVE Tells(request'[u])
  BY <1>2, <1>4
<1>5. ASSUME NEW c \in Channels, NEW d \in Clients, Join(d, c) \/ Leave(d, c)
      PROVE  Tells(request'[u])
  <2>1. /\ request'[u].at = request[u].at /\ request'[u].listed = request[u].listed
        /\ request'[u].page = request[u].page /\ request'[u].size = request[u].size
        /\ request'[u].all = request[u].all /\ request'[u].pages = request[u].pages
    BY <1>1, <1>5 DEF Join, Leave, Request
  <2> QED BY <1>2, <2>1
<1>6. ASSUME NEW v \in Users, v # u,
             \/ \E page \in AskedPages, size \in AskedSizes :
                  ListServers(v, PageAsked(page), SizeAsked(size))
             \/ \E s \in Servers : GetServer(v, s)
             \/ \E c \in Channels : GetChannel(v, c) \/ NextChannel(v, c)
             \/ ReadChannels(v) \/ ListMembers(v) \/ Answer(v)
             \/ TakeAnswer(v) \/ RequestFails(v)
      PROVE  request'[u] = request[u]
  <2>1. ASSUME NEW r, request' = [request EXCEPT ![v] = r] PROVE request'[u] = request[u]
    BY <1>1, <1>6, <2>1
  <2>2. ASSUME NEW page \in AskedPages, NEW size \in AskedSizes,
               ListServers(v, PageAsked(page), SizeAsked(size))
        PROVE  \E r : request' = [request EXCEPT ![v] = r]
    BY <2>2 DEF ListServers
  <2>3. ASSUME NEW at, NEW s, NEW todo, NEW due, Asked(v, at, s, todo, due)
        PROVE  \E r : request' = [request EXCEPT ![v] = r]
    BY <2>3 DEF Asked
  <2>4. ASSUME NEW c, NEW who, Read(v, c, who)
        PROVE  \E r : request' = [request EXCEPT ![v] = r]
    BY <2>4 DEF Read
  <2>5. ASSUME NEW c \in Channels, NextChannel(v, c), entry[c] # None
        PROVE  request'[u] = request[u]
    BY <1>1, <1>6, <2>5 DEF NextChannel
  <2>6. ASSUME ReadChannels(v) \/ Answer(v) \/ TakeAnswer(v) \/ RequestFails(v)
        PROVE  request'[u] = request[u]
    BY <1>1, <1>6, <2>6 DEF ReadChannels, Answer, TakeAnswer, RequestFails
  <2>7. ASSUME NEW s \in Servers, GetServer(v, s) PROVE request'[u] = request[u]
    BY <2>1, <2>3, <2>7 DEF GetServer, NotFound
  <2>8. ASSUME NEW c \in Channels, GetChannel(v, c) PROVE request'[u] = request[u]
    BY <2>1, <2>3, <2>8 DEF GetChannel, NotFound
  <2>9. ASSUME NEW c \in Channels, NextChannel(v, c) PROVE request'[u] = request[u]
    BY <2>1, <2>4, <2>5, <2>9 DEF NextChannel
  <2>10. ASSUME ListMembers(v) PROVE request'[u] = request[u]
    BY <2>1, <2>4, <2>10 DEF ListMembers
  <2> QED BY <1>6, <2>1, <2>2, <2>6, <2>7, <2>8, <2>9, <2>10
<1>7. ASSUME \/ \E s \in Servers : GetServer(u, s)
             \/ \E c \in Channels : GetChannel(u, c) \/ NextChannel(u, c)
             \/ ReadChannels(u) \/ ListMembers(u) \/ Answer(u)
             \/ TakeAnswer(u) \/ RequestFails(u)
      PROVE  request'[u].at # "listed"
  <2>1. ASSUME NEW at, NEW s, NEW todo, NEW due, Asked(u, at, s, todo, due)
        PROVE  request'[u].at = at
    <3> DEFINE r == [Nothing EXCEPT !.at = at, !.server = s, !.todo = todo, !.due = due,
                                    !.stayed = Here, !.seen = Here]
    <3>1. request' = [request EXCEPT ![u] = r]
      BY <2>1 DEF Asked
    <3>2. r.at = at
      BY DEF Nothing
    <3> HIDE DEF r
    <3> QED BY <1>1, <3>1, <3>2
  <2>2. ASSUME NEW c, NEW who, Read(u, c, who) PROVE request'[u].at = "next"
    <3> PICK r : request' = [request EXCEPT ![u] = r] /\ r.at = "next"
      BY <1>1, <2>2 DEF Read, Request
    <3> QED BY <1>1
  <2>3. ASSUME NEW c \in Channels, NextChannel(u, c) PROVE request'[u].at \in {"next", "list"}
    <3>1. CASE entry[c] # None
      BY <1>1, <2>3, <3>1 DEF NextChannel, Request
    <3>2. CASE entry[c] = None
      BY <2>2, <2>3, <3>2 DEF NextChannel
    <3> QED BY <3>1, <3>2
  <2>4. ASSUME ReadChannels(u) \/ Answer(u) \/ TakeAnswer(u) \/ RequestFails(u)
        PROVE  request'[u].at # "listed"
    BY <1>1, <2>4 DEF ReadChannels, Answer, TakeAnswer, RequestFails, Nothing, Request
  <2>5. ASSUME NEW s \in Servers, GetServer(u, s) PROVE request'[u].at # "listed"
    BY <2>1, <2>5 DEF GetServer, NotFound
  <2>6. ASSUME NEW c \in Channels, GetChannel(u, c) PROVE request'[u].at # "listed"
    BY <2>1, <2>6 DEF GetChannel, NotFound
  <2>7. ASSUME ListMembers(u) PROVE request'[u].at # "listed"
    BY <2>2, <2>7 DEF ListMembers
  <2> QED BY <1>7, <2>3, <2>4, <2>5, <2>6, <2>7
<1>8. ASSUME \/ \E s \in Servers : CreateServer(s)
             \/ \E s \in Servers, c \in Channels : CreateChannel(s, c)
             \/ \E c \in Channels : MapChannel(c) \/ CloseChannel(c)
             \/ UNCHANGED vars
      PROVE  request'[u] = request[u]
  BY <1>8 DEF CreateServer, CreateChannel, MapChannel, CloseChannel, vars
<1> HIDE DEF Tells
<1>9. ASSUME NEW v \in Users,
             \/ \E page \in AskedPages, size \in AskedSizes :
                  ListServers(v, PageAsked(page), SizeAsked(size))
             \/ \E s \in Servers : GetServer(v, s)
             \/ \E c \in Channels : GetChannel(v, c) \/ NextChannel(v, c)
             \/ ReadChannels(v) \/ ListMembers(v) \/ Answer(v)
             \/ TakeAnswer(v) \/ RequestFails(v)
      PROVE  Tells(request'[u])
  <2>1. CASE v = u
    BY <1>3, <1>7, <1>9, <2>1
  <2>2. CASE v # u
    BY <1>4, <1>6, <1>9, <2>2
  <2> QED BY <2>1, <2>2
<1> QED BY <1>4, <1>5, <1>8, <1>9 DEF Next

-----------------------------------------------------------------------------
(* The invariant *)

(* At first there are no servers and no requests. *)
LEMMA InitOK == Init => IInv /\ IsFiniteSet(servers)
<1> SUFFICES ASSUME Init PROVE IInv /\ IsFiniteSet(servers)
  OBVIOUS
<1>1. TypeOK
  BY NothingType DEF Init, TypeOK
<1>2. StatesApart /\ ClosingEmpty
  BY DEF Init, StatesApart, ClosingEmpty
<1>3. \A u \in Users : request[u].at = "idle" /\ request[u].done = {}
  BY DEF Init, Nothing
<1>4. Followed /\ StateHeld /\ RowsBounded /\ DueKept
  BY <1>3 DEF Followed, Open, StateHeld, RowsBounded, DueKept
<1>5. IsFiniteSet(servers)
  BY FS_EmptySet DEF Init
<1> QED BY <1>1, <1>2, <1>4, <1>5 DEF IInv

(* However many servers there may be, finitely many have been created. *)
LEMMA ServersFinite ==
    IsFiniteSet(servers) /\ [Next]_vars => IsFiniteSet(servers)'
<1> SUFFICES ASSUME IsFiniteSet(servers), [Next]_vars
             PROVE  IsFiniteSet(servers')
  OBVIOUS
<1>1. ASSUME NEW s \in Servers, CreateServer(s) PROVE IsFiniteSet(servers')
  BY <1>1, FS_AddElement DEF CreateServer
<1>2. ASSUME UNCHANGED servers PROVE IsFiniteSet(servers')
  BY <1>2
<1> QED
  BY <1>1, <1>2 DEF Next, vars, CreateChannel, MapChannel, CloseChannel, Join, Leave,
     ListServers, GetServer, GetChannel, NextChannel, ReadChannels, ListMembers,
     Answer, TakeAnswer, RequestFails

(* No step of a user, a client or the tables breaks the invariant. *)
LEMMA StepKeeps == IInv /\ IsFiniteSet(servers) /\ [Next]_vars => IInv'
<1> SUFFICES ASSUME IInv, IsFiniteSet(servers), [Next]_vars PROVE IInv'
  OBVIOUS
<1>1. ASSUME NEW s \in Servers, CreateServer(s) PROVE IInv'
  BY <1>1, CreateServerKeeps
<1>2. ASSUME NEW s \in Servers, NEW c \in Channels, CreateChannel(s, c) PROVE IInv'
  BY <1>2, CreateChannelKeeps
<1>3. ASSUME NEW c \in Channels, MapChannel(c) \/ CloseChannel(c) PROVE IInv'
  BY <1>3, MapChannelKeeps, CloseChannelKeeps
<1>4. ASSUME NEW c \in Channels, NEW d \in Clients, Join(d, c) \/ Leave(d, c)
      PROVE  IInv'
  BY <1>4, JoinKeeps, LeaveKeeps
<1>5. ASSUME NEW u \in Users, NEW page \in AskedPages, NEW size \in AskedSizes,
             ListServers(u, PageAsked(page), SizeAsked(size))
      PROVE  IInv'
  <2>1. PageAsked(page) \in Nat /\ SizeAsked(size) \in Nat
    BY PageType
  <2> QED BY <1>5, <2>1, ListServersKeeps
<1>6. ASSUME NEW u \in Users,
             \/ \E s \in Servers : GetServer(u, s)
             \/ \E c \in Channels : GetChannel(u, c) \/ NextChannel(u, c)
             \/ ReadChannels(u) \/ ListMembers(u) \/ Answer(u)
           \/ TakeAnswer(u) \/ RequestFails(u)
      PROVE  IInv'
  BY <1>6, UserStepKeeps
<1>7. CASE UNCHANGED vars
  BY <1>7 DEF vars, IInv, TypeOK, StatesApart, ClosingEmpty, Followed, Open, Members,
     StateHeld, RowsBounded, DueKept, ChannelsOf
<1> QED BY <1>1, <1>2, <1>3, <1>4, <1>5, <1>6, <1>7 DEF Next

(* The inductive invariant of the directory and the listings holds (rest_api.rs,
   channels/mod.rs, the foreign key of the channels table).                     *)
THEOREM DirectoryIInv == Spec => []IInv
<1>1. Spec => [](IInv /\ IsFiniteSet(servers))
  BY InitOK, ServersFinite, StepKeeps, PTL DEF Spec
<1> QED BY <1>1, PTL

(* get_server and get_channel of the REST API: an answer lists every channel
   that was there when it was asked for, and of each all who stayed and none who
   was never there, whatever joins, leaves, closings and creations fall between
   its reads.                                                                   *)
THEOREM AnswersExact == Spec => []AnswerExact
<1>1. IInv => AnswerExact
  BY DEF IInv, RowsBounded, DueKept, AnswerExact
<1> QED BY <1>1, DirectoryIInv, PTL

(* list_servers of the REST API: what the page, its size and the number of pages tell
   of the servers there are is true, whichever page was asked for and however many
   servers have been created meanwhile.                                          *)
THEOREM PagesAreTold == Spec => []PagesTell
<1>1. Init => PagesTell
  BY DEF Init, Nothing, PagesTell
<1>2. Spec => [](IInv /\ IsFiniteSet(servers))
  BY InitOK, ServersFinite, StepKeeps, PTL DEF Spec
<1> QED BY <1>1, <1>2, PagesKept, PTL DEF Spec
=============================================================================
