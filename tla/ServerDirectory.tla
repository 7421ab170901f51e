--------------------------- MODULE ServerDirectory ---------------------------
(***************************************************************************)
(* The directory of servers and their channels: its tables (db_models and  *)
(* db.rs of server/channels/core), the service in front of them            *)
(* (server/channels/grpc/src/service.rs, or the same calls in process,     *)
(* server/gateway/src/channel_registry), and the gateway's REST API, which *)
(* adds to each channel who is present in it                               *)
(* (server/gateway/src/rest_api.rs).                                       *)
(*                                                                         *)
(* A listing of a server is no snapshot: the server's row, its channels    *)
(* and the members of one channel after the other are read while channels  *)
(* are created, and clients join, leave and, with the last of them, close  *)
(* a channel of the gateway.  Their sessions are those of Presence, of     *)
(* clients that join again only once they have left; here joining is a     *)
(* step, and leaving two.  One gateway is modelled.                        *)
(***************************************************************************)
EXTENDS Integers, FiniteSets, FiniteSetsExt

CONSTANTS
    Servers,        \* server ids
    Channels,       \* channel ids
    States,         \* channel states of the gateway, used again once unreachable
    Clients,        \* clients in the channels
    Users,          \* callers of the REST API
    DefaultSize,    \* servers on a page when none is asked for (10)
    MaxSize,        \* servers on a page at most (100)
    AskedPages,     \* pages asked for, or None, which is the first
    AskedSizes,     \* sizes of a page asked for, or None
    None

ASSUME SizesNat == DefaultSize \in Nat /\ MaxSize \in Nat
ASSUME AskedNat == AskedPages \cup AskedSizes \subseteq Nat \cup {None}
ASSUME NoneIsNothing == None \notin Servers \cup Channels \cup States \cup Nat

VARIABLES
    servers,    \* rows of servers
    home,       \* channel -> the server of its row, or None
    entry,      \* channel -> the state the gateway's map leads to, or None
    present,    \* the members of each state
    closing,    \* states left empty: closed, but not yet out of the map
    request     \* what each user has asked for

vars == <<servers, home, entry, present, closing, request>>

-----------------------------------------------------------------------------
(* Values *)

(* todo: channels whose members are still to be read; chan and state: the
   channel being read; done and rows: what has been read of whom; page, size,
   pages and listed: a listing of servers.  The rest is history: all the servers
   there were, the channels the request had to find, who has been in a channel
   ever since the request came, and who has been in it at some time since.    *)
Request == [at : {"idle", "listed", "row", "next", "list", "answered", "absent"},
            server : Servers \cup {None},
            todo : SUBSET Channels,
            chan : Channels \cup {None},
            state : States \cup {None},
            done : SUBSET Channels,
            rows : [Channels -> SUBSET Clients],
            page : Nat, size : Nat, pages : Nat, listed : SUBSET Servers,
            all : SUBSET Servers, due : SUBSET Channels,
            stayed : [Channels -> SUBSET Clients],
            seen : [Channels -> SUBSET Clients]]

Nobody == [c \in Channels |-> {}]

Nothing == [at |-> "idle", server |-> None, todo |-> {}, chan |-> None,
            state |-> None, done |-> {}, rows |-> Nobody,
            page |-> 0, size |-> 0, pages |-> 0, listed |-> {}, all |-> {}, due |-> {},
            stayed |-> Nobody, seen |-> Nobody]

Exists(c) == home[c] # None
Members(c) == IF entry[c] = None THEN {} ELSE present[entry[c]]
Here == [c \in Channels |-> Members(c)]

Open(u) == request[u].at \in {"row", "next", "list"}

Unreachable(s) ==
    /\ \A c \in Channels : entry[c] # s
    /\ \A u \in Users : request[u].state # s

Init ==
    /\ servers = {}
    /\ home = [c \in Channels |-> None]
    /\ entry = [c \in Channels |-> None]
    /\ present = [s \in States |-> {}]
    /\ closing = {}
    /\ request = [u \in Users |-> Nothing]

-----------------------------------------------------------------------------
(* Creating.  Operators named Bug... are no part of the specification: each is
   a faulty form of the definition that follows it, which some property must
   reject.                                                                   *)

CreateServer(s) ==
    /\ s \notin servers
    /\ servers' = servers \cup {s}
    /\ UNCHANGED <<home, entry, present, closing, request>>

BugUnchecked(s) == TRUE

(* The foreign key of channels.server_id *)
Refers(s) == s \in servers

(* For an unknown server the insertion fails: the caller gets an internal
   error, not NotFound, and nothing has changed.                            *)
CreateChannel(s, c) ==
    /\ Refers(s)
    /\ ~Exists(c)
    /\ home' = [home EXCEPT ![c] = s]
    /\ UNCHANGED <<servers, entry, present, closing, request>>

-----------------------------------------------------------------------------
(* Clients of the gateway *)

(* A session initialises the channel; it need not join it. *)
MapChannel(c) ==
    /\ Exists(c) /\ entry[c] = None
    /\ \E s \in States :
        /\ Unreachable(s)
        /\ entry' = [entry EXCEPT ![c] = s]
        /\ present' = [present EXCEPT ![s] = {}]
    /\ UNCHANGED <<servers, home, closing, request>>

(* LocallyPresent::join, which a closed state refuses *)
Join(d, c) ==
    /\ entry[c] # None /\ entry[c] \notin closing
    /\ d \notin Members(c)
    /\ present' = [present EXCEPT ![entry[c]] = @ \cup {d}]
    /\ request' = [u \in Users |-> [request[u] EXCEPT !.seen[c] = @ \cup {d}]]
    /\ UNCHANGED <<servers, home, entry, closing>>

BugClosedEarly(left) == TRUE

Closes(left) == left = {}

(* LocallyPresent::leave; with the last client the state is closed. *)
Leave(d, c) ==
    LET left == Members(c) \ {d}
    IN  /\ d \in Members(c)
        /\ present' = [present EXCEPT ![entry[c]] = left]
        /\ closing' = IF Closes(left) THEN closing \cup {entry[c]} ELSE closing
        /\ request' = [u \in Users |-> [request[u] EXCEPT !.stayed[c] = @ \ {d}]]
        /\ UNCHANGED <<servers, home, entry>>

(* ChannelMap::close, with the state still locked; then it is unlocked. *)
CloseChannel(c) ==
    /\ entry[c] \in closing
    /\ entry' = [entry EXCEPT ![c] = None]
    /\ closing' = closing \ {entry[c]}
    /\ UNCHANGED <<servers, home, present, request>>

-----------------------------------------------------------------------------
(* Listing servers *)

(* The service's defaults and its limit; the REST API asks for None. *)
PageAsked(page) == IF page = None THEN 1 ELSE page
SizeAsked(size) == Min({IF size = None THEN DefaultSize ELSE size, MaxSize})

BugRoundedDown(n, size) == n \div size

(* ceil(total / per_page) *)
Pages(n, size) == (n + size - 1) \div size

Offset(page, size) == (page - 1) * size

(* LIMIT per_page OFFSET offset, in whatever order *)
OnPage(page, size) ==
    LET before == Offset(page, size)
        n == Cardinality(servers)
    IN  kSubset(IF n <= before THEN 0 ELSE Min({n - before, size}), servers)

(* The total comes with each row: without rows, it is 0, and so are the pages
   (0 divided by a size of 0 is no number, and cast to 0).  The database refuses
   a negative offset.                                                        *)
ListServers(u, page, size) ==
    /\ request[u].at = "idle"
    /\ Offset(page, size) >= 0
    /\ \E found \in OnPage(page, size) :
        request' = [request EXCEPT ![u] =
            [Nothing EXCEPT !.at = "listed", !.listed = found,
                !.page = page, !.size = size, !.all = servers,
                !.pages = IF found = {} THEN 0 ELSE Pages(Cardinality(servers), size)]]
    /\ UNCHANGED <<servers, home, entry, present, closing>>

-----------------------------------------------------------------------------
(* Getting a server or a channel *)

Asked(u, at, s, todo, due) ==
    request' = [request EXCEPT ![u] =
        [Nothing EXCEPT !.at = at, !.server = s, !.todo = todo, !.due = due,
                        !.stayed = Here, !.seen = Here]]

ChannelsOf(s) == {c \in Channels : home[c] = s}

(* The client chooses from the listing; others may know of a server. *)
MayChoose(u, s) == request[u].at = "listed" => s \in request[u].listed

(* NotFound, which the gateway passes on *)
NotFound(u) == Asked(u, "absent", None, {}, {})

GetServer(u, s) ==
    /\ request[u].at \in {"idle", "listed"}
    /\ MayChoose(u, s)
    /\ \/ s \in servers /\ Asked(u, "row", s, {}, ChannelsOf(s))
       \/ s \notin servers /\ NotFound(u)
    /\ UNCHANGED <<servers, home, entry, present, closing>>

ReadChannels(u) ==
    /\ request[u].at = "row"
    /\ request' = [request EXCEPT ![u].at = "next",
                                  ![u].todo = ChannelsOf(request[u].server)]
    /\ UNCHANGED <<servers, home, entry, present, closing>>

GetChannel(u, c) ==
    /\ request[u].at = "idle"
    /\ \/ Exists(c) /\ Asked(u, "next", home[c], {c}, {c})
       \/ ~Exists(c) /\ NotFound(u)
    /\ UNCHANGED <<servers, home, entry, present, closing>>

Read(u, c, who) ==
    LET r == request[u]
    IN  request' = [request EXCEPT ![u] =
            [r EXCEPT !.at = "next", !.todo = @ \ {c}, !.chan = None, !.state = None,
                      !.done = @ \cup {c}, !.rows[c] = who]]

(* Channels::get: nobody is in a channel that the map does not lead to. *)
NextChannel(u, c) ==
    /\ request[u].at = "next" /\ c \in request[u].todo
    /\ \/ /\ entry[c] = None
          /\ Read(u, c, {})
       \/ /\ entry[c] # None
          /\ request' = [request EXCEPT ![u].at = "list", ![u].chan = c,
                                        ![u].state = entry[c]]
    /\ UNCHANGED <<servers, home, entry, present, closing>>

(* list_members waits while whoever left last closes the state; another may
   have been opened since Channels::get.                                     *)
ListMembers(u) ==
    /\ request[u].at = "list"
    /\ request[u].state \notin closing
    /\ Read(u, request[u].chan, present[request[u].state])
    /\ UNCHANGED <<servers, home, entry, present, closing>>

Answer(u) ==
    /\ request[u].at = "next" /\ request[u].todo = {}
    /\ request' = [request EXCEPT ![u].at = "answered"]
    /\ UNCHANGED <<servers, home, entry, present, closing>>

(* The user has its answer; the command line client ends on any error. *)
TakeAnswer(u) ==
    /\ request[u].at \in {"listed", "answered", "absent"}
    /\ request' = [request EXCEPT ![u] = Nothing]
    /\ UNCHANGED <<servers, home, entry, present, closing>>

(* The request failed on its way, in the database or at the state. *)
RequestFails(u) ==
    /\ Open(u)
    /\ request' = [request EXCEPT ![u] = Nothing]
    /\ UNCHANGED <<servers, home, entry, present, closing>>

-----------------------------------------------------------------------------
Next ==
    \/ \E s \in Servers : CreateServer(s)
    \/ \E s \in Servers, c \in Channels : CreateChannel(s, c)
    \/ \E c \in Channels :
        \/ MapChannel(c) \/ CloseChannel(c)
        \/ \E d \in Clients : Join(d, c) \/ Leave(d, c)
    \/ \E u \in Users :
        \/ \E page \in AskedPages, size \in AskedSizes :
              ListServers(u, PageAsked(page), SizeAsked(size))
        \/ \E s \in Servers : GetServer(u, s)
        \/ \E c \in Channels : GetChannel(u, c) \/ NextChannel(u, c)
        \/ ReadChannels(u) \/ ListMembers(u) \/ Answer(u)
        \/ TakeAnswer(u) \/ RequestFails(u)

Spec == Init /\ [][Next]_vars

-----------------------------------------------------------------------------
(* Properties *)

(* Every variable keeps its type, and every channel has a server that exists. *)
TypeOK ==
    /\ servers \subseteq Servers
    /\ home \in [Channels -> servers \cup {None}]
    /\ entry \in [Channels -> States \cup {None}]
    /\ present \in [States -> SUBSET Clients]
    /\ closing \subseteq States
    /\ request \in [Users -> Request]

(* A first page that tells of no more pages has every server, a page with more
   to come is full, and only a listing past the end, or of pages without room
   for a server, tells of no pages.                                           *)
PagesTell ==
    \A u \in Users : request[u].at = "listed" =>
        LET r == request[u]
        IN  /\ r.page = 1 /\ r.pages <= 1 /\ r.size > 0 => r.listed = r.all
            /\ r.page < r.pages => Cardinality(r.listed) = r.size
            /\ r.pages = 0 <=>
                  r.size = 0 \/ Cardinality(r.all) <= (r.page - 1) * r.size

(* Though an answer is put together from many reads, it has every channel the
   server had when it was asked for and none of another server, and of each
   channel it lists all who stayed in it the whole time and only such as were
   in it at some time meanwhile, whoever opens or closes the channel.         *)
AnswerExact ==
    \A u \in Users : request[u].at = "answered" =>
        LET r == request[u]
        IN  /\ r.due \subseteq r.done
            /\ \A c \in r.done :
                  /\ home[c] = r.server
                  /\ r.stayed[c] \subseteq r.rows[c]
                  /\ r.rows[c] \subseteq r.seen[c]

(***************************************************************************)
(* The inductive invariant behind AnswerExact: no two channels share a     *)
(* state, and one that is closed, or that the map no longer leads to, is   *)
(* empty; who stayed has been a member all along, and every member has     *)
(* been seen; the state a request holds is its channel's or one that was   *)
(* closed meanwhile, when nobody can have stayed; what has been read keeps *)
(* to those bounds; and no channel that is due is lost on the way.         *)
(***************************************************************************)
StatesApart ==
    \A c, d \in Channels : entry[c] # None /\ entry[c] = entry[d] => c = d
ClosingEmpty == \A s \in closing :
    present[s] = {} /\ \E c \in Channels : entry[c] = s
Followed == \A u \in Users : Open(u) =>
    \A c \in Channels :
        request[u].stayed[c] \subseteq Members(c) /\ Members(c) \subseteq request[u].seen[c]
StateHeld == \A u \in Users : request[u].at = "list" =>
    LET r == request[u]
    IN  /\ r.chan \in r.todo /\ r.state \in States
        /\ \/ entry[r.chan] = r.state
           \/ /\ present[r.state] = {} /\ r.stayed[r.chan] = {}
              /\ \A c \in Channels : entry[c] # r.state
RowsBounded == \A u \in Users : \A c \in request[u].done :
    /\ home[c] = request[u].server /\ home[c] \in servers
    /\ request[u].stayed[c] \subseteq request[u].rows[c]
    /\ request[u].rows[c] \subseteq request[u].seen[c]
DueKept == \A u \in Users :
    LET r == request[u]
    IN  /\ Open(u) => r.server \in servers
        /\ r.at = "row" => r.due \subseteq ChannelsOf(r.server)
        /\ r.at \in {"next", "list"} =>
              r.due \subseteq r.done \cup r.todo /\ r.todo \subseteq ChannelsOf(r.server)
        /\ r.at = "answered" => r.due \subseteq r.done

IInv ==
    /\ TypeOK
    /\ StatesApart
    /\ ClosingEmpty
    /\ Followed
    /\ StateHeld
    /\ RowsBounded
    /\ DueKept
=============================================================================
