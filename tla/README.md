# A TLA+ model of Voices

Voices is a voice chat: clients talk to a *gateway* over a web socket and to a
*voice server* over UDP; a *channels service* with a Postgres database decides
which voice server hosts which channel, and Redis carries presence between
gateways. This directory holds TLA+ modules of the parts that keep state, TLC
configurations that check them on small instances, and TLAPS proofs about the
parts where most can go wrong: the voice channel, the voice server's table, the
presence of a gateway's clients and of several gateways', a client's session, the
registry of voice servers, the command line client with the way of a voice from
microphone to loudspeaker, and the directory's answers. Source paths below are relative to `src/`; `PROJECT.json` maps each definition to its lines.

    tlc -workers 2 -config MCVoiceChannel.cfg MCVoiceChannel     # check a run
    tlapm VoiceChannelProofs.tla                                 # check the proofs,
    tlapm VoiceServerProofs.tla                                  # module by module
    tlapm PresenceProofs.tla
    tlapm SharedPresenceProofs.tla
    tlapm ChannelRegistryProofs.tla
    tlapm GatewaySessionProofs.tla
    tlapm ClientProofs.tla
    tlapm ServerDirectoryProofs.tla

## Inventory

| Component | Source | State | Operations |
|---|---|---|---|
| Voice channel | `server/voice/core/src/channel/{mod,connection}.rs` | `connections` (source id to queue, address, task), `client_id_to_src_id`, the set of running tasks; per task: waiting or peered, address, ping deadline, packet queue | open, establish, leave, status, peers; a packet arrives; a task is reaped; idle timeout; the last handle goes |
| Voice server | `server/voice/core/src/{lib,ports}.rs`, `voice/grpc/src/service.rs` | table of channels, one flag per UDP port, queue of end notifications | `assign_channel`, `get_channel`, requests to a channel; cleanup task |
| Gateway channels, local presence | `server/gateway/src/server/channels/mod.rs`, `channels/state/local.rs` | map of channels; per channel a list of present clients, a `live` flag, a broadcast | `get_or_init`, `reassign_voice`, `join`, `list_members`, drop of a handle, `leave`, `close` |
| Gateway session, web socket task | `server/gateway/src/server/{session,ws}.rs` | a queue each way between the two tasks; the joined channel's handles; keep-alive deadline | handshake, join, leave, disconnect, channel events, periodic status check |
| Shared presence | `server/gateway/src/server/channels/state/distributed.rs` | a Redis hash per channel, publish/subscribe, per-client refresh tasks | join, leave, refresh, clean up |
| Channels service | `server/channels/core/src` and its migrations | tables `voice_servers` (`last_seen`) and `channels` (`assigned_to`) | register, clean up stale servers, get, assign, unassign |
| Host resolution | `server/gateway/src/channel_registry/distributed.rs`, `voice_instance/remote.rs` | the attempt under way | `get_voice_host_for`, with a second attempt that reassigns |
| Server registration | `server/voice/grpc/src/{server.rs,registry/mod.rs}` | none beyond the running process | heartbeat, unassign at the end of a channel |
| Directory, REST API | `server/channels/core/src/{db,lib}.rs`, `db_models/{server,channel}.rs`, `server/gateway/src/rest_api.rs` | tables `servers` and `channels`; per request what has been read so far | create servers and channels, list servers by pages, get a server or a channel with its members |
| Integrated host and registry | `server/gateway/src/{voice_instance,channel_registry}/integrated.rs` | none | direct calls in place of the RPCs |
| Client's main program | `client/src/{main,udp}.rs`, `server/ws-proto/src/client.rs` | the handshake's progress, two queues to and from the web socket task, one to the UDP receiver, the registered streams | handshake, address discovery with retries, channel events, stop |
| Client's voice | `client/src/{mic,udp,play}.rs` | input buffer, queue and sequence number of the sender, queue and jitter buffer of each stream | cut and encode, send, receive, put in order, play, fill gaps |
| Client's channels API | `client/src/channels_api.rs` | none | ask for servers, then for one |
| Start-up, configuration | `server/gateway/src/{lib,main}.rs`, ... | none | wiring |
| Protocols, cipher | `server/{ws-proto,udp-proto}`, `voice/{proto,crypto}` | none | encoding, encryption |

How they interact: a gateway session resolves the channel's voice host (RPC to
the channels service, RPC to the voice server), opens a connection there, joins
the channel state, sends the client the session key and member list, waits for
the client's UDP address, establishes the connection, and from then on forwards
presence events. Its handles clean up when dropped: presence by a detached task
that leaves the state, the voice connection by a detached RPC. On the voice
server, requests go through a bounded queue to the channel's Forwarder task,
which spawns one task per connection and talks to it through two more queues.
When a Forwarder ends it tells the cleanup task, which removes the channel from
the table and tells the channels service to unassign it.

The command line client first asks the gateway's REST API for servers and the
channels of one, then opens the web socket. Its main program talks to the
socket's task through two queues, discovers its address at the voice server, and
passes on what it hears of other clients to the UDP receiver, which keeps one
stream per source; each stream has a task and a jitter buffer of its own. The
microphone's callback runs on the audio device's thread and hands chunks to the
UDP sender.

What is hard, and what makes each part correct:

* **Voice channel.** One sequential Forwarder, but every event may make it wait
  for a voice task, which may time out, fail or be stopped meanwhile. A client
  may open a second connection before the first is reaped, so two tables with
  different keys describe overlapping sets of connections. Correct: no `expect`
  fails; the Forwarder never blocks on a task that will not read; it ends only
  when idle, and does end; no connection is left behind; an answer goes to the
  address that was bound; each client's connection goes waiting, peered, stopped,
  gone.
* **Voice server.** Ports are freed by the last of several clones of a handle,
  wherever that is dropped; an end notification names only the channel. Correct:
  a port has one owner and none is lost; the cleanup never removes a live
  channel; no Forwarder runs outside the table; ended channels go; callers are
  answered.
* **Presence.** A session holds a clone of the channel across two RPCs, during
  which others may close or replace it; leaving runs in a detached task; locks
  are released between the insertion, the announcement and the listing. Correct:
  a closed state leaves the map; members share one state; what members are shown
  converges to who is present; joins are decided.
* **Shared presence.** The same over several gateways: members are stored in one
  request to Redis, announced in another, and deleted after their leave is
  announced; each may fail. The gateway hears events, its own too, by another
  connection that takes its time to subscribe and may give up. Correct: the hash
  lists who has joined and nobody else; a member's list together with the events
  neither misses nor resurrects anybody; who is in hears of the others.
* **Gateway session.** Two tasks and two bounded queues between a client and
  its session; a session waits for its client, for RPCs and for room, and at each
  of these points the client may go or the voice connection die; a dropped voice
  handle sends a late leave that names no connection. Correct: the client knows
  whether it is in a channel; no voice connection goes on unknown to its session;
  a dead one is noticed; the session of a client that is gone ends.
* **Registry.** Nothing is atomic across the three services, any RPC may fail,
  servers crash and become stale. Correct: assignments name registered servers;
  everyone in a channel is on the server that is assigned.
* **Directory.** A listing is put together from many reads, in the database and in
  the gateway, while others create, join, leave and close. Correct: it has every
  channel that was there and all who stayed in one, and nobody who never was; pages
  say what they leave out.
* **Client's main program.** Four tasks and four bounded queues, each of which may
  be waiting for another; the discovery's answers are neither numbered nor awaited
  after a timeout. Correct: the streams follow the gateway's list; the client ends
  when its user or its gateway does; no answer panics the receiver.
* **Client's voice.** A callback on another thread that must not hang; packets that
  arrive in any order, twice, late or never; a full buffer, gaps filled on a timer,
  and sequence numbers that start anywhere. Correct: no frame is lost or repeated
  before the network; each arrived packet is played or given up, once; packets held
  back in time are not overtaken; a stream ends with its source.

## Modules

| Module | What it is |
|---|---|
| `ClientSession` | abstract specification: what a channel promises about one client's connection |
| `VoiceChannel` | the Forwarder and its voice tasks; implements `ClientSession` (`SessionPromise`) |
| `VoiceChannelProofs` | theorems about `VoiceChannel` |
| `QuietChannel` | `VoiceChannel` at which nothing arrives any more from some moment on, with its fairness |
| `VoiceServer` | table, ports, callers, Forwarders' life cycle, cleanup task |
| `VoiceServerProofs` | theorems about `VoiceServer` |
| `Presence` | channel map, joining sessions, leave tasks, broadcast |
| `PresenceProofs` | theorems about `Presence` |
| `SharedPresence` | presence of one channel over several gateways: members in Redis, events, event sources |
| `SharedPresenceProofs` | theorems about `SharedPresence` |
| `ChannelRegistry` | channels service, voice servers, the sessions of several gateways and the hosts their maps keep |
| `ChannelRegistryProofs` | theorems about `ChannelRegistry` |
| `GatewaySession` | one client's session, its web socket task, its status check |
| `GatewaySessionProofs` | theorems about `GatewaySession` |
| `VoiceStream` | one client's voice: microphone, sender, network, receiver, jitter buffer |
| `VoiceClient` | the command line client: main program, web socket task, UDP receiver, audio thread |
| `ClientProofs` | theorems about `VoiceStream` and `VoiceClient`, whose names are apart for it |
| `ServerDirectory` | servers and channels, the REST API's listings, members of channels |
| `ServerDirectoryProofs` | theorems about `ServerDirectory` |
| `MC*` | model values and symmetry for TLC |

Operators whose names begin with `Bug` belong to no specification: each is a
faulty form of the definition that follows it, kept to show that the properties
tell the two apart.

### VoiceChannel

The state is the code's: `connections` (a source id's `Conn`, with its task in
place of the queue's sender), `client_id_to_src_id`, `tasks` (the
`FuturesUnordered`), and per task what the task's locals hold (`state`, `owner`,
`source_id`, `peer_addr`, `due`, `mbox`). `fwd` is where the Forwarder's `run`
stands: in its `select!`, waiting for a task's answer (`init`, `status`, `stop`,
`peers`), for room in a packet queue (`forward`), announcing its end (`notify`)
or dropped (`ended`). `armed` says that the loop iteration was entered with no
tasks, so that its `timeout` runs; it covers the handling of the event too,
hence `IdleTimeout` is enabled outside `select`.

Each control request is an action (`OpenConnection`, `Establish`, `Leave`,
`Status`, `Peers` with `PeersNext` and `PeersReturn`), the second half of a
request that waits is `Resume`. A request for an unknown client is answered
at once and changes nothing. `RecvPacket` and `Deliver` are the two halves of
`handle_udp_packet`: the source id and address check, and the `send().await`.
`Reap` is the `tasks.next()` branch. Voice tasks answer (`TaskInit`,
`TaskStatus`, `TaskStop`), read packets (`TaskPacket`), fail (`RelayFails`), lose
their senders (`Orphaned`) and time out (`InitTimeout`, `DeadlinePasses`,
`KeepAliveElapsed`); all ends go through `Finish`.

Abstractions: the audio and its fan-out between tasks are left out, except that
it may fail; keys, nonces and payloads are left out, a packet that does not
decrypt is of the kind `bad`; a request queued by a handle since dropped counts
as a handle. The replies to callers are not kept, except in a `Peers` listing.
`Allowed` says which unfriendly behaviour of callers and of chance is included:
`reopen`, `rebind`, `drop`, `collide`.

A datagram that is dropped and a request that changes nothing have no step here, but
they too start the Forwarder's loop over and with it the idle timeout. For safety that
makes no difference, as the timeout may fire at any moment it is armed; for liveness
`QuietChannel` adds the one thing that matters: `quiet`, from when on neither gateways
nor network have anything for the channel. `Arrival` is what they bring until then,
`OwnStep` what happens without them.

### VoiceServer

`channels` is the table, `taken` the flags of `Ports`, `queue` the notification
channel, `writer` the holder of the table's write lock, which `assign_channel`
keeps until it has a result; `cleaner` is the channel the cleanup task has
received and not yet removed. A caller's record says where its request stands
and which instance its clone of the `Channel` handle is of. An instance is a
Forwarder with its socket; `phase` is what remains of `VoiceChannel` here: it
serves (`live`), announces its end (`ending`), has announced it (`notified`), is
dropped (`closed`), and only an instance without voice tasks becomes idle. This
is the composition of the two modules: `live` stands for `VoiceChannel` up to its
idle timeout, `ending` for `fwd.op = "notify"`, the rest for `"ended"`.

`ProbePort` is one iteration of `Ports::get`, one atomic swap. `BindSocket`
may fail: because an earlier socket still has the port, or because someone else
has. `Release` and `RemoveChannel` drop handles, and `FreePort` is the drop of the
shared `PortRef`, by whoever is last. `Panic` is any panic of the Forwarder while
it serves (a packet without payload is one): nobody is told.

### Presence

One channel of one gateway: `entry` is what the channel map leads to, the
states are the objects clones share (`present`, `live`, `guard` for the lock). A
session's `at` follows `session.rs`: it gets a clone (`Get`), initialises a
channel if there was none (`InitChannel`), opens the voice connection, may
have to reassign (`ReassignVoice`), joins (`Join`), announces itself and
subscribes (`AnnounceJoined`), reads the list (`ListMembers`), is set up
(`Ready`), and receives events. Dropping the handle wakes a leave task: `Leave`
takes the lock, `CloseChannel` removes the map's entry if the state is empty,
`AnnounceLeft` tells the others and releases the lock. A subscriber's queue is
bounded as the broadcast is, and loses its oldest event.

Channels other than this one share nothing with it but the map's lock, which
nobody holds while waiting. What the voice host answers is a choice here and is
modelled in `ChannelRegistry`.

### SharedPresence

The distributed channel state (`state/distributed.rs`), of which several gateways
have one each for the same channel. `members` is the Redis hash; `pipe` holds the
published events that a state's event source has not read, `source` says
whether that task is `starting`, `subscribed` or `ended`. A session's join has
three steps after `Join` (the local list): `Store` (the hash), `AnnounceJoined`,
`ListMembers`; each may fail, and then the handle is dropped (`DropHandle`), whose
task leaves in three steps (`Leave`, `AnnounceLeft`, `Delete`) or stops half-way
(`LeaveFails`). `Deliver` hands an event to the broadcast, `Retire` is the end of
an event source that finds no receivers for five seconds.

What `Presence` models in detail is coarse here: a lookup is one step, and so is
the leave that closes a channel. The `last_seen` fields are left out: they are
refreshed every 5 s, but nothing reads them (`list_members` filters them out) and
nothing deletes them. Three history variables say under what conditions a view is
exact: `covered` (the source was subscribed when the members were listed),
`ghosts` (members listed whose leave had been announced already) and `stale`
(clients whose leave failed half-way).

### ChannelRegistry

The two tables are `assigned`, `known` and `fresh` (whose `last_seen` is within
the staleness duration: time itself is not modelled, a server becomes stale at
any moment). `mapped` is the voice host in each gateway's map of channels, and
`joined` the sessions in the channel's state, the last of which at a gateway takes
the channel out of the gateway's map (`LeaveState`).

A session follows `get_or_init` and `initialize_voice_connection` one RPC at a time.
`Join` looks into the gateway's map: with the channel there, the session goes to
`OpenConnection` on the host the map has, and the registry is not asked. Otherwise
it goes through `get_voice_host_for`: `AskRegistry`, `CheckHost` (the voice server's
`status`), `PickServer`, `StoreAssignment`, `AssignChannel` (on the voice server), and
`MapChannel`, which keeps an entry made meanwhile. A host that does not know the
channel is given up once, by `reassign_voice`: the same steps with `reassign`, which
store a new assignment over any other and replace the map's entry; no other gateway is
told. `GiveUp` is any failed RPC. Voice servers register, crash, lose their channels,
end idle channels, and unassign them by a detached request (`ending`) that may come
late, even after a crash, or be lost.

A session joins a channel again when the leave of its last visit has run; `Presence`
has what happens if it has not. Servers are known by id; that a server may register
again under another address, which the table then does not take over, is not modelled.

`calm` is a history variable: the channels for which none of these has happened yet,
against none of which the code has a guard:

* two sessions resolve the channel at once;
* its server, or one it is about to be moved to, becomes stale;
* an unassignment by the very server that is to host the channel is under way;
* the channel is assigned to a server while the map of another gateway has a different
  one for it, or a resolution is given up with the gateway's own map left like that.

The last is the code's `FIXME: send reassign event`
(`server/gateway/src/server/channels/mod.rs:121`), see below. An outdated map that its
own gateway replaces is not excluded, and neither is a map that leads to a server
which has restarted, or from which the channel has gone.

### GatewaySession

`ws` is the web socket task: serving (`select`), waiting for room in the queue to
the session (`forward`), or gone (`closed`); `inc` and `out` are the two queues of
`ControlStream`. `session.at` is the program point of the session task: the
handshake, `run_session`'s `select!` (`loop`), the steps of
`initialize_voice_connection` (`get`, `open`, `join`, `await`, `establish`,
`voice`), waiting for room towards the socket (`send`, with what comes
`then`), dropping a dead voice handle (`drop`), `ended`. `voice` is the
`VoiceHandle`, with the state of its status check task; `conn` is what the voice
server has of this client per channel, as `ClientSession` describes it; `leaves`
are the requests that dropped handles have sent and no voice server handled yet.

`ClientSends`, `Forward`, `SendBack`, `ClientGone` and `SocketFails` are the
branches of the web socket task; keep-alives and their answers are left out, as
they only keep an idle client's deadline from passing. A client that is `gone` has
closed its socket or fallen silent; both are noticed by the same `select!`, and
only there. `Handshake`, `HandleEvent` (each of whose arms starts with
`stop_voice`), `ChanEvent`, `VoiceDied` and `StreamEnds` are what the session
receives; `GetChannel` to `EnterChannel` is one join, and `Fails` any of its
errors, which end the session. `StatusCheck` and `StatusFails` end the status
check; `LeaveArrives` stops the newest connection of the channel, whichever
attempt it is of. Attempts are names for connections, so that properties can
tell them apart.

A reassignment with the second `open_connection` is part of `OpenConnection`
(`ChannelRegistry` has its steps), presence is `Presence`. `Floods` says whether the
client sends on before its last message has left the queue.

### VoiceStream

One source and one listener. The left half is the sending client: `input` is
`input_buf`, frames being numbered as they are captured; a callback reads
(`ReadInput`), cuts and sends chunk by chunk (`EncodeChunk`), moves the remainder
to the front (`CallbackDone`, with `Remainder`) or panics; `rec` is the queue to
`udp_tx`, which numbers and sends (`SendVoice`) from a random first number. The
network is `Deliver`: any packet sent, in any order, any number of times up to a
bound, or never. The right half is the listening client: `chan` is the stream's
queue (full: the packet is given up; closed: `udp_rx` panics), `buffer` the jitter
buffer, `next` is `next_expected`. `Receive` is one packet through `tick`
(`Full` pops first and pushes then, `Swapped`), `Deadline` a pop on the timer,
`Conceal` a gap filled, `EndStream` the closed queue. Arithmetic is that of
`Width` sequence numbers, which wrap (`Succ`) as in a release build. At whatever is
played or concealed the task may end instead (`Fails`): `next_expected` overflows in a
checked build, a packet without payload is unwrapped, the clipper refuses what was
decoded. A packet that the decoder refuses counts as played.

`encoded`, `played`, `late` and `dropped` are history. `late` holds the packets
whose place had passed when they reached the buffer: because they are older than
`next_expected` or than something already played, or because the buffer was full
and is popped before they are pushed. The code's comparisons are by sequence number only, so that after a wrap
new packets count as old. Codec, resampler, denoiser and loudness are left out,
but for the errors that end a callback or a stream; which frames of silence are
put in a gap is too.

### VoiceClient

`main` is the program point of `async_main_` and the control stream's calls in it;
`ws` and `held` are the web socket task, `out` and `inc` its queues; `asked`
and `answers` count the discovery's requests that may still be answered and the
answers in the socket, `copied` the requests and answers that the network has
delivered twice; `receiver`, `voiceq` and `current` are `udp_rx`, its queue and
its streams, of which those in `broken` have no task any more; `output` is the thread that opens the audio output. `srv`, `told` and `events` are the gateway's session: it
follows `session.rs` (`GatewaySession` models it in full) and may refuse a join, disconnect, leave or be
gone at any time. A message is its kind, with the source it is about; a name, a
key or an address tells no property apart.

What is under way is told apart by where it is: `AtReceiver` is what the streams will be
once the events queued for `udp_rx` are taken, `AtMain` once main has handed on the
events it holds and those queued for it, `AtSocket` with the message the web socket task
holds. What a queue will make known is stated per source (`After`): the last message
that speaks of it decides. `Presence`, `SharedPresence` and `GatewaySession` state views
in the same way, by what the events or messages on their way say rather than by a fold
over them, which comes to the same and can be reasoned about.

`Feed` hands one voice event to `udp_rx`, which is how main works off the list of
`Ready`, a hash set in no order. `WsFails`, `RxFails` and the discovery's failures
end the client as the errors in the code do. `udp_rx` panics in two places, told apart
in `receiver`: at an answer of the discovery (`"todo"`, `RxAnswer`) and at a packet for
a stream without a task (`"ded"`, `RxVoice`): the stream has broken by an error
(`StreamBreaks`, any that `VoiceStream` has), or the audio output is missing. What udp_rx
receives otherwise changes nothing here.

### ServerDirectory

`servers` and `home` are the tables (`home` is a channel's `server_id`); `entry`,
`present` and `closing` are what `Presence` has in detail, of several channels: the
gateway's map, the members of each state, and the states whose last member has left
and which are still to be taken out of the map, with their lock held. A user's
`request` is where its call stands and what it has read so far: `GetServer` and
`ReadChannels` are the service's two queries, `NextChannel` the look into the map
and `ListMembers` the read of the state it found there, for one channel after the
other. `ListServers` is one query: rows and total belong together. `due`, `stayed`
and `seen` are history: the channels that were there when the request came, who has
been in each channel ever since, and who at some time since.

Defaults and limits of a page are those of the service (10 and 100); in one
process a page has 100 by default and no limit. A client is present once; one that
rejoins before its last leave is through is left to `Presence`. The members are
those a state of this gateway lists; over several gateways `SharedPresence` says
which those are.

## What the runs check

| Run | Configuration | Shows |
|---|---|---|
| `voice_channel` | `MCVoiceChannel.cfg` | `AlwaysPresent`, `EndsIdle`, the inductive invariant `IInv`, and that `VoiceChannel` implements `ClientSession`, with reopening and dropped handles |
| `voice_channel_careful` | `MCQuietChannel.cfg` | `NoLeak`, `AnswersGoBack`, and `AbandonedChannelEnds`: a channel at which nothing arrives any more ends |
| `voice_peers` | `MCVoicePeers.cfg` | violated: `PeersPaired` |
| `voice_server` | `MCVoiceServer.cfg` | `PortsOwned`, `CleanupSparesLive`, the inductive invariant `IInv`, `EndedIsRemoved`, `CallersAnswered`, with panics |
| `presence_careful` | `MCPresenceCareful.cfg` | `OneChannel`, the inductive invariant `Watch`, `ViewExact`, `JoinDecided` |
| `shared_presence` | `MCSharedPresence.cfg` | the inductive invariant `Watch`, `HashAccounted`, `ViewExact`, with failing requests and sources |
| `session` | `MCGatewaySession.cfg` | the inductive invariant `IInv` with the queues' capacities, `ClientKnows`, `PeeredIsHeld`, `SessionCompletes`, `DeadVoiceNoticed` |
| `registry` | `MCChannelRegistry.cfg` | the inductive invariant `IInv` with referential integrity, and `UsedIsAssigned`: everyone in a calm channel is on its assigned server |
| `registry_returned` | `MCChannelRegistryReturned.cfg` | violated: `ReturnedIsStored` |
| `voice_stream` | `MCVoiceStream.cfg` | `ChunksExact`, `Accounted`, `OrderKept`, `BufferDrains`, `EndsWithSource`, `CallbackReturns` |
| `voice_client` | `MCVoiceClient.cfg` | the inductive invariant `ClientIInv` with the queues' capacities, `ViewFollows`, `TodoNeedsRepeat`, `Heard`, `ClientEnds` |
| `directory` | `MCServerDirectory.cfg` | the inductive invariant `IInv`, `PagesTell`, `AnswerExact` |

An inductive invariant (`IInv`, in `Presence` and `SharedPresence` with what views need
`Watch`, in `VoiceClient` `ClientIInv`) includes the type invariant and the parts it is
made of (`WaitingNotFed` and `ClosedLeavesMap` follow from it, as the proofs show), which
are not listed again.

Four more configurations are demonstrations of what the code does not guard
against, each a counterexample TLC finds in seconds: `MCPresenceRejoin.cfg`
(`JoinedIsPresent`), `MCSharedPresenceDeaf.cfg` (`HeardWhileIn`),
`MCGatewayFlood.cfg` (`SessionCompletes`) and `MCChannelRegistryOutdated.cfg`
(`OneServer`). They are described below.

### Bounds

* Two clients and three voice tasks: one client can have three connections at
  once, or two while another client has one. Every table operation touches one
  client, one source id and one task, and compares at most two. A packet queue of
  one place is full after one packet, as the code's is after ten. Source ids are
  as many as tasks, so that a fresh one can be drawn whenever a task can be
  spawned. `rebind` is in no run (it
  needs a second address in the largest one); the theorems cover it.
  `MCQuietChannel.cfg` has two tasks and two addresses and neither reopens nor
  rebinds: each of two clients has a connection, or one of them two in turn, and an
  address is another client's or nobody's.
* Two channels, two instances, two callers and two ports: an instance that
  callers still hold, and its successor in the table or another channel's
  instance, which fills the notification queue of one place and takes the second
  port. An ended instance is used again once nothing refers to it.
* For views three clients, two states and one leave task, so that one client
  watches two others join and leave; one task is enough there, since a leave holds
  the state's lock until it is done. Two states are one being closed, or one that
  a session still holds, and its successor; the theorems hold for any number. For
  clients who rejoin early (`MCPresenceRejoin.cfg`) two clients, three states and
  two leave tasks.
* Two gateways, two clients, two states and two leave tasks for shared presence: a
  state on each gateway, or one and its successor on the same. One event on its
  way to each source (`PipeCap`; a publication waits for room, which only delays
  it) and a broadcast of two. `MCSharedPresenceDeaf.cfg` runs without
  failures, so that a source ends only by its own decision.
* Two channels, two attempts and queues of one place for a session: the
  connection joined last and the one being opened, in the same channel or in
  another; a queue is full after one message as the code's are after ten.
* One channel, two gateways, three servers and three sessions: an old host, a new one
  and one that the other gateway picks; two sessions that share a gateway's map entry
  and one of the other gateway. Sessions that resolve a channel no longer calm are not
  followed (`CalmOrIdle`): `UsedIsAssigned` says nothing of them, no state leads back
  to calm, and the theorems cover what `IInv` says of all states. While none resolves
  it, staleness, cleanup and failures go on in a channel that is not calm. Channels
  meet only in `Load`, which with one channel prefers any fresh server to the assigned
  one.
* Six frames in chunks of two, callbacks of one frame or four (with a remainder, or
  with two chunks): three packets, one of them delivered twice, and a buffer of
  two: it is full with a packet missing, popped by a newer one and by an older
  one. Eight sequence numbers of which the first is 0, 2 or 6, so that a stream
  starts at 0 (where `next_expected` does), beyond it, or runs over the end. One
  gap filled: it moves `next_expected` past a packet still under way; the theorems
  have no bound.
* One other source for the client, two requests in the discovery, one repeated datagram,
  queues of one place, a list and one announcement after it: a leave of who was listed,
  the join of who was not, or the repeated join. With one source each pair of tasks
  can already wait for each other; the theorems hold for any number of announcements.
* Three servers on pages of up to two: a full page with more to come, one that is
  not full, one past the end, one of size zero; a page 0 that the database refuses.
  Two channels with three states, so that a channel closes and opens again while a
  request holds its old state.

### Fairness

Safety is checked under `Spec`; liveness under `FairSpec`. tokio runs every
task that can go on, timers fire, and its `RwLock`s and bounded channels serve
waiters in order, which is strong fairness for a step that needs them while
others keep using them. `select!` polls its branches in random order, so a branch
that is ready again and again is taken. Nothing is assumed of callers and clients.

The voice channel's idle timeout is not like other timers: the Forwarder makes a new
`sleep` in every iteration of its loop, so whatever it handles, an unknown source's
datagram included, starts the five seconds anew, and while things keep arriving an empty
channel need not end. `QuietChannel` therefore assumes the timeout fair only when `quiet`:
then nothing but the channel's own tasks can start the loop over, and each of them does so
once, when it is reaped. `AbandonedChannelEnds` speaks of that moment on, at which the
Forwarder may be doing anything. The tasks' own timers are made before their loops and
run on; they are fair without condition, as are the steps of Forwarder and tasks.

The session's `select!` likewise gives strong fairness to its branches; a leave
under way has none, for the RPC may fail.

In the client each task goes on while it can. Nothing is assumed of the network,
the voice server's answers, the gateway or the user: packets and answers may never
come or come twice, and a discovery without answers goes on to its timeout. The client's
receiver is fair only in what `Heard` needs, taking events; reading voice is not
needed.

`CHECK_DEADLOCK FALSE` is set where the system really stops: a channel that ended
does nothing, nor does a session that ended with its socket, a stream that ended,
or a client that left.

## Where the code differs from what is said of it

* **`PeersPaired`.** `Peers` zips the client ids with the values of `connections`,
  which is ordered by source id and also holds replaced connections: a client is
  listed with another's source id. A test with one client cannot see it.
* **`JoinedIsPresent`** (`MCPresenceRejoin.cfg`). A leave removes the client by id. If the client joins again
  before the leave of its last session has run, that leave removes the new one.
* **`ReturnedIsStored`.** `assign_channel` of the channels service returns the server
  it picked even when the transaction kept an assignment stored in between.
* **`OneServer`** (`MCChannelRegistryOutdated.cfg`). A reassignment is not sent to other
  gateways (the FIXME at `server/gateway/src/server/channels/mod.rs:121`). With sessions
  that resolve one after the other, heartbeats in time and no late unassignment, two
  gateways have a voice server in their maps that restarts. One of them finds the channel
  gone there, reassigns it and joins on another server; the second gateway's map still
  leads to the restarted one, so it too finds the channel gone and reassigns it once more,
  away from the first. Members are then on two servers and do not hear each other. The
  shortest counterexample, which TLC reports, takes two sessions and a call that fails
  half-way through a reassignment; with two sessions on each gateway no call has to fail.
* **`HeardWhileIn`** (`MCSharedPresenceDeaf.cfg`). A gateway is to unsubscribe "on last". The event source gives up
  when an event finds nobody listening and the last delivery is 5 s ago, which is also so
  while the first session of a state is still opening its voice connection, or has
  given up and left the state mapped. Nothing subscribes again, and who joins that
  state is in the channel without hearing of anybody.
* **`SessionCompletes`**, with a client that floods (`MCGatewayFlood.cfg`). The web socket task waits for
  room in the queue to the session while it does not serve the queue from it; the
  session waits for room in that one, for an event or an answer. Both queues
  full, they wait for each other, and neither the client's end nor its deadline
  is noticed: the session, its voice connection and its presence stay. The code's
  queues hold ten messages each.

More is visible in the models without a statement of the repository to hold
them against: a connection reaped after its client's newer one has been
reaped is never removed from `connections` (`NoLeak` holds without reopening
only), and the entry and port of a channel whose Forwarder panicked are never
freed; after a session has ended its web socket task finds the queue from the
session closed at once and again, and serves a client that goes on sending
keep-alives until it sends anything else (`ws` may stay at `select` for ever when
`session` has ended; no property is claimed); `assign_channel` of the voice server
returns an occupied entry without the health check that `get_channel` makes, so a
caller may be handed a channel that has ended and is not yet removed; a member
listed between the announcement of its leave and its deletion from the hash stays
on the list (`ghosts`), and one whose leave failed half-way stays in the hash.

Of the client: an answer of the address discovery that comes after `udp_rx` has
started panics the receiver at its `todo!()`; `TodoNeedsRepeat` says that this takes a
second request or a datagram that the network repeats, and nothing less. A stream whose
task ended by an error, or for which there is no audio output, panics the receiver at its
next packet, and with it all other streams (`RxVoice`, and `Deliver` in `VoiceStream`).
Nothing starts the receiver again, so that the client stays in the channel deaf. A `JoinError` of the gateway comes while main
waits for the address or for `Ready`, so that it always ends the client as an
unexpected message, and the branch for it in main's loop is never reached. `stop` may
be taken before the `Leave` that main queued just before it, which then is never sent.
The list of `Ready` is taken before `Ready` is sent, so that a `Joined` may repeat a
source of the list.

Of the voice's way: a packet that arrives in order is not always played in order,
because filling a gap moves `next_expected` past it, and because a full buffer is
popped before the arriving packet is pushed even if that one is older; popping
moves `next_expected` back to an older packet's successor; a packet warned of as
"already played" is queued and played all the same; and a stream whose numbers reach
the end of the 64-bit range panics in a checked build and puts all later packets
before the earlier ones in another. `late` and `OrderKept` say exactly how much of the order is kept.

Of the directory: creating a channel for an unknown server is an internal error, not
`NotFound` (`channels/core/src/lib.rs:131` has the FIXME); a page past the end tells
of no pages; the REST API can only ask for the first page, of ten servers through the
service and of a hundred in one process, in no defined order, so that a client may
never see some servers. At the end of its input the client's `read_choice` does not
end but asks again without end (`client/src/main.rs:53`: `read_line` returns `Ok(0)`);
terminals are not modelled.

## What is proved

`VoiceChannelProofs` proves, for all sets of clients, source ids, tasks and
addresses and every queue capacity, of any behaviour of `VoiceChannel!Spec`:

| Theorem | States |
|---|---|
| `Tracked` | `[]IInv`, the inductive invariant |
| `TypeCorrect` | `[]TypeOK`: types, and the packet queues' capacity |
| `NeverPanics` | `[]AlwaysPresent`: the `expect("always present")` never fails |
| `WaitingTasksNotFed` | `[]WaitingNotFed`: the Forwarder never waits on a task that does not read |
| `EndsOnlyIdle` | `[]EndsIdle`: a channel someone holds ends only without voice tasks |
| `ImplementsClientSession` | `SessionPromise`: each client's connection does what `ClientSession` promises |
| `NothingLeaks` | `[]NoLeak`: without reopening, the last task takes the last connection with it |
| `AnswersReturn` | `[]AnswersGoBack`: without moved sessions, tasks send to where their packets come from |

Each assumes `NoCollision`, that `"collide"` is not in `Allowed`: the code draws a
random 32-bit source id and does not compare it with those in use. With a collision
`AlwaysPresent` does not hold: the new connection replaces another client's,
and when it is reaped that client's entry leads nowhere. The other assumptions are
those of the constants (`OrderedIds`, `MsgCapPositive`, `None` is nobody).

The argument. Neither `AlwaysPresent` nor `WaitingNotFed` nor `EndsIdle` is
inductive. That an entry leads to a connection survives a reap because the reaped
task's source id belongs to it alone, which takes: every unreaped task is led to
by the connection at its own source id (`ConnTracked`), and every entry leads to
such a task of its own client (`EntryTracked`). That a waiting task is never fed
takes: a bound connection whose task still waits is one the Forwarder is giving
its address to at this moment (`BoundIsTold`), so that it cannot be taking a
packet. That the channel ends only idle takes: the timeout is armed only without
tasks (`TimeoutSet`), and running tasks are unreaped ones (`RunningTracked`).
`Spawned` and `ForwarderKnows` give these their types. `IInv` is their
conjunction; the run `voice_channel` checks it too. `NextIInv` has a step per
action; the actions that touch the tables (`OpenConnection`, `Establish`, `Reap`)
and those that many share (`Finish`, asking a task, returning to the loop) are
lemmas of their own.

The refinement needs no more than `IInv` and that handles go only where `"drop"` is
allowed. A step that touches one task changes the report of at most one client, the
one whose entry leads to that task (`TaskMoves`), and that change is a step of
`ClientSession`; reaping a stopped task forgets its client, or, when the client has
reopened, nothing that is reported. The end of an idle channel is a stutter, since
`TimeoutSet` leaves no tasks and so no entries; that of a dropped one is `Abandon`.
`NothingLeaks` adds `AllLed`: without reopening, every connection is the one its
client's entry leads to, so that whoever reaps the task finds both. `AnswersReturn` adds
`Paired`: a connection is bound to an address before its task hears of it, and a
packet is taken up before it is queued, so the address is followed through what the
Forwarder holds in between (`HandsBound`), and a connection whose task is not reaped
is the one that task was given (`OwnConn`), for a task name is not used again while
a connection still names it.

`VoiceServerProofs` proves, for all sets of channels, instances and callers, every
range of ports and every capacity of the notification queue, with or without
panics, of any behaviour of `VoiceServer!Spec`:

| Theorem | States |
|---|---|
| `Consistent` | `[]IInv`, the inductive invariant |
| `TypeCorrect` | `[]TypeOK`: types, and the queue's capacity |
| `CleanupRemovesEnded` | `[]CleanupSparesLive`: what is announced, and so removed, has ended |
| `RunningReachable` | `[]RunningInTable`: a running Forwarder is the one its channel's entry leads to |
| `PortsAccounted` | `[]PortsOwned`: a port is in use exactly while it has an owner, and it has one |

The assumptions are those of the constants only (`PortRange`,
`NotifyCapPositive`, `NoneIsNothing`).

The argument. That a late notification cannot remove a later instance rests on
the table itself: a channel is announced by the Forwarder its entry leads to
(`RunningInTable`), the entry stays until the cleanup task removes it, so no later
instance is made meanwhile, and since what is announced has ended it is not
announced twice (`EndsPending`). That no two Forwarders run for a channel takes
that a channel stays vacant from the moment a caller found it so until that
caller's Forwarder is in the table, which the write lock ensures
(`AssignerHasTable`), and that handles lead to instances made for the channel
(`TableNamesChannel`). A port's flag is followed through its one binder
(`AssignerHasTable` again) to the instance that owns it, and an instance owns it
while the table or a caller holds a handle (`HandlesHeld`, `PortsExact`);
`PortFreed` is the one argument for both places where a last handle may be
dropped. `PortsOwned` counts owners, `PortsExact` says the same without
cardinalities.

`PresenceProofs` proves, for all sets of clients, states and leave tasks and every
capacity of the broadcast, of any behaviour of `Presence!Spec`, with `MayRejoin`
either way:

| Theorem | States |
|---|---|
| `Consistent` | `[]IInv`, the inductive invariant |
| `TypeCorrect` | `[]TypeOK`: types, and the broadcast's capacity |
| `ClosedStatesLeave` | `[]ClosedLeavesMap`: a mapped state that is closed is about to be removed |
| `MembersShareState` | `[]OneChannel`: members share the mapped state (without early rejoins) |
| `Watched` | `[]Watch`, the inductive invariant with what views need |
| `ViewsAreExact` | `[]ViewExact`: members are shown exactly who is there (without early rejoins) |

The assumptions are those of the constants only.

The argument. `close` removes whatever the map leads to, so that members share
one state takes that a task about to close is alone: while it is, nobody is present in
the mapped state and no other state is mapped (`ClosersAlone`), because the task
holds the lock of the state it closes (`LockHeld`), the state is still mapped then, and
a closed state refuses. That an open state is the mapped one (`OpenIsMapped`) and that
sessions and waking leave tasks are listed in the state they joined (`MembersListed`,
`LeaversListed`) give the rest; a client has one session or one leave, not both
(`OneLeaveEach`), which is what `~MayRejoin` provides, and those five are claimed
under it only. With early rejoins a client's old leave removes its new session, and
`ClosedLeavesMap` still holds by the lock alone.

`ViewExact` speaks of sessions that have read the list; what makes it hold was decided
before, between `AnnounceJoined`, where a session subscribes, and `ListMembers`. `ViewsAgree`
says it of every subscriber and each other client: if that one has announced itself, it
counts as there exactly if the last event about it says so, where there is none the list
decides, and for a session that is yet to read the list either answer will do (`Fewest`,
`Most`), since the list it will read is the one of that moment. A client whose leave has
taken it off the list and is not announced still counts (`Counted`); the lock, held from
the one to the other (`GuardHeld`, `LeaversGone`), keeps anybody from reading the list in
between. A broadcast that overflows drops an event, after which the subscriber is
`lagged` and nothing is claimed; until then an event is never lost, so its push agrees with
what it announces (`PushAdds` in the proofs), and receiving moves it from the queue to
the view.

`SharedPresenceProofs` proves, for all sets of clients, gateways, states and leave
tasks and every capacity of the broadcast and of the way from Redis, of any behaviour
of `SharedPresence!Spec`, with `MayRejoin` and `MayFail` either way:

| Theorem | States |
|---|---|
| `SharedIInv` | `[]IInv`, the inductive invariant |
| `TypeCorrect` | `[]TypeOK`: types, and the broadcast's capacity |
| `HashExact` | `[]HashAccounted`: who is in the hash (without early rejoins) |
| `Watched` | `[]Watch`, the inductive invariant with what views need |
| `ViewsAreExact` | `[]ViewExact`: members are shown who has joined anywhere (without early rejoins) |

The argument. What could take a joined client out of the hash is a leave of an
earlier session of its own; a client whose leave is under way has no session
(`OneLeaveEach`, which `~MayRejoin` provides), so that there is none. What could leave
a client in it is a session given up on its way in; its leave task exists from the
moment of the join on (`HasTask`), before the first request to Redis, and either
deletes the client or records it in `stale`. `Placed` says that whoever holds or
leaves a state knows it and its gateway, which the types of the map need.

Views go by two ways from Redis: the source's connection to a gateway (`pipe`) and its
broadcast to the session (`queue`). `PipesAgree` says of every subscribed state, and
`ViewsAgree` of every session that was covered, that the last event about a client on
that way says whether it is a member, unless its membership is `Undecided`: stored or
removed but not announced. Publishing appends to the pipes of all subscribed states in
one step, which decides it everywhere at once; delivering takes the first event from a
pipe to the queues behind it, and since what is shown is `After` the queue and then
`After` the pipe, changes nothing (`AfterMoves`). A session that lists the
members with its source subscribed finds all that are decided; whom it finds although
their leave has been announced is a `ghost`, which `Resurrected` lets pass.

`ChannelRegistryProofs` proves, for all sets of channels, voice servers, gateways and
sessions of each, of any behaviour of `ChannelRegistry!Spec`:

| Theorem | States |
|---|---|
| `RegistryIInv` | `[]IInv`, the inductive invariant |
| `TypeCorrect` | `[]TypeOK`: types, and that an assignment names a registered server |
| `EveryoneOnAssigned` | `[]UsedIsAssigned`: all in a calm channel are on its assigned server |

The argument. A voice server has a calm channel only if the channel is assigned to it
(`HostedIsAssigned`), and members only where it has the channel (`MembersHosted`). To
keep this when a session has a host take the channel, that host has to be the assigned
one. A calm channel has at most one resolver (`OneResolver`), and between its RPCs that
one stays right about the database: the server it was given is fresh and the one
assigned (`NamedAreFresh`, `Agreed`), or none is assigned yet. A host out of a
gateway's map may be outdated only while a session of that gateway is about to replace
it (`MapAgrees`), which is then the channel's one resolver, so whoever finds a host in
the map finds the assigned one, or none is assigned and no host has the channel; and
who asks the registry has no entry in the map that would win over the answer
(`NotInMap`). A second attempt may move the channel to another server only because the
host it came from does not have the channel, and then no host has, and nobody is left
on one (`NobodyLeft`). A server about to unassign a channel has not taken it up again
(`EndedNotHosted`), so that a late unassignment finds nobody who relies on the
assignment. Each event that breaks one of these takes the channel out of `calm` in the
very step.

`GatewaySessionProofs` proves, for all sets of channels and attempts, all capacities
of both queues and clients that flood or do not, of any behaviour of
`GatewaySession!Spec`:

| Theorem | States |
|---|---|
| `SessionIInv` | `[]IInv`, the inductive invariant |
| `TypeCorrect` | `[]TypeOK`: types, and the queues' capacities |
| `ServedIsHeld` | `[]PeeredIsHeld`: no served connection goes on unknown to a running session |
| `ClientIsTold` | `[]ClientKnows`: once it has what is queued, the client knows whether it is in a channel |

The argument. A connection is peered by the session's own `Establish` only, and is
then the newest of its channel, that of the session's attempt (`NewestIsOwn`), since
nothing else opens connections for the client. The session keeps that attempt until
the handle takes it over (`AttemptKnown`), has no older handle that the new one would
replace (`OneVoice`), and gives a handle up only by a leave, which names the channel
and so stops whatever is served there, or by ending.

`ClientKnows` speaks of a session in its `select!`. Elsewhere the client is told before
the handle is there (`ready` is queued, then the handle stored) and after it is gone
(`disconnected` is queued once the handle has been dropped, or before it is, if the
connection died). `Due` is what the client is to make of the messages at each point of
the session's program, and `Tells` adds from where each message is sent and where the
session goes on (`InOrder`).

`ClientProofs` proves, for all sizes of chunks, reads, queues and buffer, every
width and every first sequence number, and every number of frames, repetitions and
filled gaps, of any behaviour of `VoiceStream!Spec`:

| Theorem | States |
|---|---|
| `StreamIInv` | `[]IInv`, the inductive invariant |
| `TypeCorrect` | `[]TypeOK`: types, the limits of queues and buffer |
| `PlayedInSequence` | `[]OrderKept`: packets held back in time are not overtaken |
| `EveryPacketAccounted` | `[]Accounted`: an arrived packet is in one place, or given up, or played once |
| `FramesExact` | `[]ChunksExact`: no frame is lost, repeated or moved before the network |

The argument. `OrderKept` takes that what is held back in time is not older than
`next_expected` nor than anything played (`HeldInTime`): the oldest is popped first, so
playing it keeps that of the rest, and a packet that comes later and would break it
is late by definition, or, if its number was played, a second copy. `Accounted` needs
types only: a step moves a packet from one place to the next. `ChunksExact` takes in
addition that between callbacks no chunk has been cut from the input
(`IdleKeepsAll`), and two lemmas about frames: what is left of an input of
consecutive frames after its chunks were cut, and that a chunk of it is the next in
line.

It also proves, for all sets of other clients, all lengths of the queues, every number
of discovery attempts, of repeated datagrams and of events, with an audio output or without, of any behaviour
of `VoiceClient!ClientSpec`:

| Theorem | States |
|---|---|
| `ClientInvariant` | `[]ClientIInv`, the inductive invariant |
| `ClientTypeCorrect` | `[]ClientTypeOK`: types, and the capacities of the queues |
| `StreamsFollow` | `[]ViewFollows`: the streams, with what is under way, are those the gateway told of |
| `PanicExplained` | `[]TodoNeedsRepeat`: `udp_rx` comes to its `todo!()` only after a second request or a repeated datagram |

The argument. A message under way is in one place: it moves from the socket to the web
socket task (which holds one exactly while it waits for room, `Holding`), to main's
queue, into main's hands, to `udp_rx`'s queue and into its streams, and each move leaves
`After(AtSocket, fromServer)` as it is (`AfterTail`, `AfterAppend`). Two moves are not of
that kind. The listing becomes a set of events that main hands on in any order, which
comes to the same because they are of different sources (`HandApart`), and replaces what
was known, which needs that nothing was: `udp_rx` starts with the listing
(`StartsReady`). A second listing would be ignored by main's loop while `told` follows it;
that there is none takes that the client announces its address once and waits for the
answer, so that announcement and listing together are on their way at one place at most
(`ReadyOnce`). A join or leave while main still waits in the handshake, and a listing
there, end the client, after which nothing is claimed. For `TodoNeedsRepeat` answers are
counted: those in the socket and those to come never exceed the requests and the
network's repetitions, and one has been taken before `udp_rx` starts (`AnswersCounted`),
so that one is left only if there were two of these. The assumptions are those of the constants (`OwnIsOwn`, the limits,
`None` is no message).

`ServerDirectoryProofs` proves, for all sets of servers, channels, states, clients and
users and all pages asked for, of any behaviour of `ServerDirectory!Spec`:

| Theorem | States |
|---|---|
| `DirectoryIInv` | `[]IInv`, the inductive invariant |
| `AnswersExact` | `[]AnswerExact`: answers have what was due, and nobody who was not there |
| `PagesAreTold` | `[]PagesTell`: what a page and the number of pages tell of the servers is true |

The argument. A request that holds a state reads it later, when the map may lead to
another. Either its channel still leads to that state, and then who stayed is in it;
or the state was closed meanwhile (`StateHeld`), and then it is empty (`ClosingEmpty`)
and nobody can have stayed, since the last one left. A state is not used again for
another channel while a request holds it (`Unreachable`), and no two channels share
one (`StatesApart`). What was read keeps to `stayed` and `seen`, of which the one only
shrinks and the other only grows (`RowsBounded`), and no channel that was due is
dropped (`DueKept`). `PagesTell` is arithmetic on the one query that reads rows and total
together: however many servers there may be, finitely many have been created
(`ServersFinite`), so that a page has as many rows as `LIMIT` and `OFFSET` leave, and two
sets of servers of one size, one within the other, are the same (`PagesRight`). What was
told is not touched until the user has taken it.

Every safety property of the passing runs is proved. Only model-checked is what is beyond
the reach of the provers, all liveness under fairness (`AbandonedChannelEnds`,
`EndedIsRemoved`, `CallersAnswered`,
`JoinDecided`, `SessionCompletes`, `DeadVoiceNoticed`, `BufferDrains`,
`EndsWithSource`, `CallbackReturns`, `Heard`, `ClientEnds`).

## Plan

Done, in this order: `VoiceChannel` with `ClientSession`, its proofs,
`VoiceServer` with its proofs, `Presence`, `ChannelRegistry`, `GatewaySession`,
`SharedPresence`, the proofs about `Presence`, `VoiceStream` with its proofs,
`VoiceClient`, `ServerDirectory` with its proofs, the proofs about `ChannelRegistry`,
`GatewaySession` and `SharedPresence`, the refinement of `ClientSession` proved, the views
of members and clients and the client's main program proved. Worth doing next:

1. Presence as an abstract specification: who is present in a channel, over all
   gateways. `Presence` and, without failures, `SharedPresence` shown to implement
   it, so that what a member is shown is stated once for both.
2. `VoiceClient` and `GatewaySession` put together, each as the other's environment.

Abstract specifications worth stating beside `ClientSession`: an atomic table of
channels and ports for `VoiceServer` (a channel is hosted or not, a port is
free or owned by one channel); presence as a set of clients for both kinds of
channel state; the registry as a partial function from channels to servers.

## Not modelled, and why

* `main` programs and configuration: they wire the parts together and keep no state.
* Integrated host and registry as a whole: direct calls to what `VoiceServer` and
  `ServerDirectory` model, without a state of their own.
* Wire formats and the cipher: functions on bytes, covered by unit tests; what
  matters here is whether a packet decrypts.
* Resampling, noise suppression, the codec, loudness and the audio devices: signal
  processing in libraries; the models have their failures.
* Members of servers (`servers_members`) and the deletion of channels: only tests
  call them.
* Time: durations become timeouts that may fire at any moment they are armed.
