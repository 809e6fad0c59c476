# CloudTeachingAssistant in TLA+

Models, model-checking runs and machine-checked proofs for the Linux server in
`src/CloudTeachingAssistant/` and the Windows client in `src/ECloudAssistant/`. Every definition is
translated from the source; `PROJECT.json` names, for each, the lines it stands for ("map"), and lists
the hazards of the code with the properties that watch them.

## 1. The system

A teacher's client asks for the screen of a student's client. The **signalling server** brings the
two together, the student's client pushes its screen and sound over RTMP to an **RTMP server**, and
the teacher's client pulls it from there; mouse and keyboard input travels back over signalling.
A **load balancer** tells a client which login server to use, the **login servers** keep accounts in
MySQL. All servers share one network layer: an event loop with several epoll reactors, timers, TCP
connections with read and write buffers. The client has its own copy of it, with a select reactor.

### Inventory: server

| part | state | operations | hard behaviour | modelled in |
|---|---|---|---|---|
| `CSigConnection`, `CConnectionManager`, `CSigServer` | per connection `m_state`, `m_strCode`, `m_strStreamAddr`, `m_vecObjectes`, `m_conn`; the manager's map code -> connection | JOIN, OBTAINSTREAM, CREATESTREAM, DELETESTREAM, input forwarding, `Clear`, destructor | connections of several reactors touch each other's fields; check-then-add; erase while iterating; shared_ptrs that outlive the connection | `Signaling`, `Directory`, `RemoteControl` |
| `CTcpConnection`, `CBufferReader`, `CBufferWriter` | `m_bIsClosed`, `m_mutex`, read and write buffer, the channel's interest set | `Send` (any thread), `HandleRead`, `HandleWrite`, `Close` | `HandleWrite` gives up when `try_lock` fails; callbacks run with the mutex held; a full write buffer drops | `TcpConnection` |
| `CTcpServer`, `CAcceptor` | map fd -> connection | accept, `addConnection`, `removeConnection`, `Stop` | descriptors are used again; a connection is polled before it is set up; `Stop` iterates what callbacks erase | `TcpServer` |
| `CEventLoop`, `CReactorBase`, `CReactorEpoll` | reactors, their threads, `m_bIsShutdown` | `Start`, `GetReactor`, `Stop`, `Loop`, `Quit`, channel updates | `Stop` racing the start of a thread; round robin | `EventLoop`, `TcpServer` |
| `CTimerQueue` | two maps of timers, last id | `AddTimer`, `RemoveTimer`, `HandleTimerEvent` | a callback that adds or removes timers while the queue is walked | `TimerQueue` |
| `CRtmpServer`, `CRtmpSession`, `CRtmpConnection` | sessions per path, publisher and players; per connection state, stream path, pending messages | connect, createStream, publish, play, deleteStream, audio, video, session GC | deferred sink removal; GC of sessions against a session just taken; publish check and publish apart; headers cached for late players | `RtmpRelay`, `Publish` |
| `CRtmpChunk`, `CRtmpHandshake`, `CAmfDecoder`/`Encoder` | parse state, partial messages, chunk sizes | parse and create chunks, C0C1C2/S0S1S2, AMF | messages interleaved and cut at any byte; chunk size changed in the middle | `RtmpStream`, `Publish` |
| `CLoadBalanceServer`, `CLoadBalanceConnection`, `CTcpClient` | monitor bodies per server | heartbeat, request for the least loaded server | pointers into buffers, entries that are never removed, clocks that wrap | `LoginService` |
| `CLoginServer`, `CLoginConnection`, `CORMManager` | rows in MySQL | register, login, delete | check-then-insert, several rows for a user, one message per read | `LoginService`, `Registry` |

### Inventory: client

| part | state | operations | hard behaviour | modelled in |
|---|---|---|---|---|
| `CSigConnection` | role, code, callbacks | join, obtain stream, answer CREATESTREAM with an address, DELETESTREAM | answers name no session; `m_state` stays PUSHER | `RemoteControl` |
| `CReactorSelect`, `CEventLoop` | copies of three descriptor sets, reset flags | channel updates from any thread, `select`, `Quit` | flags read without the mutex, sets kept between turns | `EventLoop` |
| `CRtmpPublisher`, `CRtmpConnection`, `CRtmpPushManager` | dialogue state, stream id, encoder threads | open, handshake, connect, createStream, publish, push, close | threads that push while others close | `Publish` |
| `CAudioCapture`, `CWASAPICapture`, `AudioBuffer`, `CGDIScreenScapture` | ring of samples, last picture, four threads | start, capture, take, stop | threads that stop while others wait for data | `Capture` |
| `CAVPlayer`, `CAVDEMuxer`, decoders, `CAVQueue` | packet and frame queues, six threads | open, demux, decode, play, close | producers and consumers that stop in some order | `Player` |
| `CLoginWidget` | what it is connected to | ask the balancer, follow its answer, log in | all replies read, the first one looked at | `LoginService` |
| the other widgets, OpenGL, encoders, `AudioAndVideo_Codec` | - | - | UI, FFmpeg and graphics calls: not modelled | - |

### How the parts interact

* An **accept** on the main reactor makes a connection object bound to one reactor; every read,
  write, close and timer event of the object then runs on that reactor's thread.
* A handler may call **into another connection** (`RemoveClient`, `Send`, fields of `CSigConnection`)
  from its own reactor's thread, without a lock except the write buffer's and the manager's.
* `Close` runs the subclass's close callback (for signalling: `Clear`), then the server's disconnect
  callback, which drops the server's shared_ptr. The object lives on as long as another shared_ptr
  (a `m_conn`, a local variable of a handler) holds it; its destructor calls `Clear` once more.
* A controlling client joins and asks for a code; the server asks the controlled client to push
  (CREATESTREAM), which answers with an address that the server hands to every waiting puller
  (PLAYSTREAM). When a partner goes the server tells the others how many are left (DELETESTREAM).
* Capture threads fill a buffer that the encoder threads drain; these push over RTMP; the relay sends
  to players; a player's demuxer, decoders and players are threads around queues.

## 2. Modules

Every module takes its sets as CONSTANTS with named ASSUMEs, has one action per handler or per part
of a handler that another thread can separate, and uses no RECURSIVE operator.

| module | models | composes / refines | run | proofs |
|---|---|---|---|---|
| `Signaling` | the signalling server | refines `Directory` | `sig_reuse`, `sig_orderly` | `Signaling_proofs` |
| `RemoteControl` | the signalling client, and both directions of its connection | EXTENDS `Signaling` | `remote` | `Signaling_proofs` |
| `TcpConnection` | locks and write buffer of a connection | | `tcp_locks` | `TcpConnection_proofs` |
| `TimerQueue`, `EventLoop` | timers; a reactor's thread and its descriptor sets | `EventLoop` EXTENDS and implements `TimerQueue` | `loop` | `EventLoop_proofs` |
| `TcpServer` | accepting, the table of connections, reactors and the kernel's set | | `server` | `TcpServer_proofs` |
| `LoginService` | balancer, login servers, database, login widget | refines `Registry` | `services` | `LoginService_proofs` |
| `RtmpRelay` | sessions, publishers and players | | `rtmp_relay`, `rtmp_live`, `rtmp_locks` | `RtmpRelay_proofs` |
| `RtmpStream`, `Publish` | chunk stream; the client's publisher against the server's connection | `Publish` EXTENDS `RtmpStream` | `publish` | `Publish_proofs` |
| `Player`, `Capture`, `Media` | the client's media threads | `Media` composes both | `media` | `Media_proofs` |

Every safety invariant of a passing run but `ClientsAreServed`, both refinements that runs check, and every action
property of a run is proved for all values of the constants (section 12). What comes next: what the relay still
keeps with two reactors, a statement of what the publisher, the relay and the player promise together, and a
`TimerQueue` that other threads may add to.

## 3. The signalling server

`Signaling.tla` models `CSigConnection`, `CConnectionManager`, and of `CTcpServer` and
`CTcpConnection` what decides an object's life.

| variable | code |
|---|---|
| `life` | whether the object exists, `m_bIsClosed`, membership in `CTcpServer::m_mapConnections` |
| `role`, `code`, `addr`, `target`, `objs` | `m_state`, `m_strCode`, `m_strStreamAddr` (empty or not), `m_conn`, `m_vecObjectes` |
| `registry` | `CConnectionManager::m_mapConnMaps` |
| `frame` | the handler a reactor is in and its local variables |
| `outbox` | the messages sent by the last step |

**Steps.** A handler that reads the manager and acts on the answer later, or walks
`m_vecObjectes`, is cut into steps: `JoinCheck`/`JoinAdd`, `ObtainCheck`/`ObtainLink`,
`CreateStream`/`CreateStep`..., `Disconnect` or `DeleteStream`/`ClearStep`.../`ClearEnd`. A reactor
starts no other handler in between, other reactors do. With one reactor the cuts are invisible to
the other handlers, and the model is exactly sequential. A range-for keeps the end it began with:
`Slot` says what it reads when `RemoveClient` has shortened the vector (the empty string that `erase`
left, on one thread; any string, when other threads move the elements under the loop).

**Objects.** `Settle` destroys a closed object when the last shared_ptr to it goes, in the step in
which it goes. Its destructor runs `Clear` again, of which only `RemoveConn(m_strCode)` still does
something.

**Clients.** The server does not look whether a JOIN's code is still carried by an older object.
`Spec` lets a client join with any code; `OrderlySpec` restricts JOINs that pass the check to codes no
living object carries. Only `ClosedIsFinal` and `LeaveReachesAll` depend on it: without it an old object's
`Clear` unregisters a client that reconnected, which its partners then no longer find.

**Abstract specification.** `Directory` says what is left for a user of the manager to rely on when clients
and reactors do as they like. A client asks for a code that is free and joins in a later step; when another
client with the same code has joined in between, the first stays. An entry goes only when an object that
joined with its code is in `Clear` or is destroyed, but this need not be the one the entry leads to. So a code
changes hands only by being free in between, and nobody who does not carry the code can take it away; that a
client which joined is *found*, the directory does not promise, and neither does the code. `Standing` and
`HeldCode` map the server's variables to it.

### Runs

Both runs have 3 connections: a session has two ends, and the third client is the one that watches, controls
one of the two, takes over a code or is skipped in a walk over two partners. `sig_reuse` has 2 reactors, one
code and the empty one: enough for two clients to join with one code at once and for an object that a third
client's `m_conn` keeps to take away the entry of its successor (a third client needs no code of its own to hold
it). `sig_orderly` has one reactor and 3 codes. Connections of the same reactor are symmetric, and so are codes;
`outbox` is left out of a state's identity (the view), since only action properties read it and they are
evaluated on each step. A connection object is accepted once, so that a run has at most three connections; that
bounds everything else. `CHECK_DEADLOCK FALSE`: when the last of them is gone, nothing is left to do.

| run | shows |
|---|---|
| `sig_reuse` | two reactors, whatever codes clients use: the manager finds only open clients that joined with that code, one that closes only while its own thread is in `Clear`; no partner is listed twice; the server implements `Directory` |
| `sig_orderly` | one reactor and orderly codes: PULLER and PUSHER list a partner; CLOSE is final; after `Clear` nobody lists the client |

**What the code does not keep.** The module states four more properties under the heading "What the code
does not keep". TLC refutes each; to repeat it, copy the named cfg, drop its INVARIANTS and PROPERTIES lines and
add the property:

| cfg | property | counterexample |
|---|---|---|
| `sig_orderly` | PROPERTY `CreateReachesPullers` | erasing in `DoCreateStream` passes over a waiting puller |
| `sig_orderly` | INVARIANT `ControlsWhatItWatches` | input goes to a client of an earlier session |
| `sig_reuse` | INVARIANT `DirectoryExact` | a client that joined is not found: its code was added meanwhile, or an old object's `Clear` unregistered it |
| `sig_reuse` | PROPERTY `JoinRegisters` | two reactors let two clients join with one code, and the second is told SUCCESSFUL |

### Proofs

`Signaling_proofs.tla` proves every property of both runs, for every number of connections and codes. The
assumptions are those `Signaling` names: the empty string is not a code, the null pointer is not a connection,
each connection has one reactor.

| for | proved |
|---|---|
| any number of reactors | `TypeOK`, `RegisteredAreOpen`, `DistinctPartners`, `ImplementsDirectory` |
| one reactor | `BusyHavePartners` |
| one reactor and orderly clients | `ClosedIsFinal`, `LeaveReachesAll` |

`RegisteredAreOpen` is not inductive. `ClearEnd` must know that the frame's connection is the one being
closed, and `JoinAdd` that nobody registered the object meanwhile. `FramesInv` adds what a handler may
rely on between its steps: its connection is served by its own reactor and still open (or closing, for
a close), a joining one is still NONE, one inside `Clear` is CLOSE - or IDLE, because a partner's
`Clear` on another reactor may call `RemoveClient` on it. Roles of registered connections never become
NONE, hence a NONE connection is never in the manager. `GInv` is the conjunction; there is one lemma
per action and one step per conjunct. Facts about `m_vecObjectes` (`WithoutCuts`, `AddClientFacts`)
are lemmas about `RemoveAt` and `Append`.

`DistinctPartners` needs one thing more: that `RemoveClient` takes away one element and keeps the others.

In the refinement (`DirectoryIsImplemented`) `JoinCheck` is the directory's `Ask` and `JoinAdd` its `Join`; the
start and the end of `Clear`, and `ObtainLink` when it drops the last shared_ptr to an object, are its `Leave`,
with the objects destroyed in that step among those that leave (`LeavingStep`, `SettleTakes`). It needs of the
invariant that an object which has not joined carries no code (`Newcomers`) and that a frame belongs to its
connection's reactor.

For orderly clients the invariant is `OInv`, the above together with

* `Clients`: an object that has not joined carries nothing, one that is closed is CLOSE, one that is CLOSE lists
  nobody unless its `Clear` still runs, no two objects carry one code, nobody lists itself, and (`DirectoryExact`)
  a client that joined is found under its code, which is free until then (`JoinsAreFree`);
* `RequestsHold`: what a join, a request for a stream or a `DoCreateStream` has checked holds at its next step;
* `ClearedSoFar`: the partners that a running `Clear` has passed do not list the client any more.

`LeaveReachesAll` follows from the last, once the walk is at its end; `ClosedIsFinal` because `DoCreateStream` and
`Clear`, which make other clients IDLE, reach only clients that are in.

## 4. The TCP connection

`TcpConnection.tla` models the locks of `CTcpConnection`. Every thread is a stack of calls; a call is
cut at each lock, unlock and unlocked read of `m_bIsClosed`. `Close` runs the close and disconnect
callbacks with the mutex held, and they send to other connections; the read callback sends with no
mutex held.

| variable | code |
|---|---|
| `closedAt`, `closes` | `m_bIsClosed`; the number tells in which order connections were closed, and is there for the properties |
| `mutex` | the thread that holds `m_mutex` |
| `pending` | the number of packets in `m_writeBuf` (`Capacity` stands for 500) |
| `writing`, `polled` | `EVENT_OUT` in the channel's events; membership in the reactor's `m_mapChannels` |
| `stack` | the calls a thread is in: `HandleRead`, `Send`, `HandleWrite`, `Close` and the callbacks |

Which connections the handlers of a thread send to is the constant `SendsTo`; a callback sends to any
of them in any order. `m_bIsClosed` is a plain `bool`; the model lets other threads see it at once,
because `RemoveChannel` goes through the reactor's mutex after it is set and before any callback runs.
The reactor's mutex itself is a leaf (nothing is called while it is held) and is left out. epoll's
events are handled one batch at a time: an event of a channel that has been removed meanwhile is
handled too, and the handlers find the connection closed. What such an event does to an object that
has been destroyed is not modelled.

### Runs

Two connections are enough for two that close and send to each other, a capacity of two for a buffer
that is partly written. Nothing else is bounded: sends, events and writes go on for ever, since
counts and not contents are kept. `CHECK_DEADLOCK FALSE`: a thread with nothing to do waits for events.

| run | shows |
|---|---|
| `tcp_locks` | one reactor, and the main thread that stops the server: the mutexes never wait for each other in a circle (`WaitsUpward`); data left by a reactor's own handlers waits for a write event (`PrivateLeftIsAwaited`) |

`LeftIsAwaited`, the same of data anybody sent, is what the code does not keep: with two reactors that send
to each other's connections, a packet is left that nothing will write. To repeat it copy `tcp_locks.cfg`
with `Threads = {r1, r2}`, `ReactorOf <- Spread`, `SendsTo <- SendsToAll`, `Capacity = 1` and the INVARIANT
`LeftIsAwaited` alone.

### Proofs

`TcpConnection_proofs.tla` proves `TypeOK` and `WaitsUpward` for every number of connections, threads and
nested calls. `WaitsUpward` says that when t waits for c's mutex, whose holder waits too, every mutex t
holds belongs to a connection closed before c; a circle of waiting threads would make the numbers grow
for ever. `LockInv` is the inductive strengthening: only the innermost call is in the middle of a
critical section, except that a `Close` below it may be running callbacks (`WellNested`); a held mutex
is accounted for by a call of the holder (`Covers`); a connection whose callbacks run is closed
(`Notifies`); and whoever is about to lock c in `Send`, having seen it open, holds only connections
closed before c, if c is closed by now. `StepInv`, `ReturnInv` and `GotoInv` show once what a step that
starts, ends or moves on a call must respect; the lemma of each action checks that it does.

It also proves `PrivateLeftIsAwaited`. To be inductive this needs to know which thread makes which call
(`Allowed`: reads and read callbacks are made by the connection's reactor, sends by handlers that know it), so that
nobody holds the mutex of a private connection that is open when `HandleWrite` tries it, and that an open
connection is polled (`OpenArePolled`), so that its interest in EVENT_OUT is told to epoll. Each lemma says
what a step leaves of the places at which a thread will still look at the buffer (`AtIt`), since data is left
only when there is none.

## 5. The RTMP relay

`RtmpRelay.tla` models `CRtmpServer`'s sessions, `CRtmpSession`, and `CRtmpConnection` from the moment it
has connected and created its stream.

| variable | code |
|---|---|
| `conn[c]` | the connection on a socket: whether it is there, closed or gone, `m_state`, `m_pRtmpSession`, `m_bIsPublishing`, `m_bIsPlaying`, `m_bHasKeyFrame`, whether it knows an AVC header; `view` is what the client has had, for the properties |
| `sess[s]` | `m_mapRtmpSinks`, `m_pPublisher`, whether a header is kept |
| `sessionOf` | `CRtmpServer::m_mapRtmpSessions` |
| `removals` | the one-shot timers of `bHandleDeleteStream`, in each reactor's order |
| `frame` | the handler a reactor is in and its local variables |

**Steps.** A handler is cut where it needs a mutex that another thread may hold for long, and where it
lets go of one and acts on what it read: `Publish` / `PublishStart` / `Enter` / `AddSink`, `Play` / `Enter`
/ `AddSink`, `Media` / `SendTo`... / `SendEnd`, `CloseStart` / `DeleteEnd`, `GcStart` / `GcVisit`... /
`GcEnd`. Who holds a mutex follows from the frames (`ServerFree`, `SessionFree`, `ConnFree`). A write that
fails inside `SendMediaData` closes the player in the sender's thread (`SendFails`).

**Objects.** `Settle` writes the new state and destroys what nothing holds any more: a session that is in
no map, timer or frame, a closed connection that no timer or frame holds. The weak pointers to them
expire in the same step, and the socket may be accepted again.

**Left out.** connect, createStream and the metadata message (they change nothing of this state; the
metadata message takes the mutexes `SendMediaData` takes), the AAC header (kept and sent like the AVC
one), time stamps and contents. `SetAvcSequenceHeader` and the `SendMediaData` that follows it are one
critical section instead of two. A reply whose write fails is a `Disconnect` at a later time.

**Clients.** `Spec` lets clients send anything: `bHandleVideo` and `bHandleAudio` do not look at `m_state`, and a player
that sends media has it relayed. `OrderlySpec` has clients like this project's: a connection plays or publishes
once, only a publisher sends media, first its header, then a key frame, then anything, and nothing after
DeleteStream.

### Runs

| run | shows |
|---|---|
| `rtmp_relay` | one reactor, three connections on a path: a client that was told it plays or publishes is in a session the server finds; the kept header is that of the present publisher; nobody gets a frame before the header and the key frame |
| `rtmp_live` | one reactor, two connections, two paths: sessions nobody is in are collected, closed connections destroyed |
| `rtmp_locks` | violation: two reactors, orderly clients, a failing write and the collector wait for each other |

Three connections are a publisher and two players, or a publisher, its successor and a player; sockets
are reused without end. Two session objects per path suffice: at most one is in the map and the other
waits for its last timer (when none is free the model waits, which the bound `Sessions` names); with two
paths `rtmp_live` keeps two for both. Connections are symmetric on one reactor; the run with liveness uses
no symmetry. Nothing stops for good on one reactor, and deadlock is checked there; `rtmp_locks` says
`CHECK_DEADLOCK FALSE` because the circle it looks for is stated as an invariant, which also finds circles
while another thread goes on.

**Fairness.** A reactor that is in a handler goes on with it (weak fairness of `Continue` and `Collect`).
Timers get strong fairness: `CReactorBase::Start` runs the timers that are due in each turn of its loop,
so that handlers of other events cannot keep one out for ever, although they make it wait again and
again. Nothing is assumed of clients.

**One reactor.** The server has as many reactors as the machine has processors, and with two
`ClientsAreServed`, `HeadersBelong` and `KeyFrameFirst` do not hold: the collector may drop a session between
`Enter` and `AddSink`, and two publishers on different reactors may both pass `bHasPublisher`. To see each refuted,
put it in the place of `CollectorGoesOn` in a copy of `rtmp_locks.cfg`. The passing runs state them for what is
left when handlers do not overlap: successions of publishers, the late `RemoveSink`, the collector between
handlers.

### Proofs

`RtmpRelay_proofs.tla` proves `TypeOK` for any number of reactors and any clients, and for one reactor and orderly
clients `HeadersBelong` and `KeyFrameFirst`, for any number of connections, sessions and paths. `ClientsAreServed`,
which on one reactor says little more than that the collector counts right, is model-checked only. Nearly
every action ends in `Settle`, which changes every object that has lost its last holder. The invariant is therefore
written as an operator of five values, those that are given to `Settle` (`Types`, `Keeps`); one lemma carries
it over from the values to the variables, and the lemma of each action is about the values only. What
`Settle` destroys is nobody's: `Unheld` says that such a session is as it was made.

`Keeps` relates connections, sessions, timers and frames: a sink of a session has it as its session (`SinksHold`);
a session's publisher is the one connection that publishes into it, from `Enter` on (`PublishersHold`); a timer that
waits removes a connection that is out (`TimersHold`); a client that is told it plays or publishes is on its
way into a session of the map or one of its sinks (`ServedHold`); a header that is kept is of a publisher that is
there or whose removal is due (`HeadersHold`); when the publisher has sent its key frame, a player that has had only
the header although its `m_bHasKeyFrame` is set is one that a key frame under way has yet to reach
(`PlayersHold`); `FrameHolds` is what a handler knows between its steps. `KeyFrameFirst` rests on `PlayersHold`: without
it a flag left from one publisher might let another's frames through.

## 6. Signalling with its clients

`RemoteControl.tla` puts the client's `CSigConnection` on both ends of the signalling server: it EXTENDS
`Signaling` and lets its handlers run only on messages that clients sent, in the order they were sent.

| variable | code |
|---|---|
| `cstate`, `becoming` | the client's `m_state`, and what the handler it is in is about to set it to |
| `up`, `down` | the two directions of the TCP connection |
| `streaming` | whether the client pushes or plays |
| `told` | what a controlling client was told (for the properties) |

`DoJoin` and `DoCreateStream` send first and set `m_state` after: `SetState` is the second step, and the server may
have handled the message before it. `Turned` is `m_state` as the handler will leave it.

`Join` is the constructor with `nJoin`; `ServerHandles` and `ServerGoesOn` are the steps of `Signaling` with
what they send put on the way (`Deliver`); `ClientHandles` is `HandleMessage` with `DoJoin`, `DoPlayStream`,
`DoCreateStream`, `DoDeleteStream`; `Leave` is a client that ends at any moment, a crash included. The
callbacks that push, play and stop are set by no code yet; they are taken to do what they are named for,
and starting a push may fail.

Run `remote`: two controllers, one controlled client and its restart under the same code, so that a
session can end from either side, start again with another partner, and meet the restart of its target.
All controllers join with the id "154564" (`SigConnection.cpp:108`), so that only one of them is joined at
a time: the second is refused until the first has gone. That is by the code, and the run keeps it.

| property | says |
|---|---|
| `RolesAgree` | the server takes a client for PUSHER or PULLER only when the client takes itself for one, or will at the end of the handler it is in |
| `WatcherIsTold` | a controller whose request for a client that has not pushed yet was accepted is told to play or that it failed |
| `StopsWhenAlone` | a client stops pushing or playing when its last partner has gone |

`WatcherIsTold` speaks of a client that has not pushed yet, since `DoDeleteStream` leaves `m_state` PUSHER and a
later CREATESTREAM is not answered. `StopsWhenAlone` speaks of pushes that all start: an answer to
CREATESTREAM names no session, and TLC finds that a late failure is taken for the next session's, drops the
new partner with no DELETESTREAM, and leaves the client pushing to nobody. To see it, take `[]PushesStart(c) =>`
out. Fairness: server and clients handle what has come; nobody must come or go.

**Proofs.** `Signaling_proofs.tla` proves `RolesAgree` (`ServerKnowsItsClients`) for any number of clients, codes and
reactors. The server's role and the client's `m_state` are set by different messages, so the invariant `RemoteInv`
follows them on their way: a client has one JOIN, which is in one place - under way to the server, in
`HandleJoin`, or answered and under way back - and as long as it is, the client is NONE (`JoinHolds`); a request
under way or in `DoObtainStream` is a PULLER's, and an address under way or kept by the server is a PUSHER's
(`StateHolds`). It includes `GInv`, which holds because each step is one of the server's or leaves the server alone.
`ClientsAreAllowed` says the latter: provided every code may be asked for (`Codes \subseteq Asked`, as in
`remote.cfg`), `RemoteSpec` implements the server's `Spec`, so that whatever is proved or checked of `Spec` holds with
these clients.

## 7. The event loop and its timers

`TimerQueue.tla` models `CTimerQueue`: `timers` is `m_mapTimers`, `events` is `m_mapEvents`, `point` the time
`HandleTimerEvent` has read, `firing` the timer whose callback runs. `Fire` takes the first event that is due;
`Repeated` and `Done` look at `begin()` again when the callback has returned, as the code does; `UseTimers` is
what callbacks do in between.

`EventLoop.tla` adds the thread that runs them, with the client's `CReactorSelect`: `polled` is
`m_mapChannels`, `kept` the copies of the three descriptor sets, `stale` the three reset flags. Other
threads change a channel's interests (`writing`) and tell the reactor later (`telling`, `UpdateChannel`);
`LookAtFlags` reads the flags without the mutex, `BuildSets` holds it. `Quit` is `CEventLoop::Quit`.

Run `loop`: three timers ever added, a clock of three ticks, one channel. Three timers are a running one,
one it adds and one it removes. Channels do not depend on each other in any action; the theorem below holds
for any number. `Orderly` says that `Quit` comes after the thread has begun: without it `Start` undoes the stop
and TLC finds a join that never returns (`ReactorBase.cpp:13`; to see it, take `/\ Orderly` out of `Spec` in a copy of
`EventLoop.tla`). Fairness: the thread goes on, and a join
returns when the thread has ended.

| property | says |
|---|---|
| `MapsAgree` | both maps hold the same timers under the same times, whatever callbacks do |
| `RunsOnce` | one `HandleTimerEvent` runs no timer twice |
| `SetsFollowChannels` | a copy that no flag marks holds what the channels want, but for those whose change is still to be told |
| `QuitReturns` | Quit returns |

**Proofs.** `EventLoop_proofs.tla` proves all but the last, for any intervals, any number of timers and
channels and an unbounded clock. `LoopUsesTimers` shows that the loop implements `TimersSpec`: each of its
steps is a step of the timer queue or leaves it alone, so that what is proved of the queue holds of the loop.
`MapsAgree` is not inductive, since `Done` erases whatever event is first together with the timer that ran.
`TimersInv` adds that the first event is that of the running timer (`FirstIsFiring`), which holds because what
the callback adds is due after the time `HandleTimerEvent` read (`PointIsPast`, `FiringWasDue`; here the
assumption is used that intervals are positive), and that whatever has run is due after that time
(`RanIsLater`), from which `RunsOnce` follows. `SetsFollowChannels` needs `AllArePolled`: an update of a known
channel does not mark the except set, which is right because that set always holds every channel.

## 8. Accepting and closing

`TcpServer.tla` follows a connection through `onAccept`: its constructor registers the channel (`Accept`), the
server enters it (`AddConnection`), and only then has it a disconnect callback (`SetDisconnectCallback`). It may
hang up anywhere in between, on its own reactor, while reactor 0 goes on. `channels` and `epoll` are each
reactor's map and the kernel's set, `table` is `m_mapConnections`; all are keyed by descriptor, which is free
again when the object is destroyed. `Stop` walks the table while the callbacks erase from it: `Disconnect` may
meet any entry next, and `StopEnds` may come early.

`HandleWrite` looks at `m_bIsClosed` before it has the mutex (`WriteChecks`), on any reactor's thread, since anybody may
send to a connection; then it writes and tells the reactor when the interest in writing has changed
(`WriteUpdates`), closes when the socket fails (`WriteFails`), or leaves things as they are (`WriteLeaves`). A `Close` of another
thread may come in between: the update then puts the closed channel back into `m_mapChannels` and epoll
(`UpdateChannel` adds what the map does not know), and `late` remembers it. The destructor closes the descriptor,
which leaves the kernel's set, but nothing takes it out of the map any more: the next connection that gets this
descriptor on this reactor is *modified*, which the kernel refuses (`ReactorEpoll.cpp:29`), and is never polled.

Run `server`: five connections over two descriptors and two reactors, so that each descriptor is used again, on
either reactor, while another connection closes; connections are symmetric.

| property | says |
|---|---|
| `PolledAreOpen` | every open connection is polled under its descriptor, and nothing that is closed is, but for a channel put back by a late write: that is polled until its connection is destroyed, and never stands for another |
| `ListedAreAlive` | what the table holds is not destroyed, and an open connection that is set up is in it |
| `DealtEvenly` | round robin |

A connection that closes before its callback is set stays in the table, with its descriptor: a leak that is by
the code, and `ListedAreAlive` says that it harms no other connection. A close within another's callbacks, which a failing
write starts, may be done before or after it. What epoll reports for a channel whose connection is destroyed
is undefined (a raw pointer) and left out. `CHECK_DEADLOCK FALSE`: when all connections are gone, a stopped
server may stay so.

**Proofs.** `TcpServer_proofs.tla` proves all four properties for any connections, descriptors and number of
reactors, from `ReactorsAssumption` (there is a reactor) and `NoneAssumption`. The invariant `SInv` adds what the
properties rest on: connections that are there have descriptors of their own (`HaveFds`); the map and the kernel's
set of a reactor agree under every descriptor, but for what was put back (`Polls`), and that is not open (`Lates`); the
table holds every open connection but the one still to be entered (`Listed`, which makes `AddConnection` and
an erasing callback safe); the connection being set up is there (`Accepts`); what is being closed is closed and
what is being written to is not destroyed (`Uses`). `DealtEvenly` follows from `DealtInTurns`, which says how many more each
reactor was given from where the index stands.

## 9. Logging in

`LoginService.tla` has widgets, connections that register and delete accounts, login servers, the balancer and
the table of accounts. `rows` counts the rows of a code: a login inserts a second one. A handler is cut between
its query that looks up and the one that inserts (`query`, `InsertClient`), and handlers of all connections overlap
there, of one server or of several: nothing is held between `LoginConnection.cpp:96` and `:100`. The row that
`selectClientByUsercode` returns is freed before the handler reads it (`ORMManager.cpp:108-113`), so that `Login` may take the
account for online or not and insert a row under any code. `bOnRead` handles one message for each event and
leaves the rest in the buffer (`left`). Clocks differ by `Skews` and the difference is unsigned, so that a client
whose clock is ahead is refused (`IsTimeout`). `GetMemUsage` reads `/proc/meminfo` on from where it stopped, so that only the
first heartbeat tells the load (`spent`). A request that reaches a balancer which has had no heartbeat takes the first
of no servers: `crashed`. The widget, once it is sent on, connects to the login server and sends its login
(`ReadData`); a click in between sends a message that the login server reads as something else (`Garbled`).

Run `services`: one widget that clicks twice and two administrators, each at a login server of its own, who send
a message each; that is enough for two registrations of one code that overlap, for one that overlaps a deletion, and
for a click that comes too early.

* `ImplementsRegistry`: the servers together implement `Registry`, one set of accounts with requests that overlap.
  A request is decided by one look at the accounts: a refusal is right when it is given. What was granted is
  carried out later, whatever has happened since, so that a code may be registered twice, but only by requests
  that overlap or after it was deleted. More than that the code does not promise.
* `AskedIsAnswered`: a client that waits for its answer before it asks again is answered every time, or finds
  that the server it was sent to is not there, unless the balancer is gone. One that asks earlier (`eager`) may wait
  for ever, with its request in the buffer behind the other.

An `S_OK` that a failed insert would also be answered with is outside the model: the database does not fail.
Two threads of a server that use its one MYSQL handle at the same instant are undefined, and left out.
Fairness: connections have threads that handle what has come, and queries return.

**Proofs.** `LoginService_proofs.tla` proves `TypeOK` and `ImplementsRegistry` for any servers, clients, codes, clocks
and numbers of messages, from `SiteAssumption` (the balancer is none of the login servers, no widget is an
administrator), `CodeAssumption` and `BoundAssumption`. The accounts are the codes with a row and `query` is the registry's
`decided`; with `TypeOK` alone each step is then one of the registry's: a handler's first half a `Refuse` or a `Grant`
(`HandledStep`), its second half `CarryOut` (`RowAdded`).

## 10. Publishing

`RtmpStream.tla` is `CRtmpChunk` of both ends and the read buffer between them. A stream is a sequence of heads of
chunks, handshake packets and payload in units of the default chunk size; reads may cut it at any item.
`Publish.tla` adds the two `CRtmpConnection`s from the handshake to publish (`ClientHandles`, `ServerHandles`), the
answers with what the AMF decoder keeps of them, the change of chunk size in the middle of the dialogue
(`Resize`: what comes before it is cut by the old size, SetChunkSize itself and what follows by the new one),
`CRtmpPublisher`'s headers and key frames, and `CRtmpPushManager` with its two encoder threads, which
push from their own threads, and `Close`.

A frame may be dropped whole, before the first byte of it is sent, when the write buffer is full (`Dropped`,
`BufferWriter.cpp:15`); the model lets that happen whenever other packets are under way.

Run `publish`: a chunk size of two units, messages of up to three (a frame is cut in two), two frames, closing
at any moment by either side or the manager. `InOrderAndWhole`: what an end handles is a prefix of what was
sent to it. `PublishesOrCloses`: a client that has connected is told that it publishes, or its connection is
closed. `CloseReturns`: closing joins both threads; a thread may find the publisher dropped under it (`Gone`),
which the model shows as the end of the program. `Warm` restricts the threads to clients whose dialogue is over
before the first frame: nothing in the code waits for it, and media that comes earlier makes the server close
the connection. `CHECK_DEADLOCK FALSE`: a closed publisher is done.

**Proofs.** `Publish_proofs.tla` proves `TypeOK` and `InOrderAndWhole` for every chunk size, stream id and number of
frames (`ChunkAssumption`, `StreamAssumption`, `FramesAssumption`), with messages of up to three units, which is all
that the model sends, and with any of the media dropped. `InOrderAndWhole` cannot be proved of the parsers alone: the reader cuts by the size it has been
told, and that is the size the writer used only because of where in the dialogue SetChunkSize stands. So the
invariant `PublishInv` has the whole dialogue in it:

* `Flow`: what is in the buffer and under way to an end is the rest of what was sent to it. `Carries` gives every
  message that has not been handled a position in the stream, one behind the other, the items there being its
  chunks; the parser is amid the first of them, so many units in, at a head or in a body (`ParserAt`). The first
  message to the server and the third to the client change the size: `SizeAt`, the size of the i-th message.
* `Spoken`: the i-th message each end sends is the one the dialogue has there.
* `ClientState`, `ServerState`: state, stream id and chunk size of an end follow from how many messages it has
  handled; `Talking`: how many it has sent, from how many the other has handled; `Hands`: the same of the handshake.

Chunk arithmetic - where in a message of a given length the heads are - is a few lemmas about `CreateChunk` and about
one step of the parser; reads are a lemma of their own (a read moves items from `pipe` to `buf` and does not
change the two together).

Seen while modelling and outside the properties: audio frames may be sent before the audio header, between
`m_bHasKeyFrame` and the header (`RtmpPublisher.cpp:133`); `m_bExit` is never reset, so that a manager opens once.

## 11. Capturing and playing

`Player.tla` has the six threads of a player: the one that opens and closes, the reader of the demuxer, two
decoders, two players, with packets and frames as numbers in queues. FFmpeg may fail, end, keep a frame back or
drop it at each call; a read of the network returns when the server sends or the interrupt callback asks it to.
`Capture.tla` has the five of a client that is controlled: the WASAPI thread, the `AudioBuffer` by the byte, the
GDI thread, the two encoder threads, and `bOpen`/`Close` of the manager with every failure that leaves part of
them unstarted. `Media` is a client of either type.

Run `media`: three packets, four samples of two bytes and a buffer of two samples, one picture. `MediaInOrder`:
frames keep their order; the encoder gets the bytes of samples in the order in which they were captured, and
nothing is missing but what the code drops. `NothingIsFreedInUse`: no
thread uses a context, decoder, buffer or queue entry that another has freed. `MediaCloses`: closing joins every
thread and returns. Fairness: threads go on, and a blocked call returns once it is interrupted; devices and
servers need do nothing.

**Proofs.** `Media_proofs.tla` proves `MediaInOrder` and `NothingIsFreedInUse` for any number of tracks, packets and samples,
any size of buffer and sample (`BufferAssumption`, `SampleCounts`). For the player, everything on its way - played, in the
player's hand, queued frames, inside the decoder, queued packets, in the reader's hand - is one sequence
(`Pipe`), and `PipeInv` says that it ascends and that with what was dropped it is all that was read. Each action moves
one number on along the line or takes one out. It ascends for all pairs, not for neighbours: a number taken out
of the middle leaves two others next to each other. `PInv` is about the threads: who runs has not been
joined (`PlayerJoins`), the reader has its context and decoders (`ReaderHolds`), and who saw a queue that is not empty is
the only one that takes from it (`PopsFind`). For the capture, `CaptureInv` ties the five threads to how far the
manager has come in opening and closing, and `BufferInv` adds that the encoder takes whole samples' worth of bytes,
and that what waits in the buffer is as much when the buffer's size is a multiple of a sample's.

The code does not see to that (`WholeSamples`): 20480 bytes are a multiple for 1, 2, 4 or 8 channels of 16 bits, and not
for the 12 bytes of 6 channels. `SamplesInOrder` therefore says two things: for any size, that the bytes are in order,
none twice and none missing but the end of a sample that was cut and what did not fit; and, if the size is a
multiple, that a sample begins where the encoder takes one to begin. With `BufferSize = 5` in a copy of
`media.cfg` TLC confirms the first; a full buffer then cuts a sample and shifts all that follow. A second `Open`
and a `Close` without an `Open` end the program (`AVPlayer.cpp:97`) and are left out. A decoder that meets a packet
the codec refuses ends, while the reader goes on to fill its queue (`H264Decoder.cpp:102`): the model shows
that, and no property forbids it.

## 12. Left to TLC, and limits

* Proved for every value of the constants: every safety invariant that a passing run checks but `ClientsAreServed`,
  the action properties `ClosedIsFinal`, `LeaveReachesAll` and `RunsOnce`, the refinements `ImplementsDirectory` and
  `ImplementsRegistry`, and that the loop uses the timer queue and the clients the server as these allow. Where a theorem
  has a hypothesis (`OneReactor`, orderly clients) the run has it too.
* Model-checked only: `ClientsAreServed`, the liveness properties (`EmptySessionsGo`, `ClosedAreDestroyed`, `QuitReturns`, `AskedIsAnswered`,
  `PublishesOrCloses`, `CloseReturns`, `WatcherIsTold`, `StopsWhenAlone`, `MediaCloses`), since fairness and ENABLED are out of
  the proof system's reach, and what the code does not keep (`rtmp_locks`, and the properties under that heading),
  which is shown by a counterexample.
* With several reactors the vectors and strings of a `CSigConnection` are touched without a lock. The
  model interleaves whole vector operations and lets a walking loop read any string; the memory errors
  such a race can also cause are not modelled. The same goes for `AddTimer` of another thread and for two threads in one MYSQL handle.
* A `Send` whose write fails closes the receiver inside the sender's handler; the models show that as
  a `Disconnect` at a later time. Signalling messages are whole: a cut one makes `bOnRead` spin
  (`SigConnection.cpp:95`), which is listed as a hazard.
* The relay's connections are destroyed in the step that drops their last reference, on whatever thread;
  the flags of a connection are written without a lock by the sender and by its own reactor, and the
  model takes each write as one step of the action it belongs to.

## 13. Not modelled

* Widgets other than `LoginWidget`, OpenGL, the encoders and the resampler: calls into Qt, OpenGL, WASAPI and
  FFmpeg with no state that another part reads.
* `AudioAndVideo_Codec`: four standalone samples of FFmpeg calls.
* `WinAPI` input (`DoMouseEvent`, `DoKeyEvent`): nothing in the client sends these messages yet, and the handlers
  only call the operating system.
* Chunk formats 1 and 2 and extended time stamps, which neither end writes; the bytes of AMF values.
* The client's `CTcpConnection` and buffers, near copies of the files that `TcpConnection` models.
* A balancer's entry whose connection is gone (a pointer to freed memory), and queries that fail.
