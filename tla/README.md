# chttp2 in TLA+

A model of the chttp2 HTTP/2 client: the protocol engine of one connection, the
runtime that pools connections and answers requests from four kinds of threads,
the worker threads, timers and descriptors it is built on, the octets of frames
and header blocks, and the client facade on top. TLC checks the models
on small instances; TLAPS proves the central results for every value of the
constants. `PROJECT.json` ties every definition to the lines it models.

## 1. The system

| Component | State | Operations | Talks to |
|---|---|---|---|
| `Http2Protocol`, `Stream` | stream map, settings, flow windows, continuation state, flags | `start`, `submitRequest`, `cancelStream`, `sendPing`, `close`, `onTransportClosed`, one handler per frame type | called by `Http2Session`; returns frames and `ProtocolEvent`s |
| `InFlow`, `OutFlow` | window, unsent credit | `take`, `takeInflows`, `add`, `available` | `Http2Protocol` |
| `Http2Session` | protocol, transport, outbound queue, `streamContexts` | `submit`, `cancelRequest`, `onReadable`, `onWritable`, `close` | translates protocol events to `SessionEvent`s |
| `Connection` | `connected`, session, heartbeat timers | `connect`, `registerWithReactor`, `submitOnReactor`, `processSessionEvents`, PING | calls back into `ConnectionManager` |
| `ConnectionManager` | pools, `pendingByEndpoint`, `requestConnections`, `connectingEndpoints`, submit queue, contexts | `sendAsync`, `cancel`, `close`, reactor-thread handlers, connector loop | everything below |
| `RequestContext` | `finished`, `canceled`, timer | `tryFinish`, `cancel`, `invokeCompletion` | shared by all threads |
| `Reactor` | task queue, timers, descriptors, `running` | `post`, `scheduleOnce`, `cancelTimer`, `runLoop`, `stop` | runs everything named `...OnReactor` |
| `CallbackDispatcher` | task queue, `stopRequested` | `post`, `runLoop`, `stop` | runs user callbacks |
| `Client` | the manager | `Send` (synchronous, asynchronous), `Get`, `Post`, `close` | `ConnectionManager`, user callbacks |
| `Hpack`, `HpackTable` | a table per direction with two lookup maps, limits, the smallest size not yet announced | `encode`, `decode`, `setEncodeTableSize` | `Http2Protocol`; the peer's tables |
| `FrameCodec`, frame types, `ByteBuffer`, `ByteSpan` | octets not yet popped | `feed`, `tryPop`, constructors, `toBytes` | `Http2Protocol` |
| `Connector`, `SocketFd`, transports | descriptors, `ready` | `connectDomain`, `connectIp`, `connectUnix`, `init`, `readSome`, `writeSome`, `close` | the connector thread, then `Http2Session` |

A request travels: user thread (`sendAsync`: context, timer, submit queue, post)
-> reactor (`drainSubmitQueue`: pick a connection, wait, or ask the connector for
one) -> session -> protocol -> peer; and back as events of one `onReadable` call,
in order, to `onRequestDone` -> `completeRequest` -> dispatcher -> callback.

What is hard here: five parties may complete the same request; the queues are
shared by threads that stop in sequence; raw `Connection*` are kept beside
objects that are destroyed; events are collected before they are applied; streams
share one send window; a header block outlives its stream; timers that are
already collected cannot be cancelled, and the timer descriptor is set again by
every thread that schedules; descriptor numbers are reused by one thread while
another still holds events for them; octets come and go in pieces; and both ends
of HPACK must keep the same table without ever comparing it. `PROJECT.json` lists these hazards at
their lines, with the properties that would catch them going wrong.

What makes each part correct:

- protocol: every stream gets one verdict; no sendable byte waits without a
  wake-up; windows are neither overdrawn nor drift from what the peer was told;
  every header block reaches the decoder whole;
- runtime: every request is called back exactly once, also across `close()`; no
  dangling pointer; one connection attempt per endpoint; waiting requests are
  retried;
- worker threads: an accepted task runs before `stop()` returns, no lost wake-up;
- heartbeat and timers: it never stops, no handler outlives its connection or its
  cancellation, and the timer descriptor is armed for the first timer;
- client: every call of `Send` returns, a synchronous one when its request has a
  timeout, has ended, or the client is closed;
- HPACK: each end decodes the fields the other end encoded, across evictions and
  changes of size;
- wire: frames arrive whole and in order however the reads fall, octets leave
  whole, in order and in the end all;
- sockets: a handler is only called for its own connection's socket, no
  descriptor leaks or is closed twice, connecting keeps to its deadline.

## 2. Modules

| Module | What it is |
|---|---|
| `Flow` | the windows, as operators |
| `Http2Protocol` | the protocol engine; extends `Flow` |
| `MCProtocol` | its inputs for TLC |
| `Http2Protocol_proofs` | its theorems |
| `ConnectionManager` | manager, contexts, connections and sessions, all threads |
| `MCManager` | its instances for TLC |
| `ConnectionManager_proofs` | its theorems |
| `TaskRunner` | abstract: what clients expect of a queue with a worker |
| `CallbackDispatcher`, `Reactor` | the two implementations of `TaskRunner` |
| `Threads` | composition of the two, as `ConnectionManager` uses them |
| `Client` | the facade and its callbacks; extends `Threads` |
| `MCClient` | its instances for TLC |
| `Client_proofs` | the refinement of `TaskRunner` by both queues, and theorems about the composition |
| `DataLemmas` | lemmas on queues, on numbers and on induction over loops, for the other proofs |
| `Heartbeat` | PING timers of one connection |
| `Timers` | the reactor's timer queue and timerfd, as operators |
| `TimedHeartbeat` | composition of the two with a request's timeout and a clock; extends `Heartbeat` |
| `Heartbeat_proofs` | theorems about `Heartbeat` and `TimedHeartbeat` |
| `HpackTable` | the dynamic table, as operators |
| `Hpack`, `MCHpack` | encoder and decoder, each with an RFC 7541 peer |
| `Hpack_proofs` | its theorems |
| `Frames` | frames as octets, as operators |
| `Wire`, `MCWire` | one session's octets between the peer and the protocol engine; extends `Frames` |
| `Wire_proofs` | theorems about `Wire`, with lemmas about `Frames` |
| `Sockets`, `Sockets_proofs` | descriptors, epoll and the connector thread; theorems |

Definitions keep the source's names. Definitions marked "Faulty variant" are not
part of the specifications: each is a plausible bug, and the property it is
paired with in `PROJECT.json` is violated when it takes the place of the
definition below it.

### Http2Protocol

Variables correspond to members: `conn` (flags, continuation state, error),
`settings`, `connIn`, `connOut`, `live` (keys of `streams`), `streams`, `pings`.
`events` and `peer` are history: the terminal events reported per stream, and the
connection as a peer that keeps to RFC 9113 sees it (its send windows, the
fragments of its current header block, whether every block reached the decoder).
`loop` is the position of the two handlers that flush all streams in the
unspecified order of an `unordered_map`. In each stream, `opened` is history too:
the size its receive window was opened with. One API call or frame is one action;
the flush loops take one step per stream and exclude everything else. Erasing
during the iteration in `processSettingFrame` is undefined behaviour: the model
continues, ends the loop early or dies (`FlushOne`).

Data abstraction: bytes are counted; a request is its method, validity, body
length and encoded header length; a decoded header block is its list size, its
status class, its content-length and two Booleans (decodable, well formed).
MAX_FRAME_SIZE chunking of DATA does not show: a body's progress is the sum.

### ConnectionManager

The reactor thread is `rx`: what it is doing, the queue it iterates over
(`local`), the connection it handles and the events it still has to apply. Each
iteration of its loops is a step, and in the submission loops the test of
`isCanceled` and the submission are two, because a user may cancel in between.
User threads take the steps of `sendAsync` and of `cancel` separately. `Faults`
selects what may go wrong in an instance; "eof" is an end of file that is the
first thing read, "late eof" one after data in the same `onReadable` call, "race"
the user thread inside `handleCancelOnReactor` while the reactor is draining.

`completeRequest` has two halves, `tryFinish` with the removal of the context, and
`invokeCompletion`. On the reactor thread they are one step, because `close()`
joins that thread before it looks at the contexts, and whoever meets a finished
request leaves it alone. On any other thread (`sendAsync` and `cancel` whose post
was refused, `close()`) they are two, and `completing` says who is between them: a
user's thread may be held up there while `close()` goes by. The fault "handshake"
is a peer that falls silent in the TLS handshake, in which
`TlsStreamTransport::init` asks the socket without end; the connector then need
never come back.

Abstractions: `close()` is called once and after the first `sendAsync` has started
the threads; each request is sent by a thread of its own. `SESSION_CLOSING` only logs, so only
`goingAway` is kept. Session events are the set of finished requests and a flag:
`REQUEST_DONE`s of one call commute, `SESSION_DEAD` comes last.

### Reactor, CallbackDispatcher, Threads

Each critical section is a step, and so are the notifications outside of it.
`Threads` drives both as `completeRequest`, `sendAsync` and `close()` do. The task
posted for a request (`drainSubmitQueue`) only hands it to a session. The request
ends in a step of its own (`answer`), which the reactor thread takes while it
handles events, timers or tasks, and which may never come: `finisher` is the
thread that won `tryFinish`. `close()` ends what is left, one context after the
other (`failAllContexts`, `failContext`, `nextContext`). The reactor thread is
inside `CallbackDispatcher::post` until its notification is sent (`Returned`).

### Heartbeat

Every timer of one connection, with `fireDueTimers` collecting any non-empty set
of due timers before it calls the first handler. `sendPing` yields no events.

### Timers, TimedHeartbeat

`Timers` is the queue of the reactor in the order in which it will be popped,
with the cancellation flag beside each timer, and the timerfd: disarmed, armed
for some time, or readable. `armNextTimerLocked` drops cancelled timers in front
and arms for the first one, for a millisecond at least. `TimedHeartbeat` runs the
actions of `Heartbeat` on it: what a handler does to the connection's set of
timers is carried over to the queue (`Carried`), and `TimersArmed` says that the
two agree. The reactor thread is in `epoll_wait`, has drained the timerfd, or is
calling handlers; another thread's request timer is scheduled and cancelled at
any of these points (`requestTimer`, `requestCanceled`), and still others only
set the timerfd again (`otherRequests`), which is all they do to the timers in
front of theirs.

### Client

A call of `Send` refuses an invalid request on the spot, or goes through
`sendAsync` (the steps of `Threads`) and, if synchronous, waits for the future
its callback sets. A callback ends when every `Send` it makes has returned; it runs
on the dispatcher thread, or where `completeRequest` stood when the dispatcher
takes no more. `Timed` are the requests with a timeout; by default there is none
(`timeoutMs` is -1). Contexts, timers and cancellation are in `ConnectionManager`.

### HpackTable, Hpack

The table keeps its entries oldest first, ids that only grow, and two maps from a
name and from a pair to the last id. An instruction is the octets of its flag and
prefix integer, and its strings, which are model values with a length. The peer
is the RFC itself: a sequence of entries, newest first, with the rules of
sections 2.3.3, 4.2, 4.3, 5.1 and 6, and the duty to announce a lowered size. Each
behaviour exercises one half: blocks this client encodes and the peer reads, or
blocks the peer puts together, right or wrong, and this client decodes. A block
the peer leaves a due size update out of is not held against the decoder
(RFC 9113 4.3.1 would allow it to insist; it does not). The encoder indexes a
field only if it fits without eviction, so its table fills once; and it follows
whatever size the peer announces without a limit of its own.

### Frames, Wire

An octet is a digit in base `Octet`. The ten frame types share one layout:
integers of fixed widths, then data, the whole padded or not. The peer's frames
(`PeerFrames`, `Layout`, `Conforming`) are those of RFC 9113 and know nothing of the
code; they include frames of a wrong size and with a wrong pad length. `Wire` holds one
session: the codec's buffer, the outbound queue of chunks with offsets, the
connection's flags and the write interest. A read event takes any number of
octets off the peer's script, in reads of `ReadSize`, and ends with "would
block", end of file or an error; a write event takes some of the octets (`Takes`), all
of them, or fails. What the engine makes of a frame is in `Http2Protocol`; here only what
it queues in answer. `GOAWAY` is queued and never leaves: `close()` clears the
queue, and after a connection error the session is no longer written.

### Sockets

`open` is the process's descriptor table, from which the lowest free number is
taken; `epoll` and `fdContexts` are the reactor's two views of it. The connector
thread goes through the addresses of a name; the reactor thread waits, handles
the batch, then the posted tasks. A socket has an identity of its own, so that a
handler called for the wrong one can be told. `connectIp` and `connectUnix` are
the case of one address. A lookup and a TLS handshake take time, succeed or fail.

## 3. Runs

| Run | Instance | Shows |
|---|---|---|
| `upload` | 2 streams, bodies of 3 bytes, windows of 2, responses of up to 2, int32 max 4, SETTINGS 0 and 3 | `TypeOK`, `WindowsBounded`, `StreamTableOK`, `NothingSendableLeft`, `OneVerdict`, `GoneForGood` |
| `download` | 2 responses of up to 3 bytes, refresh at 2 | `ConformingPeerNotBlamed` |
| `headers` | blocks of up to 3 fragments, 10 kinds of block | `HeaderBlockKept`, `HpackInSync` |
| `runtime` | 2 timed requests, 2 connections, 9 faults, close | `OneCallback`, `ClosedAnswersAll`, `NotForgotten`, `PointersValid`, `InFlightFound`, `OneAttempt` |
| `answered` | 2 requests, late end of file, write failure, refusal, a silent TLS handshake, close; fair | `TimedAnswered`, `CancelAnswered`, `CloseReturns` |
| `client` | 4 requests: one synchronous with a timeout, then three each sent by the callback of the one before, the last one invalid; close; fair | both promises, `ReactorNotBlocked`, `EveryHandOver`, `CloseReturns`, `SendsReturn` |
| `heartbeat` | 1 request timer, other requests, a clock; fair | `TimersKnown`, `HeartBeats`, `NoLateHandler`, `TimersArmed`, `CanceledNeverRuns`, `IdleSilenceNoticed`, `RequestTimesOut` |
| `hpack` | dynamic tables of 0 to 4 entries, sizes 0 to 200, blocks of up to 2 instructions | `PeerUnderstands`, `DecoderConforms`, `LookupsSound` |
| `wire` | scripts of frames of every type, cut anywhere; fair writing | `FramesIntact`, `OctetsInOrder`, `EverythingWritten` |
| `sockets` | 3 connections, 2 numbers, 2 addresses, a signal | `HandlerOwnsSocket`, `DescriptorsOwned`, `ConnectBounded` |

What three of these properties leave open, because the code does:

- `ClosedAnswersAll` excepts a request that a `cancel()` still running on a user's
  thread has finished. `failAllContexts` passes over it, and its callback runs
  after `close()`, before that `cancel()` returns.
- `CloseReturns` of `ConnectionManager` has the premise that the connector does not
  stay in an attempt for ever; in a TLS handshake with a silent peer it does, and
  the first join of `close()` with it. `CloseReturns` of `Threads` begins after
  that join.
- `SendsReturn` asks nothing of a synchronous `Send` without a timeout whose peer is
  silent, until `close()` is called. `EveryHandOver` is about what one thread hands
  to another, and not about the peer's answer.

Two runs show where the code departs from what its comments or tests say:

| Run | Property | Disagreement |
|---|---|---|
| `settings_flush` | `FlushDefined` | SETTINGS erases from the map it iterates over |
| `late_eof` | `NotForgotten` | a response followed by end of file in one read is lost |

Further instances, kept as configurations to run by hand:

| Configuration | Property | Result |
|---|---|---|
| `endstream_lost.cfg` | `RequestEnded` | violated: a bodyless request with a long header block never sends END_STREAM (the tests expect "GET request emits HEADERS with END_STREAM", `src/test/src/http2_protocol_test.cpp:2912`) |
| `hpack_skipped.cfg` | `HpackInSync` | violated: HEADERS after END_STREAM are not decoded, which `src/include/chttp2/http2_protocol.hpp:175` says every block must be |
| `stranded.cfg` | `PendingServed` | violated: parked requests ("queue for retry", `src/src/connection_manager.cpp:313`) are not retried after the connection is lost |
| `retry.cfg` | `PendingServed` | holds when only connection attempts fail (three requests, two endpoints) |
| `window_leak.cfg` | `ConnectionWindowReturned` | violated: refused DATA is never returned to the peer's connection window |
| `peer_window.cfg` | `ConformingPeerNotBlamed` | violated: the peer's INITIAL_WINDOW_SIZE sizes the client's receive windows |
| `config_window.cfg` | `ConformingPeerNotBlamed` | violated: a configured window below 65535 is applied to the connection |
| `zero_length.cfg` | `ConformingPeerNotBlamed` | violated: an empty DATA frame for a removed stream on an exhausted window |
| `refused.cfg` | `NotForgotten` | violated: a request the protocol refuses is never answered |
| `late_eof.cfg` with `Faults = {"write"}` | `NotForgotten` | violated: a write error drops the events of the failure |
| `draining.cfg` | `DrainedPruned` | violated: drained connections stay in the pool |
| `cancel_race.cfg` | `NoCrash` | violated: cancel during close touches the reactor's containers |
| `silent_peer.cfg` | `SilenceNoticed` | violated: no PING is sent while a stream is active |
| `busy_timers.cfg` | `IdleSilenceNoticed` | violated: requests that schedule or cancel a timer within every millisecond keep the timerfd from ever firing |
| `sync_callback.cfg` | `SendsReturn` | violated: a synchronous `Send` inside a callback waits for its own thread |
| `full_padding.cfg` | `FramesIntact` | violated: `validatePaddedPayload` refuses padding that fills the rest of a frame; the tests speak of "padding > remaining" |
| `dns_timeout.cfg` | `TimeoutCoversLookup` | violated: `src/include/chttp2/client_config.hpp:12` promises a timeout "covering DNS + TCP handshake"; the lookup precedes the deadline |
| `haunted_fd.cfg` | `NumberNotHaunted` | violated: after a write error the closed descriptor keeps its context, and a new connection with the same number cannot be registered until the old one's PING times out |

`MCProtocol`, `MCManager`, `MCClient`, `MCWire`, `TimedHeartbeat`, `Heartbeat`
(`silent_peer.cfg`) and `Sockets` are the modules of these configurations.

### Bounds

`Int32Max`, `MinRefresh`, `DefaultWindow` and the frame sizes are scaled down so
that refresh, exhaustion, overflow and negative windows all happen within a few
frames; the code uses the constants in comparisons and sums only. Two streams are
enough for every property that relates streams: they are about one stream, or a
stream and the window it shares. `MaxBlock`, `MaxResponse` and `MaxPings` cap
what a peer or user repeats. Two requests on one or two connections cover every
pair of racing completions; a connection limit of one makes the second request
wait; `MaxConns` bounds connection attempts that succeed (later ones fail).
Deadlock is checked for the protocol engine. It is not for the runtime, the
client, the heartbeat, HPACK, the wire and the sockets: they end when every
request is answered, the connection is gone, a block is refused, everything has
been read or the client is closed.

`heartbeat` counts time in a unit of half a millisecond; delays of one to four
units make timers fall due together, in either order, and while the
thread is between two steps. `hpack` keeps the length of the static table,
61, so that the first dynamic indices lie on both sides of the limit of a 6-bit
prefix, but few different entries; dynamic tables hold up to a few fields, and
the sizes make none, one or more of them fit. In `wire` an
octet has fewer than 256 values so that TLC's integers hold four of them; the
code shifts and masks, which is arithmetic in that base. Its scripts have two to
four frames, enough for a frame to begin, span and end in different reads.
`sockets` has fewer numbers than connections, so that every number is reused, and
more time than one address may take.

The `download` run keeps to the configurations in which a conforming peer is not
blamed (`ConfigWindow` at least `DefaultWindow`, INITIAL_WINDOW_SIZE left alone);
the instances above drop each of these in turn. In the same way `runtime` leaves
out the two faults "late eof" and "write", and `headers` has no
request bodies, without which `hpack_skipped` cannot happen.

### Fairness

`answered`: every thread goes on with what it has begun (weak fairness). Posted
tasks and due timers get strong fairness, because each round of
`Reactor::runLoop` drains the tasks and the timer descriptor fires among the
sockets, so a busy socket cannot postpone them forever. A read loop ends because
the socket has nothing more to read. A connection attempt ends
(`connectTimeoutMs`) unless the fault "handshake" is among `Faults`, as it is in this
run: then the connector may hang, and the requests are answered all the same.
Nothing is assumed of peers: responses, SETTINGS and failures may never come.
Nobody has to send, cancel or close.

`client`: weak fairness of each thread's own steps, of a call of `Send` and of a
callback; the timer of a request fires, and its handler comes to the request
(strong, because the thread may be busy with others each time). No socket has to
become readable and no request without a timeout has to end, so a lost wake-up
would be seen.

`heartbeat`: time passes and the reactor thread goes on (weak). The registration
is a posted task, and a readable timerfd is seen when it is readable again and
again (strong): this is what `otherRequests` could prevent, so they leave a
`Pause` between two calls. The peer may fall silent and no stream has to end.

`wire`: as long as EPOLLOUT is on and the peer reads, everything queued is
written (weak fairness of `WriteAll`); EPOLLOUT is level-triggered. Nothing is
assumed of the peer's sending.

## 4. Proofs

Every theorem holds for all constants that satisfy the assumptions of its module,
which are the types of the parameters and little more. Each inductive invariant
was first checked by TLC on the instances named below.

### Http2Protocol_proofs

`Spec => []IInv` under `FlowAssumption` and `ProtocolAssumption`: any windows,
limits, number of streams, requests and peer frames. `IInv` conjoins the type
invariant, `StreamTableOK`, `WindowsBounded`, `HeaderBlockKept`, `OneVerdict` and
two strengthenings: stream ids are odd, and `LoopOK`. `LoopOK` is what makes
`NothingSendableLeft` inductive: while a flush loop runs, the streams already
visited have nothing sendable, and visiting another one only closes the shared
window further; at the end of the loop every stream has been visited. The
conjuncts lean on each other: `WindowsBounded` rules out the overflow branch of
`InFlow::add`; the state of a stream (`StreamTableOK`) gives its events
(`OneVerdict`); `HeaderBlockKept` needs that a stream inside a header block was
not ended by the peer. From `IInv` follow the theorems `TypeCorrect`,
`StreamTableCorrect`, `NoLostWakeup`, `VerdictCorrect`, `WindowsCorrect`,
`HeaderBlocksKept` and, as an action property, `GoneStreamsStayGone`.

Two more theorems have hypotheses, because the code keeps the promise only under
them; the configurations of section 3 violate each in turn.

- `TablesAgree` (`HpackInSync`), for requests without a body whose headers fit
  into one frame. Then every stream in the map has sent its END_STREAM, so the
  peer's removes it, and the one handler that skips a header block, HEADERS on a
  stream the peer has ended, is never reached (`SyncInv`). Uploads:
  `hpack_skipped.cfg`.
- `PeerNotBlamed` (`ConformingPeerNotBlamed`), if `ConfigWindow` is at least
  `DefaultWindow` (`config_window.cfg`), larger if the peer may send empty DATA
  frames (`zero_length.cfg`), and no SETTINGS announces a smaller window than
  `ConfigWindow` (`peer_window.cfg`). The invariant (`PeerInv`) relates both ends
  of every window: as long as the peer has not overrun one, the receiver's side of
  the connection window is ahead of the sender's by `ConfigWindow -
  DefaultWindow`, and that of each stream is not behind it. A refresh moves both
  sides by the same amount; DATA the stream-level checks refuse moves only the
  sender's.

### ConnectionManager_proofs

`ManagerInvariant` is for any number of requests, endpoints and connections, any
limits and any set of faults. Beside the types it has four groups of conjuncts.

- `Callbacks`: a request is called back once and only when `finished` is set;
  `contexts` holds exactly the requests sent and not finished; how far `close()`
  has come says which threads have ended, which queues are empty, and who may still be
  between the halves of a completion. This gives `CalledBackOnce` and
  `CloseAnswersAll`.
- `Posted`: an established connection is handed to the reactor once; only a
  request marked as cancelled is on its way to `handleCancelOnReactor`; a drain is
  posted for what `sendAsync` has left in the submit queue.
- `Pool`: what the reactor thread holds in each of its loops, that a session that
  is not healthy has no streams, and that every pointer in `requestConnections` or
  held by a loop is to a connection that exists. This gives `NoDanglingConnection`.
- `Places`: the queues have no duplicates, a request is in one place at a time
  (submit queue, a loop's queue, `pendingByEndpoint`, a session, the events not yet
  applied), one with a stream is found by `requestConnections`, a finished one
  still in a queue was cancelled, and an unfinished one is somewhere. This gives
  `StreamsCanBeReset` and `NoRequestForgotten`.

`NoRequestForgotten` assumes that neither of the faults "late eof" and "write"
happens and that the protocol refuses nothing; `late_eof.cfg`, with either fault,
and `refused.cfg` violate `NotForgotten`.

`OneAttemptAtATime` rests on a second invariant relative to the first. `OneLane`
says of each endpoint that an attempt waits for the connector, is being made or
waits to be reported, no two of these together; that `connectingEndpoints` knows
of it; and that meanwhile no connection of the endpoint accepts requests. The
count that `OneAttempt` bounds is derived from it only at the end.

Both invariants were checked on the instance of `runtime` (1 033 610 states) and
on one with two endpoints and all faults (6 444 586 states). `ManagerAssumption`
asks for at least one endpoint, without which there are no requests.

### Client_proofs

The first part (`ReactorKeepsPromise`, `DispatcherKeepsPromise`) proves that each
queue implements `TaskRunner` for any set of tasks and any environment. The
invariant says that an accepted task is in exactly one place (queued, popped or
run) and that the worker leaves only with an empty queue and the door shut; so
what `stop()` throws away is empty.

In the second part the two are the queues of one client, whose environment is no
longer arbitrary, and the lemmas of the first part hold of them: the reactor
thread posts to the dispatcher when a request ends, users send from their threads
and from callbacks, `close()` stops the two one after the other. Two conjuncts are
added.
`StopOrder`: the dispatcher is started before the reactor and takes callbacks until
the reactor thread is joined. `Ended`: only a request `sendAsync` has registered
ends, only one that has ended is handed to the dispatcher, and those the reactor
thread has ended are not refused there. From these follow `ReactorStaysFree`,
`NoSecondCallback`, and both promises as properties of the composition. The
invariant was checked on the instance of `client` (61 554 states) and on one with
two user threads (824 506 states).

### Sockets_proofs

`SocketsInvariant` is for any number of connections, addresses and descriptor
numbers and any time limits: one connection is being made at a time; a number is
open exactly while the state of its connection says so, and then by one owner;
a context belongs to the registered connection of its number; an event still to be
handled is of the socket whose context it will find, if it finds one; a connection
handed over is in the task queue once; and (`TimeLeft`) what is spent and what
remains of the connect timeout fit into it. From it follow `EventsReachTheirOwner`, `DescriptorsStayOwned` and
`ConnectingEnds`. It was checked on the instance of `sockets` (2 385 745 states).

### Heartbeat_proofs

`TimersKnown`, `HeartBeats` and `NoLateHandler` for all intervals and stream
numbers; the invariant (`IInv`) adds that the armed timers follow `pendingPing`.

The second part is about `TimedHeartbeat`, for any intervals and any unit of
time. `TimedInv` adds to `IInv`

- `QueueInv`: the queue is sorted by due times, no id is in it twice, none is both
  in the queue and among the timers collected to be called;
- `ServiceInv`: the connection's `timers` are the timers of the queue that are not
  cancelled and call its handlers, and `due` those collected; the request's timer
  is where `request` says; and unless the thread is on its way to arm it, the
  timerfd fires no later than any timer that waits.

From it follow `TimersAlwaysArmed` (`TimersArmed`) and `CanceledHandlerNeverRuns`
(`CanceledNeverRuns`). `TimedImplementsHeartbeat` (`TimedSpec => Spec`) shows that
every step on the queue is a step of `Heartbeat` or leaves it unchanged, with an id
the counter has not given out; so the safety of `Heartbeat` carries over
(`TimedHeartbeatSafe`). The lemmas say what `push`, `cancelTimer`,
`armNextTimerLocked` and `collect` do to the set of timers in the queue.

### Hpack_proofs

`EncoderUnderstood` (`PeerUnderstands`), `DecoderFollows` (`DecoderConforms`) and
`TablesSound` (`LookupsSound`) for any static table, any header fields and any
sizes; the assumptions are that the integers in use fit into `MaxGroups` groups of
a prefix integer, and that no static entry is sensitive. The conjuncts of `HpackInv`:

- `TableSound`, for both tables: `bytes` is the size of the entries and no more
  than `max`; the maps lead from a name, and from a pair, to the last entry that
  has it and that is still there (an id below the oldest one stands for none);
- `Encoding`: the peer's table shows the encoder's entries, newest first; after
  `setEncodeTableSize` the encoder's is ahead by exactly the cut to the smallest
  size since, which the peer insists on hearing of, so `encodeMinSize` and the
  peer's `due` agree;
- `Decoding`: as long as the peer has kept to the RFC, the decoder's table is at
  least as large as the peer's and begins with the same entries, or the peer's is
  over the limit and both are empty until it says so; if the limit was never
  raised above the initial size, the two tables are the same (`Alike`).

Within a block the same holds instruction by instruction (`Writing`, `Reading`).
Beneath that: prefix integers are read back as written (`encodeVInt` followed by
`decodeVInt`, also with padding groups), what an instruction means is what the peer
reads, `evict` keeps what `Trim` keeps, and a field found by `find` means the
field looked up. A block is followed up to the first instruction the peer's RFC
refuses; after that only the decoder's refusal matters, and once it has refused a
block the connection ends.

### Wire_proofs

For any `Octet` that is even and more than the largest flag, any read size, frame
limit, preface, settings, header block and set of scripts. The invariant was checked
on the instance of `wire` (95 267 states).

`OutputInOrder` (`OctetsInOrder`): `OutInv` says of the session that the octets taken
by the transport and those left in the chunks of the queue are, put together, the
octets emitted. The induction is over the queue: `advance` pops the chunks that end
within the octets written and moves the offset of the next one, and what is left is
what was there without its first `n` octets (`Advanced`), for any queue, any offsets
and any `n`. A session that has failed has lost its queue; then only the prefix is
left. That what a write blocked with is offered again needs that only the write
handler touches the front of the queue.

`InputIntact` (`FramesIntact`): `InInv` adds where the engine is in the peer's script.
For some `k`, the first `k` frames have been given to the engine and were acceptable,
and the buffer and what has not been read are the octets of the script from frame
`k + 1` on, of which the buffer does not hold a whole one; or frame `k + 1` ended the
session. `FramesIntact`, which speaks of the octets read and not of the buffer, follows
by counting (`ParsedWhole`). The steps it rests on are about the operators: `decode`
gets back the header that was laid out, whatever the reserved bit (`DecodeLayout`);
`tryPop` takes exactly the frame in front, and not before its last octet is there
(`PopLayout`); the constructors take apart what was put together (`TypedIs`, for all
ten layouts at once); the handlers' size checks are those of RFC 9113 (`ConformIs`); and
the reads of `onReadable` leave nothing out (`ReadsCut` and its like).

`InputIntact` has the hypothesis that no frame of a script is padded with nothing
beside its padding: `validatePaddedPayload` refuses such a frame although it is legal,
which is what `full_padding.cfg` shows. Without it `ConformIs` is false.

### Loops

Operators over sequences are loops, written as recursive functions. What a loop
computes is proved by induction over its rounds, which the provers have no rule
for: `DataLemmas` derives it (`LoopInduction`) from the well-foundedness of `<`
on `Nat`, as the absence of a least round that fails. That a recursive function
exists at all is proved in the same way (`BytesDefined` and its like).

### Only model-checked

All liveness properties (`TimedAnswered`, `CancelAnswered`, `CloseReturns`,
`EveryHandOver`, `SendsReturn`, `IdleSilenceNoticed`, `RequestTimesOut`,
`EverythingWritten`): fairness and ENABLED are outside the prover. Every safety
property of a passing run is proved.

## 5. What the results say

Within the models, and for every number of requests, connections and endpoints, a
request is answered at most once, and `close()` answers everything that was sent,
whatever races, unless a `cancel()` on a user's thread is just about to; no
callback blocks the reactor; window arithmetic, stream states and header-block
handling are right for all parameters; and descriptors are never mixed up, because
connections are registered only after the batch of events. HPACK keeps both ends'
tables equal for all sizes and fields, and the timer queue does what the heartbeat
asks of it. Frames survive any fragmentation into reads and writes.
The gaps are at the seams: events dropped together with a failing transport (and the
descriptor's context left behind with them), waiting requests whose retry depends
on a connection that is gone, a header block that skips the decoder, settings of
one direction applied to the other, timers that any thread's call postpones, and
a connect timeout that covers neither the lookup nor the TLS handshake, which
spins on `SSL_do_handshake` and can hold up `close()` for ever.

Three more observations, in the models but not stated as properties. A connection
error followed by end of file in one `onReadable` call drops `SESSION_DEAD`: the
connection stays `connected` and registered, and the level-triggered end of file
wakes the reactor over and over. `tryPop` buffers a whole payload, up to 16 MB,
before its size is checked. MAX_CONCURRENT_STREAMS = 0 refuses every request,
while the member's comment says 0 means no limit
(`src/include/chttp2/http2_protocol.hpp:136`).

## 6. Plan

Done: `Flow`, `Http2Protocol`, `ConnectionManager`, the worker threads, `Client`,
`Heartbeat` and `TimedHeartbeat`, `Hpack`, `Wire`, `Sockets`, and proofs of the
safety properties of all of them.

Next, in this order:

1. an abstract `ProtocolContract` (what a session may be told about a stream),
   with `Http2Protocol` shown to implement it and `ConnectionManager` built on it;
2. response header validation field by field.

## 7. Not modelled

Huffman coding and the octets of strings (a pure function of one string); the
steps inside OpenSSL and the socket options; growth and bounds checks of buffers;
the construction of endpoints and wire requests in `Client`; logging, tools,
examples and benchmarks; the Windows `select` loop and kqueue's own timers, which
replace parts of the Linux reactor modelled here; `close()` before the threads are
started, on two threads at once or from a callback; failure of `epoll_wait`, the
wake-up descriptor's number after `stop()`; memory exhaustion and exceptions
thrown by user callbacks.
