---------------------------- MODULE Http2Protocol ----------------------------
(***************************************************************************)
(* The client side of one HTTP/2 connection: class Http2Protocol           *)
(* (src/http2_protocol.cpp) with the Stream objects it owns.  The class is *)
(* a sequential state machine: every call of its API and every frame the   *)
(* peer sends is one action.  The two handlers that flush the request      *)
(* bodies of all streams in the order of an unordered_map (SETTINGS and    *)
(* connection-level WINDOW_UPDATE) take one step per stream (FlushOne) and *)
(* nothing else happens until they are done.                               *)
(*                                                                         *)
(* Bytes are counted, not represented.  A header block is known by its     *)
(* size and by what decoding and validating it yields (Blocks).            *)
(***************************************************************************)
EXTENDS Flow, Sequences, FiniteSets

CONSTANTS
    MaxStreamId,     \* 0x7fffffff - 1: the last stream id submitRequest hands out
    DefaultWindow,   \* the 65535 bytes both windows of a connection start with
    DefaultFrame,    \* default and smallest legal MAX_FRAME_SIZE
    MaxFrame,        \* largest legal MAX_FRAME_SIZE
    ConfigWindow,    \* ClientConfig::initialWindowSize
    ConfigStreams,   \* ClientConfig::maxConcurrentStreams
    ConfigHeaderList,\* ClientConfig::maxHeaderListSize, 0 = no limit
    Requests,        \* requests the session may submit
    PeerIds,         \* stream ids the peer may name in a frame
    Lens,            \* payload lengths of the peer's DATA frames
    Fragments,       \* sizes of the peer's header block fragments
    Blocks,          \* decoded header blocks the peer may send
    Increments,      \* increments of the peer's WINDOW_UPDATE frames
    PeerSettings,    \* parameter lists of the peer's SETTINGS frames
    MaxBlock,        \* bound: bytes of a header block before its last frame
    MaxResponse,     \* bound: bytes of one response body
    MaxPings         \* bound: keepalive PINGs sent

Keep == -1  \* a parameter a SETTINGS frame does not mention

Methods   == {"GET", "HEAD", "CONNECT"}
Statuses  == {"none", "1xx", "101", "final", "nobody"}  \* nobody: 204 and 304
Malformed == -2  \* a content-length that does not parse
NoLength  == -1  \* no content-length

ASSUME ProtocolAssumption ==
    /\ MaxStreamId \in Nat \ {0}
    /\ DefaultWindow \in 1 .. Int32Max
    /\ ConfigWindow \in 1 .. Int32Max
    /\ DefaultFrame \in Nat \ {0} /\ MaxFrame \in Nat /\ DefaultFrame <= MaxFrame
    /\ ConfigStreams \in Nat /\ ConfigHeaderList \in Nat
    /\ Requests \subseteq [method : Methods, valid : BOOLEAN, body : Nat, hdr : Nat]
    /\ PeerIds \subseteq Nat \ {0}
    /\ Lens \subseteq Nat /\ Fragments \subseteq Nat
    /\ Blocks \subseteq [hpack : BOOLEAN, list : Nat, valid : BOOLEAN,
                         status : Statuses, cl : Int]
    /\ Increments \subseteq 0 .. Int32Max
    /\ PeerSettings \subseteq [streams : Nat \cup {Keep}, window : Nat \cup {Keep},
                               frame : Nat \cup {Keep}, list : Nat \cup {Keep},
                               push : BOOLEAN]
    /\ MaxBlock \in Nat /\ MaxResponse \in Nat /\ MaxPings \in Nat

StreamIds == {i \in 1 .. MaxStreamId : i % 2 = 1}

VARIABLES
    conn,      \* flags, continuation state and error of the connection
    settings,  \* maxConcurrentStreams, maxFrameSize, initialWindowSize, maxHeaderListSize
    connIn,    \* connectionInflow
    connOut,   \* connectionOutFlow.window
    live,      \* keys of the map `streams`
    streams,   \* the Stream objects, NoStream for ids outside `live`
    loop,      \* the flush loop in progress and the streams it still has to visit
    pings,     \* pingCounter
    events,    \* history: terminal ProtocolEvents reported per stream, in order
    peer       \* history: the connection as a peer that keeps to RFC 9113 sees it

vars == <<conn, settings, connIn, connOut, live, streams, loop, pings, events, peer>>

StreamStates == {"IDLE", "OPEN", "HALF_CLOSED_LOCAL", "HALF_CLOSED_REMOTE", "CLOSED"}

NoStream ==
    [state |-> "IDLE", localEnd |-> FALSE, remoteEnd |-> FALSE,
     waiting |-> FALSE, pendingEnd |-> FALSE, pendingHdr |-> 0,
     finalHdrs |-> FALSE, noBodyStatus |-> FALSE, method |-> "GET",
     body |-> 0, offset |-> 0, expected |-> NoLength, received |-> 0,
     in |-> InFlowInit(0), opened |-> 0, out |-> 0]

StreamType ==
    [state : StreamStates, localEnd : BOOLEAN, remoteEnd : BOOLEAN,
     waiting : BOOLEAN, pendingEnd : BOOLEAN, pendingHdr : Nat,
     finalHdrs : BOOLEAN, noBodyStatus : BOOLEAN, method : Methods,
     body : Nat, offset : Nat, expected : Int, received : Nat,
     in : InFlows,
     opened : 0 .. Int32Max,  \* history: the size `in` was opened with
     out : Int32Min .. Int32Max]

ErrorCodes == {"NO_ERROR", "PROTOCOL_ERROR", "FLOW_CONTROL_ERROR",
               "FRAME_SIZE_ERROR", "COMPRESSION_ERROR", "ENHANCE_YOUR_CALM"}

\* errorDebugData: why the connection was failed
Causes == {"", "order", "size", "malformed", "not opened", "old stream DATA",
           "flow control exceeded", "HPACK decode error", "HPACK decode failed",
           "header block", "unexpected CONTINUATION", "idle stream",
           "invalid peer settings", "connection window overflow"}

Terminal == {"RESPONSE_COMPLETED", "STREAM_CLOSED", "RESPONSE_FAILED"}

Idle == [kind |-> "none", todo |-> {}, undefined |-> FALSE]
-----------------------------------------------------------------------------
Init ==
    /\ conn = [started |-> FALSE, closed |-> FALSE, transportClosed |-> FALSE,
               sentGoaway |-> FALSE, receivedGoaway |-> FALSE,
               gotPeerSettings |-> FALSE, expecting |-> FALSE,
               continuationId |-> 0, ghost |-> 0, nextId |-> 1,
               error |-> "NO_ERROR", debug |-> ""]
    /\ settings = [streams |-> ConfigStreams, frame |-> DefaultFrame,
                   window |-> ConfigWindow, list |-> ConfigHeaderList]
    /\ connIn = InFlowInit(ConfigWindow)
    /\ connOut = DefaultWindow
    /\ live = {}
    /\ streams = [s \in StreamIds |-> NoStream]
    /\ loop = Idle
    /\ pings = 0
    /\ events = [s \in StreamIds |-> <<>>]
    /\ peer = [window |-> DefaultWindow, streams |-> [s \in StreamIds |-> ConfigWindow],
               overran |-> FALSE, block |-> 0, inSync |-> TRUE]
-----------------------------------------------------------------------------
(***************************************************************************)
(* What a step does to one stream: the Stream object afterwards (erased    *)
(* from the map when it is CLOSED) and the terminal events reported.       *)
(***************************************************************************)
FailedEvents == <<"STREAM_CLOSED", "RESPONSE_FAILED">>

Continues(st)   == [st |-> st, ev |-> <<>>]
FailedStream(st) == [st |-> [st EXCEPT !.state = "CLOSED"], ev |-> FailedEvents]

SetStream(s, o) ==
    /\ events' = [events EXCEPT ![s] = @ \o o.ev]
    /\ live' = IF o.st.state = "CLOSED" THEN live \ {s} ELSE live
    /\ streams' = [streams EXCEPT ![s] =
                     IF o.st.state = "CLOSED" THEN NoStream ELSE o.st]

expectsNoBody(st) == st.method = "HEAD" \/ st.noBodyStatus

\* Faulty variant: remoteEndStream is never set.
finalizeForgotten(st) ==
    IF st.localEnd
    THEN [st |-> [st EXCEPT !.state = "CLOSED"],
          ev |-> <<"RESPONSE_COMPLETED", "STREAM_CLOSED">>]
    ELSE [st |-> st, ev |-> <<"RESPONSE_COMPLETED">>]

\* The peer's END_STREAM: the response is complete, or contradicts its
\* content-length and fails the stream.
finalizeRemoteStream(st) ==
    IF st.expected >= 0 /\ ~expectsNoBody(st) /\ st.received # st.expected
    THEN FailedStream(st)
    ELSE IF st.localEnd
         THEN [st |-> [st EXCEPT !.remoteEnd = TRUE, !.state = "CLOSED"],
               ev |-> <<"RESPONSE_COMPLETED", "STREAM_CLOSED">>]
         ELSE [st |-> [st EXCEPT !.remoteEnd = TRUE, !.state = "HALF_CLOSED_REMOTE"],
               ev |-> <<"RESPONSE_COMPLETED">>]

\* Bytes the DATA loop of emitPendingRequestBody puts on the wire: it stops
\* when the body or one of the two windows is exhausted.
Sendable(st, connWindow) ==
    IF st.localEnd \/ st.state = "CLOSED" THEN 0
    ELSE Lesser(st.body - st.offset, Greater(0, Available(st.out, connWindow)))

\* Faulty variant: the last DATA frame leaves streamState alone.
emitStateForgotten(st, connWindow) ==
    LET n == Sendable(st, connWindow)
    IN  Continues([st EXCEPT !.offset = @ + n, !.out = @ - n,
                             !.localEnd = @ \/ (n > 0 /\ st.offset + n = st.body)])

emitPendingRequestBody(st, connWindow) ==
    LET n    == Sendable(st, connWindow)
        ends == n > 0 /\ st.offset + n = st.body
        sent == [st EXCEPT !.offset = @ + n, !.out = @ - n]
    IN  IF ~ends THEN Continues(sent)
        ELSE IF st.remoteEnd
             THEN [st |-> [sent EXCEPT !.localEnd = TRUE, !.state = "CLOSED"],
                   ev |-> <<"STREAM_CLOSED">>]
             ELSE Continues([sent EXCEPT !.localEnd = TRUE,
                                         !.state = "HALF_CLOSED_LOCAL"])
-----------------------------------------------------------------------------
(***************************************************************************)
(* failStream, failAllStreams, failConnection                              *)
(***************************************************************************)
\* Faulty variant: the fragments are lost with the stream.
GhostNothing(S) == conn.ghost

\* A stream that fails in the middle of a header block leaves the fragments
\* received so far in ghostHeaderBlock.
Ghosted(S) ==
    LET W == {s \in S \cap live : streams[s].waiting /\ streams[s].pendingHdr > 0}
    IN  IF W = {} THEN conn.ghost ELSE streams[CHOOSE s \in W : TRUE].pendingHdr

\* Faulty variant: failStream does not look whether the stream exists.
DropUnchecked(S) ==
    /\ live' = live \ S
    /\ streams' = [s \in StreamIds |-> IF s \in S THEN NoStream ELSE streams[s]]
    /\ events' = [s \in StreamIds |->
                    IF s \in S THEN events[s] \o FailedEvents ELSE events[s]]

DropStreams(S) ==
    /\ live' = live \ S
    /\ streams' = [s \in StreamIds |-> IF s \in S \cap live THEN NoStream ELSE streams[s]]
    /\ events' = [s \in StreamIds |->
                    IF s \in S \cap live THEN events[s] \o FailedEvents ELSE events[s]]

failStream(S) ==
    /\ conn' = [conn EXCEPT !.ghost = Ghosted(S)]
    /\ DropStreams(S)

\* Once the connection is closed nothing reads ghostHeaderBlock any more:
\* what failAllStreams may leave in it is not kept.
failConnection(c, code, why) ==
    /\ conn' = [c EXCEPT !.closed = TRUE, !.error = code, !.debug = why,
                         !.sentGoaway = @ \/ ~c.transportClosed,
                         !.expecting = FALSE, !.continuationId = 0,
                         !.ghost = 0]
    /\ DropStreams(live)
-----------------------------------------------------------------------------
(***************************************************************************)
(* The API called by Http2Session                                          *)
(***************************************************************************)
Quiet == loop.kind = "none"

start ==
    /\ Quiet /\ ~conn.started
    /\ conn' = [conn EXCEPT !.started = TRUE]
    /\ UNCHANGED <<settings, connIn, connOut, live, streams, loop, pings, events, peer>>

canSubmitRequests ==
    conn.started /\ ~conn.closed /\ ~conn.sentGoaway /\ ~conn.receivedGoaway

Accepts(r) ==
    /\ canSubmitRequests
    /\ r.valid
    /\ Cardinality(live) < settings.streams
    /\ conn.nextId <= MaxStreamId

\* END_STREAM rides on the HEADERS frame, so only when the whole block fits.
emitRequestHeaders(st, r) ==
    IF r.body = 0 /\ r.hdr <= settings.frame
    THEN [st EXCEPT !.localEnd = TRUE, !.state = "HALF_CLOSED_LOCAL"]
    ELSE [st EXCEPT !.state = "OPEN"]

NewStream(r) ==
    [NoStream EXCEPT !.method = r.method, !.body = r.body,
                     !.in = InFlowInit(settings.window), !.opened = settings.window,
                     !.out = settings.window]

submitRequest(r) ==
    /\ Quiet /\ Accepts(r)
    /\ LET s  == conn.nextId
           st == emitRequestHeaders(NewStream(r), r)
       IN  /\ conn' = [conn EXCEPT !.nextId = s + 2]
           /\ live' = live \cup {s}
           /\ streams' = [streams EXCEPT ![s] = emitPendingRequestBody(st, connOut).st]
           /\ connOut' = connOut - Sendable(st, connOut)
    /\ UNCHANGED <<settings, connIn, loop, pings, events, peer>>

\* Refusals report RESPONSE_FAILED for stream 0 and change nothing.
refuseRequest(r) ==
    /\ Quiet /\ conn.started /\ ~Accepts(r)
    /\ UNCHANGED vars

cancelStream(s) ==
    /\ Quiet /\ conn.started /\ ~conn.closed
    /\ failStream({s})
    /\ UNCHANGED <<settings, connIn, connOut, loop, pings, peer>>

sendPing ==
    /\ Quiet /\ conn.started /\ ~conn.closed /\ pings < MaxPings
    /\ pings' = pings + 1
    /\ UNCHANGED <<conn, settings, connIn, connOut, live, streams, loop, events, peer>>

close ==
    /\ Quiet /\ conn.started /\ ~conn.closed
    /\ conn' = [conn EXCEPT !.sentGoaway = TRUE, !.closed = TRUE, !.ghost = 0]
    /\ DropStreams(live)
    /\ UNCHANGED <<settings, connIn, connOut, loop, pings, peer>>

onTransportClosed ==
    /\ Quiet /\ conn.started
    /\ conn' = [conn EXCEPT !.transportClosed = TRUE, !.closed = TRUE, !.ghost = 0]
    /\ DropStreams(live)
    /\ UNCHANGED <<settings, connIn, connOut, loop, pings, peer>>
-----------------------------------------------------------------------------
(***************************************************************************)
(* receiveBytes / receiveFrame: dispatch of the peer's frames              *)
(***************************************************************************)
FrameTypes == {"DATA", "HEADERS", "PRIORITY", "RST_STREAM", "SETTINGS",
               "PUSH_PROMISE", "PING", "GOAWAY", "WINDOW_UPDATE",
               "CONTINUATION", "UNKNOWN"}

Reading == Quiet /\ conn.started /\ ~conn.closed /\ ~conn.transportClosed

InOrder(type) ==
    /\ conn.gotPeerSettings \/ type = "SETTINGS"
    /\ conn.expecting => type = "CONTINUATION"

Receiving(type) == Reading /\ InOrder(type)

Unchanged4 == UNCHANGED <<settings, connOut, loop, pings>>

\* A frame before the peer's SETTINGS, inside a header block, or longer than
\* the local MAX_FRAME_SIZE.
rejectFrame(type) ==
    /\ Reading
    /\ \/ ~InOrder(type) /\ failConnection(conn, "PROTOCOL_ERROR", "order")
       \/ /\ conn.gotPeerSettings \/ type = "SETTINGS"
          /\ failConnection(conn, "FRAME_SIZE_ERROR", "size")
    /\ Unchanged4 /\ UNCHANGED <<connIn, peer>>

(***************************************************************************)
(* Frames a handler rejects for what they are, whatever the state of the   *)
(* streams: stream id zero or not zero, payload size, padding, a zero      *)
(* connection increment.  A PUSH_PROMISE is always refused: ENABLE_PUSH is *)
(* never offered.                                                          *)
(***************************************************************************)
MalformedCodes(type) ==
    CASE type \in {"DATA", "PRIORITY", "CONTINUATION"} -> {"PROTOCOL_ERROR"}
      [] type = "UNKNOWN" -> {}
      [] OTHER -> {"PROTOCOL_ERROR", "FRAME_SIZE_ERROR"}

malformedFrame(type) ==
    /\ Receiving(type)
    /\ \E code \in MalformedCodes(type) : failConnection(conn, code, "malformed")
    /\ Unchanged4 /\ UNCHANGED <<connIn, peer>>

\* PRIORITY, PING (answered), SETTINGS acknowledgements and frames of an
\* unknown type produce output or events only.
inertFrame(type) ==
    /\ Receiving(type)
    /\ type \in {"PRIORITY", "PING", "SETTINGS", "UNKNOWN"}
    /\ UNCHANGED vars
-----------------------------------------------------------------------------
(***************************************************************************)
(* DATA                                                                    *)
(***************************************************************************)
\* Bytes left after padding: a padded frame carries at least one data byte.
DataSizes(len) == {len} \cup 1 .. (len - 1)

\* The peer spends len bytes of its send windows: the 65535 bytes of the
\* connection and, for each stream, the INITIAL_WINDOW_SIZE it was sent in
\* buildLocalSettingsFrame.  It gets connRefresh and streamRefresh back.
\* Spending more than it has is remembered.
PeerSends(s, len, connRefresh, streamRefresh) ==
    LET known == s \in StreamIds
    IN  [peer EXCEPT !.window = Greater(0, @ - len) + connRefresh,
                     !.streams = [t \in StreamIds |->
                                    IF t = s THEN Greater(0, @[t] - len) + streamRefresh
                                    ELSE @[t]],
                     !.overran = \/ @
                                 \/ len > peer.window
                                 \/ known /\ len > peer.streams[s]]

\* processDataOnUnknownStream.  Here and in dataAccepted InFlow::add cannot
\* overflow (WindowsBounded), so the error it would report does not occur.
dataOnUnknownStream(s, len) ==
    /\ Receiving("DATA") /\ s \notin live
    /\ IF s % 2 = 0 \/ s >= conn.nextId
       THEN /\ failConnection(conn, "PROTOCOL_ERROR", "not opened")
            /\ UNCHANGED connIn
            /\ peer' = PeerSends(s, len, 0, 0)
       ELSE IF ~CanTake(connIn, len)
       THEN /\ failConnection(conn, "FLOW_CONTROL_ERROR", "old stream DATA")
            /\ UNCHANGED connIn
            /\ peer' = PeerSends(s, len, 0, 0)
       ELSE /\ connIn' = Added(Taken(connIn, len), len)
            /\ peer' = PeerSends(s, len, Refresh(Taken(connIn, len), len), 0)
            /\ UNCHANGED <<conn, live, streams, events>>
    /\ Unchanged4

\* The stream-level preconditions: nothing is taken from the windows.
dataRefused(s, len) ==
    /\ Receiving("DATA") /\ s \in live
    /\ \/ streams[s].state = "CLOSED"
       \/ streams[s].remoteEnd
       \/ ~streams[s].finalHdrs
    /\ failStream({s})
    /\ peer' = PeerSends(s, len, 0, 0)
    /\ Unchanged4 /\ UNCHANGED connIn

DataWelcome(s) ==
    /\ Receiving("DATA") /\ s \in live
    /\ streams[s].state # "CLOSED"
    /\ ~streams[s].remoteEnd
    /\ streams[s].finalHdrs

dataOverrun(s, len) ==
    /\ DataWelcome(s)
    /\ ~CanTakeBoth(connIn, streams[s].in, len)
    /\ failConnection(conn, "FLOW_CONTROL_ERROR", "flow control exceeded")
    /\ peer' = PeerSends(s, len, 0, 0)
    /\ Unchanged4 /\ UNCHANGED connIn

dataForbidden(s, len, size) ==
    /\ DataWelcome(s)
    /\ CanTakeBoth(connIn, streams[s].in, len)
    /\ size > 0 /\ expectsNoBody(streams[s])
    /\ connIn' = Taken(connIn, len)
    /\ failStream({s})
    /\ peer' = PeerSends(s, len, 0, 0)
    /\ Unchanged4

dataAccepted(s, len, size, end) ==
    LET taken  == Taken(connIn, len)
        in     == Taken(streams[s].in, len)
        st     == [streams[s] EXCEPT !.received = @ + size,
                                     !.in = Added(in, len)]
    IN  /\ DataWelcome(s)
        /\ CanTakeBoth(connIn, streams[s].in, len)
        /\ size = 0 \/ ~expectsNoBody(streams[s])
        /\ streams[s].received + size <= MaxResponse
        /\ connIn' = Added(taken, len)
        /\ peer' = PeerSends(s, len, Refresh(taken, len), Refresh(in, len))
        /\ SetStream(s, IF end THEN finalizeRemoteStream(st) ELSE Continues(st))
        /\ Unchanged4 /\ UNCHANGED conn
-----------------------------------------------------------------------------
(***************************************************************************)
(* HEADERS and CONTINUATION                                                *)
(***************************************************************************)
TooLarge(size) == settings.list > 0 /\ size > settings.list

\* validateResponseHeaderBlock: what it decides from the decoded fields and
\* from the headers the stream already has.
ValidBlock(st, h, end) ==
    /\ h.valid
    /\ IF st.finalHdrs
       THEN h.status = "none" /\ end
       ELSE /\ h.status \notin {"none", "101"}
            /\ h.status = "1xx" => ~end
            /\ h.cl # Malformed
            /\ h.cl >= 0 /\ st.expected >= 0 => h.cl = st.expected

\* Faulty variant: pendingHeaderBlock is not cleared after decoding.
decodeKeepsFragments(st, h, end) ==
    LET next == [st EXCEPT !.waiting = FALSE, !.finalHdrs = @ \/ h.status # "1xx"]
    IN  IF TooLarge(h.list) \/ ~ValidBlock(st, h, end) THEN FailedStream(st)
        ELSE IF end THEN finalizeRemoteStream(next)
        ELSE Continues(next)

\* decodeResponseHeaders, after the block was HPACK-decoded
decodeResponseHeaders(st, h, end) ==
    LET clear == [st EXCEPT !.pendingHdr = 0, !.waiting = FALSE, !.pendingEnd = FALSE]
        first == [clear EXCEPT !.expected = IF h.cl >= 0 THEN h.cl ELSE @,
                               !.finalHdrs = h.status # "1xx",
                               !.noBodyStatus = h.status = "nobody"]
        next  == IF st.finalHdrs THEN clear ELSE first
    IN  IF TooLarge(h.list) \/ ~ValidBlock(st, h, end) THEN FailedStream(st)
        ELSE IF st.finalHdrs /\ st.method = "CONNECT" THEN FailedStream(st)
        ELSE IF end THEN finalizeRemoteStream(next)
        ELSE Continues(next)

\* A complete block of stream s (in the map) reaches the decoder; `whole`
\* says that it is exactly what the peer encoded.
DecodeBlock(c, s, st, h, end, whole) ==
    /\ IF ~h.hpack
       THEN failConnection(c, "COMPRESSION_ERROR", "HPACK decode error")
       ELSE conn' = c /\ SetStream(s, decodeResponseHeaders(st, h, end))
    /\ peer' = [peer EXCEPT !.block = 0, !.inSync = @ /\ whole]

\* A block of a stream that is no longer in the map: decoded and discarded.
DiscardBlock(c, h, whole) ==
    /\ IF ~h.hpack
       THEN failConnection(c, "COMPRESSION_ERROR", "HPACK decode failed")
       ELSE conn' = c /\ UNCHANGED <<live, streams, events>>
    /\ peer' = [peer EXCEPT !.block = 0, !.inSync = @ /\ whole]

headersOnUnknownStream(s, size, endHeaders, h) ==
    /\ Receiving("HEADERS") /\ s \notin live
    /\ endHeaders \/ size <= MaxBlock
    /\ IF s % 2 = 0 \/ s >= conn.nextId
       THEN failConnection(conn, "PROTOCOL_ERROR", "not opened") /\ UNCHANGED peer
       ELSE IF endHeaders
       THEN DiscardBlock(conn, h, TRUE)
       ELSE /\ conn' = [conn EXCEPT !.ghost = size, !.expecting = TRUE,
                                    !.continuationId = s]
            /\ peer' = [peer EXCEPT !.block = size]
            /\ UNCHANGED <<live, streams, events>>
    /\ Unchanged4 /\ UNCHANGED connIn

\* HEADERS after the peer's END_STREAM: the block never reaches the decoder.
headersRefused(s) ==
    /\ Receiving("HEADERS") /\ s \in live
    /\ streams[s].state = "CLOSED" \/ streams[s].remoteEnd
    /\ failStream({s})
    /\ peer' = [peer EXCEPT !.inSync = FALSE]
    /\ Unchanged4 /\ UNCHANGED connIn

headersOnStream(s, size, endHeaders, end, h) ==
    LET st == [streams[s] EXCEPT !.pendingHdr = @ + size]
    IN  /\ Receiving("HEADERS") /\ s \in live
        /\ streams[s].state # "CLOSED" /\ ~streams[s].remoteEnd
        /\ endHeaders \/ size <= MaxBlock
        /\ IF TooLarge(st.pendingHdr)
           THEN failConnection(conn, "ENHANCE_YOUR_CALM", "header block") /\ UNCHANGED peer
           ELSE IF endHeaders
           THEN DecodeBlock(conn, s, st, h, end, st.pendingHdr = size)
           ELSE /\ streams' = [streams EXCEPT ![s] =
                                [st EXCEPT !.waiting = TRUE, !.pendingEnd = end]]
                /\ conn' = [conn EXCEPT !.expecting = TRUE, !.continuationId = s]
                /\ peer' = [peer EXCEPT !.block = size]
                /\ UNCHANGED <<live, events>>
        /\ Unchanged4 /\ UNCHANGED connIn

unexpectedContinuation(s) ==
    /\ Receiving("CONTINUATION")
    /\ ~conn.expecting \/ conn.continuationId # s
    /\ failConnection(conn, "PROTOCOL_ERROR", "unexpected CONTINUATION")
    /\ Unchanged4 /\ UNCHANGED <<connIn, peer>>

BlockDone(c) == [c EXCEPT !.expecting = FALSE, !.continuationId = 0]

\* The ghost path: the stream was removed in the middle of its header block.
continuationOnUnknownStream(s, size, endHeaders, h) ==
    LET total == conn.ghost + size
    IN  /\ Receiving("CONTINUATION")
        /\ conn.expecting /\ conn.continuationId = s /\ s \notin live
        /\ endHeaders \/ peer.block + size <= MaxBlock
        /\ IF TooLarge(total)
           THEN failConnection(conn, "ENHANCE_YOUR_CALM", "header block") /\ UNCHANGED peer
           ELSE IF endHeaders
           THEN DiscardBlock([BlockDone(conn) EXCEPT !.ghost = 0], h,
                             total = peer.block + size)
           ELSE /\ conn' = [conn EXCEPT !.ghost = total]
                /\ peer' = [peer EXCEPT !.block = @ + size]
                /\ UNCHANGED <<live, streams, events>>
        /\ Unchanged4 /\ UNCHANGED connIn

continuationOnStream(s, size, endHeaders, h) ==
    LET st == [streams[s] EXCEPT !.pendingHdr = @ + size]
    IN  /\ Receiving("CONTINUATION")
        /\ conn.expecting /\ conn.continuationId = s /\ s \in live
        /\ endHeaders \/ peer.block + size <= MaxBlock
        /\ IF TooLarge(st.pendingHdr)
           THEN failConnection(conn, "ENHANCE_YOUR_CALM", "header block") /\ UNCHANGED peer
           ELSE IF endHeaders
           THEN DecodeBlock(BlockDone(conn), s, [st EXCEPT !.waiting = FALSE], h,
                            st.pendingEnd, st.pendingHdr = peer.block + size)
           ELSE /\ streams' = [streams EXCEPT ![s] = st]
                /\ peer' = [peer EXCEPT !.block = @ + size]
                /\ UNCHANGED <<conn, live, events>>
        /\ Unchanged4 /\ UNCHANGED connIn
-----------------------------------------------------------------------------
(***************************************************************************)
(* RST_STREAM, GOAWAY, SETTINGS, WINDOW_UPDATE                             *)
(***************************************************************************)
rstStream(s) ==
    /\ Receiving("RST_STREAM")
    /\ IF s \notin live /\ s >= conn.nextId
       THEN failConnection(conn, "PROTOCOL_ERROR", "idle stream")
       ELSE failStream({s})
    /\ Unchanged4 /\ UNCHANGED <<connIn, peer>>

\* The streams the peer will not process fail; the others go on.
goAway(last) ==
    LET refused == {s \in live : s > last}
    IN  /\ Receiving("GOAWAY")
        /\ conn' = [conn EXCEPT !.receivedGoaway = TRUE, !.ghost = Ghosted(refused)]
        /\ DropStreams(refused)
        /\ Unchanged4 /\ UNCHANGED <<connIn, peer>>

\* Error codes applyPeerSettings may return for the parameter list p.
SettingsErrors(p) ==
    {c \in {"PROTOCOL_ERROR", "FLOW_CONTROL_ERROR"} :
        \/ c = "PROTOCOL_ERROR" /\ p.push
        \/ c = "PROTOCOL_ERROR" /\ p.frame # Keep /\ p.frame \notin DefaultFrame .. MaxFrame
        \/ c = "FLOW_CONTROL_ERROR" /\ p.window > Int32Max
        \/ /\ c = "FLOW_CONTROL_ERROR" /\ p.window # Keep
           /\ \E s \in live : ~CanAdd(streams[s].out, p.window - settings.window)}

Updated(old, new) == IF new = Keep THEN old ELSE new

\* The parameters applied before the offending one are not kept: nothing
\* reads them once the connection is closed.
invalidSettings(p) ==
    /\ Receiving("SETTINGS")
    /\ \E code \in SettingsErrors(p) :
          failConnection([conn EXCEPT !.gotPeerSettings = TRUE], code, "invalid peer settings")
    /\ Unchanged4 /\ UNCHANGED <<connIn, peer>>

\* Faulty variant: SETTINGS opens the windows but flushes nothing.
StartWindowLoopOnly(kind) ==
    loop' = IF live = {} \/ kind = "settings" THEN loop
            ELSE [loop EXCEPT !.kind = kind, !.todo = live]

StartLoop(kind) ==
    loop' = IF live = {} THEN loop ELSE [loop EXCEPT !.kind = kind, !.todo = live]

\* applyPeerSettings; the bodies are flushed by the loop that follows.
peerSettings(p) ==
    /\ Receiving("SETTINGS") /\ SettingsErrors(p) = {}
    /\ conn' = [conn EXCEPT !.gotPeerSettings = TRUE]
    /\ settings' = [streams |-> Updated(settings.streams, p.streams),
                    frame   |-> Updated(settings.frame, p.frame),
                    window  |-> Updated(settings.window, p.window),
                    list    |-> Updated(settings.list, p.list)]
    /\ streams' = [s \in StreamIds |->
                     IF s \in live
                     THEN [streams[s] EXCEPT !.out = @ + settings'.window - settings.window]
                     ELSE streams[s]]
    /\ StartLoop("settings")
    /\ UNCHANGED <<connIn, connOut, live, pings, events, peer>>

connectionWindowUpdate(n) ==
    /\ Receiving("WINDOW_UPDATE") /\ n > 0
    /\ IF CanAdd(connOut, n)
       THEN /\ connOut' = connOut + n
            /\ StartLoop("window")
            /\ UNCHANGED <<conn, live, streams, events>>
       ELSE /\ failConnection(conn, "FLOW_CONTROL_ERROR", "connection window overflow")
            /\ UNCHANGED <<connOut, loop>>
    /\ UNCHANGED <<settings, connIn, pings, peer>>

streamWindowUpdate(s, n) ==
    LET st == [streams[s] EXCEPT !.out = @ + n]
    IN  /\ Receiving("WINDOW_UPDATE")
        /\ IF s \in live /\ n > 0 /\ CanAdd(streams[s].out, n)
           THEN /\ SetStream(s, emitPendingRequestBody(st, connOut))
                /\ connOut' = connOut - Sendable(st, connOut)
                /\ UNCHANGED conn
           ELSE /\ IF s \notin live /\ s >= conn.nextId /\ n > 0
                   THEN failConnection(conn, "PROTOCOL_ERROR", "idle stream")
                   ELSE failStream({s})
                /\ UNCHANGED connOut
        /\ UNCHANGED <<settings, connIn, loop, pings, peer>>
-----------------------------------------------------------------------------
(***************************************************************************)
(* The flush loops.  processWindowUpdateFrame iterates over a copy of the  *)
(* map's pointers.  processSettingFrame iterates over the map itself, and  *)
(* emitPendingRequestBody erases a stream both of whose directions are     *)
(* done: the iterator is then dangling.  What the build does next is       *)
(* undefined; the loop goes on, ends early, or the process dies.           *)
(***************************************************************************)
FlushOne(s) ==
    LET o    == emitPendingRequestBody(streams[s], connOut)
        rest == loop.todo \ {s}
        on   == [loop EXCEPT !.kind = IF rest = {} THEN "none" ELSE @, !.todo = rest]
        off  == [loop EXCEPT !.kind = "none", !.todo = {}, !.undefined = TRUE]
        dead == [loop EXCEPT !.kind = "crashed", !.todo = {}, !.undefined = TRUE]
    IN  /\ loop.kind \in {"settings", "window"} /\ s \in loop.todo
        /\ SetStream(s, o)
        /\ connOut' = connOut - Sendable(streams[s], connOut)
        /\ IF loop.kind = "settings" /\ o.st.state = "CLOSED"
           THEN loop' \in {[on EXCEPT !.undefined = TRUE], off, dead}
           ELSE loop' = on
        /\ UNCHANGED <<conn, settings, connIn, pings, peer>>

Crashed == loop.kind = "crashed" /\ UNCHANGED vars
-----------------------------------------------------------------------------
Data == \E s \in PeerIds, len \in Lens :
    \/ dataOnUnknownStream(s, len)
    \/ dataRefused(s, len)
    \/ dataOverrun(s, len)
    \/ \E size \in DataSizes(len) :
          \/ dataForbidden(s, len, size)
          \/ \E end \in BOOLEAN : dataAccepted(s, len, size, end)

Headers == \E s \in PeerIds :
    \/ headersRefused(s)
    \/ \E size \in Fragments, endHeaders \in BOOLEAN, h \in Blocks :
          \/ headersOnUnknownStream(s, size, endHeaders, h)
          \/ \E end \in BOOLEAN : headersOnStream(s, size, endHeaders, end, h)

Continuation == \E s \in PeerIds :
    \/ unexpectedContinuation(s)
    \/ \E size \in Fragments, endHeaders \in BOOLEAN, h \in Blocks :
          \/ continuationOnUnknownStream(s, size, endHeaders, h)
          \/ continuationOnStream(s, size, endHeaders, h)

Control ==
    \/ \E type \in FrameTypes :
          rejectFrame(type) \/ malformedFrame(type) \/ inertFrame(type)
    \/ \E s \in PeerIds : rstStream(s)
    \/ \E last \in PeerIds \cup {0} : goAway(last)
    \/ \E p \in PeerSettings : invalidSettings(p) \/ peerSettings(p)
    \/ \E n \in Increments : connectionWindowUpdate(n)
    \/ \E s \in PeerIds, n \in Increments : streamWindowUpdate(s, n)

Api ==
    \/ start
    \/ \E r \in Requests : submitRequest(r) \/ refuseRequest(r)
    \/ \E s \in StreamIds : cancelStream(s)
    \/ sendPing \/ close \/ onTransportClosed

Next ==
    \/ Api
    \/ Data \/ Headers \/ Continuation \/ Control
    \/ \E s \in StreamIds : FlushOne(s)
    \/ Crashed

Spec == Init /\ [][Next]_vars
-----------------------------------------------------------------------------
(***************************************************************************)
(* Properties                                                              *)
(***************************************************************************)
ConnType ==
    [started : BOOLEAN, closed : BOOLEAN, transportClosed : BOOLEAN,
     sentGoaway : BOOLEAN, receivedGoaway : BOOLEAN,
     gotPeerSettings : BOOLEAN, expecting : BOOLEAN,
     continuationId : Nat, ghost : Nat, nextId : Nat,
     error : ErrorCodes, debug : Causes]

SettingsType ==
    [streams : Nat, frame : DefaultFrame .. MaxFrame, window : 0 .. Int32Max, list : Nat]

LoopType ==
    [kind : {"none", "settings", "window", "crashed"},
     todo : SUBSET StreamIds, undefined : BOOLEAN]

PeerType ==
    [window : Nat, streams : [StreamIds -> Nat], overran : BOOLEAN,
     block : Nat, inSync : BOOLEAN]

\* The variables have the shapes the C++ types give them; every send window, of
\* the connection and of each stream, stays within the range of int32_t, however
\* WINDOW_UPDATE, INITIAL_WINDOW_SIZE and the bytes sent push it (OutFlow::add
\* refuses what would leave it, and so does applyPeerSettings for all streams).
TypeOK ==
    /\ conn \in ConnType
    /\ settings \in SettingsType
    /\ connIn \in InFlows
    /\ connOut \in Int32Min .. Int32Max
    /\ live \subseteq StreamIds
    /\ streams \in [StreamIds -> StreamType]
    /\ loop \in LoopType
    /\ pings \in Nat
    /\ events \in [StreamIds -> Seq(Terminal)]
    /\ peer \in PeerType

(***************************************************************************)
(* A stream in the map is never CLOSED, and its state is the one its two   *)
(* END_STREAM flags say: submitRequest, emitPendingRequestBody and         *)
(* finalizeRemoteStream each assign streamState on their own.  The local   *)
(* flag of a request with a body says that all of it was sent.  A closed   *)
(* connection has no streams left, so none of them waits for an answer.    *)
(***************************************************************************)
StateOf(st) ==
    IF st.localEnd
    THEN IF st.remoteEnd THEN "CLOSED" ELSE "HALF_CLOSED_LOCAL"
    ELSE IF st.remoteEnd THEN "HALF_CLOSED_REMOTE" ELSE "OPEN"

StreamOK(st) ==
    /\ st.state = StateOf(st) /\ st.state # "CLOSED"
    /\ st.offset <= st.body
    /\ st.body > 0 => (st.localEnd <=> st.offset = st.body)
    /\ st.remoteEnd => st.finalHdrs

StreamTableOK ==
    /\ conn.closed => live = {}
    /\ \A s \in live : s < conn.nextId /\ StreamOK(streams[s])

(***************************************************************************)
(* No lost wake-up: outside the flush loops there is no stream with body   *)
(* bytes left that both its own and the connection's window would let      *)
(* through.  The code has no retry, so a byte that could go and was not    *)
(* sent by the handler that opened the window may wait forever.            *)
(***************************************************************************)
NothingSendableLeft ==
    Quiet /\ ~loop.undefined =>
        \A s \in live : Sendable(streams[s], connOut) = 0

(***************************************************************************)
(* What the session is told about a stream.  While it is in the map: at    *)
(* most that its response is complete.  Once it is gone, exactly one       *)
(* STREAM_CLOSED and a verdict: completed, failed, or failed after it was  *)
(* completed (the request body was still being sent).  Never a completion  *)
(* after a failure, never two completions.                                 *)
(***************************************************************************)
EventsOf(st) == IF st.remoteEnd THEN <<"RESPONSE_COMPLETED">> ELSE <<>>

Verdicts == {<<"RESPONSE_COMPLETED", "STREAM_CLOSED">>,
             <<"STREAM_CLOSED", "RESPONSE_FAILED">>,
             <<"RESPONSE_COMPLETED", "STREAM_CLOSED", "RESPONSE_FAILED">>}

OneVerdict ==
    \A s \in StreamIds :
        /\ s \in live => events[s] = EventsOf(streams[s])
        /\ s >= conn.nextId => events[s] = <<>>
        /\ s < conn.nextId /\ s \notin live => events[s] \in Verdicts

(***************************************************************************)
(* A header block split over CONTINUATION frames is kept whole, also when  *)
(* its stream is cancelled half-way: the fragments are then in             *)
(* ghostHeaderBlock.  Outside a block nothing is left behind that would be *)
(* put in front of the next one, and no stream inside one was ended by the *)
(* peer before.                                                            *)
(***************************************************************************)
HeaderBlockKept ==
    ~conn.closed =>
        /\ conn.expecting =>
              /\ conn.continuationId < conn.nextId
              /\ peer.block = IF conn.continuationId \in live
                              THEN streams[conn.continuationId].pendingHdr
                              ELSE conn.ghost
        /\ ~conn.expecting => peer.block = 0
        /\ ~conn.expecting \/ conn.continuationId \in live => conn.ghost = 0
        /\ \A s \in live :
              /\ streams[s].waiting <=> conn.expecting /\ conn.continuationId = s
              /\ ~streams[s].waiting => streams[s].pendingHdr = 0
              /\ streams[s].waiting => ~streams[s].remoteEnd

(***************************************************************************)
(* The windows keep their bounds: the connection's outgoing one is never   *)
(* overdrawn, however the streams that share it are interleaved            *)
(* (OutFlow::take throws otherwise).  The connection's incoming one never  *)
(* grows beyond what it was opened with, and what a stream's was opened    *)
(* with is all there, open or waiting in unsnt to be returned, whatever    *)
(* the peer changed in its settings since: so InFlow::add never overflows. *)
(***************************************************************************)
Within(f, bound) == f.avail >= 0 /\ f.unsnt >= 0 /\ f.avail + f.unsnt <= bound

Whole(f, size) == f.avail >= 0 /\ f.unsnt >= 0 /\ f.avail + f.unsnt = size

WindowsBounded ==
    /\ connOut >= 0
    /\ Within(connIn, ConfigWindow)
    /\ \A s \in live : Whole(streams[s].in, streams[s].opened)

(***************************************************************************)
(* A peer that never sent more than the windows advertised to it is not    *)
(* blamed with "flow control exceeded": the receiver's view of every       *)
(* window is at least as open as the sender's.                             *)
(***************************************************************************)
ConformingPeerNotBlamed ==
    conn.debug \in {"flow control exceeded", "old stream DATA"} => peer.overran

(***************************************************************************)
(* The bytes of every DATA frame the peer sent come back to it: what its   *)
(* connection window lost is waiting in unsnt for the next WINDOW_UPDATE.  *)
(***************************************************************************)
ConnectionWindowReturned ==
    ~conn.closed /\ ~peer.overran => peer.window + connIn.unsnt = DefaultWindow

(***************************************************************************)
(* Every header block the peer finished was given to the HPACK decoder,    *)
(* whole and in order: the dynamic tables of both ends agree.              *)
(***************************************************************************)
HpackInSync == ~conn.closed => peer.inSync

(***************************************************************************)
(* A request is ended: once its headers and its whole body are sent, so is *)
(* END_STREAM.                                                             *)
(***************************************************************************)
RequestEnded == \A s \in live : streams[s].offset = streams[s].body => streams[s].localEnd

(***************************************************************************)
(* No handler erases from the map it is iterating over.                    *)
(***************************************************************************)
FlushDefined == ~loop.undefined

(***************************************************************************)
(* A stream that was erased stays so and nothing more is said about it:    *)
(* late frames, cancellations and the failure of the connection find it    *)
(* gone.  Stream ids are not handed out again.                             *)
(***************************************************************************)
GoneForGood ==
    [][\A s \in StreamIds \ live :
          s < conn.nextId => s \notin live' /\ events'[s] = events[s]]_vars
-----------------------------------------------------------------------------
(***************************************************************************)
(* The inductive invariant.  A flush loop in progress has visited every    *)
(* live stream that is not in its todo set, and sending for one stream     *)
(* only closes the shared window further, so those have nothing sendable   *)
(* left: NothingSendableLeft at the end of the loop.                       *)
(***************************************************************************)
LoopOK ==
    /\ loop.kind \in {"none", "crashed"} <=> loop.todo = {}
    /\ loop.todo \subseteq live
    /\ loop.kind # "none" => ~conn.expecting
    /\ loop.kind = "crashed" => loop.undefined
    /\ ~loop.undefined => \A s \in live \ loop.todo : Sendable(streams[s], connOut) = 0

IInv ==
    /\ TypeOK
    /\ conn.nextId % 2 = 1
    /\ StreamTableOK
    /\ LoopOK
    /\ WindowsBounded
    /\ HeaderBlockKept
    /\ OneVerdict
=============================================================================
