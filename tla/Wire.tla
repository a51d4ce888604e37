--------------------------------- MODULE Wire ---------------------------------
(***************************************************************************)
(* One connection between its socket and its protocol engine: Http2Session *)
(* with its queue of outbound chunks, FrameCodec, the transport's          *)
(* readSome and writeSome, the read and write handlers of Connection and   *)
(* the interest in EPOLLOUT that Reactor keeps for the descriptor.         *)
(*                                                                         *)
(* The handlers run on the reactor thread, one at a time; the session is   *)
(* one record s they transform.  The network is free to cut both streams   *)
(* of octets anywhere and to fail at any point.                            *)
(*                                                                         *)
(* Of Http2Protocol only what the octets decide is here: the size rules,   *)
(* the answers to SETTINGS and PING, the GOAWAY of a connection error.     *)
(* What else a frame does is in module Http2Protocol.                      *)
(***************************************************************************)
EXTENDS Frames, FiniteSets

CONSTANTS
    Preface,        \* HTTP2_CONNECTION_PREFACE
    LocalSettings,  \* the integers of the first SETTINGS frame: parameter, value, ...
    ReadSize,       \* the 8192 octets onReadable asks for at a time
    Block,          \* the encoded header block of a request
    Scripts,        \* the frames the peer may send, as sequences
    Takes,          \* bound: octets the transport may take before it would block
    MaxPings        \* bound: keepalive PINGs sent

ASSUME WireAssumption ==
    /\ Preface \in Seq(0 .. Octet - 1) /\ Block \in Seq(0 .. Octet - 1)
    /\ LocalSettings \in Seq(Nat) /\ Len(LocalSettings) % 2 = 0
    /\ ReadSize \in Nat \ {0}
    /\ Scripts \subseteq Seq(PeerFrames)
    /\ Takes \subseteq Nat /\ MaxPings \in Nat

VARIABLES
    s,         \* the session, its connection and its descriptor's FdContext
    script,    \* the frames the peer sends
    stream,    \* their octets that have not been read yet
    pings,     \* pingCounter
    submitted  \* the request has been submitted

vars == <<s, script, stream, pings, submitted>>

NewSession ==
    [buffer |-> <<>>, closed |-> FALSE,                     \* of codec and protocol
     started |-> TRUE, healthy |-> TRUE, outbound |-> <<>>, \* of the session
     ready |-> TRUE,                                        \* of the transport
     events |-> {},                                         \* returned by the session
     connected |-> TRUE,
     registered |-> TRUE, writeEnabled |-> FALSE,           \* in the reactor
     blocked |-> <<>>,    \* the octets of a write that would have blocked
     received |-> <<>>,   \* history: the frames given to the protocol engine
     queued |-> <<>>,     \* history: the octets of the frames it emitted
     sent |-> <<>>]       \* history: the octets the transport took

Healthy(t) == t.started /\ t.healthy /\ ~t.closed

\* Frames the engine builds
Frame(type, flags, id, length, ints, data) ==
    toBytes([payloadLength |-> length, type |-> type, flags |-> flags, streamId |-> id],
            ints, data)

settingsFrame == Frame(Types.SETTINGS, 0, 0, (Len(LocalSettings) \div 2) * 6, LocalSettings, <<>>)
settingsAck   == Frame(Types.SETTINGS, ACK, 0, 0, <<>>, <<>>)
pingFrame(n)  == Frame(Types.PING, 0, 0, 8, <<>>, append(n \div Power[4], 4) \o append(n % Power[4], 4))
pingAck(data) == Frame(Types.PING, ACK, 0, 8, <<>>, data)
rstFrame(id)  == Frame(Types.RST_STREAM, 0, id, 4, <<8>>, <<>>)
goaway(debug) == Frame(Types.GOAWAY, 0, 0, 8 + Len(debug), <<0, 1>>, debug)
headersFrame  == Frame(Types.HEADERS, END_HEADERS + END_STREAM, 1, Len(Block), <<>>, Block)

enqueueOutbound(t, data) ==
    [t EXCEPT !.outbound = Append(@, [data |-> data, offset |-> 0]), !.queued = @ \o data]
--------------------------------------------------------------------------------
failConnection(t) == [enqueueOutbound(t, goaway(<<>>)) EXCEPT !.closed = TRUE]

\* receiveFrame, for a frame that passes the checks on its size or not
\* Server push is disabled, so a PUSH_PROMISE ends the connection.
receiveFrame(t, raw) ==
    LET h == raw.header
        u == [t EXCEPT !.received = Append(@, typed(raw))]
    IN  IF h.payloadLength > MaxFrameSize \/ ~WellSized(raw) THEN failConnection(t)
        ELSE CASE h.type = Types.SETTINGS /\ ~hasAnyFlag(h, ACK) -> enqueueOutbound(u, settingsAck)
               [] h.type = Types.PING /\ ~hasAnyFlag(h, ACK) -> enqueueOutbound(u, pingAck(raw.data))
               [] h.type = Types.PRIORITY /\ h.payloadLength # 5 ->
                      enqueueOutbound(u, rstFrame(h.streamId))
               [] h.type = Types.PUSH_PROMISE -> failConnection(u)
               [] OTHER -> u

popFrame(t) ==
    IF t.closed \/ ~CanPop(t.buffer) THEN t
    ELSE LET p == tryPop(t.buffer) IN receiveFrame([t EXCEPT !.buffer = p.rest], p.frame)

\* Faulty variant: one frame is taken out for every read.
receiveOneFrame(t, bytes) ==
    IF t.closed THEN t ELSE popFrame([t EXCEPT !.buffer = @ \o bytes])

\* receiveBytes: feed(), then frames are popped until none is complete or the
\* connection has been closed
receiveBytes(t, bytes) ==
    IF t.closed THEN t
    ELSE LET fed == [t EXCEPT !.buffer = @ \o bytes]
         IN  Fold(LAMBDA u, i : popFrame(u), fed,
                      [i \in 1 .. Len(fed.buffer) \div encodedSize |-> i])

\* translateEvents: a connection error makes the session unhealthy and reports it dead.
translateEvents(t) ==
    IF t.closed /\ t.healthy THEN [t EXCEPT !.healthy = FALSE, !.events = {"SESSION_DEAD"}]
    ELSE t

\* The events of a handler that ends here are the ones of this call alone.
handleTransportFailure(t) ==
    IF ~t.healthy THEN [t EXCEPT !.events = {}]
    ELSE [t EXCEPT !.healthy = FALSE, !.closed = TRUE, !.outbound = <<>>, !.blocked = <<>>,
                   !.ready = FALSE, !.events = {"SESSION_DEAD"}]

\* The reads of ReadSize octets that take n octets off the socket
Reads(bytes) ==
    [i \in 1 .. (Len(bytes) + ReadSize - 1) \div ReadSize |->
        SubSeq(bytes, (i - 1) * ReadSize + 1,
               IF i * ReadSize < Len(bytes) THEN i * ReadSize ELSE Len(bytes))]

\* onReadable: reads until the socket has nothing more, has ended or fails
onReadable(t, bytes, end) ==
    IF ~Healthy(t) THEN t
    ELSE LET u == Fold(LAMBDA v, b : translateEvents(receiveBytes(v, b)), t, Reads(bytes))
         IN  IF end = "WOULD_BLOCK" THEN u ELSE handleTransportFailure(u)

Remaining(chunk) == SubSeq(chunk.data, chunk.offset + 1, Len(chunk.data))

Pending(t) == Concat([i \in 1 .. Len(t.outbound) |-> Remaining(t.outbound[i])])

\* Octets of the first i chunks, and the chunks that go with the first n octets
UpTo(q, i)   == Sum([j \in 1 .. i |-> Len(Remaining(q[j]))])
Popped(q, n) == Cardinality({i \in 1 .. Len(q) : UpTo(q, i) <= n})

\* Faulty variant: the chunk a write got stuck in starts over.
advanceWhole(q, n) == SubSeq(q, Popped(q, n) + 1, Len(q))

\* The queue after n of its octets have been written: the chunks written whole
\* are popped, the next one has its offset moved.
advance(q, n) ==
    [i \in 1 .. Len(q) - Popped(q, n) |->
        LET chunk == q[Popped(q, n) + i]
        IN  IF i = 1 THEN [chunk EXCEPT !.offset = @ + n - UpTo(q, Popped(q, n))] ELSE chunk]

\* onWritable: the transport takes n octets, then all is written, or it would
\* block, or it fails.
onWritable(t, n, end) ==
    IF ~Healthy(t) THEN t
    ELSE IF end # "WOULD_BLOCK" THEN [handleTransportFailure(t) EXCEPT !.events = {}]
    ELSE LET rest == advance(t.outbound, n)
         IN  [t EXCEPT !.outbound = rest, !.sent = @ \o SubSeq(Pending(t), 1, n),
                       !.blocked = IF rest = <<>> THEN <<>> ELSE Remaining(Head(rest))]
--------------------------------------------------------------------------------
processSessionEvents(t) ==
    IF "SESSION_DEAD" \in t.events
    THEN [t EXCEPT !.events = {}, !.connected = FALSE, !.registered = FALSE, !.writeEnabled = FALSE]
    ELSE t

\* Faulty variant: interest is only ever switched off.
updateOffOnly(t) ==
    IF t.registered /\ t.outbound = <<>> THEN [t EXCEPT !.writeEnabled = FALSE] ELSE t

updateWriteInterest(t) ==
    IF ~t.registered THEN t ELSE [t EXCEPT !.writeEnabled = t.outbound # <<>>]

onSessionReadable(t, bytes, end) ==
    IF ~t.connected THEN t
    ELSE updateWriteInterest(processSessionEvents(onReadable(t, bytes, end)))

onSessionWritable(t, n, end) ==
    IF ~t.connected THEN t ELSE updateWriteInterest(onWritable(t, n, end))

\* The octets of a script from its frame n on
Octets == [c \in Scripts |-> [n \in 1 .. Len(c) + 1 |->
              Concat([i \in 1 .. Len(c) + 1 - n |-> Layout(c[n - 1 + i])])]]

\* start() of protocol and session, on the connector thread; registerWithReactor
Init ==
    /\ s = updateWriteInterest(enqueueOutbound(enqueueOutbound(NewSession, Preface), settingsFrame))
    /\ script \in Scripts
    /\ stream = Octets[script][1]
    /\ pings = 0 /\ submitted = FALSE

Ends == {"WOULD_BLOCK", "CLOSED", "ERR"}

\* handleFdEvent with something to read, or with an error or hang-up, which the
\* read handler finds out
ReadEvent ==
    /\ s.registered /\ s.ready
    /\ \E n \in 0 .. Len(stream), end \in Ends :
          /\ IF end = "WOULD_BLOCK" THEN n > 0 ELSE n = Len(stream)
          /\ s' = onSessionReadable(s, SubSeq(stream, 1, n), end)
          /\ stream' = IF Healthy(s) THEN SubSeq(stream, n + 1, Len(stream)) ELSE stream
    /\ UNCHANGED <<script, pings, submitted>>

WriteEvent ==
    /\ s.registered /\ s.ready /\ s.writeEnabled
    /\ \/ \E n \in {m \in Takes : m < Len(Pending(s))} \cup {Len(Pending(s))} :
             s' = onSessionWritable(s, n, "WOULD_BLOCK")
       \/ \E end \in {"CLOSED", "ERR"} : s' = onSessionWritable(s, 0, end)
    /\ UNCHANGED <<script, stream, pings, submitted>>

\* handleFdEvent with both: the write handler follows the read handler if EPOLLOUT
\* was on when the event came; there is room for all there is to write by then.
ReadWriteEvent ==
    /\ s.registered /\ s.ready /\ s.writeEnabled
    /\ \E end \in Ends :
          LET t == onSessionReadable(s, stream, end)
          IN  s' = onSessionWritable(t, Len(Pending(t)), "WOULD_BLOCK")
    /\ stream' = IF Healthy(s) THEN <<>> ELSE stream
    /\ UNCHANGED <<script, pings, submitted>>

submitOnReactor ==
    /\ ~submitted /\ s.connected
    /\ submitted' = TRUE
    /\ s' = updateWriteInterest(IF Healthy(s) THEN enqueueOutbound(s, headersFrame) ELSE s)
    /\ UNCHANGED <<script, stream, pings>>

onPingTimer ==
    /\ s.connected /\ pings < MaxPings
    /\ pings' = IF Healthy(s) THEN pings + 1 ELSE pings
    /\ s' = updateWriteInterest(IF Healthy(s) THEN enqueueOutbound(s, pingFrame(pings')) ELSE s)
    /\ UNCHANGED <<script, stream, submitted>>

\* closeOnReactor: the GOAWAY that Http2Protocol::close() emits is cleared with
\* the rest of the queue.
closeOnReactor ==
    /\ s.connected
    /\ s' = [s EXCEPT !.connected = FALSE, !.registered = FALSE, !.writeEnabled = FALSE,
                      !.started = FALSE, !.healthy = FALSE, !.closed = TRUE,
                      !.outbound = <<>>, !.blocked = <<>>, !.ready = FALSE]
    /\ UNCHANGED <<script, stream, pings, submitted>>

Next == \/ ReadEvent \/ WriteEvent \/ ReadWriteEvent
        \/ submitOnReactor \/ onPingTimer \/ closeOnReactor

\* EPOLLOUT is level-triggered: while it stays on and the peer keeps reading, the
\* write handler gets everything out.
WriteAll ==
    /\ s.registered /\ s.ready /\ s.writeEnabled
    /\ s' = onSessionWritable(s, Len(Pending(s)), "WOULD_BLOCK")
    /\ UNCHANGED <<script, stream, pings, submitted>>

Spec == Init /\ [][Next]_vars /\ WF_vars(WriteAll)
--------------------------------------------------------------------------------
\* How many frames of the script have been read to their last octet
WholeFrames == CHOOSE n \in 0 .. Len(script) :
                  /\ Len(stream) <= Len(Octets[script][n + 1])
                  /\ n < Len(script) => Len(stream) > Len(Octets[script][n + 2])

\* Accepted: the session goes on after this frame.
Accepted(f) == Conforming(f) /\ f.type # Types.PUSH_PROMISE

(* However the network cuts the peer's octets into reads, the engine is    *)
(* given exactly the frames the peer sent, in order, each as soon as its   *)
(* last octet has been read, without padding or reserved bits; a frame     *)
(* that breaks the size rules closes the connection and nothing after it   *)
(* is processed; conforming frames never close it (receiveBytes, tryPop,   *)
(* decode, the frame constructors, validatePaddedPayload).                 *)
FramesIntact ==
    LET whole == SubSeq(script, 1, WholeFrames)
        bad   == {i \in 1 .. Len(whole) : ~Accepted(whole[i])}
        upTo  == IF bad = {} THEN Len(whole)
                 ELSE LET b == CHOOSE b \in bad : \A c \in bad : b <= c
                      IN  IF Conforming(whole[b]) THEN b ELSE b - 1
    IN  /\ s.received = [i \in 1 .. upTo |-> Content(whole[i])]
        /\ bad # {} => s.closed
        /\ Healthy(s) => bad = {}

(* What the transport has taken and what is still queued are together      *)
(* exactly the octets of the frames the engine emitted, in order, whatever *)
(* partial writes and blocked writes came between; and a write that would  *)
(* have blocked is repeated with the same octets, as SSL_write demands     *)
(* (enqueueOutbound, onWritable).                                          *)
OctetsInOrder ==
    /\ Healthy(s) => s.sent \o Pending(s) = s.queued
    /\ IsPrefix(s.sent, s.queued)
    /\ s.blocked # <<>> => s.blocked = Remaining(Head(s.outbound))

(* Whatever the engine queues on a session is written, or the session      *)
(* ends: no handler leaves octets in the queue without asking for EPOLLOUT *)
(* (updateWriteInterest, enableWrite, handleFdEvent).                      *)
EverythingWritten == Pending(s) # <<>> ~> Pending(s) = <<>> \/ ~Healthy(s)
=============================================================================
