------------------------ MODULE Http2Protocol_proofs ------------------------
(***************************************************************************)
(* Proofs about Http2Protocol, for every value of its constants.           *)
(***************************************************************************)
EXTENDS Http2Protocol, SequenceTheorems, TLAPS

(***************************************************************************)
(* What a step may do to one stream: it goes on consistently, or it is     *)
(* closed with the verdict its earlier events call for.                    *)
(***************************************************************************)
GoodStream(st) == st \in StreamType /\ StreamOK(st) /\ Whole(st.in, st.opened)

GoodOutcome(st, o) ==
    /\ o.st \in StreamType
    /\ o.ev \in Seq(Terminal)
    /\ IF o.st.state = "CLOSED"
       THEN EventsOf(st) \o o.ev \in Verdicts
       ELSE GoodStream(o.st) /\ EventsOf(st) \o o.ev = EventsOf(o.st)

\* What was opened is never more than the range of int32_t.
LEMMA WholeWithin ==
    ASSUME NEW st \in StreamType, Whole(st.in, st.opened)
    PROVE  Within(st.in, st.opened) /\ Within(st.in, Int32Max) /\ st.opened \in 0 .. Int32Max
  <1>1. st.in.avail \in Int /\ st.in.unsnt \in Int /\ st.opened \in 0 .. Int32Max
    BY DEF StreamType, InFlows
  <1> QED BY <1>1, FlowAssumption DEF Whole, Within

\* The updates of a Stream object keep its type.
LEMMA SentType ==
    ASSUME NEW st \in StreamType, NEW a \in Nat, NEW b \in Int32Min .. Int32Max
    PROVE  [st EXCEPT !.offset = a, !.out = b] \in StreamType
  BY DEF StreamType

LEMMA EndedType ==
    ASSUME NEW st \in StreamType, NEW a \in BOOLEAN, NEW b \in StreamStates
    PROVE  [st EXCEPT !.localEnd = a, !.state = b] \in StreamType
  BY DEF StreamType

\* Concatenations of short tuples.
LEMMA ConcatOneOne ==
    ASSUME NEW a, NEW b PROVE <<a>> \o <<b>> = <<a, b>>
  <1> DEFINE S == {a, b}  x == <<a>>  y == <<b>>  z == <<a, b>>
  <1>1. x \in Seq(S) /\ y \in Seq(S) /\ z \in Seq(S)
    OBVIOUS
  <1>2. /\ Len(x) = 1 /\ Len(y) = 1 /\ Len(z) = 2
        /\ x[1] = a /\ y[1] = b /\ z[1] = a /\ z[2] = b
    OBVIOUS
  <1> HIDE DEF x, y, z
  <1>3. x \o y = z
    BY <1>1, <1>2, ConcatProperties, SeqEqual
  <1> QED BY <1>3 DEF x, y, z

LEMMA ConcatOneTwo ==
    ASSUME NEW a, NEW b, NEW c PROVE <<a>> \o <<b, c>> = <<a, b, c>>
  <1> DEFINE S == {a, b, c}  x == <<a>>  y == <<b, c>>  z == <<a, b, c>>
  <1>1. x \in Seq(S) /\ y \in Seq(S) /\ z \in Seq(S)
    OBVIOUS
  <1>2. /\ Len(x) = 1 /\ Len(y) = 2 /\ Len(z) = 3
        /\ x[1] = a /\ y[1] = b /\ y[2] = c
        /\ z[1] = a /\ z[2] = b /\ z[3] = c
    OBVIOUS
  <1> HIDE DEF x, y, z
  <1>3. /\ x \o y \in Seq(S) /\ Len(x \o y) = 3
        /\ (x \o y)[1] = a /\ (x \o y)[2] = b /\ (x \o y)[3] = c
    <2>1. /\ x \o y \in Seq(S) /\ Len(x \o y) = Len(x) + Len(y)
          /\ \A i \in 1 .. Len(x) + Len(y) :
                (x \o y)[i] = IF i <= Len(x) THEN x[i] ELSE y[i - Len(x)]
      BY <1>1, ConcatProperties
    <2> HIDE DEF S
    <2> QED BY <1>2, <2>1
  <1>4. \A i \in 1 .. Len(x \o y) : (x \o y)[i] = z[i]
    BY <1>2, <1>3
  <1>5. x \o y = z
    BY <1>1, <1>2, <1>3, <1>4, SeqEqual
  <1> QED BY <1>5 DEF x, y, z

\* The sequences of terminal events that occur, and how they are extended.
LEMMA EventTypes ==
    /\ <<>> \in Seq(Terminal)
    /\ <<"RESPONSE_COMPLETED">> \in Seq(Terminal)
    /\ <<"STREAM_CLOSED">> \in Seq(Terminal)
    /\ FailedEvents \in Seq(Terminal)
    /\ <<"RESPONSE_COMPLETED", "STREAM_CLOSED">> \in Seq(Terminal)
  BY DEF FailedEvents, Terminal

LEMMA EventConcat ==
    /\ \A e \in Seq(Terminal) : <<>> \o e = e /\ e \o <<>> = e
    /\ FailedEvents \in Verdicts
    /\ <<"RESPONSE_COMPLETED">> \o FailedEvents \in Verdicts
    /\ <<"RESPONSE_COMPLETED", "STREAM_CLOSED">> \in Verdicts
    /\ <<"RESPONSE_COMPLETED">> \o <<"STREAM_CLOSED">> \in Verdicts
  <1>1. \A e \in Seq(Terminal) : <<>> \o e = e /\ e \o <<>> = e
    BY ConcatEmptySeq
  <1>2. <<"RESPONSE_COMPLETED">> \o FailedEvents
          = <<"RESPONSE_COMPLETED", "STREAM_CLOSED", "RESPONSE_FAILED">>
    BY ConcatOneTwo, Zenon DEF FailedEvents
  <1>3. <<"RESPONSE_COMPLETED">> \o <<"STREAM_CLOSED">>
          = <<"RESPONSE_COMPLETED", "STREAM_CLOSED">>
    BY ConcatOneOne, Zenon
  <1> QED BY <1>1, <1>2, <1>3, Zenon DEF Verdicts, FailedEvents

\* failStream on any stream of the map.
LEMMA FailedStreamGood ==
    ASSUME NEW st \in StreamType
    PROVE  GoodOutcome(st, FailedStream(st))
  <1> DEFINE o == FailedStream(st)
  <1>1. o.st \in StreamType /\ o.st.state = "CLOSED" /\ o.ev = FailedEvents
    BY DEF FailedStream, StreamType, StreamStates
  <1>2. EventsOf(st) \o FailedEvents \in Verdicts
    <2>1. CASE st.remoteEnd
      BY <2>1, EventConcat, Zenon DEF EventsOf
    <2>2. CASE ~st.remoteEnd
      BY <2>2, EventConcat, EventTypes, Zenon DEF EventsOf
    <2> QED BY <2>1, <2>2
  <1> QED BY <1>1, <1>2, EventTypes, Zenon DEF GoodOutcome

\* A stream that only gets new header or window bookkeeping.
LEMMA ContinuesGood ==
    ASSUME NEW st, NEW u, GoodStream(u), u.remoteEnd = st.remoteEnd,
           st.remoteEnd \in BOOLEAN
    PROVE  GoodOutcome(st, Continues(u))
  BY EventConcat DEF GoodOutcome, GoodStream, Continues, EventsOf, StreamOK, Terminal

\* finalizeRemoteStream: a completed or failed stream, never both.
LEMMA FinalizeGood ==
    ASSUME NEW st, GoodStream(st), ~st.remoteEnd, st.finalHdrs
    PROVE  GoodOutcome(st, finalizeRemoteStream(st))
  <1>1. st \in StreamType
    BY DEF GoodStream
  <1>2. CASE st.expected >= 0 /\ ~expectsNoBody(st) /\ st.received # st.expected
    BY <1>1, <1>2, FailedStreamGood DEF finalizeRemoteStream
  <1>3. CASE ~(st.expected >= 0 /\ ~expectsNoBody(st) /\ st.received # st.expected)
    <2> DEFINE o == finalizeRemoteStream(st)
    <2>1. EventsOf(st) = <<>>
      BY DEF EventsOf
    <2>2. CASE st.localEnd
      <3>1. /\ o.st \in StreamType /\ o.st.state = "CLOSED"
            /\ o.ev = <<"RESPONSE_COMPLETED", "STREAM_CLOSED">>
        BY <1>1, <1>3, <2>2 DEF finalizeRemoteStream, StreamType, StreamStates
      <3> QED BY <3>1, <2>1, EventConcat, EventTypes, Zenon DEF GoodOutcome
    <2>3. CASE ~st.localEnd
      <3>1. /\ o.st \in StreamType /\ o.st.state # "CLOSED" /\ o.st.remoteEnd
            /\ o.ev = <<"RESPONSE_COMPLETED">>
        BY <1>1, <1>3, <2>3 DEF finalizeRemoteStream, StreamType, StreamStates
      <3>2. GoodStream(o.st)
        BY <1>1, <1>3, <2>3 DEF finalizeRemoteStream, StreamType, StreamStates,
           GoodStream, StreamOK, StateOf, Whole
      <3> QED BY <3>1, <3>2, <2>1, EventConcat, EventTypes, Zenon
              DEF GoodOutcome, EventsOf
    <2> QED BY <2>2, <2>3
  <1> QED BY <1>2, <1>3

\* emitPendingRequestBody sends no more than the two windows and the body
\* allow, and afterwards one of the three is exhausted.
LEMMA SendableBounds ==
    ASSUME NEW st, GoodStream(st), NEW w \in Nat
    PROVE  /\ Sendable(st, w) \in Nat
           /\ Sendable(st, w) <= w
           /\ Sendable(st, w) <= st.body - st.offset
           /\ Sendable(st, w) = 0 \/ Sendable(st, w) <= st.out
  BY FlowAssumption
     DEF Sendable, GoodStream, StreamType, StreamOK, Lesser, Greater, Available, Int32Min

LEMMA EmitGood ==
    ASSUME NEW st, GoodStream(st), NEW w \in Nat
    PROVE  /\ GoodOutcome(st, emitPendingRequestBody(st, w))
           /\ Sendable(emitPendingRequestBody(st, w).st, w - Sendable(st, w)) = 0
  <1> DEFINE n == Sendable(st, w)
             o == emitPendingRequestBody(st, w)
  <1>1. n \in Nat /\ n <= w /\ n <= st.body - st.offset /\ (n = 0 \/ n <= st.out)
    BY SendableBounds
  <1>2. st \in StreamType /\ StreamOK(st) /\ Whole(st.in, st.opened)
    BY DEF GoodStream
  <1> HIDE DEF n
  <1>0. /\ st.offset \in Nat /\ st.body \in Nat /\ st.out \in Int32Min .. Int32Max
        /\ Int32Min \in Int /\ Int32Min <= 0 /\ Int32Max \in Nat
    BY <1>2, FlowAssumption DEF StreamType, Int32Min
  <1>3. GoodOutcome(st, o)
    <2> DEFINE sent == [st EXCEPT !.offset = @ + n, !.out = @ - n]
    <2>0. sent \in StreamType
      <3>1. st.offset + n \in Nat /\ st.out - n \in Int32Min .. Int32Max
        BY <1>0, <1>1
      <3> QED BY <1>2, <3>1, SentType
    <2>1. CASE ~(n > 0 /\ st.offset + n = st.body)
      <3>1. o = Continues(sent)
        BY <2>1 DEF emitPendingRequestBody, n
      <3>2. sent \in StreamType
        BY <2>0
      <3>3. StreamOK(sent) /\ Whole(sent.in, sent.opened)
        BY <1>0, <1>1, <1>2, <2>1 DEF StreamType, StreamOK, StateOf, Whole
      <3>4. sent.remoteEnd = st.remoteEnd /\ st.remoteEnd \in BOOLEAN
        BY <1>2 DEF StreamType
      <3> QED BY <3>1, <3>2, <3>3, <3>4, ContinuesGood DEF GoodStream
    <2>2. CASE n > 0 /\ st.offset + n = st.body /\ st.remoteEnd
      <3>1. /\ o.st \in StreamType /\ o.st.state = "CLOSED"
            /\ o.ev = <<"STREAM_CLOSED">>
        <4> DEFINE u == [sent EXCEPT !.localEnd = TRUE, !.state = "CLOSED"]
        <4>1. o = [st |-> u, ev |-> <<"STREAM_CLOSED">>]
          BY <2>2 DEF emitPendingRequestBody, n
        <4>2. u \in StreamType
          BY <2>0, EndedType DEF StreamStates
        <4>3. u.state = "CLOSED"
          BY <2>0 DEF StreamType
        <4> HIDE DEF u, o
        <4> QED BY <4>1, <4>2, <4>3
      <3>2. EventsOf(st) = <<"RESPONSE_COMPLETED">>
        BY <2>2 DEF EventsOf
      <3> QED BY <3>1, <3>2, EventConcat, EventTypes, Zenon DEF GoodOutcome
    <2>3. CASE n > 0 /\ st.offset + n = st.body /\ ~st.remoteEnd
      <3> DEFINE u == [sent EXCEPT !.localEnd = TRUE, !.state = "HALF_CLOSED_LOCAL"]
      <3>1. o = Continues(u)
        BY <2>3 DEF emitPendingRequestBody, n
      <3>2. u \in StreamType
        BY <2>0, EndedType DEF StreamStates
      <3>3. StreamOK(u) /\ Whole(u.in, u.opened)
        BY <1>0, <1>1, <1>2, <2>3 DEF StreamType, StreamOK, StateOf, Whole
      <3>4. u.remoteEnd = st.remoteEnd /\ st.remoteEnd \in BOOLEAN
        BY <1>2 DEF StreamType
      <3> QED BY <3>1, <3>2, <3>3, <3>4, ContinuesGood DEF GoodStream
    <2> QED BY <1>2, <2>1, <2>2, <2>3 DEF StreamType
  <1>4. Sendable(o.st, w - n) = 0
    BY <1>1, <1>2 DEF n, emitPendingRequestBody, Sendable, StreamType, StreamOK, StateOf,
       Continues, Lesser, Greater, Available
  <1> QED BY <1>3, <1>4 DEF n
-----------------------------------------------------------------------------
(***************************************************************************)
(* The three ways in which handlers end: the connection is closed, some    *)
(* streams are dropped, or one stream goes on with an outcome.             *)
(***************************************************************************)
LEMMA DroppedEvents ==
    ASSUME NEW st \in StreamType
    PROVE  EventsOf(st) \o FailedEvents \in Verdicts
  <1>1. CASE st.remoteEnd
    BY <1>1, EventConcat, Zenon DEF EventsOf
  <1>2. CASE ~st.remoteEnd
    BY <1>2, EventConcat, EventTypes, Zenon DEF EventsOf
  <1> QED BY <1>1, <1>2

\* DropStreams ends every dropped stream with a verdict.
LEMMA DropGood ==
    ASSUME IInv, NEW S, DropStreams(S), conn'.nextId = conn.nextId
    PROVE  /\ live' \subseteq live
           /\ \A s \in live' : streams'[s] = streams[s]
           /\ streams' \in [StreamIds -> StreamType]
           /\ events' \in [StreamIds -> Seq(Terminal)]
           /\ OneVerdict'
  <1> USE DEF IInv
  <1>1. live' \subseteq live /\ live \subseteq StreamIds
    BY DEF DropStreams, TypeOK
  <1>2. \A s \in live' : streams'[s] = streams[s] /\ events'[s] = events[s]
    BY <1>1 DEF DropStreams
  <1>3. NoStream \in StreamType
    BY FlowAssumption
       DEF NoStream, StreamType, StreamStates, NoLength, InFlows, InFlowInit, Methods, Int32Min
  <1>4. streams' \in [StreamIds -> StreamType]
    BY <1>3 DEF DropStreams, TypeOK
  <1>5. \A s \in StreamIds : events[s] \o FailedEvents \in Seq(Terminal)
    BY EventTypes, ConcatProperties DEF TypeOK
  <1>6. events' \in [StreamIds -> Seq(Terminal)]
    BY <1>5 DEF DropStreams, TypeOK
  <1>7. OneVerdict'
    <2> SUFFICES ASSUME NEW s \in StreamIds
                 PROVE  /\ s \in live' => events'[s] = EventsOf(streams'[s])
                        /\ s >= conn.nextId => events'[s] = <<>>
                        /\ s < conn.nextId /\ s \notin live' => events'[s] \in Verdicts
      BY DEF OneVerdict
    <2>1. CASE s \in live'
      BY <2>1, <1>1, <1>2 DEF OneVerdict, StreamTableOK, TypeOK, ConnType, StreamIds
    <2>2. CASE s \notin live' /\ s \in S \cap live
      <3>1. events'[s] = EventsOf(streams[s]) \o FailedEvents
        BY <2>2 DEF DropStreams, OneVerdict
      <3>2. events'[s] \in Verdicts
        BY <3>1, DroppedEvents DEF TypeOK
      <3>3. s < conn.nextId /\ s \in Nat /\ conn.nextId \in Nat
        BY <2>2 DEF StreamTableOK, TypeOK, ConnType, StreamIds
      <3> QED BY <3>2, <3>3, <2>2
    <2>3. CASE s \notin live' /\ s \notin S \cap live
      BY <2>3 DEF DropStreams, OneVerdict
    <2> QED BY <2>1, <2>2, <2>3
  <1> QED BY <1>1, <1>2, <1>4, <1>6, <1>7

\* failConnection, close and onTransportClosed.
LEMMA CloseInv ==
    ASSUME IInv, Quiet, DropStreams(live),
           conn' \in ConnType, conn'.closed, conn'.nextId = conn.nextId,
           UNCHANGED <<settings, connOut, loop, pings>>,
           connIn' \in InFlows, Within(connIn', ConfigWindow), peer' \in PeerType
    PROVE  IInv'
  <1> USE DEF IInv
  <1>1. live' = {}
    BY DEF DropStreams
  <1>2. TypeOK'
    BY <1>1, DropGood DEF TypeOK
  <1>3. StreamTableOK'
    BY <1>1 DEF StreamTableOK
  <1>4. LoopOK'
    BY <1>1 DEF LoopOK, Quiet
  <1>5. WindowsBounded'
    BY <1>1 DEF WindowsBounded
  <1>6. HeaderBlockKept'
    BY DEF HeaderBlockKept
  <1> QED BY <1>2, <1>3, <1>4, <1>5, <1>6, DropGood

LEMMA FailConnectionInv ==
    ASSUME IInv, Quiet, NEW c \in ConnType, c.nextId = conn.nextId,
           NEW code \in ErrorCodes, NEW why \in Causes,
           failConnection(c, code, why),
           UNCHANGED <<settings, connOut, loop, pings>>,
           connIn' \in InFlows, Within(connIn', ConfigWindow), peer' \in PeerType
    PROVE  IInv'
  <1>1. conn' \in ConnType /\ conn'.closed /\ conn'.nextId = conn.nextId
    BY DEF failConnection, ConnType
  <1>2. DropStreams(live)
    BY DEF failConnection
  <1> QED BY <1>1, <1>2, CloseInv

\* failStream, and GOAWAY which also sets receivedGoaway.
LEMMA DropInv ==
    ASSUME IInv, Quiet, NEW S, DropStreams(S),
           conn' \in ConnType, conn'.ghost = Ghosted(S),
           conn'.closed = conn.closed, conn'.nextId = conn.nextId,
           conn'.expecting = conn.expecting,
           conn'.continuationId = conn.continuationId,
           UNCHANGED <<settings, connOut, loop, pings>>,
           connIn' \in InFlows, Within(connIn', ConfigWindow),
           peer' \in PeerType, peer'.block = peer.block
    PROVE  IInv'
  <1> USE DEF IInv
  <1>1. TypeOK'
    BY DropGood DEF TypeOK
  <1>2. StreamTableOK'
    BY DropGood DEF StreamTableOK
  <1>3. LoopOK'
    BY DropGood DEF LoopOK, Quiet
  <1>4. WindowsBounded'
    BY DropGood DEF WindowsBounded
  <1>5. HeaderBlockKept'
    <2> SUFFICES ASSUME ~conn.closed PROVE HeaderBlockKept'
      BY DEF HeaderBlockKept
    <2> DEFINE W == {s \in S \cap live : streams[s].waiting /\ streams[s].pendingHdr > 0}
               k == conn.continuationId
    <2>1. \A s \in W : conn.expecting /\ s = k
      BY DEF HeaderBlockKept
    <2>2. CASE W = {}
      <3>1. conn'.ghost = conn.ghost
        BY <2>2 DEF Ghosted
      <3>2. CASE conn.expecting /\ k \in live /\ k \in S
        <4>1. streams[k].pendingHdr = 0
          BY <2>2, <3>2 DEF HeaderBlockKept, TypeOK, StreamType
        <4> QED BY <3>1, <3>2, <4>1, DropGood DEF HeaderBlockKept, DropStreams
      <3>3. CASE conn.expecting /\ ~(k \in live /\ k \in S)
        <4>1. k \in live <=> k \in live'
          BY <3>3 DEF DropStreams
        <4>2. \A s \in live' : s \in live /\ streams'[s] = streams[s]
          BY DropGood
        <4> QED BY <3>1, <3>3, <4>1, <4>2 DEF HeaderBlockKept
      <3>4. CASE ~conn.expecting
        BY <3>1, <3>4, DropGood DEF HeaderBlockKept
      <3> QED BY <3>2, <3>3, <3>4
    <2>3. CASE W # {}
      <3>1. W = {k} /\ conn.expecting
        BY <2>1, <2>3
      <3>2. (CHOOSE s \in W : TRUE) = k
        <4> HIDE DEF W
        <4> QED BY <3>1
      <3>3. conn'.ghost = streams[k].pendingHdr
        BY <2>3, <3>2 DEF Ghosted
      <3>4. k \in live /\ k \notin live'
        BY <3>1 DEF DropStreams
      <3> QED BY <3>1, <3>3, <3>4, DropGood DEF HeaderBlockKept
    <2> QED BY <2>2, <2>3
  <1> QED BY <1>1, <1>2, <1>3, <1>4, <1>5, DropGood

\* A window that shrinks leaves nothing to send where there was nothing.
LEMMA SendableMono ==
    ASSUME NEW st, GoodStream(st), NEW w \in Nat, NEW v \in Nat, v <= w,
           Sendable(st, w) = 0
    PROVE  Sendable(st, v) = 0
  BY FlowAssumption
     DEF Sendable, GoodStream, StreamType, StreamOK, Lesser, Greater, Available, Int32Min

LEMMA LiveGood ==
    ASSUME IInv PROVE \A s \in live : GoodStream(streams[s])
  BY DEF IInv, TypeOK, StreamTableOK, WindowsBounded, GoodStream

\* One stream of the map gets a good outcome outside every header block.
LEMMA SetStreamInv ==
    ASSUME IInv, NEW s \in live, NEW o, SetStream(s, o),
           GoodOutcome(streams[s], o),
           o.st.state # "CLOSED" => ~o.st.waiting /\ o.st.pendingHdr = 0,
           \A t \in live : t # s => ~streams[t].waiting /\ streams[t].pendingHdr = 0,
           conn' \in ConnType, conn'.closed = conn.closed,
           conn'.nextId = conn.nextId, ~conn'.expecting, conn'.ghost = 0,
           peer' \in PeerType, peer'.block = 0,
           connIn' \in InFlows, Within(connIn', ConfigWindow),
           connOut' \in Nat, connOut' <= connOut,
           loop' \in LoopType, loop'.todo \subseteq live',
           loop'.kind \in {"none", "crashed"} <=> loop'.todo = {},
           loop'.kind = "crashed" => loop'.undefined,
           ~loop'.undefined =>
              /\ ~loop.undefined
              /\ loop.todo \subseteq loop'.todo \cup {s}
              /\ s \notin loop'.todo /\ o.st.state # "CLOSED"
                    => Sendable(o.st, connOut') = 0,
           UNCHANGED <<settings, pings>>
    PROVE  IInv'
  <1> USE DEF IInv
  <1>0. s \in StreamIds /\ live \subseteq StreamIds
    BY DEF TypeOK
  <1>1. NoStream \in StreamType
    BY FlowAssumption
       DEF NoStream, StreamType, StreamStates, NoLength, InFlows, InFlowInit, Methods, Int32Min
  <1>2. /\ live' \subseteq live
        /\ \A t \in live' \ {s} : streams'[t] = streams[t]
        /\ s \in live' <=> o.st.state # "CLOSED"
        /\ s \in live' => streams'[s] = o.st
        /\ live \ {s} \subseteq live'
    BY <1>0 DEF SetStream, TypeOK
  <1>3. streams' \in [StreamIds -> StreamType]
    BY <1>0, <1>1 DEF SetStream, TypeOK, GoodOutcome
  <1>4. events' \in [StreamIds -> Seq(Terminal)]
    <2>1. events[s] \o o.ev \in Seq(Terminal)
      BY <1>0, ConcatProperties DEF TypeOK, GoodOutcome
    <2> QED BY <1>0, <2>1 DEF SetStream, TypeOK
  <1>5. TypeOK'
    BY <1>2, <1>3, <1>4, FlowAssumption DEF TypeOK, Int32Min
  <1>6. \A t \in live' : GoodStream(streams'[t])
    BY <1>2, LiveGood DEF GoodOutcome
  <1>7. StreamTableOK'
    BY <1>2, <1>6 DEF StreamTableOK, GoodStream
  <1>8. WindowsBounded'
    BY <1>6 DEF WindowsBounded, GoodStream
  <1>9. LoopOK'
    <2>1. ASSUME ~loop'.undefined, NEW t \in live' \ loop'.todo
          PROVE  Sendable(streams'[t], connOut') = 0
      <3>1. CASE t = s
        BY <1>2, <2>1, <3>1
      <3>2. CASE t # s
        <4>1. t \in live \ loop.todo /\ streams'[t] = streams[t]
          BY <1>2, <2>1, <3>2
        <4>2. Sendable(streams[t], connOut) = 0
          BY <2>1, <4>1 DEF LoopOK
        <4>3. connOut \in Nat
          BY DEF TypeOK, WindowsBounded, Int32Min
        <4> QED BY <4>1, <4>2, <4>3, SendableMono, LiveGood
      <3> QED BY <3>1, <3>2
    <2> QED BY <2>1 DEF LoopOK
  <1>10. HeaderBlockKept'
    BY <1>2 DEF HeaderBlockKept
  <1>11. OneVerdict'
    <2> SUFFICES ASSUME NEW t \in StreamIds
                 PROVE  /\ t \in live' => events'[t] = EventsOf(streams'[t])
                        /\ t >= conn.nextId => events'[t] = <<>>
                        /\ t < conn.nextId /\ t \notin live' => events'[t] \in Verdicts
      BY DEF OneVerdict
    <2>1. CASE t # s
      BY <1>2, <2>1 DEF SetStream, OneVerdict, TypeOK
    <2>2. CASE t = s
      <3>1. events'[s] = EventsOf(streams[s]) \o o.ev
        BY <1>0 DEF SetStream, OneVerdict, TypeOK
      <3>2. s < conn.nextId /\ s \in Nat /\ conn.nextId \in Nat
        BY <1>0 DEF StreamTableOK, TypeOK, ConnType, StreamIds
      <3>3. ~(s >= conn.nextId)
        BY <3>2
      <3>4. CASE o.st.state = "CLOSED"
        <4>1. events'[s] \in Verdicts
          BY <3>1, <3>4, Zenon DEF GoodOutcome
        <4> QED BY <1>2, <2>2, <3>3, <3>4, <4>1, Zenon
      <3>5. CASE o.st.state # "CLOSED"
        <4>1. events'[s] = EventsOf(o.st)
          BY <3>1, <3>5, Zenon DEF GoodOutcome
        <4> QED BY <1>2, <2>2, <3>3, <3>5, <4>1, Zenon
      <3> QED BY <3>4, <3>5
    <2> QED BY <2>1, <2>2
  <1> QED BY <1>5, <1>7, <1>8, <1>9, <1>10, <1>11

\* InFlow::take and InFlow::add keep a window within the bound it was opened
\* with; the refresh is never negative.
LEMMA FlowWithin ==
    ASSUME NEW f \in InFlows, NEW b \in 0 .. Int32Max, Within(f, b),
           NEW n \in Nat, n = 0 \/ CanTake(f, n)
    PROVE  /\ Taken(f, n) \in InFlows /\ Within(Taken(f, n), b)
           /\ Added(Taken(f, n), n) \in InFlows /\ Within(Added(Taken(f, n), n), b)
           /\ Whole(f, b) => Whole(Added(Taken(f, n), n), b)
           /\ Refresh(Taken(f, n), n) \in Nat
  <1> DEFINE g == Taken(f, n)
  <1>1. f.avail \in Int /\ f.unsnt \in Int /\ n <= f.avail
    BY DEF InFlows, Within, CanTake
  <1>2. g = [avail |-> f.avail - n, unsnt |-> f.unsnt]
    BY DEF Taken, InFlows
  <1>3. g \in InFlows /\ Within(g, b) /\ g.avail = f.avail - n /\ g.unsnt = f.unsnt
    BY <1>1, <1>2 DEF InFlows, Within
  <1> HIDE DEF g
  <1>4. g.unsnt + n \in Nat /\ g.unsnt + n <= Int32Max
    BY <1>1, <1>3, FlowAssumption DEF Within
  <1>5. Refresh(g, n) \in Nat
    BY <1>4, FlowAssumption DEF Refresh
  <1>6. Added(g, n) \in {[g EXCEPT !.unsnt = g.unsnt + n],
                         [avail |-> g.avail + (g.unsnt + n), unsnt |-> 0]}
    BY <1>4, FlowAssumption DEF Added
  <1>7. [g EXCEPT !.unsnt = g.unsnt + n]
          = [avail |-> f.avail - n, unsnt |-> f.unsnt + n]
    BY <1>2, <1>3 DEF g
  <1>8. /\ Added(g, n) \in InFlows /\ Within(Added(g, n), b)
        /\ Whole(f, b) => Whole(Added(g, n), b)
    <2>1. CASE Added(g, n) = [avail |-> f.avail - n, unsnt |-> f.unsnt + n]
      BY <1>1, <2>1 DEF InFlows, Within, Whole
    <2>2. CASE Added(g, n) = [avail |-> g.avail + (g.unsnt + n), unsnt |-> 0]
      BY <1>1, <1>3, <2>2 DEF InFlows, Within, Whole
    <2> QED BY <1>6, <1>7, <2>1, <2>2
  <1> QED BY <1>3, <1>5, <1>8 DEF g

LEMMA PeerSendsType ==
    ASSUME peer \in PeerType, NEW s \in Nat, NEW len \in Nat, NEW a \in Nat, NEW b \in Nat
    PROVE  PeerSends(s, len, a, b) \in PeerType /\ PeerSends(s, len, a, b).block = peer.block
  <1> DEFINE w == Greater(0, peer.window - len) + a
             ps == [t \in StreamIds |-> IF t = s THEN Greater(0, peer.streams[t] - len) + b
                                         ELSE peer.streams[t]]
             ov == \/ peer.overran
                   \/ len > peer.window
                   \/ s \in StreamIds /\ len > peer.streams[s]
  <1>1. w \in Nat /\ ps \in [StreamIds -> Nat] /\ ov \in BOOLEAN
    BY DEF PeerType, Greater
  <1>2. PeerSends(s, len, a, b)
          = [peer EXCEPT !.window = w, !.streams = ps, !.overran = ov]
    BY DEF PeerSends
  <1> HIDE DEF w, ps, ov
  <1> QED BY <1>1, <1>2 DEF PeerType
-----------------------------------------------------------------------------
(***************************************************************************)
(* One lemma per group of actions: each preserves IInv.                    *)
(***************************************************************************)
\* Outside a header block no stream holds a fragment.
LEMMA OutsideBlock ==
    ASSUME IInv, ~conn.closed, ~conn.expecting
    PROVE  /\ conn.ghost = 0 /\ peer.block = 0
           /\ \A s \in live : ~streams[s].waiting /\ streams[s].pendingHdr = 0
  BY DEF IInv, HeaderBlockKept

LEMMA StutterInv == ASSUME IInv, UNCHANGED vars PROVE IInv'
  BY DEF IInv, vars, TypeOK, StreamTableOK, LoopOK, WindowsBounded,
     HeaderBlockKept, OneVerdict

LEMMA StartPingInv ==
    ASSUME IInv, start \/ sendPing PROVE IInv'
  <1>1. CASE start
    <2>1. /\ conn' \in ConnType /\ conn'.nextId = conn.nextId
          /\ conn'.closed = conn.closed /\ conn'.expecting = conn.expecting
          /\ conn'.continuationId = conn.continuationId /\ conn'.ghost = conn.ghost
      BY <1>1 DEF start, IInv, TypeOK, ConnType
    <2> QED BY <1>1, <2>1 DEF start, IInv, TypeOK, StreamTableOK, LoopOK,
               WindowsBounded, HeaderBlockKept, OneVerdict
  <1>2. CASE sendPing
    BY <1>2 DEF sendPing, IInv, TypeOK, StreamTableOK, LoopOK, WindowsBounded,
       HeaderBlockKept, OneVerdict
  <1> QED BY <1>1, <1>2

LEMMA ClosingInv ==
    ASSUME IInv, close \/ onTransportClosed PROVE IInv'
  <1>1. Quiet /\ DropStreams(live) /\ UNCHANGED <<settings, connIn, connOut, loop, pings, peer>>
    BY DEF close, onTransportClosed
  <1>2. conn' \in ConnType /\ conn'.closed /\ conn'.nextId = conn.nextId
    <2>1. conn \in ConnType
      BY DEF IInv, TypeOK
    <2>2. CASE close
      BY <2>1, <2>2 DEF close, ConnType
    <2>3. CASE onTransportClosed
      BY <2>1, <2>3 DEF onTransportClosed, ConnType
    <2> QED BY <2>2, <2>3
  <1>3. connIn' \in InFlows /\ Within(connIn', ConfigWindow) /\ peer' \in PeerType
    BY <1>1 DEF IInv, TypeOK, WindowsBounded
  <1> QED BY <1>1, <1>2, <1>3, CloseInv

\* failConnection with the flows and the peer's view left alone
LEMMA BlameInv ==
    ASSUME IInv, Quiet, NEW code \in ErrorCodes, NEW why \in Causes,
           failConnection(conn, code, why),
           UNCHANGED <<settings, connIn, connOut, loop, pings>>, peer' \in PeerType
    PROVE  IInv'
  <1>1. connIn' \in InFlows /\ Within(connIn', ConfigWindow) /\ conn \in ConnType
    BY DEF IInv, TypeOK, WindowsBounded
  <1> QED BY <1>1, FailConnectionInv

LEMMA BadFrameInv ==
    ASSUME IInv, NEW type \in FrameTypes, rejectFrame(type) \/ malformedFrame(type)
    PROVE  IInv'
  <1>1. PICK code \in ErrorCodes, why \in Causes : failConnection(conn, code, why)
    <2>1. CASE rejectFrame(type)
      <3>1. \/ failConnection(conn, "PROTOCOL_ERROR", "order")
            \/ failConnection(conn, "FRAME_SIZE_ERROR", "size")
        BY <2>1 DEF rejectFrame
      <3> QED BY <3>1 DEF ErrorCodes, Causes
    <2>2. CASE malformedFrame(type)
      <3>1. MalformedCodes(type) \subseteq ErrorCodes
        BY DEF MalformedCodes, ErrorCodes, FrameTypes
      <3>2. \E code \in MalformedCodes(type) : failConnection(conn, code, "malformed")
        BY <2>2 DEF malformedFrame
      <3> QED BY <3>1, <3>2 DEF Causes
    <2> QED BY <2>1, <2>2
  <1>2. Quiet /\ UNCHANGED <<settings, connIn, connOut, loop, pings, peer>>
    BY DEF rejectFrame, malformedFrame, Receiving, Reading, Unchanged4
  <1>3. peer' \in PeerType
    BY <1>2 DEF IInv, TypeOK
  <1> QED BY <1>1, <1>2, <1>3, BlameInv

LEMMA UnexpectedContinuationInv ==
    ASSUME IInv, NEW s, unexpectedContinuation(s) PROVE IInv'
  <1>1. /\ Quiet /\ UNCHANGED <<settings, connIn, connOut, loop, pings>>
        /\ failConnection(conn, "PROTOCOL_ERROR", "unexpected CONTINUATION")
        /\ peer' \in PeerType
    BY DEF unexpectedContinuation, Receiving, Reading, Unchanged4, IInv, TypeOK
  <1>2. "PROTOCOL_ERROR" \in ErrorCodes /\ "unexpected CONTINUATION" \in Causes
    BY DEF ErrorCodes, Causes
  <1> QED BY <1>1, <1>2, BlameInv

LEMMA InvalidSettingsInv ==
    ASSUME IInv, NEW p, invalidSettings(p) PROVE IInv'
  <1> DEFINE c == [conn EXCEPT !.gotPeerSettings = TRUE]
  <1>1. PICK code \in ErrorCodes : failConnection(c, code, "invalid peer settings")
    BY DEF invalidSettings, SettingsErrors, ErrorCodes
  <1>2. Quiet /\ UNCHANGED <<settings, connIn, connOut, loop, pings, peer>>
    BY DEF invalidSettings, Receiving, Reading, Unchanged4
  <1>3. connIn' \in InFlows /\ Within(connIn', ConfigWindow) /\ peer' \in PeerType
    BY <1>2 DEF IInv, TypeOK, WindowsBounded
  <1>4. c \in ConnType /\ c.nextId = conn.nextId
    BY DEF IInv, TypeOK, ConnType
  <1>5. "invalid peer settings" \in Causes
    BY DEF Causes
  <1> HIDE DEF c
  <1> QED BY <1>1, <1>2, <1>3, <1>4, <1>5, FailConnectionInv

\* failStream in a handler
LEMMA FailStreamInv ==
    ASSUME IInv, Quiet, NEW S, failStream(S),
           UNCHANGED <<settings, connOut, loop, pings>>,
           connIn' \in InFlows, Within(connIn', ConfigWindow),
           peer' \in PeerType, peer'.block = peer.block
    PROVE  IInv'
  <1>1. Ghosted(S) \in Nat
    <2> DEFINE W == {s \in S \cap live : streams[s].waiting /\ streams[s].pendingHdr > 0}
    <2>1. CASE W = {}
      BY <2>1 DEF Ghosted, IInv, TypeOK, ConnType
    <2>2. CASE W # {}
      <3>1. (CHOOSE s \in W : TRUE) \in W
        BY <2>2
      <3>2. \A s \in W : streams[s].pendingHdr \in Nat
        BY DEF IInv, TypeOK, StreamType
      <3> QED BY <2>2, <3>1, <3>2 DEF Ghosted
    <2> QED BY <2>1, <2>2
  <1>2. /\ DropStreams(S)
        /\ conn' = [conn EXCEPT !.ghost = Ghosted(S)]
        /\ conn \in ConnType
    BY DEF failStream, IInv, TypeOK
  <1>3. /\ conn' \in ConnType /\ conn'.ghost = Ghosted(S)
        /\ conn'.closed = conn.closed /\ conn'.nextId = conn.nextId
        /\ conn'.expecting = conn.expecting
        /\ conn'.continuationId = conn.continuationId
    BY <1>1, <1>2 DEF ConnType
  <1> QED BY <1>2, <1>3, DropInv

LEMMA CancelInv ==
    ASSUME IInv, NEW s, cancelStream(s) PROVE IInv'
  <1>1. Quiet /\ failStream({s}) /\ UNCHANGED <<settings, connIn, connOut, loop, pings, peer>>
    BY DEF cancelStream
  <1>2. /\ connIn' \in InFlows /\ Within(connIn', ConfigWindow)
        /\ peer' \in PeerType /\ peer'.block = peer.block
    BY <1>1 DEF IInv, TypeOK, WindowsBounded
  <1> QED BY <1>1, <1>2, FailStreamInv

LEMMA RstStreamInv ==
    ASSUME IInv, NEW s, rstStream(s) PROVE IInv'
  <1>1. Quiet /\ UNCHANGED <<settings, connIn, connOut, loop, pings, peer>>
    BY DEF rstStream, Receiving, Reading, Unchanged4
  <1>2. /\ connIn' \in InFlows /\ Within(connIn', ConfigWindow)
        /\ peer' \in PeerType /\ peer'.block = peer.block
    BY <1>1 DEF IInv, TypeOK, WindowsBounded
  <1>3. \/ failConnection(conn, "PROTOCOL_ERROR", "idle stream")
        \/ failStream({s})
    BY DEF rstStream
  <1>4. "PROTOCOL_ERROR" \in ErrorCodes /\ "idle stream" \in Causes
    BY DEF ErrorCodes, Causes
  <1> QED BY <1>1, <1>2, <1>3, <1>4, FailStreamInv, BlameInv

LEMMA GoAwayInv ==
    ASSUME IInv, NEW last, goAway(last) PROVE IInv'
  <1> DEFINE S == {s \in live : s > last}
             W == {s \in S \cap live : streams[s].waiting /\ streams[s].pendingHdr > 0}
  <1>1. /\ Quiet /\ DropStreams(S) /\ ~conn.expecting /\ ~conn.closed
        /\ UNCHANGED <<settings, connIn, connOut, loop, pings, peer>>
        /\ conn' = [conn EXCEPT !.receivedGoaway = TRUE, !.ghost = Ghosted(S)]
    BY DEF goAway, Receiving, Reading, InOrder, Unchanged4
  <1>2. W = {}
    BY <1>1, OutsideBlock
  <1>3. Ghosted(S) = 0
    BY <1>1, <1>2, OutsideBlock DEF Ghosted
  <1> HIDE DEF S
  <1>4. /\ conn' \in ConnType /\ conn'.ghost = Ghosted(S)
        /\ conn'.closed = conn.closed /\ conn'.nextId = conn.nextId
        /\ conn'.expecting = conn.expecting
        /\ conn'.continuationId = conn.continuationId
    <2>1. conn \in ConnType
      BY DEF IInv, TypeOK
    <2>2. conn' = [conn EXCEPT !.receivedGoaway = TRUE, !.ghost = 0]
      BY <1>1, <1>3
    <2> QED BY <1>3, <2>1, <2>2 DEF ConnType
  <1>5. /\ connIn' \in InFlows /\ Within(connIn', ConfigWindow)
        /\ peer' \in PeerType /\ peer'.block = peer.block
    BY <1>1 DEF IInv, TypeOK, WindowsBounded
  <1> QED BY <1>1, <1>4, <1>5, DropInv

\* The peer's inputs have the types the assumptions give them.
LEMMA InputTypes ==
    /\ PeerIds \subseteq Nat /\ Lens \subseteq Nat /\ Fragments \subseteq Nat
    /\ \A h \in Blocks : h.list \in Nat /\ h.cl \in Int /\ h.status \in Statuses
    /\ ConfigWindow \in 0 .. Int32Max
  BY ProtocolAssumption, FlowAssumption

\* u is st with other bookkeeping of its response.
SameSending(st, u) ==
    /\ u.remoteEnd = st.remoteEnd /\ u.localEnd = st.localEnd /\ u.state = st.state
    /\ u.body = st.body /\ u.offset = st.offset /\ u.out = st.out

LEMMA SameSendable ==
    ASSUME NEW st, NEW u, SameSending(st, u), NEW w
    PROVE  Sendable(u, w) = Sendable(st, w)
  BY DEF SameSending, Sendable

LEMMA SameOutcome ==
    ASSUME NEW st, NEW u, SameSending(st, u), NEW o, GoodOutcome(u, o)
    PROVE  GoodOutcome(st, o)
  BY DEF SameSending, GoodOutcome, EventsOf

\* What finalizeRemoteStream leaves alone in a stream that stays in the map.
LEMMA FinalizeKeeps ==
    ASSUME NEW st, GoodStream(st), NEW w, NEW o, o = finalizeRemoteStream(st),
           o.st.state # "CLOSED"
    PROVE  /\ o.st.waiting = st.waiting /\ o.st.pendingHdr = st.pendingHdr
           /\ Sendable(o.st, w) = Sendable(st, w)
  <1>1. st \in StreamType /\ st.state # "CLOSED"
    BY DEF GoodStream, StreamOK
  <1>2. ~(st.expected >= 0 /\ ~expectsNoBody(st) /\ st.received # st.expected) /\ ~st.localEnd
    BY <1>1 DEF finalizeRemoteStream, FailedStream, StreamType
  <1>3. o.st = [st EXCEPT !.remoteEnd = TRUE, !.state = "HALF_CLOSED_REMOTE"]
    BY <1>2 DEF finalizeRemoteStream
  <1>4. /\ o.st.waiting = st.waiting /\ o.st.pendingHdr = st.pendingHdr
        /\ o.st.state = "HALF_CLOSED_REMOTE" /\ o.st.localEnd = st.localEnd
        /\ o.st.body = st.body /\ o.st.offset = st.offset /\ o.st.out = st.out
    BY <1>1, <1>3 DEF StreamType
  <1> QED BY <1>1, <1>2, <1>4 DEF Sendable

LEMMA DataOnUnknownInv ==
    ASSUME IInv, NEW s \in PeerIds, NEW len \in Lens, dataOnUnknownStream(s, len)
    PROVE  IInv'
  <1>1. /\ Quiet /\ ~conn.closed /\ ~conn.expecting
        /\ UNCHANGED <<settings, connOut, loop, pings>>
    BY DEF dataOnUnknownStream, Receiving, Reading, InOrder, Unchanged4
  <1>2. /\ s \in Nat /\ len \in Nat /\ ConfigWindow \in 0 .. Int32Max
        /\ peer \in PeerType /\ connIn \in InFlows /\ Within(connIn, ConfigWindow)
    BY InputTypes DEF IInv, TypeOK, WindowsBounded
  <1>3. CASE s % 2 = 0 \/ s >= conn.nextId
    <2>1. /\ failConnection(conn, "PROTOCOL_ERROR", "not opened")
          /\ UNCHANGED connIn /\ peer' = PeerSends(s, len, 0, 0)
      BY <1>3 DEF dataOnUnknownStream
    <2>2. "PROTOCOL_ERROR" \in ErrorCodes /\ "not opened" \in Causes
      BY DEF ErrorCodes, Causes
    <2> QED BY <1>1, <1>2, <2>1, <2>2, PeerSendsType, BlameInv
  <1>4. CASE ~(s % 2 = 0 \/ s >= conn.nextId) /\ ~CanTake(connIn, len)
    <2>1. /\ failConnection(conn, "FLOW_CONTROL_ERROR", "old stream DATA")
          /\ UNCHANGED connIn /\ peer' = PeerSends(s, len, 0, 0)
      BY <1>4 DEF dataOnUnknownStream
    <2>2. "FLOW_CONTROL_ERROR" \in ErrorCodes /\ "old stream DATA" \in Causes
      BY DEF ErrorCodes, Causes
    <2> QED BY <1>1, <1>2, <2>1, <2>2, PeerSendsType, BlameInv
  <1>5. CASE ~(s % 2 = 0 \/ s >= conn.nextId) /\ CanTake(connIn, len)
    <2>1. /\ connIn' = Added(Taken(connIn, len), len)
          /\ peer' = PeerSends(s, len, Refresh(Taken(connIn, len), len), 0)
          /\ UNCHANGED <<conn, live, streams, events>>
      BY <1>5 DEF dataOnUnknownStream
    <2>2. /\ connIn' \in InFlows /\ Within(connIn', ConfigWindow)
          /\ Refresh(Taken(connIn, len), len) \in Nat
      BY <1>2, <1>5, <2>1, FlowWithin
    <2>3. peer' \in PeerType /\ peer'.block = peer.block
      BY <1>2, <2>1, <2>2, PeerSendsType
    <2> QED BY <1>1, <2>1, <2>2, <2>3 DEF IInv, TypeOK, StreamTableOK, LoopOK,
               WindowsBounded, HeaderBlockKept, OneVerdict
  <1> QED BY <1>3, <1>4, <1>5

LEMMA DataFailsInv ==
    ASSUME IInv, NEW s \in PeerIds, NEW len \in Lens, NEW size,
           dataRefused(s, len) \/ dataOverrun(s, len) \/ dataForbidden(s, len, size)
    PROVE  IInv'
  <1>1. /\ Quiet /\ UNCHANGED <<settings, connOut, loop, pings>>
        /\ peer' = PeerSends(s, len, 0, 0)
    BY DEF dataRefused, dataOverrun, dataForbidden, DataWelcome, Receiving, Reading,
       Unchanged4
  <1>2. /\ s \in Nat /\ len \in Nat /\ ConfigWindow \in 0 .. Int32Max
        /\ peer \in PeerType /\ connIn \in InFlows /\ Within(connIn, ConfigWindow)
    BY InputTypes DEF IInv, TypeOK, WindowsBounded
  <1>3. peer' \in PeerType /\ peer'.block = peer.block
    BY <1>1, <1>2, PeerSendsType
  <1>4. CASE dataRefused(s, len)
    <2>1. failStream({s}) /\ UNCHANGED connIn
      BY <1>4 DEF dataRefused
    <2> QED BY <1>1, <1>2, <1>3, <2>1, FailStreamInv
  <1>5. CASE dataOverrun(s, len)
    <2>1. failConnection(conn, "FLOW_CONTROL_ERROR", "flow control exceeded") /\ UNCHANGED connIn
      BY <1>5 DEF dataOverrun
    <2>2. "FLOW_CONTROL_ERROR" \in ErrorCodes /\ "flow control exceeded" \in Causes
      BY DEF ErrorCodes, Causes
    <2> QED BY <1>1, <1>3, <2>1, <2>2, BlameInv
  <1>6. CASE dataForbidden(s, len, size)
    <2>1. failStream({s}) /\ connIn' = Taken(connIn, len)
      BY <1>6 DEF dataForbidden
    <2>2. len = 0 \/ CanTake(connIn, len)
      BY <1>6 DEF dataForbidden, CanTakeBoth
    <2>3. connIn' \in InFlows /\ Within(connIn', ConfigWindow)
      BY <1>2, <2>1, <2>2, FlowWithin
    <2> QED BY <1>1, <1>3, <2>1, <2>3, FailStreamInv
  <1> QED BY <1>4, <1>5, <1>6

LEMMA DataAcceptedInv ==
    ASSUME IInv, NEW s \in PeerIds, NEW len \in Lens, NEW size \in DataSizes(len),
           NEW end \in BOOLEAN, dataAccepted(s, len, size, end)
    PROVE  IInv'
  <1> DEFINE in  == Taken(streams[s].in, len)
             add == Added(in, len)
             st  == [streams[s] EXCEPT !.received = @ + size, !.in = add]
             o   == IF end THEN finalizeRemoteStream(st) ELSE Continues(st)
  <1>1. /\ Quiet /\ ~conn.closed /\ ~conn.expecting /\ s \in live
        /\ ~streams[s].remoteEnd /\ streams[s].finalHdrs
        /\ UNCHANGED <<settings, connOut, loop, pings, conn>>
        /\ len = 0 \/ (CanTake(connIn, len) /\ CanTake(streams[s].in, len))
        /\ SetStream(s, o)
        /\ connIn' = Added(Taken(connIn, len), len)
        /\ peer' = PeerSends(s, len, Refresh(Taken(connIn, len), len), Refresh(in, len))
    <2>1. DataWelcome(s) /\ Unchanged4 /\ UNCHANGED conn
      BY DEF dataAccepted
    <2>2. len = 0 \/ (CanTake(connIn, len) /\ CanTake(streams[s].in, len))
      <3>1. CanTakeBoth(connIn, streams[s].in, len)
        BY DEF dataAccepted
      <3> QED BY <3>1 DEF CanTakeBoth
    <2>3. /\ SetStream(s, o)
          /\ connIn' = Added(Taken(connIn, len), len)
          /\ peer' = PeerSends(s, len, Refresh(Taken(connIn, len), len), Refresh(in, len))
      BY DEF dataAccepted
    <2> HIDE DEF o, in
    <2> QED BY <2>1, <2>2, <2>3 DEF DataWelcome, Receiving, Reading, InOrder, Unchanged4
  <1>2. /\ s \in Nat /\ len \in Nat /\ size \in Nat /\ ConfigWindow \in 0 .. Int32Max
        /\ Int32Max \in 0 .. Int32Max
        /\ peer \in PeerType /\ connIn \in InFlows /\ Within(connIn, ConfigWindow)
    BY InputTypes, FlowAssumption DEF IInv, TypeOK, WindowsBounded, DataSizes
  <1>3. /\ streams[s] \in StreamType /\ StreamOK(streams[s])
        /\ Whole(streams[s].in, streams[s].opened)
    BY <1>1, LiveGood DEF GoodStream
  <1>4. streams[s].in \in InFlows /\ streams[s].received \in Nat
    BY <1>3 DEF StreamType
  <1>5. add \in InFlows /\ Whole(add, streams[s].opened) /\ Refresh(in, len) \in Nat
    <2>1. Within(streams[s].in, streams[s].opened) /\ streams[s].opened \in 0 .. Int32Max
      BY <1>3, WholeWithin
    <2> QED BY <1>1, <1>2, <1>3, <1>4, <2>1, FlowWithin
  <1>6. /\ connIn' \in InFlows /\ Within(connIn', ConfigWindow)
        /\ Refresh(Taken(connIn, len), len) \in Nat
    BY <1>1, <1>2, FlowWithin
  <1>7. peer' \in PeerType /\ peer'.block = 0
    BY <1>1, <1>2, <1>5, <1>6, PeerSendsType, OutsideBlock
  <1> HIDE DEF add, in
  <1>8. GoodStream(st) /\ SameSending(streams[s], st) /\ st.finalHdrs /\ ~st.remoteEnd
        /\ st.waiting = streams[s].waiting /\ st.pendingHdr = streams[s].pendingHdr
    <2> DEFINE r == streams[s].received + size
    <2>1. r \in Nat
      BY <1>2, <1>4
    <2>2. st = [streams[s] EXCEPT !.received = r, !.in = add]
      OBVIOUS
    <2> HIDE DEF r
    <2>3. st \in StreamType
      BY <1>3, <1>5, <2>1, <2>2 DEF StreamType
    <2>4. /\ SameSending(streams[s], st) /\ st.finalHdrs = streams[s].finalHdrs
          /\ st.in = add /\ st.opened = streams[s].opened
          /\ st.waiting = streams[s].waiting /\ st.pendingHdr = streams[s].pendingHdr
      BY <1>3, <2>2 DEF StreamType, SameSending
    <2>5. StreamOK(st)
      BY <1>1, <1>3, <2>4 DEF StreamOK, StateOf, SameSending
    <2> QED BY <1>1, <1>5, <2>3, <2>4, <2>5 DEF GoodStream, SameSending
  <1> HIDE DEF st
  <1>9. GoodOutcome(streams[s], o)
    <2>1. CASE end
      BY <1>8, <2>1, FinalizeGood, SameOutcome
    <2>2. CASE ~end
      <3>1. streams[s].remoteEnd \in BOOLEAN
        BY <1>3 DEF StreamType
      <3> QED BY <1>8, <2>2, <3>1, ContinuesGood DEF SameSending
    <2> QED BY <2>1, <2>2
  <1>10. o.st.state # "CLOSED" =>
            /\ ~o.st.waiting /\ o.st.pendingHdr = 0
            /\ Sendable(o.st, connOut) = Sendable(streams[s], connOut)
    <2>1. ~st.waiting /\ st.pendingHdr = 0
      BY <1>1, <1>8, OutsideBlock
    <2>2. CASE end
      BY <1>8, <2>1, <2>2, FinalizeKeeps, SameSendable
    <2>3. CASE ~end
      BY <1>8, <2>1, <2>3, SameSendable DEF Continues
    <2> QED BY <2>2, <2>3
  <1> HIDE DEF o
  <1>11. /\ loop'.todo = {} /\ loop' \in LoopType
         /\ loop'.kind = "none"
         /\ ~loop.undefined => Sendable(streams[s], connOut) = 0
    BY <1>1 DEF IInv, LoopOK, Quiet, TypeOK
  <1>12. connOut' \in Nat /\ connOut' <= connOut /\ conn' \in ConnType
    BY <1>1 DEF IInv, TypeOK, WindowsBounded, Int32Min
  <1> QED BY <1>1, <1>6, <1>7, <1>9, <1>10, <1>11, <1>12, OutsideBlock, SetStreamInv
-----------------------------------------------------------------------------
(***************************************************************************)
(* Header blocks                                                           *)
(***************************************************************************)
\* decodeResponseHeaders ends the block and leaves the request alone.
LEMMA DecodeGood ==
    ASSUME NEW st, GoodStream(st), ~st.remoteEnd, NEW h \in Blocks, NEW end \in BOOLEAN,
           NEW w
    PROVE  LET o == decodeResponseHeaders(st, h, end)
           IN  /\ GoodOutcome(st, o)
               /\ o.st.state # "CLOSED" =>
                     /\ ~o.st.waiting /\ o.st.pendingHdr = 0
                     /\ Sendable(o.st, w) = Sendable(st, w)
  <1> DEFINE clear == [st EXCEPT !.pendingHdr = 0, !.waiting = FALSE, !.pendingEnd = FALSE]
             first == [clear EXCEPT !.expected = IF h.cl >= 0 THEN h.cl ELSE @,
                                    !.finalHdrs = h.status # "1xx",
                                    !.noBodyStatus = h.status = "nobody"]
             next  == IF st.finalHdrs THEN clear ELSE first
             fails == \/ TooLarge(h.list) \/ ~ValidBlock(st, h, end)
                      \/ st.finalHdrs /\ st.method = "CONNECT"
             o     == decodeResponseHeaders(st, h, end)
  <1>1. st \in StreamType /\ StreamOK(st) /\ Whole(st.in, st.opened)
    BY DEF GoodStream
  <1>2. CASE fails
    <2>1. o = FailedStream(st)
      BY <1>2 DEF decodeResponseHeaders
    <2>2. o.st.state = "CLOSED"
      BY <1>1, <2>1 DEF FailedStream, StreamType
    <2> QED BY <1>1, <2>1, <2>2, FailedStreamGood
  <1>3. CASE ~fails
    <2>1. o = IF end THEN finalizeRemoteStream(next) ELSE Continues(next)
      BY <1>3 DEF decodeResponseHeaders
    <2>2. clear \in StreamType
      BY <1>1 DEF StreamType
    <2>3. first \in StreamType
      <3>1. h.cl \in Int
        BY InputTypes
      <3>2. st.expected \in Int /\ clear.expected = st.expected
        BY <1>1 DEF StreamType
      <3> DEFINE x == IF h.cl >= 0 THEN h.cl ELSE clear.expected
                 f == h.status # "1xx"
                 b == h.status = "nobody"
      <3>3. x \in Int /\ f \in BOOLEAN /\ b \in BOOLEAN
        BY <3>1, <3>2
      <3>4. first = [clear EXCEPT !.expected = x, !.finalHdrs = f, !.noBodyStatus = b]
        OBVIOUS
      <3> HIDE DEF x, f, b, clear, first
      <3> QED BY <2>2, <3>3, <3>4 DEF StreamType
    <2>4. /\ SameSending(st, clear) /\ ~clear.waiting /\ clear.pendingHdr = 0
          /\ clear.in = st.in /\ clear.opened = st.opened /\ clear.finalHdrs = st.finalHdrs
      BY <1>1 DEF StreamType, SameSending
    <2>5. /\ SameSending(clear, first) /\ ~first.waiting /\ first.pendingHdr = 0
          /\ first.in = clear.in /\ first.opened = clear.opened /\ first.finalHdrs = (h.status # "1xx")
      <3> HIDE DEF clear
      <3> QED BY <2>2, <2>4 DEF StreamType, SameSending
    <2> HIDE DEF clear, first
    <2>6. /\ next \in StreamType /\ SameSending(st, next)
          /\ ~next.waiting /\ next.pendingHdr = 0
          /\ next.in = st.in /\ next.opened = st.opened
      BY <2>2, <2>3, <2>4, <2>5 DEF SameSending
    <2>7. end => next.finalHdrs
      BY <1>3, <2>4, <2>5 DEF ValidBlock
    <2> HIDE DEF next
    <2>8. GoodStream(next) /\ ~next.remoteEnd
      <3>1. StreamOK(next)
        BY <1>1, <2>6 DEF StreamOK, StateOf, SameSending
      <3> QED BY <1>1, <2>6, <3>1 DEF GoodStream, SameSending
    <2>9. Sendable(next, w) = Sendable(st, w)
      BY <2>6, SameSendable
    <2>10. CASE end
      BY <2>1, <2>6, <2>7, <2>8, <2>9, <2>10, FinalizeGood, SameOutcome, FinalizeKeeps
    <2>11. CASE ~end
      <3>1. o = Continues(next) /\ o.st = next
        BY <2>1, <2>11 DEF Continues
      <3>2. st.remoteEnd \in BOOLEAN /\ next.remoteEnd = st.remoteEnd
        BY <1>1, <2>6 DEF StreamType, SameSending
      <3>3. GoodOutcome(st, o)
        BY <2>8, <3>1, <3>2, ContinuesGood
      <3> QED BY <2>6, <2>9, <3>1, <3>3
    <2> QED BY <2>10, <2>11
  <1> QED BY <1>2, <1>3

LEMMA DecodeBlockInv ==
    ASSUME IInv, Quiet, NEW s \in live, NEW c \in ConnType,
           c.closed = conn.closed, c.nextId = conn.nextId, ~c.expecting, c.ghost = 0,
           NEW st, GoodStream(st), SameSending(streams[s], st), ~st.remoteEnd,
           \A t \in live : t # s => ~streams[t].waiting /\ streams[t].pendingHdr = 0,
           NEW h \in Blocks, NEW end \in BOOLEAN, NEW whole \in BOOLEAN,
           DecodeBlock(c, s, st, h, end, whole),
           UNCHANGED <<settings, connIn, connOut, loop, pings>>
    PROVE  IInv'
  <1>1. connIn' \in InFlows /\ Within(connIn', ConfigWindow)
    BY DEF IInv, TypeOK, WindowsBounded
  <1>2. peer' \in PeerType /\ peer'.block = 0
    <2>1. peer' = [peer EXCEPT !.block = 0, !.inSync = @ /\ whole]
      BY DEF DecodeBlock
    <2>2. peer \in PeerType
      BY DEF IInv, TypeOK
    <2> QED BY <2>1, <2>2 DEF PeerType
  <1>3. CASE ~h.hpack
    <2>1. failConnection(c, "COMPRESSION_ERROR", "HPACK decode error")
      BY <1>3 DEF DecodeBlock
    <2>2. "COMPRESSION_ERROR" \in ErrorCodes /\ "HPACK decode error" \in Causes
      BY DEF ErrorCodes, Causes
    <2> QED BY <1>1, <1>2, <2>1, <2>2, FailConnectionInv
  <1>4. CASE h.hpack
    <2> DEFINE o == decodeResponseHeaders(st, h, end)
    <2>1. conn' = c /\ SetStream(s, o)
      BY <1>4 DEF DecodeBlock
    <2>2. /\ GoodOutcome(st, o)
          /\ o.st.state # "CLOSED" =>
                /\ ~o.st.waiting /\ o.st.pendingHdr = 0
                /\ Sendable(o.st, connOut) = Sendable(st, connOut)
      BY DecodeGood
    <2> HIDE DEF o
    <2>3. GoodOutcome(streams[s], o) /\ Sendable(st, connOut) = Sendable(streams[s], connOut)
      BY <2>2, SameOutcome, SameSendable
    <2>4. /\ loop'.todo = {} /\ loop' \in LoopType
          /\ loop'.kind = "none"
          /\ ~loop.undefined => Sendable(streams[s], connOut) = 0
      BY DEF IInv, LoopOK, Quiet, TypeOK
    <2>5. connOut' \in Nat /\ connOut' <= connOut
      BY DEF IInv, TypeOK, WindowsBounded, Int32Min
    <2> QED BY <1>1, <1>2, <2>1, <2>2, <2>3, <2>4, <2>5, SetStreamInv
  <1> QED BY <1>3, <1>4

LEMMA DiscardBlockInv ==
    ASSUME IInv, Quiet, NEW c \in ConnType,
           c.closed = conn.closed, c.nextId = conn.nextId, ~c.expecting, c.ghost = 0,
           \A t \in live : ~streams[t].waiting /\ streams[t].pendingHdr = 0,
           NEW h \in Blocks, NEW whole \in BOOLEAN, DiscardBlock(c, h, whole),
           UNCHANGED <<settings, connIn, connOut, loop, pings>>
    PROVE  IInv'
  <1>1. connIn' \in InFlows /\ Within(connIn', ConfigWindow)
    BY DEF IInv, TypeOK, WindowsBounded
  <1>2. peer' \in PeerType /\ peer'.block = 0
    <2>1. peer' = [peer EXCEPT !.block = 0, !.inSync = @ /\ whole]
      BY DEF DiscardBlock
    <2>2. peer \in PeerType
      BY DEF IInv, TypeOK
    <2> QED BY <2>1, <2>2 DEF PeerType
  <1>3. CASE ~h.hpack
    <2>1. failConnection(c, "COMPRESSION_ERROR", "HPACK decode failed")
      BY <1>3 DEF DiscardBlock
    <2>2. "COMPRESSION_ERROR" \in ErrorCodes /\ "HPACK decode failed" \in Causes
      BY DEF ErrorCodes, Causes
    <2> QED BY <1>1, <1>2, <2>1, <2>2, FailConnectionInv
  <1>4. CASE h.hpack
    <2>1. conn' = c /\ UNCHANGED <<live, streams, events>>
      BY <1>4 DEF DiscardBlock
    <2> QED BY <1>2, <2>1 DEF IInv, TypeOK, StreamTableOK, LoopOK, Quiet,
               WindowsBounded, HeaderBlockKept, OneVerdict
  <1> QED BY <1>3, <1>4

\* A fragment that does not end its block: kept in the stream ...
LEMMA FragmentInv ==
    ASSUME IInv, Quiet, NEW s \in live, NEW u, GoodStream(u),
           SameSending(streams[s], u), u.waiting, ~u.remoteEnd,
           streams' = [streams EXCEPT ![s] = u],
           \A t \in live : t # s => ~streams[t].waiting /\ streams[t].pendingHdr = 0,
           conn' \in ConnType, conn'.closed = conn.closed, conn'.nextId = conn.nextId,
           conn'.expecting, conn'.continuationId = s, conn'.ghost = 0,
           peer' \in PeerType, peer'.block = u.pendingHdr,
           UNCHANGED <<settings, connIn, connOut, live, loop, pings, events>>
    PROVE  IInv'
  <1> USE DEF IInv
  <1>1. /\ streams' \in [StreamIds -> StreamType]
        /\ streams'[s] = u
        /\ \A t \in live : t # s => streams'[t] = streams[t]
        /\ s \in StreamIds
    BY DEF TypeOK, GoodStream
  <1>2. TypeOK'
    BY <1>1 DEF TypeOK
  <1>3. \A t \in live : GoodStream(streams'[t])
    BY <1>1, LiveGood
  <1>4. StreamTableOK'
    BY <1>3 DEF StreamTableOK, GoodStream
  <1>5. WindowsBounded'
    BY <1>3 DEF WindowsBounded, GoodStream
  <1>6. \A t \in live : Sendable(streams'[t], connOut) = Sendable(streams[t], connOut)
    BY <1>1, SameSendable
  <1>7. LoopOK'
    BY <1>6 DEF LoopOK, Quiet
  <1>8. HeaderBlockKept'
    BY <1>1 DEF HeaderBlockKept, StreamTableOK
  <1>9. \A t \in live : EventsOf(streams'[t]) = EventsOf(streams[t])
    BY <1>1 DEF EventsOf, SameSending
  <1>10. OneVerdict'
    BY <1>9 DEF OneVerdict
  <1> QED BY <1>2, <1>4, <1>5, <1>7, <1>8, <1>10

\* ... or, when the stream is gone, in ghostHeaderBlock.
LEMMA GhostInv ==
    ASSUME IInv, Quiet, NEW s, s \notin live, s < conn.nextId,
           \A t \in live : ~streams[t].waiting /\ streams[t].pendingHdr = 0,
           conn' \in ConnType, conn'.closed = conn.closed, conn'.nextId = conn.nextId,
           conn'.expecting, conn'.continuationId = s, conn'.ghost = peer'.block,
           peer' \in PeerType,
           UNCHANGED <<settings, connIn, connOut, live, streams, loop, pings, events>>
    PROVE  IInv'
  BY DEF IInv, TypeOK, StreamTableOK, LoopOK, Quiet, WindowsBounded,
     HeaderBlockKept, OneVerdict

LEMMA HeadersOnUnknownInv ==
    ASSUME IInv, NEW s \in PeerIds, NEW size \in Fragments, NEW endHeaders \in BOOLEAN,
           NEW h \in Blocks, headersOnUnknownStream(s, size, endHeaders, h)
    PROVE  IInv'
  <1>1. /\ Quiet /\ ~conn.closed /\ ~conn.expecting /\ s \notin live
        /\ UNCHANGED <<settings, connIn, connOut, loop, pings>>
    BY DEF headersOnUnknownStream, Receiving, Reading, InOrder, Unchanged4
  <1>2. s \in Nat /\ size \in Nat /\ conn \in ConnType /\ peer \in PeerType
    BY InputTypes DEF IInv, TypeOK
  <1>3. CASE s % 2 = 0 \/ s >= conn.nextId
    <2>1. failConnection(conn, "PROTOCOL_ERROR", "not opened") /\ peer' = peer
      BY <1>3 DEF headersOnUnknownStream
    <2>2. "PROTOCOL_ERROR" \in ErrorCodes /\ "not opened" \in Causes
      BY DEF ErrorCodes, Causes
    <2> QED BY <1>1, <1>2, <2>1, <2>2, BlameInv
  <1>4. CASE ~(s % 2 = 0 \/ s >= conn.nextId) /\ endHeaders
    <2>1. DiscardBlock(conn, h, TRUE)
      BY <1>4 DEF headersOnUnknownStream
    <2> QED BY <1>1, <1>2, <2>1, OutsideBlock, DiscardBlockInv
  <1>5. CASE ~(s % 2 = 0 \/ s >= conn.nextId) /\ ~endHeaders
    <2>1. /\ conn' = [conn EXCEPT !.ghost = size, !.expecting = TRUE, !.continuationId = s]
          /\ peer' = [peer EXCEPT !.block = size]
          /\ UNCHANGED <<live, streams, events>>
      BY <1>5 DEF headersOnUnknownStream
    <2>2. /\ conn' \in ConnType /\ conn'.closed = conn.closed
          /\ conn'.nextId = conn.nextId /\ conn'.expecting
          /\ conn'.continuationId = s /\ conn'.ghost = size
      BY <1>2, <2>1 DEF ConnType
    <2>3. peer' \in PeerType /\ peer'.block = size
      BY <1>2, <2>1 DEF PeerType
    <2>4. s < conn.nextId
      BY <1>2, <1>5 DEF ConnType
    <2> QED BY <1>1, <2>1, <2>2, <2>3, <2>4, OutsideBlock, GhostInv
  <1> QED BY <1>3, <1>4, <1>5

LEMMA HeadersRefusedInv ==
    ASSUME IInv, NEW s, headersRefused(s) PROVE IInv'
  <1>1. /\ Quiet /\ failStream({s}) /\ peer' = [peer EXCEPT !.inSync = FALSE]
        /\ UNCHANGED <<settings, connIn, connOut, loop, pings>>
    BY DEF headersRefused, Receiving, Reading, Unchanged4
  <1>2. connIn' \in InFlows /\ Within(connIn', ConfigWindow) /\ peer \in PeerType
    BY <1>1 DEF IInv, TypeOK, WindowsBounded
  <1>3. peer' \in PeerType /\ peer'.block = peer.block
    BY <1>1, <1>2 DEF PeerType
  <1> QED BY <1>1, <1>2, <1>3, FailStreamInv

\* Header bookkeeping leaves the rest of a stream alone.
LEMMA BookkeepingGood ==
    ASSUME NEW st, GoodStream(st), NEW u \in StreamType, SameSending(st, u),
           u.in = st.in, u.opened = st.opened, u.finalHdrs = st.finalHdrs
    PROVE  GoodStream(u)
  <1>1. StreamOK(u)
    BY DEF GoodStream, StreamOK, StateOf, SameSending
  <1> QED BY <1>1 DEF GoodStream

LEMMA AppendGood ==
    ASSUME NEW st, GoodStream(st), NEW n \in Nat, NEW u, u = [st EXCEPT !.pendingHdr = n]
    PROVE  /\ GoodStream(u) /\ SameSending(st, u) /\ u.pendingHdr = n
           /\ u.waiting = st.waiting /\ u.pendingEnd = st.pendingEnd
  <1>1. st \in StreamType
    BY DEF GoodStream
  <1>2. u \in StreamType
    BY <1>1 DEF StreamType
  <1>3. /\ SameSending(st, u) /\ u.in = st.in /\ u.opened = st.opened
        /\ u.finalHdrs = st.finalHdrs
        /\ u.pendingHdr = n /\ u.waiting = st.waiting /\ u.pendingEnd = st.pendingEnd
    BY <1>1 DEF StreamType, SameSending
  <1> QED BY <1>2, <1>3, BookkeepingGood

LEMMA WaitingGood ==
    ASSUME NEW st, GoodStream(st), NEW e \in BOOLEAN, NEW u,
           \/ u = [st EXCEPT !.waiting = TRUE, !.pendingEnd = e]
           \/ u = [st EXCEPT !.waiting = FALSE]
    PROVE  GoodStream(u) /\ SameSending(st, u) /\ u.pendingHdr = st.pendingHdr
  <1>1. st \in StreamType
    BY DEF GoodStream
  <1>2. u \in StreamType
    BY <1>1 DEF StreamType
  <1>3. /\ SameSending(st, u) /\ u.in = st.in /\ u.opened = st.opened
        /\ u.finalHdrs = st.finalHdrs
        /\ u.pendingHdr = st.pendingHdr
    BY <1>1 DEF StreamType, SameSending
  <1> QED BY <1>2, <1>3, BookkeepingGood

LEMMA SameTransitive ==
    ASSUME NEW x, NEW y, NEW z, SameSending(x, y), SameSending(y, z)
    PROVE  SameSending(x, z)
  BY DEF SameSending

LEMMA HeadersOnStreamInv ==
    ASSUME IInv, NEW s \in PeerIds, NEW size \in Fragments, NEW endHeaders \in BOOLEAN,
           NEW end \in BOOLEAN, NEW h \in Blocks,
           headersOnStream(s, size, endHeaders, end, h)
    PROVE  IInv'
  <1> DEFINE old == streams[s]
             st  == [old EXCEPT !.pendingHdr = @ + size]
  <1>1. /\ Quiet /\ ~conn.closed /\ ~conn.expecting /\ s \in live /\ ~old.remoteEnd
        /\ UNCHANGED <<settings, connIn, connOut, loop, pings>>
    BY DEF headersOnStream, Receiving, Reading, InOrder, Unchanged4
  <1>2. /\ size \in Nat /\ conn \in ConnType /\ peer \in PeerType
        /\ s \in Nat
    BY InputTypes DEF IInv, TypeOK
  <1>3. GoodStream(old) /\ old \in StreamType /\ ~old.waiting /\ old.pendingHdr = 0
    BY <1>1, LiveGood, OutsideBlock DEF GoodStream
  <1>4. /\ GoodStream(st) /\ SameSending(old, st) /\ ~st.remoteEnd
        /\ st.pendingHdr = size
    <2>1. st = [old EXCEPT !.pendingHdr = size]
      BY <1>2, <1>3
    <2> HIDE DEF st
    <2> QED BY <1>1, <1>2, <1>3, <2>1, AppendGood DEF SameSending
  <1>5. CASE TooLarge(st.pendingHdr)
    <2>1. failConnection(conn, "ENHANCE_YOUR_CALM", "header block") /\ UNCHANGED peer
      BY <1>5 DEF headersOnStream
    <2>2. "ENHANCE_YOUR_CALM" \in ErrorCodes /\ "header block" \in Causes
      BY DEF ErrorCodes, Causes
    <2> QED BY <1>1, <1>2, <2>1, <2>2, BlameInv
  <1>6. CASE ~TooLarge(st.pendingHdr) /\ endHeaders
    <2> DEFINE whole == st.pendingHdr = size
    <2>1. DecodeBlock(conn, s, st, h, end, whole)
      BY <1>6 DEF headersOnStream
    <2>2. whole \in BOOLEAN
      OBVIOUS
    <2> HIDE DEF st, old, whole
    <2>3. GoodStream(st) /\ SameSending(streams[s], st)
      BY <1>4 DEF old
    <2> QED BY <1>1, <1>2, <1>4, <2>1, <2>2, <2>3, OutsideBlock, DecodeBlockInv
  <1>7. CASE ~TooLarge(st.pendingHdr) /\ ~endHeaders
    <2> DEFINE u == [st EXCEPT !.waiting = TRUE, !.pendingEnd = end]
    <2>1. /\ streams' = [streams EXCEPT ![s] = u]
          /\ conn' = [conn EXCEPT !.expecting = TRUE, !.continuationId = s]
          /\ peer' = [peer EXCEPT !.block = size]
          /\ UNCHANGED <<live, events>>
      BY <1>7 DEF headersOnStream
    <2>2. u.waiting
      <3> HIDE DEF st
      <3> QED BY <1>4 DEF GoodStream, StreamType
    <2>3. GoodStream(u) /\ SameSending(old, u) /\ u.pendingHdr = size
      <3> HIDE DEF st
      <3>1. GoodStream(u) /\ SameSending(st, u) /\ u.pendingHdr = st.pendingHdr
        BY <1>4, WaitingGood
      <3> HIDE DEF u
      <3> QED BY <1>4, <3>1, SameTransitive
    <2>4. /\ conn' \in ConnType /\ conn'.closed = conn.closed
          /\ conn'.nextId = conn.nextId /\ conn'.expecting
          /\ conn'.continuationId = s /\ conn'.ghost = 0
      BY <1>1, <1>2, <2>1, OutsideBlock DEF ConnType
    <2>5. peer' \in PeerType /\ peer'.block = size
      BY <1>2, <2>1 DEF PeerType
    <2> HIDE DEF u
    <2>6. ~u.remoteEnd
      BY <1>1, <2>3 DEF SameSending
    <2> QED BY <1>1, <2>1, <2>2, <2>3, <2>4, <2>5, <2>6, OutsideBlock, FragmentInv
  <1> QED BY <1>5, <1>6, <1>7

LEMMA ContinuationOnUnknownInv ==
    ASSUME IInv, NEW s \in PeerIds, NEW size \in Fragments, NEW endHeaders \in BOOLEAN,
           NEW h \in Blocks, continuationOnUnknownStream(s, size, endHeaders, h)
    PROVE  IInv'
  <1> DEFINE total == conn.ghost + size
  <1>1. /\ Quiet /\ ~conn.closed /\ conn.expecting /\ conn.continuationId = s
        /\ s \notin live
        /\ UNCHANGED <<settings, connIn, connOut, loop, pings>>
    BY DEF continuationOnUnknownStream, Receiving, Reading, Unchanged4
  <1>2. size \in Nat /\ conn \in ConnType /\ peer \in PeerType /\ total \in Nat
    BY InputTypes DEF IInv, TypeOK, ConnType
  <1>3. /\ \A t \in live : ~streams[t].waiting /\ streams[t].pendingHdr = 0
        /\ peer.block = conn.ghost /\ s < conn.nextId
    BY <1>1 DEF IInv, HeaderBlockKept
  <1>4. CASE TooLarge(total)
    <2>1. failConnection(conn, "ENHANCE_YOUR_CALM", "header block") /\ UNCHANGED peer
      BY <1>4 DEF continuationOnUnknownStream
    <2>2. "ENHANCE_YOUR_CALM" \in ErrorCodes /\ "header block" \in Causes
      BY DEF ErrorCodes, Causes
    <2> QED BY <1>1, <1>2, <2>1, <2>2, BlameInv
  <1>5. CASE ~TooLarge(total) /\ endHeaders
    <2> DEFINE c == [BlockDone(conn) EXCEPT !.ghost = 0]
    <2>1. DiscardBlock(c, h, total = peer.block + size)
      BY <1>5 DEF continuationOnUnknownStream
    <2>2. /\ c \in ConnType /\ c.closed = conn.closed /\ c.nextId = conn.nextId
          /\ ~c.expecting /\ c.ghost = 0
      BY <1>2 DEF BlockDone, ConnType
    <2> HIDE DEF c
    <2> QED BY <1>1, <1>3, <2>1, <2>2, DiscardBlockInv
  <1>6. CASE ~TooLarge(total) /\ ~endHeaders
    <2>1. /\ conn' = [conn EXCEPT !.ghost = total]
          /\ peer' = [peer EXCEPT !.block = @ + size]
          /\ UNCHANGED <<live, streams, events>>
      BY <1>6 DEF continuationOnUnknownStream
    <2>2. /\ conn' \in ConnType /\ conn'.closed = conn.closed
          /\ conn'.nextId = conn.nextId /\ conn'.expecting
          /\ conn'.continuationId = s /\ conn'.ghost = total
      BY <1>1, <1>2, <2>1 DEF ConnType
    <2>3. peer' \in PeerType /\ peer'.block = total
      BY <1>2, <1>3, <2>1 DEF PeerType
    <2> QED BY <1>1, <1>3, <2>1, <2>2, <2>3, GhostInv
  <1> QED BY <1>4, <1>5, <1>6

LEMMA ContinuationOnStreamInv ==
    ASSUME IInv, NEW s \in PeerIds, NEW size \in Fragments, NEW endHeaders \in BOOLEAN,
           NEW h \in Blocks, continuationOnStream(s, size, endHeaders, h)
    PROVE  IInv'
  <1> DEFINE old == streams[s]
             n   == old.pendingHdr + size
             st  == [old EXCEPT !.pendingHdr = @ + size]
  <1>1. /\ Quiet /\ ~conn.closed /\ conn.expecting /\ conn.continuationId = s
        /\ s \in live
        /\ UNCHANGED <<settings, connIn, connOut, loop, pings>>
    BY DEF continuationOnStream, Receiving, Reading, Unchanged4
  <1>2. size \in Nat /\ conn \in ConnType /\ peer \in PeerType
    BY InputTypes DEF IInv, TypeOK
  <1>3. GoodStream(old) /\ old \in StreamType
    BY <1>1, LiveGood DEF GoodStream
  <1>4. /\ \A t \in live : t # s => ~streams[t].waiting /\ streams[t].pendingHdr = 0
        /\ old.waiting /\ conn.ghost = 0 /\ peer.block = old.pendingHdr
        /\ ~old.remoteEnd
    BY <1>1 DEF IInv, HeaderBlockKept
  <1>5. n \in Nat /\ old.waiting \in BOOLEAN /\ old.pendingEnd \in BOOLEAN
    BY <1>2, <1>3 DEF StreamType
  <1>9. /\ GoodStream(st) /\ SameSending(old, st) /\ st.pendingHdr = n
        /\ st.waiting = old.waiting /\ st.pendingEnd = old.pendingEnd
    <2>1. st = [old EXCEPT !.pendingHdr = n]
      OBVIOUS
    <2> HIDE DEF st, n
    <2> QED BY <1>3, <1>5, <2>1, AppendGood
  <1>6. CASE TooLarge(st.pendingHdr)
    <2>1. failConnection(conn, "ENHANCE_YOUR_CALM", "header block") /\ UNCHANGED peer
      BY <1>6 DEF continuationOnStream
    <2>2. "ENHANCE_YOUR_CALM" \in ErrorCodes /\ "header block" \in Causes
      BY DEF ErrorCodes, Causes
    <2> QED BY <1>1, <1>2, <2>1, <2>2, BlameInv
  <1>7. CASE ~TooLarge(st.pendingHdr) /\ endHeaders
    <2> DEFINE c == BlockDone(conn)
               v == [st EXCEPT !.waiting = FALSE]
               whole == st.pendingHdr = peer.block + size
    <2>1. DecodeBlock(c, s, v, h, st.pendingEnd, whole)
      BY <1>7 DEF continuationOnStream
    <2>2. whole \in BOOLEAN /\ st.pendingEnd \in BOOLEAN
      BY <1>5, <1>9
    <2> HIDE DEF st, whole
    <2>3. GoodStream(v) /\ SameSending(old, v)
      BY <1>9, WaitingGood, SameTransitive
    <2>4. /\ c \in ConnType /\ c.closed = conn.closed /\ c.nextId = conn.nextId
          /\ ~c.expecting /\ c.ghost = 0
      BY <1>2, <1>4 DEF BlockDone, ConnType
    <2> HIDE DEF v, c
    <2>5. ~v.remoteEnd
      BY <1>4, <2>3 DEF SameSending
    <2> QED BY <1>1, <1>4, <2>1, <2>2, <2>3, <2>4, <2>5, DecodeBlockInv
  <1>8. CASE ~TooLarge(st.pendingHdr) /\ ~endHeaders
    <2>1. /\ streams' = [streams EXCEPT ![s] = st]
          /\ peer' = [peer EXCEPT !.block = @ + size]
          /\ UNCHANGED <<conn, live, events>>
      BY <1>8 DEF continuationOnStream
    <2>2. peer' \in PeerType /\ peer'.block = n
      BY <1>2, <1>4, <1>5, <2>1 DEF PeerType
    <2> HIDE DEF st, n
    <2>3. st.waiting /\ ~st.remoteEnd
      BY <1>4, <1>9 DEF SameSending
    <2> QED BY <1>1, <1>2, <1>4, <1>9, <2>1, <2>2, <2>3, FragmentInv
  <1> QED BY <1>6, <1>7, <1>8
-----------------------------------------------------------------------------
(***************************************************************************)
(* Request bodies and the flush loops                                      *)
(***************************************************************************)
LEMMA EmitKeeps ==
    ASSUME NEW st, GoodStream(st), NEW w \in Nat, NEW o, o = emitPendingRequestBody(st, w)
    PROVE  /\ o.st.waiting = st.waiting /\ o.st.pendingHdr = st.pendingHdr
           /\ o.st.remoteEnd = st.remoteEnd
           /\ ~st.remoteEnd => o.st.state # "CLOSED"
  <1> DEFINE n == Sendable(st, w)
             sent == [st EXCEPT !.offset = @ + n, !.out = @ - n]
  <1>1. st \in StreamType /\ st.state # "CLOSED"
    BY DEF GoodStream, StreamOK
  <1>2. /\ sent.waiting = st.waiting /\ sent.pendingHdr = st.pendingHdr
        /\ sent.remoteEnd = st.remoteEnd /\ sent.state = st.state
        /\ DOMAIN sent = DOMAIN st
    BY <1>1 DEF StreamType
  <1>3. o.st = IF ~(n > 0 /\ st.offset + n = st.body) THEN sent
               ELSE IF st.remoteEnd
                    THEN [sent EXCEPT !.localEnd = TRUE, !.state = "CLOSED"]
                    ELSE [sent EXCEPT !.localEnd = TRUE, !.state = "HALF_CLOSED_LOCAL"]
    BY DEF emitPendingRequestBody, Continues
  <1> HIDE DEF n, sent
  <1>4. DOMAIN st = {"state", "localEnd", "remoteEnd", "waiting", "pendingEnd", "pendingHdr",
                     "finalHdrs", "noBodyStatus", "method", "body", "offset", "expected",
                     "received", "in", "opened", "out"}
    BY <1>1 DEF StreamType
  <1> QED BY <1>1, <1>2, <1>3, <1>4

LEMMA NewStreamGood ==
    ASSUME IInv, NEW r \in Requests, NEW st, st = emitRequestHeaders(NewStream(r), r)
    PROVE  /\ GoodStream(st) /\ ~st.remoteEnd /\ ~st.waiting /\ st.pendingHdr = 0
  <1>1. r.method \in Methods /\ r.body \in Nat /\ r.hdr \in Nat
    BY ProtocolAssumption
  <1>2. settings.window \in 0 .. Int32Max
    BY DEF IInv, TypeOK, SettingsType
  <1> DEFINE f == InFlowInit(settings.window)
  <1>3. f \in InFlows /\ Whole(f, settings.window)
    BY <1>2, FlowAssumption DEF InFlowInit, InFlows, Whole
  <1> DEFINE u == [NoStream EXCEPT !.method = r.method, !.body = r.body, !.in = f,
                                   !.opened = settings.window, !.out = settings.window]
  <1>4. u = NewStream(r)
    BY DEF NewStream
  <1> HIDE DEF f
  <1>5. NoStream \in StreamType
    BY FlowAssumption
       DEF NoStream, StreamType, StreamStates, NoLength, InFlows, InFlowInit, Methods, Int32Min
  <1>6. /\ u \in StreamType /\ u.body = r.body /\ u.in = f /\ u.opened = settings.window
        /\ u.localEnd = NoStream.localEnd /\ u.remoteEnd = NoStream.remoteEnd
        /\ u.waiting = NoStream.waiting /\ u.pendingHdr = NoStream.pendingHdr
        /\ u.offset = NoStream.offset
    <2> DEFINE a == r.method  b == r.body  w == settings.window
    <2>1. a \in Methods /\ b \in Nat /\ w \in 0 .. Int32Max /\ w \in Int32Min .. Int32Max
      BY <1>1, <1>2, FlowAssumption DEF Int32Min
    <2>2. u = [NoStream EXCEPT !.method = a, !.body = b, !.in = f, !.opened = w, !.out = w]
      OBVIOUS
    <2> HIDE DEF a, b, w, u
    <2>3. u.body = b
      BY <1>5, <2>2 DEF StreamType
    <2>4. u \in StreamType
      BY <1>3, <1>5, <2>1, <2>2 DEF StreamType
    <2>5. /\ u.in = f /\ u.opened = w
          /\ u.localEnd = NoStream.localEnd /\ u.remoteEnd = NoStream.remoteEnd
          /\ u.waiting = NoStream.waiting /\ u.pendingHdr = NoStream.pendingHdr
          /\ u.offset = NoStream.offset
      BY <1>5, <2>2 DEF StreamType
    <2> QED BY <2>3, <2>4, <2>5 DEF b, w
  <1>7. /\ ~NoStream.localEnd /\ ~NoStream.remoteEnd /\ ~NoStream.waiting
        /\ NoStream.pendingHdr = 0 /\ NoStream.offset = 0
    BY DEF NoStream
  <1> HIDE DEF u
  <1>8. CASE r.body = 0 /\ r.hdr <= settings.frame
    <2>1. st = [u EXCEPT !.localEnd = TRUE, !.state = "HALF_CLOSED_LOCAL"]
      BY <1>4, <1>8 DEF emitRequestHeaders
    <2>2. /\ st \in StreamType /\ st.state = "HALF_CLOSED_LOCAL" /\ st.localEnd
          /\ st.body = u.body /\ st.in = u.in /\ st.opened = u.opened /\ st.remoteEnd = u.remoteEnd
          /\ st.waiting = u.waiting /\ st.pendingHdr = u.pendingHdr /\ st.offset = u.offset
      BY <1>6, <2>1 DEF StreamType, StreamStates
    <2> QED BY <1>1, <1>3, <1>6, <1>7, <1>8, <2>2 DEF GoodStream, StreamOK, StateOf
  <1>9. CASE ~(r.body = 0 /\ r.hdr <= settings.frame)
    <2>1. st = [u EXCEPT !.state = "OPEN"]
      BY <1>4, <1>9 DEF emitRequestHeaders
    <2>2. /\ st \in StreamType /\ st.state = "OPEN" /\ st.localEnd = u.localEnd
          /\ st.body = u.body /\ st.in = u.in /\ st.opened = u.opened /\ st.remoteEnd = u.remoteEnd
          /\ st.waiting = u.waiting /\ st.pendingHdr = u.pendingHdr /\ st.offset = u.offset
      BY <1>6, <2>1 DEF StreamType, StreamStates
    <2> QED BY <1>1, <1>3, <1>6, <1>7, <1>9, <2>2 DEF GoodStream, StreamOK, StateOf
  <1> QED BY <1>8, <1>9

LEMMA SubmitInv ==
    ASSUME IInv, NEW r \in Requests, submitRequest(r) PROVE IInv'
  <1> USE DEF IInv
  <1> DEFINE s  == conn.nextId
             st == emitRequestHeaders(NewStream(r), r)
             o  == emitPendingRequestBody(st, connOut)
             n  == Sendable(st, connOut)
  <1>1. /\ Quiet /\ ~conn.closed /\ s <= MaxStreamId
        /\ conn' = [conn EXCEPT !.nextId = s + 2]
        /\ live' = live \cup {s}
        /\ streams' = [streams EXCEPT ![s] = o.st]
        /\ connOut' = connOut - n
        /\ UNCHANGED <<settings, connIn, loop, pings, events, peer>>
    BY DEF submitRequest, Accepts, canSubmitRequests
  <1>2. connOut \in Nat /\ connOut <= Int32Max
    BY DEF TypeOK, WindowsBounded, Int32Min
  <1>3. GoodStream(st) /\ ~st.remoteEnd /\ ~st.waiting /\ st.pendingHdr = 0
    BY NewStreamGood
  <1> HIDE DEF st
  <1>4. n \in Nat /\ n <= connOut
    BY <1>2, <1>3, SendableBounds
  <1>5. /\ GoodOutcome(st, o) /\ Sendable(o.st, connOut - n) = 0
        /\ ~o.st.waiting /\ o.st.pendingHdr = 0 /\ ~o.st.remoteEnd
        /\ o.st.state # "CLOSED"
    BY <1>2, <1>3, EmitGood, EmitKeeps
  <1> HIDE DEF o, n
  <1>6. GoodStream(o.st) /\ o.st \in StreamType
    BY <1>5 DEF GoodOutcome
  <1>7. s \in StreamIds /\ s \in Nat /\ s \notin live /\ s % 2 = 1
    <2>1. s \in Nat /\ s % 2 = 1
      BY DEF TypeOK, ConnType
    <2>2. \A t \in live : t < s
      BY DEF StreamTableOK
    <2> HIDE DEF s
    <2>3. s \in 1 .. MaxStreamId
      BY <1>1, <2>1, ProtocolAssumption
    <2>4. s \notin live
      BY <2>1, <2>2
    <2> QED BY <2>1, <2>3, <2>4 DEF StreamIds
  <1>8. conn' \in ConnType /\ conn'.nextId = s + 2 /\ conn'.closed = conn.closed
        /\ conn'.expecting = conn.expecting /\ conn'.ghost = conn.ghost
        /\ conn'.continuationId = conn.continuationId
    <2>1. conn \in ConnType /\ s + 2 \in Nat
      BY <1>7 DEF TypeOK
    <2> HIDE DEF s
    <2> QED BY <1>1, <2>1 DEF ConnType
  <1>9. /\ streams' \in [StreamIds -> StreamType] /\ streams'[s] = o.st
        /\ \A t \in live : streams'[t] = streams[t] /\ t # s /\ t < s + 2
    <2>1. \A t \in live : t \in Nat /\ t < s /\ t \in StreamIds
      BY DEF TypeOK, StreamTableOK, StreamIds
    <2>2. streams \in [StreamIds -> StreamType]
      BY DEF TypeOK
    <2> HIDE DEF s
    <2>3. streams' \in [StreamIds -> StreamType] /\ streams'[s] = o.st
      BY <1>1, <1>6, <1>7, <2>2
    <2> QED BY <1>1, <1>7, <2>1, <2>2, <2>3
  <1> HIDE DEF s
  <1>10. TypeOK'
    BY <1>1, <1>2, <1>4, <1>7, <1>8, <1>9, FlowAssumption DEF TypeOK, Int32Min
  <1>11. (conn.nextId % 2 = 1)'
    BY <1>7, <1>8
  <1>12. \A t \in live' : GoodStream(streams'[t]) /\ t < conn'.nextId
    BY <1>1, <1>6, <1>7, <1>8, <1>9, LiveGood
  <1>13. StreamTableOK'
    BY <1>1, <1>8, <1>12 DEF StreamTableOK, GoodStream
  <1>14. WindowsBounded'
    BY <1>1, <1>2, <1>4, <1>12 DEF WindowsBounded, GoodStream
  <1>15. LoopOK'
    <2>1. ASSUME ~loop.undefined, NEW t \in live'
          PROVE  Sendable(streams'[t], connOut') = 0
      <3>1. CASE t = s
        BY <1>1, <1>5, <1>9, <3>1
      <3>2. CASE t # s
        <4>1. t \in live /\ streams'[t] = streams[t]
          BY <1>1, <1>9, <3>2
        <4>2. Sendable(streams[t], connOut) = 0
          BY <1>1, <2>1, <4>1 DEF LoopOK, Quiet
        <4>3. connOut' \in Nat /\ connOut' <= connOut
          BY <1>1, <1>2, <1>4
        <4> QED BY <1>2, <4>1, <4>2, <4>3, SendableMono, LiveGood
      <3> QED BY <3>1, <3>2
    <2> QED BY <1>1, <1>8, <2>1 DEF LoopOK, Quiet
  <1>16. HeaderBlockKept'
    <2>1. /\ conn.expecting => conn.continuationId < s /\ conn.continuationId # s
          /\ conn.continuationId \in Nat
      BY <1>1, <1>7 DEF HeaderBlockKept, TypeOK, ConnType, s
    <2>2. conn.expecting => (conn.continuationId \in live' <=> conn.continuationId \in live)
      BY <1>1, <2>1
    <2>3. conn.expecting => conn.continuationId < s + 2
      BY <1>7, <2>1
    <2> QED BY <1>1, <1>5, <1>8, <1>9, <2>1, <2>2, <2>3 DEF HeaderBlockKept
  <1>17. OneVerdict'
    <2> SUFFICES ASSUME NEW t \in StreamIds
                 PROVE  /\ t \in live' => events[t] = EventsOf(streams'[t])
                        /\ t >= s + 2 => events[t] = <<>>
                        /\ t < s + 2 /\ t \notin live' => events[t] \in Verdicts
      BY <1>1, <1>8 DEF OneVerdict
    <2>1. t \in Nat /\ t % 2 = 1
      BY DEF StreamIds
    <2>2. CASE t = s
      BY <1>1, <1>5, <1>7, <1>9, <2>2 DEF OneVerdict, EventsOf, s
    <2>3. CASE t # s
      <3>1. t \in live' <=> t \in live
        BY <1>1, <2>3
      <3>2. t \in live => streams'[t] = streams[t]
        BY <1>9
      <3>3. (t < s + 2 <=> t < s) /\ (t >= s + 2 <=> t >= s)
        BY <1>7, <2>1, <2>3
      <3> QED BY <3>1, <3>2, <3>3 DEF OneVerdict, s
    <2> QED BY <2>2, <2>3
  <1> QED BY <1>10, <1>11, <1>13, <1>14, <1>15, <1>16, <1>17

LEMMA PeerSettingsInv ==
    ASSUME IInv, NEW p \in PeerSettings, peerSettings(p) PROVE IInv'
  <1> USE DEF IInv
  <1> DEFINE d == settings'.window - settings.window
  <1>1. /\ Quiet /\ ~conn.closed /\ ~conn.expecting /\ SettingsErrors(p) = {}
        /\ UNCHANGED <<connIn, connOut, live, pings, events, peer>>
    BY DEF peerSettings, Receiving, Reading, InOrder
  <1>2. /\ conn' \in ConnType /\ conn'.closed = conn.closed /\ conn'.nextId = conn.nextId
        /\ conn'.expecting = conn.expecting /\ conn'.ghost = conn.ghost
        /\ conn'.continuationId = conn.continuationId
    BY DEF peerSettings, TypeOK, ConnType
  <1>3. settings' \in SettingsType /\ settings \in SettingsType
    <2>1. /\ p.streams \in Nat \cup {Keep} /\ p.window \in Nat \cup {Keep}
          /\ p.frame \in Nat \cup {Keep} /\ p.list \in Nat \cup {Keep}
      BY ProtocolAssumption
    <2>2. p.frame = Keep \/ p.frame \in DefaultFrame .. MaxFrame
      BY <1>1 DEF SettingsErrors
    <2>3. ~(p.window > Int32Max)
      BY <1>1 DEF SettingsErrors
    <2>4. settings \in SettingsType
      BY DEF TypeOK
    <2>5. /\ Updated(settings.streams, p.streams) \in Nat
          /\ Updated(settings.frame, p.frame) \in DefaultFrame .. MaxFrame
          /\ Updated(settings.window, p.window) \in 0 .. Int32Max
          /\ Updated(settings.list, p.list) \in Nat
      BY <2>1, <2>2, <2>3, <2>4, FlowAssumption DEF Updated, SettingsType
    <2>6. settings' = [streams |-> Updated(settings.streams, p.streams),
                       frame   |-> Updated(settings.frame, p.frame),
                       window  |-> Updated(settings.window, p.window),
                       list    |-> Updated(settings.list, p.list)]
      BY DEF peerSettings
    <2> QED BY <2>4, <2>5, <2>6 DEF SettingsType
  <1>4. d \in Int
    BY <1>3 DEF SettingsType
  <1>5. ASSUME NEW t \in live
        PROVE  /\ streams'[t] \in StreamType /\ GoodStream(streams'[t])
               /\ streams'[t].waiting = streams[t].waiting
               /\ streams'[t].pendingHdr = streams[t].pendingHdr
               /\ streams'[t].remoteEnd = streams[t].remoteEnd
    <2> DEFINE x == streams[t]
               w == x.out + settings'.window - settings.window
               u == [x EXCEPT !.out = w]
    <2>1. streams'[t] = u
      BY DEF peerSettings, TypeOK
    <2>2. GoodStream(x) /\ x \in StreamType
      BY LiveGood DEF GoodStream
    <2>3. w \in Int32Min .. Int32Max
      <3>1. p.window = Keep \/ CanAdd(x.out, p.window - settings.window)
        <4>1. "FLOW_CONTROL_ERROR" \notin SettingsErrors(p)
          BY DEF peerSettings
        <4> QED BY <4>1 DEF SettingsErrors
      <3>2. settings'.window = Updated(settings.window, p.window)
        <4>1. settings' = [streams |-> Updated(settings.streams, p.streams),
                           frame   |-> Updated(settings.frame, p.frame),
                           window  |-> Updated(settings.window, p.window),
                           list    |-> Updated(settings.list, p.list)]
          BY DEF peerSettings
        <4> QED BY <4>1
      <3>3. x.out \in Int32Min .. Int32Max /\ settings.window \in Int
        <4>1. x.out \in Int32Min .. Int32Max
          BY <2>2 DEF StreamType
        <4> QED BY <4>1, <1>3, FlowAssumption DEF SettingsType
      <3>4. p.window \in Int
        BY ProtocolAssumption DEF Keep
      <3> HIDE DEF x
      <3> QED BY <3>1, <3>2, <3>3, <3>4, FlowAssumption DEF Updated, CanAdd, Int32Min
    <2> HIDE DEF w
    <2>4. u \in StreamType
      BY <2>2, <2>3 DEF StreamType
    <2>5. /\ u.waiting = x.waiting /\ u.pendingHdr = x.pendingHdr
          /\ u.remoteEnd = x.remoteEnd /\ u.localEnd = x.localEnd /\ u.state = x.state
          /\ u.body = x.body /\ u.offset = x.offset /\ u.finalHdrs = x.finalHdrs
          /\ u.in = x.in /\ u.opened = x.opened
      BY <2>2 DEF StreamType
    <2> HIDE DEF u, x
    <2>6. GoodStream(u)
      BY <2>2, <2>4, <2>5 DEF GoodStream, StreamOK, StateOf
    <2> QED BY <2>1, <2>4, <2>5, <2>6 DEF x
  <1>6. streams' \in [StreamIds -> StreamType]
    <2>1. streams' = [t \in StreamIds |-> streams'[t]]
      BY DEF peerSettings
    <2>2. \A t \in StreamIds \ live : streams'[t] \in StreamType
      BY DEF peerSettings, TypeOK
    <2> QED BY <1>5, <2>1, <2>2
  <1>7. /\ loop' \in LoopType /\ loop'.todo = live
        /\ loop'.kind = "none" <=> live = {}
        /\ loop'.kind # "crashed"
    <2>1. loop' = IF live = {} THEN loop ELSE [loop EXCEPT !.kind = "settings", !.todo = live]
      BY DEF peerSettings, StartLoop
    <2>2. loop \in LoopType /\ loop.todo = {} /\ loop.kind = "none" /\ live \subseteq StreamIds
      BY <1>1 DEF LoopOK, Quiet, TypeOK
    <2> QED BY <2>1, <2>2 DEF LoopType
  <1>8. TypeOK'
    BY <1>1, <1>2, <1>3, <1>6, <1>7 DEF TypeOK
  <1>9. StreamTableOK'
    BY <1>1, <1>2, <1>5 DEF StreamTableOK, GoodStream
  <1>10. WindowsBounded'
    BY <1>1, <1>5 DEF WindowsBounded, GoodStream
  <1>11. LoopOK'
    BY <1>1, <1>2, <1>7 DEF LoopOK
  <1>12. HeaderBlockKept'
    BY <1>1, <1>2, <1>5 DEF HeaderBlockKept
  <1>13. \A t \in live : EventsOf(streams'[t]) = EventsOf(streams[t])
    BY <1>5 DEF EventsOf
  <1>14. OneVerdict'
    BY <1>1, <1>2, <1>13 DEF OneVerdict
  <1> QED BY <1>2, <1>8, <1>9, <1>10, <1>11, <1>12, <1>14

LEMMA ConnectionWindowInv ==
    ASSUME IInv, NEW n \in Increments, connectionWindowUpdate(n) PROVE IInv'
  <1> USE DEF IInv
  <1>1. /\ Quiet /\ ~conn.closed /\ ~conn.expecting
        /\ UNCHANGED <<settings, connIn, pings, peer>>
    BY DEF connectionWindowUpdate, Receiving, Reading, InOrder
  <1>2. CASE ~CanAdd(connOut, n)
    <2>1. failConnection(conn, "FLOW_CONTROL_ERROR", "connection window overflow")
          /\ UNCHANGED <<connOut, loop>> /\ peer' \in PeerType
      BY <1>1, <1>2 DEF connectionWindowUpdate, TypeOK
    <2>2. "FLOW_CONTROL_ERROR" \in ErrorCodes /\ "connection window overflow" \in Causes
      BY DEF ErrorCodes, Causes
    <2> QED BY <1>1, <2>1, <2>2, BlameInv
  <1>3. CASE CanAdd(connOut, n)
    <2>1. connOut' = connOut + n /\ StartLoop("window") /\ UNCHANGED <<conn, live, streams, events>>
      BY <1>3 DEF connectionWindowUpdate
    <2>2. connOut' \in Int32Min .. Int32Max /\ connOut' >= 0
      <3>1. n \in Nat /\ connOut \in Nat /\ connOut + n <= Int32Max
        BY <1>3, ProtocolAssumption, FlowAssumption
        DEF CanAdd, TypeOK, WindowsBounded, Int32Min
      <3> QED BY <2>1, <3>1, FlowAssumption DEF Int32Min
    <2>3. /\ loop' \in LoopType /\ loop'.todo = live
          /\ loop'.kind = "none" <=> live = {}
          /\ loop'.kind # "crashed"
      <3>1. loop' = IF live = {} THEN loop ELSE [loop EXCEPT !.kind = "window", !.todo = live]
        BY <2>1 DEF StartLoop
      <3>2. loop \in LoopType /\ loop.todo = {} /\ loop.kind = "none" /\ live \subseteq StreamIds
        BY <1>1 DEF LoopOK, Quiet, TypeOK
      <3> QED BY <3>1, <3>2 DEF LoopType
    <2>4. LoopOK'
      BY <1>1, <2>1, <2>3 DEF LoopOK
    <2> QED BY <1>1, <2>1, <2>2, <2>3, <2>4
            DEF TypeOK, StreamTableOK, WindowsBounded, HeaderBlockKept, OneVerdict
  <1> QED BY <1>2, <1>3

LEMMA StreamWindowInv ==
    ASSUME IInv, NEW s \in PeerIds, NEW n \in Increments, streamWindowUpdate(s, n)
    PROVE  IInv'
  <1> DEFINE x  == streams[s]
             st == [x EXCEPT !.out = @ + n]
             o  == emitPendingRequestBody(st, connOut)
             m  == Sendable(st, connOut)
  <1>1. /\ Quiet /\ ~conn.closed /\ ~conn.expecting
        /\ UNCHANGED <<settings, connIn, loop, pings, peer>>
    BY DEF streamWindowUpdate, Receiving, Reading, InOrder
  <1>2. /\ connIn' \in InFlows /\ Within(connIn', ConfigWindow)
        /\ peer' \in PeerType /\ peer'.block = peer.block
        /\ connOut \in Nat
    BY <1>1 DEF IInv, TypeOK, WindowsBounded, Int32Min
  <1>3. CASE ~(s \in live /\ n > 0 /\ CanAdd(streams[s].out, n))
    <2>1. /\ \/ failConnection(conn, "PROTOCOL_ERROR", "idle stream")
             \/ failStream({s})
          /\ UNCHANGED connOut
      BY <1>3 DEF streamWindowUpdate
    <2>2. "PROTOCOL_ERROR" \in ErrorCodes /\ "idle stream" \in Causes
      BY DEF ErrorCodes, Causes
    <2> QED BY <1>1, <1>2, <2>1, <2>2, FailStreamInv, BlameInv
  <1>4. CASE s \in live /\ n > 0 /\ CanAdd(streams[s].out, n)
    <2>1. SetStream(s, o) /\ connOut' = connOut - m /\ UNCHANGED conn
      BY <1>4 DEF streamWindowUpdate
    <2>2. GoodStream(x) /\ x \in StreamType /\ ~x.waiting /\ x.pendingHdr = 0
      BY <1>1, <1>4, LiveGood, OutsideBlock DEF GoodStream
    <2>3. n \in Nat
      BY ProtocolAssumption, FlowAssumption
    <2>4. /\ GoodStream(st) /\ ~st.waiting /\ st.pendingHdr = 0
          /\ st.remoteEnd = x.remoteEnd
      <3> DEFINE w == x.out + n
      <3>1. w \in Int32Min .. Int32Max
        BY <1>4 DEF CanAdd
      <3>2. st = [x EXCEPT !.out = w]
        OBVIOUS
      <3> HIDE DEF w, x, st
      <3>3. st \in StreamType
        BY <2>2, <3>1, <3>2 DEF StreamType
      <3>4. /\ st.waiting = x.waiting /\ st.pendingHdr = x.pendingHdr
            /\ st.remoteEnd = x.remoteEnd /\ st.localEnd = x.localEnd /\ st.state = x.state
            /\ st.body = x.body /\ st.offset = x.offset /\ st.finalHdrs = x.finalHdrs
            /\ st.in = x.in /\ st.opened = x.opened
        BY <2>2, <3>2 DEF StreamType
      <3>5. GoodStream(st)
        BY <2>2, <3>3, <3>4 DEF GoodStream, StreamOK, StateOf
      <3> QED BY <2>2, <3>4, <3>5
    <2> HIDE DEF st, x
    <2>5. m \in Nat /\ m <= connOut
      BY <1>2, <2>4, SendableBounds
    <2>6. /\ GoodOutcome(st, o) /\ Sendable(o.st, connOut - m) = 0
          /\ ~o.st.waiting /\ o.st.pendingHdr = 0
      BY <1>2, <2>4, EmitGood, EmitKeeps
    <2> HIDE DEF o, m
    <2>7. GoodOutcome(streams[s], o)
      BY <2>4, <2>6 DEF GoodOutcome, EventsOf, x
    <2>8. /\ loop'.todo = {} /\ loop' \in LoopType /\ loop'.kind = "none" /\ loop.todo = {}
      BY <1>1 DEF IInv, LoopOK, Quiet, TypeOK
    <2>9. connOut' \in Nat /\ connOut' <= connOut /\ conn' \in ConnType
      BY <1>2, <2>1, <2>5 DEF IInv, TypeOK
    <2> QED BY <1>1, <1>2, <1>4, <2>1, <2>6, <2>7, <2>8, <2>9, OutsideBlock, SetStreamInv
  <1> QED BY <1>3, <1>4

LEMMA FlushInv ==
    ASSUME IInv, NEW s \in StreamIds, FlushOne(s) PROVE IInv'
  <1> DEFINE o    == emitPendingRequestBody(streams[s], connOut)
             m    == Sendable(streams[s], connOut)
             rest == loop.todo \ {s}
             on   == [loop EXCEPT !.kind = IF rest = {} THEN "none" ELSE @, !.todo = rest]
             off  == [loop EXCEPT !.kind = "none", !.todo = {}, !.undefined = TRUE]
             dead == [loop EXCEPT !.kind = "crashed", !.todo = {}, !.undefined = TRUE]
             ub   == [on EXCEPT !.undefined = TRUE]
  <1>1. /\ loop.kind \in {"settings", "window"} /\ s \in loop.todo
        /\ SetStream(s, o) /\ connOut' = connOut - m
        /\ loop' \in {on, ub, off, dead}
        /\ UNCHANGED <<conn, settings, connIn, pings, peer>>
    BY DEF FlushOne
  <1>2. s \in live /\ ~conn.expecting /\ ~conn.closed /\ loop \in LoopType /\ connOut \in Nat
    BY <1>1 DEF IInv, LoopOK, StreamTableOK, TypeOK, WindowsBounded, Int32Min
  <1>3. GoodStream(streams[s]) /\ ~streams[s].waiting /\ streams[s].pendingHdr = 0
    BY <1>2, LiveGood, OutsideBlock
  <1>4. m \in Nat /\ m <= connOut
    BY <1>2, <1>3, SendableBounds
  <1>5. /\ GoodOutcome(streams[s], o) /\ Sendable(o.st, connOut - m) = 0
        /\ ~o.st.waiting /\ o.st.pendingHdr = 0
    BY <1>2, <1>3, EmitGood, EmitKeeps
  <1> HIDE DEF o, m
  <1>6. /\ loop' \in LoopType
        /\ loop'.todo \subseteq rest
        /\ loop'.kind \in {"none", "crashed"} <=> loop'.todo = {}
        /\ loop'.kind = "crashed" => loop'.undefined
        /\ ~loop'.undefined => ~loop.undefined /\ loop'.todo = rest
    <2>1. rest \in SUBSET StreamIds
      BY <1>2 DEF LoopType
    <2> HIDE DEF rest
    <2>2. /\ on \in LoopType /\ on.todo = rest /\ on.undefined = loop.undefined
          /\ on.kind = IF rest = {} THEN "none" ELSE loop.kind
      BY <1>2, <2>1 DEF LoopType
    <2>3. ub \in LoopType /\ ub.todo = rest /\ ub.undefined /\ ub.kind = on.kind
      <3> HIDE DEF on
      <3> QED BY <2>2 DEF LoopType
    <2>4. off \in LoopType /\ off.todo = {} /\ off.undefined /\ off.kind = "none"
      BY <1>2 DEF LoopType
    <2>5. dead \in LoopType /\ dead.todo = {} /\ dead.undefined /\ dead.kind = "crashed"
      BY <1>2 DEF LoopType
    <2> HIDE DEF on, ub, off, dead
    <2> QED BY <1>1, <2>2, <2>3, <2>4, <2>5
  <1>7. rest \subseteq live' /\ loop.todo \subseteq rest \cup {s} /\ s \notin rest
    BY <1>1 DEF IInv, LoopOK, SetStream
  <1> HIDE DEF rest
  <1>8. /\ connIn' \in InFlows /\ Within(connIn', ConfigWindow) /\ conn' \in ConnType
        /\ peer' \in PeerType /\ connOut' \in Nat /\ connOut' <= connOut
    BY <1>1, <1>2, <1>4 DEF IInv, TypeOK, WindowsBounded
  <1>9. loop'.todo \subseteq live' /\ s \notin loop'.todo
    BY <1>6, <1>7
  <1>10. ~loop'.undefined =>
            /\ ~loop.undefined /\ loop.todo \subseteq loop'.todo \cup {s}
            /\ Sendable(o.st, connOut') = 0
    BY <1>1, <1>5, <1>6, <1>7
  <1> QED BY <1>1, <1>2, <1>5, <1>6, <1>8, <1>9, <1>10, OutsideBlock, SetStreamInv
-----------------------------------------------------------------------------
(***************************************************************************)
(* The theorems                                                            *)
(***************************************************************************)
LEMMA InitInv == Init => IInv
  <1> SUFFICES ASSUME Init PROVE IInv
    OBVIOUS
  <1>0. /\ Int32Max \in Nat /\ DefaultWindow \in 1 .. Int32Max
        /\ ConfigWindow \in 1 .. Int32Max /\ ConfigStreams \in Nat
        /\ ConfigHeaderList \in Nat /\ DefaultFrame \in DefaultFrame .. MaxFrame
    BY ProtocolAssumption, FlowAssumption
  <1>1. NoStream \in StreamType
    BY FlowAssumption
       DEF NoStream, StreamType, StreamStates, NoLength, InFlows, InFlowInit, Methods, Int32Min
  <1>2. /\ conn \in ConnType /\ conn.nextId = 1 /\ ~conn.closed /\ ~conn.expecting
        /\ conn.ghost = 0
    <2>1. conn = [started |-> FALSE, closed |-> FALSE, transportClosed |-> FALSE,
                  sentGoaway |-> FALSE, receivedGoaway |-> FALSE,
                  gotPeerSettings |-> FALSE, expecting |-> FALSE,
                  continuationId |-> 0, ghost |-> 0, nextId |-> 1,
                  error |-> "NO_ERROR", debug |-> ""]
      BY DEF Init
    <2> QED BY <2>1 DEF ConnType, ErrorCodes, Causes
  <1>3. settings \in SettingsType
    <2>1. settings = [streams |-> ConfigStreams, frame |-> DefaultFrame,
                      window |-> ConfigWindow, list |-> ConfigHeaderList]
      BY DEF Init
    <2> QED BY <1>0, <2>1 DEF SettingsType
  <1>4. connIn \in InFlows /\ Within(connIn, ConfigWindow)
    <2>1. connIn = [avail |-> ConfigWindow, unsnt |-> 0]
      BY DEF Init, InFlowInit
    <2> QED BY <1>0, <2>1 DEF InFlows, Within
  <1>5. connOut \in Int32Min .. Int32Max /\ connOut >= 0
    <2>1. connOut = DefaultWindow
      BY DEF Init
    <2> QED BY <1>0, <2>1 DEF Int32Min
  <1>6. peer \in PeerType /\ peer.block = 0
    <2> DEFINE f == [s \in StreamIds |-> ConfigWindow]
    <2>1. f \in [StreamIds -> Nat] /\ DefaultWindow \in Nat
      BY <1>0
    <2>2. peer = [window |-> DefaultWindow, streams |-> f,
                  overran |-> FALSE, block |-> 0, inSync |-> TRUE]
      BY DEF Init
    <2> HIDE DEF f
    <2> QED BY <2>1, <2>2 DEF PeerType
  <1>7. loop \in LoopType /\ loop.kind = "none" /\ loop.todo = {} /\ live = {}
    BY DEF Init, Idle, LoopType
  <1>8. TypeOK
    <2>1. streams \in [StreamIds -> StreamType]
      BY <1>1 DEF Init
    <2>2. events \in [StreamIds -> Seq(Terminal)]
      BY EventTypes DEF Init
    <2>3. pings \in Nat
      BY DEF Init
    <2> QED BY <1>2, <1>3, <1>4, <1>5, <1>6, <1>7, <2>1, <2>2, <2>3 DEF TypeOK
  <1>9. OneVerdict
    <2>1. \A s \in StreamIds : s \in Nat /\ s >= 1
      BY DEF StreamIds
    <2>2. \A s \in StreamIds : events[s] = <<>>
      BY DEF Init
    <2> QED BY <1>2, <1>7, <2>1, <2>2 DEF OneVerdict
  <1>10. conn.nextId % 2 = 1
    BY <1>2
  <1>11. StreamTableOK /\ WindowsBounded /\ HeaderBlockKept /\ LoopOK
    BY <1>2, <1>4, <1>5, <1>6, <1>7
    DEF StreamTableOK, WindowsBounded, HeaderBlockKept, LoopOK
  <1> QED BY <1>8, <1>9, <1>10, <1>11 DEF IInv

LEMMA NextInv == IInv /\ [Next]_vars => IInv'
  <1> SUFFICES ASSUME IInv, [Next]_vars PROVE IInv'
    OBVIOUS
  <1>1. CASE UNCHANGED vars
    BY <1>1, StutterInv
  <1>2. CASE Api
    <2>1. CASE start \/ sendPing
      BY <2>1, StartPingInv
    <2>2. CASE \E r \in Requests : submitRequest(r)
      BY <2>2, SubmitInv
    <2>3. CASE \E r \in Requests : refuseRequest(r)
      BY <2>3, StutterInv DEF refuseRequest
    <2>4. CASE \E s \in StreamIds : cancelStream(s)
      BY <2>4, CancelInv
    <2>5. CASE close \/ onTransportClosed
      BY <2>5, ClosingInv
    <2> QED BY <1>2, <2>1, <2>2, <2>3, <2>4, <2>5 DEF Api
  <1>3. CASE Data
    BY <1>3, DataOnUnknownInv, DataFailsInv, DataAcceptedInv DEF Data
  <1>4. CASE Headers
    BY <1>4, HeadersRefusedInv, HeadersOnUnknownInv, HeadersOnStreamInv DEF Headers
  <1>5. CASE Continuation
    BY <1>5, UnexpectedContinuationInv, ContinuationOnUnknownInv, ContinuationOnStreamInv
    DEF Continuation
  <1>6. CASE Control
    <2>1. CASE \E type \in FrameTypes : rejectFrame(type) \/ malformedFrame(type)
      BY <2>1, BadFrameInv
    <2>2. CASE \E type \in FrameTypes : inertFrame(type)
      BY <2>2, StutterInv DEF inertFrame
    <2>3. CASE \E s \in PeerIds : rstStream(s)
      BY <2>3, RstStreamInv
    <2>4. CASE \E last \in PeerIds \cup {0} : goAway(last)
      BY <2>4, GoAwayInv
    <2>5. CASE \E p \in PeerSettings : invalidSettings(p) \/ peerSettings(p)
      BY <2>5, InvalidSettingsInv, PeerSettingsInv
    <2>6. CASE \E n \in Increments : connectionWindowUpdate(n)
      BY <2>6, ConnectionWindowInv
    <2>7. CASE \E s \in PeerIds, n \in Increments : streamWindowUpdate(s, n)
      BY <2>7, StreamWindowInv
    <2> QED BY <1>6, <2>1, <2>2, <2>3, <2>4, <2>5, <2>6, <2>7 DEF Control
  <1>7. CASE \E s \in StreamIds : FlushOne(s)
    BY <1>7, FlushInv
  <1>8. CASE Crashed
    BY <1>8, StutterInv DEF Crashed
  <1> QED BY <1>1, <1>2, <1>3, <1>4, <1>5, <1>6, <1>7, <1>8 DEF Next

\* IInv is an inductive invariant of the protocol.
THEOREM Invariance == Spec => []IInv
  BY InitInv, NextInv, PTL DEF Spec

\* Type correctness: every send window, the connection's and each stream's, in
\* the range of int32_t, whatever SETTINGS and WINDOW_UPDATE frames arrive.
THEOREM TypeCorrect == Spec => []TypeOK
  <1>1. IInv => TypeOK
    BY DEF IInv
  <1> QED BY <1>1, Invariance, PTL

\* The stream table agrees with the END_STREAM flags, and a closed
\* connection has no streams.
THEOREM StreamTableCorrect == Spec => []StreamTableOK
  <1>1. IInv => StreamTableOK
    BY DEF IInv
  <1> QED BY <1>1, Invariance, PTL

\* No lost wake-up: whatever the interleaving of SETTINGS, WINDOW_UPDATE and
\* submitRequest, no handler leaves body bytes that both windows allow.
THEOREM NoLostWakeup == Spec => []NothingSendableLeft
  <1>1. IInv => NothingSendableLeft
    BY DEF IInv, LoopOK, NothingSendableLeft, Quiet
  <1> QED BY <1>1, Invariance, PTL

\* Every stream that leaves the table got exactly one of the legal verdicts.
THEOREM VerdictCorrect == Spec => []OneVerdict
  <1>1. IInv => OneVerdict
    BY DEF IInv
  <1> QED BY <1>1, Invariance, PTL

\* The connection's send window is never overdrawn, its receive window never
\* outgrows the configured one, and of a stream's receive window nothing is lost
\* or gained: what it was opened with is open or waits to be returned.
THEOREM WindowsCorrect == Spec => []WindowsBounded
  <1>1. IInv => WindowsBounded
    BY DEF IInv
  <1> QED BY <1>1, Invariance, PTL

\* Header blocks are kept whole across CONTINUATION frames and cancellations.
THEOREM HeaderBlocksKept == Spec => []HeaderBlockKept
  <1>1. IInv => HeaderBlockKept
    BY DEF IInv
  <1> QED BY <1>1, Invariance, PTL
-----------------------------------------------------------------------------
(***************************************************************************)
(* What a step does to the stream table and to the reported events.        *)
(***************************************************************************)
TableStep ==
    \/ UNCHANGED <<live, events>>
    \/ \E S \in SUBSET StreamIds : DropStreams(S)
    \/ \E s \in live : \E o : SetStream(s, o)
    \/ live' = live \cup {conn.nextId} /\ UNCHANGED events

LEMMA NextTable == IInv /\ [Next]_vars => TableStep
  <1> SUFFICES ASSUME IInv, [Next]_vars PROVE TableStep
    OBVIOUS
  <1>0. live \in SUBSET StreamIds /\ \A s : {s} \cap StreamIds \in SUBSET StreamIds
    BY DEF IInv, TypeOK
  <1>1. ASSUME NEW c, NEW code, NEW why, failConnection(c, code, why) PROVE TableStep
    BY <1>0, <1>1 DEF failConnection, TableStep
  <1>2. ASSUME NEW s, failStream({s}) PROVE TableStep
    <2>1. DropStreams({s}) => DropStreams({s} \cap StreamIds)
      BY <1>0 DEF DropStreams
    <2> QED BY <1>0, <1>2, <2>1 DEF failStream, TableStep
  <1>3. ASSUME NEW s \in live, NEW o, SetStream(s, o) PROVE TableStep
    BY <1>3 DEF TableStep
  <1>4. CASE UNCHANGED vars
    BY <1>4 DEF vars, TableStep
  <1>5. CASE Api
    <2>1. CASE start \/ sendPing
      BY <2>1 DEF start, sendPing, TableStep
    <2>2. CASE \E r \in Requests : submitRequest(r)
      BY <2>2 DEF submitRequest, TableStep
    <2>3. CASE \E r \in Requests : refuseRequest(r)
      BY <2>3 DEF refuseRequest, vars, TableStep
    <2>4. CASE \E s \in StreamIds : cancelStream(s)
      BY <2>4, <1>2 DEF cancelStream
    <2>5. CASE close \/ onTransportClosed
      BY <2>5, <1>0 DEF close, onTransportClosed, TableStep
    <2> QED BY <1>5, <2>1, <2>2, <2>3, <2>4, <2>5 DEF Api
  <1>6. CASE Data
    <2> SUFFICES ASSUME NEW s \in PeerIds, NEW len \in Lens, NEW size, NEW end,
                        \/ dataOnUnknownStream(s, len) \/ dataRefused(s, len)
                        \/ dataOverrun(s, len) \/ dataForbidden(s, len, size)
                        \/ dataAccepted(s, len, size, end)
                 PROVE  TableStep
      BY <1>6 DEF Data
    <2>1. CASE dataOnUnknownStream(s, len)
      BY <2>1, <1>1 DEF dataOnUnknownStream, TableStep
    <2>2. CASE dataRefused(s, len) \/ dataForbidden(s, len, size)
      BY <2>2, <1>2 DEF dataRefused, dataForbidden
    <2>3. CASE dataOverrun(s, len)
      BY <2>3, <1>1 DEF dataOverrun
    <2>4. CASE dataAccepted(s, len, size, end)
      <3>1. s \in live /\ \E o : SetStream(s, o)
        BY <2>4 DEF dataAccepted, DataWelcome
      <3> QED BY <3>1 DEF TableStep
    <2> QED BY <2>1, <2>2, <2>3, <2>4
  <1>7. ASSUME NEW c, NEW s \in live, NEW st, NEW h, NEW end, NEW whole,
               DecodeBlock(c, s, st, h, end, whole)
        PROVE  TableStep
    BY <1>7, <1>1, <1>3 DEF DecodeBlock
  <1>8. ASSUME NEW c, NEW h, NEW whole, DiscardBlock(c, h, whole) PROVE TableStep
    BY <1>8, <1>1 DEF DiscardBlock, TableStep
  <1>9. CASE Headers
    <2> SUFFICES ASSUME NEW s \in PeerIds, NEW size, NEW endHeaders, NEW h, NEW end,
                        \/ headersRefused(s)
                        \/ headersOnUnknownStream(s, size, endHeaders, h)
                        \/ headersOnStream(s, size, endHeaders, end, h)
                 PROVE  TableStep
      BY <1>9 DEF Headers
    <2>1. CASE headersRefused(s)
      BY <2>1, <1>2 DEF headersRefused
    <2>2. CASE headersOnUnknownStream(s, size, endHeaders, h)
      BY <2>2, <1>1, <1>8 DEF headersOnUnknownStream, TableStep
    <2>3. CASE headersOnStream(s, size, endHeaders, end, h)
      BY <2>3, <1>1, <1>7 DEF headersOnStream, TableStep
    <2> QED BY <2>1, <2>2, <2>3
  <1>10. CASE Continuation
    <2> SUFFICES ASSUME NEW s \in PeerIds, NEW size, NEW endHeaders, NEW h,
                        \/ unexpectedContinuation(s)
                        \/ continuationOnUnknownStream(s, size, endHeaders, h)
                        \/ continuationOnStream(s, size, endHeaders, h)
                 PROVE  TableStep
      BY <1>10 DEF Continuation
    <2>1. CASE unexpectedContinuation(s)
      BY <2>1, <1>1 DEF unexpectedContinuation
    <2>2. CASE continuationOnUnknownStream(s, size, endHeaders, h)
      BY <2>2, <1>1, <1>8 DEF continuationOnUnknownStream, TableStep
    <2>3. CASE continuationOnStream(s, size, endHeaders, h)
      BY <2>3, <1>1, <1>7 DEF continuationOnStream, TableStep
    <2> QED BY <2>1, <2>2, <2>3
  <1>11. CASE Control
    <2>1. CASE \E type \in FrameTypes : rejectFrame(type) \/ malformedFrame(type)
      BY <2>1, <1>1 DEF rejectFrame, malformedFrame
    <2>2. CASE \E type \in FrameTypes : inertFrame(type)
      BY <2>2 DEF inertFrame, vars, TableStep
    <2>3. CASE \E s \in PeerIds : rstStream(s)
      BY <2>3, <1>1, <1>2 DEF rstStream
    <2>4. CASE \E last \in PeerIds \cup {0} : goAway(last)
      BY <2>4, <1>0 DEF goAway, TableStep
    <2>5. CASE \E p \in PeerSettings : invalidSettings(p) \/ peerSettings(p)
      BY <2>5, <1>1 DEF invalidSettings, peerSettings, TableStep
    <2>6. CASE \E n \in Increments : connectionWindowUpdate(n)
      BY <2>6, <1>1 DEF connectionWindowUpdate, TableStep
    <2>7. CASE \E s \in PeerIds, n \in Increments : streamWindowUpdate(s, n)
      BY <2>7, <1>1, <1>2, <1>3 DEF streamWindowUpdate
    <2> QED BY <1>11, <2>1, <2>2, <2>3, <2>4, <2>5, <2>6, <2>7 DEF Control
  <1>12. CASE \E s \in StreamIds : FlushOne(s)
    BY <1>12, <1>3 DEF FlushOne, IInv, LoopOK
  <1>13. CASE Crashed
    BY <1>13 DEF Crashed, vars, TableStep
  <1> QED BY <1>4, <1>5, <1>6, <1>9, <1>10, <1>11, <1>12, <1>13 DEF Next

\* A stream that left the table never comes back and nothing more is reported
\* about it.
THEOREM GoneStreamsStayGone == Spec => GoneForGood
  <1> DEFINE Gone == \A s \in StreamIds \ live :
                        s < conn.nextId => s \notin live' /\ events'[s] = events[s]
  <1>1. IInv /\ [Next]_vars => [Gone]_vars
    <2> SUFFICES ASSUME IInv, [Next]_vars, NEW s \in StreamIds \ live, s < conn.nextId
                 PROVE  s \notin live' /\ events'[s] = events[s]
      OBVIOUS
    <2>1. TableStep
      BY NextTable
    <2>2. CASE UNCHANGED <<live, events>>
      BY <2>2
    <2>3. CASE \E S \in SUBSET StreamIds : DropStreams(S)
      BY <2>3 DEF DropStreams
    <2>4. CASE \E t \in live : \E o : SetStream(t, o)
      <3>1. PICK t \in live : \E o : SetStream(t, o)
        BY <2>4
      <3>2. PICK o : SetStream(t, o)
        BY <3>1
      <3> QED BY <3>1, <3>2 DEF SetStream, IInv, TypeOK
    <2>5. CASE live' = live \cup {conn.nextId} /\ UNCHANGED events
      <3>1. s \in Nat /\ conn.nextId \in Nat
        BY DEF StreamIds, IInv, TypeOK, ConnType
      <3> QED BY <2>5, <3>1
    <2> QED BY <2>1, <2>2, <2>3, <2>4, <2>5 DEF TableStep
  <1> QED BY <1>1, Invariance, PTL DEF Spec, GoneForGood
-----------------------------------------------------------------------------
(***************************************************************************)
(* Two promises that depend on the configuration: the HPACK tables of both *)
(* ends agree, and a peer that kept to the windows is not blamed.  Both    *)
(* rest on what a step leaves alone: the incoming window of a stream that  *)
(* stays in the map changes with DATA only, and a request that was ended   *)
(* stays so.                                                               *)
(***************************************************************************)
Blames == {"flow control exceeded", "old stream DATA"}

Leaves(st, u) == u.in = st.in /\ (st.localEnd => u.localEnd)

StreamsKept == live' \subseteq live /\ \A t \in live' : Leaves(streams[t], streams'[t])

EndsKept ==
    live' \subseteq live /\ \A t \in live' : streams[t].localEnd => streams'[t].localEnd

Silent ==
    /\ conn'.nextId = conn.nextId
    /\ conn'.debug = conn.debug \/ conn'.debug \notin Blames

PeerKept ==
    peer'.window = peer.window /\ peer'.streams = peer.streams /\ peer'.overran = peer.overran

WindowKept ==
    \/ settings'.window = settings.window
    \/ \E p \in PeerSettings : p.window # Keep /\ settings'.window = p.window

QuietStep == StreamsKept /\ Silent /\ PeerKept /\ WindowKept /\ UNCHANGED connIn

LEMMA DropKeeps == ASSUME IInv, NEW S, DropStreams(S) PROVE StreamsKept
  BY DEF IInv, TypeOK, DropStreams, StreamsKept, Leaves

LEMMA SetKeeps ==
    ASSUME IInv, NEW s \in live, NEW o, SetStream(s, o),
           o.st.state # "CLOSED" => Leaves(streams[s], o.st)
    PROVE  StreamsKept
  <1>1. /\ live' = (IF o.st.state = "CLOSED" THEN live \ {s} ELSE live)
        /\ streams' = [streams EXCEPT ![s] = IF o.st.state = "CLOSED" THEN NoStream ELSE o.st]
    BY DEF SetStream
  <1>2. live \subseteq StreamIds /\ DOMAIN streams = StreamIds
    BY DEF IInv, TypeOK
  <1> QED BY <1>1, <1>2 DEF StreamsKept, Leaves

LEMMA FinalizeLeaves ==
    ASSUME NEW st \in StreamType, NEW o, o = finalizeRemoteStream(st)
    PROVE  o.st.localEnd = st.localEnd /\ o.st.in = st.in
  <1>1. o.st \in {[st EXCEPT !.state = "CLOSED"],
                  [st EXCEPT !.remoteEnd = TRUE, !.state = "CLOSED"],
                  [st EXCEPT !.remoteEnd = TRUE, !.state = "HALF_CLOSED_REMOTE"]}
    BY DEF finalizeRemoteStream, FailedStream
  <1> QED BY <1>1 DEF StreamType

LEMMA DecodeLeaves ==
    ASSUME NEW st \in StreamType, NEW h \in Blocks, NEW end
    PROVE  Leaves(st, decodeResponseHeaders(st, h, end).st)
  <1> DEFINE clear == [st EXCEPT !.pendingHdr = 0, !.waiting = FALSE, !.pendingEnd = FALSE]
             first == [clear EXCEPT !.expected = IF h.cl >= 0 THEN h.cl ELSE @,
                                    !.finalHdrs = h.status # "1xx",
                                    !.noBodyStatus = h.status = "nobody"]
             next  == IF st.finalHdrs THEN clear ELSE first
             o     == decodeResponseHeaders(st, h, end)
  <1>1. h.cl \in Int
    BY ProtocolAssumption
  <1>2. clear \in StreamType /\ clear.in = st.in /\ clear.localEnd = st.localEnd
    BY DEF StreamType
  <1>3. o \in {FailedStream(st), finalizeRemoteStream(next), Continues(next)}
    BY DEF decodeResponseHeaders
  <1> HIDE DEF clear, o
  <1>4. first \in StreamType /\ first.in = clear.in /\ first.localEnd = clear.localEnd
    BY <1>1, <1>2 DEF StreamType
  <1> HIDE DEF first
  <1>5. next \in StreamType /\ next.in = st.in /\ next.localEnd = st.localEnd
    BY <1>2, <1>4
  <1> HIDE DEF next
  <1>6. FailedStream(st).st.in = st.in /\ FailedStream(st).st.localEnd = st.localEnd
    BY DEF FailedStream, StreamType
  <1>7. Continues(next).st = next
    BY DEF Continues
  <1>8. Leaves(st, o.st)
    BY <1>3, <1>5, <1>6, <1>7, FinalizeLeaves DEF Leaves
  <1> QED BY <1>8 DEF o

LEMMA EmitLeaves ==
    ASSUME NEW st \in StreamType, NEW w
    PROVE  Leaves(st, emitPendingRequestBody(st, w).st)
  <1> DEFINE n == Sendable(st, w)
             sent == [st EXCEPT !.offset = @ + n, !.out = @ - n]
             o == emitPendingRequestBody(st, w)
  <1>1. /\ sent.in = st.in /\ sent.localEnd = st.localEnd /\ DOMAIN sent = DOMAIN st
    BY DEF StreamType
  <1>2. o.st \in {sent, [sent EXCEPT !.localEnd = TRUE, !.state = "CLOSED"],
                  [sent EXCEPT !.localEnd = TRUE, !.state = "HALF_CLOSED_LOCAL"]}
    BY DEF emitPendingRequestBody, Continues
  <1> HIDE DEF n, sent, o
  <1>3. "in" \in DOMAIN st /\ "localEnd" \in DOMAIN st
    BY DEF StreamType
  <1>4. Leaves(st, o.st)
    BY <1>1, <1>2, <1>3 DEF Leaves
  <1> QED BY <1>4 DEF o

LEMMA FailKeeps ==
    ASSUME IInv, NEW c \in ConnType, c.nextId = conn.nextId, NEW code, NEW why,
           failConnection(c, code, why)
    PROVE  /\ StreamsKept /\ conn'.nextId = conn.nextId
           /\ conn'.debug = why /\ conn'.closed /\ live' = {}
  <1>1. /\ DropStreams(live)
        /\ conn' = [c EXCEPT !.closed = TRUE, !.error = code, !.debug = why,
                             !.sentGoaway = @ \/ ~c.transportClosed,
                             !.expecting = FALSE, !.continuationId = 0, !.ghost = 0]
    BY DEF failConnection
  <1>2. conn'.nextId = c.nextId /\ conn'.debug = why /\ conn'.closed
    BY <1>1 DEF ConnType
  <1>3. live' = {}
    BY <1>1 DEF DropStreams
  <1> QED BY <1>1, <1>2, <1>3, DropKeeps

LEMMA FailQuiet ==
    ASSUME IInv, NEW c \in ConnType, c.nextId = conn.nextId, NEW code, NEW why,
           failConnection(c, code, why), why \notin Blames
    PROVE  StreamsKept /\ Silent
  BY FailKeeps DEF Silent

\* The causes that say nothing about flow control.
LEMMA OtherCauses ==
    /\ "order" \notin Blames /\ "size" \notin Blames /\ "malformed" \notin Blames
    /\ "not opened" \notin Blames /\ "HPACK decode error" \notin Blames
    /\ "HPACK decode failed" \notin Blames /\ "header block" \notin Blames
    /\ "unexpected CONTINUATION" \notin Blames /\ "idle stream" \notin Blames
    /\ "invalid peer settings" \notin Blames
    /\ "connection window overflow" \notin Blames /\ "" \notin Blames
  BY Zenon DEF Blames

LEMMA FailStreamKeeps ==
    ASSUME IInv, NEW s, failStream({s})
    PROVE  StreamsKept /\ Silent /\ conn'.closed = conn.closed
  <1>1. DropStreams({s}) /\ conn' = [conn EXCEPT !.ghost = Ghosted({s})] /\ conn \in ConnType
    BY DEF failStream, IInv, TypeOK
  <1>2. conn'.nextId = conn.nextId /\ conn'.debug = conn.debug /\ conn'.closed = conn.closed
    BY <1>1 DEF ConnType
  <1> QED BY <1>1, <1>2, DropKeeps DEF Silent

LEMMA UnchangedKeeps ==
    ASSUME UNCHANGED <<live, streams>> PROVE StreamsKept
  BY DEF StreamsKept, Leaves

LEMMA ApiQuiet ==
    ASSUME IInv, Api, ~ \E r \in Requests : submitRequest(r)
    PROVE  QuietStep /\ peer' = peer
  <1>0. conn \in ConnType
    BY DEF IInv, TypeOK
  <1>1. CASE start \/ sendPing
    <2>1. UNCHANGED <<live, streams, settings, connIn, peer>>
      BY <1>1 DEF start, sendPing
    <2>2. conn'.nextId = conn.nextId /\ conn'.debug = conn.debug
      BY <1>0, <1>1 DEF start, sendPing, ConnType
    <2> QED BY <2>1, <2>2, UnchangedKeeps DEF QuietStep, Silent, PeerKept, WindowKept
  <1>2. CASE \E r \in Requests : refuseRequest(r)
    BY <1>2, UnchangedKeeps DEF refuseRequest, vars, QuietStep, Silent, PeerKept, WindowKept
  <1>3. CASE \E s \in StreamIds : cancelStream(s)
    BY <1>3, FailStreamKeeps DEF cancelStream, QuietStep, PeerKept, WindowKept
  <1>4. CASE close \/ onTransportClosed
    <2>1. DropStreams(live) /\ UNCHANGED <<settings, connIn, peer>>
      BY <1>4 DEF close, onTransportClosed
    <2>2. conn'.nextId = conn.nextId /\ conn'.debug = conn.debug
      BY <1>0, <1>4 DEF close, onTransportClosed, ConnType
    <2> QED BY <2>1, <2>2, DropKeeps DEF QuietStep, Silent, PeerKept, WindowKept
  <1> QED BY <1>1, <1>2, <1>3, <1>4 DEF Api

\* A block that was decoded says nothing about windows.
LEMMA DecodeQuiet ==
    ASSUME IInv, NEW c \in ConnType, c.nextId = conn.nextId, c.debug = conn.debug,
           NEW s \in live, NEW st \in StreamType, Leaves(streams[s], st),
           NEW h \in Blocks, NEW end, NEW whole, whole,
           DecodeBlock(c, s, st, h, end, whole)
    PROVE  StreamsKept /\ Silent /\ PeerKept /\ peer'.inSync = peer.inSync
  <1>1. PeerKept /\ peer'.inSync = peer.inSync
    BY DEF DecodeBlock, PeerKept, IInv, TypeOK, PeerType
  <1>2. CASE ~h.hpack
    <2>1. failConnection(c, "COMPRESSION_ERROR", "HPACK decode error")
      BY <1>2 DEF DecodeBlock
    <2> QED BY <1>1, <2>1, FailQuiet, OtherCauses
  <1>3. CASE h.hpack
    <2> DEFINE o == decodeResponseHeaders(st, h, end)
    <2>1. conn' = c /\ SetStream(s, o)
      BY <1>3 DEF DecodeBlock
    <2>2. Leaves(streams[s], o.st)
      BY DecodeLeaves DEF Leaves
    <2> HIDE DEF o
    <2> QED BY <1>1, <2>1, <2>2, SetKeeps DEF Silent
  <1> QED BY <1>2, <1>3

LEMMA DiscardQuiet ==
    ASSUME IInv, NEW c \in ConnType, c.nextId = conn.nextId, c.debug = conn.debug,
           NEW h, NEW whole, whole, DiscardBlock(c, h, whole)
    PROVE  StreamsKept /\ Silent /\ PeerKept /\ peer'.inSync = peer.inSync
  <1>1. PeerKept /\ peer'.inSync = peer.inSync
    BY DEF DiscardBlock, PeerKept, IInv, TypeOK, PeerType
  <1>2. CASE ~h.hpack
    <2>1. failConnection(c, "COMPRESSION_ERROR", "HPACK decode failed")
      BY <1>2 DEF DiscardBlock
    <2> QED BY <1>1, <2>1, FailQuiet, OtherCauses
  <1>3. CASE h.hpack
    BY <1>1, <1>3, UnchangedKeeps DEF DiscardBlock, Silent
  <1> QED BY <1>2, <1>3

LEMMA HeadersQuiet ==
    ASSUME IInv, Headers
    PROVE  /\ QuietStep
           /\ peer'.inSync = peer.inSync \/ \E s \in PeerIds : headersRefused(s)
  <1>0. conn \in ConnType /\ peer \in PeerType /\ streams \in [StreamIds -> StreamType]
        /\ live \subseteq StreamIds
    BY DEF IInv, TypeOK
  <1>1. UNCHANGED <<settings, connIn>>
    <2>1. \A s : headersRefused(s) => UNCHANGED <<settings, connIn>>
      BY DEF headersRefused, Unchanged4
    <2>2. \A s, size, eh, h : headersOnUnknownStream(s, size, eh, h)
                                 => UNCHANGED <<settings, connIn>>
      BY Zenon DEF headersOnUnknownStream, Unchanged4
    <2>3. \A s, size, eh, end, h : headersOnStream(s, size, eh, end, h)
                                      => UNCHANGED <<settings, connIn>>
      BY Zenon DEF headersOnStream, Unchanged4
    <2> QED BY <2>1, <2>2, <2>3 DEF Headers
  <1>2. SUFFICES /\ StreamsKept /\ Silent /\ PeerKept
                 /\ peer'.inSync = peer.inSync \/ \E s \in PeerIds : headersRefused(s)
    BY <1>1 DEF QuietStep, WindowKept
  <1>3. CASE \E s \in PeerIds : headersRefused(s)
    <2>1. PeerKept
      BY <1>0, <1>3 DEF headersRefused, PeerKept, PeerType
    <2> QED BY <1>3, <2>1, FailStreamKeeps DEF headersRefused
  <1>4. ASSUME NEW s \in PeerIds, NEW size \in Fragments, NEW endHeaders \in BOOLEAN,
               NEW h \in Blocks, headersOnUnknownStream(s, size, endHeaders, h)
        PROVE  StreamsKept /\ Silent /\ PeerKept /\ peer'.inSync = peer.inSync
    <2>1. CASE failConnection(conn, "PROTOCOL_ERROR", "not opened") /\ UNCHANGED peer
      BY <1>0, <2>1, FailQuiet, OtherCauses DEF PeerKept
    <2>2. CASE DiscardBlock(conn, h, TRUE)
      BY <1>0, <2>2, DiscardQuiet
    <2>3. CASE /\ conn' = [conn EXCEPT !.ghost = size, !.expecting = TRUE,
                                       !.continuationId = s]
               /\ peer' = [peer EXCEPT !.block = size]
               /\ UNCHANGED <<live, streams, events>>
      <3>1. conn'.nextId = conn.nextId /\ conn'.debug = conn.debug
        BY <1>0, <2>3 DEF ConnType
      <3>2. PeerKept /\ peer'.inSync = peer.inSync
        BY <1>0, <2>3 DEF PeerType, PeerKept
      <3> QED BY <2>3, <3>1, <3>2, UnchangedKeeps DEF Silent
    <2> QED BY <1>4, <2>1, <2>2, <2>3 DEF headersOnUnknownStream
  <1>5. ASSUME NEW s \in PeerIds, NEW size \in Fragments, NEW endHeaders \in BOOLEAN,
               NEW h \in Blocks, NEW end \in BOOLEAN,
               headersOnStream(s, size, endHeaders, end, h)
        PROVE  StreamsKept /\ Silent /\ PeerKept /\ peer'.inSync = peer.inSync
    <2> DEFINE st == [streams[s] EXCEPT !.pendingHdr = @ + size]
               su == [st EXCEPT !.waiting = TRUE, !.pendingEnd = end]
    <2>1. /\ s \in live /\ ~conn.expecting /\ ~conn.closed /\ size \in Nat
      BY <1>5, ProtocolAssumption DEF headersOnStream, Receiving, Reading, InOrder
    <2>2. streams[s] \in StreamType /\ streams[s].pendingHdr = 0
      BY <1>0, <2>1, OutsideBlock
    <2>3. st \in StreamType /\ Leaves(streams[s], st) /\ st.pendingHdr = size
      BY <2>1, <2>2 DEF StreamType, Leaves
    <2>4. Leaves(streams[s], su)
      BY <2>2 DEF StreamType, Leaves
    <2> HIDE DEF st, su
    <2>5. CASE failConnection(conn, "ENHANCE_YOUR_CALM", "header block") /\ UNCHANGED peer
      BY <1>0, <2>5, FailQuiet, OtherCauses DEF PeerKept
    <2>6. CASE DecodeBlock(conn, s, st, h, end, st.pendingHdr = size)
      BY <1>0, <2>1, <2>3, <2>6, DecodeQuiet
    <2>7. CASE /\ streams' = [streams EXCEPT ![s] = su]
               /\ conn' = [conn EXCEPT !.expecting = TRUE, !.continuationId = s]
               /\ peer' = [peer EXCEPT !.block = size]
               /\ UNCHANGED <<live, events>>
      <3>1. conn'.nextId = conn.nextId /\ conn'.debug = conn.debug
        BY <1>0, <2>7 DEF ConnType
      <3>2. PeerKept /\ peer'.inSync = peer.inSync
        BY <1>0, <2>7 DEF PeerType, PeerKept
      <3>3. StreamsKept
        BY <1>0, <2>4, <2>7 DEF StreamsKept, Leaves
      <3> QED BY <3>1, <3>2, <3>3 DEF Silent
    <2> QED BY <1>5, <2>5, <2>6, <2>7 DEF headersOnStream, st, su
  <1> QED BY <1>3, <1>4, <1>5 DEF Headers

LEMMA ContinuationQuiet ==
    ASSUME IInv, Continuation
    PROVE  QuietStep /\ peer'.inSync = peer.inSync
  <1>0. /\ conn \in ConnType /\ peer \in PeerType /\ streams \in [StreamIds -> StreamType]
        /\ live \subseteq StreamIds
    BY DEF IInv, TypeOK
  <1>1. UNCHANGED <<settings, connIn>>
    <2>1. \A s : unexpectedContinuation(s) => UNCHANGED <<settings, connIn>>
      BY Zenon DEF unexpectedContinuation, Unchanged4
    <2>2. \A s, size, eh, h : continuationOnUnknownStream(s, size, eh, h)
                                 => UNCHANGED <<settings, connIn>>
      BY Zenon DEF continuationOnUnknownStream, Unchanged4
    <2>3. \A s, size, eh, h : continuationOnStream(s, size, eh, h)
                                 => UNCHANGED <<settings, connIn>>
      BY Zenon DEF continuationOnStream, Unchanged4
    <2> QED BY <2>1, <2>2, <2>3 DEF Continuation
  <1>2. SUFFICES StreamsKept /\ Silent /\ PeerKept /\ peer'.inSync = peer.inSync
    BY <1>1 DEF QuietStep, WindowKept
  <1>3. /\ BlockDone(conn) \in ConnType /\ BlockDone(conn).nextId = conn.nextId
        /\ BlockDone(conn).debug = conn.debug
    BY <1>0 DEF BlockDone, ConnType
  <1>4. ASSUME NEW s \in PeerIds, unexpectedContinuation(s)
        PROVE  StreamsKept /\ Silent /\ PeerKept /\ peer'.inSync = peer.inSync
    <2>1. /\ failConnection(conn, "PROTOCOL_ERROR", "unexpected CONTINUATION")
          /\ UNCHANGED peer
      BY <1>4 DEF unexpectedContinuation
    <2> QED BY <1>0, <2>1, FailQuiet, OtherCauses DEF PeerKept
  <1>5. ASSUME NEW s \in PeerIds, NEW size \in Fragments, NEW endHeaders \in BOOLEAN,
               NEW h \in Blocks, continuationOnUnknownStream(s, size, endHeaders, h)
        PROVE  StreamsKept /\ Silent /\ PeerKept /\ peer'.inSync = peer.inSync
    <2> DEFINE total == conn.ghost + size
               done  == [BlockDone(conn) EXCEPT !.ghost = 0]
    <2>1. /\ conn.expecting /\ ~conn.closed /\ conn.continuationId = s /\ s \notin live
          /\ size \in Nat
      BY <1>5, ProtocolAssumption DEF continuationOnUnknownStream, Receiving, Reading
    <2>2. total = peer.block + size
      BY <2>1 DEF IInv, HeaderBlockKept
    <2>3. done \in ConnType /\ done.nextId = conn.nextId /\ done.debug = conn.debug
      BY <1>3 DEF ConnType
    <2> HIDE DEF total, done
    <2>4. CASE failConnection(conn, "ENHANCE_YOUR_CALM", "header block") /\ UNCHANGED peer
      BY <1>0, <2>4, FailQuiet, OtherCauses DEF PeerKept
    <2>5. CASE DiscardBlock(done, h, total = peer.block + size)
      BY <2>2, <2>3, <2>5, DiscardQuiet
    <2>6. CASE /\ conn' = [conn EXCEPT !.ghost = total]
               /\ peer' = [peer EXCEPT !.block = @ + size]
               /\ UNCHANGED <<live, streams, events>>
      <3>1. conn'.nextId = conn.nextId /\ conn'.debug = conn.debug
        BY <1>0, <2>6 DEF ConnType
      <3>2. PeerKept /\ peer'.inSync = peer.inSync
        BY <1>0, <2>6 DEF PeerType, PeerKept
      <3> QED BY <2>6, <3>1, <3>2, UnchangedKeeps DEF Silent
    <2> QED BY Zenon, <1>5, <2>4, <2>5, <2>6 DEF continuationOnUnknownStream, total, done
  <1>6. ASSUME NEW s \in PeerIds, NEW size \in Fragments, NEW endHeaders \in BOOLEAN,
               NEW h \in Blocks, continuationOnStream(s, size, endHeaders, h)
        PROVE  StreamsKept /\ Silent /\ PeerKept /\ peer'.inSync = peer.inSync
    <2> DEFINE st == [streams[s] EXCEPT !.pendingHdr = @ + size]
               su == [st EXCEPT !.waiting = FALSE]
    <2>1. /\ conn.expecting /\ ~conn.closed /\ conn.continuationId = s /\ s \in live
          /\ size \in Nat
      BY <1>6, ProtocolAssumption DEF continuationOnStream, Receiving, Reading
    <2>2. streams[s] \in StreamType /\ peer.block = streams[s].pendingHdr
      BY <1>0, <2>1 DEF IInv, HeaderBlockKept
    <2>3. /\ st \in StreamType /\ Leaves(streams[s], st)
          /\ st.pendingHdr = streams[s].pendingHdr + size
      BY <2>1, <2>2 DEF StreamType, Leaves
    <2>4. su \in StreamType /\ Leaves(streams[s], su)
      BY <2>3 DEF StreamType, Leaves
    <2>5. st.pendingHdr = peer.block + size
      BY <2>2, <2>3
    <2> HIDE DEF st, su
    <2>6. CASE failConnection(conn, "ENHANCE_YOUR_CALM", "header block") /\ UNCHANGED peer
      BY <1>0, <2>6, FailQuiet, OtherCauses DEF PeerKept
    <2>7. CASE DecodeBlock(BlockDone(conn), s, su, h, st.pendingEnd,
                           st.pendingHdr = peer.block + size)
      BY <1>3, <2>1, <2>4, <2>5, <2>7, DecodeQuiet
    <2>8. CASE /\ streams' = [streams EXCEPT ![s] = st]
               /\ peer' = [peer EXCEPT !.block = @ + size]
               /\ UNCHANGED <<conn, live, events>>
      <3>1. PeerKept /\ peer'.inSync = peer.inSync
        BY <1>0, <2>8 DEF PeerType, PeerKept
      <3>2. StreamsKept
        BY <1>0, <2>3, <2>8 DEF StreamsKept, Leaves
      <3> QED BY <2>8, <3>1, <3>2 DEF Silent
    <2> QED BY Zenon, <1>6, <2>6, <2>7, <2>8 DEF continuationOnStream, st, su
  <1> QED BY <1>4, <1>5, <1>6 DEF Continuation

LEMMA ControlQuiet ==
    ASSUME IInv, Control
    PROVE  QuietStep /\ peer' = peer
  <1>0. /\ conn \in ConnType /\ streams \in [StreamIds -> StreamType]
        /\ live \subseteq StreamIds /\ settings \in SettingsType
    BY DEF IInv, TypeOK
  <1> DEFINE Rest == UNCHANGED <<settings, connIn, peer>>
  <1>1. ASSUME StreamsKept /\ Silent /\ Rest PROVE QuietStep /\ peer' = peer
    BY <1>1 DEF QuietStep, PeerKept, WindowKept
  <1>2. CASE \E type \in FrameTypes : rejectFrame(type) \/ malformedFrame(type)
    <2>1. Rest /\ \E code : \/ failConnection(conn, code, "order")
                            \/ failConnection(conn, code, "size")
                            \/ failConnection(conn, code, "malformed")
      BY <1>2 DEF rejectFrame, malformedFrame, Unchanged4
    <2> QED BY <1>0, <1>1, <2>1, FailQuiet, OtherCauses
  <1>3. CASE \E type \in FrameTypes : inertFrame(type)
    BY <1>1, <1>3, UnchangedKeeps DEF inertFrame, vars, Silent
  <1>4. CASE \E s \in PeerIds : rstStream(s)
    <2>1. PICK s \in PeerIds : rstStream(s)
      BY <1>4
    <2>2. Rest /\ (failConnection(conn, "PROTOCOL_ERROR", "idle stream") \/ failStream({s}))
      BY Zenon, <2>1 DEF rstStream, Unchanged4
    <2> QED BY <1>0, <1>1, <2>2, FailQuiet, FailStreamKeeps, OtherCauses
  <1>5. CASE \E last \in PeerIds \cup {0} : goAway(last)
    <2>1. PICK last \in PeerIds \cup {0} : goAway(last)
      BY <1>5
    <2> DEFINE refused == {s \in live : s > last}
    <2>2. /\ Rest /\ DropStreams(refused)
          /\ conn' = [conn EXCEPT !.receivedGoaway = TRUE, !.ghost = Ghosted(refused)]
      BY <2>1 DEF goAway, Unchanged4
    <2> HIDE DEF refused
    <2>3. Silent
      BY <1>0, <2>2 DEF Silent, ConnType
    <2> QED BY <1>1, <2>2, <2>3, DropKeeps
  <1>6. CASE \E p \in PeerSettings : invalidSettings(p)
    <2> DEFINE c == [conn EXCEPT !.gotPeerSettings = TRUE]
    <2>1. Rest /\ \E code : failConnection(c, code, "invalid peer settings")
      BY <1>6 DEF invalidSettings, Unchanged4
    <2>2. c \in ConnType /\ c.nextId = conn.nextId
      BY <1>0 DEF ConnType
    <2> HIDE DEF c
    <2> QED BY <1>1, <2>1, <2>2, FailQuiet, OtherCauses
  <1>7. CASE \E p \in PeerSettings : peerSettings(p)
    <2>1. PICK p \in PeerSettings : peerSettings(p)
      BY <1>7
    <2>2. /\ conn' = [conn EXCEPT !.gotPeerSettings = TRUE]
          /\ settings' = [streams |-> Updated(settings.streams, p.streams),
                          frame   |-> Updated(settings.frame, p.frame),
                          window  |-> Updated(settings.window, p.window),
                          list    |-> Updated(settings.list, p.list)]
          /\ streams' = [s \in StreamIds |->
                           IF s \in live
                           THEN [streams[s] EXCEPT !.out = @ + settings'.window - settings.window]
                           ELSE streams[s]]
          /\ UNCHANGED <<connIn, live, peer>>
      BY <2>1 DEF peerSettings
    <2>3. Silent
      BY <1>0, <2>2 DEF Silent, ConnType
    <2>4. StreamsKept
      <3>1. SUFFICES ASSUME NEW t \in live PROVE Leaves(streams[t], streams'[t])
        BY <2>2 DEF StreamsKept
      <3>2. /\ streams[t] \in StreamType
            /\ streams'[t] = [streams[t] EXCEPT !.out = @ + settings'.window - settings.window]
        BY <1>0, <2>2
      <3>3. streams'[t].in = streams[t].in /\ streams'[t].localEnd = streams[t].localEnd
        BY <3>2 DEF StreamType
      <3> QED BY <3>3 DEF Leaves
    <2>5. WindowKept
      BY <2>2 DEF WindowKept, Updated
    <2> QED BY <2>2, <2>3, <2>4, <2>5 DEF QuietStep, PeerKept
  <1>8. CASE \E n \in Increments : connectionWindowUpdate(n)
    <2>1. Rest /\ \/ UNCHANGED <<conn, live, streams, events>>
                  \/ failConnection(conn, "FLOW_CONTROL_ERROR", "connection window overflow")
      BY Zenon, <1>8 DEF connectionWindowUpdate
    <2>2. CASE UNCHANGED <<conn, live, streams, events>>
      BY <1>1, <2>1, <2>2, UnchangedKeeps DEF Silent
    <2> QED BY <1>0, <1>1, <2>1, <2>2, FailQuiet, OtherCauses
  <1>9. CASE \E s \in PeerIds, n \in Increments : streamWindowUpdate(s, n)
    <2>1. PICK s \in PeerIds, n \in Increments : streamWindowUpdate(s, n)
      BY <1>9
    <2> DEFINE st == [streams[s] EXCEPT !.out = @ + n]
               o == emitPendingRequestBody(st, connOut)
    <2>2. /\ Rest
          /\ \/ /\ s \in live /\ SetStream(s, o) /\ UNCHANGED conn
                /\ streams[s].out + n \in Int32Min .. Int32Max
             \/ failConnection(conn, "PROTOCOL_ERROR", "idle stream")
             \/ failStream({s})
      BY Zenon, <2>1 DEF streamWindowUpdate, CanAdd
    <2>3. CASE /\ s \in live /\ SetStream(s, o) /\ UNCHANGED conn
               /\ streams[s].out + n \in Int32Min .. Int32Max
      <3>1. streams[s] \in StreamType /\ streams[s].out + n \in Int32Min .. Int32Max
        BY <1>0, <2>3
      <3>2. st \in StreamType /\ Leaves(streams[s], st)
        BY <3>1 DEF StreamType, Leaves
      <3> HIDE DEF st
      <3>3. Leaves(streams[s], o.st)
        BY <3>2, EmitLeaves DEF Leaves
      <3> HIDE DEF o
      <3> QED BY <1>1, <2>2, <2>3, <3>3, SetKeeps DEF Silent
    <2> HIDE DEF o
    <2> QED BY <1>0, <1>1, <2>2, <2>3, FailQuiet, FailStreamKeeps, OtherCauses
  <1> QED BY <1>2, <1>3, <1>4, <1>5, <1>6, <1>7, <1>8, <1>9, Control DEF Control

LEMMA FlushQuiet ==
    ASSUME IInv, NEW s \in StreamIds, FlushOne(s)
    PROVE  QuietStep /\ peer' = peer
  <1> DEFINE o == emitPendingRequestBody(streams[s], connOut)
  <1>1. s \in live /\ SetStream(s, o) /\ UNCHANGED <<conn, settings, connIn, peer>>
    BY Zenon DEF FlushOne, IInv, LoopOK
  <1>2. Leaves(streams[s], o.st)
    BY <1>1, EmitLeaves DEF IInv, TypeOK
  <1> HIDE DEF o
  <1> QED BY <1>1, <1>2, SetKeeps DEF QuietStep, Silent, PeerKept, WindowKept

\* An accepted DATA frame changes the incoming window of its stream only.
LEMMA AcceptedShape ==
    ASSUME IInv, NEW s \in PeerIds, NEW len \in Lens, NEW size \in DataSizes(len),
           NEW end \in BOOLEAN, dataAccepted(s, len, size, end)
    PROVE  /\ s \in live /\ live' \subseteq live
           /\ len = 0 \/ (CanTake(connIn, len) /\ CanTake(streams[s].in, len))
           /\ connIn' = Added(Taken(connIn, len), len)
           /\ peer' = PeerSends(s, len, Refresh(Taken(connIn, len), len),
                                Refresh(Taken(streams[s].in, len), len))
           /\ UNCHANGED <<conn, settings>>
           /\ \A t \in live' : streams'[t].localEnd = streams[t].localEnd
           /\ \A t \in live' : t # s => streams'[t].in = streams[t].in
           /\ s \in live' => streams'[s].in = Added(Taken(streams[s].in, len), len)
  <1> DEFINE in  == Taken(streams[s].in, len)
             add == Added(in, len)
             st  == [streams[s] EXCEPT !.received = @ + size, !.in = add]
             o   == IF end THEN finalizeRemoteStream(st) ELSE Continues(st)
  <1>1. /\ DataWelcome(s) /\ Unchanged4 /\ UNCHANGED conn
        /\ CanTakeBoth(connIn, streams[s].in, len)
        /\ SetStream(s, o)
        /\ connIn' = Added(Taken(connIn, len), len)
        /\ peer' = PeerSends(s, len, Refresh(Taken(connIn, len), len), Refresh(in, len))
    BY DEF dataAccepted
  <1>2. /\ live' = (IF o.st.state = "CLOSED" THEN live \ {s} ELSE live)
        /\ streams' = [streams EXCEPT ![s] = IF o.st.state = "CLOSED" THEN NoStream ELSE o.st]
    BY <1>1 DEF SetStream
  <1> HIDE DEF o
  <1>3. s \in live /\ UNCHANGED <<conn, settings>>
    BY <1>1 DEF DataWelcome, Unchanged4
  <1>4. len = 0 \/ (CanTake(connIn, len) /\ CanTake(streams[s].in, len))
    BY <1>1 DEF CanTakeBoth
  <1>5. /\ streams[s] \in StreamType /\ Within(streams[s].in, Int32Max)
        /\ len \in Nat /\ size \in Nat /\ Int32Max \in 0 .. Int32Max
    BY <1>3, LiveGood, WholeWithin, InputTypes, FlowAssumption DEF GoodStream, DataSizes
  <1>6. streams[s].in \in InFlows
    BY <1>5 DEF StreamType
  <1>7. add \in InFlows
    BY <1>4, <1>5, <1>6, FlowWithin
  <1> HIDE DEF add
  <1>8. st \in StreamType /\ st.localEnd = streams[s].localEnd /\ st.in = add
    <2> DEFINE r == streams[s].received + size
    <2>1. r \in Nat
      BY <1>5 DEF StreamType
    <2>2. st = [streams[s] EXCEPT !.received = r, !.in = add]
      OBVIOUS
    <2> HIDE DEF r
    <2>3. st \in StreamType
      BY <1>5, <1>7, <2>1, <2>2 DEF StreamType
    <2> QED BY <1>5, <2>2, <2>3 DEF StreamType
  <1> HIDE DEF st
  <1>9. o.st.localEnd = streams[s].localEnd /\ o.st.in = add
    <2>1. finalizeRemoteStream(st).st.localEnd = st.localEnd
          /\ finalizeRemoteStream(st).st.in = st.in
      BY <1>8, FinalizeLeaves
    <2>2. Continues(st).st = st
      BY DEF Continues
    <2> QED BY <1>8, <2>1, <2>2 DEF o
  <1>10. live \subseteq StreamIds /\ DOMAIN streams = StreamIds
    BY DEF IInv, TypeOK
  <1>11. /\ live' \subseteq live
         /\ \A t \in live' : streams'[t].localEnd = streams[t].localEnd
         /\ \A t \in live' : t # s => streams'[t].in = streams[t].in
         /\ s \in live' => streams'[s].in = add
    BY <1>2, <1>3, <1>9, <1>10
  <1> QED BY <1>1, <1>3, <1>4, <1>11 DEF add

\* DATA leaves the decoder and the requests alone.
LEMMA DataSync ==
    ASSUME IInv, Data
    PROVE  EndsKept /\ peer'.inSync = peer.inSync
  <1>0. /\ conn \in ConnType /\ streams \in [StreamIds -> StreamType]
        /\ live \subseteq StreamIds /\ peer \in PeerType
    BY DEF IInv, TypeOK
  <1>1. StreamsKept => EndsKept
    BY DEF StreamsKept, EndsKept, Leaves
  <1>2. ASSUME NEW s, NEW len, NEW a, NEW b, peer' = PeerSends(s, len, a, b)
        PROVE  peer'.inSync = peer.inSync
    BY <1>0, <1>2 DEF PeerSends, PeerType
  <1>3. ASSUME NEW s \in PeerIds, NEW len \in Lens, dataOnUnknownStream(s, len)
        PROVE  EndsKept /\ peer'.inSync = peer.inSync
    <2>1. \E a, b : peer' = PeerSends(s, len, a, b)
      BY Zenon, <1>3 DEF dataOnUnknownStream
    <2>2. \/ \E code, why : failConnection(conn, code, why)
          \/ UNCHANGED <<live, streams>>
      BY Zenon, <1>3 DEF dataOnUnknownStream
    <2> QED BY <1>0, <1>1, <1>2, <2>1, <2>2, FailKeeps, UnchangedKeeps
  <1>4. ASSUME NEW s \in PeerIds, NEW len \in Lens, NEW size,
               \/ dataRefused(s, len) \/ dataOverrun(s, len) \/ dataForbidden(s, len, size)
        PROVE  EndsKept /\ peer'.inSync = peer.inSync
    <2>1. \E a, b : peer' = PeerSends(s, len, a, b)
      BY Zenon, <1>4 DEF dataRefused, dataOverrun, dataForbidden
    <2>2. failStream({s}) \/ \E code, why : failConnection(conn, code, why)
      BY Zenon, <1>4 DEF dataRefused, dataOverrun, dataForbidden
    <2> QED BY <1>0, <1>1, <1>2, <2>1, <2>2, FailKeeps, FailStreamKeeps
  <1>5. ASSUME NEW s \in PeerIds, NEW len \in Lens, NEW size \in DataSizes(len),
               NEW end \in BOOLEAN, dataAccepted(s, len, size, end)
        PROVE  EndsKept /\ peer'.inSync = peer.inSync
    BY <1>2, <1>5, AcceptedShape DEF EndsKept
  <1> QED BY <1>3, <1>4, <1>5 DEF Data

(***************************************************************************)
(* The HPACK tables.  The one handler that skips a block is reached by     *)
(* HEADERS on a stream in the map that the peer has ended, so only while   *)
(* the request is still being sent.                                        *)
(***************************************************************************)
SyncInv == HpackInSync /\ \A s \in live : streams[s].localEnd

LEMMA SubmitEnds ==
    ASSUME IInv, NEW r \in Requests, r.body = 0, r.hdr <= DefaultFrame, submitRequest(r),
           SyncInv
    PROVE  SyncInv'
  <1> DEFINE st == emitRequestHeaders(NewStream(r), r)
             o  == emitPendingRequestBody(st, connOut)
  <1>1. /\ settings \in SettingsType /\ live \subseteq StreamIds
        /\ DOMAIN streams = StreamIds /\ conn \in ConnType
    BY DEF IInv, TypeOK
  <1>2. r.hdr <= settings.frame
    BY <1>1, ProtocolAssumption DEF SettingsType
  <1>3. GoodStream(st)
    BY NewStreamGood
  <1>4. st.localEnd
    BY <1>2 DEF emitRequestHeaders, NewStream, NoStream
  <1>5. /\ live' = live \cup {conn.nextId} /\ streams' = [streams EXCEPT ![conn.nextId] = o.st]
        /\ conn' = [conn EXCEPT !.nextId = conn.nextId + 2] /\ UNCHANGED peer
    BY DEF submitRequest
  <1>6. conn'.closed = conn.closed
    BY <1>1, <1>5 DEF ConnType
  <1>7. o.st.localEnd
    BY <1>3, <1>4, EmitLeaves DEF GoodStream, Leaves
  <1> HIDE DEF o
  <1>8. \A s \in live' : streams'[s].localEnd
    <2>1. IInv'
      BY SubmitInv
    <2>2. conn.nextId \in StreamIds
      BY <1>5, <2>1 DEF IInv, TypeOK
    <2> QED BY <1>1, <1>5, <1>7, <2>2 DEF SyncInv
  <1> QED BY <1>5, <1>6, <1>8 DEF SyncInv, HpackInSync

\* A closed connection is not opened again.
LEMMA ClosedStays == IInv /\ [Next]_vars => (conn.closed => conn'.closed)
  <1> SUFFICES ASSUME IInv, [Next]_vars, conn.closed PROVE conn'.closed
    OBVIOUS
  <1>0. conn \in ConnType
    BY DEF IInv, TypeOK
  <1>1. ~Receiving("DATA") /\ \A type : ~Receiving(type) /\ ~Reading
    BY DEF Receiving, Reading
  <1>2. CASE UNCHANGED vars
    BY <1>2 DEF vars
  <1>3. CASE Api
    <2>1. \A r \in Requests : ~submitRequest(r)
      BY DEF submitRequest, Accepts, canSubmitRequests
    <2>2. CASE start \/ onTransportClosed
      BY <1>0, <2>2 DEF start, onTransportClosed, ConnType
    <2>3. CASE \E r \in Requests : refuseRequest(r)
      BY <2>3 DEF refuseRequest, vars
    <2> QED BY <1>3, <2>1, <2>2, <2>3 DEF Api, cancelStream, sendPing, close
  <1>4. ~Data
    <2>1. \A s, len : ~dataOnUnknownStream(s, len) /\ ~dataRefused(s, len)
      BY Zenon, <1>1 DEF dataOnUnknownStream, dataRefused
    <2>2. \A s : ~DataWelcome(s)
      BY <1>1 DEF DataWelcome
    <2>3. \A s, len, size : ~dataOverrun(s, len) /\ ~dataForbidden(s, len, size)
      BY Zenon, <2>2 DEF dataOverrun, dataForbidden
    <2>4. \A s, len, size, end : ~dataAccepted(s, len, size, end)
      BY Zenon, <2>2 DEF dataAccepted
    <2> QED BY <2>1, <2>3, <2>4 DEF Data
  <1>5. ~Headers
    <2>1. \A s : ~headersRefused(s)
      BY <1>1 DEF headersRefused
    <2>2. \A s, size, eh, h : ~headersOnUnknownStream(s, size, eh, h)
      BY Zenon, <1>1 DEF headersOnUnknownStream
    <2>3. \A s, size, eh, end, h : ~headersOnStream(s, size, eh, end, h)
      BY Zenon, <1>1 DEF headersOnStream
    <2> QED BY <2>1, <2>2, <2>3 DEF Headers
  <1>6. ~Continuation
    <2>1. \A s : ~unexpectedContinuation(s)
      BY Zenon, <1>1 DEF unexpectedContinuation
    <2>2. \A s, size, eh, h : ~continuationOnUnknownStream(s, size, eh, h)
      BY Zenon, <1>1 DEF continuationOnUnknownStream
    <2>3. \A s, size, eh, h : ~continuationOnStream(s, size, eh, h)
      BY Zenon, <1>1 DEF continuationOnStream
    <2> QED BY <2>1, <2>2, <2>3 DEF Continuation
  <1>7. ~Control
    <2>1. \A type : ~rejectFrame(type) /\ ~malformedFrame(type) /\ ~inertFrame(type)
      BY Zenon, <1>1 DEF rejectFrame, malformedFrame, inertFrame
    <2>2. \A s : ~rstStream(s) /\ ~goAway(s) /\ ~invalidSettings(s) /\ ~peerSettings(s)
      BY Zenon, <1>1 DEF rstStream, goAway, invalidSettings, peerSettings
    <2>3. \A s, n : ~connectionWindowUpdate(n) /\ ~streamWindowUpdate(s, n)
      BY Zenon, <1>1 DEF connectionWindowUpdate, streamWindowUpdate
    <2> QED BY <2>1, <2>2, <2>3 DEF Control
  <1>8. CASE \E s \in StreamIds : FlushOne(s)
    BY Zenon, <1>8 DEF FlushOne
  <1>9. CASE Crashed
    BY <1>9 DEF Crashed, vars
  <1> QED BY <1>2, <1>3, <1>4, <1>5, <1>6, <1>7, <1>8, <1>9 DEF Next

LEMMA NextSync ==
    ASSUME \A r \in Requests : r.body = 0 /\ r.hdr <= DefaultFrame
    PROVE  IInv /\ SyncInv /\ [Next]_vars => SyncInv'
  <1> SUFFICES ASSUME IInv, SyncInv, [Next]_vars PROVE SyncInv'
    OBVIOUS
  <1>1. CASE \E r \in Requests : submitRequest(r)
    BY <1>1, SubmitEnds
  <1>2. \A s \in PeerIds : ~headersRefused(s)
    <2> SUFFICES ASSUME NEW s \in PeerIds, headersRefused(s) PROVE FALSE
      OBVIOUS
    <2>1. s \in live /\ (streams[s].state = "CLOSED" \/ streams[s].remoteEnd)
      BY DEF headersRefused
    <2>2. streams[s].localEnd /\ StreamOK(streams[s])
      BY <2>1 DEF SyncInv, IInv, StreamTableOK
    <2> QED BY <2>1, <2>2 DEF StreamOK, StateOf
  <1>3. CASE EndsKept /\ peer'.inSync = peer.inSync
    BY <1>3, ClosedStays DEF SyncInv, HpackInSync, EndsKept
  <1>4. ASSUME QuietStep PROVE EndsKept
    BY <1>4 DEF QuietStep, StreamsKept, EndsKept, Leaves
  <1>5. CASE Api
    BY <1>1, <1>3, <1>4, <1>5, ApiQuiet
  <1>6. CASE Data
    BY <1>3, <1>6, DataSync
  <1>7. CASE Headers
    BY <1>2, <1>3, <1>4, <1>7, HeadersQuiet
  <1>8. CASE Continuation
    BY <1>3, <1>4, <1>8, ContinuationQuiet
  <1>9. CASE Control
    BY <1>3, <1>4, <1>9, ControlQuiet
  <1>10. CASE \E s \in StreamIds : FlushOne(s)
    BY <1>3, <1>4, <1>10, FlushQuiet
  <1>11. CASE UNCHANGED vars \/ Crashed
    BY <1>11 DEF Crashed, vars, SyncInv, HpackInSync
  <1> QED BY <1>5, <1>6, <1>7, <1>8, <1>9, <1>10, <1>11 DEF Next

\* Every header block the peer finished reaches the decoder whole and in
\* order, for requests that end with their HEADERS frame (processHeadersFrame
\* skips the block of a stream whose request body is still being sent).
THEOREM TablesAgree ==
    ASSUME \A r \in Requests : r.body = 0 /\ r.hdr <= DefaultFrame
    PROVE  Spec => []HpackInSync
  <1>1. Init => SyncInv
    <2> SUFFICES ASSUME Init PROVE SyncInv
      OBVIOUS
    <2>1. live = {} /\ peer.inSync
      BY DEF Init
    <2> QED BY <2>1 DEF SyncInv, HpackInSync
  <1>2. IInv /\ SyncInv /\ [Next]_vars => SyncInv'
    BY NextSync
  <1>3. SyncInv => HpackInSync
    BY DEF SyncInv
  <1> QED BY <1>1, <1>2, <1>3, Invariance, PTL DEF Spec
-----------------------------------------------------------------------------
(***************************************************************************)
(* The peer's view of the windows.  As long as it has not overrun one, the *)
(* receiver's side of every window is at least as open as the sender's:    *)
(* of the connection by what the configured window exceeds the default,    *)
(* of a stream because the window it was opened with is not smaller than   *)
(* the one announced.                                                      *)
(***************************************************************************)
Margin == ConfigWindow - DefaultWindow

WindowsAgree ==
    /\ connIn.avail >= peer.window + Margin
    /\ \A s \in live : peer.streams[s] <= streams[s].in.avail
    /\ \A s \in StreamIds : s >= conn.nextId => peer.streams[s] <= ConfigWindow

PeerInv ==
    /\ settings.window >= ConfigWindow
    /\ ~peer.overran => conn.debug \notin Blames
    /\ ~peer.overran /\ ~conn.closed => WindowsAgree

\* What one DATA frame does to a window, seen from both ends.
LEMMA RefreshAgrees ==
    ASSUME NEW f \in InFlows, NEW b \in 0 .. Int32Max, Within(f, b),
           NEW n \in Nat, n = 0 \/ CanTake(f, n),
           NEW w \in Nat, n <= w, NEW m \in Int, f.avail >= w + m
    PROVE  Added(Taken(f, n), n).avail >= Greater(0, w - n) + Refresh(Taken(f, n), n) + m
  <1> DEFINE g == Taken(f, n)
  <1>1. f.avail \in Int /\ f.unsnt \in Int /\ n <= f.avail
    BY DEF InFlows, Within, CanTake
  <1>2. g = [avail |-> f.avail - n, unsnt |-> f.unsnt]
    BY DEF Taken, InFlows
  <1>3. g.avail = f.avail - n /\ g.unsnt = f.unsnt
    BY <1>2
  <1>4. Greater(0, w - n) = w - n
    BY DEF Greater
  <1>5. g.unsnt + n \in Nat /\ g.unsnt + n <= Int32Max
    BY <1>1, <1>3, FlowAssumption DEF Within
  <1> HIDE DEF g
  <1>6. CASE g.unsnt + n < MinRefresh /\ g.unsnt + n < g.avail
    <2>1. Refresh(g, n) = 0 /\ Added(g, n) = [g EXCEPT !.unsnt = g.unsnt + n]
      BY <1>5, <1>6, FlowAssumption DEF Refresh, Added
    <2>2. Added(g, n).avail = g.avail
      BY <1>2, <2>1 DEF g
    <2> QED BY <1>1, <1>3, <1>4, <2>1, <2>2 DEF g
  <1>7. CASE ~(g.unsnt + n < MinRefresh /\ g.unsnt + n < g.avail)
    <2>1. /\ Refresh(g, n) = g.unsnt + n
          /\ Added(g, n) = [avail |-> g.avail + (g.unsnt + n), unsnt |-> 0]
      BY <1>5, <1>7, FlowAssumption DEF Refresh, Added
    <2>2. Added(g, n).avail = g.avail + (g.unsnt + n)
      BY <2>1
    <2> QED BY <1>1, <1>3, <1>4, <1>5, <2>1, <2>2 DEF g
  <1> QED BY <1>6, <1>7

\* What a frame the peer may send does to its own windows.
LEMMA PeerSpends ==
    ASSUME peer \in PeerType, NEW s \in Nat, NEW len \in Nat, NEW a \in Nat, NEW b \in Nat,
           peer' = PeerSends(s, len, a, b), ~peer'.overran
    PROVE  /\ ~peer.overran /\ len <= peer.window
           /\ s \in StreamIds => len <= peer.streams[s]
           /\ peer'.window = Greater(0, peer.window - len) + a
           /\ s \in StreamIds => peer'.streams[s] = Greater(0, peer.streams[s] - len) + b
           /\ \A t \in StreamIds : t # s => peer'.streams[t] = peer.streams[t]
  <1> DEFINE w == Greater(0, peer.window - len) + a
             ps == [t \in StreamIds |-> IF t = s THEN Greater(0, peer.streams[t] - len) + b
                                         ELSE peer.streams[t]]
             ov == \/ peer.overran
                   \/ len > peer.window
                   \/ s \in StreamIds /\ len > peer.streams[s]
  <1>1. peer' = [peer EXCEPT !.window = w, !.streams = ps, !.overran = ov]
    BY DEF PeerSends
  <1>2. peer'.window = w /\ peer'.streams = ps /\ (peer'.overran <=> ov)
    <2> HIDE DEF w, ps, ov
    <2> QED BY <1>1 DEF PeerType
  <1>3. ~ov
    BY <1>2
  <1> QED BY <1>2, <1>3 DEF PeerType

LEMMA QuietPeerInv ==
    ASSUME \A p \in PeerSettings : p.window = Keep \/ p.window >= ConfigWindow,
           IInv, PeerInv, QuietStep, conn.closed => conn'.closed
    PROVE  PeerInv'
  <1>0. settings'.window >= ConfigWindow
    BY DEF QuietStep, WindowKept, PeerInv
  <1>1. /\ ~peer.overran => conn'.debug \notin Blames
        /\ peer'.overran = peer.overran
    BY DEF QuietStep, Silent, PeerKept, PeerInv
  <1>2. ASSUME ~peer.overran, ~conn'.closed PROVE WindowsAgree'
    <2>1. WindowsAgree
      BY <1>2 DEF PeerInv
    <2>2. /\ connIn' = connIn /\ peer'.window = peer.window /\ peer'.streams = peer.streams
          /\ conn'.nextId = conn.nextId /\ live' \subseteq live
          /\ \A t \in live' : streams'[t].in = streams[t].in
      BY DEF QuietStep, Silent, PeerKept, StreamsKept, Leaves
    <2> QED BY <2>1, <2>2 DEF WindowsAgree, Margin
  <1> QED BY <1>0, <1>1, <1>2 DEF PeerInv

LEMMA SubmitPeerInv ==
    ASSUME IInv, PeerInv, NEW r \in Requests, submitRequest(r) PROVE PeerInv'
  <1> DEFINE s  == conn.nextId
             st == emitRequestHeaders(NewStream(r), r)
             o  == emitPendingRequestBody(st, connOut)
  <1>1. /\ live' = live \cup {s} /\ streams' = [streams EXCEPT ![s] = o.st]
        /\ conn' = [conn EXCEPT !.nextId = s + 2] /\ UNCHANGED <<settings, connIn, peer>>
    BY DEF submitRequest
  <1>2. GoodStream(st)
    BY NewStreamGood
  <1>3. st.in.avail = settings.window
    <2>1. NewStream(r).in = InFlowInit(settings.window) /\ NewStream(r) \in StreamType
      <3>1. InFlowInit(settings.window) \in InFlows /\ settings.window \in Int
        BY DEF IInv, TypeOK, SettingsType, InFlows, InFlowInit
      <3>2. NoStream \in StreamType /\ r.method \in Methods /\ r.body \in Nat
        BY ProtocolAssumption, FlowAssumption
        DEF NoStream, StreamType, StreamStates, NoLength, InFlows, InFlowInit, Methods, Int32Min
      <3> DEFINE f == InFlowInit(settings.window)
      <3>3. NewStream(r) = [NoStream EXCEPT !.method = r.method, !.body = r.body, !.in = f,
                                            !.opened = settings.window, !.out = settings.window]
        BY DEF NewStream
      <3>4. settings.window \in 0 .. Int32Max /\ settings.window \in Int32Min .. Int32Max
        BY FlowAssumption DEF IInv, TypeOK, SettingsType, Int32Min
      <3> HIDE DEF f
      <3> QED BY <3>1, <3>2, <3>3, <3>4 DEF StreamType, f
    <2>2. st.in = NewStream(r).in
      BY <2>1 DEF emitRequestHeaders, StreamType
    <2> QED BY <2>1, <2>2 DEF InFlowInit
  <1> HIDE DEF st
  <1>4. o.st.in = st.in
    BY <1>2, EmitLeaves DEF GoodStream, Leaves
  <1> HIDE DEF o
  <1>5. /\ conn'.closed = conn.closed /\ conn'.debug = conn.debug
        /\ conn'.nextId = s + 2 /\ s \in Nat
    BY <1>1 DEF IInv, TypeOK, ConnType
  <1>6. s \in StreamIds /\ DOMAIN streams = StreamIds /\ live \subseteq StreamIds
    <2>1. IInv'
      BY SubmitInv
    <2> QED BY <1>1, <2>1 DEF IInv, TypeOK
  <1>7. ASSUME WindowsAgree PROVE WindowsAgree'
    <2>1. peer.streams[s] <= settings.window
      <3>1. peer.streams[s] <= ConfigWindow /\ settings.window >= ConfigWindow
        BY <1>5, <1>6, <1>7 DEF WindowsAgree, PeerInv
      <3>2. peer.streams[s] \in Int /\ settings.window \in Int /\ ConfigWindow \in Int
        BY <1>6, ProtocolAssumption DEF IInv, TypeOK, PeerType, SettingsType
      <3> QED BY <3>1, <3>2
    <2>2. \A t \in live' : peer.streams[t] <= streams'[t].in.avail
      BY <1>1, <1>3, <1>4, <1>6, <1>7, <2>1 DEF WindowsAgree
    <2>3. \A t \in StreamIds : t >= conn'.nextId => t >= s
      BY <1>5 DEF StreamIds
    <2> QED BY <1>1, <1>7, <2>2, <2>3 DEF WindowsAgree, Margin
  <1> QED BY <1>1, <1>5, <1>7 DEF PeerInv

\* A connection that is failed for its flow control was overrun.
LEMMA BlamedPeerInv ==
    ASSUME IInv, PeerInv, NEW s \in PeerIds, NEW len \in Lens, NEW code, NEW why,
           failConnection(conn, code, why), why \in Blames => peer'.overran,
           peer' = PeerSends(s, len, 0, 0), UNCHANGED settings
    PROVE  PeerInv'
  <1>1. conn'.debug = why /\ conn'.closed
    BY FailKeeps DEF IInv, TypeOK
  <1> QED BY <1>1 DEF PeerInv

LEMMA DataUnknownPeerInv ==
    ASSUME DefaultWindow <= ConfigWindow, 0 \in Lens => DefaultWindow < ConfigWindow,
           IInv, PeerInv, NEW s \in PeerIds, NEW len \in Lens, dataOnUnknownStream(s, len)
    PROVE  PeerInv'
  <1>1. ~conn.closed /\ s \notin live /\ UNCHANGED settings
    BY Zenon DEF dataOnUnknownStream, Receiving, Reading, Unchanged4
  <1>2. /\ s \in Nat /\ len \in Nat /\ ConfigWindow \in 0 .. Int32Max
        /\ peer \in PeerType /\ connIn \in InFlows /\ Within(connIn, ConfigWindow)
    BY InputTypes DEF IInv, TypeOK, WindowsBounded
  <1>3. Margin \in Nat /\ (len = 0 => Margin > 0)
    BY ProtocolAssumption DEF Margin
  <1>4. peer.window \in Nat /\ connIn.avail \in Int
    BY <1>2 DEF PeerType, InFlows
  <1>5. CASE /\ failConnection(conn, "PROTOCOL_ERROR", "not opened")
             /\ peer' = PeerSends(s, len, 0, 0)
    BY <1>1, <1>5, OtherCauses, BlamedPeerInv
  <1>6. CASE /\ ~CanTake(connIn, len)
             /\ failConnection(conn, "FLOW_CONTROL_ERROR", "old stream DATA")
             /\ peer' = PeerSends(s, len, 0, 0)
    <2>0. peer' = PeerSends(s, len, 0, 0) /\ ~CanTake(connIn, len)
      BY <1>6
    <2>1. peer'.overran
      <3> SUFFICES ASSUME ~peer'.overran PROVE FALSE
        OBVIOUS
      <3>1. ~peer.overran /\ len <= peer.window
        BY <1>2, <2>0, PeerSpends
      <3>2. connIn.avail >= peer.window + Margin
        BY <1>1, <3>1 DEF PeerInv, WindowsAgree
      <3> QED BY <1>2, <1>3, <1>4, <2>0, <3>1, <3>2 DEF CanTake
    <2> QED BY <1>1, <1>6, <2>1, BlamedPeerInv
  <1>7. CASE /\ CanTake(connIn, len)
             /\ connIn' = Added(Taken(connIn, len), len)
             /\ peer' = PeerSends(s, len, Refresh(Taken(connIn, len), len), 0)
             /\ UNCHANGED <<conn, live, streams, events>>
    <2> DEFINE a == Refresh(Taken(connIn, len), len)
    <2>1. a \in Nat
      BY <1>2, <1>7, FlowWithin
    <2>2. peer' = PeerSends(s, len, a, 0)
      BY <1>7
    <2>3. ASSUME ~peer'.overran PROVE ~peer.overran /\ WindowsAgree'
      <3> HIDE DEF a
      <3>1. /\ ~peer.overran /\ len <= peer.window
            /\ peer'.window = Greater(0, peer.window - len) + a
            /\ s \in StreamIds => /\ len <= peer.streams[s]
                                  /\ peer'.streams[s] = Greater(0, peer.streams[s] - len) + 0
            /\ \A t \in StreamIds : t # s => peer'.streams[t] = peer.streams[t]
        BY <1>2, <2>1, <2>2, <2>3, PeerSpends
      <3>2. WindowsAgree
        BY <1>1, <3>1 DEF PeerInv
      <3>3. connIn'.avail >= peer'.window + Margin
        <4>1. connIn.avail >= peer.window + Margin
          BY <3>2 DEF WindowsAgree
        <4>2. Added(Taken(connIn, len), len).avail >= Greater(0, peer.window - len) + a + Margin
          <5>1. CanTake(connIn, len) /\ Margin \in Int
            BY <1>3, <1>7
          <5>2. /\ connIn \in InFlows /\ ConfigWindow \in 0 .. Int32Max
                /\ Within(connIn, ConfigWindow) /\ len \in Nat
                /\ peer.window \in Nat /\ len <= peer.window
            BY <1>2, <1>4, <3>1
          <5>3. Added(Taken(connIn, len), len).avail
                  >= Greater(0, peer.window - len) + Refresh(Taken(connIn, len), len) + Margin
            BY <4>1, <5>1, <5>2, RefreshAgrees
          <5> QED BY <5>3 DEF a
        <4> QED BY <1>7, <3>1, <4>2
      <3>4. \A t \in live' : peer'.streams[t] <= streams'[t].in.avail
        <4>1. \A t \in live : t \in StreamIds /\ t # s
          BY <1>1 DEF IInv, TypeOK
        <4> QED BY <1>7, <3>1, <3>2, <4>1 DEF WindowsAgree
      <3>5. \A t \in StreamIds : t >= conn'.nextId => peer'.streams[t] <= ConfigWindow
        <4>1. ASSUME s \in StreamIds PROVE peer'.streams[s] <= peer.streams[s]
          <5>1. peer.streams[s] \in Nat
            BY <1>2, <4>1 DEF PeerType
          <5> QED BY <1>2, <3>1, <4>1, <5>1 DEF Greater
        <4>2. \A t \in StreamIds : peer'.streams[t] <= peer.streams[t] /\ peer.streams[t] \in Int
                                   /\ peer'.streams[t] \in Int
          <5>1. peer' \in PeerType
            BY <1>2, <2>1, <2>2, PeerSendsType
          <5>2. \A t \in StreamIds : peer'.streams[t] \in Int /\ peer.streams[t] \in Int
            BY <1>2, <5>1 DEF PeerType
          <5>3. \A t \in StreamIds : t # s => peer'.streams[t] <= peer.streams[t]
            BY <3>1, <5>2
          <5> QED BY <4>1, <5>2, <5>3
        <4> QED BY <1>2, <1>7, <3>2, <4>2 DEF WindowsAgree
      <3> QED BY <3>1, <3>3, <3>4, <3>5 DEF WindowsAgree, Margin
    <2> QED BY <1>1, <1>7, <2>3 DEF PeerInv
  <1> QED BY Zenon, <1>5, <1>6, <1>7 DEF dataOnUnknownStream

\* DATA refused by the stream-level checks: the peer's windows shrink, the
\* receiver's do not; DATA of a response that may have no body shrinks both.
LEMMA DataFailsPeerInv ==
    ASSUME DefaultWindow <= ConfigWindow, IInv, PeerInv, NEW s \in PeerIds, NEW len \in Lens, NEW size,
           \/ dataRefused(s, len) \/ dataOverrun(s, len) \/ dataForbidden(s, len, size)
    PROVE  PeerInv'
  <1>1. /\ ~conn.closed /\ s \in live /\ UNCHANGED settings
        /\ peer' = PeerSends(s, len, 0, 0)
    BY Zenon DEF dataRefused, dataOverrun, dataForbidden, DataWelcome, Receiving, Reading,
       Unchanged4
  <1>2. /\ s \in Nat /\ len \in Nat /\ peer \in PeerType /\ connIn \in InFlows
        /\ s \in StreamIds /\ live \subseteq StreamIds /\ streams[s] \in StreamType
    BY <1>1, InputTypes DEF IInv, TypeOK
  <1>3. /\ peer.window \in Nat /\ connIn.avail \in Int /\ Margin \in Int
        /\ streams[s].in.avail \in Int /\ \A t \in StreamIds : peer.streams[t] \in Nat
    BY <1>2, ProtocolAssumption DEF PeerType, InFlows, StreamType, Margin
  <1>4. ASSUME ~peer'.overran
        PROVE  /\ ~peer.overran /\ len <= peer.window /\ len <= peer.streams[s]
               /\ peer'.window = peer.window - len
               /\ peer'.streams[s] = peer.streams[s] - len
               /\ \A t \in StreamIds : t # s => peer'.streams[t] = peer.streams[t]
               /\ WindowsAgree
    <2>1. /\ ~peer.overran /\ len <= peer.window /\ len <= peer.streams[s]
          /\ peer'.window = Greater(0, peer.window - len) + 0
          /\ peer'.streams[s] = Greater(0, peer.streams[s] - len) + 0
          /\ \A t \in StreamIds : t # s => peer'.streams[t] = peer.streams[t]
      BY <1>1, <1>2, <1>4, PeerSpends
    <2>2. peer'.window = peer.window - len /\ peer'.streams[s] = peer.streams[s] - len
      BY <1>2, <1>3, <2>1 DEF Greater
    <2> QED BY <1>1, <2>1, <2>2 DEF PeerInv
  <1>5. CASE dataOverrun(s, len)
    <2>1. /\ ~CanTakeBoth(connIn, streams[s].in, len)
          /\ failConnection(conn, "FLOW_CONTROL_ERROR", "flow control exceeded")
      BY <1>5 DEF dataOverrun
    <2>2. peer'.overran
      <3> SUFFICES ASSUME ~peer'.overran PROVE FALSE
        OBVIOUS
      <3>1. ~CanTakeBoth(connIn, streams[s].in, len)
        BY <2>1
      <3>2. connIn.avail >= peer.window + Margin /\ peer.streams[s] <= streams[s].in.avail
        BY <1>1, <1>4 DEF WindowsAgree
      <3>3. Margin >= 0
        BY ProtocolAssumption DEF Margin
      <3> QED BY <1>2, <1>3, <1>4, <3>1, <3>2, <3>3 DEF CanTakeBoth, CanTake
    <2> QED BY <1>1, <2>1, <2>2, BlamedPeerInv
  <1>6. CASE dataRefused(s, len) \/ dataForbidden(s, len, size)
    <2>1. failStream({s}) /\ (connIn' = connIn \/ connIn' = Taken(connIn, len))
      BY Zenon, <1>6 DEF dataRefused, dataForbidden
    <2>2. StreamsKept /\ Silent /\ conn'.closed = conn.closed
      BY <2>1, FailStreamKeeps
    <2>3. s \notin live'
      BY <2>1 DEF failStream, DropStreams
    <2>4. connIn'.avail >= connIn.avail - len /\ connIn'.avail \in Int
      BY <1>2, <1>3, <2>1 DEF Taken, InFlows
    <2>5. ASSUME ~peer'.overran PROVE WindowsAgree'
      <3>1. connIn'.avail >= peer'.window + Margin
        <4>1. connIn.avail >= peer.window + Margin
          BY <1>4, <2>5 DEF WindowsAgree
        <4> QED BY <1>2, <1>3, <1>4, <2>4, <2>5, <4>1
      <3>2. \A t \in live' : peer'.streams[t] <= streams'[t].in.avail
        <4>1. \A t \in live' : t \in live /\ t \in StreamIds /\ t # s
                               /\ streams'[t].in = streams[t].in
          BY <1>2, <2>2, <2>3 DEF StreamsKept, Leaves
        <4> QED BY <1>4, <2>5, <4>1 DEF WindowsAgree
      <3>3. \A t \in StreamIds : t >= conn'.nextId => peer'.streams[t] <= ConfigWindow
        <4>1. s < conn.nextId /\ conn'.nextId = conn.nextId /\ conn.nextId \in Nat
          BY <1>1, <2>2 DEF IInv, StreamTableOK, TypeOK, ConnType, Silent
        <4>2. \A t \in StreamIds : t >= conn'.nextId => t # s
          BY <1>2, <4>1
        <4> QED BY <1>4, <2>5, <4>1, <4>2 DEF WindowsAgree
      <3> QED BY <3>1, <3>2, <3>3 DEF WindowsAgree, Margin
    <2> QED BY <1>1, <1>4, <2>2, <2>5 DEF PeerInv, Silent
  <1> QED BY <1>5, <1>6

LEMMA DataAcceptedPeerInv ==
    ASSUME IInv, PeerInv, NEW s \in PeerIds, NEW len \in Lens, NEW size \in DataSizes(len),
           NEW end \in BOOLEAN, dataAccepted(s, len, size, end)
    PROVE  PeerInv'
  <1> DEFINE f == streams[s].in
             a == Refresh(Taken(connIn, len), len)
             b == Refresh(Taken(f, len), len)
  <1>1. /\ s \in live /\ live' \subseteq live /\ UNCHANGED <<conn, settings>>
        /\ len = 0 \/ (CanTake(connIn, len) /\ CanTake(f, len))
        /\ connIn' = Added(Taken(connIn, len), len)
        /\ peer' = PeerSends(s, len, a, b)
        /\ \A t \in live' : t # s => streams'[t].in = streams[t].in
        /\ s \in live' => streams'[s].in = Added(Taken(f, len), len)
    BY AcceptedShape
  <1>2. ~conn.closed
    BY DEF dataAccepted, DataWelcome, Receiving, Reading
  <1>3. /\ s \in Nat /\ len \in Nat /\ peer \in PeerType /\ connIn \in InFlows
        /\ s \in StreamIds /\ live \subseteq StreamIds /\ conn.nextId \in Nat
        /\ ConfigWindow \in 0 .. Int32Max /\ Int32Max \in 0 .. Int32Max
        /\ Within(connIn, ConfigWindow)
    BY <1>1, InputTypes, FlowAssumption DEF IInv, TypeOK, WindowsBounded, ConnType
  <1>4. f \in InFlows /\ Within(f, Int32Max)
    <2>1. streams[s] \in StreamType /\ Within(streams[s].in, Int32Max)
      BY <1>1, LiveGood, WholeWithin DEF GoodStream
    <2> QED BY <2>1 DEF StreamType
  <1> HIDE DEF f
  <1>5. a \in Nat /\ b \in Nat
    BY <1>1, <1>3, <1>4, FlowWithin
  <1>6. peer.window \in Nat /\ peer.streams[s] \in Nat /\ Margin \in Int
    BY <1>3, ProtocolAssumption DEF PeerType, Margin
  <1>7. ASSUME ~peer'.overran PROVE ~peer.overran /\ WindowsAgree'
    <2>1. /\ ~peer.overran /\ len <= peer.window /\ len <= peer.streams[s]
          /\ peer'.window = Greater(0, peer.window - len) + a
          /\ peer'.streams[s] = Greater(0, peer.streams[s] - len) + b
          /\ \A t \in StreamIds : t # s => peer'.streams[t] = peer.streams[t]
      <3>1. s \in Nat /\ s \in StreamIds /\ len \in Nat /\ peer \in PeerType
        BY <1>3
      <3>2. peer' = PeerSends(s, len, a, b)
        BY <1>1
      <3> HIDE DEF a, b
      <3> QED BY <3>1, <3>2, <1>5, <1>7, PeerSpends
    <2>2. WindowsAgree
      BY <1>2, <2>1 DEF PeerInv
    <2>3. connIn'.avail >= peer'.window + Margin
      <3>1. connIn.avail >= peer.window + Margin /\ (len = 0 \/ CanTake(connIn, len))
        BY <1>1, <2>2 DEF WindowsAgree
      <3>2. Added(Taken(connIn, len), len).avail
              >= Greater(0, peer.window - len) + Refresh(Taken(connIn, len), len) + Margin
        BY <1>3, <1>6, <2>1, <3>1, RefreshAgrees
      <3> QED BY <1>1, <2>1, <3>2
    <2>4. s \in live' => peer'.streams[s] <= streams'[s].in.avail
      <3>1. f.avail >= peer.streams[s] /\ (len = 0 \/ CanTake(f, len))
            /\ f.avail \in Int
        BY <1>1, <1>4, <2>2 DEF WindowsAgree, f, InFlows
      <3>2. f.avail >= peer.streams[s] + 0 /\ 0 \in Int
        BY <1>6, <3>1
      <3>3. Added(Taken(f, len), len).avail
              >= Greater(0, peer.streams[s] - len) + Refresh(Taken(f, len), len) + 0
        BY <1>3, <1>4, <1>6, <2>1, <3>1, <3>2, RefreshAgrees
      <3>4. Added(Taken(f, len), len).avail \in Int
        BY <1>1, <1>3, <1>4, FlowWithin DEF InFlows
      <3>5. peer'.streams[s] \in Int /\ peer'.streams[s] + 0 = peer'.streams[s]
        <4> HIDE DEF b
        <4> QED BY <1>3, <1>5, <1>6, <2>1 DEF Greater
      <3> QED BY <1>1, <2>1, <3>3, <3>4, <3>5
    <2>5. \A t \in live' : peer'.streams[t] <= streams'[t].in.avail
      BY <1>1, <1>3, <2>1, <2>2, <2>4 DEF WindowsAgree
    <2>6. \A t \in StreamIds : t >= conn'.nextId => peer'.streams[t] <= ConfigWindow
      <3>1. s < conn.nextId
        BY <1>1 DEF IInv, StreamTableOK
      <3>2. \A t \in StreamIds : t >= conn.nextId => t # s
        BY <1>3, <3>1
      <3> QED BY <1>1, <2>1, <2>2, <3>2 DEF WindowsAgree
    <2> QED BY <2>1, <2>3, <2>5, <2>6 DEF WindowsAgree, Margin
  <1> QED BY <1>1, <1>7 DEF PeerInv

LEMMA NextPeerInv ==
    ASSUME DefaultWindow <= ConfigWindow, 0 \in Lens => DefaultWindow < ConfigWindow,
           \A p \in PeerSettings : p.window = Keep \/ p.window >= ConfigWindow
    PROVE  IInv /\ PeerInv /\ [Next]_vars => PeerInv'
  <1> SUFFICES ASSUME IInv, PeerInv, [Next]_vars PROVE PeerInv'
    OBVIOUS
  <1>1. CASE QuietStep
    BY <1>1, ClosedStays, QuietPeerInv
  <1>2. CASE \E r \in Requests : submitRequest(r)
    BY <1>2, SubmitPeerInv
  <1>3. CASE Api
    BY <1>1, <1>2, <1>3, ApiQuiet
  <1>4. CASE Data
    BY <1>4, DataUnknownPeerInv, DataFailsPeerInv, DataAcceptedPeerInv DEF Data
  <1>5. CASE Headers \/ Continuation \/ Control \/ \E s \in StreamIds : FlushOne(s)
    BY <1>1, <1>5, HeadersQuiet, ContinuationQuiet, ControlQuiet, FlushQuiet
  <1>6. CASE UNCHANGED vars \/ Crashed
    BY <1>6 DEF Crashed, vars, PeerInv, WindowsAgree, Margin
  <1> QED BY <1>3, <1>4, <1>5, <1>6 DEF Next

\* A peer that kept to the windows it was told of is never blamed for its
\* flow control, if the configured window is not smaller than the 65535 bytes
\* a connection starts with (larger, when the peer sends empty DATA frames:
\* InFlow::take refuses them on an empty window) and the peer does not
\* announce a smaller window of its own, which the code would take for the
\* window of the streams it opens afterwards.
THEOREM PeerNotBlamed ==
    ASSUME DefaultWindow <= ConfigWindow, 0 \in Lens => DefaultWindow < ConfigWindow,
           \A p \in PeerSettings : p.window = Keep \/ p.window >= ConfigWindow
    PROVE  Spec => []ConformingPeerNotBlamed
  <1>1. Init => PeerInv
    <2> SUFFICES ASSUME Init PROVE PeerInv
      OBVIOUS
    <2>1. settings.window = ConfigWindow /\ connIn.avail = ConfigWindow /\ live = {}
      BY DEF Init, InFlowInit
    <2>2. /\ peer.window = DefaultWindow
          /\ \A s \in StreamIds : peer.streams[s] = ConfigWindow
      BY DEF Init
    <2>3. conn.debug \notin Blames
      <3>1. conn.debug = ""
        BY DEF Init
      <3> QED BY <3>1, OtherCauses
    <2>4. WindowsAgree
      BY <2>1, <2>2, ProtocolAssumption DEF WindowsAgree, Margin
    <2> QED BY <2>1, <2>3, <2>4, ProtocolAssumption DEF PeerInv
  <1>2. IInv /\ PeerInv /\ [Next]_vars => PeerInv'
    BY NextPeerInv
  <1>3. PeerInv => ConformingPeerNotBlamed
    BY DEF PeerInv, ConformingPeerNotBlamed, Blames
  <1> QED BY <1>1, <1>2, <1>3, Invariance, PTL DEF Spec
=============================================================================
