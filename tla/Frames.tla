-------------------------------- MODULE Frames --------------------------------
(***************************************************************************)
(* Frames as octets: FrameHeader::encode and decode, the typed frames'     *)
(* constructors and toBytes() (src/frame.cpp), the integers of ByteBuffer  *)
(* and ByteSpan, the reassembly of FrameCodec and the size rules of        *)
(* Http2Protocol's handlers.                                               *)
(*                                                                         *)
(* An octet is a digit in base Octet, 256 in the code.                     *)
(* The typed frames share one layout and so one definition: integers of    *)
(* fixed widths, then data, the whole padded or not.                       *)
(***************************************************************************)
EXTENDS Naturals, Sequences, SequencesExt

CONSTANTS
    Octet,
    MaxFrameSize  \* localMaxFrameSize

ASSUME FramesAssumption ==
    /\ Octet \in Nat /\ Octet > 32 /\ Octet % 2 = 0
    /\ MaxFrameSize \in Nat

Types == [DATA |-> 0, HEADERS |-> 1, PRIORITY |-> 2, RST_STREAM |-> 3, SETTINGS |-> 4,
          PUSH_PROMISE |-> 5, PING |-> 6, GOAWAY |-> 7, WINDOW_UPDATE |-> 8,
          CONTINUATION |-> 9]

END_STREAM  == 1
ACK         == 1
END_HEADERS == 4
PADDED      == 8
PRIORITY    == 32

hasAnyFlag(h, flag) == (h.flags \div flag) % 2 = 1

\* FoldLeft and FlattenSeq, as recursive functions, which TLC evaluates faster
Fold(f(_, _), base, seq) ==
    LET r[i \in 0 .. Len(seq)] == IF i = 0 THEN base ELSE f(r[i - 1], seq[i])
    IN  r[Len(seq)]

Concat(seqs) == Fold(LAMBDA a, b : a \o b, <<>>, seqs)

\* The number of values that w octets have
Power == <<Octet, Octet * Octet, Octet * Octet * Octet, Octet * Octet * Octet * Octet>>
Worth(w) == IF w = 0 THEN 1 ELSE Power[w]

\* ByteBuffer::append and ByteSpan::readAs: integers of w octets in network order
append(v, w) == [i \in 1 .. w |-> (v \div Worth(w - i)) % Octet]
readAs(s)    == Fold(LAMBDA v, d : v * Octet + d, 0, s)

\* v & 0x7fffffff
masked(v) == v % (Power[4] \div 2)

encodedSize == 9

encode(h) == append(h.payloadLength, 3) \o <<h.type, h.flags>> \o append(h.streamId, 4)

decode(s) ==
    [payloadLength |-> readAs(SubSeq(s, 1, 3)), type |-> s[4], flags |-> s[5],
     streamId |-> masked(readAs(SubSeq(s, 6, 9)))]

\* FrameCodec::tryPop: the first frame of the buffer, once all of it is there
CanPop(buffer) ==
    /\ Len(buffer) >= encodedSize
    /\ Len(buffer) >= encodedSize + decode(buffer).payloadLength

tryPop(buffer) ==
    LET h     == decode(buffer)
        total == encodedSize + h.payloadLength
    IN  [frame |-> [header |-> h, data |-> SubSeq(buffer, encodedSize + 1, total)],
         rest  |-> SubSeq(buffer, total + 1, Len(buffer))]

--------------------------------------------------------------------------------
\* The integers a typed frame starts with, by their widths
Widths(h) ==
    CASE h.type = Types.HEADERS /\ hasAnyFlag(h, PRIORITY)     -> <<4, 1>>
      [] h.type \in {Types.PUSH_PROMISE, Types.RST_STREAM, Types.WINDOW_UPDATE} -> <<4>>
      [] h.type = Types.GOAWAY                                 -> <<4, 4>>
      [] h.type = Types.SETTINGS -> [i \in 1 .. h.payloadLength \div 3 |-> IF i % 2 = 1 THEN 2 ELSE 4]
      [] OTHER                                                 -> <<>>

Sum(ws) == Fold(LAMBDA a, b : a + b, 0, ws)

MayPad(h) == h.type \in {Types.DATA, Types.HEADERS, Types.PUSH_PROMISE}

isPadded(h) == MayPad(h) /\ hasAnyFlag(h, PADDED)

\* Where the i-th integer of a payload starts
Lead(h)  == IF isPadded(h) THEN 1 ELSE 0
At(h, i) == Lead(h) + Sum(SubSeq(Widths(h), 1, i - 1))

integer(raw, i) ==
    readAs(SubSeq(raw.data, At(raw.header, i) + 1, At(raw.header, i) + Widths(raw.header)[i]))

\* The first integer of PUSH_PROMISE, GOAWAY and (in its handler) WINDOW_UPDATE
\* loses its reserved bit.
HasReservedBit(h) == h.type \in {Types.PUSH_PROMISE, Types.GOAWAY, Types.WINDOW_UPDATE}

\* The constructors from a RawFrame
typed(raw) ==
    LET h   == raw.header
        n   == Len(Widths(h))
        pad == IF isPadded(h) THEN raw.data[1] ELSE 0
    IN  [type |-> h.type, flags |-> h.flags, streamId |-> h.streamId,
         ints |-> [i \in 1 .. n |-> IF i = 1 /\ HasReservedBit(h) THEN masked(integer(raw, i))
                                   ELSE integer(raw, i)],
         data |-> SubSeq(raw.data, At(h, n + 1) + 1, Len(raw.data) - pad)]

\* toBytes() of a frame the client builds, none of which is padded
toBytes(h, ints, data) ==
    encode(h) \o Concat([i \in 1 .. Len(ints) |-> append(ints[i], Widths(h)[i])]) \o data

validatePaddedPayload(raw, prefix) ==
    LET h == raw.header
    IN  IF ~hasAnyFlag(h, PADDED) THEN h.payloadLength >= prefix
        ELSE /\ h.payloadLength >= 1 + prefix
             /\ raw.data[1] < h.payloadLength - 1 - prefix

\* The sizes the handlers of Http2Protocol insist on
WellSized(raw) ==
    LET h == raw.header
        n == h.payloadLength
    IN  CASE MayPad(h) -> validatePaddedPayload(raw, Sum(Widths(h)))
          [] h.type \in {Types.RST_STREAM, Types.WINDOW_UPDATE} -> n = 4
          [] h.type = Types.SETTINGS -> n % 6 = 0 /\ (hasAnyFlag(h, ACK) => n = 0)
          [] h.type = Types.PING     -> n = 8
          [] h.type = Types.GOAWAY   -> n >= 8
          [] OTHER -> TRUE

--------------------------------------------------------------------------------
(***************************************************************************)
(* RFC 9113, sections 4.1 and 6, for a frame f with reserved bit f.r, pad  *)
(* length f.pad and f.padding octets of padding: its octets, and whether a *)
(* peer may send it.                                                       *)
(***************************************************************************)
Size(f) == Lead(f) + Sum(f.widths) + Len(f.data) + f.padding

Body(f) ==
    (IF isPadded(f) THEN <<f.pad>> ELSE <<>>)
    \o Concat([i \in 1 .. Len(f.ints) |-> append(f.ints[i], f.widths[i])])
    \o f.data \o [i \in 1 .. f.padding |-> 0]

Layout(f) ==
    append(Size(f), 3) \o <<f.type, f.flags>>
    \o append(f.streamId + f.r * (Power[4] \div 2), 4) \o Body(f)

\* The sizes section 6 gives the frames of each type
RightSize(f) ==
    LET n == Size(f)
    IN  /\ n <= MaxFrameSize
        /\ f.type \in {Types.RST_STREAM, Types.WINDOW_UPDATE} => n = 4
        /\ f.type = Types.PING => n = 8
        /\ f.type = Types.GOAWAY => n >= 8
        /\ f.type = Types.SETTINGS => n % 6 = 0 /\ (hasAnyFlag(f, ACK) => n = 0)
        /\ MayPad(f) => n >= Lead(f) + Sum(Widths(f))

\* The header that announces the frame
Header(f) == [payloadLength |-> Size(f), type |-> f.type, flags |-> f.flags,
              streamId |-> f.streamId]

\* A frame that has the right size has the integers of its type; a pad length
\* that is wrong is too large.
PeerFrames ==
    {f \in [type : 0 .. Octet - 1, flags : 0 .. Octet - 1, streamId : 0 .. Power[4] \div 2 - 1,
            widths : Seq({1, 2, 4}), ints : Seq(Nat), data : Seq(0 .. Octet - 1),
            r : {0, 1}, pad : 0 .. Octet - 1, padding : Nat] :
        /\ Size(f) < Power[3]
        /\ Len(f.ints) = Len(f.widths)
        /\ \A i \in 1 .. Len(f.ints) : f.ints[i] < Power[f.widths[i]]
        /\ HasReservedBit(f) /\ f.ints # <<>> => f.ints[1] < Power[4] \div 2
        /\ IF isPadded(f) THEN f.padding = f.pad \/ f.padding + Len(f.data) <= f.pad
           ELSE f.padding = 0
        /\ RightSize(f) => f.widths = Widths(Header(f))}

\* What the frame says, padding and reserved bits apart
Content(f) == [type |-> f.type, flags |-> f.flags, streamId |-> f.streamId,
               ints |-> f.ints, data |-> f.data]

\* A frame whose padding leaves nothing else in it is legal too.
Conforming(f) == RightSize(f) /\ (isPadded(f) => f.padding = f.pad)
=============================================================================
