-------------------------------- MODULE MCWire --------------------------------
(***************************************************************************)
(* The peer's frames for the model-checking run of Wire: each type of      *)
(* frame, padded or not, empty or not, with reserved bits set, and frames  *)
(* that break each size rule, between conforming ones.                     *)
(***************************************************************************)
EXTENDS Wire

F(type, flags, id, widths, ints, data) ==
    [type |-> type, flags |-> flags, streamId |-> id, widths |-> widths, ints |-> ints,
     data |-> data, r |-> 0, pad |-> 0, padding |-> 0]

Pad(f, n)      == [f EXCEPT !.flags = @ + PADDED, !.pad = n, !.padding = n]
Overpad(f, n)  == [f EXCEPT !.flags = @ + PADDED, !.pad = n]
Reserved(f)    == [f EXCEPT !.r = 1]

Settings(ints) == F(Types.SETTINGS, 0, 0, [i \in 1 .. Len(ints) |-> IF i % 2 = 1 THEN 2 ELSE 4], ints, <<>>)
Ack            == F(Types.SETTINGS, ACK, 0, <<>>, <<>>, <<>>)
Ping(flags)    == F(Types.PING, flags, 0, <<>>, <<>>, <<9, 0, 0, 0, 0, 0, 0, 9>>)
Data(d)        == F(Types.DATA, END_STREAM, 1, <<>>, <<>>, d)
Headers(d)     == F(Types.HEADERS, END_HEADERS, 1, <<>>, <<>>, d)
Priority(d)    == F(Types.HEADERS, PRIORITY, 1, <<4, 1>>, <<Octet * 3 + 5, 7>>, d)
Continue(d)    == F(Types.CONTINUATION, END_HEADERS, 1, <<>>, <<>>, d)
Rst            == F(Types.RST_STREAM, 0, 1, <<4>>, <<Octet + 1>>, <<>>)
Window(n)      == F(Types.WINDOW_UPDATE, 0, Octet + 3, <<4>>, <<n>>, <<>>)
GoAway(d)      == F(Types.GOAWAY, 0, 0, <<4, 4>>, <<Octet * Octet, 2>>, d)
Push           == F(Types.PUSH_PROMISE, 0, 1, <<4>>, <<2>>, <<1>>)
BadPing        == F(Types.PING, 0, 0, <<>>, <<>>, <<1, 2>>)
BadSettings    == F(Types.SETTINGS, 0, 0, <<2>>, <<1>>, <<0>>)
Big            == Data([i \in 1 .. MaxFrameSize + 1 |-> 1])
OddPriority    == F(Types.PRIORITY, 0, 1, <<>>, <<>>, <<1>>)

PeerScripts ==
    {<<Settings(<<1, Octet>>), Ping(0)>>,
     <<Ack, Ping(ACK)>>,
     <<Pad(Priority(<<1>>), 2), Continue(<<>>)>>,
     <<Pad(Headers(<<1, 2>>), 0), Pad(Data(<<5>>), 1)>>,
     <<Reserved(Data(<<>>)), Reserved(Window(3))>>,
     <<Rst, GoAway(<<4>>)>>,
     <<OddPriority, Data([i \in 1 .. MaxFrameSize |-> 1])>>,
     <<Ping(0), Overpad(Priority(<<1>>), 4), Ack>>,
     <<Overpad(Data(<<1>>), 2), Data(<<>>)>>,
     <<BadPing, Ping(0)>>,
     <<BadSettings, Ping(0)>>,
     <<Big, Ack>>,
     <<Push, Ack>>}

\* Padding that leaves no room for data
FullPadding == {<<Pad(Data(<<>>), 2)>>}

TwoOctets     == <<1, 2>>
OneSetting    == <<3, Octet + 1>>
=============================================================================
