----------------------------- MODULE MCProtocol -----------------------------
(***************************************************************************)
(* Inputs for the model-checking runs of Http2Protocol.                    *)
(***************************************************************************)
EXTENDS Http2Protocol

Req(method, valid, body, hdr) ==
    [method |-> method, valid |-> valid, body |-> body, hdr |-> hdr]

Block(status, cl) ==
    [hpack |-> TRUE, list |-> 1, valid |-> TRUE, status |-> status, cl |-> cl]

Nothing == [streams |-> Keep, window |-> Keep, frame |-> Keep,
            list |-> Keep, push |-> FALSE]

Window(n) == [Nothing EXCEPT !.window = n]

\* Requests
Uploads    == {Req("GET", TRUE, 3, 1)}
Downloads  == {Req("GET", TRUE, 0, 1), Req("HEAD", TRUE, 0, 1)}
AllMethods == {Req(m, TRUE, 0, 1) : m \in Methods} \cup {Req("GET", FALSE, 0, 1)}
BigHeaders == {Req("GET", TRUE, 0, 3)}

\* Decoded header blocks
Plain     == {Block("final", NoLength)}
Answers   == {Block("final", NoLength), Block("final", 1), Block("nobody", 1)}
AllBlocks == {Block("final", NoLength), Block("final", 1), Block("nobody", NoLength),
              Block("1xx", 0), Block("101", NoLength), Block("none", NoLength),
              Block("final", Malformed),
              [Block("final", NoLength) EXCEPT !.valid = FALSE],
              [Block("final", NoLength) EXCEPT !.list = 3],
              [Block("final", NoLength) EXCEPT !.hpack = FALSE]}

\* Peer SETTINGS
OnlyNothing   == {Nothing}
WindowChanges == {Nothing, Window(0), Window(3)}
LowerWindow   == {Nothing, Window(1)}
ListLimits    == {Nothing, [Nothing EXCEPT !.list = 1]}
OddSettings   == {Nothing, [Nothing EXCEPT !.streams = 0],
                  [Nothing EXCEPT !.frame = MaxFrame], [Nothing EXCEPT !.frame = 1],
                  [Nothing EXCEPT !.push = TRUE], Window(Int32Max + 1)}
=============================================================================
