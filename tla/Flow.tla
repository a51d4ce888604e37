-------------------------------- MODULE Flow --------------------------------
(***************************************************************************)
(* HTTP/2 flow-control windows: the structs InFlow and OutFlow of          *)
(* include/chttp2/flow.hpp and src/flow.cpp, as pure operators.            *)
(*                                                                         *)
(* An InFlow is what this endpoint lets the peer send: avail is the part   *)
(* of the window that is open, unsnt the bytes already consumed but not    *)
(* yet returned to the peer with a WINDOW_UPDATE.  An OutFlow is a signed  *)
(* window; the window of a stream is additionally limited by the window of *)
(* its connection.                                                         *)
(***************************************************************************)
EXTENDS Integers

CONSTANTS Int32Max,   \* INT32_MAX: the largest window RFC 9113 allows
          MinRefresh  \* INFLOW_MIN_REFRESH: smallest unforced WINDOW_UPDATE

ASSUME FlowAssumption == /\ Int32Max \in Nat \ {0}
                         /\ MinRefresh \in Nat \ {0}

Int32Min == -Int32Max - 1

Lesser(a, b)  == IF a <= b THEN a ELSE b
Greater(a, b) == IF a >= b THEN a ELSE b
-----------------------------------------------------------------------------
(***************************************************************************)
(* InFlow                                                                  *)
(***************************************************************************)
InFlows == [avail : Int, unsnt : Int]

InFlowInit(n) == [avail |-> n, unsnt |-> 0]

\* take(): an empty window refuses every frame, an empty one too.
CanTake(f, n) == f.avail > 0 /\ n <= f.avail

\* takeInflows(): both windows or none; a zero-length frame costs nothing.
CanTakeBoth(f, g, n) == n = 0 \/ (CanTake(f, n) /\ CanTake(g, n))

Taken(f, n) == [f EXCEPT !.avail = @ - n]

(***************************************************************************)
(* add(): n consumed bytes wait in unsnt until they reach MinRefresh or    *)
(* the open part of the window; then all of them are returned to the peer. *)
(* Refresh is the increment of the WINDOW_UPDATE to emit, 0 for none and   *)
(* -1 for a sum beyond INT32_MAX (the flow is then left alone).            *)
(***************************************************************************)
Refresh(f, n) ==
    LET sum == f.unsnt + n
    IN  IF sum > Int32Max THEN -1
        ELSE IF sum < MinRefresh /\ sum < f.avail THEN 0
        ELSE sum

\* Faulty variant: the refreshed bytes are returned to the peer only.
AddedNotReopened(f, n) ==
    LET sum == f.unsnt + n
    IN  IF sum > Int32Max THEN f
        ELSE IF sum < MinRefresh /\ sum < f.avail THEN [f EXCEPT !.unsnt = sum]
        ELSE [f EXCEPT !.unsnt = 0]

\* Faulty variant: unsnt is not reset by a refresh.
AddedTwice(f, n) ==
    LET sum == f.unsnt + n
    IN  IF sum > Int32Max THEN f
        ELSE IF sum < MinRefresh /\ sum < f.avail THEN [f EXCEPT !.unsnt = sum]
        ELSE [avail |-> f.avail + sum, unsnt |-> sum]

Added(f, n) ==
    LET sum == f.unsnt + n
    IN  IF sum > Int32Max THEN f
        ELSE IF sum < MinRefresh /\ sum < f.avail THEN [f EXCEPT !.unsnt = sum]
        ELSE [avail |-> f.avail + sum, unsnt |-> 0]
-----------------------------------------------------------------------------
(***************************************************************************)
(* OutFlow                                                                 *)
(***************************************************************************)
\* Faulty variant: a stream does not look at the connection's window.
AvailableAlone(window, connWindow) == window

\* available(): the tighter of a stream's window and its connection's.
Available(window, connWindow) == Lesser(window, connWindow)

\* Faulty variant: the overflow check is missing.
CanAddAlways(window, n) == TRUE

\* add(): refused when the sum leaves the range of int32_t.
CanAdd(window, n) == window + n \in Int32Min .. Int32Max
=============================================================================
