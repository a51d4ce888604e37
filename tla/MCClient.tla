------------------------------ MODULE MCClient ------------------------------
(***************************************************************************)
(* Inputs for the runs of Client: a synchronous request with a timeout,    *)
(* whose callback sends an asynchronous one, whose callback sends another, *)
(* whose callback sends an invalid one.  The callback of a request may be  *)
(* running while the thread that sent it is still in post().               *)
(***************************************************************************)
EXTENDS Client, TLC

CONSTANTS q1, q2, q3, bad

MCRequests == {q1, q2, q3, bad}
MCInvalid  == {bad}
MCSync     == {q1, bad}
MCTimed    == {q1}
MCSentBy   == (q1 :> User) @@ (q2 :> q1) @@ (q3 :> q2) @@ (bad :> q3)

\* The callback sends synchronously.
SyncInCallback == {q1, q3, bad}
=============================================================================
