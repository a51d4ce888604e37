------------------------------ MODULE TaskRunner ------------------------------
(***************************************************************************)
(* What the rest of the client expects of CallbackDispatcher and of        *)
(* Reactor::post: a task that was accepted is run, once, before stop()     *)
(* returns, and after that none is accepted.                               *)
(***************************************************************************)
EXTENDS FiniteSets

CONSTANT Tasks

VARIABLES accepted, ran, stopped

vars == <<accepted, ran, stopped>>

Init == accepted = {} /\ ran = {} /\ stopped = FALSE

Accept(t) ==
    /\ ~stopped /\ t \notin accepted
    /\ accepted' = accepted \cup {t}
    /\ UNCHANGED <<ran, stopped>>

Run(t) ==
    /\ ~stopped /\ t \in accepted \ ran
    /\ ran' = ran \cup {t}
    /\ UNCHANGED <<accepted, stopped>>

Stop ==
    /\ ~stopped /\ ran = accepted
    /\ stopped' = TRUE
    /\ UNCHANGED <<accepted, ran>>

Next == Stop \/ \E t \in Tasks : Accept(t) \/ Run(t)

Spec == Init /\ [][Next]_vars
=============================================================================
