------------------------------ MODULE Heartbeat ------------------------------
(***************************************************************************)
(* The PING heartbeat of one Connection (connection.cpp) on the timers of  *)
(* the Reactor.  All of it runs on the reactor thread.  fireDueTimers      *)
(* takes every due timer out of the queue before it calls the first        *)
(* handler: a timer so collected can no longer be cancelled.  Timer ids    *)
(* are only compared, so the counter that gives every timer a new one is   *)
(* modelled by an id nobody holds.  Module TimedHeartbeat puts the same    *)
(* actions on the reactor's timer queue, its clock and its timerfd.        *)
(***************************************************************************)
EXTENDS Naturals, FiniteSets

CONSTANTS
    PingInterval,  \* ClientConfig::pingIntervalSec, 0 = no heartbeat
    PingTimeout,   \* ClientConfig::pingTimeoutSec, 0 = no timeout
    MaxStreams,    \* bound: streams active at once
    Ids            \* bound: timer ids

ASSUME HeartbeatAssumption ==
    /\ PingInterval \in Nat /\ PingTimeout \in Nat
    /\ MaxStreams \in Nat
    /\ 0 \notin Ids

VARIABLES
    object,        \* the Connection: new, alive (registered), destroyed
    connected,
    streams,       \* Http2Session::activeStreamCount
    pendingPing,
    pingTimerId,
    pingTimeoutTimerId,
    timers,        \* Reactor::timers that are not cancelled: ids and handlers
    due,           \* the timers fireDueTimers has collected and not yet called
    peer           \* the peer answers PINGs, or has fallen silent

connVars == <<object, connected, streams, pendingPing, pingTimerId, pingTimeoutTimerId>>
vars == <<connVars, timers, due, peer>>

Handlers == {"onPingTimer", "onPingTimeout"}

Init ==
    /\ object = "new" /\ connected = TRUE /\ streams = 0
    /\ pendingPing = FALSE /\ pingTimerId = 0 /\ pingTimeoutTimerId = 0
    /\ timers = {} /\ due = {}
    /\ peer = "answers"
-----------------------------------------------------------------------------
(***************************************************************************)
(* Reactor: scheduleOnce and cancelTimer                                   *)
(***************************************************************************)
\* nextTimerId: an id no timer and no member holds
Fresh(id) == /\ id \notin {pingTimerId, pingTimeoutTimerId}
             /\ \A t \in timers \cup due : t.id # id

scheduleOnce(T, handler, id) == timers' = T \cup {[id |-> id, handler |-> handler]}

\* Faulty variant: only the ping timer is cancelled.
cancelPingOnly(ids) == {t \in timers : t.id \notin ids \cap {pingTimerId}}

cancelTimers(ids) == {t \in timers : t.id \notin ids}

\* Connection::schedulePingTimer; the caller has left old in pingTimerId
schedulePingTimer(T, old, id) ==
    IF PingInterval = 0 \/ ~connected
    THEN timers' = T /\ pingTimerId' = old
    ELSE scheduleOnce(T, "onPingTimer", id) /\ pingTimerId' = id

cancelPingTimers ==
    /\ timers' = cancelTimers({pingTimerId, pingTimeoutTimerId})
    /\ pingTimerId' = 0 /\ pingTimeoutTimerId' = 0 /\ pendingPing' = FALSE

\* Between two rounds of the reactor: no collected handler is waiting.
Between == object = "alive" /\ due = {}
-----------------------------------------------------------------------------
registerWithReactor(id) ==
    /\ object = "new" /\ Fresh(id)
    /\ object' = "alive"
    /\ schedulePingTimer(timers, pingTimerId, id)
    /\ UNCHANGED <<connected, streams, pendingPing, pingTimeoutTimerId, due, peer>>

fireDueTimers(S) ==
    /\ Between /\ S # {}
    /\ timers' = timers \ S /\ due' = S
    /\ UNCHANGED <<connVars, peer>>

Called(handler) ==
    \E t \in due : t.handler = handler /\ due' = due \ {t}

sendPing(id) ==
    /\ pendingPing' = TRUE
    /\ IF PingTimeout > 0
       THEN scheduleOnce(timers, "onPingTimeout", id) /\ pingTimeoutTimerId' = id
       ELSE UNCHANGED <<timers, pingTimeoutTimerId>>

\* Faulty variant: an active stream ends the heartbeat instead of postponing it.
onPingTimerOnce(id) ==
    /\ Called("onPingTimer") /\ Fresh(id)
    /\ pingTimerId' = 0
    /\ IF connected /\ streams = 0 /\ ~pendingPing
       THEN sendPing(id)
       ELSE UNCHANGED <<timers, pendingPing, pingTimeoutTimerId>>
    /\ UNCHANGED <<object, connected, streams, peer>>

onPingTimer(id) ==
    /\ Called("onPingTimer") /\ Fresh(id)
    /\ IF connected /\ streams > 0
       THEN schedulePingTimer(timers, 0, id) /\ UNCHANGED <<pendingPing, pingTimeoutTimerId>>
       ELSE /\ pingTimerId' = 0
            /\ IF connected /\ ~pendingPing
               THEN sendPing(id)
               ELSE UNCHANGED <<timers, pendingPing, pingTimeoutTimerId>>
    /\ UNCHANGED <<object, connected, streams, peer>>

\* closeOnReactor; its cancelPingTimers finds pingTimeoutTimerId already 0
onPingTimeout ==
    /\ Called("onPingTimeout")
    /\ IF pendingPing /\ connected
       THEN /\ connected' = FALSE /\ streams' = 0
            /\ cancelPingTimers
       ELSE /\ pingTimeoutTimerId' = 0
            /\ UNCHANGED <<connected, streams, pendingPing, pingTimerId, timers>>
    /\ UNCHANGED <<object, peer>>

\* PING_ACK: the peer answers the PING, or one it was never sent.
pingAck(id) ==
    /\ Between /\ connected /\ peer = "answers" /\ Fresh(id)
    /\ IF pendingPing
       THEN /\ pendingPing' = FALSE /\ pingTimeoutTimerId' = 0
            /\ schedulePingTimer(cancelTimers({pingTimeoutTimerId}), pingTimerId, id)
       ELSE UNCHANGED <<pendingPing, pingTimeoutTimerId, pingTimerId, timers>>
    /\ UNCHANGED <<object, connected, streams, due, peer>>

\* SESSION_DEAD, or closeOnReactor called by the manager
connectionEnds ==
    /\ Between /\ connected
    /\ connected' = FALSE /\ streams' = 0
    /\ cancelPingTimers
    /\ UNCHANGED <<object, due, peer>>

submitOnReactor ==
    /\ Between /\ connected /\ streams < MaxStreams
    /\ streams' = streams + 1
    /\ UNCHANGED <<object, connected, pendingPing, pingTimerId, pingTimeoutTimerId,
                   timers, due, peer>>

\* A response, a reset or a cancellation ends a stream.
streamEnds ==
    /\ Between /\ connected /\ streams > 0
    /\ streams' = streams - 1
    /\ UNCHANGED <<object, connected, pendingPing, pingTimerId, pingTimeoutTimerId,
                   timers, due, peer>>

\* drainSubmitQueue destroys connections that are no longer connected.
prune ==
    /\ Between /\ ~connected
    /\ object' = "destroyed"
    /\ UNCHANGED <<connected, streams, pendingPing, pingTimerId, pingTimeoutTimerId,
                   timers, due, peer>>

\* The peer, or the path to it, is gone without a word.
peerFallsSilent ==
    /\ peer = "answers" /\ peer' = "silent"
    /\ UNCHANGED <<connVars, timers, due>>

Next == \/ \E id \in Ids : registerWithReactor(id) \/ onPingTimer(id) \/ pingAck(id)
        \/ onPingTimeout
        \/ \E S \in SUBSET timers : fireDueTimers(S)
        \/ connectionEnds \/ submitOnReactor \/ streamEnds \/ prune
        \/ peerFallsSilent

Spec == Init /\ [][Next]_vars

\* The reactor registers the connection, timers fire, and what fired is called.
FairSpec ==
    /\ Spec
    /\ WF_vars(\E id \in Ids : registerWithReactor(id))
    /\ WF_vars(\E id \in Ids : onPingTimer(id)) /\ WF_vars(onPingTimeout)
    /\ WF_vars(\E S \in SUBSET timers : fireDueTimers(S))
-----------------------------------------------------------------------------
\* The variables have the shapes the C++ types give them.
TypeOK ==
    /\ object \in {"new", "alive", "destroyed"}
    /\ connected \in BOOLEAN /\ pendingPing \in BOOLEAN
    /\ streams \in Nat /\ {pingTimerId, pingTimeoutTimerId} \subseteq Ids \cup {0}
    /\ timers \cup due \subseteq [id : Ids, handler : Handlers]
    /\ peer \in {"answers", "silent"}

\* The timers the members pingTimerId and pingTimeoutTimerId stand for
KnownTimers ==
    {t \in {[id |-> pingTimerId, handler |-> "onPingTimer"],
            [id |-> pingTimeoutTimerId, handler |-> "onPingTimeout"]} : t.id # 0}

(***************************************************************************)
(* Every timer the reactor holds for the connection is the one the         *)
(* connection knows by its id and could cancel: no id is overwritten while *)
(* its timer is armed.  At most one of the two is armed, so no handler     *)
(* runs with the other one collected beside it.                            *)
(***************************************************************************)
TimersKnown ==
    /\ timers \cup due = KnownTimers
    /\ pingTimerId = 0 \/ pingTimeoutTimerId = 0

(***************************************************************************)
(* The heart beats: a connected connection has a timer that will send the  *)
(* next PING, or waits for the answer to the last one with the timeout     *)
(* running.                                                                *)
(***************************************************************************)
HeartBeats ==
    object = "alive" /\ connected /\ PingInterval > 0 =>
        IF pendingPing THEN PingTimeout > 0 => pingTimeoutTimerId # 0
        ELSE pingTimerId # 0

(***************************************************************************)
(* No handler outlives the Connection it captured by `this`: a connection  *)
(* that is no longer connected, and so may be destroyed, has no timer      *)
(* armed, and none is collected when it is destroyed.                      *)
(***************************************************************************)
NoLateHandler ==
    /\ ~connected => timers = {}
    /\ object = "destroyed" => due = {}

(***************************************************************************)
(* An idle connection whose peer has fallen silent does not stay: the next *)
(* PING goes unanswered and onPingTimeout closes the connection.           *)
(***************************************************************************)
IdleSilenceNoticed ==
    []<>(peer = "answers" \/ streams > 0 \/ ~connected)

(***************************************************************************)
(* "Skip if there are active streams - data flow is the heartbeat"         *)
(* (connection.cpp, onPingTimer): a silent peer is noticed with streams    *)
(* active, too.                                                            *)
(***************************************************************************)
SilenceNoticed == peer = "silent" ~> ~connected
=============================================================================
