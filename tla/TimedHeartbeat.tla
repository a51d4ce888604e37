--------------------------- MODULE TimedHeartbeat ---------------------------
(***************************************************************************)
(* The heartbeat of a Connection (module Heartbeat) on the timer queue of  *)
(* the reactor (module Timers), which it shares with the timeout of a      *)
(* request: ConnectionManager schedules and cancels that one from other    *)
(* threads, while the reactor thread is between reading the timerfd and    *)
(* taking the mutex, or calling handlers.  A clock runs beside them all.   *)
(*                                                                         *)
(* `timers` and `due` of Heartbeat say which timers the Connection asked   *)
(* for; the queue and the collected handlers are what the reactor makes of *)
(* it.                                                                     *)
(***************************************************************************)
EXTENDS Heartbeat, Sequences, FiniteSetsExt

CONSTANTS
    RequestTimeouts,    \* timeouts of the request, in the unit of the clock
    Millisecond,        \* a millisecond in that unit
    Pause               \* the least time between two calls of other requests

ASSUME TimedAssumption ==
    /\ PingInterval # 0 /\ PingTimeout # 0 /\ RequestTimeouts \subseteq Nat
    /\ Millisecond \in Nat \ {0} /\ Pause \in Nat

T == INSTANCE Timers

VARIABLES
    reactor,     \* the queue and the timerfd
    thread,      \* the reactor thread: in epoll_wait, the timerfd drained,
                 \* or calling handlers
    collected,   \* dueHandlers not yet called
    request,     \* the request's timer: its id, and what has become of it
    quiet        \* the time since another request has called, up to Pause

timedVars == <<vars, reactor, thread, collected, request, quiet>>

TimedInit ==
    /\ Init
    /\ reactor = T!NoTimers /\ thread = "poll" /\ collected = <<>>
    /\ request = [id |-> 0, state |-> "none"] /\ quiet = 0

Queue == reactor.queue

\* The ids no timer has and nobody remembers; the bound Ids must leave one.
NewIds == {id \in Ids : /\ Fresh(id) /\ id # request.id
                        /\ \A t \in T!Items(Queue) \cup T!Items(collected) : t.id # id}
nextTimerId == CHOOSE id \in NewIds : TRUE

Delay == [onPingTimer |-> PingInterval, onPingTimeout |-> PingTimeout]
-----------------------------------------------------------------------------
\* The calls a handler of the Connection has made: it cancels at most one
\* timer (it has no more, TimersKnown), then schedules at most one.
Carried ==
    LET gone == CHOOSE t \in timers : t \notin timers'
        left == IF timers \subseteq timers' THEN reactor ELSE T!cancelTimer(reactor, gone.id)
    IN  IF timers' \subseteq timers THEN reactor' = left
        ELSE \E t \in timers' \ timers :
                LET item == T!Timer(t.id, t.handler, Delay[t.handler])
                IN  \E p \in T!Places(left.queue, item) :
                        reactor' = T!scheduleOnce(left, item, p)

\* Between two events, on the reactor thread: sockets and posted tasks
SocketStep(A) ==
    /\ thread = "poll" /\ A /\ Carried
    /\ UNCHANGED <<thread, collected, request, quiet>>

socketEvents ==
    \/ NewIds # {} /\ SocketStep(pingAck(nextTimerId))
    \/ SocketStep(connectionEnds)
    \/ SocketStep(submitOnReactor) \/ SocketStep(streamEnds) \/ SocketStep(prune)

register == NewIds # {} /\ SocketStep(registerWithReactor(nextTimerId))

\* epoll_wait returns for the timerfd, which is read before the mutex is taken.
readTimerFd ==
    /\ thread = "poll" /\ 0 \in reactor.timerFd
    /\ thread' = "drained" /\ reactor' = T!drainTimerFd(reactor)
    /\ UNCHANGED <<vars, collected, request, quiet>>

\* The timers of the Connection among the timers S
Pings(S) == {[id |-> t.id, handler |-> t.handler] :
                t \in {u \in S : u.handler \in Handlers}}

\* With the mutex held: the due timers leave the queue.
collect ==
    /\ thread = "drained" /\ thread' = "calling"
    /\ collected' = T!dueHandlers(reactor)
    /\ reactor' = T!popDue(reactor)
    /\ LET pings == Pings(T!Items(collected'))
       IN  IF pings = {} THEN UNCHANGED vars ELSE fireDueTimers(pings)
    /\ UNCHANGED <<request, quiet>>

callHandler ==
    /\ thread = "calling" /\ collected # <<>>
    /\ collected' = Tail(collected)
    /\ CASE Head(collected).handler = "onPingTimer" ->
               NewIds # {} /\ onPingTimer(nextTimerId) /\ Carried /\ UNCHANGED request
         [] Head(collected).handler = "onPingTimeout" ->
               onPingTimeout /\ Carried /\ UNCHANGED request
         [] Head(collected).handler = "onRequestTimeout" ->
               /\ request' = [id |-> 0, state |->
                     IF request.state = "canceled" THEN "wronged" ELSE "none"]
               /\ UNCHANGED <<vars, reactor>>
    /\ UNCHANGED <<thread, quiet>>

handlersCalled ==
    /\ thread = "calling" /\ collected = <<>> /\ thread' = "poll"
    /\ UNCHANGED <<vars, reactor, collected, request, quiet>>

\* Another thread: the timeout of a request, and its cancellation.  By the
\* time the mutex is free, some of the timeout may have passed.
requestTimer(delay) ==
    /\ request.state = "none" /\ NewIds # {}
    /\ LET item == T!Timer(nextTimerId, "onRequestTimeout", delay)
       IN  /\ \E p \in T!Places(Queue, item) : reactor' = T!scheduleOnce(reactor, item, p)
           /\ request' = [id |-> item.id, state |-> "armed"]
    /\ UNCHANGED <<vars, thread, collected, quiet>>

requestCanceled ==
    /\ request.state = "armed"
    /\ request' = IF T!Holds(reactor, request.id) THEN [request EXCEPT !.state = "canceled"]
                  ELSE [request EXCEPT !.state = "late"]
    /\ reactor' = T!cancelTimer(reactor, request.id)
    /\ UNCHANGED <<vars, thread, collected, quiet>>

\* The next request, once the cancelled timer has left the queue
nextRequest ==
    /\ request.state = "canceled" /\ ~T!Holds(reactor, request.id)
    /\ request' = [id |-> 0, state |-> "none"]
    /\ UNCHANGED <<vars, reactor, thread, collected, quiet>>

\* Other requests come and go: a timer behind the others is scheduled or
\* cancelled.  What it does to the first ones is to set the timerfd again.
otherRequests ==
    /\ quiet = Pause /\ quiet' = 0
    /\ reactor' = T!armNextTimerLocked(Queue)
    /\ UNCHANGED <<vars, thread, collected, request>>

tick ==
    /\ reactor' = T!Elapse(reactor)
    /\ quiet' = Min({quiet + 1, Pause})
    /\ UNCHANGED <<vars, thread, collected, request>>

peerSilent == peerFallsSilent /\ UNCHANGED <<reactor, thread, collected, request, quiet>>

reactorThread == readTimerFd \/ collect \/ callHandler \/ handlersCalled

TimedNext ==
    \/ register \/ socketEvents \/ reactorThread
    \/ \E d \in RequestTimeouts : requestTimer(d)
    \/ requestCanceled \/ nextRequest \/ otherRequests \/ tick \/ peerSilent

\* Time passes, and the reactor thread goes on; after every batch of events
\* it runs the posted tasks, of which the registration is one, and it sees the
\* timerfd readable some time before it is set again.  Nobody has to send,
\* answer or cancel anything.
TimedSpec ==
    /\ TimedInit /\ [][TimedNext]_timedVars
    /\ SF_timedVars(register) /\ SF_timedVars(readTimerFd)
    /\ WF_timedVars(reactorThread) /\ WF_timedVars(tick)
-----------------------------------------------------------------------------
(***************************************************************************)
(* The queue holds exactly the timers the Connection has asked for and not *)
(* cancelled; for every timer in the queue the timerfd is armed to fire no *)
(* later than it is due, and in a millisecond at least, except between the *)
(* read and the lock in fireDueTimers, which arms it again.                *)
(***************************************************************************)
TimersArmed ==
    LET live == T!Items(Queue) \ T!Canceled(Queue)
    IN  /\ timers = Pings(live) /\ due = Pings(T!Items(collected))
        /\ \A t \in live :
              \/ thread = "drained"
              \/ \E n \in reactor.timerFd : n <= Max({t.due, Millisecond})

(***************************************************************************)
(* Once cancelTimer has returned true the handler is never called, though  *)
(* the timer may stay in the queue behind others and the reactor thread    *)
(* may be collecting at that moment.                                       *)
(***************************************************************************)
CanceledNeverRuns ==
    /\ request.state # "wronged"
    /\ request.state = "canceled" =>
          \A t \in T!Items(collected) : t.handler # "onRequestTimeout"

(***************************************************************************)
(* A timer that is not cancelled is called in the end, however often other *)
(* timers are scheduled and cancelled and the timerfd is set again -- as   *)
(* long as that leaves a pause of a millisecond: every call arms the       *)
(* timerfd for at least a millisecond from now.                            *)
(***************************************************************************)
RequestTimesOut == request.state = "armed" ~> request.state # "armed"
=============================================================================
