-------------------------- MODULE ConnectionManager --------------------------
(***************************************************************************)
(* The client runtime: class ConnectionManager with the RequestContexts it *)
(* hands out, the pooled Connections and their Http2Sessions, and the four *)
(* kinds of threads that share them: users calling sendAsync, cancel and   *)
(* close, the connector, the reactor and the callback dispatcher.          *)
(*                                                                         *)
(* The reactor takes one step per request of the loops it runs             *)
(* (drainSubmitQueue, onConnectionEstablished, trySubmitPending, the       *)
(* session's events), so that a user may cancel between two of them.  What *)
(* Http2Protocol does with the peer's frames is what module Http2Protocol  *)
(* reports to the session: responses, failed streams, new limits, GOAWAY   *)
(* and connection errors.                                                  *)
(***************************************************************************)
EXTENDS Integers, Sequences, FiniteSets, Functions

CONSTANTS
    Requests,     \* requests users send, each once
    Endpoints,
    EndpointOf,   \* the endpoint of each request
    Timed,        \* requests sent with a timeout
    Invalid,      \* requests Http2Protocol::submitRequest refuses
    Uploads,      \* requests whose body may outlast the response
    ConfigStreams,\* ClientConfig::maxConcurrentStreams
    Limits,       \* MAX_CONCURRENT_STREAMS a peer may announce
    MaxConns,     \* bound: connections opened, later attempts fail
    Faults,       \* what may go wrong in this instance
    MayClose      \* whether the user calls close()

AllFaults == {"start", "connect", "register", "reset", "goaway", "error",
              "eof", "late eof", "write", "ping", "race", "handshake"}

ASSUME ManagerAssumption ==
    /\ Endpoints # {} /\ EndpointOf \in [Requests -> Endpoints]
    /\ Timed \subseteq Requests /\ Invalid \subseteq Requests /\ Uploads \subseteq Requests
    /\ ConfigStreams \in Nat /\ Limits \subseteq Nat /\ MaxConns \in Nat
    /\ Faults \subseteq AllFaults /\ MayClose \in BOOLEAN

Conns == 1 .. MaxConns
NoConn == 0

VARIABLES
    started,      \* startOnce / startResult
    phase,        \* how far sendAsync has come with each request
    cancelling,   \* how far RequestContext::cancel has come
    contexts,     \* keys of the map `contexts`
    finished,     \* RequestContext::finished
    canceled,     \* RequestContext::canceled
    timers,       \* requests whose timer the reactor still holds
    submitQueue,
    tasks,        \* Reactor::tasks
    running,      \* Reactor::running
    rx,           \* what the reactor thread is doing
    pending,      \* pendingByEndpoint
    connecting,   \* connectingEndpoints
    rc,           \* requestConnections, NoConn where there is no entry
    conns,        \* Connections and their sessions
    connectTasks,
    connector,    \* the connector thread; connectorStop
    dispatcher,   \* CallbackDispatcher: off, on, stopping
    callbacks,    \* completions waiting in the dispatcher and completions run
    completing,   \* the call that won tryFinish and has not yet passed the callback on
    closer        \* how far close() has come

callVars   == <<started, phase, cancelling>>
ctxVars    == <<contexts, finished, timers, callbacks, completing>>
poolVars   == <<pending, connecting, rc, conns>>
threadVars == <<running, connectTasks, connector, dispatcher, closer>>
vars == <<callVars, ctxVars, canceled, submitQueue, tasks, rx, poolVars, threadVars>>

Tasks == [kind : {"drain", "close"}] \cup [kind : {"cancel"}, req : Requests]
         \cup [kind : {"established"}, conn : Conns] \cup [kind : {"failed"}, ep : Endpoints]

NewConn == [at |-> "unused", ep |-> CHOOSE e \in Endpoints : TRUE,
            connected |-> FALSE, healthy |-> FALSE, goingAway |-> FALSE,
            limit |-> ConfigStreams, streams |-> {}, ctxs |-> {}]

Idle == [pc |-> "idle", local |-> <<>>, conn |-> NoConn, to |-> NoConn,
         ep |-> CHOOSE e \in Endpoints : TRUE, done |-> {}, dead |-> FALSE]

Init ==
    /\ started = "no"
    /\ phase = [q \in Requests |-> "new"]
    /\ cancelling = [q \in Requests |-> "no"]
    /\ contexts = {} /\ finished = {} /\ canceled = {} /\ timers = {}
    /\ submitQueue = <<>> /\ tasks = <<>>
    /\ running = FALSE
    /\ rx = Idle
    /\ pending = [e \in Endpoints |-> <<>>]
    /\ connecting = {}
    /\ rc = [q \in Requests |-> NoConn]
    /\ conns = [c \in Conns |-> NewConn]
    /\ connectTasks = <<>>
    /\ connector = [pc |-> "off", ep |-> CHOOSE e \in Endpoints : TRUE, stop |-> FALSE]
    /\ dispatcher = "off"
    /\ callbacks = [q \in Requests |-> [queued |-> 0, ran |-> 0]]
    /\ completing = [q \in Requests |-> "no"]
    /\ closer = "no"
-----------------------------------------------------------------------------
(***************************************************************************)
(* Shared helpers                                                          *)
(***************************************************************************)
\* Faulty variant: tryFinish is not asked.
completeAlways(S) ==
    /\ finished' = finished \cup S
    /\ contexts' = contexts \ S
    /\ timers' = timers \ S
    /\ callbacks' = [q \in Requests |->
          IF q \in S THEN [callbacks[q] EXCEPT !.queued = @ + 1] ELSE callbacks[q]]
    /\ UNCHANGED completing

\* The first call for a context wins; the winner cancels the timer and takes
\* the context out of the map.  (Whoever finds the context between the three
\* asks whether it is finished, so they are one step.)
Finish(N) ==
    /\ finished' = finished \cup N
    /\ contexts' = contexts \ N
    /\ timers' = timers \ N

\* The callback of each of a set of contexts is left to the dispatcher, or run
\* where the caller stands when the dispatcher takes no more.
invokeCompletion(N) ==
    callbacks' = [q \in Requests |->
        IF q \notin N THEN callbacks[q]
        ELSE IF dispatcher = "on"
             THEN [callbacks[q] EXCEPT !.queued = @ + 1]
             ELSE [callbacks[q] EXCEPT !.ran = @ + 1]]

\* completeRequest on the reactor thread, for each of a set of contexts.  One
\* step: close() joins the thread before it goes on, and the other threads
\* leave a finished request alone.
completeRequest(S) ==
    /\ Finish(S \ finished) /\ invokeCompletion(S \ finished)
    /\ UNCHANGED completing

\* completeRequest on another thread: it may be held up between the two halves,
\* and the others go on.
tryFinish(S, call) ==
    /\ Finish(S \ finished)
    /\ completing' = [q \in Requests |-> IF q \in S \ finished THEN call ELSE completing[q]]
    /\ UNCHANGED callbacks

passCallback(q) ==
    /\ completing[q] # "no"
    /\ invokeCompletion({q})
    /\ completing' = [completing EXCEPT ![q] = "no"]
    /\ UNCHANGED <<callVars, contexts, finished, timers, canceled, submitQueue, tasks, rx,
                   poolVars, threadVars>>

NothingCompleted == UNCHANGED <<contexts, finished, timers, callbacks, completing>>

Post(t) == tasks' = IF running THEN Append(tasks, t) ELSE tasks

\* The first entry of q is erased.
Without(s, q) ==
    IF q \notin Range(s) THEN s
    ELSE LET i == CHOOSE i \in DOMAIN s : s[i] = q /\ \A j \in DOMAIN s : s[j] = q => i <= j
         IN  [j \in 1 .. Len(s) - 1 |-> IF j < i THEN s[j] ELSE s[j + 1]]

Pooled(c) == conns[c].at = "pool"

\* Connection::canAcceptNewRequests
Accepting(e) == {c \in Conns : /\ Pooled(c) /\ conns[c].ep = e
                               /\ conns[c].connected /\ conns[c].healthy
                               /\ ~conns[c].goingAway}

Load(c) == Cardinality(conns[c].streams)

hasStreamCapacity(c) == Load(c) < conns[c].limit

pickConnectionOnReactor(e) == {c \in Accepting(e) : \A d \in Accepting(e) : Load(c) <= Load(d)}

\* handleTransportFailure, protocol failure and Http2Session::close: the
\* session is unhealthy and has neither streams nor contexts.  (close() also
\* clears goingAway, which nothing asks of an unhealthy session.)
DeadSession(k) == [k EXCEPT !.healthy = FALSE, !.streams = {}, !.ctxs = {}]

DropStream(k, q) == [k EXCEPT !.streams = @ \ {q}, !.ctxs = @ \ {q}]
-----------------------------------------------------------------------------
(***************************************************************************)
(* User threads                                                            *)
(***************************************************************************)
startThreadsIfNeeded ==
    /\ started = "no"
    /\ \/ /\ started' = "yes" /\ running' = TRUE /\ dispatcher' = "on"
          /\ connector' = [connector EXCEPT !.pc = "wait"]
       \/ /\ "start" \in Faults /\ started' = "failed"
          /\ UNCHANGED <<running, dispatcher, connector>>
    /\ UNCHANGED <<phase, cancelling, ctxVars, canceled, submitQueue, tasks, rx, poolVars,
                   connectTasks, closer>>

\* The threads could not be started, or the timer was refused because the
\* reactor is stopped: completed by the caller.
sendFails(q) ==
    /\ phase[q] = "new"
    /\ started = "failed" \/ (started = "yes" /\ q \in Timed /\ ~running)
    /\ phase' = [phase EXCEPT ![q] = "sent"]
    /\ tryFinish({q}, "send")
    /\ UNCHANGED <<started, cancelling, canceled, submitQueue, tasks, rx, poolVars, threadVars>>

\* sendAsync up to the submit queue: the context is registered, the timer armed.
sendAsync(q) ==
    /\ phase[q] = "new" /\ started = "yes" /\ (running \/ q \notin Timed)
    /\ phase' = [phase EXCEPT ![q] = "created"]
    /\ contexts' = contexts \cup {q}
    /\ timers' = timers \cup ({q} \cap Timed)
    /\ UNCHANGED <<started, cancelling, finished, callbacks, completing, canceled, submitQueue,
                   tasks, rx, poolVars, threadVars>>

pushSubmitQueue(q) ==
    /\ phase[q] = "created"
    /\ phase' = [phase EXCEPT ![q] = "queued"]
    /\ submitQueue' = Append(submitQueue, q)
    /\ UNCHANGED <<started, cancelling, ctxVars, canceled, tasks, rx, poolVars, threadVars>>

postDrain(q) ==
    /\ phase[q] = "queued"
    /\ phase' = [phase EXCEPT ![q] = "sent"]
    /\ Post([kind |-> "drain"])
    /\ IF running
       THEN NothingCompleted /\ UNCHANGED submitQueue
       ELSE tryFinish({q}, "send") /\ submitQueue' = Without(submitQueue, q)
    /\ UNCHANGED <<started, cancelling, canceled, rx, poolVars, threadVars>>

\* RequestContext::cancel, up to its handler
cancel(q) ==
    /\ phase[q] = "sent" /\ cancelling[q] = "no"
    /\ q \notin finished /\ q \notin canceled
    /\ canceled' = canceled \cup {q}
    /\ cancelling' = [cancelling EXCEPT ![q] = "marked"]
    /\ UNCHANGED <<started, phase, ctxVars, submitQueue, tasks, rx, poolVars, threadVars>>

\* ConnectionManager::cancel: too late, or posted to the reactor
postCancel(q) ==
    /\ cancelling[q] = "marked" /\ (running \/ q \notin contexts)
    /\ cancelling' = [cancelling EXCEPT ![q] = "done"]
    /\ IF q \in contexts THEN Post([kind |-> "cancel", req |-> q]) ELSE UNCHANGED tasks
    /\ UNCHANGED <<started, phase, ctxVars, canceled, submitQueue, rx, poolVars, threadVars>>
-----------------------------------------------------------------------------
(***************************************************************************)
(* The connector thread                                                    *)
(***************************************************************************)
connectorTakes ==
    /\ connector.pc = "wait" /\ connectTasks # <<>>
    /\ connector' = [connector EXCEPT !.pc = "connecting", !.ep = Head(connectTasks)]
    /\ connectTasks' = Tail(connectTasks)
    /\ UNCHANGED <<callVars, ctxVars, canceled, submitQueue, tasks, rx, poolVars, running,
                   dispatcher, closer>>

\* Faulty variant: the thread looks at connectorStop only after a task.
connectorExitsLate ==
    /\ connector.pc = "wait" /\ connector.stop /\ connectTasks # <<>>
    /\ connector' = [connector EXCEPT !.pc = "exited"]
    /\ UNCHANGED <<callVars, ctxVars, canceled, submitQueue, tasks, rx, poolVars, running,
                   connectTasks, dispatcher, closer>>

connectorExits ==
    /\ connector.pc = "wait" /\ connector.stop /\ connectTasks = <<>>
    /\ connector' = [connector EXCEPT !.pc = "exited"]
    /\ UNCHANGED <<callVars, ctxVars, canceled, submitQueue, tasks, rx, poolVars, running,
                   connectTasks, dispatcher, closer>>

\* Connection::connect, with Http2Session::start
connectSucceeds(c) ==
    /\ connector.pc = "connecting"
    /\ conns[c].at = "unused" /\ \A d \in Conns : d < c => conns[d].at # "unused"
    /\ conns' = [conns EXCEPT ![c] = [@ EXCEPT !.at = "posted", !.ep = connector.ep,
                                               !.connected = TRUE, !.healthy = TRUE]]
    /\ Post([kind |-> "established", conn |-> c])
    /\ connector' = [connector EXCEPT !.pc = "wait"]
    /\ UNCHANGED <<callVars, ctxVars, canceled, submitQueue, rx, pending, connecting, rc,
                   running, connectTasks, dispatcher, closer>>

connectFails ==
    /\ connector.pc = "connecting"
    /\ "connect" \in Faults \/ \A c \in Conns : conns[c].at # "unused"
    /\ Post([kind |-> "failed", ep |-> connector.ep])
    /\ connector' = [connector EXCEPT !.pc = "wait"]
    /\ UNCHANGED <<callVars, ctxVars, canceled, submitQueue, rx, poolVars, running,
                   connectTasks, dispatcher, closer>>
-----------------------------------------------------------------------------
(***************************************************************************)
(* The reactor thread: posted tasks                                        *)
(***************************************************************************)
Takes(kind) ==
    /\ rx.pc = "idle" /\ tasks # <<>> /\ Head(tasks).kind = kind
    /\ tasks' = Tail(tasks)

\* Dead connections are destroyed, then the queue is taken over.
drainSubmitQueue ==
    /\ Takes("drain")
    /\ conns' = [c \in Conns |-> IF Pooled(c) /\ ~conns[c].connected
                                 THEN [conns[c] EXCEPT !.at = "gone"] ELSE conns[c]]
    /\ rx' = IF submitQueue = <<>> THEN Idle
             ELSE [Idle EXCEPT !.pc = "drain", !.local = submitQueue]
    /\ submitQueue' = <<>>
    /\ UNCHANGED <<callVars, ctxVars, canceled, pending, connecting, rc, threadVars>>

\* The loop of drainSubmitQueue (pc "drain") or of onConnectionEstablished
\* (pc "settle") moves on to the next request.
Moved ==
    IF Tail(rx.local) = <<>> THEN Idle
    ELSE [rx EXCEPT !.local = Tail(@), !.to = NoConn,
                    !.pc = IF @ \in {"drain", "drainSubmit"} THEN "drain" ELSE "settle"]

\* A request cancelled while it was queued.
dropCanceled ==
    /\ rx.pc \in {"drain", "settle"} /\ Head(rx.local) \in canceled
    /\ completeRequest({Head(rx.local)})
    /\ rx' = Moved
    /\ UNCHANGED <<callVars, canceled, submitQueue, tasks, poolVars, threadVars>>

\* Faulty variant: connectingEndpoints is not consulted.
enqueueAlways(e) ==
    /\ connecting' = connecting \cup {e}
    /\ connectTasks' = Append(connectTasks, e)

\* enqueueConnectTask, called when no connection accepts requests
enqueueConnectTask(e) ==
    IF e \in connecting THEN UNCHANGED <<connecting, connectTasks>>
    ELSE /\ connecting' = connecting \cup {e}
         /\ connectTasks' = Append(connectTasks, e)

\* drainSubmitQueue: no connection, or none with room: the request waits.
park ==
    LET q == Head(rx.local)
        e == EndpointOf[q]
    IN  /\ rx.pc = "drain" /\ q \notin canceled
        /\ \A c \in pickConnectionOnReactor(e) : ~hasStreamCapacity(c)
        /\ pending' = [pending EXCEPT ![e] = Append(@, q)]
        /\ IF Accepting(e) = {} THEN enqueueConnectTask(e)
           ELSE UNCHANGED <<connecting, connectTasks>>
        /\ rx' = Moved
        /\ UNCHANGED <<callVars, ctxVars, canceled, submitQueue, tasks, rc, conns, running,
                       connector, dispatcher, closer>>

choose(c) ==
    /\ rx.pc = "drain" /\ Head(rx.local) \notin canceled
    /\ c \in pickConnectionOnReactor(EndpointOf[Head(rx.local)]) /\ hasStreamCapacity(c)
    /\ rx' = [rx EXCEPT !.pc = "drainSubmit", !.to = c]
    /\ UNCHANGED <<callVars, ctxVars, canceled, submitQueue, tasks, poolVars, threadVars>>

(***************************************************************************)
(* Connection::submitOnReactor with Http2Session::submit.  A request the   *)
(* protocol refuses gets no stream, and the failure it reports for stream  *)
(* 0 is dropped by translateEvents.  One that was cancelled meanwhile is   *)
(* submitted and reset at once; its REQUEST_DONE finds no entry in         *)
(* requestConnections, which is made afterwards.                           *)
(***************************************************************************)
submitOnReactor(q, c) ==
    LET reset == q \in canceled \ finished
        sent  == [conns EXCEPT ![c].streams = @ \cup {q}, ![c].ctxs = @ \cup {q}]
    IN  /\ rc' = [rc EXCEPT ![q] = c]
        /\ IF q \in Invalid THEN NothingCompleted /\ UNCHANGED conns
           ELSE IF reset THEN completeRequest({q}) /\ UNCHANGED conns
                ELSE NothingCompleted /\ conns' = sent

submitLocal ==
    /\ rx.pc \in {"drainSubmit", "settleSubmit"}
    /\ submitOnReactor(Head(rx.local), rx.to)
    /\ rx' = Moved
    /\ UNCHANGED <<callVars, canceled, submitQueue, tasks, pending, connecting, threadVars>>

\* onConnectionEstablished: the pending requests are taken over.
onConnectionEstablished(c) ==
    LET e == conns[c].ep
    IN  /\ Takes("established") /\ Head(tasks).conn = c
        /\ connecting' = connecting \ {e}
        /\ pending' = [pending EXCEPT ![e] = <<>>]
        /\ \/ /\ conns' = [conns EXCEPT ![c].at = "pool"]
              /\ rx' = IF pending[e] = <<>> THEN Idle
                       ELSE [Idle EXCEPT !.pc = "settle", !.local = pending[e], !.conn = c]
              /\ NothingCompleted
           \/ /\ "register" \in Faults
              /\ conns' = [conns EXCEPT ![c] = [DeadSession(@) EXCEPT !.at = "gone",
                                                                      !.connected = FALSE]]
              /\ completeRequest(Range(pending[e]))
              /\ UNCHANGED rx
        /\ UNCHANGED <<callVars, canceled, submitQueue, rc, threadVars>>

\* Faulty variant: requests the new connection has no room for are dropped.
settleDrops ==
    /\ rx.pc = "settle" /\ Head(rx.local) \notin canceled
    /\ rx' = IF hasStreamCapacity(rx.conn)
             THEN [rx EXCEPT !.pc = "settleSubmit", !.to = rx.conn] ELSE Moved
    /\ UNCHANGED <<callVars, ctxVars, canceled, submitQueue, tasks, poolVars, threadVars>>

settle ==
    LET q == Head(rx.local)
        e == conns[rx.conn].ep
    IN  /\ rx.pc = "settle" /\ q \notin canceled
        /\ IF hasStreamCapacity(rx.conn)
           THEN /\ rx' = [rx EXCEPT !.pc = "settleSubmit", !.to = rx.conn]
                /\ UNCHANGED pending
           ELSE /\ pending' = [pending EXCEPT ![e] = Append(@, q)]
                /\ rx' = Moved
        /\ UNCHANGED <<callVars, ctxVars, canceled, submitQueue, tasks, connecting, rc, conns,
                       threadVars>>

onConnectionFailed(e) ==
    /\ Takes("failed") /\ Head(tasks).ep = e
    /\ connecting' = connecting \ {e}
    /\ completeRequest(Range(pending[e]))
    /\ pending' = [pending EXCEPT ![e] = <<>>]
    /\ UNCHANGED <<callVars, canceled, submitQueue, rx, rc, conns, threadVars>>

(***************************************************************************)
(* What handleCancelOnReactor and handleTimeoutOnReactor do with a request *)
(* that is not finished: it is in the submit queue, or waits for a         *)
(* connection, or has a stream, which is reset; the event of the reset     *)
(* completes it.                                                           *)
(***************************************************************************)
InFlight(q) == rc[q] # NoConn /\ conns[rc[q]].connected /\ q \in conns[rc[q]].ctxs

\* Faulty variant: a request in flight is completed and its stream left alone.
abortKeepsStream(q) ==
    /\ submitQueue' = Without(submitQueue, q)
    /\ pending' = [pending EXCEPT ![EndpointOf[q]] = Without(@, q)]
    /\ completeRequest({q})
    /\ UNCHANGED <<conns, rx>>

\* Faulty variant: a request found nowhere is not completed.
abortFoundOnly(q) ==
    /\ submitQueue' = Without(submitQueue, q)
    /\ pending' = [pending EXCEPT ![EndpointOf[q]] = Without(@, q)]
    /\ completeRequest({q} \cap (Range(submitQueue) \cup Range(pending[EndpointOf[q]])))
    /\ IF InFlight(q)
       THEN /\ conns' = [conns EXCEPT ![rc[q]] = DropStream(@, q)]
            /\ rx' = [Idle EXCEPT !.pc = "events", !.conn = rc[q], !.done = {q}]
       ELSE UNCHANGED <<conns, rx>>

abort(q) ==
    IF q \in Range(submitQueue)
    THEN /\ submitQueue' = Without(submitQueue, q)
         /\ completeRequest({q})
         /\ UNCHANGED <<pending, conns, rx>>
    ELSE /\ UNCHANGED submitQueue
         /\ IF q \in Range(pending[EndpointOf[q]])
            THEN /\ pending' = [pending EXCEPT ![EndpointOf[q]] = Without(@, q)]
                 /\ completeRequest({q})
                 /\ UNCHANGED <<conns, rx>>
            ELSE /\ UNCHANGED pending
                 /\ IF InFlight(q)
                    THEN /\ conns' = [conns EXCEPT ![rc[q]] = DropStream(@, q)]
                         /\ rx' = [Idle EXCEPT !.pc = "events", !.conn = rc[q], !.done = {q}]
                         /\ NothingCompleted
                    ELSE completeRequest({q}) /\ UNCHANGED <<conns, rx>>

handleCancelOnReactor(q) ==
    /\ Takes("cancel") /\ Head(tasks).req = q
    /\ IF q \in contexts THEN abort(q)
       ELSE NothingCompleted /\ UNCHANGED <<submitQueue, pending, conns, rx>>
    /\ UNCHANGED <<callVars, canceled, connecting, rc, threadVars>>

handleTimeoutOnReactor(q) ==
    /\ rx.pc = "idle" /\ q \in timers
    /\ canceled' = canceled \cup {q}
    /\ abort(q)
    /\ UNCHANGED <<callVars, tasks, connecting, rc, threadVars>>

closeOnReactor ==
    LET open == {c \in Conns : Pooled(c) /\ conns[c].connected}
    IN  /\ Takes("close")
        /\ completeRequest((UNION {Range(pending[e]) : e \in Endpoints})
                           \cup (UNION {conns[c].ctxs : c \in open}))
        /\ pending' = [e \in Endpoints |-> <<>>]
        /\ connecting' = {}
        /\ conns' = [c \in Conns |->
              IF ~Pooled(c) THEN conns[c]
              ELSE [DeadSession(conns[c]) EXCEPT !.at = "gone", !.connected = FALSE]]
        /\ rc' = [q \in Requests |-> NoConn]
        /\ UNCHANGED <<callVars, canceled, submitQueue, rx, threadVars>>

reactorExits ==
    /\ rx.pc = "idle" /\ started = "yes" /\ ~running /\ tasks = <<>>
    /\ rx' = [Idle EXCEPT !.pc = "exited"]
    /\ UNCHANGED <<callVars, ctxVars, canceled, submitQueue, tasks, poolVars, threadVars>>
-----------------------------------------------------------------------------
(***************************************************************************)
(* The reactor thread: Connection::onSessionReadable.  Http2Session reads  *)
(* until the socket would block and collects the events of all it read;    *)
(* then Connection::processSessionEvents takes them in turn.               *)
(***************************************************************************)
OnReactor == UNCHANGED <<callVars, canceled, submitQueue, tasks, threadVars>>

SessionOnly == OnReactor /\ UNCHANGED <<ctxVars, pending, connecting, rc>>

Reads(c) == rx.pc = "reading" /\ rx.conn = c /\ conns[c].healthy

Becomes(c, k) == conns' = [conns EXCEPT ![c] = k]

onReadable(c) ==
    /\ rx.pc = "idle" /\ Pooled(c) /\ conns[c].connected /\ conns[c].healthy
    /\ rx' = [Idle EXCEPT !.pc = "reading", !.conn = c]
    /\ SessionOnly /\ UNCHANGED conns

\* RESPONSE_COMPLETED.  The stream stays while the request body is not sent.
responseCompleted(c, q) ==
    /\ Reads(c) /\ q \in conns[c].ctxs
    /\ \/ Becomes(c, DropStream(conns[c], q))
       \/ q \in Uploads /\ Becomes(c, [conns[c] EXCEPT !.ctxs = @ \ {q}])
    /\ rx' = [rx EXCEPT !.done = @ \cup {q}]
    /\ SessionOnly

\* A WINDOW_UPDATE lets out the rest of a request body whose response was
\* complete: the stream closes without an event for the session.
uploadEnds(c, q) ==
    /\ Reads(c) /\ q \in conns[c].streams \ conns[c].ctxs
    /\ Becomes(c, DropStream(conns[c], q))
    /\ SessionOnly /\ UNCHANGED rx

\* RESPONSE_FAILED: the peer reset the stream or broke its rules.
responseFailed(c, q) ==
    /\ Reads(c) /\ "reset" \in Faults /\ q \in conns[c].streams
    /\ Becomes(c, DropStream(conns[c], q))
    /\ rx' = [rx EXCEPT !.done = @ \cup ({q} \cap conns[c].ctxs)]
    /\ SessionOnly

peerSettings(c, n) ==
    /\ Reads(c) /\ n # conns[c].limit
    /\ Becomes(c, [conns[c] EXCEPT !.limit = n])
    /\ SessionOnly /\ UNCHANGED rx

\* GOAWAY_RECEIVED, after RESPONSE_FAILED for the streams the peer ignored
goawayReceived(c, S) ==
    /\ Reads(c) /\ "goaway" \in Faults /\ ~conns[c].goingAway
    /\ Becomes(c, [conns[c] EXCEPT !.goingAway = TRUE, !.streams = @ \ S, !.ctxs = @ \ S])
    /\ rx' = [rx EXCEPT !.done = @ \cup (S \cap conns[c].ctxs)]
    /\ SessionOnly

\* CONNECTION_ERROR, after RESPONSE_FAILED for every stream
connectionError(c) ==
    /\ Reads(c) /\ "error" \in Faults
    /\ Becomes(c, DeadSession(conns[c]))
    /\ rx' = [rx EXCEPT !.done = @ \cup conns[c].ctxs, !.dead = TRUE]
    /\ SessionOnly

readWouldBlock ==
    /\ rx.pc = "reading"
    /\ rx' = [rx EXCEPT !.pc = "events"]
    /\ SessionOnly /\ UNCHANGED conns

\* End of file or a read error: onReadable returns what handleTransportFailure
\* returns, and the events collected before are gone.
readClosed ==
    LET c == rx.conn
    IN  /\ rx.pc = "reading"
        /\ \/ "eof" \in Faults /\ rx.done = {} /\ ~rx.dead
           \/ "late eof" \in Faults
        /\ Becomes(c, DeadSession(conns[c]))
        /\ rx' = IF conns[c].healthy
                 THEN [rx EXCEPT !.pc = "events", !.done = conns[c].ctxs, !.dead = TRUE]
                 ELSE Idle
        /\ SessionOnly

\* onWritable meets a write error: the events of handleTransportFailure are
\* dropped and the Connection does not learn of it.
writeFails(c) ==
    /\ rx.pc = "idle" /\ "write" \in Faults
    /\ Pooled(c) /\ conns[c].connected /\ conns[c].healthy
    /\ Becomes(c, DeadSession(conns[c]))
    /\ SessionOnly /\ UNCHANGED rx

\* onPingTimeout: closeOnReactor, its events, then connectionLostHandler
onPingTimeout(c) ==
    /\ rx.pc = "idle" /\ "ping" \in Faults /\ Pooled(c) /\ conns[c].connected
    /\ Becomes(c, [DeadSession(conns[c]) EXCEPT !.connected = FALSE])
    /\ rx' = [Idle EXCEPT !.pc = "events", !.conn = c, !.done = conns[c].ctxs, !.dead = TRUE]
    /\ SessionOnly
-----------------------------------------------------------------------------
(***************************************************************************)
(* The reactor thread: events of a session                                 *)
(***************************************************************************)
\* REQUEST_DONE: onRequestDone, and trySubmitPending when the request had an
\* entry, requests wait and a connection accepts them.
onRequestDone(q) ==
    LET e    == conns[rc[q]].ep
        rest == [rx EXCEPT !.done = @ \ {q}]
    IN  /\ rx.pc = "events" /\ q \in rx.done
        /\ rc' = [rc EXCEPT ![q] = NoConn]
        /\ completeRequest({q})
        /\ IF rc[q] # NoConn /\ pending[e] # <<>> /\ Accepting(e) # {}
           THEN \E c \in pickConnectionOnReactor(e) :
                   rx' = [rest EXCEPT !.pc = "refill", !.ep = e, !.to = c]
           ELSE rx' = rest
        /\ OnReactor /\ UNCHANGED <<pending, connecting, conns>>

\* Faulty variant: requestConnections keeps what leads to the connection.
connectionLostOnly ==
    /\ rx.pc = "events" /\ rx.done = {} /\ rx.dead
    /\ Becomes(rx.conn, [conns[rx.conn] EXCEPT !.connected = FALSE])
    /\ rx' = Idle
    /\ OnReactor /\ UNCHANGED <<ctxVars, pending, connecting, rc>>

\* SESSION_DEAD: onConnectionLost forgets the connection's requests.
onConnectionLost ==
    /\ rx.pc = "events" /\ rx.done = {} /\ rx.dead
    /\ Becomes(rx.conn, [conns[rx.conn] EXCEPT !.connected = FALSE])
    /\ rc' = [q \in Requests |-> IF rc[q] = rx.conn THEN NoConn ELSE rc[q]]
    /\ rx' = Idle
    /\ OnReactor /\ UNCHANGED <<ctxVars, pending, connecting>>

eventsDone ==
    /\ rx.pc = "events" /\ rx.done = {} /\ ~rx.dead
    /\ rx' = Idle
    /\ SessionOnly /\ UNCHANGED conns

\* The loop of trySubmitPending
trySubmitPending ==
    LET queue == pending[rx.ep]
    IN  /\ rx.pc = "refill"
        /\ IF queue = <<>> \/ ~hasStreamCapacity(rx.to)
           THEN /\ rx' = [rx EXCEPT !.pc = "events", !.to = NoConn]
                /\ NothingCompleted /\ UNCHANGED pending
           ELSE IF Head(queue) \in canceled
                THEN /\ completeRequest({Head(queue)})
                     /\ pending' = [pending EXCEPT ![rx.ep] = Tail(@)]
                     /\ UNCHANGED rx
                ELSE /\ rx' = [rx EXCEPT !.pc = "refillSubmit"]
                     /\ NothingCompleted /\ UNCHANGED pending
        /\ OnReactor /\ UNCHANGED <<connecting, rc, conns>>

submitPending ==
    /\ rx.pc = "refillSubmit"
    /\ submitOnReactor(Head(pending[rx.ep]), rx.to)
    /\ pending' = [pending EXCEPT ![rx.ep] = Tail(@)]
    /\ rx' = [rx EXCEPT !.pc = "refill"]
    /\ OnReactor /\ UNCHANGED connecting
-----------------------------------------------------------------------------
(***************************************************************************)
(* The dispatcher thread                                                   *)
(***************************************************************************)
runCallback(q) ==
    /\ callbacks[q].queued > 0
    /\ callbacks' = [callbacks EXCEPT ![q] = [queued |-> @.queued - 1, ran |-> @.ran + 1]]
    /\ UNCHANGED <<callVars, contexts, finished, timers, completing, canceled, submitQueue,
                   tasks, rx, poolVars, threadVars>>
-----------------------------------------------------------------------------
(***************************************************************************)
(* close()                                                                 *)
(***************************************************************************)
CloseStep(from, to) == closer = from /\ closer' = to

stopConnector ==
    /\ MayClose /\ started = "yes"
    /\ CloseStep("no", "join connector")
    /\ connector' = [connector EXCEPT !.stop = TRUE]
    /\ UNCHANGED <<callVars, ctxVars, canceled, submitQueue, tasks, rx, poolVars, running,
                   connectTasks, dispatcher>>

postClose ==
    /\ connector.pc = "exited"
    /\ CloseStep("join connector", "stop reactor")
    /\ Post([kind |-> "close"])
    /\ UNCHANGED <<callVars, ctxVars, canceled, submitQueue, rx, poolVars, running,
                   connectTasks, connector, dispatcher>>

stopReactor ==
    /\ CloseStep("stop reactor", "join reactor")
    /\ running' = FALSE
    /\ UNCHANGED <<callVars, ctxVars, canceled, submitQueue, tasks, rx, poolVars,
                   connectTasks, connector, dispatcher>>

\* The reactor thread is joined and the timers it never fired are cleared;
\* CallbackDispatcher::stop is asked to stop.
stopDispatcher ==
    /\ rx.pc = "exited"
    /\ CloseStep("join reactor", "join dispatcher")
    /\ timers' = {}
    /\ dispatcher' = "stopping"
    /\ UNCHANGED <<callVars, contexts, finished, callbacks, completing, canceled, submitQueue,
                   tasks, rx, poolVars, running, connectTasks, connector>>

dispatcherJoined ==
    /\ \A q \in Requests : callbacks[q].queued = 0
    /\ CloseStep("join dispatcher", "fail queued")
    /\ dispatcher' = "off"
    /\ UNCHANGED <<callVars, ctxVars, canceled, submitQueue, tasks, rx, poolVars, running,
                   connectTasks, connector>>

failQueuedRequests ==
    /\ CloseStep("fail queued", "fail contexts")
    /\ tryFinish(Range(submitQueue), "close")
    /\ submitQueue' = <<>>
    /\ UNCHANGED <<callVars, canceled, tasks, rx, poolVars, running, connectTasks, connector,
                   dispatcher>>

\* The completions close() has begun are over.
CallbacksPassed == \A q \in Requests : completing[q] # "close"

\* Faulty variant: close() trusts that the queues held every request.
failNoContexts ==
    /\ CallbacksPassed /\ CloseStep("fail contexts", "return")
    /\ UNCHANGED <<callVars, ctxVars, canceled, submitQueue, tasks, rx, poolVars, running,
                   connectTasks, connector, dispatcher>>

failAllContexts ==
    /\ CallbacksPassed /\ CloseStep("fail contexts", "return")
    /\ tryFinish(contexts, "close")
    /\ UNCHANGED <<callVars, canceled, submitQueue, tasks, rx, poolVars, running, connectTasks,
                   connector, dispatcher>>

closeReturns ==
    /\ CallbacksPassed /\ CloseStep("return", "closed")
    /\ UNCHANGED <<callVars, ctxVars, canceled, submitQueue, tasks, rx, poolVars, running,
                   connectTasks, connector, dispatcher>>

(***************************************************************************)
(* ConnectionManager::cancel when the reactor refuses the task: the user's *)
(* thread runs handleCancelOnReactor itself.  The submit queue has a lock. *)
(* The other containers do not, and the reactor thread may still be        *)
(* draining its last tasks ("race"): the process may die, or the request   *)
(* is taken out between two steps of the reactor, whose closeOnReactor     *)
(* sweeps up what is left.                                                 *)
(***************************************************************************)
cancelOffReactor(q) ==
    /\ cancelling[q] = "marked" /\ ~running /\ q \in contexts
    /\ cancelling' = [cancelling EXCEPT ![q] = "done"]
    /\ submitQueue' = Without(submitQueue, q)
    /\ pending' = [pending EXCEPT ![EndpointOf[q]] = Without(@, q)]
    /\ conns' = IF InFlight(q) THEN [conns EXCEPT ![rc[q]] = DropStream(@, q)] ELSE conns
    /\ rc' = IF InFlight(q) THEN [rc EXCEPT ![q] = NoConn] ELSE rc
    /\ tryFinish({q}, "cancel")
    /\ \/ rx.pc = "exited" /\ UNCHANGED rx
       \/ "race" \in Faults /\ rx.pc = "idle" /\ UNCHANGED rx
       \/ /\ "race" \in Faults /\ rx.pc # "exited" /\ q \notin Range(submitQueue)
          /\ rx' = [rx EXCEPT !.pc = "crashed"]
    /\ UNCHANGED <<started, phase, canceled, tasks, connecting, threadVars>>
-----------------------------------------------------------------------------
User(q) == \/ sendFails(q) \/ sendAsync(q) \/ pushSubmitQueue(q) \/ postDrain(q)
           \/ cancel(q) \/ postCancel(q) \/ cancelOffReactor(q) \/ passCallback(q)

AttemptEnds == connectFails \/ \E c \in Conns : connectSucceeds(c)

Connector == connectorTakes \/ connectorExits \/ AttemptEnds

Submission == \/ drainSubmitQueue \/ dropCanceled \/ park \/ submitLocal \/ settle
              \/ \E c \in Conns : choose(c) \/ onConnectionEstablished(c)
              \/ \E e \in Endpoints : onConnectionFailed(e)

Abort == \E q \in Requests : handleCancelOnReactor(q) \/ handleTimeoutOnReactor(q)

Session(c) ==
    \/ \E q \in Requests : responseCompleted(c, q) \/ uploadEnds(c, q) \/ responseFailed(c, q)
    \/ \E n \in Limits : peerSettings(c, n)
    \/ \E S \in SUBSET conns[c].streams : goawayReceived(c, S)
    \/ connectionError(c)

Poll == \E c \in Conns : onReadable(c) \/ Session(c) \/ writeFails(c) \/ onPingTimeout(c)

Events == \/ readWouldBlock \/ readClosed \/ onConnectionLost \/ eventsDone
          \/ trySubmitPending \/ submitPending
          \/ \E q \in Requests : onRequestDone(q)

Dispatch == \E q \in Requests : runCallback(q)

Close == \/ stopConnector \/ postClose \/ stopReactor \/ stopDispatcher
         \/ dispatcherJoined \/ failQueuedRequests \/ failAllContexts \/ closeReturns

Next == /\ rx.pc # "crashed"
        /\ \/ startThreadsIfNeeded
           \/ \E q \in Requests : User(q)
           \/ Connector \/ Submission \/ Abort \/ Poll \/ Events
           \/ closeOnReactor \/ reactorExits
           \/ Dispatch \/ Close

Spec == Init /\ [][Next]_vars
-----------------------------------------------------------------------------
(***************************************************************************)
(* Fairness.  Every thread goes on with what it has begun.  Each round of  *)
(* Reactor::runLoop fires the due timers and drains the posted tasks, so   *)
(* neither is put off forever by sockets that are always readable (strong  *)
(* fairness); a read loop ends because the socket has nothing more to      *)
(* read.  A connection attempt ends, because connect() has a deadline,     *)
(* unless the peer falls silent in the TLS handshake (fault "handshake"):  *)
(* TlsStreamTransport::init then asks the socket again and again.  Nothing *)
(* else is assumed of the peer.                                            *)
(***************************************************************************)
\* What users' threads and the dispatcher have begun with a request.  Each of
\* these steps is taken once at most, and once possible it stays so until it is
\* taken: fairness to all of them together is fairness to each.
Handed(q) == \/ pushSubmitQueue(q) \/ postDrain(q) \/ postCancel(q) \/ cancelOffReactor(q)
             \/ passCallback(q) \/ runCallback(q)

Fairness ==
    /\ \A q \in Requests : WF_vars(Handed(q)) /\ SF_vars(handleTimeoutOnReactor(q))
    /\ WF_vars(connectorTakes \/ connectorExits)
    /\ WF_vars("handshake" \notin Faults /\ AttemptEnds)
    /\ SF_vars(tasks # <<>> /\ (Submission \/ Abort \/ closeOnReactor) /\ rx.pc = "idle")
    /\ WF_vars(rx.pc # "idle" /\ (Submission \/ Events))
    /\ SF_vars(reactorExits)
    /\ WF_vars(Close /\ closer # "no")

FairSpec == Spec /\ Fairness
-----------------------------------------------------------------------------
(***************************************************************************)
(* Properties                                                              *)
(***************************************************************************)
ConnType ==
    [at : {"unused", "posted", "pool", "gone"}, ep : Endpoints,
     connected : BOOLEAN, healthy : BOOLEAN, goingAway : BOOLEAN,
     limit : Nat, streams : SUBSET Requests, ctxs : SUBSET Requests]

RxType ==
    [pc : {"idle", "drain", "drainSubmit", "settle", "settleSubmit", "reading", "events",
           "refill", "refillSubmit", "exited", "crashed"},
     local : Seq(Requests), conn : Conns \cup {NoConn}, to : Conns \cup {NoConn},
     ep : Endpoints, done : SUBSET Requests, dead : BOOLEAN]

\* The variables have the shapes the C++ types give them.
TypeOK ==
    /\ started \in {"no", "yes", "failed"}
    /\ phase \in [Requests -> {"new", "created", "queued", "sent"}]
    /\ cancelling \in [Requests -> {"no", "marked", "done"}]
    /\ contexts \subseteq Requests /\ finished \subseteq Requests
    /\ canceled \subseteq Requests /\ timers \subseteq Requests
    /\ submitQueue \in Seq(Requests)
    /\ tasks \in Seq(Tasks)
    /\ running \in BOOLEAN
    /\ rx \in RxType
    /\ pending \in [Endpoints -> Seq(Requests)]
    /\ connecting \subseteq Endpoints
    /\ rc \in [Requests -> Conns \cup {NoConn}]
    /\ conns \in [Conns -> ConnType]
    /\ connectTasks \in Seq(Endpoints)
    /\ connector \in [pc : {"off", "wait", "connecting", "exited"}, ep : Endpoints,
                      stop : BOOLEAN]
    /\ dispatcher \in {"off", "on", "stopping"}
    /\ callbacks \in [Requests -> [queued : Nat, ran : Nat]]
    /\ completing \in [Requests -> {"no", "send", "cancel", "close"}]
    /\ closer \in {"no", "join connector", "stop reactor", "join reactor",
                   "join dispatcher", "fail queued", "fail contexts", "return", "closed"}

(***************************************************************************)
(* The callback of a request is handed over exactly once, however its      *)
(* response, its timeout, the user's cancel, the loss of its connection    *)
(* and close() race: a finished request has one completion, which is       *)
(* queued, has run, or is about to be passed on by the thread that won     *)
(* tryFinish, and an unfinished one has none.                              *)
(***************************************************************************)
OneCallback ==
    \A q \in Requests :
        callbacks[q].queued + callbacks[q].ran + (IF completing[q] = "no" THEN 0 ELSE 1)
            = IF q \in finished THEN 1 ELSE 0

(***************************************************************************)
(* When close() has returned, every request whose sendAsync has returned   *)
(* was called back, also those sent while close() was under way.  The one  *)
(* exception is a request that a cancel() still running on a user's thread *)
(* has finished: failAllContexts passes over it, and its callback runs     *)
(* after close(), before that cancel() returns.  Requests still inside     *)
(* sendAsync are answered before it returns.                               *)
(***************************************************************************)
Returned(q) == phase[q] = "sent" /\ completing[q] # "send"

ClosedAnswersAll ==
    closer = "closed" =>
        /\ \A q \in Requests : Returned(q) => callbacks[q].ran = 1 \/ completing[q] = "cancel"
        /\ \A q \in Range(submitQueue) : phase[q] = "queued"

(***************************************************************************)
(* No raw Connection pointer outlives its object: requestConnections and   *)
(* the reactor's loops only name connections that are in the pool, and a   *)
(* request is only submitted to a session that is healthy.                 *)
(***************************************************************************)
PointersValid ==
    /\ \A q \in Requests : rc[q] # NoConn =>
          /\ Pooled(rc[q])
          /\ ~conns[rc[q]].connected => rx.conn = rc[q] /\ rx.dead
    /\ rx.conn # NoConn => Pooled(rx.conn)
    /\ rx.to # NoConn => Pooled(rx.to) /\ conns[rx.to].connected /\ conns[rx.to].healthy

(***************************************************************************)
(* A request that has a stream can be found by cancel and timeout, and one *)
(* that is finished holds none: requestConnections leads from each context *)
(* in a session's streamContexts to that session, and the context is       *)
(* unfinished (unless close() has stopped the reactor and sendAsync, its   *)
(* own task refused, has answered the request itself).                     *)
(***************************************************************************)
InFlightFound ==
    \A c \in Conns : \A q \in conns[c].ctxs :
        /\ rc[q] = c /\ conns[c].connected /\ q \in conns[c].streams
        /\ q \in finished => ~running

(***************************************************************************)
(* An endpoint has one connection attempt at a time, and none beside a     *)
(* connection that accepts requests: connectingEndpoints says so, from the *)
(* task for the connector until its result has been handled.               *)
(***************************************************************************)
Attempts(e) ==
    Cardinality({i \in DOMAIN connectTasks : connectTasks[i] = e})
    + (IF connector.pc = "connecting" /\ connector.ep = e THEN 1 ELSE 0)
    + Cardinality({i \in DOMAIN tasks : \/ tasks[i] = [kind |-> "failed", ep |-> e]
                                        \/ \E c \in Conns :
                                             /\ tasks[i] = [kind |-> "established", conn |-> c]
                                             /\ conns[c].ep = e})

OneAttempt ==
    connector.pc # "exited" =>
        \A e \in Endpoints :
            /\ Attempts(e) = IF e \in connecting THEN 1 ELSE 0
            /\ Cardinality(Accepting(e)) + Attempts(e) <= 1

(***************************************************************************)
(* No request is forgotten: once sendAsync has returned, an unfinished     *)
(* request is in a place where the reactor will meet it again.             *)
(***************************************************************************)
NotForgotten ==
    \A q \in Requests : phase[q] = "sent" /\ q \notin finished =>
        \/ q \in Range(submitQueue) /\ [kind |-> "drain"] \in Range(tasks)
        \/ q \in Range(rx.local)
        \/ q \in Range(pending[EndpointOf[q]])
        \/ \E c \in Conns : q \in conns[c].ctxs
        \/ q \in rx.done

(***************************************************************************)
(* A request that waits will be retried: its endpoint is being connected,  *)
(* or a connection that accepts requests has one in flight, whose end      *)
(* calls trySubmitPending.                                                 *)
(***************************************************************************)
PendingServed ==
    rx.pc = "idle" /\ closer = "no" =>
        \A e \in Endpoints : pending[e] # <<>> =>
            e \in connecting \/ \E c \in Accepting(e) : conns[c].ctxs # {}

(***************************************************************************)
(* Draining connections whose streams have finished are pruned in          *)
(* drainSubmitQueue.                                                       *)
(***************************************************************************)
DrainedPruned ==
    [][drainSubmitQueue =>
          \A c \in Conns : conns'[c].at = "pool" /\ conns[c].goingAway => conns[c].streams # {}]_vars

(***************************************************************************)
(* The reactor's containers are touched by its own thread only: sending,   *)
(* cancelling and closing from several threads crashes nothing.            *)
(***************************************************************************)
NoCrash == rx.pc # "crashed"

\* A request sent with a timeout is called back, whatever the peer, the
\* connector and the sockets do.
TimedAnswered == \A q \in Timed : phase[q] = "sent" ~> callbacks[q].ran = 1

\* So is a request that was cancelled.
CancelAnswered == \A q \in Requests : q \in canceled ~> callbacks[q].ran = 1

\* close() returns, whatever the peer does to the connections there are: the
\* three joins do not wait for each other.  The one premise is that the connector
\* does not hang in a TLS handshake with a silent peer: then the first join hangs.
CloseReturns == ([]<>(connector.pc # "connecting")) => (closer # "no" ~> closer = "closed")
=============================================================================
