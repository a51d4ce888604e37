-------------------------------- MODULE Sockets --------------------------------
(***************************************************************************)
(* Descriptors and who holds them: the connector thread opens sockets      *)
(* (Connector, StreamTransportFactory, the transports' init), hands        *)
(* connections over to the reactor thread, which registers them with epoll *)
(* (registerFd, unregisterFd), dispatches events (runLoop, handleFdEvent)  *)
(* and closes them (SocketFd).  The operating system gives out the lowest  *)
(* free number, so the number of a socket closed by one thread may come    *)
(* back at once for a socket opened by the other.                          *)
(*                                                                         *)
(* A connection opens one socket per address it tries.  Octets are in      *)
(* module Wire, requests in ConnectionManager.                             *)
(***************************************************************************)
EXTENDS Naturals, Sequences, FiniteSets, FiniteSetsExt

CONSTANTS
    MaxConn,     \* bound: connections made
    MaxFd,       \* descriptor numbers there are for sockets
    Addresses,   \* addresses the name resolves to; 1 for an IP or a UNIX socket
    Timeout,     \* connectTimeoutMs, in ticks
    MaxResolve,  \* bound: ticks a name lookup or a TLS handshake may last until
    MaxSignals   \* bound: signals that interrupt poll()

ASSUME SocketsAssumption ==
    /\ {MaxConn, MaxFd, Addresses, Timeout} \subseteq Nat \ {0}
    /\ {MaxResolve, MaxSignals} \subseteq Nat

Conns == 1 .. MaxConn
Fds   == 1 .. MaxFd

INVALID_SOCKET == 0
NoSocket == <<>>

VARIABLES
    open,        \* the process's descriptors: the socket each number stands for
    epoll,       \* the interest list: descriptor and socket
    fdContexts,  \* the reactor's map from descriptors to connections
    conns,       \* Connection objects: state, SocketFd, sessionFd, socket
    connector,   \* the connector thread
    tasks,       \* connections posted to the reactor
    rx,          \* the reactor thread: wait, batch, dead, tasks
    batch,       \* events of the last epoll_wait still to be handled
    called       \* history: handler called last, and the socket its event was for

vars == <<open, epoll, fdContexts, conns, connector, tasks, rx, batch, called>>

connectorVars == <<connector, tasks>>
reactorVars   == <<epoll, fdContexts, rx, batch, called>>

Init ==
    /\ open = [n \in Fds |-> NoSocket]
    /\ epoll = {}
    /\ fdContexts = [n \in Fds |-> {}]
    /\ conns = [c \in Conns |-> [st |-> "none", fd |-> INVALID_SOCKET,
                                 sessionFd |-> INVALID_SOCKET, sock |-> NoSocket]]
    /\ connector = [pc |-> "idle", conn |-> 1, addr |-> 1, left |-> 0, pollMs |-> 0,
                    pollLeft |-> 0, spent |-> 0, waited |-> 0, signals |-> 0]
    /\ tasks = <<>>
    /\ rx = [pc |-> "wait", conn |-> 1]
    /\ batch = {}
    /\ called = [conn |-> 1, sock |-> NoSocket]
--------------------------------------------------------------------------------
Free == {n \in Fds : open[n] = NoSocket}

\* closeSocket: the number is free, and epoll forgets the socket.
closeSocket(n) ==
    IF n = INVALID_SOCKET THEN UNCHANGED <<open, epoll>>
    ELSE /\ open' = [open EXCEPT ![n] = NoSocket]
         /\ epoll' = {e \in epoll : e.sock # open[n]}

\* Faulty variant: the number is kept after the socket has been closed.
resetKeeps(c, st) == conns' = [conns EXCEPT ![c].st = st]

\* SocketFd::reset and the connection's next state
reset(c, st) == conns' = [conns EXCEPT ![c].fd = INVALID_SOCKET, ![c].st = st]
--------------------------------------------------------------------------------
(***************************************************************************)
(* The connector thread: Connector::connectDomain, of which connectIp and  *)
(* connectUnix are the case of one address and no lookup.                  *)
(***************************************************************************)
me == connector.conn

Go(pc) == connector' = [connector EXCEPT !.pc = pc]

NextAddress == connector' = [connector EXCEPT !.pc = "next", !.addr = @ + 1]

connectorTakes ==
    /\ connector.pc = "idle" /\ conns[me].st = "none"
    /\ connector' = [connector EXCEPT !.pc = "resolve", !.waited = 0, !.spent = 0, !.signals = 0]
    /\ conns' = [conns EXCEPT ![me].st = "connecting"]
    /\ UNCHANGED <<open, tasks, reactorVars>>

\* The deadline is set once the lookup has returned.
getaddrinfo ==
    /\ connector.pc = "resolve"
    /\ \/ connector' = [connector EXCEPT !.pc = "next", !.addr = 1, !.left = Timeout]
       \/ Go("failed")
    /\ UNCHANGED <<open, conns, tasks, reactorVars>>

\* The loop's end: the addresses have run out, or the time has
connectGivesUp ==
    /\ connector.pc = "next"
    /\ connector.addr > Addresses \/ connector.left = 0
    /\ Go("failed")
    /\ UNCHANGED <<open, conns, tasks, reactorVars>>

TryAddress ==
    connector.pc = "next" /\ connector.addr <= Addresses /\ connector.left > 0

\* socket() fails
noSocket ==
    /\ TryAddress /\ Free = {}
    /\ NextAddress
    /\ UNCHANGED <<open, conns, tasks, reactorVars>>

\* Faulty variant: every address is given all of the time.
pollAllOfIt == Timeout

remaining == connector.left

openSocket ==
    /\ TryAddress /\ Free # {}
    /\ LET n == Min(Free)
       IN  /\ open' = [open EXCEPT ![n] = <<me, connector.addr>>]
           /\ conns' = [conns EXCEPT ![me].fd = n, ![me].sock = <<me, connector.addr>>]
    /\ \/ Go("connected")    \* connect() succeeds at once
       \/ connector' = [connector EXCEPT !.pc = "poll", !.pollMs = remaining, !.pollLeft = remaining]
       \/ Go("refused")
    /\ UNCHANGED <<tasks, reactorVars>>

Later(n) == IF n = 0 THEN 0 ELSE n - 1

\* Time passes while the thread is in poll(), getaddrinfo() or SSL_do_handshake().
tick ==
    /\ \/ connector.pc = "poll" /\ connector.pollLeft > 0
       \/ connector.pc \in {"resolve", "connected"} /\ connector.waited < MaxResolve
    /\ connector' =
          IF connector.pc = "poll"
          THEN [connector EXCEPT !.pollLeft = @ - 1, !.left = Later(@), !.spent = @ + 1,
                                 !.waited = @ + 1]
          ELSE [connector EXCEPT !.waited = @ + 1]
    /\ UNCHANGED <<open, conns, tasks, reactorVars>>

\* pollForWrite after EINTR: poll() starts over with the same time.
interrupted ==
    /\ connector.pc = "poll" /\ connector.signals < MaxSignals
    /\ connector' = [connector EXCEPT !.pollLeft = connector.pollMs, !.signals = @ + 1]
    /\ UNCHANGED <<open, conns, tasks, reactorVars>>

\* poll() returns: the socket is connected, or has an error, or time is up.
pollReturns ==
    /\ connector.pc = "poll"
    /\ \/ connector.pollLeft > 0 /\ Go("connected")
       \/ Go("refused")
    /\ UNCHANGED <<open, conns, tasks, reactorVars>>

refused ==
    /\ connector.pc = "refused"
    /\ closeSocket(conns[me].fd)
    /\ reset(me, "connecting")
    /\ NextAddress
    /\ UNCHANGED <<tasks, fdContexts, rx, batch, called>>

\* For the thread's next connection
Idle == connector' = [connector EXCEPT !.pc = "idle", !.conn = IF @ < MaxConn THEN @ + 1 ELSE @]

\* TcpStreamTransport::init, or the TLS handshake, and the session's start succeed;
\* the connection is posted to the reactor.
initSucceeds ==
    /\ connector.pc = "connected"
    /\ conns' = [conns EXCEPT ![me].st = "posted", ![me].sessionFd = conns[me].fd]
    /\ tasks' = Append(tasks, me)
    /\ Idle
    /\ UNCHANGED <<open, reactorVars>>

\* init() fails or no address could be connected to: the Connection is destroyed.
connectFails ==
    /\ connector.pc \in {"connected", "failed"}
    /\ closeSocket(conns[me].fd)
    /\ reset(me, "gone")
    /\ Idle
    /\ UNCHANGED <<tasks, fdContexts, rx, batch, called>>

Connect == \/ connectorTakes \/ getaddrinfo \/ connectGivesUp \/ noSocket \/ openSocket
           \/ tick \/ interrupted \/ pollReturns \/ refused \/ initSucceeds \/ connectFails
--------------------------------------------------------------------------------
(***************************************************************************)
(* The reactor thread                                                      *)
(***************************************************************************)
\* epoll_wait returns some of the descriptors of the interest list.
epollWait ==
    /\ rx.pc = "wait"
    /\ batch' \in SUBSET epoll
    /\ rx' = [rx EXCEPT !.pc = "batch"]
    /\ UNCHANGED <<open, epoll, fdContexts, conns, connectorVars, called>>

\* unregisterFd: EPOLL_CTL_DEL for whatever socket has the number now
unregisterFd(n) ==
    IF n = INVALID_SOCKET \/ fdContexts[n] = {} THEN UNCHANGED fdContexts
    ELSE fdContexts' = [fdContexts EXCEPT ![n] = {}]

Unlisted(n) ==
    IF n = INVALID_SOCKET \/ fdContexts[n] = {} THEN epoll
    ELSE {e \in epoll : ~(e.fd = n /\ e.sock = open[n])}

\* handleFdEvent for a descriptor without a context
staleEvent(e) ==
    /\ rx.pc = "batch" /\ e \in batch /\ fdContexts[e.fd] = {}
    /\ batch' = batch \ {e}
    /\ UNCHANGED <<open, epoll, fdContexts, conns, connectorVars, rx, called>>

\* handleFdEvent: the handlers of connection c find nothing wrong, or they return
\* at once because the session is no longer healthy.
fdEvent(e, c) ==
    /\ rx.pc = "batch" /\ e \in batch /\ c \in fdContexts[e.fd]
    /\ batch' = batch \ {e}
    /\ called' = [conn |-> c, sock |-> e.sock]

harmless(e, c) ==
    /\ fdEvent(e, c)
    /\ UNCHANGED <<open, epoll, fdContexts, conns, connectorVars, rx>>

\* The read handler meets the end of the stream or an error: the transport is
\* closed, then SESSION_DEAD is processed.
readFails(e, c) ==
    /\ fdEvent(e, c) /\ conns[c].st = "pooled"
    /\ closeSocket(conns[c].fd)
    /\ reset(c, "pooled")
    /\ rx' = [pc |-> "dead", conn |-> c]
    /\ UNCHANGED <<fdContexts, connectorVars>>

\* A connection error of the protocol: SESSION_DEAD without closing the transport
protocolError(e, c) ==
    /\ fdEvent(e, c) /\ conns[c].st = "pooled"
    /\ rx' = [pc |-> "dead", conn |-> c]
    /\ UNCHANGED <<open, epoll, fdContexts, conns, connectorVars>>

\* The write handler fails: the transport is closed, SESSION_DEAD is dropped.
writeFails(e, c) ==
    /\ fdEvent(e, c) /\ conns[c].st = "pooled"
    /\ closeSocket(conns[c].fd)
    /\ reset(c, "zombie")
    /\ UNCHANGED <<fdContexts, connectorVars, rx>>

sessionDead ==
    /\ rx.pc = "dead"
    /\ epoll' = Unlisted(conns[rx.conn].sessionFd)
    /\ unregisterFd(conns[rx.conn].sessionFd)
    /\ conns' = [conns EXCEPT ![rx.conn].st = "dead", ![rx.conn].sessionFd = INVALID_SOCKET]
    /\ rx' = [rx EXCEPT !.pc = "batch"]
    /\ UNCHANGED <<open, connectorVars, batch, called>>

\* Connection::closeOnReactor, when a PING is not answered (a timer of the same
\* batch) or the manager closes: first unregistered, then closed
closeOnReactor(c) ==
    /\ rx.pc \in {"batch", "tasks"} /\ conns[c].st \in {"pooled", "zombie"}
    /\ unregisterFd(conns[c].sessionFd)
    /\ LET n == conns[c].fd
       IN  /\ open' = IF n = INVALID_SOCKET THEN open ELSE [open EXCEPT ![n] = NoSocket]
           /\ epoll' = {e \in Unlisted(conns[c].sessionFd) : n # INVALID_SOCKET => e.sock # open[n]}
    /\ conns' = [conns EXCEPT ![c].st = "dead", ![c].fd = INVALID_SOCKET,
                              ![c].sessionFd = INVALID_SOCKET]
    /\ UNCHANGED <<connectorVars, rx, batch, called>>

\* drainPostedTasks, when the events have been handled
batchDone ==
    /\ rx.pc = "batch" /\ batch = {}
    /\ rx' = [rx EXCEPT !.pc = "tasks"]
    /\ UNCHANGED <<open, epoll, fdContexts, conns, connectorVars, batch, called>>

\* Faulty variant: posted connections are taken over before the events are handled.
MayRunEarly == rx.pc \in {"batch", "tasks"}

MayRun == rx.pc = "tasks"

registerFd(c) ==
    LET n == conns[c].sessionFd
    IN  /\ fdContexts[n] = {}
        /\ fdContexts' = [fdContexts EXCEPT ![n] = {c}]
        /\ epoll' = epoll \cup {[fd |-> n, sock |-> open[n]]}

onConnectionEstablished ==
    /\ MayRun /\ tasks # <<>>
    /\ registerFd(Head(tasks))
    /\ conns' = [conns EXCEPT ![Head(tasks)].st = "pooled"]
    /\ tasks' = Tail(tasks)
    /\ UNCHANGED <<open, connector, rx, batch, called>>

\* registerWithReactor fails because the number has a context already, or for a reason
\* of epoll's: the session is closed and the Connection destroyed.
registerFails ==
    /\ MayRun /\ tasks # <<>>
    /\ closeSocket(conns[Head(tasks)].fd)
    /\ reset(Head(tasks), "gone")
    /\ tasks' = Tail(tasks)
    /\ UNCHANGED <<fdContexts, connector, rx, batch, called>>

\* drainSubmitQueue removes a connection that is no longer connected; its
\* transport's SocketFd closes what is still open.
removeDead(c) ==
    /\ rx.pc = "tasks" /\ conns[c].st = "dead"
    /\ closeSocket(conns[c].fd)
    /\ reset(c, "gone")
    /\ UNCHANGED <<fdContexts, connectorVars, rx, batch, called>>

tasksDone ==
    /\ rx.pc = "tasks"
    /\ rx' = [rx EXCEPT !.pc = "wait"]
    /\ UNCHANGED <<open, epoll, fdContexts, conns, connectorVars, batch, called>>

React ==
    \/ epollWait \/ batchDone \/ sessionDead \/ tasksDone
    \/ onConnectionEstablished \/ registerFails
    \/ \E e \in batch : staleEvent(e)
    \/ \E e \in batch, c \in Conns :
          harmless(e, c) \/ readFails(e, c) \/ protocolError(e, c) \/ writeFails(e, c)
    \/ \E c \in Conns : closeOnReactor(c) \/ removeDead(c)

Next == Connect \/ React

Spec == Init /\ [][Next]_vars
--------------------------------------------------------------------------------
(* A handler is only called for an event of its own connection's socket,   *)
(* although the number may have been closed and given to another socket    *)
(* since epoll_wait returned it (registerFd is left to the reactor thread, *)
(* after the batch).                                                       *)
HandlerOwnsSocket == called.sock # NoSocket => called.sock = conns[called.conn].sock

(* Every open descriptor is held by exactly one connection, which will     *)
(* close it, and every descriptor a connection holds is its own socket:    *)
(* none leaks on an error path, none is closed twice or from under a       *)
(* socket that got the same number; and epoll watches only sockets of      *)
(* connections the reactor still knows.                                    *)
DescriptorsOwned ==
    /\ \A n \in Fds : open[n] # NoSocket =>
          Cardinality({c \in Conns : conns[c].fd = n /\ conns[c].st \notin {"none", "gone"}}) = 1
    /\ \A c \in Conns : conns[c].fd # INVALID_SOCKET => open[conns[c].fd] = conns[c].sock
    /\ \A e \in epoll : fdContexts[e.fd] # {} /\ open[e.fd] = e.sock

(* connectTimeoutMs bounds the time spent in connecting, over all the      *)
(* addresses of the name together; a signal that interrupts poll() can     *)
(* prolong it by the time the poll had been given (connectDomain,          *)
(* connectWithTimeout, pollForWrite).                                      *)
ConnectBounded == connector.spent <= Timeout * (1 + connector.signals)

(* What the comment on ClientConfig::connectTimeoutMs promises: the time   *)
(* limit covers the name lookup too.                                       *)
TimeoutCoversLookup ==
    connector.pc \in {"next", "poll"} => connector.waited <= Timeout * (1 + connector.signals)

(* A connection handed to the reactor can be registered: no closed         *)
(* connection still holds the context of its descriptor's number.          *)
NumberNotHaunted == \A c \in Conns : conns[c].st = "posted" => fdContexts[conns[c].sessionFd] = {}
=============================================================================
