---------------------------- MODULE Sockets_proofs ----------------------------
(***************************************************************************)
(* Descriptors are owned and the time to connect is bounded, for any       *)
(* number of connections, descriptors, addresses and signals.              *)
(***************************************************************************)
EXTENDS Sockets, FiniteSetTheorems, WellFoundedInduction, TLAPS

\* The socket a connection opens for one of its addresses
SocketsOf(c) == {c} \X Nat

AnySocket == Conns \X Nat

Events == [fd : Fds, sock : AnySocket]

ConnectionStates == {"none", "connecting", "posted", "pooled", "zombie", "dead", "gone"}

ConnectionRecords ==
    [st : ConnectionStates, fd : {INVALID_SOCKET} \cup Fds,
     sessionFd : {INVALID_SOCKET} \cup Fds, sock : {NoSocket} \cup AnySocket]

ConnectorStates == {"idle", "resolve", "next", "poll", "connected", "refused", "failed"}

ConnectorRecords ==
    [pc : ConnectorStates, conn : Conns, addr : Nat, left : Nat, pollMs : Nat,
     pollLeft : Nat, spent : Nat, waited : Nat, signals : Nat]

TypeOK ==
    /\ open \in [Fds -> {NoSocket} \cup AnySocket]
    /\ epoll \subseteq Events
    /\ fdContexts \in [Fds -> SUBSET Conns]
    /\ conns \in [Conns -> ConnectionRecords]
    /\ connector \in ConnectorRecords
    /\ tasks \in Seq(Conns)
    /\ rx \in [pc : {"wait", "batch", "dead", "tasks"}, conn : Conns]
    /\ batch \subseteq Events
    /\ called \in [conn : Conns, sock : {NoSocket} \cup AnySocket]

\* The connector thread works on one connection at a time, and holds a socket
\* exactly while that is being connected or handed over.
OneConnecting ==
    /\ \A c \in Conns : conns[c].st = "connecting" <=> c = me /\ connector.pc # "idle"
    /\ connector.pc # "idle" =>
          (conns[me].fd # INVALID_SOCKET <=> connector.pc \in {"poll", "connected", "refused"})

\* What each state of a connection says of its two numbers
NumbersFollowState ==
    \A c \in Conns :
        /\ conns[c].st \in {"none", "gone", "zombie"} => conns[c].fd = INVALID_SOCKET
        /\ conns[c].st = "posted" =>
              conns[c].fd # INVALID_SOCKET /\ conns[c].sessionFd = conns[c].fd
        /\ conns[c].st \in {"pooled", "zombie"} => conns[c].sessionFd # INVALID_SOCKET
        /\ conns[c].st = "pooled" =>
              \/ conns[c].fd = conns[c].sessionFd
              \/ conns[c].fd = INVALID_SOCKET /\ rx.pc = "dead" /\ rx.conn = c

\* The socket of a number was opened by the connection that holds the number.
SocketsHeld ==
    /\ \A c \in Conns : conns[c].sock \in {NoSocket} \cup SocketsOf(c)
    /\ \A c \in Conns : conns[c].fd # INVALID_SOCKET =>
          conns[c].sock # NoSocket /\ open[conns[c].fd] = conns[c].sock
    /\ \A n \in Fds : open[n] # NoSocket => \E c \in Conns : conns[c].fd = n

\* The contexts are those of the registered connections, under their numbers.
ContextsFollowState ==
    /\ \A c \in Conns : conns[c].st \in {"pooled", "zombie"} =>
          fdContexts[conns[c].sessionFd] = {c}
    /\ \A n \in Fds : \A c \in fdContexts[n] :
          conns[c].st \in {"pooled", "zombie"} /\ conns[c].sessionFd = n

\* Epoll watches the sockets of pooled connections; an event that is still to
\* be handled is one of the connection whose context it will find, if any.
EventsFollowContexts ==
    /\ \A e \in epoll : \E c \in Conns :
          c \in fdContexts[e.fd] /\ conns[c].fd = e.fd /\ e.sock = conns[c].sock
    /\ \A e \in batch : \A c \in fdContexts[e.fd] : e.sock = conns[c].sock
    /\ rx.pc \in {"wait", "tasks"} => batch = {}
    /\ rx.pc = "dead" => conns[rx.conn].st = "pooled"
    /\ called.sock # NoSocket =>
          /\ conns[called.conn].st \notin {"none", "connecting"}
          /\ called.sock = conns[called.conn].sock

\* The queue holds the posted connections, each once.
TasksPosted ==
    /\ \A i \in DOMAIN tasks : conns[tasks[i]].st = "posted"
    /\ \A i, j \in DOMAIN tasks : tasks[i] = tasks[j] => i = j

\* What is left of the time limit, and of the poll() under way, fits in.
TimeLeft ==
    /\ connector.left <= Timeout
    /\ connector.pc = "resolve" => connector.spent = 0
    /\ connector.spent + connector.left <= Timeout * (1 + connector.signals)
    /\ connector.pc = "poll" =>
          /\ connector.pollMs <= Timeout
          /\ connector.spent + connector.pollLeft <= Timeout * (1 + connector.signals)

Ownership == OneConnecting /\ NumbersFollowState /\ SocketsHeld /\ ContextsFollowState
             /\ EventsFollowContexts /\ TasksPosted

IInv == TypeOK /\ Ownership /\ TimeLeft

\* Sockets of different connections are different, and none of them is NoSocket.
LEMMA SocketFacts ==
    /\ \A c \in Conns : NoSocket \notin SocketsOf(c) /\ SocketsOf(c) \subseteq AnySocket
    /\ NoSocket \notin AnySocket
    /\ \A c, d \in Conns : c # d => SocketsOf(c) \cap SocketsOf(d) = {}
    /\ \A c \in Conns, a \in Nat : <<c, a>> \in SocketsOf(c)
BY DEF SocketsOf, AnySocket, NoSocket

\* The constants that bound the sets
LEMMA Numbers ==
    /\ Conns \subseteq Nat /\ Fds \subseteq Nat /\ 0 \notin Fds /\ 1 \in Conns
    /\ MaxConn \in Conns
    /\ INVALID_SOCKET \notin Fds
BY SocketsAssumption DEF Conns, Fds, INVALID_SOCKET

\* The lowest free number is free.
LEMMA LowestFree == Free # {} => Min(Free) \in Free
<1> SUFFICES ASSUME Free # {} PROVE \E x \in Free : \A y \in Free : x =< y
  BY DEF Min
<1>1. Free \subseteq Nat
  BY Numbers DEF Free
<1> DEFINE R == OpToRel(<, Nat)
<1>2. \A x, y \in Nat : <<y, x>> \in R <=> y < x
  BY DEF OpToRel
<1>3. IsWellFoundedOn(R, Nat)
  BY NatLessThanWellFounded
<1> HIDE DEF R
<1>4. PICK x \in Free : \A y \in Free : ~ (<<y, x>> \in R)
  BY <1>1, <1>3, WFMin
<1>5. \A y \in Free : ~ (y < x)
  BY <1>1, <1>2, <1>4
<1>6. \A y \in Free : x =< y
  BY <1>1, <1>5
<1> QED
  BY <1>6

\* A process that has not connected yet owns nothing.
LEMMA InitEstablishes == Init => IInv
<1> SUFFICES ASSUME Init PROVE IInv
  OBVIOUS
<1>1. TypeOK
  BY Numbers DEF Init, TypeOK, ConnectionStates, ConnectionRecords, ConnectorStates,
       ConnectorRecords
<1>2. Ownership
  BY Numbers DEF Init, Ownership, OneConnecting, NumbersFollowState, SocketsHeld,
       ContextsFollowState, EventsFollowContexts, TasksPosted, me
<1>3. TimeLeft
  BY SocketsAssumption DEF Init, TimeLeft
<1> QED
  BY <1>1, <1>2, <1>3 DEF IInv

\* The clock part: only the connector thread's steps move it.
LEMMA TimePreserved == TypeOK /\ TimeLeft /\ [Next]_vars => TimeLeft'
<1> SUFFICES ASSUME TypeOK, TimeLeft, [Next]_vars PROVE TimeLeft'
  OBVIOUS
<1> DEFINE k == connector
<1> DEFINE bound(s) == Timeout * (1 + s)
<1>1. /\ Timeout \in Nat /\ Timeout > 0
      /\ k.left \in Nat /\ k.pollMs \in Nat /\ k.pollLeft \in Nat /\ k.spent \in Nat
      /\ k.signals \in Nat
  BY SocketsAssumption DEF TypeOK, ConnectorRecords
<1>2. \A s \in Nat : bound(s) \in Nat /\ bound(s + 1) = bound(s) + Timeout
  BY <1>1
<1>3. bound(0) = Timeout
  BY <1>1
<1>4. /\ k.left <= Timeout
      /\ k.pc = "resolve" => k.spent = 0
      /\ k.spent + k.left <= bound(k.signals)
      /\ k.pc = "poll" => k.pollMs <= Timeout /\ k.spent + k.pollLeft <= bound(k.signals)
  BY DEF TimeLeft
<1>5. SUFFICES
      /\ k'.left <= Timeout
      /\ k'.pc = "resolve" => k'.spent = 0
      /\ k'.spent + k'.left <= bound(k'.signals)
      /\ k'.pc = "poll" => k'.pollMs <= Timeout /\ k'.spent + k'.pollLeft <= bound(k'.signals)
  BY DEF TimeLeft
<1> HIDE DEF bound
<1>6. k \in [pc : ConnectorStates, conn : Conns, addr : Nat, left : Nat, pollMs : Nat,
             pollLeft : Nat, spent : Nat, waited : Nat, signals : Nat]
  BY DEF TypeOK, ConnectorRecords
<1>7. CASE connectorTakes
  BY <1>1, <1>2, <1>3, <1>4, <1>6, <1>7 DEF connectorTakes
<1>8. CASE getaddrinfo
  <2>1. CASE Go("failed")
    BY <1>4, <1>6, <2>1 DEF Go
  <2>2. CASE k' = [k EXCEPT !.pc = "next", !.addr = 1, !.left = Timeout]
    <3>1. k.spent = 0 /\ k'.spent = 0 /\ k'.left = Timeout /\ k'.signals = k.signals
          /\ k'.pc = "next"
      BY <1>4, <1>6, <1>8, <2>2 DEF getaddrinfo
    <3>2. Timeout <= bound(k.signals)
      BY <1>1 DEF bound
    <3> QED
      BY <1>1, <3>1, <3>2
  <2> QED
    BY <1>8, <2>1, <2>2 DEF getaddrinfo
<1>9. CASE connectGivesUp \/ noSocket \/ pollReturns \/ refused \/ initSucceeds \/ connectFails
  BY <1>1, <1>2, <1>4, <1>6, <1>9
     DEF connectGivesUp, noSocket, pollReturns, refused, initSucceeds, connectFails,
         Go, NextAddress, Idle
<1>10. CASE openSocket
  BY <1>1, <1>2, <1>4, <1>6, <1>10 DEF openSocket, Go, remaining, TryAddress
<1>11. CASE tick
  BY <1>1, <1>2, <1>4, <1>6, <1>11 DEF tick, Later
<1>12. CASE interrupted
  BY <1>1, <1>2, <1>4, <1>6, <1>12 DEF interrupted
<1>13. CASE React \/ UNCHANGED vars
  <2>1. UNCHANGED connector
    BY <1>13 DEF React, vars, connectorVars, epollWait, batchDone, sessionDead, tasksDone,
         onConnectionEstablished, registerFails, staleEvent, harmless, readFails,
         protocolError, writeFails, closeOnReactor, removeDead
  <2> QED
    BY <1>4, <2>1
<1> QED
  BY <1>7, <1>8, <1>9, <1>10, <1>11, <1>12, <1>13 DEF Next, Connect

\* SocketFd::reset changes one connection, and of it the number and the state.
LEMMA ResetEffect ==
    ASSUME TypeOK, NEW c \in Conns, NEW st \in ConnectionStates, reset(c, st)
    PROVE  /\ conns' \in [Conns -> ConnectionRecords]
           /\ \A d \in Conns : d # c => conns'[d] = conns[d]
           /\ conns'[c].st = st /\ conns'[c].fd = INVALID_SOCKET
           /\ conns'[c].sessionFd = conns[c].sessionFd /\ conns'[c].sock = conns[c].sock
BY DEF TypeOK, reset, ConnectionRecords

\* closeSocket frees one number and takes its socket off epoll's list.
LEMMA CloseEffect ==
    ASSUME TypeOK, NEW n \in {INVALID_SOCKET} \cup Fds, closeSocket(n)
    PROVE  /\ open' \in [Fds -> {NoSocket} \cup AnySocket]
           /\ \A m \in Fds : open'[m] = IF m = n THEN NoSocket ELSE open[m]
           /\ epoll' \subseteq epoll
           /\ n \in Fds => \A e \in epoll' : e.sock # open[n]
BY Numbers DEF TypeOK, closeSocket

\* unregisterFd takes a context away, and the socket that has its number now.
LEMMA UnregisterEffect ==
    ASSUME TypeOK, NEW n \in Fds, unregisterFd(n)
    PROVE  /\ fdContexts' \in [Fds -> SUBSET Conns]
           /\ \A m \in Fds : fdContexts'[m] = IF m = n THEN {} ELSE fdContexts[m]
           /\ Unlisted(n) \subseteq epoll
           /\ fdContexts[n] # {} => \A e \in Unlisted(n) : ~(e.fd = n /\ e.sock = open[n])
BY Numbers DEF TypeOK, unregisterFd, Unlisted

\* The connector thread's record stays well typed.
LEMMA ConnectorTyped ==
    ASSUME TypeOK,
           \/ connector' = connector \/ Idle \/ NextAddress
           \/ \E pc \in ConnectorStates : Go(pc)
    PROVE  connector' \in ConnectorRecords
<1>1. MaxConn \in Nat /\ connector \in ConnectorRecords
  BY SocketsAssumption DEF TypeOK
<1>2. \A c \in Conns : c < MaxConn => c + 1 \in Conns
  BY <1>1 DEF Conns
<1>3. CASE Idle
  <2> DEFINE next == IF connector.conn < MaxConn THEN connector.conn + 1 ELSE connector.conn
  <2>1. next \in Conns
    BY <1>1, <1>2 DEF ConnectorRecords
  <2>2. connector' = [connector EXCEPT !.pc = "idle", !.conn = next]
    BY <1>3 DEF Idle
  <2> HIDE DEF next
  <2> QED
    BY <1>1, <2>1, <2>2 DEF ConnectorRecords, ConnectorStates
<1>4. CASE NextAddress
  <2>1. connector.addr + 1 \in Nat
    BY <1>1 DEF ConnectorRecords
  <2>2. connector' = [connector EXCEPT !.pc = "next", !.addr = connector.addr + 1]
    BY <1>4 DEF NextAddress
  <2> QED
    BY <1>1, <2>1, <2>2 DEF ConnectorRecords, ConnectorStates
<1>5. CASE \E pc \in ConnectorStates : Go(pc)
  BY <1>1, <1>5 DEF ConnectorRecords, Go
<1> QED
  BY <1>1, <1>3, <1>4, <1>5

\* Every step leaves the state well typed.
LEMMA TypePreserved == TypeOK /\ Ownership /\ [Next]_vars => TypeOK'
<1> SUFFICES ASSUME TypeOK, Ownership, [Next]_vars PROVE TypeOK'
  OBVIOUS
<1>me. me \in Conns /\ me = connector.conn
  BY DEF me, TypeOK, ConnectorRecords
<1>fd. \A c \in Conns : conns[c].fd \in {INVALID_SOCKET} \cup Fds
  BY DEF TypeOK, ConnectionRecords
<1>st. "connecting" \in ConnectionStates /\ "gone" \in ConnectionStates /\ "pooled" \in ConnectionStates
       /\ "zombie" \in ConnectionStates /\ "dead" \in ConnectionStates /\ "posted" \in ConnectionStates
  BY DEF ConnectionStates
<1>pc. \A pc \in {"idle", "resolve", "next", "poll", "connected", "refused", "failed"} :
          pc \in ConnectorStates
  BY DEF ConnectorStates
<1>k. connector \in ConnectorRecords /\ conns \in [Conns -> ConnectionRecords]
  BY DEF TypeOK
<1>1. CASE connectorTakes
  <2>1. connector' \in ConnectorRecords
    BY <1>1 DEF connectorTakes, TypeOK, ConnectorRecords, ConnectorStates
  <2>2. conns' \in [Conns -> ConnectionRecords]
    BY <1>1, <1>me, <1>st DEF connectorTakes, TypeOK, ConnectionRecords
  <2> QED
    BY <1>1, <2>1, <2>2 DEF connectorTakes, TypeOK, reactorVars
<1>2. CASE getaddrinfo \/ tick \/ interrupted
  <2>1. Timeout \in Nat
    BY SocketsAssumption
  <2>2. CASE getaddrinfo
    <3>1. ASSUME connector' = [connector EXCEPT !.pc = "next", !.addr = 1, !.left = Timeout]
          PROVE  connector' \in ConnectorRecords
      <4>1. 1 \in Nat /\ "next" \in ConnectorStates
        BY DEF ConnectorStates
      <4> QED
        BY <1>k, <2>1, <3>1, <4>1 DEF ConnectorRecords
    <3>2. connector' \in ConnectorRecords
      BY <2>2, <3>1, <1>pc, ConnectorTyped DEF getaddrinfo
    <3> QED
      BY <2>2, <3>2 DEF getaddrinfo, TypeOK, reactorVars
  <2>3. CASE tick
    <3>1. /\ connector.pollLeft > 0 => connector.pollLeft - 1 \in Nat
          /\ Later(connector.left) \in Nat
          /\ connector.spent + 1 \in Nat /\ connector.waited + 1 \in Nat
      BY <1>k DEF ConnectorRecords, Later
    <3>2. \/ connector' = [connector EXCEPT !.waited = connector.waited + 1]
          \/ /\ connector.pollLeft > 0
             /\ connector' = [connector EXCEPT !.pollLeft = connector.pollLeft - 1,
                    !.left = Later(connector.left), !.spent = connector.spent + 1,
                    !.waited = connector.waited + 1]
      BY <2>3 DEF tick
    <3>3. connector' \in ConnectorRecords
      BY <1>k, <3>1, <3>2 DEF ConnectorRecords
    <3> QED
      BY <2>3, <3>3 DEF tick, TypeOK, reactorVars
  <2>4. CASE interrupted
    <3>1. connector.pollMs \in Nat /\ connector.signals + 1 \in Nat
      BY <1>k DEF ConnectorRecords
    <3>2. connector' = [connector EXCEPT !.pollLeft = connector.pollMs,
                                         !.signals = connector.signals + 1]
      BY <2>4 DEF interrupted
    <3>3. connector' \in ConnectorRecords
      BY <1>k, <3>1, <3>2 DEF ConnectorRecords
    <3> QED
      BY <2>4, <3>3 DEF interrupted, TypeOK, reactorVars
  <2> QED
    BY <1>2, <2>2, <2>3, <2>4
<1>3. CASE connectGivesUp \/ noSocket \/ pollReturns
  <2>1. connector' \in ConnectorRecords
    BY <1>3, <1>pc, ConnectorTyped DEF connectGivesUp, noSocket, pollReturns
  <2> QED
    BY <1>3, <2>1 DEF connectGivesUp, noSocket, pollReturns, TypeOK, reactorVars
<1>4. CASE openSocket
  <2>1. <<me, connector.addr>> \in AnySocket
    BY <1>me DEF AnySocket, TypeOK, ConnectorRecords
  <2>2. Min(Free) \in Fds
    BY <1>4, LowestFree DEF openSocket, Free
  <2>3. connector' \in ConnectorRecords
    <3>1. connector.left \in Nat
      BY DEF TypeOK, ConnectorRecords
    <3>2. CASE connector' = [connector EXCEPT !.pc = "poll", !.pollMs = remaining,
                                              !.pollLeft = remaining]
      BY <3>1, <3>2 DEF remaining, TypeOK, ConnectorRecords, ConnectorStates
    <3> QED
      BY <1>4, <1>pc, <3>2, ConnectorTyped DEF openSocket
  <2>4. conns' \in [Conns -> ConnectionRecords]
    BY <1>4, <1>me, <2>1, <2>2, <1>k DEF openSocket, ConnectionRecords
  <2>5. open' \in [Fds -> {NoSocket} \cup AnySocket]
    BY <1>4, <2>1, <2>2 DEF openSocket, TypeOK
  <2> QED
    BY <1>4, <2>3, <2>4, <2>5 DEF openSocket, TypeOK, reactorVars
<1>5. CASE refused \/ connectFails
  <2>1. connector' \in ConnectorRecords
    BY <1>5, ConnectorTyped DEF refused, connectFails
  <2>2. conns' \in [Conns -> ConnectionRecords]
    BY <1>5, <1>me, <1>st, ResetEffect DEF refused, connectFails
  <2>3. open' \in [Fds -> {NoSocket} \cup AnySocket] /\ epoll' \subseteq epoll
    BY <1>5, <1>me, <1>fd, CloseEffect DEF refused, connectFails
  <2> QED
    BY <1>5, <2>1, <2>2, <2>3 DEF refused, connectFails, TypeOK
<1>6. CASE initSucceeds
  <2>1. connector' \in ConnectorRecords
    BY <1>6, ConnectorTyped DEF initSucceeds
  <2>2. conns' \in [Conns -> ConnectionRecords]
    BY <1>6, <1>me, <1>st, <1>fd, <1>k DEF initSucceeds, ConnectionRecords
  <2>3. tasks' \in Seq(Conns)
    BY <1>6, <1>me DEF initSucceeds, TypeOK
  <2> QED
    BY <1>6, <2>1, <2>2, <2>3 DEF initSucceeds, TypeOK, reactorVars
<1>7. CASE epollWait \/ batchDone \/ tasksDone \/ \E e \in batch : staleEvent(e)
  BY <1>7 DEF epollWait, batchDone, tasksDone, staleEvent, connectorVars, TypeOK
<1>8. CASE sessionDead
  <2> DEFINE c == rx.conn
  <2>1. c \in Conns /\ conns[c].sessionFd \in Fds
    BY <1>8, Numbers DEF sessionDead, TypeOK, ConnectionRecords, Ownership, EventsFollowContexts,
       NumbersFollowState
  <2>2. fdContexts' \in [Fds -> SUBSET Conns] /\ epoll' \subseteq epoll
    BY <1>8, <2>1, UnregisterEffect DEF sessionDead
  <2>3. conns' \in [Conns -> ConnectionRecords]
    BY <1>8, <2>1, <1>st, <1>k DEF sessionDead, ConnectionRecords
  <2>4. rx' \in [pc : {"wait", "batch", "dead", "tasks"}, conn : Conns]
    BY <1>8 DEF sessionDead, TypeOK
  <2> QED
    BY <1>8, <2>2, <2>3, <2>4 DEF sessionDead, TypeOK, connectorVars
<1>9. CASE onConnectionEstablished \/ registerFails
  <2> DEFINE c == Head(tasks)
  <2>1. /\ c \in Conns /\ Tail(tasks) \in Seq(Conns)
        /\ c = tasks[1] /\ 1 \in DOMAIN tasks
    BY <1>9 DEF onConnectionEstablished, registerFails, TypeOK
  <2>2. conns[c].sessionFd \in Fds /\ open[conns[c].sessionFd] \in AnySocket
    <3>1. conns[c].st = "posted"
      BY <2>1 DEF Ownership, TasksPosted
    <3>2. conns[c].fd \in Fds /\ conns[c].sessionFd = conns[c].fd
      BY <2>1, <3>1, <1>fd DEF Ownership, NumbersFollowState
    <3>3. open[conns[c].fd] = conns[c].sock /\ conns[c].sock # NoSocket
      BY <2>1, <3>2, Numbers DEF Ownership, SocketsHeld
    <3> QED
      BY <2>1, <3>2, <3>3 DEF TypeOK
  <2> HIDE DEF c
  <2>3. CASE onConnectionEstablished
    <3>1. fdContexts' \in [Fds -> SUBSET Conns] /\ epoll' \subseteq Events
      BY <2>1, <2>2, <2>3 DEF onConnectionEstablished, registerFd, TypeOK, Events, c
    <3>2. conns' \in [Conns -> ConnectionRecords]
      BY <2>1, <2>3, <1>st, <1>k DEF onConnectionEstablished, ConnectionRecords, c
    <3> QED
      BY <2>1, <2>3, <3>1, <3>2 DEF onConnectionEstablished, TypeOK
  <2>4. CASE registerFails
    <3>1. conns' \in [Conns -> ConnectionRecords]
      BY <2>1, <2>4, <1>st, ResetEffect DEF registerFails, c
    <3>2. open' \in [Fds -> {NoSocket} \cup AnySocket] /\ epoll' \subseteq epoll
      BY <2>1, <2>4, <1>fd, CloseEffect DEF registerFails, c
    <3> QED
      BY <2>1, <2>4, <3>1, <3>2 DEF registerFails, TypeOK
  <2> QED
    BY <1>9, <2>3, <2>4
<1>10. ASSUME NEW e \in batch, NEW c \in Conns,
              harmless(e, c) \/ readFails(e, c) \/ protocolError(e, c) \/ writeFails(e, c)
       PROVE  TypeOK'
  <2>1. called' \in [conn : Conns, sock : {NoSocket} \cup AnySocket] /\ batch' \subseteq Events
    BY <1>10 DEF harmless, readFails, protocolError, writeFails, fdEvent, TypeOK, Events
  <2>2. CASE harmless(e, c) \/ protocolError(e, c)
    BY <2>1, <2>2 DEF harmless, protocolError, TypeOK, connectorVars
  <2>3. CASE readFails(e, c) \/ writeFails(e, c)
    <3>1. conns' \in [Conns -> ConnectionRecords]
      BY <2>3, <1>st, ResetEffect DEF readFails, writeFails
    <3>2. open' \in [Fds -> {NoSocket} \cup AnySocket] /\ epoll' \subseteq epoll
      BY <2>3, <1>fd, CloseEffect DEF readFails, writeFails
    <3>3. rx' \in [pc : {"wait", "batch", "dead", "tasks"}, conn : Conns]
      BY <2>3 DEF readFails, writeFails, TypeOK
    <3> QED
      BY <2>1, <2>3, <3>1, <3>2, <3>3 DEF readFails, writeFails, TypeOK, connectorVars
  <2> QED
    BY <1>10, <2>2, <2>3
<1>11. ASSUME NEW c \in Conns, closeOnReactor(c) \/ removeDead(c) PROVE TypeOK'
  <2>1. CASE closeOnReactor(c)
    <3>1. conns[c].sessionFd \in Fds
      BY <2>1, Numbers DEF closeOnReactor, Ownership, NumbersFollowState, TypeOK, ConnectionRecords
    <3>2. fdContexts' \in [Fds -> SUBSET Conns] /\ epoll' \subseteq epoll
      BY <2>1, <3>1, UnregisterEffect DEF closeOnReactor
    <3>3. conns' \in [Conns -> ConnectionRecords]
      BY <2>1, <1>st, <1>k DEF closeOnReactor, ConnectionRecords
    <3>4. open' \in [Fds -> {NoSocket} \cup AnySocket]
      BY <2>1, <1>fd DEF closeOnReactor, TypeOK
    <3> QED
      BY <2>1, <3>2, <3>3, <3>4 DEF closeOnReactor, TypeOK, connectorVars
  <2>2. CASE removeDead(c)
    <3>1. conns' \in [Conns -> ConnectionRecords]
      BY <2>2, <1>st, ResetEffect DEF removeDead
    <3>2. open' \in [Fds -> {NoSocket} \cup AnySocket] /\ epoll' \subseteq epoll
      BY <2>2, <1>fd, CloseEffect DEF removeDead
    <3> QED
      BY <2>2, <3>1, <3>2 DEF removeDead, TypeOK, connectorVars
  <2> QED
    BY <1>11, <2>1, <2>2
<1>12. CASE UNCHANGED vars
  BY <1>12 DEF vars, TypeOK
<1> QED
  BY <1>1, <1>2, <1>3, <1>4, <1>5, <1>6, <1>7, <1>8, <1>9, <1>10, <1>11, <1>12
     DEF Next, Connect, React

\* Closing one connection's socket takes nothing from the others: they hold
\* other numbers, and epoll goes on watching them.
LEMMA ClosingSparesOthers ==
    ASSUME TypeOK, SocketsHeld, NEW c \in Conns, NEW st \in ConnectionStates,
           closeSocket(conns[c].fd), reset(c, st)
    PROVE  /\ SocketsHeld'
           /\ \A e \in epoll' : \A d \in Conns :
                 conns[d].fd = e.fd /\ e.sock = conns[d].sock =>
                    d # c /\ conns'[d] = conns[d]
<1>1. conns[c].fd \in {INVALID_SOCKET} \cup Fds
  BY DEF TypeOK, ConnectionRecords
<1>2. /\ \A m \in Fds : open'[m] = IF m = conns[c].fd THEN NoSocket ELSE open[m]
      /\ epoll' \subseteq epoll
      /\ conns[c].fd \in Fds => \A e \in epoll' : e.sock # open[conns[c].fd]
  BY <1>1, CloseEffect
<1>3. /\ \A d \in Conns : d # c => conns'[d] = conns[d]
      /\ conns'[c].fd = INVALID_SOCKET /\ conns'[c].sock = conns[c].sock
  BY ResetEffect
<1>4. \A d \in Conns : conns[d].fd \in {INVALID_SOCKET} \cup Fds
  BY DEF TypeOK, ConnectionRecords
<1>5. \A d \in Conns : d # c /\ conns[d].fd # INVALID_SOCKET => conns[d].fd # conns[c].fd
  BY SocketFacts DEF SocketsHeld
<1>6. SocketsHeld'
  <2>1. \A d \in Conns : conns'[d].sock \in {NoSocket} \cup SocketsOf(d)
    BY <1>3 DEF SocketsHeld
  <2>2. ASSUME NEW d \in Conns, conns'[d].fd # INVALID_SOCKET
        PROVE  conns'[d].sock # NoSocket /\ open'[conns'[d].fd] = conns'[d].sock
    BY <1>2, <1>3, <1>4, <1>5, <2>2 DEF SocketsHeld
  <2>3. ASSUME NEW n \in Fds, open'[n] # NoSocket
        PROVE  \E d \in Conns : conns'[d].fd = n
    <3>1. n # conns[c].fd /\ open[n] # NoSocket
      BY <1>2, <2>3
    <3>2. PICK d \in Conns : conns[d].fd = n
      BY <3>1 DEF SocketsHeld
    <3> QED
      BY <1>3, <3>1, <3>2
  <2> QED
    BY <2>1, <2>2, <2>3 DEF SocketsHeld
<1>7. ASSUME NEW e \in epoll', NEW d \in Conns, conns[d].fd = e.fd, e.sock = conns[d].sock
      PROVE  d # c /\ conns'[d] = conns[d]
  <2>1. e \in epoll /\ e.fd \in Fds
    BY <1>2 DEF TypeOK, Events
  <2>2. d # c
    BY <1>2, <1>7, <2>1, Numbers DEF SocketsHeld
  <2> QED
    BY <1>3, <2>2
<1> QED
  BY <1>6, <1>7

\* The reactor thread does not see what the connector thread does to a
\* connection that has no context yet.
LEMMA ConnectingApart ==
    ASSUME TypeOK, ContextsFollowState, EventsFollowContexts, NEW c \in Conns,
           \A d \in Conns : d # c => conns'[d] = conns[d],
           conns'[c].st \notin {"pooled", "zombie"},
           \A n \in Fds : c \notin fdContexts[n],
           called.sock # NoSocket => called.conn # c,
           rx.pc = "dead" => rx.conn # c,
           epoll' \subseteq epoll,
           UNCHANGED <<fdContexts, rx, batch, called>>
    PROVE  ContextsFollowState' /\ EventsFollowContexts'
<1>1. /\ \A n \in Fds : fdContexts[n] \subseteq Conns
      /\ \A e \in epoll \cup batch : e.fd \in Fds
      /\ called.conn \in Conns /\ rx.conn \in Conns
  BY DEF TypeOK, Events
<1>2. ContextsFollowState'
  <2>1. ASSUME NEW d \in Conns, conns'[d].st \in {"pooled", "zombie"}
        PROVE  fdContexts'[conns'[d].sessionFd] = {d}
    <3>1. d # c /\ conns'[d] = conns[d]
      BY <2>1
    <3> QED
      BY <2>1, <3>1 DEF ContextsFollowState
  <2>2. ASSUME NEW n \in Fds, NEW d \in fdContexts'[n]
        PROVE  conns'[d].st \in {"pooled", "zombie"} /\ conns'[d].sessionFd = n
    <3>1. d \in Conns /\ d \in fdContexts[n] /\ d # c
      BY <2>2, <1>1
    <3>2. conns'[d] = conns[d]
      BY <3>1
    <3> QED
      BY <3>1, <3>2 DEF ContextsFollowState
  <2> QED
    BY <2>1, <2>2 DEF ContextsFollowState
<1>3. ASSUME NEW e \in epoll'
      PROVE  \E d \in Conns : d \in fdContexts'[e.fd] /\ conns'[d].fd = e.fd
                              /\ e.sock = conns'[d].sock
  <2>1. PICK d \in Conns : d \in fdContexts[e.fd] /\ conns[d].fd = e.fd /\ e.sock = conns[d].sock
    BY <1>3 DEF EventsFollowContexts
  <2>2. d # c
    BY <1>1, <1>3, <2>1
  <2> QED
    BY <2>1, <2>2
<1>4. ASSUME NEW e \in batch', NEW d \in fdContexts'[e.fd] PROVE e.sock = conns'[d].sock
  <2>1. d \in Conns /\ d # c /\ d \in fdContexts[e.fd] /\ e \in batch
    BY <1>1, <1>4
  <2>2. conns'[d] = conns[d]
    BY <2>1
  <2> QED
    BY <2>1, <2>2 DEF EventsFollowContexts
<1>5. /\ rx'.pc \in {"wait", "tasks"} => batch' = {}
      /\ rx'.pc = "dead" => conns'[rx'.conn].st = "pooled"
      /\ called'.sock # NoSocket =>
            /\ conns'[called'.conn].st \notin {"none", "connecting"}
            /\ called'.sock = conns'[called'.conn].sock
  BY <1>1 DEF EventsFollowContexts
<1> QED
  BY <1>2, <1>3, <1>4, <1>5 DEF EventsFollowContexts

\* The connector thread's steps keep every descriptor owned.
LEMMA ConnectKeepsOwnership == TypeOK /\ Ownership /\ Connect => Ownership'
<1> SUFFICES ASSUME TypeOK, Ownership, Connect PROVE Ownership'
  OBVIOUS
<1>me. me \in Conns /\ me = connector.conn /\ connector.addr \in Nat
  BY DEF me, TypeOK, ConnectorRecords
<1>k. connector \in ConnectorRecords /\ conns \in [Conns -> ConnectionRecords]
  BY DEF TypeOK
<1>fd. \A c \in Conns : conns[c].fd \in {INVALID_SOCKET} \cup Fds
  BY <1>k DEF ConnectionRecords
<1>own. OneConnecting /\ NumbersFollowState /\ SocketsHeld /\ ContextsFollowState
        /\ EventsFollowContexts /\ TasksPosted
  BY DEF Ownership
<1>st. \A st \in {"none", "connecting", "posted", "pooled", "zombie", "dead", "gone"} :
          st \in ConnectionStates
  BY DEF ConnectionStates
\* A context, an event still to be handled and the last handler called are of
\* connections that are past connecting.
<1>past. /\ connector.pc # "idle" =>
               /\ conns[me].st = "connecting"
               /\ \A n \in Fds : me \notin fdContexts[n]
               /\ \A i \in DOMAIN tasks : tasks[i] # me
               /\ called.sock # NoSocket => called.conn # me
               /\ rx.pc = "dead" => rx.conn # me
         /\ conns[me].st = "none" =>
               /\ \A n \in Fds : me \notin fdContexts[n]
               /\ \A i \in DOMAIN tasks : tasks[i] # me
               /\ called.sock # NoSocket => called.conn # me
               /\ rx.pc = "dead" => rx.conn # me
  BY <1>own, <1>me DEF OneConnecting, ContextsFollowState, EventsFollowContexts, TasksPosted
<1>1. CASE getaddrinfo \/ connectGivesUp \/ noSocket \/ tick \/ interrupted \/ pollReturns
  <2>1. /\ UNCHANGED <<open, conns, tasks, epoll, fdContexts, rx, batch, called>>
        /\ connector'.conn = connector.conn
        /\ connector.pc # "idle" /\ connector'.pc # "idle"
        /\ connector'.pc \in {"poll", "connected", "refused"}
              <=> connector.pc \in {"poll", "connected", "refused"}
    BY <1>1, <1>k DEF getaddrinfo, connectGivesUp, noSocket, tick, interrupted, pollReturns,
       reactorVars, Go, NextAddress, TryAddress, ConnectorRecords
  <2>2. OneConnecting'
    BY <2>1, <1>own DEF OneConnecting, me
  <2> QED
    BY <2>1, <2>2, <1>own DEF Ownership, NumbersFollowState, SocketsHeld, ContextsFollowState,
       EventsFollowContexts, TasksPosted
<1>2. CASE connectorTakes
  <2>1. /\ UNCHANGED <<open, tasks, epoll, fdContexts, rx, batch, called>>
        /\ connector.pc = "idle" /\ connector'.pc = "resolve"
        /\ connector'.conn = connector.conn
    BY <1>2, <1>k DEF connectorTakes, reactorVars, ConnectorRecords
  <2>2. /\ \A d \in Conns : d # me => conns'[d] = conns[d]
        /\ conns[me].st = "none" /\ conns'[me].st = "connecting" /\ conns'[me].fd = conns[me].fd
        /\ conns'[me].sock = conns[me].sock
    BY <1>2, <1>k, <1>me DEF connectorTakes, ConnectionRecords
  <2>3. OneConnecting' /\ NumbersFollowState'
    BY <2>1, <2>2, <1>own, <1>me DEF OneConnecting, NumbersFollowState, me
  <2>4. SocketsHeld'
    BY <2>1, <2>2, <1>own, <1>me DEF SocketsHeld
  <2>5. ContextsFollowState' /\ EventsFollowContexts'
    BY <2>1, <2>2, <1>own, <1>me, <1>past, ConnectingApart
  <2>7. TasksPosted'
    BY <2>1, <2>2, <1>own, <1>me, <1>past DEF TasksPosted, TypeOK
  <2> QED
    BY <2>3, <2>4, <2>5, <2>7 DEF Ownership
<1>3. CASE openSocket
  <2> DEFINE n == Min(Free)
             s == <<me, connector.addr>>
  <2>1. n \in Fds /\ open[n] = NoSocket
    BY <1>3, LowestFree DEF openSocket, Free
  <2>s. s \in SocketsOf(me) /\ s # NoSocket
    BY <1>me, SocketFacts
  <2>2. /\ UNCHANGED <<tasks, epoll, fdContexts, rx, batch, called>>
        /\ connector.pc = "next" /\ connector'.pc \in {"poll", "connected", "refused"}
        /\ connector'.conn = connector.conn
    BY <1>3, <1>k DEF openSocket, TryAddress, Go, reactorVars, ConnectorRecords
  <2>3. /\ open' = [open EXCEPT ![n] = s]
        /\ conns' = [conns EXCEPT ![me].fd = n, ![me].sock = s]
    BY <1>3 DEF openSocket
  <2> HIDE DEF n, s
  <2>4. /\ \A d \in Conns : d # me => conns'[d] = conns[d]
        /\ conns'[me].st = "connecting" /\ conns'[me].fd = n /\ conns'[me].sock = s
    BY <2>2, <2>3, <1>k, <1>me, <1>past DEF ConnectionRecords
  <2>5. \A m \in Fds : open'[m] = IF m = n THEN s ELSE open[m]
    BY <2>1, <2>3 DEF TypeOK
  <2>6. OneConnecting' /\ NumbersFollowState'
    BY <2>1, <2>2, <2>4, <1>own, <1>me, Numbers DEF OneConnecting, NumbersFollowState, me
  <2>7. SocketsHeld'
    <3>1. \A d \in Conns : conns[d].fd # INVALID_SOCKET => conns[d].fd # n
      BY <2>1, <1>own DEF SocketsHeld
    <3>2. conns[me].fd = INVALID_SOCKET
      BY <2>2, <1>own DEF OneConnecting
    <3>3. ASSUME NEW m \in Fds, open'[m] # NoSocket PROVE \E d \in Conns : conns'[d].fd = m
      <4>1. CASE m = n
        BY <4>1, <2>4, <1>me
      <4>2. CASE m # n
        <5>1. PICK d \in Conns : conns[d].fd = m
          BY <4>2, <3>3, <2>5, <1>own DEF SocketsHeld
        <5>2. d # me
          BY <5>1, <3>2, Numbers
        <5> QED
          BY <5>1, <5>2, <2>4
      <4> QED
        BY <4>1, <4>2
    <3>4. ASSUME NEW d \in Conns, conns'[d].fd # INVALID_SOCKET
          PROVE  conns'[d].sock # NoSocket /\ open'[conns'[d].fd] = conns'[d].sock
      BY <3>4, <3>1, <2>1, <2>4, <2>5, <2>s, <1>own, <1>fd DEF SocketsHeld
    <3>5. \A d \in Conns : conns'[d].sock \in {NoSocket} \cup SocketsOf(d)
      BY <2>4, <2>s, <1>own DEF SocketsHeld
    <3> QED
      BY <3>3, <3>4, <3>5 DEF SocketsHeld
  <2>8. ContextsFollowState' /\ EventsFollowContexts'
    BY <2>2, <2>4, <1>own, <1>me, <1>past, ConnectingApart
  <2>10. TasksPosted'
    BY <2>2, <2>4, <1>own, <1>me, <1>past DEF TasksPosted, TypeOK
  <2> QED
    BY <2>6, <2>7, <2>8, <2>10 DEF Ownership
<1>4. CASE refused \/ connectFails
  <2>1. /\ closeSocket(conns[me].fd)
        /\ UNCHANGED <<tasks, fdContexts, rx, batch, called>>
        /\ connector.pc # "idle"
    BY <1>4 DEF refused, connectFails
  <2>2. PICK st \in {"connecting", "gone"} :
           /\ reset(me, st)
           /\ st = "connecting" => connector'.pc = "next" /\ connector'.conn = me
           /\ st = "gone" => connector'.pc = "idle"
    BY <1>4, <1>k, <1>me DEF refused, connectFails, NextAddress, Idle, ConnectorRecords
  <2>3. /\ \A d \in Conns : d # me => conns'[d] = conns[d]
        /\ conns'[me].st = st /\ conns'[me].fd = INVALID_SOCKET
        /\ conns'[me].sock = conns[me].sock
    BY <2>2, <1>me, <1>st, ResetEffect
  <2>4. SocketsHeld'
    BY <2>1, <2>2, <1>me, <1>st, <1>own, ClosingSparesOthers
  <2>5. epoll' \subseteq epoll
    BY <2>1, <1>me, <1>fd, CloseEffect
  <2>6. OneConnecting' /\ NumbersFollowState'
    BY <2>1, <2>2, <2>3, <1>own, <1>me, <1>past, Numbers DEF OneConnecting, NumbersFollowState, me
  <2>8. ContextsFollowState' /\ EventsFollowContexts'
    BY <2>1, <2>2, <2>3, <2>5, <1>own, <1>me, <1>past, ConnectingApart
  <2>10. TasksPosted'
    BY <2>1, <2>3, <1>own, <1>me, <1>past DEF TasksPosted, TypeOK
  <2> QED
    BY <2>4, <2>6, <2>8, <2>10 DEF Ownership
<1>5. CASE initSucceeds
  <2>1. /\ UNCHANGED <<open, epoll, fdContexts, rx, batch, called>>
        /\ connector.pc = "connected" /\ connector'.pc = "idle"
        /\ tasks' = Append(tasks, me)
    BY <1>5, <1>k DEF initSucceeds, reactorVars, Idle, ConnectorRecords
  <2>2. /\ \A d \in Conns : d # me => conns'[d] = conns[d]
        /\ conns'[me].st = "posted" /\ conns'[me].fd = conns[me].fd
        /\ conns'[me].sock = conns[me].sock /\ conns'[me].sessionFd = conns[me].fd
    BY <1>5, <1>k, <1>me DEF initSucceeds, ConnectionRecords
  <2>3. OneConnecting' /\ NumbersFollowState'
    BY <2>1, <2>2, <1>own, <1>me, <1>past DEF OneConnecting, NumbersFollowState, me
  <2>4. SocketsHeld'
    BY <2>1, <2>2, <1>own, <1>me DEF SocketsHeld
  <2>5. ContextsFollowState' /\ EventsFollowContexts'
    BY <2>1, <2>2, <1>own, <1>me, <1>past, ConnectingApart
  <2>7. TasksPosted'
    <3>1. /\ Len(tasks) \in Nat /\ DOMAIN tasks = 1 .. Len(tasks)
          /\ DOMAIN tasks' = 1 .. (Len(tasks) + 1)
          /\ \A i \in DOMAIN tasks : tasks'[i] = tasks[i] /\ tasks[i] \in Conns
          /\ tasks'[Len(tasks) + 1] = me
      BY <2>1, <1>me DEF TypeOK
    <3>2. \A i \in DOMAIN tasks' : i \in DOMAIN tasks \/ i = Len(tasks) + 1
      BY <3>1
    <3> QED
      BY <3>1, <3>2, <2>1, <2>2, <1>own, <1>past, <1>me DEF TasksPosted
  <2> QED
    BY <2>3, <2>4, <2>5, <2>7 DEF Ownership
<1> QED
  BY <1>1, <1>2, <1>3, <1>4, <1>5 DEF Connect

\* The reactor thread's steps keep every descriptor owned.
LEMMA ReactKeepsOwnership == TypeOK /\ Ownership /\ React => Ownership'
<1> SUFFICES ASSUME TypeOK, Ownership, React PROVE Ownership'
  OBVIOUS
<1>k. /\ conns \in [Conns -> ConnectionRecords] /\ rx.conn \in Conns /\ called.conn \in Conns
      /\ \A n \in Fds : fdContexts[n] \subseteq Conns
      /\ \A e \in epoll \cup batch : e.fd \in Fds /\ e.sock \in AnySocket
      /\ rx.pc \in {"wait", "batch", "dead", "tasks"}
      /\ \A i \in DOMAIN tasks : tasks[i] \in Conns
  BY DEF TypeOK, Events
<1>fd. \A c \in Conns : conns[c].fd \in {INVALID_SOCKET} \cup Fds
                        /\ conns[c].sessionFd \in {INVALID_SOCKET} \cup Fds
  BY <1>k DEF ConnectionRecords
<1>own. OneConnecting /\ NumbersFollowState /\ SocketsHeld /\ ContextsFollowState
        /\ EventsFollowContexts /\ TasksPosted
  BY DEF Ownership
<1>st. \A st \in {"none", "connecting", "posted", "pooled", "zombie", "dead", "gone"} :
          st \in ConnectionStates
  BY DEF ConnectionStates
<1>me. connector.conn \in Conns /\ me = connector.conn
  BY DEF TypeOK, ConnectorRecords, me
<1>1. CASE epollWait \/ batchDone \/ tasksDone \/ \E e \in batch : staleEvent(e)
  <2>1. /\ UNCHANGED <<open, epoll, fdContexts, conns, connector, tasks, called>>
        /\ rx.pc # "dead" /\ rx'.pc # "dead"
        /\ batch' \subseteq batch \cup epoll
        /\ rx'.pc \in {"wait", "tasks"} => batch' = {}
    <3>1. CASE epollWait
      BY <3>1 DEF epollWait, connectorVars, TypeOK
    <3>2. CASE batchDone \/ tasksDone
      BY <3>2, <1>own DEF batchDone, tasksDone, connectorVars, EventsFollowContexts, TypeOK
    <3>3. CASE \E e \in batch : staleEvent(e)
      BY <3>3 DEF staleEvent, connectorVars, TypeOK
    <3> QED
      BY <1>1, <3>1, <3>2, <3>3
  <2>2. OneConnecting' /\ SocketsHeld' /\ ContextsFollowState' /\ TasksPosted'
    BY <2>1, <1>own DEF OneConnecting, SocketsHeld, ContextsFollowState, TasksPosted, me
  <2>3. NumbersFollowState'
    BY <2>1, <1>own DEF NumbersFollowState
  <2>4. EventsFollowContexts'
    <3>1. \A e \in epoll : \A c \in fdContexts[e.fd] : e.sock = conns[c].sock
      BY <1>own, <1>k DEF EventsFollowContexts, ContextsFollowState
    <3> QED
      BY <2>1, <3>1, <1>own DEF EventsFollowContexts
  <2> QED
    BY <2>2, <2>3, <2>4 DEF Ownership
<1>2. CASE sessionDead
  <2> DEFINE c == rx.conn
             n == conns[c].sessionFd
  <2>1. c \in Conns /\ conns[c].st = "pooled" /\ n \in Fds /\ fdContexts[n] = {c}
    BY <1>2, <1>k, <1>own, <1>fd, Numbers
       DEF sessionDead, EventsFollowContexts, NumbersFollowState, ContextsFollowState
  <2>2. /\ \A m \in Fds : fdContexts'[m] = IF m = n THEN {} ELSE fdContexts[m]
        /\ epoll' \subseteq epoll
        /\ \A e \in epoll' : ~(e.fd = n /\ e.sock = open[n])
    BY <1>2, <2>1, UnregisterEffect DEF sessionDead
  <2>3. /\ UNCHANGED <<open, connector, tasks, batch, called>>
        /\ rx.pc = "dead" /\ rx'.pc = "batch"
    BY <1>2 DEF sessionDead, connectorVars, TypeOK
  <2>4. /\ \A d \in Conns : d # c => conns'[d] = conns[d]
        /\ conns'[c].st = "dead" /\ conns'[c].fd = conns[c].fd /\ conns'[c].sock = conns[c].sock
    BY <1>2, <2>1, <1>k DEF sessionDead, ConnectionRecords
  <2> HIDE DEF c, n
  <2>5. OneConnecting'
    BY <2>1, <2>3, <2>4, <1>own, <1>me DEF OneConnecting, me
  <2>6. NumbersFollowState'
    BY <2>1, <2>3, <2>4, <1>own DEF NumbersFollowState, c
  <2>7. SocketsHeld'
    BY <2>1, <2>3, <2>4, <1>own DEF SocketsHeld
  <2>8. ContextsFollowState'
    <3>1. \A d \in Conns : d # c /\ conns[d].st \in {"pooled", "zombie"} => conns[d].sessionFd # n
      BY <2>1, <1>own DEF ContextsFollowState
    <3>2. \A d \in Conns : conns[d].st \in {"pooled", "zombie"} => conns[d].sessionFd \in Fds
      BY <1>own, <1>fd DEF NumbersFollowState
    <3>3. \A m \in Fds : c \in fdContexts[m] => m = n
      BY <1>own DEF ContextsFollowState, n
    <3> QED
      BY <2>1, <2>2, <2>4, <3>1, <3>2, <3>3, <1>own, <1>k DEF ContextsFollowState
  <2>9. EventsFollowContexts'
    <3>1. ASSUME NEW e \in epoll'
          PROVE  \E d \in Conns : d \in fdContexts'[e.fd] /\ conns'[d].fd = e.fd
                                  /\ e.sock = conns'[d].sock
      <4>1. PICK d \in Conns : d \in fdContexts[e.fd] /\ conns[d].fd = e.fd /\ e.sock = conns[d].sock
        BY <2>2, <1>own DEF EventsFollowContexts
      <4>2. e.fd \in Fds /\ open[e.fd] = e.sock
        BY <4>1, <2>2, <1>k, <1>own, Numbers DEF SocketsHeld
      <4>3. e.fd # n
        BY <4>2, <2>2
      <4> QED
        BY <4>1, <4>2, <4>3, <2>1, <2>2, <2>4
    <3>2. \A e \in batch' : \A d \in fdContexts'[e.fd] : e.sock = conns'[d].sock
      BY <2>2, <2>3, <2>4, <1>own, <1>k DEF EventsFollowContexts
    <3> QED
      BY <3>1, <3>2, <2>1, <2>3, <2>4, <1>own, <1>k DEF EventsFollowContexts
  <2>10. TasksPosted'
    BY <2>1, <2>3, <2>4, <1>own, <1>k DEF TasksPosted
  <2> QED
    BY <2>5, <2>6, <2>7, <2>8, <2>9, <2>10 DEF Ownership
<1>3. ASSUME NEW c \in Conns, closeOnReactor(c) PROVE Ownership'
  <2> DEFINE n == conns[c].sessionFd
  <2>1. /\ conns[c].st \in {"pooled", "zombie"} /\ rx.pc \in {"batch", "tasks"}
        /\ n \in Fds /\ fdContexts[n] = {c}
        /\ conns[c].fd = n \/ conns[c].fd = INVALID_SOCKET
    BY <1>3, <1>own, <1>fd DEF closeOnReactor, NumbersFollowState, ContextsFollowState
  <2>2. /\ \A m \in Fds : fdContexts'[m] = IF m = n THEN {} ELSE fdContexts[m]
        /\ epoll' \subseteq epoll
        /\ \A e \in epoll' : ~(e.fd = n /\ e.sock = open[n])
    BY <1>3, <2>1, UnregisterEffect DEF closeOnReactor
  <2>3. UNCHANGED <<connector, tasks, rx, batch, called>>
    BY <1>3 DEF closeOnReactor, connectorVars
  <2>4. /\ \A d \in Conns : d # c => conns'[d] = conns[d]
        /\ conns'[c].st = "dead" /\ conns'[c].fd = INVALID_SOCKET
        /\ conns'[c].sock = conns[c].sock
    BY <1>3, <1>k DEF closeOnReactor, ConnectionRecords
  <2>5. \A m \in Fds : open'[m] = IF m = conns[c].fd THEN NoSocket ELSE open[m]
    BY <1>3, <1>fd, Numbers DEF closeOnReactor, TypeOK
  <2> HIDE DEF n
  <2>6. OneConnecting'
    BY <2>1, <2>3, <2>4, <1>own, <1>me DEF OneConnecting, me
  <2>7. NumbersFollowState'
    BY <2>1, <2>3, <2>4, <1>own DEF NumbersFollowState
  <2>8. SocketsHeld'
    <3>1. \A d \in Conns : d # c /\ conns[d].fd # INVALID_SOCKET => conns[d].fd # conns[c].fd
      BY <1>own, SocketFacts DEF SocketsHeld
    <3>2. ASSUME NEW m \in Fds, open'[m] # NoSocket PROVE \E d \in Conns : conns'[d].fd = m
      <4>1. m # conns[c].fd /\ open[m] # NoSocket
        BY <2>5, <3>2
      <4>2. PICK d \in Conns : conns[d].fd = m
        BY <4>1, <1>own DEF SocketsHeld
      <4> QED
        BY <4>1, <4>2, <2>4
    <3>3. ASSUME NEW d \in Conns, conns'[d].fd # INVALID_SOCKET
          PROVE  conns'[d].sock # NoSocket /\ open'[conns'[d].fd] = conns'[d].sock
      BY <3>1, <3>3, <2>4, <2>5, <1>own, <1>fd DEF SocketsHeld
    <3>4. \A d \in Conns : conns'[d].sock \in {NoSocket} \cup SocketsOf(d)
      BY <2>4, <1>own DEF SocketsHeld
    <3> QED
      BY <3>2, <3>3, <3>4 DEF SocketsHeld
  <2>9. ContextsFollowState'
    <3>1. \A d \in Conns : d # c /\ conns[d].st \in {"pooled", "zombie"} => conns[d].sessionFd # n
      BY <2>1, <1>own DEF ContextsFollowState
    <3>2. \A d \in Conns : conns[d].st \in {"pooled", "zombie"} => conns[d].sessionFd \in Fds
      BY <1>own, <1>fd DEF NumbersFollowState
    <3>3. \A m \in Fds : c \in fdContexts[m] => m = n
      BY <1>own DEF ContextsFollowState, n
    <3> QED
      BY <2>1, <2>2, <2>4, <3>1, <3>2, <3>3, <1>own, <1>k DEF ContextsFollowState
  <2>10. EventsFollowContexts'
    <3>1. ASSUME NEW e \in epoll'
          PROVE  \E d \in Conns : d \in fdContexts'[e.fd] /\ conns'[d].fd = e.fd
                                  /\ e.sock = conns'[d].sock
      <4>1. PICK d \in Conns : d \in fdContexts[e.fd] /\ conns[d].fd = e.fd /\ e.sock = conns[d].sock
        BY <2>2, <1>own DEF EventsFollowContexts
      <4>2. e.fd \in Fds /\ open[e.fd] = e.sock
        BY <4>1, <2>2, <1>k, <1>own, Numbers DEF SocketsHeld
      <4>3. e.fd # n
        BY <4>2, <2>2
      <4>4. d # c
        BY <4>1, <4>2, <4>3, <2>1, Numbers
      <4> QED
        BY <4>1, <4>2, <4>3, <4>4, <2>2, <2>4
    <3>2. \A e \in batch' : \A d \in fdContexts'[e.fd] : e.sock = conns'[d].sock
      BY <2>2, <2>3, <2>4, <1>own, <1>k DEF EventsFollowContexts
    <3> QED
      BY <3>1, <3>2, <2>1, <2>3, <2>4, <1>own, <1>k DEF EventsFollowContexts
  <2>11. TasksPosted'
    BY <2>1, <2>3, <2>4, <1>own, <1>k DEF TasksPosted
  <2> QED
    BY <2>6, <2>7, <2>8, <2>9, <2>10, <2>11 DEF Ownership
<1>4. ASSUME NEW e \in batch, NEW c \in Conns, harmless(e, c) \/ protocolError(e, c)
      PROVE  Ownership'
  <2>1. /\ UNCHANGED <<open, epoll, fdContexts, conns, connector, tasks>>
        /\ rx.pc = "batch" /\ batch' \subseteq batch
        /\ c \in fdContexts[e.fd]
        /\ called'.conn = c /\ called'.sock = e.sock
        /\ \/ rx'.pc = "batch"
           \/ rx'.pc = "dead" /\ rx'.conn = c /\ conns[c].st = "pooled"
    BY <1>4 DEF harmless, protocolError, fdEvent, connectorVars
  <2>2. OneConnecting' /\ SocketsHeld' /\ ContextsFollowState' /\ TasksPosted'
    BY <2>1, <1>own DEF OneConnecting, SocketsHeld, ContextsFollowState, TasksPosted, me
  <2>3. NumbersFollowState'
    BY <2>1, <1>own DEF NumbersFollowState
  <2>4. EventsFollowContexts'
    <3>1. conns[c].st \in {"pooled", "zombie"} /\ e.sock = conns[c].sock
      BY <2>1, <1>own, <1>k DEF ContextsFollowState, EventsFollowContexts
    <3> QED
      BY <2>1, <3>1, <1>own DEF EventsFollowContexts
  <2> QED
    BY <2>2, <2>3, <2>4 DEF Ownership
<1>5. ASSUME NEW e \in batch, NEW c \in Conns, readFails(e, c) \/ writeFails(e, c)
      PROVE  Ownership'
  <2>1. /\ UNCHANGED <<fdContexts, connector, tasks>>
        /\ rx.pc = "batch" /\ batch' \subseteq batch
        /\ c \in fdContexts[e.fd] /\ conns[c].st = "pooled"
        /\ called'.conn = c /\ called'.sock = e.sock
        /\ closeSocket(conns[c].fd)
    BY <1>5 DEF readFails, writeFails, fdEvent, connectorVars
  <2>2. PICK st \in {"pooled", "zombie"} :
           /\ reset(c, st)
           /\ st = "pooled" => rx'.pc = "dead" /\ rx'.conn = c
           /\ st = "zombie" => rx' = rx
    BY <1>5 DEF readFails, writeFails
  <2>3. /\ \A d \in Conns : d # c => conns'[d] = conns[d]
        /\ conns'[c].st = st /\ conns'[c].fd = INVALID_SOCKET
        /\ conns'[c].sessionFd = conns[c].sessionFd /\ conns'[c].sock = conns[c].sock
    BY <2>2, <1>st, ResetEffect
  <2>4. /\ SocketsHeld'
        /\ \A f \in epoll' : \A d \in Conns :
              conns[d].fd = f.fd /\ f.sock = conns[d].sock => d # c /\ conns'[d] = conns[d]
    BY <2>1, <2>2, <1>st, <1>own, ClosingSparesOthers
  <2>5. epoll' \subseteq epoll
    BY <2>1, <1>fd, CloseEffect
  <2>6. OneConnecting'
    BY <2>1, <2>2, <2>3, <1>own, <1>me DEF OneConnecting, me
  <2>7. NumbersFollowState'
    BY <2>1, <2>2, <2>3, <1>own DEF NumbersFollowState
  <2>8. ContextsFollowState'
    BY <2>1, <2>2, <2>3, <1>own, <1>k DEF ContextsFollowState
  <2>9. EventsFollowContexts'
    <3>1. \A f \in epoll' : \E d \in Conns :
             d \in fdContexts'[f.fd] /\ conns'[d].fd = f.fd /\ f.sock = conns'[d].sock
      BY <2>1, <2>4, <2>5, <1>own DEF EventsFollowContexts
    <3>2. \A f \in batch' : \A d \in fdContexts'[f.fd] : f.sock = conns'[d].sock
      BY <2>1, <2>3, <1>own, <1>k DEF EventsFollowContexts
    <3>3. e.sock = conns[c].sock
      BY <2>1, <1>own DEF EventsFollowContexts
    <3> QED
      BY <3>1, <3>2, <3>3, <2>1, <2>2, <2>3 DEF EventsFollowContexts
  <2>10. TasksPosted'
    BY <2>1, <2>3, <1>own, <1>k DEF TasksPosted
  <2> QED
    BY <2>4, <2>6, <2>7, <2>8, <2>9, <2>10 DEF Ownership
<1>6. ASSUME NEW c \in Conns, conns[c].st \in {"posted", "dead"}, rx.pc = "tasks",
             closeSocket(conns[c].fd), reset(c, "gone"),
             UNCHANGED <<fdContexts, connector, rx, batch, called>>
      PROVE  OneConnecting' /\ NumbersFollowState' /\ SocketsHeld' /\ ContextsFollowState'
             /\ EventsFollowContexts' /\ (\A d \in Conns : d # c => conns'[d] = conns[d])
  <2>1. /\ \A d \in Conns : d # c => conns'[d] = conns[d]
        /\ conns'[c].st = "gone" /\ conns'[c].fd = INVALID_SOCKET
        /\ conns'[c].sessionFd = conns[c].sessionFd /\ conns'[c].sock = conns[c].sock
    BY <1>6, <1>st, ResetEffect
  <2>2. /\ SocketsHeld'
        /\ \A f \in epoll' : \A d \in Conns :
              conns[d].fd = f.fd /\ f.sock = conns[d].sock => d # c /\ conns'[d] = conns[d]
    BY <1>6, <1>st, <1>own, ClosingSparesOthers
  <2>3. epoll' \subseteq epoll
    BY <1>6, <1>fd, CloseEffect
  <2>4. OneConnecting'
    BY <1>6, <2>1, <1>own, <1>me DEF OneConnecting, me
  <2>5. NumbersFollowState'
    BY <1>6, <2>1, <1>own DEF NumbersFollowState
  <2>6. ContextsFollowState'
    BY <1>6, <2>1, <1>own, <1>k DEF ContextsFollowState
  <2>7. EventsFollowContexts'
    <3>1. \A f \in epoll' : \E d \in Conns :
             d \in fdContexts'[f.fd] /\ conns'[d].fd = f.fd /\ f.sock = conns'[d].sock
      BY <1>6, <2>2, <2>3, <1>own DEF EventsFollowContexts
    <3> QED
      BY <3>1, <1>6, <2>1, <1>own, <1>k DEF EventsFollowContexts
  <2> QED
    BY <2>1, <2>2, <2>4, <2>5, <2>6, <2>7
<1>7. ASSUME NEW c \in Conns, removeDead(c) PROVE Ownership'
  <2>1. /\ conns[c].st = "dead" /\ UNCHANGED tasks
        /\ OneConnecting' /\ NumbersFollowState' /\ SocketsHeld' /\ ContextsFollowState'
        /\ EventsFollowContexts' /\ (\A d \in Conns : d # c => conns'[d] = conns[d])
    BY <1>7, <1>6 DEF removeDead, connectorVars
  <2>2. TasksPosted'
    BY <2>1, <1>own, <1>k DEF TasksPosted
  <2> QED
    BY <2>1, <2>2 DEF Ownership
\* The first task is run and leaves the queue.
<1>8. ASSUME tasks # <<>>, tasks' = Tail(tasks)
      PROVE  /\ Head(tasks) \in Conns /\ conns[Head(tasks)].st = "posted"
             /\ (\A d \in Conns : d # Head(tasks) => conns'[d] = conns[d]) => TasksPosted'
  <2>1. /\ Len(tasks) \in Nat \ {0} /\ DOMAIN tasks = 1 .. Len(tasks)
        /\ DOMAIN tasks' = 1 .. (Len(tasks) - 1)
        /\ \A i \in DOMAIN tasks' : tasks'[i] = tasks[i + 1] /\ i + 1 \in DOMAIN tasks
        /\ Head(tasks) = tasks[1] /\ 1 \in DOMAIN tasks
    BY <1>8 DEF TypeOK
  <2>2. \A i \in DOMAIN tasks' : i \in Nat /\ i + 1 # 1
    BY <2>1
  <2>3. \A i \in DOMAIN tasks' : tasks'[i] # Head(tasks)
    BY <2>1, <2>2, <1>own DEF TasksPosted
  <2>4. \A i, j \in DOMAIN tasks' : tasks'[i] = tasks'[j] => i = j
    BY <2>1, <2>2, <1>own DEF TasksPosted
  <2> QED
    BY <2>1, <2>3, <2>4, <1>own, <1>k DEF TasksPosted
<1>9. CASE registerFails
  <2>1. tasks # <<>> /\ tasks' = Tail(tasks)
    BY <1>9 DEF registerFails
  <2>2. Head(tasks) \in Conns /\ conns[Head(tasks)].st = "posted"
    BY <2>1, <1>8
  <2>3. /\ OneConnecting' /\ NumbersFollowState' /\ SocketsHeld' /\ ContextsFollowState'
        /\ EventsFollowContexts' /\ (\A d \in Conns : d # Head(tasks) => conns'[d] = conns[d])
    BY <1>9, <2>2, <1>6 DEF registerFails, MayRun
  <2> QED
    BY <2>1, <2>3, <1>8 DEF Ownership
<1>10. CASE onConnectionEstablished
  <2> DEFINE c == Head(tasks)
             n == conns[c].sessionFd
  <2>1. /\ tasks # <<>> /\ tasks' = Tail(tasks) /\ rx.pc = "tasks"
        /\ UNCHANGED <<open, connector, rx, batch, called>>
    BY <1>10 DEF onConnectionEstablished, MayRun
  <2>2. c \in Conns /\ conns[c].st = "posted"
    BY <2>1, <1>8
  <2>3. n \in Fds /\ conns[c].fd = n /\ open[n] = conns[c].sock
    BY <2>2, <1>own, <1>fd DEF NumbersFollowState, SocketsHeld
  <2>4. /\ fdContexts[n] = {} /\ fdContexts' = [fdContexts EXCEPT ![n] = {c}]
        /\ epoll' = epoll \cup {[fd |-> n, sock |-> open[n]]}
        /\ conns' = [conns EXCEPT ![c].st = "pooled"]
    BY <1>10 DEF onConnectionEstablished, registerFd
  <2> HIDE DEF c, n
  <2>5. \A m \in Fds : fdContexts'[m] = IF m = n THEN {c} ELSE fdContexts[m]
    BY <2>3, <2>4 DEF TypeOK
  <2>6. /\ \A d \in Conns : d # c => conns'[d] = conns[d]
        /\ conns'[c].st = "pooled" /\ conns'[c].fd = n /\ conns'[c].sock = conns[c].sock
        /\ conns'[c].sessionFd = n
    BY <2>2, <2>3, <2>4, <1>k DEF ConnectionRecords, n
  <2>7. OneConnecting'
    BY <2>1, <2>2, <2>6, <1>own, <1>me DEF OneConnecting, me
  <2>8. NumbersFollowState'
    BY <2>1, <2>2, <2>3, <2>6, <1>own, Numbers DEF NumbersFollowState
  <2>9. SocketsHeld'
    BY <2>1, <2>2, <2>3, <2>6, <1>own DEF SocketsHeld
  <2>10. ContextsFollowState'
    <3>1. \A m \in Fds : c \notin fdContexts[m]
      BY <2>2, <1>own DEF ContextsFollowState
    <3>2. \A d \in Conns : conns[d].st \in {"pooled", "zombie"} =>
             conns[d].sessionFd \in Fds /\ conns[d].sessionFd # n
      BY <2>4, <1>own, <1>fd DEF NumbersFollowState, ContextsFollowState
    <3> QED
      BY <2>2, <2>3, <2>5, <2>6, <3>1, <3>2, <1>own, <1>k DEF ContextsFollowState
  <2>11. EventsFollowContexts'
    <3>1. ASSUME NEW e \in epoll'
          PROVE  \E d \in Conns : d \in fdContexts'[e.fd] /\ conns'[d].fd = e.fd
                                  /\ e.sock = conns'[d].sock
      <4>1. CASE e \in epoll
        <5>1. PICK d \in Conns : d \in fdContexts[e.fd] /\ conns[d].fd = e.fd
                                 /\ e.sock = conns[d].sock
          BY <4>1, <1>own DEF EventsFollowContexts
        <5>2. e.fd \in Fds /\ e.fd # n /\ d # c
          BY <4>1, <5>1, <2>2, <2>4, <1>k, <1>own DEF ContextsFollowState
        <5> QED
          BY <5>1, <5>2, <2>5, <2>6
      <4>2. CASE e = [fd |-> n, sock |-> open[n]]
        BY <4>2, <2>2, <2>3, <2>5, <2>6
      <4> QED
        BY <4>1, <4>2, <2>4
    <3>2. /\ batch' = {} /\ rx'.pc = "tasks"
          /\ called'.sock # NoSocket =>
                /\ conns'[called'.conn].st \notin {"none", "connecting"}
                /\ called'.sock = conns'[called'.conn].sock
      BY <2>1, <2>2, <2>6, <1>own, <1>k DEF EventsFollowContexts
    <3> QED
      BY <3>1, <3>2 DEF EventsFollowContexts
  <2>12. TasksPosted'
    BY <2>1, <2>6, <1>8 DEF c
  <2> QED
    BY <2>7, <2>8, <2>9, <2>10, <2>11, <2>12 DEF Ownership
<1> QED
  BY <1>1, <1>2, <1>3, <1>4, <1>5, <1>7, <1>9, <1>10 DEF React

\* The invariant holds in every reachable state.
THEOREM SocketsInvariant == Spec => []IInv
<1>1. IInv /\ [Next]_vars => IInv'
  <2> SUFFICES ASSUME IInv, [Next]_vars PROVE IInv'
    OBVIOUS
  <2>1. TypeOK /\ Ownership /\ TimeLeft
    BY DEF IInv
  <2>2. TypeOK' /\ TimeLeft'
    BY <2>1, TypePreserved, TimePreserved
  <2>3. ASSUME Next PROVE Ownership'
    BY <2>1, <2>3, ConnectKeepsOwnership, ReactKeepsOwnership DEF Next
  <2>4. ASSUME UNCHANGED vars PROVE Ownership'
    BY <2>1, <2>4 DEF vars, Ownership, OneConnecting, NumbersFollowState, SocketsHeld,
       ContextsFollowState, EventsFollowContexts, TasksPosted, me
  <2>5. Ownership'
    BY <2>3, <2>4
  <2> QED
    BY <2>2, <2>5 DEF IInv
<1> QED
  BY InitEstablishes, <1>1, PTL DEF Spec

\* HandlerOwnsSocket, DescriptorsOwned and ConnectBounded follow from the invariant.
LEMMA InvariantImplies == IInv => HandlerOwnsSocket /\ DescriptorsOwned /\ ConnectBounded
<1> SUFFICES ASSUME IInv PROVE HandlerOwnsSocket /\ DescriptorsOwned /\ ConnectBounded
  OBVIOUS
<1>1. TypeOK /\ NumbersFollowState /\ SocketsHeld /\ ContextsFollowState /\ EventsFollowContexts
      /\ TimeLeft
  BY DEF IInv, Ownership
<1>2. HandlerOwnsSocket
  BY <1>1 DEF HandlerOwnsSocket, EventsFollowContexts
<1>3. ASSUME NEW n \in Fds, open[n] # NoSocket
      PROVE  Cardinality({c \in Conns : conns[c].fd = n /\ conns[c].st \notin {"none", "gone"}}) = 1
  <2>1. PICK c \in Conns : conns[c].fd = n
    BY <1>1, <1>3 DEF SocketsHeld
  <2>2. conns[c].st \notin {"none", "gone"}
    BY <1>1, <2>1, Numbers DEF NumbersFollowState
  <2>3. \A d \in Conns : conns[d].fd = n => d = c
    BY <1>1, <2>1, Numbers, SocketFacts DEF SocketsHeld
  <2>4. {d \in Conns : conns[d].fd = n /\ conns[d].st \notin {"none", "gone"}} = {c}
    BY <2>1, <2>2, <2>3
  <2> QED
    BY <2>4, FS_Singleton
<1>4. \A c \in Conns : conns[c].fd # INVALID_SOCKET => open[conns[c].fd] = conns[c].sock
  BY <1>1 DEF SocketsHeld
<1>5. \A e \in epoll : fdContexts[e.fd] # {} /\ open[e.fd] = e.sock
  <2> SUFFICES ASSUME NEW e \in epoll PROVE fdContexts[e.fd] # {} /\ open[e.fd] = e.sock
    OBVIOUS
  <2>1. PICK c \in Conns : c \in fdContexts[e.fd] /\ conns[c].fd = e.fd /\ e.sock = conns[c].sock
    BY <1>1 DEF EventsFollowContexts
  <2>2. e.fd # INVALID_SOCKET
    BY <1>1, Numbers DEF TypeOK, Events
  <2> QED
    BY <2>1, <2>2, <1>4
<1>6. ConnectBounded
  <2>1. /\ connector.spent \in Nat /\ connector.left \in Nat /\ connector.signals \in Nat
        /\ Timeout \in Nat
    BY <1>1, SocketsAssumption DEF TypeOK, ConnectorRecords
  <2> DEFINE limit == Timeout * (1 + connector.signals)
  <2>2. limit \in Nat /\ connector.spent + connector.left <= limit
    BY <1>1, <2>1 DEF TimeLeft
  <2> HIDE DEF limit
  <2>3. connector.spent <= limit
    BY <2>1, <2>2
  <2> QED
    BY <2>3 DEF ConnectBounded, limit
<1> QED
  BY <1>2, <1>3, <1>4, <1>5, <1>6 DEF DescriptorsOwned

\* An event of epoll is handled by the connection whose socket it was for
\* (handleFdEvent looks the number up again), for any number of connections
\* and descriptors.
THEOREM EventsReachTheirOwner == Spec => []HandlerOwnsSocket
BY SocketsInvariant, InvariantImplies, PTL

\* No path of connectDomain, of a failed registration or of closing a
\* connection leaks a descriptor, closes one twice or closes another's.
THEOREM DescriptorsStayOwned == Spec => []DescriptorsOwned
BY SocketsInvariant, InvariantImplies, PTL

\* The poll()s of connectDomain together last no longer than connectTimeoutMs,
\* but for a signal, for every limit and number of addresses.
THEOREM ConnectingEnds == Spec => []ConnectBounded
BY SocketsInvariant, InvariantImplies, PTL
=============================================================================
