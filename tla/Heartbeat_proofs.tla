--------------------------- MODULE Heartbeat_proofs ---------------------------
(***************************************************************************)
(* The heartbeat's timers are known, run while they should and end with    *)
(* the connection, for every interval and timeout (the first part, about   *)
(* Heartbeat).  On the reactor's timer queue (the second part, about       *)
(* TimedHeartbeat) the timerfd is armed for every timer that waits, no     *)
(* cancelled handler is called, and the Connection runs as Heartbeat says. *)
(***************************************************************************)
EXTENDS TimedHeartbeat, DataLemmas, SequenceTheorems

\* Which of the two timers is armed follows from pendingPing, and neither is
\* before registration or after the connection has ended.
TimersFollowPing ==
    /\ pingTimerId # 0 => ~pendingPing
    /\ pingTimeoutTimerId # 0 => pendingPing
    /\ timers \cap due = {}
    /\ object = "new" \/ ~connected =>
          pingTimerId = 0 /\ pingTimeoutTimerId = 0 /\ ~pendingPing

IInv == TypeOK /\ TimersKnown /\ HeartBeats /\ NoLateHandler /\ TimersFollowPing

\* A new Connection has no timers.
LEMMA InitEstablishes == Init => IInv
<1> SUFFICES ASSUME Init PROVE IInv
  OBVIOUS
<1> USE DEF Init
<1>1. KnownTimers = {}
  BY DEF KnownTimers
<1>2. TypeOK
  BY DEF TypeOK, Handlers
<1> QED
  BY <1>1, <1>2 DEF IInv, TimersKnown, HeartBeats, NoLateHandler, TimersFollowPing

\* The known timers, one by one.
LEMMA KnownTimersAre ==
    ASSUME pingTimerId = 0 \/ pingTimeoutTimerId = 0
    PROVE  KnownTimers =
             IF pingTimerId # 0 THEN {[id |-> pingTimerId, handler |-> "onPingTimer"]}
             ELSE IF pingTimeoutTimerId # 0
                  THEN {[id |-> pingTimeoutTimerId, handler |-> "onPingTimeout"]}
                  ELSE {}
BY DEF KnownTimers

\* Every step of the connection and of the reactor keeps the invariant.
LEMMA NextPreserves == IInv /\ [Next]_vars => IInv'
<1> SUFFICES ASSUME IInv, [Next]_vars PROVE IInv'
  OBVIOUS
<1> USE HeartbeatAssumption
<1> USE DEF IInv, TypeOK, TimersKnown, HeartBeats, NoLateHandler, TimersFollowPing, Handlers
<1>once. timers \cap due = {}
  OBVIOUS
<1>known. KnownTimers =
             IF pingTimerId # 0 THEN {[id |-> pingTimerId, handler |-> "onPingTimer"]}
             ELSE IF pingTimeoutTimerId # 0
                  THEN {[id |-> pingTimeoutTimerId, handler |-> "onPingTimeout"]}
                  ELSE {}
  BY KnownTimersAre
<1>known2. ASSUME (pingTimerId = 0 \/ pingTimeoutTimerId = 0)'
           PROVE  KnownTimers' =
             IF pingTimerId' # 0 THEN {[id |-> pingTimerId', handler |-> "onPingTimer"]}
             ELSE IF pingTimeoutTimerId' # 0
                  THEN {[id |-> pingTimeoutTimerId', handler |-> "onPingTimeout"]}
                  ELSE {}
  BY <1>known2 DEF KnownTimers
<1>1. CASE \E id \in Ids : registerWithReactor(id)
  <2>0. PICK id \in Ids : registerWithReactor(id)
    BY <1>1
  <2>id. id \in Ids /\ id # 0 /\ id # pingTimerId /\ id # pingTimeoutTimerId
    BY <2>0 DEF registerWithReactor, Fresh
  <2>1. timers = {} /\ due = {} /\ ~pendingPing /\ pingTimerId = 0 /\ pingTimeoutTimerId = 0
    BY <2>0, <1>known DEF registerWithReactor
  <2>2. CASE PingInterval = 0 \/ ~connected
    BY <2>0, <2>1, <2>2, <1>known, <1>known2 DEF registerWithReactor, schedulePingTimer
  <2>3. CASE ~(PingInterval = 0 \/ ~connected)
    <3>1. /\ timers' = {[id |-> id, handler |-> "onPingTimer"]} /\ due' = {}
          /\ pingTimerId' = id /\ pingTimeoutTimerId' = 0 /\ pendingPing' = FALSE
          /\ object' = "alive" /\ connected' = connected /\ streams' = streams /\ peer' = peer
      BY <2>0, <2>1, <2>3 DEF registerWithReactor, schedulePingTimer, scheduleOnce
    <3>2. TimersKnown'
      BY <3>1, <2>id, <1>known2
    <3>b. connected' \in BOOLEAN /\ pendingPing' \in BOOLEAN
      BY <3>1, Zenon
    <3>3. TypeOK'
      BY <3>1, <3>b, <2>id
    <3> QED
      BY <3>1, <3>2, <3>3, <2>3, <2>id
  <2> QED
    BY <2>2, <2>3
<1>2. CASE \E id \in Ids : onPingTimer(id)
  <2>0. PICK id \in Ids : onPingTimer(id)
    BY <1>2
  <2>id. id \in Ids /\ id # 0 /\ id # pingTimerId /\ id # pingTimeoutTimerId
    BY <2>0 DEF onPingTimer, Fresh
  <2>1. PICK t \in due : t.handler = "onPingTimer" /\ due' = due \ {t}
    BY <2>0 DEF onPingTimer, Called
  <2>2. /\ pingTimerId # 0 /\ pingTimeoutTimerId = 0 /\ ~pendingPing
        /\ connected /\ object = "alive"
    BY <2>1, <1>known
  <2>3. timers \cup due = {t}
    BY <2>1, <2>2, <1>known
  <2>4. due' = {} /\ timers = {}
    <3>1. timers = {}
      BY <2>2, <2>3, <2>1, <1>once
    <3> QED
      BY <2>3, <2>1, <3>1
  <2>5. UNCHANGED <<object, connected, streams, peer>>
    BY <2>0 DEF onPingTimer
  <2>6. CASE streams > 0
    <3>1. UNCHANGED <<pendingPing, pingTimeoutTimerId>>
      BY <2>0, <2>2, <2>6 DEF onPingTimer
    <3>2. CASE PingInterval = 0
      BY <2>0, <2>2, <2>4, <2>5, <2>6, <3>1, <3>2, <1>known2 DEF onPingTimer, schedulePingTimer
    <3>3. CASE PingInterval # 0
      <4>1. timers' = {[id |-> id, handler |-> "onPingTimer"]} /\ pingTimerId' = id
        BY <2>0, <2>2, <2>4, <2>6, <3>3 DEF onPingTimer, schedulePingTimer, scheduleOnce
      <4>2. TimersKnown'
        BY <4>1, <3>1, <2>2, <2>4, <2>id, <1>known2
      <4> QED
        BY <4>1, <4>2, <3>1, <2>2, <2>4, <2>5, <2>id
    <3> QED
      BY <3>2, <3>3
  <2>7. CASE ~(streams > 0)
    <3>1. pingTimerId' = 0 /\ sendPing(id)
      BY <2>0, <2>2, <2>7 DEF onPingTimer
    <3>2. CASE PingTimeout > 0
      <4>1. /\ timers' = {[id |-> id, handler |-> "onPingTimeout"]}
            /\ pingTimeoutTimerId' = id /\ pendingPing' = TRUE
        BY <3>1, <3>2, <2>4 DEF sendPing, scheduleOnce
      <4>2. TimersKnown'
        BY <4>1, <3>1, <2>4, <2>id, <1>known2
      <4> QED
        BY <4>1, <4>2, <3>1, <2>2, <2>4, <2>5, <2>id
    <3>3. CASE ~(PingTimeout > 0)
      BY <3>1, <3>3, <2>2, <2>4, <2>5, <1>known2 DEF sendPing
    <3> QED
      BY <3>2, <3>3
  <2> QED
    BY <2>6, <2>7
<1>3. CASE onPingTimeout
  <2>1. PICK t \in due : t.handler = "onPingTimeout" /\ due' = due \ {t}
    BY <1>3 DEF onPingTimeout, Called
  <2>2. /\ pingTimerId = 0 /\ pingTimeoutTimerId # 0 /\ pendingPing
        /\ connected /\ object = "alive"
    BY <2>1, <1>known
  <2>3. timers \cup due = {t}
    BY <2>1, <2>2, <1>known
  <2>4. timers = {}
    BY <2>3, <2>1, <1>once
  <2>5. due' = {}
    BY <2>3, <2>1
  <2>6. cancelTimers({pingTimerId, pingTimeoutTimerId}) = {}
    BY <2>4 DEF cancelTimers
  <2>7. /\ timers' = {} /\ pingTimerId' = 0 /\ pingTimeoutTimerId' = 0 /\ pendingPing' = FALSE
        /\ connected' = FALSE /\ streams' = 0 /\ object' = "alive" /\ peer' = peer
    BY <1>3, <2>2, <2>6 DEF onPingTimeout, cancelPingTimers
  <2>8. TimersKnown'
    BY <2>5, <2>7, <1>known2
  <2> QED
    BY <2>5, <2>7, <2>8
<1>4. CASE \E S \in SUBSET timers : fireDueTimers(S)
  <2>1. PICK S \in SUBSET timers : fireDueTimers(S)
    BY <1>4
  <2>2. /\ due = {} /\ S # {} /\ timers' = timers \ S /\ due' = S
        /\ UNCHANGED <<connVars, peer>> /\ object = "alive"
    BY <2>1 DEF fireDueTimers, Between
  <2>3. timers' \cup due' = timers \cup due
    BY <2>2
  <2>4. KnownTimers' = KnownTimers
    BY <2>2 DEF KnownTimers, connVars
  <2>5. timers' \cap due' = {}
    BY <2>2
  <2> QED
    BY <2>2, <2>3, <2>4, <2>5 DEF connVars
<1>5. CASE \E id \in Ids : pingAck(id)
  <2>0. PICK id \in Ids : pingAck(id)
    BY <1>5
  <2>id. id \in Ids /\ id # 0 /\ id # pingTimerId /\ id # pingTimeoutTimerId
    BY <2>0 DEF pingAck, Fresh
  <2>1. UNCHANGED <<object, connected, streams, due, peer>> /\ connected /\ due = {}
        /\ object = "alive"
    BY <2>0 DEF pingAck, Between
  <2>2. CASE ~pendingPing
    <3>1. UNCHANGED <<pendingPing, pingTimeoutTimerId, pingTimerId, timers>>
      BY <2>0, <2>2 DEF pingAck
    <3>2. KnownTimers' = KnownTimers
      BY <3>1 DEF KnownTimers
    <3> QED
      BY <2>1, <3>1, <3>2
  <2>3. CASE pendingPing
    <3>1. pingTimerId = 0
      BY <2>3
    <3>2. cancelTimers({pingTimeoutTimerId}) = {}
      BY <3>1, <2>1, <1>known DEF cancelTimers
    <3>3. pendingPing' = FALSE /\ pingTimeoutTimerId' = 0
      BY <2>0, <2>3 DEF pingAck
    <3>b. connected' \in BOOLEAN /\ pendingPing' \in BOOLEAN
      BY <2>1, <3>3, Zenon
    <3>4. CASE PingInterval = 0
      <4>1. timers' = {} /\ pingTimerId' = 0
        BY <2>0, <2>3, <3>1, <3>2, <3>4 DEF pingAck, schedulePingTimer
      <4>2. TimersKnown'
        BY <4>1, <3>3, <2>1, <1>known2
      <4>3. TypeOK'
        BY <4>1, <3>3, <3>b, <2>1
      <4> QED
        BY <4>1, <4>2, <4>3, <3>3, <3>4, <2>1
    <3>5. CASE PingInterval # 0
      <4>1. timers' = {[id |-> id, handler |-> "onPingTimer"]} /\ pingTimerId' = id
        BY <2>0, <2>1, <2>3, <3>2, <3>5 DEF pingAck, schedulePingTimer, scheduleOnce
      <4>2. TimersKnown'
        BY <4>1, <3>3, <2>1, <2>id, <1>known2
      <4>3. TypeOK'
        BY <4>1, <3>3, <3>b, <2>1, <2>id
      <4> QED
        BY <4>1, <4>2, <4>3, <3>3, <2>1, <2>id
    <3> QED
      BY <3>4, <3>5
  <2> QED
    BY <2>2, <2>3
<1>6. CASE connectionEnds
  <2>1. cancelTimers({pingTimerId, pingTimeoutTimerId}) = {}
    BY <1>known DEF cancelTimers
  <2>2. /\ timers' = {} /\ pingTimerId' = 0 /\ pingTimeoutTimerId' = 0 /\ pendingPing' = FALSE
        /\ connected' = FALSE /\ streams' = 0 /\ object' = "alive" /\ peer' = peer
        /\ due' = {}
    BY <1>6, <2>1 DEF connectionEnds, Between, cancelPingTimers
  <2>3. TimersKnown'
    BY <2>2, <1>known2
  <2> QED
    BY <2>2, <2>3
<1>7. CASE submitOnReactor
  BY <1>7, <1>known, <1>known2 DEF submitOnReactor, Between
<1>8. CASE streamEnds
  BY <1>8, <1>known, <1>known2 DEF streamEnds, Between
<1>9. CASE prune
  BY <1>9, <1>known, <1>known2 DEF prune, Between
<1>10. CASE peerFallsSilent
  BY <1>10, <1>known, <1>known2 DEF peerFallsSilent, connVars
<1>11. CASE UNCHANGED vars
  BY <1>11, <1>known, <1>known2 DEF vars, connVars
<1> QED
  BY <1>1, <1>2, <1>3, <1>4, <1>5, <1>6, <1>7, <1>8, <1>9, <1>10, <1>11 DEF Next

\* The inductive invariant holds in every reachable state.
THEOREM HeartbeatInvariance == Spec => []IInv
<1>1. Init => IInv
  BY InitEstablishes
<1>2. IInv /\ [Next]_vars => IInv'
  BY NextPreserves
<1> QED
  BY <1>1, <1>2, PTL DEF Spec

\* The connection knows the id of every timer of its own that is armed or
\* collected: cancelPingTimers misses none.
THEOREM TimersAlwaysKnown == Spec => []TimersKnown
<1>1. IInv => TimersKnown
  BY DEF IInv
<1> QED
  BY <1>1, HeartbeatInvariance, PTL

\* Whatever ends, postpones or answers a PING leaves the next one scheduled.
THEOREM HeartAlwaysBeats == Spec => []HeartBeats
<1>1. IInv => HeartBeats
  BY DEF IInv
<1> QED
  BY <1>1, HeartbeatInvariance, PTL

\* No timer handler is called on a Connection that has been destroyed.
THEOREM NoHandlerAfterEnd == Spec => []NoLateHandler
<1>1. IInv => NoLateHandler
  BY DEF IInv
<1> QED
  BY <1>1, HeartbeatInvariance, PTL
-----------------------------------------------------------------------------
\* The larger of two numbers
LEMMA MaxOfTwo ==
    ASSUME NEW a \in Nat, NEW b \in Nat
    PROVE  /\ Max({a, b}) = IF a >= b THEN a ELSE b
           /\ T!Max({a, b}) = IF a >= b THEN a ELSE b
<1> DEFINE m == IF a >= b THEN a ELSE b
<1>1. m \in {a, b} /\ \A y \in {a, b} : m >= y
  OBVIOUS
<1>2. \A x \in {a, b} : (\A y \in {a, b} : x >= y) => x = m
  OBVIOUS
<1> QED
  BY <1>1, <1>2 DEF Max, T!Max

\* The front FrontLength measures consists of timers of S and cannot be longer.
LEMMA FrontLengthIs ==
    ASSUME NEW R, NEW q \in Seq(R), NEW S
    PROVE  /\ T!FrontLength(q, S) \in 0 .. Len(q)
           /\ \A i \in 1 .. T!FrontLength(q, S) : q[i] \in S
           /\ T!FrontLength(q, S) < Len(q) => q[T!FrontLength(q, S) + 1] \notin S
<1> DEFINE A == {n \in 0 .. Len(q) : \A i \in 1 .. n : q[i] \in S}
           B == {n \in 1 .. Len(q) : q[n] \notin S}
<1>0. Len(q) \in Nat
  OBVIOUS
<1>1. \E x \in A : \A y \in A : x >= y
  <2>1. CASE B = {}
    <3>1. Len(q) \in A
      BY <1>0, <2>1
    <3> QED
      BY <1>0, <3>1
  <2>2. CASE B # {}
    <3>1. B \subseteq Nat
      BY <1>0
    <3>2. PICK b \in B : \A y \in B : b =< y
      BY <2>2, <3>1, LeastNumber
    <3>3. b - 1 \in A
      BY <1>0, <3>2
    <3>4. ASSUME NEW y \in A PROVE b - 1 >= y
      BY <1>0, <3>2
    <3> QED
      BY <3>3, <3>4
  <2> QED
    BY <2>1, <2>2
<1> DEFINE f == T!FrontLength(q, S)
<1>2. f \in A /\ \A y \in A : f >= y
  BY <1>1 DEF T!FrontLength, T!Max
<1> HIDE DEF f
<1>3. f < Len(q) => q[f + 1] \notin S
  <2> SUFFICES ASSUME f < Len(q), q[f + 1] \in S PROVE FALSE
    OBVIOUS
  <2>1. f + 1 \in A
    BY <1>0, <1>2
  <2> QED
    BY <1>0, <1>2, <2>1
<1> QED
  BY <1>2, <1>3 DEF f

\* A queue holds no id twice and is in the order of its due times.
UniqueIds(q) == \A i, j \in 1 .. Len(q) : q[i].id = q[j].id => i = j
Sorted(q) == \A i, j \in 1 .. Len(q) : i =< j => q[i].due =< q[j].due

\* The loop of fireDueTimers: what one round makes of the handlers so far
PushNext(q, handlers, i) ==
    IF i = 0 THEN <<>>
    ELSE IF q[i].canceled THEN handlers[i - 1] ELSE Append(handlers[i - 1], q[i])

\* The loop has a result after every round.
LEMMA PushedDefined ==
    ASSUME NEW q, NEW n \in Nat
    PROVE  \E f : f = [i \in 0 .. n |-> PushNext(q, f, i)]
<1> DEFINE P(m) == \E f : f = [i \in 0 .. m |-> PushNext(q, f, i)]
           S == {m \in Nat : ~P(m)}
<1>1. SUFFICES S = {}
  OBVIOUS
<1>2. SUFFICES ASSUME S # {} PROVE FALSE
  OBVIOUS
<1>3. PICK m \in S : \A y \in S : m =< y
  BY <1>2, LeastNumber
<1>4. P(0)
  <2> DEFINE f == [i \in 0 .. 0 |-> <<>>]
  <2>1. f = [i \in 0 .. 0 |-> PushNext(q, f, i)]
    BY DEF PushNext
  <2> QED
    BY <2>1
<1>5. m # 0 /\ m \in Nat
  BY <1>3, <1>4
<1>6. m - 1 \in Nat /\ P(m - 1)
  BY <1>3, <1>5
<1>7. PICK f : f = [i \in 0 .. (m - 1) |-> PushNext(q, f, i)]
  BY <1>6
<1> DEFINE g == [i \in 0 .. m |-> IF i = m THEN PushNext(q, f, m) ELSE f[i]]
<1>8. \A i \in 0 .. m : PushNext(q, g, i) = PushNext(q, f, i)
  BY <1>5 DEF PushNext
<1>9. \A i \in 0 .. (m - 1) : f[i] = PushNext(q, f, i)
  BY <1>7
<1>10. \A i \in 0 .. m : g[i] = PushNext(q, g, i)
  BY <1>5, <1>8, <1>9
<1>11. g = [i \in 0 .. m |-> g[i]]
  OBVIOUS
<1> HIDE DEF g
<1>12. g = [i \in 0 .. m |-> PushNext(q, g, i)]
  BY <1>10, <1>11
<1> QED
  BY <1>3, <1>12

\* What fireDueTimers collects of the first n timers: those not cancelled,
\* every one once.
LEMMA PushedAre ==
    ASSUME NEW R, NEW q \in Seq(R), UniqueIds(q), NEW n \in 0 .. Len(q)
    PROVE  /\ T!Pushed(q, n) \in Seq(R) /\ UniqueIds(T!Pushed(q, n))
           /\ T!Items(T!Pushed(q, n)) = {t \in T!Items(SubSeq(q, 1, n)) : ~t.canceled}
<1> DEFINE f == CHOOSE f : f = [i \in 0 .. n |-> PushNext(q, f, i)]
           Front(m) == {t \in R : ~t.canceled /\ \E i \in 1 .. m : t = q[i]}
           P(m) == f[m] \in Seq(R) /\ UniqueIds(f[m]) /\ T!Items(f[m]) = Front(m)
           S == {m \in 0 .. n : ~P(m)}
<1>0. n \in Nat /\ Len(q) \in Nat /\ n =< Len(q) /\ \A i \in 1 .. n : q[i] \in R
  OBVIOUS
<1>1. f = [i \in 0 .. n |-> PushNext(q, f, i)]
  BY <1>0, PushedDefined
<1>2. T!Pushed(q, n) = f[n]
  BY DEF T!Pushed, PushNext
<1> HIDE DEF f
<1>3. \A i \in 0 .. n : f[i] = PushNext(q, f, i)
  BY <1>1
<1>4. P(0)
  <2>1. f[0] = <<>>
    BY <1>0, <1>3 DEF PushNext
  <2>2. <<>> \in Seq(R) /\ Len(<<>>) = 0
    OBVIOUS
  <2> QED
    BY <2>1, <2>2 DEF UniqueIds, T!Items
<1>5. ASSUME NEW m \in 1 .. n, P(m - 1) PROVE P(m)
  <2>1. f[m] = IF q[m].canceled THEN f[m - 1] ELSE Append(f[m - 1], q[m])
    BY <1>0, <1>3 DEF PushNext
  <2>2. CASE q[m].canceled
    BY <1>0, <1>5, <2>1, <2>2
  <2>3. CASE ~q[m].canceled
    <3> DEFINE s == f[m - 1]
               p == Append(s, q[m])
    <3>1. s \in Seq(R) /\ UniqueIds(s) /\ T!Items(s) = Front(m - 1) /\ q[m] \in R
      BY <1>0, <1>5
    <3>2. /\ p \in Seq(R) /\ Len(p) = Len(s) + 1 /\ Len(s) \in Nat
          /\ \A i \in 1 .. Len(s) : p[i] = s[i]
          /\ p[Len(s) + 1] = q[m]
      BY <3>1
    <3> HIDE DEF p, s
    <3>3. \A i \in 1 .. Len(s) : s[i].id # q[m].id
      <4> SUFFICES ASSUME NEW i \in 1 .. Len(s) PROVE s[i].id # q[m].id
        OBVIOUS
      <4>1. s[i] \in Front(m - 1)
        BY <3>1 DEF T!Items
      <4>2. PICK j \in 1 .. (m - 1) : s[i] = q[j]
        BY <4>1
      <4> QED
        BY <1>0, <4>2 DEF UniqueIds
    <3>4. UniqueIds(p)
      BY <3>1, <3>2, <3>3 DEF UniqueIds
    <3>5. T!Items(p) = T!Items(s) \cup {q[m]}
      BY <3>2 DEF T!Items
    <3>6. Front(m) = Front(m - 1) \cup {q[m]}
      BY <2>3, <3>1
    <3> QED
      BY <2>1, <2>3, <3>1, <3>2, <3>4, <3>5, <3>6 DEF p, s
  <2> QED
    BY <2>2, <2>3
<1> HIDE DEF P
<1>6. S = {}
  <2> SUFFICES ASSUME S # {} PROVE FALSE
    OBVIOUS
  <2>1. S \in SUBSET Nat
    BY <1>0
  <2>2. PICK m \in S : \A y \in S : m =< y
    BY <2>1, LeastNumber
  <2>3. m \in 1 .. n
    BY <1>0, <1>4, <2>2
  <2>4. m - 1 \in 0 .. n /\ m - 1 < m
    BY <1>0, <2>3
  <2>5. P(m - 1)
    BY <2>2, <2>4
  <2> QED
    BY <1>5, <2>2, <2>3, <2>5
<1>7. P(n)
  BY <1>0, <1>6
<1>8. Front(n) = {t \in T!Items(SubSeq(q, 1, n)) : ~t.canceled}
  <2>1. Len(SubSeq(q, 1, n)) = n /\ \A i \in 1 .. n : SubSeq(q, 1, n)[i] = q[i]
    BY <1>0
  <2> QED
    BY <1>0, <2>1 DEF T!Items
<1> QED
  BY <1>2, <1>7, <1>8 DEF P

\* What the queue and dueHandlers hold
TimerRecords ==
    [id : Ids, handler : Handlers \cup {"onRequestTimeout"}, due : Nat, canceled : BOOLEAN]

\* A queue in the order of its due times, without an id twice
QueueOK(q) == q \in Seq(TimerRecords) /\ UniqueIds(q) /\ Sorted(q)

\* The timers of a queue that are still to be called
Live(q) == T!Items(q) \ T!Canceled(q)

\* The timerfd fires no later than any timer of the queue is due.
ArmedFor(r) ==
    /\ r.timerFd \subseteq Nat
    /\ \A t \in Live(r.queue) : \E n \in r.timerFd : n =< Max({t.due, Millisecond})

\* The fields of a timer
LEMMA TimerFields ==
    /\ \A t \in TimerRecords :
          /\ t.id \in Ids /\ t.handler \in Handlers \cup {"onRequestTimeout"}
          /\ t.due \in Nat /\ t.canceled \in BOOLEAN
          /\ t = [id |-> t.id, handler |-> t.handler, due |-> t.due, canceled |-> t.canceled]
    /\ \A q : QueueOK(q) => \A i \in 1 .. Len(q) : q[i] \in TimerRecords
<1>1. \A q : QueueOK(q) => \A i \in 1 .. Len(q) : q[i] \in TimerRecords
  BY DEF QueueOK
<1> QED
  BY <1>1 DEF TimerRecords

\* Every timer of a queue is a timer.
LEMMA ItemsTyped ==
    ASSUME NEW q, QueueOK(q)
    PROVE  T!Items(q) \subseteq TimerRecords
BY TimerFields DEF T!Items

\* The elements of a queue, and the live ones
LEMMA LiveIs ==
    ASSUME NEW q
    PROVE  /\ Live(q) = {t \in T!Items(q) : ~t.canceled}
           /\ \A t : t \in T!Items(q) <=> \E i \in 1 .. Len(q) : t = q[i]
BY DEF Live, T!Items, T!Canceled

\* The end of a queue
LEMMA RestOfQueue ==
    ASSUME NEW q, QueueOK(q), NEW n \in 0 .. Len(q)
    PROVE  LET rest == SubSeq(q, n + 1, Len(q))
           IN  /\ QueueOK(rest)
               /\ Len(rest) = Len(q) - n /\ \A i \in 1 .. Len(rest) : rest[i] = q[n + i]
               /\ \A t : t \in T!Items(rest) <=> \E i \in (n + 1) .. Len(q) : t = q[i]
<1> DEFINE rest == SubSeq(q, n + 1, Len(q))
<1>1. q \in Seq(TimerRecords) /\ Len(q) \in Nat /\ n \in Nat /\ n =< Len(q)
  BY DEF QueueOK
<1>2. /\ rest \in Seq(TimerRecords) /\ Len(rest) = Len(q) - n
      /\ \A i \in 1 .. Len(rest) : rest[i] = q[n + i]
  BY <1>1
<1> HIDE DEF rest
<1>3. ASSUME NEW i \in 1 .. Len(rest), NEW j \in 1 .. Len(rest)
      PROVE  /\ rest[i].id = rest[j].id => i = j
             /\ i =< j => rest[i].due =< rest[j].due
  <2>1. n + i \in 1 .. Len(q) /\ n + j \in 1 .. Len(q)
    BY <1>1, <1>2
  <2>2. q[n + i].id = q[n + j].id => n + i = n + j
    BY <2>1 DEF QueueOK, UniqueIds
  <2>3. n + i =< n + j => q[n + i].due =< q[n + j].due
    BY <2>1 DEF QueueOK, Sorted
  <2>4. rest[i] = q[n + i]
    BY <1>2
  <2>5. rest[j] = q[n + j]
    BY <1>2
  <2>6. (n + i = n + j => i = j) /\ (i =< j => n + i =< n + j)
    BY <1>1, <1>2
  <2> QED
    BY <2>2, <2>3, <2>4, <2>5, <2>6
<1>4. UniqueIds(rest) /\ Sorted(rest)
  BY <1>3 DEF UniqueIds, Sorted
<1>5. \A t : t \in T!Items(rest) <=> \E i \in (n + 1) .. Len(q) : t = q[i]
  <2> TAKE t
  <2>1. ASSUME t \in T!Items(rest) PROVE \E i \in (n + 1) .. Len(q) : t = q[i]
    <3>1. PICK i \in 1 .. Len(rest) : t = rest[i]
      BY <2>1 DEF T!Items
    <3> QED
      BY <1>1, <1>2, <3>1
  <2>2. ASSUME NEW i \in (n + 1) .. Len(q), t = q[i] PROVE t \in T!Items(rest)
    <3>1. i - n \in 1 .. Len(rest) /\ rest[i - n] = t
      BY <1>1, <1>2, <2>2
    <3> QED
      BY <3>1 DEF T!Items
  <2> QED
    BY <2>1, <2>2
<1> QED
  BY <1>2, <1>4, <1>5 DEF QueueOK, rest

\* armNextTimerLocked drops cancelled timers only and arms for all the others.
LEMMA Armed ==
    ASSUME NEW q, QueueOK(q)
    PROVE  LET r == T!armNextTimerLocked(q)
           IN  /\ r = [queue |-> r.queue, timerFd |-> r.timerFd]
               /\ QueueOK(r.queue) /\ ArmedFor(r)
               /\ Live(r.queue) = Live(q) /\ T!Items(r.queue) \subseteq T!Items(q)
<1> DEFINE n == T!FrontLength(q, T!Canceled(q))
           rest == SubSeq(q, n + 1, Len(q))
           fd == IF rest = <<>> THEN {} ELSE {T!Max({Head(rest).due, Millisecond})}
<1>0. q \in Seq(TimerRecords) /\ Len(q) \in Nat /\ Millisecond \in Nat
  BY TimedAssumption DEF QueueOK
<1>1. /\ n \in 0 .. Len(q) /\ \A i \in 1 .. n : q[i] \in T!Canceled(q)
  BY <1>0, FrontLengthIs
<1>2. T!armNextTimerLocked(q) = [queue |-> rest, timerFd |-> fd]
  BY DEF T!armNextTimerLocked
<1> HIDE DEF n
<1>3. /\ QueueOK(rest) /\ Len(rest) = Len(q) - n /\ \A i \in 1 .. Len(rest) : rest[i] = q[n + i]
      /\ \A t : t \in T!Items(rest) <=> \E i \in (n + 1) .. Len(q) : t = q[i]
  BY <1>1, RestOfQueue
<1> HIDE DEF rest
<1>4. T!Items(rest) \subseteq T!Items(q)
  BY <1>0, <1>1, <1>3 DEF T!Items
<1>5. Live(rest) = Live(q)
  <2>1. Live(rest) \subseteq Live(q)
    BY <1>4, LiveIs
  <2>2. ASSUME NEW t \in Live(q) PROVE t \in Live(rest)
    <3>1. ~t.canceled /\ \E i \in 1 .. Len(q) : t = q[i]
      BY LiveIs
    <3>2. PICK i \in 1 .. Len(q) : t = q[i]
      BY <3>1
    <3>3. i \notin 1 .. n
      BY <1>1, <3>1, <3>2 DEF T!Canceled
    <3>4. i \in (n + 1) .. Len(q)
      BY <1>0, <1>1, <3>3
    <3> QED
      BY <1>3, <3>1, <3>2, <3>4, LiveIs
  <2> QED
    BY <2>1, <2>2
<1>6. fd \subseteq Nat /\ \A t \in Live(rest) : \E m \in fd : m =< Max({t.due, Millisecond})
  <2>1. CASE rest = <<>>
    <3>1. T!Items(rest) = {}
      BY <2>1 DEF T!Items
    <3> QED
      BY <2>1, <3>1, LiveIs
  <2>2. CASE rest # <<>>
    <3>1. rest \in Seq(TimerRecords) /\ Head(rest) = rest[1] /\ Len(rest) \in Nat /\ 1 =< Len(rest)
      BY <1>3, <2>2 DEF QueueOK
    <3>2. rest[1].due \in Nat
      BY <1>3, <3>1, TimerFields
    <3> DEFINE h == rest[1].due
    <3>3. fd = {IF h >= Millisecond THEN h ELSE Millisecond}
      BY <1>0, <2>2, <3>1, <3>2, MaxOfTwo
    <3>4. ASSUME NEW t \in Live(rest)
          PROVE  (IF h >= Millisecond THEN h ELSE Millisecond) =< Max({t.due, Millisecond})
      <4>1. PICK i \in 1 .. Len(rest) : t = rest[i]
        BY LiveIs
      <4>2. h =< t.due
        BY <1>3, <3>1, <4>1 DEF QueueOK, Sorted
      <4>3. t.due \in Nat
        BY <1>3, <4>1, TimerFields
      <4> QED
        BY <1>0, <3>2, <4>2, <4>3, MaxOfTwo
    <3> QED
      BY <1>0, <3>2, <3>3, <3>4
  <2> QED
    BY <2>1, <2>2
<1> HIDE DEF fd
<1> DEFINE r == T!armNextTimerLocked(q)
<1>7. r = [queue |-> rest, timerFd |-> fd] /\ r.queue = rest /\ r.timerFd = fd
  BY <1>2
<1> HIDE DEF r
<1>8. ArmedFor(r)
  BY <1>6, <1>7 DEF ArmedFor
<1>9. /\ r = [queue |-> r.queue, timerFd |-> r.timerFd]
      /\ QueueOK(r.queue) /\ Live(r.queue) = Live(q) /\ T!Items(r.queue) \subseteq T!Items(q)
  BY <1>3, <1>4, <1>5, <1>7
<1> QED
  BY <1>8, <1>9 DEF r

\* scheduleOnce adds its timer to the live ones.
LEMMA Scheduled ==
    ASSUME NEW r, QueueOK(r.queue), NEW t \in TimerRecords, ~t.canceled,
           \A u \in T!Items(r.queue) : u.id # t.id,
           NEW p \in T!Places(r.queue, t)
    PROVE  LET s == T!scheduleOnce(r, t, p)
           IN  /\ s = [queue |-> s.queue, timerFd |-> s.timerFd]
               /\ QueueOK(s.queue) /\ ArmedFor(s)
               /\ Live(s.queue) = Live(r.queue) \cup {t}
               /\ T!Items(s.queue) \subseteq T!Items(r.queue) \cup {t}
<1> DEFINE q == r.queue
           w == T!InsertAt(q, p, t)
           Old(i) == IF i < p THEN i ELSE i - 1
<1>0. /\ q \in Seq(TimerRecords) /\ UniqueIds(q) /\ Sorted(q) /\ Len(q) \in Nat
      /\ p \in 1 .. (Len(q) + 1)
      /\ \A i \in 1 .. (p - 1) : q[i].due =< t.due
      /\ \A i \in p .. Len(q) : q[i].due >= t.due
      /\ \A i \in 1 .. Len(q) : q[i] \in TimerRecords /\ q[i].id # t.id
  <2>1. \A i \in 1 .. Len(q) : q[i] \in T!Items(q) /\ q[i] \in TimerRecords
    BY TimerFields DEF T!Items
  <2> QED
    BY <2>1 DEF QueueOK, T!Places
<1>d. t.due \in Nat /\ \A i \in 1 .. Len(q) : q[i].due \in Nat
  BY <1>0, TimerFields
<1> HIDE DEF q
<1>1. /\ w \in Seq(TimerRecords) /\ Len(w) = Len(q) + 1
      /\ w[p] = t
      /\ \A i \in 1 .. Len(w) : i # p => w[i] = q[Old(i)] /\ Old(i) \in 1 .. Len(q)
  <2> DEFINE a == SubSeq(q, 1, p - 1)
             b == SubSeq(q, p, Len(q))
  <2>1. /\ a \in Seq(TimerRecords) /\ Len(a) = p - 1 /\ \A i \in 1 .. (p - 1) : a[i] = q[i]
    BY <1>0
  <2>2. /\ b \in Seq(TimerRecords) /\ Len(b) = Len(q) - p + 1
        /\ \A i \in 1 .. (Len(q) - p + 1) : b[i] = q[p + i - 1]
    BY <1>0
  <2>3. w = a \o <<t>> \o b
    BY DEF T!InsertAt
  <2> HIDE DEF a, b, w
  <2>4. /\ a \o <<t>> \in Seq(TimerRecords) /\ Len(a \o <<t>>) = p
        /\ \A i \in 1 .. (p - 1) : (a \o <<t>>)[i] = a[i]
        /\ (a \o <<t>>)[p] = t
    BY <1>0, <2>1
  <2> DEFINE c == a \o <<t>>
  <2> HIDE DEF c
  <2>5. /\ c \o b \in Seq(TimerRecords) /\ Len(c \o b) = Len(q) + 1
        /\ \A i \in 1 .. p : (c \o b)[i] = c[i]
        /\ \A i \in (p + 1) .. (Len(q) + 1) : (c \o b)[i] = b[i - p]
    BY <1>0, <2>2, <2>4 DEF c
  <2>6. w = c \o b
    BY <2>3 DEF c
  <2>7. ASSUME NEW i \in 1 .. (Len(q) + 1), i # p
        PROVE  w[i] = q[Old(i)] /\ Old(i) \in 1 .. Len(q)
    <3>1. CASE i < p
      BY <1>0, <2>1, <2>4, <2>5, <2>6, <3>1 DEF c
    <3>2. CASE i > p
      <4>1. i \in (p + 1) .. (Len(q) + 1) /\ i - p \in 1 .. (Len(q) - p + 1) /\ p + (i - p) - 1 = i - 1
        BY <1>0, <3>2
      <4> QED
        BY <1>0, <2>2, <2>5, <2>6, <3>2, <4>1
    <3> QED
      BY <1>0, <2>7, <3>1, <3>2
  <2> QED
    BY <1>0, <2>4, <2>5, <2>6, <2>7 DEF c
<1> HIDE DEF w
<1>2. ASSUME NEW i \in 1 .. Len(w), NEW j \in 1 .. Len(w)
      PROVE  /\ w[i].id = w[j].id => i = j
             /\ i =< j => w[i].due =< w[j].due
  <2>1. CASE i = p
    <3>1. j # p => w[j].id # t.id
      BY <1>0, <1>1
    <3>2. j > p => t.due =< w[j].due
      <4> SUFFICES ASSUME j > p PROVE t.due =< w[j].due
        OBVIOUS
      <4>1. Old(j) \in p .. Len(q) /\ w[j] = q[Old(j)] /\ Old(j) \in 1 .. Len(q)
        BY <1>0, <1>1
      <4> QED
        BY <1>0, <1>d, <4>1
    <3> QED
      BY <1>0, <1>1, <1>d, <2>1, <3>1, <3>2
  <2>2. CASE j = p
    <3>1. i # p => w[i].id # t.id
      BY <1>0, <1>1
    <3>2. i < p => w[i].due =< t.due
      <4> SUFFICES ASSUME i < p PROVE w[i].due =< t.due
        OBVIOUS
      <4>1. i \in 1 .. (p - 1) /\ w[i] = q[i]
        BY <1>0, <1>1
      <4> QED
        BY <1>0, <4>1
    <3> QED
      BY <1>0, <1>1, <1>d, <2>2, <3>1, <3>2
  <2>3. CASE i # p /\ j # p
    <3>1. /\ Old(i) \in 1 .. Len(q) /\ Old(j) \in 1 .. Len(q)
          /\ w[i] = q[Old(i)] /\ w[j] = q[Old(j)]
      BY <1>1, <2>3
    <3>2. Old(i) = Old(j) => i = j
      BY <1>0, <1>1, <2>3
    <3>3. i =< j => Old(i) =< Old(j)
      BY <1>0, <1>1, <2>3
    <3> HIDE DEF Old
    <3>4. w[i].id = w[j].id => i = j
      BY <1>0, <3>1, <3>2 DEF UniqueIds
    <3> QED
      BY <1>0, <3>1, <3>3, <3>4 DEF Sorted
  <2> QED
    BY <2>1, <2>2, <2>3
<1>3. QueueOK(w)
  BY <1>1, <1>2 DEF QueueOK, UniqueIds, Sorted
<1>4. T!Items(w) = T!Items(q) \cup {t}
  <2>1. ASSUME NEW u \in T!Items(w) PROVE u \in T!Items(q) \cup {t}
    <3>1. PICK i \in 1 .. Len(w) : u = w[i]
      BY DEF T!Items
    <3>2. CASE i = p
      BY <1>1, <3>1, <3>2
    <3>3. CASE i # p
      BY <1>1, <3>1, <3>3 DEF T!Items
    <3> QED
      BY <3>2, <3>3
  <2>2. t \in T!Items(w)
    BY <1>0, <1>1 DEF T!Items
  <2>3. ASSUME NEW u \in T!Items(q) PROVE u \in T!Items(w)
    <3>1. PICK i \in 1 .. Len(q) : u = q[i]
      BY DEF T!Items
    <3> DEFINE j == IF i < p THEN i ELSE i + 1
    <3>2. j \in 1 .. Len(w) /\ j # p /\ Old(j) = i
      BY <1>0, <1>1
    <3>3. w[j] = u
      BY <1>1, <3>1, <3>2
    <3> QED
      BY <3>2, <3>3 DEF T!Items
  <2> QED
    BY <2>1, <2>2, <2>3
<1>5. Live(w) = Live(q) \cup {t}
  BY <1>4, LiveIs
<1>6. T!scheduleOnce(r, t, p) = T!armNextTimerLocked(w)
  BY DEF T!scheduleOnce, w, q
<1> QED
  BY <1>3, <1>4, <1>5, <1>6, Armed DEF q

\* cancelTimer takes its timer from the live ones; in the queue it only sets
\* the flag.
LEMMA Cancelled ==
    ASSUME NEW r, r = [queue |-> r.queue, timerFd |-> r.timerFd], QueueOK(r.queue), NEW id
    PROVE  LET s == T!cancelTimer(r, id)
           IN  /\ s = [queue |-> s.queue, timerFd |-> s.timerFd]
               /\ QueueOK(s.queue) /\ (s = r \/ ArmedFor(s))
               /\ Live(s.queue) = {t \in Live(r.queue) : t.id # id}
               /\ \A t \in T!Items(s.queue) : \E u \in T!Items(r.queue) :
                     /\ t.id = u.id /\ t.handler = u.handler
                     /\ t.canceled <=> u.canceled \/ u.id = id
<1> DEFINE q == r.queue
           w == [i \in 1 .. Len(q) |->
                   IF q[i].id = id THEN [q[i] EXCEPT !.canceled = TRUE] ELSE q[i]]
<1>0. /\ q \in Seq(TimerRecords) /\ UniqueIds(q) /\ Sorted(q) /\ Len(q) \in Nat
      /\ \A i \in 1 .. Len(q) : q[i] \in TimerRecords
  BY TimerFields DEF QueueOK
<1> HIDE DEF q
<1>1. CASE ~T!Holds(r, id)
  <2>1. T!cancelTimer(r, id) = r
    BY <1>1 DEF T!cancelTimer
  <2>2. \A t \in T!Items(q) : t.id # id
    BY <1>1 DEF T!Holds, T!Items, q
  <2>3. Live(q) = {t \in Live(q) : t.id # id}
    BY <2>2, LiveIs
  <2> QED
    BY <2>1, <2>2, <2>3 DEF q
<1>2. CASE T!Holds(r, id)
  <2>1. T!cancelTimer(r, id) = T!armNextTimerLocked(w)
    BY <1>2 DEF T!cancelTimer, q
  <2>2. ASSUME NEW i \in 1 .. Len(q)
        PROVE  /\ w[i] \in TimerRecords /\ w[i].id = q[i].id /\ w[i].due = q[i].due
               /\ w[i].handler = q[i].handler
               /\ w[i].canceled <=> q[i].canceled \/ q[i].id = id
               /\ ~w[i].canceled => w[i] = q[i]
               /\ q[i].id # id => w[i] = q[i]
    <3>1. q[i] \in TimerRecords
      BY <1>0
    <3>2. CASE q[i].id = id
      BY <3>1, <3>2 DEF TimerRecords
    <3>3. CASE q[i].id # id
      BY <3>1, <3>3
    <3> QED
      BY <3>2, <3>3
  <2>3. w \in Seq(TimerRecords) /\ Len(w) = Len(q)
    BY <1>0, <2>2
  <2> HIDE DEF w
  <2>4. QueueOK(w)
    <3>1. UniqueIds(q) /\ Sorted(q)
      BY <1>0 DEF QueueOK
    <3>2. ASSUME NEW i \in 1 .. Len(q), NEW j \in 1 .. Len(q)
          PROVE  /\ w[i].id = w[j].id => i = j
                 /\ i =< j => w[i].due =< w[j].due
      <4>1. w[i].id = q[i].id /\ w[i].due = q[i].due
        BY <2>2
      <4>2. w[j].id = q[j].id /\ w[j].due = q[j].due
        BY <2>2
      <4> QED
        BY <3>1, <4>1, <4>2 DEF UniqueIds, Sorted
    <3> QED
      BY <2>3, <3>2 DEF QueueOK, UniqueIds, Sorted
  <2>5. Live(w) = {t \in Live(q) : t.id # id}
    <3>1. ASSUME NEW t \in Live(w) PROVE t \in Live(q) /\ t.id # id
      <4>1. PICK i \in 1 .. Len(q) : t = w[i]
        BY <2>3, LiveIs
      <4>2. ~t.canceled
        BY LiveIs
      <4> QED
        BY <2>2, <4>1, <4>2, LiveIs
    <3>2. ASSUME NEW t \in Live(q), t.id # id PROVE t \in Live(w)
      <4>1. PICK i \in 1 .. Len(q) : t = q[i]
        BY LiveIs
      <4>2. ~t.canceled
        BY LiveIs
      <4> QED
        BY <2>2, <2>3, <3>2, <4>1, <4>2, LiveIs
    <3> QED
      BY <3>1, <3>2
  <2>6. ASSUME NEW t \in T!Items(w)
        PROVE  \E u \in T!Items(q) : /\ t.id = u.id /\ t.handler = u.handler
                                     /\ t.canceled <=> u.canceled \/ u.id = id
    <3>1. PICK i \in 1 .. Len(q) : t = w[i]
      BY <2>3 DEF T!Items
    <3>2. q[i] \in T!Items(q)
      BY DEF T!Items
    <3> QED
      BY <2>2, <3>1, <3>2
  <2> QED
    BY <2>1, <2>4, <2>5, <2>6, Armed DEF q
<1> QED
  BY <1>1, <1>2

\* fireDueTimers takes due timers out of the live ones, loses none and none
\* twice, and arms for the others.
LEMMA Collected ==
    ASSUME NEW r, QueueOK(r.queue)
    PROVE  LET c == T!dueHandlers(r)
               s == T!popDue(r)
           IN  /\ c \in Seq(TimerRecords) /\ UniqueIds(c)
               /\ s = [queue |-> s.queue, timerFd |-> s.timerFd]
               /\ QueueOK(s.queue) /\ ArmedFor(s)
               /\ T!Items(c) \subseteq Live(r.queue)
               /\ T!Items(s.queue) \subseteq T!Items(r.queue)
               /\ Live(s.queue) = Live(r.queue) \ T!Items(c)
               /\ \A t \in T!Items(c), u \in T!Items(s.queue) : t.id # u.id
<1> DEFINE q == r.queue
           n == T!DueLength(r)
           rest == SubSeq(q, n + 1, Len(q))
           c == T!dueHandlers(r)
           s == T!popDue(r)
<1>0. /\ q \in Seq(TimerRecords) /\ UniqueIds(q) /\ Len(q) \in Nat
  BY DEF QueueOK
<1>1. n \in 0 .. Len(q)
  BY <1>0, FrontLengthIs DEF T!DueLength
<1>2. c = T!Pushed(q, n) /\ s = T!armNextTimerLocked(rest)
  BY DEF T!dueHandlers, T!popDue
<1> HIDE DEF n, c, s
<1>3. /\ c \in Seq(TimerRecords) /\ UniqueIds(c)
      /\ T!Items(c) = {t \in T!Items(SubSeq(q, 1, n)) : ~t.canceled}
  BY <1>0, <1>1, <1>2, PushedAre
<1>4. /\ QueueOK(rest)
      /\ \A t : t \in T!Items(rest) <=> \E i \in (n + 1) .. Len(q) : t = q[i]
  BY <1>1, RestOfQueue
<1>5. \A t : t \in T!Items(c) <=> ~t.canceled /\ \E i \in 1 .. n : t = q[i]
  <2>1. Len(SubSeq(q, 1, n)) = n /\ \A i \in 1 .. n : SubSeq(q, 1, n)[i] = q[i]
    BY <1>0, <1>1
  <2> QED
    BY <1>3, <2>1 DEF T!Items
<1> HIDE DEF rest, q
<1>6. /\ s = [queue |-> s.queue, timerFd |-> s.timerFd] /\ QueueOK(s.queue) /\ ArmedFor(s)
      /\ Live(s.queue) = Live(rest) /\ T!Items(s.queue) \subseteq T!Items(rest)
  BY <1>2, <1>4, Armed
<1>7. T!Items(rest) \subseteq T!Items(q)
  BY <1>0, <1>1, <1>4 DEF T!Items
<1>8. T!Items(c) \subseteq Live(q)
  BY <1>0, <1>1, <1>5, LiveIs
<1>9. \A t \in T!Items(c), u \in T!Items(rest) : t.id # u.id
  <2> SUFFICES ASSUME NEW t \in T!Items(c), NEW u \in T!Items(rest) PROVE t.id # u.id
    OBVIOUS
  <2>1. PICK i \in 1 .. n : t = q[i]
    BY <1>5
  <2>2. PICK j \in (n + 1) .. Len(q) : u = q[j]
    BY <1>4
  <2>3. i \in 1 .. Len(q) /\ j \in 1 .. Len(q) /\ i # j
    BY <1>0, <1>1, <2>1, <2>2
  <2> QED
    BY <1>0, <2>1, <2>2, <2>3 DEF UniqueIds
<1>10. Live(rest) = Live(q) \ T!Items(c)
  <2>1. ASSUME NEW t \in Live(rest) PROVE t \in Live(q) \ T!Items(c)
    <3>1. t \in T!Items(rest) /\ ~t.canceled
      BY LiveIs
    <3> QED
      BY <1>7, <1>9, <3>1, LiveIs
  <2>2. ASSUME NEW t \in Live(q), t \notin T!Items(c) PROVE t \in Live(rest)
    <3>1. ~t.canceled /\ \E i \in 1 .. Len(q) : t = q[i]
      BY LiveIs
    <3>2. PICK i \in 1 .. Len(q) : t = q[i]
      BY <3>1
    <3>3. i \notin 1 .. n
      BY <1>5, <2>2, <3>1, <3>2
    <3>4. i \in (n + 1) .. Len(q)
      BY <1>0, <1>1, <3>3
    <3> QED
      BY <1>4, <3>1, <3>2, <3>4, LiveIs
  <2> QED
    BY <2>1, <2>2
<1>11. T!Items(s.queue) \subseteq T!Items(q) /\ Live(s.queue) = Live(q) \ T!Items(c)
  BY <1>6, <1>7, <1>10
<1>12. \A t \in T!Items(c), u \in T!Items(s.queue) : t.id # u.id
  BY <1>6, <1>9
<1> QED
  BY <1>3, <1>6, <1>8, <1>11, <1>12 DEF c, s, q

\* With time the due times and the timerfd come nearer together.
LEMMA Elapsed ==
    ASSUME NEW r, QueueOK(r.queue)
    PROVE  LET s == T!Elapse(r)
           IN  /\ s = [queue |-> s.queue, timerFd |-> s.timerFd]
               /\ QueueOK(s.queue)
               /\ r.timerFd \subseteq Nat => s.timerFd \subseteq Nat
               /\ ArmedFor(r) => ArmedFor(s)
               /\ Len(s.queue) = Len(r.queue)
               /\ \A i \in 1 .. Len(r.queue) :
                     /\ s.queue[i].id = r.queue[i].id /\ s.queue[i].handler = r.queue[i].handler
                     /\ s.queue[i].canceled = r.queue[i].canceled
<1> DEFINE q == r.queue
           w == [i \in 1 .. Len(q) |-> [q[i] EXCEPT !.due = IF @ = 0 THEN 0 ELSE @ - 1]]
           Less(n) == IF n = 0 THEN 0 ELSE n - 1
           fd == {Less(n) : n \in r.timerFd}
           s == T!Elapse(r)
<1>0. /\ q \in Seq(TimerRecords) /\ UniqueIds(q) /\ Sorted(q) /\ Len(q) \in Nat
      /\ \A i \in 1 .. Len(q) : q[i] \in TimerRecords
      /\ Millisecond \in Nat
  BY TimerFields, TimedAssumption DEF QueueOK
<1>1. s = [queue |-> w, timerFd |-> fd] /\ s.queue = w /\ s.timerFd = fd
  BY DEF T!Elapse
<1> HIDE DEF q, s
<1>2. ASSUME NEW i \in 1 .. Len(q)
      PROVE  /\ w[i] \in TimerRecords /\ w[i].id = q[i].id /\ w[i].handler = q[i].handler
             /\ w[i].canceled = q[i].canceled /\ w[i].due = Less(q[i].due)
             /\ q[i].due \in Nat
  <2>1. q[i] \in TimerRecords
    BY <1>0
  <2>2. q[i].due \in Nat /\ Less(q[i].due) \in Nat
    BY <2>1, TimerFields
  <2>3. w[i] = [q[i] EXCEPT !.due = Less(q[i].due)]
    OBVIOUS
  <2>4. ASSUME NEW t \in TimerRecords, NEW d \in Nat, NEW u, u = [t EXCEPT !.due = d]
        PROVE  /\ u \in TimerRecords /\ u.id = t.id /\ u.handler = t.handler
               /\ u.canceled = t.canceled /\ u.due = d
    BY <2>4 DEF TimerRecords
  <2> HIDE DEF Less, w
  <2> QED
    BY <2>1, <2>2, <2>3, <2>4
<1>3. w \in Seq(TimerRecords) /\ Len(w) = Len(q)
  BY <1>0, <1>2
<1> HIDE DEF w
<1>4. UniqueIds(w)
  BY <1>0, <1>2, <1>3 DEF UniqueIds
<1>5. Sorted(w)
  <2> SUFFICES ASSUME NEW i \in 1 .. Len(q), NEW j \in 1 .. Len(q), i =< j
               PROVE  w[i].due =< w[j].due
    BY <1>3 DEF Sorted
  <2>1. q[i].due =< q[j].due
    BY <1>0 DEF Sorted
  <2>2. w[i].due = Less(q[i].due) /\ q[i].due \in Nat
    BY <1>2
  <2>3. w[j].due = Less(q[j].due) /\ q[j].due \in Nat
    BY <1>2
  <2>4. \A a, b \in Nat : a =< b => Less(a) =< Less(b)
    OBVIOUS
  <2> HIDE DEF Less
  <2> QED
    BY <2>1, <2>2, <2>3, <2>4
<1>6. QueueOK(w)
  BY <1>3, <1>4, <1>5 DEF QueueOK
<1>7. r.timerFd \subseteq Nat => fd \subseteq Nat
  OBVIOUS
<1>8. ASSUME ArmedFor(r), NEW t \in Live(w) PROVE \E n \in fd : n =< Max({t.due, Millisecond})
  <2>1. PICK i \in 1 .. Len(q) : t = w[i]
    BY <1>3, LiveIs
  <2>2. ~t.canceled
    BY LiveIs
  <2>3. q[i] \in Live(q)
    BY <1>2, <2>1, <2>2, LiveIs
  <2>4. PICK n \in r.timerFd : n =< Max({q[i].due, Millisecond})
    BY <1>8, <2>3 DEF ArmedFor, q
  <2>5. n \in Nat /\ Less(n) \in fd
    BY <1>8 DEF ArmedFor
  <2>6. t.due = Less(q[i].due) /\ q[i].due \in Nat /\ t.due \in Nat
    BY <1>2, <2>1
  <2>7. n =< IF q[i].due >= Millisecond THEN q[i].due ELSE Millisecond
    BY <1>0, <2>4, <2>6, MaxOfTwo
  <2>8. Less(n) =< IF t.due >= Millisecond THEN t.due ELSE Millisecond
    BY <1>0, <2>5, <2>6, <2>7
  <2>9. Less(n) =< Max({t.due, Millisecond})
    BY <1>0, <2>6, <2>8, MaxOfTwo
  <2> QED
    BY <2>5, <2>9
<1>9. ArmedFor(r) => ArmedFor(s)
  BY <1>1, <1>7, <1>8 DEF ArmedFor
<1> QED
  BY <1>1, <1>2, <1>3, <1>6, <1>7, <1>9 DEF q, s
-----------------------------------------------------------------------------
(***************************************************************************)
(* The heartbeat on the reactor's timer queue                              *)
(***************************************************************************)
\* The request's timer among the timers Q of the queue and the timers C that
\* are collected: it is there under the id the request knows, and it is
\* flagged exactly if cancelTimer has found it.
RequestKnown(Q, C, req) ==
    /\ req \in [id : Ids \cup {0}, state : {"none", "armed", "canceled", "late"}]
    /\ \A t \in Q \cup C : t.handler = "onRequestTimeout" <=> t.id = req.id
    /\ \A t \in Q : t.handler = "onRequestTimeout" =>
          req.state = IF t.canceled THEN "canceled" ELSE "armed"
    /\ \A t \in C : t.handler = "onRequestTimeout" => req.state \in {"armed", "late"}

\* The reactor's data structures are sound, and no timer is in two of them.
QueueInv ==
    /\ reactor = [queue |-> reactor.queue, timerFd |-> reactor.timerFd]
    /\ QueueOK(Queue) /\ reactor.timerFd \subseteq Nat
    /\ collected \in Seq(TimerRecords) /\ UniqueIds(collected)
    /\ \A t \in T!Items(Queue), u \in T!Items(collected) : t.id # u.id
    /\ thread \in {"poll", "drained", "calling"}
    /\ thread = "calling" \/ collected = <<>>

\* The timers the Connection and the request have asked for are there, and the
\* timerfd is armed for them.
ServiceInv ==
    /\ timers = Pings(Live(Queue)) /\ due = Pings(T!Items(collected))
    /\ thread = "drained" \/ ArmedFor(reactor)
    /\ RequestKnown(T!Items(Queue), T!Items(collected), request)

\* The inductive invariant of TimedSpec
TimedInv == IInv /\ QueueInv /\ ServiceInv

\* Membership in Pings, and what it is of a union.
LEMMA PingsAre ==
    ASSUME NEW S, NEW R
    PROVE  /\ \A t \in S : t.handler \in Handlers => [id |-> t.id, handler |-> t.handler] \in Pings(S)
           /\ \A p \in Pings(S) : \E t \in S : /\ t.handler \in Handlers
                                               /\ p = [id |-> t.id, handler |-> t.handler]
                                               /\ p.id = t.id /\ p.handler = t.handler
           /\ Pings(S \cup R) = Pings(S) \cup Pings(R)
           /\ Pings({}) = {}
BY DEF Pings

\* The Connection has one timer at most.
LEMMA OneTimer ==
    ASSUME TimersKnown
    PROVE  \A a, b \in timers \cup due : a = b
BY KnownTimersAre DEF TimersKnown

\* At first there are no timers.
LEMMA TimedInitEstablishes == TimedInit => TimedInv
<1> SUFFICES ASSUME TimedInit PROVE TimedInv
  OBVIOUS
<1>1. IInv /\ timers = {} /\ due = {}
  BY InitEstablishes DEF TimedInit, Init
<1>2. reactor = [queue |-> <<>>, timerFd |-> {}] /\ reactor.queue = <<>> /\ reactor.timerFd = {}
  BY DEF TimedInit, T!NoTimers
<1>3. <<>> \in Seq(TimerRecords) /\ Len(<<>>) = 0
  OBVIOUS
<1>4. QueueOK(<<>>) /\ UniqueIds(<<>>)
  BY <1>3 DEF QueueOK, UniqueIds, Sorted
<1>5. T!Items(<<>>) = {} /\ Live(<<>>) = {}
  BY <1>3 DEF Live, T!Items
<1>6. Pings({}) = {}
  BY DEF Pings
<1>7. QueueInv
  BY <1>2, <1>3, <1>4, <1>5 DEF TimedInit, QueueInv, Queue
<1>8. ArmedFor(reactor)
  BY <1>2, <1>5 DEF ArmedFor
<1>9. RequestKnown({}, {}, request)
  BY DEF TimedInit, RequestKnown
<1>10. ServiceInv
  BY <1>1, <1>2, <1>5, <1>6, <1>8, <1>9 DEF TimedInit, ServiceInv, Queue
<1> QED
  BY <1>1, <1>7, <1>10 DEF TimedInv

\* What the calls of a handler of the Connection do to the queue: its live
\* timers are those the Connection now has, the request's timer stays as it is,
\* and the timerfd is armed if anything has changed.
LEMMA CarriedKeeps ==
    ASSUME TimedInv, IInv', Carried, \A t \in timers' : t \in timers \/ t.id \in NewIds
    PROVE  /\ reactor' = [queue |-> reactor'.queue, timerFd |-> reactor'.timerFd]
           /\ QueueOK(Queue') /\ reactor'.timerFd \subseteq Nat
           /\ reactor' = reactor \/ ArmedFor(reactor')
           /\ timers' = Pings(Live(Queue'))
           /\ \A t \in T!Items(Queue') :
                 \/ t.id \in NewIds /\ t.handler \in Handlers
                 \/ \E u \in T!Items(Queue) :
                       /\ t.id = u.id /\ t.handler = u.handler
                       /\ u.handler = "onRequestTimeout" => t.canceled = u.canceled
<1> DEFINE gone == CHOOSE t \in timers : t \notin timers'
           left == IF timers \subseteq timers' THEN reactor ELSE T!cancelTimer(reactor, gone.id)
           Same(t) == \E u \in T!Items(Queue) :
                         /\ t.id = u.id /\ t.handler = u.handler
                         /\ u.handler = "onRequestTimeout" => t.canceled = u.canceled
<1>0. /\ IInv /\ reactor = [queue |-> reactor.queue, timerFd |-> reactor.timerFd]
      /\ QueueOK(Queue) /\ reactor.timerFd \subseteq Nat /\ timers = Pings(Live(Queue))
      /\ RequestKnown(T!Items(Queue), T!Items(collected), request)
  BY DEF TimedInv, QueueInv, ServiceInv
<1>1. /\ \A a, b \in timers \cup due : a = b
      /\ \A a, b \in timers' \cup due' : a = b
  <2>1. TimersKnown /\ TimersKnown'
    BY <1>0 DEF IInv
  <2>2. \A a, b \in timers \cup due : a = b
    BY <2>1, OneTimer
  <2>3. (\A a, b \in timers \cup due : a = b)'
    BY <2>1, OneTimer, PTL
  <2> QED
    BY <2>2, <2>3
<1>2. /\ left = [queue |-> left.queue, timerFd |-> left.timerFd]
      /\ QueueOK(left.queue) /\ left.timerFd \subseteq Nat
      /\ left = reactor \/ ArmedFor(left)
      /\ Pings(Live(left.queue)) = timers \cap timers'
      /\ \A t \in T!Items(left.queue) : Same(t)
  <2>1. CASE timers \subseteq timers'
    <3>1. left = reactor
      BY <2>1
    <3>2. \A t \in T!Items(Queue) : Same(t)
      OBVIOUS
    <3> QED
      BY <1>0, <2>1, <3>1, <3>2 DEF Queue
  <2>2. CASE ~(timers \subseteq timers')
    <3>1. left = T!cancelTimer(reactor, gone.id)
      BY <2>2
    <3>2. gone \in timers /\ gone \notin timers'
      BY <2>2
    <3> HIDE DEF left, gone
    <3>3. /\ left = [queue |-> left.queue, timerFd |-> left.timerFd]
          /\ QueueOK(left.queue) /\ (left = reactor \/ ArmedFor(left))
          /\ Live(left.queue) = {t \in Live(Queue) : t.id # gone.id}
          /\ \A t \in T!Items(left.queue) : \E u \in T!Items(Queue) :
                /\ t.id = u.id /\ t.handler = u.handler
                /\ t.canceled <=> u.canceled \/ u.id = gone.id
      BY <1>0, <3>1, Cancelled DEF Queue
    <3>4. left.timerFd \subseteq Nat
      BY <1>0, <3>3 DEF ArmedFor
    <3>5. Pings(Live(left.queue)) = {}
      <4> SUFFICES ASSUME NEW p \in Pings(Live(left.queue)) PROVE FALSE
        OBVIOUS
      <4>1. PICK t \in Live(left.queue) : /\ t.handler \in Handlers /\ p.id = t.id
                                          /\ p = [id |-> t.id, handler |-> t.handler]
        BY PingsAre
      <4>2. t \in Live(Queue) /\ t.id # gone.id
        BY <3>3, <4>1
      <4>3. p \in timers
        BY <1>0, <4>1, <4>2, PingsAre
      <4> QED
        BY <1>1, <3>2, <4>1, <4>2, <4>3
    <3>6. timers \cap timers' = {}
      BY <1>1, <3>2
    <3>7. gone.id # request.id
      <4>1. PICK g \in Live(Queue) : g.handler \in Handlers /\ gone.id = g.id
        BY <1>0, <3>2, PingsAre
      <4>2. g \in T!Items(Queue) /\ g.handler # "onRequestTimeout"
        BY <4>1, LiveIs DEF Handlers
      <4> QED
        BY <1>0, <4>1, <4>2 DEF RequestKnown
    <3>8. ASSUME NEW t \in T!Items(left.queue) PROVE Same(t)
      <4>1. PICK u \in T!Items(Queue) :
                /\ t.id = u.id /\ t.handler = u.handler
                /\ t.canceled <=> u.canceled \/ u.id = gone.id
        BY <3>3
      <4>2. u.handler = "onRequestTimeout" => u.id # gone.id
        BY <1>0, <3>7 DEF RequestKnown
      <4>3. t \in TimerRecords /\ u \in TimerRecords
        BY <1>0, <3>3, ItemsTyped
      <4>4. t.canceled \in BOOLEAN /\ u.canceled \in BOOLEAN
        BY <4>3, TimerFields
      <4>5. u.handler = "onRequestTimeout" => t.canceled = u.canceled
        BY <4>1, <4>2, <4>4
      <4> QED
        BY <4>1, <4>5
    <3> QED
      BY <3>3, <3>4, <3>5, <3>6, <3>8
  <2> QED
    BY <2>1, <2>2
<1>3. CASE timers' \subseteq timers
  <2>1. reactor' = left
    BY <1>3 DEF Carried
  <2>2. timers \cap timers' = timers'
    BY <1>3
  <2>3. Queue' = left.queue
    BY <2>1 DEF Queue
  <2> HIDE DEF left, Same
  <2>4. \A t \in T!Items(Queue') : Same(t)
    BY <1>2, <2>3
  <2> QED
    BY <1>2, <2>1, <2>2, <2>3, <2>4 DEF Same
<1>4. CASE ~(timers' \subseteq timers)
  <2> DEFINE Item(t) == T!Timer(t.id, t.handler, Delay[t.handler])
  <2>1. PICK t \in timers' \ timers : \E p \in T!Places(left.queue, Item(t)) :
            reactor' = T!scheduleOnce(left, Item(t), p)
    BY <1>4 DEF Carried
  <2>2. PICK p \in T!Places(left.queue, Item(t)) : reactor' = T!scheduleOnce(left, Item(t), p)
    BY <2>1
  <2> HIDE DEF left, Same
  <2>3. t.id \in NewIds /\ t.id \in Ids
    BY <2>1 DEF NewIds
  <2>4. t.handler \in Handlers /\ t = [id |-> t.id, handler |-> t.handler]
    <3>1. t \in [id : Ids, handler : Handlers]
      BY <2>1 DEF IInv, TypeOK
    <3> QED
      BY <3>1
  <2>5. Delay[t.handler] \in Nat
    BY <2>4, HeartbeatAssumption DEF Delay, Handlers
  <2> DEFINE item == Item(t)
  <2>6. /\ item = [id |-> t.id, handler |-> t.handler, due |-> Delay[t.handler], canceled |-> FALSE]
    BY DEF T!Timer
  <2>7. item \in TimerRecords /\ ~item.canceled /\ item.id = t.id /\ item.handler = t.handler
    BY <2>3, <2>4, <2>5, <2>6 DEF TimerRecords
  <2> HIDE DEF item
  <2>8. \A u \in T!Items(left.queue) : u.id # item.id
    BY <1>2, <2>3, <2>7 DEF Same, NewIds
  <2>9. /\ reactor' = [queue |-> reactor'.queue, timerFd |-> reactor'.timerFd]
        /\ QueueOK(reactor'.queue) /\ ArmedFor(reactor')
        /\ Live(reactor'.queue) = Live(left.queue) \cup {item}
        /\ T!Items(reactor'.queue) \subseteq T!Items(left.queue) \cup {item}
    BY <1>2, <2>2, <2>7, <2>8, Scheduled DEF item
  <2>10. timers' = {t} /\ timers \cap timers' = {}
    BY <1>1, <2>1
  <2>11. Pings({item}) = {t}
    BY <2>4, <2>7 DEF Pings
  <2>12. Pings(Live(reactor'.queue)) = timers'
    BY <1>2, <2>9, <2>10, <2>11, PingsAre
  <2>13. \A u \in T!Items(reactor'.queue) : (u.id \in NewIds /\ u.handler \in Handlers) \/ Same(u)
    BY <1>2, <2>3, <2>4, <2>7, <2>9
  <2>14. reactor'.timerFd \subseteq Nat
    BY <2>9 DEF ArmedFor
  <2>15. Queue' = reactor'.queue
    BY DEF Queue
  <2> QED
    BY <2>9, <2>12, <2>13, <2>14, <2>15 DEF Same
<1> QED
  BY <1>3, <1>4

\* Every timed step is a step of the heartbeat, or leaves it alone.
LEMMA TimedStep == TimedInv /\ [TimedNext]_timedVars => [Next]_vars
<1> SUFFICES ASSUME TimedInv, [TimedNext]_timedVars PROVE [Next]_vars
  OBVIOUS
<1>id. NewIds # {} => nextTimerId \in Ids
  BY DEF nextTimerId, NewIds
<1>1. CASE register
  BY <1>1, <1>id DEF register, SocketStep, Next
<1>2. CASE socketEvents
  BY <1>2, <1>id DEF socketEvents, SocketStep, Next
<1>3. CASE readTimerFd \/ handlersCalled \/ requestCanceled \/ nextRequest \/ otherRequests \/ tick
  BY <1>3 DEF readTimerFd, handlersCalled, requestCanceled, nextRequest, otherRequests, tick
<1>4. CASE collect
  <2> DEFINE pings == Pings(T!Items(collected'))
  <2>1. collected' = T!dueHandlers(reactor)
    BY <1>4 DEF collect
  <2>2. T!Items(collected') \subseteq Live(Queue)
    BY <2>1, Collected DEF TimedInv, QueueInv, Queue
  <2>3. pings \subseteq timers
    BY <2>2 DEF TimedInv, ServiceInv, Pings
  <2>4. UNCHANGED vars \/ fireDueTimers(pings)
    BY <1>4 DEF collect
  <2> QED
    BY <2>3, <2>4 DEF Next
<1>5. CASE callHandler
  <2>1. \/ NewIds # {} /\ onPingTimer(nextTimerId)
        \/ onPingTimeout
        \/ UNCHANGED vars
    <3> DEFINE h == Head(collected).handler
    <3>1. h \in {"onPingTimer", "onPingTimeout", "onRequestTimeout"}
      <4>1. collected \in Seq(TimerRecords) /\ collected # <<>>
        BY <1>5 DEF callHandler, TimedInv, QueueInv
      <4>2. Head(collected) \in TimerRecords
        BY <4>1
      <4> QED
        BY <4>2, TimerFields DEF Handlers
    <3>2. CASE h = "onPingTimer"
      BY <1>5, <3>2 DEF callHandler
    <3>3. CASE h = "onPingTimeout"
      BY <1>5, <3>3 DEF callHandler
    <3>4. CASE h = "onRequestTimeout"
      BY <1>5, <3>4 DEF callHandler
    <3> QED
      BY <3>1, <3>2, <3>3, <3>4
  <2> QED
    BY <2>1, <1>id DEF Next
<1>6. CASE \E d \in RequestTimeouts : requestTimer(d)
  BY <1>6 DEF requestTimer
<1>7. CASE peerSilent
  BY <1>7 DEF peerSilent, Next
<1>8. CASE UNCHANGED timedVars
  BY <1>8 DEF timedVars
<1> QED
  BY <1>1, <1>2, <1>3, <1>4, <1>5, <1>6, <1>7, <1>8 DEF TimedNext, reactorThread

\* The request's timer is known as long as other timers come and go.
LEMMA RequestStaysKnown ==
    ASSUME NEW Q, NEW C, NEW req, RequestKnown(Q, C, req), NEW D \in SUBSET C, NEW P,
           \A t \in P : \/ t.id # req.id /\ t.handler \in Handlers
                        \/ \E u \in Q : /\ t.id = u.id /\ t.handler = u.handler
                                        /\ u.handler = "onRequestTimeout" => t.canceled = u.canceled
    PROVE  RequestKnown(P, D, req)
<1>1. \A t \in P : t.handler = "onRequestTimeout" <=> t.id = req.id
  BY DEF RequestKnown, Handlers
<1>2. \A t \in P : t.handler = "onRequestTimeout" =>
          req.state = IF t.canceled THEN "canceled" ELSE "armed"
  BY DEF RequestKnown, Handlers
<1> QED
  BY <1>1, <1>2 DEF RequestKnown

\* A handler of the Connection and the calls it makes keep the invariant.
LEMMA HandlerKeeps ==
    ASSUME TimedInv, IInv', Carried, \A t \in timers' : t \in timers \/ t.id \in NewIds,
           thread' = thread, request' = request,
           collected' \in Seq(TimerRecords), UniqueIds(collected'),
           T!Items(collected') \subseteq T!Items(collected),
           due' = Pings(T!Items(collected')), thread = "calling" \/ collected' = <<>>
    PROVE  TimedInv'
<1>1. /\ reactor' = [queue |-> reactor'.queue, timerFd |-> reactor'.timerFd]
      /\ QueueOK(Queue') /\ reactor'.timerFd \subseteq Nat
      /\ reactor' = reactor \/ ArmedFor(reactor')
      /\ timers' = Pings(Live(Queue'))
      /\ \A t \in T!Items(Queue') :
            \/ t.id \in NewIds /\ t.handler \in Handlers
            \/ \E u \in T!Items(Queue) :
                  /\ t.id = u.id /\ t.handler = u.handler
                  /\ u.handler = "onRequestTimeout" => t.canceled = u.canceled
  BY CarriedKeeps
<1>2. /\ \A t \in T!Items(Queue), u \in T!Items(collected) : t.id # u.id
      /\ RequestKnown(T!Items(Queue), T!Items(collected), request)
      /\ thread = "drained" \/ ArmedFor(reactor)
      /\ thread \in {"poll", "drained", "calling"}
  BY DEF TimedInv, QueueInv, ServiceInv
<1>3. \A id \in NewIds : id # request.id /\ \A u \in T!Items(collected) : u.id # id
  BY DEF NewIds
<1>4. \A t \in T!Items(Queue'), u \in T!Items(collected') : t.id # u.id
  BY <1>1, <1>2, <1>3
<1>5. \A t \in T!Items(Queue') :
            \/ t.id # request.id /\ t.handler \in Handlers
            \/ \E u \in T!Items(Queue) :
                  /\ t.id = u.id /\ t.handler = u.handler
                  /\ u.handler = "onRequestTimeout" => t.canceled = u.canceled
  BY <1>1, <1>3
<1>6. RequestKnown(T!Items(Queue'), T!Items(collected'), request)
  BY <1>2, <1>5, RequestStaysKnown
<1>7. thread' = "drained" \/ ArmedFor(reactor')
  BY <1>1, <1>2
<1>8. QueueInv'
  BY <1>1, <1>2, <1>4 DEF QueueInv, Queue
<1>9. ServiceInv'
  BY <1>1, <1>6, <1>7 DEF ServiceInv, Queue
<1> QED
  BY <1>8, <1>9 DEF TimedInv

\* The timers a step of the Connection adds have the new id it was given.
LEMMA AddedTimers ==
    ASSUME NEW id
    PROVE  /\ registerWithReactor(id) \/ onPingTimer(id) \/ pingAck(id) =>
                 \A t \in timers' : t \in timers \/ t.id = id
           /\ onPingTimeout \/ connectionEnds \/ submitOnReactor \/ streamEnds \/ prune =>
                 timers' \subseteq timers
<1>1. registerWithReactor(id) => \A t \in timers' : t \in timers \/ t.id = id
  BY DEF registerWithReactor, schedulePingTimer, scheduleOnce
<1>2. onPingTimer(id) => \A t \in timers' : t \in timers \/ t.id = id
  BY DEF onPingTimer, schedulePingTimer, scheduleOnce, sendPing
<1>3. pingAck(id) => \A t \in timers' : t \in timers \/ t.id = id
  BY DEF pingAck, schedulePingTimer, scheduleOnce, cancelTimers
<1>4. onPingTimeout \/ connectionEnds => timers' \subseteq timers
  BY DEF onPingTimeout, connectionEnds, cancelPingTimers, cancelTimers
<1>5. submitOnReactor \/ streamEnds \/ prune => timers' \subseteq timers
  BY DEF submitOnReactor, streamEnds, prune
<1> QED
  BY <1>1, <1>2, <1>3, <1>4, <1>5

\* Sockets and posted tasks
LEMMA SocketEventKeeps ==
    ASSUME TimedInv, IInv', register \/ socketEvents
    PROVE  TimedInv'
<1>1. /\ thread = "poll" /\ Carried /\ UNCHANGED <<thread, collected, request>>
      /\ \/ NewIds # {} /\ (registerWithReactor(nextTimerId) \/ pingAck(nextTimerId))
         \/ connectionEnds \/ submitOnReactor \/ streamEnds \/ prune
  BY DEF register, socketEvents, SocketStep
<1>2. NewIds # {} => nextTimerId \in NewIds
  BY DEF nextTimerId
<1>3. \A t \in timers' : t \in timers \/ t.id \in NewIds
  BY <1>1, <1>2, AddedTimers
<1>4. due' = due
  BY <1>1 DEF registerWithReactor, pingAck, connectionEnds, submitOnReactor, streamEnds, prune
<1>5. /\ collected \in Seq(TimerRecords) /\ UniqueIds(collected)
      /\ due = Pings(T!Items(collected)) /\ (thread = "calling" \/ collected = <<>>)
  BY DEF TimedInv, QueueInv, ServiceInv
<1> QED
  BY <1>1, <1>3, <1>4, <1>5, HandlerKeeps

\* The first of the collected timers, and the others
LEMMA FirstCollected ==
    ASSUME NEW c \in Seq(TimerRecords), c # <<>>, UniqueIds(c)
    PROVE  /\ Head(c) \in TimerRecords /\ Tail(c) \in Seq(TimerRecords) /\ UniqueIds(Tail(c))
           /\ T!Items(c) = T!Items(Tail(c)) \cup {Head(c)}
           /\ \A t \in T!Items(Tail(c)) : t.id # Head(c).id
<1> DEFINE d == Tail(c)
<1>1. /\ d \in Seq(TimerRecords) /\ Head(c) = c[1] /\ Head(c) \in TimerRecords
      /\ Len(c) \in Nat /\ Len(c) >= 1 /\ Len(d) = Len(c) - 1
      /\ \A i \in 1 .. Len(d) : d[i] = c[i + 1]
  OBVIOUS
<1> HIDE DEF d
<1>2. \A i \in 1 .. Len(d) : i + 1 \in 1 .. Len(c) /\ i + 1 # 1
  BY <1>1
<1>3. UniqueIds(d)
  BY <1>1, <1>2 DEF UniqueIds
<1>4. \A t \in T!Items(d) : t \in T!Items(c) /\ t.id # Head(c).id
  BY <1>1, <1>2 DEF UniqueIds, T!Items
<1>5. ASSUME NEW t \in T!Items(c) PROVE t \in T!Items(d) \cup {Head(c)}
  <2>1. PICK i \in 1 .. Len(c) : t = c[i]
    BY DEF T!Items
  <2>2. CASE i = 1
    BY <1>1, <2>1, <2>2
  <2>3. CASE i # 1
    <3>1. i - 1 \in 1 .. Len(d) /\ d[i - 1] = t
      BY <1>1, <2>1, <2>3
    <3> QED
      BY <3>1 DEF T!Items
  <2> QED
    BY <2>2, <2>3
<1>6. Head(c) \in T!Items(c)
  BY <1>1 DEF T!Items
<1> QED
  BY <1>1, <1>3, <1>4, <1>5, <1>6 DEF d

\* The next collected handler is called: one of the Connection, or the
\* request's timeout.
LEMMA CallKeeps ==
    ASSUME TimedInv, IInv', callHandler
    PROVE  TimedInv'
<1> DEFINE h == Head(collected)
           C == T!Items(collected)
<1>0. /\ thread = "calling" /\ collected # <<>> /\ collected' = Tail(collected)
      /\ UNCHANGED thread
  BY DEF callHandler
<1>1. /\ collected \in Seq(TimerRecords) /\ UniqueIds(collected)
      /\ due = Pings(C) /\ TimersKnown
  BY DEF TimedInv, QueueInv, ServiceInv, IInv
<1>2. /\ h \in TimerRecords /\ collected' \in Seq(TimerRecords) /\ UniqueIds(collected')
      /\ C = T!Items(collected') \cup {h}
      /\ \A t \in T!Items(collected') : t.id # h.id
  BY <1>0, <1>1, FirstCollected
<1>3. h.handler \in {"onPingTimer", "onPingTimeout", "onRequestTimeout"}
  BY <1>2, TimerFields DEF Handlers
<1>4. CASE h.handler \in Handlers
  <2>1. /\ Carried /\ request' = request
        /\ \/ NewIds # {} /\ onPingTimer(nextTimerId)
           \/ onPingTimeout
    <3>1. CASE h.handler = "onPingTimer"
      BY <3>1 DEF callHandler
    <3>2. CASE h.handler = "onPingTimeout"
      BY <3>2 DEF callHandler
    <3> QED
      BY <1>4, <3>1, <3>2 DEF Handlers
  <2>2. NewIds # {} => nextTimerId \in NewIds
    BY DEF nextTimerId
  <2>3. \A t \in timers' : t \in timers \/ t.id \in NewIds
    BY <2>1, <2>2, AddedTimers
  <2>4. \E t \in due : due' = due \ {t}
    BY <2>1 DEF onPingTimer, onPingTimeout, Called
  <2>5. due' = {}
    BY <1>1, <2>4, OneTimer
  <2>6. Pings(T!Items(collected')) = {}
    <3> SUFFICES ASSUME NEW p \in Pings(T!Items(collected')) PROVE FALSE
      OBVIOUS
    <3>1. PICK t \in T!Items(collected') : t.handler \in Handlers /\ p.id = t.id
                                           /\ p = [id |-> t.id, handler |-> t.handler]
      BY PingsAre
    <3>2. p \in due
      BY <1>1, <1>2, <3>1, PingsAre
    <3> DEFINE g == [id |-> h.id, handler |-> h.handler]
    <3>3. g \in due /\ g.id = h.id
      BY <1>1, <1>2, <1>4, PingsAre
    <3>4. p = g
      BY <1>1, <3>2, <3>3, OneTimer
    <3> QED
      BY <1>2, <3>1, <3>3, <3>4
  <2> QED
    BY <1>0, <1>2, <2>1, <2>3, <2>5, <2>6, HandlerKeeps
<1>5. CASE h.handler = "onRequestTimeout"
  <2>1. /\ request' = [id |-> 0, state |->
              IF request.state = "canceled" THEN "wronged" ELSE "none"]
        /\ UNCHANGED <<vars, reactor>>
    BY <1>5 DEF callHandler
  <2>2. RequestKnown(T!Items(Queue), C, request) /\ QueueOK(Queue)
    BY DEF TimedInv, QueueInv, ServiceInv
  <2>3. request.state # "canceled" /\ h.id = request.id
    BY <1>2, <1>5, <2>2 DEF RequestKnown
  <2>4. request' = [id |-> 0, state |-> "none"]
    BY <2>1, <2>3
  <2>5. \A t \in T!Items(Queue), u \in C : t.id # u.id
    BY DEF TimedInv, QueueInv
  <2>6. \A t \in T!Items(Queue) \cup T!Items(collected') :
           t.id # h.id /\ t.id \in Ids
    <3>1. \A t \in T!Items(Queue) : t \in TimerRecords
      BY <2>2, ItemsTyped
    <3>2. \A t \in T!Items(collected') : t \in TimerRecords
      BY <1>2 DEF T!Items
    <3> QED
      BY <1>2, <2>5, <3>1, <3>2, TimerFields
  <2>7. \A t \in T!Items(Queue) \cup T!Items(collected') : t.handler # "onRequestTimeout" /\ t.id # 0
    BY <1>2, <2>2, <2>3, <2>6, HeartbeatAssumption DEF RequestKnown
  <2>8. RequestKnown(T!Items(Queue), T!Items(collected'), request')
    BY <2>4, <2>7 DEF RequestKnown
  <2>9. Pings(T!Items(collected')) = Pings(C)
    BY <1>2, <1>5 DEF Pings, Handlers
  <2>10. /\ timers' = timers /\ due' = due /\ Queue' = Queue /\ reactor' = reactor
    BY <2>1 DEF vars, Queue
  <2>11. QueueInv'
    BY <1>0, <1>2, <2>5, <2>10 DEF TimedInv, QueueInv
  <2>12. ServiceInv'
    BY <1>0, <2>8, <2>9, <2>10 DEF TimedInv, ServiceInv
  <2> QED
    BY <2>11, <2>12 DEF TimedInv
<1> QED
  BY <1>3, <1>4, <1>5 DEF Handlers

\* The due timers are collected.
LEMMA CollectKeeps ==
    ASSUME TimedInv, IInv', collect
    PROVE  TimedInv'
<1> DEFINE C == T!Items(collected')
           pings == Pings(C)
<1>0. /\ thread = "drained" /\ thread' = "calling" /\ collected' = T!dueHandlers(reactor)
      /\ reactor' = T!popDue(reactor) /\ request' = request
      /\ IF pings = {} THEN UNCHANGED vars ELSE fireDueTimers(pings)
  BY DEF collect
<1>1. /\ QueueOK(reactor.queue) /\ timers = Pings(Live(Queue)) /\ due = Pings(T!Items(collected))
      /\ collected = <<>> /\ RequestKnown(T!Items(Queue), T!Items(collected), request)
  BY <1>0 DEF TimedInv, QueueInv, ServiceInv, Queue
<1>2. /\ collected' \in Seq(TimerRecords) /\ UniqueIds(collected')
      /\ reactor' = [queue |-> reactor'.queue, timerFd |-> reactor'.timerFd]
      /\ QueueOK(Queue') /\ ArmedFor(reactor')
      /\ C \subseteq Live(Queue)
      /\ T!Items(Queue') \subseteq T!Items(Queue)
      /\ Live(Queue') = Live(Queue) \ C
      /\ \A t \in C, u \in T!Items(Queue') : t.id # u.id
  BY <1>0, <1>1, Collected DEF Queue
<1>3. Live(Queue) = Live(Queue') \cup C
  BY <1>2
<1>4. timers = Pings(Live(Queue')) \cup pings
  BY <1>1, <1>3, PingsAre
<1>5. Pings(Live(Queue')) \cap pings = {}
  <2> SUFFICES ASSUME NEW p \in Pings(Live(Queue')), p \in pings PROVE FALSE
    OBVIOUS
  <2>1. PICK t \in Live(Queue') : p.id = t.id
    BY PingsAre
  <2>2. PICK u \in C : p.id = u.id
    BY PingsAre
  <2>3. t \in T!Items(Queue')
    BY LiveIs
  <2> QED
    BY <1>2, <2>1, <2>2, <2>3
<1>6. timers' = timers \ pings /\ due' = pings
  <2>1. CASE pings = {}
    <3>1. timers' = timers /\ due' = due
      BY <1>0, <2>1 DEF vars
    <3>2. T!Items(<<>>) = {}
      BY DEF T!Items
    <3> QED
      BY <1>1, <2>1, <3>1, <3>2, PingsAre
  <2>2. CASE pings # {}
    BY <1>0, <2>2 DEF fireDueTimers
  <2> QED
    BY <2>1, <2>2
<1> HIDE DEF pings
<1>7. timers' = Pings(Live(Queue')) /\ due' = Pings(C)
  BY <1>4, <1>5, <1>6 DEF pings
<1>8. RequestKnown(T!Items(Queue'), C, request)
  <2>1. \A t \in C : t \in T!Items(Queue) /\ ~t.canceled
    BY <1>2, LiveIs
  <2> QED
    BY <1>1, <1>2, <2>1 DEF RequestKnown
<1>9. QueueInv'
  BY <1>0, <1>2 DEF QueueInv, ArmedFor
<1>10. ServiceInv'
  BY <1>0, <1>2, <1>7, <1>8 DEF ServiceInv
<1> QED
  BY <1>9, <1>10 DEF TimedInv

\* Another request schedules its timeout.
LEMMA RequestTimerKeeps ==
    ASSUME TimedInv, NEW d \in RequestTimeouts, requestTimer(d)
    PROVE  TimedInv'
<1> DEFINE item == T!Timer(nextTimerId, "onRequestTimeout", d)
<1>0. /\ request.state = "none" /\ NewIds # {}
      /\ request' = [id |-> item.id, state |-> "armed"]
      /\ UNCHANGED <<vars, thread, collected>>
  BY DEF requestTimer
<1>1. PICK p \in T!Places(Queue, item) : reactor' = T!scheduleOnce(reactor, item, p)
  BY DEF requestTimer
<1>2. nextTimerId \in NewIds
  BY <1>0 DEF nextTimerId
<1>3. /\ nextTimerId \in Ids /\ d \in Nat
      /\ \A t \in T!Items(Queue) \cup T!Items(collected) : t.id # nextTimerId
  BY <1>2, TimedAssumption DEF NewIds
<1>4. item = [id |-> nextTimerId, handler |-> "onRequestTimeout", due |-> d, canceled |-> FALSE]
  BY DEF T!Timer
<1>5. /\ item \in TimerRecords /\ ~item.canceled /\ item.id = nextTimerId
      /\ item.handler = "onRequestTimeout"
  <2>1. ASSUME NEW id \in Ids, NEW n \in Nat, NEW t,
               t = [id |-> id, handler |-> "onRequestTimeout", due |-> n, canceled |-> FALSE]
        PROVE  t \in TimerRecords /\ ~t.canceled /\ t.id = id /\ t.handler = "onRequestTimeout"
    BY <2>1 DEF TimerRecords
  <2> QED
    BY <1>3, <1>4, <2>1
<1> HIDE DEF item
<1>6. /\ QueueOK(Queue) /\ timers = Pings(Live(Queue)) /\ due = Pings(T!Items(collected))
      /\ RequestKnown(T!Items(Queue), T!Items(collected), request)
      /\ QueueInv /\ IInv
  BY DEF TimedInv, QueueInv, ServiceInv
<1>7. /\ reactor' = [queue |-> reactor'.queue, timerFd |-> reactor'.timerFd]
      /\ QueueOK(Queue') /\ ArmedFor(reactor')
      /\ Live(Queue') = Live(Queue) \cup {item}
      /\ T!Items(Queue') \subseteq T!Items(Queue) \cup {item}
  BY <1>1, <1>3, <1>5, <1>6, Scheduled DEF Queue
<1>8. Pings({item}) = {}
  BY <1>5 DEF Pings, Handlers
<1>9. timers' = Pings(Live(Queue')) /\ due' = Pings(T!Items(collected'))
  <2>1. timers' = timers /\ due' = due /\ collected' = collected
    BY <1>0 DEF vars
  <2>2. Pings(Live(Queue) \cup {item}) = Pings(Live(Queue)) \cup Pings({item})
    BY PingsAre
  <2> QED
    BY <1>6, <1>7, <1>8, <2>1, <2>2
<1>10. \A t \in T!Items(Queue) \cup T!Items(collected) : t.handler # "onRequestTimeout"
  BY <1>0, <1>6 DEF RequestKnown
<1>11. request' = [id |-> nextTimerId, state |-> "armed"] /\ collected' = collected
  BY <1>0, <1>5
<1>12. RequestKnown(T!Items(Queue'), T!Items(collected'), request')
  BY <1>3, <1>5, <1>7, <1>10, <1>11 DEF RequestKnown
<1>13. \A t \in T!Items(Queue'), u \in T!Items(collected') : t.id # u.id
  BY <1>3, <1>5, <1>6, <1>7, <1>11 DEF QueueInv
<1>14. QueueInv'
  BY <1>0, <1>6, <1>7, <1>11, <1>13 DEF QueueInv, ArmedFor
<1>15. ServiceInv'
  BY <1>0, <1>7, <1>9, <1>12 DEF ServiceInv
<1>16. IInv'
  BY <1>0, <1>6, NextPreserves
<1> QED
  BY <1>14, <1>15, <1>16 DEF TimedInv

\* It cancels the timeout, in time or too late.
LEMMA RequestCanceledKeeps ==
    ASSUME TimedInv, requestCanceled
    PROVE  TimedInv'
<1>0. /\ request.state = "armed" /\ UNCHANGED <<vars, thread, collected>>
      /\ request' = IF T!Holds(reactor, request.id) THEN [request EXCEPT !.state = "canceled"]
                    ELSE [request EXCEPT !.state = "late"]
      /\ reactor' = T!cancelTimer(reactor, request.id)
  BY DEF requestCanceled
<1>1. /\ QueueOK(Queue) /\ timers = Pings(Live(Queue)) /\ due = Pings(T!Items(collected))
      /\ RequestKnown(T!Items(Queue), T!Items(collected), request)
      /\ QueueInv /\ ServiceInv /\ IInv
  BY DEF TimedInv, QueueInv, ServiceInv
<1>2. /\ reactor' = [queue |-> reactor'.queue, timerFd |-> reactor'.timerFd]
      /\ QueueOK(Queue') /\ (reactor' = reactor \/ ArmedFor(reactor'))
      /\ Live(Queue') = {t \in Live(Queue) : t.id # request.id}
      /\ \A t \in T!Items(Queue') : \E u \in T!Items(Queue) :
            /\ t.id = u.id /\ t.handler = u.handler
            /\ t.canceled <=> u.canceled \/ u.id = request.id
  BY <1>0, <1>1, Cancelled DEF Queue, QueueInv
<1>3. \A t \in Live(Queue) : t.handler \in Handlers => t.id # request.id
  BY <1>1, LiveIs DEF RequestKnown, Handlers
<1>4. Pings(Live(Queue')) = Pings(Live(Queue))
  BY <1>2, <1>3 DEF Pings
<1>5. timers' = timers /\ due' = due /\ collected' = collected /\ thread' = thread
  BY <1>0 DEF vars
<1>6. \A t \in T!Items(Queue'), u \in T!Items(collected') : t.id # u.id
  BY <1>1, <1>2, <1>5 DEF QueueInv
<1>7. QueueInv'
  BY <1>1, <1>2, <1>5, <1>6 DEF QueueInv, ArmedFor
<1>8. RequestKnown(T!Items(Queue'), T!Items(collected'), request')
  <2>1. request \in [id : Ids \cup {0}, state : {"none", "armed", "canceled", "late"}]
    BY <1>1 DEF RequestKnown
  <2>2. \A t \in T!Items(Queue') \cup T!Items(collected') :
            t.handler = "onRequestTimeout" <=> t.id = request.id
    BY <1>1, <1>2, <1>5 DEF RequestKnown
  <2>3. \A t \in T!Items(Queue') : t.handler = "onRequestTimeout" => t.canceled
    BY <1>1, <1>2 DEF RequestKnown
  <2>4. CASE T!Holds(reactor, request.id)
    <3>1. /\ request' \in [id : Ids \cup {0}, state : {"none", "armed", "canceled", "late"}]
          /\ request'.id = request.id /\ request'.state = "canceled"
      BY <1>0, <2>1, <2>4
    <3>2. \A t \in T!Items(collected) : t.handler # "onRequestTimeout"
      <4>1. PICK i \in 1 .. Len(Queue) : Queue[i].id = request.id
        BY <2>4 DEF T!Holds, Queue
      <4>2. Queue[i] \in T!Items(Queue)
        BY DEF T!Items
      <4> QED
        BY <1>1, <4>1, <4>2 DEF QueueInv, RequestKnown
    <3> QED
      BY <1>5, <2>2, <2>3, <3>1, <3>2 DEF RequestKnown
  <2>5. CASE ~T!Holds(reactor, request.id)
    <3>1. /\ request' \in [id : Ids \cup {0}, state : {"none", "armed", "canceled", "late"}]
          /\ request'.id = request.id /\ request'.state = "late"
      BY <1>0, <2>1, <2>5
    <3>2. \A t \in T!Items(Queue) : t.id # request.id
      BY <2>5 DEF T!Holds, T!Items, Queue
    <3>3. \A t \in T!Items(Queue') : t.id # request.id
      BY <1>2, <3>2
    <3> QED
      BY <1>5, <2>2, <3>1, <3>3 DEF RequestKnown
  <2> QED
    BY <2>4, <2>5
<1>9. thread' = "drained" \/ ArmedFor(reactor')
  BY <1>1, <1>2, <1>5 DEF ServiceInv
<1>10. ServiceInv'
  BY <1>1, <1>4, <1>5, <1>8, <1>9 DEF ServiceInv
<1>11. IInv'
  BY <1>0, <1>1, NextPreserves
<1> QED
  BY <1>7, <1>10, <1>11 DEF TimedInv

\* The timerfd is set again, or time passes.
LEMMA TimeKeeps ==
    ASSUME TimedInv, otherRequests \/ tick
    PROVE  TimedInv'
<1>1. /\ QueueOK(reactor.queue) /\ QueueInv /\ ServiceInv /\ IInv
      /\ RequestKnown(T!Items(Queue), T!Items(collected), request)
  BY DEF TimedInv, QueueInv, ServiceInv, Queue
<1>2. UNCHANGED <<vars, thread, collected, request>> /\ timers' = timers /\ due' = due
  BY DEF otherRequests, tick, vars
<1>3. /\ reactor' = [queue |-> reactor'.queue, timerFd |-> reactor'.timerFd]
      /\ QueueOK(Queue') /\ reactor'.timerFd \subseteq Nat
      /\ ArmedFor(reactor) => ArmedFor(reactor')
      /\ Pings(Live(Queue')) = Pings(Live(Queue))
      /\ \A t \in T!Items(Queue') : \E u \in T!Items(Queue) :
            t.id = u.id /\ t.handler = u.handler /\ t.canceled = u.canceled
  <2>1. CASE otherRequests
    <3>1. reactor' = T!armNextTimerLocked(Queue)
      BY <2>1 DEF otherRequests
    <3> QED
      BY <1>1, <3>1, Armed DEF Queue, ArmedFor
  <2>2. CASE tick
    <3>1. reactor' = T!Elapse(reactor)
      BY <2>2 DEF tick
    <3>2. /\ reactor' = [queue |-> reactor'.queue, timerFd |-> reactor'.timerFd]
          /\ QueueOK(Queue') /\ reactor'.timerFd \subseteq Nat
          /\ ArmedFor(reactor) => ArmedFor(reactor')
          /\ Len(Queue') = Len(Queue)
          /\ \A i \in 1 .. Len(Queue) :
                /\ Queue'[i].id = Queue[i].id /\ Queue'[i].handler = Queue[i].handler
                /\ Queue'[i].canceled = Queue[i].canceled
      BY <1>1, <3>1, Elapsed DEF Queue, QueueInv
    <3> DEFINE q == Queue
               w == Queue'
    <3>3. Len(w) = Len(q) /\ \A i \in 1 .. Len(q) :
              w[i].id = q[i].id /\ w[i].handler = q[i].handler /\ w[i].canceled = q[i].canceled
      BY <3>2
    <3> HIDE DEF q, w
    <3>4. \A t \in T!Items(w) : \E u \in T!Items(q) :
            t.id = u.id /\ t.handler = u.handler /\ t.canceled = u.canceled
      BY <3>3 DEF T!Items
    <3>5. \A u \in T!Items(q) : \E t \in T!Items(w) :
            t.id = u.id /\ t.handler = u.handler /\ t.canceled = u.canceled
      BY <3>3 DEF T!Items
    <3>6. \A t \in Live(w) : \E u \in Live(q) : t.id = u.id /\ t.handler = u.handler
      BY <3>4, LiveIs
    <3>7. \A u \in Live(q) : \E t \in Live(w) : t.id = u.id /\ t.handler = u.handler
      BY <3>5, LiveIs
    <3>8. Pings(Live(w)) = Pings(Live(q))
      BY <3>6, <3>7 DEF Pings
    <3> QED
      BY <3>2, <3>4, <3>8 DEF q, w
  <2> QED
    BY <2>1, <2>2
<1>4. RequestKnown(T!Items(Queue'), T!Items(collected'), request)
  BY <1>1, <1>2, <1>3, RequestStaysKnown
<1>5. \A t \in T!Items(Queue'), u \in T!Items(collected') : t.id # u.id
  BY <1>1, <1>2, <1>3 DEF QueueInv
<1>6. QueueInv'
  BY <1>1, <1>2, <1>3, <1>5 DEF QueueInv
<1>7. ServiceInv'
  BY <1>1, <1>2, <1>3, <1>4 DEF ServiceInv
<1>8. IInv'
  BY <1>1, <1>2, NextPreserves
<1> QED
  BY <1>6, <1>7, <1>8 DEF TimedInv

\* The timerfd is read, the last handler has returned, the next request comes.
LEMMA RoundKeeps ==
    ASSUME TimedInv, readTimerFd \/ handlersCalled \/ nextRequest
    PROVE  TimedInv'
<1>1. /\ QueueOK(Queue) /\ QueueInv /\ ServiceInv /\ IInv
      /\ RequestKnown(T!Items(Queue), T!Items(collected), request)
  BY DEF TimedInv, QueueInv, ServiceInv
<1>2. UNCHANGED <<vars, collected>> /\ timers' = timers /\ due' = due
  BY DEF readTimerFd, handlersCalled, nextRequest, vars
<1>3. IInv'
  BY <1>1, <1>2, NextPreserves
<1>4. CASE readTimerFd
  <2>1. /\ thread = "poll" /\ thread' = "drained" /\ request' = request
        /\ reactor' = [reactor EXCEPT !.timerFd = @ \ {0}]
    BY <1>4 DEF readTimerFd, T!drainTimerFd
  <2>2. /\ reactor' = [queue |-> reactor.queue, timerFd |-> reactor.timerFd \ {0}]
        /\ reactor'.queue = reactor.queue /\ reactor'.timerFd = reactor.timerFd \ {0}
    BY <1>1, <2>1 DEF QueueInv
  <2>3. Queue' = Queue
    BY <2>2 DEF Queue
  <2>4. QueueInv'
    BY <1>1, <1>2, <2>1, <2>2, <2>3 DEF QueueInv
  <2>5. ServiceInv'
    BY <1>1, <1>2, <2>1, <2>3 DEF ServiceInv
  <2> QED
    BY <1>3, <2>4, <2>5 DEF TimedInv
<1>5. CASE handlersCalled
  <2>1. /\ thread = "calling" /\ collected = <<>> /\ thread' = "poll" /\ request' = request
        /\ reactor' = reactor /\ Queue' = Queue
    BY <1>5 DEF handlersCalled, Queue
  <2>2. QueueInv'
    BY <1>1, <1>2, <2>1 DEF QueueInv
  <2>3. ServiceInv'
    BY <1>1, <1>2, <2>1 DEF ServiceInv
  <2> QED
    BY <1>3, <2>2, <2>3 DEF TimedInv
<1>6. CASE nextRequest
  <2>1. /\ request.state = "canceled" /\ ~T!Holds(reactor, request.id)
        /\ request' = [id |-> 0, state |-> "none"]
        /\ thread' = thread /\ reactor' = reactor /\ Queue' = Queue
    BY <1>6 DEF nextRequest, Queue
  <2>2. \A t \in T!Items(Queue) : t.id # request.id
    BY <2>1 DEF T!Holds, T!Items, Queue
  <2>3. \A t \in T!Items(Queue) \cup T!Items(collected) : t.handler # "onRequestTimeout"
    BY <1>1, <2>1, <2>2 DEF RequestKnown
  <2>4. \A t \in T!Items(Queue) \cup T!Items(collected) : t.id # 0
    <3>1. \A t \in T!Items(Queue) : t \in TimerRecords
      BY <1>1, ItemsTyped
    <3>2. \A t \in T!Items(collected) : t \in TimerRecords
      BY <1>1 DEF QueueInv, T!Items
    <3> QED
      BY <3>1, <3>2, TimerFields, HeartbeatAssumption
  <2>5. RequestKnown(T!Items(Queue), T!Items(collected), request')
    BY <2>1, <2>3, <2>4 DEF RequestKnown
  <2>6. QueueInv'
    BY <1>1, <1>2, <2>1 DEF QueueInv
  <2>7. ServiceInv'
    BY <1>1, <1>2, <2>1, <2>5 DEF ServiceInv
  <2> QED
    BY <1>3, <2>6, <2>7 DEF TimedInv
<1> QED
  BY <1>4, <1>5, <1>6

\* Every step keeps the invariant.
LEMMA TimedNextPreserves == TimedInv /\ [TimedNext]_timedVars => TimedInv'
<1> SUFFICES ASSUME TimedInv, [TimedNext]_timedVars PROVE TimedInv'
  OBVIOUS
<1>1. IInv'
  BY TimedStep, NextPreserves DEF TimedInv
<1>2. CASE register \/ socketEvents
  BY <1>1, <1>2, SocketEventKeeps
<1>3. CASE collect
  BY <1>1, <1>3, CollectKeeps
<1>4. CASE callHandler
  BY <1>1, <1>4, CallKeeps
<1>5. CASE readTimerFd \/ handlersCalled \/ nextRequest
  BY <1>5, RoundKeeps
<1>6. CASE \E d \in RequestTimeouts : requestTimer(d)
  BY <1>6, RequestTimerKeeps
<1>7. CASE requestCanceled
  BY <1>7, RequestCanceledKeeps
<1>8. CASE otherRequests \/ tick
  BY <1>8, TimeKeeps
<1>9. CASE peerSilent \/ UNCHANGED timedVars
  <2>1. /\ UNCHANGED <<reactor, thread, collected, request>> /\ timers' = timers /\ due' = due
        /\ Queue' = Queue
    BY <1>9 DEF peerSilent, peerFallsSilent, timedVars, vars, Queue
  <2>2. QueueInv'
    BY <2>1 DEF TimedInv, QueueInv
  <2>3. ServiceInv'
    BY <2>1 DEF TimedInv, ServiceInv
  <2> QED
    BY <1>1, <2>2, <2>3 DEF TimedInv
<1> QED
  BY <1>2, <1>3, <1>4, <1>5, <1>6, <1>7, <1>8, <1>9 DEF TimedNext, reactorThread

\* The inductive invariant holds in every reachable state of the composition.
THEOREM TimedInvariance == TimedSpec => []TimedInv
<1>1. TimedInit => TimedInv
  BY TimedInitEstablishes
<1>2. TimedInv /\ [TimedNext]_timedVars => TimedInv'
  BY TimedNextPreserves
<1> QED
  BY <1>1, <1>2, PTL DEF TimedSpec

\* The reactor's queue, its clock and its other users take the heartbeat only
\* through steps of module Heartbeat: what is proved of those holds here.
THEOREM TimedImplementsHeartbeat == TimedSpec => Spec
<1>1. TimedInit => Init
  BY DEF TimedInit
<1>2. TimedInv /\ [TimedNext]_timedVars => [Next]_vars
  BY TimedStep
<1> QED
  BY <1>1, <1>2, TimedInvariance, PTL DEF TimedSpec, Spec

\* scheduleOnce, cancelTimer and fireDueTimers lose no timer and keep none that
\* was cancelled, and leave the timerfd armed for every timer of the queue.
THEOREM TimersAlwaysArmed == TimedSpec => []TimersArmed
<1>1. TimedInv => TimersArmed
  <2> SUFFICES ASSUME TimedInv PROVE TimersArmed
    OBVIOUS
  <2>1. timers = Pings(Live(Queue)) /\ due = Pings(T!Items(collected))
    BY DEF TimedInv, ServiceInv
  <2>2. \A t \in Live(Queue) :
           thread = "drained" \/ \E n \in reactor.timerFd : n =< Max({t.due, Millisecond})
    BY DEF TimedInv, ServiceInv, ArmedFor, Queue
  <2> QED
    BY <2>1, <2>2 DEF TimersArmed, Live
<1> QED
  BY <1>1, TimedInvariance, PTL

\* A handler whose cancelTimer has returned true is not called, whenever the
\* other thread gets the mutex.
THEOREM CanceledHandlerNeverRuns == TimedSpec => []CanceledNeverRuns
<1>1. TimedInv => CanceledNeverRuns
  <2> SUFFICES ASSUME TimedInv PROVE CanceledNeverRuns
    OBVIOUS
  <2>1. RequestKnown(T!Items(Queue), T!Items(collected), request)
    BY DEF TimedInv, ServiceInv
  <2> QED
    BY <2>1 DEF RequestKnown, CanceledNeverRuns
<1> QED
  BY <1>1, TimedInvariance, PTL

\* The connection knows its timers, its heart beats and no handler outlives it
\* on the reactor's queue, too.
THEOREM TimedHeartbeatSafe == TimedSpec => [](TimersKnown /\ HeartBeats /\ NoLateHandler)
<1>1. TimedInv => TimersKnown /\ HeartBeats /\ NoLateHandler
  BY DEF TimedInv, IInv
<1> QED
  BY <1>1, TimedInvariance, PTL

========================================================================
