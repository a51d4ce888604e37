----------------------- MODULE ConnectionManager_proofs -----------------------
(***************************************************************************)
(* The client runtime, for any number of requests, endpoints and           *)
(* connections: one callback per request, none missing after close(), no   *)
(* connection pointer that outlives its object, and no request forgotten   *)
(* as long as no error path drops its events.                              *)
(***************************************************************************)
EXTENDS ConnectionManager, DataLemmas, FiniteSetTheorems

\* The map `contexts` holds the requests sent and not finished, the timers are
\* timers of these.
ContextsOpen ==
    /\ contexts \cap finished = {}
    /\ timers \subseteq contexts
    /\ \A q \in Requests :
          IF phase[q] = "new" THEN q \notin contexts /\ q \notin finished
          ELSE q \in contexts \/ q \in finished

\* How far close() has come says which threads have ended.
CloseOrder ==
    /\ started # "yes" => closer = "no" /\ ~running /\ rx.pc # "exited"
    /\ started = "no" => \A q \in Requests : phase[q] = "new"
    /\ closer \in {"no", "join connector", "stop reactor"} /\ started = "yes" => running
    /\ closer \in {"join reactor", "join dispatcher", "fail queued", "fail contexts", "return", "closed"} =>
          ~running
    /\ closer \in {"join dispatcher", "fail queued", "fail contexts", "return", "closed"} =>
          rx.pc = "exited" /\ dispatcher # "on"
    /\ closer \in {"fail queued", "fail contexts", "return", "closed"} =>
          dispatcher = "off" /\ \A q \in Requests : callbacks[q].queued = 0
    /\ closer \in {"fail contexts", "return", "closed"} =>
          \A q \in Range(submitQueue) : phase[q] = "queued"
    /\ closer \in {"return", "closed"} =>
          \A q \in contexts : phase[q] \in {"created", "queued"}
    /\ \A q \in Requests : completing[q] = "close" => closer \in {"fail contexts", "return"}
    /\ rx.pc = "exited" => ~running

\* The places where a request waits or is being worked on
InSubmit(q)  == q \in Range(submitQueue)
InLocal(q)   == q \in Range(rx.local)
InPending(q) == q \in Range(pending[EndpointOf[q]])
InCtxs(q)    == \E c \in Conns : q \in conns[c].ctxs
InDone(q)    == q \in rx.done

\* No queue holds a request twice, and pendingByEndpoint has it under its endpoint.
QueuesDistinct ==
    /\ NoDuplicates(submitQueue) /\ NoDuplicates(rx.local)
    /\ \A e \in Endpoints :
          NoDuplicates(pending[e]) /\ \A q \in Range(pending[e]) : EndpointOf[q] = e

\* A request is in one place at a time, and in none before it was queued.
OnePlace ==
    \A q \in Requests :
        /\ InSubmit(q) => ~InLocal(q) /\ ~InPending(q) /\ ~InCtxs(q) /\ ~InDone(q)
        /\ InLocal(q) => ~InPending(q) /\ ~InCtxs(q) /\ ~InDone(q)
        /\ InPending(q) => ~InCtxs(q) /\ ~InDone(q)
        /\ InCtxs(q) => ~InDone(q)
        /\ phase[q] \in {"new", "created"} =>
              ~InSubmit(q) /\ ~InLocal(q) /\ ~InPending(q) /\ ~InCtxs(q) /\ ~InDone(q)

\* What the reactor thread holds in each of its loops
RxShape ==
    /\ rx.pc \in {"idle", "exited"} =>
          rx.local = <<>> /\ rx.conn = NoConn /\ rx.to = NoConn /\ rx.done = {} /\ ~rx.dead
    /\ rx.pc \in {"drain", "drainSubmit"} =>
          rx.local # <<>> /\ rx.conn = NoConn /\ rx.done = {} /\ ~rx.dead
    /\ rx.pc \in {"settle", "settleSubmit"} =>
          /\ rx.local # <<>> /\ rx.done = {} /\ ~rx.dead
          /\ rx.conn \in Conns /\ conns[rx.conn].connected /\ conns[rx.conn].healthy
          /\ \A q \in Range(rx.local) : EndpointOf[q] = conns[rx.conn].ep
    /\ rx.pc \in {"reading", "events", "refill", "refillSubmit"} =>
          rx.local = <<>> /\ rx.conn \in Conns
    /\ rx.pc \in {"drain", "settle", "reading", "events"} => rx.to = NoConn
    /\ rx.pc \in {"drainSubmit", "settleSubmit", "refill", "refillSubmit"} => rx.to \in Conns
    /\ rx.pc = "reading" => conns[rx.conn].connected
    /\ rx.pc = "refillSubmit" => pending[rx.ep] # <<>>
    /\ rx.dead => rx.conn \in Conns /\ ~conns[rx.conn].healthy

\* A session that is not healthy has no streams; a connection on its way to the
\* reactor is fit for use.
ConnsShape ==
    /\ \A c \in Conns : ~conns[c].healthy => conns[c].ctxs = {} /\ conns[c].streams = {}
    /\ \A c \in Conns : conns[c].at = "posted" => conns[c].connected /\ conns[c].healthy

\* Such a connection is handed over once.
PostedOnce ==
    \A i \in DOMAIN tasks : tasks[i].kind = "established" =>
        /\ conns[tasks[i].conn].at = "posted"
        /\ \A j \in DOMAIN tasks : tasks[j] = tasks[i] => i = j

\* Only a request marked as cancelled is on its way to handleCancelOnReactor.
CancelsMarked ==
    /\ \A i \in DOMAIN tasks : tasks[i].kind = "cancel" => tasks[i].req \in canceled
    /\ \A q \in Requests : cancelling[q] # "no" => q \in canceled

\* drainSubmitQueue has been posted for what sendAsync has left in the queue.
DrainPosted ==
    \A q \in Requests : InSubmit(q) /\ phase[q] = "sent" => [kind |-> "drain"] \in Range(tasks)

\* While the reactor runs, a finished request that is still in a queue was
\* cancelled, and the one about to be submitted is not finished.
FinishedCanceled ==
    running =>
        /\ \A q \in finished :
              InSubmit(q) \/ InLocal(q) \/ InPending(q) \/ phase[q] = "created" => q \in canceled
        /\ rx.pc \in {"drainSubmit", "settleSubmit"} => Head(rx.local) \notin finished
        /\ rx.pc = "refillSubmit" => Head(pending[rx.ep]) \notin finished

\* An unfinished request that was queued is in one of the places, unless an
\* error path drops the events of its session or the protocol refuses it.
Somewhere ==
    Faults \cap {"late eof", "write"} = {} /\ Invalid = {} =>
        \A q \in Requests : phase[q] \in {"queued", "sent"} /\ q \notin finished =>
            InSubmit(q) \/ InLocal(q) \/ InPending(q) \/ InCtxs(q) \/ InDone(q)

Callbacks == OneCallback /\ ContextsOpen /\ CloseOrder
Posted    == PostedOnce /\ CancelsMarked /\ DrainPosted
Pool      == RxShape /\ ConnsShape /\ PointersValid
Places    == QueuesDistinct /\ OnePlace /\ InFlightFound /\ FinishedCanceled /\ Somewhere

IInv == TypeOK /\ Callbacks /\ Posted /\ Pool /\ Places
-----------------------------------------------------------------------------
(***************************************************************************)
(* Queues                                                                  *)
(***************************************************************************)
\* push_back, pop_front and the empty queue, in terms of Range.
LEMMA Pushed ==
    ASSUME NEW S, NEW s \in Seq(S), NEW x \in S
    PROVE  /\ Append(s, x) \in Seq(S) /\ Append(s, x) # <<>>
           /\ Range(Append(s, x)) = Range(s) \cup {x}
           /\ NoDuplicates(s) /\ x \notin Range(s) => NoDuplicates(Append(s, x))
<1>1. /\ Append(s, x) \in Seq(S)
      /\ Elements(Append(s, x)) = Elements(s) \cup {x}
      /\ NoDuplicates(s) /\ x \notin Elements(s) => NoDuplicates(Append(s, x))
  BY PushedElements
<1>2. Elements(s) = Range(s) /\ Elements(Append(s, x)) = Range(Append(s, x))
  BY DEF Elements, Range
<1>3. Len(Append(s, x)) = Len(s) + 1 /\ Len(s) \in Nat /\ Len(<<>>) = 0
  OBVIOUS
<1> QED
  BY <1>1, <1>2, <1>3

LEMMA Popped ==
    ASSUME NEW S, NEW s \in Seq(S), s # <<>>, NoDuplicates(s)
    PROVE  /\ Tail(s) \in Seq(S) /\ Head(s) \in S /\ Head(s) \in Range(s)
           /\ Range(Tail(s)) = Range(s) \ {Head(s)}
           /\ NoDuplicates(Tail(s))
<1>1. /\ Tail(s) \in Seq(S) /\ Head(s) \in S
      /\ Elements(s) = Elements(Tail(s)) \cup {Head(s)}
      /\ Head(s) \notin Elements(Tail(s))
      /\ NoDuplicates(Tail(s))
  BY PoppedElements
<1>2. Elements(s) = Range(s) /\ Elements(Tail(s)) = Range(Tail(s))
  BY DEF Elements, Range
<1> QED
  BY <1>1, <1>2

LEMMA Empty == Range(<<>>) = {} /\ NoDuplicates(<<>>)
BY DEF Range, NoDuplicates

\* The elements of a typed queue are typed.
LEMMA RangeTyped ==
    ASSUME NEW S, NEW s \in Seq(S)
    PROVE  Range(s) \subseteq S /\ (s # <<>> => Head(s) \in Range(s))
<1>1. /\ DOMAIN s = 1 .. Len(s) /\ Len(s) \in Nat
      /\ \A i \in DOMAIN s : s[i] \in S
      /\ s # <<>> => Head(s) = s[1] /\ 1 \in DOMAIN s
  OBVIOUS
<1> QED
  BY <1>1 DEF Range

\* Erasing an element that occurs once leaves the others.
LEMMA Erased ==
    ASSUME NEW S, NEW s \in Seq(S), NEW q, NoDuplicates(s)
    PROVE  /\ Without(s, q) \in Seq(S)
           /\ Range(Without(s, q)) = Range(s) \ {q}
           /\ NoDuplicates(Without(s, q))
<1>1. CASE q \notin Range(s)
  BY <1>1 DEF Without
<1>2. CASE q \in Range(s)
  <2> DEFINE P(i) == s[i] = q /\ \A j \in DOMAIN s : s[j] = q => i <= j
             k == CHOOSE i \in DOMAIN s : P(i)
             w == [j \in 1 .. Len(s) - 1 |-> IF j < k THEN s[j] ELSE s[j + 1]]
  <2>1. Len(s) \in Nat /\ DOMAIN s = 1 .. Len(s) /\ \A i \in DOMAIN s : s[i] \in S
    OBVIOUS
  <2>2. \A i, j \in DOMAIN s : s[i] = s[j] => i = j
    BY DEF NoDuplicates
  <2>3. PICK i \in DOMAIN s : s[i] = q
    BY <1>2 DEF Range
  <2>4. P(i)
    BY <2>1, <2>2, <2>3
  <2>5. k \in DOMAIN s /\ s[k] = q
    BY <2>3, <2>4
  <2>6. Without(s, q) = w
    BY <1>2 DEF Without
  <2> HIDE DEF k, P
  <2>7. Len(s) - 1 \in Nat /\ k \in 1 .. Len(s)
    BY <2>1, <2>5
  <2>8. \A j \in 1 .. Len(s) - 1 :
           w[j] \in S /\ w[j] = IF j < k THEN s[j] ELSE s[j + 1]
    BY <2>1, <2>7
  <2>9. w \in Seq(S) /\ DOMAIN w = 1 .. Len(s) - 1
    BY <2>7, <2>8
  <2> HIDE DEF w
  <2>10. Range(w) \subseteq Range(s) \ {q}
    <3> SUFFICES ASSUME NEW j \in 1 .. Len(s) - 1 PROVE w[j] \in Range(s) /\ w[j] # q
      BY <2>9 DEF Range
    <3>1. CASE j < k
      BY <3>1, <2>1, <2>2, <2>5, <2>7, <2>8 DEF Range
    <3>2. CASE ~(j < k)
      <4>1. j + 1 \in DOMAIN s /\ j + 1 # k /\ w[j] = s[j + 1]
        BY <3>2, <2>1, <2>7, <2>8
      <4> QED
        BY <4>1, <2>2, <2>5 DEF Range
    <3> QED
      BY <3>1, <3>2
  <2>11. Range(s) \ {q} \subseteq Range(w)
    <3> SUFFICES ASSUME NEW j \in DOMAIN s, s[j] # q PROVE \E m \in DOMAIN w : w[m] = s[j]
      BY DEF Range
    <3>1. CASE j < k
      BY <3>1, <2>1, <2>7, <2>8, <2>9
    <3>2. CASE ~(j < k)
      <4>1. j # k
        BY <2>5
      <4>2. j - 1 \in DOMAIN w /\ ~(j - 1 < k) /\ (j - 1) + 1 = j
        BY <3>2, <4>1, <2>1, <2>7, <2>9
      <4>3. w[j - 1] = s[j]
        BY <4>2, <2>8, <2>9
      <4> QED
        BY <4>2, <4>3
    <3> QED
      BY <3>1, <3>2
  <2>12. NoDuplicates(w)
    <3> SUFFICES ASSUME NEW a \in DOMAIN w, NEW b \in DOMAIN w, w[a] = w[b] PROVE a = b
      BY DEF NoDuplicates
    <3>1. \A j \in DOMAIN w : j \in DOMAIN s /\ j + 1 \in DOMAIN s /\ j \in Nat
      BY <2>1, <2>7, <2>9
    <3> QED
      BY <3>1, <2>2, <2>7, <2>8, <2>9
  <2> QED
    BY <2>6, <2>9, <2>10, <2>11, <2>12
<1> QED
  BY <1>1, <1>2
-----------------------------------------------------------------------------
(***************************************************************************)
(* Callbacks                                                               *)
(***************************************************************************)
\* completeRequest, on the reactor thread or, its first half, on a user's
Completes(S) == completeRequest(S) \/ tryFinish(S, "send") \/ tryFinish(S, "cancel")

\* A step that completes nothing is one that completes the empty set.
LEMMA NothingIsCompleted ==
    TypeOK /\ NothingCompleted => completeRequest({}) /\ Completes({})
BY DEF TypeOK, NothingCompleted, Completes, completeRequest, Finish, invokeCompletion

\* tryFinish finishes the requests it is given and puts their callbacks into the
\* hands of the caller.
LEMMA FinishEffect ==
    ASSUME TypeOK, OneCallback, NEW S \in SUBSET Requests,
           NEW call \in {"send", "cancel", "close"}, tryFinish(S, call)
    PROVE  /\ finished' = finished \cup S /\ finished' \subseteq Requests
           /\ contexts' = contexts \ (S \ finished) /\ contexts' \subseteq Requests
           /\ timers' = timers \ (S \ finished) /\ timers' \subseteq Requests
           /\ callbacks' = callbacks
           /\ completing' \in [Requests -> {"no", "send", "cancel", "close"}]
           /\ OneCallback'
           /\ \A q \in Requests : completing'[q] = completing[q] \/ completing'[q] = call
<1> DEFINE N == S \ finished
<1>1. /\ finished' = finished \cup N /\ contexts' = contexts \ N /\ timers' = timers \ N
      /\ callbacks' = callbacks
      /\ completing' = [q \in Requests |-> IF q \in N THEN call ELSE completing[q]]
  BY DEF tryFinish, Finish
<1>2. /\ finished \subseteq Requests /\ contexts \subseteq Requests /\ timers \subseteq Requests
      /\ callbacks \in [Requests -> [queued : Nat, ran : Nat]]
      /\ completing \in [Requests -> {"no", "send", "cancel", "close"}]
  BY DEF TypeOK
<1>3. ASSUME NEW q \in Requests
      PROVE  callbacks'[q].queued + callbacks'[q].ran
                + (IF completing'[q] = "no" THEN 0 ELSE 1) = IF q \in finished' THEN 1 ELSE 0
  <2>1. callbacks[q].queued + callbacks[q].ran + (IF completing[q] = "no" THEN 0 ELSE 1)
            = IF q \in finished THEN 1 ELSE 0
    BY DEF OneCallback
  <2>2. callbacks[q].queued \in Nat /\ callbacks[q].ran \in Nat
    BY <1>2
  <2>3. CASE q \in N
    BY <1>1, <2>1, <2>2, <2>3
  <2>4. CASE q \notin N
    BY <1>1, <2>1, <2>2, <2>4
  <2> QED
    BY <2>3, <2>4
<1>4. OneCallback'
  BY <1>3 DEF OneCallback
<1>5. completing' \in [Requests -> {"no", "send", "cancel", "close"}]
  BY <1>1, <1>2
<1>6. \A q \in Requests : completing'[q] = completing[q] \/ completing'[q] = call
  BY <1>1
<1> QED
  BY <1>1, <1>2, <1>4, <1>5, <1>6

\* completeRequest on the reactor thread, or its first half on a user's: the
\* requests are finished, and their callbacks accounted for.
LEMMA CompleteEffect ==
    ASSUME TypeOK, OneCallback, NEW S \in SUBSET Requests, Completes(S)
    PROVE  /\ finished' = finished \cup S /\ finished' \subseteq Requests
           /\ contexts' = contexts \ (S \ finished) /\ contexts' \subseteq Requests
           /\ timers' = timers \ (S \ finished) /\ timers' \subseteq Requests
           /\ callbacks' \in [Requests -> [queued : Nat, ran : Nat]]
           /\ completing' \in [Requests -> {"no", "send", "cancel", "close"}]
           /\ OneCallback'
           /\ dispatcher # "on" => \A q \in Requests : callbacks'[q].queued = callbacks[q].queued
           /\ \A q \in Requests : completing'[q] = "close" => completing[q] = "close"
<1> DEFINE N == S \ finished
<1>t. /\ finished \subseteq Requests /\ contexts \subseteq Requests /\ timers \subseteq Requests
      /\ callbacks \in [Requests -> [queued : Nat, ran : Nat]]
      /\ completing \in [Requests -> {"no", "send", "cancel", "close"}]
  BY DEF TypeOK
<1>1. CASE completeRequest(S)
  <2>1. /\ finished' = finished \cup N /\ contexts' = contexts \ N /\ timers' = timers \ N
        /\ completing' = completing
        /\ callbacks' = [q \in Requests |->
              IF q \notin N THEN callbacks[q]
              ELSE IF dispatcher = "on"
                   THEN [callbacks[q] EXCEPT !.queued = @ + 1]
                   ELSE [callbacks[q] EXCEPT !.ran = @ + 1]]
    BY <1>1 DEF completeRequest, Finish, invokeCompletion
  <2>4. ASSUME NEW q \in Requests
        PROVE  /\ callbacks'[q] \in [queued : Nat, ran : Nat]
               /\ callbacks'[q].queued + callbacks'[q].ran
                     + (IF completing'[q] = "no" THEN 0 ELSE 1) = IF q \in finished' THEN 1 ELSE 0
               /\ dispatcher # "on" => callbacks'[q].queued = callbacks[q].queued
    <3>0. callbacks[q].queued + callbacks[q].ran + (IF completing[q] = "no" THEN 0 ELSE 1)
              = IF q \in finished THEN 1 ELSE 0
      BY DEF OneCallback
    <3>t. callbacks[q] \in [queued : Nat, ran : Nat]
      BY <1>t
    <3>1. CASE q \notin N
      BY <2>1, <3>t, <3>0, <3>1
    <3>2. CASE q \in N /\ dispatcher = "on"
      BY <2>1, <3>t, <3>0, <3>2
    <3>3. CASE q \in N /\ dispatcher # "on"
      <4>1. /\ callbacks'[q] = [callbacks[q] EXCEPT !.ran = @ + 1]
            /\ completing'[q] = completing[q] /\ q \in finished' /\ q \notin finished
        BY <2>1, <3>3
      <4>2. callbacks'[q].queued = callbacks[q].queued /\ callbacks'[q].ran = callbacks[q].ran + 1
        BY <3>t, <4>1
      <4> QED
        BY <3>t, <3>0, <4>1, <4>2
    <3> QED
      BY <3>1, <3>2, <3>3
  <2>5. OneCallback'
    BY <2>4 DEF OneCallback
  <2>6. callbacks' \in [Requests -> [queued : Nat, ran : Nat]]
    <3>1. DOMAIN callbacks' = Requests /\ callbacks' = [q \in Requests |-> callbacks'[q]]
      BY <2>1
    <3> QED
      BY <2>4, <3>1
  <2> QED
    BY <1>t, <2>1, <2>4, <2>5, <2>6
<1>2. CASE tryFinish(S, "send")
  BY <1>t, <1>2, FinishEffect
<1>3. CASE tryFinish(S, "cancel")
  BY <1>t, <1>3, FinishEffect
<1> QED
  BY <1>1, <1>2, <1>3 DEF Completes

\* Every step that completes requests, or none, keeps the invariant of the
\* callbacks, provided close() and the threads stay where they are.
LEMMA CompletingKeepsCallbacks ==
    ASSUME TypeOK, Callbacks, NEW S \in SUBSET Requests,
           Completes(S),
           S # {} => started # "no",
           UNCHANGED <<started, running, dispatcher, closer>>,
           phase' \in [Requests -> {"new", "created", "queued", "sent"}],
           \A q \in Requests : \/ phase'[q] = phase[q]
                               \/ q \in S /\ phase'[q] = "sent"
                               \/ phase[q] = "queued" /\ phase'[q] = "sent" /\ running
                               \/ phase[q] = "created" /\ phase'[q] = "queued",
           \A q \in S : phase'[q] # "new",
           closer \in {"fail contexts", "return", "closed"} =>
              \A q \in Range(submitQueue') : phase'[q] = "queued",
           rx.pc = "exited" => rx'.pc = "exited",
           rx'.pc = "exited" => rx.pc = "exited" \/ (~running /\ started = "yes")
    PROVE  Callbacks'
<1>1. /\ finished' = finished \cup S
      /\ contexts' = contexts \ (S \ finished)
      /\ timers' = timers \ (S \ finished)
      /\ OneCallback'
      /\ dispatcher # "on" => \A q \in Requests : callbacks'[q].queued = callbacks[q].queued
      /\ \A q \in Requests : completing'[q] = "close" => completing[q] = "close"
  BY CompleteEffect DEF Callbacks
<1>2. ContextsOpen /\ CloseOrder /\ contexts \subseteq Requests
  BY DEF Callbacks, TypeOK
<1>3. ContextsOpen'
  <2>1. contexts' \cap finished' = {} /\ timers' \subseteq contexts'
    BY <1>1, <1>2 DEF ContextsOpen
  <2>2. ASSUME NEW q \in Requests
        PROVE  IF phase'[q] = "new" THEN q \notin contexts' /\ q \notin finished'
               ELSE q \in contexts' \/ q \in finished'
    BY <1>1, <1>2, <2>2 DEF ContextsOpen
  <2> QED
    BY <2>1, <2>2 DEF ContextsOpen
<1>4. CloseOrder'
  <2>1. ASSUME closer \in {"return", "closed"}, NEW q \in contexts' PROVE phase'[q] \in {"created", "queued"}
    <3>1. q \in Requests /\ q \in contexts /\ phase[q] \in {"created", "queued"} /\ ~running
      BY <1>1, <1>2, <2>1 DEF CloseOrder
    <3>2. q \notin S \ finished /\ q \notin finished
      BY <1>1, <1>2, <2>1, <3>1 DEF ContextsOpen
    <3> QED
      BY <3>1, <3>2
  <2>2. closer \in {"fail queued", "fail contexts", "return", "closed"} =>
           \A q \in Requests : callbacks'[q].queued = 0
    BY <1>1, <1>2 DEF CloseOrder
  <2>3. \A q \in Requests : completing'[q] = "close" => closer \in {"fail contexts", "return"}
    BY <1>1, <1>2 DEF CloseOrder
  <2> QED
    BY <1>2, <2>1, <2>2, <2>3 DEF CloseOrder
<1> QED
  BY <1>1, <1>3, <1>4 DEF Callbacks
-----------------------------------------------------------------------------
(***************************************************************************)
(* Steps that leave the pool and the queues alone                          *)
(***************************************************************************)
\* What the records hold
LEMMA Typed ==
    ASSUME TypeOK
    PROVE  /\ rx \in RxType /\ rx.local \in Seq(Requests) /\ rx.done \subseteq Requests
           /\ rx.conn \in Conns \cup {NoConn} /\ rx.to \in Conns \cup {NoConn}
           /\ rx.ep \in Endpoints /\ rx.dead \in BOOLEAN
           /\ \A c \in Conns : /\ conns[c] \in ConnType /\ conns[c].ep \in Endpoints
                               /\ conns[c].connected \in BOOLEAN /\ conns[c].healthy \in BOOLEAN
                               /\ conns[c].ctxs \subseteq Requests
                               /\ conns[c].streams \subseteq Requests
           /\ \A e \in Endpoints : pending[e] \in Seq(Requests)
           /\ \A q \in Requests : EndpointOf[q] \in Endpoints /\ rc[q] \in Conns \cup {NoConn}
           /\ NoConn \notin Conns
<1>1. rx \in RxType /\ conns \in [Conns -> ConnType] /\ pending \in [Endpoints -> Seq(Requests)]
      /\ rc \in [Requests -> Conns \cup {NoConn}] /\ EndpointOf \in [Requests -> Endpoints]
  BY ManagerAssumption DEF TypeOK
<1>2. \A k \in ConnType : /\ k.ep \in Endpoints /\ k.connected \in BOOLEAN /\ k.healthy \in BOOLEAN
                          /\ k.ctxs \subseteq Requests /\ k.streams \subseteq Requests
  BY DEF ConnType
<1>3. /\ rx.local \in Seq(Requests) /\ rx.done \subseteq Requests
      /\ rx.conn \in Conns \cup {NoConn} /\ rx.to \in Conns \cup {NoConn}
      /\ rx.ep \in Endpoints /\ rx.dead \in BOOLEAN
  BY <1>1 DEF RxType
<1>4. NoConn \notin Conns
  BY DEF NoConn, Conns
<1> QED
  BY <1>1, <1>2, <1>3, <1>4

\* What the tasks hold
LEMMA TasksTyped ==
    /\ \A t \in Tasks : /\ t.kind = "established" => t.conn \in Conns
                        /\ t.kind = "failed" => t.ep \in Endpoints
                        /\ t.kind = "cancel" => t.req \in Requests
                        /\ t.kind = "drain" => t = [kind |-> "drain"]
    /\ \A t, u \in Tasks : t.kind = "established" /\ u.kind = "established" /\ t.conn = u.conn => t = u
    /\ [kind |-> "drain"] \in Tasks /\ [kind |-> "close"] \in Tasks
    /\ \A q \in Requests : [kind |-> "cancel", req |-> q] \in Tasks
    /\ \A c \in Conns : [kind |-> "established", conn |-> c] \in Tasks
    /\ \A e \in Endpoints : [kind |-> "failed", ep |-> e] \in Tasks
BY DEF Tasks

\* A step that leaves the tasks, and what they speak of, alone
LEMMA SamePosted ==
    ASSUME TypeOK, Posted, UNCHANGED <<tasks, cancelling>>, canceled \subseteq canceled',
           \A c \in Conns : conns[c].at = "posted" => conns'[c].at = "posted",
           \A q \in Requests : InSubmit(q)' => InSubmit(q) \/ phase'[q] # "sent",
           \A q \in Requests : InSubmit(q)' /\ phase'[q] = "sent" => phase[q] = "sent"
    PROVE  Posted'
<1>0. tasks \in Seq(Tasks)
  BY DEF TypeOK
<1>1. \A i \in DOMAIN tasks : tasks[i] \in Tasks
  BY <1>0
<1>2. PostedOnce'
  BY <1>1, TasksTyped DEF Posted, PostedOnce
<1>3. CancelsMarked'
  BY DEF Posted, CancelsMarked
<1>4. DrainPosted'
  BY DEF Posted, DrainPosted
<1> QED
  BY <1>2, <1>3, <1>4 DEF Posted

\* A task is posted, or refused: no new connection, and if it is a cancel, that
\* of a request marked as cancelled.
LEMMA PostKeeps ==
    ASSUME TypeOK, Posted, NEW t \in Tasks, Post(t),
           t.kind = "established" => /\ conns'[t.conn].at = "posted"
                                     /\ t \notin Range(tasks),
           t.kind = "cancel" => t.req \in canceled,
           UNCHANGED canceled,
           \A q \in Requests : cancelling'[q] # "no" => q \in canceled,
           \A c \in Conns : conns[c].at = "posted" => conns'[c].at = "posted",
           \A q \in Requests : InSubmit(q)' => InSubmit(q),
           \A q \in Requests : InSubmit(q)' /\ phase'[q] = "sent" =>
              phase[q] = "sent" \/ (running /\ t.kind = "drain")
    PROVE  Posted' /\ tasks' \in Seq(Tasks)
<1>0. tasks \in Seq(Tasks) /\ running \in BOOLEAN
  BY DEF TypeOK
<1>1. ASSUME tasks' = tasks, ~running PROVE Posted'
  <2>1. tasks \in Seq(Tasks) /\ \A i \in DOMAIN tasks : tasks[i] \in Tasks
    BY <1>0
  <2>2. PostedOnce'
    BY <1>1, <2>1, TasksTyped DEF Posted, PostedOnce
  <2>3. CancelsMarked'
    BY <1>1 DEF Posted, CancelsMarked
  <2>4. DrainPosted'
    BY <1>1 DEF Posted, DrainPosted
  <2> QED
    BY <2>2, <2>3, <2>4 DEF Posted
<1>2. ASSUME tasks' = Append(tasks, t) PROVE Posted'
  <2>1. /\ Len(tasks) \in Nat /\ DOMAIN tasks = 1 .. Len(tasks)
        /\ DOMAIN tasks' = 1 .. (Len(tasks) + 1)
        /\ \A i \in DOMAIN tasks : tasks'[i] = tasks[i] /\ tasks[i] \in Tasks
        /\ tasks'[Len(tasks) + 1] = t
    BY <1>0, <1>2
  <2>2. \A i \in DOMAIN tasks' : i \in DOMAIN tasks \/ (i = Len(tasks) + 1 /\ tasks'[i] = t)
    BY <2>1
  <2>3. Range(tasks) \subseteq Range(tasks') /\ t \in Range(tasks')
    BY <2>1 DEF Range
  <2>4. PostedOnce'
    <3> SUFFICES ASSUME NEW i \in DOMAIN tasks', tasks'[i].kind = "established"
                 PROVE  /\ conns'[tasks'[i].conn].at = "posted"
                        /\ \A j \in DOMAIN tasks' : tasks'[j] = tasks'[i] => i = j
      BY DEF PostedOnce
    <3>1. \A j \in DOMAIN tasks : tasks[j] \in Range(tasks)
      BY DEF Range
    <3>2. CASE i \in DOMAIN tasks
      <4>1. /\ tasks[i].kind = "established" /\ conns[tasks[i].conn].at = "posted"
            /\ \A j \in DOMAIN tasks : tasks[j] = tasks[i] => i = j
        BY <2>1, <3>2 DEF Posted, PostedOnce
      <4>2. t = tasks[i] => FALSE
        BY <3>1, <3>2, <4>1
      <4> QED
        BY <2>1, <2>2, <3>2, <4>1, <4>2, TasksTyped
    <3>3. CASE i \notin DOMAIN tasks
      <4>1. i = Len(tasks) + 1 /\ tasks'[i] = t /\ t \notin Range(tasks)
        BY <2>2, <3>3
      <4>2. \A j \in DOMAIN tasks : tasks'[j] # t
        BY <2>1, <3>1, <4>1
      <4> QED
        BY <2>2, <4>1, <4>2
    <3> QED
      BY <3>2, <3>3
  <2>5. CancelsMarked'
    BY <2>1, <2>2 DEF Posted, CancelsMarked
  <2>6. DrainPosted'
    BY <2>3, TasksTyped DEF Posted, DrainPosted
  <2> QED
    BY <2>4, <2>5, <2>6 DEF Posted
<1>3. tasks' \in Seq(Tasks)
  <2>1. Append(tasks, t) \in Seq(Tasks)
    BY <1>0
  <2> QED
    BY <1>0, <2>1 DEF Post
<1> QED
  BY <1>0, <1>1, <1>2, <1>3 DEF Post

\* A task is taken from the queue; only if it brings a new connection may that
\* one be no longer on its way, and drainSubmitQueue empties the queue.
LEMMA TakeKeeps ==
    ASSUME TypeOK, Posted, NEW kind, Takes(kind), UNCHANGED <<canceled, cancelling, phase>>,
           \A c \in Conns : conns[c].at = "posted" /\ ~(kind = "established" /\ Head(tasks).conn = c)
              => conns'[c].at = "posted",
           \A q \in Requests : InSubmit(q)' => InSubmit(q) /\ kind # "drain"
    PROVE  /\ Posted' /\ tasks' \in Seq(Tasks) /\ Head(tasks) \in Tasks /\ tasks # <<>>
           /\ kind = "established" => conns[Head(tasks).conn].at = "posted"
           /\ kind = "cancel" => Head(tasks).req \in canceled
<1>0. tasks \in Seq(Tasks) /\ tasks # <<>> /\ Head(tasks).kind = kind /\ tasks' = Tail(tasks)
  BY DEF TypeOK, Takes
<1> DEFINE s == Tail(tasks)
<1>1. /\ Len(tasks) \in Nat \ {0} /\ DOMAIN tasks = 1 .. Len(tasks)
      /\ s \in Seq(Tasks) /\ DOMAIN s = 1 .. (Len(tasks) - 1)
      /\ \A i \in DOMAIN s : s[i] = tasks[i + 1]
      /\ Head(tasks) = tasks[1] /\ Head(tasks) \in Tasks
      /\ \A i \in DOMAIN tasks : tasks[i] \in Tasks
  BY <1>0
<1> HIDE DEF s
<1>2. /\ tasks' = s /\ 1 \in DOMAIN tasks
      /\ \A i \in DOMAIN s : i + 1 \in DOMAIN tasks /\ i + 1 # 1
      /\ \A i, j \in DOMAIN s : i + 1 = j + 1 => i = j
      /\ \A i \in DOMAIN tasks : i # 1 => i - 1 \in DOMAIN s /\ s[i - 1] = tasks[i]
  BY <1>0, <1>1 DEF s
<1>3. PostedOnce'
  <2> SUFFICES ASSUME NEW i \in DOMAIN s, s[i].kind = "established"
               PROVE  /\ conns'[s[i].conn].at = "posted"
                      /\ \A j \in DOMAIN s : s[j] = s[i] => i = j
    BY <1>2 DEF PostedOnce
  <2>1. /\ s[i] = tasks[i + 1] /\ i + 1 \in DOMAIN tasks
        /\ tasks[i + 1].kind = "established"
        /\ conns[tasks[i + 1].conn].at = "posted"
        /\ \A j \in DOMAIN tasks : tasks[j] = tasks[i + 1] => i + 1 = j
    BY <1>1, <1>2 DEF Posted, PostedOnce
  <2>2. tasks[i + 1] # Head(tasks)
    BY <1>1, <1>2, <2>1
  <2>3. ~(kind = "established" /\ Head(tasks).conn = tasks[i + 1].conn)
    BY <1>0, <1>1, <2>1, <2>2, TasksTyped
  <2>4. conns'[tasks[i + 1].conn].at = "posted"
    BY <1>1, <2>1, <2>3, TasksTyped
  <2> QED
    BY <1>1, <1>2, <2>1, <2>4
<1>4. CancelsMarked'
  BY <1>1, <1>2 DEF Posted, CancelsMarked
<1>5. DrainPosted'
  <2> SUFFICES ASSUME NEW q \in Requests, InSubmit(q)', phase'[q] = "sent"
               PROVE  [kind |-> "drain"] \in Range(tasks)'
    BY DEF DrainPosted
  <2>1. InSubmit(q) /\ phase[q] = "sent" /\ kind # "drain"
    OBVIOUS
  <2>2. PICK i \in DOMAIN tasks : tasks[i] = [kind |-> "drain"]
    BY <2>1 DEF Posted, DrainPosted, Range
  <2>3. i # 1
    BY <1>0, <1>1, <2>1, <2>2
  <2> QED
    BY <1>2, <2>2, <2>3 DEF Range
<1> QED
  BY <1>0, <1>1, <1>2, <1>3, <1>4, <1>5 DEF Posted, PostedOnce, CancelsMarked

\* The pool does not change.
LEMMA QuietKeepsPool ==
    ASSUME TypeOK, Pool, UNCHANGED <<conns, rx, rc>>,
           pending' = pending \/ rx.pc # "refillSubmit"
    PROVE  Pool'
BY DEF Pool, RxShape, ConnsShape, PointersValid, Pooled

\* The request about to be submitted is in a queue.
LEMMA HeadInPlace ==
    ASSUME TypeOK, RxShape, QueuesDistinct
    PROVE  /\ rx.pc \in {"drain", "drainSubmit", "settle", "settleSubmit"} =>
                 /\ Head(rx.local) \in Requests /\ InLocal(Head(rx.local)) /\ rx.local # <<>>
           /\ rx.pc = "refillSubmit" =>
                 /\ Head(pending[rx.ep]) \in Requests /\ InPending(Head(pending[rx.ep]))
                 /\ EndpointOf[Head(pending[rx.ep])] = rx.ep /\ pending[rx.ep] # <<>>
<1>1. rx.local \in Seq(Requests) /\ rx.ep \in Endpoints /\ pending[rx.ep] \in Seq(Requests)
  BY Typed
<1>2. ASSUME rx.pc \in {"drain", "drainSubmit", "settle", "settleSubmit"}
      PROVE  Head(rx.local) \in Requests /\ InLocal(Head(rx.local)) /\ rx.local # <<>>
  <2>1. rx.local # <<>>
    BY <1>2 DEF RxShape
  <2>2. Head(rx.local) \in Range(rx.local) /\ Range(rx.local) \subseteq Requests
    BY <1>1, <2>1, RangeTyped
  <2> QED
    BY <2>1, <2>2 DEF InLocal
<1>3. ASSUME rx.pc = "refillSubmit"
      PROVE  /\ Head(pending[rx.ep]) \in Requests /\ InPending(Head(pending[rx.ep]))
             /\ EndpointOf[Head(pending[rx.ep])] = rx.ep /\ pending[rx.ep] # <<>>
  <2>1. pending[rx.ep] # <<>>
    BY <1>3 DEF RxShape
  <2>2. Head(pending[rx.ep]) \in Range(pending[rx.ep]) /\ Range(pending[rx.ep]) \subseteq Requests
    BY <1>1, <2>1, RangeTyped
  <2>3. EndpointOf[Head(pending[rx.ep])] = rx.ep
    BY <1>1, <2>2 DEF QueuesDistinct
  <2> QED
    BY <2>1, <2>2, <2>3 DEF InPending
<1> QED
  BY <1>2, <1>3

\* No request moves.  One that is finished by this step, while the reactor runs,
\* was in no place.
LEMMA QuietKeepsPlaces ==
    ASSUME TypeOK, Pool, Places, UNCHANGED <<submitQueue, pending, conns, rx, rc>>,
           finished \subseteq finished', finished' \subseteq Requests,
           canceled \subseteq canceled', running' \in BOOLEAN,
           running' => running \/ finished' = {},
           running' => \A q \in finished' \ finished :
              /\ phase'[q] = "created" => q \in canceled'
              /\ ~InSubmit(q) /\ ~InLocal(q) /\ ~InPending(q) /\ ~InCtxs(q),
           \A q \in Requests : \/ phase'[q] = phase[q]
                               \/ phase'[q] = "created" /\ phase[q] = "new" /\ q \notin finished'
                               \/ phase'[q] = "sent" /\ (q \in finished' \/ phase[q] = "queued")
    PROVE  Places'
<1>p. \A q \in Requests : /\ InSubmit(q)' <=> InSubmit(q)
                          /\ InLocal(q)' <=> InLocal(q)
                          /\ InPending(q)' <=> InPending(q)
                          /\ InCtxs(q)' <=> InCtxs(q)
                          /\ InDone(q)' <=> InDone(q)
  BY DEF InSubmit, InLocal, InPending, InCtxs, InDone
<1>1. QueuesDistinct'
  BY DEF Places, QueuesDistinct
<1>2. OnePlace'
  BY <1>p DEF Places, OnePlace
<1>3. InFlightFound'
  <2>1. \A c \in Conns : \A q \in conns[c].ctxs : q \in Requests /\ InCtxs(q)
    BY Typed DEF InCtxs
  <2> QED
    BY <2>1 DEF Places, InFlightFound
<1>4. FinishedCanceled'
  <2> SUFFICES ASSUME running'
               PROVE  /\ \A q \in finished' :
                            InSubmit(q)' \/ InLocal(q)' \/ InPending(q)' \/ phase'[q] = "created"
                              => q \in canceled'
                      /\ rx'.pc \in {"drainSubmit", "settleSubmit"} => Head(rx'.local) \notin finished'
                      /\ rx'.pc = "refillSubmit" => Head(pending'[rx'.ep]) \notin finished'
    BY DEF FinishedCanceled
  <2>1. \A q \in finished' :
           InSubmit(q)' \/ InLocal(q)' \/ InPending(q)' \/ phase'[q] = "created" => q \in canceled'
    BY <1>p DEF Places, FinishedCanceled
  <2>2. rx.pc \in {"drainSubmit", "settleSubmit"} => Head(rx.local) \notin finished'
    BY HeadInPlace DEF Pool, Places, FinishedCanceled
  <2>3. rx.pc = "refillSubmit" => Head(pending[rx.ep]) \notin finished'
    BY HeadInPlace DEF Pool, Places, FinishedCanceled
  <2> QED
    BY <2>1, <2>2, <2>3
<1>5. Somewhere'
  BY <1>p DEF Places, Somewhere
<1> QED
  BY <1>1, <1>2, <1>3, <1>4, <1>5 DEF Places

\* A step that completes nothing keeps the callbacks, if the threads and close()
\* stay where they are.
LEMMA QuietKeepsCallbacks ==
    ASSUME TypeOK, Callbacks, NothingCompleted,
           UNCHANGED <<started, phase, running, dispatcher, closer>>,
           closer \in {"fail contexts", "return", "closed"} =>
              \A q \in Range(submitQueue') : phase[q] = "queued",
           rx.pc = "exited" => rx'.pc = "exited",
           rx'.pc = "exited" => rx.pc = "exited" \/ (~running /\ started = "yes")
    PROVE  Callbacks'
<1>1. Completes({}) /\ phase \in [Requests -> {"new", "created", "queued", "sent"}]
  BY NothingIsCompleted DEF TypeOK
<1> QED
  BY <1>1, CompletingKeepsCallbacks
-----------------------------------------------------------------------------
(***************************************************************************)
(* User threads                                                            *)
(***************************************************************************)
LEMMA StartKeeps == ASSUME IInv, startThreadsIfNeeded PROVE IInv'
<1> USE DEF IInv
<1>1. TypeOK'
  BY DEF TypeOK, startThreadsIfNeeded, ctxVars, poolVars
<1>2. /\ UNCHANGED <<phase, cancelling, ctxVars, canceled, submitQueue, tasks, rx, poolVars,
                     connectTasks, closer>>
      /\ started = "no" /\ started' # "no" /\ closer = "no"
      /\ \/ started' = "yes" /\ running'
         \/ started' = "failed" /\ ~running'
      /\ finished = {}
  <2>1. started = "no" /\ (\A q \in Requests : phase[q] = "new") /\ closer = "no" /\ ~running
    BY DEF startThreadsIfNeeded, Callbacks, CloseOrder
  <2>2. finished = {}
    BY <2>1 DEF Callbacks, ContextsOpen, TypeOK
  <2> QED
    BY <2>1, <2>2 DEF startThreadsIfNeeded
<1>3. Callbacks'
  <2>1. OneCallback' /\ ContextsOpen'
    BY <1>2 DEF Callbacks, OneCallback, ContextsOpen, ctxVars
  <2> QED
    BY <1>2, <2>1 DEF Callbacks, CloseOrder, ctxVars
<1>4. Posted'
  BY <1>2, SamePosted DEF poolVars, InSubmit
<1>5. Pool'
  BY <1>2, QuietKeepsPool DEF poolVars
<1>6. Places'
  <2>1. running' \in BOOLEAN /\ finished' \subseteq Requests
    BY <1>1 DEF TypeOK
  <2> QED
    BY <1>2, <2>1, QuietKeepsPlaces DEF poolVars, ctxVars
<1> QED
  BY <1>1, <1>3, <1>4, <1>5, <1>6

LEMMA SendFailsKeeps == ASSUME IInv, NEW q \in Requests, sendFails(q) PROVE IInv'
<1> USE DEF IInv
<1>1. /\ phase' = [phase EXCEPT ![q] = "sent"] /\ tryFinish({q}, "send")
      /\ UNCHANGED <<started, cancelling, canceled, submitQueue, tasks, rx, poolVars, threadVars>>
      /\ phase[q] = "new" /\ started # "no" /\ ~running
  BY DEF sendFails, Callbacks, CloseOrder
<1>c. Completes({q})
  BY <1>1 DEF Completes
<1>2. /\ finished' = finished \cup {q} /\ finished' \subseteq Requests
      /\ contexts' \subseteq Requests /\ timers' \subseteq Requests
      /\ callbacks' \in [Requests -> [queued : Nat, ran : Nat]]
      /\ completing' \in [Requests -> {"no", "send", "cancel", "close"}]
  BY <1>1, <1>c, CompleteEffect DEF Callbacks
<1>3. TypeOK'
  BY <1>1, <1>2 DEF TypeOK, poolVars, threadVars
<1>p. phase' \in [Requests -> {"new", "created", "queued", "sent"}]
      /\ phase'[q] = "sent" /\ \A r \in Requests : r # q => phase'[r] = phase[r]
  BY <1>1 DEF TypeOK
<1>s. ~InSubmit(q) /\ rx'.pc = rx.pc
  BY <1>1 DEF Places, OnePlace
<1>4. Callbacks'
  <2>2. closer \in {"fail contexts", "return", "closed"} => \A r \in Range(submitQueue) : phase'[r] = "queued"
    <3>1. Range(submitQueue) \subseteq Requests
      BY RangeTyped DEF TypeOK
    <3> QED
      BY <1>p, <1>s, <3>1 DEF Callbacks, CloseOrder, InSubmit
  <2> QED
    BY <1>1, <1>c, <1>p, <2>2, CompletingKeepsCallbacks DEF threadVars
<1>5. Posted'
  BY <1>1, <1>p, <1>s, SamePosted DEF poolVars, InSubmit
<1>6. Pool'
  BY <1>1, QuietKeepsPool DEF poolVars
<1>7. Places'
  BY <1>1, <1>2, <1>p, QuietKeepsPlaces DEF poolVars, threadVars, TypeOK
<1> QED
  BY <1>3, <1>4, <1>5, <1>6, <1>7

LEMMA SendAsyncKeeps == ASSUME IInv, NEW q \in Requests, sendAsync(q) PROVE IInv'
<1> USE DEF IInv
<1>1. /\ phase' = [phase EXCEPT ![q] = "created"] /\ phase[q] = "new" /\ started = "yes"
      /\ contexts' = contexts \cup {q} /\ timers' = timers \cup ({q} \cap Timed)
      /\ UNCHANGED <<started, cancelling, finished, callbacks, completing, canceled,
                     submitQueue, tasks, rx, poolVars, threadVars>>
  BY DEF sendAsync
<1>3. TypeOK'
  BY <1>1 DEF TypeOK, poolVars, threadVars
<1>p. phase' \in [Requests -> {"new", "created", "queued", "sent"}]
      /\ phase'[q] = "created" /\ \A r \in Requests : r # q => phase'[r] = phase[r]
  BY <1>1 DEF TypeOK
<1>s. ~InSubmit(q) /\ rx'.pc = rx.pc /\ q \notin finished
  BY <1>1 DEF Places, OnePlace, Callbacks, ContextsOpen
<1>4. Callbacks'
  <2>1. OneCallback'
    BY <1>1 DEF Callbacks, OneCallback
  <2>2. ContextsOpen'
    BY <1>1, <1>p, <1>s DEF Callbacks, ContextsOpen
  <2>3. Range(submitQueue) \subseteq Requests
    BY RangeTyped DEF TypeOK
  <2>4. CloseOrder'
    <3>1. contexts \subseteq Requests
      BY DEF TypeOK
    <3>2. closer' \in {"fail contexts", "return", "closed"} =>
             \A r \in Range(submitQueue') : phase'[r] = "queued"
      BY <1>1, <1>p, <1>s, <2>3 DEF Callbacks, CloseOrder, InSubmit, threadVars
    <3>3. closer' \in {"return", "closed"} =>
             \A r \in contexts' : phase'[r] \in {"created", "queued"}
      BY <1>1, <1>p, <3>1 DEF Callbacks, CloseOrder, threadVars
    <3> QED
      BY <1>1, <1>p, <3>2, <3>3 DEF Callbacks, CloseOrder, threadVars
  <2> QED
    BY <2>1, <2>2, <2>4 DEF Callbacks
<1>5. Posted'
  BY <1>1, <1>p, <1>s, SamePosted DEF poolVars, InSubmit
<1>6. Pool'
  BY <1>1, QuietKeepsPool DEF poolVars
<1>7. Places'
  BY <1>1, <1>p, <1>s, QuietKeepsPlaces DEF poolVars, threadVars, TypeOK
<1> QED
  BY <1>3, <1>4, <1>5, <1>6, <1>7

LEMMA PushKeeps == ASSUME IInv, NEW q \in Requests, pushSubmitQueue(q) PROVE IInv'
<1> USE DEF IInv
<1>1. /\ phase' = [phase EXCEPT ![q] = "queued"] /\ phase[q] = "created"
      /\ submitQueue' = Append(submitQueue, q)
      /\ UNCHANGED <<started, cancelling, ctxVars, canceled, tasks, rx, poolVars, threadVars>>
  BY DEF pushSubmitQueue
<1>2. phase' \in [Requests -> {"new", "created", "queued", "sent"}]
      /\ phase'[q] = "queued" /\ \A r \in Requests : r # q => phase'[r] = phase[r]
  BY <1>1 DEF TypeOK
<1>3. /\ submitQueue \in Seq(Requests) /\ NoDuplicates(submitQueue) /\ ~InSubmit(q)
  BY <1>1 DEF TypeOK, Places, QueuesDistinct, OnePlace
<1>4. /\ submitQueue' \in Seq(Requests) /\ NoDuplicates(submitQueue')
      /\ Range(submitQueue') = Range(submitQueue) \cup {q} /\ Range(submitQueue) \subseteq Requests
  BY <1>1, <1>3, Pushed, RangeTyped DEF InSubmit
<1>5. TypeOK'
  BY <1>1, <1>2, <1>4 DEF TypeOK, ctxVars, poolVars, threadVars
<1>6. Callbacks'
  <2>1. Completes({})
    BY <1>1, NothingIsCompleted DEF NothingCompleted, ctxVars
  <2>2. closer \in {"fail contexts", "return", "closed"} => \A r \in Range(submitQueue') : phase'[r] = "queued"
    BY <1>2, <1>4 DEF Callbacks, CloseOrder
  <2> QED
    BY <1>1, <1>2, <2>1, <2>2, CompletingKeepsCallbacks DEF threadVars
<1>7. Posted'
  BY <1>1, <1>2, <1>4, SamePosted DEF poolVars, InSubmit
<1>8. Pool'
  BY <1>1, QuietKeepsPool DEF poolVars
<1>9. Places'
  <2>p. \A r \in Requests : /\ InSubmit(r)' <=> InSubmit(r) \/ r = q
                            /\ InLocal(r)' <=> InLocal(r)
                            /\ InPending(r)' <=> InPending(r)
                            /\ InCtxs(r)' <=> InCtxs(r)
                            /\ InDone(r)' <=> InDone(r)
    BY <1>1, <1>4 DEF InSubmit, InLocal, InPending, InCtxs, InDone, poolVars
  <2>1. QueuesDistinct'
    BY <1>1, <1>4 DEF Places, QueuesDistinct, poolVars
  <2>2. OnePlace'
    BY <1>1, <1>2, <2>p DEF Places, OnePlace
  <2>3. InFlightFound'
    BY <1>1 DEF Places, InFlightFound, poolVars, ctxVars, threadVars
  <2>4. FinishedCanceled'
    <3>1. finished \subseteq Requests
      BY DEF TypeOK
    <3> QED
      BY <1>1, <1>2, <2>p, <3>1 DEF Places, FinishedCanceled, poolVars, ctxVars, threadVars
  <2>5. Somewhere'
    BY <1>1, <1>2, <2>p DEF Places, Somewhere, ctxVars
  <2> QED
    BY <2>1, <2>2, <2>3, <2>4, <2>5 DEF Places
<1> QED
  BY <1>5, <1>6, <1>7, <1>8, <1>9

\* A request leaves the submit queue, completed: by removeFromSubmitQueue in
\* sendAsync or in handleCancelOnReactor.
LEMMA LeavingSubmitKeepsPlaces ==
    ASSUME TypeOK, Pool, Places, UNCHANGED <<pending, conns, rx, rc, running>>,
           NEW S \in SUBSET Requests,
           NoDuplicates(submitQueue'), Range(submitQueue') = Range(submitQueue) \ S,
           finished' = finished \cup S, canceled \subseteq canceled',
           running => \A q \in S : InSubmit(q),
           \A q \in Requests : phase'[q] = phase[q] \/ (q \in S /\ phase'[q] = "sent")
    PROVE  Places'
<1>p. \A r \in Requests : /\ InSubmit(r)' <=> InSubmit(r) /\ r \notin S
                          /\ InLocal(r)' <=> InLocal(r)
                          /\ InPending(r)' <=> InPending(r)
                          /\ InCtxs(r)' <=> InCtxs(r)
                          /\ InDone(r)' <=> InDone(r)
  BY DEF InSubmit, InLocal, InPending, InCtxs, InDone
<1>1. QueuesDistinct'
  BY DEF Places, QueuesDistinct
<1>2. OnePlace'
  BY <1>p DEF Places, OnePlace
<1>3. InFlightFound'
  <2>1. \A c \in Conns : \A q \in conns[c].ctxs : q \in Requests /\ InCtxs(q)
    BY Typed DEF InCtxs
  <2> QED
    BY <2>1 DEF Places, InFlightFound, OnePlace
<1>4. FinishedCanceled'
  <2> SUFFICES ASSUME running
               PROVE  /\ \A q \in finished' :
                            InSubmit(q)' \/ InLocal(q)' \/ InPending(q)' \/ phase'[q] = "created"
                              => q \in canceled'
                      /\ rx.pc \in {"drainSubmit", "settleSubmit"} => Head(rx.local) \notin finished'
                      /\ rx.pc = "refillSubmit" => Head(pending[rx.ep]) \notin finished'
    BY DEF FinishedCanceled
  <2>0. finished \subseteq Requests
    BY DEF TypeOK
  <2>1. \A q \in finished' :
           InSubmit(q)' \/ InLocal(q)' \/ InPending(q)' \/ phase'[q] = "created" => q \in canceled'
    BY <1>p, <2>0 DEF Places, FinishedCanceled, OnePlace
  <2>2. rx.pc \in {"drainSubmit", "settleSubmit"} => Head(rx.local) \notin finished'
    BY HeadInPlace DEF Pool, Places, FinishedCanceled, OnePlace
  <2>3. rx.pc = "refillSubmit" => Head(pending[rx.ep]) \notin finished'
    BY HeadInPlace DEF Pool, Places, FinishedCanceled, OnePlace
  <2> QED
    BY <2>1, <2>2, <2>3
<1>5. Somewhere'
  BY <1>p DEF Places, Somewhere
<1> QED
  BY <1>1, <1>2, <1>3, <1>4, <1>5 DEF Places

LEMMA PostDrainKeeps == ASSUME IInv, NEW q \in Requests, postDrain(q) PROVE IInv'
<1> USE DEF IInv
<1>1. /\ phase' = [phase EXCEPT ![q] = "sent"] /\ phase[q] = "queued"
      /\ Post([kind |-> "drain"])
      /\ UNCHANGED <<started, cancelling, canceled, rx, poolVars, threadVars>>
      /\ running \in BOOLEAN /\ started # "no"
  BY DEF postDrain, TypeOK, Callbacks, CloseOrder
<1>2. phase' \in [Requests -> {"new", "created", "queued", "sent"}]
      /\ phase'[q] = "sent" /\ \A r \in Requests : r # q => phase'[r] = phase[r]
  BY <1>1 DEF TypeOK
<1>m. \A r \in Requests : cancelling[r] # "no" => r \in canceled
  BY DEF Posted, CancelsMarked
<1>3. CASE running
  <2>1. NothingCompleted /\ UNCHANGED submitQueue
    BY <1>3 DEF postDrain
  <2>2. Posted' /\ tasks' \in Seq(Tasks)
    <3>1. \A r \in Requests : InSubmit(r)' <=> InSubmit(r)
      BY <2>1 DEF InSubmit
    <3> QED
      BY <1>1, <1>2, <1>3, <1>m, <3>1, PostKeeps, TasksTyped DEF poolVars
  <2>3. TypeOK'
    BY <1>1, <1>2, <2>1, <2>2 DEF TypeOK, NothingCompleted, poolVars, threadVars
  <2>4. Callbacks'
    <3>1. Completes({})
      BY <2>1, NothingIsCompleted
    <3>2. closer \notin {"fail contexts", "return", "closed"}
      BY <1>3 DEF Callbacks, CloseOrder
    <3> QED
      BY <1>1, <1>2, <1>3, <3>1, <3>2, CompletingKeepsCallbacks DEF threadVars
  <2>5. Pool'
    BY <1>1, QuietKeepsPool DEF poolVars
  <2>6. Places'
    BY <1>1, <1>2, <2>1, QuietKeepsPlaces DEF poolVars, threadVars, TypeOK, NothingCompleted
  <2> QED
    BY <2>2, <2>3, <2>4, <2>5, <2>6
<1>4. CASE ~running
  <2>1. tryFinish({q}, "send") /\ submitQueue' = Without(submitQueue, q)
    BY <1>4 DEF postDrain
  <2>c. Completes({q})
    BY <2>1 DEF Completes
  <2>2. submitQueue \in Seq(Requests) /\ NoDuplicates(submitQueue)
    BY DEF TypeOK, Places, QueuesDistinct
  <2>3. /\ submitQueue' \in Seq(Requests) /\ NoDuplicates(submitQueue')
        /\ Range(submitQueue') = Range(submitQueue) \ {q} /\ Range(submitQueue) \subseteq Requests
    BY <2>1, <2>2, Erased, RangeTyped
  <2>4. /\ finished' = finished \cup {q} /\ finished' \subseteq Requests
        /\ contexts' \subseteq Requests /\ timers' \subseteq Requests
        /\ callbacks' \in [Requests -> [queued : Nat, ran : Nat]]
        /\ completing' \in [Requests -> {"no", "send", "cancel", "close"}]
    BY <2>c, CompleteEffect DEF Callbacks
  <2>5. Posted' /\ tasks' \in Seq(Tasks)
    <3>1. \A r \in Requests : InSubmit(r)' => InSubmit(r) /\ r # q
      BY <2>3 DEF InSubmit
    <3> QED
      BY <1>1, <1>2, <1>m, <3>1, PostKeeps, TasksTyped DEF poolVars
  <2>6. TypeOK'
    BY <1>1, <1>2, <2>3, <2>4, <2>5 DEF TypeOK, poolVars, threadVars
  <2>7. Callbacks'
    <3>1. closer \in {"fail contexts", "return", "closed"} => \A r \in Range(submitQueue') : phase'[r] = "queued"
      BY <1>2, <2>3 DEF Callbacks, CloseOrder
    <3> QED
      BY <1>1, <1>2, <2>c, <3>1, CompletingKeepsCallbacks DEF threadVars
  <2>8. Pool'
    BY <1>1, QuietKeepsPool DEF poolVars
  <2>9. Places'
    BY <1>1, <1>2, <1>4, <2>3, <2>4, LeavingSubmitKeepsPlaces DEF poolVars, threadVars
  <2> QED
    BY <2>5, <2>6, <2>7, <2>8, <2>9
<1> QED
  BY <1>1, <1>3, <1>4

LEMMA CancelKeeps == ASSUME IInv, NEW q \in Requests, cancel(q) PROVE IInv'
<1> USE DEF IInv
<1>1. /\ canceled' = canceled \cup {q} /\ cancelling' = [cancelling EXCEPT ![q] = "marked"]
      /\ UNCHANGED <<started, phase, ctxVars, submitQueue, tasks, rx, poolVars, threadVars>>
  BY DEF cancel
<1>2. TypeOK'
  BY <1>1 DEF TypeOK, ctxVars, poolVars, threadVars
<1>3. Callbacks'
  <2>1. closer \in {"fail contexts", "return", "closed"} => \A r \in Range(submitQueue') : phase[r] = "queued"
    BY <1>1 DEF Callbacks, CloseOrder
  <2> QED
    BY <1>1, <2>1, QuietKeepsCallbacks DEF ctxVars, threadVars, NothingCompleted
<1>4. Posted'
  BY <1>1 DEF Posted, PostedOnce, CancelsMarked, DrainPosted, InSubmit, poolVars, TypeOK
<1>5. Pool'
  BY <1>1, QuietKeepsPool DEF poolVars
<1>6. Places'
  BY <1>1, QuietKeepsPlaces DEF poolVars, ctxVars, threadVars, TypeOK
<1> QED
  BY <1>2, <1>3, <1>4, <1>5, <1>6

LEMMA PostCancelKeeps == ASSUME IInv, NEW q \in Requests, postCancel(q) PROVE IInv'
<1> USE DEF IInv
<1>1. /\ cancelling[q] = "marked" /\ cancelling' = [cancelling EXCEPT ![q] = "done"]
      /\ Post([kind |-> "cancel", req |-> q]) \/ UNCHANGED tasks
      /\ UNCHANGED <<started, phase, ctxVars, canceled, submitQueue, rx, poolVars, threadVars>>
  BY DEF postCancel
<1>2. /\ \A r \in Requests : cancelling'[r] # "no" => r \in canceled
      /\ q \in canceled
      /\ cancelling' \in [Requests -> {"no", "marked", "done"}]
  BY <1>1 DEF Posted, CancelsMarked, TypeOK
<1>d. Post([kind |-> "cancel", req |-> q]) \/ UNCHANGED tasks
  BY DEF postCancel
<1>3. Posted' /\ tasks' \in Seq(Tasks)
  <2>1. CASE Post([kind |-> "cancel", req |-> q])
    BY <1>1, <1>2, <2>1, PostKeeps, TasksTyped DEF poolVars, InSubmit
  <2>2. CASE UNCHANGED tasks
    <3>1. tasks' \in Seq(Tasks)
      BY <2>2 DEF TypeOK
    <3>2. PostedOnce' /\ DrainPosted'
      BY <1>1, <2>2 DEF Posted, PostedOnce, DrainPosted, InSubmit, poolVars
    <3>3. CancelsMarked'
      BY <1>1, <1>2, <2>2 DEF Posted, CancelsMarked
    <3> QED
      BY <3>1, <3>2, <3>3 DEF Posted
  <2> QED
    BY <1>d, <2>1, <2>2
<1>4. TypeOK'
  BY <1>1, <1>2, <1>3 DEF TypeOK, ctxVars, poolVars, threadVars
<1>5. Callbacks'
  <2>1. closer \in {"fail contexts", "return", "closed"} => \A r \in Range(submitQueue') : phase[r] = "queued"
    BY <1>1 DEF Callbacks, CloseOrder
  <2> QED
    BY <1>1, <2>1, QuietKeepsCallbacks DEF ctxVars, threadVars, NothingCompleted
<1>6. Pool'
  BY <1>1, QuietKeepsPool DEF poolVars
<1>7. Places'
  BY <1>1, QuietKeepsPlaces DEF poolVars, ctxVars, threadVars, TypeOK
<1> QED
  BY <1>3, <1>4, <1>5, <1>6, <1>7
-----------------------------------------------------------------------------
(***************************************************************************)
(* The connector, the dispatcher and close()                               *)
(***************************************************************************)
\* Steps of a thread that touch no request
LEMMA ThreadStepKeeps ==
    ASSUME IInv, TypeOK', Posted',
           UNCHANGED <<callVars, ctxVars, canceled, submitQueue, rx, poolVars, running, dispatcher,
                       closer>>
    PROVE  IInv'
<1> USE DEF IInv
<1>1. Callbacks'
  <2>1. closer \in {"fail contexts", "return", "closed"} => \A r \in Range(submitQueue') : phase[r] = "queued"
    BY DEF Callbacks, CloseOrder
  <2> QED
    BY <2>1, QuietKeepsCallbacks DEF ctxVars, callVars, NothingCompleted
<1>2. Pool'
  BY QuietKeepsPool DEF poolVars
<1>3. Places'
  BY QuietKeepsPlaces DEF poolVars, ctxVars, callVars, TypeOK
<1> QED
  BY <1>1, <1>2, <1>3

LEMMA ConnectorKeeps ==
    ASSUME IInv, connectorTakes \/ connectorExits \/ connectFails PROVE IInv'
<1> USE DEF IInv
<1>m. \A r \in Requests : cancelling[r] # "no" => r \in canceled
  BY DEF Posted, CancelsMarked
<1>1. ASSUME connectorTakes PROVE IInv'
  <2>1. /\ connector' = [connector EXCEPT !.pc = "connecting", !.ep = Head(connectTasks)]
        /\ connectTasks # <<>> /\ connectTasks' = Tail(connectTasks)
        /\ UNCHANGED <<callVars, ctxVars, canceled, submitQueue, tasks, rx, poolVars, running,
                       dispatcher, closer>>
    BY <1>1 DEF connectorTakes
  <2>2. connectTasks \in Seq(Endpoints)
    BY DEF TypeOK
  <2>3. Head(connectTasks) \in Endpoints /\ connectTasks' \in Seq(Endpoints)
    BY <2>1, <2>2
  <2>4. TypeOK'
    BY <2>1, <2>3 DEF TypeOK, callVars, ctxVars, poolVars
  <2>5. Posted'
    BY <2>1, SamePosted DEF poolVars, InSubmit, callVars
  <2> QED
    BY <2>1, <2>4, <2>5, ThreadStepKeeps
<1>2. ASSUME connectorExits PROVE IInv'
  <2>1. /\ connector' = [connector EXCEPT !.pc = "exited"] /\ UNCHANGED connectTasks
        /\ UNCHANGED <<callVars, ctxVars, canceled, submitQueue, tasks, rx, poolVars, running,
                       dispatcher, closer>>
    BY <1>2 DEF connectorExits
  <2>2. TypeOK'
    BY <2>1 DEF TypeOK, callVars, ctxVars, poolVars
  <2>3. Posted'
    BY <2>1, SamePosted DEF poolVars, InSubmit, callVars
  <2> QED
    BY <2>1, <2>2, <2>3, ThreadStepKeeps
<1>3. ASSUME connectFails PROVE IInv'
  <2>1. /\ connector' = [connector EXCEPT !.pc = "wait"] /\ UNCHANGED connectTasks
        /\ Post([kind |-> "failed", ep |-> connector.ep])
        /\ UNCHANGED <<callVars, ctxVars, canceled, submitQueue, rx, poolVars, running,
                       dispatcher, closer>>
    BY <1>3 DEF connectFails
  <2>2. connector.ep \in Endpoints
    BY DEF TypeOK
  <2>3. Posted' /\ tasks' \in Seq(Tasks)
    <3>1. [kind |-> "failed", ep |-> connector.ep] \in Tasks
      BY <2>2, TasksTyped
    <3> QED
      BY <1>m, <2>1, <3>1, PostKeeps DEF poolVars, callVars, InSubmit
  <2>4. TypeOK'
    BY <2>1, <2>3 DEF TypeOK, callVars, ctxVars, poolVars
  <2> QED
    BY <2>1, <2>3, <2>4, ThreadStepKeeps
<1> QED
  BY <1>1, <1>2, <1>3

LEMMA ConnectSucceedsKeeps == ASSUME IInv, NEW c \in Conns, connectSucceeds(c) PROVE IInv'
<1> USE DEF IInv
<1> DEFINE k == [conns[c] EXCEPT !.at = "posted", !.ep = connector.ep,
                                 !.connected = TRUE, !.healthy = TRUE]
           t == [kind |-> "established", conn |-> c]
<1>1. /\ conns[c].at = "unused" /\ conns' = [conns EXCEPT ![c] = k]
      /\ Post(t) /\ connector' = [connector EXCEPT !.pc = "wait"]
      /\ UNCHANGED <<callVars, ctxVars, canceled, submitQueue, rx, pending, connecting, rc,
                     running, connectTasks, dispatcher, closer>>
  BY DEF connectSucceeds
<1>2. conns[c] \in ConnType /\ connector.ep \in Endpoints /\ conns \in [Conns -> ConnType]
  BY DEF TypeOK
<1>3. /\ k \in ConnType /\ k.at = "posted" /\ k.connected /\ k.healthy
      /\ k.ctxs = conns[c].ctxs /\ k.streams = conns[c].streams
  BY <1>2 DEF ConnType
<1> HIDE DEF k
<1>4. /\ conns' \in [Conns -> ConnType] /\ conns'[c] = k
      /\ \A d \in Conns : d # c => conns'[d] = conns[d]
  BY <1>1, <1>2, <1>3
<1>5. t \notin Range(tasks)
  BY <1>1 DEF Range, Posted, PostedOnce
<1>6. Posted' /\ tasks' \in Seq(Tasks)
  <2>1. \A r \in Requests : cancelling'[r] # "no" => r \in canceled
    BY <1>1 DEF Posted, CancelsMarked, callVars
  <2>2. t \in Tasks /\ t.kind = "established" /\ t.conn = c
    BY TasksTyped
  <2> HIDE DEF t
  <2>3. /\ \A r \in Requests : InSubmit(r)' <=> InSubmit(r)
        /\ UNCHANGED <<phase, canceled>>
        /\ \A d \in Conns : conns[d].at = "posted" => conns'[d].at = "posted"
        /\ conns'[c].at = "posted"
    BY <1>1, <1>3, <1>4 DEF InSubmit, callVars
  <2> QED
    BY <1>1, <1>5, <2>1, <2>2, <2>3, PostKeeps
<1>7. TypeOK'
  <2>1. connector' \in [pc : {"off", "wait", "connecting", "exited"}, ep : Endpoints,
                        stop : BOOLEAN]
    BY <1>1 DEF TypeOK
  <2> QED
    BY <1>1, <1>4, <1>6, <2>1 DEF TypeOK, callVars, ctxVars
<1>8. Callbacks'
  <2>1. closer \in {"fail contexts", "return", "closed"} => \A r \in Range(submitQueue') : phase[r] = "queued"
    BY <1>1 DEF Callbacks, CloseOrder
  <2> QED
    BY <1>1, <2>1, QuietKeepsCallbacks DEF ctxVars, callVars, NothingCompleted
<1>9. ASSUME NEW d \in Conns, Pooled(d) \/ conns[d].at = "posted" PROVE conns'[d] = conns[d]
  BY <1>1, <1>4, <1>9 DEF Pooled
<1>10. Pool'
  <2>1. rx.conn \in Conns \cup {NoConn} /\ rx.to \in Conns \cup {NoConn} /\ NoConn \notin Conns
        /\ \A q \in Requests : rc[q] \in Conns \cup {NoConn}
    BY Typed
  <2>2. rx.conn \in Conns => conns'[rx.conn] = conns[rx.conn]
    BY <1>9, <2>1 DEF Pool, PointersValid
  <2>3. rx.to \in Conns => conns'[rx.to] = conns[rx.to]
    BY <1>9, <2>1 DEF Pool, PointersValid
  <2>4. \A q \in Requests : rc[q] \in Conns => conns'[rc[q]] = conns[rc[q]]
    BY <1>9, <2>1 DEF Pool, PointersValid
  <2>5. RxShape'
    BY <1>1, <2>1, <2>2 DEF Pool, RxShape
  <2>6. ConnsShape'
    BY <1>3, <1>4 DEF Pool, ConnsShape
  <2>7. PointersValid'
    BY <1>1, <2>1, <2>2, <2>3, <2>4 DEF Pool, PointersValid, Pooled
  <2> QED
    BY <2>5, <2>6, <2>7 DEF Pool
<1>11. Places'
  <2>c. \A d \in Conns : /\ conns'[d].ctxs = conns[d].ctxs
                         /\ conns'[d].streams = conns[d].streams
                         /\ conns[d].connected => conns'[d].connected
    BY <1>3, <1>4
  <2>p. \A r \in Requests : /\ InSubmit(r)' <=> InSubmit(r)
                            /\ InLocal(r)' <=> InLocal(r)
                            /\ InPending(r)' <=> InPending(r)
                            /\ InCtxs(r)' <=> InCtxs(r)
                            /\ InDone(r)' <=> InDone(r)
    BY <1>1, <2>c DEF InSubmit, InLocal, InPending, InCtxs, InDone
  <2>1. QueuesDistinct'
    BY <1>1 DEF Places, QueuesDistinct
  <2>2. OnePlace'
    BY <1>1, <2>p DEF Places, OnePlace, callVars
  <2>3. InFlightFound'
    BY <1>1, <2>c DEF Places, InFlightFound, ctxVars
  <2>4. FinishedCanceled'
    <3>1. finished \subseteq Requests
      BY DEF TypeOK
    <3> QED
      BY <1>1, <2>p, <3>1 DEF Places, FinishedCanceled, ctxVars, callVars
  <2>5. Somewhere'
    BY <1>1, <2>p DEF Places, Somewhere, ctxVars, callVars
  <2> QED
    BY <2>1, <2>2, <2>3, <2>4, <2>5 DEF Places
<1> QED
  BY <1>6, <1>7, <1>8, <1>10, <1>11

LEMMA RunCallbackKeeps == ASSUME IInv, NEW q \in Requests, runCallback(q) PROVE IInv'
<1> USE DEF IInv
<1>1. /\ callbacks[q].queued > 0
      /\ callbacks' = [callbacks EXCEPT ![q] = [queued |-> callbacks[q].queued - 1,
                                                ran |-> callbacks[q].ran + 1]]
      /\ UNCHANGED <<callVars, contexts, finished, timers, completing, canceled, submitQueue,
                     tasks, rx, poolVars, threadVars>>
  BY DEF runCallback
<1>2. callbacks \in [Requests -> [queued : Nat, ran : Nat]]
  BY DEF TypeOK
<1>3. /\ callbacks' \in [Requests -> [queued : Nat, ran : Nat]]
      /\ \A r \in Requests : callbacks'[r].queued + callbacks'[r].ran
                             = callbacks[r].queued + callbacks[r].ran
  BY <1>1, <1>2
<1>4. TypeOK'
  BY <1>1, <1>3 DEF TypeOK, callVars, poolVars, threadVars
<1>5. Callbacks'
  <2>1. OneCallback'
    BY <1>1, <1>3 DEF Callbacks, OneCallback
  <2>2. ContextsOpen'
    BY <1>1 DEF Callbacks, ContextsOpen, callVars
  <2>0. callbacks[q].queued # 0
    BY <1>1
  <2>3. closer \notin {"fail queued", "fail contexts", "return", "closed"}
    BY <2>0 DEF Callbacks, CloseOrder
  <2>4. CloseOrder'
    BY <1>1, <2>3 DEF Callbacks, CloseOrder, callVars, threadVars
  <2> QED
    BY <2>1, <2>2, <2>4 DEF Callbacks
<1>6. Posted'
  BY <1>1, SamePosted DEF poolVars, callVars, InSubmit
<1>7. Pool'
  BY <1>1, QuietKeepsPool DEF poolVars
<1>8. Places'
  BY <1>1, QuietKeepsPlaces DEF poolVars, callVars, threadVars, TypeOK
<1> QED
  BY <1>4, <1>5, <1>6, <1>7, <1>8

LEMMA PassCallbackKeeps == ASSUME IInv, NEW q \in Requests, passCallback(q) PROVE IInv'
<1> USE DEF IInv
<1>1. /\ completing[q] # "no" /\ completing' = [completing EXCEPT ![q] = "no"]
      /\ callbacks' = [r \in Requests |->
            IF r \notin {q} THEN callbacks[r]
            ELSE IF dispatcher = "on"
                 THEN [callbacks[r] EXCEPT !.queued = @ + 1]
                 ELSE [callbacks[r] EXCEPT !.ran = @ + 1]]
      /\ UNCHANGED <<callVars, contexts, finished, timers, canceled, submitQueue, tasks, rx,
                     poolVars, threadVars>>
  BY DEF passCallback, invokeCompletion
<1>2. /\ callbacks \in [Requests -> [queued : Nat, ran : Nat]]
      /\ completing \in [Requests -> {"no", "send", "cancel", "close"}]
  BY DEF TypeOK
<1>3. ASSUME NEW r \in Requests
      PROVE  /\ callbacks'[r] \in [queued : Nat, ran : Nat]
             /\ callbacks'[r].queued + callbacks'[r].ran
                   + (IF completing'[r] = "no" THEN 0 ELSE 1) = IF r \in finished THEN 1 ELSE 0
             /\ dispatcher # "on" => callbacks'[r].queued = callbacks[r].queued
             /\ completing'[r] = "close" => completing[r] = "close"
             /\ completing'[r] \in {"no", "send", "cancel", "close"}
  <2>0. callbacks[r].queued + callbacks[r].ran + (IF completing[r] = "no" THEN 0 ELSE 1)
            = IF r \in finished THEN 1 ELSE 0
    BY DEF Callbacks, OneCallback
  <2>t. callbacks[r] \in [queued : Nat, ran : Nat]
        /\ completing[r] \in {"no", "send", "cancel", "close"}
    BY <1>2
  <2>1. CASE r # q
    <3>1. callbacks'[r] = callbacks[r] /\ completing'[r] = completing[r]
      BY <1>1, <1>2, <2>1
    <3> QED
      BY <2>0, <2>t, <3>1
  <2>2. CASE r = q
    <3>1. completing'[r] = "no" /\ completing[r] # "no"
      BY <1>1, <1>2, <2>2
    <3>2. CASE dispatcher = "on"
      <4>1. callbacks'[r] = [callbacks[r] EXCEPT !.queued = @ + 1]
        BY <1>1, <2>2, <3>2
      <4> QED
        BY <2>0, <2>t, <3>1, <3>2, <4>1
    <3>3. CASE dispatcher # "on"
      <4>1. callbacks'[r] = [callbacks[r] EXCEPT !.ran = @ + 1]
        BY <1>1, <2>2, <3>3
      <4> QED
        BY <2>0, <2>t, <3>1, <3>3, <4>1
    <3> QED
      BY <3>2, <3>3
  <2> QED
    BY <2>1, <2>2
<1>4. TypeOK'
  <2>1. callbacks' \in [Requests -> [queued : Nat, ran : Nat]]
    <3>1. DOMAIN callbacks' = Requests /\ callbacks' = [r \in Requests |-> callbacks'[r]]
      BY <1>1
    <3> QED
      BY <1>3, <3>1
  <2>2. completing' \in [Requests -> {"no", "send", "cancel", "close"}]
    BY <1>1, <1>2
  <2> QED
    BY <1>1, <2>1, <2>2 DEF TypeOK, callVars, poolVars, threadVars
<1>5. Callbacks'
  <2>1. OneCallback'
    BY <1>1, <1>3 DEF OneCallback
  <2>2. ContextsOpen'
    BY <1>1 DEF Callbacks, ContextsOpen, callVars
  <2>3. CloseOrder'
    BY <1>1, <1>3 DEF Callbacks, CloseOrder, callVars, threadVars
  <2> QED
    BY <2>1, <2>2, <2>3 DEF Callbacks
<1>6. Posted'
  BY <1>1, SamePosted DEF poolVars, callVars, InSubmit
<1>7. Pool'
  BY <1>1, QuietKeepsPool DEF poolVars
<1>8. Places'
  BY <1>1, QuietKeepsPlaces DEF poolVars, callVars, threadVars, TypeOK
<1> QED
  BY <1>4, <1>5, <1>6, <1>7, <1>8

\* The steps of close() before and after it fails what is left
LEMMA StopKeeps ==
    ASSUME IInv,
           \/ stopConnector \/ postClose \/ stopReactor \/ stopDispatcher \/ dispatcherJoined
           \/ closeReturns
    PROVE  IInv'
<1> USE DEF IInv
<1>1. UNCHANGED <<callVars, contexts, finished, callbacks, completing, canceled, submitQueue, rx,
                  poolVars, connectTasks>>
  BY DEF stopConnector, postClose, stopReactor, stopDispatcher, dispatcherJoined, closeReturns,
         ctxVars
<1>2. Posted' /\ tasks' \in Seq(Tasks)
  <2>1. CASE postClose
    <3>1. \A r \in Requests : cancelling'[r] # "no" => r \in canceled
      BY <1>1 DEF Posted, CancelsMarked, callVars
    <3> QED
      BY <1>1, <2>1, <3>1, PostKeeps, TasksTyped DEF postClose, poolVars, callVars, InSubmit
  <2>2. CASE ~postClose
    <3>1. UNCHANGED tasks
      BY <2>2 DEF stopConnector, stopReactor, stopDispatcher, dispatcherJoined,
             closeReturns
    <3> QED
      BY <1>1, <3>1, SamePosted DEF poolVars, callVars, InSubmit, TypeOK
  <2> QED
    BY <2>1, <2>2
<1>3. TypeOK'
  <2>1. /\ running' \in BOOLEAN /\ dispatcher' \in {"off", "on", "stopping"}
        /\ timers' \subseteq Requests
        /\ connector' \in [pc : {"off", "wait", "connecting", "exited"}, ep : Endpoints,
                           stop : BOOLEAN]
        /\ closer' \in {"no", "join connector", "stop reactor", "join reactor",
                        "join dispatcher", "fail queued", "fail contexts", "return", "closed"}
    BY DEF TypeOK, stopConnector, postClose, stopReactor, stopDispatcher, dispatcherJoined,
           closeReturns, ctxVars, CloseStep
  <2> QED
    BY <1>1, <1>2, <2>1 DEF TypeOK, callVars, poolVars
<1>4. Callbacks'
  <2>1. OneCallback' /\ ContextsOpen'
    <3>1. timers' = timers \/ timers' = {}
      BY DEF stopConnector, postClose, stopReactor, stopDispatcher, dispatcherJoined,
             closeReturns, ctxVars
    <3> QED
      BY <1>1, <3>1 DEF Callbacks, OneCallback, ContextsOpen, callVars
  <2>2. CloseOrder'
    <3>1. CASE stopConnector
      BY <1>1, <3>1 DEF stopConnector, CloseStep, Callbacks, CloseOrder, callVars
    <3>2. CASE postClose
      BY <1>1, <3>2 DEF postClose, CloseStep, Callbacks, CloseOrder, callVars
    <3>3. CASE stopReactor
      BY <1>1, <3>3 DEF stopReactor, CloseStep, Callbacks, CloseOrder, callVars
    <3>4. CASE stopDispatcher
      BY <1>1, <3>4 DEF stopDispatcher, CloseStep, Callbacks, CloseOrder, callVars
    <3>5. CASE dispatcherJoined
      BY <1>1, <3>5 DEF dispatcherJoined, CloseStep, Callbacks, CloseOrder, callVars
    <3>6. CASE closeReturns
      BY <1>1, <3>6 DEF closeReturns, CloseStep, CallbacksPassed, Callbacks, CloseOrder, callVars
    <3> QED
      BY <3>1, <3>2, <3>3, <3>4, <3>5, <3>6
  <2> QED
    BY <2>1, <2>2 DEF Callbacks
<1>5. Pool'
  BY <1>1, QuietKeepsPool DEF poolVars
<1>6. Places'
  <2>1. running' => running
    BY DEF stopConnector, postClose, stopReactor, stopDispatcher, dispatcherJoined,
             closeReturns
  <2>2. running' \in BOOLEAN /\ finished' \subseteq Requests
    BY <1>3 DEF TypeOK
  <2> QED
    BY <1>1, <2>1, <2>2, QuietKeepsPlaces DEF poolVars, callVars
<1> QED
  BY <1>2, <1>3, <1>4, <1>5, <1>6

LEMMA FailQueuedKeeps == ASSUME IInv, failQueuedRequests PROVE IInv'
<1> USE DEF IInv
<1>1. /\ closer = "fail queued" /\ closer' = "fail contexts"
      /\ tryFinish(Range(submitQueue), "close") /\ submitQueue' = <<>>
      /\ UNCHANGED <<callVars, canceled, tasks, rx, poolVars, running, connectTasks, connector,
                     dispatcher>>
  BY DEF failQueuedRequests, CloseStep
<1>2. Range(submitQueue) \subseteq Requests /\ Range(submitQueue') = {}
      /\ NoDuplicates(submitQueue') /\ submitQueue' \in Seq(Requests)
  <2>1. submitQueue \in Seq(Requests)
    BY DEF TypeOK
  <2>2. <<>> \in Seq(Requests)
    OBVIOUS
  <2> QED
    BY <1>1, <2>1, <2>2, RangeTyped, Empty
<1>3. /\ finished' = finished \cup Range(submitQueue) /\ finished' \subseteq Requests
      /\ contexts' = contexts \ (Range(submitQueue) \ finished) /\ contexts' \subseteq Requests
      /\ timers' = timers \ (Range(submitQueue) \ finished) /\ timers' \subseteq Requests
      /\ callbacks' = callbacks
      /\ completing' \in [Requests -> {"no", "send", "cancel", "close"}]
      /\ OneCallback'
  BY <1>1, <1>2, FinishEffect DEF Callbacks
<1>4. TypeOK'
  BY <1>1, <1>2, <1>3 DEF TypeOK, callVars, poolVars
<1>5. Callbacks'
  <2>1. ContextsOpen'
    <3>1. \A q \in Range(submitQueue) : phase[q] # "new"
      BY <1>2 DEF Places, OnePlace, InSubmit
    <3>2. contexts' \cap finished' = {} /\ timers' \subseteq contexts'
      BY <1>3 DEF Callbacks, ContextsOpen
    <3>3. ASSUME NEW q \in Requests
          PROVE  IF phase'[q] = "new" THEN q \notin contexts' /\ q \notin finished'
                 ELSE q \in contexts' \/ q \in finished'
      BY <1>1, <1>3, <3>1 DEF Callbacks, ContextsOpen, callVars
    <3> QED
      BY <3>2, <3>3 DEF ContextsOpen
  <2>2. CloseOrder'
    BY <1>1, <1>2, <1>3 DEF Callbacks, CloseOrder, callVars
  <2> QED
    BY <1>3, <2>1, <2>2 DEF Callbacks
<1>6. Posted'
  BY <1>1, <1>2, SamePosted DEF poolVars, callVars, InSubmit
<1>7. Pool'
  BY <1>1, QuietKeepsPool DEF poolVars
<1>8. Places'
  <2>1. ~running
    BY <1>1 DEF Callbacks, CloseOrder
  <2> QED
    BY <1>1, <1>2, <1>3, <2>1, LeavingSubmitKeepsPlaces DEF poolVars, callVars
<1> QED
  BY <1>4, <1>5, <1>6, <1>7, <1>8

LEMMA FailContextsKeeps == ASSUME IInv, failAllContexts PROVE IInv'
<1> USE DEF IInv
<1>1. /\ closer = "fail contexts" /\ closer' = "return" /\ tryFinish(contexts, "close")
      /\ UNCHANGED <<callVars, canceled, submitQueue, tasks, rx, poolVars, running, connectTasks,
                     connector, dispatcher>>
  BY DEF failAllContexts, CloseStep
<1>2. contexts \subseteq Requests /\ contexts \cap finished = {}
  BY DEF TypeOK, Callbacks, ContextsOpen
<1>3. /\ finished' = finished \cup contexts /\ finished' \subseteq Requests
      /\ contexts' = {} /\ timers' = timers \ contexts
      /\ callbacks' = callbacks
      /\ completing' \in [Requests -> {"no", "send", "cancel", "close"}]
      /\ OneCallback'
  BY <1>1, <1>2, FinishEffect DEF Callbacks
<1>4. TypeOK'
  BY <1>1, <1>3 DEF TypeOK, callVars, poolVars
<1>5. Callbacks'
  <2>1. ContextsOpen'
    BY <1>1, <1>2, <1>3 DEF Callbacks, ContextsOpen, callVars
  <2>2. CloseOrder'
    BY <1>1, <1>3 DEF Callbacks, CloseOrder, callVars
  <2> QED
    BY <1>3, <2>1, <2>2 DEF Callbacks
<1>6. Posted'
  BY <1>1, SamePosted DEF poolVars, callVars, InSubmit
<1>7. Pool'
  BY <1>1, QuietKeepsPool DEF poolVars
<1>8. Places'
  <2>1. ~running
    BY <1>1 DEF Callbacks, CloseOrder
  <2> QED
    BY <1>1, <1>3, <2>1, QuietKeepsPlaces DEF poolVars, callVars, TypeOK
<1> QED
  BY <1>4, <1>5, <1>6, <1>7, <1>8
-----------------------------------------------------------------------------
(***************************************************************************)
(* The reactor thread: what its steps have in common                       *)
(***************************************************************************)
\* The idle reactor holds nothing.
LEMMA IdleRx ==
    /\ Idle \in RxType /\ Idle.pc = "idle" /\ Idle.local = <<>> /\ Idle.conn = NoConn
    /\ Idle.to = NoConn /\ Idle.done = {} /\ ~Idle.dead /\ Idle.ep \in Endpoints
<1>1. (CHOOSE e \in Endpoints : TRUE) \in Endpoints
  BY ManagerAssumption
<1>2. <<>> \in Seq(Requests)
  OBVIOUS
<1> QED
  BY <1>1, <1>2 DEF Idle, RxType

\* While it is idle, requestConnections leads to open connections only.
LEMMA IdleFacts ==
    ASSUME TypeOK, Pool, rx.pc = "idle"
    PROVE  /\ rx.local = <<>> /\ rx.conn = NoConn /\ rx.to = NoConn /\ rx.done = {} /\ ~rx.dead
           /\ \A q \in Requests : ~InLocal(q) /\ ~InDone(q)
           /\ \A q \in Requests : rc[q] # NoConn => /\ rc[q] \in Conns /\ Pooled(rc[q])
                                                    /\ conns[rc[q]].connected
<1>1. rx.local = <<>> /\ rx.conn = NoConn /\ rx.to = NoConn /\ rx.done = {} /\ ~rx.dead
  BY DEF Pool, RxShape
<1>2. \A q \in Requests : ~InLocal(q) /\ ~InDone(q)
  BY <1>1, Empty DEF InLocal, InDone
<1> QED
  BY <1>1, <1>2, Typed DEF Pool, PointersValid

\* Only a connection in the pool has contexts.
LEMMA ContextsPooled ==
    ASSUME TypeOK, Pool, InFlightFound
    PROVE  \A c \in Conns : conns[c].ctxs # {} =>
              Pooled(c) /\ conns[c].connected /\ conns[c].healthy
<1> SUFFICES ASSUME NEW c \in Conns, NEW q \in conns[c].ctxs
             PROVE  Pooled(c) /\ conns[c].connected /\ conns[c].healthy
  OBVIOUS
<1>1. q \in Requests /\ rc[q] = c /\ conns[c].connected /\ c # NoConn
  BY Typed DEF InFlightFound
<1>2. Pooled(c)
  BY <1>1 DEF Pool, PointersValid
<1>3. conns[c].healthy
  BY Typed DEF Pool, ConnsShape
<1> QED
  BY <1>1, <1>2, <1>3

\* One connection is given a new state.
LEMMA BecomesEffect ==
    ASSUME TypeOK, NEW c \in Conns, NEW k \in ConnType, Becomes(c, k)
    PROVE  /\ conns' \in [Conns -> ConnType] /\ conns'[c] = k
           /\ \A d \in Conns : d # c => conns'[d] = conns[d]
BY DEF TypeOK, Becomes

\* The states a session passes to: it has failed, or lost a stream.
LEMMA SessionStates ==
    ASSUME NEW k \in ConnType
    PROVE  /\ DeadSession(k) \in ConnType /\ DeadSession(k).at = k.at /\ DeadSession(k).ep = k.ep
           /\ DeadSession(k).connected = k.connected /\ ~DeadSession(k).healthy
           /\ DeadSession(k).ctxs = {} /\ DeadSession(k).streams = {}
BY DEF DeadSession, ConnType

LEMMA StreamDropped ==
    ASSUME NEW k \in ConnType, NEW q
    PROVE  /\ DropStream(k, q) \in ConnType /\ DropStream(k, q).at = k.at
           /\ DropStream(k, q).ep = k.ep /\ DropStream(k, q).connected = k.connected
           /\ DropStream(k, q).healthy = k.healthy
           /\ DropStream(k, q).ctxs = k.ctxs \ {q} /\ DropStream(k, q).streams = k.streams \ {q}
BY DEF DropStream, ConnType

(***************************************************************************)
(* A session reads, fails or loses a stream: the reactor was idle or       *)
(* reading from it, and the requests that leave the session become events  *)
(* of that session (or are lost, where an error path drops the events).    *)
(***************************************************************************)
LEMMA SessionKeepsPool ==
    ASSUME TypeOK, Pool, Places, NEW c \in Conns, NEW k \in ConnType, Becomes(c, k),
           Pooled(c), rx.pc = "idle" \/ (rx.pc = "reading" /\ rx.conn = c),
           k.at = conns[c].at, k.ep = conns[c].ep,
           ~k.healthy => k.ctxs = {} /\ k.streams = {},
           k.connected = conns[c].connected \/ (rx'.conn = c /\ rx'.dead),
           UNCHANGED <<pending, rc>>,
           rx'.local = <<>>, rx'.to = NoConn,
           \/ rx'.pc = "idle" /\ rx'.conn = NoConn /\ rx'.done = {} /\ ~rx'.dead
           \/ rx'.pc \in {"reading", "events"} /\ rx'.conn = c,
           rx'.pc = "reading" => k.connected,
           rx'.dead => ~k.healthy
    PROVE  Pool'
<1>1. /\ conns'[c] = k /\ \A d \in Conns : d # c => conns'[d] = conns[d]
  BY BecomesEffect
<1>2. /\ \A q \in Requests : rc[q] # NoConn => /\ rc[q] \in Conns /\ Pooled(rc[q])
                                               /\ conns[rc[q]].connected
      /\ NoConn \notin Conns
  BY IdleFacts, Typed DEF Pool, RxShape, PointersValid
<1>3. RxShape'
  BY <1>1, <1>2 DEF RxShape
<1>4. ConnsShape'
  BY <1>1 DEF Pool, ConnsShape, Pooled
<1>5. PointersValid'
  BY <1>1, <1>2 DEF PointersValid, Pooled
<1> QED
  BY <1>3, <1>4, <1>5 DEF Pool

LEMMA SessionKeepsPlaces ==
    ASSUME TypeOK, Pool, Places, NEW c \in Conns, NEW k \in ConnType, Becomes(c, k),
           rx.pc \in {"idle", "reading"},
           k.ctxs \subseteq conns[c].ctxs, k.ctxs \subseteq k.streams,
           k.connected = conns[c].connected \/ k.ctxs = {},
           UNCHANGED <<submitQueue, pending, rc, finished, phase, running>>,
           canceled \subseteq canceled',
           rx'.local = <<>>, rx'.done \subseteq rx.done \cup (conns[c].ctxs \ k.ctxs),
           rx'.pc \in {"idle", "reading", "events"},
           Faults \cap {"late eof", "write"} = {} =>
              rx.done \cup (conns[c].ctxs \ k.ctxs) \subseteq rx'.done
    PROVE  Places'
<1>1. /\ conns'[c] = k /\ \A d \in Conns : d # c => conns'[d] = conns[d]
  BY BecomesEffect
<1>2. \A d \in Conns : \A q \in conns[d].ctxs : rc[q] = d
  BY DEF Places, InFlightFound
<1>3. rx.local = <<>>
  BY DEF Pool, RxShape
<1>p. ASSUME NEW q \in Requests
      PROVE  /\ InSubmit(q)' <=> InSubmit(q)
             /\ ~InLocal(q) /\ ~InLocal(q)'
             /\ InPending(q)' <=> InPending(q)
             /\ InCtxs(q)' => InCtxs(q) /\ ~(q \in conns[c].ctxs \ k.ctxs)
             /\ InDone(q)' => InDone(q) \/ q \in conns[c].ctxs \ k.ctxs
             /\ q \in conns[c].ctxs => InCtxs(q)
             /\ InCtxs(q) => InCtxs(q)' \/ q \in conns[c].ctxs \ k.ctxs
             /\ Faults \cap {"late eof", "write"} = {} =>
                   (InDone(q) \/ q \in conns[c].ctxs \ k.ctxs => InDone(q)')
  <2>1. InCtxs(q)' => InCtxs(q) /\ ~(q \in conns[c].ctxs \ k.ctxs)
    <3> SUFFICES ASSUME NEW d \in Conns, q \in conns'[d].ctxs
                 PROVE  InCtxs(q) /\ ~(q \in conns[c].ctxs \ k.ctxs)
      BY DEF InCtxs
    <3>1. q \in conns[d].ctxs
      BY <1>1
    <3>d. rc[q] = d
      BY <1>2, <3>1
    <3>c. q \in conns[c].ctxs => rc[q] = c
      BY <1>2
    <3>2. q \in conns[c].ctxs => d = c
      BY <3>c, <3>d
    <3>3. InCtxs(q)
      BY <3>1 DEF InCtxs
    <3> QED
      BY <1>1, <3>2, <3>3
  <2>2. InCtxs(q) => InCtxs(q)' \/ q \in conns[c].ctxs \ k.ctxs
    BY <1>1 DEF InCtxs
  <2> QED
    BY <1>3, <2>1, <2>2, Empty DEF InSubmit, InLocal, InPending, InCtxs, InDone
<1>4. QueuesDistinct'
  BY Empty DEF Places, QueuesDistinct
<1>5. OnePlace'
  BY <1>p DEF Places, OnePlace
<1>6. InFlightFound'
  BY <1>1 DEF Places, InFlightFound
<1>7. FinishedCanceled'
  <2>1. finished \subseteq Requests
    BY DEF TypeOK
  <2> QED
    BY <1>p, <2>1 DEF Places, FinishedCanceled
<1>8. Somewhere'
  BY <1>p DEF Places, Somewhere
<1> QED
  BY <1>4, <1>5, <1>6, <1>7, <1>8 DEF Places

LEMMA SessionStepKeeps ==
    ASSUME IInv, NEW c \in Conns, NEW k \in ConnType, Becomes(c, k),
           Pooled(c), rx.pc = "idle" \/ (rx.pc = "reading" /\ rx.conn = c),
           k.at = conns[c].at, k.ep = conns[c].ep,
           ~k.healthy => k.ctxs = {} /\ k.streams = {},
           k.ctxs \subseteq conns[c].ctxs, k.ctxs \subseteq k.streams,
           k.connected = conns[c].connected \/ (k.ctxs = {} /\ rx'.conn = c /\ rx'.dead),
           UNCHANGED <<callVars, ctxVars, submitQueue, pending, connecting, rc, threadVars>>,
           canceled \subseteq canceled', canceled' \subseteq Requests,
           Posted', tasks' \in Seq(Tasks),
           rx' \in RxType, rx'.local = <<>>, rx'.to = NoConn,
           \/ rx'.pc = "idle" /\ rx'.conn = NoConn /\ rx'.done = {} /\ ~rx'.dead
           \/ rx'.pc \in {"reading", "events"} /\ rx'.conn = c,
           rx'.pc = "reading" => k.connected,
           rx'.dead => ~k.healthy,
           rx'.done \subseteq rx.done \cup (conns[c].ctxs \ k.ctxs),
           Faults \cap {"late eof", "write"} = {} =>
              rx.done \cup (conns[c].ctxs \ k.ctxs) \subseteq rx'.done
    PROVE  IInv'
<1> USE DEF IInv
<1>0. conns' \in [Conns -> ConnType]
  BY BecomesEffect
<1>1. TypeOK'
  BY <1>0 DEF TypeOK, callVars, ctxVars, threadVars
<1>2. Callbacks'
  <2>1. closer \in {"fail contexts", "return", "closed"} => \A r \in Range(submitQueue') : phase[r] = "queued"
    BY DEF Callbacks, CloseOrder
  <2> QED
    BY <2>1, QuietKeepsCallbacks DEF ctxVars, callVars, threadVars, NothingCompleted
<1>3. Pool'
  BY SessionKeepsPool
<1>4. Places'
  BY SessionKeepsPlaces DEF ctxVars, callVars, threadVars
<1> QED
  BY <1>1, <1>2, <1>3, <1>4

\* A session that is read from: open, in the pool, its contexts are streams.
LEMMA ReadingFacts ==
    ASSUME IInv, rx.pc = "reading"
    PROVE  /\ rx.conn \in Conns /\ Pooled(rx.conn) /\ conns[rx.conn].connected
           /\ conns[rx.conn] \in ConnType
           /\ rx.local = <<>> /\ rx.to = NoConn
           /\ rx \in RxType /\ rx.done \subseteq Requests
           /\ conns[rx.conn].ctxs \subseteq Requests
           /\ conns[rx.conn].ctxs \subseteq conns[rx.conn].streams
           /\ ~conns[rx.conn].healthy =>
                 conns[rx.conn].ctxs = {} /\ conns[rx.conn].streams = {}
           /\ rx.dead => ~conns[rx.conn].healthy
<1> USE DEF IInv
<1>1. /\ rx.conn \in Conns /\ conns[rx.conn].connected /\ rx.local = <<>> /\ rx.to = NoConn
      /\ rx.dead => ~conns[rx.conn].healthy
  BY DEF Pool, RxShape
<1>2. /\ rx.conn # NoConn /\ conns[rx.conn] \in ConnType /\ conns[rx.conn].ctxs \subseteq Requests
      /\ rx \in RxType /\ rx.done \subseteq Requests
  BY <1>1, Typed
<1>3. Pooled(rx.conn)
  BY <1>2 DEF Pool, PointersValid
<1>4. conns[rx.conn].ctxs \subseteq conns[rx.conn].streams
  BY <1>1 DEF Places, InFlightFound
<1>5. ~conns[rx.conn].healthy => conns[rx.conn].ctxs = {} /\ conns[rx.conn].streams = {}
  BY <1>1 DEF Pool, ConnsShape
<1> QED
  BY <1>1, <1>2, <1>3, <1>4, <1>5

\* What a step of the reactor that takes no task leaves alone
LEMMA SessionOnlyFacts ==
    ASSUME IInv, SessionOnly, \A c \in Conns : conns[c].at = "posted" => conns'[c].at = "posted"
    PROVE  /\ UNCHANGED <<callVars, ctxVars, submitQueue, pending, connecting, rc, threadVars>>
           /\ canceled' = canceled /\ canceled' \subseteq Requests
           /\ Posted' /\ tasks' \in Seq(Tasks)
<1>1. /\ UNCHANGED <<callVars, ctxVars, submitQueue, pending, connecting, rc, threadVars>>
      /\ canceled' = canceled /\ tasks' = tasks
  BY DEF SessionOnly, OnReactor
<1>2. canceled \subseteq Requests /\ tasks \in Seq(Tasks)
  BY DEF IInv, TypeOK
<1>3. Posted'
  BY <1>1, SamePosted DEF IInv, callVars, InSubmit
<1> QED
  BY <1>1, <1>2, <1>3

LEMMA ReadKeeps ==
    ASSUME IInv, NEW c \in Conns, NEW k \in ConnType, Becomes(c, k), rx.pc = "reading", rx.conn = c,
           k.at = conns[c].at, k.ep = conns[c].ep, k.connected = conns[c].connected,
           ~k.healthy => k.ctxs = {} /\ k.streams = {},
           k.ctxs \subseteq conns[c].ctxs, k.ctxs \subseteq k.streams,
           SessionOnly,
           rx' = [rx EXCEPT !.done = rx'.done, !.dead = rx'.dead], rx'.dead \in BOOLEAN,
           rx'.done = rx.done \cup (conns[c].ctxs \ k.ctxs),
           rx'.dead => ~k.healthy
    PROVE  IInv'
<1>1. /\ Pooled(c) /\ conns[c].connected /\ conns[c] \in ConnType
      /\ rx.local = <<>> /\ rx.to = NoConn /\ rx \in RxType
      /\ rx.done \subseteq Requests /\ conns[c].ctxs \subseteq Requests
  BY ReadingFacts
<1>2. /\ rx' \in RxType /\ rx'.pc = "reading" /\ rx'.conn = c /\ rx'.local = <<>>
      /\ rx'.to = NoConn
  <2>1. rx'.done \subseteq Requests
    BY <1>1
  <2> QED
    BY <1>1, <2>1 DEF RxType
<1>3. \A d \in Conns : conns[d].at = "posted" => conns'[d].at = "posted"
  BY BecomesEffect DEF IInv
<1> QED
  BY <1>1, <1>2, <1>3, SessionOnlyFacts, SessionStepKeeps

LEMMA ResponseCompletedKeeps ==
    ASSUME IInv, NEW c \in Conns, NEW q \in Requests, responseCompleted(c, q) PROVE IInv'
<1> DEFINE j == [conns[c] EXCEPT !.ctxs = conns[c].ctxs \ {q}]
<1>1. /\ rx.pc = "reading" /\ rx.conn = c /\ conns[c].healthy /\ q \in conns[c].ctxs
      /\ Becomes(c, DropStream(conns[c], q)) \/ Becomes(c, j)
      /\ rx' = [rx EXCEPT !.done = rx.done \cup {q}] /\ SessionOnly
  BY DEF responseCompleted, Reads
<1>2. /\ conns[c] \in ConnType /\ conns[c].ctxs \subseteq conns[c].streams /\ rx \in RxType
      /\ rx.dead => ~conns[c].healthy
  BY <1>1, ReadingFacts
<1>3. /\ rx'.done = rx.done \cup {q} /\ rx'.dead = rx.dead /\ rx'.dead \in BOOLEAN
      /\ rx' = [rx EXCEPT !.done = rx'.done, !.dead = rx'.dead]
  BY <1>1, <1>2 DEF RxType
<1>4. rx.done \cup {q} = rx.done \cup (conns[c].ctxs \ (conns[c].ctxs \ {q}))
  BY <1>1
<1>5. CASE Becomes(c, DropStream(conns[c], q))
  <2> DEFINE k == DropStream(conns[c], q)
  <2>1. /\ k \in ConnType /\ k.at = conns[c].at /\ k.ep = conns[c].ep
        /\ k.connected = conns[c].connected /\ k.healthy = conns[c].healthy
        /\ k.ctxs = conns[c].ctxs \ {q} /\ k.streams = conns[c].streams \ {q}
    BY <1>2, StreamDropped
  <2>2. Becomes(c, k)
    BY <1>5
  <2> HIDE DEF k
  <2> QED
    BY <1>1, <1>2, <1>3, <1>4, <2>1, <2>2, ReadKeeps
<1>6. CASE Becomes(c, j)
  <2>1. /\ j \in ConnType /\ j.at = conns[c].at /\ j.ep = conns[c].ep
        /\ j.connected = conns[c].connected /\ j.healthy = conns[c].healthy
        /\ j.ctxs = conns[c].ctxs \ {q} /\ j.streams = conns[c].streams
    BY <1>2 DEF ConnType
  <2> HIDE DEF j
  <2> QED
    BY <1>1, <1>2, <1>3, <1>4, <1>6, <2>1, ReadKeeps
<1> QED
  BY <1>1, <1>5, <1>6

LEMMA UploadEndsKeeps ==
    ASSUME IInv, NEW c \in Conns, NEW q \in Requests, uploadEnds(c, q) PROVE IInv'
<1> DEFINE k == DropStream(conns[c], q)
<1>1. /\ rx.pc = "reading" /\ rx.conn = c /\ conns[c].healthy /\ q \notin conns[c].ctxs
      /\ Becomes(c, k) /\ rx' = rx /\ SessionOnly
  BY DEF uploadEnds, Reads
<1>2. /\ conns[c] \in ConnType /\ conns[c].ctxs \subseteq conns[c].streams /\ rx \in RxType
      /\ rx.dead => ~conns[c].healthy
  BY <1>1, ReadingFacts
<1>3. /\ rx'.done = rx.done /\ rx'.dead = rx.dead /\ rx'.dead \in BOOLEAN
      /\ rx' = [rx EXCEPT !.done = rx'.done, !.dead = rx'.dead]
  BY <1>1, <1>2 DEF RxType
<1>4. /\ k \in ConnType /\ k.at = conns[c].at /\ k.ep = conns[c].ep
      /\ k.connected = conns[c].connected /\ k.healthy = conns[c].healthy
      /\ k.ctxs = conns[c].ctxs \ {q} /\ k.streams = conns[c].streams \ {q}
  BY <1>2, StreamDropped
<1> HIDE DEF k
<1>5. rx.done = rx.done \cup (conns[c].ctxs \ k.ctxs)
  BY <1>1, <1>4
<1> QED
  BY <1>1, <1>2, <1>3, <1>4, <1>5, ReadKeeps

LEMMA ResponseFailedKeeps ==
    ASSUME IInv, NEW c \in Conns, NEW q \in Requests, responseFailed(c, q) PROVE IInv'
<1> DEFINE k == DropStream(conns[c], q)
           done == rx.done \cup ({q} \cap conns[c].ctxs)
<1>1. /\ rx.pc = "reading" /\ rx.conn = c /\ conns[c].healthy
      /\ Becomes(c, k) /\ rx' = [rx EXCEPT !.done = done] /\ SessionOnly
  BY DEF responseFailed, Reads
<1>2. /\ conns[c] \in ConnType /\ conns[c].ctxs \subseteq conns[c].streams /\ rx \in RxType
      /\ rx.dead => ~conns[c].healthy
  BY <1>1, ReadingFacts
<1>3. /\ rx'.done = done /\ rx'.dead = rx.dead /\ rx'.dead \in BOOLEAN
      /\ rx' = [rx EXCEPT !.done = rx'.done, !.dead = rx'.dead]
  BY <1>1, <1>2 DEF RxType
<1>4. /\ k \in ConnType /\ k.at = conns[c].at /\ k.ep = conns[c].ep
      /\ k.connected = conns[c].connected /\ k.healthy = conns[c].healthy
      /\ k.ctxs = conns[c].ctxs \ {q} /\ k.streams = conns[c].streams \ {q}
  BY <1>2, StreamDropped
<1> HIDE DEF k
<1>5. done = rx.done \cup (conns[c].ctxs \ k.ctxs)
  BY <1>4
<1> HIDE DEF done
<1> QED
  BY <1>1, <1>2, <1>3, <1>4, <1>5, ReadKeeps

LEMMA PeerSettingsKeeps ==
    ASSUME IInv, NEW c \in Conns, NEW n \in Limits, peerSettings(c, n) PROVE IInv'
<1> DEFINE k == [conns[c] EXCEPT !.limit = n]
<1>1. /\ rx.pc = "reading" /\ rx.conn = c /\ conns[c].healthy
      /\ Becomes(c, k) /\ rx' = rx /\ SessionOnly
  BY DEF peerSettings, Reads
<1>2. /\ conns[c] \in ConnType /\ conns[c].ctxs \subseteq conns[c].streams /\ rx \in RxType
      /\ rx.dead => ~conns[c].healthy
  BY <1>1, ReadingFacts
<1>3. /\ rx'.done = rx.done /\ rx'.dead = rx.dead /\ rx'.dead \in BOOLEAN
      /\ rx' = [rx EXCEPT !.done = rx'.done, !.dead = rx'.dead]
  BY <1>1, <1>2 DEF RxType
<1>4. /\ k \in ConnType /\ k.at = conns[c].at /\ k.ep = conns[c].ep
      /\ k.connected = conns[c].connected /\ k.healthy = conns[c].healthy
      /\ k.ctxs = conns[c].ctxs /\ k.streams = conns[c].streams
  BY <1>2, ManagerAssumption DEF ConnType
<1> HIDE DEF k
<1>5. rx.done = rx.done \cup (conns[c].ctxs \ k.ctxs)
  BY <1>4
<1> QED
  BY <1>1, <1>2, <1>3, <1>4, <1>5, ReadKeeps

LEMMA GoawayKeeps ==
    ASSUME IInv, NEW c \in Conns, NEW S \in SUBSET conns[c].streams, goawayReceived(c, S)
    PROVE  IInv'
<1> DEFINE k == [conns[c] EXCEPT !.goingAway = TRUE, !.streams = conns[c].streams \ S,
                                 !.ctxs = conns[c].ctxs \ S]
           done == rx.done \cup (S \cap conns[c].ctxs)
<1>1. /\ rx.pc = "reading" /\ rx.conn = c /\ conns[c].healthy
      /\ Becomes(c, k) /\ rx' = [rx EXCEPT !.done = done] /\ SessionOnly
  BY DEF goawayReceived, Reads
<1>2. /\ conns[c] \in ConnType /\ conns[c].ctxs \subseteq conns[c].streams /\ rx \in RxType
      /\ rx.dead => ~conns[c].healthy
  BY <1>1, ReadingFacts
<1>3. /\ rx'.done = done /\ rx'.dead = rx.dead /\ rx'.dead \in BOOLEAN
      /\ rx' = [rx EXCEPT !.done = rx'.done, !.dead = rx'.dead]
  BY <1>1, <1>2 DEF RxType
<1>4. /\ k \in ConnType /\ k.at = conns[c].at /\ k.ep = conns[c].ep
      /\ k.connected = conns[c].connected /\ k.healthy = conns[c].healthy
      /\ k.ctxs = conns[c].ctxs \ S /\ k.streams = conns[c].streams \ S
  BY <1>2 DEF ConnType
<1> HIDE DEF k
<1>5. done = rx.done \cup (conns[c].ctxs \ k.ctxs)
  BY <1>4
<1> HIDE DEF done
<1> QED
  BY <1>1, <1>2, <1>3, <1>4, <1>5, ReadKeeps

LEMMA ConnectionErrorKeeps == ASSUME IInv, NEW c \in Conns, connectionError(c) PROVE IInv'
<1> DEFINE k == DeadSession(conns[c])
           done == rx.done \cup conns[c].ctxs
<1>1. /\ rx.pc = "reading" /\ rx.conn = c
      /\ Becomes(c, k) /\ rx' = [rx EXCEPT !.done = done, !.dead = TRUE] /\ SessionOnly
  BY DEF connectionError, Reads
<1>2. conns[c] \in ConnType /\ rx \in RxType
  BY <1>1, ReadingFacts
<1>3. /\ rx'.done = done /\ rx'.dead /\ rx'.dead \in BOOLEAN
      /\ rx' = [rx EXCEPT !.done = rx'.done, !.dead = rx'.dead]
  BY <1>1, <1>2 DEF RxType
<1>4. /\ k \in ConnType /\ k.at = conns[c].at /\ k.ep = conns[c].ep
      /\ k.connected = conns[c].connected /\ ~k.healthy /\ k.ctxs = {} /\ k.streams = {}
  BY <1>2, SessionStates
<1> HIDE DEF k
<1>5. done = rx.done \cup (conns[c].ctxs \ k.ctxs)
  BY <1>4
<1> HIDE DEF done
<1> QED
  BY <1>1, <1>3, <1>4, <1>5, ReadKeeps

LEMMA ReadWouldBlockKeeps == ASSUME IInv, readWouldBlock PROVE IInv'
<1> DEFINE c == rx.conn
           k == conns[rx.conn]
<1>1. /\ rx.pc = "reading" /\ rx' = [rx EXCEPT !.pc = "events"] /\ SessionOnly /\ conns' = conns
  BY DEF readWouldBlock
<1>2. /\ c \in Conns /\ Pooled(c) /\ k \in ConnType /\ rx.local = <<>> /\ rx.to = NoConn
      /\ rx \in RxType /\ k.ctxs \subseteq k.streams
      /\ ~k.healthy => k.ctxs = {} /\ k.streams = {}
      /\ rx.dead => ~k.healthy
  BY <1>1, ReadingFacts
<1>3. /\ rx' \in RxType /\ rx'.pc = "events" /\ rx'.conn = c /\ rx'.local = <<>>
      /\ rx'.to = NoConn /\ rx'.done = rx.done /\ rx'.dead = rx.dead
  BY <1>1, <1>2 DEF RxType
<1>4. Becomes(c, k)
  BY <1>1, <1>2 DEF Becomes, IInv, TypeOK
<1>5. \A d \in Conns : conns[d].at = "posted" => conns'[d].at = "posted"
  BY <1>1
<1>6. k = conns[c] /\ rx.done = rx.done \cup (conns[c].ctxs \ k.ctxs) /\ c = rx.conn
  OBVIOUS
<1> HIDE DEF c, k
<1> QED
  BY <1>1, <1>2, <1>3, <1>4, <1>5, <1>6, SessionOnlyFacts, SessionStepKeeps

LEMMA ReadClosedKeeps == ASSUME IInv, readClosed PROVE IInv'
<1> DEFINE c == rx.conn
           k == DeadSession(conns[c])
<1>1. /\ rx.pc = "reading" /\ Becomes(c, k) /\ SessionOnly
      /\ Faults \cap {"late eof", "write"} = {} => rx.done = {}
      /\ rx' = IF conns[c].healthy
               THEN [rx EXCEPT !.pc = "events", !.done = conns[c].ctxs, !.dead = TRUE]
               ELSE Idle
  BY DEF readClosed
<1>2. /\ c \in Conns /\ Pooled(c) /\ conns[c] \in ConnType /\ rx.local = <<>> /\ rx.to = NoConn
      /\ rx \in RxType /\ conns[c].ctxs \subseteq Requests
      /\ ~conns[c].healthy => conns[c].ctxs = {}
  BY <1>1, ReadingFacts
<1>3. /\ k \in ConnType /\ k.at = conns[c].at /\ k.ep = conns[c].ep
      /\ k.connected = conns[c].connected /\ ~k.healthy /\ k.ctxs = {} /\ k.streams = {}
  BY <1>2, SessionStates
<1>4. /\ rx' \in RxType /\ rx'.local = <<>> /\ rx'.to = NoConn
      /\ \/ rx'.pc = "idle" /\ rx'.conn = NoConn /\ rx'.done = {} /\ ~rx'.dead
         \/ rx'.pc = "events" /\ rx'.conn = c
      /\ rx'.done = conns[c].ctxs
  <2>1. CASE conns[c].healthy
    <3>1. rx' = [rx EXCEPT !.pc = "events", !.done = conns[c].ctxs, !.dead = TRUE]
      BY <1>1, <2>1
    <3> QED
      BY <1>2, <3>1 DEF RxType
  <2>2. CASE ~conns[c].healthy
    BY <1>1, <1>2, <2>2, IdleRx
  <2> QED
    BY <2>1, <2>2
<1>c. c = rx.conn
  OBVIOUS
<1> HIDE DEF k, c
<1>5. \A d \in Conns : conns[d].at = "posted" => conns'[d].at = "posted"
  BY <1>1, <1>2, <1>3, BecomesEffect DEF IInv
<1>6. /\ k.ctxs \subseteq conns[c].ctxs /\ k.ctxs \subseteq k.streams
      /\ rx'.done \subseteq rx.done \cup (conns[c].ctxs \ k.ctxs)
      /\ Faults \cap {"late eof", "write"} = {} =>
            rx.done \cup (conns[c].ctxs \ k.ctxs) \subseteq rx'.done
  BY <1>1, <1>3, <1>4
<1> QED
  BY <1>1, <1>2, <1>3, <1>4, <1>5, <1>6, <1>c, SessionOnlyFacts, SessionStepKeeps

LEMMA OnReadableKeeps == ASSUME IInv, NEW c \in Conns, onReadable(c) PROVE IInv'
<1> DEFINE k == conns[c]
<1>1. /\ rx.pc = "idle" /\ rx' = [Idle EXCEPT !.pc = "reading", !.conn = c] /\ SessionOnly
      /\ conns' = conns /\ Pooled(c) /\ k.connected /\ k.healthy
  BY DEF onReadable
<1>2. k \in ConnType /\ k.ctxs \subseteq k.streams /\ rx.done = {}
  BY <1>1, Typed, IdleFacts DEF IInv, Places, InFlightFound
<1>3. /\ rx' \in RxType /\ rx'.pc = "reading" /\ rx'.conn = c /\ rx'.local = <<>>
      /\ rx'.to = NoConn /\ rx'.done = {} /\ ~rx'.dead
  BY <1>1, IdleRx DEF RxType
<1>4. Becomes(c, k)
  BY <1>1 DEF Becomes, IInv, TypeOK
<1>5. \A d \in Conns : conns[d].at = "posted" => conns'[d].at = "posted"
  BY <1>1
<1>6. k = conns[c] /\ conns[c].ctxs \ k.ctxs = {}
  OBVIOUS
<1> HIDE DEF k
<1>7. /\ rx'.done \subseteq rx.done \cup (conns[c].ctxs \ k.ctxs)
      /\ rx.done \cup (conns[c].ctxs \ k.ctxs) \subseteq rx'.done
      /\ k.ctxs \subseteq conns[c].ctxs
  BY <1>2, <1>3, <1>6
<1> QED
  BY <1>1, <1>2, <1>3, <1>4, <1>5, <1>6, <1>7, SessionOnlyFacts, SessionStepKeeps

LEMMA WriteFailsKeeps == ASSUME IInv, NEW c \in Conns, writeFails(c) PROVE IInv'
<1> DEFINE k == DeadSession(conns[c])
<1>1. /\ rx.pc = "idle" /\ rx' = rx /\ SessionOnly /\ Pooled(c) /\ Becomes(c, k)
      /\ Faults \cap {"late eof", "write"} # {}
  BY DEF writeFails
<1>2. /\ rx \in RxType /\ conns[c] \in ConnType /\ rx.local = <<>> /\ rx.conn = NoConn
      /\ rx.to = NoConn /\ rx.done = {} /\ ~rx.dead
  BY <1>1, Typed, IdleFacts DEF IInv
<1>3. /\ k \in ConnType /\ k.at = conns[c].at /\ k.ep = conns[c].ep
      /\ k.connected = conns[c].connected /\ ~k.healthy /\ k.ctxs = {} /\ k.streams = {}
  BY <1>2, SessionStates
<1> HIDE DEF k
<1>5. \A d \in Conns : conns[d].at = "posted" => conns'[d].at = "posted"
  BY <1>1, <1>2, <1>3, BecomesEffect DEF IInv
<1>6. k.ctxs \subseteq conns[c].ctxs /\ k.ctxs \subseteq k.streams
      /\ rx'.done \subseteq rx.done \cup (conns[c].ctxs \ k.ctxs)
  BY <1>1, <1>2, <1>3
<1> QED
  BY <1>1, <1>2, <1>3, <1>5, <1>6, SessionOnlyFacts, SessionStepKeeps

LEMMA PingTimeoutKeeps == ASSUME IInv, NEW c \in Conns, onPingTimeout(c) PROVE IInv'
<1> DEFINE j == DeadSession(conns[c])
           k == [j EXCEPT !.connected = FALSE]
<1>1. /\ rx.pc = "idle" /\ SessionOnly /\ Pooled(c) /\ Becomes(c, k)
      /\ rx' = [Idle EXCEPT !.pc = "events", !.conn = c, !.done = conns[c].ctxs, !.dead = TRUE]
  BY DEF onPingTimeout
<1>2. conns[c] \in ConnType /\ rx.done = {} /\ conns[c].ctxs \subseteq Requests
  BY <1>1, Typed, IdleFacts DEF IInv
<1>3. /\ j \in ConnType /\ j.at = conns[c].at /\ j.ep = conns[c].ep
      /\ ~j.healthy /\ j.ctxs = {} /\ j.streams = {}
  BY <1>2, SessionStates
<1> HIDE DEF j
<1>4. /\ k \in ConnType /\ k.at = conns[c].at /\ k.ep = conns[c].ep
      /\ ~k.healthy /\ k.ctxs = {} /\ k.streams = {}
  BY <1>3 DEF ConnType
<1> HIDE DEF k
<1>5. \A d \in Conns : conns[d].at = "posted" => conns'[d].at = "posted"
  BY <1>1, <1>2, <1>4, BecomesEffect DEF IInv
<1>6. /\ rx' \in RxType /\ rx'.pc = "events" /\ rx'.conn = c /\ rx'.local = <<>>
      /\ rx'.to = NoConn /\ rx'.done = conns[c].ctxs /\ rx'.dead
  BY <1>1, <1>2, IdleRx DEF RxType
<1>7. /\ k.ctxs \subseteq conns[c].ctxs /\ k.ctxs \subseteq k.streams
      /\ rx'.done \subseteq rx.done \cup (conns[c].ctxs \ k.ctxs)
      /\ rx.done \cup (conns[c].ctxs \ k.ctxs) \subseteq rx'.done
  BY <1>2, <1>4, <1>6
<1> QED
  BY <1>1, <1>2, <1>4, <1>5, <1>6, <1>7, SessionOnlyFacts, SessionStepKeeps
-----------------------------------------------------------------------------
(***************************************************************************)
(* The reactor thread: posted tasks and timers                             *)
(***************************************************************************)
\* Waiting requests are completed and taken out of pendingByEndpoint.
LEMMA LeavingPendingKeepsPlaces ==
    ASSUME TypeOK, Pool, Places, UNCHANGED <<submitQueue, rx, rc, running, phase>>,
           NEW S \in SUBSET Requests, \A q \in S : InPending(q),
           \A e \in Endpoints : /\ NoDuplicates(pending'[e])
                                /\ Range(pending'[e]) = Range(pending[e]) \ S,
           \A d \in Conns : /\ conns'[d].ctxs = conns[d].ctxs
                            /\ conns[d].ctxs # {} => conns'[d] = conns[d],
           finished' = finished \cup S, canceled \subseteq canceled',
           rx.pc # "refillSubmit"
    PROVE  Places'
<1>e. \A q \in Requests : EndpointOf[q] \in Endpoints
  BY Typed
<1>p. \A r \in Requests : /\ InSubmit(r)' <=> InSubmit(r)
                          /\ InLocal(r)' <=> InLocal(r)
                          /\ InPending(r)' <=> InPending(r) /\ r \notin S
                          /\ InCtxs(r)' <=> InCtxs(r)
                          /\ InDone(r)' <=> InDone(r)
  BY <1>e DEF InSubmit, InLocal, InPending, InCtxs, InDone
<1>1. QueuesDistinct'
  BY DEF Places, QueuesDistinct
<1>2. OnePlace'
  BY <1>p DEF Places, OnePlace
<1>3. InFlightFound'
  <2> SUFFICES ASSUME NEW d \in Conns, NEW q \in conns'[d].ctxs
               PROVE  /\ rc[q] = d /\ conns'[d].connected /\ q \in conns'[d].streams
                      /\ q \in finished' => ~running
    BY DEF InFlightFound
  <2>1. q \in conns[d].ctxs /\ conns'[d] = conns[d] /\ q \in Requests
    BY Typed
  <2>2. InCtxs(q)
    BY <2>1 DEF InCtxs
  <2>3. q \notin S
    BY <2>1, <2>2 DEF Places, OnePlace
  <2> QED
    BY <2>1, <2>3 DEF Places, InFlightFound
<1>4. FinishedCanceled'
  <2> SUFFICES ASSUME running
               PROVE  /\ \A q \in finished' :
                            InSubmit(q)' \/ InLocal(q)' \/ InPending(q)' \/ phase[q] = "created"
                              => q \in canceled'
                      /\ rx.pc \in {"drainSubmit", "settleSubmit"} => Head(rx.local) \notin finished'
    BY DEF FinishedCanceled
  <2>0. finished \subseteq Requests
    BY DEF TypeOK
  <2>1. \A q \in finished' :
           InSubmit(q)' \/ InLocal(q)' \/ InPending(q)' \/ phase[q] = "created" => q \in canceled'
    BY <1>p, <2>0 DEF Places, FinishedCanceled, OnePlace
  <2>2. rx.pc \in {"drainSubmit", "settleSubmit"} => Head(rx.local) \notin finished'
    BY HeadInPlace DEF Pool, Places, FinishedCanceled, OnePlace
  <2> QED
    BY <2>1, <2>2
<1>5. Somewhere'
  BY <1>p DEF Places, Somewhere
<1> QED
  BY <1>1, <1>2, <1>3, <1>4, <1>5 DEF Places

\* One endpoint's queue is emptied, or loses one request.
LEMMA PendingChanged ==
    ASSUME TypeOK, QueuesDistinct, NEW e \in Endpoints, NEW w \in Seq(Requests), NoDuplicates(w),
           NEW S \in SUBSET Requests, \A q \in S : EndpointOf[q] = e,
           Range(w) = Range(pending[e]) \ S,
           pending' = [pending EXCEPT ![e] = w]
    PROVE  /\ pending' \in [Endpoints -> Seq(Requests)]
           /\ \A f \in Endpoints : /\ NoDuplicates(pending'[f])
                                   /\ Range(pending'[f]) = Range(pending[f]) \ S
<1>1. pending \in [Endpoints -> Seq(Requests)]
  BY DEF TypeOK
<1>2. pending' \in [Endpoints -> Seq(Requests)] /\ pending'[e] = w
      /\ \A f \in Endpoints : f # e => pending'[f] = pending[f]
  BY <1>1
<1>3. \A f \in Endpoints : f # e => Range(pending[f]) \cap S = {}
  BY DEF QueuesDistinct
<1> QED
  BY <1>2, <1>3 DEF QueuesDistinct

LEMMA PendingEmptied ==
    ASSUME TypeOK, QueuesDistinct, NEW e \in Endpoints, pending' = [pending EXCEPT ![e] = <<>>]
    PROVE  /\ pending' \in [Endpoints -> Seq(Requests)] /\ pending'[e] = <<>>
           /\ \A f \in Endpoints : /\ f # e => pending'[f] = pending[f]
                                   /\ NoDuplicates(pending'[f])
                                   /\ Range(pending'[f]) = Range(pending[f]) \ Range(pending[e])
<1>1. pending \in [Endpoints -> Seq(Requests)]
  BY DEF TypeOK
<1>2. <<>> \in Seq(Requests)
  OBVIOUS
<1>3. /\ pending' \in [Endpoints -> Seq(Requests)] /\ pending'[e] = <<>>
      /\ \A f \in Endpoints : f # e => pending'[f] = pending[f]
  BY <1>1, <1>2
<1>4. \A f \in Endpoints : f # e => Range(pending[f]) \cap Range(pending[e]) = {}
  BY DEF QueuesDistinct
<1> QED
  BY <1>3, <1>4, Empty DEF QueuesDistinct

\* The effect of abort on what the tasks speak of
LEMMA AbortShape ==
    ASSUME IInv, NEW q \in Requests, abort(q)
    PROVE  /\ \A d \in Conns : conns'[d].at = conns[d].at
           /\ \A r \in Requests : InSubmit(r)' => InSubmit(r)
           /\ submitQueue' \in Seq(Requests)
<1>1. submitQueue \in Seq(Requests) /\ NoDuplicates(submitQueue)
  BY DEF IInv, TypeOK, Places, QueuesDistinct
<1>2. /\ Without(submitQueue, q) \in Seq(Requests)
      /\ Range(Without(submitQueue, q)) \subseteq Range(submitQueue)
  BY <1>1, Erased
<1>3. submitQueue' = submitQueue \/ submitQueue' = Without(submitQueue, q)
  BY DEF abort
<1>4. \A d \in Conns : conns'[d].at = conns[d].at
  <2>1. CASE conns' = conns
    BY <2>1
  <2>2. CASE conns' # conns
    <3>1. InFlight(q) /\ conns' = [conns EXCEPT ![rc[q]] = DropStream(conns[rc[q]], q)]
      BY <2>2 DEF abort
    <3>2. rc[q] \in Conns /\ conns[rc[q]] \in ConnType
      BY <3>1, Typed DEF IInv, InFlight
    <3>3. DropStream(conns[rc[q]], q).at = conns[rc[q]].at
      BY <3>2, StreamDropped
    <3> QED
      BY <3>1, <3>2, <3>3 DEF IInv, TypeOK
  <2> QED
    BY <2>1, <2>2
<1> QED
  BY <1>1, <1>2, <1>3, <1>4 DEF InSubmit

LEMMA AbortKeeps ==
    ASSUME IInv, NEW q \in Requests, q \in contexts, rx.pc = "idle", abort(q),
           q \in canceled', canceled \subseteq canceled', canceled' \subseteq Requests,
           UNCHANGED <<callVars, connecting, rc, threadVars>>, Posted', tasks' \in Seq(Tasks)
    PROVE  IInv'
<1> USE DEF IInv
<1>1. /\ q \notin finished /\ phase[q] # "new" /\ started # "no"
      /\ phase \in [Requests -> {"new", "created", "queued", "sent"}]
  BY DEF Callbacks, ContextsOpen, CloseOrder, TypeOK
<1>2. ASSUME completeRequest({q}), rx' = rx
      PROVE  /\ finished' = finished \cup {q} /\ finished' \subseteq Requests
             /\ contexts' \subseteq Requests /\ timers' \subseteq Requests
             /\ callbacks' \in [Requests -> [queued : Nat, ran : Nat]]
             /\ completing' \in [Requests -> {"no", "send", "cancel", "close"}]
             /\ Range(submitQueue') \subseteq Range(submitQueue) => Callbacks'
  <2>1. closer \notin {"fail contexts", "return", "closed"}
    BY DEF Callbacks, CloseOrder
  <2>c. Completes({q})
    BY <1>2 DEF Completes
  <2>2. Callbacks'
    BY <1>1, <1>2, <2>1, <2>c, CompletingKeepsCallbacks DEF callVars, threadVars
  <2> QED
    BY <2>2, <2>c, CompleteEffect DEF Callbacks
<1>q. submitQueue \in Seq(Requests) /\ NoDuplicates(submitQueue)
      /\ pending \in [Endpoints -> Seq(Requests)] /\ EndpointOf[q] \in Endpoints
      /\ NoDuplicates(pending[EndpointOf[q]])
  BY Typed DEF TypeOK, Places, QueuesDistinct
<1>3. CASE q \in Range(submitQueue)
  <2>1. /\ submitQueue' = Without(submitQueue, q) /\ completeRequest({q})
        /\ UNCHANGED <<pending, conns, rx>>
    BY <1>3 DEF abort
  <2>2. /\ submitQueue' \in Seq(Requests) /\ NoDuplicates(submitQueue')
        /\ Range(submitQueue') = Range(submitQueue) \ {q}
    BY <1>q, <2>1, Erased
  <2>3. TypeOK' /\ Callbacks'
    <3>1. /\ finished' \subseteq Requests /\ contexts' \subseteq Requests
          /\ timers' \subseteq Requests
          /\ callbacks' \in [Requests -> [queued : Nat, ran : Nat]]
          /\ completing' \in [Requests -> {"no", "send", "cancel", "close"}] /\ Callbacks'
      BY <1>2, <2>1, <2>2
    <3> QED
      BY <2>1, <2>2, <3>1 DEF TypeOK, callVars, threadVars
  <2>4. Pool'
    BY <2>1, QuietKeepsPool
  <2>5. Places'
    <3>1. finished' = finished \cup {q} /\ InSubmit(q)
      BY <1>2, <1>3, <2>1 DEF InSubmit
    <3> QED
      BY <2>1, <2>2, <3>1, LeavingSubmitKeepsPlaces DEF callVars, threadVars
  <2> QED
    BY <2>3, <2>4, <2>5
<1>4. CASE q \notin Range(submitQueue) /\ q \in Range(pending[EndpointOf[q]])
  <2> DEFINE w == Without(pending[EndpointOf[q]], q)
  <2>1. /\ pending' = [pending EXCEPT ![EndpointOf[q]] = w]
        /\ completeRequest({q}) /\ UNCHANGED <<submitQueue, conns, rx>>
    BY <1>4 DEF abort
  <2>2. w \in Seq(Requests) /\ NoDuplicates(w) /\ Range(w) = Range(pending[EndpointOf[q]]) \ {q}
    BY <1>q, Erased
  <2> HIDE DEF w
  <2>3. /\ pending' \in [Endpoints -> Seq(Requests)]
        /\ \A f \in Endpoints : /\ NoDuplicates(pending'[f])
                                /\ Range(pending'[f]) = Range(pending[f]) \ {q}
    <3>1. QueuesDistinct /\ {q} \in SUBSET Requests /\ \A r \in {q} : EndpointOf[r] = EndpointOf[q]
      BY DEF Places
    <3> DEFINE e == EndpointOf[q]
               S == {q}
    <3>2. /\ e \in Endpoints /\ S \in SUBSET Requests /\ (\A r \in S : EndpointOf[r] = e)
          /\ Range(w) = Range(pending[e]) \ S /\ pending' = [pending EXCEPT ![e] = w]
      BY <1>q, <2>1, <2>2, <3>1
    <3> HIDE DEF e, S
    <3>3. /\ pending' \in [Endpoints -> Seq(Requests)]
          /\ \A f \in Endpoints : /\ NoDuplicates(pending'[f])
                                  /\ Range(pending'[f]) = Range(pending[f]) \ S
      BY <2>2, <3>1, <3>2, PendingChanged
    <3> QED
      BY <3>3 DEF S
  <2>4. TypeOK' /\ Callbacks'
    <3>1. /\ finished' \subseteq Requests /\ contexts' \subseteq Requests
          /\ timers' \subseteq Requests
          /\ callbacks' \in [Requests -> [queued : Nat, ran : Nat]]
          /\ completing' \in [Requests -> {"no", "send", "cancel", "close"}] /\ Callbacks'
      BY <1>2, <2>1
    <3> QED
      BY <2>1, <2>3, <3>1 DEF TypeOK, callVars, threadVars
  <2>5. Pool'
    BY <2>1, QuietKeepsPool
  <2>6. Places'
    <3>1. finished' = finished \cup {q} /\ InPending(q)
      BY <1>2, <1>4, <2>1 DEF InPending
    <3>2. \A d \in Conns : conns'[d] = conns[d]
      BY <2>1
    <3> QED
      BY <2>1, <2>3, <3>1, <3>2, LeavingPendingKeepsPlaces DEF callVars, threadVars
  <2> QED
    BY <2>4, <2>5, <2>6
<1>5. CASE q \notin Range(submitQueue) /\ q \notin Range(pending[EndpointOf[q]]) /\ InFlight(q)
  <2> DEFINE c == rc[q]
             k == DropStream(conns[c], q)
  <2>1. /\ Becomes(c, k) /\ NothingCompleted /\ UNCHANGED <<submitQueue, pending>>
        /\ rx' = [Idle EXCEPT !.pc = "events", !.conn = c, !.done = {q}]
    BY <1>5 DEF abort, Becomes
  <2>2. c \in Conns /\ conns[c] \in ConnType /\ q \in conns[c].ctxs /\ Pooled(c) /\ rx.done = {}
    BY <1>5, Typed, IdleFacts DEF InFlight
  <2>3. /\ k \in ConnType /\ k.at = conns[c].at /\ k.ep = conns[c].ep
        /\ k.connected = conns[c].connected /\ k.healthy = conns[c].healthy
        /\ k.ctxs = conns[c].ctxs \ {q} /\ k.streams = conns[c].streams \ {q}
    BY <2>2, StreamDropped
  <2>4. conns[c].ctxs \subseteq conns[c].streams /\ conns[c].healthy
    BY <2>2, ContextsPooled DEF Places, InFlightFound
  <2> HIDE DEF k, c
  <2>5. /\ rx' \in RxType /\ rx'.pc = "events" /\ rx'.conn = c /\ rx'.local = <<>>
        /\ rx'.to = NoConn /\ rx'.done = {q} /\ ~rx'.dead
    BY <2>1, <2>2, IdleRx DEF RxType
  <2>6. /\ k.ctxs \subseteq conns[c].ctxs /\ k.ctxs \subseteq k.streams
        /\ rx'.done \subseteq rx.done \cup (conns[c].ctxs \ k.ctxs)
        /\ rx.done \cup (conns[c].ctxs \ k.ctxs) \subseteq rx'.done
    BY <2>2, <2>3, <2>4, <2>5
  <2>7. UNCHANGED <<callVars, ctxVars, submitQueue, pending, connecting, rc, threadVars>>
    BY <2>1 DEF NothingCompleted, ctxVars
  <2> QED
    BY <2>1, <2>2, <2>3, <2>4, <2>5, <2>6, <2>7, SessionStepKeeps
<1>6. CASE q \notin Range(submitQueue) /\ q \notin Range(pending[EndpointOf[q]]) /\ ~InFlight(q)
  <2>1. completeRequest({q}) /\ UNCHANGED <<submitQueue, pending, conns, rx>>
    BY <1>6 DEF abort
  <2>2. ~InSubmit(q) /\ ~InLocal(q) /\ ~InPending(q)
    BY <1>6, IdleFacts DEF InSubmit, InPending
  <2>3. ~InCtxs(q)
    <3> SUFFICES ASSUME NEW d \in Conns, q \in conns[d].ctxs PROVE FALSE
      BY DEF InCtxs
    <3>1. rc[q] = d /\ conns[d].connected /\ d # NoConn
      BY Typed DEF Places, InFlightFound
    <3> QED
      BY <1>6, <3>1 DEF InFlight
  <2>4. TypeOK' /\ Callbacks'
    <3>1. /\ finished' \subseteq Requests /\ contexts' \subseteq Requests
          /\ timers' \subseteq Requests
          /\ callbacks' \in [Requests -> [queued : Nat, ran : Nat]]
          /\ completing' \in [Requests -> {"no", "send", "cancel", "close"}] /\ Callbacks'
      BY <1>2, <2>1
    <3> QED
      BY <2>1, <3>1 DEF TypeOK, callVars, threadVars
  <2>5. Pool'
    BY <2>1, QuietKeepsPool
  <2>6. Places'
    <3>1. finished' = finished \cup {q} /\ finished' \subseteq Requests /\ running' \in BOOLEAN
      BY <1>2, <2>1 DEF TypeOK, threadVars
    <3> QED
      BY <2>1, <2>2, <2>3, <3>1, QuietKeepsPlaces DEF callVars, threadVars
  <2> QED
    BY <2>4, <2>5, <2>6
<1> QED
  BY <1>3, <1>4, <1>5, <1>6

LEMMA HandleCancelKeeps == ASSUME IInv, NEW q \in Requests, handleCancelOnReactor(q) PROVE IInv'
<1> USE DEF IInv
<1>1. /\ Takes("cancel") /\ Head(tasks).req = q /\ rx.pc = "idle"
      /\ UNCHANGED <<callVars, canceled, connecting, rc, threadVars>>
      /\ UNCHANGED <<phase, cancelling>>
  BY DEF handleCancelOnReactor, Takes, callVars
<1>2. CASE q \in contexts
  <2>1. abort(q)
    BY <1>2 DEF handleCancelOnReactor
  <2>2. /\ \A d \in Conns : conns'[d].at = conns[d].at
        /\ \A r \in Requests : InSubmit(r)' => InSubmit(r)
    BY <2>1, AbortShape
  <2>3. Posted' /\ tasks' \in Seq(Tasks) /\ q \in canceled
    BY <1>1, <2>2, TakeKeeps
  <2>4. canceled \subseteq Requests
    BY DEF TypeOK
  <2> QED
    BY <1>1, <1>2, <2>1, <2>3, <2>4, AbortKeeps
<1>3. CASE q \notin contexts
  <2>1. NothingCompleted /\ UNCHANGED <<submitQueue, pending, conns, rx>>
    BY <1>3 DEF handleCancelOnReactor
  <2>2. \A r \in Requests : InSubmit(r)' <=> InSubmit(r)
    BY <2>1 DEF InSubmit
  <2>3. Posted' /\ tasks' \in Seq(Tasks)
    BY <1>1, <2>1, <2>2, TakeKeeps
  <2>4. TypeOK'
    BY <1>1, <2>1, <2>3 DEF TypeOK, NothingCompleted, callVars, threadVars
  <2> QED
    BY <1>1, <2>1, <2>3, <2>4, ThreadStepKeeps
       DEF NothingCompleted, callVars, threadVars, ctxVars, poolVars
<1> QED
  BY <1>2, <1>3

LEMMA HandleTimeoutKeeps == ASSUME IInv, NEW q \in Requests, handleTimeoutOnReactor(q) PROVE IInv'
<1> USE DEF IInv
<1>1. /\ rx.pc = "idle" /\ q \in timers /\ canceled' = canceled \cup {q} /\ abort(q)
      /\ UNCHANGED <<callVars, tasks, connecting, rc, threadVars>>
  BY DEF handleTimeoutOnReactor
<1>2. q \in contexts /\ canceled \subseteq Requests /\ tasks \in Seq(Tasks)
  BY <1>1 DEF Callbacks, ContextsOpen, TypeOK
<1>3. Posted'
  BY <1>1, AbortShape, SamePosted DEF callVars
<1> QED
  BY <1>1, <1>2, <1>3, AbortKeeps

\* Requests completed by a step of the running reactor, close() being not that far
LEMMA ReactorKeepsCallbacks ==
    ASSUME IInv, NEW S \in SUBSET Requests, completeRequest(S),
           \A q \in S : phase[q] # "new",
           UNCHANGED <<callVars, running, dispatcher, closer>>,
           rx.pc # "exited", rx'.pc # "exited"
    PROVE  /\ Callbacks' /\ finished' = finished \cup S /\ finished' \subseteq Requests
           /\ contexts' \subseteq Requests /\ timers' \subseteq Requests
           /\ callbacks' \in [Requests -> [queued : Nat, ran : Nat]]
           /\ completing' \in [Requests -> {"no", "send", "cancel", "close"}]
<1> USE DEF IInv
<1>1. closer \notin {"fail contexts", "return", "closed"}
  BY DEF Callbacks, CloseOrder
<1>2. S # {} => started # "no"
  BY DEF Callbacks, CloseOrder
<1>3. phase \in [Requests -> {"new", "created", "queued", "sent"}]
  BY DEF TypeOK
<1>c. Completes(S)
  BY DEF Completes
<1>4. Callbacks'
  BY <1>1, <1>2, <1>3, <1>c, CompletingKeepsCallbacks DEF callVars
<1> QED
  BY <1>4, <1>c, CompleteEffect DEF Callbacks

\* The requests that wait for an endpoint
LEMMA WaitingFacts ==
    ASSUME IInv, NEW e \in Endpoints
    PROVE  /\ pending[e] \in Seq(Requests) /\ NoDuplicates(pending[e])
           /\ Range(pending[e]) \in SUBSET Requests
           /\ \A q \in Range(pending[e]) : EndpointOf[q] = e /\ InPending(q) /\ phase[q] # "new"
<1>1. pending[e] \in Seq(Requests) /\ NoDuplicates(pending[e])
      /\ \A q \in Range(pending[e]) : EndpointOf[q] = e
  BY Typed DEF IInv, Places, QueuesDistinct
<1>2. Range(pending[e]) \subseteq Requests
  BY <1>1, RangeTyped
<1>3. \A q \in Range(pending[e]) : InPending(q)
  BY <1>1 DEF InPending
<1> QED
  BY <1>1, <1>2, <1>3 DEF IInv, Places, OnePlace

\* All of them are completed.
LEMMA WaitingFailedKeeps ==
    ASSUME IInv, NEW e \in Endpoints, completeRequest(Range(pending[e])),
           pending' = [pending EXCEPT ![e] = <<>>], rx.pc = "idle",
           UNCHANGED <<callVars, canceled, submitQueue, rx, rc, threadVars>>,
           connecting' \subseteq connecting, Posted', tasks' \in Seq(Tasks),
           conns' \in [Conns -> ConnType], Pool',
           \A d \in Conns : /\ conns'[d].ctxs = conns[d].ctxs
                            /\ conns[d].ctxs # {} => conns'[d] = conns[d]
    PROVE  IInv'
<1> DEFINE S == Range(pending[e])
<1>1. /\ S \in SUBSET Requests
      /\ \A q \in S : EndpointOf[q] = e /\ InPending(q) /\ phase[q] # "new"
  BY WaitingFacts
<1>2. /\ Callbacks' /\ finished' = finished \cup S /\ finished' \subseteq Requests
      /\ contexts' \subseteq Requests /\ timers' \subseteq Requests
      /\ callbacks' \in [Requests -> [queued : Nat, ran : Nat]]
      /\ completing' \in [Requests -> {"no", "send", "cancel", "close"}]
  BY <1>1, ReactorKeepsCallbacks DEF threadVars
<1>3. /\ pending' \in [Endpoints -> Seq(Requests)]
      /\ \A f \in Endpoints : /\ NoDuplicates(pending'[f])
                              /\ Range(pending'[f]) = Range(pending[f]) \ S
  BY PendingEmptied DEF IInv, Places
<1>4. TypeOK'
  <2>1. connecting' \subseteq Endpoints
    BY DEF IInv, TypeOK
  <2> QED
    BY <1>2, <1>3, <2>1 DEF IInv, TypeOK, callVars, threadVars
<1>5. Places'
  <2>1. /\ UNCHANGED <<submitQueue, rx, rc, running, phase>> /\ canceled \subseteq canceled'
        /\ rx.pc # "refillSubmit"
    BY DEF callVars, threadVars
  <2> HIDE DEF S
  <2> QED
    BY <1>1, <1>2, <1>3, <2>1, LeavingPendingKeepsPlaces DEF IInv
<1> QED
  BY <1>2, <1>4, <1>5 DEF IInv

LEMMA ConnectionFailedKeeps == ASSUME IInv, NEW e \in Endpoints, onConnectionFailed(e) PROVE IInv'
<1>1. /\ Takes("failed") /\ rx.pc = "idle" /\ connecting' = connecting \ {e}
      /\ completeRequest(Range(pending[e])) /\ pending' = [pending EXCEPT ![e] = <<>>]
      /\ UNCHANGED <<callVars, canceled, submitQueue, rx, rc, conns, threadVars>>
      /\ UNCHANGED <<phase, cancelling>>
  BY DEF onConnectionFailed, Takes, callVars
<1>2. Posted' /\ tasks' \in Seq(Tasks)
  BY <1>1, TakeKeeps DEF IInv, InSubmit
<1>3. Pool'
  BY <1>1, QuietKeepsPool DEF IInv
<1>4. conns' \in [Conns -> ConnType]
  BY <1>1 DEF IInv, TypeOK
<1> QED
  BY <1>1, <1>2, <1>3, <1>4, WaitingFailedKeeps

\* The requests of one queue move to the reactor's loop; the reactor was idle.
LEMMA TakenOverKeepsPlaces ==
    ASSUME TypeOK, Pool, Places, rx.pc = "idle",
           UNCHANGED <<finished, phase, canceled, running, rc>>,
           NoDuplicates(rx'.local), rx'.done = {}, rx'.pc \in {"idle", "drain", "settle"},
           NoDuplicates(submitQueue'),
           \A e \in Endpoints : /\ NoDuplicates(pending'[e])
                                /\ \A q \in Range(pending'[e]) : EndpointOf[q] = e,
           \A q \in Requests : /\ InSubmit(q)' => InSubmit(q) /\ ~InLocal(q)'
                               /\ InPending(q)' => InPending(q) /\ ~InLocal(q)'
                               /\ InLocal(q)' => InSubmit(q) \/ InPending(q)
                               /\ InSubmit(q) => InSubmit(q)' \/ InLocal(q)'
                               /\ InPending(q) => InPending(q)' \/ InLocal(q)',
           \A d \in Conns : /\ conns'[d].ctxs = conns[d].ctxs
                            /\ conns'[d].streams = conns[d].streams
                            /\ conns'[d].connected = conns[d].connected
    PROVE  Places'
<1>p. \A q \in Requests : /\ ~InLocal(q) /\ ~InDone(q) /\ ~InDone(q)'
                          /\ InCtxs(q)' <=> InCtxs(q)
  BY IdleFacts DEF InDone, InCtxs
<1>1. QueuesDistinct'
  BY DEF QueuesDistinct
<1>2. OnePlace'
  BY <1>p DEF Places, OnePlace
<1>3. InFlightFound'
  BY DEF Places, InFlightFound
<1>4. FinishedCanceled'
  <2>1. finished \subseteq Requests
    BY DEF TypeOK
  <2> QED
    BY <1>p, <2>1 DEF Places, FinishedCanceled
<1>5. Somewhere'
  BY <1>p DEF Places, Somewhere
<1> QED
  BY <1>1, <1>2, <1>3, <1>4, <1>5 DEF Places

LEMMA DrainKeeps == ASSUME IInv, drainSubmitQueue PROVE IInv'
<1> USE DEF IInv
<1>1. /\ Takes("drain") /\ rx.pc = "idle" /\ submitQueue' = <<>>
      /\ conns' = [c \in Conns |-> IF Pooled(c) /\ ~conns[c].connected
                                   THEN [conns[c] EXCEPT !.at = "gone"] ELSE conns[c]]
      /\ rx' = IF submitQueue = <<>> THEN Idle
               ELSE [Idle EXCEPT !.pc = "drain", !.local = submitQueue]
      /\ UNCHANGED <<callVars, ctxVars, canceled, pending, connecting, rc, threadVars>>
      /\ UNCHANGED <<phase, cancelling, running>>
  BY DEF drainSubmitQueue, Takes, callVars, threadVars
<1>2. submitQueue \in Seq(Requests) /\ NoDuplicates(submitQueue)
      /\ NoConn \notin Conns /\ \A c \in Conns : conns[c] \in ConnType
  BY Typed DEF TypeOK, Places, QueuesDistinct
<1>3. \A c \in Conns : /\ conns'[c] \in ConnType
                       /\ conns'[c].ep = conns[c].ep
                       /\ conns'[c].connected = conns[c].connected
                       /\ conns'[c].healthy = conns[c].healthy
                       /\ conns'[c].ctxs = conns[c].ctxs /\ conns'[c].streams = conns[c].streams
                       /\ conns'[c].at = IF Pooled(c) /\ ~conns[c].connected THEN "gone"
                                         ELSE conns[c].at
  <2> SUFFICES ASSUME NEW c \in Conns
               PROVE  /\ conns'[c] \in ConnType
                      /\ conns'[c].ep = conns[c].ep
                      /\ conns'[c].connected = conns[c].connected
                      /\ conns'[c].healthy = conns[c].healthy
                      /\ conns'[c].ctxs = conns[c].ctxs /\ conns'[c].streams = conns[c].streams
                      /\ conns'[c].at = IF Pooled(c) /\ ~conns[c].connected THEN "gone"
                                        ELSE conns[c].at
    OBVIOUS
  <2>1. CASE Pooled(c) /\ ~conns[c].connected
    <3>1. conns'[c] = [conns[c] EXCEPT !.at = "gone"]
      BY <1>1, <2>1
    <3> QED
      BY <1>2, <2>1, <3>1 DEF ConnType
  <2>2. CASE ~(Pooled(c) /\ ~conns[c].connected)
    BY <1>1, <1>2, <2>2
  <2> QED
    BY <2>1, <2>2
<1>4. /\ rx' \in RxType /\ rx'.local = submitQueue /\ rx'.conn = NoConn /\ rx'.to = NoConn
      /\ rx'.done = {} /\ ~rx'.dead
      /\ \/ rx'.pc = "idle" /\ rx'.local = <<>>
         \/ rx'.pc = "drain" /\ rx'.local # <<>>
  <2>1. CASE submitQueue = <<>>
    BY <1>1, <2>1, IdleRx
  <2>2. CASE submitQueue # <<>>
    <3>1. rx' = [Idle EXCEPT !.pc = "drain", !.local = submitQueue]
      BY <1>1, <2>2
    <3> QED
      BY <1>2, <2>2, <3>1, IdleRx DEF RxType
  <2> QED
    BY <2>1, <2>2
<1>5. \A q \in Requests : /\ ~InSubmit(q)' /\ (InLocal(q)' <=> InSubmit(q))
                          /\ InPending(q)' <=> InPending(q)
  BY <1>1, <1>4, Empty DEF InSubmit, InLocal, InPending
<1>6. Posted' /\ tasks' \in Seq(Tasks)
  <2>1. \A c \in Conns : conns[c].at = "posted" => conns'[c].at = "posted"
    BY <1>3 DEF Pooled
  <2> QED
    BY <1>1, <1>5, <2>1, TakeKeeps
<1>7. TypeOK'
  <2>1. <<>> \in Seq(Requests) /\ conns' \in [Conns -> ConnType]
    BY <1>1, <1>3
  <2> QED
    BY <1>1, <1>4, <1>6, <2>1 DEF TypeOK, callVars, ctxVars, threadVars
<1>8. Callbacks'
  <2>1. closer \notin {"fail contexts", "return", "closed"}
    BY <1>1 DEF Callbacks, CloseOrder
  <2> QED
    BY <1>1, <1>4, <2>1, QuietKeepsCallbacks DEF ctxVars, callVars, threadVars, NothingCompleted
<1>9. Pool'
  <2>1. \A q \in Requests : rc[q] # NoConn => /\ rc[q] \in Conns /\ Pooled(rc[q])
                                              /\ conns[rc[q]].connected
    BY <1>1, IdleFacts
  <2>2. RxShape'
    BY <1>2, <1>4 DEF RxShape
  <2>3. ConnsShape'
    BY <1>3 DEF Pool, ConnsShape
  <2>4. PointersValid'
    BY <1>1, <1>3, <1>4, <2>1 DEF PointersValid, Pooled
  <2> QED
    BY <2>2, <2>3, <2>4 DEF Pool
<1>10. Places'
  <2>1. NoDuplicates(submitQueue') /\ NoDuplicates(rx'.local)
    BY <1>1, <1>2, <1>4, Empty
  <2>2. \A q \in Requests : InSubmit(q) => ~InPending(q)
    BY DEF Places, OnePlace
  <2>3. \A e \in Endpoints : /\ NoDuplicates(pending'[e])
                             /\ \A q \in Range(pending'[e]) : EndpointOf[q] = e
    BY <1>1 DEF Places, QueuesDistinct
  <2> QED
    BY <1>1, <1>3, <1>4, <1>5, <2>1, <2>2, <2>3, TakenOverKeepsPlaces DEF ctxVars
<1> QED
  BY <1>6, <1>7, <1>8, <1>9, <1>10

LEMMA EstablishedKeeps == ASSUME IInv, NEW c \in Conns, onConnectionEstablished(c) PROVE IInv'
<1> USE DEF IInv
<1> DEFINE e == conns[c].ep
<1>1. /\ Takes("established") /\ Head(tasks).conn = c /\ rx.pc = "idle"
      /\ connecting' = connecting \ {e} /\ pending' = [pending EXCEPT ![e] = <<>>]
      /\ UNCHANGED <<callVars, canceled, submitQueue, rc, threadVars>>
      /\ UNCHANGED <<phase, cancelling, running>>
  BY DEF onConnectionEstablished, Takes, callVars, threadVars
<1>2. conns[c] \in ConnType /\ e \in Endpoints /\ conns \in [Conns -> ConnType]
  BY Typed DEF TypeOK
<1>3. /\ pending[e] \in Seq(Requests) /\ NoDuplicates(pending[e])
      /\ \A q \in Range(pending[e]) : EndpointOf[q] = e /\ q \in Requests
  BY <1>2, WaitingFacts
<1>4. ASSUME \A d \in Conns : d # c => conns'[d] = conns[d]
      PROVE  /\ Posted' /\ tasks' \in Seq(Tasks) /\ conns[c].at = "posted"
             /\ conns[c].connected /\ conns[c].healthy /\ conns[c].ctxs = {}
             /\ \A q \in Requests : rc[q] # c
  <2>1. Posted' /\ tasks' \in Seq(Tasks) /\ conns[c].at = "posted"
    BY <1>1, <1>4, TakeKeeps DEF InSubmit
  <2>2. conns[c].connected /\ conns[c].healthy /\ conns[c].ctxs = {}
    BY <2>1, ContextsPooled DEF Pool, ConnsShape, Places, Pooled
  <2>3. \A q \in Requests : rc[q] # c
    BY <1>1, <2>1, IdleFacts, Typed DEF Pooled
  <2> QED
    BY <2>1, <2>2, <2>3
<1>5. CASE /\ conns' = [conns EXCEPT ![c].at = "pool"] /\ NothingCompleted
           /\ rx' = IF pending[e] = <<>> THEN Idle
                    ELSE [Idle EXCEPT !.pc = "settle", !.local = pending[e], !.conn = c]
  <2>1. /\ conns' \in [Conns -> ConnType] /\ conns'[c].at = "pool"
        /\ \A d \in Conns : d # c => conns'[d] = conns[d]
        /\ \A d \in Conns : /\ conns'[d].ctxs = conns[d].ctxs
                            /\ conns'[d].streams = conns[d].streams
                            /\ conns'[d].connected = conns[d].connected
                            /\ conns'[d].healthy = conns[d].healthy
                            /\ conns'[d].ep = conns[d].ep
    BY <1>2, <1>5 DEF ConnType
  <2>2. /\ Posted' /\ tasks' \in Seq(Tasks) /\ conns[c].at = "posted"
        /\ conns[c].connected /\ conns[c].healthy /\ \A q \in Requests : rc[q] # c
    BY <1>4, <2>1
  <2>3. /\ rx' \in RxType /\ rx'.local = pending[e] /\ rx'.to = NoConn
        /\ rx'.done = {} /\ ~rx'.dead
        /\ \/ rx'.pc = "idle" /\ rx'.local = <<>> /\ rx'.conn = NoConn
           \/ rx'.pc = "settle" /\ rx'.local # <<>> /\ rx'.conn = c
    <3>1. CASE pending[e] = <<>>
      BY <1>5, <3>1, IdleRx
    <3>2. CASE pending[e] # <<>>
      <4>1. rx' = [Idle EXCEPT !.pc = "settle", !.local = pending[e], !.conn = c]
        BY <1>5, <3>2
      <4> QED
        BY <1>3, <3>2, <4>1, IdleRx DEF RxType
    <3> QED
      BY <3>1, <3>2
  <2>4. /\ pending' \in [Endpoints -> Seq(Requests)] /\ pending'[e] = <<>>
        /\ \A f \in Endpoints : f # e => pending'[f] = pending[f]
    BY <1>1, <1>2, PendingEmptied DEF Places
  <2>5. TypeOK'
    <3>1. connecting' \subseteq Endpoints
      BY <1>1 DEF TypeOK
    <3>2. UNCHANGED <<contexts, finished, timers, callbacks, completing>> /\ rx' \in RxType
          /\ pending' \in [Endpoints -> Seq(Requests)] /\ conns' \in [Conns -> ConnType]
          /\ tasks' \in Seq(Tasks)
      BY <1>5, <2>1, <2>2, <2>3, <2>4 DEF NothingCompleted
    <3> QED
      BY <1>1, <3>1, <3>2 DEF TypeOK, callVars, threadVars
  <2>6. Callbacks'
    <3>1. closer \notin {"fail contexts", "return", "closed"}
      BY <1>1 DEF Callbacks, CloseOrder
    <3> QED
      BY <1>1, <1>5, <2>3, <3>1, QuietKeepsCallbacks DEF callVars, threadVars
  <2>7. Pool'
    <3>1. \A q \in Requests : rc[q] # NoConn => /\ rc[q] \in Conns /\ Pooled(rc[q])
                                                /\ conns[rc[q]].connected
      BY <1>1, IdleFacts
    <3>2. RxShape'
      BY <1>3, <2>1, <2>2, <2>3, Typed DEF RxShape
    <3>3. ConnsShape'
      BY <2>1 DEF Pool, ConnsShape
    <3>4. PointersValid'
      BY <1>1, <2>1, <2>3, <3>1 DEF PointersValid, Pooled
    <3> QED
      BY <3>2, <3>3, <3>4 DEF Pool
  <2>8. Places'
    <3>1. NoDuplicates(submitQueue') /\ NoDuplicates(rx'.local) /\ UNCHANGED finished
      BY <1>1, <1>3, <1>5, <2>3 DEF NothingCompleted, Places, QueuesDistinct
    <3>2. ASSUME NEW q \in Requests
          PROVE  /\ InSubmit(q)' <=> InSubmit(q)
                 /\ InLocal(q)' <=> InPending(q) /\ EndpointOf[q] = e
                 /\ InPending(q)' <=> InPending(q) /\ EndpointOf[q] # e
                 /\ InSubmit(q) => ~InPending(q)
      <4>1. InSubmit(q)' <=> InSubmit(q)
        BY <1>1 DEF InSubmit
      <4>2. InLocal(q)' <=> InPending(q) /\ EndpointOf[q] = e
        BY <1>3, <2>3 DEF InLocal, InPending
      <4>3. InPending(q)' <=> InPending(q) /\ EndpointOf[q] # e
        BY <2>4, Typed, Empty DEF InPending
      <4> QED
        BY <4>1, <4>2, <4>3 DEF Places, OnePlace
    <3>3. \A f \in Endpoints : /\ NoDuplicates(pending'[f])
                               /\ \A q \in Range(pending'[f]) : EndpointOf[q] = f
      BY <2>4, Empty DEF Places, QueuesDistinct
    <3>4. rx'.pc \in {"idle", "drain", "settle"} /\ rx'.done = {}
      BY <2>3
    <3> HIDE DEF e
    <3> QED
      BY <1>1, <2>1, <3>1, <3>2, <3>3, <3>4, TakenOverKeepsPlaces
  <2> QED
    BY <2>2, <2>5, <2>6, <2>7, <2>8
<1>6. CASE /\ conns' = [conns EXCEPT ![c] = [DeadSession(conns[c]) EXCEPT !.at = "gone",
                                                                          !.connected = FALSE]]
           /\ completeRequest(Range(pending[e])) /\ rx' = rx
  <2> DEFINE j == DeadSession(conns[c])
             k == [j EXCEPT !.at = "gone", !.connected = FALSE]
  <2>1. j \in ConnType /\ ~j.healthy /\ j.ctxs = {} /\ j.streams = {}
    BY <1>2, SessionStates
  <2>0. conns' = [conns EXCEPT ![c] = k]
    BY <1>6
  <2> HIDE DEF j
  <2>2. k \in ConnType /\ ~k.healthy /\ k.ctxs = {} /\ k.streams = {} /\ k.at = "gone"
    BY <2>1 DEF ConnType
  <2> HIDE DEF k
  <2>3. /\ conns' \in [Conns -> ConnType] /\ conns'[c] = k
        /\ \A d \in Conns : d # c => conns'[d] = conns[d]
    BY <1>2, <2>0, <2>2
  <2>4. /\ Posted' /\ tasks' \in Seq(Tasks) /\ conns[c].at = "posted"
        /\ conns[c].ctxs = {} /\ \A q \in Requests : rc[q] # c
    BY <1>4, <2>3
  <2>5. Pool'
    <3>1. \A q \in Requests : rc[q] # NoConn => /\ rc[q] \in Conns /\ Pooled(rc[q])
                                                /\ conns[rc[q]].connected
      BY <1>1, IdleFacts
    <3>r. rx.local = <<>> /\ rx.conn = NoConn /\ rx.to = NoConn /\ rx.done = {} /\ ~rx.dead
      BY <1>1, IdleFacts
    <3>2. RxShape'
      BY <1>1, <1>6, <3>r DEF RxShape
    <3>3. ConnsShape'
      BY <2>2, <2>3 DEF Pool, ConnsShape
    <3>4. PointersValid'
      BY <1>1, <1>6, <2>3, <2>4, <3>1, <3>r DEF PointersValid, Pooled
    <3> QED
      BY <3>2, <3>3, <3>4 DEF Pool
  <2>6. \A d \in Conns : /\ conns'[d].ctxs = conns[d].ctxs
                         /\ conns[d].ctxs # {} => conns'[d] = conns[d]
    BY <2>2, <2>3, <2>4
  <2> HIDE DEF e
  <2>7. connecting' \subseteq connecting
    BY <1>1
  <2> QED
    BY <1>1, <1>2, <1>6, <2>3, <2>4, <2>5, <2>6, <2>7, WaitingFailedKeeps
<1> QED
  BY <1>5, <1>6 DEF onConnectionEstablished

LEMMA CloseOnReactorKeeps == ASSUME IInv, closeOnReactor PROVE IInv'
<1> DEFINE open == {c \in Conns : Pooled(c) /\ conns[c].connected}
           waiting == UNION {Range(pending[e]) : e \in Endpoints}
           S == waiting \cup (UNION {conns[c].ctxs : c \in open})
<1>0. completeRequest(S)
  BY DEF closeOnReactor
<1> USE DEF IInv
<1>1. /\ Takes("close") /\ rx.pc = "idle"
      /\ pending' = [e \in Endpoints |-> <<>>] /\ connecting' = {}
      /\ conns' = [c \in Conns |->
            IF ~Pooled(c) THEN conns[c]
            ELSE [DeadSession(conns[c]) EXCEPT !.at = "gone", !.connected = FALSE]]
      /\ rc' = [q \in Requests |-> NoConn]
      /\ UNCHANGED <<callVars, canceled, submitQueue, rx, threadVars>>
      /\ UNCHANGED <<phase, cancelling, running>>
  BY DEF closeOnReactor, Takes, callVars, threadVars
<1>2. \A c \in Conns : conns[c].ctxs # {} => c \in open
  BY ContextsPooled DEF Places
<1>3. \A q \in Requests : q \in S <=> InPending(q) \/ InCtxs(q)
  <2>1. \A q \in Requests : q \in waiting <=> InPending(q)
    BY WaitingFacts, Typed DEF InPending
  <2>2. \A q \in Requests : q \in UNION {conns[c].ctxs : c \in open} <=> InCtxs(q)
    BY <1>2 DEF InCtxs
  <2> QED
    BY <2>1, <2>2
<1>4. S \in SUBSET Requests
  BY WaitingFacts, Typed
<1> HIDE DEF S, open, waiting
<1>5. \A q \in S : phase[q] # "new"
  BY <1>3, <1>4 DEF Places, OnePlace
<1>6. /\ Callbacks' /\ finished' = finished \cup S /\ finished' \subseteq Requests
      /\ contexts' \subseteq Requests /\ timers' \subseteq Requests
      /\ callbacks' \in [Requests -> [queued : Nat, ran : Nat]]
      /\ completing' \in [Requests -> {"no", "send", "cancel", "close"}]
  BY <1>0, <1>1, <1>4, <1>5, ReactorKeepsCallbacks DEF threadVars
<1>7. ASSUME NEW c \in Conns
      PROVE  /\ conns'[c] \in ConnType /\ conns'[c].ctxs = {}
             /\ ~Pooled(c) => conns'[c] = conns[c]
             /\ Pooled(c) => ~conns'[c].healthy /\ conns'[c].at = "gone" /\ conns'[c].streams = {}
  <2>1. CASE Pooled(c)
    <3> DEFINE j == DeadSession(conns[c])
    <3>1. j \in ConnType /\ ~j.healthy /\ j.ctxs = {} /\ j.streams = {}
      BY SessionStates, Typed
    <3>2. conns'[c] = [j EXCEPT !.at = "gone", !.connected = FALSE]
      BY <1>1, <2>1
    <3> HIDE DEF j
    <3> QED
      BY <2>1, <3>1, <3>2 DEF ConnType
  <2>2. CASE ~Pooled(c)
    BY <1>1, <2>2, Typed, ContextsPooled DEF Places
  <2> QED
    BY <2>1, <2>2
<1>8. \A q \in Requests : /\ InSubmit(q)' <=> InSubmit(q)
                          /\ ~InPending(q)' /\ ~InCtxs(q)'
                          /\ ~InLocal(q) /\ ~InLocal(q)' /\ ~InDone(q) /\ ~InDone(q)'
  <2>1. \A q \in Requests : ~InPending(q)'
    BY <1>1, Typed, Empty DEF InPending
  <2>2. \A q \in Requests : ~InCtxs(q)'
    BY <1>7 DEF InCtxs
  <2>3. \A q \in Requests : /\ ~InLocal(q) /\ ~InLocal(q)' /\ ~InDone(q) /\ ~InDone(q)'
    BY <1>1, IdleFacts, Empty DEF InLocal, InDone
  <2> QED
    BY <1>1, <2>1, <2>2, <2>3 DEF InSubmit
<1>9. Posted' /\ tasks' \in Seq(Tasks)
  <2>1. \A c \in Conns : conns[c].at = "posted" => conns'[c].at = "posted"
    BY <1>7 DEF Pooled
  <2> QED
    BY <1>1, <1>8, <2>1, TakeKeeps
<1>10. TypeOK'
  <2>1. conns' \in [Conns -> ConnType]
    BY <1>1, <1>7
  <2>2. <<>> \in Seq(Requests)
    OBVIOUS
  <2>3. /\ pending' \in [Endpoints -> Seq(Requests)] /\ connecting' \subseteq Endpoints
        /\ rc' \in [Requests -> Conns \cup {NoConn}]
    BY <1>1, <2>2
  <2> QED
    BY <1>1, <1>6, <1>9, <2>1, <2>3 DEF TypeOK, callVars, threadVars
<1>11. Pool'
  <2>1. rx.local = <<>> /\ rx.conn = NoConn /\ rx.to = NoConn /\ rx.done = {} /\ ~rx.dead
    BY <1>1, IdleFacts
  <2>2. RxShape'
    BY <1>1, <2>1 DEF RxShape
  <2>3. ConnsShape'
    BY <1>7 DEF Pool, ConnsShape
  <2>4. PointersValid'
    BY <1>1, <2>1 DEF PointersValid
  <2> QED
    BY <2>2, <2>3, <2>4 DEF Pool
<1>12. Places'
  <2>1. QueuesDistinct'
    BY <1>1, Empty DEF Places, QueuesDistinct
  <2>2. OnePlace'
    BY <1>1, <1>8 DEF Places, OnePlace
  <2>3. InFlightFound'
    BY <1>7 DEF InFlightFound
  <2>4. FinishedCanceled'
    <3>1. finished \subseteq Requests
      BY DEF TypeOK
    <3>2. \A q \in S : ~InSubmit(q) /\ phase[q] # "created" /\ q \in Requests
      BY <1>3, <1>4 DEF Places, OnePlace
    <3> QED
      BY <1>1, <1>6, <1>8, <3>1, <3>2 DEF Places, FinishedCanceled
  <2>5. Somewhere'
    BY <1>1, <1>3, <1>6, <1>8 DEF Places, Somewhere
  <2> QED
    BY <2>1, <2>2, <2>3, <2>4, <2>5 DEF Places
<1> QED
  BY <1>6, <1>9, <1>10, <1>11, <1>12

LEMMA ReactorExitsKeeps == ASSUME IInv, reactorExits PROVE IInv'
<1> USE DEF IInv
<1>1. /\ rx.pc = "idle" /\ started = "yes" /\ ~running /\ rx' = [Idle EXCEPT !.pc = "exited"]
      /\ UNCHANGED <<callVars, ctxVars, canceled, submitQueue, tasks, poolVars, threadVars>>
  BY DEF reactorExits
<1>2. /\ rx' \in RxType /\ rx'.pc = "exited" /\ rx'.conn = NoConn /\ rx'.local = <<>>
      /\ rx'.to = NoConn /\ rx'.done = {} /\ ~rx'.dead
  BY <1>1, IdleRx DEF RxType
<1>3. TypeOK'
  BY <1>1, <1>2 DEF TypeOK, callVars, ctxVars, poolVars, threadVars
<1>4. Callbacks'
  <2>1. closer \in {"fail contexts", "return", "closed"} => \A r \in Range(submitQueue') : phase[r] = "queued"
    BY <1>1 DEF Callbacks, CloseOrder
  <2> QED
    BY <1>1, <1>2, <2>1, QuietKeepsCallbacks DEF ctxVars, callVars, threadVars, NothingCompleted
<1>5. Posted'
  BY <1>1, SamePosted DEF poolVars, callVars, InSubmit
<1>6. Pool'
  <2>1. /\ \A q \in Requests : rc[q] # NoConn => Pooled(rc[q]) /\ conns[rc[q]].connected
        /\ NoConn \notin Conns
    BY <1>1, IdleFacts, Typed
  <2>2. RxShape'
    BY <1>2, <2>1 DEF RxShape
  <2>3. ConnsShape'
    BY <1>1 DEF Pool, ConnsShape, poolVars
  <2>4. PointersValid'
    BY <1>1, <1>2, <2>1 DEF PointersValid, Pooled, poolVars
  <2> QED
    BY <2>2, <2>3, <2>4 DEF Pool
<1>7. Places'
  <2>p. \A q \in Requests : /\ InSubmit(q)' <=> InSubmit(q)
                            /\ InPending(q)' <=> InPending(q)
                            /\ InCtxs(q)' <=> InCtxs(q)
                            /\ ~InLocal(q) /\ ~InLocal(q)' /\ ~InDone(q) /\ ~InDone(q)'
    BY <1>1, <1>2, IdleFacts, Empty DEF InSubmit, InPending, InCtxs, InLocal, InDone, poolVars
  <2>1. QueuesDistinct'
    BY <1>1, <1>2, Empty DEF Places, QueuesDistinct, poolVars
  <2>2. OnePlace'
    BY <1>1, <2>p DEF Places, OnePlace, callVars
  <2>3. InFlightFound'
    BY <1>1 DEF Places, InFlightFound, poolVars, ctxVars, threadVars
  <2>4. FinishedCanceled'
    BY <1>1 DEF FinishedCanceled, threadVars
  <2>5. Somewhere'
    BY <1>1, <2>p DEF Places, Somewhere, ctxVars, callVars
  <2> QED
    BY <2>1, <2>2, <2>3, <2>4, <2>5 DEF Places
<1> QED
  BY <1>3, <1>4, <1>5, <1>6, <1>7
-----------------------------------------------------------------------------
(***************************************************************************)
(* The reactor thread: its loops over requests                             *)
(***************************************************************************)
\* The loops of drainSubmitQueue and onConnectionEstablished
InLoop == rx.pc \in {"drain", "drainSubmit", "settle", "settleSubmit"}

LEMMA LoopFacts ==
    ASSUME IInv, InLoop
    PROVE  /\ rx \in RxType /\ rx.local \in Seq(Requests) /\ rx.local # <<>>
           /\ NoDuplicates(rx.local)
           /\ Head(rx.local) \in Requests /\ InLocal(Head(rx.local))
           /\ EndpointOf[Head(rx.local)] \in Endpoints
           /\ phase[Head(rx.local)] \notin {"new", "created"}
           /\ ~InSubmit(Head(rx.local)) /\ ~InPending(Head(rx.local)) /\ ~InCtxs(Head(rx.local))
           /\ rx.done = {} /\ ~rx.dead
           /\ \A q \in Requests : rc[q] # NoConn => /\ rc[q] \in Conns /\ Pooled(rc[q])
                                                    /\ conns[rc[q]].connected
<1> USE DEF IInv
<1>1. rx.local # <<>> /\ rx.done = {} /\ ~rx.dead
  BY DEF Pool, RxShape, InLoop
<1>2. Head(rx.local) \in Requests /\ InLocal(Head(rx.local))
  BY HeadInPlace DEF Pool, Places, InLoop
<1>3. /\ phase[Head(rx.local)] \notin {"new", "created"}
      /\ ~InSubmit(Head(rx.local)) /\ ~InPending(Head(rx.local)) /\ ~InCtxs(Head(rx.local))
  BY <1>2 DEF Places, OnePlace
<1>4. \A q \in Requests : rc[q] # NoConn => /\ rc[q] \in Conns /\ Pooled(rc[q])
                                            /\ conns[rc[q]].connected
  BY <1>1, Typed DEF Pool, PointersValid
<1> QED
  BY <1>1, <1>2, <1>3, <1>4, Typed DEF Places, QueuesDistinct

\* The next request, or the end of the loop
LEMMA MovedEffect ==
    ASSUME IInv, InLoop, rx' = Moved
    PROVE  /\ rx' \in RxType /\ NoDuplicates(rx'.local)
           /\ Range(rx'.local) = Range(rx.local) \ {Head(rx.local)}
           /\ rx'.done = {} /\ ~rx'.dead /\ rx'.to = NoConn
           /\ \/ rx'.pc = "idle" /\ rx'.local = <<>> /\ rx'.conn = NoConn
              \/ /\ rx'.pc = "drain" /\ rx.pc \in {"drain", "drainSubmit"}
                 /\ rx'.local # <<>> /\ rx'.conn = NoConn
              \/ /\ rx'.pc = "settle" /\ rx.pc \in {"settle", "settleSubmit"}
                 /\ rx'.local # <<>> /\ rx'.conn = rx.conn
<1>1. /\ rx \in RxType /\ rx.local \in Seq(Requests) /\ rx.local # <<>> /\ NoDuplicates(rx.local)
      /\ rx.done = {} /\ ~rx.dead
  BY LoopFacts
<1>2. /\ Tail(rx.local) \in Seq(Requests) /\ NoDuplicates(Tail(rx.local))
      /\ Range(Tail(rx.local)) = Range(rx.local) \ {Head(rx.local)}
  BY <1>1, Popped
<1>3. CASE Tail(rx.local) = <<>>
  BY <1>2, <1>3, IdleRx DEF Moved
<1>4. CASE Tail(rx.local) # <<>>
  <2> DEFINE pc == IF rx.pc \in {"drain", "drainSubmit"} THEN "drain" ELSE "settle"
  <2>1. rx' = [rx EXCEPT !.local = Tail(rx.local), !.to = NoConn, !.pc = pc]
    BY <1>4 DEF Moved
  <2>2. pc \in {"drain", "settle"}
    OBVIOUS
  <2>3. /\ pc = "drain" => rx.pc \in {"drain", "drainSubmit"}
        /\ pc = "settle" => rx.pc \in {"settle", "settleSubmit"}
    BY DEF InLoop
  <2>4. rx.pc \in {"drain", "drainSubmit"} => rx.conn = NoConn
    BY DEF IInv, Pool, RxShape
  <2> HIDE DEF pc
  <2>5. /\ rx' \in RxType /\ rx'.local = Tail(rx.local) /\ rx'.done = rx.done
        /\ rx'.dead = rx.dead /\ rx'.to = NoConn /\ rx'.pc = pc /\ rx'.conn = rx.conn
    BY <1>1, <1>2, <2>1, <2>2 DEF RxType
  <2> QED
    BY <1>1, <1>2, <1>4, <2>2, <2>3, <2>4, <2>5
<1> QED
  BY <1>3, <1>4

\* Every connection stays where it is, and the healthy ones healthy.
SameConns ==
    \A d \in Conns : /\ conns'[d].at = conns[d].at /\ conns'[d].ep = conns[d].ep
                     /\ conns'[d].connected = conns[d].connected
                     /\ conns'[d].healthy = conns[d].healthy

LEMMA MovedKeepsPool ==
    ASSUME IInv, InLoop, rx' = Moved, SameConns, ConnsShape',
           \A q \in Requests : \/ rc'[q] = rc[q]
                               \/ rc'[q] \in Conns /\ Pooled(rc'[q]) /\ conns[rc'[q]].connected
    PROVE  Pool'
<1>1. /\ NoDuplicates(rx'.local) /\ Range(rx'.local) = Range(rx.local) \ {Head(rx.local)}
      /\ rx'.done = {} /\ ~rx'.dead /\ rx'.to = NoConn
      /\ \/ rx'.pc = "idle" /\ rx'.local = <<>> /\ rx'.conn = NoConn
         \/ /\ rx'.pc = "drain" /\ rx.pc \in {"drain", "drainSubmit"}
            /\ rx'.local # <<>> /\ rx'.conn = NoConn
         \/ /\ rx'.pc = "settle" /\ rx.pc \in {"settle", "settleSubmit"}
            /\ rx'.local # <<>> /\ rx'.conn = rx.conn
  BY MovedEffect
<1>2. /\ \A q \in Requests : rc[q] # NoConn => /\ rc[q] \in Conns /\ Pooled(rc[q])
                                               /\ conns[rc[q]].connected
  BY LoopFacts
<1>3. RxShape'
  <2>1. rx.pc \in {"settle", "settleSubmit"} =>
           /\ rx.conn \in Conns /\ conns[rx.conn].connected /\ conns[rx.conn].healthy
           /\ \A q \in Range(rx.local) : EndpointOf[q] = conns[rx.conn].ep
    BY DEF IInv, Pool, RxShape
  <2> QED
    BY <1>1, <2>1 DEF RxShape, SameConns
<1>4. PointersValid'
  <2>1. rx'.conn # NoConn => rx'.conn \in Conns /\ Pooled(rx'.conn)
    BY <1>1 DEF IInv, Pool, PointersValid, RxShape
  <2> QED
    BY <1>1, <1>2, <2>1 DEF PointersValid, Pooled, SameConns
<1> QED
  BY <1>3, <1>4 DEF Pool

\* The loop has dealt with its first request: completed it, put it back to wait,
\* or submitted it.
LEMMA MovedKeepsPlaces ==
    ASSUME IInv, InLoop, rx' = Moved, NEW h \in Requests, h = Head(rx.local),
           UNCHANGED <<submitQueue, phase, canceled, running>>,
           \A e \in Endpoints : /\ NoDuplicates(pending'[e])
                                /\ \A q \in Range(pending'[e]) : EndpointOf[q] = e,
           \A q \in Requests : /\ q # h => (InPending(q)' <=> InPending(q))
                               /\ q # h => (InCtxs(q)' <=> InCtxs(q)),
           ~(InPending(h)' /\ InCtxs(h)'),
           \/ finished' = finished
           \/ finished' = finished \cup {h} /\ ~InPending(h)' /\ ~InCtxs(h)',
           InFlightFound',
           Invalid = {} => h \in finished' \/ InPending(h)' \/ InCtxs(h)'
    PROVE  Places'
<1> USE DEF IInv
<1>1. /\ NoDuplicates(rx'.local) /\ Range(rx'.local) = Range(rx.local) \ {h}
      /\ rx'.done = {} /\ rx'.pc \in {"idle", "drain", "settle"}
  BY MovedEffect
<1>2. /\ InLocal(h) /\ phase[h] \notin {"new", "created"} /\ ~InSubmit(h) /\ rx.done = {}
  BY LoopFacts
<1>p. \A q \in Requests : /\ InSubmit(q)' <=> InSubmit(q)
                          /\ InLocal(q)' <=> InLocal(q) /\ q # h
                          /\ ~InDone(q) /\ ~InDone(q)'
  BY <1>1, <1>2 DEF InSubmit, InLocal, InDone
<1>3. QueuesDistinct'
  BY <1>1 DEF Places, QueuesDistinct
<1>4. OnePlace'
  BY <1>2, <1>p DEF Places, OnePlace
<1>5. FinishedCanceled'
  <2> SUFFICES ASSUME running, NEW q \in finished',
                      InSubmit(q)' \/ InLocal(q)' \/ InPending(q)' \/ phase[q] = "created"
               PROVE  q \in canceled
    BY <1>1 DEF FinishedCanceled
  <2>1. q \in Requests /\ (q # h => q \in finished) /\ finished \subseteq Requests
    BY DEF TypeOK
  <2> QED
    BY <1>2, <1>p, <2>1 DEF Places, FinishedCanceled
<1>6. Somewhere'
  BY <1>p DEF Places, Somewhere
<1> QED
  BY <1>3, <1>4, <1>5, <1>6 DEF Places

LEMMA DropCanceledKeeps == ASSUME IInv, dropCanceled PROVE IInv'
<1> DEFINE h == Head(rx.local)
<1>1. /\ rx.pc \in {"drain", "settle"} /\ h \in canceled /\ completeRequest({h}) /\ rx' = Moved
      /\ UNCHANGED <<callVars, canceled, submitQueue, tasks, poolVars, threadVars>>
  BY DEF dropCanceled
<1>2. InLoop /\ rx.pc # "exited"
  BY <1>1 DEF InLoop
<1>3. /\ h \in Requests /\ phase[h] # "new" /\ ~InPending(h) /\ ~InCtxs(h) /\ InLocal(h)
  BY <1>2, LoopFacts
<1>4. rx' \in RxType /\ rx'.pc # "exited"
  BY <1>1, <1>2, MovedEffect
<1> HIDE DEF h
<1>5. /\ Callbacks' /\ finished' = finished \cup {h} /\ finished' \subseteq Requests
      /\ contexts' \subseteq Requests /\ timers' \subseteq Requests
      /\ callbacks' \in [Requests -> [queued : Nat, ran : Nat]]
      /\ completing' \in [Requests -> {"no", "send", "cancel", "close"}]
  BY <1>1, <1>2, <1>3, <1>4, ReactorKeepsCallbacks DEF threadVars
<1>6. TypeOK'
  BY <1>1, <1>4, <1>5 DEF IInv, TypeOK, callVars, poolVars, threadVars
<1>7. Posted'
  BY <1>1, SamePosted DEF IInv, poolVars, callVars, InSubmit
<1>8. Pool'
  <2>1. SameConns /\ ConnsShape' /\ UNCHANGED rc
    BY <1>1 DEF SameConns, IInv, Pool, ConnsShape, poolVars
  <2> QED
    BY <1>1, <1>2, <2>1, MovedKeepsPool
<1>9. Places'
  <2>1. \A q \in Requests : /\ InPending(q)' <=> InPending(q)
                            /\ InCtxs(q)' <=> InCtxs(q)
    BY <1>1 DEF InPending, InCtxs, poolVars
  <2>2. \A e \in Endpoints : /\ NoDuplicates(pending'[e])
                             /\ \A q \in Range(pending'[e]) : EndpointOf[q] = e
    BY <1>1 DEF IInv, Places, QueuesDistinct, poolVars
  <2>3. InFlightFound'
    <3>1. \A d \in Conns : h \notin conns[d].ctxs
      BY <1>3 DEF InCtxs
    <3> QED
      BY <1>1, <1>5, <3>1 DEF IInv, Places, InFlightFound, poolVars, threadVars
  <2>4. UNCHANGED <<submitQueue, phase, canceled, running>> /\ h = Head(rx.local)
    BY <1>1 DEF callVars, threadVars, h
  <2> QED
    BY <1>1, <1>2, <1>3, <1>5, <2>1, <2>2, <2>3, <2>4, MovedKeepsPlaces
<1> QED
  BY <1>5, <1>6, <1>7, <1>8, <1>9 DEF IInv

\* A request is put back to wait for its endpoint.
LEMMA ParkedKeeps ==
    ASSUME IInv, rx.pc \in {"drain", "settle"}, rx' = Moved,
           NEW e \in Endpoints, e = EndpointOf[Head(rx.local)],
           pending' = [pending EXCEPT ![e] = Append(pending[e], Head(rx.local))],
           UNCHANGED <<callVars, ctxVars, canceled, submitQueue, tasks, rc, conns, running,
                       connector, dispatcher, closer>>,
           connecting' \subseteq Endpoints, connectTasks' \in Seq(Endpoints)
    PROVE  IInv'
<1> DEFINE h == Head(rx.local)
           w == Append(pending[e], h)
<1>1. InLoop /\ rx.pc # "exited"
  BY DEF InLoop
<1>2. /\ h \in Requests /\ phase[h] # "new" /\ ~InPending(h) /\ ~InCtxs(h) /\ InLocal(h)
      /\ EndpointOf[h] = e
  BY <1>1, LoopFacts
<1>3. rx' \in RxType /\ rx'.pc # "exited"
  BY <1>1, MovedEffect
<1>4. /\ pending[e] \in Seq(Requests) /\ NoDuplicates(pending[e])
      /\ pending \in [Endpoints -> Seq(Requests)]
  BY WaitingFacts DEF IInv, TypeOK
<1>h. h = Head(rx.local) /\ pending' = [pending EXCEPT ![e] = w]
  OBVIOUS
<1> HIDE DEF h
<1>5. /\ w \in Seq(Requests) /\ Range(w) = Range(pending[e]) \cup {h} /\ NoDuplicates(w)
  <2>1. h \notin Range(pending[e])
    BY <1>2 DEF InPending
  <2> QED
    BY <1>2, <1>4, <2>1, Pushed
<1> HIDE DEF w
<1>6. /\ pending' \in [Endpoints -> Seq(Requests)] /\ pending'[e] = w
      /\ \A f \in Endpoints : f # e => pending'[f] = pending[f]
  BY <1>4, <1>5, <1>h
<1>7. TypeOK'
  BY <1>3, <1>6 DEF IInv, TypeOK, callVars, ctxVars
<1>8. Callbacks'
  <2>1. closer \notin {"fail contexts", "return", "closed"}
    BY <1>1 DEF IInv, Callbacks, CloseOrder
  <2> QED
    BY <1>1, <1>3, <2>1, QuietKeepsCallbacks DEF IInv, ctxVars, callVars, NothingCompleted
<1>9. Posted'
  BY SamePosted DEF IInv, callVars, InSubmit
<1>10. Pool'
  <2>1. SameConns /\ ConnsShape' /\ UNCHANGED rc
    BY DEF SameConns, IInv, Pool, ConnsShape
  <2> QED
    BY <1>1, <2>1, MovedKeepsPool
<1>11. Places'
  <2>1. \A q \in Requests : /\ InPending(q)' <=> InPending(q) \/ q = h
                            /\ InCtxs(q)' <=> InCtxs(q)
    <3>1. \A q \in Requests : InPending(q)' <=> InPending(q) \/ q = h
      BY <1>2, <1>5, <1>6, Typed DEF IInv, InPending
    <3> QED
      BY <3>1 DEF InCtxs
  <2>2. \A f \in Endpoints : /\ NoDuplicates(pending'[f])
                             /\ \A q \in Range(pending'[f]) : EndpointOf[q] = f
    BY <1>2, <1>5, <1>6 DEF IInv, Places, QueuesDistinct
  <2>3. InFlightFound'
    BY DEF IInv, Places, InFlightFound, ctxVars
  <2>4. UNCHANGED <<submitQueue, phase, canceled, running, finished>>
    BY DEF callVars, ctxVars
  <2> QED
    BY <1>1, <1>2, <1>h, <2>1, <2>2, <2>3, <2>4, MovedKeepsPlaces
<1> QED
  BY <1>7, <1>8, <1>9, <1>10, <1>11 DEF IInv

LEMMA ParkKeeps == ASSUME IInv, park PROVE IInv'
<1> DEFINE e == EndpointOf[Head(rx.local)]
<1>1. /\ rx.pc = "drain" /\ rx' = Moved
      /\ pending' = [pending EXCEPT ![e] = Append(pending[e], Head(rx.local))]
      /\ \/ connecting' = connecting /\ connectTasks' = connectTasks
         \/ connecting' = connecting \cup {e} /\ connectTasks' = Append(connectTasks, e)
      /\ UNCHANGED <<callVars, ctxVars, canceled, submitQueue, tasks, rc, conns, running,
                     connector, dispatcher, closer>>
  BY DEF park, enqueueConnectTask
<1>2. InLoop
  BY <1>1 DEF InLoop
<1>3. e \in Endpoints /\ connecting \subseteq Endpoints /\ connectTasks \in Seq(Endpoints)
  BY <1>2, LoopFacts DEF IInv, TypeOK
<1>4. Append(connectTasks, e) \in Seq(Endpoints)
  BY <1>3
<1>5. connecting' \subseteq Endpoints /\ connectTasks' \in Seq(Endpoints)
  BY <1>1, <1>3, <1>4
<1>e. e = EndpointOf[Head(rx.local)]
  OBVIOUS
<1> HIDE DEF e
<1> QED
  BY <1>1, <1>3, <1>5, <1>e, ParkedKeeps

\* The first request of the loop is given a connection.
LEMMA ChosenKeeps ==
    ASSUME IInv, rx.pc \in {"drain", "settle"}, Head(rx.local) \notin canceled,
           NEW c \in Conns, Pooled(c), conns[c].connected, conns[c].healthy,
           rx' = [rx EXCEPT !.pc = rx'.pc, !.to = c],
           rx'.pc = IF rx.pc = "drain" THEN "drainSubmit" ELSE "settleSubmit",
           UNCHANGED <<callVars, ctxVars, canceled, submitQueue, tasks, poolVars, threadVars>>
    PROVE  IInv'
<1> USE DEF IInv
<1>1. InLoop
  BY DEF InLoop
<1>2. /\ rx \in RxType /\ rx.local # <<>> /\ Head(rx.local) \in Requests /\ InLocal(Head(rx.local))
      /\ rx.done = {} /\ ~rx.dead
      /\ \A q \in Requests : rc[q] # NoConn => rc[q] \in Conns /\ Pooled(rc[q]) /\ conns[rc[q]].connected
  BY <1>1, LoopFacts
<1>3. /\ rx' \in RxType /\ rx'.local = rx.local /\ rx'.conn = rx.conn /\ rx'.to = c
      /\ rx'.done = rx.done /\ rx'.dead = rx.dead /\ rx'.pc \in {"drainSubmit", "settleSubmit"}
  <2>1. rx'.pc \in {"drainSubmit", "settleSubmit"}
    OBVIOUS
  <2> QED
    BY <1>2, <2>1 DEF RxType
<1>4. TypeOK'
  BY <1>3 DEF TypeOK, callVars, ctxVars, poolVars, threadVars
<1>5. Callbacks'
  <2>1. closer \in {"fail contexts", "return", "closed"} => \A r \in Range(submitQueue') : phase[r] = "queued"
    BY DEF Callbacks, CloseOrder
  <2> QED
    BY <1>1, <1>3, <2>1, QuietKeepsCallbacks
       DEF ctxVars, callVars, threadVars, NothingCompleted, InLoop
<1>6. Posted'
  BY SamePosted DEF poolVars, callVars, InSubmit
<1>7. Pool'
  <2>1. RxShape'
    BY <1>2, <1>3 DEF Pool, RxShape, poolVars
  <2>2. ConnsShape'
    BY DEF Pool, ConnsShape, poolVars
  <2>3. PointersValid'
    BY <1>2, <1>3 DEF Pool, PointersValid, Pooled, poolVars
  <2> QED
    BY <2>1, <2>2, <2>3 DEF Pool
<1>8. Places'
  <2>p. \A q \in Requests : /\ InSubmit(q)' <=> InSubmit(q)
                            /\ InLocal(q)' <=> InLocal(q)
                            /\ InPending(q)' <=> InPending(q)
                            /\ InCtxs(q)' <=> InCtxs(q)
                            /\ InDone(q)' <=> InDone(q)
    BY <1>3 DEF InSubmit, InLocal, InPending, InCtxs, InDone, poolVars
  <2>1. QueuesDistinct'
    BY <1>3 DEF Places, QueuesDistinct, poolVars
  <2>2. OnePlace'
    BY <2>p DEF Places, OnePlace, callVars
  <2>3. InFlightFound'
    BY DEF Places, InFlightFound, poolVars, ctxVars, threadVars
  <2>4. FinishedCanceled'
    <3>1. finished \subseteq Requests
      BY DEF TypeOK
    <3>2. running => Head(rx.local) \notin finished
      BY <1>2 DEF Places, FinishedCanceled
    <3> QED
      BY <1>3, <2>p, <3>1, <3>2 DEF Places, FinishedCanceled, ctxVars, callVars, threadVars
  <2>5. Somewhere'
    BY <2>p DEF Places, Somewhere, ctxVars, callVars
  <2> QED
    BY <2>1, <2>2, <2>3, <2>4, <2>5 DEF Places
<1> QED
  BY <1>4, <1>5, <1>6, <1>7, <1>8

LEMMA ChooseKeeps == ASSUME IInv, NEW c \in Conns, choose(c) PROVE IInv'
<1>1. /\ rx.pc = "drain" /\ Head(rx.local) \notin canceled
      /\ Pooled(c) /\ conns[c].connected /\ conns[c].healthy
      /\ rx' = [rx EXCEPT !.pc = "drainSubmit", !.to = c]
      /\ UNCHANGED <<callVars, ctxVars, canceled, submitQueue, tasks, poolVars, threadVars>>
  BY DEF choose, pickConnectionOnReactor, Accepting
<1>2. rx \in RxType
  BY Typed DEF IInv
<1>3. rx'.pc = "drainSubmit" /\ rx' = [rx EXCEPT !.pc = rx'.pc, !.to = c]
  BY <1>1, <1>2 DEF RxType
<1> QED
  BY <1>1, <1>3, ChosenKeeps

LEMMA SettleKeeps == ASSUME IInv, settle PROVE IInv'
<1>1. /\ rx.pc = "settle" /\ Head(rx.local) \notin canceled
      /\ UNCHANGED <<callVars, ctxVars, canceled, submitQueue, tasks, connecting, rc, conns,
                     threadVars>>
      /\ \/ rx' = [rx EXCEPT !.pc = "settleSubmit", !.to = rx.conn] /\ UNCHANGED pending
         \/ /\ rx' = Moved
            /\ pending' = [pending EXCEPT ![conns[rx.conn].ep] =
                              Append(pending[conns[rx.conn].ep], Head(rx.local))]
  BY DEF settle
<1>2. /\ rx \in RxType /\ rx.conn \in Conns /\ conns[rx.conn].connected /\ conns[rx.conn].healthy
      /\ \A q \in Range(rx.local) : EndpointOf[q] = conns[rx.conn].ep
      /\ rx.conn # NoConn /\ InLoop
  BY <1>1, Typed DEF IInv, Pool, RxShape, InLoop
<1>3. Pooled(rx.conn)
  BY <1>2 DEF IInv, Pool, PointersValid
<1>4. CASE rx' = [rx EXCEPT !.pc = "settleSubmit", !.to = rx.conn] /\ UNCHANGED pending
  <2>1. rx'.pc = "settleSubmit" /\ rx' = [rx EXCEPT !.pc = rx'.pc, !.to = rx.conn]
    BY <1>2, <1>4 DEF RxType
  <2> QED
    BY <1>1, <1>2, <1>3, <1>4, <2>1, ChosenKeeps DEF poolVars
<1>5. CASE /\ rx' = Moved
           /\ pending' = [pending EXCEPT ![conns[rx.conn].ep] =
                             Append(pending[conns[rx.conn].ep], Head(rx.local))]
  <2> DEFINE e == conns[rx.conn].ep
  <2>1. e \in Endpoints /\ e = EndpointOf[Head(rx.local)]
    BY <1>2, Typed, LoopFacts DEF IInv, InLocal
  <2>2. pending' = [pending EXCEPT ![e] = Append(pending[e], Head(rx.local))]
    BY <1>5
  <2>3. connecting' \subseteq Endpoints /\ connectTasks' \in Seq(Endpoints)
    BY <1>1 DEF IInv, TypeOK, threadVars
  <2>4. UNCHANGED <<callVars, ctxVars, canceled, submitQueue, tasks, rc, conns, running,
                    connector, dispatcher, closer>>
    BY <1>1 DEF threadVars
  <2> HIDE DEF e
  <2> QED
    BY <1>1, <1>5, <2>1, <2>2, <2>3, <2>4, ParkedKeeps
<1> QED
  BY <1>1, <1>4, <1>5

\* What submitOnReactor does with a request that no session has yet: a stream, or
\* its completion, or nothing when the protocol refuses it.
Submitted(q) ==
    \/ completeRequest({}) /\ finished' = finished /\ (Invalid = {} => InCtxs(q)')
    \/ completeRequest({q}) /\ finished' = finished \cup {q} /\ ~InCtxs(q)'

LEMMA SubmitEffect ==
    ASSUME IInv, NEW q \in Requests, NEW c \in Conns, submitOnReactor(q, c),
           Pooled(c), conns[c].connected, conns[c].healthy,
           ~InCtxs(q), phase[q] # "new", running => q \notin finished, UNCHANGED running
    PROVE  /\ conns' \in [Conns -> ConnType] /\ SameConns /\ ConnsShape'
           /\ rc' \in [Requests -> Conns \cup {NoConn}] /\ rc'[q] = c
           /\ \A r \in Requests : r # q => rc'[r] = rc[r]
           /\ \A r \in Requests : r # q => (InCtxs(r)' <=> InCtxs(r))
           /\ InFlightFound' /\ Submitted(q)
<1> DEFINE reset == q \in canceled \ finished
           sent  == [conns EXCEPT ![c].streams = @ \cup {q}, ![c].ctxs = @ \cup {q}]
           k     == [conns[c] EXCEPT !.streams = conns[c].streams \cup {q},
                                     !.ctxs = conns[c].ctxs \cup {q}]
<1>1. rc' = [rc EXCEPT ![q] = c]
  BY DEF submitOnReactor
<1>2. rc \in [Requests -> Conns \cup {NoConn}] /\ conns \in [Conns -> ConnType]
  BY DEF IInv, TypeOK
<1>3. /\ rc' \in [Requests -> Conns \cup {NoConn}] /\ rc'[q] = c
      /\ \A r \in Requests : r # q => rc'[r] = rc[r]
  BY <1>1, <1>2
<1>n. \A d \in Conns : q \notin conns[d].ctxs
  BY DEF InCtxs
<1>t. \A d \in Conns : conns[d].ctxs \subseteq Requests
  BY Typed DEF IInv
<1>4. ASSUME UNCHANGED conns, NEW S \in {{}, {q}}, finished' = finished \cup S
      PROVE  /\ conns' \in [Conns -> ConnType] /\ SameConns /\ ConnsShape'
             /\ \A r \in Requests : InCtxs(r)' <=> InCtxs(r)
             /\ InFlightFound'
  <2>1. conns' \in [Conns -> ConnType] /\ SameConns /\ ConnsShape'
    BY <1>2, <1>4 DEF SameConns, ConnsShape, IInv, Pool
  <2>2. \A r \in Requests : InCtxs(r)' <=> InCtxs(r)
    BY <1>4 DEF InCtxs
  <2>3. InFlightFound'
    BY <1>3, <1>4, <1>n, <1>t DEF InFlightFound, IInv, Places
  <2> QED
    BY <2>1, <2>2, <2>3
<1>5. CASE q \in Invalid
  <2>1. NothingCompleted /\ UNCHANGED conns
    BY <1>5 DEF submitOnReactor
  <2>2. completeRequest({}) /\ finished' = finished \cup {}
    BY <2>1, NothingIsCompleted DEF IInv, NothingCompleted
  <2>3. Submitted(q)
    BY <1>5, <2>2 DEF Submitted
  <2> QED
    BY <1>3, <1>4, <2>1, <2>2, <2>3
<1>6. CASE q \notin Invalid /\ reset
  <2>1. completeRequest({q}) /\ UNCHANGED conns
    BY <1>6 DEF submitOnReactor
  <2>2. finished' = finished \cup {q}
    BY <2>1, CompleteEffect DEF IInv, Callbacks, Completes
  <2>3. /\ conns' \in [Conns -> ConnType] /\ SameConns /\ ConnsShape'
        /\ \A r \in Requests : InCtxs(r)' <=> InCtxs(r)
        /\ InFlightFound'
    BY <1>4, <2>1, <2>2
  <2>4. Submitted(q)
    BY <2>1, <2>2, <2>3 DEF Submitted
  <2> QED
    BY <1>3, <2>3, <2>4
<1>7. CASE q \notin Invalid /\ ~reset
  <2>1. NothingCompleted /\ conns' = sent
    BY <1>7 DEF submitOnReactor
  <2>2. completeRequest({}) /\ finished' = finished \cup {}
    BY <2>1, NothingIsCompleted DEF IInv, NothingCompleted
  <2>3. conns' = [conns EXCEPT ![c] = k]
    BY <1>2, <2>1 DEF ConnType
  <2>4. /\ k \in ConnType /\ k.at = conns[c].at /\ k.ep = conns[c].ep
        /\ k.connected = conns[c].connected /\ k.healthy = conns[c].healthy
        /\ k.ctxs = conns[c].ctxs \cup {q} /\ k.streams = conns[c].streams \cup {q}
    BY <1>2 DEF ConnType
  <2> HIDE DEF k
  <2>5. /\ conns' \in [Conns -> ConnType] /\ conns'[c] = k
        /\ \A d \in Conns : d # c => conns'[d] = conns[d]
    BY <1>2, <2>3, <2>4
  <2>6. SameConns /\ ConnsShape'
    BY <2>4, <2>5 DEF SameConns, ConnsShape, IInv, Pool
  <2>7. /\ InCtxs(q)' /\ \A r \in Requests : r # q => (InCtxs(r)' <=> InCtxs(r))
    BY <2>4, <2>5 DEF InCtxs
  <2>8. InFlightFound'
    <3> SUFFICES ASSUME NEW d \in Conns, NEW r \in conns'[d].ctxs
                 PROVE  /\ rc'[r] = d /\ conns'[d].connected /\ r \in conns'[d].streams
                        /\ r \in finished' => ~running'
      BY DEF InFlightFound
    <3>1. CASE r = q
      <4>1. d = c
        BY <1>n, <2>5, <3>1
      <4> QED
        BY <1>3, <2>2, <2>4, <2>5, <3>1, <4>1
    <3>2. CASE r # q
      <4>1. r \in conns[d].ctxs /\ r \in Requests
        BY <1>t, <2>4, <2>5, <3>2
      <4>2. /\ rc[r] = d /\ conns[d].connected /\ r \in conns[d].streams
            /\ r \in finished => ~running
        BY <4>1 DEF InFlightFound, IInv, Places
      <4> QED
        BY <1>3, <2>2, <2>4, <2>5, <3>2, <4>1, <4>2
    <3> QED
      BY <3>1, <3>2
  <2>9. Submitted(q)
    BY <2>2, <2>7 DEF Submitted
  <2> QED
    BY <1>3, <2>5, <2>6, <2>7, <2>8, <2>9
<1> QED
  BY <1>5, <1>6, <1>7

LEMMA SubmitLocalKeeps == ASSUME IInv, submitLocal PROVE IInv'
<1>0. /\ rx.pc \in {"drainSubmit", "settleSubmit"} /\ rx' = Moved
      /\ submitOnReactor(Head(rx.local), rx.to)
      /\ UNCHANGED <<callVars, canceled, submitQueue, tasks, pending, connecting, threadVars>>
      /\ UNCHANGED <<phase, running>>
  BY DEF submitLocal, callVars, threadVars
<1>2. InLoop /\ rx.pc # "exited"
  BY <1>0 DEF InLoop
<1>h. PICK h \in Requests : h = Head(rx.local)
  BY <1>2, LoopFacts
<1>c. PICK c \in Conns : c = rx.to
  BY <1>0 DEF IInv, Pool, RxShape
<1>1. /\ rx.pc \in {"drainSubmit", "settleSubmit"} /\ submitOnReactor(h, c) /\ rx' = Moved
      /\ UNCHANGED <<callVars, canceled, submitQueue, tasks, pending, connecting, threadVars>>
      /\ UNCHANGED <<phase, running>>
  BY <1>0, <1>h, <1>c
<1>3. /\ h \in Requests /\ phase[h] # "new" /\ ~InPending(h) /\ ~InCtxs(h)
  BY <1>2, <1>h, LoopFacts
<1>4. c \in Conns /\ Pooled(c) /\ conns[c].connected /\ conns[c].healthy
      /\ (running => h \notin finished)
  BY <1>1, <1>h, <1>c, Typed DEF IInv, Pool, RxShape, PointersValid, Places, FinishedCanceled
<1>5. rx' \in RxType /\ rx'.pc # "exited"
  BY <1>1, <1>2, MovedEffect
<1>6. /\ conns' \in [Conns -> ConnType] /\ SameConns /\ ConnsShape'
      /\ rc' \in [Requests -> Conns \cup {NoConn}] /\ rc'[h] = c
      /\ \A r \in Requests : r # h => rc'[r] = rc[r]
      /\ \A r \in Requests : r # h => (InCtxs(r)' <=> InCtxs(r))
      /\ InFlightFound' /\ Submitted(h)
  BY <1>1, <1>3, <1>4, SubmitEffect
<1>7. PICK S \in {{}, {h}} : completeRequest(S)
  BY <1>6 DEF Submitted
<1>8. S \in SUBSET Requests /\ \A q \in S : phase[q] # "new"
  BY <1>3
<1>9. /\ Callbacks' /\ finished' \subseteq Requests
      /\ contexts' \subseteq Requests /\ timers' \subseteq Requests
      /\ callbacks' \in [Requests -> [queued : Nat, ran : Nat]]
      /\ completing' \in [Requests -> {"no", "send", "cancel", "close"}]
  BY <1>1, <1>2, <1>5, <1>7, <1>8, ReactorKeepsCallbacks DEF threadVars
<1>10. TypeOK'
  BY <1>1, <1>5, <1>6, <1>9 DEF IInv, TypeOK, callVars, threadVars
<1>11. Posted'
  BY <1>1, <1>6, SamePosted DEF IInv, callVars, InSubmit, SameConns
<1>12. Pool'
  BY <1>1, <1>2, <1>4, <1>6, MovedKeepsPool
<1>13. Places'
  <2>1. \A q \in Requests : InPending(q)' <=> InPending(q)
    BY <1>1 DEF InPending
  <2>2. \A e \in Endpoints : /\ NoDuplicates(pending'[e])
                             /\ \A q \in Range(pending'[e]) : EndpointOf[q] = e
    BY <1>1 DEF IInv, Places, QueuesDistinct
  <2>3. ~InPending(h)' /\ ~(InPending(h)' /\ InCtxs(h)')
    BY <1>3, <2>1
  <2>4. /\ \/ finished' = finished
           \/ finished' = finished \cup {h} /\ ~InPending(h)' /\ ~InCtxs(h)'
        /\ Invalid = {} => h \in finished' \/ InPending(h)' \/ InCtxs(h)'
    BY <1>6, <2>3 DEF Submitted
  <2>5. \A q \in Requests : /\ q # h => (InPending(q)' <=> InPending(q))
                            /\ q # h => (InCtxs(q)' <=> InCtxs(q))
    BY <1>6, <2>1
  <2>6. UNCHANGED <<submitQueue, phase, canceled, running>> /\ InFlightFound'
    BY <1>1, <1>6
  <2> QED
    BY <1>1, <1>2, <1>3, <1>h, <2>2, <2>3, <2>4, <2>5, <2>6, MovedKeepsPlaces
<1> QED
  BY <1>9, <1>10, <1>11, <1>12, <1>13 DEF IInv
-----------------------------------------------------------------------------
(***************************************************************************)
(* The reactor thread: the events of a session                             *)
(***************************************************************************)
\* What holds while the events of a session are handled
LEMMA EventFacts ==
    ASSUME IInv, rx.pc \in {"events", "refill", "refillSubmit"}
    PROVE  /\ rx \in RxType /\ rx.local = <<>> /\ rx.conn \in Conns /\ Pooled(rx.conn)
           /\ rx.pc = "events" => rx.to = NoConn
           /\ rx.pc # "events" => /\ rx.to \in Conns /\ Pooled(rx.to)
                                  /\ conns[rx.to].connected /\ conns[rx.to].healthy
           /\ rx.done \subseteq Requests /\ rx.ep \in Endpoints
           /\ rx.dead => ~conns[rx.conn].healthy
           /\ \A q \in Requests : ~InLocal(q)
           /\ NoConn \notin Conns
<1>1. /\ rx.local = <<>> /\ rx.conn \in Conns
      /\ rx.pc = "events" => rx.to = NoConn
      /\ rx.pc # "events" => rx.to \in Conns
      /\ rx.dead => ~conns[rx.conn].healthy
  BY DEF IInv, Pool, RxShape
<1>2. rx \in RxType /\ rx.done \subseteq Requests /\ rx.ep \in Endpoints /\ NoConn \notin Conns
  BY Typed DEF IInv
<1>3. Pooled(rx.conn) /\ (rx.to \in Conns => /\ Pooled(rx.to) /\ conns[rx.to].connected
                                              /\ conns[rx.to].healthy)
  BY <1>1, <1>2 DEF IInv, Pool, PointersValid
<1>4. \A q \in Requests : ~InLocal(q)
  BY <1>1, Empty DEF InLocal
<1> QED
  BY <1>1, <1>2, <1>3, <1>4

LEMMA RequestDoneKeeps == ASSUME IInv, NEW q \in Requests, onRequestDone(q) PROVE IInv'
<1> DEFINE rest == [rx EXCEPT !.done = rx.done \ {q}]
<1>1. /\ rx.pc = "events" /\ q \in rx.done /\ rc' = [rc EXCEPT ![q] = NoConn]
      /\ completeRequest({q}) /\ OnReactor /\ UNCHANGED <<pending, connecting, conns>>
      /\ \/ rx' = rest
         \/ /\ rc[q] # NoConn
            /\ \E c \in pickConnectionOnReactor(conns[rc[q]].ep) :
                  rx' = [rest EXCEPT !.pc = "refill", !.ep = conns[rc[q]].ep, !.to = c]
  BY DEF onRequestDone
<1>2. UNCHANGED <<callVars, canceled, submitQueue, tasks, threadVars, phase, running>>
  BY <1>1 DEF OnReactor, callVars, threadVars
<1>3. /\ rx \in RxType /\ rx.local = <<>> /\ rx.conn \in Conns /\ Pooled(rx.conn) /\ rx.to = NoConn
      /\ rx.dead => ~conns[rx.conn].healthy
      /\ \A r \in Requests : ~InLocal(r)
  BY <1>1, EventFacts
<1>4. /\ rest \in RxType /\ rest.pc = "events" /\ rest.local = <<>> /\ rest.conn = rx.conn
      /\ rest.to = NoConn /\ rest.done = rx.done \ {q} /\ rest.dead = rx.dead
  BY <1>1, <1>3 DEF RxType
<1> HIDE DEF rest
<1>5. /\ rx' \in RxType /\ rx'.local = <<>> /\ rx'.conn = rx.conn
      /\ rx'.done = rx.done \ {q} /\ rx'.dead = rx.dead
      /\ \/ rx'.pc = "events" /\ rx'.to = NoConn
         \/ /\ rx'.pc = "refill" /\ rx'.to \in Conns /\ Pooled(rx'.to)
            /\ conns[rx'.to].connected /\ conns[rx'.to].healthy
  <2>1. CASE rx' = rest
    BY <1>4, <2>1
  <2>2. ASSUME rc[q] # NoConn,
               NEW c \in pickConnectionOnReactor(conns[rc[q]].ep),
               rx' = [rest EXCEPT !.pc = "refill", !.ep = conns[rc[q]].ep, !.to = c]
        PROVE  /\ rx' \in RxType /\ rx'.local = <<>> /\ rx'.conn = rx.conn
               /\ rx'.done = rx.done \ {q} /\ rx'.dead = rx.dead
               /\ rx'.pc = "refill" /\ rx'.to \in Conns /\ Pooled(rx'.to)
               /\ conns[rx'.to].connected /\ conns[rx'.to].healthy
    <3>1. c \in Conns /\ Pooled(c) /\ conns[c].connected /\ conns[c].healthy
      BY DEF pickConnectionOnReactor, Accepting
    <3>2. conns[rc[q]].ep \in Endpoints
      BY <2>2, Typed DEF IInv
    <3> QED
      BY <1>4, <2>2, <3>1, <3>2 DEF RxType
  <2> QED
    BY <1>1, <2>1, <2>2
<1>6. /\ InDone(q) /\ phase[q] \notin {"new", "created"}
      /\ ~InSubmit(q) /\ ~InPending(q) /\ ~InCtxs(q)
  BY <1>1 DEF InDone, IInv, Places, OnePlace
<1>7. /\ Callbacks' /\ finished' = finished \cup {q} /\ finished' \subseteq Requests
      /\ contexts' \subseteq Requests /\ timers' \subseteq Requests
      /\ callbacks' \in [Requests -> [queued : Nat, ran : Nat]]
      /\ completing' \in [Requests -> {"no", "send", "cancel", "close"}]
  BY <1>1, <1>2, <1>5, <1>6, ReactorKeepsCallbacks DEF threadVars
<1>8. /\ rc' \in [Requests -> Conns \cup {NoConn}] /\ rc'[q] = NoConn
      /\ \A r \in Requests : r # q => rc'[r] = rc[r]
  BY <1>1 DEF IInv, TypeOK
<1>9. TypeOK'
  BY <1>1, <1>2, <1>5, <1>7, <1>8 DEF IInv, TypeOK, callVars, threadVars
<1>10. Posted'
  BY <1>1, <1>2, SamePosted DEF IInv, callVars, InSubmit
<1>11. Pool'
  <2>1. RxShape'
    BY <1>1, <1>3, <1>5, Typed DEF RxShape, IInv
  <2>2. ConnsShape'
    BY <1>1 DEF ConnsShape, IInv, Pool
  <2>3. PointersValid'
    BY <1>1, <1>3, <1>5, <1>8 DEF PointersValid, Pooled, IInv, Pool
  <2> QED
    BY <2>1, <2>2, <2>3 DEF Pool
<1>12. Places'
  <2>p. \A r \in Requests : /\ InSubmit(r)' <=> InSubmit(r)
                            /\ ~InLocal(r) /\ ~InLocal(r)'
                            /\ InPending(r)' <=> InPending(r)
                            /\ InCtxs(r)' <=> InCtxs(r)
                            /\ InDone(r)' <=> InDone(r) /\ r # q
    BY <1>1, <1>2, <1>3, <1>5, Empty DEF InSubmit, InLocal, InPending, InCtxs, InDone
  <2>1. QueuesDistinct'
    BY <1>1, <1>2, <1>5, Empty DEF IInv, Places, QueuesDistinct
  <2>2. OnePlace'
    BY <1>2, <2>p DEF IInv, Places, OnePlace
  <2>3. InFlightFound'
    <3>1. \A d \in Conns : q \notin conns[d].ctxs /\ conns[d].ctxs \subseteq Requests
      BY <1>6, Typed DEF InCtxs, IInv
    <3> SUFFICES ASSUME NEW d \in Conns, NEW r \in conns[d].ctxs
                 PROVE  /\ rc'[r] = d /\ conns[d].connected /\ r \in conns[d].streams
                        /\ r \in finished' => ~running
      BY <1>1, <1>2 DEF InFlightFound
    <3>2. r \in Requests /\ r # q
      BY <3>1
    <3>3. /\ rc[r] = d /\ conns[d].connected /\ r \in conns[d].streams
          /\ r \in finished => ~running
      BY DEF IInv, Places, InFlightFound
    <3> QED
      BY <1>7, <1>8, <3>2, <3>3
  <2>4. FinishedCanceled'
    <3>1. finished \subseteq Requests
      BY DEF IInv, TypeOK
    <3> QED
      BY <1>2, <1>5, <1>6, <1>7, <2>p, <3>1 DEF IInv, Places, FinishedCanceled
  <2>5. Somewhere'
    BY <1>2, <1>7, <2>p DEF IInv, Places, Somewhere
  <2> QED
    BY <2>1, <2>2, <2>3, <2>4, <2>5 DEF Places
<1> QED
  BY <1>7, <1>9, <1>10, <1>11, <1>12 DEF IInv

\* A step between two events leaves the requests where they are.
LEMMA EventsKeepPlaces ==
    ASSUME IInv, rx.pc \in {"events", "refill", "refillSubmit"},
           UNCHANGED <<submitQueue, pending, phase, running, finished, canceled>>,
           rx'.local = <<>>, rx'.done = rx.done,
           rx'.pc \in {"idle", "events", "refill", "refillSubmit"},
           rx'.pc = "refillSubmit" /\ running => Head(pending[rx'.ep]) \notin finished,
           \A d \in Conns : conns'[d].ctxs = conns[d].ctxs,
           InFlightFound'
    PROVE  Places'
<1>p. \A r \in Requests : /\ InSubmit(r)' <=> InSubmit(r)
                          /\ ~InLocal(r) /\ ~InLocal(r)'
                          /\ InPending(r)' <=> InPending(r)
                          /\ InCtxs(r)' <=> InCtxs(r)
                          /\ InDone(r)' <=> InDone(r)
  BY EventFacts, Empty DEF InSubmit, InLocal, InPending, InCtxs, InDone
<1>1. QueuesDistinct'
  BY Empty DEF IInv, Places, QueuesDistinct
<1>2. OnePlace'
  BY <1>p DEF IInv, Places, OnePlace
<1>3. FinishedCanceled'
  <2>1. finished \subseteq Requests
    BY DEF IInv, TypeOK
  <2> QED
    BY <1>p, <2>1 DEF IInv, Places, FinishedCanceled
<1>4. Somewhere'
  BY <1>p DEF IInv, Places, Somewhere
<1> QED
  BY <1>1, <1>2, <1>3, <1>4 DEF Places

\* The events of the session have been handled.
LEMMA EventsDoneKeeps == ASSUME IInv, eventsDone PROVE IInv'
<1>1. /\ rx.pc = "events" /\ rx.done = {} /\ ~rx.dead /\ rx' = Idle /\ conns' = conns
      /\ UNCHANGED <<callVars, ctxVars, submitQueue, pending, connecting, rc, threadVars>>
      /\ canceled' = canceled /\ Posted' /\ tasks' = tasks
  BY SessionOnlyFacts DEF eventsDone, SessionOnly, OnReactor
<1>2. /\ rx' \in RxType /\ rx'.pc = "idle" /\ rx'.local = <<>> /\ rx'.conn = NoConn
      /\ rx'.to = NoConn /\ rx'.done = {} /\ ~rx'.dead
  BY <1>1, IdleRx
<1>3. TypeOK'
  BY <1>1, <1>2 DEF IInv, TypeOK, callVars, ctxVars, threadVars
<1>4. Callbacks'
  <2>1. closer \in {"fail contexts", "return", "closed"} => \A r \in Range(submitQueue') : phase[r] = "queued"
    BY <1>1 DEF IInv, Callbacks, CloseOrder
  <2> QED
    BY <1>1, <1>2, <2>1, QuietKeepsCallbacks DEF IInv, ctxVars, callVars, threadVars, NothingCompleted
<1>5. Pool'
  <2>1. NoConn \notin Conns
    BY <1>1, EventFacts
  <2>2. RxShape'
    BY <1>2, <2>1 DEF RxShape
  <2>3. ConnsShape'
    BY <1>1 DEF IInv, Pool, ConnsShape
  <2>4. PointersValid'
    BY <1>1, <1>2 DEF PointersValid, Pooled, IInv, Pool
  <2> QED
    BY <2>2, <2>3, <2>4 DEF Pool
<1>6. Places'
  <2>1. InFlightFound'
    BY <1>1 DEF IInv, Places, InFlightFound, ctxVars, threadVars
  <2>2. UNCHANGED <<submitQueue, pending, phase, running, finished, canceled>>
    BY <1>1 DEF callVars, ctxVars, threadVars
  <2> QED
    BY <1>1, <1>2, <2>1, <2>2, EventsKeepPlaces
<1> QED
  BY <1>1, <1>3, <1>4, <1>5, <1>6 DEF IInv

\* The dead connection is closed and no entry of requestConnections leads to it.
LEMMA ConnectionLostKeeps == ASSUME IInv, onConnectionLost PROVE IInv'
<1>0. PICK c \in Conns : c = rx.conn
  BY EventFacts DEF onConnectionLost
<1> DEFINE k == [conns[c] EXCEPT !.connected = FALSE]
<1>1. /\ rx.pc = "events" /\ rx.done = {} /\ rx.dead /\ rx' = Idle /\ Becomes(c, k)
      /\ rc' = [q \in Requests |-> IF rc[q] = c THEN NoConn ELSE rc[q]]
      /\ UNCHANGED <<callVars, ctxVars, canceled, submitQueue, tasks, pending, connecting,
                     threadVars>>
      /\ UNCHANGED <<phase, running, finished>>
  BY <1>0 DEF onConnectionLost, OnReactor, callVars, ctxVars, threadVars
<1>2. /\ rx' \in RxType /\ rx'.pc = "idle" /\ rx'.local = <<>> /\ rx'.conn = NoConn
      /\ rx'.to = NoConn /\ rx'.done = {} /\ ~rx'.dead
  BY <1>1, IdleRx
<1>3. /\ k \in ConnType /\ k.at = conns[c].at /\ k.healthy = conns[c].healthy
      /\ k.ctxs = conns[c].ctxs /\ k.streams = conns[c].streams
  BY <1>0, Typed DEF IInv, ConnType
<1>4. /\ NoConn \notin Conns /\ Pooled(c) /\ ~conns[c].healthy
      /\ conns[c].ctxs = {}
  BY <1>0, <1>1, EventFacts DEF IInv, Pool, ConnsShape
<1> HIDE DEF k
<1>5. /\ conns' \in [Conns -> ConnType] /\ conns'[c] = k
      /\ \A d \in Conns : d # c => conns'[d] = conns[d]
  BY <1>1, <1>3, BecomesEffect DEF IInv
<1>6. /\ rc' \in [Requests -> Conns \cup {NoConn}]
      /\ \A q \in Requests : rc'[q] # NoConn => rc'[q] = rc[q] /\ rc[q] # c
      /\ \A q \in Requests : rc[q] # c => rc'[q] = rc[q]
  BY <1>1, Typed DEF IInv
<1>7. TypeOK'
  BY <1>1, <1>2, <1>5, <1>6 DEF IInv, TypeOK, callVars, ctxVars, threadVars
<1>8. Callbacks'
  <2>1. closer \in {"fail contexts", "return", "closed"} => \A r \in Range(submitQueue') : phase[r] = "queued"
    BY <1>1 DEF IInv, Callbacks, CloseOrder
  <2> QED
    BY <1>1, <1>2, <2>1, QuietKeepsCallbacks DEF IInv, ctxVars, callVars, threadVars, NothingCompleted
<1>9. Posted'
  BY <1>1, <1>3, <1>5, SamePosted DEF IInv, callVars, InSubmit
<1>10. Pool'
  <2>1. RxShape'
    BY <1>2, <1>4 DEF RxShape
  <2>2. ConnsShape'
    BY <1>3, <1>4, <1>5 DEF IInv, Pool, ConnsShape, Pooled
  <2>3. ASSUME NEW q \in Requests, rc'[q] # NoConn
        PROVE  Pooled(rc[q]) /\ conns[rc[q]].connected /\ rc[q] \in Conns
    BY <1>0, <1>6, <2>3, Typed DEF IInv, Pool, PointersValid
  <2>4. PointersValid'
    BY <1>2, <1>5, <1>6, <2>3 DEF PointersValid, Pooled
  <2> QED
    BY <2>1, <2>2, <2>4 DEF Pool
<1>11. Places'
  <2>1. \A d \in Conns : conns'[d].ctxs = conns[d].ctxs
    BY <1>3, <1>5
  <2>2. InFlightFound'
    <3> SUFFICES ASSUME NEW d \in Conns, NEW r \in conns'[d].ctxs
                 PROVE  /\ rc'[r] = d /\ conns'[d].connected /\ r \in conns'[d].streams
                        /\ r \in finished => ~running
      BY <1>1 DEF InFlightFound
    <3>1. d # c /\ conns'[d] = conns[d] /\ r \in Requests
      BY <1>4, <1>5, <2>1, Typed DEF IInv
    <3>2. /\ rc[r] = d /\ conns[d].connected /\ r \in conns[d].streams
          /\ r \in finished => ~running
      BY <2>1 DEF IInv, Places, InFlightFound
    <3> QED
      BY <1>6, <3>1, <3>2
  <2> QED
    BY <1>1, <1>2, <2>1, <2>2, EventsKeepPlaces
<1> QED
  BY <1>7, <1>8, <1>9, <1>10, <1>11 DEF IInv

\* trySubmitPending moves on without touching a request: nothing to submit, or
\* the first waiting request is to be submitted.
LEMMA RefillMovesKeeps ==
    ASSUME IInv, rx.pc = "refill", NothingCompleted, OnReactor,
           UNCHANGED <<pending, connecting, rc, conns>>,
           \/ rx' = [rx EXCEPT !.pc = "events", !.to = NoConn]
           \/ /\ rx' = [rx EXCEPT !.pc = "refillSubmit"]
              /\ pending[rx.ep] # <<>> /\ Head(pending[rx.ep]) \notin canceled
    PROVE  IInv'
<1>1. /\ UNCHANGED <<callVars, ctxVars, canceled, submitQueue, tasks, threadVars>>
      /\ UNCHANGED <<phase, running, finished>>
  BY DEF OnReactor, NothingCompleted, ctxVars, callVars, threadVars
<1>2. /\ rx \in RxType /\ rx.local = <<>> /\ rx.conn \in Conns /\ Pooled(rx.conn)
      /\ rx.to \in Conns /\ Pooled(rx.to) /\ conns[rx.to].connected /\ conns[rx.to].healthy
      /\ rx.dead => ~conns[rx.conn].healthy
      /\ rx.ep \in Endpoints /\ NoConn \notin Conns
  BY EventFacts
<1>3. /\ rx' \in RxType /\ rx'.local = <<>> /\ rx'.conn = rx.conn /\ rx'.ep = rx.ep
      /\ rx'.done = rx.done /\ rx'.dead = rx.dead
      /\ \/ rx'.pc = "events" /\ rx'.to = NoConn
         \/ /\ rx'.pc = "refillSubmit" /\ rx'.to = rx.to
            /\ pending[rx.ep] # <<>> /\ Head(pending[rx.ep]) \notin canceled
  BY <1>2 DEF RxType
<1>4. TypeOK'
  BY <1>1, <1>3 DEF IInv, TypeOK, callVars, ctxVars, threadVars
<1>5. Callbacks'
  <2>1. closer \in {"fail contexts", "return", "closed"} => \A r \in Range(submitQueue') : phase[r] = "queued"
    BY <1>1 DEF IInv, Callbacks, CloseOrder
  <2> QED
    BY <1>1, <1>3, <2>1, QuietKeepsCallbacks DEF IInv, callVars, threadVars
<1>6. Posted'
  BY <1>1, SamePosted DEF IInv, callVars, InSubmit
<1>7. Pool'
  <2>1. RxShape'
    BY <1>2, <1>3 DEF RxShape
  <2>2. ConnsShape'
    BY DEF IInv, Pool, ConnsShape
  <2>3. PointersValid'
    BY <1>2, <1>3 DEF PointersValid, Pooled, IInv, Pool
  <2> QED
    BY <2>1, <2>2, <2>3 DEF Pool
<1>8. Places'
  <2>1. InFlightFound'
    BY <1>1 DEF IInv, Places, InFlightFound
  <2>2. ASSUME rx'.pc = "refillSubmit", running
        PROVE  Head(pending[rx'.ep]) \notin finished
    <3>1. Head(pending[rx.ep]) \in Range(pending[rx.ep]) /\ Head(pending[rx.ep]) \in Requests
          /\ Head(pending[rx.ep]) \notin canceled
      BY <1>2, <1>3, <2>2, Typed, RangeTyped DEF IInv
    <3>2. EndpointOf[Head(pending[rx.ep])] = rx.ep
      BY <1>2, <3>1 DEF IInv, Places, QueuesDistinct
    <3>3. InPending(Head(pending[rx.ep]))
      BY <3>1, <3>2 DEF InPending
    <3> QED
      BY <1>3, <2>2, <3>1, <3>3 DEF IInv, Places, FinishedCanceled
  <2> QED
    BY <1>1, <1>3, <2>1, <2>2, EventsKeepPlaces
<1> QED
  BY <1>4, <1>5, <1>6, <1>7, <1>8 DEF IInv

\* The first of the requests that wait, and those behind it
LEMMA FirstWaiting ==
    ASSUME IInv, NEW e \in Endpoints, pending[e] # <<>>
    PROVE  /\ Head(pending[e]) \in Requests /\ EndpointOf[Head(pending[e])] = e
           /\ InPending(Head(pending[e])) /\ phase[Head(pending[e])] \notin {"new", "created"}
           /\ ~InSubmit(Head(pending[e])) /\ ~InLocal(Head(pending[e]))
           /\ ~InCtxs(Head(pending[e])) /\ ~InDone(Head(pending[e]))
<1>1. pending[e] \in Seq(Requests)
  BY Typed DEF IInv
<1>2. Head(pending[e]) \in Range(pending[e]) /\ Head(pending[e]) \in Requests
  BY <1>1, RangeTyped
<1>3. EndpointOf[Head(pending[e])] = e
  BY <1>2 DEF IInv, Places, QueuesDistinct
<1>4. InPending(Head(pending[e]))
  BY <1>2, <1>3 DEF InPending
<1> QED
  BY <1>2, <1>3, <1>4 DEF IInv, Places, OnePlace

LEMMA FirstTaken ==
    ASSUME IInv, NEW e \in Endpoints, pending[e] # <<>>, NEW h \in Requests, h = Head(pending[e]),
           pending' = [pending EXCEPT ![e] = Tail(pending[e])]
    PROVE  /\ pending' \in [Endpoints -> Seq(Requests)]
           /\ \A f \in Endpoints : /\ NoDuplicates(pending'[f])
                                   /\ Range(pending'[f]) = Range(pending[f]) \ {h}
<1>1. pending[e] \in Seq(Requests) /\ NoDuplicates(pending[e]) /\ QueuesDistinct
      /\ pending \in [Endpoints -> Seq(Requests)]
  BY Typed DEF IInv, TypeOK, Places, QueuesDistinct
<1>2. /\ Tail(pending[e]) \in Seq(Requests)
      /\ Range(Tail(pending[e])) = Range(pending[e]) \ {h} /\ NoDuplicates(Tail(pending[e]))
  BY <1>1, Popped
<1>3. /\ pending' \in [Endpoints -> Seq(Requests)] /\ pending'[e] = Tail(pending[e])
      /\ \A f \in Endpoints : f # e => pending'[f] = pending[f]
  BY <1>1, <1>2
<1>4. EndpointOf[h] = e
  BY FirstWaiting
<1>5. \A f \in Endpoints : f # e => h \notin Range(pending[f]) /\ NoDuplicates(pending[f])
  BY <1>1, <1>4 DEF QueuesDistinct
<1>6. ASSUME NEW f \in Endpoints
      PROVE  NoDuplicates(pending'[f]) /\ Range(pending'[f]) = Range(pending[f]) \ {h}
  <2>1. CASE f = e
    BY <1>2, <1>3, <2>1
  <2>2. CASE f # e
    BY <1>3, <1>5, <2>2
  <2> QED
    BY <2>1, <2>2
<1> QED
  BY <1>3, <1>6

LEMMA TrySubmitPendingKeeps == ASSUME IInv, trySubmitPending PROVE IInv'
<1> DEFINE e == rx.ep
<1>0. /\ rx.pc = "refill" /\ OnReactor /\ UNCHANGED <<connecting, rc, conns>>
  BY DEF trySubmitPending
<1>1. \/ /\ NothingCompleted /\ UNCHANGED pending
         /\ \/ rx' = [rx EXCEPT !.pc = "events", !.to = NoConn]
            \/ /\ rx' = [rx EXCEPT !.pc = "refillSubmit"]
               /\ pending[rx.ep] # <<>> /\ Head(pending[rx.ep]) \notin canceled
      \/ /\ pending[e] # <<>> /\ completeRequest({Head(pending[e])})
         /\ pending' = [pending EXCEPT ![e] = Tail(pending[e])] /\ UNCHANGED rx
  BY DEF trySubmitPending
<1>2. CASE /\ NothingCompleted /\ UNCHANGED pending
           /\ \/ rx' = [rx EXCEPT !.pc = "events", !.to = NoConn]
              \/ /\ rx' = [rx EXCEPT !.pc = "refillSubmit"]
                 /\ pending[rx.ep] # <<>> /\ Head(pending[rx.ep]) \notin canceled
  BY <1>0, <1>2, RefillMovesKeeps
<1>3. CASE /\ pending[e] # <<>> /\ completeRequest({Head(pending[e])})
           /\ pending' = [pending EXCEPT ![e] = Tail(pending[e])] /\ UNCHANGED rx
  <2>1. e \in Endpoints
    BY <1>0, EventFacts
  <2>2. PICK h \in Requests : h = Head(pending[e])
    BY <1>3, <2>1, FirstWaiting
  <2>3. /\ InPending(h) /\ phase[h] \notin {"new", "created"}
        /\ pending' \in [Endpoints -> Seq(Requests)]
        /\ \A f \in Endpoints : /\ NoDuplicates(pending'[f])
                                /\ Range(pending'[f]) = Range(pending[f]) \ {h}
    BY <1>3, <2>1, <2>2, FirstWaiting, FirstTaken
  <2>4. /\ UNCHANGED <<callVars, canceled, submitQueue, tasks, threadVars>>
        /\ UNCHANGED <<phase, running, rx, rc, conns>> /\ completeRequest({h})
    BY <1>0, <1>3, <2>2 DEF OnReactor, callVars, threadVars
  <2>5. {h} \in SUBSET Requests /\ \A q \in {h} : InPending(q) /\ phase[q] # "new"
    BY <2>3
  <2>6. /\ Callbacks' /\ finished' = finished \cup {h} /\ finished' \subseteq Requests
        /\ contexts' \subseteq Requests /\ timers' \subseteq Requests
        /\ callbacks' \in [Requests -> [queued : Nat, ran : Nat]]
        /\ completing' \in [Requests -> {"no", "send", "cancel", "close"}]
    BY <1>0, <2>4, <2>5, ReactorKeepsCallbacks DEF threadVars
  <2>7. TypeOK'
    BY <1>0, <2>3, <2>4, <2>6 DEF IInv, TypeOK, callVars, threadVars
  <2>8. Posted'
    BY <2>4, SamePosted DEF IInv, callVars, InSubmit
  <2>9. Pool'
    BY <1>0, <2>4, QuietKeepsPool DEF IInv
  <2>10. Places'
    BY <1>0, <2>3, <2>4, <2>5, <2>6, LeavingPendingKeepsPlaces DEF IInv
  <2> QED
    BY <2>6, <2>7, <2>8, <2>9, <2>10 DEF IInv
<1> QED
  BY <1>1, <1>2, <1>3

LEMMA SubmitPendingKeeps == ASSUME IInv, submitPending PROVE IInv'
<1>0. /\ rx.pc = "refillSubmit" /\ OnReactor /\ UNCHANGED connecting
      /\ submitOnReactor(Head(pending[rx.ep]), rx.to)
      /\ pending' = [pending EXCEPT ![rx.ep] = Tail(pending[rx.ep])]
      /\ rx' = [rx EXCEPT !.pc = "refill"]
  BY DEF submitPending
<1>1. UNCHANGED <<callVars, canceled, submitQueue, tasks, threadVars, phase, running>>
  BY <1>0 DEF OnReactor, callVars, threadVars
<1>2. /\ rx \in RxType /\ rx.local = <<>> /\ rx.conn \in Conns /\ Pooled(rx.conn)
      /\ rx.to \in Conns /\ Pooled(rx.to) /\ conns[rx.to].connected /\ conns[rx.to].healthy
      /\ rx.dead => ~conns[rx.conn].healthy
      /\ \A r \in Requests : ~InLocal(r)
      /\ rx.ep \in Endpoints /\ NoConn \notin Conns /\ pending[rx.ep] # <<>>
  BY <1>0, EventFacts DEF IInv, Pool, RxShape
<1>3. /\ rx' \in RxType /\ rx'.pc = "refill" /\ rx'.local = <<>> /\ rx'.conn = rx.conn
      /\ rx'.to = rx.to /\ rx'.done = rx.done /\ rx'.dead = rx.dead
  BY <1>0, <1>2 DEF RxType
<1>h. PICK h \in Requests : h = Head(pending[rx.ep])
  BY <1>0, <1>2, FirstWaiting
<1>c. PICK c \in Conns : c = rx.to
  BY <1>2
<1>e. PICK e \in Endpoints : e = rx.ep
  BY <1>2
<1>4. /\ InPending(h) /\ phase[h] \notin {"new", "created"}
      /\ ~InSubmit(h) /\ ~InLocal(h) /\ ~InCtxs(h) /\ ~InDone(h)
      /\ pending' \in [Endpoints -> Seq(Requests)]
      /\ \A f \in Endpoints : /\ NoDuplicates(pending'[f])
                              /\ Range(pending'[f]) = Range(pending[f]) \ {h}
  BY <1>0, <1>2, <1>e, <1>h, FirstWaiting, FirstTaken
<1>5. /\ submitOnReactor(h, c) /\ Pooled(c) /\ conns[c].connected /\ conns[c].healthy
      /\ running => h \notin finished
  BY <1>0, <1>2, <1>h, <1>c DEF IInv, Places, FinishedCanceled
<1>6. /\ conns' \in [Conns -> ConnType] /\ SameConns /\ ConnsShape'
      /\ rc' \in [Requests -> Conns \cup {NoConn}] /\ rc'[h] = c
      /\ \A r \in Requests : r # h => rc'[r] = rc[r]
      /\ \A r \in Requests : r # h => (InCtxs(r)' <=> InCtxs(r))
      /\ InFlightFound' /\ Submitted(h)
  BY <1>1, <1>4, <1>5, SubmitEffect
<1>7. PICK S \in {{}, {h}} : completeRequest(S)
  BY <1>6 DEF Submitted
<1>8. S \in SUBSET Requests /\ \A q \in S : phase[q] # "new"
  BY <1>4
<1>9. /\ Callbacks' /\ finished' \subseteq Requests
      /\ contexts' \subseteq Requests /\ timers' \subseteq Requests
      /\ callbacks' \in [Requests -> [queued : Nat, ran : Nat]]
      /\ completing' \in [Requests -> {"no", "send", "cancel", "close"}]
  BY <1>0, <1>1, <1>3, <1>7, <1>8, ReactorKeepsCallbacks DEF threadVars
<1>10. TypeOK'
  BY <1>0, <1>1, <1>3, <1>4, <1>6, <1>9 DEF IInv, TypeOK, callVars, threadVars
<1>11. Posted'
  BY <1>1, <1>6, SamePosted DEF IInv, callVars, InSubmit, SameConns
<1>12. Pool'
  <2>1. RxShape'
    BY <1>2, <1>3, <1>6 DEF RxShape, SameConns
  <2>2. ASSUME NEW q \in Requests, rc'[q] # NoConn
        PROVE  /\ rc'[q] \in Conns /\ Pooled(rc'[q])
               /\ ~conns[rc'[q]].connected => rx.conn = rc'[q] /\ rx.dead
    <3>1. CASE q = h
      BY <1>5, <1>6, <3>1
    <3>2. CASE q # h
      BY <1>6, <2>2, <3>2, Typed DEF IInv, Pool, PointersValid
    <3> QED
      BY <3>1, <3>2
  <2>3. PointersValid'
    BY <1>2, <1>3, <1>6, <2>2 DEF PointersValid, Pooled, SameConns
  <2> QED
    BY <1>6, <2>1, <2>3 DEF Pool
<1>13. Places'
  <2>p. \A r \in Requests : /\ InSubmit(r)' <=> InSubmit(r)
                            /\ ~InLocal(r) /\ ~InLocal(r)'
                            /\ InPending(r)' <=> InPending(r) /\ r # h
                            /\ r # h => (InCtxs(r)' <=> InCtxs(r))
                            /\ InDone(r)' <=> InDone(r)
    BY <1>1, <1>2, <1>3, <1>4, <1>6, Typed, Empty
       DEF IInv, InSubmit, InLocal, InPending, InDone
  <2>1. QueuesDistinct'
    BY <1>1, <1>3, <1>4, Empty DEF IInv, Places, QueuesDistinct
  <2>2. OnePlace'
    BY <1>1, <1>4, <2>p DEF IInv, Places, OnePlace
  <2>3. finished' \subseteq finished \cup {h} /\ finished \subseteq finished'
        /\ (Invalid = {} => h \in finished' \/ InCtxs(h)')
    BY <1>6 DEF Submitted
  <2>4. FinishedCanceled'
    <3>1. finished \subseteq Requests
      BY DEF IInv, TypeOK
    <3> SUFFICES ASSUME running, NEW q \in finished',
                        InSubmit(q)' \/ InLocal(q)' \/ InPending(q)' \/ phase[q] = "created"
                 PROVE  q \in canceled
      BY <1>1, <1>3 DEF FinishedCanceled
    <3> QED
      BY <1>4, <2>3, <2>p, <3>1 DEF IInv, Places, FinishedCanceled
  <2>5. Somewhere'
    BY <1>1, <2>3, <2>p DEF IInv, Places, Somewhere
  <2> QED
    BY <1>6, <2>1, <2>2, <2>4, <2>5 DEF Places
<1> QED
  BY <1>9, <1>10, <1>11, <1>12, <1>13 DEF IInv
-----------------------------------------------------------------------------
(***************************************************************************)
(* cancel() on the user's thread, the reactor having been stopped          *)
(***************************************************************************)
\* What it leaves of the session that has the request
LEMMA TakenFromSession ==
    ASSUME IInv, NEW q \in Requests,
           conns' = IF InFlight(q) THEN [conns EXCEPT ![rc[q]] = DropStream(conns[rc[q]], q)]
                    ELSE conns,
           rc' = IF InFlight(q) THEN [rc EXCEPT ![q] = NoConn] ELSE rc
    PROVE  /\ conns' \in [Conns -> ConnType] /\ SameConns
           /\ \A d \in Conns : /\ conns'[d].ctxs = conns[d].ctxs \ {q}
                               /\ conns'[d].streams \subseteq conns[d].streams
                               /\ conns[d].streams \subseteq conns'[d].streams \cup {q}
           /\ rc' \in [Requests -> Conns \cup {NoConn}]
           /\ \A r \in Requests : rc'[r] = rc[r] \/ (r = q /\ rc'[r] = NoConn)
<1>1. conns \in [Conns -> ConnType] /\ rc \in [Requests -> Conns \cup {NoConn}]
  BY DEF IInv, TypeOK
<1>2. \A d \in Conns : q \in conns[d].ctxs => rc[q] = d /\ conns[d].connected /\ d # NoConn
  BY Typed DEF IInv, Places, InFlightFound
<1>3. CASE ~InFlight(q)
  <2>1. conns' = conns /\ rc' = rc
    BY <1>3
  <2>2. \A d \in Conns : q \notin conns[d].ctxs
    BY <1>2, <1>3 DEF InFlight
  <2> QED
    BY <1>1, <2>1, <2>2 DEF SameConns
<1>4. CASE InFlight(q)
  <2>1. PICK c \in Conns : c = rc[q]
    BY <1>4, Typed DEF IInv, InFlight
  <2> DEFINE k == DropStream(conns[c], q)
  <2>2. conns' = [conns EXCEPT ![c] = k] /\ rc' = [rc EXCEPT ![q] = NoConn]
    BY <1>4, <2>1
  <2>3. /\ k \in ConnType /\ k.at = conns[c].at /\ k.ep = conns[c].ep
        /\ k.connected = conns[c].connected /\ k.healthy = conns[c].healthy
        /\ k.ctxs = conns[c].ctxs \ {q} /\ k.streams = conns[c].streams \ {q}
    BY <1>1, StreamDropped
  <2> HIDE DEF k
  <2>4. /\ conns' \in [Conns -> ConnType] /\ conns'[c] = k
        /\ \A d \in Conns : d # c => conns'[d] = conns[d]
    BY <1>1, <2>2, <2>3
  <2>5. \A d \in Conns : d # c => q \notin conns[d].ctxs
    BY <1>2, <2>1
  <2>6. /\ rc' \in [Requests -> Conns \cup {NoConn}] /\ rc'[q] = NoConn
        /\ \A r \in Requests : r # q => rc'[r] = rc[r]
    BY <1>1, <2>2
  <2>7. SameConns
    BY <2>3, <2>4 DEF SameConns
  <2>8. \A d \in Conns : /\ conns'[d].ctxs = conns[d].ctxs \ {q}
                         /\ conns'[d].streams \subseteq conns[d].streams
                         /\ conns[d].streams \subseteq conns'[d].streams \cup {q}
    BY <2>3, <2>4, <2>5
  <2> QED
    BY <2>4, <2>6, <2>7, <2>8
<1> QED
  BY <1>3, <1>4

LEMMA CancelOffReactorKeeps == ASSUME IInv, NEW q \in Requests, cancelOffReactor(q) PROVE IInv'
<1> DEFINE w == Without(pending[EndpointOf[q]], q)
<1>1. /\ cancelling[q] = "marked" /\ ~running /\ q \in contexts
      /\ cancelling' = [cancelling EXCEPT ![q] = "done"]
      /\ submitQueue' = Without(submitQueue, q)
      /\ pending' = [pending EXCEPT ![EndpointOf[q]] = w]
      /\ conns' = IF InFlight(q) THEN [conns EXCEPT ![rc[q]] = DropStream(conns[rc[q]], q)]
                  ELSE conns
      /\ rc' = IF InFlight(q) THEN [rc EXCEPT ![q] = NoConn] ELSE rc
      /\ tryFinish({q}, "cancel")
      /\ UNCHANGED <<started, phase, canceled, tasks, connecting, threadVars>>
  BY DEF cancelOffReactor
<1>x. \/ rx.pc \in {"idle", "exited"} /\ rx' = rx
      \/ rx.pc # "exited" /\ rx' = [rx EXCEPT !.pc = "crashed"]
  BY DEF cancelOffReactor
<1>u. UNCHANGED <<running, connectTasks, connector, dispatcher, closer>>
  BY <1>1 DEF threadVars
<1>2. /\ phase[q] # "new" /\ started # "no" /\ q \in canceled
      /\ phase \in [Requests -> {"new", "created", "queued", "sent"}]
  BY <1>1 DEF IInv, Callbacks, ContextsOpen, CloseOrder, Posted, CancelsMarked, TypeOK
<1>3. /\ submitQueue' \in Seq(Requests) /\ NoDuplicates(submitQueue')
      /\ Range(submitQueue') = Range(submitQueue) \ {q}
  <2>1. submitQueue \in Seq(Requests) /\ NoDuplicates(submitQueue)
    BY DEF IInv, TypeOK, Places, QueuesDistinct
  <2> QED
    BY <1>1, <2>1, Erased
<1>4. /\ pending' \in [Endpoints -> Seq(Requests)]
      /\ \A f \in Endpoints : NoDuplicates(pending'[f]) /\ Range(pending'[f]) = Range(pending[f]) \ {q}
  <2>1. /\ EndpointOf[q] \in Endpoints /\ pending \in [Endpoints -> Seq(Requests)]
        /\ \A f \in Endpoints : /\ NoDuplicates(pending[f]) /\ pending[f] \in Seq(Requests)
                                /\ \A r \in Range(pending[f]) : EndpointOf[r] = f
    BY Typed DEF IInv, TypeOK, Places, QueuesDistinct
  <2>2. w \in Seq(Requests) /\ NoDuplicates(w) /\ Range(w) = Range(pending[EndpointOf[q]]) \ {q}
    BY <2>1, Erased
  <2> HIDE DEF w
  <2>3. /\ pending' \in [Endpoints -> Seq(Requests)] /\ pending'[EndpointOf[q]] = w
        /\ \A f \in Endpoints : f # EndpointOf[q] => pending'[f] = pending[f]
    BY <1>1, <2>1, <2>2
  <2> QED
    BY <2>1, <2>2, <2>3
<1>5. /\ conns' \in [Conns -> ConnType] /\ SameConns
      /\ \A d \in Conns : /\ conns'[d].ctxs = conns[d].ctxs \ {q}
                          /\ conns'[d].streams \subseteq conns[d].streams
                          /\ conns[d].streams \subseteq conns'[d].streams \cup {q}
      /\ rc' \in [Requests -> Conns \cup {NoConn}]
      /\ \A r \in Requests : rc'[r] = rc[r] \/ (r = q /\ rc'[r] = NoConn)
  BY <1>1, TakenFromSession
<1>6. /\ rx' \in RxType /\ rx'.local = rx.local /\ rx'.conn = rx.conn /\ rx'.to = rx.to
      /\ rx'.done = rx.done /\ rx'.dead = rx.dead
      /\ \/ rx'.pc = rx.pc /\ rx.pc \in {"idle", "exited"}
         \/ rx'.pc = "crashed" /\ rx.pc # "exited"
  <2>1. rx \in RxType
    BY Typed DEF IInv
  <2> QED
    BY <1>x, <2>1 DEF RxType
<1>c. Completes({q})
  BY <1>1 DEF Completes
<1>7. /\ finished' = finished \cup {q} /\ finished' \subseteq Requests
      /\ contexts' \subseteq Requests /\ timers' \subseteq Requests
      /\ callbacks' \in [Requests -> [queued : Nat, ran : Nat]]
      /\ completing' \in [Requests -> {"no", "send", "cancel", "close"}]
  BY <1>c, CompleteEffect DEF IInv, Callbacks
<1>8. TypeOK'
  <2>1. cancelling' \in [Requests -> {"no", "marked", "done"}]
    BY <1>1 DEF IInv, TypeOK
  <2> QED
    BY <1>1, <1>3, <1>4, <1>5, <1>6, <1>7, <1>u, <2>1 DEF IInv, TypeOK
<1>9. Callbacks'
  <2>1. closer \in {"fail contexts", "return", "closed"} => \A r \in Range(submitQueue') : phase'[r] = "queued"
    BY <1>1, <1>3 DEF IInv, Callbacks, CloseOrder
  <2>2. {q} \in SUBSET Requests /\ \A r \in {q} : phase'[r] # "new"
    BY <1>1, <1>2
  <2> QED
    BY <1>1, <1>2, <1>6, <1>c, <1>u, <2>1, <2>2, CompletingKeepsCallbacks DEF IInv
<1>10. Posted'
  <2>0. tasks \in Seq(Tasks)
    BY DEF IInv, TypeOK
  <2>1. \A i \in DOMAIN tasks : tasks[i] \in Tasks
    BY <2>0
  <2>2. PostedOnce'
    BY <1>1, <1>5, <2>1, TasksTyped DEF IInv, Posted, PostedOnce, SameConns
  <2>3. CancelsMarked'
    <3>1. \A r \in Requests : r # q => cancelling'[r] = cancelling[r]
      BY <1>1 DEF IInv, TypeOK
    <3> QED
      BY <1>1, <1>2, <3>1 DEF IInv, Posted, CancelsMarked
  <2>4. DrainPosted'
    BY <1>1, <1>3 DEF IInv, Posted, DrainPosted, InSubmit
  <2> QED
    BY <2>2, <2>3, <2>4 DEF Posted
<1>11. Pool'
  <2>1. RxShape'
    BY <1>5, <1>6 DEF IInv, Pool, RxShape, SameConns
  <2>2. ConnsShape'
    BY <1>5 DEF IInv, Pool, ConnsShape, SameConns
  <2>3. PointersValid'
    <3>1. ASSUME NEW r \in Requests, rc'[r] # NoConn
          PROVE  /\ rc'[r] \in Conns /\ Pooled(rc'[r])
                 /\ ~conns[rc'[r]].connected => rx.conn = rc'[r] /\ rx.dead
      <4>1. rc'[r] = rc[r]
        BY <1>5, <3>1
      <4> QED
        BY <3>1, <4>1, Typed DEF IInv, Pool, PointersValid
    <3>2. /\ rx.conn # NoConn => rx.conn \in Conns /\ Pooled(rx.conn)
          /\ rx.to # NoConn =>
                rx.to \in Conns /\ Pooled(rx.to) /\ conns[rx.to].connected /\ conns[rx.to].healthy
      BY Typed DEF IInv, Pool, PointersValid
    <3> QED
      BY <1>5, <1>6, <3>1, <3>2 DEF PointersValid, Pooled, SameConns
  <2> QED
    BY <2>1, <2>2, <2>3 DEF Pool
<1>12. Places'
  <2>p. \A r \in Requests : /\ InSubmit(r)' <=> InSubmit(r) /\ r # q
                            /\ InLocal(r)' <=> InLocal(r)
                            /\ InPending(r)' <=> InPending(r) /\ r # q
                            /\ InCtxs(r)' <=> InCtxs(r) /\ r # q
                            /\ InDone(r)' <=> InDone(r)
    BY <1>3, <1>4, <1>5, <1>6, Typed DEF IInv, InSubmit, InLocal, InPending, InCtxs, InDone
  <2>1. QueuesDistinct'
    BY <1>3, <1>4, <1>6 DEF IInv, Places, QueuesDistinct
  <2>2. OnePlace'
    BY <1>1, <2>p DEF IInv, Places, OnePlace
  <2>3. InFlightFound'
    <3> SUFFICES ASSUME NEW d \in Conns, NEW r \in conns'[d].ctxs
                 PROVE  rc'[r] = d /\ conns'[d].connected /\ r \in conns'[d].streams
      BY <1>1, <1>u DEF InFlightFound
    <3>1. r \in conns[d].ctxs /\ r # q /\ r \in Requests
      BY <1>5, Typed DEF IInv
    <3>2. rc[r] = d /\ conns[d].connected /\ r \in conns[d].streams
      BY <3>1 DEF IInv, Places, InFlightFound
    <3> QED
      BY <1>5, <3>1, <3>2 DEF SameConns
  <2>4. FinishedCanceled'
    BY <1>1, <1>u DEF FinishedCanceled
  <2>5. Somewhere'
    BY <1>1, <1>7, <2>p DEF IInv, Places, Somewhere
  <2> QED
    BY <2>1, <2>2, <2>3, <2>4, <2>5 DEF Places
<1> QED
  BY <1>8, <1>9, <1>10, <1>11, <1>12 DEF IInv
-----------------------------------------------------------------------------
(***************************************************************************)
(* The invariant                                                           *)
(***************************************************************************)
LEMMA InitEstablishes == ASSUME Init PROVE IInv
<1>1. /\ started = "no" /\ phase = [q \in Requests |-> "new"]
      /\ cancelling = [q \in Requests |-> "no"]
      /\ contexts = {} /\ finished = {} /\ canceled = {} /\ timers = {}
      /\ submitQueue = <<>> /\ tasks = <<>> /\ running = FALSE /\ rx = Idle
      /\ pending = [e \in Endpoints |-> <<>>] /\ connecting = {}
      /\ rc = [q \in Requests |-> NoConn] /\ conns = [c \in Conns |-> NewConn]
      /\ connectTasks = <<>> /\ dispatcher = "off"
      /\ connector = [pc |-> "off", ep |-> CHOOSE e \in Endpoints : TRUE, stop |-> FALSE]
      /\ callbacks = [q \in Requests |-> [queued |-> 0, ran |-> 0]]
      /\ completing = [q \in Requests |-> "no"] /\ closer = "no"
  BY DEF Init
<1>2. (CHOOSE e \in Endpoints : TRUE) \in Endpoints
  BY ManagerAssumption
<1>3. /\ NewConn \in ConnType /\ NewConn.at = "unused" /\ ~NewConn.healthy
      /\ NewConn.ctxs = {} /\ NewConn.streams = {}
  BY <1>2, ManagerAssumption DEF NewConn, ConnType
<1>4. \A c \in Conns : conns[c] = NewConn
  BY <1>1
<1>5. /\ rx \in RxType /\ rx.pc = "idle" /\ rx.local = <<>> /\ rx.conn = NoConn
      /\ rx.to = NoConn /\ rx.done = {} /\ ~rx.dead
  BY <1>1, IdleRx
<1>6. TypeOK
  <2>1. <<>> \in Seq(Requests) /\ <<>> \in Seq(Tasks) /\ <<>> \in Seq(Endpoints)
    OBVIOUS
  <2>2. /\ pending \in [Endpoints -> Seq(Requests)]
        /\ conns \in [Conns -> ConnType] /\ rc \in [Requests -> Conns \cup {NoConn}]
    BY <1>1, <1>3, <2>1
  <2>3. callbacks \in [Requests -> [queued : Nat, ran : Nat]]
    BY <1>1
  <2>4. connector \in [pc : {"off", "wait", "connecting", "exited"}, ep : Endpoints, stop : BOOLEAN]
    BY <1>1, <1>2
  <2>5. /\ phase \in [Requests -> {"new", "created", "queued", "sent"}]
        /\ cancelling \in [Requests -> {"no", "marked", "done"}]
    BY <1>1
  <2>6. submitQueue \in Seq(Requests) /\ tasks \in Seq(Tasks) /\ connectTasks \in Seq(Endpoints)
    BY <1>1, <2>1
  <2> QED
    BY <1>1, <1>5, <2>2, <2>3, <2>4, <2>5, <2>6 DEF TypeOK
<1>7. Callbacks
  <2>1. OneCallback
    BY <1>1 DEF OneCallback
  <2>2. ContextsOpen
    BY <1>1 DEF ContextsOpen
  <2>3. CloseOrder
    BY <1>1, <1>5 DEF CloseOrder
  <2> QED
    BY <2>1, <2>2, <2>3 DEF Callbacks
<1>8. Posted
  <2>1. DOMAIN tasks = {} /\ Range(submitQueue) = {}
    BY <1>1, Empty
  <2> QED
    BY <1>1, <2>1 DEF Posted, PostedOnce, CancelsMarked, DrainPosted, InSubmit
<1>9. Pool
  <2>1. RxShape
    BY <1>5 DEF RxShape
  <2>2. ConnsShape
    BY <1>3, <1>4 DEF ConnsShape
  <2>3. PointersValid
    BY <1>1, <1>5 DEF PointersValid
  <2> QED
    BY <2>1, <2>2, <2>3 DEF Pool
<1>10. Places
  <2>p. \A q \in Requests : ~InSubmit(q) /\ ~InLocal(q) /\ ~InPending(q) /\ ~InCtxs(q) /\ ~InDone(q)
    BY <1>1, <1>3, <1>4, <1>5, Empty, ManagerAssumption
       DEF InSubmit, InLocal, InPending, InCtxs, InDone
  <2>1. QueuesDistinct
    BY <1>1, <1>5, Empty DEF QueuesDistinct
  <2>2. OnePlace
    BY <2>p DEF OnePlace
  <2>3. InFlightFound
    BY <1>3, <1>4 DEF InFlightFound
  <2>4. FinishedCanceled
    BY <1>1 DEF FinishedCanceled
  <2>5. Somewhere
    BY <1>1 DEF Somewhere
  <2> QED
    BY <2>1, <2>2, <2>3, <2>4, <2>5 DEF Places
<1> QED
  BY <1>6, <1>7, <1>8, <1>9, <1>10 DEF IInv

LEMMA SubmissionKeeps == ASSUME IInv, Submission PROVE IInv'
<1>1. CASE drainSubmitQueue
  BY <1>1, DrainKeeps
<1>2. CASE dropCanceled
  BY <1>2, DropCanceledKeeps
<1>3. CASE park
  BY <1>3, ParkKeeps
<1>4. CASE submitLocal
  BY <1>4, SubmitLocalKeeps
<1>5. CASE settle
  BY <1>5, SettleKeeps
<1>6. ASSUME NEW c \in Conns, choose(c) PROVE IInv'
  BY <1>6, ChooseKeeps
<1>7. ASSUME NEW c \in Conns, onConnectionEstablished(c) PROVE IInv'
  BY <1>7, EstablishedKeeps
<1>8. ASSUME NEW e \in Endpoints, onConnectionFailed(e) PROVE IInv'
  BY <1>8, ConnectionFailedKeeps
<1> QED
  BY <1>1, <1>2, <1>3, <1>4, <1>5, <1>6, <1>7, <1>8 DEF Submission

LEMMA PollKeeps == ASSUME IInv, Poll PROVE IInv'
<1>1. PICK c \in Conns : onReadable(c) \/ Session(c) \/ writeFails(c) \/ onPingTimeout(c)
  BY DEF Poll
<1>2. CASE onReadable(c)
  BY <1>2, OnReadableKeeps
<1>3. CASE writeFails(c)
  BY <1>3, WriteFailsKeeps
<1>4. CASE onPingTimeout(c)
  BY <1>4, PingTimeoutKeeps
<1>5. CASE Session(c)
  <2>1. ASSUME NEW q \in Requests, responseCompleted(c, q) PROVE IInv'
    BY <2>1, ResponseCompletedKeeps
  <2>2. ASSUME NEW q \in Requests, uploadEnds(c, q) PROVE IInv'
    BY <2>2, UploadEndsKeeps
  <2>3. ASSUME NEW q \in Requests, responseFailed(c, q) PROVE IInv'
    BY <2>3, ResponseFailedKeeps
  <2>4. ASSUME NEW n \in Limits, peerSettings(c, n) PROVE IInv'
    BY <2>4, PeerSettingsKeeps
  <2>5. ASSUME NEW S \in SUBSET conns[c].streams, goawayReceived(c, S) PROVE IInv'
    BY <2>5, GoawayKeeps
  <2>6. CASE connectionError(c)
    BY <2>6, ConnectionErrorKeeps
  <2> QED
    BY <1>5, <2>1, <2>2, <2>3, <2>4, <2>5, <2>6 DEF Session
<1> QED
  BY <1>1, <1>2, <1>3, <1>4, <1>5

LEMMA EventsKeep == ASSUME IInv, Events PROVE IInv'
<1>1. CASE readWouldBlock
  BY <1>1, ReadWouldBlockKeeps
<1>2. CASE readClosed
  BY <1>2, ReadClosedKeeps
<1>3. CASE onConnectionLost
  BY <1>3, ConnectionLostKeeps
<1>4. CASE eventsDone
  BY <1>4, EventsDoneKeeps
<1>5. CASE trySubmitPending
  BY <1>5, TrySubmitPendingKeeps
<1>6. CASE submitPending
  BY <1>6, SubmitPendingKeeps
<1>7. ASSUME NEW q \in Requests, onRequestDone(q) PROVE IInv'
  BY <1>7, RequestDoneKeeps
<1> QED
  BY <1>1, <1>2, <1>3, <1>4, <1>5, <1>6, <1>7 DEF Events

LEMMA UserKeeps == ASSUME IInv, NEW q \in Requests, User(q) PROVE IInv'
BY SendFailsKeeps, SendAsyncKeeps, PushKeeps, PostDrainKeeps, CancelKeeps, PostCancelKeeps,
   CancelOffReactorKeeps, PassCallbackKeeps DEF User

\* Every step of every thread keeps the invariant.
LEMMA NextKeeps == ASSUME IInv, [Next]_vars PROVE IInv'
<1>1. CASE startThreadsIfNeeded
  BY <1>1, StartKeeps
<1>2. ASSUME NEW q \in Requests, User(q) PROVE IInv'
  BY <1>2, UserKeeps
<1>3. CASE Connector
  BY <1>3, ConnectorKeeps, ConnectSucceedsKeeps DEF Connector, AttemptEnds
<1>4. CASE Submission
  BY <1>4, SubmissionKeeps
<1>5. CASE Abort
  BY <1>5, HandleCancelKeeps, HandleTimeoutKeeps DEF Abort
<1>6. CASE Poll
  BY <1>6, PollKeeps
<1>7. CASE Events
  BY <1>7, EventsKeep
<1>8. CASE closeOnReactor \/ reactorExits
  BY <1>8, CloseOnReactorKeeps, ReactorExitsKeeps
<1>9. CASE Dispatch
  BY <1>9, RunCallbackKeeps DEF Dispatch
<1>10. CASE Close
  BY <1>10, StopKeeps, FailQueuedKeeps, FailContextsKeeps DEF Close
<1>11. CASE UNCHANGED vars
  <2> USE <1>11 DEF vars, callVars, ctxVars, poolVars, threadVars
  <2>1. TypeOK'
    BY DEF IInv, TypeOK
  <2>2. Callbacks'
    BY DEF IInv, Callbacks, OneCallback, ContextsOpen, CloseOrder
  <2>3. Posted'
    BY DEF IInv, Posted, PostedOnce, CancelsMarked, DrainPosted, InSubmit
  <2>4. Pool'
    BY DEF IInv, Pool, RxShape, ConnsShape, PointersValid, Pooled
  <2>5. Places'
    BY DEF IInv, Places, QueuesDistinct, OnePlace, InFlightFound, FinishedCanceled, Somewhere,
           InSubmit, InLocal, InPending, InCtxs, InDone
  <2> QED
    BY <2>1, <2>2, <2>3, <2>4, <2>5 DEF IInv
<1> QED
  BY <1>1, <1>2, <1>3, <1>4, <1>5, <1>6, <1>7, <1>8, <1>9, <1>10, <1>11 DEF Next

(***************************************************************************)
(* The invariant of the runtime: what the maps, the queues, the pool, the  *)
(* four kinds of threads and the progress of close() say of one another,   *)
(* for any number of requests, endpoints and connections and any of the    *)
(* faults.                                                                 *)
(***************************************************************************)
THEOREM ManagerInvariant == Spec => []IInv
BY InitEstablishes, NextKeeps, PTL DEF Spec

(***************************************************************************)
(* completeRequest hands the callback of a request over exactly once,      *)
(* however its response, its timeout, the user's cancel, the loss of its   *)
(* connection and close() race.                                            *)
(***************************************************************************)
THEOREM CalledBackOnce == Spec => []OneCallback
<1>1. IInv => OneCallback
  BY DEF IInv, Callbacks
<1> QED
  BY <1>1, ManagerInvariant, PTL

(***************************************************************************)
(* After close() every request whose sendAsync has returned was called     *)
(* back, or its callback is in the hands of a cancel() that has not        *)
(* returned: failQueuedRequests and failAllContexts find what the reactor  *)
(* and the connector left, also requests sent while close() was under way, *)
(* and pass over those that another thread is completing.                  *)
(***************************************************************************)
THEOREM CloseAnswersAll == Spec => []ClosedAnswersAll
<1>1. IInv => ClosedAnswersAll
  <2> SUFFICES ASSUME IInv, closer = "closed"
               PROVE  /\ \A q \in Requests : Returned(q) =>
                            callbacks[q].ran = 1 \/ completing[q] = "cancel"
                      /\ \A q \in Range(submitQueue) : phase[q] = "queued"
    BY DEF ClosedAnswersAll
  <2>1. /\ \A q \in Range(submitQueue) : phase[q] = "queued"
        /\ \A q \in contexts : phase[q] \in {"created", "queued"}
        /\ \A q \in Requests : callbacks[q].queued = 0
        /\ \A q \in Requests : completing[q] # "close"
    BY DEF IInv, Callbacks, CloseOrder
  <2>2. ASSUME NEW q \in Requests, Returned(q), completing[q] # "cancel"
        PROVE  callbacks[q].ran = 1
    <3>1. q \in finished
      BY <2>1, <2>2 DEF IInv, Callbacks, ContextsOpen, Returned
    <3>2. completing[q] = "no"
      BY <2>1, <2>2 DEF IInv, TypeOK, Returned
    <3>3. callbacks[q].queued + callbacks[q].ran + 0 = 1
      BY <3>1, <3>2 DEF IInv, Callbacks, OneCallback
    <3>4. callbacks[q].queued = 0 /\ callbacks[q].ran \in Nat
      BY <2>1 DEF IInv, TypeOK
    <3> QED
      BY <3>3, <3>4
  <2> QED
    BY <2>1, <2>2
<1> QED
  BY <1>1, ManagerInvariant, PTL

(***************************************************************************)
(* No Connection pointer outlives its object: what requestConnections and  *)
(* the loops of the reactor name is in the pool when drainSubmitQueue      *)
(* destroys the closed connections, and a request is only submitted to a   *)
(* session that is open and healthy.                                       *)
(***************************************************************************)
THEOREM NoDanglingConnection == Spec => []PointersValid
<1>1. IInv => PointersValid
  BY DEF IInv, Pool
<1> QED
  BY <1>1, ManagerInvariant, PTL

(***************************************************************************)
(* handleCancelOnReactor and handleTimeoutOnReactor find every request     *)
(* that has a stream, and no finished request keeps one.                   *)
(***************************************************************************)
THEOREM StreamsCanBeReset == Spec => []InFlightFound
<1>1. IInv => InFlightFound
  BY DEF IInv, Places
<1> QED
  BY <1>1, ManagerInvariant, PTL

(***************************************************************************)
(* As long as no read or write error drops the events of a session and the *)
(* protocol refuses no request, every request is in a queue, a session or  *)
(* an event until it is completed: the other error paths lose none.        *)
(***************************************************************************)
THEOREM NoRequestForgotten ==
    ASSUME Faults \cap {"late eof", "write"} = {}, Invalid = {}
    PROVE  Spec => []NotForgotten
<1>1. IInv => NotForgotten
  <2> SUFFICES ASSUME IInv, NEW q \in Requests, phase[q] = "sent", q \notin finished
               PROVE  \/ q \in Range(submitQueue) /\ [kind |-> "drain"] \in Range(tasks)
                      \/ q \in Range(rx.local)
                      \/ q \in Range(pending[EndpointOf[q]])
                      \/ \E c \in Conns : q \in conns[c].ctxs
                      \/ q \in rx.done
    BY DEF NotForgotten
  <2>1. InSubmit(q) \/ InLocal(q) \/ InPending(q) \/ InCtxs(q) \/ InDone(q)
    BY DEF IInv, Places, Somewhere
  <2>2. InSubmit(q) => [kind |-> "drain"] \in Range(tasks)
    BY DEF IInv, Posted, DrainPosted
  <2> QED
    BY <2>1, <2>2 DEF InSubmit, InLocal, InPending, InCtxs, InDone
<1> QED
  BY <1>1, ManagerInvariant, PTL
-----------------------------------------------------------------------------
(***************************************************************************)
(* Connection attempts                                                     *)
(***************************************************************************)
AtMostOne(S) == \A x, y \in S : x = y

\* Where the elements of S are in a queue
Positions(s, S) == {i \in DOMAIN s : s[i] \in S}

\* The results of an attempt to connect to e, as they are posted to the reactor
ResultsOf(e) ==
    {t \in Tasks : \/ t = [kind |-> "failed", ep |-> e]
                   \/ \E c \in Conns : /\ t = [kind |-> "established", conn |-> c]
                                       /\ conns[c].ep = e}

Waiting(e)  == Positions(connectTasks, {e})
Dialing(e)  == connector.pc = "connecting" /\ connector.ep = e
Reported(e) == Positions(tasks, ResultsOf(e))

\* Until the connector thread has ended, close() has not gone past it: the
\* reactor runs and has not been told to close.
ConnectorAlive ==
    /\ connector.pc # "off" => started = "yes"
    /\ connector.pc # "exited" =>
          /\ closer \in {"no", "join connector"}
          /\ \A i \in DOMAIN tasks : tasks[i].kind # "close"

\* An attempt is waiting for the connector, or under way, or reported, and
\* connectingEndpoints knows of it; then no connection accepts requests.
Lane(e) ==
    /\ AtMostOne(Waiting(e)) /\ AtMostOne(Reported(e)) /\ AtMostOne(Accepting(e))
    /\ Waiting(e) # {} => ~Dialing(e) /\ Reported(e) = {}
    /\ Dialing(e) => Reported(e) = {}
    /\ e \in connecting <=> Waiting(e) # {} \/ Dialing(e) \/ Reported(e) # {}
    /\ e \in connecting => Accepting(e) = {}

OneLane == connector.pc # "exited" => \A e \in Endpoints : Lane(e)

AInv == ConnectorAlive /\ OneLane


\* What push_back and pop_front do to the places of the elements of S
LEMMA PositionsPushed ==
    ASSUME NEW T, NEW s \in Seq(T), NEW x \in T, NEW S
    PROVE  /\ x \notin S => Positions(Append(s, x), S) = Positions(s, S)
           /\ x \in S => Positions(Append(s, x), S) # {}
           /\ x \in S /\ Positions(s, S) = {} => AtMostOne(Positions(Append(s, x), S))
<1> DEFINE p == Append(s, x)
<1>1. /\ Len(s) \in Nat /\ DOMAIN s = 1 .. Len(s) /\ DOMAIN p = 1 .. (Len(s) + 1)
      /\ \A i \in DOMAIN s : p[i] = s[i]
      /\ p[Len(s) + 1] = x
  OBVIOUS
<1> HIDE DEF p
<1>2. x \notin S => Positions(p, S) = Positions(s, S)
  BY <1>1 DEF Positions
<1>3. x \in S => Positions(p, S) # {}
  <2>1. Len(s) + 1 \in DOMAIN p
    BY <1>1
  <2> QED
    BY <1>1, <2>1 DEF Positions
<1>4. x \in S /\ Positions(s, S) = {} => AtMostOne(Positions(p, S))
  <2>1. ASSUME Positions(s, S) = {}, NEW i \in Positions(p, S) PROVE i = Len(s) + 1
    BY <1>1, <2>1 DEF Positions
  <2> QED
    BY <2>1 DEF AtMostOne
<1> QED
  BY <1>2, <1>3, <1>4 DEF p

LEMMA PositionsPopped ==
    ASSUME NEW T, NEW s \in Seq(T), s # <<>>, NEW S, AtMostOne(Positions(s, S))
    PROVE  /\ AtMostOne(Positions(Tail(s), S))
           /\ Head(s) \notin S => (Positions(Tail(s), S) = {} <=> Positions(s, S) = {})
           /\ Head(s) \in S => Positions(s, S) # {} /\ Positions(Tail(s), S) = {}
<1> DEFINE p == Tail(s)
<1>1. /\ Len(s) \in Nat \ {0} /\ DOMAIN s = 1 .. Len(s) /\ DOMAIN p = 1 .. (Len(s) - 1)
      /\ \A i \in DOMAIN p : p[i] = s[i + 1]
      /\ Head(s) = s[1]
  OBVIOUS
<1> HIDE DEF p
<1>2. \A i \in Positions(p, S) : i \in Nat /\ i >= 1 /\ i + 1 \in Positions(s, S)
  BY <1>1 DEF Positions
<1>3. \A i \in Positions(s, S) : i \in Nat /\ (i # 1 => i - 1 \in Positions(p, S))
  <2> SUFFICES ASSUME NEW i \in Positions(s, S), i # 1 PROVE i - 1 \in Positions(p, S)
    BY <1>1 DEF Positions
  <2>1. i - 1 \in DOMAIN p /\ (i - 1) + 1 = i
    BY <1>1 DEF Positions
  <2> QED
    BY <1>1, <2>1 DEF Positions
<1>4. 1 \in Positions(s, S) <=> Head(s) \in S
  BY <1>1 DEF Positions
<1>5. AtMostOne(Positions(p, S))
  BY <1>2 DEF AtMostOne
<1>6. Head(s) \notin S => (Positions(p, S) = {} <=> Positions(s, S) = {})
  BY <1>2, <1>3, <1>4
<1>7. Head(s) \in S => Positions(s, S) # {} /\ Positions(p, S) = {}
  BY <1>2, <1>4 DEF AtMostOne
<1> QED
  BY <1>5, <1>6, <1>7 DEF p

\* No connection becomes one that accepts requests.
NoneBetter ==
    \A c \in Conns :
        /\ conns'[c].ep = conns[c].ep
        /\ conns'[c].at = "pool" /\ conns'[c].connected /\ conns'[c].healthy /\ ~conns'[c].goingAway
           => conns[c].at = "pool" /\ conns[c].connected /\ conns[c].healthy /\ ~conns[c].goingAway

\* The task posted or taken, if any, is not about an attempt.
TasksPlain ==
    \/ tasks' = tasks
    \/ \E t \in Tasks : t.kind \in {"drain", "cancel"} /\ tasks' = Append(tasks, t)
    \/ tasks # <<>> /\ Head(tasks).kind \in {"drain", "cancel"} /\ tasks' = Tail(tasks)

\* A step that has nothing to do with connecting
Unrelated ==
    /\ UNCHANGED <<started, closer, connector, connectTasks, connecting>>
    /\ TasksPlain /\ NoneBetter

LEMMA AcceptingShrinks ==
    ASSUME NoneBetter, NEW e PROVE Accepting(e)' \subseteq Accepting(e)
BY DEF NoneBetter, Accepting, Pooled

LEMMA ResultsSame ==
    ASSUME \A c \in Conns : conns'[c].ep = conns[c].ep, NEW e
    PROVE  ResultsOf(e)' = ResultsOf(e)
BY DEF ResultsOf

\* Only "failed" and "established" report an attempt.
LEMMA ResultKinds ==
    ASSUME NEW e, NEW t \in ResultsOf(e) PROVE t.kind \in {"failed", "established"}
BY DEF ResultsOf

LEMMA UnrelatedKeepsAttempts ==
    ASSUME TypeOK, AInv, Unrelated PROVE AInv'
<1>1. tasks \in Seq(Tasks)
  BY DEF TypeOK
<1>2. UNCHANGED <<started, closer, connector, connectTasks, connecting>>
  BY DEF Unrelated
<1>3. ConnectorAlive'
  <2> SUFFICES ASSUME connector.pc # "exited", NEW i \in DOMAIN tasks' PROVE tasks'[i].kind # "close"
    BY <1>2 DEF AInv, ConnectorAlive
  <2>0. \A j \in DOMAIN tasks : tasks[j].kind # "close"
    BY DEF AInv, ConnectorAlive
  <2>1. CASE tasks' = tasks
    BY <2>0, <2>1
  <2>2. ASSUME NEW t \in Tasks, t.kind \in {"drain", "cancel"}, tasks' = Append(tasks, t)
        PROVE  tasks'[i].kind # "close"
    <3>1. tasks'[i] = t \/ (i \in DOMAIN tasks /\ tasks'[i] = tasks[i])
      BY <1>1, <2>2
    <3> QED
      BY <2>0, <2>2, <3>1
  <2>3. CASE tasks # <<>> /\ tasks' = Tail(tasks)
    <3>1. i + 1 \in DOMAIN tasks /\ tasks'[i] = tasks[i + 1]
      BY <1>1, <2>3
    <3> QED
      BY <2>0, <3>1
  <2> QED
    BY <2>1, <2>2, <2>3 DEF Unrelated, TasksPlain
<1>4. OneLane'
  <2> SUFFICES ASSUME connector.pc # "exited", NEW e \in Endpoints
               PROVE  /\ AtMostOne(Waiting(e)') /\ AtMostOne(Reported(e)') /\ AtMostOne(Accepting(e)')
                      /\ Waiting(e)' # {} => ~Dialing(e)' /\ Reported(e)' = {}
                      /\ Dialing(e)' => Reported(e)' = {}
                      /\ e \in connecting' <=> Waiting(e)' # {} \/ Dialing(e)' \/ Reported(e)' # {}
                      /\ e \in connecting' => Accepting(e)' = {}
    BY <1>2 DEF OneLane, Lane, AtMostOne
  <2>1. /\ AtMostOne(Waiting(e)) /\ AtMostOne(Reported(e)) /\ AtMostOne(Accepting(e))
        /\ Waiting(e) # {} => ~Dialing(e) /\ Reported(e) = {}
        /\ Dialing(e) => Reported(e) = {}
        /\ e \in connecting <=> Waiting(e) # {} \/ Dialing(e) \/ Reported(e) # {}
        /\ e \in connecting => Accepting(e) = {}
    BY DEF AInv, OneLane, Lane
  <2>2. Waiting(e)' = Waiting(e) /\ (Dialing(e)' <=> Dialing(e))
    BY <1>2 DEF Waiting, Dialing
  <2>3. Accepting(e)' \subseteq Accepting(e)
    BY AcceptingShrinks DEF Unrelated
  <2>4. AtMostOne(Reported(e)') /\ (Reported(e)' = {} <=> Reported(e) = {})
    <3>1. Reported(e)' = Positions(tasks', ResultsOf(e))
      BY ResultsSame DEF Unrelated, NoneBetter, Reported
    <3> DEFINE S == ResultsOf(e)
    <3>2. AtMostOne(Positions(tasks, S)) /\ Reported(e) = Positions(tasks, S)
      BY <2>1 DEF Reported
    <3>3. \A t \in S : t.kind \in {"failed", "established"}
      BY ResultKinds
    <3> HIDE DEF S
    <3>4. CASE tasks' = tasks
      BY <3>1, <3>2, <3>4 DEF S
    <3>5. ASSUME NEW t \in Tasks, t.kind \in {"drain", "cancel"}, tasks' = Append(tasks, t)
          PROVE  AtMostOne(Reported(e)') /\ (Reported(e)' = {} <=> Reported(e) = {})
      <4>1. t \notin S
        BY <3>3, <3>5
      <4>2. Positions(tasks', S) = Positions(tasks, S)
        BY <1>1, <3>5, <4>1, PositionsPushed
      <4> QED
        BY <3>1, <3>2, <4>2 DEF S
    <3>6. CASE tasks # <<>> /\ Head(tasks).kind \in {"drain", "cancel"} /\ tasks' = Tail(tasks)
      <4>1. Head(tasks) \notin S
        BY <3>3, <3>6
      <4>2. /\ AtMostOne(Positions(tasks', S))
            /\ Positions(tasks', S) = {} <=> Positions(tasks, S) = {}
        BY <1>1, <3>2, <3>6, <4>1, PositionsPopped
      <4> QED
        BY <3>1, <3>2, <4>2 DEF S
    <3> QED
      BY <3>4, <3>5, <3>6 DEF Unrelated, TasksPlain
  <2>5. AtMostOne(Accepting(e)') /\ (Accepting(e) = {} => Accepting(e)' = {})
    BY <2>1, <2>3 DEF AtMostOne
  <2> QED
    BY <1>2, <2>1, <2>2, <2>4, <2>5
<1> QED
  BY <1>3, <1>4 DEF AInv

\* Connections that stay as they are
LEMMA SameConnsBetterNone == conns' = conns => NoneBetter
BY DEF NoneBetter

\* One connection passes to a state that accepts no more than the one before.
LEMMA OneConnWorse ==
    ASSUME TypeOK, NEW c \in Conns, NEW k \in ConnType, Becomes(c, k), k.ep = conns[c].ep,
           k.at = "pool" /\ k.connected /\ k.healthy /\ ~k.goingAway
           => conns[c].at = "pool" /\ conns[c].connected /\ conns[c].healthy /\ ~conns[c].goingAway
    PROVE  NoneBetter
<1>1. conns'[c] = k /\ \A d \in Conns : d # c => conns'[d] = conns[d]
  BY BecomesEffect
<1> QED
  BY <1>1 DEF NoneBetter

LEMMA WorseStates ==
    ASSUME NEW k \in ConnType
    PROVE  /\ \A n \in Nat : LET m == [k EXCEPT !.limit = n] IN
                 /\ m \in ConnType /\ m.ep = k.ep /\ m.at = k.at /\ m.connected = k.connected
                 /\ m.healthy = k.healthy /\ m.goingAway = k.goingAway
           /\ LET m == [k EXCEPT !.connected = FALSE] IN m \in ConnType /\ m.ep = k.ep /\ ~m.connected
BY DEF ConnType

LEMMA FewerStreams ==
    ASSUME NEW k \in ConnType, NEW q
    PROVE  /\ DropStream(k, q).goingAway = k.goingAway
           /\ LET m == [k EXCEPT !.ctxs = @ \ {q}] IN
                 /\ m \in ConnType /\ m.ep = k.ep /\ m.at = k.at /\ m.connected = k.connected
                 /\ m.healthy = k.healthy /\ m.goingAway = k.goingAway
BY DEF DropStream, ConnType

LEMMA DrainingState ==
    ASSUME NEW k \in ConnType, NEW S
    PROVE  LET m == [k EXCEPT !.goingAway = TRUE, !.streams = @ \ S, !.ctxs = @ \ S]
           IN  m \in ConnType /\ m.ep = k.ep /\ m.goingAway
BY DEF ConnType

\* The user's threads, the dispatcher and the loops of the reactor that only
\* move requests
LEMMA UsersUnrelated ==
    ASSUME IInv, NEW q \in Requests,
           \/ sendFails(q) \/ sendAsync(q) \/ pushSubmitQueue(q) \/ cancel(q) \/ runCallback(q)
           \/ postDrain(q) \/ postCancel(q) \/ passCallback(q)
    PROVE  Unrelated
<1>1. conns' = conns /\ UNCHANGED <<started, closer, connector, connectTasks, connecting>>
  BY DEF sendFails, sendAsync, pushSubmitQueue, cancel, runCallback, postDrain, postCancel,
         passCallback, callVars, poolVars, threadVars
<1>2. TasksPlain
  <2>1. CASE \/ sendFails(q) \/ sendAsync(q) \/ pushSubmitQueue(q) \/ cancel(q)
             \/ runCallback(q) \/ passCallback(q)
    BY <2>1 DEF sendFails, sendAsync, pushSubmitQueue, cancel, runCallback, passCallback,
                TasksPlain
  <2>2. CASE postDrain(q) \/ postCancel(q)
    <3>1. PICK t \in {[kind |-> "drain"], [kind |-> "cancel", req |-> q]} :
             Post(t) \/ tasks' = tasks
      BY <2>2 DEF postDrain, postCancel
    <3>2. t \in Tasks /\ t.kind \in {"drain", "cancel"}
      BY <3>1, TasksTyped
    <3>3. tasks' = Append(tasks, t) \/ tasks' = tasks
      BY <3>1 DEF Post
    <3> QED
      BY <3>2, <3>3 DEF TasksPlain
  <2> QED
    BY <2>1, <2>2
<1> QED
  BY <1>1, <1>2, SameConnsBetterNone DEF Unrelated

LEMMA LoopsUnrelated ==
    ASSUME IInv, \/ dropCanceled \/ (\E c \in Conns : choose(c)) \/ settle
                 \/ (\E q \in Requests : onRequestDone(q)) \/ eventsDone \/ trySubmitPending
                 \/ readWouldBlock \/ (\E c \in Conns : onReadable(c)) \/ reactorExits
    PROVE  Unrelated
<1>1. /\ conns' = conns /\ tasks' = tasks
      /\ UNCHANGED <<started, closer, connector, connectTasks, connecting>>
  BY DEF dropCanceled, choose, settle, onRequestDone, eventsDone, trySubmitPending,
         readWouldBlock, onReadable, reactorExits, SessionOnly, OnReactor,
         callVars, poolVars, threadVars
<1> QED
  BY <1>1, SameConnsBetterNone DEF Unrelated, TasksPlain

\* drainSubmitQueue destroys only connections that are closed.
LEMMA DrainUnrelated == ASSUME IInv, drainSubmitQueue PROVE Unrelated
<1>1. /\ UNCHANGED <<started, closer, connector, connectTasks, connecting>>
      /\ tasks # <<>> /\ Head(tasks).kind = "drain" /\ tasks' = Tail(tasks)
  BY DEF drainSubmitQueue, Takes, callVars, threadVars
<1>2. NoneBetter
  <2> SUFFICES ASSUME NEW c \in Conns
               PROVE  conns'[c] = conns[c] \/ (conns'[c].ep = conns[c].ep /\ conns'[c].at # "pool")
    BY DEF NoneBetter
  <2>1. conns[c] \in ConnType
    BY Typed DEF IInv
  <2>2. conns'[c] = conns[c] \/ conns'[c] = [conns[c] EXCEPT !.at = "gone"]
    BY DEF drainSubmitQueue
  <2> QED
    BY <2>1, <2>2 DEF ConnType
<1> QED
  BY <1>1, <1>2 DEF Unrelated, TasksPlain

\* A request is given to a session: which connections accept requests does not
\* change.
LEMMA SubmitBetterNone ==
    ASSUME IInv, NEW q \in Requests, NEW c \in Conns, submitOnReactor(q, c) PROVE NoneBetter
<1> DEFINE k == [conns[c] EXCEPT !.streams = conns[c].streams \cup {q},
                                 !.ctxs = conns[c].ctxs \cup {q}]
<1>1. conns[c] \in ConnType /\ conns \in [Conns -> ConnType]
  BY Typed DEF IInv, TypeOK
<1>2. /\ k.ep = conns[c].ep /\ k.at = conns[c].at /\ k.connected = conns[c].connected
      /\ k.healthy = conns[c].healthy /\ k.goingAway = conns[c].goingAway
  BY <1>1 DEF ConnType
<1>3. CASE conns' = conns
  BY <1>3, SameConnsBetterNone
<1>4. CASE conns' # conns
  <2>1. conns' = [conns EXCEPT ![c].streams = @ \cup {q}, ![c].ctxs = @ \cup {q}]
    BY <1>4 DEF submitOnReactor
  <2>2. conns'[c] = k /\ \A d \in Conns : d # c => conns'[d] = conns[d]
    BY <1>1, <2>1 DEF ConnType
  <2> HIDE DEF k
  <2> QED
    BY <1>2, <2>2 DEF NoneBetter
<1> QED
  BY <1>3, <1>4

LEMMA SubmitsUnrelated == ASSUME IInv, submitLocal \/ submitPending PROVE Unrelated
<1>1. CASE submitLocal
  <2>1. Head(rx.local) \in Requests
    BY <1>1, LoopFacts DEF submitLocal, InLoop
  <2>2. rx.to \in Conns
    BY <1>1 DEF submitLocal, IInv, Pool, RxShape
  <2>3. NoneBetter
    BY <1>1, <2>1, <2>2, SubmitBetterNone DEF submitLocal
  <2> QED
    BY <1>1, <2>3 DEF submitLocal, Unrelated, TasksPlain, callVars, threadVars
<1>2. CASE submitPending
  <2>1. rx.to \in Conns /\ rx.ep \in Endpoints /\ pending[rx.ep] # <<>>
    BY <1>2, EventFacts DEF submitPending, IInv, Pool, RxShape
  <2>2. Head(pending[rx.ep]) \in Requests
    BY <2>1, Typed DEF IInv
  <2>3. NoneBetter
    BY <1>2, <2>1, <2>2, SubmitBetterNone DEF submitPending
  <2> QED
    BY <1>2, <2>3 DEF submitPending, Unrelated, TasksPlain, OnReactor, callVars, threadVars
<1> QED
  BY <1>1, <1>2

\* Sessions only fail, lose streams or begin to drain.
LEMMA SessionsUnrelated ==
    ASSUME IInv, NEW c \in Conns,
           \/ Session(c) \/ writeFails(c) \/ onPingTimeout(c)
           \/ (c = rx.conn /\ (readClosed \/ onConnectionLost))
    PROVE  Unrelated
<1>1. /\ tasks' = tasks /\ UNCHANGED <<started, closer, connector, connectTasks, connecting>>
  BY DEF Session, responseCompleted, uploadEnds, responseFailed, peerSettings, goawayReceived,
         connectionError, writeFails, onPingTimeout, readClosed, onConnectionLost, SessionOnly,
         OnReactor, callVars, threadVars
<1> DEFINE k == conns[c]
<1>2. k \in ConnType /\ TypeOK
  BY Typed DEF IInv
<1> SUFFICES NoneBetter
  BY <1>1 DEF Unrelated, TasksPlain
<1>3. ASSUME NEW q \in Requests, Becomes(c, DropStream(k, q)) PROVE NoneBetter
  <2> DEFINE m == DropStream(k, q)
  <2>1. /\ m \in ConnType /\ m.ep = k.ep /\ m.at = k.at /\ m.connected = k.connected
        /\ m.healthy = k.healthy /\ m.goingAway = k.goingAway
    BY <1>2, StreamDropped, FewerStreams
  <2> HIDE DEF m
  <2> QED
    BY <1>2, <1>3, <2>1, OneConnWorse DEF m
<1>4. ASSUME Becomes(c, DeadSession(k)) PROVE NoneBetter
  <2> DEFINE m == DeadSession(k)
  <2>1. m \in ConnType /\ m.ep = k.ep /\ ~m.healthy
    BY <1>2, SessionStates
  <2> HIDE DEF m
  <2> QED
    BY <1>2, <1>4, <2>1, OneConnWorse DEF m
<1>5. ASSUME NEW j \in ConnType, j.ep = k.ep, Becomes(c, [j EXCEPT !.connected = FALSE])
      PROVE  NoneBetter
  <2> DEFINE m == [j EXCEPT !.connected = FALSE]
  <2>1. m \in ConnType /\ m.ep = k.ep /\ ~m.connected
    BY <1>5, WorseStates
  <2> HIDE DEF m
  <2> QED
    BY <1>2, <1>5, <2>1, OneConnWorse DEF m
<1>6. ASSUME NEW q \in Requests, responseCompleted(c, q) PROVE NoneBetter
  <2> DEFINE m == [k EXCEPT !.ctxs = @ \ {q}]
  <2>1. /\ m \in ConnType /\ m.ep = k.ep /\ m.at = k.at /\ m.connected = k.connected
        /\ m.healthy = k.healthy /\ m.goingAway = k.goingAway
    BY <1>2, FewerStreams
  <2>2. Becomes(c, DropStream(k, q)) \/ Becomes(c, m)
    BY <1>6 DEF responseCompleted
  <2> HIDE DEF m
  <2>3. Becomes(c, m) => NoneBetter
    BY <1>2, <2>1, OneConnWorse
  <2> QED
    BY <1>3, <2>2, <2>3
<1>7. ASSUME NEW q \in Requests, uploadEnds(c, q) \/ responseFailed(c, q) PROVE NoneBetter
  BY <1>3, <1>7 DEF uploadEnds, responseFailed
<1>8. ASSUME NEW n \in Limits, peerSettings(c, n) PROVE NoneBetter
  <2> DEFINE m == [k EXCEPT !.limit = n]
  <2>1. n \in Nat
    BY ManagerAssumption
  <2>2. /\ m \in ConnType /\ m.ep = k.ep /\ m.at = k.at /\ m.connected = k.connected
        /\ m.healthy = k.healthy /\ m.goingAway = k.goingAway
    BY <1>2, <2>1, WorseStates
  <2>3. Becomes(c, m)
    BY <1>8 DEF peerSettings
  <2> HIDE DEF m
  <2> QED
    BY <1>2, <2>2, <2>3, OneConnWorse
<1>9. ASSUME NEW S \in SUBSET k.streams, goawayReceived(c, S) PROVE NoneBetter
  <2> DEFINE m == [k EXCEPT !.goingAway = TRUE, !.streams = @ \ S, !.ctxs = @ \ S]
  <2>1. m \in ConnType /\ m.ep = k.ep /\ m.goingAway
    BY <1>2, DrainingState
  <2>2. Becomes(c, m)
    BY <1>9 DEF goawayReceived
  <2> HIDE DEF m
  <2> QED
    BY <1>2, <2>1, <2>2, OneConnWorse
<1>10. connectionError(c) \/ writeFails(c) \/ (c = rx.conn /\ readClosed) => NoneBetter
  BY <1>4 DEF connectionError, writeFails, readClosed
<1>11. onPingTimeout(c) => NoneBetter
  <2>1. DeadSession(k) \in ConnType /\ DeadSession(k).ep = k.ep
    BY <1>2, SessionStates
  <2> QED
    BY <2>1, <1>5 DEF onPingTimeout
<1>12. c = rx.conn /\ onConnectionLost => NoneBetter
  BY <1>2, <1>5 DEF onConnectionLost
<1> QED
  BY <1>6, <1>7, <1>8, <1>9, <1>10, <1>11, <1>12 DEF Session

\* The stream of a request is reset.
LEMMA ResetBetterNone ==
    ASSUME IInv, NEW q \in Requests, InFlight(q),
           conns' = [conns EXCEPT ![rc[q]] = DropStream(@, q)]
    PROVE  NoneBetter
<1>1. rc[q] \in Conns /\ TypeOK
  BY Typed DEF IInv, InFlight
<1>2. PICK c \in Conns : c = rc[q]
  BY <1>1
<1> DEFINE k == conns[c]
           m == DropStream(k, q)
<1>3. k \in ConnType
  BY <1>1, Typed
<1>4. /\ m \in ConnType /\ m.ep = k.ep /\ m.at = k.at /\ m.connected = k.connected
      /\ m.healthy = k.healthy /\ m.goingAway = k.goingAway
  BY <1>3, StreamDropped, FewerStreams
<1>5. Becomes(c, m)
  BY <1>2 DEF Becomes
<1> HIDE DEF m
<1> QED
  BY <1>1, <1>4, <1>5, OneConnWorse

LEMMA AbortsUnrelated ==
    ASSUME IInv, NEW q \in Requests,
           handleCancelOnReactor(q) \/ handleTimeoutOnReactor(q) \/ cancelOffReactor(q)
    PROVE  Unrelated
<1>1. /\ UNCHANGED <<started, closer, connector, connectTasks, connecting>>
      /\ tasks' = tasks \/ (tasks # <<>> /\ Head(tasks).kind = "cancel" /\ tasks' = Tail(tasks))
  BY DEF handleCancelOnReactor, handleTimeoutOnReactor, cancelOffReactor, Takes, callVars, threadVars
<1>2. \/ conns' = conns
      \/ InFlight(q) /\ conns' = [conns EXCEPT ![rc[q]] = DropStream(@, q)]
  BY DEF handleCancelOnReactor, handleTimeoutOnReactor, cancelOffReactor, abort
<1>3. NoneBetter
  BY <1>2, SameConnsBetterNone, ResetBetterNone
<1> QED
  BY <1>1, <1>3 DEF Unrelated, TasksPlain

\* Connecting has begun only after the threads were started.
LEMMA StartAttempts == ASSUME IInv, AInv, startThreadsIfNeeded PROVE AInv'
<1>1. /\ started = "no" /\ UNCHANGED <<tasks, conns, connecting, connectTasks, closer>>
      /\ \/ started' = "yes" /\ connector' = [connector EXCEPT !.pc = "wait"]
         \/ connector' = connector
  BY DEF startThreadsIfNeeded, poolVars
<1>2. connector.pc = "off" /\ connector'.pc \in {"off", "wait"} /\ connector'.ep = connector.ep
  BY <1>1 DEF AInv, ConnectorAlive, IInv, TypeOK
<1>3. connector'.pc = "wait" => started' = "yes"
  BY <1>1, <1>2
<1>4. ConnectorAlive'
  BY <1>1, <1>2, <1>3 DEF AInv, ConnectorAlive
<1>5. ASSUME NEW e \in Endpoints PROVE Lane(e)'
  <2>1. /\ Waiting(e)' = Waiting(e) /\ Reported(e)' = Reported(e) /\ Accepting(e)' = Accepting(e)
        /\ ~Dialing(e)' /\ ~Dialing(e)
    BY <1>1, <1>2 DEF Waiting, Reported, Accepting, Dialing, ResultsOf, Pooled
  <2>2. Lane(e)
    BY <1>2 DEF AInv, OneLane
  <2> QED
    BY <1>1, <2>1, <2>2 DEF Lane, AtMostOne
<1> QED
  BY <1>4, <1>5 DEF AInv, OneLane

\* The connector thread takes an endpoint, or ends.
LEMMA TakesAttempts == ASSUME IInv, AInv, connectorTakes PROVE AInv'
<1> DEFINE h == Head(connectTasks)
<1>1. /\ connector.pc = "wait" /\ connectTasks # <<>> /\ connectTasks' = Tail(connectTasks)
      /\ connector' = [connector EXCEPT !.pc = "connecting", !.ep = h]
      /\ UNCHANGED <<started, tasks, conns, connecting, closer>>
  BY DEF connectorTakes, callVars, poolVars
<1>2. connectTasks \in Seq(Endpoints) /\ connector'.pc = "connecting" /\ connector'.ep = h
  BY <1>1 DEF IInv, TypeOK
<1>3. ConnectorAlive'
  BY <1>1, <1>2 DEF AInv, ConnectorAlive
<1> HIDE DEF h
<1>4. ASSUME NEW e \in Endpoints PROVE Lane(e)'
  <2>1. Lane(e)
    BY <1>1 DEF AInv, OneLane
  <2>2. /\ Reported(e)' = Reported(e) /\ Accepting(e)' = Accepting(e)
        /\ ~Dialing(e) /\ (Dialing(e)' <=> e = h)
    BY <1>1, <1>2 DEF Reported, Accepting, Dialing, ResultsOf, Pooled
  <2>3. /\ AtMostOne(Waiting(e)')
        /\ h \notin {e} => (Waiting(e)' = {} <=> Waiting(e) = {})
        /\ h \in {e} => Waiting(e) # {} /\ Waiting(e)' = {}
    <3>1. Waiting(e)' = Positions(Tail(connectTasks), {e}) /\ AtMostOne(Positions(connectTasks, {e}))
      BY <1>1, <2>1 DEF Lane, Waiting
    <3> QED
      BY <1>1, <1>2, <3>1, PositionsPopped DEF Waiting, h
  <2> QED
    BY <1>1, <2>1, <2>2, <2>3 DEF Lane, AtMostOne
<1> QED
  BY <1>3, <1>4 DEF AInv, OneLane

LEMMA ExitsAttempts == ASSUME IInv, AInv, connectorExits PROVE AInv'
<1>1. connector.pc = "wait" /\ connector'.pc = "exited" /\ started' = started
  BY DEF connectorExits, callVars, IInv, TypeOK
<1> QED
  BY <1>1 DEF AInv, ConnectorAlive, OneLane

\* The connector thread reports the end of an attempt: the reactor still takes
\* tasks.
LEMMA ReportedAttempts ==
    ASSUME IInv, AInv, connector.pc = "connecting", connector'.pc = "wait",
           UNCHANGED <<started, closer, connectTasks, connecting>>,
           NEW t \in Tasks, t.kind # "close", Post(t),
           \A e \in Endpoints : t \in ResultsOf(e)' <=> e = connector.ep,
           \A e \in Endpoints : Positions(tasks, ResultsOf(e)') = Positions(tasks, ResultsOf(e)),
           \A e \in Endpoints : Accepting(e)' \subseteq Accepting(e)
    PROVE  AInv'
<1>1. started = "yes" /\ closer \in {"no", "join connector"}
  BY DEF AInv, ConnectorAlive
<1>2. running
  BY <1>1 DEF IInv, Callbacks, CloseOrder
<1>3. tasks' = Append(tasks, t) /\ tasks \in Seq(Tasks)
  BY <1>2 DEF Post, IInv, TypeOK
<1>4. ConnectorAlive'
  <2>1. \A i \in DOMAIN tasks : tasks[i].kind # "close"
    BY DEF AInv, ConnectorAlive
  <2>2. \A i \in DOMAIN tasks' : tasks'[i] = t \/ (i \in DOMAIN tasks /\ tasks'[i] = tasks[i])
    BY <1>3
  <2>3. \A i \in DOMAIN tasks' : tasks'[i].kind # "close"
    BY <2>1, <2>2
  <2> QED
    BY <1>1, <2>3 DEF ConnectorAlive
<1>5. ASSUME NEW e \in Endpoints PROVE Lane(e)'
  <2>1. Lane(e)
    BY DEF AInv, OneLane
  <2>2. /\ Waiting(e)' = Waiting(e) /\ ~Dialing(e)' /\ (Dialing(e) <=> e = connector.ep)
        /\ Accepting(e)' \subseteq Accepting(e)
    BY DEF Waiting, Dialing
  <2> DEFINE S == ResultsOf(e)'
  <2>3. /\ Reported(e)' = Positions(Append(tasks, t), S) /\ Reported(e) = Positions(tasks, S)
    BY <1>3 DEF Reported
  <2>4. t \in S <=> e = connector.ep
    OBVIOUS
  <2> HIDE DEF S
  <2>5. /\ t \notin S => Reported(e)' = Reported(e)
        /\ t \in S => Reported(e)' # {}
        /\ t \in S /\ Reported(e) = {} => AtMostOne(Reported(e)')
    BY <1>3, <2>3, PositionsPushed
  <2>6. /\ AtMostOne(Accepting(e)') /\ (Accepting(e) = {} => Accepting(e)' = {})
    BY <2>1, <2>2 DEF Lane, AtMostOne
  <2>7. CASE e = connector.ep
    <3>1. Reported(e) = {} /\ Waiting(e) = {} /\ e \in connecting /\ Accepting(e) = {}
      BY <2>1, <2>2, <2>7 DEF Lane
    <3>2. Reported(e)' # {} /\ AtMostOne(Reported(e)')
      BY <2>4, <2>5, <2>7, <3>1
    <3> QED
      BY <2>2, <2>6, <3>1, <3>2 DEF Lane, AtMostOne
  <2>8. CASE e # connector.ep
    <3>1. Reported(e)' = Reported(e)
      BY <2>4, <2>5, <2>8
    <3> QED
      BY <2>1, <2>2, <2>6, <2>8, <3>1 DEF Lane, AtMostOne
  <2> QED
    BY <2>7, <2>8
<1> QED
  BY <1>4, <1>5 DEF AInv, OneLane

\* A task names one endpoint.
LEMMA ResultNames ==
    ASSUME TypeOK
    PROVE  /\ \A e, f \in Endpoints : [kind |-> "failed", ep |-> f] \in ResultsOf(e) <=> e = f
           /\ \A e \in Endpoints, c \in Conns :
                 [kind |-> "established", conn |-> c] \in ResultsOf(e) <=> conns[c].ep = e
           /\ \A e \in Endpoints, t \in Tasks :
                 t \in ResultsOf(e) <=> \/ t.kind = "failed" /\ t.ep = e
                                        \/ t.kind = "established" /\ conns[t.conn].ep = e
<1>1. /\ \A t \in Tasks : t.kind = "failed" => t = [kind |-> "failed", ep |-> t.ep]
      /\ \A t \in Tasks : t.kind = "established" => /\ t = [kind |-> "established", conn |-> t.conn]
                                                    /\ t.conn \in Conns
  BY DEF Tasks
<1>2. \A e \in Endpoints, t \in Tasks :
         t \in ResultsOf(e) <=> \/ t.kind = "failed" /\ t.ep = e
                                \/ t.kind = "established" /\ conns[t.conn].ep = e
  BY <1>1 DEF ResultsOf
<1> QED
  BY <1>2, TasksTyped

LEMMA FailsAttempts == ASSUME IInv, AInv, connectFails PROVE AInv'
<1> DEFINE t == [kind |-> "failed", ep |-> connector.ep]
<1>1. /\ connector.pc = "connecting" /\ Post(t) /\ connector' = [connector EXCEPT !.pc = "wait"]
      /\ UNCHANGED <<started, closer, connectTasks, connecting, conns>>
  BY DEF connectFails, callVars, poolVars
<1>2. connector'.pc = "wait" /\ connector.ep \in Endpoints /\ TypeOK
  BY <1>1 DEF IInv, TypeOK
<1>3. t \in Tasks /\ t.kind # "close"
  BY <1>2, TasksTyped
<1>4. ASSUME NEW e \in Endpoints
      PROVE  ResultsOf(e)' = ResultsOf(e) /\ Accepting(e)' = Accepting(e)
  BY <1>1 DEF ResultsOf, Accepting, Pooled
<1>5. \A e \in Endpoints : t \in ResultsOf(e) <=> e = connector.ep
  BY <1>2, ResultNames
<1> HIDE DEF t
<1> QED
  BY <1>1, <1>2, <1>3, <1>4, <1>5, ReportedAttempts

LEMMA SucceedsAttempts == ASSUME IInv, AInv, NEW c \in Conns, connectSucceeds(c) PROVE AInv'
<1> DEFINE t == [kind |-> "established", conn |-> c]
           k == [conns[c] EXCEPT !.at = "posted", !.ep = connector.ep,
                                 !.connected = TRUE, !.healthy = TRUE]
<1>1. /\ connector.pc = "connecting" /\ Post(t) /\ connector' = [connector EXCEPT !.pc = "wait"]
      /\ UNCHANGED <<started, closer, connectTasks, connecting>>
      /\ conns[c].at = "unused" /\ conns' = [conns EXCEPT ![c] = k]
  BY DEF connectSucceeds, callVars
<1>2. connector'.pc = "wait" /\ connector.ep \in Endpoints /\ TypeOK /\ tasks \in Seq(Tasks)
  BY <1>1 DEF IInv, TypeOK
<1>3. t \in Tasks /\ t.kind # "close"
  BY TasksTyped
<1>4. k.at = "posted" /\ k.ep = connector.ep
  BY <1>2, Typed DEF ConnType
<1> HIDE DEF k
<1>5. conns'[c] = k /\ \A d \in Conns : d # c => conns'[d] = conns[d]
  BY <1>1 DEF IInv, TypeOK
<1>6. \A e \in Endpoints : Accepting(e)' \subseteq Accepting(e)
  BY <1>4, <1>5 DEF Accepting, Pooled
<1>7. \A i \in DOMAIN tasks : tasks[i] \in Tasks /\ tasks[i] # t
  <2>1. \A i \in DOMAIN tasks : tasks[i].kind = "established" => conns[tasks[i].conn].at = "posted"
    BY DEF IInv, Posted, PostedOnce
  <2>2. \A i \in DOMAIN tasks : tasks[i] \in Tasks
    BY <1>2
  <2>3. t.kind = "established" /\ t.conn = c
    OBVIOUS
  <2> QED
    BY <1>1, <2>1, <2>2, <2>3
<1>8. \A e \in Endpoints : t \in ResultsOf(e)' <=> e = connector.ep
  <2>1. ASSUME NEW e \in Endpoints PROVE t \in ResultsOf(e)' <=> conns'[c].ep = e
    BY <1>3 DEF ResultsOf
  <2> QED
    BY <1>4, <1>5, <2>1
<1>9. ASSUME NEW e \in Endpoints
      PROVE  Positions(tasks, ResultsOf(e)') = Positions(tasks, ResultsOf(e))
  <2>1. ASSUME NEW u \in Tasks, u # t PROVE u \in ResultsOf(e)' <=> u \in ResultsOf(e)
    BY <1>5, <2>1 DEF ResultsOf
  <2> HIDE DEF t
  <2> QED
    BY <1>7, <2>1 DEF Positions
<1> HIDE DEF t
<1> QED
  BY <1>1, <1>2, <1>3, <1>6, <1>8, <1>9, ReportedAttempts

\* The reactor handles a result: connectingEndpoints forgets the endpoint, and
\* no attempt is left.
LEMMA HandledAttempts ==
    ASSUME IInv, AInv, NEW e0 \in Endpoints,
           UNCHANGED <<started, closer, connector, connectTasks>>,
           connecting' = connecting \ {e0},
           tasks # <<>>, tasks' = Tail(tasks),
           \A e \in Endpoints : Head(tasks) \in ResultsOf(e) <=> e = e0,
           \A d \in Conns : conns'[d].ep = conns[d].ep,
           \A e \in Endpoints : e # e0 => Accepting(e)' \subseteq Accepting(e),
           Accepting(e0) = {} => AtMostOne(Accepting(e0)')
    PROVE  AInv'
<1>1. tasks \in Seq(Tasks)
  BY DEF IInv, TypeOK
<1>2. ConnectorAlive'
  <2>1. \A i \in DOMAIN tasks' : i + 1 \in DOMAIN tasks /\ tasks'[i] = tasks[i + 1]
    BY <1>1
  <2> QED
    BY <2>1 DEF AInv, ConnectorAlive
<1>3. ASSUME connector.pc # "exited", NEW e \in Endpoints PROVE Lane(e)'
  <2>1. Lane(e)
    BY <1>3 DEF AInv, OneLane
  <2>2. Waiting(e)' = Waiting(e) /\ (Dialing(e)' <=> Dialing(e))
    BY DEF Waiting, Dialing
  <2> DEFINE S == ResultsOf(e)
  <2>3. /\ Reported(e)' = Positions(Tail(tasks), S) /\ Reported(e) = Positions(tasks, S)
    BY ResultsSame DEF Reported
  <2>4. Head(tasks) \in S <=> e = e0
    OBVIOUS
  <2> HIDE DEF S
  <2>5. AtMostOne(Positions(tasks, S))
    BY <2>1, <2>3 DEF Lane
  <2>6. /\ AtMostOne(Reported(e)')
        /\ Head(tasks) \notin S => (Reported(e)' = {} <=> Reported(e) = {})
        /\ Head(tasks) \in S => Reported(e) # {} /\ Reported(e)' = {}
    BY <1>1, <2>3, <2>5, PositionsPopped
  <2>7. CASE e = e0
    <3>1. /\ Waiting(e) = {} /\ ~Dialing(e) /\ Accepting(e) = {} /\ Reported(e)' = {}
          /\ AtMostOne({})
      BY <2>1, <2>4, <2>6, <2>7 DEF Lane, AtMostOne
    <3> QED
      BY <2>2, <2>6, <2>7, <3>1 DEF Lane, AtMostOne
  <2>8. CASE e # e0
    <3>1. AtMostOne(Accepting(e)') /\ (Accepting(e) = {} => Accepting(e)' = {})
      BY <2>1, <2>8 DEF Lane, AtMostOne
    <3> QED
      BY <2>1, <2>2, <2>4, <2>6, <2>8, <3>1 DEF Lane, AtMostOne
  <2> QED
    BY <2>7, <2>8
<1> QED
  BY <1>2, <1>3 DEF AInv, OneLane

LEMMA FailedAttempts ==
    ASSUME IInv, AInv, NEW e0 \in Endpoints, onConnectionFailed(e0) PROVE AInv'
<1>1. /\ tasks # <<>> /\ tasks' = Tail(tasks) /\ Head(tasks).kind = "failed" /\ Head(tasks).ep = e0
      /\ connecting' = connecting \ {e0}
      /\ UNCHANGED <<started, closer, connector, connectTasks, conns>>
  BY DEF onConnectionFailed, Takes, callVars, threadVars
<1>2. Head(tasks) \in Tasks /\ TypeOK
  BY <1>1, RangeTyped DEF IInv, TypeOK
<1>3. \A e \in Endpoints : Head(tasks) \in ResultsOf(e) <=> e = e0
  BY <1>1, <1>2, ResultNames
<1>4. \A e \in Endpoints : Accepting(e)' = Accepting(e)
  BY <1>1 DEF Accepting, Pooled
<1>5. Accepting(e0) = {} => AtMostOne(Accepting(e0)')
  BY <1>4 DEF AtMostOne
<1> QED
  BY <1>1, <1>3, <1>4, <1>5, HandledAttempts

LEMMA EstablishedAttempts ==
    ASSUME IInv, AInv, NEW c \in Conns, onConnectionEstablished(c) PROVE AInv'
<1>0. PICK e0 : e0 = conns[c].ep
  OBVIOUS
<1>1. /\ tasks # <<>> /\ tasks' = Tail(tasks)
      /\ Head(tasks).kind = "established" /\ Head(tasks).conn = c
      /\ connecting' = connecting \ {e0}
      /\ UNCHANGED <<started, closer, connector, connectTasks>>
  BY <1>0 DEF onConnectionEstablished, Takes, callVars, threadVars
<1>2. Head(tasks) \in Tasks /\ TypeOK /\ e0 \in Endpoints
  BY <1>0, <1>1, RangeTyped, Typed DEF IInv, TypeOK
<1>3. \A e \in Endpoints : Head(tasks) \in ResultsOf(e) <=> e = e0
  BY <1>0, <1>1, <1>2, ResultNames
<1>4. conns'[c].ep = e0 /\ \A d \in Conns : d # c => conns'[d] = conns[d]
  <2> DEFINE k == [conns[c] EXCEPT !.at = "pool"]
             m == [DeadSession(conns[c]) EXCEPT !.at = "gone", !.connected = FALSE]
  <2>1. conns[c] \in ConnType /\ DeadSession(conns[c]) \in ConnType /\ DeadSession(conns[c]).ep = e0
    BY <1>0, <1>2, Typed, SessionStates
  <2>2. k.ep = e0 /\ m.ep = e0
    BY <1>0, <2>1 DEF ConnType
  <2>3. conns' = [conns EXCEPT ![c] = k] \/ conns' = [conns EXCEPT ![c] = m]
    BY DEF onConnectionEstablished
  <2> HIDE DEF k, m
  <2> QED
    BY <1>2, <2>2, <2>3 DEF TypeOK
<1>5. \A e \in Endpoints : e # e0 => Accepting(e)' \subseteq Accepting(e)
  BY <1>4 DEF Accepting, Pooled
<1>6. Accepting(e0) = {} => AtMostOne(Accepting(e0)')
  <2>1. Accepting(e0)' \subseteq Accepting(e0) \cup {c}
    BY <1>4 DEF Accepting, Pooled
  <2> QED
    BY <2>1 DEF AtMostOne
<1> QED
  BY <1>0, <1>1, <1>2, <1>3, <1>4, <1>5, <1>6, HandledAttempts

\* A request is parked; an attempt is started where none is known and no
\* connection accepts requests.
LEMMA ParkAttempts == ASSUME IInv, AInv, park PROVE AInv'
<1>1. PICK e0 : e0 = EndpointOf[Head(rx.local)]
  OBVIOUS
<1>2. /\ UNCHANGED <<started, closer, connector, tasks, conns>>
      /\ IF Accepting(e0) = {} THEN enqueueConnectTask(e0) ELSE UNCHANGED <<connecting, connectTasks>>
      /\ rx.pc = "drain"
  BY <1>1 DEF park, callVars
<1>3. e0 \in Endpoints /\ connectTasks \in Seq(Endpoints) /\ TypeOK
  BY <1>1, <1>2, LoopFacts DEF InLoop, IInv, TypeOK
<1>4. CASE UNCHANGED <<connecting, connectTasks>>
  BY <1>2, <1>3, <1>4, SameConnsBetterNone, UnrelatedKeepsAttempts DEF Unrelated, TasksPlain
<1>5. CASE /\ Accepting(e0) = {} /\ e0 \notin connecting /\ connecting' = connecting \cup {e0}
           /\ connectTasks' = Append(connectTasks, e0)
  <2>1. ConnectorAlive'
    BY <1>2 DEF AInv, ConnectorAlive
  <2>2. ASSUME connector.pc # "exited", NEW e \in Endpoints PROVE Lane(e)'
    <3>1. Lane(e)
      BY <2>2 DEF AInv, OneLane
    <3>2. /\ Reported(e)' = Reported(e) /\ Accepting(e)' = Accepting(e)
          /\ Dialing(e)' <=> Dialing(e)
      BY <1>2 DEF Reported, Accepting, Dialing, ResultsOf, Pooled
    <3>3. /\ e0 \notin {e} => Waiting(e)' = Waiting(e)
          /\ e0 \in {e} => Waiting(e)' # {}
          /\ e0 \in {e} /\ Waiting(e) = {} => AtMostOne(Waiting(e)')
      BY <1>3, <1>5, PositionsPushed DEF Waiting
    <3>4. CASE e = e0
      <4>1. Waiting(e) = {} /\ ~Dialing(e) /\ Reported(e) = {}
        BY <1>5, <3>1, <3>4 DEF Lane
      <4> QED
        BY <1>5, <3>1, <3>2, <3>3, <3>4, <4>1 DEF Lane, AtMostOne
    <3>5. CASE e # e0
      BY <1>5, <3>1, <3>2, <3>3, <3>5 DEF Lane, AtMostOne
    <3> QED
      BY <3>4, <3>5
  <2> QED
    BY <1>2, <2>1, <2>2 DEF AInv, OneLane
<1> QED
  BY <1>2, <1>4, <1>5 DEF enqueueConnectTask

\* close(): past the join of the connector thread nothing is claimed.
LEMMA CloseAttempts ==
    ASSUME IInv, AInv, Close \/ closeOnReactor PROVE AInv'
<1>1. CASE stopConnector
  <2>1. /\ closer' = "join connector" /\ connector' = [connector EXCEPT !.stop = TRUE]
        /\ UNCHANGED <<started, tasks, conns, connecting, connectTasks>>
    BY <1>1 DEF stopConnector, CloseStep, callVars, poolVars
  <2>2. connector'.pc = connector.pc /\ connector'.ep = connector.ep
    BY <2>1 DEF IInv, TypeOK
  <2>3. ConnectorAlive'
    BY <2>1, <2>2 DEF AInv, ConnectorAlive
  <2>4. ASSUME NEW e \in Endpoints, Lane(e) PROVE Lane(e)'
    BY <2>1, <2>2, <2>4 DEF Lane, Waiting, Reported, Accepting, Dialing, ResultsOf, Pooled
  <2> QED
    BY <2>2, <2>3, <2>4 DEF AInv, OneLane
<1>2. CASE Close /\ ~stopConnector
  <2>1. connector.pc = "exited" /\ connector' = connector /\ started' = started
    BY <1>2 DEF Close, postClose, stopReactor, stopDispatcher, dispatcherJoined,
       failQueuedRequests, failAllContexts, closeReturns, CloseStep, AInv, ConnectorAlive, callVars
  <2> QED
    BY <2>1 DEF AInv, ConnectorAlive, OneLane
<1>3. CASE closeOnReactor
  <2>1. /\ tasks # <<>> /\ Head(tasks).kind = "close" /\ tasks \in Seq(Tasks)
        /\ connector' = connector /\ started' = started
    BY <1>3 DEF closeOnReactor, Takes, callVars, threadVars, IInv, TypeOK
  <2>2. 1 \in DOMAIN tasks /\ Head(tasks) = tasks[1]
    BY <2>1
  <2>3. connector.pc = "exited"
    BY <2>1, <2>2 DEF AInv, ConnectorAlive
  <2> QED
    BY <2>1, <2>3 DEF AInv, ConnectorAlive, OneLane
<1> QED
  BY <1>1, <1>2, <1>3

\* Before the threads are started nothing connects.
LEMMA InitAttempts == ASSUME Init PROVE AInv
<1>1. /\ connector.pc = "off" /\ connectTasks = <<>> /\ tasks = <<>> /\ connecting = {}
      /\ closer = "no" /\ \A c \in Conns : conns[c] = NewConn
  BY DEF Init
<1>2. \A c \in Conns : conns[c].at = "unused"
  <2>1. NewConn.at = "unused"
    BY DEF NewConn
  <2> QED
    BY <1>1, <2>1
<1>3. \A S : Positions(<<>>, S) = {}
  BY DEF Positions
<1>4. ASSUME NEW e \in Endpoints PROVE Lane(e)
  <2>1. Waiting(e) = {} /\ Reported(e) = {} /\ Accepting(e) = {} /\ ~Dialing(e)
    BY <1>1, <1>2, <1>3 DEF Waiting, Reported, Accepting, Pooled, Dialing
  <2> QED
    BY <1>1, <2>1 DEF Lane, AtMostOne
<1> QED
  BY <1>1, <1>4 DEF AInv, ConnectorAlive, OneLane

\* Every step of every thread keeps the attempts in order.
LEMMA NextAttempts == ASSUME IInv, AInv, [Next]_vars PROVE AInv'
<1>1. Unrelated => AInv'
  BY UnrelatedKeepsAttempts DEF IInv
<1>2. ASSUME NEW q \in Requests, User(q) PROVE AInv'
  <2>1. CASE cancelOffReactor(q)
    BY <1>1, <2>1, AbortsUnrelated
  <2>2. CASE ~cancelOffReactor(q)
    BY <1>1, <1>2, <2>2, UsersUnrelated DEF User
  <2> QED
    BY <2>1, <2>2
<1>3. CASE Connector
  BY <1>3, TakesAttempts, ExitsAttempts, FailsAttempts, SucceedsAttempts
     DEF Connector, AttemptEnds
<1>4. CASE Submission
  BY <1>1, <1>4, DrainUnrelated, LoopsUnrelated, SubmitsUnrelated, ParkAttempts,
     EstablishedAttempts, FailedAttempts DEF Submission
<1>5. CASE Abort
  BY <1>1, <1>5, AbortsUnrelated DEF Abort
<1>6. CASE Poll
  BY <1>1, <1>6, LoopsUnrelated, SessionsUnrelated DEF Poll
<1>7. CASE Events
  <2>1. readClosed \/ onConnectionLost => rx.conn \in Conns
    BY DEF readClosed, onConnectionLost, IInv, Pool, RxShape
  <2>2. readClosed \/ onConnectionLost => Unrelated
    BY <2>1, SessionsUnrelated
  <2> QED
    BY <1>1, <1>7, <2>2, LoopsUnrelated, SubmitsUnrelated DEF Events
<1>8. CASE Dispatch
  BY <1>1, <1>8, UsersUnrelated DEF Dispatch
<1>9. CASE UNCHANGED vars
  <2>1. Unrelated
    BY <1>9, SameConnsBetterNone DEF vars, callVars, poolVars, threadVars, Unrelated, TasksPlain
  <2> QED
    BY <1>1, <2>1
<1>10. CASE startThreadsIfNeeded \/ closeOnReactor \/ reactorExits \/ Close
  BY <1>1, <1>10, StartAttempts, CloseAttempts, LoopsUnrelated
<1> QED
  BY <1>2, <1>3, <1>4, <1>5, <1>6, <1>7, <1>8, <1>9, <1>10 DEF Next

(***************************************************************************)
(* connectingEndpoints and canAcceptNewRequests keep the connector from    *)
(* dialing an endpoint twice: from enqueueConnectTask until its result is  *)
(* handled an endpoint has one attempt, and none while a connection to it  *)
(* accepts requests, whatever sessions fail, drain or are established      *)
(* meanwhile.                                                              *)
(***************************************************************************)
THEOREM OneAttemptAtATime == Spec => []OneAttempt
<1>1. IInv /\ AInv => OneAttempt
  <2> SUFFICES ASSUME AInv, connector.pc # "exited", NEW e \in Endpoints
               PROVE  /\ Attempts(e) = IF e \in connecting THEN 1 ELSE 0
                      /\ Cardinality(Accepting(e)) + Attempts(e) <= 1
    BY DEF OneAttempt
  <2> DEFINE a == Cardinality(Waiting(e))
             b == IF Dialing(e) THEN 1 ELSE 0
             d == Cardinality(Reported(e))
             n == Cardinality(Accepting(e))
  <2>1. Attempts(e) = a + b + d
    <3>1. Waiting(e) = {i \in DOMAIN connectTasks : connectTasks[i] = e}
      BY DEF Waiting, Positions
    <3>2. Reported(e) = {i \in DOMAIN tasks :
                            \/ tasks[i] = [kind |-> "failed", ep |-> e]
                            \/ \E c \in Conns : /\ tasks[i] = [kind |-> "established", conn |-> c]
                                                /\ conns[c].ep = e}
      BY TasksTyped DEF Reported, Positions, ResultsOf
    <3> QED
      BY <3>1, <3>2 DEF Attempts, Dialing
  <2>2. ASSUME NEW S, AtMostOne(S) PROVE Cardinality(S) = IF S = {} THEN 0 ELSE 1
    <3>1. CASE S = {}
      BY <3>1, FS_EmptySet
    <3>2. CASE S # {}
      <4>1. PICK x : x \in S
        BY <3>2
      <4>2. S = {x}
        BY <2>2, <4>1 DEF AtMostOne
      <4> QED
        BY <4>2, FS_Singleton
    <3> QED
      BY <3>1, <3>2
  <2>3. Lane(e)
    BY DEF AInv, OneLane
  <2>4. /\ a = IF Waiting(e) = {} THEN 0 ELSE 1
        /\ d = IF Reported(e) = {} THEN 0 ELSE 1
        /\ n = IF Accepting(e) = {} THEN 0 ELSE 1
    BY <2>2, <2>3 DEF Lane
  <2> HIDE DEF a, d, n
  <2>5. a + b + d = IF e \in connecting THEN 1 ELSE 0
    BY <2>3, <2>4 DEF Lane
  <2>6. n + (a + b + d) <= 1
    BY <2>3, <2>4, <2>5 DEF Lane
  <2> QED
    BY <2>1, <2>5, <2>6 DEF n
<1>2. Init => AInv
  BY InitAttempts
<1>3. IInv /\ AInv /\ [Next]_vars => AInv'
  BY NextAttempts
<1> QED
  BY <1>1, <1>2, <1>3, ManagerInvariant, PTL DEF Spec
=============================================================================
