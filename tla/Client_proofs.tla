----------------------------- MODULE Client_proofs -----------------------------
(***************************************************************************)
(* The threads of a Client, for every set of requests. The reactor's queue *)
(* and the dispatcher implement TaskRunner, each by itself and when they   *)
(* call each other, and no callback runs on the reactor thread or runs     *)
(* twice.                                                                  *)
(***************************************************************************)
EXTENDS Client, DataLemmas

\* An empty queue has no elements.
LEMMA EmptyQueue == Elements(<<>>) = {} /\ NoDuplicates(<<>>)
BY DEF Elements, NoDuplicates
-----------------------------------------------------------------------------
(***************************************************************************)
(* The reactor's queue                                                     *)
(***************************************************************************)
\* A task that was taken is in exactly one place: queued, popped or run.
ReactorOnePlace ==
    /\ R!Accepted = Elements(rTasks) \cup rCurrent \cup rRan
    /\ Elements(rTasks) \cap rCurrent = {} /\ Elements(rTasks) \cap rRan = {}
    /\ rCurrent \cap rRan = {}
    /\ NoDuplicates(rTasks)

\* The worker holds at most one task, and only while it drains the queue; it
\* leaves the loop only when post() takes no more, and ends with the queue
\* empty.
ReactorWorkerOK ==
    /\ rCurrent = {} \/ \E t \in Requests : rCurrent = {t}
    /\ rWorker \notin {"drain", "last drain"} => rCurrent = {}
    /\ rWorker \in {"last drain", "exited"} => rRunning = FALSE
    /\ rWorker = "exited" => rTasks = <<>>
    /\ rRunning = TRUE \/ rStopper # "no" => rWorker # "new"
    /\ rStopper = "done" => rWorker = "exited"

ReactorInv == R!TypeOK /\ ReactorOnePlace /\ ReactorWorkerOK

\* A reactor that was not started holds nothing.
LEMMA ReactorInitEstablishes == R!Init => ReactorInv
<1> SUFFICES ASSUME R!Init PROVE ReactorInv
  OBVIOUS
<1>0. <<>> \in Seq(Requests)
  OBVIOUS
<1>1. R!TypeOK
  BY <1>0 DEF R!Init, R!TypeOK
<1>2. R!Accepted = {}
  BY DEF R!Init, R!Accepted
<1> QED
  BY <1>1, <1>2, EmptyQueue DEF R!Init, ReactorInv, ReactorOnePlace, ReactorWorkerOK

\* Every critical section keeps the invariant and is a step of TaskRunner, or
\* one that TaskRunner does not see.
LEMMA ReactorImplements ==
    ReactorInv /\ [R!Next]_(R!vars) => ReactorInv' /\ [R!Abstract!Next]_(R!Abstract!vars)
<1> SUFFICES ASSUME ReactorInv, [R!Next]_(R!vars)
             PROVE  ReactorInv' /\ [R!Abstract!Next]_(R!Abstract!vars)
  OBVIOUS
<1> USE DEF ReactorInv
<1>1. CASE R!start
  <2>1. R!Accepted' = R!Accepted
    BY <1>1 DEF R!start, R!Accepted
  <2>2. ReactorInv'
    BY <1>1, <2>1 DEF R!start, R!TypeOK, ReactorOnePlace, ReactorWorkerOK
  <2>3. UNCHANGED R!Abstract!vars
    BY <1>1, <2>1 DEF R!start, R!Abstract!vars
  <2> QED
    BY <2>2, <2>3
<1>2. ASSUME NEW t \in Requests, R!post(t) PROVE ReactorInv' /\ [R!Abstract!Next]_(R!Abstract!vars)
  <2>1. /\ rPoster[t] = "new" /\ rPoster \in [Requests -> {"new", "refused", "pushed", "accepted"}]
        /\ UNCHANGED <<rRunning, wakeFd, rWorker, rCurrent, rRan, rStopper>>
    BY <1>2 DEF R!post, R!TypeOK
  <2>2. t \notin R!Accepted
    BY <2>1 DEF R!Accepted
  <2>3. CASE rRunning
    <3>1. /\ rTasks' = Append(rTasks, t) /\ rPoster' = [rPoster EXCEPT ![t] = "pushed"]
      BY <1>2, <2>3 DEF R!post
    <3>2. R!Accepted' = R!Accepted \cup {t}
      BY <2>1, <3>1 DEF R!Accepted
    <3>3. /\ rTasks' \in Seq(Requests) /\ Elements(rTasks') = Elements(rTasks) \cup {t}
          /\ NoDuplicates(rTasks')
      <4>1. rTasks \in Seq(Requests) /\ NoDuplicates(rTasks) /\ t \notin Elements(rTasks)
        BY <2>2 DEF R!TypeOK, ReactorOnePlace
      <4> QED
        BY <4>1, <3>1, PushedElements
    <3>4. R!TypeOK'
      BY <2>1, <3>1, <3>3 DEF R!TypeOK
    <3>5. ReactorOnePlace'
      BY <2>1, <2>2, <3>2, <3>3 DEF ReactorOnePlace
    <3>6. rStopper # "done" /\ rWorker # "exited"
      BY <2>3 DEF ReactorWorkerOK
    <3>7. ReactorWorkerOK'
      BY <2>1, <3>6 DEF ReactorWorkerOK
    <3>8. R!Abstract!Accept(t)
      BY <2>1, <2>2, <3>2, <3>6 DEF R!Abstract!Accept
    <3> QED
      BY <3>4, <3>5, <3>7, <3>8 DEF R!Abstract!Next
  <2>4. CASE ~rRunning
    <3>1. rTasks' = rTasks /\ rPoster' = [rPoster EXCEPT ![t] = "refused"]
      BY <1>2, <2>4 DEF R!post
    <3>2. R!Accepted' = R!Accepted
      BY <2>1, <3>1 DEF R!Accepted
    <3>3. ReactorInv'
      BY <2>1, <3>1, <3>2 DEF R!TypeOK, ReactorOnePlace, ReactorWorkerOK
    <3>4. UNCHANGED R!Abstract!vars
      BY <2>1, <3>2 DEF R!Abstract!vars
    <3> QED
      BY <3>3, <3>4
  <2> QED
    BY <2>3, <2>4
<1>3. ASSUME NEW t \in Requests, R!postWakes(t) PROVE ReactorInv' /\ [R!Abstract!Next]_(R!Abstract!vars)
  <2>1. R!Accepted' = R!Accepted
    BY <1>3 DEF R!postWakes, R!wakeup, R!Accepted, R!TypeOK
  <2>2. ReactorInv'
    BY <1>3, <2>1 DEF R!postWakes, R!wakeup, R!TypeOK, ReactorOnePlace, ReactorWorkerOK
  <2>3. UNCHANGED R!Abstract!vars
    BY <1>3, <2>1 DEF R!postWakes, R!wakeup, R!Abstract!vars
  <2> QED
    BY <2>2, <2>3
<1>4. CASE R!loop
  <2>1. R!Accepted' = R!Accepted
    BY <1>4 DEF R!loop, R!Accepted, R!TypeOK
  <2>2. ReactorInv'
    BY <1>4, <2>1 DEF R!loop, R!TypeOK, ReactorOnePlace, ReactorWorkerOK
  <2>3. UNCHANGED R!Abstract!vars
    BY <1>4, <2>1 DEF R!loop, R!Abstract!vars
  <2> QED
    BY <2>2, <2>3
<1>5. CASE R!pollWakes
  <2>1. R!Accepted' = R!Accepted
    BY <1>5 DEF R!pollWakes, R!Accepted, R!TypeOK
  <2>2. ReactorInv'
    BY <1>5, <2>1 DEF R!pollWakes, R!TypeOK, ReactorOnePlace, ReactorWorkerOK
  <2>3. UNCHANGED R!Abstract!vars
    BY <1>5, <2>1 DEF R!pollWakes, R!Abstract!vars
  <2> QED
    BY <2>2, <2>3
<1>6. CASE R!pollFires
  <2>1. R!Accepted' = R!Accepted
    BY <1>6 DEF R!pollFires, R!Accepted, R!TypeOK
  <2>2. ReactorInv'
    BY <1>6, <2>1 DEF R!pollFires, R!TypeOK, ReactorOnePlace, ReactorWorkerOK
  <2>3. UNCHANGED R!Abstract!vars
    BY <1>6, <2>1 DEF R!pollFires, R!Abstract!vars
  <2> QED
    BY <2>2, <2>3
<1>7. CASE R!drainPostedTasks
  <2>1. /\ rWorker \in {"drain", "last drain"} /\ rCurrent = {}
        /\ UNCHANGED <<rRunning, wakeFd, rPoster, rRan, rStopper>>
    BY <1>7 DEF R!drainPostedTasks
  <2>2. R!Accepted' = R!Accepted
    BY <2>1 DEF R!Accepted
  <2>3. UNCHANGED R!Abstract!vars
    BY <2>1, <2>2 DEF R!Abstract!vars
  <2>4. CASE rTasks # <<>>
    <3>1. rCurrent' = {Head(rTasks)} /\ rTasks' = Tail(rTasks) /\ rWorker' = rWorker
      BY <1>7, <2>4 DEF R!drainPostedTasks
    <3>2. /\ Tail(rTasks) \in Seq(Requests) /\ Head(rTasks) \in Requests
          /\ Elements(rTasks) = Elements(Tail(rTasks)) \cup {Head(rTasks)}
          /\ Head(rTasks) \notin Elements(Tail(rTasks))
          /\ NoDuplicates(Tail(rTasks))
      BY <2>4, PoppedElements DEF R!TypeOK, ReactorOnePlace
    <3>3. R!TypeOK'
      BY <2>1, <3>1, <3>2 DEF R!TypeOK
    <3>4. ReactorOnePlace'
      BY <2>1, <2>2, <3>1, <3>2 DEF ReactorOnePlace
    <3>5. ReactorWorkerOK'
      BY <2>1, <3>1, <3>2 DEF ReactorWorkerOK
    <3> QED
      BY <2>3, <3>3, <3>4, <3>5
  <2>5. CASE rTasks = <<>>
    <3>1. /\ rWorker' = IF rWorker = "drain" THEN "loop" ELSE "exited"
          /\ UNCHANGED <<rCurrent, rTasks>>
      BY <1>7, <2>5 DEF R!drainPostedTasks
    <3>2. R!TypeOK' /\ ReactorOnePlace'
      BY <2>1, <2>2, <3>1 DEF R!TypeOK, ReactorOnePlace
    <3>3. ReactorWorkerOK'
      BY <2>1, <2>5, <3>1 DEF ReactorWorkerOK
    <3> QED
      BY <2>3, <3>2, <3>3
  <2> QED
    BY <2>4, <2>5
<1>8. CASE R!run
  <2>1. PICK t \in Requests : rCurrent = {t}
    BY <1>8 DEF R!run, ReactorWorkerOK
  <2>2. /\ rRan' = rRan \cup {t} /\ rCurrent' = {}
        /\ UNCHANGED <<rRunning, rTasks, wakeFd, rPoster, rWorker, rStopper>>
    BY <1>8, <2>1 DEF R!run
  <2>3. R!Accepted' = R!Accepted
    BY <2>2 DEF R!Accepted
  <2>4. ReactorInv'
    BY <2>1, <2>2, <2>3 DEF R!TypeOK, ReactorOnePlace, ReactorWorkerOK
  <2>5. R!Abstract!Run(t)
    BY <2>1, <2>2, <2>3 DEF ReactorOnePlace, ReactorWorkerOK, R!Abstract!Run
  <2> QED
    BY <2>4, <2>5 DEF R!Abstract!Next
<1>9. CASE R!stopRunning
  <2>1. R!Accepted' = R!Accepted
    BY <1>9 DEF R!stopRunning, R!StopStep, R!Accepted, R!TypeOK
  <2>2. ReactorInv'
    BY <1>9, <2>1 DEF R!stopRunning, R!StopStep, R!TypeOK, ReactorOnePlace, ReactorWorkerOK
  <2>3. UNCHANGED R!Abstract!vars
    BY <1>9, <2>1 DEF R!stopRunning, R!StopStep, R!Abstract!vars
  <2> QED
    BY <2>2, <2>3
<1>10. CASE R!stopWakes
  <2>1. R!Accepted' = R!Accepted
    BY <1>10 DEF R!stopWakes, R!StopStep, R!wakeup, R!Accepted, R!TypeOK
  <2>2. ReactorInv'
    BY <1>10, <2>1 DEF R!stopWakes, R!StopStep, R!wakeup, R!TypeOK, ReactorOnePlace, ReactorWorkerOK
  <2>3. UNCHANGED R!Abstract!vars
    BY <1>10, <2>1 DEF R!stopWakes, R!StopStep, R!wakeup, R!Abstract!vars
  <2> QED
    BY <2>2, <2>3
<1>11. CASE R!joined
  <2>1. /\ rWorker = "exited" /\ rStopper = "joining" /\ rStopper' = "done"
        /\ rTasks' = <<>>
        /\ UNCHANGED <<rRunning, wakeFd, rPoster, rWorker, rCurrent, rRan>>
    BY <1>11 DEF R!joined, R!StopStep
  <2>2. rTasks = <<>> /\ rCurrent = {}
    BY <2>1 DEF ReactorWorkerOK
  <2>3. R!Accepted' = R!Accepted /\ R!Accepted = rRan
    BY <2>1, <2>2, EmptyQueue DEF R!Accepted, ReactorOnePlace
  <2>4. ReactorInv'
    BY <2>1, <2>2, <2>3, EmptyQueue DEF R!TypeOK, ReactorOnePlace, ReactorWorkerOK
  <2>5. R!Abstract!Stop
    BY <2>1, <2>3 DEF R!Abstract!Stop
  <2> QED
    BY <2>4, <2>5 DEF R!Abstract!Next
<1>12. CASE UNCHANGED R!vars
  <2>1. R!Accepted' = R!Accepted
    BY <1>12 DEF R!vars, R!Accepted, R!TypeOK
  <2>2. ReactorInv'
    BY <1>12, <2>1 DEF R!vars, R!TypeOK, ReactorOnePlace, ReactorWorkerOK
  <2>3. UNCHANGED R!Abstract!vars
    BY <1>12, <2>1 DEF R!vars, R!Abstract!vars
  <2> QED
    BY <2>2, <2>3
<1> QED
  BY <1>1, <1>2, <1>3, <1>4, <1>5, <1>6, <1>7, <1>8, <1>9, <1>10, <1>11, <1>12 DEF R!Next

\* Reactor implements TaskRunner: a task that post() has taken is run, once,
\* before stop() returns, although stop() and the loop use `running` without
\* the mutex.
THEOREM ReactorKeepsPromise == R!Spec => R!KeepsPromise
<1>1. R!Init => R!Abstract!Init
  BY DEF R!Init, R!Abstract!Init, R!Accepted
<1>2. R!Init => ReactorInv
  BY ReactorInitEstablishes
<1>3. ReactorInv /\ [R!Next]_(R!vars) => ReactorInv' /\ [R!Abstract!Next]_(R!Abstract!vars)
  BY ReactorImplements
<1> QED
  BY <1>1, <1>2, <1>3, PTL DEF R!Spec, R!KeepsPromise, R!Abstract!Spec
-----------------------------------------------------------------------------
(***************************************************************************)
(* The dispatcher                                                          *)
(***************************************************************************)
\* A task that was taken is in exactly one place: queued, popped or run.
DispatcherOnePlace ==
    /\ D!Accepted = Elements(dTasks) \cup dCurrent \cup dRan
    /\ Elements(dTasks) \cap dCurrent = {} /\ Elements(dTasks) \cap dRan = {}
    /\ dCurrent \cap dRan = {}
    /\ NoDuplicates(dTasks)

\* The worker holds a task exactly while it runs one, and has left its loop
\* only with the queue empty and the door shut.
DispatcherWorkerOK ==
    /\ IF dWorker = "running" THEN \E t \in Requests : dCurrent = {t} ELSE dCurrent = {}
    /\ dWorker = "exited" => dTasks = <<>> /\ stopRequested = TRUE
    /\ dRunning = TRUE \/ dStopper # "no" => dWorker # "new"
    /\ dStopper = "done" => dWorker = "exited" /\ dRunning = FALSE

DispatcherInv == D!TypeOK /\ DispatcherOnePlace /\ DispatcherWorkerOK

\* A dispatcher that was not started holds nothing.
LEMMA DispatcherInitEstablishes == D!Init => DispatcherInv
<1> SUFFICES ASSUME D!Init PROVE DispatcherInv
  OBVIOUS
<1>0. <<>> \in Seq(Requests)
  OBVIOUS
<1>1. D!TypeOK
  BY <1>0 DEF D!Init, D!TypeOK
<1>2. D!Accepted = {}
  BY DEF D!Init, D!Accepted
<1> QED
  BY <1>1, <1>2, EmptyQueue DEF D!Init, DispatcherInv, DispatcherOnePlace, DispatcherWorkerOK

\* Every critical section keeps the invariant and is a step of TaskRunner, or
\* one that TaskRunner does not see.
LEMMA DispatcherImplements ==
    DispatcherInv /\ [D!Next]_(D!vars) => DispatcherInv' /\ [D!Abstract!Next]_(D!Abstract!vars)
<1> SUFFICES ASSUME DispatcherInv, [D!Next]_(D!vars)
             PROVE  DispatcherInv' /\ [D!Abstract!Next]_(D!Abstract!vars)
  OBVIOUS
<1> USE DEF DispatcherInv
<1>1. CASE D!start
  <2>1. D!Accepted' = D!Accepted
    BY <1>1 DEF D!start, D!Accepted
  <2>2. DispatcherInv'
    BY <1>1, <2>1 DEF D!start, D!TypeOK, DispatcherOnePlace, DispatcherWorkerOK
  <2>3. UNCHANGED D!Abstract!vars
    BY <1>1, <2>1 DEF D!start, D!Abstract!vars
  <2> QED
    BY <2>2, <2>3
<1>2. ASSUME NEW t \in Requests, D!post(t) PROVE DispatcherInv' /\ [D!Abstract!Next]_(D!Abstract!vars)
  <2>1. /\ dPoster[t] = "new" /\ dPoster \in [Requests -> {"new", "refused", "pushed", "accepted"}]
        /\ UNCHANGED <<dRunning, stopRequested, dWorker, dCurrent, dRan, dStopper>>
    BY <1>2 DEF D!post, D!TypeOK
  <2>2. t \notin D!Accepted
    BY <2>1 DEF D!Accepted
  <2>3. CASE dRunning /\ ~stopRequested
    <3>1. /\ dTasks' = Append(dTasks, t) /\ dPoster' = [dPoster EXCEPT ![t] = "pushed"]
      BY <1>2, <2>3 DEF D!post
    <3>2. D!Accepted' = D!Accepted \cup {t}
      BY <2>1, <3>1 DEF D!Accepted
    <3>3. /\ dTasks' \in Seq(Requests) /\ Elements(dTasks') = Elements(dTasks) \cup {t}
          /\ NoDuplicates(dTasks')
      <4>1. dTasks \in Seq(Requests) /\ NoDuplicates(dTasks) /\ t \notin Elements(dTasks)
        BY <2>2 DEF D!TypeOK, DispatcherOnePlace
      <4> QED
        BY <4>1, <3>1, PushedElements
    <3>4. D!TypeOK'
      BY <2>1, <3>1, <3>3 DEF D!TypeOK
    <3>5. DispatcherOnePlace'
      BY <2>1, <2>2, <3>2, <3>3 DEF DispatcherOnePlace
    <3>6. dStopper # "done" /\ dWorker # "exited"
      BY <2>3 DEF DispatcherWorkerOK
    <3>7. DispatcherWorkerOK'
      BY <2>1, <3>6 DEF DispatcherWorkerOK
    <3>8. D!Abstract!Accept(t)
      BY <2>1, <2>2, <3>2, <3>6 DEF D!Abstract!Accept
    <3> QED
      BY <3>4, <3>5, <3>7, <3>8 DEF D!Abstract!Next
  <2>4. CASE ~(dRunning /\ ~stopRequested)
    <3>1. dTasks' = dTasks /\ dPoster' = [dPoster EXCEPT ![t] = "refused"]
      BY <1>2, <2>4 DEF D!post
    <3>2. D!Accepted' = D!Accepted
      BY <2>1, <3>1 DEF D!Accepted
    <3>3. DispatcherInv'
      BY <2>1, <3>1, <3>2 DEF D!TypeOK, DispatcherOnePlace, DispatcherWorkerOK
    <3>4. UNCHANGED D!Abstract!vars
      BY <2>1, <3>2 DEF D!Abstract!vars
    <3> QED
      BY <3>3, <3>4
  <2> QED
    BY <2>3, <2>4
<1>3. ASSUME NEW t \in Requests, D!notifyOne(t) PROVE DispatcherInv' /\ [D!Abstract!Next]_(D!Abstract!vars)
  <2>1. D!Accepted' = D!Accepted
    BY <1>3 DEF D!notifyOne, D!Accepted, D!TypeOK
  <2>2. DispatcherInv'
    BY <1>3, <2>1 DEF D!notifyOne, D!Notify, D!TypeOK, DispatcherOnePlace, DispatcherWorkerOK
  <2>3. UNCHANGED D!Abstract!vars
    BY <1>3, <2>1 DEF D!notifyOne, D!Abstract!vars
  <2> QED
    BY <2>2, <2>3
<1>4. CASE D!check
  <2>1. /\ dWorker = "check" /\ dCurrent = {}
        /\ UNCHANGED <<dRunning, stopRequested, dPoster, dRan, dStopper>>
    BY <1>4 DEF D!check, DispatcherWorkerOK
  <2>2. D!Accepted' = D!Accepted
    BY <2>1 DEF D!Accepted
  <2>3. UNCHANGED D!Abstract!vars
    BY <2>1, <2>2 DEF D!Abstract!vars
  <2>4. CASE dTasks # <<>>
    <3>1. dWorker' = "running" /\ dCurrent' = {Head(dTasks)} /\ dTasks' = Tail(dTasks)
      BY <1>4, <2>4 DEF D!check
    <3>2. /\ Tail(dTasks) \in Seq(Requests) /\ Head(dTasks) \in Requests
          /\ Elements(dTasks) = Elements(Tail(dTasks)) \cup {Head(dTasks)}
          /\ Head(dTasks) \notin Elements(Tail(dTasks))
          /\ NoDuplicates(Tail(dTasks))
      BY <2>4, PoppedElements DEF D!TypeOK, DispatcherOnePlace
    <3>3. D!TypeOK'
      BY <2>1, <3>1, <3>2 DEF D!TypeOK
    <3>4. DispatcherOnePlace'
      BY <2>1, <2>2, <3>1, <3>2 DEF DispatcherOnePlace
    <3>5. DispatcherWorkerOK'
      BY <2>1, <3>1, <3>2 DEF DispatcherWorkerOK
    <3> QED
      BY <2>3, <3>3, <3>4, <3>5
  <2>5. CASE dTasks = <<>>
    <3>1. /\ dWorker' = IF stopRequested THEN "exited" ELSE "asleep"
          /\ UNCHANGED <<dCurrent, dTasks>>
      BY <1>4, <2>5 DEF D!check
    <3>2. D!TypeOK' /\ DispatcherOnePlace'
      BY <2>1, <2>2, <3>1 DEF D!TypeOK, DispatcherOnePlace
    <3>3. DispatcherWorkerOK'
      BY <2>1, <2>5, <3>1 DEF DispatcherWorkerOK, D!TypeOK
    <3> QED
      BY <2>3, <3>2, <3>3
  <2> QED
    BY <2>4, <2>5
<1>5. CASE D!run
  <2>1. PICK t \in Requests : dCurrent = {t}
    BY <1>5 DEF D!run, DispatcherWorkerOK
  <2>2. /\ dWorker = "running" /\ dWorker' = "check" /\ dRan' = dRan \cup {t} /\ dCurrent' = {}
        /\ UNCHANGED <<dRunning, stopRequested, dTasks, dPoster, dStopper>>
    BY <1>5, <2>1 DEF D!run
  <2>3. D!Accepted' = D!Accepted
    BY <2>2 DEF D!Accepted
  <2>4. DispatcherInv'
    BY <2>1, <2>2, <2>3 DEF D!TypeOK, DispatcherOnePlace, DispatcherWorkerOK
  <2>5. D!Abstract!Run(t)
    BY <2>1, <2>2, <2>3 DEF DispatcherOnePlace, DispatcherWorkerOK, D!Abstract!Run
  <2> QED
    BY <2>4, <2>5 DEF D!Abstract!Next
<1>6. CASE D!requestStop
  <2>1. D!Accepted' = D!Accepted
    BY <1>6 DEF D!requestStop, D!StopStep, D!Accepted
  <2>2. DispatcherInv'
    BY <1>6, <2>1 DEF D!requestStop, D!StopStep, D!TypeOK, DispatcherOnePlace, DispatcherWorkerOK
  <2>3. UNCHANGED D!Abstract!vars
    BY <1>6, <2>1 DEF D!requestStop, D!StopStep, D!Abstract!vars
  <2> QED
    BY <2>2, <2>3
<1>7. CASE D!notifyAll
  <2>1. D!Accepted' = D!Accepted
    BY <1>7 DEF D!notifyAll, D!StopStep, D!Accepted
  <2>2. DispatcherInv'
    BY <1>7, <2>1 DEF D!notifyAll, D!StopStep, D!Notify, D!TypeOK, DispatcherOnePlace, DispatcherWorkerOK
  <2>3. UNCHANGED D!Abstract!vars
    BY <1>7, <2>1 DEF D!notifyAll, D!StopStep, D!Abstract!vars
  <2> QED
    BY <2>2, <2>3
<1>8. CASE D!joined
  <2>1. /\ dWorker = "exited" /\ dStopper = "joining" /\ dStopper' = "done"
        /\ dRunning' = FALSE /\ dTasks' = <<>>
        /\ UNCHANGED <<stopRequested, dPoster, dWorker, dCurrent, dRan>>
    BY <1>8 DEF D!joined, D!StopStep
  <2>2. dTasks = <<>> /\ dCurrent = {}
    BY <2>1 DEF DispatcherWorkerOK
  <2>3. D!Accepted' = D!Accepted /\ D!Accepted = dRan
    BY <2>1, <2>2, EmptyQueue DEF D!Accepted, DispatcherOnePlace
  <2>4. DispatcherInv'
    BY <2>1, <2>2, <2>3, EmptyQueue DEF D!TypeOK, DispatcherOnePlace, DispatcherWorkerOK
  <2>5. D!Abstract!Stop
    BY <2>1, <2>3 DEF D!Abstract!Stop
  <2> QED
    BY <2>4, <2>5 DEF D!Abstract!Next
<1>9. CASE UNCHANGED D!vars
  <2>1. D!Accepted' = D!Accepted
    BY <1>9 DEF D!vars, D!Accepted
  <2>2. DispatcherInv'
    BY <1>9, <2>1 DEF D!vars, D!TypeOK, DispatcherOnePlace, DispatcherWorkerOK
  <2>3. UNCHANGED D!Abstract!vars
    BY <1>9, <2>1 DEF D!vars, D!Abstract!vars
  <2> QED
    BY <2>2, <2>3
<1> QED
  BY <1>1, <1>2, <1>3, <1>4, <1>5, <1>6, <1>7, <1>8, <1>9 DEF D!Next

\* CallbackDispatcher implements TaskRunner: a callback that post() has taken
\* is run, once, before stop() returns, whatever the threads do.
THEOREM DispatcherKeepsPromise == D!Spec => D!KeepsPromise
<1>1. D!Init => D!Abstract!Init
  BY DEF D!Init, D!Abstract!Init, D!Accepted
<1>2. D!Init => DispatcherInv
  BY DispatcherInitEstablishes
<1>3. DispatcherInv /\ [D!Next]_(D!vars) => DispatcherInv' /\ [D!Abstract!Next]_(D!Abstract!vars)
  BY DispatcherImplements
<1> QED
  BY <1>1, <1>2, <1>3, PTL DEF D!Spec, D!KeepsPromise, D!Abstract!Spec
-----------------------------------------------------------------------------
(***************************************************************************)
(* A client: the users' threads, the reactor and the dispatcher            *)
(***************************************************************************)
\* The dispatcher is started before the reactor and stopped after it: while the
\* reactor thread lives, the dispatcher takes callbacks.
StopOrder ==
    /\ rWorker # "new" => dWorker # "new"
    /\ dStopper # "no" => rStopper = "done"
    /\ dWorker # "new" /\ dStopper = "no" => dRunning = TRUE /\ stopRequested = FALSE

\* Only a request that was registered ends, and only one that has ended is
\* handed to the dispatcher.  The reactor thread posts the callbacks of the
\* requests it has ended before it does anything else, and is not refused.
Ended ==
    /\ registered \subseteq Requests \ Invalid
    /\ finisher \in [Requests -> {"nobody", "user", "reactor", "closer"}]
    /\ \A q \in Requests :
          /\ finisher[q] # "nobody" => q \in registered
          /\ dPoster[q] # "new" => finisher[q] # "nobody"
          /\ finisher[q] = "reactor" => dPoster[q] # "refused"
          /\ finisher[q] = "reactor" /\ dPoster[q] = "new" => rWorker \in {"drain", "last drain"}

IInv == ReactorInv /\ DispatcherInv /\ StopOrder /\ Ended

\* A callback runs on the dispatcher thread or where the request was completed,
\* not both, and only after a thread has won tryFinish; the callback of a
\* request that is not valid is left to Send.
CalledOnce ==
    /\ dRan \cap Inline = {}
    /\ Answered \cap Invalid = {}
    /\ \A q \in Answered : finisher[q] # "nobody"
-----------------------------------------------------------------------------
\* What a step of one thread does to the other one: nothing.
LEMMA StepsOfThreads ==
    ClientNext => /\ R!Next \/ UNCHANGED reactorVars
                  /\ D!Next \/ UNCHANGED dispatcherVars
<1> SUFFICES ASSUME ClientNext
             PROVE  /\ R!Next \/ UNCHANGED reactorVars
                    /\ D!Next \/ UNCHANGED dispatcherVars
  OBVIOUS
<1>1. ASSUME NEW q \in Requests, SendInvalid(q) \/ SendReturns(q)
      PROVE  UNCHANGED reactorVars /\ UNCHANGED dispatcherVars
  BY <1>1 DEF SendInvalid, SendReturns, vars
<1>2. ASSUME NEW q \in Requests, SendAsync(q) \/ callbackReturns(q)
      PROVE  UNCHANGED reactorVars /\ UNCHANGED dispatcherVars
  BY <1>2 DEF SendAsync, register, callbackReturns, nextContext
<1>3. ASSUME NEW q \in Requests, answer(q) \/ failRequest(q) \/ failContext(q)
      PROVE  UNCHANGED reactorVars /\ UNCHANGED dispatcherVars
  BY <1>3 DEF answer, failRequest, failContext, tryFinish
<1>4. CASE failAllContexts \/ closed
  BY <1>4 DEF failAllContexts, closed
<1>5. ASSUME NEW q \in Requests, postToReactor(q) \/ wakeReactor(q)
      PROVE  R!Next /\ UNCHANGED dispatcherVars
  BY <1>5 DEF postToReactor, wakeReactor, ReactorStep, R!Next
<1>6. ASSUME startReactor \/ stopReactor \/ reactorLoop \/ reactorPolls \/ reactorJoined
      PROVE  R!Next /\ UNCHANGED dispatcherVars
  BY <1>6 DEF startReactor, stopReactor, reactorLoop, reactorPolls, reactorJoined,
     ReactorStep, R!Next
<1>7. ASSUME NEW q \in Requests, dispatch(q) \/ notifyDispatcher(q)
      PROVE  D!Next /\ UNCHANGED reactorVars
  BY <1>7 DEF dispatch, notifyDispatcher, DispatcherStep, D!Next
<1>8. ASSUME startDispatcher \/ stopDispatcher \/ dispatcherJoined \/ runDispatcher
      PROVE  D!Next /\ UNCHANGED reactorVars
  BY <1>8 DEF startDispatcher, stopDispatcher, dispatcherJoined, runDispatcher,
     dispatcherLoop, DispatcherStep, D!Next
<1> QED
  BY <1>1, <1>2, <1>3, <1>4, <1>5, <1>6, <1>7, <1>8
     DEF ClientNext, threadsGoOn, goesOn, closeGoesOn

\* The reactor's own invariant survives the steps of all the threads, each of
\* which is a step of TaskRunner or one it does not see.
LEMMA ReactorStays ==
    ReactorInv /\ [ClientNext]_clientVars
        => ReactorInv' /\ [R!Abstract!Next]_(R!Abstract!vars)
<1> SUFFICES ASSUME ReactorInv, [ClientNext]_clientVars
             PROVE  ReactorInv' /\ [R!Abstract!Next]_(R!Abstract!vars)
  OBVIOUS
<1>1. R!Next \/ UNCHANGED reactorVars
  BY StepsOfThreads DEF clientVars, vars
<1>2. [R!Next]_(R!vars)
  BY <1>1 DEF reactorVars, R!vars
<1> QED
  BY <1>2, ReactorImplements

\* So does the dispatcher's.
LEMMA DispatcherStays ==
    DispatcherInv /\ [ClientNext]_clientVars
        => DispatcherInv' /\ [D!Abstract!Next]_(D!Abstract!vars)
<1> SUFFICES ASSUME DispatcherInv, [ClientNext]_clientVars
             PROVE  DispatcherInv' /\ [D!Abstract!Next]_(D!Abstract!vars)
  OBVIOUS
<1>1. D!Next \/ UNCHANGED dispatcherVars
  BY StepsOfThreads DEF clientVars, vars
<1>2. [D!Next]_(D!vars)
  BY <1>1 DEF dispatcherVars, D!vars
<1> QED
  BY <1>2, DispatcherImplements

\* While the reactor thread lives, the dispatcher takes its callbacks.
LEMMA CallbackTaken ==
    ASSUME IInv, NEW q \in Requests, dispatch(q)
    PROVE  /\ finisher[q] # "nobody"
           /\ finisher[q] = "reactor" => dPoster'[q] = "pushed"
           /\ dPoster'[q] # "new"
           /\ \A p \in Requests \ {q} : dPoster'[p] = dPoster[p]
           /\ UNCHANGED <<reactorVars, registered, finisher>>
           /\ UNCHANGED <<dRunning, stopRequested, dWorker, dStopper>>
<1>1. /\ dPoster \in [Requests -> {"new", "refused", "pushed", "accepted"}]
      /\ finisher[q] # "nobody" /\ dPoster[q] = "new"
  BY DEF IInv, DispatcherInv, D!TypeOK, dispatch, DispatcherStep, D!post
<1>2. ASSUME finisher[q] = "reactor" PROVE dRunning = TRUE /\ stopRequested = FALSE
  <2>1. rWorker \in {"drain", "last drain"}
    BY <1>1, <1>2 DEF IInv, Ended
  <2>2. rStopper # "done" /\ rWorker # "new"
    BY <2>1 DEF IInv, ReactorInv, ReactorWorkerOK
  <2> QED
    BY <2>2 DEF IInv, StopOrder
<1> QED
  BY <1>1, <1>2 DEF dispatch, DispatcherStep, D!post

\* A step of neither thread keeps what it leaves alone.
LEMMA UntouchedKeeps ==
    ASSUME IInv, UNCHANGED <<reactorVars, dispatcherVars, registered, finisher>>
    PROVE  StopOrder' /\ Ended'
BY DEF IInv, reactorVars, dispatcherVars, StopOrder, Ended

\* Winning tryFinish, on the reactor thread only in a handler or a task
LEMMA FinishKeeps ==
    ASSUME IInv, NEW q \in Requests, NEW thread \in {"user", "reactor", "closer"},
           tryFinish(q, thread),
           thread = "reactor" => rWorker \in {"drain", "last drain"}
    PROVE  StopOrder' /\ Ended'
<1>1. /\ finisher \in [Requests -> {"nobody", "user", "reactor", "closer"}]
      /\ q \in registered /\ finisher[q] = "nobody" /\ dPoster[q] = "new"
  BY DEF IInv, Ended, tryFinish
<1>2. /\ finisher' \in [Requests -> {"nobody", "user", "reactor", "closer"}]
      /\ finisher'[q] = thread
      /\ \A p \in Requests \ {q} : finisher'[p] = finisher[p]
      /\ UNCHANGED <<reactorVars, dispatcherVars, registered>>
  BY <1>1 DEF tryFinish
<1>3. StopOrder'
  BY <1>2 DEF IInv, StopOrder, reactorVars, dispatcherVars
<1>4. Ended'
  BY <1>1, <1>2 DEF IInv, Ended, reactorVars, dispatcherVars
<1> QED
  BY <1>3, <1>4

\* The steps of the reactor, of its users and of its stop
LEMMA ReactorKeepsOrder ==
    ASSUME IInv,
           \/ startReactor \/ stopReactor \/ reactorLoop \/ reactorPolls \/ reactorJoined
           \/ \E q \in Requests : postToReactor(q) \/ wakeReactor(q)
    PROVE  StopOrder' /\ Ended'
<1>1. StopOrder /\ Ended /\ ReactorWorkerOK
  BY DEF IInv, ReactorInv
<1>2. UNCHANGED <<dispatcherVars, registered, finisher>>
  BY DEF startReactor, stopReactor, reactorLoop, reactorPolls, reactorJoined,
     postToReactor, wakeReactor, ReactorStep
<1>3. ASSUME UNCHANGED rWorker PROVE Ended'
  BY <1>1, <1>2, <1>3 DEF Ended, dispatcherVars
<1>4. ASSUME \A q \in Requests : finisher[q] = "reactor" => dPoster[q] # "new"
      PROVE  Ended'
  BY <1>1, <1>2, <1>4 DEF Ended, dispatcherVars
<1>5. CASE startReactor
  <2>1. rWorker = "new" /\ dWorker # "new" /\ UNCHANGED rStopper
    BY <1>5 DEF startReactor, ReactorStep, R!start
  <2>2. StopOrder'
    BY <1>1, <1>2, <2>1 DEF StopOrder, dispatcherVars
  <2> QED
    BY <1>1, <1>4, <2>1, <2>2 DEF Ended
<1>6. CASE stopReactor
  <2>1. UNCHANGED rWorker /\ rStopper = "no"
    BY <1>6 DEF stopReactor, ReactorStep, R!stopRunning, R!StopStep
  <2> QED
    BY <1>1, <1>2, <1>3, <2>1 DEF StopOrder, dispatcherVars
<1>7. CASE reactorLoop
  <2>1. UNCHANGED rStopper /\ rWorker # "new"
    BY <1>1, <1>7 DEF reactorLoop, ReactorStep, R!loop, R!pollWakes, R!drainPostedTasks, R!run,
       ReactorWorkerOK
  <2>2. \A q \in Requests : finisher[q] = "reactor" => dPoster[q] # "new"
    BY <1>7 DEF reactorLoop, Returned
  <2>3. StopOrder'
    BY <1>1, <1>2, <2>1 DEF StopOrder, dispatcherVars
  <2> QED
    BY <1>4, <2>2, <2>3
<1>8. CASE reactorPolls
  <2>1. rWorker = "poll" /\ UNCHANGED rStopper
    BY <1>8 DEF reactorPolls, ReactorStep, R!pollFires
  <2>2. StopOrder'
    BY <1>1, <1>2, <2>1 DEF StopOrder, dispatcherVars
  <2> QED
    BY <1>1, <1>4, <2>1, <2>2 DEF Ended
<1>9. CASE reactorJoined
  <2>1. UNCHANGED rWorker /\ rStopper # "done"
    BY <1>9 DEF reactorJoined, ReactorStep, R!stopWakes, R!joined, R!StopStep
  <2> QED
    BY <1>1, <1>2, <1>3, <2>1 DEF StopOrder, dispatcherVars
<1>10. ASSUME NEW q \in Requests, postToReactor(q) \/ wakeReactor(q)
       PROVE  StopOrder' /\ Ended'
  <2>1. UNCHANGED rWorker /\ UNCHANGED rStopper
    BY <1>10 DEF postToReactor, wakeReactor, ReactorStep, R!post, R!postWakes
  <2> QED
    BY <1>1, <1>2, <1>3, <2>1 DEF StopOrder, dispatcherVars
<1> QED
  BY <1>5, <1>6, <1>7, <1>8, <1>9, <1>10

\* The steps of the dispatcher, of its users and of its stop
LEMMA DispatcherKeepsOrder ==
    ASSUME IInv,
           \/ startDispatcher \/ stopDispatcher \/ dispatcherJoined \/ runDispatcher
           \/ \E q \in Requests : dispatch(q) \/ notifyDispatcher(q)
    PROVE  StopOrder' /\ Ended'
<1>1. /\ StopOrder /\ Ended /\ DispatcherWorkerOK
      /\ dPoster \in [Requests -> {"new", "refused", "pushed", "accepted"}]
  BY DEF IInv, DispatcherInv, D!TypeOK
<1>2. UNCHANGED <<reactorVars, registered, finisher>>
  BY DEF startDispatcher, stopDispatcher, dispatcherJoined, runDispatcher, dispatcherLoop,
     dispatch, notifyDispatcher, DispatcherStep
<1>3. ASSUME UNCHANGED dPoster PROVE Ended'
  BY <1>1, <1>2, <1>3 DEF Ended, reactorVars
<1>4. CASE startDispatcher
  <2>1. UNCHANGED dPoster /\ StopOrder'
    BY <1>1, <1>2, <1>4 DEF startDispatcher, DispatcherStep, D!start, DispatcherWorkerOK,
       StopOrder, reactorVars
  <2> QED
    BY <1>3, <2>1
<1>5. CASE stopDispatcher
  <2>1. UNCHANGED dPoster /\ StopOrder'
    BY <1>1, <1>2, <1>5 DEF stopDispatcher, DispatcherStep, D!requestStop, D!StopStep,
       StopOrder, reactorVars
  <2> QED
    BY <1>3, <2>1
<1>6. CASE dispatcherJoined
  <2>1. UNCHANGED dPoster /\ StopOrder'
    BY <1>1, <1>2, <1>6 DEF dispatcherJoined, DispatcherStep, D!notifyAll, D!joined, D!Notify,
       D!StopStep, StopOrder, reactorVars
  <2> QED
    BY <1>3, <2>1
<1>7. CASE runDispatcher
  <2>1. UNCHANGED dPoster /\ StopOrder'
    BY <1>1, <1>2, <1>7 DEF runDispatcher, dispatcherLoop, DispatcherStep, D!check, D!run,
       StopOrder, reactorVars
  <2> QED
    BY <1>3, <2>1
<1>8. ASSUME NEW q \in Requests, dispatch(q) PROVE StopOrder' /\ Ended'
  <2>1. StopOrder'
    BY <1>1, <1>8, CallbackTaken DEF StopOrder, reactorVars
  <2>2. Ended'
    BY <1>1, <1>8, CallbackTaken DEF Ended, reactorVars
  <2> QED
    BY <2>1, <2>2
<1>9. ASSUME NEW q \in Requests, notifyDispatcher(q) PROVE StopOrder' /\ Ended'
  <2>1. /\ dPoster[q] = "pushed" /\ dPoster'[q] = "accepted"
        /\ UNCHANGED <<dRunning, stopRequested, dStopper>>
        /\ dWorker' = "new" <=> dWorker = "new"
        /\ \A p \in Requests \ {q} : dPoster'[p] = dPoster[p]
    BY <1>1, <1>9 DEF notifyDispatcher, DispatcherStep, D!notifyOne, D!Notify
  <2>2. StopOrder'
    BY <1>1, <1>2, <2>1 DEF StopOrder, reactorVars
  <2>3. Ended'
    BY <1>1, <1>2, <2>1 DEF Ended, reactorVars
  <2> QED
    BY <2>2, <2>3
<1> QED
  BY <1>4, <1>5, <1>6, <1>7, <1>8, <1>9

\* Every step keeps the order of starting and stopping, and that of a request's
\* end.
LEMMA StepKeeps ==
    ASSUME IInv, ClientNext PROVE StopOrder' /\ Ended'
<1>1. ASSUME NEW q \in Requests, SendInvalid(q) \/ SendReturns(q) \/ callbackReturns(q)
      PROVE  StopOrder' /\ Ended'
  BY <1>1, UntouchedKeeps DEF SendInvalid, SendReturns, callbackReturns, nextContext, vars
<1>2. ASSUME NEW q \in Requests, SendAsync(q) PROVE StopOrder' /\ Ended'
  BY <1>2 DEF SendAsync, register, IInv, StopOrder, Ended, reactorVars, dispatcherVars
<1>3. CASE failAllContexts \/ closed
  BY <1>3, UntouchedKeeps DEF failAllContexts, closed
<1>4. ASSUME NEW q \in Requests, answer(q) PROVE StopOrder' /\ Ended'
  BY <1>4, FinishKeeps DEF answer
<1>5. ASSUME NEW q \in Requests, failRequest(q) PROVE StopOrder' /\ Ended'
  BY <1>5, FinishKeeps DEF failRequest
<1>6. ASSUME NEW q \in Requests, failContext(q) PROVE StopOrder' /\ Ended'
  BY <1>6, FinishKeeps DEF failContext
<1>7. ASSUME \/ startReactor \/ stopReactor \/ reactorLoop \/ reactorPolls \/ reactorJoined
             \/ \E q \in Requests : postToReactor(q) \/ wakeReactor(q)
      PROVE  StopOrder' /\ Ended'
  BY <1>7, ReactorKeepsOrder
<1>8. ASSUME \/ startDispatcher \/ stopDispatcher \/ dispatcherJoined \/ runDispatcher
             \/ \E q \in Requests : dispatch(q) \/ notifyDispatcher(q)
      PROVE  StopOrder' /\ Ended'
  BY <1>8, DispatcherKeepsOrder
<1> QED
  BY <1>1, <1>2, <1>3, <1>4, <1>5, <1>6, <1>7, <1>8
     DEF ClientNext, threadsGoOn, goesOn, closeGoesOn
-----------------------------------------------------------------------------
\* A client that was not started satisfies the invariant.
LEMMA ClientInitEstablishes == ClientInit => IInv
<1> SUFFICES ASSUME ClientInit PROVE IInv
  OBVIOUS
<1>1. /\ R!Init /\ D!Init
      /\ registered = {} /\ finisher = [q \in Requests |-> "nobody"]
  BY DEF ClientInit, Init
<1>3. ReactorInv /\ DispatcherInv
  BY <1>1, ReactorInitEstablishes, DispatcherInitEstablishes
<1>4. StopOrder
  BY <1>1 DEF R!Init, D!Init, StopOrder
<1>5. Ended
  BY <1>1 DEF D!Init, Ended
<1> QED
  BY <1>3, <1>4, <1>5 DEF IInv

\* Every step of a client keeps the invariant.
LEMMA ClientNextKeeps == IInv /\ [ClientNext]_clientVars => IInv'
<1> SUFFICES ASSUME IInv, [ClientNext]_clientVars PROVE IInv'
  OBVIOUS
<1>1. ReactorInv' /\ DispatcherInv'
  BY ReactorStays, DispatcherStays DEF IInv
<1>2. StopOrder' /\ Ended'
  <2>1. CASE ClientNext
    BY <2>1, StepKeeps
  <2>2. CASE UNCHANGED clientVars
    BY <2>2, UntouchedKeeps DEF clientVars, vars
  <2> QED
    BY <2>1, <2>2
<1> QED
  BY <1>1, <1>2 DEF IInv

\* The invariant of the threads of a client.
THEOREM ClientInvariant == ClientSpec => []IInv
BY ClientInitEstablishes, ClientNextKeeps, PTL DEF ClientSpec

\* completeRequest never runs a callback on the reactor thread: the dispatcher
\* refuses nothing before the reactor has been joined.
THEOREM ReactorStaysFree == ClientSpec => []ReactorNotBlocked
<1>1. IInv => ReactorNotBlocked
  BY DEF IInv, Ended, ReactorNotBlocked, Inline
<1> QED
  BY <1>1, ClientInvariant, PTL

\* A callback that was run on the spot is not run by the dispatcher too, though
\* post() answers after it has released the mutex, and none runs for a request
\* that has not ended.
THEOREM NoSecondCallback == ClientSpec => []CalledOnce
<1>1. IInv => CalledOnce
  <2> SUFFICES ASSUME IInv PROVE CalledOnce
    OBVIOUS
  <2>1. dRan \subseteq D!Accepted
    BY DEF IInv, DispatcherInv, DispatcherOnePlace
  <2>2. \A q \in Answered : q \in Requests /\ dPoster[q] # "new"
    BY <2>1 DEF Answered, Inline, D!Accepted
  <2>3. dRan \cap Inline = {}
    BY <2>1 DEF Inline, D!Accepted
  <2>4. \A q \in Answered : finisher[q] # "nobody" /\ q \notin Invalid
    BY <2>2 DEF IInv, Ended
  <2> QED
    BY <2>3, <2>4 DEF CalledOnce
<1> QED
  BY <1>1, ClientInvariant, PTL

\* Inside a client, where users' threads and callbacks race with close(), the
\* reactor still runs every task it has taken before stop() returns.
THEOREM ClientReactorPromise == ClientSpec => ReactorPromise
<1>1. ClientInit => R!Abstract!Init
  BY DEF ClientInit, Init, R!Init, R!Abstract!Init, R!Accepted
<1>2. IInv /\ [ClientNext]_clientVars => [R!Abstract!Next]_(R!Abstract!vars)
  BY ReactorStays DEF IInv
<1> QED
  BY <1>1, <1>2, ClientInvariant, PTL DEF ClientSpec, ReactorPromise, R!KeepsPromise,
     R!Abstract!Spec

\* So does the dispatcher with the callbacks it has taken from the reactor and
\* from the users' threads.
THEOREM ClientDispatcherPromise == ClientSpec => DispatcherPromise
<1>1. ClientInit => D!Abstract!Init
  BY DEF ClientInit, Init, D!Init, D!Abstract!Init, D!Accepted
<1>2. IInv /\ [ClientNext]_clientVars => [D!Abstract!Next]_(D!Abstract!vars)
  BY DispatcherStays DEF IInv
<1> QED
  BY <1>1, <1>2, ClientInvariant, PTL DEF ClientSpec, DispatcherPromise, D!KeepsPromise,
     D!Abstract!Spec
================================================================================
