-------------------------------- MODULE Reactor --------------------------------
(***************************************************************************)
(* class Reactor as a queue of tasks: post(), runLoop() and stop() on the  *)
(* platforms with a wake-up descriptor (eventfd or pipe).  Unlike the      *)
(* dispatcher, stop() clears `running` without the mutex and the loop      *)
(* looks at it without one; the tasks that slipped in are picked up by the *)
(* drain after the loop.  Timers are in module Heartbeat.                  *)
(***************************************************************************)
EXTENDS Sequences, FiniteSets

CONSTANT Tasks

VARIABLES
    running,    \* atomic
    tasks,
    wakeFd,     \* the wake-up descriptor is readable
    poster,     \* how far post() has come with each task
    worker,     \* runLoop: new, loop, poll, drain, last drain, exited
    current,    \* the task popped and not yet run, at most one
    ran,        \* history: tasks run
    stopper     \* how far stop() has come

vars == <<running, tasks, wakeFd, poster, worker, current, ran, stopper>>

Init ==
    /\ running = FALSE
    /\ tasks = <<>> /\ wakeFd = FALSE
    /\ poster = [t \in Tasks |-> "new"]
    /\ worker = "new"
    /\ current = {} /\ ran = {}
    /\ stopper = "no"

start ==
    /\ ~running /\ worker = "new"
    /\ running' = TRUE /\ worker' = "loop"
    /\ UNCHANGED <<tasks, wakeFd, poster, current, ran, stopper>>

post(t) ==
    /\ poster[t] = "new"
    /\ IF running
       THEN tasks' = Append(tasks, t) /\ poster' = [poster EXCEPT ![t] = "pushed"]
       ELSE UNCHANGED tasks /\ poster' = [poster EXCEPT ![t] = "refused"]
    /\ UNCHANGED <<running, wakeFd, worker, current, ran, stopper>>

\* Faulty variant: nothing is written to the descriptor.
wakeNobody == UNCHANGED wakeFd

wakeup == wakeFd' = TRUE

postWakes(t) ==
    /\ poster[t] = "pushed"
    /\ poster' = [poster EXCEPT ![t] = "accepted"]
    /\ wakeup
    /\ UNCHANGED <<running, tasks, worker, current, ran, stopper>>

\* Faulty variant: the loop is left without a last look at the queue.
loopNoLastDrain ==
    /\ worker = "loop"
    /\ worker' = IF running THEN "poll" ELSE "exited"
    /\ UNCHANGED <<running, tasks, wakeFd, poster, current, ran, stopper>>

\* while (running.load())
loop ==
    /\ worker = "loop"
    /\ worker' = IF running THEN "poll" ELSE "last drain"
    /\ UNCHANGED <<running, tasks, wakeFd, poster, current, ran, stopper>>

\* epoll_wait returns for the wake-up descriptor, which is drained
pollWakes ==
    /\ worker = "poll" /\ wakeFd
    /\ worker' = "drain" /\ wakeFd' = FALSE
    /\ UNCHANGED <<running, tasks, poster, current, ran, stopper>>

\* epoll_wait returns for a socket or the timer
pollFires ==
    /\ worker = "poll"
    /\ worker' = "drain"
    /\ UNCHANGED <<running, tasks, wakeFd, poster, current, ran, stopper>>

\* drainPostedTasks with the mutex held
drainPostedTasks ==
    /\ worker \in {"drain", "last drain"} /\ current = {}
    /\ IF tasks # <<>>
       THEN current' = {Head(tasks)} /\ tasks' = Tail(tasks) /\ UNCHANGED worker
       ELSE /\ worker' = IF worker = "drain" THEN "loop" ELSE "exited"
            /\ UNCHANGED <<current, tasks>>
    /\ UNCHANGED <<running, wakeFd, poster, ran, stopper>>

run ==
    /\ current # {}
    /\ ran' = ran \cup current /\ current' = {}
    /\ UNCHANGED <<running, tasks, wakeFd, poster, worker, stopper>>

StopStep(from, to) == stopper = from /\ stopper' = to

stopRunning ==
    /\ running
    /\ StopStep("no", "stopped")
    /\ running' = FALSE
    /\ UNCHANGED <<tasks, wakeFd, poster, worker, current, ran>>

stopWakes ==
    /\ StopStep("stopped", "joining")
    /\ wakeup
    /\ UNCHANGED <<running, tasks, poster, worker, current, ran>>

\* The worker is joined; what is left in the queue is thrown away.
joined ==
    /\ worker = "exited"
    /\ StopStep("joining", "done")
    /\ tasks' = <<>>
    /\ UNCHANGED <<running, wakeFd, poster, worker, current, ran>>

Next == \/ start \/ loop \/ pollWakes \/ pollFires \/ drainPostedTasks \/ run
        \/ stopRunning \/ stopWakes \/ joined
        \/ \E t \in Tasks : post(t) \/ postWakes(t)

Spec == Init /\ [][Next]_vars
-----------------------------------------------------------------------------
Accepted == {t \in Tasks : poster[t] \in {"pushed", "accepted"}}

\* The shapes of the variables.
TypeOK ==
    /\ running \in BOOLEAN /\ wakeFd \in BOOLEAN
    /\ tasks \in Seq(Tasks)
    /\ poster \in [Tasks -> {"new", "refused", "pushed", "accepted"}]
    /\ worker \in {"new", "loop", "poll", "drain", "last drain", "exited"}
    /\ current \subseteq Tasks /\ ran \subseteq Tasks
    /\ stopper \in {"no", "stopped", "joining", "done"}

\* The reactor keeps the promise of TaskRunner.
Abstract == INSTANCE TaskRunner WITH accepted <- Accepted, stopped <- stopper = "done"

\* A task post() has taken is run before stop() returns, though `running` is
\* cleared without the mutex: the check under the mutex and the last drain
\* are enough.
KeepsPromise == Abstract!Spec
=============================================================================
