-------------------------- MODULE CallbackDispatcher --------------------------
(***************************************************************************)
(* class CallbackDispatcher: a worker thread that runs posted callbacks.   *)
(* Each critical section of its mutex is one step; the notifications,      *)
(* which are sent after the mutex was released, are steps of their own.    *)
(* Every task is posted by a thread of its own, once.                      *)
(***************************************************************************)
EXTENDS Sequences, FiniteSets

CONSTANT Tasks

VARIABLES
    running,        \* atomic
    stopRequested,
    tasks,          \* the queue
    poster,         \* how far post() has come with each task
    worker,         \* runLoop: new, check, asleep, running a task, exited
    current,        \* the task popped and not yet run, at most one
    ran,            \* history: tasks run
    stopper         \* how far stop() has come

vars == <<running, stopRequested, tasks, poster, worker, current, ran, stopper>>

Init ==
    /\ running = FALSE /\ stopRequested = FALSE
    /\ tasks = <<>>
    /\ poster = [t \in Tasks |-> "new"]
    /\ worker = "new"
    /\ current = {} /\ ran = {}
    /\ stopper = "no"

start ==
    /\ ~running /\ worker = "new"
    /\ running' = TRUE /\ stopRequested' = FALSE /\ worker' = "check"
    /\ UNCHANGED <<tasks, poster, current, ran, stopper>>

\* Faulty variant: stopRequested is not looked at.
postAfterStop(t) ==
    /\ poster[t] = "new"
    /\ IF running
       THEN tasks' = Append(tasks, t) /\ poster' = [poster EXCEPT ![t] = "pushed"]
       ELSE UNCHANGED tasks /\ poster' = [poster EXCEPT ![t] = "refused"]
    /\ UNCHANGED <<running, stopRequested, worker, current, ran, stopper>>

post(t) ==
    /\ poster[t] = "new"
    /\ IF running /\ ~stopRequested
       THEN tasks' = Append(tasks, t) /\ poster' = [poster EXCEPT ![t] = "pushed"]
       ELSE UNCHANGED tasks /\ poster' = [poster EXCEPT ![t] = "refused"]
    /\ UNCHANGED <<running, stopRequested, worker, current, ran, stopper>>

\* Faulty variant: the notification goes nowhere.
notifyNobody == UNCHANGED worker

Notify == worker' = IF worker = "asleep" THEN "check" ELSE worker

notifyOne(t) ==
    /\ poster[t] = "pushed"
    /\ poster' = [poster EXCEPT ![t] = "accepted"]
    /\ Notify
    /\ UNCHANGED <<running, stopRequested, tasks, current, ran, stopper>>

\* runLoop with the mutex held: wait, leave, or pop.
check ==
    /\ worker = "check"
    /\ IF tasks # <<>>
       THEN worker' = "running" /\ current' = {Head(tasks)} /\ tasks' = Tail(tasks)
       ELSE /\ worker' = IF stopRequested THEN "exited" ELSE "asleep"
            /\ UNCHANGED <<current, tasks>>
    /\ UNCHANGED <<running, stopRequested, poster, ran, stopper>>

run ==
    /\ worker = "running"
    /\ ran' = ran \cup current /\ current' = {}
    /\ worker' = "check"
    /\ UNCHANGED <<running, stopRequested, tasks, poster, stopper>>

StopStep(from, to) == stopper = from /\ stopper' = to

requestStop ==
    /\ running
    /\ StopStep("no", "requested")
    /\ stopRequested' = TRUE
    /\ UNCHANGED <<running, tasks, poster, worker, current, ran>>

notifyAll ==
    /\ StopStep("requested", "joining")
    /\ Notify
    /\ UNCHANGED <<running, stopRequested, tasks, poster, current, ran>>

\* The worker is joined; what is left in the queue is thrown away.
joined ==
    /\ worker = "exited"
    /\ StopStep("joining", "done")
    /\ running' = FALSE /\ tasks' = <<>>
    /\ UNCHANGED <<stopRequested, poster, worker, current, ran>>

Next == \/ start \/ check \/ run \/ requestStop \/ notifyAll \/ joined
        \/ \E t \in Tasks : post(t) \/ notifyOne(t)

Spec == Init /\ [][Next]_vars
-----------------------------------------------------------------------------
Accepted == {t \in Tasks : poster[t] \in {"pushed", "accepted"}}

\* The shapes of the variables.
TypeOK ==
    /\ running \in BOOLEAN /\ stopRequested \in BOOLEAN
    /\ tasks \in Seq(Tasks)
    /\ poster \in [Tasks -> {"new", "refused", "pushed", "accepted"}]
    /\ worker \in {"new", "check", "asleep", "running", "exited"}
    /\ current \subseteq Tasks /\ ran \subseteq Tasks
    /\ stopper \in {"no", "requested", "joining", "done"}

\* The dispatcher keeps the promise of TaskRunner.
Abstract == INSTANCE TaskRunner WITH accepted <- Accepted, stopped <- stopper = "done"

\* A callback post() has taken is run before stop() returns, and none is
\* taken after that.
KeepsPromise == Abstract!Spec
=============================================================================
