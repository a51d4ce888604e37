------------------------------- MODULE Threads -------------------------------
(***************************************************************************)
(* Reactor and CallbackDispatcher as ConnectionManager composes them.      *)
(* sendAsync registers each request and posts a task to the reactor, which *)
(* hands the request to a session.  The request ends later, when its       *)
(* response, its timeout or the loss of its connection is handled on the   *)
(* reactor thread: the thread that wins tryFinish posts the callback to    *)
(* the dispatcher, or runs it on the spot when the dispatcher refuses it.  *)
(* When the reactor refuses the task, the user's thread ends the request.  *)
(* close() stops the reactor first, then the dispatcher, and then ends     *)
(* what is left.                                                           *)
(***************************************************************************)
EXTENDS FiniteSets

CONSTANTS
    Requests,
    Timed       \* requests with a timeout

ASSUME TimedAssumption == Timed \subseteq Requests

VARIABLES
    rRunning, rTasks, wakeFd, rPoster, rWorker, rCurrent, rRan, rStopper,
    dRunning, stopRequested, dTasks, dPoster, dWorker, dCurrent, dRan, dStopper,
    registered, \* requests sendAsync has put in contexts, with their timers
    finisher,   \* for every request, the thread that won tryFinish
    closer,     \* close() is in failAllContexts, or has left it
    failing     \* the contexts failAllContexts has not come to the end of

R == INSTANCE Reactor WITH
        Tasks <- Requests, running <- rRunning, tasks <- rTasks, poster <- rPoster,
        worker <- rWorker, current <- rCurrent, ran <- rRan, stopper <- rStopper

D == INSTANCE CallbackDispatcher WITH
        Tasks <- Requests, running <- dRunning, tasks <- dTasks, poster <- dPoster,
        worker <- dWorker, current <- dCurrent, ran <- dRan, stopper <- dStopper

reactorVars    == <<rRunning, rTasks, wakeFd, rPoster, rWorker, rCurrent, rRan, rStopper>>
dispatcherVars == <<dRunning, stopRequested, dTasks, dPoster, dWorker, dCurrent, dRan, dStopper>>
closerVars     == <<closer, failing>>
vars == <<reactorVars, dispatcherVars, registered, finisher, closerVars>>

Init ==
    /\ R!Init /\ D!Init
    /\ registered = {} /\ finisher = [q \in Requests |-> "nobody"]
    /\ closer = "no" /\ failing = {}
-----------------------------------------------------------------------------
ReactorStep(A)    == A /\ UNCHANGED <<dispatcherVars, registered, finisher, closerVars>>
DispatcherStep(A) == A /\ UNCHANGED <<reactorVars, registered, finisher, closerVars>>

\* startThreadsIfNeeded
startDispatcher == DispatcherStep(D!start)
startReactor    == dWorker # "new" /\ ReactorStep(R!start)

\* completeRequest: tryFinish first, and then the callback, which is posted to
\* the dispatcher or, when that refuses it, run on the spot.
tryFinish(q, thread) ==
    /\ q \in registered /\ finisher[q] = "nobody"
    /\ finisher' = [finisher EXCEPT ![q] = thread]
    /\ UNCHANGED <<reactorVars, dispatcherVars, registered, closerVars>>

dispatch(q)         == finisher[q] # "nobody" /\ DispatcherStep(D!post(q))
notifyDispatcher(q) == DispatcherStep(D!notifyOne(q))

\* Callbacks run where completeRequest stood
Inline == {q \in Requests : dPoster[q] = "refused"}

Answered == dRan \cup Inline

\* sendAsync
register(q) ==
    /\ rWorker # "new" /\ q \notin registered
    /\ registered' = registered \cup {q}
    /\ UNCHANGED <<reactorVars, dispatcherVars, finisher, closerVars>>

postToReactor(q) == q \in registered /\ ReactorStep(R!post(q))
wakeReactor(q)   == ReactorStep(R!postWakes(q))
failRequest(q)   == rPoster[q] = "refused" /\ tryFinish(q, "user")

\* The reactor thread has left completeRequest.
Returned == \A q \in Requests : finisher[q] = "reactor" => dPoster[q] \notin {"new", "pushed"}

\* The reactor thread
reactorLoop ==
    Returned /\ ReactorStep(R!loop \/ R!pollWakes \/ R!drainPostedTasks \/ R!run)

\* A socket or a timer
reactorPolls == ReactorStep(R!pollFires)

\* A handler or a task ends a request: its response has come, its time is up,
\* its connection or its session has failed.
answer(q) ==
    /\ rWorker \in {"drain", "last drain"} /\ Returned
    /\ tryFinish(q, "reactor")

dispatcherLoop == DispatcherStep(D!check \/ D!run)

\* close()
stopReactor   == ReactorStep(R!stopRunning)
reactorJoined == ReactorStep(R!stopWakes \/ R!joined)

\* Faulty variant: the dispatcher is stopped without waiting for the reactor.
stopDispatcherEarly == rStopper # "no" /\ DispatcherStep(D!requestStop)

stopDispatcher == rStopper = "done" /\ DispatcherStep(D!requestStop)
dispatcherJoined == DispatcherStep(D!notifyAll \/ D!joined)

\* Faulty variant: only the requests that were never posted are failed.
failUnposted ==
    /\ dStopper = "done" /\ closer = "no"
    /\ closer' = "failing"
    /\ failing' = {q \in registered : finisher[q] = "nobody" /\ rPoster[q] # "accepted"}
    /\ UNCHANGED <<reactorVars, dispatcherVars, registered, finisher>>

\* failQueuedRequests and failAllContexts: what is left is copied, and then
\* completed one by one.
failAllContexts ==
    /\ dStopper = "done" /\ closer = "no"
    /\ closer' = "failing"
    /\ failing' = {q \in registered : finisher[q] = "nobody"}
    /\ UNCHANGED <<reactorVars, dispatcherVars, registered, finisher>>

failContext(q) ==
    /\ q \in failing
    /\ \A p \in failing : finisher[p] # "closer"
    /\ tryFinish(q, "closer")

nextContext(q) ==
    /\ q \in failing
    /\ finisher[q] # "nobody"
    /\ finisher[q] = "closer" => dPoster[q] \notin {"new", "pushed"}
    /\ failing' = failing \ {q}
    /\ UNCHANGED <<reactorVars, dispatcherVars, registered, finisher, closer>>

closed ==
    /\ closer = "failing" /\ failing = {}
    /\ closer' = "returned"
    /\ UNCHANGED <<reactorVars, dispatcherVars, registered, finisher, failing>>

\* What sendAsync and completeRequest do next with a request
goesOn(q) ==
    \/ postToReactor(q) \/ wakeReactor(q) \/ failRequest(q)
    \/ dispatch(q) \/ notifyDispatcher(q)

\* What close() does next, but for the end of the callbacks it runs itself
closeGoesOn ==
    \/ reactorJoined \/ stopDispatcher \/ dispatcherJoined
    \/ failAllContexts \/ closed \/ \E q \in Requests : failContext(q)

\* The timer of a request is due: the descriptor of the timers is readable.
timerFires == (\E q \in Timed \cap registered : finisher[q] = "nobody") /\ reactorPolls
-----------------------------------------------------------------------------
(***************************************************************************)
(* The reactor keeps the promise of TaskRunner: a task post() has taken is *)
(* run before stop() returns, though `running` is cleared without the      *)
(* mutex.                                                                  *)
(***************************************************************************)
ReactorPromise == R!KeepsPromise

(***************************************************************************)
(* So does the dispatcher, also for the callbacks users' threads post      *)
(* while it is being stopped.                                              *)
(***************************************************************************)
DispatcherPromise == D!KeepsPromise

(***************************************************************************)
(* No user callback runs on the reactor thread, where it could block every *)
(* connection: the dispatcher takes callbacks until the reactor is joined. *)
(***************************************************************************)
ReactorNotBlocked == \A q \in Requests : finisher[q] = "reactor" => q \notin Inline

(***************************************************************************)
(* What one thread hands to another arrives: a task the reactor has taken  *)
(* is run, and the callback of a request that has ended is called.  No     *)
(* wake-up is lost between the worker's last look at its queue and its     *)
(* sleep, in either thread, also while close() is under way.  Whether a    *)
(* request ever ends is not asked: its peer may be silent.                 *)
(***************************************************************************)
EveryHandOver ==
    \A q \in Requests : /\ q \in R!Accepted ~> q \in rRan
                        /\ finisher[q] # "nobody" ~> q \in Answered

(***************************************************************************)
(* close() returns once it has joined the connector, the callbacks         *)
(* failAllContexts runs on its thread included.                            *)
(***************************************************************************)
CloseReturns == rStopper # "no" ~> closer = "returned"
=============================================================================
