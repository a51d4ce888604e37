------------------------------- MODULE Client -------------------------------
(***************************************************************************)
(* class Client on the threads of module Threads: validation, the          *)
(* synchronous Send, which waits on a future for its own callback, the     *)
(* asynchronous one, and sends made by a callback.  A callback runs on the *)
(* dispatcher thread, or on the thread that sent the request when the      *)
(* dispatcher takes it no more; Get and Post only fill in a request.       *)
(***************************************************************************)
EXTENDS Threads

CONSTANTS
    Sync,        \* requests sent with the synchronous Send
    Invalid,     \* requests validateRequest refuses
    User,        \* not a request: the user's own threads
    SentBy       \* for every request, the request whose callback sends it, or User

ASSUME ClientAssumption ==
    /\ Sync \subseteq Requests /\ Invalid \subseteq Requests /\ User \notin Requests
    /\ SentBy \in [Requests -> Requests \cup {User}]

VARIABLE call    \* how far each call of Send has come

clientVars == <<vars, call>>

ClientInit == Init /\ call = [q \in Requests |-> "new"]

\* The sends a callback makes, all of which it waits to return from
SendsOf(p) == {q \in Requests : SentBy[q] = p}

Finished(p) == \A q \in SendsOf(p) : call[q] = "returned"

\* The callback of p is running: on the dispatcher thread, on the thread that
\* closes, or on the one that sends p.
Calling(p) ==
    \/ p \in dCurrent
    \/ p \in Inline /\ IF finisher[p] = "closer" THEN p \in failing ELSE call[p] = "sent"
    \/ p \in Invalid /\ call[p] = "sent"
-----------------------------------------------------------------------------
\* The user is free to send; a callback sends while it runs.
Sending(q) == call[q] = "new" /\ (SentBy[q] = User \/ Calling(SentBy[q]))

\* A request that is not valid is answered on the spot, with no Operation.
SendInvalid(q) ==
    /\ q \in Invalid /\ Sending(q)
    /\ call' = [call EXCEPT ![q] = "sent"]
    /\ UNCHANGED vars

\* connectionManager.sendAsync with the wire request and the inferred port
SendAsync(q) ==
    /\ q \notin Invalid /\ Sending(q)
    /\ call' = [call EXCEPT ![q] = "sent"]
    /\ register(q)

\* sendAsync returns once the task is posted and the reactor woken, or, when
\* the task was refused, once this thread has completed the request, unless
\* another one has.
AsyncReturned(q) ==
    \/ q \in Invalid /\ Finished(q)
    \/ rPoster[q] = "accepted"
    \/ /\ rPoster[q] = "refused" /\ finisher[q] # "nobody"
       /\ finisher[q] = "user" => \/ dPoster[q] = "accepted"
                                  \/ q \in Inline /\ Finished(q)

\* future.get() returns once the callback has set the promise.
futureReady(q) == q \in Answered \cup Invalid

SendReturns(q) ==
    /\ call[q] = "sent" /\ AsyncReturned(q)
    /\ q \in Sync => futureReady(q)
    /\ call' = [call EXCEPT ![q] = "returned"]
    /\ UNCHANGED vars

\* A callback has run when everything it sends has been sent.
runDispatcher ==
    /\ \A p \in dCurrent : Finished(p)
    /\ dispatcherLoop /\ UNCHANGED call

callbackReturns(q) ==
    /\ finisher[q] = "closer" => Finished(q)
    /\ nextContext(q) /\ UNCHANGED call

threadsGoOn ==
    /\ UNCHANGED call
    /\ \/ startDispatcher \/ startReactor \/ stopReactor
       \/ reactorLoop \/ reactorPolls \/ closeGoesOn
       \/ \E q \in Requests : answer(q) \/ goesOn(q)

ClientNext ==
    \/ threadsGoOn \/ runDispatcher
    \/ \E q \in Requests :
          SendInvalid(q) \/ SendAsync(q) \/ SendReturns(q) \/ callbackReturns(q)

\* What the thread that sends a request, or ends it, does next.  Each of the
\* steps is taken at most once.
callGoesOn(q) ==
    \/ goesOn(q) /\ UNCHANGED call
    \/ SendReturns(q) \/ callbackReturns(q)
    \/ SentBy[q] # User /\ (SendInvalid(q) \/ SendAsync(q))

\* Every thread goes on with what it has begun, and so do a call of Send and a
\* callback.  No socket has to become readable, nobody has to send or close;
\* timers fire, and a handler comes to every request whose timer is due.
ClientSpec ==
    /\ ClientInit /\ [][ClientNext]_clientVars
    /\ WF_clientVars(reactorLoop /\ UNCHANGED call) /\ WF_clientVars(runDispatcher)
    /\ WF_clientVars(timerFires /\ UNCHANGED call)
    /\ WF_clientVars(closeGoesOn /\ UNCHANGED call)
    /\ \A q \in Timed : SF_clientVars(answer(q) /\ UNCHANGED call)
    /\ \A q \in Requests : WF_clientVars(callGoesOn(q))
-----------------------------------------------------------------------------
(***************************************************************************)
(* A call of Send returns, also one that races with close() and one made   *)
(* by a callback.  An asynchronous one waits for nobody.  A synchronous    *)
(* one with the default timeout of -1 may wait forever for a silent peer:  *)
(* it returns when the request has a timeout or has ended, and when        *)
(* close() is called and has joined the connector.  A synchronous Send     *)
(* made by a callback is another matter: it waits on the dispatcher thread *)
(* for that thread.                                                        *)
(***************************************************************************)
SendsReturn ==
    \A q \in Requests :
        /\ call[q] = "sent"
        /\ q \in Sync \ (Invalid \cup Timed) => finisher[q] # "nobody" \/ rStopper # "no"
        ~> call[q] = "returned"
=============================================================================
