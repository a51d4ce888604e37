------------------------------- MODULE Timers -------------------------------
(***************************************************************************)
(* The one-shot timers of class Reactor on Linux: the queue ordered by due *)
(* time, the cancellation flags, and the timerfd that is always armed for  *)
(* the head of the queue.  The queue and the timerfd form one record r,    *)
(* which changes with the mutex held.                                      *)
(*                                                                         *)
(* A due time is the time left, 0 when it has passed.                      *)
(* The queue is the sequence in which its timers will be popped; timers    *)
(* due at the same time may be popped in any order, so a new one goes in   *)
(* at any place among its equals.  canceledTimers has an entry for exactly *)
(* the timers of the queue: its flag is kept with the timer.               *)
(***************************************************************************)
EXTENDS Naturals, Sequences, FiniteSetsExt, SequencesExt

CONSTANT Millisecond    \* the least time the timerfd is armed for, in the unit of
                        \* the clock

\* timerfd: {} disarmed, {n} fires in n units of time, {0} readable
NoTimers == [queue |-> <<>>, timerFd |-> {}]

Timer(id, handler, due) ==
    [id |-> id, handler |-> handler, due |-> due, canceled |-> FALSE]

Items(q) == {q[i] : i \in 1 .. Len(q)}
Canceled(q) == {t \in Items(q) : t.canceled}

\* The longest front of the queue whose timers are all in S
FrontLength(q, S) == Max({n \in 0 .. Len(q) : \A i \in 1 .. n : q[i] \in S})

\* armNextTimerLocked: canceled timers in front are popped, and setting the
\* timerfd makes it unreadable again.
armNextTimerLocked(q) ==
    LET rest == SubSeq(q, FrontLength(q, Canceled(q)) + 1, Len(q))
    IN  [queue |-> rest,
         timerFd |-> IF rest = <<>> THEN {} ELSE {Max({Head(rest).due, Millisecond})}]

\* The places a timer may take in the queue
Places(q, t) == {p \in 1 .. Len(q) + 1 : /\ \A i \in 1 .. p - 1 : q[i].due <= t.due
                                         /\ \A i \in p .. Len(q) : q[i].due >= t.due}

\* Faulty variant: the timerfd is armed only if it was not.
scheduleUnlessArmed(r, t, place) ==
    IF r.timerFd = {} THEN armNextTimerLocked(InsertAt(r.queue, place, t))
    ELSE [r EXCEPT !.queue = InsertAt(@, place, t)]

scheduleOnce(r, t, place) == armNextTimerLocked(InsertAt(r.queue, place, t))

Holds(r, id) == \E i \in 1 .. Len(r.queue) : r.queue[i].id = id

\* Faulty variant: the flag is set only on the head of the queue.
cancelHeadOnly(r, id) ==
    IF ~Holds(r, id) THEN r
    ELSE armNextTimerLocked([i \in 1 .. Len(r.queue) |->
             IF i = 1 /\ r.queue[i].id = id THEN [r.queue[i] EXCEPT !.canceled = TRUE]
             ELSE r.queue[i]])

\* cancelTimer returns Holds(r, id).
cancelTimer(r, id) ==
    IF ~Holds(r, id) THEN r
    ELSE armNextTimerLocked([i \in 1 .. Len(r.queue) |->
             IF r.queue[i].id = id THEN [r.queue[i] EXCEPT !.canceled = TRUE]
             ELSE r.queue[i]])

\* fireDueTimers: the timerfd is read, the timers due are popped and the
\* canceled ones among them dropped.
drainTimerFd(r) == [r EXCEPT !.timerFd = @ \ {0}]

DueLength(r) == FrontLength(r.queue, {t \in Items(r.queue) : t.canceled \/ t.due = 0})

\* The timers among the first n that are pushed to dueHandlers
Pushed(q, n) ==
    LET handlers[i \in 0 .. n] ==
            IF i = 0 THEN <<>>
            ELSE IF q[i].canceled THEN handlers[i - 1] ELSE Append(handlers[i - 1], q[i])
    IN  handlers[n]

dueHandlers(r) == Pushed(r.queue, DueLength(r))

\* Faulty variant: the timerfd is not armed for the timers that are left.
popDueOnly(r) == [r EXCEPT !.queue = SubSeq(@, DueLength(r) + 1, Len(@))]

popDue(r) == armNextTimerLocked(SubSeq(r.queue, DueLength(r) + 1, Len(r.queue)))

\* A unit of time passes.
Elapse(r) ==
    [queue |-> [i \in 1 .. Len(r.queue) |->
                   [r.queue[i] EXCEPT !.due = IF @ = 0 THEN 0 ELSE @ - 1]],
     timerFd |-> {IF n = 0 THEN 0 ELSE n - 1 : n \in r.timerFd}]
=============================================================================
