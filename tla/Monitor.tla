------------------------------ MODULE Monitor ------------------------------
(***************************************************************************)
(* What a concurrent monitor promises to the threads that use it: a thread *)
(* that has joined the wait set stays in it until it withdraws or until an *)
(* operation that concerns its context takes it out, and then has one      *)
(* wakeup to come.  Taking threads out is a single step, whatever time it  *)
(* takes to post their semaphores.  ConcurrentMonitor is shown to          *)
(* implement this module; BoundedQueue is built from its actions.          *)
(***************************************************************************)
EXTENDS Integers

CONSTANTS
    Waiter,
    Contexts,   \* what threads may wait for
    Levels      \* what may be notified

VARIABLES
    waiting,    \* the threads in the wait set
    woken,      \* the threads taken out of it that have not resumed
    aborted,    \* the threads that abort_all took out of it in this wait
    context     \* what a thread in one of the first two sets waits for

monitorVars == <<waiting, woken, aborted, context>>

Init == /\ waiting = {} /\ woken = {} /\ aborted = {}
        /\ context = [w \in Waiter |-> 0]

Drop(w) ==
    /\ waiting' = waiting \ {w}
    /\ woken' = woken \ {w}
    /\ context' = [context EXCEPT ![w] = 0]

\* prepare_wait
Join(w, c) ==
    /\ w \notin waiting \cup woken
    /\ waiting' = waiting \cup {w}
    /\ context' = [context EXCEPT ![w] = c]
    /\ UNCHANGED <<woken, aborted>>

\* cancel_wait: a wakeup that was for this thread is lost on it, though an
\* abort is remembered.
Withdraw(w) == w \in waiting \cup woken /\ Drop(w) /\ UNCHANGED aborted

\* The thread goes on, or throws if it has been aborted.
Resume(w) == w \in woken /\ Drop(w) /\ UNCHANGED aborted

\* ~thread_context, with a last cancel_wait if need be
Leave(w) == Drop(w) /\ aborted' = aborted \ {w}

TakeOut(R) ==
    /\ waiting' = waiting \ R
    /\ woken' = woken \cup R
    /\ UNCHANGED context

\* The threads a notification concerns (predicate_leq)
Concerned(level) == {w \in waiting : context[w] <= level}

Notify(level) == TakeOut(Concerned(level)) /\ UNCHANGED aborted
NotifyOne == \E w \in waiting : TakeOut({w}) /\ UNCHANGED aborted
NotifyAll == TakeOut(waiting) /\ UNCHANGED aborted
AbortAll == TakeOut(waiting) /\ aborted' = aborted \cup waiting

Next ==
    \/ \E w \in Waiter : \/ \E c \in Contexts : Join(w, c)
                         \/ Withdraw(w) \/ Resume(w) \/ Leave(w)
    \/ \E level \in Levels : Notify(level)
    \/ NotifyOne \/ NotifyAll \/ AbortAll

Spec == Init /\ [][Next]_monitorVars
=============================================================================
