------------------------- MODULE ConcurrentMonitor -------------------------
(***************************************************************************)
(* The monitor with which threads of the library block until a condition   *)
(* holds (src/src/tbb/concurrent_monitor.h and .cpp).  A waiter puts its   *)
(* thread_context, an object on its stack, into the wait set, evaluates    *)
(* its condition again, and sleeps on its own binary semaphore; a notifier *)
(* moves contexts to a list of its own and posts their semaphores after    *)
(* it has released the mutex.                                              *)
(*                                                                         *)
(* The condition is that of concurrent_queue.cpp: a waiter with context k  *)
(* waits until more than k events have been published.  Critical sections  *)
(* are single steps; what is read and written outside of them is not.  The *)
(* order of the lists decides only whom notify_one wakes: they are sets.   *)
(***************************************************************************)
EXTENDS Integers, FiniteSets

CONSTANTS
    Waiter,         \* threads that wait, each for one condition at a time
    Notifier,       \* threads that publish events and notify
    Contexts,       \* what waiters may wait for
    MaxEvents,      \* bound: events published in all
    MaxCalls,       \* bound: calls of notifying operations
    EpochRange      \* the unsigned epoch wraps around here

ASSUME ContextsAreTickets == Contexts \subseteq Nat
ASSUME Bounds == MaxEvents \in Nat /\ MaxCalls \in Nat /\ EpochRange \in Nat \ {0}

VARIABLES
    \* the monitor
    waitset, epoch,
    \* the thread_context of each waiter
    thr_epoch, in_waitset, spurious, aborted, context,
    sema,           \* binary_semaphore: posts not yet consumed
    \* the waiters
    pc,
    satisfied,      \* local of a waiter: its condition ended the loop of wait
    \* the notifiers
    npc, kind,
    level,          \* local of a notifier: the argument of its predicate
    temp,           \* local of a notifier: the contexts it has to wake
    \* the condition
    events, calls

monitor == <<waitset, epoch>>
thr     == <<thr_epoch, in_waitset, spurious, aborted, context, sema>>
waiter  == <<pc, satisfied>>
notifier == <<npc, kind, level, temp>>
cond    == <<events, calls>>
vars    == <<monitor, thr, waiter, notifier, cond>>

Kind == {"notify", "notify_all", "notify_one", "abort_all"}

Init ==
    /\ waitset = {} /\ epoch = 0
    /\ thr_epoch = [w \in Waiter |-> 0]
    /\ in_waitset = [w \in Waiter |-> FALSE]
    /\ spurious = [w \in Waiter |-> FALSE]
    /\ aborted = [w \in Waiter |-> FALSE]
    /\ context = [w \in Waiter |-> 0]
    /\ sema = [w \in Waiter |-> 0]
    /\ pc = [w \in Waiter |-> "out"]
    /\ satisfied = [w \in Waiter |-> FALSE]
    /\ npc = [n \in Notifier |-> "idle"]
    /\ kind = [n \in Notifier |-> "notify"]
    /\ level = [n \in Notifier |-> 0]
    /\ temp = [n \in Notifier |-> {}]
    /\ events = 0 /\ calls = 0

Goto(w, from, to) == pc[w] = from /\ pc' = [pc EXCEPT ![w] = to]
NGoto(n, from, to) == npc[n] = from /\ npc' = [npc EXCEPT ![n] = to]

Until(w) == events > context[w]

(***************************************************************************)
(* concurrent_monitor::wait                                                *)
(***************************************************************************)

\* The thread_context is constructed.
Enter(w) ==
    /\ Goto(w, "out", "prepare")
    /\ \E c \in Contexts : context' = [context EXCEPT ![w] = c]
    /\ UNCHANGED <<monitor, thr_epoch, in_waitset, spurious, aborted, sema, satisfied,
                   notifier, cond>>

\* semaphore().P(), once the post is there
P(w) == sema[w] = 1 /\ sema' = [sema EXCEPT ![w] = 0]

\* The wakeup that an earlier cancel_wait could not prevent is consumed.
PumpSpurious(w) ==
    \/ ~spurious[w] /\ UNCHANGED <<spurious, sema>>
    \/ spurious[w] /\ P(w) /\ spurious' = [spurious EXCEPT ![w] = FALSE]

PrepareWait(w) ==
    /\ Goto(w, "prepare", "insert")
    /\ PumpSpurious(w)
    /\ in_waitset' = [in_waitset EXCEPT ![w] = TRUE]
    /\ UNCHANGED <<monitor, thr_epoch, aborted, context, satisfied, notifier, cond>>

Insert(w) ==
    /\ Goto(w, "insert", "check")
    /\ waitset' = waitset \cup {w}
    /\ thr_epoch' = [thr_epoch EXCEPT ![w] = epoch]
    /\ UNCHANGED <<epoch, in_waitset, spurious, aborted, context, sema, satisfied,
                   notifier, cond>>

\* The condition is evaluated again once the thread is in the wait set.
CheckNothing(w) ==
    /\ Goto(w, "check", "commit")
    /\ UNCHANGED <<monitor, thr, satisfied, notifier, cond>>

Check(w) ==
    /\ Goto(w, "check", IF Until(w) THEN "cancel" ELSE "commit")
    /\ satisfied' = [satisfied EXCEPT ![w] = Until(w)]
    /\ UNCHANGED <<monitor, thr, notifier, cond>>

CommitWait(w) ==
    /\ Goto(w, "commit", IF thr_epoch[w] = epoch THEN "sleep" ELSE "cancel")
    /\ thr_epoch' = [thr_epoch EXCEPT ![w] = 0]  \* not read again
    /\ UNCHANGED <<monitor, in_waitset, spurious, aborted, context, sema, satisfied,
                   notifier, cond>>

\* An aborted wait throws, which destroys the context.
WakeUp(w) ==
    /\ Goto(w, "sleep", IF aborted[w] THEN "destroy" ELSE "woken")
    /\ P(w)
    /\ UNCHANGED <<monitor, thr_epoch, in_waitset, spurious, aborted, context,
                   satisfied, notifier, cond>>

CheckWoken(w) ==
    /\ Goto(w, "woken", IF Until(w) THEN "destroy" ELSE "prepare")
    /\ UNCHANGED <<monitor, thr, satisfied, notifier, cond>>

\* After cancel_wait: leave the loop, or wait again.
AfterCancel(w) == IF satisfied[w] THEN "destroy" ELSE "prepare"

CancelWait(w) ==
    /\ Goto(w, "cancel", IF in_waitset[w] THEN "cancelLock" ELSE AfterCancel(w))
    /\ spurious' = [spurious EXCEPT ![w] = TRUE]
    /\ UNCHANGED <<monitor, thr_epoch, in_waitset, aborted, context, sema, satisfied,
                   notifier, cond>>

\* Under the mutex: the thread may have been removed since the test.
RemoveUnchecked(w) ==
    /\ waitset' = waitset \ {w}
    /\ in_waitset' = [in_waitset EXCEPT ![w] = FALSE]
    /\ spurious' = [spurious EXCEPT ![w] = FALSE]

RemoveKeepingSpurious(w) ==
    \/ /\ in_waitset[w]
       /\ waitset' = waitset \ {w}
       /\ in_waitset' = [in_waitset EXCEPT ![w] = FALSE]
       /\ UNCHANGED spurious
    \/ ~in_waitset[w] /\ UNCHANGED <<waitset, in_waitset, spurious>>

Remove(w) ==
    \/ /\ in_waitset[w]
       /\ waitset' = waitset \ {w}
       /\ in_waitset' = [in_waitset EXCEPT ![w] = FALSE]
       /\ spurious' = [spurious EXCEPT ![w] = FALSE]
    \/ ~in_waitset[w] /\ UNCHANGED <<waitset, in_waitset, spurious>>

CancelLocked(w) ==
    /\ Goto(w, "cancelLock", AfterCancel(w))
    /\ Remove(w)
    /\ UNCHANGED <<epoch, thr_epoch, aborted, context, sema, satisfied, notifier, cond>>

\* ~thread_context, which may have to consume a last wakeup; what is left of
\* the object has the values of the next one.
Leave(w) ==
    /\ Goto(w, "destroy", "out")
    /\ context' = [context EXCEPT ![w] = 0]
    /\ thr_epoch' = [thr_epoch EXCEPT ![w] = 0]
    /\ aborted' = [aborted EXCEPT ![w] = FALSE]
    /\ satisfied' = [satisfied EXCEPT ![w] = FALSE]
    /\ UNCHANGED <<monitor, in_waitset, notifier, cond>>

DestroyAtOnce(w) == Leave(w) /\ spurious' = [spurious EXCEPT ![w] = FALSE] /\ UNCHANGED sema
Destroy(w) == Leave(w) /\ PumpSpurious(w)

(***************************************************************************)
(* The notifying operations                                                *)
(***************************************************************************)

\* The event is published, then notify or notify_all is called.
Publish(n, k) ==
    /\ k \in {"notify", "notify_all"}
    /\ events < MaxEvents
    /\ calls < MaxCalls
    /\ NGoto(n, "idle", "test")
    /\ events' = events + 1
    /\ calls' = calls + 1
    /\ kind' = [kind EXCEPT ![n] = k]
    /\ level' = [level EXCEPT ![n] = events]
    /\ UNCHANGED <<monitor, thr, waiter, temp>>

\* Calls without an event of their own
Call(n, k) ==
    /\ k \in {"notify_one", "abort_all"}
    /\ calls < MaxCalls
    /\ NGoto(n, "idle", "test")
    /\ calls' = calls + 1
    /\ kind' = [kind EXCEPT ![n] = k]
    /\ UNCHANGED <<monitor, thr, waiter, level, temp, events>>

\* An operation that returns leaves no locals behind.
Forget(n) ==
    IF npc'[n] = "idle"
    THEN kind' = [kind EXCEPT ![n] = "notify"] /\ level' = [level EXCEPT ![n] = 0]
    ELSE UNCHANGED <<kind, level>>

\* waitset_ec.empty(), without the mutex
TestEmpty(n) ==
    /\ NGoto(n, "test", IF waitset = {} THEN "idle" ELSE "lock")
    /\ Forget(n)
    /\ UNCHANGED <<monitor, thr, waiter, temp, cond>>

\* The sets of contexts that the operation may remove from the wait set
Removed(n) ==
    CASE kind[n] = "notify"     -> {{w \in waitset : context[w] <= level[n]}}
      [] kind[n] = "notify_one" -> IF waitset = {} THEN {{}} ELSE {{w} : w \in waitset}
      [] OTHER                  -> {waitset}

UnmarkLater(R) == in_waitset' = in_waitset
Unmark(R) == in_waitset' = [w \in Waiter |-> in_waitset[w] /\ w \notin R]

Collect(n) ==
    /\ \E R \in Removed(n) :
        /\ NGoto(n, "lock", IF R = {} THEN "idle" ELSE "post")
        /\ waitset' = waitset \ R
        /\ temp' = [temp EXCEPT ![n] = R]
        /\ Unmark(R)
    /\ epoch' = (epoch + 1) % EpochRange
    /\ Forget(n)
    /\ UNCHANGED <<thr_epoch, spurious, aborted, context, sema, waiter, cond>>

AssignAborted(n, w) == aborted' = [aborted EXCEPT ![w] = kind[n] = "abort_all"]
MarkAborted(n, w) == aborted' = [aborted EXCEPT ![w] = @ \/ kind[n] = "abort_all"]

\* The next context of the list: aborted = true for abort_all, semaphore().V()
Post(n) ==
    /\ \E w \in temp[n] :
        /\ NGoto(n, "post", IF temp[n] = {w} THEN "idle" ELSE "post")
        /\ temp' = [temp EXCEPT ![n] = @ \ {w}]
        /\ sema' = [sema EXCEPT ![w] = @ + 1]
        /\ MarkAborted(n, w)
    /\ Forget(n)
    /\ UNCHANGED <<monitor, thr_epoch, in_waitset, spurious, context, waiter, cond>>

WaiterStep(w) ==
    \/ PrepareWait(w) \/ Insert(w) \/ Check(w) \/ CommitWait(w) \/ WakeUp(w)
    \/ CheckWoken(w) \/ CancelWait(w) \/ CancelLocked(w) \/ Destroy(w)

NotifierStep(n) == TestEmpty(n) \/ Collect(n) \/ Post(n)

Next ==
    \/ \E w \in Waiter : Enter(w) \/ WaiterStep(w)
    \/ \E n \in Notifier : NotifierStep(n) \/ \E k \in Kind : Publish(n, k) \/ Call(n, k)

\* Threads are scheduled; nobody has to begin a wait or to publish an event.
Fairness == /\ \A w \in Waiter : WF_vars(WaiterStep(w))
            /\ \A n \in Notifier : WF_vars(NotifierStep(n))

Spec == Init /\ [][Next]_vars /\ Fairness

(***************************************************************************)
(* Properties                                                              *)
(***************************************************************************)

\* Every variable has its type.  That a semaphore is never posted twice in a
\* row is what the assertion in binary_semaphore::V demands.
TypeOK ==
    /\ waitset \subseteq Waiter /\ epoch \in Nat
    /\ thr_epoch \in [Waiter -> Nat]
    /\ in_waitset \in [Waiter -> BOOLEAN]
    /\ spurious \in [Waiter -> BOOLEAN]
    /\ aborted \in [Waiter -> BOOLEAN]
    /\ context \in [Waiter -> Nat]
    /\ sema \in [Waiter -> {0, 1}]
    /\ pc \in [Waiter -> {"out", "prepare", "insert", "check", "commit", "sleep", "woken",
                          "cancel", "cancelLock", "destroy"}]
    /\ satisfied \in [Waiter -> BOOLEAN]
    /\ npc \in [Notifier -> {"idle", "test", "lock", "post"}]
    /\ kind \in [Notifier -> Kind]
    /\ level \in [Notifier -> 0 .. MaxEvents]
    /\ temp \in [Notifier -> SUBSET Waiter]
    /\ events \in 0 .. MaxEvents /\ calls \in Nat

\* No notifier and no wait set refers to a thread_context that has left its
\* scope: a wait does not end while a notifier that has taken the context out
\* of the wait set has still to post its semaphore.
NoDanglingContext ==
    \A w \in Waiter : pc[w] = "out" =>
        w \notin waitset /\ \A n \in Notifier : w \notin temp[n]

\* A thread in the wait set has no wakeup due to it, and any other at most
\* one: cancelled waits, spurious wakeups and new rounds never let two
\* notifications of one context be in flight.
OneWakeup ==
    \A w \in Waiter : \A n \in Notifier : w \in temp[n] =>
        /\ w \notin waitset
        /\ sema[w] = 0
        /\ \A m \in Notifier : w \in temp[m] => m = n

\* No wakeup is lost: when a thread is about to sleep, or sleeps, in the wait
\* set though its condition holds, the thread that published the event has
\* yet to look at the wait set.
NoLostWakeup ==
    \A w \in Waiter :
        pc[w] \in {"commit", "sleep"} /\ w \in waitset /\ Until(w) =>
            \E n \in Notifier : /\ npc[n] \in {"test", "lock"}
                                /\ kind[n] \in {"notify", "notify_all"}
                                /\ context[w] <= level[n]

\* A wait whose condition holds ends.
WaitEnds == \A w \in Waiter : (pc[w] # "out" /\ Until(w)) ~> pc[w] = "out"

(***************************************************************************)
(* The abstract monitor: a context is with its waiter from the insertion   *)
(* into the wait set until the wait is cancelled or resumed, and whatever  *)
(* a notifier is about to deliver has been delivered.                      *)
(***************************************************************************)
Watched == {"check", "commit", "sleep", "cancel", "cancelLock"}
AbortDue(w) == \E n \in Notifier : w \in temp[n] /\ kind[n] = "abort_all"

Abstract == INSTANCE Monitor WITH
    Levels  <- 0 .. MaxEvents,
    waiting <- waitset,
    woken   <- {w \in Waiter : pc[w] \in Watched /\ w \notin waitset},
    aborted <- {w \in Waiter : aborted[w] \/ AbortDue(w)},
    context <- [w \in Waiter |-> IF pc[w] \in Watched THEN context[w] ELSE 0]

\* Each step is one of the abstract monitor or none: however removals, late
\* posts, cancelled waits and spurious wakeups interleave, a thread misses
\* only wakeups from which it has withdrawn.
ImplementsMonitor == Abstract!Spec

=============================================================================
