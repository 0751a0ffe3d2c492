----------------------- MODULE ConcurrentMonitorProofs -----------------------
(***************************************************************************)
(* The safety properties of ConcurrentMonitor for any number of waiters    *)
(* and notifiers, any bounds and any width of the epoch.                   *)
(***************************************************************************)
EXTENDS ConcurrentMonitor, TLAPS

(***************************************************************************)
(* The inductive invariant: where the thread_context of w may be.  From    *)
(* prepare_wait on it is in the wait set, in the list of one notifier, or  *)
(* its semaphore has been posted, and no two of these; a cancelled wait    *)
(* may carry the latter two into its next round, or into the destructor,   *)
(* but only with the spurious flag set.                                    *)
(***************************************************************************)
MayBeWoken(w) == \/ pc[w] \in Watched
                 \/ pc[w] \in {"prepare", "destroy"} /\ spurious[w]

ContextOK(w) ==
    /\ w \in waitset => pc[w] \in Watched /\ in_waitset[w] /\ sema[w] = 0
    /\ in_waitset[w] => w \in waitset \/ pc[w] = "insert"
    /\ pc[w] = "insert" => in_waitset[w]
    /\ sema[w] = 1 => ~in_waitset[w] /\ MayBeWoken(w)
    /\ spurious[w] => pc[w] \in {"cancelLock", "prepare", "destroy"}
    /\ pc[w] = "cancelLock" => spurious[w]
    /\ pc[w] # "out" => context[w] \in Contexts

ListOK(w, n) ==
    w \in temp[n] => /\ ~in_waitset[w] /\ sema[w] = 0 /\ MayBeWoken(w)
                     /\ npc[n] = "post"
                     /\ \A m \in Notifier : w \in temp[m] => m = n

IInv == /\ TypeOK
        /\ \A w \in Waiter : ContextOK(w) /\ \A n \in Notifier : ListOK(w, n)

\* Nobody waits or notifies at first.
LEMMA InitIInv == Init => IInv
  BY Bounds DEF Init, IInv, TypeOK, ContextOK, ListOK, Kind, MayBeWoken, Watched

\* What the parts of a step do to the types.
LEMMA GotoTypes ==
  ASSUME TypeOK, NEW w \in Waiter, NEW from,
         NEW to \in {"out", "prepare", "insert", "check", "commit", "sleep", "woken",
                    "cancel", "cancelLock", "destroy"}, Goto(w, from, to)
  PROVE  pc' \in [Waiter -> {"out", "prepare", "insert", "check", "commit", "sleep", "woken",
                            "cancel", "cancelLock", "destroy"}]
  BY DEF TypeOK, Goto

LEMMA NGotoTypes ==
  ASSUME TypeOK, NEW n \in Notifier, NEW from, NEW to \in {"idle", "test", "lock", "post"},
         NGoto(n, from, to)
  PROVE  npc' \in [Notifier -> {"idle", "test", "lock", "post"}]
  BY DEF TypeOK, NGoto

LEMMA PumpTypes ==
  ASSUME TypeOK, NEW w \in Waiter, PumpSpurious(w)
  PROVE  spurious' \in [Waiter -> BOOLEAN] /\ sema' \in [Waiter -> {0, 1}]
<1>1. spurious \in [Waiter -> BOOLEAN] /\ sema \in [Waiter -> {0, 1}]
  BY DEF TypeOK
<1>2. CASE ~spurious[w]
  BY <1>1, <1>2 DEF PumpSpurious
<1>3. CASE spurious[w]
  BY <1>1, <1>3 DEF PumpSpurious, P
<1> QED
  BY <1>2, <1>3

LEMMA ForgetTypes ==
  ASSUME TypeOK, NEW n \in Notifier, Forget(n)
  PROVE  kind' \in [Notifier -> Kind] /\ level' \in [Notifier -> 0 .. MaxEvents]
<1>1. kind \in [Notifier -> Kind] /\ level \in [Notifier -> 0 .. MaxEvents]
  BY DEF TypeOK
<1>2. "notify" \in Kind /\ 0 \in 0 .. MaxEvents
  BY Bounds DEF Kind
<1> QED
  BY <1>1, <1>2 DEF Forget

LEMMA PrepareWaitTypes ==
  ASSUME TypeOK, NEW w \in Waiter, PrepareWait(w) PROVE TypeOK'
<1>1. /\ Goto(w, "prepare", "insert") /\ PumpSpurious(w)
      /\ in_waitset' = [in_waitset EXCEPT ![w] = TRUE]
      /\ UNCHANGED <<waitset, epoch, thr_epoch, aborted, context, satisfied, npc, kind, level, temp,
                     events, calls>>
  BY DEF PrepareWait, monitor, notifier, cond
<1>2. in_waitset' \in [Waiter -> BOOLEAN]
  BY <1>1 DEF TypeOK
<1>3. pc' \in [Waiter -> {"out", "prepare", "insert", "check", "commit", "sleep", "woken",
                         "cancel", "cancelLock", "destroy"}]
  BY <1>1, GotoTypes
<1>4. spurious' \in [Waiter -> BOOLEAN] /\ sema' \in [Waiter -> {0, 1}]
  BY <1>1, PumpTypes
<1> QED
  BY <1>1, <1>2, <1>3, <1>4 DEF TypeOK

LEMMA CancelLockedTypes ==
  ASSUME TypeOK, NEW w \in Waiter, CancelLocked(w) PROVE TypeOK'
<1>1. /\ Goto(w, "cancelLock", AfterCancel(w)) /\ Remove(w)
      /\ UNCHANGED <<epoch, thr_epoch, aborted, context, sema, satisfied, npc, kind, level, temp,
                     events, calls>>
  BY DEF CancelLocked, notifier, cond
<1>2. pc' \in [Waiter -> {"out", "prepare", "insert", "check", "commit", "sleep", "woken",
                         "cancel", "cancelLock", "destroy"}]
  BY <1>1, GotoTypes DEF AfterCancel
<1>3. waitset' \subseteq Waiter /\ in_waitset' \in [Waiter -> BOOLEAN] /\ spurious' \in [Waiter -> BOOLEAN]
  <2>1. waitset \subseteq Waiter /\ in_waitset \in [Waiter -> BOOLEAN] /\ spurious \in [Waiter -> BOOLEAN]
    BY DEF TypeOK
  <2> QED
    BY <1>1, <2>1 DEF Remove
<1> QED
  BY <1>1, <1>2, <1>3 DEF TypeOK

LEMMA DestroyTypes ==
  ASSUME TypeOK, NEW w \in Waiter, Destroy(w) PROVE TypeOK'
<1>1. /\ Goto(w, "destroy", "out") /\ PumpSpurious(w)
      /\ context' = [context EXCEPT ![w] = 0]
      /\ thr_epoch' = [thr_epoch EXCEPT ![w] = 0]
      /\ aborted' = [aborted EXCEPT ![w] = FALSE]
      /\ satisfied' = [satisfied EXCEPT ![w] = FALSE]
      /\ UNCHANGED <<waitset, epoch, in_waitset, npc, kind, level, temp, events, calls>>
  BY DEF Destroy, Leave, monitor, notifier, cond
<1>2. pc' \in [Waiter -> {"out", "prepare", "insert", "check", "commit", "sleep", "woken",
                         "cancel", "cancelLock", "destroy"}]
  BY <1>1, GotoTypes
<1>3. spurious' \in [Waiter -> BOOLEAN] /\ sema' \in [Waiter -> {0, 1}]
  BY <1>1, PumpTypes
<1>4. context' \in [Waiter -> Nat] /\ thr_epoch' \in [Waiter -> Nat]
  BY <1>1 DEF TypeOK
<1>5. aborted' \in [Waiter -> BOOLEAN] /\ satisfied' \in [Waiter -> BOOLEAN]
  BY <1>1 DEF TypeOK
<1> QED
  BY <1>1, <1>2, <1>3, <1>4, <1>5 DEF TypeOK

LEMMA TestEmptyTypes ==
  ASSUME TypeOK, NEW n \in Notifier, TestEmpty(n) PROVE TypeOK'
<1>1. /\ NGoto(n, "test", IF waitset = {} THEN "idle" ELSE "lock") /\ Forget(n)
      /\ UNCHANGED <<waitset, epoch, thr_epoch, in_waitset, spurious, aborted, context, sema, pc,
                     satisfied, temp, events, calls>>
  BY DEF TestEmpty, monitor, thr, waiter, cond
<1>2. npc' \in [Notifier -> {"idle", "test", "lock", "post"}]
  BY <1>1, NGotoTypes
<1>3. kind' \in [Notifier -> Kind] /\ level' \in [Notifier -> 0 .. MaxEvents]
  BY <1>1, ForgetTypes
<1> QED
  BY <1>1, <1>2, <1>3 DEF TypeOK

LEMMA CollectTypes ==
  ASSUME TypeOK, NEW n \in Notifier, Collect(n) PROVE TypeOK'
<1>1. PICK R \in Removed(n) : /\ NGoto(n, "lock", IF R = {} THEN "idle" ELSE "post")
                              /\ waitset' = waitset \ R
                              /\ temp' = [temp EXCEPT ![n] = R]
                              /\ Unmark(R)
  BY DEF Collect
<1>2. /\ epoch' = (epoch + 1) % EpochRange /\ Forget(n)
      /\ UNCHANGED <<thr_epoch, spurious, aborted, context, sema, pc, satisfied, events, calls>>
  BY DEF Collect, waiter, cond
<1>3. npc' \in [Notifier -> {"idle", "test", "lock", "post"}]
  BY <1>1, NGotoTypes
<1>4. kind' \in [Notifier -> Kind] /\ level' \in [Notifier -> 0 .. MaxEvents]
  BY <1>2, ForgetTypes
<1>5. R \subseteq Waiter
  BY <1>1 DEF Removed, TypeOK
<1>6. temp' \in [Notifier -> SUBSET Waiter] /\ waitset' \subseteq Waiter
  <2>1. temp \in [Notifier -> SUBSET Waiter] /\ waitset \subseteq Waiter
    BY DEF TypeOK
  <2> QED
    BY <1>1, <1>5, <2>1
<1>7. in_waitset' \in [Waiter -> BOOLEAN]
  <2>1. in_waitset' = [w \in Waiter |-> in_waitset[w] /\ w \notin R]
    BY <1>1 DEF Unmark
  <2> QED
    BY <2>1
<1>8. epoch' \in Nat
  <2>1. epoch \in Nat
    BY DEF TypeOK
  <2> QED
    BY <1>2, <2>1, Bounds
<1> QED
  BY <1>2, <1>3, <1>4, <1>6, <1>7, <1>8 DEF TypeOK

LEMMA PostTypes ==
  ASSUME TypeOK, NEW n \in Notifier, Post(n), \A w \in temp[n] : sema[w] = 0 PROVE TypeOK'
<1>1. PICK v \in temp[n] :
             /\ NGoto(n, "post", IF temp[n] = {v} THEN "idle" ELSE "post")
             /\ temp' = [temp EXCEPT ![n] = @ \ {v}]
             /\ sema' = [sema EXCEPT ![v] = @ + 1]
             /\ aborted' = [aborted EXCEPT ![v] = @ \/ kind[n] = "abort_all"]
  BY DEF Post, MarkAborted
<1>2. /\ Forget(n)
      /\ UNCHANGED <<waitset, epoch, thr_epoch, in_waitset, spurious, context, pc, satisfied,
                     events, calls>>
  BY DEF Post, monitor, waiter, cond
<1>3. npc' \in [Notifier -> {"idle", "test", "lock", "post"}]
  BY <1>1, NGotoTypes
<1>4. kind' \in [Notifier -> Kind] /\ level' \in [Notifier -> 0 .. MaxEvents]
  BY <1>2, ForgetTypes
<1>5. temp' \in [Notifier -> SUBSET Waiter]
  <2>1. temp \in [Notifier -> SUBSET Waiter]
    BY DEF TypeOK
  <2> QED
    BY <1>1, <2>1
<1>6. sema' \in [Waiter -> {0, 1}]
  <2>1. sema \in [Waiter -> {0, 1}] /\ v \in Waiter
    BY DEF TypeOK
  <2> QED
    BY <1>1, <2>1
<1>7. aborted' \in [Waiter -> BOOLEAN]
  <2>1. aborted \in [Waiter -> BOOLEAN]
    BY DEF TypeOK
  <2> QED
    BY <1>1, <2>1
<1> QED
  BY <1>2, <1>3, <1>4, <1>5, <1>6, <1>7 DEF TypeOK

\* Steps of a waiter keep every context and list in order.
LEMMA WaiterIInv ==
  ASSUME IInv, NEW w \in Waiter, Enter(w) \/ WaiterStep(w)
  PROVE  IInv'
<1> USE Bounds, ContextsAreTickets DEF IInv, TypeOK, ContextOK, ListOK, MayBeWoken, Watched, Goto,
                monitor, thr, waiter, notifier, cond
<1>1. CASE Enter(w)
  BY <1>1 DEF Enter
<1>2. CASE PrepareWait(w)
  <2>1. CASE spurious[w]
    <3>1. TypeOK'
      BY <1>2, PrepareWaitTypes
    <3>2. \A v \in Waiter : ContextOK(v)'
      BY <1>2, <2>1 DEF PrepareWait, PumpSpurious, P
    <3>3. \A v \in Waiter, n \in Notifier : ListOK(v, n)'
      BY <1>2, <2>1 DEF PrepareWait, PumpSpurious, P
    <3> QED
      BY <3>1, <3>2, <3>3
  <2>2. CASE ~spurious[w]
    BY <1>2, <2>2 DEF PrepareWait, PumpSpurious, P
  <2> QED
    BY <2>1, <2>2
<1>3. CASE Insert(w)
  BY <1>3 DEF Insert
<1>4. CASE Check(w)
  BY <1>4 DEF Check, Until
<1>5. CASE CommitWait(w)
  BY <1>5 DEF CommitWait
<1>6. CASE WakeUp(w)
  BY <1>6 DEF WakeUp, P
<1>7. CASE CheckWoken(w)
  BY <1>7 DEF CheckWoken, Until
<1>8. CASE CancelWait(w)
  BY <1>8 DEF CancelWait, AfterCancel
<1>9. CASE CancelLocked(w)
  <2>1. CASE in_waitset[w]
    <3>1. TypeOK'
      BY <1>9, CancelLockedTypes
    <3>2. \A v \in Waiter : ContextOK(v)'
      BY <1>9, <2>1 DEF CancelLocked, Remove, AfterCancel
    <3>3. \A v \in Waiter, n \in Notifier : ListOK(v, n)'
      BY <1>9, <2>1 DEF CancelLocked, Remove, AfterCancel
    <3> QED
      BY <3>1, <3>2, <3>3
  <2>2. CASE ~in_waitset[w]
    BY <1>9, <2>2 DEF CancelLocked, Remove, AfterCancel
  <2> QED
    BY <2>1, <2>2
<1>10. CASE Destroy(w)
  <2>1. CASE spurious[w]
    <3>1. TypeOK'
      BY <1>10, DestroyTypes
    <3>2. \A v \in Waiter : ContextOK(v)'
      BY <1>10, <2>1 DEF Destroy, Leave, PumpSpurious, P
    <3>3. \A v \in Waiter, n \in Notifier : ListOK(v, n)'
      BY <1>10, <2>1 DEF Destroy, Leave, PumpSpurious, P
    <3> QED
      BY <3>1, <3>2, <3>3
  <2>2. CASE ~spurious[w]
    BY <1>10, <2>2 DEF Destroy, Leave, PumpSpurious, P
  <2> QED
    BY <2>1, <2>2
<1> QED
  BY <1>1, <1>2, <1>3, <1>4, <1>5, <1>6, <1>7, <1>8, <1>9, <1>10 DEF WaiterStep

\* Steps of a notifier do, too.
LEMMA NotifierIInv ==
  ASSUME IInv, NEW n \in Notifier,
         NotifierStep(n) \/ \E k \in Kind : Publish(n, k) \/ Call(n, k)
  PROVE  IInv'
<1> USE Bounds DEF IInv, TypeOK, ContextOK, ListOK, MayBeWoken, Watched, NGoto, Forget, Kind,
                monitor, thr, waiter, notifier, cond
<1>1. ASSUME NEW k \in Kind, Publish(n, k)
      PROVE  IInv'
  BY <1>1 DEF Publish
<1>2. ASSUME NEW k \in Kind, Call(n, k)
      PROVE  IInv'
  BY <1>2 DEF Call
<1>3. CASE TestEmpty(n)
  <2>1. TypeOK'
    BY <1>3, TestEmptyTypes
  <2>2. \A v \in Waiter : ContextOK(v)'
    BY <1>3 DEF TestEmpty
  <2>3. \A v \in Waiter, m \in Notifier : ListOK(v, m)'
    BY <1>3 DEF TestEmpty
  <2> QED
    BY <2>1, <2>2, <2>3
<1>4. CASE Collect(n)
  <2>1. PICK R \in Removed(n) : /\ NGoto(n, "lock", IF R = {} THEN "idle" ELSE "post")
                                /\ waitset' = waitset \ R
                                /\ temp' = [temp EXCEPT ![n] = R]
                                /\ Unmark(R)
    BY <1>4 DEF Collect
  <2>2. R \subseteq waitset
    BY <2>1 DEF Removed
  <2>4. TypeOK'
    BY <1>4, CollectTypes
  <2>5. \A v \in Waiter : ContextOK(v)'
    BY <1>4, <2>1, <2>2 DEF Collect, Unmark
  <2>6. ASSUME NEW v \in Waiter, NEW m \in Notifier, v \in temp'[m]
        PROVE  ListOK(v, m)'
    <3>1. CASE v \in R
      <4>1. m = n /\ npc'[n] = "post"
        BY <1>4, <2>1, <2>2, <2>6, <3>1
      <4>2. ~in_waitset'[v] /\ sema'[v] = 0 /\ MayBeWoken(v)'
        BY <1>4, <2>1, <2>2, <3>1 DEF Collect, Unmark
      <4>3. \A l \in Notifier : v \in temp'[l] => l = m
        BY <1>4, <2>1, <2>2, <3>1, <4>1
      <4> QED
        BY <4>1, <4>2, <4>3
    <3>2. CASE v \notin R
      <4>1. m # n /\ v \in temp[m] /\ npc'[m] = npc[m]
        BY <1>4, <2>1, <2>2, <2>6, <3>2
      <4>2. ~in_waitset'[v] /\ sema'[v] = 0 /\ MayBeWoken(v)'
        BY <1>4, <2>1, <2>2, <3>2, <4>1 DEF Collect, Unmark
      <4>3. \A l \in Notifier : v \in temp'[l] => l = m
        BY <1>4, <2>1, <2>2, <3>2, <4>1
      <4> QED
        BY <4>1, <4>2, <4>3
    <3> QED
      BY <3>1, <3>2
  <2> QED
    BY <2>4, <2>5, <2>6
<1>5. CASE Post(n)
  <2>1. PICK v \in temp[n] :
               /\ NGoto(n, "post", IF temp[n] = {v} THEN "idle" ELSE "post")
               /\ temp' = [temp EXCEPT ![n] = @ \ {v}]
               /\ sema' = [sema EXCEPT ![v] = @ + 1]
               /\ aborted' = [aborted EXCEPT ![v] = @ \/ kind[n] = "abort_all"]
    BY <1>5 DEF Post, MarkAborted
  <2>2. sema[v] = 0 /\ v \in Waiter
    OBVIOUS
  <2>3. sema' = [sema EXCEPT ![v] = 1]
    BY <2>1, <2>2
  <2>4. TypeOK'
    BY <1>5, PostTypes
  <2>5. \A u \in Waiter : ContextOK(u)'
    BY <1>5, <2>1, <2>2, <2>3 DEF Post, MarkAborted
  <2>6. \A u \in Waiter, m \in Notifier : ListOK(u, m)'
    BY <1>5, <2>1, <2>2, <2>3 DEF Post, MarkAborted
  <2> QED
    BY <2>4, <2>5, <2>6
<1> QED
  BY <1>1, <1>2, <1>3, <1>4, <1>5 DEF NotifierStep

\* Every context is where the waiter and the notifiers believe it to be, in
\* every reachable state.
THEOREM InductiveInvariant == Spec => []IInv
<1>1. IInv /\ [Next]_vars => IInv'
  <2> SUFFICES ASSUME IInv, [Next]_vars PROVE IInv'
    OBVIOUS
  <2>1. CASE Next
    BY <2>1, WaiterIInv, NotifierIInv DEF Next
  <2>2. CASE UNCHANGED vars
    BY <2>2 DEF IInv, TypeOK, ContextOK, ListOK, MayBeWoken, Watched, Kind, vars, monitor,
                thr, waiter, notifier, cond
  <2> QED
    BY <2>1, <2>2
<1> QED
  BY <1>1, InitIInv, PTL DEF Spec

\* Every variable keeps its type; in particular no semaphore is ever posted
\* twice in a row (the assertion in binary_semaphore::V).
THEOREM TypeCorrect == Spec => []TypeOK
  BY InductiveInvariant, PTL DEF IInv

\* No notifier posts a semaphore in a thread_context that has left its scope.
THEOREM NoDangling == Spec => []NoDanglingContext
<1>1. IInv => NoDanglingContext
  BY DEF IInv, ContextOK, ListOK, MayBeWoken, Watched, NoDanglingContext
<1> QED
  BY <1>1, InductiveInvariant, PTL

\* A context is in at most one of the wait set, the lists and the semaphores.
THEOREM AtMostOneWakeup == Spec => []OneWakeup
<1>1. IInv => OneWakeup
  BY DEF IInv, ContextOK, ListOK, OneWakeup
<1> QED
  BY <1>1, InductiveInvariant, PTL

(***************************************************************************)
(* No wakeup is lost.  The invariant is inductive relative to IInv: the    *)
(* event that makes a condition true is published by a notifier that has   *)
(* yet to read the wait set, which is not empty; and what it then removes  *)
(* includes every context whose condition it made true.                    *)
(***************************************************************************)
\* A waiter that inserts itself checks its condition afterwards.
LEMMA WaiterNoLostWakeup ==
  ASSUME IInv, NoLostWakeup, NEW w \in Waiter, Enter(w) \/ WaiterStep(w)
  PROVE  NoLostWakeup'
<1> USE ContextsAreTickets DEF NoLostWakeup, Until, IInv, TypeOK, ContextOK, Watched, Goto,
                monitor, thr, waiter, notifier, cond
<1>1. CASE Enter(w)
  BY <1>1 DEF Enter
<1>2. CASE PrepareWait(w)
  BY <1>2 DEF PrepareWait
<1>3. CASE Insert(w)
  BY <1>3 DEF Insert
<1>4. CASE Check(w)
  BY <1>4 DEF Check
<1>5. CASE CommitWait(w)
  BY <1>5 DEF CommitWait
<1>6. CASE WakeUp(w)
  BY <1>6 DEF WakeUp
<1>7. CASE CheckWoken(w)
  BY <1>7 DEF CheckWoken
<1>8. CASE CancelWait(w)
  BY <1>8 DEF CancelWait, AfterCancel
<1>9. CASE CancelLocked(w)
  BY <1>9 DEF CancelLocked, Remove, AfterCancel
<1>10. CASE Destroy(w)
  BY <1>10 DEF Destroy, Leave
<1> QED
  BY <1>1, <1>2, <1>3, <1>4, <1>5, <1>6, <1>7, <1>8, <1>9, <1>10 DEF WaiterStep

\* What a notifier does to its own locals is no concern of the others.
LEMMA OwnLocals ==
  ASSUME TypeOK, NEW n \in Notifier, NEW from, NEW to, NGoto(n, from, to), Forget(n)
  PROVE  \A m \in Notifier : m # n => npc'[m] = npc[m] /\ kind'[m] = kind[m] /\ level'[m] = level[m]
<1>1. npc \in [Notifier -> {"idle", "test", "lock", "post"}] /\ npc' = [npc EXCEPT ![n] = to]
  BY DEF TypeOK, NGoto
<1>2. kind \in [Notifier -> Kind] /\ level \in [Notifier -> 0 .. MaxEvents]
  BY DEF TypeOK
<1>3. \/ kind' = [kind EXCEPT ![n] = "notify"] /\ level' = [level EXCEPT ![n] = 0]
      \/ UNCHANGED <<kind, level>>
  BY DEF Forget
<1> QED
  BY <1>1, <1>2, <1>3

\* A notifier that has taken its contexts out of the wait set is not the one
\* that somebody in the wait set counts on.
LEMMA PostNoLostWakeup ==
  ASSUME TypeOK, NoLostWakeup, NEW n \in Notifier, Post(n) PROVE NoLostWakeup'
<1>1. npc[n] = "post"
  BY DEF Post, NGoto
<1>2. \A m \in Notifier : m # n => npc'[m] = npc[m] /\ kind'[m] = kind[m] /\ level'[m] = level[m]
  <2>1. Forget(n) /\ \E to : NGoto(n, "post", to)
    BY DEF Post
  <2> QED
    BY <2>1, OwnLocals
<1>3. UNCHANGED <<pc, waitset, context, events>>
  BY DEF Post, monitor, waiter, cond
<1>4. \A w \in Waiter : Until(w)' <=> Until(w)
  BY <1>3 DEF Until
<1> SUFFICES ASSUME NEW w \in Waiter, pc'[w] \in {"commit", "sleep"}, w \in waitset', Until(w)'
             PROVE  \E m \in Notifier : /\ npc'[m] \in {"test", "lock"}
                                        /\ kind'[m] \in {"notify", "notify_all"}
                                        /\ context'[w] <= level'[m]
  BY DEF NoLostWakeup
<1>5. PICK m \in Notifier : /\ npc[m] \in {"test", "lock"}
                            /\ kind[m] \in {"notify", "notify_all"}
                            /\ context[w] <= level[m]
  BY <1>3, <1>4 DEF NoLostWakeup
<1>6. m # n
  BY <1>1, <1>5
<1> QED
  BY <1>2, <1>3, <1>5, <1>6

\* A context that the operation leaves in the wait set is not one whose
\* condition its event made true; who has more to come is another.
LEMMA CollectNoLostWakeup ==
  ASSUME TypeOK, NoLostWakeup, NEW n \in Notifier, Collect(n) PROVE NoLostWakeup'
<1>1. PICK R \in Removed(n) : NGoto(n, "lock", IF R = {} THEN "idle" ELSE "post") /\ waitset' = waitset \ R
  BY DEF Collect
<1>2. \A m \in Notifier : m # n => npc'[m] = npc[m] /\ kind'[m] = kind[m] /\ level'[m] = level[m]
  <2>1. Forget(n)
    BY DEF Collect
  <2> QED
    BY <1>1, <2>1, OwnLocals
<1>3. UNCHANGED <<pc, context, events>>
  BY DEF Collect, waiter, cond
<1>4. \A w \in Waiter : Until(w)' <=> Until(w)
  BY <1>3 DEF Until
<1> SUFFICES ASSUME NEW w \in Waiter, pc'[w] \in {"commit", "sleep"}, w \in waitset', Until(w)'
             PROVE  \E m \in Notifier : /\ npc'[m] \in {"test", "lock"}
                                        /\ kind'[m] \in {"notify", "notify_all"}
                                        /\ context'[w] <= level'[m]
  BY DEF NoLostWakeup
<1>5. w \in waitset /\ w \notin R
  BY <1>1
<1>6. PICK m \in Notifier : /\ npc[m] \in {"test", "lock"}
                            /\ kind[m] \in {"notify", "notify_all"}
                            /\ context[w] <= level[m]
  BY <1>3, <1>4, <1>5 DEF NoLostWakeup
<1>7. m # n
  <2>1. CASE kind[n] = "notify"
    <3>1. R = {v \in waitset : context[v] <= level[n]}
      BY <1>1, <2>1 DEF Removed
    <3> QED
      BY <1>5, <1>6, <3>1
  <2>2. CASE kind[n] = "notify_all"
    <3>1. R = waitset
      BY <1>1, <2>2 DEF Removed
    <3> QED
      BY <1>5, <3>1
  <2> QED
    BY <1>6, <2>1, <2>2
<1> QED
  BY <1>2, <1>3, <1>6, <1>7

\* A notifier that takes a context out of the wait set, or leaves it there
\* because its predicate is not met, loses no wakeup.
LEMMA NotifierNoLostWakeup ==
  ASSUME IInv, NoLostWakeup, NEW n \in Notifier,
         NotifierStep(n) \/ \E k \in Kind : Publish(n, k) \/ Call(n, k)
  PROVE  NoLostWakeup'
<1> USE DEF NoLostWakeup, Until, IInv, TypeOK, NGoto, Forget, monitor, thr, waiter, notifier, cond
<1>1. ASSUME NEW k \in Kind, Publish(n, k)
      PROVE  NoLostWakeup'
  BY <1>1 DEF Publish
<1>2. ASSUME NEW k \in Kind, Call(n, k)
      PROVE  NoLostWakeup'
  BY <1>2 DEF Call
<1>3. CASE TestEmpty(n)
  BY <1>3 DEF TestEmpty
<1>4. CASE Collect(n)
  BY <1>4, CollectNoLostWakeup
<1>5. CASE Post(n)
  BY <1>5, PostNoLostWakeup
<1> QED
  BY <1>1, <1>2, <1>3, <1>4, <1>5 DEF NotifierStep

\* A thread does not sleep in the wait set while its condition holds, unless
\* the notifier that will wake it is on its way.
THEOREM NoWakeupIsLost == Spec => []NoLostWakeup
<1>1. Init => NoLostWakeup
  BY DEF Init, NoLostWakeup
<1>2. IInv /\ NoLostWakeup /\ [Next]_vars => NoLostWakeup'
  <2> SUFFICES ASSUME IInv, NoLostWakeup, [Next]_vars PROVE NoLostWakeup'
    OBVIOUS
  <2>1. CASE Next
    BY <2>1, WaiterNoLostWakeup, NotifierNoLostWakeup DEF Next
  <2>2. CASE UNCHANGED vars
    BY <2>2 DEF NoLostWakeup, Until, vars, monitor, thr, waiter, notifier, cond
  <2> QED
    BY <2>1, <2>2
<1> QED
  BY <1>1, <1>2, InductiveInvariant, PTL DEF Spec


(***************************************************************************)
(* The abstract monitor is implemented: the initial states correspond, and *)
(* every step is one of the abstract monitor, or leaves it as it is.       *)
(***************************************************************************)

Woken == {v \in Waiter : pc[v] \in Watched /\ v \notin waitset}
Aborted == {v \in Waiter : aborted[v] \/ AbortDue(v)}
Context == [v \in Waiter |-> IF pc[v] \in Watched THEN context[v] ELSE 0]

\* A waiter that is no longer watched has dropped out of the abstract monitor.
LEMMA Dropped ==
  ASSUME TypeOK, NEW w \in Waiter, pc'[w] \notin Watched,
         pc' = [pc EXCEPT ![w] = pc'[w]], waitset' = waitset \ {w}, UNCHANGED context
  PROVE  Woken' = Woken \ {w} /\ Context' = [Context EXCEPT ![w] = 0]
  BY DEF TypeOK, Watched, Woken, Context

\* A waiter joins, withdraws, resumes or leaves, or does nothing of the kind.
LEMMA WaiterRefines ==
  ASSUME IInv, NEW w \in Waiter, Enter(w) \/ WaiterStep(w)
  PROVE  \/ \E c \in Contexts : Abstract!Join(w, c)
         \/ Abstract!Withdraw(w) \/ Abstract!Resume(w) \/ Abstract!Leave(w)
         \/ UNCHANGED Abstract!monitorVars
<1> USE DEF IInv, TypeOK, ContextOK, ListOK, MayBeWoken, Watched, AbortDue, Goto,
            monitor, thr, waiter, notifier, cond, Abstract!monitorVars
<1>1. CASE Enter(w)
  BY <1>1 DEF Enter
<1>2. CASE PrepareWait(w)
  BY <1>2 DEF PrepareWait
<1>3. CASE Insert(w)
  <2>1. w \notin waitset \cup Woken
    BY <1>3 DEF Insert, Woken
  <2>2. Woken' = Woken
    BY <1>3 DEF Insert, Woken
  <2>3. Context' = [Context EXCEPT ![w] = context[w]]
    BY <1>3 DEF Insert, Context
  <2>4. context[w] \in Contexts
    BY <1>3 DEF Insert
  <2>5. Aborted' = Aborted
    BY <1>3 DEF Insert, Aborted
  <2> QED
    BY <1>3, <2>1, <2>2, <2>3, <2>4, <2>5 DEF Insert, Abstract!Join, Woken, Context, Aborted
<1>4. CASE Check(w)
  BY <1>4 DEF Check
<1>5. CASE CommitWait(w)
  BY <1>5 DEF CommitWait
<1>6. CASE WakeUp(w)
  <2>1. w \notin waitset
    BY <1>6 DEF WakeUp, P
  <2>2. pc' = [pc EXCEPT ![w] = pc'[w]] /\ pc'[w] \notin Watched
    BY <1>6 DEF WakeUp
  <2>3. Woken' = Woken \ {w} /\ Context' = [Context EXCEPT ![w] = 0]
    <3>1. waitset' = waitset \ {w}
      BY <1>6, <2>1 DEF WakeUp
    <3> QED
      BY <1>6, <2>2, <3>1, Dropped DEF WakeUp
  <2> QED
    BY <1>6, <2>1, <2>3 DEF WakeUp, Abstract!Resume, Abstract!Drop, Woken, Context
<1>7. CASE CheckWoken(w)
  BY <1>7 DEF CheckWoken
<1>8. CASE CancelWait(w)
  <2>1. CASE in_waitset[w]
    BY <1>8, <2>1 DEF CancelWait
  <2>2. CASE ~in_waitset[w]
    <3>1. w \notin waitset
      BY <2>2
    <3>2. pc' = [pc EXCEPT ![w] = pc'[w]] /\ pc'[w] \notin Watched
      BY <1>8, <2>2 DEF CancelWait, AfterCancel
    <3>3. Woken' = Woken \ {w} /\ Context' = [Context EXCEPT ![w] = 0]
      <4>1. waitset' = waitset \ {w}
        BY <1>8, <3>1 DEF CancelWait
      <4> QED
        BY <1>8, <3>2, <4>1, Dropped DEF CancelWait
    <3> QED
      BY <1>8, <3>1, <3>3 DEF CancelWait, Abstract!Withdraw, Abstract!Drop, Woken, Context
  <2> QED
    BY <2>1, <2>2
<1>9. CASE CancelLocked(w)
  <2>1. waitset' = waitset \ {w}
    BY <1>9 DEF CancelLocked, Remove
  <2>2. pc' = [pc EXCEPT ![w] = pc'[w]] /\ pc'[w] \notin Watched
    BY <1>9 DEF CancelLocked, AfterCancel
  <2>3. Woken' = Woken \ {w} /\ Context' = [Context EXCEPT ![w] = 0]
    BY <1>9, <2>1, <2>2, Dropped DEF CancelLocked
  <2>4. Aborted' = Aborted
    BY <1>9 DEF CancelLocked, Aborted
  <2>5. w \in waitset \cup Woken
    BY <1>9 DEF CancelLocked, Woken
  <2> QED
    BY <2>1, <2>3, <2>4, <2>5 DEF Abstract!Withdraw, Abstract!Drop, Woken, Context, Aborted
<1>10. CASE Destroy(w)
  <2>1. w \notin waitset
    BY <1>10 DEF Destroy, Leave
  <2>2. \A n \in Notifier : w \notin temp[n]
    BY <1>10 DEF Destroy, Leave, PumpSpurious, P
  <2>3. Aborted' = Aborted \ {w}
    BY <1>10, <2>2 DEF Destroy, Leave, Aborted
  <2>4. waitset' = waitset \ {w} /\ UNCHANGED waitset
    BY <1>10, <2>1 DEF Destroy, Leave
  <2>5. Woken' = Woken \ {w}
    BY <1>10 DEF Destroy, Leave, Woken
  <2>6. Context' = [Context EXCEPT ![w] = 0]
    BY <1>10 DEF Destroy, Leave, Context
  <2> QED
    BY <2>3, <2>4, <2>5, <2>6 DEF Abstract!Leave, Abstract!Drop, Woken, Context, Aborted
<1> QED
  BY <1>1, <1>2, <1>3, <1>4, <1>5, <1>6, <1>7, <1>8, <1>9, <1>10 DEF WaiterStep

\* The abort that a notifier is about to deliver counts as delivered.
LEMMA PostAborted ==
  ASSUME IInv, NEW n \in Notifier, Post(n) PROVE Aborted' = Aborted
<1>1. PICK v \in temp[n] :
             /\ NGoto(n, "post", IF temp[n] = {v} THEN "idle" ELSE "post")
             /\ temp' = [temp EXCEPT ![n] = @ \ {v}]
             /\ aborted' = [aborted EXCEPT ![v] = @ \/ kind[n] = "abort_all"]
  BY DEF Post, MarkAborted
<1>2. TypeOK /\ v \in Waiter /\ \A m \in Notifier : v \in temp[m] => m = n
  BY DEF IInv, TypeOK, ListOK
<1>3. \A m \in Notifier : m # n => kind'[m] = kind[m] /\ temp'[m] = temp[m]
  <2>1. Forget(n)
    BY DEF Post
  <2> QED
    BY <1>1, <1>2, <2>1, OwnLocals DEF TypeOK
<1>4. temp'[n] = temp[n] \ {v} /\ (temp'[n] # {} => kind'[n] = kind[n])
  <2>1. temp'[n] = temp[n] \ {v}
    BY <1>1, <1>2 DEF TypeOK
  <2>2. npc'[n] = IF temp[n] = {v} THEN "idle" ELSE "post"
    BY <1>1, <1>2 DEF TypeOK, NGoto
  <2>3. npc'[n] # "idle" => kind' = kind
    BY DEF Post, Forget
  <2> QED
    BY <2>1, <2>2, <2>3
<1>5. ASSUME NEW u \in Waiter
      PROVE  (aborted[u] \/ AbortDue(u))' <=> aborted[u] \/ AbortDue(u)
  <2>1. CASE u = v
    <3>1. AbortDue(u) <=> kind[n] = "abort_all"
      BY <1>2, <2>1 DEF AbortDue
    <3>2. ~AbortDue(u)'
      BY <1>2, <1>3, <1>4, <2>1 DEF AbortDue
    <3>3. aborted'[u] <=> aborted[u] \/ kind[n] = "abort_all"
      BY <1>1, <1>2, <2>1 DEF TypeOK
    <3> QED
      BY <3>1, <3>2, <3>3
  <2>2. CASE u # v
    <3>1. aborted'[u] = aborted[u]
      BY <1>1, <1>2, <2>2 DEF TypeOK
    <3>2. AbortDue(u)' <=> AbortDue(u)
      <4>1. \A m \in Notifier : u \in temp'[m] <=> u \in temp[m]
        BY <1>3, <1>4, <2>2
      <4>2. \A m \in Notifier : u \in temp'[m] => kind'[m] = kind[m]
        BY <1>3, <1>4
      <4> QED
        BY <4>1, <4>2 DEF AbortDue
    <3> QED
      BY <3>1, <3>2
  <2> QED
    BY <2>1, <2>2
<1> QED
  BY <1>5 DEF Aborted

\* A notifier that has the mutex takes its contexts out in one step.
LEMMA CollectRefines ==
  ASSUME IInv, NEW n \in Notifier, Collect(n)
  PROVE  \/ \E l \in 0 .. MaxEvents : Abstract!Notify(l)
         \/ Abstract!NotifyOne \/ Abstract!NotifyAll \/ Abstract!AbortAll
         \/ UNCHANGED Abstract!monitorVars
<1>1. PICK R \in Removed(n) : /\ waitset' = waitset \ R
                              /\ temp' = [temp EXCEPT ![n] = R]
                              /\ NGoto(n, "lock", IF R = {} THEN "idle" ELSE "post")
  BY DEF Collect
<1>2. TypeOK /\ R \subseteq waitset /\ waitset \subseteq Waiter
  BY <1>1 DEF Removed, IInv, TypeOK
<1>3. UNCHANGED <<pc, context, aborted>>
  BY DEF Collect, waiter
<1>4. Woken' = Woken \cup R
  <2>1. \A v \in R : v \in Waiter /\ pc[v] \in Watched
    BY <1>2 DEF IInv, ContextOK
  <2> QED
    BY <1>1, <1>3, <2>1 DEF Woken
<1>5. Context' = Context
  BY <1>3 DEF Context
<1>6. Aborted' = IF kind[n] = "abort_all" THEN Aborted \cup R ELSE Aborted
  <2>1. /\ temp[n] = {} /\ temp'[n] = R /\ (R # {} => kind'[n] = kind[n])
        /\ \A m \in Notifier : m # n => kind'[m] = kind[m] /\ temp'[m] = temp[m]
    <3>1. npc[n] = "lock" /\ npc'[n] = (IF R = {} THEN "idle" ELSE "post") /\ Forget(n)
      BY <1>1, <1>2 DEF TypeOK, NGoto, Collect
    <3>2. temp[n] = {}
      <4>1. \A v \in Waiter : v \notin temp[n]
        BY <3>1 DEF IInv, ListOK
      <4>2. temp[n] \subseteq Waiter
        BY <1>2 DEF TypeOK
      <4> QED
        BY <4>1, <4>2
    <3>3. temp'[n] = R /\ \A m \in Notifier : m # n => temp'[m] = temp[m]
      BY <1>1, <1>2 DEF TypeOK
    <3>4. R # {} => kind' = kind
      BY <3>1 DEF Forget
    <3>5. \A m \in Notifier : m # n => kind'[m] = kind[m]
      BY <1>1, <1>2, <3>1, OwnLocals
    <3> QED
      BY <3>2, <3>3, <3>4, <3>5
  <2>2. ASSUME NEW u \in Waiter
        PROVE  AbortDue(u)' <=> AbortDue(u) \/ (kind[n] = "abort_all" /\ u \in R)
    BY <2>1 DEF AbortDue
  <2>3. \A u \in Waiter : aborted'[u] = aborted[u]
    BY <1>3
  <2> QED
    BY <1>2, <2>2, <2>3 DEF Aborted
<1>7. CASE kind[n] = "notify"
  <2>1. R = {w \in waitset : Context[w] <= level[n]}
    <3>1. R = {w \in waitset : context[w] <= level[n]}
      BY <1>1, <1>7 DEF Removed
    <3>2. \A w \in waitset : Context[w] = context[w]
      BY <1>2 DEF IInv, ContextOK, Context
    <3> QED
      BY <3>1, <3>2
  <2>2. level[n] \in 0 .. MaxEvents
    BY <1>2 DEF TypeOK
  <2>3. Abstract!Notify(level[n])
    BY <1>1, <1>4, <1>5, <1>6, <1>7, <2>1
    DEF Abstract!Notify, Abstract!TakeOut, Abstract!Concerned, Woken, Context, Aborted
  <2> QED
    BY <2>2, <2>3
<1>8. CASE kind[n] = "notify_one"
  <2>1. CASE waitset = {}
    <3>1. R = {}
      BY <1>2, <2>1
    <3>2. UNCHANGED <<waitset, Woken, Context, Aborted>>
      BY <1>1, <1>4, <1>5, <1>6, <1>8, <3>1
    <3> QED
      BY <3>2 DEF Abstract!monitorVars, Woken, Context, Aborted
  <2>2. CASE waitset # {}
    <3>1. \E w \in waitset : R = {w}
      BY <1>1, <1>8, <2>2 DEF Removed
    <3>2. Aborted' = Aborted
      BY <1>6, <1>8
    <3>3. Abstract!NotifyOne
      BY <1>1, <1>4, <1>5, <3>1, <3>2
      DEF Abstract!NotifyOne, Abstract!TakeOut, Woken, Context, Aborted
    <3> QED
      BY <3>3
  <2> QED
    BY <2>1, <2>2
<1>9. CASE kind[n] = "notify_all"
  <2>1. R = waitset /\ Aborted' = Aborted
    BY <1>1, <1>6, <1>9 DEF Removed
  <2>2. Abstract!NotifyAll
    BY <1>1, <1>4, <1>5, <2>1 DEF Abstract!NotifyAll, Abstract!TakeOut, Woken, Context, Aborted
  <2> QED
    BY <2>2
<1>10. CASE kind[n] = "abort_all"
  <2>1. R = waitset /\ Aborted' = Aborted \cup R
    BY <1>1, <1>6, <1>10 DEF Removed
  <2>2. Abstract!AbortAll
    BY <1>1, <1>4, <1>5, <2>1 DEF Abstract!AbortAll, Abstract!TakeOut, Woken, Context, Aborted
  <2> QED
    BY <2>2
<1>11. kind[n] \in Kind
  BY <1>2 DEF TypeOK
<1> QED
  BY <1>7, <1>8, <1>9, <1>10, <1>11 DEF Kind

\* A notifier that has the mutex takes out the contexts its operation
\* concerns; no other step of it changes the abstract monitor.
LEMMA NotifierRefines ==
  ASSUME IInv, NEW n \in Notifier,
         NotifierStep(n) \/ \E k \in Kind : Publish(n, k) \/ Call(n, k)
  PROVE  \/ \E l \in 0 .. MaxEvents : Abstract!Notify(l)
         \/ Abstract!NotifyOne \/ Abstract!NotifyAll \/ Abstract!AbortAll
         \/ UNCHANGED Abstract!monitorVars
<1> USE DEF IInv, TypeOK, ContextOK, ListOK, AbortDue, NGoto, Forget,
            monitor, thr, waiter, notifier, cond
<1>1. ASSUME NEW k \in Kind, Publish(n, k)
      PROVE  UNCHANGED Abstract!monitorVars
  <2>1. Aborted' = Aborted
    BY <1>1 DEF Publish, Aborted
  <2> QED
    BY <1>1, <2>1 DEF Publish, Abstract!monitorVars, Aborted
<1>2. ASSUME NEW k \in Kind, Call(n, k)
      PROVE  UNCHANGED Abstract!monitorVars
  <2>1. Aborted' = Aborted
    BY <1>2 DEF Call, Aborted
  <2> QED
    BY <1>2, <2>1 DEF Call, Abstract!monitorVars, Aborted
<1>3. ASSUME TestEmpty(n)
      PROVE  UNCHANGED Abstract!monitorVars
  <2>1. Aborted' = Aborted
    BY <1>3 DEF TestEmpty, Aborted
  <2> QED
    BY <1>3, <2>1 DEF TestEmpty, Abstract!monitorVars, Aborted
<1>4. ASSUME Post(n)
      PROVE  UNCHANGED Abstract!monitorVars
  <2>1. Aborted' = Aborted
    BY <1>4, PostAborted
  <2> QED
    BY <1>4, <2>1 DEF Post, MarkAborted, Abstract!monitorVars, Aborted
<1>5. CASE Collect(n)
  BY <1>5, CollectRefines
<1> QED
  BY <1>1, <1>2, <1>3, <1>4, <1>5 DEF NotifierStep

\* The monitor of the code implements the abstract one.
THEOREM Refinement == Spec => ImplementsMonitor
<1>1. Init => Abstract!Init
  BY DEF Init, Abstract!Init, AbortDue, Watched
<1>2. IInv /\ [Next]_vars => [Abstract!Next]_(Abstract!monitorVars)
  <2> SUFFICES ASSUME IInv, [Next]_vars
               PROVE  [Abstract!Next]_(Abstract!monitorVars)
    OBVIOUS
  <2>1. ASSUME NEW w \in Waiter, Enter(w) \/ WaiterStep(w)
        PROVE  [Abstract!Next]_(Abstract!monitorVars)
    BY <2>1, WaiterRefines DEF Abstract!Next
  <2>2. ASSUME NEW n \in Notifier,
               NotifierStep(n) \/ \E k \in Kind : Publish(n, k) \/ Call(n, k)
        PROVE  [Abstract!Next]_(Abstract!monitorVars)
    BY <2>2, NotifierRefines DEF Abstract!Next
  <2>3. CASE UNCHANGED vars
    BY <2>3 DEF vars, monitor, thr, waiter, notifier, cond, Abstract!monitorVars, AbortDue
  <2> QED
    BY <2>1, <2>2, <2>3 DEF Next
<1> QED
  BY <1>1, <1>2, InductiveInvariant, PTL DEF Spec, ImplementsMonitor, Abstract!Spec

=============================================================================
