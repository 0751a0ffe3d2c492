-------------------------- MODULE TaskGroupContext --------------------------
(***************************************************************************)
(* task_group_context (src/src/tbb/task_group_context.cpp): contexts are   *)
(* bound to a parent, registered in the list of the thread that binds      *)
(* them, cancelled with all their descendants, and destroyed by any        *)
(* thread, while the thread that owns a list may leave                     *)
(* (generic_scheduler::cleanup_local_context_list).  A thread stands for   *)
(* its generic_scheduler and for the head of its list.  Each access to a   *)
(* word that another thread may touch is a step.                           *)
(***************************************************************************)
EXTENDS Naturals, FiniteSets

CONSTANTS
    Thread,
    Context,
    Root,        \* a context that is isolated, the others are bound
    NULL,
    Windows      \* open windows of the code: "copy" and "publish", named where they are used

Assumptions ==
    /\ Root \in Context /\ Thread \cap Context = {} /\ NULL \notin Thread \cup Context
    /\ Windows \subseteq {"copy", "publish"}

VARIABLES
    \* contexts
    kind, parent, owner,
    may_have_children,   \* the contexts that have the state flag
    cancelled,           \* my_cancellation_requested
    next, prev,          \* the links of my_node and of the list heads
    \* schedulers
    local_update, nonlocal_update, list_mutex, epoch,
    present,             \* the threads in the market
    \* the market
    the_epoch, the_mutex,
    \* threads: a call's context, the epoch and flag read, the walk over lists
    pc, ctx, snapshot, at, paint, todo,
    delivered            \* history: contexts whose cancellation has returned

contexts == <<kind, parent, owner, may_have_children, cancelled>>
links == <<next, prev>>
flags == <<local_update, nonlocal_update>>
locks == <<list_mutex, the_mutex>>
epochs == <<epoch, the_epoch>>
walk == <<at, paint, todo>>
locals == <<ctx, snapshot, walk>>
vars == <<contexts, links, flags, locks, epochs, present, pc, locals, delivered>>

Init ==
    /\ kind = [c \in Context |-> IF c = Root THEN "isolated" ELSE "binding_required"]
    /\ parent = [c \in Context |-> NULL] /\ owner = [c \in Context |-> NULL]
    /\ may_have_children = {} /\ cancelled = {}
    /\ next = [x \in Thread \cup Context |-> x] /\ prev = [x \in Thread \cup Context |-> x]
    /\ local_update = [t \in Thread |-> FALSE] /\ nonlocal_update = [t \in Thread |-> 0]
    /\ list_mutex = [t \in Thread |-> NULL] /\ the_mutex = NULL
    /\ epoch = [t \in Thread |-> 0] /\ the_epoch = 0
    /\ present = Thread
    /\ pc = [t \in Thread |-> "idle"] /\ ctx = [t \in Thread |-> NULL]
    /\ snapshot = [t \in Thread |-> 0]
    /\ at = [t \in Thread |-> NULL] /\ paint = [t \in Thread |-> NULL]
    /\ todo = [t \in Thread |-> {}]
    /\ delivered = {}

Set(f, x, v) == [f EXCEPT ![x] = v]
Goto(t, from, to) == pc[t] = from /\ pc' = Set(pc, t, to)
My(t) == ctx[t]

\* What several calls do
Jump(t, from, to) ==
    /\ Goto(t, from, to)
    /\ UNCHANGED <<contexts, links, flags, locks, epochs, present, locals, delivered>>
LockList(t, s, from, to) ==
    /\ Goto(t, from, to) /\ list_mutex[s] = NULL /\ list_mutex' = Set(list_mutex, s, t)
    /\ UNCHANGED <<contexts, links, flags, the_mutex, epochs, present, locals, delivered>>
UnlockList(t, s, from, to) ==
    /\ Goto(t, from, to) /\ list_mutex' = Set(list_mutex, s, NULL)
    /\ UNCHANGED <<contexts, links, flags, the_mutex, epochs, present, locals, delivered>>
LockEpoch(t, from, to) ==
    /\ Goto(t, from, to) /\ the_mutex = NULL /\ the_mutex' = t
    /\ UNCHANGED <<contexts, links, flags, list_mutex, epochs, present, locals, delivered>>
UnlockEpoch(t, from, to) ==
    /\ Goto(t, from, to) /\ the_mutex' = NULL
    /\ UNCHANGED <<contexts, links, flags, list_mutex, epochs, present, locals, delivered>>
SetNext(t, from, to, x, y) ==
    /\ Goto(t, from, to) /\ next' = Set(next, x, y)
    /\ UNCHANGED <<contexts, prev, flags, locks, epochs, present, locals, delivered>>
SetPrev(t, from, to, x, y) ==
    /\ Goto(t, from, to) /\ prev' = Set(prev, x, y)
    /\ UNCHANGED <<contexts, next, flags, locks, epochs, present, locals, delivered>>
SetLocal(t, from, to, on) ==
    /\ Goto(t, from, to) /\ local_update' = Set(local_update, t, on)
    /\ UNCHANGED <<contexts, links, nonlocal_update, locks, epochs, present, locals, delivered>>
SetNonlocal(t, s, from, to, count) ==
    /\ Goto(t, from, to) /\ nonlocal_update' = Set(nonlocal_update, s, count)
    /\ UNCHANGED <<contexts, links, local_update, locks, epochs, present, locals, delivered>>
SetKind(t, from, to, k) ==
    /\ Goto(t, from, to) /\ kind' = Set(kind, My(t), k)
    /\ UNCHANGED <<parent, owner, may_have_children, cancelled, links, flags, locks, epochs, present, locals, delivered>>
\* The copy of the parent's state into the context
StoreState(t, from, to, state) ==
    /\ Goto(t, from, to)
    /\ cancelled' = IF state THEN cancelled \cup {My(t)} ELSE cancelled \ {My(t)}
    /\ UNCHANGED <<kind, parent, owner, may_have_children, links, flags, locks, epochs, present, locals, delivered>>
Snapshot(t, s, from, to) ==
    /\ Goto(t, from, to) /\ snapshot' = Set(snapshot, t, epoch[s])
    /\ UNCHANGED <<contexts, links, flags, locks, epochs, present, ctx, walk, delivered>>

Children(c) == {d \in Context : parent[d] = c /\ kind[d] # "dead"}
InUse(c) == \E u \in Thread : ctx[u] = c
Propagation == {"cancel", "advance", "pick", "walk", "paint", "walked"}
\* Contexts that tasks may run in: whoever leaves has done with the tasks
\* of the contexts in its list.
Usable(c) == kind[c] = "isolated" \/ (kind[c] = "binding_completed" /\ owner[c] \in present)
Ancestors(c) ==
    LET up[k \in 0..Cardinality(Context)] ==
            IF k = 0 THEN parent[c] ELSE IF up[k - 1] = NULL THEN NULL ELSE parent[up[k - 1]]
    IN  {up[k] : k \in 0..Cardinality(Context)} \ {NULL}

(***************************************************************************)
(* bind_to and register_with                                               *)
(***************************************************************************)
Bind(t, c, p) ==
    /\ t \in present
    /\ kind[c] = "binding_required" /\ ~InUse(c)
    /\ Usable(p) /\ \A u \in Thread : ctx[u] = p => pc[u] \in Propagation
    /\ Goto(t, "idle", IF parent[p] = NULL THEN "register" ELSE "take_snapshot")
    /\ parent' = Set(parent, c, p)
    /\ may_have_children' = may_have_children \cup {p}
    /\ ctx' = Set(ctx, t, c)
    /\ UNCHANGED <<kind, owner, cancelled, links, flags, locks, epochs, present, snapshot, walk, delivered>>

Parent(t) == parent[My(t)]
TakeSnapshot(t) == Snapshot(t, owner[Parent(t)], "take_snapshot", "speculate")
Speculate(t) == StoreState(t, "speculate", "register", Parent(t) \in cancelled)

Register(t) ==
    /\ Goto(t, "register", "register_check")
    /\ owner' = Set(owner, My(t), t)
    /\ prev' = Set(prev, My(t), t)
    /\ local_update' = Set(local_update, t, TRUE)
    /\ UNCHANGED <<kind, parent, may_have_children, cancelled, next, nonlocal_update, locks, epochs, present, locals, delivered>>
\* Mutated form: a destruction under way by another thread is not looked for.
RegisterUnchecked(t) == Jump(t, "register_check", "register_prev")
RegisterCheck(t) ==
    Jump(t, "register_check", IF nonlocal_update[t] > 0 THEN "register_lock" ELSE "register_prev")
RegisterLock(t) == LockList(t, t, "register_lock", "register_prev")
RegisterPrev(t) == SetPrev(t, "register_prev", "register_next", next[t], My(t))
RegisterNext(t) == SetNext(t, "register_next", "register_flag", My(t), next[t])
RegisterAtOnce(t) ==
    /\ Goto(t, "register_flag", IF list_mutex[t] = t THEN "register_unlock" ELSE "registered")
    /\ local_update' = Set(local_update, t, FALSE)
    /\ next' = Set(next, t, My(t))
    /\ UNCHANGED <<contexts, prev, nonlocal_update, locks, epochs, present, locals, delivered>>
\* The flag is reset before the head of the list is set ("publish").
RegisterFlag(t) ==
    IF "publish" \in Windows THEN SetLocal(t, "register_flag", "register_head", FALSE)
    ELSE RegisterAtOnce(t)
RegisterHead(t) ==
    SetNext(t, "register_head",
            IF list_mutex[t] = t THEN "register_unlock" ELSE "registered", t, My(t))
RegisterUnlock(t) == UnlockList(t, t, "register_unlock", "registered")

\* Mutated form: cancellations since the parent's state was copied are missed.
BindUnchecked(t) ==
    IF pc[t] # "registered" THEN FALSE
    ELSE IF parent[Parent(t)] # NULL THEN Jump(t, "registered", "bound")
    ELSE StoreState(t, "registered", "bound", Parent(t) \in cancelled)

\* A parent that is a root: its state is loaded and stored without a lock
\* ("copy").  One that is not: copied again, under the lock, when a
\* propagation may have passed.
Registered(t) ==
    IF pc[t] # "registered" THEN FALSE
    ELSE IF parent[Parent(t)] # NULL
    THEN Jump(t, "registered", IF snapshot[t] # the_epoch THEN "bind_lock" ELSE "bound")
    ELSE IF "copy" \in Windows
    THEN Jump(t, "registered", IF Parent(t) \in cancelled THEN "store_true" ELSE "store_false")
    ELSE StoreState(t, "registered", "bound", Parent(t) \in cancelled)
StoreLoaded(t) == \E state \in BOOLEAN :
    StoreState(t, IF state THEN "store_true" ELSE "store_false", "bound", state)
BindLock(t) == LockEpoch(t, "bind_lock", "bind_copy")
BindCopy(t) == StoreState(t, "bind_copy", "bind_unlock", Parent(t) \in cancelled)
BindUnlock(t) == UnlockEpoch(t, "bind_unlock", "bound")
Bound(t) ==
    /\ Goto(t, "bound", "idle")
    /\ kind' = Set(kind, My(t), "binding_completed")
    /\ ctx' = Set(ctx, t, NULL) /\ snapshot' = Set(snapshot, t, 0)
    /\ UNCHANGED <<parent, owner, may_have_children, cancelled, links, flags, locks, epochs, present, walk, delivered>>

Binding(t) ==
    \/ TakeSnapshot(t) \/ Speculate(t) \/ Register(t) \/ RegisterCheck(t) \/ RegisterLock(t)
    \/ RegisterPrev(t) \/ RegisterNext(t) \/ RegisterFlag(t) \/ RegisterHead(t) \/ RegisterUnlock(t)
    \/ Registered(t) \/ StoreLoaded(t)
    \/ BindLock(t) \/ BindCopy(t) \/ BindUnlock(t) \/ Bound(t)

(***************************************************************************)
(* cancel_group_execution and propagate_task_group_state.  A context is    *)
(* not cancelled after its destructor has begun.                           *)
(***************************************************************************)
Cancel(t, c) ==
    /\ t \in present
    /\ Usable(c) /\ c \notin cancelled /\ ~InUse(c)
    /\ Goto(t, "idle", "cancel")
    /\ cancelled' = cancelled \cup {c}
    /\ ctx' = Set(ctx, t, c)
    /\ UNCHANGED <<kind, parent, owner, may_have_children, links, flags, locks, epochs, present, snapshot, walk, delivered>>

Finish(t, from) ==
    /\ Goto(t, from, "idle")
    /\ delivered' = delivered \cup {My(t)}
    /\ ctx' = Set(ctx, t, NULL)

CancelAlone(t) ==
    /\ My(t) \notin may_have_children /\ Finish(t, "cancel")
    /\ UNCHANGED <<contexts, links, flags, locks, epochs, present, snapshot, walk>>
CancelLock(t) == My(t) \in may_have_children /\ LockEpoch(t, "cancel", "advance")
Advance(t) ==
    /\ Goto(t, "advance", "pick")
    /\ the_epoch' = the_epoch + 1
    /\ todo' = Set(todo, t, present)
    /\ UNCHANGED <<contexts, links, flags, locks, epoch, present, ctx, snapshot, at, paint, delivered>>
\* LockedMaster keeps a scheduler where it is; one that has left is skipped.
Pick(t) ==
    \E s \in todo[t] \cap present :
        /\ Goto(t, "pick", "walk") /\ list_mutex[s] = NULL
        /\ list_mutex' = Set(list_mutex, s, t)
        /\ todo' = Set(todo, t, todo[t] \ {s})
        /\ at' = Set(at, t, s)
        /\ UNCHANGED <<contexts, links, flags, the_mutex, epochs, present, ctx, snapshot, paint, delivered>>
Walked(t) == CHOOSE s \in Thread : list_mutex[s] = t

\* The next node; a context below the source is painted with those above it.
Walk(t) ==
    /\ at[t] # NULL
    /\ LET c == next[at[t]] IN
       /\ at' = Set(at, t, IF c \in Thread THEN NULL ELSE c)
       /\ IF c \in Context /\ c \notin cancelled /\ My(t) \in Ancestors(c)
          THEN Goto(t, "walk", "paint") /\ paint' = Set(paint, t, c)
          ELSE Goto(t, "walk", "walk") /\ UNCHANGED paint
    /\ UNCHANGED <<contexts, links, flags, locks, epochs, present, ctx, snapshot, todo, delivered>>
Paint(t) ==
    LET up == parent[paint[t]] IN
    /\ Goto(t, "paint", IF up = My(t) THEN "walk" ELSE "paint")
    /\ cancelled' = cancelled \cup {paint[t]}
    /\ paint' = Set(paint, t, IF up = My(t) THEN NULL ELSE up)
    /\ UNCHANGED <<kind, parent, owner, may_have_children, links, flags, locks, epochs, present, ctx, snapshot, at, todo, delivered>>
SyncUp(t) ==
    /\ Goto(t, "walk", "walked") /\ at[t] = NULL
    /\ epoch' = Set(epoch, Walked(t), the_epoch)
    /\ UNCHANGED <<contexts, links, flags, locks, the_epoch, present, locals, delivered>>
LeaveList(t) == UnlockList(t, Walked(t), "walked", "pick")
CancelUnlock(t) ==
    /\ todo[t] \cap present = {} /\ Finish(t, "pick")
    /\ the_mutex' = NULL
    /\ todo' = Set(todo, t, {})
    /\ UNCHANGED <<contexts, links, flags, list_mutex, epochs, present, snapshot, at, paint>>

Cancelling(t) ==
    \/ CancelAlone(t) \/ CancelLock(t) \/ Advance(t) \/ Pick(t) \/ Walk(t) \/ Paint(t)
    \/ SyncUp(t) \/ LeaveList(t) \/ CancelUnlock(t)

(***************************************************************************)
(* ~task_group_context, after the tasks and contexts below it              *)
(***************************************************************************)
Destroy(t, c) ==
    /\ t \in present
    /\ kind[c] \in {"binding_completed", "detached"} /\ ~InUse(c) /\ Children(c) = {}
    /\ ctx' = Set(ctx, t, c)
    /\ Goto(t, "idle", IF kind[c] = "detached" THEN "dead"
                       ELSE IF owner[c] = t THEN "destroy" ELSE "dying")
    /\ UNCHANGED <<contexts, links, flags, locks, epochs, present, snapshot, walk, delivered>>

Own(t) == owner[My(t)] = t
DestroySnapshot(t) == Snapshot(t, t, "destroy", "destroy_flag")
DestroyFlag(t) == SetLocal(t, "destroy_flag", "destroy_check", TRUE)
DestroyCheck(t) ==
    Jump(t, "destroy_check", IF nonlocal_update[t] > 0 THEN "destroy_lock" ELSE "unlink")
DestroyLock(t) == LockList(t, t, "destroy_lock", "unlink")

\* Of somebody else's list
Dying(t) ==
    SetKind(t, "dying", IF kind[My(t)] = "detached" THEN "unlink" ELSE "count_in", "dying")
CountIn(t) ==
    LET s == owner[My(t)] IN SetNonlocal(t, s, "count_in", "await_local", nonlocal_update[s] + 1)
AwaitLocal(t) == Jump(t, "await_local", "nonlocal_lock") /\ ~local_update[owner[My(t)]]
NonlocalLock(t) == LockList(t, owner[My(t)], "nonlocal_lock", "unlink")

Unlink(t) == SetNext(t, "unlink", "unlink_prev", prev[My(t)], next[My(t)])
UnlinkPrev(t) ==
    SetPrev(t, "unlink_prev",
            IF Own(t) THEN "destroy_unflag"
            ELSE IF list_mutex[owner[My(t)]] = t THEN "nonlocal_unlock" ELSE "dead",
            next[My(t)], prev[My(t)])
DestroyUnflag(t) ==
    SetLocal(t, "destroy_unflag", IF list_mutex[t] = t THEN "destroy_unlock" ELSE "destroy_late", FALSE)
DestroyUnlock(t) == UnlockList(t, t, "destroy_unlock", "dead")
\* Mutated form: a propagation under way is not looked for.
DestroyUnchecked(t) == Jump(t, "destroy_late", "dead")
\* A propagation that may be at our node has the lock.
DestroyLate(t) ==
    Jump(t, "destroy_late", IF snapshot[t] # the_epoch THEN "late_lock" ELSE "dead")
LateLock(t) == LockList(t, t, "late_lock", "destroy_unlock")
NonlocalUnlock(t) == UnlockList(t, owner[My(t)], "nonlocal_unlock", "count_out")
CountOut(t) ==
    LET s == owner[My(t)] IN SetNonlocal(t, s, "count_out", "dead", nonlocal_update[s] - 1)
Dead(t) ==
    /\ Goto(t, "dead", "idle")
    /\ kind' = Set(kind, My(t), "dead") /\ ctx' = Set(ctx, t, NULL)
    /\ snapshot' = Set(snapshot, t, 0)
    /\ UNCHANGED <<parent, owner, may_have_children, cancelled, links, flags, locks, epochs, present, walk, delivered>>

Destroying(t) ==
    \/ DestroySnapshot(t) \/ DestroyFlag(t) \/ DestroyCheck(t) \/ DestroyLock(t)
    \/ Dying(t) \/ CountIn(t) \/ AwaitLocal(t) \/ NonlocalLock(t)
    \/ Unlink(t) \/ UnlinkPrev(t) \/ DestroyUnflag(t) \/ DestroyUnlock(t)
    \/ DestroyLate(t) \/ LateLock(t) \/ NonlocalUnlock(t) \/ CountOut(t) \/ Dead(t)

(***************************************************************************)
(* A thread leaves: cleanup_local_context_list and the end of its          *)
(* scheduler.  One that is being walked over stays (LockedMaster).         *)
(***************************************************************************)
Exit(t) ==
    /\ t \in present /\ Goto(t, "idle", "exit")
    /\ ~\E u \in Thread : pc[u] \in Propagation /\ list_mutex[t] = u
    /\ present' = present \ {t}
    /\ UNCHANGED <<contexts, links, flags, locks, epochs, locals, delivered>>
ExitSnapshot(t) == Snapshot(t, t, "exit", "exit_flag")
ExitFlag(t) == SetLocal(t, "exit_flag", "exit_check", TRUE)
ExitCheck(t) ==
    LET conflict == nonlocal_update[t] > 0 \/ snapshot[t] # the_epoch IN
    /\ Goto(t, "exit_check", "detach")
    /\ conflict => list_mutex[t] = NULL
    /\ list_mutex' = IF conflict THEN Set(list_mutex, t, t) ELSE list_mutex
    /\ at' = Set(at, t, next[t])
    /\ UNCHANGED <<contexts, links, flags, the_mutex, epochs, present, ctx, snapshot, paint, todo, delivered>>
\* todo remembers whether a destroyer was met.
Detach(t) ==
    /\ at[t] \in Context /\ Goto(t, "detach", "detach")
    /\ at' = Set(at, t, next[at[t]])
    /\ kind' = Set(kind, at[t], "detached")
    /\ todo' = Set(todo, t, todo[t] \cup (IF kind[at[t]] = "dying" THEN {t} ELSE {}))
    /\ UNCHANGED <<parent, owner, may_have_children, cancelled, links, flags, locks, epochs, present, ctx, snapshot, paint, delivered>>
ExitUnlock(t) ==
    /\ at[t] = t /\ Goto(t, "detach", "exit_unflag")
    /\ list_mutex' = IF list_mutex[t] = t THEN Set(list_mutex, t, NULL) ELSE list_mutex
    /\ at' = Set(at, t, NULL)
    /\ UNCHANGED <<contexts, links, flags, the_mutex, epochs, present, ctx, snapshot, paint, todo, delivered>>
ExitUnflag(t) == SetLocal(t, "exit_unflag", IF todo[t] = {} THEN "freed" ELSE "await_destroyers", FALSE)
AwaitDestroyers(t) == nonlocal_update[t] = 0 /\ Jump(t, "await_destroyers", "freed")

Exiting(t) ==
    \/ ExitSnapshot(t) \/ ExitFlag(t) \/ ExitCheck(t) \/ Detach(t)
    \/ ExitUnlock(t) \/ ExitUnflag(t) \/ AwaitDestroyers(t)

Step(t) ==
    \/ \E c, p \in Context : Bind(t, c, p)
    \/ \E c \in Context : Cancel(t, c) \/ Destroy(t, c)
    \/ Binding(t) \/ Cancelling(t) \/ Destroying(t)
Next == \E t \in Thread : Step(t)
Spec == Init /\ [][Next]_vars

\* With threads that leave while their contexts are in use elsewhere
LeavingNext == \E t \in Thread : Step(t) \/ Exit(t) \/ Exiting(t)

(***************************************************************************)
(* Properties                                                              *)
(***************************************************************************)
\* "A newly added descendant would inherit its parent's
\* my_cancellation_requested, not missing out on any cancellation still being
\* propagated": when a cancellation has returned, every descendant that
\* tasks may still run in is cancelled, however binding and propagation met.
CancelReachesAll ==
    \A c \in Context :
        Usable(c) /\ ~InUse(c) /\ Ancestors(c) \cap delivered # {} => c \in cancelled

\* "Local context list contains destroyed object": nobody walks over a
\* context that is gone, nor writes to its links.
NoDeadContext ==
    \A t \in Thread :
        /\ pc[t] \in {"walk", "paint", "detach"} /\ at[t] \in Context => kind[at[t]] # "dead"
        /\ pc[t] = "unlink" /\ prev[My(t)] \in Context => kind[prev[My(t)]] # "dead"
        /\ pc[t] = "unlink_prev" /\ next[My(t)] \in Context => kind[next[My(t)]] # "dead"

\* A list at rest is doubly linked and has each context bound by its thread.
ListsWhole ==
    (\A t \in Thread : pc[t] = "idle") =>
        /\ \A x \in Thread \cup Context :
               x \in Thread \/ kind[x] = "binding_completed" => prev[next[x]] = x /\ next[prev[x]] = x
        /\ \A c \in Context : kind[c] # "dead" => next[c] \in Thread \/ kind[next[c]] # "dead"

TypeOK ==
    /\ \A c \in Context : kind[c] \in {"isolated", "binding_required", "binding_completed", "dying", "detached", "dead"}
    /\ \A x \in Thread \cup Context : {next[x], prev[x]} \subseteq Thread \cup Context
    /\ \A t \in Thread : nonlocal_update[t] \in 0..Cardinality(Thread) /\ epoch[t] \in 0..the_epoch
=============================================================================
