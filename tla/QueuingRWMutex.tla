--------------------------- MODULE QueuingRWMutex ---------------------------
(***************************************************************************)
(* queuing_rw_mutex (src/src/tbb/queuing_rw_mutex.cpp).  Requests stand in *)
(* a doubly linked queue of scoped_lock nodes, one for each thread, which  *)
(* live on the threads' stacks and are used again.  The low bit of a       *)
(* pointer is a FLAG that says its target is in use.  Every access to a    *)
(* word that other threads may touch is a step; a node's fields are set in *)
(* one step before it is published.                                        *)
(***************************************************************************)
EXTENDS Naturals

CONSTANTS
    Thread,
    NULL,
    Modes,      \* how the mutex is acquired: a subset of {"read", "write", "try_read", "try_write"}
    Reupgrade,  \* whether a thread upgrades again what it has downgraded after an upgrade
    MaxCalls    \* bound: acquisitions and changes of mode in all

Assumptions == NULL \notin Thread /\ Reupgrade \in BOOLEAN /\ MaxCalls \in Nat

VARIABLES
    q_tail,
    \* the nodes: my_prev, my_next, my_going, my_state, my_internal_lock
    prev, next, going, state, lock,
    \* the threads: pred, tmp, n and a state read earlier, of the functions
    pc, pred, tmp, n, seen,
    calls,
    \* history: threads inside upgrade_to_writer, those that a writer overtook
    \* there, and what the last upgrade of an acquisition returned
    upgrading, overtaken, told

node == <<prev, next, going, state, lock>>
locals == <<pred, tmp, n, seen>>
hist == <<upgrading, overtaken, told>>
vars == <<q_tail, node, pc, locals, calls, hist>>

\* A pointer and its FLAG
Ref(t) == [to |-> t, flag |-> FALSE]
Flagged(t) == [to |-> t, flag |-> TRUE]
Nil == Ref(NULL)

WaitingReader == {"reader", "unblocknext"}
Upgrading == {"upgrade_waiting", "upgrade_loser"}

Init ==
    /\ q_tail = Nil
    /\ prev = [t \in Thread |-> Nil] /\ next = [t \in Thread |-> Nil]
    /\ going = [t \in Thread |-> 0]
    /\ state = [t \in Thread |-> "none"]
    /\ lock = [t \in Thread |-> FALSE]
    /\ pc = [t \in Thread |-> "idle"]
    /\ pred = [t \in Thread |-> NULL] /\ n = [t \in Thread |-> NULL]
    /\ tmp = [t \in Thread |-> FALSE]
    /\ seen = [t \in Thread |-> "none"]
    /\ calls = 0
    /\ upgrading = {} /\ overtaken = {} /\ told = [t \in Thread |-> "nothing"]

Goto(t, from, to) == pc[t] = from /\ pc' = [pc EXCEPT ![t] = to]
Call == calls < MaxCalls /\ calls' = calls + 1
Set(f, t, v) == [f EXCEPT ![t] = v]

\* A step that only waits for a condition, and one that only stores
Await(t, from, to, condition) ==
    /\ Goto(t, from, to) /\ condition
    /\ UNCHANGED <<q_tail, node, locals, calls, hist>>

SetNext(t, from, to, m, p) ==
    /\ Goto(t, from, to) /\ next' = Set(next, m, p)
    /\ UNCHANGED <<q_tail, prev, going, state, lock, locals, calls, hist>>
SetPrev(t, from, to, m, p) ==
    /\ Goto(t, from, to) /\ prev' = Set(prev, m, p)
    /\ UNCHANGED <<q_tail, next, going, state, lock, locals, calls, hist>>
SetGoing(t, from, to, m, g) ==
    /\ Goto(t, from, to) /\ going' = Set(going, m, g)
    /\ UNCHANGED <<q_tail, prev, next, state, lock, locals, calls, hist>>
SetState(t, from, to, m, s) ==
    /\ Goto(t, from, to) /\ state' = Set(state, m, s)
    /\ UNCHANGED <<q_tail, prev, next, going, lock, locals, calls, hist>>
SetLock(t, from, to, m, l) ==
    /\ Goto(t, from, to) /\ lock' = Set(lock, m, l)
    /\ UNCHANGED <<q_tail, prev, next, going, state, locals, calls, hist>>
SetTail(t, from, to, p) ==
    /\ Goto(t, from, to) /\ q_tail' = p
    /\ UNCHANGED <<node, locals, calls, hist>>

\* Load my_next into n, when there is one
LoadNext(t, from, to) ==
    /\ Goto(t, from, to)
    /\ next[t] # Nil /\ n' = Set(n, t, next[t].to)
    /\ UNCHANGED <<q_tail, node, pred, tmp, seen, calls, hist>>
\* fetch_and_store on n->my_prev; tmp keeps the FLAG found there
SwapPrev(t, from, to, p) ==
    /\ Goto(t, from, to)
    /\ tmp' = Set(tmp, t, prev[n[t]].flag)
    /\ prev' = Set(prev, n[t], p)
    /\ UNCHANGED <<q_tail, next, going, state, lock, pred, n, seen, calls, hist>>
\* fetch_and_add of FLAG to my_prev
FlagPrev(t, from, somebody, nobody) ==
    /\ Goto(t, from, IF prev[t].to = NULL THEN nobody ELSE somebody)
    /\ pred' = Set(pred, t, prev[t].to)
    /\ prev' = Set(prev, t, Flagged(prev[t].to))
    /\ UNCHANGED <<q_tail, next, going, state, lock, tmp, n, seen, calls, hist>>
AcquireLock(t, from, to) == ~lock[t] /\ SetLock(t, from, to, t, TRUE)
\* unblock_or_wait_on_internal_lock(get_flag(tmp))
UnblockOrWait(t, from, to) ==
    \/ tmp[t] /\ Await(t, from, to, ~lock[t])
    \/ ~tmp[t] /\ SetLock(t, from, to, t, FALSE)

(***************************************************************************)
(* acquire and try_acquire                                                 *)
(***************************************************************************)

Publish(t, s) ==
    /\ prev' = Set(prev, t, Nil) /\ next' = Set(next, t, Nil)
    /\ going' = Set(going, t, 0) /\ state' = Set(state, t, s) /\ lock' = Set(lock, t, FALSE)
    /\ q_tail' = Ref(t)

\* A writer gets the mutex: upgrades under way are overtaken.
EnterAsWriter(t) == overtaken' = overtaken \cup (upgrading \ {t})

Acquire(t, write) ==
    /\ (IF write THEN "write" ELSE "read") \in Modes
    /\ Call
    /\ Publish(t, IF write THEN "writer" ELSE "reader")
    /\ pred' = Set(pred, t, q_tail.to) /\ tmp' = Set(tmp, t, q_tail.flag)
    /\ \/ q_tail = Nil /\ write /\ Goto(t, "idle", "holds") /\ EnterAsWriter(t)
       \/ q_tail = Nil /\ ~write /\ Goto(t, "idle", "activate") /\ UNCHANGED overtaken
       \/ q_tail # Nil /\ write /\ Goto(t, "idle", "link_writer") /\ UNCHANGED overtaken
       \/ q_tail # Nil /\ ~write /\ Goto(t, "idle", "pred_state") /\ UNCHANGED overtaken
    /\ UNCHANGED <<n, seen, upgrading, told>>

\* try_acquire returns false as soon as it sees a tail, which changes nothing.
TryAcquire(t, write) ==
    /\ (IF write THEN "try_write" ELSE "try_read") \in Modes
    /\ q_tail = Nil /\ Call /\ Goto(t, "idle", "holds")
    /\ Publish(t, IF write THEN "writer" ELSE "activereader")
    /\ IF write THEN EnterAsWriter(t) ELSE UNCHANGED overtaken
    /\ UNCHANGED <<locals, upgrading, told>>

LinkWriter(t) == SetNext(t, "link_writer", "wait_writer", pred[t], Ref(t))

WriterGoes(t) ==
    /\ Goto(t, "wait_writer", "holds") /\ going[t] = 1
    /\ EnterAsWriter(t)
    /\ UNCHANGED <<q_tail, node, locals, calls, upgrading, told>>

\* Ask an inactive predecessor to unblock us; one that upgrades made us wait
\* by the FLAG in q_tail (which tmp has kept).
PredState(t) ==
    /\ Goto(t, "pred_state", "link_reader")
    /\ seen' = Set(seen, t, IF tmp[t] THEN "upgrade_waiting" ELSE state[pred[t]])
    /\ state' = IF ~tmp[t] /\ state[pred[t]] = "reader"
                THEN Set(state, pred[t], "unblocknext") ELSE state
    /\ prev' = Set(prev, t, Ref(pred[t]))
    /\ tmp' = Set(tmp, t, FALSE)
    /\ UNCHANGED <<q_tail, next, going, lock, pred, n, calls, hist>>

LinkReader(t) ==
    SetNext(t, "link_reader",
            IF seen[t] = "activereader" THEN "activate" ELSE "wait_reader", pred[t], Ref(t))

ReaderGoes(t) == Await(t, "wait_reader", "activate", going[t] = 1)

Activate(t) ==
    \/ state[t] = "reader" /\ SetState(t, "activate", "holds", t, "activereader")
    \/ state[t] # "reader" /\ Await(t, "activate", "activate_wait", TRUE)
ActivateLate(t) ==
    next[t] # Nil /\ SetState(t, "activate_wait", "unblock_next", t, "activereader")
UnblockNext(t) == SetGoing(t, "unblock_next", "holds", next[t].to, 1)

Acquiring(t) ==
    \/ \E write \in BOOLEAN : Acquire(t, write) \/ TryAcquire(t, write)
    \/ LinkWriter(t) \/ WriterGoes(t)
    \/ PredState(t) \/ LinkReader(t) \/ ReaderGoes(t)
    \/ Activate(t) \/ ActivateLate(t) \/ UnblockNext(t)

(***************************************************************************)
(* release                                                                 *)
(***************************************************************************)
Forget(t) ==
    /\ pred' = Set(pred, t, NULL) /\ n' = Set(n, t, NULL)
    /\ tmp' = Set(tmp, t, FALSE) /\ seen' = Set(seen, t, "none")

Release(t) ==
    /\ Goto(t, "holds", IF state[t] = "writer" THEN "release_writer" ELSE "flag_prev")
    /\ Forget(t)
    /\ told' = Set(told, t, "nothing")
    /\ UNCHANGED <<q_tail, node, calls, upgrading, overtaken>>

\* The only request in the queue leaves it by a compare_and_swap on q_tail;
\* when that fails a successor is about to link itself.
LeaveAlone(t, from, gone, queued) ==
    \/ q_tail = Ref(t) /\ SetTail(t, from, gone, Nil)
    \/ q_tail # Ref(t) /\ Await(t, from, queued, TRUE)

WriterNext(t) ==
    \/ LoadNext(t, "release_writer", "hold_next")
    \/ next[t] = Nil /\ Await(t, "release_writer", "writer_tail", TRUE)
WriterTail(t) == LeaveAlone(t, "writer_tail", "done", "writer_await")
WriterAwait(t) == LoadNext(t, "writer_await", "hold_next")
\* my_going = 2 keeps the next node from being destroyed too early.
HoldNext(t) == SetGoing(t, "hold_next", "look_next", n[t], 2)
LookNext(t) ==
    Await(t, "look_next",
          IF state[n[t]] = "upgrade_waiting" THEN "lock_for_loser" ELSE "clear_prev", TRUE)
LockForLoser(t) == AcquireLock(t, "lock_for_loser", "swap_loser")
SwapLoser(t) == SwapPrev(t, "swap_loser", "mark_loser", Nil)
MarkLoser(t) == SetState(t, "mark_loser", "wake_loser", n[t], "upgrade_loser")
WakeLoser(t) == SetGoing(t, "wake_loser", "unlock_self", n[t], 1)
ClearPrev(t) == SetPrev(t, "clear_prev", "wake_next", n[t], Nil)
WakeNext(t) == SetGoing(t, "wake_next", "done", n[t], 1)

ReleasingWriter(t) ==
    \/ WriterNext(t) \/ WriterTail(t) \/ WriterAwait(t)
    \/ HoldNext(t) \/ LookNext(t) \/ LockForLoser(t) \/ SwapLoser(t)
    \/ MarkLoser(t) \/ WakeLoser(t) \/ ClearPrev(t) \/ WakeNext(t)

\* A reader unlinks itself.  It marks my_prev as in use and tries to lock its
\* predecessor, which may be unlinking itself or upgrading.
FlagOwnPrev(t) == FlagPrev(t, "flag_prev", "try_pred", "lock_alone")

TryPred(t) ==
    pc[t] = "try_pred" /\
    \/ ~lock[pred[t]] /\ SetLock(t, "try_pred", "restore_prev", pred[t], TRUE)
    \/ lock[pred[t]] /\ Await(t, "try_pred", "take_back", TRUE)

\* Mutated form: the FLAG is dropped though the predecessor may have seen it.
TakeBackBlindly(t, from, taken, noticed) == SetPrev(t, from, taken, t, Ref(pred[t]))

\* compare_and_swap on my_prev: take the FLAG back unless the predecessor has
\* seen it, and then let it go on.
TakeBack(t, from, taken, noticed) ==
    \/ /\ prev[t] = Flagged(pred[t])
       /\ SetPrev(t, from, taken, t, Ref(pred[t]))
    \/ /\ prev[t] # Flagged(pred[t])
       /\ Await(t, from, IF prev[t].flag THEN taken ELSE noticed, TRUE)

TakeFlagBack(t) == TakeBack(t, "take_back", "flag_prev", "free_pred")
FreePred(t) == SetLock(t, "free_pred", "flag_prev", pred[t], FALSE)

RestorePrev(t) == SetPrev(t, "restore_prev", "lock_self", t, Ref(pred[t]))
LockSelf(t) == AcquireLock(t, "lock_self", "cut_pred")
CutPred(t) == SetNext(t, "cut_pred", "look_last", pred[t], Nil)
LookLast(t) == Await(t, "look_last", IF next[t] = Nil THEN "tail_to_pred" ELSE "bypass", TRUE)
TailToPred(t) ==
    \/ q_tail = Ref(t) /\ SetTail(t, "tail_to_pred", "bypass", Ref(pred[t]))
    \/ q_tail # Ref(t) /\ Await(t, "tail_to_pred", "await_next", TRUE)
AwaitNext(t) == Await(t, "await_next", "bypass", next[t] # Nil)
Bypass(t) ==
    \/ LoadNext(t, "bypass", "swap_next_prev")
    \/ next[t] = Nil /\ Await(t, "bypass", "unlock_pred", TRUE)
SwapNextPrev(t) == SwapPrev(t, "swap_next_prev", "link_over", Ref(pred[t]))
LinkOver(t) == SetNext(t, "link_over", "unlock_pred", pred[t], next[t])
UnlockPred(t) == SetLock(t, "unlock_pred", "unlock_self", pred[t], FALSE)

\* No predecessor when it looked
LockAlone(t) == AcquireLock(t, "lock_alone", "look_alone")
LookAlone(t) ==
    \/ LoadNext(t, "look_alone", "hold_reader")
    \/ next[t] = Nil /\ Await(t, "look_alone", "reader_tail", TRUE)
ReaderTail(t) == LeaveAlone(t, "reader_tail", "unlock_self", "reader_await")
ReaderAwait(t) == LoadNext(t, "reader_await", "hold_reader")
HoldReader(t) == SetGoing(t, "hold_reader", "swap_alone", n[t], 2)
SwapAlone(t) == SwapPrev(t, "swap_alone", "wake_alone", Nil)
WakeAlone(t) == SetGoing(t, "wake_alone", "unlock_self", n[t], 1)

UnlockSelf(t) == UnblockOrWait(t, "unlock_self", "done")

ReleasingReader(t) ==
    \/ FlagOwnPrev(t) \/ TryPred(t) \/ TakeFlagBack(t) \/ FreePred(t)
    \/ RestorePrev(t) \/ LockSelf(t) \/ CutPred(t) \/ LookLast(t) \/ TailToPred(t)
    \/ AwaitNext(t) \/ Bypass(t) \/ SwapNextPrev(t) \/ LinkOver(t) \/ UnlockPred(t)
    \/ LockAlone(t) \/ LookAlone(t) \/ ReaderTail(t) \/ ReaderAwait(t)
    \/ HoldReader(t) \/ SwapAlone(t) \/ WakeAlone(t)

\* Mutated form: the node goes while others may hold it.
GoneAtOnce(t) == TRUE
\* The node may be destroyed once nobody holds it by my_going = 2.
Gone(t) == going[t] # 2
Done(t) ==
    /\ Goto(t, "done", "idle") /\ Gone(t)
    /\ prev' = Set(prev, t, Nil) /\ next' = Set(next, t, Nil)
    /\ going' = Set(going, t, 0) /\ state' = Set(state, t, "none") /\ lock' = Set(lock, t, FALSE)
    /\ Forget(t)
    /\ UNCHANGED <<q_tail, calls, hist>>

(***************************************************************************)
(* downgrade_to_reader                                                     *)
(***************************************************************************)
Downgrade(t) ==
    /\ state[t] = "writer" /\ Call
    /\ Goto(t, "holds", IF next[t] = Nil THEN "downgrade" ELSE "down_next")
    /\ Forget(t)
    /\ UNCHANGED <<q_tail, node, hist>>

DownState(t) == SetState(t, "downgrade", "down_tail", t, "reader")
DownTail(t) == Await(t, "down_tail", IF q_tail = Ref(t) THEN "down_active" ELSE "down_next", TRUE)
DownActive(t) ==
    \/ state[t] = "reader" /\ SetState(t, "down_active", "holds", t, "activereader")
    \/ state[t] # "reader" /\ Await(t, "down_active", "down_next", TRUE)
DownNext(t) == LoadNext(t, "down_next", "down_look")
DownLook(t) ==
    Await(t, "down_look", IF state[n[t]] \in WaitingReader THEN "down_wake" ELSE "down_loser", TRUE)
DownWake(t) == SetGoing(t, "down_wake", "down_done", n[t], 1)
DownLoser(t) ==
    pc[t] = "down_loser" /\
    \/ state[n[t]] = "upgrade_waiting"
       /\ SetState(t, "down_loser", "down_done", n[t], "upgrade_loser")
    \/ state[n[t]] # "upgrade_waiting" /\ Await(t, "down_loser", "down_done", TRUE)
DownDone(t) == SetState(t, "down_done", "holds", t, "activereader")

Downgrading(t) ==
    \/ DownState(t) \/ DownTail(t) \/ DownActive(t) \/ DownNext(t)
    \/ DownLook(t) \/ DownWake(t) \/ DownLoser(t) \/ DownDone(t)

(***************************************************************************)
(* upgrade_to_writer                                                       *)
(***************************************************************************)
Upgrade(t) ==
    /\ state[t] = "activereader" /\ Call
    /\ Reupgrade \/ told[t] = "nothing"
    /\ Goto(t, "holds", "requested")
    /\ state' = Set(state, t, "upgrade_requested")
    /\ upgrading' = upgrading \cup {t} /\ overtaken' = overtaken \ {t}
    /\ Forget(t)
    /\ told' = Set(told, t, "nothing")
    /\ UNCHANGED <<q_tail, prev, next, going, lock>>

Requested(t) == AcquireLock(t, "requested", "flag_tail")
\* At the tail, whoever comes next is blocked by the FLAG in q_tail.
FlagTail(t) ==
    \/ q_tail = Ref(t) /\ SetTail(t, "flag_tail", "alone_unlock", Flagged(t))
    \/ q_tail # Ref(t) /\ Await(t, "flag_tail", "flag_next", TRUE)
AloneUnlock(t) == SetLock(t, "alone_unlock", "set_waiting", t, FALSE)

FlagNext(t) ==
    /\ Goto(t, "flag_next", "next_state") /\ next[t] # Nil
    /\ n' = Set(n, t, next[t].to)
    /\ next' = Set(next, t, Flagged(next[t].to))
    /\ UNCHANGED <<q_tail, prev, going, state, lock, pred, tmp, seen, calls, hist>>
NextState(t) ==
    /\ Goto(t, "next_state", IF state[n[t]] \in WaitingReader THEN "let_read" ELSE "swap_upgrade")
    /\ seen' = Set(seen, t, state[n[t]])
    /\ UNCHANGED <<q_tail, node, pred, tmp, n, calls, hist>>
LetRead(t) == SetGoing(t, "let_read", "swap_upgrade", n[t], 1)
SwapUpgrade(t) == SwapPrev(t, "swap_upgrade", "unlock_upgrade", Ref(t))
UnlockUpgrade(t) ==
    UnblockOrWait(t, "unlock_upgrade",
        IF seen[t] \in WaitingReader \cup {"activereader", "upgrade_requested"}
        THEN "await_reader" ELSE "unflag_next")

\* Mutated form: readers behind are not waited for.
AwaitNobody(t) == Await(t, "await_reader", "stop_await", TRUE)
\* Readers behind must leave, or be asking for an upgrade themselves.
AwaitReader(t) ==
    \/ next[t] # Flagged(n[t]) /\ Await(t, "await_reader", "requested", TRUE)
    \/ /\ next[t] = Flagged(n[t])
       /\ state[t] \in Upgrading /\ Await(t, "await_reader", "stop_await", TRUE)
StopAwait(t) ==
    \/ next[t] = Flagged(n[t]) /\ SetNext(t, "stop_await", "waiting", t, Ref(n[t]))
    \/ next[t] # Flagged(n[t]) /\ Await(t, "stop_await", "waiting", TRUE)
UnflagNext(t) == SetNext(t, "unflag_next", "set_waiting", t, Ref(n[t]))
SetWaiting(t) ==
    \/ state[t] = "upgrade_requested"
       /\ SetState(t, "set_waiting", "waiting", t, "upgrade_waiting")
    \/ state[t] # "upgrade_requested" /\ Await(t, "set_waiting", "waiting", TRUE)

Waiting(t) ==
    \/ q_tail = Flagged(t) /\ SetTail(t, "waiting", "flag_prev_up", Ref(t))
    \/ q_tail # Flagged(t) /\ Await(t, "waiting", "flag_prev_up", TRUE)
FlagPrevUp(t) == FlagPrev(t, "flag_prev_up", "try_pred_up", "unflag_prev")
UnflagPrev(t) == SetPrev(t, "unflag_prev", "await_unlock", t, Nil)

\* tmp says whether the predecessor's lock was free.
TryPredUp(t) ==
    /\ Goto(t, "try_pred_up", "tell_pred")
    /\ tmp' = Set(tmp, t, ~lock[pred[t]])
    /\ lock' = Set(lock, pred[t], TRUE)
    /\ UNCHANGED <<q_tail, prev, next, going, state, pred, n, seen, calls, hist>>
TellPred(t) ==
    LET to == IF tmp[t] THEN "restore_prev_up" ELSE "take_back_up" IN
    pc[t] = "tell_pred" /\
    \/ state[pred[t]] = "upgrade_requested"
       /\ SetState(t, "tell_pred", to, pred[t], "upgrade_waiting")
    \/ state[pred[t]] # "upgrade_requested" /\ Await(t, "tell_pred", to, TRUE)
TakeFlagBackUp(t) == TakeBack(t, "take_back_up", "await_prev", "free_pred_up")
FreePredUp(t) == SetLock(t, "free_pred_up", "waiting", pred[t], FALSE)
RestorePrevUp(t) == SetPrev(t, "restore_prev_up", "unlock_pred_up", t, Ref(pred[t]))
UnlockPredUp(t) == SetLock(t, "unlock_pred_up", "await_prev", pred[t], FALSE)
AwaitPrev(t) ==
    Await(t, "await_prev", IF prev[t].to = NULL THEN "await_unlock" ELSE "waiting",
          prev[t] # Ref(pred[t]))

AwaitUnlock(t) == Await(t, "await_unlock", "await_going", ~lock[t])
AwaitGoing(t) == Await(t, "await_going", "upgraded", going[t] # 2)

Upgraded(t) ==
    /\ Goto(t, "upgraded", "holds")
    /\ told' = Set(told, t, IF state[t] = "upgrade_loser" THEN "lost" ELSE "kept")
    /\ state' = Set(state, t, "writer") /\ going' = Set(going, t, 1)
    /\ EnterAsWriter(t) /\ upgrading' = upgrading \ {t}
    /\ Forget(t)
    /\ UNCHANGED <<q_tail, prev, next, lock, calls>>

ToWriter(t) ==
    \/ Requested(t) \/ FlagTail(t) \/ AloneUnlock(t) \/ FlagNext(t) \/ NextState(t)
    \/ LetRead(t) \/ SwapUpgrade(t) \/ UnlockUpgrade(t) \/ AwaitReader(t) \/ StopAwait(t)
    \/ UnflagNext(t) \/ SetWaiting(t) \/ Waiting(t) \/ FlagPrevUp(t) \/ UnflagPrev(t)
    \/ TryPredUp(t) \/ TellPred(t) \/ TakeFlagBackUp(t) \/ FreePredUp(t)
    \/ RestorePrevUp(t) \/ UnlockPredUp(t) \/ AwaitPrev(t) \/ AwaitUnlock(t)
    \/ AwaitGoing(t) \/ Upgraded(t)

(***************************************************************************)
(* The specification: a thread goes on with a call it has begun, and a     *)
(* holder releases the mutex in the end.                                   *)
(***************************************************************************)
Continue(t) ==
    \/ Acquiring(t) /\ pc[t] # "idle"
    \/ Release(t) \/ ReleasingWriter(t) \/ ReleasingReader(t) \/ UnlockSelf(t) \/ Done(t)
    \/ Downgrading(t) \/ ToWriter(t)

Step(t) == Acquiring(t) \/ Downgrade(t) \/ Upgrade(t) \/ Continue(t)
Next == \E t \in Thread : Step(t)

Spec == Init /\ [][Next]_vars

(***************************************************************************)
(* Properties                                                              *)
(***************************************************************************)
Holds(t) == pc[t] = "holds"
Writing(t) == Holds(t) /\ state[t] = "writer"

\* A writer holds the mutex alone, through all ways in which a reader may
\* become a writer and a writer a reader.
Exclusion == \A t, u \in Thread : Writing(t) /\ Holds(u) => t = u

\* "Returns whether the upgrade happened without releasing and re-acquiring
\* the lock": when it says so, nobody wrote between.
UpgradeTruthful == \A t \in overtaken : told[t] # "kept"

\* The nodes of other threads that the next step of t refers to
Targets(t) ==
    CASE pc[t] \in {"pred_state", "link_reader", "link_writer", "try_pred", "free_pred", "cut_pred",
                    "link_over", "unlock_pred", "try_pred_up", "tell_pred", "free_pred_up",
                    "unlock_pred_up"} -> {pred[t]}
      [] pc[t] \in {"hold_next", "look_next", "swap_loser", "mark_loser", "wake_loser", "clear_prev",
                    "wake_next", "swap_next_prev", "hold_reader", "swap_alone", "wake_alone",
                    "down_look", "down_wake", "down_loser", "next_state", "let_read",
                    "swap_upgrade"} -> {n[t]}
      [] pc[t] = "unblock_next" -> {next[t].to}
      [] OTHER -> {}

\* Nobody refers to the node of a thread that has released the mutex: it may
\* be on a stack that is gone, or be part of the queue again.
NoDanglingNode == \A t \in Thread : \A m \in Targets(t) : pc[m] # "idle"

\* What a thread waits for does not come from itself.
Blocked(t) ==
    CASE pc[t] \in {"wait_writer", "wait_reader"} -> going[t] # 1
      [] pc[t] \in {"activate_wait", "writer_await", "reader_await", "await_next", "down_next",
                    "flag_next"} -> next[t] = Nil
      [] pc[t] \in {"lock_for_loser", "lock_self", "lock_alone", "requested", "await_unlock"} -> lock[t]
      [] pc[t] \in {"unlock_self", "unlock_upgrade"} -> tmp[t] /\ lock[t]
      [] pc[t] \in {"done", "await_going"} -> going[t] = 2
      [] pc[t] = "await_reader" -> next[t] = Flagged(n[t]) /\ state[t] \notin Upgrading
      [] pc[t] = "await_prev" -> prev[t] = Ref(pred[t])
      [] OTHER -> pc[t] = "idle"

\* Threads that wait for each other, or for a thread that has left, do not
\* bring each other to a stop.
NoDeadlock == (\A t \in Thread : Blocked(t)) => \A t \in Thread : pc[t] = "idle"
=============================================================================
