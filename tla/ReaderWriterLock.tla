-------------------------- MODULE ReaderWriterLock --------------------------
(***************************************************************************)
(* reader_writer_lock (src/src/tbb/reader_writer_lock.cpp): writers stand  *)
(* in a queue of scoped_lock nodes, readers in a list of which the first   *)
(* one wakes the others, and one word holds the number of readers and      *)
(* three flags.  A thread makes one request at a time, so its node has its *)
(* name; lock_read() keeps the node on its stack, which is gone when it    *)
(* returns, and a writer's node is deleted after end_write.  Every access  *)
(* to a shared word is a step.                                             *)
(***************************************************************************)
EXTENDS Naturals

CONSTANTS
    Thread,
    NULL,
    Modes,     \* a subset of {"lock", "try_lock", "lock_read", "try_lock_read"}
    MaxCalls   \* bound: requests in all

Assumptions == NULL \notin Thread /\ MaxCalls \in Nat

VARIABLES
    rdr,        \* rdr_count_and_flags
    reader_head, writer_head, writer_tail, my_current_writer,
    status, next,   \* of the nodes
    me,             \* per thread: pc, and I, W (or head), pred and returns of the functions
    calls

words == <<rdr, reader_head, writer_head, writer_tail>>
nodes == <<status, next>>
vars == <<words, my_current_writer, nodes, me, calls>>

NoFlags == [count |-> 0, WFLAG1 |-> FALSE, WFLAG2 |-> FALSE, RFLAG |-> FALSE]
Idle == [pc |-> "idle", I |-> NULL, W |-> NULL, return |-> "idle"]

Init ==
    /\ rdr = NoFlags
    /\ reader_head = NULL /\ writer_head = NULL /\ writer_tail = NULL
    /\ my_current_writer = NULL
    /\ status = [t \in Thread |-> "invalid"] /\ next = [t \in Thread |-> NULL]
    /\ me = [t \in Thread |-> Idle]
    /\ calls = 0

At(t, label) == me[t].pc = label
Goto(t, from, to) == At(t, from) /\ me' = [me EXCEPT ![t].pc = to]
\* Call set_next_writer(w), or unblock_readers, and go on at back.
CallWith(t, from, to, w, back) ==
    At(t, from) /\ me' = [me EXCEPT ![t].pc = to, ![t].W = w, ![t].return = back]
Return(t, from) == At(t, from) /\ me' = [me EXCEPT ![t].pc = me[t].return, ![t].W = NULL]
Set(f, t, v) == [f EXCEPT ![t] = v]

Await(t, from, to, condition) ==
    Goto(t, from, to) /\ condition /\ UNCHANGED <<words, my_current_writer, nodes, calls>>
SetStatus(n, s) ==
    status' = Set(status, n, s) /\ UNCHANGED <<words, my_current_writer, next, calls>>
SetFlags(r) ==
    /\ rdr' = r
    /\ UNCHANGED <<reader_head, writer_head, writer_tail, my_current_writer, nodes, calls>>
SetHead(n) ==
    /\ writer_head' = n
    /\ UNCHANGED <<rdr, reader_head, writer_tail, my_current_writer, nodes, calls>>

Request(t, mode) ==
    /\ mode \in Modes /\ calls < MaxCalls /\ calls' = calls + 1
    /\ At(t, "idle")
\* Writers in the way of readers
WritersPresent == rdr.WFLAG1 \/ rdr.WFLAG2

(***************************************************************************)
(* start_write.  A try_lock that sees a tail returns false, which changes  *)
(* nothing.                                                                *)
(***************************************************************************)
Enqueue(t, s) ==
    /\ writer_tail' = t /\ status' = Set(status, t, s) /\ next' = Set(next, t, NULL)
    /\ UNCHANGED <<rdr, reader_head, writer_head, my_current_writer>>

Lock(t) ==
    /\ Request(t, "lock")
    /\ me' = Set(me, t, [pc |-> IF writer_tail = NULL THEN "set_head" ELSE "link",
                         I |-> t, W |-> IF writer_tail = NULL THEN t ELSE writer_tail,
                         return |-> "wait_write"])
    /\ Enqueue(t, "waiting")

TryLock(t) ==
    /\ Request(t, "try_lock") /\ writer_tail = NULL
    /\ me' = Set(me, t, [pc |-> "set_head", I |-> t, W |-> t, return |-> "tried"])
    /\ Enqueue(t, "waiting_nonblocking")

Link(t) ==
    /\ Goto(t, "link", "wait_write")
    /\ next' = Set(next, me[t].W, t)
    /\ UNCHANGED <<words, my_current_writer, status, calls>>

\* After set_next_writer for a try_lock: it has the lock, or must leave the
\* queue, in which others may stand by now.
Tried(t) ==
    /\ At(t, "tried")
    /\ \/ status[t] = "active" /\ Await(t, "tried", "wait_write", TRUE)
       \/ /\ status[t] # "active"
          /\ IF next[t] = NULL
             THEN Goto(t, "tried", "clear_head")
             ELSE CallWith(t, "tried", "set_head", next[t], "delete")
          /\ UNCHANGED <<words, my_current_writer, nodes, calls>>

WaitWrite(t) ==
    /\ Goto(t, "wait_write", "writing") /\ status[t] = "active"
    /\ my_current_writer' = t
    /\ UNCHANGED <<words, nodes, calls>>

(***************************************************************************)
(* set_next_writer(W), by W itself or by the writer that leaves before it  *)
(***************************************************************************)
\* Mutated form: the flags are set at once whether a reader is about to enter.
CloseDoor(t) ==
    /\ Goto(t, "or_flag1", "await_readers")
    /\ SetFlags([rdr EXCEPT !.WFLAG1 = TRUE, !.WFLAG2 = TRUE])

StoreHead(t) ==
    /\ Goto(t, "set_head",
            IF status[me[t].W] = "waiting_nonblocking" THEN "try_flags" ELSE "or_flag1")
    /\ SetHead(me[t].W)
TryFlags(t) ==
    /\ Return(t, "try_flags")
    /\ IF rdr = NoFlags
       THEN /\ rdr' = [NoFlags EXCEPT !.WFLAG1 = TRUE, !.WFLAG2 = TRUE]
            /\ status' = Set(status, me[t].W, "active")
       ELSE UNCHANGED <<rdr, status>>
    /\ UNCHANGED <<reader_head, writer_head, writer_tail, my_current_writer, next, calls>>
\* Readers that have shown interest go first; they set WFLAG2.
OrFlag1(t) ==
    /\ Goto(t, "or_flag1", IF rdr.RFLAG THEN "await_flag2" ELSE "or_flag2")
    /\ SetFlags([rdr EXCEPT !.WFLAG1 = TRUE])
AwaitFlag2(t) == Await(t, "await_flag2", "await_readers", rdr.WFLAG2)
OrFlag2(t) ==
    Goto(t, "or_flag2", "await_readers") /\ SetFlags([rdr EXCEPT !.WFLAG2 = TRUE])
\* location < RC_INCR: no reader is counted
AwaitReaders(t) == Await(t, "await_readers", "activate", rdr.count = 0)
Activate(t) == Return(t, "activate") /\ SetStatus(me[t].W, "active")

Writing(t) ==
    \/ Lock(t) \/ TryLock(t) \/ Link(t) \/ Tried(t) \/ WaitWrite(t)
    \/ StoreHead(t) \/ TryFlags(t) \/ OrFlag1(t) \/ AwaitFlag2(t) \/ OrFlag2(t)
    \/ AwaitReaders(t) \/ Activate(t)

(***************************************************************************)
(* unlock, which tells writers from readers by my_current_writer           *)
(***************************************************************************)
Unlock(t) ==
    /\ me[t].pc \in {"writing", "reading"}
    /\ \/ /\ my_current_writer # NULL
          /\ me' = Set(me, t, [Idle EXCEPT !.pc = "next_writer", !.I = writer_head])
          /\ my_current_writer' = NULL
          /\ UNCHANGED <<words, nodes, calls>>
       \/ /\ my_current_writer = NULL
          /\ me' = Set(me, t, Idle)
          /\ SetFlags([rdr EXCEPT !.count = @ - 1])

NextWriter(t) ==
    /\ At(t, "next_writer")
    /\ IF next[me[t].I] = NULL
       THEN Goto(t, "next_writer", "clear_flags") /\ UNCHANGED writer_head
       ELSE Goto(t, "next_writer", "pass_on") /\ writer_head' = next[me[t].I]
    /\ UNCHANGED <<rdr, reader_head, writer_tail, my_current_writer, nodes, calls>>
PassOn(t) == Goto(t, "pass_on", "delete") /\ SetStatus(writer_head, "active")

ClearFlags(t) ==
    /\ IF rdr.RFLAG
       THEN CallWith(t, "clear_flags", "unblock", NULL, "clear_head")
       ELSE Goto(t, "clear_flags", "clear_head")
    /\ SetFlags([rdr EXCEPT !.WFLAG1 = FALSE, !.WFLAG2 = FALSE])

ClearHead(t) == Goto(t, "clear_head", "clear_tail") /\ SetHead(NULL)
ClearTail(t) ==
    \/ /\ writer_tail = me[t].I
       /\ Goto(t, "clear_tail", "delete")
       /\ writer_tail' = NULL
       /\ UNCHANGED <<rdr, reader_head, writer_head, my_current_writer, nodes, calls>>
    \/ writer_tail # me[t].I /\ Await(t, "clear_tail", "await_next", TRUE)
\* Mutated form: who has not linked itself yet is left to itself.
LeaveAtOnce(t) == Await(t, "await_next", "delete", TRUE)
AwaitNext(t) ==
    /\ At(t, "await_next") /\ next[me[t].I] # NULL
    /\ CallWith(t, "await_next", "set_head", next[me[t].I], "delete")
    /\ UNCHANGED <<words, my_current_writer, nodes, calls>>
Delete(t) ==
    /\ At(t, "delete") /\ me' = Set(me, t, Idle) /\ SetStatus(me[t].I, "invalid")

EndingWrite(t) ==
    \/ NextWriter(t) \/ PassOn(t) \/ ClearFlags(t) \/ ClearHead(t) \/ ClearTail(t)
    \/ AwaitNext(t) \/ Delete(t)

(***************************************************************************)
(* start_read and try_lock_read                                            *)
(***************************************************************************)
LockRead(t) ==
    /\ Request(t, "lock_read")
    /\ me' = Set(me, t, [pc |-> IF reader_head = NULL THEN "or_rflag" ELSE "wait_read",
                         I |-> t, W |-> NULL, return |-> "wait_read"])
    /\ reader_head' = t
    /\ status' = Set(status, t, "waiting") /\ next' = Set(next, t, reader_head)
    /\ UNCHANGED <<rdr, writer_head, writer_tail, my_current_writer>>

OrRFlag(t) ==
    /\ Goto(t, "or_rflag", IF WritersPresent THEN "wait_read" ELSE "unblock")
    /\ SetFlags([rdr EXCEPT !.RFLAG = TRUE])

WaitRead(t) ==
    /\ At(t, "wait_read") /\ status[t] = "active"
    /\ IF next[t] = NULL
       THEN Goto(t, "wait_read", "reading") /\ SetStatus(t, "invalid")
       ELSE Await(t, "wait_read", "count_next", TRUE)
CountNext(t) ==
    Goto(t, "count_next", "wake_next") /\ SetFlags([rdr EXCEPT !.count = @ + 1])
\* The last access to the own node: it is gone when lock_read returns.
WakeNext(t) ==
    /\ Goto(t, "wake_next", "reading")
    /\ status' = [status EXCEPT ![next[t]] = "active", ![t] = "invalid"]
    /\ UNCHANGED <<words, my_current_writer, next, calls>>

TryLockRead(t) ==
    /\ Request(t, "try_lock_read")
    /\ me' = [me EXCEPT ![t].pc = IF WritersPresent THEN "take_back" ELSE "reading"]
    /\ rdr' = [rdr EXCEPT !.count = @ + 1]
    /\ UNCHANGED <<reader_head, writer_head, writer_tail, my_current_writer, nodes>>
TakeBack(t) == Goto(t, "take_back", "idle") /\ SetFlags([rdr EXCEPT !.count = @ - 1])

Reading(t) ==
    \/ LockRead(t) \/ OrRFlag(t) \/ WaitRead(t) \/ CountNext(t) \/ WakeNext(t)
    \/ TryLockRead(t) \/ TakeBack(t)

(***************************************************************************)
(* unblock_readers: the first reader of a group, or a writer that leaves,  *)
(* counts the head of the list, shuts the window in which a writer waits   *)
(* for RFLAG to go, and wakes the head.                                    *)
(***************************************************************************)
\* Mutated form: the writer in the window is not told.
UnblockAndLeaveOpen(t) ==
    Goto(t, "unblock", "take_list") /\ SetFlags([rdr EXCEPT !.count = @ + 1, !.RFLAG = FALSE])
Unblock(t) ==
    /\ Goto(t, "unblock", "look_flag1")
    /\ SetFlags([rdr EXCEPT !.count = @ + 1, !.RFLAG = FALSE])
LookFlag1(t) == Await(t, "look_flag1", IF rdr.WFLAG1 THEN "look_flag2" ELSE "take_list", TRUE)
LookFlag2(t) == Await(t, "look_flag2", IF rdr.WFLAG2 THEN "take_list" ELSE "tell_writer", TRUE)
TellWriter(t) ==
    Goto(t, "tell_writer", "take_list") /\ SetFlags([rdr EXCEPT !.WFLAG2 = TRUE])
TakeList(t) ==
    /\ At(t, "take_list")
    /\ me' = [me EXCEPT ![t].pc = "wake_head", ![t].W = reader_head]
    /\ reader_head' = NULL
    /\ UNCHANGED <<rdr, writer_head, writer_tail, my_current_writer, nodes, calls>>
WakeHead(t) == Return(t, "wake_head") /\ SetStatus(me[t].W, "active")

Unblocking(t) ==
    \/ Unblock(t) \/ LookFlag1(t) \/ LookFlag2(t) \/ TellWriter(t) \/ TakeList(t) \/ WakeHead(t)

Next == \E t \in Thread :
    Writing(t) \/ Unlock(t) \/ EndingWrite(t) \/ Reading(t) \/ Unblocking(t)

Spec == Init /\ [][Next]_vars

(***************************************************************************)
(* Properties                                                              *)
(***************************************************************************)
\* A writer has the lock alone, though the flags and the count are changed by
\* readers and writers that come, go, try and give up at the same time.
Exclusion ==
    \A t, u \in Thread : At(t, "writing") /\ me[u].pc \in {"writing", "reading"} => t = u

\* The nodes that the next step of t refers to
Targets(t) ==
    CASE me[t].pc \in {"set_head", "try_flags", "activate", "link", "wake_head"} -> {me[t].W}
      [] me[t].pc \in {"next_writer", "await_next"} -> {me[t].I}
      [] me[t].pc = "pass_on" -> {writer_head}
      [] me[t].pc = "wake_next" -> {next[t]}
      [] me[t].pc = "delete" -> {me[t].I}
      [] OTHER -> {}

\* Nodes are on stacks or deleted: nobody touches one that is gone, the heads
\* refer to none, and a writer does not leave writer_head at its own node.
NoDanglingNode ==
    /\ \A t \in Thread : \A n \in Targets(t) : n \in Thread /\ status[n] # "invalid"
    /\ \A n \in {reader_head, writer_head, writer_tail} \ {NULL} : status[n] # "invalid"
    /\ \A t \in Thread : At(t, "delete") => writer_head # me[t].I

\* What a thread waits for
Blocked(t) ==
    CASE At(t, "wait_write") -> status[t] # "active"
      [] At(t, "wait_read") -> status[t] # "active"
      [] At(t, "await_flag2") -> ~rdr.WFLAG2
      [] At(t, "await_readers") -> rdr.count # 0
      [] At(t, "await_next") -> next[me[t].I] = NULL
      [] OTHER -> At(t, "idle")

\* Readers and writers that wait for each other's flags never all wait, and
\* when nobody is inside nothing is left behind, which the destructor asserts.
NoDeadlock ==
    (\A t \in Thread : Blocked(t)) =>
        /\ \A t \in Thread : At(t, "idle")
        /\ rdr = NoFlags /\ reader_head = NULL /\ writer_head = NULL /\ writer_tail = NULL

\* Writers are preferred: while one has the lock or is next to have it, the
\* readers inside are those that were counted before it shut the door.
WritersPreferred ==
    \A t \in Thread : At(t, "activate") \/ At(t, "writing") =>
        ~\E u \in Thread : me[u].pc \in {"reading", "count_next", "wake_next"}
=============================================================================
