-------------------------- MODULE ConcurrentVector --------------------------
(***************************************************************************)
(* How a concurrent vector grows (src/src/tbb/concurrent_vector.cpp):      *)
(* threads take ranges of indices with one atomic step and then find or    *)
(* allocate the segments in which their elements live.  The thread whose   *)
(* range holds the first index of a segment allocates it, the others wait. *)
(* The first segments share one block; the table of segments is embedded   *)
(* in the vector until it is too short, and is then copied to a long one.  *)
(* Any allocation of a segment may fail.                                   *)
(*                                                                         *)
(* Elements are not modelled, only the segments that hold them.            *)
(***************************************************************************)
EXTENDS Integers, FiniteSets

CONSTANTS
    Thread,
    pointers_per_short_table,
    Deltas,         \* the arguments of grow_by
    Sizes,          \* the arguments of grow_to_at_least
    MaxCalls,       \* bound: calls
    MaxFailures     \* bound: allocations that fail

Assumptions ==
    /\ pointers_per_short_table \in Nat \ {0}
    /\ Deltas \cup Sizes \subseteq Nat \ {0}
    /\ MaxCalls \in Nat /\ MaxFailures \in Nat

VARIABLES
    my_early_size, my_first_block,
    my_segment,     \* the table in use: "short" (my_storage) or "long"
    seg,            \* the states of the segments in each table
    me,             \* of each thread: where it is in its call
    granted,        \* ghost: the indices that calls have returned as usable
    failures, calls

vars == <<my_early_size, my_first_block, my_segment, seg, me, granted, failures, calls>>

MaxSize == 16       \* bound: the indices that may be asked for
Segment == 0 .. 3
Last(S) == CHOOSE x \in S : \A y \in S : y <= x
segment_base(k) == IF k = 0 THEN 0 ELSE 2^k
segment_index_of(i) == Last({k \in Segment : segment_base(k) <= i})
Short(k) == k < pointers_per_short_table
Cells(table) == {k \in Segment : table = "long" \/ Short(k)}

NotUsed == [k \in Segment |-> "not used"]
Idle == [pc |-> "idle", op |-> "none", start |-> 0, finish |-> 0, first_block |-> 0,
         lo |-> 0, hi |-> 0, k |-> 0, owner |-> FALSE, table |-> "short", range |-> "short",
         copy |-> NotUsed]

Init ==
    /\ my_early_size = 0 /\ my_first_block = 0
    /\ my_segment = "short"
    /\ seg = [table \in {"short", "long"} |-> NotUsed]
    /\ me = [t \in Thread |-> Idle]
    /\ granted = {} /\ failures = 0 /\ calls = 0

At(t, pc) == me[t].pc = pc
Becomes(t, new) == me' = [me EXCEPT ![t] = new]
Goto(t, pc) == Becomes(t, [me[t] EXCEPT !.pc = pc])
vector == <<my_early_size, my_first_block, my_segment, seg>>
ghosts == <<granted, failures, calls>>

(***************************************************************************)
(* The calls.                                                              *)
(***************************************************************************)
Begins(t, pc, op, start, finish) ==
    Becomes(t, [Idle EXCEPT !.pc = pc, !.op = op, !.start = start, !.finish = finish,
                            !.lo = segment_index_of(start), !.hi = segment_index_of(finish - 1)])
Calls == calls < MaxCalls /\ calls' = calls + 1
         /\ UNCHANGED <<my_first_block, my_segment, seg, granted, failures>>

PushBack(t) ==
    /\ At(t, "idle") /\ Calls /\ my_early_size < MaxSize
    /\ my_early_size' = my_early_size + 1
    /\ Begins(t, "extend", "push", my_early_size, my_early_size + 1)
GrowBy(t) == \E delta \in Deltas :
    /\ At(t, "idle") /\ Calls /\ my_early_size + delta <= MaxSize
    /\ my_early_size' = my_early_size + delta
    /\ Begins(t, "first", "grow", my_early_size, my_early_size + delta)
GrowToAtLeast(t) == \E n \in Sizes :
    /\ At(t, "idle") /\ Calls
    /\ IF my_early_size < n
       THEN my_early_size' = n /\ Begins(t, "first", "at least", my_early_size, n)
       ELSE UNCHANGED my_early_size /\ Begins(t, "table", "at least", 0, n)

\* assign_first_segment_if_necessary
First(t) ==
    /\ At(t, "first")
    /\ my_first_block' = IF my_first_block = 0 THEN me[t].hi + 1 ELSE my_first_block
    /\ Goto(t, "extend")
    /\ UNCHANGED <<my_early_size, my_segment, seg, ghosts>>

(***************************************************************************)
(* extend_table_if_necessary: whoever sets a segment in the short table    *)
(* must have done so before the table is copied.                           *)
(***************************************************************************)
Ranges(t) == [me[t] EXCEPT !.pc = "next", !.range = my_segment, !.first_block = my_first_block,
                           !.k = 0]
Extend(t) ==
    /\ At(t, "extend")
    /\ Becomes(t, IF ~Short(me[t].hi) /\ my_segment = "short"
                  THEN [me[t] EXCEPT !.pc = "slots"] ELSE Ranges(t))
    /\ UNCHANGED <<vector, ghosts>>
\* Mutated form: the table is copied without waiting.
CopyAtOnce(t) ==
    /\ At(t, "slots")
    /\ IF my_segment = "long" THEN Becomes(t, Ranges(t))
       ELSE Becomes(t, [me[t] EXCEPT !.pc = "install", !.copy = seg["short"]])
    /\ UNCHANGED <<vector, ghosts>>
AwaitSlots(t) ==
    /\ At(t, "slots")
    /\ IF my_segment = "long" THEN Becomes(t, Ranges(t))
       ELSE IF Short(me[t].k) /\ segment_base(me[t].k) < me[t].start
       THEN /\ seg["short"][me[t].k] # "not used"
            /\ Becomes(t, [me[t] EXCEPT !.k = @ + 1])
       ELSE Becomes(t, [me[t] EXCEPT !.pc = "install", !.copy = seg["short"]])
    /\ UNCHANGED <<vector, ghosts>>
Install(t) ==
    /\ At(t, "install")
    /\ IF my_segment = "short"
       THEN my_segment' = "long" /\ seg' = [seg EXCEPT !["long"] = me[t].copy]
       ELSE UNCHANGED <<my_segment, seg>>
    /\ Becomes(t, [me[t] EXCEPT !.pc = "next", !.range = "long", !.first_block = my_first_block,
                                !.k = 0, !.copy = NotUsed])
    /\ UNCHANGED <<my_early_size, my_first_block, ghosts>>

(***************************************************************************)
(* internal_grow: segments outside the first block are allocated from the  *)
(* last to the first, and those in it in straight order.                   *)
(***************************************************************************)
Backward(t) == me[t].op # "push" /\ me[t].hi > me[t].lo /\ me[t].hi >= me[t].first_block
NextSegment(t) ==
    /\ At(t, "next") /\ me[t].lo <= me[t].hi
    /\ Becomes(t, IF Backward(t)
                  THEN [me[t] EXCEPT !.pc = "acquire", !.k = me[t].hi, !.hi = @ - 1, !.owner = TRUE]
                  ELSE [me[t] EXCEPT !.pc = "acquire", !.k = me[t].lo, !.lo = @ + 1,
                                     !.owner = segment_base(me[t].lo) >= me[t].start])
    /\ UNCHANGED <<vector, ghosts>>
Grown(t) ==
    /\ At(t, "next") /\ me[t].lo > me[t].hi
    /\ IF me[t].op = "at least"
       THEN Goto(t, "table") /\ UNCHANGED granted
       ELSE Becomes(t, Idle) /\ granted' = granted \cup (me[t].start .. me[t].finish - 1)
    /\ UNCHANGED <<vector, failures, calls>>

\* acquire_segment
Cell(t) == seg[me[t].table][me[t].k]
Acquire(t) ==
    /\ At(t, "acquire")
    /\ Becomes(t, [me[t] EXCEPT !.table = my_segment,
                                !.pc = IF seg[my_segment][me[t].k] # "not used" THEN "verify"
                                       ELSE IF me[t].owner THEN "enable" ELSE "await"])
    /\ UNCHANGED <<vector, ghosts>>
Await(t) ==
    /\ At(t, "await") /\ Cell(t) # "not used"
    /\ Goto(t, "verify")
    /\ UNCHANGED <<vector, ghosts>>
Thrown(t) == IF me[t].op = "push" \/ me[t].pc = "check" THEN Idle
             ELSE [me[t] EXCEPT !.pc = "restore"]
Verify(t) ==
    /\ At(t, "verify")
    /\ Becomes(t, IF Cell(t) = "allocated" THEN [me[t] EXCEPT !.pc = "next"] ELSE Thrown(t))
    /\ UNCHANGED <<vector, ghosts>>

\* enable_segment, which looks the table up again
Publish(k, state) == seg' = [seg EXCEPT ![my_segment][k] = state]
EnableFirst(t) ==
    /\ At(t, "enable") /\ me[t].k = 0
    /\ my_first_block' = IF my_first_block = 0 THEN 1 ELSE my_first_block
    /\ Goto(t, "allocate")
    /\ UNCHANGED <<my_early_size, my_segment, seg, ghosts>>
EnableLater(t) ==
    /\ At(t, "enable") /\ me[t].k > 0 /\ my_first_block # 0
    /\ Goto(t, IF me[t].k < my_first_block THEN "share" ELSE "allocate")
    /\ UNCHANGED <<vector, ghosts>>
\* A part of the first block, once it is there
Share(t) ==
    /\ At(t, "share") /\ seg[my_segment][0] # "not used"
    /\ IF seg[my_segment][0] = "allocated"
       THEN Publish(me[t].k, "allocated") /\ Goto(t, "verify")
       ELSE Publish(me[t].k, "failed") /\ Becomes(t, Thrown(t))
    /\ UNCHANGED <<my_early_size, my_first_block, my_segment, ghosts>>
Allocate(t) ==
    /\ At(t, "allocate")
    /\ Publish(me[t].k, "allocated") /\ Goto(t, "verify")
    /\ UNCHANGED <<my_early_size, my_first_block, my_segment, ghosts>>
FailToAllocate(t) ==
    /\ At(t, "allocate")
    /\ failures < MaxFailures /\ failures' = failures + 1
    /\ Publish(me[t].k, "failed") /\ Becomes(t, Thrown(t))
    /\ UNCHANGED <<my_early_size, my_first_block, my_segment, granted, calls>>

(***************************************************************************)
(* helper::cleanup: the segments that the call was to allocate are marked, *)
(* so that nobody waits for them for ever.                                 *)
(***************************************************************************)
Origin(t) == segment_index_of(me[t].start)
Owned(t) == {k \in Segment : k <= segment_index_of(me[t].finish - 1)
                             /\ segment_base(k) >= me[t].start}
Zero(t) == seg[me[t].range][0]
AwaitShared(t) ==
    /\ segment_base(Origin(t)) < me[t].start => seg[me[t].range][Origin(t)] # "not used"
    /\ (\E k \in Owned(t) : k < me[t].first_block) /\ me[t].start > 0 => Zero(t) # "not used"
\* Mutated form: the call throws and leaves the table as it is.
RestoreNothing(t) ==
    /\ At(t, "restore") /\ Becomes(t, Idle)
    /\ UNCHANGED <<vector, ghosts>>
Restore(t) ==
    /\ At(t, "restore") /\ AwaitShared(t)
    /\ seg' = [seg EXCEPT ![me[t].range] = [k \in Segment |->
           IF k \notin Owned(t) THEN @[k]
           ELSE IF k < me[t].first_block /\ (k > 0 \/ Zero(t) = "not used")
           THEN IF Zero(t) = "allocated" THEN "allocated" ELSE "failed"
           ELSE IF @[k] = "not used" THEN "failed" ELSE @[k]]]
    /\ Becomes(t, Idle)
    /\ UNCHANGED <<my_early_size, my_first_block, my_segment, ghosts>>

(***************************************************************************)
(* The end of internal_grow_to_at_least_with_result                        *)
(***************************************************************************)
AwaitTable(t) ==
    /\ At(t, "table")
    /\ Short(segment_index_of(me[t].finish - 1)) \/ my_segment = "long"
    /\ Becomes(t, [me[t] EXCEPT !.pc = "check", !.k = 0])
    /\ UNCHANGED <<vector, ghosts>>
Check(t) ==
    /\ At(t, "check")
    /\ IF me[t].k > segment_index_of(me[t].finish - 1)
       THEN Becomes(t, Idle) /\ granted' = granted \cup (0 .. me[t].finish - 1)
       ELSE /\ seg[my_segment][me[t].k] # "not used"
            /\ Becomes(t, IF seg[my_segment][me[t].k] = "allocated"
                          THEN [me[t] EXCEPT !.k = @ + 1] ELSE Thrown(t))
            /\ UNCHANGED granted
    /\ UNCHANGED <<vector, failures, calls>>

Next == \E t \in Thread :
    \/ PushBack(t) \/ GrowBy(t) \/ GrowToAtLeast(t)
    \/ First(t) \/ Extend(t) \/ AwaitSlots(t) \/ Install(t)
    \/ NextSegment(t) \/ Grown(t) \/ Acquire(t) \/ Await(t) \/ Verify(t)
    \/ EnableFirst(t) \/ EnableLater(t) \/ Share(t) \/ Allocate(t) \/ FailToAllocate(t)
    \/ Restore(t) \/ AwaitTable(t) \/ Check(t)

Spec == Init /\ [][Next]_vars

(***************************************************************************)
(* Properties.                                                             *)
(***************************************************************************)
\* No thread touches a segment outside its table, and none is allocated twice
\* or put where nobody will look for it.
SegmentsSound ==
    /\ \A t \in Thread :
        /\ me[t].pc \in {"await", "verify"} => me[t].k \in Cells(me[t].table)
        /\ me[t].pc \in {"enable", "share", "allocate"} =>
            me[t].k \in Cells(my_segment) /\ seg[my_segment][me[t].k] # "allocated"
        /\ me[t].pc = "restore" => \A k \in Owned(t) : k \in Cells(me[t].range)
    /\ my_segment = "long" =>
        \A k \in Segment : seg["short"][k] \in {"not used", seg["long"][k]}

\* The indices a call has returned as usable are: their segments stay
\* allocated in the table in use, whichever it is.
GrantedUsable ==
    \A i \in granted : seg[my_segment][segment_index_of(i)] = "allocated"

\* Nobody waits for a segment for ever, though its allocation may have failed.
NoHang == (\A t \in Thread : At(t, "idle")) \/ ENABLED Next
=============================================================================
