--------------------------- MODULE ParallelReduce ---------------------------
(***************************************************************************)
(* parallel_reduce (src/include/tbb/parallel_reduce.h) with the simple and *)
(* the auto partitioner (src/include/tbb/partitioner.h), over a range of   *)
(* integers (blocked_range.h) with grain size 1.  A task splits off right  *)
(* parts of its range as tasks of their own; a right part that begins      *)
(* before its left part is done gets a body of its own, a zombie, which    *)
(* the finish_reduce task joins to the left one.  Joining need not         *)
(* commute, so the value of a body is the sequence of what it has met.     *)
(*                                                                         *)
(* The range split off at m gives start_reduce task m and finish_reduce m, *)
(* whose zombie is body m; task 0 is the root, body 0 the caller's.  The   *)
(* scheduler is what TaskTree shows it to be: a thread takes its own       *)
(* newest task or steals the oldest one of another, and executes a         *)
(* continuation whose last child it has completed.                         *)
(***************************************************************************)
EXTENDS Integers, Sequences, FiniteSets

CONSTANTS
    Thread,
    Main,           \* who calls parallel_reduce
    N,              \* the range is 0 .. N-1
    Auto,           \* auto_partitioner, else simple_partitioner
    InitialDivisor, \* of the root; the code has twice the threads of the arena
    InitDepth,      \* __TBB_INIT_DEPTH
    Cancellable     \* whether the context may be cancelled

DEMAND_DEPTH_ADD == 2
range_pool_size == 8

Assumptions ==
    /\ Main \in Thread /\ N \in Nat \ {0}
    /\ Auto \in BOOLEAN /\ Cancellable \in BOOLEAN
    /\ InitialDivisor \in Nat \ {0, 1} /\ InitDepth \in Nat

VARIABLES
    start,     \* start_reduce: range, my_body, my_context, parent, my_partition, range_pool
    finish,    \* finish_reduce: ref_count, my_body, has_right_zombie, my_context, parent,
               \* my_child_stolen, alive
    value,     \* of the bodies
    spawned,   \* the tasks in each thread's pool
    me,        \* per thread: pc, its task and whether it stole it
    cancelled, \* the context's my_cancellation_requested
    done       \* the call has returned

vars == <<start, finish, value, spawned, me, cancelled, done>>

None == -1
NoTask == [lo |-> 0, hi |-> 0, body |-> 0, ctx |-> "right_child", parent |-> 0,
           divisor |-> 0, depth |-> 0, ranges |-> <<>>]
NoFinish == [ref |-> 0, body |-> None, zombie |-> FALSE, ctx |-> "root_task", parent |-> 0,
             stolen |-> FALSE, alive |-> FALSE]
Idle == [pc |-> "idle", task |-> None, stolen |-> FALSE]
Indices == [i \in 1 .. N |-> i - 1]

Init ==
    /\ start = [i \in 0 .. N - 1 |->
                    IF i = 0 THEN [NoTask EXCEPT !.hi = N, !.ctx = "root_task",
                                                 !.divisor = InitialDivisor, !.depth = InitDepth]
                    ELSE NoTask]
    /\ finish = [i \in 1 .. N - 1 |-> NoFinish]
    /\ value = [b \in 0 .. N - 1 |-> <<>>]
    /\ spawned = [t \in Thread |-> <<>>]
    /\ me = [t \in Thread |-> IF t = Main THEN [Idle EXCEPT !.pc = "begin", !.task = 0] ELSE Idle]
    /\ cancelled = FALSE /\ done = FALSE

At(t, label) == me[t].pc = label
Goto(t, from, to) == At(t, from) /\ me' = [me EXCEPT ![t].pc = to]
Mine(t) == start[me[t].task]

(***************************************************************************)
(* Getting tasks                                                           *)
(***************************************************************************)
Take(t, i, stolen) == me' = [me EXCEPT ![t] = [pc |-> "begin", task |-> i, stolen |-> stolen]]
GetTask(t) ==
    /\ At(t, "idle") /\ spawned[t] # <<>>
    /\ Take(t, spawned[t][Len(spawned[t])], FALSE)
    /\ spawned' = [spawned EXCEPT ![t] = SubSeq(@, 1, Len(@) - 1)]
    /\ UNCHANGED <<start, finish, value, cancelled, done>>
Steal(t, u) ==
    /\ At(t, "idle") /\ spawned[t] = <<>> /\ t # u /\ spawned[u] # <<>>
    /\ Take(t, Head(spawned[u]), TRUE)
    /\ spawned' = [spawned EXCEPT ![u] = Tail(@)]
    /\ UNCHANGED <<start, finish, value, cancelled, done>>

Cancel ==
    /\ Cancellable /\ ~cancelled /\ ~done /\ cancelled' = TRUE
    /\ UNCHANGED <<start, finish, value, spawned, me, done>>

(***************************************************************************)
(* start_reduce::execute, which is skipped when the context is cancelled   *)
(***************************************************************************)
\* check_being_stolen
Begin(t) ==
    /\ At(t, "begin")
    /\ IF cancelled
       THEN Goto(t, "begin", "complete") /\ UNCHANGED start
       ELSE LET fresh == Auto /\ Mine(t).divisor = 0
                marks == fresh /\ me[t].stolen /\ finish[Mine(t).parent].ref >= 2
            IN  /\ Goto(t, "begin", IF marks THEN "mark" ELSE "load")
                /\ start' = [start EXCEPT
                       ![me[t].task].divisor = IF fresh THEN 1 ELSE @,
                       ![me[t].task].depth =
                           IF marks THEN (IF @ = 0 THEN 1 ELSE @) + DEMAND_DEPTH_ADD ELSE @]
    /\ UNCHANGED <<finish, value, spawned, cancelled, done>>
MarkStolen(t) ==
    /\ Goto(t, "mark", "load")
    /\ finish' = [finish EXCEPT ![Mine(t).parent].stolen = TRUE]
    /\ UNCHANGED <<start, value, spawned, cancelled, done>>

\* A right part whose left part is not done makes a zombie.  (That the task was
\* stolen would say the same here, where every other task is taken last in,
\* first out.)
LoadBody(t) ==
    /\ Goto(t, "load", "split")
    /\ LET i == me[t].task  f == start[i].parent IN
       IF start[i].ctx = "right_child" /\ finish[f].body = None
       THEN start' = [start EXCEPT ![i].body = f] /\ finish' = [finish EXCEPT ![f].zombie = TRUE]
       ELSE UNCHANGED <<start, finish>>
    /\ UNCHANGED <<value, spawned, cancelled, done>>

Divisible(r) == r.hi - r.lo > 1
Middle(r) == r.lo + (r.hi - r.lo) \div 2
Log2(n) == CHOOSE k \in 0 .. n : 2^k <= n /\ n < 2^(k + 1)

\* offer_work: the right part lo .. hi-1 becomes task lo.  It and what is left
\* of task i become children of finish_reduce lo, which takes i's place.
Offer(t, left, lo, hi, d) ==
    LET i == me[t].task
        divisor == left.divisor \div 2
        rest == left.divisor - divisor
    IN  /\ start' = [start EXCEPT
               ![i] = [left EXCEPT !.ctx = "left_child", !.parent = lo, !.divisor = rest,
                           !.depth = IF divisor = 0 THEN @ ELSE @ + Log2(rest \div divisor)],
               ![lo] = [NoTask EXCEPT !.lo = lo, !.hi = hi, !.body = left.body, !.parent = lo,
                                      !.divisor = divisor, !.depth = left.depth - d]]
        /\ finish' = [finish EXCEPT ![lo] =
               [NoFinish EXCEPT !.ref = 2, !.ctx = left.ctx, !.parent = left.parent, !.alive = TRUE]]
        /\ spawned' = [spawned EXCEPT ![t] = Append(@, lo)]

\* is_divisible of the partitioner, and what it makes of my_partition
MaySplit(s) == Divisible(s) /\ (~Auto \/ s.divisor > 1 \/ (s.divisor = 1 /\ s.depth > 0))
OnceMore(s) ==
    IF Auto /\ s.divisor = 1 THEN [s EXCEPT !.divisor = 0, !.depth = @ - 1] ELSE s

SplitOff(t) ==
    /\ At(t, "split") /\ MaySplit(Mine(t))
    /\ LET s == OnceMore(Mine(t)) IN Offer(t, [s EXCEPT !.hi = Middle(s)], Middle(s), s.hi, 0)
    /\ UNCHANGED <<value, me, cancelled, done>>
\* What is left is run at once or goes to the pool of ranges.
SplitNoMore(t) ==
    /\ At(t, "split") /\ ~MaySplit(Mine(t))
    /\ LET s == Mine(t) IN
       /\ Goto(t, "split", IF Divisible(s) /\ s.depth > 0 THEN "fill" ELSE "body")
       /\ start' = [start EXCEPT ![me[t].task].ranges = <<[lo |-> s.lo, hi |-> s.hi, depth |-> 0]>>]
    /\ UNCHANGED <<finish, value, spawned, cancelled, done>>

\* range_vector: the front is the rightmost range, the back the leftmost.
Back(rs) == rs[Len(rs)]
RangeDivisible(rs, depth) == Back(rs).depth < depth /\ Divisible(Back(rs))
SplitBack(rs) ==
    LET r == Back(rs) IN
    [rs EXCEPT ![Len(rs)] = [lo |-> Middle(r), hi |-> r.hi, depth |-> r.depth + 1]]
        \o <<[lo |-> r.lo, hi |-> Middle(r), depth |-> r.depth + 1]>>
\* split_to_fill
Filled(s) ==
    LET fill[n \in 0 .. range_pool_size] ==
            IF n = 0 THEN s.ranges
            ELSE IF Len(fill[n - 1]) < range_pool_size /\ RangeDivisible(fill[n - 1], s.depth)
                 THEN SplitBack(fill[n - 1]) ELSE fill[n - 1]
    IN  fill[range_pool_size]

\* Fill the pool, and see whether there is demand: then give the front away,
\* or, when there is one range only, try to split it deeper.
FillPool(t) ==
    /\ At(t, "fill")
    /\ LET s == [Mine(t) EXCEPT !.ranges = Filled(Mine(t))]
           more == [s EXCEPT !.depth = @ + DEMAND_DEPTH_ADD]
           front == Head(s.ranges)
           i == me[t].task
       IN  IF ~finish[s.parent].stolen
           THEN /\ start' = [start EXCEPT ![i] = s] /\ Goto(t, "fill", "body")
                /\ UNCHANGED <<finish, spawned>>
           ELSE IF Len(s.ranges) > 1
           THEN /\ Goto(t, "fill", "loop")
                /\ Offer(t, [more EXCEPT !.ranges = Tail(@)], front.lo, front.hi, front.depth)
           ELSE /\ Goto(t, "fill", IF RangeDivisible(s.ranges, more.depth) THEN "loop" ELSE "body")
                /\ start' = [start EXCEPT ![i] = more]
                /\ UNCHANGED <<finish, spawned>>
    /\ UNCHANGED <<value, cancelled, done>>

\* run_body takes time.
RunBody(t) == Goto(t, "body", "running") /\ UNCHANGED <<start, finish, value, spawned, cancelled, done>>
BodyDone(t) ==
    /\ Goto(t, "running", "loop")
    /\ LET s == Mine(t)  r == Back(s.ranges) IN
       /\ value' = [value EXCEPT ![s.body] = @ \o SubSeq(Indices, r.lo + 1, r.hi)]
       /\ start' = [start EXCEPT ![me[t].task].ranges = SubSeq(@, 1, Len(@) - 1)]
    /\ UNCHANGED <<finish, spawned, cancelled, done>>
Loop(t) ==
    /\ Goto(t, "loop", IF Mine(t).ranges # <<>> /\ ~cancelled THEN "fill" ELSE "left")
    /\ UNCHANGED <<start, finish, value, spawned, cancelled, done>>

\* A left part says that it is done by handing its body to finish_reduce.
LeftDone(t) ==
    /\ Goto(t, "left", "complete")
    /\ finish' = IF Mine(t).ctx = "left_child"
                 THEN [finish EXCEPT ![Mine(t).parent].body = Mine(t).body] ELSE finish
    /\ UNCHANGED <<start, value, spawned, cancelled, done>>

(***************************************************************************)
(* The end of a task, and finish_reduce when both children have ended      *)
(***************************************************************************)
Complete(t, f) ==
    IF f = 0
    THEN /\ done' = TRUE /\ me' = [me EXCEPT ![t] = Idle]
         /\ UNCHANGED finish
    ELSE /\ finish' = [finish EXCEPT ![f].ref = @ - 1]
         /\ me' = [me EXCEPT ![t] =
                IF finish[f].ref = 1 THEN [Idle EXCEPT !.pc = "join", !.task = f] ELSE Idle]
         /\ UNCHANGED done
EndStart(t) ==
    /\ At(t, "complete") /\ Complete(t, Mine(t).parent)
    /\ UNCHANGED <<start, value, spawned, cancelled>>

Join(t) ==
    /\ At(t, "join")
    /\ LET f == finish[me[t].task] IN
       /\ Goto(t, "join", IF ~cancelled /\ f.ctx = "left_child" THEN "report" ELSE "destroy")
       /\ value' = IF ~cancelled /\ f.zombie
                   THEN [value EXCEPT ![f.body] = @ \o value[me[t].task]] ELSE value
    /\ UNCHANGED <<start, finish, spawned, cancelled, done>>
\* Mutated form: a subtree that was split again does not report its end.
ReportNothing(t) ==
    Goto(t, "report", "destroy") /\ UNCHANGED <<start, finish, value, spawned, cancelled, done>>
Report(t) ==
    /\ Goto(t, "report", "destroy")
    /\ LET f == finish[me[t].task] IN finish' = [finish EXCEPT ![f.parent].body = f.body]
    /\ UNCHANGED <<start, value, spawned, cancelled, done>>
\* ~finish_reduce destroys the zombie.
Destroy(t) ==
    /\ Goto(t, "destroy", "complete_finish")
    /\ finish' = [finish EXCEPT ![me[t].task].alive = FALSE]
    /\ UNCHANGED <<start, value, spawned, cancelled, done>>
EndFinish(t) ==
    /\ At(t, "complete_finish") /\ Complete(t, finish[me[t].task].parent)
    /\ UNCHANGED <<start, value, spawned, cancelled>>

Step(t) ==
    \/ GetTask(t) \/ (\E u \in Thread : Steal(t, u))
    \/ Begin(t) \/ MarkStolen(t) \/ LoadBody(t) \/ SplitOff(t) \/ SplitNoMore(t)
    \/ FillPool(t) \/ RunBody(t) \/ BodyDone(t) \/ Loop(t) \/ LeftDone(t) \/ EndStart(t)
    \/ Join(t) \/ Report(t) \/ Destroy(t) \/ EndFinish(t)
Next == Cancel \/ \E t \in Thread : Step(t)

Spec == Init /\ [][Next]_vars

(***************************************************************************)
(* Properties                                                              *)
(***************************************************************************)
Alive(b) == b = 0 \/ (finish[b].alive /\ finish[b].zombie)

\* The bodies in use by t; destroy is the last use of a finish_reduce.
InUse(t) ==
    CASE At(t, "running") -> {Mine(t).body}
      [] At(t, "join") /\ ~cancelled ->
            {finish[me[t].task].body} \cup
            (IF finish[me[t].task].zombie THEN {me[t].task} ELSE {})
      [] OTHER -> {}

\* A body is in use by one thread at a time, and never after its end: a right
\* part takes over the body of its left part only when that has finished with
\* it, the subtrees it was split into included.
BodiesExclusive ==
    /\ \A t \in Thread : \A b \in InUse(t) : b # None /\ Alive(b)
    /\ \A t, u \in Thread : t # u => InUse(t) \cap InUse(u) = {}

\* What a body holds is a run of consecutive indices, in order, though they
\* were met by many threads; after a cancellation some may be missing.
InOrder ==
    \A b \in {0} \cup {f \in 1 .. N - 1 : Alive(f)} : \A k \in 1 .. Len(value[b]) - 1 :
        IF cancelled THEN value[b][k] < value[b][k + 1] ELSE value[b][k + 1] = value[b][k] + 1

\* The call returns with all of the range in the caller's body, unless it was
\* cancelled; every task has gone by then.
ResultWhole ==
    done => /\ cancelled \/ value[0] = Indices
            /\ \A t \in Thread : At(t, "idle") /\ spawned[t] = <<>>
            /\ \A f \in 1 .. N - 1 : ~finish[f].alive
=============================================================================
