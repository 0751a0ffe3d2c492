---------------------------- MODULE ParallelScan ----------------------------
(***************************************************************************)
(* parallel_scan (src/include/tbb/parallel_scan.h) over a range of         *)
(* integers with grain size 1.  The first pass splits the range; a right   *)
(* part that is stolen gets a body of its own, a final_sum, and is only    *)
(* pre-scanned, whereas what follows what has been scanned finally is      *)
(* scanned finally at once.  The tree of sum_nodes that the first pass     *)
(* leaves says where the second pass has to scan, and with which bodies.   *)
(*                                                                         *)
(* The range split at m makes start_scan task m of the right part, sum_node*)
(* m and finish_scan m; the final_sum of task m is body m.  Task 0 is the  *)
(* root, body 0 the temporary body of the caller, and "node 0" stands for  *)
(* the caller, whose variable root is its left slot.  The value of a body  *)
(* is the sequence of the indices it has accumulated.                      *)
(***************************************************************************)
EXTENDS Integers, Sequences, FiniteSets

CONSTANTS
    Thread,
    Main,     \* who calls parallel_scan
    N         \* the range is 0 .. N-1

Assumptions == Main \in Thread /\ N \in Nat \ {0}

VARIABLES
    start,    \* start_scan: my_range, my_body, my_sum, my_return_slot, the parent,
              \* my_is_final, my_is_right_child
    node,     \* sum_node: my_left_sum, my_left, my_right, my_left_is_final, my_range, the
              \* parent, ref_count, my_body, my_incoming, my_stuff_last
    finish,   \* finish_scan: my_sum, my_return_slot, my_right_zombie, parent, ref_count
    body,     \* final_sum: whether it exists, its value, range, my_stuff_last, parent
    spawned,  \* the tasks in each thread's pool
    me,       \* per thread: pc, its task and whether it stole it
    pass,     \* "first", "between", "second" and "done"
    scanned,  \* ghost: the prefixes with which each index was scanned finally
    total     \* the value assigned to the caller's body

vars == <<start, node, finish, body, spawned, me, pass, scanned, total>>

None == -1
NoStart == [lo |-> 0, hi |-> N, body |-> 0, sum |-> None, slot |-> "left", parent |-> 0,
            final |-> TRUE, right |-> FALSE]
NoNode == [alive |-> FALSE, left_sum |-> None, left |-> None, right |-> None, final |-> FALSE,
           lo |-> 0, hi |-> 0, parent |-> 0, ref |-> 0, body |-> None, incoming |-> None,
           last |-> FALSE]
NoFinish == [sum |-> None, slot |-> "left", zombie |-> None, parent |-> 0, ref |-> 0]
NoBody == [alive |-> FALSE, val |-> <<>>, lo |-> 0, hi |-> 0, last |-> FALSE, parent |-> 0]
Idle == [pc |-> "idle", task |-> None, stolen |-> FALSE]
Run(pc, task) == [pc |-> pc, task |-> task, stolen |-> FALSE]
Indices == [i \in 1 .. N |-> i - 1]
Part(lo, hi) == SubSeq(Indices, lo + 1, hi)

Init ==
    /\ start = [i \in 0 .. N - 1 |-> NoStart]
    /\ node = [m \in 0 .. N - 1 |-> NoNode]
    /\ finish = [m \in 0 .. N - 1 |-> NoFinish]
    /\ body = [b \in 0 .. N - 1 |-> [NoBody EXCEPT !.alive = b = 0]]
    /\ spawned = [t \in Thread |-> <<>>]
    /\ me = [t \in Thread |-> IF t = Main THEN Run("begin", 0) ELSE Idle]
    /\ pass = "first" /\ scanned = [i \in 0 .. N - 1 |-> <<>>] /\ total = <<>>

At(t, label) == me[t].pc = label
Goto(t, from, to) == At(t, from) /\ me' = [me EXCEPT ![t].pc = to]
Mine(t) == start[me[t].task]

(***************************************************************************)
(* Getting tasks                                                           *)
(***************************************************************************)
GetTask(t) ==
    /\ At(t, "idle") /\ spawned[t] # <<>>
    /\ me' = [me EXCEPT ![t] = spawned[t][Len(spawned[t])]]
    /\ spawned' = [spawned EXCEPT ![t] = SubSeq(@, 1, Len(@) - 1)]
    /\ UNCHANGED <<start, node, finish, body, pass, scanned, total>>
Steal(t, u) ==
    /\ At(t, "idle") /\ spawned[t] = <<>> /\ t # u /\ spawned[u] # <<>>
    /\ me' = [me EXCEPT ![t] = [Head(spawned[u]) EXCEPT !.stolen = TRUE]]
    /\ spawned' = [spawned EXCEPT ![u] = Tail(@)]
    /\ UNCHANGED <<start, node, finish, body, pass, scanned, total>>

(***************************************************************************)
(* The first pass                                                          *)
(***************************************************************************)
Divisible(s) == s.hi - s.lo > 1
Middle(s) == s.lo + (s.hi - s.lo) \div 2
\* my_left_sum may be read while it is written only if the task was stolen.
TreatAsStolen(t) ==
    Mine(t).right /\ (me[t].stolen \/ Mine(t).body # node[Mine(t).parent].left_sum)

Begin(t) ==
    /\ LET s == Mine(t)  i == me[t].task  stolen == TreatAsStolen(t) IN
       /\ Goto(t, "begin",
               IF (s.right /\ ~stolen) \/ ~Divisible(s) THEN "range" ELSE "choose")
       /\ IF stolen
          THEN /\ body' = [body EXCEPT ![i].alive = TRUE]
               /\ start' = [start EXCEPT ![i].body = i, ![i].final = FALSE]
               /\ finish' = [finish EXCEPT ![s.parent].zombie = i]
          ELSE UNCHANGED <<body, start, finish>>
    /\ UNCHANGED <<node, spawned, pass, scanned, total>>

\* The partitioner's should_execute_range says which.
ExecuteRange(t) ==
    /\ Goto(t, "choose", "range")
    /\ UNCHANGED <<start, node, finish, body, spawned, pass, scanned, total>>
Split(t) ==
    /\ LET i == me[t].task  s == Mine(t)  m == Middle(s) IN
       /\ Goto(t, "choose", "begin")
       /\ node' = [node EXCEPT
              ![m] = [NoNode EXCEPT !.alive = TRUE, !.final = s.final, !.lo = s.lo, !.hi = s.hi,
                                    !.parent = s.parent],
              ![s.parent].ref = @ + 1]
       /\ finish' = [finish EXCEPT ![m] =
              [sum |-> s.sum, slot |-> s.slot, zombie |-> None, parent |-> s.parent, ref |-> 2]]
       /\ start' = [start EXCEPT
              ![m] = [s EXCEPT !.lo = m, !.slot = "right", !.parent = m, !.right = TRUE],
              ![i] = [s EXCEPT !.hi = m, !.sum = m, !.slot = "left", !.parent = m, !.right = FALSE]]
       /\ spawned' = [spawned EXCEPT ![t] = Append(@, Run("begin", m))]
    /\ UNCHANGED <<body, pass, scanned, total>>

\* What the body of t sees when it scans lo .. hi-1 finally.
Scanned(b, lo, hi) ==
    [i \in 0 .. N - 1 |->
        IF i \in lo .. hi - 1 THEN Append(scanned[i], body[b].val \o Part(lo, i)) ELSE scanned[i]]

RunRange(t) ==
    /\ Goto(t, "range", "running")
    /\ UNCHANGED <<start, node, finish, body, spawned, pass, scanned, total>>

\* The end of a task of the first pass: the last child brings finish_scan about.
Complete(t, f) ==
    IF f = 0
    THEN /\ pass' = "between" /\ me' = [me EXCEPT ![t] = Idle]
         /\ UNCHANGED finish
    ELSE /\ finish' = [finish EXCEPT ![f].ref = @ - 1]
         /\ me' = [me EXCEPT ![t] = IF finish[f].ref = 1 THEN Run("finish", f) ELSE Idle]
         /\ UNCHANGED pass
RangeDone(t) ==
    /\ At(t, "running")
    /\ LET s == Mine(t)  b == s.body IN
       /\ scanned' = IF s.final THEN Scanned(b, s.lo, s.hi) ELSE scanned
       /\ body' = IF s.final \/ s.sum # None
                  THEN [body EXCEPT ![b].val = @ \o Part(s.lo, s.hi)] ELSE body
       /\ node' = IF s.sum # None THEN [node EXCEPT ![s.sum].left_sum = b] ELSE node
       /\ Complete(t, s.parent)
    /\ UNCHANGED <<start, spawned, total>>

\* reverse_join: what a has accumulated goes before what b has.
ReverseJoin(b, a) == [body EXCEPT ![b].val = body[a].val \o @]

\* finish_scan::execute
Joins(m) == finish[m].zombie # None /\ finish[m].sum # None
JoinSums(t) ==
    /\ Goto(t, "finish", "link")
    /\ LET m == me[t].task IN
       body' = IF Joins(m) THEN ReverseJoin(node[finish[m].sum].left_sum, node[m].left_sum) ELSE body
    /\ UNCHANGED <<start, node, finish, spawned, pass, scanned, total>>
\* Is the second pass needed here?
Needed(m) == finish[m].zombie # None \/ node[m].right # None
\* Mutated form: what is left of the left part's final scan is forgotten.
KeepsFinal(m) == node[m].final
\* The left part was scanned finally if all of it was.
StillFinal(m) == node[m].final /\ node[m].left = None
LinkNode(t) ==
    /\ At(t, "link")
    /\ LET m == me[t].task  f == finish[m]  n == node[m]  keep == Needed(m) IN
       /\ node' = [node EXCEPT
              ![m].final = StillFinal(m),
              ![m].alive = keep,
              ![f.parent].left = IF keep /\ f.slot = "left" THEN m ELSE @,
              ![f.parent].right = IF keep /\ f.slot = "right" THEN m ELSE @,
              ![f.parent].ref = IF keep THEN @ ELSE @ - 1]
       /\ body' = IF f.zombie # None /\ f.sum = None /\ n.right = None
                  THEN [body EXCEPT ![f.zombie].alive = FALSE] ELSE body
       /\ Complete(t, f.parent)
    /\ UNCHANGED <<start, spawned, scanned, total>>

(***************************************************************************)
(* The caller between the passes, and the second pass                      *)
(***************************************************************************)
NothingLeft(t) ==
    /\ t = Main /\ At(t, "idle") /\ pass = "between" /\ node[0].left = None
    /\ total' = body[0].val /\ pass' = "done"
    /\ body' = [body EXCEPT ![0].alive = FALSE]
    /\ UNCHANGED <<start, node, finish, spawned, me, scanned>>
SecondPass(t) ==
    /\ t = Main /\ At(t, "idle") /\ pass = "between" /\ node[0].left # None
    /\ pass' = "second"
    /\ LET root == node[0].left IN
       /\ node' = [node EXCEPT ![root].body = 0, ![root].last = TRUE, ![0].ref = 1]
       /\ me' = [me EXCEPT ![t] = Run("node", root)]
    /\ UNCHANGED <<start, finish, body, spawned, scanned, total>>

\* create_child: the task is the node below, or a final_sum where there is none.
ChildTask(f, n) == IF n = None THEN Run("sum", f) ELSE Run("node", n)
WithSum(bodies, n, k, f, lo, hi, last) ==
    IF n # None THEN bodies
    ELSE [bodies EXCEPT ![f].lo = lo, ![f].hi = hi, ![f].last = last, ![f].parent = k]
WithNode(nodes, n, f, incoming, last) ==
    IF n = None THEN nodes
    ELSE [nodes EXCEPT ![n].body = f, ![n].incoming = incoming, ![n].last = last]

\* Mutated form: the right part starts from what was scanned before the left part.
PrefixAlone(n) == body
\* The sum of the left part becomes the prefix of the right part.
Prefixed(n) == IF n.incoming = None THEN body ELSE ReverseJoin(n.left_sum, n.incoming)
ExecuteNode(t) ==
    /\ At(t, "node") /\ node[me[t].task].body # None
    /\ LET k == me[t].task  n == node[k]  mid == Middle(n)
           right == ChildTask(n.left_sum, n.right)
           left == ChildTask(n.body, n.left)
           afterRight == WithSum(Prefixed(n), n.right, k, n.left_sum, mid, n.hi, n.last)
           own == [node EXCEPT ![k].body = None, ![k].ref = IF n.final THEN 1 ELSE 2]
           linked == WithNode(own, n.right, n.left_sum, n.left_sum, n.last)
       IN  IF n.final
           THEN /\ body' = afterRight /\ node' = linked
                /\ me' = [me EXCEPT ![t] = right]
                /\ UNCHANGED spawned
           ELSE /\ body' = WithSum(afterRight, n.left, k, n.body, n.lo, mid, FALSE)
                /\ node' = WithNode(linked, n.left, n.body, n.incoming, FALSE)
                /\ spawned' = [spawned EXCEPT ![t] = Append(@, right)]
                /\ me' = [me EXCEPT ![t] = left]
    /\ UNCHANGED <<start, finish, pass, scanned, total>>

CompleteNode(t, nodes, k) ==
    /\ node' = [nodes EXCEPT ![k].ref = @ - 1]
    /\ IF nodes[k].ref = 1 /\ k = 0
       THEN pass' = "done" /\ me' = [me EXCEPT ![t] = Idle]
       ELSE /\ me' = [me EXCEPT ![t] = IF nodes[k].ref = 1 THEN Run("node", k) ELSE Idle]
            /\ UNCHANGED pass
\* The node is executed again when its children have been: it returns at once.
NodeAgain(t) ==
    /\ At(t, "node") /\ node[me[t].task].body = None
    /\ LET k == me[t].task IN CompleteNode(t, [node EXCEPT ![k].alive = FALSE], node[k].parent)
    /\ UNCHANGED <<start, finish, body, spawned, scanned, total>>

FinalScan(t) ==
    /\ Goto(t, "sum", "scanning")
    /\ UNCHANGED <<start, node, finish, body, spawned, pass, scanned, total>>
ScanDone(t) ==
    /\ At(t, "scanning")
    /\ LET b == me[t].task  f == body[b] IN
       /\ scanned' = Scanned(b, f.lo, f.hi)
       /\ total' = IF f.last THEN f.val \o Part(f.lo, f.hi) ELSE total
       /\ body' = [body EXCEPT ![b].alive = FALSE]
       /\ CompleteNode(t, node, f.parent)
    /\ UNCHANGED <<start, finish, spawned>>

Step(t) ==
    \/ GetTask(t) \/ (\E u \in Thread : Steal(t, u))
    \/ Begin(t) \/ ExecuteRange(t) \/ Split(t) \/ RunRange(t) \/ RangeDone(t)
    \/ JoinSums(t) \/ LinkNode(t) \/ NothingLeft(t) \/ SecondPass(t)
    \/ ExecuteNode(t) \/ NodeAgain(t) \/ FinalScan(t) \/ ScanDone(t)
Next == \E t \in Thread : Step(t)

Spec == Init /\ [][Next]_vars

(***************************************************************************)
(* Properties                                                              *)
(***************************************************************************)
\* The bodies that t changes.
InUse(t) ==
    CASE At(t, "running") /\ (Mine(t).final \/ Mine(t).sum # None) -> {Mine(t).body}
      [] At(t, "finish") /\ Joins(me[t].task) ->
            {node[finish[me[t].task].sum].left_sum, node[me[t].task].left_sum}
      [] At(t, "node") /\ node[me[t].task].body # None -> {node[me[t].task].left_sum}
      [] At(t, "scanning") -> {me[t].task}
      [] OTHER -> {}

\* A body is in use by one thread at a time and while it exists, and so is a
\* sum_node; when the call returns nothing is left of either.
BodiesExclusive ==
    /\ \A t \in Thread : \A b \in InUse(t) : b # None /\ body[b].alive
    /\ \A t, u \in Thread : t # u => InUse(t) \cap InUse(u) = {}
    /\ \A t \in Thread : At(t, "node") \/ At(t, "link") => node[me[t].task].alive
    /\ pass = "done" => \A i \in 0 .. N - 1 : ~body[i].alive /\ ~node[i].alive

\* Every index is scanned finally once, with exactly the indices before it as
\* the prefix, whatever was stolen; and the caller's body gets the total.
ScansRight ==
    /\ \A i \in 0 .. N - 1 : Len(scanned[i]) \in
           (IF pass = "done" THEN {1} ELSE {0, 1})
    /\ \A i \in 0 .. N - 1 : \A k \in 1 .. Len(scanned[i]) : scanned[i][k] = Part(0, i)
    /\ pass = "done" => total = Indices

\* The sum of the left part is inspected without a lock by a task that was not
\* stolen: whoever assigns it has done so.
LeftSumSettled ==
    \A t, u \in Thread :
        At(t, "begin") /\ Mine(t).right /\ ~me[t].stolen /\ t # u =>
            ~(me[u].pc \in {"begin", "choose", "range", "running"} /\ Mine(u).sum = Mine(t).parent)

\* What finish_scan asserts of its node, and that no result is overwritten.
NodesCounted ==
    \A t \in Thread : At(t, "finish") =>
        LET n == node[me[t].task]  f == finish[me[t].task] IN
        /\ n.ref = Cardinality({n.left, n.right} \ {None})
        /\ IF f.slot = "left" THEN node[f.parent].left = None ELSE node[f.parent].right = None
=============================================================================
