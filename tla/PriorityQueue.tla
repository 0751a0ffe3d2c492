--------------------------- MODULE PriorityQueue ---------------------------
(***************************************************************************)
(* concurrent_priority_queue (src/include/tbb/concurrent_priority_queue.h) *)
(* on an aggregator (src/include/tbb/internal/_aggregator_impl.h): a       *)
(* thread puts its operation on a list; the one that finds the list empty  *)
(* takes the list, when the handler before it has finished, and executes   *)
(* all its operations on a heap with elements pushed but not yet merged.   *)
(*                                                                         *)
(* Values are numbers, the greater first.  A thread has one operation at a *)
(* time, which stands for its cpq_operation.                               *)
(***************************************************************************)
EXTENDS Integers, Sequences, SequencesExt, Bags

CONSTANTS
    Thread,
    Value,          \* the values that are pushed
    MaxInitial,     \* bound: elements the queue is constructed with
    MaxCalls        \* bound: operations in all

Assumptions == Value \subseteq Nat /\ MaxInitial \in Nat /\ MaxCalls \in Nat

VARIABLES
    pending_operations, handler_busy,
    data, mark, my_size,
    op_list, pop_list,          \* local to the handler
    pc, op, elem, status,       \* of each thread and its operation
    before, answers,            \* ghost: the bag and the operations of the batch
    calls

queue == <<data, mark, my_size>>
operations == <<op, elem, status>>
vars == <<pending_operations, handler_busy, queue, op_list, pop_list, pc, operations,
          before, answers, calls>>

Set(f, x, v) == [f EXCEPT ![x] = v]
Goto(t, from, to) == pc[t] = from /\ pc' = Set(pc, t, to)

(***************************************************************************)
(* The heap: the first mark elements of data; the parent of i is i \div 2. *)
(***************************************************************************)
Ancestors(i) == {i \div 2^e : e \in 0 .. 5} \ {0}

\* One turn of heapify: element i rises above its smaller ancestors.
SiftUp(d, i) ==
    LET rises == {j \in Ancestors(i) \ {i} : \A a \in Ancestors(i) \ {i} : a >= j => d[a] < d[i]}
        top == IF rises = {} THEN i ELSE CHOOSE j \in rises : \A a \in rises : j <= a
    IN  [j \in DOMAIN d |-> IF j = top THEN d[i]
                            ELSE IF j \in Ancestors(i) /\ j > top THEN d[j \div 2]
                            ELSE d[j]]
Heapify(d, m) == FoldLeft(SiftUp, d, [i \in 1 .. Len(d) - m |-> m + i])

\* reheap: the last element takes the place of the top and sinks; it may be
\* one that was not in the heap.
Greater(d, m, i) == IF 2 * i + 1 <= m /\ d[2 * i] < d[2 * i + 1] THEN 2 * i + 1 ELSE 2 * i
\* Mutated form: the element that sinks is compared with the left child only.
ReheapLeft(d, m) ==
    LET x == d[Len(d)]
        lands[i \in 1 .. Len(d)] ==
            IF 2 * i > m THEN i ELSE IF d[2 * i] < x THEN i ELSE lands[2 * i]
        place == lands[1]
        next(j) == CHOOSE a \in Ancestors(place) : a \div 2 = j
    IN  [j \in 1 .. Len(d) - 1 |-> IF j = place THEN x
                                   ELSE IF j \in Ancestors(place) THEN d[next(j)]
                                   ELSE d[j]]
Reheap(d, m) ==
    LET x == d[Len(d)]
        lands[i \in 1 .. Len(d)] ==
            IF 2 * i > m THEN i
            ELSE IF d[Greater(d, m, i)] < x THEN i
            ELSE lands[Greater(d, m, i)]
        place == lands[1]
        next(j) == CHOOSE a \in Ancestors(place) : a \div 2 = j
    IN  [j \in 1 .. Len(d) - 1 |-> IF j = place THEN x
                                   ELSE IF j \in Ancestors(place) THEN d[next(j)]
                                   ELSE d[j]]

\* The queue is empty, or constructed from a range.
Init ==
    /\ pending_operations = <<>> /\ handler_busy = FALSE
    /\ \E n \in 0 .. MaxInitial : \E d \in [1 .. n -> Value] : data = Heapify(d, 0)
    /\ mark = Len(data) /\ my_size = Len(data)
    /\ op_list = <<>> /\ pop_list = <<>>
    /\ pc = [t \in Thread |-> "idle"]
    /\ op = [t \in Thread |-> "none"]
    /\ elem = [t \in Thread |-> 0]
    /\ status = [t \in Thread |-> "wait"]
    /\ before = EmptyBag /\ answers = {}
    /\ calls = 0

(***************************************************************************)
(* aggregator_generic::execute                                             *)
(***************************************************************************)
Call(t) ==
    /\ calls < MaxCalls /\ calls' = calls + 1
    /\ \/ op' = Set(op, t, "pop") /\ elem' = Set(elem, t, 0)
       \/ op' = Set(op, t, "push") /\ \E v \in Value : elem' = Set(elem, t, v)
    /\ status' = Set(status, t, "wait")
    /\ pending_operations' = <<t>> \o pending_operations
    /\ Goto(t, "idle", IF pending_operations = <<>> THEN "first" ELSE "waiting")
    /\ UNCHANGED <<handler_busy, queue, op_list, pop_list, before, answers>>

Return(t) ==
    /\ Goto(t, "waiting", "idle") /\ status[t] # "wait"
    /\ op' = Set(op, t, "none") /\ elem' = Set(elem, t, 0)
    /\ UNCHANGED <<pending_operations, handler_busy, queue, op_list, pop_list, status,
                   before, answers, calls>>

\* Mutated form: the next handler does not wait for the one before.
TakeAtOnce(t) ==
    /\ Goto(t, "first", "busy")
    /\ UNCHANGED <<pending_operations, handler_busy, queue, op_list, pop_list, operations,
                   before, answers, calls>>
\* start_handle_operations: the flag is read, and set in another step.
WaitTurn(t) == ~handler_busy /\ TakeAtOnce(t)
SetBusy(t) ==
    /\ Goto(t, "busy", "grab")
    /\ handler_busy' = TRUE
    /\ UNCHANGED <<pending_operations, queue, op_list, pop_list, operations, before, answers,
                   calls>>
Grab(t) ==
    /\ Goto(t, "grab", "handle")
    /\ op_list' = pending_operations /\ pending_operations' = <<>>
    /\ before' = FoldLeft(LAMBDA bag, v : bag (+) SetToBag({v}), EmptyBag, data)
    /\ answers' = {}
    /\ UNCHANGED <<handler_busy, queue, pop_list, operations, calls>>
Release(t) ==
    /\ Goto(t, "release", "idle")
    /\ handler_busy' = FALSE
    /\ op' = Set(op, t, "none") /\ elem' = Set(elem, t, 0)
    /\ before' = EmptyBag /\ answers' = {}
    /\ UNCHANGED <<pending_operations, queue, op_list, pop_list, status, calls>>

(***************************************************************************)
(* handle_operations                                                       *)
(***************************************************************************)
Answer(u, s, v) ==
    /\ status' = Set(status, u, s) /\ elem' = Set(elem, u, v)
    /\ answers' = answers \cup {[by |-> u, op |-> op[u], value |-> v, status |-> s]}

\* There are new elements and the last one is higher than the top.
LastIsHigher == mark < Len(data) /\ data[1] < data[Len(data)]
PopLast(u) ==
    /\ Answer(u, "succeeded", data[Len(data)])
    /\ data' = SubSeq(data, 1, Len(data) - 1) /\ my_size' = my_size - 1
    /\ UNCHANGED mark

\* The first pass, in which a push may fail to allocate
Handle(t) ==
    /\ pc[t] = "handle" /\ op_list # <<>>
    /\ op_list' = SubSeq(op_list, 2, Len(op_list))
    /\ LET u == op_list[1]
       IN  \/ op[u] = "pop" /\ LastIsHigher /\ PopLast(u) /\ UNCHANGED pop_list
           \/ /\ op[u] = "pop" /\ ~LastIsHigher
              /\ pop_list' = <<u>> \o pop_list
              /\ UNCHANGED <<queue, status, elem, answers>>
           \/ /\ op[u] = "push"
              /\ \/ Answer(u, "succeeded", elem[u])
                    /\ data' = Append(data, elem[u]) /\ my_size' = my_size + 1
                 \/ Answer(u, "failed", elem[u]) /\ UNCHANGED <<data, my_size>>
              /\ UNCHANGED <<mark, pop_list>>
    /\ UNCHANGED <<pending_operations, handler_busy, pc, op, before, calls>>

\* The second pass
Pop(t) ==
    /\ pc[t] = "handle" /\ op_list = <<>> /\ pop_list # <<>>
    /\ pop_list' = SubSeq(pop_list, 2, Len(pop_list))
    /\ LET u == pop_list[1]
       IN  \/ data = <<>> /\ Answer(u, "failed", 0) /\ UNCHANGED queue
           \/ data # <<>> /\ LastIsHigher /\ PopLast(u)
           \/ /\ data # <<>> /\ ~LastIsHigher
              /\ Answer(u, "succeeded", data[1])
              /\ data' = Reheap(data, mark)
              /\ my_size' = my_size - 1
              /\ mark' = IF mark > Len(data) - 1 THEN Len(data) - 1 ELSE mark
    /\ UNCHANGED <<pending_operations, handler_busy, op_list, pc, op, before, calls>>

\* The new elements left over are merged into the heap.
Finish(t) ==
    /\ op_list = <<>> /\ pop_list = <<>>
    /\ Goto(t, "handle", "release")
    /\ data' = Heapify(data, mark) /\ mark' = Len(data)
    /\ UNCHANGED <<pending_operations, handler_busy, my_size, op_list, pop_list, operations,
                   before, answers, calls>>

Step(t) ==
    \/ Return(t) \/ WaitTurn(t) \/ SetBusy(t) \/ Grab(t)
    \/ Handle(t) \/ Pop(t) \/ Finish(t) \/ Release(t)
Next == \E t \in Thread : Call(t) \/ Step(t)

Spec == Init /\ [][Next]_vars

(***************************************************************************)
(* Properties.                                                             *)
(***************************************************************************)
TypeOK ==
    /\ data \in Seq(Value) /\ mark \in 0 .. Len(data)
    /\ \A t \in Thread : op[t] # "push" => elem[t] \in Value \cup {0}

\* A sequential queue: a successful pop takes the greatest value, and only a
\* pop from the empty queue fails.
Sequential(bag, a) ==
    IF a.status = "failed" THEN bag
    ELSE IF a.op = "push" THEN bag (+) SetToBag({a.value})
    ELSE bag (-) SetToBag({a.value})
Right(bag, a) ==
    a.op = "pop" =>
        IF a.status = "failed" THEN bag = EmptyBag
        ELSE a.value \in BagToSet(bag) /\ \A v \in BagToSet(bag) : v <= a.value
Content(order, n) == FoldLeft(Sequential, before, SubSeq(order, 1, n))

\* The answers given to the operations of a batch, which are all concurrent,
\* are those of a sequential priority queue that executes them in some order,
\* and the values left are those it would have.
BatchExplained ==
    \A t \in Thread : pc[t] = "release" =>
        \E order \in SetToSeqs(answers) :
            /\ \A i \in DOMAIN order : Right(Content(order, i - 1), order[i])
            /\ Content(order, Len(order))
                = FoldLeft(LAMBDA bag, v : bag (+) SetToBag({v}), EmptyBag, data)

\* No operation is forgotten or executed twice: it is on one list once, as
\* long as it has no answer, and one thread handles operations at a time.
NothingLostOrRepeated ==
    /\ \A t \in Thread :
        LET places == SelectSeq(pending_operations \o op_list \o pop_list, LAMBDA u : u = t)
        IN  Len(places) = IF op[t] # "none" /\ status[t] = "wait" THEN 1 ELSE 0
    /\ \A t, u \in Thread :
        {pc[t], pc[u]} \subseteq {"grab", "handle", "release"} => t = u

\* Between batches the heap is a heap, and all of data.
HeapAtRest ==
    ~handler_busy =>
        /\ mark = Len(data) /\ my_size = mark
        /\ \A i \in 2 .. mark : data[i] <= data[i \div 2]
=============================================================================
