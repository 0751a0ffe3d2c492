------------------------------ MODULE FlowGraph ------------------------------
(***************************************************************************)
(* Messages in a flow graph (src/include/tbb/flow_graph.h and              *)
(* internal/_flow_graph_*_impl.h): buffer and queue nodes, limiters, and   *)
(* function nodes of limited concurrency, which reject messages or queue   *)
(* them.  An edge is in the list of successors of its sender, which pushes *)
(* messages, or, after a rejection, in that of predecessors of its         *)
(* receiver, which pulls them.                                             *)
(*                                                                         *)
(* A node with an aggregator executes its operations one at a time, and    *)
(* calls its neighbours while it does so; a limiter calls them with its    *)
(* locks held.  A thread has a stack of frames, the calls it is in: an     *)
(* operation, a call of a limiter, or a task.                              *)
(***************************************************************************)
EXTENDS Integers, Sequences, SequencesExt, FiniteSets, Bags

CONSTANTS
    Thread, Item,
    Buffer,             \* buffer nodes
    Lifo,               \* those that are no queue nodes
    Function,           \* function nodes
    Queueing,           \* those whose policy is queueing, not rejecting
    Limiter,            \* limiter nodes
    Successors,         \* the edges from buffers and limiters
    Decrements,         \* the limiter whose decrement a function node is linked to, or NULL
    MaxConcurrency, Threshold,
    Source,             \* the buffer that an item is put to
    NULL

Node == Buffer \cup Function \cup Limiter
Assumptions ==
    /\ Lifo \subseteq Buffer /\ Queueing \subseteq Function
    /\ \A n \in Buffer \cup Limiter : Range(Successors[n]) \subseteq Node
    /\ \A n \in Function : MaxConcurrency[n] \in Nat \ {0} /\ Decrements[n] \in Limiter \cup {NULL}
    /\ \A n \in Limiter : Threshold[n] \in Nat
    /\ \A v \in Item : Source[v] \in Buffer

VARIABLES
    graph,              \* the state of each node
    pending, handler,   \* its aggregator: pending_operations, and who is the handler
    stack,              \* the frames of each thread
    spawned,            \* the bag of tasks
    todo,               \* the items nobody has put yet
    executed            \* ghost: the bag of items that bodies were applied to

vars == <<graph, pending, handler, stack, spawned, todo, executed>>

Set(f, x, v) == [f EXCEPT ![x] = v]

(***************************************************************************)
(* Tasks, frames and calls                                                 *)
(***************************************************************************)
NoTask == [kind |-> "none", n |-> NULL, item |-> NULL]
Enqueued == [NoTask EXCEPT !.kind = "enqueued"]
Forward(n) == [kind |-> "forward", n |-> n, item |-> NULL]
Body(n, v) == [kind |-> "body", n |-> n, item |-> v]
IsTask(k) == k.kind \in {"forward", "body"}

\* combine_tasks: what remains, and what is spawned.
Combine(left, right) ==
    IF right = NoTask \/ (right = Enqueued /\ left # NoTask) THEN left ELSE right
Left(left, right) == IF IsTask(left) /\ IsTask(right) THEN left ELSE NoTask
Spawn(tasks) ==
    spawned' = FoldLeft(LAMBDA bag, k : IF IsTask(k) THEN bag (+) SetToBag({k}) ELSE bag,
                        spawned, tasks)

\* at is where the thread is in the call; status, val and task belong to the
\* operation; the rest is local to the handler, the limiter or the loop; ret
\* is what the call above answered.
Frame(at, n, op, arg) ==
    [at |-> at, n |-> n, op |-> op, arg |-> arg, status |-> "wait", val |-> NULL,
     task |-> NoTask, batch |-> <<>>, try_forwarding |-> FALSE, counter |-> 0, i |-> 0,
     src |-> NULL, ret |-> [ok |-> TRUE, val |-> NULL, task |-> NoTask]]

At(t, at) == stack[t] # <<>> /\ Last(stack[t]).at = at
Top(t) == Last(stack[t])
Become(t, f) == stack' = Set(stack, t, Append(Front(stack[t]), f))

\* The thread leaves frame f and calls op on n.  What has an aggregator is
\* called by an operation that is put on its list.
Called(t, f, n, op, arg) ==
    LET below == IF stack[t] = <<>> THEN <<>> ELSE Append(Front(stack[t]), f)
        at == IF n \in Limiter THEN op ELSE IF pending[n] = <<>> THEN "first" ELSE "wait"
    IN  Set(stack, t, Append(below, Frame(at, n, op, arg)))
Call(t, f, n, op, arg) ==
    /\ stack' = Called(t, f, n, op, arg)
    /\ pending' = IF n \in Limiter THEN pending
                  ELSE Set(pending, n, <<[by |-> t, level |-> Len(stack[t]) + 1]>> \o pending[n])

\* The call on top returns; a task that nobody is left to take is spawned.
Return(t, ok, val, task, more) ==
    LET below == Front(stack[t])
        k == Len(below)
    IN  IF below = <<>> THEN stack' = Set(stack, t, <<>>) /\ Spawn(<<task, more>>)
        ELSE /\ stack' = Set(stack, t,
                             [below EXCEPT ![k].ret = [ok |-> ok, val |-> val, task |-> task]])
             /\ Spawn(<<more>>)

(***************************************************************************)
(* The initial state                                                       *)
(***************************************************************************)
Init ==
    /\ graph = [n \in Node |->
           IF n \in Buffer THEN
               [items |-> <<>>, reserved |-> FALSE, busy |-> FALSE, succs |-> Successors[n]]
           ELSE IF n \in Function THEN
               [concurrency |-> 0, busy |-> FALSE, preds |-> <<>>, queue |-> <<>>]
           ELSE
               [count |-> 0, tries |-> 0, preds |-> <<>>, reserved_src |-> NULL,
                succs |-> Successors[n], my_mutex |-> NULL, cache |-> NULL, list |-> NULL]]
    /\ pending = [n \in Buffer \cup Function |-> <<>>]
    /\ handler = [n \in Buffer \cup Function |-> NULL]
    /\ stack = [t \in Thread |-> <<>>]
    /\ spawned = EmptyBag /\ todo = Item /\ executed = EmptyBag

\* An idle thread puts an item to a node, or takes a task.
TryPut(t) ==
    /\ stack[t] = <<>>
    /\ \E v \in todo : Call(t, NULL, Source[v], "put", v) /\ todo' = todo \ {v}
    /\ UNCHANGED <<graph, handler, spawned, executed>>
Take(t) ==
    /\ stack[t] = <<>>
    /\ \E k \in BagToSet(spawned) :
           /\ spawned' = spawned (-) SetToBag({k})
           /\ LET at == IF k.kind = "body" THEN "run"
                        ELSE IF k.n \in Limiter THEN "forward" ELSE "loop"
              IN  stack' = Set(stack, t, <<Frame(at, k.n, k.kind, k.item)>>)
    /\ UNCHANGED <<graph, pending, handler, todo, executed>>

(***************************************************************************)
(* aggregator_generic::execute and the handler                             *)
(***************************************************************************)
Lead(t) ==
    /\ At(t, "first")
    /\ LET n == Top(t).n IN
           /\ handler[n] = NULL /\ handler' = Set(handler, n, t)
           /\ Become(t, [Top(t) EXCEPT !.at = "handle", !.batch = pending[n]])
           /\ pending' = Set(pending, n, <<>>)
    /\ UNCHANGED <<graph, spawned, todo, executed>>

\* What the functions that execute an operation do afterwards: those of a
\* buffer spawn the task they find, but for try_put_task and forward_task.
Answer(t, task, more) ==
    LET f == Top(t)
        ok == f.status = "succeeded"
    IN  IF f.n \in Buffer /\ f.op \notin {"put", "forward"} THEN Return(t, ok, f.val, NoTask, task)
        ELSE IF f.n \in Buffer /\ f.op = "put" /\ task = NoTask
             THEN Return(t, ok, f.val, Enqueued, more)
        ELSE Return(t, ok, f.val, task, more)

Resume(t) ==
    /\ At(t, "wait") /\ Top(t).status # "wait"
    /\ Answer(t, Top(t).task, NoTask)
    /\ UNCHANGED <<graph, pending, handler, todo, executed>>

\* The end of handle_operations: the handler may make the task that forwards.
Finish(t) ==
    /\ At(t, "handle") /\ Top(t).batch = <<>>
    /\ LET f == Top(t)
           n == f.n
           forwards == n \in Buffer /\ f.try_forwarding /\ ~graph[n].busy
       IN  /\ graph' = IF forwards THEN [graph EXCEPT ![n].busy = TRUE] ELSE graph
           /\ handler' = Set(handler, n, NULL)
           /\ IF forwards
              THEN Answer(t, Combine(f.task, Forward(n)), Left(f.task, Forward(n)))
              ELSE Answer(t, f.task, NoTask)
    /\ UNCHANGED <<pending, todo, executed>>

Handles(t, n, op) ==
    /\ At(t, "handle") /\ Top(t).n = n /\ Top(t).batch # <<>>
    /\ LET e == Head(Top(t).batch) IN stack[e.by][e.level].op = op
Operation(t) == LET e == Head(Top(t).batch) IN stack[e.by][e.level]
\* The first operation of the batch of f, the frame on top, is answered.
Reply(t, f, status, val, task) ==
    LET e == Head(f.batch)
        own == [f EXCEPT !.at = "handle", !.batch = Tail(f.batch)]
    IN  stack' = [[stack EXCEPT ![t][Len(stack[t])] = own]
                  EXCEPT ![e.by][e.level].status = status,
                         ![e.by][e.level].val = val,
                         ![e.by][e.level].task = Combine(@, task)]

(***************************************************************************)
(* buffer_node and queue_node                                              *)
(***************************************************************************)
Update(n, field, x) == graph' = [graph EXCEPT ![n][field] = x]
Forwards(f) == [f EXCEPT !.try_forwarding = TRUE]
Items(n) == graph[n].items
ItemAt(n) == IF n \in Lifo THEN Last(Items(n)) ELSE Head(Items(n))
Without(n) == IF n \in Lifo THEN Front(Items(n)) ELSE Tail(Items(n))

RegSucc(t, n) ==
    /\ Handles(t, n, "reg_succ")
    /\ Update(n, "succs", Append(graph[n].succs, Operation(t).arg))
    /\ Reply(t, Forwards(Top(t)), "succeeded", NULL, NoTask)

\* internal_pop; a buffer node does not mind a reservation.
ReqItem(t, n) ==
    /\ Handles(t, n, "get")
    /\ IF Items(n) = <<>> \/ (graph[n].reserved /\ n \notin Lifo)
       THEN Reply(t, Top(t), "failed", NULL, NoTask) /\ UNCHANGED graph
       ELSE /\ Reply(t, Top(t), "succeeded", ItemAt(n), NoTask)
            /\ Update(n, "items", Without(n))

ResItem(t, n) ==
    /\ Handles(t, n, "reserve")
    /\ IF Items(n) = <<>> \/ graph[n].reserved
       THEN Reply(t, Top(t), "failed", NULL, NoTask) /\ UNCHANGED graph
       ELSE /\ Reply(t, Top(t), "succeeded", Head(Items(n)), NoTask)
            /\ Update(n, "reserved", TRUE)

RelRes(t, n) ==
    /\ Handles(t, n, "release")
    /\ Update(n, "reserved", FALSE)
    /\ Reply(t, Forwards(Top(t)), "succeeded", NULL, NoTask)

ConRes(t, n) ==
    /\ Handles(t, n, "consume")
    /\ graph' = [graph EXCEPT ![n].reserved = FALSE,
                             ![n].items = IF @ = <<>> THEN <<>> ELSE Tail(@)]
    /\ Reply(t, Forwards(Top(t)), "succeeded", NULL, NoTask)

\* The status is read back after it was stored.  When another thread put the
\* item, it may have returned by then and its operation be gone, so that any
\* value may be read; the outcome overwrites try_forwarding.
PutItem(t, n) ==
    /\ Handles(t, n, "put") /\ n \in Buffer
    /\ Update(n, "items", Append(Items(n), Operation(t).arg))
    /\ \E read \in BOOLEAN :
           /\ read \/ Head(Top(t).batch).by # t
           /\ Reply(t, [Top(t) EXCEPT !.try_forwarding = read], "succeeded", NULL, NoTask)

\* internal_forward_task: each successor is given a chance.
TryFwd(t, n) ==
    /\ Handles(t, n, "forward") /\ n \in Buffer
    /\ IF graph[n].reserved \/ Items(n) = <<>>
       THEN Update(n, "busy", FALSE) /\ Reply(t, Top(t), "failed", NULL, NoTask)
       ELSE /\ Become(t, [Top(t) EXCEPT !.at = "forwarding", !.counter = Len(graph[n].succs)])
            /\ UNCHANGED graph
KeepTrying(t, n) ==
    /\ At(t, "forwarding") /\ Top(t).n = n /\ Top(t).counter > 0 /\ Items(n) # <<>>
    /\ Become(t, [Top(t) EXCEPT !.at = "offer", !.i = 1])
    /\ UNCHANGED graph
\* The operation fails unless the last chance was given and anything was taken.
EndForward(t, n) ==
    /\ At(t, "forwarding") /\ Top(t).n = n /\ (Top(t).counter = 0 \/ Items(n) = <<>>)
    /\ IF Operation(t).task # NoTask /\ Top(t).counter = 0
       THEN Reply(t, Top(t), "succeeded", NULL, NoTask) /\ UNCHANGED graph
       ELSE Reply(t, Top(t), "failed", NULL, NoTask) /\ Update(n, "busy", FALSE)

BufferStep(t) ==
    /\ \E n \in Buffer :
           \/ RegSucc(t, n) \/ ReqItem(t, n) \/ ResItem(t, n) \/ RelRes(t, n) \/ ConRes(t, n)
           \/ PutItem(t, n) \/ TryFwd(t, n) \/ KeepTrying(t, n) \/ EndForward(t, n)
    /\ UNCHANGED <<pending, handler, spawned, todo, executed>>

(***************************************************************************)
(* round_robin_cache and broadcast_cache: try_put_task                     *)
(***************************************************************************)
Offer(t, n) ==
    /\ At(t, "offer") /\ Top(t).n = n /\ Top(t).i <= Len(graph[n].succs)
    /\ Call(t, [Top(t) EXCEPT !.at = "offered"], graph[n].succs[Top(t).i], "put",
            IF n \in Buffer THEN ItemAt(n) ELSE Top(t).val)
    /\ UNCHANGED <<graph, spawned>>
\* A rejected message turns the edge round.
Rejected(t, n) ==
    /\ At(t, "offered") /\ Top(t).n = n /\ Top(t).ret.task = NoTask
    /\ Call(t, [Top(t) EXCEPT !.at = "rejected"], graph[n].succs[Top(t).i], "reg_pred", n)
    /\ UNCHANGED <<graph, spawned>>
Erase(t, n) ==
    /\ At(t, "rejected") /\ Top(t).n = n
    /\ Update(n, "succs", RemoveAt(graph[n].succs, Top(t).i))
    /\ Become(t, [Top(t) EXCEPT !.at = "offer"])
    /\ UNCHANGED <<pending, spawned>>
\* A buffer is done with an item that was taken; a limiter goes on to the
\* next successor.
Accepted(t, n) ==
    /\ At(t, "offered") /\ Top(t).n = n /\ Top(t).ret.task # NoTask
    /\ LET f == Top(t) IN
       IF n \in Buffer
       THEN LET e == Head(f.batch) IN
            /\ Update(n, "items", Without(n))
            /\ stack' = [stack EXCEPT
                   ![t][Len(stack[t])] = [f EXCEPT !.at = "forwarding", !.counter = @ - 1],
                   ![e.by][e.level].task = Combine(@, f.ret.task)]
            /\ Spawn(<<Left(Operation(t).task, f.ret.task)>>)
       ELSE /\ Become(t, [f EXCEPT !.at = "offer", !.i = @ + 1, !.task = Combine(@, f.ret.task)])
            /\ Spawn(<<Left(f.task, f.ret.task)>>)
            /\ UNCHANGED graph
    /\ UNCHANGED pending
NobodyLeft(t, n) ==
    /\ At(t, "offer") /\ Top(t).n = n /\ Top(t).i > Len(graph[n].succs)
    /\ IF n \in Buffer
       THEN /\ Become(t, [Top(t) EXCEPT !.at = "forwarding", !.counter = @ - 1])
            /\ UNCHANGED graph
       ELSE /\ Become(t, [Top(t) EXCEPT !.at = "sent"])
            /\ Update(n, "list", NULL)
    /\ UNCHANGED <<pending, spawned>>

CacheStep(t) ==
    /\ \E n \in Buffer \cup Limiter :
           Offer(t, n) \/ Rejected(t, n) \/ Erase(t, n) \/ Accepted(t, n) \/ NobodyLeft(t, n)
    /\ UNCHANGED <<handler, todo, executed>>

(***************************************************************************)
(* function_input_base                                                     *)
(***************************************************************************)
RegPred(t, n) ==
    /\ Handles(t, n, "reg_pred") /\ n \in Function
    /\ graph' = [graph EXCEPT ![n].preds = Append(@, Operation(t).arg), ![n].busy = TRUE]
    /\ Spawn(IF graph[n].busy THEN <<>> ELSE <<Forward(n)>>)
    /\ Reply(t, Top(t), "succeeded", NULL, NoTask)
    /\ UNCHANGED pending

\* internal_try_put_task
TryPutBypass(t, n) ==
    /\ Handles(t, n, "put") /\ n \in Function
    /\ LET v == Operation(t).arg IN
       IF graph[n].concurrency < MaxConcurrency[n]
       THEN /\ Update(n, "concurrency", graph[n].concurrency + 1)
            /\ Reply(t, Top(t), "succeeded", NULL, Body(n, v))
       ELSE IF n \in Queueing
       THEN /\ Update(n, "queue", Append(graph[n].queue, v))
            /\ Reply(t, Top(t), "succeeded", NULL, Enqueued)
       ELSE Reply(t, Top(t), "failed", NULL, NoTask) /\ UNCHANGED graph
    /\ UNCHANGED <<pending, spawned>>

\* The end of a body, and a forwarder, look for another item.
AppBodyBypass(t, n) ==
    /\ Handles(t, n, "applied")
    /\ Update(n, "concurrency", graph[n].concurrency - 1)
    /\ Become(t, [Top(t) EXCEPT !.at = "get"])
    /\ UNCHANGED <<pending, spawned>>
InternalForward(t, n) ==
    /\ Handles(t, n, "forward") /\ n \in Function
    /\ IF graph[n].concurrency < MaxConcurrency[n]
       THEN Become(t, [Top(t) EXCEPT !.at = "get"]) /\ UNCHANGED graph
       ELSE Update(n, "busy", FALSE) /\ Reply(t, Top(t), "failed", NULL, NoTask)
    /\ UNCHANGED <<pending, spawned>>

\* The search ends; node is the node with what was taken from its queue or its
\* predecessors.
Found(t, n, v, node) ==
    /\ graph' = [graph EXCEPT ![n] = [node EXCEPT !.concurrency = @ + 1]]
    /\ Reply(t, Top(t), "succeeded", NULL, Body(n, v))
NotFound(t, n) ==
    /\ IF Operation(t).op = "forward"
       THEN Update(n, "busy", FALSE) /\ Reply(t, Top(t), "failed", NULL, NoTask)
       ELSE UNCHANGED graph /\ Reply(t, Top(t), "succeeded", NULL, NoTask)
PopQueue(t, n) ==
    /\ At(t, "get") /\ Top(t).n = n /\ n \in Queueing
    /\ IF graph[n].queue = <<>> THEN NotFound(t, n)
       ELSE Found(t, n, Head(graph[n].queue), [graph[n] EXCEPT !.queue = Tail(@)])
    /\ UNCHANGED <<pending, spawned>>

\* predecessor_cache::get_item.  A limiter has nothing to get.
PopPred(t, n) ==
    /\ At(t, "get") /\ Top(t).n = n /\ n \notin Queueing
    /\ LET preds == graph[n].preds
           f == [Top(t) EXCEPT !.at = "got", !.src = Head(preds)]
       IN  IF preds = <<>> THEN NotFound(t, n) /\ UNCHANGED pending
           ELSE /\ Update(n, "preds", Tail(preds))
                /\ IF Head(preds) \in Limiter
                   THEN Become(t, [f EXCEPT !.ret.ok = FALSE]) /\ UNCHANGED pending
                   ELSE Call(t, f, Head(preds), "get", NULL)
    /\ UNCHANGED spawned
Got(t, n) ==
    /\ At(t, "got") /\ Top(t).n = n /\ Top(t).ret.ok
    /\ Found(t, n, Top(t).ret.val, [graph[n] EXCEPT !.preds = Append(@, Top(t).src)])
    /\ UNCHANGED <<pending, spawned>>
\* The edge is given back, and the next predecessor is asked.
Relinquish(t, n) ==
    /\ At(t, "got") /\ Top(t).n = n /\ ~Top(t).ret.ok
    /\ Call(t, [Top(t) EXCEPT !.at = "get"], Top(t).src, "reg_succ", n)
    /\ UNCHANGED <<graph, spawned>>

FunctionStep(t) ==
    /\ \E n \in Function :
           \/ RegPred(t, n) \/ TryPutBypass(t, n) \/ AppBodyBypass(t, n) \/ InternalForward(t, n)
           \/ PopQueue(t, n) \/ PopPred(t, n) \/ Got(t, n) \/ Relinquish(t, n)
    /\ UNCHANGED <<handler, todo, executed>>

(***************************************************************************)
(* limiter_node                                                            *)
(***************************************************************************)
Limited(t, n, at) == At(t, at) /\ Top(t).n = n
Room(n) == graph[n].count + graph[n].tries < Threshold[n]
Free(n, mutex) == graph[n][mutex] = NULL
\* check_conditions, for which the caches are locked one after the other.
CheckConditions(n) == Room(n) /\ graph[n].preds # <<>> /\ graph[n].succs # <<>>
CanCheck(n) == Room(n) => Free(n, "cache") /\ (graph[n].preds # <<>> => Free(n, "list"))

Lock(t, n, from, to) ==
    /\ Limited(t, n, from) /\ Free(n, "my_mutex")
    /\ Update(n, "my_mutex", t)
    /\ Become(t, [Top(t) EXCEPT !.at = to])
    /\ UNCHANGED <<pending, spawned>>

LimiterPut(t, n) ==
    /\ Limited(t, n, "put") /\ Free(n, "my_mutex")
    /\ IF Room(n)
       THEN /\ Update(n, "tries", graph[n].tries + 1)
            /\ Become(t, [Top(t) EXCEPT !.at = "send", !.val = Top(t).arg])
            /\ UNCHANGED spawned
       ELSE Return(t, FALSE, NULL, NoTask, NoTask) /\ UNCHANGED graph
    /\ UNCHANGED pending
Send(t, n) ==
    /\ Limited(t, n, "send") /\ Free(n, "list")
    /\ Update(n, "list", t)
    /\ Become(t, [Top(t) EXCEPT !.at = "offer", !.i = 1])
    /\ UNCHANGED <<pending, spawned>>

\* Under the lock: the outcome is counted, and the reservation ends with it.
Settle(t, n) ==
    /\ Limited(t, n, "settle")
    /\ LET f == Top(t)
           sent == f.task # NoTask
           node == [graph[n] EXCEPT !.tries = @ - 1, !.count = IF sent THEN @ + 1 ELSE @]
       IN  IF f.src # NULL
           THEN /\ graph' = [graph EXCEPT ![n] = node]
                /\ Call(t, [f EXCEPT !.at = "settled"], f.src,
                        IF sent THEN "consume" ELSE "release", NULL)
                /\ UNCHANGED spawned
           ELSE IF sent
           THEN /\ graph' = [graph EXCEPT ![n] = [node EXCEPT !.my_mutex = NULL]]
                /\ Return(t, TRUE, NULL, f.task, NoTask)
                /\ UNCHANGED pending
           ELSE /\ graph' = [graph EXCEPT ![n] = node]
                /\ Become(t, [f EXCEPT !.at = "check"])
                /\ UNCHANGED <<pending, spawned>>
Settled(t, n) ==
    /\ Limited(t, n, "settled")
    /\ Update(n, "reserved_src", NULL)
    /\ Become(t, [Top(t) EXCEPT !.at = "check"])
    /\ UNCHANGED <<pending, spawned>>
\* A task that forwards is returned, or spawned when there is one to return.
CheckAgain(t, n) ==
    /\ Limited(t, n, "check") /\ CanCheck(n)
    /\ Update(n, "my_mutex", NULL)
    /\ LET more == IF CheckConditions(n) THEN Forward(n) ELSE NoTask IN
       IF Top(t).task # NoTask THEN Return(t, TRUE, NULL, Top(t).task, more)
       ELSE Return(t, FALSE, NULL, more, NoTask)
    /\ UNCHANGED pending

\* decrement_counter
\* Mutated form: nothing is forwarded afterwards.
DecrementOnly(t, n) ==
    /\ Limited(t, n, "decrement") /\ Free(n, "my_mutex")
    /\ Update(n, "count", IF graph[n].count > 0 THEN graph[n].count - 1 ELSE 0)
    /\ Return(t, TRUE, NULL, NoTask, NoTask)
    /\ UNCHANGED pending
Decrement(t, n) ==
    /\ Limited(t, n, "decrement") /\ Free(n, "my_mutex")
    /\ Update(n, "count", IF graph[n].count > 0 THEN graph[n].count - 1 ELSE 0)
    /\ Become(t, [Top(t) EXCEPT !.at = "forward"])
    /\ UNCHANGED <<pending, spawned>>
\* forward_task
Try(t, n) ==
    /\ Limited(t, n, "try") /\ CanCheck(n)
    /\ IF CheckConditions(n)
       THEN /\ graph' = [graph EXCEPT ![n].my_mutex = NULL, ![n].tries = @ + 1]
            /\ Become(t, [Top(t) EXCEPT !.at = "reserve"])
            /\ UNCHANGED spawned
       ELSE /\ Update(n, "my_mutex", NULL)
            /\ Return(t, FALSE, NULL, NoTask, NoTask)
    /\ UNCHANGED pending

\* reservable_predecessor_cache::try_reserve
TryReserve(t, n) ==
    /\ Limited(t, n, "reserve") /\ Free(n, "cache")
    /\ LET preds == graph[n].preds IN
       IF graph[n].reserved_src # NULL \/ preds = <<>>
       THEN Become(t, [Top(t) EXCEPT !.at = "sent"]) /\ UNCHANGED <<graph, pending>>
       ELSE /\ graph' = [graph EXCEPT ![n].reserved_src = Head(preds), ![n].preds = Tail(preds)]
            /\ Call(t, [Top(t) EXCEPT !.at = "reserved"], Head(preds), "reserve", NULL)
    /\ UNCHANGED spawned
Reserved(t, n) ==
    /\ Limited(t, n, "reserved") /\ Top(t).ret.ok /\ Free(n, "cache")
    /\ Update(n, "preds", Append(graph[n].preds, graph[n].reserved_src))
    /\ Become(t, [Top(t) EXCEPT !.at = "send", !.val = Top(t).ret.val,
                               !.src = graph[n].reserved_src])
    /\ UNCHANGED <<pending, spawned>>
\* The sender is called with the cache locked.
NotReserved(t, n) ==
    /\ Limited(t, n, "reserved") /\ ~Top(t).ret.ok /\ Free(n, "cache")
    /\ Update(n, "cache", t)
    /\ Call(t, [Top(t) EXCEPT !.at = "relinquished"], graph[n].reserved_src, "reg_succ", n)
    /\ UNCHANGED spawned
Relinquished(t, n) ==
    /\ Limited(t, n, "relinquished")
    /\ graph' = [graph EXCEPT ![n].reserved_src = NULL, ![n].cache = NULL]
    /\ Become(t, [Top(t) EXCEPT !.at = "reserve"])
    /\ UNCHANGED <<pending, spawned>>

\* register_successor: was it the only one?
WasEmpty(t, n) ==
    /\ Limited(t, n, "was_empty") /\ Free(n, "list")
    /\ Become(t, [Top(t) EXCEPT !.at = "add_succ", !.counter = Len(graph[n].succs)])
    /\ UNCHANGED <<graph, pending, spawned>>
AddSucc(t, n) ==
    /\ Limited(t, n, "add_succ") /\ Free(n, "list") /\ (Top(t).counter = 0 => Free(n, "cache"))
    /\ graph' = [graph EXCEPT ![n].succs = Append(@, Top(t).arg), ![n].my_mutex = NULL]
    /\ LET forwards == Top(t).counter = 0 /\ graph[n].preds # <<>> /\ Room(n) IN
       Return(t, TRUE, NULL, NoTask, IF forwards THEN Forward(n) ELSE NoTask)
    /\ UNCHANGED pending
\* register_predecessor
AddPred(t, n) ==
    /\ Limited(t, n, "add_pred") /\ Free(n, "cache")
    /\ Update(n, "preds", Append(graph[n].preds, Top(t).arg))
    /\ Become(t, [Top(t) EXCEPT !.at = "added_pred"])
    /\ UNCHANGED <<pending, spawned>>
AddedPred(t, n) ==
    /\ Limited(t, n, "added_pred") /\ (Room(n) => Free(n, "list"))
    /\ Update(n, "my_mutex", NULL)
    /\ LET forwards == Room(n) /\ graph[n].succs # <<>> IN
       Return(t, TRUE, NULL, NoTask, IF forwards THEN Forward(n) ELSE NoTask)
    /\ UNCHANGED pending

LimiterStep(t) ==
    /\ \E n \in Limiter :
           \/ LimiterPut(t, n) \/ Send(t, n) \/ Lock(t, n, "sent", "settle")
           \/ Settle(t, n) \/ Settled(t, n) \/ CheckAgain(t, n)
           \/ Decrement(t, n) \/ Lock(t, n, "forward", "try") \/ Try(t, n)
           \/ TryReserve(t, n) \/ Reserved(t, n) \/ NotReserved(t, n) \/ Relinquished(t, n)
           \/ Lock(t, n, "reg_succ", "was_empty") \/ WasEmpty(t, n) \/ AddSucc(t, n)
           \/ Lock(t, n, "reg_pred", "add_pred") \/ AddPred(t, n) \/ AddedPred(t, n)
    /\ UNCHANGED <<handler, todo, executed>>

(***************************************************************************)
(* The tasks                                                               *)
(***************************************************************************)
\* apply_body_bypass: the body, the message to its successor, the next item
Run(t) ==
    /\ At(t, "run")
    /\ LET f == Top(t) IN
       /\ executed' = executed (+) SetToBag({f.arg})
       /\ IF Decrements[f.n] # NULL
          THEN Call(t, [f EXCEPT !.at = "ran"], Decrements[f.n], "decrement", NULL)
          ELSE Call(t, [f EXCEPT !.at = "over"], f.n, "applied", NULL)
    /\ UNCHANGED <<graph, handler, spawned, todo>>
Ran(t) ==
    /\ At(t, "ran")
    /\ LET f == Top(t) IN
       Call(t, [f EXCEPT !.at = "over", !.task = f.ret.task], f.n, "applied", NULL)
    /\ UNCHANGED <<graph, handler, spawned, todo, executed>>
Over(t) ==
    /\ At(t, "over")
    /\ LET f == Top(t) IN
       Return(t, TRUE, NULL, Combine(f.task, f.ret.task), Left(f.task, f.ret.task))
    /\ UNCHANGED <<graph, pending, handler, todo, executed>>

\* forward_task of a node with an aggregator: as long as it succeeds
Loop(t) ==
    /\ At(t, "loop")
    /\ LET f == Top(t)
           task == Combine(f.task, f.ret.task)
           left == Left(f.task, f.ret.task)
       IN  IF f.ret.ok
           THEN Call(t, [f EXCEPT !.task = task], f.n, "forward", NULL) /\ Spawn(<<left>>)
           ELSE Return(t, TRUE, NULL, task, left) /\ UNCHANGED pending
    /\ UNCHANGED <<graph, handler, todo, executed>>

Step(t) ==
    \/ TryPut(t) \/ Take(t) \/ Lead(t) \/ Resume(t) \/ Finish(t)
    \/ BufferStep(t) \/ CacheStep(t) \/ FunctionStep(t) \/ LimiterStep(t)
    \/ Run(t) \/ Ran(t) \/ Over(t) \/ Loop(t)
Next == \E t \in Thread : Step(t)
Spec == Init /\ [][Next]_vars

(***************************************************************************)
(* Properties                                                              *)
(***************************************************************************)
Running(n) == {t \in Thread : \E f \in Range(stack[t]) : f.n = n /\ f.at \in {"run", "ran"}}
Waiting(n) == {k.item : k \in {k \in BagToSet(spawned) : k.kind = "body" /\ k.n = n}}

\* No item is delivered twice: bodies are applied to it, run for it, or wait
\* for a thread, at most once in all.
DeliveredOnce ==
    \A v \in Item :
        CopiesIn(v, executed)
        + Cardinality({t \in Thread : \E f \in Range(stack[t]) : f.at = "run" /\ f.arg = v})
        + Cardinality({n \in Function : v \in Waiting(n)}) <= 1

\* When nobody is in a call and there is no task, that is when wait_for_all
\* returns, every item that was put has reached a body, no node believes that
\* it has a task that forwards, and the limiters count nothing.
Quiet == (\A t \in Thread : stack[t] = <<>>) /\ spawned = EmptyBag
NothingStranded ==
    Quiet =>
        /\ BagToSet(executed) = Item \ todo
        /\ \A n \in Buffer \cup Function : ~graph[n].busy
        /\ \A n \in Limiter : graph[n].tries = 0 /\ graph[n].count = 0

\* A function node has no more bodies than its concurrency allows.
WithinConcurrency ==
    \A n \in Function : Cardinality(Running(n)) + Cardinality(Waiting(n)) <= MaxConcurrency[n]

\* Behind a limiter there are never more items than its threshold.
WithinThreshold ==
    \A n \in Limiter :
        LET after == {m \in Function : Decrements[m] = n}
            taken == UNION {{f.arg : f \in {f \in UNION {Range(stack[t]) : t \in Thread} :
                                              f.at = "run" /\ f.n = m}}
                            \cup Waiting(m) \cup Range(graph[m].queue) : m \in after}
        IN  Cardinality(taken) <= Threshold[n]

\* The threads that t waits for: the handler of its operation, or the one that
\* is to be the next, and those that hold the locks it needs.
Holder(n, mutex) == {graph[n][mutex]} \ {NULL}
WaitsForLock(f) ==
    IF f.at \in {"put", "decrement", "sent", "forward", "reg_succ", "reg_pred"}
    THEN Holder(f.n, "my_mutex")
    ELSE IF f.at \in {"send", "was_empty", "add_succ"} THEN Holder(f.n, "list")
    ELSE IF f.at \in {"reserve", "reserved", "add_pred"} THEN Holder(f.n, "cache")
    ELSE IF f.at \in {"try", "check", "added_pred"} /\ Room(f.n)
         THEN Holder(f.n, "list") \cup Holder(f.n, "cache")
    ELSE {}
WaitsFor(t) ==
    IF stack[t] = <<>> THEN {}
    ELSE LET f == Top(t) IN
         IF f.at = "first" THEN {handler[f.n]} \ {NULL}
         ELSE IF f.at = "wait" /\ f.status = "wait"
         THEN IF \E i \in DOMAIN pending[f.n] : pending[f.n][i].by = t
              THEN {Last(pending[f.n]).by} ELSE {handler[f.n]}
         ELSE IF f.n \in Limiter THEN WaitsForLock(f)
         ELSE {}

\* No threads wait for one another in a circle, nor one for itself.
NoCircularWait ==
    \A t \in Thread :
        LET follow[k \in Nat] ==
                IF k = 0 THEN WaitsFor(t)
                ELSE follow[k - 1] \cup UNION {WaitsFor(u) : u \in follow[k - 1]}
        IN  t \notin follow[Cardinality(Thread)]
=============================================================================
