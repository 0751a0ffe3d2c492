------------------------------ MODULE Pipeline ------------------------------
(***************************************************************************)
(* tbb::pipeline (src/src/tbb/pipeline.cpp): stage tasks carry items from  *)
(* filter to filter; serial filters park items in buffers by their tokens; *)
(* thread-bound filters are served by threads of the user, who sleep on a  *)
(* semaphore.  A filter may throw, which cancels the run.                  *)
(*                                                                         *)
(* A task that is ready may be executed at any time, by whatever thread.   *)
(* Items are numbered in the order in which the input filter draws them,   *)
(* and are never null.  A section under a buffer's mutex is one step.      *)
(***************************************************************************)
EXTENDS Integers, Sequences, FiniteSets

CONSTANTS
    Pipelines,          \* the sequences of filter modes that are run
    LiveTokens,         \* the values of max_number_of_live_tokens
    initial_buffer_size,
    MaxItems,           \* bound: items that the input filter has for a run
    MaxRuns             \* bound: runs of the same pipeline

Modes == {"parallel", "serial_in_order", "serial_out_of_order", "bound"}
Assumptions ==
    /\ Pipelines \subseteq Seq(Modes)
    /\ LiveTokens \subseteq Nat \ {0}
    /\ \E e \in 0 .. 10 : initial_buffer_size = 2^e
    /\ MaxItems \in Nat /\ MaxRuns \in Nat

VARIABLES
    filters, max_tokens, items,     \* the run's parameters
    drawn,                          \* how many items the input filter has given
    end_of_input, token_counter, input_tokens,
    buffer,                         \* of each filter
    sem,                            \* of each thread-bound filter
    task,                           \* the stage tasks
    root,                           \* the pipeline_root_task
    thread,                         \* of each thread-bound filter
    cancelled,
    runs,
    entered, finalized              \* ghost: the items each filter got, in order;
                                    \* the items finalized

shared == <<end_of_input, token_counter, input_tokens>>
config == <<filters, max_tokens, items, runs>>
vars == <<config, drawn, shared, buffer, sem, task, root, thread, cancelled, entered,
          finalized>>

Filter == DOMAIN filters
is_serial(f) == filters[f] # "parallel"
is_bound(f) == filters[f] = "bound"
is_ordered(f) == filters[f] \in {"serial_in_order", "bound"}
has_bound == \E f \in Filter : is_bound(f)
Last == Len(filters)

NoItem == [object |-> 0, token |-> 0, ready |-> FALSE]
Empty == [size |-> initial_buffer_size, low |-> 0, high |-> 0,
          array |-> [i \in 0 .. initial_buffer_size - 1 |-> NoItem]]

\* More tasks than there can be tokens, and one that looks for input.
Task == 1 .. 2 * max_tokens + 2
NoTask == [pc |-> "none", filter |-> 0, at_start |-> FALSE, info |-> NoItem]
InputTask == [pc |-> "ready", filter |-> 1, at_start |-> TRUE, info |-> NoItem]
Live == {x \in Task : task[x].pc # "none"}

\* pipeline::run lets a thread-bound input filter go.
Init ==
    /\ filters \in Pipelines /\ max_tokens \in LiveTokens /\ items \in 0 .. MaxItems
    /\ runs = 1 /\ drawn = 0
    /\ end_of_input = FALSE /\ token_counter = 0 /\ input_tokens = max_tokens
    /\ buffer = [f \in Filter |-> Empty]
    /\ sem = [f \in Filter |-> IF is_bound(f) /\ f = 1 THEN 1 ELSE 0]
    /\ task = [x \in Task |-> NoTask]
    /\ root = "ready" /\ cancelled = FALSE
    /\ thread = [f \in Filter |-> [pc |-> IF is_bound(f) THEN "idle" ELSE "ended",
                                   info |-> NoItem]]
    /\ entered = [f \in Filter |-> <<>>] /\ finalized = <<>>

(***************************************************************************)
(* input_buffer                                                            *)
(***************************************************************************)
Slot(b, t) == t % b.size
Valid(f) == buffer[f].array[Slot(buffer[f], buffer[f].low)] # NoItem

Sizes(b, minimum) == {s \in {b.size * 2^e : e \in 1 .. 5} : s >= minimum}
new_size(b, minimum) == CHOOSE s \in Sizes(b, minimum) : \A r \in Sizes(b, minimum) : s <= r
Resized(b, size, Old(_)) ==
    [b EXCEPT !.size = size,
              !.array = [i \in 0 .. size - 1 |->
                  IF \E t \in b.low .. b.low + b.size - 1 : Old(t) = i
                  THEN b.array[(CHOOSE t \in b.low .. b.low + b.size - 1 : Old(t) = i) % b.size]
                  ELSE NoItem]]
\* Mutated form: the items keep their places in the array when it grows.
GrownInPlace(b, minimum) == Resized(b, new_size(b, minimum), LAMBDA t : t % b.size)
Grown(b, minimum) ==
    LET size == new_size(b, minimum) IN Resized(b, size, LAMBDA t : t % size)

\* What put_token makes of the item: a token is assigned by the first ordered
\* filter.
Tokenized(f, info) ==
    IF is_ordered(f) /\ ~info.ready
    THEN [info EXCEPT !.token = buffer[f].high, !.ready = TRUE] ELSE info
Counted(f, info) ==
    IF is_ordered(f) /\ info.ready THEN buffer[f] ELSE [buffer[f] EXCEPT !.high = @ + 1]
Place(f, info) == IF is_ordered(f) THEN Tokenized(f, info).token ELSE buffer[f].high

\* Mutated form: an item that comes too early is not held back.
ParksForThread(f, info, force_put) == is_bound(f) \/ force_put
Parks(f, info, force_put) == Place(f, info) # buffer[f].low \/ is_bound(f) \/ force_put
Parked(f, info) ==
    LET b == Counted(f, info)
        distance == Place(f, info) - b.low
        roomy == IF distance >= b.size THEN Grown(b, distance + 1) ELSE b
    IN  [roomy EXCEPT !.array[Slot(roomy, Place(f, info))] = Tokenized(f, info)]

PutToken(f, info, force_put) ==
    IF Parks(f, info, force_put)
    THEN /\ buffer' = [buffer EXCEPT ![f] = Parked(f, info)]
         /\ sem' = IF is_bound(f) /\ ~Valid(f) THEN [sem EXCEPT ![f] = @ + 1] ELSE sem
    ELSE /\ buffer' = [buffer EXCEPT ![f] = Counted(f, info)]
         /\ UNCHANGED sem

LowItem(f) == buffer[f].array[Slot(buffer[f], buffer[f].low)]
Invalidated(b, t) == [b EXCEPT !.array[Slot(b, t)] = NoItem]

\* return_item
Returned(f, advance) ==
    LET b == Invalidated(buffer[f], buffer[f].low)
    IN  IF advance THEN [b EXCEPT !.low = @ + 1] ELSE b

\* note_done
Advances(f, token) == ~is_ordered(f) \/ token = buffer[f].low
Wakee(f, token) ==
    IF Advances(f, token) THEN buffer[f].array[Slot(buffer[f], buffer[f].low + 1)] ELSE NoItem
Done(f, token) ==
    IF Advances(f, token)
    THEN [Invalidated(buffer[f], buffer[f].low + 1) EXCEPT !.low = @ + 1]
    ELSE buffer[f]

has_more_work(f) == token_counter # buffer[f].low

(***************************************************************************)
(* Tasks.                                                                  *)
(***************************************************************************)
At(x, pc) == task[x].pc = pc
Becomes(x, new) == task' = [task EXCEPT ![x] = new]
Goto(x, pc) == Becomes(x, [task[x] EXCEPT !.pc = pc])
Fresh(x) == CHOOSE y \in Task : At(y, "none") /\ y # x /\ \A z \in Task : At(z, "none") => y <= z
Spawning(x, new, child) == task' = [task EXCEPT ![x] = new, ![Fresh(x)] = child]
Moved(x, f) == [task[x] EXCEPT !.pc = "ready", !.filter = f, !.at_start = FALSE]

Enters(f, object) == entered' = [entered EXCEPT ![f] = Append(@, object)]

\* The filter is called; the input filter draws an item, if there is one.
Draw == /\ drawn < items /\ drawn' = drawn + 1
        /\ Enters(1, drawn + 1)
DrawNone == drawn = items /\ UNCHANGED <<drawn, entered>>

\* The parallel input filter spends a token before it is called.
Begin(x) ==
    /\ At(x, "ready") /\ ~cancelled
    /\ task[x].at_start /\ ~is_serial(1)
    /\ IF end_of_input THEN Becomes(x, NoTask)
       ELSE Goto(x, IF has_bound THEN "count" ELSE "spend")
    /\ UNCHANGED <<config, drawn, shared, buffer, sem, root, thread, cancelled, entered, finalized>>
Count(x) ==
    /\ At(x, "count")
    /\ token_counter' = token_counter + 1
    /\ Goto(x, "spend")
    /\ UNCHANGED <<config, drawn, end_of_input, input_tokens, buffer, sem, root, thread,
                   cancelled, entered, finalized>>
Spend(x) ==
    /\ At(x, "spend")
    /\ input_tokens' = input_tokens - 1
    /\ LET new == [task[x] EXCEPT !.pc = IF is_serial(1) THEN "leave" ELSE "call",
                                  !.at_start = ~is_serial(1)]
       IN  IF input_tokens > 1 THEN Spawning(x, new, InputTask) ELSE Becomes(x, new)
    /\ UNCHANGED <<config, drawn, end_of_input, token_counter, buffer, sem, root, thread,
                   cancelled, entered, finalized>>
Called(x, object) ==
    Becomes(x, [task[x] EXCEPT !.pc = "inside", !.info.object = object])
Input(x) ==
    /\ \/ At(x, "ready") /\ ~cancelled /\ task[x].at_start /\ is_serial(1)
       \/ At(x, "call")
    /\ \/ Draw /\ Called(x, drawn + 1)
       \/ DrawNone /\ Called(x, 0)
    /\ UNCHANGED <<config, shared, buffer, sem, root, thread, cancelled, finalized>>
Process(x) ==
    /\ At(x, "ready") /\ ~cancelled /\ ~task[x].at_start
    /\ Goto(x, "inside")
    /\ Enters(task[x].filter, task[x].info.object)
    /\ UNCHANGED <<config, drawn, shared, buffer, sem, root, thread, cancelled, finalized>>

\* The input filter returns nothing; a parallel one has counted a token for it.
EndOfInput(x) ==
    /\ At(x, "inside") /\ task[x].at_start /\ task[x].info.object = 0
    /\ end_of_input' = TRUE
    /\ IF ~is_serial(1) /\ has_bound THEN Goto(x, "uncount") ELSE Becomes(x, NoTask)
    /\ UNCHANGED <<config, drawn, token_counter, input_tokens, buffer, sem, root, thread,
                   cancelled, entered, finalized>>
Uncount(x) ==
    /\ At(x, "uncount")
    /\ token_counter' = token_counter - 1
    /\ Becomes(x, NoTask)
    /\ UNCHANGED <<config, drawn, end_of_input, input_tokens, buffer, sem, root, thread,
                   cancelled, entered, finalized>>

\* The input filter returns an item; an ordered one gives it a token.
Emit(x) ==
    /\ At(x, "inside") /\ task[x].at_start /\ task[x].info.object # 0
    /\ IF is_serial(1)
       THEN /\ token_counter' = IF is_ordered(1) \/ has_bound THEN token_counter + 1
                                ELSE token_counter
            /\ LET new == IF is_ordered(1)
                          THEN [task[x] EXCEPT !.info.token = token_counter, !.info.ready = TRUE]
                          ELSE task[x]
               IN  Becomes(x, IF Last = 1 THEN InputTask ELSE [new EXCEPT !.pc = "spend"])
       ELSE /\ Becomes(x, [task[x] EXCEPT !.pc = "leave", !.at_start = FALSE])
            /\ UNCHANGED token_counter
    /\ UNCHANGED <<config, drawn, end_of_input, input_tokens, buffer, sem, root, thread,
                   cancelled, entered, finalized>>

\* A later filter returns; a serial one starts the item that waits for it.
Leave(x) ==
    /\ At(x, "inside") /\ ~task[x].at_start
    /\ LET f == task[x].filter
           wakee == Wakee(f, task[x].info.token)
           new == [task[x] EXCEPT !.pc = "leave"]
       IN  IF is_serial(f)
           THEN /\ buffer' = [buffer EXCEPT ![f] = Done(f, task[x].info.token)]
                /\ IF wakee # NoItem
                   THEN Spawning(x, new, [InputTask EXCEPT !.filter = f, !.at_start = FALSE,
                                                           !.info = wakee])
                   ELSE Becomes(x, new)
           ELSE Becomes(x, new) /\ UNCHANGED buffer
    /\ UNCHANGED <<config, drawn, shared, sem, root, thread, cancelled, entered, finalized>>

\* On to the next filter, or the end: the last token available is spent on a
\* new item.
Proceed(x) ==
    /\ At(x, "leave") /\ task[x].filter < Last
    /\ LET g == task[x].filter + 1
           parks == Parks(g, task[x].info, FALSE)
       IN  IF ~is_serial(g)
           THEN Becomes(x, Moved(x, g)) /\ UNCHANGED <<buffer, sem>>
           ELSE /\ PutToken(g, task[x].info, FALSE)
                /\ IF parks
                   THEN IF is_bound(g)
                        THEN Becomes(x, [NoTask EXCEPT !.pc = "scan", !.filter = g])
                        ELSE Becomes(x, NoTask)
                   ELSE Becomes(x, [Moved(x, g) EXCEPT !.info = Tokenized(g, task[x].info)])
    /\ UNCHANGED <<config, drawn, shared, root, thread, cancelled, entered, finalized>>
Retire(x) ==
    /\ At(x, "leave") /\ task[x].filter = Last
    /\ input_tokens' = input_tokens + 1
    /\ sem' = IF is_bound(1) /\ input_tokens = 0 THEN [sem EXCEPT ![1] = @ + 1] ELSE sem
    /\ Becomes(x, IF is_bound(1) \/ input_tokens > 0 \/ end_of_input THEN NoTask ELSE InputTask)
    /\ UNCHANGED <<config, drawn, end_of_input, token_counter, buffer, root, thread,
                   cancelled, entered, finalized>>

\* Behind a thread-bound filter, the task goes on with an item that waits in
\* the next filter that is not bound.
Unbound(f) == {g \in f .. Last : ~is_bound(g)}
Scan(x) ==
    /\ At(x, "scan")
    /\ IF Unbound(task[x].filter) = {} THEN Becomes(x, NoTask) /\ UNCHANGED buffer
       ELSE LET g == CHOOSE h \in Unbound(task[x].filter) : \A i \in Unbound(task[x].filter) : h <= i
            IN  IF LowItem(g) = NoItem THEN Becomes(x, NoTask) /\ UNCHANGED buffer
                ELSE /\ buffer' = [buffer EXCEPT ![g] = Returned(g, ~is_serial(g))]
                     /\ Becomes(x, [Moved(x, g) EXCEPT !.info = LowItem(g)])
    /\ UNCHANGED <<config, drawn, shared, sem, root, thread, cancelled, entered, finalized>>

(***************************************************************************)
(* The root task is executed again whenever there are no stage tasks left. *)
(***************************************************************************)
Segments == {f \in Filter \ {1} : is_bound(f - 1) /\ ~is_bound(f)}
Idle == root = "ready" /\ ~cancelled /\ Live = {}
Feeds == ~end_of_input /\ ~is_bound(1) /\ input_tokens > 0

RootInput ==
    /\ Idle /\ Feeds
    /\ Becomes(1, InputTask)
    /\ UNCHANGED <<config, drawn, shared, buffer, sem, root, thread, cancelled, entered, finalized>>
RootTake == \E f \in Segments :
    /\ Idle /\ ~Feeds
    /\ ~end_of_input \/ has_more_work(f)
    /\ LowItem(f) # NoItem
    /\ buffer' = [buffer EXCEPT ![f] = Returned(f, ~is_serial(f))]
    /\ Becomes(1, [InputTask EXCEPT !.filter = f, !.at_start = FALSE, !.info = LowItem(f)])
    /\ UNCHANGED <<config, drawn, shared, sem, root, thread, cancelled, entered, finalized>>
\* The run ends, and wakes the thread-bound filters to end.
\* Mutated form: they are not woken.
RootEndQuietly ==
    /\ Idle /\ end_of_input /\ \A f \in Segments : ~has_more_work(f)
    /\ root' = "done"
    /\ UNCHANGED <<config, drawn, shared, buffer, sem, task, thread, cancelled, entered, finalized>>
RootEnd ==
    /\ Idle /\ end_of_input /\ \A f \in Segments : ~has_more_work(f)
    /\ root' = "done"
    /\ sem' = [f \in Filter |-> IF is_bound(f) /\ f # 1 THEN sem[f] + 1 ELSE sem[f]]
    /\ UNCHANGED <<config, drawn, shared, buffer, task, thread, cancelled, entered, finalized>>

(***************************************************************************)
(* Cancellation, by a filter that throws, without thread-bound filters:    *)
(* tasks are destroyed with their items, and so are the items in buffers.  *)
(***************************************************************************)
Finalizes(object) ==
    finalized' = IF object = 0 THEN finalized ELSE Append(finalized, object)
Throw(x) ==
    /\ At(x, "inside") /\ ~has_bound
    /\ cancelled' = TRUE
    /\ Finalizes(IF task[x].at_start THEN 0 ELSE task[x].info.object)
    /\ IF task[x].at_start /\ task[x].info.object # 0
       THEN entered' = [entered EXCEPT ![1] = SelectSeq(@, LAMBDA i : i # task[x].info.object)]
       ELSE UNCHANGED entered
    /\ Becomes(x, NoTask)
    /\ UNCHANGED <<config, drawn, shared, buffer, sem, root, thread>>
Discard(x) ==
    /\ At(x, "ready") /\ cancelled
    /\ Finalizes(task[x].info.object)
    /\ Becomes(x, NoTask)
    /\ UNCHANGED <<config, drawn, shared, buffer, sem, root, thread, cancelled, entered>>
ParkedItems(f) == {buffer[f].array[i].object : i \in DOMAIN buffer[f].array} \ {0}
ClearFilters ==
    /\ root = "ready" /\ cancelled /\ Live = {}
    /\ root' = "done"
    /\ buffer' = [f \in Filter |-> [buffer[f] EXCEPT !.array = [i \in DOMAIN @ |-> NoItem]]]
    /\ \E order \in [1 .. Cardinality(UNION {ParkedItems(f) : f \in Filter})
                     -> UNION {ParkedItems(f) : f \in Filter}] :
        /\ \A i, j \in DOMAIN order : i < j => order[i] < order[j]
        /\ finalized' = finalized \o order
    /\ UNCHANGED <<config, drawn, shared, sem, task, thread, cancelled, entered>>

\* The same pipeline is run again after a run that was not cancelled.
RunAgain ==
    /\ root = "done" /\ ~cancelled /\ \A f \in Filter : thread[f].pc = "ended"
    /\ runs < MaxRuns /\ runs' = runs + 1
    /\ root' = "ready" /\ end_of_input' = FALSE /\ input_tokens' = max_tokens
    /\ drawn' = 0 /\ entered' = [f \in Filter |-> <<>>]
    /\ thread' = [f \in Filter |-> IF is_bound(f) THEN [thread[f] EXCEPT !.pc = "idle"]
                                   ELSE thread[f]]
    /\ sem' = IF is_bound(1) THEN [sem EXCEPT ![1] = @ + 1] ELSE sem
    /\ UNCHANGED <<filters, max_tokens, items, token_counter, buffer, task, cancelled, finalized>>

(***************************************************************************)
(* thread_bound_filter::process_item, called until the end of the stream   *)
(***************************************************************************)
ThreadAt(f, pc) == is_bound(f) /\ thread[f].pc = pc
ThreadGoes(f, pc) == thread' = [thread EXCEPT ![f].pc = pc]
Ends(f) == end_of_input /\ ~has_more_work(f)
ThreadRest == <<config, task, root, cancelled, finalized>>

Serve(f) ==
    /\ ThreadAt(f, "idle")
    /\ ThreadGoes(f, IF Ends(f) \/ (f = 1 /\ end_of_input) THEN "ended"
                     ELSE IF f = 1 THEN "tokens" ELSE "item")
    /\ UNCHANGED <<ThreadRest, drawn, shared, buffer, sem, entered>>
NoToken(f) ==
    /\ ThreadAt(f, "tokens") /\ input_tokens = 0
    /\ ThreadGoes(f, "wait")
    /\ UNCHANGED <<ThreadRest, drawn, shared, buffer, sem, entered>>
NoneWaits(f) ==
    /\ ThreadAt(f, "item") /\ LowItem(f) = NoItem
    /\ ThreadGoes(f, "wait")
    /\ UNCHANGED <<ThreadRest, drawn, shared, buffer, sem, entered>>
P(f) ==
    /\ ThreadAt(f, "wait") /\ sem[f] > 0
    /\ sem' = [sem EXCEPT ![f] = @ - 1]
    /\ ThreadGoes(f, IF f = 1 THEN "tokens" ELSE "woken")
    /\ UNCHANGED <<ThreadRest, drawn, shared, buffer, entered>>
Woken(f) ==
    /\ ThreadAt(f, "woken")
    /\ ThreadGoes(f, IF Ends(f) THEN "ended" ELSE "item")
    /\ UNCHANGED <<ThreadRest, drawn, shared, buffer, sem, entered>>
ThreadInput(f) ==
    /\ ThreadAt(f, "tokens") /\ input_tokens # 0
    /\ \/ /\ Draw
          /\ thread' = [thread EXCEPT ![f] = [pc |-> "spend", info |-> [NoItem EXCEPT !.object = drawn + 1]]]
          /\ UNCHANGED end_of_input
       \/ DrawNone /\ end_of_input' = TRUE /\ ThreadGoes(f, "ended")
    /\ UNCHANGED <<ThreadRest, token_counter, input_tokens, buffer, sem>>
ThreadSpend(f) ==
    /\ ThreadAt(f, "spend")
    /\ input_tokens' = input_tokens - 1
    /\ token_counter' = token_counter + 1
    /\ thread' = [thread EXCEPT ![f].pc = "put", ![f].info.token = token_counter,
                                ![f].info.ready = TRUE]
    /\ UNCHANGED <<ThreadRest, drawn, end_of_input, buffer, sem, entered>>
ThreadTake(f) ==
    /\ ThreadAt(f, "item") /\ LowItem(f) # NoItem
    /\ buffer' = [buffer EXCEPT ![f] = Returned(f, TRUE)]
    /\ thread' = [thread EXCEPT ![f] = [pc |-> "put", info |-> LowItem(f)]]
    /\ Enters(f, LowItem(f).object)
    /\ UNCHANGED <<ThreadRest, drawn, shared, sem>>
ThreadPut(f) ==
    /\ ThreadAt(f, "put")
    /\ thread' = [thread EXCEPT ![f] = [pc |-> "idle", info |-> NoItem]]
    /\ IF f < Last
       THEN PutToken(f + 1, thread[f].info, TRUE) /\ UNCHANGED input_tokens
       ELSE /\ input_tokens' = input_tokens + 1
            /\ sem' = IF is_bound(1) /\ input_tokens = 0 THEN [sem EXCEPT ![1] = @ + 1] ELSE sem
            /\ UNCHANGED buffer
    /\ UNCHANGED <<ThreadRest, drawn, end_of_input, token_counter, entered>>

Next ==
    \/ \E x \in Task :
        \/ Begin(x) \/ Count(x) \/ Spend(x) \/ Input(x) \/ Process(x)
        \/ EndOfInput(x) \/ Uncount(x) \/ Emit(x) \/ Leave(x) \/ Proceed(x) \/ Retire(x)
        \/ Scan(x) \/ Throw(x) \/ Discard(x)
    \/ RootInput \/ RootTake \/ RootEnd \/ ClearFilters \/ RunAgain
    \/ \E f \in Filter :
        \/ Serve(f) \/ NoToken(f) \/ NoneWaits(f) \/ P(f) \/ Woken(f)
        \/ ThreadInput(f) \/ ThreadSpend(f) \/ ThreadTake(f) \/ ThreadPut(f)

Spec == Init /\ [][Next]_vars

(***************************************************************************)
(* Properties.                                                             *)
(***************************************************************************)
TypeOK ==
    /\ input_tokens \in 0 .. max_tokens /\ token_counter \in Nat
    /\ Cardinality(Live) < Cardinality(Task)

\* A serial filter has one item at a time, and all ordered filters get the
\* items in the same order.
Inside(f) == {x \in Task : At(x, "inside") /\ task[x].filter = f}
IsPrefixOf(s, t) == Len(s) <= Len(t) /\ s = SubSeq(t, 1, Len(s))
SerialInOrder ==
    /\ \A f \in Filter : is_serial(f) => Cardinality(Inside(f)) <= 1
    /\ \A f, g \in Filter : is_ordered(f) /\ is_ordered(g) =>
        IsPrefixOf(entered[f], entered[g]) \/ IsPrefixOf(entered[g], entered[f])

\* No filter gets an item twice; when a run is over and its thread-bound
\* filters have ended, every filter has got every item, unless the run was
\* cancelled, in which case an item is finalized once or has got to the last
\* filter.
Gets(f) == {entered[f][i] : i \in DOMAIN entered[f]}
NothingLostOrRepeated ==
    /\ \A f \in Filter : Cardinality(Gets(f)) = Len(entered[f])
    /\ root = "done" /\ ~cancelled /\ (\A f \in Filter : thread[f].pc = "ended")
        => \A f \in Filter : Gets(f) = 1 .. items
    /\ \A i \in Gets(1) :
        LET times == Cardinality({j \in DOMAIN finalized : finalized[j] = i})
        IN  times <= 1 /\ (root = "done" /\ cancelled => times = 1 \/ i \in Gets(Last))

\* There are never more items in the pipeline than tokens.
TokensBound ==
    Cardinality({i \in Gets(1) : i \notin Gets(Last)}) <= max_tokens

\* The run and the threads of its bound filters come to an end: unless they
\* have, somebody can do something, and nothing is done over and over.
NoHang ==
    \/ root = "done" /\ \A f \in Filter : thread[f].pc = "ended"
    \/ ENABLED Next
=============================================================================
