------------------------------ MODULE TaskTree ------------------------------
(***************************************************************************)
(* How trees of tasks are evaluated: the dispatch loop of                  *)
(* src/src/tbb/custom_scheduler.h, with reference counts, nested waits,    *)
(* continuations, recycling, cancellation and exceptions.                  *)
(*                                                                         *)
(* Task pools, mailboxes and streams (TaskPool, Mailbox) are one set from  *)
(* which any thread may take any task.  A thread has a frame for each of   *)
(* the dispatch loops it is in.  What tasks do is chosen in the course of  *)
(* the behaviour, among the protocols that task.h allows.  All tasks       *)
(* belong to one context.                                                  *)
(***************************************************************************)
EXTENDS Integers, Sequences, FiniteSets

CONSTANTS
    Main, Worker,   \* the thread that waits for the tree, and the workers
    Task,           \* memory for tasks
    Dummy,          \* the parent of the root
    NULL,
    MaxTasks        \* bound: tasks made

Assumptions ==
    /\ Main \notin Worker /\ Dummy \notin Task /\ NULL \notin Task \cup {Dummy}
    /\ Cardinality(Task) >= 1 /\ MaxTasks \in Nat

VARIABLES
    state, parent, ref_count,   \* of each task
    pool,           \* the tasks spawned and not yet taken
    stack,          \* of each thread: its dispatch loops
    my_cancellation_requested, my_exception,
    outcome,        \* what the wait for the tree has come to
    threw,          \* ghost: a task's exception has cancelled the tree
    made

tree == <<state, parent, ref_count, pool, made>>
context == <<my_cancellation_requested, my_exception, threw>>
vars == <<tree, stack, context, outcome>>

Thread == {Main} \cup Worker
Live == {x \in Task : state[x] # "freed"}
Frame(waits_for, x) ==
    [wait |-> waits_for, task |-> x, next |-> NULL, pc |-> IF x = NULL THEN "fetch" ELSE "run"]

\* local_spawn_root_and_wait; workers are in their outermost dispatch loops.
Root == CHOOSE x \in Task : TRUE
Init ==
    /\ state = [x \in Task |-> IF x = Root THEN "allocated" ELSE "freed"]
    /\ parent = [x \in Task |-> IF x = Root THEN Dummy ELSE NULL]
    /\ ref_count = [x \in Task \cup {Dummy} |-> IF x = Dummy THEN 2 ELSE 0]
    /\ pool = {} /\ made = 1
    /\ stack = [h \in Thread |-> <<IF h = Main THEN Frame(Dummy, Root) ELSE Frame(NULL, NULL)>>]
    /\ my_cancellation_requested = FALSE /\ my_exception = FALSE
    /\ outcome = "none" /\ threw = FALSE

Set(f, x, v) == [f EXCEPT ![x] = v]
Top(h) == stack[h][Len(stack[h])]
Running(h) == Top(h).task
At(h, pc) == stack[h] # <<>> /\ Top(h).pc = pc
Becomes(h, frame) == stack' = [stack EXCEPT ![h][Len(stack[h])] = frame]
Goto(h, pc) == Becomes(h, [Top(h) EXCEPT !.pc = pc])
Goes(h, x) == Becomes(h, [Top(h) EXCEPT !.task = x, !.next = NULL,
                                        !.pc = IF x = NULL THEN "fetch" ELSE "run"])

(***************************************************************************)
(* custom_scheduler::local_wait_for_all                                    *)
(***************************************************************************)
\* get_task, receive_or_steal_task: the tasks that wait may have been waiting
\* for the loop's last look at the count.
Take(h) == \E x \in pool :
    /\ At(h, "fetch")
    /\ pool' = pool \ {x}
    /\ Goes(h, x)
    /\ UNCHANGED <<state, parent, ref_count, made, context, outcome>>

\* A task of a cancelled tree is not executed.
Run(h) ==
    /\ At(h, "run")
    /\ state' = Set(state, Running(h), "executing")
    /\ Goto(h, IF my_cancellation_requested THEN "post" ELSE "body")
    /\ UNCHANGED <<parent, ref_count, pool, made, context, outcome>>

Destroy(h) ==
    /\ At(h, "post") /\ state[Running(h)] = "executing"
    /\ Goto(h, IF parent[Running(h)] = NULL THEN "free" ELSE "tally")
    /\ UNCHANGED <<tree, context, outcome>>
AfterRecycling(h) ==
    /\ At(h, "post")
    /\ \/ /\ state[Running(h)] = "recycle"
          /\ state' = Set(state, Running(h), "allocated")
          /\ Goto(h, "tally self")
       \/ /\ state[Running(h)] = "allocated"
          /\ Goes(h, Top(h).next)
          /\ UNCHANGED state
    /\ UNCHANGED <<parent, ref_count, pool, made, context, outcome>>

\* tally_completion_of_predecessor: the last to leave s takes it along, or
\* spawns it if there is something else to do.
Tallies(h, s, frame) ==
    /\ ref_count' = [ref_count EXCEPT ![s] = @ - 1]
    /\ IF ref_count[s] > 1
       THEN Becomes(h, frame) /\ UNCHANGED <<state, pool>>
       ELSE IF frame.next = NULL
       THEN Becomes(h, [frame EXCEPT !.next = s]) /\ UNCHANGED <<state, pool>>
       ELSE /\ Becomes(h, frame)
            /\ state' = Set(state, s, "ready") /\ pool' = pool \cup {s}
Tally(h) ==
    /\ At(h, "tally")
    /\ Tallies(h, parent[Running(h)], [Top(h) EXCEPT !.pc = "free"])
    /\ UNCHANGED <<parent, made, context, outcome>>
TallySelf(h) ==
    /\ At(h, "tally self")
    /\ Tallies(h, Running(h), [Top(h) EXCEPT !.pc = "turn"])
    /\ UNCHANGED <<parent, made, context, outcome>>
Turn(h) ==
    /\ At(h, "turn")
    /\ Goes(h, Top(h).next)
    /\ UNCHANGED <<tree, context, outcome>>
Free(h) ==
    /\ At(h, "free")
    /\ state' = Set(state, Running(h), "freed")
    /\ Goes(h, Top(h).next)
    /\ UNCHANGED <<parent, ref_count, pool, made, context, outcome>>

\* Mutated form: the wait is over when one child is left.
QuitEarly(h) ==
    /\ At(h, "fetch") /\ Top(h).wait # NULL /\ ref_count[Top(h).wait] \in 1 .. 2
    /\ ref_count' = Set(ref_count, Top(h).wait, 0)
    /\ Goto(h, "return")
    /\ UNCHANGED <<state, parent, pool, made, context, outcome>>
\* The wait is over; an exception that has been registered is thrown to the
\* waiter.
Quit(h) ==
    /\ At(h, "fetch") /\ Top(h).wait # NULL /\ ref_count[Top(h).wait] = 1
    /\ ref_count' = Set(ref_count, Top(h).wait, 0)
    /\ Goto(h, "return")
    /\ UNCHANGED <<state, parent, pool, made, context, outcome>>
Return(h) ==
    /\ At(h, "return")
    /\ LET rethrows == my_cancellation_requested /\ my_exception
           rest == SubSeq(stack[h], 1, Len(stack[h]) - 1)
       IN  IF rest = <<>>
           THEN /\ outcome' = IF rethrows THEN "thrown" ELSE "returned"
                /\ stack' = Set(stack, h, <<>>)
           ELSE /\ stack' = Set(stack, h, [rest EXCEPT ![Len(rest)].pc =
                                                IF rethrows THEN "catch" ELSE "body"])
                /\ UNCHANGED outcome
    /\ UNCHANGED <<tree, context>>

\* The handler of exceptions: the first to cancel the tree registers its own.
\* A task that was to be recycled gives up its reference to itself.
Catch(h) ==
    /\ At(h, "catch")
    /\ my_cancellation_requested' = TRUE
    /\ Goto(h, IF my_cancellation_requested THEN "handled" ELSE "register")
    /\ threw' = (threw \/ ~my_cancellation_requested)
    /\ UNCHANGED <<tree, my_exception, outcome>>
Register(h) ==
    /\ At(h, "register")
    /\ my_exception' = TRUE
    /\ Goto(h, "handled")
    /\ UNCHANGED <<tree, my_cancellation_requested, threw, outcome>>
\* Mutated form: the task is executed again though others may hold it.
HandledKeeping(h) ==
    /\ At(h, "handled")
    /\ IF state[Running(h)] = "recycle"
       THEN /\ state' = Set(state, Running(h), "allocated")
            /\ ref_count' = [ref_count EXCEPT ![Running(h)] = @ - 1]
       ELSE UNCHANGED <<state, ref_count>>
    /\ Goes(h, Running(h))
    /\ UNCHANGED <<parent, pool, made, context, outcome>>
Handled(h) ==
    /\ At(h, "handled")
    /\ IF state[Running(h)] = "recycle"
       THEN /\ state' = Set(state, Running(h), "allocated")
            /\ ref_count' = [ref_count EXCEPT ![Running(h)] = @ - 1]
            /\ Goes(h, IF ref_count[Running(h)] = 1 THEN Running(h) ELSE NULL)
       ELSE Goes(h, Running(h)) /\ UNCHANGED <<state, ref_count>>
    /\ UNCHANGED <<parent, pool, made, context, outcome>>

(***************************************************************************)
(* What a task may do.                                                     *)
(***************************************************************************)
\* New tasks take any memory that is free; the first of them are spawned.
New(n) == {s \in [1 .. n -> Task \ Live] : \A i, j \in 1 .. n : i # j => s[i] # s[j]}
Lowest(n) == CHOOSE s \in New(n) : TRUE
Makes(n) == made + n <= MaxTasks /\ Cardinality(Task \ Live) >= n /\ made' = made + n
Allocated(s, spawned) ==
    [x \in Task |-> IF \E i \in DOMAIN s : s[i] = x
                    THEN IF x \in spawned THEN "ready" ELSE "allocated"
                    ELSE state[x]]
ChildrenOf(p, s) == [x \in Task |-> IF \E i \in DOMAIN s : s[i] = x THEN p ELSE parent[x]]
Counted(s) == [x \in DOMAIN ref_count |-> IF \E i \in DOMAIN s : s[i] = x THEN 0 ELSE ref_count[x]]
InBody(h) == At(h, "body") /\ UNCHANGED <<context, outcome>>

Leaf(h) == InBody(h) /\ Goto(h, "post") /\ UNCHANGED tree

Throw(h) == InBody(h) /\ Goto(h, "catch") /\ UNCHANGED tree

\* set_ref_count(n + 1), spawn all children but the first, and
\* spawn_and_wait_for_all for the first
SpawnAndWait(h) == \E n \in 1 .. 2 :
    /\ InBody(h) /\ Makes(n)
    /\ LET x == Running(h)
           s == Lowest(n)
           spawned == {s[i] : i \in 2 .. n}
       IN  /\ state' = Allocated(s, spawned)
           /\ parent' = ChildrenOf(x, s)
           /\ ref_count' = Set(Counted(s), x, n + 1)
           /\ pool' = pool \cup spawned
           /\ stack' = [stack EXCEPT ![h] =
                  Append(Set(@, Len(@), [Top(h) EXCEPT !.pc = "waiting"]), Frame(x, s[1]))]

\* allocate_continuation, which takes over the parent; the children are the
\* continuation's, and the first of them is returned to be executed next.
Continue(h) == \E n \in 1 .. 2 :
    /\ InBody(h) /\ Makes(n + 1)
    /\ LET x == Running(h)
           s == Lowest(n + 1)
           c == s[n + 1]
           spawned == {s[i] : i \in 2 .. n}
       IN  /\ state' = Allocated(s, spawned)
           /\ parent' = [ChildrenOf(c, s) EXCEPT ![c] = parent[x], ![x] = NULL]
           /\ ref_count' = Set(Counted(s), c, n)
           /\ pool' = pool \cup spawned
           /\ Becomes(h, [Top(h) EXCEPT !.next = s[1], !.pc = "post"])

\* As before, but the task itself becomes a child of its continuation.
RecycleAsChild(h) ==
    /\ InBody(h) /\ Makes(2)
    /\ LET x == Running(h)
           s == Lowest(2)
           c == s[2]
       IN  /\ state' = [Allocated(s, {s[1]}) EXCEPT ![x] = "allocated"]
           /\ parent' = [ChildrenOf(c, s) EXCEPT ![c] = parent[x], ![x] = c]
           /\ ref_count' = Set(Counted(s), c, 2)
           /\ pool' = pool \cup {s[1]}
           /\ \/ Becomes(h, [Top(h) EXCEPT !.next = x, !.pc = "post"])
              \/ Goto(h, "catch")

\* recycle_as_safe_continuation, with a reference for itself
SafeContinue(h) == \E n \in 1 .. 2 :
    /\ InBody(h) /\ Makes(n)
    /\ LET x == Running(h)
           s == Lowest(n)
           spawned == {s[i] : i \in 1 .. n}
       IN  /\ state' = [Allocated(s, spawned) EXCEPT ![x] = "recycle"]
           /\ parent' = ChildrenOf(x, s)
           /\ ref_count' = Set(Counted(s), x, n + 1)
           /\ pool' = pool \cup spawned
           /\ Goto(h, "post") \/ Goto(h, "catch")

\* allocate_additional_child_of(*parent())
AddSibling(h) ==
    /\ InBody(h) /\ Makes(1) /\ parent[Running(h)] # NULL
    /\ LET p == parent[Running(h)]
           s == Lowest(1)
       IN  /\ state' = Allocated(s, {s[1]})
           /\ parent' = ChildrenOf(p, s)
           /\ ref_count' = [Counted(s) EXCEPT ![p] = @ + 1]
           /\ pool' = pool \cup {s[1]}
           /\ Goto(h, "post")

\* task_group_context::cancel_group_execution, by anyone
Cancel ==
    /\ outcome = "none" /\ ~my_cancellation_requested
    /\ my_cancellation_requested' = TRUE
    /\ UNCHANGED <<tree, stack, my_exception, threw, outcome>>

Next ==
    \/ \E h \in Thread :
        \/ Take(h) \/ Run(h) \/ Destroy(h) \/ AfterRecycling(h) \/ Tally(h) \/ TallySelf(h)
        \/ Turn(h) \/ Free(h) \/ Quit(h) \/ Return(h)
        \/ Catch(h) \/ Register(h) \/ Handled(h)
        \/ Leaf(h) \/ Throw(h) \/ SpawnAndWait(h) \/ Continue(h) \/ RecycleAsChild(h)
        \/ SafeContinue(h) \/ AddSibling(h)
    \/ Cancel

Spec == Init /\ [][Next]_vars

(***************************************************************************)
(* Properties.                                                             *)
(***************************************************************************)
Frames == {<<h, i>> : h \in Thread, i \in 1 .. 2 * MaxTasks}
Existing == {<<h, i>> \in Frames : i <= Len(stack[h])}
FrameOf(f) == stack[f[1]][f[2]]
Freeing(x) == \E f \in Existing : FrameOf(f).pc = "free" /\ FrameOf(f).task = x

\* Nobody holds a task that has been freed, and a task is in one place at
\* a time: it would be executed twice otherwise.
Places(x) ==
    Cardinality({f \in Existing : FrameOf(f).task = x /\ FrameOf(f).next # x
                                  /\ FrameOf(f).pc # "turn"})
    + Cardinality({f \in Existing : FrameOf(f).next = x})
    + (IF x \in pool THEN 1 ELSE 0)
NothingDangling ==
    \A x \in Task :
        /\ Places(x) > 0 => x \in Live
        /\ Places(x) <= 1
        /\ (\E f \in Existing : FrameOf(f).wait = x) \/ (\E y \in Live : parent[y] = x /\ ~Freeing(y))
           => x \in Live

\* A reference count is the number of children that have not completed, and
\* one for a thread that waits, and one for a task that will be recycled.
Children(x) == {y \in Live : parent[y] = x /\ ~Freeing(y)}
Recycling(x) == x \in Live /\
    \/ state[x] = "recycle"
    \/ \E f \in Existing : FrameOf(f).pc = "tally self" /\ FrameOf(f).task = x
RefCountsRight ==
    \A x \in Live \cup {Dummy} :
        ref_count[x] = Cardinality(Children(x))
            + (IF \E f \in Existing : FrameOf(f).wait = x /\ FrameOf(f).pc # "return" THEN 1 ELSE 0)
            + (IF x # Dummy /\ Recycling(x) THEN 1 ELSE 0)

\* A wait returns when all that descends from the task has completed.
Ancestry[x \in Task \cup {Dummy, NULL}, n \in 0 .. Cardinality(Task)] ==
    IF x \in {Dummy, NULL} \/ n = 0 THEN {} ELSE {parent[x]} \cup Ancestry[parent[x], n - 1]
WaitTruthful ==
    \A f \in Existing : FrameOf(f).pc = "return" =>
        \A y \in Live : FrameOf(f).wait \in Ancestry[y, Cardinality(Task)] => Freeing(y)

\* The exception that has cancelled the tree reaches the thread that waits for
\* the tree, and nothing of the tree is left.
OutcomeRight ==
    /\ outcome # "none" => outcome = IF threw THEN "thrown" ELSE "returned"
    /\ outcome # "none" => pool = {} /\ \A y \in Live : Freeing(y)

\* Threads that wait for tasks on each other's stacks never all wait.
NoHang == outcome = "none" => ENABLED Next
=============================================================================
