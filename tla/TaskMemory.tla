----------------------------- MODULE TaskMemory -----------------------------
(***************************************************************************)
(* The memory of small tasks (src/src/tbb/scheduler.cpp): a scheduler      *)
(* keeps the tasks it has allocated in a free list, and takes back, by its *)
(* return list, those that other threads have freed.  When its thread ends *)
(* it plugs the return list, and whoever frees the last of its tasks, be   *)
(* it the thread itself, frees the scheduler.                              *)
(*                                                                         *)
(* Tasks travel by being stolen: any thread may free a live one.  A thread *)
(* does not end while it is the last and tasks live.                       *)
(***************************************************************************)
EXTENDS Integers, Sequences, FiniteSets

CONSTANTS
    Thread,     \* each with its scheduler
    Memory,     \* where small tasks can be
    Hoard,      \* __TBB_HOARD_NONLOCAL_TASKS and __TBB_PREFETCHING, of one platform
    MaxAllocations \* a bound

Assumptions == Hoard \in BOOLEAN /\ MaxAllocations \in Nat /\ Thread # {}

VARIABLES
    use,                  \* of the memory: "none", "live" or "freed"
    origin,               \* the scheduler it belongs to
    my_free_list, my_nonlocal_free_list, my_return_list,
    my_small_task_count,
    exists,               \* schedulers that have not been freed
    me,                   \* per thread: pc, the task at hand and its scheduler s, old, k, and
                          \* the count it has read
    allocations

vars == <<use, origin, my_free_list, my_nonlocal_free_list, my_return_list,
          my_small_task_count, exists, me, allocations>>
lists == <<my_free_list, my_nonlocal_free_list, my_return_list>>

Plugged == <<"plugged">>
NoTask == "none"
Idle == [pc |-> "idle", after |-> "idle", task |-> NoTask, s |-> NoTask, old |-> <<>>,
         count |-> 0, k |-> 1]

\* The guard reference.
Init ==
    /\ use = [x \in Memory |-> "none"]
    /\ origin = [x \in Memory |-> NoTask]
    /\ my_free_list = [t \in Thread |-> <<>>]
    /\ my_nonlocal_free_list = [t \in Thread |-> <<>>]
    /\ my_return_list = [t \in Thread |-> <<>>]
    /\ my_small_task_count = [t \in Thread |-> 1]
    /\ exists = Thread
    /\ me = [t \in Thread |-> Idle]
    /\ allocations = 0

At(t, label) == me[t].pc = label
Goto(t, from, to) == At(t, from) /\ me' = [me EXCEPT ![t].pc = to]
Set(f, x, v) == [f EXCEPT ![x] = v]

(***************************************************************************)
(* allocate_task                                                           *)
(***************************************************************************)
Got(x) == use' = Set(use, x, "live")
\* With prefetching the owner looks for more after it has got the last task
\* of a list.
AfterGetting(t, next) ==
    IF Hoard /\ next = <<>> THEN Goto(t, "idle", "prefetch") ELSE UNCHANGED me

AllocateHoarded(t) ==
    /\ At(t, "idle") /\ allocations < MaxAllocations /\ my_nonlocal_free_list[t] # <<>>
    /\ Got(Head(my_nonlocal_free_list[t]))
    /\ my_nonlocal_free_list' = Set(my_nonlocal_free_list, t, Tail(my_nonlocal_free_list[t]))
    /\ AfterGetting(t, Tail(my_nonlocal_free_list[t]))
    /\ allocations' = allocations + 1
    /\ UNCHANGED <<origin, my_free_list, my_return_list, my_small_task_count, exists>>
AllocateFree(t) ==
    /\ At(t, "idle") /\ allocations < MaxAllocations
    /\ my_nonlocal_free_list[t] = <<>> /\ my_free_list[t] # <<>>
    /\ Got(Head(my_free_list[t]))
    /\ my_free_list' = Set(my_free_list, t, Tail(my_free_list[t]))
    /\ AfterGetting(t, Tail(my_free_list[t]))
    /\ allocations' = allocations + 1
    /\ UNCHANGED <<origin, my_nonlocal_free_list, my_return_list, my_small_task_count, exists>>
SeeReturned(t) ==
    /\ my_nonlocal_free_list[t] = <<>> /\ my_free_list[t] = <<>> /\ allocations < MaxAllocations
    /\ allocations' = allocations + 1
    /\ Goto(t, "idle", IF my_return_list[t] # <<>> THEN "takeReturned" ELSE "newTask")
    /\ UNCHANGED <<use, origin, lists, my_small_task_count, exists>>
TakeReturned(t) ==
    /\ Goto(t, "takeReturned", IF Hoard /\ Len(my_return_list[t]) = 1 THEN "prefetch" ELSE "idle")
    /\ Got(Head(my_return_list[t]))
    /\ my_free_list' = Set(my_free_list, t, Tail(my_return_list[t]))
    /\ my_return_list' = Set(my_return_list, t, <<>>)
    /\ UNCHANGED <<origin, my_nonlocal_free_list, my_small_task_count, exists, allocations>>
\* ++my_small_task_count is not atomic.
NewTask(t) ==
    /\ At(t, "newTask")
    /\ \E x \in Memory :
           /\ use[x] = "none" /\ Got(x)
           /\ origin' = Set(origin, x, t)
           /\ me' = Set(me, t, [me[t] EXCEPT !.pc = "increment", !.count = my_small_task_count[t]])
    /\ UNCHANGED <<lists, my_small_task_count, exists, allocations>>
NoMemory(t) ==
    /\ \A x \in Memory : use[x] # "none"
    /\ Goto(t, "newTask", "idle")
    /\ UNCHANGED <<use, origin, lists, my_small_task_count, exists, allocations>>
Increment(t) ==
    /\ Goto(t, "increment", IF Hoard THEN "prefetch" ELSE "idle")
    /\ my_small_task_count' = Set(my_small_task_count, t, me[t].count + 1)
    /\ UNCHANGED <<use, origin, lists, exists, allocations>>
Prefetch(t) ==
    /\ Goto(t, "prefetch", "idle")
    /\ IF my_free_list[t] = <<>>
       THEN /\ my_free_list' = Set(my_free_list, t, my_return_list[t])
            /\ my_return_list' = Set(my_return_list, t, <<>>)
       ELSE UNCHANGED <<my_free_list, my_return_list>>
    /\ UNCHANGED <<use, origin, my_nonlocal_free_list, my_small_task_count, exists, allocations>>

(***************************************************************************)
(* free_task                                                               *)
(***************************************************************************)
\* Mutated form: whoever frees a task keeps it.
AnyLocal(t, x) == TRUE
Local(t, x) == origin[x] = t
Return(t, x, after) ==
    Set(me, t, [me[t] EXCEPT !.pc = "read", !.after = after, !.task = x, !.s = origin[x]])
FreeTask(t) ==
    /\ At(t, "idle")
    /\ \E x \in Memory :
           /\ use[x] = "live" /\ use' = Set(use, x, "freed")
           /\ \/ /\ Local(t, x)
                 /\ my_free_list' = Set(my_free_list, t, <<x>> \o my_free_list[t])
                 /\ UNCHANGED <<my_nonlocal_free_list, me>>
              \/ /\ ~Local(t, x) /\ me' = Return(t, x, "idle")
                 /\ UNCHANGED <<my_free_list, my_nonlocal_free_list>>
              \/ /\ ~Local(t, x) /\ Hoard
                 /\ my_nonlocal_free_list' =
                        Set(my_nonlocal_free_list, t, <<x>> \o my_nonlocal_free_list[t])
                 /\ UNCHANGED <<my_free_list, me>>
    /\ UNCHANGED <<origin, my_return_list, my_small_task_count, exists, allocations>>
\* Before it steals, and when it ends, a thread returns what it has hoarded.
ReturnHoarded(t, label) ==
    /\ At(t, label) /\ my_nonlocal_free_list[t] # <<>>
    /\ me' = Return(t, Head(my_nonlocal_free_list[t]), label)
    /\ my_nonlocal_free_list' = Set(my_nonlocal_free_list, t, Tail(my_nonlocal_free_list[t]))
    /\ UNCHANGED <<use, origin, my_free_list, my_return_list, my_small_task_count, exists, allocations>>

\* free_nonlocal_small_task
ReadReturnList(t) ==
    /\ At(t, "read")
    /\ LET old == my_return_list[me[t].s] IN
       me' = Set(me, t, [me[t] EXCEPT !.old = old,
                                      !.pc = IF old = Plugged THEN "deallocate" ELSE "push"])
    /\ UNCHANGED <<use, origin, lists, my_small_task_count, exists, allocations>>
\* compare_and_swap compares what the heads point to.
SameHead(a, b) == IF a = <<>> \/ b = <<>> THEN a = b ELSE Head(a) = Head(b)
Returned(t, to) ==
    Set(me, t, [me[t] EXCEPT !.pc = to, !.task = NoTask, !.s = NoTask, !.old = <<>>])
Push(t) ==
    /\ At(t, "push")
    /\ LET s == me[t].s  now == my_return_list[s] IN
       IF SameHead(now, me[t].old)
       THEN /\ my_return_list' = Set(my_return_list, s, <<me[t].task>> \o now)
            /\ me' = Returned(t, me[t].after)
       ELSE me' = Set(me, t, [me[t] EXCEPT !.pc = "read"]) /\ UNCHANGED my_return_list
    /\ UNCHANGED <<use, origin, my_free_list, my_nonlocal_free_list, my_small_task_count, exists, allocations>>
Deallocate(t) ==
    /\ Goto(t, "deallocate", "decrement")
    /\ use' = Set(use, me[t].task, "none")
    /\ UNCHANGED <<origin, lists, my_small_task_count, exists, allocations>>
\* Who takes the count to zero frees the scheduler.
Discount(s, k) ==
    /\ my_small_task_count' = Set(my_small_task_count, s, my_small_task_count[s] - k)
    /\ exists' = IF my_small_task_count[s] = k THEN exists \ {s} ELSE exists
Decrement(t) ==
    /\ At(t, "decrement") /\ me' = Returned(t, me[t].after)
    /\ Discount(me[t].s, 1)
    /\ UNCHANGED <<use, origin, lists, allocations>>

(***************************************************************************)
(* free_scheduler                                                          *)
(***************************************************************************)
End(t) ==
    /\ Goto(t, "idle", "hoarded")
    /\ (\A x \in Memory : use[x] # "live") \/ \E u \in Thread \ {t} : At(u, "idle")
    /\ UNCHANGED <<use, origin, lists, my_small_task_count, exists, allocations>>
NoneHoarded(t) ==
    /\ my_nonlocal_free_list[t] = <<>> /\ Goto(t, "hoarded", "drain")
    /\ UNCHANGED <<use, origin, lists, my_small_task_count, exists, allocations>>
Drain(t) ==
    /\ At(t, "drain")
    /\ IF my_free_list[t] # <<>>
       THEN LET x == Head(my_free_list[t]) IN
            /\ use' = Set(use, x, "none")
            /\ my_free_list' = Set(my_free_list, t, Tail(my_free_list[t]))
            /\ me' = Set(me, t, [me[t] EXCEPT !.k = @ + 1])
       ELSE /\ Goto(t, "drain", IF my_return_list[t] = Plugged THEN "signOff" ELSE "plug")
            /\ UNCHANGED <<use, my_free_list>>
    /\ UNCHANGED <<origin, my_nonlocal_free_list, my_return_list, my_small_task_count, exists, allocations>>
\* Mutated form: the list is plugged, and what is in it forgotten.
PlugBlindly(t) == my_free_list' = Set(my_free_list, t, <<>>)
TakeLast(t) == my_free_list' = Set(my_free_list, t, my_return_list[t])
Plug(t) ==
    /\ Goto(t, "plug", "drain") /\ TakeLast(t)
    /\ my_return_list' = Set(my_return_list, t, Plugged)
    /\ UNCHANGED <<use, origin, my_nonlocal_free_list, my_small_task_count, exists, allocations>>
SignOff(t) ==
    /\ Goto(t, "signOff", "gone") /\ Discount(t, me[t].k)
    /\ UNCHANGED <<use, origin, lists, allocations>>

Step(t) ==
    \/ AllocateHoarded(t) \/ AllocateFree(t) \/ SeeReturned(t) \/ TakeReturned(t)
    \/ NewTask(t) \/ NoMemory(t) \/ Increment(t) \/ Prefetch(t)
    \/ FreeTask(t) \/ ReturnHoarded(t, "idle") \/ ReturnHoarded(t, "hoarded")
    \/ ReadReturnList(t) \/ Push(t) \/ Deallocate(t) \/ Decrement(t)
    \/ End(t) \/ NoneHoarded(t) \/ Drain(t) \/ Plug(t) \/ SignOff(t)
Next == \E t \in Thread : Step(t)

Spec == Init /\ [][Next]_vars

(***************************************************************************)
(* Properties                                                              *)
(***************************************************************************)
\* Nobody touches the return list or the count of a scheduler that has been
\* freed, and nothing is freed twice; it exists as long as one of its tasks.
NothingDangling ==
    /\ \A t \in Thread : me[t].s # NoTask => me[t].s \in exists
    /\ \A t \in Thread : ~At(t, "gone") => t \in exists
    /\ \A x \in Memory : use[x] # "none" => origin[x] \in exists

Range(s) == {s[i] : i \in 1 .. Len(s)}
Elements(t) ==
    my_free_list[t] \o my_nonlocal_free_list[t] \o
        (IF my_return_list[t] = Plugged THEN <<>> ELSE my_return_list[t])
\* A freed task is in one list, or in the hands of who returns it; a live one
\* in none.
InOneList ==
    \A x \in Memory :
        Cardinality({<<t, i>> \in Thread \X (1 .. Cardinality(Memory)) :
                        i <= Len(Elements(t)) /\ Elements(t)[i] = x})
            + Cardinality({t \in Thread : me[t].task = x /\ me[t].pc \in {"read", "push", "deallocate"}})
        = IF use[x] = "freed" THEN 1 ELSE 0

\* The count is that of the tasks in memory, the guard and what is on its way;
\* once it is not incremented any more.
CountRight ==
    \A s \in exists :
        my_small_task_count[s] =
            Cardinality({x \in Memory : use[x] # "none" /\ origin[x] = s})
            + Cardinality({t \in Thread : At(t, "decrement") /\ me[t].s = s})
            + (IF At(s, "gone") THEN 0 ELSE me[s].k) - (IF At(s, "increment") THEN 1 ELSE 0)

\* When all threads have ended nothing is left.
NothingLeft ==
    (\A t \in Thread : At(t, "gone")) => exists = {} /\ \A x \in Memory : use[x] = "none"
=============================================================================
