---------------------------- MODULE ArenaDemand ----------------------------
(***************************************************************************)
(* How an arena asks the market for workers and gives them back            *)
(* (src/src/tbb/arena.h, arena.cpp, market.cpp): producers publish work    *)
(* and advertise it, workers that find nothing take a snapshot of the      *)
(* arena, and whoever moves my_pool_state out of or into SNAPSHOT_EMPTY    *)
(* adjusts the demand.  An enqueued task must be executed even when the    *)
(* arena was created without workers (mandatory concurrency).              *)
(*                                                                         *)
(* All tasks have the same priority.  Enqueuing has a full fence between   *)
(* publishing and reading the pool state; spawning has none, so its read   *)
(* may come first.                                                         *)
(***************************************************************************)
EXTENDS Integers, FiniteSets, Functions

CONSTANTS
    Client,     \* application threads
    Inside,     \* the clients that occupy the arena's master slot, and spawn
    Worker,     \* worker threads of the market
    Arenas,     \* [workers, clients]: max_num_workers and users of an arena
    MaxTasks    \* bound: tasks produced in all

Thread == Client \cup Worker

Assumptions ==
    /\ Inside \subseteq Client /\ Client \cap Worker = {}
    /\ \A a \in Arenas : a.workers \in Nat /\ a.clients \subseteq Client
    /\ MaxTasks \in Nat
    /\ IsFiniteSet(Thread) /\ {"empty", "full"} \cap Worker = {}

VARIABLES
    pool_state,     \* "empty", "full" or the worker taking a snapshot
    max_workers,    \* my_max_num_workers
    mandatory,      \* my_mandatory_concurrency
    requested,      \* my_num_workers_requested
    allotted,       \* my_num_workers_allotted
    stream,         \* number of tasks in my_task_stream
    spawned,        \* number of tasks in the task pools of the slots
    produced,       \* tasks produced so far
    users,          \* the clients of this arena
    pc,
    op,             \* local: what made the thread advertise new work
    snap,           \* local: the pool state a producer has read
    delta           \* local: the argument of adjust_demand

arena == <<pool_state, max_workers, mandatory>>
demand == <<requested, allotted>>
work  == <<stream, spawned, produced>>
vars  == <<arena, demand, work, users, pc, op, snap, delta>>

InArena(w) == pc[w] # "away"
Active == Cardinality({w \in Worker : InArena(w)})
Smaller(a, b) == IF a < b THEN a ELSE b

Init ==
    /\ pool_state = "empty" /\ mandatory = FALSE
    /\ requested = 0 /\ allotted = 0
    /\ stream = 0 /\ spawned = 0 /\ produced = 0
    /\ \E a \in Arenas : max_workers = a.workers /\ users = a.clients
    /\ pc = [t \in Thread |-> IF t \in Client THEN "idle" ELSE "away"]
    /\ op = [t \in Thread |-> "enqueue"]
    /\ snap = [t \in Thread |-> "full"]
    /\ delta = [t \in Thread |-> 0]

Goto(t, from, to) == pc[t] = from /\ pc' = [pc EXCEPT ![t] = to]

(***************************************************************************)
(* Producing work (enqueue_task, local_spawn): a client, or a worker that  *)
(* executes a task.                                                        *)
(***************************************************************************)
MayProduce(t) == /\ produced < MaxTasks
                 /\ (pc[t] = "idle" /\ t \in users) \/ pc[t] = "exec"

Enqueue(t) ==
    /\ MayProduce(t)
    /\ stream' = stream + 1
    /\ produced' = produced + 1
    /\ pc' = [pc EXCEPT ![t] = "enqueued"]
    /\ op' = [op EXCEPT ![t] = "enqueue"]
    /\ UNCHANGED <<arena, demand, spawned, users, snap, delta>>

Spawn(t) ==
    /\ MayProduce(t)
    /\ t \in Inside \cup Worker
    /\ spawned' = spawned + 1
    /\ produced' = produced + 1
    /\ pc' = [pc EXCEPT ![t] = "read"]
    /\ op' = [op EXCEPT ![t] = "spawn"]
    /\ UNCHANGED <<arena, demand, stream, users, snap, delta>>

\* The read of the pool state overtakes the store that publishes the task.
SpawnReadingEarly(t) ==
    /\ MayProduce(t)
    /\ t \in Inside \cup Worker
    /\ produced' = produced + 1
    /\ snap' = [snap EXCEPT ![t] = pool_state]
    /\ pc' = [pc EXCEPT ![t] = "publish"]
    /\ op' = [op EXCEPT ![t] = "spawn"]
    /\ UNCHANGED <<arena, demand, stream, spawned, users, delta>>

(***************************************************************************)
(* advertise_new_work                                                      *)
(***************************************************************************)
Back(t) == IF op[t] = "switchBack" THEN "outOfWork"
           ELSE IF t \in Client THEN "idle" ELSE "exec"

\* Return to the caller, or go on when the condition holds.  Locals that are
\* no longer used are reset.
Return(t, from) == Goto(t, from, Back(t)) /\ op' = [op EXCEPT ![t] = "enqueue"]
GoOnIf(cond, t, from, to) ==
    \/ cond /\ Goto(t, from, to) /\ UNCHANGED op
    \/ ~cond /\ Return(t, from)

Publish(t) ==
    /\ GoOnIf(snap[t] # "full", t, "publish", "swap")
    /\ spawned' = spawned + 1
    /\ UNCHANGED <<arena, demand, stream, produced, users, snap, delta>>

\* An enqueued task gets a worker even where none was planned for.
NeedsNoWorker == FALSE
NeedsMandatoryWorker == max_workers = 0

CheckMandatory(t) ==
    /\ IF NeedsMandatoryWorker
       THEN /\ Goto(t, "enqueued", "fill")
            /\ max_workers' = 1
            /\ mandatory' = TRUE
            /\ UNCHANGED pool_state
       ELSE Goto(t, "enqueued", "read") /\ UNCHANGED arena
    /\ UNCHANGED <<demand, work, users, op, snap, delta>>

Fill(t) ==
    /\ Goto(t, "fill", "adjust")
    /\ pool_state' = "full"
    /\ delta' = [delta EXCEPT ![t] = 1]
    /\ UNCHANGED <<max_workers, mandatory, demand, work, users, op, snap>>

ReadState(t) ==
    /\ GoOnIf(pool_state # "full", t, "read", "swap")
    /\ snap' = [snap EXCEPT ![t] = pool_state]
    /\ UNCHANGED <<arena, demand, work, users, delta>>

\* compare_and_swap(SNAPSHOT_FULL, snapshot), whose result may be "empty"
\* though the comparand was the mark of a worker
Swap(t) ==
    /\ GoOnIf(pool_state = "empty", t, "swap",
              IF snap[t] = "empty" THEN "won" ELSE "swapEmpty")
    /\ pool_state' = IF pool_state = snap[t] THEN "full" ELSE pool_state
    /\ snap' = [snap EXCEPT ![t] = "full"]
    /\ UNCHANGED <<max_workers, mandatory, demand, work, users, delta>>

SwapEmpty(t) ==
    /\ GoOnIf(pool_state = "empty", t, "swapEmpty", "won")
    /\ pool_state' = IF pool_state = "empty" THEN "full" ELSE pool_state
    /\ UNCHANGED <<max_workers, mandatory, demand, work, users, snap, delta>>

\* The thread that moved the state from empty to full: a spawn ends mandatory
\* concurrency, anything else raises the demand.
Won(t) ==
    /\ IF op[t] = "spawn" /\ mandatory
       THEN /\ Return(t, "won")
            /\ max_workers' = 0
            /\ mandatory' = FALSE
            /\ UNCHANGED delta
       ELSE /\ Goto(t, "won", "adjust")
            /\ delta' = [delta EXCEPT ![t] = max_workers]
            /\ UNCHANGED <<max_workers, mandatory, op>>
    /\ UNCHANGED <<pool_state, demand, work, users, snap>>

(***************************************************************************)
(* market::adjust_demand, with this the only arena that has a demand       *)
(***************************************************************************)
AdjustDemandUnclamped(d) ==
    /\ requested' = requested + d
    /\ allotted' = IF d = 0 THEN allotted
                   ELSE Smaller(Smaller(requested + d, Cardinality(Worker)), max_workers)

AdjustDemand(d) ==
    /\ requested' = requested + d
    /\ allotted' = IF d = 0 THEN allotted
                   ELSE IF requested + d <= 0 THEN 0
                   ELSE Smaller(Smaller(requested + d, Cardinality(Worker)), max_workers)

AdjustUp(t) ==
    /\ Return(t, "adjust")
    /\ AdjustDemand(delta[t])
    /\ delta' = [delta EXCEPT ![t] = 0]
    /\ UNCHANGED <<arena, work, users, snap>>

(***************************************************************************)
(* A worker: arena_in_need, process, receive_or_steal_task                 *)
(***************************************************************************)
EnterArena(w) ==
    /\ Goto(w, "away", "seek")
    /\ Active < allotted
    /\ UNCHANGED <<arena, demand, work, users, op, snap, delta>>

Revoked(w) ==
    /\ Goto(w, "seek", "outOfWork")
    /\ allotted < Active
    /\ UNCHANGED <<arena, demand, work, users, op, snap, delta>>

TakeEnqueued(w) ==
    /\ Goto(w, "seek", "exec")
    /\ allotted >= Active
    /\ stream > 0
    /\ stream' = stream - 1
    /\ UNCHANGED <<arena, demand, spawned, produced, users, op, snap, delta>>

Steal(w) ==
    /\ Goto(w, "seek", "exec")
    /\ allotted >= Active
    /\ stream = 0
    /\ spawned > 0
    /\ spawned' = spawned - 1
    /\ UNCHANGED <<arena, demand, stream, produced, users, op, snap, delta>>

\* No task was found, the pool of a random victim was empty.
FindNothing(w) ==
    /\ Goto(w, "seek", "look")
    /\ allotted >= Active
    /\ stream = 0
    /\ UNCHANGED <<arena, demand, work, users, op, snap, delta>>

Finish(w) ==
    /\ Goto(w, "exec", "seek")
    /\ UNCHANGED <<arena, demand, work, users, op, snap, delta>>

\* arena::process stays while there are not more workers than allotted.
OutOfWork(w) ==
    /\ Goto(w, "outOfWork", IF Active > allotted THEN "leaving" ELSE "seek")
    /\ UNCHANGED <<arena, demand, work, users, op, snap, delta>>

LeaveArena(w) ==
    /\ Goto(w, "leaving", "away")
    /\ UNCHANGED <<arena, demand, work, users, op, snap, delta>>

(***************************************************************************)
(* is_out_of_work                                                          *)
(***************************************************************************)
Look(w) ==
    /\ Goto(w, "look", CASE pool_state = "empty" -> "outOfWork"
                         [] pool_state = "full"  -> "mark"
                         [] OTHER                -> "seek")
    /\ UNCHANGED <<arena, demand, work, users, op, snap, delta>>

Mark(w) ==
    /\ Goto(w, "mark", IF pool_state = "full" THEN "scan" ELSE "seek")
    /\ pool_state' = IF pool_state = "full" THEN w ELSE pool_state
    /\ UNCHANGED <<max_workers, mandatory, demand, work, users, op, snap, delta>>

\* The slots are visited one by one; a task that is published behind the scan
\* is as one published after this step.
ScanPools(w) ==
    /\ Goto(w, "scan", IF spawned > 0 THEN "undo"
                       ELSE IF pool_state # w THEN "seek" ELSE "test")
    /\ UNCHANGED <<arena, demand, work, users, op, snap, delta>>

\* my_task_stream.empty()
\* Mutated form: enqueued tasks do not count.
StreamIgnored == TRUE
NoFifoTasks == stream = 0

Test(w) ==
    /\ Goto(w, "test", IF pool_state # w THEN "seek"
                       ELSE IF NoFifoTasks THEN "setEmpty" ELSE "undo")
    /\ delta' = [delta EXCEPT ![w] = IF pc'[w] = "setEmpty" THEN max_workers ELSE 0]
    /\ UNCHANGED <<arena, demand, work, users, op, snap>>

\* The swap fails when work has been advertised since the mark was set.
MarkIgnored(w) == TRUE
StillMarked(w) == pool_state = w

SetEmpty(w) ==
    /\ Goto(w, "setEmpty", IF StillMarked(w) THEN "adjustDown" ELSE "seek")
    /\ pool_state' = IF StillMarked(w) THEN "empty" ELSE pool_state
    /\ delta' = [delta EXCEPT ![w] = IF StillMarked(w) THEN @ ELSE 0]
    /\ UNCHANGED <<max_workers, mandatory, demand, work, users, op, snap>>

Undo(w) ==
    /\ Goto(w, "undo", "seek")
    /\ pool_state' = IF pool_state = w THEN "full" ELSE pool_state
    /\ UNCHANGED <<max_workers, mandatory, demand, work, users, op, snap, delta>>

\* The demand as it was before the state became empty is given back.
NothingGivenBack(w) == 0
CurrentDemandGivenBack(w) == max_workers
GivenBack(w) == delta[w]

AdjustDown(w) ==
    /\ Goto(w, "adjustDown", "switchBack")
    /\ AdjustDemand(-GivenBack(w))
    /\ delta' = [delta EXCEPT ![w] = 0]
    /\ UNCHANGED <<arena, work, users, op, snap>>

\* Tasks enqueued in the meantime are advertised again.
SwitchBack(w) ==
    /\ Goto(w, "switchBack", IF stream > 0 THEN "enqueued" ELSE "outOfWork")
    /\ op' = [op EXCEPT ![w] = IF stream > 0 THEN "switchBack" ELSE @]
    /\ UNCHANGED <<arena, demand, work, users, snap, delta>>

\* The client in the master slot executes a task of a pool, or, being at its
\* outermost level, one of the stream.
TakeAsMaster(c) ==
    /\ c \in users \cap Inside
    /\ pc[c] = "idle"
    /\ \/ spawned > 0 /\ spawned' = spawned - 1 /\ UNCHANGED stream
       \/ stream > 0 /\ stream' = stream - 1 /\ UNCHANGED spawned
    /\ UNCHANGED <<arena, demand, produced, users, pc, op, snap, delta>>

Advertise(t) ==
    \/ Publish(t) \/ CheckMandatory(t) \/ Fill(t) \/ ReadState(t) \/ Swap(t)
    \/ SwapEmpty(t) \/ Won(t) \/ AdjustUp(t)

WorkerStep(w) ==
    \/ EnterArena(w) \/ Revoked(w) \/ TakeEnqueued(w) \/ Steal(w) \/ FindNothing(w)
    \/ Finish(w) \/ OutOfWork(w) \/ LeaveArena(w) \/ Look(w) \/ Mark(w) \/ ScanPools(w)
    \/ Test(w) \/ SetEmpty(w) \/ Undo(w) \/ AdjustDown(w) \/ SwitchBack(w)

Next ==
    \/ \E t \in Thread : Enqueue(t) \/ Spawn(t) \/ SpawnReadingEarly(t) \/ Advertise(t)
    \/ \E w \in Worker : WorkerStep(w)
    \/ \E c \in Client : TakeAsMaster(c)

\* Threads are scheduled; clients need not produce, nor execute tasks.
Fairness == /\ \A t \in Thread : WF_vars(Advertise(t))
            /\ \A w \in Worker : WF_vars(WorkerStep(w))

Spec == Init /\ [][Next]_vars /\ Fairness

(***************************************************************************)
(* Properties                                                              *)
(***************************************************************************)
TypeOK ==
    /\ pool_state \in {"empty", "full"} \cup Worker
    /\ max_workers \in Nat /\ mandatory \in BOOLEAN
    /\ requested \in Int /\ allotted \in 0 .. Cardinality(Worker)
    /\ stream \in Nat /\ spawned \in Nat /\ produced \in 0 .. MaxTasks
    /\ users \subseteq Client
    /\ pc \in [Thread -> {"idle", "away", "seek", "exec", "look", "mark", "scan", "test",
                          "setEmpty", "undo", "adjustDown", "switchBack", "outOfWork",
                          "leaving", "publish", "enqueued", "fill", "read", "swap",
                          "swapEmpty", "won", "adjust"}]
    /\ op \in [Thread -> {"enqueue", "spawn", "switchBack"}]
    /\ snap \in [Thread -> {"empty", "full"} \cup Worker]
    /\ delta \in [Thread -> Nat]

\* Demand that a thread is about to give or take back.
Owed(t) == CASE pc[t] = "won" -> max_workers
             [] pc[t] = "adjust" -> delta[t]
             [] pc[t] = "adjustDown" -> -delta[t]
             [] pc[t] = "fill" -> IF pool_state = "empty" THEN 0 ELSE 1
             [] OTHER -> 0

TotalOwed == SumFunction([t \in Thread |-> Owed(t)])

\* The books of the market balance: once the calls of adjust_demand that are
\* under way are done, the arena requests my_max_num_workers workers exactly
\* when its state is not SNAPSHOT_EMPTY, whoever moved the state, however the
\* calls are reordered, and however mandatory concurrency came and went; and
\* no allotment leaves its range.
DemandBalanced ==
    /\ TypeOK
    /\ requested + TotalOwed = IF pool_state = "empty" THEN 0 ELSE max_workers

\* No wakeup is missed: while an enqueued task waits, some worker is allotted
\* to the arena, or the thread that will see to it is at work.
Responsible(t) == pc[t] \in {"publish", "enqueued", "fill", "read", "swap", "swapEmpty",
                             "won", "adjust", "mark", "scan", "test", "setEmpty", "undo",
                             "adjustDown", "switchBack"}
NoMissedWakeup == stream > 0 => (allotted > 0 \/ \E t \in Thread : Responsible(t))

\* A task that was enqueued is executed, whatever the clients do afterwards.
EnqueuedExecuted == stream > 0 ~> stream = 0

\* An arena left without work gives back all its workers.
WorkersGivenBack == <>[](stream = 0 /\ spawned = 0) => <>[](Active = 0 /\ requested = 0)
=============================================================================
