------------------------- MODULE ArenaDemandProofs -------------------------
(***************************************************************************)
(* The demand of an arena balances and no enqueued task misses its wakeup, *)
(* for any threads, arenas and number of tasks.  What threads owe the      *)
(* market is a sum over all threads (SumTheorems); a step changes what one *)
(* thread owes, by as much as it changes the pool state or the demand.     *)
(*                                                                         *)
(* Arenas with workers of their own and arenas without behave differently  *)
(* (mandatory concurrency), so that the invariant has two cases.           *)
(***************************************************************************)
EXTENDS ArenaDemand, SumTheorems

\* An arena without workers of its own has one client.  With two, a spawn of
\* one may end the mandatory concurrency that the other has just begun
\* (arena.h, advertise_new_work), and neither theorem below holds.
OneClient == \A a \in Arenas : a.workers = 0 => \A c, d \in a.clients : c = d

(***************************************************************************)
(* The inductive invariant                                                 *)
(***************************************************************************)
\* What is requested and what is owed makes up what the pool state calls for.
Pending(S) == requested + S = IF pool_state = "empty" THEN 0 ELSE max_workers
Books == Pending(TotalOwed)

\* Where a thread can be with what it has in hand.
Places ==
    /\ \A c \in Client :
        /\ pc[c] \in {"idle", "publish", "enqueued", "fill", "read", "swap", "swapEmpty", "won", "adjust"}
        /\ op[c] # "switchBack"
        /\ c \notin users => pc[c] = "idle"
    /\ \A w \in Worker : pc[w] # "idle"
    /\ \A t \in Thread : pc[t] \in {"enqueued", "fill"} => op[t] # "spawn"
    /\ \A w \in Worker : pool_state = w => pc[w] \in {"scan", "test", "setEmpty", "undo"}
    /\ \A w \in Worker : pc[w] \in {"setEmpty", "adjustDown"} => delta[w] \in Nat

\* What adjust_demand allots to the only arena.
Allotment == IF requested <= 0 THEN 0
             ELSE Smaller(Smaller(requested, Cardinality(Worker)), max_workers)
\* Whoever is to see to it that what was enqueued while the state is empty is
\* advertised.
Advertising == {"adjustDown", "switchBack", "enqueued", "read", "swap", "swapEmpty"}
Advertised == pool_state = "empty" /\ stream > 0 => \E t \in Thread : pc[t] \in Advertising
\* An arena with workers of its own never needs mandatory concurrency.
ServedWell ==
    /\ max_workers >= 1 /\ mandatory = FALSE
    /\ \A t \in Thread : pc[t] # "fill"
    /\ \A t \in Thread : pc[t] \in {"adjust", "setEmpty", "adjustDown"} => delta[t] = max_workers
    /\ allotted = Allotment
Served == ServedWell /\ Advertised

\* A thread that raises the demand, a worker that does so again after it has
\* given it back, a worker that works or looks for work, and a client whose
\* enqueued task is still to be advertised.
Up(t) == pc[t] \in {"fill", "won", "adjust"}
Again(w) == pc[w] \in {"enqueued", "read", "swap", "swapEmpty"} /\ op[w] = "switchBack"
Busy(w) ==
    \/ pc[w] \in {"seek", "look", "mark", "scan", "test", "setEmpty", "undo", "exec", "publish"}
    \/ pc[w] \in {"enqueued", "read"} /\ op[w] # "switchBack"
Enqueuing(c) == pc[c] \in {"enqueued", "fill", "read", "swap", "swapEmpty"} /\ op[c] # "spawn"

\* An arena without workers of its own: it has one while tasks are enqueued.
LoneLimits ==
    /\ max_workers \in {0, 1} /\ mandatory = (max_workers = 1)
    /\ requested >= 0
    /\ allotted = IF requested = 0 THEN 0 ELSE Smaller(1, Cardinality(Worker))
    /\ \A c, d \in users : c = d
    /\ \A v, w \in Worker : InArena(v) /\ InArena(w) => v = w
WorkerFits(w) ==
    /\ Busy(w) => max_workers = 1 /\ pool_state # "empty" /\ \A c \in Client : ~Up(c)
    /\ pc[w] \in {"fill", "swap", "swapEmpty", "won", "adjust"} => op[w] = "switchBack"
    /\ pc[w] = "publish" => snap[w] = "full"
    /\ pc[w] \in {"setEmpty", "adjustDown"} => delta[w] = 1
    /\ pc[w] = "adjustDown" => requested >= 1
    /\ max_workers = 0 => /\ \/ pc[w] \in {"away", "adjustDown", "switchBack", "outOfWork", "leaving"}
                             \/ pc[w] = "enqueued" /\ op[w] = "switchBack"
                          /\ pool_state = "empty" => pc[w] = "away"
    /\ Again(w) => /\ pool_state = "empty" => \E c \in users : Enqueuing(c)
                   /\ \A c \in Client : Up(c) => op[c] # "spawn"
LoneWorker == \A w \in Worker : WorkerFits(w)
LoneUp ==
    /\ \A t, u \in Thread : Up(t) /\ Up(u) => t = u
    /\ \A t \in Thread :
        /\ pc[t] = "fill" => max_workers = 1
        /\ pc[t] = "adjust" => delta[t] = max_workers
        /\ pc[t] = "adjust" /\ op[t] = "spawn" => max_workers = 0
        /\ pc[t] = "won" /\ op[t] = "spawn" => stream = 0
        /\ pool_state = "empty" => pc[t] \notin {"won", "adjust"}
        /\ Up(t) /\ (max_workers = 0 \/ pool_state = "empty") => \A w \in Worker : pc[w] = "away"
LoneStream ==
    /\ pool_state = "empty" /\ stream > 0 => \E c \in users : Enqueuing(c)
    /\ \A w \in Worker : pool_state = w /\ pc[w] = "setEmpty" /\ stream > 0 =>
          \E c \in users :
              /\ op[c] # "spawn"
              /\ pc[c] \in {"enqueued", "read", "swap"}
              /\ pc[c] = "swap" => snap[c] = w
    /\ max_workers = 0 /\ stream > 0 => \E c \in users : pc[c] = "enqueued"
Lone == LoneLimits /\ LoneWorker /\ LoneUp /\ LoneStream

IInv == TypeOK /\ Books /\ Places /\ (Served \/ Lone)

\* The assumptions in a form the provers use.
LEMMA Threads == ASSUME Assumptions PROVE
    /\ Client \cap Worker = {} /\ Inside \subseteq Client
    /\ MaxTasks \in Nat /\ IsFiniteSet(Thread)
    /\ IsFiniteSet(Worker) /\ Cardinality(Worker) \in Nat
    /\ "empty" \notin Worker /\ "full" \notin Worker
<1>1. Client \cap Worker = {} /\ Inside \subseteq Client /\ MaxTasks \in Nat /\ IsFiniteSet(Thread)
  BY DEF Assumptions
<1>2. Worker \in SUBSET Thread
  BY DEF Thread
<1>3. IsFiniteSet(Worker)
  BY <1>1, <1>2, FS_Subset
<1>4. "empty" \notin Worker /\ "full" \notin Worker
  BY DEF Assumptions
<1> QED BY <1>1, <1>3, <1>4, FS_CardinalityType

\* Every variable keeps its type.
LEMMA TypeStep ==
    ASSUME Assumptions, TypeOK, Places, Next
    PROVE  TypeOK'
<1>1. ASSUME NEW t \in Thread, Enqueue(t) PROVE TypeOK'
  BY <1>1, Threads, TypeOK DEF Enqueue, MayProduce, arena, demand, Thread, TypeOK, Places
<1>2. ASSUME NEW t \in Thread, Spawn(t) PROVE TypeOK'
  BY <1>2, Threads, TypeOK DEF Spawn, MayProduce, arena, demand, Thread, TypeOK, Places
<1>3. ASSUME NEW t \in Thread, SpawnReadingEarly(t) PROVE TypeOK'
  BY <1>3, Threads, TypeOK DEF SpawnReadingEarly, MayProduce, arena, demand, Thread,
     TypeOK, Places
<1>4. ASSUME NEW t \in Thread, Publish(t) PROVE TypeOK'
  BY <1>4, Threads, TypeOK DEF Publish, Goto, GoOnIf, Return, Back, arena, demand,
     Thread, TypeOK, Places
<1>5. ASSUME NEW t \in Thread, CheckMandatory(t) PROVE TypeOK'
  <2>1. CASE max_workers = 0
    BY <1>5, <2>1, Threads, TypeOK DEF CheckMandatory, Goto, NeedsMandatoryWorker,
       demand, work, TypeOK
  <2>2. CASE max_workers # 0
    BY <1>5, <2>2, Threads, TypeOK DEF CheckMandatory, Goto, NeedsMandatoryWorker,
       arena, demand, work, TypeOK
  <2> QED BY <2>1, <2>2
<1>6. ASSUME NEW t \in Thread, Fill(t) PROVE TypeOK'
  BY <1>6, Threads, TypeOK DEF Fill, Goto, demand, work, Thread, TypeOK, Places
<1>7. ASSUME NEW t \in Thread, ReadState(t) PROVE TypeOK'
  BY <1>7, Threads, TypeOK DEF ReadState, Goto, GoOnIf, Return, Back, arena, demand,
     work, Thread, TypeOK, Places
<1>8. ASSUME NEW t \in Thread, Swap(t) PROVE TypeOK'
  BY <1>8, Threads, TypeOK DEF Swap, Goto, GoOnIf, Return, Back, demand, work, Thread,
     TypeOK, Places
<1>9. ASSUME NEW t \in Thread, SwapEmpty(t) PROVE TypeOK'
  BY <1>9, Threads, TypeOK DEF SwapEmpty, Goto, GoOnIf, Return, Back, demand, work,
     Thread, TypeOK, Places
<1>10. ASSUME NEW t \in Thread, Won(t) PROVE TypeOK'
  <2>1. CASE op[t] = "spawn" /\ mandatory
    <3>1. mandatory' = FALSE /\ max_workers' = 0 /\ UNCHANGED <<delta, pool_state, demand, work, users, snap>>
      BY <1>10, <2>1 DEF Won
    <3>2. pc' = [pc EXCEPT ![t] = Back(t)] /\ op' = [op EXCEPT ![t] = "enqueue"]
      BY <1>10, <2>1 DEF Won, Return, Goto
    <3> QED BY <3>1, <3>2, TypeOK DEF Back, Thread, demand, work, TypeOK
  <2>2. CASE ~(op[t] = "spawn" /\ mandatory)
    BY <1>10, <2>2, Threads, TypeOK DEF Won, Goto, demand, work, TypeOK
  <2> QED BY <2>1, <2>2
<1>11. ASSUME NEW t \in Thread, AdjustUp(t) PROVE TypeOK'
  BY <1>11, Threads, TypeOK DEF AdjustUp, Goto, Return, Back, AdjustDemand, Smaller,
     arena, work, Thread, TypeOK, Places
<1>12. ASSUME NEW w \in Worker, EnterArena(w) PROVE TypeOK'
  BY <1>12, Threads, TypeOK DEF EnterArena, Goto, arena, demand, work, Thread, TypeOK,
     Places
<1>13. ASSUME NEW w \in Worker, Revoked(w) PROVE TypeOK'
  BY <1>13, Threads, TypeOK DEF Revoked, Goto, arena, demand, work, Thread, TypeOK, Places
<1>14. ASSUME NEW w \in Worker, TakeEnqueued(w) PROVE TypeOK'
  BY <1>14, Threads, TypeOK DEF TakeEnqueued, Goto, arena, demand, Thread, TypeOK, Places
<1>15. ASSUME NEW w \in Worker, Steal(w) PROVE TypeOK'
  BY <1>15, Threads, TypeOK DEF Steal, Goto, arena, demand, Thread, TypeOK, Places
<1>16. ASSUME NEW w \in Worker, FindNothing(w) PROVE TypeOK'
  BY <1>16, Threads, TypeOK DEF FindNothing, Goto, arena, demand, work, Thread, TypeOK,
     Places
<1>17. ASSUME NEW w \in Worker, Finish(w) PROVE TypeOK'
  BY <1>17, Threads, TypeOK DEF Finish, Goto, arena, demand, work, Thread, TypeOK, Places
<1>18. ASSUME NEW w \in Worker, OutOfWork(w) PROVE TypeOK'
  BY <1>18, Threads, TypeOK DEF OutOfWork, Goto, arena, demand, work, Thread, TypeOK, Places
<1>19. ASSUME NEW w \in Worker, LeaveArena(w) PROVE TypeOK'
  BY <1>19, Threads, TypeOK DEF LeaveArena, Goto, arena, demand, work, Thread, TypeOK,
     Places
<1>20. ASSUME NEW w \in Worker, Look(w) PROVE TypeOK'
  BY <1>20, Threads, TypeOK DEF Look, Goto, arena, demand, work, Thread, TypeOK, Places
<1>21. ASSUME NEW w \in Worker, Mark(w) PROVE TypeOK'
  BY <1>21, Threads, TypeOK DEF Mark, Goto, demand, work, Thread, TypeOK, Places
<1>22. ASSUME NEW w \in Worker, ScanPools(w) PROVE TypeOK'
  BY <1>22, Threads, TypeOK DEF ScanPools, Goto, arena, demand, work, Thread, TypeOK, Places
<1>23. ASSUME NEW w \in Worker, Test(w) PROVE TypeOK'
  BY <1>23, Threads, TypeOK DEF Test, Goto, NoFifoTasks, arena, demand, work, Thread,
     TypeOK, Places
<1>24. ASSUME NEW w \in Worker, SetEmpty(w) PROVE TypeOK'
  BY <1>24, Threads, TypeOK DEF SetEmpty, Goto, StillMarked, demand, work, Thread,
     TypeOK, Places
<1>25. ASSUME NEW w \in Worker, Undo(w) PROVE TypeOK'
  BY <1>25, Threads, TypeOK DEF Undo, Goto, demand, work, Thread, TypeOK, Places
<1>26. ASSUME NEW w \in Worker, AdjustDown(w) PROVE TypeOK'
  BY <1>26, Threads, TypeOK DEF AdjustDown, Goto, AdjustDemand, GivenBack, Smaller,
     arena, work, Thread, TypeOK, Places
<1>27. ASSUME NEW w \in Worker, SwitchBack(w) PROVE TypeOK'
  BY <1>27, Threads, TypeOK DEF SwitchBack, Goto, arena, demand, work, Thread, TypeOK,
     Places
<1>28. ASSUME NEW c \in Client, TakeAsMaster(c) PROVE TypeOK'
  BY <1>28, Threads, TypeOK DEF TakeAsMaster, arena, demand, Thread, TypeOK, Places
<1> QED BY <1>1, <1>2, <1>3, <1>4, <1>5, <1>6, <1>7, <1>8, <1>9, <1>10, <1>11, <1>12, <1>13, <1>14, <1>15, <1>16, <1>17, <1>18, <1>19, <1>20, <1>21, <1>22, <1>23, <1>24, <1>25, <1>26, <1>27, <1>28, Next DEF Next, Advertise, WorkerStep
\* Every thread stays where it can be with what it has in hand.
LEMMA PlacesStep ==
    ASSUME Assumptions, TypeOK, Places, Next
    PROVE  Places'
<1>1. ASSUME NEW t \in Thread, Enqueue(t) PROVE Places'
  BY <1>1, Threads, TypeOK, Places DEF Enqueue, MayProduce, arena, demand, Thread,
     TypeOK, Places
<1>2. ASSUME NEW t \in Thread, Spawn(t) PROVE Places'
  BY <1>2, Threads, TypeOK, Places DEF Spawn, MayProduce, arena, demand, Thread, TypeOK,
     Places
<1>3. ASSUME NEW t \in Thread, SpawnReadingEarly(t) PROVE Places'
  BY <1>3, Threads, TypeOK, Places DEF SpawnReadingEarly, MayProduce, arena, demand,
     Thread, TypeOK, Places
<1>4. ASSUME NEW t \in Thread, Publish(t) PROVE Places'
  BY <1>4, Threads, TypeOK, Places DEF Publish, Goto, GoOnIf, Return, Back, arena,
     demand, Thread, TypeOK, Places
<1>5. ASSUME NEW t \in Thread, CheckMandatory(t) PROVE Places'
  BY <1>5, Threads, TypeOK, Places DEF CheckMandatory, Goto, NeedsMandatoryWorker,
     arena, demand, work, Thread, TypeOK, Places
<1>6. ASSUME NEW t \in Thread, Fill(t) PROVE Places'
  BY <1>6, Threads, TypeOK, Places DEF Fill, Goto, demand, work, Thread, TypeOK, Places
<1>7. ASSUME NEW t \in Thread, ReadState(t) PROVE Places'
  BY <1>7, Threads, TypeOK, Places DEF ReadState, Goto, GoOnIf, Return, Back, arena,
     demand, work, Thread, TypeOK, Places
<1>8. ASSUME NEW t \in Thread, Swap(t) PROVE Places'
  BY <1>8, Threads, TypeOK, Places DEF Swap, Goto, GoOnIf, Return, Back, demand, work,
     Thread, TypeOK, Places
<1>9. ASSUME NEW t \in Thread, SwapEmpty(t) PROVE Places'
  BY <1>9, Threads, TypeOK, Places DEF SwapEmpty, Goto, GoOnIf, Return, Back, demand,
     work, Thread, TypeOK, Places
<1>10. ASSUME NEW t \in Thread, Won(t) PROVE Places'
  BY <1>10, Threads, TypeOK, Places DEF Won, Goto, Return, Back, demand, work, Thread,
     TypeOK, Places
<1>11. ASSUME NEW t \in Thread, AdjustUp(t) PROVE Places'
  BY <1>11, Threads, TypeOK, Places DEF AdjustUp, Goto, Return, Back, AdjustDemand,
     Smaller, arena, work, Thread, TypeOK, Places
<1>12. ASSUME NEW w \in Worker, EnterArena(w) PROVE Places'
  BY <1>12, Threads, TypeOK, Places DEF EnterArena, Goto, arena, demand, work, Thread,
     TypeOK, Places
<1>13. ASSUME NEW w \in Worker, Revoked(w) PROVE Places'
  BY <1>13, Threads, TypeOK, Places DEF Revoked, Goto, arena, demand, work, Thread,
     TypeOK, Places
<1>14. ASSUME NEW w \in Worker, TakeEnqueued(w) PROVE Places'
  BY <1>14, Threads, TypeOK, Places DEF TakeEnqueued, Goto, arena, demand, Thread,
     TypeOK, Places
<1>15. ASSUME NEW w \in Worker, Steal(w) PROVE Places'
  BY <1>15, Threads, TypeOK, Places DEF Steal, Goto, arena, demand, Thread, TypeOK, Places
<1>16. ASSUME NEW w \in Worker, FindNothing(w) PROVE Places'
  BY <1>16, Threads, TypeOK, Places DEF FindNothing, Goto, arena, demand, work, Thread,
     TypeOK, Places
<1>17. ASSUME NEW w \in Worker, Finish(w) PROVE Places'
  BY <1>17, Threads, TypeOK, Places DEF Finish, Goto, arena, demand, work, Thread,
     TypeOK, Places
<1>18. ASSUME NEW w \in Worker, OutOfWork(w) PROVE Places'
  BY <1>18, Threads, TypeOK, Places DEF OutOfWork, Goto, arena, demand, work, Thread,
     TypeOK, Places
<1>19. ASSUME NEW w \in Worker, LeaveArena(w) PROVE Places'
  BY <1>19, Threads, TypeOK, Places DEF LeaveArena, Goto, arena, demand, work, Thread,
     TypeOK, Places
<1>20. ASSUME NEW w \in Worker, Look(w) PROVE Places'
  BY <1>20, Threads, TypeOK, Places DEF Look, Goto, arena, demand, work, Thread, TypeOK,
     Places
<1>21. ASSUME NEW w \in Worker, Mark(w) PROVE Places'
  BY <1>21, Threads, TypeOK, Places DEF Mark, Goto, demand, work, Thread, TypeOK, Places
<1>22. ASSUME NEW w \in Worker, ScanPools(w) PROVE Places'
  BY <1>22, Threads, TypeOK, Places DEF ScanPools, Goto, arena, demand, work, Thread,
     TypeOK, Places
<1>23. ASSUME NEW w \in Worker, Test(w) PROVE Places'
  BY <1>23, Threads, TypeOK, Places DEF Test, Goto, NoFifoTasks, arena, demand, work,
     Thread, TypeOK, Places
<1>24. ASSUME NEW w \in Worker, SetEmpty(w) PROVE Places'
  BY <1>24, Threads, TypeOK, Places DEF SetEmpty, Goto, StillMarked, demand, work,
     Thread, TypeOK, Places
<1>25. ASSUME NEW w \in Worker, Undo(w) PROVE Places'
  BY <1>25, Threads, TypeOK, Places DEF Undo, Goto, demand, work, Thread, TypeOK, Places
<1>26. ASSUME NEW w \in Worker, AdjustDown(w) PROVE Places'
  BY <1>26, Threads, TypeOK, Places DEF AdjustDown, Goto, AdjustDemand, GivenBack,
     Smaller, arena, work, Thread, TypeOK, Places
<1>27. ASSUME NEW w \in Worker, SwitchBack(w) PROVE Places'
  BY <1>27, Threads, TypeOK, Places DEF SwitchBack, Goto, arena, demand, work, Thread,
     TypeOK, Places
<1>28. ASSUME NEW c \in Client, TakeAsMaster(c) PROVE Places'
  BY <1>28, Threads, TypeOK, Places DEF TakeAsMaster, arena, demand, Thread, TypeOK, Places
<1> QED BY <1>1, <1>2, <1>3, <1>4, <1>5, <1>6, <1>7, <1>8, <1>9, <1>10, <1>11, <1>12, <1>13, <1>14, <1>15, <1>16, <1>17, <1>18, <1>19, <1>20, <1>21, <1>22, <1>23, <1>24, <1>25, <1>26, <1>27, <1>28, Next DEF Next, Advertise, WorkerStep

(***************************************************************************)
(* The books                                                               *)
(***************************************************************************)
Owing == {"won", "adjust", "adjustDown", "fill"}

\* What a thread owes is a number of workers.
LEMMA OwedType == ASSUME TypeOK PROVE \A u \in Thread : Owed(u) \in Int
  BY DEF TypeOK, Owed
LEMMA OwedTypeNext == ASSUME TypeOK' PROVE \A u \in Thread : Owed(u)' \in Int
  BY DEF TypeOK, Owed

\* When what one thread owes changes, the total changes by as much.
LEMMA OneOwes ==
    ASSUME Assumptions, TypeOK, TypeOK', NEW t \in Thread,
           \A u \in Thread \ {t} : Owed(u)' = Owed(u)
    PROVE  TotalOwed \in Int /\ TotalOwed' = TotalOwed + Owed(t)' - Owed(t)
<1>1. IsFiniteSet(Thread)
  BY Threads
<1>2. PICK f : f = [u \in Thread |-> Owed(u)]
  OBVIOUS
<1>3. PICK g : g = [u \in Thread |-> Owed(u)']
  OBVIOUS
<1>4. DOMAIN f = Thread /\ DOMAIN g = Thread /\ \A u \in Thread : f[u] = Owed(u) /\ g[u] = Owed(u)'
  BY <1>2, <1>3
<1>5. \A u \in Thread : f[u] \in Int /\ g[u] \in Int
  BY <1>4, OwedType, OwedTypeNext
<1>6. \A u \in Thread \ {t} : f[u] = g[u]
  BY <1>4
<1>7. SumFunction(g) = SumFunction(f) + g[t] - f[t]
  BY <1>1, <1>4, <1>5, <1>6, SumChange
<1>8. SumFunction(f) \in Int
  BY <1>1, <1>4, <1>5, SumType
<1>9. TotalOwed = SumFunction(f) /\ TotalOwed' = SumFunction(g)
  BY <1>2, <1>3 DEF TotalOwed
<1> QED BY <1>4, <1>7, <1>8, <1>9

\* A step between places where nothing is owed keeps the books.
LEMMA NothingOwed ==
    ASSUME Assumptions, TypeOK, TypeOK', Books, NEW t \in Thread,
           pc[t] \notin Owing, pc'[t] \notin Owing,
           \A u \in Thread \ {t} : pc'[u] = pc[u] /\ delta'[u] = delta[u],
           max_workers' = max_workers, requested' = requested,
           (pool_state = "empty") <=> (pool_state' = "empty")
    PROVE  Books'
<1>1. Owed(t) = 0 /\ Owed(t)' = 0
  BY DEF Owed, Owing
<1>2. ASSUME NEW u \in Thread \ {t} PROVE Owed(u)' = Owed(u)
  <2>1. pc'[u] = pc[u] /\ delta'[u] = delta[u]
    BY <1>2
  <2> QED BY <2>1 DEF Owed
<1>3. TotalOwed \in Int /\ TotalOwed' = TotalOwed
  BY <1>1, <1>2, OneOwes
<1> QED BY <1>3 DEF Books, Pending

\* What keeps the books in order: nobody else is at the point of raising the
\* demand when a thread does something about it.
Orderly ==
    /\ \A t, u \in Thread : max_workers = 0 /\ pc[t] = "enqueued" => pc[u] # "won"
    /\ \A t, u \in Thread : pc[t] = "fill" => max_workers = 1 /\ (pc[u] = "fill" => t = u)
    /\ \A t, u \in Thread : pool_state = "empty" /\ pc[t] \in {"swap", "swapEmpty"} => pc[u] # "fill"
    /\ \A w \in Worker, u \in Thread : pc[w] = "setEmpty" => delta[w] = max_workers /\ pc[u] # "fill"
    /\ \A t, u \in Thread : pc[t] = "won" /\ mandatory =>
          max_workers = 1 /\ pool_state # "empty" /\ (pc[u] = "won" => t = u)

\* Every step keeps the books.
LEMMA BooksStep ==
    ASSUME Assumptions, TypeOK, TypeOK', Places, Orderly, Books, Next
    PROVE  Books'
<1>1. ASSUME NEW t \in Thread, Enqueue(t) PROVE Books'
  <2>1. pc[t] \notin Owing /\ pc'[t] \notin Owing
    BY <1>1, Threads, TypeOK, Places DEF Enqueue, Goto, arena, demand, work, vars,
       Thread, Owing, TypeOK, MayProduce, Places
  <2>2. /\ \A u \in Thread \ {t} : pc'[u] = pc[u] /\ delta'[u] = delta[u]
        /\ max_workers' = max_workers /\ requested' = requested
        /\ (pool_state = "empty") <=> (pool_state' = "empty")
    BY <1>1, Threads, TypeOK DEF Enqueue, Goto, arena, demand, work, vars, Thread,
       Owing, TypeOK, MayProduce
  <2>3. t \in Thread
    BY <1>1 DEF Thread
  <2> QED BY <2>1, <2>2, <2>3, NothingOwed
<1>2. ASSUME NEW t \in Thread, Spawn(t) PROVE Books'
  <2>1. pc[t] \notin Owing /\ pc'[t] \notin Owing
    BY <1>2, Threads, TypeOK, Places DEF Spawn, Goto, arena, demand, work, vars, Thread,
       Owing, TypeOK, MayProduce, Places
  <2>2. /\ \A u \in Thread \ {t} : pc'[u] = pc[u] /\ delta'[u] = delta[u]
        /\ max_workers' = max_workers /\ requested' = requested
        /\ (pool_state = "empty") <=> (pool_state' = "empty")
    BY <1>2, Threads, TypeOK DEF Spawn, Goto, arena, demand, work, vars, Thread, Owing,
       TypeOK, MayProduce
  <2>3. t \in Thread
    BY <1>2 DEF Thread
  <2> QED BY <2>1, <2>2, <2>3, NothingOwed
<1>3. ASSUME NEW t \in Thread, SpawnReadingEarly(t) PROVE Books'
  <2>1. pc[t] \notin Owing /\ pc'[t] \notin Owing
    BY <1>3, Threads, TypeOK, Places DEF SpawnReadingEarly, Goto, arena, demand, work,
       vars, Thread, Owing, TypeOK, MayProduce, Places
  <2>2. /\ \A u \in Thread \ {t} : pc'[u] = pc[u] /\ delta'[u] = delta[u]
        /\ max_workers' = max_workers /\ requested' = requested
        /\ (pool_state = "empty") <=> (pool_state' = "empty")
    BY <1>3, Threads, TypeOK DEF SpawnReadingEarly, Goto, arena, demand, work, vars,
       Thread, Owing, TypeOK, MayProduce
  <2>3. t \in Thread
    BY <1>3 DEF Thread
  <2> QED BY <2>1, <2>2, <2>3, NothingOwed
<1>4. ASSUME NEW t \in Thread, Publish(t) PROVE Books'
  <2>1. pc[t] \notin Owing /\ pc'[t] \notin Owing
    BY <1>4, Threads, TypeOK, Places DEF Publish, Goto, arena, demand, work, vars,
       Thread, Owing, TypeOK, GoOnIf, Return, Back, Places
  <2>2. /\ \A u \in Thread \ {t} : pc'[u] = pc[u] /\ delta'[u] = delta[u]
        /\ max_workers' = max_workers /\ requested' = requested
        /\ (pool_state = "empty") <=> (pool_state' = "empty")
    BY <1>4, Threads, TypeOK DEF Publish, Goto, arena, demand, work, vars, Thread,
       Owing, TypeOK, GoOnIf, Return, Back
  <2>3. t \in Thread
    BY <1>4 DEF Thread
  <2> QED BY <2>1, <2>2, <2>3, NothingOwed
<1>5. ASSUME NEW t \in Thread, CheckMandatory(t) PROVE Books'
  <2>0. t \in Thread
    BY <1>5 DEF Thread
  <2>1. CASE max_workers = 0
    <3>1. pc[t] = "enqueued"
      BY <1>5, <2>1, <2>0, Threads, TypeOK, Orderly DEF CheckMandatory, Goto,
         NeedsMandatoryWorker, arena, demand, Thread, TypeOK, Orderly
    <3>2. pc'[t] = "fill" /\ max_workers' = 1 /\ UNCHANGED <<pool_state, requested>>
      BY <1>5, <2>1, <2>0, <3>1, Threads, TypeOK, Orderly DEF CheckMandatory, Goto,
         NeedsMandatoryWorker, arena, demand, Thread, Owing, TypeOK, Orderly
    <3>3. Owed(t) = 0 /\ Owed(t)' = IF pool_state = "empty" THEN 0 ELSE 1
      BY <3>1, <3>2 DEF Owed, Owing
    <3>4. ASSUME NEW u \in Thread \ {t} PROVE Owed(u)' = Owed(u)
      <4>1. pc'[u] = pc[u] /\ delta'[u] = delta[u]
        BY <1>5, <2>1, <2>0, TypeOK DEF CheckMandatory, Goto, NeedsMandatoryWorker, TypeOK
      <4>2. pc[u] # "won"
        BY <2>0, <1>5, <2>1, <3>1, Orderly DEF Orderly
      <4> QED BY <3>2, <4>1, <4>2 DEF Owed
    <3>5. TotalOwed \in Int /\ TotalOwed' = TotalOwed + Owed(t)' - Owed(t)
      BY <2>0, <3>4, OneOwes
    <3>6. requested \in Int /\ max_workers \in Nat /\ delta[t] \in Nat
      BY <2>0, TypeOK DEF TypeOK
    <3> QED BY <2>1, <3>1, <3>2, <3>3, <3>5, <3>6 DEF Books, Pending
  <2>2. CASE max_workers # 0
    <3>1. pc[t] \notin Owing /\ pc'[t] \notin Owing
      BY <1>5, <2>2, Threads, TypeOK, Places DEF CheckMandatory, Goto,
         NeedsMandatoryWorker, arena, Thread, Owing, TypeOK, Places
    <3>2. /\ \A u \in Thread \ {t} : pc'[u] = pc[u] /\ delta'[u] = delta[u]
          /\ max_workers' = max_workers /\ requested' = requested
          /\ (pool_state = "empty") <=> (pool_state' = "empty")
      BY <1>5, <2>2, Threads, TypeOK DEF CheckMandatory, Goto, NeedsMandatoryWorker,
         arena, demand, Thread, TypeOK
    <3> QED BY <2>0, <3>1, <3>2, NothingOwed
  <2> QED BY <2>1, <2>2
<1>6. ASSUME NEW t \in Thread, Fill(t) PROVE Books'
  <2>0. t \in Thread
    BY <1>6 DEF Thread
  <2>1. CASE TRUE
    <3>1. pc[t] = "fill" /\ max_workers = 1
      BY <1>6, <2>1, <2>0, Threads, TypeOK, Orderly DEF Fill, Goto, Thread, arena,
         demand, Thread, TypeOK, Orderly
    <3>2. pc'[t] = "adjust" /\ delta'[t] = 1 /\ pool_state' = "full" /\ UNCHANGED <<max_workers, requested>>
      BY <1>6, <2>1, <2>0, <3>1, Threads, TypeOK, Orderly DEF Fill, Goto, Thread, arena,
         demand, Thread, Owing, TypeOK, Orderly
    <3>3. Owed(t) = (IF pool_state = "empty" THEN 0 ELSE 1) /\ Owed(t)' = 1
      BY <3>1, <3>2 DEF Owed, Owing
    <3>4. ASSUME NEW u \in Thread \ {t} PROVE Owed(u)' = Owed(u)
      <4>1. pc'[u] = pc[u] /\ delta'[u] = delta[u]
        BY <1>6, <2>1, <2>0, TypeOK DEF Fill, Goto, Thread, TypeOK
      <4>2. pc[u] # "fill"
        BY <2>0, <1>6, <2>1, <3>1, Orderly DEF Orderly
      <4> QED BY <3>2, <4>1, <4>2 DEF Owed
    <3>5. TotalOwed \in Int /\ TotalOwed' = TotalOwed + Owed(t)' - Owed(t)
      BY <2>0, <3>4, OneOwes
    <3>6. requested \in Int /\ max_workers \in Nat /\ delta[t] \in Nat
      BY <2>0, TypeOK DEF TypeOK
    <3> QED BY <2>1, <3>1, <3>2, <3>3, <3>5, <3>6 DEF Books, Pending
  <2> QED BY <2>1
<1>7. ASSUME NEW t \in Thread, ReadState(t) PROVE Books'
  <2>1. pc[t] \notin Owing /\ pc'[t] \notin Owing
    BY <1>7, Threads, TypeOK, Places DEF ReadState, Goto, arena, demand, work, vars,
       Thread, Owing, TypeOK, GoOnIf, Return, Back, Places
  <2>2. /\ \A u \in Thread \ {t} : pc'[u] = pc[u] /\ delta'[u] = delta[u]
        /\ max_workers' = max_workers /\ requested' = requested
        /\ (pool_state = "empty") <=> (pool_state' = "empty")
    BY <1>7, Threads, TypeOK DEF ReadState, Goto, arena, demand, work, vars, Thread,
       Owing, TypeOK, GoOnIf, Return, Back
  <2>3. t \in Thread
    BY <1>7 DEF Thread
  <2> QED BY <2>1, <2>2, <2>3, NothingOwed
<1>8. ASSUME NEW t \in Thread, Swap(t) PROVE Books'
  <2>0. t \in Thread
    BY <1>8 DEF Thread
  <2>1. CASE pool_state = "empty" /\ pc'[t] = "won"
    <3>1. pc[t] = "swap"
      BY <1>8, <2>1, <2>0, Threads, TypeOK, Orderly DEF Swap, Goto, GoOnIf, Return,
         Back, arena, demand, Thread, TypeOK, Orderly
    <3>2. pc'[t] = "won" /\ pool_state' = "full" /\ UNCHANGED <<max_workers, requested>>
      BY <1>8, <2>1, <2>0, <3>1, Threads, TypeOK, Orderly DEF Swap, Goto, GoOnIf,
         Return, Back, arena, demand, Thread, Owing, TypeOK, Orderly
    <3>3. Owed(t) = 0 /\ Owed(t)' = max_workers
      BY <3>1, <3>2 DEF Owed, Owing
    <3>4. ASSUME NEW u \in Thread \ {t} PROVE Owed(u)' = Owed(u)
      <4>1. pc'[u] = pc[u] /\ delta'[u] = delta[u]
        BY <1>8, <2>1, <2>0, TypeOK DEF Swap, Goto, GoOnIf, Return, Back, TypeOK
      <4>2. pc[u] # "fill"
        BY <2>0, <1>8, <2>1, <3>1, Orderly DEF Orderly
      <4> QED BY <3>2, <4>1, <4>2 DEF Owed
    <3>5. TotalOwed \in Int /\ TotalOwed' = TotalOwed + Owed(t)' - Owed(t)
      BY <2>0, <3>4, OneOwes
    <3>6. requested \in Int /\ max_workers \in Nat /\ delta[t] \in Nat
      BY <2>0, TypeOK DEF TypeOK
    <3> QED BY <2>1, <3>1, <3>2, <3>3, <3>5, <3>6 DEF Books, Pending
  <2>2. CASE ~(pool_state = "empty" /\ pc'[t] = "won")
    <3>1. pc[t] \notin Owing /\ pc'[t] \notin Owing
      BY <1>8, <2>2, Threads, TypeOK, Places DEF Swap, Goto, GoOnIf, Return, Back,
         arena, Thread, Owing, TypeOK, Places
    <3>2. /\ \A u \in Thread \ {t} : pc'[u] = pc[u] /\ delta'[u] = delta[u]
          /\ max_workers' = max_workers /\ requested' = requested
          /\ (pool_state = "empty") <=> (pool_state' = "empty")
      BY <1>8, <2>2, Threads, TypeOK DEF Swap, Goto, GoOnIf, Return, Back, arena,
         demand, Thread, TypeOK
    <3> QED BY <2>0, <3>1, <3>2, NothingOwed
  <2> QED BY <2>1, <2>2
<1>9. ASSUME NEW t \in Thread, SwapEmpty(t) PROVE Books'
  <2>0. t \in Thread
    BY <1>9 DEF Thread
  <2>1. CASE pool_state = "empty" /\ pc'[t] = "won"
    <3>1. pc[t] = "swapEmpty"
      BY <1>9, <2>1, <2>0, Threads, TypeOK, Orderly DEF SwapEmpty, Goto, GoOnIf, Return,
         Back, arena, demand, Thread, TypeOK, Orderly
    <3>2. pc'[t] = "won" /\ pool_state' = "full" /\ UNCHANGED <<max_workers, requested>>
      BY <1>9, <2>1, <2>0, <3>1, Threads, TypeOK, Orderly DEF SwapEmpty, Goto, GoOnIf,
         Return, Back, arena, demand, Thread, Owing, TypeOK, Orderly
    <3>3. Owed(t) = 0 /\ Owed(t)' = max_workers
      BY <3>1, <3>2 DEF Owed, Owing
    <3>4. ASSUME NEW u \in Thread \ {t} PROVE Owed(u)' = Owed(u)
      <4>1. pc'[u] = pc[u] /\ delta'[u] = delta[u]
        BY <1>9, <2>1, <2>0, TypeOK DEF SwapEmpty, Goto, GoOnIf, Return, Back, TypeOK
      <4>2. pc[u] # "fill"
        BY <2>0, <1>9, <2>1, <3>1, Orderly DEF Orderly
      <4> QED BY <3>2, <4>1, <4>2 DEF Owed
    <3>5. TotalOwed \in Int /\ TotalOwed' = TotalOwed + Owed(t)' - Owed(t)
      BY <2>0, <3>4, OneOwes
    <3>6. requested \in Int /\ max_workers \in Nat /\ delta[t] \in Nat
      BY <2>0, TypeOK DEF TypeOK
    <3> QED BY <2>1, <3>1, <3>2, <3>3, <3>5, <3>6 DEF Books, Pending
  <2>2. CASE ~(pool_state = "empty" /\ pc'[t] = "won")
    <3>1. pc[t] \notin Owing /\ pc'[t] \notin Owing
      BY <1>9, <2>2, Threads, TypeOK, Places DEF SwapEmpty, Goto, GoOnIf, Return, Back,
         arena, Thread, Owing, TypeOK, Places
    <3>2. /\ \A u \in Thread \ {t} : pc'[u] = pc[u] /\ delta'[u] = delta[u]
          /\ max_workers' = max_workers /\ requested' = requested
          /\ (pool_state = "empty") <=> (pool_state' = "empty")
      BY <1>9, <2>2, Threads, TypeOK DEF SwapEmpty, Goto, GoOnIf, Return, Back, arena,
         demand, Thread, TypeOK
    <3> QED BY <2>0, <3>1, <3>2, NothingOwed
  <2> QED BY <2>1, <2>2
<1>10. ASSUME NEW t \in Thread, Won(t) PROVE Books'
  <2>0. t \in Thread
    BY <1>10 DEF Thread
  <2>1. CASE op[t] = "spawn" /\ mandatory
    <3>1. pc[t] = "won" /\ max_workers = 1 /\ pool_state # "empty"
      BY <1>10, <2>1, <2>0, Threads, TypeOK, Orderly DEF Won, Goto, Return, Back, arena,
         demand, Thread, TypeOK, Orderly
    <3>2. pc'[t] \notin Owing /\ max_workers' = 0 /\ UNCHANGED <<pool_state, requested>>
      BY <1>10, <2>1, <2>0, <3>1, Threads, TypeOK, Orderly DEF Won, Goto, Return, Back,
         arena, demand, Thread, Owing, TypeOK, Orderly
    <3>3. Owed(t) = 1 /\ Owed(t)' = 0
      BY <3>1, <3>2 DEF Owed, Owing
    <3>4. ASSUME NEW u \in Thread \ {t} PROVE Owed(u)' = Owed(u)
      <4>1. pc'[u] = pc[u] /\ delta'[u] = delta[u]
        BY <1>10, <2>1, <2>0, TypeOK DEF Won, Goto, Return, Back, TypeOK
      <4>2. pc[u] # "won"
        BY <2>0, <1>10, <2>1, <3>1, Orderly DEF Orderly
      <4> QED BY <3>2, <4>1, <4>2 DEF Owed
    <3>5. TotalOwed \in Int /\ TotalOwed' = TotalOwed + Owed(t)' - Owed(t)
      BY <2>0, <3>4, OneOwes
    <3>6. requested \in Int /\ max_workers \in Nat /\ delta[t] \in Nat
      BY <2>0, TypeOK DEF TypeOK
    <3> QED BY <2>1, <3>1, <3>2, <3>3, <3>5, <3>6 DEF Books, Pending
  <2>2. CASE ~(op[t] = "spawn" /\ mandatory)
    <3>1. pc[t] = "won"
      BY <1>10, <2>2, <2>0, Threads, TypeOK, Orderly DEF Won, Goto, Return, Back, arena,
         demand, Thread, TypeOK, Orderly
    <3>2. pc'[t] = "adjust" /\ delta'[t] = max_workers /\ UNCHANGED <<max_workers, pool_state, requested>>
      BY <1>10, <2>2, <2>0, <3>1, Threads, TypeOK, Orderly DEF Won, Goto, Return, Back,
         arena, demand, Thread, Owing, TypeOK, Orderly
    <3>3. Owed(t) = max_workers /\ Owed(t)' = max_workers
      BY <3>1, <3>2 DEF Owed, Owing
    <3>4. ASSUME NEW u \in Thread \ {t} PROVE Owed(u)' = Owed(u)
      <4>1. pc'[u] = pc[u] /\ delta'[u] = delta[u]
        BY <1>10, <2>2, <2>0, TypeOK DEF Won, Goto, Return, Back, TypeOK
      <4>2. TRUE
        BY <2>0, <1>10, <2>2, <3>1, Orderly DEF Orderly
      <4> QED BY <3>2, <4>1, <4>2 DEF Owed
    <3>5. TotalOwed \in Int /\ TotalOwed' = TotalOwed + Owed(t)' - Owed(t)
      BY <2>0, <3>4, OneOwes
    <3>6. requested \in Int /\ max_workers \in Nat /\ delta[t] \in Nat
      BY <2>0, TypeOK DEF TypeOK
    <3> QED BY <2>2, <3>1, <3>2, <3>3, <3>5, <3>6 DEF Books, Pending
  <2> QED BY <2>1, <2>2
<1>11. ASSUME NEW t \in Thread, AdjustUp(t) PROVE Books'
  <2>0. t \in Thread
    BY <1>11 DEF Thread
  <2>1. CASE TRUE
    <3>1. pc[t] = "adjust"
      BY <1>11, <2>1, <2>0, Threads, TypeOK, Orderly DEF AdjustUp, Goto, Return, Back,
         AdjustDemand, Smaller, arena, demand, Thread, TypeOK, Orderly
    <3>2. pc'[t] \notin Owing /\ requested' = requested + delta[t] /\ UNCHANGED <<max_workers, pool_state>>
      BY <1>11, <2>1, <2>0, <3>1, Threads, TypeOK, Orderly DEF AdjustUp, Goto, Return,
         Back, AdjustDemand, Smaller, arena, demand, Thread, Owing, TypeOK, Orderly
    <3>3. Owed(t) = delta[t] /\ Owed(t)' = 0
      BY <3>1, <3>2 DEF Owed, Owing
    <3>4. ASSUME NEW u \in Thread \ {t} PROVE Owed(u)' = Owed(u)
      <4>1. pc'[u] = pc[u] /\ delta'[u] = delta[u]
        BY <1>11, <2>1, <2>0, TypeOK DEF AdjustUp, Goto, Return, Back, AdjustDemand,
           Smaller, TypeOK
      <4>2. TRUE
        BY <2>0, <1>11, <2>1, <3>1, Orderly DEF Orderly
      <4> QED BY <3>2, <4>1, <4>2 DEF Owed
    <3>5. TotalOwed \in Int /\ TotalOwed' = TotalOwed + Owed(t)' - Owed(t)
      BY <2>0, <3>4, OneOwes
    <3>6. requested \in Int /\ max_workers \in Nat /\ delta[t] \in Nat
      BY <2>0, TypeOK DEF TypeOK
    <3> QED BY <2>1, <3>1, <3>2, <3>3, <3>5, <3>6 DEF Books, Pending
  <2> QED BY <2>1
<1>12. ASSUME NEW w \in Worker, EnterArena(w) PROVE Books'
  <2>1. pc[w] \notin Owing /\ pc'[w] \notin Owing
    BY <1>12, Threads, TypeOK, Places DEF EnterArena, Goto, arena, demand, work, vars,
       Thread, Owing, TypeOK, Places
  <2>2. /\ \A u \in Thread \ {w} : pc'[u] = pc[u] /\ delta'[u] = delta[u]
        /\ max_workers' = max_workers /\ requested' = requested
        /\ (pool_state = "empty") <=> (pool_state' = "empty")
    BY <1>12, Threads, TypeOK DEF EnterArena, Goto, arena, demand, work, vars, Thread,
       Owing, TypeOK
  <2>3. w \in Thread
    BY <1>12 DEF Thread
  <2> QED BY <2>1, <2>2, <2>3, NothingOwed
<1>13. ASSUME NEW w \in Worker, Revoked(w) PROVE Books'
  <2>1. pc[w] \notin Owing /\ pc'[w] \notin Owing
    BY <1>13, Threads, TypeOK, Places DEF Revoked, Goto, arena, demand, work, vars,
       Thread, Owing, TypeOK, Places
  <2>2. /\ \A u \in Thread \ {w} : pc'[u] = pc[u] /\ delta'[u] = delta[u]
        /\ max_workers' = max_workers /\ requested' = requested
        /\ (pool_state = "empty") <=> (pool_state' = "empty")
    BY <1>13, Threads, TypeOK DEF Revoked, Goto, arena, demand, work, vars, Thread,
       Owing, TypeOK
  <2>3. w \in Thread
    BY <1>13 DEF Thread
  <2> QED BY <2>1, <2>2, <2>3, NothingOwed
<1>14. ASSUME NEW w \in Worker, TakeEnqueued(w) PROVE Books'
  <2>1. pc[w] \notin Owing /\ pc'[w] \notin Owing
    BY <1>14, Threads, TypeOK, Places DEF TakeEnqueued, Goto, arena, demand, work, vars,
       Thread, Owing, TypeOK, Places
  <2>2. /\ \A u \in Thread \ {w} : pc'[u] = pc[u] /\ delta'[u] = delta[u]
        /\ max_workers' = max_workers /\ requested' = requested
        /\ (pool_state = "empty") <=> (pool_state' = "empty")
    BY <1>14, Threads, TypeOK DEF TakeEnqueued, Goto, arena, demand, work, vars, Thread,
       Owing, TypeOK
  <2>3. w \in Thread
    BY <1>14 DEF Thread
  <2> QED BY <2>1, <2>2, <2>3, NothingOwed
<1>15. ASSUME NEW w \in Worker, Steal(w) PROVE Books'
  <2>1. pc[w] \notin Owing /\ pc'[w] \notin Owing
    BY <1>15, Threads, TypeOK, Places DEF Steal, Goto, arena, demand, work, vars,
       Thread, Owing, TypeOK, Places
  <2>2. /\ \A u \in Thread \ {w} : pc'[u] = pc[u] /\ delta'[u] = delta[u]
        /\ max_workers' = max_workers /\ requested' = requested
        /\ (pool_state = "empty") <=> (pool_state' = "empty")
    BY <1>15, Threads, TypeOK DEF Steal, Goto, arena, demand, work, vars, Thread, Owing,
       TypeOK
  <2>3. w \in Thread
    BY <1>15 DEF Thread
  <2> QED BY <2>1, <2>2, <2>3, NothingOwed
<1>16. ASSUME NEW w \in Worker, FindNothing(w) PROVE Books'
  <2>1. pc[w] \notin Owing /\ pc'[w] \notin Owing
    BY <1>16, Threads, TypeOK, Places DEF FindNothing, Goto, arena, demand, work, vars,
       Thread, Owing, TypeOK, Places
  <2>2. /\ \A u \in Thread \ {w} : pc'[u] = pc[u] /\ delta'[u] = delta[u]
        /\ max_workers' = max_workers /\ requested' = requested
        /\ (pool_state = "empty") <=> (pool_state' = "empty")
    BY <1>16, Threads, TypeOK DEF FindNothing, Goto, arena, demand, work, vars, Thread,
       Owing, TypeOK
  <2>3. w \in Thread
    BY <1>16 DEF Thread
  <2> QED BY <2>1, <2>2, <2>3, NothingOwed
<1>17. ASSUME NEW w \in Worker, Finish(w) PROVE Books'
  <2>1. pc[w] \notin Owing /\ pc'[w] \notin Owing
    BY <1>17, Threads, TypeOK, Places DEF Finish, Goto, arena, demand, work, vars,
       Thread, Owing, TypeOK, Places
  <2>2. /\ \A u \in Thread \ {w} : pc'[u] = pc[u] /\ delta'[u] = delta[u]
        /\ max_workers' = max_workers /\ requested' = requested
        /\ (pool_state = "empty") <=> (pool_state' = "empty")
    BY <1>17, Threads, TypeOK DEF Finish, Goto, arena, demand, work, vars, Thread,
       Owing, TypeOK
  <2>3. w \in Thread
    BY <1>17 DEF Thread
  <2> QED BY <2>1, <2>2, <2>3, NothingOwed
<1>18. ASSUME NEW w \in Worker, OutOfWork(w) PROVE Books'
  <2>1. pc[w] \notin Owing /\ pc'[w] \notin Owing
    BY <1>18, Threads, TypeOK, Places DEF OutOfWork, Goto, arena, demand, work, vars,
       Thread, Owing, TypeOK, Places
  <2>2. /\ \A u \in Thread \ {w} : pc'[u] = pc[u] /\ delta'[u] = delta[u]
        /\ max_workers' = max_workers /\ requested' = requested
        /\ (pool_state = "empty") <=> (pool_state' = "empty")
    BY <1>18, Threads, TypeOK DEF OutOfWork, Goto, arena, demand, work, vars, Thread,
       Owing, TypeOK
  <2>3. w \in Thread
    BY <1>18 DEF Thread
  <2> QED BY <2>1, <2>2, <2>3, NothingOwed
<1>19. ASSUME NEW w \in Worker, LeaveArena(w) PROVE Books'
  <2>1. pc[w] \notin Owing /\ pc'[w] \notin Owing
    BY <1>19, Threads, TypeOK, Places DEF LeaveArena, Goto, arena, demand, work, vars,
       Thread, Owing, TypeOK, Places
  <2>2. /\ \A u \in Thread \ {w} : pc'[u] = pc[u] /\ delta'[u] = delta[u]
        /\ max_workers' = max_workers /\ requested' = requested
        /\ (pool_state = "empty") <=> (pool_state' = "empty")
    BY <1>19, Threads, TypeOK DEF LeaveArena, Goto, arena, demand, work, vars, Thread,
       Owing, TypeOK
  <2>3. w \in Thread
    BY <1>19 DEF Thread
  <2> QED BY <2>1, <2>2, <2>3, NothingOwed
<1>20. ASSUME NEW w \in Worker, Look(w) PROVE Books'
  <2>1. pc[w] \notin Owing /\ pc'[w] \notin Owing
    BY <1>20, Threads, TypeOK, Places DEF Look, Goto, arena, demand, work, vars, Thread,
       Owing, TypeOK, Places
  <2>2. /\ \A u \in Thread \ {w} : pc'[u] = pc[u] /\ delta'[u] = delta[u]
        /\ max_workers' = max_workers /\ requested' = requested
        /\ (pool_state = "empty") <=> (pool_state' = "empty")
    BY <1>20, Threads, TypeOK DEF Look, Goto, arena, demand, work, vars, Thread, Owing,
       TypeOK
  <2>3. w \in Thread
    BY <1>20 DEF Thread
  <2> QED BY <2>1, <2>2, <2>3, NothingOwed
<1>21. ASSUME NEW w \in Worker, Mark(w) PROVE Books'
  <2>1. pc[w] \notin Owing /\ pc'[w] \notin Owing
    BY <1>21, Threads, TypeOK, Places DEF Mark, Goto, arena, demand, work, vars, Thread,
       Owing, TypeOK, Places
  <2>2. /\ \A u \in Thread \ {w} : pc'[u] = pc[u] /\ delta'[u] = delta[u]
        /\ max_workers' = max_workers /\ requested' = requested
        /\ (pool_state = "empty") <=> (pool_state' = "empty")
    BY <1>21, Threads, TypeOK DEF Mark, Goto, arena, demand, work, vars, Thread, Owing,
       TypeOK
  <2>3. w \in Thread
    BY <1>21 DEF Thread
  <2> QED BY <2>1, <2>2, <2>3, NothingOwed
<1>22. ASSUME NEW w \in Worker, ScanPools(w) PROVE Books'
  <2>1. pc[w] \notin Owing /\ pc'[w] \notin Owing
    BY <1>22, Threads, TypeOK, Places DEF ScanPools, Goto, arena, demand, work, vars,
       Thread, Owing, TypeOK, Places
  <2>2. /\ \A u \in Thread \ {w} : pc'[u] = pc[u] /\ delta'[u] = delta[u]
        /\ max_workers' = max_workers /\ requested' = requested
        /\ (pool_state = "empty") <=> (pool_state' = "empty")
    BY <1>22, Threads, TypeOK DEF ScanPools, Goto, arena, demand, work, vars, Thread,
       Owing, TypeOK
  <2>3. w \in Thread
    BY <1>22 DEF Thread
  <2> QED BY <2>1, <2>2, <2>3, NothingOwed
<1>23. ASSUME NEW w \in Worker, Test(w) PROVE Books'
  <2>1. pc[w] \notin Owing /\ pc'[w] \notin Owing
    BY <1>23, Threads, TypeOK, Places DEF Test, Goto, arena, demand, work, vars, Thread,
       Owing, TypeOK, NoFifoTasks, Places
  <2>2. /\ \A u \in Thread \ {w} : pc'[u] = pc[u] /\ delta'[u] = delta[u]
        /\ max_workers' = max_workers /\ requested' = requested
        /\ (pool_state = "empty") <=> (pool_state' = "empty")
    BY <1>23, Threads, TypeOK DEF Test, Goto, arena, demand, work, vars, Thread, Owing,
       TypeOK, NoFifoTasks
  <2>3. w \in Thread
    BY <1>23 DEF Thread
  <2> QED BY <2>1, <2>2, <2>3, NothingOwed
<1>24. ASSUME NEW w \in Worker, SetEmpty(w) PROVE Books'
  <2>0. w \in Thread
    BY <1>24 DEF Thread
  <2>1. CASE pool_state = w
    <3>1. pc[w] = "setEmpty" /\ delta[w] = max_workers /\ pool_state # "empty"
      BY <1>24, <2>1, <2>0, Threads, TypeOK, Orderly DEF SetEmpty, Goto, StillMarked,
         arena, demand, Thread, TypeOK, Orderly
    <3>2. pc'[w] = "adjustDown" /\ delta'[w] = delta[w] /\ pool_state' = "empty" /\ UNCHANGED <<max_workers, requested>>
      BY <1>24, <2>1, <2>0, <3>1, Threads, TypeOK, Orderly DEF SetEmpty, Goto,
         StillMarked, arena, demand, Thread, Owing, TypeOK, Orderly
    <3>3. Owed(w) = 0 /\ Owed(w)' = -max_workers
      BY <3>1, <3>2 DEF Owed, Owing
    <3>4. ASSUME NEW u \in Thread \ {w} PROVE Owed(u)' = Owed(u)
      <4>1. pc'[u] = pc[u] /\ delta'[u] = delta[u]
        BY <1>24, <2>1, <2>0, TypeOK DEF SetEmpty, Goto, StillMarked, TypeOK
      <4>2. pc[u] # "fill"
        BY <2>0, <1>24, <2>1, <3>1, Orderly DEF Orderly
      <4> QED BY <3>2, <4>1, <4>2 DEF Owed
    <3>5. TotalOwed \in Int /\ TotalOwed' = TotalOwed + Owed(w)' - Owed(w)
      BY <2>0, <3>4, OneOwes
    <3>6. requested \in Int /\ max_workers \in Nat /\ delta[w] \in Nat
      BY <2>0, TypeOK DEF TypeOK
    <3> QED BY <2>1, <3>1, <3>2, <3>3, <3>5, <3>6 DEF Books, Pending
  <2>2. CASE pool_state # w
    <3>1. pc[w] \notin Owing /\ pc'[w] \notin Owing
      BY <1>24, <2>2, Threads, TypeOK, Places DEF SetEmpty, Goto, StillMarked, arena,
         Thread, Owing, TypeOK, Places
    <3>2. /\ \A u \in Thread \ {w} : pc'[u] = pc[u] /\ delta'[u] = delta[u]
          /\ max_workers' = max_workers /\ requested' = requested
          /\ (pool_state = "empty") <=> (pool_state' = "empty")
      BY <1>24, <2>2, Threads, TypeOK DEF SetEmpty, Goto, StillMarked, arena, demand,
         Thread, TypeOK
    <3> QED BY <2>0, <3>1, <3>2, NothingOwed
  <2> QED BY <2>1, <2>2
<1>25. ASSUME NEW w \in Worker, Undo(w) PROVE Books'
  <2>1. pc[w] \notin Owing /\ pc'[w] \notin Owing
    BY <1>25, Threads, TypeOK, Places DEF Undo, Goto, arena, demand, work, vars, Thread,
       Owing, TypeOK, Places
  <2>2. /\ \A u \in Thread \ {w} : pc'[u] = pc[u] /\ delta'[u] = delta[u]
        /\ max_workers' = max_workers /\ requested' = requested
        /\ (pool_state = "empty") <=> (pool_state' = "empty")
    BY <1>25, Threads, TypeOK DEF Undo, Goto, arena, demand, work, vars, Thread, Owing,
       TypeOK
  <2>3. w \in Thread
    BY <1>25 DEF Thread
  <2> QED BY <2>1, <2>2, <2>3, NothingOwed
<1>26. ASSUME NEW w \in Worker, AdjustDown(w) PROVE Books'
  <2>0. w \in Thread
    BY <1>26 DEF Thread
  <2>1. CASE TRUE
    <3>1. pc[w] = "adjustDown"
      BY <1>26, <2>1, <2>0, Threads, TypeOK, Orderly DEF AdjustDown, Goto, AdjustDemand,
         GivenBack, Smaller, arena, demand, Thread, TypeOK, Orderly
    <3>2. pc'[w] \notin Owing /\ requested' = requested - delta[w] /\ UNCHANGED <<max_workers, pool_state>>
      BY <1>26, <2>1, <2>0, <3>1, Threads, TypeOK, Orderly DEF AdjustDown, Goto,
         AdjustDemand, GivenBack, Smaller, arena, demand, Thread, Owing, TypeOK, Orderly
    <3>3. Owed(w) = -delta[w] /\ Owed(w)' = 0
      BY <3>1, <3>2 DEF Owed, Owing
    <3>4. ASSUME NEW u \in Thread \ {w} PROVE Owed(u)' = Owed(u)
      <4>1. pc'[u] = pc[u] /\ delta'[u] = delta[u]
        BY <1>26, <2>1, <2>0, TypeOK DEF AdjustDown, Goto, AdjustDemand, GivenBack,
           Smaller, TypeOK
      <4>2. TRUE
        BY <2>0, <1>26, <2>1, <3>1, Orderly DEF Orderly
      <4> QED BY <3>2, <4>1, <4>2 DEF Owed
    <3>5. TotalOwed \in Int /\ TotalOwed' = TotalOwed + Owed(w)' - Owed(w)
      BY <2>0, <3>4, OneOwes
    <3>6. requested \in Int /\ max_workers \in Nat /\ delta[w] \in Nat
      BY <2>0, TypeOK DEF TypeOK
    <3> QED BY <2>1, <3>1, <3>2, <3>3, <3>5, <3>6 DEF Books, Pending
  <2> QED BY <2>1
<1>27. ASSUME NEW w \in Worker, SwitchBack(w) PROVE Books'
  <2>1. pc[w] \notin Owing /\ pc'[w] \notin Owing
    BY <1>27, Threads, TypeOK, Places DEF SwitchBack, Goto, arena, demand, work, vars,
       Thread, Owing, TypeOK, Places
  <2>2. /\ \A u \in Thread \ {w} : pc'[u] = pc[u] /\ delta'[u] = delta[u]
        /\ max_workers' = max_workers /\ requested' = requested
        /\ (pool_state = "empty") <=> (pool_state' = "empty")
    BY <1>27, Threads, TypeOK DEF SwitchBack, Goto, arena, demand, work, vars, Thread,
       Owing, TypeOK
  <2>3. w \in Thread
    BY <1>27 DEF Thread
  <2> QED BY <2>1, <2>2, <2>3, NothingOwed
<1>28. ASSUME NEW c \in Client, TakeAsMaster(c) PROVE Books'
  <2>1. UNCHANGED <<pc, delta, max_workers, requested, pool_state>>
    BY <1>28 DEF TakeAsMaster, arena, demand
  <2>2. TotalOwed' = TotalOwed
    BY <2>1 DEF TotalOwed, Owed
  <2> QED BY <2>1, <2>2 DEF Books, Pending
<1> QED BY <1>1, <1>2, <1>3, <1>4, <1>5, <1>6, <1>7, <1>8, <1>9, <1>10, <1>11, <1>12, <1>13, <1>14, <1>15, <1>16, <1>17, <1>18, <1>19, <1>20, <1>21, <1>22, <1>23, <1>24, <1>25, <1>26, <1>27, <1>28, Next DEF Next, Advertise, WorkerStep

(***************************************************************************)
(* The invariant keeps the books in order                                  *)
(***************************************************************************)
\* Only the clients of the arena do anything.
LEMMA AtWork == ASSUME Places PROVE \A c \in Client : pc[c] # "idle" => c \in users
  BY DEF Places

\* A worker that is in the arena is the only one.
LEMMA Alone == ASSUME LoneLimits, NEW v \in Worker, NEW w \in Worker, pc[v] # "away", pc[w] # "away"
               PROVE  v = w
  BY DEF LoneLimits, InArena

\* While the demand is raised from nothing no worker is in the arena, and one
\* client is at work.
LEMMA UpAlone ==
    ASSUME Places, LoneLimits, LoneUp, NEW t \in Thread, Up(t),
           max_workers = 0 \/ pool_state = "empty",
           NEW u \in Thread, pc[u] \notin {"idle", "away"}
    PROVE  u = t
<1>1. \A w \in Worker : pc[w] = "away"
  BY DEF LoneUp
<1>2. pc[t] \notin {"idle", "away"}
  BY DEF Up
<1>3. t \in Client /\ u \in Client
  BY <1>1, <1>2 DEF Thread
<1>4. t \in users /\ u \in users
  BY <1>2, <1>3, AtWork
<1> QED BY <1>4 DEF LoneLimits

\* The invariant keeps the books in order.
LEMMA InOrder == ASSUME Assumptions, TypeOK, Places, Served \/ Lone PROVE Orderly
<1>1. CASE Served
  BY <1>1, TypeOK DEF Served, ServedWell, Orderly, TypeOK, Thread
<1>2. CASE Lone
  <2> USE <1>2 DEF Lone
  <2>1. ASSUME NEW t \in Thread, NEW u \in Thread, max_workers = 0, pc[t] = "enqueued"
        PROVE  pc[u] # "won"
    <3>1. SUFFICES ASSUME pc[u] = "won" PROVE FALSE
      OBVIOUS
    <3>2. t = u
      BY <2>1, <3>1, UpAlone DEF Up
    <3> QED BY <2>1, <3>1, <3>2
  <2>2. ASSUME NEW t \in Thread, NEW u \in Thread, pc[t] = "fill"
        PROVE  max_workers = 1 /\ (pc[u] = "fill" => t = u)
    BY <2>2 DEF LoneUp, Up
  <2>3. ASSUME NEW t \in Thread, NEW u \in Thread, pool_state = "empty", pc[t] \in {"swap", "swapEmpty"}
        PROVE  pc[u] # "fill"
    <3>1. SUFFICES ASSUME pc[u] = "fill" PROVE FALSE
      OBVIOUS
    <3>2. t = u
      BY <2>3, <3>1, UpAlone DEF Up
    <3> QED BY <2>3, <3>1, <3>2
  <2>4. ASSUME NEW w \in Worker, NEW u \in Thread, pc[w] = "setEmpty"
        PROVE  delta[w] = max_workers /\ pc[u] # "fill"
    <3>1. delta[w] = 1 /\ max_workers = 1
      BY <2>4 DEF LoneWorker, WorkerFits, Busy
    <3>2. CASE u \in Client
      BY <2>4, <3>2 DEF LoneWorker, WorkerFits, Busy, Up
    <3>3. CASE u \in Worker
      <4>1. ASSUME pc[u] = "fill" PROVE FALSE
        <5>1. u = w
          BY <2>4, <3>3, <4>1, Alone
        <5> QED BY <2>4, <4>1, <5>1
      <4> QED BY <3>1, <4>1
    <3> QED BY <3>1, <3>2, <3>3 DEF Thread
  <2>5. ASSUME NEW t \in Thread, NEW u \in Thread, pc[t] = "won", mandatory
        PROVE  max_workers = 1 /\ pool_state # "empty" /\ (pc[u] = "won" => t = u)
    <3>1. max_workers = 1
      BY <2>5, TypeOK DEF LoneLimits, TypeOK
    <3> QED BY <2>5, <3>1 DEF LoneUp, Up
  <2> QED BY <2>1, <2>2, <2>3, <2>4, <2>5 DEF Orderly
<1> QED BY <1>1, <1>2

(***************************************************************************)
(* An arena with workers of its own                                        *)
(***************************************************************************)
\* It has what it requests, as far as there are workers.
LEMMA ServedWellStep ==
    ASSUME Assumptions, TypeOK, Places, ServedWell, Next
    PROVE  ServedWell'
<1>1. ASSUME NEW t \in Thread, Enqueue(t) PROVE ServedWell'
  BY <1>1, Threads, TypeOK DEF Enqueue, MayProduce, arena, demand, Thread, TypeOK,
     ServedWell, Allotment
<1>2. ASSUME NEW t \in Thread, Spawn(t) PROVE ServedWell'
  BY <1>2, Threads, TypeOK DEF Spawn, MayProduce, arena, demand, Thread, TypeOK,
     ServedWell, Allotment
<1>3. ASSUME NEW t \in Thread, SpawnReadingEarly(t) PROVE ServedWell'
  BY <1>3, Threads, TypeOK DEF SpawnReadingEarly, MayProduce, arena, demand, Thread,
     TypeOK, ServedWell, Allotment
<1>4. ASSUME NEW t \in Thread, Publish(t) PROVE ServedWell'
  BY <1>4, Threads, TypeOK DEF Publish, Goto, GoOnIf, Return, Back, arena, demand,
     Thread, TypeOK, ServedWell, Allotment
<1>5. ASSUME NEW t \in Thread, CheckMandatory(t) PROVE ServedWell'
  BY <1>5, Threads, TypeOK DEF CheckMandatory, Goto, NeedsMandatoryWorker, arena,
     demand, work, Thread, TypeOK, ServedWell, Allotment
<1>6. ASSUME NEW t \in Thread, Fill(t) PROVE ServedWell'
  BY <1>6, Threads, TypeOK DEF Fill, Goto, demand, work, Thread, TypeOK, ServedWell,
     Allotment
<1>7. ASSUME NEW t \in Thread, ReadState(t) PROVE ServedWell'
  BY <1>7, Threads, TypeOK DEF ReadState, Goto, GoOnIf, Return, Back, arena, demand,
     work, Thread, TypeOK, ServedWell, Allotment
<1>8. ASSUME NEW t \in Thread, Swap(t) PROVE ServedWell'
  BY <1>8, Threads, TypeOK DEF Swap, Goto, GoOnIf, Return, Back, demand, work, Thread,
     TypeOK, ServedWell, Allotment
<1>9. ASSUME NEW t \in Thread, SwapEmpty(t) PROVE ServedWell'
  BY <1>9, Threads, TypeOK DEF SwapEmpty, Goto, GoOnIf, Return, Back, demand, work,
     Thread, TypeOK, ServedWell, Allotment
<1>10. ASSUME NEW t \in Thread, Won(t) PROVE ServedWell'
  <2>1. ~(op[t] = "spawn" /\ mandatory)
    BY DEF ServedWell
  <2>2. /\ pc' = [pc EXCEPT ![t] = "adjust"] /\ delta' = [delta EXCEPT ![t] = max_workers]
        /\ max_workers' = max_workers /\ mandatory' = mandatory
        /\ requested' = requested /\ allotted' = allotted
    BY <1>10, <2>1 DEF Won, Goto, demand
  <2> QED BY <2>2, Threads, TypeOK DEF ServedWell, Allotment, TypeOK
<1>11. ASSUME NEW t \in Thread, AdjustUp(t) PROVE ServedWell'
  BY <1>11, Threads, TypeOK DEF AdjustUp, Goto, Return, Back, AdjustDemand, Smaller,
     arena, work, Thread, TypeOK, ServedWell, Allotment
<1>12. ASSUME NEW w \in Worker, EnterArena(w) PROVE ServedWell'
  BY <1>12, Threads, TypeOK DEF EnterArena, Goto, arena, demand, work, Thread, TypeOK,
     ServedWell, Allotment
<1>13. ASSUME NEW w \in Worker, Revoked(w) PROVE ServedWell'
  BY <1>13, Threads, TypeOK DEF Revoked, Goto, arena, demand, work, Thread, TypeOK,
     ServedWell, Allotment
<1>14. ASSUME NEW w \in Worker, TakeEnqueued(w) PROVE ServedWell'
  BY <1>14, Threads, TypeOK DEF TakeEnqueued, Goto, arena, demand, Thread, TypeOK,
     ServedWell, Allotment
<1>15. ASSUME NEW w \in Worker, Steal(w) PROVE ServedWell'
  BY <1>15, Threads, TypeOK DEF Steal, Goto, arena, demand, Thread, TypeOK, ServedWell,
     Allotment
<1>16. ASSUME NEW w \in Worker, FindNothing(w) PROVE ServedWell'
  BY <1>16, Threads, TypeOK DEF FindNothing, Goto, arena, demand, work, Thread, TypeOK,
     ServedWell, Allotment
<1>17. ASSUME NEW w \in Worker, Finish(w) PROVE ServedWell'
  BY <1>17, Threads, TypeOK DEF Finish, Goto, arena, demand, work, Thread, TypeOK,
     ServedWell, Allotment
<1>18. ASSUME NEW w \in Worker, OutOfWork(w) PROVE ServedWell'
  BY <1>18, Threads, TypeOK DEF OutOfWork, Goto, arena, demand, work, Thread, TypeOK,
     ServedWell, Allotment
<1>19. ASSUME NEW w \in Worker, LeaveArena(w) PROVE ServedWell'
  BY <1>19, Threads, TypeOK DEF LeaveArena, Goto, arena, demand, work, Thread, TypeOK,
     ServedWell, Allotment
<1>20. ASSUME NEW w \in Worker, Look(w) PROVE ServedWell'
  BY <1>20, Threads, TypeOK DEF Look, Goto, arena, demand, work, Thread, TypeOK,
     ServedWell, Allotment
<1>21. ASSUME NEW w \in Worker, Mark(w) PROVE ServedWell'
  BY <1>21, Threads, TypeOK DEF Mark, Goto, demand, work, Thread, TypeOK, ServedWell,
     Allotment
<1>22. ASSUME NEW w \in Worker, ScanPools(w) PROVE ServedWell'
  BY <1>22, Threads, TypeOK DEF ScanPools, Goto, arena, demand, work, Thread, TypeOK,
     ServedWell, Allotment
<1>23. ASSUME NEW w \in Worker, Test(w) PROVE ServedWell'
  BY <1>23, Threads, TypeOK DEF Test, Goto, NoFifoTasks, arena, demand, work, Thread,
     TypeOK, ServedWell, Allotment
<1>24. ASSUME NEW w \in Worker, SetEmpty(w) PROVE ServedWell'
  BY <1>24, Threads, TypeOK DEF SetEmpty, Goto, StillMarked, demand, work, Thread,
     TypeOK, ServedWell, Allotment
<1>25. ASSUME NEW w \in Worker, Undo(w) PROVE ServedWell'
  BY <1>25, Threads, TypeOK DEF Undo, Goto, demand, work, Thread, TypeOK, ServedWell,
     Allotment
<1>26. ASSUME NEW w \in Worker, AdjustDown(w) PROVE ServedWell'
  BY <1>26, Threads, TypeOK DEF AdjustDown, Goto, AdjustDemand, GivenBack, Smaller,
     arena, work, Thread, TypeOK, ServedWell, Allotment
<1>27. ASSUME NEW w \in Worker, SwitchBack(w) PROVE ServedWell'
  BY <1>27, Threads, TypeOK DEF SwitchBack, Goto, arena, demand, work, Thread, TypeOK,
     ServedWell, Allotment
<1>28. ASSUME NEW c \in Client, TakeAsMaster(c) PROVE ServedWell'
  BY <1>28, Threads, TypeOK DEF TakeAsMaster, arena, demand, Thread, TypeOK, ServedWell,
     Allotment
<1> QED BY <1>1, <1>2, <1>3, <1>4, <1>5, <1>6, <1>7, <1>8, <1>9, <1>10, <1>11, <1>12, <1>13, <1>14, <1>15, <1>16, <1>17, <1>18, <1>19, <1>20, <1>21, <1>22, <1>23, <1>24, <1>25, <1>26, <1>27, <1>28, Next DEF Next, Advertise, WorkerStep

\* Somebody goes on to advertise what was enqueued while its state was empty.
LEMMA AdvertisedStep ==
    ASSUME Assumptions, TypeOK, Places, Served, Next
    PROVE  Advertised'
<1>1. ASSUME NEW t \in Thread, Enqueue(t) PROVE Advertised'
  BY <1>1, Threads, TypeOK DEF Enqueue, MayProduce, arena, demand, Thread, TypeOK,
     Served, ServedWell, Advertised, Advertising
<1>2. ASSUME NEW t \in Thread, Spawn(t) PROVE Advertised'
  BY <1>2, Threads, TypeOK DEF Spawn, MayProduce, arena, demand, Thread, TypeOK, Served,
     ServedWell, Advertised, Advertising
<1>3. ASSUME NEW t \in Thread, SpawnReadingEarly(t) PROVE Advertised'
  BY <1>3, Threads, TypeOK DEF SpawnReadingEarly, MayProduce, arena, demand, Thread,
     TypeOK, Served, ServedWell, Advertised, Advertising
<1>4. ASSUME NEW t \in Thread, Publish(t) PROVE Advertised'
  BY <1>4, Threads, TypeOK DEF Publish, Goto, GoOnIf, Return, Back, arena, demand,
     Thread, TypeOK, Served, ServedWell, Advertised, Advertising
<1>5. ASSUME NEW t \in Thread, CheckMandatory(t) PROVE Advertised'
  BY <1>5, Threads, TypeOK DEF CheckMandatory, Goto, NeedsMandatoryWorker, arena,
     demand, work, Thread, TypeOK, Served, ServedWell, Advertised, Advertising
<1>6. ASSUME NEW t \in Thread, Fill(t) PROVE Advertised'
  BY <1>6, Threads, TypeOK DEF Fill, Goto, demand, work, Thread, TypeOK, Served,
     ServedWell, Advertised, Advertising
<1>7. ASSUME NEW t \in Thread, ReadState(t) PROVE Advertised'
  BY <1>7, Threads, TypeOK DEF ReadState, Goto, GoOnIf, Return, Back, arena, demand,
     work, Thread, TypeOK, Served, ServedWell, Advertised, Advertising
<1>8. ASSUME NEW t \in Thread, Swap(t) PROVE Advertised'
  BY <1>8, Threads, TypeOK DEF Swap, Goto, GoOnIf, Return, Back, demand, work, Thread,
     TypeOK, Served, ServedWell, Advertised, Advertising
<1>9. ASSUME NEW t \in Thread, SwapEmpty(t) PROVE Advertised'
  BY <1>9, Threads, TypeOK DEF SwapEmpty, Goto, GoOnIf, Return, Back, demand, work,
     Thread, TypeOK, Served, ServedWell, Advertised, Advertising
<1>10. ASSUME NEW t \in Thread, Won(t) PROVE Advertised'
  <2>1. ~(op[t] = "spawn" /\ mandatory)
    BY DEF Served, ServedWell
  <2>2. pc[t] = "won" /\ pc' = [pc EXCEPT ![t] = "adjust"] /\ pool_state' = pool_state /\ stream' = stream
    BY <1>10, <2>1 DEF Won, Goto, work
  <2> QED BY <2>2, TypeOK DEF Served, Advertised, Advertising, TypeOK
<1>11. ASSUME NEW t \in Thread, AdjustUp(t) PROVE Advertised'
  BY <1>11, Threads, TypeOK DEF AdjustUp, Goto, Return, Back, AdjustDemand, Smaller,
     arena, work, Thread, TypeOK, Served, ServedWell, Advertised, Advertising
<1>12. ASSUME NEW w \in Worker, EnterArena(w) PROVE Advertised'
  BY <1>12, Threads, TypeOK DEF EnterArena, Goto, arena, demand, work, Thread, TypeOK,
     Served, ServedWell, Advertised, Advertising
<1>13. ASSUME NEW w \in Worker, Revoked(w) PROVE Advertised'
  BY <1>13, Threads, TypeOK DEF Revoked, Goto, arena, demand, work, Thread, TypeOK,
     Served, ServedWell, Advertised, Advertising
<1>14. ASSUME NEW w \in Worker, TakeEnqueued(w) PROVE Advertised'
  BY <1>14, Threads, TypeOK DEF TakeEnqueued, Goto, arena, demand, Thread, TypeOK,
     Served, ServedWell, Advertised, Advertising
<1>15. ASSUME NEW w \in Worker, Steal(w) PROVE Advertised'
  BY <1>15, Threads, TypeOK DEF Steal, Goto, arena, demand, Thread, TypeOK, Served,
     ServedWell, Advertised, Advertising
<1>16. ASSUME NEW w \in Worker, FindNothing(w) PROVE Advertised'
  BY <1>16, Threads, TypeOK DEF FindNothing, Goto, arena, demand, work, Thread, TypeOK,
     Served, ServedWell, Advertised, Advertising
<1>17. ASSUME NEW w \in Worker, Finish(w) PROVE Advertised'
  BY <1>17, Threads, TypeOK DEF Finish, Goto, arena, demand, work, Thread, TypeOK,
     Served, ServedWell, Advertised, Advertising
<1>18. ASSUME NEW w \in Worker, OutOfWork(w) PROVE Advertised'
  BY <1>18, Threads, TypeOK DEF OutOfWork, Goto, arena, demand, work, Thread, TypeOK,
     Served, ServedWell, Advertised, Advertising
<1>19. ASSUME NEW w \in Worker, LeaveArena(w) PROVE Advertised'
  BY <1>19, Threads, TypeOK DEF LeaveArena, Goto, arena, demand, work, Thread, TypeOK,
     Served, ServedWell, Advertised, Advertising
<1>20. ASSUME NEW w \in Worker, Look(w) PROVE Advertised'
  BY <1>20, Threads, TypeOK DEF Look, Goto, arena, demand, work, Thread, TypeOK, Served,
     ServedWell, Advertised, Advertising
<1>21. ASSUME NEW w \in Worker, Mark(w) PROVE Advertised'
  BY <1>21, Threads, TypeOK DEF Mark, Goto, demand, work, Thread, TypeOK, Served,
     ServedWell, Advertised, Advertising
<1>22. ASSUME NEW w \in Worker, ScanPools(w) PROVE Advertised'
  BY <1>22, Threads, TypeOK DEF ScanPools, Goto, arena, demand, work, Thread, TypeOK,
     Served, ServedWell, Advertised, Advertising
<1>23. ASSUME NEW w \in Worker, Test(w) PROVE Advertised'
  BY <1>23, Threads, TypeOK DEF Test, Goto, NoFifoTasks, arena, demand, work, Thread,
     TypeOK, Served, ServedWell, Advertised, Advertising
<1>24. ASSUME NEW w \in Worker, SetEmpty(w) PROVE Advertised'
  BY <1>24, Threads, TypeOK DEF SetEmpty, Goto, StillMarked, demand, work, Thread,
     TypeOK, Served, ServedWell, Advertised, Advertising
<1>25. ASSUME NEW w \in Worker, Undo(w) PROVE Advertised'
  BY <1>25, Threads, TypeOK DEF Undo, Goto, demand, work, Thread, TypeOK, Served,
     ServedWell, Advertised, Advertising
<1>26. ASSUME NEW w \in Worker, AdjustDown(w) PROVE Advertised'
  BY <1>26, Threads, TypeOK DEF AdjustDown, Goto, AdjustDemand, GivenBack, Smaller,
     arena, work, Thread, TypeOK, Served, ServedWell, Advertised, Advertising
<1>27. ASSUME NEW w \in Worker, SwitchBack(w) PROVE Advertised'
  BY <1>27, Threads, TypeOK DEF SwitchBack, Goto, arena, demand, work, Thread, TypeOK,
     Served, ServedWell, Advertised, Advertising
<1>28. ASSUME NEW c \in Client, TakeAsMaster(c) PROVE Advertised'
  BY <1>28, Threads, TypeOK DEF TakeAsMaster, arena, demand, Thread, TypeOK, Served,
     ServedWell, Advertised, Advertising
<1> QED BY <1>1, <1>2, <1>3, <1>4, <1>5, <1>6, <1>7, <1>8, <1>9, <1>10, <1>11, <1>12, <1>13, <1>14, <1>15, <1>16, <1>17, <1>18, <1>19, <1>20, <1>21, <1>22, <1>23, <1>24, <1>25, <1>26, <1>27, <1>28, Next DEF Next, Advertise, WorkerStep

(***************************************************************************)
(* An arena without workers of its own: what holds of it in one state      *)
(***************************************************************************)

\* A busy worker finds the arena full, or under its own snapshot.
LEMMA BusyFull ==
    ASSUME Assumptions, TypeOK, Places, Lone, NEW w \in Worker, Busy(w)
    PROVE  /\ pool_state \in {"full", w}
           /\ pc[w] \notin {"scan", "test", "setEmpty", "undo"} => pool_state = "full"
<1>1. pool_state # "empty" /\ pc[w] # "away"
  BY DEF Lone, LoneWorker, WorkerFits, Busy
<1>2. CASE pool_state = "full"
  BY <1>2
<1>3. CASE pool_state \in Worker
  <2>1. pc[pool_state] \in {"scan", "test", "setEmpty", "undo"}
    BY <1>3 DEF Places
  <2>2. pool_state = w
    BY <1>1, <1>3, <2>1, Alone DEF Lone
  <2> QED BY <2>1, <2>2
<1> QED BY <1>1, <1>2, <1>3 DEF TypeOK

\* How many workers are in the arena.
LEMMA ActiveOne == ASSUME LoneLimits, NEW w \in Worker, pc[w] # "away" PROVE Active = 1
<1>1. {v \in Worker : InArena(v)} = {w}
  BY Alone DEF InArena
<1>2. Cardinality({w}) = 1
  BY FS_Singleton
<1> QED BY <1>1, <1>2 DEF Active

LEMMA ActiveNat == ASSUME Assumptions PROVE Active \in Nat
<1>1. {v \in Worker : InArena(v)} \in SUBSET Worker
  OBVIOUS
<1>2. IsFiniteSet({v \in Worker : InArena(v)})
  BY <1>1, Threads, FS_Subset
<1> QED BY <1>2, FS_CardinalityType DEF Active

LEMMA ActiveNone ==
    ASSUME Assumptions, LoneLimits, Active < 1, NEW w \in Worker
    PROVE  pc[w] = "away"
<1>1. SUFFICES ASSUME pc[w] # "away" PROVE FALSE
  OBVIOUS
<1>2. Active = 1
  BY <1>1, ActiveOne
<1> QED BY <1>2

\* While nobody lowers the demand, nothing of it is overdue.
LEMMA TotalBound ==
    ASSUME Assumptions, TypeOK, \A t \in Thread : pc[t] # "adjustDown"
    PROVE  /\ TotalOwed \in Nat
           /\ \A t \in Thread : Owed(t) \in Nat /\ Owed(t) <= TotalOwed
<1>1. IsFiniteSet(Thread)
  BY Threads
<1>2. PICK f : f = [u \in Thread |-> Owed(u)]
  OBVIOUS
<1>3. DOMAIN f = Thread /\ \A u \in Thread : f[u] = Owed(u)
  BY <1>2
<1>4. ASSUME NEW u \in Thread PROVE Owed(u) \in Nat
  BY TypeOK DEF Owed, TypeOK
<1>5. SumFunction(f) \in Nat /\ \A u \in Thread : f[u] <= SumFunction(f)
  BY <1>1, <1>3, <1>4, SumBound
<1>6. TotalOwed = SumFunction(f)
  BY <1>2 DEF TotalOwed
<1> QED BY <1>3, <1>4, <1>5, <1>6

LEMMA TotalBoundNext ==
    ASSUME Assumptions, TypeOK', \A t \in Thread : pc'[t] # "adjustDown"
    PROVE  TotalOwed' \in Nat
<1>1. IsFiniteSet(Thread)
  BY Threads
<1>2. PICK f : f = [u \in Thread |-> Owed(u)']
  OBVIOUS
<1>3. DOMAIN f = Thread /\ \A u \in Thread : f[u] = Owed(u)'
  BY <1>2
<1>4. ASSUME NEW u \in Thread PROVE Owed(u)' \in Nat
  BY TypeOK' DEF Owed, TypeOK
<1>5. SumFunction(f) \in Nat
  BY <1>1, <1>3, <1>4, SumBound
<1>6. TotalOwed' = SumFunction(f)
  BY <1>2 DEF TotalOwed
<1> QED BY <1>5, <1>6

\* When something is requested and nobody gives it back, nobody raises it
\* either: the arena is full and has asked for its worker.
LEMMA Raised ==
    ASSUME Assumptions, TypeOK, Places, Books, LoneLimits, LoneUp,
           requested >= 1, \A w \in Worker : pc[w] # "adjustDown"
    PROVE  max_workers = 1 /\ pool_state # "empty" /\ \A t \in Thread : ~Up(t)
<1>1. \A t \in Thread : pc[t] # "adjustDown"
  BY DEF Places, Thread
<1>2. TotalOwed \in Nat /\ \A t \in Thread : Owed(t) \in Nat /\ Owed(t) <= TotalOwed
  BY <1>1, TotalBound
<1>3. requested \in Int /\ max_workers \in {0, 1}
  BY DEF TypeOK, LoneLimits
<1>4. max_workers = 1 /\ pool_state # "empty" /\ TotalOwed = 0
  BY <1>2, <1>3 DEF Books, Pending
<1>5. ASSUME NEW t \in Thread, Up(t) PROVE FALSE
  <2>1. Owed(t) = 0
    BY <1>2, <1>4
  <2>2. pc[t] = "adjust" => delta[t] = 1
    BY <1>4 DEF LoneUp
  <2> QED BY <1>4, <1>5, <2>1, <2>2 DEF Owed, Up
<1> QED BY <1>4, <1>5

\* What a worker gives back has been requested.
LEMMA Given ==
    ASSUME Assumptions, TypeOK, Places, Books, Lone, NEW w \in Worker, pc[w] = "setEmpty"
    PROVE  requested = 1
<1>1. max_workers = 1 /\ pool_state # "empty" /\ \A c \in Client : ~Up(c)
  BY DEF Lone, LoneWorker, WorkerFits, Busy
<1>2. ASSUME NEW t \in Thread PROVE Owed(t) = 0
  <2>1. CASE t \in Client
    BY <1>1, <2>1 DEF Up, Owed, Places
  <2>2. CASE t \in Worker
    <3>1. pc[t] = "away" \/ t = w
      BY <2>2, Alone DEF Lone
    <3> QED BY <3>1 DEF Owed
  <2> QED BY <2>1, <2>2 DEF Thread
<1>3. IsFiniteSet(Thread)
  BY Threads
<1>4. PICK f : f = [u \in Thread |-> Owed(u)]
  OBVIOUS
<1>5. SumFunction(f) = 0
  BY <1>2, <1>3, <1>4, SumZero
<1>6. TotalOwed = 0
  BY <1>4, <1>5 DEF TotalOwed
<1>7. requested \in Int
  BY DEF TypeOK
<1> QED BY <1>1, <1>6, <1>7 DEF Books, Pending

(***************************************************************************)
(* An arena without workers of its own: what a step does                   *)
(***************************************************************************)
\* It has at most one worker, and that is what it requests.
LEMMA LimitsStep ==
    ASSUME Assumptions, TypeOK, TypeOK', Places, Places', Books, Books', Lone, Next
    PROVE  LoneLimits'
<1>1. ASSUME NEW t \in Thread, Enqueue(t) PROVE LoneLimits'
  BY <1>1, Threads, TypeOK DEF Enqueue, MayProduce, arena, demand, Thread, TypeOK,
     Places, Lone, LoneLimits, InArena
<1>2. ASSUME NEW t \in Thread, Spawn(t) PROVE LoneLimits'
  BY <1>2, Threads, TypeOK DEF Spawn, MayProduce, arena, demand, Thread, TypeOK, Places,
     Lone, LoneLimits, InArena
<1>3. ASSUME NEW t \in Thread, SpawnReadingEarly(t) PROVE LoneLimits'
  BY <1>3, Threads, TypeOK DEF SpawnReadingEarly, MayProduce, arena, demand, Thread,
     TypeOK, Places, Lone, LoneLimits, InArena
<1>4. ASSUME NEW t \in Thread, Publish(t) PROVE LoneLimits'
  BY <1>4, Threads, TypeOK DEF Publish, Goto, GoOnIf, Return, Back, arena, demand,
     Thread, TypeOK, Places, Lone, LoneLimits, InArena
<1>5. ASSUME NEW t \in Thread, CheckMandatory(t) PROVE LoneLimits'
  <2>1. /\ pc[t] = "enqueued" /\ (\A v \in Thread \ {t} : pc'[v] = pc[v]) /\ UNCHANGED <<users, requested, allotted>>
        /\ \/ max_workers' = 1 /\ mandatory' = TRUE
           \/ max_workers' = max_workers /\ mandatory' = mandatory
    BY <1>5, TypeOK DEF CheckMandatory, Goto, arena, demand, TypeOK
  <2>2. \A v \in Worker : pc'[v] # "away" => pc[v] # "away"
    BY <2>1 DEF Thread
  <2>3. max_workers' \in {0, 1} /\ mandatory' = (max_workers' = 1)
    <3>1. CASE max_workers' = 1 /\ mandatory' = TRUE
      BY <3>1
    <3>2. CASE max_workers' = max_workers /\ mandatory' = mandatory
      BY <3>2 DEF Lone, LoneLimits
    <3> QED BY <2>1, <3>1, <3>2
  <2>4. requested' >= 0 /\ allotted' = (IF requested' = 0 THEN 0 ELSE Smaller(1, Cardinality(Worker)))
    BY <2>1 DEF Lone, LoneLimits
  <2> QED BY <2>1, <2>2, <2>3, <2>4 DEF Lone, LoneLimits, InArena
<1>6. ASSUME NEW t \in Thread, Fill(t) PROVE LoneLimits'
  BY <1>6, Threads, TypeOK DEF Fill, Goto, demand, work, Thread, TypeOK, Places, Lone,
     LoneLimits, InArena
<1>7. ASSUME NEW t \in Thread, ReadState(t) PROVE LoneLimits'
  BY <1>7, Threads, TypeOK DEF ReadState, Goto, GoOnIf, Return, Back, arena, demand,
     work, Thread, TypeOK, Places, Lone, LoneLimits, InArena
<1>8. ASSUME NEW t \in Thread, Swap(t) PROVE LoneLimits'
  BY <1>8, Threads, TypeOK DEF Swap, Goto, GoOnIf, Return, Back, demand, work, Thread,
     TypeOK, Places, Lone, LoneLimits, InArena
<1>9. ASSUME NEW t \in Thread, SwapEmpty(t) PROVE LoneLimits'
  BY <1>9, Threads, TypeOK DEF SwapEmpty, Goto, GoOnIf, Return, Back, demand, work,
     Thread, TypeOK, Places, Lone, LoneLimits, InArena
<1>10. ASSUME NEW t \in Thread, Won(t) PROVE LoneLimits'
  <2>1. /\ pc[t] = "won" /\ (\A v \in Thread \ {t} : pc'[v] = pc[v]) /\ UNCHANGED <<users, requested, allotted>>
        /\ \/ max_workers' = 0 /\ mandatory' = FALSE
           \/ max_workers' = max_workers /\ mandatory' = mandatory
    <3>1. CASE op[t] = "spawn" /\ mandatory
      BY <1>10, <3>1, TypeOK DEF Won, Return, Goto, demand, TypeOK
    <3>2. CASE ~(op[t] = "spawn" /\ mandatory)
      BY <1>10, <3>2, TypeOK DEF Won, Return, Goto, demand, TypeOK
    <3> QED BY <3>1, <3>2
  <2>2. \A v \in Worker : pc'[v] # "away" => pc[v] # "away"
    BY <2>1 DEF Thread
  <2>3. max_workers' \in {0, 1} /\ mandatory' = (max_workers' = 1)
    <3>1. CASE max_workers' = 0 /\ mandatory' = FALSE
      <4>1. max_workers' # 1 /\ max_workers' \in {0, 1}
        BY <3>1
      <4> QED BY <3>1, <4>1, Zenon
    <3>2. CASE max_workers' = max_workers /\ mandatory' = mandatory
      BY <3>2 DEF Lone, LoneLimits
    <3> QED BY <2>1, <3>1, <3>2
  <2>4. requested' >= 0 /\ allotted' = (IF requested' = 0 THEN 0 ELSE Smaller(1, Cardinality(Worker)))
    BY <2>1 DEF Lone, LoneLimits
  <2> QED BY <2>1, <2>2, <2>3, <2>4 DEF Lone, LoneLimits, InArena
<1>11. ASSUME NEW t \in Thread, AdjustUp(t) PROVE LoneLimits'
  <2>1. /\ delta[t] = max_workers /\ requested' = requested + delta[t]
        /\ allotted' = IF delta[t] = 0 THEN allotted
                       ELSE IF requested + delta[t] <= 0 THEN 0
                       ELSE Smaller(Smaller(requested + delta[t], Cardinality(Worker)), max_workers)
        /\ UNCHANGED <<max_workers, mandatory, users>>
    BY <1>11 DEF AdjustUp, Return, Goto, AdjustDemand, arena, Lone, LoneUp
  <2>2. \A v \in Worker : pc'[v] # "away" => pc[v] # "away"
    BY <1>11, TypeOK DEF AdjustUp, Return, Goto, TypeOK
  <2>3. requested' >= 0 /\ allotted' = IF requested' = 0 THEN 0 ELSE Smaller(1, Cardinality(Worker))
    BY <2>1, Threads, TypeOK DEF Lone, LoneLimits, TypeOK, Smaller
  <2> QED BY <2>1, <2>2, <2>3 DEF Lone, LoneLimits, InArena
<1>12. ASSUME NEW w \in Worker, EnterArena(w) PROVE LoneLimits'
  <2>1. Active < 1 /\ pc' = [pc EXCEPT ![w] = "seek"] /\ UNCHANGED <<arena, demand, users>>
    <3>1. Active \in Nat /\ Active < allotted /\ requested \in Int
      BY <1>12, Threads, ActiveNat, TypeOK DEF EnterArena, TypeOK
    <3>2. allotted = IF requested = 0 THEN 0 ELSE Smaller(1, Cardinality(Worker))
      BY DEF Lone, LoneLimits
    <3>3. Active < 1
      BY <3>1, <3>2, Threads DEF Smaller
    <3> QED BY <1>12, <3>3 DEF EnterArena, Goto
  <2>2. \A v \in Worker : pc[v] = "away"
    BY <2>1, ActiveNone DEF Lone
  <2> QED BY <2>1, <2>2, TypeOK DEF Lone, LoneLimits, InArena, arena, demand, TypeOK
<1>13. ASSUME NEW w \in Worker, Revoked(w) PROVE LoneLimits'
  BY <1>13, Threads, TypeOK DEF Revoked, Goto, arena, demand, work, Thread, TypeOK,
     Places, Lone, LoneLimits, InArena
<1>14. ASSUME NEW w \in Worker, TakeEnqueued(w) PROVE LoneLimits'
  BY <1>14, Threads, TypeOK DEF TakeEnqueued, Goto, arena, demand, Thread, TypeOK,
     Places, Lone, LoneLimits, InArena
<1>15. ASSUME NEW w \in Worker, Steal(w) PROVE LoneLimits'
  BY <1>15, Threads, TypeOK DEF Steal, Goto, arena, demand, Thread, TypeOK, Places,
     Lone, LoneLimits, InArena
<1>16. ASSUME NEW w \in Worker, FindNothing(w) PROVE LoneLimits'
  BY <1>16, Threads, TypeOK DEF FindNothing, Goto, arena, demand, work, Thread, TypeOK,
     Places, Lone, LoneLimits, InArena
<1>17. ASSUME NEW w \in Worker, Finish(w) PROVE LoneLimits'
  BY <1>17, Threads, TypeOK DEF Finish, Goto, arena, demand, work, Thread, TypeOK,
     Places, Lone, LoneLimits, InArena
<1>18. ASSUME NEW w \in Worker, OutOfWork(w) PROVE LoneLimits'
  BY <1>18, Threads, TypeOK DEF OutOfWork, Goto, arena, demand, work, Thread, TypeOK,
     Places, Lone, LoneLimits, InArena
<1>19. ASSUME NEW w \in Worker, LeaveArena(w) PROVE LoneLimits'
  BY <1>19, Threads, TypeOK DEF LeaveArena, Goto, arena, demand, work, Thread, TypeOK,
     Places, Lone, LoneLimits, InArena
<1>20. ASSUME NEW w \in Worker, Look(w) PROVE LoneLimits'
  BY <1>20, Threads, TypeOK DEF Look, Goto, arena, demand, work, Thread, TypeOK, Places,
     Lone, LoneLimits, InArena
<1>21. ASSUME NEW w \in Worker, Mark(w) PROVE LoneLimits'
  BY <1>21, Threads, TypeOK DEF Mark, Goto, demand, work, Thread, TypeOK, Places, Lone,
     LoneLimits, InArena
<1>22. ASSUME NEW w \in Worker, ScanPools(w) PROVE LoneLimits'
  BY <1>22, Threads, TypeOK DEF ScanPools, Goto, arena, demand, work, Thread, TypeOK,
     Places, Lone, LoneLimits, InArena
<1>23. ASSUME NEW w \in Worker, Test(w) PROVE LoneLimits'
  BY <1>23, Threads, TypeOK DEF Test, Goto, NoFifoTasks, arena, demand, work, Thread,
     TypeOK, Places, Lone, LoneLimits, InArena
<1>24. ASSUME NEW w \in Worker, SetEmpty(w) PROVE LoneLimits'
  BY <1>24, Threads, TypeOK DEF SetEmpty, Goto, StillMarked, demand, work, Thread,
     TypeOK, Places, Lone, LoneLimits, InArena
<1>25. ASSUME NEW w \in Worker, Undo(w) PROVE LoneLimits'
  BY <1>25, Threads, TypeOK DEF Undo, Goto, demand, work, Thread, TypeOK, Places, Lone,
     LoneLimits, InArena
<1>26. ASSUME NEW w \in Worker, AdjustDown(w) PROVE LoneLimits'
  <2>1. /\ pc[w] = "adjustDown" /\ delta[w] = 1 /\ requested >= 1 /\ requested' = requested - 1
        /\ allotted' = IF requested - 1 <= 0 THEN 0
                       ELSE Smaller(Smaller(requested - 1, Cardinality(Worker)), max_workers)
        /\ UNCHANGED <<max_workers, mandatory, users>>
    BY <1>26, TypeOK DEF AdjustDown, Goto, GivenBack, AdjustDemand, arena, Lone,
       LoneWorker, WorkerFits, TypeOK
  <2>2. \A v \in Worker : pc'[v] # "away" => pc[v] # "away"
    BY <1>26, <2>1, TypeOK DEF AdjustDown, Goto, TypeOK
  <2>3. \A v \in Worker : pc'[v] # "adjustDown"
    <3>1. SUFFICES ASSUME NEW v \in Worker, pc'[v] = "adjustDown" PROVE FALSE
      OBVIOUS
    <3>2. v = w
      BY <2>1, <2>2, <3>1, Alone DEF Lone
    <3> QED BY <1>26, <3>1, <3>2, TypeOK DEF AdjustDown, Goto, Thread, TypeOK
  <2>4. TotalOwed' \in Nat
    BY <2>3, TotalBoundNext DEF Places, Thread
  <2>5. requested' + TotalOwed' = IF pool_state' = "empty" THEN 0 ELSE max_workers'
    BY DEF Books, Pending
  <2>6. requested' <= max_workers /\ requested \in Int /\ max_workers \in {0, 1}
    <3>1. requested \in Int /\ max_workers \in {0, 1} /\ max_workers' = max_workers
      BY <2>1, TypeOK DEF TypeOK, Lone, LoneLimits
    <3>2. requested' = requested - 1
      BY <2>1
    <3>3. TotalOwed' \in Nat /\ requested' + TotalOwed' \in {0, max_workers}
      BY <2>4, <2>5, <3>1
    <3>4. PICK k \in Nat : TotalOwed' = k
      BY <3>3
    <3>5. requested - 1 + k \in {0, max_workers}
      BY <3>2, <3>3, <3>4
    <3>6. requested - 1 <= max_workers
      BY <3>1, <3>4, <3>5
    <3> QED BY <3>1, <3>2, <3>6
  <2>7. requested' >= 0 /\ allotted' = IF requested' = 0 THEN 0 ELSE Smaller(1, Cardinality(Worker))
    BY <2>1, <2>6, Threads DEF Smaller
  <2> QED BY <2>1, <2>2, <2>7 DEF Lone, LoneLimits, InArena
<1>27. ASSUME NEW w \in Worker, SwitchBack(w) PROVE LoneLimits'
  BY <1>27, Threads, TypeOK DEF SwitchBack, Goto, arena, demand, work, Thread, TypeOK,
     Places, Lone, LoneLimits, InArena
<1>28. ASSUME NEW c \in Client, TakeAsMaster(c) PROVE LoneLimits'
  BY <1>28, Threads, TypeOK DEF TakeAsMaster, arena, demand, Thread, TypeOK, Places,
     Lone, LoneLimits, InArena
<1> QED BY <1>1, <1>2, <1>3, <1>4, <1>5, <1>6, <1>7, <1>8, <1>9, <1>10, <1>11, <1>12, <1>13, <1>14, <1>15, <1>16, <1>17, <1>18, <1>19, <1>20, <1>21, <1>22, <1>23, <1>24, <1>25, <1>26, <1>27, <1>28, Next DEF Next, Advertise, WorkerStep

\* A worker enters, or stays after it found no work, only while the arena is
\* full and nobody is raising the demand.
LEMMA Welcome ==
    ASSUME Assumptions, TypeOK, Places, Books, Lone, NEW w \in Worker,
           EnterArena(w) \/ (OutOfWork(w) /\ pc'[w] = "seek")
    PROVE  /\ max_workers = 1 /\ pool_state # "empty" /\ \A t \in Thread : ~Up(t)
           /\ \A v \in Worker : v # w => pc[v] = "away"
           /\ pc' = [pc EXCEPT ![w] = "seek"] /\ UNCHANGED <<arena, demand, work, users, op, snap, delta>>
<1>1. Active \in Nat /\ allotted \in Nat /\ requested \in Nat
  BY Threads, ActiveNat, TypeOK DEF Lone, LoneLimits, TypeOK
<1>2. allotted = IF requested = 0 THEN 0 ELSE Smaller(1, Cardinality(Worker))
  BY DEF Lone, LoneLimits
<1>3. CASE EnterArena(w)
  <2>1. Active < 1 /\ requested >= 1
    BY <1>1, <1>2, <1>3, Threads DEF EnterArena, Smaller
  <2>2. \A v \in Worker : pc[v] = "away"
    BY <2>1, ActiveNone DEF Lone
  <2> QED BY <1>3, <2>1, <2>2, Raised DEF Lone, EnterArena, Goto
<1>4. CASE OutOfWork(w) /\ pc'[w] = "seek"
  <2>1. pc[w] = "outOfWork" /\ Active = 1
    BY <1>4, ActiveOne DEF OutOfWork, Goto, Lone
  <2>2. \A v \in Worker : v # w => pc[v] = "away"
    BY <2>1, Alone DEF Lone
  <2>3. Active <= allotted /\ pc' = [pc EXCEPT ![w] = "seek"]
    <3>1. pc'[w] = IF Active > allotted THEN "leaving" ELSE "seek"
      BY <1>4, TypeOK DEF OutOfWork, Goto, TypeOK, Thread
    <3>2. ~(Active > allotted)
      BY <1>4, <3>1
    <3> QED BY <1>1, <1>4, <3>2 DEF OutOfWork, Goto
  <2>4. requested >= 1
    BY <1>1, <1>2, <2>1, <2>3
  <2>5. \A v \in Worker : pc[v] # "adjustDown"
    BY <2>1, <2>2
  <2> QED BY <1>4, <2>2, <2>3, <2>4, <2>5, Raised DEF Lone, OutOfWork
<1> QED BY <1>3, <1>4

\* Each worker is where it can be.
LEMMA WorkerFitsStep ==
    ASSUME Assumptions, TypeOK, TypeOK', Places, Places', Books, Books', Lone, Next, NEW v \in Worker
    PROVE  WorkerFits(v)'
<1>1. ASSUME NEW t \in Thread, Enqueue(t) PROVE WorkerFits(v)'
  BY <1>1, Threads, TypeOK, BusyFull DEF Enqueue, MayProduce, arena, demand, Thread,
     TypeOK, Places, Lone, LoneLimits, LoneUp, LoneWorker, WorkerFits, Again, Busy, Up,
     Enqueuing, InArena
<1>2. ASSUME NEW t \in Thread, Spawn(t) PROVE WorkerFits(v)'
  BY <1>2, Threads, TypeOK, BusyFull DEF Spawn, MayProduce, arena, demand, Thread,
     TypeOK, Places, Lone, LoneLimits, LoneUp, LoneWorker, WorkerFits, Again, Busy, Up,
     Enqueuing, InArena
<1>3. ASSUME NEW t \in Thread, SpawnReadingEarly(t) PROVE WorkerFits(v)'
  BY <1>3, Threads, TypeOK, BusyFull DEF SpawnReadingEarly, MayProduce, arena, demand,
     Thread, TypeOK, Places, Lone, LoneLimits, LoneUp, LoneWorker, WorkerFits, Again,
     Busy, Up, Enqueuing, InArena
<1>4. ASSUME NEW t \in Thread, Publish(t) PROVE WorkerFits(v)'
  BY <1>4, Threads, TypeOK, BusyFull DEF Publish, Goto, GoOnIf, Return, Back, arena,
     demand, Thread, TypeOK, Places, Lone, LoneLimits, LoneUp, LoneWorker, WorkerFits,
     Again, Busy, Up, Enqueuing, InArena
<1>5. ASSUME NEW t \in Thread, CheckMandatory(t) PROVE WorkerFits(v)'
  BY <1>5, Threads, TypeOK, BusyFull DEF CheckMandatory, Goto, NeedsMandatoryWorker,
     arena, demand, work, Thread, TypeOK, Places, Lone, LoneLimits, LoneUp, LoneWorker,
     WorkerFits, Again, Busy, Up, Enqueuing, InArena
<1>6. ASSUME NEW t \in Thread, Fill(t) PROVE WorkerFits(v)'
  BY <1>6, Threads, TypeOK, BusyFull DEF Fill, Goto, demand, work, Thread, TypeOK,
     Places, Lone, LoneLimits, LoneUp, LoneWorker, WorkerFits, Again, Busy, Up,
     Enqueuing, InArena
<1>7. ASSUME NEW t \in Thread, ReadState(t) PROVE WorkerFits(v)'
  BY <1>7, Threads, TypeOK, BusyFull DEF ReadState, Goto, GoOnIf, Return, Back, arena,
     demand, work, Thread, TypeOK, Places, Lone, LoneLimits, LoneUp, LoneWorker,
     WorkerFits, Again, Busy, Up, Enqueuing, InArena
<1>8. ASSUME NEW t \in Thread, Swap(t) PROVE WorkerFits(v)'
  BY <1>8, Threads, TypeOK, BusyFull DEF Swap, Goto, GoOnIf, Return, Back, demand, work,
     Thread, TypeOK, Places, Lone, LoneLimits, LoneUp, LoneWorker, WorkerFits, Again,
     Busy, Up, Enqueuing, InArena
<1>9. ASSUME NEW t \in Thread, SwapEmpty(t) PROVE WorkerFits(v)'
  BY <1>9, Threads, TypeOK, BusyFull DEF SwapEmpty, Goto, GoOnIf, Return, Back, demand,
     work, Thread, TypeOK, Places, Lone, LoneLimits, LoneUp, LoneWorker, WorkerFits,
     Again, Busy, Up, Enqueuing, InArena
<1>10. ASSUME NEW t \in Thread, Won(t) PROVE WorkerFits(v)'
  BY <1>10, Threads, TypeOK, BusyFull DEF Won, Goto, Return, Back, demand, work, Thread,
     TypeOK, Places, Lone, LoneLimits, LoneUp, LoneWorker, WorkerFits, Again, Busy, Up,
     Enqueuing, InArena
<1>11. ASSUME NEW t \in Thread, AdjustUp(t) PROVE WorkerFits(v)'
  BY <1>11, Threads, TypeOK, BusyFull DEF AdjustUp, Goto, Return, Back, AdjustDemand,
     Smaller, arena, work, Thread, TypeOK, Places, Lone, LoneLimits, LoneUp, LoneWorker,
     WorkerFits, Again, Busy, Up, Enqueuing, InArena
<1>12. ASSUME NEW w \in Worker, EnterArena(w) PROVE WorkerFits(v)'
  <2>1. /\ max_workers = 1 /\ pool_state # "empty" /\ \A t \in Thread : ~Up(t)
        /\ \A u \in Worker : u # w => pc[u] = "away"
        /\ pc' = [pc EXCEPT ![w] = "seek"] /\ UNCHANGED <<arena, demand, work, users, op, snap, delta>>
    BY <1>12, Welcome
  <2>2. max_workers' = 1 /\ pool_state' # "empty" /\ \A t \in Thread : ~Up(t)'
    BY <2>1, TypeOK DEF arena, Up, TypeOK
  <2>3. v # w => pc'[v] = "away"
    BY <2>1, TypeOK DEF TypeOK, Thread
  <2>4. pc'[w] = "seek"
    BY <2>1, TypeOK DEF TypeOK, Thread
  <2> QED BY <2>2, <2>3, <2>4 DEF WorkerFits, Busy, Again, Thread
<1>13. ASSUME NEW w \in Worker, Revoked(w) PROVE WorkerFits(v)'
  BY <1>13, Threads, TypeOK, BusyFull DEF Revoked, Goto, arena, demand, work, Thread,
     TypeOK, Places, Lone, LoneLimits, LoneUp, LoneWorker, WorkerFits, Again, Busy, Up,
     Enqueuing, InArena
<1>14. ASSUME NEW w \in Worker, TakeEnqueued(w) PROVE WorkerFits(v)'
  BY <1>14, Threads, TypeOK, BusyFull DEF TakeEnqueued, Goto, arena, demand, Thread,
     TypeOK, Places, Lone, LoneLimits, LoneUp, LoneWorker, WorkerFits, Again, Busy, Up,
     Enqueuing, InArena
<1>15. ASSUME NEW w \in Worker, Steal(w) PROVE WorkerFits(v)'
  BY <1>15, Threads, TypeOK, BusyFull DEF Steal, Goto, arena, demand, Thread, TypeOK,
     Places, Lone, LoneLimits, LoneUp, LoneWorker, WorkerFits, Again, Busy, Up,
     Enqueuing, InArena
<1>16. ASSUME NEW w \in Worker, FindNothing(w) PROVE WorkerFits(v)'
  BY <1>16, Threads, TypeOK, BusyFull DEF FindNothing, Goto, arena, demand, work,
     Thread, TypeOK, Places, Lone, LoneLimits, LoneUp, LoneWorker, WorkerFits, Again,
     Busy, Up, Enqueuing, InArena
<1>17. ASSUME NEW w \in Worker, Finish(w) PROVE WorkerFits(v)'
  BY <1>17, Threads, TypeOK, BusyFull DEF Finish, Goto, arena, demand, work, Thread,
     TypeOK, Places, Lone, LoneLimits, LoneUp, LoneWorker, WorkerFits, Again, Busy, Up,
     Enqueuing, InArena
<1>18. ASSUME NEW w \in Worker, OutOfWork(w) PROVE WorkerFits(v)'
  <2>1. CASE pc'[w] = "seek"
    <3>1. /\ max_workers = 1 /\ pool_state # "empty" /\ \A t \in Thread : ~Up(t)
          /\ \A u \in Worker : u # w => pc[u] = "away"
          /\ pc' = [pc EXCEPT ![w] = "seek"] /\ UNCHANGED <<arena, demand, work, users, op, snap, delta>>
      BY <1>18, <2>1, Welcome
    <3>2. max_workers' = 1 /\ pool_state' # "empty" /\ \A t \in Thread : ~Up(t)'
      BY <3>1, TypeOK DEF arena, Up, TypeOK
    <3>3. v # w => pc'[v] = "away"
      BY <3>1, TypeOK DEF TypeOK, Thread
    <3>4. pc'[w] = "seek"
      BY <3>1, TypeOK DEF TypeOK, Thread
    <3> QED BY <3>2, <3>3, <3>4 DEF WorkerFits, Busy, Again, Thread
  <2>2. CASE pc'[w] # "seek"
    BY <1>18, <2>2, Threads, TypeOK DEF OutOfWork, Goto, Thread, arena, demand, TypeOK,
       Lone, LoneWorker, WorkerFits, Again, Busy, Up, Enqueuing
  <2> QED BY <2>1, <2>2
<1>19. ASSUME NEW w \in Worker, LeaveArena(w) PROVE WorkerFits(v)'
  BY <1>19, Threads, TypeOK, BusyFull DEF LeaveArena, Goto, arena, demand, work, Thread,
     TypeOK, Places, Lone, LoneLimits, LoneUp, LoneWorker, WorkerFits, Again, Busy, Up,
     Enqueuing, InArena
<1>20. ASSUME NEW w \in Worker, Look(w) PROVE WorkerFits(v)'
  BY <1>20, Threads, TypeOK, BusyFull DEF Look, Goto, arena, demand, work, Thread,
     TypeOK, Places, Lone, LoneLimits, LoneUp, LoneWorker, WorkerFits, Again, Busy, Up,
     Enqueuing, InArena
<1>21. ASSUME NEW w \in Worker, Mark(w) PROVE WorkerFits(v)'
  BY <1>21, Threads, TypeOK, BusyFull DEF Mark, Goto, demand, work, Thread, TypeOK,
     Places, Lone, LoneLimits, LoneUp, LoneWorker, WorkerFits, Again, Busy, Up,
     Enqueuing, InArena
<1>22. ASSUME NEW w \in Worker, ScanPools(w) PROVE WorkerFits(v)'
  BY <1>22, Threads, TypeOK, BusyFull DEF ScanPools, Goto, arena, demand, work, Thread,
     TypeOK, Places, Lone, LoneLimits, LoneUp, LoneWorker, WorkerFits, Again, Busy, Up,
     Enqueuing, InArena
<1>23. ASSUME NEW w \in Worker, Test(w) PROVE WorkerFits(v)'
  BY <1>23, Threads, TypeOK, BusyFull DEF Test, Goto, NoFifoTasks, arena, demand, work,
     Thread, TypeOK, Places, Lone, LoneLimits, LoneUp, LoneWorker, WorkerFits, Again,
     Busy, Up, Enqueuing, InArena
<1>24. ASSUME NEW w \in Worker, SetEmpty(w) PROVE WorkerFits(v)'
  <2>1. pc[w] = "setEmpty" /\ requested = 1 /\ delta[w] = 1 /\ max_workers = 1
    BY <1>24, Given DEF SetEmpty, Goto, Lone, LoneWorker, WorkerFits, Busy
  <2>2. UNCHANGED <<max_workers, requested>> /\ \A u \in Worker : u # w => pc'[u] = "away"
    BY <1>24, <2>1, Alone, TypeOK DEF SetEmpty, Goto, demand, TypeOK, Thread, Lone
  <2>3. CASE v # w
    BY <2>1, <2>2, <2>3 DEF WorkerFits, Busy, Again
  <2>4. CASE v = w /\ StillMarked(w)
    <3>1. pc'[w] = "adjustDown" /\ delta'[w] = 1
      BY <1>24, <2>1, <2>4, TypeOK DEF SetEmpty, Goto, TypeOK, Thread
    <3> QED BY <2>1, <2>2, <2>4, <3>1 DEF WorkerFits, Busy, Again
  <2>5. CASE v = w /\ ~StillMarked(w)
    <3>1. pc' = [pc EXCEPT ![w] = "seek"] /\ pool_state' = pool_state
      BY <1>24, <2>1, <2>5 DEF SetEmpty, Goto
    <3>2. pool_state # "empty" /\ \A c \in Client : ~Up(c)
      BY <2>1 DEF Lone, LoneWorker, WorkerFits, Busy
    <3>3. pc'[w] = "seek" /\ \A c \in Client : ~Up(c)'
      BY <3>1, <3>2, Threads, TypeOK DEF Up, TypeOK, Thread
    <3> QED BY <2>1, <2>2, <2>5, <3>1, <3>2, <3>3 DEF WorkerFits, Busy, Again
  <2> QED BY <2>3, <2>4, <2>5
<1>25. ASSUME NEW w \in Worker, Undo(w) PROVE WorkerFits(v)'
  BY <1>25, Threads, TypeOK, BusyFull DEF Undo, Goto, demand, work, Thread, TypeOK,
     Places, Lone, LoneLimits, LoneUp, LoneWorker, WorkerFits, Again, Busy, Up,
     Enqueuing, InArena
<1>26. ASSUME NEW w \in Worker, AdjustDown(w) PROVE WorkerFits(v)'
  BY <1>26, Threads, TypeOK, BusyFull DEF AdjustDown, Goto, AdjustDemand, GivenBack,
     Smaller, arena, work, Thread, TypeOK, Places, Lone, LoneLimits, LoneUp, LoneWorker,
     WorkerFits, Again, Busy, Up, Enqueuing, InArena
<1>27. ASSUME NEW w \in Worker, SwitchBack(w) PROVE WorkerFits(v)'
  <2>1. pc[w] = "switchBack" /\ UNCHANGED <<arena, demand, work, users>>
    BY <1>27 DEF SwitchBack, Goto
  <2>2. \A u \in Worker : u # w => pc'[u] = "away"
    BY <1>27, <2>1, Alone, TypeOK DEF SwitchBack, Goto, TypeOK, Thread, Lone
  <2>3. max_workers = 0 => pool_state # "empty"
    BY <2>1 DEF Lone, LoneWorker, WorkerFits
  <2>4. max_workers' = max_workers /\ pool_state' = pool_state /\ stream' = stream /\ users' = users
    BY <2>1 DEF arena, work
  <2>5. \A c \in Client : pc'[c] = pc[c] /\ op'[c] = op[c]
    BY <1>27, Threads, TypeOK DEF SwitchBack, Goto, TypeOK, Thread
  <2>6. CASE v # w
    BY <2>2, <2>6 DEF WorkerFits, Busy, Again
  <2>7. CASE v = w /\ stream > 0
    <3>1. pc'[w] = "enqueued" /\ op'[w] = "switchBack"
      BY <1>27, <2>7, TypeOK DEF SwitchBack, Goto, TypeOK, Thread
    <3>2. pool_state' = "empty" => \E c \in users' : Enqueuing(c)'
      <4>1. pool_state = "empty" => \E c \in users : Enqueuing(c)
        BY <2>7 DEF Lone, LoneStream
      <4> QED BY <2>4, <2>5, <4>1, TypeOK DEF Enqueuing, TypeOK
    <3>3. ASSUME NEW c \in Client, Up(c)' PROVE op'[c] # "spawn"
      <4>1. SUFFICES ASSUME op[c] = "spawn" PROVE FALSE
        BY <2>5
      <4>2. Up(c) /\ c \in Thread
        BY <2>5, <3>3 DEF Up, Thread
      <4>3. max_workers # 0
        BY <2>1, <4>2 DEF Lone, LoneUp
      <4>4. pc[c] \notin {"adjust", "fill", "won"}
        BY <2>7, <4>1, <4>2, <4>3, TypeOK DEF Lone, LoneUp, Places, TypeOK
      <4> QED BY <4>2, <4>4 DEF Up
    <3> QED BY <2>3, <2>4, <2>7, <3>1, <3>2, <3>3 DEF WorkerFits, Busy, Again
  <2>8. CASE v = w /\ ~(stream > 0)
    <3>1. pc'[w] = "outOfWork"
      BY <1>27, <2>8, TypeOK DEF SwitchBack, Goto, TypeOK, Thread
    <3> QED BY <2>3, <2>4, <2>8, <3>1 DEF WorkerFits, Busy, Again
  <2> QED BY <2>6, <2>7, <2>8
<1>28. ASSUME NEW c \in Client, TakeAsMaster(c) PROVE WorkerFits(v)'
  BY <1>28, Threads, TypeOK, BusyFull DEF TakeAsMaster, arena, demand, Thread, TypeOK,
     Places, Lone, LoneLimits, LoneUp, LoneWorker, WorkerFits, Again, Busy, Up,
     Enqueuing, InArena
<1> QED BY <1>1, <1>2, <1>3, <1>4, <1>5, <1>6, <1>7, <1>8, <1>9, <1>10, <1>11, <1>12, <1>13, <1>14, <1>15, <1>16, <1>17, <1>18, <1>19, <1>20, <1>21, <1>22, <1>23, <1>24, <1>25, <1>26, <1>27, <1>28, Next DEF Next, Advertise, WorkerStep

\* A step of a thread leaves the other threads where they are, with what they
\* have in hand.
OthersStay(t) == \A u \in Thread : u # t => /\ pc'[u] = pc[u] /\ op'[u] = op[u]
                                          /\ delta'[u] = delta[u]

\* A thread that does not come to raise the demand disturbs nobody who does,
\* when it leaves the arena as it is.
LEMMA UpStays ==
    ASSUME LoneUp, NEW t \in Thread, OthersStay(t), pc[t] # "away",
           pc'[t] \notin {"fill", "won", "adjust"},
           max_workers' = max_workers, pool_state' = "empty" => pool_state = "empty",
           stream = 0 => stream' = 0
    PROVE  LoneUp'
<1>1. \A u \in Thread : pc'[u] \in {"fill", "won", "adjust"} =>
         u # t /\ pc'[u] = pc[u] /\ op'[u] = op[u] /\ delta'[u] = delta[u]
  BY DEF OthersStay
<1>2. \A u, v \in Thread : Up(u)' /\ Up(v)' => u = v
  BY <1>1 DEF LoneUp, Up
<1>3. ASSUME NEW u \in Thread
      PROVE  /\ pc'[u] = "fill" => max_workers' = 1
             /\ pc'[u] = "adjust" => delta'[u] = max_workers'
             /\ pc'[u] = "adjust" /\ op'[u] = "spawn" => max_workers' = 0
             /\ pc'[u] = "won" /\ op'[u] = "spawn" => stream' = 0
             /\ pool_state' = "empty" => pc'[u] \notin {"won", "adjust"}
  BY <1>1 DEF LoneUp
<1>4. ASSUME NEW u \in Thread, Up(u)', max_workers' = 0 \/ pool_state' = "empty",
             NEW w \in Worker
      PROVE  pc'[w] = "away"
  <2>1. Up(u)
    BY <1>1, <1>4 DEF Up
  <2>2. \A v \in Worker : pc[v] = "away"
    BY <1>4, <2>1 DEF LoneUp
  <2>3. w # t /\ w \in Thread
    BY <2>2 DEF Thread
  <2> QED BY <2>2, <2>3 DEF OthersStay
<1> QED BY <1>2, <1>3, <1>4 DEF LoneUp

\* A worker that leaves the state of the arena as it is disturbs no client that
\* is to advertise what it has enqueued.
LEMMA StreamStays ==
    ASSUME LoneStream, users' = users,
           \A c \in users : pc'[c] = pc[c] /\ op'[c] = op[c] /\ snap'[c] = snap[c],
           max_workers' = max_workers, stream' > 0 => stream > 0,
           pool_state' = "empty" => pool_state = "empty",
           \A v \in Worker : pool_state' = v /\ pc'[v] = "setEmpty" /\ stream' > 0
                               => pool_state = v /\ pc[v] = "setEmpty"
    PROVE  LoneStream'
<1>1. pool_state' = "empty" /\ stream' > 0 => \E c \in users' : Enqueuing(c)'
  BY DEF LoneStream, Enqueuing
<1>2. ASSUME NEW v \in Worker, pool_state' = v, pc'[v] = "setEmpty", stream' > 0
      PROVE  \E c \in users' : /\ op'[c] # "spawn"
                               /\ pc'[c] \in {"enqueued", "read", "swap"}
                               /\ pc'[c] = "swap" => snap'[c] = v
  BY <1>2 DEF LoneStream
<1>3. max_workers' = 0 /\ stream' > 0 => \E c \in users' : pc'[c] = "enqueued"
  BY DEF LoneStream
<1> QED BY <1>1, <1>2, <1>3 DEF LoneStream

\* One thread at a time raises the demand.
LEMMA LoneUpStep ==
    ASSUME Assumptions, TypeOK, TypeOK', Places, Places', Books, Books', Lone, Next
    PROVE  LoneUp'
<1>1. ASSUME NEW t \in Thread, Enqueue(t) PROVE LoneUp'
  BY <1>1, Threads, TypeOK, BusyFull, UpAlone DEF Enqueue, MayProduce, arena, demand,
     Thread, TypeOK, Places, Lone, LoneLimits, LoneUp, LoneWorker, WorkerFits,
     LoneStream, Again, Busy, Up, Enqueuing, InArena
<1>2. ASSUME NEW t \in Thread, Spawn(t) PROVE LoneUp'
  <2>1. OthersStay(t) /\ pc[t] \in {"idle", "exec"} /\ pc'[t] \notin {"fill", "won", "adjust"}
    BY <1>2, TypeOK DEF Spawn, MayProduce, OthersStay, TypeOK
  <2>2. UNCHANGED <<max_workers, pool_state, stream>>
    BY <1>2 DEF Spawn, arena
  <2> QED BY <2>1, <2>2, UpStays DEF Lone
<1>3. ASSUME NEW t \in Thread, SpawnReadingEarly(t) PROVE LoneUp'
  <2>1. OthersStay(t) /\ pc[t] \in {"idle", "exec"} /\ pc'[t] \notin {"fill", "won", "adjust"}
    BY <1>3, TypeOK DEF SpawnReadingEarly, MayProduce, OthersStay, TypeOK
  <2>2. UNCHANGED <<max_workers, pool_state, stream>>
    BY <1>3 DEF SpawnReadingEarly, arena
  <2> QED BY <2>1, <2>2, UpStays DEF Lone
<1>4. ASSUME NEW t \in Thread, Publish(t) PROVE LoneUp'
  BY <1>4, Threads, TypeOK, BusyFull, UpAlone DEF Publish, Goto, GoOnIf, Return, Back,
     arena, demand, Thread, TypeOK, Places, Lone, LoneLimits, LoneUp, LoneWorker,
     WorkerFits, LoneStream, Again, Busy, Up, Enqueuing, InArena
<1>5. ASSUME NEW t \in Thread, CheckMandatory(t) PROVE LoneUp'
  BY <1>5, Threads, TypeOK, BusyFull, UpAlone DEF CheckMandatory, Goto,
     NeedsMandatoryWorker, arena, demand, work, Thread, TypeOK, Places, Lone,
     LoneLimits, LoneUp, LoneWorker, WorkerFits, LoneStream, Again, Busy, Up, Enqueuing,
     InArena
<1>6. ASSUME NEW t \in Thread, Fill(t) PROVE LoneUp'
  BY <1>6, Threads, TypeOK, BusyFull, UpAlone DEF Fill, Goto, demand, work, Thread,
     TypeOK, Places, Lone, LoneLimits, LoneUp, LoneWorker, WorkerFits, LoneStream,
     Again, Busy, Up, Enqueuing, InArena
<1>7. ASSUME NEW t \in Thread, ReadState(t) PROVE LoneUp'
  BY <1>7, Threads, TypeOK, BusyFull, UpAlone DEF ReadState, Goto, GoOnIf, Return, Back,
     arena, demand, work, Thread, TypeOK, Places, Lone, LoneLimits, LoneUp, LoneWorker,
     WorkerFits, LoneStream, Again, Busy, Up, Enqueuing, InArena
<1>8. ASSUME NEW t \in Thread, Swap(t) PROVE LoneUp'
  BY <1>8, Threads, TypeOK, BusyFull, UpAlone DEF Swap, Goto, GoOnIf, Return, Back,
     demand, work, Thread, TypeOK, Places, Lone, LoneLimits, LoneUp, LoneWorker,
     WorkerFits, LoneStream, Again, Busy, Up, Enqueuing, InArena
<1>9. ASSUME NEW t \in Thread, SwapEmpty(t) PROVE LoneUp'
  BY <1>9, Threads, TypeOK, BusyFull, UpAlone DEF SwapEmpty, Goto, GoOnIf, Return, Back,
     demand, work, Thread, TypeOK, Places, Lone, LoneLimits, LoneUp, LoneWorker,
     WorkerFits, LoneStream, Again, Busy, Up, Enqueuing, InArena
<1>10. ASSUME NEW t \in Thread, Won(t) PROVE LoneUp'
  BY <1>10, Threads, TypeOK, BusyFull, UpAlone DEF Won, Goto, Return, Back, demand,
     work, Thread, TypeOK, Places, Lone, LoneLimits, LoneUp, LoneWorker, WorkerFits,
     LoneStream, Again, Busy, Up, Enqueuing, InArena
<1>11. ASSUME NEW t \in Thread, AdjustUp(t) PROVE LoneUp'
  <2>1. pc[t] = "adjust" /\ pc' = [pc EXCEPT ![t] = Back(t)]
    BY <1>11 DEF AdjustUp, Return, Goto
  <2>2. \A u \in Thread : u # t => pc[u] \notin {"fill", "won", "adjust"}
    BY <2>1 DEF Lone, LoneUp, Up
  <2>3. \A u \in Thread : pc'[u] \notin {"fill", "won", "adjust"}
    BY <2>1, <2>2, TypeOK DEF Back, TypeOK
  <2> QED BY <2>3 DEF LoneUp, Up
<1>12. ASSUME NEW w \in Worker, EnterArena(w) PROVE LoneUp'
  <2>1. \A t \in Thread : ~Up(t)
    BY <1>12, Welcome
  <2>2. \A t \in Thread : ~Up(t)'
    BY <1>12, <2>1, TypeOK DEF EnterArena, Goto, Up, TypeOK, Thread
  <2> QED BY <2>2 DEF LoneUp, Up
<1>13. ASSUME NEW w \in Worker, Revoked(w) PROVE LoneUp'
  <2>1. OthersStay(w) /\ pc[w] = "seek" /\ pc'[w] \notin {"fill", "won", "adjust"}
    BY <1>13, TypeOK DEF Revoked, Goto, OthersStay, TypeOK, Thread
  <2>2. /\ max_workers' = max_workers
        /\ pool_state' = "empty" => pool_state = "empty"
        /\ stream = 0 => stream' = 0
    BY <1>13, TypeOK, Threads DEF Revoked, arena, work, TypeOK
  <2> QED BY <2>1, <2>2, UpStays DEF Lone, Thread
<1>14. ASSUME NEW w \in Worker, TakeEnqueued(w) PROVE LoneUp'
  <2>1. OthersStay(w) /\ pc[w] = "seek" /\ pc'[w] \notin {"fill", "won", "adjust"}
    BY <1>14, TypeOK DEF TakeEnqueued, Goto, OthersStay, TypeOK, Thread
  <2>2. /\ max_workers' = max_workers
        /\ pool_state' = "empty" => pool_state = "empty"
        /\ stream = 0 => stream' = 0
    BY <1>14, TypeOK, Threads DEF TakeEnqueued, arena, TypeOK
  <2> QED BY <2>1, <2>2, UpStays DEF Lone, Thread
<1>15. ASSUME NEW w \in Worker, Steal(w) PROVE LoneUp'
  <2>1. OthersStay(w) /\ pc[w] = "seek" /\ pc'[w] \notin {"fill", "won", "adjust"}
    BY <1>15, TypeOK DEF Steal, Goto, OthersStay, TypeOK, Thread
  <2>2. /\ max_workers' = max_workers
        /\ pool_state' = "empty" => pool_state = "empty"
        /\ stream = 0 => stream' = 0
    BY <1>15, TypeOK, Threads DEF Steal, arena, TypeOK
  <2> QED BY <2>1, <2>2, UpStays DEF Lone, Thread
<1>16. ASSUME NEW w \in Worker, FindNothing(w) PROVE LoneUp'
  <2>1. OthersStay(w) /\ pc[w] = "seek" /\ pc'[w] \notin {"fill", "won", "adjust"}
    BY <1>16, TypeOK DEF FindNothing, Goto, OthersStay, TypeOK, Thread
  <2>2. /\ max_workers' = max_workers
        /\ pool_state' = "empty" => pool_state = "empty"
        /\ stream = 0 => stream' = 0
    BY <1>16, TypeOK, Threads DEF FindNothing, arena, work, TypeOK
  <2> QED BY <2>1, <2>2, UpStays DEF Lone, Thread
<1>17. ASSUME NEW w \in Worker, Finish(w) PROVE LoneUp'
  <2>1. OthersStay(w) /\ pc[w] = "exec" /\ pc'[w] \notin {"fill", "won", "adjust"}
    BY <1>17, TypeOK DEF Finish, Goto, OthersStay, TypeOK, Thread
  <2>2. /\ max_workers' = max_workers
        /\ pool_state' = "empty" => pool_state = "empty"
        /\ stream = 0 => stream' = 0
    BY <1>17, TypeOK, Threads DEF Finish, arena, work, TypeOK
  <2> QED BY <2>1, <2>2, UpStays DEF Lone, Thread
<1>18. ASSUME NEW w \in Worker, OutOfWork(w) PROVE LoneUp'
  <2>1. OthersStay(w) /\ pc[w] = "outOfWork" /\ pc'[w] \notin {"fill", "won", "adjust"}
    BY <1>18, TypeOK DEF OutOfWork, Goto, OthersStay, TypeOK, Thread
  <2>2. /\ max_workers' = max_workers
        /\ pool_state' = "empty" => pool_state = "empty"
        /\ stream = 0 => stream' = 0
    BY <1>18, TypeOK, Threads DEF OutOfWork, arena, work, TypeOK
  <2> QED BY <2>1, <2>2, UpStays DEF Lone, Thread
<1>19. ASSUME NEW w \in Worker, LeaveArena(w) PROVE LoneUp'
  <2>1. OthersStay(w) /\ pc[w] = "leaving" /\ pc'[w] \notin {"fill", "won", "adjust"}
    BY <1>19, TypeOK DEF LeaveArena, Goto, OthersStay, TypeOK, Thread
  <2>2. /\ max_workers' = max_workers
        /\ pool_state' = "empty" => pool_state = "empty"
        /\ stream = 0 => stream' = 0
    BY <1>19, TypeOK, Threads DEF LeaveArena, arena, work, TypeOK
  <2> QED BY <2>1, <2>2, UpStays DEF Lone, Thread
<1>20. ASSUME NEW w \in Worker, Look(w) PROVE LoneUp'
  <2>1. OthersStay(w) /\ pc[w] = "look" /\ pc'[w] \notin {"fill", "won", "adjust"}
    BY <1>20, TypeOK DEF Look, Goto, OthersStay, TypeOK, Thread
  <2>2. /\ max_workers' = max_workers
        /\ pool_state' = "empty" => pool_state = "empty"
        /\ stream = 0 => stream' = 0
    BY <1>20, TypeOK, Threads DEF Look, arena, work, TypeOK
  <2> QED BY <2>1, <2>2, UpStays DEF Lone, Thread
<1>21. ASSUME NEW w \in Worker, Mark(w) PROVE LoneUp'
  <2>1. OthersStay(w) /\ pc[w] = "mark" /\ pc'[w] \notin {"fill", "won", "adjust"}
    BY <1>21, TypeOK DEF Mark, Goto, OthersStay, TypeOK, Thread
  <2>2. /\ max_workers' = max_workers
        /\ pool_state' = "empty" => pool_state = "empty"
        /\ stream = 0 => stream' = 0
    BY <1>21, TypeOK, Threads DEF Mark, work, TypeOK
  <2> QED BY <2>1, <2>2, UpStays DEF Lone, Thread
<1>22. ASSUME NEW w \in Worker, ScanPools(w) PROVE LoneUp'
  <2>1. OthersStay(w) /\ pc[w] = "scan" /\ pc'[w] \notin {"fill", "won", "adjust"}
    BY <1>22, TypeOK DEF ScanPools, Goto, OthersStay, TypeOK, Thread
  <2>2. /\ max_workers' = max_workers
        /\ pool_state' = "empty" => pool_state = "empty"
        /\ stream = 0 => stream' = 0
    BY <1>22, TypeOK, Threads DEF ScanPools, arena, work, TypeOK
  <2> QED BY <2>1, <2>2, UpStays DEF Lone, Thread
<1>23. ASSUME NEW w \in Worker, Test(w) PROVE LoneUp'
  <2>1. OthersStay(w) /\ pc[w] = "test" /\ pc'[w] \notin {"fill", "won", "adjust"}
    BY <1>23, TypeOK DEF Test, Goto, OthersStay, TypeOK, Thread
  <2>2. /\ max_workers' = max_workers
        /\ pool_state' = "empty" => pool_state = "empty"
        /\ stream = 0 => stream' = 0
    BY <1>23, TypeOK, Threads DEF Test, arena, work, TypeOK
  <2> QED BY <2>1, <2>2, UpStays DEF Lone, Thread
<1>24. ASSUME NEW w \in Worker, SetEmpty(w) PROVE LoneUp'
  BY <1>24, Threads, TypeOK, BusyFull, UpAlone DEF SetEmpty, Goto, StillMarked, demand,
     work, Thread, TypeOK, Places, Lone, LoneLimits, LoneUp, LoneWorker, WorkerFits,
     LoneStream, Again, Busy, Up, Enqueuing, InArena
<1>25. ASSUME NEW w \in Worker, Undo(w) PROVE LoneUp'
  <2>1. OthersStay(w) /\ pc[w] = "undo" /\ pc'[w] \notin {"fill", "won", "adjust"}
    BY <1>25, TypeOK DEF Undo, Goto, OthersStay, TypeOK, Thread
  <2>2. /\ max_workers' = max_workers
        /\ pool_state' = "empty" => pool_state = "empty"
        /\ stream = 0 => stream' = 0
    BY <1>25, TypeOK, Threads DEF Undo, work, TypeOK
  <2> QED BY <2>1, <2>2, UpStays DEF Lone, Thread
<1>26. ASSUME NEW w \in Worker, AdjustDown(w) PROVE LoneUp'
  <2>1. OthersStay(w) /\ pc[w] = "adjustDown" /\ pc'[w] \notin {"fill", "won", "adjust"}
    BY <1>26, TypeOK DEF AdjustDown, Goto, OthersStay, TypeOK, Thread
  <2>2. /\ max_workers' = max_workers
        /\ pool_state' = "empty" => pool_state = "empty"
        /\ stream = 0 => stream' = 0
    BY <1>26, TypeOK, Threads DEF AdjustDown, arena, work, TypeOK
  <2> QED BY <2>1, <2>2, UpStays DEF Lone, Thread
<1>27. ASSUME NEW w \in Worker, SwitchBack(w) PROVE LoneUp'
  <2>1. OthersStay(w) /\ pc[w] = "switchBack" /\ pc'[w] \notin {"fill", "won", "adjust"}
    BY <1>27, TypeOK DEF SwitchBack, Goto, OthersStay, TypeOK, Thread
  <2>2. /\ max_workers' = max_workers
        /\ pool_state' = "empty" => pool_state = "empty"
        /\ stream = 0 => stream' = 0
    BY <1>27, TypeOK, Threads DEF SwitchBack, arena, work, TypeOK
  <2> QED BY <2>1, <2>2, UpStays DEF Lone, Thread
<1>28. ASSUME NEW c \in Client, TakeAsMaster(c) PROVE LoneUp'
  <2>1. UNCHANGED <<pc, op, delta, max_workers, pool_state>> /\ (stream = 0 => stream' = 0)
    BY <1>28, TypeOK DEF TakeAsMaster, arena, TypeOK
  <2>2. OthersStay(c) /\ pc[c] = "idle" /\ pc'[c] = "idle"
    BY <1>28, <2>1 DEF TakeAsMaster, OthersStay
  <2> QED BY <2>1, <2>2, UpStays DEF Lone, Thread
<1> QED BY <1>1, <1>2, <1>3, <1>4, <1>5, <1>6, <1>7, <1>8, <1>9, <1>10, <1>11, <1>12, <1>13, <1>14, <1>15, <1>16, <1>17, <1>18, <1>19, <1>20, <1>21, <1>22, <1>23, <1>24, <1>25, <1>26, <1>27, <1>28, Next DEF Next, Advertise, WorkerStep

\* Somebody goes on to advertise what was enqueued.
LEMMA LoneStreamStep ==
    ASSUME Assumptions, TypeOK, TypeOK', Places, Places', Books, Books', Lone, Next
    PROVE  LoneStream'
<1>1. ASSUME NEW t \in Thread, Enqueue(t) PROVE LoneStream'
  BY <1>1, Threads, TypeOK, BusyFull, AtWork DEF Enqueue, MayProduce, arena, demand,
     Thread, TypeOK, Places, Lone, LoneLimits, LoneUp, LoneWorker, WorkerFits,
     LoneStream, Again, Busy, Up, Enqueuing, InArena
<1>2. ASSUME NEW t \in Thread, Spawn(t) PROVE LoneStream'
  BY <1>2, Threads, TypeOK, BusyFull, AtWork DEF Spawn, MayProduce, arena, demand,
     Thread, TypeOK, Places, Lone, LoneLimits, LoneUp, LoneWorker, WorkerFits,
     LoneStream, Again, Busy, Up, Enqueuing, InArena
<1>3. ASSUME NEW t \in Thread, SpawnReadingEarly(t) PROVE LoneStream'
  BY <1>3, Threads, TypeOK, BusyFull, AtWork DEF SpawnReadingEarly, MayProduce, arena,
     demand, Thread, TypeOK, Places, Lone, LoneLimits, LoneUp, LoneWorker, WorkerFits,
     LoneStream, Again, Busy, Up, Enqueuing, InArena
<1>4. ASSUME NEW t \in Thread, Publish(t) PROVE LoneStream'
  <2>1. pc[t] = "publish" /\ UNCHANGED <<pool_state, max_workers, stream, users, snap>>
    BY <1>4 DEF Publish, GoOnIf, Return, Goto, arena
  <2>2. \A c \in Client : c # t => pc'[c] = pc[c] /\ op'[c] = op[c]
    BY <1>4, TypeOK DEF Publish, GoOnIf, Return, Goto, TypeOK, Thread
  <2>3. \A w \in Worker : pool_state = w => pc[w] # "publish"
    BY DEF Places
  <2>4. \A w \in Worker : pool_state = w => pc'[w] = pc[w]
    BY <1>4, <2>1, <2>3, TypeOK DEF Publish, GoOnIf, Return, Goto, TypeOK, Thread
  <2>5. users \subseteq Client
    BY DEF TypeOK
  <2>6. \A c \in users : pc[c] # "publish" => pc'[c] = pc[c] /\ op'[c] = op[c]
    BY <2>1, <2>2, <2>5
  <2>7. pool_state' = "empty" /\ stream' > 0 => \E c \in users' : Enqueuing(c)'
    BY <2>1, <2>6 DEF Lone, LoneStream, Enqueuing
  <2>8. ASSUME NEW w \in Worker, pool_state' = w, pc'[w] = "setEmpty", stream' > 0
        PROVE  \E c \in users' : /\ op'[c] # "spawn"
                                 /\ pc'[c] \in {"enqueued", "read", "swap"}
                                 /\ pc'[c] = "swap" => snap'[c] = w
    <3>1. pool_state = w /\ pc[w] = "setEmpty" /\ stream > 0
      BY <2>1, <2>4, <2>8
    <3>2. PICK c \in users : /\ op[c] # "spawn"
                             /\ pc[c] \in {"enqueued", "read", "swap"}
                             /\ pc[c] = "swap" => snap[c] = w
      BY <3>1 DEF Lone, LoneStream
    <3> QED BY <2>1, <2>6, <3>2
  <2>9. max_workers' = 0 /\ stream' > 0 => \E c \in users' : pc'[c] = "enqueued"
    BY <2>1, <2>6 DEF Lone, LoneStream
  <2> QED BY <2>7, <2>8, <2>9 DEF LoneStream
<1>5. ASSUME NEW t \in Thread, CheckMandatory(t) PROVE LoneStream'
  BY <1>5, Threads, TypeOK, BusyFull, AtWork DEF CheckMandatory, Goto,
     NeedsMandatoryWorker, arena, demand, work, Thread, TypeOK, Places, Lone,
     LoneLimits, LoneUp, LoneWorker, WorkerFits, LoneStream, Again, Busy, Up, Enqueuing,
     InArena
<1>6. ASSUME NEW t \in Thread, Fill(t) PROVE LoneStream'
  BY <1>6, Threads, TypeOK, BusyFull, AtWork DEF Fill, Goto, demand, work, Thread,
     TypeOK, Places, Lone, LoneLimits, LoneUp, LoneWorker, WorkerFits, LoneStream,
     Again, Busy, Up, Enqueuing, InArena
<1>7. ASSUME NEW t \in Thread, ReadState(t) PROVE LoneStream'
  BY <1>7, Threads, TypeOK, BusyFull, AtWork DEF ReadState, Goto, GoOnIf, Return, Back,
     arena, demand, work, Thread, TypeOK, Places, Lone, LoneLimits, LoneUp, LoneWorker,
     WorkerFits, LoneStream, Again, Busy, Up, Enqueuing, InArena
<1>8. ASSUME NEW t \in Thread, Swap(t) PROVE LoneStream'
  BY <1>8, Threads, TypeOK, BusyFull, AtWork DEF Swap, Goto, GoOnIf, Return, Back,
     demand, work, Thread, TypeOK, Places, Lone, LoneLimits, LoneUp, LoneWorker,
     WorkerFits, LoneStream, Again, Busy, Up, Enqueuing, InArena
<1>9. ASSUME NEW t \in Thread, SwapEmpty(t) PROVE LoneStream'
  BY <1>9, Threads, TypeOK, BusyFull, AtWork DEF SwapEmpty, Goto, GoOnIf, Return, Back,
     demand, work, Thread, TypeOK, Places, Lone, LoneLimits, LoneUp, LoneWorker,
     WorkerFits, LoneStream, Again, Busy, Up, Enqueuing, InArena
<1>10. ASSUME NEW t \in Thread, Won(t) PROVE LoneStream'
  BY <1>10, Threads, TypeOK, BusyFull, AtWork DEF Won, Goto, Return, Back, demand, work,
     Thread, TypeOK, Places, Lone, LoneLimits, LoneUp, LoneWorker, WorkerFits,
     LoneStream, Again, Busy, Up, Enqueuing, InArena
<1>11. ASSUME NEW t \in Thread, AdjustUp(t) PROVE LoneStream'
  BY <1>11, Threads, TypeOK, BusyFull, AtWork DEF AdjustUp, Goto, Return, Back,
     AdjustDemand, Smaller, arena, work, Thread, TypeOK, Places, Lone, LoneLimits,
     LoneUp, LoneWorker, WorkerFits, LoneStream, Again, Busy, Up, Enqueuing, InArena
<1>12. ASSUME NEW w \in Worker, EnterArena(w) PROVE LoneStream'
  BY <1>12, Threads, TypeOK, BusyFull, AtWork DEF EnterArena, Goto, arena, demand, work,
     Thread, TypeOK, Places, Lone, LoneLimits, LoneUp, LoneWorker, WorkerFits,
     LoneStream, Again, Busy, Up, Enqueuing, InArena
<1>13. ASSUME NEW w \in Worker, Revoked(w) PROVE LoneStream'
  <2>1. /\ users' = users /\ max_workers' = max_workers
        /\ stream' > 0 => stream > 0
        /\ pool_state' = "empty" => pool_state = "empty"
    BY <1>13, TypeOK, Threads DEF Revoked, arena, work, TypeOK
  <2>2. \A c \in users : pc'[c] = pc[c] /\ op'[c] = op[c] /\ snap'[c] = snap[c]
    BY <1>13, TypeOK, Threads DEF Revoked, Goto, TypeOK, Thread
  <2>3. \A v \in Worker : pool_state' = v /\ pc'[v] = "setEmpty" /\ stream' > 0
                            => pool_state = v /\ pc[v] = "setEmpty"
    BY <1>13, TypeOK, Threads DEF Revoked, Goto, arena, work, NoFifoTasks, TypeOK, Thread
  <2> QED BY <2>1, <2>2, <2>3, StreamStays DEF Lone
<1>14. ASSUME NEW w \in Worker, TakeEnqueued(w) PROVE LoneStream'
  <2>1. /\ users' = users /\ max_workers' = max_workers
        /\ stream' > 0 => stream > 0
        /\ pool_state' = "empty" => pool_state = "empty"
    BY <1>14, TypeOK, Threads DEF TakeEnqueued, arena, TypeOK
  <2>2. \A c \in users : pc'[c] = pc[c] /\ op'[c] = op[c] /\ snap'[c] = snap[c]
    BY <1>14, TypeOK, Threads DEF TakeEnqueued, Goto, TypeOK, Thread
  <2>3. \A v \in Worker : pool_state' = v /\ pc'[v] = "setEmpty" /\ stream' > 0
                            => pool_state = v /\ pc[v] = "setEmpty"
    BY <1>14, TypeOK, Threads DEF TakeEnqueued, Goto, arena, NoFifoTasks, TypeOK, Thread
  <2> QED BY <2>1, <2>2, <2>3, StreamStays DEF Lone
<1>15. ASSUME NEW w \in Worker, Steal(w) PROVE LoneStream'
  <2>1. /\ users' = users /\ max_workers' = max_workers
        /\ stream' > 0 => stream > 0
        /\ pool_state' = "empty" => pool_state = "empty"
    BY <1>15, TypeOK, Threads DEF Steal, arena, TypeOK
  <2>2. \A c \in users : pc'[c] = pc[c] /\ op'[c] = op[c] /\ snap'[c] = snap[c]
    BY <1>15, TypeOK, Threads DEF Steal, Goto, TypeOK, Thread
  <2>3. \A v \in Worker : pool_state' = v /\ pc'[v] = "setEmpty" /\ stream' > 0
                            => pool_state = v /\ pc[v] = "setEmpty"
    BY <1>15, TypeOK, Threads DEF Steal, Goto, arena, NoFifoTasks, TypeOK, Thread
  <2> QED BY <2>1, <2>2, <2>3, StreamStays DEF Lone
<1>16. ASSUME NEW w \in Worker, FindNothing(w) PROVE LoneStream'
  <2>1. /\ users' = users /\ max_workers' = max_workers
        /\ stream' > 0 => stream > 0
        /\ pool_state' = "empty" => pool_state = "empty"
    BY <1>16, TypeOK, Threads DEF FindNothing, arena, work, TypeOK
  <2>2. \A c \in users : pc'[c] = pc[c] /\ op'[c] = op[c] /\ snap'[c] = snap[c]
    BY <1>16, TypeOK, Threads DEF FindNothing, Goto, TypeOK, Thread
  <2>3. \A v \in Worker : pool_state' = v /\ pc'[v] = "setEmpty" /\ stream' > 0
                            => pool_state = v /\ pc[v] = "setEmpty"
    BY <1>16, TypeOK, Threads DEF FindNothing, Goto, arena, work, NoFifoTasks, TypeOK, Thread
  <2> QED BY <2>1, <2>2, <2>3, StreamStays DEF Lone
<1>17. ASSUME NEW w \in Worker, Finish(w) PROVE LoneStream'
  <2>1. /\ users' = users /\ max_workers' = max_workers
        /\ stream' > 0 => stream > 0
        /\ pool_state' = "empty" => pool_state = "empty"
    BY <1>17, TypeOK, Threads DEF Finish, arena, work, TypeOK
  <2>2. \A c \in users : pc'[c] = pc[c] /\ op'[c] = op[c] /\ snap'[c] = snap[c]
    BY <1>17, TypeOK, Threads DEF Finish, Goto, TypeOK, Thread
  <2>3. \A v \in Worker : pool_state' = v /\ pc'[v] = "setEmpty" /\ stream' > 0
                            => pool_state = v /\ pc[v] = "setEmpty"
    BY <1>17, TypeOK, Threads DEF Finish, Goto, arena, work, NoFifoTasks, TypeOK, Thread
  <2> QED BY <2>1, <2>2, <2>3, StreamStays DEF Lone
<1>18. ASSUME NEW w \in Worker, OutOfWork(w) PROVE LoneStream'
  <2>1. /\ users' = users /\ max_workers' = max_workers
        /\ stream' > 0 => stream > 0
        /\ pool_state' = "empty" => pool_state = "empty"
    BY <1>18, TypeOK, Threads DEF OutOfWork, arena, work, TypeOK
  <2>2. \A c \in users : pc'[c] = pc[c] /\ op'[c] = op[c] /\ snap'[c] = snap[c]
    BY <1>18, TypeOK, Threads DEF OutOfWork, Goto, TypeOK, Thread
  <2>3. \A v \in Worker : pool_state' = v /\ pc'[v] = "setEmpty" /\ stream' > 0
                            => pool_state = v /\ pc[v] = "setEmpty"
    BY <1>18, TypeOK, Threads DEF OutOfWork, Goto, arena, work, NoFifoTasks, TypeOK, Thread
  <2> QED BY <2>1, <2>2, <2>3, StreamStays DEF Lone
<1>19. ASSUME NEW w \in Worker, LeaveArena(w) PROVE LoneStream'
  <2>1. /\ users' = users /\ max_workers' = max_workers
        /\ stream' > 0 => stream > 0
        /\ pool_state' = "empty" => pool_state = "empty"
    BY <1>19, TypeOK, Threads DEF LeaveArena, arena, work, TypeOK
  <2>2. \A c \in users : pc'[c] = pc[c] /\ op'[c] = op[c] /\ snap'[c] = snap[c]
    BY <1>19, TypeOK, Threads DEF LeaveArena, Goto, TypeOK, Thread
  <2>3. \A v \in Worker : pool_state' = v /\ pc'[v] = "setEmpty" /\ stream' > 0
                            => pool_state = v /\ pc[v] = "setEmpty"
    BY <1>19, TypeOK, Threads DEF LeaveArena, Goto, arena, work, NoFifoTasks, TypeOK, Thread
  <2> QED BY <2>1, <2>2, <2>3, StreamStays DEF Lone
<1>20. ASSUME NEW w \in Worker, Look(w) PROVE LoneStream'
  <2>1. /\ users' = users /\ max_workers' = max_workers
        /\ stream' > 0 => stream > 0
        /\ pool_state' = "empty" => pool_state = "empty"
    BY <1>20, TypeOK, Threads DEF Look, arena, work, TypeOK
  <2>2. \A c \in users : pc'[c] = pc[c] /\ op'[c] = op[c] /\ snap'[c] = snap[c]
    BY <1>20, TypeOK, Threads DEF Look, Goto, TypeOK, Thread
  <2>3. \A v \in Worker : pool_state' = v /\ pc'[v] = "setEmpty" /\ stream' > 0
                            => pool_state = v /\ pc[v] = "setEmpty"
    BY <1>20, TypeOK, Threads DEF Look, Goto, arena, work, NoFifoTasks, TypeOK, Thread
  <2> QED BY <2>1, <2>2, <2>3, StreamStays DEF Lone
<1>21. ASSUME NEW w \in Worker, Mark(w) PROVE LoneStream'
  <2>1. /\ users' = users /\ max_workers' = max_workers
        /\ stream' > 0 => stream > 0
        /\ pool_state' = "empty" => pool_state = "empty"
    BY <1>21, TypeOK, Threads DEF Mark, work, TypeOK
  <2>2. \A c \in users : pc'[c] = pc[c] /\ op'[c] = op[c] /\ snap'[c] = snap[c]
    BY <1>21, TypeOK, Threads DEF Mark, Goto, TypeOK, Thread
  <2>3. \A v \in Worker : pool_state' = v /\ pc'[v] = "setEmpty" /\ stream' > 0
                            => pool_state = v /\ pc[v] = "setEmpty"
    BY <1>21, TypeOK, Threads DEF Mark, Goto, work, NoFifoTasks, TypeOK, Thread
  <2> QED BY <2>1, <2>2, <2>3, StreamStays DEF Lone
<1>22. ASSUME NEW w \in Worker, ScanPools(w) PROVE LoneStream'
  <2>1. /\ users' = users /\ max_workers' = max_workers
        /\ stream' > 0 => stream > 0
        /\ pool_state' = "empty" => pool_state = "empty"
    BY <1>22, TypeOK, Threads DEF ScanPools, arena, work, TypeOK
  <2>2. \A c \in users : pc'[c] = pc[c] /\ op'[c] = op[c] /\ snap'[c] = snap[c]
    BY <1>22, TypeOK, Threads DEF ScanPools, Goto, TypeOK, Thread
  <2>3. \A v \in Worker : pool_state' = v /\ pc'[v] = "setEmpty" /\ stream' > 0
                            => pool_state = v /\ pc[v] = "setEmpty"
    BY <1>22, TypeOK, Threads DEF ScanPools, Goto, arena, work, NoFifoTasks, TypeOK, Thread
  <2> QED BY <2>1, <2>2, <2>3, StreamStays DEF Lone
<1>23. ASSUME NEW w \in Worker, Test(w) PROVE LoneStream'
  <2>1. /\ users' = users /\ max_workers' = max_workers
        /\ stream' > 0 => stream > 0
        /\ pool_state' = "empty" => pool_state = "empty"
    BY <1>23, TypeOK, Threads DEF Test, arena, work, TypeOK
  <2>2. \A c \in users : pc'[c] = pc[c] /\ op'[c] = op[c] /\ snap'[c] = snap[c]
    BY <1>23, TypeOK, Threads DEF Test, Goto, TypeOK, Thread
  <2>3. \A v \in Worker : pool_state' = v /\ pc'[v] = "setEmpty" /\ stream' > 0
                            => pool_state = v /\ pc[v] = "setEmpty"
    BY <1>23, TypeOK, Threads DEF Test, Goto, arena, work, NoFifoTasks, TypeOK, Thread
  <2> QED BY <2>1, <2>2, <2>3, StreamStays DEF Lone
<1>24. ASSUME NEW w \in Worker, SetEmpty(w) PROVE LoneStream'
  <2>1. pc[w] = "setEmpty" /\ max_workers = 1 /\ UNCHANGED <<max_workers, stream, users, op, snap>>
    BY <1>24 DEF SetEmpty, Goto, work, Lone, LoneWorker, WorkerFits, Busy
  <2>2. \A c \in Client : pc'[c] = pc[c]
    BY <1>24, Threads, TypeOK DEF SetEmpty, Goto, TypeOK, Thread
  <2>3. pool_state = w \/ pool_state = "full"
    BY <2>1, BusyFull DEF Busy
  <2>4. CASE pool_state = w
    <3>1. pool_state' = "empty"
      BY <1>24, <2>4 DEF SetEmpty, StillMarked
    <3>2. stream > 0 => \E c \in users : Enqueuing(c)
      <4>1. SUFFICES ASSUME stream > 0 PROVE \E c \in users : Enqueuing(c)
        OBVIOUS
      <4>2. PICK c \in users : op[c] # "spawn" /\ pc[c] \in {"enqueued", "read", "swap"}
        BY <2>1, <2>4, <4>1 DEF Lone, LoneStream
      <4> QED BY <4>2 DEF Enqueuing
    <3>3. stream' > 0 => \E c \in users' : Enqueuing(c)'
      BY <2>1, <2>2, <3>2, TypeOK DEF Enqueuing, TypeOK
    <3> QED BY <2>1, <3>1, <3>3, Threads DEF LoneStream
  <2>5. CASE pool_state = "full"
    <3>1. pool_state' = "full"
      BY <1>24, <2>5, Threads DEF SetEmpty, StillMarked
    <3> QED BY <2>1, <3>1, Threads DEF LoneStream
  <2> QED BY <2>3, <2>4, <2>5
<1>25. ASSUME NEW w \in Worker, Undo(w) PROVE LoneStream'
  <2>1. /\ users' = users /\ max_workers' = max_workers
        /\ stream' > 0 => stream > 0
        /\ pool_state' = "empty" => pool_state = "empty"
    BY <1>25, TypeOK, Threads DEF Undo, work, TypeOK
  <2>2. \A c \in users : pc'[c] = pc[c] /\ op'[c] = op[c] /\ snap'[c] = snap[c]
    BY <1>25, TypeOK, Threads DEF Undo, Goto, TypeOK, Thread
  <2>3. \A v \in Worker : pool_state' = v /\ pc'[v] = "setEmpty" /\ stream' > 0
                            => pool_state = v /\ pc[v] = "setEmpty"
    BY <1>25, TypeOK, Threads DEF Undo, Goto, work, NoFifoTasks, TypeOK, Thread
  <2> QED BY <2>1, <2>2, <2>3, StreamStays DEF Lone
<1>26. ASSUME NEW w \in Worker, AdjustDown(w) PROVE LoneStream'
  <2>1. /\ users' = users /\ max_workers' = max_workers
        /\ stream' > 0 => stream > 0
        /\ pool_state' = "empty" => pool_state = "empty"
    BY <1>26, TypeOK, Threads DEF AdjustDown, arena, work, TypeOK
  <2>2. \A c \in users : pc'[c] = pc[c] /\ op'[c] = op[c] /\ snap'[c] = snap[c]
    BY <1>26, TypeOK, Threads DEF AdjustDown, Goto, TypeOK, Thread
  <2>3. \A v \in Worker : pool_state' = v /\ pc'[v] = "setEmpty" /\ stream' > 0
                            => pool_state = v /\ pc[v] = "setEmpty"
    BY <1>26, TypeOK, Threads DEF AdjustDown, Goto, arena, work, NoFifoTasks, TypeOK, Thread
  <2> QED BY <2>1, <2>2, <2>3, StreamStays DEF Lone
<1>27. ASSUME NEW w \in Worker, SwitchBack(w) PROVE LoneStream'
  <2>1. /\ users' = users /\ max_workers' = max_workers
        /\ stream' > 0 => stream > 0
        /\ pool_state' = "empty" => pool_state = "empty"
    BY <1>27, TypeOK, Threads DEF SwitchBack, arena, work, TypeOK
  <2>2. \A c \in users : pc'[c] = pc[c] /\ op'[c] = op[c] /\ snap'[c] = snap[c]
    BY <1>27, TypeOK, Threads DEF SwitchBack, Goto, TypeOK, Thread
  <2>3. \A v \in Worker : pool_state' = v /\ pc'[v] = "setEmpty" /\ stream' > 0
                            => pool_state = v /\ pc[v] = "setEmpty"
    BY <1>27, TypeOK, Threads DEF SwitchBack, Goto, arena, work, NoFifoTasks, TypeOK, Thread
  <2> QED BY <2>1, <2>2, <2>3, StreamStays DEF Lone
<1>28. ASSUME NEW c \in Client, TakeAsMaster(c) PROVE LoneStream'
  BY <1>28, Threads, TypeOK, BusyFull, AtWork DEF TakeAsMaster, arena, demand, Thread,
     TypeOK, Places, Lone, LoneLimits, LoneUp, LoneWorker, WorkerFits, LoneStream,
     Again, Busy, Up, Enqueuing, InArena
<1> QED BY <1>1, <1>2, <1>3, <1>4, <1>5, <1>6, <1>7, <1>8, <1>9, <1>10, <1>11, <1>12, <1>13, <1>14, <1>15, <1>16, <1>17, <1>18, <1>19, <1>20, <1>21, <1>22, <1>23, <1>24, <1>25, <1>26, <1>27, <1>28, Next DEF Next, Advertise, WorkerStep

(***************************************************************************)
(* The inductive invariant holds                                           *)
(***************************************************************************)
\* The arena is created empty, and no thread is in it.
LEMMA InitInv == ASSUME Assumptions, OneClient, Init PROVE IInv
<1>1. TypeOK
  <2>1. Cardinality(Worker) \in Nat /\ MaxTasks \in Nat
    BY Threads
  <2>2. max_workers \in Nat /\ users \subseteq Client
    BY DEF Init, Assumptions
  <2>3. /\ pool_state = "empty" /\ requested = 0 /\ allotted = 0
        /\ stream = 0 /\ spawned = 0 /\ produced = 0
        /\ pc = [t \in Thread |-> IF t \in Client THEN "idle" ELSE "away"]
        /\ op = [t \in Thread |-> "enqueue"]
        /\ snap = [t \in Thread |-> "full"]
        /\ delta = [t \in Thread |-> 0]
    BY DEF Init
  <2>4. mandatory \in BOOLEAN
    BY DEF Init
  <2> QED BY <2>1, <2>2, <2>3, <2>4 DEF TypeOK
<1>2. \A t \in Thread : pc[t] \in {"idle", "away"} /\ Owed(t) = 0
  BY DEF Init, Owed
<1>3. Books
  <2>1. IsFiniteSet(Thread)
    BY Threads
  <2>2. PICK f : f = [u \in Thread |-> Owed(u)]
    OBVIOUS
  <2>3. SumFunction(f) = 0
    BY <1>2, <2>1, <2>2, SumZero
  <2>4. TotalOwed = 0
    BY <2>2, <2>3 DEF TotalOwed
  <2> QED BY <2>4 DEF Books, Pending, Init
<1>4. /\ \A c \in Client : pc[c] = "idle"
      /\ \A w \in Worker : pc[w] = "away"
      /\ \A t \in Thread : op[t] = "enqueue"
  BY Threads DEF Init, Thread
<1>5. Places
  BY <1>4, Threads DEF Places, Init, Thread
<1>6. CASE max_workers >= 1
  <2>1. \A t \in Thread : pc[t] \notin {"fill", "adjust", "setEmpty", "adjustDown"}
    BY <1>2
  <2>2. mandatory = FALSE /\ requested = 0 /\ allotted = 0 /\ stream = 0
    BY DEF Init
  <2>3. ServedWell
    BY <1>6, <2>1, <2>2 DEF ServedWell, Allotment
  <2>4. Advertised
    BY <2>2 DEF Advertised
  <2> QED BY <1>1, <1>3, <1>5, <2>3, <2>4 DEF IInv, Served
<1>7. CASE max_workers = 0
  <2>1. \A c, d \in users : c = d
    BY <1>7 DEF Init, OneClient
  <2>2. mandatory = FALSE /\ requested = 0 /\ allotted = 0 /\ stream = 0 /\ pool_state = "empty"
    BY DEF Init
  <2>3. LoneLimits
    <3>1. mandatory = (max_workers = 1)
      <4>1. max_workers # 1
        BY <1>7
      <4> QED BY <2>2, <4>1, Zenon
    <3> QED BY <1>4, <1>7, <2>1, <2>2, <3>1 DEF LoneLimits, InArena
  <2>4. LoneWorker
    BY <1>4 DEF LoneWorker, WorkerFits, Busy, Again
  <2>5. LoneUp
    BY <1>2 DEF LoneUp, Up
  <2>6. LoneStream
    BY <2>2 DEF LoneStream
  <2> QED BY <1>1, <1>3, <1>5, <2>3, <2>4, <2>5, <2>6 DEF IInv, Lone
<1> QED BY <1>1, <1>6, <1>7 DEF TypeOK

\* Every step keeps the invariant.
LEMMA InvStep == ASSUME Assumptions, IInv, Next PROVE IInv'
<1>0. TypeOK /\ Books /\ Places /\ (Served \/ Lone)
  BY DEF IInv
<1>1. TypeOK' /\ Places'
  BY <1>0, TypeStep, PlacesStep
<1>2. Orderly
  BY <1>0, InOrder
<1>3. Books'
  BY <1>0, <1>1, <1>2, BooksStep
<1>4. CASE Served
  <2>1. ServedWell' /\ Advertised'
    BY <1>0, <1>4, ServedWellStep, AdvertisedStep DEF Served
  <2> QED BY <1>1, <1>3, <2>1 DEF IInv, Served
<1>5. CASE Lone
  <2>1. LoneLimits'
    BY <1>0, <1>1, <1>3, <1>5, LimitsStep
  <2>2. ASSUME NEW w \in Worker PROVE WorkerFits(w)'
    BY <1>0, <1>1, <1>3, <1>5, WorkerFitsStep
  <2>3. LoneUp'
    BY <1>0, <1>1, <1>3, <1>5, LoneUpStep
  <2>4. LoneStream'
    BY <1>0, <1>1, <1>3, <1>5, LoneStreamStep
  <2>5. LoneWorker'
    BY <2>2 DEF LoneWorker
  <2> QED BY <1>1, <1>3, <2>1, <2>3, <2>4, <2>5 DEF IInv, Lone
<1> QED BY <1>0, <1>4, <1>5

\* A step of nobody.
LEMMA InvStutter == ASSUME IInv, UNCHANGED vars PROVE IInv'
<1> USE DEF vars, arena, demand, work
<1>1. UNCHANGED <<pool_state, max_workers, mandatory, requested, allotted, stream, spawned,
                  produced, users, pc, op, snap, delta>>
  OBVIOUS
<1>2. TypeOK'
  BY <1>1 DEF IInv, TypeOK
<1>3. Books'
  BY <1>1 DEF IInv, Books, Pending, TotalOwed, Owed
<1>4. Places'
  BY <1>1 DEF IInv, Places
<1>5. Served => Served'
  BY <1>1 DEF Served, ServedWell, Advertised, Allotment
<1>6. Lone => Lone'
  BY <1>1 DEF Lone, LoneLimits, LoneWorker, WorkerFits, LoneUp, LoneStream, Again, Busy,
     Up, Enqueuing, InArena
<1> QED BY <1>2, <1>3, <1>4, <1>5, <1>6 DEF IInv

\* The invariant holds in every state, by what a step keeps of each part.
THEOREM Invariance == ASSUME Assumptions, OneClient PROVE Spec => []IInv
<1>1. Init => IInv
  BY InitInv
<1>2. IInv /\ [Next]_vars => IInv'
  BY InvStep, InvStutter
<1> QED BY <1>1, <1>2, PTL DEF Spec

\* Once the calls of adjust_demand under way are done, the market has been asked
\* for my_max_num_workers workers exactly when the arena is not empty.
THEOREM DemandIsBalanced == ASSUME Assumptions, OneClient PROVE Spec => []DemandBalanced
<1>1. IInv => DemandBalanced
  BY DEF IInv, Books, Pending, DemandBalanced
<1> QED BY <1>1, Invariance, PTL

\* When nobody is about to see to an enqueued task, nothing is owed: the arena
\* has asked for a worker and has it.
LEMMA NobodyWaits == ASSUME Assumptions, Worker # {}, IInv PROVE NoMissedWakeup
<1>1. SUFFICES ASSUME stream > 0, \A t \in Thread : ~Responsible(t)
               PROVE  allotted > 0
  BY DEF NoMissedWakeup
<1>2. \A t \in Thread : Owed(t) = 0
  BY <1>1 DEF Responsible, Owed
<1>3. TotalOwed = 0
  <2>1. IsFiniteSet(Thread)
    BY Threads
  <2>2. PICK f : f = [u \in Thread |-> Owed(u)]
    OBVIOUS
  <2>3. SumFunction(f) = 0
    BY <1>2, <2>1, <2>2, SumZero
  <2> QED BY <2>2, <2>3 DEF TotalOwed
<1>4. Cardinality(Worker) \in Nat /\ Cardinality(Worker) # 0
  BY Threads, FS_EmptySet
<1>5. requested = (IF pool_state = "empty" THEN 0 ELSE max_workers) /\ max_workers \in Nat
  BY <1>3 DEF IInv, Books, Pending, TypeOK
<1>6. CASE Served
  <2>1. pool_state # "empty"
    BY <1>1, <1>6 DEF Served, Advertised, Advertising, Responsible
  <2> QED BY <1>4, <1>5, <1>6, <2>1 DEF Served, ServedWell, Allotment, Smaller
<1>7. CASE Lone
  <2>1. \A c \in users : c \in Thread
    BY DEF IInv, TypeOK, Thread
  <2>2. pool_state # "empty"
    BY <1>1, <1>7, <2>1 DEF Lone, LoneStream, Enqueuing, Responsible
  <2>3. max_workers # 0
    BY <1>1, <1>7, <2>1 DEF Lone, LoneStream, Responsible
  <2> QED BY <1>4, <1>5, <1>7, <2>2, <2>3 DEF Lone, LoneLimits, Smaller
<1> QED BY <1>6, <1>7 DEF IInv

\* While an enqueued task waits, a worker is allotted to the arena or a thread is
\* at work that will see to it.
THEOREM NoWakeupIsMissed ==
    ASSUME Assumptions, OneClient, Worker # {} PROVE Spec => []NoMissedWakeup
<1>1. IInv => NoMissedWakeup
  BY NobodyWaits
<1> QED BY <1>1, Invariance, PTL

=============================================================================
