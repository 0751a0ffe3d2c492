----------------------------- MODULE MCServices -----------------------------
(***************************************************************************)
(* What the scheduler and the allocator do for their clients, side by      *)
(* side: mailboxes, observers, pipelines, the dispatch of task trees,      *)
(* parallel algorithms, the memory of tasks, flow graphs, and small        *)
(* objects of the allocator.  A behaviour exercises one of them, the       *)
(* subject, which is chosen at the start; the variables of the others keep *)
(* a dummy value.                                                          *)
(***************************************************************************)
EXTENDS Integers, TLC

CONSTANTS
    t1, t2, t3, x1, x2, x3, x4, o1, o2, box, main, dummy,
    q1, q2, f1, f2, lim,
    NULL

VARIABLES
    subject,
    pc, cancelled,
    next, my_last, alive, proxy, link, owner, first, second, got, mail, calls,
    list, my_ref_count, my_observer, live, my_proxy, my_busy_count, user, cleared, walk,
    p, prev, last, notified, orderly, enables, visits,
    filters, max_tokens, items, drawn, end_of_input, token_counter, input_tokens, buffer,
    sem, task, root, thread, runs, entered, finalized,
    state, parent, ref_count, pool, stack, my_cancellation_requested, my_exception,
    outcome, threw, made,
    start, finish, spawned, me, value, done, node, body, pass, scanned, total,
    use, origin, my_free_list, my_nonlocal_free_list, my_return_list, my_small_task_count,
    exists, scheduler, allocations,
    blk, held, bin_list, activeBlk, mailbox, mailLock, slabs, size, orphans, backend, tls,
    listLock, block, theBin, rest, todo,
    graph, pending, handler, frames, ready, unput, executed

ofMail == <<next, my_last, alive, proxy, link, owner, first, second, got, mail, calls>>
ofObservers == <<list, my_ref_count, my_observer, live, my_proxy, my_busy_count, user,
                 cleared, walk, p, prev, last, notified, orderly, enables, visits>>
ofPipeline == <<filters, max_tokens, items, drawn, end_of_input, token_counter,
                input_tokens, buffer, sem, task, root, thread, runs, entered, finalized>>
ofTree == <<state, parent, ref_count, pool, stack, my_cancellation_requested, my_exception,
            outcome, threw, made>>
ofSlabs == <<blk, held, bin_list, activeBlk, mailbox, mailLock, slabs, size, orphans, backend,
             tls, listLock, block, theBin, rest, todo>>
ofAlgorithms == <<start, finish, spawned, me, value, done, node, body, pass, scanned, total>>
ofMemory == <<use, origin, my_free_list, my_nonlocal_free_list, my_return_list,
              my_small_task_count, exists, scheduler, allocations>>
ofGraph == <<graph, pending, handler, frames, ready, unput, executed>>
vars == <<subject, pc, cancelled, ofMail, ofObservers, ofPipeline, ofTree, ofSlabs, ofAlgorithms,
          ofMemory, ofGraph>>

Mail == INSTANCE Mailbox WITH
    Sender <- {t1, t2, t3}, Proxy <- {x1, x2, x3}, Box <- box, MaxCalls <- 5

\* The observers of an arena, which dies, and the global ones, which do not.
Local == INSTANCE ObserverList WITH
    Thread <- {t1, t2}, Observer <- {o1, o2}, Proxy <- {x1, x2}, Global <- FALSE,
    MaxEnables <- 2, MaxVisits <- 2
Global == INSTANCE ObserverList WITH
    Thread <- {t1, t2}, Observer <- {o1, o2}, Proxy <- {x1, x2}, Global <- TRUE,
    MaxEnables <- 2, MaxVisits <- 2

Par == "parallel"
Ord == "serial_in_order"
Out == "serial_out_of_order"
Bnd == "bound"
\* Pipelines on tasks alone; one whose buffer has to grow; pipelines that are
\* run again; and some with thread-bound filters.
Plain == INSTANCE Pipeline WITH
    Pipelines <- {<<Ord, Par, Ord>>, <<Par, Ord, Out>>, <<Out, Par, Ord>>, <<Par, Out, Ord>>},
    LiveTokens <- {1, 2}, initial_buffer_size <- 2, MaxItems <- 3, MaxRuns <- 1
Crowded == INSTANCE Pipeline WITH
    Pipelines <- {<<Ord, Par, Ord>>},
    LiveTokens <- {3}, initial_buffer_size <- 1, MaxItems <- 4, MaxRuns <- 1
Again == INSTANCE Pipeline WITH
    Pipelines <- {<<Ord, Par, Ord>>, <<Par, Ord, Out>>},
    LiveTokens <- {2}, initial_buffer_size <- 1, MaxItems <- 2, MaxRuns <- 2
Bound == INSTANCE Pipeline WITH
    Pipelines <- {<<Ord, Bnd, Par>>, <<Bnd, Par, Ord>>, <<Par, Bnd, Bnd>>},
    LiveTokens <- {2}, initial_buffer_size <- 2, MaxItems <- 2, MaxRuns <- 1

\* The master and two workers execute a tree of up to four tasks.
Tree == INSTANCE TaskTree WITH
    Main <- main, Worker <- {t1, t2}, Task <- {x1, x2, x3, x4}, Dummy <- dummy,
    MaxTasks <- 4

\* Three threads share few elements, or two many, so that ranges are split
\* anew when there is demand; and the simple partitioner.
Reduce == INSTANCE ParallelReduce WITH
    Thread <- {main, t1, t2}, Main <- main, N <- 4, Auto <- TRUE, InitialDivisor <- 2,
    InitDepth <- 1, Cancellable <- TRUE
Deep == INSTANCE ParallelReduce WITH
    Thread <- {main, t1}, Main <- main, N <- 8, Auto <- TRUE, InitialDivisor <- 2,
    InitDepth <- 5, Cancellable <- TRUE
Simple == INSTANCE ParallelReduce WITH
    Thread <- {main, t1, t2}, Main <- main, N <- 4, Auto <- FALSE, InitialDivisor <- 2,
    InitDepth <- 1, Cancellable <- TRUE
Scan == INSTANCE ParallelScan WITH Thread <- {main, t1, t2}, Main <- main, N <- 5

\* The memory of tasks, as it is and with hoarding, and three threads with one.
Tasks == INSTANCE TaskMemory WITH
    Thread <- {t1, t2}, Memory <- {x1, x2}, Hoard <- FALSE, MaxAllocations <- 5, me <- scheduler
Hoarded == INSTANCE TaskMemory WITH
    Thread <- {t1, t2}, Memory <- {x1, x2}, Hoard <- TRUE, MaxAllocations <- 4, me <- scheduler
Passed == INSTANCE TaskMemory WITH
    Thread <- {t1, t2, t3}, Memory <- {x1}, Hoard <- FALSE, MaxAllocations <- 3, me <- scheduler

\* Threads with slabs of their own, which they get one at a time or, as the
\* code does, two; a pool that overflows; one block with many objects, of
\* which few are free; and three threads that pass one block on, with the
\* window open, for which see NothingDangling of the module.
Slabs == INSTANCE SlabAllocator WITH
    Thread <- {t1, t2}, Block <- {x1, x2}, Capacity <- 2, numOfSlabAllocOnMiss <- 1,
    POOL_LOW_MARK <- 2, POOL_HIGH_MARK <- 2, list <- bin_list, pool <- slabs, Windows <- {}
Pairs == INSTANCE SlabAllocator WITH
    Thread <- {t1, t2}, Block <- {x1, x2}, Capacity <- 2, numOfSlabAllocOnMiss <- 2,
    POOL_LOW_MARK <- 2, POOL_HIGH_MARK <- 2, list <- bin_list, pool <- slabs, Windows <- {}
Cold == INSTANCE SlabAllocator WITH
    Thread <- {t1}, Block <- {x1, x2, x3, x4}, Capacity <- 2, numOfSlabAllocOnMiss <- 2,
    POOL_LOW_MARK <- 2, POOL_HIGH_MARK <- 2, list <- bin_list, pool <- slabs, Windows <- {}
Large == INSTANCE SlabAllocator WITH
    Thread <- {t1, t2}, Block <- {x1}, Capacity <- 5, numOfSlabAllocOnMiss <- 1,
    POOL_LOW_MARK <- 2, POOL_HIGH_MARK <- 2, list <- bin_list, pool <- slabs, Windows <- {}
Crowd == INSTANCE SlabAllocator WITH
    Thread <- {t1, t2, t3}, Block <- {x1}, Capacity <- 3, numOfSlabAllocOnMiss <- 1,
    POOL_LOW_MARK <- 2, POOL_HIGH_MARK <- 2, list <- bin_list, pool <- slabs, Windows <- {"mail"}

\* Two buffers, of which one is no queue, before a function; a queue before two
\* functions, one that rejects and one that queues; a limiter before a function,
\* which may or may not let more through than the function takes.
Joined == INSTANCE FlowGraph WITH
    Thread <- {t1, t2}, Item <- {x1, x2, x3}, Buffer <- {q1, q2}, Lifo <- {q2}, Function <- {f1},
    Queueing <- {}, Limiter <- {}, Successors <- (q1 :> <<f1>> @@ q2 :> <<f1>>),
    Decrements <- (f1 :> NULL), MaxConcurrency <- (f1 :> 1), Threshold <- <<>>,
    Source <- (x1 :> q1 @@ x2 :> q2 @@ x3 :> q1), stack <- frames, spawned <- ready, todo <- unput
Forked == INSTANCE FlowGraph WITH
    Thread <- {t1, t2}, Item <- {x1, x2, x3}, Buffer <- {q1}, Lifo <- {}, Function <- {f1, f2},
    Queueing <- {f2}, Limiter <- {}, Successors <- (q1 :> <<f1, f2>>),
    Decrements <- (f1 :> NULL @@ f2 :> NULL), MaxConcurrency <- (f1 :> 1 @@ f2 :> 1),
    Threshold <- <<>>,
    Source <- (x1 :> q1 @@ x2 :> q1 @@ x3 :> q1), stack <- frames, spawned <- ready, todo <- unput
Limited == INSTANCE FlowGraph WITH
    Thread <- {t1, t2}, Item <- {x1, x2, x3}, Buffer <- {q1}, Lifo <- {}, Function <- {f1},
    Queueing <- {}, Limiter <- {lim}, Successors <- (q1 :> <<lim>> @@ lim :> <<f1>>),
    Decrements <- (f1 :> lim), MaxConcurrency <- (f1 :> 1), Threshold <- (lim :> 1),
    Source <- (x1 :> q1 @@ x2 :> q1 @@ x3 :> q1), stack <- frames, spawned <- ready, todo <- unput
Refused == INSTANCE FlowGraph WITH
    Thread <- {t1, t2}, Item <- {x1, x2}, Buffer <- {q1}, Lifo <- {}, Function <- {f1},
    Queueing <- {}, Limiter <- {lim}, Successors <- (q1 :> <<lim>> @@ lim :> <<f1>>),
    Decrements <- (f1 :> lim), MaxConcurrency <- (f1 :> 1), Threshold <- (lim :> 2),
    Source <- (x1 :> q1 @@ x2 :> q1), stack <- frames, spawned <- ready, todo <- unput

ASSUME Mail!Assumptions
ASSUME Local!Assumptions /\ Global!Assumptions
ASSUME Plain!Assumptions /\ Crowded!Assumptions /\ Again!Assumptions /\ Bound!Assumptions
ASSUME Tree!Assumptions
ASSUME Joined!Assumptions /\ Forked!Assumptions /\ Limited!Assumptions /\ Refused!Assumptions
ASSUME Tasks!Assumptions /\ Hoarded!Assumptions /\ Passed!Assumptions
ASSUME Reduce!Assumptions /\ Deep!Assumptions /\ Simple!Assumptions /\ Scan!Assumptions
ASSUME /\ Slabs!Assumptions /\ Pairs!Assumptions /\ Cold!Assumptions /\ Large!Assumptions
       /\ Crowd!Assumptions

Unused == "unused"
NoMail ==
    /\ next = Unused /\ my_last = Unused /\ alive = Unused /\ proxy = Unused
    /\ link = Unused /\ owner = Unused /\ first = Unused /\ second = Unused
    /\ got = Unused /\ mail = Unused /\ calls = Unused
NoObservers ==
    /\ list = Unused /\ my_ref_count = Unused /\ my_observer = Unused /\ live = Unused
    /\ my_proxy = Unused /\ my_busy_count = Unused /\ user = Unused /\ cleared = Unused
    /\ walk = Unused /\ p = Unused /\ prev = Unused /\ last = Unused
    /\ notified = Unused /\ orderly = Unused /\ enables = Unused /\ visits = Unused
NoPipeline ==
    /\ filters = Unused /\ max_tokens = Unused /\ items = Unused /\ drawn = Unused
    /\ end_of_input = Unused /\ token_counter = Unused /\ input_tokens = Unused
    /\ buffer = Unused /\ sem = Unused /\ task = Unused /\ root = Unused
    /\ thread = Unused /\ runs = Unused /\ entered = Unused /\ finalized = Unused
NoTree ==
    /\ state = Unused /\ parent = Unused /\ ref_count = Unused /\ pool = Unused
    /\ stack = Unused /\ my_cancellation_requested = Unused /\ my_exception = Unused
    /\ outcome = Unused /\ threw = Unused /\ made = Unused
NoSlabs ==
    /\ blk = Unused /\ held = Unused /\ bin_list = Unused /\ activeBlk = Unused
    /\ mailbox = Unused /\ mailLock = Unused /\ slabs = Unused /\ size = Unused
    /\ orphans = Unused /\ backend = Unused /\ tls = Unused /\ listLock = Unused
    /\ block = Unused /\ theBin = Unused /\ rest = Unused /\ todo = Unused

NoReduce == value = Unused /\ done = Unused
NoScan ==
    /\ node = Unused /\ body = Unused /\ pass = Unused /\ scanned = Unused
    /\ total = Unused
NoMemory ==
    /\ use = Unused /\ origin = Unused /\ my_free_list = Unused
    /\ my_nonlocal_free_list = Unused /\ my_return_list = Unused
    /\ my_small_task_count = Unused /\ exists = Unused /\ scheduler = Unused
    /\ allocations = Unused
NoGraph ==
    /\ graph = Unused /\ pending = Unused /\ handler = Unused /\ frames = Unused
    /\ ready = Unused /\ unput = Unused /\ executed = Unused
NoAlgorithm ==
    /\ start = Unused /\ finish = Unused /\ spawned = Unused /\ me = Unused
    /\ NoReduce /\ NoScan

Init ==
    \/ /\ subject = "mail" /\ Mail!Init
       /\ cancelled = Unused /\ NoObservers /\ NoPipeline /\ NoTree /\ NoSlabs /\ NoAlgorithm /\ NoMemory /\ NoGraph
    \/ /\ \/ subject = "local" /\ Local!Init
          \/ subject = "global" /\ Global!Init
       /\ cancelled = Unused /\ NoMail /\ NoPipeline /\ NoTree /\ NoSlabs /\ NoAlgorithm /\ NoMemory /\ NoGraph
    \/ /\ \/ subject = "plain" /\ Plain!Init
          \/ subject = "crowded" /\ Crowded!Init
          \/ subject = "again" /\ Again!Init
          \/ subject = "bound" /\ Bound!Init
       /\ pc = Unused /\ NoMail /\ NoObservers /\ NoTree /\ NoSlabs /\ NoAlgorithm /\ NoMemory /\ NoGraph
    \/ /\ subject = "tree" /\ Tree!Init
       /\ pc = Unused /\ cancelled = Unused
       /\ NoMail /\ NoObservers /\ NoPipeline /\ NoSlabs /\ NoAlgorithm /\ NoMemory /\ NoGraph
    \/ /\ \/ subject = "reduce" /\ Reduce!Init /\ NoScan
          \/ subject = "deep" /\ Deep!Init /\ NoScan
          \/ subject = "simple" /\ Simple!Init /\ NoScan
          \/ subject = "scan" /\ Scan!Init /\ NoReduce /\ cancelled = Unused
       /\ pc = Unused /\ NoMail /\ NoObservers /\ NoPipeline /\ NoTree /\ NoSlabs /\ NoMemory /\ NoGraph
    \/ /\ \/ subject = "slabs" /\ Slabs!Init
          \/ subject = "pairs" /\ Pairs!Init
          \/ subject = "cold" /\ Cold!Init
          \/ subject = "large" /\ Large!Init
          \/ subject = "crowd" /\ Crowd!Init
       /\ cancelled = Unused /\ NoMail /\ NoObservers /\ NoPipeline /\ NoTree /\ NoAlgorithm /\ NoMemory /\ NoGraph
    \/ /\ \/ subject = "memory" /\ Tasks!Init
          \/ subject = "hoarded" /\ Hoarded!Init
          \/ subject = "passed" /\ Passed!Init
       /\ pc = Unused /\ cancelled = Unused
       /\ NoMail /\ NoObservers /\ NoPipeline /\ NoTree /\ NoSlabs /\ NoAlgorithm /\ NoGraph
    \/ /\ \/ subject = "joined" /\ Joined!Init
          \/ subject = "forked" /\ Forked!Init
          \/ subject = "limited" /\ Limited!Init
          \/ subject = "refused" /\ Refused!Init
       /\ pc = Unused /\ cancelled = Unused
       /\ NoMail /\ NoObservers /\ NoPipeline /\ NoTree /\ NoSlabs /\ NoAlgorithm /\ NoMemory

Next ==
    /\ UNCHANGED subject
    /\ \/ /\ subject = "mail" /\ Mail!Next
          /\ UNCHANGED <<cancelled, ofObservers, ofPipeline, ofTree, ofSlabs, ofAlgorithms, ofMemory, ofGraph>>
       \/ /\ \/ subject = "local" /\ Local!Next
             \/ subject = "global" /\ Global!Next
          /\ UNCHANGED <<cancelled, ofMail, ofPipeline, ofTree, ofSlabs, ofAlgorithms, ofMemory, ofGraph>>
       \/ /\ \/ subject = "plain" /\ Plain!Next
             \/ subject = "crowded" /\ Crowded!Next
             \/ subject = "again" /\ Again!Next
             \/ subject = "bound" /\ Bound!Next
          /\ UNCHANGED <<pc, ofMail, ofObservers, ofTree, ofSlabs, ofAlgorithms, ofMemory, ofGraph>>
       \/ /\ subject = "tree" /\ Tree!Next
          /\ UNCHANGED <<pc, cancelled, ofMail, ofObservers, ofPipeline, ofSlabs, ofAlgorithms, ofMemory, ofGraph>>
       \/ /\ \/ /\ \/ subject = "reduce" /\ Reduce!Next
                   \/ subject = "deep" /\ Deep!Next
                   \/ subject = "simple" /\ Simple!Next
                /\ UNCHANGED <<node, body, pass, scanned, total>>
             \/ /\ subject = "scan" /\ Scan!Next
                /\ UNCHANGED <<cancelled, value, done>>
          /\ UNCHANGED <<pc, ofMail, ofObservers, ofPipeline, ofTree, ofSlabs, ofMemory, ofGraph>>
       \/ /\ \/ subject = "slabs" /\ Slabs!Next
             \/ subject = "pairs" /\ Pairs!Next
             \/ subject = "cold" /\ Cold!Next
             \/ subject = "large" /\ Large!Next
             \/ subject = "crowd" /\ Crowd!Next
          /\ UNCHANGED <<cancelled, ofMail, ofObservers, ofPipeline, ofTree, ofAlgorithms, ofMemory, ofGraph>>
       \/ /\ \/ subject = "memory" /\ Tasks!Next
             \/ subject = "hoarded" /\ Hoarded!Next
             \/ subject = "passed" /\ Passed!Next
          /\ UNCHANGED <<pc, cancelled, ofMail, ofObservers, ofPipeline, ofTree, ofSlabs,
                         ofAlgorithms, ofGraph>>
       \/ /\ \/ subject = "joined" /\ Joined!Next
             \/ subject = "forked" /\ Forked!Next
             \/ subject = "limited" /\ Limited!Next
             \/ subject = "refused" /\ Refused!Next
          /\ UNCHANGED <<pc, cancelled, ofMail, ofObservers, ofPipeline, ofTree, ofSlabs,
                         ofAlgorithms, ofMemory>>

Spec == Init /\ [][Next]_vars

\* t1 and t2 play the same part wherever they occur.
ThreadSymmetry == Permutations({t1, t2})

(***************************************************************************)
(* What each component promises; the modules say why.                      *)
(***************************************************************************)
\* Nobody follows a pointer to what has been freed: a proxy in a mailbox, the
\* proxy of an observer, a task, its scheduler, the body of a reduction, the bin
\* of a thread that is gone; and blocks that other threads have freed objects of are found
\* by their owners.
NothingDangling ==
    /\ subject = "mail" => Mail!NothingDangling
    /\ subject = "local" => Local!NothingDangling /\ Local!TypeOK
    /\ subject = "global" => Global!NothingDangling /\ Global!TypeOK
    /\ subject = "tree" => Tree!NothingDangling /\ Tree!RefCountsRight
    /\ subject = "reduce" => Reduce!BodiesExclusive
    /\ subject = "deep" => Deep!BodiesExclusive
    /\ subject = "simple" => Simple!BodiesExclusive
    /\ subject = "scan" => Scan!BodiesExclusive /\ Scan!LeftSumSettled
    /\ subject = "memory" => Tasks!NothingDangling /\ Tasks!CountRight
    /\ subject = "hoarded" => Hoarded!NothingDangling /\ Hoarded!CountRight
    /\ subject = "passed" => Passed!NothingDangling /\ Passed!CountRight
    /\ subject = "slabs" => Slabs!StructureSound /\ Slabs!NothingDangling /\ Slabs!TypeOK
    /\ subject = "pairs" => Pairs!StructureSound /\ Pairs!NothingDangling
    /\ subject = "cold" => Cold!StructureSound /\ Cold!NothingDangling
    /\ subject = "large" => Large!StructureSound /\ Large!NothingDangling
    /\ subject = "crowd" => Crowd!StructureSound

\* No mail is lost, observers are told of the exits of threads of whose
\* entries they were told, every filter gets each item once, and in order if
\* it is to, a reduction or a scan meets each index once and in order, no
\* memory of a task or object of the allocator is handed out twice or lost, and
\* no message of a flow graph is delivered twice or beyond a limit.
NothingLostOrRepeated ==
    /\ subject = "mail" => Mail!NothingLost
    /\ subject = "local" => Local!ExitsMatchEntries
    /\ subject = "global" => Global!ExitsMatchEntries
    /\ subject = "plain" => Plain!TypeOK /\ Plain!NothingLostOrRepeated /\ Plain!SerialInOrder
    /\ subject = "crowded" => Crowded!NothingLostOrRepeated /\ Crowded!SerialInOrder
    /\ subject = "again" => Again!NothingLostOrRepeated /\ Again!SerialInOrder
    /\ subject = "bound" => Bound!TypeOK /\ Bound!NothingLostOrRepeated /\ Bound!SerialInOrder
    /\ subject = "reduce" => Reduce!InOrder /\ Reduce!ResultWhole
    /\ subject = "deep" => Deep!InOrder /\ Deep!ResultWhole
    /\ subject = "simple" => Simple!InOrder /\ Simple!ResultWhole
    /\ subject = "scan" => Scan!ScansRight
    /\ subject = "memory" => Tasks!InOneList /\ Tasks!NothingLeft
    /\ subject = "hoarded" => Hoarded!InOneList /\ Hoarded!NothingLeft
    /\ subject = "passed" => Passed!InOneList /\ Passed!NothingLeft
    /\ subject = "slabs" => Slabs!NothingLostOrRepeated
    /\ subject = "pairs" => Pairs!NothingLostOrRepeated
    /\ subject = "cold" => Cold!NothingLostOrRepeated
    /\ subject = "large" => Large!NothingLostOrRepeated
    /\ subject = "crowd" => Crowd!NothingLostOrRepeated
    /\ subject = "joined" => Joined!DeliveredOnce /\ Joined!WithinConcurrency
    /\ subject = "forked" => Forked!DeliveredOnce /\ Forked!WithinConcurrency
    /\ subject = "limited" =>
           Limited!DeliveredOnce /\ Limited!WithinConcurrency /\ Limited!WithinThreshold
    /\ subject = "refused" =>
           Refused!DeliveredOnce /\ Refused!WithinConcurrency /\ Refused!WithinThreshold

\* A wait returns when its tasks have completed, and with their exception if
\* there was one, that for a flow graph when each message has been delivered; a
\* pipeline has never more items than tokens, and the parts of a scan are
\* counted right.
WaitTruthful ==
    /\ subject = "tree" => Tree!WaitTruthful /\ Tree!OutcomeRight
    /\ subject = "plain" => Plain!TokensBound
    /\ subject = "crowded" => Crowded!TokensBound
    /\ subject = "again" => Again!TokensBound
    /\ subject = "bound" => Bound!TokensBound
    /\ subject = "scan" => Scan!NodesCounted
    /\ subject = "joined" => Joined!NothingStranded
    /\ subject = "forked" => Forked!NothingStranded
    /\ subject = "limited" => Limited!NothingStranded
    /\ subject = "refused" => Refused!NothingStranded

\* Runs of pipelines and waits for trees come to an end, a thread that ends
\* waits only for what is under way, and nodes of a flow graph do not wait for
\* one another in a circle.
NoHang ==
    /\ subject = "plain" => Plain!NoHang
    /\ subject = "crowded" => Crowded!NoHang
    /\ subject = "again" => Again!NoHang
    /\ subject = "bound" => Bound!NoHang
    /\ subject = "tree" => Tree!NoHang
    /\ subject = "slabs" => Slabs!NoHang
    /\ subject = "pairs" => Pairs!NoHang
    /\ subject = "cold" => Cold!NoHang
    /\ subject = "large" => Large!NoHang
    /\ subject = "crowd" => Crowd!NoHang
    /\ subject = "joined" => Joined!NoCircularWait
    /\ subject = "forked" => Forked!NoCircularWait
    /\ subject = "limited" => Limited!NoCircularWait
    /\ subject = "refused" => Refused!NoCircularWait

\* The mailbox implements the abstract one, on which the task pool relies.
ImplementsMail ==
    /\ subject = "mail" => Mail!Abstract!Init
    /\ [][subject = "mail" => Mail!Abstract!Step]_vars
=============================================================================
