---------------------------- MODULE MCStructures ----------------------------
(***************************************************************************)
(* The concurrent containers side by side: the hash map, the priority      *)
(* queue, the growth of the vector, the unordered containers and the       *)
(* bounded queue.  A behaviour exercises one of them, the subject, which   *)
(* is chosen at the start; the variables of the others keep a dummy value. *)
(* Variables of the same name are shared.                                  *)
(***************************************************************************)
EXTENDS Integers, TLC

CONSTANTS t1, t2, t3, n1, n2, n3, k1, k2, k3, c1, c2, NULL

VARIABLES
    subject,
    pc, me, op, key, my_size, calls,
    my_mask, allocating, rehashed, nodes, lock, item, k, m, chain, b, n, accessor,
    was, wasnt, truthful,
    pending_operations, handler_busy, data, mark, op_list, pop_list, elem, status,
    before, answers,
    my_early_size, my_first_block, my_segment, seg, granted, failures,
    next, order, my_buckets, my_number_of_buckets, my_element_count,
    items_per_page, head_counter, tail_counter, n_invalid_entries, head, tail, pages,
    items_waiting, items_woken, items_aborted, items_context,
    slots_waiting, slots_woken, slots_aborted, slots_context,
    stale, result, trying, aborting, popped, upsets

ofMap == <<my_mask, allocating, rehashed, nodes, lock, item, m, chain, b, n, accessor,
           was, wasnt, truthful>>
ofHeap == <<pending_operations, handler_busy, data, mark, op_list, pop_list, elem, status,
            before, answers>>
ofVector == <<my_early_size, my_first_block, my_segment, seg, granted, failures>>
ofList == <<next, order, my_buckets, my_number_of_buckets, my_element_count>>
ofQueue == <<items_per_page, head_counter, tail_counter, n_invalid_entries, head, tail, pages,
             items_waiting, items_woken, items_aborted, items_context,
             slots_waiting, slots_woken, slots_aborted, slots_context,
             stale, result, trying, aborting, popped, upsets>>

\* A map that grows from two buckets to eight at once, and one that grows
\* twice; the keys k1 and k2 part company in the last step only.
Map == INSTANCE HashMap WITH
    Thread <- {t1, t2}, Node <- {n1, n2}, Key <- {k1, k2},
    Hash <- (k1 :> 7 @@ k2 :> 3), Masks <- <<1, 7>>, MaxCalls <- 4
Grown == INSTANCE HashMap WITH
    Thread <- {t1, t2}, Node <- {n1, n2, n3}, Key <- {k1, k2, k3},
    Hash <- (k1 :> 7 @@ k2 :> 3 @@ k3 :> 5), Masks <- <<1, 3, 7>>, MaxCalls <- 4

\* Batches of up to three operations, and a heap with several levels.
Heap == INSTANCE PriorityQueue WITH
    Thread <- {t1, t2, t3}, Value <- {1, 2}, MaxInitial <- 0, MaxCalls <- 4
Tall == INSTANCE PriorityQueue WITH
    Thread <- {t1, t2}, Value <- {1, 2, 3}, MaxInitial <- 5, MaxCalls <- 2

\* Two kinds of growth with a failure, and a race of three for one segment.
Vector == INSTANCE ConcurrentVector WITH
    Thread <- {t1, t2}, pointers_per_short_table <- 2, Deltas <- {1, 3}, Sizes <- {2, 6},
    MaxCalls <- 3, MaxFailures <- 1
Race == INSTANCE ConcurrentVector WITH
    Thread <- {t1, t2, t3}, pointers_per_short_table <- 2, Deltas <- {3}, Sizes <- {6},
    MaxCalls <- 3, MaxFailures <- 1

\* A set whose table doubles; the keys k1 and k2 have the same order key.  And
\* a set in which ranges are looked for, and a multimap that is filled.
Set == INSTANCE SplitOrderedList WITH
    Thread <- {t1, t2}, Key <- {k1, k2, k3}, Hash <- (k1 :> 2 @@ k2 :> 6 @@ k3 :> 3),
    Width <- 3, allow_multimapping <- FALSE, InitialBuckets <- 2, MaxBuckets <- 4,
    my_maximum_bucket_size <- 0, Operations <- {"insert", "find"}, MaxCalls <- 3
Ranges == INSTANCE SplitOrderedList WITH
    Thread <- {t1, t2}, Key <- {k1, k2}, Hash <- (k1 :> 2 @@ k2 :> 6),
    Width <- 3, allow_multimapping <- FALSE, InitialBuckets <- 2, MaxBuckets <- 4,
    my_maximum_bucket_size <- 0, Operations <- {"insert", "equal_range"}, MaxCalls <- 4
Multi == INSTANCE SplitOrderedList WITH
    Thread <- {t1, t2}, Key <- {k1, k3}, Hash <- (k1 :> 2 @@ k3 :> 3),
    Width <- 3, allow_multimapping <- TRUE, InitialBuckets <- 2, MaxBuckets <- 4,
    my_maximum_bucket_size <- 0, Operations <- {"insert", "find", "equal_range"}, MaxCalls <- 3

\* With two micro-queues and three tickets, the first and the last ticket share
\* a micro-queue.  Two things go wrong where one side has one thread.
Queue == INSTANCE BoundedQueue WITH
    Producer <- {t1, t2}, Consumer <- {c1, c2}, n_queue <- 2, PageSizes <- {2},
    Capacity <- 1, MaxTickets <- 3, Upsets <- {"throw", "abort"}, MaxUpsets <- 1,
    QuietAborts <- TRUE
Pushers == INSTANCE BoundedQueue WITH
    Producer <- {t1, t2}, Consumer <- {c1}, n_queue <- 2, PageSizes <- {1, 2},
    Capacity <- 1, MaxTickets <- 3, Upsets <- {"throw", "abort"}, MaxUpsets <- 2,
    QuietAborts <- TRUE
Poppers == INSTANCE BoundedQueue WITH
    Producer <- {t1}, Consumer <- {c1, c2}, n_queue <- 2, PageSizes <- {1},
    Capacity <- 1, MaxTickets <- 3, Upsets <- {"throw", "abort"}, MaxUpsets <- 2,
    QuietAborts <- TRUE

ASSUME Map!Assumptions /\ Grown!Assumptions
ASSUME Heap!Assumptions /\ Tall!Assumptions
ASSUME Vector!Assumptions /\ Race!Assumptions
ASSUME Set!Assumptions /\ Ranges!Assumptions /\ Multi!Assumptions
ASSUME Queue!Assumptions /\ Pushers!Assumptions /\ Poppers!Assumptions

Unused == "unused"
NoMap ==
    /\ my_mask = Unused /\ allocating = Unused /\ rehashed = Unused /\ nodes = Unused
    /\ lock = Unused /\ item = Unused /\ m = Unused /\ chain = Unused
    /\ b = Unused /\ n = Unused /\ accessor = Unused /\ was = Unused /\ wasnt = Unused
    /\ truthful = Unused
NoHeap ==
    /\ pending_operations = Unused /\ handler_busy = Unused /\ data = Unused
    /\ mark = Unused /\ op_list = Unused /\ pop_list = Unused /\ elem = Unused
    /\ status = Unused /\ before = Unused /\ answers = Unused
NoVector ==
    /\ my_early_size = Unused /\ my_first_block = Unused /\ my_segment = Unused
    /\ seg = Unused /\ granted = Unused /\ failures = Unused
NoList ==
    /\ next = Unused /\ order = Unused /\ my_buckets = Unused
    /\ my_number_of_buckets = Unused /\ my_element_count = Unused
NoQueue ==
    /\ items_per_page = Unused /\ head_counter = Unused /\ tail_counter = Unused
    /\ n_invalid_entries = Unused /\ head = Unused /\ tail = Unused
    /\ pages = Unused /\ items_waiting = Unused /\ items_woken = Unused
    /\ items_aborted = Unused /\ items_context = Unused /\ slots_waiting = Unused
    /\ slots_woken = Unused /\ slots_aborted = Unused /\ slots_context = Unused
    /\ stale = Unused /\ result = Unused /\ trying = Unused /\ aborting = Unused
    /\ popped = Unused /\ upsets = Unused

Init ==
    \/ /\ \/ subject = "map" /\ Map!Init
          \/ subject = "grown" /\ Grown!Init
       /\ me = Unused /\ NoHeap /\ NoVector /\ NoList /\ NoQueue
    \/ /\ \/ subject = "heap" /\ Heap!Init
          \/ subject = "tall" /\ Tall!Init
       /\ me = Unused /\ key = Unused /\ k = Unused
       /\ NoMap /\ NoVector /\ NoList /\ NoQueue
    \/ /\ \/ subject = "vector" /\ Vector!Init
          \/ subject = "race" /\ Race!Init
       /\ pc = Unused /\ op = Unused /\ key = Unused /\ my_size = Unused /\ k = Unused
       /\ NoMap /\ NoHeap /\ NoList /\ NoQueue
    \/ /\ \/ subject = "set" /\ Set!Init
          \/ subject = "ranges" /\ Ranges!Init
          \/ subject = "multi" /\ Multi!Init
       /\ pc = Unused /\ op = Unused /\ my_size = Unused /\ k = Unused
       /\ NoMap /\ NoHeap /\ NoVector /\ NoQueue
    \/ /\ \/ subject = "queue" /\ Queue!Init
          \/ subject = "pushers" /\ Pushers!Init
          \/ subject = "poppers" /\ Poppers!Init
       /\ me = Unused /\ op = Unused /\ key = Unused /\ my_size = Unused /\ calls = Unused
       /\ NoMap /\ NoHeap /\ NoVector /\ NoList

Next ==
    /\ UNCHANGED subject
    /\ \/ /\ \/ subject = "map" /\ Map!Next
             \/ subject = "grown" /\ Grown!Next
          /\ UNCHANGED <<me, ofHeap, ofVector, ofList, ofQueue>>
       \/ /\ \/ subject = "heap" /\ Heap!Next
             \/ subject = "tall" /\ Tall!Next
          /\ UNCHANGED <<me, key, k, ofMap, ofVector, ofList, ofQueue>>
       \/ /\ \/ subject = "vector" /\ Vector!Next
             \/ subject = "race" /\ Race!Next
          /\ UNCHANGED <<pc, op, key, my_size, k, ofMap, ofHeap, ofList, ofQueue>>
       \/ /\ \/ subject = "set" /\ Set!Next
             \/ subject = "ranges" /\ Ranges!Next
             \/ subject = "multi" /\ Multi!Next
          /\ UNCHANGED <<pc, op, my_size, k, ofMap, ofHeap, ofVector, ofQueue>>
       \/ /\ \/ subject = "queue" /\ Queue!Next
             \/ subject = "pushers" /\ Pushers!Next
             \/ subject = "poppers" /\ Poppers!Next
          /\ UNCHANGED <<me, op, key, my_size, calls, ofMap, ofHeap, ofVector, ofList>>

Spec == Init /\ [][Next]_<<subject, pc, me, op, key, my_size, calls, k, ofMap, ofHeap,
                           ofVector, ofList, ofQueue>>

\* Threads play the same part wherever they occur, and so do nodes.
Symmetry == Permutations({t1, t2, t3}) \cup Permutations({n1, n2, n3})
            \cup Permutations({c1, c2})

(***************************************************************************)
(* What each component promises; the modules say why.                      *)
(***************************************************************************)
\* What a call answers is true of the container, whatever other calls do
\* meanwhile: keys found or not, each once, in a batch the greatest value, and
\* the size of a queue and whether it has room.
AnswersTrue ==
    /\ subject = "map" => Map!AnswersTrue /\ Map!NoDuplicate
    /\ subject = "grown" => Grown!AnswersTrue /\ Grown!NoDuplicate
    /\ subject = "heap" => Heap!BatchExplained
    /\ subject = "tall" => Tall!BatchExplained
    /\ subject = "vector" => Vector!GrantedUsable
    /\ subject = "race" => Race!GrantedUsable
    /\ subject = "set" => Set!AnswersTrue
    /\ subject = "ranges" => Ranges!AnswersTrue /\ Ranges!RangeWhole
    /\ subject = "multi" => Multi!AnswersTrue /\ Multi!RangeWhole
    /\ subject = "queue" => Queue!RoomAtPush /\ Queue!SizeExactAtRest
    /\ subject = "pushers" => Pushers!RoomAtPush /\ Pushers!SizeExactAtRest
    /\ subject = "poppers" => Poppers!RoomAtPush /\ Poppers!SizeExactAtRest

\* The structure is whole: no node is deleted under a reader, the heap is a
\* heap, segments are where they are looked for, the list is sorted with its
\* buckets in it, and the pages of a queue are freed once they are used.
StructureSound ==
    /\ subject = "map" => Map!NothingDangling /\ Map!TypeOK
    /\ subject = "grown" => Grown!NothingDangling /\ Grown!TypeOK
    /\ subject = "heap" => Heap!HeapAtRest /\ Heap!TypeOK
    /\ subject = "tall" => Tall!HeapAtRest /\ Tall!TypeOK
    /\ subject = "vector" => Vector!SegmentsSound
    /\ subject = "race" => Race!SegmentsSound
    /\ subject = "set" => Set!ListSound
    /\ subject = "ranges" => Ranges!ListSound
    /\ subject = "multi" => Multi!ListSound
    /\ subject = "queue" => Queue!PagesFreed
    /\ subject = "pushers" => Pushers!PagesFreed
    /\ subject = "poppers" => Poppers!PagesFreed

\* No operation that waits for a handler is forgotten or executed twice, every
\* insertion into the list is counted once, and every item of a queue is popped
\* once, whatever throws or is aborted.
NothingLostOrRepeated ==
    /\ subject = "heap" => Heap!NothingLostOrRepeated
    /\ subject = "tall" => Tall!NothingLostOrRepeated
    /\ subject = "set" => Set!CountRight
    /\ subject = "multi" => Multi!CountRight
    /\ subject = "queue" => Queue!NothingLostOrRepeated /\ Queue!PopFindsItsSlot
    /\ subject = "pushers" => Pushers!NothingLostOrRepeated /\ Pushers!PopFindsItsSlot
    /\ subject = "poppers" => Poppers!NothingLostOrRepeated /\ Poppers!PopFindsItsSlot

\* Threads that wait for one another's locks or segments never all wait.
NoHang ==
    /\ subject = "map" => Map!NoDeadlock
    /\ subject = "grown" => Grown!NoDeadlock
    /\ subject = "vector" => Vector!NoHang
    /\ subject = "race" => Race!NoHang
=============================================================================
