----------------------------- MODULE MCProgress -----------------------------
(***************************************************************************)
(* Components under fair scheduling, side by side: the bounded queue, the  *)
(* private server and the demand of an arena.  A behaviour exercises one   *)
(* of them, the subject, chosen at the start; the variables of the others  *)
(* keep a dummy value.                                                     *)
(***************************************************************************)
EXTENDS Integers

CONSTANTS c1, c2, w1, w2, p1, p2, NULL

VARIABLES
    subject,
    pc, k, calls,
    items_per_page, head_counter, tail_counter, n_invalid_entries, head, tail, pages,
    items_waiting, items_woken, items_aborted, items_context,
    slots_waiting, slots_woken, slots_aborted, slots_context,
    stale, result, trying, aborting, popped, upsets,
    my_slack, my_ref_count, asleep, mutex, my_state, in_wait, spurious, sema, notified,
    additional, wakee, back, asked, launched, released, freed,
    pool_state, max_workers, mandatory, requested, allotted, stream, spawned, produced,
    users, op, snap, delta

ofQueue == <<items_per_page, head_counter, tail_counter, n_invalid_entries, head, tail,
             pages, items_waiting, items_woken, items_aborted, items_context,
             slots_waiting, slots_woken, slots_aborted, slots_context, stale, result,
             trying, aborting, popped, upsets>>
ofServer == <<my_slack, my_ref_count, asleep, mutex, my_state, in_wait, spurious, sema,
              notified, additional, wakee, back, asked, launched, released, freed>>
ofDemand == <<pool_state, max_workers, mandatory, requested, allotted, stream, spawned,
              produced, users, op, snap, delta>>
vars == <<subject, pc, k, calls, ofQueue, ofServer, ofDemand>>

Queue == INSTANCE BoundedQueue WITH
    Producer <- {p1, p2}, Consumer <- {c1, c2}, n_queue <- 1, PageSizes <- {1},
    Capacity <- 1, MaxTickets <- 2, Upsets <- {}, MaxUpsets <- 0, QuietAborts <- TRUE

Server == INSTANCE PrivateServer WITH
    Worker <- {w1, w2}, Client <- {c1}, AtomicNotify <- TRUE, MaxDelta <- 1, MaxCalls <- 1

\* Arenas with workers have two clients; the arena without workers has one,
\* which is the case the code provides for.
Demand == INSTANCE ArenaDemand WITH
    Client <- {c1, c2}, Inside <- {c1}, Worker <- {w1, w2}, MaxTasks <- 2,
    Arenas <- {[workers |-> 1, clients |-> {c1, c2}], [workers |-> 2, clients |-> {c1, c2}],
               [workers |-> 0, clients |-> {c1}]}

ASSUME Server!Assumptions /\ Demand!Assumptions

Unused == "unused"
NoQueue ==
    /\ items_per_page = Unused /\ head_counter = Unused /\ tail_counter = Unused
    /\ n_invalid_entries = Unused /\ head = Unused /\ tail = Unused /\ pages = Unused
    /\ items_waiting = Unused /\ items_woken = Unused /\ items_aborted = Unused
    /\ items_context = Unused /\ slots_waiting = Unused /\ slots_woken = Unused
    /\ slots_aborted = Unused /\ slots_context = Unused /\ stale = Unused
    /\ result = Unused /\ trying = Unused /\ aborting = Unused /\ popped = Unused
    /\ upsets = Unused
NoServer ==
    /\ my_slack = Unused /\ my_ref_count = Unused /\ asleep = Unused /\ mutex = Unused
    /\ my_state = Unused /\ in_wait = Unused /\ spurious = Unused /\ sema = Unused
    /\ notified = Unused /\ additional = Unused /\ wakee = Unused /\ back = Unused
    /\ asked = Unused /\ launched = Unused /\ released = Unused /\ freed = Unused
NoDemand ==
    /\ pool_state = Unused /\ max_workers = Unused /\ mandatory = Unused
    /\ requested = Unused /\ allotted = Unused /\ stream = Unused /\ spawned = Unused
    /\ produced = Unused /\ users = Unused /\ op = Unused /\ snap = Unused
    /\ delta = Unused

Init ==
    \/ subject = "queue" /\ Queue!Init /\ calls = Unused /\ NoServer /\ NoDemand
    \/ subject = "server" /\ Server!Init /\ NoQueue /\ NoDemand
    \/ subject = "demand" /\ Demand!Init /\ k = Unused /\ calls = Unused /\ NoQueue /\ NoServer

Next ==
    /\ UNCHANGED subject
    /\ \/ subject = "queue" /\ Queue!Next /\ UNCHANGED <<calls, ofServer, ofDemand>>
       \/ subject = "server" /\ Server!Next /\ UNCHANGED <<ofQueue, ofDemand>>
       \/ subject = "demand" /\ Demand!Next /\ UNCHANGED <<k, calls, ofQueue, ofServer>>

\* The fairness of each component (see the modules); nobody has to begin
\* anything.
QueueFair ==
    /\ \A p \in {p1, p2} : WF_<<pc, k, ofQueue>>(subject = "queue" /\ Queue!PushStep(p))
    /\ \A c \in {c1, c2} : WF_<<pc, k, ofQueue>>(subject = "queue" /\ Queue!PopStep(c))
ServerFair ==
    /\ \A a \in Server!Actor : WF_<<pc, k, calls, ofServer>>(subject = "server" /\ Server!Waking(a))
    /\ \A w \in {w1, w2} : WF_<<pc, k, calls, ofServer>>(subject = "server" /\ Server!Run(w))
    /\ WF_<<pc, k, calls, ofServer>>(subject = "server" /\ Server!ShutDown(c1))
DemandFair ==
    /\ \A t \in Demand!Thread : WF_<<pc, ofDemand>>(subject = "demand" /\ Demand!Advertise(t))
    /\ \A w \in {w1, w2} : WF_<<pc, ofDemand>>(subject = "demand" /\ Demand!WorkerStep(w))

Spec == Init /\ [][Next]_vars /\ QueueFair /\ ServerFair /\ DemandFair

(***************************************************************************)
(* What each component promises; the modules say why.                      *)
(***************************************************************************)
\* A call that need not wait for another thread's call returns: a push for
\* which there is room, and a pop for which there is an item.
CallsReturn ==
    \A t \in Queue!Thread :
        (subject = "queue" /\ Queue!Pending(t)) ~> (subject = "queue" => pc[t] = "idle")

\* A server that is closed is deleted in the end: every sleeper wakes up and
\* leaves.
ShutdownEnds == (subject = "server" /\ Server!Closing) ~> (subject = "server" => freed)

\* A task that was enqueued is executed, whatever the clients do afterwards.
EnqueuedExecuted == (subject = "demand" /\ stream > 0) ~> (subject = "demand" => stream = 0)

\* An arena left without work gives back all its workers.
WorkersGivenBack ==
    <>[](subject = "demand" /\ stream = 0 /\ spawned = 0)
       => <>[](subject = "demand" => Demand!Active = 0 /\ requested = 0)
=============================================================================
