------------------------- MODULE MCSynchronization -------------------------
(***************************************************************************)
(* The synchronizing components side by side.  A behaviour exercises one   *)
(* of them, the subject, which is chosen at the start; the variables of    *)
(* the others keep a dummy value.  Variables of the same name are shared.  *)
(***************************************************************************)
EXTENDS Integers, TLC

CONSTANTS t1, t2, t3, c1, c2, root, x1, x2, a1, a2, NULL

VARIABLES
    subject,
    pc, calls, seen, at, prev, next,
    q_tail, going, state, lock, pred, tmp, n, upgrading, overtaken, told,
    kind, parent, owner, may_have_children, cancelled, local_update, nonlocal_update,
    list_mutex, epoch, present, the_epoch, the_mutex, ctx, snapshot, paint, todo, delivered,
    my_slack, my_ref_count, asleep, mutex, my_state, in_wait, spurious, sema, notified,
    additional, wakee, back, k, asked, launched, released, freed,
    books, aba_epoch, births,
    pool_state, max_workers, mandatory, requested, allotted, stream, spawned, produced,
    users, op, snap, delta,
    rdr, reader_head, writer_head, writer_tail, my_current_writer, status, me

ofMutex == <<q_tail, going, state, lock, pred, tmp, n, upgrading, overtaken, told>>
ofContexts == <<kind, parent, owner, may_have_children, cancelled, local_update,
                nonlocal_update, list_mutex, epoch, present, the_epoch, the_mutex, ctx,
                snapshot, paint, todo, delivered>>
ofServer == <<my_slack, my_ref_count, asleep, mutex, my_state, in_wait, spurious, sema,
              notified, additional, wakee, back, k, asked, launched, released, freed>>
ofMarket == <<books, aba_epoch, births>>
ofDemand == <<pool_state, max_workers, mandatory, requested, allotted, stream, spawned,
              produced, users, op, snap, delta>>
ofLock == <<rdr, reader_head, writer_head, writer_tail, my_current_writer, status, me>>

Mutex == INSTANCE QueuingRWMutex WITH
    Thread <- {t1, t2, t3}, Modes <- {"read", "write", "try_read", "try_write"},
    Reupgrade <- FALSE, MaxCalls <- 4

\* Four threads, for a reader to wake another while a writer waits and one tries.
Lock == INSTANCE ReaderWriterLockProofs WITH
    Thread <- {t1, t2, t3, c1}, Modes <- {"lock", "try_lock", "lock_read", "try_lock_read"},
    MaxCalls <- 5

\* Contexts bound, cancelled and destroyed by two threads that stay; and as
\* the code is, with its windows and with threads that leave.
Contexts == INSTANCE TaskGroupContext WITH
    Thread <- {t1, t2}, Context <- {root, x1, x2}, Root <- root, Windows <- {}
Departures == INSTANCE TaskGroupContext WITH
    Thread <- {t1, t2}, Context <- {root, x1, x2}, Root <- root, Windows <- {"copy", "publish"}

\* Two clients that ask and give back; and three workers, of which the third
\* is launched by a chain reaction, as a client wakes two at most.
Server == INSTANCE PrivateServerProofs WITH
    Worker <- {t1, t2}, Client <- {c1, c2}, AtomicNotify <- TRUE, MaxDelta <- 2, MaxCalls <- 3
Chain == INSTANCE PrivateServerProofs WITH
    Worker <- {t1, t2, t3}, Client <- {c1}, AtomicNotify <- TRUE, MaxDelta <- 3, MaxCalls <- 1

\* Two arenas with priorities that change, one worker; and without
\* priorities, two workers, and an arena that is made later.
Market == INSTANCE Market WITH
    Arena <- {a1, a2}, Master <- {t1, t2}, Founders <- {t1, t2}, Worker <- {c1},
    Wanted <- 2, MaxNumWorkers <- 1, UserPriorities <- {0, 1, 2}, OneAdjustment <- TRUE,
    MaxCalls <- 3
Flat == INSTANCE Market WITH
    Arena <- {a1, a2}, Master <- {t1, t2}, Founders <- {t1}, Worker <- {c1, c2},
    Wanted <- 2, MaxNumWorkers <- 2, UserPriorities <- {}, OneAdjustment <- FALSE,
    MaxCalls <- 3

\* Arenas with workers have two clients; the arena without workers has one,
\* which is the case the code provides for.
Demand == INSTANCE ArenaDemandProofs WITH
    Client <- {c1, c2}, Inside <- {c1}, Worker <- {t1, t2}, MaxTasks <- 3,
    Arenas <- {[workers |-> 1, clients |-> {c1, c2}], [workers |-> 2, clients |-> {c1, c2}],
               [workers |-> 0, clients |-> {c1}]}

ASSUME Mutex!Assumptions
ASSUME LockAssumptions == Lock!Assumptions
ASSUME Contexts!Assumptions /\ Departures!Assumptions
ASSUME ServerAssumptions == Server!Assumptions
ASSUME ChainAssumptions == Chain!Assumptions
ASSUME Market!Assumptions /\ Flat!Assumptions
ASSUME DemandAssumptions == Demand!Assumptions

Unused == "unused"
NoLinks ==
    /\ prev = Unused /\ next = Unused
NoMutex ==
    /\ q_tail = Unused /\ going = Unused /\ state = Unused /\ lock = Unused
    /\ pred = Unused /\ tmp = Unused /\ n = Unused /\ upgrading = Unused
    /\ overtaken = Unused /\ told = Unused
NoContexts ==
    /\ kind = Unused /\ parent = Unused /\ owner = Unused /\ may_have_children = Unused
    /\ cancelled = Unused /\ local_update = Unused /\ nonlocal_update = Unused
    /\ list_mutex = Unused /\ epoch = Unused /\ present = Unused /\ the_epoch = Unused
    /\ the_mutex = Unused /\ ctx = Unused /\ snapshot = Unused /\ paint = Unused
    /\ todo = Unused /\ delivered = Unused
NoServer ==
    /\ my_slack = Unused /\ my_ref_count = Unused /\ asleep = Unused /\ mutex = Unused
    /\ my_state = Unused /\ in_wait = Unused /\ spurious = Unused /\ sema = Unused
    /\ notified = Unused /\ additional = Unused /\ wakee = Unused /\ back = Unused
    /\ k = Unused /\ asked = Unused /\ launched = Unused /\ released = Unused
    /\ freed = Unused
NoMarket ==
    /\ books = Unused /\ aba_epoch = Unused /\ births = Unused
NoDemand ==
    /\ pool_state = Unused /\ max_workers = Unused /\ mandatory = Unused
    /\ requested = Unused /\ allotted = Unused /\ stream = Unused /\ spawned = Unused
    /\ produced = Unused /\ users = Unused /\ op = Unused /\ snap = Unused
    /\ delta = Unused
NoLock ==
    /\ rdr = Unused /\ reader_head = Unused /\ writer_head = Unused
    /\ writer_tail = Unused /\ my_current_writer = Unused /\ status = Unused
    /\ me = Unused

Init ==
    \/ /\ subject = "mutex" /\ Mutex!Init
       /\ at = Unused /\ NoContexts /\ NoServer /\ NoMarket /\ NoDemand /\ NoLock
    \/ /\ subject \in {"contexts", "departures"} /\ Contexts!Init
       /\ calls = Unused /\ seen = Unused /\ NoMutex /\ NoServer /\ NoMarket /\ NoDemand
       /\ NoLock
    \/ /\ \/ subject = "server" /\ Server!Init
          \/ subject = "chain" /\ Chain!Init
       /\ seen = Unused /\ at = Unused /\ NoLinks
       /\ NoMutex /\ NoContexts /\ NoMarket /\ NoDemand /\ NoLock
    \/ /\ \/ subject = "market" /\ Market!Init
          \/ subject = "flat" /\ Flat!Init
       /\ NoLinks /\ NoMutex /\ NoContexts /\ NoServer /\ NoDemand /\ NoLock
    \/ /\ subject = "demand" /\ Demand!Init
       /\ calls = Unused /\ seen = Unused /\ at = Unused
       /\ NoLinks /\ NoMutex /\ NoContexts /\ NoServer /\ NoMarket /\ NoLock
    \/ /\ subject = "lock" /\ Lock!Init
       /\ pc = Unused /\ seen = Unused /\ at = Unused /\ prev = Unused
       /\ NoMutex /\ NoContexts /\ NoServer /\ NoMarket /\ NoDemand

Next ==
    /\ UNCHANGED subject
    /\ \/ /\ subject = "mutex" /\ Mutex!Next
          /\ UNCHANGED <<at, ofContexts, ofServer, ofMarket, ofDemand, ofLock>>
       \/ /\ \/ subject = "contexts" /\ Contexts!Next
             \/ subject = "departures" /\ Departures!LeavingNext
          /\ UNCHANGED <<calls, seen, ofMutex, ofServer, ofMarket, ofDemand, ofLock>>
       \/ /\ \/ subject = "server" /\ Server!Next
             \/ subject = "chain" /\ Chain!Next
          /\ UNCHANGED <<seen, at, prev, next, ofMutex, ofContexts, ofMarket, ofDemand, ofLock>>
       \/ /\ \/ subject = "market" /\ Market!Next
             \/ subject = "flat" /\ Flat!Next
          /\ UNCHANGED <<prev, next, ofMutex, ofContexts, ofServer, ofDemand, ofLock>>
       \/ /\ subject = "demand" /\ Demand!Next
          /\ UNCHANGED <<calls, seen, at, prev, next, ofMutex, ofContexts, ofServer, ofMarket,
                         ofLock>>
       \/ /\ subject = "lock" /\ Lock!Next
          /\ UNCHANGED <<pc, seen, at, prev, ofMutex, ofContexts, ofServer, ofMarket,
                         ofDemand>>

Spec == Init /\ [][Next]_<<subject, pc, calls, seen, at, prev, next,
                           ofMutex, ofContexts, ofServer, ofMarket, ofDemand, ofLock>>

\* t1, t2 and t3 play the same part wherever they occur.
ThreadSymmetry == Permutations({t1, t2, t3})

(***************************************************************************)
(* What each component promises; the modules say why.                      *)
(***************************************************************************)
\* A writer is alone in the queuing mutex, and upgrade_to_writer tells the truth
\* about whether another writer came first.
Exclusion == subject = "mutex" => Mutex!Exclusion /\ Mutex!UpgradeTruthful

\* Threads that wait for one another in the queuing mutex never all wait.
NoDeadlock == subject = "mutex" => Mutex!NoDeadlock

\* In the reader_writer_lock a writer is alone, readers are kept out once one is
\* about to enter, nobody touches a node that is gone, and the threads never
\* all wait for one another.
LockSound ==
    subject = "lock" =>
        Lock!Exclusion /\ Lock!WritersPreferred /\ Lock!NoDanglingNode /\ Lock!NoDeadlock

\* No thread follows a pointer to what is gone: a node in a queue,
\* a context in a list, an arena, which is also destroyed when nobody needs it.
NothingDangling ==
    /\ subject = "mutex" => Mutex!NoDanglingNode
    /\ subject = "contexts" => Contexts!NoDeadContext
    /\ subject \in {"contexts", "departures"} => Contexts!ListsWhole /\ Contexts!TypeOK
    /\ subject = "market" => Market!ArenaLifetime
    /\ subject = "flat" => Flat!ArenaLifetime /\ Flat!NoOrphan

\* A cancellation that has returned has reached every descendant.
CancelReachesAll == subject = "contexts" => Contexts!CancelReachesAll

\* No unit of slack is lost or made up on the way through the server, which
\* goes when all threads have left, each joined or released once.
SlackExact ==
    /\ subject = "server" => Server!SlackExact /\ Server!ClosedCleanly /\ Server!TypeOK
    /\ subject = "chain" => Chain!SlackExact /\ Chain!ClosedCleanly /\ Chain!TypeOK

\* Nobody sleeps while there is slack, except in the course of a chain reaction.
NobodyOversleeps ==
    /\ subject = "server" => Server!NobodyOversleeps
    /\ subject = "chain" => Chain!NobodyOversleeps

\* Demand is summed up per level, workers go to the highest levels first, and
\* without priorities the top level is never without requests.
AllotmentRight ==
    /\ subject = "market" => Market!AllotmentRight /\ Market!TypeOK
    /\ subject = "flat" => Flat!AllotmentRight /\ Flat!MarketValid /\ Flat!TypeOK

\* The demand of an arena is reported exactly, and no enqueued task misses its
\* wakeup.
DemandBalanced == subject = "demand" => Demand!DemandBalanced
NoMissedWakeup == subject = "demand" => Demand!NoMissedWakeup
=============================================================================
