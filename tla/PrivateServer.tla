---------------------------- MODULE PrivateServer ----------------------------
(***************************************************************************)
(* private_server (src/src/tbb/private_server.cpp): the market tells it    *)
(* how many workers it wants more or fewer of; a worker sleeps on the      *)
(* server's list while there are more active workers than jobs, and wakes  *)
(* others in a chain reaction.  A worker sleeps on its thread_monitor      *)
(* (src/src/rml/server/thread_monitor.h).                                  *)
(***************************************************************************)
EXTENDS Integers, FiniteSets, SequencesExt

CONSTANTS
    Worker, Client,  \* Client: threads that adjust the demand and close the server
    NULL,
    AtomicNotify,    \* whether a notification is a single step (in the code it is not)
    MaxDelta,        \* bound: what one call asks for
    MaxCalls         \* bound: requests in all

Assumptions ==
    /\ Worker \cap Client = {} /\ NULL \notin Worker \cup Client
    /\ AtomicNotify \in BOOLEAN /\ {MaxDelta, MaxCalls} \subseteq Nat
    /\ IsFiniteSet(Worker) /\ IsFiniteSet(Client)

Actor == Worker \cup Client

VARIABLES
    my_slack, my_ref_count, asleep, mutex,      \* the server; asleep is the list
    my_state,                                   \* workers
    in_wait, spurious, sema, notified,          \* thread monitors
    pc, additional, wakee, back, k,                \* wake_some of each actor; back: where it returns to; k of try_insert_in_asleep_list
    asked, calls,                               \* what each client asks for; requests so far
    launched, released, freed                   \* history: threads, their handles, the server

server == <<my_slack, my_ref_count, asleep, mutex>>
monitor == <<in_wait, spurious, sema, notified>>
waking == <<additional, wakee, back, k>>
demand == <<asked, calls>>
hist == <<launched, released, freed>>
vars == <<server, my_state, monitor, pc, waking, demand, hist>>

Init ==
    /\ my_slack = 0 /\ my_ref_count = Cardinality(Worker) + 1 /\ mutex = NULL
    /\ asleep \in SetToSeqs(Worker)
    /\ my_state = [w \in Worker |-> "init"]
    /\ in_wait = [w \in Worker |-> FALSE] /\ spurious = [w \in Worker |-> FALSE]
    /\ sema = [w \in Worker |-> 0] /\ notified = [w \in Worker |-> FALSE]
    /\ pc = [a \in Actor |-> IF a \in Client THEN "idle" ELSE "none"]
    /\ additional = [a \in Actor |-> 0] /\ wakee = [a \in Actor |-> <<>>]
    /\ back = [a \in Actor |-> NULL] /\ k = [w \in Worker |-> 0]
    /\ asked = [c \in Client |-> 0] /\ calls = 0
    /\ launched = {} /\ released = [w \in Worker |-> 0] /\ freed = FALSE

Set(f, x, v) == [f EXCEPT ![x] = v]
Goto(a, from, to) == pc[a] = from /\ pc' = Set(pc, a, to)
Jump(a, from, to) ==
    Goto(a, from, to) /\ UNCHANGED <<server, my_state, monitor, waking, demand, hist>>


\* thread_monitor::notify of w: the epoch, then in_wait and the semaphore
Signal(w) ==
    /\ in_wait' = Set(in_wait, w, FALSE)
    /\ sema' = IF in_wait[w] THEN Set(sema, w, 1) ELSE sema
Bump(a, from, to, w) ==
    /\ Goto(a, from, to) /\ notified' = Set(notified, w, TRUE)
    /\ IF AtomicNotify THEN Signal(w) ELSE UNCHANGED <<in_wait, sema>>
    /\ UNCHANGED <<server, my_state, spurious, waking, demand, hist>>
SignalLate(w) == IF AtomicNotify THEN UNCHANGED <<in_wait, sema>> ELSE Signal(w)
RemoveServerRef ==
    /\ my_ref_count' = my_ref_count - 1
    /\ freed' = (my_ref_count = 1)

(***************************************************************************)
(* wake_some(additional): up to two sleepers for new demand, or for slack  *)
(* that others have left (a chain reaction)                                *)
(***************************************************************************)
WakeSome(a, from, to, additional_workers) ==
    /\ Goto(a, from, "wake_lock")
    /\ additional' = Set(additional, a, additional_workers) /\ back' = Set(back, a, to)
    /\ UNCHANGED <<server, my_state, monitor, wakee, k, hist>>

WakeLock(a) ==
    /\ Goto(a, "wake_lock", "wake_loop") /\ mutex = NULL /\ mutex' = a
    /\ UNCHANGED <<my_slack, my_ref_count, asleep, my_state, monitor, waking, demand, hist>>

CanPop(a) == asleep # <<>> /\ Len(wakee[a]) < 2
Pop(a) == asleep' = Tail(asleep) /\ wakee' = Set(wakee, a, Append(wakee[a], Head(asleep)))
\* New demand in excess of the surplus of workers takes a sleeper.
PopForDemand(a) ==
    /\ Goto(a, "wake_loop", "wake_loop") /\ CanPop(a)
    /\ additional[a] > 0 /\ additional[a] + my_slack > 0
    /\ Pop(a) /\ additional' = Set(additional, a, additional[a] - 1)
    /\ UNCHANGED <<my_slack, my_ref_count, mutex, my_state, monitor, back, k, demand, hist>>
\* Otherwise a sleeper is combined with a unit of slack.
PopForSlack(a) ==
    /\ Goto(a, "wake_loop", "wake_loop") /\ CanPop(a)
    /\ additional[a] = 0 /\ my_slack > 0
    /\ Pop(a) /\ my_slack' = my_slack - 1
    /\ UNCHANGED <<my_ref_count, mutex, my_state, monitor, additional, back, k, demand, hist>>
\* Mutated form: the demand that is left is forgotten.
WakeLosingRest(a) ==
    /\ Goto(a, "wake_loop", "wake_each")
    /\ ~(CanPop(a) /\ additional[a] + my_slack > 0)
    /\ additional' = Set(additional, a, 0) /\ mutex' = NULL
    /\ UNCHANGED <<my_slack, my_ref_count, asleep, my_state, monitor, wakee, back, k, demand, hist>>
\* The demand that is left becomes slack.
WakeUnlock(a) ==
    /\ Goto(a, "wake_loop", "wake_each")
    /\ ~(CanPop(a) /\ additional[a] + my_slack > 0)
    /\ my_slack' = my_slack + additional[a]
    /\ additional' = Set(additional, a, 0) /\ mutex' = NULL
    /\ UNCHANGED <<my_ref_count, asleep, my_state, monitor, wakee, back, k, demand, hist>>

\* wake_or_launch, from the last one popped on
Wakee(a) == Last(wakee[a])
WakeEach(a) ==
    /\ pc[a] = "wake_each" /\ wakee[a] # <<>>
    /\ LET w == Wakee(a) IN
       IF my_state[w] = "init"
       THEN /\ Goto(a, "wake_each", "launch") /\ my_state' = Set(my_state, w, "starting")
            /\ UNCHANGED <<server, monitor, waking, demand, hist>>
       ELSE Bump(a, "wake_each", "signal", w)
Waked(a) == wakee' = Set(wakee, a, Front(wakee[a]))
SignalWakee(a) ==
    /\ Goto(a, "signal", "wake_each") /\ SignalLate(Wakee(a)) /\ Waked(a)
    /\ UNCHANGED <<server, my_state, spurious, notified, additional, back, k, demand, hist>>
Launch(a) ==
    /\ pc[a] = "launch"
    /\ pc' = [pc EXCEPT ![a] = "launched", ![Wakee(a)] = "run"]
    /\ launched' = launched \cup {Wakee(a)}
    /\ UNCHANGED <<server, my_state, monitor, waking, demand, released, freed>>
\* Mutated form: nobody releases the handle after such a shutdown.
LaunchedKeeping(a) ==
    LET w == Wakee(a) IN
    /\ Goto(a, "launched", "wake_each") /\ Waked(a)
    /\ my_state' = IF my_state[w] = "starting" THEN Set(my_state, w, "normal") ELSE my_state
    /\ UNCHANGED <<server, monitor, additional, back, k, demand, hist>>
\* A shutdown that came first could not release the handle: it is done here.
Launched(a) ==
    LET w == Wakee(a) IN
    /\ Goto(a, "launched", "wake_each") /\ Waked(a)
    /\ IF my_state[w] = "starting"
       THEN my_state' = Set(my_state, w, "normal") /\ UNCHANGED released
       ELSE released' = Set(released, w, released[w] + 1) /\ UNCHANGED my_state
    /\ UNCHANGED <<server, monitor, additional, back, k, demand, launched, freed>>
WakeDone(a) ==
    /\ Goto(a, "wake_each", back[a]) /\ wakee[a] = <<>>
    /\ back' = Set(back, a, NULL)
    /\ UNCHANGED <<server, my_state, monitor, additional, wakee, k, demand, hist>>

Waking(a) ==
    \/ WakeLock(a) \/ PopForDemand(a) \/ PopForSlack(a) \/ WakeUnlock(a)
    \/ WakeEach(a) \/ SignalWakee(a) \/ Launch(a) \/ Launched(a) \/ WakeDone(a)

(***************************************************************************)
(* private_worker::run                                                     *)
(***************************************************************************)
\* propagate_chain_reaction
ChainReaction(w, from) ==
    \/ asleep # <<>> /\ WakeSome(w, from, "loop", 0) /\ UNCHANGED demand
    \/ asleep = <<>> /\ Jump(w, from, "loop")
Start(w) == ChainReaction(w, "run")

\* With slack the worker serves the market's arenas, which changes nothing here.
Idle(w) == my_slack < 0 /\ my_state[w] # "quit" /\ Jump(w, "loop", "prepare")
\* prepare_wait consumes a post that came after an earlier wait was cancelled.
PrepareWait(w) ==
    /\ Goto(w, "prepare", "check")
    /\ spurious[w] => sema[w] = 1
    /\ sema' = IF spurious[w] THEN Set(sema, w, 0) ELSE sema
    /\ spurious' = Set(spurious, w, FALSE)
    /\ notified' = Set(notified, w, FALSE)
    /\ in_wait' = Set(in_wait, w, TRUE)
    /\ UNCHANGED <<server, my_state, waking, demand, hist>>
\* Mutated form: the state is not looked at again after prepare_wait.
CheckNothing(w) == Jump(w, "check", "try_insert")
Check(w) == Jump(w, "check", IF my_state[w] = "quit" THEN "cancel" ELSE "try_insert")

\* try_insert_in_asleep_list
TryInsert(w) ==
    /\ pc[w] = "try_insert"
    /\ IF mutex # NULL THEN Jump(w, "try_insert", "cancel")
       ELSE /\ Goto(w, "try_insert", "insert")
            /\ mutex' = w /\ my_slack' = my_slack + 1
            /\ k' = Set(k, w, my_slack + 1)
            /\ UNCHANGED <<my_ref_count, asleep, my_state, monitor, additional, wakee, back, demand, hist>>
\* Mutated form: the worker sleeps though there is slack now.
InsertAlways(w) ==
    /\ Goto(w, "insert", "commit")
    /\ asleep' = <<w>> \o asleep /\ mutex' = NULL /\ k' = Set(k, w, 0)
    /\ UNCHANGED <<my_slack, my_ref_count, my_state, monitor, additional, wakee, back, demand, hist>>
\* k is what my_slack became; whoever takes that unit finds us on the list.
Insert(w) ==
    /\ mutex' = NULL /\ pc[w] = "insert" /\ k' = Set(k, w, 0)
    /\ IF k[w] <= 0
       THEN Goto(w, "insert", "commit") /\ asleep' = <<w>> \o asleep /\ UNCHANGED my_slack
       ELSE Goto(w, "insert", "cancel") /\ my_slack' = my_slack - 1 /\ UNCHANGED asleep
    /\ UNCHANGED <<my_ref_count, my_state, monitor, additional, wakee, back, demand, hist>>

\* cancel_wait, and how commit_wait goes on after a notification
Cancel(w, from, to) ==
    /\ Goto(w, from, to)
    /\ spurious' = Set(spurious, w, ~in_wait[w]) /\ in_wait' = Set(in_wait, w, FALSE)
    /\ UNCHANGED <<server, my_state, sema, notified, waking, demand, hist>>
CancelWait(w) == Cancel(w, "cancel", "loop")
CommitWait(w) == Jump(w, "commit", IF notified[w] THEN "late" ELSE "sleep")
Late(w) == Cancel(w, "late", "woken")
Sleep(w) ==
    /\ Goto(w, "sleep", "woken") /\ sema[w] = 1 /\ sema' = Set(sema, w, 0)
    /\ UNCHANGED <<server, my_state, in_wait, spurious, notified, waking, demand, hist>>
Woken(w) == ChainReaction(w, "woken")

Quit(w) ==
    /\ my_state[w] = "quit" /\ Goto(w, "loop", "quit")
    /\ my_slack' = my_slack + 1
    /\ UNCHANGED <<my_ref_count, asleep, mutex, my_state, monitor, waking, demand, hist>>
End(w) ==
    /\ Goto(w, "quit", "end") /\ RemoveServerRef
    /\ UNCHANGED <<my_slack, asleep, mutex, my_state, monitor, waking, demand, launched, released>>

Run(w) ==
    \/ Start(w) \/ Idle(w) \/ PrepareWait(w) \/ Check(w) \/ TryInsert(w)
    \/ Insert(w) \/ CancelWait(w) \/ CommitWait(w) \/ Late(w) \/ Sleep(w)
    \/ Woken(w) \/ Quit(w) \/ End(w)

(***************************************************************************)
(* The market: adjust_job_count_estimate and request_close_connection,     *)
(* which comes when all demand has been given back                         *)
(***************************************************************************)
Closing == \E c \in Client : pc[c] \notin {"idle", "wake_lock", "wake_loop", "wake_each", "signal", "launch", "launched"}

\* The market never asks for more workers than there are.
Request(c, delta) ==
    /\ ~Closing /\ asked[c] = 0 /\ SumFunction(asked) + delta <= Cardinality(Worker)
    /\ calls < MaxCalls /\ calls' = calls + 1
    /\ asked' = Set(asked, c, delta)
    /\ WakeSome(c, "idle", "idle", delta)
Return(c) ==
    /\ asked[c] > 0 /\ Goto(c, "idle", "idle")
    /\ my_slack' = my_slack - asked[c]
    /\ asked' = Set(asked, c, 0)
    /\ UNCHANGED <<calls, my_ref_count, asleep, mutex, my_state, monitor, waking, hist>>

Close(c) ==
    /\ \A d \in Client : pc[d] = "idle" /\ asked[d] = 0
    /\ Jump(c, "idle", "shutdown")
\* start_shutdown of one worker, which wakee holds, with its state in back
StartShutdown(c, w) ==
    /\ my_state[w] # "quit" /\ my_state' = Set(my_state, w, "quit")
    /\ wakee' = Set(wakee, c, <<w>>) /\ back' = Set(back, c, my_state[w])
    /\ IF my_state[w] = "init"
       THEN Goto(c, "shutdown", "shutdown") /\ RemoveServerRef
       ELSE Goto(c, "shutdown", "notify") /\ UNCHANGED <<my_ref_count, freed>>
    /\ UNCHANGED <<my_slack, asleep, mutex, monitor, additional, k, demand, launched, released>>
NotifyQuit(c) == pc[c] = "notify" /\ Bump(c, "notify", "signal_quit", wakee[c][1])
SignalQuit(c) ==
    /\ Goto(c, "signal_quit", IF back[c] = "normal" THEN "release_handle" ELSE "shutdown")
    /\ SignalLate(wakee[c][1])
    /\ UNCHANGED <<server, my_state, spurious, notified, waking, demand, hist>>
ReleaseHandle(c) ==
    LET w == wakee[c][1] IN
    /\ Goto(c, "release_handle", "shutdown")
    /\ released' = Set(released, w, released[w] + 1)
    /\ UNCHANGED <<server, my_state, monitor, waking, demand, launched, freed>>
Closed(c) ==
    /\ \A w \in Worker : my_state[w] = "quit"
    /\ Goto(c, "shutdown", "closed")
    /\ RemoveServerRef
    /\ UNCHANGED <<my_slack, asleep, mutex, my_state, monitor, waking, demand, launched, released>>

ShutDown(c) ==
    \/ \E w \in Worker : StartShutdown(c, w)
    \/ NotifyQuit(c) \/ SignalQuit(c) \/ ReleaseHandle(c) \/ Closed(c)

Next ==
    \/ \E c \in Client : (\E delta \in 1..MaxDelta : Request(c, delta)) \/ Return(c) \/ Close(c) \/ ShutDown(c)
    \/ \E a \in Actor : Waking(a)
    \/ \E w \in Worker : Run(w)
Spec == Init /\ [][Next]_vars

(***************************************************************************)
(* Properties                                                              *)
(***************************************************************************)
\* my_slack is "Number of jobs that could use their associated thread minus
\* number of active threads": no unit of it is lost or made up, however
\* adjustments, chain reactions and workers that fall asleep meet.
SlackExact ==
    ~Closing =>
        my_slack + SumFunction(additional) + Cardinality(Worker)
        = SumFunction(asked) + Len(asleep) + Cardinality({w \in Worker : pc[w] = "insert"})

\* Somebody who is going to look at the list again
OnTheWay(a) ==
    \/ pc[a] \in {"wake_lock", "wake_loop", "run", "woken", "launch"}
    \/ pc[a] \in {"wake_each", "signal"} /\ wakee[a] # <<>>
    \/ a \in Worker /\ pc[a] \in {"commit", "late"} /\ notified[a]
    \/ a \in Worker /\ pc[a] = "sleep" /\ sema[a] = 1

\* "The invariant that holds for sleeping workers": nobody sleeps while there
\* is slack, except in the course of a chain reaction.
NobodyOversleeps ==
    mutex = NULL /\ ~Closing /\ asleep # <<>> /\ my_slack > 0 => \E a \in Actor : OnTheWay(a)

\* When the server is deleted, nobody is in it, and the handle of each thread
\* that was ever launched has been released exactly once.
ClosedCleanly ==
    freed =>
        /\ \A a \in Actor : pc[a] \in {"idle", "none", "end", "closed"}
        /\ \A w \in Worker : released[w] = IF w \in launched THEN 1 ELSE 0

TypeOK ==
    /\ my_slack \in -Cardinality(Worker)..2 * Cardinality(Worker)
    /\ my_ref_count \in 0..Cardinality(Worker) + 1
    /\ IsInjective(asleep) /\ Range(asleep) \subseteq Worker
    /\ \A w \in Worker : my_state[w] \in {"init", "starting", "normal", "quit"} /\ sema[w] \in {0, 1}

\* A closed server is deleted in the end: every sleeper wakes up and leaves.
ShutdownEnds == Closing ~> freed
=============================================================================
