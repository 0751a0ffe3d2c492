---------------------------- MODULE ObserverList ----------------------------
(***************************************************************************)
(* The list of task scheduler observers (src/src/tbb/observer_proxy.cpp):  *)
(* threads walk the list hand over hand to notify observers of their entry *)
(* and exit, while observers are enabled, disabled and destroyed.          *)
(*                                                                         *)
(* An observer is listed by a proxy with a reference count; the links of   *)
(* the list are a sequence.  A section under the list's mutex is one step. *)
(* The list is that of an arena, which is cleared when the arena dies, or  *)
(* the global one, where workers also ask for the permission to sleep.     *)
(***************************************************************************)
EXTENDS Integers, Sequences

CONSTANTS
    Thread, Observer, Proxy, NULL,
    Global,         \* the list is the global one
    MaxEnables,     \* bound: activations of observers
    MaxVisits       \* bound: visits of the threads

Assumptions ==
    /\ Global \in BOOLEAN
    /\ MaxEnables \in Nat /\ MaxVisits \in Nat
    /\ NULL \notin Thread \cup Observer \cup Proxy

VARIABLES
    list,           \* the proxies, from my_head to my_tail
    my_ref_count, my_observer,  \* of each proxy
    live,           \* the proxies that are allocated
    my_proxy, my_busy_count,    \* of each observer
    user,           \* of each observer: what its owner is doing
    cleared,        \* the arena dies
    pc, walk,       \* of each thread, and the kind of its walk
    p, prev, last,  \* local: where the walk is, what it has pinned, where it ended
    notified,       \* ghost: the observers a thread has told of its entry
    orderly,        \* ghost: exits were told to those told of the entry
    enables, visits

proxies == <<list, my_ref_count, my_observer, live>>
observers == <<my_proxy, my_busy_count, user, cleared, enables>>
threads == <<pc, walk, p, prev, last, notified, orderly, visits>>
vars == <<proxies, observers, threads>>

Init ==
    /\ list = <<>> /\ live = {}
    /\ my_ref_count = [x \in Proxy |-> 0]
    /\ my_observer = [x \in Proxy |-> NULL]
    /\ my_proxy = [o \in Observer |-> NULL]
    /\ my_busy_count = [o \in Observer |-> 0]
    /\ user = [o \in Observer |-> "off"]
    /\ cleared = FALSE /\ enables = 0 /\ visits = 0
    /\ pc = [t \in Thread |-> "out"]
    /\ walk = [t \in Thread |-> "entry"]
    /\ p = [t \in Thread |-> NULL]
    /\ prev = [t \in Thread |-> NULL]
    /\ last = [t \in Thread |-> NULL]
    /\ notified = [t \in Thread |-> {}]
    /\ orderly = TRUE

Set(f, x, v) == [f EXCEPT ![x] = v]
Goto(t, from, to) == pc[t] = from /\ pc' = Set(pc, t, to)
Position(x) == IF x = NULL THEN 0 ELSE CHOOSE i \in DOMAIN list : list[i] = x
Without(x) == SelectSeq(list, LAMBDA y : y # x)
my_tail == IF list = <<>> THEN NULL ELSE list[Len(list)]

\* A reference is given up under the lock; the last one deletes the proxy.
Unpin(x) ==
    /\ my_ref_count' = [my_ref_count EXCEPT ![x] = @ - 1]
    /\ IF my_ref_count[x] = 1
       THEN list' = Without(x) /\ live' = live \ {x}
       ELSE UNCHANGED <<list, live>>

(***************************************************************************)
(* observe(true) and observe(false)                                        *)
(***************************************************************************)
Enable(o) ==
    /\ user[o] = "off" /\ ~cleared
    /\ enables < MaxEnables /\ enables' = enables + 1
    /\ user' = Set(user, o, "on")
    /\ \E x \in Proxy \ live :
        /\ live' = live \cup {x}
        /\ my_ref_count' = Set(my_ref_count, x, 1)
        /\ my_observer' = Set(my_observer, x, o)
        /\ my_proxy' = Set(my_proxy, o, x)
        /\ list' = Append(list, x)
    /\ my_busy_count' = Set(my_busy_count, o, 0)
    /\ notified' = [t \in Thread |-> notified[t] \ {o}]
    /\ UNCHANGED <<cleared, pc, walk, p, prev, last, orderly, visits>>

\* The exchange that the clearing of the list may win.
Disable(o) ==
    /\ user[o] = "on"
    /\ user' = Set(user, o, IF my_proxy[o] = NULL THEN "off" ELSE my_proxy[o])
    /\ my_proxy' = Set(my_proxy, o, NULL)
    /\ UNCHANGED <<proxies, my_busy_count, cleared, enables, threads>>
Detach(o) ==
    /\ user[o] \in Proxy
    /\ user' = Set(user, o, "waits")
    /\ my_observer' = Set(my_observer, user[o], NULL)
    /\ Unpin(user[o])
    /\ UNCHANGED <<my_proxy, my_busy_count, cleared, enables, threads>>
\* Mutated form: without waiting for the callbacks that are running.
DisabledAtOnce(o) ==
    /\ user[o] = "waits"
    /\ user' = Set(user, o, "off")
    /\ UNCHANGED <<proxies, my_proxy, my_busy_count, cleared, enables, threads>>
Disabled(o) ==
    /\ user[o] = "waits" /\ my_busy_count[o] = 0
    /\ user' = Set(user, o, "off")
    /\ UNCHANGED <<proxies, my_proxy, my_busy_count, cleared, enables, threads>>

(***************************************************************************)
(* Walks: p is where the walk is, prev what it has pinned on the way.      *)
(***************************************************************************)
Walk(t, from, kind) ==
    /\ Goto(t, from, "walk")
    /\ walk' = Set(walk, t, kind)
    /\ LET start == IF kind = "entry" THEN last[t] ELSE NULL
       IN  p' = Set(p, t, start) /\ prev' = Set(prev, t, start)
    /\ UNCHANGED <<proxies, observers, last, notified, orderly>>

Rests(t, from, to) ==
    /\ Goto(t, from, to)
    /\ UNCHANGED <<proxies, observers, walk, p, prev, last, notified, orderly>>

\* A thread enters the arena, looks for new observers while it is there, and
\* leaves.
Enter(t) ==
    /\ ~cleared /\ visits < MaxVisits /\ visits' = visits + 1
    /\ IF last[t] = my_tail THEN Rests(t, "out", "in") ELSE Walk(t, "out", "entry")
Renew(t) ==
    /\ last[t] # my_tail
    /\ Walk(t, "in", "entry") /\ UNCHANGED visits
Leave(t) ==
    /\ IF last[t] = NULL THEN Rests(t, "in", "out") ELSE Walk(t, "in", "exit")
    /\ UNCHANGED visits
\* ask_permission_to_leave, on the global list only
Ask(t) ==
    /\ Global /\ list # <<>>
    /\ visits < MaxVisits /\ visits' = visits + 1
    /\ Walk(t, "in", "ask")

\* The first proxy behind p whose observer is still there, as far as the
\* walk goes.
Limit(t) == IF walk[t] = "exit" THEN Position(last[t]) ELSE Len(list)
Ahead(t) == {i \in Position(p[t]) + 1 .. Limit(t) : my_observer[list[i]] # NULL}
First(S) == CHOOSE i \in S : \A j \in S : i <= j

\* remove_ref_fast(prev), when the walk leaves p: the observer's reference is
\* left, so the proxy cannot go; otherwise prev is released later.
Leaves(t) == p[t] # NULL /\ p[t] = prev[t]
             /\ (walk[t] = "ask" \/ Position(p[t]) < Limit(t))
Fast(t) == Leaves(t) /\ my_observer[p[t]] # NULL
Unpinned(t) == IF Fast(t) THEN [my_ref_count EXCEPT ![p[t]] = @ - 1] ELSE my_ref_count
Kept(t) == IF Fast(t) THEN NULL ELSE prev[t]

\* To the next observer, which is kept busy until it has been called.
Advance(t) ==
    /\ pc[t] = "walk" /\ Ahead(t) # {}
    /\ LET x == list[First(Ahead(t))]
       IN  /\ my_ref_count' = IF walk[t] = "exit" /\ x = last[t] THEN Unpinned(t)
                              ELSE [Unpinned(t) EXCEPT ![x] = @ + 1]
           /\ my_busy_count' = [my_busy_count EXCEPT ![my_observer[x]] = @ + 1]
           /\ p' = Set(p, t, x)
           /\ pc' = Set(pc, t, my_observer[x])
    /\ prev' = Set(prev, t, Kept(t))
    /\ UNCHANGED <<list, my_observer, live, my_proxy, user, cleared, enables, walk, last,
                   notified, orderly, visits>>

\* remove_ref: the proxy kept is released, under the lock if the reference may
\* be the last; then the observer is called and let go.
Drop(t) ==
    /\ pc[t] \in Observer \cup {"end"} /\ prev[t] # NULL
    /\ Unpin(prev[t])
    /\ prev' = Set(prev, t, NULL)
    /\ UNCHANGED <<my_observer, observers, pc, walk, p, last, notified, orderly, visits>>

Called(t, o) ==
    /\ my_busy_count' = [my_busy_count EXCEPT ![o] = @ - 1]
    /\ prev' = Set(prev, t, p[t])
    /\ UNCHANGED <<proxies, my_proxy, user, cleared, enables, walk, p, last, visits>>
CallEntry(t) == \E o \in Observer :
    /\ pc[t] = o /\ prev[t] = NULL /\ walk[t] = "entry"
    /\ pc' = Set(pc, t, "walk")
    /\ notified' = [notified EXCEPT ![t] = @ \cup {o}]
    /\ Called(t, o) /\ UNCHANGED orderly
CallExit(t) == \E o \in Observer :
    /\ pc[t] = o /\ prev[t] = NULL /\ walk[t] = "exit"
    /\ pc' = Set(pc, t, "walk")
    /\ notified' = [notified EXCEPT ![t] = @ \ {o}]
    /\ orderly' = (orderly /\ o \in notified[t])
    /\ Called(t, o)
\* may_sleep, which may refuse
CallAsk(t) == \E o \in Observer, allowed \in BOOLEAN :
    /\ pc[t] = o /\ prev[t] = NULL /\ walk[t] = "ask"
    /\ pc' = Set(pc, t, IF allowed THEN "walk" ELSE "end")
    /\ Called(t, o) /\ UNCHANGED <<notified, orderly>>

\* The end of the list: the walk keeps a reference to the last proxy.
EndEntry(t) ==
    /\ Goto(t, "walk", "end")
    /\ walk[t] = "entry" /\ Ahead(t) = {}
    /\ IF p[t] # NULL /\ Position(p[t]) = Len(list)
       THEN UNCHANGED my_ref_count /\ prev' = Set(prev, t, NULL) /\ last' = Set(last, t, p[t])
       ELSE IF list = <<>> THEN UNCHANGED <<my_ref_count, prev, last>>
       ELSE /\ my_ref_count' = [Unpinned(t) EXCEPT ![my_tail] = @ + 1]
            /\ last' = Set(last, t, my_tail)
            /\ prev' = Set(prev, t, Kept(t))
    /\ UNCHANGED <<list, my_observer, live, observers, walk, p, notified, orderly, visits>>
\* The last one is reached; the walk gives up its reference, but what it had
\* kept from before stays pinned.
EndExit(t) ==
    /\ Goto(t, "walk", "end")
    /\ walk[t] = "exit" /\ Ahead(t) = {}
    /\ IF my_observer[last[t]] # NULL
       THEN /\ my_ref_count' = [Unpinned(t) EXCEPT ![last[t]] = @ - 1]
            /\ prev' = Set(prev, t, NULL)
       ELSE /\ my_ref_count' = Unpinned(t)
            /\ prev' = Set(prev, t, last[t])
    /\ last' = Set(last, t, NULL)
    /\ UNCHANGED <<list, my_observer, live, observers, walk, p, notified, orderly, visits>>
EndAsking(t) ==
    /\ Goto(t, "walk", "end")
    /\ walk[t] = "ask" /\ Ahead(t) = {}
    /\ my_ref_count' = Unpinned(t) /\ prev' = Set(prev, t, Kept(t))
    /\ UNCHANGED <<list, my_observer, live, observers, walk, p, last, notified, orderly, visits>>

\* The walk is over; after an exit the thread is out of the arena.
Done(t) ==
    /\ prev[t] = NULL
    /\ Goto(t, "end", IF walk[t] = "exit" THEN "out" ELSE "in")
    /\ p' = Set(p, t, NULL)
    /\ IF walk[t] = "exit"
       THEN /\ notified' = Set(notified, t, {})
            /\ orderly' = (orderly /\ \A o \in notified[t] : my_proxy[o] = NULL)
       ELSE UNCHANGED <<notified, orderly>>
    /\ UNCHANGED <<proxies, observers, walk, prev, last, visits>>

\* observer_list::clear, when the arena has no threads any more
Clear ==
    /\ ~Global /\ ~cleared /\ \A t \in Thread : pc[t] = "out"
    /\ cleared' = TRUE
    /\ LET gone == {x \in live : my_observer[x] # NULL /\ my_proxy[my_observer[x]] # NULL}
       IN  /\ my_proxy' = [o \in Observer |-> NULL]
           /\ live' = live \ gone
           /\ list' = SelectSeq(list, LAMBDA x : x \notin gone)
           /\ my_ref_count' = [x \in Proxy |-> IF x \in gone THEN 0 ELSE my_ref_count[x]]
           /\ my_observer' = [x \in Proxy |-> IF x \in gone THEN NULL ELSE my_observer[x]]
    /\ UNCHANGED <<my_busy_count, user, enables, threads>>

Step(t) ==
    \/ Enter(t) \/ Renew(t) \/ Leave(t) \/ Ask(t)
    \/ Advance(t) \/ Drop(t)
    \/ CallEntry(t) \/ CallExit(t) \/ CallAsk(t)
    \/ EndEntry(t) \/ EndExit(t) \/ EndAsking(t) \/ Done(t)

Next ==
    \/ \E o \in Observer : Enable(o) \/ Disable(o) \/ Detach(o) \/ Disabled(o)
    \/ \E t \in Thread : Step(t)
    \/ Clear

Spec == Init /\ [][Next]_vars

(***************************************************************************)
(* Properties.                                                             *)
(***************************************************************************)
TypeOK ==
    /\ live \subseteq Proxy /\ list \in Seq(live)
    /\ my_ref_count \in [Proxy -> 0 .. 1 + 2 * MaxVisits]
    /\ my_observer \in [Proxy -> Observer \cup {NULL}]
    /\ my_busy_count \in [Observer -> Nat]
    /\ user \in [Observer -> {"off", "on", "waits"} \cup Proxy]

\* A proxy that a walk has pinned, that a thread remembers as the last it has
\* told, or that an observer refers to is allocated and listed, and an
\* observer that is being called has not returned from observe(false).
NothingDangling ==
    /\ \A x \in live : my_ref_count[x] > 0 /\ \E i \in DOMAIN list : list[i] = x
    /\ \A t \in Thread :
        /\ prev[t] \in live \cup {NULL}
        /\ pc[t] = "in" \/ walk[t] # "entry" => last[t] \in live \cup {NULL}
        /\ pc[t] \in Observer \cup {"walk"} => p[t] \in live \cup {NULL}
        /\ pc[t] \in Observer => user[pc[t]] # "off"
    /\ \A o \in Observer : {my_proxy[o], user[o]} \cap Proxy \subseteq live

\* A thread that leaves tells those observers of its exit that it has told of
\* its entry, unless they have been disabled, and no others.
ExitsMatchEntries == orderly

\* The list of an arena that dies gets empty, once the observers that are
\* being disabled have detached themselves: the arena waits for that.
ClearEnds == cleared /\ (\A o \in Observer : user[o] \notin Proxy) => list = <<>>
=============================================================================
