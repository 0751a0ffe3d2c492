------------------------------- MODULE Market -------------------------------
(***************************************************************************)
(* The market (src/src/tbb/market.cpp): the arenas it lists by priority,   *)
(* how it divides its workers among them, how arenas change their          *)
(* priority, and when an abandoned arena is destroyed                      *)
(* (on_thread_leaving in src/src/tbb/arena.h).                             *)
(*                                                                         *)
(* What is done under my_arenas_list_mutex as a writer is one action; the  *)
(* search for an arena in need holds it as a reader, and its check of an   *)
(* arena and the reference it then takes are two.  Whether an arena has    *)
(* tasks is left open: a thread inside may publish work at any time, and a *)
(* snapshot may find none.                                                 *)
(***************************************************************************)
EXTENDS Integers, FiniteSets, Sequences, SequencesExt

CONSTANTS
    Arena,              \* the addresses at which arenas are allocated
    Master,             \* application threads, each with an arena of its own
    Founders,           \* the masters that have an arena at the start
    Worker,             \* worker threads
    NULL,               \* no arena
    Wanted,             \* the number of workers an arena with work asks for
    MaxNumWorkers,      \* my_max_num_workers
    UserPriorities,     \* the levels the application gives to its tasks
    OneAdjustment,      \* one thread at a time adjusts the demand of an arena
    MaxCalls            \* bound: arenas created, work published, priorities set

Assumptions ==
    /\ Founders \subseteq Master /\ Master \cap Worker = {} /\ NULL \notin Arena
    /\ Wanted \in Nat \ {0} /\ MaxNumWorkers \in Nat \ {0}
    /\ UserPriorities \subseteq 0 .. 2
    /\ OneAdjustment \in BOOLEAN
    /\ MaxCalls \in Nat

Thread == Master \cup Worker
Level == 0 .. 2         \* num_priority_levels
Normal == 1             \* normalized_normal_priority

VARIABLES
    books,      \* what the mutex guards: [top, bottom, level, arena]
    aba_epoch,  \* my_arenas_aba_epoch
    births,     \* ghost: the arenas created so far
    calls,
    pc,
    at,         \* local: the arena a thread is in, enters or has left
    seen        \* local: [top, epoch, life] of it, for a snapshot or the destruction

vars == <<books, aba_epoch, births, calls, pc, at, seen>>

(***************************************************************************)
(* The lists of arenas.                                                    *)
(***************************************************************************)
Arenas(s, l) == s.level[l].arenas
Next_(s, l) == s.level[l].next
Requested(s, l) == s.level[l].requested

\* The arena after a in the circular list of its level.
After(list, a) == LET i == CHOOSE k \in DOMAIN list : list[k] = a
                  IN  list[1 + (i % Len(list))]

InsertArena(s, a) ==
    LET l == s.arena[a].top IN
    [s EXCEPT !.level[l].arenas = <<a>> \o @,
              !.level[l].next = IF Arenas(s, l) = <<>> THEN a ELSE @]

RemoveArena(s, a) ==
    LET l == s.arena[a].top IN
    [s EXCEPT !.level[l].arenas = SelectSeq(@, LAMBDA b : b # a),
              !.level[l].next = IF @ # a THEN @
                                ELSE IF Len(Arenas(s, l)) = 1 THEN NULL
                                ELSE After(Arenas(s, l), a)]

(***************************************************************************)
(* update_allotment: the workers available to a level are divided among    *)
(* its arenas in proportion to their requests, but no arena gets more than *)
(* my_max_num_workers; the remainder of each division is carried on.       *)
(***************************************************************************)
Smaller(x, y) == IF x < y THEN x ELSE y
Highest(S) == CHOOSE x \in S : \A y \in S : y <= x
Lowest(S) == CHOOSE x \in S : \A y \in S : x <= y

\* Mutated form: each arena gets its own rounded share.
AllotWithoutCarry(s, l, workers) ==
    LET share(a) == (s.arena[a].requested * workers) \div Requested(s, l)
    IN  [s EXCEPT !.arena = [a \in Arena |->
            IF a \in ToSet(Arenas(s, l)) /\ s.arena[a].requested > 0
            THEN [@[a] EXCEPT !.allotted = share(a)] ELSE @[a]]]

AllotLevel(s, l, workers) ==
    LET give(t, a) ==
            IF t.s.arena[a].requested <= 0 THEN t
            ELSE LET tmp == t.s.arena[a].requested * workers + t.carry
                 IN [s |-> [t.s EXCEPT !.arena[a].allotted =
                                Smaller(tmp \div Requested(s, l), Wanted)],
                     carry |-> tmp % Requested(s, l)]
    IN  FoldLeft(give, [s |-> s, carry |-> 0], Arenas(s, l)).s

ZeroLevel(s, l) ==
    [s EXCEPT !.arena = [a \in Arena |-> IF a \in ToSet(Arenas(s, l))
                                         THEN [@[a] EXCEPT !.allotted = 0] ELSE @[a]]]

UpdateAllotment(s, highest) ==
    LET down(t, i) ==
            LET l == highest + 1 - i
                u == [t.s EXCEPT !.level[l].available = t.left]
            IN  IF t.over THEN [t EXCEPT !.s = ZeroLevel(u, l)]
                ELSE IF Requested(u, l) = 0 THEN [t EXCEPT !.s = u]
                ELSE [s |-> AllotLevel(u, l, Smaller(t.left, Requested(u, l))),
                      left |-> IF t.left < Requested(u, l) THEN 0
                               ELSE t.left - Requested(u, l),
                      over |-> t.left < Requested(u, l)]
    IN  FoldLeft(down, [s |-> s, left |-> s.level[highest].available, over |-> FALSE],
                 [i \in 1 .. (highest + 1 - s.bottom) |-> i]).s

(***************************************************************************)
(* Priorities.                                                             *)
(***************************************************************************)
SetTop(s, l) == [s EXCEPT !.top = l, !.level[l].available = MaxNumWorkers]
ResetPriority(s) == SetTop([s EXCEPT !.bottom = Normal], Normal)

\* update_arena_top_priority
MoveArena(s, a, l) ==
    LET r == s.arena[a].requested
        t == InsertArena([RemoveArena(s, a) EXCEPT !.arena[a].top = l,
                                                   !.arena[a].reload = @ + 1], a)
    IN  [t EXCEPT !.level = [@ EXCEPT ![s.arena[a].top].requested = @ - r,
                                      ![l].requested = @ + r]]

WithRequests(s, lo, hi) == {l \in lo .. hi : Requested(s, l) # 0}

\* The level above all that still has requests, when the top one has none.
LowerTop(s) ==
    IF Requested(s, s.top) # 0 THEN s
    ELSE SetTop(s, Highest(WithRequests(s, 0, s.top - 1)))

\* lower_arena_priority, when no one has changed the priority meanwhile
LowerArena(s, a, l) ==
    LET p == s.arena[a].top
        t == MoveArena(s, a, l)
        u == [t EXCEPT !.bottom = Smaller(@, l)]
        v == IF p = u.top THEN LowerTop(u) ELSE u
    IN  IF s.arena[a].requested <= 0 THEN t
        ELSE UpdateAllotment(v, IF p = u.top THEN v.top ELSE p)

\* update_arena_priority, to a level above the one the arena has
RaiseArena(s, a, l) ==
    LET p == s.arena[a].top
        t == MoveArena(s, a, l)
        u == IF s.top < l THEN SetTop(t, l) ELSE t
        v == IF p # u.bottom THEN u
             ELSE [u EXCEPT !.bottom = Lowest(WithRequests(u, p, 2))]
    IN  UpdateAllotment(v, l)

UpdatePriority(s, a, l) ==
    IF s.arena[a].top > l
    THEN [s EXCEPT !.arena[a].bottom = Smaller(@, l)]
    ELSE IF s.arena[a].top = l \/ s.arena[a].requested <= 0 THEN s
    ELSE RaiseArena(s, a, l)

(***************************************************************************)
(* adjust_demand: by the level p the arena had, relative to the range of   *)
(* levels with active arenas.                                              *)
(***************************************************************************)
Rebalance(s, a, p) ==
    CASE p = s.top /\ Requested(s, p) # 0 -> UpdateAllotment(s, p)
      [] p = s.top /\ Requested(s, p) = 0 ->
            LET lower == WithRequests(s, s.bottom, p - 1)
                t == IF lower = {} THEN ResetPriority(s) ELSE SetTop(s, Highest(lower))
            IN  UpdateAllotment(t, t.top)
      [] p > s.top ->
            LET mine == Smaller(MaxNumWorkers, s.arena[a].requested)
                t == [SetTop(s, p) EXCEPT !.arena[a].allotted = mine]
            IN  UpdateAllotment([t EXCEPT !.level[p - 1].available = MaxNumWorkers - mine],
                                p - 1)
      [] p = s.bottom /\ p < s.top ->
            IF Requested(s, p) # 0 THEN UpdateAllotment(s, p)
            ELSE LET upper == WithRequests(s, p + 1, s.top)
                 IN  IF upper = {} THEN ResetPriority(s)
                     ELSE [s EXCEPT !.bottom = Lowest(upper)]
      [] p < s.bottom /\ p < s.top -> UpdateAllotment([s EXCEPT !.bottom = p], s.bottom)
      [] OTHER -> UpdateAllotment(s, p)

AdjustDemand(s, a, delta) ==
    LET was == s.arena[a].requested
        now == was + delta
        p   == s.arena[a].top
        t   == [s EXCEPT !.arena[a].requested = now,
                         !.arena[a].allotted = IF now <= 0 THEN 0 ELSE @]
        change == IF now <= 0 THEN -was ELSE IF was < 0 THEN now ELSE delta
        u   == [t EXCEPT !.level[p].requested = @ + change]
        v   == IF now > 0 THEN u
               ELSE [IF p # Normal THEN MoveArena(u, a, Normal) ELSE u
                        EXCEPT !.arena[a].bottom = Normal]
    IN  IF now <= 0 /\ was <= 0 THEN t ELSE Rebalance(v, a, p)

(***************************************************************************)
(* Threads.                                                                *)
(***************************************************************************)
NoArena == [life |-> 0, aba |-> 0, references |-> 0, top |-> Normal, bottom |-> Normal,
            reload |-> 0, requested |-> 0, allotted |-> 0, pool |-> "empty"]
Nothing == [top |-> 0, epoch |-> 0, life |-> 0]

\* The founders have created their arenas, in some order.
Init ==
    \E order \in SetToSeqs(Founders), place \in SetToSeqs(Arena) :
        LET Age(a) == CHOOSE i \in DOMAIN place : place[i] = a
            Old(a) == Age(a) <= Cardinality(Founders)
            PlaceOf(m) == place[CHOOSE i \in DOMAIN order : order[i] = m]
            list == Reverse(SubSeq(place, 1, Cardinality(Founders)))
        IN  /\ books = [top |-> Normal, bottom |-> Normal,
                 level |-> [l \in Level |->
                    [arenas |-> IF l = Normal THEN list ELSE <<>>,
                     next |-> IF l = Normal /\ Founders # {} THEN Last(list) ELSE NULL,
                     requested |-> 0,
                     available |-> IF l = Normal THEN MaxNumWorkers ELSE 0]],
                 arena |-> [a \in Arena |-> IF Old(a) THEN [NoArena EXCEPT !.references = 1,
                                                                          !.life = Age(a)]
                                                     ELSE NoArena]]
            /\ at = [t \in Thread |-> IF t \in Founders THEN PlaceOf(t) ELSE NULL]
            /\ seen = [t \in Thread |-> IF t \in Founders
                                        THEN [Nothing EXCEPT !.life = Age(PlaceOf(t))]
                                        ELSE Nothing]
    /\ aba_epoch = 0 /\ births = Cardinality(Founders) /\ calls = 0
    /\ pc = [t \in Thread |-> IF t \in Founders THEN "in" ELSE "out"]

Mine(t) == books.arena[at[t]]
Exists(a) == books.arena[a].life # 0
Inside(t) == pc[t] \in {"in", "up", "snapshot", "lower", "down"}
Active(s, a) == s.arena[a].references \div 2

Goto(t, from, to) == pc[t] = from /\ pc' = [pc EXCEPT ![t] = to]
SetPool(t, value) == books' = [books EXCEPT !.arena[at[t]].pool = value]
Unlocked == \A t \in Thread : pc[t] # "joining"
Call == calls < MaxCalls /\ calls' = calls + 1

\* create_arena: the constructor reads the epoch, the list comes later.
Allocate(t) ==
    /\ t \in Master /\ Call
    /\ Goto(t, "out", "new")
    /\ \E a \in Arena :
        /\ ~Exists(a)
        /\ at' = [at EXCEPT ![t] = a]
        /\ seen' = [seen EXCEPT ![t].life = births + 1]
        /\ books' = [books EXCEPT !.arena[a] =
                        [NoArena EXCEPT !.life = births + 1, !.aba = aba_epoch, !.references = 1]]
    /\ births' = births + 1
    /\ UNCHANGED aba_epoch

Insert(t) ==
    /\ Unlocked
    /\ Goto(t, "new", "in")
    /\ books' = InsertArena(books, at[t])
    /\ UNCHANGED <<aba_epoch, births, calls, at, seen>>

\* The comment on adjust_demand in market.h says that concurrent invocations
\* are for different arenas only; with OneAdjustment that is assumed.
MayAdjust(a) == OneAdjustment => \A t \in Thread : pc[t] \in {"up", "down"} => at[t] # a

\* advertise_new_work: only the thread that ends the empty state adjusts the
\* demand.
Advertise(t) ==
    /\ pc[t] = "in" /\ Call
    /\ Mine(t).pool # "full" /\ MayAdjust(at[t])
    /\ Goto(t, "in", IF Mine(t).pool = "empty" THEN "up" ELSE "in")
    /\ SetPool(t, "full")
    /\ UNCHANGED <<aba_epoch, births, at, seen>>

Adjust(t) ==
    /\ Unlocked
    /\ \/ Goto(t, "up", "in") /\ books' = AdjustDemand(books, at[t], Wanted)
       \/ Goto(t, "down", "in") /\ books' = AdjustDemand(books, at[t], -Wanted)
    /\ UNCHANGED <<aba_epoch, births, calls, at, seen>>

SetPriority(t) ==
    /\ Unlocked /\ Call
    /\ Goto(t, "in", "in")
    /\ \E l \in UserPriorities : books' = UpdatePriority(books, at[t], l)
    /\ UNCHANGED <<aba_epoch, births, at, seen>>

\* is_out_of_work: the thread marks the pool with its name while it looks.
TakeSnapshot(t) ==
    /\ pc[t] = "in"
    /\ Mine(t).pool = "full"
    /\ Goto(t, "in", "snapshot")
    /\ SetPool(t, t)
    /\ seen' = [seen EXCEPT ![t].top = Mine(t).top, ![t].epoch = Mine(t).reload]
    /\ UNCHANGED <<aba_epoch, births, calls, at>>

Undone(t) == [books EXCEPT !.arena[at[t]].pool = IF @ = t THEN "full" ELSE @]

\* Work was found, or the priority has changed.
KeepFull(t) ==
    /\ Goto(t, "snapshot", "in")
    /\ books' = Undone(t)
    /\ UNCHANGED <<aba_epoch, births, calls, at, seen>>

NoWorkFound(t) ==
    /\ pc[t] = "snapshot"
    /\ Mine(t).pool = t /\ Mine(t).top = seen[t].top /\ Mine(t).reload = seen[t].epoch
    /\ \/ seen[t].top > Mine(t).bottom /\ Goto(t, "snapshot", "lower") /\ UNCHANGED books
       \/ /\ seen[t].top <= Mine(t).bottom /\ MayAdjust(at[t])
          /\ Goto(t, "snapshot", "down") /\ SetPool(t, "empty")
    /\ UNCHANGED <<aba_epoch, births, calls, at, seen>>

LowerPriority(t) ==
    /\ Unlocked
    /\ Goto(t, "lower", "snapshot")
    /\ books' = IF Mine(t).reload = seen[t].epoch
                THEN LowerArena(books, at[t], seen[t].top - 1) ELSE books
    /\ UNCHANGED <<aba_epoch, births, calls, at, seen>>

\* arena_in_need: the first arena after the one served last, in the highest
\* level that has an arena in need.
InNeed(s, l) == {a \in ToSet(Arenas(s, l)) : Active(s, a) < s.arena[a].allotted}
NextInNeed(s, l) ==
    LET list == Arenas(s, l)
        from == CHOOSE k \in DOMAIN list : list[k] = Next_(s, l)
        circle == [k \in DOMAIN list |-> list[1 + ((from + k - 2) % Len(list))]]
    IN  SelectSeq(circle, LAMBDA a : a \in InNeed(s, l))[1]

FindArena(t) ==
    /\ t \in Worker
    /\ Goto(t, "out", "joining")
    /\ LET needy == {l \in books.bottom .. books.top : InNeed(books, l) # {}} IN
        /\ needy # {}
        /\ at' = [at EXCEPT ![t] = NextInNeed(books, Highest(needy))]
    /\ UNCHANGED <<books, aba_epoch, births, calls, seen>>

Join(t) ==
    /\ Goto(t, "joining", "in")
    /\ books' = [books EXCEPT !.arena[at[t]].references = @ + 2,
                   !.level[Mine(t).top].next = After(Arenas(books, Mine(t).top), at[t])]
    /\ seen' = [seen EXCEPT ![t].life = Mine(t).life]
    /\ UNCHANGED <<aba_epoch, births, calls, at>>

\* on_thread_leaving: a worker leaves when there are more than allotted.
Share(t) == IF t \in Master THEN 1 ELSE 2
Leave(t) ==
    /\ pc[t] = "in"
    /\ t \in Master \/ Active(books, at[t]) > Mine(t).allotted
    /\ LET last == Mine(t).references = Share(t) IN
        /\ Goto(t, "in", IF last THEN "destroy" ELSE "out")
        /\ at' = [at EXCEPT ![t] = IF last THEN @ ELSE NULL]
        /\ seen' = [seen EXCEPT ![t] = IF last THEN [@ EXCEPT !.top = 0, !.epoch = Mine(t).aba]
                                       ELSE Nothing]
    /\ books' = [books EXCEPT !.arena[at[t]].references = @ - Share(t)]
    /\ UNCHANGED <<aba_epoch, births, calls>>

\* try_destroy_arena
Listed(a) == \E l \in books.bottom .. books.top : a \in ToSet(Arenas(books, l))
\* Mutated form: the epoch of the market instead of the arena's.
AliveByMarketEpoch(t) == Listed(at[t]) /\ aba_epoch = seen[t].epoch
Alive(t) == Listed(at[t]) /\ Mine(t).aba = seen[t].epoch
\* Mutated form: the references are not looked at.
DemandsNothing(a) == books.arena[a].requested = 0
Abandoned(a) == books.arena[a].requested = 0 /\ books.arena[a].references = 0

TryDestroy(t) ==
    /\ Unlocked
    /\ Goto(t, "destroy", "out")
    /\ at' = [at EXCEPT ![t] = NULL]
    /\ seen' = [seen EXCEPT ![t] = Nothing]
    /\ IF Alive(t) /\ Abandoned(at[t])
       THEN /\ books' = [RemoveArena(books, at[t]) EXCEPT !.arena[at[t]] = NoArena]
            /\ aba_epoch' = IF Mine(t).aba = aba_epoch THEN aba_epoch + 1 ELSE aba_epoch
       ELSE UNCHANGED <<books, aba_epoch>>
    /\ UNCHANGED <<births, calls>>

Step(t) ==
    \/ Allocate(t) \/ Insert(t) \/ Advertise(t) \/ Adjust(t) \/ SetPriority(t)
    \/ TakeSnapshot(t) \/ KeepFull(t) \/ NoWorkFound(t) \/ LowerPriority(t)
    \/ FindArena(t) \/ Join(t) \/ Leave(t) \/ TryDestroy(t)

Next == \E t \in Thread : Step(t)
Spec == Init /\ [][Next]_vars

(***************************************************************************)
(* Properties.                                                             *)
(***************************************************************************)
Live == {a \in Arena : Exists(a)}

TypeOK ==
    /\ books.top \in Level /\ books.bottom \in Level
    /\ \A l \in Level : /\ ToSet(Arenas(books, l)) \subseteq Live
                        /\ Next_(books, l) \in ToSet(Arenas(books, l)) \cup {NULL}
                        /\ Requested(books, l) \in Nat
                        /\ books.level[l].available \in 0 .. MaxNumWorkers
    /\ \A a \in Arena : /\ books.arena[a].references \in Nat
                        /\ books.arena[a].allotted \in Nat
                        /\ books.arena[a].requested \in Int
    /\ at \in [Thread -> Arena \cup {NULL}]

TotalOf(f(_), S) == FoldLeft(LAMBDA x, a : x + f(a), 0, SetToSeq(S))
Positive(a) == IF books.arena[a].requested > 0 THEN books.arena[a].requested ELSE 0
Allotted(a) == books.arena[a].allotted

\* Whatever order demands, priorities and destructions come in, each level's
\* total is that of its arenas' requests, and every level gets all the
\* workers that the levels above it leave, up to its demand; but for those of
\* an arena whose requests exceed my_max_num_workers for a moment.
AllotmentRight ==
    /\ \A l \in Level :
        LET mine == ToSet(Arenas(books, l))
            above == UNION {ToSet(Arenas(books, k)) : k \in (l + 1) .. 2}
            left == MaxNumWorkers - Smaller(MaxNumWorkers, TotalOf(Positive, above))
        IN  /\ Requested(books, l) = TotalOf(Positive, mine)
            /\ TotalOf(Allotted, mine) <= Smaller(left, Requested(books, l))
            /\ (\A a \in mine : books.arena[a].requested <= Wanted)
               => TotalOf(Allotted, mine) = Smaller(left, Requested(books, l))
            /\ mine # {} <=> Next_(books, l) # NULL

\* assert_market_valid: the top level has requests, unless none has any.
MarketValid ==
    \/ Requested(books, books.top) > 0
    \/ books.top = Normal /\ books.bottom = Normal

\* No thread is in an arena that has been destroyed, the address and epoch
\* that a leaving thread keeps never match an arena made there later, and an
\* arena that may be destroyed has no work and no workers.
ArenaLifetime ==
    /\ \A t \in Thread :
        /\ Inside(t) \/ pc[t] = "new" => Mine(t).life = seen[t].life
        /\ pc[t] = "joining" => Exists(at[t])
        /\ pc[t] = "destroy" /\ Alive(t) => Mine(t).life = seen[t].life
    /\ \A a \in Live : Abandoned(a) => /\ books.arena[a].pool = "empty"
                                       /\ books.arena[a].allotted = 0

\* An arena that nobody is in and that wants no workers has a thread on its
\* way to destroy it ("Each call to create_arena() must be matched by the
\* call to arena::free_arena()", market.h).
NoOrphan ==
    \A a \in Live : books.arena[a].requested = 0 /\ books.arena[a].references = 0 =>
        \E t \in Thread : at[t] = a /\ \/ pc[t] = "joining"
                                       \/ pc[t] = "destroy" /\ seen[t].life = Mine(t).life
=============================================================================
