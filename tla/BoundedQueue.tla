---------------------------- MODULE BoundedQueue ----------------------------
(***************************************************************************)
(* concurrent_bounded_queue (src/src/tbb/concurrent_queue.cpp).  A call    *)
(* takes a ticket from one of two counters; ticket k belongs to one of     *)
(* n_queue micro-queues, on which pushes and pops take turns by counters   *)
(* of their own, and to a slot of one of its pages.  A push that finds the *)
(* queue full and a pop that finds it empty block in a concurrent monitor  *)
(* (Monitor, with a wait set for each side).  An item is named by the      *)
(* ticket under which it was pushed.                                       *)
(*                                                                         *)
(* Left out: allocation failures, after which a micro-queue takes no more  *)
(* pushes, changes of the capacity, and copying and swapping of queues.    *)
(***************************************************************************)
EXTENDS Integers, Sequences, FiniteSets, SequencesExt

CONSTANTS
    Producer, Consumer,
    n_queue,        \* micro-queues (8 in the code)
    PageSizes,      \* what items_per_page may be
    Capacity,
    MaxTickets,     \* bound: tickets issued to calls of each side
    Upsets,         \* what may go wrong: "throw" (copying an item), "abort"
    MaxUpsets,      \* bound: how often, in all
    QuietAborts     \* abort is called as in the tests: while all others block

Assumptions ==
    /\ n_queue \in Nat \ {0} /\ PageSizes \subseteq Nat \ {0} /\ Capacity \in Nat
    /\ Producer \cap Consumer = {}
    /\ {MaxTickets, MaxUpsets} \subseteq Nat /\ QuietAborts \in BOOLEAN

VARIABLES
    items_per_page,
    \* concurrent_queue_rep
    head_counter, tail_counter, n_invalid_entries,
    \* the micro-queues: counters, and pages from head_page to tail_page
    head, tail, pages,
    \* items_avail, where consumers block
    items_waiting, items_woken, items_aborted, items_context,
    \* slots_avail, where producers block
    slots_waiting, slots_woken, slots_aborted, slots_context,
    stale,          \* blocked threads whose monitor has changed its epoch since
    \* the threads: ticket in hand, outcome of the call, a try_ call or not
    pc, k, result, trying,
    aborting,       \* abort has dealt with items_avail only
    \* what has happened: pops of each item, and the bounds
    popped, upsets

rep == <<head_counter, tail_counter, n_invalid_entries>>
lanes == <<items_per_page, head, tail, pages>>
items_avail == <<items_waiting, items_woken, items_aborted, items_context>>
slots_avail == <<slots_waiting, slots_woken, slots_aborted, slots_context>>
monitors == <<items_avail, slots_avail, stale>>
threads == <<pc, k, result, trying>>
hist == <<popped, upsets>>
vars == <<rep, lanes, monitors, threads, aborting, hist>>

Thread == Producer \cup Consumer
Lane == 0 .. n_queue - 1
Tickets == 0 .. MaxTickets - 1
None == -1

Items == INSTANCE Monitor WITH Waiter <- Consumer, Contexts <- Nat, Levels <- Nat,
    waiting <- items_waiting, woken <- items_woken, aborted <- items_aborted,
    context <- items_context
Slots == INSTANCE Monitor WITH Waiter <- Producer, Contexts <- Nat, Levels <- Nat,
    waiting <- slots_waiting, woken <- slots_woken, aborted <- slots_aborted,
    context <- slots_context

(***************************************************************************)
(* Tickets                                                                 *)
(***************************************************************************)
phi == 3
LaneOf(t) == (t * phi) % n_queue
Base(t) == t - (t % n_queue)
Index(t) == (t \div n_queue) % items_per_page

NewPage == [i \in 0 .. items_per_page - 1 |-> None]

Init ==
    /\ items_per_page \in PageSizes
    /\ head_counter = 0 /\ tail_counter = 0 /\ n_invalid_entries = 0
    /\ head = [q \in Lane |-> 0] /\ tail = [q \in Lane |-> 0] /\ pages = [q \in Lane |-> <<>>]
    /\ Items!Init /\ Slots!Init /\ stale = {}
    /\ pc = [t \in Thread |-> "idle"]
    /\ k = [t \in Thread |-> 0]
    /\ result = [t \in Thread |-> "item"]
    /\ trying = [t \in Thread |-> FALSE]
    /\ aborting = FALSE
    /\ popped = [t \in Tickets |-> 0] /\ upsets = 0

Upset(what) == what \in Upsets /\ upsets < MaxUpsets /\ upsets' = upsets + 1

Goto(t, from, to) == pc[t] = from /\ pc' = [pc EXCEPT ![t] = to]

\* The call returns or throws, and leaves no locals behind.
Return(t, from) ==
    /\ Goto(t, from, "idle")
    /\ k' = [k EXCEPT ![t] = 0]
    /\ result' = [result EXCEPT ![t] = "item"]
    /\ trying' = [trying EXCEPT ![t] = FALSE]

\* With QuietAborts no call begins before all aborted ones have returned.
Aborted == items_aborted \cup slots_aborted \cup {p \in Producer : result[p] = "none"}
MayCall == QuietAborts => ~aborting /\ Aborted = {}

\* The ticket counter of a side, and with the tickets that its try_ calls may
\* still take
Counter(t) == IF t \in Producer THEN tail_counter ELSE head_counter
Issued(t) == Counter(t) + Cardinality({u \in Thread : /\ t \in Producer <=> u \in Producer
                                                      /\ pc[u] \in {"try", "claim"}})

(***************************************************************************)
(* Claiming a ticket                                                       *)
(***************************************************************************)

\* internal_insert_item
Push(p) ==
    /\ MayCall /\ Issued(p) < MaxTickets
    /\ Goto(p, "idle", "enter")
    /\ k' = [k EXCEPT ![p] = tail_counter]
    /\ tail_counter' = tail_counter + 1
    /\ UNCHANGED <<head_counter, n_invalid_entries, lanes, monitors, result, trying, aborting, hist>>

\* internal_pop, called or in its next round
Claim(c) ==
    /\ \/ MayCall /\ Issued(c) < MaxTickets /\ Goto(c, "idle", "enter")
       \/ ~trying[c] /\ Goto(c, "again", "enter")
    /\ k' = [k EXCEPT ![c] = head_counter]
    /\ head_counter' = head_counter + 1
    /\ result' = [result EXCEPT ![c] = "item"]
    /\ UNCHANGED <<tail_counter, n_invalid_entries, lanes, monitors, trying, aborting, hist>>

\* internal_insert_if_not_full and internal_pop_if_present: look for a ticket
TryCall(t) ==
    /\ \/ MayCall /\ Issued(t) < MaxTickets /\ Goto(t, "idle", "try")
       \/ trying[t] /\ Goto(t, "again", "try")
    /\ k' = [k EXCEPT ![t] = Counter(t)]
    /\ result' = [result EXCEPT ![t] = "item"]
    /\ trying' = [trying EXCEPT ![t] = TRUE]
    /\ UNCHANGED <<rep, lanes, monitors, aborting, hist>>

FullBeyond(t) == k[t] - head_counter > Capacity
Full(t) == k[t] - head_counter >= Capacity
Empty(t) == tail_counter - k[t] <= 0
Blocked(t) == IF t \in Producer THEN Full(t) ELSE Empty(t)

TryLook(t) ==
    /\ \/ Return(t, "try") /\ Blocked(t)
       \/ Goto(t, "try", "claim") /\ ~Blocked(t) /\ UNCHANGED <<k, result, trying>>
    /\ UNCHANGED <<rep, lanes, monitors, aborting, hist>>

ClaimBlindly(t) == TRUE

\* The compare_and_swap on the ticket counter
Claimable(t) == k[t] = Counter(t)

TryClaim(t) ==
    /\ \/ /\ Goto(t, "claim", "turn") /\ Claimable(t)
          /\ tail_counter' = IF t \in Producer THEN k[t] + 1 ELSE tail_counter
          /\ head_counter' = IF t \in Consumer THEN k[t] + 1 ELSE head_counter
          /\ UNCHANGED k
       \/ /\ Goto(t, "claim", "try") /\ ~Claimable(t)
          /\ k' = [k EXCEPT ![t] = Counter(t)]
          /\ UNCHANGED <<tail_counter, head_counter>>
    /\ UNCHANGED <<n_invalid_entries, lanes, monitors, result, trying, aborting, hist>>

(***************************************************************************)
(* Blocking                                                                *)
(***************************************************************************)
Enter(t) ==
    /\ Goto(t, "enter", IF Blocked(t) THEN "prepare" ELSE "turn")
    /\ UNCHANGED <<rep, lanes, monitors, k, result, trying, aborting, hist>>

PrepareWait(t) ==
    /\ Goto(t, "prepare", "check")
    /\ \/ t \in Producer /\ Slots!Join(t, k[t] - Capacity) /\ UNCHANGED items_avail
       \/ t \in Consumer /\ Items!Join(t, k[t]) /\ UNCHANGED slots_avail
    /\ stale' = stale \ {t}
    /\ UNCHANGED <<rep, lanes, k, result, trying, aborting, hist>>

\* The wait is cancelled or over, and the thread_context goes out of scope.
LeaveMonitor(t) ==
    /\ \/ t \in Producer /\ Slots!Leave(t) /\ UNCHANGED items_avail
       \/ t \in Consumer /\ Items!Leave(t) /\ UNCHANGED slots_avail
    /\ stale' = stale \ {t}

StillAssumed(t) == TRUE

\* The condition is read again after prepare_wait.
StillBlocked(t) == Blocked(t)

Check(t) ==
    /\ \/ Goto(t, "check", "commit") /\ StillBlocked(t) /\ UNCHANGED monitors
       \/ Goto(t, "check", "turn") /\ ~StillBlocked(t) /\ LeaveMonitor(t)
    /\ UNCHANGED <<rep, lanes, k, result, trying, aborting, hist>>

\* commit_wait goes to sleep only under the epoch of prepare_wait.
CommitWait(t) ==
    /\ IF t \in stale
       THEN /\ Goto(t, "commit", "prepare")
            /\ \/ t \in Producer /\ Slots!Withdraw(t) /\ UNCHANGED items_avail
               \/ t \in Consumer /\ Items!Withdraw(t) /\ UNCHANGED slots_avail
            /\ stale' = stale \ {t}
       ELSE Goto(t, "commit", "asleep") /\ UNCHANGED monitors
    /\ UNCHANGED <<rep, lanes, k, result, trying, aborting, hist>>

\* A woken thread goes on without looking at the condition again.
WakeUp(t) ==
    /\ Goto(t, "asleep", "turn")
    /\ t \in (items_woken \cup slots_woken) \ (items_aborted \cup slots_aborted)
    /\ LeaveMonitor(t)
    /\ UNCHANGED <<rep, lanes, k, result, trying, aborting, hist>>

\* user_abort: a producer gives its ticket to an invalid entry (abort_push),
\* a consumer gives it back.
PushAborted(p) ==
    /\ Goto(p, "asleep", "turn")
    /\ p \in slots_woken \cap slots_aborted
    /\ LeaveMonitor(p)
    /\ result' = [result EXCEPT ![p] = "none"]
    /\ UNCHANGED <<rep, lanes, k, trying, aborting, hist>>

KeepTicket == UNCHANGED head_counter

\* my_rep->head_counter--
GiveBack == head_counter' = head_counter - 1

PopAborted(c) ==
    /\ Return(c, "asleep")
    /\ c \in items_woken \cap items_aborted
    /\ LeaveMonitor(c)
    /\ GiveBack
    /\ UNCHANGED <<tail_counter, n_invalid_entries, lanes, aborting, hist>>

(***************************************************************************)
(* micro_queue::push                                                       *)
(***************************************************************************)

\* Its turn has come; the first push of a page links the page.
PushTurn(p) ==
    LET q == LaneOf(k[p]) IN
    /\ Goto(p, "turn", "store")
    /\ tail[q] = Base(k[p])
    /\ pages' = IF Index(k[p]) = 0 THEN [pages EXCEPT ![q] = Append(@, NewPage)] ELSE pages
    /\ UNCHANGED <<items_per_page, head, tail, rep, monitors, k, result, trying, aborting, hist>>

Put(q, i, item) == pages' = [pages EXCEPT ![q][Len(pages[q])][i] = item]

\* The item is copied and its bit set in the mask of tail_page, ...
StoreItem(p) ==
    /\ Goto(p, "store", "advance") /\ result[p] = "item"
    /\ Put(LaneOf(k[p]), Index(k[p]), k[p])
    /\ UNCHANGED <<items_per_page, head, tail, rep, monitors, k, result, trying, aborting, hist>>

DoNotCount == UNCHANGED n_invalid_entries

\* ++base.my_rep->n_invalid_entries
CountInvalid == n_invalid_entries' = n_invalid_entries + 1

\* ... or copying it throws, or there is none (abort_push).
StoreNothing(p) ==
    /\ Goto(p, "store", "advance")
    /\ \/ result[p] = "none" /\ UNCHANGED <<result, upsets>>
       \/ /\ result[p] = "item" /\ Upset("throw")
          /\ result' = [result EXCEPT ![p] = "threw"]
    /\ CountInvalid
    /\ UNCHANGED <<head_counter, tail_counter, lanes, monitors, k, trying, aborting, popped>>

\* The next push of the micro-queue has its turn.
AdvanceTail(p) ==
    /\ \/ Goto(p, "advance", "notify") /\ result[p] = "item" /\ UNCHANGED <<k, result, trying>>
       \/ Return(p, "advance") /\ result[p] # "item"
    /\ tail' = [tail EXCEPT ![LaneOf(k[p])] = @ + n_queue]
    /\ UNCHANGED <<items_per_page, head, pages, rep, monitors, aborting, hist>>

\* items_avail.notify( predicate_leq(k) )
NotifyItems(p) ==
    /\ Return(p, "notify")
    /\ Items!Notify(k[p])
    /\ stale' = stale \cup items_waiting
    /\ UNCHANGED <<rep, lanes, slots_avail, aborting, hist>>

(***************************************************************************)
(* micro_queue::pop                                                        *)
(***************************************************************************)
Slot(t) == pages[LaneOf(t)][1][Index(t)]
Turn(c) == head[LaneOf(k[c])] = Base(k[c]) /\ tail[LaneOf(k[c])] # Base(k[c])

\* The first two kinds of outcome end with the destruction of the item.
TakeItemOrLeave(c) ==
    /\ Turn(c) /\ Slot(k[c]) # None
    /\ \/ popped' = [popped EXCEPT ![Slot(k[c])] = @ + 1] /\ UNCHANGED <<result, upsets>>
       \/ UNCHANGED popped /\ Upset("throw") /\ result' = [result EXCEPT ![c] = "threw"]
    /\ UNCHANGED n_invalid_entries

TakeItem(c) ==
    /\ Turn(c) /\ Slot(k[c]) # None
    /\ popped' = [popped EXCEPT ![Slot(k[c])] = @ + 1]
    /\ \/ UNCHANGED <<result, upsets>>
       \/ /\ Upset("throw")
          /\ result' = [result EXCEPT ![c] = "threw"]
    /\ UNCHANGED n_invalid_entries

TakeNothing(c) ==
    /\ Turn(c) /\ Slot(k[c]) = None
    /\ n_invalid_entries' = n_invalid_entries - 1
    /\ result' = [result EXCEPT ![c] = "none"]
    /\ UNCHANGED hist

\* micro_queue_pop_finalizer unlinks the page of which this is the last item.
LastOfPageEarly(t) == Index(t) = 0
LastOfPageMissed(t) == Index(t) = items_per_page
LastOfPage(t) == Index(t) = items_per_page - 1

Take(c) ==
    /\ Goto(c, "turn", IF LastOfPage(k[c]) THEN "unlink" ELSE "advance")
    /\ TakeItem(c) \/ TakeNothing(c)
    /\ UNCHANGED <<head_counter, tail_counter, lanes, monitors, k, trying, aborting>>

Unlink(c) ==
    /\ Goto(c, "unlink", "advance")
    /\ pages' = [pages EXCEPT ![LaneOf(k[c])] = Tail(@)]
    /\ UNCHANGED <<items_per_page, head, tail, rep, monitors, k, result, trying, aborting, hist>>

\* The next pop has its turn.  An invalid entry sends this one for the next
\* ticket; nobody is told of the slot that it has freed.
AdvanceHead(c) ==
    /\ \/ Goto(c, "advance", "notify") /\ result[c] = "item" /\ UNCHANGED <<k, result, trying>>
       \/ Goto(c, "advance", "again") /\ result[c] = "none" /\ UNCHANGED <<k, result, trying>>
       \/ Return(c, "advance") /\ result[c] = "threw"
    /\ head' = [head EXCEPT ![LaneOf(k[c])] = Base(k[c]) + n_queue]
    /\ UNCHANGED <<items_per_page, tail, pages, rep, monitors, aborting, hist>>

\* slots_avail.notify( predicate_leq(k) )
NotifySlots(c) ==
    /\ Return(c, "notify")
    /\ Slots!Notify(k[c])
    /\ stale' = stale \cup slots_waiting
    /\ UNCHANGED <<rep, lanes, items_avail, aborting, hist>>

(***************************************************************************)
(* internal_abort                                                          *)
(***************************************************************************)
AllBlocked == \A t \in Thread :
    pc[t] = "idle" \/ (pc[t] = "asleep" /\ t \in items_waiting \cup slots_waiting)

AbortItems ==
    /\ ~aborting /\ Upset("abort")
    /\ QuietAborts => AllBlocked
    /\ Items!AbortAll
    /\ stale' = stale \cup items_waiting
    /\ aborting' = TRUE
    /\ UNCHANGED <<rep, lanes, slots_avail, threads, popped>>

AbortSlots ==
    /\ aborting
    /\ Slots!AbortAll
    /\ stale' = stale \cup slots_waiting
    /\ aborting' = FALSE
    /\ UNCHANGED <<rep, lanes, items_avail, threads, hist>>

(***************************************************************************)
(* The specification                                                       *)
(***************************************************************************)
Call(t) ==
    \/ t \in Producer /\ Push(t)
    \/ t \in Consumer /\ Claim(t)
    \/ TryCall(t)

CommonStep(t) ==
    \/ TryLook(t) \/ TryClaim(t)
    \/ Enter(t) \/ PrepareWait(t) \/ Check(t) \/ CommitWait(t) \/ WakeUp(t)

PushStep(p) ==
    \/ CommonStep(p) \/ PushAborted(p) \/ PushTurn(p)
    \/ StoreItem(p) \/ StoreNothing(p) \/ AdvanceTail(p) \/ NotifyItems(p)

PopStep(c) ==
    \/ CommonStep(c) \/ PopAborted(c) \/ Take(c) \/ Unlink(c) \/ AdvanceHead(c) \/ NotifySlots(c)
    \/ pc[c] = "again" /\ (Claim(c) \/ TryCall(c))

Next ==
    \/ \E t \in Thread : Call(t)
    \/ \E p \in Producer : PushStep(p)
    \/ \E c \in Consumer : PopStep(c)
    \/ AbortItems \/ AbortSlots

\* Threads are scheduled; nobody has to begin a call.
Fairness == /\ \A p \in Producer : WF_vars(PushStep(p))
            /\ \A c \in Consumer : WF_vars(PopStep(c))
            /\ WF_vars(AbortSlots)

Spec == Init /\ [][Next]_vars /\ Fairness

(***************************************************************************)
(* Properties                                                              *)
(***************************************************************************)
TypeOK ==
    /\ items_per_page \in PageSizes
    /\ head_counter \in Nat /\ tail_counter \in 0 .. MaxTickets
    /\ n_invalid_entries \in Nat
    /\ head \in [Lane -> Nat] /\ tail \in [Lane -> Nat]
    /\ \A q \in Lane : \A i \in 1 .. Len(pages[q]) :
          pages[q][i] \in [0 .. items_per_page - 1 -> Tickets \cup {None}]
    /\ items_waiting \cup items_woken \cup items_aborted \subseteq Consumer
    /\ slots_waiting \cup slots_woken \cup slots_aborted \subseteq Producer
    /\ items_context \in [Consumer -> Nat] /\ slots_context \in [Producer -> Nat]
    /\ stale \subseteq Thread
    /\ pc \in [Thread -> {"idle", "enter", "try", "claim", "prepare", "check", "commit",
                          "asleep", "turn", "store", "advance", "notify", "unlink", "again"}]
    /\ k \in [Thread -> Nat]
    /\ result \in [Thread -> {"item", "none", "threw"}] /\ trying \in [Thread -> BOOLEAN]
    /\ aborting \in BOOLEAN
    /\ popped \in [Tickets -> Nat] /\ upsets \in Nat

\* The thread has a ticket from the counter and is not about to give it back.
HasTicket(t) == /\ pc[t] \notin {"idle", "try", "claim", "again"}
                /\ ~(pc[t] = "asleep" /\ t \in items_woken \cap items_aborted)
AtRest == \A t \in Thread : pc[t] = "idle"

\* No two calls of a side have the same ticket, or one that is yet to be issued.
TicketsUnique ==
    \A t \in Thread : HasTicket(t) =>
        /\ k[t] < Counter(t)
        /\ \A u \in Thread \ {t} :
              HasTicket(u) /\ (t \in Producer <=> u \in Producer) => k[u] # k[t]

Stored == {t \in Tickets : \E q \in Lane : \E i \in 1 .. Len(pages[q]) :
                              \E j \in 0 .. items_per_page - 1 : pages[q][i][j] = t}

\* Every item is popped at most once, and none whose turn has passed is left
\* behind; no ticket is issued twice.
NothingLostOrRepeated ==
    /\ TicketsUnique
    /\ \A t \in Tickets : popped[t] <= 1
    /\ AtRest => \A t \in Stored : t < head_counter => popped[t] = 1

\* When a pop has its turn there is a page ("&p"), and its slot has the item
\* pushed under the same ticket, or none; pages hold pushed items only.
PopFindsItsSlot ==
    /\ TypeOK
    /\ \A c \in Consumer : pc[c] = "turn" /\ Turn(c) =>
          pages[LaneOf(k[c])] # <<>> /\ Slot(k[c]) \in {k[c], None}

\* size() is what the queue contains once all calls have returned, whatever
\* pushes and pops have thrown or been aborted.
SizeExactAtRest ==
    AtRest => tail_counter - head_counter - n_invalid_entries
              = Cardinality({t \in Stored : t >= head_counter})

\* A push that does not wait any longer has room: the assertion before the
\* call of micro_queue::push.
RoomAtPush ==
    \A p \in Producer : pc[p] \in {"turn", "store"} /\ result[p] # "none" =>
        k[p] - head_counter < Capacity

\* A queue that has been emptied keeps at most the page in use in each
\* micro-queue, and none that is used up ("pages were not freed properly").
PagesFreed ==
    AtRest /\ head_counter = tail_counter => \A q \in Lane :
        Len(pages[q]) <= IF Index(tail[q]) = 0 THEN 0 ELSE 1

\* As long as nothing throws and nobody aborts, a call for which there is
\* room, or for which a push has taken the matching ticket, returns.
Pending(t) == pc[t] # "idle" /\ ~Blocked(t)
CallsReturn == \A t \in Thread : Pending(t) ~> pc[t] = "idle"

\* CHANGES: abort "leaves the queue in a reusable state".  A push for which
\* there is room does not sleep forever.
PushNotStuck ==
    \A p \in Producer : (pc[p] = "asleep" /\ ~Full(p)) ~> pc[p] # "asleep"

=============================================================================
