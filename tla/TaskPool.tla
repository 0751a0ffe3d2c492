------------------------------ MODULE TaskPool ------------------------------
(***************************************************************************)
(* One arena slot's task pool (src/src/tbb/scheduler.cpp): the deque from  *)
(* whose tail the owning thread spawns and takes tasks, from whose head    *)
(* the other threads steal, and which both sides lock only when they meet. *)
(* Tasks with an affinity travel as proxies that sit in the pool and in    *)
(* the recipient's mailbox at once (src/src/tbb/mailbox.h).                *)
(*                                                                         *)
(* Every step reads or writes one shared word outside the lock; a step     *)
(* taken while the slot is locked may do more.  The fences of the code     *)
(* order those words, so steps interleave sequentially consistently.       *)
(* The demand signal advertise_new_work is the business of ArenaDemand.    *)
(***************************************************************************)
EXTENDS Integers, Sequences, FiniteSets

CONSTANTS
    Task,           \* every task is spawned at most once by the program
    Programs,       \* [affine, low]: the tasks whose affinity names the Recipient,
                    \* and those of low priority; the others are of normal priority
    Thief,          \* the other threads of the arena
    Recipient,      \* the thief whose mailbox receives the proxies
    MinSize,        \* min_task_pool_size
    Line,           \* elements of a cache line: arrays are whole lines
    MaxBatch,       \* bound: longest list of tasks spawned by one call
    MaxTopChanges   \* bound: changes of the top priority by other threads

ASSUME ProgramTypes == Programs \subseteq [affine : SUBSET Task, low : SUBSET Task]
ASSUME RecipientSteals == Recipient \in Thief
ASSUME SizesPositive == /\ MinSize \in Nat \ {0}
                        /\ Line \in Nat \ {0}
                        /\ MaxBatch \in Nat \ {0}
                        /\ MaxTopChanges \in Nat

Empty  == 0      \* EmptyTaskPool, the null pointer; arrays are numbered from 1
Locked == -1     \* LockedTaskPool, the pointer of all ones
None   == "none" \* NULL task, and a poisoned array element

ASSUME NoneIsNoTask == None \notin Task

VARIABLES
    \* the slot
    task_pool,      \* Empty, Locked or the number of the array in use
    pool_ptr,       \* task_pool_ptr: number of the array in use
    size,           \* my_task_pool_size
    pool,           \* the elements of that array
    head, tail,
    \* proxies
    tag,            \* task_and_tag of each task's proxy
    mail,           \* proxies in the recipient's mailbox
    idle,           \* mail_outbox::my_is_idle
    \* priorities
    top,            \* *my_ref_top_priority
    changes,        \* how often other threads have changed it
    offloaded,      \* my_offloaded_tasks
    \* the owner's program counter and locals
    opc, oT, oH, oT0, batch, reloading, res,
    \* the thieves' program counters and locals
    tpc, tH, tH0, vpool, got,
    \* history
    unspawned, taken,
    \* the program, which does not change
    affine, low

slot   == <<task_pool, pool_ptr, size, pool, head, tail>>
prox   == <<tag, mail, idle>>
prio   == <<top, changes, offloaded>>
owner  == <<opc, oT, oH, oT0, batch, reloading, res>>
thief  == <<tpc, tH, tH0, vpool, got>>
program == <<affine, low>>
hist   == <<unspawned, taken, program>>
vars   == <<slot, prox, prio, owner, thief, hist>>

\* allocate_task_pool rounds the number of elements up to whole lines.
WholeLines(n) == ((n + Line - 1) \div Line) * Line
Larger(a, b) == IF a > b THEN a ELSE b
Priority(t) == IF t \in low THEN 0 ELSE 1

\* A pool entry is a proxy until the pool side has extracted its task.
IsProxy(e) == e # None /\ tag[e] \in {"both", "pool"}

Init ==
    /\ task_pool = Empty /\ pool_ptr = 0 /\ size = 0 /\ pool = <<>> /\ head = 0 /\ tail = 0
    /\ tag = [t \in Task |-> "plain"] /\ mail = <<>> /\ idle = FALSE
    /\ top = 1 /\ changes = 0 /\ offloaded = {}
    /\ opc = "idle" /\ oT = 0 /\ oH = 0 /\ oT0 = 0
    /\ batch = <<>> /\ reloading = FALSE /\ res = None
    /\ tpc = [h \in Thief |-> "out"]
    /\ tH = [h \in Thief |-> 0] /\ tH0 = [h \in Thief |-> 0]
    /\ vpool = [h \in Thief |-> 0] /\ got = [h \in Thief |-> None]
    /\ unspawned = Task /\ taken = [t \in Task |-> 0]
    /\ \E p \in Programs : affine = p.affine /\ low = p.low

InArena == task_pool # Empty

\* Whether a thief may try to lock a slot with this task_pool.
FreeIgnoringLock(tp) == tp # Empty
Free(tp) == tp \notin {Empty, Locked}

\* Whether the owner may lock its own slot.
OwnerLocksAnyway == task_pool # Empty
OwnerMayLock == task_pool = pool_ptr

Lists(S) == {s \in UNION {[1 .. n -> S] : n \in 1 .. MaxBatch} :
                \A i, j \in DOMAIN s : i # j => s[i] # s[j]}
Members(s) == {s[i] : i \in DOMAIN s}

\* The elements of S one after the other, and places in ascending order.
Orders(S) == {s \in [1 .. Cardinality(S) -> S] :
                 /\ Members(s) = S
                 /\ \A i, j \in DOMAIN s : i # j => s[i] # s[j]}
Ascending(S) == {s \in Orders(S) : \A i, j \in DOMAIN s : i < j => s[i] < s[j]}

(***************************************************************************)
(* The owner: spawning (local_spawn, prepare_task_pool).                   *)
(***************************************************************************)

\* prepare_for_spawning: a task with an affinity is replaced by a proxy that
\* is mailed before it gets into the pool.
Spawn ==
    /\ opc = "idle"
    /\ \E b \in Lists(unspawned) :
        /\ batch' = b
        /\ unspawned' = unspawned \ Members(b)
        /\ tag' = [t \in Task |-> IF t \in affine \cap Members(b)
                                  THEN "both" ELSE tag[t]]
        /\ \E order \in Ascending({i \in DOMAIN b : b[i] \in affine}) :
               mail' = mail \o [i \in DOMAIN order |-> b[order[i]]]
    /\ reloading' = FALSE
    /\ opc' = "prepare"
    /\ UNCHANGED <<slot, idle, prio, oT, oH, oT0, res, thief, taken, program>>

\* prepare_task_pool: is there room behind the tail?
Prepare ==
    /\ opc = "prepare"
    /\ oT' = tail
    /\ opc' = IF tail + Len(batch) <= size THEN "write"
              ELSE IF InArena THEN "prepareLock" ELSE "relocate"
    /\ UNCHANGED <<slot, prox, prio, oH, oT0, batch, reloading, res, thief, hist>>

\* Move the live elements to the front, or to a larger array.  Outside the
\* arena there are none and no lock is taken.
Relocate ==
    /\ opc = "relocate"
    /\ LET live == tail - head
           need == live + Len(batch)
           fits == size # 0 /\ need <= size - MinSize \div 4
           more == WholeLines(IF size = 0 THEN Larger(need, MinSize)
                                      ELSE Larger(need, 2 * size))
       IN  /\ size' = IF fits THEN size ELSE more
           /\ pool_ptr' = IF fits THEN pool_ptr ELSE pool_ptr + 1
           /\ pool' = [i \in 0 .. size' - 1 |->
                         IF i < live THEN pool[head + i] ELSE None]
           /\ head' = 0
           /\ tail' = live
           /\ oT' = live
    /\ task_pool' = IF InArena THEN pool_ptr' ELSE task_pool
    /\ opc' = "write"
    /\ UNCHANGED <<prox, prio, oH, oT0, batch, reloading, res, thief, hist>>

Write ==
    /\ opc = "write"
    /\ pool' = [i \in DOMAIN pool |->
                  IF i - oT \in 0 .. Len(batch) - 1 THEN batch[i - oT + 1] ELSE pool[i]]
    /\ opc' = "commit"
    /\ UNCHANGED <<task_pool, pool_ptr, size, head, tail, prox, prio,
                   oT, oH, oT0, batch, reloading, res, thief, hist>>

\* commit_spawned_tasks.  A reload keeps the last task for itself, and
\* commits nothing when that is the only one.
Commit ==
    /\ opc = "commit"
    /\ LET n == IF reloading THEN Len(batch) - 1 ELSE Len(batch)
       IN  /\ tail' = oT + n
           /\ opc' = IF n > 0 /\ ~InArena THEN "enter"
                     ELSE IF reloading THEN "keepLast" ELSE "idle"
    /\ batch' = <<>>
    /\ UNCHANGED <<task_pool, pool_ptr, size, pool, head, prox, prio,
                   oT, oH, oT0, reloading, res, thief, hist>>

EnterArena ==
    /\ opc = "enter"
    /\ task_pool' = pool_ptr
    /\ opc' = IF reloading THEN "keepLast" ELSE "idle"
    /\ UNCHANGED <<pool_ptr, size, pool, head, tail, prox, prio,
                   oT, oH, oT0, batch, reloading, res, thief, hist>>

(***************************************************************************)
(* acquire_task_pool: the owner spins until its own slot is not locked.    *)
(***************************************************************************)
Acquire ==
    /\ opc \in {"prepareLock", "getLock", "winnowLock", "resetLock"}
    /\ OwnerMayLock
    /\ task_pool' = Locked
    /\ opc' = CASE opc = "prepareLock" -> "relocate"
                [] opc = "getLock"     -> "getLocked"
                [] opc = "winnowLock"  -> "winnowLocked"
                [] opc = "resetLock"   -> "reset"
    /\ UNCHANGED <<pool_ptr, size, pool, head, tail, prox, prio,
                   oT, oH, oT0, batch, reloading, res, thief, hist>>

\* What the owner does with the element it took out of the pool.
After(e) == IF e = None THEN "idle" ELSE IF IsProxy(e) THEN "extract" ELSE "dispatch"

(***************************************************************************)
(* The owner: taking a task (get_task).                                    *)
(***************************************************************************)
GetTask ==
    /\ opc \in {"idle", "retry"}
    /\ InArena
    /\ oT' = tail - 1
    /\ tail' = tail - 1
    /\ opc' = "getCheck"
    /\ UNCHANGED <<task_pool, pool_ptr, size, pool, head, prox, prio,
                   oH, oT0, batch, reloading, res, thief, hist>>

\* Whether a thief may be after the element the owner has just claimed, and,
\* with the slot locked, whether other elements remain.
Contended == head > oT
RemainsAfterOne == head < oT - 1
Remains == head < oT

GetCheck ==
    /\ opc = "getCheck"
    /\ IF Contended
       THEN opc' = "getLock" /\ UNCHANGED <<pool, res>>
       ELSE /\ res' = pool[oT]
            /\ pool' = [pool EXCEPT ![oT] = None]
            /\ opc' = After(pool[oT])
    /\ UNCHANGED <<task_pool, pool_ptr, size, head, tail, prox, prio,
                   oT, oH, oT0, batch, reloading, thief, hist>>

GetLocked ==
    /\ opc = "getLocked"
    /\ LET found == ~Contended
           e     == IF found THEN pool[oT] ELSE None
       IN  /\ res' = e
           /\ pool' = IF found THEN [pool EXCEPT ![oT] = None] ELSE pool
           /\ opc' = After(e)
    /\ IF Remains
       THEN task_pool' = pool_ptr /\ UNCHANGED <<head, tail>>
       ELSE task_pool' = Empty /\ head' = 0 /\ tail' = 0
    /\ UNCHANGED <<pool_ptr, size, prox, prio,
                   oT, oH, oT0, batch, reloading, thief, hist>>

\* extract_task<pool_bit>, and the disposal of a proxy that is empty
ExtractOwn ==
    /\ opc = "extract"
    /\ IF tag[res] = "both"
       THEN /\ tag' = [tag EXCEPT ![res] = "mailbox"]
            /\ opc' = "dispatch"
            /\ UNCHANGED res
       ELSE /\ tag' = [tag EXCEPT ![res] = "freed"]
            /\ opc' = IF InArena THEN "retry" ELSE "idle"
            /\ res' = None
    /\ UNCHANGED <<slot, mail, idle, prio, oT, oH, oT0, batch, reloading, thief, hist>>

\* local_wait_for_all: a task below the top priority is put aside, and the
\* pool is winnowed; any other is executed, and may raise the top priority.
\* A proxy has no execute() method: executing one is undefined, and the
\* owner stops here.
Dispatch ==
    /\ opc = "dispatch"
    /\ ~IsProxy(res)
    /\ res' = None
    /\ IF Priority(res) < top
       THEN /\ offloaded' = offloaded \cup {res}
            /\ opc' = IF InArena THEN "winnow" ELSE "idle"
            /\ UNCHANGED <<top, taken>>
       ELSE /\ taken' = [taken EXCEPT ![res] = @ + 1]
            /\ top' = Priority(res)
            /\ opc' = "idle"
            /\ UNCHANGED offloaded
    /\ UNCHANGED <<slot, prox, changes, oT, oH, oT0, batch, reloading, thief,
                   unspawned, program>>

(***************************************************************************)
(* The owner: winnow_task_pool moves every task below the top priority     *)
(* into my_offloaded_tasks.                                                *)
(***************************************************************************)
WinnowRead ==
    /\ opc = "winnow"
    /\ oT0' = tail
    /\ oH' = head
    /\ opc' = "winnowCut"
    /\ UNCHANGED <<slot, prox, prio, oT, batch, reloading, res, thief, hist>>

WinnowCut ==
    /\ opc = "winnowCut"
    /\ tail' = oH - 1
    /\ opc' = "winnowCheck"
    /\ UNCHANGED <<task_pool, pool_ptr, size, pool, head, prox, prio,
                   oT, oH, oT0, batch, reloading, res, thief, hist>>

WinnowCheck ==
    /\ opc = "winnowCheck"
    /\ oH' = head
    /\ opc' = IF head # tail THEN "winnowLock"
              ELSE IF head >= oT0 THEN "resetLock" ELSE "winnowScan"
    /\ UNCHANGED <<slot, prox, prio, oT, oT0, batch, reloading, res, thief, hist>>

\* What survives the scan of the elements from H to T0 - 1, and where it ends
\* without its last element, which is the result.
Survivors(H) == {i \in H .. oT0 - 1 : Priority(pool[i]) >= top}
Dst(H, order) == H + Len(order) - (IF order = <<>> THEN 0 ELSE 1)

\* Nothing is left below the tail.
Emptied(H, order) == Dst(H, order) = H

WinnowScan(H, order) ==
    /\ pool' = [i \in DOMAIN pool |->
                  IF i \in H .. Dst(H, order) - 1 THEN pool[order[i - H + 1]]
                  ELSE IF i \in H .. oT0 - 1 THEN None ELSE pool[i]]
    /\ offloaded' = offloaded \cup
                    {pool[i] : i \in {j \in H .. oT0 - 1 : Priority(pool[j]) < top}}
    /\ res' = IF order = <<>> THEN None ELSE pool[order[Len(order)]]

WinnowUnlocked ==
    /\ opc = "winnowScan"
    /\ \E order \in Ascending(Survivors(oH)) :
           /\ WinnowScan(oH, order)
           /\ oT' = Dst(oH, order)
           /\ opc' = IF Emptied(oH, order) THEN "resetLock" ELSE "winnowStore"
    /\ UNCHANGED <<task_pool, pool_ptr, size, head, tail, prox, top, changes,
                   oH, oT0, batch, reloading, thief, hist>>

\* The result goes to local_wait_for_all as it is, a proxy or not.
WinnowStore ==
    /\ opc = "winnowStore"
    /\ tail' = oT
    /\ opc' = "dispatch"
    /\ UNCHANGED <<task_pool, pool_ptr, size, pool, head, prox, prio,
                   oT, oH, oT0, batch, reloading, res, thief, hist>>

WinnowLocked ==
    /\ opc = "winnowLocked"
    /\ IF head >= oT0
       THEN /\ opc' = "reset"
            /\ UNCHANGED <<slot, offloaded, res>>
       ELSE /\ \E order \in Ascending(Survivors(head)) :
                   /\ WinnowScan(head, order)
                   /\ IF Emptied(head, order)
                      THEN opc' = "reset" /\ UNCHANGED <<task_pool, tail>>
                      ELSE /\ opc' = "dispatch"
                           /\ tail' = Dst(head, order)
                           /\ task_pool' = pool_ptr
            /\ UNCHANGED <<pool_ptr, size, head>>
    /\ UNCHANGED <<prox, top, changes, oT, oH, oT0, batch, reloading, thief, hist>>

\* reset_deque_and_leave_arena, the slot being locked
Reset ==
    /\ opc = "reset"
    /\ tail' = 0
    /\ head' = 0
    /\ task_pool' = Empty
    /\ opc' = IF res = None THEN "idle" ELSE "dispatch"
    /\ UNCHANGED <<pool_ptr, size, pool, prox, prio,
                   oT, oH, oT0, batch, reloading, res, thief, hist>>

\* reload_tasks: outside the arena, the offloaded tasks that have reached
\* the top priority go back to the pool, but one.
Reload ==
    /\ opc = "idle"
    /\ ~InArena
    /\ LET back == {t \in offloaded : Priority(t) >= top}
       IN  /\ back # {}
           /\ batch' \in Orders(back)
           /\ offloaded' = offloaded \ back
    /\ reloading' = TRUE
    /\ opc' = "prepare"
    /\ UNCHANGED <<slot, prox, top, changes, oT, oH, oT0, res, thief, hist>>

KeepLast ==
    /\ opc = "keepLast"
    /\ res' = pool[tail]
    /\ pool' = [pool EXCEPT ![tail] = None]
    /\ opc' = "dispatch"
    /\ UNCHANGED <<task_pool, pool_ptr, size, head, tail, prox, prio,
                   oT, oH, oT0, batch, reloading, thief, hist>>

\* Another thread changes the priority this owner refers to, which only a
\* program that uses priorities does.
ChangeTop ==
    /\ low # {}
    /\ changes < MaxTopChanges
    /\ changes' = changes + 1
    /\ top' = 1 - top
    /\ UNCHANGED <<slot, prox, offloaded, owner, thief, hist>>

(***************************************************************************)
(* A thief: receive_or_steal_task, lock_task_pool, steal_task.             *)
(***************************************************************************)
Goto(h, from, to) == tpc[h] = from /\ tpc' = [tpc EXCEPT ![h] = to]

LookForWork(h) ==
    /\ Goto(h, "out", "loop")
    /\ idle' = (idle \/ h = Recipient)
    /\ UNCHANGED <<slot, tag, mail, prio, owner, tH, tH0, vpool, got, hist>>

Lock(h) ==
    /\ Goto(h, "loop", "bump")
    /\ Free(task_pool)
    /\ vpool' = [vpool EXCEPT ![h] = task_pool]
    /\ task_pool' = Locked
    /\ tH' = [tH EXCEPT ![h] = head]
    /\ tH0' = [tH0 EXCEPT ![h] = head]
    /\ UNCHANGED <<pool_ptr, size, pool, head, tail, prox, prio, owner, got, hist>>

Bump(h) ==
    /\ Goto(h, "bump", "check")
    /\ tH' = [tH EXCEPT ![h] = @ + 1]
    /\ head' = tH[h] + 1
    /\ UNCHANGED <<task_pool, pool_ptr, size, pool, tail, prox, prio, owner,
                   tH0, vpool, got, hist>>

\* The thief has run past the tail.
OverrunByTwo(h) == tH[h] > tail + 1
Overrun(h) == tH[h] > tail

Check(h) ==
    /\ Goto(h, "check", IF Overrun(h) THEN "backOff" ELSE "read")
    /\ UNCHANGED <<slot, prox, prio, owner, tH, tH0, vpool, got, hist>>

HeadAsBumped(h) == tH[h]
HeadBefore(h) == tH0[h]

BackOff(h) ==
    /\ Goto(h, "backOff", "unlock")
    /\ head' = HeadBefore(h)
    /\ UNCHANGED <<task_pool, pool_ptr, size, pool, tail, prox, prio, owner,
                   tH, tH0, vpool, got, hist>>

\* A proxy its recipient is likely to take from the mailbox is passed over.
Read(h) ==
    LET e == pool[tH[h] - 1]
        passed == e # None /\ tag[e] = "both" /\ idle
    IN  /\ Goto(h, "read", IF passed THEN "bump"
                           ELSE IF tH0[h] + 1 < tH[h] THEN "close" ELSE "poison")
        /\ got' = IF passed THEN got ELSE [got EXCEPT ![h] = e]
        /\ UNCHANGED <<slot, prox, prio, owner, tH, tH0, vpool, hist>>

\* The proxies passed over close the hole the stolen task leaves ...
FirstMovedLate(h) == tH0[h] + 2
FirstMoved(h) == tH0[h] + 1

CloseHole(h) ==
    /\ Goto(h, "close", "closed")
    /\ pool' = [i \in DOMAIN pool |->
                  IF i \in FirstMoved(h) .. tH[h] - 1 THEN pool[i - 1] ELSE pool[i]]
    /\ UNCHANGED <<task_pool, pool_ptr, size, head, tail, prox, prio, owner,
                   tH, tH0, vpool, got, hist>>

\* ... and only then become visible again.
LowerHead(h) ==
    /\ Goto(h, "closed", "poison")
    /\ head' = tH0[h] + 1
    /\ UNCHANGED <<task_pool, pool_ptr, size, pool, tail, prox, prio, owner,
                   tH, tH0, vpool, got, hist>>

PoisonStolen(h) ==
    /\ Goto(h, "poison", "unlock")
    /\ pool' = [pool EXCEPT ![tH0[h]] = None]
    /\ UNCHANGED <<task_pool, pool_ptr, size, head, tail, prox, prio, owner,
                   tH, tH0, vpool, got, hist>>

\* The thief executes t.
Take(h, t) ==
    /\ taken' = [taken EXCEPT ![t] = @ + 1]
    /\ idle' = (idle /\ h # Recipient)
    /\ got' = [got EXCEPT ![h] = None]

Unlock(h) ==
    /\ task_pool' = vpool[h]
    /\ \/ /\ got[h] = None
          /\ Goto(h, "unlock", "loop")
          /\ UNCHANGED <<idle, got, taken>>
       \/ /\ got[h] # None
          /\ IsProxy(got[h])
          /\ Goto(h, "unlock", "extract")
          /\ UNCHANGED <<idle, got, taken>>
       \/ /\ got[h] # None
          /\ ~IsProxy(got[h])
          /\ Goto(h, "unlock", "out")
          /\ Take(h, got[h])
    /\ UNCHANGED <<pool_ptr, size, pool, head, tail, tag, mail, prio, owner,
                   tH, tH0, vpool, unspawned, program>>

(***************************************************************************)
(* Extraction of a task from its proxy, by the side bit of h; the proxy is *)
(* left to the other side, or freed when that side has been first.         *)
(***************************************************************************)
Extract(h, bit, other) ==
    /\ \/ /\ tag[got[h]] = "both"
          /\ tag' = [tag EXCEPT ![got[h]] = other]
          /\ tpc' = [tpc EXCEPT ![h] = "out"]
          /\ Take(h, got[h])
       \/ /\ tag[got[h]] = bit
          /\ tag' = [tag EXCEPT ![got[h]] = "freed"]
          /\ tpc' = [tpc EXCEPT ![h] = "loop"]
          /\ got' = [got EXCEPT ![h] = None]
          /\ UNCHANGED <<idle, taken>>
    /\ UNCHANGED <<slot, mail, prio, owner, tH, tH0, vpool, unspawned, program>>

ExtractStolenKeepingBit(h) == tpc[h] = "extract" /\ Extract(h, "pool", "pool")
ExtractStolen(h) == tpc[h] = "extract" /\ Extract(h, "pool", "mailbox")

\* get_mailbox_task
PopMail(h) ==
    /\ h = Recipient
    /\ Goto(h, "loop", "mail")
    /\ mail # <<>>
    /\ got' = [got EXCEPT ![h] = Head(mail)]
    /\ mail' = Tail(mail)
    /\ UNCHANGED <<slot, tag, idle, prio, owner, tH, tH0, vpool, hist>>

ExtractMailUnclaimed(h) == tpc[h] = "mail" /\ Extract(h, "mailbox", "both")
ExtractMail(h) == tpc[h] = "mail" /\ Extract(h, "mailbox", "pool")

OwnerStep ==
    \/ Spawn \/ Prepare \/ Relocate \/ Write \/ Commit \/ EnterArena \/ Acquire
    \/ GetTask \/ GetCheck \/ GetLocked \/ ExtractOwn \/ Dispatch
    \/ WinnowRead \/ WinnowCut \/ WinnowCheck \/ WinnowUnlocked \/ WinnowStore
    \/ WinnowLocked \/ Reset \/ Reload \/ KeepLast

ThiefStep(h) ==
    \/ LookForWork(h) \/ Lock(h) \/ Bump(h) \/ Check(h) \/ BackOff(h) \/ Read(h)
    \/ CloseHole(h) \/ LowerHead(h) \/ PoisonStolen(h) \/ Unlock(h)
    \/ ExtractStolen(h) \/ PopMail(h) \/ ExtractMail(h)

Next == OwnerStep \/ ChangeTop \/ \E h \in Thief : ThiefStep(h)

Spec == Init /\ [][Next]_vars

(***************************************************************************)
(* Properties                                                              *)
(***************************************************************************)
Entry == Task \cup {None}

OwnerPC == {"idle", "prepare", "prepareLock", "relocate", "write", "commit", "enter",
            "keepLast", "retry", "getCheck", "getLock", "getLocked", "extract",
            "dispatch", "winnow", "winnowCut", "winnowCheck", "winnowLock",
            "winnowLocked", "winnowScan", "winnowStore", "resetLock", "reset"}
ThiefPC == {"out", "loop", "bump", "check", "backOff", "read", "close", "closed",
            "poison", "unlock", "extract", "mail"}

\* Every variable has its type; the array in use has its recorded size.
TypeOK ==
    /\ pool_ptr \in Nat /\ size \in Nat
    /\ task_pool \in Nat \cup {Locked}
    /\ pool \in [0 .. size - 1 -> Entry]
    /\ head \in Int /\ tail \in Int
    /\ tag \in [Task -> {"plain", "both", "pool", "mailbox", "freed"}]
    /\ mail \in Seq(affine) /\ idle \in BOOLEAN
    /\ top \in {0, 1} /\ changes \in 0 .. MaxTopChanges /\ offloaded \subseteq Task
    /\ opc \in OwnerPC /\ oT \in Int /\ oH \in Int /\ oT0 \in Int
    /\ batch \in Seq(Task) /\ reloading \in BOOLEAN /\ res \in Entry
    /\ tpc \in [Thief -> ThiefPC]
    /\ tH \in [Thief -> Int] /\ tH0 \in [Thief -> Int]
    /\ vpool \in [Thief -> Nat] /\ got \in [Thief -> Entry]
    /\ unspawned \subseteq Task /\ taken \in [Task -> Nat]
    /\ affine \subseteq Task /\ low \subseteq Task

HoldsLock(h) == tpc[h] \in {"bump", "check", "backOff", "read", "close", "closed",
                            "poison", "unlock"}
OwnerHoldsLock == opc \in {"getLocked", "winnowLocked"}
                  \/ (opc \in {"relocate", "reset"} /\ InArena)

\* The slot is locked by at most one thread, is marked as locked exactly
\* while one holds it, and a thief's unlock writes back the array in use:
\* no array is replaced under a thief (lock_task_pool, unlock_task_pool,
\* acquire_task_pool, release_task_pool, and the growth of the pool).
LockDiscipline ==
    /\ task_pool = Locked <=> OwnerHoldsLock \/ \E h \in Thief : HoldsLock(h)
    /\ \A h \in Thief : HoldsLock(h) => /\ ~OwnerHoldsLock
                                        /\ vpool[h] = pool_ptr
    /\ \A h, k \in Thief : HoldsLock(h) /\ HoldsLock(k) => h = k
    /\ task_pool \in {Empty, Locked, pool_ptr}

\* No task is executed twice: owner and thieves never both get the same one
\* from the pool, nor the pool side and the mailbox side from a proxy.
NoDoubleTake == \A t \in Task : taken[t] <= 1

\* The element a thief is about to poison no longer counts: it has been taken,
\* or moved up by one.
Dead(i) == \E h \in Thief : tpc[h] \in {"closed", "poison"} /\ tH0[h] = i
InPool(t) == \E i \in DOMAIN pool : pool[i] = t /\ ~Dead(i)
HeldByPoolSide(t) ==
    \/ InPool(t) \/ t \in Members(batch) \/ t = res \/ t \in offloaded
    \/ \E h \in Thief : got[h] = t /\ tpc[h] # "mail"

\* No task is lost: until it is executed, a spawned task is in the pool or in
\* the hands of a thread that works on the pool, whatever relocation, growth,
\* winnowing, closing of holes or failed steal happens around it.
NoLostTask ==
    \A t \in Task \ unspawned : taken[t] = 0 => HeldByPoolSide(t)

\* While the slot is marked empty, so that no thief looks at it and the owner
\* does not call get_task, no task is in the array.
NothingStranded ==
    task_pool = Empty /\ opc \notin {"commit", "enter", "keepLast"}
        => \A i \in DOMAIN pool : pool[i] = None

\* A task that is not in a proxy and is still in the pool has not been
\* executed, and nobody obtains a poisoned element: the window that owner and
\* thief agree on by writing an index before reading the other's holds only
\* live elements; and the words of the slot keep their types.
OnlyLiveElements ==
    /\ TypeOK
    /\ \A t \in Task \ affine : InPool(t) => taken[t] = 0
    /\ \A h \in Thief : tpc[h] \in {"close", "closed", "poison"} => got[h] # None
    /\ opc \in {"extract", "dispatch"} => res # None

\* The assertion of get_task: when the owner loses the arbitration, the
\* locked indices are one apart, that is the pool is exactly empty.
ArbitrationHolds == opc = "getLocked" /\ head > oT => head = oT + 1

\* The tag of a proxy tells the truth to the side that reads it: a proxy
\* marked for the mailbox is there or just popped, one marked for the pool is
\* with the pool side, and no side still refers to a proxy that was freed.
ProxyTagTruthful ==
    \A t \in affine :
        LET mailed == t \in Members(mail)
                      \/ \E h \in Thief : tpc[h] = "mail" /\ got[h] = t
            pooled == InPool(t) \/ t \in Members(batch) \/ t = res
                      \/ \E h \in Thief : tpc[h] # "mail" /\ got[h] = t
        IN  /\ tag[t] \in {"both", "mailbox"} => mailed
            /\ tag[t] \in {"both", "pool"} => pooled \/ t \in offloaded
            /\ tag[t] = "freed" => ~mailed /\ ~InPool(t)

=============================================================================
