--------------------------- MODULE TaskPoolProofs ---------------------------
(***************************************************************************)
(* What is proved of a task pool, for any tasks, any number of thieves, any*)
(* sizes and any bounds.  Part 1 is the locking protocol; part 2 the window*)
(* of indices that hold tasks, and what owner and thieves may claim of it  *)
(* without the lock; part 3 where each task is, until it is executed once. *)
(* Each part has an inductive invariant that rests on the one before.      *)
(***************************************************************************)
EXTENDS TaskPool, SequenceTheorems, FiniteSetTheorems, TLAPS

(***************************************************************************)
(* Part 1: the locking protocol.                                           *)
(***************************************************************************)

(***************************************************************************)
(* LockDiscipline is inductive once it is known that the slot, which only  *)
(* the owner may put into the arena, is outside when it is to enter.       *)
(***************************************************************************)
LockTypes == /\ pool_ptr \in Nat
             /\ task_pool \in Nat \cup {Locked}
             /\ opc \in OwnerPC
             /\ tpc \in [Thief -> ThiefPC]
             /\ vpool \in [Thief -> Nat]

LockInv == /\ LockTypes
           /\ LockDiscipline
           /\ opc = "enter" => task_pool = Empty

\* The element taken decides what comes next, but never a step under the lock.
LEMMA AfterIsUnlocked ==
  ASSUME NEW e PROVE After(e) \in {"idle", "extract", "dispatch"}
  BY DEF After

\* The slot is created unlocked and outside the arena (arena_slot).
LEMMA InitLockInv == Init => LockInv
  BY DEF Init, LockInv, LockTypes, LockDiscipline, HoldsLock, OwnerHoldsLock, InArena,
         OwnerPC, ThiefPC, Empty, Locked

\* Steps of the owner that leave the slot and the thieves' locals alone, and
\* neither take the lock nor go on to enter the arena.
LEMMA QuietOwner ==
  ASSUME LockInv, UNCHANGED <<task_pool, pool_ptr, tpc, vpool>>,
         opc \notin {"getLocked", "winnowLocked", "reset"},
         opc = "relocate" => ~InArena,
         opc' \in OwnerPC \ {"getLocked", "winnowLocked", "reset"},
         opc' = "relocate" => ~InArena,
         opc' = "enter" => ~InArena
  PROVE  LockInv'
  BY DEF LockInv, LockTypes, LockDiscipline, HoldsLock, OwnerHoldsLock, InArena

\* Steps of the owner preserve the invariant.
LEMMA OwnerLockInv ==
  ASSUME LockInv, OwnerStep
  PROVE  LockInv'
<1> USE DEF slot, prox, prio, owner, thief, hist, program
<1>1. CASE Spawn
  BY <1>1, QuietOwner DEF Spawn, OwnerPC
<1>2. CASE Prepare
  BY <1>2, QuietOwner DEF Prepare, OwnerPC
<1>3. CASE Relocate
  <2>1. pool_ptr' \in Nat /\ opc' = "write" /\ UNCHANGED <<tpc, vpool>>
    BY <1>3 DEF Relocate, LockInv, LockTypes
  <2>2. task_pool' = IF InArena THEN pool_ptr' ELSE task_pool
    BY <1>3 DEF Relocate
  <2>3. \A h \in Thief : ~HoldsLock(h)
    BY <1>3 DEF Relocate, LockInv, LockDiscipline, OwnerHoldsLock, InArena, Empty, Locked
  <2> QED
    BY <2>1, <2>2, <2>3
    DEF LockInv, LockTypes, LockDiscipline, OwnerHoldsLock, HoldsLock, InArena, OwnerPC,
        Empty, Locked
<1>4. CASE Write
  BY <1>4, QuietOwner DEF Write, OwnerPC
<1>5. CASE Commit
  BY <1>5, QuietOwner DEF Commit, OwnerPC
<1>6. CASE EnterArena
  BY <1>6
  DEF EnterArena, LockInv, LockTypes, LockDiscipline, OwnerHoldsLock, HoldsLock, InArena,
      OwnerPC, Empty, Locked
<1>7. CASE Acquire
  <2>1. task_pool = pool_ptr /\ task_pool' = Locked /\ UNCHANGED <<pool_ptr, tpc, vpool>>
    BY <1>7 DEF Acquire, OwnerMayLock
  <2>2. opc' \in {"relocate", "getLocked", "winnowLocked", "reset"}
    BY <1>7 DEF Acquire
  <2>3. \A h \in Thief : ~HoldsLock(h)
    BY <2>1 DEF LockInv, LockTypes, LockDiscipline, Locked
  <2> QED
    BY <2>1, <2>2, <2>3
    DEF LockInv, LockTypes, LockDiscipline, OwnerHoldsLock, HoldsLock, InArena, OwnerPC,
        Empty, Locked
<1>8. CASE GetTask
  BY <1>8, QuietOwner DEF GetTask, OwnerPC
<1>9. CASE GetCheck
  <2>1. opc' \in {"getLock", "idle", "extract", "dispatch"}
    BY <1>9, AfterIsUnlocked DEF GetCheck
  <2> QED
    BY <1>9, <2>1, QuietOwner DEF GetCheck, OwnerPC
<1>10. CASE GetLocked
  <2>1. opc' \in {"idle", "extract", "dispatch"}
    BY <1>10, AfterIsUnlocked DEF GetLocked
  <2>2. task_pool' \in {pool_ptr, Empty} /\ UNCHANGED <<pool_ptr, tpc, vpool>>
    BY <1>10 DEF GetLocked
  <2>3. \A h \in Thief : ~HoldsLock(h)
    BY <1>10 DEF GetLocked, LockInv, LockDiscipline, OwnerHoldsLock
  <2> QED
    BY <2>1, <2>2, <2>3
    DEF LockInv, LockTypes, LockDiscipline, OwnerHoldsLock, HoldsLock, InArena, OwnerPC,
        Empty, Locked
<1>11. CASE ExtractOwn
  BY <1>11, QuietOwner DEF ExtractOwn, OwnerPC
<1>12. CASE Dispatch
  BY <1>12, QuietOwner DEF Dispatch, OwnerPC
<1>13. CASE WinnowRead
  BY <1>13, QuietOwner DEF WinnowRead, OwnerPC
<1>14. CASE WinnowCut
  BY <1>14, QuietOwner DEF WinnowCut, OwnerPC
<1>15. CASE WinnowCheck
  BY <1>15, QuietOwner DEF WinnowCheck, OwnerPC
<1>16. CASE WinnowUnlocked
  BY <1>16, QuietOwner DEF WinnowUnlocked, OwnerPC
<1>17. CASE WinnowStore
  BY <1>17, QuietOwner DEF WinnowStore, OwnerPC
<1>18. CASE WinnowLocked
  <2>1. \/ opc' = "reset" /\ task_pool' = task_pool
        \/ opc' = "dispatch" /\ task_pool' = pool_ptr
    BY <1>18 DEF WinnowLocked
  <2>2. UNCHANGED <<pool_ptr, tpc, vpool>>
    BY <1>18 DEF WinnowLocked
  <2>3. task_pool = Locked /\ \A h \in Thief : ~HoldsLock(h)
    BY <1>18 DEF WinnowLocked, LockInv, LockDiscipline, OwnerHoldsLock
  <2> QED
    BY <2>1, <2>2, <2>3
    DEF LockInv, LockTypes, LockDiscipline, OwnerHoldsLock, HoldsLock, InArena, OwnerPC,
        Empty, Locked
<1>19. CASE Reset
  <2>1. \A h \in Thief : ~HoldsLock(h)
    BY <1>19 DEF Reset, LockInv, LockDiscipline, OwnerHoldsLock, InArena, Empty, Locked
  <2> QED
    BY <1>19, <2>1
    DEF Reset, LockInv, LockTypes, LockDiscipline, OwnerHoldsLock, HoldsLock, InArena,
        OwnerPC, Empty, Locked
<1>20. CASE Reload
  BY <1>20, QuietOwner DEF Reload, OwnerPC
<1>21. CASE KeepLast
  BY <1>21, QuietOwner DEF KeepLast, OwnerPC
<1> QED
  BY <1>1, <1>2, <1>3, <1>4, <1>5, <1>6, <1>7, <1>8, <1>9, <1>10, <1>11, <1>12, <1>13,
     <1>14, <1>15, <1>16, <1>17, <1>18, <1>19, <1>20, <1>21 DEF OwnerStep

\* Steps of a thief that neither take nor release the lock
LEMMA QuietThief ==
  ASSUME LockInv, NEW h \in Thief, NEW from \in ThiefPC, NEW to \in ThiefPC,
         UNCHANGED <<task_pool, pool_ptr, opc, vpool>>,
         Goto(h, from, to),
         LET held == {"bump", "check", "backOff", "read", "close", "closed", "poison",
                      "unlock"}
         IN  from \in held <=> to \in held
  PROVE  LockInv'
  BY DEF LockInv, LockTypes, LockDiscipline, HoldsLock, OwnerHoldsLock, InArena, Goto

\* Steps of a thief preserve the invariant.
LEMMA ThiefLockInv ==
  ASSUME LockInv, NEW h \in Thief, ThiefStep(h)
  PROVE  LockInv'
<1> USE DEF slot, prox, prio, owner, thief, hist, program, ThiefPC
<1>1. CASE LookForWork(h)
  BY <1>1, QuietThief DEF LookForWork
<1>2. CASE Lock(h)
  <2>1. task_pool # Locked /\ task_pool = pool_ptr /\ task_pool # Empty
    BY <1>2 DEF Lock, Free, LockInv, LockDiscipline
  <2>2. ~OwnerHoldsLock /\ \A k \in Thief : ~HoldsLock(k)
    BY <2>1 DEF LockInv, LockDiscipline
  <2>3. UNCHANGED <<pool_ptr, opc>> /\ task_pool' = Locked
    BY <1>2 DEF Lock
  <2>4. ~OwnerHoldsLock'
    BY <2>1, <2>2, <2>3 DEF OwnerHoldsLock, InArena
  <2>5. tpc' = [tpc EXCEPT ![h] = "bump"] /\ vpool' = [vpool EXCEPT ![h] = task_pool]
    BY <1>2 DEF Lock, Goto
  <2> QED
    BY <2>1, <2>2, <2>3, <2>4, <2>5
    DEF LockInv, LockTypes, LockDiscipline, HoldsLock, Empty, Locked
<1>3. CASE Bump(h)
  BY <1>3, QuietThief DEF Bump
<1>4. CASE Check(h)
  BY <1>4, QuietThief DEF Check
<1>5. CASE BackOff(h)
  BY <1>5, QuietThief DEF BackOff
<1>6. CASE Read(h)
  BY <1>6, QuietThief DEF Read
<1>7. CASE CloseHole(h)
  BY <1>7, QuietThief DEF CloseHole
<1>8. CASE LowerHead(h)
  BY <1>8, QuietThief DEF LowerHead
<1>9. CASE PoisonStolen(h)
  BY <1>9, QuietThief DEF PoisonStolen
<1>10. CASE Unlock(h)
  <2>1. PICK to \in {"loop", "extract", "out"} : Goto(h, "unlock", to)
    BY <1>10 DEF Unlock
  <2>2. task_pool' = vpool[h] /\ UNCHANGED <<pool_ptr, opc, vpool>>
    BY <1>10 DEF Unlock
  <2>3. /\ HoldsLock(h) /\ ~OwnerHoldsLock /\ task_pool = Locked
        /\ \A k \in Thief : HoldsLock(k) => k = h
    BY <2>1 DEF Goto, HoldsLock, LockInv, LockDiscipline
  <2>4. vpool[h] = pool_ptr /\ pool_ptr # Locked
    BY <2>3 DEF LockInv, LockTypes, LockDiscipline, Locked
  <2>5. \A k \in Thief : ~HoldsLock(k)'
    BY <2>1, <2>3 DEF Goto, HoldsLock, LockInv, LockTypes
  <2>6. ~OwnerHoldsLock'
    BY <2>2, <2>3, <2>4 DEF OwnerHoldsLock, InArena, Empty, Locked
  <2>7. opc # "enter"
    BY <2>3 DEF LockInv, Empty, Locked
  <2> QED
    BY <2>1, <2>2, <2>4, <2>5, <2>6, <2>7
    DEF LockInv, LockTypes, LockDiscipline, Goto, Locked
<1>11. CASE ExtractStolen(h)
  <2>1. PICK to \in {"out", "loop"} : Goto(h, "extract", to)
    BY <1>11 DEF ExtractStolen, Extract, Goto
  <2>2. UNCHANGED <<task_pool, pool_ptr, opc, vpool>>
    BY <1>11 DEF ExtractStolen, Extract
  <2> QED
    BY <2>1, <2>2, QuietThief
<1>12. CASE PopMail(h)
  BY <1>12, QuietThief DEF PopMail
<1>13. CASE ExtractMail(h)
  <2>1. PICK to \in {"out", "loop"} : Goto(h, "mail", to)
    BY <1>13 DEF ExtractMail, Extract, Goto
  <2>2. UNCHANGED <<task_pool, pool_ptr, opc, vpool>>
    BY <1>13 DEF ExtractMail, Extract
  <2> QED
    BY <2>1, <2>2, QuietThief
<1> QED
  BY <1>1, <1>2, <1>3, <1>4, <1>5, <1>6, <1>7, <1>8, <1>9, <1>10, <1>11, <1>12, <1>13
  DEF ThiefStep

\* The lock discipline with the types of the words it is about holds in every
\* reachable state, whatever owner and thieves do.
THEOREM LockInvariant == Spec => []LockInv
<1>1. LockInv /\ [Next]_vars => LockInv'
  <2> SUFFICES ASSUME LockInv, [Next]_vars PROVE LockInv'
    OBVIOUS
  <2>1. CASE OwnerStep
    BY <2>1, OwnerLockInv
  <2>2. ASSUME NEW h \in Thief, ThiefStep(h) PROVE LockInv'
    BY <2>2, ThiefLockInv
  <2>3. CASE ChangeTop \/ UNCHANGED vars
    <3>1. UNCHANGED <<task_pool, pool_ptr, opc, tpc, vpool>>
      BY <2>3 DEF ChangeTop, vars, slot, owner, thief
    <3> QED
      BY <3>1 DEF LockInv, LockTypes, LockDiscipline, HoldsLock, OwnerHoldsLock, InArena
  <2> QED
    BY <2>1, <2>2, <2>3 DEF Next
<1> QED
  BY <1>1, InitLockInv, PTL DEF Spec

\* One thread at a time holds the lock of the slot, the slot is marked as
\* locked exactly then, and no array is replaced under a thief
\* (acquire_task_pool, lock_task_pool and their counterparts).
THEOREM LockIsExclusive == Spec => []LockDiscipline
  BY LockInvariant, PTL DEF LockInv

(***************************************************************************)
(* Part 2: the window of a task pool.                                      *)
(***************************************************************************)

(***************************************************************************)
(* A program that uses affinities and priorities can strand tasks: what is *)
(* stated here is about programs that use one of them.                     *)
(***************************************************************************)
Separate == \A p \in Programs : p.affine = {} \/ p.low = {}

WinnowPC == {"winnow", "winnowCut", "winnowCheck", "winnowLock", "winnowLocked",
             "winnowScan", "winnowStore", "resetLock", "reset"}

\* The types of the words of the slot and of the locals that hold them ...
SlotTypes ==
    /\ size \in Nat /\ pool \in [0 .. size - 1 -> Entry] /\ head \in Nat /\ tail \in Int
    /\ oT \in Int /\ oH \in Int /\ oT0 \in Int
    /\ batch \in Seq(Task) /\ res \in Entry
    /\ tH \in [Thief -> Nat] /\ tH0 \in [Thief -> Nat] /\ got \in [Thief -> Entry]

\* ... and of what is known of the tasks.
TaskTypes ==
    /\ tag \in [Task -> {"plain", "both", "pool", "mailbox", "freed"}]
    /\ top \in {0, 1} /\ offloaded \subseteq Task /\ IsFiniteSet(offloaded)
    /\ unspawned \subseteq Task /\ affine \subseteq Task /\ low \subseteq Task
    /\ reloading \in BOOLEAN /\ mail \in Seq(affine)

\* A program without priorities never winnows, and one without affinities has
\* no proxies, so that a thief has passed over no element.
OneKind ==
    /\ affine = {} \/ low = {}
    /\ \A t \in Task : tag[t] # "plain" => t \in affine
    /\ opc = "extract" => tag[res] # "plain"
    /\ low = {} => top = 1 /\ offloaded = {} /\ opc \notin WinnowPC
    /\ affine = {} => \A h \in Thief :
           /\ tpc[h] = "bump" => tH[h] = tH0[h]
           /\ tpc[h] \in {"check", "backOff", "read", "close", "closed"} => tH[h] = tH0[h] + 1

\* What the owner's locals say of the slot.
OwnerWindow ==
    /\ opc \in {"getCheck", "getLock", "getLocked"} => tail = oT
    /\ opc \in {"prepare", "prepareLock", "relocate", "write", "commit"} => batch # <<>>
    /\ opc \in {"write", "commit"} => tail = oT /\ oT + Len(batch) <= size
    /\ opc = "commit" => \A j \in 1 .. Len(batch) : pool[oT + j - 1] = batch[j]
    /\ opc \in {"enter", "keepLast"} /\ reloading => tail < size
    /\ opc = "keepLast" => reloading
    /\ opc = "winnowCut" => tail = oT0 /\ oH <= oT0 + 1
    /\ opc = "winnowCheck" => tail = oH - 1
    /\ opc \in {"winnowScan", "winnowStore"} => tail = oH
    /\ opc = "winnowScan" => oH < oT0
    /\ opc = "winnowStore" => oH < oT
    /\ task_pool = Empty =>
           opc \in {"idle", "prepare", "relocate", "write", "commit", "enter", "keepLast",
                    "extract", "dispatch"}
    /\ task_pool = Empty /\ opc # "enter" => head = tail
    /\ opc \in {"extract", "dispatch", "winnowStore"} => res # None
    /\ size # 0 \/ task_pool = Locked => pool_ptr # Empty
    /\ opc = "enter" => size # 0

\* What a thief's locals say of it.
ThiefWindow ==
    \A h \in Thief :
        /\ tpc[h] \in {"bump", "check", "backOff", "read", "close", "closed"} => head = tH[h]
        /\ tpc[h] = "bump" => tH0[h] <= tH[h]
        /\ tpc[h] \in {"check", "backOff", "read"} => tH0[h] < tH[h]
        /\ tpc[h] \in {"close", "closed"} => tH0[h] + 1 < tH[h]
        /\ tpc[h] = "poison" => head = tH0[h] + 1
        /\ tpc[h] \in {"close", "closed", "poison"} => got[h] # None
        /\ tpc[h] = "close" => got[h] = pool[tH[h] - 1]

(***************************************************************************)
(* The window extends from lo, the head without what a thief that has not  *)
(* made up its mind has added, to Hi(lo).                                  *)
(***************************************************************************)
Hi(lo) ==
    IF opc \in {"getCheck", "getLock", "getLocked"} THEN oT + 1
    ELSE IF opc \in {"winnowCheck", "winnowLock", "winnowLocked", "winnowScan"} THEN oT0
    ELSE IF opc = "winnowStore" THEN oT
    ELSE IF opc \in {"resetLock", "reset"} THEN lo
    ELSE tail

\* Outside the window there are the tasks the owner has yet to commit, the one
\* it keeps, and what a thief is about to poison.
Outside(i) ==
    \/ opc = "commit" /\ i \in oT .. oT + Len(batch) - 1
    \/ opc \in {"enter", "keepLast"} /\ reloading /\ i = tail
    \/ Dead(i)

Window(lo) ==
    /\ lo <= Hi(lo) /\ Hi(lo) <= size
    /\ opc # "reset" => tail <= Hi(lo)
    /\ \A i \in 0 .. size - 1 : pool[i] # None <=> i \in lo .. Hi(lo) - 1 \/ Outside(i)
    /\ opc \in {"winnowCut"} => oH - 1 <= lo
    /\ opc = "winnowCheck" => tail <= lo
    /\ opc \in {"winnowScan", "winnowStore", "resetLock"} =>
           tail = lo /\ \A h \in Thief : tpc[h] \notin {"read", "close", "closed"}
    /\ \A h \in Thief :
           /\ tpc[h] \in {"bump", "read", "close", "closed"} => tH[h] <= Hi(lo)
           /\ tpc[h] \in {"check", "backOff"} => tH[h] <= Hi(lo) + 1

Probing == {"bump", "check", "backOff", "read", "close"}

IsLow(lo) ==
    /\ \A h \in Thief : tpc[h] \in Probing => lo = tH0[h]
    /\ \A h \in Thief : tpc[h] = "closed" => lo = tH0[h] + 1
    /\ (\A h \in Thief : tpc[h] \notin Probing \cup {"closed"}) => lo = head

Windows == \A lo \in Nat : IsLow(lo) => Window(lo)

WindowInv == LockInv /\ SlotTypes /\ TaskTypes /\ OneKind /\ OwnerWindow /\ ThiefWindow /\ Windows

\* Neither may there be two low ends of the window, nor none.
LEMMA LowExists == ASSUME LockInv, SlotTypes PROVE \E lo \in Nat : IsLow(lo)
<1>1. CASE \E h \in Thief : tpc[h] \in Probing
  <2>1. PICK h \in Thief : tpc[h] \in Probing
    BY <1>1
  <2>2. \A k \in Thief : tpc[k] \in Probing \cup {"closed"} => k = h
    BY <2>1 DEF LockInv, LockDiscipline, HoldsLock, Probing
  <2>3. IsLow(tH0[h])
    BY <2>1, <2>2 DEF IsLow, Probing
  <2> QED
    BY <2>3 DEF SlotTypes
<1>2. CASE \E h \in Thief : tpc[h] = "closed"
  <2>1. PICK h \in Thief : tpc[h] = "closed"
    BY <1>2
  <2>2. \A k \in Thief : tpc[k] \in Probing \cup {"closed"} => k = h
    BY <2>1 DEF LockInv, LockDiscipline, HoldsLock, Probing
  <2>3. IsLow(tH0[h] + 1)
    BY <2>1, <2>2 DEF IsLow, Probing
  <2> QED
    BY <2>3 DEF SlotTypes
<1>3. CASE \A h \in Thief : tpc[h] \notin Probing \cup {"closed"}
  <2>1. IsLow(head)
    BY <1>3 DEF IsLow
  <2> QED
    BY <2>1 DEF SlotTypes
<1> QED
  BY <1>1, <1>2, <1>3

\* A thief that holds the lock is the only one to have moved the head.
LEMMA HolderAlone ==
  ASSUME LockInv, NEW h \in Thief, HoldsLock(h)
  PROVE  /\ \A k \in Thief \ {h} : ~HoldsLock(k)
         /\ \A k \in Thief \ {h} :
               tpc[k] \notin {"bump", "check", "backOff", "read", "close", "closed", "poison"}
  BY DEF LockInv, LockDiscipline, HoldsLock

\* An owner that holds the lock is alone, and so is one outside the arena.
LEMMA OwnerAlone ==
  ASSUME LockInv, SlotTypes, Windows, OwnerHoldsLock \/ task_pool # Locked
  PROVE  /\ \A h \in Thief : ~HoldsLock(h)
         /\ \A h \in Thief : tpc[h] \notin Probing \cup {"closed", "poison"}
         /\ \A i : ~Dead(i)
         /\ IsLow(head) /\ Window(head)
<1>1. \A h \in Thief : ~HoldsLock(h)
  BY DEF LockInv, LockDiscipline
<1>2. \A h \in Thief : tpc[h] \notin Probing \cup {"closed", "poison"}
  BY <1>1 DEF HoldsLock, Probing
<1>3. \A i : ~Dead(i)
  BY <1>2 DEF Dead
<1>4. IsLow(head)
  BY <1>2 DEF IsLow
<1>5. Window(head)
  BY <1>4 DEF Windows, SlotTypes
<1> QED
  BY <1>1, <1>2, <1>3, <1>4, <1>5

\* The slot starts without an array, and nobody is at work on it.
LEMMA InitWindow == ASSUME Separate, Init PROVE WindowInv
<1>1. LockInv
  BY InitLockInv
<1>2. SlotTypes /\ TaskTypes
  <2>1. affine \subseteq Task /\ low \subseteq Task
    BY ProgramTypes DEF Init
  <2>2. pool \in [0 .. size - 1 -> Entry]
    BY DEF Init
  <2>3. batch \in Seq(Task)
    BY DEF Init
  <2>4. IsFiniteSet(offloaded) /\ mail \in Seq(affine)
    BY FS_EmptySet DEF Init
  <2>5. /\ tag = [t \in Task |-> "plain"] /\ tH = [h \in Thief |-> 0]
        /\ tH0 = [h \in Thief |-> 0] /\ got = [h \in Thief |-> None]
    BY DEF Init
  <2>6. /\ size \in Nat /\ head \in Nat /\ tail \in Int /\ oT \in Int /\ oH \in Int
        /\ oT0 \in Int /\ reloading = FALSE /\ res \in Entry /\ top = 1
        /\ offloaded \subseteq Task /\ unspawned \subseteq Task
    BY DEF Init, Entry
  <2> QED
    BY <2>1, <2>2, <2>3, <2>4, <2>5, <2>6 DEF SlotTypes, TaskTypes, Entry
<1>3. OneKind
  BY DEF Init, Separate, OneKind, WinnowPC
<1>4. OwnerWindow
  BY DEF Init, OwnerWindow, Empty, Locked
<1>5. ThiefWindow
  BY DEF Init, ThiefWindow
<1>6. Windows
  BY DEF Init, Windows, IsLow, Window, Hi, Outside, Dead, Probing
<1> QED
  BY <1>1, <1>2, <1>3, <1>4, <1>5, <1>6 DEF WindowInv

(***************************************************************************)
(* Steps of the owner.                                                     *)
(***************************************************************************)
\* What a step of the owner need not touch.
LEMMA QuietTypes ==
  ASSUME SlotTypes, UNCHANGED <<size, pool, head, tail, oT, oH, oT0, batch, res, tH, tH0, got>>
  PROVE  SlotTypes'
  BY DEF SlotTypes

LEMMA QuietTasks ==
  ASSUME TaskTypes, UNCHANGED <<tag, mail, top, offloaded, unspawned, affine, low, reloading>>
  PROVE  TaskTypes'
  BY DEF TaskTypes

LEMMA QuietKind ==
  ASSUME OneKind, UNCHANGED <<affine, low, tag, top, offloaded, tpc, tH, tH0>>,
         opc \in WinnowPC \/ opc' \notin WinnowPC,
         opc' = "extract" => opc = "extract" /\ res' = res
  PROVE  OneKind'
  BY DEF OneKind

LEMMA QuietThieves ==
  ASSUME ThiefWindow, UNCHANGED <<head, pool, tpc, tH, tH0, got>>
  PROVE  ThiefWindow'
  BY DEF ThiefWindow

\* Neither the thieves nor the window have moved.
LEMMA QuietWindows ==
  ASSUME SlotTypes, Windows, UNCHANGED <<head, size, pool, tpc, tH, tH0>>,
         \A lo \in Nat : Hi(lo)' = Hi(lo),
         \A i \in 0 .. size - 1 : Outside(i)' <=> Outside(i),
         opc' \notin {"winnowCut", "winnowCheck", "winnowScan", "winnowStore", "resetLock"},
         opc' = "reset" \/ (opc # "reset" /\ tail' <= tail /\ tail' \in Int)
  PROVE  Windows'
<1> SUFFICES ASSUME NEW lo \in Nat, IsLow(lo)' PROVE Window(lo)'
  BY DEF Windows
<1>1. Window(lo)
  BY DEF Windows, IsLow
<1>2. Hi(lo) \in Int
  BY DEF Hi, SlotTypes
<1>3. opc' # "reset" => tail' <= Hi(lo)'
  BY <1>1, <1>2 DEF Window, SlotTypes
<1> QED
  BY <1>1, <1>3 DEF Window

LEMMA SpawnWindow == ASSUME WindowInv, Spawn PROVE WindowInv'
<1> USE DEF WindowInv, slot, prox, prio, owner, thief, hist, program
<1>1. LockInv'
  BY OwnerLockInv DEF OwnerStep
<1>2. PICK b \in Lists(unspawned) :
         /\ batch' = b /\ unspawned' = unspawned \ Members(b)
         /\ tag' = [t \in Task |-> IF t \in affine \cap Members(b) THEN "both" ELSE tag[t]]
         /\ \E order \in Ascending({i \in DOMAIN b : b[i] \in affine}) :
                mail' = mail \o [i \in DOMAIN order |-> b[order[i]]]
  BY DEF Spawn
<1>3. PICK n \in Nat : b \in [1 .. n -> Task]
  <2>1. PICK n \in 1 .. MaxBatch : b \in [1 .. n -> unspawned]
    BY <1>2 DEF Lists
  <2>2. n \in Nat /\ unspawned \subseteq Task
    BY SizesPositive DEF TaskTypes
  <2> QED
    BY <2>1, <2>2
<1>4. SlotTypes' /\ TaskTypes'
  <2>1. b \in Seq(Task)
    BY <1>3, IsASeq
  <2>2. mail' \in Seq(affine)
    <3> DEFINE S == {i \in DOMAIN b : b[i] \in affine}
    <3>1. PICK order \in Ascending(S) : mail' = mail \o [i \in DOMAIN order |-> b[order[i]]]
      BY <1>2
    <3>2. IsFiniteSet(S)
      BY <1>3, FS_Interval, FS_Subset
    <3>3. Cardinality(S) \in Nat
      BY <3>2, FS_CardinalityType
    <3>4. order \in [1 .. Cardinality(S) -> S]
      BY <3>1 DEF Ascending, Orders
    <3>5. [i \in DOMAIN order |-> b[order[i]]] \in [1 .. Cardinality(S) -> affine]
      BY <3>4
    <3>6. [1 .. Cardinality(S) -> affine] \subseteq Seq(affine)
      BY <3>3, SeqDef
    <3> QED
      BY <3>1, <3>5, <3>6, ConcatProperties DEF TaskTypes
  <2>3. TaskTypes'
    BY <1>2, <2>2 DEF Spawn, TaskTypes
  <2> QED
    BY <1>2, <2>1, <2>3 DEF Spawn, SlotTypes
<1>5. OneKind'
  BY DEF Spawn, OneKind, WinnowPC
<1>6. OwnerWindow'
  <2>1. batch' # <<>>
    BY DEF Spawn, Lists
  <2> QED
    BY <2>1 DEF Spawn, OwnerWindow
<1>7. ThiefWindow'
  BY QuietThieves DEF Spawn
<1>8. Windows'
  BY QuietWindows DEF Spawn, Hi, Outside, Dead, SlotTypes
<1> QED
  BY <1>1, <1>4, <1>5, <1>6, <1>7, <1>8

\* Steps of the owner that move no thief leave the low end of the window where
\* it is.
LEMMA SameLow ==
  ASSUME Windows, UNCHANGED <<head, tpc, tH0>>, NEW lo \in Nat, IsLow(lo)'
  PROVE  Window(lo) /\ IsLow(lo)
  BY DEF Windows, IsLow

LEMMA PrepareWindow == ASSUME WindowInv, Prepare PROVE WindowInv'
<1> USE DEF WindowInv, slot, prox, prio, owner, thief, hist, program
<1>1. LockInv'
  BY OwnerLockInv DEF OwnerStep
<1>2. SlotTypes' /\ TaskTypes'
  BY QuietTasks DEF Prepare, SlotTypes
<1>3. OneKind'
  BY QuietKind DEF Prepare, WinnowPC
<1>4. OwnerWindow'
  BY DEF Prepare, OwnerWindow, InArena
<1>5. ThiefWindow'
  BY QuietThieves DEF Prepare
<1>6. Windows'
  BY QuietWindows DEF Prepare, Hi, Outside, Dead, SlotTypes
<1> QED
  BY <1>1, <1>2, <1>3, <1>4, <1>5, <1>6

\* Whole lines hold at least what they are to hold.
LEMMA LinesSuffice ==
  ASSUME NEW n \in Nat
  PROVE  WholeLines(n) \in Nat /\ WholeLines(n) >= n
<1> DEFINE q == (n + Line - 1) \div Line
<1>1. Line \in Nat /\ Line > 0
  BY SizesPositive
<1>2. n + Line - 1 \in Nat
  BY <1>1
<1>3. q \in Nat /\ q * Line <= n + Line - 1 /\ n + Line - 1 < (q + 1) * Line
  BY <1>1, <1>2
<1>4. (q + 1) * Line = q * Line + Line
  BY <1>1, <1>3
<1>5. q * Line \in Nat
  BY <1>1, <1>3
<1> QED
  BY <1>1, <1>3, <1>4, <1>5 DEF WholeLines

LEMMA RelocateWindow == ASSUME WindowInv, Relocate PROVE WindowInv'
<1> USE DEF WindowInv, slot, prox, prio, owner, thief, hist, program
<1>1. LockInv'
  BY OwnerLockInv DEF OwnerStep
<1>2. /\ \A h \in Thief : tpc[h] \notin Probing \cup {"closed", "poison"}
      /\ \A i : ~Dead(i)
      /\ Window(head)
  BY OwnerAlone DEF Relocate, OwnerHoldsLock, InArena, Locked, Empty
<1>3. head <= tail /\ tail <= size
  BY <1>2 DEF Window, Hi, Relocate
<1>4. PICK live \in Nat : live = tail - head
  BY <1>3 DEF SlotTypes
<1>5. PICK need \in Nat : need = live + Len(batch)
  <2>1. Len(batch) \in Nat
    BY LenProperties DEF SlotTypes
  <2>2. live + Len(batch) \in Nat
    BY <2>1
  <2> QED
    BY <2>2
<1>6. size' \in Nat /\ need <= size'
  <2>1. CASE size # 0 /\ need <= size - MinSize \div 4
    <3>1. MinSize \div 4 \in Nat
      BY SizesPositive
    <3> QED
      BY <2>1, <3>1, <1>4, <1>5 DEF Relocate, SlotTypes
  <2>2. CASE ~(size # 0 /\ need <= size - MinSize \div 4)
    <3>1. size' = WholeLines(IF size = 0 THEN Larger(need, MinSize) ELSE Larger(need, 2 * size))
      BY <2>2, <1>4, <1>5 DEF Relocate
    <3>2. PICK n \in Nat : size' = WholeLines(n) /\ need <= n
      BY <3>1, SizesPositive DEF Larger, SlotTypes
    <3> QED
      BY <3>2, LinesSuffice
  <2> QED
    BY <2>1, <2>2
<1>7. /\ head' = 0 /\ tail' = live /\ oT' = live
      /\ opc = "relocate" /\ opc' = "write"
      /\ UNCHANGED <<tpc, tH, tH0, got, batch, oH, oT0, res>>
  BY <1>4 DEF Relocate
<1>8. UNCHANGED <<tag, mail, top, offloaded, unspawned, affine, low, reloading>>
  BY DEF Relocate
<1>9. /\ pool' = [i \in 0 .. size' - 1 |-> IF i < live THEN pool[head + i] ELSE None]
      /\ \A i \in 0 .. size' - 1 : i < live => head + i \in 0 .. size - 1
  BY <1>3, <1>4, <1>6 DEF Relocate, SlotTypes
<1>10. SlotTypes'
  <2>1. pool' \in [0 .. size' - 1 -> Entry]
    BY <1>9 DEF SlotTypes, Entry
  <2> QED
    <3>1. size' \in Nat /\ pool' \in [0 .. size' - 1 -> Entry]
      BY <2>1, <1>6
    <3>2. head' \in Nat /\ tail' \in Int
      BY <1>7
    <3>3. oT' \in Int
      BY <1>7
    <3>4. oH' \in Int /\ oT0' \in Int /\ batch' \in Seq(Task) /\ res' \in Entry
      BY <1>7 DEF SlotTypes
    <3>5. tH' \in [Thief -> Nat] /\ tH0' \in [Thief -> Nat] /\ got' \in [Thief -> Entry]
      BY <1>7 DEF SlotTypes
    <3> QED
    BY <3>1, <3>2, <3>3, <3>4, <3>5 DEF SlotTypes
<1>11. TaskTypes'
  BY <1>8, QuietTasks
<1>12. OneKind'
  BY <1>7, <1>8, QuietKind DEF WinnowPC
<1>13. OwnerWindow'
  <2>1. batch # <<>>
    BY <1>7 DEF OwnerWindow
  <2>2. live + Len(batch) <= size'
    BY <1>5, <1>6
  <2>3. /\ pool_ptr' # Empty
        /\ task_pool' = Empty => task_pool = Empty
    BY <1>4, <1>5 DEF Relocate, OwnerWindow, LockInv, LockTypes, LockDiscipline, InArena, Empty
  <2>4. task_pool' = Empty => head' = tail'
    BY <2>3, <1>4, <1>7 DEF OwnerWindow, SlotTypes
  <2>5. tail' = oT' /\ oT' + Len(batch') <= size'
    BY <2>2, <1>7
  <2> QED
    BY <2>1, <2>3, <2>4, <2>5, <1>7 DEF OwnerWindow
<1>14. ThiefWindow'
  BY <1>2, <1>7 DEF ThiefWindow, Probing
<1>15. Windows'
  <2> SUFFICES ASSUME NEW lo \in Nat, IsLow(lo)' PROVE Window(lo)'
    BY DEF Windows
  <2>1. lo = 0
    BY <1>2, <1>7 DEF IsLow
  <2>2. Hi(lo)' = live
    BY <1>7 DEF Hi
  <2>3. \A i : ~Outside(i)'
    BY <1>2, <1>7 DEF Outside, Dead
  <2>4. \A i \in head .. tail - 1 : pool[i] # None
    BY <1>2, <1>3, <1>7 DEF Window, Hi, SlotTypes
  <2>5. \A i \in 0 .. size' - 1 : pool'[i] # None <=> i \in 0 .. live - 1
    BY <1>3, <1>4, <1>6, <1>9, <2>4 DEF SlotTypes
  <2>6. live <= size'
    BY <1>4, <1>5, <1>6, LenProperties DEF SlotTypes
  <2>7. lo <= Hi(lo)' /\ Hi(lo)' <= size' /\ tail' <= Hi(lo)'
    BY <1>7, <2>1, <2>2, <2>6
  <2>8. \A i \in 0 .. size' - 1 : pool'[i] # None <=> i \in lo .. Hi(lo)' - 1 \/ Outside(i)'
    BY <2>1, <2>2, <2>3, <2>5
  <2> QED
    BY <1>2, <1>7, <2>7, <2>8 DEF Window, Probing
<1> QED
  BY <1>1, <1>10, <1>11, <1>12, <1>13, <1>14, <1>15

LEMMA WriteWindow == ASSUME WindowInv, Write PROVE WindowInv'
<1> USE DEF WindowInv, slot, prox, prio, owner, thief, hist, program
<1>1. LockInv'
  BY OwnerLockInv DEF OwnerStep
<1>2. /\ pool' = [i \in DOMAIN pool |->
                    IF i - oT \in 0 .. Len(batch) - 1 THEN batch[i - oT + 1] ELSE pool[i]]
      /\ opc = "write" /\ opc' = "commit" /\ tail = oT /\ oT + Len(batch) <= size
      /\ UNCHANGED <<size, head, tail, oT, oH, oT0, batch, res, tpc, tH, tH0, got>>
  BY DEF Write, OwnerWindow
<1>3. Len(batch) \in Nat /\ \A j \in 1 .. Len(batch) : batch[j] \in Task
  BY LenProperties, ElementOfSeq DEF SlotTypes
<1>4. PICK lo \in Nat : IsLow(lo)
  BY LowExists
<1>5. Window(lo) /\ Hi(lo) = oT /\ lo <= oT
  BY <1>2, <1>4 DEF Windows, Window, Hi
<1>6. \A i \in 0 .. size - 1 :
         pool'[i] = IF i \in oT .. oT + Len(batch) - 1 THEN batch[i - oT + 1] ELSE pool[i]
  BY <1>2, <1>3 DEF SlotTypes
<1>7. SlotTypes'
  <2>1. pool' \in [0 .. size - 1 -> Entry]
    BY <1>2, <1>3 DEF SlotTypes, Entry
  <2> QED
    BY <2>1, <1>2 DEF SlotTypes
<1>8. TaskTypes'
  BY QuietTasks DEF Write
<1>9. OneKind'
  BY QuietKind DEF Write, WinnowPC
<1>10. OwnerWindow'
  <2>1. \A j \in 1 .. Len(batch) : pool'[oT + j - 1] = batch[j]
    BY <1>2, <1>3, <1>5, <1>6 DEF SlotTypes
  <2> QED
    BY <2>1, <1>2 DEF Write, OwnerWindow
<1>11. ThiefWindow'
  <2>1. ASSUME NEW h \in Thief, tpc[h] = "close" PROVE pool'[tH[h] - 1] = pool[tH[h] - 1]
    <3>1. lo = tH0[h]
      BY <2>1, <1>4 DEF IsLow, Probing
    <3>2. tH[h] <= oT /\ oT <= size
      BY <2>1, <1>5 DEF Window
    <3>3. tH[h] \in Int /\ tH0[h] \in Nat /\ size \in Nat /\ oT \in Int
      BY <1>5 DEF SlotTypes
    <3>4. tH0[h] + 1 < tH[h]
      BY <2>1 DEF ThiefWindow
    <3>5. tH[h] - 1 \in 0 .. size - 1 /\ tH[h] - 1 \notin oT .. oT + Len(batch) - 1
      BY <3>2, <3>3, <3>4, <1>3
    <3> QED
      BY <3>5, <1>6
  <2> QED
    BY <2>1, <1>2 DEF ThiefWindow
<1>12. Windows'
  <2> SUFFICES ASSUME NEW l \in Nat, IsLow(l)' PROVE Window(l)'
    BY DEF Windows
  <2>1. Window(l)
    BY SameLow, <1>2
  <2>2. Hi(l) = oT /\ Hi(l)' = oT
    BY <1>2 DEF Hi
  <2>3. \A i : Outside(i)' <=> i \in oT .. oT + Len(batch) - 1 \/ Outside(i)
    BY <1>2 DEF Outside, Dead
  <2>4. ASSUME NEW i \in 0 .. size - 1
        PROVE  pool'[i] # None <=> i \in l .. oT - 1 \/ Outside(i)'
    <3>1. CASE i \in oT .. oT + Len(batch) - 1
      <4>1. pool'[i] = batch[i - oT + 1] /\ i - oT + 1 \in 1 .. Len(batch)
        BY <3>1, <1>3, <1>6 DEF SlotTypes
      <4> QED
        BY <4>1, <3>1, <1>3, <2>3, NoneIsNoTask
    <3>2. CASE i \notin oT .. oT + Len(batch) - 1
      BY <3>2, <1>6, <2>1, <2>2, <2>3 DEF Window
    <3> QED
      BY <3>1, <3>2
  <2> QED
    BY <1>2, <2>1, <2>2, <2>4 DEF Window
<1> QED
  BY <1>1, <1>7, <1>8, <1>9, <1>10, <1>11, <1>12

LEMMA CommitWindow == ASSUME WindowInv, Commit PROVE WindowInv'
<1> USE DEF WindowInv, slot, prox, prio, owner, thief, hist, program
<1>1. LockInv'
  BY OwnerLockInv DEF OwnerStep
<1>2. PICK len \in Nat : len = Len(batch) /\ len > 0
  <2>1. Len(batch) \in Nat /\ Len(batch) > 0
    BY EmptySeq, LenProperties DEF Commit, SlotTypes, OwnerWindow
  <2> QED
    BY <2>1
<1>3. PICK n \in Nat : n = IF reloading THEN len - 1 ELSE len
  <2>1. (IF reloading THEN len - 1 ELSE len) \in Nat
    BY <1>2
  <2> QED
    BY <2>1
<1>4. /\ opc = "commit" /\ tail = oT /\ oT + len <= size
      /\ tail' = oT + n /\ batch' = <<>>
      /\ opc' = IF n > 0 /\ ~InArena THEN "enter" ELSE IF reloading THEN "keepLast" ELSE "idle"
      /\ UNCHANGED <<task_pool, pool_ptr, size, pool, head, oT, oH, oT0, res, reloading,
                     tpc, tH, tH0, got>>
  BY <1>2, <1>3 DEF Commit, OwnerWindow
<1>5. PICK lo \in Nat : IsLow(lo)
  BY LowExists
<1>6. lo <= oT
  BY <1>4, <1>5 DEF Windows, Window, Hi
<1>7. SlotTypes' /\ TaskTypes'
  <2>1. batch' \in Seq(Task)
    BY <1>4
  <2> QED
    BY <2>1, <1>4, QuietTasks DEF Commit, SlotTypes
<1>8. OneKind'
  BY <1>4, QuietKind DEF Commit, WinnowPC
<1>9. OwnerWindow'
  <2>1. opc' = "enter" => size' # 0
    BY <1>2, <1>3, <1>4, <1>5, <1>6 DEF SlotTypes
  <2>2. reloading' => tail' < size'
    BY <1>2, <1>3, <1>4 DEF SlotTypes
  <2>3. task_pool' = Empty /\ opc' # "enter" => head' = tail'
    BY <1>4, <1>3 DEF OwnerWindow, InArena, SlotTypes
  <2>4. size' # 0 \/ task_pool' = Locked => pool_ptr' # Empty
    BY <1>4 DEF OwnerWindow
  <2> QED
    BY <2>1, <2>2, <2>3, <2>4, <1>4 DEF OwnerWindow
<1>10. ThiefWindow'
  BY <1>4, QuietThieves
<1>11. Windows'
  <2> SUFFICES ASSUME NEW l \in Nat, IsLow(l)' PROVE Window(l)'
    BY DEF Windows
  <2>1. Window(l)
    BY SameLow, <1>4
  <2>2. Hi(l) = oT /\ Hi(l)' = oT + n
    BY <1>4 DEF Hi
  <2>3. \A i : Outside(i) <=> i \in oT .. oT + len - 1 \/ Dead(i)
    BY <1>2, <1>4 DEF Outside
  <2>4. \A i : Outside(i)' <=> (reloading /\ i = oT + n) \/ Dead(i)
    BY <1>2, <1>3, <1>4 DEF Outside, Dead
  <2>5. \A i \in 0 .. size - 1 : pool[i] # None <=> i \in l .. oT + n - 1 \/ Outside(i)'
    BY <1>2, <1>3, <1>4, <2>1, <2>2, <2>3, <2>4 DEF Window, SlotTypes
  <2>6. l <= oT /\ oT <= oT + n /\ oT + n <= size
    BY <1>2, <1>3, <1>4, <2>1, <2>2 DEF Window, SlotTypes
  <2>7. \A h \in Thief : /\ tpc[h] \in {"bump", "read", "close", "closed"} => tH[h] <= oT + n
                         /\ tpc[h] \in {"check", "backOff"} => tH[h] <= oT + n + 1
    BY <1>3, <2>1, <2>2, <2>6 DEF Window, SlotTypes
  <2>8. /\ opc' \in {"enter", "keepLast", "idle"} /\ tail' = oT + n
        /\ UNCHANGED <<size, pool, tpc, tH>>
    BY <1>4
  <2>9. l <= Hi(l)' /\ Hi(l)' <= size' /\ tail' <= Hi(l)'
    BY <2>2, <2>6, <2>8 DEF SlotTypes
  <2> QED
    BY <2>2, <2>5, <2>7, <2>8, <2>9 DEF Window, SlotTypes
<1> QED
  BY <1>1, <1>7, <1>8, <1>9, <1>10, <1>11

LEMMA EnterArenaWindow == ASSUME WindowInv, EnterArena PROVE WindowInv'
<1> USE DEF WindowInv, slot, prox, prio, owner, thief, hist, program
<1>1. LockInv'
  BY OwnerLockInv DEF OwnerStep
<1>2. SlotTypes' /\ TaskTypes'
  BY QuietTypes, QuietTasks DEF EnterArena
<1>3. OneKind'
  BY QuietKind DEF EnterArena, WinnowPC
<1>4. OwnerWindow'
  BY DEF EnterArena, OwnerWindow
<1>5. ThiefWindow'
  BY QuietThieves DEF EnterArena
<1>6. Windows'
  BY QuietWindows DEF EnterArena, Hi, Outside, Dead, SlotTypes
<1> QED
  BY <1>1, <1>2, <1>3, <1>4, <1>5, <1>6

LEMMA AcquireWindow == ASSUME WindowInv, Acquire PROVE WindowInv'
<1> USE DEF WindowInv, slot, prox, prio, owner, thief, hist, program
<1>1. LockInv'
  BY OwnerLockInv DEF OwnerStep
<1>2. /\ opc \in {"prepareLock", "getLock", "winnowLock", "resetLock"}
      /\ task_pool = pool_ptr /\ task_pool' = Locked
      /\ opc = "prepareLock" => opc' = "relocate"
      /\ opc = "getLock" => opc' = "getLocked"
      /\ opc = "winnowLock" => opc' = "winnowLocked"
      /\ opc = "resetLock" => opc' = "reset"
      /\ UNCHANGED <<pool_ptr, size, pool, head, tail, prox, prio,
                     oT, oH, oT0, batch, reloading, res, thief, hist>>
  BY DEF Acquire, OwnerMayLock
<1>3. SlotTypes' /\ TaskTypes'
  BY <1>2, QuietTypes, QuietTasks
<1>4. OneKind'
  BY <1>2, QuietKind DEF WinnowPC
<1>5. OwnerWindow'
  <2>1. pool_ptr # Empty
    BY <1>2 DEF OwnerWindow
  <2> QED
    BY <1>2, <2>1 DEF OwnerWindow, Empty, Locked
<1>6. ThiefWindow'
  BY <1>2, QuietThieves
<1>7. Windows'
  BY <1>2, QuietWindows DEF Hi, Outside, Dead, SlotTypes
<1> QED
  BY <1>1, <1>3, <1>4, <1>5, <1>6, <1>7

LEMMA GetTaskWindow == ASSUME WindowInv, GetTask PROVE WindowInv'
<1> USE DEF WindowInv, slot, prox, prio, owner, thief, hist, program
<1>1. LockInv'
  BY OwnerLockInv DEF OwnerStep
<1>2. SlotTypes' /\ TaskTypes'
  BY QuietTasks DEF GetTask, SlotTypes
<1>3. OneKind'
  BY QuietKind DEF GetTask, WinnowPC
<1>4. OwnerWindow'
  BY DEF GetTask, OwnerWindow, InArena
<1>5. ThiefWindow'
  BY QuietThieves DEF GetTask
<1>6. Windows'
  BY QuietWindows DEF GetTask, Hi, Outside, Dead, SlotTypes
<1> QED
  BY <1>1, <1>2, <1>3, <1>4, <1>5, <1>6

\* A thief that has moved the head has moved it beyond the low end.
LEMMA LowBelowHead ==
  ASSUME LockInv, SlotTypes, ThiefWindow, NEW lo \in Nat, IsLow(lo)
  PROVE  /\ lo <= head
         /\ \A i : Dead(i) => i < head /\ i < lo /\ i \in Nat
<1>1. lo <= head
  <2>1. CASE \E h \in Thief : tpc[h] \in Probing \cup {"closed"}
    <3>1. PICK h \in Thief : tpc[h] \in Probing \cup {"closed"}
      BY <2>1
    <3>2. tH[h] \in Nat /\ tH0[h] \in Nat /\ head = tH[h] /\ tH0[h] <= tH[h]
      BY <3>1 DEF SlotTypes, ThiefWindow, Probing
    <3>3. lo = tH0[h] \/ (lo = tH0[h] + 1 /\ tH0[h] + 1 < tH[h])
      BY <3>1 DEF IsLow, ThiefWindow, Probing
    <3> QED
      BY <3>2, <3>3
  <2>2. CASE \A h \in Thief : tpc[h] \notin Probing \cup {"closed"}
    BY <2>2 DEF IsLow, SlotTypes
  <2> QED
    BY <2>1, <2>2
<1>2. ASSUME NEW i, Dead(i) PROVE i < head /\ i < lo /\ i \in Nat
  <2>1. PICK h \in Thief : tpc[h] \in {"closed", "poison"} /\ tH0[h] = i
    BY <1>2 DEF Dead
  <2>2. i \in Nat
    BY <2>1 DEF SlotTypes
  <2>3. CASE tpc[h] = "closed"
    <3>1. lo = tH0[h] + 1
      BY <2>3 DEF IsLow
    <3> QED
      BY <2>1, <2>2, <3>1, <1>1 DEF SlotTypes
  <2>4. CASE tpc[h] = "poison"
    <3>1. head = tH0[h] + 1
      BY <2>4 DEF ThiefWindow
    <3>2. \A k \in Thief : tpc[k] \notin Probing \cup {"closed"}
      BY <2>4, HolderAlone DEF HoldsLock, Probing
    <3>3. lo = head
      BY <3>2 DEF IsLow
    <3> QED
      BY <2>1, <2>2, <3>1, <3>3
  <2> QED
    BY <2>1, <2>3, <2>4
<1> QED
  BY <1>1, <1>2

\* What is taken out of the pool goes on by what it is.
LEMMA AfterTaken ==
  ASSUME NEW e \in Entry, TaskTypes
  PROVE  /\ After(e) \in {"idle", "extract", "dispatch"}
         /\ After(e) # "idle" => e # None
         /\ After(e) = "extract" => tag[e] # "plain"
  BY DEF After, IsProxy, TaskTypes, Entry

LEMMA GetCheckWindow == ASSUME WindowInv, GetCheck PROVE WindowInv'
<1> USE DEF WindowInv, slot, prox, prio, owner, thief, hist, program
<1>1. LockInv'
  BY OwnerLockInv DEF OwnerStep
<1>2. CASE Contended
  <2>1. /\ opc = "getCheck" /\ opc' = "getLock"
        /\ UNCHANGED <<task_pool, pool_ptr, size, pool, head, tail, prox, prio,
                       oT, oH, oT0, batch, reloading, res, thief, hist>>
    BY <1>2 DEF GetCheck
  <2>2. SlotTypes' /\ TaskTypes'
    BY <2>1, QuietTypes, QuietTasks
  <2>3. OneKind'
    BY <2>1, QuietKind DEF WinnowPC
  <2>4. OwnerWindow'
    BY <2>1 DEF OwnerWindow
  <2>5. ThiefWindow'
    BY <2>1, QuietThieves
  <2>6. Windows'
    BY <2>1, QuietWindows DEF Hi, Outside, Dead, SlotTypes
  <2> QED
    BY <1>1, <2>2, <2>3, <2>4, <2>5, <2>6
<1>3. CASE ~Contended
  <2>1. /\ opc = "getCheck" /\ opc' = After(pool[oT])
        /\ res' = pool[oT] /\ head <= oT /\ tail = oT
        /\ UNCHANGED <<task_pool, pool_ptr, size, head, tail, oT, oH, oT0, batch,
                       tpc, tH, tH0, got>>
    BY <1>3 DEF GetCheck, Contended, OwnerWindow, SlotTypes
  <2>2. UNCHANGED <<tag, mail, top, offloaded, unspawned, affine, low, reloading>>
    BY DEF GetCheck
  <2>3. PICK lo \in Nat : IsLow(lo)
    BY LowExists
  <2>4. Window(lo) /\ Hi(lo) = oT + 1 /\ lo <= head
    BY <2>1, <2>3, LowBelowHead DEF Windows, Hi
  <2>5. oT \in 0 .. size - 1 /\ pool[oT] # None /\ pool[oT] \in Entry
    BY <2>1, <2>4 DEF Window, SlotTypes
  <2>6. /\ pool' \in [0 .. size - 1 -> Entry]
        /\ \A i \in 0 .. size - 1 : pool'[i] = IF i = oT THEN None ELSE pool[i]
    BY <1>3 DEF GetCheck, SlotTypes, Entry
  <2>7. opc' \in {"extract", "dispatch"} /\ (opc' = "extract" => tag[res'] # "plain")
    BY <2>1, <2>5 DEF After, IsProxy, TaskTypes, Entry
  <2>8. SlotTypes' /\ TaskTypes'
    BY <2>1, <2>2, <2>5, <2>6, QuietTasks DEF SlotTypes
  <2>9. OneKind'
    BY <2>1, <2>2, <2>7 DEF OneKind, WinnowPC
  <2>10. OwnerWindow'
    BY <2>1, <2>5, <2>7 DEF OwnerWindow
  <2>11. ThiefWindow'
    <3>1. ASSUME NEW h \in Thief, tpc[h] = "close" PROVE pool'[tH[h] - 1] = pool[tH[h] - 1]
      <4>1. tH[h] \in Nat /\ tH0[h] \in Nat /\ tH[h] - 1 # oT /\ tH[h] - 1 \in 0 .. size - 1
        BY <3>1, <2>1, <2>5 DEF ThiefWindow, SlotTypes
      <4> QED
        BY <4>1, <2>6
    <3> QED
      BY <3>1, <2>1 DEF ThiefWindow
  <2>12. Windows'
    <3> SUFFICES ASSUME NEW l \in Nat, IsLow(l)' PROVE Window(l)'
      BY DEF Windows
    <3>1. Window(l) /\ Hi(l) = oT + 1 /\ l <= head /\ ~Dead(oT)
      BY <2>1, SameLow, LowBelowHead DEF Hi, SlotTypes
    <3>2. Hi(l)' = oT
      BY <2>1, <2>7 DEF Hi
    <3>3. \A i : Outside(i) <=> Dead(i)
      BY <2>1 DEF Outside
    <3>4. \A i : Outside(i)' <=> Dead(i)
      BY <2>1, <2>7 DEF Outside, Dead
    <3>5. \A i \in 0 .. size - 1 : pool'[i] # None <=> i \in l .. oT - 1 \/ Dead(i)
      BY <2>6, <3>1, <3>3 DEF Window, SlotTypes
    <3>6. l <= oT /\ oT <= size
      BY <2>1, <2>5, <3>1 DEF SlotTypes
    <3>7. \A h \in Thief : tpc[h] \in {"bump", "check", "backOff", "read", "close", "closed"}
                               => tH[h] <= oT /\ tH[h] <= oT + 1
      BY <2>1 DEF ThiefWindow, SlotTypes
    <3> QED
      BY <2>1, <2>7, <3>2, <3>4, <3>5, <3>6, <3>7 DEF Window, SlotTypes
  <2> QED
    BY <1>1, <2>8, <2>9, <2>10, <2>11, <2>12
<1> QED
  BY <1>2, <1>3

LEMMA GetLockedWindow == ASSUME WindowInv, GetLocked PROVE WindowInv'
<1> USE DEF WindowInv, slot, prox, prio, owner, thief, hist, program
<1>1. LockInv'
  BY OwnerLockInv DEF OwnerStep
<1>2. /\ \A h \in Thief : tpc[h] \notin Probing \cup {"closed", "poison"}
      /\ \A i : ~Dead(i)
      /\ Window(head)
  BY OwnerAlone DEF GetLocked, OwnerHoldsLock
<1>3. /\ opc = "getLocked" /\ tail = oT
      /\ UNCHANGED <<pool_ptr, size, oT, oH, oT0, batch, tpc, tH, tH0, got>>
      /\ UNCHANGED <<tag, mail, top, offloaded, unspawned, affine, low, reloading>>
  BY DEF GetLocked, OwnerWindow
<1>4. head <= oT + 1 /\ oT + 1 <= size /\ oT \in Int /\ head \in Nat
  BY <1>2, <1>3 DEF Window, Hi, SlotTypes
<1>5. PICK e \in Entry :
         /\ res' = e /\ opc' = After(e)
         /\ pool' \in [0 .. size - 1 -> Entry]
         /\ \A i \in 0 .. size - 1 : pool'[i] = IF i = oT THEN None ELSE pool[i]
  <2>1. CASE head > oT
    <3>1. res' = None /\ pool' = pool /\ opc' = After(None)
      BY <2>1 DEF GetLocked, Contended
    <3>2. pool[oT] = None \/ oT \notin 0 .. size - 1
      BY <2>1, <1>2, <1>3, <1>4 DEF Window, Hi, Outside
    <3> QED
      BY <3>1, <3>2 DEF SlotTypes, Entry
  <2>2. CASE ~(head > oT)
    <3>1. res' = pool[oT] /\ pool' = [pool EXCEPT ![oT] = None] /\ opc' = After(pool[oT])
      BY <2>2 DEF GetLocked, Contended
    <3>2. oT \in 0 .. size - 1 /\ pool[oT] \in Entry
      BY <2>2, <1>4 DEF SlotTypes
    <3> QED
      BY <3>1, <3>2 DEF SlotTypes, Entry
  <2> QED
    BY <2>1, <2>2
<1>6. /\ opc' \in {"idle", "extract", "dispatch"}
      /\ opc' # "idle" => res' # None
      /\ opc' = "extract" => tag[res'] # "plain"
  BY <1>5, AfterTaken
<1>7. \/ head < oT /\ task_pool' = pool_ptr /\ head' = head /\ tail' = tail
      \/ oT <= head /\ task_pool' = Empty /\ head' = 0 /\ tail' = 0
  BY <1>4 DEF GetLocked, Remains
<1>8. SlotTypes' /\ TaskTypes'
  <2>1. head' \in Nat /\ tail' \in Int
    BY <1>7 DEF SlotTypes
  <2> QED
    BY <2>1, <1>3, <1>5, QuietTasks DEF SlotTypes
<1>9. OneKind'
  BY <1>3, <1>6 DEF OneKind, WinnowPC
<1>10. OwnerWindow'
  <2>1. pool_ptr # Empty
    BY <1>3 DEF OwnerWindow, LockInv, LockDiscipline, OwnerHoldsLock
  <2>2. task_pool' = Empty => head' = tail'
    BY <2>1, <1>7
  <2> QED
    BY <2>1, <2>2, <1>3, <1>6 DEF OwnerWindow
<1>11. ThiefWindow'
  BY <1>2, <1>3 DEF ThiefWindow, Probing
<1>12. Windows'
  <2> SUFFICES ASSUME NEW lo \in Nat, IsLow(lo)' PROVE Window(lo)'
    BY DEF Windows
  <2>1. lo = head' /\ Hi(lo)' = tail' /\ \A i : ~Outside(i)'
    BY <1>2, <1>3, <1>6 DEF IsLow, Hi, Outside, Dead
  <2>2. \A i \in 0 .. size - 1 : pool[i] # None <=> i \in head .. oT
    BY <1>2, <1>3, <1>4 DEF Window, Hi, Outside
  <2>3. \A i \in 0 .. size - 1 : pool'[i] # None <=> i \in head' .. tail' - 1
    BY <2>2, <1>3, <1>4, <1>5, <1>7
  <2>4. lo <= tail' /\ tail' <= size
    BY <2>1, <1>3, <1>4, <1>7 DEF SlotTypes
  <2>5. tail' \in Int
    BY <1>8 DEF SlotTypes
  <2>6. lo <= Hi(lo)' /\ Hi(lo)' <= size' /\ tail' <= Hi(lo)'
    BY <1>3, <2>1, <2>4, <2>5
  <2>7. \A i \in 0 .. size' - 1 : pool'[i] # None <=> i \in lo .. Hi(lo)' - 1 \/ Outside(i)'
    BY <1>3, <2>1, <2>3
  <2>8. UNCHANGED tpc
    BY <1>3
  <2> QED
    BY <1>2, <1>6, <2>6, <2>7, <2>8 DEF Window, Probing
<1> QED
  BY <1>1, <1>8, <1>9, <1>10, <1>11, <1>12

LEMMA ExtractOwnWindow == ASSUME WindowInv, ExtractOwn PROVE WindowInv'
<1> USE DEF WindowInv, slot, prox, prio, owner, thief, hist, program
<1>1. LockInv'
  BY OwnerLockInv DEF OwnerStep
<1>2. /\ opc = "extract" /\ UNCHANGED <<slot, mail, oT, oH, oT0, batch, reloading, prio, thief, hist>>
      /\ \/ tag[res] = "both" /\ opc' = "dispatch" /\ res' = res
         \/ opc' = (IF InArena THEN "retry" ELSE "idle") /\ res' = None
  BY DEF ExtractOwn
<1>3. PICK v \in {"mailbox", "freed"} : tag' = [tag EXCEPT ![res] = v]
  BY DEF ExtractOwn
<1>4. res \in Task /\ tag[res] # "plain"
  BY <1>2 DEF OwnerWindow, OneKind, SlotTypes, Entry
<1>5. SlotTypes'
  <2>1. res' \in Entry
    BY <1>2 DEF SlotTypes, Entry
  <2> QED
    BY <2>1, <1>2 DEF SlotTypes
<1>6. TaskTypes'
  BY <1>2, <1>3, <1>4 DEF TaskTypes
<1>7. OneKind'
  <2>1. \A t \in Task : tag'[t] # "plain" => tag[t] # "plain"
    BY <1>3, <1>4 DEF TaskTypes
  <2> QED
    BY <2>1, <1>2 DEF OneKind, WinnowPC
<1>8. OwnerWindow'
  BY <1>2 DEF OwnerWindow, InArena
<1>9. ThiefWindow'
  BY <1>2, QuietThieves
<1>10. Windows'
  BY <1>2, QuietWindows DEF Hi, Outside, Dead, SlotTypes
<1> QED
  BY <1>1, <1>5, <1>6, <1>7, <1>8, <1>9, <1>10

LEMMA DispatchWindow == ASSUME WindowInv, Dispatch PROVE WindowInv'
<1> USE DEF WindowInv, slot, prox, prio, owner, thief, hist, program
<1>1. LockInv'
  BY OwnerLockInv DEF OwnerStep
<1>2. /\ opc = "dispatch" /\ res' = None
      /\ UNCHANGED <<slot, prox, oT, oH, oT0, batch, reloading, thief, unspawned, program>>
      /\ \/ /\ Priority(res) < top /\ offloaded' = offloaded \cup {res} /\ top' = top
            /\ opc' = IF InArena THEN "winnow" ELSE "idle"
         \/ ~(Priority(res) < top) /\ offloaded' = offloaded /\ top' = Priority(res) /\ opc' = "idle"
  BY DEF Dispatch
<1>3. res \in Task
  BY <1>2 DEF OwnerWindow, SlotTypes, Entry
<1>4. SlotTypes'
  <2>1. res' \in Entry
    BY <1>2 DEF Entry
  <2> QED
    BY <2>1, <1>2 DEF SlotTypes
<1>5. TaskTypes'
  <2>1. IsFiniteSet(offloaded')
    BY <1>2, FS_AddElement DEF TaskTypes
  <2>2. top' \in {0, 1} /\ offloaded' \subseteq Task
    BY <1>2, <1>3 DEF TaskTypes, Priority
  <2> QED
    BY <2>1, <2>2, <1>2 DEF TaskTypes
<1>6. OneKind'
  <2>1. low = {} => top' = 1 /\ offloaded' = {} /\ opc' \notin WinnowPC
    BY <1>2 DEF OneKind, Priority, WinnowPC
  <2>2. opc' # "extract"
    BY <1>2
  <2> QED
    BY <2>1, <2>2, <1>2 DEF OneKind
<1>7. OwnerWindow'
  BY <1>2 DEF OwnerWindow, InArena
<1>8. ThiefWindow'
  BY <1>2, QuietThieves
<1>9. Windows'
  BY <1>2, QuietWindows DEF Hi, Outside, Dead, SlotTypes
<1> QED
  BY <1>1, <1>4, <1>5, <1>6, <1>7, <1>8, <1>9

(***************************************************************************)
(* Winnowing: the programs that have priorities have no proxies, so that a *)
(* thief is at most one element ahead of the low end.                      *)
(***************************************************************************)
LEMMA WinnowThieves ==
  ASSUME LockInv, SlotTypes, OneKind, ThiefWindow, opc \in WinnowPC, NEW lo \in Nat, IsLow(lo)
  PROVE  /\ lo <= head /\ head <= lo + 1
         /\ \A h \in Thief : /\ tpc[h] \notin {"close", "closed"}
                             /\ tpc[h] = "bump" => tH[h] = lo /\ head = lo
                             /\ tpc[h] \in {"check", "backOff", "read"} =>
                                    tH[h] = lo + 1 /\ head = lo + 1
<1>1. affine = {}
  BY DEF OneKind
<1>2. \A h \in Thief : tpc[h] \notin {"close", "closed"}
  <2> SUFFICES ASSUME NEW h \in Thief, tpc[h] \in {"close", "closed"} PROVE FALSE
    OBVIOUS
  <2>1. tH[h] \in Nat /\ tH0[h] \in Nat /\ tH[h] = tH0[h] + 1 /\ tH0[h] + 1 < tH[h]
    BY <1>1 DEF OneKind, ThiefWindow, SlotTypes
  <2> QED
    BY <2>1
<1>3. \A h \in Thief : tpc[h] = "bump" => tH[h] = lo /\ head = lo
  BY <1>1 DEF OneKind, ThiefWindow, IsLow, Probing
<1>4. \A h \in Thief : tpc[h] \in {"check", "backOff", "read"} => tH[h] = lo + 1 /\ head = lo + 1
  BY <1>1 DEF OneKind, ThiefWindow, IsLow, Probing
<1>5. head = lo \/ head = lo + 1
  <2>1. CASE \E h \in Thief : tpc[h] \in Probing
    BY <2>1, <1>2, <1>3, <1>4 DEF Probing
  <2>2. CASE \A h \in Thief : tpc[h] \notin Probing
    BY <2>2, <1>2 DEF IsLow
  <2> QED
    BY <2>1, <2>2
<1> QED
  BY <1>2, <1>3, <1>4, <1>5

LEMMA WinnowReadWindow == ASSUME WindowInv, WinnowRead PROVE WindowInv'
<1> USE DEF WindowInv, slot, prox, prio, owner, thief, hist, program
<1>1. LockInv'
  BY OwnerLockInv DEF OwnerStep
<1>2. /\ opc = "winnow" /\ opc' = "winnowCut" /\ oT0' = tail /\ oH' = head
      /\ UNCHANGED <<slot, prox, prio, oT, batch, reloading, res, thief, hist>>
  BY DEF WinnowRead
<1>3. SlotTypes' /\ TaskTypes'
  BY <1>2, QuietTasks DEF SlotTypes
<1>4. OneKind'
  BY <1>2, QuietKind DEF WinnowPC
<1>5. PICK lo \in Nat : IsLow(lo)
  BY LowExists
<1>6. Window(lo) /\ lo <= tail /\ head <= lo + 1
  BY <1>2, <1>5, WinnowThieves DEF Windows, Window, Hi, WinnowPC
<1>7. OwnerWindow'
  <2>1. head <= tail + 1
    BY <1>6 DEF SlotTypes
  <2> QED
    BY <2>1, <1>2 DEF OwnerWindow
<1>8. ThiefWindow'
  BY <1>2, QuietThieves
<1>9. Windows'
  <2> SUFFICES ASSUME NEW l \in Nat, IsLow(l)' PROVE Window(l)'
    BY DEF Windows
  <2>1. Window(l) /\ head - 1 <= l
    BY <1>2, SameLow, WinnowThieves DEF WinnowPC, SlotTypes
  <2>2. Hi(l) = tail /\ Hi(l)' = tail
    BY <1>2 DEF Hi
  <2>3. \A i : Outside(i)' <=> Outside(i)
    BY <1>2 DEF Outside, Dead
  <2> QED
    BY <1>2, <2>1, <2>2, <2>3 DEF Window
<1> QED
  BY <1>1, <1>3, <1>4, <1>7, <1>8, <1>9

LEMMA WinnowCutWindow == ASSUME WindowInv, WinnowCut PROVE WindowInv'
<1> USE DEF WindowInv, slot, prox, prio, owner, thief, hist, program
<1>1. LockInv'
  BY OwnerLockInv DEF OwnerStep
<1>2. /\ opc = "winnowCut" /\ opc' = "winnowCheck" /\ tail' = oH - 1
      /\ tail = oT0 /\ oH <= oT0 + 1
      /\ UNCHANGED <<task_pool, pool_ptr, size, pool, head, prox, prio,
                     oT, oH, oT0, batch, reloading, res, thief, hist>>
  BY DEF WinnowCut, OwnerWindow
<1>3. SlotTypes' /\ TaskTypes'
  BY <1>2, QuietTasks DEF SlotTypes
<1>4. OneKind'
  BY <1>2, QuietKind DEF WinnowPC
<1>5. OwnerWindow'
  BY <1>2 DEF OwnerWindow
<1>6. ThiefWindow'
  BY <1>2, QuietThieves
<1>7. Windows'
  <2> SUFFICES ASSUME NEW lo \in Nat, IsLow(lo)' PROVE Window(lo)'
    BY DEF Windows
  <2>1. Window(lo)
    BY <1>2, SameLow
  <2>2. Hi(lo) = oT0 /\ Hi(lo)' = oT0
    BY <1>2 DEF Hi
  <2>3. \A i : Outside(i)' <=> Outside(i)
    BY <1>2 DEF Outside, Dead
  <2>4. tail' <= lo /\ tail' <= oT0
    BY <1>2, <2>1 DEF Window, SlotTypes
  <2> QED
    BY <1>2, <2>1, <2>2, <2>3, <2>4 DEF Window
<1> QED
  BY <1>1, <1>3, <1>4, <1>5, <1>6, <1>7

LEMMA WinnowCheckWindow == ASSUME WindowInv, WinnowCheck PROVE WindowInv'
<1> USE DEF WindowInv, slot, prox, prio, owner, thief, hist, program
<1>1. LockInv'
  BY OwnerLockInv DEF OwnerStep
<1>2. /\ opc = "winnowCheck" /\ oH' = head
      /\ opc' = IF head # tail THEN "winnowLock"
                ELSE IF head >= oT0 THEN "resetLock" ELSE "winnowScan"
      /\ UNCHANGED <<slot, prox, prio, oT, oT0, batch, reloading, res, thief, hist>>
  BY DEF WinnowCheck
<1>3. SlotTypes' /\ TaskTypes'
  BY <1>2, QuietTasks DEF SlotTypes
<1>4. OneKind'
  BY <1>2, QuietKind DEF WinnowPC
<1>5. opc' \in {"winnowLock", "resetLock", "winnowScan"}
  BY <1>2
<1>6. opc' = "winnowScan" => tail = head /\ head < oT0
  BY <1>2 DEF SlotTypes
<1>7. OwnerWindow'
  BY <1>2, <1>5, <1>6 DEF OwnerWindow
<1>8. ThiefWindow'
  BY <1>2, QuietThieves
<1>9. Windows'
  <2> SUFFICES ASSUME NEW lo \in Nat, IsLow(lo)' PROVE Window(lo)'
    BY DEF Windows
  <2>1. Window(lo) /\ IsLow(lo)
    BY <1>2, SameLow
  <2>2. tail <= lo /\ Hi(lo) = oT0 /\ lo <= oT0 /\ oT0 <= size
    BY <1>2, <2>1 DEF Window, Hi
  <2>3. \A i : Outside(i)' <=> Outside(i)
    BY <1>2, <1>5 DEF Outside, Dead
  <2>4. opc' # "winnowLock" =>
           /\ tail = lo /\ head = lo
           /\ \A h \in Thief : tpc[h] \notin {"check", "backOff", "read", "close", "closed"}
    BY <1>2, <2>1, <2>2, WinnowThieves DEF WinnowPC, SlotTypes
  <2>5. Hi(lo)' = oT0
    <3>1. CASE opc' = "resetLock"
      <4>1. oT0 <= head
        BY <3>1, <1>2 DEF SlotTypes
      <4>2. lo = oT0
        BY <4>1, <3>1, <2>2, <2>4 DEF SlotTypes
      <4> QED
        BY <4>2, <3>1 DEF Hi
    <3>2. CASE opc' # "resetLock"
      BY <3>2, <1>2, <1>5 DEF Hi
    <3> QED
      BY <3>1, <3>2
  <2>6. UNCHANGED <<size, pool, tail, tpc, tH>>
    BY <1>2
  <2> QED
    BY <1>2, <1>5, <2>1, <2>2, <2>3, <2>4, <2>5, <2>6 DEF Window
<1> QED
  BY <1>1, <1>3, <1>4, <1>7, <1>8, <1>9

\* The scan of a window that holds only tasks leaves the survivors but one at
\* its bottom, and the rest of it poisoned.
LEMMA ScanKeeps ==
  ASSUME SlotTypes, TaskTypes, NEW H \in Nat, H < oT0, oT0 <= size,
         \A i \in H .. oT0 - 1 : pool[i] # None,
         NEW order \in Ascending(Survivors(H)), WinnowScan(H, order)
  PROVE  /\ Dst(H, order) \in H .. oT0 - 1
         /\ pool' \in [0 .. size - 1 -> Entry]
         /\ \A i \in 0 .. size - 1 : i \notin H .. oT0 - 1 => pool'[i] = pool[i]
         /\ \A i \in H .. oT0 - 1 : pool'[i] # None <=> i < Dst(H, order)
         /\ offloaded' \subseteq Task /\ IsFiniteSet(offloaded')
         /\ res' \in Entry
         /\ ~Emptied(H, order) => res' # None
<1> DEFINE S == Survivors(H)
           D == Dst(H, order)
<1>1. oT0 \in Int /\ H .. oT0 - 1 \subseteq 0 .. size - 1 /\ S \subseteq H .. oT0 - 1
  BY DEF SlotTypes, Survivors
<1>2. IsFiniteSet(S) /\ Cardinality(S) <= oT0 - H
  <2>1. IsFiniteSet(H .. oT0 - 1) /\ Cardinality(H .. oT0 - 1) = oT0 - H
    <3>1. H \in Int /\ oT0 - 1 \in Int /\ ~(H > oT0 - 1)
      BY <1>1
    <3>2. /\ IsFiniteSet(H .. oT0 - 1)
          /\ Cardinality(H .. oT0 - 1) = IF H > oT0 - 1 THEN 0 ELSE (oT0 - 1) - H + 1
      BY <3>1, FS_Interval
    <3> QED
      BY <3>1, <3>2, <1>1
  <2>2. S \in SUBSET (H .. oT0 - 1)
    BY <1>1
  <2> QED
    BY ZenonT(60), <2>1, <2>2, FS_Subset
<1>3. PICK n \in Nat : n = Cardinality(S)
  BY <1>2, FS_CardinalityType
<1>4. order \in [1 .. n -> S] /\ n <= oT0 - H
  BY <1>2, <1>3 DEF Ascending, Orders
<1>5. order \in Seq(S) /\ Len(order) = n /\ (order = <<>> <=> n = 0)
  BY <1>3, <1>4, SeqDef, LenProperties, EmptySeq
<1>6. D = IF n = 0 THEN H ELSE H + n - 1
  BY <1>1, <1>3, <1>5 DEF Dst
<1>7. D \in H .. oT0 - 1
  BY <1>1, <1>3, <1>4, <1>6
<1>8. \A k \in 1 .. n : order[k] \in H .. oT0 - 1 /\ pool[order[k]] \in Task
  BY <1>1, <1>4 DEF SlotTypes, Entry
<1>9. pool' = [i \in 0 .. size - 1 |->
                 IF i \in H .. D - 1 THEN pool[order[i - H + 1]]
                 ELSE IF i \in H .. oT0 - 1 THEN None ELSE pool[i]]
  BY DEF WinnowScan, SlotTypes
<1>10. \A i \in H .. D - 1 : i - H + 1 \in 1 .. n
  BY <1>1, <1>3, <1>6, <1>7
<1>11. pool' \in [0 .. size - 1 -> Entry]
  BY <1>8, <1>9, <1>10 DEF SlotTypes, Entry
<1>12. \A i \in 0 .. size - 1 : i \notin H .. oT0 - 1 => pool'[i] = pool[i]
  BY <1>1, <1>7, <1>9
<1>13. \A i \in H .. oT0 - 1 : pool'[i] # None <=> i < D
  <2> SUFFICES ASSUME NEW i \in H .. oT0 - 1 PROVE pool'[i] # None <=> i < D
    OBVIOUS
  <2>1. CASE i < D
    <3>1. i \in H .. D - 1 /\ pool'[i] = pool[order[i - H + 1]]
      BY <2>1, <1>1, <1>7, <1>9
    <3> QED
      BY <3>1, <2>1, <1>8, <1>10, NoneIsNoTask
  <2>2. CASE ~(i < D)
    BY <2>2, <1>1, <1>7, <1>9
  <2> QED
    BY <2>1, <2>2
<1>14. offloaded' \subseteq Task /\ IsFiniteSet(offloaded')
  <2> DEFINE J == {j \in H .. oT0 - 1 : Priority(pool[j]) < top}
             T == {pool[i] : i \in J}
  <2>1. offloaded' = offloaded \cup T
    BY DEF WinnowScan
  <2>2. T \subseteq Task
    BY <1>1 DEF SlotTypes, Entry
  <2>3. IsFiniteSet(J)
    <3>1. H \in Int /\ oT0 - 1 \in Int
      BY <1>1
    <3>2. IsFiniteSet(H .. oT0 - 1)
      BY <3>1, FS_Interval
    <3>3. J \in SUBSET (H .. oT0 - 1)
      OBVIOUS
    <3> QED
      BY <3>2, <3>3, FS_Subset
  <2>4. [i \in J |-> pool[i]] \in Surjection(J, T)
    BY DEF Surjection
  <2>5. IsFiniteSet(T)
    BY <2>3, <2>4, FS_Surjection
  <2> QED
    BY <2>1, <2>2, <2>5, FS_Union DEF TaskTypes
<1>15. /\ res' \in Entry
       /\ n # 0 => res' # None
  <2>1. res' = IF n = 0 THEN None ELSE pool[order[n]]
    BY <1>5 DEF WinnowScan
  <2>2. n # 0 => n \in 1 .. n
    BY <1>3
  <2> QED
    BY <2>1, <2>2, <1>8, NoneIsNoTask DEF Entry
<1>16. ~Emptied(H, order) => n # 0
  BY <1>6 DEF Emptied
<1> QED
  BY <1>7, <1>11, <1>12, <1>13, <1>14, <1>15, <1>16

LEMMA WinnowUnlockedWindow == ASSUME WindowInv, WinnowUnlocked PROVE WindowInv'
<1> USE DEF WindowInv, slot, prox, prio, owner, thief, hist, program
<1>1. LockInv'
  BY OwnerLockInv DEF OwnerStep
<1>2. PICK order \in Ascending(Survivors(oH)) :
         /\ opc = "winnowScan" /\ WinnowScan(oH, order) /\ oT' = Dst(oH, order)
         /\ opc' = IF Emptied(oH, order) THEN "resetLock" ELSE "winnowStore"
         /\ UNCHANGED <<task_pool, pool_ptr, size, head, tail, prox, top, changes,
                        oH, oT0, batch, reloading, thief, hist>>
  BY DEF WinnowUnlocked
<1>3. PICK lo \in Nat : IsLow(lo)
  BY LowExists
<1>4. Window(lo) /\ tail = lo /\ oH = lo /\ lo < oT0 /\ oT0 <= size /\ Hi(lo) = oT0
  BY <1>2, <1>3 DEF Windows, Window, Hi, OwnerWindow
<1>5. oH \in Nat /\ \A i \in oH .. oT0 - 1 : pool[i] # None
  BY <1>4 DEF Window, SlotTypes
<1>6. PICK D \in oH .. oT0 - 1 :
         /\ D = Dst(oH, order)
         /\ pool' \in [0 .. size - 1 -> Entry]
         /\ \A i \in 0 .. size - 1 : i \notin oH .. oT0 - 1 => pool'[i] = pool[i]
         /\ \A i \in oH .. oT0 - 1 : pool'[i] # None <=> i < D
         /\ offloaded' \subseteq Task /\ IsFiniteSet(offloaded')
         /\ res' \in Entry
         /\ ~Emptied(oH, order) => res' # None
  BY <1>2, <1>4, <1>5, ScanKeeps
<1>7. Emptied(oH, order) <=> D = oH
  BY <1>6 DEF Emptied
<1>8. SlotTypes' /\ TaskTypes'
  BY <1>2, <1>6 DEF SlotTypes, TaskTypes
<1>9. OneKind'
  <2>1. low # {}
    BY <1>2 DEF OneKind, WinnowPC
  <2> QED
    BY <2>1, <1>2 DEF OneKind, WinnowPC
<1>10. OwnerWindow'
  BY <1>2, <1>4, <1>6, <1>7 DEF OwnerWindow, SlotTypes
<1>11. ThiefWindow'
  <2>1. \A h \in Thief : tpc[h] # "close"
    BY <1>2, <1>4 DEF Window
  <2> QED
    BY <2>1, <1>2 DEF ThiefWindow
<1>12. Windows'
  <2> SUFFICES ASSUME NEW l \in Nat, IsLow(l)' PROVE Window(l)'
    BY DEF Windows
  <2>1. Window(l) /\ IsLow(l) /\ l = oH /\ Hi(l) = oT0 /\ tail = l
    BY <1>2, <1>4, SameLow DEF Window, Hi
  <2>2. Hi(l)' = D
    BY <1>2, <1>6, <1>7, <2>1 DEF Hi
  <2>3. \A i : /\ Outside(i)' <=> Dead(i)
               /\ Outside(i) <=> Dead(i)
    BY <1>2 DEF Outside, Dead
  <2>4. \A i : Dead(i) => i < l
    BY <2>1, LowBelowHead
  <2>5. \A i \in 0 .. size - 1 : pool'[i] # None <=> i \in l .. D - 1 \/ Dead(i)
    <3> SUFFICES ASSUME NEW i \in 0 .. size - 1
                 PROVE  pool'[i] # None <=> i \in l .. D - 1 \/ Dead(i)
      OBVIOUS
    <3>1. CASE i \in oH .. oT0 - 1
      BY <3>1, <1>6, <2>1, <2>4 DEF SlotTypes
    <3>2. CASE i \notin oH .. oT0 - 1
      BY <3>2, <1>6, <2>1, <2>3 DEF Window, SlotTypes
    <3> QED
      BY <3>1, <3>2
  <2>6. l <= D /\ D <= size
    BY <1>4, <1>6, <2>1 DEF SlotTypes
  <2>7. \A h \in Thief : /\ tpc[h] \notin {"read", "close", "closed"}
                         /\ tpc[h] = "bump" => tH[h] <= D
                         /\ tpc[h] \in {"check", "backOff"} => tH[h] <= D + 1
    <3>1. \A h \in Thief : /\ tpc[h] \notin {"read", "close", "closed"}
                           /\ tpc[h] = "bump" => tH[h] = l
                           /\ tpc[h] \in {"check", "backOff"} => tH[h] = l + 1
      BY <1>2, <2>1, WinnowThieves DEF Window, WinnowPC
    <3> QED
      BY <3>1, <2>6 DEF SlotTypes
  <2>8. opc' \in {"resetLock", "winnowStore"} /\ UNCHANGED <<size, tail, tpc, tH>>
    BY <1>2
  <2> QED
    BY <2>1, <2>2, <2>3, <2>5, <2>6, <2>7, <2>8 DEF Window
<1> QED
  BY <1>1, <1>8, <1>9, <1>10, <1>11, <1>12

LEMMA WinnowStoreWindow == ASSUME WindowInv, WinnowStore PROVE WindowInv'
<1> USE DEF WindowInv, slot, prox, prio, owner, thief, hist, program
<1>1. LockInv'
  BY OwnerLockInv DEF OwnerStep
<1>2. /\ opc = "winnowStore" /\ opc' = "dispatch" /\ tail' = oT
      /\ UNCHANGED <<task_pool, pool_ptr, size, pool, head, prox, prio,
                     oT, oH, oT0, batch, reloading, res, thief, hist>>
  BY DEF WinnowStore
<1>3. SlotTypes' /\ TaskTypes'
  BY <1>2, QuietTasks DEF SlotTypes
<1>4. OneKind'
  BY <1>2, QuietKind DEF WinnowPC
<1>5. OwnerWindow'
  BY <1>2 DEF OwnerWindow
<1>6. ThiefWindow'
  BY <1>2, QuietThieves
<1>7. Windows'
  <2> SUFFICES ASSUME NEW lo \in Nat, IsLow(lo)' PROVE Window(lo)'
    BY DEF Windows
  <2>1. Window(lo)
    BY <1>2, SameLow
  <2>2. Hi(lo) = oT /\ Hi(lo)' = oT
    BY <1>2 DEF Hi
  <2>3. \A i : Outside(i)' <=> Outside(i)
    BY <1>2 DEF Outside, Dead
  <2> QED
    BY <1>2, <2>1, <2>2, <2>3 DEF Window, SlotTypes
<1> QED
  BY <1>1, <1>3, <1>4, <1>5, <1>6, <1>7

LEMMA WinnowLockedWindow == ASSUME WindowInv, WinnowLocked PROVE WindowInv'
<1> USE DEF WindowInv, slot, prox, prio, owner, thief, hist, program
<1>1. LockInv'
  BY OwnerLockInv DEF OwnerStep
<1>2. /\ \A h \in Thief : tpc[h] \notin Probing \cup {"closed", "poison"}
      /\ \A i : ~Dead(i)
      /\ Window(head)
  BY OwnerAlone DEF WinnowLocked, OwnerHoldsLock
<1>3. /\ opc = "winnowLocked" /\ head \in Nat /\ Hi(head) = oT0
      /\ UNCHANGED <<pool_ptr, size, head, oT, oH, oT0, batch, tpc, tH, tH0, got>>
      /\ UNCHANGED <<tag, mail, top, unspawned, affine, low, reloading>>
  BY DEF WinnowLocked, Hi, SlotTypes
<1>4. head <= oT0 /\ oT0 <= size /\ low # {}
  BY <1>2, <1>3 DEF Window, OneKind, WinnowPC
<1>5. \A i \in 0 .. size - 1 : pool[i] # None <=> i \in head .. oT0 - 1
  BY <1>2, <1>3 DEF Window, Outside
<1>6. PICK D \in Nat :
         /\ head <= D /\ D <= oT0
         /\ \/ D = head /\ opc' = "reset" /\ task_pool' = task_pool /\ tail' = tail
            \/ head < D /\ opc' = "dispatch" /\ task_pool' = pool_ptr /\ tail' = D /\ res' # None
         /\ pool' \in [0 .. size - 1 -> Entry]
         /\ \A i \in 0 .. size - 1 : pool'[i] # None <=> i \in head .. D - 1
         /\ offloaded' \subseteq Task /\ IsFiniteSet(offloaded') /\ res' \in Entry
  <2>1. CASE head >= oT0
    <3>1. opc' = "reset" /\ UNCHANGED <<slot, offloaded, res>>
      BY <2>1 DEF WinnowLocked
    <3>2. head = oT0
      BY <2>1, <1>4 DEF SlotTypes
    <3> QED
      BY <3>1, <3>2, <1>3, <1>5 DEF SlotTypes, TaskTypes
  <2>2. CASE ~(head >= oT0)
    <3>1. PICK order \in Ascending(Survivors(head)) :
             /\ WinnowScan(head, order)
             /\ IF Emptied(head, order)
                THEN opc' = "reset" /\ UNCHANGED <<task_pool, tail>>
                ELSE /\ opc' = "dispatch"
                     /\ tail' = Dst(head, order)
                     /\ task_pool' = pool_ptr
      BY <2>2 DEF WinnowLocked
    <3>2. head < oT0 /\ \A i \in head .. oT0 - 1 : pool[i] # None
      BY <2>2, <1>3, <1>4, <1>5 DEF SlotTypes
    <3>3. PICK D \in head .. oT0 - 1 :
             /\ D = Dst(head, order)
             /\ pool' \in [0 .. size - 1 -> Entry]
             /\ \A i \in 0 .. size - 1 : i \notin head .. oT0 - 1 => pool'[i] = pool[i]
             /\ \A i \in head .. oT0 - 1 : pool'[i] # None <=> i < D
             /\ offloaded' \subseteq Task /\ IsFiniteSet(offloaded')
             /\ res' \in Entry
             /\ ~Emptied(head, order) => res' # None
      BY <3>1, <3>2, <1>3, <1>4, ScanKeeps
    <3>4. Emptied(head, order) <=> D = head
      BY <3>3 DEF Emptied
    <3>5. D \in Nat /\ head <= D /\ D <= oT0
      BY <3>3, <1>3 DEF SlotTypes
    <3>6. \A i \in 0 .. size - 1 : pool'[i] # None <=> i \in head .. D - 1
      BY <3>3, <3>5, <1>3, <1>5 DEF SlotTypes
    <3>7. \/ D = head /\ opc' = "reset" /\ task_pool' = task_pool /\ tail' = tail
          \/ head < D /\ opc' = "dispatch" /\ task_pool' = pool_ptr /\ tail' = D /\ res' # None
      <4>1. CASE D = head
        BY <4>1, <3>1, <3>4
      <4>2. CASE D # head
        <5>1. head < D
          BY <4>2, <3>5, <1>3
        <5> QED
          BY <4>2, <5>1, <3>1, <3>3, <3>4
      <4> QED
        BY <4>1, <4>2
    <3> QED
      BY <3>3, <3>5, <3>6, <3>7
  <2> QED
    BY <2>1, <2>2
<1>7. SlotTypes' /\ TaskTypes'
  <2>1. tail' \in Int
    BY <1>6 DEF SlotTypes
  <2> QED
    BY <2>1, <1>3, <1>6 DEF SlotTypes, TaskTypes
<1>8. OneKind'
  BY <1>3, <1>4, <1>6 DEF OneKind, WinnowPC
<1>9. OwnerWindow'
  <2>1. pool_ptr # Empty /\ task_pool = Locked
    BY <1>3 DEF OwnerWindow, LockInv, LockDiscipline, OwnerHoldsLock
  <2> QED
    BY <2>1, <1>3, <1>6 DEF OwnerWindow, Empty, Locked
<1>10. ThiefWindow'
  BY <1>2, <1>3 DEF ThiefWindow, Probing
<1>11. Windows'
  <2> SUFFICES ASSUME NEW lo \in Nat, IsLow(lo)' PROVE Window(lo)'
    BY DEF Windows
  <2>1. lo = head /\ \A i : ~Outside(i)'
    BY <1>2, <1>3, <1>6 DEF IsLow, Outside, Dead
  <2>2. Hi(lo)' = D /\ (opc' # "reset" => tail' <= D) /\ opc' \in {"reset", "dispatch"}
    BY <1>6, <2>1 DEF Hi
  <2>3. lo <= D /\ D <= size
    BY <1>3, <1>4, <1>6, <2>1 DEF SlotTypes
  <2>4. UNCHANGED <<tpc, size>>
    BY <1>3
  <2> QED
    BY <1>2, <1>6, <2>1, <2>2, <2>3, <2>4 DEF Window, Probing
<1> QED
  BY <1>1, <1>7, <1>8, <1>9, <1>10, <1>11

LEMMA ResetWindow == ASSUME WindowInv, Reset PROVE WindowInv'
<1> USE DEF WindowInv, slot, prox, prio, owner, thief, hist, program
<1>1. LockInv'
  BY OwnerLockInv DEF OwnerStep
<1>2. /\ opc = "reset" /\ head' = 0 /\ tail' = 0 /\ task_pool' = Empty
      /\ opc' = IF res = None THEN "idle" ELSE "dispatch"
      /\ UNCHANGED <<pool_ptr, size, pool, prox, prio,
                     oT, oH, oT0, batch, reloading, res, thief, hist>>
  BY DEF Reset
<1>3. InArena
  BY <1>2 DEF OwnerWindow, InArena
<1>4. /\ \A h \in Thief : tpc[h] \notin Probing \cup {"closed", "poison"}
      /\ \A i : ~Dead(i)
      /\ Window(head)
  BY <1>2, <1>3, OwnerAlone DEF OwnerHoldsLock
<1>5. \A i \in 0 .. size - 1 : pool[i] = None
  BY <1>2, <1>4 DEF Window, Hi, Outside, SlotTypes
<1>6. SlotTypes' /\ TaskTypes'
  <2>1. head' \in Nat /\ tail' \in Int
    BY <1>2
  <2> QED
    BY <2>1, <1>2, QuietTasks DEF SlotTypes
<1>7. OneKind'
  BY <1>2, QuietKind DEF WinnowPC
<1>8. OwnerWindow'
  BY <1>2 DEF OwnerWindow, Empty, Locked
<1>9. ThiefWindow'
  BY <1>2, <1>4 DEF ThiefWindow, Probing
<1>10. Windows'
  <2> SUFFICES ASSUME NEW lo \in Nat, IsLow(lo)' PROVE Window(lo)'
    BY DEF Windows
  <2>1. lo = 0 /\ Hi(lo)' = 0 /\ \A i : ~Outside(i)'
    BY <1>2, <1>4 DEF IsLow, Hi, Outside, Dead
  <2>2. 0 <= size
    BY DEF SlotTypes
  <2>3. opc' \in {"idle", "dispatch"} /\ UNCHANGED <<size, pool, tpc>>
    BY <1>2
  <2> QED
    BY <1>2, <1>4, <1>5, <2>1, <2>2, <2>3 DEF Window, Probing
<1> QED
  BY <1>1, <1>6, <1>7, <1>8, <1>9, <1>10

LEMMA ReloadWindow == ASSUME WindowInv, Reload PROVE WindowInv'
<1> USE DEF WindowInv, slot, prox, prio, owner, thief, hist, program
<1>1. LockInv'
  BY OwnerLockInv DEF OwnerStep
<1> DEFINE back == {t \in offloaded : Priority(t) >= top}
<1>2. /\ opc = "idle" /\ opc' = "prepare" /\ reloading' = TRUE
      /\ back # {} /\ batch' \in Orders(back) /\ offloaded' = offloaded \ back
      /\ UNCHANGED <<slot, prox, top, changes, oT, oH, oT0, res, thief, hist>>
  BY DEF Reload
<1>3. IsFiniteSet(back) /\ IsFiniteSet(offloaded')
  <2>1. back \in SUBSET offloaded /\ offloaded' \in SUBSET offloaded
    BY <1>2
  <2> QED
    BY <2>1, FS_Subset DEF TaskTypes
<1>4. batch' \in Seq(Task) /\ batch' # <<>>
  <2>1. PICK n \in Nat : n = Cardinality(back) /\ n # 0
    BY <1>2, <1>3, FS_CardinalityType, FS_EmptySet
  <2>2. batch' \in [1 .. n -> back] /\ back \subseteq Task
    BY <1>2, <2>1 DEF Orders, TaskTypes
  <2>3. batch' \in [1 .. n -> Task]
    BY <2>2
  <2>4. batch' \in Seq(Task)
    BY <2>1, <2>3, SeqDef
  <2>5. batch' # <<>>
    <3>1. DOMAIN batch' = 1 .. n /\ 1 \in 1 .. n
      BY <2>1, <2>3
    <3>2. DOMAIN <<>> = {}
      OBVIOUS
    <3> QED
      BY <3>1, <3>2
  <2> QED
    BY <2>4, <2>5
<1>5. SlotTypes' /\ TaskTypes'
  BY <1>2, <1>3, <1>4 DEF SlotTypes, TaskTypes
<1>6. OneKind'
  BY <1>2 DEF OneKind, WinnowPC
<1>7. OwnerWindow'
  BY <1>2, <1>4 DEF OwnerWindow
<1>8. ThiefWindow'
  BY <1>2, QuietThieves
<1>9. Windows'
  BY <1>2, QuietWindows DEF Hi, Outside, Dead, SlotTypes
<1> QED
  BY <1>1, <1>5, <1>6, <1>7, <1>8, <1>9

LEMMA KeepLastWindow == ASSUME WindowInv, KeepLast PROVE WindowInv'
<1> USE DEF WindowInv, slot, prox, prio, owner, thief, hist, program
<1>1. LockInv'
  BY OwnerLockInv DEF OwnerStep
<1>2. /\ opc = "keepLast" /\ opc' = "dispatch" /\ reloading /\ tail < size
      /\ res' = pool[tail] /\ pool' = [pool EXCEPT ![tail] = None]
      /\ UNCHANGED <<task_pool, pool_ptr, size, head, tail, oT, oH, oT0, batch,
                     tpc, tH, tH0, got>>
      /\ UNCHANGED <<tag, mail, top, offloaded, unspawned, affine, low, reloading>>
  BY DEF KeepLast, OwnerWindow
<1>3. PICK lo \in Nat : IsLow(lo)
  BY LowExists
<1>4. Window(lo) /\ Hi(lo) = tail /\ lo <= tail
  BY <1>2, <1>3 DEF Windows, Window, Hi
<1>5. tail \in 0 .. size - 1 /\ pool[tail] # None /\ pool[tail] \in Entry
  BY <1>2, <1>4 DEF Window, Outside, SlotTypes
<1>6. /\ pool' \in [0 .. size - 1 -> Entry]
      /\ \A i \in 0 .. size - 1 : pool'[i] = IF i = tail THEN None ELSE pool[i]
  BY <1>2 DEF SlotTypes, Entry
<1>7. SlotTypes' /\ TaskTypes'
  BY <1>2, <1>5, <1>6, QuietTasks DEF SlotTypes
<1>8. OneKind'
  BY <1>2, QuietKind DEF WinnowPC
<1>9. OwnerWindow'
  BY <1>2, <1>5 DEF OwnerWindow
<1>10. ThiefWindow'
  <2>1. ASSUME NEW h \in Thief, tpc[h] = "close" PROVE pool'[tH[h] - 1] = pool[tH[h] - 1]
    <3>1. tH[h] <= tail /\ tH[h] \in Nat /\ tH0[h] \in Nat /\ tH0[h] + 1 < tH[h]
      BY <2>1, <1>4 DEF Window, SlotTypes, ThiefWindow
    <3>2. tH[h] - 1 \in 0 .. size - 1 /\ tH[h] - 1 # tail
      BY <3>1, <1>5 DEF SlotTypes
    <3> QED
      BY <3>2, <1>6
  <2> QED
    BY <2>1, <1>2 DEF ThiefWindow
<1>11. Windows'
  <2> SUFFICES ASSUME NEW l \in Nat, IsLow(l)' PROVE Window(l)'
    BY DEF Windows
  <2>1. Window(l) /\ Hi(l) = tail /\ ~Dead(tail)
    <3>1. IsLow(l) /\ Window(l) /\ Hi(l) = tail
      BY <1>2, SameLow DEF Hi
    <3>2. l <= tail
      BY <3>1 DEF Window
    <3> QED
      BY <3>1, <3>2, LowBelowHead DEF SlotTypes
  <2>2. Hi(l)' = tail
    BY <1>2 DEF Hi
  <2>3. \A i : /\ Outside(i) <=> i = tail \/ Dead(i)
               /\ Outside(i)' <=> Dead(i)
    BY <1>2 DEF Outside, Dead
  <2>4. \A i \in 0 .. size - 1 : pool'[i] # None <=> i \in l .. tail - 1 \/ Dead(i)
    BY <1>5, <1>6, <2>1, <2>3 DEF Window, SlotTypes
  <2>5. opc' = "dispatch" /\ UNCHANGED <<size, tail, tpc, tH>> /\ tail <= tail
    BY <1>2 DEF SlotTypes
  <2> QED
    BY <2>1, <2>2, <2>3, <2>4, <2>5 DEF Window
<1> QED
  BY <1>1, <1>7, <1>8, <1>9, <1>10, <1>11

\* A change of the top priority concerns only programs with priorities.
LEMMA ChangeTopWindow == ASSUME WindowInv, ChangeTop PROVE WindowInv'
<1> USE DEF WindowInv, slot, prox, prio, owner, thief, hist, program
<1>1. /\ low # {} /\ top' = 1 - top
      /\ UNCHANGED <<slot, prox, offloaded, owner, thief, hist>>
  BY DEF ChangeTop
<1>2. LockInv'
  BY <1>1 DEF LockInv, LockTypes, LockDiscipline, HoldsLock, OwnerHoldsLock, InArena
<1>3. SlotTypes' /\ TaskTypes'
  <2>1. top' \in {0, 1}
    BY <1>1 DEF TaskTypes
  <2> QED
    BY <2>1, <1>1, QuietTypes DEF TaskTypes
<1>4. OneKind'
  BY <1>1 DEF OneKind
<1>5. OwnerWindow'
  BY <1>1 DEF OwnerWindow
<1>6. ThiefWindow'
  BY <1>1, QuietThieves
<1>7. Windows'
  BY <1>1 DEF Windows, IsLow, Window, Hi, Outside, Dead
<1> QED
  BY <1>2, <1>3, <1>4, <1>5, <1>6, <1>7

(***************************************************************************)
(* Steps of a thief.                                                       *)
(***************************************************************************)
\* A thief that is not after an element, and does not begin to be.
Away == {"out", "loop", "unlock", "extract", "mail"}

LEMMA ThiefAway ==
  ASSUME LockInv, SlotTypes, ThiefWindow, Windows, NEW h \in Thief,
         NEW from \in Away, NEW to \in Away, Goto(h, from, to),
         UNCHANGED <<size, pool, head, tail, owner, tH, tH0>>,
         \A k \in Thief \ {h} : got'[k] = got[k]
  PROVE  ThiefWindow' /\ Windows'
<1>1. tpc[h] = from /\ tpc'[h] = to /\ \A k \in Thief \ {h} : tpc'[k] = tpc[k]
  BY DEF Goto, LockInv, LockTypes
<1>2. \A k \in Thief : tpc[k] = tpc'[k] \/ k = h
  BY <1>1
<1>3. ThiefWindow'
  <2> SUFFICES ASSUME NEW k \in Thief
               PROVE  (/\ tpc[k] \in {"bump", "check", "backOff", "read", "close", "closed"}
                              => head = tH[k]
                       /\ tpc[k] = "bump" => tH0[k] <= tH[k]
                       /\ tpc[k] \in {"check", "backOff", "read"} => tH0[k] < tH[k]
                       /\ tpc[k] \in {"close", "closed"} => tH0[k] + 1 < tH[k]
                       /\ tpc[k] = "poison" => head = tH0[k] + 1
                       /\ tpc[k] \in {"close", "closed", "poison"} => got[k] # None
                       /\ tpc[k] = "close" => got[k] = pool[tH[k] - 1])'
    BY DEF ThiefWindow
  <2>1. CASE k = h
    BY <2>1, <1>1 DEF Away
  <2>2. CASE k # h
    BY <2>2, <1>1 DEF ThiefWindow
  <2> QED
    BY <2>1, <2>2
<1>4. Windows'
  <2> SUFFICES ASSUME NEW lo \in Nat, IsLow(lo)' PROVE Window(lo)'
    BY DEF Windows
  <2>1. \A k \in Thief : /\ tpc'[k] \in Probing <=> tpc[k] \in Probing
                         /\ tpc'[k] = "closed" <=> tpc[k] = "closed"
    BY <1>1 DEF Away, Probing
  <2>2. IsLow(lo)
    BY <2>1 DEF IsLow
  <2>3. Window(lo)
    BY <2>2 DEF Windows
  <2>4. Hi(lo)' = Hi(lo)
    BY DEF Hi, owner
  <2>5. \A i : Dead(i)' <=> Dead(i)
    BY <1>1 DEF Dead, Away
  <2>6. \A i : Outside(i)' <=> Outside(i)
    BY <2>5 DEF Outside, owner
  <2>7. \A k \in Thief : tpc'[k] \in {"bump", "check", "backOff", "read", "close", "closed"}
                             => tpc'[k] = tpc[k]
    BY <1>1 DEF Away
  <2>8. UNCHANGED <<size, pool, tail, tH, opc, oH>>
    BY DEF owner
  <2> QED
    BY <2>3, <2>4, <2>6, <2>7, <2>8 DEF Window
<1> QED
  BY <1>3, <1>4

LEMMA LookForWorkWindow ==
  ASSUME WindowInv, NEW h \in Thief, LookForWork(h) PROVE WindowInv'
<1> USE DEF WindowInv, slot, prox, prio, owner, thief, hist, program
<1>1. LockInv'
  BY ThiefLockInv DEF ThiefStep
<1>2. /\ Goto(h, "out", "loop")
      /\ UNCHANGED <<slot, tag, mail, prio, owner, tH, tH0, vpool, got, hist>>
  BY DEF LookForWork
<1>3. SlotTypes' /\ TaskTypes'
  BY <1>2, QuietTypes, QuietTasks
<1>4. OneKind'
  BY <1>2 DEF OneKind, Goto, LockInv, LockTypes
<1>5. OwnerWindow'
  BY <1>2 DEF OwnerWindow
<1>6. ThiefWindow' /\ Windows'
  BY <1>2, ThiefAway DEF Away
<1> QED
  BY <1>1, <1>3, <1>4, <1>5, <1>6

LEMMA UnlockWindow == ASSUME WindowInv, NEW h \in Thief, Unlock(h) PROVE WindowInv'
<1> USE DEF WindowInv, slot, prox, prio, owner, thief, hist, program
<1>1. LockInv'
  BY ThiefLockInv DEF ThiefStep
<1>2. PICK to \in {"loop", "extract", "out"} : Goto(h, "unlock", to)
  BY DEF Unlock
<1>3. /\ task_pool' = vpool[h] /\ got' \in {got, [got EXCEPT ![h] = None]}
      /\ UNCHANGED <<pool_ptr, size, pool, head, tail, tag, mail, prio, owner,
                     tH, tH0, vpool, unspawned, program>>
  BY DEF Unlock, Take
<1>4. task_pool = Locked /\ vpool[h] = pool_ptr
  BY <1>2 DEF LockInv, LockDiscipline, HoldsLock, Goto
<1>5. SlotTypes' /\ TaskTypes'
  <2>1. got' \in [Thief -> Entry]
    BY <1>3 DEF SlotTypes, Entry
  <2> QED
    BY <2>1, <1>3, QuietTasks DEF SlotTypes
<1>6. OneKind'
  BY <1>2, <1>3 DEF OneKind, Goto, LockInv, LockTypes
<1>7. OwnerWindow'
  BY <1>3, <1>4 DEF OwnerWindow
<1>8. ThiefWindow' /\ Windows'
  <2>1. \A k \in Thief \ {h} : got'[k] = got[k]
    BY <1>3 DEF SlotTypes
  <2> QED
    BY <2>1, <1>2, <1>3, ThiefAway DEF Away
<1> QED
  BY <1>1, <1>5, <1>6, <1>7, <1>8

LEMMA PopMailWindow == ASSUME WindowInv, NEW h \in Thief, PopMail(h) PROVE WindowInv'
<1> USE DEF WindowInv, slot, prox, prio, owner, thief, hist, program
<1>1. LockInv'
  BY ThiefLockInv DEF ThiefStep
<1>2. /\ Goto(h, "loop", "mail") /\ mail # <<>>
      /\ got' = [got EXCEPT ![h] = Head(mail)] /\ mail' = Tail(mail)
      /\ UNCHANGED <<slot, tag, idle, prio, owner, tH, tH0, vpool, hist>>
  BY DEF PopMail
<1>3. Head(mail) \in affine /\ Tail(mail) \in Seq(affine) /\ affine \subseteq Task
  BY <1>2, HeadTailProperties DEF TaskTypes
<1>4. SlotTypes' /\ TaskTypes'
  <2>1. got' \in [Thief -> Entry]
    BY <1>2, <1>3 DEF SlotTypes, Entry
  <2> QED
    BY <2>1, <1>2, <1>3 DEF SlotTypes, TaskTypes
<1>5. OneKind'
  BY <1>2 DEF OneKind, Goto, LockInv, LockTypes
<1>6. OwnerWindow'
  BY <1>2 DEF OwnerWindow
<1>7. ThiefWindow' /\ Windows'
  <2>1. \A k \in Thief \ {h} : got'[k] = got[k]
    BY <1>2 DEF SlotTypes
  <2> QED
    BY <2>1, <1>2, ThiefAway DEF Away
<1> QED
  BY <1>1, <1>4, <1>5, <1>6, <1>7

\* A thief takes the task out of its proxy, or finds it gone.
LEMMA ExtractWindow ==
  ASSUME WindowInv, NEW h \in Thief,
         ExtractStolen(h) \/ ExtractMail(h)
  PROVE  WindowInv'
<1> USE DEF WindowInv, slot, prox, prio, owner, thief, hist, program
<1>1. LockInv'
  BY ThiefLockInv DEF ThiefStep
<1>2. PICK from \in {"extract", "mail"}, to \in {"out", "loop"}, v \in {"pool", "mailbox", "freed"} :
         /\ Goto(h, from, to)
         /\ tag' = [tag EXCEPT ![got[h]] = v]
         /\ tag[got[h]] \in {"both", "pool", "mailbox"}
         /\ got' = [got EXCEPT ![h] = None]
         /\ UNCHANGED <<slot, mail, prio, owner, tH, tH0, vpool, unspawned, program>>
  BY DEF ExtractStolen, ExtractMail, Extract, Take, Goto
<1>3. SlotTypes' /\ TaskTypes'
  <2>1. got' \in [Thief -> Entry]
    BY <1>2 DEF SlotTypes, Entry
  <2>2. tag' \in [Task -> {"plain", "both", "pool", "mailbox", "freed"}]
    BY <1>2 DEF TaskTypes
  <2> QED
    BY <2>1, <2>2, <1>2 DEF SlotTypes, TaskTypes
<1>4. OneKind'
  <2>1. \A t \in Task : tag'[t] # "plain" <=> tag[t] # "plain"
    BY <1>2 DEF TaskTypes
  <2>2. opc = "extract" => tag'[res] # "plain"
    <3>1. opc = "extract" => res \in Task
      BY DEF OwnerWindow, SlotTypes, Entry
    <3> QED
      BY <2>1, <3>1 DEF OneKind
  <2> QED
    BY <2>1, <2>2, <1>2 DEF OneKind, Goto, LockInv, LockTypes
<1>5. OwnerWindow'
  BY <1>2 DEF OwnerWindow
<1>6. ThiefWindow' /\ Windows'
  <2>1. \A k \in Thief \ {h} : got'[k] = got[k]
    BY <1>2 DEF SlotTypes
  <2> QED
    BY <2>1, <1>2, ThiefAway DEF Away
<1> QED
  BY <1>1, <1>3, <1>4, <1>5, <1>6

\* The holder of the lock is the only thief to consider, before and after.
Seizing == {"bump", "check", "backOff", "read", "close", "closed", "poison"}

LEMMA HolderGoes ==
  ASSUME LockInv, NEW h \in Thief, NEW from \in Seizing, NEW to \in Seizing \cup {"unlock"},
         Goto(h, from, to)
  PROVE  /\ tpc[h] = from /\ tpc'[h] = to
         /\ \A k \in Thief \ {h} : tpc'[k] = tpc[k] /\ tpc[k] \notin Seizing
<1>1. tpc[h] = from /\ tpc'[h] = to /\ \A k \in Thief \ {h} : tpc'[k] = tpc[k]
  BY DEF Goto, LockInv, LockTypes
<1>2. \A k \in Thief \ {h} : tpc[k] \notin Seizing
  BY <1>1, HolderAlone DEF Seizing, HoldsLock
<1> QED
  BY <1>1, <1>2

\* What such a step changes of IsLow and Dead.
Carries(h, from, to) ==
    /\ tpc[h] = from /\ tpc'[h] = to
    /\ \A k \in Thief \ {h} : tpc[k] \notin Seizing /\ tpc'[k] \notin Seizing
    /\ from \in Probing => \A lo : IsLow(lo) <=> lo = tH0[h]
    /\ from = "closed" => \A lo : IsLow(lo) <=> lo = tH0[h] + 1
    /\ from = "poison" => \A lo : IsLow(lo) <=> lo = head
    /\ to \in Probing => \A lo : IsLow(lo)' <=> lo = tH0'[h]
    /\ to = "closed" => \A lo : IsLow(lo)' <=> lo = tH0'[h] + 1
    /\ to \in {"poison", "unlock"} => \A lo : IsLow(lo)' <=> lo = head'
    /\ \A i : Dead(i) <=> from \in {"closed", "poison"} /\ i = tH0[h]
    /\ \A i : Dead(i)' <=> to \in {"closed", "poison"} /\ i = tH0'[h]
    /\ task_pool = Locked /\ opc \notin {"getLocked", "winnowLocked", "reset", "relocate"}

LEMMA HolderMoves ==
  ASSUME LockInv, NEW h \in Thief, NEW from \in Seizing, NEW to \in Seizing \cup {"unlock"},
         Goto(h, from, to)
  PROVE  Carries(h, from, to)
<1>1. /\ tpc[h] = from /\ tpc'[h] = to
      /\ \A k \in Thief \ {h} : tpc'[k] = tpc[k] /\ tpc[k] \notin Seizing
  BY HolderGoes
<1>2. \A k \in Thief \ {h} : tpc[k] \notin Seizing /\ tpc'[k] \notin Seizing
  BY <1>1
<1>3. /\ from \in Probing => \A lo : IsLow(lo) <=> lo = tH0[h]
      /\ from = "closed" => \A lo : IsLow(lo) <=> lo = tH0[h] + 1
      /\ from = "poison" => \A lo : IsLow(lo) <=> lo = head
  BY <1>1, <1>2 DEF IsLow, Probing, Seizing
<1>4. /\ to \in Probing => \A lo : IsLow(lo)' <=> lo = tH0'[h]
      /\ to = "closed" => \A lo : IsLow(lo)' <=> lo = tH0'[h] + 1
      /\ to \in {"poison", "unlock"} => \A lo : IsLow(lo)' <=> lo = head'
  BY <1>1, <1>2 DEF IsLow, Probing, Seizing
<1>5. \A i : Dead(i) <=> from \in {"closed", "poison"} /\ i = tH0[h]
  BY <1>1, <1>2 DEF Dead, Seizing
<1>6. \A i : Dead(i)' <=> to \in {"closed", "poison"} /\ i = tH0'[h]
  BY <1>1, <1>2 DEF Dead, Seizing
<1>7. task_pool = Locked /\ ~OwnerHoldsLock
  BY <1>1 DEF LockInv, LockDiscipline, HoldsLock, Seizing
<1>8. opc \notin {"getLocked", "winnowLocked", "reset", "relocate"}
  BY <1>7 DEF OwnerHoldsLock, InArena, Empty, Locked
<1> QED
  BY <1>1, <1>2, <1>3, <1>4, <1>5, <1>6, <1>7, <1>8 DEF Carries

LEMMA LockWindow == ASSUME WindowInv, NEW h \in Thief, Lock(h) PROVE WindowInv'
<1> USE DEF WindowInv, slot, prox, prio, owner, thief, hist, program
<1>1. LockInv'
  BY ThiefLockInv DEF ThiefStep
<1>2. /\ Goto(h, "loop", "bump") /\ task_pool \notin {Empty, Locked} /\ task_pool' = Locked
      /\ tH' = [tH EXCEPT ![h] = head] /\ tH0' = [tH0 EXCEPT ![h] = head]
      /\ UNCHANGED <<pool_ptr, size, pool, head, tail, prox, prio, owner, got, hist>>
  BY DEF Lock, Free
<1>3. /\ \A k \in Thief : tpc[k] \notin Probing \cup {"closed", "poison"}
      /\ \A i : ~Dead(i)
      /\ Window(head)
  BY <1>2, OwnerAlone
<1>4. /\ tpc'[h] = "bump" /\ tH'[h] = head /\ tH0'[h] = head
      /\ \A k \in Thief \ {h} : tpc'[k] \notin Probing \cup {"closed", "poison"}
  BY <1>2, <1>3 DEF Goto, LockInv, LockTypes, SlotTypes
<1>5. SlotTypes' /\ TaskTypes'
  BY <1>2, QuietTasks DEF SlotTypes
<1>6. OneKind'
  BY <1>2, <1>4 DEF OneKind, Probing
<1>7. OwnerWindow'
  <2>1. pool_ptr # Empty
    BY <1>2 DEF LockInv, LockDiscipline
  <2> QED
    BY <2>1, <1>2 DEF OwnerWindow, Empty, Locked
<1>8. ThiefWindow'
  BY <1>2, <1>4 DEF ThiefWindow, Probing, SlotTypes
<1>9. Windows'
  <2> SUFFICES ASSUME NEW lo \in Nat, IsLow(lo)' PROVE Window(lo)'
    BY DEF Windows
  <2>1. lo = head
    BY <1>4 DEF IsLow, Probing
  <2>2. Hi(lo)' = Hi(lo) /\ \A i : Outside(i)' <=> Outside(i)
    BY <1>2, <1>3, <1>4 DEF Hi, Outside, Dead, Probing
  <2>3. UNCHANGED <<size, pool, tail, opc, oH>>
    BY <1>2
  <2> QED
    BY <1>3, <1>4, <2>1, <2>2, <2>3 DEF Window, Probing
<1> QED
  BY <1>1, <1>5, <1>6, <1>7, <1>8, <1>9

LEMMA BumpWindow == ASSUME WindowInv, NEW h \in Thief, Bump(h) PROVE WindowInv'
<1> USE DEF WindowInv, slot, prox, prio, owner, thief, hist, program
<1>1. LockInv'
  BY ThiefLockInv DEF ThiefStep
<1>2. /\ Goto(h, "bump", "check") /\ tH' = [tH EXCEPT ![h] = @ + 1] /\ head' = tH[h] + 1
      /\ UNCHANGED <<task_pool, pool_ptr, size, pool, tail, prox, prio, owner,
                     tH0, vpool, got, hist>>
  BY DEF Bump
<1>3. /\ tpc[h] = "bump" /\ tpc'[h] = "check"
      /\ \A k \in Thief \ {h} : tpc'[k] \notin Seizing
      /\ \A lo : IsLow(lo) <=> lo = tH0[h]
      /\ \A lo : IsLow(lo)' <=> lo = tH0[h]
      /\ \A i : ~Dead(i) /\ ~Dead(i)'
      /\ task_pool = Locked
  <2>1. "bump" \in Seizing /\ "check" \in Seizing \cup {"unlock"}
    BY <1>2 DEF Seizing
  <2>2. Goto(h, "bump", "check")
    BY <1>2
  <2>3. Carries(h, "bump", "check")
    BY <2>1, <2>2, HolderMoves
  <2> QED
    BY <1>2, <2>3 DEF Carries, Probing
<1>4. tH[h] \in Nat /\ tH0[h] \in Nat /\ tH'[h] = tH[h] + 1 /\ tH0[h] <= tH[h]
  BY <1>2, <1>3 DEF SlotTypes, ThiefWindow
<1>5. SlotTypes' /\ TaskTypes'
  BY <1>2, <1>4, QuietTasks DEF SlotTypes
<1>6. OneKind'
  BY <1>2, <1>3, <1>4 DEF OneKind, Seizing
<1>7. OwnerWindow'
  BY <1>2, <1>3 DEF OwnerWindow, Empty, Locked
<1>8. ThiefWindow'
  BY <1>2, <1>3, <1>4 DEF ThiefWindow, Seizing
<1>9. Windows'
  <2> SUFFICES ASSUME NEW lo \in Nat, IsLow(lo)' PROVE Window(lo)'
    BY DEF Windows
  <2>1. Window(lo)
    BY <1>3 DEF Windows
  <2>2. Hi(lo)' = Hi(lo) /\ Hi(lo) \in Int /\ \A i : Outside(i)' <=> Outside(i)
    BY <1>2, <1>3 DEF Hi, Outside, SlotTypes
  <2>3. UNCHANGED <<size, pool, tail, opc, oH>>
    BY <1>2
  <2>4. tH'[h] <= Hi(lo) + 1
    BY <1>3, <1>4, <2>1, <2>2 DEF Window
  <2> QED
    BY <1>3, <2>1, <2>2, <2>3, <2>4 DEF Window, Seizing
<1> QED
  BY <1>1, <1>5, <1>6, <1>7, <1>8, <1>9

LEMMA CheckWindow == ASSUME WindowInv, NEW h \in Thief, Check(h) PROVE WindowInv'
<1> USE DEF WindowInv, slot, prox, prio, owner, thief, hist, program
<1>1. LockInv'
  BY ThiefLockInv DEF ThiefStep
<1>2. PICK to \in {"backOff", "read"} :
         /\ Goto(h, "check", to) /\ (to = "read" => tH[h] <= tail)
         /\ UNCHANGED <<slot, prox, prio, owner, tH, tH0, vpool, got, hist>>
  BY DEF Check, Overrun, SlotTypes
<1>3. /\ tpc[h] = "check" /\ tpc'[h] = to
      /\ \A k \in Thief \ {h} : tpc'[k] \notin Seizing
      /\ \A lo : IsLow(lo) <=> lo = tH0[h]
      /\ \A lo : IsLow(lo)' <=> lo = tH0[h]
      /\ \A i : ~Dead(i) /\ ~Dead(i)'
      /\ opc # "reset"
  <2>1. "check" \in Seizing /\ to \in Seizing \cup {"unlock"}
    BY <1>2 DEF Seizing
  <2>2. Goto(h, "check", to)
    BY <1>2
  <2>3. Carries(h, "check", to)
    BY <2>1, <2>2, HolderMoves
  <2> QED
    BY <1>2, <2>3 DEF Carries, Probing
<1>4. SlotTypes' /\ TaskTypes'
  BY <1>2, QuietTypes, QuietTasks
<1>5. OneKind'
  BY <1>2, <1>3 DEF OneKind, Seizing
<1>6. OwnerWindow'
  BY <1>2 DEF OwnerWindow
<1>7. ThiefWindow'
  BY <1>2, <1>3 DEF ThiefWindow, Seizing
<1>8. Windows'
  <2> SUFFICES ASSUME NEW lo \in Nat, IsLow(lo)' PROVE Window(lo)'
    BY DEF Windows
  <2>1. Window(lo) /\ lo = tH0[h] /\ tH0[h] < tH[h]
    BY <1>3 DEF Windows, ThiefWindow
  <2>2. Hi(lo)' = Hi(lo) /\ Hi(lo) \in Int /\ \A i : Outside(i)' <=> Outside(i)
    BY <1>2, <1>3 DEF Hi, Outside, SlotTypes
  <2>3. to = "read" => tH[h] <= Hi(lo) /\ tail # lo
    BY <1>2, <1>3, <2>1, <2>2 DEF Window, SlotTypes
  <2>4. UNCHANGED <<size, pool, tail, opc, oH, tH>>
    BY <1>2
  <2> QED
    BY <1>2, <1>3, <2>1, <2>2, <2>3, <2>4 DEF Window, Seizing
<1> QED
  BY <1>1, <1>4, <1>5, <1>6, <1>7, <1>8

LEMMA BackOffWindow == ASSUME WindowInv, NEW h \in Thief, BackOff(h) PROVE WindowInv'
<1> USE DEF WindowInv, slot, prox, prio, owner, thief, hist, program
<1>1. LockInv'
  BY ThiefLockInv DEF ThiefStep
<1>2. /\ Goto(h, "backOff", "unlock") /\ head' = tH0[h]
      /\ UNCHANGED <<task_pool, pool_ptr, size, pool, tail, prox, prio, owner,
                     tH, tH0, vpool, got, hist>>
  BY DEF BackOff, HeadBefore
<1>3. /\ tpc[h] = "backOff" /\ tpc'[h] = "unlock"
      /\ \A k \in Thief \ {h} : tpc'[k] \notin Seizing
      /\ \A lo : IsLow(lo) <=> lo = tH0[h]
      /\ \A lo : IsLow(lo)' <=> lo = head'
      /\ \A i : ~Dead(i) /\ ~Dead(i)'
      /\ task_pool = Locked
  <2>1. "backOff" \in Seizing /\ "unlock" \in Seizing \cup {"unlock"}
    BY <1>2 DEF Seizing
  <2>2. Goto(h, "backOff", "unlock")
    BY <1>2
  <2>3. Carries(h, "backOff", "unlock")
    BY <2>1, <2>2, HolderMoves
  <2> QED
    BY <1>2, <2>3 DEF Carries, Probing
<1>4. SlotTypes' /\ TaskTypes'
  <2>1. head' \in Nat
    BY <1>2 DEF SlotTypes
  <2> QED
    BY <2>1, <1>2, QuietTasks DEF SlotTypes
<1>5. OneKind'
  BY <1>2, <1>3 DEF OneKind, Seizing
<1>6. OwnerWindow'
  BY <1>2, <1>3 DEF OwnerWindow, Empty, Locked
<1>7. ThiefWindow'
  BY <1>3 DEF ThiefWindow, Seizing
<1>8. Windows'
  <2> SUFFICES ASSUME NEW lo \in Nat, IsLow(lo)' PROVE Window(lo)'
    BY DEF Windows
  <2>1. Window(lo)
    BY <1>2, <1>3 DEF Windows
  <2>2. Hi(lo)' = Hi(lo) /\ \A i : Outside(i)' <=> Outside(i)
    BY <1>2, <1>3 DEF Hi, Outside
  <2>3. UNCHANGED <<size, pool, tail, opc, oH, tH>>
    BY <1>2
  <2> QED
    BY <1>3, <2>1, <2>2, <2>3 DEF Window, Seizing
<1> QED
  BY <1>1, <1>4, <1>5, <1>6, <1>7, <1>8

\* The element read is a task, and the window begins after it from then on,
\* unless it is a proxy that is passed over.
LEMMA ReadWindow == ASSUME WindowInv, NEW h \in Thief, Read(h) PROVE WindowInv'
<1> USE DEF WindowInv, slot, prox, prio, owner, thief, hist, program
<1>1. LockInv'
  BY ThiefLockInv DEF ThiefStep
<1> DEFINE e == pool[tH[h] - 1]
           passed == e # None /\ tag[e] = "both" /\ idle
<1>2. PICK to \in {"bump", "close", "poison"} :
         /\ Goto(h, "read", to)
         /\ to = "bump" <=> passed
         /\ to = "bump" => got' = got
         /\ to # "bump" => got' = [got EXCEPT ![h] = e]
         /\ to = "close" => tH0[h] + 1 < tH[h]
         /\ to = "poison" => ~(tH0[h] + 1 < tH[h])
         /\ UNCHANGED <<slot, prox, prio, owner, tH, tH0, vpool, hist>>
  BY DEF Read
<1>3. /\ tpc[h] = "read" /\ tpc'[h] = to
      /\ \A k \in Thief \ {h} : tpc'[k] \notin Seizing
      /\ \A lo : IsLow(lo) <=> lo = tH0[h]
      /\ to # "poison" => \A lo : IsLow(lo)' <=> lo = tH0[h]
      /\ to = "poison" => \A lo : IsLow(lo)' <=> lo = head
      /\ \A i : ~Dead(i)
      /\ \A i : Dead(i)' <=> to = "poison" /\ i = tH0[h]
      /\ opc # "reset"
  <2>1. "read" \in Seizing /\ to \in Seizing \cup {"unlock"}
    BY <1>2 DEF Seizing
  <2>2. Goto(h, "read", to)
    BY <1>2
  <2>3. Carries(h, "read", to)
    BY <2>1, <2>2, HolderMoves
  <2> QED
    BY <1>2, <2>3 DEF Carries, Probing
<1>4. tH[h] \in Nat /\ tH0[h] \in Nat /\ head = tH[h] /\ tH0[h] < tH[h]
  BY <1>3 DEF SlotTypes, ThiefWindow
<1>5. Window(tH0[h])
  BY <1>3, <1>4 DEF Windows
<1>6. Hi(tH0[h]) \in Int /\ tH[h] <= Hi(tH0[h]) /\ opc \notin {"winnowScan", "winnowStore", "resetLock"}
  BY <1>3, <1>4, <1>5 DEF Window, Hi, SlotTypes
<1>7. tH[h] - 1 \in 0 .. size - 1 /\ e # None /\ e \in Task
  <2>1. Hi(tH0[h]) <= size /\ size \in Nat
    BY <1>5 DEF Window, SlotTypes
  <2>2. tH[h] - 1 \in 0 .. size - 1 /\ tH[h] - 1 \in tH0[h] .. Hi(tH0[h]) - 1
    BY <2>1, <1>4, <1>6
  <2>3. e # None
    BY <2>2, <1>5 DEF Window
  <2> QED
    BY <2>2, <2>3 DEF SlotTypes, Entry
<1>8. SlotTypes' /\ TaskTypes'
  <2>1. got' \in [Thief -> Entry]
    BY <1>2, <1>7 DEF SlotTypes, Entry
  <2> QED
    BY <2>1, <1>2, QuietTasks DEF SlotTypes
<1>9. OneKind'
  <2>1. to = "bump" => affine # {}
    BY <1>2, <1>7 DEF OneKind
  <2>2. UNCHANGED <<affine, low, tag, top, offloaded, opc, res, tH, tH0>>
    BY <1>2
  <2> QED
    BY <2>1, <2>2, <1>3 DEF OneKind, Seizing
<1>10. OwnerWindow'
  BY <1>2 DEF OwnerWindow
<1>11. to # "bump" => got'[h] = e
  BY <1>2 DEF SlotTypes
<1>12. ThiefWindow'
  <2>1. UNCHANGED <<head, pool, tH, tH0>>
    BY <1>2
  <2>2. to = "poison" => head = tH0[h] + 1
    BY <1>2, <1>4
  <2> QED
    BY <2>1, <2>2, <1>2, <1>3, <1>4, <1>7, <1>11 DEF ThiefWindow, Seizing
<1>13. Windows'
  <2> SUFFICES ASSUME NEW lo \in Nat, IsLow(lo)' PROVE Window(lo)'
    BY DEF Windows
  <2>1. UNCHANGED <<size, pool, tail, opc, oH, oT, oT0, batch, reloading, tH>>
    BY <1>2
  <2>2. CASE to # "poison"
    <3>1. Window(lo) /\ lo = tH0[h]
      BY <2>2, <1>3, <1>5
    <3>2. Hi(lo)' = Hi(lo) /\ \A i : Outside(i)' <=> Outside(i)
      BY <2>1, <2>2, <1>3 DEF Hi, Outside
    <3> QED
      BY <1>3, <1>6, <2>1, <2>2, <3>1, <3>2 DEF Window, Seizing
  <2>3. CASE to = "poison"
    <3>1. lo = tH0[h] + 1 /\ lo = tH[h]
      BY <2>3, <1>2, <1>3, <1>4
    <3>2. Hi(lo)' = Hi(tH0[h])
      BY <2>1, <1>3, <1>6 DEF Hi
    <3>3. \A i : Outside(i)' <=> Outside(i) \/ i = tH0[h]
      BY <2>1, <2>3, <1>3 DEF Outside
    <3>4. \A i \in 0 .. size - 1 :
             pool[i] # None <=> i \in lo .. Hi(tH0[h]) - 1 \/ Outside(i)'
      BY <1>4, <1>5, <1>6, <3>1, <3>3 DEF Window
    <3>5. /\ lo <= Hi(tH0[h]) /\ Hi(tH0[h]) <= size /\ tail <= Hi(tH0[h])
          /\ opc = "winnowCut" => oH - 1 <= lo
          /\ opc = "winnowCheck" => tail <= lo
      BY <1>3, <1>4, <1>5, <1>6, <3>1 DEF Window, SlotTypes
    <3> QED
      BY <1>3, <1>6, <2>1, <2>3, <3>2, <3>4, <3>5 DEF Window, Seizing
  <2> QED
    BY <2>2, <2>3
<1> QED
  BY <1>1, <1>8, <1>9, <1>10, <1>12, <1>13

LEMMA CloseHoleWindow == ASSUME WindowInv, NEW h \in Thief, CloseHole(h) PROVE WindowInv'
<1> USE DEF WindowInv, slot, prox, prio, owner, thief, hist, program
<1>1. LockInv'
  BY ThiefLockInv DEF ThiefStep
<1>2. /\ Goto(h, "close", "closed")
      /\ pool' = [i \in DOMAIN pool |->
                    IF i \in tH0[h] + 1 .. tH[h] - 1 THEN pool[i - 1] ELSE pool[i]]
      /\ UNCHANGED <<task_pool, pool_ptr, size, head, tail, prox, prio, owner,
                     tH, tH0, vpool, got, hist>>
  BY DEF CloseHole, FirstMoved
<1>3. /\ tpc[h] = "close" /\ tpc'[h] = "closed"
      /\ \A k \in Thief \ {h} : tpc'[k] \notin Seizing
      /\ \A lo : IsLow(lo) <=> lo = tH0[h]
      /\ \A lo : IsLow(lo)' <=> lo = tH0[h] + 1
      /\ \A i : ~Dead(i)
      /\ \A i : Dead(i)' <=> i = tH0[h]
      /\ task_pool = Locked /\ opc # "reset"
  <2>1. "close" \in Seizing /\ "closed" \in Seizing \cup {"unlock"}
    BY <1>2 DEF Seizing
  <2>2. Goto(h, "close", "closed")
    BY <1>2
  <2>3. Carries(h, "close", "closed")
    BY <2>1, <2>2, HolderMoves
  <2> QED
    BY <1>2, <2>3 DEF Carries, Probing
<1>4. tH[h] \in Nat /\ tH0[h] \in Nat /\ head = tH[h] /\ tH0[h] + 1 < tH[h] /\ got[h] # None
  BY <1>3 DEF SlotTypes, ThiefWindow
<1>5. affine # {} /\ low = {} /\ opc \notin WinnowPC
  BY <1>3, <1>4 DEF OneKind
<1>6. Window(tH0[h]) /\ Hi(tH0[h]) \in Int /\ tH[h] <= Hi(tH0[h]) /\ Hi(tH0[h]) <= size
  BY <1>3, <1>4 DEF Windows, Window, Hi, SlotTypes
<1>7. /\ pool' \in [0 .. size - 1 -> Entry]
      /\ \A i \in 0 .. size - 1 :
            pool'[i] = IF i \in tH0[h] + 1 .. tH[h] - 1 THEN pool[i - 1] ELSE pool[i]
  <2>1. \A i \in tH0[h] + 1 .. tH[h] - 1 : i - 1 \in 0 .. size - 1
    BY <1>4, <1>6 DEF SlotTypes
  <2> QED
    BY <2>1, <1>2 DEF SlotTypes
<1>8. SlotTypes' /\ TaskTypes'
  BY <1>2, <1>7, QuietTasks DEF SlotTypes
<1>9. OneKind'
  BY <1>2, <1>3, <1>5 DEF OneKind
<1>10. OwnerWindow'
  <2>1. ASSUME opc = "commit", NEW j \in 1 .. Len(batch)
        PROVE  pool'[oT + j - 1] = pool[oT + j - 1]
    <3>1. tail = oT /\ oT + Len(batch) <= size /\ Hi(tH0[h]) = oT
      BY <2>1 DEF OwnerWindow, Hi
    <3>2. PICK len \in Nat : len = Len(batch)
      <4>1. Len(batch) \in Nat
        BY LenProperties DEF SlotTypes
      <4> QED
        BY <4>1
    <3>3. oT + j - 1 \in 0 .. size - 1 /\ oT + j - 1 >= tH[h]
      BY <3>1, <3>2, <1>4, <1>6 DEF SlotTypes
    <3> QED
      BY <3>3, <1>4, <1>7
  <2>2. UNCHANGED <<task_pool, pool_ptr, size, head, tail, owner>>
    BY <1>2
  <2> QED
    BY <2>1, <2>2 DEF OwnerWindow
<1>11. ThiefWindow'
  <2>1. UNCHANGED <<head, tH, tH0, got>>
    BY <1>2
  <2> QED
    BY <2>1, <1>3, <1>4 DEF ThiefWindow, Seizing
<1>12. Windows'
  <2> SUFFICES ASSUME NEW lo \in Nat, IsLow(lo)' PROVE Window(lo)'
    BY DEF Windows
  <2>1. lo = tH0[h] + 1
    BY <1>3
  <2>2. UNCHANGED <<size, tail, opc, oH, oT, oT0, batch, reloading, tH>>
    BY <1>2
  <2>3. Hi(lo)' = Hi(tH0[h])
    BY <2>2, <1>5 DEF Hi, WinnowPC
  <2>4. \A i : Outside(i)' <=> Outside(i) \/ i = tH0[h]
    BY <2>2, <1>3 DEF Outside
  <2>5. ASSUME NEW i \in 0 .. size - 1
        PROVE  pool'[i] # None <=> i \in lo .. Hi(tH0[h]) - 1 \/ Outside(i)'
    <3>1. CASE i \in tH0[h] + 1 .. tH[h] - 1
      <4>1. pool'[i] = pool[i - 1] /\ i - 1 \in 0 .. size - 1 /\ i - 1 \in tH0[h] .. Hi(tH0[h]) - 1
        BY <3>1, <1>4, <1>6, <1>7 DEF SlotTypes
      <4>2. pool'[i] # None
        BY <4>1, <1>6 DEF Window
      <4> QED
        BY <3>1, <4>2, <2>1, <1>4, <1>6
    <3>2. CASE i \notin tH0[h] + 1 .. tH[h] - 1
      <4>1. pool'[i] = pool[i]
        BY <3>2, <1>7
      <4>2. pool[i] # None <=> i \in tH0[h] .. Hi(tH0[h]) - 1 \/ Outside(i)
        BY <1>6 DEF Window
      <4> QED
        BY <3>2, <4>1, <4>2, <2>1, <2>4, <1>4, <1>6
    <3> QED
      BY <3>1, <3>2
  <2>6. lo <= Hi(tH0[h]) /\ tail <= Hi(tH0[h])
    BY <1>3, <1>4, <1>6, <2>1 DEF Window
  <2> QED
    BY <1>3, <1>5, <1>6, <2>2, <2>3, <2>5, <2>6 DEF Window, Seizing, WinnowPC
<1> QED
  BY <1>1, <1>8, <1>9, <1>10, <1>11, <1>12

LEMMA LowerHeadWindow == ASSUME WindowInv, NEW h \in Thief, LowerHead(h) PROVE WindowInv'
<1> USE DEF WindowInv, slot, prox, prio, owner, thief, hist, program
<1>1. LockInv'
  BY ThiefLockInv DEF ThiefStep
<1>2. /\ Goto(h, "closed", "poison") /\ head' = tH0[h] + 1
      /\ UNCHANGED <<task_pool, pool_ptr, size, pool, tail, prox, prio, owner,
                     tH, tH0, vpool, got, hist>>
  BY DEF LowerHead
<1>3. /\ tpc[h] = "closed" /\ tpc'[h] = "poison"
      /\ \A k \in Thief \ {h} : tpc'[k] \notin Seizing
      /\ \A lo : IsLow(lo) <=> lo = tH0[h] + 1
      /\ \A lo : IsLow(lo)' <=> lo = head'
      /\ \A i : Dead(i)' <=> Dead(i)
      /\ task_pool = Locked
  <2>1. "closed" \in Seizing /\ "poison" \in Seizing \cup {"unlock"}
    BY <1>2 DEF Seizing
  <2>2. Goto(h, "closed", "poison")
    BY <1>2
  <2>3. Carries(h, "closed", "poison")
    BY <2>1, <2>2, HolderMoves
  <2> QED
    BY <1>2, <2>3 DEF Carries, Probing
<1>4. SlotTypes' /\ TaskTypes'
  <2>1. head' \in Nat
    BY <1>2 DEF SlotTypes
  <2> QED
    BY <2>1, <1>2, QuietTasks DEF SlotTypes
<1>5. OneKind'
  BY <1>2, <1>3 DEF OneKind, Seizing
<1>6. OwnerWindow'
  BY <1>2, <1>3 DEF OwnerWindow, Empty, Locked
<1>7. ThiefWindow'
  <2>1. got[h] # None
    BY <1>3 DEF ThiefWindow
  <2> QED
    BY <2>1, <1>2, <1>3 DEF ThiefWindow, Seizing
<1>8. Windows'
  <2> SUFFICES ASSUME NEW lo \in Nat, IsLow(lo)' PROVE Window(lo)'
    BY DEF Windows
  <2>1. Window(lo)
    BY <1>2, <1>3 DEF Windows
  <2>2. Hi(lo)' = Hi(lo) /\ \A i : Outside(i)' <=> Outside(i)
    BY <1>2, <1>3 DEF Hi, Outside
  <2>3. UNCHANGED <<size, pool, tail, opc, oH, tH>>
    BY <1>2
  <2> QED
    BY <1>3, <2>1, <2>2, <2>3 DEF Window, Seizing
<1> QED
  BY <1>1, <1>4, <1>5, <1>6, <1>7, <1>8

LEMMA PoisonStolenWindow == ASSUME WindowInv, NEW h \in Thief, PoisonStolen(h) PROVE WindowInv'
<1> USE DEF WindowInv, slot, prox, prio, owner, thief, hist, program
<1>1. LockInv'
  BY ThiefLockInv DEF ThiefStep
<1>2. /\ Goto(h, "poison", "unlock") /\ pool' = [pool EXCEPT ![tH0[h]] = None]
      /\ UNCHANGED <<task_pool, pool_ptr, size, head, tail, prox, prio, owner,
                     tH, tH0, vpool, got, hist>>
  BY DEF PoisonStolen
<1>3. /\ tpc[h] = "poison" /\ tpc'[h] = "unlock"
      /\ \A k \in Thief \ {h} : tpc'[k] \notin Seizing
      /\ \A lo : IsLow(lo) <=> lo = head
      /\ \A lo : IsLow(lo)' <=> lo = head
      /\ \A i : Dead(i) <=> i = tH0[h]
      /\ \A i : ~Dead(i)'
      /\ task_pool = Locked
  <2>1. "poison" \in Seizing /\ "unlock" \in Seizing \cup {"unlock"}
    BY <1>2 DEF Seizing
  <2>2. Goto(h, "poison", "unlock")
    BY <1>2
  <2>3. Carries(h, "poison", "unlock")
    BY <2>1, <2>2, HolderMoves
  <2> QED
    BY <1>2, <2>3 DEF Carries, Probing
<1>4. tH0[h] \in Nat /\ head = tH0[h] + 1 /\ head \in Nat
  BY <1>3 DEF SlotTypes, ThiefWindow
<1>5. Window(head) /\ IsLow(head)
  BY <1>3, <1>4 DEF Windows
<1>6. /\ pool' \in [0 .. size - 1 -> Entry]
      /\ \A i \in 0 .. size - 1 : pool'[i] = IF i = tH0[h] THEN None ELSE pool[i]
  BY <1>2 DEF SlotTypes, Entry
<1>7. SlotTypes' /\ TaskTypes'
  BY <1>2, <1>6, QuietTasks DEF SlotTypes
<1>8. OneKind'
  BY <1>2, <1>3 DEF OneKind, Seizing
<1>9. \A i : Outside(i)' <=> Outside(i) /\ i # tH0[h]
  <2>1. opc \in {"commit", "enter", "keepLast"} => head <= tail
    BY <1>5 DEF Window, Hi
  <2>2. opc = "commit" => tail = oT
    BY DEF OwnerWindow
  <2>3. UNCHANGED <<tail, opc, oT, batch, reloading>>
    BY <1>2
  <2>4. opc = "commit" => \A i \in oT .. oT + Len(batch) - 1 : i # tH0[h]
    BY <2>1, <2>2, <1>4 DEF SlotTypes
  <2>5. opc \in {"enter", "keepLast"} => tail # tH0[h]
    BY <2>1, <1>4 DEF SlotTypes
  <2> QED
    BY <2>3, <2>4, <2>5, <1>3 DEF Outside
<1>10. OwnerWindow'
  <2>1. ASSUME opc = "commit", NEW j \in 1 .. Len(batch)
        PROVE  pool'[oT + j - 1] = pool[oT + j - 1]
    <3>1. tail = oT /\ oT + Len(batch) <= size /\ Hi(head) = oT /\ head <= oT
      BY <2>1, <1>5 DEF OwnerWindow, Window, Hi
    <3>2. PICK len \in Nat : len = Len(batch)
      <4>1. Len(batch) \in Nat
        BY LenProperties DEF SlotTypes
      <4> QED
        BY <4>1
    <3>3. oT + j - 1 \in 0 .. size - 1 /\ oT + j - 1 # tH0[h]
      BY <3>1, <3>2, <1>4 DEF SlotTypes
    <3> QED
      BY <3>3, <1>6
  <2>2. UNCHANGED <<task_pool, pool_ptr, size, head, tail, owner>>
    BY <1>2
  <2> QED
    BY <2>1, <2>2 DEF OwnerWindow
<1>11. ThiefWindow'
  BY <1>3 DEF ThiefWindow, Seizing
<1>12. Windows'
  <2> SUFFICES ASSUME NEW lo \in Nat, IsLow(lo)' PROVE Window(lo)'
    BY DEF Windows
  <2>1. Window(lo) /\ lo = head
    BY <1>3, <1>5
  <2>2. UNCHANGED <<size, tail, opc, oH, oT, oT0, tH>>
    BY <1>2
  <2>3. Hi(lo)' = Hi(lo)
    BY <2>2 DEF Hi
  <2>4. \A i \in 0 .. size - 1 : pool'[i] # None <=> i \in lo .. Hi(lo) - 1 \/ Outside(i)'
    <3> SUFFICES ASSUME NEW i \in 0 .. size - 1
                 PROVE  pool'[i] # None <=> i \in lo .. Hi(lo) - 1 \/ Outside(i)'
      OBVIOUS
    <3>1. pool[i] # None <=> i \in lo .. Hi(lo) - 1 \/ Outside(i)
      BY <2>1 DEF Window
    <3>2. CASE i = tH0[h]
      BY <3>2, <2>1, <1>4, <1>6, <1>9
    <3>3. CASE i # tH0[h]
      BY <3>1, <3>3, <1>6, <1>9
    <3> QED
      BY <3>2, <3>3
  <2> QED
    BY <1>3, <2>1, <2>2, <2>3, <2>4 DEF Window, Seizing
<1> QED
  BY <1>1, <1>7, <1>8, <1>10, <1>11, <1>12

(***************************************************************************)
(* The invariant and what follows from it.                                 *)
(***************************************************************************)
LEMMA OwnerStepWindow == ASSUME WindowInv, OwnerStep PROVE WindowInv'
  BY SpawnWindow, PrepareWindow, RelocateWindow, WriteWindow, CommitWindow, EnterArenaWindow,
     AcquireWindow, GetTaskWindow, GetCheckWindow, GetLockedWindow, ExtractOwnWindow,
     DispatchWindow, WinnowReadWindow, WinnowCutWindow, WinnowCheckWindow,
     WinnowUnlockedWindow, WinnowStoreWindow, WinnowLockedWindow, ResetWindow,
     ReloadWindow, KeepLastWindow DEF OwnerStep

LEMMA ThiefStepWindow == ASSUME WindowInv, NEW h \in Thief, ThiefStep(h) PROVE WindowInv'
  BY LookForWorkWindow, LockWindow, BumpWindow, CheckWindow, BackOffWindow, ReadWindow,
     CloseHoleWindow, LowerHeadWindow, PoisonStolenWindow, UnlockWindow, ExtractWindow,
     PopMailWindow DEF ThiefStep

LEMMA StutterWindow == ASSUME WindowInv, UNCHANGED vars PROVE WindowInv'
<1> USE DEF WindowInv, vars, slot, prox, prio, owner, thief, hist, program
<1>1. LockInv'
  BY DEF LockInv, LockTypes, LockDiscipline, HoldsLock, OwnerHoldsLock, InArena
<1>2. SlotTypes' /\ TaskTypes'
  BY QuietTypes, QuietTasks
<1>3. OneKind'
  BY DEF OneKind
<1>4. OwnerWindow'
  BY DEF OwnerWindow
<1>5. ThiefWindow'
  BY QuietThieves
<1>6. Windows'
  BY DEF Windows, IsLow, Window, Hi, Outside, Dead
<1> QED
  BY <1>1, <1>2, <1>3, <1>4, <1>5, <1>6

LEMMA WindowStep == ASSUME WindowInv, [Next]_vars PROVE WindowInv'
  BY OwnerStepWindow, ThiefStepWindow, ChangeTopWindow, StutterWindow DEF Next

\* The pool holds tasks in its window and nowhere else, and owner and thieves
\* claim only elements of the window, whatever spawning, relocation, stealing
\* past proxies, back-off and winnowing go on at once (prepare_task_pool,
\* get_task, steal_task, winnow_task_pool).
THEOREM WindowInvariant == ASSUME Separate PROVE Spec => []WindowInv
<1>1. Init => WindowInv
  BY InitWindow
<1>2. WindowInv /\ [Next]_vars => WindowInv'
  BY WindowStep
<1> QED
  BY <1>1, <1>2, PTL DEF Spec

\* When the owner loses the arbitration with a thief, the pool it has locked
\* is exactly empty: the assertion of get_task.
THEOREM ArbitrationSound == ASSUME Separate PROVE Spec => []ArbitrationHolds
<1>1. WindowInv => ArbitrationHolds
  <2> SUFFICES ASSUME WindowInv, opc = "getLocked", head > oT PROVE head = oT + 1
    BY DEF ArbitrationHolds
  <2>1. Window(head)
    BY OwnerAlone DEF WindowInv, OwnerHoldsLock
  <2> QED
    BY <2>1 DEF Window, Hi, WindowInv, SlotTypes
<1> QED
  BY <1>1, WindowInvariant, PTL

\* A slot that is marked as empty holds no task, so that none is left where
\* neither its owner nor a thief looks (get_task, reset_deque_and_leave_arena).
THEOREM NobodyStranded == ASSUME Separate PROVE Spec => []NothingStranded
<1>1. WindowInv => NothingStranded
  <2> SUFFICES ASSUME WindowInv, task_pool = Empty, opc \notin {"commit", "enter", "keepLast"},
                      NEW i \in DOMAIN pool
               PROVE  pool[i] = None
    BY DEF NothingStranded
  <2>1. Window(head) /\ \A j : ~Dead(j)
    BY OwnerAlone DEF WindowInv, Empty, Locked
  <2>2. head = tail /\ opc \in {"idle", "prepare", "relocate", "write", "extract", "dispatch"}
    BY DEF WindowInv, OwnerWindow
  <2>3. ~Outside(i) /\ Hi(head) = tail /\ i \in 0 .. size - 1
    BY <2>1, <2>2 DEF Outside, Hi, WindowInv, SlotTypes
  <2> QED
    BY <2>1, <2>2, <2>3 DEF Window, WindowInv, SlotTypes
<1> QED
  BY <1>1, WindowInvariant, PTL

(***************************************************************************)
(* Part 3: where a task is: in one place of the pool's side at a time, and *)
(* its proxy in at most one place of the mailbox's side.                   *)
(***************************************************************************)

\* An element that a thief has taken or moved, though it is still in the pool.
Stale(i) == Dead(i) \/ \E h \in Thief : tpc[h] = "close" /\ i = tH[h] - 1

\* Place k of kind a on the pool's side holds t.
Holds(a, k, t) ==
    \/ a = "pool" /\ k \in DOMAIN pool /\ pool[k] = t /\ ~Stale(k)
    \/ a = "batch" /\ opc # "commit" /\ k \in DOMAIN batch /\ batch[k] = t
    \/ a = "res" /\ k = 0 /\ res = t
    \/ a = "offloaded" /\ k = 0 /\ t \in offloaded
    \/ a = "got" /\ k \in Thief /\ tpc[k] # "mail" /\ got[k] = t

\* Place k of kind a on the mailbox's side holds the proxy of t.
Posted(a, k, t) ==
    \/ a = "mail" /\ k \in DOMAIN mail /\ mail[k] = t
    \/ a = "popped" /\ k \in Thief /\ tpc[k] = "mail" /\ got[k] = t

Held(t) == \E a, k : Holds(a, k, t)
Mailed(t) == \E a, k : Posted(a, k, t)

InOnePlace ==
    \A t \in Task : \A a, b, k, l : Holds(a, k, t) /\ Holds(b, l, t) => a = b /\ k = l
InOneBox ==
    \A t \in Task : \A a, b, k, l : Posted(a, k, t) /\ Posted(b, l, t) => a = b /\ k = l

\* A local that is not in use holds no task.
Clean ==
    /\ opc \notin {"extract", "dispatch", "winnowStore", "resetLock", "reset"} => res = None
    /\ opc \notin {"prepare", "prepareLock", "relocate", "write", "commit"} => batch = <<>>
    /\ \A h \in Thief :
           /\ tpc[h] \in {"out", "loop", "bump", "check", "backOff", "read"} => got[h] = None
           /\ tpc[h] \in {"extract", "mail"} => got[h] # None
           /\ tpc[h] = "mail" => h = Recipient

\* How often t has been executed, what its tag says, and where it is.
Fate(t) ==
    /\ taken[t] \in {0, 1}
    /\ t \in unspawned => tag[t] = "plain" /\ taken[t] = 0 /\ ~Held(t)
    /\ Mailed(t) <=> tag[t] \in {"both", "mailbox"}
    /\ tag[t] = "both" => taken[t] = 0
    /\ tag[t] = "pool" => taken[t] = 1 /\ Held(t)
    /\ t \notin unspawned /\ tag[t] # "pool" => (Held(t) <=> taken[t] = 0)
    /\ tag[t] \in {"mailbox", "freed"} /\ Held(t) => opc = "dispatch" /\ res = t

Fates == \A t \in Task : Fate(t)

HistoryTypes == taken \in [Task -> Nat] /\ idle \in BOOLEAN /\ changes \in 0 .. MaxTopChanges

PlacesInv == Clean /\ HistoryTypes /\ InOnePlace /\ InOneBox /\ Fates

\* No task is spawned at first.
LEMMA InitPlaces == ASSUME Init PROVE PlacesInv
<1>1. Clean
  BY DEF Init, Clean
<1>2. HistoryTypes
  <2>1. taken = [t \in Task |-> 0] /\ idle = FALSE /\ changes = 0
    BY DEF Init
  <2>2. changes \in 0 .. MaxTopChanges
    BY <2>1, SizesPositive
  <2>3. taken \in [Task -> Nat]
    BY <2>1
  <2>4. idle \in BOOLEAN
    BY <2>1
  <2> QED
    BY <2>2, <2>3, <2>4, Zenon DEF HistoryTypes
<1>3. \A t \in Task : ~Held(t) /\ ~Mailed(t)
  <2>1. \A t \in Task : \A a, k : ~Holds(a, k, t)
    BY NoneIsNoTask DEF Init, Holds
  <2>2. \A t \in Task : \A a, k : ~Posted(a, k, t)
    BY DEF Init, Posted
  <2> QED
    BY <2>1, <2>2 DEF Held, Mailed
<1>4. InOnePlace /\ InOneBox
  BY <1>3 DEF InOnePlace, InOneBox, Held, Mailed
<1>5. Fates
  BY <1>3 DEF Init, Fates, Fate
<1> QED
  BY <1>1, <1>2, <1>4, <1>5 DEF PlacesInv

\* A step that moves tasks and proxies from place to place decides nothing.
LEMMA Moved ==
  ASSUME PlacesInv, InOnePlace', UNCHANGED <<tag, taken, unspawned>>,
         opc = "dispatch" => opc' = "dispatch" /\ res' = res,
         \A t \in Task : (Held(t)' <=> Held(t)) /\ (Mailed(t)' <=> Mailed(t))
  PROVE  Fates'
<1> SUFFICES ASSUME NEW t \in Task PROVE Fate(t)'
  BY DEF Fates
<1>1. Fate(t)
  BY DEF PlacesInv, Fates
<1>2. tag[t] \in {"mailbox", "freed"} /\ Held(t) => opc' = "dispatch" /\ res' = t
  BY <1>1 DEF Fate
<1> QED
  BY <1>1, <1>2 DEF Fate

\* A step that leaves every task where it is
LEMMA Unmoved ==
  ASSUME PlacesInv, UNCHANGED <<tag, taken, unspawned>>,
         opc = "dispatch" => opc' = "dispatch" /\ res' = res,
         \A t \in Task : \A a, k : /\ Holds(a, k, t)' <=> Holds(a, k, t)
                                   /\ Posted(a, k, t)' <=> Posted(a, k, t)
  PROVE  InOnePlace' /\ InOneBox' /\ Fates'
<1>1. InOnePlace' /\ InOneBox'
  BY DEF PlacesInv, InOnePlace, InOneBox
<1>2. \A t \in Task : (Held(t)' <=> Held(t)) /\ (Mailed(t)' <=> Mailed(t))
  BY DEF Held, Mailed
<1> QED
  BY <1>1, <1>2, Moved

\* A step of the owner that touches neither pool nor tasks
LEMMA OwnerUnmoved ==
  ASSUME PlacesInv, UNCHANGED <<tag, taken, unspawned, pool, offloaded, res, mail, tpc, tH, tH0, got>>,
         \/ batch' = batch /\ (opc' = "commit" <=> opc = "commit")
         \/ opc = "commit" /\ batch' = <<>>,
         opc = "dispatch" => opc' = "dispatch"
  PROVE  InOnePlace' /\ InOneBox' /\ Fates'
<1>1. \A i : Stale(i)' <=> Stale(i)
  BY DEF Stale, Dead
<1>2. \A t \in Task : \A a, k : /\ Holds(a, k, t)' <=> Holds(a, k, t)
                                /\ Posted(a, k, t)' <=> Posted(a, k, t)
  BY <1>1 DEF Holds, Posted
<1> QED
  BY <1>2, Unmoved

(***************************************************************************)
(* The owner.                                                              *)
(***************************************************************************)
\* The steps that touch neither pool nor tasks
LEMMA QuietOwnerPlaces ==
  ASSUME PlacesInv,
         \/ Prepare \/ Commit \/ EnterArena \/ Acquire \/ GetTask
         \/ GetCheck /\ Contended
         \/ WinnowRead \/ WinnowCut \/ WinnowCheck \/ WinnowStore \/ Reset \/ ChangeTop
  PROVE  PlacesInv'
<1> USE DEF slot, prox, prio, owner, thief, hist, program
<1>1. CASE Prepare
  <2>1. /\ opc = "prepare" /\ opc' \in {"write", "prepareLock", "relocate"}
        /\ UNCHANGED <<batch, res, pool, prox, prio, thief, hist>>
    BY <1>1 DEF Prepare
  <2> QED
    BY <2>1, OwnerUnmoved DEF PlacesInv, Clean, HistoryTypes
<1>2. CASE Commit
  <2>1. /\ opc = "commit" /\ opc' \in {"enter", "keepLast", "idle"} /\ batch' = <<>>
        /\ UNCHANGED <<res, pool, prox, prio, thief, hist>>
    BY <1>2 DEF Commit
  <2> QED
    BY <2>1, OwnerUnmoved DEF PlacesInv, Clean, HistoryTypes
<1>3. CASE EnterArena
  <2>1. /\ opc = "enter" /\ opc' \in {"keepLast", "idle"}
        /\ UNCHANGED <<batch, res, pool, prox, prio, thief, hist>>
    BY <1>3 DEF EnterArena
  <2> QED
    BY <2>1, OwnerUnmoved DEF PlacesInv, Clean, HistoryTypes
<1>4. CASE Acquire
  <2>1. /\ opc \in {"prepareLock", "getLock", "winnowLock", "resetLock"}
        /\ opc = "prepareLock" => opc' = "relocate"
        /\ opc = "getLock" => opc' = "getLocked"
        /\ opc = "winnowLock" => opc' = "winnowLocked"
        /\ opc = "resetLock" => opc' = "reset"
        /\ UNCHANGED <<batch, res, pool, prox, prio, thief, hist>>
    BY <1>4 DEF Acquire
  <2> QED
    BY <2>1, OwnerUnmoved DEF PlacesInv, Clean, HistoryTypes
<1>5. CASE GetTask
  <2>1. /\ opc \in {"idle", "retry"} /\ opc' = "getCheck"
        /\ UNCHANGED <<batch, res, pool, prox, prio, thief, hist>>
    BY <1>5 DEF GetTask
  <2> QED
    BY <2>1, OwnerUnmoved DEF PlacesInv, Clean, HistoryTypes
<1>6. CASE GetCheck /\ Contended
  <2>1. /\ opc = "getCheck" /\ opc' = "getLock"
        /\ UNCHANGED <<batch, res, pool, prox, prio, thief, hist>>
    BY <1>6 DEF GetCheck
  <2> QED
    BY <2>1, OwnerUnmoved DEF PlacesInv, Clean, HistoryTypes
<1>7. CASE WinnowRead \/ WinnowCut \/ WinnowCheck
  <2>1. /\ opc \in {"winnow", "winnowCut", "winnowCheck"}
        /\ opc' \in {"winnowCut", "winnowCheck", "winnowLock", "resetLock", "winnowScan"}
        /\ UNCHANGED <<batch, res, pool, prox, prio, thief, hist>>
    BY <1>7 DEF WinnowRead, WinnowCut, WinnowCheck
  <2> QED
    BY <2>1, OwnerUnmoved DEF PlacesInv, Clean, HistoryTypes
<1>8. CASE WinnowStore \/ Reset
  <2>1. /\ opc \in {"winnowStore", "reset"} /\ opc' \in {"dispatch", "idle"}
        /\ opc' = "idle" => res = None
        /\ UNCHANGED <<batch, res, pool, prox, prio, thief, hist>>
    BY <1>8 DEF WinnowStore, Reset
  <2> QED
    BY <2>1, OwnerUnmoved DEF PlacesInv, Clean, HistoryTypes
<1>9. CASE ChangeTop
  <2>1. /\ changes < MaxTopChanges /\ changes' = changes + 1
        /\ UNCHANGED <<slot, prox, offloaded, owner, thief, hist>>
    BY <1>9 DEF ChangeTop
  <2>2. changes' \in 0 .. MaxTopChanges
    BY <2>1, SizesPositive DEF PlacesInv, HistoryTypes
  <2> QED
    BY <2>1, <2>2, OwnerUnmoved DEF PlacesInv, Clean, HistoryTypes
<1> QED
  BY <1>1, <1>2, <1>3, <1>4, <1>5, <1>6, <1>7, <1>8, <1>9

\* A stale element lies below the top of the window.
LEMMA StaleBelow ==
  ASSUME WindowInv, NEW lo \in Nat, IsLow(lo), NEW i, Stale(i)
  PROVE  i \in Nat /\ i < Hi(lo)
<1>1. Window(lo) /\ Hi(lo) \in Int
  BY DEF WindowInv, Windows, Hi, SlotTypes
<1>2. CASE Dead(i)
  BY <1>1, <1>2, LowBelowHead DEF WindowInv, Window
<1>3. CASE \E h \in Thief : tpc[h] = "close" /\ i = tH[h] - 1
  <2>1. PICK h \in Thief : tpc[h] = "close" /\ i = tH[h] - 1
    BY <1>3
  <2>2. tH[h] \in Nat /\ tH0[h] \in Nat /\ tH0[h] + 1 < tH[h] /\ tH[h] <= Hi(lo)
    BY <2>1, <1>1 DEF WindowInv, SlotTypes, ThiefWindow, Window
  <2> QED
    BY <2>1, <2>2, <1>1
<1> QED
  BY <1>2, <1>3 DEF Stale

\* The owner takes element i out of the pool.
LEMMA TakesOut ==
  ASSUME WindowInv, PlacesInv, NEW i \in 0 .. size - 1, ~Stale(i), res = None,
         res' = pool[i], size' = size, pool' \in [0 .. size - 1 -> Entry],
         \A j \in 0 .. size - 1 : pool'[j] = IF j = i THEN None ELSE pool[j],
         UNCHANGED <<batch, mail, offloaded, tpc, tH, tH0, got, tag, taken, unspawned>>,
         opc \notin {"commit", "dispatch"}, opc' # "commit"
  PROVE  InOnePlace' /\ InOneBox' /\ Fates'
<1>1. \A j : Stale(j)' <=> Stale(j)
  BY DEF Stale, Dead
<1>2. DOMAIN pool = 0 .. size - 1 /\ DOMAIN pool' = 0 .. size - 1
  BY DEF WindowInv, SlotTypes
<1>3. \A t \in Task : \A a, k : Holds(a, k, t)' =>
         \/ a = "res" /\ k = 0 /\ Holds("pool", i, t)
         \/ a # "res" /\ ~(a = "pool" /\ k = i) /\ Holds(a, k, t)
  BY <1>1, <1>2, NoneIsNoTask DEF Holds
<1>4. \A t \in Task : \A a, k : Holds(a, k, t) =>
         \/ a = "pool" /\ k = i /\ Holds("res", 0, t)'
         \/ ~(a = "pool" /\ k = i) /\ Holds(a, k, t)'
  BY <1>1, <1>2, NoneIsNoTask DEF Holds
<1>5. InOnePlace'
  BY <1>3 DEF PlacesInv, InOnePlace
<1>6. \A t \in Task : Held(t)' <=> Held(t)
  BY <1>3, <1>4 DEF Held
<1>7. \A t : \A a, k : Posted(a, k, t)' <=> Posted(a, k, t)
  BY DEF Posted
<1>8. InOneBox' /\ \A t \in Task : Mailed(t)' <=> Mailed(t)
  BY <1>7 DEF PlacesInv, InOneBox, Mailed
<1> QED
  BY <1>5, <1>6, <1>8, Moved

LEMMA GetCheckPlaces == ASSUME WindowInv, PlacesInv, GetCheck, ~Contended PROVE PlacesInv'
<1> USE DEF slot, prox, prio, owner, thief, hist, program
<1>1. /\ opc = "getCheck" /\ opc' = After(pool[oT])
      /\ res' = pool[oT] /\ pool' = [pool EXCEPT ![oT] = None] /\ head <= oT /\ tail = oT
      /\ UNCHANGED <<size, prox, prio, batch, thief, hist>>
  BY DEF GetCheck, Contended, WindowInv, OwnerWindow, SlotTypes
<1>2. PICK lo \in Nat : IsLow(lo)
  BY LowExists DEF WindowInv
<1>3. Window(lo) /\ Hi(lo) = oT + 1 /\ lo <= head
  BY <1>1, <1>2, LowBelowHead DEF WindowInv, Windows, Hi
<1>4. oT \in 0 .. size - 1 /\ pool[oT] \in Entry
  BY <1>1, <1>3 DEF WindowInv, Window, SlotTypes
<1>5. ~Stale(oT)
  <2>1. ~Dead(oT)
    BY <1>1, <1>2, LowBelowHead DEF WindowInv, SlotTypes
  <2>2. \A h \in Thief : tpc[h] = "close" => oT # tH[h] - 1
    BY <1>1 DEF WindowInv, ThiefWindow, SlotTypes
  <2> QED
    BY <2>1, <2>2 DEF Stale
<1>6. /\ pool' \in [0 .. size - 1 -> Entry]
      /\ \A j \in 0 .. size - 1 : pool'[j] = IF j = oT THEN None ELSE pool[j]
  BY <1>1 DEF WindowInv, SlotTypes, Entry
<1>7. opc' \in {"idle", "extract", "dispatch"} /\ (opc' = "idle" => res' = None)
  BY <1>1 DEF After
<1>8. res = None
  BY <1>1 DEF PlacesInv, Clean
<1>9. InOnePlace' /\ InOneBox' /\ Fates'
  BY <1>1, <1>4, <1>5, <1>6, <1>7, <1>8, TakesOut
<1>10. Clean' /\ HistoryTypes'
  BY <1>1, <1>7 DEF PlacesInv, Clean, HistoryTypes
<1> QED
  BY <1>9, <1>10 DEF PlacesInv

LEMMA GetLockedPlaces == ASSUME WindowInv, PlacesInv, GetLocked PROVE PlacesInv'
<1> USE DEF slot, prox, prio, owner, thief, hist, program
<1>1. /\ opc = "getLocked" /\ UNCHANGED <<size, prox, prio, batch, thief, hist>>
      /\ tail = oT /\ oT \in Int /\ head \in Nat
  BY DEF GetLocked, WindowInv, OwnerWindow, SlotTypes
<1>2. /\ \A h \in Thief : tpc[h] \notin Probing \cup {"closed", "poison"}
      /\ Window(head) /\ Hi(head) = oT + 1
  BY <1>1, OwnerAlone DEF WindowInv, OwnerHoldsLock, Hi
<1>3. \A i : ~Stale(i)
  BY <1>2 DEF Stale, Dead, Probing
<1>4. res = None /\ batch = <<>>
  BY <1>1 DEF PlacesInv, Clean
<1>5. CASE Contended
  <2>1. res' = None /\ pool' = pool /\ opc' = "idle"
    BY <1>5 DEF GetLocked, After
  <2>2. InOnePlace' /\ InOneBox' /\ Fates'
    BY <1>1, <1>4, <2>1, OwnerUnmoved
  <2>3. Clean' /\ HistoryTypes'
    BY <1>1, <2>1 DEF PlacesInv, Clean, HistoryTypes
  <2> QED
    BY <2>2, <2>3 DEF PlacesInv
<1>6. CASE ~Contended
  <2>1. res' = pool[oT] /\ pool' = [pool EXCEPT ![oT] = None] /\ opc' = After(pool[oT])
    BY <1>6 DEF GetLocked
  <2>2. oT \in 0 .. size - 1
    BY <1>1, <1>2, <1>6 DEF Contended, Window, WindowInv, SlotTypes
  <2>3. /\ pool' \in [0 .. size - 1 -> Entry]
        /\ \A j \in 0 .. size - 1 : pool'[j] = IF j = oT THEN None ELSE pool[j]
    BY <2>1 DEF WindowInv, SlotTypes, Entry
  <2>4. opc' \in {"idle", "extract", "dispatch"} /\ (opc' = "idle" => res' = None)
    BY <2>1 DEF After
  <2>5. InOnePlace' /\ InOneBox' /\ Fates'
    BY <1>1, <1>3, <1>4, <2>1, <2>2, <2>3, <2>4, TakesOut
  <2>6. Clean' /\ HistoryTypes'
    BY <1>1, <1>4, <2>4 DEF PlacesInv, Clean, HistoryTypes
  <2> QED
    BY <2>5, <2>6 DEF PlacesInv
<1> QED
  BY <1>5, <1>6

LEMMA KeepLastPlaces == ASSUME WindowInv, PlacesInv, KeepLast PROVE PlacesInv'
<1> USE DEF slot, prox, prio, owner, thief, hist, program
<1>1. /\ opc = "keepLast" /\ opc' = "dispatch" /\ tail < size
      /\ res' = pool[tail] /\ pool' = [pool EXCEPT ![tail] = None]
      /\ UNCHANGED <<size, prox, prio, batch, thief, hist>>
  BY DEF KeepLast, WindowInv, OwnerWindow
<1>2. PICK lo \in Nat : IsLow(lo)
  BY LowExists DEF WindowInv
<1>3. Window(lo) /\ Hi(lo) = tail /\ lo <= tail
  BY <1>1, <1>2 DEF WindowInv, Windows, Window, Hi
<1>4. tail \in 0 .. size - 1
  BY <1>1, <1>3 DEF WindowInv, SlotTypes
<1>5. ~Stale(tail)
  BY <1>2, <1>3, <1>4, StaleBelow
<1>6. /\ pool' \in [0 .. size - 1 -> Entry]
      /\ \A j \in 0 .. size - 1 : pool'[j] = IF j = tail THEN None ELSE pool[j]
  BY <1>1 DEF WindowInv, SlotTypes, Entry
<1>7. res = None
  BY <1>1 DEF PlacesInv, Clean
<1>8. InOnePlace' /\ InOneBox' /\ Fates'
  BY <1>1, <1>4, <1>5, <1>6, <1>7, TakesOut
<1>9. Clean' /\ HistoryTypes'
  BY <1>1 DEF PlacesInv, Clean, HistoryTypes
<1> QED
  BY <1>8, <1>9 DEF PlacesInv

LEMMA RelocatePlaces == ASSUME WindowInv, PlacesInv, Relocate PROVE PlacesInv'
<1> USE DEF slot, prox, prio, owner, thief, hist, program
<1>1. /\ \A h \in Thief : tpc[h] \notin Probing \cup {"closed", "poison"}
      /\ Window(head)
  BY OwnerAlone DEF Relocate, WindowInv, OwnerHoldsLock, InArena, Locked, Empty
<1>2. \A i : ~Stale(i)
  BY <1>1 DEF Stale, Dead, Probing
<1>3. /\ opc = "relocate" /\ opc' = "write"
      /\ UNCHANGED <<batch, res, prox, prio, thief, hist>>
      /\ pool' = [i \in 0 .. size' - 1 |-> IF i < tail - head THEN pool[head + i] ELSE None]
  BY DEF Relocate
<1>4. /\ head \in Nat /\ tail \in Nat /\ head <= tail /\ tail <= size
      /\ size \in Nat /\ DOMAIN pool = 0 .. size - 1
      /\ \A i \in 0 .. size - 1 : pool[i] # None => i \in head .. tail - 1
  BY <1>1, <1>2, <1>3 DEF Window, Hi, Outside, Stale, WindowInv, SlotTypes
<1>5. size' \in Nat /\ tail - head <= size'
  <2>1. SlotTypes' /\ OwnerWindow' /\ tail' = tail - head /\ oT' = tail - head
    BY RelocateWindow DEF WindowInv, Relocate
  <2>2. oT' + Len(batch') <= size'
    BY <2>1, <1>3 DEF OwnerWindow
  <2>3. Len(batch') \in Nat /\ size' \in Nat
    BY <2>1, LenProperties DEF SlotTypes
  <2> QED
    BY <2>1, <2>2, <2>3, <1>4
<1>6. \A i : ~Stale(i)'
  BY <1>2, <1>3 DEF Stale, Dead
<1>7. \A t \in Task : \A a, k : Holds(a, k, t)' =>
         \/ a = "pool" /\ k \in Int /\ Holds("pool", head + k, t)
         \/ a # "pool" /\ Holds(a, k, t)
  <2> SUFFICES ASSUME NEW t \in Task, NEW a, NEW k, Holds(a, k, t)'
               PROVE  \/ a = "pool" /\ k \in Int /\ Holds("pool", head + k, t)
                      \/ a # "pool" /\ Holds(a, k, t)
    OBVIOUS
  <2>1. CASE a = "pool"
    <3>1. k \in 0 .. size' - 1 /\ pool'[k] = t
      BY <2>1, <1>3 DEF Holds
    <3>2. k < tail - head /\ pool[head + k] = t
      BY <3>1, <1>3, NoneIsNoTask
    <3>3. head + k \in DOMAIN pool
      BY <3>1, <3>2, <1>4, <1>5
    <3> QED
      BY <2>1, <3>1, <3>2, <3>3, <1>2 DEF Holds
  <2>2. CASE a # "pool"
    BY <2>2, <1>3 DEF Holds
  <2> QED
    BY <2>1, <2>2
<1>8. \A t \in Task : \A a, k : Holds(a, k, t) =>
         \/ a = "pool" /\ \E i : Holds("pool", i, t)'
         \/ a # "pool" /\ Holds(a, k, t)'
  <2> SUFFICES ASSUME NEW t \in Task, NEW a, NEW k, Holds(a, k, t)
               PROVE  \/ a = "pool" /\ \E i : Holds("pool", i, t)'
                      \/ a # "pool" /\ Holds(a, k, t)'
    OBVIOUS
  <2>1. CASE a = "pool"
    <3>1. k \in 0 .. size - 1 /\ pool[k] = t /\ t # None
      BY <2>1, <1>4, NoneIsNoTask DEF Holds
    <3>2. k \in head .. tail - 1
      BY <3>1, <1>4
    <3>3. PICK i \in 0 .. size' - 1 : i < tail - head /\ head + i = k
      <4>1. PICK h \in Nat, u \in Nat, z \in Nat : h = head /\ u = tail /\ z = size'
        BY <1>4, <1>5
      <4>2. u - h <= z /\ k \in h .. u - 1
        BY <3>2, <4>1, <1>5
      <4>3. k - h \in 0 .. z - 1 /\ k - h < u - h /\ h + (k - h) = k
        BY ONLY <4>2, h \in Nat, u \in Nat, z \in Nat
      <4> QED
        BY <4>1, <4>3
    <3>4. pool'[i] = t /\ i \in DOMAIN pool'
      BY <3>1, <3>3, <1>3
    <3>5. Holds("pool", i, t)'
      BY <3>4, <1>6 DEF Holds
    <3> QED
      BY <2>1, <3>5
  <2>2. CASE a # "pool"
    BY <2>2, <1>3 DEF Holds
  <2> QED
    BY <2>1, <2>2
<1>9. InOnePlace'
  <2> SUFFICES ASSUME NEW t \in Task, NEW a, NEW b, NEW k, NEW l,
                      Holds(a, k, t)', Holds(b, l, t)'
               PROVE  a = b /\ k = l
    BY DEF InOnePlace
  <2>1. CASE a = "pool" /\ b = "pool"
    BY <2>1, <1>4, <1>7 DEF PlacesInv, InOnePlace
  <2>2. CASE a # "pool" \/ b # "pool"
    BY <2>2, <1>7 DEF PlacesInv, InOnePlace
  <2> QED
    BY <2>1, <2>2
<1>10. \A t \in Task : Held(t)' <=> Held(t)
  BY <1>7, <1>8 DEF Held
<1>11. \A t : \A a, k : Posted(a, k, t)' <=> Posted(a, k, t)
  BY <1>3 DEF Posted
<1>12. InOneBox' /\ \A t \in Task : Mailed(t)' <=> Mailed(t)
  BY <1>11 DEF PlacesInv, InOneBox, Mailed
<1>13. Fates'
  BY <1>3, <1>9, <1>10, <1>12, Moved
<1>14. Clean' /\ HistoryTypes'
  BY <1>3 DEF PlacesInv, Clean, HistoryTypes
<1> QED
  BY <1>9, <1>12, <1>13, <1>14 DEF PlacesInv

\* The tasks of the batch now count where they have been written.
LEMMA WritePlaces == ASSUME WindowInv, PlacesInv, Write PROVE PlacesInv'
<1> USE DEF slot, prox, prio, owner, thief, hist, program
<1>1. /\ opc = "write" /\ opc' = "commit" /\ tail = oT
      /\ UNCHANGED <<oT, size, batch, res, prox, prio, thief, hist>>
  BY DEF Write, WindowInv, OwnerWindow
<1>2. Len(batch) \in Nat /\ DOMAIN batch = 1 .. Len(batch)
  BY DEF WindowInv, SlotTypes
<1>3. PICK n \in Nat : n = Len(batch)
  BY <1>2
<1>4. PICK lo \in Nat : IsLow(lo)
  BY LowExists DEF WindowInv
<1>5. Window(lo) /\ Hi(lo) = oT
  BY <1>1, <1>4 DEF WindowInv, Windows, Hi
<1>6. oT \in Nat /\ oT + n <= size /\ size \in Nat
  BY <1>1, <1>3, <1>5 DEF Window, WindowInv, SlotTypes, OwnerWindow
<1>7. \A i : Stale(i) => i \in Nat /\ i < oT
  BY <1>4, <1>5, StaleBelow
<1>8. \A i : Stale(i)' <=> Stale(i)
  BY <1>1 DEF Stale, Dead
<1>9. DOMAIN pool = 0 .. size - 1 /\ DOMAIN pool' = 0 .. size - 1
  BY DEF WindowInv, SlotTypes, Write
<1>10. \A i \in 0 .. size - 1 : i >= oT => pool[i] = None
  BY <1>1, <1>5, <1>6, <1>7 DEF Window, Outside, Stale
<1>11. \A i \in 0 .. size - 1 : ~(oT <= i /\ i < oT + n) => pool'[i] = pool[i]
  <2> SUFFICES ASSUME NEW i \in 0 .. size - 1, ~(oT <= i /\ i < oT + n)
               PROVE  pool'[i] = pool[i]
    OBVIOUS
  <2>1. pool' = [j \in DOMAIN pool |->
                   IF j - oT \in 0 .. Len(batch) - 1 THEN batch[j - oT + 1] ELSE pool[j]]
    BY DEF Write
  <2>2. i - oT \notin 0 .. n - 1
    BY <1>6
  <2> QED
    BY <1>3, <1>9, <2>1, <2>2
<1>12. \A j \in 1 .. n : oT + j - 1 \in 0 .. size - 1 /\ pool'[oT + j - 1] = batch[j]
  <2> SUFFICES ASSUME NEW j \in 1 .. n
               PROVE  oT + j - 1 \in 0 .. size - 1 /\ pool'[oT + j - 1] = batch[j]
    OBVIOUS
  <2>1. oT + j - 1 \in 0 .. size - 1
    BY <1>6
  <2>2. OwnerWindow' /\ j \in 1 .. Len(batch)
    BY <1>3, WriteWindow DEF WindowInv
  <2> QED
    BY <1>1, <2>1, <2>2 DEF OwnerWindow
<1>13. \A i \in 0 .. size - 1 : oT <= i /\ i < oT + n => \E j \in 1 .. n : i = oT + j - 1
  <2> SUFFICES ASSUME NEW i \in 0 .. size - 1, oT <= i, i < oT + n
               PROVE  \E j \in 1 .. n : i = oT + j - 1
    OBVIOUS
  <2>1. i - oT + 1 \in 1 .. n /\ i = oT + (i - oT + 1) - 1
    BY <1>6
  <2> QED
    BY <2>1
<1>14. \A t \in Task : \A a, k : Holds(a, k, t)' =>
         \/ a = "pool" /\ \E j \in 1 .. n : k = oT + j - 1 /\ Holds("batch", j, t)
         \/ a # "batch" /\ Holds(a, k, t)
  <2> SUFFICES ASSUME NEW t \in Task, NEW a, NEW k, Holds(a, k, t)'
               PROVE  \/ a = "pool" /\ \E j \in 1 .. n : k = oT + j - 1 /\ Holds("batch", j, t)
                      \/ a # "batch" /\ Holds(a, k, t)
    OBVIOUS
  <2>1. CASE a = "pool"
    <3>1. k \in 0 .. size - 1 /\ pool'[k] = t /\ ~Stale(k)
      BY <2>1, <1>8, <1>9 DEF Holds
    <3>2. CASE oT <= k /\ k < oT + n
      <4>1. PICK j \in 1 .. n : k = oT + j - 1
        BY <3>1, <3>2, <1>13
      <4>2. batch[j] = t
        BY <3>1, <4>1, <1>12
      <4> QED
        BY <2>1, <4>1, <4>2, <1>1, <1>2, <1>3 DEF Holds
    <3>3. CASE ~(oT <= k /\ k < oT + n)
      <4>1. pool[k] = t
        BY <3>1, <3>3, <1>11
      <4> QED
        BY <2>1, <3>1, <4>1, <1>9 DEF Holds
    <3> QED
      BY <3>2, <3>3
  <2>2. CASE a # "pool"
    BY <2>2, <1>1 DEF Holds
  <2> QED
    BY <2>1, <2>2
<1>15. \A t \in Task : \A a, k : Holds(a, k, t) =>
         \/ a = "batch" /\ \E i : Holds("pool", i, t)'
         \/ Holds(a, k, t)'
  <2> SUFFICES ASSUME NEW t \in Task, NEW a, NEW k, Holds(a, k, t)
               PROVE  \/ a = "batch" /\ \E i : Holds("pool", i, t)'
                      \/ Holds(a, k, t)'
    OBVIOUS
  <2>1. CASE a = "pool"
    <3>1. k \in 0 .. size - 1 /\ pool[k] = t /\ ~Stale(k) /\ t # None
      BY <2>1, <1>9, NoneIsNoTask DEF Holds
    <3>2. pool'[k] = t
      BY <3>1, <1>6, <1>10, <1>11
    <3> QED
      BY <2>1, <3>1, <3>2, <1>8, <1>9 DEF Holds
  <2>2. CASE a = "batch"
    <3>1. k \in 1 .. n /\ batch[k] = t
      BY <2>2, <1>2, <1>3 DEF Holds
    <3>2. PICK i \in 0 .. size - 1 : i = oT + k - 1
      BY <3>1, <1>12
    <3>3. pool'[i] = t /\ i >= oT
      BY <3>1, <3>2, <1>6, <1>12
    <3>4. ~Stale(i)
      BY <3>3, <1>6, <1>7
    <3>5. Holds("pool", i, t)'
      BY <3>3, <3>4, <1>8, <1>9 DEF Holds
    <3> QED
      BY <2>2, <3>5
  <2>3. CASE a \notin {"pool", "batch"}
    BY <2>3, <1>1 DEF Holds
  <2> QED
    BY <2>1, <2>2, <2>3
<1>16. InOnePlace'
  <2> SUFFICES ASSUME NEW t \in Task, NEW a, NEW b, NEW k, NEW l,
                      Holds(a, k, t)', Holds(b, l, t)'
               PROVE  a = b /\ k = l
    BY DEF InOnePlace
  <2> QED
    BY <1>14 DEF PlacesInv, InOnePlace
<1>17. \A t \in Task : Held(t)' <=> Held(t)
  BY <1>14, <1>15 DEF Held
<1>18. \A t : \A a, k : Posted(a, k, t)' <=> Posted(a, k, t)
  BY <1>1 DEF Posted
<1>19. InOneBox' /\ \A t \in Task : Mailed(t)' <=> Mailed(t)
  BY <1>18 DEF PlacesInv, InOneBox, Mailed
<1>20. Fates'
  BY <1>1, <1>16, <1>17, <1>19, Moved
<1>21. Clean' /\ HistoryTypes'
  BY <1>1 DEF PlacesInv, Clean, HistoryTypes
<1> QED
  BY <1>16, <1>19, <1>20, <1>21 DEF PlacesInv

\* What the scan of the pool finds in a place was in one place before.
LEMMA ScanMoves ==
  ASSUME WindowInv, PlacesInv, NEW H \in Nat, H < oT0, oT0 <= size,
         \A i \in H .. oT0 - 1 : pool[i] # None /\ ~Stale(i),
         NEW order \in Ascending(Survivors(H)), WinnowScan(H, order),
         res = None, opc \notin {"commit", "dispatch"}, opc' # "commit",
         UNCHANGED <<size, batch, mail, tpc, tH, tH0, got, tag, taken, unspawned>>
  PROVE  InOnePlace' /\ InOneBox' /\ Fates'
<1> DEFINE S == Survivors(H)
           D == Dst(H, order)
<1>1. size \in Nat /\ oT0 \in Int /\ H .. oT0 - 1 \subseteq 0 .. size - 1 /\ S \subseteq H .. oT0 - 1
  BY DEF SlotTypes, Survivors, WindowInv
<1>2. IsFiniteSet(S)
  <2>1. H \in Int /\ oT0 - 1 \in Int
    BY <1>1
  <2>2. IsFiniteSet(H .. oT0 - 1)
    BY <2>1, FS_Interval
  <2>3. S \in SUBSET (H .. oT0 - 1)
    BY <1>1
  <2> QED
    BY <2>2, <2>3, FS_Subset
<1>3. PICK n \in Nat : n = Cardinality(S)
  BY <1>2, FS_CardinalityType
<1>4. /\ order \in [1 .. n -> S]
      /\ \A i, j \in 1 .. n : order[i] = order[j] => i = j
      /\ \A i \in S : \E j \in 1 .. n : order[j] = i
  BY <1>3 DEF Ascending, Orders, Members
<1>5. order \in Seq(S) /\ Len(order) = n /\ (order = <<>> <=> n = 0)
  BY <1>3, <1>4, SeqDef, LenProperties, EmptySeq
<1>6. D = IF n = 0 THEN H ELSE H + n - 1
  BY <1>1, <1>3, <1>5 DEF Dst
<1>7. D \in H .. oT0 - 1
  BY <1>1, ScanKeeps DEF WindowInv
<1>8. DOMAIN pool = 0 .. size - 1 /\ DOMAIN pool' = 0 .. size - 1
  BY DEF WinnowScan, SlotTypes, WindowInv
<1>9. pool' = [i \in 0 .. size - 1 |->
                 IF i \in H .. D - 1 THEN pool[order[i - H + 1]]
                 ELSE IF i \in H .. oT0 - 1 THEN None ELSE pool[i]]
  BY <1>8 DEF WinnowScan
<1>10. \A i \in S : i \in H .. oT0 - 1 /\ Priority(pool[i]) >= top /\ ~Stale(i)
  BY DEF Survivors
<1>11. /\ res' = IF n = 0 THEN None ELSE pool[order[n]]
       /\ \A t : t \in offloaded' <=>
            t \in offloaded \/ \E i \in H .. oT0 - 1 : Priority(pool[i]) < top /\ pool[i] = t
  BY <1>5 DEF WinnowScan
<1>12. \A i : Stale(i)' <=> Stale(i)
  BY DEF Stale, Dead
<1>13. \A k \in H .. D - 1 : \E j \in 1 .. n : j < n /\ k = H + j - 1 /\ pool'[k] = pool[order[j]]
  <2> SUFFICES ASSUME NEW k \in H .. D - 1
               PROVE  \E j \in 1 .. n : j < n /\ k = H + j - 1 /\ pool'[k] = pool[order[j]]
    OBVIOUS
  <2>1. k - H + 1 \in 1 .. n /\ k - H + 1 < n /\ k = H + (k - H + 1) - 1
    BY <1>1, <1>3, <1>6, <1>7
  <2>2. k \in 0 .. size - 1 /\ pool'[k] = pool[order[k - H + 1]]
    BY <1>1, <1>7, <1>9
  <2> QED
    BY <2>1, <2>2
<1>14. \A j \in 1 .. n : j < n => \E k \in H .. D - 1 : pool'[k] = pool[order[j]]
  <2> SUFFICES ASSUME NEW j \in 1 .. n, j < n
               PROVE  \E k \in H .. D - 1 : pool'[k] = pool[order[j]]
    OBVIOUS
  <2>1. H + j - 1 \in H .. D - 1 /\ (H + j - 1) - H + 1 = j
    BY <1>3, <1>6
  <2>2. H + j - 1 \in 0 .. size - 1
    BY <2>1, <1>1, <1>7
  <2>3. pool'[H + j - 1] = pool[order[(H + j - 1) - H + 1]]
    BY <2>1, <2>2, <1>9
  <2> QED
    BY <2>1, <2>3
<1>15. \A k \in 0 .. size - 1 : k \notin H .. D - 1 =>
         pool'[k] = IF k \in H .. oT0 - 1 THEN None ELSE pool[k]
  BY <1>9
<1> HIDE DEF D, S

<1>16. \A t \in Task : \A a, k : Holds(a, k, t)' =>
         \/ a = "pool" /\ k \notin H .. oT0 - 1 /\ Holds("pool", k, t)
         \/ a = "pool" /\ \E j \in 1 .. n : j < n /\ k = H + j - 1 /\ Holds("pool", order[j], t)
         \/ a = "res" /\ k = 0 /\ n # 0 /\ Holds("pool", order[n], t)
         \/ a = "offloaded" /\ k = 0 /\ \E i \in H .. oT0 - 1 :
               Priority(pool[i]) < top /\ Holds("pool", i, t)
         \/ a \notin {"pool", "res"} /\ Holds(a, k, t)
  <2> SUFFICES ASSUME NEW t \in Task, NEW a, NEW k, Holds(a, k, t)'
               PROVE  \/ a = "pool" /\ k \notin H .. oT0 - 1 /\ Holds("pool", k, t)
                      \/ a = "pool" /\ \E j \in 1 .. n :
                            j < n /\ k = H + j - 1 /\ Holds("pool", order[j], t)
                      \/ a = "res" /\ k = 0 /\ n # 0 /\ Holds("pool", order[n], t)
                      \/ a = "offloaded" /\ k = 0 /\ \E i \in H .. oT0 - 1 :
                            Priority(pool[i]) < top /\ Holds("pool", i, t)
                      \/ a \notin {"pool", "res"} /\ Holds(a, k, t)
    OBVIOUS
  <2>0. \A i \in H .. oT0 - 1 : pool[i] = t => Holds("pool", i, t)
    BY <1>1, <1>8 DEF Holds
  <2>1. CASE a = "pool"
    <3>1. k \in 0 .. size - 1 /\ pool'[k] = t /\ ~Stale(k) /\ t # None
      BY <2>1, <1>8, <1>12, NoneIsNoTask DEF Holds
    <3>2. CASE k \in H .. D - 1
      <4>1. PICK j \in 1 .. n : j < n /\ k = H + j - 1 /\ pool'[k] = pool[order[j]]
        BY <3>2, <1>13
      <4>2. order[j] \in H .. oT0 - 1 /\ pool[order[j]] = t
        BY <4>1, <3>1, <1>4, <1>10
      <4> QED
        BY <2>1, <4>1, <4>2, <2>0
    <3>3. CASE k \notin H .. D - 1
      <4>1. k \notin H .. oT0 - 1 /\ pool[k] = t
        BY <3>1, <3>3, <1>15
      <4>2. Holds("pool", k, t)
        BY <3>1, <4>1, <1>8 DEF Holds
      <4> QED
        BY <2>1, <4>1, <4>2
    <3> QED
      BY <3>2, <3>3
  <2>2. CASE a = "res"
    <3>1. k = 0 /\ res' = t /\ t # None
      BY <2>2, NoneIsNoTask DEF Holds
    <3>2. n # 0 /\ pool[order[n]] = t /\ n \in 1 .. n
      BY <3>1, <1>3, <1>11
    <3>3. order[n] \in H .. oT0 - 1
      BY <3>2, <1>4, <1>10
    <3> QED
      BY <2>2, <3>1, <3>2, <3>3, <2>0
  <2>3. CASE a = "offloaded"
    <3>1. k = 0 /\ t \in offloaded'
      BY <2>3 DEF Holds
    <3> QED
      BY <2>3, <3>1, <1>11, <2>0 DEF Holds
  <2>4. CASE a \notin {"pool", "res", "offloaded"}
    BY <2>4 DEF Holds
  <2> QED
    BY <2>1, <2>2, <2>3, <2>4
<1>17. \A t \in Task : Held(t) => Held(t)'
  <2> SUFFICES ASSUME NEW t \in Task, NEW a, NEW k, Holds(a, k, t) PROVE \E b, l : Holds(b, l, t)'
    BY DEF Held
  <2>1. CASE a = "pool" /\ k \notin H .. oT0 - 1
    <3>1. k \in 0 .. size - 1 /\ pool[k] = t /\ ~Stale(k)
      BY <2>1, <1>8 DEF Holds
    <3>2. k \notin H .. D - 1
      BY <2>1, <1>1, <1>7
    <3>3. Holds("pool", k, t)'
      BY <3>1, <3>2, <2>1, <1>8, <1>12, <1>15 DEF Holds
    <3> QED
      BY <3>3
  <2>2. CASE a = "pool" /\ k \in H .. oT0 - 1 /\ Priority(pool[k]) < top
    <3>1. Holds("offloaded", 0, t)'
      BY <2>2, <1>11 DEF Holds
    <3> QED
      BY <3>1
  <2>3. CASE a = "pool" /\ k \in H .. oT0 - 1 /\ ~(Priority(pool[k]) < top)
    <3>1. Priority(pool[k]) >= top
      BY <2>3 DEF Priority, WindowInv, TaskTypes
    <3>2. k \in S
      BY <2>3, <3>1 DEF S, Survivors
    <3>3. PICK j \in 1 .. n : order[j] = k
      BY <3>2, <1>4
    <3>4. pool[k] = t
      BY <2>3 DEF Holds
    <3>5. CASE j = n
      <4>1. n # 0 /\ res' = t
        BY <3>3, <3>4, <3>5, <1>11
      <4>2. Holds("res", 0, t)'
        BY <4>1 DEF Holds
      <4> QED
        BY <4>2
    <3>6. CASE j # n
      <4>1. j < n
        BY <3>3, <3>6, <1>3
      <4>2. PICK i \in H .. D - 1 : pool'[i] = t
        BY <3>3, <3>4, <4>1, <1>14
      <4>3. i \in H .. oT0 - 1
        BY <1>1, <1>7
      <4>4. i \in 0 .. size - 1 /\ ~Stale(i)
        BY <4>3, <1>1
      <4>5. Holds("pool", i, t)'
        BY <4>2, <4>4, <1>8, <1>12 DEF Holds
      <4> QED
        BY <4>5
    <3> QED
      BY <3>5, <3>6
  <2>4. CASE a = "offloaded"
    <3>1. Holds("offloaded", 0, t)'
      BY <2>4, <1>11 DEF Holds
    <3> QED
      BY <3>1
  <2>5. CASE a \in {"batch", "got"}
    <3>1. Holds(a, k, t)'
      BY <2>5 DEF Holds
    <3> QED
      BY <3>1
  <2>6. a # "res" /\ a \in {"pool", "batch", "offloaded", "got"}
    BY NoneIsNoTask DEF Holds
  <2> QED
    BY <2>1, <2>2, <2>3, <2>4, <2>5, <2>6
<1>18. \A t \in Task : Held(t)' => Held(t)
  BY <1>16 DEF Held
<1>19. InOnePlace'
  <2> SUFFICES ASSUME NEW t \in Task, NEW a, NEW b, NEW k, NEW l,
                      Holds(a, k, t)', Holds(b, l, t)'
               PROVE  a = b /\ k = l
    BY DEF InOnePlace
  <2> DEFINE P(i) == Holds("pool", i, t)
  <2>1. \A c, d, i, j : Holds(c, i, t) /\ Holds(d, j, t) => c = d /\ i = j
    BY DEF PlacesInv, InOnePlace
  <2>2. \A i, j : P(i) /\ P(j) => i = j
    BY <2>1
  <2>3. \A i \in 1 .. n : order[i] \in H .. oT0 - 1 /\ ~(Priority(pool[order[i]]) < top)
    <3>1. \A i \in S : i \in H .. oT0 - 1 /\ ~(Priority(pool[i]) < top)
      BY <1>10 DEF Priority, WindowInv, TaskTypes
    <3> QED
      BY <3>1, <1>4
  <2>4. n # 0 => n \in 1 .. n
    BY <1>3
  <2>5. \A i \in 1 .. n, j \in 1 .. n : P(order[i]) /\ P(order[j]) => i = j
    BY <2>2, <1>4
  <2>6. CASE \E c, i : c \notin {"pool", "res"} /\ Holds(c, i, t)
    <3>1. PICK c, i : c \notin {"pool", "res"} /\ Holds(c, i, t)
      BY <2>6
    <3>2. \A j : ~P(j)
      BY <2>1, <3>1
    <3>3. Holds(a, k, t) /\ Holds(b, l, t)
      BY <3>2, <1>16
    <3> QED
      BY <2>1, <3>3
  <2>7. CASE \A c, i : c \notin {"pool", "res"} => ~Holds(c, i, t)
    <3>1. PICK m : P(m)
      BY <2>7, <1>16
    <3>2. \A c, i : Holds(c, i, t)' =>
            \/ c = "pool" /\ i = m /\ m \notin H .. oT0 - 1
            \/ c = "pool" /\ \E j \in 1 .. n : j < n /\ i = H + j - 1 /\ order[j] = m
            \/ c = "res" /\ i = 0 /\ n # 0 /\ order[n] = m
            \/ c = "offloaded" /\ i = 0 /\ m \in H .. oT0 - 1 /\ Priority(pool[m]) < top
      BY <2>2, <2>7, <3>1, <1>16
    <3>3. CASE m \notin H .. oT0 - 1
      BY <3>2, <3>3, <2>3, <2>4
    <3>4. CASE m \in H .. oT0 - 1 /\ Priority(pool[m]) < top
      BY <3>2, <3>4, <2>3, <2>4
    <3>5. CASE m \in H .. oT0 - 1 /\ ~(Priority(pool[m]) < top)
      <4>1. \A c, i : Holds(c, i, t)' =>
              \E j \in 1 .. n : /\ order[j] = m
                                /\ \/ c = "pool" /\ j < n /\ i = H + j - 1
                                   \/ c = "res" /\ i = 0 /\ j = n
        BY <3>2, <3>5, <2>4
      <4>2. PICK j \in 1 .. n : /\ order[j] = m
                                /\ \/ a = "pool" /\ j < n /\ k = H + j - 1
                                   \/ a = "res" /\ k = 0 /\ j = n
        BY <4>1
      <4>3. PICK i \in 1 .. n : /\ order[i] = m
                                /\ \/ b = "pool" /\ i < n /\ l = H + i - 1
                                   \/ b = "res" /\ l = 0 /\ i = n
        BY <4>1
      <4>4. i = j
        BY <4>2, <4>3, <1>4
      <4> QED
        BY <4>2, <4>3, <4>4, <1>3
    <3> QED
      BY <3>3, <3>4, <3>5
  <2> QED
    BY <2>6, <2>7
<1>20. \A t : \A a, k : Posted(a, k, t)' <=> Posted(a, k, t)
  BY DEF Posted
<1>21. InOneBox' /\ \A t \in Task : Mailed(t)' <=> Mailed(t)
  BY <1>20 DEF PlacesInv, InOneBox, Mailed
<1> QED
  BY <1>17, <1>18, <1>19, <1>21, Moved

LEMMA WinnowUnlockedPlaces == ASSUME WindowInv, PlacesInv, WinnowUnlocked PROVE PlacesInv'
<1> USE DEF slot, prox, prio, owner, thief, hist, program
<1>1. PICK order \in Ascending(Survivors(oH)) :
         /\ opc = "winnowScan" /\ WinnowScan(oH, order) /\ opc' \in {"resetLock", "winnowStore"}
         /\ UNCHANGED <<size, mail, idle, changes, batch, tpc, tH, tH0, got, tag, taken, unspawned>>
  BY DEF WinnowUnlocked
<1>2. PICK lo \in Nat : IsLow(lo)
  BY LowExists DEF WindowInv
<1>3. Window(lo) /\ oH = lo /\ lo < oT0 /\ oT0 <= size /\ Hi(lo) = oT0
  BY <1>1, <1>2 DEF Windows, Window, Hi, OwnerWindow, WindowInv
<1>4. \A i \in oH .. oT0 - 1 : pool[i] # None /\ ~Stale(i)
  <2>1. \A h \in Thief : tpc[h] # "close"
    BY <1>1, <1>3 DEF Window
  <2>2. \A i : Dead(i) => i < lo
    BY <1>2, LowBelowHead DEF WindowInv
  <2>3. oT0 \in Int /\ size \in Nat
    BY DEF WindowInv, SlotTypes
  <2>4. \A i \in oH .. oT0 - 1 : pool[i] # None
    BY <1>3, <2>3 DEF Window
  <2>5. \A i \in oH .. oT0 - 1 : ~(i < lo)
    BY <1>3, <2>3
  <2> QED
    BY <2>1, <2>2, <2>4, <2>5 DEF Stale
<1>5. res = None
  BY <1>1 DEF PlacesInv, Clean
<1>6. InOnePlace' /\ InOneBox' /\ Fates'
  BY <1>1, <1>3, <1>4, <1>5, ScanMoves
<1>7. Clean' /\ HistoryTypes'
  BY <1>1 DEF PlacesInv, Clean, HistoryTypes
<1> QED
  BY <1>6, <1>7 DEF PlacesInv

LEMMA WinnowLockedPlaces == ASSUME WindowInv, PlacesInv, WinnowLocked PROVE PlacesInv'
<1> USE DEF slot, prox, prio, owner, thief, hist, program
<1>1. /\ opc = "winnowLocked"
      /\ UNCHANGED <<size, mail, idle, changes, batch, tpc, tH, tH0, got, tag, taken, unspawned>>
  BY DEF WinnowLocked
<1>2. /\ \A h \in Thief : tpc[h] \notin Probing \cup {"closed", "poison"}
      /\ Window(head) /\ Hi(head) = oT0 /\ head \in Nat
  BY <1>1, OwnerAlone DEF WindowInv, OwnerHoldsLock, Hi, SlotTypes
<1>3. res = None /\ batch = <<>>
  BY <1>1 DEF PlacesInv, Clean
<1>4. CASE head >= oT0
  <2>1. opc' = "reset" /\ UNCHANGED <<pool, offloaded, res>>
    BY <1>4 DEF WinnowLocked
  <2>2. InOnePlace' /\ InOneBox' /\ Fates'
    BY <1>1, <2>1, OwnerUnmoved
  <2>3. Clean' /\ HistoryTypes'
    BY <1>1, <2>1 DEF PlacesInv, Clean, HistoryTypes
  <2> QED
    BY <2>2, <2>3 DEF PlacesInv
<1>5. CASE ~(head >= oT0)
  <2>1. PICK order \in Ascending(Survivors(head)) :
           WinnowScan(head, order) /\ opc' \in {"reset", "dispatch"}
    BY <1>5 DEF WinnowLocked
  <2>2. head < oT0 /\ oT0 <= size /\ oT0 \in Int /\ size \in Nat
    BY <1>2, <1>5 DEF Window, WindowInv, SlotTypes
  <2>3. \A i \in head .. oT0 - 1 : pool[i] # None /\ ~Stale(i)
    <3>1. \A i \in head .. oT0 - 1 : pool[i] # None
      BY <1>2, <2>2 DEF Window
    <3> QED
      BY <3>1, <1>2 DEF Stale, Dead, Probing
  <2>4. InOnePlace' /\ InOneBox' /\ Fates'
    BY <1>1, <1>2, <1>3, <2>1, <2>2, <2>3, ScanMoves
  <2>5. Clean' /\ HistoryTypes'
    BY <1>1, <2>1 DEF PlacesInv, Clean, HistoryTypes
  <2> QED
    BY <2>4, <2>5 DEF PlacesInv
<1> QED
  BY <1>4, <1>5

LEMMA ReloadPlaces == ASSUME WindowInv, PlacesInv, Reload PROVE PlacesInv'
<1> USE DEF slot, prox, prio, owner, thief, hist, program
<1>1. PICK back \in SUBSET offloaded :
         /\ opc = "idle" /\ opc' = "prepare" /\ batch' \in Orders(back)
         /\ offloaded' = offloaded \ back
         /\ UNCHANGED <<pool, mail, idle, changes, res, tpc, tH, tH0, got, tag, taken, unspawned>>
  <2> DEFINE back == {t \in offloaded : Priority(t) >= top}
  <2>1. back \in SUBSET offloaded
    OBVIOUS
  <2> QED
    BY <2>1 DEF Reload
<1>2. /\ \A t : t \in back <=> \E k \in DOMAIN batch' : batch'[k] = t
      /\ \A k, l \in DOMAIN batch' : batch'[k] = batch'[l] => k = l
  BY <1>1 DEF Orders, Members
<1>3. batch = <<>> /\ res = None
  BY <1>1 DEF PlacesInv, Clean
<1>4. \A t, k : ~Holds("batch", k, t)
  BY <1>3 DEF Holds
<1>5. \A i : Stale(i)' <=> Stale(i)
  BY <1>1 DEF Stale, Dead
<1>6. \A t \in Task : \A a, k : Holds(a, k, t)' <=>
         \/ a = "batch" /\ k \in DOMAIN batch' /\ batch'[k] = t /\ t \in back
         \/ a = "offloaded" /\ t \notin back /\ Holds(a, k, t)
         \/ a \notin {"batch", "offloaded"} /\ Holds(a, k, t)
  BY <1>1, <1>2, <1>5 DEF Holds
<1>7. \A t \in back : Holds("offloaded", 0, t)
  BY <1>1 DEF Holds
<1>8. InOnePlace'
  <2> SUFFICES ASSUME NEW t \in Task, NEW a, NEW b, NEW k, NEW l,
                      Holds(a, k, t)', Holds(b, l, t)'
               PROVE  a = b /\ k = l
    BY DEF InOnePlace
  <2>1. CASE t \in back
    BY <2>1, <1>2, <1>6, <1>7 DEF PlacesInv, InOnePlace
  <2>2. CASE t \notin back
    BY <2>2, <1>6 DEF PlacesInv, InOnePlace
  <2> QED
    BY <2>1, <2>2
<1>9. \A t \in Task : Held(t)' <=> Held(t)
  <2> SUFFICES ASSUME NEW t \in Task PROVE Held(t)' <=> Held(t)
    OBVIOUS
  <2>1. CASE t \in back
    BY <2>1, <1>2, <1>6, <1>7 DEF Held
  <2>2. CASE t \notin back
    BY <2>2, <1>4, <1>6 DEF Held
  <2> QED
    BY <2>1, <2>2
<1>10. \A t : \A a, k : Posted(a, k, t)' <=> Posted(a, k, t)
  BY <1>1 DEF Posted
<1>11. InOneBox' /\ \A t \in Task : Mailed(t)' <=> Mailed(t)
  BY <1>10 DEF PlacesInv, InOneBox, Mailed
<1>12. Fates'
  BY <1>1, <1>8, <1>9, <1>11, Moved
<1>13. Clean' /\ HistoryTypes'
  BY <1>1 DEF PlacesInv, Clean, HistoryTypes
<1> QED
  BY <1>8, <1>11, <1>12, <1>13 DEF PlacesInv

\* The tasks of a spawned list, which were nowhere, are in the batch, and the
\* proxies of those with an affinity in the mailbox.
LEMMA SpawnPlaces == ASSUME WindowInv, PlacesInv, Spawn PROVE PlacesInv'
<1> USE DEF slot, prox, prio, owner, thief, hist, program
<1>1. PICK b \in Lists(unspawned) :
         /\ batch' = b /\ unspawned' = unspawned \ Members(b)
         /\ tag' = [t \in Task |-> IF t \in affine \cap Members(b) THEN "both" ELSE tag[t]]
         /\ \E order \in Ascending({i \in DOMAIN b : b[i] \in affine}) :
                mail' = mail \o [i \in DOMAIN order |-> b[order[i]]]
         /\ opc = "idle" /\ opc' = "prepare"
         /\ UNCHANGED <<pool, idle, changes, offloaded, res, tpc, tH, tH0, got, taken, affine>>
  BY DEF Spawn
<1>2. PICK n \in Nat : b \in [1 .. n -> unspawned] /\ \A i, j \in 1 .. n : b[i] = b[j] => i = j
  <2>1. PICK n \in 1 .. MaxBatch :
           b \in [1 .. n -> unspawned] /\ \A i, j \in DOMAIN b : i # j => b[i] # b[j]
    BY <1>1 DEF Lists
  <2>2. n \in Nat
    BY SizesPositive
  <2> QED
    BY <2>1, <2>2
<1>3. batch = <<>> /\ res = None
  BY <1>1 DEF PlacesInv, Clean
<1>4. \A t \in Members(b) : t \in unspawned /\ t \in Task /\ ~Held(t) /\ ~Mailed(t) /\ taken[t] = 0
  <2>1. unspawned \subseteq Task
    BY DEF WindowInv, TaskTypes
  <2>2. \A t \in unspawned : Fate(t)
    BY <2>1 DEF PlacesInv, Fates
  <2> QED
    BY <1>2, <2>1, <2>2 DEF Members, Fate
<1>5. \A i : Stale(i)' <=> Stale(i)
  BY <1>1 DEF Stale, Dead
<1>6. \A t \in Task : \A a, k : Holds(a, k, t)' <=>
         \/ a = "batch" /\ k \in 1 .. n /\ b[k] = t
         \/ Holds(a, k, t)
  BY <1>1, <1>2, <1>3, <1>5 DEF Holds
<1>7. \A t \in Task : t \in Members(b) <=> \E k \in 1 .. n : b[k] = t
  BY <1>2 DEF Members
<1>8. InOnePlace'
  <2> SUFFICES ASSUME NEW t \in Task, NEW a, NEW c, NEW k, NEW l,
                      Holds(a, k, t)', Holds(c, l, t)'
               PROVE  a = c /\ k = l
    BY DEF InOnePlace
  <2>1. CASE t \in Members(b)
    BY <2>1, <1>2, <1>4, <1>6 DEF Held
  <2>2. CASE t \notin Members(b)
    BY <2>2, <1>6, <1>7 DEF PlacesInv, InOnePlace
  <2> QED
    BY <2>1, <2>2
<1>9. \A t \in Task : Held(t)' <=> Held(t) \/ t \in Members(b)
  BY <1>6, <1>7 DEF Held
<1>10. PICK m \in Nat : \E order :
         /\ mail' = mail \o order /\ order \in [1 .. m -> affine \cap Members(b)]
         /\ \A i, j \in 1 .. m : order[i] = order[j] => i = j
         /\ \A t \in affine \cap Members(b) : \E i \in 1 .. m : order[i] = t
  <2> DEFINE S == {i \in DOMAIN b : b[i] \in affine}
  <2>1. PICK order \in Ascending(S) : mail' = mail \o [i \in DOMAIN order |-> b[order[i]]]
    BY <1>1
  <2>2. IsFiniteSet(S)
    BY <1>2, FS_Interval, FS_Subset
  <2>3. PICK m \in Nat : m = Cardinality(S)
    BY <2>2, FS_CardinalityType
  <2>4. /\ order \in [1 .. m -> S]
        /\ \A i, j \in 1 .. m : order[i] = order[j] => i = j
        /\ \A i \in S : \E j \in 1 .. m : order[j] = i
    BY <2>3 DEF Ascending, Orders, Members
  <2> DEFINE o == [i \in DOMAIN order |-> b[order[i]]]
  <2>5. o \in [1 .. m -> affine \cap Members(b)]
    BY <2>4 DEF Members
  <2>6. \A i, j \in 1 .. m : o[i] = o[j] => i = j
    BY <1>2, <2>4
  <2>7. \A t \in affine \cap Members(b) : \E i \in 1 .. m : o[i] = t
    <3> SUFFICES ASSUME NEW t \in affine \cap Members(b) PROVE \E i \in 1 .. m : o[i] = t
      OBVIOUS
    <3>1. PICK k \in S : b[k] = t
      BY DEF Members
    <3>2. PICK i \in 1 .. m : order[i] = k
      BY <3>1, <2>4
    <3> QED
      BY <3>1, <3>2, <2>4
  <2> HIDE DEF o
  <2>8. mail' = mail \o o
    BY <2>1 DEF o
  <2> QED
    BY <2>5, <2>6, <2>7, <2>8
<1>11. PICK order :
         /\ mail' = mail \o order /\ order \in [1 .. m -> affine \cap Members(b)]
         /\ \A i, j \in 1 .. m : order[i] = order[j] => i = j
         /\ \A t \in affine \cap Members(b) : \E i \in 1 .. m : order[i] = t
  BY <1>10
<1>12. PICK L \in Nat :
         /\ DOMAIN mail = 1 .. L /\ DOMAIN mail' = 1 .. L + m
         /\ \A k \in 1 .. L : mail'[k] = mail[k]
         /\ \A j \in 1 .. m : mail'[L + j] = order[j]
  <2>1. mail \in Seq(affine) /\ Len(mail) \in Nat /\ DOMAIN mail = 1 .. Len(mail)
    BY LenProperties DEF WindowInv, TaskTypes
  <2>2. order \in Seq(affine) /\ Len(order) = m
    BY <1>11, SeqDef, LenProperties
  <2>3. /\ Len(mail') = Len(mail) + m /\ mail' \in Seq(affine)
        /\ \A k \in 1 .. Len(mail) + m :
              mail'[k] = IF k <= Len(mail) THEN mail[k] ELSE order[k - Len(mail)]
    <3>1. /\ Len(mail \o order) = Len(mail) + Len(order) /\ mail \o order \in Seq(affine)
          /\ \A k \in 1 .. Len(mail) + Len(order) :
                (mail \o order)[k] = IF k <= Len(mail) THEN mail[k] ELSE order[k - Len(mail)]
      BY <2>1, <2>2, ConcatProperties
    <3> QED
      BY <3>1, <2>2, <1>11
  <2>4. DOMAIN mail' = 1 .. Len(mail) + m
    BY <2>3, LenProperties
  <2>5. \A j \in 1 .. m : mail'[Len(mail) + j] = order[j]
    <3> SUFFICES ASSUME NEW j \in 1 .. m PROVE mail'[Len(mail) + j] = order[j]
      OBVIOUS
    <3>1. Len(mail) + j \in 1 .. Len(mail) + m /\ ~(Len(mail) + j <= Len(mail))
          /\ (Len(mail) + j) - Len(mail) = j
      BY <2>1
    <3> QED
      BY <3>1, <2>3
  <2>6. \A k \in 1 .. Len(mail) : mail'[k] = mail[k]
    BY <2>1, <2>3
  <2> QED
    BY <2>1, <2>4, <2>5, <2>6
<1>13. \A k \in 1 .. L + m : k \in 1 .. L \/ \E j \in 1 .. m : k = L + j
  <2> SUFFICES ASSUME NEW k \in 1 .. L + m, k \notin 1 .. L PROVE \E j \in 1 .. m : k = L + j
    OBVIOUS
  <2>1. k - L \in 1 .. m /\ k = L + (k - L)
    OBVIOUS
  <2> QED
    BY <2>1
<1>14. \A t \in Task : \A a, k : Posted(a, k, t)' =>
         \/ a = "mail" /\ \E j \in 1 .. m : k = L + j /\ order[j] = t
         \/ Posted(a, k, t)
  BY <1>1, <1>12, <1>13 DEF Posted
<1>15. \A t \in Task : \A a, k : Posted(a, k, t) => Posted(a, k, t)'
  <2>1. \A k \in 1 .. L : k \in 1 .. L + m
    OBVIOUS
  <2> QED
    BY <1>1, <1>12, <2>1 DEF Posted
<1>16. \A j \in 1 .. m : order[j] \in affine \cap Members(b)
  BY <1>11
<1>17. InOneBox'
  <2> SUFFICES ASSUME NEW t \in Task, NEW a, NEW c, NEW k, NEW l,
                      Posted(a, k, t)', Posted(c, l, t)'
               PROVE  a = c /\ k = l
    BY DEF InOneBox
  <2>1. CASE t \in Members(b)
    <3>1. \A d, i : ~Posted(d, i, t)
      BY <2>1, <1>4 DEF Mailed
    <3>2. PICK i \in 1 .. m : a = "mail" /\ k = L + i /\ order[i] = t
      BY <3>1, <1>14
    <3>3. PICK j \in 1 .. m : c = "mail" /\ l = L + j /\ order[j] = t
      BY <3>1, <1>14
    <3> QED
      BY <3>2, <3>3, <1>11
  <2>2. CASE t \notin Members(b)
    BY <2>2, <1>14, <1>16 DEF PlacesInv, InOneBox
  <2> QED
    BY <2>1, <2>2
<1>18. \A t \in Task : Mailed(t)' <=> Mailed(t) \/ t \in affine \cap Members(b)
  <2>1. \A t \in Task : Mailed(t)' => Mailed(t) \/ t \in affine \cap Members(b)
    BY <1>14, <1>16 DEF Mailed
  <2>2. \A t \in Task : Mailed(t) => Mailed(t)'
    BY <1>15 DEF Mailed
  <2>3. \A t \in affine \cap Members(b) : Mailed(t)'
    <3> SUFFICES ASSUME NEW t \in affine \cap Members(b) PROVE \E a, k : Posted(a, k, t)'
      BY DEF Mailed
    <3>1. PICK j \in 1 .. m : order[j] = t
      BY <1>11
    <3>2. L + j \in 1 .. L + m
      OBVIOUS
    <3>3. Posted("mail", L + j, t)'
      BY <3>1, <3>2, <1>12 DEF Posted
    <3> QED
      BY <3>3
  <2> QED
    BY <2>1, <2>2, <2>3
<1>19. Fates'
  <2> SUFFICES ASSUME NEW t \in Task PROVE Fate(t)'
    BY DEF Fates
  <2>1. Fate(t)
    BY DEF PlacesInv, Fates
  <2>2. CASE t \in Members(b)
    <3>1. t \in unspawned /\ tag[t] = "plain"
      BY <2>1, <2>2, <1>4 DEF Fate
    <3>2. tag'[t] = IF t \in affine THEN "both" ELSE "plain"
      BY <2>2, <3>1, <1>1
    <3> QED
      BY <2>2, <3>2, <1>1, <1>4, <1>9, <1>18 DEF Fate
  <2>3. CASE t \notin Members(b)
    <3>1. tag'[t] = tag[t] /\ (t \in unspawned' <=> t \in unspawned)
      BY <2>3, <1>1
    <3> QED
      BY <2>1, <2>3, <3>1, <1>1, <1>9, <1>18 DEF Fate
  <2> QED
    BY <2>2, <2>3
<1>20. Clean' /\ HistoryTypes'
  BY <1>1, <1>3 DEF PlacesInv, Clean, HistoryTypes
<1> QED
  BY <1>8, <1>17, <1>19, <1>20 DEF PlacesInv

\* A step that takes t out of its place
LEMMA Removed ==
  ASSUME PlacesInv, NEW t \in Task, NEW a0, NEW k0, Holds(a0, k0, t),
         \A u \in Task : \A a, k :
             Holds(a, k, u)' <=> Holds(a, k, u) /\ ~(a = a0 /\ k = k0 /\ u = t)
  PROVE  InOnePlace' /\ ~Held(t)' /\ \A u \in Task \ {t} : Held(u)' <=> Held(u)
<1>1. InOnePlace'
  BY DEF PlacesInv, InOnePlace
<1>2. ~Held(t)'
  BY DEF PlacesInv, InOnePlace, Held
<1>3. \A u \in Task \ {t} : Held(u)' <=> Held(u)
  BY DEF Held
<1> QED
  BY <1>1, <1>2, <1>3

\* The execution of t, which counts: it has not been executed before.
LEMMA Executed ==
  ASSUME PlacesInv, NEW t \in Task, Held(t), tag[t] # "pool",
         taken' = [taken EXCEPT ![t] = @ + 1], unspawned' = unspawned,
         ~Held(t)', \A u \in Task \ {t} : Held(u)' <=> Held(u),
         \A u \in Task : Mailed(u)' <=> Mailed(u),
         \A u \in Task \ {t} : tag'[u] = tag[u],
         tag'[t] = IF tag[t] = "both" THEN "mailbox" ELSE tag[t],
         \A u \in Task \ {t} : opc = "dispatch" /\ res = u => opc' = "dispatch" /\ res' = u
  PROVE  Fates' /\ taken' \in [Task -> Nat]
<1>1. Fate(t)
  BY DEF PlacesInv, Fates
<1>2. taken[t] = 0 /\ t \notin unspawned
  BY <1>1 DEF Fate
<1>3. taken' \in [Task -> Nat] /\ taken'[t] = 1 /\ \A u \in Task \ {t} : taken'[u] = taken[u]
  BY <1>2 DEF PlacesInv, HistoryTypes
<1>4. Fate(t)'
  BY <1>1, <1>2, <1>3 DEF Fate
<1>5. \A u \in Task \ {t} : Fate(u)'
  <2> SUFFICES ASSUME NEW u \in Task \ {t} PROVE Fate(u)'
    OBVIOUS
  <2>1. Fate(u) /\ taken'[u] = taken[u] /\ tag'[u] = tag[u]
    BY <1>3 DEF PlacesInv, Fates
  <2> QED
    BY <2>1 DEF Fate
<1> QED
  BY <1>3, <1>4, <1>5 DEF Fates

LEMMA DispatchPlaces == ASSUME WindowInv, PlacesInv, Dispatch PROVE PlacesInv'
<1> USE DEF slot, prox, prio, owner, thief, hist, program
<1>1. /\ opc = "dispatch" /\ opc' \in {"winnow", "idle"} /\ res' = None /\ res # None
      /\ tag[res] \notin {"both", "pool"}
      /\ UNCHANGED <<pool, mail, tag, changes, idle, batch, tpc, tH, tH0, got, unspawned, affine, low>>
  BY DEF Dispatch, IsProxy, WindowInv, OwnerWindow
<1>2. PICK e \in Task : e = res /\ Holds("res", 0, e)
  BY <1>1 DEF WindowInv, SlotTypes, Entry, Holds
<1>3. Fate(e)
  BY <1>2 DEF PlacesInv, Fates
<1>4. Held(e)
  BY <1>2 DEF Held
<1>5. \A i : Stale(i)' <=> Stale(i)
  BY <1>1 DEF Stale, Dead
<1>6. \A t : \A a, k : Posted(a, k, t)' <=> Posted(a, k, t)
  BY <1>1 DEF Posted
<1>7. InOneBox' /\ \A t \in Task : Mailed(t)' <=> Mailed(t)
  BY <1>6 DEF PlacesInv, InOneBox, Mailed
<1>8. CASE Priority(res) < top
  <2>1. offloaded' = offloaded \cup {res} /\ taken' = taken
    BY <1>8 DEF Dispatch
  <2>2. low # {} /\ \A t \in Task : tag[t] = "plain"
    BY <1>8 DEF Priority, WindowInv, TaskTypes, OneKind
  <2>3. \A t \in Task : \A a, k : Holds(a, k, t)' <=>
           \/ a # "res" /\ Holds(a, k, t)
           \/ a = "offloaded" /\ k = 0 /\ t = e
    BY <1>1, <1>2, <1>5, <2>1, NoneIsNoTask DEF Holds
  <2>4. \A a, k : Holds(a, k, e) => a = "res"
    BY <1>2 DEF PlacesInv, InOnePlace
  <2>5. InOnePlace'
    BY <2>3, <2>4 DEF PlacesInv, InOnePlace
  <2>6. \A t \in Task : Held(t)' <=> Held(t)
    <3> SUFFICES ASSUME NEW t \in Task PROVE Held(t)' <=> Held(t)
      OBVIOUS
    <3>1. CASE t = e
      BY <3>1, <1>4, <2>3 DEF Held
    <3>2. CASE t # e
      <4>1. \A a, k : Holds(a, k, t) => a # "res"
        BY <1>2, <3>2 DEF Holds
      <4> QED
        BY <3>2, <4>1, <2>3 DEF Held
    <3> QED
      BY <3>1, <3>2
  <2>7. Fates'
    <3> SUFFICES ASSUME NEW t \in Task PROVE Fate(t)'
      BY DEF Fates
    <3>1. Fate(t)
      BY DEF PlacesInv, Fates
    <3> QED
      BY <3>1, <1>1, <1>7, <2>1, <2>2, <2>6 DEF Fate
  <2>8. Clean' /\ HistoryTypes'
    BY <1>1, <2>1 DEF PlacesInv, Clean, HistoryTypes
  <2> QED
    BY <1>7, <2>5, <2>7, <2>8 DEF PlacesInv
<1>9. CASE ~(Priority(res) < top)
  <2>1. offloaded' = offloaded /\ taken' = [taken EXCEPT ![e] = @ + 1]
    BY <1>2, <1>9 DEF Dispatch
  <2>2. \A t \in Task : \A a, k :
           Holds(a, k, t)' <=> Holds(a, k, t) /\ ~(a = "res" /\ k = 0 /\ t = e)
    BY <1>1, <1>2, <1>5, <2>1, NoneIsNoTask DEF Holds
  <2>3. InOnePlace' /\ ~Held(e)' /\ \A t \in Task \ {e} : Held(t)' <=> Held(t)
    BY <1>2, <2>2, Removed
  <2>4. tag[e] # "pool" /\ tag'[e] = IF tag[e] = "both" THEN "mailbox" ELSE tag[e]
    BY <1>1, <1>2
  <2>5. Fates' /\ taken' \in [Task -> Nat]
    BY <1>1, <1>2, <1>4, <1>7, <2>1, <2>3, <2>4, Executed
  <2>6. Clean' /\ HistoryTypes'
    BY <1>1, <2>5 DEF PlacesInv, Clean, HistoryTypes
  <2> QED
    BY <1>7, <2>3, <2>5, <2>6 DEF PlacesInv
<1> QED
  BY <1>8, <1>9

\* The owner takes the task out of a proxy, or frees the proxy when the other
\* side has taken the task before.
LEMMA ExtractOwnPlaces == ASSUME WindowInv, PlacesInv, ExtractOwn PROVE PlacesInv'
<1> USE DEF slot, prox, prio, owner, thief, hist, program
<1>1. /\ opc = "extract" /\ opc' \in {"dispatch", "retry", "idle"} /\ res # None
      /\ UNCHANGED <<pool, mail, changes, idle, offloaded, batch, tpc, tH, tH0, got, taken, unspawned>>
  BY DEF ExtractOwn, WindowInv, OwnerWindow
<1>2. PICK e \in Task : e = res /\ Holds("res", 0, e)
  BY <1>1 DEF WindowInv, SlotTypes, Entry, Holds
<1>3. Fate(e) /\ tag \in [Task -> {"plain", "both", "pool", "mailbox", "freed"}]
  BY <1>2 DEF PlacesInv, Fates, WindowInv, TaskTypes
<1>4. Held(e)
  BY <1>2 DEF Held
<1>5. tag[res] \in {"both", "pool"}
  BY <1>1, <1>2, <1>3, <1>4 DEF Fate, WindowInv, OneKind
<1>6. \A i : Stale(i)' <=> Stale(i)
  BY <1>1 DEF Stale, Dead
<1>7. \A t : \A a, k : Posted(a, k, t)' <=> Posted(a, k, t)
  BY <1>1 DEF Posted
<1>8. InOneBox' /\ \A t \in Task : Mailed(t)' <=> Mailed(t)
  BY <1>7 DEF PlacesInv, InOneBox, Mailed
<1>9. CASE tag[res] = "both"
  <2>1. tag' = [tag EXCEPT ![res] = "mailbox"] /\ opc' = "dispatch" /\ res' = res
    BY <1>9 DEF ExtractOwn
  <2>2. \A t \in Task : \A a, k : Holds(a, k, t)' <=> Holds(a, k, t)
    BY <1>1, <1>6, <2>1 DEF Holds
  <2>3. InOnePlace' /\ \A t \in Task : Held(t)' <=> Held(t)
    BY <2>2 DEF PlacesInv, InOnePlace, Held
  <2>4. Fates'
    <3> SUFFICES ASSUME NEW t \in Task PROVE Fate(t)'
      BY DEF Fates
    <3>1. Fate(t)
      BY DEF PlacesInv, Fates
    <3>2. tag'[t] = IF t = e THEN "mailbox" ELSE tag[t]
      BY <1>2, <1>3, <2>1
    <3> QED
      BY <3>1, <3>2, <1>1, <1>8, <1>9, <2>1, <2>3 DEF Fate
  <2>5. Clean' /\ HistoryTypes'
    BY <1>1, <2>1 DEF PlacesInv, Clean, HistoryTypes
  <2> QED
    BY <1>8, <2>3, <2>4, <2>5 DEF PlacesInv
<1>10. CASE tag[res] # "both"
  <2>1. tag' = [tag EXCEPT ![res] = "freed"] /\ res' = None /\ opc' \in {"retry", "idle"}
    BY <1>10 DEF ExtractOwn
  <2>2. \A t \in Task : \A a, k :
           Holds(a, k, t)' <=> Holds(a, k, t) /\ ~(a = "res" /\ k = 0 /\ t = e)
    BY <1>1, <1>2, <1>6, <2>1, NoneIsNoTask DEF Holds
  <2>3. InOnePlace' /\ ~Held(e)' /\ \A t \in Task \ {e} : Held(t)' <=> Held(t)
    BY <1>2, <2>2, Removed
  <2>4. Fates'
    <3> SUFFICES ASSUME NEW t \in Task PROVE Fate(t)'
      BY DEF Fates
    <3>1. Fate(t)
      BY DEF PlacesInv, Fates
    <3>2. tag'[t] = IF t = e THEN "freed" ELSE tag[t]
      BY <1>2, <1>3, <2>1
    <3>3. CASE t = e
      BY <3>1, <3>2, <3>3, <1>1, <1>5, <1>8, <1>10, <2>1, <2>3 DEF Fate
    <3>4. CASE t # e
      BY <3>1, <3>2, <3>4, <1>1, <1>8, <2>1, <2>3 DEF Fate
    <3> QED
      BY <3>3, <3>4
  <2>5. Clean' /\ HistoryTypes'
    BY <1>1, <2>1 DEF PlacesInv, Clean, HistoryTypes
  <2> QED
    BY <1>8, <2>3, <2>4, <2>5 DEF PlacesInv
<1> QED
  BY <1>9, <1>10

(***************************************************************************)
(* The thieves.                                                            *)
(***************************************************************************)
\* A step of a thief that moves no task
LEMMA ThiefUnmoved ==
  ASSUME WindowInv, PlacesInv, NEW h \in Thief, NEW from, NEW to, Goto(h, from, to),
         UNCHANGED <<tag, taken, unspawned, changes, pool, offloaded, res, batch, opc, mail, got>>,
         idle' \in BOOLEAN, from # "mail", to # "mail",
         \A i : Stale(i)' <=> Stale(i),
         to \in {"out", "loop", "bump", "check", "backOff", "read"} => got[h] = None,
         to = "extract" => got[h] # None
  PROVE  PlacesInv'
<1>1. tpc[h] = from /\ tpc'[h] = to /\ \A k \in Thief \ {h} : tpc'[k] = tpc[k]
  BY DEF Goto, WindowInv, LockInv, LockTypes
<1>2. \A t \in Task : \A a, k : /\ Holds(a, k, t)' <=> Holds(a, k, t)
                                /\ Posted(a, k, t)' <=> Posted(a, k, t)
  BY <1>1 DEF Holds, Posted
<1>3. InOnePlace' /\ InOneBox' /\ Fates'
  BY <1>2, Unmoved
<1>4. Clean' /\ HistoryTypes'
  <2>1. \A k \in Thief :
           /\ tpc'[k] \in {"out", "loop", "bump", "check", "backOff", "read"} => got[k] = None
           /\ tpc'[k] \in {"extract", "mail"} => got[k] # None
           /\ tpc'[k] = "mail" => k = Recipient
    BY <1>1 DEF PlacesInv, Clean
  <2> QED
    BY <2>1 DEF PlacesInv, Clean, HistoryTypes
<1> QED
  BY <1>3, <1>4 DEF PlacesInv

\* The steps that move no task but PoisonStolen
LEMMA QuietThiefPlaces ==
  ASSUME WindowInv, PlacesInv, NEW h \in Thief,
         \/ LookForWork(h) \/ Lock(h) \/ Bump(h) \/ Check(h) \/ BackOff(h) \/ LowerHead(h)
         \/ Unlock(h) /\ (got[h] = None \/ IsProxy(got[h]))
  PROVE  PlacesInv'
<1> USE DEF slot, prox, prio, owner, thief, hist, program
<1> DEFINE Quiet(from, to) ==
     /\ Goto(h, from, to)
     /\ UNCHANGED <<tag, taken, unspawned, changes, pool, offloaded, res, batch, opc, mail, got>>
     /\ idle' \in BOOLEAN
     /\ \A k \in Thief \ {h} : tH'[k] = tH[k] /\ tH0'[k] = tH0[k]
<1>1. ASSUME NEW from, NEW to, Quiet(from, to),
             from \notin {"close", "closed", "poison", "mail"},
             to \notin {"close", "closed", "poison", "mail"},
             to \in {"out", "loop", "bump", "check", "backOff", "read"} => got[h] = None,
             to = "extract" => got[h] # None
      PROVE  PlacesInv'
  <2>1. tpc[h] = from /\ tpc'[h] = to /\ \A k \in Thief \ {h} : tpc'[k] = tpc[k]
    BY <1>1 DEF Goto, WindowInv, LockInv, LockTypes
  <2>2. \A i : Stale(i)' <=> Stale(i)
    BY <2>1, <1>1 DEF Stale, Dead
  <2> QED
    BY <1>1, <2>2, ThiefUnmoved
<1>2. tH \in [Thief -> Nat] /\ tH0 \in [Thief -> Nat] /\ idle \in BOOLEAN
  BY DEF WindowInv, SlotTypes, PlacesInv, HistoryTypes
<1>3. tpc[h] \in {"out", "loop", "bump", "check", "backOff", "read"} => got[h] = None
  BY DEF PlacesInv, Clean
<1>4. CASE LookForWork(h)
  <2>1. Quiet("out", "loop")
    <3>1. idle' = (idle \/ h = Recipient)
      BY <1>4 DEF LookForWork
    <3>2. idle' \in BOOLEAN
      BY <3>1, <1>2, Zenon
    <3> QED
      BY <1>4, <3>2 DEF LookForWork
  <2> QED
    BY <1>1, <1>3, <2>1 DEF Goto
<1>5. CASE Lock(h)
  <2>1. Quiet("loop", "bump")
    BY <1>2, <1>5 DEF Lock
  <2> QED
    BY <1>1, <1>3, <2>1 DEF Goto
<1>6. CASE Bump(h)
  <2>1. Quiet("bump", "check")
    BY <1>2, <1>6 DEF Bump
  <2> QED
    BY <1>1, <1>3, <2>1 DEF Goto
<1>7. CASE Check(h)
  <2>1. PICK to \in {"backOff", "read"} : Quiet("check", to)
    BY <1>2, <1>7 DEF Check
  <2> QED
    BY <1>1, <1>3, <2>1 DEF Goto
<1>8. CASE BackOff(h)
  <2>1. Quiet("backOff", "unlock")
    BY <1>2, <1>8 DEF BackOff
  <2> QED
    BY <1>1, <2>1
<1>9. CASE LowerHead(h)
  <2>1. Quiet("closed", "poison") /\ UNCHANGED <<tH, tH0>>
    BY <1>2, <1>9 DEF LowerHead
  <2>2. tpc[h] = "closed" /\ tpc'[h] = "poison" /\ \A k \in Thief \ {h} : tpc'[k] = tpc[k]
    BY <2>1 DEF Goto, WindowInv, LockInv, LockTypes
  <2>3. \A i : Stale(i)' <=> Stale(i)
    BY <2>1, <2>2 DEF Stale, Dead
  <2> QED
    BY <2>1, <2>3, ThiefUnmoved
<1>10. CASE Unlock(h) /\ got[h] = None
  <2>1. Quiet("unlock", "loop")
    BY <1>2, <1>10 DEF Unlock
  <2> QED
    BY <1>1, <1>10, <2>1
<1>11. CASE Unlock(h) /\ got[h] # None /\ IsProxy(got[h])
  <2>1. Quiet("unlock", "extract")
    BY <1>2, <1>11 DEF Unlock
  <2> QED
    BY <1>1, <1>11, <2>1
<1>12. IsProxy(got[h]) => got[h] # None
  BY DEF IsProxy
<1> QED
  BY <1>4, <1>5, <1>6, <1>7, <1>8, <1>9, <1>10, <1>11, <1>12

\* What the thief has read is its own, though it is still in the pool.
LEMMA ReadPlaces == ASSUME WindowInv, PlacesInv, NEW h \in Thief, Read(h) PROVE PlacesInv'
<1> USE DEF slot, prox, prio, owner, thief, hist, program
<1> DEFINE e == pool[tH[h] - 1]
<1>1. PICK to \in {"bump", "close", "poison"} :
         /\ Goto(h, "read", to)
         /\ to = "bump" => got' = got
         /\ to # "bump" => got' = [got EXCEPT ![h] = e]
         /\ to = "poison" => ~(tH0[h] + 1 < tH[h])
         /\ UNCHANGED <<slot, prox, prio, owner, tH, tH0, vpool, hist>>
  BY DEF Read
<1>2. /\ tpc[h] = "read" /\ tpc'[h] = to
      /\ \A k \in Thief \ {h} : /\ tpc'[k] = tpc[k]
                                /\ tpc[k] \notin {"close", "closed", "poison"}
  <2>1. LockInv /\ "read" \in Seizing /\ to \in Seizing \cup {"unlock"} /\ Goto(h, "read", to)
    BY <1>1 DEF WindowInv, Seizing
  <2>2. /\ tpc[h] = "read" /\ tpc'[h] = to
        /\ \A k \in Thief \ {h} : tpc'[k] = tpc[k] /\ tpc[k] \notin Seizing
    BY <2>1, HolderGoes
  <2> QED
    BY <2>2 DEF Seizing
<1>3. got[h] = None /\ got \in [Thief -> Entry]
  BY <1>2 DEF PlacesInv, Clean, WindowInv, SlotTypes
<1>4. CASE to = "bump"
  <2>1. \A i : Stale(i)' <=> Stale(i)
    BY <1>1, <1>2, <1>4 DEF Stale, Dead
  <2>2. idle' \in BOOLEAN
    BY <1>1 DEF PlacesInv, HistoryTypes
  <2> QED
    BY <1>1, <1>3, <1>4, <2>1, <2>2, ThiefUnmoved
<1>5. CASE to # "bump"
  <2>1. tH[h] \in Nat /\ tH0[h] \in Nat /\ tH0[h] < tH[h] /\ tH[h] - 1 \in 0 .. size - 1
    <3>1. tH[h] \in Nat /\ tH0[h] \in Nat /\ tH0[h] < tH[h] /\ size \in Nat
      BY <1>2 DEF WindowInv, SlotTypes, ThiefWindow
    <3>2. PICK lo \in Nat : IsLow(lo)
      BY LowExists DEF WindowInv
    <3>3. Window(lo) /\ Hi(lo) \in Int
      BY <3>2 DEF WindowInv, SlotTypes, Windows, Hi
    <3>4. tH[h] <= Hi(lo) /\ Hi(lo) <= size
      BY <1>2, <3>3 DEF Window
    <3> QED
      BY <3>1, <3>3, <3>4
  <2>2. to = "poison" => tH0[h] = tH[h] - 1
    BY <1>1, <2>1
  <2>3. PICK p \in 0 .. size - 1 : p = tH[h] - 1
    BY <2>1
  <2>4. /\ \A i : ~Stale(i)
        /\ \A i : Stale(i)' <=> i = p
    BY <1>1, <1>2, <1>5, <2>2, <2>3 DEF Stale, Dead
  <2>5. got' = [got EXCEPT ![h] = pool[p]] /\ DOMAIN pool = 0 .. size - 1
    BY <1>1, <1>5, <2>3 DEF WindowInv, SlotTypes
  <2>6. \A t \in Task : \A a, k : Holds(a, k, t)' <=>
           \/ ~(a = "pool" /\ k = p) /\ Holds(a, k, t)
           \/ a = "got" /\ k = h /\ Holds("pool", p, t)
    BY <1>1, <1>2, <1>3, <1>5, <2>4, <2>5, NoneIsNoTask DEF Holds
  <2>8. InOnePlace'
    BY <2>6 DEF PlacesInv, InOnePlace
  <2>9. \A t \in Task : Held(t)' <=> Held(t)
    BY <2>6 DEF Held
  <2>10. \A t \in Task : \A a, k : Posted(a, k, t)' <=> Posted(a, k, t)
    BY <1>1, <1>2, <1>3, <1>5, <2>5 DEF Posted
  <2>11. InOneBox' /\ \A t \in Task : Mailed(t)' <=> Mailed(t)
    BY <2>10 DEF PlacesInv, InOneBox, Mailed
  <2>12. Fates'
    BY <1>1, <2>8, <2>9, <2>11, Moved
  <2>13. Clean' /\ HistoryTypes'
    <3>1. \A k \in Thief :
             /\ tpc'[k] \in {"out", "loop", "bump", "check", "backOff", "read"} => got'[k] = None
             /\ tpc'[k] \in {"extract", "mail"} => got'[k] # None
             /\ tpc'[k] = "mail" => k = Recipient
      BY <1>2, <1>3, <1>5, <2>5 DEF PlacesInv, Clean
    <3> QED
      BY <1>1, <3>1 DEF PlacesInv, Clean, HistoryTypes
  <2> QED
    BY <2>8, <2>11, <2>12, <2>13 DEF PlacesInv
<1> QED
  BY <1>4, <1>5

\* The proxies passed over move up by one; the lowest of their places is free.
LEMMA CloseHolePlaces == ASSUME WindowInv, PlacesInv, NEW h \in Thief, CloseHole(h) PROVE PlacesInv'
<1> USE DEF slot, prox, prio, owner, thief, hist, program
<1>1. /\ Goto(h, "close", "closed")
      /\ pool' = [i \in DOMAIN pool |->
                    IF i \in tH0[h] + 1 .. tH[h] - 1 THEN pool[i - 1] ELSE pool[i]]
      /\ UNCHANGED <<task_pool, pool_ptr, size, head, tail, prox, prio, owner,
                     tH, tH0, vpool, got, hist>>
  BY DEF CloseHole, FirstMoved
<1>2. /\ tpc[h] = "close" /\ tpc'[h] = "closed"
      /\ \A k \in Thief \ {h} : /\ tpc'[k] = tpc[k]
                                /\ tpc[k] \notin {"close", "closed", "poison"}
  <2>1. LockInv /\ "close" \in Seizing /\ "closed" \in Seizing \cup {"unlock"} /\ Goto(h, "close", "closed")
    BY <1>1 DEF WindowInv, Seizing
  <2>2. /\ tpc[h] = "close" /\ tpc'[h] = "closed"
        /\ \A k \in Thief \ {h} : tpc'[k] = tpc[k] /\ tpc[k] \notin Seizing
    BY <2>1, HolderGoes
  <2> QED
    BY <2>2 DEF Seizing
<1>3. PICK p \in Nat, q \in Nat : p = tH0[h] /\ q + 1 = tH[h] /\ p < q /\ q < size
  <2>1. tH[h] \in Nat /\ tH0[h] \in Nat /\ tH0[h] + 1 < tH[h] /\ size \in Nat
    BY <1>2 DEF WindowInv, SlotTypes, ThiefWindow
  <2>2. PICK lo \in Nat : IsLow(lo)
    BY LowExists DEF WindowInv
  <2>3. Window(lo) /\ Hi(lo) \in Int
    BY <2>2 DEF WindowInv, SlotTypes, Windows, Hi
  <2>4. tH[h] <= Hi(lo) /\ Hi(lo) <= size
    BY <1>2, <2>3 DEF Window
  <2>5. tH[h] - 1 \in Nat /\ (tH[h] - 1) + 1 = tH[h] /\ tH0[h] < tH[h] - 1 /\ tH[h] - 1 < size
    BY <2>1, <2>3, <2>4
  <2> QED
    BY <2>1, <2>5
<1>4. /\ \A i : Stale(i) <=> i = q
      /\ \A i : Stale(i)' <=> i = p
  <2>1. tH[h] - 1 = q
    BY <1>3
  <2> QED
    BY <2>1, <1>1, <1>2, <1>3 DEF Stale, Dead
<1>5. DOMAIN pool = 0 .. size - 1 /\ DOMAIN pool' = 0 .. size - 1 /\ size \in Nat
  BY <1>1 DEF WindowInv, SlotTypes
<1>6. \A i \in p .. q - 1 : i \in 0 .. size - 1 /\ i + 1 \in 0 .. size - 1 /\ pool'[i + 1] = pool[i]
  <2> SUFFICES ASSUME NEW i \in p .. q - 1
               PROVE  i \in 0 .. size - 1 /\ i + 1 \in 0 .. size - 1 /\ pool'[i + 1] = pool[i]
    OBVIOUS
  <2>1. /\ i \in 0 .. size - 1 /\ i + 1 \in 0 .. size - 1 /\ (i + 1) - 1 = i
        /\ i + 1 \in p + 1 .. (q + 1) - 1
    BY <1>3, <1>5
  <2>2. pool'[i + 1] = IF i + 1 \in p + 1 .. (q + 1) - 1 THEN pool[(i + 1) - 1] ELSE pool[i + 1]
    BY <2>1, <1>1, <1>3, <1>5
  <2> QED
    BY <2>1, <2>2
<1>7. \A i \in 0 .. size - 1 : i \notin p .. q => pool'[i] = pool[i]
  <2>1. tH[h] - 1 = q /\ tH0[h] = p
    BY <1>3
  <2> QED
    BY <2>1, <1>1, <1>5
<1>8. \A k \in p .. q : k = p \/ \E i \in p .. q - 1 : k = i + 1
  <2> SUFFICES ASSUME NEW k \in p .. q, k # p PROVE \E i \in p .. q - 1 : k = i + 1
    OBVIOUS
  <2>1. k - 1 \in p .. q - 1 /\ k = (k - 1) + 1
    OBVIOUS
  <2> QED
    BY <2>1
<1>9. \A t \in Task : \A a, k : Holds(a, k, t)' =>
         \/ a = "pool" /\ \E i \in p .. q - 1 : k = i + 1 /\ Holds("pool", i, t)
         \/ ~(a = "pool" /\ k \in p .. q) /\ Holds(a, k, t)
  <2> SUFFICES ASSUME NEW t \in Task, NEW a, NEW k, Holds(a, k, t)'
               PROVE  \/ a = "pool" /\ \E i \in p .. q - 1 : k = i + 1 /\ Holds("pool", i, t)
                      \/ ~(a = "pool" /\ k \in p .. q) /\ Holds(a, k, t)
    OBVIOUS
  <2>1. CASE a = "pool" /\ k \in p .. q
    <3>1. pool'[k] = t /\ k # p
      BY <2>1, <1>4 DEF Holds
    <3>2. PICK i \in p .. q - 1 : k = i + 1
      BY <2>1, <3>1, <1>8
    <3>3. pool[i] = t /\ i \in 0 .. size - 1 /\ i # q
      BY <3>1, <3>2, <1>6
    <3> QED
      BY <2>1, <3>2, <3>3, <1>4, <1>5 DEF Holds
  <2>2. CASE a = "pool" /\ k \notin p .. q
    <3>1. k \in 0 .. size - 1 /\ pool'[k] = t /\ q \in p .. q
      BY <2>2, <1>3, <1>5 DEF Holds
    <3>2. pool[k] = t /\ k # q
      BY <2>2, <3>1, <1>7
    <3> QED
      BY <2>2, <3>1, <3>2, <1>4, <1>5 DEF Holds
  <2>3. CASE a # "pool"
    BY <2>3, <1>1, <1>2 DEF Holds
  <2> QED
    BY <2>1, <2>2, <2>3
<1>10. \A t \in Task : \A a, k : Holds(a, k, t) =>
         \/ \E i : Holds("pool", i, t)'
         \/ Holds(a, k, t)'
  <2> SUFFICES ASSUME NEW t \in Task, NEW a, NEW k, Holds(a, k, t)
               PROVE  (\E i : Holds("pool", i, t)') \/ Holds(a, k, t)'
    OBVIOUS
  <2>1. CASE a = "pool" /\ k \in p .. q
    <3>1. pool[k] = t /\ k # q
      BY <2>1, <1>4 DEF Holds
    <3>2. k \in p .. q - 1
      BY <2>1, <3>1
    <3>3. pool'[k + 1] = t /\ k + 1 \in 0 .. size - 1 /\ k + 1 # p
      BY <3>1, <3>2, <1>6
    <3>4. Holds("pool", k + 1, t)'
      BY <3>3, <1>4, <1>5 DEF Holds
    <3> QED
      BY <3>4
  <2>2. CASE a = "pool" /\ k \notin p .. q
    <3>1. k \in 0 .. size - 1 /\ pool[k] = t /\ p \in p .. q
      BY <2>2, <1>3, <1>5 DEF Holds
    <3>2. pool'[k] = t /\ k # p
      BY <2>2, <3>1, <1>7
    <3> QED
      BY <2>2, <3>1, <3>2, <1>4, <1>5 DEF Holds
  <2>3. CASE a # "pool"
    BY <2>3, <1>1, <1>2 DEF Holds
  <2> QED
    BY <2>1, <2>2, <2>3
<1>11. InOnePlace'
  <2> SUFFICES ASSUME NEW t \in Task, NEW a, NEW b, NEW k, NEW l,
                      Holds(a, k, t)', Holds(b, l, t)'
               PROVE  a = b /\ k = l
    BY DEF InOnePlace
  <2>1. \A i \in p .. q - 1 : i \in p .. q
    OBVIOUS
  <2> QED
    BY <2>1, <1>9 DEF PlacesInv, InOnePlace
<1>12. \A t \in Task : Held(t)' <=> Held(t)
  BY <1>9, <1>10 DEF Held
<1>13. \A t : \A a, k : Posted(a, k, t)' <=> Posted(a, k, t)
  BY <1>1, <1>2 DEF Posted
<1>14. InOneBox' /\ \A t \in Task : Mailed(t)' <=> Mailed(t)
  BY <1>13 DEF PlacesInv, InOneBox, Mailed
<1>15. Fates'
  BY <1>1, <1>11, <1>12, <1>14, Moved
<1>16. Clean' /\ HistoryTypes'
  <2>1. \A k \in Thief :
           /\ tpc'[k] \in {"out", "loop", "bump", "check", "backOff", "read"} => got[k] = None
           /\ tpc'[k] \in {"extract", "mail"} => got[k] # None
           /\ tpc'[k] = "mail" => k = Recipient
    BY <1>2 DEF PlacesInv, Clean
  <2> QED
    BY <1>1, <2>1 DEF PlacesInv, Clean, HistoryTypes
<1> QED
  BY <1>11, <1>14, <1>15, <1>16 DEF PlacesInv

\* What is poisoned is nobody's.
LEMMA PoisonPlaces == ASSUME WindowInv, PlacesInv, NEW h \in Thief, PoisonStolen(h) PROVE PlacesInv'
<1> USE DEF slot, prox, prio, owner, thief, hist, program
<1>1. /\ Goto(h, "poison", "unlock")
      /\ pool' = [pool EXCEPT ![tH0[h]] = None]
      /\ UNCHANGED <<task_pool, pool_ptr, size, head, tail, prox, prio, owner,
                     tH, tH0, vpool, got, hist>>
  BY DEF PoisonStolen
<1>2. /\ tpc[h] = "poison" /\ tpc'[h] = "unlock"
      /\ \A k \in Thief \ {h} : /\ tpc'[k] = tpc[k]
                                /\ tpc[k] \notin {"close", "closed", "poison"}
  <2>1. LockInv /\ "poison" \in Seizing /\ "unlock" \in Seizing \cup {"unlock"} /\ Goto(h, "poison", "unlock")
    BY <1>1 DEF WindowInv, Seizing
  <2>2. /\ tpc[h] = "poison" /\ tpc'[h] = "unlock"
        /\ \A k \in Thief \ {h} : tpc'[k] = tpc[k] /\ tpc[k] \notin Seizing
    BY <2>1, HolderGoes
  <2> QED
    BY <2>2 DEF Seizing
<1>3. /\ \A i : Stale(i) <=> i = tH0[h]
      /\ \A i : ~Stale(i)'
  BY <1>1, <1>2 DEF Stale, Dead
<1>4. /\ DOMAIN pool' = DOMAIN pool
      /\ \A i \in DOMAIN pool : pool'[i] = IF i = tH0[h] THEN None ELSE pool[i]
  BY <1>1 DEF WindowInv, SlotTypes
<1>5. \A t \in Task : \A a, k : /\ Holds(a, k, t)' <=> Holds(a, k, t)
                                /\ Posted(a, k, t)' <=> Posted(a, k, t)
  BY <1>1, <1>2, <1>3, <1>4, NoneIsNoTask DEF Holds, Posted
<1>6. InOnePlace' /\ InOneBox' /\ Fates'
  BY <1>1, <1>5, Unmoved
<1>7. Clean' /\ HistoryTypes'
  <2>1. \A k \in Thief :
           /\ tpc'[k] \in {"out", "loop", "bump", "check", "backOff", "read"} => got[k] = None
           /\ tpc'[k] \in {"extract", "mail"} => got[k] # None
           /\ tpc'[k] = "mail" => k = Recipient
    BY <1>2 DEF PlacesInv, Clean
  <2> QED
    BY <1>1, <2>1 DEF PlacesInv, Clean, HistoryTypes
<1> QED
  BY <1>6, <1>7 DEF PlacesInv

\* A thief whose hands are empty after the step, and which has not been at the
\* pool
LEMMA HandsEmpty ==
  ASSUME WindowInv, PlacesInv, NEW h \in Thief, NEW from \in {"unlock", "extract", "mail"},
         NEW to \in {"loop", "out"}, Goto(h, from, to), got' = [got EXCEPT ![h] = None],
         idle' \in BOOLEAN, taken' \in [Task -> Nat],
         UNCHANGED <<pool, changes, offloaded, res, batch, opc, mail, tH, tH0>>
  PROVE  /\ Clean' /\ HistoryTypes'
         /\ \A t \in Task : \A a, k :
               Holds(a, k, t)' <=> Holds(a, k, t) /\ ~(a = "got" /\ k = h)
         /\ \A t \in Task : \A a, k :
               Posted(a, k, t)' <=> Posted(a, k, t) /\ ~(a = "popped" /\ k = h)
<1>1. /\ tpc[h] = from /\ tpc'[h] = to /\ \A k \in Thief \ {h} : tpc'[k] = tpc[k]
      /\ got'[h] = None /\ \A k \in Thief \ {h} : got'[k] = got[k]
  BY DEF Goto, WindowInv, LockInv, LockTypes, SlotTypes
<1>2. \A i : Stale(i)' <=> Stale(i)
  BY <1>1 DEF Stale, Dead
<1>3. Clean' /\ HistoryTypes'
  <2>1. \A k \in Thief :
           /\ tpc'[k] \in {"out", "loop", "bump", "check", "backOff", "read"} => got'[k] = None
           /\ tpc'[k] \in {"extract", "mail"} => got'[k] # None
           /\ tpc'[k] = "mail" => k = Recipient
    BY <1>1 DEF PlacesInv, Clean
  <2> QED
    BY <2>1 DEF PlacesInv, Clean, HistoryTypes
<1>4. \A t \in Task : \A a, k :
         Holds(a, k, t)' <=> Holds(a, k, t) /\ ~(a = "got" /\ k = h)
  BY <1>1, <1>2, NoneIsNoTask DEF Holds
<1>5. \A t \in Task : \A a, k :
         Posted(a, k, t)' <=> Posted(a, k, t) /\ ~(a = "popped" /\ k = h)
  BY <1>1, NoneIsNoTask DEF Posted
<1> QED
  BY <1>3, <1>4, <1>5

\* The thief executes the task it has stolen ...
LEMMA UnlockPlaces == ASSUME WindowInv, PlacesInv, NEW h \in Thief, Unlock(h) PROVE PlacesInv'
<1> USE DEF slot, prox, prio, owner, thief, hist, program
<1>1. CASE got[h] = None \/ IsProxy(got[h])
  BY <1>1, QuietThiefPlaces
<1>2. CASE got[h] # None /\ ~IsProxy(got[h])
  <2>1. /\ Goto(h, "unlock", "out") /\ Take(h, got[h])
        /\ UNCHANGED <<pool, tag, mail, prio, owner, tH, tH0, unspawned>>
    BY <1>2 DEF Unlock
  <2>2. PICK t \in Task : t = got[h]
    BY <1>2 DEF WindowInv, SlotTypes, Entry
  <2>3. /\ tpc[h] = "unlock" /\ got' = [got EXCEPT ![h] = None]
        /\ taken' = [taken EXCEPT ![t] = @ + 1] /\ idle' = (idle /\ h # Recipient)
    BY <2>1, <2>2 DEF Goto, Take
  <2>4. idle' \in BOOLEAN
    BY <2>3, Zenon DEF PlacesInv, HistoryTypes
  <2>5. taken' \in [Task -> Nat]
    BY <2>3 DEF PlacesInv, HistoryTypes
  <2>6. /\ Clean' /\ HistoryTypes'
        /\ \A u \in Task : \A a, k :
              Holds(a, k, u)' <=> Holds(a, k, u) /\ ~(a = "got" /\ k = h)
        /\ \A u \in Task : \A a, k :
              Posted(a, k, u)' <=> Posted(a, k, u) /\ ~(a = "popped" /\ k = h)
    BY <2>1, <2>3, <2>4, <2>5, HandsEmpty
  <2>7. Holds("got", h, t) /\ \A u \in Task : Holds("got", h, u) => u = t
    BY <2>2, <2>3 DEF Holds
  <2>8. InOnePlace' /\ ~Held(t)' /\ \A u \in Task \ {t} : Held(u)' <=> Held(u)
    <3>1. \A u \in Task : \A a, k :
             Holds(a, k, u)' <=> Holds(a, k, u) /\ ~(a = "got" /\ k = h /\ u = t)
      BY <2>6, <2>7
    <3> QED
      BY <3>1, <2>7, Removed
  <2>9. \A u \in Task : \A a, k : Posted(a, k, u)' <=> Posted(a, k, u)
    BY <2>3, <2>6 DEF Posted
  <2>10. InOneBox' /\ \A u \in Task : Mailed(u)' <=> Mailed(u)
    BY <2>9 DEF PlacesInv, InOneBox, Mailed
  <2>11. Held(t) /\ tag[t] \notin {"both", "pool"}
    BY <1>2, <2>2, <2>7 DEF Held, IsProxy
  <2>12. Fates'
    BY <2>1, <2>3, <2>8, <2>10, <2>11, Executed
  <2> QED
    BY <2>6, <2>8, <2>10, <2>12 DEF PlacesInv
<1> QED
  BY <1>1, <1>2

\* ... or takes it out of the proxy, or frees that.
LEMMA ExtractStolenPlaces ==
  ASSUME WindowInv, PlacesInv, NEW h \in Thief, ExtractStolen(h) PROVE PlacesInv'
<1> USE DEF slot, prox, prio, owner, thief, hist, program
<1>1. /\ tpc[h] = "extract" /\ got[h] # None
      /\ UNCHANGED <<pool, mail, changes, offloaded, opc, res, batch, tH, tH0, unspawned>>
  BY DEF ExtractStolen, Extract, PlacesInv, Clean
<1>2. PICK t \in Task : t = got[h]
  BY <1>1 DEF WindowInv, SlotTypes, Entry
<1>3. Holds("got", h, t) /\ \A u \in Task : Holds("got", h, u) => u = t
  BY <1>1, <1>2 DEF Holds
<1>4. Held(t)
  BY <1>3 DEF Held
<1>5. tag \in [Task -> {"plain", "both", "pool", "mailbox", "freed"}]
  BY DEF WindowInv, TaskTypes
<1>6. \A u \in Task : ~Posted("popped", h, u)
  BY <1>1 DEF Posted
<1>7. CASE tag[t] = "both"
  <2>1. /\ tag' = [tag EXCEPT ![t] = "mailbox"] /\ Goto(h, "extract", "out") /\ Take(h, t)
    BY <1>1, <1>2, <1>7 DEF ExtractStolen, Extract, Goto
  <2>2. /\ got' = [got EXCEPT ![h] = None]
        /\ taken' = [taken EXCEPT ![t] = @ + 1] /\ idle' = (idle /\ h # Recipient)
    BY <2>1 DEF Take
  <2>3. idle' \in BOOLEAN
    BY <2>2, Zenon DEF PlacesInv, HistoryTypes
  <2>4. taken' \in [Task -> Nat]
    BY <2>2 DEF PlacesInv, HistoryTypes
  <2>5. /\ Clean' /\ HistoryTypes'
        /\ \A u \in Task : \A a, k :
              Holds(a, k, u)' <=> Holds(a, k, u) /\ ~(a = "got" /\ k = h)
        /\ \A u \in Task : \A a, k :
              Posted(a, k, u)' <=> Posted(a, k, u) /\ ~(a = "popped" /\ k = h)
    BY <1>1, <2>1, <2>2, <2>3, <2>4, HandsEmpty
  <2>6. InOnePlace' /\ ~Held(t)' /\ \A u \in Task \ {t} : Held(u)' <=> Held(u)
    <3>1. \A u \in Task : \A a, k :
             Holds(a, k, u)' <=> Holds(a, k, u) /\ ~(a = "got" /\ k = h /\ u = t)
      BY <1>3, <2>5
    <3> QED
      BY <3>1, <1>3, Removed
  <2>7. \A u \in Task : \A a, k : Posted(a, k, u)' <=> Posted(a, k, u)
    BY <1>6, <2>5
  <2>8. InOneBox' /\ \A u \in Task : Mailed(u)' <=> Mailed(u)
    BY <2>7 DEF PlacesInv, InOneBox, Mailed
  <2>9. /\ tag'[t] = IF tag[t] = "both" THEN "mailbox" ELSE tag[t]
        /\ \A u \in Task \ {t} : tag'[u] = tag[u]
    BY <1>5, <1>7, <2>1
  <2>10. Fates'
    BY <1>1, <1>4, <1>7, <2>2, <2>6, <2>8, <2>9, Executed
  <2> QED
    BY <2>5, <2>6, <2>8, <2>10 DEF PlacesInv
<1>8. CASE tag[t] # "both"
  <2>1. /\ tag[t] = "pool" /\ tag' = [tag EXCEPT ![t] = "freed"] /\ Goto(h, "extract", "loop")
        /\ got' = [got EXCEPT ![h] = None] /\ UNCHANGED <<idle, taken>>
    BY <1>1, <1>2, <1>8 DEF ExtractStolen, Extract, Goto
  <2>2. idle' \in BOOLEAN /\ taken' \in [Task -> Nat]
    BY <2>1 DEF PlacesInv, HistoryTypes
  <2>3. /\ Clean' /\ HistoryTypes'
        /\ \A u \in Task : \A a, k :
              Holds(a, k, u)' <=> Holds(a, k, u) /\ ~(a = "got" /\ k = h)
        /\ \A u \in Task : \A a, k :
              Posted(a, k, u)' <=> Posted(a, k, u) /\ ~(a = "popped" /\ k = h)
    BY <1>1, <2>1, <2>2, HandsEmpty
  <2>4. InOnePlace' /\ ~Held(t)' /\ \A u \in Task \ {t} : Held(u)' <=> Held(u)
    <3>1. \A u \in Task : \A a, k :
             Holds(a, k, u)' <=> Holds(a, k, u) /\ ~(a = "got" /\ k = h /\ u = t)
      BY <1>3, <2>3
    <3> QED
      BY <3>1, <1>3, Removed
  <2>5. \A u \in Task : \A a, k : Posted(a, k, u)' <=> Posted(a, k, u)
    BY <1>6, <2>3
  <2>6. InOneBox' /\ \A u \in Task : Mailed(u)' <=> Mailed(u)
    BY <2>5 DEF PlacesInv, InOneBox, Mailed
  <2>7. Fates'
    <3> SUFFICES ASSUME NEW u \in Task PROVE Fate(u)'
      BY DEF Fates
    <3>1. Fate(u)
      BY DEF PlacesInv, Fates
    <3>2. tag'[u] = IF u = t THEN "freed" ELSE tag[u]
      BY <1>5, <2>1
    <3>3. CASE u = t
      BY <3>1, <3>2, <3>3, <1>1, <2>1, <2>4, <2>6 DEF Fate
    <3>4. CASE u # t
      BY <3>1, <3>2, <3>4, <1>1, <2>1, <2>4, <2>6 DEF Fate
    <3> QED
      BY <3>3, <3>4
  <2> QED
    BY <2>3, <2>4, <2>6, <2>7 DEF PlacesInv
<1> QED
  BY <1>7, <1>8

\* The recipient has the first proxy of its mailbox in its hands.
LEMMA PopMailPlaces == ASSUME WindowInv, PlacesInv, NEW h \in Thief, PopMail(h) PROVE PlacesInv'
<1> USE DEF slot, prox, prio, owner, thief, hist, program
<1>1. /\ h = Recipient /\ Goto(h, "loop", "mail") /\ mail # <<>>
      /\ got' = [got EXCEPT ![h] = Head(mail)] /\ mail' = Tail(mail)
      /\ UNCHANGED <<slot, tag, idle, prio, owner, tH, tH0, vpool, hist>>
  BY DEF PopMail
<1>2. /\ tpc[h] = "loop" /\ tpc'[h] = "mail" /\ \A k \in Thief \ {h} : tpc'[k] = tpc[k]
      /\ got'[h] = Head(mail) /\ \A k \in Thief \ {h} : got'[k] = got[k]
  BY <1>1 DEF Goto, WindowInv, LockInv, LockTypes, SlotTypes
<1>3. got[h] = None
  BY <1>2 DEF PlacesInv, Clean
<1>4. PICK L \in Nat :
         /\ DOMAIN mail = 1 .. L + 1 /\ DOMAIN mail' = 1 .. L
         /\ \A k \in 1 .. L : mail'[k] = mail[k + 1]
         /\ Head(mail) = mail[1] /\ Head(mail) \in Task
  <2>1. mail \in Seq(affine) /\ Len(mail) \in Nat /\ DOMAIN mail = 1 .. Len(mail)
    BY LenProperties DEF WindowInv, TaskTypes
  <2>2. /\ Head(mail) \in affine /\ Tail(mail) \in Seq(affine)
        /\ Len(Tail(mail)) = Len(mail) - 1
        /\ \A k \in 1 .. Len(Tail(mail)) : Tail(mail)[k] = mail[k + 1]
    BY <1>1, <2>1, HeadTailProperties
  <2>3. Len(Tail(mail)) \in Nat /\ DOMAIN Tail(mail) = 1 .. Len(Tail(mail))
    BY <2>2, LenProperties
  <2>4. PICK L \in Nat : L = Len(Tail(mail)) /\ Len(mail) = L + 1
    <3>1. PICK n \in Nat, L \in Nat : n = Len(mail) /\ L = Len(Tail(mail))
      BY <2>1, <2>3
    <3>2. L = n - 1
      BY <2>2, <3>1
    <3> QED
      BY <3>1, <3>2
  <2>5. Head(mail) = mail[1]
    BY <1>1, <2>1
  <2>6. affine \subseteq Task
    BY DEF WindowInv, TaskTypes
  <2> QED
    BY <1>1, <2>1, <2>2, <2>3, <2>4, <2>5, <2>6
<1>5. \A i : Stale(i)' <=> Stale(i)
  BY <1>1, <1>2 DEF Stale, Dead
<1>6. \A t \in Task : \A a, k : Holds(a, k, t)' <=> Holds(a, k, t)
  BY <1>1, <1>2, <1>3, <1>5, NoneIsNoTask DEF Holds
<1>7. InOnePlace' /\ \A t \in Task : Held(t)' <=> Held(t)
  BY <1>6 DEF PlacesInv, InOnePlace, Held
<1>8. \A t \in Task : \A a, k : Posted(a, k, t)' =>
         \/ a = "mail" /\ k \in 1 .. L /\ Posted("mail", k + 1, t)
         \/ a = "popped" /\ k = h /\ Posted("mail", 1, t)
         \/ a = "popped" /\ k # h /\ Posted(a, k, t)
  <2>1. \A k \in 1 .. L : k + 1 \in 1 .. L + 1
    OBVIOUS
  <2>2. 1 \in 1 .. L + 1
    OBVIOUS
  <2> QED
    BY <1>2, <1>4, <2>1, <2>2 DEF Posted
<1>9. \A t \in Task : Mailed(t) => Mailed(t)'
  <2> SUFFICES ASSUME NEW t \in Task, NEW a, NEW k, Posted(a, k, t) PROVE \E b, l : Posted(b, l, t)'
    BY DEF Mailed
  <2>1. CASE a = "mail" /\ k = 1
    <3>1. Posted("popped", h, t)'
      BY <2>1, <1>2, <1>4 DEF Posted
    <3> QED
      BY <3>1
  <2>2. CASE a = "mail" /\ k # 1
    <3>1. k \in 1 .. L + 1 /\ mail[k] = t
      BY <2>2, <1>4 DEF Posted
    <3>2. k - 1 \in 1 .. L /\ (k - 1) + 1 = k
      BY <2>2, <3>1
    <3>3. mail'[k - 1] = t
      BY <3>1, <3>2, <1>4
    <3>4. Posted("mail", k - 1, t)'
      BY <3>2, <3>3, <1>4 DEF Posted
    <3> QED
      BY <3>4
  <2>3. CASE a # "mail"
    <3>1. Posted(a, k, t)'
      BY <2>3, <1>2 DEF Posted
    <3> QED
      BY <3>1
  <2> QED
    BY <2>1, <2>2, <2>3
<1>10. \A t \in Task : Mailed(t)' => Mailed(t)
  BY <1>8 DEF Mailed
<1>11. InOneBox'
  <2> SUFFICES ASSUME NEW t \in Task, NEW a, NEW b, NEW k, NEW l,
                      Posted(a, k, t)', Posted(b, l, t)'
               PROVE  a = b /\ k = l
    BY DEF InOneBox
  <2>1. \A c, d, i, j : Posted(c, i, t) /\ Posted(d, j, t) => c = d /\ i = j
    BY DEF PlacesInv, InOneBox
  <2>2. \A i, j \in 1 .. L : i + 1 # 1 /\ (i + 1 = j + 1 => i = j)
    OBVIOUS
  <2> QED
    BY <1>8, <2>1, <2>2
<1>12. Fates'
  BY <1>1, <1>7, <1>9, <1>10, Moved
<1>13. Clean' /\ HistoryTypes'
  <2>1. Head(mail) # None
    BY <1>4, NoneIsNoTask
  <2>2. \A k \in Thief :
           /\ tpc'[k] \in {"out", "loop", "bump", "check", "backOff", "read"} => got'[k] = None
           /\ tpc'[k] \in {"extract", "mail"} => got'[k] # None
           /\ tpc'[k] = "mail" => k = Recipient
    BY <1>1, <1>2, <2>1 DEF PlacesInv, Clean
  <2> QED
    BY <1>1, <2>2 DEF PlacesInv, Clean, HistoryTypes
<1> QED
  BY <1>7, <1>11, <1>12, <1>13 DEF PlacesInv

\* It executes the task and leaves the proxy to the pool's side, or frees the
\* proxy when the pool's side has executed the task.
LEMMA ExtractMailPlaces ==
  ASSUME WindowInv, PlacesInv, NEW h \in Thief, ExtractMail(h) PROVE PlacesInv'
<1> USE DEF slot, prox, prio, owner, thief, hist, program
<1>1. /\ tpc[h] = "mail" /\ got[h] # None
      /\ UNCHANGED <<pool, mail, changes, offloaded, opc, res, batch, tH, tH0, unspawned>>
  BY DEF ExtractMail, Extract, PlacesInv, Clean
<1>2. PICK t \in Task : t = got[h]
  BY <1>1 DEF WindowInv, SlotTypes, Entry
<1>3. /\ Posted("popped", h, t) /\ \A u \in Task : Posted("popped", h, u) => u = t
      /\ \A u \in Task : ~Holds("got", h, u)
  BY <1>1, <1>2 DEF Posted, Holds
<1>4. Fate(t) /\ Mailed(t)
  BY <1>3 DEF Mailed, PlacesInv, Fates
<1>5. tag \in [Task -> {"plain", "both", "pool", "mailbox", "freed"}]
  BY DEF WindowInv, TaskTypes
<1>6. PICK to \in {"loop", "out"} :
         /\ Goto(h, "mail", to) /\ got' = [got EXCEPT ![h] = None]
         /\ idle' = idle \/ idle' = (idle /\ h # Recipient)
         /\ tag[t] = "both" => /\ tag' = [tag EXCEPT ![t] = "pool"]
                               /\ taken' = [taken EXCEPT ![t] = @ + 1]
         /\ tag[t] # "both" => /\ tag[t] = "mailbox" /\ tag' = [tag EXCEPT ![t] = "freed"]
                               /\ taken' = taken
  <2>1. CASE tag[t] = "both"
    <3>1. Goto(h, "mail", "out") /\ Take(h, t) /\ tag' = [tag EXCEPT ![t] = "pool"]
      BY <1>1, <1>2, <2>1 DEF ExtractMail, Extract, Goto
    <3> QED
      BY <2>1, <3>1 DEF Take
  <2>2. CASE tag[t] # "both"
    <3>1. /\ Goto(h, "mail", "loop") /\ tag[t] = "mailbox" /\ tag' = [tag EXCEPT ![t] = "freed"]
          /\ got' = [got EXCEPT ![h] = None] /\ UNCHANGED <<idle, taken>>
      BY <1>1, <1>2, <2>2 DEF ExtractMail, Extract, Goto
    <3> QED
      BY <2>2, <3>1
  <2> QED
    BY <2>1, <2>2
<1>7. idle' \in BOOLEAN
  BY <1>6, Zenon DEF PlacesInv, HistoryTypes
<1>8. taken' \in [Task -> Nat]
  BY <1>6 DEF PlacesInv, HistoryTypes
<1>9. /\ Clean' /\ HistoryTypes'
      /\ \A u \in Task : \A a, k :
            Holds(a, k, u)' <=> Holds(a, k, u) /\ ~(a = "got" /\ k = h)
      /\ \A u \in Task : \A a, k :
            Posted(a, k, u)' <=> Posted(a, k, u) /\ ~(a = "popped" /\ k = h)
  BY ZenonT(60), <1>1, <1>6, <1>7, <1>8, HandsEmpty
<1>10. \A u \in Task : \A a, k : Holds(a, k, u)' <=> Holds(a, k, u)
  BY <1>3, <1>9
<1>11. InOnePlace' /\ \A u \in Task : Held(u)' <=> Held(u)
  BY <1>10 DEF PlacesInv, InOnePlace, Held
<1>12. InOneBox' /\ ~Mailed(t)' /\ \A u \in Task \ {t} : Mailed(u)' <=> Mailed(u)
  <2>1. \A u \in Task : \A a, k :
           Posted(a, k, u)' <=> Posted(a, k, u) /\ ~(a = "popped" /\ k = h /\ u = t)
    BY <1>3, <1>9
  <2>2. InOneBox'
    BY <2>1 DEF PlacesInv, InOneBox
  <2>3. ~Mailed(t)'
    BY <1>3, <2>1 DEF PlacesInv, InOneBox, Mailed
  <2>4. \A u \in Task \ {t} : Mailed(u)' <=> Mailed(u)
    BY <2>1 DEF Mailed
  <2> QED
    BY <2>2, <2>3, <2>4
<1>13. Fates'
  <2> SUFFICES ASSUME NEW u \in Task PROVE Fate(u)'
    BY DEF Fates
  <2>1. Fate(u)
    BY DEF PlacesInv, Fates
  <2>2. CASE u # t
    <3>1. tag'[u] = tag[u] /\ taken'[u] = taken[u]
      BY <2>2, <1>5, <1>6 DEF PlacesInv, HistoryTypes
    <3> QED
      BY <2>1, <2>2, <3>1, <1>1, <1>11, <1>12 DEF Fate
  <2>3. CASE u = t /\ tag[t] = "both"
    <3>1. taken[t] = 0 /\ Held(t) /\ t \notin unspawned
      BY <2>3, <1>4 DEF Fate
    <3>2. tag'[t] = "pool" /\ taken'[t] = 1
      BY <2>3, <3>1, <1>5, <1>6 DEF PlacesInv, HistoryTypes
    <3> QED
      BY <2>3, <3>1, <3>2, <1>1, <1>11, <1>12 DEF Fate
  <2>4. CASE u = t /\ tag[t] # "both"
    <3>1. tag[t] = "mailbox" /\ tag'[t] = "freed" /\ taken' = taken
      BY <2>4, <1>5, <1>6
    <3> QED
      BY <2>1, <2>4, <3>1, <1>1, <1>11, <1>12 DEF Fate
  <2> QED
    BY <2>2, <2>3, <2>4
<1> QED
  BY <1>9, <1>11, <1>12, <1>13 DEF PlacesInv

(***************************************************************************)
(* The invariant and what follows from it.                                 *)
(***************************************************************************)
LEMMA OwnerStepPlaces == ASSUME WindowInv, PlacesInv, OwnerStep PROVE PlacesInv'
<1>1. CASE \/ Prepare \/ Commit \/ EnterArena \/ Acquire \/ GetTask
           \/ WinnowRead \/ WinnowCut \/ WinnowCheck \/ WinnowStore \/ Reset
  BY <1>1, QuietOwnerPlaces
<1>2. CASE GetCheck
  BY <1>2, QuietOwnerPlaces, GetCheckPlaces
<1>3. CASE \/ Spawn \/ Relocate \/ Write \/ GetLocked \/ ExtractOwn \/ Dispatch
           \/ WinnowUnlocked \/ WinnowLocked \/ Reload \/ KeepLast
  BY <1>3, SpawnPlaces, RelocatePlaces, WritePlaces, GetLockedPlaces, ExtractOwnPlaces,
     DispatchPlaces, WinnowUnlockedPlaces, WinnowLockedPlaces, ReloadPlaces, KeepLastPlaces
<1> QED
  BY <1>1, <1>2, <1>3 DEF OwnerStep

LEMMA ThiefStepPlaces ==
  ASSUME WindowInv, PlacesInv, NEW h \in Thief, ThiefStep(h) PROVE PlacesInv'
  BY QuietThiefPlaces, ReadPlaces, CloseHolePlaces, PoisonPlaces, UnlockPlaces,
     ExtractStolenPlaces, PopMailPlaces, ExtractMailPlaces DEF ThiefStep

LEMMA StutterPlaces == ASSUME PlacesInv, UNCHANGED vars PROVE PlacesInv'
<1> USE DEF vars, slot, prox, prio, owner, thief, hist, program
<1>1. InOnePlace' /\ InOneBox' /\ Fates'
  BY OwnerUnmoved
<1>2. Clean' /\ HistoryTypes'
  BY DEF PlacesInv, Clean, HistoryTypes
<1> QED
  BY <1>1, <1>2 DEF PlacesInv

LEMMA PlacesStep == ASSUME WindowInv, PlacesInv, [Next]_vars PROVE PlacesInv'
  BY OwnerStepPlaces, ThiefStepPlaces, QuietOwnerPlaces, StutterPlaces DEF Next

\* A spawned task is in exactly one place until it is executed, and its proxy
\* outlives neither of the two sides that refer to it (local_spawn, get_task,
\* steal_task, winnow_task_pool, reload_tasks, get_mailbox_task, extract_task).
THEOREM PlacesInvariant == ASSUME Separate PROVE Spec => []PlacesInv
<1>1. Init => PlacesInv
  BY InitPlaces
<1>2. WindowInv /\ PlacesInv /\ [Next]_vars => PlacesInv'
  BY PlacesStep
<1> QED
  BY <1>1, <1>2, WindowInvariant, PTL DEF Spec

\* What is still in the pool is in one of two places.
LEMMA InPoolOrGot ==
  ASSUME WindowInv, NEW t \in Task, InPool(t)
  PROVE  \E a, k : a \in {"pool", "got"} /\ Holds(a, k, t)
<1>1. PICK i \in DOMAIN pool : pool[i] = t /\ ~Dead(i)
  BY DEF InPool
<1>2. CASE Stale(i)
  <2>1. PICK h \in Thief : tpc[h] = "close" /\ i = tH[h] - 1
    BY <1>1, <1>2 DEF Stale
  <2>2. got[h] = t
    BY <1>1, <2>1 DEF WindowInv, ThiefWindow
  <2>3. Holds("got", h, t)
    BY <2>1, <2>2 DEF Holds
  <2> QED
    BY <2>3
<1>3. CASE ~Stale(i)
  <2>1. Holds("pool", i, t)
    BY <1>1, <1>3 DEF Holds
  <2> QED
    BY <2>1
<1> QED
  BY <1>2, <1>3

\* No task is executed twice, by owner and thief or by the two sides of a
\* proxy (get_task, steal_task, extract_task).
THEOREM ExecutedOnce == ASSUME Separate PROVE Spec => []NoDoubleTake
<1>1. PlacesInv => NoDoubleTake
  BY DEF PlacesInv, Fates, Fate, NoDoubleTake
<1> QED
  BY <1>1, PlacesInvariant, PTL

\* No task is lost before it is executed (prepare_task_pool, steal_task,
\* winnow_task_pool, reload_tasks).
THEOREM NothingIsLost == ASSUME Separate PROVE Spec => []NoLostTask
<1>1. PlacesInv => NoLostTask
  <2> SUFFICES ASSUME PlacesInv, NEW t \in Task \ unspawned, taken[t] = 0
               PROVE  HeldByPoolSide(t)
    BY DEF NoLostTask
  <2>1. Held(t)
    BY DEF PlacesInv, Fates, Fate
  <2>2. PICK a, k : Holds(a, k, t)
    BY <2>1 DEF Held
  <2>3. a = "pool" => InPool(t)
    BY <2>2 DEF Holds, Stale, InPool
  <2> QED
    BY <2>2, <2>3 DEF Holds, HeldByPoolSide, Members
<1> QED
  BY <1>1, PlacesInvariant, PTL

\* What the tag of a proxy says of the two sides is so, and a proxy that was
\* freed is referred to no more (extract_task, get_mailbox_task).
THEOREM TagsTruthful == ASSUME Separate PROVE Spec => []ProxyTagTruthful
<1>1. WindowInv /\ PlacesInv => ProxyTagTruthful
  <2> SUFFICES ASSUME WindowInv, PlacesInv, NEW t \in affine
               PROVE  LET mailed == t \in Members(mail)
                                    \/ \E h \in Thief : tpc[h] = "mail" /\ got[h] = t
                          pooled == InPool(t) \/ t \in Members(batch) \/ t = res
                                    \/ \E h \in Thief : tpc[h] # "mail" /\ got[h] = t
                      IN  /\ tag[t] \in {"both", "mailbox"} => mailed
                          /\ tag[t] \in {"both", "pool"} => pooled \/ t \in offloaded
                          /\ tag[t] = "freed" => ~mailed /\ ~InPool(t)
    BY DEF ProxyTagTruthful
  <2> DEFINE mailed == t \in Members(mail)
                       \/ \E h \in Thief : tpc[h] = "mail" /\ got[h] = t
             pooled == InPool(t) \/ t \in Members(batch) \/ t = res
                       \/ \E h \in Thief : tpc[h] # "mail" /\ got[h] = t
  <2>1. t \in Task
    BY DEF WindowInv, TaskTypes
  <2>2. Fate(t)
    BY <2>1 DEF PlacesInv, Fates
  <2>3. mailed <=> Mailed(t)
    <3>1. Mailed(t) => mailed
      BY DEF Mailed, Posted, Members
    <3>2. ASSUME t \in Members(mail) PROVE Mailed(t)
      <4>1. PICK k \in DOMAIN mail : mail[k] = t
        BY <3>2 DEF Members
      <4>2. Posted("mail", k, t)
        BY <4>1 DEF Posted
      <4> QED
        BY <4>2 DEF Mailed
    <3>3. ASSUME NEW h \in Thief, tpc[h] = "mail", got[h] = t PROVE Mailed(t)
      <4>1. Posted("popped", h, t)
        BY <3>3 DEF Posted
      <4> QED
        BY <4>1 DEF Mailed
    <3> QED
      BY <3>1, <3>2, <3>3
  <2>4. Held(t) => pooled \/ t \in offloaded
    <3> SUFFICES ASSUME NEW a, NEW k, Holds(a, k, t) PROVE pooled \/ t \in offloaded
      BY DEF Held
    <3>1. a = "pool" => InPool(t)
      BY DEF Holds, Stale, InPool
    <3> QED
      BY <3>1 DEF Holds, Members
  <2>5. tag[t] = "freed" => ~InPool(t)
    <3> SUFFICES ASSUME tag[t] = "freed", InPool(t) PROVE FALSE
      OBVIOUS
    <3>1. PICK a, k : a \in {"pool", "got"} /\ Holds(a, k, t)
      BY <2>1, InPoolOrGot
    <3>2. res = t
      BY <2>2, <3>1 DEF Fate, Held
    <3>3. Holds("res", 0, t)
      BY <3>2 DEF Holds
    <3> QED
      BY <2>1, <3>1, <3>3 DEF PlacesInv, InOnePlace
  <2>6. tag[t] \in {"both", "mailbox"} => mailed
    BY <2>2, <2>3 DEF Fate
  <2>7. tag[t] \in {"both", "pool"} => Held(t)
    BY <2>2 DEF Fate
  <2>8. tag[t] = "freed" => ~mailed
    BY <2>2, <2>3 DEF Fate
  <2> QED
    BY <2>4, <2>5, <2>6, <2>7, <2>8
<1> QED
  BY <1>1, WindowInvariant, PlacesInvariant, PTL

\* The words of the slot keep their types, and nobody obtains an element that
\* has been executed or poisoned (get_task, steal_task).
THEOREM ElementsLive == ASSUME Separate PROVE Spec => []OnlyLiveElements
<1>1. WindowInv /\ PlacesInv => TypeOK
  <2> SUFFICES ASSUME WindowInv, PlacesInv PROVE TypeOK
    OBVIOUS
  <2>1. /\ pool_ptr \in Nat /\ task_pool \in Nat \cup {Locked} /\ opc \in OwnerPC
        /\ tpc \in [Thief -> ThiefPC] /\ vpool \in [Thief -> Nat]
    BY DEF WindowInv, LockInv, LockTypes
  <2>2. /\ size \in Nat /\ pool \in [0 .. size - 1 -> Entry] /\ head \in Int /\ tail \in Int
        /\ oT \in Int /\ oH \in Int /\ oT0 \in Int
        /\ batch \in Seq(Task) /\ res \in Entry
        /\ tH \in [Thief -> Int] /\ tH0 \in [Thief -> Int] /\ got \in [Thief -> Entry]
    BY DEF WindowInv, SlotTypes
  <2>3. /\ tag \in [Task -> {"plain", "both", "pool", "mailbox", "freed"}]
        /\ top \in {0, 1} /\ offloaded \subseteq Task /\ unspawned \subseteq Task
        /\ affine \subseteq Task /\ low \subseteq Task
        /\ reloading \in BOOLEAN /\ mail \in Seq(affine)
    BY DEF WindowInv, TaskTypes
  <2>4. taken \in [Task -> Nat] /\ idle \in BOOLEAN /\ changes \in 0 .. MaxTopChanges
    BY DEF PlacesInv, HistoryTypes
  <2> QED
    BY <2>1, <2>2, <2>3, <2>4, Zenon DEF TypeOK
<1>2. WindowInv /\ PlacesInv => OnlyLiveElements
  <2> SUFFICES ASSUME WindowInv, PlacesInv PROVE OnlyLiveElements
    OBVIOUS
  <2>1. ASSUME NEW t \in Task \ affine, InPool(t) PROVE taken[t] = 0
    <3>1. Held(t)
      BY <2>1, InPoolOrGot DEF Held
    <3>2. Fate(t) /\ tag[t] = "plain"
      BY <2>1 DEF PlacesInv, Fates, WindowInv, OneKind
    <3> QED
      BY <3>1, <3>2 DEF Fate
  <2>2. \A h \in Thief : tpc[h] \in {"close", "closed", "poison"} => got[h] # None
    BY DEF WindowInv, ThiefWindow
  <2>3. opc \in {"extract", "dispatch"} => res # None
    BY DEF WindowInv, OwnerWindow
  <2> QED
    BY <1>1, <2>1, <2>2, <2>3 DEF OnlyLiveElements
<1> QED
  BY <1>2, WindowInvariant, PlacesInvariant, PTL
=============================================================================
