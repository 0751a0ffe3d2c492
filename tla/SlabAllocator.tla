--------------------------- MODULE SlabAllocator ---------------------------
(***************************************************************************)
(* Small objects of the scalable allocator                                 *)
(* (src/src/tbbmalloc/frontend.cpp).  A thread allocates from blocks that  *)
(* it owns; whoever else frees an object pushes it onto the block's public *)
(* list, and whoever makes that list non-empty mails the block to the bin  *)
(* of its owner.  A thread that ends leaves its blocks to the orphanage,   *)
(* where others adopt them; empty blocks go to a pool of the thread that   *)
(* other threads may empty.                                                *)
(*                                                                         *)
(* One size class.  Objects of a block are told apart by where they are    *)
(* only, so lists of objects are lengths.  Steps are accesses to what      *)
(* another thread may touch; a push onto a public list and the exchange    *)
(* that empties it succeed in one step.                                    *)
(***************************************************************************)
EXTENDS Naturals, Sequences, FiniteSets, SequencesExt, FiniteSetsExt

CONSTANTS
    Thread,
    Block,
    NULL,
    Capacity,           \* objects in a block
    numOfSlabAllocOnMiss,   \* two in the code
    POOL_LOW_MARK, POOL_HIGH_MARK,
    Windows             \* open windows of the code: "mail", named where it is used

Assumptions ==
    /\ Thread \cap Block = {} /\ NULL \notin Thread \cup Block
    /\ Capacity \in Nat /\ Capacity >= 2
    /\ numOfSlabAllocOnMiss \in Nat \ {0}
    /\ POOL_LOW_MARK \in 2 .. POOL_HIGH_MARK
    /\ Windows \subseteq {"mail"}

VARIABLES
    blk,            \* the headers of blocks
    held,           \* of each block: its objects that the program has
    list,           \* of each thread: the blocks in its bin
    activeBlk, mailbox, mailLock,       \* of each bin
    pool, size,     \* of each thread: freeSlabBlocks
    orphans,        \* orphanedBlocks
    backend,        \* blocks the backend has
    tls,            \* of each thread: is its TLSData "none", "listed", "leaving" or "gone"
    listLock,       \* of AllLocalCaches
    pc, block, theBin,
    rest,           \* of each thread: blocks it has taken from a list, or is to leave
    todo            \* of each thread: the threads whose pools it is to empty

bins == <<list, activeBlk, mailbox, mailLock>>
pools == <<pool, size>>
threads == <<tls, listLock>>
vars == <<blk, held, bins, pools, orphans, backend, threads, pc, block, theBin, rest, todo>>

UNUSABLE == "unusable"

\* makeEmpty
EmptyBlock == [owner |-> NULL, publicFreeList |-> 0, closed |-> FALSE, nextPrivatizable |-> NULL,
               freeList |-> 0, bump |-> 0, allocatedCount |-> 0, isFull |-> FALSE]

Init ==
    /\ blk = [x \in Block |-> EmptyBlock] /\ held = [x \in Block |-> 0]
    /\ list = [t \in Thread |-> <<>>] /\ activeBlk = [t \in Thread |-> NULL]
    /\ mailbox = [t \in Thread |-> NULL] /\ mailLock = [t \in Thread |-> NULL]
    /\ pool = [t \in Thread |-> <<>>] /\ size = [t \in Thread |-> 0]
    /\ orphans = <<>> /\ backend = Block
    /\ tls = [t \in Thread |-> "none"] /\ listLock = NULL
    /\ pc = [t \in Thread |-> "ready"]
    /\ block = [t \in Thread |-> NULL] /\ theBin = [t \in Thread |-> NULL]
    /\ rest = [t \in Thread |-> <<>>] /\ todo = [t \in Thread |-> {}]

Set(f, x, v) == [f EXCEPT ![x] = v]
Goto(t, from, to) == pc[t] = from /\ pc' = Set(pc, t, to)
My(t) == block[t]
Drop(t) == block' = Set(block, t, NULL)

(***************************************************************************)
(* A block's own operations.  publicFreeList is the length of the list;    *)
(* closed says that it ends with UNUSABLE, bump how many objects have      *)
(* never been allocated.                                                   *)
(***************************************************************************)
IsNull(x) == x.publicFreeList = 0 /\ ~x.closed
IsEmpty(x) == x.allocatedCount = 0 /\ IsNull(x)
Usable(x) == x.freeList > 0 \/ x.bump > 0
Allocated(x) == IF x.freeList > 0
                THEN [x EXCEPT !.freeList = @ - 1, !.allocatedCount = @ + 1]
                ELSE [x EXCEPT !.bump = @ - 1, !.allocatedCount = @ + 1]
emptyEnoughToUse(x) == x.bump > 0 \/ 4 * x.allocatedCount <= 3 * Capacity
Examined(x) == [x EXCEPT !.isFull = ~emptyEnoughToUse(x)]
BumpRestored(x) == [x EXCEPT !.bump = Capacity, !.freeList = 0, !.isFull = FALSE]
Privatized(x) == [x EXCEPT !.freeList = @ + x.publicFreeList,
                           !.allocatedCount = @ - x.publicFreeList,
                           !.publicFreeList = 0, !.closed = FALSE]
Initialized(t) == [EmptyBlock EXCEPT !.owner = t, !.nextPrivatizable = t, !.bump = Capacity]

(***************************************************************************)
(* The list of a bin has the active block in it; what is before that has   *)
(* room.                                                                   *)
(***************************************************************************)
Place(t, x) == CHOOSE i \in DOMAIN list[t] : list[t][i] = x
Without(s, x) == SelectSeq(s, LAMBDA y : y # x)
Pushed(s, a, x) == IF a = NULL THEN <<x>>
                   ELSE InsertAt(s, CHOOSE i \in DOMAIN s : s[i] = a, x)
\* outofTLSBin
Remaining(t, x) ==
    LET i == Place(t, x)
    IN  /\ list' = Set(list, t, Without(list[t], x))
        /\ activeBlk' = IF x # activeBlk[t] THEN activeBlk
                        ELSE Set(activeBlk, t, IF i > 1 THEN list[t][i - 1]
                                               ELSE IF i < Len(list[t]) THEN list[t][i + 1]
                                               ELSE NULL)
moveBlockToBinFront(t, x) ==
    list' = IF x = activeBlk[t] THEN list
            ELSE Set(list, t, Pushed(Without(list[t], x), activeBlk[t], x))
\* pushTLSBin and setActiveBlock
Activate(t, x) ==
    /\ list' = Set(list, t, Pushed(list[t], activeBlk[t], x))
    /\ activeBlk' = Set(activeBlk, t, x)

(***************************************************************************)
(* internalPoolMalloc                                                      *)
(***************************************************************************)
\* From the active block to the front of the list: the first with an object.
\* A thread that has no TLSData yet makes one.
Malloc(t) ==
    LET upTo == IF activeBlk[t] = NULL THEN {}
                ELSE {i \in DOMAIN list[t] : i <= Place(t, activeBlk[t])}
        good == {i \in upTo : Usable(blk[list[t][i]])}
        found == CHOOSE i \in good : \A j \in good : j <= i
        full == {list[t][i] : i \in {j \in upTo : good = {} \/ j > found}}
        Passed(x) == IF x \in full THEN [blk[x] EXCEPT !.isFull = TRUE] ELSE blk[x]
    IN  /\ pc[t] \in {"ready", "retry"}
        /\ \/ tls[t] = "listed" /\ UNCHANGED tls
           \/ tls[t] = "none" /\ listLock = NULL /\ tls' = Set(tls, t, "listed")
        /\ \/ /\ good # {}
              /\ pc' = Set(pc, t, "ready")
              /\ held' = [held EXCEPT ![list[t][found]] = @ + 1]
              /\ activeBlk' = Set(activeBlk, t, list[t][found])
              /\ blk' = [x \in Block |-> IF x = list[t][found] THEN Allocated(blk[x]) ELSE Passed(x)]
           \/ /\ good = {}
              /\ pc' = Set(pc, t, "mail")
              /\ activeBlk' = Set(activeBlk, t, IF upTo = {} THEN NULL ELSE list[t][1])
              /\ blk' = [x \in Block |-> Passed(x)]
              /\ UNCHANGED held
        /\ UNCHANGED <<list, mailbox, mailLock, pools, orphans, backend, listLock, block, theBin,
                       rest, todo>>

\* getPublicFreeListBlock
TakeMail(t) ==
    /\ pc[t] = "mail"
    /\ \/ mailbox[t] = NULL /\ Goto(t, "mail", "orphan") /\ UNCHANGED <<blk, mailbox, block>>
       \/ /\ mailbox[t] # NULL /\ mailLock[t] = NULL
          /\ Goto(t, "mail", "privatize")
          /\ block' = Set(block, t, mailbox[t])
          /\ mailbox' = Set(mailbox, t, blk[mailbox[t]].nextPrivatizable)
          /\ blk' = [blk EXCEPT ![mailbox[t]].nextPrivatizable = t]
    /\ UNCHANGED <<held, list, activeBlk, mailLock, pools, orphans, backend, threads, theBin, rest, todo>>

AllocatePrivatized(t) ==
    LET x == Examined(Privatized(blk[My(t)]))
    IN  /\ pc[t] = "privatize"
        /\ \/ x.freeList > 0 /\ Goto(t, "privatize", "ready")
              /\ blk' = Set(blk, My(t), Allocated(x)) /\ held' = [held EXCEPT ![My(t)] = @ + 1]
           \/ x.freeList = 0 /\ Goto(t, "privatize", "retry")
              /\ blk' = Set(blk, My(t), x) /\ UNCHANGED held
        /\ IF x.isFull THEN UNCHANGED list ELSE moveBlockToBinFront(t, My(t))
        /\ Drop(t)
        /\ UNCHANGED <<activeBlk, mailbox, mailLock, pools, orphans, backend, threads, theBin, rest, todo>>

\* OrphanedBlocks::get and privatizeOrphaned
TakeOrphan(t) ==
    /\ \/ orphans = <<>> /\ Goto(t, "orphan", "empty") /\ UNCHANGED <<blk, orphans, block>>
       \/ /\ orphans # <<>>
          /\ Goto(t, "orphan", "adopt")
          /\ block' = Set(block, t, Head(orphans)) /\ orphans' = Tail(orphans)
          /\ blk' = [blk EXCEPT ![Head(orphans)].owner = t]
    /\ UNCHANGED <<held, bins, pools, backend, threads, theBin, rest, todo>>
Adopt(t) ==
    /\ Goto(t, "adopt", "adopted")
    /\ blk' = [blk EXCEPT ![My(t)].nextPrivatizable = t]
    /\ UNCHANGED <<held, bins, pools, orphans, backend, threads, block, theBin, rest, todo>>
AllocateAdopted(t) ==
    LET y == Privatized(blk[My(t)])
        x == IF y.allocatedCount > 0 THEN Examined(y) ELSE BumpRestored(y)
    IN  /\ pc[t] = "adopted"
        /\ Activate(t, My(t))
        /\ \/ Usable(x) /\ Goto(t, "adopted", "ready")
              /\ blk' = Set(blk, My(t), Allocated(x)) /\ held' = [held EXCEPT ![My(t)] = @ + 1]
           \/ ~Usable(x) /\ Goto(t, "adopted", "orphan")
              /\ blk' = Set(blk, My(t), [x EXCEPT !.isFull = TRUE]) /\ UNCHANGED held
        /\ Drop(t)
        /\ UNCHANGED <<mailbox, mailLock, pools, orphans, backend, threads, theBin, rest, todo>>

\* What is done with an empty block
Use(t, x) ==
    /\ blk' = Set(blk, x, Allocated(Initialized(t))) /\ held' = Set(held, x, 1)
    /\ Activate(t, x)

\* getEmptyBlock: FreeBlockPool::getBlock takes the whole list from other
\* threads and puts back what it does not need
TakePool(t) ==
    /\ pool[t] # <<>>
    /\ Goto(t, "empty", "put back")
    /\ rest' = Set(rest, t, pool[t]) /\ pool' = Set(pool, t, <<>>)
    /\ UNCHANGED <<blk, held, bins, size, orphans, backend, threads, block, theBin, todo>>
PutBack(t) ==
    /\ Goto(t, "put back", "ready")
    /\ Use(t, Head(rest[t]))
    /\ pool' = Set(pool, t, Tail(rest[t])) /\ size' = [size EXCEPT ![t] = @ - 1]
    /\ rest' = Set(rest, t, <<>>)
    /\ UNCHANGED <<mailbox, mailLock, orphans, backend, threads, block, theBin, todo>>
\* Blocks in advance: the first is used, the others go to the pool, which is
\* empty still.  If there are none the call fails.
AskBackend(t) ==
    /\ pool[t] = <<>>
    /\ Goto(t, "empty", "ready")
    /\ \/ \E slabs \in kSubset(numOfSlabAllocOnMiss, backend) : \E x \in slabs :
              /\ Use(t, x)
              /\ pool' = Set(pool, t, SetToSeq(slabs \ {x}))
              /\ size' = Set(size, t, IF slabs = {x} THEN size[t] ELSE Cardinality(slabs) - 1)
              /\ backend' = backend \ slabs
       \/ /\ Cardinality(backend) < numOfSlabAllocOnMiss
          /\ UNCHANGED <<blk, held, list, activeBlk, pools, backend>>
    /\ UNCHANGED <<mailbox, mailLock, orphans, threads, block, theBin, rest, todo>>

(***************************************************************************)
(* freeSmallObject: any thread may free any object.                        *)
(***************************************************************************)
Keeps(x) == blk[x].allocatedCount > 1 \/ ~IsNull(blk[x])
FreeOwn(t) == \E x \in Block :
    /\ held[x] > 0 /\ blk[x].owner = t
    /\ held' = [held EXCEPT ![x] = @ - 1]
    /\ LET y == [blk[x] EXCEPT !.allocatedCount = @ - 1]
           z == [y EXCEPT !.freeList = @ + 1]
       IN  \/ /\ Keeps(x)
              /\ Goto(t, "ready", "ready")
              /\ blk' = Set(blk, x, IF y.isFull THEN Examined(z) ELSE z)
              /\ IF y.isFull /\ emptyEnoughToUse(z) THEN moveBlockToBinFront(t, x) ELSE UNCHANGED list
              /\ UNCHANGED <<activeBlk, block>>
           \/ /\ ~Keeps(x) /\ x = activeBlk[t]
              /\ Goto(t, "ready", "ready")
              /\ blk' = Set(blk, x, BumpRestored(y))
              /\ UNCHANGED <<list, activeBlk, block>>
           \/ /\ ~Keeps(x) /\ x # activeBlk[t]      \* processLessUsedBlock
              /\ Goto(t, "ready", "return")
              /\ block' = Set(block, t, x)
              /\ blk' = Set(blk, x, EmptyBlock)
              /\ Remaining(t, x)
    /\ UNCHANGED <<mailbox, mailLock, pools, orphans, backend, threads, theBin, rest, todo>>

\* FreeBlockPool::returnBlock
ReturnTake(t) ==
    LET overflow == size[t] = POOL_HIGH_MARK /\ pool[t] # <<>>
    IN  /\ Goto(t, "return", "return to")
        /\ pool' = Set(pool, t, <<>>)
        /\ rest' = Set(rest, t, IF overflow THEN SubSeq(pool[t], 1, POOL_LOW_MARK - 1) ELSE pool[t])
        /\ size' = Set(size, t, IF pool[t] = <<>> THEN 0
                                ELSE IF overflow THEN POOL_LOW_MARK - 1 ELSE size[t])
        /\ backend' = IF overflow
                      THEN backend \cup {pool[t][i] : i \in POOL_LOW_MARK .. Len(pool[t])}
                      ELSE backend
        /\ UNCHANGED <<blk, held, bins, orphans, threads, block, theBin, todo>>
\* Mutated form: the list that was there is forgotten.
ReturnAlone(t) ==
    /\ Goto(t, "return to", "ready")
    /\ pool' = Set(pool, t, <<My(t)>>) /\ size' = [size EXCEPT ![t] = @ + 1]
    /\ rest' = Set(rest, t, <<>>) /\ Drop(t)
    /\ UNCHANGED <<blk, held, bins, orphans, backend, threads, theBin, todo>>
ReturnPut(t) ==
    /\ Goto(t, "return to", "ready")
    /\ pool' = Set(pool, t, <<My(t)>> \o rest[t]) /\ size' = [size EXCEPT ![t] = @ + 1]
    /\ rest' = Set(rest, t, <<>>) /\ Drop(t)
    /\ UNCHANGED <<blk, held, bins, orphans, backend, threads, theBin, todo>>

\* freePublicObject: who finds the list empty mails the block
FreePublic(t) == \E x \in Block :
    /\ held[x] > 0 /\ blk[x].owner # t
    /\ held' = [held EXCEPT ![x] = @ - 1]
    /\ blk' = [blk EXCEPT ![x].publicFreeList = @ + 1]
    /\ IF IsNull(blk[x]) THEN Goto(t, "ready", "read bin") /\ block' = Set(block, t, x)
                         ELSE Goto(t, "ready", "ready") /\ UNCHANGED block
    /\ UNCHANGED <<bins, pools, orphans, backend, threads, theBin, rest, todo>>
ReadBin(t) ==
    /\ pc[t] = "read bin"
    /\ \/ /\ blk[My(t)].nextPrivatizable = UNUSABLE
          /\ Goto(t, "read bin", "ready") /\ Drop(t) /\ UNCHANGED theBin
       \/ /\ blk[My(t)].nextPrivatizable # UNUSABLE
          /\ Goto(t, "read bin", "lock")
          /\ theBin' = Set(theBin, t, blk[My(t)].nextPrivatizable) /\ UNCHANGED block
    /\ UNCHANGED <<blk, held, bins, pools, orphans, backend, threads, rest, todo>>
LockMail(t) ==
    /\ Goto(t, "lock", "link")
    /\ mailLock[theBin[t]] = NULL /\ mailLock' = Set(mailLock, theBin[t], t)
    /\ UNCHANGED <<blk, held, list, activeBlk, mailbox, pools, orphans, backend, threads, block,
                   theBin, rest, todo>>
\* The block is linked, then the mailbox is changed and unlocked.  The window
\* "mail": the owner of the bin goes on in between.
Linked(t) == blk' = [blk EXCEPT ![My(t)].nextPrivatizable = mailbox[theBin[t]]]
Mailed(t) ==
    /\ mailbox' = Set(mailbox, theBin[t], My(t)) /\ mailLock' = Set(mailLock, theBin[t], NULL)
    /\ Drop(t) /\ theBin' = Set(theBin, t, NULL)
    /\ UNCHANGED <<held, list, activeBlk, pools, orphans, backend, threads, rest, todo>>
LinkOnly(t) ==
    /\ "mail" \in Windows
    /\ Goto(t, "link", "mail block") /\ Linked(t)
    /\ UNCHANGED <<held, bins, pools, orphans, backend, threads, block, theBin, rest, todo>>
MailLinked(t) == Goto(t, "mail block", "ready") /\ Mailed(t) /\ UNCHANGED blk
LinkAndMail(t) == "mail" \notin Windows /\ Goto(t, "link", "ready") /\ Linked(t) /\ Mailed(t)

(***************************************************************************)
(* TLSData::release: a thread ends.                                        *)
(***************************************************************************)
Unregister(t) ==
    /\ tls[t] = "listed" /\ listLock = NULL
    /\ Goto(t, "ready", "clean pool")
    /\ tls' = Set(tls, t, "leaving")
    /\ UNCHANGED <<blk, held, bins, pools, orphans, backend, listLock, block, theBin, rest, todo>>
\* From the active block to the front of the list, then the others
CleanPool(t) ==
    LET i == IF activeBlk[t] = NULL THEN 1 ELSE Place(t, activeBlk[t])
    IN  /\ Goto(t, "clean pool", "release")
        /\ backend' = backend \cup ToSet(pool[t]) /\ pool' = Set(pool, t, <<>>)
        /\ rest' = Set(rest, t, Reverse(SubSeq(list[t], 1, i - 1)) \o SubSeq(list[t], i, Len(list[t])))
        /\ list' = Set(list, t, <<>>) /\ activeBlk' = Set(activeBlk, t, NULL)
        /\ UNCHANGED <<blk, held, mailbox, mailLock, size, orphans, threads, block, theBin, todo>>
Release(t) ==
    /\ pc[t] = "release" /\ rest[t] # <<>>
    /\ rest' = Set(rest, t, Tail(rest[t]))
    /\ LET x == Head(rest[t])
       IN  \/ /\ IsEmpty(blk[x])
              /\ Goto(t, "release", "release")
              /\ blk' = Set(blk, x, EmptyBlock) /\ backend' = backend \cup {x}
              /\ UNCHANGED block
           \/ /\ ~IsEmpty(blk[x])
              /\ Goto(t, "release", "share")
              /\ blk' = [blk EXCEPT ![x].owner = NULL] /\ block' = Set(block, t, x)
              /\ UNCHANGED backend
    /\ UNCHANGED <<held, bins, pools, orphans, threads, theBin, todo>>
Released(t) ==
    /\ rest[t] = <<>>
    /\ Goto(t, "release", "gone")
    /\ tls' = Set(tls, t, "gone")
    /\ UNCHANGED <<blk, held, bins, pools, orphans, backend, listLock, block, theBin, rest, todo>>

\* shareOrphaned: the list is closed unless it is not empty, in which case
\* whoever made it so is about to mail the block.
ShareClosing(t) ==
    /\ Goto(t, "share", "abandon")
    /\ blk[My(t)].nextPrivatizable = t /\ IsNull(blk[My(t)])
    /\ blk' = [blk EXCEPT ![My(t)].closed = TRUE]
    /\ UNCHANGED <<held, bins, pools, orphans, backend, threads, block, theBin, rest, todo>>
\* Mutated form: nobody is waited for.
ShareAtOnce(t) ==
    /\ Goto(t, "share", "abandon")
    /\ ~(blk[My(t)].nextPrivatizable = t /\ IsNull(blk[My(t)]))
    /\ UNCHANGED <<blk, held, bins, pools, orphans, backend, threads, block, theBin, rest, todo>>
ShareMailed(t) ==
    /\ Goto(t, "share", "abandon")
    /\ blk[My(t)].nextPrivatizable # t
    /\ UNCHANGED <<blk, held, bins, pools, orphans, backend, threads, block, theBin, rest, todo>>
Abandon(t) ==
    /\ Goto(t, "abandon", "release")
    /\ blk' = [blk EXCEPT ![My(t)].nextPrivatizable = UNUSABLE]
    /\ orphans' = <<My(t)>> \o orphans
    /\ Drop(t)
    /\ UNCHANGED <<held, bins, pools, backend, threads, theBin, rest, todo>>

(***************************************************************************)
(* ExtMemoryPool::releaseAllLocalCaches: a thread, whether or not it has   *)
(* allocated anything, empties the pools of all threads, and gives back an *)
(* active block that it does not use.                                      *)
(***************************************************************************)
Clean(t) ==
    /\ Goto(t, "ready", "clean")
    /\ tls[t] # "gone" /\ listLock = NULL /\ listLock' = t
    /\ todo' = Set(todo, t, {u \in Thread : tls[u] = "listed"})
    /\ UNCHANGED <<blk, held, bins, pools, orphans, backend, tls, block, theBin, rest>>
CleanNext(t) == \E u \in todo[t] :
    /\ Goto(t, "clean", "clean")
    /\ todo' = [todo EXCEPT ![t] = @ \ {u}]
    /\ backend' = backend \cup ToSet(pool[u]) /\ pool' = Set(pool, u, <<>>)
    /\ UNCHANGED <<blk, held, bins, size, orphans, threads, block, theBin, rest>>
CleanActive(t) ==
    /\ todo[t] = {}
    /\ Goto(t, "clean", "ready")
    /\ listLock' = NULL
    /\ LET x == activeBlk[t]
       IN  IF x # NULL /\ blk[x].allocatedCount = 0
           THEN Remaining(t, x) /\ backend' = backend \cup {x} /\ blk' = Set(blk, x, EmptyBlock)
           ELSE UNCHANGED <<blk, list, activeBlk, backend>>
    /\ UNCHANGED <<held, mailbox, mailLock, pools, orphans, tls, block, theBin, rest, todo>>

Next == \E t \in Thread :
    \/ Malloc(t) \/ TakeMail(t) \/ AllocatePrivatized(t)
    \/ TakeOrphan(t) \/ Adopt(t) \/ AllocateAdopted(t)
    \/ TakePool(t) \/ PutBack(t) \/ AskBackend(t)
    \/ FreeOwn(t) \/ ReturnTake(t) \/ ReturnPut(t)
    \/ FreePublic(t) \/ ReadBin(t) \/ LockMail(t)
    \/ LinkOnly(t) \/ MailLinked(t) \/ LinkAndMail(t)
    \/ Unregister(t) \/ CleanPool(t) \/ Release(t) \/ Released(t)
    \/ ShareClosing(t) \/ ShareMailed(t) \/ Abandon(t)
    \/ Clean(t) \/ CleanNext(t) \/ CleanActive(t)

Spec == Init /\ [][Next]_vars

(***************************************************************************)
(* Properties                                                              *)
(***************************************************************************)
Mailing == {"read bin", "lock", "link", "mail block"}
Freers(x) == {u \in Thread : pc[u] \in Mailing /\ block[u] = x}
Taken(t) == IF pc[t] \in {"put back", "return to", "release"} THEN ToSet(rest[t]) ELSE {}
InHand(t) == IF pc[t] \in {"adopt", "adopted", "return", "return to", "share", "abandon"}
             THEN {block[t]} ELSE {}
Idle == backend \cup UNION {ToSet(pool[t]) : t \in Thread}
        \cup UNION {IF pc[t] = "put back" THEN Taken(t)
                    ELSE IF pc[t] = "return" THEN InHand(t)
                    ELSE IF pc[t] = "return to" THEN Taken(t) \cup InHand(t) ELSE {} : t \in Thread}

\* The blocks in a mailbox, with as many of them as there can be
Mailed_[x \in Block \cup Thread \cup {NULL, UNUSABLE}, n \in 0 .. Cardinality(Block)] ==
    IF x \notin Block \/ n = 0 THEN {} ELSE {x} \cup Mailed_[blk[x].nextPrivatizable, n - 1]
Mail(t) == Mailed_[mailbox[t], Cardinality(Block)]

TypeOK ==
    /\ blk \in [Block -> [owner : Thread \cup {NULL}, publicFreeList : 0 .. Capacity, closed : BOOLEAN,
                          nextPrivatizable : Thread \cup Block \cup {NULL, UNUSABLE},
                          freeList : 0 .. Capacity, bump : 0 .. Capacity,
                          allocatedCount : 0 .. Capacity, isFull : BOOLEAN]]
    /\ tls \in [Thread -> {"none", "listed", "leaving", "gone"}]
    /\ listLock \in Thread \cup {NULL} /\ mailLock \in [Thread -> Thread \cup {NULL}]

\* Every block is in one place, whatever pools are emptied meanwhile, and an
\* object of it is with the program or in one of its lists, so that none is
\* handed out twice or lost.  What the header counts as allocated is what the
\* program has and what is in the public list, so that a block that is given
\* back has no object in use.
NothingLostOrRepeated ==
    /\ \A x \in Block :
          Cardinality({<<"backend">> : y \in backend \cap {x}})
          + Cardinality({i \in DOMAIN orphans : orphans[i] = x})
          + Cardinality({<<t, i>> \in Thread \X (1 .. Cardinality(Block)) :
                            i <= Len(pool[t]) /\ pool[t][i] = x})
          + Cardinality({<<t, i>> \in Thread \X (1 .. Cardinality(Block)) :
                            i <= Len(list[t]) /\ list[t][i] = x})
          + Cardinality({<<t, i>> \in Thread \X (1 .. Cardinality(Block)) :
                            i <= Len(rest[t]) /\ rest[t][i] = x})
          + Cardinality({t \in Thread : x \in InHand(t)}) = 1
    /\ \A x \in Block :
          IF x \in Idle THEN held[x] = 0
          ELSE LET y == blk[x]
               IN  /\ held[x] + y.publicFreeList + y.freeList + y.bump = Capacity
                   /\ y.allocatedCount = held[x] + y.publicFreeList

\* A thread that has freed an object and is to mail its block finds the block
\* in use and the owner's bin where it was.
NothingDangling ==
    \A t \in Thread :
        /\ pc[t] \in Mailing => block[t] \notin Idle
        /\ pc[t] \in Mailing \ {"read bin"} => theBin[t] \in Thread /\ tls[theBin[t]] # "gone"

\* A block with objects that others have freed is found: it is in the mailbox
\* of its owner, each once, or is about to be, or is an orphan; and only such
\* blocks are there.  The blocks before the active one have room, and the
\* size of a pool is right unless the pool was emptied.
StructureSound ==
    /\ \A t \in Thread : \A x \in ToSet(list[t]) :
          /\ blk[x].owner = t
          /\ ~IsNull(blk[x]) => \/ x \in Mail(t) \/ Freers(x) # {}
                                \/ pc[t] = "privatize" /\ block[t] = x
          /\ x \notin Mail(t) /\ Freers(x) = {} => blk[x].nextPrivatizable = t
    /\ \A t \in Thread : tls[t] # "gone" /\ pc[t] \notin {"release", "share", "abandon"} =>
          \A x \in Mail(t) : blk[x].owner = t /\ blk[x].publicFreeList > 0
    /\ \A x \in Block : Cardinality(Freers(x)) <= 1
    /\ \A i \in DOMAIN orphans : ~IsNull(blk[orphans[i]]) /\ blk[orphans[i]].owner = NULL
    /\ \A t \in Thread : activeBlk[t] # NULL =>
          \A i \in DOMAIN list[t] : i < Place(t, activeBlk[t]) => ~blk[list[t][i]].isFull
    /\ \A x \in Block : held[x] = 1 /\ blk[x].publicFreeList = 0 /\ blk[x].owner # NULL =>
          Keeps(x) \/ ~blk[x].isFull
    /\ \A t \in Thread : pool[t] # <<>> => size[t] = Len(pool[t])

\* A thread that ends waits for a block to be mailed only while another is
\* about to do so.
NoHang ==
    \A t \in Thread :
        pc[t] = "share" /\ blk[block[t]].nextPrivatizable = t /\ ~IsNull(blk[block[t]])
        => Freers(block[t]) # {}
=============================================================================
