------------------------------ MODULE Backend ------------------------------
(***************************************************************************)
(* The backend of the scalable allocator (src/src/tbbmalloc/backend.cpp):  *)
(* regions of memory are cut into blocks, and blocks that are given back   *)
(* are merged with their neighbours without a global lock.  Every block    *)
(* has a guarded size in its own header and a copy of it in the header of  *)
(* its right neighbour; to merge or to take a block is to lock both.  Who  *)
(* meets a neighbour that is being merged puts its block into a queue for  *)
(* later.                                                                  *)
(*                                                                         *)
(* Addresses and sizes count units, the smallest block.  The requests are  *)
(* below the size from which a region of its own is asked for.  Each       *)
(* access to a guarded size is a step; a bin that is changed under its     *)
(* lock without a look at other headers is changed in one.  sizeTmp        *)
(* travels with its block, and what a merged block has inside is dead.     *)
(***************************************************************************)
EXTENDS Integers, Sequences, FiniteSets, SequencesExt, FiniteSetsExt

CONSTANTS
    Thread,
    NULL,
    Regions,            \* how many regions the system has
    RegionSize,         \* the largest block of a region
    slabSize, minBinnedSize, largeBlockCacheStep,
    freeBinsNum,
    Requests,           \* records [num, size, aligned]
    Commands,           \* what else the program may ask for: "clean"
    fixedPool,          \* all memory is there from the beginning
    LockedBinsThreshold,    \* two in the code, zero for a fixed pool
    MaxExtending,       \* three in the code
    NUM_OF_REG,         \* three in the code
    Watched             \* whether history is kept, which costs states

Assumptions ==
    /\ NULL \notin Thread
    /\ Regions \in Nat \ {0} /\ RegionSize \in Nat \ {0}
    /\ slabSize \in Nat \ {0} /\ minBinnedSize \in Nat \ {0} /\ largeBlockCacheStep \in Nat \ {0}
    /\ largeBlockCacheStep <= slabSize
    /\ minBinnedSize + (freeBinsNum - 1) * largeBlockCacheStep >= slabSize
    /\ Requests \subseteq [num : Nat \ {0}, size : Nat \ {0}, aligned : BOOLEAN]
    /\ \A r \in Requests : r.num * r.size \in minBinnedSize .. RegionSize
    /\ Commands \subseteq {"clean"}
    /\ fixedPool \in BOOLEAN /\ LockedBinsThreshold \in Nat /\ Watched \in BOOLEAN
    /\ fixedPool => LockedBinsThreshold = 0
    /\ MaxExtending \in Nat \ {0} /\ NUM_OF_REG \in Nat

VARIABLES
    myL, leftL,         \* of each address: the guarded sizes in its header
    myBin,              \* of each block: the bin it is in, or NO_BIN
    freeBins, tLock, bitMask,
    coalescQ,           \* blocks to be merged later, with their sizes
    regionList,         \* the regions there are
    held,               \* blocks outside of the backend
    blocksInProcessing, active,
    modified,           \* of each thread: binsModifications # startModifiedCnt
    me,                 \* of each thread: where it is, and its local variables
    short               \* of each thread: was there, at some moment since it
                        \* began to search, no block for it in a bin?

headers == <<myL, leftL>>
bins == <<myBin, freeBins, tLock, bitMask>>
store == <<coalescQ, regionList, held>>
sync == <<blocksInProcessing, active, modified>>
vars == <<headers, bins, store, sync, me, short>>

(***************************************************************************)
(* Blocks, <<address, size>>, and the values of a guarded size that are    *)
(* below every size                                                        *)
(***************************************************************************)
LOCKED == -2
COAL_BLOCK == -1
LAST_REGION_BLOCK == 0
Unlocked(v) == v > COAL_BLOCK

\* The right end of a region is aligned to slabs; its last block, which is
\* only a header, is behind that.
alignUp(a) == slabSize * ((a + slabSize - 1) \div slabSize)
Region == 0 .. Regions - 1
LastOf(r) == alignUp(RegionSize) + r * alignUp(RegionSize + 1)
FirstOf(r) == LastOf(r) - RegionSize
RegionOf(a) == CHOOSE r \in Region : a \in FirstOf(r) .. LastOf(r)
Address == UNION {FirstOf(r) .. LastOf(r) : r \in Region}
IsLast(a) == a = LastOf(RegionOf(a))

NO_BIN == <<"none", 0>>
Bin == {"aligned", "large"} \X (0 .. freeBinsNum - 1)
sizeToBin(n) == LET i == (n - minBinnedSize) \div largeBlockCacheStep
                IN IF n < minBinnedSize THEN -1 ELSE IF i >= freeBinsNum THEN freeBinsNum - 1 ELSE i
toAlignedBin(a, n) == (a + n) % slabSize = 0 /\ n >= slabSize
BinOf(x) == IF sizeToBin(x[2]) = -1 THEN NO_BIN
            ELSE <<IF toAlignedBin(x[1], x[2]) THEN "aligned" ELSE "large", sizeToBin(x[2])>>

Begin(x) == x[1]
Size(x) == x[2]
End(x) == x[1] + x[2]
Inside(x) == Begin(x) + 1 .. End(x) - 1
RegionBlock(r) == <<FirstOf(r), RegionSize>>

Set(f, x, v) == [f EXCEPT ![x] = v]
At(t, label) == me[t].pc = label
Go(t, label) == me' = [me EXCEPT ![t].pc = label]
Goto(t, from, to) == At(t, from) /\ Go(t, to)

\* startUseBlock: the headers of a region that is one free block
Fresh(r, v) ==
    /\ myL' = [myL EXCEPT ![FirstOf(r)] = v, ![LastOf(r)] = LAST_REGION_BLOCK]
    /\ leftL' = [leftL EXCEPT ![LastOf(r)] = v, ![FirstOf(r)] = LOCKED]

Idle == [pc |-> "ready", returnTo |-> "ready",
         list |-> <<>>, force |-> FALSE,                \* of coalescAndPutList
         fBlock |-> NULL, resBlock |-> NULL, blockInBin |-> FALSE,
         other |-> 0,                                   \* a neighbour's size
         request |-> NULL, where |-> <<>>,              \* of genericGetBlock
         numOfLockedBins |-> 0, threshold |-> LockedBinsThreshold,
         block |-> NULL,                                \* looked at, or found
         count |-> 0,                                   \* blocks, or regions
         cleaning |-> FALSE, regionReleased |-> FALSE]
Initially == IF fixedPool THEN Region ELSE {0}

Init ==
    /\ regionList = Initially
    /\ myL = [a \in Address |-> IF \E r \in Initially : a = FirstOf(r) THEN RegionSize
                                ELSE IF IsLast(a) THEN LAST_REGION_BLOCK ELSE LOCKED]
    /\ leftL = [a \in Address |-> IF \E r \in Initially : a = LastOf(r) THEN RegionSize ELSE LOCKED]
    /\ myBin = [a \in Address |-> IF \E r \in Initially : a = FirstOf(r) THEN BinOf(<<a, RegionSize>>)
                                  ELSE NO_BIN]
    /\ freeBins = [b \in Bin |-> SetToSeq({FirstOf(r) : r \in {s \in Initially : BinOf(RegionBlock(s)) = b}})]
    /\ tLock = [b \in Bin |-> NULL] /\ bitMask = {b \in Bin : freeBins[b] # <<>>}
    /\ coalescQ = <<>> /\ held = {}
    /\ blocksInProcessing = 0 /\ active = 0 /\ modified = [t \in Thread |-> FALSE]
    /\ me = [t \in Thread |-> Idle] /\ short = [t \in Thread |-> FALSE]

(***************************************************************************)
(* doCoalesc: F is the block at the head of the list, R what it becomes.   *)
(***************************************************************************)
F(t) == me[t].fBlock
R(t) == me[t].resBlock
Right(t) == End(F(t))

\* A list of blocks, from a thread's hand or from the queue, is to be merged.
Started(m, l, forced, to) ==
    IF l = <<>> THEN [m EXCEPT !.pc = to]
    ELSE [m EXCEPT !.pc = "coalesce", !.list = l, !.force = forced, !.returnTo = to]
Ended(m) ==
    LET n == [m EXCEPT !.fBlock = NULL, !.resBlock = NULL, !.blockInBin = FALSE, !.other = 0]
    IN  IF m.list # <<>> THEN [n EXCEPT !.pc = "coalesce"]
        ELSE [n EXCEPT !.pc = m.returnTo, !.returnTo = "ready", !.force = FALSE]

\* The two stores are one step: nobody reads both words.
MarkCoalescing(t) ==
    /\ At(t, "coalesce")
    /\ LET x == Head(me[t].list)
       IN  /\ myL' = Set(myL, Begin(x), COAL_BLOCK) /\ leftL' = Set(leftL, End(x), COAL_BLOCK)
           /\ me' = [me EXCEPT ![t].pc = "try left", ![t].fBlock = x, ![t].resBlock = x,
                               ![t].blockInBin = FALSE, ![t].list = Tail(@)]
    /\ UNCHANGED <<bins, store, sync>>

\* The left neighbour, by its size in the header of the block
TryLeft(t) ==
    /\ At(t, "try left")
    /\ LET v == leftL[Begin(F(t))]
       IN  \/ v = LOCKED /\ Go(t, "try right") /\ UNCHANGED leftL
           \/ v = COAL_BLOCK /\ Go(t, "requeue") /\ UNCHANGED leftL
           \/ /\ Unlocked(v)
              /\ leftL' = Set(leftL, Begin(F(t)), COAL_BLOCK)
              /\ me' = [me EXCEPT ![t].pc = "take left", ![t].other = v]
    /\ UNCHANGED <<myL, bins, store, sync>>
TakeLeft(t) ==
    /\ At(t, "take left")
    /\ LET l == Begin(F(t)) - me[t].other
       IN  \/ ~Unlocked(myL[l]) /\ Go(t, "undo left") /\ UNCHANGED myL
           \/ /\ Unlocked(myL[l])
              /\ myL' = Set(myL, l, COAL_BLOCK)
              /\ me' = [me EXCEPT ![t].pc = "try right", ![t].blockInBin = TRUE,
                                  ![t].resBlock = <<l, me[t].other + Size(F(t))>>]
    /\ UNCHANGED <<leftL, bins, store, sync>>
UndoLeft(t) ==
    /\ Goto(t, "undo left", "requeue")
    /\ leftL' = Set(leftL, Begin(F(t)), me[t].other)
    /\ UNCHANGED <<myL, bins, store, sync>>

\* The right neighbour, which may be the last block of the region
TryRight(t) ==
    /\ At(t, "try right")
    /\ LET v == myL[Right(t)]
       IN  \/ v \in {LOCKED, LAST_REGION_BLOCK} /\ Go(t, "place") /\ UNCHANGED myL
           \/ v = COAL_BLOCK /\ Go(t, "unbin") /\ UNCHANGED myL
           \/ /\ v > LAST_REGION_BLOCK
              /\ myL' = Set(myL, Right(t), COAL_BLOCK)
              /\ me' = [me EXCEPT ![t].pc = "take right", ![t].other = v]
    /\ UNCHANGED <<leftL, bins, store, sync>>
TakeRight(t) ==
    /\ At(t, "take right")
    /\ LET n == Right(t) + me[t].other
       IN  \/ ~Unlocked(leftL[n]) /\ Go(t, "undo right") /\ UNCHANGED leftL
           \/ Unlocked(leftL[n]) /\ Go(t, "unbin right") /\ leftL' = Set(leftL, n, COAL_BLOCK)
    /\ UNCHANGED <<myL, bins, store, sync>>
UndoRight(t) ==
    /\ Goto(t, "undo right", "unbin")
    /\ myL' = Set(myL, Right(t), me[t].other)
    /\ UNCHANGED <<leftL, bins, store, sync>>

Removed(s, a) == SelectSeq(s, LAMBDA x : x # a)
\* removeBlockFromBin
Unbinned(a) ==
    LET b == myBin[a]
    IN  IF b = NO_BIN THEN UNCHANGED bins
        ELSE /\ tLock[b] = NULL
             /\ freeBins' = [freeBins EXCEPT ![b] = Removed(@, a)]
             /\ bitMask' = IF freeBins'[b] = <<>> THEN bitMask \ {b} ELSE bitMask
             /\ UNCHANGED <<myBin, tLock>>
LeftUnbinned(t) == IF me[t].blockInBin THEN Unbinned(Begin(R(t))) ELSE UNCHANGED bins
\* The left neighbour, which is merged already, leaves its bin.
Unbin(t) ==
    /\ At(t, "unbin")
    /\ LeftUnbinned(t)
    /\ me' = [me EXCEPT ![t].pc = "requeue", ![t].blockInBin = FALSE]
    /\ UNCHANGED <<headers, store, sync>>
UnbinRight(t) ==
    /\ At(t, "unbin right")
    /\ Unbinned(Right(t))
    /\ me' = [me EXCEPT ![t].pc = IF IsLast(Right(t) + me[t].other) THEN "place" ELSE "probe",
                        ![t].resBlock = <<Begin(@), Size(@) + me[t].other>>]
    /\ UNCHANGED <<headers, store, sync>>
\* Whether the next one is the last block of the region
Probe(t) ==
    /\ At(t, "probe")
    /\ LET v == myL[End(R(t))]
       IN  IF Unlocked(v) THEN /\ myL' = Set(myL, End(R(t)), COAL_BLOCK)
                               /\ me' = [me EXCEPT ![t].pc = "unprobe", ![t].other = v]
                          ELSE Go(t, "place") /\ UNCHANGED myL
    /\ UNCHANGED <<leftL, bins, store, sync>>
Unprobe(t) ==
    /\ Goto(t, "unprobe", "place")
    /\ myL' = Set(myL, End(R(t)), me[t].other)
    /\ UNCHANGED <<leftL, bins, store, sync>>

\* CoalRequestQ::putBlock
MarkUsed(t) ==
    /\ Goto(t, "requeue", "push")
    /\ myL' = Set(myL, Begin(R(t)), LOCKED) /\ leftL' = Set(leftL, End(R(t)), LOCKED)
    /\ UNCHANGED <<bins, store, sync>>
PutBlock(t) ==
    /\ At(t, "push")
    /\ coalescQ' = <<R(t)>> \o coalescQ
    /\ me' = [me EXCEPT ![t] = Ended(@)]
    /\ UNCHANGED <<headers, bins, regionList, held, sync>>

(***************************************************************************)
(* coalescAndPutList: what becomes of the merged block                     *)
(***************************************************************************)
Releases(t) == R(t) = RegionBlock(RegionOf(Begin(R(t)))) /\ ~fixedPool
\* Mutated form: the kind of the bin is not compared.
StaysInIndex(t) == me[t].blockInBin /\ myBin[Begin(R(t))][2] = BinOf(R(t))[2]
\* The block stays in its bin.
Stays(t) == me[t].blockInBin /\ myBin[Begin(R(t))] = BinOf(R(t))
\* Who is about to change bin b, which it does in one step here, may be in
\* the middle of that for one who only tries the lock.
Changing(t, b) ==
    \/ At(t, "unbin") /\ me[t].blockInBin /\ myBin[Begin(R(t))] = b
    \/ At(t, "unbin right") /\ myBin[Right(t)] = b
    \/ At(t, "place") /\ (IF me[t].blockInBin THEN myBin[Begin(R(t))] ELSE BinOf(R(t))) = b
Busy(t, b) == tLock[b] # NULL \/ \E u \in Thread \ {t} : Changing(u, b)

\* Only tryReleaseRegions tells that it has released one.
ReleaseRegion(t) ==
    /\ At(t, "place") /\ Releases(t)
    /\ LeftUnbinned(t)
    /\ LET r == RegionOf(Begin(R(t)))
           dead == FirstOf(r) .. LastOf(r)
       IN  /\ regionList' = regionList \ {r}
           /\ myL' = [a \in Address |-> IF a \in dead THEN LOCKED ELSE myL[a]]
           /\ leftL' = [a \in Address |-> IF a \in dead THEN LOCKED ELSE leftL[a]]
    /\ me' = [me EXCEPT ![t] = [Ended(@) EXCEPT !.regionReleased = @ \/ me[t].returnTo = "find"]]
    /\ UNCHANGED <<coalescQ, held, sync>>
LeaveBin(t) ==
    /\ At(t, "place") /\ ~Releases(t) /\ me[t].blockInBin /\ ~Stays(t)
    /\ Unbinned(Begin(R(t)))
    /\ me' = [me EXCEPT ![t].blockInBin = FALSE]
    /\ UNCHANGED <<headers, store, sync>>
Stay(t) ==
    /\ Goto(t, "place", "free")
    /\ ~Releases(t) /\ Stays(t)
    /\ UNCHANGED <<headers, bins, store, sync>>
StayBinless(t) ==
    /\ Goto(t, "place", "free")
    /\ ~Releases(t) /\ ~me[t].blockInBin /\ BinOf(R(t)) = NO_BIN
    /\ myBin' = Set(myBin, Begin(R(t)), NO_BIN)
    /\ UNCHANGED <<headers, freeBins, tLock, bitMask, store, sync>>
\* addBlock, which waits for the lock, and tryAddBlock, which does not
Add(t) ==
    /\ At(t, "place") /\ ~Releases(t) /\ ~me[t].blockInBin
    /\ LET b == BinOf(R(t))
       IN  /\ b # NO_BIN
           /\ myBin' = Set(myBin, Begin(R(t)), b)
           /\ \/ /\ tLock[b] = NULL
                 /\ Go(t, "mask")
                 /\ freeBins' = [freeBins EXCEPT ![b] = <<Begin(R(t))>> \o @]
              \/ ~me[t].force /\ Busy(t, b) /\ Go(t, "requeue") /\ UNCHANGED freeBins
    /\ UNCHANGED <<headers, tLock, bitMask, store, sync>>
SetMask(t) ==
    /\ Goto(t, "mask", "free")
    /\ bitMask' = bitMask \cup {myBin[Begin(R(t))]}
    /\ UNCHANGED <<headers, myBin, freeBins, tLock, store, sync>>
SetMeFree(t) ==
    /\ Goto(t, "free", "free right")
    /\ LET dead == Inside(R(t))
       IN  /\ myL' = [a \in Address |-> IF a = Begin(R(t)) THEN Size(R(t))
                                        ELSE IF a \in dead THEN LOCKED ELSE myL[a]]
           /\ leftL' = [a \in Address |-> IF a \in dead THEN LOCKED ELSE leftL[a]]
           /\ myBin' = [a \in Address |-> IF a \in dead THEN NO_BIN ELSE myBin[a]]
    /\ UNCHANGED <<freeBins, tLock, bitMask, store, sync>>
SetLeftFree(t) ==
    /\ At(t, "free right")
    /\ leftL' = Set(leftL, End(R(t)), Size(R(t)))
    /\ me' = [me EXCEPT ![t] = Ended(@)]
    /\ UNCHANGED <<myL, bins, store, sync>>

(***************************************************************************)
(* genericPutBlock and genericGetBlock                                     *)
(***************************************************************************)
Modified == [u \in Thread |-> TRUE]
PutBack(t) == \E x \in held :
    /\ At(t, "ready")
    /\ held' = held \ {x}
    /\ blocksInProcessing' = blocksInProcessing + 1
    /\ me' = [me EXCEPT ![t] = Started(@, <<x>>, FALSE, "put back")]
    /\ UNCHANGED <<headers, bins, coalescQ, regionList, active, modified>>
\* Mutated form: the block is still counted as in processing.
ReleasedUncounted ==
    /\ modified' = Modified
    /\ UNCHANGED <<blocksInProcessing, active>>
\* blockReleased
Released ==
    /\ modified' = Modified /\ blocksInProcessing' = blocksInProcessing - 1
    /\ UNCHANGED active
EndPut(t) ==
    /\ Goto(t, "put back", "ready")
    /\ Released
    /\ UNCHANGED <<headers, bins, store>>

Total(r) == r.num * r.size
\* scanCoalescQ takes the whole queue; then the request is to be searched for.
Get(t) == \E r \in Requests :
    /\ At(t, "ready")
    /\ me' = [me EXCEPT ![t] = Started([@ EXCEPT !.request = r], coalescQ, FALSE, "search")]
    /\ coalescQ' = <<>>
    /\ UNCHANGED <<headers, bins, regionList, held, sync>>

\* The bins to be searched: from the first that can have a block large enough
Wanted(r) ==
    LET first == sizeToBin(Total(r))
        kind(k) == [i \in 1 .. freeBinsNum - first |-> <<k, first + i - 1>>]
    IN  IF r.aligned THEN kind("aligned") \o kind("large") ELSE kind("large") \o kind("aligned")
Scanning(m) == [m EXCEPT !.pc = "find", !.where = Wanted(m.request), !.numOfLockedBins = 0]
Search(t) ==
    /\ At(t, "search")
    /\ me' = [me EXCEPT ![t] = Scanning(@)]
    /\ modified' = Set(modified, t, FALSE)
    /\ UNCHANGED <<headers, bins, store, blocksInProcessing, active>>
\* With too many bins locked by others, once more
Again(t) ==
    /\ At(t, "find") /\ me[t].where = <<>>
    /\ me[t].numOfLockedBins > me[t].threshold
    /\ me' = [me EXCEPT ![t] = Scanning(@)]
    /\ UNCHANGED <<headers, bins, store, sync>>

\* getFromBin, and tryReleaseRegions when there is no request
Cleans(t) == me[t].cleaning
B(t) == Head(me[t].where)
Finding(t) == At(t, "find") /\ me[t].where # <<>>
\* getMinNonemptyBin passes over the bins of a kind that are not in the mask.
AfterGap(t, w) ==
    LET marked == {i \in DOMAIN w : w[i] \in bitMask \/ w[i][1] # B(t)[1]}
    IN  IF marked = {} THEN <<>> ELSE SubSeq(w, Min(marked), Len(w))
Skip(t) ==
    /\ Finding(t) /\ ~Cleans(t)
    /\ \/ /\ B(t) \notin bitMask
          /\ me' = [me EXCEPT ![t].where = AfterGap(t, @)]
       \/ /\ B(t) \in bitMask /\ freeBins[B(t)] = <<>>
          /\ me' = [me EXCEPT ![t].where = Tail(@)]
       \/ /\ B(t) \in bitMask /\ freeBins[B(t)] # <<>> /\ Busy(t, B(t))
          /\ me' = [me EXCEPT ![t].where = Tail(@), ![t].numOfLockedBins = @ + 1]
    /\ UNCHANGED <<headers, bins, store, sync>>
LockBin(t) ==
    /\ Finding(t)
    /\ freeBins[B(t)] # <<>> /\ (B(t) \in bitMask \/ me[t].list # <<>>)
    /\ tLock[B(t)] = NULL /\ tLock' = Set(tLock, B(t), t)
    /\ me' = [me EXCEPT ![t].pc = "inspect", ![t].block = <<freeBins[B(t)][1], 0>>]
    /\ UNCHANGED <<headers, myBin, freeBins, bitMask, store, sync>>
\* tryLockBlock: the block and, in its right neighbour, its size
Curr(t) == Begin(me[t].block)
Unlocks(t) ==
    /\ tLock' = Set(tLock, B(t), NULL)
    /\ me' = [me EXCEPT ![t].pc = "find", ![t].block = NULL]
Inspect(t) ==
    /\ At(t, "inspect")
    /\ LET v == myL[Curr(t)]
       IN  \/ ~Unlocked(v) /\ Unlocks(t) /\ UNCHANGED myL
           \/ /\ Unlocked(v)
              /\ myL' = Set(myL, Curr(t), LOCKED)
              /\ me' = [me EXCEPT ![t].pc = "inspect right", ![t].block = <<Curr(t), v>>]
              /\ UNCHANGED tLock
    /\ UNCHANGED <<leftL, myBin, freeBins, bitMask, store, sync>>
\* Mutated form: what the right neighbour says is not looked at.
InspectRightBlindly(t) ==
    /\ Goto(t, "inspect right", "judge")
    /\ leftL' = Set(leftL, End(me[t].block), LOCKED)
    /\ UNCHANGED <<myL, bins, store, sync>>
InspectRight(t) ==
    /\ At(t, "inspect right")
    /\ LET v == leftL[End(me[t].block)]
       IN  \/ ~Unlocked(v) /\ Go(t, "undo inspect") /\ UNCHANGED leftL
           \/ Unlocked(v) /\ Go(t, "judge") /\ leftL' = Set(leftL, End(me[t].block), LOCKED)
    /\ UNCHANGED <<myL, bins, store, sync>>
UndoInspect(t) ==
    /\ At(t, "undo inspect")
    /\ myL' = Set(myL, Curr(t), Size(me[t].block))
    /\ Unlocks(t)
    /\ UNCHANGED <<leftL, myBin, freeBins, bitMask, store, sync>>

Fits(b, x, r) ==
    IF b[1] = "aligned" \/ ~r.aligned THEN Size(x) >= Total(r)
    ELSE alignUp(Begin(x)) + Total(r) <= End(x)
\* An aligned block is cut from the right, and what remains may stay.
InPlace(b, x, r) == /\ b[1] = "aligned" /\ r.aligned /\ Size(x) > Total(r)
                    /\ sizeToBin(Size(x) - Total(r)) = sizeToBin(Size(x))
TakeFrom(t) ==
    /\ At(t, "judge") /\ ~Cleans(t)
    /\ LET x == me[t].block  b == B(t)  rest == Size(x) - Total(me[t].request)
           left == Removed(freeBins[b], Begin(x))
       IN  /\ Fits(b, x, me[t].request)
           /\ tLock' = Set(tLock, b, NULL)
           /\ IF InPlace(b, x, me[t].request)
              THEN /\ me' = [me EXCEPT ![t].pc = "split", ![t].block = <<Begin(x) + rest, Size(x) - rest>>]
                   /\ myL' = [myL EXCEPT ![Begin(x) + rest] = LOCKED, ![Begin(x)] = rest]
                   /\ leftL' = Set(leftL, Begin(x) + rest, rest)
                   /\ UNCHANGED <<freeBins, bitMask>>
              ELSE /\ Go(t, "split")
                   /\ freeBins' = Set(freeBins, b, left)
                   /\ bitMask' = IF left = <<>> THEN bitMask \ {b} ELSE bitMask
                   /\ UNCHANGED headers
    /\ blocksInProcessing' = blocksInProcessing + 1
    /\ UNCHANGED <<myBin, store, active, modified>>
\* The block stays; on to the next in the bin, or to the next bin
PutMe(t) ==
    /\ Goto(t, "judge", "put right")
    /\ ~Cleans(t) /\ ~Fits(B(t), me[t].block, me[t].request)
    /\ myL' = Set(myL, Curr(t), Size(me[t].block))
    /\ UNCHANGED <<leftL, bins, store, sync>>
\* What follows the block in its bin
Behind(t) == LET s == freeBins[B(t)]
             IN  SubSeq(s, 1 + CHOOSE i \in DOMAIN s : s[i] = Curr(t), Len(s))
NextInBin(t) ==
    /\ Behind(t) # <<>>
    /\ UNCHANGED tLock
LeavesBin(t) ==
    /\ Behind(t) = <<>>
    /\ tLock' = Set(tLock, B(t), NULL)
PutRight(t) ==
    /\ At(t, "put right")
    /\ leftL' = Set(leftL, End(me[t].block), Size(me[t].block))
    /\ \/ /\ NextInBin(t)
          /\ me' = [me EXCEPT ![t].pc = "inspect", ![t].block = <<Head(Behind(t)), 0>>]
       \/ /\ LeavesBin(t)
          /\ me' = [me EXCEPT ![t].pc = "find", ![t].block = NULL, ![t].where = Tail(@)]
    /\ UNCHANGED <<myL, myBin, freeBins, bitMask, store, sync>>

\* Mutated form: bins that were locked are not searched again.
ScanForcedAtOnce(t) ==
    /\ At(t, "find") /\ me[t].where = <<>> /\ ~Cleans(t)
    /\ me' = [me EXCEPT ![t] =
                 IF coalescQ # <<>> THEN Started(@, coalescQ, TRUE, "search")
                 ELSE [@ EXCEPT !.pc = "await", !.count = blocksInProcessing]]
    /\ coalescQ' = <<>>
    /\ UNCHANGED <<headers, bins, regionList, held, sync>>
\* Nothing in the bins: delayed requests, then blocks in processing, then memory
ScanForced(t) ==
    /\ At(t, "find") /\ me[t].where = <<>> /\ ~Cleans(t)
    /\ me[t].numOfLockedBins <= me[t].threshold
    /\ me' = [me EXCEPT ![t] =
                 IF coalescQ # <<>> THEN Started(@, coalescQ, TRUE, "search")
                 ELSE [@ EXCEPT !.pc = "await", !.count = blocksInProcessing]]
    /\ coalescQ' = <<>>
    /\ UNCHANGED <<headers, bins, regionList, held, sync>>
\* waitTillBlockReleased
Waited(t, from, to) ==
    /\ At(t, from)
    /\ \/ /\ me[t].count = 0 \/ blocksInProcessing < me[t].count
          /\ me' = [me EXCEPT ![t].pc = IF modified[t] THEN "search" ELSE to, ![t].count = 0]
       \/ /\ me[t].count # 0 /\ blocksInProcessing > me[t].count
          /\ me' = [me EXCEPT ![t].count = blocksInProcessing]
    /\ UNCHANGED <<headers, bins, store, sync>>
Await(t) == Waited(t, "await", "extend")
\* MemExtendingSema::wait
Extend(t) ==
    /\ active < MaxExtending
    /\ \/ Goto(t, "extend", "check") /\ active' = active + 1
       \/ Goto(t, "others extend", "search") /\ UNCHANGED active
    /\ UNCHANGED <<headers, bins, store, blocksInProcessing, modified>>
OthersExtend(t) ==
    /\ active >= MaxExtending
    /\ Goto(t, "extend", "others extend")
    /\ UNCHANGED <<headers, bins, store, sync>>
Recheck(t) ==
    /\ modified[t]
    /\ Goto(t, "check", "search")
    /\ active' = active - 1
    /\ UNCHANGED <<headers, bins, store, blocksInProcessing, modified>>
\* addNewRegion: one for the request, and others in advance
New == IF fixedPool THEN {} ELSE Region \ regionList
Ask(t) ==
    /\ At(t, "check") /\ ~modified[t] /\ New # {}
    /\ regionList' = regionList \cup {Min(New)} /\ Fresh(Min(New), LOCKED)
    /\ me' = [me EXCEPT ![t].pc = "advance", ![t].count = NUM_OF_REG, ![t].block = RegionBlock(Min(New))]
    /\ blocksInProcessing' = blocksInProcessing + 1 /\ modified' = Modified
    /\ UNCHANGED <<bins, coalescQ, held, active>>
Advance(t) ==
    /\ At(t, "advance") /\ me[t].count > 0 /\ New # {}
    /\ LET x == RegionBlock(Min(New))
       IN  /\ tLock[BinOf(x)] = NULL
           /\ myBin' = Set(myBin, Begin(x), BinOf(x)) /\ bitMask' = bitMask \cup {BinOf(x)}
           /\ freeBins' = [freeBins EXCEPT ![BinOf(x)] = <<Begin(x)>> \o @]
    /\ regionList' = regionList \cup {Min(New)} /\ Fresh(Min(New), RegionSize)
    /\ modified' = Modified
    /\ me' = [me EXCEPT ![t].count = @ - 1]
    /\ UNCHANGED <<tLock, coalescQ, held, blocksInProcessing, active>>
Advanced(t) ==
    /\ At(t, "advance")
    /\ me[t].count = 0 \/ New = {}
    /\ me' = [me EXCEPT ![t].pc = "split", ![t].count = 0]
    /\ active' = active - 1
    /\ UNCHANGED <<headers, bins, store, blocksInProcessing, modified>>

(***************************************************************************)
(* Backend::clean: the bins that may have whole regions are emptied, and   *)
(* their blocks merged again, by which a region may be released.           *)
(***************************************************************************)
WholeBins == LET b == BinOf(RegionBlock(0)) IN <<<<"aligned", b[2]>>, <<"large", b[2]>>>>
Cleaning(m) == [m EXCEPT !.pc = "find", !.cleaning = TRUE, !.where = WholeBins]
\* Asked for by the program, or by a request for which there is no memory
Clean(t) ==
    /\ "clean" \in Commands
    /\ At(t, "ready")
    /\ me' = [me EXCEPT ![t] = Cleaning(@)]
    /\ UNCHANGED <<headers, bins, store, sync>>
NoMemory(t) ==
    /\ At(t, "check") /\ ~modified[t] /\ New = {}
    /\ me' = [me EXCEPT ![t] = Cleaning(@)]
    /\ active' = active - 1
    /\ UNCHANGED <<headers, bins, store, blocksInProcessing, modified>>
\* tryReleaseRegions: the blocks of a bin, all of them free meanwhile
CleanTake(t) ==
    /\ At(t, "judge") /\ Cleans(t)
    /\ LET l == <<me[t].block>> \o me[t].list
       IN  \/ /\ NextInBin(t)
              /\ me' = [me EXCEPT ![t].pc = "inspect", ![t].list = l, ![t].block = <<Head(Behind(t)), 0>>]
           \/ /\ LeavesBin(t)
              /\ me' = [me EXCEPT ![t] = Started([@ EXCEPT !.block = NULL, !.where = Tail(@)], l, TRUE, "find")]
    /\ freeBins' = [freeBins EXCEPT ![B(t)] = Removed(@, Curr(t))]
    /\ UNCHANGED <<headers, myBin, bitMask, store, sync>>
CleanSkip(t) ==
    /\ Finding(t) /\ Cleans(t)
    /\ freeBins[B(t)] = <<>> \/ (B(t) \notin bitMask /\ me[t].list = <<>>)
    /\ me' = [me EXCEPT ![t] = Started([@ EXCEPT !.where = Tail(@)], @.list, TRUE, "find")]
    /\ UNCHANGED <<headers, bins, store, sync>>
CleanScan(t) ==
    /\ At(t, "find") /\ me[t].where = <<>> /\ Cleans(t)
    /\ me' = [me EXCEPT ![t] = Started([@ EXCEPT !.cleaning = FALSE], coalescQ, FALSE, "cleaned")]
    /\ coalescQ' = <<>>
    /\ UNCHANGED <<headers, bins, regionList, held, sync>>
Cleaned(t) ==
    /\ At(t, "cleaned")
    /\ me' = [me EXCEPT ![t] =
                 IF @.request = NULL THEN Idle
                 ELSE IF @.regionReleased THEN [@ EXCEPT !.pc = "search", !.regionReleased = FALSE]
                 ELSE [@ EXCEPT !.pc = "await again", !.count = blocksInProcessing]]
    /\ UNCHANGED <<headers, bins, store, sync>>
AwaitAgain(t) == Waited(t, "await again", "last chance")
\* Bins that were locked are waited for, or the request fails.
LockedNext(t) ==
    /\ At(t, "last chance") /\ me[t].threshold # 0 /\ me[t].numOfLockedBins # 0
    /\ me' = [me EXCEPT ![t].pc = "search", ![t].threshold = 0]
    /\ UNCHANGED <<headers, bins, store, sync>>
GiveUp(t) ==
    /\ At(t, "last chance") /\ (me[t].threshold = 0 \/ me[t].numOfLockedBins = 0)
    /\ me' = [me EXCEPT ![t] = Idle]
    /\ UNCHANGED <<headers, bins, store, sync>>

(***************************************************************************)
(* splitAlignedBlock and splitUnalignedBlock: what is not used is given    *)
(* back; then the headers of the blocks.                                   *)
(***************************************************************************)
Cut(x, r) == IF ~r.aligned THEN Begin(x)
             ELSE IF toAlignedBin(Begin(x), Size(x)) THEN End(x) - Total(r) ELSE alignUp(Begin(x))
Split(t) ==
    /\ At(t, "split")
    /\ LET x == me[t].block  n == Total(me[t].request)  a == Cut(x, me[t].request)
           parts == SelectSeq(<<<<a + n, End(x) - (a + n)>>, <<Begin(x), a - Begin(x)>>>>,
                              LAMBDA y : Size(y) > 0)
           cuts == {a, a + n} \ {End(x)}
       IN  /\ me' = [me EXCEPT ![t] = Started([@ EXCEPT !.block = <<a, n>>], parts, FALSE, "hand out")]
           /\ myL' = [y \in Address |-> IF y \in cuts THEN LOCKED ELSE myL[y]]
           /\ leftL' = [y \in Address |-> IF y \in cuts \ {Begin(x)} THEN LOCKED ELSE leftL[y]]
    /\ UNCHANGED <<bins, store, sync>>
HandOut(t) ==
    /\ At(t, "hand out")
    /\ LET x == me[t].block  r == me[t].request  within == Inside(x)
       IN  /\ held' = held \cup {<<Begin(x) + i * r.size, r.size>> : i \in 0 .. r.num - 1}
           /\ myL' = [a \in Address |-> IF a \in within THEN LOCKED ELSE myL[a]]
           /\ leftL' = [a \in Address |-> IF a \in within THEN LOCKED ELSE leftL[a]]
           /\ myBin' = [a \in Address |-> IF a \in within \cup {Begin(x)} THEN NO_BIN ELSE myBin[a]]
    /\ me' = [me EXCEPT ![t] = Idle]
    /\ Released
    /\ UNCHANGED <<freeBins, tLock, bitMask, coalescQ, regionList>>

Step(t) ==
    \/ MarkCoalescing(t) \/ TryLeft(t) \/ TakeLeft(t) \/ UndoLeft(t)
    \/ TryRight(t) \/ TakeRight(t) \/ UndoRight(t) \/ Unbin(t) \/ UnbinRight(t)
    \/ Probe(t) \/ Unprobe(t) \/ MarkUsed(t) \/ PutBlock(t)
    \/ ReleaseRegion(t) \/ LeaveBin(t) \/ Stay(t) \/ StayBinless(t) \/ Add(t) \/ SetMask(t)
    \/ SetMeFree(t) \/ SetLeftFree(t)
    \/ PutBack(t) \/ EndPut(t) \/ Get(t) \/ Search(t) \/ Again(t) \/ Skip(t) \/ LockBin(t)
    \/ Inspect(t) \/ InspectRight(t) \/ UndoInspect(t) \/ TakeFrom(t) \/ PutMe(t) \/ PutRight(t)
    \/ ScanForced(t) \/ Await(t) \/ Extend(t) \/ OthersExtend(t) \/ Recheck(t) \/ Ask(t)
    \/ Advance(t) \/ Advanced(t)
    \/ Clean(t) \/ NoMemory(t) \/ CleanTake(t) \/ CleanSkip(t) \/ CleanScan(t) \/ Cleaned(t)
    \/ AwaitAgain(t) \/ LockedNext(t) \/ GiveUp(t) \/ Split(t) \/ HandOut(t)

(***************************************************************************)
(* History: was there, at every moment since a thread began to search, a   *)
(* block for it in some bin, which is free or just looked at by another?   *)
(***************************************************************************)
Free == {<<a, myL[a]>> : a \in {b \in Address : myL[b] > LAST_REGION_BLOCK}}
Looks(t) == me[t].pc \in {"inspect right", "undo inspect", "judge"}
Served(r) == \E b \in Bin : \E x \in Free \cup {me[u].block : u \in {v \in Thread : Looks(v)}} :
    /\ b[2] >= sizeToBin(Total(r)) /\ Fits(b, x, r)
    /\ Begin(x) \in ToSet(freeBins[b])
Searching(m) == m.request # NULL /\ m.pc \notin {"search", "split", "hand out"}
Next == \E t \in Thread :
    /\ Step(t)
    /\ short' = [u \in Thread |-> /\ Watched /\ Searching(me'[u])
                                  /\ short[u] \/ ~Served(me[u].request)']

Spec == Init /\ [][Next]_vars

(***************************************************************************)
(* Properties                                                              *)
(***************************************************************************)
Merging(t) == me[t].pc \in {"try left", "take left", "undo left", "try right", "take right",
                            "undo right", "unbin", "unbin right", "probe", "unprobe", "requeue",
                            "push", "place", "mask", "free"}
\* The blocks in a thread's hand: what it merges, the neighbour it has locked
\* but not yet taken in, what it looks at or has found, and its list.
Hand(t) ==
    (IF Merging(t) THEN <<R(t)>> ELSE <<>>)
    \o (IF me[t].pc \in {"take right", "undo right", "unbin right"} THEN <<<<Right(t), me[t].other>>>>
        ELSE IF At(t, "unprobe") THEN <<<<End(R(t)), me[t].other>>>> ELSE <<>>)
    \o (IF Looks(t) \/ "hand out" \in {me[t].pc, me[t].returnTo} \/ me[t].pc \in {"advance", "split"}
        THEN <<me[t].block>> ELSE <<>>)
    \o me[t].list
Has(x, u) == u \in Begin(x) .. End(x) - 1
Owners(u) ==
    Cardinality({x \in Free : Has(x, u)}) + Cardinality({x \in held : Has(x, u)})
    + Cardinality({i \in DOMAIN coalescQ : Has(coalescQ[i], u)})
    + Cardinality(UNION {{<<t, i>> : i \in {j \in DOMAIN Hand(t) : Has(Hand(t)[j], u)}} : t \in Thread})

\* Guarded sizes, bins and counts have their ranges, and blocks in processing
\* are counted exactly: who waits for one to be released does not wait in vain.
TypeOK ==
    /\ myL \in [Address -> LOCKED .. RegionSize] /\ leftL \in [Address -> LOCKED .. RegionSize]
    /\ bitMask \subseteq Bin /\ tLock \in [Bin -> Thread \cup {NULL}]
    /\ regionList \subseteq Region /\ held \subseteq Address \X (1 .. RegionSize)
    /\ active \in 0 .. MaxExtending
    /\ blocksInProcessing = Cardinality({t \in Thread :
          \/ {"put back", "hand out"} \cap {me[t].pc, me[t].returnTo} # {}
          \/ me[t].pc \in {"advance", "split"}})

\* Every unit of memory of every region is in one block: free, with the
\* program, in the queue of delayed blocks, or in one thread's hand.  Blocks
\* are locked one word at a time (backend.cpp:899-983): two threads that merge
\* neighbours at once, or one that merges and one that searches, may not both
\* get a block.
NothingLostOrRepeated ==
    /\ \A r \in regionList : \A u \in FirstOf(r) .. LastOf(r) - 1 : Owners(u) = 1
    /\ \A r \in Region \ regionList : \A u \in FirstOf(r) .. LastOf(r) - 1 : Owners(u) = 0

\* A free block has its size in both headers, but for a moment in which a
\* thread knows of it, and is in the bin it says it is in, and only there; a
\* bin that has blocks is in the mask, or will be in the next step.
StructureSound ==
    /\ \A x \in Free : \/ leftL[End(x)] = Size(x)
                       \/ \E t \in Thread : \/ Merging(t) /\ Begin(F(t)) = End(x)
                                            \/ me[t].pc \in {"free right", "put right"}
                                            \/ Looks(t)
    /\ \A x \in Free : /\ myBin[Begin(x)] = BinOf(x)
                       /\ BinOf(x) # NO_BIN => Begin(x) \in ToSet(freeBins[BinOf(x)])
    /\ \A a \in Address : \A b1, b2 \in Bin :
          \A i \in DOMAIN freeBins[b1], j \in DOMAIN freeBins[b2] :
             freeBins[b1][i] = a /\ freeBins[b2][j] = a => b1 = b2 /\ i = j
    /\ \A x \in held : \A b \in Bin : Begin(x) \notin ToSet(freeBins[b])
    /\ \A b \in Bin : freeBins[b] # <<>> /\ b \notin bitMask =>
          \E t \in Thread : At(t, "mask") /\ myBin[Begin(R(t))] = b

\* Who gives up (backend.cpp:675) has seen a moment, since its last search
\* began, in which no bin had a block for it: not only bins that were locked.
AnswersTrue ==
    \A t \in Thread : At(t, "last chance") /\ Watched =>
        short[t] \/ (me[t].threshold # 0 /\ me[t].numOfLockedBins # 0)
=============================================================================
