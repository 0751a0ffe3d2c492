------------------------------ MODULE MCBackend ------------------------------
(***************************************************************************)
(* Small pools of the backend, side by side: a behaviour works in one of   *)
(* them, the pool, which is chosen at the start.                           *)
(***************************************************************************)
EXTENDS Integers, TLC

CONSTANTS t1, t2, NULL

VARIABLES
    pool,
    myL, leftL, myBin, freeBins, tLock, bitMask, coalescQ, regionList, held,
    blocksInProcessing, active, modified, me, short

\* The same in all
Thread == {t1, t2}
slabSize == 2
largeBlockCacheStep == 1
MaxExtending == 1
NUM_OF_REG == 1
One(num, size, aligned) == [num |-> num, size |-> size, aligned |-> aligned]

\* Fixed pools: of three units, all of which are asked for one by one, without
\* history; with blocks too small for a bin; with aligned requests; and with a
\* program that cleans.
Merge == INSTANCE Backend WITH
    fixedPool <- TRUE, Regions <- 1, RegionSize <- 3, minBinnedSize <- 1, freeBinsNum <- 2,
    Requests <- {One(1, 1, FALSE)}, Commands <- {}, LockedBinsThreshold <- 0, Watched <- FALSE
Binless == INSTANCE Backend WITH
    fixedPool <- TRUE, Regions <- 1, RegionSize <- 4, minBinnedSize <- 2, freeBinsNum <- 1,
    Requests <- {One(1, 2, FALSE), One(1, 3, FALSE)}, Commands <- {}, LockedBinsThreshold <- 0,
    Watched <- TRUE
Aligned == INSTANCE Backend WITH
    fixedPool <- TRUE, Regions <- 1, RegionSize <- 5, minBinnedSize <- 1, freeBinsNum <- 2,
    Requests <- {One(1, 2, TRUE)}, Commands <- {}, LockedBinsThreshold <- 0, Watched <- TRUE
Clean == INSTANCE Backend WITH
    fixedPool <- TRUE, Regions <- 1, RegionSize <- 2, minBinnedSize <- 1, freeBinsNum <- 2,
    Requests <- {One(1, 1, FALSE)}, Commands <- {"clean"}, LockedBinsThreshold <- 0,
    Watched <- TRUE
\* Pools that get regions from the system: one in advance; and one that is
\* split at once into two blocks, and goes when they are merged.
Advance == INSTANCE Backend WITH
    fixedPool <- FALSE, Regions <- 2, RegionSize <- 1, minBinnedSize <- 1, freeBinsNum <- 2,
    Requests <- {One(1, 1, FALSE)}, Commands <- {}, LockedBinsThreshold <- 2, Watched <- TRUE
Release == INSTANCE Backend WITH
    fixedPool <- FALSE, Regions <- 1, RegionSize <- 2, minBinnedSize <- 1, freeBinsNum <- 2,
    Requests <- {One(2, 1, FALSE)}, Commands <- {}, LockedBinsThreshold <- 2, Watched <- TRUE

ASSUME Merge!Assumptions /\ Binless!Assumptions /\ Aligned!Assumptions
ASSUME Clean!Assumptions /\ Advance!Assumptions /\ Release!Assumptions

Init ==
    \/ pool = "merge" /\ Merge!Init
    \/ pool = "binless" /\ Binless!Init
    \/ pool = "aligned" /\ Aligned!Init
    \/ pool = "clean" /\ Clean!Init
    \/ pool = "advance" /\ Advance!Init
    \/ pool = "release" /\ Release!Init

Next ==
    /\ UNCHANGED pool
    /\ \/ pool = "merge" /\ Merge!Next
       \/ pool = "binless" /\ Binless!Next
       \/ pool = "aligned" /\ Aligned!Next
       \/ pool = "clean" /\ Clean!Next
       \/ pool = "advance" /\ Advance!Next
       \/ pool = "release" /\ Release!Next

Spec == Init /\ [][Next]_<<pool, Merge!vars>>

\* The threads play the same part.
ThreadSymmetry == Permutations(Thread)

(***************************************************************************)
(* What the backend promises in each pool; the module says why.            *)
(***************************************************************************)
\* Guarded sizes and bins have their ranges, and blocks in processing are
\* counted exactly: who waits for one does not wait in vain.
TypeOK ==
    /\ pool = "merge" => Merge!TypeOK
    /\ pool = "binless" => Binless!TypeOK
    /\ pool = "aligned" => Aligned!TypeOK
    /\ pool = "clean" => Clean!TypeOK
    /\ pool = "advance" => Advance!TypeOK
    /\ pool = "release" => Release!TypeOK

\* Every unit of memory is in one block: free, with the program, in the queue
\* of delayed blocks, or in one thread's hand.
NothingLostOrRepeated ==
    /\ pool = "merge" => Merge!NothingLostOrRepeated
    /\ pool = "binless" => Binless!NothingLostOrRepeated
    /\ pool = "aligned" => Aligned!NothingLostOrRepeated
    /\ pool = "clean" => Clean!NothingLostOrRepeated
    /\ pool = "advance" => Advance!NothingLostOrRepeated
    /\ pool = "release" => Release!NothingLostOrRepeated

\* A free block has its size in both headers and is in the bin it says it is
\* in, and a bin that has blocks is in the mask.
StructureSound ==
    /\ pool = "merge" => Merge!StructureSound
    /\ pool = "binless" => Binless!StructureSound
    /\ pool = "aligned" => Aligned!StructureSound
    /\ pool = "clean" => Clean!StructureSound
    /\ pool = "advance" => Advance!StructureSound
    /\ pool = "release" => Release!StructureSound

\* Who gives up has seen a moment in which no bin had a block for it.
AnswersTrue ==
    /\ pool = "binless" => Binless!AnswersTrue
    /\ pool = "aligned" => Aligned!AnswersTrue
    /\ pool = "clean" => Clean!AnswersTrue
    /\ pool = "advance" => Advance!AnswersTrue
    /\ pool = "release" => Release!AnswersTrue
=============================================================================
