------------------------------ MODULE HashMap ------------------------------
(***************************************************************************)
(* concurrent_hash_map (src/include/tbb/concurrent_hash_map.h): lookups,   *)
(* insertions and erasures by key and by accessor, while the table grows   *)
(* and buckets are rehashed one by one, each when it is first visited.     *)
(*                                                                         *)
(* What a thread does to a bucket between acquiring and releasing its lock *)
(* is split where it reads the mask or may wait.  The table grows by the   *)
(* masks of Masks, each one less than a power of two; new buckets wait to  *)
(* be rehashed.  The order of the nodes in a bucket is left out, and so is *)
(* that a waiting writer keeps new readers out.                            *)
(***************************************************************************)
EXTENDS Integers, FiniteSets, Sequences

CONSTANTS
    Thread, Node, Key, NULL,
    Hash,           \* the hash code of each key
    Masks,          \* the masks the table goes through
    MaxCalls        \* bound: operations in all

Assumptions ==
    /\ Hash \in [Key -> Nat]
    /\ Masks \in Seq(Nat) /\ Len(Masks) > 0 /\ Masks[1] = 1
    /\ MaxCalls \in Nat
    /\ NULL \notin Thread \cup Node

Bucket == 0 .. Masks[Len(Masks)]

VARIABLES
    my_mask, allocating,    \* and whether a thread enables the next segment
    my_size,
    rehashed,               \* the buckets whose node_list is not rehash_req
    nodes,                  \* the nodes of each bucket
    lock,                   \* of each bucket: [readers, writer, upgrade]
    key,                    \* of each node, NULL when it is not allocated
    item,                   \* the lock of each node: [readers, writer]
    pc, calls,
    op, k,                  \* local: the operation and its key
    m,                      \* local: the mask a thread has read
    chain,                  \* local: the buckets it is rehashing, outermost first
    b,                      \* local: the bucket it wants or has locked
    n,                      \* local: the node it has found
    accessor,               \* the node a thread holds by an accessor
    was, wasnt,             \* ghost: the key was, was not in the map since the call
    truthful                \* ghost: no call has returned an answer that never held

table == <<my_mask, allocating, my_size, rehashed, nodes>>
local == <<op, k, m, chain, b, n>>
ghost == <<was, wasnt, truthful>>
vars == <<table, lock, key, item, pc, calls, local, accessor, ghost>>

Free == [readers |-> {}, writer |-> NULL, upgrade |-> NULL]

Init ==
    /\ my_mask = Masks[1] /\ allocating = FALSE /\ my_size = 0
    /\ rehashed = 0 .. Masks[1]
    /\ nodes = [x \in Bucket |-> {}]
    /\ lock = [x \in Bucket |-> Free]
    /\ key = [x \in Node |-> NULL]
    /\ item = [x \in Node |-> Free]
    /\ pc = [t \in Thread |-> "idle"] /\ calls = 0
    /\ op = [t \in Thread |-> "none"] /\ k = [t \in Thread |-> NULL]
    /\ m = [t \in Thread |-> 0] /\ b = [t \in Thread |-> 0]
    /\ chain = [t \in Thread |-> <<>>]
    /\ n = [t \in Thread |-> NULL]
    /\ accessor = [t \in Thread |-> NULL]
    /\ was = [t \in Thread |-> FALSE] /\ wasnt = [t \in Thread |-> FALSE]
    /\ truthful = TRUE

(***************************************************************************)
(* Hash codes and masks.                                                   *)
(***************************************************************************)
And(h, mask) == h % (mask + 1)
TopBit(x) == CHOOSE p \in {2^i : i \in 0 .. 10} : p <= x /\ x < 2 * p
Parent(x) == x % TopBit(x)
BelongsTo(h, x) == h % (2 * TopBit(x)) = x

\* check_rehashing_collision: the bucket of h under the next mask that makes
\* a difference has been rehashed.
NextBucket(h, mask) ==
    LET bits == {p \in {2^i : i \in 0 .. 10} : p > mask /\ (h \div p) % 2 = 1}
        first == CHOOSE p \in bits : \A q \in bits : p <= q
    IN  h % (2 * first)
\* Mutated form: the bucket under the final mask, instead of the next one.
LastBucketCollision(h, mask) ==
    /\ mask # my_mask
    /\ And(h, mask) # And(h, my_mask)
    /\ And(h, my_mask) \in rehashed
Collision(h, mask) ==
    /\ mask # my_mask
    /\ And(h, mask) # And(h, my_mask)
    /\ NextBucket(h, mask) \in rehashed

(***************************************************************************)
(* Steps.                                                                  *)
(***************************************************************************)
HashOf(t) == Hash[k[t]]
Set(f, x, v) == [f EXCEPT ![x] = v]
Goto(t, from, to) == pc[t] = from /\ pc' = Set(pc, t, to)

Listed == UNION {nodes[c] : c \in Bucket}
InMap(x) == \E y \in Listed : key[y] = x
Writes(t, c) == lock[c].writer = t
Released(t, c) == [lock EXCEPT ![c].readers = @ \ {t}, ![c].writer = IF @ = t THEN NULL ELSE @]
Unheld(l) == l.readers = {} /\ l.writer = NULL

Begin(t, o, x) ==
    /\ calls < MaxCalls /\ calls' = calls + 1
    /\ Goto(t, "idle", "peek")
    /\ op' = Set(op, t, o) /\ k' = Set(k, t, x)
    /\ m' = Set(m, t, my_mask)
    /\ b' = Set(b, t, And(Hash[x], my_mask))
    /\ was' = Set(was, t, InMap(x)) /\ wasnt' = Set(wasnt, t, ~InMap(x))
    /\ UNCHANGED <<table, lock, key, item, chain, accessor, truthful>>

\* find and count, insert, erase by key; erase by accessor.
Call(t) ==
    /\ accessor[t] = NULL
    /\ \E x \in Key, o \in {"find", "count", "insert", "erase"} : Begin(t, o, x)
    /\ n' = Set(n, t, NULL)
CallExclude(t) ==
    /\ accessor[t] # NULL
    /\ Begin(t, "exclude", key[accessor[t]])
    /\ n' = Set(n, t, accessor[t])

\* The answer of a call, which resets its locals.
Forget(t) ==
    /\ op' = Set(op, t, "none") /\ k' = Set(k, t, NULL) /\ n' = Set(n, t, NULL)
    /\ m' = Set(m, t, 0) /\ b' = Set(b, t, 0)
    /\ UNCHANGED <<chain, calls>>
Return(t, holds) ==
    /\ pc' = Set(pc, t, "idle")
    /\ Forget(t)
    /\ was' = Set(was, t, FALSE) /\ wasnt' = Set(wasnt, t, FALSE)
    /\ truthful' = (truthful /\ holds)

ReleaseItem(t) ==
    /\ pc[t] = "idle" /\ accessor[t] # NULL
    /\ item' = [item EXCEPT ![accessor[t]].readers = @ \ {t},
                            ![accessor[t]].writer = IF @ = t THEN NULL ELSE @]
    /\ accessor' = Set(accessor, t, NULL)
    /\ UNCHANGED <<table, lock, key, pc, calls, local, ghost>>

\* bucket_accessor::acquire: an unrehashed bucket is locked by a writer that
\* rehashes it, if it can be locked at once.
Peek(t) ==
    /\ Goto(t, "peek", IF b[t] \in rehashed THEN "lock" ELSE "try")
    /\ UNCHANGED <<table, lock, key, item, calls, local, accessor, ghost>>

Locked(t) == IF chain[t] = <<>> THEN "search" ELSE "move"

Try(t) ==
    /\ IF Unheld(lock[b[t]])
       THEN /\ lock' = [lock EXCEPT ![b[t]].writer = t]
            /\ IF b[t] \in rehashed
               THEN Goto(t, "try", Locked(t)) /\ UNCHANGED <<rehashed, chain, b>>
               ELSE /\ Goto(t, "try", "peek")
                    /\ rehashed' = rehashed \cup {b[t]}
                    /\ chain' = Set(chain, t, Append(chain[t], b[t]))
                    /\ b' = Set(b, t, Parent(b[t]))
       ELSE Goto(t, "try", "lock") /\ UNCHANGED <<lock, rehashed, chain, b>>
    /\ UNCHANGED <<my_mask, allocating, my_size, nodes, key, item, calls, op, k, m, n,
                   accessor, ghost>>

ReadLock(t) == /\ lock[b[t]].writer = NULL /\ lock[b[t]].upgrade = NULL
               /\ lock' = [lock EXCEPT ![b[t]].readers = @ \cup {t}]
WriteLock(t) == /\ Unheld(lock[b[t]])
                /\ lock' = [lock EXCEPT ![b[t]].writer = t]

Lock(t) ==
    /\ Goto(t, "lock", Locked(t))
    /\ IF op[t] = "exclude" /\ chain[t] = <<>> THEN WriteLock(t) ELSE ReadLock(t)
    /\ UNCHANGED <<table, key, item, calls, local, accessor, ghost>>

\* rehash_bucket: the nodes that belong to the new bucket leave its parent.
Innermost(t) == chain[t][Len(chain[t])]
Moving(t) == {y \in nodes[b[t]] : BelongsTo(Hash[key[y]], Innermost(t))}

Move(t) ==
    /\ pc[t] = "move"
    /\ Moving(t) = {} \/ Writes(t, b[t])
    /\ lock' = Released(t, b[t])
    /\ nodes' = [nodes EXCEPT ![b[t]] = @ \ Moving(t), ![Innermost(t)] = @ \cup Moving(t)]
    /\ b' = Set(b, t, Innermost(t))
    /\ chain' = Set(chain, t, SubSeq(chain[t], 1, Len(chain[t]) - 1))
    /\ pc' = Set(pc, t, IF Len(chain[t]) = 1 THEN "search" ELSE "move")
    /\ UNCHANGED <<my_mask, allocating, my_size, rehashed, key, item, calls, op, k, m, n,
                   accessor, ghost>>

WriterWaits(c) == \E u \in Thread :
    /\ b[u] = c
    /\ pc[u] \in {"relock", "relockMove"} \/ (pc[u] = "lock" /\ op[u] = "exclude")

\* upgrade_to_writer: the first to ask waits for the other readers; another
\* gives up its lock, waits for its turn as a writer, and looks again.
Upgrade(t) ==
    /\ lock[b[t]].upgrade = NULL
    /\ lock' = [lock EXCEPT ![b[t]].upgrade = t]
YieldLock(t) ==
    /\ \/ lock[b[t]].upgrade # NULL
       \/ lock[b[t]].readers # {t} /\ WriterWaits(b[t])
    /\ lock' = [lock EXCEPT ![b[t]].readers = @ \ {t}]
NeedsWriter(t) ==
    \/ pc[t] = "move" /\ Moving(t) # {} /\ ~Writes(t, b[t])
    \/ pc[t] = "modify" /\ ~Writes(t, b[t])

BeginUpgrade(t) ==
    /\ NeedsWriter(t) /\ Upgrade(t)
    /\ Goto(t, pc[t], IF pc[t] = "move" THEN "upgradeMove" ELSE "upgrade")
    /\ UNCHANGED <<table, key, item, calls, local, accessor, ghost>>
LoseUpgrade(t) ==
    /\ NeedsWriter(t) /\ YieldLock(t)
    /\ Goto(t, pc[t], IF pc[t] = "move" THEN "relockMove" ELSE "relock")
    /\ UNCHANGED <<table, key, item, calls, local, accessor, ghost>>
EndUpgrade(t) ==
    /\ lock[b[t]].readers = {t}
    /\ lock' = [lock EXCEPT ![b[t]] = [readers |-> {}, writer |-> t, upgrade |-> NULL]]
    /\ \/ Goto(t, "upgradeMove", "move")
       \/ Goto(t, "upgrade", "modify")
    /\ UNCHANGED <<table, key, item, calls, local, accessor, ghost>>
Relock(t) ==
    /\ WriteLock(t)
    /\ \/ Goto(t, "relockMove", "move")
       \/ Goto(t, "relock", "again")
    /\ UNCHANGED <<table, key, item, calls, local, accessor, ghost>>

\* search_bucket
Found(t) == IF op[t] = "exclude" THEN nodes[b[t]] \cap {n[t]}
            ELSE {y \in nodes[b[t]] : key[y] = k[t]}
Search(t) ==
    /\ pc[t] = "search"
    /\ IF Found(t) = {}
       THEN /\ pc' = Set(pc, t, IF op[t] = "insert" THEN "modify" ELSE "check")
            /\ UNCHANGED n
       ELSE /\ pc' = Set(pc, t, IF op[t] \in {"erase", "exclude"} THEN "modify" ELSE "found")
            /\ \E y \in Found(t) : n' = Set(n, t, y)
    /\ UNCHANGED <<table, lock, key, item, calls, op, k, m, chain, b, accessor, ghost>>

Restart(t) ==
    /\ pc' = Set(pc, t, "peek")
    /\ m' = Set(m, t, my_mask)
    /\ b' = Set(b, t, And(HashOf(t), my_mask))
    /\ n' = Set(n, t, IF op[t] = "exclude" THEN n[t] ELSE NULL)
    /\ lock' = Released(t, b[t])
    /\ UNCHANGED <<table, key, item, calls, op, k, chain, accessor, ghost>>

\* An insertion that has lost the upgrade searches again, and holds the lock
\* as a reader when it finds the key.
\* Mutated form: it inserts as if nobody had been there meanwhile.
TrustTheUpgrade(t) ==
    /\ Goto(t, "again", "modify")
    /\ UNCHANGED <<table, lock, key, item, calls, local, accessor, ghost>>
SearchAgain(t) ==
    /\ pc[t] = "again" /\ op[t] = "insert"
    /\ IF Found(t) = {}
       THEN Goto(t, "again", "modify") /\ UNCHANGED <<lock, n>>
       ELSE /\ Goto(t, "again", "found")
            /\ \E y \in Found(t) : n' = Set(n, t, y)
            /\ lock' = [lock EXCEPT ![b[t]].writer = NULL, ![b[t]].readers = {t}]
    /\ UNCHANGED <<table, key, item, calls, op, k, m, chain, b, accessor, ghost>>

\* An erasure checks the mask before it searches again.
EraseAgain(t) ==
    /\ pc[t] = "again" /\ op[t] = "erase"
    /\ \/ Collision(HashOf(t), m[t]) /\ Restart(t)
       \/ /\ ~Collision(HashOf(t), m[t])
          /\ pc' = Set(pc, t, "search")
          /\ m' = Set(m, t, my_mask) /\ n' = Set(n, t, NULL)
          /\ UNCHANGED <<table, lock, key, item, calls, op, k, chain, b, accessor, ghost>>

\* check_mask_race after a search in vain
CheckRace(t) ==
    /\ pc[t] = "check"
    /\ Collision(HashOf(t), m[t])
    /\ Restart(t)
NotFound(t) ==
    /\ pc[t] = "check" /\ ~Collision(HashOf(t), m[t])
    /\ lock' = Released(t, b[t])
    /\ IF op[t] = "exclude"
       THEN /\ item' = [item EXCEPT ![n[t]].readers = @ \ {t},
                                    ![n[t]].writer = IF @ = t THEN NULL ELSE @]
            /\ accessor' = Set(accessor, t, NULL)
       ELSE UNCHANGED <<item, accessor>>
    /\ Return(t, IF op[t] = "exclude" THEN n[t] \notin Listed ELSE wasnt[t])
    /\ UNCHANGED <<table, key>>
Present(t) ==
    /\ pc[t] = "found" /\ op[t] \in {"count", "insert"}
    /\ lock' = Released(t, b[t])
    /\ Return(t, was[t])
    /\ UNCHANGED <<table, key, item, accessor>>

\* The item is locked under the bucket's lock; when that takes too long, the
\* operation starts again.
LockItem(t) ==
    /\ pc[t] = "found" /\ op[t] \in {"find", "insert"}
    /\ \/ /\ item[n[t]].writer = NULL
          /\ item' = [item EXCEPT ![n[t]].readers = @ \cup {t}]
       \/ /\ Unheld(item[n[t]])
          /\ item' = [item EXCEPT ![n[t]].writer = t]
    /\ lock' = Released(t, b[t])
    /\ accessor' = Set(accessor, t, n[t])
    /\ Return(t, was[t])
    /\ UNCHANGED <<table, key>>
BackOff(t) ==
    /\ pc[t] = "found" /\ op[t] \in {"find", "insert"} /\ ~Unheld(item[n[t]])
    /\ Restart(t)

(***************************************************************************)
(* Insertion, which checks the mask first, and growth.                     *)
(***************************************************************************)
CheckInsert(t) ==
    /\ pc[t] = "modify" /\ op[t] = "insert" /\ Writes(t, b[t])
    /\ \/ Collision(HashOf(t), m[t]) /\ Restart(t)
       \/ /\ ~Collision(HashOf(t), m[t])
          /\ pc' = Set(pc, t, "add") /\ m' = Set(m, t, my_mask)
          /\ UNCHANGED <<table, lock, key, item, calls, op, k, chain, b, n, accessor, ghost>>

Grows(t) == my_size + 1 >= m[t] /\ m[t] = my_mask /\ ~allocating
            /\ my_mask # Masks[Len(Masks)]

\* insert_new_node; the caller may want an accessor to the new item.
Add(t) ==
    /\ pc[t] = "add"
    /\ \E y \in Node :
        /\ key[y] = NULL
        /\ key' = Set(key, y, k[t])
        /\ nodes' = [nodes EXCEPT ![b[t]] = @ \cup {y}]
        /\ \/ UNCHANGED <<item, accessor>>
           \/ item' = [item EXCEPT ![y].writer = t] /\ accessor' = Set(accessor, t, y)
           \/ item' = [item EXCEPT ![y].readers = {t}] /\ accessor' = Set(accessor, t, y)
    /\ my_size' = my_size + 1
    /\ allocating' = (allocating \/ Grows(t))
    /\ was' = [u \in Thread |-> u # t /\ (was[u] \/ k[u] = k[t])]
    /\ wasnt' = Set(wasnt, t, FALSE)
    /\ lock' = Released(t, b[t])
    /\ pc' = Set(pc, t, IF Grows(t) THEN "grow" ELSE "idle")
    /\ Forget(t)
    /\ UNCHANGED <<my_mask, rehashed, truthful>>

\* enable_segment, which may fail to allocate the buckets
EnableSegment(t) ==
    /\ Goto(t, "grow", "idle")
    /\ allocating' = FALSE
    /\ \/ my_mask' = Masks[1 + (CHOOSE i \in DOMAIN Masks : Masks[i] = my_mask)]
       \/ UNCHANGED my_mask
    /\ UNCHANGED <<my_size, rehashed, nodes, lock, key, item, calls, local, accessor, ghost>>

(***************************************************************************)
(* Erasure: the node is deleted when no accessor has it.                   *)
(***************************************************************************)
Remove(t) ==
    /\ pc[t] = "modify" /\ op[t] \in {"erase", "exclude"} /\ Writes(t, b[t])
    /\ nodes' = [nodes EXCEPT ![b[t]] = @ \ {n[t]}]
    /\ my_size' = my_size - 1
    /\ wasnt' = [u \in Thread |-> wasnt[u] \/ (k[u] = k[t] /\ u # t)]
    /\ lock' = Released(t, b[t])
    /\ pc' = Set(pc, t, "delete")
    /\ UNCHANGED <<my_mask, allocating, rehashed, key, item, calls, local, accessor,
                   was, truthful>>

OnlyMine(t) == item[n[t]].readers \subseteq {t} /\ item[n[t]].writer \in {t, NULL}
Deleted(t) ==
    /\ pc[t] = "delete"
    /\ key' = Set(key, n[t], NULL)
    /\ item' = Set(item, n[t], Free)
    /\ accessor' = Set(accessor, t, NULL)
    /\ Return(t, TRUE)
    /\ UNCHANGED <<table, lock>>
Delete(t) == pc[t] = "delete" /\ OnlyMine(t) /\ Deleted(t)

Step(t) ==
    \/ Call(t) \/ CallExclude(t) \/ ReleaseItem(t)
    \/ Peek(t) \/ Try(t) \/ Lock(t) \/ Move(t)
    \/ BeginUpgrade(t) \/ LoseUpgrade(t) \/ EndUpgrade(t) \/ Relock(t)
    \/ SearchAgain(t) \/ EraseAgain(t)
    \/ Search(t) \/ CheckRace(t) \/ NotFound(t) \/ Present(t) \/ LockItem(t) \/ BackOff(t)
    \/ CheckInsert(t) \/ Add(t) \/ EnableSegment(t) \/ Remove(t) \/ Delete(t)

Next == \E t \in Thread : Step(t)
Spec == Init /\ [][Next]_vars

(***************************************************************************)
(* Properties.                                                             *)
(***************************************************************************)
TypeOK ==
    /\ my_mask \in {Masks[i] : i \in DOMAIN Masks} /\ my_size \in Nat
    /\ rehashed \subseteq Bucket
    /\ \A c \in Bucket : nodes[c] \subseteq Node /\ lock[c].readers \subseteq Thread
    /\ \A t \in Thread : m[t] <= my_mask /\ b[t] \in 0 .. my_mask

\* A key is in the map at most once, and the number of nodes is the size when
\* nobody modifies the map.
NoDuplicate ==
    /\ \A x, y \in Listed : key[x] = key[y] => x = y
    /\ Cardinality(Listed) = my_size

\* Whatever the growth and the rehashing do meanwhile, a call that says a key
\* is absent has seen a moment when it was, and one that says it is present,
\* a moment when it was.
AnswersTrue == truthful

\* A node held by an accessor or used by a search is not deleted, and a
\* bucket that somebody has locked has been rehashed.
NothingDangling ==
    /\ \A t \in Thread : accessor[t] # NULL => key[accessor[t]] # NULL
    /\ \A t \in Thread : pc[t] \in {"found", "modify", "delete"} /\ n[t] # NULL
            => key[n[t]] # NULL
    /\ \A y \in Listed : key[y] # NULL
    /\ \A c \in Bucket : ~Unheld(lock[c]) => c \in rehashed

\* Threads wait for the locks of buckets and items, but not in a circle.
NoDeadlock ==
    \/ \A t \in Thread : pc[t] = "idle"
    \/ ENABLED (\E t \in Thread : pc[t] # "idle" /\ Step(t))
    \/ \E t \in Thread : pc[t] = "idle" /\ accessor[t] # NULL
=============================================================================
