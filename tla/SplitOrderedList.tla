-------------------------- MODULE SplitOrderedList --------------------------
(***************************************************************************)
(* The split-ordered list under the concurrent unordered containers        *)
(* (src/include/tbb/internal/_concurrent_unordered_impl.h).  All elements  *)
(* are in one linked list, sorted by their hash values with the bits       *)
(* reversed; a bucket points at a dummy node in the list, which is put     *)
(* there when the bucket is first used, starting from its parent bucket.   *)
(* The number of buckets doubles while other threads are at work.          *)
(***************************************************************************)
EXTENDS Integers, Sequences, FiniteSets

CONSTANTS
    Thread, Key,
    Hash,               \* of each key, a word
    Width,              \* the number of bits of a word
    allow_multimapping,
    InitialBuckets, MaxBuckets,     \* bound: the latter
    my_maximum_bucket_size,
    Operations,         \* what threads do
    NULL,
    MaxCalls            \* bound: calls

Assumptions ==
    /\ Hash \in [Key -> 0 .. 2^Width - 1]
    /\ allow_multimapping \in BOOLEAN
    /\ \E e \in 0 .. Width : InitialBuckets = 2^e
    /\ Operations \subseteq {"insert", "find", "equal_range"}
    /\ MaxCalls \in Nat

VARIABLES
    next, order, key,   \* of each node
    my_buckets,         \* the dummy nodes of the buckets
    my_number_of_buckets, my_element_count,
    me,                 \* of each thread: where it is in its call
    calls

vars == <<next, order, key, my_buckets, my_number_of_buckets, my_element_count, me, calls>>
list == <<next, order, key>>
table == <<my_buckets, my_number_of_buckets, my_element_count>>

\* Node 0 is the head; every call makes a node for its key and dummies.
Node == 0 .. MaxCalls + MaxBuckets * Cardinality(Thread)
Bucket == 0 .. MaxBuckets - 1
Dummy == "dummy"

Bit(x, i) == (x \div 2^i) % 2
SumOf[x \in 0 .. 2^Width - 1, i \in 0 .. Width] ==
    IF i = Width THEN 0 ELSE Bit(x, i) * 2^(Width - 1 - i) + SumOf[x, i + 1]
Reverse(x) == SumOf[x, 0]
split_order_key_regular(h) == LET r == Reverse(h) IN IF r % 2 = 0 THEN r + 1 ELSE r
split_order_key_dummy(b) == LET r == Reverse(b) IN r - (r % 2)
msb(b) == CHOOSE e \in 0 .. Width : 2^e <= b /\ b < 2^(e + 1)
get_parent(b) == b - 2^msb(b)

Idle == [pc |-> "idle", op |-> "none", k |-> NULL, bucket |-> 0, todo |-> <<>>,
         it |-> 0, where |-> NULL, node |-> NULL, number |-> 0,
         present |-> FALSE, calm |-> TRUE, result |-> 0]

Init ==
    /\ next = [x \in Node |-> NULL] /\ order = [x \in Node |-> 0]
    /\ key = [x \in Node |-> IF x = 0 THEN Dummy ELSE NULL]
    /\ my_buckets = [b \in Bucket |-> IF b = 0 THEN 0 ELSE NULL]
    /\ my_number_of_buckets = InitialBuckets /\ my_element_count = 0
    /\ me = [t \in Thread |-> Idle]
    /\ calls = 0

Set(f, x, v) == [f EXCEPT ![x] = v]
At(t, pc) == me[t].pc = pc
Becomes(t, new) == me' = [me EXCEPT ![t] = new]
Goto(t, pc) == Becomes(t, [me[t] EXCEPT !.pc = pc])

\* The list from a node on
From[x \in Node \cup {NULL}, n \in 0 .. Cardinality(Node)] ==
    IF x = NULL \/ n = 0 THEN <<>> ELSE <<x>> \o From[next[x], n - 1]
Listed == From[0, Cardinality(Node)]
Occurrences(k) == Cardinality({i \in DOMAIN Listed : key[Listed[i]] = k})

(***************************************************************************)
(* A call finds the bucket of its key, and makes it if need be.            *)
(***************************************************************************)
Start(t) == \E op \in Operations, k \in Key :
    /\ At(t, "idle")
    /\ calls < MaxCalls /\ calls' = calls + 1
    /\ me' = [u \in Thread |->
          IF u = t
          THEN [Idle EXCEPT !.pc = "bucket", !.op = op, !.k = k,
                            !.bucket = Hash[k] % my_number_of_buckets,
                            !.present = Occurrences(k) > 0,
                            !.calm = \A v \in Thread : At(v, "idle") \/ me[v].op # "insert"]
          ELSE [me[u] EXCEPT !.calm = @ /\ op # "insert"]]
    /\ UNCHANGED <<list, table>>

FindBucket(t) ==
    /\ At(t, "bucket")
    /\ LET b == me[t].bucket
       IN  Becomes(t, IF my_buckets[b] # NULL
                      THEN [me[t] EXCEPT !.pc = "walk", !.it = my_buckets[b]]
                      ELSE [me[t] EXCEPT !.pc = "init", !.todo = <<b>>])
    /\ UNCHANGED <<list, table, calls>>

\* create_node, in memory nobody can know
Fresh == CHOOSE x \in Node : key[x] = NULL
Creates(what, key_order, before) ==
    /\ next' = Set(next, Fresh, before)
    /\ order' = Set(order, Fresh, key_order)
    /\ key' = Set(key, Fresh, what)
Destroys(x) == key' = Set(key, x, NULL) /\ next' = Set(next, x, NULL) /\ order' = Set(order, x, 0)

\* init_bucket
InitParent(t) ==
    /\ At(t, "init")
    /\ LET parent == get_parent(Head(me[t].todo))
       IN  /\ my_buckets[parent] = NULL
           /\ Becomes(t, [me[t] EXCEPT !.todo = <<parent>> \o @])
    /\ UNCHANGED <<list, table, calls>>
InitBucket(t) ==
    /\ At(t, "init")
    /\ LET b == Head(me[t].todo)
           parent == get_parent(b)
       IN  /\ my_buckets[parent] # NULL
           /\ Creates(Dummy, split_order_key_dummy(b), NULL)
           /\ Becomes(t, [me[t] EXCEPT !.pc = "walk dummy", !.it = my_buckets[parent],
                                       !.node = Fresh])
    /\ UNCHANGED <<table, calls>>

\* insert_dummy, with try_insert; the end of the list is beyond every node
Order(where) == IF where = NULL THEN 2^Width ELSE order[where]
WalkDummy(t) ==
    /\ At(t, "walk dummy")
    /\ LET where == next[me[t].it]
           mine == order[me[t].node]
       IN  IF Order(where) > mine
           THEN /\ Becomes(t, [me[t] EXCEPT !.pc = "link dummy", !.where = where])
                /\ next' = Set(next, me[t].node, where)
                /\ UNCHANGED <<order, key>>
           ELSE IF Order(where) = mine
           THEN /\ Becomes(t, [me[t] EXCEPT !.pc = "set", !.node = where])
                /\ Destroys(me[t].node)
           ELSE /\ Becomes(t, [me[t] EXCEPT !.it = where])
                /\ UNCHANGED list
    /\ UNCHANGED <<table, calls>>
LinkDummy(t) ==
    /\ At(t, "link dummy")
    /\ IF next[me[t].it] = me[t].where
       THEN Goto(t, "set") /\ next' = Set(next, me[t].it, me[t].node)
       ELSE Goto(t, "walk dummy") /\ UNCHANGED next
    /\ UNCHANGED <<order, key, table, calls>>
SetBucket(t) ==
    /\ At(t, "set")
    /\ my_buckets' = Set(my_buckets, Head(me[t].todo), me[t].node)
    /\ Becomes(t, [me[t] EXCEPT !.todo = Tail(@), !.node = NULL,
                                !.pc = IF Len(me[t].todo) = 1 THEN "bucket" ELSE "init"])
    /\ UNCHANGED <<list, my_number_of_buckets, my_element_count, calls>>

(***************************************************************************)
(* internal_insert, internal_find, internal_equal_range                    *)
(***************************************************************************)
Mine(t) == split_order_key_regular(Hash[me[t].k])
Beyond(t, where) == Order(where) > Mine(t)
Found(t, where) ==
    /\ ~Beyond(t, where) /\ key[where] = me[t].k
    /\ ~(me[t].op = "insert" /\ allow_multimapping)

Returns(t, result) == Becomes(t, [me[t] EXCEPT !.pc = "return", !.result = result])
Walk(t) ==
    /\ At(t, "walk") /\ ~Beyond(t, next[me[t].it]) /\ ~Found(t, next[me[t].it])
    /\ Becomes(t, [me[t] EXCEPT !.it = next[me[t].it]])
    /\ UNCHANGED <<list, table, calls>>
FindNothing(t) ==
    /\ At(t, "walk") /\ Beyond(t, next[me[t].it]) /\ me[t].op # "insert"
    /\ Returns(t, 0)
    /\ UNCHANGED <<list, table, calls>>
Find(t) ==
    /\ At(t, "walk") /\ Found(t, next[me[t].it])
    /\ IF me[t].op = "equal_range"
       THEN Becomes(t, [me[t] EXCEPT !.pc = "range", !.it = next[me[t].it], !.result = 1])
       ELSE Returns(t, 1)
    /\ UNCHANGED <<list, table, calls>>

\* The element is put before the first node that is beyond it.
TryInsert(t) ==
    /\ At(t, "walk") /\ Beyond(t, next[me[t].it]) /\ me[t].op = "insert"
    /\ Creates(me[t].k, Mine(t), next[me[t].it])
    /\ Becomes(t, [me[t] EXCEPT !.pc = "link", !.where = next[me[t].it], !.node = Fresh])
    /\ UNCHANGED <<table, calls>>
\* Mutated form: after a failure the search goes on behind the new neighbour.
LinkSkipping(t) ==
    /\ At(t, "link")
    /\ IF next[me[t].it] = me[t].where
       THEN /\ Goto(t, "count") /\ next' = Set(next, me[t].it, me[t].node)
            /\ UNCHANGED <<order, key>>
       ELSE /\ Becomes(t, [me[t] EXCEPT !.pc = "walk", !.it = next[me[t].it], !.node = NULL])
            /\ Destroys(me[t].node)
    /\ UNCHANGED <<table, calls>>
Link(t) ==
    /\ At(t, "link")
    /\ IF next[me[t].it] = me[t].where
       THEN /\ Goto(t, "count") /\ next' = Set(next, me[t].it, me[t].node)
            /\ UNCHANGED <<order, key>>
       ELSE /\ Becomes(t, [me[t] EXCEPT !.pc = "walk", !.node = NULL])
            /\ Destroys(me[t].node)
    /\ UNCHANGED <<table, calls>>

\* adjust_table_size, with the count before this insertion
Count(t) ==
    /\ At(t, "count")
    /\ my_element_count' = my_element_count + 1
    /\ Becomes(t, [me[t] EXCEPT !.pc = "adjust", !.number = my_element_count])
    /\ UNCHANGED <<list, my_buckets, my_number_of_buckets, calls>>
Adjust(t) ==
    /\ At(t, "adjust")
    /\ IF /\ me[t].number > my_maximum_bucket_size * my_number_of_buckets
          /\ 2 * my_number_of_buckets <= MaxBuckets
       THEN Becomes(t, [me[t] EXCEPT !.pc = "double", !.number = my_number_of_buckets])
       ELSE Returns(t, 0)
    /\ UNCHANGED <<list, table, calls>>
Double(t) ==
    /\ At(t, "double")
    /\ my_number_of_buckets' = IF my_number_of_buckets = me[t].number
                               THEN 2 * me[t].number ELSE my_number_of_buckets
    /\ Returns(t, 0)
    /\ UNCHANGED <<list, my_buckets, my_element_count, calls>>

\* equal_range, and the distance between its ends: from an element to the next,
\* past dummies, while the keys are equal
Range(t) ==
    /\ At(t, "range")
    /\ LET where == next[me[t].it]
       IN  IF where # NULL /\ key[where] = Dummy
           THEN Becomes(t, [me[t] EXCEPT !.it = where])
           ELSE IF allow_multimapping /\ where # NULL /\ key[where] = me[t].k
           THEN Becomes(t, [me[t] EXCEPT !.it = where, !.result = @ + 1])
           ELSE Goto(t, "return")
    /\ UNCHANGED <<list, table, calls>>

Return(t) ==
    /\ At(t, "return") /\ Becomes(t, Idle)
    /\ UNCHANGED <<list, table, calls>>

Next == \E t \in Thread :
    \/ Start(t) \/ FindBucket(t) \/ InitParent(t) \/ InitBucket(t)
    \/ WalkDummy(t) \/ LinkDummy(t) \/ SetBucket(t)
    \/ Walk(t) \/ FindNothing(t) \/ Find(t) \/ TryInsert(t) \/ Link(t)
    \/ Count(t) \/ Adjust(t) \/ Double(t) \/ Range(t) \/ Return(t)

Spec == Init /\ [][Next]_vars

(***************************************************************************)
(* Properties.                                                             *)
(***************************************************************************)
\* The list is sorted; a bucket points at its one dummy node, and every
\* element can be reached from its bucket, however many buckets there are.
Sizes == {n \in 1 .. MaxBuckets : n % InitialBuckets = 0 /\ \E e \in 0 .. Width : n = 2^e}
ListSound ==
    /\ \A i \in 1 .. Len(Listed) - 1 : order[Listed[i]] <= order[Listed[i + 1]]
    /\ \A i, j \in DOMAIN Listed :
        i # j /\ key[Listed[i]] = Dummy => order[Listed[i]] # order[Listed[j]]
    /\ \A b \in Bucket : my_buckets[b] # NULL =>
        /\ key[my_buckets[b]] = Dummy
        /\ order[my_buckets[b]] = split_order_key_dummy(b)
        /\ \E i \in DOMAIN Listed : Listed[i] = my_buckets[b]
    /\ \A i \in DOMAIN Listed : key[Listed[i]] # Dummy =>
        \A n \in Sizes : LET b == Hash[key[Listed[i]]] % n
                         IN  my_buckets[b] # NULL => \E j \in 1 .. i : Listed[j] = my_buckets[b]

\* A set has a key once; a call says that a key is there only if it is, and
\* that it is not only if it was not when the call began.
AnswersTrue ==
    /\ ~allow_multimapping => \A k \in Key : Occurrences(k) <= 1
    /\ \A t \in Thread : At(t, "return") =>
        /\ me[t].result > 0 => Occurrences(me[t].k) > 0
        /\ me[t].result = 0 /\ (me[t].op # "insert" \/ ~allow_multimapping) => ~me[t].present

\* Every insertion that has succeeded is counted once.
CountRight ==
    (\A t \in Thread : At(t, "idle")) =>
        my_element_count = Cardinality({i \in DOMAIN Listed : key[Listed[i]] # Dummy})

\* The range of the elements with a key holds all of them.
RangeWhole ==
    \A t \in Thread : At(t, "return") /\ me[t].op = "equal_range" /\ me[t].calm =>
        me[t].result = Occurrences(me[t].k)
=============================================================================
