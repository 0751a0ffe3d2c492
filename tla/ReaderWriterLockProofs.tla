----------------------- MODULE ReaderWriterLockProofs -----------------------
(***************************************************************************)
(* A writer of reader_writer_lock (ReaderWriterLock) has the lock alone,   *)
(* nobody touches a node that is gone, and the threads never all wait for  *)
(* one another, for any number of threads.                                 *)
(*                                                                         *)
(* The invariant has four parts.  Queue: at most one writer has its turn,  *)
(* and it and those behind it are linked, each node to one other.  List:   *)
(* each waiting reader is referred to by one pointer.  Count: the count is *)
(* that of the readers inside, of those about to be woken, and of those    *)
(* that tried and are about to give up.  Door: the flags, as the writer    *)
(* whose turn it is and the reader that lets a group in have set them,     *)
(* keep each other out.  A second invariant, Live, says of each thread     *)
(* that waits who will see to it.                                          *)
(***************************************************************************)
EXTENDS ReaderWriterLock, SumTheorems, FiniteSets, FiniteSetTheorems, TLAPS

SetNext == {"set_head", "try_flags", "or_flag1", "await_flag2", "or_flag2", "await_readers",
            "activate"}
Leave == {"next_writer", "pass_on", "clear_flags", "clear_head", "clear_tail", "await_next"}
Opens == {"unblock", "look_flag1", "look_flag2", "tell_writer", "take_list"}
LetIn == Opens \cup {"wake_head"}
PC == SetNext \cup Leave \cup LetIn \cup
      {"idle", "link", "tried", "wait_write", "writing", "delete",
       "or_rflag", "wait_read", "count_next", "wake_next", "reading", "take_back"}
Node == Thread \cup {NULL}
Local == [pc : PC, I : Node, W : Node,
          return : {"idle", "wait_write", "tried", "delete", "wait_read", "clear_head"}]

TypeOK ==
    /\ rdr \in [count : Nat, WFLAG1 : BOOLEAN, WFLAG2 : BOOLEAN, RFLAG : BOOLEAN]
    /\ reader_head \in Node /\ writer_head \in Node /\ writer_tail \in Node
    /\ my_current_writer \in Node
    /\ status \in [Thread -> {"invalid", "waiting", "waiting_nonblocking", "active"}]
    /\ next \in [Thread -> Node]
    /\ me \in [Thread -> Local]

(***************************************************************************)
(* Queue.                                                                  *)
(***************************************************************************)
Active(t) == status[t] = "active"
\* A writer on its way out lets readers in.
Ends(t) == me[t].pc \in LetIn /\ me[t].return = "clear_head"
\* t has handed its turn on: it is serving the next writer.
Serves(t) == me[t].pc \in SetNext /\ me[t].return = "delete"

HasTurn(t) ==
    \/ me[t].pc \in SetNext \cup Leave \cup {"tried", "writing"}
    \/ me[t].pc = "wait_write" /\ Active(t)
    \/ Ends(t)
InQueue(t) ==
    \/ me[t].pc \in Leave \cup {"link", "wait_write", "tried", "writing"}
    \/ me[t].pc \in SetNext /\ ~Serves(t)
    \/ Ends(t)
Waits(t) == t \in Thread /\ me[t].pc = "wait_write" /\ status[t] = "waiting"

Turns ==
    /\ \A t, u \in Thread : HasTurn(t) /\ HasTurn(u) => t = u
    /\ writer_tail = NULL => \A t \in Thread : ~HasTurn(t)

\* What a thread knows in a function of the writers
Knows(t) ==
    /\ HasTurn(t) \/ me[t].pc \in {"link", "wait_write", "delete"} => me[t].I = t
    /\ InQueue(t) \/ Serves(t) \/ me[t].pc = "delete" => status[t] # "invalid"
    /\ me[t].pc \in SetNext =>
        \/ me[t].return = "wait_write" /\ me[t].W = t /\ status[t] = "waiting"
        \/ /\ me[t].return = "tried" /\ me[t].W = t /\ status[t] = "waiting_nonblocking"
           /\ me[t].pc \in {"set_head", "try_flags"}
        \/ me[t].return = "delete" /\ Waits(me[t].W)
    /\ me[t].pc = "try_flags" => me[t].return = "tried"
    /\ me[t].pc = "tried" => status[t] \in {"waiting_nonblocking", "active"}
    /\ me[t].pc = "wait_write" => status[t] \in {"waiting", "active"}
    /\ me[t].pc = "link" => status[t] = "waiting"
    /\ me[t].pc \in LetIn => me[t].return \in {"wait_read", "clear_head"}
    /\ me[t].pc = "writing" <=> my_current_writer = t
Writers == \A t \in Thread : Knows(t)

\* writer_head is the node whose turn it is, or the next one's already.
AtHead ==
    /\ \A t \in Thread :
        /\ me[t].pc \in SetNext \ {"set_head"} => writer_head = me[t].W
        /\ me[t].pc \in {"tried", "writing", "next_writer"} => writer_head = t
        /\ me[t].pc = "wait_write" /\ Active(t) => writer_head = t
        /\ me[t].pc = "pass_on" => writer_head = next[t] /\ writer_head # NULL
    /\ writer_head # NULL => \E t \in Thread :
        /\ HasTurn(t)
        /\ \/ writer_head = t /\ me[t].pc \notin {"clear_tail", "await_next"}
           \/ writer_head = me[t].W /\ me[t].pc \in SetNext
           \/ me[t].pc = "pass_on"

Linked ==
    /\ writer_tail # NULL =>
        /\ InQueue(writer_tail) /\ next[writer_tail] = NULL
        /\ \A t \in Thread : me[t].pc = "link" => me[t].W # writer_tail
    /\ \A t \in Thread : me[t].pc = "link" =>
        me[t].W \in Thread /\ InQueue(me[t].W) /\ next[me[t].W] = NULL
    /\ \A t \in Thread : InQueue(t) /\ next[t] # NULL =>
        Waits(next[t]) /\ \A u \in Thread : Serves(u) => me[u].W # next[t]
    /\ \A t, u \in Thread :
        /\ InQueue(t) /\ InQueue(u) /\ next[t] = next[u] /\ next[t] # NULL => t = u
        /\ me[t].pc = "link" /\ me[u].pc = "link" /\ me[t].W = me[u].W => t = u

Queue == Turns /\ Writers /\ AtHead /\ Linked

(***************************************************************************)
(* List.                                                                   *)
(***************************************************************************)
\* t has to wait for a reader that wakes it.
Reads(t) ==
    \/ me[t].pc \in {"or_rflag", "wait_read"}
    \/ me[t].pc \in LetIn /\ me[t].return = "wait_read"
Expects(t) == t \in Thread /\ Reads(t) /\ status[t] = "waiting"
\* t refers to the reader that it is to wake.
Refers(t) == Reads(t) \/ me[t].pc \in {"count_next", "wake_next"}

List ==
    /\ \A t \in Thread : Reads(t) => status[t] \in {"waiting", "active"}
    /\ \A t \in Thread : me[t].pc \in {"count_next", "wake_next"} =>
        next[t] # NULL /\ status[t] = "active"
    /\ reader_head # NULL => Expects(reader_head)
    /\ \A t \in Thread : me[t].pc = "wake_head" =>
        Expects(me[t].W) /\ me[t].W # reader_head
    /\ \A t \in Thread : Refers(t) /\ next[t] # NULL =>
        Expects(next[t]) /\ next[t] # reader_head
    /\ \A t, u \in Thread :
        /\ me[t].pc = "wake_head" /\ me[u].pc = "wake_head" /\ me[t].W = me[u].W => t = u
        /\ me[t].pc = "wake_head" /\ Refers(u) => me[t].W # next[u]
        /\ Refers(t) /\ Refers(u) /\ next[t] = next[u] /\ next[t] # NULL => t = u

\* One thread at most is to let the group of readers in: its first reader, or
\* the writer that finds RFLAG when it leaves.
First(t) == me[t].pc \in {"or_rflag"} \cup Opens
Group ==
    /\ \A t \in Thread : me[t].pc = "or_rflag" => me[t].return = "wait_read"
    /\ \A t, u \in Thread : First(t) /\ First(u) => t = u
    /\ rdr.RFLAG => \A t \in Thread : First(t) => me[t].pc = "unblock"
    /\ reader_head = NULL => ~rdr.RFLAG /\ \A t \in Thread : ~First(t)

(***************************************************************************)
(* Count.                                                                  *)
(***************************************************************************)
Owns(t) ==
    \/ Reads(t) /\ Active(t)
    \/ me[t].pc \in {"count_next", "wake_next", "reading", "take_back"}
\* t has counted a reader that it has not woken yet.
Counts(t) == me[t].pc \in {"wake_next"} \cup (LetIn \ {"unblock"})

Count ==
    /\ IsFiniteSet({t \in Thread : Owns(t)}) /\ IsFiniteSet({t \in Thread : Counts(t)})
    /\ rdr.count = Cardinality({t \in Thread : Owns(t)}) + Cardinality({t \in Thread : Counts(t)})

(***************************************************************************)
(* Door.                                                                   *)
(***************************************************************************)
Granted(t) ==
    \/ me[t].pc \in {"activate", "writing", "next_writer", "pass_on", "clear_flags"}
    \/ me[t].pc \in {"tried", "wait_write"} /\ Active(t)
Shuts(t) == Granted(t) \/ me[t].pc \in {"await_flag2", "or_flag2", "await_readers"}
Inside(t) == Counts(t) \/ (Owns(t) /\ me[t].pc # "take_back")

Door ==
    /\ \A t \in Thread : Shuts(t) => rdr.WFLAG1
    /\ \A t \in Thread : me[t].pc = "unblock" =>
        /\ rdr.RFLAG /\ ~rdr.WFLAG2
        /\ \A u \in Thread : ~Granted(u) /\ me[u].pc \notin {"or_flag2", "await_readers"}
    /\ \A t, u \in Thread : ~(Granted(t) /\ Inside(u))

Inv == TypeOK /\ Queue /\ List /\ Group /\ Count /\ Door

(***************************************************************************)
(* Steps of a thread.                                                      *)
(***************************************************************************)
Others(t) == \A u \in Thread : u # t => me'[u] = me[u]

LEMMA GotoStep ==
  ASSUME TypeOK, NEW t \in Thread, NEW from, NEW to \in PC, Goto(t, from, to)
  PROVE  /\ me[t].pc = from /\ me'[t].pc = to
         /\ me'[t].I = me[t].I /\ me'[t].W = me[t].W /\ me'[t].return = me[t].return
         /\ Others(t) /\ me' \in [Thread -> Local]
<1>1. me[t].pc = from /\ me' = [me EXCEPT ![t].pc = to] /\ me \in [Thread -> Local]
  BY DEF Goto, At, TypeOK
<1>2. me[t] \in Local /\ me'[t] = [me[t] EXCEPT !.pc = to] /\ Others(t)
  BY <1>1 DEF Others
<1>3. me'[t] \in Local
  BY <1>2 DEF Local
<1>4. me' \in [Thread -> Local]
  BY <1>1, <1>2, <1>3 DEF Others
<1> QED
  BY <1>1, <1>2, <1>4 DEF Local

LEMMA CallStep ==
  ASSUME TypeOK, NEW t \in Thread, NEW from, NEW to \in PC, NEW w \in Node,
         NEW back \in {"delete", "clear_head"}, CallWith(t, from, to, w, back)
  PROVE  /\ me[t].pc = from /\ me'[t].pc = to
         /\ me'[t].I = me[t].I /\ me'[t].W = w /\ me'[t].return = back
         /\ Others(t) /\ me' \in [Thread -> Local]
<1>1. /\ me[t].pc = from /\ me \in [Thread -> Local]
      /\ me' = [me EXCEPT ![t].pc = to, ![t].W = w, ![t].return = back]
  BY DEF CallWith, At, TypeOK
<1>2. /\ me[t] \in Local /\ Others(t)
      /\ me'[t] = [me[t] EXCEPT !.pc = to, !.W = w, !.return = back]
  BY <1>1 DEF Others
<1>3. me'[t] \in Local
  BY <1>2 DEF Local
<1>4. me' \in [Thread -> Local]
  BY <1>1, <1>2, <1>3 DEF Others
<1> QED
  BY <1>1, <1>2, <1>4 DEF Local

LEMMA ReturnStep ==
  ASSUME TypeOK, NEW t \in Thread, NEW from, Return(t, from)
  PROVE  /\ me[t].pc = from /\ me'[t].pc = me[t].return
         /\ me'[t].I = me[t].I /\ me'[t].W = NULL /\ me'[t].return = me[t].return
         /\ Others(t) /\ me' \in [Thread -> Local]
<1>1. /\ me[t].pc = from /\ me \in [Thread -> Local]
      /\ me' = [me EXCEPT ![t].pc = me[t].return, ![t].W = NULL]
  BY DEF Return, At, TypeOK
<1>2. /\ me[t] \in Local /\ Others(t)
      /\ me'[t] = [me[t] EXCEPT !.pc = me[t].return, !.W = NULL]
  BY <1>1 DEF Others
<1>3. me[t].return \in PC
  BY <1>2 DEF Local, PC, Leave
<1>4. me'[t] \in Local
  BY <1>2, <1>3 DEF Local, Node
<1>5. me' \in [Thread -> Local]
  BY <1>1, <1>2, <1>4 DEF Others
<1> QED
  BY <1>1, <1>2, <1>5 DEF Local

LEMMA SetStep ==
  ASSUME TypeOK, NEW t \in Thread, NEW r \in Local, me' = Set(me, t, r)
  PROVE  me'[t] = r /\ Others(t) /\ me' \in [Thread -> Local]
BY DEF Set, Others, TypeOK

(***************************************************************************)
(* What a step leaves alone.                                               *)
(***************************************************************************)
\* t is no writer.
Plain(t) ==
    \/ me[t].pc \in {"idle", "or_rflag", "wait_read", "count_next", "wake_next", "reading",
                     "take_back"}
    \/ me[t].pc \in LetIn /\ me[t].return # "clear_head"

LEMMA PlainIsNoWriter ==
  ASSUME NEW t, Plain(t)
  PROVE  /\ ~HasTurn(t) /\ ~InQueue(t) /\ ~Serves(t)
         /\ me[t].pc \notin {"link", "delete", "writing", "wait_write"} \cup SetNext \cup Leave
BY DEF Plain, HasTurn, InQueue, Serves, Ends, SetNext, Leave, LetIn, Opens

\* A step of a reader does nothing to the writers.
LEMMA ReaderQueue ==
  ASSUME TypeOK, Queue, NEW t \in Thread, Others(t), Plain(t), Plain(t)',
         me'[t].pc \in LetIn => me'[t].return = "wait_read",
         UNCHANGED <<writer_head, writer_tail, my_current_writer>>,
         \A u \in Thread : ~Plain(u) => status'[u] = status[u] /\ next'[u] = next[u]
  PROVE  Queue'
<1>1. /\ ~HasTurn(t) /\ ~InQueue(t) /\ ~Serves(t) /\ ~Waits(t)
      /\ me[t].pc \notin {"link", "delete", "writing", "wait_write"} \cup SetNext \cup Leave
  BY PlainIsNoWriter DEF Waits
<1>2. /\ ~HasTurn(t)' /\ ~InQueue(t)' /\ ~Serves(t)'
      /\ me'[t].pc \notin {"link", "delete", "writing", "wait_write"} \cup SetNext \cup Leave
  BY DEF Plain, HasTurn, InQueue, Serves, Ends, SetNext, Leave, LetIn, Opens
<1>3. me'[t].pc \notin {"try_flags", "tried", "pass_on", "next_writer"}
  BY <1>2 DEF Plain, LetIn, Opens
<1>4. \A u \in Thread : ~Plain(u) => u # t /\ me'[u] = me[u] /\ status'[u] = status[u] /\ next'[u] = next[u]
  BY DEF Others
<1>5. \A u \in Thread : /\ HasTurn(u) \/ InQueue(u) \/ Serves(u) => ~Plain(u)
                        /\ me[u].pc \in {"link", "delete", "writing", "wait_write"} => ~Plain(u)
                        /\ me[u].pc \in SetNext \cup Leave => ~Plain(u)
  BY PlainIsNoWriter
<1>6. \A u \in Thread : /\ HasTurn(u)' <=> HasTurn(u)
                        /\ InQueue(u)' <=> InQueue(u)
                        /\ Serves(u)' <=> Serves(u)
  <2> SUFFICES ASSUME NEW u \in Thread, u # t
               PROVE  /\ HasTurn(u)' <=> HasTurn(u)
                      /\ InQueue(u)' <=> InQueue(u)
                      /\ Serves(u)' <=> Serves(u)
    BY <1>1, <1>2
  <2>1. me'[u] = me[u]
    BY DEF Others
  <2>2. me[u].pc = "wait_write" => status'[u] = status[u]
    BY <1>4, <1>5
  <2> QED
    BY <2>1, <2>2 DEF HasTurn, InQueue, Serves, Ends, Active
<1>7. \A u \in Node : Waits(u)' <=> Waits(u)
  <2> SUFFICES ASSUME NEW u \in Thread PROVE Waits(u)' <=> Waits(u)
    BY DEF Waits, Node
  <2>1. CASE u = t
    BY <1>1, <1>2, <2>1 DEF Waits
  <2>2. CASE u # t
    BY <1>4, <1>5, <2>2 DEF Waits, Others
  <2> QED
    BY <2>1, <2>2
<1>8. Turns'
  BY <1>6 DEF Queue, Turns
<1>9. Writers'
  <2> SUFFICES ASSUME NEW u \in Thread
               PROVE  Knows(u)'
    BY DEF Writers
  <2>1. CASE u = t
    BY <1>1, <1>2, <1>3, <2>1 DEF Queue, Writers, Knows
  <2>2. CASE Plain(u) /\ u # t
    BY <1>5, <1>6, <2>2 DEF Others, Queue, Writers, Knows, Plain, SetNext, Leave, LetIn, Opens
  <2>3. CASE ~Plain(u)
    <3>1. me[u].W \in Node
      BY DEF TypeOK, Local
    <3> QED
      BY <1>4, <1>6, <1>7, <2>3, <3>1 DEF Queue, Writers, Knows
  <2> QED
    BY <2>1, <2>2, <2>3
<1>10. AtHead'
  <2>1. \A u \in Thread :
        me'[u].pc \in SetNext \cup Leave \cup {"tried", "writing", "wait_write"} =>
          me'[u] = me[u] /\ status'[u] = status[u] /\ next'[u] = next[u]
    BY <1>2, <1>3, <1>4, <1>5 DEF Others, Plain, LetIn, Opens
  <2>2. \A u \in Thread : HasTurn(u) => me'[u] = me[u]
    BY <1>1 DEF Others
  <2> QED
    BY <1>6, <2>1, <2>2 DEF Queue, AtHead, Active, SetNext, Leave
<1>11. Linked'
  <2>1. \A u \in Thread : InQueue(u) => status'[u] = status[u] /\ next'[u] = next[u]
    BY <1>4, <1>5
  <2>2. \A u \in Thread : Serves(u) \/ me'[u].pc = "link" => me'[u] = me[u]
    BY <1>1, <1>2 DEF Others
  <2>3. /\ \A u \in Thread : next[u] \in Node
        /\ writer_tail \in Node /\ writer_tail' = writer_tail
    BY DEF TypeOK
  <2>4. \A u \in Thread : me'[u].pc = "link" <=> me[u].pc = "link"
    BY <1>1, <1>2 DEF Others
  <2>5. Linked
    BY DEF Queue
  <2>6. writer_tail' # NULL =>
          /\ InQueue(writer_tail)' /\ next'[writer_tail'] = NULL
          /\ \A u \in Thread : me'[u].pc = "link" => me'[u].W # writer_tail'
    BY <1>6, <2>1, <2>2, <2>3, <2>4, <2>5 DEF Linked, Node
  <2>7. \A u \in Thread : me'[u].pc = "link" =>
          me'[u].W \in Thread /\ InQueue(me[u].W)' /\ next'[me'[u].W] = NULL
    BY <1>6, <2>1, <2>2, <2>4, <2>5 DEF Linked
  <2>8. \A u \in Thread : InQueue(u)' /\ next'[u] # NULL =>
          Waits(next[u])' /\ \A v \in Thread : Serves(v)' => me'[v].W # next'[u]
    BY <1>6, <1>7, <2>1, <2>2, <2>3, <2>5 DEF Linked
  <2>9. \A u, v \in Thread :
          /\ InQueue(u)' /\ InQueue(v)' /\ next'[u] = next'[v] /\ next'[u] # NULL => u = v
          /\ me'[u].pc = "link" /\ me'[v].pc = "link" /\ me'[u].W = me'[v].W => u = v
    BY <1>6, <2>1, <2>2, <2>4, <2>5 DEF Linked
  <2> QED
    BY <2>6, <2>7, <2>8, <2>9 DEF Linked
<1> QED
  BY <1>8, <1>9, <1>10, <1>11 DEF Queue

\* Nor does a writer on its way out that lets readers in.
LEMMA EndsQueue ==
  ASSUME TypeOK, Queue, NEW t \in Thread, Others(t), Ends(t) \/ me[t].pc = "clear_flags",
         me'[t].pc = "clear_head" \/ Ends(t)', me'[t].I = me[t].I,
         UNCHANGED <<writer_head, writer_tail, my_current_writer>>,
         \A u \in Thread : ~Plain(u) => status'[u] = status[u] /\ next'[u] = next[u]
  PROVE  Queue'
<1>1. /\ HasTurn(t) /\ InQueue(t) /\ ~Serves(t) /\ ~Waits(t) /\ ~Plain(t)
      /\ me[t].pc \in LetIn \cup {"clear_flags"}
  BY DEF Ends, HasTurn, InQueue, Serves, Waits, Plain, LetIn, Opens, Leave, SetNext
<1>2. /\ HasTurn(t)' /\ InQueue(t)' /\ ~Serves(t)' /\ ~Waits(t)'
      /\ me'[t].pc \in LetIn \cup {"clear_head"}
      /\ me'[t].pc \in LetIn => me'[t].return = "clear_head"
  BY DEF Ends, HasTurn, InQueue, Serves, Waits, LetIn, Opens, Leave, SetNext
<1>3. \A u \in Thread : /\ HasTurn(u) \/ InQueue(u) \/ Serves(u) => ~Plain(u)
                        /\ me[u].pc \in {"link", "delete", "writing", "wait_write"} => ~Plain(u)
                        /\ me[u].pc \in SetNext \cup Leave => ~Plain(u)
  BY PlainIsNoWriter
<1>4. \A u \in Thread : u # t => me'[u] = me[u]
  BY DEF Others
<1>5. \A u \in Thread : /\ HasTurn(u)' <=> HasTurn(u)
                        /\ InQueue(u)' <=> InQueue(u)
                        /\ Serves(u)' <=> Serves(u)
  BY <1>1, <1>2, <1>3, <1>4 DEF HasTurn, InQueue, Serves, Ends, Active
<1>6. \A u \in Node : Waits(u)' <=> Waits(u)
  <2> SUFFICES ASSUME NEW u \in Thread PROVE Waits(u)' <=> Waits(u)
    BY DEF Waits, Node
  <2>1. CASE u = t
    BY <1>1, <1>2, <2>1 DEF Waits
  <2>2. CASE u # t
    BY <1>3, <1>4, <2>2 DEF Waits
  <2> QED
    BY <2>1, <2>2
<1>7. me[t].pc \notin SetNext \cup {"link", "delete", "try_flags", "tried", "wait_write", "writing", "pass_on", "next_writer"}
  BY <1>1 DEF LetIn, Opens, SetNext
<1>8. me'[t].pc \notin SetNext \cup {"link", "delete", "try_flags", "tried", "wait_write", "writing", "pass_on", "next_writer", "clear_tail", "await_next"}
  BY <1>2 DEF LetIn, Opens, SetNext
<1>9. Turns'
  BY <1>5 DEF Queue, Turns
<1>10. Writers'
  <2> SUFFICES ASSUME NEW u \in Thread
               PROVE  Knows(u)'
    BY DEF Writers
  <2>1. CASE u = t
    BY <1>1, <1>2, <1>7, <1>8, <2>1 DEF Queue, Writers, Knows
  <2>2. CASE Plain(u) /\ u # t
    BY <1>3, <1>4, <1>5, <2>2 DEF Queue, Writers, Knows, Plain, SetNext, Leave, LetIn, Opens
  <2>3. CASE ~Plain(u) /\ u # t
    <3>1. me[u].W \in Node
      BY DEF TypeOK, Local
    <3> QED
      BY <1>4, <1>5, <1>6, <2>3, <3>1 DEF Queue, Writers, Knows
  <2> QED
    BY <2>1, <2>2, <2>3
<1>11. AtHead'
  <2>1. \A u \in Thread :
        me'[u].pc \in SetNext \cup Leave \cup {"tried", "writing", "wait_write"} /\ u # t =>
          me'[u] = me[u] /\ status'[u] = status[u] /\ next'[u] = next[u]
    BY <1>3, <1>4 DEF Plain, LetIn, Opens
  <2>2. \A u \in Thread : u # t /\ HasTurn(u) => me'[u] = me[u] /\ next'[u] = next[u]
    BY <1>3, <1>4
  <2> QED
    BY <1>1, <1>2, <1>5, <1>7, <1>8, <2>1, <2>2 DEF Queue, AtHead, Active, SetNext, Leave, LetIn, Opens
<1>12. Linked'
  <2>1. \A u \in Thread : InQueue(u) => status'[u] = status[u] /\ next'[u] = next[u]
    BY <1>3
  <2>2. \A u \in Thread : Serves(u) \/ me'[u].pc = "link" => me'[u] = me[u]
    BY <1>1, <1>4, <1>8
  <2>3. /\ \A u \in Thread : next[u] \in Node
        /\ writer_tail \in Node /\ writer_tail' = writer_tail
    BY DEF TypeOK
  <2>4. \A u \in Thread : me'[u].pc = "link" <=> me[u].pc = "link"
    BY <1>4, <1>7, <1>8
  <2>5. Linked
    BY DEF Queue
  <2>6. writer_tail' # NULL =>
          /\ InQueue(writer_tail)' /\ next'[writer_tail'] = NULL
          /\ \A u \in Thread : me'[u].pc = "link" => me'[u].W # writer_tail'
    BY <1>5, <2>1, <2>2, <2>3, <2>4, <2>5 DEF Linked, Node
  <2>7. \A u \in Thread : me'[u].pc = "link" =>
          me'[u].W \in Thread /\ InQueue(me[u].W)' /\ next'[me'[u].W] = NULL
    BY <1>5, <2>1, <2>2, <2>4, <2>5 DEF Linked
  <2>8. \A u \in Thread : InQueue(u)' /\ next'[u] # NULL =>
          Waits(next[u])' /\ \A v \in Thread : Serves(v)' => me'[v].W # next'[u]
    BY <1>5, <1>6, <2>1, <2>2, <2>3, <2>5 DEF Linked
  <2>9. \A u, v \in Thread :
          /\ InQueue(u)' /\ InQueue(v)' /\ next'[u] = next'[v] /\ next'[u] # NULL => u = v
          /\ me'[u].pc = "link" /\ me'[v].pc = "link" /\ me'[u].W = me'[v].W => u = v
    BY <1>5, <2>1, <2>2, <2>4, <2>5 DEF Linked
  <2> QED
    BY <2>6, <2>7, <2>8, <2>9 DEF Linked
<1> QED
  BY <1>9, <1>10, <1>11, <1>12 DEF Queue

\* A step that does not touch the readers.
LEMMA WriterList ==
  ASSUME TypeOK, List, reader_head' = reader_head,
         \A u \in Thread :
            /\ Reads(u)' <=> Reads(u)
            /\ me'[u].pc \in {"count_next", "wake_next"} <=> me[u].pc \in {"count_next", "wake_next"}
            /\ me'[u].pc = "wake_head" <=> me[u].pc = "wake_head"
            /\ me[u].pc = "wake_head" => me'[u].W = me[u].W
            /\ Refers(u) => status'[u] = status[u] /\ next'[u] = next[u]
  PROVE  List'
<1>1. \A u \in Thread : Refers(u)' <=> Refers(u)
  BY DEF Refers
<1>2. \A u \in Node : Expects(u) => Expects(u)'
  BY DEF Expects, Refers
<1>3. reader_head \in Node /\ \A u \in Thread : next[u] \in Node /\ me[u].W \in Node
  BY DEF TypeOK, Local
<1>4. /\ \A u \in Thread : Reads(u)' => status'[u] \in {"waiting", "active"}
      /\ \A u \in Thread : me'[u].pc \in {"count_next", "wake_next"} =>
            next'[u] # NULL /\ status'[u] = "active"
  BY <1>1 DEF List, Refers
<1>5. /\ reader_head' # NULL => Expects(reader_head)'
      /\ \A u \in Thread : me'[u].pc = "wake_head" =>
            Expects(me[u].W)' /\ me'[u].W # reader_head'
  BY <1>2, <1>3 DEF List
<1>6. \A u \in Thread : Refers(u)' /\ next'[u] # NULL =>
            Expects(next[u])' /\ next'[u] # reader_head'
  BY <1>1, <1>2, <1>3 DEF List
<1>7. \A u, v \in Thread :
        /\ me'[u].pc = "wake_head" /\ me'[v].pc = "wake_head" /\ me'[u].W = me'[v].W => u = v
        /\ me'[u].pc = "wake_head" /\ Refers(v)' => me'[u].W # next'[v]
        /\ Refers(u)' /\ Refers(v)' /\ next'[u] = next'[v] /\ next'[u] # NULL => u = v
  BY <1>1 DEF List
<1> QED
  BY <1>4, <1>5, <1>6, <1>7 DEF List

LEMMA SameCount ==
  ASSUME Count, rdr'.count = rdr.count,
         \A u \in Thread : (Owns(u)' <=> Owns(u)) /\ (Counts(u)' <=> Counts(u))
  PROVE  Count'
<1>1. /\ {u \in Thread : Owns(u)}' = {u \in Thread : Owns(u)}
      /\ {u \in Thread : Counts(u)}' = {u \in Thread : Counts(u)}
  OBVIOUS
<1> QED
  BY <1>1 DEF Count

\* One reader more is counted, or is about to be woken; one less is; and one
\* that was about to be woken has been.
LEMMA OneMoreOwns ==
  ASSUME TypeOK, Count, rdr'.count = rdr.count + 1, NEW t \in Thread, ~Owns(t), Owns(t)',
         \A u \in Thread : (u # t => (Owns(u)' <=> Owns(u))) /\ (Counts(u)' <=> Counts(u))
  PROVE  Count'
<1> DEFINE O == {u \in Thread : Owns(u)}
           C == {u \in Thread : Counts(u)}
<1>1. O' = O \cup {t} /\ t \notin O /\ C' = C
  OBVIOUS
<1>2. IsFiniteSet(O) /\ IsFiniteSet(C) /\ rdr.count = Cardinality(O) + Cardinality(C)
  BY DEF Count
<1>3. IsFiniteSet(O') /\ Cardinality(O') = Cardinality(O) + 1
  <2>1. IsFiniteSet(O \cup {t}) /\ Cardinality(O \cup {t}) = Cardinality(O) + 1
    BY <1>1, <1>2, FS_AddElement
  <2> QED
    BY <1>1, <2>1
<1>4. Cardinality(O) \in Nat /\ Cardinality(C) \in Nat
  BY <1>2, FS_CardinalityType
<1> QED
  BY <1>1, <1>2, <1>3, <1>4 DEF Count

LEMMA OneMoreCounts ==
  ASSUME TypeOK, Count, rdr'.count = rdr.count + 1, NEW t \in Thread, ~Counts(t), Counts(t)',
         \A u \in Thread : (u # t => (Counts(u)' <=> Counts(u))) /\ (Owns(u)' <=> Owns(u))
  PROVE  Count'
<1> DEFINE O == {u \in Thread : Owns(u)}
           C == {u \in Thread : Counts(u)}
<1>1. C' = C \cup {t} /\ t \notin C /\ O' = O
  OBVIOUS
<1>2. IsFiniteSet(O) /\ IsFiniteSet(C) /\ rdr.count = Cardinality(O) + Cardinality(C)
  BY DEF Count
<1>3. IsFiniteSet(C') /\ Cardinality(C') = Cardinality(C) + 1
  <2>1. IsFiniteSet(C \cup {t}) /\ Cardinality(C \cup {t}) = Cardinality(C) + 1
    BY <1>1, <1>2, FS_AddElement
  <2> QED
    BY <1>1, <2>1
<1>4. Cardinality(O) \in Nat /\ Cardinality(C) \in Nat
  BY <1>2, FS_CardinalityType
<1>5. rdr'.count = Cardinality(O') + Cardinality(C')
  <2>1. Cardinality(O') = Cardinality(O)
    BY <1>1
  <2> QED
    BY <1>2, <1>3, <1>4, <2>1
<1>6. IsFiniteSet(O')
  BY <1>1, <1>2
<1> QED
  BY <1>3, <1>5, <1>6 DEF Count

LEMMA OneLessOwns ==
  ASSUME TypeOK, Count, rdr'.count = rdr.count - 1, NEW t \in Thread, Owns(t), ~Owns(t)',
         \A u \in Thread : (u # t => (Owns(u)' <=> Owns(u))) /\ (Counts(u)' <=> Counts(u))
  PROVE  Count' /\ rdr'.count \in Nat
<1> DEFINE O == {u \in Thread : Owns(u)}
           C == {u \in Thread : Counts(u)}
<1>1. O' = O \ {t} /\ t \in O /\ C' = C
  OBVIOUS
<1>2. IsFiniteSet(O) /\ IsFiniteSet(C) /\ rdr.count = Cardinality(O) + Cardinality(C)
  BY DEF Count
<1>3. IsFiniteSet(O') /\ Cardinality(O') = Cardinality(O) - 1
  BY <1>1, <1>2, FS_RemoveElement
<1>4. Cardinality(O) \in Nat /\ Cardinality(C) \in Nat /\ Cardinality(O') \in Nat
  BY <1>2, <1>3, FS_CardinalityType
<1> QED
  BY <1>1, <1>2, <1>3, <1>4 DEF Count

LEMMA OneWoken ==
  ASSUME TypeOK, Count, rdr'.count = rdr.count,
         NEW t \in Thread, Counts(t), ~Counts(t)',
         NEW w \in Thread, ~Owns(w), Owns(w)',
         \A u \in Thread : /\ u # w => (Owns(u)' <=> Owns(u))
                           /\ u # t => (Counts(u)' <=> Counts(u))
  PROVE  Count'
<1> DEFINE O == {u \in Thread : Owns(u)}
           C == {u \in Thread : Counts(u)}
<1>1. O' = O \cup {w} /\ w \notin O /\ C' = C \ {t} /\ t \in C
  OBVIOUS
<1>2. IsFiniteSet(O) /\ IsFiniteSet(C) /\ rdr.count = Cardinality(O) + Cardinality(C)
  BY DEF Count
<1>3. IsFiniteSet(O') /\ Cardinality(O') = Cardinality(O) + 1
  <2>1. IsFiniteSet(O \cup {w}) /\ Cardinality(O \cup {w}) = Cardinality(O) + 1
    BY <1>1, <1>2, FS_AddElement
  <2> QED
    BY <1>1, <2>1
<1>4. IsFiniteSet(C') /\ Cardinality(C') = Cardinality(C) - 1
  BY ZenonT(60), <1>1, <1>2, FS_RemoveElement
<1>5. Cardinality(O) \in Nat /\ Cardinality(C) \in Nat
  BY <1>2, FS_CardinalityType
<1> QED
  BY <1>1, <1>2, <1>3, <1>4, <1>5 DEF Count

\* The door stays as it is.
LEMMA SameDoor ==
  ASSUME Door, \A u \in Thread :
            /\ Shuts(u)' => Shuts(u)
            /\ Granted(u)' => Granted(u)
            /\ Inside(u)' => Inside(u)
            /\ me'[u].pc \in {"or_flag2", "await_readers"} =>
                  me[u].pc \in {"or_flag2", "await_readers"}
            /\ me'[u].pc = "unblock" => me[u].pc = "unblock",
         rdr'.WFLAG1 = rdr.WFLAG1, rdr'.WFLAG2 = rdr.WFLAG2,
         rdr'.RFLAG = rdr.RFLAG \/ \A u \in Thread : me'[u].pc # "unblock"
  PROVE  Door'
BY DEF Door

LEMMA SameGroup ==
  ASSUME Group, reader_head' = reader_head, rdr'.RFLAG = rdr.RFLAG,
         \A u \in Thread : /\ First(u)' => First(u)
                           /\ me[u].pc = "unblock" /\ First(u)' => me'[u].pc = "unblock"
                           /\ me'[u].pc = "or_rflag" =>
                                 me[u].pc = "or_rflag" /\ me'[u].return = me[u].return
  PROVE  Group'
BY DEF Group

(***************************************************************************)
(* The readers.                                                            *)
(***************************************************************************)
LEMMA NoPointerToIdle ==
  ASSUME Assumptions, List, NEW t \in Thread, ~Reads(t)
  PROVE  /\ reader_head # t
         /\ \A u \in Thread : me[u].pc = "wake_head" => me[u].W # t
         /\ \A u \in Thread : Refers(u) => next[u] # t \/ next[u] = NULL
BY DEF List, Expects, Assumptions

LEMMA LockReadInv ==
  ASSUME Assumptions, Inv, NEW t \in Thread, LockRead(t) PROVE Inv'
<1>1. PICK r \in Local : /\ r.pc = IF reader_head = NULL THEN "or_rflag" ELSE "wait_read"
                         /\ r.return = "wait_read" /\ me' = Set(me, t, r)
  <2> DEFINE r == [pc |-> IF reader_head = NULL THEN "or_rflag" ELSE "wait_read",
                   I |-> t, W |-> NULL, return |-> "wait_read"]
  <2>1. r \in Local
    BY DEF Local, PC, Node
  <2>2. me' = Set(me, t, r)
    BY DEF LockRead
  <2> QED
    BY <2>1, <2>2
<1>2. /\ me[t].pc = "idle" /\ reader_head' = t
      /\ status' = [status EXCEPT ![t] = "waiting"] /\ next' = [next EXCEPT ![t] = reader_head]
      /\ UNCHANGED <<rdr, writer_head, writer_tail, my_current_writer>>
  BY DEF LockRead, Request, At, Set
<1>3. TypeOK
  BY DEF Inv
<1>4. me'[t] = r /\ Others(t) /\ me' \in [Thread -> Local]
  BY <1>1, <1>3, SetStep
<1>5. TypeOK'
  BY <1>2, <1>3, <1>4 DEF TypeOK, Node
<1>6. /\ status'[t] = "waiting" /\ next'[t] = reader_head
      /\ \A u \in Thread : u # t => me'[u] = me[u] /\ status'[u] = status[u] /\ next'[u] = next[u]
  BY <1>2, <1>3, <1>4 DEF TypeOK, Others
<1>7. /\ ~Reads(t) /\ ~Refers(t) /\ ~Owns(t) /\ ~Counts(t) /\ ~First(t)
      /\ Plain(t)
  BY <1>2 DEF Reads, Refers, Owns, Counts, First, Plain, LetIn, Opens
<1>8. /\ Reads(t)' /\ Refers(t)' /\ ~Owns(t)' /\ ~Counts(t)' /\ Plain(t)' /\ Expects(t)'
      /\ First(t)' => reader_head = NULL
      /\ me'[t].pc \in {"or_rflag", "wait_read"}
  BY <1>1, <1>4, <1>6 DEF Reads, Refers, Owns, Counts, First, Plain, LetIn, Opens, Expects, Active
<1>9. \A u \in Thread : u # t =>
        /\ Reads(u)' <=> Reads(u)
        /\ Refers(u)' <=> Refers(u)
        /\ Owns(u)' <=> Owns(u)
        /\ Counts(u)' <=> Counts(u)
        /\ Expects(u)' <=> Expects(u)
        /\ First(u)' <=> First(u)
  BY <1>6 DEF Reads, Refers, Owns, Counts, First, Expects, Active
<1>10. Queue'
  <2>1. me'[t].pc \notin LetIn
    BY <1>8 DEF LetIn, Opens
  <2> QED
    BY <1>2, <1>3, <1>4, <1>6, <1>7, <1>8, <2>1, ReaderQueue DEF Inv
<1>11. List'
  <2>1. List
    BY DEF Inv
  <2>2. /\ reader_head # t
        /\ \A u \in Thread : me[u].pc = "wake_head" => me[u].W # t
        /\ \A u \in Thread : Refers(u) => next[u] # t \/ next[u] = NULL
    BY <1>3, <1>7, <2>1, NoPointerToIdle
  <2>3. t # NULL /\ reader_head \in Node /\ \A u \in Thread : next[u] \in Node /\ me[u].W \in Node
    BY <1>3 DEF TypeOK, Local, Assumptions
  <2>4. /\ \A u \in Thread : Reads(u)' => status'[u] \in {"waiting", "active"}
        /\ \A u \in Thread : me'[u].pc \in {"count_next", "wake_next"} =>
              next'[u] # NULL /\ status'[u] = "active"
        /\ reader_head' # NULL => Expects(reader_head)'
    BY <1>2, <1>6, <1>8, <1>9, <2>1 DEF List
  <2>5. \A u \in Thread : me'[u].pc = "wake_head" =>
              u # t /\ me[u].pc = "wake_head" /\ Expects(me[u].W)' /\ me'[u].W # reader_head'
    BY <1>2, <1>6, <1>8, <1>9, <2>1, <2>2 DEF List, Expects
  <2>6. \A u \in Thread : Refers(u)' /\ next'[u] # NULL =>
              Expects(next[u])' /\ next'[u] # reader_head'
    BY <1>2, <1>6, <1>7, <1>8, <1>9, <2>1, <2>2, <2>3 DEF List, Expects
  <2>7. \A u, v \in Thread :
          /\ me'[u].pc = "wake_head" /\ me'[v].pc = "wake_head" /\ me'[u].W = me'[v].W => u = v
          /\ me'[u].pc = "wake_head" /\ Refers(v)' => me'[u].W # next'[v]
          /\ Refers(u)' /\ Refers(v)' /\ next'[u] = next'[v] /\ next'[u] # NULL => u = v
    BY <1>6, <1>8, <1>9, <2>1, <2>5 DEF List
  <2> QED
    BY <2>4, <2>5, <2>6, <2>7 DEF List
<1>12. Group'
  <2>1. Group
    BY DEF Inv
  <2>2. reader_head' # NULL
    BY <1>2 DEF Assumptions
  <2> QED
    BY <1>1, <1>2, <1>4, <1>6, <1>8, <1>9, <2>1, <2>2 DEF Group
<1>13. Count'
  BY <1>2, <1>7, <1>8, <1>9, SameCount DEF Inv
<1>14. Door'
  <2>1. ~Shuts(t)' /\ ~Granted(t)' /\ ~Inside(t)' /\ me'[t].pc \notin {"or_flag2", "await_readers", "unblock"}
    BY <1>8 DEF Shuts, Granted, Inside
  <2>2. \A u \in Thread : u # t =>
          /\ Shuts(u)' <=> Shuts(u)
          /\ Granted(u)' <=> Granted(u)
          /\ Inside(u)' <=> Inside(u)
    BY <1>6, <1>9 DEF Shuts, Granted, Inside, Active
  <2> QED
    BY <1>2, <1>6, <2>1, <2>2, SameDoor DEF Inv
<1> QED
  BY <1>5, <1>10, <1>11, <1>12, <1>13, <1>14 DEF Inv

LEMMA OrRFlagInv ==
  ASSUME Assumptions, Inv, NEW t \in Thread, OrRFlag(t) PROVE Inv'
<1>1. /\ TypeOK /\ Group /\ Door
      /\ UNCHANGED <<reader_head, writer_head, writer_tail, my_current_writer, status, next>>
      /\ rdr' = [rdr EXCEPT !.RFLAG = TRUE]
  BY DEF Inv, OrRFlag, SetFlags, nodes
<1>2. PICK to \in {"wait_read", "unblock"} :
        /\ to = "unblock" => ~WritersPresent
        /\ Goto(t, "or_rflag", to)
  BY DEF OrRFlag
<1>3. /\ me[t].pc = "or_rflag" /\ me'[t].pc = to /\ me'[t].return = me[t].return
      /\ Others(t) /\ me' \in [Thread -> Local]
  <2>1. to \in PC
    BY DEF PC, LetIn, Opens
  <2> QED
    BY <1>1, <1>2, <2>1, GotoStep
<1>4. me[t].return = "wait_read"
  BY <1>1, <1>3 DEF Group
<1>5. TypeOK'
  BY <1>1, <1>3 DEF TypeOK
<1>6. /\ rdr'.count = rdr.count /\ rdr'.WFLAG1 = rdr.WFLAG1 /\ rdr'.WFLAG2 = rdr.WFLAG2
      /\ rdr'.RFLAG = TRUE
  BY <1>1 DEF TypeOK
<1>7. \A u \in Thread : u # t => me'[u] = me[u]
  BY <1>3 DEF Others
<1>8. /\ Reads(t) /\ First(t) /\ ~Counts(t)
      /\ Reads(t)' /\ ~Counts(t)' /\ Plain(t) /\ Plain(t)'
      /\ First(t)' => to = "unblock"
      /\ ~Shuts(t)' /\ ~Granted(t)'
  BY <1>3, <1>4 DEF Reads, First, Counts, Plain, LetIn, Opens, Shuts, Granted
<1>9. \A u \in Thread : /\ Reads(u)' <=> Reads(u)
                        /\ Owns(u)' <=> Owns(u)
                        /\ Counts(u)' <=> Counts(u)
                        /\ u # t => (First(u)' <=> First(u))
  BY <1>1, <1>3, <1>7, <1>8 DEF Reads, Owns, Counts, First, Active
<1>10. Queue'
  BY <1>1, <1>3, <1>4, <1>8, ReaderQueue DEF Inv
<1>11. List'
  BY <1>1, <1>3, <1>7, <1>9, WriterList DEF Inv
<1>12. Group'
  BY <1>1, <1>3, <1>6, <1>7, <1>8, <1>9 DEF Group
<1>13. Count'
  BY <1>6, <1>9, SameCount DEF Inv
<1>14. Door'
  <2>1. \A u \in Thread : u # t =>
          /\ Shuts(u)' <=> Shuts(u)
          /\ Granted(u)' <=> Granted(u)
          /\ Inside(u)' <=> Inside(u)
    BY <1>1, <1>7, <1>9 DEF Shuts, Granted, Inside, Active
  <2>2. Inside(t)' => Inside(t)
    BY <1>3, <1>9 DEF Inside
  <2>3. to = "unblock" => /\ ~rdr.WFLAG2 /\ \A u \in Thread : ~Shuts(u)
    BY <1>1, <1>2 DEF WritersPresent, Door
  <2>4. \A u \in Thread : Shuts(u)' => rdr'.WFLAG1
    BY <1>1, <1>6, <1>8, <2>1 DEF Door
  <2>5. \A u \in Thread : me'[u].pc = "unblock" =>
          /\ rdr'.RFLAG /\ ~rdr'.WFLAG2
          /\ \A v \in Thread : ~Granted(v)' /\ me'[v].pc \notin {"or_flag2", "await_readers"}
    <3>1. CASE to = "unblock"
      <4>1. \A v \in Thread : ~Shuts(v)'
        BY <1>8, <2>1, <2>3, <3>1
      <4> QED
        BY <1>6, <2>3, <3>1, <4>1 DEF Shuts
    <3>2. CASE to # "unblock"
      <4>1. \A u \in Thread : me'[u].pc = "unblock" => u # t /\ me[u].pc = "unblock"
        BY <1>3, <1>7, <3>2
      <4>2. \A u \in Thread : me[u].pc # "unblock"
        BY <1>1, <1>3, <1>8 DEF Group, First, Opens
      <4> QED
        BY <4>1, <4>2
    <3> QED
      BY <3>1, <3>2
  <2>6. \A u, v \in Thread : ~(Granted(u)' /\ Inside(v)')
    BY <1>1, <1>8, <2>1, <2>2 DEF Door
  <2> QED
    BY <2>4, <2>5, <2>6 DEF Door
<1> QED
  BY <1>5, <1>10, <1>11, <1>12, <1>13, <1>14 DEF Inv

LEMMA WaitReadInv ==
  ASSUME Assumptions, Inv, NEW t \in Thread, WaitRead(t) PROVE Inv'
<1>1. /\ TypeOK /\ List /\ Group /\ Door /\ me[t].pc = "wait_read" /\ status[t] = "active"
      /\ UNCHANGED <<reader_head, writer_head, writer_tail, my_current_writer, rdr, next>>
  BY DEF Inv, WaitRead, At, SetStatus, Await, words, nodes
<1>2. PICK to \in {"reading", "count_next"} :
        /\ Goto(t, "wait_read", to)
        /\ to = "reading" => next[t] = NULL /\ status' = [status EXCEPT ![t] = "invalid"]
        /\ to = "count_next" => next[t] # NULL /\ status' = status
  BY DEF WaitRead, SetStatus, Await, nodes, Set
<1>3. me'[t].pc = to /\ Others(t) /\ me' \in [Thread -> Local]
  <2>1. to \in PC
    BY DEF PC
  <2> QED
    BY <1>1, <1>2, <2>1, GotoStep
<1>4. /\ TypeOK'
      /\ \A u \in Thread : u # t => me'[u] = me[u] /\ status'[u] = status[u]
      /\ to = "count_next" => status'[t] = "active"
  BY <1>1, <1>2, <1>3 DEF TypeOK, Others
<1>5. /\ Reads(t) /\ Owns(t) /\ ~Counts(t) /\ ~First(t) /\ Plain(t) /\ Inside(t) /\ ~Expects(t)
      /\ ~Reads(t)' /\ Owns(t)' /\ ~Counts(t)' /\ ~First(t)' /\ Plain(t)' /\ ~Expects(t)'
      /\ (Refers(t)' <=> to = "count_next") /\ Refers(t)
      /\ ~Shuts(t)' /\ ~Granted(t)'
      /\ me'[t].pc \notin LetIn
  BY <1>1, <1>3 DEF Reads, Owns, Counts, First, Plain, Inside, LetIn, Opens, Active, Refers,
                    Shuts, Granted, Expects
<1>6. \A u \in Thread : u # t =>
        /\ Reads(u)' <=> Reads(u)
        /\ Refers(u)' <=> Refers(u)
        /\ Owns(u)' <=> Owns(u)
        /\ Counts(u)' <=> Counts(u)
        /\ Expects(u)' <=> Expects(u)
        /\ First(u)' <=> First(u)
        /\ Shuts(u)' <=> Shuts(u)
        /\ Granted(u)' <=> Granted(u)
        /\ Inside(u)' <=> Inside(u)
  BY <1>4 DEF Reads, Refers, Owns, Counts, First, Expects, Active, Shuts, Granted, Inside
<1>7. Queue'
  BY <1>1, <1>3, <1>4, <1>5, ReaderQueue DEF Inv
<1>8. List'
  <2>1. \A u \in Node : Expects(u)' <=> Expects(u)
    BY <1>5, <1>6 DEF Expects, Node
  <2>2. reader_head \in Node /\ \A u \in Thread : next[u] \in Node /\ me[u].W \in Node
    BY <1>1 DEF TypeOK, Local
  <2>3. /\ \A u \in Thread : Reads(u)' => status'[u] \in {"waiting", "active"}
        /\ \A u \in Thread : me'[u].pc \in {"count_next", "wake_next"} =>
              next'[u] # NULL /\ status'[u] = "active"
        /\ reader_head' # NULL => Expects(reader_head)'
    BY <1>1, <1>2, <1>3, <1>4, <1>5, <1>6, <2>1, <2>2 DEF List
  <2>4. \A u \in Thread : me'[u].pc = "wake_head" =>
              u # t /\ me[u].pc = "wake_head" /\ Expects(me[u].W)' /\ me'[u].W # reader_head'
    BY <1>1, <1>3, <1>4, <2>1, <2>2 DEF List
  <2>5. \A u \in Thread : Refers(u)' => Refers(u)
    BY <1>5, <1>6
  <2>6. \A u \in Thread : Refers(u)' /\ next'[u] # NULL =>
              Expects(next[u])' /\ next'[u] # reader_head'
    BY <1>1, <2>1, <2>2, <2>5 DEF List
  <2>7. \A u, v \in Thread :
          /\ me'[u].pc = "wake_head" /\ me'[v].pc = "wake_head" /\ me'[u].W = me'[v].W => u = v
          /\ me'[u].pc = "wake_head" /\ Refers(v)' => me'[u].W # next'[v]
          /\ Refers(u)' /\ Refers(v)' /\ next'[u] = next'[v] /\ next'[u] # NULL => u = v
    BY <1>1, <1>4, <2>4, <2>5 DEF List
  <2> QED
    BY <2>3, <2>4, <2>6, <2>7 DEF List
<1>9. Group'
  BY <1>1, <1>3, <1>4, <1>5, <1>6, SameGroup
<1>10. Count'
  BY <1>1, <1>5, <1>6, SameCount DEF Inv
<1>11. Door'
  BY <1>1, <1>3, <1>4, <1>5, <1>6, SameDoor
<1> QED
  BY <1>4, <1>7, <1>8, <1>9, <1>10, <1>11 DEF Inv

LEMMA CountNextInv ==
  ASSUME Assumptions, Inv, NEW t \in Thread, CountNext(t) PROVE Inv'
<1>1. /\ TypeOK /\ List /\ Group /\ Door
      /\ UNCHANGED <<reader_head, writer_head, writer_tail, my_current_writer, status, next>>
      /\ rdr' = [rdr EXCEPT !.count = @ + 1]
  BY DEF Inv, CountNext, SetFlags, nodes
<1>2. /\ me[t].pc = "count_next" /\ me'[t].pc = "wake_next"
      /\ Others(t) /\ me' \in [Thread -> Local]
  <2>1. "wake_next" \in PC
    BY DEF PC
  <2> QED
    BY <1>1, <2>1, GotoStep DEF CountNext
<1>3. /\ TypeOK'
      /\ \A u \in Thread : u # t => me'[u] = me[u]
      /\ rdr'.count = rdr.count + 1 /\ rdr'.WFLAG1 = rdr.WFLAG1 /\ rdr'.WFLAG2 = rdr.WFLAG2
      /\ rdr'.RFLAG = rdr.RFLAG
  BY <1>1, <1>2 DEF TypeOK, Others
<1>4. /\ ~Reads(t) /\ Owns(t) /\ ~Counts(t) /\ ~First(t) /\ Plain(t) /\ Inside(t)
      /\ ~Reads(t)' /\ Owns(t)' /\ Counts(t)' /\ ~First(t)' /\ Plain(t)'
      /\ ~Shuts(t)' /\ ~Granted(t)'
      /\ me'[t].pc \notin LetIn
  BY <1>2 DEF Reads, Owns, Counts, First, Plain, Inside, LetIn, Opens, Active, Shuts, Granted
<1>5. \A u \in Thread : u # t =>
        /\ Reads(u)' <=> Reads(u)
        /\ Owns(u)' <=> Owns(u)
        /\ Counts(u)' <=> Counts(u)
        /\ First(u)' <=> First(u)
        /\ Shuts(u)' <=> Shuts(u)
        /\ Granted(u)' <=> Granted(u)
        /\ Inside(u)' <=> Inside(u)
  BY <1>1, <1>3 DEF Reads, Owns, Counts, First, Active, Shuts, Granted, Inside
<1>6. Queue'
  BY <1>1, <1>2, <1>4, ReaderQueue DEF Inv
<1>7. List'
  BY <1>1, <1>2, <1>3, <1>4, <1>5, WriterList
<1>8. Group'
  BY <1>1, <1>2, <1>3, <1>4, <1>5, SameGroup
<1>9. Count'
  <2>1. Count
    BY DEF Inv
  <2> QED
    BY <1>1, <1>3, <1>4, <1>5, <2>1, OneMoreCounts
<1>10. Door'
  BY <1>1, <1>2, <1>3, <1>4, <1>5, SameDoor
<1> QED
  BY <1>3, <1>6, <1>7, <1>8, <1>9, <1>10 DEF Inv

LEMMA WakeNextInv ==
  ASSUME Assumptions, Inv, NEW t \in Thread, WakeNext(t) PROVE Inv'
<1>1. /\ TypeOK /\ List /\ Group /\ Door
      /\ UNCHANGED <<reader_head, writer_head, writer_tail, my_current_writer, rdr, next>>
      /\ status' = [status EXCEPT ![next[t]] = "active", ![t] = "invalid"]
  BY DEF Inv, WakeNext, words
<1>2. /\ me[t].pc = "wake_next" /\ me'[t].pc = "reading"
      /\ Others(t) /\ me' \in [Thread -> Local]
  <2>1. "reading" \in PC
    BY DEF PC
  <2> QED
    BY <1>1, <2>1, GotoStep DEF WakeNext
<1>3. Refers(t) /\ next[t] # NULL /\ status[t] = "active"
  BY <1>1, <1>2 DEF List, Refers
<1>4. PICK w \in Thread : w = next[t] /\ Expects(w)
  BY <1>1, <1>3 DEF List, Expects
<1>5. w # t /\ status[w] = "waiting" /\ Reads(w)
  BY <1>3, <1>4 DEF Expects
<1>6. /\ TypeOK'
      /\ \A u \in Thread : u # t => me'[u] = me[u]
      /\ status'[w] = "active" /\ \A u \in Thread : u \notin {t, w} => status'[u] = status[u]
  BY <1>1, <1>2, <1>4, <1>5 DEF TypeOK, Others
<1>7. /\ ~Reads(t) /\ Owns(t) /\ Counts(t) /\ ~First(t) /\ Plain(t) /\ Inside(t)
      /\ ~Reads(t)' /\ Owns(t)' /\ ~Counts(t)' /\ ~First(t)' /\ Plain(t)' /\ ~Refers(t)'
      /\ ~Shuts(t)' /\ ~Granted(t)'
      /\ me'[t].pc \notin LetIn
  BY <1>2 DEF Reads, Owns, Counts, First, Plain, Inside, LetIn, Opens, Active, Shuts, Granted,
              Refers
<1>8. /\ ~Owns(w) /\ Owns(w)' /\ Plain(w) /\ ~Expects(w)'
      /\ ~Granted(w)' /\ ~Shuts(w)'
  BY <1>5, <1>6 DEF Reads, Owns, Plain, Expects, Active, LetIn, Opens, Granted, Shuts
<1>9. \A u \in Thread : u # t =>
        /\ Reads(u)' <=> Reads(u)
        /\ Refers(u)' <=> Refers(u)
        /\ Counts(u)' <=> Counts(u)
        /\ First(u)' <=> First(u)
        /\ u # w => /\ Owns(u)' <=> Owns(u)
                    /\ Expects(u)' <=> Expects(u)
                    /\ Shuts(u)' <=> Shuts(u)
                    /\ Granted(u)' <=> Granted(u)
                    /\ Inside(u)' <=> Inside(u)
  BY <1>6 DEF Reads, Refers, Owns, Counts, First, Expects, Active, Shuts, Granted, Inside
<1>10. Queue'
  BY <1>1, <1>2, <1>6, <1>7, <1>8, ReaderQueue DEF Inv
<1>11. List'
  <2>1. \A u \in Node : Expects(u) /\ u # w => Expects(u)'
    BY <1>7, <1>9 DEF Expects, Node
  <2>2. reader_head \in Node /\ \A u \in Thread : next[u] \in Node /\ me[u].W \in Node
    BY <1>1 DEF TypeOK, Local
  <2>3. \A u \in Thread : Refers(u)' => Refers(u) /\ u # t
    BY <1>7, <1>9
  <2>4. \A u \in Thread : me'[u].pc \in {"count_next", "wake_next", "wake_head"} => u # t
    BY <1>2
  <2>5. /\ reader_head # w
        /\ \A u \in Thread : me[u].pc = "wake_head" => me[u].W # w
        /\ \A u \in Thread : Refers(u) /\ u # t => next[u] # w
    BY <1>1, <1>3, <1>4 DEF List
  <2>6. /\ \A u \in Thread : Reads(u)' => status'[u] \in {"waiting", "active"}
        /\ reader_head' # NULL => Expects(reader_head)'
    BY <1>1, <1>6, <1>7, <1>9, <2>1, <2>2, <2>5 DEF List
  <2>7. \A u \in Thread : me'[u].pc \in {"count_next", "wake_next"} =>
              next'[u] # NULL /\ status'[u] = "active"
    BY <1>1, <1>6, <2>4 DEF List
  <2>8. \A u \in Thread : me'[u].pc = "wake_head" =>
              me[u].pc = "wake_head" /\ Expects(me[u].W)' /\ me'[u].W # reader_head' /\ u # t
    BY <1>1, <1>6, <2>1, <2>2, <2>4, <2>5 DEF List
  <2>9. \A u \in Thread : Refers(u)' /\ next'[u] # NULL =>
              Expects(next[u])' /\ next'[u] # reader_head'
    BY <1>1, <2>1, <2>2, <2>3, <2>5 DEF List
  <2>10. \A u, v \in Thread :
          /\ me'[u].pc = "wake_head" /\ me'[v].pc = "wake_head" /\ me'[u].W = me'[v].W => u = v
          /\ me'[u].pc = "wake_head" /\ Refers(v)' => me'[u].W # next'[v]
          /\ Refers(u)' /\ Refers(v)' /\ next'[u] = next'[v] /\ next'[u] # NULL => u = v
    BY <1>1, <1>6, <2>3, <2>8 DEF List
  <2> QED
    BY <2>6, <2>7, <2>8, <2>9, <2>10 DEF List
<1>12. Group'
  BY <1>1, <1>2, <1>6, <1>7, <1>9, SameGroup
<1>13. Count'
  <2>1. Count /\ rdr'.count = rdr.count
    BY <1>1 DEF Inv
  <2>2. \A u \in Thread : u # w => (Owns(u)' <=> Owns(u))
    BY <1>7, <1>9
  <2> QED
    BY <1>1, <1>7, <1>8, <1>9, <2>1, <2>2, OneWoken
<1>14. Door'
  <2>1. \A u \in Thread : ~Granted(u)
    BY <1>1, <1>7 DEF Door
  <2>2. \A u \in Thread : ~Granted(u)'
    BY <1>7, <1>8, <1>9, <2>1
  <2>3. \A u \in Thread : Shuts(u)' => Shuts(u)
    BY <1>7, <1>8, <1>9
  <2> QED
    BY <1>1, <1>2, <1>6, <2>1, <2>2, <2>3 DEF Door
<1> QED
  BY <1>6, <1>10, <1>11, <1>12, <1>13, <1>14 DEF Inv

LEMMA TryLockReadInv ==
  ASSUME Assumptions, Inv, NEW t \in Thread, TryLockRead(t) PROVE Inv'
<1>1. /\ TypeOK /\ List /\ Group /\ Door /\ me[t].pc = "idle"
      /\ UNCHANGED <<reader_head, writer_head, writer_tail, my_current_writer, status, next>>
      /\ rdr' = [rdr EXCEPT !.count = @ + 1]
  BY DEF Inv, TryLockRead, nodes, Request, At
<1>2. PICK to \in {"take_back", "reading"} :
        /\ me' = [me EXCEPT ![t].pc = to]
        /\ to = "reading" => ~WritersPresent
  BY DEF TryLockRead
<1>3. me'[t].pc = to /\ Others(t) /\ me' \in [Thread -> Local]
  <2>1. to \in PC
    BY DEF PC
  <2>2. Goto(t, "idle", to)
    BY <1>1, <1>2 DEF Goto, At
  <2> QED
    BY <1>1, <2>1, <2>2, GotoStep
<1>4. /\ TypeOK'
      /\ \A u \in Thread : u # t => me'[u] = me[u]
      /\ rdr'.count = rdr.count + 1 /\ rdr'.WFLAG1 = rdr.WFLAG1 /\ rdr'.WFLAG2 = rdr.WFLAG2
      /\ rdr'.RFLAG = rdr.RFLAG
  BY <1>1, <1>3 DEF TypeOK, Others
<1>5. /\ ~Reads(t) /\ ~Owns(t) /\ ~Counts(t) /\ ~First(t) /\ Plain(t)
      /\ ~Reads(t)' /\ Owns(t)' /\ ~Counts(t)' /\ ~First(t)' /\ Plain(t)'
      /\ ~Shuts(t)' /\ ~Granted(t)'
      /\ Inside(t)' => to = "reading"
      /\ me'[t].pc \notin LetIn
  BY <1>1, <1>3 DEF Reads, Owns, Counts, First, Plain, Inside, LetIn, Opens, Active, Shuts, Granted
<1>6. \A u \in Thread : u # t =>
        /\ Reads(u)' <=> Reads(u)
        /\ Owns(u)' <=> Owns(u)
        /\ Counts(u)' <=> Counts(u)
        /\ First(u)' <=> First(u)
        /\ Shuts(u)' <=> Shuts(u)
        /\ Granted(u)' <=> Granted(u)
        /\ Inside(u)' <=> Inside(u)
  BY <1>1, <1>4 DEF Reads, Owns, Counts, First, Active, Shuts, Granted, Inside
<1>7. Queue'
  BY <1>1, <1>3, <1>5, ReaderQueue DEF Inv
<1>8. List'
  BY <1>1, <1>3, <1>4, <1>5, <1>6, WriterList
<1>9. Group'
  BY <1>1, <1>3, <1>4, <1>5, <1>6, SameGroup
<1>10. Count'
  <2>1. Count
    BY DEF Inv
  <2> QED
    BY <1>1, <1>4, <1>5, <1>6, <2>1, OneMoreOwns
<1>11. Door'
  <2>1. to = "reading" => \A u \in Thread : ~Shuts(u)
    BY <1>1, <1>2 DEF WritersPresent, Door
  <2>2. \A u, v \in Thread : ~(Granted(u)' /\ Inside(v)')
    BY <1>1, <1>5, <1>6, <2>1 DEF Door, Shuts
  <2> QED
    BY <1>1, <1>3, <1>4, <1>5, <1>6, <2>2 DEF Door
<1> QED
  BY <1>4, <1>7, <1>8, <1>9, <1>10, <1>11 DEF Inv

\* t, a reader, leaves: it has the lock or has given up.
LEMMA LeavingInv ==
  ASSUME Assumptions, Inv, NEW t \in Thread, me[t].pc \in {"take_back", "reading"},
         me'[t].pc = "idle", Others(t), me' \in [Thread -> Local],
         UNCHANGED <<reader_head, writer_head, writer_tail, my_current_writer, status, next>>,
         rdr' = [rdr EXCEPT !.count = @ - 1]
  PROVE  Inv'
<1>1. TypeOK /\ List /\ Group /\ Door /\ Count
  BY DEF Inv
<1>2. /\ \A u \in Thread : u # t => me'[u] = me[u]
      /\ rdr'.count = rdr.count - 1 /\ rdr'.WFLAG1 = rdr.WFLAG1 /\ rdr'.WFLAG2 = rdr.WFLAG2
      /\ rdr'.RFLAG = rdr.RFLAG
  BY <1>1 DEF TypeOK, Others
<1>3. /\ ~Reads(t) /\ Owns(t) /\ ~Counts(t) /\ ~First(t) /\ Plain(t)
      /\ ~Reads(t)' /\ ~Owns(t)' /\ ~Counts(t)' /\ ~First(t)' /\ Plain(t)'
      /\ ~Shuts(t)' /\ ~Granted(t)' /\ ~Inside(t)'
      /\ me'[t].pc \notin LetIn
  BY DEF Reads, Owns, Counts, First, Plain, Inside, LetIn, Opens, Active, Shuts, Granted
<1>4. \A u \in Thread : u # t =>
        /\ Reads(u)' <=> Reads(u)
        /\ Owns(u)' <=> Owns(u)
        /\ Counts(u)' <=> Counts(u)
        /\ First(u)' <=> First(u)
        /\ Shuts(u)' <=> Shuts(u)
        /\ Granted(u)' <=> Granted(u)
        /\ Inside(u)' <=> Inside(u)
  BY <1>2 DEF Reads, Owns, Counts, First, Active, Shuts, Granted, Inside
<1>5. Count' /\ rdr'.count \in Nat
  BY <1>1, <1>2, <1>3, <1>4, OneLessOwns
<1>6. TypeOK'
  BY <1>1, <1>5 DEF TypeOK
<1>7. Queue'
  BY <1>1, <1>3, ReaderQueue DEF Inv
<1>8. List'
  BY <1>1, <1>2, <1>3, <1>4, WriterList
<1>9. Group'
  BY <1>1, <1>2, <1>3, <1>4, SameGroup
<1>10. Door'
  BY <1>1, <1>2, <1>3, <1>4, SameDoor
<1> QED
  BY <1>5, <1>6, <1>7, <1>8, <1>9, <1>10 DEF Inv

LEMMA TakeBackInv ==
  ASSUME Assumptions, Inv, NEW t \in Thread, TakeBack(t) PROVE Inv'
<1>1. /\ me[t].pc = "take_back" /\ me'[t].pc = "idle"
      /\ Others(t) /\ me' \in [Thread -> Local]
  <2>1. TypeOK /\ "idle" \in PC
    BY DEF Inv, PC
  <2> QED
    BY <2>1, GotoStep DEF TakeBack
<1> QED
  BY <1>1, LeavingInv DEF TakeBack, SetFlags, nodes

(***************************************************************************)
(* unblock_readers.                                                        *)
(***************************************************************************)
LEMMA LetInQueue ==
  ASSUME TypeOK, Queue, NEW t \in Thread, Others(t), me[t].pc \in LetIn,
         me'[t].pc \in LetIn \cup {me[t].return},
         me'[t].I = me[t].I, me'[t].return = me[t].return,
         UNCHANGED <<writer_head, writer_tail, my_current_writer>>,
         \A u \in Thread : ~Plain(u) => status'[u] = status[u] /\ next'[u] = next[u]
  PROVE  Queue'
<1>1. me[t].return \in {"wait_read", "clear_head"}
  BY DEF Queue, Writers, Knows
<1>2. CASE me[t].return = "clear_head"
  <2>1. Ends(t) /\ (me'[t].pc = "clear_head" \/ Ends(t)')
    BY <1>2 DEF Ends
  <2> QED
    BY <2>1, EndsQueue
<1>3. CASE me[t].return = "wait_read"
  <2>1. Plain(t) /\ Plain(t)'
    BY <1>3 DEF Plain
  <2> QED
    BY <1>3, <2>1, ReaderQueue
<1> QED
  BY <1>1, <1>2, <1>3

LEMMA UnblockInv ==
  ASSUME Assumptions, Inv, NEW t \in Thread, Unblock(t) PROVE Inv'
<1>1. /\ TypeOK /\ List /\ Group /\ Door /\ Count
      /\ UNCHANGED <<reader_head, writer_head, writer_tail, my_current_writer, status, next>>
      /\ rdr' = [rdr EXCEPT !.count = @ + 1, !.RFLAG = FALSE]
  BY DEF Inv, Unblock, SetFlags, nodes
<1>2. /\ me[t].pc = "unblock" /\ me'[t].pc = "look_flag1"
      /\ me'[t].I = me[t].I /\ me'[t].W = me[t].W /\ me'[t].return = me[t].return
      /\ Others(t) /\ me' \in [Thread -> Local]
  <2>1. "look_flag1" \in PC
    BY DEF PC, LetIn, Opens
  <2> QED
    BY <1>1, <2>1, GotoStep DEF Unblock
<1>3. /\ TypeOK'
      /\ \A u \in Thread : u # t => me'[u] = me[u]
      /\ rdr'.count = rdr.count + 1 /\ rdr'.WFLAG1 = rdr.WFLAG1 /\ rdr'.WFLAG2 = rdr.WFLAG2
      /\ rdr'.RFLAG = FALSE
  <2>1. rdr \in [count : Nat, WFLAG1 : BOOLEAN, WFLAG2 : BOOLEAN, RFLAG : BOOLEAN]
    BY <1>1 DEF TypeOK
  <2>2. rdr' = [count |-> rdr.count + 1, WFLAG1 |-> rdr.WFLAG1, WFLAG2 |-> rdr.WFLAG2,
                RFLAG |-> FALSE]
    BY <1>1, <2>1
  <2>3. rdr' \in [count : Nat, WFLAG1 : BOOLEAN, WFLAG2 : BOOLEAN, RFLAG : BOOLEAN]
    BY <2>1, <2>2
  <2> QED
    BY <1>1, <1>2, <2>2, <2>3 DEF TypeOK, Others
<1>4. /\ Reads(t)' <=> Reads(t)
      /\ Owns(t)' <=> Owns(t)
      /\ ~Counts(t) /\ Counts(t)' /\ First(t) /\ First(t)'
      /\ ~Shuts(t)' /\ ~Granted(t)'
      /\ {me[t].pc, me'[t].pc} \subseteq LetIn
  BY <1>1, <1>2 DEF Reads, Owns, Counts, First, LetIn, Opens, Active, Shuts, Granted
<1>5. \A u \in Thread : u # t =>
        /\ Reads(u)' <=> Reads(u)
        /\ Owns(u)' <=> Owns(u)
        /\ Counts(u)' <=> Counts(u)
        /\ First(u)' <=> First(u)
        /\ Shuts(u)' <=> Shuts(u)
        /\ Granted(u)' <=> Granted(u)
  BY <1>1, <1>3 DEF Reads, Owns, Counts, First, Active, Shuts, Granted
<1>6. Queue'
  BY <1>1, <1>2, <1>4, LetInQueue DEF Inv
<1>7. List'
  BY <1>1, <1>2, <1>3, <1>4, <1>5, WriterList
<1>8. Group'
  BY <1>1, <1>2, <1>3, <1>4, <1>5 DEF Group
<1>9. Count'
  BY <1>1, <1>3, <1>4, <1>5, OneMoreCounts
<1>10. Door'
  <2>1. \A u \in Thread : ~Granted(u)'
    BY <1>1, <1>2, <1>4, <1>5 DEF Door
  <2>2. \A u \in Thread : me'[u].pc # "unblock"
    BY <1>1, <1>2, <1>3, <1>4 DEF Group, First, Opens
  <2>3. \A u \in Thread : Shuts(u)' => Shuts(u)
    BY <1>4, <1>5
  <2> QED
    BY <1>1, <1>3, <2>1, <2>2, <2>3 DEF Door
<1> QED
  BY <1>3, <1>6, <1>7, <1>8, <1>9, <1>10 DEF Inv

\* The thread that lets readers in looks at the flags, and may set one.
LEMMA LookInv ==
  ASSUME Assumptions, Inv, NEW t \in Thread,
         NEW from \in {"look_flag1", "look_flag2", "tell_writer"},
         NEW to \in {"look_flag2", "tell_writer", "take_list"}, Goto(t, from, to),
         UNCHANGED <<reader_head, writer_head, writer_tail, my_current_writer, status, next>>,
         rdr' = rdr \/ rdr' = [rdr EXCEPT !.WFLAG2 = TRUE]
  PROVE  Inv'
<1>1. TypeOK /\ List /\ Group /\ Door /\ Count
  BY DEF Inv
<1>2. /\ me[t].pc = from /\ me'[t].pc = to
      /\ me'[t].I = me[t].I /\ me'[t].W = me[t].W /\ me'[t].return = me[t].return
      /\ Others(t) /\ me' \in [Thread -> Local]
  <2>1. to \in PC
    BY DEF PC, LetIn, Opens
  <2> QED
    BY <1>1, <2>1, GotoStep
<1>3. /\ TypeOK'
      /\ \A u \in Thread : u # t => me'[u] = me[u]
      /\ rdr'.count = rdr.count /\ rdr'.WFLAG1 = rdr.WFLAG1
      /\ rdr'.RFLAG = rdr.RFLAG
  <2>1. CASE rdr' = rdr
    BY <1>1, <1>2, <2>1 DEF TypeOK, Others
  <2>2. CASE rdr' = [rdr EXCEPT !.WFLAG2 = TRUE]
    BY <1>1, <1>2, <2>2 DEF TypeOK, Others
  <2> QED
    BY <2>1, <2>2
<1>4. /\ Reads(t)' <=> Reads(t)
      /\ Owns(t)' <=> Owns(t)
      /\ Counts(t) /\ Counts(t)' /\ First(t) /\ First(t)'
      /\ ~Shuts(t)' /\ ~Granted(t)' /\ Inside(t)
      /\ {me[t].pc, me'[t].pc} \subseteq LetIn
      /\ me'[t].pc # "unblock" /\ me[t].pc # "unblock"
  BY <1>1, <1>2 DEF Reads, Owns, Counts, First, LetIn, Opens, Active, Shuts, Granted, Inside
<1>5. \A u \in Thread : u # t =>
        /\ Reads(u)' <=> Reads(u)
        /\ Owns(u)' <=> Owns(u)
        /\ Counts(u)' <=> Counts(u)
        /\ First(u)' <=> First(u)
        /\ Shuts(u)' <=> Shuts(u)
        /\ Granted(u)' <=> Granted(u)
        /\ Inside(u)' <=> Inside(u)
  BY <1>1, <1>3 DEF Reads, Owns, Counts, First, Active, Shuts, Granted, Inside
<1>6. Queue'
  BY <1>1, <1>2, <1>4, LetInQueue DEF Inv
<1>7. List'
  <2>1. me'[t].pc \notin {"count_next", "wake_next", "wake_head"} /\ me[t].pc \notin {"count_next", "wake_next", "wake_head"}
    BY <1>2
  <2> QED
    BY <1>1, <1>2, <1>3, <1>4, <1>5, <2>1, WriterList
<1>8. Group'
  BY <1>1, <1>2, <1>3, <1>4, <1>5, SameGroup
<1>9. Count'
  BY <1>1, <1>3, <1>4, <1>5, SameCount
<1>10. Door'
  <2>1. \A u \in Thread : me'[u].pc # "unblock"
    BY <1>1, <1>3, <1>4 DEF Group, First, Opens
  <2>2. \A u \in Thread : (Shuts(u)' => Shuts(u)) /\ ~Granted(u)'
    BY <1>1, <1>4, <1>5 DEF Door
  <2> QED
    BY <1>1, <1>3, <2>1, <2>2 DEF Door
<1> QED
  BY <1>3, <1>6, <1>7, <1>8, <1>9, <1>10 DEF Inv

LEMMA TakeListInv ==
  ASSUME Assumptions, Inv, NEW t \in Thread, TakeList(t) PROVE Inv'
<1>1. /\ TypeOK /\ List /\ Group /\ Door /\ Count /\ me[t].pc = "take_list"
      /\ UNCHANGED <<rdr, writer_head, writer_tail, my_current_writer, status, next>>
      /\ reader_head' = NULL
      /\ me' = [me EXCEPT ![t].pc = "wake_head", ![t].W = reader_head]
  BY DEF Inv, TakeList, At, nodes
<1>2. /\ me'[t].pc = "wake_head" /\ me'[t].W = reader_head
      /\ me'[t].I = me[t].I /\ me'[t].return = me[t].return
      /\ Others(t) /\ me' \in [Thread -> Local]
  <2>1. /\ me[t] \in Local /\ Others(t)
        /\ me'[t] = [me[t] EXCEPT !.pc = "wake_head", !.W = reader_head]
    BY <1>1 DEF TypeOK, Others
  <2>2. "wake_head" \in PC /\ reader_head \in Node
    BY <1>1 DEF PC, LetIn, TypeOK
  <2>3. me'[t] \in Local
    BY <2>1, <2>2 DEF Local
  <2>4. me' \in [Thread -> Local]
    BY <1>1, <2>1, <2>3 DEF Others, TypeOK
  <2> QED
    BY <2>1, <2>4 DEF Local
<1>3. /\ TypeOK'
      /\ \A u \in Thread : u # t => me'[u] = me[u]
  BY <1>1, <1>2 DEF TypeOK, Others, Node
<1>4. /\ Reads(t)' <=> Reads(t)
      /\ Owns(t)' <=> Owns(t)
      /\ Counts(t) /\ Counts(t)' /\ First(t) /\ ~First(t)'
      /\ ~Shuts(t)' /\ ~Granted(t)' /\ Inside(t)
      /\ {me[t].pc, me'[t].pc} \subseteq LetIn
  BY <1>1, <1>2 DEF Reads, Owns, Counts, First, LetIn, Opens, Active, Shuts, Granted, Inside
<1>5. \A u \in Thread : u # t =>
        /\ Reads(u)' <=> Reads(u)
        /\ Owns(u)' <=> Owns(u)
        /\ Counts(u)' <=> Counts(u)
        /\ First(u)' <=> First(u)
        /\ Shuts(u)' <=> Shuts(u)
        /\ Granted(u)' <=> Granted(u)
        /\ Inside(u)' <=> Inside(u)
  BY ZenonT(60), <1>1, <1>3 DEF Reads, Owns, Counts, First, Active, Shuts, Granted, Inside
<1>6. Queue'
  BY <1>1, <1>2, <1>4, LetInQueue DEF Inv
<1>7. PICK h \in Thread : h = reader_head /\ h # NULL /\ Expects(h)
  BY <1>1, <1>4 DEF Group, List, Expects
<1>8. List'
  <2>1. \A u \in Thread : /\ Reads(u)' <=> Reads(u)
                          /\ Refers(u)' <=> Refers(u)
                          /\ Expects(u)' <=> Expects(u)
    BY <1>1, <1>2, <1>3, <1>4, <1>5 DEF Refers, Expects
  <2>2. reader_head \in Node /\ \A u \in Thread : next[u] \in Node /\ me[u].W \in Node
    BY <1>1 DEF TypeOK, Local
  <2>3. \A u \in Node : Expects(u)' <=> Expects(u)
    BY <2>1 DEF Expects, Node
  <2>4. /\ \A u \in Thread : Reads(u)' => status'[u] \in {"waiting", "active"}
        /\ \A u \in Thread : me'[u].pc \in {"count_next", "wake_next"} =>
              next'[u] # NULL /\ status'[u] = "active"
    BY <1>1, <1>2, <1>3, <2>1 DEF List
  <2>5. \A u \in Thread : me'[u].pc = "wake_head" =>
              Expects(me[u].W)' /\ me'[u].W # reader_head'
    <3>1. Expects(me[t].W)' /\ me'[t].W # reader_head'
      <4>1. Expects(h)' /\ me'[t].W = h
        BY <1>2, <1>7, <2>1
      <4> QED
        BY <1>1, <1>2, <1>7, <4>1 DEF Expects
    <3>2. ASSUME NEW u \in Thread, u # t, me'[u].pc = "wake_head"
          PROVE  Expects(me[u].W)' /\ me'[u].W # reader_head'
      <4>0. me'[u] = me[u]
        BY <1>3, <3>2
      <4>1. me'[u] = me[u] /\ Expects(me[u].W) /\ me[u].W # NULL
        <5>1. Expects(me[u].W)
          BY <1>1, <3>2, <4>0 DEF List
        <5> QED
          BY <4>0, <5>1 DEF Expects, Assumptions
      <4>2. Expects(me[u].W)'
        BY <2>2, <2>3, <4>1 DEF Expects
      <4> QED
        BY <1>1, <4>1, <4>2
    <3> QED
      BY <3>1, <3>2
  <2>6. \A u \in Thread : Refers(u)' /\ next'[u] # NULL =>
              Expects(next[u])' /\ next'[u] # reader_head'
    BY <1>1, <2>1, <2>2, <2>3 DEF List
  <2>7. \A u, v \in Thread :
          /\ me'[u].pc = "wake_head" /\ me'[v].pc = "wake_head" /\ me'[u].W = me'[v].W => u = v
          /\ me'[u].pc = "wake_head" /\ Refers(v)' => me'[u].W # next'[v]
          /\ Refers(u)' /\ Refers(v)' /\ next'[u] = next'[v] /\ next'[u] # NULL => u = v
    BY <1>1, <1>2, <1>3, <1>7, <2>1 DEF List
  <2> QED
    BY <2>4, <2>5, <2>6, <2>7, <1>1 DEF List
<1>9. Group'
  <2>1. \A u \in Thread : ~First(u)'
    BY <1>1, <1>4, <1>5 DEF Group
  <2>2. ~rdr.RFLAG
    BY <1>1, <1>4 DEF Group
  <2> QED
    BY <1>1, <1>2, <1>3, <2>1, <2>2 DEF Group
<1>10. Count'
  BY <1>1, <1>4, <1>5, SameCount
<1>11. Door'
  BY <1>1, <1>2, <1>3, <1>4, <1>5, SameDoor
<1> QED
  BY <1>3, <1>6, <1>8, <1>9, <1>10, <1>11 DEF Inv

LEMMA WakeHeadInv ==
  ASSUME Assumptions, Inv, NEW t \in Thread, WakeHead(t) PROVE Inv'
<1>1. /\ TypeOK /\ List /\ Group /\ Door /\ Count /\ Queue
      /\ UNCHANGED <<rdr, reader_head, writer_head, writer_tail, my_current_writer, next>>
      /\ status' = [status EXCEPT ![me[t].W] = "active"]
  BY DEF Inv, WakeHead, SetStatus, words, Set
<1>2. /\ me[t].pc = "wake_head" /\ me'[t].pc = me[t].return
      /\ me'[t].I = me[t].I /\ me'[t].return = me[t].return
      /\ Others(t) /\ me' \in [Thread -> Local]
  BY <1>1, ReturnStep DEF WakeHead
<1>3. me[t].return \in {"wait_read", "clear_head"}
  BY <1>1, <1>2 DEF Queue, Writers, Knows, LetIn
<1>4. PICK w \in Thread : w = me[t].W /\ Expects(w) /\ w # reader_head
  BY <1>1, <1>2 DEF List, Expects
<1>5. status[w] = "waiting" /\ Reads(w) /\ Plain(w)
  BY <1>4 DEF Expects, Reads, Plain, LetIn, Opens
<1>6. /\ TypeOK'
      /\ \A u \in Thread : u # t => me'[u] = me[u]
      /\ status'[w] = "active" /\ \A u \in Thread : u # w => status'[u] = status[u]
  BY <1>1, <1>2, <1>4 DEF TypeOK, Others
<1>7. /\ Reads(t)' <=> Reads(t)
      /\ Counts(t) /\ ~Counts(t)' /\ ~First(t) /\ ~First(t)'
      /\ ~Shuts(t)' /\ ~Granted(t)' /\ Inside(t)
      /\ me[t].pc \in LetIn /\ me'[t].pc \notin LetIn \cup {"count_next", "wake_next", "or_rflag"}
  BY <1>2, <1>3 DEF Reads, Counts, First, LetIn, Opens, Active, Shuts, Granted, Inside
<1>8. /\ Reads(w)' /\ ~Owns(w) /\ Owns(w)' /\ ~Expects(w)'
      /\ ~Granted(w)' /\ ~Shuts(w)'
  <2>1. me[w].pc \notin {"count_next", "wake_next", "reading", "take_back", "tried"} \cup
                        {"activate", "writing", "next_writer", "pass_on", "clear_flags",
                         "wait_write", "await_flag2", "or_flag2", "await_readers"}
    BY <1>5 DEF Reads, LetIn, Opens
  <2>2. me'[w].pc \notin {"tried", "activate", "writing", "next_writer", "pass_on",
                          "clear_flags", "wait_write", "await_flag2", "or_flag2",
                          "await_readers"}
    BY <1>2, <1>3, <1>6, <2>1
  <2>3. Reads(w)'
    BY <1>5, <1>6, <1>7 DEF Reads
  <2> QED
    BY <1>5, <1>6, <2>1, <2>2, <2>3 DEF Owns, Active, Expects, Granted, Shuts
<1>9. \A u \in Thread :
        /\ Reads(u)' <=> Reads(u)
        /\ Refers(u)' <=> Refers(u)
        /\ First(u)' <=> First(u)
        /\ u # t => /\ Counts(u)' <=> Counts(u)
                    /\ Shuts(u)' => Shuts(u)
        /\ u # w => /\ Owns(u)' <=> Owns(u)
                    /\ Expects(u)' <=> Expects(u)
  <2> SUFFICES ASSUME NEW u \in Thread
               PROVE  /\ Reads(u)' <=> Reads(u)
                      /\ Refers(u)' <=> Refers(u)
                      /\ First(u)' <=> First(u)
                      /\ u # t => /\ Counts(u)' <=> Counts(u)
                                  /\ Shuts(u)' => Shuts(u)
                      /\ u # w => /\ Owns(u)' <=> Owns(u)
                                  /\ Expects(u)' <=> Expects(u)
    OBVIOUS
  <2>1. CASE u = t
    <3>1. (Refers(t)' <=> Refers(t)) /\ (First(t)' <=> First(t))
      BY <1>2, <1>7 DEF Refers
    <3>2. t # w => (Owns(t)' <=> Owns(t)) /\ (Expects(t)' <=> Expects(t))
      BY <1>2, <1>3, <1>6, <1>7 DEF Owns, Expects, Active
    <3> QED
      BY <1>7, <2>1, <3>1, <3>2
  <2>2. CASE u # t
    BY <1>6, <1>8, <2>2 DEF Reads, Refers, First, Counts, Owns, Expects, Active, Shuts, Granted
  <2> QED
    BY <2>1, <2>2
<1>10. Queue'
  <2>1. \A u \in Thread : ~Plain(u) => status'[u] = status[u] /\ next'[u] = next[u]
    BY <1>1, <1>5, <1>6
  <2> QED
    BY <1>1, <1>2, <1>7, <2>1, LetInQueue
<1>11. List'
  <2>1. \A u \in Node : Expects(u) /\ u # w => Expects(u)'
    BY <1>9 DEF Expects, Node
  <2>2. reader_head \in Node /\ \A u \in Thread : next[u] \in Node /\ me[u].W \in Node
    BY <1>1 DEF TypeOK, Local
  <2>3. /\ \A u \in Thread : Reads(u)' => status'[u] \in {"waiting", "active"}
        /\ reader_head' # NULL => Expects(reader_head)'
    <3>1. Expects(reader_head)' <=> Expects(reader_head)
      BY <1>1, <1>4, <1>9, <2>2 DEF Expects, Node
    <3> QED
      BY <1>1, <1>6, <1>9, <3>1 DEF List
  <2>4. \A u \in Thread : me'[u].pc \in {"count_next", "wake_next"} =>
              next'[u] # NULL /\ status'[u] = "active"
    BY <1>1, <1>6, <1>7 DEF List
  <2>5. \A u \in Thread : me'[u].pc = "wake_head" => u # t /\ me'[u] = me[u] /\ me[u].W # w
    <3>1. \A u \in Thread : me'[u].pc = "wake_head" => u # t /\ me'[u] = me[u]
      BY <1>6, <1>7 DEF LetIn
    <3> QED
      BY <1>1, <1>2, <1>4, <3>1 DEF List
  <2>6. \A u \in Thread : Refers(u) => next[u] # w
    BY <1>1, <1>2, <1>4 DEF List
  <2>7. \A u \in Thread : me'[u].pc = "wake_head" =>
              Expects(me[u].W)' /\ me'[u].W # reader_head'
    BY <1>1, <2>1, <2>2, <2>5 DEF List
  <2>8. \A u \in Thread : Refers(u)' /\ next'[u] # NULL =>
              Expects(next[u])' /\ next'[u] # reader_head'
    BY <1>1, <1>9, <2>1, <2>2, <2>6 DEF List
  <2>9. \A u, v \in Thread :
          /\ me'[u].pc = "wake_head" /\ me'[v].pc = "wake_head" /\ me'[u].W = me'[v].W => u = v
          /\ me'[u].pc = "wake_head" /\ Refers(v)' => me'[u].W # next'[v]
          /\ Refers(u)' /\ Refers(v)' /\ next'[u] = next'[v] /\ next'[u] # NULL => u = v
    BY <1>1, <1>9, <2>5 DEF List
  <2> QED
    BY <2>3, <2>4, <2>7, <2>8, <2>9 DEF List
<1>12. Group'
  <2>1. \A u \in Thread : /\ me'[u].pc = "or_rflag" => u # t
                          /\ First(u)' => u # t
    BY <1>7
  <2> QED
    BY <1>1, <1>6, <1>9, <2>1, SameGroup
<1>13. Count'
  <2>1. rdr'.count = rdr.count
    BY <1>1
  <2> QED
    BY <1>1, <1>7, <1>8, <1>9, <2>1, OneWoken
<1>14. Door'
  <2>1. \A u \in Thread : ~Granted(u)
    BY <1>1, <1>7 DEF Door
  <2>2. \A u \in Thread : ~Granted(u)'
    BY <1>6, <1>7, <1>8, <2>1 DEF Granted, Active
  <2>3. \A u \in Thread : Shuts(u)' => Shuts(u)
    BY <1>7, <1>9
  <2>4. \A u \in Thread : me'[u].pc \in {"unblock", "or_flag2", "await_readers"} =>
            me'[u] = me[u]
    BY <1>2, <1>3, <1>6
  <2> QED
    BY <1>1, <2>1, <2>2, <2>3, <2>4 DEF Door
<1> QED
  BY <1>6, <1>10, <1>11, <1>12, <1>13, <1>14 DEF Inv

(***************************************************************************)
(* The writers.                                                            *)
(***************************************************************************)
NoReader(t) ==
    me[t].pc \notin {"or_rflag", "wait_read", "count_next", "wake_next", "reading", "take_back"}
                    \cup LetIn

\* A step of a writer does nothing to the readers.
LEMMA WriterStep ==
  ASSUME TypeOK, List, Group, Count, NEW t \in Thread, Others(t), NoReader(t), NoReader(t)',
         reader_head' = reader_head, rdr'.count = rdr.count, rdr'.RFLAG = rdr.RFLAG,
         \A u \in Thread : Refers(u) => status'[u] = status[u] /\ next'[u] = next[u]
  PROVE  /\ List' /\ Group' /\ Count'
         /\ \A u \in Thread : /\ Inside(u)' <=> Inside(u)
                              /\ me'[u].pc = "unblock" <=> me[u].pc = "unblock"
         /\ \A u \in Thread : u # t => me'[u] = me[u]
<1>1. /\ ~Reads(t) /\ ~Refers(t) /\ ~Owns(t) /\ ~Counts(t) /\ ~First(t) /\ ~Inside(t)
      /\ me[t].pc \notin {"count_next", "wake_next", "wake_head", "unblock", "or_rflag"}
  BY DEF NoReader, Reads, Refers, Owns, Counts, First, Inside, LetIn, Opens
<1>2. /\ ~Reads(t)' /\ ~Refers(t)' /\ ~Owns(t)' /\ ~Counts(t)' /\ ~First(t)' /\ ~Inside(t)'
      /\ me'[t].pc \notin {"count_next", "wake_next", "wake_head", "unblock", "or_rflag"}
  BY DEF NoReader, Reads, Refers, Owns, Counts, First, Inside, LetIn, Opens
<1>3. \A u \in Thread : u # t => me'[u] = me[u]
  BY DEF Others
<1>4. \A u \in Thread :
        /\ Reads(u)' <=> Reads(u)
        /\ Owns(u)' <=> Owns(u)
        /\ Counts(u)' <=> Counts(u)
        /\ First(u)' <=> First(u)
        /\ Inside(u)' <=> Inside(u)
  BY <1>1, <1>2, <1>3 DEF Reads, Refers, Owns, Counts, First, Active, Inside
<1>5. List'
  BY <1>1, <1>2, <1>3, <1>4, WriterList
<1>6. Group'
  BY <1>1, <1>2, <1>3, <1>4, SameGroup
<1>7. Count'
  BY <1>4, SameCount
<1> QED
  BY <1>1, <1>2, <1>3, <1>4, <1>5, <1>6, <1>7

\* The count is 0: nobody is inside.
LEMMA NobodyInside ==
  ASSUME Count, rdr.count = 0 PROVE \A u \in Thread : ~Inside(u)
<1> DEFINE O == {u \in Thread : Owns(u)}
           C == {u \in Thread : Counts(u)}
<1>1. IsFiniteSet(O) /\ IsFiniteSet(C) /\ 0 = Cardinality(O) + Cardinality(C)
  BY DEF Count
<1>2. Cardinality(O) = 0 /\ Cardinality(C) = 0
  BY <1>1, FS_CardinalityType
<1>3. O = {} /\ C = {}
  BY <1>1, <1>2, FS_EmptySet
<1> QED
  BY <1>3 DEF Inside

\* set_next_writer from the first flag on
Serving == {"or_flag1", "await_flag2", "or_flag2", "await_readers", "activate"}

LEMMA ServeQueue ==
  ASSUME TypeOK, Queue, NEW t \in Thread, NEW from \in Serving, NEW to \in Serving,
         Goto(t, from, to),
         UNCHANGED <<writer_head, writer_tail, my_current_writer, status, next>>
  PROVE  Queue'
<1>1. /\ me[t].pc = from /\ me'[t].pc = to
      /\ me'[t].I = me[t].I /\ me'[t].W = me[t].W /\ me'[t].return = me[t].return
      /\ Others(t) /\ me' \in [Thread -> Local]
  <2>1. to \in PC
    BY DEF Serving, SetNext, PC
  <2> QED
    BY <2>1, GotoStep
<1>2. /\ {from, to} \subseteq SetNext
      /\ {from, to} \cap (Leave \cup LetIn \cup {"tried", "writing", "wait_write", "link", "delete",
                          "set_head", "try_flags"}) = {}
  BY DEF Serving, SetNext, Leave, LetIn, Opens
<1>3. \A u \in Thread : u # t => me'[u] = me[u]
  BY <1>1 DEF Others
<1>4. \A u \in Thread : /\ HasTurn(u)' <=> HasTurn(u)
                        /\ InQueue(u)' <=> InQueue(u)
                        /\ Serves(u)' <=> Serves(u)
                        /\ me'[u].pc = "link" <=> me[u].pc = "link"
                        /\ me'[u].W = me[u].W
  BY <1>1, <1>2, <1>3 DEF HasTurn, InQueue, Serves, Ends, Active
<1>5. \A u \in Node : Waits(u)' <=> Waits(u)
  BY <1>1, <1>2, <1>3 DEF Waits, Node
<1>6. Turns'
  BY <1>4 DEF Queue, Turns
<1>7. Writers'
  <2> SUFFICES ASSUME NEW u \in Thread
               PROVE  Knows(u)'
    BY DEF Writers
  <2>1. me[u].W \in Node
    BY DEF TypeOK, Local
  <2>2. CASE u = t
    BY <1>1, <1>2, <1>4, <1>5, <2>1, <2>2 DEF Queue, Writers, Knows
  <2>3. CASE u # t
    BY <1>3, <1>4, <1>5, <2>1, <2>3 DEF Queue, Writers, Knows
  <2> QED
    BY <2>2, <2>3
<1>8. AtHead'
  <2>1. me[t].pc \in SetNext \ {"set_head"} /\ HasTurn(t)
    BY <1>1, <1>2 DEF HasTurn
  <2>2. writer_head = me[t].W
    BY <2>1 DEF Queue, AtHead
  <2>3. \A u \in Thread : HasTurn(u) => u = t
    BY <2>1 DEF Queue, Turns
  <2>4. \A u \in Thread : u # t => me'[u] = me[u] /\ status'[u] = status[u]
    BY <1>3
  <2> QED
    BY <1>1, <1>2, <1>4, <2>1, <2>2, <2>3, <2>4 DEF Queue, AtHead, Active, SetNext, Leave
<1>9. Linked'
  <2>1. writer_tail \in Node /\ \A u \in Thread : next[u] \in Node
    BY DEF TypeOK
  <2> QED
    BY <1>4, <1>5, <2>1 DEF Queue, Linked, Node
<1> QED
  BY <1>6, <1>7, <1>8, <1>9 DEF Queue

LEMMA ServeInv ==
  ASSUME Assumptions, Inv, NEW t \in Thread,
         OrFlag1(t) \/ AwaitFlag2(t) \/ OrFlag2(t) \/ AwaitReaders(t)
  PROVE  Inv'
<1>1. TypeOK /\ Queue /\ List /\ Group /\ Count /\ Door
  BY DEF Inv
<1>2. PICK from \in Serving \ {"activate"}, to \in Serving \ {"or_flag1"} : Goto(t, from, to)
  BY DEF OrFlag1, AwaitFlag2, OrFlag2, AwaitReaders, Await, Serving
<1>3. /\ UNCHANGED <<reader_head, writer_head, writer_tail, my_current_writer, status, next>>
      /\ rdr' \in {rdr, [rdr EXCEPT !.WFLAG1 = TRUE], [rdr EXCEPT !.WFLAG2 = TRUE]}
      /\ rdr' # rdr => OrFlag1(t) \/ OrFlag2(t)
  BY DEF OrFlag1, AwaitFlag2, OrFlag2, AwaitReaders, Await, SetFlags, nodes, words
<1>4. /\ me[t].pc = from /\ me'[t].pc = to
      /\ Others(t) /\ me' \in [Thread -> Local]
  <2>1. to \in PC
    BY DEF Serving, SetNext, PC
  <2> QED
    BY <1>1, <1>2, <2>1, GotoStep
<1>5. /\ TypeOK'
      /\ rdr'.count = rdr.count /\ rdr'.RFLAG = rdr.RFLAG /\ (rdr.WFLAG1 => rdr'.WFLAG1)
  <2>1. CASE rdr' = rdr
    BY <1>1, <1>3, <1>4, <2>1 DEF TypeOK
  <2>2. CASE rdr' = [rdr EXCEPT !.WFLAG1 = TRUE]
    BY <1>1, <1>3, <1>4, <2>2 DEF TypeOK
  <2>3. CASE rdr' = [rdr EXCEPT !.WFLAG2 = TRUE]
    BY <1>1, <1>3, <1>4, <2>3 DEF TypeOK
  <2> QED
    BY <1>3, <2>1, <2>2, <2>3
<1>6. NoReader(t) /\ NoReader(t)'
  BY <1>2, <1>4 DEF NoReader, Serving, LetIn, Opens
<1>7. /\ List' /\ Group' /\ Count'
      /\ \A u \in Thread : /\ Inside(u)' <=> Inside(u)
                           /\ me'[u].pc = "unblock" <=> me[u].pc = "unblock"
      /\ \A u \in Thread : u # t => me'[u] = me[u]
  BY <1>1, <1>3, <1>4, <1>5, <1>6, WriterStep
<1>8. Queue'
  BY <1>1, <1>2, <1>3, ServeQueue
<1>9. \A u \in Thread : u # t => /\ ~Granted(u)' /\ ~Shuts(u)'
                                 /\ me'[u].pc \notin {"or_flag2", "await_readers"}
  <2>1. HasTurn(t)
    BY <1>2, <1>4 DEF HasTurn, Serving, SetNext
  <2>2. \A u \in Thread : u # t => ~HasTurn(u)
    BY <1>1, <2>1 DEF Queue, Turns
  <2>3. \A u \in Thread : u # t => ~Granted(u) /\ ~Shuts(u) /\ me[u].pc \notin {"or_flag2", "await_readers"}
    BY <2>2 DEF HasTurn, Granted, Shuts, SetNext, Leave
  <2> QED
    BY <1>3, <1>7, <2>3 DEF Granted, Shuts, Active
<1>10. (to # "activate") => ~Granted(t)'
  BY <1>2, <1>4 DEF Granted, Serving
<1>11. Door'
  <2>1. CASE OrFlag1(t)
    <3>1. /\ me[t].pc = "or_flag1" /\ rdr' = [rdr EXCEPT !.WFLAG1 = TRUE]
          /\ to = IF rdr.RFLAG THEN "await_flag2" ELSE "or_flag2"
      <4>1. /\ Goto(t, "or_flag1", IF rdr.RFLAG THEN "await_flag2" ELSE "or_flag2")
            /\ rdr' = [rdr EXCEPT !.WFLAG1 = TRUE]
        BY <2>1 DEF OrFlag1, SetFlags
      <4>2. me'[t].pc = IF rdr.RFLAG THEN "await_flag2" ELSE "or_flag2"
        BY <1>1, <4>1 DEF Goto, TypeOK, Local
      <4> QED
        BY <1>4, <4>1, <4>2 DEF Goto, At
    <3>2. rdr'.WFLAG1 = TRUE /\ rdr'.WFLAG2 = rdr.WFLAG2
      BY <1>1, <3>1 DEF TypeOK
    <3>3. ~Granted(t)' /\ (me'[t].pc \in {"or_flag2", "await_readers"} => ~rdr.RFLAG)
      BY <1>4, <1>10, <3>1
    <3> QED
      BY <1>1, <1>5, <1>7, <1>9, <3>2, <3>3 DEF Door
  <2>2. CASE AwaitFlag2(t)
    <3>1. /\ me[t].pc = "await_flag2" /\ me'[t].pc = "await_readers" /\ rdr.WFLAG2 /\ rdr' = rdr
      <4>1. /\ Goto(t, "await_flag2", "await_readers") /\ rdr.WFLAG2 /\ rdr' = rdr
        BY <2>2 DEF AwaitFlag2, Await, words
      <4>2. me'[t].pc = "await_readers"
        BY <1>1, <4>1 DEF Goto, TypeOK, Local
      <4> QED
        BY <4>1, <4>2 DEF Goto, At
    <3>2. ~Granted(t)' /\ Shuts(t)
      BY <3>1 DEF Granted, Shuts
    <3> QED
      BY <1>1, <1>7, <1>9, <3>1, <3>2 DEF Door
  <2>3. CASE OrFlag2(t)
    <3>1. /\ me[t].pc = "or_flag2" /\ me'[t].pc = "await_readers"
      <4>1. Goto(t, "or_flag2", "await_readers")
        BY <2>3 DEF OrFlag2
      <4>2. me'[t].pc = "await_readers"
        BY <1>1, <4>1 DEF Goto, TypeOK, Local
      <4> QED
        BY <4>1, <4>2 DEF Goto, At
    <3>2. ~Granted(t)' /\ Shuts(t) /\ \A u \in Thread : me[u].pc # "unblock"
      BY <1>1, <3>1 DEF Granted, Shuts, Door
    <3> QED
      BY <1>1, <1>5, <1>7, <1>9, <3>1, <3>2 DEF Door
  <2>4. CASE AwaitReaders(t)
    <3>1. /\ me[t].pc = "await_readers" /\ rdr.count = 0 /\ rdr' = rdr
      BY <2>4 DEF AwaitReaders, Await, Goto, At, words
    <3>2. \A u \in Thread : ~Inside(u)
      BY <1>1, <3>1, NobodyInside
    <3>3. Shuts(t) /\ \A u \in Thread : me[u].pc # "unblock"
      BY <1>1, <3>1 DEF Shuts, Door
    <3> QED
      BY <1>1, <1>7, <1>9, <3>1, <3>2, <3>3 DEF Door
  <2> QED
    BY <2>1, <2>2, <2>3, <2>4
<1> QED
  BY <1>5, <1>7, <1>8, <1>11 DEF Inv

\* What another thread knows stays true when t moves.
LEMMA StillKnows ==
  ASSUME TypeOK, Writers, NEW t \in Thread, Others(t), NEW u \in Thread, u # t,
         HasTurn(u)' => HasTurn(u),
         Serves(u) => (Waits(me[u].W) => Waits(me[u].W)'),
         \/ status'[u] = status[u]
         \/ status'[u] = "active" /\ me[u].pc \in {"wait_write", "tried"}
         \/ Plain(u) /\ me[u].pc \notin {"link", "wait_write", "tried", "delete"},
         my_current_writer' = my_current_writer \/ my_current_writer' \in {t, NULL},
         me[u].pc # "writing" \/ my_current_writer' = my_current_writer,
         Assumptions
  PROVE  Knows(u)'
<1>1. me'[u] = me[u] /\ Knows(u)
  BY DEF Others, Writers
<1>2. (InQueue(u)' <=> InQueue(u)) /\ (Serves(u)' <=> Serves(u))
  BY <1>1 DEF InQueue, Serves, Ends
<1>3. Plain(u) => ~InQueue(u) /\ ~Serves(u) /\ me[u].pc \notin SetNext
  BY PlainIsNoWriter
<1>4. me[u].pc \in SetNext => me[u].pc \notin {"wait_write", "tried", "link"} 
  BY DEF SetNext
<1>5. me[u].pc \in SetNext /\ me[u].return = "delete" => Serves(u)
  BY DEF Serves
<1>6. /\ HasTurn(u)' \/ me'[u].pc \in {"link", "wait_write", "delete"} => me'[u].I = u
      /\ InQueue(u)' \/ Serves(u)' \/ me'[u].pc = "delete" => status'[u] # "invalid"
  BY <1>1, <1>2, <1>3 DEF Knows
<1>7. me'[u].pc \in SetNext =>
        \/ me'[u].return = "wait_write" /\ me'[u].W = u /\ status'[u] = "waiting"
        \/ /\ me'[u].return = "tried" /\ me'[u].W = u /\ status'[u] = "waiting_nonblocking"
           /\ me'[u].pc \in {"set_head", "try_flags"}
        \/ me'[u].return = "delete" /\ Waits(me[u].W)'
  BY <1>1, <1>3, <1>4, <1>5 DEF Knows
<1>8. /\ me'[u].pc = "try_flags" => me'[u].return = "tried"
      /\ me'[u].pc = "tried" => status'[u] \in {"waiting_nonblocking", "active"}
      /\ me'[u].pc = "wait_write" => status'[u] \in {"waiting", "active"}
      /\ me'[u].pc = "link" => status'[u] = "waiting"
      /\ me'[u].pc \in LetIn => me'[u].return \in {"wait_read", "clear_head"}
  BY <1>1, <1>3 DEF Knows
<1>9. me'[u].pc = "writing" <=> my_current_writer' = u
  BY <1>1 DEF Knows, Assumptions
<1> QED
  BY <1>1, <1>6, <1>7, <1>8, <1>9 DEF Knows

\* The writer that has its turn goes on, and its node stays where it is.
LEMMA TurnQueue ==
  ASSUME Assumptions, TypeOK, Queue, NEW t \in Thread, Others(t), HasTurn(t), HasTurn(t)',
         InQueue(t)' <=> InQueue(t), Serves(t)' <=> Serves(t), Serves(t) => me'[t].W = me[t].W,
         Knows(t)', me'[t].pc # "link",
         next' = next, writer_tail' = writer_tail,
         \A u \in Thread : u # t => status'[u] = status[u],
         my_current_writer' = my_current_writer \/ my_current_writer' \in {t, NULL},
         /\ me'[t].pc \in SetNext \ {"set_head"} => writer_head' = me'[t].W
         /\ me'[t].pc \in {"tried", "writing", "next_writer"} => writer_head' = t
         /\ me'[t].pc = "wait_write" => writer_head' = t
         /\ me'[t].pc = "pass_on" => writer_head' = next[t] /\ writer_head' # NULL,
         writer_head' # NULL =>
            \/ writer_head' = t /\ me'[t].pc \notin {"clear_tail", "await_next"}
            \/ writer_head' = me'[t].W /\ me'[t].pc \in SetNext
            \/ me'[t].pc = "pass_on"
  PROVE  Queue'
<1>1. \A u \in Thread : u # t => ~HasTurn(u) /\ me'[u] = me[u]
  BY DEF Queue, Turns, Others
<1>2. /\ me[t].pc # "link" /\ ~Waits(t) /\ ~Waits(t)'
      /\ Waits(t)' => FALSE
  BY DEF HasTurn, Waits, Active, SetNext, Leave, Ends, LetIn, Opens
<1>3. \A u \in Thread : /\ HasTurn(u)' <=> HasTurn(u)
                        /\ InQueue(u)' <=> InQueue(u)
                        /\ Serves(u)' <=> Serves(u)
                        /\ me'[u].pc = "link" <=> me[u].pc = "link"
                        /\ me[u].pc = "link" \/ Serves(u) => me'[u].W = me[u].W
  BY <1>1, <1>2 DEF HasTurn, InQueue, Serves, Ends, Active
<1>4. \A u \in Node : Waits(u)' <=> Waits(u)
  BY <1>1, <1>2 DEF Waits, Node
<1>5. Turns'
  BY <1>3 DEF Queue, Turns
<1>6. Writers'
  <2> SUFFICES ASSUME NEW u \in Thread, u # t PROVE Knows(u)'
    BY DEF Writers
  <2>1. me[u].W \in Node /\ Writers
    BY DEF TypeOK, Local, Queue
  <2>2. me[u].pc # "writing"
    BY <1>1 DEF HasTurn
  <2> QED
    BY <1>3, <1>4, <2>1, <2>2, StillKnows
<1>7. AtHead'
  <2>1. \A u \in Thread : u # t =>
          /\ me'[u].pc \notin SetNext \cup {"tried", "writing", "next_writer", "pass_on"}
          /\ me'[u].pc = "wait_write" => ~Active(u)'
    BY <1>1 DEF HasTurn, Active, Leave
  <2> QED
    BY <2>1 DEF AtHead
<1>8. Linked'
  <2>1. writer_tail \in Node /\ \A u \in Thread : next[u] \in Node
    BY DEF TypeOK
  <2> QED
    BY <1>3, <1>4, <2>1 DEF Queue, Linked, Node
<1> QED
  BY <1>5, <1>6, <1>7, <1>8 DEF Queue

\* Who has the lock, or waits for readers to go, had it, or waited, before.
LEMMA WriterDoor ==
  ASSUME Door, NEW t \in Thread,
         \A u \in Thread : /\ Inside(u)' <=> Inside(u)
                           /\ me'[u].pc = "unblock" <=> me[u].pc = "unblock",
         \A u \in Thread : Shuts(u)' => rdr'.WFLAG1,
         \A u \in Thread : me'[u].pc = "unblock" =>
            rdr'.RFLAG = rdr.RFLAG /\ rdr'.WFLAG2 = rdr.WFLAG2,
         \A u \in Thread : me'[u].pc \in {"or_flag2", "await_readers"} => me'[u].pc = me[u].pc,
         (\E u \in Thread : Granted(u)') => Granted(t) \/ ~\E u \in Thread : Inside(u),
         (\E u \in Thread : Granted(u)') => Granted(t) \/ ~\E u \in Thread : me[u].pc = "unblock"
  PROVE  Door'
BY DEF Door

\* The other threads have no turn, so neither the lock nor a claim to it.
LEMMA OthersOut ==
  ASSUME Queue, NEW t \in Thread, HasTurn(t)
  PROVE  \A u \in Thread : u # t =>
            /\ ~HasTurn(u) /\ ~Granted(u) /\ ~Shuts(u)
            /\ me[u].pc \notin SetNext \cup Leave \cup {"tried", "writing"}
BY DEF Queue, Turns, HasTurn, Granted, Shuts, SetNext, Leave

\* A step of the writer that has its turn, which keeps it, and changes at most
\* its own node and the word that says who writes.
LEMMA TurnInv ==
  ASSUME Assumptions, Inv, NEW t \in Thread, HasTurn(t), HasTurn(t)', NoReader(t), NoReader(t)',
         TypeOK', Queue', Others(t), UNCHANGED <<rdr, reader_head, next>>,
         \A u \in Thread : u # t => status'[u] = status[u],
         Shuts(t)' => Shuts(t), Granted(t)' => Granted(t),
         me'[t].pc \notin {"or_flag2", "await_readers"}
  PROVE  Inv'
<1>1. TypeOK /\ Queue /\ List /\ Group /\ Count /\ Door
  BY DEF Inv
<1>2. ~Refers(t)
  BY DEF NoReader, Refers, Reads
<1>3. /\ List' /\ Group' /\ Count'
      /\ \A u \in Thread : /\ Inside(u)' <=> Inside(u)
                           /\ me'[u].pc = "unblock" <=> me[u].pc = "unblock"
      /\ \A u \in Thread : u # t => me'[u] = me[u]
  BY <1>1, <1>2, WriterStep
<1>4. \A u \in Thread : u # t => ~Granted(u)' /\ ~Shuts(u)'
  BY <1>1, <1>3, OthersOut DEF Granted, Shuts, Active
<1>5. Door'
  BY <1>1, <1>3, <1>4, WriterDoor DEF Door
<1> QED
  BY <1>1, <1>3, <1>5 DEF Inv

LEMMA WaitWriteInv ==
  ASSUME Assumptions, Inv, NEW t \in Thread, WaitWrite(t) PROVE Inv'
<1>1. /\ TypeOK /\ Queue /\ status[t] = "active" /\ my_current_writer' = t
      /\ UNCHANGED <<rdr, reader_head, writer_head, writer_tail, status, next>>
  BY DEF Inv, WaitWrite, words, nodes
<1>2. /\ me[t].pc = "wait_write" /\ me'[t].pc = "writing"
      /\ me'[t].I = me[t].I /\ me'[t].W = me[t].W /\ me'[t].return = me[t].return
      /\ Others(t) /\ me' \in [Thread -> Local]
  <2>1. "writing" \in PC
    BY DEF PC
  <2> QED
    BY <1>1, <2>1, GotoStep DEF WaitWrite
<1>3. /\ HasTurn(t) /\ HasTurn(t)' /\ InQueue(t) /\ InQueue(t)' /\ ~Serves(t) /\ ~Serves(t)'
      /\ NoReader(t) /\ NoReader(t)' /\ Granted(t) /\ Shuts(t)
      /\ me'[t].pc \notin SetNext \cup LetIn
  BY <1>1, <1>2 DEF HasTurn, InQueue, Serves, NoReader, Granted, Shuts, Active, SetNext, LetIn, Opens
<1>4. TypeOK'
  BY <1>1, <1>2 DEF TypeOK, Node
<1>5. writer_head = t
  BY <1>1, <1>2 DEF Queue, AtHead, Active
<1>6. Knows(t)'
  BY <1>1, <1>2, <1>3 DEF Queue, Writers, Knows
<1>7. Queue'
  BY <1>1, <1>2, <1>3, <1>5, <1>6, TurnQueue
<1> QED
  BY <1>1, <1>2, <1>3, <1>4, <1>7, TurnInv

LEMMA StoreHeadInv ==
  ASSUME Assumptions, Inv, NEW t \in Thread, StoreHead(t) PROVE Inv'
<1>1. /\ TypeOK /\ Queue /\ writer_head' = me[t].W
      /\ UNCHANGED <<rdr, reader_head, writer_tail, my_current_writer, status, next>>
  BY DEF Inv, StoreHead, SetHead, nodes
<1>2. PICK to \in {"try_flags", "or_flag1"} :
        /\ Goto(t, "set_head", to)
        /\ to = "try_flags" <=> status[me[t].W] = "waiting_nonblocking"
  BY DEF StoreHead
<1>3. /\ me[t].pc = "set_head" /\ me'[t].pc = to
      /\ me'[t].I = me[t].I /\ me'[t].W = me[t].W /\ me'[t].return = me[t].return
      /\ Others(t) /\ me' \in [Thread -> Local]
  <2>1. to \in PC
    BY DEF PC, SetNext
  <2> QED
    BY <1>1, <1>2, <2>1, GotoStep
<1>4. /\ HasTurn(t) /\ HasTurn(t)' /\ (InQueue(t)' <=> InQueue(t)) /\ (Serves(t)' <=> Serves(t))
      /\ NoReader(t) /\ NoReader(t)' /\ ~Granted(t)' /\ ~Shuts(t)'
      /\ me'[t].pc \notin LetIn \cup Leave
      /\ me[t].pc \in SetNext /\ me'[t].pc \in SetNext
  BY <1>3 DEF HasTurn, InQueue, Serves, Ends, NoReader, Granted, Shuts, SetNext, LetIn, Opens, Leave
<1>5. TypeOK' /\ me[t].W \in Node
  BY <1>1, <1>3 DEF TypeOK, Local
<1>6. Knows(t)'
  <2>1. Knows(t)
    BY <1>1 DEF Queue, Writers
  <2>2. Waits(me[t].W)' <=> Waits(me[t].W)
    BY <1>1, <1>3, <1>5 DEF Waits, Others
  <2>3. me[t].return = "tried" <=> to = "try_flags"
    BY <1>2, <1>4, <2>1 DEF Knows, Waits
  <2> QED
    BY <1>1, <1>3, <1>4, <2>1, <2>2, <2>3 DEF Knows
<1>7. Queue'
  BY <1>1, <1>3, <1>4, <1>6, TurnQueue
<1> QED
  BY <1>1, <1>3, <1>4, <1>5, <1>7, TurnInv

LEMMA TryFlagsInv ==
  ASSUME Assumptions, Inv, NEW t \in Thread, TryFlags(t) PROVE Inv'
<1>1. /\ TypeOK /\ Queue /\ List /\ Group /\ Count /\ Door
      /\ UNCHANGED <<reader_head, writer_head, writer_tail, my_current_writer, next>>
  BY DEF Inv, TryFlags
<1>2. /\ me[t].pc = "try_flags" /\ me'[t].pc = me[t].return
      /\ me'[t].I = me[t].I /\ me'[t].W = NULL /\ me'[t].return = me[t].return
      /\ Others(t) /\ me' \in [Thread -> Local]
  BY <1>1, ReturnStep DEF TryFlags
<1>3. /\ HasTurn(t) /\ Knows(t) /\ me[t].pc \in SetNext \ {"set_head"} /\ NoReader(t) /\ ~Refers(t)
  BY <1>1, <1>2 DEF HasTurn, Queue, Writers, SetNext, NoReader, Refers, Reads, LetIn, Opens
<1>4. /\ me'[t].pc = "tried" /\ me[t].return = "tried" /\ me[t].W = t /\ me[t].I = t
      /\ status[t] = "waiting_nonblocking" /\ writer_head = t
  BY <1>1, <1>2, <1>3 DEF Knows, Queue, AtHead
<1>5. PICK open \in BOOLEAN :
        /\ open => /\ rdr = NoFlags /\ rdr' = [NoFlags EXCEPT !.WFLAG1 = TRUE, !.WFLAG2 = TRUE]
                   /\ status' = [status EXCEPT ![t] = "active"]
        /\ ~open => rdr' = rdr /\ status' = status
  <2>1. CASE rdr = NoFlags
    BY <1>4, <2>1 DEF TryFlags, Set
  <2>2. CASE rdr # NoFlags
    BY <2>2 DEF TryFlags
  <2> QED
    BY <2>1, <2>2
<1>6. /\ TypeOK' /\ rdr'.count = rdr.count /\ rdr'.RFLAG = rdr.RFLAG
      /\ \A u \in Thread : u # t => status'[u] = status[u]
      /\ status'[t] \in {"waiting_nonblocking", "active"}
      /\ ~open => status'[t] = "waiting_nonblocking"
      /\ open => rdr'.WFLAG1 = TRUE
  <2>1. CASE open
    <3>1. status' = [status EXCEPT ![t] = "active"]
      BY <1>5, <2>1
    <3>2. /\ status'[t] = "active"
          /\ status' \in [Thread -> {"invalid", "waiting", "waiting_nonblocking", "active"}]
          /\ \A u \in Thread : u # t => status'[u] = status[u]
      BY <1>1, <3>1 DEF TypeOK
    <3>3. /\ rdr'.count = rdr.count /\ rdr'.RFLAG = rdr.RFLAG /\ rdr'.WFLAG1 = TRUE
          /\ rdr' \in [count : Nat, WFLAG1 : BOOLEAN, WFLAG2 : BOOLEAN, RFLAG : BOOLEAN]
      <4>1. /\ rdr = [count |-> 0, WFLAG1 |-> FALSE, WFLAG2 |-> FALSE, RFLAG |-> FALSE]
            /\ rdr' = [count |-> 0, WFLAG1 |-> TRUE, WFLAG2 |-> TRUE, RFLAG |-> FALSE]
        BY <1>5, <2>1 DEF NoFlags
      <4> QED
        BY <4>1
    <3> QED
      BY <1>1, <1>2, <2>1, <3>2, <3>3 DEF TypeOK
  <2>2. CASE ~open
    BY <1>1, <1>2, <1>4, <1>5, <2>2 DEF TypeOK
  <2> QED
    BY <2>1, <2>2
<1>7. /\ HasTurn(t)' /\ InQueue(t) /\ InQueue(t)' /\ ~Serves(t) /\ ~Serves(t)' /\ NoReader(t)'
      /\ me'[t].pc \notin LetIn \cup SetNext
      /\ Granted(t)' => open
      /\ Shuts(t)' => open
  BY <1>2, <1>3, <1>4, <1>6 DEF HasTurn, InQueue, Serves, NoReader, Granted, Shuts, Active,
                                 LetIn, Opens, SetNext
<1>8. Knows(t)'
  BY <1>1, <1>2, <1>3, <1>4, <1>6, <1>7 DEF Knows
<1>9. Queue'
  BY <1>1, <1>2, <1>3, <1>4, <1>6, <1>7, <1>8, TurnQueue
<1>10. /\ List' /\ Group' /\ Count'
       /\ \A u \in Thread : /\ Inside(u)' <=> Inside(u)
                            /\ me'[u].pc = "unblock" <=> me[u].pc = "unblock"
       /\ \A u \in Thread : u # t => me'[u] = me[u]
  BY <1>1, <1>2, <1>3, <1>6, <1>7, WriterStep
<1>11. \A u \in Thread : u # t => ~Granted(u)' /\ ~Shuts(u)'
  BY <1>1, <1>3, <1>6, <1>10, OthersOut DEF Granted, Shuts, Active
<1>12. open => ~\E u \in Thread : Inside(u) \/ me[u].pc = "unblock"
  BY <1>1, <1>5, NobodyInside DEF NoFlags, Door
<1>13. Door'
  <2>1. \A u \in Thread : Shuts(u)' => rdr'.WFLAG1
    BY <1>6, <1>7, <1>11
  <2>2. \A u \in Thread : me'[u].pc = "unblock" => rdr'.RFLAG = rdr.RFLAG /\ rdr'.WFLAG2 = rdr.WFLAG2
    BY <1>5, <1>10, <1>12
  <2>3. (\E u \in Thread : Granted(u)') => open
    BY <1>7, <1>11
  <2>4. \A u \in Thread : me'[u].pc \in {"or_flag2", "await_readers"} => me'[u].pc = me[u].pc
    BY <1>4, <1>10
  <2> QED
    BY <1>1, <1>10, <1>12, <2>1, <2>2, <2>3, <2>4, WriterDoor
<1> QED
  BY <1>6, <1>9, <1>10, <1>13 DEF Inv

\* The writer that has the lock leaves; my_current_writer tells it from readers.
LEMMA UnlockInv ==
  ASSUME Assumptions, Inv, NEW t \in Thread, Unlock(t) PROVE Inv'
<1>1. /\ TypeOK /\ Queue /\ Door /\ me[t].pc \in {"writing", "reading"}
      /\ UNCHANGED <<reader_head, writer_head, writer_tail, status, next>>
  BY DEF Inv, Unlock, SetFlags, words, nodes
<1>2. CASE my_current_writer = NULL
  <2>1. /\ me' = Set(me, t, Idle) /\ rdr' = [rdr EXCEPT !.count = @ - 1]
        /\ my_current_writer' = my_current_writer
    BY <1>2 DEF Unlock, SetFlags
  <2>2. Idle \in Local /\ Idle.pc = "idle"
    BY DEF Idle, Local, PC, Node
  <2>3. me'[t] = Idle /\ Others(t) /\ me' \in [Thread -> Local]
    BY <1>1, <2>1, <2>2, SetStep
  <2>4. me[t].pc = "reading"
    BY <1>1, <1>2 DEF Queue, Writers, Knows, Assumptions
  <2> QED
    BY <1>1, <2>1, <2>2, <2>3, <2>4, LeavingInv
<1>3. CASE my_current_writer # NULL
  <2> DEFINE r == [Idle EXCEPT !.pc = "next_writer", !.I = writer_head]
  <2>1. me' = Set(me, t, r) /\ my_current_writer' = NULL /\ rdr' = rdr
    BY <1>3 DEF Unlock, words
  <2>2. r \in Local /\ r.pc = "next_writer" /\ r.I = writer_head
    BY <1>1 DEF Idle, Local, PC, Node, Leave, TypeOK
  <2>3. me'[t] = r /\ Others(t) /\ me' \in [Thread -> Local]
    BY <1>1, <2>1, <2>2, SetStep
  <2>4. PICK w \in Thread : w = my_current_writer /\ me[w].pc = "writing"
    BY <1>1, <1>3 DEF TypeOK, Node, Queue, Writers, Knows
  <2>5. me[t].pc = "writing"
    <3>1. Granted(w) /\ (me[t].pc = "reading" => Inside(t))
      BY <2>4 DEF Granted, Inside, Owns
    <3> QED
      BY <1>1, <3>1 DEF Door
  <2>6. writer_head = t
    BY <1>1, <2>5 DEF Queue, AtHead
  <2>7. /\ HasTurn(t) /\ HasTurn(t)' /\ InQueue(t) /\ InQueue(t)' /\ ~Serves(t) /\ ~Serves(t)'
        /\ NoReader(t) /\ NoReader(t)' /\ Granted(t) /\ Shuts(t)
        /\ me'[t].pc \notin SetNext \cup LetIn
    BY <2>2, <2>3, <2>5 DEF HasTurn, InQueue, Serves, NoReader, Granted, Shuts, SetNext, Leave,
                            LetIn, Opens
  <2>8. TypeOK'
    BY <1>1, <2>1, <2>3 DEF TypeOK, Node
  <2>9. Knows(t)'
    <3>1. Knows(t)
      BY <1>1 DEF Queue, Writers
    <3>2. me'[t].pc = "next_writer" /\ me'[t].I = t /\ my_current_writer' # t
      BY <2>1, <2>2, <2>3, <2>6 DEF Assumptions
    <3> QED
      BY <1>1, <2>7, <3>1, <3>2 DEF Knows
  <2>10. me'[t].pc = "next_writer"
    BY <2>2, <2>3
  <2>11. Queue'
    BY <1>1, <2>1, <2>3, <2>6, <2>7, <2>9, <2>10, TurnQueue
  <2> QED
    BY <1>1, <2>1, <2>3, <2>7, <2>8, <2>10, <2>11, TurnInv
<1> QED
  BY <1>2, <1>3

\* A writer on its way out knows its node.
LEMMA Leaver ==
  ASSUME TypeOK, Queue, NEW t \in Thread, me[t].pc \in Leave
  PROVE  /\ HasTurn(t) /\ InQueue(t) /\ ~Serves(t) /\ NoReader(t) /\ Knows(t) /\ me[t].I = t
         /\ writer_head # NULL =>
               \/ writer_head = t /\ me[t].pc \notin {"clear_tail", "await_next"}
               \/ me[t].pc = "pass_on"
<1>1. HasTurn(t) /\ InQueue(t) /\ ~Serves(t) /\ NoReader(t) /\ Knows(t) /\ me[t].pc \notin SetNext
  BY DEF HasTurn, InQueue, Serves, NoReader, Queue, Writers, Leave, SetNext, LetIn, Opens
<1>2. me[t].I = t
  BY <1>1 DEF Knows
<1>3. \A u \in Thread : HasTurn(u) => u = t
  BY <1>1 DEF Queue, Turns
<1> QED
  BY <1>1, <1>2, <1>3 DEF Queue, AtHead

LEMMA NextWriterInv ==
  ASSUME Assumptions, Inv, NEW t \in Thread, NextWriter(t) PROVE Inv'
<1>1. /\ TypeOK /\ Queue /\ me[t].pc = "next_writer"
      /\ UNCHANGED <<rdr, reader_head, writer_tail, my_current_writer, status, next>>
  BY DEF Inv, NextWriter, nodes, At
<1>2. me[t].pc \in Leave
  BY <1>1 DEF Leave
<1>3. /\ HasTurn(t) /\ InQueue(t) /\ ~Serves(t) /\ NoReader(t) /\ Knows(t) /\ me[t].I = t
  BY <1>1, <1>2, Leaver
<1>4. writer_head = t
  BY <1>1 DEF Queue, AtHead
<1>5. PICK to \in {"clear_flags", "pass_on"} :
        /\ Goto(t, "next_writer", to)
        /\ to = "clear_flags" => writer_head' = t
        /\ to = "pass_on" => writer_head' = next[t] /\ next[t] # NULL
  BY <1>3, <1>4 DEF NextWriter
<1>6. /\ me'[t].pc = to /\ me'[t].I = t /\ Others(t) /\ me' \in [Thread -> Local]
  <2>1. to \in PC
    BY DEF PC, Leave
  <2> QED
    BY <1>1, <1>3, <1>5, <2>1, GotoStep
<1>7. /\ HasTurn(t)' /\ InQueue(t)' /\ ~Serves(t)' /\ NoReader(t)' /\ Granted(t) /\ Shuts(t)
      /\ me'[t].pc \notin SetNext \cup LetIn
  BY <1>1, <1>6 DEF HasTurn, InQueue, Serves, NoReader, Granted, Shuts, SetNext, Leave, LetIn, Opens
<1>8. TypeOK'
  BY <1>1, <1>5, <1>6 DEF TypeOK, Node
<1>9. Knows(t)'
  BY <1>1, <1>3, <1>6, <1>7 DEF Knows
<1>10. Queue'
  BY <1>1, <1>3, <1>5, <1>6, <1>7, <1>9, TurnQueue DEF Assumptions
<1> QED
  BY <1>1, <1>3, <1>6, <1>7, <1>8, <1>10, TurnInv

LEMMA ClearHeadInv ==
  ASSUME Assumptions, Inv, NEW t \in Thread, ClearHead(t) PROVE Inv'
<1>1. /\ TypeOK /\ Queue /\ Goto(t, "clear_head", "clear_tail") /\ writer_head' = NULL
      /\ UNCHANGED <<rdr, reader_head, writer_tail, my_current_writer, status, next>>
  BY DEF Inv, ClearHead, SetHead, nodes
<1>2. me[t].pc = "clear_head" /\ me[t].pc \in Leave
  BY <1>1 DEF Leave, Goto, At
<1>3. /\ HasTurn(t) /\ InQueue(t) /\ ~Serves(t) /\ NoReader(t) /\ Knows(t) /\ me[t].I = t
  BY <1>1, <1>2, Leaver
<1>4. /\ me'[t].pc = "clear_tail" /\ me'[t].I = t /\ Others(t) /\ me' \in [Thread -> Local]
  <2>1. "clear_tail" \in PC
    BY DEF PC, Leave
  <2> QED
    BY <1>1, <1>3, <2>1, GotoStep
<1>5. /\ HasTurn(t)' /\ InQueue(t)' /\ ~Serves(t)' /\ NoReader(t)' /\ ~Granted(t)' /\ ~Shuts(t)'
      /\ me'[t].pc \notin SetNext \cup LetIn
  BY <1>4 DEF HasTurn, InQueue, Serves, NoReader, Granted, Shuts, SetNext, Leave, LetIn, Opens
<1>6. TypeOK'
  BY <1>1, <1>4 DEF TypeOK, Node
<1>7. Knows(t)'
  BY <1>1, <1>2, <1>3, <1>4, <1>5 DEF Knows
<1>8. Queue'
  BY <1>1, <1>3, <1>4, <1>5, <1>7, TurnQueue
<1> QED
  BY <1>1, <1>3, <1>4, <1>5, <1>6, <1>8, TurnInv

LEMMA ClearFlagsInv ==
  ASSUME Assumptions, Inv, NEW t \in Thread, ClearFlags(t) PROVE Inv'
<1>1. /\ TypeOK /\ Queue /\ List /\ Group /\ Count /\ Door /\ me[t].pc = "clear_flags"
      /\ UNCHANGED <<reader_head, writer_head, writer_tail, my_current_writer, status, next>>
      /\ rdr' = [rdr EXCEPT !.WFLAG1 = FALSE, !.WFLAG2 = FALSE]
  BY DEF Inv, ClearFlags, SetFlags, nodes, CallWith, Goto, At
<1>2. me[t].pc \in Leave
  BY <1>1 DEF Leave
<1>3. HasTurn(t) /\ NoReader(t) /\ me[t].I = t /\ Granted(t)
  BY <1>1, <1>2, Leaver DEF Granted
<1>4. /\ rdr.RFLAG => me'[t].pc = "unblock" /\ me'[t].return = "clear_head"
      /\ ~rdr.RFLAG => me'[t].pc = "clear_head"
      /\ me'[t].I = me[t].I /\ Others(t) /\ me' \in [Thread -> Local]
  <2>1. {"unblock", "clear_head"} \subseteq PC /\ NULL \in Node
    BY DEF PC, Leave, LetIn, Opens, Node
  <2>2. CASE rdr.RFLAG
    BY <1>1, <2>1, <2>2, CallStep DEF ClearFlags
  <2>3. CASE ~rdr.RFLAG
    BY <1>1, <2>1, <2>3, GotoStep DEF ClearFlags
  <2> QED
    BY <2>2, <2>3
<1>5. /\ TypeOK' /\ rdr'.count = rdr.count /\ rdr'.RFLAG = rdr.RFLAG /\ ~rdr'.WFLAG2
      /\ \A u \in Thread : u # t => me'[u] = me[u]
  BY <1>1, <1>4 DEF TypeOK, Others
<1>6. /\ ~Reads(t) /\ ~Owns(t) /\ ~Counts(t) /\ ~First(t)
      /\ ~Reads(t)' /\ ~Owns(t)' /\ ~Counts(t)' /\ (First(t)' => rdr.RFLAG)
      /\ ~Granted(t)' /\ ~Shuts(t)' /\ ~Inside(t)'
      /\ me'[t].pc \in {"unblock", "clear_head"}
  BY <1>1, <1>4 DEF Reads, Owns, Counts, First, Granted, Shuts, Inside, LetIn, Opens
<1>7. \A u \in Thread : /\ Reads(u)' <=> Reads(u)
                        /\ Owns(u)' <=> Owns(u)
                        /\ Counts(u)' <=> Counts(u)
                        /\ u # t => (First(u)' <=> First(u))
  BY <1>1, <1>5, <1>6 DEF Reads, Owns, Counts, First, Active
<1>8. Queue'
  <2>1. me'[t].pc = "clear_head" \/ Ends(t)'
    BY <1>4 DEF Ends, LetIn, Opens
  <2> QED
    BY <1>1, <1>4, <2>1, EndsQueue
<1>9. List'
  BY <1>1, <1>5, <1>6, <1>7, WriterList
<1>10. Group'
  <2>1. rdr.RFLAG => reader_head # NULL /\ \A u \in Thread : ~First(u)
    BY <1>1, <1>3 DEF Group, Door
  <2>2. CASE rdr.RFLAG
    <3>1. \A u \in Thread : First(u)' => u = t
      BY <1>7, <2>1, <2>2
    <3>2. me'[t].pc = "unblock" /\ \A u \in Thread : me'[u].pc = "or_rflag" => u # t /\ me[u].pc = "or_rflag"
      BY <1>4, <1>5, <2>2
    <3>3. \A u \in Thread : me'[u].pc = "or_rflag" => me'[u].return = "wait_read"
      BY <1>1, <1>5, <3>2 DEF Group
    <3>4. \A u \in Thread : First(u)' => me'[u].pc = "unblock"
      BY <3>1, <3>2
    <3> QED
      BY <1>1, <2>1, <2>2, <3>1, <3>3, <3>4 DEF Group
  <2>3. CASE ~rdr.RFLAG
    BY <1>1, <1>5, <1>6, <1>7, <2>3, SameGroup
  <2> QED
    BY <2>2, <2>3
<1>11. Count'
  BY <1>5, <1>7, <1>1, SameCount
<1>12. Door'
  <2>1. \A u \in Thread : /\ ~Granted(u)' /\ ~Shuts(u)'
                          /\ me'[u].pc \notin {"or_flag2", "await_readers"}
    BY <1>1, <1>3, <1>5, <1>6, OthersOut DEF Granted, Shuts, Active, SetNext
  <2>2. \A u \in Thread : me'[u].pc = "unblock" => rdr.RFLAG
    BY <1>1, <1>4, <1>5 DEF Door
  <2> QED
    BY <1>5, <2>1, <2>2 DEF Door
<1> QED
  BY <1>5, <1>8, <1>9, <1>10, <1>11, <1>12 DEF Inv

\* The writer that leaves the queue before it serves the next one
LEMMA ServeNextQueue ==
  ASSUME Assumptions, TypeOK, Queue, NEW t \in Thread, me[t].pc \in {"tried", "await_next"},
         me'[t].pc = "set_head", me'[t].I = me[t].I, me'[t].W = next[t], me'[t].return = "delete",
         Others(t), next[t] # NULL,
         UNCHANGED <<writer_head, writer_tail, my_current_writer, status, next>>
  PROVE  Queue'
<1>1. /\ HasTurn(t) /\ InQueue(t) /\ ~Serves(t) /\ Knows(t) /\ ~Waits(t)
      /\ me[t].pc \notin SetNext \cup {"link", "writing", "pass_on"}
  BY DEF HasTurn, InQueue, Serves, Queue, Writers, Waits, SetNext, Leave
<1>2. /\ HasTurn(t)' /\ ~InQueue(t)' /\ Serves(t)' /\ ~Waits(t)'
      /\ me'[t].pc \in SetNext
      /\ me'[t].pc \notin LetIn \cup Leave
  BY DEF HasTurn, InQueue, Serves, Waits, SetNext, LetIn, Opens, Leave, Ends
<1>3. \A u \in Thread : u # t => ~HasTurn(u) /\ me'[u] = me[u]
  BY <1>1 DEF Queue, Turns, Others
<1>4. \A u \in Thread : u # t => /\ ~HasTurn(u)' /\ ~Serves(u)'
                                 /\ InQueue(u)' <=> InQueue(u)
  BY <1>3 DEF HasTurn, InQueue, Serves, Ends, Active
<1>5. \A u \in Node : Waits(u)' <=> Waits(u)
  BY <1>1, <1>2, <1>3 DEF Waits, Node
<1>6. next[t] \in Thread /\ Waits(next[t]) /\ \A u \in Thread : InQueue(u) /\ u # t => next[u] # next[t]
  BY <1>1 DEF Queue, Linked, Waits
<1>7. Turns'
  BY <1>1, <1>2, <1>4 DEF Queue, Turns
<1>8. Writers'
  <2> SUFFICES ASSUME NEW u \in Thread PROVE Knows(u)'
    BY DEF Writers
  <2>1. CASE u = t
    <3>1. Waits(next[t])'
      BY <1>5, <1>6 DEF Node
    <3> QED
      BY <1>1, <1>2, <2>1, <3>1 DEF Knows
  <2>2. CASE u # t
    <3>1. me[u].W \in Node /\ Writers
      BY DEF TypeOK, Local, Queue
    <3> QED
      BY <1>3, <1>4, <1>5, <2>2, <3>1, StillKnows
  <2> QED
    BY <2>1, <2>2
<1>9. AtHead'
  <2>1. writer_head # NULL => writer_head = t /\ me[t].pc = "tried"
    BY <1>1, <1>3 DEF Queue, AtHead
  <2>2. writer_head = NULL \/ writer_head = t
    BY <2>1
  <2>3. \A u \in Thread : u # t =>
          /\ me'[u].pc \notin SetNext \cup {"tried", "writing", "next_writer", "pass_on"}
          /\ me'[u].pc = "wait_write" => ~Active(u)'
    BY <1>3 DEF HasTurn, Active, Leave
  <2>4. writer_head # NULL => me[t].pc = "tried"
    BY <2>1
  <2> QED
    BY <1>1, <1>2, <1>3, <2>1, <2>3 DEF Queue, AtHead, SetNext
<1>10. Linked'
  <2>1. writer_tail \in Node /\ \A u \in Thread : next[u] \in Node
    BY DEF TypeOK
  <2>2. /\ writer_tail # t
        /\ \A u \in Thread : me[u].pc = "link" => me[u].W # t
        /\ \A u \in Thread : me'[u].pc = "link" => u # t /\ me'[u] = me[u]
    <3>1. t # NULL /\ Linked
      BY DEF Assumptions, Queue
    <3>2. writer_tail # t /\ \A u \in Thread : me[u].pc = "link" => me[u].W # t
      BY <3>1 DEF Linked
    <3>3. \A u \in Thread : me'[u].pc = "link" => u # t /\ me'[u] = me[u]
      BY <1>3
    <3> QED
      BY <3>2, <3>3
  <2>3. writer_tail' # NULL =>
          /\ InQueue(writer_tail)' /\ next'[writer_tail'] = NULL
          /\ \A u \in Thread : me'[u].pc = "link" => me'[u].W # writer_tail'
    BY <1>4, <2>1, <2>2 DEF Queue, Linked, Node
  <2>4. \A u \in Thread : me'[u].pc = "link" =>
          me'[u].W \in Thread /\ InQueue(me[u].W)' /\ next'[me'[u].W] = NULL
    BY <1>4, <2>2 DEF Queue, Linked
  <2>5. \A u \in Thread : InQueue(u)' /\ next'[u] # NULL =>
          Waits(next[u])' /\ \A v \in Thread : Serves(v)' => me'[v].W # next'[u]
    BY <1>2, <1>4, <1>5, <1>6, <2>1 DEF Queue, Linked
  <2>6. \A u, v \in Thread :
          /\ InQueue(u)' /\ InQueue(v)' /\ next'[u] = next'[v] /\ next'[u] # NULL => u = v
          /\ me'[u].pc = "link" /\ me'[v].pc = "link" /\ me'[u].W = me'[v].W => u = v
    BY <1>2, <1>4, <2>2 DEF Queue, Linked
  <2> QED
    BY <2>3, <2>4, <2>5, <2>6 DEF Linked
<1> QED
  BY <1>7, <1>8, <1>9, <1>10 DEF Queue

LEMMA ServeNextInv ==
  ASSUME Assumptions, Inv, NEW t \in Thread, NEW from \in {"tried", "await_next"},
         CallWith(t, from, "set_head", next[t], "delete"), next[t] # NULL,
         UNCHANGED <<words, my_current_writer, nodes>>
  PROVE  Inv'
<1>1. /\ TypeOK /\ Queue
      /\ UNCHANGED <<rdr, reader_head, writer_head, writer_tail, my_current_writer, status, next>>
  BY DEF Inv, words, nodes
<1>2. /\ me[t].pc = from /\ me'[t].pc = "set_head" /\ me'[t].I = me[t].I /\ me'[t].W = next[t]
      /\ me'[t].return = "delete" /\ Others(t) /\ me' \in [Thread -> Local]
  <2>1. /\ me[t].pc = from /\ me \in [Thread -> Local] /\ next[t] \in Node
        /\ me' = [me EXCEPT ![t].pc = "set_head", ![t].W = next[t], ![t].return = "delete"]
    BY <1>1 DEF CallWith, At, TypeOK
  <2>2. /\ me[t] \in Local /\ Others(t)
        /\ me'[t] = [me[t] EXCEPT !.pc = "set_head", !.W = next[t], !.return = "delete"]
    BY <2>1 DEF Others
  <2>3. me'[t] \in Local
    BY <2>1, <2>2 DEF Local, PC, SetNext
  <2>4. me' \in [Thread -> Local]
    BY <2>1, <2>2, <2>3 DEF Others
  <2> QED
    BY <2>1, <2>2, <2>4 DEF Local
<1>3. /\ HasTurn(t) /\ HasTurn(t)' /\ NoReader(t) /\ NoReader(t)' /\ ~Shuts(t)' /\ ~Granted(t)'
  BY <1>2 DEF HasTurn, NoReader, Shuts, Granted, SetNext, Leave, LetIn, Opens
<1>4. TypeOK'
  BY <1>1, <1>2 DEF TypeOK
<1>5. Queue'
  BY <1>1, <1>2, ServeNextQueue
<1> QED
  BY <1>1, <1>2, <1>3, <1>4, <1>5, TurnInv

LEMMA AwaitNextInv ==
  ASSUME Assumptions, Inv, NEW t \in Thread, AwaitNext(t) PROVE Inv'
<1>1. TypeOK /\ Queue /\ me[t].pc \in Leave
  BY DEF Inv, AwaitNext, At, Leave
<1>2. me[t].I = t
  BY <1>1, Leaver
<1> QED
  BY <1>2, ServeNextInv DEF AwaitNext

LEMMA TriedInv ==
  ASSUME Assumptions, Inv, NEW t \in Thread, Tried(t) PROVE Inv'
<1>1. /\ TypeOK /\ Queue /\ me[t].pc = "tried"
      /\ UNCHANGED <<rdr, reader_head, writer_head, writer_tail, my_current_writer, status, next>>
  BY DEF Inv, Tried, At, Await, words, nodes
<1>2. CASE status[t] # "active" /\ next[t] # NULL
  BY <1>2, ServeNextInv DEF Tried
<1>3. CASE status[t] = "active" \/ next[t] = NULL
  <2>1. PICK to \in {"wait_write", "clear_head"} :
          Goto(t, "tried", to) /\ (to = "wait_write" <=> status[t] = "active")
    BY <1>3 DEF Tried, Await
  <2>2. /\ me'[t].pc = to /\ me'[t].I = me[t].I /\ Others(t) /\ me' \in [Thread -> Local]
    <3>1. to \in PC
      BY DEF PC, Leave
    <3> QED
      BY <1>1, <2>1, <3>1, GotoStep
  <2>3. writer_head = t
    BY <1>1 DEF Queue, AtHead
  <2>4. /\ HasTurn(t) /\ HasTurn(t)' /\ InQueue(t) /\ InQueue(t)' /\ ~Serves(t) /\ ~Serves(t)'
        /\ NoReader(t) /\ NoReader(t)'
        /\ (Shuts(t)' => Shuts(t)) /\ (Granted(t)' => Granted(t))
        /\ me'[t].pc \notin SetNext \cup LetIn
    BY <1>1, <2>1, <2>2 DEF HasTurn, InQueue, Serves, NoReader, Shuts, Granted, Active, SetNext,
                            Leave, LetIn, Opens
  <2>5. TypeOK'
    BY <1>1, <2>2 DEF TypeOK
  <2>6. Knows(t)'
    <3>1. Knows(t)
      BY <1>1 DEF Queue, Writers
    <3> QED
      BY <1>1, <2>1, <2>2, <2>4, <3>1 DEF Knows
  <2>7. Queue'
    BY <1>1, <2>1, <2>2, <2>3, <2>4, <2>6, TurnQueue
  <2> QED
    BY <1>1, <2>2, <2>4, <2>5, <2>7, TurnInv
<1> QED
  BY <1>2, <1>3

\* t, whose turn it is, hands it to w, the next writer, and is done.
HandsOver(t, w) ==
    /\ HasTurn(t) /\ NoReader(t) /\ Waits(w) /\ w # t /\ writer_head = w
    /\ me[t].pc # "writing" /\ status[t] # "invalid"
    /\ writer_tail # t /\ \A u \in Thread : me[u].pc = "link" => me[u].W # t
    /\ \A u \in Thread : InQueue(u) /\ u # t => next[u] # w

LEMMA HandOverQueue ==
  ASSUME Assumptions, TypeOK, Queue, NEW t \in Thread, NEW w \in Thread, HandsOver(t, w),
         me'[t].pc = "delete", me'[t].I = me[t].I, Others(t),
         status' = [status EXCEPT ![w] = "active"],
         UNCHANGED <<writer_head, writer_tail, my_current_writer, next>>
  PROVE  Queue'
<1>1. /\ HasTurn(t) /\ Knows(t) /\ me[w].pc = "wait_write" /\ status[w] = "waiting" /\ w # t
      /\ me[t].pc \notin {"link", "writing", "delete"} /\ ~Waits(t)
      /\ status'[w] = "active" /\ \A u \in Thread : u # w => status'[u] = status[u]
  BY DEF HasTurn, HandsOver, Queue, Writers, Waits, SetNext, Leave, TypeOK, Ends, LetIn, Opens, Active
<1>2. /\ ~HasTurn(t)' /\ ~InQueue(t)' /\ ~Serves(t)' /\ ~Waits(t)'
      /\ me'[t].pc \notin SetNext \cup LetIn \cup Leave
  BY DEF HasTurn, InQueue, Serves, Waits, SetNext, LetIn, Opens, Leave, Ends
<1>3. \A u \in Thread : u # t => ~HasTurn(u) /\ me'[u] = me[u]
  BY <1>1 DEF Queue, Turns, Others
<1>4. HasTurn(w)' /\ Active(w)'
  BY <1>1, <1>3 DEF HasTurn, Active
<1>10. \A u \in Thread : u # t => /\ ~Serves(u)' /\ ~Serves(u)
                                  /\ InQueue(u)' <=> InQueue(u)
  BY <1>3 DEF HasTurn, InQueue, Serves, Ends
<1>11. \A u \in Thread : HasTurn(u)' => u = w
  BY <1>1, <1>2, <1>3 DEF HasTurn, Active, Ends
<1>5. \A u \in Node : u # w => (Waits(u)' <=> Waits(u))
  BY <1>1, <1>2, <1>3 DEF Waits, Node
<1>6. writer_tail # NULL /\ Turns'
  BY <1>1, <1>4, <1>10, <1>11 DEF Queue, Turns
<1>7. Writers'
  <2> SUFFICES ASSUME NEW u \in Thread PROVE Knows(u)'
    BY DEF Writers
  <2>1. CASE u = t
    <3>1. status'[t] # "invalid" /\ me'[t].I = t /\ my_current_writer' # t
      BY <1>1 DEF HandsOver, Knows
    <3> QED
      BY <1>2, <2>1, <3>1 DEF Knows
  <2>2. CASE u = w
    <3>1. Knows(w) /\ w \notin {NULL} /\ me'[w] = me[w]
      BY <1>1, <1>3 DEF Queue, Writers, Assumptions
    <3>2. InQueue(w) /\ ~Serves(w)' /\ me[w].pc \notin SetNext \cup LetIn /\ w \in Thread
      BY <1>1, <3>1 DEF InQueue, Serves, SetNext, LetIn, Opens
    <3>3. me[w].I = w
      BY <1>1, <3>1 DEF Knows
    <3> QED
      BY <1>1, <2>2, <3>1, <3>2, <3>3 DEF Knows
  <2>3. CASE u # t /\ u # w
    <3>1. me[u].W \in Node /\ Writers /\ ~HasTurn(u)'
      BY <1>4, <1>10, <1>11, <2>3 DEF TypeOK, Local, Queue
    <3>2. ~Serves(u)
      BY <1>4, <1>10, <1>11, <2>3
    <3> QED
      BY <1>1, <2>3, <3>1, <3>2, StillKnows
  <2> QED
    BY <2>1, <2>2, <2>3
<1>8. AtHead'
  <2>1. \A u \in Thread : u # t =>
          /\ me'[u].pc \notin SetNext \cup {"tried", "writing", "next_writer", "pass_on"}
          /\ me'[u].pc = "wait_write" /\ Active(u)' => u = w
    BY <1>3, <1>4, <1>10, <1>11 DEF HasTurn, Leave
  <2>2. writer_head' = w /\ me'[w].pc \notin {"clear_tail", "await_next"}
    BY <1>1, <1>3 DEF HandsOver
  <2> QED
    BY <1>2, <1>4, <1>10, <1>11, <2>1, <2>2 DEF AtHead, SetNext
<1>9. Linked'
  <2>1. writer_tail \in Node /\ \A u \in Thread : next[u] \in Node
    BY DEF TypeOK
  <2>2. \A u \in Thread : me'[u].pc = "link" => u # t /\ me'[u] = me[u] /\ me[u].W # t
    BY <1>3 DEF HandsOver
  <2>3. writer_tail' # NULL =>
          /\ InQueue(writer_tail)' /\ next'[writer_tail'] = NULL
          /\ \A u \in Thread : me'[u].pc = "link" => me'[u].W # writer_tail'
    BY <1>4, <1>10, <1>11, <2>1, <2>2 DEF HandsOver, Queue, Linked, Node
  <2>4. \A u \in Thread : me'[u].pc = "link" =>
          me'[u].W \in Thread /\ InQueue(me[u].W)' /\ next'[me'[u].W] = NULL
    BY <1>4, <1>10, <1>11, <2>2 DEF Queue, Linked
  <2>5. \A u \in Thread : InQueue(u)' /\ next'[u] # NULL =>
          Waits(next[u])' /\ \A v \in Thread : Serves(v)' => me'[v].W # next'[u]
    BY <1>2, <1>4, <1>10, <1>11, <1>5, <2>1 DEF HandsOver, Queue, Linked
  <2>6. \A u, v \in Thread :
          /\ InQueue(u)' /\ InQueue(v)' /\ next'[u] = next'[v] /\ next'[u] # NULL => u = v
          /\ me'[u].pc = "link" /\ me'[v].pc = "link" /\ me'[u].W = me'[v].W => u = v
    BY <1>2, <1>4, <1>10, <1>11, <2>2 DEF Queue, Linked
  <2> QED
    BY <2>3, <2>4, <2>5, <2>6 DEF Linked
<1> QED
  BY <1>6, <1>7, <1>8, <1>9 DEF Queue

LEMMA HandOverInv ==
  ASSUME Assumptions, Inv, NEW t \in Thread, NEW w \in Thread, HandsOver(t, w), Granted(t),
         me'[t].pc = "delete", me'[t].I = me[t].I, Others(t), me' \in [Thread -> Local],
         SetStatus(w, "active")
  PROVE  Inv'
<1>1. /\ TypeOK /\ Queue /\ List /\ Group /\ Count /\ Door
      /\ status' = [status EXCEPT ![w] = "active"]
      /\ UNCHANGED <<rdr, reader_head, writer_head, writer_tail, my_current_writer, next>>
  BY DEF Inv, SetStatus, Set, words
<1>2. HasTurn(t) /\ NoReader(t) /\ w # t /\ me[w].pc = "wait_write" /\ status[w] = "waiting"
  BY DEF HandsOver, Waits
<1>3. NoReader(t)' /\ ~Refers(t) /\ ~Refers(w) /\ ~Shuts(t)' /\ ~Granted(t)'
  BY <1>2 DEF NoReader, Refers, Reads, LetIn, Opens, Shuts, Granted
<1>4. TypeOK' /\ \A u \in Thread : u # w => status'[u] = status[u]
  BY <1>1 DEF TypeOK
<1>5. Queue'
  BY <1>1, HandOverQueue
<1>6. /\ List' /\ Group' /\ Count'
      /\ \A u \in Thread : /\ Inside(u)' <=> Inside(u)
                           /\ me'[u].pc = "unblock" <=> me[u].pc = "unblock"
      /\ \A u \in Thread : u # t => me'[u] = me[u]
  BY <1>1, <1>2, <1>3, <1>4, WriterStep
<1>7. /\ rdr.WFLAG1
      /\ \A u \in Thread : me'[u].pc \in {"or_flag2", "await_readers"} => me'[u].pc = me[u].pc
  BY <1>1, <1>6 DEF Door, Shuts
<1>8. Door'
  BY <1>1, <1>6, <1>7, WriterDoor
<1> QED
  BY <1>4, <1>5, <1>6, <1>8 DEF Inv

LEMMA PassOnInv ==
  ASSUME Assumptions, Inv, NEW t \in Thread, PassOn(t) PROVE Inv'
<1>1. /\ TypeOK /\ Queue /\ Linked /\ Goto(t, "pass_on", "delete") /\ SetStatus(writer_head, "active")
      /\ me[t].pc = "pass_on" /\ me[t].pc \in Leave
  BY DEF Inv, Queue, PassOn, Goto, At, Leave
<1>2. /\ me'[t].pc = "delete" /\ me'[t].I = me[t].I /\ Others(t) /\ me' \in [Thread -> Local]
  <2>1. "delete" \in PC
    BY DEF PC
  <2> QED
    BY <1>1, <2>1, GotoStep
<1>3. HasTurn(t) /\ InQueue(t) /\ NoReader(t) /\ Knows(t)
  BY <1>1, Leaver
<1>4. writer_head = next[t] /\ writer_head # NULL
  BY <1>1 DEF Queue, AtHead
<1>5. PICK w \in Thread : w = writer_head /\ w = next[t] /\ Waits(w)
  BY <1>1, <1>3, <1>4 DEF Linked, Waits
<1>6. HandsOver(t, w)
  <2>1. w # t /\ status[t] # "invalid" /\ t # NULL /\ w # NULL
    BY <1>1, <1>3, <1>5 DEF Waits, Knows, Assumptions
  <2>2. writer_tail # t /\ \A u \in Thread : me[u].pc = "link" => me[u].W # t
    BY <1>1, <1>5, <2>1 DEF Linked
  <2>3. \A u \in Thread : InQueue(u) /\ u # t => next[u] # w
    BY <1>1, <1>3, <1>5, <2>1 DEF Linked
  <2> QED
    BY <1>1, <1>3, <1>5, <2>1, <2>2, <2>3 DEF HandsOver
<1>7. Granted(t)
  BY <1>1 DEF Granted
<1> QED
  BY <1>1, <1>2, <1>5, <1>6, <1>7, HandOverInv

LEMMA ActivateInv ==
  ASSUME Assumptions, Inv, NEW t \in Thread, Activate(t) PROVE Inv'
<1>1. /\ TypeOK /\ Queue /\ Linked /\ Return(t, "activate") /\ SetStatus(me[t].W, "active")
  BY DEF Inv, Queue, Activate
<1>2. /\ me[t].pc = "activate" /\ me'[t].pc = me[t].return
      /\ me'[t].I = me[t].I /\ me'[t].W = NULL
      /\ Others(t) /\ me' \in [Thread -> Local]
  BY <1>1, ReturnStep
<1>3. /\ HasTurn(t) /\ Knows(t) /\ me[t].pc \in SetNext \ {"set_head"} /\ NoReader(t) /\ Granted(t)
      /\ Shuts(t)
  BY <1>1, <1>2 DEF HasTurn, Queue, Writers, SetNext, NoReader, Granted, Shuts, LetIn, Opens
<1>4. writer_head = me[t].W
  BY <1>1, <1>3 DEF Queue, AtHead
<1>5. CASE me[t].return = "delete"
  <2>1. PICK w \in Thread : w = me[t].W /\ Waits(w)
    BY <1>3, <1>5 DEF Knows, Waits
  <2>2. Serves(t) /\ ~InQueue(t) /\ status[t] # "invalid" /\ w # t
    BY <1>2, <1>3, <1>5, <2>1 DEF Serves, InQueue, Ends, Leave, LetIn, Opens, SetNext, Waits, Knows
  <2>3. /\ writer_tail # t /\ \A u \in Thread : me[u].pc = "link" => me[u].W # t
        /\ \A u \in Thread : InQueue(u) /\ u # t => next[u] # w
    BY <1>1, <2>1, <2>2 DEF Linked, Assumptions
  <2>4. HandsOver(t, w)
    BY <1>2, <1>3, <1>4, <2>1, <2>2, <2>3 DEF HandsOver
  <2> QED
    BY <1>1, <1>2, <1>3, <1>5, <2>1, <2>4, HandOverInv
<1>6. CASE me[t].return # "delete"
  <2>1. me[t].return = "wait_write" /\ me[t].W = t /\ me[t].I = t
    BY <1>2, <1>3, <1>6 DEF Knows
  <2>2. /\ status' = [status EXCEPT ![t] = "active"]
        /\ UNCHANGED <<rdr, reader_head, writer_head, writer_tail, my_current_writer, next>>
    BY <1>1, <2>1 DEF SetStatus, Set, words
  <2>3. /\ TypeOK' /\ status'[t] = "active"
        /\ \A u \in Thread : u # t => status'[u] = status[u]
    BY <1>1, <1>2, <2>2 DEF TypeOK
  <2>4. /\ HasTurn(t)' /\ InQueue(t) /\ InQueue(t)' /\ ~Serves(t) /\ ~Serves(t)' /\ NoReader(t)'
        /\ me'[t].pc \notin LetIn \cup SetNext
    BY <1>2, <1>3, <2>1, <2>3 DEF HasTurn, InQueue, Serves, NoReader, Active, LetIn, Opens, SetNext
  <2>5. Knows(t)'
    BY <1>2, <1>3, <2>1, <2>2, <2>3, <2>4 DEF Knows
  <2>6. Queue'
    BY <1>1, <1>2, <1>3, <1>4, <2>1, <2>2, <2>3, <2>4, <2>5, TurnQueue
  <2> QED
    BY <1>2, <1>3, <2>1, <2>2, <2>3, <2>4, <2>6, TurnInv
<1> QED
  BY <1>5, <1>6

\* A writer that finds itself last empties the queue.
LEMMA ClearTailQueue ==
  ASSUME Assumptions, TypeOK, Queue, NEW t \in Thread, me[t].pc = "clear_tail",
         writer_tail = t, writer_tail' = NULL,
         me'[t].pc = "delete", me'[t].I = me[t].I, Others(t),
         UNCHANGED <<writer_head, my_current_writer, status, next>>
  PROVE  Queue'
<1>1. /\ HasTurn(t) /\ InQueue(t) /\ ~Serves(t) /\ Knows(t) /\ writer_head = NULL /\ ~Waits(t)
      /\ me[t].I = t
  <2>1. me[t].pc \in Leave
    BY DEF Leave
  <2> QED
    BY <2>1, Leaver DEF Waits
<1>2. /\ ~HasTurn(t)' /\ ~InQueue(t)' /\ ~Serves(t)' /\ ~Waits(t)'
      /\ me'[t].pc \notin SetNext \cup LetIn \cup Leave
  BY DEF HasTurn, InQueue, Serves, Waits, SetNext, LetIn, Opens, Leave, Ends
<1>3. \A u \in Thread : u # t => ~HasTurn(u) /\ me'[u] = me[u]
  BY <1>1 DEF Queue, Turns, Others
<1>4. \A u \in Thread : u # t => /\ ~HasTurn(u)' /\ ~Serves(u)'
                                 /\ InQueue(u)' <=> InQueue(u)
  BY <1>3 DEF HasTurn, InQueue, Serves, Ends, Active
<1>5. \A u \in Node : Waits(u)' <=> Waits(u)
  BY <1>1, <1>2, <1>3 DEF Waits, Node
<1>6. Turns'
  BY <1>2, <1>4 DEF Turns
<1>7. Writers'
  <2> SUFFICES ASSUME NEW u \in Thread PROVE Knows(u)'
    BY DEF Writers
  <2>1. CASE u = t
    <3>1. my_current_writer' # t /\ status'[t] # "invalid" /\ me'[t].I = t
      BY <1>1 DEF Knows
    <3> QED
      BY <1>1, <1>2, <2>1, <3>1 DEF Knows
  <2>2. CASE u # t
    <3>1. me[u].W \in Node /\ Writers
      BY DEF TypeOK, Local, Queue
    <3> QED
      BY <1>3, <1>4, <1>5, <2>2, <3>1, StillKnows
  <2> QED
    BY <2>1, <2>2
<1>8. AtHead'
  <2>1. \A u \in Thread : u # t =>
          /\ me'[u].pc \notin SetNext \cup {"tried", "writing", "next_writer", "pass_on"}
          /\ me'[u].pc = "wait_write" => ~Active(u)'
    BY <1>3 DEF HasTurn, Active, Leave
  <2> QED
    BY <1>1, <1>2, <2>1 DEF AtHead
<1>9. Linked'
  <2>1. /\ \A u \in Thread : next[u] \in Node
        /\ t # NULL /\ Linked
    BY DEF TypeOK, Assumptions, Queue
  <2>2. \A u \in Thread : me'[u].pc = "link" => u # t /\ me'[u] = me[u] /\ me[u].W # t
    BY <1>3, <2>1 DEF Linked
  <2>3. \A u \in Thread : me'[u].pc = "link" =>
          me'[u].W \in Thread /\ InQueue(me[u].W)' /\ next'[me'[u].W] = NULL
    BY <1>4, <2>1, <2>2 DEF Linked
  <2>4. \A u \in Thread : InQueue(u)' /\ next'[u] # NULL =>
          Waits(next[u])' /\ \A v \in Thread : Serves(v)' => me'[v].W # next'[u]
    BY <1>2, <1>4, <1>5, <2>1 DEF Linked
  <2>5. \A u, v \in Thread :
          /\ InQueue(u)' /\ InQueue(v)' /\ next'[u] = next'[v] /\ next'[u] # NULL => u = v
          /\ me'[u].pc = "link" /\ me'[v].pc = "link" /\ me'[u].W = me'[v].W => u = v
    BY <1>2, <1>4, <2>1, <2>2 DEF Linked
  <2> QED
    BY <2>3, <2>4, <2>5 DEF Linked
<1> QED
  BY <1>6, <1>7, <1>8, <1>9 DEF Queue

\* A step of a writer that has no lock and after which nobody has more claims
\* to it than before
LEMMA QuietInv ==
  ASSUME Assumptions, Inv, NEW t \in Thread, NoReader(t), NoReader(t)', TypeOK', Queue',
         Others(t), UNCHANGED <<rdr, reader_head>>,
         \A u \in Thread : Refers(u) => status'[u] = status[u] /\ next'[u] = next[u],
         \A u \in Thread : u # t => status'[u] = status[u],
         ~Shuts(t)', me'[t].pc \notin {"or_flag2", "await_readers"}
  PROVE  Inv'
<1>1. TypeOK /\ List /\ Group /\ Count /\ Door
  BY DEF Inv
<1>2. /\ List' /\ Group' /\ Count'
      /\ \A u \in Thread : /\ Inside(u)' <=> Inside(u)
                           /\ me'[u].pc = "unblock" <=> me[u].pc = "unblock"
      /\ \A u \in Thread : u # t => me'[u] = me[u]
  BY <1>1, WriterStep
<1>3. \A u \in Thread : u # t => (Granted(u)' <=> Granted(u)) /\ (Shuts(u)' <=> Shuts(u))
  BY <1>2 DEF Granted, Shuts, Active
<1>4. \A u \in Thread : (Granted(u)' => Granted(u)) /\ (Shuts(u)' => Shuts(u))
  BY <1>3 DEF Shuts
<1>5. Door'
  BY <1>1, <1>2, <1>4 DEF Door
<1> QED
  BY <1>2, <1>5 DEF Inv

LEMMA ClearTailInv ==
  ASSUME Assumptions, Inv, NEW t \in Thread, ClearTail(t) PROVE Inv'
<1>1. /\ TypeOK /\ Queue /\ me[t].pc = "clear_tail" /\ me[t].pc \in Leave
      /\ UNCHANGED <<rdr, reader_head, writer_head, my_current_writer, status, next>>
  BY DEF Inv, ClearTail, Await, Goto, At, Leave, words, nodes
<1>2. /\ HasTurn(t) /\ InQueue(t) /\ ~Serves(t) /\ NoReader(t) /\ Knows(t) /\ me[t].I = t
      /\ writer_head = NULL /\ ~Refers(t)
  BY <1>1, Leaver DEF Refers, Reads, LetIn, Opens
<1>3. CASE writer_tail = t
  <2>1. Goto(t, "clear_tail", "delete") /\ writer_tail' = NULL
    BY <1>2, <1>3 DEF ClearTail
  <2>2. me'[t].pc = "delete" /\ me'[t].I = me[t].I /\ Others(t) /\ me' \in [Thread -> Local]
    <3>1. "delete" \in PC
      BY DEF PC
    <3> QED
      BY <1>1, <2>1, <3>1, GotoStep
  <2>3. Queue'
    BY <1>1, <1>2, <1>3, <2>1, <2>2, ClearTailQueue
  <2>4. TypeOK' /\ NoReader(t)' /\ ~Shuts(t)'
    BY <1>1, <2>1, <2>2 DEF TypeOK, Node, NoReader, LetIn, Opens, Shuts, Granted
  <2> QED
    BY <1>1, <1>2, <2>2, <2>3, <2>4, QuietInv
<1>4. CASE writer_tail # t
  <2>1. Goto(t, "clear_tail", "await_next") /\ writer_tail' = writer_tail
    BY <1>2, <1>4 DEF ClearTail, Await, words
  <2>2. me'[t].pc = "await_next" /\ me'[t].I = me[t].I /\ Others(t) /\ me' \in [Thread -> Local]
    <3>1. "await_next" \in PC
      BY DEF PC, Leave
    <3> QED
      BY <1>1, <2>1, <3>1, GotoStep
  <2>3. /\ HasTurn(t)' /\ InQueue(t)' /\ ~Serves(t)' /\ NoReader(t)' /\ ~Shuts(t)' /\ ~Granted(t)'
        /\ me'[t].pc \notin SetNext \cup LetIn
    BY <2>2 DEF HasTurn, InQueue, Serves, NoReader, Shuts, Granted, SetNext, Leave, LetIn, Opens
  <2>4. Knows(t)'
    BY <1>1, <1>2, <2>2, <2>3 DEF Knows
  <2>5. Queue'
    BY <1>1, <1>2, <2>1, <2>2, <2>3, <2>4, TurnQueue
  <2>6. TypeOK'
    BY <1>1, <2>1, <2>2 DEF TypeOK
  <2> QED
    BY <1>1, <1>2, <2>2, <2>3, <2>5, <2>6, TurnInv
<1> QED
  BY <1>3, <1>4

LEMMA DeleteInv ==
  ASSUME Assumptions, Inv, NEW t \in Thread, Delete(t) PROVE Inv'
<1>1. TypeOK /\ Queue /\ me[t].pc = "delete" /\ Knows(t) /\ me[t].I = t
  BY DEF Inv, Delete, At, Queue, Writers, Knows
<1>2. /\ UNCHANGED <<rdr, reader_head, writer_head, writer_tail, my_current_writer, next>>
      /\ status' = [status EXCEPT ![t] = "invalid"] /\ me' = Set(me, t, Idle)
  BY <1>1 DEF Delete, SetStatus, Set, words
<1>3. /\ me'[t].pc = "idle" /\ Others(t) /\ me' \in [Thread -> Local]
  <2>1. Idle \in Local /\ Idle.pc = "idle"
    BY DEF Idle, Local, PC, Node
  <2> QED
    BY <1>1, <1>2, <2>1, SetStep
<1>4. TypeOK' /\ \A u \in Thread : u # t => me'[u] = me[u] /\ status'[u] = status[u]
  BY <1>1, <1>2, <1>3 DEF TypeOK, Others
<1>5. /\ ~HasTurn(t) /\ ~InQueue(t) /\ ~Serves(t) /\ ~Waits(t) /\ NoReader(t) /\ ~Refers(t)
      /\ ~HasTurn(t)' /\ ~InQueue(t)' /\ ~Serves(t)' /\ ~Waits(t)' /\ NoReader(t)' /\ ~Shuts(t)'
      /\ me'[t].pc \notin SetNext \cup LetIn
  BY <1>1, <1>3 DEF HasTurn, InQueue, Serves, Waits, NoReader, Refers, Reads, Shuts, Granted, Ends,
                    SetNext, Leave, LetIn, Opens
<1>6. \A u \in Thread : u # t => /\ HasTurn(u)' <=> HasTurn(u)
                                 /\ InQueue(u)' <=> InQueue(u)
                                 /\ Serves(u)' <=> Serves(u)
  BY <1>4 DEF HasTurn, InQueue, Serves, Ends, Active
<1>7. \A u \in Node : Waits(u)' <=> Waits(u)
  BY <1>4, <1>5 DEF Waits, Node
<1>8. Turns'
  BY <1>1, <1>2, <1>5, <1>6 DEF Queue, Turns
<1>9. Writers'
  <2> SUFFICES ASSUME NEW u \in Thread PROVE Knows(u)'
    BY DEF Writers
  <2>1. CASE u = t
    BY <1>1, <1>2, <1>3, <1>5, <2>1 DEF Knows
  <2>2. CASE u # t
    <3>1. me[u].W \in Node /\ Writers
      BY <1>1 DEF TypeOK, Local, Queue
    <3> QED
      BY <1>1, <1>2, <1>3, <1>4, <1>6, <1>7, <2>2, <3>1, StillKnows
  <2> QED
    BY <2>1, <2>2
<1>10. AtHead'
  <2>1. \A u \in Thread : me'[u].pc # "idle" => u # t
    BY <1>3
  <2>2. \A u \in Thread : HasTurn(u) => u # t
    BY <1>5
  <2>3. AtHead
    BY <1>1 DEF Queue
  <2>4. \A u \in Thread :
          /\ me'[u].pc \in SetNext \ {"set_head"} => writer_head' = me'[u].W
          /\ me'[u].pc \in {"tried", "writing", "next_writer"} => writer_head' = u
          /\ me'[u].pc = "wait_write" /\ Active(u)' => writer_head' = u
          /\ me'[u].pc = "pass_on" => writer_head' = next'[u] /\ writer_head' # NULL
    BY <1>2, <1>3, <1>4, <1>5, <2>3 DEF AtHead, Active
  <2>5. writer_head' # NULL => \E u \in Thread :
          /\ HasTurn(u)'
          /\ \/ writer_head' = u /\ me'[u].pc \notin {"clear_tail", "await_next"}
             \/ writer_head' = me'[u].W /\ me'[u].pc \in SetNext
             \/ me'[u].pc = "pass_on"
    BY <1>2, <1>4, <1>6, <2>2, <2>3 DEF AtHead
  <2> QED
    BY <2>4, <2>5 DEF AtHead
<1>11. Linked'
  <2>1. writer_tail \in Node /\ (\A u \in Thread : next[u] \in Node) /\ Linked
    BY <1>1 DEF TypeOK, Queue
  <2>2. \A u \in Thread : /\ InQueue(u)' <=> InQueue(u)
                          /\ Serves(u)' <=> Serves(u)
                          /\ me'[u].pc = "link" <=> me[u].pc = "link"
                          /\ me[u].pc = "link" \/ Serves(u) => me'[u].W = me[u].W
    BY <1>1, <1>3, <1>4, <1>5, <1>6
  <2> QED
    BY <1>2, <1>7, <2>1, <2>2 DEF Linked, Node
<1>12. Queue'
  BY <1>8, <1>9, <1>10, <1>11 DEF Queue
<1>13. me'[t].pc \notin {"or_flag2", "await_readers"}
  BY <1>3
<1> QED
  BY <1>2, <1>3, <1>4, <1>5, <1>12, <1>13, QuietInv

\* t links itself behind the writer that was last when it came.
LEMMA LinkInv ==
  ASSUME Assumptions, Inv, NEW t \in Thread, Link(t) PROVE Inv'
<1>1. TypeOK /\ Queue /\ me[t].pc = "link" /\ Knows(t) /\ me[t].I = t /\ status[t] = "waiting"
  BY DEF Inv, Link, Goto, At, Queue, Writers, Knows
<1>2. PICK w \in Thread : /\ w = me[t].W /\ InQueue(w) /\ next[w] = NULL /\ w # writer_tail
                          /\ \A u \in Thread : me[u].pc = "link" /\ u # t => me[u].W # w
  BY <1>1 DEF Queue, Linked, Assumptions
<1>3. /\ UNCHANGED <<rdr, reader_head, writer_head, writer_tail, my_current_writer, status>>
      /\ next' = [next EXCEPT ![w] = t]
  BY <1>2 DEF Link, words, Set
<1>4. /\ me'[t].pc = "wait_write" /\ me'[t].I = t /\ Others(t) /\ me' \in [Thread -> Local]
  <2>1. "wait_write" \in PC
    BY DEF PC
  <2> QED
    BY <1>1, <2>1, GotoStep DEF Link
<1>5. /\ TypeOK' /\ next'[w] = t /\ \A u \in Thread : u # w => next'[u] = next[u]
      /\ \A u \in Thread : u # t => me'[u] = me[u]
      /\ t # NULL
  BY <1>1, <1>2, <1>3, <1>4 DEF TypeOK, Others, Node, Assumptions
<1>6. /\ ~HasTurn(t) /\ InQueue(t) /\ ~Serves(t) /\ ~Waits(t) /\ NoReader(t)
      /\ ~HasTurn(t)' /\ InQueue(t)' /\ ~Serves(t)' /\ Waits(t)' /\ NoReader(t)' /\ ~Shuts(t)'
      /\ me'[t].pc \notin SetNext \cup LetIn
  BY <1>1, <1>3, <1>4 DEF HasTurn, InQueue, Serves, Waits, NoReader, Active, Shuts, Granted,
                          Ends, SetNext, Leave, LetIn, Opens
<1>7. \A u \in Thread : /\ HasTurn(u)' <=> HasTurn(u)
                        /\ InQueue(u)' <=> InQueue(u)
                        /\ Serves(u)' <=> Serves(u)
                        /\ Serves(u) => me'[u].W = me[u].W
  BY <1>3, <1>5, <1>6 DEF HasTurn, InQueue, Serves, Ends, Active
<1>8. \A u \in Node : u # t => (Waits(u)' <=> Waits(u))
  BY <1>3, <1>5 DEF Waits, Node
<1>9. Turns'
  BY <1>1, <1>3, <1>7 DEF Queue, Turns
<1>10. Writers'
  <2> SUFFICES ASSUME NEW u \in Thread PROVE Knows(u)'
    BY DEF Writers
  <2>1. CASE u = t
    <3>1. my_current_writer' # t
      BY <1>1, <1>3 DEF Knows
    <3> QED
      BY <1>1, <1>3, <1>4, <1>6, <2>1, <3>1 DEF Knows
  <2>2. CASE u # t
    <3>1. me[u].W \in Node /\ Writers
      BY <1>1 DEF TypeOK, Local, Queue
    <3>2. Waits(me[u].W) => Waits(me[u].W)'
      BY <1>5, <1>6, <1>8, <2>2, <3>1
    <3> QED
      BY <1>1, <1>3, <1>4, <1>7, <2>2, <3>1, <3>2, StillKnows
  <2> QED
    BY <2>1, <2>2
<1>11. AtHead'
  <2>1. AtHead
    BY <1>1 DEF Queue
  <2>2. \A u \in Thread : me[u].pc = "pass_on" => u # w /\ u # t
    BY <1>1, <1>2, <2>1 DEF AtHead
  <2>3. \A u \in Thread : me'[u].pc \notin {"link", "wait_write"} => u # t
    BY <1>4
  <2>4. \A u \in Thread :
          /\ me'[u].pc \in SetNext \ {"set_head"} => writer_head' = me'[u].W
          /\ me'[u].pc \in {"tried", "writing", "next_writer"} => writer_head' = u
          /\ me'[u].pc = "wait_write" /\ Active(u)' => writer_head' = u
    BY <1>1, <1>3, <1>4, <1>5, <1>6, <2>1 DEF AtHead, Active
  <2>5. \A u \in Thread :
          me'[u].pc = "pass_on" => writer_head' = next'[u] /\ writer_head' # NULL
    BY <1>3, <1>4, <1>5, <2>1, <2>2, <2>3 DEF AtHead
  <2>6. writer_head' # NULL => \E u \in Thread :
          /\ HasTurn(u)'
          /\ \/ writer_head' = u /\ me'[u].pc \notin {"clear_tail", "await_next"}
             \/ writer_head' = me'[u].W /\ me'[u].pc \in SetNext
             \/ me'[u].pc = "pass_on"
    <3>1. \A u \in Thread : HasTurn(u) => u # t
      BY <1>6
    <3> QED
      BY <1>3, <1>5, <1>7, <2>1, <3>1 DEF AtHead
  <2> QED
    BY <2>4, <2>5, <2>6 DEF AtHead
<1>12. Linked'
  <2>1. writer_tail \in Node /\ (\A u \in Thread : next[u] \in Node) /\ Linked
    BY <1>1 DEF TypeOK, Queue
  <2>2. \A u \in Thread : me'[u].pc = "link" => u # t /\ me'[u] = me[u] /\ me[u].W # w
    BY <1>2, <1>4, <1>5
  <2>3. writer_tail' # NULL =>
          /\ InQueue(writer_tail)' /\ next'[writer_tail'] = NULL
          /\ \A u \in Thread : me'[u].pc = "link" => me'[u].W # writer_tail'
    BY <1>2, <1>3, <1>5, <1>7, <2>1, <2>2 DEF Linked, Node
  <2>4. \A u \in Thread : me'[u].pc = "link" =>
          me'[u].W \in Thread /\ InQueue(me[u].W)' /\ next'[me'[u].W] = NULL
    BY <1>5, <1>7, <2>1, <2>2 DEF Linked
  <2>5. \A u \in Thread : InQueue(u) /\ next[u] # NULL => next[u] # t
    BY <1>6, <2>1 DEF Linked
  <2>6. \A u \in Thread : Serves(u) => me[u].W # t
    BY <1>1, <1>6 DEF Queue, Writers, Knows, Serves
  <2>7. \A u \in Thread : InQueue(u)' /\ next'[u] # NULL =>
          Waits(next[u])' /\ \A v \in Thread : Serves(v)' => me'[v].W # next'[u]
    <3> SUFFICES ASSUME NEW u \in Thread, InQueue(u)', next'[u] # NULL
                 PROVE  Waits(next[u])' /\ \A v \in Thread : Serves(v)' => me'[v].W # next'[u]
      OBVIOUS
    <3>1. CASE u = w
      <4>1. next'[u] = t
        BY <1>5, <3>1
      <4>2. \A v \in Thread : Serves(v)' => me'[v].W # t
        BY <1>7, <2>6
      <4> QED
        BY <1>6, <4>1, <4>2
    <3>2. CASE u # w
      <4>1. next'[u] = next[u] /\ InQueue(u) /\ next[u] # NULL
        BY <1>5, <1>7, <3>2
      <4>2. Waits(next[u]) /\ \A v \in Thread : Serves(v) => me[v].W # next[u]
        BY <2>1, <4>1 DEF Linked
      <4>3. next[u] # t /\ next[u] \in Node
        BY <2>1, <2>5, <4>1
      <4> QED
        BY <1>7, <1>8, <4>1, <4>2, <4>3
    <3> QED
      BY <3>1, <3>2
  <2>8. \A u, v \in Thread :
          /\ InQueue(u)' /\ InQueue(v)' /\ next'[u] = next'[v] /\ next'[u] # NULL => u = v
          /\ me'[u].pc = "link" /\ me'[v].pc = "link" /\ me'[u].W = me'[v].W => u = v
    BY <1>5, <1>7, <2>1, <2>2, <2>5 DEF Linked
  <2> QED
    BY <2>3, <2>4, <2>7, <2>8 DEF Linked
<1>13. Queue'
  BY <1>9, <1>10, <1>11, <1>12 DEF Queue
<1>14. /\ me'[t].pc \notin {"or_flag2", "await_readers"}
       /\ ~Refers(w)
  <2>1. ~Refers(w)
    BY <1>2 DEF Refers, Reads, InQueue, Serves, SetNext, Leave, Ends, LetIn, Opens
  <2> QED
    BY <1>4, <2>1
<1> QED
  BY <1>3, <1>4, <1>5, <1>6, <1>13, <1>14, QuietInv

\* t joins: it finds no tail and has its turn at once, or is to link itself
\* behind the last one.
LEMMA EnqueueInv ==
  ASSUME Assumptions, Inv, NEW t \in Thread, NEW s, NEW r \in Local, me[t].pc = "idle",
         Enqueue(t, s), me' = Set(me, t, r), r.I = t,
         \/ /\ writer_tail = NULL /\ r.pc = "set_head" /\ r.W = t
            /\ \/ s = "waiting" /\ r.return = "wait_write"
               \/ s = "waiting_nonblocking" /\ r.return = "tried"
         \/ writer_tail # NULL /\ r.pc = "link" /\ r.W = writer_tail /\ s = "waiting"
  PROVE  Inv'
<1>1. /\ TypeOK /\ Queue /\ writer_tail' = t
      /\ status' = [status EXCEPT ![t] = s] /\ next' = [next EXCEPT ![t] = NULL]
      /\ UNCHANGED <<rdr, reader_head, writer_head, my_current_writer>>
  BY DEF Inv, Enqueue, Set
<1>2. me'[t] = r /\ Others(t) /\ me' \in [Thread -> Local]
  BY <1>1, SetStep
<1>3. /\ TypeOK' /\ status'[t] = s /\ next'[t] = NULL /\ t # NULL
      /\ \A u \in Thread : u # t => me'[u] = me[u] /\ status'[u] = status[u] /\ next'[u] = next[u]
  BY <1>1, <1>2 DEF TypeOK, Others, Node, Assumptions
<1>4. /\ ~HasTurn(t) /\ ~InQueue(t) /\ ~Serves(t) /\ ~Waits(t) /\ NoReader(t) /\ ~Refers(t)
  BY DEF HasTurn, InQueue, Serves, Waits, NoReader, Refers, Reads, Ends, SetNext, Leave, LetIn, Opens
<1>5. /\ (HasTurn(t)' => writer_tail = NULL) /\ (r.pc = "set_head" => HasTurn(t)')
      /\ InQueue(t)' /\ ~Serves(t)' /\ ~Waits(t)' /\ NoReader(t)' /\ ~Shuts(t)'
      /\ me'[t].pc \in {"set_head", "link"}
      /\ me'[t].pc \notin LetIn
      /\ me'[t].pc \in SetNext => me'[t].pc = "set_head"
  BY <1>2 DEF HasTurn, InQueue, Serves, Waits, NoReader, Shuts, Granted, Ends, SetNext, Leave,
              LetIn, Opens
<1>6. \A u \in Thread : u # t => /\ HasTurn(u)' <=> HasTurn(u)
                                 /\ InQueue(u)' <=> InQueue(u)
                                 /\ Serves(u)' <=> Serves(u)
  BY <1>3 DEF HasTurn, InQueue, Serves, Ends, Active
<1>7. \A u \in Node : Waits(u)' <=> Waits(u)
  BY <1>3, <1>4, <1>5 DEF Waits, Node
<1>8. Turns'
  BY <1>1, <1>3, <1>5, <1>6 DEF Queue, Turns
<1>9. Writers'
  <2> SUFFICES ASSUME NEW u \in Thread PROVE Knows(u)'
    BY DEF Writers
  <2>1. CASE u = t
    <3>1. my_current_writer' # t
      BY <1>1 DEF Queue, Writers, Knows
    <3> QED
      BY <1>2, <1>3, <1>5, <2>1, <3>1 DEF Knows
  <2>2. CASE u # t
    <3>1. me[u].W \in Node /\ Writers
      BY <1>1 DEF TypeOK, Local, Queue
    <3> QED
      BY <1>1, <1>2, <1>3, <1>6, <1>7, <2>2, <3>1, StillKnows
  <2> QED
    BY <2>1, <2>2
<1>10. AtHead'
  <2>1. AtHead
    BY <1>1 DEF Queue
  <2>2. \A u \in Thread :
          /\ me'[u].pc \in SetNext \ {"set_head"} => writer_head' = me'[u].W
          /\ me'[u].pc \in {"tried", "writing", "next_writer"} => writer_head' = u
          /\ me'[u].pc = "wait_write" /\ Active(u)' => writer_head' = u
          /\ me'[u].pc = "pass_on" => writer_head' = next'[u] /\ writer_head' # NULL
    BY <1>1, <1>3, <1>5, <2>1 DEF AtHead, Active
  <2>3. writer_head' # NULL => \E u \in Thread :
          /\ HasTurn(u)'
          /\ \/ writer_head' = u /\ me'[u].pc \notin {"clear_tail", "await_next"}
             \/ writer_head' = me'[u].W /\ me'[u].pc \in SetNext
             \/ me'[u].pc = "pass_on"
    <3>1. \A u \in Thread : HasTurn(u) => u # t
      BY <1>4
    <3> QED
      BY <1>1, <1>3, <1>6, <2>1, <3>1 DEF AtHead
  <2> QED
    BY <2>2, <2>3 DEF AtHead
<1>11. Linked'
  <2>1. writer_tail \in Node /\ (\A u \in Thread : next[u] \in Node) /\ Linked
    BY <1>1 DEF TypeOK, Queue
  <2>2. \A u \in Thread : me[u].pc = "link" => u # t /\ me[u].W # t
    BY <1>4, <2>1 DEF Linked
  <2>3. me'[t].pc = "link" => /\ me'[t].W = writer_tail /\ writer_tail \in Thread
                              /\ writer_tail # t /\ InQueue(writer_tail) /\ next[writer_tail] = NULL
                              /\ \A u \in Thread : me[u].pc = "link" => me[u].W # writer_tail
    BY <1>2, <1>4, <2>1 DEF Linked, Node
  <2>4. writer_tail' # NULL =>
          /\ InQueue(writer_tail)' /\ next'[writer_tail'] = NULL
          /\ \A u \in Thread : me'[u].pc = "link" => me'[u].W # writer_tail'
    <3>1. \A u \in Thread : me'[u].pc = "link" => me'[u].W # t
      BY <1>3, <2>2, <2>3
    <3>2. InQueue(writer_tail)'
      BY <1>1, <1>5
    <3> QED
      BY <1>1, <1>3, <3>1, <3>2
  <2>5. \A u \in Thread : me'[u].pc = "link" =>
          me'[u].W \in Thread /\ InQueue(me[u].W)' /\ next'[me'[u].W] = NULL
    <3> SUFFICES ASSUME NEW u \in Thread, me'[u].pc = "link"
                 PROVE  me'[u].W \in Thread /\ InQueue(me[u].W)' /\ next'[me'[u].W] = NULL
      OBVIOUS
    <3>1. PICK w \in Thread : w = me'[u].W /\ w # t /\ InQueue(w) /\ next[w] = NULL
      BY <1>3, <2>1, <2>2, <2>3 DEF Linked
    <3>2. InQueue(w)' /\ next'[w] = NULL
      BY <1>3, <1>6, <3>1
    <3> QED
      BY <3>1, <3>2
  <2>6. \A u \in Thread : InQueue(u)' /\ next'[u] # NULL =>
          Waits(next[u])' /\ \A v \in Thread : Serves(v)' => me'[v].W # next'[u]
    <3> SUFFICES ASSUME NEW u \in Thread, InQueue(u)', next'[u] # NULL
                 PROVE  Waits(next[u])' /\ \A v \in Thread : Serves(v)' => me'[v].W # next'[u]
      OBVIOUS
    <3>1. u # t /\ next'[u] = next[u] /\ InQueue(u) /\ next[u] # NULL
      BY <1>3, <1>6
    <3>2. Waits(next[u]) /\ \A v \in Thread : Serves(v) => me[v].W # next[u]
      BY <2>1, <3>1 DEF Linked
    <3> QED
      BY <1>3, <1>5, <1>6, <1>7, <2>1, <3>1, <3>2
  <2>7. \A u, v \in Thread :
          /\ InQueue(u)' /\ InQueue(v)' /\ next'[u] = next'[v] /\ next'[u] # NULL => u = v
          /\ me'[u].pc = "link" /\ me'[v].pc = "link" /\ me'[u].W = me'[v].W => u = v
    BY <1>3, <1>6, <2>1, <2>2, <2>3 DEF Linked
  <2> QED
    BY <2>4, <2>5, <2>6, <2>7 DEF Linked
<1>12. Queue'
  BY <1>8, <1>9, <1>10, <1>11 DEF Queue
<1>13. me'[t].pc \notin {"or_flag2", "await_readers"}
  BY <1>5
<1> QED
  BY <1>1, <1>2, <1>3, <1>4, <1>5, <1>12, <1>13, QuietInv

LEMMA LockInv ==
  ASSUME Assumptions, Inv, NEW t \in Thread, Lock(t) PROVE Inv'
<1> DEFINE r == [pc |-> IF writer_tail = NULL THEN "set_head" ELSE "link",
                 I |-> t, W |-> IF writer_tail = NULL THEN t ELSE writer_tail,
                 return |-> "wait_write"]
<1>1. writer_tail \in Node /\ me[t].pc = "idle" /\ me' = Set(me, t, r) /\ Enqueue(t, "waiting")
  BY DEF Inv, TypeOK, Lock, Request, At
<1>2. r \in Local
  BY <1>1 DEF Local, PC, SetNext, Node
<1> QED
  BY <1>1, <1>2, EnqueueInv

LEMMA TryLockInv ==
  ASSUME Assumptions, Inv, NEW t \in Thread, TryLock(t) PROVE Inv'
<1> DEFINE r == [pc |-> "set_head", I |-> t, W |-> t, return |-> "tried"]
<1>1. /\ writer_tail = NULL /\ me[t].pc = "idle" /\ me' = Set(me, t, r)
      /\ Enqueue(t, "waiting_nonblocking")
  BY DEF TryLock, Request, At
<1>2. r \in Local
  BY DEF Local, PC, SetNext, Node
<1> QED
  BY <1>1, <1>2, EnqueueInv

(***************************************************************************)
(* The invariant.                                                          *)
(***************************************************************************)
LEMMA InitInv ==
  ASSUME Assumptions, Init PROVE Inv
<1>1. \A t \in Thread : me[t] = Idle /\ me[t].pc = "idle" /\ status[t] = "invalid" /\ next[t] = NULL
  BY DEF Init, Idle
<1>2. TypeOK
  <2>1. Idle \in Local
    BY DEF Idle, Local, PC, Node
  <2> QED
    BY <2>1 DEF Init, TypeOK, Node, NoFlags
<1>3. \A t \in Thread :
        /\ ~HasTurn(t) /\ ~InQueue(t) /\ ~Serves(t) /\ ~Reads(t) /\ ~Refers(t) /\ ~First(t)
        /\ ~Owns(t) /\ ~Counts(t) /\ ~Inside(t) /\ ~Granted(t) /\ ~Shuts(t)
        /\ me[t].pc \notin SetNext \cup LetIn
  BY ZenonT(60), <1>1 DEF HasTurn, InQueue, Serves, Ends, Reads, Refers, First, Owns, Counts, Inside, Granted,
              Shuts, SetNext, Leave, LetIn, Opens
<1>4. Queue
  <2>1. Turns
    BY <1>3 DEF Turns
  <2>2. Writers
    BY <1>1, <1>3 DEF Writers, Knows, Init, Assumptions
  <2>3. AtHead
    BY <1>1, <1>3 DEF AtHead, Init
  <2>4. Linked
    BY <1>1, <1>3 DEF Linked, Init
  <2> QED
    BY <2>1, <2>2, <2>3, <2>4 DEF Queue
<1>5. List
  BY <1>1, <1>3 DEF List, Init
<1>6. Group
  BY <1>1, <1>3 DEF Group, Init, NoFlags
<1>7. Count
  <2>1. {t \in Thread : Owns(t)} = {} /\ {t \in Thread : Counts(t)} = {}
    BY <1>3
  <2> QED
    BY <2>1, FS_EmptySet DEF Count, Init, NoFlags
<1>8. Door
  BY <1>1, <1>3 DEF Door
<1> QED
  BY <1>2, <1>4, <1>5, <1>6, <1>7, <1>8 DEF Inv

LEMMA StepInv ==
  ASSUME Assumptions, Inv, [Next]_vars PROVE Inv'
<1>1. CASE UNCHANGED vars
  <2>1. /\ rdr' = rdr /\ reader_head' = reader_head /\ writer_head' = writer_head
        /\ writer_tail' = writer_tail /\ my_current_writer' = my_current_writer
        /\ status' = status /\ next' = next /\ me' = me
    BY <1>1 DEF vars, words, nodes
  <2>2. TypeOK /\ Queue /\ List /\ Group /\ Count /\ Door
    BY DEF Inv
  <2>3. TypeOK'
    BY <2>1, <2>2 DEF TypeOK
  <2>4. Queue'
    <3>1. \A t \in Thread : /\ HasTurn(t)' <=> HasTurn(t)
                            /\ InQueue(t)' <=> InQueue(t)
                            /\ Serves(t)' <=> Serves(t)
                            /\ Active(t)' <=> Active(t)
      BY <2>1 DEF HasTurn, InQueue, Serves, Ends, Active
    <3>2. \A t : Waits(t)' <=> Waits(t)
      BY <2>1 DEF Waits
    <3>3. Turns'
      BY <2>1, <2>2, <3>1 DEF Queue, Turns
    <3>4. Writers'
      <4> SUFFICES ASSUME NEW t \in Thread PROVE Knows(t)'
        BY DEF Writers
      <4>1. Knows(t)
        BY <2>2 DEF Queue, Writers
      <4> QED
        BY <2>1, <3>1, <3>2, <4>1 DEF Knows
    <3>5. AtHead'
      BY <2>1, <2>2, <3>1 DEF Queue, AtHead
    <3>6. Linked'
      <4>1. writer_tail # NULL => InQueue(writer_tail)' <=> InQueue(writer_tail)
        BY <2>1 DEF InQueue, Serves, Ends
      <4>2. \A t \in Thread : InQueue(me[t].W)' <=> InQueue(me[t].W)
        BY <2>1 DEF InQueue, Serves, Ends
      <4>3. Linked
        BY <2>2 DEF Queue
      <4> QED
        BY <2>1, <3>1, <3>2, <4>1, <4>2, <4>3 DEF Linked
    <3> QED
      BY <3>3, <3>4, <3>5, <3>6 DEF Queue
  <2>5. List'
    BY <2>1, <2>2 DEF List, Reads, Refers, Expects
  <2>6. Group'
    BY <2>1, <2>2 DEF Group, First, Reads, Owns, Active
  <2>7. Count'
    BY <2>1, <2>2 DEF Count, Counts, Owns, Reads, Active
  <2>8. Door'
    BY <2>1, <2>2 DEF Door, Granted, Shuts, Inside, Counts, Owns, Reads, Active
  <2> QED
    BY <2>3, <2>4, <2>5, <2>6, <2>7, <2>8 DEF Inv
<1>2. ASSUME NEW t \in Thread, Writing(t) PROVE Inv'
  BY <1>2, LockInv, TryLockInv, LinkInv, TriedInv, WaitWriteInv, StoreHeadInv, TryFlagsInv,
     ServeInv, ActivateInv DEF Writing
<1>3. ASSUME NEW t \in Thread, EndingWrite(t) PROVE Inv'
  BY <1>3, NextWriterInv, PassOnInv, ClearFlagsInv, ClearHeadInv, ClearTailInv, AwaitNextInv,
     DeleteInv DEF EndingWrite
<1>4. ASSUME NEW t \in Thread, Reading(t) PROVE Inv'
  BY <1>4, LockReadInv, OrRFlagInv, WaitReadInv, CountNextInv, WakeNextInv, TryLockReadInv,
     TakeBackInv DEF Reading
<1>5. ASSUME NEW t \in Thread, Unblocking(t) PROVE Inv'
  <2>1. ASSUME LookFlag1(t) \/ LookFlag2(t) \/ TellWriter(t) PROVE Inv'
    <3>1. PICK from \in {"look_flag1", "look_flag2", "tell_writer"},
               to \in {"look_flag2", "tell_writer", "take_list"} : Goto(t, from, to)
      BY <2>1 DEF LookFlag1, LookFlag2, TellWriter, Await
    <3>2. /\ UNCHANGED <<reader_head, writer_head, writer_tail, my_current_writer, status, next>>
          /\ rdr' = rdr \/ rdr' = [rdr EXCEPT !.WFLAG2 = TRUE]
      BY <2>1 DEF LookFlag1, LookFlag2, TellWriter, Await, SetFlags, words, nodes
    <3> QED
      BY <3>1, <3>2, LookInv
  <2> QED
    BY <1>5, <2>1, UnblockInv, TakeListInv, WakeHeadInv DEF Unblocking
<1> QED
  BY <1>1, <1>2, <1>3, <1>4, <1>5, UnlockInv DEF Next

\* Queue, list, count and door hold together in every reachable state of a
\* reader_writer_lock: the accesses of its functions keep them, one by one.
THEOREM LockInvariant == ASSUME Assumptions PROVE Spec => []Inv
BY InitInv, StepInv, PTL DEF Spec

LEMMA ExclusionFollows ==
  ASSUME Inv PROVE Exclusion
<1> SUFFICES ASSUME NEW t \in Thread, NEW u \in Thread, me[t].pc = "writing",
                    me[u].pc \in {"writing", "reading"}
             PROVE  t = u
  BY DEF Exclusion, At
<1>1. Granted(t) /\ HasTurn(t) /\ (me[u].pc = "writing" => HasTurn(u))
      /\ (me[u].pc = "reading" => Inside(u))
  BY DEF Granted, HasTurn, Inside, Owns
<1> QED
  BY <1>1 DEF Inv, Door, Queue, Turns

\* A writer has the lock alone, although readers and writers come, go, try and
\* give up at the same time and the word with the count and the flags is
\* changed by several of them between any two steps of the others.
THEOREM WriterAlone == ASSUME Assumptions PROVE Spec => []Exclusion
BY LockInvariant, ExclusionFollows, PTL

LEMMA PreferenceFollows ==
  ASSUME Inv PROVE WritersPreferred
<1> SUFFICES ASSUME NEW t \in Thread, At(t, "activate") \/ At(t, "writing"), NEW u \in Thread,
                    me[u].pc \in {"reading", "count_next", "wake_next"}
             PROVE  FALSE
  BY DEF WritersPreferred
<1>1. Granted(t) /\ Inside(u)
  BY DEF Granted, Inside, Owns, At
<1> QED
  BY <1>1 DEF Inv, Door

\* While a writer has the lock or is next to have it nobody is let in to read.
THEOREM WritersFirst == ASSUME Assumptions PROVE Spec => []WritersPreferred
BY LockInvariant, PreferenceFollows, PTL

LEMMA NodesFollow ==
  ASSUME Assumptions, Inv PROVE NoDanglingNode
<1>1. TypeOK /\ Queue /\ Turns /\ Writers /\ AtHead /\ Linked /\ List
  BY DEF Inv, Queue
<1>2. \A n : Waits(n) \/ Expects(n) => n \in Thread /\ status[n] # "invalid"
  BY DEF Waits, Expects
<1>3. \A n \in Thread : InQueue(n) \/ me[n].pc = "delete" => status[n] # "invalid"
  BY <1>1 DEF Writers, Knows
<1>4. ASSUME NEW t \in Thread, NEW n \in Targets(t)
      PROVE  n \in Thread /\ status[n] # "invalid"
  <2>1. CASE me[t].pc \in {"set_head", "try_flags", "activate"}
    <3>1. n = me[t].W /\ me[t].pc \in SetNext /\ Knows(t)
      BY <1>1, <1>4, <2>1 DEF Targets, SetNext, Writers
    <3> QED
      BY <1>2, <3>1 DEF Knows
  <2>2. CASE me[t].pc = "link"
    BY <1>1, <1>3, <1>4, <2>2 DEF Targets, Linked
  <2>3. CASE me[t].pc = "wake_head"
    BY <1>1, <1>2, <1>4, <2>3 DEF Targets, List
  <2>4. CASE me[t].pc \in {"next_writer", "await_next"}
    <3>1. n = me[t].I /\ me[t].pc \in Leave
      BY <1>4, <2>4 DEF Targets, Leave
    <3> QED
      BY <1>1, <1>3, <3>1, Leaver
  <2>5. CASE me[t].pc = "pass_on"
    <3>1. InQueue(t) /\ n = writer_head /\ writer_head = next[t] /\ next[t] # NULL
      BY <1>1, <1>4, <2>5 DEF Targets, InQueue, Leave, AtHead
    <3> QED
      BY <1>1, <1>2, <3>1 DEF Linked
  <2>6. CASE me[t].pc = "wake_next"
    BY <1>1, <1>2, <1>4, <2>6 DEF Targets, List, Refers
  <2>7. CASE me[t].pc = "delete"
    BY <1>1, <1>3, <1>4, <2>7 DEF Targets, Writers, Knows
  <2> QED
    BY <1>4, <2>1, <2>2, <2>3, <2>4, <2>5, <2>6, <2>7 DEF Targets
<1>5. writer_head # NULL => status[writer_head] # "invalid"
  <2> SUFFICES ASSUME writer_head # NULL PROVE status[writer_head] # "invalid"
    OBVIOUS
  <2>1. PICK t \in Thread :
          /\ HasTurn(t)
          /\ \/ writer_head = t /\ me[t].pc \notin {"clear_tail", "await_next"}
             \/ writer_head = me[t].W /\ me[t].pc \in SetNext
             \/ me[t].pc = "pass_on"
    BY <1>1 DEF AtHead
  <2>2. Knows(t) /\ (InQueue(t) \/ Serves(t) \/ me[t].pc = "delete" => status[t] # "invalid")
    BY <1>1 DEF Writers, Knows
  <2>3. InQueue(t) \/ Serves(t)
    BY <2>1 DEF HasTurn, InQueue, Serves
  <2>4. CASE writer_head = t
    BY <2>2, <2>3, <2>4
  <2>5. CASE writer_head = me[t].W /\ me[t].pc \in SetNext
    BY <1>2, <2>2, <2>5 DEF Knows
  <2>6. CASE me[t].pc = "pass_on"
    <3>1. InQueue(t) /\ writer_head = next[t] /\ next[t] # NULL
      BY <1>1, <2>6 DEF InQueue, Leave, AtHead
    <3> QED
      BY <1>1, <1>2, <3>1 DEF Linked
  <2> QED
    BY <2>1, <2>4, <2>5, <2>6
<1>6. /\ reader_head # NULL => status[reader_head] # "invalid"
      /\ writer_tail # NULL => status[writer_tail] # "invalid"
  BY <1>1, <1>2, <1>3 DEF List, Linked, TypeOK, Node
<1>7. ASSUME NEW t \in Thread, me[t].pc = "delete" PROVE writer_head # me[t].I
  <2>1. me[t].I = t /\ t # NULL /\ ~HasTurn(t) /\ ~Waits(t)
    BY <1>1, <1>7 DEF Writers, Knows, HasTurn, Waits, SetNext, Leave, Ends, LetIn, Opens, Assumptions
  <2>2. \A u \in Thread : me[u].pc = "pass_on" => Waits(writer_head)
    BY <1>1 DEF AtHead, Linked, InQueue, Leave
  <2>3. \A u \in Thread : HasTurn(u) /\ me[u].pc \in SetNext /\ writer_head = me[u].W =>
          writer_head = u \/ Waits(writer_head)
    BY <1>1 DEF Writers, Knows
  <2> QED
    BY <1>1, <2>1, <2>2, <2>3 DEF AtHead
<1> QED
  BY <1>4, <1>5, <1>6, <1>7 DEF NoDanglingNode, At

\* The node of a reader is on its stack and that of a writer is deleted after
\* end_write: nobody writes to one that is gone, and no head refers to one.
THEOREM NodesLive == ASSUME Assumptions PROVE Spec => []NoDanglingNode
BY LockInvariant, NodesFollow, PTL

(***************************************************************************)
(* Nobody waits in vain.                                                   *)
(*                                                                         *)
(* What the invariant above leaves open is that somebody goes on.  Behind  *)
(* the writer whose turn it is each one is linked to the one before it,    *)
(* or that one to it soon; a waiting reader is referred to by one who will *)
(* wake it; while the flags are set or readers are listed there is a       *)
(* thread that will see to them.  Who refers to another came before or     *)
(* after it, so that these references do not go round in a circle.         *)
(***************************************************************************)
\* t came before u, as the references between their nodes show.
Older(t, u) ==
    \/ InQueue(t) /\ next[t] = u
    \/ me[u].pc = "link" /\ me[u].W = t
    \/ Refers(u) /\ next[u] = t
Ordered ==
    /\ calls \in Nat
    /\ \E r \in [Thread -> Nat] :
        /\ \A t \in Thread : r[t] <= calls
        /\ \A t, u \in Thread : Older(t, u) => r[t] < r[u]

\* The writers: somebody has the turn, and each of the others is known to the
\* one before it.
Behind(t) == \E u \in Thread : (InQueue(u) /\ next[u] = t) \/ (Serves(u) /\ me[u].W = t)
LiveQueue ==
    /\ writer_tail # NULL => \E t \in Thread : HasTurn(t)
    /\ \A t \in Thread :
        /\ InQueue(t) => writer_tail # NULL
        /\ InQueue(t) /\ next[t] = NULL /\ t # writer_tail =>
            \E u \in Thread : me[u].pc = "link" /\ me[u].W = t
        /\ me[t].pc = "await_next" => t # writer_tail
        /\ InQueue(t) /\ ~HasTurn(t) /\ me[t].pc # "link" => Behind(t)

\* The readers: each that waits is referred to.
Known(t) ==
    \/ reader_head = t
    \/ \E u \in Thread : (me[u].pc = "wake_head" /\ me[u].W = t) \/ (Refers(u) /\ next[u] = t)
LiveList == \A t \in Thread : Expects(t) => Known(t)

\* The flags: who has set them or is to look at them is there.
Tells == {"unblock", "look_flag1", "look_flag2", "tell_writer"}
LiveDoor ==
    /\ reader_head # NULL => (\E t \in Thread : First(t)) \/ (rdr.RFLAG /\ rdr.WFLAG1)
    /\ rdr.RFLAG /\ ~rdr.WFLAG1 => \E t \in Thread : me[t].pc = "unblock"
    /\ rdr.WFLAG2 => rdr.WFLAG1
    /\ \A t \in Thread :
        /\ me[t].pc \in {"look_flag2", "tell_writer"} => rdr.WFLAG1
        /\ me[t].pc = "await_flag2" /\ ~rdr.WFLAG2 => \E u \in Thread : me[u].pc \in Tells
    /\ rdr.WFLAG1 => \E t \in Thread : Shuts(t)

Live == Ordered /\ LiveQueue /\ LiveList /\ LiveDoor

(***************************************************************************)
(* What these parts see of a thread, and steps that change none of it.     *)
(***************************************************************************)
SameInQueue(u) ==
    /\ HasTurn(u)' <=> HasTurn(u)
    /\ InQueue(u)' <=> InQueue(u)
    /\ InQueue(u) => next'[u] = next[u]
    /\ Serves(u)' <=> Serves(u)
    /\ Serves(u) => me'[u].W = me[u].W
    /\ me'[u].pc = "link" <=> me[u].pc = "link"
    /\ me[u].pc = "link" => me'[u].W = me[u].W
    /\ me'[u].pc = "await_next" => me[u].pc = "await_next" \/ u # writer_tail
SameInList(u) ==
    /\ Expects(u)' => Expects(u)
    /\ me[u].pc = "wake_head" => me'[u].pc = "wake_head" /\ me'[u].W = me[u].W
    /\ Refers(u)' => Refers(u) /\ next'[u] = next[u]
    /\ Refers(u) /\ next[u] # NULL => Refers(u)' /\ next'[u] = next[u]
SameAtDoor(u) ==
    /\ First(u) => First(u)'
    /\ me[u].pc = "unblock" => me'[u].pc = "unblock"
    /\ me'[u].pc \in {"look_flag2", "tell_writer"} => me[u].pc \in {"look_flag2", "tell_writer"}
    /\ me[u].pc \in Tells => me'[u].pc \in Tells
    /\ me'[u].pc = "await_flag2" => me[u].pc = "await_flag2"
    /\ Shuts(u) => Shuts(u)'
SameFlags == rdr'.WFLAG1 = rdr.WFLAG1 /\ rdr'.WFLAG2 = rdr.WFLAG2 /\ rdr'.RFLAG = rdr.RFLAG

LEMMA Unmoved ==
  ASSUME NEW u \in Thread, me'[u] = me[u], status'[u] = status[u], next'[u] = next[u]
  PROVE  SameInQueue(u) /\ SameInList(u) /\ SameAtDoor(u)
<1>1. /\ HasTurn(u)' <=> HasTurn(u)
      /\ InQueue(u)' <=> InQueue(u)
      /\ Serves(u)' <=> Serves(u)
  BY DEF HasTurn, InQueue, Serves, Ends, Active
<1>2. /\ Expects(u)' <=> Expects(u)
      /\ Refers(u)' <=> Refers(u)
  BY DEF Expects, Refers, Reads
<1>3. /\ First(u)' <=> First(u)
      /\ Shuts(u)' <=> Shuts(u)
  BY DEF First, Shuts, Granted, Active
<1>4. SameInQueue(u)
  BY <1>1 DEF SameInQueue
<1>5. SameInList(u)
  BY <1>2 DEF SameInList
<1>6. SameAtDoor(u)
  BY <1>3 DEF SameAtDoor
<1> QED
  BY <1>4, <1>5, <1>6

LEMMA OrderKept ==
  ASSUME Ordered, calls' \in {calls, calls + 1},
         \A t, u \in Thread : Older(t, u)' => Older(t, u)
  PROVE  Ordered'
<1>1. PICK r \in [Thread -> Nat] : /\ \A t \in Thread : r[t] <= calls
                                   /\ \A t, u \in Thread : Older(t, u) => r[t] < r[u]
  BY DEF Ordered
<1>2. calls \in Nat
  BY DEF Ordered
<1>3. calls' \in Nat /\ \A t \in Thread : r[t] <= calls'
  BY <1>1, <1>2
<1>4. \A t, u \in Thread : Older(t, u)' => r[t] < r[u]
  BY <1>1
<1> QED
  BY <1>3, <1>4 DEF Ordered

LEMMA OrderSame ==
  ASSUME Ordered, calls' \in {calls, calls + 1},
         \A u \in Thread : SameInQueue(u) /\ SameInList(u)
  PROVE  Ordered'
<1>1. ASSUME NEW t \in Thread, NEW u \in Thread, Older(t, u)' PROVE Older(t, u)
  BY <1>1 DEF Older, SameInQueue, SameInList
<1> QED
  BY <1>1, OrderKept

LEMMA QueueSame ==
  ASSUME LiveQueue, writer_tail' = writer_tail, \A u \in Thread : SameInQueue(u)
  PROVE  LiveQueue'
<1>1. writer_tail' # NULL => \E t \in Thread : HasTurn(t)'
  BY DEF LiveQueue, SameInQueue
<1>2. ASSUME NEW t \in Thread
      PROVE  /\ InQueue(t)' => writer_tail' # NULL
             /\ InQueue(t)' /\ next'[t] = NULL /\ t # writer_tail' =>
                  \E u \in Thread : me'[u].pc = "link" /\ me'[u].W = t
             /\ me'[t].pc = "await_next" => t # writer_tail'
             /\ InQueue(t)' /\ ~HasTurn(t)' /\ me'[t].pc # "link" => Behind(t)'
  <2>1. Behind(t) => Behind(t)'
    BY DEF Behind, SameInQueue
  <2> QED
    BY <2>1 DEF LiveQueue, SameInQueue
<1> QED
  BY <1>1, <1>2 DEF LiveQueue

LEMMA ListSame ==
  ASSUME Assumptions, LiveList, reader_head' = reader_head, \A u \in Thread : SameInList(u)
  PROVE  LiveList'
<1>1. ASSUME NEW t \in Thread, Expects(t)' PROVE Known(t)'
  <2>1. Known(t) /\ t # NULL
    BY <1>1 DEF LiveList, SameInList, Assumptions
  <2> QED
    BY <2>1 DEF Known, SameInList
<1> QED
  BY <1>1 DEF LiveList

LEMMA DoorSame ==
  ASSUME LiveDoor, reader_head' = reader_head, SameFlags, \A u \in Thread : SameAtDoor(u)
  PROVE  LiveDoor'
BY DEF LiveDoor, SameFlags, SameAtDoor

\* A step of t that the parts do not see.
LEMMA Quiet ==
  ASSUME Assumptions, Live, NEW t \in Thread, Others(t), calls' \in {calls, calls + 1},
         writer_tail' = writer_tail, reader_head' = reader_head, SameFlags,
         \A u \in Thread : u # t => status'[u] = status[u] /\ next'[u] = next[u],
         SameInQueue(t), SameInList(t), SameAtDoor(t)
  PROVE  Live'
<1>1. \A u \in Thread : SameInQueue(u) /\ SameInList(u) /\ SameAtDoor(u)
  BY Unmoved DEF Others
<1> QED
  BY <1>1, OrderSame, QueueSame, ListSame, DoorSame DEF Live

\* A step of t that the flags alone see.
LEMMA QuietFlags ==
  ASSUME Assumptions, Live, NEW t \in Thread, Others(t), calls' \in {calls, calls + 1},
         writer_tail' = writer_tail, reader_head' = reader_head,
         \A u \in Thread : u # t => status'[u] = status[u] /\ next'[u] = next[u],
         SameInQueue(t), SameInList(t)
  PROVE  /\ Ordered' /\ LiveQueue' /\ LiveList'
         /\ \A u \in Thread : u # t => SameAtDoor(u) /\ me'[u] = me[u]
<1>1. \A u \in Thread : SameInQueue(u) /\ SameInList(u) /\ (u # t => SameAtDoor(u) /\ me'[u] = me[u])
  BY Unmoved DEF Others
<1> QED
  BY <1>1, OrderSame, QueueSame, ListSame DEF Live

(***************************************************************************)
(* Steps that the parts do not see.                                        *)
(***************************************************************************)
\* A step within set_next_writer, end_write or start_write, or of a reader that is
\* inside.
LEMMA QuietMove ==
  ASSUME Assumptions, Inv, Live, NEW t \in Thread, NEW from, NEW to \in PC, Goto(t, from, to),
         \/ from = "set_head" /\ to \in {"try_flags", "or_flag1"}
         \/ from = "await_flag2" /\ to = "await_readers"
         \/ from = "await_readers" /\ to = "activate"
         \/ from = "next_writer" /\ to \in {"clear_flags", "pass_on"}
         \/ from = "clear_head" /\ to = "clear_tail"
         \/ from \in {"wait_write", "tried"} /\ to \in {"wait_write", "writing"} /\ Active(t)
         \/ from = "tried" /\ to = "clear_head" /\ ~Active(t)
         \/ from = "count_next" /\ to = "wake_next"
         \/ from = "wait_read" /\ to = "count_next" /\ Active(t)
         \/ from = "take_back" /\ to = "idle",
         UNCHANGED <<reader_head, writer_tail, status, next, calls>>, SameFlags
  PROVE  Live'
<1>1. /\ me[t].pc = from /\ me'[t].pc = to
      /\ me'[t].I = me[t].I /\ me'[t].W = me[t].W /\ me'[t].return = me[t].return
      /\ Others(t)
  BY GotoStep DEF Inv
<1>2. SameInQueue(t)
  BY <1>1 DEF SameInQueue, HasTurn, InQueue, Serves, Ends, Active, SetNext, Leave, LetIn, Opens
<1>3. SameInList(t)
  BY <1>1 DEF SameInList, Expects, Refers, Reads, Active, LetIn, Opens
<1>4. SameAtDoor(t)
  BY <1>1 DEF SameAtDoor, First, Shuts, Granted, Active, Tells, Opens
<1> QED
  BY <1>1, <1>2, <1>3, <1>4, Quiet

\* A thread that returns, or tries and finds it need not wait for anything.
LEMMA QuietLeave ==
  ASSUME Assumptions, Inv, Live, NEW t \in Thread, Others(t), calls' \in {calls, calls + 1},
         me[t].pc \in {"idle", "delete", "reading", "take_back", "wait_read"},
         me'[t].pc \in {"idle", "reading", "take_back"},
         me[t].pc = "wait_read" => Active(t) /\ next[t] = NULL,
         \A u \in Thread : u # t => status'[u] = status[u],
         UNCHANGED <<reader_head, writer_tail, next>>, SameFlags
  PROVE  Live'
<1>1. SameInQueue(t)
  BY DEF SameInQueue, HasTurn, InQueue, Serves, Ends, Active, SetNext, Leave, LetIn, Opens
<1>2. SameInList(t)
  BY DEF SameInList, Expects, Refers, Reads, Active, LetIn, Opens
<1>3. SameAtDoor(t)
  BY DEF SameAtDoor, First, Shuts, Granted, Active, Tells, Opens
<1> QED
  BY <1>1, <1>2, <1>3, Quiet

LEMMA WaitWriteLive ==
  ASSUME Assumptions, Inv, Live, NEW t \in Thread, WaitWrite(t) PROVE Live'
<1>1. /\ Goto(t, "wait_write", "writing") /\ Active(t) /\ "writing" \in PC
      /\ UNCHANGED <<reader_head, writer_tail, status, next, calls>> /\ SameFlags
  BY DEF WaitWrite, Active, PC, words, nodes, SameFlags
<1> QED
  BY <1>1, QuietMove

LEMMA StoreHeadLive ==
  ASSUME Assumptions, Inv, Live, NEW t \in Thread, StoreHead(t) PROVE Live'
<1>1. PICK to \in {"try_flags", "or_flag1"} : Goto(t, "set_head", to)
  BY DEF StoreHead
<1>2. to \in PC /\ UNCHANGED <<reader_head, writer_tail, status, next, calls>> /\ SameFlags
  BY DEF StoreHead, SetHead, PC, SetNext, nodes, SameFlags
<1> QED
  BY <1>1, <1>2, QuietMove

LEMMA AwaitLive ==
  ASSUME Assumptions, Inv, Live, NEW t \in Thread, AwaitFlag2(t) \/ AwaitReaders(t) PROVE Live'
<1>1. /\ Goto(t, "await_flag2", "await_readers") \/ Goto(t, "await_readers", "activate")
      /\ UNCHANGED <<reader_head, writer_tail, status, next, calls>> /\ SameFlags
  BY DEF AwaitFlag2, AwaitReaders, Await, words, nodes, SameFlags
<1>2. {"await_readers", "activate"} \subseteq PC
  BY DEF PC, SetNext
<1> QED
  BY <1>1, <1>2, QuietMove

LEMMA NextWriterLive ==
  ASSUME Assumptions, Inv, Live, NEW t \in Thread, NextWriter(t) PROVE Live'
<1>1. PICK to \in {"clear_flags", "pass_on"} : Goto(t, "next_writer", to)
  BY DEF NextWriter
<1>2. to \in PC /\ UNCHANGED <<reader_head, writer_tail, status, next, calls>> /\ SameFlags
  BY DEF NextWriter, PC, Leave, nodes, SameFlags
<1> QED
  BY <1>1, <1>2, QuietMove

LEMMA ClearHeadLive ==
  ASSUME Assumptions, Inv, Live, NEW t \in Thread, ClearHead(t) PROVE Live'
<1>1. /\ Goto(t, "clear_head", "clear_tail") /\ "clear_tail" \in PC
      /\ UNCHANGED <<reader_head, writer_tail, status, next, calls>> /\ SameFlags
  BY DEF ClearHead, SetHead, PC, Leave, nodes, SameFlags
<1> QED
  BY <1>1, QuietMove

LEMMA CountNextLive ==
  ASSUME Assumptions, Inv, Live, NEW t \in Thread, CountNext(t) PROVE Live'
<1>1. /\ Goto(t, "count_next", "wake_next") /\ "wake_next" \in PC
      /\ rdr' = [rdr EXCEPT !.count = @ + 1]
      /\ UNCHANGED <<reader_head, writer_tail, status, next, calls>>
  BY DEF CountNext, SetFlags, PC, nodes
<1>2. SameFlags
  BY <1>1 DEF SameFlags, Inv, TypeOK
<1> QED
  BY <1>1, <1>2, QuietMove

LEMMA TakeBackLive ==
  ASSUME Assumptions, Inv, Live, NEW t \in Thread, TakeBack(t) PROVE Live'
<1>1. /\ Goto(t, "take_back", "idle") /\ "idle" \in PC
      /\ rdr' = [rdr EXCEPT !.count = @ - 1]
      /\ UNCHANGED <<reader_head, writer_tail, status, next, calls>>
  BY DEF TakeBack, SetFlags, PC, nodes
<1>2. SameFlags
  BY <1>1 DEF SameFlags, Inv, TypeOK
<1> QED
  BY <1>1, <1>2, QuietMove

LEMMA WaitReadLive ==
  ASSUME Assumptions, Inv, Live, NEW t \in Thread, WaitRead(t) PROVE Live'
<1>1. /\ me[t].pc = "wait_read" /\ Active(t) /\ TypeOK
      /\ UNCHANGED <<reader_head, writer_tail, next, calls>> /\ SameFlags
  BY DEF WaitRead, At, Active, Inv, Await, SetStatus, words, nodes, SameFlags
<1>2. CASE next[t] = NULL
  <2>1. Goto(t, "wait_read", "reading") /\ status' = [status EXCEPT ![t] = "invalid"] /\ "reading" \in PC
    BY <1>2 DEF WaitRead, SetStatus, Set, PC
  <2>2. /\ me'[t].pc = "reading" /\ Others(t)
        /\ \A u \in Thread : u # t => status'[u] = status[u]
    BY <1>1, <2>1, GotoStep DEF TypeOK
  <2> QED
    BY <1>1, <1>2, <2>2, QuietLeave
<1>3. CASE next[t] # NULL
  <2>1. Goto(t, "wait_read", "count_next") /\ status' = status /\ "count_next" \in PC
    BY <1>3 DEF WaitRead, Await, PC, nodes
  <2> QED
    BY <1>1, <2>1, QuietMove
<1> QED
  BY <1>2, <1>3

LEMMA TryLockReadLive ==
  ASSUME Assumptions, Inv, Live, NEW t \in Thread, TryLockRead(t) PROVE Live'
<1>1. /\ me[t].pc = "idle" /\ TypeOK /\ calls' = calls + 1
      /\ rdr' = [rdr EXCEPT !.count = @ + 1]
      /\ UNCHANGED <<reader_head, writer_tail, status, next>>
  BY DEF TryLockRead, Request, At, Inv, nodes
<1>2. PICK to \in {"take_back", "reading"} : me' = [me EXCEPT ![t].pc = to]
  BY DEF TryLockRead
<1>3. me'[t].pc = to /\ Others(t) /\ SameFlags
  BY <1>1, <1>2 DEF TypeOK, Local, Others, SameFlags
<1> QED
  BY <1>1, <1>2, <1>3, QuietLeave

LEMMA DeleteLive ==
  ASSUME Assumptions, Inv, Live, NEW t \in Thread, Delete(t) PROVE Live'
<1>1. /\ me[t].pc = "delete" /\ TypeOK /\ Knows(t) /\ SameFlags
      /\ me' = [me EXCEPT ![t] = Idle] /\ status' = [status EXCEPT ![me[t].I] = "invalid"]
      /\ UNCHANGED <<reader_head, writer_tail, next, calls>>
  BY DEF Delete, At, Inv, Queue, Writers, Set, SetStatus, words, SameFlags
<1>2. me[t].I = t /\ me'[t].pc = "idle" /\ Others(t)
  BY <1>1 DEF Knows, TypeOK, Others, Idle
<1>3. \A u \in Thread : u # t => status'[u] = status[u]
  BY <1>1, <1>2 DEF TypeOK
<1> QED
  BY <1>1, <1>2, <1>3, QuietLeave

\* A writer's next_writer, or a reader that leaves.
LEMMA UnlockLive ==
  ASSUME Assumptions, Inv, Live, NEW t \in Thread, Unlock(t) PROVE Live'
<1>1. /\ TypeOK /\ Queue /\ Door /\ me[t].pc \in {"writing", "reading"}
      /\ UNCHANGED <<reader_head, writer_tail, status, next, calls>>
  BY DEF Inv, Unlock, SetFlags, words, nodes
<1>2. CASE my_current_writer = NULL
  <2>1. me' = [me EXCEPT ![t] = Idle] /\ rdr' = [rdr EXCEPT !.count = @ - 1]
    BY <1>2 DEF Unlock, SetFlags, Set
  <2>2. me'[t].pc = "idle" /\ Others(t) /\ SameFlags
    BY <1>1, <2>1 DEF TypeOK, Idle, Others, SameFlags
  <2>3. me[t].pc = "reading"
    BY <1>1, <1>2 DEF Queue, Writers, Knows, Assumptions
  <2> QED
    BY <1>1, <2>2, <2>3, QuietLeave
<1>3. CASE my_current_writer # NULL
  <2>1. me' = [me EXCEPT ![t] = [Idle EXCEPT !.pc = "next_writer", !.I = writer_head]] /\ SameFlags
    BY <1>3 DEF Unlock, words, Set, SameFlags
  <2>2. me'[t].pc = "next_writer" /\ Others(t)
    BY <1>1, <2>1 DEF TypeOK, Idle, Others
  <2>3. PICK w \in Thread : w = my_current_writer /\ me[w].pc = "writing"
    BY <1>1, <1>3 DEF TypeOK, Node, Queue, Writers, Knows
  <2>4. me[t].pc = "writing"
    <3>1. Granted(w) /\ (me[t].pc = "reading" => Inside(t))
      BY <2>3 DEF Granted, Inside, Owns
    <3> QED
      BY <1>1, <3>1 DEF Door
  <2>5. SameInQueue(t) /\ SameInList(t)
    BY <1>1, <2>2, <2>4 DEF SameInQueue, HasTurn, InQueue, Serves, Ends, Active, SetNext, Leave,
       LetIn, Opens, SameInList, Expects, Refers, Reads
  <2>6. SameAtDoor(t)
    BY <2>2, <2>4 DEF SameAtDoor, First, Shuts, Granted, Tells, Opens
  <2> QED
    BY <1>1, <2>1, <2>2, <2>5, <2>6, Quiet
<1> QED
  BY <1>2, <1>3

(***************************************************************************)
(* Steps that change the flags or look at them.                            *)
(***************************************************************************)
\* Only the writer that has the turn shuts the door.
LEMMA ShutsHasTurn ==
  ASSUME NEW t, Shuts(t) PROVE HasTurn(t)
BY DEF Shuts, Granted, HasTurn, SetNext, Leave

LEMMA OrFlag1Live ==
  ASSUME Assumptions, Inv, Live, NEW t \in Thread, OrFlag1(t) PROVE Live'
<1>1. /\ TypeOK /\ Turns /\ LiveDoor /\ me[t].pc = "or_flag1"
      /\ rdr' = [rdr EXCEPT !.WFLAG1 = TRUE]
      /\ UNCHANGED <<reader_head, writer_tail, status, next, calls>>
  BY DEF OrFlag1, Goto, At, SetFlags, nodes, Inv, Queue, Live
<1>2. PICK to \in {"await_flag2", "or_flag2"} :
        Goto(t, "or_flag1", to) /\ (to = "await_flag2" => rdr.RFLAG)
  BY DEF OrFlag1
<1>3. /\ me'[t].pc = to /\ me'[t].W = me[t].W /\ me'[t].return = me[t].return /\ Others(t)
  <2>1. to \in PC
    BY DEF PC, SetNext
  <2> QED
    BY <1>1, <1>2, <2>1, GotoStep
<1>4. rdr'.WFLAG1 = TRUE /\ rdr'.WFLAG2 = rdr.WFLAG2 /\ rdr'.RFLAG = rdr.RFLAG
  BY <1>1 DEF TypeOK
<1>5. SameInQueue(t) /\ SameInList(t)
  BY <1>1, <1>3 DEF SameInQueue, HasTurn, InQueue, Serves, Ends, SetNext, Leave, LetIn, Opens,
     SameInList, Expects, Refers, Reads
<1>6. /\ Ordered' /\ LiveQueue' /\ LiveList'
      /\ \A u \in Thread : u # t => SameAtDoor(u) /\ me'[u] = me[u]
  BY <1>1, <1>3, <1>5, QuietFlags
<1>7. ~First(t) /\ me[t].pc \notin Tells /\ Shuts(t)' /\ HasTurn(t) /\ ~Shuts(t)
  BY <1>1, <1>3 DEF First, Opens, Tells, Shuts, Granted, HasTurn, SetNext
<1>8. ~rdr.WFLAG1
  BY <1>1, <1>7, ShutsHasTurn DEF LiveDoor, Turns
<1>9. ASSUME NEW u \in Thread, me'[u].pc = "await_flag2", ~rdr'.WFLAG2
      PROVE  \E v \in Thread : me'[v].pc \in Tells
  <2>1. \E v \in Thread : me[v].pc \in Tells
    <3>1. CASE u = t
      BY <1>1, <1>2, <1>3, <1>8, <1>9, <3>1 DEF LiveDoor, Tells
    <3>2. CASE u # t
      BY <1>1, <1>4, <1>6, <1>9, <3>2 DEF LiveDoor
    <3> QED
      BY <3>1, <3>2
  <2> QED
    BY <1>6, <1>7, <2>1 DEF SameAtDoor
<1>10. reader_head' # NULL => (\E u \in Thread : First(u)') \/ (rdr'.RFLAG /\ rdr'.WFLAG1)
  BY <1>1, <1>4, <1>6, <1>7 DEF LiveDoor, SameAtDoor
<1>11. LiveDoor'
  BY <1>4, <1>7, <1>9, <1>10 DEF LiveDoor
<1> QED
  BY <1>6, <1>11 DEF Live

LEMMA OrFlag2Live ==
  ASSUME Assumptions, Inv, Live, NEW t \in Thread, OrFlag2(t) PROVE Live'
<1>1. /\ TypeOK /\ Door /\ LiveDoor /\ Goto(t, "or_flag2", "await_readers") /\ "await_readers" \in PC
      /\ rdr' = [rdr EXCEPT !.WFLAG2 = TRUE]
      /\ UNCHANGED <<reader_head, writer_tail, status, next, calls>>
  BY DEF OrFlag2, SetFlags, nodes, Inv, Live, PC, SetNext
<1>2. /\ me[t].pc = "or_flag2" /\ me'[t].pc = "await_readers"
      /\ me'[t].W = me[t].W /\ me'[t].return = me[t].return /\ Others(t)
  BY <1>1, GotoStep
<1>3. rdr'.WFLAG1 = rdr.WFLAG1 /\ rdr'.WFLAG2 = TRUE /\ rdr'.RFLAG = rdr.RFLAG
  BY <1>1 DEF TypeOK
<1>4. SameInQueue(t) /\ SameInList(t)
  BY <1>1, <1>2 DEF SameInQueue, HasTurn, InQueue, Serves, Ends, SetNext, Leave, LetIn, Opens,
     SameInList, Expects, Refers, Reads
<1>5. /\ Ordered' /\ LiveQueue' /\ LiveList'
      /\ \A u \in Thread : u # t => SameAtDoor(u) /\ me'[u] = me[u]
  BY <1>1, <1>2, <1>4, QuietFlags
<1>6. SameAtDoor(t) /\ Shuts(t)
  BY <1>2 DEF SameAtDoor, First, Opens, Tells, Shuts, Granted
<1>7. rdr.WFLAG1
  BY <1>1, <1>6 DEF Door
<1>8. LiveDoor'
  BY <1>1, <1>3, <1>5, <1>6, <1>7 DEF LiveDoor, SameAtDoor
<1> QED
  BY <1>5, <1>8 DEF Live

LEMMA TryFlagsLive ==
  ASSUME Assumptions, Inv, Live, NEW t \in Thread, TryFlags(t) PROVE Live'
<1>1. /\ TypeOK /\ Queue /\ LiveDoor
      /\ UNCHANGED <<reader_head, writer_tail, next, calls>>
  BY DEF Inv, TryFlags, Live
<1>2. /\ me[t].pc = "try_flags" /\ me'[t].pc = me[t].return /\ Others(t)
  BY <1>1, ReturnStep DEF TryFlags
<1>3. me[t].return = "tried" /\ me[t].W = t
  BY <1>1, <1>2 DEF Queue, Writers, Knows, SetNext
<1>4. \A u \in Thread : u # t => status'[u] = status[u]
  BY <1>1, <1>3 DEF TryFlags, Set, TypeOK
<1>5. SameInQueue(t) /\ SameInList(t)
  BY <1>1, <1>2, <1>3 DEF SameInQueue, HasTurn, InQueue, Serves, Ends, SetNext, Leave, LetIn, Opens,
     SameInList, Expects, Refers, Reads
<1>6. /\ Ordered' /\ LiveQueue' /\ LiveList'
      /\ \A u \in Thread : u # t => SameAtDoor(u) /\ me'[u] = me[u]
  BY <1>1, <1>2, <1>4, <1>5, QuietFlags
<1>7. SameAtDoor(t)
  BY <1>2, <1>3 DEF SameAtDoor, First, Opens, Tells, Shuts, Granted
<1>8. CASE rdr = NoFlags
  <2>1. /\ rdr' = [NoFlags EXCEPT !.WFLAG1 = TRUE, !.WFLAG2 = TRUE]
        /\ status' = [status EXCEPT ![t] = "active"]
    BY <1>3, <1>8 DEF TryFlags, Set
  <2>2. rdr'.WFLAG1 = TRUE /\ rdr'.WFLAG2 = TRUE /\ ~rdr.RFLAG
    BY <1>8, <2>1 DEF NoFlags
  <2>3. Shuts(t)'
    BY <1>1, <1>2, <1>3, <2>1 DEF Shuts, Granted, Active, TypeOK
  <2>4. LiveDoor'
    BY <1>1, <1>6, <1>7, <2>2, <2>3 DEF LiveDoor, SameAtDoor
  <2> QED
    BY <1>6, <2>4 DEF Live
<1>9. CASE rdr # NoFlags
  <2>1. SameFlags
    BY <1>9 DEF TryFlags, SameFlags
  <2> QED
    BY <1>1, <1>6, <1>7, <2>1, DoorSame DEF Live
<1> QED
  BY <1>8, <1>9

LEMMA ClearFlagsLive ==
  ASSUME Assumptions, Inv, Live, NEW t \in Thread, ClearFlags(t) PROVE Live'
<1>1. /\ TypeOK /\ Turns /\ Door /\ LiveDoor /\ me[t].pc = "clear_flags"
      /\ rdr' = [rdr EXCEPT !.WFLAG1 = FALSE, !.WFLAG2 = FALSE]
      /\ UNCHANGED <<reader_head, writer_tail, status, next, calls>>
  BY DEF ClearFlags, SetFlags, nodes, CallWith, Goto, At, Inv, Queue, Live
<1>2. /\ rdr.RFLAG => me'[t].pc = "unblock" /\ me'[t].return = "clear_head"
      /\ ~rdr.RFLAG => me'[t].pc = "clear_head"
      /\ me'[t].pc = "clear_head" \/ (me'[t].pc = "unblock" /\ me'[t].return = "clear_head")
      /\ Others(t)
  <2>1. {"unblock", "clear_head"} \subseteq PC /\ NULL \in Node
    BY DEF PC, Leave, LetIn, Opens, Node
  <2>2. CASE rdr.RFLAG
    <3>1. CallWith(t, "clear_flags", "unblock", NULL, "clear_head")
      BY <2>2 DEF ClearFlags
    <3>2. me'[t].pc = "unblock" /\ me'[t].return = "clear_head" /\ Others(t)
      BY <1>1, <2>1, <3>1, CallStep
    <3> QED
      BY <2>2, <3>2
  <2>3. CASE ~rdr.RFLAG
    <3>1. Goto(t, "clear_flags", "clear_head")
      BY <2>3 DEF ClearFlags
    <3>2. me'[t].pc = "clear_head" /\ Others(t)
      BY <1>1, <2>1, <3>1, GotoStep
    <3> QED
      BY <2>3, <3>2
  <2> QED
    BY <2>2, <2>3
<1>3. ~rdr'.WFLAG1 /\ ~rdr'.WFLAG2 /\ rdr'.RFLAG = rdr.RFLAG
  BY <1>1 DEF TypeOK
<1>4. me'[t].pc = "clear_head" \/ (me'[t].pc = "unblock" /\ me'[t].return = "clear_head")
  BY <1>2
<1>5. SameInQueue(t) /\ SameInList(t)
  BY <1>1, <1>4 DEF SameInQueue, HasTurn, InQueue, Serves, Ends, SetNext, Leave, LetIn, Opens,
     SameInList, Expects, Refers, Reads
<1>6. /\ Ordered' /\ LiveQueue' /\ LiveList'
      /\ \A u \in Thread : u # t => SameAtDoor(u) /\ me'[u] = me[u]
  BY <1>1, <1>2, <1>5, QuietFlags
<1>7. ~First(t) /\ HasTurn(t) /\ Granted(t) /\ (me'[t].pc = "unblock" => First(t)')
  BY <1>1 DEF First, Opens, HasTurn, Leave, Granted
<1>8. reader_head' # NULL => \E u \in Thread : First(u)'
  <2>1. CASE rdr.RFLAG
    BY <1>2, <1>7, <2>1
  <2>2. CASE ~rdr.RFLAG
    BY <1>1, <1>6, <1>7, <2>2 DEF LiveDoor, SameAtDoor
  <2> QED
    BY <2>1, <2>2
<1>9. rdr'.RFLAG => me'[t].pc = "unblock"
  BY <1>2, <1>3
<1>10. ASSUME NEW u \in Thread
       PROVE  me'[u].pc \notin {"look_flag2", "tell_writer", "await_flag2"}
  <2>1. CASE u = t
    BY <1>4, <2>1
  <2>2. CASE u # t
    <3>1. me[u].pc \in {"look_flag2", "tell_writer"} => Inside(u)
      BY DEF Inside, Counts, LetIn, Opens
    <3>2. me[u].pc = "await_flag2" => HasTurn(u)
      BY DEF HasTurn, SetNext
    <3> QED
      BY <1>1, <1>6, <1>7, <2>2, <3>1, <3>2 DEF Door, Turns
  <2> QED
    BY <2>1, <2>2
<1>11. LiveDoor'
  BY <1>3, <1>8, <1>9, <1>10 DEF LiveDoor
<1> QED
  BY <1>6, <1>11 DEF Live

LEMMA OrRFlagLive ==
  ASSUME Assumptions, Inv, Live, NEW t \in Thread, OrRFlag(t) PROVE Live'
<1>1. /\ TypeOK /\ Group /\ LiveDoor /\ me[t].pc = "or_rflag"
      /\ rdr' = [rdr EXCEPT !.RFLAG = TRUE]
      /\ UNCHANGED <<reader_head, writer_tail, status, next, calls>>
  BY DEF OrRFlag, SetFlags, nodes, Goto, At, Inv, Live
<1>2. PICK to \in {"wait_read", "unblock"} :
        Goto(t, "or_rflag", to) /\ (to = "unblock" <=> ~WritersPresent)
  BY DEF OrRFlag
<1>3. /\ me'[t].pc = to /\ me'[t].return = me[t].return /\ Others(t)
  <2>1. to \in PC
    BY DEF PC, LetIn, Opens
  <2> QED
    BY <1>1, <1>2, <2>1, GotoStep
<1>4. rdr'.WFLAG1 = rdr.WFLAG1 /\ rdr'.WFLAG2 = rdr.WFLAG2 /\ rdr'.RFLAG = TRUE
  BY <1>1 DEF TypeOK
<1>5. me[t].return = "wait_read"
  BY <1>1 DEF Group
<1>6. SameInQueue(t) /\ SameInList(t)
  BY <1>1, <1>3, <1>5 DEF SameInQueue, HasTurn, InQueue, Serves, Ends, Active, SetNext, Leave, LetIn,
     Opens, SameInList, Expects, Refers, Reads
<1>7. /\ Ordered' /\ LiveQueue' /\ LiveList'
      /\ \A u \in Thread : u # t => SameAtDoor(u) /\ me'[u] = me[u]
  BY <1>1, <1>3, <1>6, QuietFlags
<1>8. /\ me[t].pc \notin Tells /\ ~Shuts(t) /\ (to = "unblock" => First(t)')
      /\ me'[t].pc \notin {"look_flag2", "tell_writer", "await_flag2"}
  BY <1>1, <1>3 DEF Tells, Shuts, Granted, First, Opens
<1>9. ~rdr.WFLAG1 => to = "unblock"
  BY <1>1, <1>2 DEF LiveDoor, WritersPresent
<1>10. ASSUME NEW u \in Thread, me'[u].pc = "await_flag2", ~rdr'.WFLAG2
       PROVE  \E v \in Thread : me'[v].pc \in Tells
  <2>1. \E v \in Thread : me[v].pc \in Tells
    BY <1>1, <1>4, <1>7, <1>8, <1>10 DEF LiveDoor
  <2> QED
    BY <1>7, <1>8, <2>1 DEF SameAtDoor
<1>11. \A u \in Thread : me'[u].pc \in {"look_flag2", "tell_writer"} => rdr'.WFLAG1
  BY <1>1, <1>4, <1>7, <1>8 DEF LiveDoor
<1>12. (rdr'.WFLAG1 => \E u \in Thread : Shuts(u)') /\ (rdr'.WFLAG2 => rdr'.WFLAG1)
  BY <1>1, <1>4, <1>7, <1>8 DEF LiveDoor, SameAtDoor
<1>13. LiveDoor'
  BY <1>3, <1>4, <1>8, <1>9, <1>10, <1>11, <1>12 DEF LiveDoor
<1> QED
  BY <1>7, <1>13 DEF Live

\* A step of unblock_readers that does not wake anybody.
LEMMA LetInMove ==
  ASSUME NEW t \in Thread, {me[t].pc, me'[t].pc} \subseteq Opens,
         me'[t].return = me[t].return, UNCHANGED <<status, next>>
  PROVE  SameInQueue(t) /\ SameInList(t)
BY DEF SameInQueue, HasTurn, InQueue, Serves, Ends, SetNext, Leave, LetIn,
     Opens, SameInList, Expects, Refers, Reads

LEMMA UnblockLive ==
  ASSUME Assumptions, Inv, Live, NEW t \in Thread, Unblock(t) PROVE Live'
<1>1. /\ TypeOK /\ LiveDoor /\ Goto(t, "unblock", "look_flag1") /\ "look_flag1" \in PC
      /\ rdr' = [rdr EXCEPT !.count = @ + 1, !.RFLAG = FALSE]
      /\ UNCHANGED <<reader_head, writer_tail, status, next, calls>>
  BY DEF Unblock, SetFlags, nodes, Inv, Live, PC, LetIn, Opens
<1>2. me[t].pc = "unblock" /\ me'[t].pc = "look_flag1" /\ me'[t].return = me[t].return /\ Others(t)
  BY <1>1, GotoStep
<1>3. rdr'.WFLAG1 = rdr.WFLAG1 /\ rdr'.WFLAG2 = rdr.WFLAG2 /\ ~rdr'.RFLAG
  BY <1>1 DEF TypeOK
<1>4. SameInQueue(t) /\ SameInList(t)
  BY <1>1, <1>2, LetInMove DEF Opens
<1>5. /\ Ordered' /\ LiveQueue' /\ LiveList'
      /\ \A u \in Thread : u # t => SameAtDoor(u) /\ me'[u] = me[u]
  BY <1>1, <1>2, <1>4, QuietFlags
<1>6. First(t)' /\ me'[t].pc \in Tells /\ ~Shuts(t)
  BY <1>2 DEF First, Opens, Tells, Shuts, Granted
<1>7. \A u \in Thread : me'[u].pc \in {"look_flag2", "tell_writer"} => rdr'.WFLAG1
  BY <1>1, <1>2, <1>3, <1>5 DEF LiveDoor
<1>8. (rdr'.WFLAG1 => \E u \in Thread : Shuts(u)') /\ (rdr'.WFLAG2 => rdr'.WFLAG1)
  BY <1>1, <1>3, <1>5, <1>6 DEF LiveDoor, SameAtDoor
<1>9. LiveDoor'
  BY <1>3, <1>6, <1>7, <1>8 DEF LiveDoor
<1> QED
  BY <1>5, <1>9 DEF Live

\* The flags are read, or the writer in the window is told.
LEMMA LookLive ==
  ASSUME Assumptions, Inv, Live, NEW t \in Thread, LookFlag1(t) \/ LookFlag2(t) \/ TellWriter(t)
  PROVE  Live'
<1>1. TypeOK /\ Door /\ LiveDoor
  BY DEF Inv, Live
<1>2. PICK from \in {"look_flag1", "look_flag2", "tell_writer"},
           to \in {"look_flag2", "tell_writer", "take_list"} :
        /\ Goto(t, from, to)
        /\ from = "look_flag1" => rdr' = rdr /\ to = IF rdr.WFLAG1 THEN "look_flag2" ELSE "take_list"
        /\ from = "look_flag2" => rdr' = rdr /\ to = IF rdr.WFLAG2 THEN "take_list" ELSE "tell_writer"
        /\ from = "tell_writer" => rdr' = [rdr EXCEPT !.WFLAG2 = TRUE] /\ to = "take_list"
  <2>1. CASE LookFlag1(t)
    BY <2>1 DEF LookFlag1, Await, words
  <2>2. CASE LookFlag2(t)
    BY <2>2 DEF LookFlag2, Await, words
  <2>3. CASE TellWriter(t)
    BY <2>3 DEF TellWriter, SetFlags
  <2> QED
    BY <2>1, <2>2, <2>3
<1>3. UNCHANGED <<reader_head, writer_tail, status, next, calls>>
  BY DEF LookFlag1, LookFlag2, TellWriter, Await, SetFlags, words, nodes
<1>4. me[t].pc = from /\ me'[t].pc = to /\ me'[t].return = me[t].return /\ Others(t)
  <2>1. to \in PC
    BY DEF PC, LetIn, Opens
  <2> QED
    BY <1>1, <1>2, <2>1, GotoStep
<1>5. /\ rdr'.WFLAG1 = rdr.WFLAG1 /\ rdr'.RFLAG = rdr.RFLAG
      /\ from # "tell_writer" => rdr'.WFLAG2 = rdr.WFLAG2
      /\ from = "tell_writer" => rdr'.WFLAG2 = TRUE
  BY <1>1, <1>2 DEF TypeOK
<1>6. SameInQueue(t) /\ SameInList(t)
  BY <1>3, <1>4, LetInMove DEF Opens
<1>7. /\ Ordered' /\ LiveQueue' /\ LiveList'
      /\ \A u \in Thread : u # t => SameAtDoor(u) /\ me'[u] = me[u]
  BY <1>3, <1>4, <1>6, QuietFlags
<1>8. First(t)' /\ me[t].pc # "unblock" /\ ~Shuts(t) /\ me'[t].pc # "await_flag2"
  BY <1>4 DEF First, Opens, Shuts, Granted
<1>9. \A u \in Thread : me[u].pc = "await_flag2" => rdr.WFLAG1
  BY <1>1 DEF Door, Shuts
<1>10. rdr'.RFLAG /\ ~rdr'.WFLAG1 => \E u \in Thread : me'[u].pc = "unblock"
  BY <1>1, <1>5, <1>7, <1>8 DEF LiveDoor
<1>11. me[t].pc \in {"look_flag2", "tell_writer"} => rdr.WFLAG1
  BY <1>1 DEF LiveDoor
<1>12. \A u \in Thread : me'[u].pc \in {"look_flag2", "tell_writer"} => rdr'.WFLAG1
  <2>1. me'[t].pc \in {"look_flag2", "tell_writer"} => rdr.WFLAG1
    BY <1>2, <1>4, <1>11
  <2> QED
    BY <1>1, <1>5, <1>7, <2>1 DEF LiveDoor
<1>13. ASSUME NEW u \in Thread, me'[u].pc = "await_flag2", ~rdr'.WFLAG2
       PROVE  \E v \in Thread : me'[v].pc \in Tells
  <2>1. u # t /\ me[u].pc = "await_flag2" /\ rdr.WFLAG1
    BY <1>7, <1>8, <1>9, <1>13
  <2>2. to # "take_list"
    BY <1>2, <1>4, <1>5, <1>13, <2>1
  <2> QED
    BY <1>4, <2>2 DEF Tells
<1>14. rdr'.WFLAG1 => \E u \in Thread : Shuts(u)'
  BY <1>1, <1>5, <1>7, <1>8 DEF LiveDoor, SameAtDoor
<1>15. rdr'.WFLAG2 => rdr'.WFLAG1
  BY <1>1, <1>4, <1>5, <1>11 DEF LiveDoor
<1>16. LiveDoor'
  BY <1>8, <1>10, <1>12, <1>13, <1>14, <1>15 DEF LiveDoor
<1> QED
  BY <1>7, <1>16 DEF Live

(***************************************************************************)
(* Readers come, are listed, and are woken.                                *)
(***************************************************************************)
\* Nothing refers to a thread that makes no call.
LEMMA IdleAlone ==
  ASSUME Assumptions, Inv, NEW t \in Thread, me[t].pc = "idle", NEW u \in Thread
  PROVE  ~Older(t, u) /\ ~Older(u, t) /\ reader_head # t /\ writer_tail # t
<1>1. ~InQueue(t) /\ ~Waits(t) /\ ~Expects(t) /\ ~Refers(t) /\ t # NULL
  BY DEF InQueue, Ends, Waits, Expects, Refers, Reads, SetNext, Leave, LetIn, Opens, Assumptions
<1>2. Linked /\ List
  BY DEF Inv, Queue
<1>3. /\ InQueue(u) => next[u] # t
      /\ me[u].pc = "link" => me[u].W # t
      /\ Refers(u) => next[u] # t
      /\ reader_head # t /\ writer_tail # t
  BY <1>1, <1>2 DEF Linked, List
<1> QED
  BY <1>1, <1>3 DEF Older

\* A call comes after all that are under way.
LEMMA Newcomer ==
  ASSUME Ordered, NEW t \in Thread, calls' = calls + 1,
         \A u \in Thread : ~Older(t, u)',
         \A u, v \in Thread \ {t} : Older(u, v)' => Older(u, v)
  PROVE  Ordered'
<1>1. PICK r \in [Thread -> Nat] : /\ \A u \in Thread : r[u] <= calls
                                   /\ \A u, v \in Thread : Older(u, v) => r[u] < r[v]
  BY DEF Ordered
<1>2. calls \in Nat
  BY DEF Ordered
<1> DEFINE q == [r EXCEPT ![t] = calls + 1]
<1>3. q \in [Thread -> Nat] /\ q[t] = calls + 1 /\ \A u \in Thread : u # t => q[u] = r[u]
  BY <1>2
<1> HIDE DEF q
<1>4. calls' \in Nat /\ \A u \in Thread : q[u] <= calls'
  BY <1>1, <1>2, <1>3
<1>5. ASSUME NEW u \in Thread, NEW v \in Thread, Older(u, v)' PROVE q[u] < q[v]
  <2>1. u # t
    BY <1>5
  <2>2. CASE v = t
    BY <1>1, <1>2, <1>3, <2>1, <2>2
  <2>3. CASE v # t
    <3>1. r[u] < r[v]
      BY <1>1, <1>5, <2>1, <2>3
    <3> QED
      BY <1>3, <2>1, <2>3, <3>1
  <2> QED
    BY <2>2, <2>3
<1> QED
  BY <1>3, <1>4, <1>5 DEF Ordered

LEMMA LockReadLive ==
  ASSUME Assumptions, Inv, Live, NEW t \in Thread, LockRead(t) PROVE Live'
<1>1. /\ TypeOK /\ Live /\ me[t].pc = "idle" /\ calls' = calls + 1 /\ reader_head' = t
      /\ status' = [status EXCEPT ![t] = "waiting"] /\ next' = [next EXCEPT ![t] = reader_head]
      /\ UNCHANGED <<rdr, writer_tail>>
  BY DEF Inv, LockRead, Request, At, Set
<1>2. PICK to \in {"or_rflag", "wait_read"} :
        /\ to = "or_rflag" <=> reader_head = NULL
        /\ me' = [me EXCEPT ![t] = [pc |-> to, I |-> t, W |-> NULL, return |-> "wait_read"]]
  BY DEF LockRead, Set
<1>3. me'[t].pc = to /\ Others(t)
  BY <1>1, <1>2 DEF TypeOK, Others
<1>4. /\ \A u \in Thread : u # t => status'[u] = status[u] /\ next'[u] = next[u]
      /\ next'[t] = reader_head
  BY <1>1 DEF TypeOK
<1>5. SameInQueue(t) /\ SameAtDoor(t) /\ ~Refers(t) /\ Refers(t)' /\ ~InQueue(t)'
  BY <1>1, <1>3 DEF SameInQueue, HasTurn, InQueue, Serves, Ends, SetNext, Leave, LetIn, Opens,
     Refers, Reads, SameAtDoor, First, Shuts, Granted, Tells
<1>6. \A u \in Thread : /\ SameInQueue(u) /\ SameAtDoor(u)
                        /\ u # t => SameInList(u) /\ me'[u] = me[u]
  BY <1>3, <1>4, <1>5, Unmoved DEF Others
<1>7. LiveQueue'
  BY <1>1, <1>6, QueueSame DEF Live
<1>8. Ordered'
  <2>1. \A u \in Thread : ~Older(t, u)'
    <3>1. ASSUME NEW u \in Thread, Older(t, u)' PROVE FALSE
      <4>1. CASE u = t
        BY <1>1, <1>3, <1>4, <1>5, <3>1, <4>1, IdleAlone DEF Older
      <4>2. CASE u # t
        <5>1. ~Older(t, u)
          BY <1>1, IdleAlone
        <5> QED
          BY <1>4, <1>5, <1>6, <3>1, <4>2, <5>1 DEF Older, SameInList
      <4> QED
        BY <4>1, <4>2
    <3> QED
      BY <3>1
  <2>2. \A u, v \in Thread \ {t} : Older(u, v)' => Older(u, v)
    BY <1>6 DEF Older, SameInQueue, SameInList
  <2> QED
    BY <1>1, <2>1, <2>2, Newcomer DEF Live
<1>9. LiveList'
  <2>1. ASSUME NEW u \in Thread, Expects(u)' PROVE Known(u)'
    <3>1. CASE u = t
      BY <1>1, <3>1 DEF Known
    <3>2. CASE u # t
      <4>1. Known(u)
        BY <1>1, <1>6, <2>1, <3>2 DEF Live, LiveList, SameInList
      <4>2. CASE reader_head = u
        BY <1>4, <1>5, <4>2 DEF Known
      <4>3. CASE \E v \in Thread : (me[v].pc = "wake_head" /\ me[v].W = u) \/ (Refers(v) /\ next[v] = u)
        <5>1. u # NULL /\ me[t].pc # "wake_head"
          BY <1>1 DEF Assumptions
        <5> QED
          BY <1>5, <1>6, <4>3, <5>1 DEF Known, SameInList
      <4> QED
        BY <4>1, <4>2, <4>3 DEF Known
    <3> QED
      BY <3>1, <3>2
  <2> QED
    BY <2>1 DEF LiveList
<1>10. LiveDoor'
  <2>1. CASE reader_head = NULL
    <3>1. First(t)'
      BY <1>2, <1>3, <2>1 DEF First
    <3> QED
      BY <1>1, <1>6, <3>1 DEF Live, LiveDoor, SameAtDoor
  <2>2. CASE reader_head # NULL
    BY <1>1, <1>6, <2>2 DEF Live, LiveDoor, SameAtDoor
  <2> QED
    BY <2>1, <2>2
<1> QED
  BY <1>7, <1>8, <1>9, <1>10 DEF Live

LEMMA TakeListLive ==
  ASSUME Assumptions, Inv, Live, NEW t \in Thread, TakeList(t) PROVE Live'
<1>1. /\ TypeOK /\ Live /\ me[t].pc = "take_list" /\ reader_head' = NULL
      /\ me' = [me EXCEPT ![t].pc = "wake_head", ![t].W = reader_head]
      /\ UNCHANGED <<rdr, writer_tail, status, next, calls>>
  BY DEF Inv, TakeList, At, nodes
<1>2. /\ me'[t].pc = "wake_head" /\ me'[t].W = reader_head /\ me'[t].return = me[t].return
      /\ Others(t)
  <2>1. me[t] \in Local /\ me'[t] = [me[t] EXCEPT !.pc = "wake_head", !.W = reader_head]
    BY <1>1 DEF TypeOK
  <2>2. /\ me'[t].pc = "wake_head" /\ me'[t].W = reader_head /\ me'[t].return = me[t].return
    BY <2>1 DEF Local
  <2>3. Others(t)
    BY <1>1 DEF TypeOK, Others
  <2> QED
    BY <2>2, <2>3
<1>3. SameInQueue(t) /\ SameInList(t)
  BY <1>1, <1>2 DEF SameInQueue, HasTurn, InQueue, Serves, Ends, SetNext, Leave, LetIn, Opens,
     SameInList, Expects, Refers, Reads
<1>4. /\ \A u \in Thread : SameInQueue(u) /\ SameInList(u)
      /\ \A u \in Thread : u # t => SameAtDoor(u) /\ me'[u] = me[u]
  BY <1>1, <1>2, <1>3, Unmoved DEF Others
<1>5. Ordered' /\ LiveQueue'
  BY <1>1, <1>4, OrderSame, QueueSame DEF Live
<1>6. LiveList'
  <2>1. ASSUME NEW u \in Thread, Expects(u)' PROVE Known(u)'
    <3>1. Known(u) /\ u # NULL
      BY <1>1, <1>4, <2>1 DEF Live, LiveList, SameInList, Assumptions
    <3>2. CASE reader_head = u
      BY <1>2, <3>2 DEF Known
    <3>3. CASE reader_head # u
      BY <1>4, <3>1, <3>3 DEF Known, SameInList
    <3> QED
      BY <3>2, <3>3
  <2> QED
    BY <2>1 DEF LiveList
<1>7. ~Shuts(t) /\ me[t].pc \notin Tells \cup {"unblock"}
      /\ me'[t].pc \notin {"look_flag2", "tell_writer", "await_flag2"}
  BY <1>1, <1>2 DEF Shuts, Granted, Tells
<1>8. LiveDoor'
  BY <1>1, <1>4, <1>7 DEF Live, LiveDoor, SameAtDoor
<1> QED
  BY <1>5, <1>6, <1>8 DEF Live

\* A reader that somebody refers to has been woken: what is seen of the readers is
\* the same but for that.
LEMMA WokenLive ==
  ASSUME Assumptions, Inv, Live, NEW t \in Thread, NEW w \in Thread, Others(t), Expects(w),
         SameInQueue(t), SameAtDoor(t), ~Expects(w)', calls' = calls,
         Expects(t)' => Expects(t), Refers(t)' => Refers(t) /\ next'[t] = next[t],
         me[t].pc = "wake_head" => me[t].W = w,
         Refers(t) /\ next[t] # w => next[t] = NULL \/ (Refers(t)' /\ next'[t] = next[t]),
         \A u \in Thread : u \notin {t, w} => status'[u] = status[u],
         UNCHANGED <<writer_tail, reader_head, next>>, SameFlags
  PROVE  Live'
<1>1. \/ me[w].pc \in {"or_rflag", "wait_read"}
      \/ me[w].pc \in LetIn /\ me[w].return = "wait_read"
  BY DEF Expects, Reads
<1>2. w # t => SameInQueue(w) /\ SameAtDoor(w)
  <2> SUFFICES ASSUME w # t PROVE SameInQueue(w) /\ SameAtDoor(w)
    OBVIOUS
  <2>1. me'[w] = me[w]
    BY DEF Others
  <2>2. me[w].pc \notin {"wait_write", "tried"}
    BY <1>1 DEF LetIn, Opens
  <2>3. SameInQueue(w)
    BY <2>1, <2>2 DEF SameInQueue, HasTurn, InQueue, Serves, Ends
  <2>4. SameAtDoor(w)
    BY <2>1, <2>2 DEF SameAtDoor, First, Shuts, Granted
  <2> QED
    BY <2>3, <2>4
<1>3. \A u \in Thread : u \notin {t, w} => SameInQueue(u) /\ SameAtDoor(u) /\ SameInList(u)
  BY Unmoved DEF Others
<1>4. \A u \in Thread : SameInQueue(u) /\ SameAtDoor(u)
  BY <1>2, <1>3
<1>5. \A u \in Thread : u # t => me'[u] = me[u] /\ (Refers(u)' <=> Refers(u))
  BY DEF Others, Refers, Reads
<1>6. \A u \in Thread : Expects(u)' => Expects(u) /\ u # w
  BY <1>3 DEF SameInList
<1>7. \A u, v \in Thread : Older(u, v)' => Older(u, v)
  BY <1>4, <1>5 DEF Older, SameInQueue
<1>8. LiveList'
  <2>1. ASSUME NEW u \in Thread, Expects(u)' PROVE Known(u)'
    <3>1. Known(u) /\ u # w /\ u # NULL
      BY <1>6, <2>1 DEF Live, LiveList, Assumptions
    <3> QED
      BY <1>5, <3>1 DEF Known
  <2> QED
    BY <2>1 DEF LiveList
<1> QED
  BY <1>4, <1>7, <1>8, OrderKept, QueueSame, DoorSame DEF Live

LEMMA WakeHeadLive ==
  ASSUME Assumptions, Inv, Live, NEW t \in Thread, WakeHead(t) PROVE Live'
<1>1. /\ TypeOK /\ List /\ Queue /\ SameFlags
      /\ UNCHANGED <<reader_head, writer_tail, next, calls>>
      /\ status' = [status EXCEPT ![me[t].W] = "active"]
  BY DEF Inv, WakeHead, SetStatus, words, Set, SameFlags
<1>2. /\ me[t].pc = "wake_head" /\ me'[t].pc = me[t].return /\ me'[t].return = me[t].return
      /\ Others(t)
  BY <1>1, ReturnStep DEF WakeHead
<1>3. me[t].return \in {"wait_read", "clear_head"}
  BY <1>1, <1>2 DEF Queue, Writers, Knows, LetIn
<1>4. PICK w \in Thread : w = me[t].W /\ Expects(w)
  BY <1>1, <1>2 DEF List, Expects
<1>5. status'[w] = "active" /\ \A u \in Thread : u # w => status'[u] = status[u]
  BY <1>1, <1>4 DEF TypeOK
<1>6. ~Expects(w)'
  BY <1>5 DEF Expects
<1>7. SameInQueue(t) /\ SameAtDoor(t)
  BY <1>1, <1>2, <1>3 DEF SameInQueue, HasTurn, InQueue, Serves, Ends, SetNext, Leave, LetIn, Opens,
     SameAtDoor, First, Shuts, Granted, Tells
<1>8. (Refers(t)' <=> Refers(t)) /\ (Reads(t)' <=> Reads(t))
  BY <1>2, <1>3 DEF Refers, Reads, LetIn
<1>9. Expects(t)' => Expects(t)
  BY <1>5, <1>6, <1>8 DEF Expects
<1> QED
  BY <1>1, <1>2, <1>4, <1>5, <1>6, <1>7, <1>8, <1>9, WokenLive

LEMMA WakeNextLive ==
  ASSUME Assumptions, Inv, Live, NEW t \in Thread, WakeNext(t) PROVE Live'
<1>1. /\ TypeOK /\ List /\ SameFlags /\ Goto(t, "wake_next", "reading") /\ "reading" \in PC
      /\ UNCHANGED <<reader_head, writer_tail, next, calls>>
      /\ status' = [status EXCEPT ![next[t]] = "active", ![t] = "invalid"]
  BY DEF Inv, WakeNext, words, SameFlags, PC
<1>2. me[t].pc = "wake_next" /\ me'[t].pc = "reading" /\ Others(t)
  BY <1>1, GotoStep
<1>3. Refers(t) /\ next[t] # NULL /\ status[t] = "active"
  BY <1>1, <1>2 DEF List, Refers
<1>4. PICK w \in Thread : w = next[t] /\ Expects(w)
  BY <1>1, <1>3 DEF List, Expects
<1>5. w # t
  BY <1>3, <1>4 DEF Expects
<1>6. status'[w] = "active" /\ \A u \in Thread : u \notin {t, w} => status'[u] = status[u]
  BY <1>1, <1>4, <1>5 DEF TypeOK
<1>7. ~Expects(w)'
  BY <1>6 DEF Expects
<1>8. SameInQueue(t) /\ SameAtDoor(t) /\ ~Expects(t)' /\ ~Refers(t)'
  BY <1>1, <1>2 DEF SameInQueue, HasTurn, InQueue, Serves, Ends, SetNext, Leave, LetIn, Opens,
     SameAtDoor, First, Shuts, Granted, Tells, Expects, Refers, Reads
<1> QED
  BY <1>1, <1>2, <1>4, <1>6, <1>7, <1>8, WokenLive

(***************************************************************************)
(* Writers come, leave and pass their turn on.                             *)
(***************************************************************************)
LEMMA EnqueueLive ==
  ASSUME Assumptions, Inv, Live, NEW t \in Thread, NEW s, NEW r \in Local, me[t].pc = "idle",
         calls' = calls + 1, Enqueue(t, s), me' = Set(me, t, r),
         \/ writer_tail = NULL /\ r.pc = "set_head" /\ r.return # "delete"
         \/ writer_tail # NULL /\ r.pc = "link" /\ r.W = writer_tail
  PROVE  Live'
<1>1. /\ TypeOK /\ Linked /\ Live /\ writer_tail' = t /\ t # NULL /\ SameFlags
      /\ status' = [status EXCEPT ![t] = s] /\ next' = [next EXCEPT ![t] = NULL]
      /\ reader_head' = reader_head
  BY DEF Inv, Queue, Enqueue, Set, Assumptions, SameFlags
<1>2. me'[t] = r /\ Others(t)
  BY <1>1, SetStep
<1>3. /\ \A u \in Thread : u # t => me'[u] = me[u] /\ status'[u] = status[u] /\ next'[u] = next[u]
      /\ next'[t] = NULL
  BY <1>1, <1>2 DEF TypeOK, Others
<1>4. /\ ~HasTurn(t) /\ ~InQueue(t) /\ ~Serves(t) /\ ~Serves(t)' /\ InQueue(t)'
      /\ r.pc = "set_head" => HasTurn(t)'
      /\ SameInList(t) /\ SameAtDoor(t) /\ ~Refers(t)'
  BY <1>2 DEF HasTurn, InQueue, Serves, Ends, SetNext, Leave, LetIn, Opens, SameInList, Expects, Refers,
     Reads, SameAtDoor, First, Shuts, Granted, Tells
<1>5. \A u \in Thread : /\ SameInList(u) /\ SameAtDoor(u)
                        /\ u # t => SameInQueue(u)
  BY <1>3, <1>4, Unmoved
<1>6. LiveList' /\ LiveDoor'
  BY <1>1, <1>5, ListSame, DoorSame DEF Live
<1>7. Ordered'
  <2>1. \A u \in Thread : ~Older(t, u)'
    <3>1. ASSUME NEW u \in Thread, Older(t, u)' PROVE FALSE
      <4>1. CASE u = t
        BY <1>1, <1>2, <1>3, <1>4, <3>1, <4>1, IdleAlone DEF Older
      <4>2. CASE u # t
        <5>1. ~Older(t, u) /\ u # NULL
          BY IdleAlone DEF Assumptions
        <5> QED
          BY <1>3, <1>5, <3>1, <4>2, <5>1 DEF Older, SameInList
      <4> QED
        BY <4>1, <4>2
    <3> QED
      BY <3>1
  <2>2. \A u, v \in Thread \ {t} : Older(u, v)' => Older(u, v)
    BY <1>5 DEF Older, SameInQueue, SameInList
  <2> QED
    BY <1>1, <2>1, <2>2, Newcomer DEF Live
<1>8. \E u \in Thread : HasTurn(u)'
  <2>1. CASE writer_tail = NULL
    BY <1>4, <2>1
  <2>2. CASE writer_tail # NULL
    BY <1>1, <1>4, <1>5, <2>2 DEF Live, LiveQueue, SameInQueue
  <2> QED
    BY <2>1, <2>2
<1>9. ASSUME NEW u \in Thread, InQueue(u)', next'[u] = NULL, u # t
      PROVE  \E v \in Thread : me'[v].pc = "link" /\ me'[v].W = u
  <2>1. InQueue(u) /\ next[u] = NULL
    BY <1>3, <1>5, <1>9 DEF SameInQueue
  <2>2. CASE u = writer_tail
    BY <1>1, <1>2, <2>2 DEF Assumptions
  <2>3. CASE u # writer_tail
    BY <1>1, <1>3, <2>1, <2>3 DEF Live, LiveQueue
  <2> QED
    BY <2>2, <2>3
<1>10. ASSUME NEW u \in Thread, InQueue(u)', ~HasTurn(u)', me'[u].pc # "link" PROVE Behind(u)'
  <2>1. u # t
    BY <1>2, <1>4, <1>10
  <2>2. Behind(u)
    BY <1>1, <1>3, <1>5, <1>10, <2>1 DEF Live, LiveQueue, SameInQueue
  <2> QED
    BY <1>3, <1>4, <1>5, <2>2 DEF Behind, SameInQueue
<1>11. LiveQueue'
  <2>1. \A u \in Thread : me'[u].pc = "await_next" => u # t
    BY <1>2
  <2> QED
    BY <1>1, <1>8, <1>9, <1>10, <2>1 DEF LiveQueue
<1> QED
  BY <1>6, <1>7, <1>11 DEF Live

LEMMA LockLive ==
  ASSUME Assumptions, Inv, Live, NEW t \in Thread, Lock(t) PROVE Live'
<1> DEFINE r == [pc |-> IF writer_tail = NULL THEN "set_head" ELSE "link",
                 I |-> t, W |-> IF writer_tail = NULL THEN t ELSE writer_tail,
                 return |-> "wait_write"]
<1>1. me[t].pc = "idle" /\ calls' = calls + 1 /\ me' = Set(me, t, r) /\ Enqueue(t, "waiting")
  BY DEF Lock, Request, At
<1>2. r \in Local
  BY DEF Inv, TypeOK, Local, PC, SetNext, Node
<1>3. \/ writer_tail = NULL /\ r.pc = "set_head" /\ r.return # "delete"
      \/ writer_tail # NULL /\ r.pc = "link" /\ r.W = writer_tail
  OBVIOUS
<1> QED
  BY <1>1, <1>2, <1>3, EnqueueLive

LEMMA TryLockLive ==
  ASSUME Assumptions, Inv, Live, NEW t \in Thread, TryLock(t) PROVE Live'
<1> DEFINE r == [pc |-> "set_head", I |-> t, W |-> t, return |-> "tried"]
<1>1. /\ me[t].pc = "idle" /\ calls' = calls + 1 /\ me' = Set(me, t, r)
      /\ Enqueue(t, "waiting_nonblocking") /\ writer_tail = NULL
  BY DEF TryLock, Request, At
<1>2. r \in Local
  BY DEF Local, PC, SetNext, Node
<1>3. r.pc = "set_head" /\ r.return # "delete"
  OBVIOUS
<1> QED
  BY <1>1, <1>2, <1>3, EnqueueLive

LEMMA LinkLive ==
  ASSUME Assumptions, Inv, Live, NEW t \in Thread, Link(t) PROVE Live'
<1>1. /\ TypeOK /\ Linked /\ Live /\ me[t].pc = "link" /\ status[t] = "waiting"
      /\ Goto(t, "link", "wait_write") /\ "wait_write" \in PC
      /\ UNCHANGED <<reader_head, writer_tail, status, calls>> /\ SameFlags
  BY DEF Inv, Link, Goto, At, Queue, Writers, Knows, PC, words, SameFlags
<1>2. PICK w \in Thread : w = me[t].W /\ InQueue(w) /\ next[w] = NULL
  BY <1>1 DEF Linked
<1>3. w # t
  <2>1. Older(w, t)
    BY <1>1, <1>2 DEF Older
  <2>2. PICK r \in [Thread -> Nat] : \A u, v \in Thread : Older(u, v) => r[u] < r[v]
    BY <1>1 DEF Live, Ordered
  <2>3. r[w] < r[t] /\ r[t] \in Nat
    BY <2>1, <2>2
  <2> QED
    BY <2>3
<1>4. next' = [next EXCEPT ![w] = t]
  BY <1>2 DEF Link, Set
<1>5. me'[t].pc = "wait_write" /\ Others(t)
  BY <1>1, GotoStep
<1>6. /\ next'[w] = t /\ \A u \in Thread : u # w => next'[u] = next[u]
      /\ \A u \in Thread : u # t => me'[u] = me[u]
  BY <1>1, <1>4, <1>5 DEF TypeOK, Others
<1>7. /\ ~HasTurn(t) /\ InQueue(t) /\ ~Serves(t) /\ ~HasTurn(t)' /\ InQueue(t)' /\ ~Serves(t)'
      /\ SameInList(t) /\ SameAtDoor(t)
  BY <1>1, <1>5 DEF HasTurn, InQueue, Serves, Ends, Active, SetNext, Leave, LetIn, Opens,
     SameInList, Expects, Refers, Reads, SameAtDoor, First, Shuts, Granted, Tells
<1>8. \A u \in Thread : /\ HasTurn(u)' <=> HasTurn(u)
                        /\ InQueue(u)' <=> InQueue(u)
                        /\ Serves(u)' <=> Serves(u)
                        /\ Serves(u) => me'[u].W = me[u].W
  BY <1>1, <1>6, <1>7 DEF HasTurn, InQueue, Serves, Ends, Active
<1>9. ~Refers(w)
  BY <1>2 DEF InQueue, Refers, Reads, Ends, SetNext, Leave, LetIn, Opens
<1>10. \A u \in Thread : SameInList(u) /\ SameAtDoor(u)
  <2> SUFFICES ASSUME NEW u \in Thread, u # t PROVE SameInList(u) /\ SameAtDoor(u)
    BY <1>7
  <2>1. me'[u] = me[u] /\ status'[u] = status[u] /\ (Refers(u) => next'[u] = next[u])
    BY <1>1, <1>6, <1>9
  <2> QED
    BY <2>1 DEF SameInList, SameAtDoor, Expects, Refers, Reads, First, Shuts, Granted, Active
<1>11. LiveList' /\ LiveDoor'
  BY <1>1, <1>10, ListSame, DoorSame DEF Live
<1>12. Ordered'
  <2>1. ASSUME NEW u \in Thread, NEW v \in Thread, Older(u, v)' PROVE Older(u, v)
    <3>1. CASE u = w /\ v = t
      BY <1>1, <1>2, <3>1 DEF Older
    <3>2. CASE InQueue(u)' /\ next'[u] = v /\ ~(u = w /\ v = t)
      BY <1>6, <1>8, <3>2 DEF Older
    <3>3. CASE me'[v].pc = "link" /\ me'[v].W = u
      BY <1>5, <1>6, <3>3 DEF Older
    <3>4. CASE Refers(v)' /\ next'[v] = u
      BY <1>10, <3>4 DEF Older, SameInList
    <3> QED
      BY <2>1, <3>1, <3>2, <3>3, <3>4 DEF Older
  <2> QED
    BY <1>1, <2>1, OrderKept DEF Live
<1>13. LiveQueue'
  <2>1. writer_tail' # NULL => \E u \in Thread : HasTurn(u)'
    BY <1>1, <1>8 DEF Live, LiveQueue
  <2>2. \A u \in Thread : (InQueue(u)' => writer_tail' # NULL) /\ (me'[u].pc = "await_next" => u # writer_tail')
    BY <1>1, <1>5, <1>6, <1>8 DEF Live, LiveQueue
  <2>3. ASSUME NEW u \in Thread, InQueue(u)', next'[u] = NULL, u # writer_tail'
        PROVE  \E v \in Thread : me'[v].pc = "link" /\ me'[v].W = u
    <3>1. u # w /\ InQueue(u) /\ next[u] = NULL /\ u # writer_tail
      BY <1>1, <1>6, <1>8, <2>3 DEF Assumptions
    <3>2. PICK v \in Thread : me[v].pc = "link" /\ me[v].W = u
      BY <1>1, <3>1 DEF Live, LiveQueue
    <3> QED
      BY <1>2, <1>6, <3>1, <3>2
  <2>4. ASSUME NEW u \in Thread, InQueue(u)', ~HasTurn(u)', me'[u].pc # "link" PROVE Behind(u)'
    <3>1. CASE u = t
      BY <1>2, <1>6, <1>8, <3>1 DEF Behind
    <3>2. CASE u # t
      <4>1. Behind(u) /\ u # NULL
        BY <1>1, <1>6, <1>8, <2>4, <3>2 DEF Live, LiveQueue, Assumptions
      <4> QED
        BY <1>2, <1>6, <1>8, <4>1 DEF Behind
    <3> QED
      BY <3>1, <3>2
  <2> QED
    BY <2>1, <2>2, <2>3, <2>4 DEF LiveQueue
<1> QED
  BY <1>11, <1>12, <1>13 DEF Live

\* A writer that has left, or has given up, brings the next one to the head.
LEMMA ServeNextLive ==
  ASSUME Assumptions, Inv, Live, NEW t \in Thread, NEW from, from \in {"tried", "await_next"},
         CallWith(t, from, "set_head", next[t], "delete"), from = "tried" => ~Active(t),
         next[t] # NULL,
         UNCHANGED <<reader_head, writer_tail, status, next, calls>>, SameFlags
  PROVE  Live'
<1>1. TypeOK /\ Live /\ Turns /\ next[t] \in Node /\ "set_head" \in PC
  BY DEF Inv, Queue, TypeOK, PC, SetNext
<1>2. /\ me[t].pc = from /\ me'[t].pc = "set_head" /\ me'[t].W = next[t]
      /\ me'[t].return = "delete" /\ Others(t)
  <2>1. TypeOK /\ next[t] \in Node /\ "set_head" \in PC
    BY <1>1
  <2>2. PICK w \in Node : w = next[t]
    BY <2>1
  <2>3. CallWith(t, from, "set_head", w, "delete")
    BY <2>2
  <2>4. /\ me[t].pc = from /\ me'[t].pc = "set_head" /\ me'[t].W = w
        /\ me'[t].return = "delete" /\ Others(t)
    BY <2>1, <2>3, CallStep
  <2> QED
    BY <2>2, <2>4
<1>3. /\ HasTurn(t) /\ HasTurn(t)' /\ InQueue(t) /\ ~InQueue(t)' /\ ~Serves(t) /\ Serves(t)'
      /\ SameInList(t) /\ SameAtDoor(t)
  BY <1>2 DEF HasTurn, InQueue, Serves, Ends, Active, SetNext, Leave, LetIn, Opens,
     SameInList, Expects, Refers, Reads, SameAtDoor, First, Shuts, Granted, Tells
<1>4. \A u \in Thread : /\ SameInList(u) /\ SameAtDoor(u)
                        /\ u # t => SameInQueue(u) /\ me'[u] = me[u]
  BY <1>2, <1>3, Unmoved DEF Others
<1>5. LiveList' /\ LiveDoor'
  BY <1>1, <1>4, ListSame, DoorSame DEF Live
<1>6. Ordered'
  <2>1. \A u, v \in Thread : Older(u, v)' => Older(u, v)
    BY <1>2, <1>3, <1>4 DEF Older, SameInQueue, SameInList
  <2> QED
    BY <1>1, <2>1, OrderKept DEF Live
<1>7. ASSUME NEW u \in Thread, InQueue(u)', ~HasTurn(u)', me'[u].pc # "link" PROVE Behind(u)'
  <2>1. u # t /\ Behind(u)
    BY <1>1, <1>3, <1>4, <1>7 DEF Live, LiveQueue, SameInQueue
  <2>2. PICK v \in Thread : (InQueue(v) /\ next[v] = u) \/ (Serves(v) /\ me[v].W = u)
    BY <2>1 DEF Behind
  <2>3. CASE v = t
    BY <1>2, <1>3, <2>2, <2>3 DEF Behind
  <2>4. CASE v # t
    BY <1>4, <2>2, <2>4 DEF Behind, SameInQueue
  <2> QED
    BY <2>3, <2>4
<1>8. ASSUME NEW u \in Thread, InQueue(u)', next'[u] = NULL, u # writer_tail'
      PROVE  \E v \in Thread : me'[v].pc = "link" /\ me'[v].W = u
  <2>1. u # t /\ InQueue(u) /\ next[u] = NULL
    BY <1>3, <1>4, <1>8 DEF SameInQueue
  <2>2. PICK v \in Thread : me[v].pc = "link" /\ me[v].W = u
    BY <1>1, <1>8, <2>1 DEF Live, LiveQueue
  <2> QED
    BY <1>2, <1>4, <2>2
<1>9. LiveQueue'
  <2>1. \A u \in Thread : (InQueue(u)' => writer_tail' # NULL) /\ (me'[u].pc = "await_next" => u # writer_tail')
    BY <1>1, <1>2, <1>3, <1>4 DEF Live, LiveQueue, SameInQueue
  <2> QED
    BY <1>3, <1>7, <1>8, <2>1 DEF LiveQueue
<1> QED
  BY <1>5, <1>6, <1>9 DEF Live

LEMMA AwaitNextLive ==
  ASSUME Assumptions, Inv, Live, NEW t \in Thread, AwaitNext(t) PROVE Live'
<1>1. me[t].pc = "await_next" /\ me[t].I = t
  BY DEF AwaitNext, At, Inv, Queue, Writers, Knows, HasTurn, Leave
<1>2. /\ next[t] # NULL /\ CallWith(t, "await_next", "set_head", next[t], "delete")
      /\ UNCHANGED <<reader_head, writer_tail, status, next, calls>> /\ SameFlags
  BY <1>1 DEF AwaitNext, words, nodes, SameFlags
<1> QED
  BY <1>2, ServeNextLive

LEMMA TriedLive ==
  ASSUME Assumptions, Inv, Live, NEW t \in Thread, Tried(t) PROVE Live'
<1>1. UNCHANGED <<reader_head, writer_tail, status, next, calls>> /\ SameFlags
  BY DEF Tried, Await, words, nodes, SameFlags
<1>2. {"wait_write", "clear_head"} \subseteq PC
  BY DEF PC, Leave
<1>3. \/ Active(t) /\ Goto(t, "tried", "wait_write")
      \/ ~Active(t) /\ Goto(t, "tried", "clear_head")
      \/ ~Active(t) /\ next[t] # NULL /\ CallWith(t, "tried", "set_head", next[t], "delete")
  BY DEF Tried, Await, Active
<1>4. CASE Active(t) /\ Goto(t, "tried", "wait_write")
  BY <1>1, <1>2, <1>4, QuietMove
<1>5. CASE ~Active(t) /\ Goto(t, "tried", "clear_head")
  BY <1>1, <1>2, <1>5, QuietMove
<1>6. CASE ~Active(t) /\ next[t] # NULL /\ CallWith(t, "tried", "set_head", next[t], "delete")
  BY <1>1, <1>6, ServeNextLive
<1> QED
  BY <1>3, <1>4, <1>5, <1>6

\* The turn passes to w, the one t has known to be behind it.
LEMMA HandOverLive ==
  ASSUME Assumptions, Inv, Live, NEW t \in Thread, NEW w \in Thread, Waits(w), w # t,
         HasTurn(t), Shuts(t), me[t].pc \in {"pass_on", "activate"}, me'[t].pc = "delete", Others(t),
         InQueue(t) => next[t] = w, Serves(t) => me[t].W = w,
         status' = [status EXCEPT ![w] = "active"],
         UNCHANGED <<reader_head, writer_tail, next, calls>>, SameFlags
  PROVE  Live'
<1>1. TypeOK /\ Live /\ Turns
  BY DEF Inv, Queue
<1>2. /\ status'[w] = "active" /\ \A u \in Thread : u # w => status'[u] = status[u]
      /\ me[w].pc = "wait_write" /\ me'[w] = me[w]
  BY <1>1 DEF TypeOK, Waits, Others
<1>3. /\ ~HasTurn(t)' /\ ~InQueue(t)' /\ ~Serves(t)' /\ me[t].pc # "link"
      /\ SameInList(t) /\ ~First(t) /\ me[t].pc \notin Tells \cup {"unblock"}
      /\ me'[t].pc \notin {"look_flag2", "tell_writer", "await_flag2"}
  BY DEF HasTurn, InQueue, Serves, Ends, SetNext, Leave, LetIn, Opens, SameInList, Expects, Refers,
     Reads, First, Tells
<1>4. /\ HasTurn(w)' /\ InQueue(w) /\ InQueue(w)' /\ ~Serves(w) /\ ~Serves(w)' /\ Shuts(w)'
      /\ SameInList(w) /\ SameAtDoor(w)
  BY <1>2 DEF HasTurn, InQueue, Serves, Ends, Active, SetNext, Leave, LetIn, Opens, SameInList, Expects,
     Refers, Reads, SameAtDoor, First, Shuts, Granted, Tells
<1>5. \A u \in Thread : u \notin {t, w} => SameInQueue(u) /\ SameInList(u) /\ SameAtDoor(u) /\ me'[u] = me[u]
  BY <1>2, Unmoved DEF Others
<1>6. \A u \in Thread : SameInList(u)
  BY <1>3, <1>4, <1>5
<1>7. LiveList'
  BY <1>1, <1>6, ListSame DEF Live
<1>8. LiveDoor'
  <2>1. \A u \in Thread : u # t => SameAtDoor(u)
    BY <1>4, <1>5
  <2> QED
    BY <1>1, <1>3, <1>4, <2>1 DEF Live, LiveDoor, SameAtDoor, SameFlags
<1>9. \A u \in Thread : InQueue(u)' => InQueue(u) /\ u # t
  BY <1>3, <1>4, <1>5 DEF SameInQueue
<1>10. Ordered'
  <2>1. \A u \in Thread : me'[u].pc = "link" => me[u].pc = "link" /\ me'[u].W = me[u].W
    BY <1>2, <1>5 DEF SameInQueue
  <2>2. \A u, v \in Thread : Older(u, v)' => Older(u, v)
    BY <1>6, <1>9, <2>1 DEF Older, SameInList
  <2> QED
    BY <1>1, <2>2, OrderKept DEF Live
<1>11. LiveQueue'
  <2>1. \A u \in Thread : (InQueue(u)' => writer_tail' # NULL) /\ (me'[u].pc = "await_next" => u # writer_tail')
    BY <1>1, <1>2, <1>5, <1>9 DEF Live, LiveQueue
  <2>2. ASSUME NEW u \in Thread, InQueue(u)', next'[u] = NULL, u # writer_tail'
        PROVE  \E v \in Thread : me'[v].pc = "link" /\ me'[v].W = u
    <3>1. PICK v \in Thread : me[v].pc = "link" /\ me[v].W = u
      BY <1>1, <1>9, <2>2 DEF Live, LiveQueue
    <3>2. me'[v] = me[v]
      BY <1>2, <1>3, <1>5, <3>1
    <3> QED
      BY <3>1, <3>2
  <2>3. ASSUME NEW u \in Thread, InQueue(u)', ~HasTurn(u)', me'[u].pc # "link" PROVE Behind(u)'
    <3>1. u \notin {t, w} /\ InQueue(u) /\ ~HasTurn(u) /\ me[u].pc # "link"
      BY <1>3, <1>4, <1>5, <2>3 DEF SameInQueue
    <3>2. PICK v \in Thread : (InQueue(v) /\ next[v] = u) \/ (Serves(v) /\ me[v].W = u)
      BY <1>1, <3>1 DEF Live, LiveQueue, Behind
    <3>3. v # t
      BY <3>1, <3>2
    <3>4. InQueue(v) => InQueue(v)'
      BY <1>4, <1>5, <3>3 DEF SameInQueue
    <3>5. Serves(v) => Serves(v)' /\ me'[v].W = me[v].W
      BY <1>4, <1>5, <3>3 DEF SameInQueue
    <3> QED
      BY <3>2, <3>4, <3>5 DEF Behind
  <2> QED
    BY <1>4, <2>1, <2>2, <2>3 DEF LiveQueue
<1> QED
  BY <1>7, <1>8, <1>10, <1>11 DEF Live

LEMMA PassOnLive ==
  ASSUME Assumptions, Inv, Live, NEW t \in Thread, PassOn(t) PROVE Live'
<1>1. /\ Queue /\ Linked /\ TypeOK /\ Goto(t, "pass_on", "delete") /\ "delete" \in PC
      /\ status' = [status EXCEPT ![writer_head] = "active"]
      /\ UNCHANGED <<reader_head, writer_tail, next, calls>> /\ SameFlags
  BY DEF Inv, Queue, PassOn, SetStatus, Set, words, SameFlags, PC
<1>2. me[t].pc = "pass_on" /\ me'[t].pc = "delete" /\ Others(t)
  BY <1>1, GotoStep
<1>3. HasTurn(t) /\ InQueue(t) /\ ~Serves(t) /\ Shuts(t) /\ ~Waits(t)
  BY <1>2 DEF HasTurn, InQueue, Serves, Shuts, Granted, Waits, SetNext, Leave
<1>4. writer_head = next[t] /\ writer_head # NULL
  BY <1>1, <1>2 DEF Queue, AtHead
<1>5. PICK w \in Thread : w = next[t] /\ Waits(w)
  BY <1>1, <1>3, <1>4 DEF Linked, Waits
<1> QED
  BY <1>1, <1>2, <1>3, <1>4, <1>5, HandOverLive

LEMMA ActivateLive ==
  ASSUME Assumptions, Inv, Live, NEW t \in Thread, Activate(t) PROVE Live'
<1>1. /\ TypeOK /\ Queue /\ Return(t, "activate")
      /\ status' = [status EXCEPT ![me[t].W] = "active"]
      /\ UNCHANGED <<reader_head, writer_tail, next, calls>> /\ SameFlags
  BY DEF Inv, Activate, SetStatus, Set, words, SameFlags
<1>2. me[t].pc = "activate" /\ me'[t].pc = me[t].return /\ me'[t].return = me[t].return /\ Others(t)
  BY <1>1, ReturnStep
<1>3. /\ HasTurn(t) /\ Shuts(t) /\ Knows(t) /\ ~Waits(t) /\ me[t].pc \in SetNext
  BY <1>1, <1>2 DEF Queue, Writers, HasTurn, Shuts, Granted, Waits, SetNext
<1>4. CASE me[t].return = "delete"
  <2>1. PICK w \in Thread : w = me[t].W /\ Waits(w)
    BY <1>3, <1>4 DEF Knows, Waits
  <2>2. ~InQueue(t)
    BY <1>2, <1>4 DEF InQueue, Ends, Serves, SetNext, Leave, LetIn, Opens
  <2> QED
    BY <1>1, <1>2, <1>3, <1>4, <2>1, <2>2, HandOverLive
<1>5. CASE me[t].return # "delete"
  <2>1. me[t].return = "wait_write" /\ me[t].W = t
    BY <1>2, <1>3, <1>5 DEF Knows
  <2>2. status'[t] = "active" /\ \A u \in Thread : u # t => status'[u] = status[u]
    BY <1>1, <2>1 DEF TypeOK
  <2>3. SameInQueue(t) /\ SameInList(t)
    BY <1>1, <1>2, <2>1, <2>2 DEF SameInQueue, HasTurn, InQueue, Serves, Ends, Active, SetNext, Leave,
       LetIn, Opens, SameInList, Expects, Refers, Reads
  <2>4. SameAtDoor(t)
    BY <1>2, <2>1, <2>2 DEF SameAtDoor, First, Shuts, Granted, Active, Tells, Opens
  <2> QED
    BY <1>1, <1>2, <2>2, <2>3, <2>4, Quiet
<1> QED
  BY <1>4, <1>5

\* Who has the turn and is the last in the queue is alone in it.
LEMMA LastIsAlone ==
  ASSUME Assumptions, Inv, Live, NEW t \in Thread, HasTurn(t), ~Serves(t), writer_tail = t,
         NEW x \in Thread, InQueue(x)
  PROVE  x = t
<1>1. TypeOK /\ Turns /\ Linked /\ LiveQueue
  BY DEF Inv, Queue, Live
<1>2. PICK r \in [Thread -> Nat] : \A u, v \in Thread : Older(u, v) => r[u] < r[v]
  BY DEF Live, Ordered
<1> SUFFICES ASSUME x # t PROVE FALSE
  OBVIOUS
<1> DEFINE B == {n \in Nat : \E u \in Thread : u # t /\ InQueue(u) /\ r[u] = n}
<1>3. r[x] \in B
  BY <1>2
<1>4. PICK n \in B : \A m \in B : n <= m
  BY <1>3, Smallest
<1>5. PICK u \in Thread : u # t /\ InQueue(u) /\ r[u] = n
  BY <1>4
<1>6. PICK v \in Thread : v # t /\ InQueue(v) /\ Older(v, u)
  <2>1. CASE me[u].pc = "link"
    BY <1>1, <2>1 DEF Linked, Older, Assumptions
  <2>2. CASE me[u].pc # "link"
    <3>1. Behind(u)
      BY <1>1, <1>5, <2>2 DEF Turns, LiveQueue
    <3>2. PICK v \in Thread : (InQueue(v) /\ next[v] = u) \/ (Serves(v) /\ me[v].W = u)
      BY <3>1 DEF Behind
    <3>3. Serves(v) => HasTurn(v)
      BY DEF Serves, HasTurn
    <3>4. v # t /\ InQueue(v) /\ next[v] = u
      BY <1>1, <3>2, <3>3 DEF Turns, Linked, Assumptions
    <3> QED
      BY <3>4 DEF Older
  <2> QED
    BY <2>1, <2>2
<1>7. r[v] < n /\ r[v] \in B
  BY <1>2, <1>5, <1>6
<1> QED
  BY <1>4, <1>7

LEMMA ClearTailLive ==
  ASSUME Assumptions, Inv, Live, NEW t \in Thread, ClearTail(t) PROVE Live'
<1>1. /\ TypeOK /\ Live /\ me[t].pc = "clear_tail" /\ SameFlags
      /\ UNCHANGED <<reader_head, status, next, calls>>
  BY DEF Inv, ClearTail, Await, Goto, At, words, nodes, SameFlags
<1>2. HasTurn(t) /\ InQueue(t) /\ ~Serves(t) /\ me[t].I = t
  BY <1>1 DEF Inv, Queue, Writers, Knows, HasTurn, InQueue, Serves, SetNext, Leave
<1>3. CASE writer_tail = t
  <2>1. Goto(t, "clear_tail", "delete") /\ writer_tail' = NULL /\ "delete" \in PC
    BY <1>2, <1>3 DEF ClearTail, PC
  <2>2. me'[t].pc = "delete" /\ Others(t)
    BY <1>1, <2>1, GotoStep
  <2>3. ~InQueue(t)' /\ SameInList(t) /\ SameAtDoor(t)
    BY <1>1, <2>2 DEF InQueue, Serves, Ends, SetNext, Leave, LetIn, Opens, SameInList, Expects, Refers,
       Reads, SameAtDoor, First, Shuts, Granted, Tells
  <2>4. \A u \in Thread : /\ SameInList(u) /\ SameAtDoor(u)
                          /\ u # t => SameInQueue(u) /\ me'[u] = me[u]
    BY <1>1, <2>2, <2>3, Unmoved DEF Others
  <2>5. LiveList' /\ LiveDoor'
    BY <1>1, <2>4, ListSame, DoorSame DEF Live
  <2>6. \A u \in Thread : ~InQueue(u)'
    BY <1>2, <1>3, <2>3, <2>4, LastIsAlone DEF SameInQueue
  <2>7. LiveQueue'
    <3>1. \A u \in Thread : me'[u].pc # "await_next"
      BY <2>6 DEF InQueue, Leave
    <3> QED
      BY <2>1, <2>6, <3>1 DEF LiveQueue
  <2>8. Ordered'
    <3>1. \A u, v \in Thread : Older(u, v)' => Older(u, v)
      BY <2>2, <2>4, <2>6 DEF Older, SameInList
    <3> QED
      BY <1>1, <3>1, OrderKept DEF Live
  <2> QED
    BY <2>5, <2>7, <2>8 DEF Live
<1>4. CASE writer_tail # t
  <2>1. Goto(t, "clear_tail", "await_next") /\ writer_tail' = writer_tail /\ "await_next" \in PC
    BY <1>2, <1>4 DEF ClearTail, Await, words, PC, Leave
  <2>2. me'[t].pc = "await_next" /\ Others(t)
    BY <1>1, <2>1, GotoStep
  <2>3. SameInQueue(t) /\ SameInList(t) /\ SameAtDoor(t)
    BY <1>1, <1>4, <2>2 DEF SameInQueue, HasTurn, InQueue, Serves, Ends, SetNext, Leave, LetIn, Opens,
       SameInList, Expects, Refers, Reads, SameAtDoor, First, Shuts, Granted, Tells
  <2> QED
    BY <1>1, <2>1, <2>2, <2>3, Quiet
<1> QED
  BY <1>3, <1>4

(***************************************************************************)
(* Every step, and why somebody can always go on.                          *)
(***************************************************************************)
LEMMA InitLive ==
  ASSUME Assumptions, Init PROVE Live
<1>1. /\ \A t \in Thread : me[t] = Idle /\ status[t] = "invalid"
      /\ rdr = NoFlags /\ reader_head = NULL /\ writer_tail = NULL /\ calls = 0
  BY DEF Init
<1>2. ASSUME NEW t \in Thread PROVE me[t].pc = "idle"
  <2>1. me[t] = Idle
    BY <1>1
  <2> QED
    BY <2>1 DEF Idle
<1>3. \A t \in Thread : ~InQueue(t) /\ ~HasTurn(t) /\ ~Refers(t) /\ ~Expects(t)
  BY <1>2 DEF InQueue, HasTurn, Serves, Ends, Refers, Expects, Reads, SetNext, Leave, LetIn, Opens
<1>4. Ordered
  <2>1. [t \in Thread |-> 0] \in [Thread -> Nat] /\ \A t \in Thread : [u \in Thread |-> 0][t] <= calls
    BY <1>1
  <2>2. \A t, u \in Thread : ~Older(t, u)
    BY <1>2, <1>3 DEF Older
  <2> QED
    BY <1>1, <2>1, <2>2 DEF Ordered
<1>5. LiveQueue
  BY <1>1, <1>2, <1>3 DEF LiveQueue
<1>6. LiveList
  BY <1>3 DEF LiveList
<1>7. LiveDoor
  BY <1>1, <1>2 DEF LiveDoor, NoFlags
<1> QED
  BY <1>4, <1>5, <1>6, <1>7 DEF Live

LEMMA StepLive ==
  ASSUME Assumptions, Inv, Live, [Next]_vars PROVE Live'
<1>1. CASE UNCHANGED vars
  <2>1. /\ me' = me /\ status' = status /\ next' = next /\ calls' = calls
        /\ writer_tail' = writer_tail /\ reader_head' = reader_head /\ SameFlags
    BY <1>1 DEF vars, words, nodes, SameFlags
  <2>2. \A u \in Thread : SameInQueue(u) /\ SameInList(u) /\ SameAtDoor(u)
    BY <2>1, Unmoved
  <2> QED
    BY <2>1, <2>2, OrderSame, QueueSame, ListSame, DoorSame DEF Live
<1>2. ASSUME NEW t \in Thread, Writing(t) PROVE Live'
  BY <1>2, LockLive, TryLockLive, LinkLive, TriedLive, WaitWriteLive, StoreHeadLive, TryFlagsLive,
     OrFlag1Live, AwaitLive, OrFlag2Live, ActivateLive DEF Writing
<1>3. ASSUME NEW t \in Thread, EndingWrite(t) PROVE Live'
  BY <1>3, NextWriterLive, PassOnLive, ClearFlagsLive, ClearHeadLive, ClearTailLive, AwaitNextLive,
     DeleteLive DEF EndingWrite
<1>4. ASSUME NEW t \in Thread, Reading(t) PROVE Live'
  BY <1>4, LockReadLive, OrRFlagLive, WaitReadLive, CountNextLive, WakeNextLive, TryLockReadLive,
     TakeBackLive DEF Reading
<1>5. ASSUME NEW t \in Thread, Unblocking(t) PROVE Live'
  BY <1>5, UnblockLive, LookLive, TakeListLive, WakeHeadLive DEF Unblocking
<1> QED
  BY <1>1, <1>2, <1>3, <1>4, <1>5, UnlockLive DEF Next

\* Where a thread that is blocked stands, and what it does not do there.
LEMMA BlockedAt ==
  ASSUME Inv, NEW t \in Thread, Blocked(t)
  PROVE  /\ me[t].pc \in {"idle", "wait_write", "wait_read", "await_flag2", "await_readers", "await_next"}
         /\ ~Owns(t) /\ ~Counts(t) /\ ~First(t) /\ me[t].pc \notin Tells \cup {"link", "wake_head"}
         /\ me[t].pc = "wait_write" => ~Active(t)
         /\ me[t].pc = "wait_read" => ~Active(t)
         /\ me[t].pc = "await_flag2" => ~rdr.WFLAG2
         /\ me[t].pc = "await_readers" => rdr.count # 0
         /\ me[t].pc = "await_next" => next[t] = NULL /\ InQueue(t)
<1>1. /\ me[t].pc \in {"idle", "wait_write", "wait_read", "await_flag2", "await_readers", "await_next"}
      /\ me[t].pc = "wait_write" => ~Active(t)
      /\ me[t].pc = "wait_read" => ~Active(t)
      /\ me[t].pc = "await_flag2" => ~rdr.WFLAG2
      /\ me[t].pc = "await_readers" => rdr.count # 0
      /\ me[t].pc = "await_next" => next[me[t].I] = NULL
  BY DEF Blocked, At, Active
<1>2. ~Owns(t) /\ ~Counts(t) /\ ~First(t) /\ me[t].pc \notin Tells \cup {"link", "wake_head"}
  BY <1>1 DEF Owns, Reads, Counts, First, LetIn, Opens, Tells
<1>3. me[t].pc = "await_next" => me[t].I = t /\ InQueue(t)
  BY DEF Inv, Queue, Writers, Knows, HasTurn, InQueue, Leave
<1> QED
  BY <1>1, <1>2, <1>3

LEMMA DeadlockFree ==
  ASSUME Assumptions, Inv, Live PROVE NoDeadlock
<1> SUFFICES ASSUME \A t \in Thread : Blocked(t)
             PROVE  /\ \A t \in Thread : At(t, "idle")
                    /\ rdr = NoFlags /\ reader_head = NULL /\ writer_head = NULL /\ writer_tail = NULL
  BY DEF NoDeadlock
<1>1. /\ TypeOK /\ Queue /\ List /\ Group /\ Count
      /\ Ordered /\ LiveQueue /\ LiveList /\ LiveDoor
  BY DEF Inv, Live
<1>2. rdr.count = 0
  <2>1. {t \in Thread : Owns(t)} = {} /\ {t \in Thread : Counts(t)} = {}
    BY BlockedAt
  <2>2. Cardinality({}) = 0
    BY FS_EmptySet
  <2> QED
    BY <1>1, <2>1, <2>2 DEF Count
\* Nobody is left in a function of the writers: each waits for what is there
\* or for one who is to come.
<1>3. \A t \in Thread : me[t].pc \in {"idle", "wait_write", "wait_read"}
  <2>1. \A t \in Thread : me[t].pc # "await_readers"
    BY <1>2, BlockedAt
  <2>2. \A t \in Thread : me[t].pc # "await_flag2"
    BY <1>1, BlockedAt DEF LiveDoor
  <2>3. \A t \in Thread : me[t].pc # "await_next"
    BY <1>1, BlockedAt DEF LiveQueue
  <2> QED
    BY <2>1, <2>2, <2>3, BlockedAt
<1>4. \A t \in Thread : ~HasTurn(t) /\ ~Shuts(t)
  BY <1>3, BlockedAt DEF HasTurn, Shuts, Granted, Ends, SetNext, Leave, LetIn, Opens
<1>5. writer_head = NULL /\ writer_tail = NULL
  BY <1>1, <1>4 DEF Queue, AtHead, LiveQueue
<1>6. \A t \in Thread : me[t].pc # "wait_write"
  BY <1>1, <1>5 DEF LiveQueue, InQueue
<1>7. ~rdr.WFLAG1 /\ ~rdr.WFLAG2
  BY <1>1, <1>4 DEF LiveDoor
<1>8. reader_head = NULL /\ ~rdr.RFLAG
  BY <1>1, <1>7, BlockedAt DEF LiveDoor, Group
\* The one of the waiting readers that nobody came after is not referred to.
<1>9. \A t \in Thread : me[t].pc # "wait_read"
  <2> DEFINE W == {t \in Thread : me[t].pc = "wait_read"}
  <2>1. PICK r \in [Thread -> Nat] : /\ \A t \in Thread : r[t] <= calls
                                     /\ \A t, u \in Thread : Older(t, u) => r[t] < r[u]
    BY <1>1 DEF Ordered
  <2>2. \A t \in W : \E u \in W : r[t] < r[u]
    <3> SUFFICES ASSUME NEW t \in W PROVE \E u \in W : r[t] < r[u]
      OBVIOUS
    <3>1. Expects(t)
      BY <1>1, BlockedAt DEF List, Expects, Reads, Active
    <3>2. Known(t) /\ t # NULL
      BY <1>1, <3>1 DEF LiveList, Assumptions
    <3>3. PICK u \in Thread : Refers(u) /\ next[u] = t
      BY <1>3, <1>8, <3>2 DEF Known
    <3>4. u \in W
      BY <1>3, <3>3 DEF Refers, Reads, LetIn, Opens
    <3>5. r[t] < r[u]
      BY <2>1, <3>3 DEF Older
    <3> QED
      BY <3>4, <3>5
  <2>3. ASSUME W # {} PROVE FALSE
    <3> DEFINE T == {calls - r[t] : t \in W}
    <3>1. calls \in Nat /\ \A t \in W : r[t] \in Nat /\ calls - r[t] \in Nat
      BY <1>1, <2>1 DEF Ordered
    <3>2. T \in SUBSET Nat /\ T # {}
      BY <2>3, <3>1
    <3>3. PICK n \in T : \A m \in T : n <= m
      BY <3>2, Smallest
    <3>4. PICK t \in W : n = calls - r[t]
      BY <3>3
    <3>5. PICK u \in W : r[t] < r[u]
      BY <2>2, <3>4
    <3>6. n <= calls - r[u]
      BY <3>3, <3>5
    <3> QED
      BY <3>1, <3>4, <3>5, <3>6
  <2> QED
    BY <2>3
<1>10. \A t \in Thread : At(t, "idle")
  BY <1>3, <1>6, <1>9 DEF At
<1>11. rdr = NoFlags
  BY <1>1, <1>2, <1>7, <1>8 DEF TypeOK, NoFlags
<1> QED
  BY <1>5, <1>8, <1>10, <1>11

\* In every reachable state there is somebody that each waiting thread's turn
\* will come from (start_write, set_next_writer, end_write, start_read and
\* unblock_readers together).
THEOREM SomebodyGoesOn == ASSUME Assumptions PROVE Spec => [](Inv /\ Live)
<1>1. Init => Inv /\ Live
  BY InitInv, InitLive
<1>2. Inv /\ Live /\ [Next]_vars => (Inv /\ Live)'
  BY StepInv, StepLive
<1> QED
  BY <1>1, <1>2, PTL DEF Spec

\* The threads of a reader_writer_lock never all wait for one another, however
\* many they are, and when none is inside the word is 0 and the queue and the
\* list are empty, as ~reader_writer_lock() asserts.
THEOREM LockNeverStuck == ASSUME Assumptions PROVE Spec => []NoDeadlock
<1>1. Spec => [](Inv /\ Live)
  BY SomebodyGoesOn
<1>2. Inv /\ Live => NoDeadlock
  BY DeadlockFree
<1> QED
  BY <1>1, <1>2, PTL
=============================================================================
