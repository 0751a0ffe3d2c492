------------------------- MODULE PrivateServerProofs -------------------------
(***************************************************************************)
(* The server of worker threads, for any number of workers and of threads  *)
(* that ask for them.  The slack balances with what is asked for and with  *)
(* who is awake; the references are those of the threads that are still in *)
(* the server; each handle of a thread is with whoever is to release it.   *)
(* With notifications in one step nobody on the list oversleeps: while     *)
(* there is slack a thread keeps the chain reaction going.                 *)
(***************************************************************************)
EXTENDS PrivateServer, SumTheorems, SequenceTheorems, TLAPS

\* The program counters of a shutdown, of wake_some, of a wait and of a worker.
ClosingPC == {"shutdown", "notify", "signal_quit", "release_handle", "closed"}
WakingPC == {"wake_lock", "wake_loop", "wake_each", "signal", "launch", "launched"}
WaitPC == {"check", "try_insert", "insert", "cancel", "commit", "late", "sleep"}
WorkerPC == {"none", "run", "loop", "prepare", "woken", "quit", "end"} \cup WaitPC
\* The types of the variables, by component.
ServerTypes ==
    /\ my_slack \in Int /\ my_ref_count \in Int
    /\ asleep \in Seq(Worker) /\ mutex \in Actor \cup {NULL} /\ k \in [Worker -> Int]
StateTypes ==
    /\ my_state \in [Worker -> {"init", "starting", "normal", "quit"}]
    /\ launched \subseteq Worker /\ released \in [Worker -> Nat] /\ freed \in BOOLEAN
MonitorTypes ==
    /\ in_wait \in [Worker -> BOOLEAN] /\ spurious \in [Worker -> BOOLEAN]
    /\ notified \in [Worker -> BOOLEAN] /\ sema \in [Worker -> {0, 1}]
PlaceTypes ==
    /\ pc \in [Actor -> {"idle"} \cup ClosingPC \cup WakingPC \cup WorkerPC]
    /\ back \in [Actor -> {NULL, "idle", "loop", "init", "starting", "normal", "quit"}]
DemandTypes ==
    /\ additional \in [Actor -> Nat] /\ wakee \in [Actor -> Seq(Worker)]
    /\ asked \in [Client -> Nat] /\ calls \in Nat
Types == ServerTypes /\ StateTypes /\ MonitorTypes /\ PlaceTypes /\ DemandTypes

\* Where a thread can be, where it goes from there, and what it holds.
AtHome ==
    /\ \A c \in Client : pc[c] \in {"idle"} \cup WakingPC \cup ClosingPC
    /\ \A w \in Worker : pc[w] \in WakingPC \cup WorkerPC
Returns == \A a \in Actor : pc[a] \in WakingPC => back[a] = IF a \in Client THEN "idle" ELSE "loop"
InHand ==
    /\ \A a \in Actor : pc[a] \notin {"wake_lock", "wake_loop"} => additional[a] = 0
    /\ \A w \in Worker : additional[w] = 0
Popped ==
    /\ \A a \in Actor : pc[a] \notin ClosingPC \cup (WakingPC \ {"wake_lock"}) => wakee[a] = <<>>
    /\ \A a \in Actor : pc[a] \in {"signal", "launch", "launched", "notify", "signal_quit", "release_handle"} =>
           wakee[a] # <<>>
Locked == \A a \in Actor : pc[a] \in {"wake_loop", "insert"} <=> mutex = a
Owed == \A c \in Client : additional[c] <= asked[c]
\* Shutting down: one client does, when the others are idle and nothing is asked for.
Alone == \A c \in Client : pc[c] \in ClosingPC =>
             \A d \in Client : asked[d] = 0 /\ (d # c => pc[d] = "idle")
Telling == \A c \in Client :
    /\ pc[c] \in {"notify", "signal_quit", "release_handle"} => my_state[wakee[c][1]] = "quit"
    /\ pc[c] = "release_handle" => back[c] = "normal"
    /\ pc[c] = "closed" => \A w \in Worker : my_state[w] = "quit"
Quitting == \A w \in Worker : /\ my_state[w] = "quit" => Closing
                              /\ pc[w] \in {"quit", "end"} => my_state[w] = "quit"
Shape == AtHome /\ Returns /\ InHand /\ Popped /\ Locked /\ Owed /\ Alone /\ Telling /\ Quitting
\* Workers with the list in their hands, and those that have left the loop.
Inserting == {w \in Worker : pc[w] = "insert"}
Left == {w \in Worker : pc[w] \in {"quit", "end"}}
\* The balance of slack, which counts demand that is still in hand.
Balance ==
    /\ my_slack + SumFunction(additional) + Cardinality(Worker)
         = SumFunction(asked) + Len(asleep) + Cardinality(Inserting) + Cardinality(Left)
    /\ SumFunction(asked) <= Cardinality(Worker)

\* a is making w a thread; c is to release the handle of w.
Launcher(a, w) == pc[a] \in {"launch", "launched"} /\ Wakee(a) = w
Releaser(c, w) == /\ pc[c] \in {"notify", "signal_quit", "release_handle"}
                  /\ back[c] = "normal" /\ wakee[c][1] = w

\* Who holds a reference to the server.
Dropped(w) == /\ my_state[w] = "quit" /\ pc[w] = "none"
              /\ \A a \in Actor : ~Launcher(a, w)
Counted == {w \in Worker : pc[w] # "end" /\ ~Dropped(w)}
Shut == \E c \in Client : pc[c] = "closed"
Refs == /\ my_ref_count = Cardinality(Counted) + (IF Shut THEN 0 ELSE 1)
        /\ freed <=> my_ref_count = 0
\* The handle of w: released once, by whoever is to do so at a shutdown.
HandleOK(w) ==
    /\ w \in launched <=> pc[w] # "none"
    /\ w \notin launched => released[w] = 0
    /\ my_state[w] = "init" => pc[w] = "none" /\ \A a \in Actor : ~Launcher(a, w)
    /\ my_state[w] = "starting" => \E a \in Actor : Launcher(a, w)
    /\ my_state[w] = "normal" => pc[w] # "none" /\ released[w] = 0 /\ \A a \in Actor : ~Launcher(a, w)
    /\ \A a \in Actor : Launcher(a, w) => /\ released[w] = 0 /\ (pc[a] = "launch" <=> pc[w] = "none")
                                          /\ \A b \in Actor : Launcher(b, w) => a = b
    /\ \A c \in Client : Releaser(c, w) =>
          released[w] = 0 /\ pc[w] # "none" /\ \A a \in Actor : ~Launcher(a, w)
    /\ my_state[w] = "quit" /\ pc[w] # "none" =>
          \/ released[w] = 1
          \/ \E a \in Actor : Launcher(a, w)
          \/ \E c \in Client : Releaser(c, w)
Handles == \A w \in Worker : HandleOK(w)

\* While a worker holds the list its unit of slack is no more than it has read.
SlackRead == ~Closing => \A w \in Worker : pc[w] = "insert" => my_slack <= k[w]

\* The inductive invariant, however a notification is done.
Base == Types /\ Shape /\ Balance /\ Refs /\ Handles /\ SlackRead

\* The assumptions in a form the provers use.
LEMMA Threads == ASSUME Assumptions PROVE
    /\ Worker \cap Client = {} /\ NULL \notin Actor /\ Worker \subseteq Actor /\ Client \subseteq Actor
    /\ MaxDelta \in Nat /\ AtomicNotify \in BOOLEAN
    /\ IsFiniteSet(Worker) /\ IsFiniteSet(Client) /\ IsFiniteSet(Actor) /\ Cardinality(Worker) \in Nat
<1>1. IsFiniteSet(Worker) /\ IsFiniteSet(Client)
  BY DEF Assumptions
<1> QED BY <1>1, FS_Union, FS_CardinalityType DEF Assumptions, Actor

\* The lists: a worker at the front, the first and the last one taken away, one added.
LEMMA Longer ==
    ASSUME NEW S, NEW s \in Seq(S), NEW w \in S
    PROVE  /\ <<w>> \o s \in Seq(S) /\ <<w>> \o s # <<>> /\ Len(<<w>> \o s) = Len(s) + 1
           /\ (<<w>> \o s)[1] = w /\ \A i \in 1..Len(s) : (<<w>> \o s)[i + 1] = s[i]
           /\ \A i \in 2..Len(s) + 1 : (<<w>> \o s)[i] = s[i - 1]
  OBVIOUS
LEMMA Taken ==
    ASSUME NEW S, NEW s \in Seq(S), s # <<>>
    PROVE  /\ Tail(s) \in Seq(S) /\ Len(Tail(s)) = Len(s) - 1 /\ Head(s) = s[1] /\ s[1] \in S
           /\ \A i \in 1..Len(s) - 1 : Tail(s)[i] = s[i + 1]
  OBVIOUS
LEMMA Added ==
    ASSUME NEW S, NEW s \in Seq(S), NEW w \in S
    PROVE  /\ Append(s, w) \in Seq(S) /\ Append(s, w) # <<>> /\ Len(Append(s, w)) = Len(s) + 1
           /\ Append(s, w)[Len(s) + 1] = w /\ \A i \in 1..Len(s) : Append(s, w)[i] = s[i]
  OBVIOUS
LEMMA Fronts ==
    ASSUME NEW S, NEW s \in Seq(S), s # <<>>
    PROVE  /\ Front(s) \in Seq(S) /\ Len(Front(s)) = Len(s) - 1 /\ Last(s) = s[Len(s)] /\ Last(s) \in S
           /\ \A i \in 1..Len(s) - 1 : Front(s)[i] = s[i]
           /\ Len(s) \in Nat /\ Len(s) > 0
<1>1. Len(s) \in Nat /\ Len(s) > 0 /\ s[Len(s)] \in S /\ \A i \in 1..Len(s) - 1 : s[i] \in S
  OBVIOUS
<1> DEFINE n == Len(s) - 1
<1>2. n \in Int /\ n >= 0 /\ \A i \in 1..n : s[i] \in S
  BY <1>1
<1> HIDE DEF n
<1>3. /\ SubSeq(s, 1, n) \in Seq(S) /\ Len(SubSeq(s, 1, n)) = (IF 1 <= n THEN n - 1 + 1 ELSE 0)
      /\ \A i \in 1..n - 1 + 1 : SubSeq(s, 1, n)[i] = s[1 + i - 1]
  BY <1>2, SubSeqProperties
<1>4. Front(s) = SubSeq(s, 1, n) /\ Last(s) = s[Len(s)]
  BY DEF Front, Last, n
<1>5. Len(Front(s)) = n
  BY <1>2, <1>3, <1>4
<1>6. \A i \in 1..n : Front(s)[i] = s[i]
  BY <1>2, <1>3, <1>4
<1>7. /\ Len(Front(s)) = Len(s) - 1 /\ \A i \in 1..Len(s) - 1 : Front(s)[i] = s[i]
  BY <1>5, <1>6 DEF n
<1>8. Front(s) \in Seq(S) /\ Last(s) = s[Len(s)]
  BY <1>3, <1>4
<1> QED BY <1>1, <1>7, <1>8
LEMMA Empty == ASSUME NEW S, NEW s \in Seq(S) PROVE Len(s) \in Nat /\ (s = <<>> <=> Len(s) = 0)
  OBVIOUS

\* The parts that the actions are made of.
LEMMA Signalled ==
    ASSUME Types, NEW w \in Worker, Signal(w)
    PROVE  /\ in_wait' \in [Worker -> BOOLEAN] /\ sema' \in [Worker -> {0, 1}]
           /\ in_wait'[w] = FALSE
           /\ in_wait[w] = TRUE => sema'[w] = 1
           /\ in_wait[w] = FALSE => sema'[w] = sema[w]
           /\ \A v \in Worker : v # w => in_wait'[v] = in_wait[v] /\ sema'[v] = sema[v]
<1>1. in_wait \in [Worker -> BOOLEAN] /\ sema \in [Worker -> {0, 1}]
  BY DEF Types, MonitorTypes
<1>2. in_wait' = [in_wait EXCEPT ![w] = FALSE]
  BY DEF Signal, Set
<1>3. CASE in_wait[w]
  <2>1. sema' = [sema EXCEPT ![w] = 1]
    BY <1>3 DEF Signal, Set
  <2> QED BY <1>1, <1>2, <1>3, <2>1
<1>4. CASE ~in_wait[w]
  <2>1. sema' = sema
    BY <1>4 DEF Signal
  <2> QED BY <1>1, <1>2, <1>4, <2>1
<1> QED BY <1>3, <1>4

\* The second step of a notification, or nothing.
LEMMA NotifiedLate ==
    ASSUME Types, NEW w \in Worker, SignalLate(w)
    PROVE  /\ in_wait' \in [Worker -> BOOLEAN] /\ sema' \in [Worker -> {0, 1}]
           /\ AtomicNotify => in_wait' = in_wait /\ sema' = sema
<1>1. CASE AtomicNotify
  BY <1>1 DEF SignalLate, Types, MonitorTypes
<1>2. CASE ~AtomicNotify
  BY <1>2, Signalled DEF SignalLate
<1> QED BY <1>1, <1>2

\* The last of the workers in hand is the one to wake.
LEMMA ToWake ==
    ASSUME Types, NEW a \in Actor, wakee[a] # <<>>
    PROVE  /\ Wakee(a) \in Worker /\ Wakee(a) = wakee[a][Len(wakee[a])]
           /\ Len(wakee[a]) \in Nat /\ Len(wakee[a]) > 0
           /\ wakee[a][1] \in Worker
<1>1. wakee[a] \in Seq(Worker)
  BY DEF Types, DemandTypes
<1>2. Wakee(a) = wakee[a][Len(wakee[a])] /\ Wakee(a) \in Worker
  BY <1>1, Fronts DEF Wakee
<1>3. Len(wakee[a]) \in Nat /\ Len(wakee[a]) > 0 /\ wakee[a][1] \in Worker
  BY <1>1
<1> QED BY <1>2, <1>3

\* wake_or_launch of a worker that runs already notifies it.
LEMMA SleeperNotified ==
    ASSUME Types, NEW a \in Actor, WakeEach(a), my_state[Wakee(a)] # "init"
    PROVE  /\ pc[a] = "wake_each" /\ wakee[a] # <<>> /\ Wakee(a) \in Worker
           /\ pc' = [pc EXCEPT ![a] = "signal"]
           /\ notified' = [notified EXCEPT ![Wakee(a)] = TRUE]
           /\ in_wait' \in [Worker -> BOOLEAN] /\ sema' \in [Worker -> {0, 1}]
           /\ AtomicNotify => Signal(Wakee(a))
           /\ my_slack' = my_slack /\ my_ref_count' = my_ref_count /\ asleep' = asleep /\ mutex' = mutex
           /\ my_state' = my_state /\ spurious' = spurious /\ additional' = additional
           /\ wakee' = wakee /\ back' = back /\ k' = k /\ asked' = asked /\ calls' = calls
           /\ launched' = launched /\ released' = released /\ freed' = freed
<1>1. pc[a] = "wake_each" /\ wakee[a] # <<>> /\ Bump(a, "wake_each", "signal", Wakee(a))
  BY Zenon DEF WakeEach
<1>2. Wakee(a) \in Worker
  BY <1>1, ToWake
<1> DEFINE w == Wakee(a)
<1>3. w \in Worker /\ Bump(a, "wake_each", "signal", w)
  BY <1>1, <1>2
<1> HIDE DEF w
<1>4. /\ pc' = [pc EXCEPT ![a] = "signal"] /\ notified' = [notified EXCEPT ![w] = TRUE]
      /\ my_slack' = my_slack /\ my_ref_count' = my_ref_count /\ asleep' = asleep /\ mutex' = mutex
      /\ my_state' = my_state /\ spurious' = spurious /\ additional' = additional
      /\ wakee' = wakee /\ back' = back /\ k' = k /\ asked' = asked /\ calls' = calls
      /\ launched' = launched /\ released' = released /\ freed' = freed
  BY <1>3 DEF Bump, Goto, Set, server, waking, demand, hist
<1>5. /\ in_wait' \in [Worker -> BOOLEAN] /\ sema' \in [Worker -> {0, 1}]
      /\ AtomicNotify => Signal(w)
  <2>1. CASE AtomicNotify
    BY <1>3, <2>1, Signalled DEF Bump
  <2>2. CASE ~AtomicNotify
    BY <1>3, <2>2 DEF Bump, Types, MonitorTypes
  <2> QED BY <2>1, <2>2
<1> QED BY <1>1, <1>2, <1>4, <1>5 DEF w

\* start_shutdown of a worker that runs notifies it.
LEMMA QuitNotified ==
    ASSUME Types, Popped, NEW c \in Client, NotifyQuit(c)
    PROVE  /\ pc[c] = "notify" /\ wakee[c] # <<>> /\ wakee[c][1] \in Worker
           /\ pc' = [pc EXCEPT ![c] = "signal_quit"]
           /\ notified' = [notified EXCEPT ![wakee[c][1]] = TRUE]
           /\ in_wait' \in [Worker -> BOOLEAN] /\ sema' \in [Worker -> {0, 1}]
           /\ AtomicNotify => Signal(wakee[c][1])
           /\ my_slack' = my_slack /\ my_ref_count' = my_ref_count /\ asleep' = asleep /\ mutex' = mutex
           /\ my_state' = my_state /\ spurious' = spurious /\ additional' = additional
           /\ wakee' = wakee /\ back' = back /\ k' = k /\ asked' = asked /\ calls' = calls
           /\ launched' = launched /\ released' = released /\ freed' = freed
<1>1. pc[c] = "notify" /\ wakee[c] # <<>> /\ wakee[c][1] \in Worker
  <2>1. c \in Actor /\ pc[c] = "notify"
    BY DEF NotifyQuit, Actor
  <2>2. wakee[c] # <<>>
    BY <2>1 DEF Popped
  <2> QED BY <2>1, <2>2, ToWake
<1> DEFINE w == wakee[c][1]
<1>2. w \in Worker /\ Bump(c, "notify", "signal_quit", w)
  BY <1>1 DEF NotifyQuit
<1> HIDE DEF w
<1>3. /\ pc' = [pc EXCEPT ![c] = "signal_quit"] /\ notified' = [notified EXCEPT ![w] = TRUE]
      /\ my_slack' = my_slack /\ my_ref_count' = my_ref_count /\ asleep' = asleep /\ mutex' = mutex
      /\ my_state' = my_state /\ spurious' = spurious /\ additional' = additional
      /\ wakee' = wakee /\ back' = back /\ k' = k /\ asked' = asked /\ calls' = calls
      /\ launched' = launched /\ released' = released /\ freed' = freed
  BY <1>2 DEF Bump, Goto, Set, server, waking, demand, hist
<1>4. /\ in_wait' \in [Worker -> BOOLEAN] /\ sema' \in [Worker -> {0, 1}]
      /\ AtomicNotify => Signal(w)
  <2>1. CASE AtomicNotify
    BY <1>2, <2>1, Signalled DEF Bump
  <2>2. CASE ~AtomicNotify
    BY <1>2, <2>2 DEF Bump, Types, MonitorTypes
  <2> QED BY <2>1, <2>2
<1> QED BY <1>1, <1>3, <1>4 DEF w

\* The first worker on the list goes to the end of those in hand.
LEMMA Popping ==
    ASSUME Types, NEW a \in Actor, asleep # <<>>, Pop(a)
    PROVE  /\ asleep' \in Seq(Worker) /\ asleep[1] \in Worker /\ Len(asleep') = Len(asleep) - 1
           /\ \A i \in 1..Len(asleep) - 1 : asleep'[i] = asleep[i + 1]
           /\ wakee' = [wakee EXCEPT ![a] = Append(wakee[a], asleep[1])]
           /\ wakee' \in [Actor -> Seq(Worker)] /\ wakee'[a] # <<>>
           /\ Len(wakee'[a]) = Len(wakee[a]) + 1 /\ wakee'[a][Len(wakee[a]) + 1] = asleep[1]
           /\ \A i \in 1..Len(wakee[a]) : wakee'[a][i] = wakee[a][i]
           /\ \A b \in Actor : b # a => wakee'[b] = wakee[b]
<1>1. asleep \in Seq(Worker) /\ wakee \in [Actor -> Seq(Worker)]
  BY DEF Types, ServerTypes, DemandTypes
<1>2. asleep' = Tail(asleep) /\ wakee' = [wakee EXCEPT ![a] = Append(wakee[a], Head(asleep))]
  BY DEF Pop, Set
<1>3. /\ asleep' \in Seq(Worker) /\ asleep[1] \in Worker /\ Len(asleep') = Len(asleep) - 1
      /\ \A i \in 1..Len(asleep) - 1 : asleep'[i] = asleep[i + 1] /\ Head(asleep) = asleep[1]
  BY <1>1, <1>2, Taken
<1>4. wakee[a] \in Seq(Worker) /\ Head(asleep) = asleep[1]
  BY <1>1, Taken
<1> DEFINE s == Append(wakee[a], asleep[1])
<1>5. /\ s \in Seq(Worker) /\ s # <<>> /\ Len(s) = Len(wakee[a]) + 1 /\ s[Len(wakee[a]) + 1] = asleep[1]
      /\ \A i \in 1..Len(wakee[a]) : s[i] = wakee[a][i]
  BY <1>3, <1>4, Added
<1>6. wakee' = [wakee EXCEPT ![a] = s]
  BY <1>2, <1>4
<1> HIDE DEF s
<1>7. wakee' \in [Actor -> Seq(Worker)] /\ wakee'[a] = s /\ \A b \in Actor : b # a => wakee'[b] = wakee[b]
  BY <1>1, <1>5, <1>6
<1> QED BY <1>3, <1>5, <1>6, <1>7 DEF s

\* A worker that is being made a thread is not one yet.
LEMMA NotYet ==
    ASSUME Assumptions, Types, Popped, Handles, NEW a \in Actor, Launch(a)
    PROVE  Wakee(a) \in Worker /\ pc[Wakee(a)] = "none" /\ Wakee(a) # a
<1>1. Wakee(a) \in Worker /\ pc[a] = "launch"
  BY Fronts DEF Types, DemandTypes, Popped, Launch, Wakee
<1> QED BY <1>1 DEF Handles, HandleOK, Launcher

\* Every variable keeps its type.
LEMMA TypesStep ==
    ASSUME Assumptions, Types, Returns, Popped, Handles, Next
    PROVE  Types'
<1> USE Threads, Types DEF Types, Set, Goto, Jump, server, monitor, waking, demand, hist
<1>1. ASSUME NEW c \in Client, NEW delta \in 1..MaxDelta, Request(c, delta) PROVE Types'
  <2>1. /\ pc[c] = "idle" /\ pc' = [pc EXCEPT ![c] = "wake_lock"]
        /\ back' = [back EXCEPT ![c] = "idle"]
        /\ additional' = [additional EXCEPT ![c] = delta]
        /\ asked' = [asked EXCEPT ![c] = delta] /\ calls' = calls + 1
        /\ my_slack' = my_slack /\ my_ref_count' = my_ref_count /\ asleep' = asleep
        /\ mutex' = mutex /\ k' = k /\ my_state' = my_state /\ launched' = launched
        /\ released' = released /\ freed' = freed /\ in_wait' = in_wait
        /\ spurious' = spurious /\ notified' = notified /\ sema' = sema /\ wakee' = wakee
    BY <1>1 DEF Request, WakeSome
  <2>2. ServerTypes' /\ StateTypes' /\ MonitorTypes'
    BY <2>1 DEF ServerTypes, StateTypes, MonitorTypes
  <2>3. PlaceTypes'
    BY <2>1 DEF PlaceTypes, ClosingPC, WakingPC, WorkerPC, WaitPC
  <2>4. DemandTypes'
    BY <2>1 DEF DemandTypes
  <2> QED BY <2>2, <2>3, <2>4 DEF Types
<1>2. ASSUME NEW c \in Client, Return(c) PROVE Types'
  <2>1. /\ pc[c] = "idle" /\ my_slack' = my_slack - asked[c]
        /\ pc' = [pc EXCEPT ![c] = "idle"] /\ asked' = [asked EXCEPT ![c] = 0]
        /\ my_ref_count' = my_ref_count /\ asleep' = asleep /\ mutex' = mutex /\ k' = k
        /\ my_state' = my_state /\ launched' = launched /\ released' = released
        /\ freed' = freed /\ in_wait' = in_wait /\ spurious' = spurious
        /\ notified' = notified /\ sema' = sema /\ back' = back
        /\ additional' = additional /\ wakee' = wakee /\ calls' = calls
    BY <1>2 DEF Return
  <2>2. StateTypes' /\ MonitorTypes'
    BY <2>1 DEF StateTypes, MonitorTypes
  <2>3. ServerTypes'
    BY <2>1 DEF ServerTypes, DemandTypes
  <2>4. PlaceTypes'
    BY <2>1 DEF PlaceTypes, ClosingPC, WakingPC, WorkerPC, WaitPC
  <2>5. DemandTypes'
    BY <2>1 DEF DemandTypes
  <2> QED BY <2>2, <2>3, <2>4, <2>5 DEF Types
<1>3. ASSUME NEW c \in Client, Close(c) PROVE Types'
  <2>1. /\ pc[c] = "idle" /\ pc' = [pc EXCEPT ![c] = "shutdown"] /\ my_slack' = my_slack
        /\ my_ref_count' = my_ref_count /\ asleep' = asleep /\ mutex' = mutex /\ k' = k
        /\ my_state' = my_state /\ launched' = launched /\ released' = released
        /\ freed' = freed /\ in_wait' = in_wait /\ spurious' = spurious
        /\ notified' = notified /\ sema' = sema /\ back' = back
        /\ additional' = additional /\ wakee' = wakee /\ asked' = asked /\ calls' = calls
    BY <1>3 DEF Close
  <2>2. ServerTypes' /\ StateTypes' /\ MonitorTypes' /\ DemandTypes'
    BY <2>1 DEF ServerTypes, StateTypes, MonitorTypes, DemandTypes
  <2>3. PlaceTypes'
    BY <2>1 DEF PlaceTypes, ClosingPC, WakingPC, WorkerPC, WaitPC
  <2> QED BY <2>2, <2>3 DEF Types
<1>4. ASSUME NEW c \in Client, NEW w \in Worker, StartShutdown(c, w) PROVE Types'
  <2>1. CASE my_state[w] = "init"
    <3>1. /\ pc[c] = "shutdown" /\ my_ref_count' = my_ref_count - 1
          /\ my_state' = [my_state EXCEPT ![w] = "quit"] /\ freed' = (my_ref_count = 1)
          /\ pc' = [pc EXCEPT ![c] = "shutdown"]
          /\ back' = [back EXCEPT ![c] = my_state[w]]
          /\ wakee' = [wakee EXCEPT ![c] = <<w>>] /\ my_slack' = my_slack
          /\ asleep' = asleep /\ mutex' = mutex /\ k' = k /\ launched' = launched
          /\ released' = released /\ in_wait' = in_wait /\ spurious' = spurious
          /\ notified' = notified /\ sema' = sema /\ additional' = additional
          /\ asked' = asked /\ calls' = calls
      BY <1>4, <2>1 DEF StartShutdown, RemoveServerRef
    <3>2. <<w>> \in Seq(Worker)
      OBVIOUS
    <3>3. my_state[w] \in {"init", "starting", "normal", "quit"}
      BY DEF StateTypes
    <3>4. MonitorTypes'
      BY <3>1 DEF MonitorTypes
    <3>5. ServerTypes'
      BY <3>1, <3>2, <3>3 DEF ServerTypes
    <3>6. StateTypes'
      BY <3>1, <3>2, <3>3 DEF StateTypes
    <3>7. PlaceTypes'
      BY <3>1, <3>2, <3>3 DEF PlaceTypes, ClosingPC, WakingPC, WorkerPC, WaitPC
    <3>8. DemandTypes'
      BY <3>1, <3>2, <3>3 DEF DemandTypes
    <3> QED BY <3>4, <3>5, <3>6, <3>7, <3>8 DEF Types
  <2>2. CASE ~(my_state[w] = "init")
    <3>1. /\ pc[c] = "shutdown" /\ my_state' = [my_state EXCEPT ![w] = "quit"]
          /\ pc' = [pc EXCEPT ![c] = "notify"]
          /\ back' = [back EXCEPT ![c] = my_state[w]]
          /\ wakee' = [wakee EXCEPT ![c] = <<w>>] /\ my_slack' = my_slack
          /\ my_ref_count' = my_ref_count /\ asleep' = asleep /\ mutex' = mutex /\ k' = k
          /\ launched' = launched /\ released' = released /\ freed' = freed
          /\ in_wait' = in_wait /\ spurious' = spurious /\ notified' = notified
          /\ sema' = sema /\ additional' = additional /\ asked' = asked /\ calls' = calls
      BY <1>4, <2>2 DEF StartShutdown, RemoveServerRef
    <3>2. <<w>> \in Seq(Worker)
      OBVIOUS
    <3>3. my_state[w] \in {"init", "starting", "normal", "quit"}
      BY DEF StateTypes
    <3>4. ServerTypes' /\ MonitorTypes'
      BY <3>1 DEF ServerTypes, MonitorTypes
    <3>5. StateTypes'
      BY <3>1, <3>2, <3>3 DEF StateTypes
    <3>6. PlaceTypes'
      BY <3>1, <3>2, <3>3 DEF PlaceTypes, ClosingPC, WakingPC, WorkerPC, WaitPC
    <3>7. DemandTypes'
      BY <3>1, <3>2, <3>3 DEF DemandTypes
    <3> QED BY <3>4, <3>5, <3>6, <3>7 DEF Types
  <2> QED BY <2>1, <2>2
<1>5. ASSUME NEW c \in Client, NotifyQuit(c) PROVE Types'
  <2>1. /\ pc[c] = "notify" /\ notified' = [notified EXCEPT ![wakee[c][1]] = TRUE]
        /\ pc' = [pc EXCEPT ![c] = "signal_quit"] /\ my_slack' = my_slack
        /\ my_ref_count' = my_ref_count /\ asleep' = asleep /\ mutex' = mutex /\ k' = k
        /\ my_state' = my_state /\ launched' = launched /\ released' = released
        /\ freed' = freed /\ spurious' = spurious /\ back' = back
        /\ additional' = additional /\ wakee' = wakee /\ asked' = asked /\ calls' = calls
    BY <1>5, QuitNotified
  <2>2. wakee[c] # <<>> /\ wakee[c][1] \in Worker
    BY <2>1, ToWake DEF Popped, ClosingPC
  <2>3. in_wait' \in [Worker -> BOOLEAN] /\ sema' \in [Worker -> {0, 1}]
    BY <1>5, QuitNotified
  <2>4. ServerTypes' /\ StateTypes' /\ DemandTypes'
    BY <2>1 DEF ServerTypes, StateTypes, DemandTypes
  <2>5. MonitorTypes'
    BY <2>1, <2>2, <2>3 DEF MonitorTypes
  <2>6. PlaceTypes'
    BY <2>1, <2>2, <2>3 DEF PlaceTypes, ClosingPC, WakingPC, WorkerPC, WaitPC
  <2> QED BY <2>4, <2>5, <2>6 DEF Types
<1>6. ASSUME NEW c \in Client, SignalQuit(c) PROVE Types'
  <2>1. CASE back[c] = "normal"
    <3>1. /\ pc[c] = "signal_quit" /\ SignalLate(wakee[c][1])
          /\ pc' = [pc EXCEPT ![c] = "release_handle"] /\ my_slack' = my_slack
          /\ my_ref_count' = my_ref_count /\ asleep' = asleep /\ mutex' = mutex /\ k' = k
          /\ my_state' = my_state /\ launched' = launched /\ released' = released
          /\ freed' = freed /\ spurious' = spurious /\ notified' = notified
          /\ back' = back /\ additional' = additional /\ wakee' = wakee /\ asked' = asked
          /\ calls' = calls
      BY <1>6, <2>1 DEF SignalQuit
    <3>2. wakee[c] # <<>> /\ wakee[c][1] \in Worker
      BY <3>1, ToWake DEF Popped, ClosingPC
    <3>3. in_wait' \in [Worker -> BOOLEAN] /\ sema' \in [Worker -> {0, 1}]
      BY <3>1, <3>2, NotifiedLate
    <3>4. ServerTypes' /\ StateTypes' /\ DemandTypes'
      BY <3>1 DEF ServerTypes, StateTypes, DemandTypes
    <3>5. MonitorTypes'
      BY <3>1, <3>2, <3>3 DEF MonitorTypes
    <3>6. PlaceTypes'
      BY <3>1, <3>2, <3>3 DEF PlaceTypes, ClosingPC, WakingPC, WorkerPC, WaitPC
    <3> QED BY <3>4, <3>5, <3>6 DEF Types
  <2>2. CASE ~(back[c] = "normal")
    <3>1. /\ pc[c] = "signal_quit" /\ SignalLate(wakee[c][1])
          /\ pc' = [pc EXCEPT ![c] = "shutdown"] /\ my_slack' = my_slack
          /\ my_ref_count' = my_ref_count /\ asleep' = asleep /\ mutex' = mutex /\ k' = k
          /\ my_state' = my_state /\ launched' = launched /\ released' = released
          /\ freed' = freed /\ spurious' = spurious /\ notified' = notified
          /\ back' = back /\ additional' = additional /\ wakee' = wakee /\ asked' = asked
          /\ calls' = calls
      BY <1>6, <2>2 DEF SignalQuit
    <3>2. wakee[c] # <<>> /\ wakee[c][1] \in Worker
      BY <3>1, ToWake DEF Popped, ClosingPC
    <3>3. in_wait' \in [Worker -> BOOLEAN] /\ sema' \in [Worker -> {0, 1}]
      BY <3>1, <3>2, NotifiedLate
    <3>4. ServerTypes' /\ StateTypes' /\ DemandTypes'
      BY <3>1 DEF ServerTypes, StateTypes, DemandTypes
    <3>5. MonitorTypes'
      BY <3>1, <3>2, <3>3 DEF MonitorTypes
    <3>6. PlaceTypes'
      BY <3>1, <3>2, <3>3 DEF PlaceTypes, ClosingPC, WakingPC, WorkerPC, WaitPC
    <3> QED BY <3>4, <3>5, <3>6 DEF Types
  <2> QED BY <2>1, <2>2
<1>7. ASSUME NEW c \in Client, ReleaseHandle(c) PROVE Types'
  <2>1. /\ pc[c] = "release_handle"
        /\ released' = [released EXCEPT ![wakee[c][1]] = released[wakee[c][1]] + 1]
        /\ pc' = [pc EXCEPT ![c] = "shutdown"] /\ my_slack' = my_slack
        /\ my_ref_count' = my_ref_count /\ asleep' = asleep /\ mutex' = mutex /\ k' = k
        /\ my_state' = my_state /\ launched' = launched /\ freed' = freed
        /\ in_wait' = in_wait /\ spurious' = spurious /\ notified' = notified
        /\ sema' = sema /\ back' = back /\ additional' = additional /\ wakee' = wakee
        /\ asked' = asked /\ calls' = calls
    BY <1>7 DEF ReleaseHandle
  <2>2. wakee[c] # <<>> /\ wakee[c][1] \in Worker
    BY <2>1, ToWake DEF Popped, ClosingPC
  <2>3. ServerTypes' /\ MonitorTypes' /\ DemandTypes'
    BY <2>1 DEF ServerTypes, MonitorTypes, DemandTypes
  <2>4. StateTypes'
    BY <2>1, <2>2 DEF StateTypes
  <2>5. PlaceTypes'
    BY <2>1, <2>2 DEF PlaceTypes, ClosingPC, WakingPC, WorkerPC, WaitPC
  <2> QED BY <2>3, <2>4, <2>5 DEF Types
<1>8. ASSUME NEW c \in Client, Closed(c) PROVE Types'
  <2>1. /\ pc[c] = "shutdown" /\ my_ref_count' = my_ref_count - 1
        /\ freed' = (my_ref_count = 1) /\ pc' = [pc EXCEPT ![c] = "closed"]
        /\ my_slack' = my_slack /\ asleep' = asleep /\ mutex' = mutex /\ k' = k
        /\ my_state' = my_state /\ launched' = launched /\ released' = released
        /\ in_wait' = in_wait /\ spurious' = spurious /\ notified' = notified
        /\ sema' = sema /\ back' = back /\ additional' = additional /\ wakee' = wakee
        /\ asked' = asked /\ calls' = calls
    BY <1>8 DEF Closed, RemoveServerRef
  <2>2. MonitorTypes' /\ DemandTypes'
    BY <2>1 DEF MonitorTypes, DemandTypes
  <2>3. ServerTypes'
    BY <2>1 DEF ServerTypes
  <2>4. StateTypes'
    BY <2>1 DEF StateTypes
  <2>5. PlaceTypes'
    BY <2>1 DEF PlaceTypes, ClosingPC, WakingPC, WorkerPC, WaitPC
  <2> QED BY <2>2, <2>3, <2>4, <2>5 DEF Types
<1>9. ASSUME NEW a \in Actor, WakeLock(a) PROVE Types'
  <2>1. /\ pc[a] = "wake_lock" /\ mutex' = a /\ pc' = [pc EXCEPT ![a] = "wake_loop"]
        /\ my_slack' = my_slack /\ my_ref_count' = my_ref_count /\ asleep' = asleep
        /\ k' = k /\ my_state' = my_state /\ launched' = launched /\ released' = released
        /\ freed' = freed /\ in_wait' = in_wait /\ spurious' = spurious
        /\ notified' = notified /\ sema' = sema /\ back' = back
        /\ additional' = additional /\ wakee' = wakee /\ asked' = asked /\ calls' = calls
    BY <1>9 DEF WakeLock
  <2>2. StateTypes' /\ MonitorTypes' /\ DemandTypes'
    BY <2>1 DEF StateTypes, MonitorTypes, DemandTypes
  <2>3. ServerTypes'
    BY <2>1 DEF ServerTypes
  <2>4. PlaceTypes'
    BY <2>1 DEF PlaceTypes, ClosingPC, WakingPC, WorkerPC, WaitPC
  <2> QED BY <2>2, <2>3, <2>4 DEF Types
<1>10. ASSUME NEW a \in Actor, PopForDemand(a) PROVE Types'
  <2>1. /\ pc[a] = "wake_loop" /\ additional[a] > 0 /\ additional[a] + my_slack > 0 /\ asleep # <<>>
        /\ Pop(a) /\ pc' = [pc EXCEPT ![a] = "wake_loop"]
        /\ additional' = [additional EXCEPT ![a] = additional[a] - 1]
        /\ my_slack' = my_slack /\ my_ref_count' = my_ref_count /\ mutex' = mutex
        /\ k' = k /\ my_state' = my_state /\ launched' = launched /\ released' = released
        /\ freed' = freed /\ in_wait' = in_wait /\ spurious' = spurious
        /\ notified' = notified /\ sema' = sema /\ back' = back /\ asked' = asked
        /\ calls' = calls
    BY <1>10 DEF PopForDemand, CanPop
  <2>2. asleep' \in Seq(Worker) /\ wakee' \in [Actor -> Seq(Worker)]
    BY <2>1, Popping
  <2>3. additional[a] \in Nat /\ additional[a] > 0
    BY <2>1 DEF DemandTypes
  <2>4. StateTypes' /\ MonitorTypes'
    BY <2>1 DEF StateTypes, MonitorTypes
  <2>5. ServerTypes'
    BY <2>1, <2>2, <2>3 DEF ServerTypes
  <2>6. PlaceTypes'
    BY <2>1, <2>2, <2>3 DEF PlaceTypes, ClosingPC, WakingPC, WorkerPC, WaitPC
  <2>7. DemandTypes'
    <3>1. PICK n \in Nat : n = additional[a] - 1
      BY <2>3
    <3>2. additional \in [Actor -> Nat] /\ asked \in [Client -> Nat] /\ calls \in Nat
      BY DEF DemandTypes
    <3>3. additional' = [additional EXCEPT ![a] = n] /\ asked' = asked /\ calls' = calls
      BY <2>1, <3>1
    <3>4. additional' \in [Actor -> Nat]
      BY <3>2, <3>3
    <3> QED BY <2>2, <3>2, <3>3, <3>4 DEF DemandTypes
  <2> QED BY <2>4, <2>5, <2>6, <2>7 DEF Types
<1>11. ASSUME NEW a \in Actor, PopForSlack(a) PROVE Types'
  <2>1. /\ pc[a] = "wake_loop" /\ additional[a] = 0 /\ my_slack > 0 /\ asleep # <<>>
        /\ Pop(a) /\ my_slack' = my_slack - 1 /\ pc' = [pc EXCEPT ![a] = "wake_loop"]
        /\ my_ref_count' = my_ref_count /\ mutex' = mutex /\ k' = k
        /\ my_state' = my_state /\ launched' = launched /\ released' = released
        /\ freed' = freed /\ in_wait' = in_wait /\ spurious' = spurious
        /\ notified' = notified /\ sema' = sema /\ back' = back
        /\ additional' = additional /\ asked' = asked /\ calls' = calls
    BY <1>11 DEF PopForSlack, CanPop
  <2>2. asleep' \in Seq(Worker) /\ wakee' \in [Actor -> Seq(Worker)]
    BY <2>1, Popping
  <2>3. StateTypes' /\ MonitorTypes'
    BY <2>1 DEF StateTypes, MonitorTypes
  <2>4. ServerTypes'
    BY <2>1, <2>2 DEF ServerTypes
  <2>5. PlaceTypes'
    BY <2>1, <2>2 DEF PlaceTypes, ClosingPC, WakingPC, WorkerPC, WaitPC
  <2>6. DemandTypes'
    BY <2>1, <2>2 DEF DemandTypes
  <2> QED BY <2>3, <2>4, <2>5, <2>6 DEF Types
<1>12. ASSUME NEW a \in Actor, WakeUnlock(a) PROVE Types'
  <2>1. /\ pc[a] = "wake_loop" /\ my_slack' = my_slack + additional[a] /\ mutex' = NULL
        /\ pc' = [pc EXCEPT ![a] = "wake_each"]
        /\ additional' = [additional EXCEPT ![a] = 0] /\ my_ref_count' = my_ref_count
        /\ asleep' = asleep /\ k' = k /\ my_state' = my_state /\ launched' = launched
        /\ released' = released /\ freed' = freed /\ in_wait' = in_wait
        /\ spurious' = spurious /\ notified' = notified /\ sema' = sema /\ back' = back
        /\ wakee' = wakee /\ asked' = asked /\ calls' = calls
    BY <1>12 DEF WakeUnlock, CanPop
  <2>2. StateTypes' /\ MonitorTypes'
    BY <2>1 DEF StateTypes, MonitorTypes
  <2>3. ServerTypes'
    BY <2>1 DEF ServerTypes, DemandTypes
  <2>4. PlaceTypes'
    BY <2>1 DEF PlaceTypes, ClosingPC, WakingPC, WorkerPC, WaitPC
  <2>5. DemandTypes'
    BY <2>1 DEF DemandTypes
  <2> QED BY <2>2, <2>3, <2>4, <2>5 DEF Types
<1>13. ASSUME NEW a \in Actor, WakeEach(a) PROVE Types'
  <2>1. CASE my_state[Wakee(a)] = "init"
    <3>1. /\ pc[a] = "wake_each" /\ wakee[a] # <<>>
          /\ my_state' = [my_state EXCEPT ![Wakee(a)] = "starting"]
          /\ pc' = [pc EXCEPT ![a] = "launch"] /\ my_slack' = my_slack
          /\ my_ref_count' = my_ref_count /\ asleep' = asleep /\ mutex' = mutex /\ k' = k
          /\ launched' = launched /\ released' = released /\ freed' = freed
          /\ in_wait' = in_wait /\ spurious' = spurious /\ notified' = notified
          /\ sema' = sema /\ back' = back /\ additional' = additional /\ wakee' = wakee
          /\ asked' = asked /\ calls' = calls
      BY <1>13, <2>1 DEF WakeEach
    <3>2. Wakee(a) \in Worker
      BY <3>1, ToWake
    <3>3. ServerTypes' /\ MonitorTypes' /\ DemandTypes'
      BY <3>1 DEF ServerTypes, MonitorTypes, DemandTypes
    <3>4. StateTypes'
      BY <3>1, <3>2 DEF StateTypes
    <3>5. PlaceTypes'
      BY <3>1, <3>2 DEF PlaceTypes, ClosingPC, WakingPC, WorkerPC, WaitPC
    <3> QED BY <3>3, <3>4, <3>5 DEF Types
  <2>2. CASE ~(my_state[Wakee(a)] = "init")
    <3>1. /\ pc[a] = "wake_each" /\ wakee[a] # <<>>
          /\ notified' = [notified EXCEPT ![Wakee(a)] = TRUE]
          /\ pc' = [pc EXCEPT ![a] = "signal"] /\ my_slack' = my_slack
          /\ my_ref_count' = my_ref_count /\ asleep' = asleep /\ mutex' = mutex /\ k' = k
          /\ my_state' = my_state /\ launched' = launched /\ released' = released
          /\ freed' = freed /\ spurious' = spurious /\ back' = back
          /\ additional' = additional /\ wakee' = wakee /\ asked' = asked
          /\ calls' = calls
      BY <1>13, <2>2, SleeperNotified
    <3>2. Wakee(a) \in Worker
      BY <3>1, ToWake
    <3>3. in_wait' \in [Worker -> BOOLEAN] /\ sema' \in [Worker -> {0, 1}]
      BY <1>13, <2>2, SleeperNotified
    <3>4. ServerTypes' /\ StateTypes' /\ DemandTypes'
      BY <3>1 DEF ServerTypes, StateTypes, DemandTypes
    <3>5. MonitorTypes'
      BY <3>1, <3>2, <3>3 DEF MonitorTypes
    <3>6. PlaceTypes'
      BY <3>1, <3>2, <3>3 DEF PlaceTypes, ClosingPC, WakingPC, WorkerPC, WaitPC
    <3> QED BY <3>4, <3>5, <3>6 DEF Types
  <2> QED BY <2>1, <2>2
<1>14. ASSUME NEW a \in Actor, SignalWakee(a) PROVE Types'
  <2>1. /\ pc[a] = "signal" /\ SignalLate(Wakee(a))
        /\ pc' = [pc EXCEPT ![a] = "wake_each"]
        /\ wakee' = [wakee EXCEPT ![a] = Front(wakee[a])] /\ my_slack' = my_slack
        /\ my_ref_count' = my_ref_count /\ asleep' = asleep /\ mutex' = mutex /\ k' = k
        /\ my_state' = my_state /\ launched' = launched /\ released' = released
        /\ freed' = freed /\ spurious' = spurious /\ notified' = notified /\ back' = back
        /\ additional' = additional /\ asked' = asked /\ calls' = calls
    BY <1>14 DEF SignalWakee, Waked
  <2>2. wakee[a] # <<>>
    BY <2>1 DEF Popped
  <2>3. Wakee(a) \in Worker /\ Front(wakee[a]) \in Seq(Worker)
    BY <2>2, ToWake, Fronts DEF DemandTypes
  <2>4. in_wait' \in [Worker -> BOOLEAN] /\ sema' \in [Worker -> {0, 1}]
    BY <2>1, <2>2, <2>3, NotifiedLate
  <2>5. ServerTypes' /\ StateTypes'
    BY <2>1 DEF ServerTypes, StateTypes
  <2>6. MonitorTypes'
    BY <2>1, <2>2, <2>3, <2>4 DEF MonitorTypes
  <2>7. PlaceTypes'
    BY <2>1, <2>2, <2>3, <2>4 DEF PlaceTypes, ClosingPC, WakingPC, WorkerPC, WaitPC
  <2>8. DemandTypes'
    BY <2>1, <2>2, <2>3, <2>4 DEF DemandTypes
  <2> QED BY <2>5, <2>6, <2>7, <2>8 DEF Types
<1>15. ASSUME NEW a \in Actor, Launch(a) PROVE Types'
  <2>1. /\ pc[a] = "launch" /\ launched' = launched \cup {Wakee(a)}
        /\ pc' = [pc EXCEPT ![a] = "launched", ![Wakee(a)] = "run"]
        /\ my_slack' = my_slack /\ my_ref_count' = my_ref_count /\ asleep' = asleep
        /\ mutex' = mutex /\ k' = k /\ my_state' = my_state /\ released' = released
        /\ freed' = freed /\ in_wait' = in_wait /\ spurious' = spurious
        /\ notified' = notified /\ sema' = sema /\ back' = back
        /\ additional' = additional /\ wakee' = wakee /\ asked' = asked /\ calls' = calls
    BY <1>15 DEF Launch
  <2>2. wakee[a] # <<>>
    BY <2>1 DEF Popped
  <2>3. Wakee(a) \in Worker
    BY <2>2, ToWake
  <2>4. ServerTypes' /\ MonitorTypes' /\ DemandTypes'
    BY <2>1 DEF ServerTypes, MonitorTypes, DemandTypes
  <2>5. StateTypes'
    BY <2>1, <2>2, <2>3 DEF StateTypes
  <2>6. PlaceTypes'
    BY <2>1, <2>2, <2>3 DEF PlaceTypes, ClosingPC, WakingPC, WorkerPC, WaitPC
  <2> QED BY <2>4, <2>5, <2>6 DEF Types
<1>16. ASSUME NEW a \in Actor, Launched(a) PROVE Types'
  <2>1. CASE my_state[Wakee(a)] = "starting"
    <3>1. /\ pc[a] = "launched" /\ my_state' = [my_state EXCEPT ![Wakee(a)] = "normal"]
          /\ pc' = [pc EXCEPT ![a] = "wake_each"]
          /\ wakee' = [wakee EXCEPT ![a] = Front(wakee[a])] /\ my_slack' = my_slack
          /\ my_ref_count' = my_ref_count /\ asleep' = asleep /\ mutex' = mutex /\ k' = k
          /\ launched' = launched /\ released' = released /\ freed' = freed
          /\ in_wait' = in_wait /\ spurious' = spurious /\ notified' = notified
          /\ sema' = sema /\ back' = back /\ additional' = additional /\ asked' = asked
          /\ calls' = calls
      BY <1>16, <2>1 DEF Launched, Waked
    <3>2. wakee[a] # <<>>
      BY <3>1 DEF Popped
    <3>3. Wakee(a) \in Worker /\ Front(wakee[a]) \in Seq(Worker)
      BY <3>2, ToWake, Fronts DEF DemandTypes
    <3>4. ServerTypes' /\ MonitorTypes'
      BY <3>1 DEF ServerTypes, MonitorTypes
    <3>5. StateTypes'
      BY <3>1, <3>2, <3>3 DEF StateTypes
    <3>6. PlaceTypes'
      BY <3>1, <3>2, <3>3 DEF PlaceTypes, ClosingPC, WakingPC, WorkerPC, WaitPC
    <3>7. DemandTypes'
      BY <3>1, <3>2, <3>3 DEF DemandTypes
    <3> QED BY <3>4, <3>5, <3>6, <3>7 DEF Types
  <2>2. CASE ~(my_state[Wakee(a)] = "starting")
    <3>1. /\ pc[a] = "launched"
          /\ released' = [released EXCEPT ![Wakee(a)] = released[Wakee(a)] + 1]
          /\ pc' = [pc EXCEPT ![a] = "wake_each"]
          /\ wakee' = [wakee EXCEPT ![a] = Front(wakee[a])] /\ my_slack' = my_slack
          /\ my_ref_count' = my_ref_count /\ asleep' = asleep /\ mutex' = mutex /\ k' = k
          /\ my_state' = my_state /\ launched' = launched /\ freed' = freed
          /\ in_wait' = in_wait /\ spurious' = spurious /\ notified' = notified
          /\ sema' = sema /\ back' = back /\ additional' = additional /\ asked' = asked
          /\ calls' = calls
      BY <1>16, <2>2 DEF Launched, Waked
    <3>2. wakee[a] # <<>>
      BY <3>1 DEF Popped
    <3>3. Wakee(a) \in Worker /\ Front(wakee[a]) \in Seq(Worker)
      BY <3>2, ToWake, Fronts DEF DemandTypes
    <3>4. ServerTypes' /\ MonitorTypes'
      BY <3>1 DEF ServerTypes, MonitorTypes
    <3>5. StateTypes'
      BY <3>1, <3>2, <3>3 DEF StateTypes
    <3>6. PlaceTypes'
      BY <3>1, <3>2, <3>3 DEF PlaceTypes, ClosingPC, WakingPC, WorkerPC, WaitPC
    <3>7. DemandTypes'
      BY <3>1, <3>2, <3>3 DEF DemandTypes
    <3> QED BY <3>4, <3>5, <3>6, <3>7 DEF Types
  <2> QED BY <2>1, <2>2
<1>17. ASSUME NEW a \in Actor, WakeDone(a) PROVE Types'
  <2>1. /\ pc[a] = "wake_each" /\ pc' = [pc EXCEPT ![a] = back[a]]
        /\ back' = [back EXCEPT ![a] = NULL] /\ my_slack' = my_slack
        /\ my_ref_count' = my_ref_count /\ asleep' = asleep /\ mutex' = mutex /\ k' = k
        /\ my_state' = my_state /\ launched' = launched /\ released' = released
        /\ freed' = freed /\ in_wait' = in_wait /\ spurious' = spurious
        /\ notified' = notified /\ sema' = sema /\ additional' = additional
        /\ wakee' = wakee /\ asked' = asked /\ calls' = calls
    BY <1>17 DEF WakeDone
  <2>2. back[a] \in {"idle", "loop"}
    BY <2>1 DEF Returns, WakingPC
  <2>3. ServerTypes' /\ StateTypes' /\ MonitorTypes' /\ DemandTypes'
    BY <2>1 DEF ServerTypes, StateTypes, MonitorTypes, DemandTypes
  <2>4. PlaceTypes'
    BY <2>1, <2>2 DEF PlaceTypes, ClosingPC, WakingPC, WorkerPC, WaitPC
  <2> QED BY <2>3, <2>4 DEF Types
<1>18. ASSUME NEW w \in Worker, Start(w) PROVE Types'
  <2>1. CASE asleep = <<>>
    <3>1. /\ pc[w] = "run" /\ pc' = [pc EXCEPT ![w] = "loop"] /\ my_slack' = my_slack
          /\ my_ref_count' = my_ref_count /\ asleep' = asleep /\ mutex' = mutex /\ k' = k
          /\ my_state' = my_state /\ launched' = launched /\ released' = released
          /\ freed' = freed /\ in_wait' = in_wait /\ spurious' = spurious
          /\ notified' = notified /\ sema' = sema /\ back' = back
          /\ additional' = additional /\ wakee' = wakee /\ asked' = asked
          /\ calls' = calls
      BY <1>18, <2>1 DEF Start, ChainReaction, WakeSome
    <3>2. ServerTypes' /\ StateTypes' /\ MonitorTypes' /\ DemandTypes'
      BY <3>1 DEF ServerTypes, StateTypes, MonitorTypes, DemandTypes
    <3>3. PlaceTypes'
      BY <3>1 DEF PlaceTypes, ClosingPC, WakingPC, WorkerPC, WaitPC
    <3> QED BY <3>2, <3>3 DEF Types
  <2>2. CASE ~(asleep = <<>>)
    <3>1. /\ pc[w] = "run" /\ pc' = [pc EXCEPT ![w] = "wake_lock"]
          /\ back' = [back EXCEPT ![w] = "loop"]
          /\ additional' = [additional EXCEPT ![w] = 0] /\ my_slack' = my_slack
          /\ my_ref_count' = my_ref_count /\ asleep' = asleep /\ mutex' = mutex /\ k' = k
          /\ my_state' = my_state /\ launched' = launched /\ released' = released
          /\ freed' = freed /\ in_wait' = in_wait /\ spurious' = spurious
          /\ notified' = notified /\ sema' = sema /\ wakee' = wakee /\ asked' = asked
          /\ calls' = calls
      BY <1>18, <2>2 DEF Start, ChainReaction, WakeSome
    <3>2. ServerTypes' /\ StateTypes' /\ MonitorTypes'
      BY <3>1 DEF ServerTypes, StateTypes, MonitorTypes
    <3>3. PlaceTypes'
      BY <3>1 DEF PlaceTypes, ClosingPC, WakingPC, WorkerPC, WaitPC
    <3>4. DemandTypes'
      BY <3>1 DEF DemandTypes
    <3> QED BY <3>2, <3>3, <3>4 DEF Types
  <2> QED BY <2>1, <2>2
<1>19. ASSUME NEW w \in Worker, Idle(w) PROVE Types'
  <2>1. /\ pc[w] = "loop" /\ pc' = [pc EXCEPT ![w] = "prepare"] /\ my_slack' = my_slack
        /\ my_ref_count' = my_ref_count /\ asleep' = asleep /\ mutex' = mutex /\ k' = k
        /\ my_state' = my_state /\ launched' = launched /\ released' = released
        /\ freed' = freed /\ in_wait' = in_wait /\ spurious' = spurious
        /\ notified' = notified /\ sema' = sema /\ back' = back
        /\ additional' = additional /\ wakee' = wakee /\ asked' = asked /\ calls' = calls
    BY <1>19 DEF Idle
  <2>2. ServerTypes' /\ StateTypes' /\ MonitorTypes' /\ DemandTypes'
    BY <2>1 DEF ServerTypes, StateTypes, MonitorTypes, DemandTypes
  <2>3. PlaceTypes'
    BY <2>1 DEF PlaceTypes, ClosingPC, WakingPC, WorkerPC, WaitPC
  <2> QED BY <2>2, <2>3 DEF Types
<1>20. ASSUME NEW w \in Worker, PrepareWait(w) PROVE Types'
  <2>1. /\ pc[w] = "prepare" /\ spurious[w] => sema[w] = 1
        /\ in_wait' = [in_wait EXCEPT ![w] = TRUE]
        /\ spurious' = [spurious EXCEPT ![w] = FALSE]
        /\ notified' = [notified EXCEPT ![w] = FALSE] /\ pc' = [pc EXCEPT ![w] = "check"]
        /\ sema' = [sema EXCEPT ![w] = 0] \/ sema' = sema
        /\ my_slack' = my_slack /\ my_ref_count' = my_ref_count /\ asleep' = asleep
        /\ mutex' = mutex /\ k' = k /\ my_state' = my_state /\ launched' = launched
        /\ released' = released /\ freed' = freed /\ back' = back
        /\ additional' = additional /\ wakee' = wakee /\ asked' = asked /\ calls' = calls
    BY <1>20 DEF PrepareWait
  <2>2. ServerTypes' /\ StateTypes' /\ DemandTypes'
    BY <2>1 DEF ServerTypes, StateTypes, DemandTypes
  <2>3. MonitorTypes'
    BY <2>1 DEF MonitorTypes
  <2>4. PlaceTypes'
    BY <2>1 DEF PlaceTypes, ClosingPC, WakingPC, WorkerPC, WaitPC
  <2> QED BY <2>2, <2>3, <2>4 DEF Types
<1>21. ASSUME NEW w \in Worker, Check(w) PROVE Types'
  <2>1. /\ pc[w] = "check"
        /\ pc' = [pc EXCEPT ![w] = IF my_state[w] = "quit" THEN "cancel" ELSE "try_insert"]
        /\ my_slack' = my_slack /\ my_ref_count' = my_ref_count /\ asleep' = asleep
        /\ mutex' = mutex /\ k' = k /\ my_state' = my_state /\ launched' = launched
        /\ released' = released /\ freed' = freed /\ in_wait' = in_wait
        /\ spurious' = spurious /\ notified' = notified /\ sema' = sema /\ back' = back
        /\ additional' = additional /\ wakee' = wakee /\ asked' = asked /\ calls' = calls
    BY <1>21 DEF Check
  <2>2. ServerTypes' /\ StateTypes' /\ MonitorTypes' /\ DemandTypes'
    BY <2>1 DEF ServerTypes, StateTypes, MonitorTypes, DemandTypes
  <2>3. PlaceTypes'
    BY <2>1 DEF PlaceTypes, ClosingPC, WakingPC, WorkerPC, WaitPC
  <2> QED BY <2>2, <2>3 DEF Types
<1>22. ASSUME NEW w \in Worker, TryInsert(w) PROVE Types'
  <2>1. CASE mutex = NULL
    <3>1. /\ pc[w] = "try_insert" /\ my_slack' = my_slack + 1 /\ mutex' = w
          /\ k' = [k EXCEPT ![w] = my_slack + 1] /\ pc' = [pc EXCEPT ![w] = "insert"]
          /\ my_ref_count' = my_ref_count /\ asleep' = asleep /\ my_state' = my_state
          /\ launched' = launched /\ released' = released /\ freed' = freed
          /\ in_wait' = in_wait /\ spurious' = spurious /\ notified' = notified
          /\ sema' = sema /\ back' = back /\ additional' = additional /\ wakee' = wakee
          /\ asked' = asked /\ calls' = calls
      BY <1>22, <2>1 DEF TryInsert
    <3>2. StateTypes' /\ MonitorTypes' /\ DemandTypes'
      BY <3>1 DEF StateTypes, MonitorTypes, DemandTypes
    <3>3. ServerTypes'
      BY <3>1 DEF ServerTypes
    <3>4. PlaceTypes'
      BY <3>1 DEF PlaceTypes, ClosingPC, WakingPC, WorkerPC, WaitPC
    <3> QED BY <3>2, <3>3, <3>4 DEF Types
  <2>2. CASE ~(mutex = NULL)
    <3>1. /\ pc[w] = "try_insert" /\ pc' = [pc EXCEPT ![w] = "cancel"]
          /\ my_slack' = my_slack /\ my_ref_count' = my_ref_count /\ asleep' = asleep
          /\ mutex' = mutex /\ k' = k /\ my_state' = my_state /\ launched' = launched
          /\ released' = released /\ freed' = freed /\ in_wait' = in_wait
          /\ spurious' = spurious /\ notified' = notified /\ sema' = sema /\ back' = back
          /\ additional' = additional /\ wakee' = wakee /\ asked' = asked
          /\ calls' = calls
      BY <1>22, <2>2 DEF TryInsert
    <3>2. ServerTypes' /\ StateTypes' /\ MonitorTypes' /\ DemandTypes'
      BY <3>1 DEF ServerTypes, StateTypes, MonitorTypes, DemandTypes
    <3>3. PlaceTypes'
      BY <3>1 DEF PlaceTypes, ClosingPC, WakingPC, WorkerPC, WaitPC
    <3> QED BY <3>2, <3>3 DEF Types
  <2> QED BY <2>1, <2>2
<1>23. ASSUME NEW w \in Worker, Insert(w) PROVE Types'
  <2>1. CASE k[w] <= 0
    <3>1. /\ pc[w] = "insert" /\ asleep' = <<w>> \o asleep /\ mutex' = NULL
          /\ k' = [k EXCEPT ![w] = 0] /\ pc' = [pc EXCEPT ![w] = "commit"]
          /\ my_slack' = my_slack /\ my_ref_count' = my_ref_count /\ my_state' = my_state
          /\ launched' = launched /\ released' = released /\ freed' = freed
          /\ in_wait' = in_wait /\ spurious' = spurious /\ notified' = notified
          /\ sema' = sema /\ back' = back /\ additional' = additional /\ wakee' = wakee
          /\ asked' = asked /\ calls' = calls
      BY <1>23, <2>1 DEF Insert
    <3>2. <<w>> \o asleep \in Seq(Worker)
      BY Longer DEF ServerTypes
    <3>3. StateTypes' /\ MonitorTypes' /\ DemandTypes'
      BY <3>1 DEF StateTypes, MonitorTypes, DemandTypes
    <3>4. ServerTypes'
      BY <3>1, <3>2 DEF ServerTypes
    <3>5. PlaceTypes'
      BY <3>1, <3>2 DEF PlaceTypes, ClosingPC, WakingPC, WorkerPC, WaitPC
    <3> QED BY <3>3, <3>4, <3>5 DEF Types
  <2>2. CASE ~(k[w] <= 0)
    <3>1. /\ pc[w] = "insert" /\ my_slack' = my_slack - 1 /\ mutex' = NULL
          /\ k' = [k EXCEPT ![w] = 0] /\ pc' = [pc EXCEPT ![w] = "cancel"]
          /\ my_ref_count' = my_ref_count /\ asleep' = asleep /\ my_state' = my_state
          /\ launched' = launched /\ released' = released /\ freed' = freed
          /\ in_wait' = in_wait /\ spurious' = spurious /\ notified' = notified
          /\ sema' = sema /\ back' = back /\ additional' = additional /\ wakee' = wakee
          /\ asked' = asked /\ calls' = calls
      BY <1>23, <2>2 DEF Insert
    <3>2. StateTypes' /\ MonitorTypes' /\ DemandTypes'
      BY <3>1 DEF StateTypes, MonitorTypes, DemandTypes
    <3>3. ServerTypes'
      BY <3>1 DEF ServerTypes
    <3>4. PlaceTypes'
      BY <3>1 DEF PlaceTypes, ClosingPC, WakingPC, WorkerPC, WaitPC
    <3> QED BY <3>2, <3>3, <3>4 DEF Types
  <2> QED BY <2>1, <2>2
<1>24. ASSUME NEW w \in Worker, CancelWait(w) PROVE Types'
  <2>1. /\ pc[w] = "cancel" /\ in_wait' = [in_wait EXCEPT ![w] = FALSE]
        /\ spurious' = [spurious EXCEPT ![w] = ~in_wait[w]]
        /\ pc' = [pc EXCEPT ![w] = "loop"] /\ my_slack' = my_slack
        /\ my_ref_count' = my_ref_count /\ asleep' = asleep /\ mutex' = mutex /\ k' = k
        /\ my_state' = my_state /\ launched' = launched /\ released' = released
        /\ freed' = freed /\ notified' = notified /\ sema' = sema /\ back' = back
        /\ additional' = additional /\ wakee' = wakee /\ asked' = asked /\ calls' = calls
    BY <1>24 DEF CancelWait, Cancel
  <2>2. ServerTypes' /\ StateTypes' /\ DemandTypes'
    BY <2>1 DEF ServerTypes, StateTypes, DemandTypes
  <2>3. MonitorTypes'
    BY <2>1 DEF MonitorTypes
  <2>4. PlaceTypes'
    BY <2>1 DEF PlaceTypes, ClosingPC, WakingPC, WorkerPC, WaitPC
  <2> QED BY <2>2, <2>3, <2>4 DEF Types
<1>25. ASSUME NEW w \in Worker, CommitWait(w) PROVE Types'
  <2>1. /\ pc[w] = "commit"
        /\ pc' = [pc EXCEPT ![w] = IF notified[w] THEN "late" ELSE "sleep"]
        /\ my_slack' = my_slack /\ my_ref_count' = my_ref_count /\ asleep' = asleep
        /\ mutex' = mutex /\ k' = k /\ my_state' = my_state /\ launched' = launched
        /\ released' = released /\ freed' = freed /\ in_wait' = in_wait
        /\ spurious' = spurious /\ notified' = notified /\ sema' = sema /\ back' = back
        /\ additional' = additional /\ wakee' = wakee /\ asked' = asked /\ calls' = calls
    BY <1>25 DEF CommitWait
  <2>2. ServerTypes' /\ StateTypes' /\ MonitorTypes' /\ DemandTypes'
    BY <2>1 DEF ServerTypes, StateTypes, MonitorTypes, DemandTypes
  <2>3. PlaceTypes'
    BY <2>1 DEF PlaceTypes, ClosingPC, WakingPC, WorkerPC, WaitPC
  <2> QED BY <2>2, <2>3 DEF Types
<1>26. ASSUME NEW w \in Worker, Late(w) PROVE Types'
  <2>1. /\ pc[w] = "late" /\ in_wait' = [in_wait EXCEPT ![w] = FALSE]
        /\ spurious' = [spurious EXCEPT ![w] = ~in_wait[w]]
        /\ pc' = [pc EXCEPT ![w] = "woken"] /\ my_slack' = my_slack
        /\ my_ref_count' = my_ref_count /\ asleep' = asleep /\ mutex' = mutex /\ k' = k
        /\ my_state' = my_state /\ launched' = launched /\ released' = released
        /\ freed' = freed /\ notified' = notified /\ sema' = sema /\ back' = back
        /\ additional' = additional /\ wakee' = wakee /\ asked' = asked /\ calls' = calls
    BY <1>26 DEF Late, Cancel
  <2>2. ServerTypes' /\ StateTypes' /\ DemandTypes'
    BY <2>1 DEF ServerTypes, StateTypes, DemandTypes
  <2>3. MonitorTypes'
    BY <2>1 DEF MonitorTypes
  <2>4. PlaceTypes'
    BY <2>1 DEF PlaceTypes, ClosingPC, WakingPC, WorkerPC, WaitPC
  <2> QED BY <2>2, <2>3, <2>4 DEF Types
<1>27. ASSUME NEW w \in Worker, Sleep(w) PROVE Types'
  <2>1. /\ pc[w] = "sleep" /\ sema' = [sema EXCEPT ![w] = 0]
        /\ pc' = [pc EXCEPT ![w] = "woken"] /\ my_slack' = my_slack
        /\ my_ref_count' = my_ref_count /\ asleep' = asleep /\ mutex' = mutex /\ k' = k
        /\ my_state' = my_state /\ launched' = launched /\ released' = released
        /\ freed' = freed /\ in_wait' = in_wait /\ spurious' = spurious
        /\ notified' = notified /\ back' = back /\ additional' = additional
        /\ wakee' = wakee /\ asked' = asked /\ calls' = calls
    BY <1>27 DEF Sleep
  <2>2. ServerTypes' /\ StateTypes' /\ DemandTypes'
    BY <2>1 DEF ServerTypes, StateTypes, DemandTypes
  <2>3. MonitorTypes'
    BY <2>1 DEF MonitorTypes
  <2>4. PlaceTypes'
    BY <2>1 DEF PlaceTypes, ClosingPC, WakingPC, WorkerPC, WaitPC
  <2> QED BY <2>2, <2>3, <2>4 DEF Types
<1>28. ASSUME NEW w \in Worker, Woken(w) PROVE Types'
  <2>1. CASE asleep = <<>>
    <3>1. /\ pc[w] = "woken" /\ pc' = [pc EXCEPT ![w] = "loop"] /\ my_slack' = my_slack
          /\ my_ref_count' = my_ref_count /\ asleep' = asleep /\ mutex' = mutex /\ k' = k
          /\ my_state' = my_state /\ launched' = launched /\ released' = released
          /\ freed' = freed /\ in_wait' = in_wait /\ spurious' = spurious
          /\ notified' = notified /\ sema' = sema /\ back' = back
          /\ additional' = additional /\ wakee' = wakee /\ asked' = asked
          /\ calls' = calls
      BY <1>28, <2>1 DEF Woken, ChainReaction, WakeSome
    <3>2. ServerTypes' /\ StateTypes' /\ MonitorTypes' /\ DemandTypes'
      BY <3>1 DEF ServerTypes, StateTypes, MonitorTypes, DemandTypes
    <3>3. PlaceTypes'
      BY <3>1 DEF PlaceTypes, ClosingPC, WakingPC, WorkerPC, WaitPC
    <3> QED BY <3>2, <3>3 DEF Types
  <2>2. CASE ~(asleep = <<>>)
    <3>1. /\ pc[w] = "woken" /\ pc' = [pc EXCEPT ![w] = "wake_lock"]
          /\ back' = [back EXCEPT ![w] = "loop"]
          /\ additional' = [additional EXCEPT ![w] = 0] /\ my_slack' = my_slack
          /\ my_ref_count' = my_ref_count /\ asleep' = asleep /\ mutex' = mutex /\ k' = k
          /\ my_state' = my_state /\ launched' = launched /\ released' = released
          /\ freed' = freed /\ in_wait' = in_wait /\ spurious' = spurious
          /\ notified' = notified /\ sema' = sema /\ wakee' = wakee /\ asked' = asked
          /\ calls' = calls
      BY <1>28, <2>2 DEF Woken, ChainReaction, WakeSome
    <3>2. ServerTypes' /\ StateTypes' /\ MonitorTypes'
      BY <3>1 DEF ServerTypes, StateTypes, MonitorTypes
    <3>3. PlaceTypes'
      BY <3>1 DEF PlaceTypes, ClosingPC, WakingPC, WorkerPC, WaitPC
    <3>4. DemandTypes'
      BY <3>1 DEF DemandTypes
    <3> QED BY <3>2, <3>3, <3>4 DEF Types
  <2> QED BY <2>1, <2>2
<1>29. ASSUME NEW w \in Worker, Quit(w) PROVE Types'
  <2>1. /\ pc[w] = "loop" /\ my_slack' = my_slack + 1 /\ pc' = [pc EXCEPT ![w] = "quit"]
        /\ my_ref_count' = my_ref_count /\ asleep' = asleep /\ mutex' = mutex /\ k' = k
        /\ my_state' = my_state /\ launched' = launched /\ released' = released
        /\ freed' = freed /\ in_wait' = in_wait /\ spurious' = spurious
        /\ notified' = notified /\ sema' = sema /\ back' = back
        /\ additional' = additional /\ wakee' = wakee /\ asked' = asked /\ calls' = calls
    BY <1>29 DEF Quit
  <2>2. StateTypes' /\ MonitorTypes' /\ DemandTypes'
    BY <2>1 DEF StateTypes, MonitorTypes, DemandTypes
  <2>3. ServerTypes'
    BY <2>1 DEF ServerTypes
  <2>4. PlaceTypes'
    BY <2>1 DEF PlaceTypes, ClosingPC, WakingPC, WorkerPC, WaitPC
  <2> QED BY <2>2, <2>3, <2>4 DEF Types
<1>30. ASSUME NEW w \in Worker, End(w) PROVE Types'
  <2>1. /\ pc[w] = "quit" /\ my_ref_count' = my_ref_count - 1
        /\ freed' = (my_ref_count = 1) /\ pc' = [pc EXCEPT ![w] = "end"]
        /\ my_slack' = my_slack /\ asleep' = asleep /\ mutex' = mutex /\ k' = k
        /\ my_state' = my_state /\ launched' = launched /\ released' = released
        /\ in_wait' = in_wait /\ spurious' = spurious /\ notified' = notified
        /\ sema' = sema /\ back' = back /\ additional' = additional /\ wakee' = wakee
        /\ asked' = asked /\ calls' = calls
    BY <1>30 DEF End, RemoveServerRef
  <2>2. MonitorTypes' /\ DemandTypes'
    BY <2>1 DEF MonitorTypes, DemandTypes
  <2>3. ServerTypes'
    BY <2>1 DEF ServerTypes
  <2>4. StateTypes'
    BY <2>1 DEF StateTypes
  <2>5. PlaceTypes'
    BY <2>1 DEF PlaceTypes, ClosingPC, WakingPC, WorkerPC, WaitPC
  <2> QED BY <2>2, <2>3, <2>4, <2>5 DEF Types
<1> QED BY <1>1, <1>2, <1>3, <1>4, <1>5, <1>6, <1>7, <1>8, <1>9, <1>10, <1>11, <1>12,
   <1>13, <1>14, <1>15, <1>16, <1>17, <1>18, <1>19, <1>20, <1>21, <1>22, <1>23, <1>24,
   <1>25, <1>26, <1>27, <1>28, <1>29, <1>30, Next DEF Next, ShutDown, Waking, Run

\* Every thread is somewhere it can be.
LEMMA AtHomeStep ==
    ASSUME Assumptions, Types, Returns, Popped, Handles, AtHome, Next
    PROVE  AtHome'
<1> USE Threads, Types, Returns, Popped, AtHome DEF Actor, Types, PlaceTypes, ClosingPC,
        WakingPC, WaitPC, WorkerPC, Returns, Popped, AtHome, Set, Goto, Jump, server,
        monitor, waking, demand, hist
<1>1. ASSUME NEW c \in Client, NEW delta \in 1..MaxDelta, Request(c, delta) PROVE AtHome'
  BY <1>1 DEF Request, WakeSome
<1>2. ASSUME NEW c \in Client, Return(c) PROVE AtHome'
  BY <1>2 DEF Return
<1>3. ASSUME NEW c \in Client, Close(c) PROVE AtHome'
  BY <1>3 DEF Close
<1>4. ASSUME NEW c \in Client, NEW w \in Worker, StartShutdown(c, w) PROVE AtHome'
  <2>1. CASE my_state[w] = "init"
    BY <1>4, <2>1 DEF StartShutdown, RemoveServerRef
  <2>2. CASE ~(my_state[w] = "init")
    BY <1>4, <2>2 DEF StartShutdown, RemoveServerRef
  <2> QED BY <2>1, <2>2
<1>5. ASSUME NEW c \in Client, NotifyQuit(c) PROVE AtHome'
  BY <1>5, QuitNotified
<1>6. ASSUME NEW c \in Client, SignalQuit(c) PROVE AtHome'
  <2>1. CASE back[c] = "normal"
    BY <1>6, <2>1, NotifiedLate DEF SignalQuit
  <2>2. CASE ~(back[c] = "normal")
    BY <1>6, <2>2, NotifiedLate DEF SignalQuit
  <2> QED BY <2>1, <2>2
<1>7. ASSUME NEW c \in Client, ReleaseHandle(c) PROVE AtHome'
  BY <1>7 DEF ReleaseHandle
<1>8. ASSUME NEW c \in Client, Closed(c) PROVE AtHome'
  BY <1>8 DEF Closed, RemoveServerRef
<1>9. ASSUME NEW a \in Actor, WakeLock(a) PROVE AtHome'
  BY <1>9 DEF WakeLock
<1>10. ASSUME NEW a \in Actor, PopForDemand(a) PROVE AtHome'
  BY <1>10, Popping DEF PopForDemand, CanPop
<1>11. ASSUME NEW a \in Actor, PopForSlack(a) PROVE AtHome'
  BY <1>11, Popping DEF PopForSlack, CanPop
<1>12. ASSUME NEW a \in Actor, WakeUnlock(a) PROVE AtHome'
  BY <1>12 DEF WakeUnlock, CanPop
<1>13. ASSUME NEW a \in Actor, WakeEach(a) PROVE AtHome'
  <2>1. CASE my_state[Wakee(a)] = "init"
    BY <1>13, <2>1 DEF WakeEach
  <2>2. CASE ~(my_state[Wakee(a)] = "init")
    BY <1>13, <2>2, SleeperNotified
  <2> QED BY <2>1, <2>2
<1>14. ASSUME NEW a \in Actor, SignalWakee(a) PROVE AtHome'
  BY <1>14, NotifiedLate DEF SignalWakee, Waked
<1>15. ASSUME NEW a \in Actor, Launch(a) PROVE AtHome'
  <2>1. pc' = [pc EXCEPT ![a] = "launched", ![Wakee(a)] = "run"] /\ pc[a] = "launch"
    BY <1>15 DEF Launch
  <2>2. Wakee(a) \in Worker /\ pc[Wakee(a)] = "none" /\ Wakee(a) # a
    BY <1>15, NotYet
  <2>3. /\ additional' = additional /\ wakee' = wakee /\ mutex' = mutex /\ back' = back
        /\ asked' = asked /\ my_state' = my_state
    BY <1>15 DEF Launch
  <2> QED BY <2>1, <2>2, <2>3 DEF Actor,
            ClosingPC, WakingPC, WorkerPC, WaitPC
<1>16. ASSUME NEW a \in Actor, Launched(a) PROVE AtHome'
  <2>1. CASE my_state[Wakee(a)] = "starting"
    BY <1>16, <2>1 DEF Launched, Waked
  <2>2. CASE ~(my_state[Wakee(a)] = "starting")
    BY <1>16, <2>2 DEF Launched, Waked
  <2> QED BY <2>1, <2>2
<1>17. ASSUME NEW a \in Actor, WakeDone(a) PROVE AtHome'
  BY <1>17 DEF WakeDone
<1>18. ASSUME NEW w \in Worker, Start(w) PROVE AtHome'
  <2>1. CASE asleep = <<>>
    BY <1>18, <2>1 DEF Start, ChainReaction, WakeSome
  <2>2. CASE ~(asleep = <<>>)
    BY <1>18, <2>2 DEF Start, ChainReaction, WakeSome
  <2> QED BY <2>1, <2>2
<1>19. ASSUME NEW w \in Worker, Idle(w) PROVE AtHome'
  BY <1>19 DEF Idle
<1>20. ASSUME NEW w \in Worker, PrepareWait(w) PROVE AtHome'
  BY <1>20 DEF PrepareWait
<1>21. ASSUME NEW w \in Worker, Check(w) PROVE AtHome'
  BY <1>21 DEF Check
<1>22. ASSUME NEW w \in Worker, TryInsert(w) PROVE AtHome'
  <2>1. CASE mutex = NULL
    BY <1>22, <2>1 DEF TryInsert
  <2>2. CASE ~(mutex = NULL)
    BY <1>22, <2>2 DEF TryInsert
  <2> QED BY <2>1, <2>2
<1>23. ASSUME NEW w \in Worker, Insert(w) PROVE AtHome'
  <2>1. CASE k[w] <= 0
    <3>1. /\ pc[w] = "insert" /\ pc' = [pc EXCEPT ![w] = "commit"]
      BY <1>23, <2>1 DEF Insert
    <3> QED BY <1>23, <2>1, <3>1
  <2>2. CASE ~(k[w] <= 0)
    <3>1. /\ pc[w] = "insert" /\ pc' = [pc EXCEPT ![w] = "cancel"]
      BY <1>23, <2>2 DEF Insert
    <3> QED BY <1>23, <2>2, <3>1
  <2> QED BY <2>1, <2>2
<1>24. ASSUME NEW w \in Worker, CancelWait(w) PROVE AtHome'
  BY <1>24 DEF CancelWait, Cancel
<1>25. ASSUME NEW w \in Worker, CommitWait(w) PROVE AtHome'
  BY <1>25 DEF CommitWait
<1>26. ASSUME NEW w \in Worker, Late(w) PROVE AtHome'
  BY <1>26 DEF Late, Cancel
<1>27. ASSUME NEW w \in Worker, Sleep(w) PROVE AtHome'
  BY <1>27 DEF Sleep
<1>28. ASSUME NEW w \in Worker, Woken(w) PROVE AtHome'
  <2>1. CASE asleep = <<>>
    BY <1>28, <2>1 DEF Woken, ChainReaction, WakeSome
  <2>2. CASE ~(asleep = <<>>)
    BY <1>28, <2>2 DEF Woken, ChainReaction, WakeSome
  <2> QED BY <2>1, <2>2
<1>29. ASSUME NEW w \in Worker, Quit(w) PROVE AtHome'
  BY <1>29 DEF Quit
<1>30. ASSUME NEW w \in Worker, End(w) PROVE AtHome'
  BY <1>30 DEF End, RemoveServerRef
<1> QED BY <1>1, <1>2, <1>3, <1>4, <1>5, <1>6, <1>7, <1>8, <1>9, <1>10, <1>11, <1>12,
   <1>13, <1>14, <1>15, <1>16, <1>17, <1>18, <1>19, <1>20, <1>21, <1>22, <1>23, <1>24,
   <1>25, <1>26, <1>27, <1>28, <1>29, <1>30, Next DEF Next, ShutDown, Waking, Run

\* A thread that wakes others knows where to go on.
LEMMA ReturnsStep ==
    ASSUME Assumptions, Types, Returns, Popped, Handles, AtHome, Next
    PROVE  Returns'
<1> USE Threads, Types, Returns, Popped, AtHome DEF Actor, Types, PlaceTypes, ClosingPC,
        WakingPC, WaitPC, WorkerPC, Returns, Popped, AtHome, Set, Goto, Jump, server,
        monitor, waking, demand, hist
<1>1. ASSUME NEW c \in Client, NEW delta \in 1..MaxDelta, Request(c, delta) PROVE Returns'
  BY <1>1 DEF Request, WakeSome
<1>2. ASSUME NEW c \in Client, Return(c) PROVE Returns'
  BY <1>2 DEF Return
<1>3. ASSUME NEW c \in Client, Close(c) PROVE Returns'
  BY <1>3 DEF Close
<1>4. ASSUME NEW c \in Client, NEW w \in Worker, StartShutdown(c, w) PROVE Returns'
  <2>1. CASE my_state[w] = "init"
    BY <1>4, <2>1 DEF StartShutdown, RemoveServerRef
  <2>2. CASE ~(my_state[w] = "init")
    BY <1>4, <2>2 DEF StartShutdown, RemoveServerRef
  <2> QED BY <2>1, <2>2
<1>5. ASSUME NEW c \in Client, NotifyQuit(c) PROVE Returns'
  BY <1>5, QuitNotified
<1>6. ASSUME NEW c \in Client, SignalQuit(c) PROVE Returns'
  <2>1. CASE back[c] = "normal"
    BY <1>6, <2>1, NotifiedLate DEF SignalQuit
  <2>2. CASE ~(back[c] = "normal")
    BY <1>6, <2>2, NotifiedLate DEF SignalQuit
  <2> QED BY <2>1, <2>2
<1>7. ASSUME NEW c \in Client, ReleaseHandle(c) PROVE Returns'
  BY <1>7 DEF ReleaseHandle
<1>8. ASSUME NEW c \in Client, Closed(c) PROVE Returns'
  BY <1>8 DEF Closed, RemoveServerRef
<1>9. ASSUME NEW a \in Actor, WakeLock(a) PROVE Returns'
  BY <1>9 DEF WakeLock
<1>10. ASSUME NEW a \in Actor, PopForDemand(a) PROVE Returns'
  BY <1>10, Popping DEF PopForDemand, CanPop
<1>11. ASSUME NEW a \in Actor, PopForSlack(a) PROVE Returns'
  BY <1>11, Popping DEF PopForSlack, CanPop
<1>12. ASSUME NEW a \in Actor, WakeUnlock(a) PROVE Returns'
  BY <1>12 DEF WakeUnlock, CanPop
<1>13. ASSUME NEW a \in Actor, WakeEach(a) PROVE Returns'
  <2>1. CASE my_state[Wakee(a)] = "init"
    BY <1>13, <2>1 DEF WakeEach
  <2>2. CASE ~(my_state[Wakee(a)] = "init")
    BY <1>13, <2>2, SleeperNotified
  <2> QED BY <2>1, <2>2
<1>14. ASSUME NEW a \in Actor, SignalWakee(a) PROVE Returns'
  BY <1>14, NotifiedLate DEF SignalWakee, Waked
<1>15. ASSUME NEW a \in Actor, Launch(a) PROVE Returns'
  BY <1>15 DEF Launch
<1>16. ASSUME NEW a \in Actor, Launched(a) PROVE Returns'
  <2>1. CASE my_state[Wakee(a)] = "starting"
    BY <1>16, <2>1 DEF Launched, Waked
  <2>2. CASE ~(my_state[Wakee(a)] = "starting")
    BY <1>16, <2>2 DEF Launched, Waked
  <2> QED BY <2>1, <2>2
<1>17. ASSUME NEW a \in Actor, WakeDone(a) PROVE Returns'
  BY <1>17 DEF WakeDone
<1>18. ASSUME NEW w \in Worker, Start(w) PROVE Returns'
  <2>1. CASE asleep = <<>>
    BY <1>18, <2>1 DEF Start, ChainReaction, WakeSome
  <2>2. CASE ~(asleep = <<>>)
    BY <1>18, <2>2 DEF Start, ChainReaction, WakeSome
  <2> QED BY <2>1, <2>2
<1>19. ASSUME NEW w \in Worker, Idle(w) PROVE Returns'
  BY <1>19 DEF Idle
<1>20. ASSUME NEW w \in Worker, PrepareWait(w) PROVE Returns'
  BY <1>20 DEF PrepareWait
<1>21. ASSUME NEW w \in Worker, Check(w) PROVE Returns'
  BY <1>21 DEF Check
<1>22. ASSUME NEW w \in Worker, TryInsert(w) PROVE Returns'
  <2>1. CASE mutex = NULL
    BY <1>22, <2>1 DEF TryInsert
  <2>2. CASE ~(mutex = NULL)
    BY <1>22, <2>2 DEF TryInsert
  <2> QED BY <2>1, <2>2
<1>23. ASSUME NEW w \in Worker, Insert(w) PROVE Returns'
  <2>1. CASE k[w] <= 0
    BY <1>23, <2>1 DEF Insert
  <2>2. CASE ~(k[w] <= 0)
    BY <1>23, <2>2 DEF Insert
  <2> QED BY <2>1, <2>2
<1>24. ASSUME NEW w \in Worker, CancelWait(w) PROVE Returns'
  BY <1>24 DEF CancelWait, Cancel
<1>25. ASSUME NEW w \in Worker, CommitWait(w) PROVE Returns'
  BY <1>25 DEF CommitWait
<1>26. ASSUME NEW w \in Worker, Late(w) PROVE Returns'
  BY <1>26 DEF Late, Cancel
<1>27. ASSUME NEW w \in Worker, Sleep(w) PROVE Returns'
  BY <1>27 DEF Sleep
<1>28. ASSUME NEW w \in Worker, Woken(w) PROVE Returns'
  <2>1. CASE asleep = <<>>
    BY <1>28, <2>1 DEF Woken, ChainReaction, WakeSome
  <2>2. CASE ~(asleep = <<>>)
    BY <1>28, <2>2 DEF Woken, ChainReaction, WakeSome
  <2> QED BY <2>1, <2>2
<1>29. ASSUME NEW w \in Worker, Quit(w) PROVE Returns'
  BY <1>29 DEF Quit
<1>30. ASSUME NEW w \in Worker, End(w) PROVE Returns'
  BY <1>30 DEF End, RemoveServerRef
<1> QED BY <1>1, <1>2, <1>3, <1>4, <1>5, <1>6, <1>7, <1>8, <1>9, <1>10, <1>11, <1>12,
   <1>13, <1>14, <1>15, <1>16, <1>17, <1>18, <1>19, <1>20, <1>21, <1>22, <1>23, <1>24,
   <1>25, <1>26, <1>27, <1>28, <1>29, <1>30, Next DEF Next, ShutDown, Waking, Run

\* Demand is in hand only while others are being waken.
LEMMA InHandStep ==
    ASSUME Assumptions, Types, AtHome, Popped, InHand, Returns, Handles, Next
    PROVE  InHand'
<1> USE Threads, Types, AtHome, Popped, InHand, Returns DEF Actor, Types, PlaceTypes,
        DemandTypes, Popped, InHand, Set, Goto, Jump, server, monitor, waking, demand,
        hist
<1>1. ASSUME NEW c \in Client, NEW delta \in 1..MaxDelta, Request(c, delta) PROVE InHand'
  BY <1>1 DEF Request, WakeSome, ClosingPC, WakingPC, WaitPC, WorkerPC, AtHome, Returns
<1>2. ASSUME NEW c \in Client, Return(c) PROVE InHand'
  BY <1>2 DEF Return, ClosingPC, WakingPC, WaitPC, WorkerPC, AtHome, Returns
<1>3. ASSUME NEW c \in Client, Close(c) PROVE InHand'
  BY <1>3 DEF Close, ClosingPC, WakingPC, WaitPC, WorkerPC, AtHome, Returns
<1>4. ASSUME NEW c \in Client, NEW w \in Worker, StartShutdown(c, w) PROVE InHand'
  <2>1. CASE my_state[w] = "init"
    <3>1. \A a1 \in Actor : pc'[a1] \notin {"wake_lock", "wake_loop"} => additional'[a1] = 0
      BY <1>4, <2>1 DEF StartShutdown, RemoveServerRef
    <3>2. \A w1 \in Worker : additional'[w1] = 0
      BY <1>4, <2>1 DEF StartShutdown, RemoveServerRef
    <3> QED BY <3>1, <3>2
  <2>2. CASE ~(my_state[w] = "init")
    <3>1. \A a1 \in Actor : pc'[a1] \notin {"wake_lock", "wake_loop"} => additional'[a1] = 0
      BY <1>4, <2>2 DEF StartShutdown, RemoveServerRef
    <3>2. \A w1 \in Worker : additional'[w1] = 0
      BY <1>4, <2>2 DEF StartShutdown, RemoveServerRef
    <3> QED BY <3>1, <3>2
  <2> QED BY <2>1, <2>2
<1>5. ASSUME NEW c \in Client, NotifyQuit(c) PROVE InHand'
  <2>1. pc[c] = "notify" /\ pc' = [pc EXCEPT ![c] = "signal_quit"] /\ additional' = additional
    BY <1>5, QuitNotified
  <2> QED BY <2>1
<1>6. ASSUME NEW c \in Client, SignalQuit(c) PROVE InHand'
  <2>1. CASE back[c] = "normal"
    BY <1>6, <2>1, NotifiedLate DEF SignalQuit, ClosingPC, WakingPC, WaitPC, WorkerPC,
       AtHome, Returns
  <2>2. CASE ~(back[c] = "normal")
    BY <1>6, <2>2, NotifiedLate DEF SignalQuit, ClosingPC, WakingPC, WaitPC, WorkerPC,
       AtHome, Returns
  <2> QED BY <2>1, <2>2
<1>7. ASSUME NEW c \in Client, ReleaseHandle(c) PROVE InHand'
  BY <1>7 DEF ReleaseHandle, ClosingPC, WakingPC, WaitPC, WorkerPC, AtHome, Returns
<1>8. ASSUME NEW c \in Client, Closed(c) PROVE InHand'
  BY <1>8 DEF Closed, RemoveServerRef, ClosingPC, WakingPC, WaitPC, WorkerPC, AtHome,
     Returns
<1>9. ASSUME NEW a \in Actor, WakeLock(a) PROVE InHand'
  BY <1>9 DEF WakeLock, ClosingPC, WakingPC, WaitPC, WorkerPC, AtHome, Returns
<1>10. ASSUME NEW a \in Actor, PopForDemand(a) PROVE InHand'
  <2>1. \A a1 \in Actor : pc'[a1] \notin {"wake_lock", "wake_loop"} => additional'[a1] = 0
    BY <1>10, Popping DEF PopForDemand, CanPop
  <2>2. \A w1 \in Worker : additional'[w1] = 0
    BY <1>10, Popping DEF PopForDemand, CanPop
  <2> QED BY <2>1, <2>2
<1>11. ASSUME NEW a \in Actor, PopForSlack(a) PROVE InHand'
  BY <1>11, Popping DEF PopForSlack, CanPop, ClosingPC, WakingPC, WaitPC, WorkerPC,
     AtHome, Returns
<1>12. ASSUME NEW a \in Actor, WakeUnlock(a) PROVE InHand'
  BY <1>12 DEF WakeUnlock, CanPop, ClosingPC, WakingPC, WaitPC, WorkerPC, AtHome, Returns
<1>13. ASSUME NEW a \in Actor, WakeEach(a) PROVE InHand'
  <2>1. CASE my_state[Wakee(a)] = "init"
    <3>1. \A a1 \in Actor : pc'[a1] \notin {"wake_lock", "wake_loop"} => additional'[a1] = 0
      BY <1>13, <2>1 DEF WakeEach
    <3>2. \A w1 \in Worker : additional'[w1] = 0
      BY <1>13, <2>1 DEF WakeEach
    <3> QED BY <3>1, <3>2
  <2>2. CASE ~(my_state[Wakee(a)] = "init")
    <3>1. \A a1 \in Actor : pc'[a1] \notin {"wake_lock", "wake_loop"} => additional'[a1] = 0
      BY <1>13, <2>2, SleeperNotified
    <3>2. \A w1 \in Worker : additional'[w1] = 0
      BY <1>13, <2>2, SleeperNotified
    <3> QED BY <3>1, <3>2
  <2> QED BY <2>1, <2>2
<1>14. ASSUME NEW a \in Actor, SignalWakee(a) PROVE InHand'
  BY <1>14, NotifiedLate DEF SignalWakee, Waked, ClosingPC, WakingPC, WaitPC, WorkerPC,
     AtHome, Returns
<1>15. ASSUME NEW a \in Actor, Launch(a) PROVE InHand'
  <2>1. pc' = [pc EXCEPT ![a] = "launched", ![Wakee(a)] = "run"] /\ pc[a] = "launch"
    BY <1>15 DEF Launch
  <2>2. Wakee(a) \in Worker /\ pc[Wakee(a)] = "none" /\ Wakee(a) # a
    BY <1>15, NotYet
  <2>3. /\ additional' = additional /\ wakee' = wakee /\ mutex' = mutex /\ back' = back
        /\ asked' = asked /\ my_state' = my_state
    BY <1>15 DEF Launch
  <2> QED BY <2>1, <2>2, <2>3 DEF AtHome, Actor,
            ClosingPC, WakingPC, WorkerPC, WaitPC
<1>16. ASSUME NEW a \in Actor, Launched(a) PROVE InHand'
  <2>1. CASE my_state[Wakee(a)] = "starting"
    BY <1>16, <2>1 DEF Launched, Waked, ClosingPC, WakingPC, WaitPC, WorkerPC, AtHome,
       Returns
  <2>2. CASE ~(my_state[Wakee(a)] = "starting")
    BY <1>16, <2>2 DEF Launched, Waked, ClosingPC, WakingPC, WaitPC, WorkerPC, AtHome,
       Returns
  <2> QED BY <2>1, <2>2
<1>17. ASSUME NEW a \in Actor, WakeDone(a) PROVE InHand'
  BY <1>17 DEF WakeDone, ClosingPC, WakingPC, WaitPC, WorkerPC, AtHome, Returns
<1>18. ASSUME NEW w \in Worker, Start(w) PROVE InHand'
  <2>1. CASE asleep = <<>>
    <3>1. /\ pc[w] = "run" /\ pc' = [pc EXCEPT ![w] = "loop"]
          /\ additional' = additional
      BY <1>18, <2>1 DEF Start, ChainReaction, WakeSome
    <3> QED BY <3>1
  <2>2. CASE ~(asleep = <<>>)
    <3>1. /\ pc[w] = "run" /\ pc' = [pc EXCEPT ![w] = "wake_lock"]
          /\ additional' = [additional EXCEPT ![w] = 0]
      BY <1>18, <2>2 DEF Start, ChainReaction, WakeSome
    <3> QED BY <3>1
  <2> QED BY <2>1, <2>2
<1>19. ASSUME NEW w \in Worker, Idle(w) PROVE InHand'
  BY <1>19 DEF Idle, ClosingPC, WakingPC, WaitPC, WorkerPC, AtHome, Returns
<1>20. ASSUME NEW w \in Worker, PrepareWait(w) PROVE InHand'
  BY <1>20 DEF PrepareWait, ClosingPC, WakingPC, WaitPC, WorkerPC, AtHome, Returns
<1>21. ASSUME NEW w \in Worker, Check(w) PROVE InHand'
  BY <1>21 DEF Check, ClosingPC, WakingPC, WaitPC, WorkerPC, AtHome, Returns
<1>22. ASSUME NEW w \in Worker, TryInsert(w) PROVE InHand'
  <2>1. CASE mutex = NULL
    <3>1. /\ pc[w] = "try_insert" /\ pc' = [pc EXCEPT ![w] = "insert"]
          /\ additional' = additional
      BY <1>22, <2>1 DEF TryInsert
    <3> QED BY <3>1
  <2>2. CASE ~(mutex = NULL)
    <3>1. /\ pc[w] = "try_insert" /\ pc' = [pc EXCEPT ![w] = "cancel"]
          /\ additional' = additional
      BY <1>22, <2>2 DEF TryInsert
    <3> QED BY <3>1
  <2> QED BY <2>1, <2>2
<1>23. ASSUME NEW w \in Worker, Insert(w) PROVE InHand'
  <2>1. CASE k[w] <= 0
    <3>1. \A a1 \in Actor : pc'[a1] \notin {"wake_lock", "wake_loop"} => additional'[a1] = 0
      BY <1>23, <2>1 DEF Insert
    <3>2. \A w1 \in Worker : additional'[w1] = 0
      BY <1>23, <2>1 DEF Insert
    <3> QED BY <3>1, <3>2
  <2>2. CASE ~(k[w] <= 0)
    <3>1. \A a1 \in Actor : pc'[a1] \notin {"wake_lock", "wake_loop"} => additional'[a1] = 0
      BY <1>23, <2>2 DEF Insert
    <3>2. \A w1 \in Worker : additional'[w1] = 0
      BY <1>23, <2>2 DEF Insert
    <3> QED BY <3>1, <3>2
  <2> QED BY <2>1, <2>2
<1>24. ASSUME NEW w \in Worker, CancelWait(w) PROVE InHand'
  BY <1>24 DEF CancelWait, Cancel, ClosingPC, WakingPC, WaitPC, WorkerPC, AtHome, Returns
<1>25. ASSUME NEW w \in Worker, CommitWait(w) PROVE InHand'
  BY <1>25 DEF CommitWait, ClosingPC, WakingPC, WaitPC, WorkerPC, AtHome, Returns
<1>26. ASSUME NEW w \in Worker, Late(w) PROVE InHand'
  BY <1>26 DEF Late, Cancel, ClosingPC, WakingPC, WaitPC, WorkerPC, AtHome, Returns
<1>27. ASSUME NEW w \in Worker, Sleep(w) PROVE InHand'
  BY <1>27 DEF Sleep, ClosingPC, WakingPC, WaitPC, WorkerPC, AtHome, Returns
<1>28. ASSUME NEW w \in Worker, Woken(w) PROVE InHand'
  <2>1. CASE asleep = <<>>
    <3>1. /\ pc[w] = "woken" /\ pc' = [pc EXCEPT ![w] = "loop"]
          /\ additional' = additional
      BY <1>28, <2>1 DEF Woken, ChainReaction, WakeSome
    <3> QED BY <3>1
  <2>2. CASE ~(asleep = <<>>)
    <3>1. /\ pc[w] = "woken" /\ pc' = [pc EXCEPT ![w] = "wake_lock"]
          /\ additional' = [additional EXCEPT ![w] = 0]
      BY <1>28, <2>2 DEF Woken, ChainReaction, WakeSome
    <3> QED BY <3>1
  <2> QED BY <2>1, <2>2
<1>29. ASSUME NEW w \in Worker, Quit(w) PROVE InHand'
  BY <1>29 DEF Quit, ClosingPC, WakingPC, WaitPC, WorkerPC, AtHome, Returns
<1>30. ASSUME NEW w \in Worker, End(w) PROVE InHand'
  BY <1>30 DEF End, RemoveServerRef, ClosingPC, WakingPC, WaitPC, WorkerPC, AtHome, Returns
<1> QED BY <1>1, <1>2, <1>3, <1>4, <1>5, <1>6, <1>7, <1>8, <1>9, <1>10, <1>11, <1>12,
   <1>13, <1>14, <1>15, <1>16, <1>17, <1>18, <1>19, <1>20, <1>21, <1>22, <1>23, <1>24,
   <1>25, <1>26, <1>27, <1>28, <1>29, <1>30, Next DEF Next, ShutDown, Waking, Run

\* Workers to wake are in hand only while they are being waken.
LEMMA PoppedStep ==
    ASSUME Assumptions, Types, AtHome, Popped, Returns, Handles, Next
    PROVE  Popped'
<1> USE Threads, Types, AtHome, Popped, Returns DEF Actor, Types, PlaceTypes, ClosingPC,
        WakingPC, WaitPC, WorkerPC, DemandTypes, AtHome, Popped, Returns, Set, Goto,
        Jump, server, monitor, waking, demand, hist
<1>1. ASSUME NEW c \in Client, NEW delta \in 1..MaxDelta, Request(c, delta) PROVE Popped'
  BY <1>1 DEF Request, WakeSome
<1>2. ASSUME NEW c \in Client, Return(c) PROVE Popped'
  BY <1>2 DEF Return
<1>3. ASSUME NEW c \in Client, Close(c) PROVE Popped'
  BY <1>3 DEF Close
<1>4. ASSUME NEW c \in Client, NEW w \in Worker, StartShutdown(c, w) PROVE Popped'
  <2>1. /\ pc[c] = "shutdown" /\ pc'[c] \in {"shutdown", "notify"}
        /\ wakee' = [wakee EXCEPT ![c] = <<w>>]
    BY <1>4 DEF StartShutdown
  <2>2. \A a \in Actor : a # c => pc'[a] = pc[a]
    BY <1>4 DEF StartShutdown
  <2> QED BY <2>1, <2>2
<1>5. ASSUME NEW c \in Client, NotifyQuit(c) PROVE Popped'
  <2>1. /\ pc[c] = "notify" /\ pc' = [pc EXCEPT ![c] = "signal_quit"] /\ wakee' = wakee
    BY <1>5, QuitNotified
  <2> QED BY <1>5, <2>1, QuitNotified
<1>6. ASSUME NEW c \in Client, SignalQuit(c) PROVE Popped'
  <2>1. CASE back[c] = "normal"
    BY <1>6, <2>1, NotifiedLate DEF SignalQuit
  <2>2. CASE ~(back[c] = "normal")
    BY <1>6, <2>2, NotifiedLate DEF SignalQuit
  <2> QED BY <2>1, <2>2
<1>7. ASSUME NEW c \in Client, ReleaseHandle(c) PROVE Popped'
  BY <1>7 DEF ReleaseHandle
<1>8. ASSUME NEW c \in Client, Closed(c) PROVE Popped'
  BY <1>8 DEF Closed, RemoveServerRef
<1>9. ASSUME NEW a \in Actor, WakeLock(a) PROVE Popped'
  BY <1>9 DEF WakeLock
<1>10. ASSUME NEW a \in Actor, PopForDemand(a) PROVE Popped'
  <2>1. /\ pc[a] = "wake_loop" /\ pc' = [pc EXCEPT ![a] = "wake_loop"]
        /\ asleep # <<>> /\ Pop(a)
    BY <1>10 DEF PopForDemand, CanPop
  <2>2. wakee'[a] # <<>> /\ \A b \in Actor : b # a => wakee'[b] = wakee[b]
    BY <2>1, Popping
  <2> QED BY <2>1, <2>2
<1>11. ASSUME NEW a \in Actor, PopForSlack(a) PROVE Popped'
  <2>1. /\ pc[a] = "wake_loop" /\ pc' = [pc EXCEPT ![a] = "wake_loop"]
        /\ asleep # <<>> /\ Pop(a)
    BY <1>11 DEF PopForSlack, CanPop
  <2>2. wakee'[a] # <<>> /\ \A b \in Actor : b # a => wakee'[b] = wakee[b]
    BY <2>1, Popping
  <2> QED BY <2>1, <2>2
<1>12. ASSUME NEW a \in Actor, WakeUnlock(a) PROVE Popped'
  BY <1>12 DEF WakeUnlock, CanPop
<1>13. ASSUME NEW a \in Actor, WakeEach(a) PROVE Popped'
  <2>1. CASE my_state[Wakee(a)] = "init"
    <3>1. /\ pc[a] = "wake_each" /\ wakee[a] # <<>>
          /\ pc' = [pc EXCEPT ![a] = "launch"] /\ wakee' = wakee
      BY <1>13, <2>1 DEF WakeEach
    <3> QED BY <1>13, <2>1, <3>1
  <2>2. CASE ~(my_state[Wakee(a)] = "init")
    <3>1. /\ pc[a] = "wake_each" /\ wakee[a] # <<>>
          /\ pc' = [pc EXCEPT ![a] = "signal"] /\ wakee' = wakee
      BY <1>13, <2>2, SleeperNotified
    <3> QED BY <1>13, <2>2, <3>1, SleeperNotified
  <2> QED BY <2>1, <2>2
<1>14. ASSUME NEW a \in Actor, SignalWakee(a) PROVE Popped'
  BY <1>14, NotifiedLate DEF SignalWakee, Waked
<1>15. ASSUME NEW a \in Actor, Launch(a) PROVE Popped'
  <2>1. pc' = [pc EXCEPT ![a] = "launched", ![Wakee(a)] = "run"] /\ pc[a] = "launch"
    BY <1>15 DEF Launch
  <2>2. Wakee(a) \in Worker /\ pc[Wakee(a)] = "none" /\ Wakee(a) # a
    BY <1>15, NotYet
  <2>3. /\ additional' = additional /\ wakee' = wakee /\ mutex' = mutex /\ back' = back
        /\ asked' = asked /\ my_state' = my_state
    BY <1>15 DEF Launch
  <2> QED BY <2>1, <2>2, <2>3 DEF Actor,
            ClosingPC, WakingPC, WorkerPC, WaitPC
<1>16. ASSUME NEW a \in Actor, Launched(a) PROVE Popped'
  <2>1. CASE my_state[Wakee(a)] = "starting"
    BY <1>16, <2>1 DEF Launched, Waked
  <2>2. CASE ~(my_state[Wakee(a)] = "starting")
    BY <1>16, <2>2 DEF Launched, Waked
  <2> QED BY <2>1, <2>2
<1>17. ASSUME NEW a \in Actor, WakeDone(a) PROVE Popped'
  BY <1>17 DEF WakeDone
<1>18. ASSUME NEW w \in Worker, Start(w) PROVE Popped'
  <2>1. CASE asleep = <<>>
    <3>1. /\ pc[w] = "run" /\ pc' = [pc EXCEPT ![w] = "loop"] /\ wakee' = wakee
      BY <1>18, <2>1 DEF Start, ChainReaction, WakeSome
    <3> QED BY <3>1
  <2>2. CASE ~(asleep = <<>>)
    <3>1. /\ pc[w] = "run" /\ pc' = [pc EXCEPT ![w] = "wake_lock"] /\ wakee' = wakee
      BY <1>18, <2>2 DEF Start, ChainReaction, WakeSome
    <3> QED BY <3>1
  <2> QED BY <2>1, <2>2
<1>19. ASSUME NEW w \in Worker, Idle(w) PROVE Popped'
  BY <1>19 DEF Idle
<1>20. ASSUME NEW w \in Worker, PrepareWait(w) PROVE Popped'
  BY <1>20 DEF PrepareWait
<1>21. ASSUME NEW w \in Worker, Check(w) PROVE Popped'
  BY <1>21 DEF Check
<1>22. ASSUME NEW w \in Worker, TryInsert(w) PROVE Popped'
  <2>1. CASE mutex = NULL
    <3>1. /\ pc[w] = "try_insert" /\ pc' = [pc EXCEPT ![w] = "insert"]
          /\ wakee' = wakee
      BY <1>22, <2>1 DEF TryInsert
    <3> QED BY <1>22, <2>1, <3>1
  <2>2. CASE ~(mutex = NULL)
    <3>1. /\ pc[w] = "try_insert" /\ pc' = [pc EXCEPT ![w] = "cancel"]
          /\ wakee' = wakee
      BY <1>22, <2>2 DEF TryInsert
    <3> QED BY <1>22, <2>2, <3>1
  <2> QED BY <2>1, <2>2
<1>23. ASSUME NEW w \in Worker, Insert(w) PROVE Popped'
  <2>1. CASE k[w] <= 0
    <3>1. /\ pc[w] = "insert" /\ pc' = [pc EXCEPT ![w] = "commit"] /\ wakee' = wakee
      BY <1>23, <2>1 DEF Insert
    <3> QED BY <1>23, <2>1, <3>1
  <2>2. CASE ~(k[w] <= 0)
    <3>1. /\ pc[w] = "insert" /\ pc' = [pc EXCEPT ![w] = "cancel"] /\ wakee' = wakee
      BY <1>23, <2>2 DEF Insert
    <3> QED BY <1>23, <2>2, <3>1
  <2> QED BY <2>1, <2>2
<1>24. ASSUME NEW w \in Worker, CancelWait(w) PROVE Popped'
  BY <1>24 DEF CancelWait, Cancel
<1>25. ASSUME NEW w \in Worker, CommitWait(w) PROVE Popped'
  BY <1>25 DEF CommitWait
<1>26. ASSUME NEW w \in Worker, Late(w) PROVE Popped'
  BY <1>26 DEF Late, Cancel
<1>27. ASSUME NEW w \in Worker, Sleep(w) PROVE Popped'
  BY <1>27 DEF Sleep
<1>28. ASSUME NEW w \in Worker, Woken(w) PROVE Popped'
  <2>1. CASE asleep = <<>>
    <3>1. /\ pc[w] = "woken" /\ pc' = [pc EXCEPT ![w] = "loop"] /\ wakee' = wakee
      BY <1>28, <2>1 DEF Woken, ChainReaction, WakeSome
    <3> QED BY <3>1
  <2>2. CASE ~(asleep = <<>>)
    <3>1. /\ pc[w] = "woken" /\ pc' = [pc EXCEPT ![w] = "wake_lock"] /\ wakee' = wakee
      BY <1>28, <2>2 DEF Woken, ChainReaction, WakeSome
    <3> QED BY <3>1
  <2> QED BY <2>1, <2>2
<1>29. ASSUME NEW w \in Worker, Quit(w) PROVE Popped'
  BY <1>29 DEF Quit
<1>30. ASSUME NEW w \in Worker, End(w) PROVE Popped'
  BY <1>30 DEF End, RemoveServerRef
<1> QED BY <1>1, <1>2, <1>3, <1>4, <1>5, <1>6, <1>7, <1>8, <1>9, <1>10, <1>11, <1>12,
   <1>13, <1>14, <1>15, <1>16, <1>17, <1>18, <1>19, <1>20, <1>21, <1>22, <1>23, <1>24,
   <1>25, <1>26, <1>27, <1>28, <1>29, <1>30, Next DEF Next, ShutDown, Waking, Run

\* Whoever is inside has the lock.
LEMMA LockedStep ==
    ASSUME Assumptions, Types, AtHome, Popped, Locked, Returns, Handles, Next
    PROVE  Locked'
<1> USE Threads, Types, AtHome, Popped, Locked, Returns DEF Actor, Types, PlaceTypes,
        ClosingPC, WakingPC, WaitPC, WorkerPC, ServerTypes, AtHome, Popped, Locked,
        Returns, Set, Goto, Jump, server, monitor, waking, demand, hist
<1>1. ASSUME NEW c \in Client, NEW delta \in 1..MaxDelta, Request(c, delta) PROVE Locked'
  BY <1>1 DEF Request, WakeSome
<1>2. ASSUME NEW c \in Client, Return(c) PROVE Locked'
  BY <1>2 DEF Return
<1>3. ASSUME NEW c \in Client, Close(c) PROVE Locked'
  BY <1>3 DEF Close
<1>4. ASSUME NEW c \in Client, NEW w \in Worker, StartShutdown(c, w) PROVE Locked'
  <2>1. CASE my_state[w] = "init"
    BY <1>4, <2>1 DEF StartShutdown, RemoveServerRef
  <2>2. CASE ~(my_state[w] = "init")
    BY <1>4, <2>2 DEF StartShutdown, RemoveServerRef
  <2> QED BY <2>1, <2>2
<1>5. ASSUME NEW c \in Client, NotifyQuit(c) PROVE Locked'
  BY <1>5, QuitNotified
<1>6. ASSUME NEW c \in Client, SignalQuit(c) PROVE Locked'
  <2>1. CASE back[c] = "normal"
    BY <1>6, <2>1, NotifiedLate DEF SignalQuit
  <2>2. CASE ~(back[c] = "normal")
    BY <1>6, <2>2, NotifiedLate DEF SignalQuit
  <2> QED BY <2>1, <2>2
<1>7. ASSUME NEW c \in Client, ReleaseHandle(c) PROVE Locked'
  BY <1>7 DEF ReleaseHandle
<1>8. ASSUME NEW c \in Client, Closed(c) PROVE Locked'
  BY <1>8 DEF Closed, RemoveServerRef
<1>9. ASSUME NEW a \in Actor, WakeLock(a) PROVE Locked'
  BY <1>9 DEF WakeLock
<1>10. ASSUME NEW a \in Actor, PopForDemand(a) PROVE Locked'
  BY <1>10, Popping DEF PopForDemand, CanPop
<1>11. ASSUME NEW a \in Actor, PopForSlack(a) PROVE Locked'
  BY <1>11, Popping DEF PopForSlack, CanPop
<1>12. ASSUME NEW a \in Actor, WakeUnlock(a) PROVE Locked'
  BY <1>12 DEF WakeUnlock, CanPop
<1>13. ASSUME NEW a \in Actor, WakeEach(a) PROVE Locked'
  <2>1. CASE my_state[Wakee(a)] = "init"
    BY <1>13, <2>1 DEF WakeEach
  <2>2. CASE ~(my_state[Wakee(a)] = "init")
    BY <1>13, <2>2, SleeperNotified
  <2> QED BY <2>1, <2>2
<1>14. ASSUME NEW a \in Actor, SignalWakee(a) PROVE Locked'
  BY <1>14, NotifiedLate DEF SignalWakee, Waked
<1>15. ASSUME NEW a \in Actor, Launch(a) PROVE Locked'
  <2>1. pc' = [pc EXCEPT ![a] = "launched", ![Wakee(a)] = "run"] /\ pc[a] = "launch"
    BY <1>15 DEF Launch
  <2>2. Wakee(a) \in Worker /\ pc[Wakee(a)] = "none" /\ Wakee(a) # a
    BY <1>15, NotYet
  <2>3. /\ additional' = additional /\ wakee' = wakee /\ mutex' = mutex /\ back' = back
        /\ asked' = asked /\ my_state' = my_state
    BY <1>15 DEF Launch
  <2> QED BY <2>1, <2>2, <2>3 DEF Actor,
            ClosingPC, WakingPC, WorkerPC, WaitPC
<1>16. ASSUME NEW a \in Actor, Launched(a) PROVE Locked'
  <2>1. CASE my_state[Wakee(a)] = "starting"
    BY <1>16, <2>1 DEF Launched, Waked
  <2>2. CASE ~(my_state[Wakee(a)] = "starting")
    BY <1>16, <2>2 DEF Launched, Waked
  <2> QED BY <2>1, <2>2
<1>17. ASSUME NEW a \in Actor, WakeDone(a) PROVE Locked'
  BY <1>17 DEF WakeDone
<1>18. ASSUME NEW w \in Worker, Start(w) PROVE Locked'
  <2>1. CASE asleep = <<>>
    BY <1>18, <2>1 DEF Start, ChainReaction, WakeSome
  <2>2. CASE ~(asleep = <<>>)
    BY <1>18, <2>2 DEF Start, ChainReaction, WakeSome
  <2> QED BY <2>1, <2>2
<1>19. ASSUME NEW w \in Worker, Idle(w) PROVE Locked'
  BY <1>19 DEF Idle
<1>20. ASSUME NEW w \in Worker, PrepareWait(w) PROVE Locked'
  BY <1>20 DEF PrepareWait
<1>21. ASSUME NEW w \in Worker, Check(w) PROVE Locked'
  BY <1>21 DEF Check
<1>22. ASSUME NEW w \in Worker, TryInsert(w) PROVE Locked'
  <2>1. CASE mutex = NULL
    BY <1>22, <2>1 DEF TryInsert
  <2>2. CASE ~(mutex = NULL)
    BY <1>22, <2>2 DEF TryInsert
  <2> QED BY <2>1, <2>2
<1>23. ASSUME NEW w \in Worker, Insert(w) PROVE Locked'
  <2>1. CASE k[w] <= 0
    <3>1. /\ pc[w] = "insert" /\ pc' = [pc EXCEPT ![w] = "commit"] /\ mutex' = NULL
      BY <1>23, <2>1 DEF Insert
    <3> QED BY <3>1
  <2>2. CASE ~(k[w] <= 0)
    <3>1. /\ pc[w] = "insert" /\ pc' = [pc EXCEPT ![w] = "cancel"] /\ mutex' = NULL
      BY <1>23, <2>2 DEF Insert
    <3> QED BY <3>1
  <2> QED BY <2>1, <2>2
<1>24. ASSUME NEW w \in Worker, CancelWait(w) PROVE Locked'
  BY <1>24 DEF CancelWait, Cancel
<1>25. ASSUME NEW w \in Worker, CommitWait(w) PROVE Locked'
  BY <1>25 DEF CommitWait
<1>26. ASSUME NEW w \in Worker, Late(w) PROVE Locked'
  BY <1>26 DEF Late, Cancel
<1>27. ASSUME NEW w \in Worker, Sleep(w) PROVE Locked'
  BY <1>27 DEF Sleep
<1>28. ASSUME NEW w \in Worker, Woken(w) PROVE Locked'
  <2>1. CASE asleep = <<>>
    BY <1>28, <2>1 DEF Woken, ChainReaction, WakeSome
  <2>2. CASE ~(asleep = <<>>)
    BY <1>28, <2>2 DEF Woken, ChainReaction, WakeSome
  <2> QED BY <2>1, <2>2
<1>29. ASSUME NEW w \in Worker, Quit(w) PROVE Locked'
  BY <1>29 DEF Quit
<1>30. ASSUME NEW w \in Worker, End(w) PROVE Locked'
  BY <1>30 DEF End, RemoveServerRef
<1> QED BY <1>1, <1>2, <1>3, <1>4, <1>5, <1>6, <1>7, <1>8, <1>9, <1>10, <1>11, <1>12,
   <1>13, <1>14, <1>15, <1>16, <1>17, <1>18, <1>19, <1>20, <1>21, <1>22, <1>23, <1>24,
   <1>25, <1>26, <1>27, <1>28, <1>29, <1>30, Next DEF Next, ShutDown, Waking, Run

\* What is in hand of a request has been asked for.
LEMMA OwedStep ==
    ASSUME Assumptions, Types, InHand, Owed, AtHome, Popped, Handles, Next
    PROVE  Owed'
<1> USE Threads, Types, InHand, Owed, AtHome, Popped DEF Actor, Types, PlaceTypes,
        DemandTypes, InHand, Owed, AtHome, Popped, Set, Goto, Jump, server, monitor,
        waking, demand, hist
<1>1. ASSUME NEW c \in Client, NEW delta \in 1..MaxDelta, Request(c, delta) PROVE Owed'
  BY <1>1 DEF Request, WakeSome
<1>2. ASSUME NEW c \in Client, Return(c) PROVE Owed'
  <2>1. /\ pc[c] = "idle" /\ asked' = [asked EXCEPT ![c] = 0] /\ additional' = additional
    BY <1>2 DEF Return
  <2>2. additional[c] = 0
    BY <2>1
  <2> QED BY <2>1, <2>2
<1>3. ASSUME NEW c \in Client, Close(c) PROVE Owed'
  BY <1>3 DEF Close
<1>4. ASSUME NEW c \in Client, NEW w \in Worker, StartShutdown(c, w) PROVE Owed'
  <2>1. CASE my_state[w] = "init"
    BY <1>4, <2>1 DEF StartShutdown, RemoveServerRef
  <2>2. CASE ~(my_state[w] = "init")
    BY <1>4, <2>2 DEF StartShutdown, RemoveServerRef
  <2> QED BY <2>1, <2>2
<1>5. ASSUME NEW c \in Client, NotifyQuit(c) PROVE Owed'
  <2>1. additional' = additional /\ asked' = asked
    BY <1>5, QuitNotified
  <2> QED BY <2>1
<1>6. ASSUME NEW c \in Client, SignalQuit(c) PROVE Owed'
  <2>1. CASE back[c] = "normal"
    BY <1>6, <2>1, NotifiedLate DEF SignalQuit
  <2>2. CASE ~(back[c] = "normal")
    BY <1>6, <2>2, NotifiedLate DEF SignalQuit
  <2> QED BY <2>1, <2>2
<1>7. ASSUME NEW c \in Client, ReleaseHandle(c) PROVE Owed'
  BY <1>7 DEF ReleaseHandle
<1>8. ASSUME NEW c \in Client, Closed(c) PROVE Owed'
  BY <1>8 DEF Closed, RemoveServerRef
<1>9. ASSUME NEW a \in Actor, WakeLock(a) PROVE Owed'
  BY <1>9 DEF WakeLock
<1>10. ASSUME NEW a \in Actor, PopForDemand(a) PROVE Owed'
  BY <1>10, Popping DEF PopForDemand, CanPop
<1>11. ASSUME NEW a \in Actor, PopForSlack(a) PROVE Owed'
  BY <1>11, Popping DEF PopForSlack, CanPop
<1>12. ASSUME NEW a \in Actor, WakeUnlock(a) PROVE Owed'
  BY <1>12 DEF WakeUnlock, CanPop
<1>13. ASSUME NEW a \in Actor, WakeEach(a) PROVE Owed'
  <2>1. CASE my_state[Wakee(a)] = "init"
    BY <1>13, <2>1 DEF WakeEach
  <2>2. CASE ~(my_state[Wakee(a)] = "init")
    BY <1>13, <2>2, SleeperNotified
  <2> QED BY <2>1, <2>2
<1>14. ASSUME NEW a \in Actor, SignalWakee(a) PROVE Owed'
  BY <1>14, NotifiedLate DEF SignalWakee, Waked
<1>15. ASSUME NEW a \in Actor, Launch(a) PROVE Owed'
  BY <1>15 DEF Launch
<1>16. ASSUME NEW a \in Actor, Launched(a) PROVE Owed'
  <2>1. CASE my_state[Wakee(a)] = "starting"
    BY <1>16, <2>1 DEF Launched, Waked
  <2>2. CASE ~(my_state[Wakee(a)] = "starting")
    BY <1>16, <2>2 DEF Launched, Waked
  <2> QED BY <2>1, <2>2
<1>17. ASSUME NEW a \in Actor, WakeDone(a) PROVE Owed'
  BY <1>17 DEF WakeDone
<1>18. ASSUME NEW w \in Worker, Start(w) PROVE Owed'
  <2>1. CASE asleep = <<>>
    BY <1>18, <2>1 DEF Start, ChainReaction, WakeSome
  <2>2. CASE ~(asleep = <<>>)
    BY <1>18, <2>2 DEF Start, ChainReaction, WakeSome
  <2> QED BY <2>1, <2>2
<1>19. ASSUME NEW w \in Worker, Idle(w) PROVE Owed'
  BY <1>19 DEF Idle
<1>20. ASSUME NEW w \in Worker, PrepareWait(w) PROVE Owed'
  BY <1>20 DEF PrepareWait
<1>21. ASSUME NEW w \in Worker, Check(w) PROVE Owed'
  BY <1>21 DEF Check
<1>22. ASSUME NEW w \in Worker, TryInsert(w) PROVE Owed'
  <2>1. CASE mutex = NULL
    BY <1>22, <2>1 DEF TryInsert
  <2>2. CASE ~(mutex = NULL)
    BY <1>22, <2>2 DEF TryInsert
  <2> QED BY <2>1, <2>2
<1>23. ASSUME NEW w \in Worker, Insert(w) PROVE Owed'
  <2>1. CASE k[w] <= 0
    BY <1>23, <2>1 DEF Insert
  <2>2. CASE ~(k[w] <= 0)
    BY <1>23, <2>2 DEF Insert
  <2> QED BY <2>1, <2>2
<1>24. ASSUME NEW w \in Worker, CancelWait(w) PROVE Owed'
  BY <1>24 DEF CancelWait, Cancel
<1>25. ASSUME NEW w \in Worker, CommitWait(w) PROVE Owed'
  BY <1>25 DEF CommitWait
<1>26. ASSUME NEW w \in Worker, Late(w) PROVE Owed'
  BY <1>26 DEF Late, Cancel
<1>27. ASSUME NEW w \in Worker, Sleep(w) PROVE Owed'
  BY <1>27 DEF Sleep
<1>28. ASSUME NEW w \in Worker, Woken(w) PROVE Owed'
  <2>1. CASE asleep = <<>>
    BY <1>28, <2>1 DEF Woken, ChainReaction, WakeSome
  <2>2. CASE ~(asleep = <<>>)
    BY <1>28, <2>2 DEF Woken, ChainReaction, WakeSome
  <2> QED BY <2>1, <2>2
<1>29. ASSUME NEW w \in Worker, Quit(w) PROVE Owed'
  BY <1>29 DEF Quit
<1>30. ASSUME NEW w \in Worker, End(w) PROVE Owed'
  BY <1>30 DEF End, RemoveServerRef
<1> QED BY <1>1, <1>2, <1>3, <1>4, <1>5, <1>6, <1>7, <1>8, <1>9, <1>10, <1>11, <1>12,
   <1>13, <1>14, <1>15, <1>16, <1>17, <1>18, <1>19, <1>20, <1>21, <1>22, <1>23, <1>24,
   <1>25, <1>26, <1>27, <1>28, <1>29, <1>30, Next DEF Next, ShutDown, Waking, Run

\* The server is being closed: some client does.
LEMMA ClosingIs == ASSUME AtHome PROVE Closing <=> \E c \in Client : pc[c] \in ClosingPC
  BY DEF Closing, AtHome, ClosingPC, WakingPC
LEMMA ClosingNext == ASSUME AtHome' PROVE Closing' <=> \E c \in Client : pc'[c] \in ClosingPC
  BY DEF Closing, AtHome, ClosingPC, WakingPC

\* The clients that do not close the server have asked for nothing.
LEMMA AloneStep ==
    ASSUME Assumptions, Types, Popped, Handles, AtHome, Returns, Alone, Next
    PROVE  Alone'
<1> USE Threads, Types, AtHome, Returns, Alone, ClosingIs DEF Actor, Types, PlaceTypes,
        ClosingPC, WakingPC, DemandTypes, AtHome, Returns, Alone, Set, Goto, Jump,
        server, monitor, waking, demand, hist
<1>1. ASSUME NEW c \in Client, NEW delta \in 1..MaxDelta, Request(c, delta) PROVE Alone'
  <2>1. /\ pc[c] = "idle"
        /\ ~Closing /\ asked[c] = 0 /\ SumFunction(asked) + delta <= Cardinality(Worker)
        /\ pc' = [pc EXCEPT ![c] = "wake_lock"] /\ asked' = [asked EXCEPT ![c] = delta]
    BY <1>1 DEF Request, WakeSome
  <2> QED BY <1>1, <2>1
<1>2. ASSUME NEW c \in Client, Return(c) PROVE Alone'
  <2>1. /\ pc[c] = "idle" /\ asked[c] > 0 /\ pc' = [pc EXCEPT ![c] = "idle"]
        /\ asked' = [asked EXCEPT ![c] = 0]
    BY <1>2 DEF Return
  <2> QED BY <1>2, <2>1
<1>3. ASSUME NEW c \in Client, Close(c) PROVE Alone'
  <2>1. /\ pc[c] = "idle"
        /\ \A d \in Client : pc[d] = "idle" /\ asked[d] = 0
        /\ pc' = [pc EXCEPT ![c] = "shutdown"] /\ asked' = asked
    BY <1>3 DEF Close
  <2> QED BY <1>3, <2>1
<1>4. ASSUME NEW c \in Client, NEW w \in Worker, StartShutdown(c, w) PROVE Alone'
  <2>1. CASE my_state[w] = "init"
    <3>1. /\ pc[c] = "shutdown" /\ my_state[w] # "quit"
          /\ pc' = [pc EXCEPT ![c] = "shutdown"] /\ asked' = asked
      BY <1>4, <2>1 DEF StartShutdown, RemoveServerRef
    <3> QED BY <1>4, <2>1, <3>1
  <2>2. CASE ~(my_state[w] = "init")
    <3>1. /\ pc[c] = "shutdown" /\ my_state[w] # "quit"
          /\ pc' = [pc EXCEPT ![c] = "notify"] /\ asked' = asked
      BY <1>4, <2>2 DEF StartShutdown, RemoveServerRef
    <3> QED BY <1>4, <2>2, <3>1
  <2> QED BY <2>1, <2>2
<1>5. ASSUME NEW c \in Client, NotifyQuit(c) PROVE Alone'
  <2>1. /\ pc[c] = "notify" /\ pc' = [pc EXCEPT ![c] = "signal_quit"] /\ asked' = asked
    BY <1>5, QuitNotified
  <2> QED BY <1>5, <2>1, QuitNotified
<1>6. ASSUME NEW c \in Client, SignalQuit(c) PROVE Alone'
  <2>1. CASE back[c] = "normal"
    <3>1. /\ pc[c] = "signal_quit" /\ pc' = [pc EXCEPT ![c] = "release_handle"]
          /\ asked' = asked
      BY <1>6, <2>1 DEF SignalQuit
    <3> QED BY <1>6, <2>1, <3>1, NotifiedLate DEF SignalQuit
  <2>2. CASE ~(back[c] = "normal")
    <3>1. /\ pc[c] = "signal_quit" /\ pc' = [pc EXCEPT ![c] = "shutdown"]
          /\ asked' = asked
      BY <1>6, <2>2 DEF SignalQuit
    <3> QED BY <1>6, <2>2, <3>1, NotifiedLate DEF SignalQuit
  <2> QED BY <2>1, <2>2
<1>7. ASSUME NEW c \in Client, ReleaseHandle(c) PROVE Alone'
  <2>1. /\ pc[c] = "release_handle" /\ pc' = [pc EXCEPT ![c] = "shutdown"]
        /\ asked' = asked
    BY <1>7 DEF ReleaseHandle
  <2> QED BY <1>7, <2>1
<1>8. ASSUME NEW c \in Client, Closed(c) PROVE Alone'
  <2>1. /\ pc[c] = "shutdown"
        /\ \A w \in Worker : my_state[w] = "quit"
        /\ pc' = [pc EXCEPT ![c] = "closed"] /\ asked' = asked
    BY <1>8 DEF Closed, RemoveServerRef
  <2> QED BY <1>8, <2>1
<1>9. ASSUME NEW a \in Actor, WakeLock(a) PROVE Alone'
  <2>1. /\ pc[a] = "wake_lock" /\ mutex = NULL /\ pc' = [pc EXCEPT ![a] = "wake_loop"]
        /\ asked' = asked
    BY <1>9 DEF WakeLock
  <2> QED BY <1>9, <2>1
<1>10. ASSUME NEW a \in Actor, PopForDemand(a) PROVE Alone'
  <2>1. /\ pc[a] = "wake_loop"
        /\ additional[a] > 0 /\ additional[a] + my_slack > 0 /\ asleep # <<>>
        /\ pc' = [pc EXCEPT ![a] = "wake_loop"] /\ asked' = asked
    BY <1>10 DEF PopForDemand, CanPop, Pop
  <2> QED BY <1>10, <2>1
<1>11. ASSUME NEW a \in Actor, PopForSlack(a) PROVE Alone'
  <2>1. /\ pc[a] = "wake_loop" /\ additional[a] = 0 /\ my_slack > 0 /\ asleep # <<>>
        /\ pc' = [pc EXCEPT ![a] = "wake_loop"] /\ asked' = asked
    BY <1>11 DEF PopForSlack, CanPop, Pop
  <2> QED BY <1>11, <2>1
<1>12. ASSUME NEW a \in Actor, WakeUnlock(a) PROVE Alone'
  <2>1. /\ pc[a] = "wake_loop" /\ pc' = [pc EXCEPT ![a] = "wake_each"]
        /\ asked' = asked
    BY <1>12 DEF WakeUnlock, CanPop
  <2> QED BY <1>12, <2>1
<1>13. ASSUME NEW a \in Actor, WakeEach(a) PROVE Alone'
  <2>1. CASE my_state[Wakee(a)] = "init"
    <3>1. /\ pc[a] = "wake_each" /\ wakee[a] # <<>>
          /\ pc' = [pc EXCEPT ![a] = "launch"] /\ asked' = asked
      BY <1>13, <2>1 DEF WakeEach
    <3> QED BY <1>13, <2>1, <3>1
  <2>2. CASE ~(my_state[Wakee(a)] = "init")
    <3>1. /\ pc[a] = "wake_each" /\ wakee[a] # <<>>
          /\ pc' = [pc EXCEPT ![a] = "signal"] /\ asked' = asked
      BY <1>13, <2>2, SleeperNotified
    <3> QED BY <1>13, <2>2, <3>1, SleeperNotified
  <2> QED BY <2>1, <2>2
<1>14. ASSUME NEW a \in Actor, SignalWakee(a) PROVE Alone'
  <2>1. /\ pc[a] = "signal" /\ pc' = [pc EXCEPT ![a] = "wake_each"] /\ asked' = asked
    BY <1>14 DEF SignalWakee, Waked
  <2> QED BY <1>14, <2>1, NotifiedLate DEF SignalWakee
<1>15. ASSUME NEW a \in Actor, Launch(a) PROVE Alone'
  <2>1. /\ pc' = [pc EXCEPT ![a] = "launched", ![Wakee(a)] = "run"] /\ pc[a] = "launch"
        /\ asked' = asked
    BY <1>15 DEF Launch
  <2>2. Wakee(a) \in Worker /\ pc[Wakee(a)] = "none" /\ Wakee(a) # a
    BY <1>15, NotYet
  <2> QED BY <2>1, <2>2
<1>16. ASSUME NEW a \in Actor, Launched(a) PROVE Alone'
  <2>1. CASE my_state[Wakee(a)] = "starting"
    <3>1. /\ pc[a] = "launched" /\ pc' = [pc EXCEPT ![a] = "wake_each"]
          /\ asked' = asked
      BY <1>16, <2>1 DEF Launched, Waked
    <3> QED BY <1>16, <2>1, <3>1
  <2>2. CASE ~(my_state[Wakee(a)] = "starting")
    <3>1. /\ pc[a] = "launched" /\ pc' = [pc EXCEPT ![a] = "wake_each"]
          /\ asked' = asked
      BY <1>16, <2>2 DEF Launched, Waked
    <3> QED BY <1>16, <2>2, <3>1
  <2> QED BY <2>1, <2>2
<1>17. ASSUME NEW a \in Actor, WakeDone(a) PROVE Alone'
  <2>1. /\ pc[a] = "wake_each" /\ wakee[a] = <<>> /\ pc' = [pc EXCEPT ![a] = back[a]]
        /\ asked' = asked
    BY <1>17 DEF WakeDone
  <2> QED BY <1>17, <2>1
<1>18. ASSUME NEW w \in Worker, Start(w) PROVE Alone'
  <2>1. CASE asleep = <<>>
    <3>1. /\ pc[w] = "run" /\ pc' = [pc EXCEPT ![w] = "loop"] /\ asked' = asked
      BY <1>18, <2>1 DEF Start, ChainReaction, WakeSome
    <3> QED BY <1>18, <2>1, <3>1
  <2>2. CASE ~(asleep = <<>>)
    <3>1. /\ pc[w] = "run" /\ pc' = [pc EXCEPT ![w] = "wake_lock"] /\ asked' = asked
      BY <1>18, <2>2 DEF Start, ChainReaction, WakeSome
    <3> QED BY <1>18, <2>2, <3>1
  <2> QED BY <2>1, <2>2
<1>19. ASSUME NEW w \in Worker, Idle(w) PROVE Alone'
  <2>1. /\ pc[w] = "loop" /\ my_slack < 0 /\ my_state[w] # "quit"
        /\ pc' = [pc EXCEPT ![w] = "prepare"] /\ asked' = asked
    BY <1>19 DEF Idle
  <2> QED BY <1>19, <2>1
<1>20. ASSUME NEW w \in Worker, PrepareWait(w) PROVE Alone'
  <2>1. /\ pc[w] = "prepare"
        /\ spurious[w] => sema[w] = 1
        /\ pc' = [pc EXCEPT ![w] = "check"] /\ asked' = asked
    BY <1>20 DEF PrepareWait
  <2> QED BY <1>20, <2>1
<1>21. ASSUME NEW w \in Worker, Check(w) PROVE Alone'
  <2>1. /\ pc[w] = "check"
        /\ pc' = [pc EXCEPT ![w] = IF my_state[w] = "quit" THEN "cancel" ELSE "try_insert"]
        /\ asked' = asked
    BY <1>21 DEF Check
  <2> QED BY <1>21, <2>1
<1>22. ASSUME NEW w \in Worker, TryInsert(w) PROVE Alone'
  <2>1. CASE mutex = NULL
    <3>1. /\ pc[w] = "try_insert" /\ pc' = [pc EXCEPT ![w] = "insert"]
          /\ asked' = asked
      BY <1>22, <2>1 DEF TryInsert
    <3> QED BY <1>22, <2>1, <3>1
  <2>2. CASE ~(mutex = NULL)
    <3>1. /\ pc[w] = "try_insert" /\ pc' = [pc EXCEPT ![w] = "cancel"]
          /\ asked' = asked
      BY <1>22, <2>2 DEF TryInsert
    <3> QED BY <1>22, <2>2, <3>1
  <2> QED BY <2>1, <2>2
<1>23. ASSUME NEW w \in Worker, Insert(w) PROVE Alone'
  <2>1. CASE k[w] <= 0
    <3>1. /\ pc[w] = "insert" /\ pc' = [pc EXCEPT ![w] = "commit"] /\ asked' = asked
      BY <1>23, <2>1 DEF Insert
    <3> QED BY <1>23, <2>1, <3>1
  <2>2. CASE ~(k[w] <= 0)
    <3>1. /\ pc[w] = "insert" /\ pc' = [pc EXCEPT ![w] = "cancel"] /\ asked' = asked
      BY <1>23, <2>2 DEF Insert
    <3> QED BY <1>23, <2>2, <3>1
  <2> QED BY <2>1, <2>2
<1>24. ASSUME NEW w \in Worker, CancelWait(w) PROVE Alone'
  <2>1. /\ pc[w] = "cancel" /\ pc' = [pc EXCEPT ![w] = "loop"] /\ asked' = asked
    BY <1>24 DEF CancelWait, Cancel
  <2> QED BY <1>24, <2>1
<1>25. ASSUME NEW w \in Worker, CommitWait(w) PROVE Alone'
  <2>1. /\ pc[w] = "commit"
        /\ pc' = [pc EXCEPT ![w] = IF notified[w] THEN "late" ELSE "sleep"]
        /\ asked' = asked
    BY <1>25 DEF CommitWait
  <2> QED BY <1>25, <2>1
<1>26. ASSUME NEW w \in Worker, Late(w) PROVE Alone'
  <2>1. /\ pc[w] = "late" /\ pc' = [pc EXCEPT ![w] = "woken"] /\ asked' = asked
    BY <1>26 DEF Late, Cancel
  <2> QED BY <1>26, <2>1
<1>27. ASSUME NEW w \in Worker, Sleep(w) PROVE Alone'
  <2>1. /\ pc[w] = "sleep" /\ sema[w] = 1 /\ pc' = [pc EXCEPT ![w] = "woken"]
        /\ asked' = asked
    BY <1>27 DEF Sleep
  <2> QED BY <1>27, <2>1
<1>28. ASSUME NEW w \in Worker, Woken(w) PROVE Alone'
  <2>1. CASE asleep = <<>>
    <3>1. /\ pc[w] = "woken" /\ pc' = [pc EXCEPT ![w] = "loop"] /\ asked' = asked
      BY <1>28, <2>1 DEF Woken, ChainReaction, WakeSome
    <3> QED BY <1>28, <2>1, <3>1
  <2>2. CASE ~(asleep = <<>>)
    <3>1. /\ pc[w] = "woken" /\ pc' = [pc EXCEPT ![w] = "wake_lock"] /\ asked' = asked
      BY <1>28, <2>2 DEF Woken, ChainReaction, WakeSome
    <3> QED BY <1>28, <2>2, <3>1
  <2> QED BY <2>1, <2>2
<1>29. ASSUME NEW w \in Worker, Quit(w) PROVE Alone'
  <2>1. /\ pc[w] = "loop" /\ my_state[w] = "quit" /\ pc' = [pc EXCEPT ![w] = "quit"]
        /\ asked' = asked
    BY <1>29 DEF Quit
  <2> QED BY <1>29, <2>1
<1>30. ASSUME NEW w \in Worker, End(w) PROVE Alone'
  <2>1. /\ pc[w] = "quit" /\ pc' = [pc EXCEPT ![w] = "end"] /\ asked' = asked
    BY <1>30 DEF End, RemoveServerRef
  <2> QED BY <1>30, <2>1
<1> QED BY <1>1, <1>2, <1>3, <1>4, <1>5, <1>6, <1>7, <1>8, <1>9, <1>10, <1>11, <1>12,
   <1>13, <1>14, <1>15, <1>16, <1>17, <1>18, <1>19, <1>20, <1>21, <1>22, <1>23, <1>24,
   <1>25, <1>26, <1>27, <1>28, <1>29, <1>30, Next DEF Next, ShutDown, Waking, Run

\* A worker that is being told to quit is to quit.
LEMMA TellingStep ==
    ASSUME Assumptions, Types, Popped, Handles, Alone, Returns, Telling, Next
    PROVE  Telling'
<1> USE Threads, Types, Alone, Popped, Returns, Telling DEF Actor, Types, PlaceTypes,
        ClosingPC, WakingPC, DemandTypes, StateTypes, Alone, Popped, Returns, Telling,
        Set, Goto, Jump, server, monitor, waking, demand, hist
<1>1. ASSUME NEW c \in Client, NEW delta \in 1..MaxDelta, Request(c, delta) PROVE Telling'
  <2>1. /\ pc[c] = "idle"
        /\ ~Closing /\ asked[c] = 0 /\ SumFunction(asked) + delta <= Cardinality(Worker)
        /\ pc' = [pc EXCEPT ![c] = "wake_lock"] /\ back' = [back EXCEPT ![c] = "idle"]
        /\ wakee' = wakee /\ my_state' = my_state
    BY <1>1 DEF Request, WakeSome
  <2> QED BY <1>1, <2>1
<1>2. ASSUME NEW c \in Client, Return(c) PROVE Telling'
  <2>1. /\ pc[c] = "idle" /\ asked[c] > 0 /\ pc' = [pc EXCEPT ![c] = "idle"]
        /\ wakee' = wakee /\ back' = back /\ my_state' = my_state
    BY <1>2 DEF Return
  <2> QED BY <1>2, <2>1
<1>3. ASSUME NEW c \in Client, Close(c) PROVE Telling'
  <2>1. /\ pc[c] = "idle"
        /\ \A d \in Client : pc[d] = "idle" /\ asked[d] = 0
        /\ pc' = [pc EXCEPT ![c] = "shutdown"]
        /\ wakee' = wakee /\ back' = back /\ my_state' = my_state
    BY <1>3 DEF Close
  <2> QED BY <1>3, <2>1
<1>4. ASSUME NEW c \in Client, NEW w \in Worker, StartShutdown(c, w) PROVE Telling'
  <2>1. CASE my_state[w] = "init"
    <3>1. /\ pc[c] = "shutdown" /\ my_state[w] # "quit"
          /\ pc' = [pc EXCEPT ![c] = "shutdown"]
          /\ wakee' = [wakee EXCEPT ![c] = <<w>>]
          /\ back' = [back EXCEPT ![c] = my_state[w]]
          /\ my_state' = [my_state EXCEPT ![w] = "quit"]
      BY <1>4, <2>1 DEF StartShutdown, RemoveServerRef
    <3> QED BY <1>4, <2>1, <3>1
  <2>2. CASE ~(my_state[w] = "init")
    <3>1. /\ pc[c] = "shutdown" /\ my_state[w] # "quit"
          /\ pc' = [pc EXCEPT ![c] = "notify"] /\ wakee' = [wakee EXCEPT ![c] = <<w>>]
          /\ back' = [back EXCEPT ![c] = my_state[w]]
          /\ my_state' = [my_state EXCEPT ![w] = "quit"]
      BY <1>4, <2>2 DEF StartShutdown, RemoveServerRef
    <3> QED BY <1>4, <2>2, <3>1
  <2> QED BY <2>1, <2>2
<1>5. ASSUME NEW c \in Client, NotifyQuit(c) PROVE Telling'
  <2>1. /\ pc[c] = "notify" /\ pc' = [pc EXCEPT ![c] = "signal_quit"]
        /\ wakee' = wakee /\ back' = back /\ my_state' = my_state
    BY <1>5, QuitNotified
  <2> QED BY <2>1
<1>6. ASSUME NEW c \in Client, SignalQuit(c) PROVE Telling'
  <2>1. CASE back[c] = "normal"
    <3>1. /\ pc[c] = "signal_quit" /\ pc' = [pc EXCEPT ![c] = "release_handle"]
          /\ wakee' = wakee /\ back' = back /\ my_state' = my_state
      BY <1>6, <2>1 DEF SignalQuit
    <3> QED BY <1>6, <2>1, <3>1, NotifiedLate DEF SignalQuit
  <2>2. CASE ~(back[c] = "normal")
    <3>1. /\ pc[c] = "signal_quit" /\ pc' = [pc EXCEPT ![c] = "shutdown"]
          /\ wakee' = wakee /\ back' = back /\ my_state' = my_state
      BY <1>6, <2>2 DEF SignalQuit
    <3> QED BY <1>6, <2>2, <3>1, NotifiedLate DEF SignalQuit
  <2> QED BY <2>1, <2>2
<1>7. ASSUME NEW c \in Client, ReleaseHandle(c) PROVE Telling'
  <2>1. /\ pc[c] = "release_handle" /\ pc' = [pc EXCEPT ![c] = "shutdown"]
        /\ wakee' = wakee /\ back' = back /\ my_state' = my_state
    BY <1>7 DEF ReleaseHandle
  <2> QED BY <1>7, <2>1
<1>8. ASSUME NEW c \in Client, Closed(c) PROVE Telling'
  <2>1. /\ pc[c] = "shutdown"
        /\ \A w \in Worker : my_state[w] = "quit"
        /\ pc' = [pc EXCEPT ![c] = "closed"]
        /\ wakee' = wakee /\ back' = back /\ my_state' = my_state
    BY <1>8 DEF Closed, RemoveServerRef
  <2> QED BY <1>8, <2>1
<1>9. ASSUME NEW a \in Actor, WakeLock(a) PROVE Telling'
  <2>1. /\ pc[a] = "wake_lock" /\ mutex = NULL /\ pc' = [pc EXCEPT ![a] = "wake_loop"]
        /\ wakee' = wakee /\ back' = back /\ my_state' = my_state
    BY <1>9 DEF WakeLock
  <2> QED BY <1>9, <2>1
<1>10. ASSUME NEW a \in Actor, PopForDemand(a) PROVE Telling'
  <2>1. /\ pc[a] = "wake_loop"
        /\ additional[a] > 0 /\ additional[a] + my_slack > 0 /\ asleep # <<>>
        /\ pc' = [pc EXCEPT ![a] = "wake_loop"]
        /\ wakee' = [wakee EXCEPT ![a] = Append(wakee[a], Head(asleep))]
        /\ back' = back /\ my_state' = my_state
    BY <1>10 DEF PopForDemand, CanPop, Pop
  <2> QED BY <1>10, <2>1
<1>11. ASSUME NEW a \in Actor, PopForSlack(a) PROVE Telling'
  <2>1. /\ pc[a] = "wake_loop" /\ additional[a] = 0 /\ my_slack > 0 /\ asleep # <<>>
        /\ pc' = [pc EXCEPT ![a] = "wake_loop"]
        /\ wakee' = [wakee EXCEPT ![a] = Append(wakee[a], Head(asleep))]
        /\ back' = back /\ my_state' = my_state
    BY <1>11 DEF PopForSlack, CanPop, Pop
  <2> QED BY <1>11, <2>1
<1>12. ASSUME NEW a \in Actor, WakeUnlock(a) PROVE Telling'
  <2>1. /\ pc[a] = "wake_loop" /\ pc' = [pc EXCEPT ![a] = "wake_each"]
        /\ wakee' = wakee /\ back' = back /\ my_state' = my_state
    BY <1>12 DEF WakeUnlock, CanPop
  <2> QED BY <1>12, <2>1
<1>13. ASSUME NEW a \in Actor, WakeEach(a) PROVE Telling'
  <2>1. CASE my_state[Wakee(a)] = "init"
    <3>1. /\ pc[a] = "wake_each" /\ wakee[a] # <<>>
          /\ pc' = [pc EXCEPT ![a] = "launch"]
          /\ my_state' = [my_state EXCEPT ![Wakee(a)] = "starting"]
          /\ wakee' = wakee /\ back' = back
      BY <1>13, <2>1 DEF WakeEach
    <3>2. Wakee(a) \in Worker
      BY <3>1, ToWake
    <3>3. \A v \in Worker : my_state[v] = "quit" => my_state'[v] = "quit"
      BY <2>1, <3>1
    <3>4. \A c \in Client : pc[c] \in {"notify", "signal_quit", "release_handle"} => wakee[c][1] \in Worker
      BY ToWake
    <3>5. \A c \in Client : pc'[c] \in {"notify", "signal_quit", "release_handle", "closed"} => pc'[c] = pc[c]
      BY <3>1
    <3> QED BY <3>1, <3>3, <3>4, <3>5
  <2>2. CASE ~(my_state[Wakee(a)] = "init")
    <3>1. /\ pc[a] = "wake_each" /\ wakee[a] # <<>>
          /\ pc' = [pc EXCEPT ![a] = "signal"]
          /\ wakee' = wakee /\ back' = back /\ my_state' = my_state
      BY <1>13, <2>2, SleeperNotified
    <3> QED BY <1>13, <2>2, <3>1, SleeperNotified
  <2> QED BY <2>1, <2>2
<1>14. ASSUME NEW a \in Actor, SignalWakee(a) PROVE Telling'
  <2>1. /\ pc[a] = "signal" /\ pc' = [pc EXCEPT ![a] = "wake_each"]
        /\ wakee' = [wakee EXCEPT ![a] = Front(wakee[a])]
        /\ back' = back /\ my_state' = my_state
    BY <1>14 DEF SignalWakee, Waked
  <2> QED BY <1>14, <2>1, NotifiedLate DEF SignalWakee
<1>15. ASSUME NEW a \in Actor, Launch(a) PROVE Telling'
  <2>1. /\ pc' = [pc EXCEPT ![a] = "launched", ![Wakee(a)] = "run"] /\ pc[a] = "launch"
        /\ wakee' = wakee /\ back' = back /\ my_state' = my_state
    BY <1>15 DEF Launch
  <2>2. Wakee(a) \in Worker /\ pc[Wakee(a)] = "none" /\ Wakee(a) # a
    BY <1>15, NotYet
  <2> QED BY <2>1, <2>2
<1>16. ASSUME NEW a \in Actor, Launched(a) PROVE Telling'
  <2>1. CASE my_state[Wakee(a)] = "starting"
    <3>1. /\ pc[a] = "launched" /\ pc' = [pc EXCEPT ![a] = "wake_each"]
          /\ wakee' = [wakee EXCEPT ![a] = Front(wakee[a])]
          /\ my_state' = [my_state EXCEPT ![Wakee(a)] = "normal"] /\ back' = back
      BY <1>16, <2>1 DEF Launched, Waked
    <3>2. Wakee(a) \in Worker /\ a \in Actor
      BY <3>1, ToWake
    <3>3. \A v \in Worker : my_state[v] = "quit" => my_state'[v] = "quit"
      BY <2>1, <3>1
    <3>4. \A c \in Client : pc[c] \in {"notify", "signal_quit", "release_handle"} => wakee[c][1] \in Worker
      BY ToWake
    <3>5. \A c \in Client : pc'[c] \in {"notify", "signal_quit", "release_handle", "closed"} =>
             pc'[c] = pc[c] /\ wakee'[c] = wakee[c]
      BY <3>1
    <3> QED BY <3>1, <3>3, <3>4, <3>5
  <2>2. CASE ~(my_state[Wakee(a)] = "starting")
    <3>1. /\ pc[a] = "launched" /\ pc' = [pc EXCEPT ![a] = "wake_each"]
          /\ wakee' = [wakee EXCEPT ![a] = Front(wakee[a])]
          /\ back' = back /\ my_state' = my_state
      BY <1>16, <2>2 DEF Launched, Waked
    <3> QED BY <1>16, <2>2, <3>1
  <2> QED BY <2>1, <2>2
<1>17. ASSUME NEW a \in Actor, WakeDone(a) PROVE Telling'
  <2>1. /\ pc[a] = "wake_each" /\ wakee[a] = <<>> /\ pc' = [pc EXCEPT ![a] = back[a]]
        /\ back' = [back EXCEPT ![a] = NULL] /\ wakee' = wakee /\ my_state' = my_state
    BY <1>17 DEF WakeDone
  <2> QED BY <1>17, <2>1
<1>18. ASSUME NEW w \in Worker, Start(w) PROVE Telling'
  <2>1. CASE asleep = <<>>
    <3>1. /\ pc[w] = "run" /\ pc' = [pc EXCEPT ![w] = "loop"]
          /\ wakee' = wakee /\ back' = back /\ my_state' = my_state
      BY <1>18, <2>1 DEF Start, ChainReaction, WakeSome
    <3> QED BY <1>18, <2>1, <3>1
  <2>2. CASE ~(asleep = <<>>)
    <3>1. /\ pc[w] = "run" /\ pc' = [pc EXCEPT ![w] = "wake_lock"]
          /\ back' = [back EXCEPT ![w] = "loop"]
          /\ wakee' = wakee /\ my_state' = my_state
      BY <1>18, <2>2 DEF Start, ChainReaction, WakeSome
    <3> QED BY <1>18, <2>2, <3>1
  <2> QED BY <2>1, <2>2
<1>19. ASSUME NEW w \in Worker, Idle(w) PROVE Telling'
  <2>1. /\ pc[w] = "loop" /\ my_slack < 0 /\ my_state[w] # "quit"
        /\ pc' = [pc EXCEPT ![w] = "prepare"]
        /\ wakee' = wakee /\ back' = back /\ my_state' = my_state
    BY <1>19 DEF Idle
  <2> QED BY <1>19, <2>1
<1>20. ASSUME NEW w \in Worker, PrepareWait(w) PROVE Telling'
  <2>1. /\ pc[w] = "prepare"
        /\ spurious[w] => sema[w] = 1
        /\ pc' = [pc EXCEPT ![w] = "check"]
        /\ wakee' = wakee /\ back' = back /\ my_state' = my_state
    BY <1>20 DEF PrepareWait
  <2> QED BY <1>20, <2>1
<1>21. ASSUME NEW w \in Worker, Check(w) PROVE Telling'
  <2>1. /\ pc[w] = "check"
        /\ pc' = [pc EXCEPT ![w] = IF my_state[w] = "quit" THEN "cancel" ELSE "try_insert"]
        /\ wakee' = wakee /\ back' = back /\ my_state' = my_state
    BY <1>21 DEF Check
  <2> QED BY <1>21, <2>1
<1>22. ASSUME NEW w \in Worker, TryInsert(w) PROVE Telling'
  <2>1. CASE mutex = NULL
    <3>1. /\ pc[w] = "try_insert" /\ pc' = [pc EXCEPT ![w] = "insert"]
          /\ wakee' = wakee /\ back' = back /\ my_state' = my_state
      BY <1>22, <2>1 DEF TryInsert
    <3> QED BY <1>22, <2>1, <3>1
  <2>2. CASE ~(mutex = NULL)
    <3>1. /\ pc[w] = "try_insert" /\ pc' = [pc EXCEPT ![w] = "cancel"]
          /\ wakee' = wakee /\ back' = back /\ my_state' = my_state
      BY <1>22, <2>2 DEF TryInsert
    <3> QED BY <1>22, <2>2, <3>1
  <2> QED BY <2>1, <2>2
<1>23. ASSUME NEW w \in Worker, Insert(w) PROVE Telling'
  <2>1. CASE k[w] <= 0
    <3>1. /\ pc[w] = "insert" /\ pc' = [pc EXCEPT ![w] = "commit"]
          /\ wakee' = wakee /\ back' = back /\ my_state' = my_state
      BY <1>23, <2>1 DEF Insert
    <3> QED BY <1>23, <2>1, <3>1
  <2>2. CASE ~(k[w] <= 0)
    <3>1. /\ pc[w] = "insert" /\ pc' = [pc EXCEPT ![w] = "cancel"]
          /\ wakee' = wakee /\ back' = back /\ my_state' = my_state
      BY <1>23, <2>2 DEF Insert
    <3> QED BY <1>23, <2>2, <3>1
  <2> QED BY <2>1, <2>2
<1>24. ASSUME NEW w \in Worker, CancelWait(w) PROVE Telling'
  <2>1. /\ pc[w] = "cancel" /\ pc' = [pc EXCEPT ![w] = "loop"]
        /\ wakee' = wakee /\ back' = back /\ my_state' = my_state
    BY <1>24 DEF CancelWait, Cancel
  <2> QED BY <1>24, <2>1
<1>25. ASSUME NEW w \in Worker, CommitWait(w) PROVE Telling'
  <2>1. /\ pc[w] = "commit"
        /\ pc' = [pc EXCEPT ![w] = IF notified[w] THEN "late" ELSE "sleep"]
        /\ wakee' = wakee /\ back' = back /\ my_state' = my_state
    BY <1>25 DEF CommitWait
  <2> QED BY <1>25, <2>1
<1>26. ASSUME NEW w \in Worker, Late(w) PROVE Telling'
  <2>1. /\ pc[w] = "late" /\ pc' = [pc EXCEPT ![w] = "woken"]
        /\ wakee' = wakee /\ back' = back /\ my_state' = my_state
    BY <1>26 DEF Late, Cancel
  <2> QED BY <1>26, <2>1
<1>27. ASSUME NEW w \in Worker, Sleep(w) PROVE Telling'
  <2>1. /\ pc[w] = "sleep" /\ sema[w] = 1 /\ pc' = [pc EXCEPT ![w] = "woken"]
        /\ wakee' = wakee /\ back' = back /\ my_state' = my_state
    BY <1>27 DEF Sleep
  <2> QED BY <1>27, <2>1
<1>28. ASSUME NEW w \in Worker, Woken(w) PROVE Telling'
  <2>1. CASE asleep = <<>>
    <3>1. /\ pc[w] = "woken" /\ pc' = [pc EXCEPT ![w] = "loop"]
          /\ wakee' = wakee /\ back' = back /\ my_state' = my_state
      BY <1>28, <2>1 DEF Woken, ChainReaction, WakeSome
    <3> QED BY <1>28, <2>1, <3>1
  <2>2. CASE ~(asleep = <<>>)
    <3>1. /\ pc[w] = "woken" /\ pc' = [pc EXCEPT ![w] = "wake_lock"]
          /\ back' = [back EXCEPT ![w] = "loop"]
          /\ wakee' = wakee /\ my_state' = my_state
      BY <1>28, <2>2 DEF Woken, ChainReaction, WakeSome
    <3> QED BY <1>28, <2>2, <3>1
  <2> QED BY <2>1, <2>2
<1>29. ASSUME NEW w \in Worker, Quit(w) PROVE Telling'
  <2>1. /\ pc[w] = "loop" /\ my_state[w] = "quit" /\ pc' = [pc EXCEPT ![w] = "quit"]
        /\ wakee' = wakee /\ back' = back /\ my_state' = my_state
    BY <1>29 DEF Quit
  <2> QED BY <1>29, <2>1
<1>30. ASSUME NEW w \in Worker, End(w) PROVE Telling'
  <2>1. /\ pc[w] = "quit" /\ pc' = [pc EXCEPT ![w] = "end"]
        /\ wakee' = wakee /\ back' = back /\ my_state' = my_state
    BY <1>30 DEF End, RemoveServerRef
  <2> QED BY <1>30, <2>1
<1> QED BY <1>1, <1>2, <1>3, <1>4, <1>5, <1>6, <1>7, <1>8, <1>9, <1>10, <1>11, <1>12,
   <1>13, <1>14, <1>15, <1>16, <1>17, <1>18, <1>19, <1>20, <1>21, <1>22, <1>23, <1>24,
   <1>25, <1>26, <1>27, <1>28, <1>29, <1>30, Next DEF Next, ShutDown, Waking, Run

\* Workers quit only when the server is being closed.
LEMMA QuittingStep ==
    ASSUME Assumptions, Types, Popped, Handles, AtHome, Alone, Telling, Returns, Quitting, AtHome', Next
    PROVE  Quitting'
<1> USE Threads, Types, AtHome, Alone, Telling, Returns, Quitting, AtHome', ClosingIs,
        ClosingNext DEF Actor, Types, PlaceTypes, ClosingPC, WakingPC, DemandTypes,
        StateTypes, Closing, AtHome, Alone, Telling, Returns, Quitting, Set, Goto, Jump,
        server, monitor, waking, demand, hist
<1>1. ASSUME NEW c \in Client, NEW delta \in 1..MaxDelta, Request(c, delta) PROVE Quitting'
  <2>1. /\ pc[c] = "idle"
        /\ ~Closing /\ asked[c] = 0 /\ SumFunction(asked) + delta <= Cardinality(Worker)
        /\ pc' = [pc EXCEPT ![c] = "wake_lock"] /\ my_state' = my_state
    BY <1>1 DEF Request, WakeSome
  <2> QED BY <1>1, <2>1
<1>2. ASSUME NEW c \in Client, Return(c) PROVE Quitting'
  <2>1. /\ pc[c] = "idle" /\ asked[c] > 0 /\ pc' = [pc EXCEPT ![c] = "idle"]
        /\ my_state' = my_state
    BY <1>2 DEF Return
  <2> QED BY <1>2, <2>1
<1>3. ASSUME NEW c \in Client, Close(c) PROVE Quitting'
  <2>1. /\ pc[c] = "idle"
        /\ \A d \in Client : pc[d] = "idle" /\ asked[d] = 0
        /\ pc' = [pc EXCEPT ![c] = "shutdown"] /\ my_state' = my_state
    BY <1>3 DEF Close
  <2> QED BY <1>3, <2>1
<1>4. ASSUME NEW c \in Client, NEW w \in Worker, StartShutdown(c, w) PROVE Quitting'
  <2>1. CASE my_state[w] = "init"
    <3>1. /\ pc[c] = "shutdown" /\ my_state[w] # "quit"
          /\ pc' = [pc EXCEPT ![c] = "shutdown"]
          /\ my_state' = [my_state EXCEPT ![w] = "quit"]
      BY <1>4, <2>1 DEF StartShutdown, RemoveServerRef
    <3> QED BY <3>1
  <2>2. CASE ~(my_state[w] = "init")
    <3>1. /\ pc[c] = "shutdown" /\ my_state[w] # "quit"
          /\ pc' = [pc EXCEPT ![c] = "notify"]
          /\ my_state' = [my_state EXCEPT ![w] = "quit"]
      BY <1>4, <2>2 DEF StartShutdown, RemoveServerRef
    <3> QED BY <3>1
  <2> QED BY <2>1, <2>2
<1>5. ASSUME NEW c \in Client, NotifyQuit(c) PROVE Quitting'
  <2>1. /\ pc[c] = "notify" /\ pc' = [pc EXCEPT ![c] = "signal_quit"]
        /\ my_state' = my_state
    BY <1>5, QuitNotified
  <2> QED BY <1>5, <2>1, QuitNotified
<1>6. ASSUME NEW c \in Client, SignalQuit(c) PROVE Quitting'
  <2>1. CASE back[c] = "normal"
    <3>1. /\ pc[c] = "signal_quit" /\ pc' = [pc EXCEPT ![c] = "release_handle"]
          /\ my_state' = my_state
      BY <1>6, <2>1 DEF SignalQuit
    <3> QED BY <1>6, <2>1, <3>1, NotifiedLate DEF SignalQuit
  <2>2. CASE ~(back[c] = "normal")
    <3>1. /\ pc[c] = "signal_quit" /\ pc' = [pc EXCEPT ![c] = "shutdown"]
          /\ my_state' = my_state
      BY <1>6, <2>2 DEF SignalQuit
    <3> QED BY <1>6, <2>2, <3>1, NotifiedLate DEF SignalQuit
  <2> QED BY <2>1, <2>2
<1>7. ASSUME NEW c \in Client, ReleaseHandle(c) PROVE Quitting'
  <2>1. /\ pc[c] = "release_handle" /\ pc' = [pc EXCEPT ![c] = "shutdown"]
        /\ my_state' = my_state
    BY <1>7 DEF ReleaseHandle
  <2> QED BY <1>7, <2>1
<1>8. ASSUME NEW c \in Client, Closed(c) PROVE Quitting'
  <2>1. /\ pc[c] = "shutdown"
        /\ \A w \in Worker : my_state[w] = "quit"
        /\ pc' = [pc EXCEPT ![c] = "closed"] /\ my_state' = my_state
    BY <1>8 DEF Closed, RemoveServerRef
  <2> QED BY <1>8, <2>1
<1>9. ASSUME NEW a \in Actor, WakeLock(a) PROVE Quitting'
  <2>1. /\ pc[a] = "wake_lock" /\ mutex = NULL /\ pc' = [pc EXCEPT ![a] = "wake_loop"]
        /\ my_state' = my_state
    BY <1>9 DEF WakeLock
  <2> QED BY <1>9, <2>1
<1>10. ASSUME NEW a \in Actor, PopForDemand(a) PROVE Quitting'
  <2>1. /\ pc[a] = "wake_loop"
        /\ additional[a] > 0 /\ additional[a] + my_slack > 0 /\ asleep # <<>>
        /\ pc' = [pc EXCEPT ![a] = "wake_loop"] /\ my_state' = my_state
    BY <1>10 DEF PopForDemand, CanPop, Pop
  <2> QED BY <1>10, <2>1
<1>11. ASSUME NEW a \in Actor, PopForSlack(a) PROVE Quitting'
  <2>1. /\ pc[a] = "wake_loop" /\ additional[a] = 0 /\ my_slack > 0 /\ asleep # <<>>
        /\ pc' = [pc EXCEPT ![a] = "wake_loop"] /\ my_state' = my_state
    BY <1>11 DEF PopForSlack, CanPop, Pop
  <2> QED BY <1>11, <2>1
<1>12. ASSUME NEW a \in Actor, WakeUnlock(a) PROVE Quitting'
  <2>1. /\ pc[a] = "wake_loop" /\ pc' = [pc EXCEPT ![a] = "wake_each"]
        /\ my_state' = my_state
    BY <1>12 DEF WakeUnlock, CanPop
  <2> QED BY <1>12, <2>1
<1>13. ASSUME NEW a \in Actor, WakeEach(a) PROVE Quitting'
  <2>1. CASE my_state[Wakee(a)] = "init"
    <3>1. /\ pc[a] = "wake_each" /\ wakee[a] # <<>>
          /\ pc' = [pc EXCEPT ![a] = "launch"]
          /\ my_state' = [my_state EXCEPT ![Wakee(a)] = "starting"]
      BY <1>13, <2>1 DEF WakeEach
    <3>2. \A v \in Worker : (my_state'[v] = "quit") = (my_state[v] = "quit")
      BY <2>1, <3>1
    <3>3. Closing => Closing'
      BY <3>1
    <3>4. \A v \in Worker : pc'[v] \in {"quit", "end"} => pc[v] \in {"quit", "end"}
      BY <3>1
    <3> QED BY <3>2, <3>3, <3>4
  <2>2. CASE ~(my_state[Wakee(a)] = "init")
    <3>1. /\ pc[a] = "wake_each" /\ wakee[a] # <<>>
          /\ pc' = [pc EXCEPT ![a] = "signal"] /\ my_state' = my_state
      BY <1>13, <2>2, SleeperNotified
    <3>2. \A b \in Actor : pc'[b] \in ClosingPC \cup {"quit", "end"} <=> pc[b] \in ClosingPC \cup {"quit", "end"}
      BY <3>1
    <3> QED BY <3>1, <3>2
  <2> QED BY <2>1, <2>2
<1>14. ASSUME NEW a \in Actor, SignalWakee(a) PROVE Quitting'
  <2>1. /\ pc[a] = "signal" /\ pc' = [pc EXCEPT ![a] = "wake_each"]
        /\ my_state' = my_state
    BY <1>14 DEF SignalWakee, Waked
  <2> QED BY <1>14, <2>1, NotifiedLate DEF SignalWakee
<1>15. ASSUME NEW a \in Actor, Launch(a) PROVE Quitting'
  <2>1. /\ pc' = [pc EXCEPT ![a] = "launched", ![Wakee(a)] = "run"] /\ pc[a] = "launch"
        /\ my_state' = my_state
    BY <1>15 DEF Launch
  <2>2. Wakee(a) \in Worker /\ pc[Wakee(a)] = "none" /\ Wakee(a) # a
    BY <1>15, NotYet
  <2>3. \A b \in Actor : /\ pc'[b] \in ClosingPC <=> pc[b] \in ClosingPC
                         /\ pc'[b] \in {"quit", "end"} <=> pc[b] \in {"quit", "end"}
    BY <2>1, <2>2
  <2>4. Closing => Closing'
    BY <2>3
  <2>5. my_state' = my_state
    BY <2>1
  <2> QED BY <2>3, <2>4, <2>5
<1>16. ASSUME NEW a \in Actor, Launched(a) PROVE Quitting'
  <2>1. CASE my_state[Wakee(a)] = "starting"
    <3>1. /\ pc[a] = "launched" /\ pc' = [pc EXCEPT ![a] = "wake_each"]
          /\ my_state' = [my_state EXCEPT ![Wakee(a)] = "normal"]
      BY <1>16, <2>1 DEF Launched, Waked
    <3> QED BY <1>16, <2>1, <3>1
  <2>2. CASE ~(my_state[Wakee(a)] = "starting")
    <3>1. /\ pc[a] = "launched" /\ pc' = [pc EXCEPT ![a] = "wake_each"]
          /\ my_state' = my_state
      BY <1>16, <2>2 DEF Launched, Waked
    <3> QED BY <1>16, <2>2, <3>1
  <2> QED BY <2>1, <2>2
<1>17. ASSUME NEW a \in Actor, WakeDone(a) PROVE Quitting'
  <2>1. /\ pc[a] = "wake_each" /\ wakee[a] = <<>> /\ pc' = [pc EXCEPT ![a] = back[a]]
        /\ my_state' = my_state
    BY <1>17 DEF WakeDone
  <2> QED BY <1>17, <2>1
<1>18. ASSUME NEW w \in Worker, Start(w) PROVE Quitting'
  <2>1. CASE asleep = <<>>
    <3>1. /\ pc[w] = "run" /\ pc' = [pc EXCEPT ![w] = "loop"] /\ my_state' = my_state
      BY <1>18, <2>1 DEF Start, ChainReaction, WakeSome
    <3> QED BY <1>18, <2>1, <3>1
  <2>2. CASE ~(asleep = <<>>)
    <3>1. /\ pc[w] = "run" /\ pc' = [pc EXCEPT ![w] = "wake_lock"]
          /\ my_state' = my_state
      BY <1>18, <2>2 DEF Start, ChainReaction, WakeSome
    <3> QED BY <1>18, <2>2, <3>1
  <2> QED BY <2>1, <2>2
<1>19. ASSUME NEW w \in Worker, Idle(w) PROVE Quitting'
  <2>1. /\ pc[w] = "loop" /\ my_slack < 0 /\ my_state[w] # "quit"
        /\ pc' = [pc EXCEPT ![w] = "prepare"] /\ my_state' = my_state
    BY <1>19 DEF Idle
  <2> QED BY <1>19, <2>1
<1>20. ASSUME NEW w \in Worker, PrepareWait(w) PROVE Quitting'
  <2>1. /\ pc[w] = "prepare"
        /\ spurious[w] => sema[w] = 1
        /\ pc' = [pc EXCEPT ![w] = "check"] /\ my_state' = my_state
    BY <1>20 DEF PrepareWait
  <2> QED BY <1>20, <2>1
<1>21. ASSUME NEW w \in Worker, Check(w) PROVE Quitting'
  <2>1. /\ pc[w] = "check"
        /\ pc' = [pc EXCEPT ![w] = IF my_state[w] = "quit" THEN "cancel" ELSE "try_insert"]
        /\ my_state' = my_state
    BY <1>21 DEF Check
  <2> QED BY <1>21, <2>1
<1>22. ASSUME NEW w \in Worker, TryInsert(w) PROVE Quitting'
  <2>1. CASE mutex = NULL
    <3>1. /\ pc[w] = "try_insert" /\ pc' = [pc EXCEPT ![w] = "insert"]
          /\ my_state' = my_state
      BY <1>22, <2>1 DEF TryInsert
    <3> QED BY <1>22, <2>1, <3>1
  <2>2. CASE ~(mutex = NULL)
    <3>1. /\ pc[w] = "try_insert" /\ pc' = [pc EXCEPT ![w] = "cancel"]
          /\ my_state' = my_state
      BY <1>22, <2>2 DEF TryInsert
    <3> QED BY <1>22, <2>2, <3>1
  <2> QED BY <2>1, <2>2
<1>23. ASSUME NEW w \in Worker, Insert(w) PROVE Quitting'
  <2>1. CASE k[w] <= 0
    <3>1. /\ pc[w] = "insert" /\ pc' = [pc EXCEPT ![w] = "commit"]
          /\ my_state' = my_state
      BY <1>23, <2>1 DEF Insert
    <3> QED BY <1>23, <2>1, <3>1
  <2>2. CASE ~(k[w] <= 0)
    <3>1. /\ pc[w] = "insert" /\ pc' = [pc EXCEPT ![w] = "cancel"]
          /\ my_state' = my_state
      BY <1>23, <2>2 DEF Insert
    <3> QED BY <1>23, <2>2, <3>1
  <2> QED BY <2>1, <2>2
<1>24. ASSUME NEW w \in Worker, CancelWait(w) PROVE Quitting'
  <2>1. /\ pc[w] = "cancel" /\ pc' = [pc EXCEPT ![w] = "loop"] /\ my_state' = my_state
    BY <1>24 DEF CancelWait, Cancel
  <2> QED BY <1>24, <2>1
<1>25. ASSUME NEW w \in Worker, CommitWait(w) PROVE Quitting'
  <2>1. /\ pc[w] = "commit"
        /\ pc' = [pc EXCEPT ![w] = IF notified[w] THEN "late" ELSE "sleep"]
        /\ my_state' = my_state
    BY <1>25 DEF CommitWait
  <2> QED BY <1>25, <2>1
<1>26. ASSUME NEW w \in Worker, Late(w) PROVE Quitting'
  <2>1. /\ pc[w] = "late" /\ pc' = [pc EXCEPT ![w] = "woken"] /\ my_state' = my_state
    BY <1>26 DEF Late, Cancel
  <2> QED BY <1>26, <2>1
<1>27. ASSUME NEW w \in Worker, Sleep(w) PROVE Quitting'
  <2>1. /\ pc[w] = "sleep" /\ sema[w] = 1 /\ pc' = [pc EXCEPT ![w] = "woken"]
        /\ my_state' = my_state
    BY <1>27 DEF Sleep
  <2> QED BY <1>27, <2>1
<1>28. ASSUME NEW w \in Worker, Woken(w) PROVE Quitting'
  <2>1. CASE asleep = <<>>
    <3>1. /\ pc[w] = "woken" /\ pc' = [pc EXCEPT ![w] = "loop"] /\ my_state' = my_state
      BY <1>28, <2>1 DEF Woken, ChainReaction, WakeSome
    <3> QED BY <1>28, <2>1, <3>1
  <2>2. CASE ~(asleep = <<>>)
    <3>1. /\ pc[w] = "woken" /\ pc' = [pc EXCEPT ![w] = "wake_lock"]
          /\ my_state' = my_state
      BY <1>28, <2>2 DEF Woken, ChainReaction, WakeSome
    <3> QED BY <1>28, <2>2, <3>1
  <2> QED BY <2>1, <2>2
<1>29. ASSUME NEW w \in Worker, Quit(w) PROVE Quitting'
  <2>1. /\ pc[w] = "loop" /\ my_state[w] = "quit" /\ pc' = [pc EXCEPT ![w] = "quit"]
        /\ my_state' = my_state
    BY <1>29 DEF Quit
  <2> QED BY <1>29, <2>1
<1>30. ASSUME NEW w \in Worker, End(w) PROVE Quitting'
  <2>1. /\ pc[w] = "quit" /\ pc' = [pc EXCEPT ![w] = "end"] /\ my_state' = my_state
    BY <1>30 DEF End, RemoveServerRef
  <2> QED BY <1>30, <2>1
<1> QED BY <1>1, <1>2, <1>3, <1>4, <1>5, <1>6, <1>7, <1>8, <1>9, <1>10, <1>11, <1>12,
   <1>13, <1>14, <1>15, <1>16, <1>17, <1>18, <1>19, <1>20, <1>21, <1>22, <1>23, <1>24,
   <1>25, <1>26, <1>27, <1>28, <1>29, <1>30, Next DEF Next, ShutDown, Waking, Run

(* The slack balances. *)

\* What the balance adds up are numbers.
LEMMA Numbers ==
    ASSUME Assumptions, Types
    PROVE  /\ SumFunction(additional) \in Nat /\ SumFunction(asked) \in Nat
           /\ Len(asleep) \in Nat /\ my_slack \in Int /\ Cardinality(Worker) \in Nat
           /\ IsFiniteSet(Inserting) /\ Cardinality(Inserting) \in Nat
           /\ IsFiniteSet(Left) /\ Cardinality(Left) \in Nat
<1>1. IsFiniteSet(Actor) /\ IsFiniteSet(Client) /\ IsFiniteSet(Worker)
  BY Threads
<1>2. SumFunction(additional) \in Nat
  BY <1>1, SumBound DEF Types, DemandTypes
<1>3. SumFunction(asked) \in Nat
  BY <1>1, SumBound DEF Types, DemandTypes
<1>4. Inserting \in SUBSET Worker /\ Left \in SUBSET Worker
  BY DEF Inserting, Left
<1>5. /\ IsFiniteSet(Inserting) /\ Cardinality(Inserting) \in Nat
      /\ IsFiniteSet(Left) /\ Cardinality(Left) \in Nat
  BY <1>1, <1>4, FS_Subset, FS_CardinalityType
<1>6. Len(asleep) \in Nat /\ my_slack \in Int
  BY DEF Types, ServerTypes
<1> QED BY <1>2, <1>3, <1>5, <1>6, Threads

\* The balance, in numbers that the provers can calculate with.
LEMMA BalanceIs ==
    ASSUME Assumptions, Types, Balance
    PROVE  \E s \in Int, x \in Nat, q \in Nat, l \in Nat, i \in Nat, f \in Nat, n \in Nat :
             /\ s = my_slack /\ x = SumFunction(additional) /\ q = SumFunction(asked)
             /\ l = Len(asleep) /\ i = Cardinality(Inserting) /\ f = Cardinality(Left)
             /\ n = Cardinality(Worker)
             /\ s + x + n = q + l + i + f /\ q <= n
<1>1. \E s \in Int, x \in Nat, q \in Nat, l \in Nat, i \in Nat, f \in Nat, n \in Nat :
         /\ s = my_slack /\ x = SumFunction(additional) /\ q = SumFunction(asked)
         /\ l = Len(asleep) /\ i = Cardinality(Inserting) /\ f = Cardinality(Left)
         /\ n = Cardinality(Worker)
  BY Numbers
<1>2. PICK s \in Int, x \in Nat, q \in Nat, l \in Nat, i \in Nat, f \in Nat, n \in Nat :
         /\ s = my_slack /\ x = SumFunction(additional) /\ q = SumFunction(asked)
         /\ l = Len(asleep) /\ i = Cardinality(Inserting) /\ f = Cardinality(Left)
         /\ n = Cardinality(Worker)
  BY <1>1
<1>3. s + x + n = q + l + i + f /\ q <= n
  BY <1>2, Zenon DEF Balance
<1> QED BY <1>2, <1>3

\* The sum of what is in hand after a change of one term.
LEMMA InHandSum ==
    ASSUME Assumptions, Types, NEW a \in Actor, NEW n \in Nat, additional' = [additional EXCEPT ![a] = n]
    PROVE  SumFunction(additional') = SumFunction(additional) + n - additional[a]
<1> DEFINE f == additional
           g == [additional EXCEPT ![a] = n]
<1>1. /\ DOMAIN f = Actor /\ DOMAIN g = Actor /\ g[a] = n
      /\ \A y \in Actor : f[y] \in Int /\ g[y] \in Int
      /\ \A y \in Actor \ {a} : f[y] = g[y]
  BY DEF Types, DemandTypes
<1> HIDE DEF f, g
<1>2. SumFunction(g) = SumFunction(f) + g[a] - f[a]
  BY <1>1, Threads, SumChange
<1>3. g[a] = n /\ f[a] = additional[a]
  BY <1>1 DEF f
<1> QED BY <1>2, <1>3 DEF f, g

\* The sum of what is asked for after a change of one term.
LEMMA AskedSum ==
    ASSUME Assumptions, Types, NEW c \in Client, NEW n \in Nat, asked' = [asked EXCEPT ![c] = n]
    PROVE  SumFunction(asked') = SumFunction(asked) + n - asked[c]
<1> DEFINE f == asked
           g == [asked EXCEPT ![c] = n]
<1>1. /\ DOMAIN f = Client /\ DOMAIN g = Client /\ g[c] = n
      /\ \A y \in Client : f[y] \in Int /\ g[y] \in Int
      /\ \A y \in Client \ {c} : f[y] = g[y]
  BY DEF Types, DemandTypes
<1> HIDE DEF f, g
<1>2. SumFunction(g) = SumFunction(f) + g[c] - f[c]
  BY <1>1, Threads, SumChange
<1>3. g[c] = n /\ f[c] = asked[c]
  BY <1>1 DEF f
<1> QED BY <1>2, <1>3 DEF f, g

\* Nobody comes to the list or leaves.
LEMMA Same ==
    ASSUME \A w \in Worker : (pc'[w] = "insert" <=> pc[w] = "insert")
                             /\ (pc'[w] \in {"quit", "end"} <=> pc[w] \in {"quit", "end"})
    PROVE  Inserting' = Inserting /\ Left' = Left
  BY DEF Inserting, Left

\* No unit of slack is lost or made up.
LEMMA BalanceStep ==
    ASSUME Assumptions, Types, Popped, Handles, InHand, Returns, Balance, Next
    PROVE  Balance'
<1> USE DEF Set, Goto, Jump, server, monitor, waking, demand, hist
<1>1. ASSUME NEW c \in Client, NEW delta \in 1..MaxDelta, Request(c, delta) PROVE Balance'
  <2>1. /\ pc[c] = "idle"
        /\ ~Closing /\ asked[c] = 0 /\ SumFunction(asked) + delta <= Cardinality(Worker)
        /\ additional' = [additional EXCEPT ![c] = delta]
        /\ asked' = [asked EXCEPT ![c] = delta] /\ pc' = [pc EXCEPT ![c] = "wake_lock"]
        /\ my_slack' = my_slack /\ asleep' = asleep
    BY <1>1 DEF Request, WakeSome
  <2>2. Inserting' = Inserting /\ Left' = Left
    <3>1. \A v \in Worker : pc'[v] = IF v = c THEN "wake_lock" ELSE pc[v]
      BY <2>1, Types, Threads DEF Types, PlaceTypes, Actor
    <3> QED BY <3>1, <2>1 DEF Inserting, Left
  <2>3. /\ Cardinality(Inserting') = Cardinality(Inserting)
        /\ Cardinality(Left') = Cardinality(Left)
    BY <2>2, Numbers, FS_AddElement, FS_RemoveElement
  <2>4. /\ additional[c] = 0 /\ asked[c] = 0 /\ delta \in Nat /\ c \in Actor
        /\ SumFunction(asked) + delta <= Cardinality(Worker)
    BY <2>1, InHand, Threads DEF InHand
  <2>5. SumFunction(additional') = SumFunction(additional) + delta - additional[c]
    BY <2>1, <2>4, InHandSum
  <2>6. SumFunction(asked') = SumFunction(asked) + delta - asked[c]
    BY <2>1, <2>4, AskedSum
  <2>7. PICK s \in Int, x \in Nat, q \in Nat, l \in Nat, i \in Nat, f \in Nat, n \in Nat :
           /\ s = my_slack /\ x = SumFunction(additional) /\ q = SumFunction(asked)
           /\ l = Len(asleep) /\ i = Cardinality(Inserting) /\ f = Cardinality(Left)
           /\ n = Cardinality(Worker) /\ s + x + n = q + l + i + f /\ q <= n
    BY BalanceIs
  <2>8. /\ my_slack' = s /\ SumFunction(additional') = x + delta
        /\ SumFunction(asked') = q + delta /\ Len(asleep') = l
        /\ Cardinality(Inserting') = i /\ Cardinality(Left') = f
    BY <2>1, <2>3, <2>7, <2>4, <2>5, <2>6
  <2>9. s + x + n = q + l + i + f /\ q + delta <= n /\ delta \in Int
    BY <2>7, <2>4, <2>5, <2>6
  <2>10. s + (x + delta) + n = (q + delta) + l + i + f /\ q + delta <= n
    BY <2>9
  <2>11. my_slack' + SumFunction(additional') + Cardinality(Worker)
           = SumFunction(asked') + Len(asleep') + Cardinality(Inserting') + Cardinality(Left')
    BY <2>7, <2>8, <2>10
  <2> QED BY <2>7, <2>8, <2>10, <2>11 DEF Balance
<1>2. ASSUME NEW c \in Client, Return(c) PROVE Balance'
  <2>1. /\ pc[c] = "idle" /\ asked[c] > 0 /\ my_slack' = my_slack - asked[c]
        /\ asked' = [asked EXCEPT ![c] = 0] /\ pc' = [pc EXCEPT ![c] = "idle"]
        /\ additional' = additional /\ asleep' = asleep
    BY <1>2 DEF Return
  <2>2. Inserting' = Inserting /\ Left' = Left
    <3>1. \A v \in Worker : pc'[v] = IF v = c THEN "idle" ELSE pc[v]
      BY <2>1, Types, Threads DEF Types, PlaceTypes, Actor
    <3> QED BY <3>1, <2>1 DEF Inserting, Left
  <2>3. /\ Cardinality(Inserting') = Cardinality(Inserting)
        /\ Cardinality(Left') = Cardinality(Left)
    BY <2>2, Numbers, FS_AddElement, FS_RemoveElement
  <2>4. SumFunction(asked') = SumFunction(asked) + 0 - asked[c] /\ asked[c] \in Nat
    BY <2>1, Types, AskedSum DEF Types, DemandTypes
  <2>5. PICK s \in Int, x \in Nat, q \in Nat, l \in Nat, i \in Nat, f \in Nat, n \in Nat :
           /\ s = my_slack /\ x = SumFunction(additional) /\ q = SumFunction(asked)
           /\ l = Len(asleep) /\ i = Cardinality(Inserting) /\ f = Cardinality(Left)
           /\ n = Cardinality(Worker) /\ s + x + n = q + l + i + f /\ q <= n
    BY BalanceIs
  <2>6. PICK d \in Nat : d = asked[c]
    BY <2>4
  <2>7. SumFunction(asked') = q + 0 - d
    BY <2>5, <2>6, <2>4
  <2>8. SumFunction(asked') = q - d
    BY <2>7
  <2>9. /\ my_slack' = s - d /\ SumFunction(additional') = x
        /\ SumFunction(asked') = q - d /\ Len(asleep') = l
        /\ Cardinality(Inserting') = i /\ Cardinality(Left') = f
    BY <2>1, <2>3, <2>5, <2>6, <2>8
  <2>10. s + x + n = q + l + i + f /\ q <= n
    BY <2>5, <2>6
  <2>11. (s - d) + x + n = (q - d) + l + i + f /\ q - d <= n
    BY <2>10
  <2>12. my_slack' + SumFunction(additional') + Cardinality(Worker)
           = SumFunction(asked') + Len(asleep') + Cardinality(Inserting') + Cardinality(Left')
    BY <2>5, <2>6, <2>9, <2>11
  <2> QED BY <2>5, <2>6, <2>9, <2>11, <2>12 DEF Balance
<1>3. ASSUME NEW c \in Client, Close(c) PROVE Balance'
  <2>1. /\ pc[c] = "idle"
        /\ \A d \in Client : pc[d] = "idle" /\ asked[d] = 0
        /\ pc' = [pc EXCEPT ![c] = "shutdown"]
        /\ my_slack' = my_slack /\ additional' = additional /\ asked' = asked /\ asleep' = asleep
    BY <1>3 DEF Close
  <2>2. /\ \A v \in Worker : pc'[v] = "insert" <=> pc[v] = "insert"
        /\ \A v \in Worker : pc'[v] \in {"quit", "end"} <=> pc[v] \in {"quit", "end"}
    BY <2>1, Types, Threads DEF Types, PlaceTypes, Actor
  <2> QED BY <2>1, <2>2, Same, Balance DEF Balance
<1>4. ASSUME NEW c \in Client, NEW w \in Worker, StartShutdown(c, w) PROVE Balance'
  <2>1. CASE my_state[w] = "init"
    <3>1. /\ pc[c] = "shutdown" /\ my_state[w] # "quit"
          /\ pc' = [pc EXCEPT ![c] = "shutdown"]
          /\ my_slack' = my_slack /\ additional' = additional /\ asked' = asked /\ asleep' = asleep
      BY <1>4, <2>1 DEF StartShutdown, RemoveServerRef
    <3>2. /\ \A v \in Worker : pc'[v] = "insert" <=> pc[v] = "insert"
          /\ \A v \in Worker : pc'[v] \in {"quit", "end"} <=> pc[v] \in {"quit", "end"}
      BY <3>1, Types, Threads DEF Types, PlaceTypes, Actor
    <3> QED BY <3>1, <3>2, Same, Balance DEF Balance
  <2>2. CASE ~(my_state[w] = "init")
    <3>1. /\ pc[c] = "shutdown" /\ my_state[w] # "quit"
          /\ pc' = [pc EXCEPT ![c] = "notify"]
          /\ my_slack' = my_slack /\ additional' = additional /\ asked' = asked /\ asleep' = asleep
      BY <1>4, <2>2 DEF StartShutdown, RemoveServerRef
    <3>2. /\ \A v \in Worker : pc'[v] = "insert" <=> pc[v] = "insert"
          /\ \A v \in Worker : pc'[v] \in {"quit", "end"} <=> pc[v] \in {"quit", "end"}
      BY <3>1, Types, Threads DEF Types, PlaceTypes, Actor
    <3> QED BY <3>1, <3>2, Same, Balance DEF Balance
  <2> QED BY <2>1, <2>2
<1>5. ASSUME NEW c \in Client, NotifyQuit(c) PROVE Balance'
  <2>1. /\ pc[c] = "notify" /\ pc' = [pc EXCEPT ![c] = "signal_quit"]
        /\ my_slack' = my_slack /\ additional' = additional /\ asked' = asked /\ asleep' = asleep
    BY <1>5, QuitNotified
  <2>2. /\ \A v \in Worker : pc'[v] = "insert" <=> pc[v] = "insert"
        /\ \A v \in Worker : pc'[v] \in {"quit", "end"} <=> pc[v] \in {"quit", "end"}
    BY <2>1, Types, Threads DEF Types, PlaceTypes, Actor
  <2> QED BY <2>1, <2>2, Same, Balance DEF Balance
<1>6. ASSUME NEW c \in Client, SignalQuit(c) PROVE Balance'
  <2>1. CASE back[c] = "normal"
    <3>1. /\ pc[c] = "signal_quit" /\ pc' = [pc EXCEPT ![c] = "release_handle"]
          /\ my_slack' = my_slack /\ additional' = additional /\ asked' = asked /\ asleep' = asleep
      BY <1>6, <2>1 DEF SignalQuit
    <3>2. /\ \A v \in Worker : pc'[v] = "insert" <=> pc[v] = "insert"
          /\ \A v \in Worker : pc'[v] \in {"quit", "end"} <=> pc[v] \in {"quit", "end"}
      BY <3>1, Types, Threads DEF Types, PlaceTypes, Actor
    <3> QED BY <3>1, <3>2, Same, Balance DEF Balance
  <2>2. CASE ~(back[c] = "normal")
    <3>1. /\ pc[c] = "signal_quit" /\ pc' = [pc EXCEPT ![c] = "shutdown"]
          /\ my_slack' = my_slack /\ additional' = additional /\ asked' = asked /\ asleep' = asleep
      BY <1>6, <2>2 DEF SignalQuit
    <3>2. /\ \A v \in Worker : pc'[v] = "insert" <=> pc[v] = "insert"
          /\ \A v \in Worker : pc'[v] \in {"quit", "end"} <=> pc[v] \in {"quit", "end"}
      BY <3>1, Types, Threads DEF Types, PlaceTypes, Actor
    <3> QED BY <3>1, <3>2, Same, Balance DEF Balance
  <2> QED BY <2>1, <2>2
<1>7. ASSUME NEW c \in Client, ReleaseHandle(c) PROVE Balance'
  <2>1. /\ pc[c] = "release_handle" /\ pc' = [pc EXCEPT ![c] = "shutdown"]
        /\ my_slack' = my_slack /\ additional' = additional /\ asked' = asked /\ asleep' = asleep
    BY <1>7 DEF ReleaseHandle
  <2>2. /\ \A v \in Worker : pc'[v] = "insert" <=> pc[v] = "insert"
        /\ \A v \in Worker : pc'[v] \in {"quit", "end"} <=> pc[v] \in {"quit", "end"}
    BY <2>1, Types, Threads DEF Types, PlaceTypes, Actor
  <2> QED BY <2>1, <2>2, Same, Balance DEF Balance
<1>8. ASSUME NEW c \in Client, Closed(c) PROVE Balance'
  <2>1. /\ pc[c] = "shutdown"
        /\ \A w \in Worker : my_state[w] = "quit"
        /\ pc' = [pc EXCEPT ![c] = "closed"]
        /\ my_slack' = my_slack /\ additional' = additional /\ asked' = asked /\ asleep' = asleep
    BY <1>8 DEF Closed, RemoveServerRef
  <2>2. /\ \A v \in Worker : pc'[v] = "insert" <=> pc[v] = "insert"
        /\ \A v \in Worker : pc'[v] \in {"quit", "end"} <=> pc[v] \in {"quit", "end"}
    BY <2>1, Types, Threads DEF Types, PlaceTypes, Actor
  <2> QED BY <2>1, <2>2, Same, Balance DEF Balance
<1>9. ASSUME NEW a \in Actor, WakeLock(a) PROVE Balance'
  <2>1. /\ pc[a] = "wake_lock" /\ mutex = NULL /\ pc' = [pc EXCEPT ![a] = "wake_loop"]
        /\ my_slack' = my_slack /\ additional' = additional /\ asked' = asked /\ asleep' = asleep
    BY <1>9 DEF WakeLock
  <2>2. /\ \A v \in Worker : pc'[v] = "insert" <=> pc[v] = "insert"
        /\ \A v \in Worker : pc'[v] \in {"quit", "end"} <=> pc[v] \in {"quit", "end"}
    BY <2>1, Types, Threads DEF Types, PlaceTypes, Actor
  <2> QED BY <2>1, <2>2, Same, Balance DEF Balance
<1>10. ASSUME NEW a \in Actor, PopForDemand(a) PROVE Balance'
  <2>1. /\ pc[a] = "wake_loop"
        /\ additional[a] > 0 /\ additional[a] + my_slack > 0 /\ asleep # <<>>
        /\ additional' = [additional EXCEPT ![a] = additional[a] - 1]
        /\ asleep' = Tail(asleep) /\ pc' = [pc EXCEPT ![a] = "wake_loop"]
        /\ my_slack' = my_slack /\ asked' = asked
    BY <1>10 DEF PopForDemand, CanPop, Pop
  <2>2. Inserting' = Inserting /\ Left' = Left
    <3>1. \A v \in Worker : pc'[v] = IF v = a THEN "wake_loop" ELSE pc[v]
      BY <2>1, Types, Threads DEF Types, PlaceTypes, Actor
    <3> QED BY <3>1, <2>1 DEF Inserting, Left
  <2>3. /\ Cardinality(Inserting') = Cardinality(Inserting)
        /\ Cardinality(Left') = Cardinality(Left)
    BY <2>2, Numbers, FS_AddElement, FS_RemoveElement
  <2>4. Len(asleep') = Len(asleep) - 1
    BY <2>1, Taken, Types DEF Types, ServerTypes
  <2>5. additional[a] \in Nat /\ additional[a] - 1 \in Nat
    BY <2>1, Types DEF Types, DemandTypes
  <2>6. SumFunction(additional') = SumFunction(additional) + (additional[a] - 1) - additional[a]
    BY <2>1, <2>5, InHandSum
  <2>7. PICK s \in Int, x \in Nat, q \in Nat, l \in Nat, i \in Nat, f \in Nat, n \in Nat :
           /\ s = my_slack /\ x = SumFunction(additional) /\ q = SumFunction(asked)
           /\ l = Len(asleep) /\ i = Cardinality(Inserting) /\ f = Cardinality(Left)
           /\ n = Cardinality(Worker) /\ s + x + n = q + l + i + f /\ q <= n
    BY BalanceIs
  <2>8. PICK d \in Nat : d = additional[a]
    BY <2>4, <2>5, <2>6
  <2>9. SumFunction(additional') = x + (d - 1) - d
    BY <2>7, <2>8, <2>4, <2>5, <2>6
  <2>10. SumFunction(additional') = x - 1
    BY <2>9
  <2>11. /\ my_slack' = s /\ SumFunction(additional') = x - 1
         /\ SumFunction(asked') = q /\ Len(asleep') = l - 1
         /\ Cardinality(Inserting') = i /\ Cardinality(Left') = f
    BY <2>1, <2>3, <2>7, <2>8, <2>10, <2>4
  <2>12. s + x + n = q + l + i + f /\ q <= n
    BY <2>7, <2>8
  <2>13. s + (x - 1) + n = q + (l - 1) + i + f /\ q <= n
    BY <2>12
  <2>14. my_slack' + SumFunction(additional') + Cardinality(Worker)
            = SumFunction(asked') + Len(asleep') + Cardinality(Inserting') + Cardinality(Left')
    BY <2>7, <2>8, <2>11, <2>13
  <2> QED BY <2>7, <2>8, <2>11, <2>13, <2>14 DEF Balance
<1>11. ASSUME NEW a \in Actor, PopForSlack(a) PROVE Balance'
  <2>1. /\ pc[a] = "wake_loop" /\ additional[a] = 0 /\ my_slack > 0 /\ asleep # <<>>
        /\ my_slack' = my_slack - 1 /\ asleep' = Tail(asleep)
        /\ pc' = [pc EXCEPT ![a] = "wake_loop"]
        /\ additional' = additional /\ asked' = asked
    BY <1>11 DEF PopForSlack, CanPop, Pop
  <2>2. Inserting' = Inserting /\ Left' = Left
    <3>1. \A v \in Worker : pc'[v] = IF v = a THEN "wake_loop" ELSE pc[v]
      BY <2>1, Types, Threads DEF Types, PlaceTypes, Actor
    <3> QED BY <3>1, <2>1 DEF Inserting, Left
  <2>3. /\ Cardinality(Inserting') = Cardinality(Inserting)
        /\ Cardinality(Left') = Cardinality(Left)
    BY <2>2, Numbers, FS_AddElement, FS_RemoveElement
  <2>4. Len(asleep') = Len(asleep) - 1
    BY <2>1, Taken, Types DEF Types, ServerTypes
  <2>5. PICK s \in Int, x \in Nat, q \in Nat, l \in Nat, i \in Nat, f \in Nat, n \in Nat :
           /\ s = my_slack /\ x = SumFunction(additional) /\ q = SumFunction(asked)
           /\ l = Len(asleep) /\ i = Cardinality(Inserting) /\ f = Cardinality(Left)
           /\ n = Cardinality(Worker) /\ s + x + n = q + l + i + f /\ q <= n
    BY BalanceIs
  <2>6. /\ my_slack' = s - 1 /\ SumFunction(additional') = x
        /\ SumFunction(asked') = q /\ Len(asleep') = l - 1
        /\ Cardinality(Inserting') = i /\ Cardinality(Left') = f
    BY <2>1, <2>3, <2>5, <2>4
  <2>7. s + x + n = q + l + i + f /\ q <= n
    BY <2>5
  <2>8. (s - 1) + x + n = q + (l - 1) + i + f /\ q <= n
    BY <2>7
  <2>9. my_slack' + SumFunction(additional') + Cardinality(Worker)
           = SumFunction(asked') + Len(asleep') + Cardinality(Inserting') + Cardinality(Left')
    BY <2>5, <2>6, <2>8
  <2> QED BY <2>5, <2>6, <2>8, <2>9 DEF Balance
<1>12. ASSUME NEW a \in Actor, WakeUnlock(a) PROVE Balance'
  <2>1. /\ pc[a] = "wake_loop" /\ my_slack' = my_slack + additional[a]
        /\ additional' = [additional EXCEPT ![a] = 0]
        /\ pc' = [pc EXCEPT ![a] = "wake_each"] /\ asked' = asked /\ asleep' = asleep
    BY <1>12 DEF WakeUnlock, CanPop
  <2>2. Inserting' = Inserting /\ Left' = Left
    <3>1. \A v \in Worker : pc'[v] = IF v = a THEN "wake_each" ELSE pc[v]
      BY <2>1, Types, Threads DEF Types, PlaceTypes, Actor
    <3> QED BY <3>1, <2>1 DEF Inserting, Left
  <2>3. /\ Cardinality(Inserting') = Cardinality(Inserting)
        /\ Cardinality(Left') = Cardinality(Left)
    BY <2>2, Numbers, FS_AddElement, FS_RemoveElement
  <2>4. SumFunction(additional') = SumFunction(additional) + 0 - additional[a] /\ additional[a] \in Nat
    BY <2>1, Types, InHandSum DEF Types, DemandTypes
  <2>5. PICK s \in Int, x \in Nat, q \in Nat, l \in Nat, i \in Nat, f \in Nat, n \in Nat :
           /\ s = my_slack /\ x = SumFunction(additional) /\ q = SumFunction(asked)
           /\ l = Len(asleep) /\ i = Cardinality(Inserting) /\ f = Cardinality(Left)
           /\ n = Cardinality(Worker) /\ s + x + n = q + l + i + f /\ q <= n
    BY BalanceIs
  <2>6. PICK d \in Nat : d = additional[a]
    BY <2>4
  <2>7. SumFunction(additional') = x + 0 - d
    BY <2>5, <2>6, <2>4
  <2>8. SumFunction(additional') = x - d
    BY <2>7
  <2>9. /\ my_slack' = s + d /\ SumFunction(additional') = x - d
        /\ SumFunction(asked') = q /\ Len(asleep') = l
        /\ Cardinality(Inserting') = i /\ Cardinality(Left') = f
    BY <2>1, <2>3, <2>5, <2>6, <2>8
  <2>10. s + x + n = q + l + i + f /\ q <= n
    BY <2>5, <2>6
  <2>11. (s + d) + (x - d) + n = q + l + i + f /\ q <= n
    BY <2>10
  <2>12. my_slack' + SumFunction(additional') + Cardinality(Worker)
           = SumFunction(asked') + Len(asleep') + Cardinality(Inserting') + Cardinality(Left')
    BY <2>5, <2>6, <2>9, <2>11
  <2> QED BY <2>5, <2>6, <2>9, <2>11, <2>12 DEF Balance
<1>13. ASSUME NEW a \in Actor, WakeEach(a) PROVE Balance'
  <2>1. CASE my_state[Wakee(a)] = "init"
    <3>1. /\ pc[a] = "wake_each" /\ wakee[a] # <<>>
          /\ pc' = [pc EXCEPT ![a] = "launch"]
          /\ my_slack' = my_slack /\ additional' = additional /\ asked' = asked /\ asleep' = asleep
      BY <1>13, <2>1 DEF WakeEach
    <3>2. /\ \A v \in Worker : pc'[v] = "insert" <=> pc[v] = "insert"
          /\ \A v \in Worker : pc'[v] \in {"quit", "end"} <=> pc[v] \in {"quit", "end"}
      BY <3>1, Types, Threads DEF Types, PlaceTypes, Actor
    <3> QED BY <3>1, <3>2, Same, Balance DEF Balance
  <2>2. CASE ~(my_state[Wakee(a)] = "init")
    <3>1. /\ pc[a] = "wake_each" /\ wakee[a] # <<>>
          /\ pc' = [pc EXCEPT ![a] = "signal"]
          /\ my_slack' = my_slack /\ additional' = additional /\ asked' = asked /\ asleep' = asleep
      BY <1>13, <2>2, SleeperNotified
    <3>2. /\ \A v \in Worker : pc'[v] = "insert" <=> pc[v] = "insert"
          /\ \A v \in Worker : pc'[v] \in {"quit", "end"} <=> pc[v] \in {"quit", "end"}
      BY <3>1, Types, Threads DEF Types, PlaceTypes, Actor
    <3> QED BY <3>1, <3>2, Same, Balance DEF Balance
  <2> QED BY <2>1, <2>2
<1>14. ASSUME NEW a \in Actor, SignalWakee(a) PROVE Balance'
  <2>1. /\ pc[a] = "signal" /\ pc' = [pc EXCEPT ![a] = "wake_each"]
        /\ my_slack' = my_slack /\ additional' = additional /\ asked' = asked /\ asleep' = asleep
    BY <1>14 DEF SignalWakee, Waked
  <2>2. /\ \A v \in Worker : pc'[v] = "insert" <=> pc[v] = "insert"
        /\ \A v \in Worker : pc'[v] \in {"quit", "end"} <=> pc[v] \in {"quit", "end"}
    BY <2>1, Types, Threads DEF Types, PlaceTypes, Actor
  <2> QED BY <2>1, <2>2, Same, Balance DEF Balance
<1>15. ASSUME NEW a \in Actor, Launch(a) PROVE Balance'
  <2>1. /\ pc[a] = "launch" /\ pc' = [pc EXCEPT ![a] = "launched", ![Wakee(a)] = "run"]
        /\ my_slack' = my_slack /\ additional' = additional /\ asked' = asked /\ asleep' = asleep
    BY <1>15 DEF Launch
  <2>0. Wakee(a) \in Worker /\ pc[Wakee(a)] = "none" /\ Wakee(a) # a
    BY <1>15, NotYet
  <2>2. /\ \A v \in Worker : pc'[v] = "insert" <=> pc[v] = "insert"
        /\ \A v \in Worker : pc'[v] \in {"quit", "end"} <=> pc[v] \in {"quit", "end"}
    BY <2>0, <2>1, Types, Threads DEF Types, PlaceTypes, Actor
  <2> QED BY <2>1, <2>2, Same, Balance DEF Balance
<1>16. ASSUME NEW a \in Actor, Launched(a) PROVE Balance'
  <2>1. CASE my_state[Wakee(a)] = "starting"
    <3>1. /\ pc[a] = "launched" /\ pc' = [pc EXCEPT ![a] = "wake_each"]
          /\ my_slack' = my_slack /\ additional' = additional /\ asked' = asked /\ asleep' = asleep
      BY <1>16, <2>1 DEF Launched, Waked
    <3>2. /\ \A v \in Worker : pc'[v] = "insert" <=> pc[v] = "insert"
          /\ \A v \in Worker : pc'[v] \in {"quit", "end"} <=> pc[v] \in {"quit", "end"}
      BY <3>1, Types, Threads DEF Types, PlaceTypes, Actor
    <3> QED BY <3>1, <3>2, Same, Balance DEF Balance
  <2>2. CASE ~(my_state[Wakee(a)] = "starting")
    <3>1. /\ pc[a] = "launched" /\ pc' = [pc EXCEPT ![a] = "wake_each"]
          /\ my_slack' = my_slack /\ additional' = additional /\ asked' = asked /\ asleep' = asleep
      BY <1>16, <2>2 DEF Launched, Waked
    <3>2. /\ \A v \in Worker : pc'[v] = "insert" <=> pc[v] = "insert"
          /\ \A v \in Worker : pc'[v] \in {"quit", "end"} <=> pc[v] \in {"quit", "end"}
      BY <3>1, Types, Threads DEF Types, PlaceTypes, Actor
    <3> QED BY <3>1, <3>2, Same, Balance DEF Balance
  <2> QED BY <2>1, <2>2
<1>17. ASSUME NEW a \in Actor, WakeDone(a) PROVE Balance'
  <2>1. /\ pc[a] = "wake_each" /\ wakee[a] = <<>> /\ pc' = [pc EXCEPT ![a] = back[a]]
        /\ my_slack' = my_slack /\ additional' = additional /\ asked' = asked /\ asleep' = asleep
    BY <1>17 DEF WakeDone
  <2>2. /\ \A v \in Worker : pc'[v] = "insert" <=> pc[v] = "insert"
        /\ \A v \in Worker : pc'[v] \in {"quit", "end"} <=> pc[v] \in {"quit", "end"}
    BY <2>1, Types, Threads, Returns DEF Types, PlaceTypes, Actor, Returns, WakingPC
  <2> QED BY <2>1, <2>2, Same, Balance DEF Balance
<1>18. ASSUME NEW w \in Worker, Start(w) PROVE Balance'
  <2>1. CASE asleep = <<>>
    <3>1. /\ pc[w] = "run" /\ pc' = [pc EXCEPT ![w] = "loop"]
          /\ my_slack' = my_slack /\ additional' = additional /\ asked' = asked /\ asleep' = asleep
      BY <1>18, <2>1 DEF Start, ChainReaction, WakeSome
    <3>2. /\ \A v \in Worker : pc'[v] = "insert" <=> pc[v] = "insert"
          /\ \A v \in Worker : pc'[v] \in {"quit", "end"} <=> pc[v] \in {"quit", "end"}
      BY <3>1, Types, Threads DEF Types, PlaceTypes, Actor
    <3> QED BY <3>1, <3>2, Same, Balance DEF Balance
  <2>2. CASE ~(asleep = <<>>)
    <3>1. /\ pc[w] = "run" /\ additional' = [additional EXCEPT ![w] = 0]
          /\ pc' = [pc EXCEPT ![w] = "wake_lock"]
          /\ my_slack' = my_slack /\ asked' = asked /\ asleep' = asleep
      BY <1>18, <2>2 DEF Start, ChainReaction, WakeSome
    <3>2. /\ \A v \in Worker : pc'[v] = "insert" <=> pc[v] = "insert"
          /\ \A v \in Worker : pc'[v] \in {"quit", "end"} <=> pc[v] \in {"quit", "end"}
      BY <3>1, Types, Threads DEF Types, PlaceTypes, Actor
    <3>3. additional' = additional
      BY <3>1, InHand, Types DEF InHand, Types, DemandTypes
    <3> QED BY <3>1, <3>2, <3>3, Same, Balance DEF Balance
  <2> QED BY <2>1, <2>2
<1>19. ASSUME NEW w \in Worker, Idle(w) PROVE Balance'
  <2>1. /\ pc[w] = "loop" /\ my_slack < 0 /\ my_state[w] # "quit"
        /\ pc' = [pc EXCEPT ![w] = "prepare"]
        /\ my_slack' = my_slack /\ additional' = additional /\ asked' = asked /\ asleep' = asleep
    BY <1>19 DEF Idle
  <2>2. /\ \A v \in Worker : pc'[v] = "insert" <=> pc[v] = "insert"
        /\ \A v \in Worker : pc'[v] \in {"quit", "end"} <=> pc[v] \in {"quit", "end"}
    BY <2>1, Types, Threads DEF Types, PlaceTypes, Actor
  <2> QED BY <2>1, <2>2, Same, Balance DEF Balance
<1>20. ASSUME NEW w \in Worker, PrepareWait(w) PROVE Balance'
  <2>1. /\ pc[w] = "prepare"
        /\ spurious[w] => sema[w] = 1
        /\ pc' = [pc EXCEPT ![w] = "check"]
        /\ my_slack' = my_slack /\ additional' = additional /\ asked' = asked /\ asleep' = asleep
    BY <1>20 DEF PrepareWait
  <2>2. /\ \A v \in Worker : pc'[v] = "insert" <=> pc[v] = "insert"
        /\ \A v \in Worker : pc'[v] \in {"quit", "end"} <=> pc[v] \in {"quit", "end"}
    BY <2>1, Types, Threads DEF Types, PlaceTypes, Actor
  <2> QED BY <2>1, <2>2, Same, Balance DEF Balance
<1>21. ASSUME NEW w \in Worker, Check(w) PROVE Balance'
  <2>1. /\ pc[w] = "check"
        /\ pc' = [pc EXCEPT ![w] = IF my_state[w] = "quit" THEN "cancel" ELSE "try_insert"]
        /\ my_slack' = my_slack /\ additional' = additional /\ asked' = asked /\ asleep' = asleep
    BY <1>21 DEF Check
  <2>2. /\ \A v \in Worker : pc'[v] = "insert" <=> pc[v] = "insert"
        /\ \A v \in Worker : pc'[v] \in {"quit", "end"} <=> pc[v] \in {"quit", "end"}
    BY <2>1, Types, Threads DEF Types, PlaceTypes, Actor
  <2> QED BY <2>1, <2>2, Same, Balance DEF Balance
<1>22. ASSUME NEW w \in Worker, TryInsert(w) PROVE Balance'
  <2>1. CASE mutex = NULL
    <3>1. /\ pc[w] = "try_insert" /\ my_slack' = my_slack + 1
          /\ pc' = [pc EXCEPT ![w] = "insert"]
          /\ additional' = additional /\ asked' = asked /\ asleep' = asleep
      BY <1>22, <2>1 DEF TryInsert
    <3>2. Inserting' = Inserting \cup {w} /\ w \notin Inserting /\ Left' = Left
      <4>1. \A v \in Worker : pc'[v] = IF v = w THEN "insert" ELSE pc[v]
        BY <3>1, Types, Threads DEF Types, PlaceTypes, Actor
      <4> QED BY <4>1, <3>1 DEF Inserting, Left
    <3>3. /\ Cardinality(Inserting') = Cardinality(Inserting) + 1
          /\ Cardinality(Left') = Cardinality(Left)
      BY <3>2, Numbers, FS_AddElement, FS_RemoveElement
    <3>4. PICK s \in Int, x \in Nat, q \in Nat, l \in Nat, i \in Nat, f \in Nat, n \in Nat :
             /\ s = my_slack /\ x = SumFunction(additional) /\ q = SumFunction(asked)
             /\ l = Len(asleep) /\ i = Cardinality(Inserting) /\ f = Cardinality(Left)
             /\ n = Cardinality(Worker) /\ s + x + n = q + l + i + f /\ q <= n
      BY BalanceIs
    <3>5. /\ my_slack' = s + 1 /\ SumFunction(additional') = x
          /\ SumFunction(asked') = q /\ Len(asleep') = l
          /\ Cardinality(Inserting') = i + 1 /\ Cardinality(Left') = f
      BY <3>1, <3>3, <3>4
    <3>6. s + x + n = q + l + i + f /\ q <= n
      BY <3>4
    <3>7. (s + 1) + x + n = q + l + (i + 1) + f /\ q <= n
      BY <3>6
    <3>8. my_slack' + SumFunction(additional') + Cardinality(Worker)
             = SumFunction(asked') + Len(asleep') + Cardinality(Inserting') + Cardinality(Left')
      BY <3>4, <3>5, <3>7
    <3> QED BY <3>4, <3>5, <3>7, <3>8 DEF Balance
  <2>2. CASE ~(mutex = NULL)
    <3>1. /\ pc[w] = "try_insert" /\ pc' = [pc EXCEPT ![w] = "cancel"]
          /\ my_slack' = my_slack /\ additional' = additional /\ asked' = asked /\ asleep' = asleep
      BY <1>22, <2>2 DEF TryInsert
    <3>2. /\ \A v \in Worker : pc'[v] = "insert" <=> pc[v] = "insert"
          /\ \A v \in Worker : pc'[v] \in {"quit", "end"} <=> pc[v] \in {"quit", "end"}
      BY <3>1, Types, Threads DEF Types, PlaceTypes, Actor
    <3> QED BY <3>1, <3>2, Same, Balance DEF Balance
  <2> QED BY <2>1, <2>2
<1>23. ASSUME NEW w \in Worker, Insert(w) PROVE Balance'
  <2>1. CASE k[w] <= 0
    <3>1. /\ pc[w] = "insert" /\ asleep' = <<w>> \o asleep
          /\ pc' = [pc EXCEPT ![w] = "commit"]
          /\ my_slack' = my_slack /\ additional' = additional /\ asked' = asked
      BY <1>23, <2>1 DEF Insert
    <3>2. Inserting' = Inserting \ {w} /\ w \in Inserting /\ Left' = Left
      <4>1. \A v \in Worker : pc'[v] = IF v = w THEN "commit" ELSE pc[v]
        BY <3>1, Types, Threads DEF Types, PlaceTypes, Actor
      <4> QED BY <4>1, <3>1 DEF Inserting, Left
    <3>3. /\ Cardinality(Inserting') = Cardinality(Inserting) - 1
          /\ Cardinality(Left') = Cardinality(Left)
      BY <3>2, Numbers, FS_AddElement, FS_RemoveElement
    <3>4. Len(asleep') = Len(asleep) + 1
      BY <3>1, Longer, Types DEF Types, ServerTypes
    <3>5. PICK s \in Int, x \in Nat, q \in Nat, l \in Nat, i \in Nat, f \in Nat, n \in Nat :
             /\ s = my_slack /\ x = SumFunction(additional) /\ q = SumFunction(asked)
             /\ l = Len(asleep) /\ i = Cardinality(Inserting) /\ f = Cardinality(Left)
             /\ n = Cardinality(Worker) /\ s + x + n = q + l + i + f /\ q <= n
      BY BalanceIs
    <3>6. /\ my_slack' = s /\ SumFunction(additional') = x
          /\ SumFunction(asked') = q /\ Len(asleep') = l + 1
          /\ Cardinality(Inserting') = i - 1 /\ Cardinality(Left') = f
      BY <3>1, <3>3, <3>5, <3>4
    <3>7. s + x + n = q + l + i + f /\ q <= n
      BY <3>5
    <3>8. s + x + n = q + (l + 1) + (i - 1) + f /\ q <= n
      BY <3>7
    <3>9. my_slack' + SumFunction(additional') + Cardinality(Worker)
             = SumFunction(asked') + Len(asleep') + Cardinality(Inserting') + Cardinality(Left')
      BY <3>5, <3>6, <3>8
    <3> QED BY <3>5, <3>6, <3>8, <3>9 DEF Balance
  <2>2. CASE ~(k[w] <= 0)
    <3>1. /\ pc[w] = "insert" /\ my_slack' = my_slack - 1
          /\ pc' = [pc EXCEPT ![w] = "cancel"]
          /\ additional' = additional /\ asked' = asked /\ asleep' = asleep
      BY <1>23, <2>2 DEF Insert
    <3>2. Inserting' = Inserting \ {w} /\ w \in Inserting /\ Left' = Left
      <4>1. \A v \in Worker : pc'[v] = IF v = w THEN "cancel" ELSE pc[v]
        BY <3>1, Types, Threads DEF Types, PlaceTypes, Actor
      <4> QED BY <4>1, <3>1 DEF Inserting, Left
    <3>3. /\ Cardinality(Inserting') = Cardinality(Inserting) - 1
          /\ Cardinality(Left') = Cardinality(Left)
      BY <3>2, Numbers, FS_AddElement, FS_RemoveElement
    <3>4. PICK s \in Int, x \in Nat, q \in Nat, l \in Nat, i \in Nat, f \in Nat, n \in Nat :
             /\ s = my_slack /\ x = SumFunction(additional) /\ q = SumFunction(asked)
             /\ l = Len(asleep) /\ i = Cardinality(Inserting) /\ f = Cardinality(Left)
             /\ n = Cardinality(Worker) /\ s + x + n = q + l + i + f /\ q <= n
      BY BalanceIs
    <3>5. /\ my_slack' = s - 1 /\ SumFunction(additional') = x
          /\ SumFunction(asked') = q /\ Len(asleep') = l
          /\ Cardinality(Inserting') = i - 1 /\ Cardinality(Left') = f
      BY <3>1, <3>3, <3>4
    <3>6. s + x + n = q + l + i + f /\ q <= n
      BY <3>4
    <3>7. (s - 1) + x + n = q + l + (i - 1) + f /\ q <= n
      BY <3>6
    <3>8. my_slack' + SumFunction(additional') + Cardinality(Worker)
             = SumFunction(asked') + Len(asleep') + Cardinality(Inserting') + Cardinality(Left')
      BY <3>4, <3>5, <3>7
    <3> QED BY <3>4, <3>5, <3>7, <3>8 DEF Balance
  <2> QED BY <2>1, <2>2
<1>24. ASSUME NEW w \in Worker, CancelWait(w) PROVE Balance'
  <2>1. /\ pc[w] = "cancel" /\ pc' = [pc EXCEPT ![w] = "loop"]
        /\ my_slack' = my_slack /\ additional' = additional /\ asked' = asked /\ asleep' = asleep
    BY <1>24 DEF CancelWait, Cancel
  <2>2. /\ \A v \in Worker : pc'[v] = "insert" <=> pc[v] = "insert"
        /\ \A v \in Worker : pc'[v] \in {"quit", "end"} <=> pc[v] \in {"quit", "end"}
    BY <2>1, Types, Threads DEF Types, PlaceTypes, Actor
  <2> QED BY <2>1, <2>2, Same, Balance DEF Balance
<1>25. ASSUME NEW w \in Worker, CommitWait(w) PROVE Balance'
  <2>1. /\ pc[w] = "commit"
        /\ pc' = [pc EXCEPT ![w] = IF notified[w] THEN "late" ELSE "sleep"]
        /\ my_slack' = my_slack /\ additional' = additional /\ asked' = asked /\ asleep' = asleep
    BY <1>25 DEF CommitWait
  <2>2. /\ \A v \in Worker : pc'[v] = "insert" <=> pc[v] = "insert"
        /\ \A v \in Worker : pc'[v] \in {"quit", "end"} <=> pc[v] \in {"quit", "end"}
    BY <2>1, Types, Threads DEF Types, PlaceTypes, Actor
  <2> QED BY <2>1, <2>2, Same, Balance DEF Balance
<1>26. ASSUME NEW w \in Worker, Late(w) PROVE Balance'
  <2>1. /\ pc[w] = "late" /\ pc' = [pc EXCEPT ![w] = "woken"]
        /\ my_slack' = my_slack /\ additional' = additional /\ asked' = asked /\ asleep' = asleep
    BY <1>26 DEF Late, Cancel
  <2>2. /\ \A v \in Worker : pc'[v] = "insert" <=> pc[v] = "insert"
        /\ \A v \in Worker : pc'[v] \in {"quit", "end"} <=> pc[v] \in {"quit", "end"}
    BY <2>1, Types, Threads DEF Types, PlaceTypes, Actor
  <2> QED BY <2>1, <2>2, Same, Balance DEF Balance
<1>27. ASSUME NEW w \in Worker, Sleep(w) PROVE Balance'
  <2>1. /\ pc[w] = "sleep" /\ sema[w] = 1 /\ pc' = [pc EXCEPT ![w] = "woken"]
        /\ my_slack' = my_slack /\ additional' = additional /\ asked' = asked /\ asleep' = asleep
    BY <1>27 DEF Sleep
  <2>2. /\ \A v \in Worker : pc'[v] = "insert" <=> pc[v] = "insert"
        /\ \A v \in Worker : pc'[v] \in {"quit", "end"} <=> pc[v] \in {"quit", "end"}
    BY <2>1, Types, Threads DEF Types, PlaceTypes, Actor
  <2> QED BY <2>1, <2>2, Same, Balance DEF Balance
<1>28. ASSUME NEW w \in Worker, Woken(w) PROVE Balance'
  <2>1. CASE asleep = <<>>
    <3>1. /\ pc[w] = "woken" /\ pc' = [pc EXCEPT ![w] = "loop"]
          /\ my_slack' = my_slack /\ additional' = additional /\ asked' = asked /\ asleep' = asleep
      BY <1>28, <2>1 DEF Woken, ChainReaction, WakeSome
    <3>2. /\ \A v \in Worker : pc'[v] = "insert" <=> pc[v] = "insert"
          /\ \A v \in Worker : pc'[v] \in {"quit", "end"} <=> pc[v] \in {"quit", "end"}
      BY <3>1, Types, Threads DEF Types, PlaceTypes, Actor
    <3> QED BY <3>1, <3>2, Same, Balance DEF Balance
  <2>2. CASE ~(asleep = <<>>)
    <3>1. /\ pc[w] = "woken" /\ additional' = [additional EXCEPT ![w] = 0]
          /\ pc' = [pc EXCEPT ![w] = "wake_lock"]
          /\ my_slack' = my_slack /\ asked' = asked /\ asleep' = asleep
      BY <1>28, <2>2 DEF Woken, ChainReaction, WakeSome
    <3>2. /\ \A v \in Worker : pc'[v] = "insert" <=> pc[v] = "insert"
          /\ \A v \in Worker : pc'[v] \in {"quit", "end"} <=> pc[v] \in {"quit", "end"}
      BY <3>1, Types, Threads DEF Types, PlaceTypes, Actor
    <3>3. additional' = additional
      BY <3>1, InHand, Types DEF InHand, Types, DemandTypes
    <3> QED BY <3>1, <3>2, <3>3, Same, Balance DEF Balance
  <2> QED BY <2>1, <2>2
<1>29. ASSUME NEW w \in Worker, Quit(w) PROVE Balance'
  <2>1. /\ pc[w] = "loop" /\ my_state[w] = "quit" /\ my_slack' = my_slack + 1
        /\ pc' = [pc EXCEPT ![w] = "quit"]
        /\ additional' = additional /\ asked' = asked /\ asleep' = asleep
    BY <1>29 DEF Quit
  <2>2. Inserting' = Inserting /\ Left' = Left \cup {w} /\ w \notin Left
    <3>1. \A v \in Worker : pc'[v] = IF v = w THEN "quit" ELSE pc[v]
      BY <2>1, Types, Threads DEF Types, PlaceTypes, Actor
    <3> QED BY <3>1, <2>1 DEF Inserting, Left
  <2>3. /\ Cardinality(Inserting') = Cardinality(Inserting)
        /\ Cardinality(Left') = Cardinality(Left) + 1
    BY <2>2, Numbers, FS_AddElement, FS_RemoveElement
  <2>4. PICK s \in Int, x \in Nat, q \in Nat, l \in Nat, i \in Nat, f \in Nat, n \in Nat :
           /\ s = my_slack /\ x = SumFunction(additional) /\ q = SumFunction(asked)
           /\ l = Len(asleep) /\ i = Cardinality(Inserting) /\ f = Cardinality(Left)
           /\ n = Cardinality(Worker) /\ s + x + n = q + l + i + f /\ q <= n
    BY BalanceIs
  <2>5. /\ my_slack' = s + 1 /\ SumFunction(additional') = x
        /\ SumFunction(asked') = q /\ Len(asleep') = l
        /\ Cardinality(Inserting') = i /\ Cardinality(Left') = f + 1
    BY <2>1, <2>3, <2>4
  <2>6. s + x + n = q + l + i + f /\ q <= n
    BY <2>4
  <2>7. (s + 1) + x + n = q + l + i + (f + 1) /\ q <= n
    BY <2>6
  <2>8. my_slack' + SumFunction(additional') + Cardinality(Worker)
           = SumFunction(asked') + Len(asleep') + Cardinality(Inserting') + Cardinality(Left')
    BY <2>4, <2>5, <2>7
  <2> QED BY <2>4, <2>5, <2>7, <2>8 DEF Balance
<1>30. ASSUME NEW w \in Worker, End(w) PROVE Balance'
  <2>1. /\ pc[w] = "quit" /\ pc' = [pc EXCEPT ![w] = "end"]
        /\ my_slack' = my_slack /\ additional' = additional /\ asked' = asked /\ asleep' = asleep
    BY <1>30 DEF End, RemoveServerRef
  <2>2. /\ \A v \in Worker : pc'[v] = "insert" <=> pc[v] = "insert"
        /\ \A v \in Worker : pc'[v] \in {"quit", "end"} <=> pc[v] \in {"quit", "end"}
    BY <2>1, Types, Threads DEF Types, PlaceTypes, Actor
  <2> QED BY <2>1, <2>2, Same, Balance DEF Balance
<1> QED BY <1>1, <1>2, <1>3, <1>4, <1>5, <1>6, <1>7, <1>8, <1>9, <1>10, <1>11, <1>12,
   <1>13, <1>14, <1>15, <1>16, <1>17, <1>18, <1>19, <1>20, <1>21, <1>22, <1>23, <1>24,
   <1>25, <1>26, <1>27, <1>28, <1>29, <1>30, Next DEF Next, ShutDown, Waking, Run

\* What a worker that holds the list has read of the slack is no less than the slack.
LEMMA SlackReadStep ==
    ASSUME Assumptions, Types, Popped, Handles, AtHome, Returns, Locked, Quitting, SlackRead, AtHome', Next
    PROVE  SlackRead'
<1> USE Threads, Types, AtHome, Returns, Locked, Quitting, SlackRead, AtHome',
        ClosingIs, ClosingNext DEF Actor, Types, PlaceTypes, ServerTypes, DemandTypes,
        ClosingPC, WakingPC, AtHome, Returns, Locked, Quitting, SlackRead, Set, Goto,
        Jump, server, monitor, waking, demand, hist
<1>1. ASSUME NEW c \in Client, NEW delta \in 1..MaxDelta, Request(c, delta) PROVE SlackRead'
  <2>1. /\ pc[c] = "idle"
        /\ ~Closing /\ asked[c] = 0 /\ SumFunction(asked) + delta <= Cardinality(Worker)
        /\ pc' = [pc EXCEPT ![c] = "wake_lock"] /\ asked' = [asked EXCEPT ![c] = delta]
        /\ my_slack' = my_slack /\ k' = k /\ mutex' = mutex
    BY <1>1 DEF Request, WakeSome
  <2> QED BY <1>1, <2>1
<1>2. ASSUME NEW c \in Client, Return(c) PROVE SlackRead'
  <2>1. /\ pc[c] = "idle" /\ asked[c] > 0 /\ pc' = [pc EXCEPT ![c] = "idle"]
        /\ my_slack' = my_slack - asked[c] /\ asked' = [asked EXCEPT ![c] = 0]
        /\ k' = k /\ mutex' = mutex
    BY <1>2 DEF Return
  <2> QED BY <1>2, <2>1
<1>3. ASSUME NEW c \in Client, Close(c) PROVE SlackRead'
  <2>1. /\ pc[c] = "idle"
        /\ \A d \in Client : pc[d] = "idle" /\ asked[d] = 0
        /\ pc' = [pc EXCEPT ![c] = "shutdown"]
        /\ my_slack' = my_slack /\ k' = k /\ mutex' = mutex /\ asked' = asked
    BY <1>3 DEF Close
  <2> QED BY <1>3, <2>1
<1>4. ASSUME NEW c \in Client, NEW w \in Worker, StartShutdown(c, w) PROVE SlackRead'
  <2>1. CASE my_state[w] = "init"
    <3>1. /\ pc[c] = "shutdown" /\ my_state[w] # "quit"
          /\ pc' = [pc EXCEPT ![c] = "shutdown"]
          /\ my_slack' = my_slack /\ k' = k /\ mutex' = mutex /\ asked' = asked
      BY <1>4, <2>1 DEF StartShutdown, RemoveServerRef
    <3> QED BY <1>4, <2>1, <3>1
  <2>2. CASE ~(my_state[w] = "init")
    <3>1. /\ pc[c] = "shutdown" /\ my_state[w] # "quit"
          /\ pc' = [pc EXCEPT ![c] = "notify"]
          /\ my_slack' = my_slack /\ k' = k /\ mutex' = mutex /\ asked' = asked
      BY <1>4, <2>2 DEF StartShutdown, RemoveServerRef
    <3> QED BY <1>4, <2>2, <3>1
  <2> QED BY <2>1, <2>2
<1>5. ASSUME NEW c \in Client, NotifyQuit(c) PROVE SlackRead'
  <2>1. /\ pc[c] = "notify" /\ pc' = [pc EXCEPT ![c] = "signal_quit"]
        /\ my_slack' = my_slack /\ k' = k /\ mutex' = mutex /\ asked' = asked
    BY <1>5, QuitNotified
  <2> QED BY <1>5, <2>1, QuitNotified
<1>6. ASSUME NEW c \in Client, SignalQuit(c) PROVE SlackRead'
  <2>1. CASE back[c] = "normal"
    <3>1. /\ pc[c] = "signal_quit" /\ pc' = [pc EXCEPT ![c] = "release_handle"]
          /\ my_slack' = my_slack /\ k' = k /\ mutex' = mutex /\ asked' = asked
      BY <1>6, <2>1 DEF SignalQuit
    <3> QED BY <1>6, <2>1, <3>1, NotifiedLate DEF SignalQuit
  <2>2. CASE ~(back[c] = "normal")
    <3>1. /\ pc[c] = "signal_quit" /\ pc' = [pc EXCEPT ![c] = "shutdown"]
          /\ my_slack' = my_slack /\ k' = k /\ mutex' = mutex /\ asked' = asked
      BY <1>6, <2>2 DEF SignalQuit
    <3> QED BY <1>6, <2>2, <3>1, NotifiedLate DEF SignalQuit
  <2> QED BY <2>1, <2>2
<1>7. ASSUME NEW c \in Client, ReleaseHandle(c) PROVE SlackRead'
  <2>1. /\ pc[c] = "release_handle" /\ pc' = [pc EXCEPT ![c] = "shutdown"]
        /\ my_slack' = my_slack /\ k' = k /\ mutex' = mutex /\ asked' = asked
    BY <1>7 DEF ReleaseHandle
  <2> QED BY <1>7, <2>1
<1>8. ASSUME NEW c \in Client, Closed(c) PROVE SlackRead'
  <2>1. /\ pc[c] = "shutdown"
        /\ \A w \in Worker : my_state[w] = "quit"
        /\ pc' = [pc EXCEPT ![c] = "closed"]
        /\ my_slack' = my_slack /\ k' = k /\ mutex' = mutex /\ asked' = asked
    BY <1>8 DEF Closed, RemoveServerRef
  <2> QED BY <1>8, <2>1
<1>9. ASSUME NEW a \in Actor, WakeLock(a) PROVE SlackRead'
  <2>1. /\ pc[a] = "wake_lock" /\ mutex = NULL /\ pc' = [pc EXCEPT ![a] = "wake_loop"]
        /\ mutex' = a /\ my_slack' = my_slack /\ k' = k /\ asked' = asked
    BY <1>9 DEF WakeLock
  <2> QED BY <1>9, <2>1
<1>10. ASSUME NEW a \in Actor, PopForDemand(a) PROVE SlackRead'
  <2>1. /\ pc[a] = "wake_loop"
        /\ additional[a] > 0 /\ additional[a] + my_slack > 0 /\ asleep # <<>>
        /\ pc' = [pc EXCEPT ![a] = "wake_loop"]
        /\ my_slack' = my_slack /\ k' = k /\ mutex' = mutex /\ asked' = asked
    BY <1>10 DEF PopForDemand, CanPop, Pop
  <2> QED BY <1>10, <2>1
<1>11. ASSUME NEW a \in Actor, PopForSlack(a) PROVE SlackRead'
  <2>1. /\ pc[a] = "wake_loop" /\ additional[a] = 0 /\ my_slack > 0 /\ asleep # <<>>
        /\ pc' = [pc EXCEPT ![a] = "wake_loop"] /\ my_slack' = my_slack - 1
        /\ k' = k /\ mutex' = mutex /\ asked' = asked
    BY <1>11 DEF PopForSlack, CanPop, Pop
  <2> QED BY <1>11, <2>1
<1>12. ASSUME NEW a \in Actor, WakeUnlock(a) PROVE SlackRead'
  <2>1. /\ pc[a] = "wake_loop" /\ pc' = [pc EXCEPT ![a] = "wake_each"]
        /\ my_slack' = my_slack + additional[a] /\ mutex' = NULL
        /\ k' = k /\ asked' = asked
    BY <1>12 DEF WakeUnlock, CanPop
  <2> QED BY <1>12, <2>1
<1>13. ASSUME NEW a \in Actor, WakeEach(a) PROVE SlackRead'
  <2>1. CASE my_state[Wakee(a)] = "init"
    <3>1. /\ pc[a] = "wake_each" /\ wakee[a] # <<>>
          /\ pc' = [pc EXCEPT ![a] = "launch"]
          /\ my_slack' = my_slack /\ k' = k /\ mutex' = mutex /\ asked' = asked
      BY <1>13, <2>1 DEF WakeEach
    <3> QED BY <1>13, <2>1, <3>1
  <2>2. CASE ~(my_state[Wakee(a)] = "init")
    <3>1. /\ pc[a] = "wake_each" /\ wakee[a] # <<>>
          /\ pc' = [pc EXCEPT ![a] = "signal"]
          /\ my_slack' = my_slack /\ k' = k /\ mutex' = mutex /\ asked' = asked
      BY <1>13, <2>2, SleeperNotified
    <3> QED BY <1>13, <2>2, <3>1, SleeperNotified
  <2> QED BY <2>1, <2>2
<1>14. ASSUME NEW a \in Actor, SignalWakee(a) PROVE SlackRead'
  <2>1. /\ pc[a] = "signal" /\ pc' = [pc EXCEPT ![a] = "wake_each"]
        /\ my_slack' = my_slack /\ k' = k /\ mutex' = mutex /\ asked' = asked
    BY <1>14 DEF SignalWakee, Waked
  <2> QED BY <2>1
<1>15. ASSUME NEW a \in Actor, Launch(a) PROVE SlackRead'
  <2>1. /\ pc' = [pc EXCEPT ![a] = "launched", ![Wakee(a)] = "run"] /\ pc[a] = "launch"
        /\ my_slack' = my_slack /\ k' = k /\ mutex' = mutex /\ asked' = asked
    BY <1>15 DEF Launch
  <2>2. Wakee(a) \in Worker /\ pc[Wakee(a)] = "none" /\ Wakee(a) # a
    BY <1>15, NotYet
  <2> QED BY <2>1, <2>2
<1>16. ASSUME NEW a \in Actor, Launched(a) PROVE SlackRead'
  <2>1. CASE my_state[Wakee(a)] = "starting"
    <3>1. /\ pc[a] = "launched" /\ pc' = [pc EXCEPT ![a] = "wake_each"]
          /\ my_slack' = my_slack /\ k' = k /\ mutex' = mutex /\ asked' = asked
      BY <1>16, <2>1 DEF Launched, Waked
    <3> QED BY <1>16, <2>1, <3>1
  <2>2. CASE ~(my_state[Wakee(a)] = "starting")
    <3>1. /\ pc[a] = "launched" /\ pc' = [pc EXCEPT ![a] = "wake_each"]
          /\ my_slack' = my_slack /\ k' = k /\ mutex' = mutex /\ asked' = asked
      BY <1>16, <2>2 DEF Launched, Waked
    <3> QED BY <1>16, <2>2, <3>1
  <2> QED BY <2>1, <2>2
<1>17. ASSUME NEW a \in Actor, WakeDone(a) PROVE SlackRead'
  <2>1. /\ pc[a] = "wake_each" /\ wakee[a] = <<>> /\ pc' = [pc EXCEPT ![a] = back[a]]
        /\ my_slack' = my_slack /\ k' = k /\ mutex' = mutex /\ asked' = asked
    BY <1>17 DEF WakeDone
  <2> QED BY <1>17, <2>1
<1>18. ASSUME NEW w \in Worker, Start(w) PROVE SlackRead'
  <2>1. CASE asleep = <<>>
    <3>1. /\ pc[w] = "run" /\ pc' = [pc EXCEPT ![w] = "loop"]
          /\ my_slack' = my_slack /\ k' = k /\ mutex' = mutex /\ asked' = asked
      BY <1>18, <2>1 DEF Start, ChainReaction, WakeSome
    <3> QED BY <1>18, <2>1, <3>1
  <2>2. CASE ~(asleep = <<>>)
    <3>1. /\ pc[w] = "run" /\ pc' = [pc EXCEPT ![w] = "wake_lock"]
          /\ my_slack' = my_slack /\ k' = k /\ mutex' = mutex /\ asked' = asked
      BY <1>18, <2>2 DEF Start, ChainReaction, WakeSome
    <3> QED BY <1>18, <2>2, <3>1
  <2> QED BY <2>1, <2>2
<1>19. ASSUME NEW w \in Worker, Idle(w) PROVE SlackRead'
  <2>1. /\ pc[w] = "loop" /\ my_slack < 0 /\ my_state[w] # "quit"
        /\ pc' = [pc EXCEPT ![w] = "prepare"]
        /\ my_slack' = my_slack /\ k' = k /\ mutex' = mutex /\ asked' = asked
    BY <1>19 DEF Idle
  <2> QED BY <1>19, <2>1
<1>20. ASSUME NEW w \in Worker, PrepareWait(w) PROVE SlackRead'
  <2>1. /\ pc[w] = "prepare"
        /\ spurious[w] => sema[w] = 1
        /\ pc' = [pc EXCEPT ![w] = "check"]
        /\ my_slack' = my_slack /\ k' = k /\ mutex' = mutex /\ asked' = asked
    BY <1>20 DEF PrepareWait
  <2> QED BY <1>20, <2>1
<1>21. ASSUME NEW w \in Worker, Check(w) PROVE SlackRead'
  <2>1. /\ pc[w] = "check"
        /\ pc' = [pc EXCEPT ![w] = IF my_state[w] = "quit" THEN "cancel" ELSE "try_insert"]
        /\ my_slack' = my_slack /\ k' = k /\ mutex' = mutex /\ asked' = asked
    BY <1>21 DEF Check
  <2> QED BY <1>21, <2>1
<1>22. ASSUME NEW w \in Worker, TryInsert(w) PROVE SlackRead'
  <2>1. CASE mutex = NULL
    <3>1. /\ pc[w] = "try_insert" /\ pc' = [pc EXCEPT ![w] = "insert"]
          /\ my_slack' = my_slack + 1 /\ k' = [k EXCEPT ![w] = my_slack + 1]
          /\ mutex' = w /\ asked' = asked
      BY <1>22, <2>1 DEF TryInsert
    <3> QED BY <1>22, <2>1, <3>1
  <2>2. CASE ~(mutex = NULL)
    <3>1. /\ pc[w] = "try_insert" /\ pc' = [pc EXCEPT ![w] = "cancel"]
          /\ my_slack' = my_slack /\ k' = k /\ mutex' = mutex /\ asked' = asked
      BY <1>22, <2>2 DEF TryInsert
    <3> QED BY <1>22, <2>2, <3>1
  <2> QED BY <2>1, <2>2
<1>23. ASSUME NEW w \in Worker, Insert(w) PROVE SlackRead'
  <2>1. CASE k[w] <= 0
    <3>1. /\ pc[w] = "insert" /\ pc' = [pc EXCEPT ![w] = "commit"]
          /\ k' = [k EXCEPT ![w] = 0] /\ mutex' = NULL
          /\ my_slack' = my_slack /\ asked' = asked
      BY <1>23, <2>1 DEF Insert
    <3> QED BY <1>23, <2>1, <3>1
  <2>2. CASE ~(k[w] <= 0)
    <3>1. /\ pc[w] = "insert" /\ pc' = [pc EXCEPT ![w] = "cancel"]
          /\ my_slack' = my_slack - 1 /\ k' = [k EXCEPT ![w] = 0] /\ mutex' = NULL
          /\ asked' = asked
      BY <1>23, <2>2 DEF Insert
    <3> QED BY <1>23, <2>2, <3>1
  <2> QED BY <2>1, <2>2
<1>24. ASSUME NEW w \in Worker, CancelWait(w) PROVE SlackRead'
  <2>1. /\ pc[w] = "cancel" /\ pc' = [pc EXCEPT ![w] = "loop"]
        /\ my_slack' = my_slack /\ k' = k /\ mutex' = mutex /\ asked' = asked
    BY <1>24 DEF CancelWait, Cancel
  <2> QED BY <1>24, <2>1
<1>25. ASSUME NEW w \in Worker, CommitWait(w) PROVE SlackRead'
  <2>1. /\ pc[w] = "commit"
        /\ pc' = [pc EXCEPT ![w] = IF notified[w] THEN "late" ELSE "sleep"]
        /\ my_slack' = my_slack /\ k' = k /\ mutex' = mutex /\ asked' = asked
    BY <1>25 DEF CommitWait
  <2> QED BY <1>25, <2>1
<1>26. ASSUME NEW w \in Worker, Late(w) PROVE SlackRead'
  <2>1. /\ pc[w] = "late" /\ pc' = [pc EXCEPT ![w] = "woken"]
        /\ my_slack' = my_slack /\ k' = k /\ mutex' = mutex /\ asked' = asked
    BY <1>26 DEF Late, Cancel
  <2> QED BY <1>26, <2>1
<1>27. ASSUME NEW w \in Worker, Sleep(w) PROVE SlackRead'
  <2>1. /\ pc[w] = "sleep" /\ sema[w] = 1 /\ pc' = [pc EXCEPT ![w] = "woken"]
        /\ my_slack' = my_slack /\ k' = k /\ mutex' = mutex /\ asked' = asked
    BY <1>27 DEF Sleep
  <2> QED BY <1>27, <2>1
<1>28. ASSUME NEW w \in Worker, Woken(w) PROVE SlackRead'
  <2>1. CASE asleep = <<>>
    <3>1. /\ pc[w] = "woken" /\ pc' = [pc EXCEPT ![w] = "loop"]
          /\ my_slack' = my_slack /\ k' = k /\ mutex' = mutex /\ asked' = asked
      BY <1>28, <2>1 DEF Woken, ChainReaction, WakeSome
    <3> QED BY <1>28, <2>1, <3>1
  <2>2. CASE ~(asleep = <<>>)
    <3>1. /\ pc[w] = "woken" /\ pc' = [pc EXCEPT ![w] = "wake_lock"]
          /\ my_slack' = my_slack /\ k' = k /\ mutex' = mutex /\ asked' = asked
      BY <1>28, <2>2 DEF Woken, ChainReaction, WakeSome
    <3> QED BY <1>28, <2>2, <3>1
  <2> QED BY <2>1, <2>2
<1>29. ASSUME NEW w \in Worker, Quit(w) PROVE SlackRead'
  <2>1. /\ pc[w] = "loop" /\ my_state[w] = "quit" /\ pc' = [pc EXCEPT ![w] = "quit"]
        /\ my_slack' = my_slack + 1 /\ k' = k /\ mutex' = mutex /\ asked' = asked
    BY <1>29 DEF Quit
  <2> QED BY <1>29, <2>1
<1>30. ASSUME NEW w \in Worker, End(w) PROVE SlackRead'
  <2>1. /\ pc[w] = "quit" /\ pc' = [pc EXCEPT ![w] = "end"]
        /\ my_slack' = my_slack /\ k' = k /\ mutex' = mutex /\ asked' = asked
    BY <1>30 DEF End, RemoveServerRef
  <2> QED BY <1>30, <2>1
<1> QED BY <1>1, <1>2, <1>3, <1>4, <1>5, <1>6, <1>7, <1>8, <1>9, <1>10, <1>11, <1>12,
   <1>13, <1>14, <1>15, <1>16, <1>17, <1>18, <1>19, <1>20, <1>21, <1>22, <1>23, <1>24,
   <1>25, <1>26, <1>27, <1>28, <1>29, <1>30, Next DEF Next, ShutDown, Waking, Run

\* Nothing about handles changes when no thread is made and none is told to quit.
LEMMA HandlesSame ==
    ASSUME Handles, my_state' = my_state, launched' = launched, released' = released,
           \A w \in Worker : pc'[w] = "none" <=> pc[w] = "none",
           \A a \in Actor : pc[a] \in {"launch", "launched"} \/ pc'[a] \in {"launch", "launched"} =>
               pc'[a] = pc[a] /\ wakee'[a] = wakee[a],
           \A c \in Client : (pc[c] \in {"notify", "signal_quit", "release_handle"} /\ back[c] = "normal")
                         <=> (pc'[c] \in {"notify", "signal_quit", "release_handle"} /\ back'[c] = "normal"),
           \A c \in Client : pc[c] \in {"notify", "signal_quit", "release_handle"} => wakee'[c] = wakee[c]
    PROVE  Handles'
<1>1. ASSUME NEW w \in Worker PROVE HandleOK(w)'
  <2>1. \A a \in Actor : Launcher(a, w)' <=> Launcher(a, w)
    BY DEF Launcher, Wakee
  <2>2. \A c \in Client : Releaser(c, w)' <=> Releaser(c, w)
    BY DEF Releaser
  <2>3. \A a \in Actor : Launcher(a, w) => pc'[a] = pc[a]
    BY DEF Launcher
  <2>4. HandleOK(w)
    BY DEF Handles
  <2> QED BY <2>1, <2>2, <2>3, <2>4 DEF HandleOK
<1> QED BY <1>1 DEF Handles

\* The handle of a thread is released once.
LEMMA HandlesStep ==
    ASSUME Assumptions, Types, Popped, Handles, Returns, Alone, Telling, Next
    PROVE  Handles'
<1> USE Threads, Types DEF Types, PlaceTypes, Actor, Set, Goto, Jump, server, monitor,
        waking, demand, hist
<1>1. ASSUME NEW c \in Client, NEW delta \in 1..MaxDelta, Request(c, delta) PROVE Handles'
  <2>1. /\ pc[c] = "idle"
        /\ ~Closing /\ asked[c] = 0 /\ SumFunction(asked) + delta <= Cardinality(Worker)
        /\ pc' = [pc EXCEPT ![c] = "wake_lock"] /\ back' = [back EXCEPT ![c] = "idle"]
        /\ my_state' = my_state /\ wakee' = wakee /\ launched' = launched /\ released' = released
    BY <1>1 DEF Request, WakeSome
  <2>2. \A v \in Worker : pc'[v] = "none" <=> pc[v] = "none"
    BY <2>1
  <2>3. \A b \in Actor : pc[b] \in {"launch", "launched"} \/ pc'[b] \in {"launch", "launched"} =>
           pc'[b] = pc[b] /\ wakee'[b] = wakee[b]
    BY <2>1 DEF DemandTypes
  <2>4. \A d \in Client :
          (pc[d] \in {"notify", "signal_quit", "release_handle"} /\ back[d] = "normal")
          <=> (pc'[d] \in {"notify", "signal_quit", "release_handle"} /\ back'[d] = "normal")
    BY <2>1 DEF DemandTypes
  <2>5. \A d \in Client : pc[d] \in {"notify", "signal_quit", "release_handle"} => wakee'[d] = wakee[d]
    BY <2>1 DEF DemandTypes
  <2> QED BY <2>1, <2>2, <2>3, <2>4, <2>5, HandlesSame
<1>2. ASSUME NEW c \in Client, Return(c) PROVE Handles'
  <2>1. /\ pc[c] = "idle" /\ asked[c] > 0 /\ pc' = [pc EXCEPT ![c] = "idle"]
        /\ my_state' = my_state /\ wakee' = wakee /\ back' = back /\ launched' = launched
        /\ released' = released
    BY <1>2 DEF Return
  <2>2. \A v \in Worker : pc'[v] = "none" <=> pc[v] = "none"
    BY <2>1
  <2>3. \A b \in Actor : pc[b] \in {"launch", "launched"} \/ pc'[b] \in {"launch", "launched"} =>
           pc'[b] = pc[b] /\ wakee'[b] = wakee[b]
    BY <2>1 DEF DemandTypes
  <2>4. \A d \in Client :
          (pc[d] \in {"notify", "signal_quit", "release_handle"} /\ back[d] = "normal")
          <=> (pc'[d] \in {"notify", "signal_quit", "release_handle"} /\ back'[d] = "normal")
    BY <2>1 DEF DemandTypes
  <2>5. \A d \in Client : pc[d] \in {"notify", "signal_quit", "release_handle"} => wakee'[d] = wakee[d]
    BY <2>1 DEF DemandTypes
  <2> QED BY <2>1, <2>2, <2>3, <2>4, <2>5, HandlesSame
<1>3. ASSUME NEW c \in Client, Close(c) PROVE Handles'
  <2>1. /\ pc[c] = "idle"
        /\ \A d \in Client : pc[d] = "idle" /\ asked[d] = 0
        /\ pc' = [pc EXCEPT ![c] = "shutdown"]
        /\ my_state' = my_state /\ wakee' = wakee /\ back' = back /\ launched' = launched
        /\ released' = released
    BY <1>3 DEF Close
  <2>2. \A v \in Worker : pc'[v] = "none" <=> pc[v] = "none"
    BY <2>1
  <2>3. \A b \in Actor : pc[b] \in {"launch", "launched"} \/ pc'[b] \in {"launch", "launched"} =>
           pc'[b] = pc[b] /\ wakee'[b] = wakee[b]
    BY <2>1 DEF DemandTypes
  <2>4. \A d \in Client :
          (pc[d] \in {"notify", "signal_quit", "release_handle"} /\ back[d] = "normal")
          <=> (pc'[d] \in {"notify", "signal_quit", "release_handle"} /\ back'[d] = "normal")
    BY <2>1 DEF DemandTypes
  <2>5. \A d \in Client : pc[d] \in {"notify", "signal_quit", "release_handle"} => wakee'[d] = wakee[d]
    BY <2>1 DEF DemandTypes
  <2> QED BY <2>1, <2>2, <2>3, <2>4, <2>5, HandlesSame
<1>4. ASSUME NEW c \in Client, NEW w \in Worker, StartShutdown(c, w) PROVE Handles'
  <2>1. CASE my_state[w] = "init"
    <3>1. /\ pc[c] = "shutdown" /\ my_state[w] # "quit"
          /\ pc' = [pc EXCEPT ![c] = "shutdown"]
          /\ my_state' = [my_state EXCEPT ![w] = "quit"]
          /\ wakee' = [wakee EXCEPT ![c] = <<w>>]
          /\ back' = [back EXCEPT ![c] = my_state[w]]
          /\ launched' = launched /\ released' = released
      BY <1>4, <2>1 DEF StartShutdown, RemoveServerRef
    <3>2. ASSUME NEW v \in Worker PROVE HandleOK(v)'
      <4>1. HandleOK(v)
        BY Handles DEF Handles
      <4>2. \A b \in Actor : Launcher(b, v)' <=> Launcher(b, v)
        BY <3>1 DEF Launcher, Wakee, DemandTypes, StateTypes
      <4>3. \A b \in Actor : Launcher(b, v) => pc'[b] = pc[b]
        BY <3>1 DEF Launcher, DemandTypes, StateTypes
      <4>4. \A d \in Client : ~Releaser(d, v)' /\ ~Releaser(d, v)
        BY <3>1, Alone DEF Alone, ClosingPC, Releaser, DemandTypes, StateTypes
      <4>5. /\ my_state'[v] = IF v = w THEN "quit" ELSE my_state[v]
            /\ pc'[v] = pc[v] /\ released'[v] = released[v] /\ launched' = launched
        BY <3>1 DEF DemandTypes, StateTypes
      <4> QED BY <3>1, <2>1, <4>1, <4>2, <4>3, <4>4, <4>5 DEF HandleOK
    <3> QED BY <3>2 DEF Handles
  <2>2. CASE ~(my_state[w] = "init")
    <3>1. /\ pc[c] = "shutdown" /\ my_state[w] # "quit"
          /\ pc' = [pc EXCEPT ![c] = "notify"]
          /\ my_state' = [my_state EXCEPT ![w] = "quit"]
          /\ wakee' = [wakee EXCEPT ![c] = <<w>>]
          /\ back' = [back EXCEPT ![c] = my_state[w]]
          /\ launched' = launched /\ released' = released
      BY <1>4, <2>2 DEF StartShutdown, RemoveServerRef
    <3>2. ASSUME NEW v \in Worker PROVE HandleOK(v)'
      <4>1. HandleOK(v)
        BY Handles DEF Handles
      <4>2. \A b \in Actor : Launcher(b, v)' <=> Launcher(b, v)
        BY <3>1 DEF Launcher, Wakee, DemandTypes, StateTypes
      <4>3. \A b \in Actor : Launcher(b, v) => pc'[b] = pc[b]
        BY <3>1 DEF Launcher, DemandTypes, StateTypes
      <4>4. /\ \A d \in Client : ~Releaser(d, v)
            /\ \A d \in Client : Releaser(d, v)' <=> d = c /\ v = w /\ my_state[w] = "normal"
        BY <3>1, Alone DEF Alone, ClosingPC, Releaser, DemandTypes, StateTypes
      <4>5. /\ my_state'[v] = IF v = w THEN "quit" ELSE my_state[v]
            /\ pc'[v] = pc[v] /\ released'[v] = released[v] /\ launched' = launched
        BY <3>1 DEF DemandTypes, StateTypes
      <4>6. v = w => my_state[v] \in {"starting", "normal"}
        BY <3>1, <2>2 DEF StateTypes
      <4> QED BY <3>1, <4>1, <4>2, <4>3, <4>4, <4>5, <4>6 DEF HandleOK
    <3> QED BY <3>2 DEF Handles
  <2> QED BY <2>1, <2>2
<1>5. ASSUME NEW c \in Client, NotifyQuit(c) PROVE Handles'
  <2>1. /\ pc[c] = "notify" /\ pc' = [pc EXCEPT ![c] = "signal_quit"]
        /\ my_state' = my_state /\ wakee' = wakee /\ back' = back /\ launched' = launched
        /\ released' = released
    BY <1>5, QuitNotified
  <2>2. \A v \in Worker : pc'[v] = "none" <=> pc[v] = "none"
    BY <2>1
  <2>3. \A b \in Actor : pc[b] \in {"launch", "launched"} \/ pc'[b] \in {"launch", "launched"} =>
           pc'[b] = pc[b] /\ wakee'[b] = wakee[b]
    BY <2>1 DEF DemandTypes
  <2>4. \A d \in Client :
          (pc[d] \in {"notify", "signal_quit", "release_handle"} /\ back[d] = "normal")
          <=> (pc'[d] \in {"notify", "signal_quit", "release_handle"} /\ back'[d] = "normal")
    BY <2>1 DEF DemandTypes
  <2>5. \A d \in Client : pc[d] \in {"notify", "signal_quit", "release_handle"} => wakee'[d] = wakee[d]
    BY <2>1 DEF DemandTypes
  <2> QED BY <2>1, <2>2, <2>3, <2>4, <2>5, HandlesSame
<1>6. ASSUME NEW c \in Client, SignalQuit(c) PROVE Handles'
  <2>1. CASE back[c] = "normal"
    <3>1. /\ pc[c] = "signal_quit" /\ pc' = [pc EXCEPT ![c] = "release_handle"]
          /\ my_state' = my_state /\ wakee' = wakee /\ back' = back /\ launched' = launched
          /\ released' = released
      BY <1>6, <2>1 DEF SignalQuit
    <3>2. \A v \in Worker : pc'[v] = "none" <=> pc[v] = "none"
      BY <3>1
    <3>3. \A b \in Actor : pc[b] \in {"launch", "launched"} \/ pc'[b] \in {"launch", "launched"} =>
             pc'[b] = pc[b] /\ wakee'[b] = wakee[b]
      BY <3>1 DEF DemandTypes
    <3>4. \A d \in Client :
            (pc[d] \in {"notify", "signal_quit", "release_handle"} /\ back[d] = "normal")
            <=> (pc'[d] \in {"notify", "signal_quit", "release_handle"} /\ back'[d] = "normal")
      BY <3>1, <2>1 DEF DemandTypes
    <3>5. \A d \in Client : pc[d] \in {"notify", "signal_quit", "release_handle"} => wakee'[d] = wakee[d]
      BY <3>1 DEF DemandTypes
    <3> QED BY <3>1, <3>2, <3>3, <3>4, <3>5, HandlesSame
  <2>2. CASE ~(back[c] = "normal")
    <3>1. /\ pc[c] = "signal_quit" /\ pc' = [pc EXCEPT ![c] = "shutdown"]
          /\ my_state' = my_state /\ wakee' = wakee /\ back' = back /\ launched' = launched
          /\ released' = released
      BY <1>6, <2>2 DEF SignalQuit
    <3>2. \A v \in Worker : pc'[v] = "none" <=> pc[v] = "none"
      BY <3>1
    <3>3. \A b \in Actor : pc[b] \in {"launch", "launched"} \/ pc'[b] \in {"launch", "launched"} =>
             pc'[b] = pc[b] /\ wakee'[b] = wakee[b]
      BY <3>1 DEF DemandTypes
    <3>4. \A d \in Client :
            (pc[d] \in {"notify", "signal_quit", "release_handle"} /\ back[d] = "normal")
            <=> (pc'[d] \in {"notify", "signal_quit", "release_handle"} /\ back'[d] = "normal")
      BY <3>1, <2>2 DEF DemandTypes
    <3>5. \A d \in Client : pc[d] \in {"notify", "signal_quit", "release_handle"} => wakee'[d] = wakee[d]
      BY <3>1 DEF DemandTypes
    <3> QED BY <3>1, <3>2, <3>3, <3>4, <3>5, HandlesSame
  <2> QED BY <2>1, <2>2
<1>7. ASSUME NEW c \in Client, ReleaseHandle(c) PROVE Handles'
  <2>1. /\ pc[c] = "release_handle" /\ pc' = [pc EXCEPT ![c] = "shutdown"]
        /\ released' = [released EXCEPT ![wakee[c][1]] = released[wakee[c][1]] + 1]
        /\ my_state' = my_state /\ wakee' = wakee /\ back' = back /\ launched' = launched
    BY <1>7 DEF ReleaseHandle
  <2>2. c \in Actor /\ wakee[c] # <<>> /\ wakee[c][1] \in Worker /\ back[c] = "normal" /\ my_state[wakee[c][1]] = "quit"
    BY <2>1, Popped, Telling, ToWake DEF Popped, Telling
  <2>3. ASSUME NEW v \in Worker PROVE HandleOK(v)'
    <3>1. HandleOK(v)
      BY Handles DEF Handles
    <3>2. \A b \in Actor : Launcher(b, v)' <=> Launcher(b, v)
      BY <2>1 DEF Launcher, Wakee, DemandTypes, StateTypes
    <3>3. \A b \in Actor : Launcher(b, v) => pc'[b] = pc[b]
      BY <2>1 DEF Launcher, DemandTypes, StateTypes
    <3>4. \A d \in Client : ~Releaser(d, v)' /\ (Releaser(d, v) <=> d = c /\ v = wakee[c][1])
      BY <2>1, <2>2, Alone DEF Alone, ClosingPC, Releaser, DemandTypes, StateTypes
    <3>5. /\ pc[v] = "none" <=> pc'[v] = "none"
          /\ released'[v] = IF v = wakee[c][1] THEN released[v] + 1 ELSE released[v]
      BY <2>1, <2>2 DEF DemandTypes, StateTypes
    <3> QED BY <2>1, <2>2, <3>1, <3>2, <3>3, <3>4, <3>5 DEF HandleOK
  <2> QED BY <2>3 DEF Handles
<1>8. ASSUME NEW c \in Client, Closed(c) PROVE Handles'
  <2>1. /\ pc[c] = "shutdown"
        /\ \A w \in Worker : my_state[w] = "quit"
        /\ pc' = [pc EXCEPT ![c] = "closed"]
        /\ my_state' = my_state /\ wakee' = wakee /\ back' = back /\ launched' = launched
        /\ released' = released
    BY <1>8 DEF Closed, RemoveServerRef
  <2>2. \A v \in Worker : pc'[v] = "none" <=> pc[v] = "none"
    BY <2>1
  <2>3. \A b \in Actor : pc[b] \in {"launch", "launched"} \/ pc'[b] \in {"launch", "launched"} =>
           pc'[b] = pc[b] /\ wakee'[b] = wakee[b]
    BY <2>1 DEF DemandTypes
  <2>4. \A d \in Client :
          (pc[d] \in {"notify", "signal_quit", "release_handle"} /\ back[d] = "normal")
          <=> (pc'[d] \in {"notify", "signal_quit", "release_handle"} /\ back'[d] = "normal")
    BY <2>1 DEF DemandTypes
  <2>5. \A d \in Client : pc[d] \in {"notify", "signal_quit", "release_handle"} => wakee'[d] = wakee[d]
    BY <2>1 DEF DemandTypes
  <2> QED BY <2>1, <2>2, <2>3, <2>4, <2>5, HandlesSame
<1>9. ASSUME NEW a \in Actor, WakeLock(a) PROVE Handles'
  <2>1. /\ pc[a] = "wake_lock" /\ mutex = NULL /\ pc' = [pc EXCEPT ![a] = "wake_loop"]
        /\ my_state' = my_state /\ wakee' = wakee /\ back' = back /\ launched' = launched
        /\ released' = released
    BY <1>9 DEF WakeLock
  <2>2. \A v \in Worker : pc'[v] = "none" <=> pc[v] = "none"
    BY <2>1
  <2>3. \A b \in Actor : pc[b] \in {"launch", "launched"} \/ pc'[b] \in {"launch", "launched"} =>
           pc'[b] = pc[b] /\ wakee'[b] = wakee[b]
    BY <2>1 DEF DemandTypes
  <2>4. \A d \in Client :
          (pc[d] \in {"notify", "signal_quit", "release_handle"} /\ back[d] = "normal")
          <=> (pc'[d] \in {"notify", "signal_quit", "release_handle"} /\ back'[d] = "normal")
    BY <2>1 DEF DemandTypes
  <2>5. \A d \in Client : pc[d] \in {"notify", "signal_quit", "release_handle"} => wakee'[d] = wakee[d]
    BY <2>1 DEF DemandTypes
  <2> QED BY <2>1, <2>2, <2>3, <2>4, <2>5, HandlesSame
<1>10. ASSUME NEW a \in Actor, PopForDemand(a) PROVE Handles'
  <2>1. /\ pc[a] = "wake_loop"
        /\ additional[a] > 0 /\ additional[a] + my_slack > 0 /\ asleep # <<>>
        /\ pc' = [pc EXCEPT ![a] = "wake_loop"]
        /\ wakee' = [wakee EXCEPT ![a] = Append(wakee[a], Head(asleep))]
        /\ my_state' = my_state /\ back' = back /\ launched' = launched /\ released' = released
    BY <1>10 DEF PopForDemand, CanPop, Pop
  <2>2. \A v \in Worker : pc'[v] = "none" <=> pc[v] = "none"
    BY <2>1
  <2>3. \A b \in Actor : pc[b] \in {"launch", "launched"} \/ pc'[b] \in {"launch", "launched"} =>
           pc'[b] = pc[b] /\ wakee'[b] = wakee[b]
    BY <2>1 DEF DemandTypes
  <2>4. \A d \in Client :
          (pc[d] \in {"notify", "signal_quit", "release_handle"} /\ back[d] = "normal")
          <=> (pc'[d] \in {"notify", "signal_quit", "release_handle"} /\ back'[d] = "normal")
    BY <2>1 DEF DemandTypes
  <2>5. \A d \in Client : pc[d] \in {"notify", "signal_quit", "release_handle"} => wakee'[d] = wakee[d]
    BY <2>1 DEF DemandTypes
  <2> QED BY <2>1, <2>2, <2>3, <2>4, <2>5, HandlesSame
<1>11. ASSUME NEW a \in Actor, PopForSlack(a) PROVE Handles'
  <2>1. /\ pc[a] = "wake_loop" /\ additional[a] = 0 /\ my_slack > 0 /\ asleep # <<>>
        /\ pc' = [pc EXCEPT ![a] = "wake_loop"]
        /\ wakee' = [wakee EXCEPT ![a] = Append(wakee[a], Head(asleep))]
        /\ my_state' = my_state /\ back' = back /\ launched' = launched /\ released' = released
    BY <1>11 DEF PopForSlack, CanPop, Pop
  <2>2. \A v \in Worker : pc'[v] = "none" <=> pc[v] = "none"
    BY <2>1
  <2>3. \A b \in Actor : pc[b] \in {"launch", "launched"} \/ pc'[b] \in {"launch", "launched"} =>
           pc'[b] = pc[b] /\ wakee'[b] = wakee[b]
    BY <2>1 DEF DemandTypes
  <2>4. \A d \in Client :
          (pc[d] \in {"notify", "signal_quit", "release_handle"} /\ back[d] = "normal")
          <=> (pc'[d] \in {"notify", "signal_quit", "release_handle"} /\ back'[d] = "normal")
    BY <2>1 DEF DemandTypes
  <2>5. \A d \in Client : pc[d] \in {"notify", "signal_quit", "release_handle"} => wakee'[d] = wakee[d]
    BY <2>1 DEF DemandTypes
  <2> QED BY <2>1, <2>2, <2>3, <2>4, <2>5, HandlesSame
<1>12. ASSUME NEW a \in Actor, WakeUnlock(a) PROVE Handles'
  <2>1. /\ pc[a] = "wake_loop" /\ pc' = [pc EXCEPT ![a] = "wake_each"]
        /\ my_state' = my_state /\ wakee' = wakee /\ back' = back /\ launched' = launched
        /\ released' = released
    BY <1>12 DEF WakeUnlock, CanPop
  <2>2. \A v \in Worker : pc'[v] = "none" <=> pc[v] = "none"
    BY <2>1
  <2>3. \A b \in Actor : pc[b] \in {"launch", "launched"} \/ pc'[b] \in {"launch", "launched"} =>
           pc'[b] = pc[b] /\ wakee'[b] = wakee[b]
    BY <2>1 DEF DemandTypes
  <2>4. \A d \in Client :
          (pc[d] \in {"notify", "signal_quit", "release_handle"} /\ back[d] = "normal")
          <=> (pc'[d] \in {"notify", "signal_quit", "release_handle"} /\ back'[d] = "normal")
    BY <2>1 DEF DemandTypes
  <2>5. \A d \in Client : pc[d] \in {"notify", "signal_quit", "release_handle"} => wakee'[d] = wakee[d]
    BY <2>1 DEF DemandTypes
  <2> QED BY <2>1, <2>2, <2>3, <2>4, <2>5, HandlesSame
<1>13. ASSUME NEW a \in Actor, WakeEach(a) PROVE Handles'
  <2>1. CASE my_state[Wakee(a)] = "init"
    <3>1. /\ pc[a] = "wake_each" /\ wakee[a] # <<>>
          /\ pc' = [pc EXCEPT ![a] = "launch"]
          /\ my_state' = [my_state EXCEPT ![Wakee(a)] = "starting"]
          /\ wakee' = wakee /\ back' = back /\ launched' = launched /\ released' = released
      BY <1>13, <2>1 DEF WakeEach
    <3>2. Wakee(a) \in Worker
      BY <3>1, ToWake
    <3>3. ASSUME NEW v \in Worker PROVE HandleOK(v)'
      <4>1. HandleOK(v)
        BY Handles DEF Handles
      <4>2. \A b \in Actor : Launcher(b, v)' <=> (Launcher(b, v) \/ (b = a /\ v = Wakee(a)))
        BY <3>1, <3>2 DEF Launcher, Wakee, DemandTypes, StateTypes
      <4>3. \A b \in Actor : Launcher(b, v) => pc'[b] = pc[b] /\ b # a
        BY <3>1 DEF Launcher, DemandTypes, StateTypes
      <4>4. \A d \in Client : Releaser(d, v)' <=> Releaser(d, v)
        BY <3>1 DEF Releaser, DemandTypes, StateTypes
      <4>5. /\ my_state'[v] = IF v = Wakee(a) THEN "starting" ELSE my_state[v]
            /\ pc'[a] = "launch" /\ (pc[v] = "none" <=> pc'[v] = "none")
        BY <3>1, <3>2 DEF DemandTypes, StateTypes
      <4> QED BY <3>1, <3>2, <2>1, <4>1, <4>2, <4>3, <4>4, <4>5 DEF HandleOK
    <3> QED BY <3>3 DEF Handles
  <2>2. CASE ~(my_state[Wakee(a)] = "init")
    <3>1. /\ pc[a] = "wake_each" /\ wakee[a] # <<>>
          /\ pc' = [pc EXCEPT ![a] = "signal"]
          /\ my_state' = my_state /\ wakee' = wakee /\ back' = back /\ launched' = launched
          /\ released' = released
      BY <1>13, <2>2, SleeperNotified
    <3>2. \A v \in Worker : pc'[v] = "none" <=> pc[v] = "none"
      BY <3>1
    <3>3. \A b \in Actor : pc[b] \in {"launch", "launched"} \/ pc'[b] \in {"launch", "launched"} =>
             pc'[b] = pc[b] /\ wakee'[b] = wakee[b]
      BY <3>1 DEF DemandTypes
    <3>4. \A d \in Client :
            (pc[d] \in {"notify", "signal_quit", "release_handle"} /\ back[d] = "normal")
            <=> (pc'[d] \in {"notify", "signal_quit", "release_handle"} /\ back'[d] = "normal")
      BY <3>1, <2>2 DEF DemandTypes
    <3>5. \A d \in Client : pc[d] \in {"notify", "signal_quit", "release_handle"} => wakee'[d] = wakee[d]
      BY <3>1 DEF DemandTypes
    <3> QED BY <3>1, <3>2, <3>3, <3>4, <3>5, HandlesSame
  <2> QED BY <2>1, <2>2
<1>14. ASSUME NEW a \in Actor, SignalWakee(a) PROVE Handles'
  <2>1. /\ pc[a] = "signal" /\ pc' = [pc EXCEPT ![a] = "wake_each"]
        /\ wakee' = [wakee EXCEPT ![a] = Front(wakee[a])]
        /\ my_state' = my_state /\ back' = back /\ launched' = launched /\ released' = released
    BY <1>14 DEF SignalWakee, Waked
  <2>2. \A v \in Worker : pc'[v] = "none" <=> pc[v] = "none"
    BY <2>1
  <2>3. \A b \in Actor : pc[b] \in {"launch", "launched"} \/ pc'[b] \in {"launch", "launched"} =>
           pc'[b] = pc[b] /\ wakee'[b] = wakee[b]
    BY <2>1 DEF DemandTypes
  <2>4. \A d \in Client :
          (pc[d] \in {"notify", "signal_quit", "release_handle"} /\ back[d] = "normal")
          <=> (pc'[d] \in {"notify", "signal_quit", "release_handle"} /\ back'[d] = "normal")
    BY <2>1 DEF DemandTypes
  <2>5. \A d \in Client : pc[d] \in {"notify", "signal_quit", "release_handle"} => wakee'[d] = wakee[d]
    BY <2>1 DEF DemandTypes
  <2> QED BY <2>1, <2>2, <2>3, <2>4, <2>5, HandlesSame
<1>15. ASSUME NEW a \in Actor, Launch(a) PROVE Handles'
  <2>1. /\ pc[a] = "launch" /\ pc' = [pc EXCEPT ![a] = "launched", ![Wakee(a)] = "run"]
        /\ launched' = launched \cup {Wakee(a)}
        /\ my_state' = my_state /\ wakee' = wakee /\ back' = back /\ released' = released
    BY <1>15 DEF Launch
  <2>2. Wakee(a) \in Worker /\ pc[Wakee(a)] = "none" /\ Wakee(a) # a
    BY <1>15, NotYet
  <2>3. ASSUME NEW v \in Worker PROVE HandleOK(v)'
    <3>1. HandleOK(v)
      BY Handles DEF Handles
    <3>2. \A b \in Actor : Launcher(b, v)' <=> Launcher(b, v)
      BY <2>1, <2>2 DEF Launcher, Wakee, DemandTypes, StateTypes
    <3>3. \A b \in Actor : Launcher(b, v) => (pc'[b] = IF b = a THEN "launched" ELSE pc[b])
      BY <2>1, <2>2 DEF Launcher, DemandTypes, StateTypes
    <3>4. Launcher(a, Wakee(a)) /\ (Launcher(a, v) <=> v = Wakee(a))
      BY <2>1, <2>2 DEF Launcher
    <3>5. \A d \in Client : Releaser(d, v)' <=> Releaser(d, v)
      BY <2>1, <2>2 DEF Releaser, DemandTypes, StateTypes
    <3>6. /\ pc'[v] = "none" <=> pc[v] = "none" /\ v # Wakee(a)
          /\ v \in launched' <=> v \in launched \/ v = Wakee(a)
      BY <2>1, <2>2 DEF DemandTypes, StateTypes
    <3>7. my_state'[v] = my_state[v] /\ released'[v] = released[v]
      BY <2>1
    <3>8. CASE v = Wakee(a)
      <4>1. a \in Actor /\ Launcher(a, v) /\ pc[v] = "none" /\ pc'[v] # "none" /\ pc'[a] = "launched"
        BY <2>2, <3>3, <3>4, <3>6, <3>8
      <4>2. \A b \in Actor : Launcher(b, v) <=> b = a
        BY <3>1, <4>1 DEF HandleOK
      <4>3. my_state[v] \notin {"init", "normal"} /\ released[v] = 0 /\ \A d \in Client : ~Releaser(d, v)
        BY <3>1, <4>1 DEF HandleOK
      <4> QED BY <3>1, <3>2, <3>5, <3>6, <3>7, <3>8, <4>1, <4>2, <4>3 DEF HandleOK
    <3>9. CASE v # Wakee(a)
      BY <3>1, <3>2, <3>3, <3>4, <3>5, <3>6, <3>7, <3>9, <2>1 DEF HandleOK
    <3> QED BY <3>8, <3>9
  <2> QED BY <2>3 DEF Handles
<1>16. ASSUME NEW a \in Actor, Launched(a) PROVE Handles'
  <2>1. CASE my_state[Wakee(a)] = "starting"
    <3>1. /\ pc[a] = "launched" /\ pc' = [pc EXCEPT ![a] = "wake_each"]
          /\ my_state' = [my_state EXCEPT ![Wakee(a)] = "normal"]
          /\ wakee' = [wakee EXCEPT ![a] = Front(wakee[a])]
          /\ back' = back /\ launched' = launched /\ released' = released
      BY <1>16, <2>1 DEF Launched, Waked
    <3>2. wakee[a] # <<>>
      BY <3>1, Popped DEF Popped
    <3>3. Wakee(a) \in Worker
      BY <3>2, ToWake
    <3>4. ASSUME NEW v \in Worker PROVE HandleOK(v)'
      <4>1. HandleOK(v)
        BY Handles DEF Handles
      <4>2. /\ Launcher(a, v) <=> v = Wakee(a)
            /\ ~Launcher(a, v)'
        BY <3>1 DEF Launcher, DemandTypes, StateTypes
      <4>3. \A b \in Actor : b # a => (Launcher(b, v)' <=> Launcher(b, v)) /\ pc'[b] = pc[b]
        BY <3>1 DEF Launcher, Wakee, DemandTypes, StateTypes
      <4>4. \A d \in Client : Releaser(d, v)' <=> Releaser(d, v)
        BY <3>1 DEF Releaser, DemandTypes, StateTypes
      <4>5. /\ my_state'[v] = IF v = Wakee(a) THEN "normal" ELSE my_state[v]
            /\ released'[v] = released[v]
        BY <3>1, <3>3 DEF DemandTypes, StateTypes
      <4>6. /\ pc[v] = "none" <=> pc'[v] = "none"
            /\ launched' = launched /\ pc[a] = "launched"
        BY <3>1 DEF DemandTypes, StateTypes
      <4> QED BY <2>1, <3>3, <4>1, <4>2, <4>3, <4>4, <4>5, <4>6 DEF HandleOK
    <3> QED BY <3>4 DEF Handles
  <2>2. CASE ~(my_state[Wakee(a)] = "starting")
    <3>1. /\ pc[a] = "launched" /\ pc' = [pc EXCEPT ![a] = "wake_each"]
          /\ wakee' = [wakee EXCEPT ![a] = Front(wakee[a])]
          /\ released' = [released EXCEPT ![Wakee(a)] = released[Wakee(a)] + 1]
          /\ my_state' = my_state /\ back' = back /\ launched' = launched
      BY <1>16, <2>2 DEF Launched, Waked
    <3>2. wakee[a] # <<>>
      BY <3>1, Popped DEF Popped
    <3>3. Wakee(a) \in Worker
      BY <3>2, ToWake
    <3>4. ASSUME NEW v \in Worker PROVE HandleOK(v)'
      <4>1. HandleOK(v)
        BY Handles DEF Handles
      <4>2. /\ Launcher(a, v) <=> v = Wakee(a)
            /\ ~Launcher(a, v)'
        BY <3>1 DEF Launcher, DemandTypes, StateTypes
      <4>3. \A b \in Actor : b # a => (Launcher(b, v)' <=> Launcher(b, v)) /\ pc'[b] = pc[b]
        BY <3>1 DEF Launcher, Wakee, DemandTypes, StateTypes
      <4>4. \A d \in Client : Releaser(d, v)' <=> Releaser(d, v)
        BY <3>1 DEF Releaser, DemandTypes, StateTypes
      <4>5. /\ released'[v] = IF v = Wakee(a) THEN released[v] + 1 ELSE released[v]
            /\ my_state'[v] = my_state[v]
        BY <3>1, <3>3 DEF DemandTypes, StateTypes
      <4>6. /\ pc[v] = "none" <=> pc'[v] = "none"
            /\ launched' = launched /\ pc[a] = "launched"
        BY <3>1 DEF DemandTypes, StateTypes
      <4> QED BY <2>2, <3>3, <4>1, <4>2, <4>3, <4>4, <4>5, <4>6 DEF HandleOK
    <3> QED BY <3>4 DEF Handles
  <2> QED BY <2>1, <2>2
<1>17. ASSUME NEW a \in Actor, WakeDone(a) PROVE Handles'
  <2>1. /\ pc[a] = "wake_each" /\ wakee[a] = <<>> /\ pc' = [pc EXCEPT ![a] = back[a]]
        /\ back' = [back EXCEPT ![a] = NULL]
        /\ my_state' = my_state /\ wakee' = wakee /\ launched' = launched /\ released' = released
    BY <1>17 DEF WakeDone
  <2>2. \A v \in Worker : pc'[v] = "none" <=> pc[v] = "none"
    BY <2>1, Returns DEF Returns, WakingPC
  <2>3. \A b \in Actor : pc[b] \in {"launch", "launched"} \/ pc'[b] \in {"launch", "launched"} =>
           pc'[b] = pc[b] /\ wakee'[b] = wakee[b]
    BY <2>1, Returns DEF DemandTypes, Returns, WakingPC
  <2>4. \A d \in Client :
          (pc[d] \in {"notify", "signal_quit", "release_handle"} /\ back[d] = "normal")
          <=> (pc'[d] \in {"notify", "signal_quit", "release_handle"} /\ back'[d] = "normal")
    BY <2>1, Returns DEF DemandTypes, Returns, WakingPC
  <2>5. \A d \in Client : pc[d] \in {"notify", "signal_quit", "release_handle"} => wakee'[d] = wakee[d]
    BY <2>1 DEF DemandTypes
  <2> QED BY <2>1, <2>2, <2>3, <2>4, <2>5, HandlesSame
<1>18. ASSUME NEW w \in Worker, Start(w) PROVE Handles'
  <2>1. CASE asleep = <<>>
    <3>1. /\ pc[w] = "run" /\ pc' = [pc EXCEPT ![w] = "loop"]
          /\ my_state' = my_state /\ wakee' = wakee /\ back' = back /\ launched' = launched
          /\ released' = released
      BY <1>18, <2>1 DEF Start, ChainReaction, WakeSome
    <3>2. \A v \in Worker : pc'[v] = "none" <=> pc[v] = "none"
      BY <3>1
    <3>3. \A b \in Actor : pc[b] \in {"launch", "launched"} \/ pc'[b] \in {"launch", "launched"} =>
             pc'[b] = pc[b] /\ wakee'[b] = wakee[b]
      BY <3>1 DEF DemandTypes
    <3>4. \A d \in Client :
            (pc[d] \in {"notify", "signal_quit", "release_handle"} /\ back[d] = "normal")
            <=> (pc'[d] \in {"notify", "signal_quit", "release_handle"} /\ back'[d] = "normal")
      BY <3>1, <2>1 DEF DemandTypes
    <3>5. \A d \in Client : pc[d] \in {"notify", "signal_quit", "release_handle"} => wakee'[d] = wakee[d]
      BY <3>1 DEF DemandTypes
    <3> QED BY <3>1, <3>2, <3>3, <3>4, <3>5, HandlesSame
  <2>2. CASE ~(asleep = <<>>)
    <3>1. /\ pc[w] = "run" /\ pc' = [pc EXCEPT ![w] = "wake_lock"]
          /\ back' = [back EXCEPT ![w] = "loop"]
          /\ my_state' = my_state /\ wakee' = wakee /\ launched' = launched /\ released' = released
      BY <1>18, <2>2 DEF Start, ChainReaction, WakeSome
    <3>2. \A v \in Worker : pc'[v] = "none" <=> pc[v] = "none"
      BY <3>1
    <3>3. \A b \in Actor : pc[b] \in {"launch", "launched"} \/ pc'[b] \in {"launch", "launched"} =>
             pc'[b] = pc[b] /\ wakee'[b] = wakee[b]
      BY <3>1 DEF DemandTypes
    <3>4. \A d \in Client :
            (pc[d] \in {"notify", "signal_quit", "release_handle"} /\ back[d] = "normal")
            <=> (pc'[d] \in {"notify", "signal_quit", "release_handle"} /\ back'[d] = "normal")
      BY <3>1, <2>2 DEF DemandTypes
    <3>5. \A d \in Client : pc[d] \in {"notify", "signal_quit", "release_handle"} => wakee'[d] = wakee[d]
      BY <3>1 DEF DemandTypes
    <3> QED BY <3>1, <3>2, <3>3, <3>4, <3>5, HandlesSame
  <2> QED BY <2>1, <2>2
<1>19. ASSUME NEW w \in Worker, Idle(w) PROVE Handles'
  <2>1. /\ pc[w] = "loop" /\ my_slack < 0 /\ my_state[w] # "quit"
        /\ pc' = [pc EXCEPT ![w] = "prepare"]
        /\ my_state' = my_state /\ wakee' = wakee /\ back' = back /\ launched' = launched
        /\ released' = released
    BY <1>19 DEF Idle
  <2>2. \A v \in Worker : pc'[v] = "none" <=> pc[v] = "none"
    BY <2>1
  <2>3. \A b \in Actor : pc[b] \in {"launch", "launched"} \/ pc'[b] \in {"launch", "launched"} =>
           pc'[b] = pc[b] /\ wakee'[b] = wakee[b]
    BY <2>1 DEF DemandTypes
  <2>4. \A d \in Client :
          (pc[d] \in {"notify", "signal_quit", "release_handle"} /\ back[d] = "normal")
          <=> (pc'[d] \in {"notify", "signal_quit", "release_handle"} /\ back'[d] = "normal")
    BY <2>1 DEF DemandTypes
  <2>5. \A d \in Client : pc[d] \in {"notify", "signal_quit", "release_handle"} => wakee'[d] = wakee[d]
    BY <2>1 DEF DemandTypes
  <2> QED BY <2>1, <2>2, <2>3, <2>4, <2>5, HandlesSame
<1>20. ASSUME NEW w \in Worker, PrepareWait(w) PROVE Handles'
  <2>1. /\ pc[w] = "prepare"
        /\ spurious[w] => sema[w] = 1
        /\ pc' = [pc EXCEPT ![w] = "check"]
        /\ my_state' = my_state /\ wakee' = wakee /\ back' = back /\ launched' = launched
        /\ released' = released
    BY <1>20 DEF PrepareWait
  <2>2. \A v \in Worker : pc'[v] = "none" <=> pc[v] = "none"
    BY <2>1
  <2>3. \A b \in Actor : pc[b] \in {"launch", "launched"} \/ pc'[b] \in {"launch", "launched"} =>
           pc'[b] = pc[b] /\ wakee'[b] = wakee[b]
    BY <2>1 DEF DemandTypes
  <2>4. \A d \in Client :
          (pc[d] \in {"notify", "signal_quit", "release_handle"} /\ back[d] = "normal")
          <=> (pc'[d] \in {"notify", "signal_quit", "release_handle"} /\ back'[d] = "normal")
    BY <2>1 DEF DemandTypes
  <2>5. \A d \in Client : pc[d] \in {"notify", "signal_quit", "release_handle"} => wakee'[d] = wakee[d]
    BY <2>1 DEF DemandTypes
  <2> QED BY <2>1, <2>2, <2>3, <2>4, <2>5, HandlesSame
<1>21. ASSUME NEW w \in Worker, Check(w) PROVE Handles'
  <2>1. /\ pc[w] = "check"
        /\ pc' = [pc EXCEPT ![w] = IF my_state[w] = "quit" THEN "cancel" ELSE "try_insert"]
        /\ my_state' = my_state /\ wakee' = wakee /\ back' = back /\ launched' = launched
        /\ released' = released
    BY <1>21 DEF Check
  <2>2. \A v \in Worker : pc'[v] = "none" <=> pc[v] = "none"
    BY <2>1
  <2>3. \A b \in Actor : pc[b] \in {"launch", "launched"} \/ pc'[b] \in {"launch", "launched"} =>
           pc'[b] = pc[b] /\ wakee'[b] = wakee[b]
    BY <2>1 DEF DemandTypes
  <2>4. \A d \in Client :
          (pc[d] \in {"notify", "signal_quit", "release_handle"} /\ back[d] = "normal")
          <=> (pc'[d] \in {"notify", "signal_quit", "release_handle"} /\ back'[d] = "normal")
    BY <2>1 DEF DemandTypes
  <2>5. \A d \in Client : pc[d] \in {"notify", "signal_quit", "release_handle"} => wakee'[d] = wakee[d]
    BY <2>1 DEF DemandTypes
  <2> QED BY <2>1, <2>2, <2>3, <2>4, <2>5, HandlesSame
<1>22. ASSUME NEW w \in Worker, TryInsert(w) PROVE Handles'
  <2>1. CASE mutex = NULL
    <3>1. /\ pc[w] = "try_insert" /\ pc' = [pc EXCEPT ![w] = "insert"]
          /\ my_state' = my_state /\ wakee' = wakee /\ back' = back /\ launched' = launched
          /\ released' = released
      BY <1>22, <2>1 DEF TryInsert
    <3>2. \A v \in Worker : pc'[v] = "none" <=> pc[v] = "none"
      BY <3>1
    <3>3. \A b \in Actor : pc[b] \in {"launch", "launched"} \/ pc'[b] \in {"launch", "launched"} =>
             pc'[b] = pc[b] /\ wakee'[b] = wakee[b]
      BY <3>1 DEF DemandTypes
    <3>4. \A d \in Client :
            (pc[d] \in {"notify", "signal_quit", "release_handle"} /\ back[d] = "normal")
            <=> (pc'[d] \in {"notify", "signal_quit", "release_handle"} /\ back'[d] = "normal")
      BY <3>1, <2>1 DEF DemandTypes
    <3>5. \A d \in Client : pc[d] \in {"notify", "signal_quit", "release_handle"} => wakee'[d] = wakee[d]
      BY <3>1 DEF DemandTypes
    <3> QED BY <3>1, <3>2, <3>3, <3>4, <3>5, HandlesSame
  <2>2. CASE ~(mutex = NULL)
    <3>1. /\ pc[w] = "try_insert" /\ pc' = [pc EXCEPT ![w] = "cancel"]
          /\ my_state' = my_state /\ wakee' = wakee /\ back' = back /\ launched' = launched
          /\ released' = released
      BY <1>22, <2>2 DEF TryInsert
    <3>2. \A v \in Worker : pc'[v] = "none" <=> pc[v] = "none"
      BY <3>1
    <3>3. \A b \in Actor : pc[b] \in {"launch", "launched"} \/ pc'[b] \in {"launch", "launched"} =>
             pc'[b] = pc[b] /\ wakee'[b] = wakee[b]
      BY <3>1 DEF DemandTypes
    <3>4. \A d \in Client :
            (pc[d] \in {"notify", "signal_quit", "release_handle"} /\ back[d] = "normal")
            <=> (pc'[d] \in {"notify", "signal_quit", "release_handle"} /\ back'[d] = "normal")
      BY <3>1, <2>2 DEF DemandTypes
    <3>5. \A d \in Client : pc[d] \in {"notify", "signal_quit", "release_handle"} => wakee'[d] = wakee[d]
      BY <3>1 DEF DemandTypes
    <3> QED BY <3>1, <3>2, <3>3, <3>4, <3>5, HandlesSame
  <2> QED BY <2>1, <2>2
<1>23. ASSUME NEW w \in Worker, Insert(w) PROVE Handles'
  <2>1. CASE k[w] <= 0
    <3>1. /\ pc[w] = "insert" /\ pc' = [pc EXCEPT ![w] = "commit"]
          /\ my_state' = my_state /\ wakee' = wakee /\ back' = back /\ launched' = launched
          /\ released' = released
      BY <1>23, <2>1 DEF Insert
    <3>2. \A v \in Worker : pc'[v] = "none" <=> pc[v] = "none"
      BY <3>1
    <3>3. \A b \in Actor : pc[b] \in {"launch", "launched"} \/ pc'[b] \in {"launch", "launched"} =>
             pc'[b] = pc[b] /\ wakee'[b] = wakee[b]
      BY <3>1 DEF DemandTypes
    <3>4. \A d \in Client :
            (pc[d] \in {"notify", "signal_quit", "release_handle"} /\ back[d] = "normal")
            <=> (pc'[d] \in {"notify", "signal_quit", "release_handle"} /\ back'[d] = "normal")
      BY <3>1, <2>1 DEF DemandTypes
    <3>5. \A d \in Client : pc[d] \in {"notify", "signal_quit", "release_handle"} => wakee'[d] = wakee[d]
      BY <3>1 DEF DemandTypes
    <3> QED BY <3>1, <3>2, <3>3, <3>4, <3>5, HandlesSame
  <2>2. CASE ~(k[w] <= 0)
    <3>1. /\ pc[w] = "insert" /\ pc' = [pc EXCEPT ![w] = "cancel"]
          /\ my_state' = my_state /\ wakee' = wakee /\ back' = back /\ launched' = launched
          /\ released' = released
      BY <1>23, <2>2 DEF Insert
    <3>2. \A v \in Worker : pc'[v] = "none" <=> pc[v] = "none"
      BY <3>1
    <3>3. \A b \in Actor : pc[b] \in {"launch", "launched"} \/ pc'[b] \in {"launch", "launched"} =>
             pc'[b] = pc[b] /\ wakee'[b] = wakee[b]
      BY <3>1 DEF DemandTypes
    <3>4. \A d \in Client :
            (pc[d] \in {"notify", "signal_quit", "release_handle"} /\ back[d] = "normal")
            <=> (pc'[d] \in {"notify", "signal_quit", "release_handle"} /\ back'[d] = "normal")
      BY <3>1, <2>2 DEF DemandTypes
    <3>5. \A d \in Client : pc[d] \in {"notify", "signal_quit", "release_handle"} => wakee'[d] = wakee[d]
      BY <3>1 DEF DemandTypes
    <3> QED BY <3>1, <3>2, <3>3, <3>4, <3>5, HandlesSame
  <2> QED BY <2>1, <2>2
<1>24. ASSUME NEW w \in Worker, CancelWait(w) PROVE Handles'
  <2>1. /\ pc[w] = "cancel" /\ pc' = [pc EXCEPT ![w] = "loop"]
        /\ my_state' = my_state /\ wakee' = wakee /\ back' = back /\ launched' = launched
        /\ released' = released
    BY <1>24 DEF CancelWait, Cancel
  <2>2. \A v \in Worker : pc'[v] = "none" <=> pc[v] = "none"
    BY <2>1
  <2>3. \A b \in Actor : pc[b] \in {"launch", "launched"} \/ pc'[b] \in {"launch", "launched"} =>
           pc'[b] = pc[b] /\ wakee'[b] = wakee[b]
    BY <2>1 DEF DemandTypes
  <2>4. \A d \in Client :
          (pc[d] \in {"notify", "signal_quit", "release_handle"} /\ back[d] = "normal")
          <=> (pc'[d] \in {"notify", "signal_quit", "release_handle"} /\ back'[d] = "normal")
    BY <2>1 DEF DemandTypes
  <2>5. \A d \in Client : pc[d] \in {"notify", "signal_quit", "release_handle"} => wakee'[d] = wakee[d]
    BY <2>1 DEF DemandTypes
  <2> QED BY <2>1, <2>2, <2>3, <2>4, <2>5, HandlesSame
<1>25. ASSUME NEW w \in Worker, CommitWait(w) PROVE Handles'
  <2>1. /\ pc[w] = "commit"
        /\ pc' = [pc EXCEPT ![w] = IF notified[w] THEN "late" ELSE "sleep"]
        /\ my_state' = my_state /\ wakee' = wakee /\ back' = back /\ launched' = launched
        /\ released' = released
    BY <1>25 DEF CommitWait
  <2>2. \A v \in Worker : pc'[v] = "none" <=> pc[v] = "none"
    BY <2>1
  <2>3. \A b \in Actor : pc[b] \in {"launch", "launched"} \/ pc'[b] \in {"launch", "launched"} =>
           pc'[b] = pc[b] /\ wakee'[b] = wakee[b]
    BY <2>1 DEF DemandTypes
  <2>4. \A d \in Client :
          (pc[d] \in {"notify", "signal_quit", "release_handle"} /\ back[d] = "normal")
          <=> (pc'[d] \in {"notify", "signal_quit", "release_handle"} /\ back'[d] = "normal")
    BY <2>1 DEF DemandTypes
  <2>5. \A d \in Client : pc[d] \in {"notify", "signal_quit", "release_handle"} => wakee'[d] = wakee[d]
    BY <2>1 DEF DemandTypes
  <2> QED BY <2>1, <2>2, <2>3, <2>4, <2>5, HandlesSame
<1>26. ASSUME NEW w \in Worker, Late(w) PROVE Handles'
  <2>1. /\ pc[w] = "late" /\ pc' = [pc EXCEPT ![w] = "woken"]
        /\ my_state' = my_state /\ wakee' = wakee /\ back' = back /\ launched' = launched
        /\ released' = released
    BY <1>26 DEF Late, Cancel
  <2>2. \A v \in Worker : pc'[v] = "none" <=> pc[v] = "none"
    BY <2>1
  <2>3. \A b \in Actor : pc[b] \in {"launch", "launched"} \/ pc'[b] \in {"launch", "launched"} =>
           pc'[b] = pc[b] /\ wakee'[b] = wakee[b]
    BY <2>1 DEF DemandTypes
  <2>4. \A d \in Client :
          (pc[d] \in {"notify", "signal_quit", "release_handle"} /\ back[d] = "normal")
          <=> (pc'[d] \in {"notify", "signal_quit", "release_handle"} /\ back'[d] = "normal")
    BY <2>1 DEF DemandTypes
  <2>5. \A d \in Client : pc[d] \in {"notify", "signal_quit", "release_handle"} => wakee'[d] = wakee[d]
    BY <2>1 DEF DemandTypes
  <2> QED BY <2>1, <2>2, <2>3, <2>4, <2>5, HandlesSame
<1>27. ASSUME NEW w \in Worker, Sleep(w) PROVE Handles'
  <2>1. /\ pc[w] = "sleep" /\ sema[w] = 1 /\ pc' = [pc EXCEPT ![w] = "woken"]
        /\ my_state' = my_state /\ wakee' = wakee /\ back' = back /\ launched' = launched
        /\ released' = released
    BY <1>27 DEF Sleep
  <2>2. \A v \in Worker : pc'[v] = "none" <=> pc[v] = "none"
    BY <2>1
  <2>3. \A b \in Actor : pc[b] \in {"launch", "launched"} \/ pc'[b] \in {"launch", "launched"} =>
           pc'[b] = pc[b] /\ wakee'[b] = wakee[b]
    BY <2>1 DEF DemandTypes
  <2>4. \A d \in Client :
          (pc[d] \in {"notify", "signal_quit", "release_handle"} /\ back[d] = "normal")
          <=> (pc'[d] \in {"notify", "signal_quit", "release_handle"} /\ back'[d] = "normal")
    BY <2>1 DEF DemandTypes
  <2>5. \A d \in Client : pc[d] \in {"notify", "signal_quit", "release_handle"} => wakee'[d] = wakee[d]
    BY <2>1 DEF DemandTypes
  <2> QED BY <2>1, <2>2, <2>3, <2>4, <2>5, HandlesSame
<1>28. ASSUME NEW w \in Worker, Woken(w) PROVE Handles'
  <2>1. CASE asleep = <<>>
    <3>1. /\ pc[w] = "woken" /\ pc' = [pc EXCEPT ![w] = "loop"]
          /\ my_state' = my_state /\ wakee' = wakee /\ back' = back /\ launched' = launched
          /\ released' = released
      BY <1>28, <2>1 DEF Woken, ChainReaction, WakeSome
    <3>2. \A v \in Worker : pc'[v] = "none" <=> pc[v] = "none"
      BY <3>1
    <3>3. \A b \in Actor : pc[b] \in {"launch", "launched"} \/ pc'[b] \in {"launch", "launched"} =>
             pc'[b] = pc[b] /\ wakee'[b] = wakee[b]
      BY <3>1 DEF DemandTypes
    <3>4. \A d \in Client :
            (pc[d] \in {"notify", "signal_quit", "release_handle"} /\ back[d] = "normal")
            <=> (pc'[d] \in {"notify", "signal_quit", "release_handle"} /\ back'[d] = "normal")
      BY <3>1, <2>1 DEF DemandTypes
    <3>5. \A d \in Client : pc[d] \in {"notify", "signal_quit", "release_handle"} => wakee'[d] = wakee[d]
      BY <3>1 DEF DemandTypes
    <3> QED BY <3>1, <3>2, <3>3, <3>4, <3>5, HandlesSame
  <2>2. CASE ~(asleep = <<>>)
    <3>1. /\ pc[w] = "woken" /\ pc' = [pc EXCEPT ![w] = "wake_lock"]
          /\ back' = [back EXCEPT ![w] = "loop"]
          /\ my_state' = my_state /\ wakee' = wakee /\ launched' = launched /\ released' = released
      BY <1>28, <2>2 DEF Woken, ChainReaction, WakeSome
    <3>2. \A v \in Worker : pc'[v] = "none" <=> pc[v] = "none"
      BY <3>1
    <3>3. \A b \in Actor : pc[b] \in {"launch", "launched"} \/ pc'[b] \in {"launch", "launched"} =>
             pc'[b] = pc[b] /\ wakee'[b] = wakee[b]
      BY <3>1 DEF DemandTypes
    <3>4. \A d \in Client :
            (pc[d] \in {"notify", "signal_quit", "release_handle"} /\ back[d] = "normal")
            <=> (pc'[d] \in {"notify", "signal_quit", "release_handle"} /\ back'[d] = "normal")
      BY <3>1, <2>2 DEF DemandTypes
    <3>5. \A d \in Client : pc[d] \in {"notify", "signal_quit", "release_handle"} => wakee'[d] = wakee[d]
      BY <3>1 DEF DemandTypes
    <3> QED BY <3>1, <3>2, <3>3, <3>4, <3>5, HandlesSame
  <2> QED BY <2>1, <2>2
<1>29. ASSUME NEW w \in Worker, Quit(w) PROVE Handles'
  <2>1. /\ pc[w] = "loop" /\ my_state[w] = "quit" /\ pc' = [pc EXCEPT ![w] = "quit"]
        /\ my_state' = my_state /\ wakee' = wakee /\ back' = back /\ launched' = launched
        /\ released' = released
    BY <1>29 DEF Quit
  <2>2. \A v \in Worker : pc'[v] = "none" <=> pc[v] = "none"
    BY <2>1
  <2>3. \A b \in Actor : pc[b] \in {"launch", "launched"} \/ pc'[b] \in {"launch", "launched"} =>
           pc'[b] = pc[b] /\ wakee'[b] = wakee[b]
    BY <2>1 DEF DemandTypes
  <2>4. \A d \in Client :
          (pc[d] \in {"notify", "signal_quit", "release_handle"} /\ back[d] = "normal")
          <=> (pc'[d] \in {"notify", "signal_quit", "release_handle"} /\ back'[d] = "normal")
    BY <2>1 DEF DemandTypes
  <2>5. \A d \in Client : pc[d] \in {"notify", "signal_quit", "release_handle"} => wakee'[d] = wakee[d]
    BY <2>1 DEF DemandTypes
  <2> QED BY <2>1, <2>2, <2>3, <2>4, <2>5, HandlesSame
<1>30. ASSUME NEW w \in Worker, End(w) PROVE Handles'
  <2>1. /\ pc[w] = "quit" /\ pc' = [pc EXCEPT ![w] = "end"]
        /\ my_state' = my_state /\ wakee' = wakee /\ back' = back /\ launched' = launched
        /\ released' = released
    BY <1>30 DEF End, RemoveServerRef
  <2>2. \A v \in Worker : pc'[v] = "none" <=> pc[v] = "none"
    BY <2>1
  <2>3. \A b \in Actor : pc[b] \in {"launch", "launched"} \/ pc'[b] \in {"launch", "launched"} =>
           pc'[b] = pc[b] /\ wakee'[b] = wakee[b]
    BY <2>1 DEF DemandTypes
  <2>4. \A d \in Client :
          (pc[d] \in {"notify", "signal_quit", "release_handle"} /\ back[d] = "normal")
          <=> (pc'[d] \in {"notify", "signal_quit", "release_handle"} /\ back'[d] = "normal")
    BY <2>1 DEF DemandTypes
  <2>5. \A d \in Client : pc[d] \in {"notify", "signal_quit", "release_handle"} => wakee'[d] = wakee[d]
    BY <2>1 DEF DemandTypes
  <2> QED BY <2>1, <2>2, <2>3, <2>4, <2>5, HandlesSame
<1> QED BY <1>1, <1>2, <1>3, <1>4, <1>5, <1>6, <1>7, <1>8, <1>9, <1>10, <1>11, <1>12,
   <1>13, <1>14, <1>15, <1>16, <1>17, <1>18, <1>19, <1>20, <1>21, <1>22, <1>23, <1>24,
   <1>25, <1>26, <1>27, <1>28, <1>29, <1>30, Next DEF Next, ShutDown, Waking, Run

\* The same workers have a reference as long as the same are dropped and at their end.
LEMMA RefsSame ==
    ASSUME Refs, my_ref_count' = my_ref_count, freed' = freed,
           \A v \in Worker : (pc'[v] = "end" <=> pc[v] = "end") /\ (Dropped(v)' <=> Dropped(v)),
           Shut' <=> Shut
    PROVE  Refs'
<1>1. Counted' = Counted
  BY DEF Counted
<1> QED BY <1>1 DEF Refs
LEMMA DroppedSame ==
    ASSUME my_state' = my_state, \A v \in Worker : pc'[v] = "none" <=> pc[v] = "none",
           \A b \in Actor : pc[b] \in {"launch", "launched"} \/ pc'[b] \in {"launch", "launched"} =>
               pc'[b] = pc[b] /\ wakee'[b] = wakee[b]
    PROVE  \A v \in Worker : Dropped(v)' <=> Dropped(v)
<1>1. \A a \in Actor, v \in Worker : Launcher(a, v)' <=> Launcher(a, v)
  BY DEF Launcher, Wakee
<1> QED BY <1>1 DEF Dropped
LEMMA CountedIs == ASSUME Assumptions PROVE IsFiniteSet(Counted) /\ Cardinality(Counted) \in Nat
<1>1. Counted \in SUBSET Worker
  BY DEF Counted
<1> QED BY <1>1, Threads, FS_Subset, FS_CardinalityType

\* The server is referred to by the workers that have not ended and by the market.
LEMMA RefsStep ==
    ASSUME Assumptions, Types, Popped, Handles, Returns, Alone, Refs, Next
    PROVE  Refs'
<1> USE Threads, Types DEF Types, PlaceTypes, Actor, Set, Goto, Jump, server, monitor,
        waking, demand, hist
<1>1. ASSUME NEW c \in Client, NEW delta \in 1..MaxDelta, Request(c, delta) PROVE Refs'
  <2>1. /\ pc[c] = "idle"
        /\ ~Closing /\ asked[c] = 0 /\ SumFunction(asked) + delta <= Cardinality(Worker)
        /\ pc' = [pc EXCEPT ![c] = "wake_lock"]
        /\ my_state' = my_state /\ wakee' = wakee /\ my_ref_count' = my_ref_count /\ freed' = freed
    BY <1>1 DEF Request, WakeSome
  <2>2. \A v \in Worker : pc'[v] = "none" <=> pc[v] = "none"
    BY <2>1
  <2>3. \A b \in Actor : pc[b] \in {"launch", "launched"} \/ pc'[b] \in {"launch", "launched"} =>
           pc'[b] = pc[b] /\ wakee'[b] = wakee[b]
    BY <2>1 DEF DemandTypes
  <2>4. \A v \in Worker : Dropped(v)' <=> Dropped(v)
    BY <2>1, <2>2, <2>3, DroppedSame
  <2>5. /\ \A v \in Worker : pc'[v] = "end" <=> pc[v] = "end"
        /\ \A d \in Client : pc'[d] = "closed" <=> pc[d] = "closed"
    BY <2>1
  <2>6. Shut' <=> Shut
    BY <2>5 DEF Shut
  <2> QED BY <2>1, <2>4, <2>5, <2>6, RefsSame
<1>2. ASSUME NEW c \in Client, Return(c) PROVE Refs'
  <2>1. /\ pc[c] = "idle" /\ asked[c] > 0 /\ pc' = [pc EXCEPT ![c] = "idle"]
        /\ my_state' = my_state /\ wakee' = wakee /\ my_ref_count' = my_ref_count /\ freed' = freed
    BY <1>2 DEF Return
  <2>2. \A v \in Worker : pc'[v] = "none" <=> pc[v] = "none"
    BY <2>1
  <2>3. \A b \in Actor : pc[b] \in {"launch", "launched"} \/ pc'[b] \in {"launch", "launched"} =>
           pc'[b] = pc[b] /\ wakee'[b] = wakee[b]
    BY <2>1 DEF DemandTypes
  <2>4. \A v \in Worker : Dropped(v)' <=> Dropped(v)
    BY <2>1, <2>2, <2>3, DroppedSame
  <2>5. /\ \A v \in Worker : pc'[v] = "end" <=> pc[v] = "end"
        /\ \A d \in Client : pc'[d] = "closed" <=> pc[d] = "closed"
    BY <2>1
  <2>6. Shut' <=> Shut
    BY <2>5 DEF Shut
  <2> QED BY <2>1, <2>4, <2>5, <2>6, RefsSame
<1>3. ASSUME NEW c \in Client, Close(c) PROVE Refs'
  <2>1. /\ pc[c] = "idle"
        /\ \A d \in Client : pc[d] = "idle" /\ asked[d] = 0
        /\ pc' = [pc EXCEPT ![c] = "shutdown"]
        /\ my_state' = my_state /\ wakee' = wakee /\ my_ref_count' = my_ref_count /\ freed' = freed
    BY <1>3 DEF Close
  <2>2. \A v \in Worker : pc'[v] = "none" <=> pc[v] = "none"
    BY <2>1
  <2>3. \A b \in Actor : pc[b] \in {"launch", "launched"} \/ pc'[b] \in {"launch", "launched"} =>
           pc'[b] = pc[b] /\ wakee'[b] = wakee[b]
    BY <2>1 DEF DemandTypes
  <2>4. \A v \in Worker : Dropped(v)' <=> Dropped(v)
    BY <2>1, <2>2, <2>3, DroppedSame
  <2>5. /\ \A v \in Worker : pc'[v] = "end" <=> pc[v] = "end"
        /\ \A d \in Client : pc'[d] = "closed" <=> pc[d] = "closed"
    BY <2>1
  <2>6. Shut' <=> Shut
    BY <2>5 DEF Shut
  <2> QED BY <2>1, <2>4, <2>5, <2>6, RefsSame
<1>4. ASSUME NEW c \in Client, NEW w \in Worker, StartShutdown(c, w) PROVE Refs'
  <2>1. CASE my_state[w] = "init"
    <3>1. /\ pc[c] = "shutdown" /\ my_state[w] # "quit"
          /\ pc' = [pc EXCEPT ![c] = "shutdown"]
          /\ my_state' = [my_state EXCEPT ![w] = "quit"]
          /\ wakee' = [wakee EXCEPT ![c] = <<w>>] /\ my_ref_count' = my_ref_count - 1
          /\ freed' = (my_ref_count = 1)
      BY <1>4, <2>1 DEF StartShutdown, RemoveServerRef
    <3>2. \A b \in Actor, v \in Worker : Launcher(b, v)' <=> Launcher(b, v)
      BY <3>1 DEF Launcher, Wakee, DemandTypes
    <3>3. /\ my_state[w] = "init" => pc[w] = "none" /\ \A b \in Actor : ~Launcher(b, w)
          /\ my_state[w] = "starting" => \E b \in Actor : Launcher(b, w)
          /\ my_state[w] = "normal" => pc[w] # "none"
      BY Handles DEF Handles, HandleOK
    <3>4. \A v \in Worker : Dropped(v)' <=> (Dropped(v) \/ v = w)
      BY <2>1, <3>1, <3>2, <3>3 DEF Dropped, StateTypes
    <3>5. ~Dropped(w)
      BY <3>1 DEF Dropped
    <3>6. pc[w] # "end"
      BY <2>1, <3>3
    <3>7. pc' = pc
      BY <3>1
    <3>8. /\ Counted' = Counted \ {w} /\ w \in Counted
          /\ Shut' <=> Shut
      BY <3>4, <3>5, <3>6, <3>7 DEF Counted, Shut
    <3>9. Cardinality(Counted') = Cardinality(Counted) - 1 /\ Cardinality(Counted) \in Nat
      BY <3>8, CountedIs, FS_RemoveElement
    <3>10. my_ref_count' = my_ref_count - 1 /\ my_ref_count \in Int /\ (freed' <=> my_ref_count = 1)
      BY <3>1 DEF ServerTypes
    <3> QED BY <3>8, <3>9, <3>10, Refs DEF Refs
  <2>2. CASE ~(my_state[w] = "init")
    <3>1. /\ pc[c] = "shutdown" /\ my_state[w] # "quit"
          /\ pc' = [pc EXCEPT ![c] = "notify"]
          /\ my_state' = [my_state EXCEPT ![w] = "quit"]
          /\ wakee' = [wakee EXCEPT ![c] = <<w>>]
          /\ my_ref_count' = my_ref_count /\ freed' = freed
      BY <1>4, <2>2 DEF StartShutdown, RemoveServerRef
    <3>2. \A b \in Actor, v \in Worker : Launcher(b, v)' <=> Launcher(b, v)
      BY <3>1 DEF Launcher, Wakee, DemandTypes
    <3>3. /\ my_state[w] = "init" => pc[w] = "none" /\ \A b \in Actor : ~Launcher(b, w)
          /\ my_state[w] = "starting" => \E b \in Actor : Launcher(b, w)
          /\ my_state[w] = "normal" => pc[w] # "none"
      BY Handles DEF Handles, HandleOK
    <3>4. \A v \in Worker : Dropped(v)' <=> Dropped(v)
      BY <2>2, <3>1, <3>2, <3>3 DEF Dropped, StateTypes
    <3>5. /\ \A v \in Worker : pc'[v] = "end" <=> pc[v] = "end"
          /\ \A d \in Client : pc'[d] = "closed" <=> pc[d] = "closed"
      BY <3>1
    <3>6. Shut' <=> Shut
      BY <3>5 DEF Shut
    <3> QED BY <3>1, <3>4, <3>5, <3>6, RefsSame
  <2> QED BY <2>1, <2>2
<1>5. ASSUME NEW c \in Client, NotifyQuit(c) PROVE Refs'
  <2>1. /\ pc[c] = "notify" /\ pc' = [pc EXCEPT ![c] = "signal_quit"]
        /\ my_state' = my_state /\ wakee' = wakee /\ my_ref_count' = my_ref_count /\ freed' = freed
    BY <1>5, QuitNotified
  <2>2. \A v \in Worker : pc'[v] = "none" <=> pc[v] = "none"
    BY <2>1
  <2>3. \A b \in Actor : pc[b] \in {"launch", "launched"} \/ pc'[b] \in {"launch", "launched"} =>
           pc'[b] = pc[b] /\ wakee'[b] = wakee[b]
    BY <2>1 DEF DemandTypes
  <2>4. \A v \in Worker : Dropped(v)' <=> Dropped(v)
    BY <2>1, <2>2, <2>3, DroppedSame
  <2>5. /\ \A v \in Worker : pc'[v] = "end" <=> pc[v] = "end"
        /\ \A d \in Client : pc'[d] = "closed" <=> pc[d] = "closed"
    BY <2>1
  <2>6. Shut' <=> Shut
    BY <2>5 DEF Shut
  <2> QED BY <2>1, <2>4, <2>5, <2>6, RefsSame
<1>6. ASSUME NEW c \in Client, SignalQuit(c) PROVE Refs'
  <2>1. CASE back[c] = "normal"
    <3>1. /\ pc[c] = "signal_quit" /\ pc' = [pc EXCEPT ![c] = "release_handle"]
          /\ my_state' = my_state /\ wakee' = wakee /\ my_ref_count' = my_ref_count /\ freed' = freed
      BY <1>6, <2>1 DEF SignalQuit
    <3>2. \A v \in Worker : pc'[v] = "none" <=> pc[v] = "none"
      BY <3>1
    <3>3. \A b \in Actor : pc[b] \in {"launch", "launched"} \/ pc'[b] \in {"launch", "launched"} =>
             pc'[b] = pc[b] /\ wakee'[b] = wakee[b]
      BY <3>1 DEF DemandTypes
    <3>4. \A v \in Worker : Dropped(v)' <=> Dropped(v)
      BY <3>1, <3>2, <3>3, DroppedSame
    <3>5. /\ \A v \in Worker : pc'[v] = "end" <=> pc[v] = "end"
          /\ \A d \in Client : pc'[d] = "closed" <=> pc[d] = "closed"
      BY <3>1
    <3>6. Shut' <=> Shut
      BY <3>5 DEF Shut
    <3> QED BY <3>1, <3>4, <3>5, <3>6, RefsSame
  <2>2. CASE ~(back[c] = "normal")
    <3>1. /\ pc[c] = "signal_quit" /\ pc' = [pc EXCEPT ![c] = "shutdown"]
          /\ my_state' = my_state /\ wakee' = wakee /\ my_ref_count' = my_ref_count /\ freed' = freed
      BY <1>6, <2>2 DEF SignalQuit
    <3>2. \A v \in Worker : pc'[v] = "none" <=> pc[v] = "none"
      BY <3>1
    <3>3. \A b \in Actor : pc[b] \in {"launch", "launched"} \/ pc'[b] \in {"launch", "launched"} =>
             pc'[b] = pc[b] /\ wakee'[b] = wakee[b]
      BY <3>1 DEF DemandTypes
    <3>4. \A v \in Worker : Dropped(v)' <=> Dropped(v)
      BY <3>1, <3>2, <3>3, DroppedSame
    <3>5. /\ \A v \in Worker : pc'[v] = "end" <=> pc[v] = "end"
          /\ \A d \in Client : pc'[d] = "closed" <=> pc[d] = "closed"
      BY <3>1
    <3>6. Shut' <=> Shut
      BY <3>5 DEF Shut
    <3> QED BY <3>1, <3>4, <3>5, <3>6, RefsSame
  <2> QED BY <2>1, <2>2
<1>7. ASSUME NEW c \in Client, ReleaseHandle(c) PROVE Refs'
  <2>1. /\ pc[c] = "release_handle" /\ pc' = [pc EXCEPT ![c] = "shutdown"]
        /\ my_state' = my_state /\ wakee' = wakee /\ my_ref_count' = my_ref_count /\ freed' = freed
    BY <1>7 DEF ReleaseHandle
  <2>2. \A v \in Worker : pc'[v] = "none" <=> pc[v] = "none"
    BY <2>1
  <2>3. \A b \in Actor : pc[b] \in {"launch", "launched"} \/ pc'[b] \in {"launch", "launched"} =>
           pc'[b] = pc[b] /\ wakee'[b] = wakee[b]
    BY <2>1 DEF DemandTypes
  <2>4. \A v \in Worker : Dropped(v)' <=> Dropped(v)
    BY <2>1, <2>2, <2>3, DroppedSame
  <2>5. /\ \A v \in Worker : pc'[v] = "end" <=> pc[v] = "end"
        /\ \A d \in Client : pc'[d] = "closed" <=> pc[d] = "closed"
    BY <2>1
  <2>6. Shut' <=> Shut
    BY <2>5 DEF Shut
  <2> QED BY <2>1, <2>4, <2>5, <2>6, RefsSame
<1>8. ASSUME NEW c \in Client, Closed(c) PROVE Refs'
  <2>1. /\ pc[c] = "shutdown"
        /\ \A w \in Worker : my_state[w] = "quit"
        /\ pc' = [pc EXCEPT ![c] = "closed"] /\ my_ref_count' = my_ref_count - 1
        /\ freed' = (my_ref_count = 1) /\ my_state' = my_state /\ wakee' = wakee
    BY <1>8 DEF Closed, RemoveServerRef
  <2>2. \A v \in Worker : pc'[v] = "none" <=> pc[v] = "none"
    BY <2>1
  <2>3. \A b \in Actor : pc[b] \in {"launch", "launched"} \/ pc'[b] \in {"launch", "launched"} =>
         pc'[b] = pc[b] /\ wakee'[b] = wakee[b]
    BY <2>1 DEF DemandTypes
  <2>4. \A v \in Worker : Dropped(v)' <=> Dropped(v)
    BY <2>1, <2>2, <2>3, DroppedSame
  <2>5. \A v \in Actor : pc'[v] = IF v = c THEN "closed" ELSE pc[v]
    BY <2>1
  <2>6. Shut' /\ ~Shut
    BY <2>1, <2>5, Alone DEF Shut, Alone, ClosingPC
  <2>7. Counted' = Counted
    BY <2>4, <2>5 DEF Counted
  <2>8. my_ref_count' = my_ref_count - 1 /\ my_ref_count \in Int /\ (freed' <=> my_ref_count = 1)
    BY <2>1 DEF ServerTypes
  <2> QED BY <2>6, <2>7, <2>8, CountedIs, Refs DEF Refs
<1>9. ASSUME NEW a \in Actor, WakeLock(a) PROVE Refs'
  <2>1. /\ pc[a] = "wake_lock" /\ mutex = NULL /\ pc' = [pc EXCEPT ![a] = "wake_loop"]
        /\ my_state' = my_state /\ wakee' = wakee /\ my_ref_count' = my_ref_count /\ freed' = freed
    BY <1>9 DEF WakeLock
  <2>2. \A v \in Worker : pc'[v] = "none" <=> pc[v] = "none"
    BY <2>1
  <2>3. \A b \in Actor : pc[b] \in {"launch", "launched"} \/ pc'[b] \in {"launch", "launched"} =>
           pc'[b] = pc[b] /\ wakee'[b] = wakee[b]
    BY <2>1 DEF DemandTypes
  <2>4. \A v \in Worker : Dropped(v)' <=> Dropped(v)
    BY <2>1, <2>2, <2>3, DroppedSame
  <2>5. /\ \A v \in Worker : pc'[v] = "end" <=> pc[v] = "end"
        /\ \A d \in Client : pc'[d] = "closed" <=> pc[d] = "closed"
    BY <2>1
  <2>6. Shut' <=> Shut
    BY <2>5 DEF Shut
  <2> QED BY <2>1, <2>4, <2>5, <2>6, RefsSame
<1>10. ASSUME NEW a \in Actor, PopForDemand(a) PROVE Refs'
  <2>1. /\ pc[a] = "wake_loop"
        /\ additional[a] > 0 /\ additional[a] + my_slack > 0 /\ asleep # <<>>
        /\ pc' = [pc EXCEPT ![a] = "wake_loop"]
        /\ wakee' = [wakee EXCEPT ![a] = Append(wakee[a], Head(asleep))]
        /\ my_state' = my_state /\ my_ref_count' = my_ref_count /\ freed' = freed
    BY <1>10 DEF PopForDemand, CanPop, Pop
  <2>2. \A v \in Worker : pc'[v] = "none" <=> pc[v] = "none"
    BY <2>1
  <2>3. \A b \in Actor : pc[b] \in {"launch", "launched"} \/ pc'[b] \in {"launch", "launched"} =>
           pc'[b] = pc[b] /\ wakee'[b] = wakee[b]
    BY <2>1 DEF DemandTypes
  <2>4. \A v \in Worker : Dropped(v)' <=> Dropped(v)
    BY <2>1, <2>2, <2>3, DroppedSame
  <2>5. /\ \A v \in Worker : pc'[v] = "end" <=> pc[v] = "end"
        /\ \A d \in Client : pc'[d] = "closed" <=> pc[d] = "closed"
    BY <2>1
  <2>6. Shut' <=> Shut
    BY <2>5 DEF Shut
  <2> QED BY <2>1, <2>4, <2>5, <2>6, RefsSame
<1>11. ASSUME NEW a \in Actor, PopForSlack(a) PROVE Refs'
  <2>1. /\ pc[a] = "wake_loop" /\ additional[a] = 0 /\ my_slack > 0 /\ asleep # <<>>
        /\ pc' = [pc EXCEPT ![a] = "wake_loop"]
        /\ wakee' = [wakee EXCEPT ![a] = Append(wakee[a], Head(asleep))]
        /\ my_state' = my_state /\ my_ref_count' = my_ref_count /\ freed' = freed
    BY <1>11 DEF PopForSlack, CanPop, Pop
  <2>2. \A v \in Worker : pc'[v] = "none" <=> pc[v] = "none"
    BY <2>1
  <2>3. \A b \in Actor : pc[b] \in {"launch", "launched"} \/ pc'[b] \in {"launch", "launched"} =>
           pc'[b] = pc[b] /\ wakee'[b] = wakee[b]
    BY <2>1 DEF DemandTypes
  <2>4. \A v \in Worker : Dropped(v)' <=> Dropped(v)
    BY <2>1, <2>2, <2>3, DroppedSame
  <2>5. /\ \A v \in Worker : pc'[v] = "end" <=> pc[v] = "end"
        /\ \A d \in Client : pc'[d] = "closed" <=> pc[d] = "closed"
    BY <2>1
  <2>6. Shut' <=> Shut
    BY <2>5 DEF Shut
  <2> QED BY <2>1, <2>4, <2>5, <2>6, RefsSame
<1>12. ASSUME NEW a \in Actor, WakeUnlock(a) PROVE Refs'
  <2>1. /\ pc[a] = "wake_loop" /\ pc' = [pc EXCEPT ![a] = "wake_each"]
        /\ my_state' = my_state /\ wakee' = wakee /\ my_ref_count' = my_ref_count /\ freed' = freed
    BY <1>12 DEF WakeUnlock, CanPop
  <2>2. \A v \in Worker : pc'[v] = "none" <=> pc[v] = "none"
    BY <2>1
  <2>3. \A b \in Actor : pc[b] \in {"launch", "launched"} \/ pc'[b] \in {"launch", "launched"} =>
           pc'[b] = pc[b] /\ wakee'[b] = wakee[b]
    BY <2>1 DEF DemandTypes
  <2>4. \A v \in Worker : Dropped(v)' <=> Dropped(v)
    BY <2>1, <2>2, <2>3, DroppedSame
  <2>5. /\ \A v \in Worker : pc'[v] = "end" <=> pc[v] = "end"
        /\ \A d \in Client : pc'[d] = "closed" <=> pc[d] = "closed"
    BY <2>1
  <2>6. Shut' <=> Shut
    BY <2>5 DEF Shut
  <2> QED BY <2>1, <2>4, <2>5, <2>6, RefsSame
<1>13. ASSUME NEW a \in Actor, WakeEach(a) PROVE Refs'
  <2>1. CASE my_state[Wakee(a)] = "init"
    <3>1. /\ pc[a] = "wake_each" /\ wakee[a] # <<>>
          /\ pc' = [pc EXCEPT ![a] = "launch"]
          /\ my_state' = [my_state EXCEPT ![Wakee(a)] = "starting"]
          /\ wakee' = wakee /\ my_ref_count' = my_ref_count /\ freed' = freed
      BY <1>13, <2>1 DEF WakeEach
    <3>2. Wakee(a) \in Worker
      BY <3>1, ToWake
    <3>3. \A v \in Worker : Dropped(v)' <=> Dropped(v)
      BY <2>1, <3>1, <3>2 DEF Dropped, Launcher, Wakee, DemandTypes, StateTypes
    <3>4. /\ \A v \in Worker : pc'[v] = "end" <=> pc[v] = "end"
          /\ \A d \in Client : pc'[d] = "closed" <=> pc[d] = "closed"
      BY <3>1
    <3>5. Shut' <=> Shut
      BY <3>4 DEF Shut
    <3> QED BY <3>1, <3>3, <3>4, <3>5, RefsSame
  <2>2. CASE ~(my_state[Wakee(a)] = "init")
    <3>1. /\ pc[a] = "wake_each" /\ wakee[a] # <<>>
          /\ pc' = [pc EXCEPT ![a] = "signal"]
          /\ my_state' = my_state /\ wakee' = wakee /\ my_ref_count' = my_ref_count /\ freed' = freed
      BY <1>13, <2>2, SleeperNotified
    <3>2. \A v \in Worker : pc'[v] = "none" <=> pc[v] = "none"
      BY <3>1
    <3>3. \A b \in Actor : pc[b] \in {"launch", "launched"} \/ pc'[b] \in {"launch", "launched"} =>
             pc'[b] = pc[b] /\ wakee'[b] = wakee[b]
      BY <3>1 DEF DemandTypes
    <3>4. \A v \in Worker : Dropped(v)' <=> Dropped(v)
      BY <3>1, <3>2, <3>3, DroppedSame
    <3>5. /\ \A v \in Worker : pc'[v] = "end" <=> pc[v] = "end"
          /\ \A d \in Client : pc'[d] = "closed" <=> pc[d] = "closed"
      BY <3>1
    <3>6. Shut' <=> Shut
      BY <3>5 DEF Shut
    <3> QED BY <3>1, <3>4, <3>5, <3>6, RefsSame
  <2> QED BY <2>1, <2>2
<1>14. ASSUME NEW a \in Actor, SignalWakee(a) PROVE Refs'
  <2>1. /\ pc[a] = "signal" /\ pc' = [pc EXCEPT ![a] = "wake_each"]
        /\ wakee' = [wakee EXCEPT ![a] = Front(wakee[a])]
        /\ my_state' = my_state /\ my_ref_count' = my_ref_count /\ freed' = freed
    BY <1>14 DEF SignalWakee, Waked
  <2>2. \A v \in Worker : pc'[v] = "none" <=> pc[v] = "none"
    BY <2>1
  <2>3. \A b \in Actor : pc[b] \in {"launch", "launched"} \/ pc'[b] \in {"launch", "launched"} =>
           pc'[b] = pc[b] /\ wakee'[b] = wakee[b]
    BY <2>1 DEF DemandTypes
  <2>4. \A v \in Worker : Dropped(v)' <=> Dropped(v)
    BY <2>1, <2>2, <2>3, DroppedSame
  <2>5. /\ \A v \in Worker : pc'[v] = "end" <=> pc[v] = "end"
        /\ \A d \in Client : pc'[d] = "closed" <=> pc[d] = "closed"
    BY <2>1
  <2>6. Shut' <=> Shut
    BY <2>5 DEF Shut
  <2> QED BY <2>1, <2>4, <2>5, <2>6, RefsSame
<1>15. ASSUME NEW a \in Actor, Launch(a) PROVE Refs'
  <2>1. /\ pc[a] = "launch" /\ pc' = [pc EXCEPT ![a] = "launched", ![Wakee(a)] = "run"]
        /\ my_state' = my_state /\ wakee' = wakee /\ my_ref_count' = my_ref_count /\ freed' = freed
    BY <1>15 DEF Launch
  <2>2. Wakee(a) \in Worker /\ pc[Wakee(a)] = "none" /\ Wakee(a) # a
    BY <1>15, NotYet
  <2>3. \A v \in Worker : Dropped(v)' <=> Dropped(v)
    BY <2>1, <2>2 DEF Dropped, Launcher, Wakee, DemandTypes, StateTypes
  <2>4. /\ \A v \in Worker : pc'[v] = "end" <=> pc[v] = "end"
        /\ \A d \in Client : pc'[d] = "closed" <=> pc[d] = "closed"
    BY <2>2, <2>1
  <2>5. Shut' <=> Shut
    BY <2>4 DEF Shut
  <2> QED BY <2>1, <2>3, <2>4, <2>5, RefsSame
<1>16. ASSUME NEW a \in Actor, Launched(a) PROVE Refs'
  <2>1. CASE my_state[Wakee(a)] = "starting"
    <3>1. /\ pc[a] = "launched" /\ pc' = [pc EXCEPT ![a] = "wake_each"]
          /\ my_state' = [my_state EXCEPT ![Wakee(a)] = "normal"]
          /\ wakee' = [wakee EXCEPT ![a] = Front(wakee[a])]
          /\ my_ref_count' = my_ref_count /\ freed' = freed
      BY <1>16, <2>1 DEF Launched, Waked
    <3>2. wakee[a] # <<>>
      BY <3>1, Popped DEF Popped
    <3>3. Wakee(a) \in Worker
      BY <3>2, ToWake
    <3>4. /\ my_state[Wakee(a)] \in {"starting", "quit"} /\ pc[Wakee(a)] # "none"
          /\ \A b \in Actor : b # a => ~Launcher(b, Wakee(a))
      BY <3>1, <3>3, Handles DEF Handles, HandleOK, Launcher, StateTypes
    <3>5. \A b \in Actor, v \in Worker : v # Wakee(a) => (Launcher(b, v)' <=> Launcher(b, v))
      BY <3>1, <3>3 DEF Launcher, Wakee, DemandTypes
    <3>6. \A v \in Worker : Dropped(v)' <=> Dropped(v)
      BY <3>5, <3>1, <3>3, <3>4 DEF Dropped, Launcher, DemandTypes, StateTypes
    <3>7. /\ \A v \in Worker : pc'[v] = "end" <=> pc[v] = "end"
          /\ \A d \in Client : pc'[d] = "closed" <=> pc[d] = "closed"
      BY <3>1
    <3>8. Shut' <=> Shut
      BY <3>7 DEF Shut
    <3> QED BY <3>1, <3>6, <3>7, <3>8, RefsSame
  <2>2. CASE ~(my_state[Wakee(a)] = "starting")
    <3>1. /\ pc[a] = "launched" /\ pc' = [pc EXCEPT ![a] = "wake_each"]
          /\ wakee' = [wakee EXCEPT ![a] = Front(wakee[a])]
          /\ my_state' = my_state /\ my_ref_count' = my_ref_count /\ freed' = freed
      BY <1>16, <2>2 DEF Launched, Waked
    <3>2. wakee[a] # <<>>
      BY <3>1, Popped DEF Popped
    <3>3. Wakee(a) \in Worker
      BY <3>2, ToWake
    <3>4. /\ my_state[Wakee(a)] \in {"starting", "quit"} /\ pc[Wakee(a)] # "none"
          /\ \A b \in Actor : b # a => ~Launcher(b, Wakee(a))
      BY <3>1, <3>3, Handles DEF Handles, HandleOK, Launcher, StateTypes
    <3>5. \A b \in Actor, v \in Worker : v # Wakee(a) => (Launcher(b, v)' <=> Launcher(b, v))
      BY <3>1, <3>3 DEF Launcher, Wakee, DemandTypes
    <3>6. \A v \in Worker : Dropped(v)' <=> Dropped(v)
      BY <3>5, <3>1, <3>3, <3>4 DEF Dropped, Launcher, DemandTypes, StateTypes
    <3>7. /\ \A v \in Worker : pc'[v] = "end" <=> pc[v] = "end"
          /\ \A d \in Client : pc'[d] = "closed" <=> pc[d] = "closed"
      BY <3>1
    <3>8. Shut' <=> Shut
      BY <3>7 DEF Shut
    <3> QED BY <3>1, <3>6, <3>7, <3>8, RefsSame
  <2> QED BY <2>1, <2>2
<1>17. ASSUME NEW a \in Actor, WakeDone(a) PROVE Refs'
  <2>1. /\ pc[a] = "wake_each" /\ wakee[a] = <<>> /\ pc' = [pc EXCEPT ![a] = back[a]]
        /\ my_state' = my_state /\ wakee' = wakee /\ my_ref_count' = my_ref_count /\ freed' = freed
    BY <1>17 DEF WakeDone
  <2>2. \A v \in Worker : pc'[v] = "none" <=> pc[v] = "none"
    BY <2>1, Returns DEF Returns, WakingPC
  <2>3. \A b \in Actor : pc[b] \in {"launch", "launched"} \/ pc'[b] \in {"launch", "launched"} =>
           pc'[b] = pc[b] /\ wakee'[b] = wakee[b]
    BY <2>1, Returns DEF DemandTypes, Returns, WakingPC
  <2>4. \A v \in Worker : Dropped(v)' <=> Dropped(v)
    BY <2>1, <2>2, <2>3, DroppedSame
  <2>5. /\ \A v \in Worker : pc'[v] = "end" <=> pc[v] = "end"
        /\ \A d \in Client : pc'[d] = "closed" <=> pc[d] = "closed"
    BY <2>1, Returns DEF Returns, WakingPC
  <2>6. Shut' <=> Shut
    BY <2>5 DEF Shut
  <2> QED BY <2>1, <2>4, <2>5, <2>6, RefsSame
<1>18. ASSUME NEW w \in Worker, Start(w) PROVE Refs'
  <2>1. CASE asleep = <<>>
    <3>1. /\ pc[w] = "run" /\ pc' = [pc EXCEPT ![w] = "loop"]
          /\ my_state' = my_state /\ wakee' = wakee /\ my_ref_count' = my_ref_count /\ freed' = freed
      BY <1>18, <2>1 DEF Start, ChainReaction, WakeSome
    <3>2. \A v \in Worker : pc'[v] = "none" <=> pc[v] = "none"
      BY <3>1
    <3>3. \A b \in Actor : pc[b] \in {"launch", "launched"} \/ pc'[b] \in {"launch", "launched"} =>
             pc'[b] = pc[b] /\ wakee'[b] = wakee[b]
      BY <3>1 DEF DemandTypes
    <3>4. \A v \in Worker : Dropped(v)' <=> Dropped(v)
      BY <3>1, <3>2, <3>3, DroppedSame
    <3>5. /\ \A v \in Worker : pc'[v] = "end" <=> pc[v] = "end"
          /\ \A d \in Client : pc'[d] = "closed" <=> pc[d] = "closed"
      BY <3>1
    <3>6. Shut' <=> Shut
      BY <3>5 DEF Shut
    <3> QED BY <3>1, <3>4, <3>5, <3>6, RefsSame
  <2>2. CASE ~(asleep = <<>>)
    <3>1. /\ pc[w] = "run" /\ pc' = [pc EXCEPT ![w] = "wake_lock"]
          /\ my_state' = my_state /\ wakee' = wakee /\ my_ref_count' = my_ref_count /\ freed' = freed
      BY <1>18, <2>2 DEF Start, ChainReaction, WakeSome
    <3>2. \A v \in Worker : pc'[v] = "none" <=> pc[v] = "none"
      BY <3>1
    <3>3. \A b \in Actor : pc[b] \in {"launch", "launched"} \/ pc'[b] \in {"launch", "launched"} =>
             pc'[b] = pc[b] /\ wakee'[b] = wakee[b]
      BY <3>1 DEF DemandTypes
    <3>4. \A v \in Worker : Dropped(v)' <=> Dropped(v)
      BY <3>1, <3>2, <3>3, DroppedSame
    <3>5. /\ \A v \in Worker : pc'[v] = "end" <=> pc[v] = "end"
          /\ \A d \in Client : pc'[d] = "closed" <=> pc[d] = "closed"
      BY <3>1
    <3>6. Shut' <=> Shut
      BY <3>5 DEF Shut
    <3> QED BY <3>1, <3>4, <3>5, <3>6, RefsSame
  <2> QED BY <2>1, <2>2
<1>19. ASSUME NEW w \in Worker, Idle(w) PROVE Refs'
  <2>1. /\ pc[w] = "loop" /\ my_slack < 0 /\ my_state[w] # "quit"
        /\ pc' = [pc EXCEPT ![w] = "prepare"]
        /\ my_state' = my_state /\ wakee' = wakee /\ my_ref_count' = my_ref_count /\ freed' = freed
    BY <1>19 DEF Idle
  <2>2. \A v \in Worker : pc'[v] = "none" <=> pc[v] = "none"
    BY <2>1
  <2>3. \A b \in Actor : pc[b] \in {"launch", "launched"} \/ pc'[b] \in {"launch", "launched"} =>
           pc'[b] = pc[b] /\ wakee'[b] = wakee[b]
    BY <2>1 DEF DemandTypes
  <2>4. \A v \in Worker : Dropped(v)' <=> Dropped(v)
    BY <2>1, <2>2, <2>3, DroppedSame
  <2>5. /\ \A v \in Worker : pc'[v] = "end" <=> pc[v] = "end"
        /\ \A d \in Client : pc'[d] = "closed" <=> pc[d] = "closed"
    BY <2>1
  <2>6. Shut' <=> Shut
    BY <2>5 DEF Shut
  <2> QED BY <2>1, <2>4, <2>5, <2>6, RefsSame
<1>20. ASSUME NEW w \in Worker, PrepareWait(w) PROVE Refs'
  <2>1. /\ pc[w] = "prepare"
        /\ spurious[w] => sema[w] = 1
        /\ pc' = [pc EXCEPT ![w] = "check"]
        /\ my_state' = my_state /\ wakee' = wakee /\ my_ref_count' = my_ref_count /\ freed' = freed
    BY <1>20 DEF PrepareWait
  <2>2. \A v \in Worker : pc'[v] = "none" <=> pc[v] = "none"
    BY <2>1
  <2>3. \A b \in Actor : pc[b] \in {"launch", "launched"} \/ pc'[b] \in {"launch", "launched"} =>
           pc'[b] = pc[b] /\ wakee'[b] = wakee[b]
    BY <2>1 DEF DemandTypes
  <2>4. \A v \in Worker : Dropped(v)' <=> Dropped(v)
    BY <2>1, <2>2, <2>3, DroppedSame
  <2>5. /\ \A v \in Worker : pc'[v] = "end" <=> pc[v] = "end"
        /\ \A d \in Client : pc'[d] = "closed" <=> pc[d] = "closed"
    BY <2>1
  <2>6. Shut' <=> Shut
    BY <2>5 DEF Shut
  <2> QED BY <2>1, <2>4, <2>5, <2>6, RefsSame
<1>21. ASSUME NEW w \in Worker, Check(w) PROVE Refs'
  <2>1. /\ pc[w] = "check"
        /\ pc' = [pc EXCEPT ![w] = IF my_state[w] = "quit" THEN "cancel" ELSE "try_insert"]
        /\ my_state' = my_state /\ wakee' = wakee /\ my_ref_count' = my_ref_count /\ freed' = freed
    BY <1>21 DEF Check
  <2>2. \A v \in Worker : pc'[v] = "none" <=> pc[v] = "none"
    BY <2>1
  <2>3. \A b \in Actor : pc[b] \in {"launch", "launched"} \/ pc'[b] \in {"launch", "launched"} =>
           pc'[b] = pc[b] /\ wakee'[b] = wakee[b]
    BY <2>1 DEF DemandTypes
  <2>4. \A v \in Worker : Dropped(v)' <=> Dropped(v)
    BY <2>1, <2>2, <2>3, DroppedSame
  <2>5. /\ \A v \in Worker : pc'[v] = "end" <=> pc[v] = "end"
        /\ \A d \in Client : pc'[d] = "closed" <=> pc[d] = "closed"
    BY <2>1
  <2>6. Shut' <=> Shut
    BY <2>5 DEF Shut
  <2> QED BY <2>1, <2>4, <2>5, <2>6, RefsSame
<1>22. ASSUME NEW w \in Worker, TryInsert(w) PROVE Refs'
  <2>1. CASE mutex = NULL
    <3>1. /\ pc[w] = "try_insert" /\ pc' = [pc EXCEPT ![w] = "insert"]
          /\ my_state' = my_state /\ wakee' = wakee /\ my_ref_count' = my_ref_count /\ freed' = freed
      BY <1>22, <2>1 DEF TryInsert
    <3>2. \A v \in Worker : pc'[v] = "none" <=> pc[v] = "none"
      BY <3>1
    <3>3. \A b \in Actor : pc[b] \in {"launch", "launched"} \/ pc'[b] \in {"launch", "launched"} =>
             pc'[b] = pc[b] /\ wakee'[b] = wakee[b]
      BY <3>1 DEF DemandTypes
    <3>4. \A v \in Worker : Dropped(v)' <=> Dropped(v)
      BY <3>1, <3>2, <3>3, DroppedSame
    <3>5. /\ \A v \in Worker : pc'[v] = "end" <=> pc[v] = "end"
          /\ \A d \in Client : pc'[d] = "closed" <=> pc[d] = "closed"
      BY <3>1
    <3>6. Shut' <=> Shut
      BY <3>5 DEF Shut
    <3> QED BY <3>1, <3>4, <3>5, <3>6, RefsSame
  <2>2. CASE ~(mutex = NULL)
    <3>1. /\ pc[w] = "try_insert" /\ pc' = [pc EXCEPT ![w] = "cancel"]
          /\ my_state' = my_state /\ wakee' = wakee /\ my_ref_count' = my_ref_count /\ freed' = freed
      BY <1>22, <2>2 DEF TryInsert
    <3>2. \A v \in Worker : pc'[v] = "none" <=> pc[v] = "none"
      BY <3>1
    <3>3. \A b \in Actor : pc[b] \in {"launch", "launched"} \/ pc'[b] \in {"launch", "launched"} =>
             pc'[b] = pc[b] /\ wakee'[b] = wakee[b]
      BY <3>1 DEF DemandTypes
    <3>4. \A v \in Worker : Dropped(v)' <=> Dropped(v)
      BY <3>1, <3>2, <3>3, DroppedSame
    <3>5. /\ \A v \in Worker : pc'[v] = "end" <=> pc[v] = "end"
          /\ \A d \in Client : pc'[d] = "closed" <=> pc[d] = "closed"
      BY <3>1
    <3>6. Shut' <=> Shut
      BY <3>5 DEF Shut
    <3> QED BY <3>1, <3>4, <3>5, <3>6, RefsSame
  <2> QED BY <2>1, <2>2
<1>23. ASSUME NEW w \in Worker, Insert(w) PROVE Refs'
  <2>1. CASE k[w] <= 0
    <3>1. /\ pc[w] = "insert" /\ pc' = [pc EXCEPT ![w] = "commit"]
          /\ my_state' = my_state /\ wakee' = wakee /\ my_ref_count' = my_ref_count /\ freed' = freed
      BY <1>23, <2>1 DEF Insert
    <3>2. \A v \in Worker : pc'[v] = "none" <=> pc[v] = "none"
      BY <3>1
    <3>3. \A b \in Actor : pc[b] \in {"launch", "launched"} \/ pc'[b] \in {"launch", "launched"} =>
             pc'[b] = pc[b] /\ wakee'[b] = wakee[b]
      BY <3>1 DEF DemandTypes
    <3>4. \A v \in Worker : Dropped(v)' <=> Dropped(v)
      BY <3>1, <3>2, <3>3, DroppedSame
    <3>5. /\ \A v \in Worker : pc'[v] = "end" <=> pc[v] = "end"
          /\ \A d \in Client : pc'[d] = "closed" <=> pc[d] = "closed"
      BY <3>1
    <3>6. Shut' <=> Shut
      BY <3>5 DEF Shut
    <3> QED BY <3>1, <3>4, <3>5, <3>6, RefsSame
  <2>2. CASE ~(k[w] <= 0)
    <3>1. /\ pc[w] = "insert" /\ pc' = [pc EXCEPT ![w] = "cancel"]
          /\ my_state' = my_state /\ wakee' = wakee /\ my_ref_count' = my_ref_count /\ freed' = freed
      BY <1>23, <2>2 DEF Insert
    <3>2. \A v \in Worker : pc'[v] = "none" <=> pc[v] = "none"
      BY <3>1
    <3>3. \A b \in Actor : pc[b] \in {"launch", "launched"} \/ pc'[b] \in {"launch", "launched"} =>
             pc'[b] = pc[b] /\ wakee'[b] = wakee[b]
      BY <3>1 DEF DemandTypes
    <3>4. \A v \in Worker : Dropped(v)' <=> Dropped(v)
      BY <3>1, <3>2, <3>3, DroppedSame
    <3>5. /\ \A v \in Worker : pc'[v] = "end" <=> pc[v] = "end"
          /\ \A d \in Client : pc'[d] = "closed" <=> pc[d] = "closed"
      BY <3>1
    <3>6. Shut' <=> Shut
      BY <3>5 DEF Shut
    <3> QED BY <3>1, <3>4, <3>5, <3>6, RefsSame
  <2> QED BY <2>1, <2>2
<1>24. ASSUME NEW w \in Worker, CancelWait(w) PROVE Refs'
  <2>1. /\ pc[w] = "cancel" /\ pc' = [pc EXCEPT ![w] = "loop"]
        /\ my_state' = my_state /\ wakee' = wakee /\ my_ref_count' = my_ref_count /\ freed' = freed
    BY <1>24 DEF CancelWait, Cancel
  <2>2. \A v \in Worker : pc'[v] = "none" <=> pc[v] = "none"
    BY <2>1
  <2>3. \A b \in Actor : pc[b] \in {"launch", "launched"} \/ pc'[b] \in {"launch", "launched"} =>
           pc'[b] = pc[b] /\ wakee'[b] = wakee[b]
    BY <2>1 DEF DemandTypes
  <2>4. \A v \in Worker : Dropped(v)' <=> Dropped(v)
    BY <2>1, <2>2, <2>3, DroppedSame
  <2>5. /\ \A v \in Worker : pc'[v] = "end" <=> pc[v] = "end"
        /\ \A d \in Client : pc'[d] = "closed" <=> pc[d] = "closed"
    BY <2>1
  <2>6. Shut' <=> Shut
    BY <2>5 DEF Shut
  <2> QED BY <2>1, <2>4, <2>5, <2>6, RefsSame
<1>25. ASSUME NEW w \in Worker, CommitWait(w) PROVE Refs'
  <2>1. /\ pc[w] = "commit"
        /\ pc' = [pc EXCEPT ![w] = IF notified[w] THEN "late" ELSE "sleep"]
        /\ my_state' = my_state /\ wakee' = wakee /\ my_ref_count' = my_ref_count /\ freed' = freed
    BY <1>25 DEF CommitWait
  <2>2. \A v \in Worker : pc'[v] = "none" <=> pc[v] = "none"
    BY <2>1
  <2>3. \A b \in Actor : pc[b] \in {"launch", "launched"} \/ pc'[b] \in {"launch", "launched"} =>
           pc'[b] = pc[b] /\ wakee'[b] = wakee[b]
    BY <2>1 DEF DemandTypes
  <2>4. \A v \in Worker : Dropped(v)' <=> Dropped(v)
    BY <2>1, <2>2, <2>3, DroppedSame
  <2>5. /\ \A v \in Worker : pc'[v] = "end" <=> pc[v] = "end"
        /\ \A d \in Client : pc'[d] = "closed" <=> pc[d] = "closed"
    BY <2>1
  <2>6. Shut' <=> Shut
    BY <2>5 DEF Shut
  <2> QED BY <2>1, <2>4, <2>5, <2>6, RefsSame
<1>26. ASSUME NEW w \in Worker, Late(w) PROVE Refs'
  <2>1. /\ pc[w] = "late" /\ pc' = [pc EXCEPT ![w] = "woken"]
        /\ my_state' = my_state /\ wakee' = wakee /\ my_ref_count' = my_ref_count /\ freed' = freed
    BY <1>26 DEF Late, Cancel
  <2>2. \A v \in Worker : pc'[v] = "none" <=> pc[v] = "none"
    BY <2>1
  <2>3. \A b \in Actor : pc[b] \in {"launch", "launched"} \/ pc'[b] \in {"launch", "launched"} =>
           pc'[b] = pc[b] /\ wakee'[b] = wakee[b]
    BY <2>1 DEF DemandTypes
  <2>4. \A v \in Worker : Dropped(v)' <=> Dropped(v)
    BY <2>1, <2>2, <2>3, DroppedSame
  <2>5. /\ \A v \in Worker : pc'[v] = "end" <=> pc[v] = "end"
        /\ \A d \in Client : pc'[d] = "closed" <=> pc[d] = "closed"
    BY <2>1
  <2>6. Shut' <=> Shut
    BY <2>5 DEF Shut
  <2> QED BY <2>1, <2>4, <2>5, <2>6, RefsSame
<1>27. ASSUME NEW w \in Worker, Sleep(w) PROVE Refs'
  <2>1. /\ pc[w] = "sleep" /\ sema[w] = 1 /\ pc' = [pc EXCEPT ![w] = "woken"]
        /\ my_state' = my_state /\ wakee' = wakee /\ my_ref_count' = my_ref_count /\ freed' = freed
    BY <1>27 DEF Sleep
  <2>2. \A v \in Worker : pc'[v] = "none" <=> pc[v] = "none"
    BY <2>1
  <2>3. \A b \in Actor : pc[b] \in {"launch", "launched"} \/ pc'[b] \in {"launch", "launched"} =>
           pc'[b] = pc[b] /\ wakee'[b] = wakee[b]
    BY <2>1 DEF DemandTypes
  <2>4. \A v \in Worker : Dropped(v)' <=> Dropped(v)
    BY <2>1, <2>2, <2>3, DroppedSame
  <2>5. /\ \A v \in Worker : pc'[v] = "end" <=> pc[v] = "end"
        /\ \A d \in Client : pc'[d] = "closed" <=> pc[d] = "closed"
    BY <2>1
  <2>6. Shut' <=> Shut
    BY <2>5 DEF Shut
  <2> QED BY <2>1, <2>4, <2>5, <2>6, RefsSame
<1>28. ASSUME NEW w \in Worker, Woken(w) PROVE Refs'
  <2>1. CASE asleep = <<>>
    <3>1. /\ pc[w] = "woken" /\ pc' = [pc EXCEPT ![w] = "loop"]
          /\ my_state' = my_state /\ wakee' = wakee /\ my_ref_count' = my_ref_count /\ freed' = freed
      BY <1>28, <2>1 DEF Woken, ChainReaction, WakeSome
    <3>2. \A v \in Worker : pc'[v] = "none" <=> pc[v] = "none"
      BY <3>1
    <3>3. \A b \in Actor : pc[b] \in {"launch", "launched"} \/ pc'[b] \in {"launch", "launched"} =>
             pc'[b] = pc[b] /\ wakee'[b] = wakee[b]
      BY <3>1 DEF DemandTypes
    <3>4. \A v \in Worker : Dropped(v)' <=> Dropped(v)
      BY <3>1, <3>2, <3>3, DroppedSame
    <3>5. /\ \A v \in Worker : pc'[v] = "end" <=> pc[v] = "end"
          /\ \A d \in Client : pc'[d] = "closed" <=> pc[d] = "closed"
      BY <3>1
    <3>6. Shut' <=> Shut
      BY <3>5 DEF Shut
    <3> QED BY <3>1, <3>4, <3>5, <3>6, RefsSame
  <2>2. CASE ~(asleep = <<>>)
    <3>1. /\ pc[w] = "woken" /\ pc' = [pc EXCEPT ![w] = "wake_lock"]
          /\ my_state' = my_state /\ wakee' = wakee /\ my_ref_count' = my_ref_count /\ freed' = freed
      BY <1>28, <2>2 DEF Woken, ChainReaction, WakeSome
    <3>2. \A v \in Worker : pc'[v] = "none" <=> pc[v] = "none"
      BY <3>1
    <3>3. \A b \in Actor : pc[b] \in {"launch", "launched"} \/ pc'[b] \in {"launch", "launched"} =>
             pc'[b] = pc[b] /\ wakee'[b] = wakee[b]
      BY <3>1 DEF DemandTypes
    <3>4. \A v \in Worker : Dropped(v)' <=> Dropped(v)
      BY <3>1, <3>2, <3>3, DroppedSame
    <3>5. /\ \A v \in Worker : pc'[v] = "end" <=> pc[v] = "end"
          /\ \A d \in Client : pc'[d] = "closed" <=> pc[d] = "closed"
      BY <3>1
    <3>6. Shut' <=> Shut
      BY <3>5 DEF Shut
    <3> QED BY <3>1, <3>4, <3>5, <3>6, RefsSame
  <2> QED BY <2>1, <2>2
<1>29. ASSUME NEW w \in Worker, Quit(w) PROVE Refs'
  <2>1. /\ pc[w] = "loop" /\ my_state[w] = "quit" /\ pc' = [pc EXCEPT ![w] = "quit"]
        /\ my_state' = my_state /\ wakee' = wakee /\ my_ref_count' = my_ref_count /\ freed' = freed
    BY <1>29 DEF Quit
  <2>2. \A v \in Worker : pc'[v] = "none" <=> pc[v] = "none"
    BY <2>1
  <2>3. \A b \in Actor : pc[b] \in {"launch", "launched"} \/ pc'[b] \in {"launch", "launched"} =>
           pc'[b] = pc[b] /\ wakee'[b] = wakee[b]
    BY <2>1 DEF DemandTypes
  <2>4. \A v \in Worker : Dropped(v)' <=> Dropped(v)
    BY <2>1, <2>2, <2>3, DroppedSame
  <2>5. /\ \A v \in Worker : pc'[v] = "end" <=> pc[v] = "end"
        /\ \A d \in Client : pc'[d] = "closed" <=> pc[d] = "closed"
    BY <2>1
  <2>6. Shut' <=> Shut
    BY <2>5 DEF Shut
  <2> QED BY <2>1, <2>4, <2>5, <2>6, RefsSame
<1>30. ASSUME NEW w \in Worker, End(w) PROVE Refs'
  <2>1. /\ pc[w] = "quit" /\ pc' = [pc EXCEPT ![w] = "end"]
        /\ my_ref_count' = my_ref_count - 1 /\ freed' = (my_ref_count = 1)
        /\ my_state' = my_state /\ wakee' = wakee
    BY <1>30 DEF End, RemoveServerRef
  <2>2. \A v \in Worker : pc'[v] = "none" <=> pc[v] = "none"
    BY <2>1
  <2>3. \A b \in Actor : pc[b] \in {"launch", "launched"} \/ pc'[b] \in {"launch", "launched"} =>
         pc'[b] = pc[b] /\ wakee'[b] = wakee[b]
    BY <2>1 DEF DemandTypes
  <2>4. \A v \in Worker : Dropped(v)' <=> Dropped(v)
    BY <2>1, <2>2, <2>3, DroppedSame
  <2>5. ~Dropped(w) /\ pc[w] # "end"
    BY <2>1 DEF Dropped
  <2>6. \A v \in Actor : pc'[v] = IF v = w THEN "end" ELSE pc[v]
    BY <2>1
  <2>7. /\ Counted' = Counted \ {w} /\ w \in Counted
        /\ Shut' <=> Shut
    BY <2>4, <2>5, <2>6 DEF Counted, Shut
  <2>8. Cardinality(Counted') = Cardinality(Counted) - 1 /\ Cardinality(Counted) \in Nat
    BY <2>7, CountedIs, FS_RemoveElement
  <2>9. my_ref_count' = my_ref_count - 1 /\ my_ref_count \in Int /\ (freed' <=> my_ref_count = 1)
    BY <2>1 DEF ServerTypes
  <2> QED BY <2>7, <2>8, <2>9, Refs DEF Refs
<1> QED BY <1>1, <1>2, <1>3, <1>4, <1>5, <1>6, <1>7, <1>8, <1>9, <1>10, <1>11, <1>12,
   <1>13, <1>14, <1>15, <1>16, <1>17, <1>18, <1>19, <1>20, <1>21, <1>22, <1>23, <1>24,
   <1>25, <1>26, <1>27, <1>28, <1>29, <1>30, Next DEF Next, ShutDown, Waking, Run

\* Nothing has happened yet.
LEMMA InitBase == ASSUME Assumptions, Init PROVE Base
<1>1. /\ IsFiniteSet(Worker) /\ IsFiniteSet(Client) /\ IsFiniteSet(Actor) /\ Cardinality(Worker) \in Nat
      /\ Worker \subseteq Actor /\ Client \subseteq Actor /\ Worker \cap Client = {} /\ NULL \notin Actor
  BY Threads
<1>2. /\ my_slack = 0 /\ my_ref_count = Cardinality(Worker) + 1 /\ mutex = NULL
      /\ my_state = [w \in Worker |-> "init"] /\ pc \in [Actor -> {"idle", "none"}]
      /\ \A a \in Actor : /\ pc[a] = IF a \in Client THEN "idle" ELSE "none"
                          /\ additional[a] = 0 /\ wakee[a] = <<>> /\ back[a] = NULL
      /\ additional \in [Actor -> Nat] /\ DOMAIN additional = Actor
      /\ asked \in [Client -> Nat] /\ DOMAIN asked = Client /\ \A c \in Client : asked[c] = 0
      /\ launched = {} /\ released = [w \in Worker |-> 0] /\ freed = FALSE
  BY DEF Init
<1>3. asleep \in Seq(Worker) /\ Len(asleep) = Cardinality(Worker)
  BY <1>1 DEF Init, SetToSeqs
<1>4. \A w \in Worker : pc[w] = "none" /\ my_state[w] = "init"
  BY <1>1, <1>2
<1>5. \A c \in Client : pc[c] = "idle"
  BY <1>1, <1>2
<1>6. Types
  <2>1. ServerTypes
    BY <1>1, <1>3 DEF Init, ServerTypes
  <2>2. StateTypes /\ MonitorTypes
    BY DEF Init, StateTypes, MonitorTypes
  <2>3. PlaceTypes
    BY DEF Init, PlaceTypes, WorkerPC
  <2>4. DemandTypes
    BY DEF Init, DemandTypes
  <2> QED BY <2>1, <2>2, <2>3, <2>4 DEF Types
<1>7. Shape
  <2>1. AtHome /\ Returns /\ InHand
    BY <1>1, <1>2, <1>4, <1>5 DEF AtHome, Returns, InHand, WakingPC, WorkerPC
  <2>2. Popped /\ Locked
    BY <1>1, <1>2 DEF Popped, Locked
  <2>3. Owed /\ Alone
    BY <1>1, <1>2, <1>5 DEF Owed, Alone, ClosingPC
  <2>4. Telling /\ Quitting
    BY <1>2, <1>4, <1>5 DEF Telling, Quitting
  <2> QED BY <2>1, <2>2, <2>3, <2>4 DEF Shape
<1>8. Balance
  <2>1. SumFunction(additional) = 0 /\ SumFunction(asked) = 0
    BY <1>1, <1>2, SumZero
  <2>2. Inserting = {} /\ Left = {}
    BY <1>4 DEF Inserting, Left
  <2>3. Cardinality(Inserting) = 0 /\ Cardinality(Left) = 0
    BY <2>2, FS_EmptySet
  <2> QED BY <1>1, <1>2, <1>3, <2>1, <2>3 DEF Balance
<1>9. Refs
  <2>1. Counted = Worker
    BY <1>4 DEF Counted, Dropped
  <2>2. ~Shut
    BY <1>5 DEF Shut
  <2> QED BY <1>1, <1>2, <2>1, <2>2 DEF Refs
<1>10. Handles
  <2>1. \A a \in Actor, w \in Worker : ~Launcher(a, w)
    BY <1>2 DEF Launcher
  <2>2. \A c \in Client, w \in Worker : ~Releaser(c, w)
    BY <1>5 DEF Releaser
  <2> QED BY <1>2, <1>4, <2>1, <2>2 DEF Handles, HandleOK
<1>11. SlackRead
  BY <1>4 DEF SlackRead
<1> QED BY <1>6, <1>7, <1>8, <1>9, <1>10, <1>11 DEF Base

\* Every step keeps all the parts.
LEMMA BaseStep == ASSUME Assumptions, Base, Next PROVE Base'
<1>1. Types /\ Balance /\ Refs /\ Handles /\ SlackRead
  BY DEF Base
<1>2. AtHome /\ Returns /\ InHand /\ Popped /\ Locked /\ Owed /\ Alone /\ Telling /\ Quitting
  BY DEF Base, Shape
<1>3. Types' /\ AtHome'
  BY <1>1, <1>2, TypesStep, AtHomeStep
<1>4. Returns' /\ InHand' /\ Popped' /\ Locked'
  BY <1>1, <1>2, ReturnsStep, InHandStep, PoppedStep, LockedStep
<1>5. Owed' /\ Alone' /\ Telling'
  BY <1>1, <1>2, OwedStep, AloneStep, TellingStep
<1>6. Quitting' /\ SlackRead'
  BY <1>1, <1>2, <1>3, QuittingStep, SlackReadStep
<1>7. Shape'
  BY <1>3, <1>4, <1>5, <1>6 DEF Shape
<1>8. Balance' /\ Handles' /\ Refs'
  BY <1>1, <1>2, BalanceStep, HandlesStep, RefsStep
<1> QED BY <1>3, <1>6, <1>7, <1>8 DEF Base

\* So does a step that changes nothing.
LEMMA BaseStutter == ASSUME Base, UNCHANGED vars PROVE Base'
<1> USE DEF vars, server, monitor, waking, demand, hist
<1>1. Types'
  BY DEF Base, Types, ServerTypes, StateTypes, MonitorTypes, PlaceTypes, DemandTypes
<1>2. AtHome' /\ Returns' /\ InHand' /\ Popped' /\ Locked' /\ Owed'
  BY DEF Base, Shape, AtHome, Returns, InHand, Popped, Locked, Owed
<1>3. Alone' /\ Telling' /\ Quitting'
  BY DEF Base, Shape, Alone, Telling, Quitting, Closing
<1>4. Inserting' = Inserting /\ Left' = Left /\ Counted' = Counted /\ (Shut' <=> Shut)
  BY DEF Inserting, Left, Counted, Dropped, Launcher, Wakee, Shut
<1>5. Balance' /\ Refs'
  BY <1>4 DEF Base, Balance, Refs
<1>6. Handles'
  BY DEF Base, Handles, HandleOK, Launcher, Releaser, Wakee
<1>7. SlackRead'
  BY DEF Base, SlackRead, Closing
<1> QED BY <1>1, <1>2, <1>3, <1>5, <1>6, <1>7 DEF Base, Shape

\* The invariant: where threads are and what they hold, how slack, references and
\* handles are accounted for.
THEOREM Invariance == ASSUME Assumptions PROVE Spec => []Base
<1>1. Base /\ [Next]_vars => Base'
  BY BaseStep, BaseStutter
<1> QED BY InitBase, <1>1, PTL DEF Spec

\* The balance of slack, once nobody has left.
LEMMA SlackFollows == ASSUME Assumptions, Base PROVE SlackExact
<1>1. SUFFICES ASSUME ~Closing PROVE SlackExact
  BY DEF SlackExact
<1>2. Types /\ Quitting /\ Balance
  BY DEF Base, Shape
<1>3. Left = {}
  BY <1>1, <1>2 DEF Left, Quitting
<1>4. Cardinality(Left) = 0
  BY <1>3, FS_EmptySet
<1>5. Cardinality({w \in Worker : pc[w] = "insert"}) = Cardinality(Inserting)
  BY DEF Inserting
<1>6. PICK s \in Int, x \in Nat, q \in Nat, l \in Nat, i \in Nat, f \in Nat, n \in Nat :
        /\ s = my_slack /\ x = SumFunction(additional) /\ q = SumFunction(asked)
        /\ l = Len(asleep) /\ i = Cardinality(Inserting) /\ f = Cardinality(Left)
        /\ n = Cardinality(Worker)
        /\ s + x + n = q + l + i + f /\ q <= n
  BY <1>2, BalanceIs, Zenon
<1>7. s + x + n = q + l + i
  BY <1>4, <1>6
<1> QED BY <1>5, <1>6, <1>7 DEF SlackExact

\* wake_some, try_insert_in_asleep_list and adjust_job_count_estimate neither lose
\* nor make up a unit of my_slack, however they meet, whether a notification is a
\* single step or not: while the server is open the slack, with the demand still in
\* hand, is what is asked for less the workers that are awake.
THEOREM SlackIsExact == ASSUME Assumptions PROVE Spec => []SlackExact
<1>1. Base => SlackExact
  BY SlackFollows
<1> QED BY Invariance, <1>1, PTL

\* Who holds a reference is in the server, and each handle is accounted for.
LEMMA CloseFollows == ASSUME Assumptions, Base PROVE ClosedCleanly
<1>1. SUFFICES ASSUME freed PROVE ClosedCleanly
  BY DEF ClosedCleanly
<1>2. /\ Types /\ Refs /\ Handles /\ AtHome /\ Alone /\ Telling /\ Quitting /\ Returns
  BY DEF Base, Shape
<1>3. Cardinality(Counted) = 0 /\ Shut /\ IsFiniteSet(Counted)
  <2>1. Cardinality(Counted) + (IF Shut THEN 0 ELSE 1) = 0
    BY <1>1, <1>2 DEF Refs
  <2> QED BY <2>1, CountedIs
<1>4. Counted = {}
  BY <1>3, FS_EmptySet
<1>5. PICK c \in Client : pc[c] = "closed" /\ \A d \in Client : d # c => pc[d] = "idle"
  BY <1>2, <1>3 DEF Shut, Alone, ClosingPC
<1>6. \A w \in Worker : my_state[w] = "quit"
  BY <1>2, <1>5 DEF Telling
<1>7. \A w \in Worker : pc[w] = "end" \/ (pc[w] = "none" /\ \A a \in Actor : ~Launcher(a, w))
  BY <1>4 DEF Counted, Dropped
<1>8. \A a \in Actor, w \in Worker : ~Launcher(a, w)
  BY <1>5, <1>7 DEF Launcher, Actor
<1>9. \A d \in Client, w \in Worker : ~Releaser(d, w)
  BY <1>5 DEF Releaser
<1>10. \A w \in Worker : released[w] = IF w \in launched THEN 1 ELSE 0
  BY <1>2, <1>6, <1>8, <1>9 DEF Handles, HandleOK
<1> QED BY <1>5, <1>7, <1>10 DEF ClosedCleanly, Actor

\* The last reference to the server is given back when no thread is in it any more,
\* and then the handle of each thread that was launched has been released, once:
\* by start_shutdown or, when the shutdown came while it was being started, by
\* wake_or_launch.
THEOREM ServerClosedCleanly == ASSUME Assumptions PROVE Spec => []ClosedCleanly
<1>1. Base => ClosedCleanly
  BY CloseFollows
<1> QED BY Invariance, <1>1, PTL

(***************************************************************************)
(* Notifications in a single step                                          *)
(***************************************************************************)
\* The wait of a worker ends with a notification, which posts its semaphore; a
\* post that came too late is consumed by the next wait.
Inside(w) == pc[w] \in WaitPC
MonitorOK(w) ==
    /\ sema[w] = 1 <=> IF Inside(w) THEN ~in_wait[w] ELSE spurious[w]
    /\ Inside(w) => ~spurious[w] /\ (notified[w] <=> ~in_wait[w])
    /\ ~Inside(w) => ~in_wait[w]
    /\ pc[w] = "late" => notified[w]
Monitors == \A w \in Worker : MonitorOK(w)
\* A worker that is about to go to the list has not been notified.
Fresh == \A w \in Worker : pc[w] \in {"check", "try_insert", "insert"} /\ my_state[w] # "quit" => ~notified[w]

\* How many of the workers that a has popped it has still to wake.
Pend(a) == IF pc[a] \in {"wake_loop", "wake_each", "launch"} THEN Len(wakee[a])
           ELSE IF pc[a] \in {"signal", "launched"} THEN Len(wakee[a]) - 1 ELSE 0

\* The workers on the list, and those popped and not yet waken: each once, and
\* each of them sleeps or is told to quit.
InLine(w) ==
    \/ \E i \in 1..Len(asleep) : asleep[i] = w
    \/ \E a \in Actor : \E i \in 1..Pend(a) : wakee[a][i] = w
Parked(w) ==
    /\ my_state[w] # "quit" => /\ pc[w] \in {"none", "commit", "sleep"}
                               /\ pc[w] # "none" => ~notified[w]
    /\ pc[w] \notin {"prepare", "check", "try_insert", "insert", "cancel"}
Once ==
    /\ \A i, j \in 1..Len(asleep) : asleep[i] = asleep[j] => i = j
    /\ \A a \in Actor : \A i \in 1..Pend(a), j \in 1..Len(asleep) : wakee[a][i] # asleep[j]
    /\ \A a, b \in Actor : \A i \in 1..Pend(a), j \in 1..Pend(b) :
          wakee[a][i] = wakee[b][j] => a = b /\ i = j
Line == Once /\ \A w \in Worker : InLine(w) => Parked(w)

\* Who will look at the list again, or has waken somebody who will.
Strong(a) ==
    \/ pc[a] \in {"wake_lock", "wake_loop", "run", "woken", "launch"}
    \/ pc[a] = "wake_each" /\ wakee[a] # <<>>
    \/ pc[a] = "signal" /\ Len(wakee[a]) > 1
    \/ a \in Worker /\ pc[a] \in {"commit", "late", "sleep"} /\ notified[a]
Chain == ~Closing /\ asleep # <<>> /\ my_slack > (IF Inserting # {} THEN 1 ELSE 0) =>
            \E a \in Actor : Strong(a)

\* What is added to it when a notification is one step.
Extra == Monitors /\ Fresh /\ Line /\ Chain

\* The monitor of a worker is as it was when none of its parts changes.
LEMMA MonitorSame ==
    ASSUME Monitors, NEW v \in Worker,
           sema'[v] = sema[v], in_wait'[v] = in_wait[v], spurious'[v] = spurious[v],
           notified'[v] = notified[v], pc'[v] \in WaitPC <=> pc[v] \in WaitPC,
           pc'[v] = "late" => notified[v]
    PROVE  MonitorOK(v)'
<1>1. MonitorOK(v)
  BY DEF Monitors
<1> QED BY <1>1, Zenon DEF MonitorOK, Inside
\* A notification of w in a single step.
LEMMA MonitorSignalled ==
    ASSUME Types, Monitors, NEW w \in Worker, Signal(w), notified' = [notified EXCEPT ![w] = TRUE],
           spurious' = spurious, \A v \in Worker : pc'[v] \in WaitPC <=> pc[v] \in WaitPC,
           \A v \in Worker : pc'[v] = "late" => pc[v] = "late"
    PROVE  Monitors'
<1>1. ASSUME NEW v \in Worker PROVE MonitorOK(v)'
  <2>1. MonitorOK(v)
    BY DEF Monitors
  <2>2. CASE v # w
    <3>1. /\ sema'[v] = sema[v] /\ in_wait'[v] = in_wait[v] /\ spurious'[v] = spurious[v]
          /\ notified'[v] = notified[v]
      BY <2>2, Signalled DEF Types, MonitorTypes
    <3>2. pc'[v] = "late" => notified[v]
      BY <2>1 DEF MonitorOK
    <3> QED BY <3>1, <3>2, MonitorSame
  <2>3. CASE v = w
    <3>1. /\ in_wait'[v] = FALSE /\ notified'[v] = TRUE /\ spurious'[v] = spurious[v]
          /\ in_wait[v] = TRUE => sema'[v] = 1
          /\ in_wait[v] = FALSE => sema'[v] = sema[v]
          /\ in_wait[v] \in BOOLEAN
      BY <2>3, Signalled DEF Types, MonitorTypes
    <3>2. Inside(v)' <=> Inside(v)
      BY DEF Inside
    <3>3. CASE in_wait[v] = TRUE
      <4>1. Inside(v) /\ sema'[v] = 1 /\ ~spurious[v]
        BY <2>1, <3>1, <3>3 DEF MonitorOK
      <4> QED BY <3>1, <3>2, <4>1, Zenon DEF MonitorOK
    <3>4. CASE in_wait[v] = FALSE
      <4>1. sema'[v] = sema[v] /\ ~in_wait[v]
        BY <3>1, <3>4
      <4> QED BY <2>1, <3>1, <3>2, <4>1, Zenon DEF MonitorOK
    <3> QED BY <3>1, <3>3, <3>4
  <2> QED BY <2>2, <2>3
<1> QED BY <1>1 DEF Monitors

\* The semaphore of a worker is posted just when its wait was ended by a notification.
LEMMA MonitorsStep ==
    ASSUME Assumptions, AtomicNotify, Types, Popped, Handles, Returns, Monitors, Next
    PROVE  Monitors'
<1> USE DEF Set, Goto, Jump, server, monitor, waking, demand, hist
<1>1. ASSUME NEW c \in Client, NEW delta \in 1..MaxDelta, Request(c, delta) PROVE Monitors'
  <2>1. /\ pc[c] = "idle"
        /\ ~Closing /\ asked[c] = 0 /\ SumFunction(asked) + delta <= Cardinality(Worker)
        /\ pc' = [pc EXCEPT ![c] = "wake_lock"]
        /\ sema' = sema /\ in_wait' = in_wait /\ spurious' = spurious /\ notified' = notified
    BY <1>1 DEF Request, WakeSome
  <2>2. ASSUME NEW v \in Worker PROVE MonitorOK(v)'
    <3>1. /\ pc'[v] \in WaitPC <=> pc[v] \in WaitPC
          /\ pc'[v] = "late" => notified[v] \/ pc[v] = "late"
      BY <2>1, Threads, Types DEF WaitPC, Types, PlaceTypes, Actor
    <3>2. pc'[v] = "late" => notified[v]
      BY <3>1, Monitors DEF Monitors, MonitorOK
    <3> QED BY <3>1, <3>2, <2>1, MonitorSame
  <2> QED BY <2>2 DEF Monitors
<1>2. ASSUME NEW c \in Client, Return(c) PROVE Monitors'
  <2>1. /\ pc[c] = "idle" /\ asked[c] > 0 /\ pc' = [pc EXCEPT ![c] = "idle"]
        /\ sema' = sema /\ in_wait' = in_wait /\ spurious' = spurious /\ notified' = notified
    BY <1>2 DEF Return
  <2>2. ASSUME NEW v \in Worker PROVE MonitorOK(v)'
    <3>1. /\ pc'[v] \in WaitPC <=> pc[v] \in WaitPC
          /\ pc'[v] = "late" => notified[v] \/ pc[v] = "late"
      BY <2>1, Threads, Types DEF WaitPC, Types, PlaceTypes, Actor
    <3>2. pc'[v] = "late" => notified[v]
      BY <3>1, Monitors DEF Monitors, MonitorOK
    <3> QED BY <3>1, <3>2, <2>1, MonitorSame
  <2> QED BY <2>2 DEF Monitors
<1>3. ASSUME NEW c \in Client, Close(c) PROVE Monitors'
  <2>1. /\ pc[c] = "idle"
        /\ \A d \in Client : pc[d] = "idle" /\ asked[d] = 0
        /\ pc' = [pc EXCEPT ![c] = "shutdown"]
        /\ sema' = sema /\ in_wait' = in_wait /\ spurious' = spurious /\ notified' = notified
    BY <1>3 DEF Close
  <2>2. ASSUME NEW v \in Worker PROVE MonitorOK(v)'
    <3>1. /\ pc'[v] \in WaitPC <=> pc[v] \in WaitPC
          /\ pc'[v] = "late" => notified[v] \/ pc[v] = "late"
      BY <2>1, Threads, Types DEF WaitPC, Types, PlaceTypes, Actor
    <3>2. pc'[v] = "late" => notified[v]
      BY <3>1, Monitors DEF Monitors, MonitorOK
    <3> QED BY <3>1, <3>2, <2>1, MonitorSame
  <2> QED BY <2>2 DEF Monitors
<1>4. ASSUME NEW c \in Client, NEW w \in Worker, StartShutdown(c, w) PROVE Monitors'
  <2>1. CASE my_state[w] = "init"
    <3>1. /\ pc[c] = "shutdown" /\ my_state[w] # "quit"
          /\ pc' = [pc EXCEPT ![c] = "shutdown"]
          /\ sema' = sema /\ in_wait' = in_wait /\ spurious' = spurious /\ notified' = notified
      BY <1>4, <2>1 DEF StartShutdown, RemoveServerRef
    <3>2. ASSUME NEW v \in Worker PROVE MonitorOK(v)'
      <4>1. /\ pc'[v] \in WaitPC <=> pc[v] \in WaitPC
            /\ pc'[v] = "late" => notified[v] \/ pc[v] = "late"
        BY <3>1, Threads, Types DEF WaitPC, Types, PlaceTypes, Actor
      <4>2. pc'[v] = "late" => notified[v]
        BY <4>1, Monitors DEF Monitors, MonitorOK
      <4> QED BY <4>1, <4>2, <3>1, MonitorSame
    <3> QED BY <3>2 DEF Monitors
  <2>2. CASE ~(my_state[w] = "init")
    <3>1. /\ pc[c] = "shutdown" /\ my_state[w] # "quit"
          /\ pc' = [pc EXCEPT ![c] = "notify"]
          /\ sema' = sema /\ in_wait' = in_wait /\ spurious' = spurious /\ notified' = notified
      BY <1>4, <2>2 DEF StartShutdown, RemoveServerRef
    <3>2. ASSUME NEW v \in Worker PROVE MonitorOK(v)'
      <4>1. /\ pc'[v] \in WaitPC <=> pc[v] \in WaitPC
            /\ pc'[v] = "late" => notified[v] \/ pc[v] = "late"
        BY <3>1, Threads, Types DEF WaitPC, Types, PlaceTypes, Actor
      <4>2. pc'[v] = "late" => notified[v]
        BY <4>1, Monitors DEF Monitors, MonitorOK
      <4> QED BY <4>1, <4>2, <3>1, MonitorSame
    <3> QED BY <3>2 DEF Monitors
  <2> QED BY <2>1, <2>2
<1>5. ASSUME NEW c \in Client, NotifyQuit(c) PROVE Monitors'
  <2>1. /\ pc[c] = "notify" /\ pc' = [pc EXCEPT ![c] = "signal_quit"]
        /\ notified' = [notified EXCEPT ![wakee[c][1]] = TRUE] /\ spurious' = spurious
    BY <1>5, QuitNotified
  <2>2. wakee[c][1] \in Worker /\ Signal(wakee[c][1])
    BY <1>5, AtomicNotify, QuitNotified
  <2>3. /\ \A v \in Worker : pc'[v] \in WaitPC <=> pc[v] \in WaitPC
        /\ \A v \in Worker : pc'[v] = "late" => pc[v] = "late"
    BY <2>1, Threads, Types DEF WaitPC, Types, PlaceTypes, Actor
  <2> QED BY <2>1, <2>2, <2>3, MonitorSignalled
<1>6. ASSUME NEW c \in Client, SignalQuit(c) PROVE Monitors'
  <2>1. CASE back[c] = "normal"
    <3>1. /\ pc[c] = "signal_quit" /\ pc' = [pc EXCEPT ![c] = "release_handle"]
          /\ spurious' = spurious /\ notified' = notified
      BY <1>6, <2>1 DEF SignalQuit
    <3>2. c \in Actor /\ wakee[c] # <<>>
      BY <3>1, Popped, Threads DEF Popped
    <3>3. wakee[c][1] \in Worker /\ SignalLate(wakee[c][1])
      BY <1>6, <3>2, Types, ToWake DEF SignalQuit
    <3>4. in_wait' = in_wait /\ sema' = sema
      BY <3>3, AtomicNotify, Types, NotifiedLate
    <3>5. ASSUME NEW v \in Worker PROVE MonitorOK(v)'
      <4>1. /\ pc'[v] \in WaitPC <=> pc[v] \in WaitPC
            /\ pc'[v] = "late" => notified[v] \/ pc[v] = "late"
        BY <3>1, <3>4, Threads, Types DEF WaitPC, Types, PlaceTypes, Actor
      <4>2. pc'[v] = "late" => notified[v]
        BY <4>1, Monitors DEF Monitors, MonitorOK
      <4> QED BY <4>1, <4>2, <3>1, <3>4, MonitorSame
    <3> QED BY <3>5 DEF Monitors
  <2>2. CASE ~(back[c] = "normal")
    <3>1. /\ pc[c] = "signal_quit" /\ pc' = [pc EXCEPT ![c] = "shutdown"]
          /\ spurious' = spurious /\ notified' = notified
      BY <1>6, <2>2 DEF SignalQuit
    <3>2. c \in Actor /\ wakee[c] # <<>>
      BY <3>1, Popped, Threads DEF Popped
    <3>3. wakee[c][1] \in Worker /\ SignalLate(wakee[c][1])
      BY <1>6, <3>2, Types, ToWake DEF SignalQuit
    <3>4. in_wait' = in_wait /\ sema' = sema
      BY <3>3, AtomicNotify, Types, NotifiedLate
    <3>5. ASSUME NEW v \in Worker PROVE MonitorOK(v)'
      <4>1. /\ pc'[v] \in WaitPC <=> pc[v] \in WaitPC
            /\ pc'[v] = "late" => notified[v] \/ pc[v] = "late"
        BY <3>1, <3>4, Threads, Types DEF WaitPC, Types, PlaceTypes, Actor
      <4>2. pc'[v] = "late" => notified[v]
        BY <4>1, Monitors DEF Monitors, MonitorOK
      <4> QED BY <4>1, <4>2, <3>1, <3>4, MonitorSame
    <3> QED BY <3>5 DEF Monitors
  <2> QED BY <2>1, <2>2
<1>7. ASSUME NEW c \in Client, ReleaseHandle(c) PROVE Monitors'
  <2>1. /\ pc[c] = "release_handle" /\ pc' = [pc EXCEPT ![c] = "shutdown"]
        /\ sema' = sema /\ in_wait' = in_wait /\ spurious' = spurious /\ notified' = notified
    BY <1>7 DEF ReleaseHandle
  <2>2. ASSUME NEW v \in Worker PROVE MonitorOK(v)'
    <3>1. /\ pc'[v] \in WaitPC <=> pc[v] \in WaitPC
          /\ pc'[v] = "late" => notified[v] \/ pc[v] = "late"
      BY <2>1, Threads, Types DEF WaitPC, Types, PlaceTypes, Actor
    <3>2. pc'[v] = "late" => notified[v]
      BY <3>1, Monitors DEF Monitors, MonitorOK
    <3> QED BY <3>1, <3>2, <2>1, MonitorSame
  <2> QED BY <2>2 DEF Monitors
<1>8. ASSUME NEW c \in Client, Closed(c) PROVE Monitors'
  <2>1. /\ pc[c] = "shutdown"
        /\ \A w \in Worker : my_state[w] = "quit"
        /\ pc' = [pc EXCEPT ![c] = "closed"]
        /\ sema' = sema /\ in_wait' = in_wait /\ spurious' = spurious /\ notified' = notified
    BY <1>8 DEF Closed, RemoveServerRef
  <2>2. ASSUME NEW v \in Worker PROVE MonitorOK(v)'
    <3>1. /\ pc'[v] \in WaitPC <=> pc[v] \in WaitPC
          /\ pc'[v] = "late" => notified[v] \/ pc[v] = "late"
      BY <2>1, Threads, Types DEF WaitPC, Types, PlaceTypes, Actor
    <3>2. pc'[v] = "late" => notified[v]
      BY <3>1, Monitors DEF Monitors, MonitorOK
    <3> QED BY <3>1, <3>2, <2>1, MonitorSame
  <2> QED BY <2>2 DEF Monitors
<1>9. ASSUME NEW a \in Actor, WakeLock(a) PROVE Monitors'
  <2>1. /\ pc[a] = "wake_lock" /\ mutex = NULL /\ pc' = [pc EXCEPT ![a] = "wake_loop"]
        /\ sema' = sema /\ in_wait' = in_wait /\ spurious' = spurious /\ notified' = notified
    BY <1>9 DEF WakeLock
  <2>2. ASSUME NEW v \in Worker PROVE MonitorOK(v)'
    <3>1. /\ pc'[v] \in WaitPC <=> pc[v] \in WaitPC
          /\ pc'[v] = "late" => notified[v] \/ pc[v] = "late"
      BY <2>1, Threads, Types DEF WaitPC, Types, PlaceTypes, Actor
    <3>2. pc'[v] = "late" => notified[v]
      BY <3>1, Monitors DEF Monitors, MonitorOK
    <3> QED BY <3>1, <3>2, <2>1, MonitorSame
  <2> QED BY <2>2 DEF Monitors
<1>10. ASSUME NEW a \in Actor, PopForDemand(a) PROVE Monitors'
  <2>1. /\ pc[a] = "wake_loop"
        /\ additional[a] > 0 /\ additional[a] + my_slack > 0 /\ asleep # <<>>
        /\ pc' = [pc EXCEPT ![a] = "wake_loop"]
        /\ sema' = sema /\ in_wait' = in_wait /\ spurious' = spurious /\ notified' = notified
    BY <1>10 DEF PopForDemand, CanPop, Pop
  <2>2. ASSUME NEW v \in Worker PROVE MonitorOK(v)'
    <3>1. /\ pc'[v] \in WaitPC <=> pc[v] \in WaitPC
          /\ pc'[v] = "late" => notified[v] \/ pc[v] = "late"
      BY <2>1, Threads, Types DEF WaitPC, Types, PlaceTypes, Actor
    <3>2. pc'[v] = "late" => notified[v]
      BY <3>1, Monitors DEF Monitors, MonitorOK
    <3> QED BY <3>1, <3>2, <2>1, MonitorSame
  <2> QED BY <2>2 DEF Monitors
<1>11. ASSUME NEW a \in Actor, PopForSlack(a) PROVE Monitors'
  <2>1. /\ pc[a] = "wake_loop" /\ additional[a] = 0 /\ my_slack > 0 /\ asleep # <<>>
        /\ pc' = [pc EXCEPT ![a] = "wake_loop"]
        /\ sema' = sema /\ in_wait' = in_wait /\ spurious' = spurious /\ notified' = notified
    BY <1>11 DEF PopForSlack, CanPop, Pop
  <2>2. ASSUME NEW v \in Worker PROVE MonitorOK(v)'
    <3>1. /\ pc'[v] \in WaitPC <=> pc[v] \in WaitPC
          /\ pc'[v] = "late" => notified[v] \/ pc[v] = "late"
      BY <2>1, Threads, Types DEF WaitPC, Types, PlaceTypes, Actor
    <3>2. pc'[v] = "late" => notified[v]
      BY <3>1, Monitors DEF Monitors, MonitorOK
    <3> QED BY <3>1, <3>2, <2>1, MonitorSame
  <2> QED BY <2>2 DEF Monitors
<1>12. ASSUME NEW a \in Actor, WakeUnlock(a) PROVE Monitors'
  <2>1. /\ pc[a] = "wake_loop" /\ pc' = [pc EXCEPT ![a] = "wake_each"]
        /\ sema' = sema /\ in_wait' = in_wait /\ spurious' = spurious /\ notified' = notified
    BY <1>12 DEF WakeUnlock, CanPop
  <2>2. ASSUME NEW v \in Worker PROVE MonitorOK(v)'
    <3>1. /\ pc'[v] \in WaitPC <=> pc[v] \in WaitPC
          /\ pc'[v] = "late" => notified[v] \/ pc[v] = "late"
      BY <2>1, Threads, Types DEF WaitPC, Types, PlaceTypes, Actor
    <3>2. pc'[v] = "late" => notified[v]
      BY <3>1, Monitors DEF Monitors, MonitorOK
    <3> QED BY <3>1, <3>2, <2>1, MonitorSame
  <2> QED BY <2>2 DEF Monitors
<1>13. ASSUME NEW a \in Actor, WakeEach(a) PROVE Monitors'
  <2>1. CASE my_state[Wakee(a)] = "init"
    <3>1. /\ pc[a] = "wake_each" /\ wakee[a] # <<>>
          /\ pc' = [pc EXCEPT ![a] = "launch"]
          /\ sema' = sema /\ in_wait' = in_wait /\ spurious' = spurious /\ notified' = notified
      BY <1>13, <2>1 DEF WakeEach
    <3>2. ASSUME NEW v \in Worker PROVE MonitorOK(v)'
      <4>1. /\ pc'[v] \in WaitPC <=> pc[v] \in WaitPC
            /\ pc'[v] = "late" => notified[v] \/ pc[v] = "late"
        BY <3>1, Threads, Types DEF WaitPC, Types, PlaceTypes, Actor
      <4>2. pc'[v] = "late" => notified[v]
        BY <4>1, Monitors DEF Monitors, MonitorOK
      <4> QED BY <4>1, <4>2, <3>1, MonitorSame
    <3> QED BY <3>2 DEF Monitors
  <2>2. CASE ~(my_state[Wakee(a)] = "init")
    <3>1. /\ pc[a] = "wake_each" /\ wakee[a] # <<>>
          /\ pc' = [pc EXCEPT ![a] = "signal"]
          /\ notified' = [notified EXCEPT ![Wakee(a)] = TRUE] /\ spurious' = spurious
      BY <1>13, <2>2, SleeperNotified
    <3>2. Wakee(a) \in Worker /\ Signal(Wakee(a))
      BY <1>13, <2>2, AtomicNotify, SleeperNotified
    <3>3. /\ \A v \in Worker : pc'[v] \in WaitPC <=> pc[v] \in WaitPC
          /\ \A v \in Worker : pc'[v] = "late" => pc[v] = "late"
      BY <3>1, Threads, Types DEF WaitPC, Types, PlaceTypes, Actor
    <3> QED BY <3>1, <3>2, <3>3, MonitorSignalled
  <2> QED BY <2>1, <2>2
<1>14. ASSUME NEW a \in Actor, SignalWakee(a) PROVE Monitors'
  <2>1. /\ pc[a] = "signal" /\ pc' = [pc EXCEPT ![a] = "wake_each"]
        /\ spurious' = spurious /\ notified' = notified
    BY <1>14 DEF SignalWakee, Waked
  <2>2. a \in Actor /\ wakee[a] # <<>>
    BY <2>1, Popped, Threads DEF Popped
  <2>3. Wakee(a) \in Worker /\ SignalLate(Wakee(a))
    BY <1>14, <2>2, Types, ToWake DEF SignalWakee
  <2>4. in_wait' = in_wait /\ sema' = sema
    BY <2>3, AtomicNotify, Types, NotifiedLate
  <2>5. ASSUME NEW v \in Worker PROVE MonitorOK(v)'
    <3>1. /\ pc'[v] \in WaitPC <=> pc[v] \in WaitPC
          /\ pc'[v] = "late" => notified[v] \/ pc[v] = "late"
      BY <2>1, <2>4, Threads, Types DEF WaitPC, Types, PlaceTypes, Actor
    <3>2. pc'[v] = "late" => notified[v]
      BY <3>1, Monitors DEF Monitors, MonitorOK
    <3> QED BY <3>1, <3>2, <2>1, <2>4, MonitorSame
  <2> QED BY <2>5 DEF Monitors
<1>15. ASSUME NEW a \in Actor, Launch(a) PROVE Monitors'
  <2>1. /\ pc[a] = "launch" /\ pc' = [pc EXCEPT ![a] = "launched", ![Wakee(a)] = "run"]
        /\ sema' = sema /\ in_wait' = in_wait /\ spurious' = spurious /\ notified' = notified
    BY <1>15 DEF Launch
  <2>2. Wakee(a) \in Worker /\ pc[Wakee(a)] = "none" /\ Wakee(a) # a
    BY <1>15, NotYet
  <2>3. ASSUME NEW v \in Worker PROVE MonitorOK(v)'
    <3>1. /\ pc'[v] \in WaitPC <=> pc[v] \in WaitPC
          /\ pc'[v] = "late" => notified[v] \/ pc[v] = "late"
      BY <2>1, <2>2, Threads, Types DEF WaitPC, Types, PlaceTypes, Actor
    <3>2. pc'[v] = "late" => notified[v]
      BY <3>1, Monitors DEF Monitors, MonitorOK
    <3> QED BY <3>1, <3>2, <2>1, MonitorSame
  <2> QED BY <2>3 DEF Monitors
<1>16. ASSUME NEW a \in Actor, Launched(a) PROVE Monitors'
  <2>1. CASE my_state[Wakee(a)] = "starting"
    <3>1. /\ pc[a] = "launched" /\ pc' = [pc EXCEPT ![a] = "wake_each"]
          /\ sema' = sema /\ in_wait' = in_wait /\ spurious' = spurious /\ notified' = notified
      BY <1>16, <2>1 DEF Launched, Waked
    <3>2. ASSUME NEW v \in Worker PROVE MonitorOK(v)'
      <4>1. /\ pc'[v] \in WaitPC <=> pc[v] \in WaitPC
            /\ pc'[v] = "late" => notified[v] \/ pc[v] = "late"
        BY <3>1, Threads, Types DEF WaitPC, Types, PlaceTypes, Actor
      <4>2. pc'[v] = "late" => notified[v]
        BY <4>1, Monitors DEF Monitors, MonitorOK
      <4> QED BY <4>1, <4>2, <3>1, MonitorSame
    <3> QED BY <3>2 DEF Monitors
  <2>2. CASE ~(my_state[Wakee(a)] = "starting")
    <3>1. /\ pc[a] = "launched" /\ pc' = [pc EXCEPT ![a] = "wake_each"]
          /\ sema' = sema /\ in_wait' = in_wait /\ spurious' = spurious /\ notified' = notified
      BY <1>16, <2>2 DEF Launched, Waked
    <3>2. ASSUME NEW v \in Worker PROVE MonitorOK(v)'
      <4>1. /\ pc'[v] \in WaitPC <=> pc[v] \in WaitPC
            /\ pc'[v] = "late" => notified[v] \/ pc[v] = "late"
        BY <3>1, Threads, Types DEF WaitPC, Types, PlaceTypes, Actor
      <4>2. pc'[v] = "late" => notified[v]
        BY <4>1, Monitors DEF Monitors, MonitorOK
      <4> QED BY <4>1, <4>2, <3>1, MonitorSame
    <3> QED BY <3>2 DEF Monitors
  <2> QED BY <2>1, <2>2
<1>17. ASSUME NEW a \in Actor, WakeDone(a) PROVE Monitors'
  <2>1. /\ pc[a] = "wake_each" /\ wakee[a] = <<>> /\ pc' = [pc EXCEPT ![a] = back[a]]
        /\ sema' = sema /\ in_wait' = in_wait /\ spurious' = spurious /\ notified' = notified
    BY <1>17 DEF WakeDone
  <2>2. ASSUME NEW v \in Worker PROVE MonitorOK(v)'
    <3>1. /\ pc'[v] \in WaitPC <=> pc[v] \in WaitPC
          /\ pc'[v] = "late" => notified[v] \/ pc[v] = "late"
      BY <2>1, Threads, Types, Returns DEF WaitPC, Types, PlaceTypes, Actor, Returns,
         WakingPC
    <3>2. pc'[v] = "late" => notified[v]
      BY <3>1, Monitors DEF Monitors, MonitorOK
    <3> QED BY <3>1, <3>2, <2>1, MonitorSame
  <2> QED BY <2>2 DEF Monitors
<1>18. ASSUME NEW w \in Worker, Start(w) PROVE Monitors'
  <2>1. CASE asleep = <<>>
    <3>1. /\ pc[w] = "run" /\ pc' = [pc EXCEPT ![w] = "loop"]
          /\ sema' = sema /\ in_wait' = in_wait /\ spurious' = spurious /\ notified' = notified
      BY <1>18, <2>1 DEF Start, ChainReaction, WakeSome
    <3>2. ASSUME NEW v \in Worker PROVE MonitorOK(v)'
      <4>1. /\ pc'[v] \in WaitPC <=> pc[v] \in WaitPC
            /\ pc'[v] = "late" => notified[v] \/ pc[v] = "late"
        BY <3>1, Threads, Types DEF WaitPC, Types, PlaceTypes, Actor
      <4>2. pc'[v] = "late" => notified[v]
        BY <4>1, Monitors DEF Monitors, MonitorOK
      <4> QED BY <4>1, <4>2, <3>1, MonitorSame
    <3> QED BY <3>2 DEF Monitors
  <2>2. CASE ~(asleep = <<>>)
    <3>1. /\ pc[w] = "run" /\ pc' = [pc EXCEPT ![w] = "wake_lock"]
          /\ sema' = sema /\ in_wait' = in_wait /\ spurious' = spurious /\ notified' = notified
      BY <1>18, <2>2 DEF Start, ChainReaction, WakeSome
    <3>2. ASSUME NEW v \in Worker PROVE MonitorOK(v)'
      <4>1. /\ pc'[v] \in WaitPC <=> pc[v] \in WaitPC
            /\ pc'[v] = "late" => notified[v] \/ pc[v] = "late"
        BY <3>1, Threads, Types DEF WaitPC, Types, PlaceTypes, Actor
      <4>2. pc'[v] = "late" => notified[v]
        BY <4>1, Monitors DEF Monitors, MonitorOK
      <4> QED BY <4>1, <4>2, <3>1, MonitorSame
    <3> QED BY <3>2 DEF Monitors
  <2> QED BY <2>1, <2>2
<1>19. ASSUME NEW w \in Worker, Idle(w) PROVE Monitors'
  <2>1. /\ pc[w] = "loop" /\ my_slack < 0 /\ my_state[w] # "quit"
        /\ pc' = [pc EXCEPT ![w] = "prepare"]
        /\ sema' = sema /\ in_wait' = in_wait /\ spurious' = spurious /\ notified' = notified
    BY <1>19 DEF Idle
  <2>2. ASSUME NEW v \in Worker PROVE MonitorOK(v)'
    <3>1. /\ pc'[v] \in WaitPC <=> pc[v] \in WaitPC
          /\ pc'[v] = "late" => notified[v] \/ pc[v] = "late"
      BY <2>1, Threads, Types DEF WaitPC, Types, PlaceTypes, Actor
    <3>2. pc'[v] = "late" => notified[v]
      BY <3>1, Monitors DEF Monitors, MonitorOK
    <3> QED BY <3>1, <3>2, <2>1, MonitorSame
  <2> QED BY <2>2 DEF Monitors
<1>20. ASSUME NEW w \in Worker, PrepareWait(w) PROVE Monitors'
  <2>1. MonitorOK(w)
    BY Monitors DEF Monitors
  <2>2. /\ \A v \in Worker : v # w => /\ pc'[v] = pc[v] /\ sema'[v] = sema[v] /\ in_wait'[v] = in_wait[v]
                                        /\ spurious'[v] = spurious[v] /\ notified'[v] = notified[v]
    BY <1>20, Threads, Types DEF PrepareWait, Types, PlaceTypes, MonitorTypes, Actor
  <2>3. ASSUME NEW v \in Worker, v # w PROVE MonitorOK(v)'
    <3>1. pc'[v] = "late" => notified[v]
      BY <2>2, <2>3, Monitors DEF Monitors, MonitorOK
    <3> QED BY <2>2, <2>3, <3>1, MonitorSame
  <2>4. MonitorOK(w)'
    <3>1. /\ pc[w] = "prepare" /\ pc'[w] = "check" /\ in_wait'[w] = TRUE /\ spurious'[w] = FALSE
          /\ notified'[w] = FALSE
      BY <1>20, Threads, Types DEF PrepareWait, Types, PlaceTypes, MonitorTypes, Actor
    <3>2. ~Inside(w) /\ Inside(w)' /\ pc'[w] # "late"
      BY <3>1 DEF Inside, WaitPC
    <3>3. sema'[w] = 0
      <4>1. CASE spurious[w]
        BY <1>20, <4>1, Types DEF PrepareWait, Types, PlaceTypes, MonitorTypes, Actor
      <4>2. CASE ~spurious[w]
        <5>1. sema[w] # 1
          BY <2>1, <3>2, <4>2, Zenon DEF MonitorOK
        <5> QED BY <1>20, <4>2, <5>1, Types DEF PrepareWait, Types, PlaceTypes,
           MonitorTypes, Actor
      <4> QED BY <4>1, <4>2
    <3>4. in_wait'[w] /\ ~spurious'[w] /\ ~notified'[w] /\ sema'[w] # 1
      BY <3>1, <3>3
    <3> QED BY <3>2, <3>4, Zenon DEF MonitorOK
  <2> QED BY <2>3, <2>4 DEF Monitors
<1>21. ASSUME NEW w \in Worker, Check(w) PROVE Monitors'
  <2>1. /\ pc[w] = "check"
        /\ pc' = [pc EXCEPT ![w] = IF my_state[w] = "quit" THEN "cancel" ELSE "try_insert"]
        /\ sema' = sema /\ in_wait' = in_wait /\ spurious' = spurious /\ notified' = notified
    BY <1>21 DEF Check
  <2>2. ASSUME NEW v \in Worker PROVE MonitorOK(v)'
    <3>1. /\ pc'[v] \in WaitPC <=> pc[v] \in WaitPC
          /\ pc'[v] = "late" => notified[v] \/ pc[v] = "late"
      BY <2>1, Threads, Types DEF WaitPC, Types, PlaceTypes, Actor
    <3>2. pc'[v] = "late" => notified[v]
      BY <3>1, Monitors DEF Monitors, MonitorOK
    <3> QED BY <3>1, <3>2, <2>1, MonitorSame
  <2> QED BY <2>2 DEF Monitors
<1>22. ASSUME NEW w \in Worker, TryInsert(w) PROVE Monitors'
  <2>1. CASE mutex = NULL
    <3>1. /\ pc[w] = "try_insert" /\ pc' = [pc EXCEPT ![w] = "insert"]
          /\ sema' = sema /\ in_wait' = in_wait /\ spurious' = spurious /\ notified' = notified
      BY <1>22, <2>1 DEF TryInsert
    <3>2. ASSUME NEW v \in Worker PROVE MonitorOK(v)'
      <4>1. /\ pc'[v] \in WaitPC <=> pc[v] \in WaitPC
            /\ pc'[v] = "late" => notified[v] \/ pc[v] = "late"
        BY <3>1, Threads, Types DEF WaitPC, Types, PlaceTypes, Actor
      <4>2. pc'[v] = "late" => notified[v]
        BY <4>1, Monitors DEF Monitors, MonitorOK
      <4> QED BY <4>1, <4>2, <3>1, MonitorSame
    <3> QED BY <3>2 DEF Monitors
  <2>2. CASE ~(mutex = NULL)
    <3>1. /\ pc[w] = "try_insert" /\ pc' = [pc EXCEPT ![w] = "cancel"]
          /\ sema' = sema /\ in_wait' = in_wait /\ spurious' = spurious /\ notified' = notified
      BY <1>22, <2>2 DEF TryInsert
    <3>2. ASSUME NEW v \in Worker PROVE MonitorOK(v)'
      <4>1. /\ pc'[v] \in WaitPC <=> pc[v] \in WaitPC
            /\ pc'[v] = "late" => notified[v] \/ pc[v] = "late"
        BY <3>1, Threads, Types DEF WaitPC, Types, PlaceTypes, Actor
      <4>2. pc'[v] = "late" => notified[v]
        BY <4>1, Monitors DEF Monitors, MonitorOK
      <4> QED BY <4>1, <4>2, <3>1, MonitorSame
    <3> QED BY <3>2 DEF Monitors
  <2> QED BY <2>1, <2>2
<1>23. ASSUME NEW w \in Worker, Insert(w) PROVE Monitors'
  <2>1. CASE k[w] <= 0
    <3>1. /\ pc[w] = "insert" /\ pc' = [pc EXCEPT ![w] = "commit"]
          /\ sema' = sema /\ in_wait' = in_wait /\ spurious' = spurious /\ notified' = notified
      BY <1>23, <2>1 DEF Insert
    <3>2. ASSUME NEW v \in Worker PROVE MonitorOK(v)'
      <4>1. /\ pc'[v] \in WaitPC <=> pc[v] \in WaitPC
            /\ pc'[v] = "late" => notified[v] \/ pc[v] = "late"
        BY <3>1, Threads, Types DEF WaitPC, Types, PlaceTypes, Actor
      <4>2. pc'[v] = "late" => notified[v]
        BY <4>1, Monitors DEF Monitors, MonitorOK
      <4> QED BY <4>1, <4>2, <3>1, MonitorSame
    <3> QED BY <3>2 DEF Monitors
  <2>2. CASE ~(k[w] <= 0)
    <3>1. /\ pc[w] = "insert" /\ pc' = [pc EXCEPT ![w] = "cancel"]
          /\ sema' = sema /\ in_wait' = in_wait /\ spurious' = spurious /\ notified' = notified
      BY <1>23, <2>2 DEF Insert
    <3>2. ASSUME NEW v \in Worker PROVE MonitorOK(v)'
      <4>1. /\ pc'[v] \in WaitPC <=> pc[v] \in WaitPC
            /\ pc'[v] = "late" => notified[v] \/ pc[v] = "late"
        BY <3>1, Threads, Types DEF WaitPC, Types, PlaceTypes, Actor
      <4>2. pc'[v] = "late" => notified[v]
        BY <4>1, Monitors DEF Monitors, MonitorOK
      <4> QED BY <4>1, <4>2, <3>1, MonitorSame
    <3> QED BY <3>2 DEF Monitors
  <2> QED BY <2>1, <2>2
<1>24. ASSUME NEW w \in Worker, CancelWait(w) PROVE Monitors'
  <2>1. MonitorOK(w)
    BY Monitors DEF Monitors
  <2>2. /\ \A v \in Worker : v # w => /\ pc'[v] = pc[v] /\ sema'[v] = sema[v] /\ in_wait'[v] = in_wait[v]
                                        /\ spurious'[v] = spurious[v] /\ notified'[v] = notified[v]
    BY <1>24, Threads, Types DEF CancelWait, Cancel, Types, PlaceTypes, MonitorTypes, Actor
  <2>3. ASSUME NEW v \in Worker, v # w PROVE MonitorOK(v)'
    <3>1. pc'[v] = "late" => notified[v]
      BY <2>2, <2>3, Monitors DEF Monitors, MonitorOK
    <3> QED BY <2>2, <2>3, <3>1, MonitorSame
  <2>4. MonitorOK(w)'
    <3>1. /\ pc[w] = "cancel" /\ pc'[w] = "loop" /\ sema' = sema /\ notified' = notified
          /\ in_wait' = [in_wait EXCEPT ![w] = FALSE] /\ spurious' = [spurious EXCEPT ![w] = ~in_wait[w]]
      BY <1>24, Threads, Types DEF CancelWait, Cancel, Types, PlaceTypes, MonitorTypes,
         Actor
    <3>2. in_wait'[w] = FALSE /\ spurious'[w] = ~in_wait[w]
      BY <3>1, Types, Zenon DEF Types, MonitorTypes
    <3>3. Inside(w) /\ ~Inside(w)' /\ pc'[w] # "late"
      BY <3>1 DEF Inside, WaitPC
    <3>4. sema'[w] = 1 <=> spurious'[w]
      BY <2>1, <3>1, <3>2, <3>3, Zenon DEF MonitorOK
    <3> QED BY <3>2, <3>3, <3>4, Zenon DEF MonitorOK
  <2> QED BY <2>3, <2>4 DEF Monitors
<1>25. ASSUME NEW w \in Worker, CommitWait(w) PROVE Monitors'
  <2>1. /\ pc[w] = "commit"
        /\ pc' = [pc EXCEPT ![w] = IF notified[w] THEN "late" ELSE "sleep"]
        /\ sema' = sema /\ in_wait' = in_wait /\ spurious' = spurious /\ notified' = notified
    BY <1>25 DEF CommitWait
  <2>2. ASSUME NEW v \in Worker PROVE MonitorOK(v)'
    <3>1. /\ pc'[v] \in WaitPC <=> pc[v] \in WaitPC
          /\ pc'[v] = "late" => notified[v] \/ pc[v] = "late"
      BY <2>1, Threads, Types DEF WaitPC, Types, PlaceTypes, Actor
    <3>2. pc'[v] = "late" => notified[v]
      BY <3>1, Monitors DEF Monitors, MonitorOK
    <3> QED BY <3>1, <3>2, <2>1, MonitorSame
  <2> QED BY <2>2 DEF Monitors
<1>26. ASSUME NEW w \in Worker, Late(w) PROVE Monitors'
  <2>1. MonitorOK(w)
    BY Monitors DEF Monitors
  <2>2. /\ \A v \in Worker : v # w => /\ pc'[v] = pc[v] /\ sema'[v] = sema[v] /\ in_wait'[v] = in_wait[v]
                                        /\ spurious'[v] = spurious[v] /\ notified'[v] = notified[v]
    BY <1>26, Threads, Types DEF Late, Cancel, Types, PlaceTypes, MonitorTypes, Actor
  <2>3. ASSUME NEW v \in Worker, v # w PROVE MonitorOK(v)'
    <3>1. pc'[v] = "late" => notified[v]
      BY <2>2, <2>3, Monitors DEF Monitors, MonitorOK
    <3> QED BY <2>2, <2>3, <3>1, MonitorSame
  <2>4. MonitorOK(w)'
    <3>1. /\ pc[w] = "late" /\ pc'[w] = "woken" /\ sema' = sema /\ notified' = notified
          /\ in_wait' = [in_wait EXCEPT ![w] = FALSE] /\ spurious' = [spurious EXCEPT ![w] = ~in_wait[w]]
      BY <1>26, Threads, Types DEF Late, Cancel, Types, PlaceTypes, MonitorTypes, Actor
    <3>2. in_wait'[w] = FALSE /\ spurious'[w] = ~in_wait[w]
      BY <3>1, Types, Zenon DEF Types, MonitorTypes
    <3>3. Inside(w) /\ ~Inside(w)' /\ pc'[w] # "late"
      BY <3>1 DEF Inside, WaitPC
    <3>4. sema'[w] = 1 <=> spurious'[w]
      BY <2>1, <3>1, <3>2, <3>3, Zenon DEF MonitorOK
    <3> QED BY <3>2, <3>3, <3>4, Zenon DEF MonitorOK
  <2> QED BY <2>3, <2>4 DEF Monitors
<1>27. ASSUME NEW w \in Worker, Sleep(w) PROVE Monitors'
  <2>1. MonitorOK(w)
    BY Monitors DEF Monitors
  <2>2. /\ \A v \in Worker : v # w => /\ pc'[v] = pc[v] /\ sema'[v] = sema[v] /\ in_wait'[v] = in_wait[v]
                                        /\ spurious'[v] = spurious[v] /\ notified'[v] = notified[v]
    BY <1>27, Threads, Types DEF Sleep, Types, PlaceTypes, MonitorTypes, Actor
  <2>3. ASSUME NEW v \in Worker, v # w PROVE MonitorOK(v)'
    <3>1. pc'[v] = "late" => notified[v]
      BY <2>2, <2>3, Monitors DEF Monitors, MonitorOK
    <3> QED BY <2>2, <2>3, <3>1, MonitorSame
  <2>4. MonitorOK(w)'
    <3>1. /\ pc[w] = "sleep" /\ pc'[w] = "woken" /\ sema[w] = 1 /\ sema'[w] = 0 /\ in_wait' = in_wait
          /\ spurious' = spurious
      BY <1>27, Threads, Types DEF Sleep, Types, PlaceTypes, MonitorTypes, Actor
    <3>2. Inside(w) /\ ~Inside(w)' /\ pc'[w] # "late"
      BY <3>1 DEF Inside, WaitPC
    <3>3. ~in_wait[w] /\ ~spurious[w]
      BY <2>1, <3>1, <3>2, Zenon DEF MonitorOK
    <3>4. ~in_wait'[w] /\ ~spurious'[w] /\ sema'[w] # 1
      BY <3>1, <3>3
    <3> QED BY <3>2, <3>4, Zenon DEF MonitorOK
  <2> QED BY <2>3, <2>4 DEF Monitors
<1>28. ASSUME NEW w \in Worker, Woken(w) PROVE Monitors'
  <2>1. CASE asleep = <<>>
    <3>1. /\ pc[w] = "woken" /\ pc' = [pc EXCEPT ![w] = "loop"]
          /\ sema' = sema /\ in_wait' = in_wait /\ spurious' = spurious /\ notified' = notified
      BY <1>28, <2>1 DEF Woken, ChainReaction, WakeSome
    <3>2. ASSUME NEW v \in Worker PROVE MonitorOK(v)'
      <4>1. /\ pc'[v] \in WaitPC <=> pc[v] \in WaitPC
            /\ pc'[v] = "late" => notified[v] \/ pc[v] = "late"
        BY <3>1, Threads, Types DEF WaitPC, Types, PlaceTypes, Actor
      <4>2. pc'[v] = "late" => notified[v]
        BY <4>1, Monitors DEF Monitors, MonitorOK
      <4> QED BY <4>1, <4>2, <3>1, MonitorSame
    <3> QED BY <3>2 DEF Monitors
  <2>2. CASE ~(asleep = <<>>)
    <3>1. /\ pc[w] = "woken" /\ pc' = [pc EXCEPT ![w] = "wake_lock"]
          /\ sema' = sema /\ in_wait' = in_wait /\ spurious' = spurious /\ notified' = notified
      BY <1>28, <2>2 DEF Woken, ChainReaction, WakeSome
    <3>2. ASSUME NEW v \in Worker PROVE MonitorOK(v)'
      <4>1. /\ pc'[v] \in WaitPC <=> pc[v] \in WaitPC
            /\ pc'[v] = "late" => notified[v] \/ pc[v] = "late"
        BY <3>1, Threads, Types DEF WaitPC, Types, PlaceTypes, Actor
      <4>2. pc'[v] = "late" => notified[v]
        BY <4>1, Monitors DEF Monitors, MonitorOK
      <4> QED BY <4>1, <4>2, <3>1, MonitorSame
    <3> QED BY <3>2 DEF Monitors
  <2> QED BY <2>1, <2>2
<1>29. ASSUME NEW w \in Worker, Quit(w) PROVE Monitors'
  <2>1. /\ pc[w] = "loop" /\ my_state[w] = "quit" /\ pc' = [pc EXCEPT ![w] = "quit"]
        /\ sema' = sema /\ in_wait' = in_wait /\ spurious' = spurious /\ notified' = notified
    BY <1>29 DEF Quit
  <2>2. ASSUME NEW v \in Worker PROVE MonitorOK(v)'
    <3>1. /\ pc'[v] \in WaitPC <=> pc[v] \in WaitPC
          /\ pc'[v] = "late" => notified[v] \/ pc[v] = "late"
      BY <2>1, Threads, Types DEF WaitPC, Types, PlaceTypes, Actor
    <3>2. pc'[v] = "late" => notified[v]
      BY <3>1, Monitors DEF Monitors, MonitorOK
    <3> QED BY <3>1, <3>2, <2>1, MonitorSame
  <2> QED BY <2>2 DEF Monitors
<1>30. ASSUME NEW w \in Worker, End(w) PROVE Monitors'
  <2>1. /\ pc[w] = "quit" /\ pc' = [pc EXCEPT ![w] = "end"]
        /\ sema' = sema /\ in_wait' = in_wait /\ spurious' = spurious /\ notified' = notified
    BY <1>30 DEF End, RemoveServerRef
  <2>2. ASSUME NEW v \in Worker PROVE MonitorOK(v)'
    <3>1. /\ pc'[v] \in WaitPC <=> pc[v] \in WaitPC
          /\ pc'[v] = "late" => notified[v] \/ pc[v] = "late"
      BY <2>1, Threads, Types DEF WaitPC, Types, PlaceTypes, Actor
    <3>2. pc'[v] = "late" => notified[v]
      BY <3>1, Monitors DEF Monitors, MonitorOK
    <3> QED BY <3>1, <3>2, <2>1, MonitorSame
  <2> QED BY <2>2 DEF Monitors
<1> QED BY <1>1, <1>2, <1>3, <1>4, <1>5, <1>6, <1>7, <1>8, <1>9, <1>10, <1>11, <1>12,
   <1>13, <1>14, <1>15, <1>16, <1>17, <1>18, <1>19, <1>20, <1>21, <1>22, <1>23, <1>24,
   <1>25, <1>26, <1>27, <1>28, <1>29, <1>30, Next DEF Next, ShutDown, Waking, Run

\* The last of the workers that a has to wake stands in line.
LEMMA WakeeInLine ==
    ASSUME Types, NEW a \in Actor, wakee[a] # <<>>, pc[a] \in {"wake_each", "launch"}
    PROVE  /\ Wakee(a) \in Worker /\ InLine(Wakee(a)) /\ Pend(a) = Len(wakee[a])
           /\ Len(wakee[a]) \in 1..Pend(a) /\ Wakee(a) = wakee[a][Len(wakee[a])]
<1>1. /\ Wakee(a) \in Worker /\ Wakee(a) = wakee[a][Len(wakee[a])]
      /\ Len(wakee[a]) \in Nat /\ Len(wakee[a]) > 0
  BY ToWake
<1>2. Pend(a) = Len(wakee[a])
  BY DEF Pend
<1>3. Len(wakee[a]) \in 1..Pend(a)
  BY <1>1, <1>2
<1> QED BY <1>1, <1>2, <1>3, Zenon DEF InLine
LEMMA FreshSame ==
    ASSUME Fresh, \A v \in Worker : /\ pc'[v] \in {"check", "try_insert", "insert"} =>
                                         pc[v] \in {"check", "try_insert", "insert"}
                                    /\ my_state'[v] # "quit" => my_state[v] # "quit"
                                    /\ notified'[v] = notified[v]
    PROVE  Fresh'
  BY DEF Fresh

\* A worker that is about to go to the list has not been notified, or it is told to quit.
LEMMA FreshStep ==
    ASSUME Assumptions, Types, Popped, Handles, Returns, Telling, Line, Fresh, Next
    PROVE  Fresh'
<1> USE DEF Set, Goto, Jump, server, monitor, waking, demand, hist
<1>1. ASSUME NEW c \in Client, NEW delta \in 1..MaxDelta, Request(c, delta) PROVE Fresh'
  <2>1. /\ pc[c] = "idle"
        /\ ~Closing /\ asked[c] = 0 /\ SumFunction(asked) + delta <= Cardinality(Worker)
        /\ pc' = [pc EXCEPT ![c] = "wake_lock"]
        /\ my_state' = my_state /\ notified' = notified
    BY <1>1 DEF Request, WakeSome
  <2>2. \A v \in Worker : /\ pc'[v] \in {"check", "try_insert", "insert"} =>
                               pc[v] \in {"check", "try_insert", "insert"}
                          /\ my_state'[v] # "quit" => my_state[v] # "quit"
                          /\ notified'[v] = notified[v]
    BY <2>1, Threads, Types DEF Types, PlaceTypes, StateTypes, Actor
  <2> QED BY <2>2, FreshSame
<1>2. ASSUME NEW c \in Client, Return(c) PROVE Fresh'
  <2>1. /\ pc[c] = "idle" /\ asked[c] > 0 /\ pc' = [pc EXCEPT ![c] = "idle"]
        /\ my_state' = my_state /\ notified' = notified
    BY <1>2 DEF Return
  <2>2. \A v \in Worker : /\ pc'[v] \in {"check", "try_insert", "insert"} =>
                               pc[v] \in {"check", "try_insert", "insert"}
                          /\ my_state'[v] # "quit" => my_state[v] # "quit"
                          /\ notified'[v] = notified[v]
    BY <2>1, Threads, Types DEF Types, PlaceTypes, StateTypes, Actor
  <2> QED BY <2>2, FreshSame
<1>3. ASSUME NEW c \in Client, Close(c) PROVE Fresh'
  <2>1. /\ pc[c] = "idle"
        /\ \A d \in Client : pc[d] = "idle" /\ asked[d] = 0
        /\ pc' = [pc EXCEPT ![c] = "shutdown"]
        /\ my_state' = my_state /\ notified' = notified
    BY <1>3 DEF Close
  <2>2. \A v \in Worker : /\ pc'[v] \in {"check", "try_insert", "insert"} =>
                               pc[v] \in {"check", "try_insert", "insert"}
                          /\ my_state'[v] # "quit" => my_state[v] # "quit"
                          /\ notified'[v] = notified[v]
    BY <2>1, Threads, Types DEF Types, PlaceTypes, StateTypes, Actor
  <2> QED BY <2>2, FreshSame
<1>4. ASSUME NEW c \in Client, NEW w \in Worker, StartShutdown(c, w) PROVE Fresh'
  <2>1. CASE my_state[w] = "init"
    <3>1. /\ pc[c] = "shutdown" /\ my_state[w] # "quit"
          /\ pc' = [pc EXCEPT ![c] = "shutdown"]
          /\ my_state' = [my_state EXCEPT ![w] = "quit"] /\ notified' = notified
      BY <1>4, <2>1 DEF StartShutdown, RemoveServerRef
    <3>2. \A v \in Worker : /\ pc'[v] \in {"check", "try_insert", "insert"} =>
                                 pc[v] \in {"check", "try_insert", "insert"}
                            /\ my_state'[v] # "quit" => my_state[v] # "quit"
                            /\ notified'[v] = notified[v]
      BY <3>1, Threads, Types DEF Types, PlaceTypes, StateTypes, Actor
    <3> QED BY <3>2, FreshSame
  <2>2. CASE ~(my_state[w] = "init")
    <3>1. /\ pc[c] = "shutdown" /\ my_state[w] # "quit"
          /\ pc' = [pc EXCEPT ![c] = "notify"]
          /\ my_state' = [my_state EXCEPT ![w] = "quit"] /\ notified' = notified
      BY <1>4, <2>2 DEF StartShutdown, RemoveServerRef
    <3>2. \A v \in Worker : /\ pc'[v] \in {"check", "try_insert", "insert"} =>
                                 pc[v] \in {"check", "try_insert", "insert"}
                            /\ my_state'[v] # "quit" => my_state[v] # "quit"
                            /\ notified'[v] = notified[v]
      BY <3>1, Threads, Types DEF Types, PlaceTypes, StateTypes, Actor
    <3> QED BY <3>2, FreshSame
  <2> QED BY <2>1, <2>2
<1>5. ASSUME NEW c \in Client, NotifyQuit(c) PROVE Fresh'
  <2>1. /\ pc[c] = "notify" /\ pc' = [pc EXCEPT ![c] = "signal_quit"]
        /\ notified' = [notified EXCEPT ![wakee[c][1]] = TRUE] /\ my_state' = my_state
    BY <1>5, QuitNotified
  <2>2. /\ \A v \in Worker : pc'[v] \in {"check", "try_insert", "insert"} =>
                               pc[v] \in {"check", "try_insert", "insert"}
        /\ \A v \in Worker : v # wakee[c][1] => notified'[v] = notified[v]
    BY <2>1, Threads, Types DEF Types, PlaceTypes, MonitorTypes
  <2>3. my_state[wakee[c][1]] = "quit"
    BY <2>1, Telling DEF Telling
  <2> QED BY <2>1, <2>2, <2>3 DEF Fresh
<1>6. ASSUME NEW c \in Client, SignalQuit(c) PROVE Fresh'
  <2>1. CASE back[c] = "normal"
    <3>1. /\ pc[c] = "signal_quit" /\ pc' = [pc EXCEPT ![c] = "release_handle"]
          /\ my_state' = my_state /\ notified' = notified
      BY <1>6, <2>1 DEF SignalQuit
    <3>2. \A v \in Worker : /\ pc'[v] \in {"check", "try_insert", "insert"} =>
                                 pc[v] \in {"check", "try_insert", "insert"}
                            /\ my_state'[v] # "quit" => my_state[v] # "quit"
                            /\ notified'[v] = notified[v]
      BY <3>1, Threads, Types DEF Types, PlaceTypes, StateTypes, Actor
    <3> QED BY <3>2, FreshSame
  <2>2. CASE ~(back[c] = "normal")
    <3>1. /\ pc[c] = "signal_quit" /\ pc' = [pc EXCEPT ![c] = "shutdown"]
          /\ my_state' = my_state /\ notified' = notified
      BY <1>6, <2>2 DEF SignalQuit
    <3>2. \A v \in Worker : /\ pc'[v] \in {"check", "try_insert", "insert"} =>
                                 pc[v] \in {"check", "try_insert", "insert"}
                            /\ my_state'[v] # "quit" => my_state[v] # "quit"
                            /\ notified'[v] = notified[v]
      BY <3>1, Threads, Types DEF Types, PlaceTypes, StateTypes, Actor
    <3> QED BY <3>2, FreshSame
  <2> QED BY <2>1, <2>2
<1>7. ASSUME NEW c \in Client, ReleaseHandle(c) PROVE Fresh'
  <2>1. /\ pc[c] = "release_handle" /\ pc' = [pc EXCEPT ![c] = "shutdown"]
        /\ my_state' = my_state /\ notified' = notified
    BY <1>7 DEF ReleaseHandle
  <2>2. \A v \in Worker : /\ pc'[v] \in {"check", "try_insert", "insert"} =>
                               pc[v] \in {"check", "try_insert", "insert"}
                          /\ my_state'[v] # "quit" => my_state[v] # "quit"
                          /\ notified'[v] = notified[v]
    BY <2>1, Threads, Types DEF Types, PlaceTypes, StateTypes, Actor
  <2> QED BY <2>2, FreshSame
<1>8. ASSUME NEW c \in Client, Closed(c) PROVE Fresh'
  <2>1. /\ pc[c] = "shutdown"
        /\ \A w \in Worker : my_state[w] = "quit"
        /\ pc' = [pc EXCEPT ![c] = "closed"]
        /\ my_state' = my_state /\ notified' = notified
    BY <1>8 DEF Closed, RemoveServerRef
  <2>2. \A v \in Worker : /\ pc'[v] \in {"check", "try_insert", "insert"} =>
                               pc[v] \in {"check", "try_insert", "insert"}
                          /\ my_state'[v] # "quit" => my_state[v] # "quit"
                          /\ notified'[v] = notified[v]
    BY <2>1, Threads, Types DEF Types, PlaceTypes, StateTypes, Actor
  <2> QED BY <2>2, FreshSame
<1>9. ASSUME NEW a \in Actor, WakeLock(a) PROVE Fresh'
  <2>1. /\ pc[a] = "wake_lock" /\ mutex = NULL /\ pc' = [pc EXCEPT ![a] = "wake_loop"]
        /\ my_state' = my_state /\ notified' = notified
    BY <1>9 DEF WakeLock
  <2>2. \A v \in Worker : /\ pc'[v] \in {"check", "try_insert", "insert"} =>
                               pc[v] \in {"check", "try_insert", "insert"}
                          /\ my_state'[v] # "quit" => my_state[v] # "quit"
                          /\ notified'[v] = notified[v]
    BY <2>1, Threads, Types DEF Types, PlaceTypes, StateTypes, Actor
  <2> QED BY <2>2, FreshSame
<1>10. ASSUME NEW a \in Actor, PopForDemand(a) PROVE Fresh'
  <2>1. /\ pc[a] = "wake_loop"
        /\ additional[a] > 0 /\ additional[a] + my_slack > 0 /\ asleep # <<>>
        /\ pc' = [pc EXCEPT ![a] = "wake_loop"]
        /\ my_state' = my_state /\ notified' = notified
    BY <1>10 DEF PopForDemand, CanPop, Pop
  <2>2. \A v \in Worker : /\ pc'[v] \in {"check", "try_insert", "insert"} =>
                               pc[v] \in {"check", "try_insert", "insert"}
                          /\ my_state'[v] # "quit" => my_state[v] # "quit"
                          /\ notified'[v] = notified[v]
    BY <2>1, Threads, Types DEF Types, PlaceTypes, StateTypes, Actor
  <2> QED BY <2>2, FreshSame
<1>11. ASSUME NEW a \in Actor, PopForSlack(a) PROVE Fresh'
  <2>1. /\ pc[a] = "wake_loop" /\ additional[a] = 0 /\ my_slack > 0 /\ asleep # <<>>
        /\ pc' = [pc EXCEPT ![a] = "wake_loop"]
        /\ my_state' = my_state /\ notified' = notified
    BY <1>11 DEF PopForSlack, CanPop, Pop
  <2>2. \A v \in Worker : /\ pc'[v] \in {"check", "try_insert", "insert"} =>
                               pc[v] \in {"check", "try_insert", "insert"}
                          /\ my_state'[v] # "quit" => my_state[v] # "quit"
                          /\ notified'[v] = notified[v]
    BY <2>1, Threads, Types DEF Types, PlaceTypes, StateTypes, Actor
  <2> QED BY <2>2, FreshSame
<1>12. ASSUME NEW a \in Actor, WakeUnlock(a) PROVE Fresh'
  <2>1. /\ pc[a] = "wake_loop" /\ pc' = [pc EXCEPT ![a] = "wake_each"]
        /\ my_state' = my_state /\ notified' = notified
    BY <1>12 DEF WakeUnlock, CanPop
  <2>2. \A v \in Worker : /\ pc'[v] \in {"check", "try_insert", "insert"} =>
                               pc[v] \in {"check", "try_insert", "insert"}
                          /\ my_state'[v] # "quit" => my_state[v] # "quit"
                          /\ notified'[v] = notified[v]
    BY <2>1, Threads, Types DEF Types, PlaceTypes, StateTypes, Actor
  <2> QED BY <2>2, FreshSame
<1>13. ASSUME NEW a \in Actor, WakeEach(a) PROVE Fresh'
  <2>1. CASE my_state[Wakee(a)] = "init"
    <3>1. /\ pc[a] = "wake_each" /\ wakee[a] # <<>>
          /\ pc' = [pc EXCEPT ![a] = "launch"]
          /\ my_state' = [my_state EXCEPT ![Wakee(a)] = "starting"]
          /\ notified' = notified
      BY <1>13, <2>1 DEF WakeEach
    <3>2. wakee[a] # <<>> /\ Wakee(a) \in Worker
      BY <3>1, Popped, ToWake DEF Popped
    <3>3. \A v \in Worker : /\ pc'[v] \in {"check", "try_insert", "insert"} =>
                                 pc[v] \in {"check", "try_insert", "insert"}
                            /\ my_state'[v] # "quit" => my_state[v] # "quit"
                            /\ notified'[v] = notified[v]
      BY <3>1, <3>2, <2>1, Threads, Types DEF Types, PlaceTypes, StateTypes, Actor
    <3> QED BY <3>3, FreshSame
  <2>2. CASE ~(my_state[Wakee(a)] = "init")
    <3>1. /\ pc[a] = "wake_each" /\ wakee[a] # <<>>
          /\ pc' = [pc EXCEPT ![a] = "signal"]
          /\ notified' = [notified EXCEPT ![Wakee(a)] = TRUE] /\ my_state' = my_state
      BY <1>13, <2>2, SleeperNotified
    <3>2. /\ \A v \in Worker : pc'[v] \in {"check", "try_insert", "insert"} =>
                                 pc[v] \in {"check", "try_insert", "insert"}
          /\ \A v \in Worker : v # Wakee(a) => notified'[v] = notified[v]
      BY <3>1, Threads, Types DEF Types, PlaceTypes, MonitorTypes
    <3>3. pc[Wakee(a)] \notin {"check", "try_insert", "insert"}
      BY <3>1, WakeeInLine, Line DEF Line, Parked
    <3> QED BY <3>1, <3>2, <3>3 DEF Fresh
  <2> QED BY <2>1, <2>2
<1>14. ASSUME NEW a \in Actor, SignalWakee(a) PROVE Fresh'
  <2>1. /\ pc[a] = "signal" /\ pc' = [pc EXCEPT ![a] = "wake_each"]
        /\ my_state' = my_state /\ notified' = notified
    BY <1>14 DEF SignalWakee, Waked
  <2>2. \A v \in Worker : /\ pc'[v] \in {"check", "try_insert", "insert"} =>
                               pc[v] \in {"check", "try_insert", "insert"}
                          /\ my_state'[v] # "quit" => my_state[v] # "quit"
                          /\ notified'[v] = notified[v]
    BY <2>1, Threads, Types DEF Types, PlaceTypes, StateTypes, Actor
  <2> QED BY <2>2, FreshSame
<1>15. ASSUME NEW a \in Actor, Launch(a) PROVE Fresh'
  <2>1. /\ pc[a] = "launch" /\ pc' = [pc EXCEPT ![a] = "launched", ![Wakee(a)] = "run"]
        /\ my_state' = my_state /\ notified' = notified
    BY <1>15 DEF Launch
  <2>2. Wakee(a) \in Worker /\ pc[Wakee(a)] = "none" /\ Wakee(a) # a
    BY <1>15, NotYet
  <2>3. \A v \in Worker : /\ pc'[v] \in {"check", "try_insert", "insert"} =>
                               pc[v] \in {"check", "try_insert", "insert"}
                          /\ my_state'[v] # "quit" => my_state[v] # "quit"
                          /\ notified'[v] = notified[v]
    BY <2>1, <2>2, Threads, Types DEF Types, PlaceTypes, StateTypes, Actor
  <2> QED BY <2>3, FreshSame
<1>16. ASSUME NEW a \in Actor, Launched(a) PROVE Fresh'
  <2>1. CASE my_state[Wakee(a)] = "starting"
    <3>1. /\ pc[a] = "launched" /\ pc' = [pc EXCEPT ![a] = "wake_each"]
          /\ my_state' = [my_state EXCEPT ![Wakee(a)] = "normal"]
          /\ notified' = notified
      BY <1>16, <2>1 DEF Launched, Waked
    <3>2. wakee[a] # <<>> /\ Wakee(a) \in Worker
      BY <3>1, Popped, ToWake DEF Popped
    <3>3. \A v \in Worker : /\ pc'[v] \in {"check", "try_insert", "insert"} =>
                                 pc[v] \in {"check", "try_insert", "insert"}
                            /\ my_state'[v] # "quit" => my_state[v] # "quit"
                            /\ notified'[v] = notified[v]
      BY <3>1, <3>2, <2>1, Threads, Types DEF Types, PlaceTypes, StateTypes, Actor
    <3> QED BY <3>3, FreshSame
  <2>2. CASE ~(my_state[Wakee(a)] = "starting")
    <3>1. /\ pc[a] = "launched" /\ pc' = [pc EXCEPT ![a] = "wake_each"]
          /\ my_state' = my_state /\ notified' = notified
      BY <1>16, <2>2 DEF Launched, Waked
    <3>2. \A v \in Worker : /\ pc'[v] \in {"check", "try_insert", "insert"} =>
                                 pc[v] \in {"check", "try_insert", "insert"}
                            /\ my_state'[v] # "quit" => my_state[v] # "quit"
                            /\ notified'[v] = notified[v]
      BY <3>1, Threads, Types DEF Types, PlaceTypes, StateTypes, Actor
    <3> QED BY <3>2, FreshSame
  <2> QED BY <2>1, <2>2
<1>17. ASSUME NEW a \in Actor, WakeDone(a) PROVE Fresh'
  <2>1. /\ pc[a] = "wake_each" /\ wakee[a] = <<>> /\ pc' = [pc EXCEPT ![a] = back[a]]
        /\ my_state' = my_state /\ notified' = notified
    BY <1>17 DEF WakeDone
  <2>2. \A v \in Worker : /\ pc'[v] \in {"check", "try_insert", "insert"} =>
                               pc[v] \in {"check", "try_insert", "insert"}
                          /\ my_state'[v] # "quit" => my_state[v] # "quit"
                          /\ notified'[v] = notified[v]
    BY <2>1, Threads, Types, Returns DEF Types, PlaceTypes, StateTypes, Actor, Returns,
       WakingPC
  <2> QED BY <2>2, FreshSame
<1>18. ASSUME NEW w \in Worker, Start(w) PROVE Fresh'
  <2>1. CASE asleep = <<>>
    <3>1. /\ pc[w] = "run" /\ pc' = [pc EXCEPT ![w] = "loop"]
          /\ my_state' = my_state /\ notified' = notified
      BY <1>18, <2>1 DEF Start, ChainReaction, WakeSome
    <3>2. \A v \in Worker : /\ pc'[v] \in {"check", "try_insert", "insert"} =>
                                 pc[v] \in {"check", "try_insert", "insert"}
                            /\ my_state'[v] # "quit" => my_state[v] # "quit"
                            /\ notified'[v] = notified[v]
      BY <3>1, Threads, Types DEF Types, PlaceTypes, StateTypes, Actor
    <3> QED BY <3>2, FreshSame
  <2>2. CASE ~(asleep = <<>>)
    <3>1. /\ pc[w] = "run" /\ pc' = [pc EXCEPT ![w] = "wake_lock"]
          /\ my_state' = my_state /\ notified' = notified
      BY <1>18, <2>2 DEF Start, ChainReaction, WakeSome
    <3>2. \A v \in Worker : /\ pc'[v] \in {"check", "try_insert", "insert"} =>
                                 pc[v] \in {"check", "try_insert", "insert"}
                            /\ my_state'[v] # "quit" => my_state[v] # "quit"
                            /\ notified'[v] = notified[v]
      BY <3>1, Threads, Types DEF Types, PlaceTypes, StateTypes, Actor
    <3> QED BY <3>2, FreshSame
  <2> QED BY <2>1, <2>2
<1>19. ASSUME NEW w \in Worker, Idle(w) PROVE Fresh'
  <2>1. /\ pc[w] = "loop" /\ my_slack < 0 /\ my_state[w] # "quit"
        /\ pc' = [pc EXCEPT ![w] = "prepare"]
        /\ my_state' = my_state /\ notified' = notified
    BY <1>19 DEF Idle
  <2>2. \A v \in Worker : /\ pc'[v] \in {"check", "try_insert", "insert"} =>
                               pc[v] \in {"check", "try_insert", "insert"}
                          /\ my_state'[v] # "quit" => my_state[v] # "quit"
                          /\ notified'[v] = notified[v]
    BY <2>1, Threads, Types DEF Types, PlaceTypes, StateTypes, Actor
  <2> QED BY <2>2, FreshSame
<1>20. ASSUME NEW w \in Worker, PrepareWait(w) PROVE Fresh'
  <2>1. /\ pc[w] = "prepare"
        /\ spurious[w] => sema[w] = 1
        /\ pc' = [pc EXCEPT ![w] = "check"]
        /\ notified' = [notified EXCEPT ![w] = FALSE] /\ my_state' = my_state
    BY <1>20 DEF PrepareWait
  <2>2. /\ \A v \in Worker : v # w => pc'[v] = pc[v] /\ notified'[v] = notified[v]
        /\ notified'[w] = FALSE
    BY <2>1, Threads, Types DEF Types, PlaceTypes, MonitorTypes
  <2> QED BY <2>1, <2>2 DEF Fresh
<1>21. ASSUME NEW w \in Worker, Check(w) PROVE Fresh'
  <2>1. /\ pc[w] = "check"
        /\ pc' = [pc EXCEPT ![w] = IF my_state[w] = "quit" THEN "cancel" ELSE "try_insert"]
        /\ my_state' = my_state /\ notified' = notified
    BY <1>21 DEF Check
  <2>2. \A v \in Worker : /\ pc'[v] \in {"check", "try_insert", "insert"} =>
                               pc[v] \in {"check", "try_insert", "insert"}
                          /\ my_state'[v] # "quit" => my_state[v] # "quit"
                          /\ notified'[v] = notified[v]
    BY <2>1, Threads, Types DEF Types, PlaceTypes, StateTypes, Actor
  <2> QED BY <2>2, FreshSame
<1>22. ASSUME NEW w \in Worker, TryInsert(w) PROVE Fresh'
  <2>1. CASE mutex = NULL
    <3>1. /\ pc[w] = "try_insert" /\ pc' = [pc EXCEPT ![w] = "insert"]
          /\ my_state' = my_state /\ notified' = notified
      BY <1>22, <2>1 DEF TryInsert
    <3>2. \A v \in Worker : /\ pc'[v] \in {"check", "try_insert", "insert"} =>
                                 pc[v] \in {"check", "try_insert", "insert"}
                            /\ my_state'[v] # "quit" => my_state[v] # "quit"
                            /\ notified'[v] = notified[v]
      BY <3>1, Threads, Types DEF Types, PlaceTypes, StateTypes, Actor
    <3> QED BY <3>2, FreshSame
  <2>2. CASE ~(mutex = NULL)
    <3>1. /\ pc[w] = "try_insert" /\ pc' = [pc EXCEPT ![w] = "cancel"]
          /\ my_state' = my_state /\ notified' = notified
      BY <1>22, <2>2 DEF TryInsert
    <3>2. \A v \in Worker : /\ pc'[v] \in {"check", "try_insert", "insert"} =>
                                 pc[v] \in {"check", "try_insert", "insert"}
                            /\ my_state'[v] # "quit" => my_state[v] # "quit"
                            /\ notified'[v] = notified[v]
      BY <3>1, Threads, Types DEF Types, PlaceTypes, StateTypes, Actor
    <3> QED BY <3>2, FreshSame
  <2> QED BY <2>1, <2>2
<1>23. ASSUME NEW w \in Worker, Insert(w) PROVE Fresh'
  <2>1. CASE k[w] <= 0
    <3>1. /\ pc[w] = "insert" /\ pc' = [pc EXCEPT ![w] = "commit"]
          /\ my_state' = my_state /\ notified' = notified
      BY <1>23, <2>1 DEF Insert
    <3>2. \A v \in Worker : /\ pc'[v] \in {"check", "try_insert", "insert"} =>
                                 pc[v] \in {"check", "try_insert", "insert"}
                            /\ my_state'[v] # "quit" => my_state[v] # "quit"
                            /\ notified'[v] = notified[v]
      BY <3>1, Threads, Types DEF Types, PlaceTypes, StateTypes, Actor
    <3> QED BY <3>2, FreshSame
  <2>2. CASE ~(k[w] <= 0)
    <3>1. /\ pc[w] = "insert" /\ pc' = [pc EXCEPT ![w] = "cancel"]
          /\ my_state' = my_state /\ notified' = notified
      BY <1>23, <2>2 DEF Insert
    <3>2. \A v \in Worker : /\ pc'[v] \in {"check", "try_insert", "insert"} =>
                                 pc[v] \in {"check", "try_insert", "insert"}
                            /\ my_state'[v] # "quit" => my_state[v] # "quit"
                            /\ notified'[v] = notified[v]
      BY <3>1, Threads, Types DEF Types, PlaceTypes, StateTypes, Actor
    <3> QED BY <3>2, FreshSame
  <2> QED BY <2>1, <2>2
<1>24. ASSUME NEW w \in Worker, CancelWait(w) PROVE Fresh'
  <2>1. /\ pc[w] = "cancel" /\ pc' = [pc EXCEPT ![w] = "loop"]
        /\ my_state' = my_state /\ notified' = notified
    BY <1>24 DEF CancelWait, Cancel
  <2>2. \A v \in Worker : /\ pc'[v] \in {"check", "try_insert", "insert"} =>
                               pc[v] \in {"check", "try_insert", "insert"}
                          /\ my_state'[v] # "quit" => my_state[v] # "quit"
                          /\ notified'[v] = notified[v]
    BY <2>1, Threads, Types DEF Types, PlaceTypes, StateTypes, Actor
  <2> QED BY <2>2, FreshSame
<1>25. ASSUME NEW w \in Worker, CommitWait(w) PROVE Fresh'
  <2>1. /\ pc[w] = "commit"
        /\ pc' = [pc EXCEPT ![w] = IF notified[w] THEN "late" ELSE "sleep"]
        /\ my_state' = my_state /\ notified' = notified
    BY <1>25 DEF CommitWait
  <2>2. \A v \in Worker : /\ pc'[v] \in {"check", "try_insert", "insert"} =>
                               pc[v] \in {"check", "try_insert", "insert"}
                          /\ my_state'[v] # "quit" => my_state[v] # "quit"
                          /\ notified'[v] = notified[v]
    BY <2>1, Threads, Types DEF Types, PlaceTypes, StateTypes, Actor
  <2> QED BY <2>2, FreshSame
<1>26. ASSUME NEW w \in Worker, Late(w) PROVE Fresh'
  <2>1. /\ pc[w] = "late" /\ pc' = [pc EXCEPT ![w] = "woken"]
        /\ my_state' = my_state /\ notified' = notified
    BY <1>26 DEF Late, Cancel
  <2>2. \A v \in Worker : /\ pc'[v] \in {"check", "try_insert", "insert"} =>
                               pc[v] \in {"check", "try_insert", "insert"}
                          /\ my_state'[v] # "quit" => my_state[v] # "quit"
                          /\ notified'[v] = notified[v]
    BY <2>1, Threads, Types DEF Types, PlaceTypes, StateTypes, Actor
  <2> QED BY <2>2, FreshSame
<1>27. ASSUME NEW w \in Worker, Sleep(w) PROVE Fresh'
  <2>1. /\ pc[w] = "sleep" /\ sema[w] = 1 /\ pc' = [pc EXCEPT ![w] = "woken"]
        /\ my_state' = my_state /\ notified' = notified
    BY <1>27 DEF Sleep
  <2>2. \A v \in Worker : /\ pc'[v] \in {"check", "try_insert", "insert"} =>
                               pc[v] \in {"check", "try_insert", "insert"}
                          /\ my_state'[v] # "quit" => my_state[v] # "quit"
                          /\ notified'[v] = notified[v]
    BY <2>1, Threads, Types DEF Types, PlaceTypes, StateTypes, Actor
  <2> QED BY <2>2, FreshSame
<1>28. ASSUME NEW w \in Worker, Woken(w) PROVE Fresh'
  <2>1. CASE asleep = <<>>
    <3>1. /\ pc[w] = "woken" /\ pc' = [pc EXCEPT ![w] = "loop"]
          /\ my_state' = my_state /\ notified' = notified
      BY <1>28, <2>1 DEF Woken, ChainReaction, WakeSome
    <3>2. \A v \in Worker : /\ pc'[v] \in {"check", "try_insert", "insert"} =>
                                 pc[v] \in {"check", "try_insert", "insert"}
                            /\ my_state'[v] # "quit" => my_state[v] # "quit"
                            /\ notified'[v] = notified[v]
      BY <3>1, Threads, Types DEF Types, PlaceTypes, StateTypes, Actor
    <3> QED BY <3>2, FreshSame
  <2>2. CASE ~(asleep = <<>>)
    <3>1. /\ pc[w] = "woken" /\ pc' = [pc EXCEPT ![w] = "wake_lock"]
          /\ my_state' = my_state /\ notified' = notified
      BY <1>28, <2>2 DEF Woken, ChainReaction, WakeSome
    <3>2. \A v \in Worker : /\ pc'[v] \in {"check", "try_insert", "insert"} =>
                                 pc[v] \in {"check", "try_insert", "insert"}
                            /\ my_state'[v] # "quit" => my_state[v] # "quit"
                            /\ notified'[v] = notified[v]
      BY <3>1, Threads, Types DEF Types, PlaceTypes, StateTypes, Actor
    <3> QED BY <3>2, FreshSame
  <2> QED BY <2>1, <2>2
<1>29. ASSUME NEW w \in Worker, Quit(w) PROVE Fresh'
  <2>1. /\ pc[w] = "loop" /\ my_state[w] = "quit" /\ pc' = [pc EXCEPT ![w] = "quit"]
        /\ my_state' = my_state /\ notified' = notified
    BY <1>29 DEF Quit
  <2>2. \A v \in Worker : /\ pc'[v] \in {"check", "try_insert", "insert"} =>
                               pc[v] \in {"check", "try_insert", "insert"}
                          /\ my_state'[v] # "quit" => my_state[v] # "quit"
                          /\ notified'[v] = notified[v]
    BY <2>1, Threads, Types DEF Types, PlaceTypes, StateTypes, Actor
  <2> QED BY <2>2, FreshSame
<1>30. ASSUME NEW w \in Worker, End(w) PROVE Fresh'
  <2>1. /\ pc[w] = "quit" /\ pc' = [pc EXCEPT ![w] = "end"]
        /\ my_state' = my_state /\ notified' = notified
    BY <1>30 DEF End, RemoveServerRef
  <2>2. \A v \in Worker : /\ pc'[v] \in {"check", "try_insert", "insert"} =>
                               pc[v] \in {"check", "try_insert", "insert"}
                          /\ my_state'[v] # "quit" => my_state[v] # "quit"
                          /\ notified'[v] = notified[v]
    BY <2>1, Threads, Types DEF Types, PlaceTypes, StateTypes, Actor
  <2> QED BY <2>2, FreshSame
<1> QED BY <1>1, <1>2, <1>3, <1>4, <1>5, <1>6, <1>7, <1>8, <1>9, <1>10, <1>11, <1>12,
   <1>13, <1>14, <1>15, <1>16, <1>17, <1>18, <1>19, <1>20, <1>21, <1>22, <1>23, <1>24,
   <1>25, <1>26, <1>27, <1>28, <1>29, <1>30, Next DEF Next, ShutDown, Waking, Run

\* The line is in order as long as nobody joins it and those in it stay parked.
LEMMA PendType == ASSUME Types, NEW a \in Actor PROVE Pend(a) \in Int
<1>1. Len(wakee[a]) \in Nat
  BY DEF Types, DemandTypes
<1> QED BY <1>1 DEF Pend
LEMMA LineKept ==
    ASSUME Types, Line, asleep' = asleep,
           \A b \in Actor : /\ Pend(b)' = Pend(b)
                            /\ \A i \in 1..Pend(b) : wakee'[b][i] = wakee[b][i],
           \A v \in Worker : Parked(v) => Parked(v)'
    PROVE  Line'
<1>1. \A b \in Actor : Pend(b) \in Int
  BY PendType
<1>2. Once'
  BY <1>1 DEF Line, Once
<1>3. \A v \in Worker : InLine(v)' => InLine(v)
  BY <1>1 DEF InLine
<1> QED BY <1>2, <1>3 DEF Line
\* The last of the workers that a has to wake leaves the line.
LEMMA LastLeaves ==
    ASSUME Types, Line, NEW a \in Actor, wakee[a] # <<>>, pc[a] \in {"wake_each", "launch"},
           asleep' = asleep, wakee' = wakee, Pend(a)' = Len(wakee[a]) - 1,
           \A b \in Actor : b # a => Pend(b)' = Pend(b)
    PROVE  Once' /\ \A v \in Worker : InLine(v)' => InLine(v) /\ v # Wakee(a)
<1>1. \A b \in Actor : Pend(b) \in Int
  BY PendType
<1>2. /\ Pend(a) = Len(wakee[a]) /\ Len(wakee[a]) \in 1..Pend(a) /\ Wakee(a) = wakee[a][Len(wakee[a])]
      /\ Len(wakee[a]) \in Nat
  BY WakeeInLine, ToWake
<1>3. \A b \in Actor : \A i \in 1..Pend(b)' : i \in 1..Pend(b) /\ (b = a => i # Len(wakee[a]))
  BY <1>1, <1>2
<1>4. Once
  BY DEF Line
<1>5. Once'
  BY <1>3, <1>4 DEF Once
<1>6. \A b \in Actor : \A i \in 1..Pend(b)' : wakee[b][i] # Wakee(a)
  BY <1>2, <1>3, <1>4 DEF Once
<1>7. \A i \in 1..Len(asleep) : asleep[i] # Wakee(a)
  BY <1>2, <1>4 DEF Once
<1> QED BY <1>3, <1>5, <1>6, <1>7 DEF InLine
\* A worker that is popped stays in line.
LEMMA HeadMoves ==
    ASSUME Types, Line, NEW a \in Actor, asleep # <<>>, Pop(a), pc[a] = "wake_loop",
           pc' = [pc EXCEPT ![a] = "wake_loop"]
    PROVE  Once' /\ \A v \in Worker : InLine(v)' => InLine(v)
<1> DEFINE n == Len(wakee[a])
           l == Len(asleep)
<1>1. /\ n \in Nat /\ l \in Nat /\ l > 0
  BY Empty DEF Types, DemandTypes, ServerTypes
<1>2. /\ Len(asleep') = l - 1 /\ \A i \in 1..l - 1 : asleep'[i] = asleep[i + 1]
      /\ \A b \in Actor : b # a => wakee'[b] = wakee[b]
      /\ Len(wakee'[a]) = n + 1 /\ wakee'[a][n + 1] = asleep[1]
  BY Popping DEF Types, DemandTypes
<1>3. \A i \in 1..n : wakee'[a][i] = wakee[a][i]
  BY Popping, Added DEF Types, DemandTypes
<1>4. Pend(a) = n /\ Pend(a)' = n + 1 /\ \A b \in Actor : b # a => Pend(b)' = Pend(b)
  BY <1>2 DEF Types, PlaceTypes, Pend
<1>5. Once
  BY DEF Line
<1> HIDE DEF n, l
<1>6. \A i \in 1..Len(asleep') : i + 1 \in 1..l /\ i + 1 # 1 /\ asleep'[i] = asleep[i + 1]
  BY <1>1, <1>2
<1>7. 1 \in 1..l /\ l = Len(asleep)
  BY <1>1 DEF l
<1>8. \A i \in 1..Pend(a)' : \/ i \in 1..Pend(a) /\ wakee'[a][i] = wakee[a][i]
                             \/ i = n + 1 /\ wakee'[a][i] = asleep[1]
  BY <1>1, <1>2, <1>3, <1>4
<1>9. \A i, j \in 1..Len(asleep') : asleep'[i] = asleep'[j] => i = j
  <2> TAKE i, j \in 1..Len(asleep')
  <2>1. i \in Int /\ j \in Int
    BY <1>1, <1>2
  <2>2. asleep'[i] = asleep'[j] => i + 1 = j + 1
    BY <1>5, <1>6, <1>7 DEF Once
  <2> QED BY <2>1, <2>2
<1>10. \A b \in Actor : \A i \in 1..Pend(b)', j \in 1..Len(asleep') : wakee'[b][i] # asleep'[j]
  <2> TAKE b \in Actor
  <2> TAKE i \in 1..Pend(b)', j \in 1..Len(asleep')
  <2>1. asleep'[j] = asleep[j + 1] /\ j + 1 \in 1..l /\ j + 1 # 1
    BY <1>6
  <2>2. CASE b # a
    BY <1>2, <1>4, <1>5, <1>7, <2>1, <2>2 DEF Once
  <2>3. CASE b = a
    BY <1>5, <1>7, <1>8, <2>1, <2>3 DEF Once
  <2> QED BY <2>2, <2>3
<1>11. \A b, d \in Actor : \A i \in 1..Pend(b)', j \in 1..Pend(d)' :
          wakee'[b][i] = wakee'[d][j] => b = d /\ i = j
  <2> TAKE b, d \in Actor
  <2> TAKE i \in 1..Pend(b)', j \in 1..Pend(d)'
  <2>1. CASE b # a /\ d # a
    BY <1>2, <1>4, <1>5, <2>1 DEF Once
  <2>2. CASE b = a /\ d # a
    BY <1>2, <1>4, <1>5, <1>7, <1>8, <2>2 DEF Once
  <2>3. CASE b # a /\ d = a
    BY <1>2, <1>4, <1>5, <1>7, <1>8, <2>3 DEF Once
  <2>4. CASE b = a /\ d = a
    BY <1>5, <1>7, <1>8, <2>4 DEF Once
  <2> QED BY <2>1, <2>2, <2>3, <2>4
<1>12. \A v \in Worker : InLine(v)' => InLine(v)
  <2> TAKE v \in Worker
  <2>1. CASE \E i \in 1..Len(asleep') : asleep'[i] = v
    BY <1>6, <1>7, <2>1 DEF InLine
  <2>2. CASE \E i \in 1..Pend(a)' : wakee'[a][i] = v
    BY <1>7, <1>8, <2>2 DEF InLine
  <2>3. CASE \E b \in Actor : b # a /\ \E i \in 1..Pend(b)' : wakee'[b][i] = v
    BY <1>2, <1>4, <2>3 DEF InLine
  <2> QED BY <2>1, <2>2, <2>3 DEF InLine
<1> QED BY <1>9, <1>10, <1>11, <1>12 DEF Once
\* A worker that is not in line joins it at the front of the list.
LEMMA Joins ==
    ASSUME Types, Line, NEW w \in Worker, ~InLine(w), asleep' = <<w>> \o asleep, wakee' = wakee,
           \A b \in Actor : Pend(b)' = Pend(b)
    PROVE  Once' /\ \A v \in Worker : InLine(v)' => v = w \/ InLine(v)
<1> DEFINE l == Len(asleep)
<1>1. l \in Nat
  BY DEF Types, ServerTypes
<1>2. /\ Len(asleep') = l + 1 /\ asleep'[1] = w /\ \A i \in 2..l + 1 : asleep'[i] = asleep[i - 1]
  BY Longer DEF Types, ServerTypes
<1>3. Once /\ \A b \in Actor : \A i \in 1..Pend(b) : wakee[b][i] # w
  BY DEF Line, InLine
<1>4. \A i \in 1..l : asleep[i] # w
  BY DEF InLine
<1> HIDE DEF l
<1>5. \A i \in 1..Len(asleep') : \/ i = 1 /\ asleep'[i] = w
                                 \/ i - 1 \in 1..l /\ i # 1 /\ asleep'[i] = asleep[i - 1]
  BY <1>1, <1>2
<1>6. l = Len(asleep)
  BY DEF l
<1>7. \A i, j \in 1..Len(asleep') : asleep'[i] = asleep'[j] => i = j
  <2> TAKE i, j \in 1..Len(asleep')
  <2>1. i \in Int /\ j \in Int
    BY <1>1, <1>2
  <2>2. asleep'[i] = asleep'[j] => i = j \/ i - 1 = j - 1
    BY <1>3, <1>4, <1>5, <1>6 DEF Once
  <2> QED BY <2>1, <2>2
<1>8. \A b \in Actor : \A i \in 1..Pend(b), j \in 1..Len(asleep') : wakee[b][i] # asleep'[j]
  BY <1>3, <1>5, <1>6 DEF Once
<1>9. Once'
  BY <1>3, <1>7, <1>8 DEF Once
<1>10. \A v \in Worker : InLine(v)' => v = w \/ InLine(v)
  BY <1>5, <1>6 DEF InLine
<1> QED BY <1>9, <1>10

\* Who stands in line sleeps, and nobody stands in it twice.
LEMMA LineStep ==
    ASSUME Assumptions, Types, Popped, Handles, Returns, Telling, Monitors, Fresh, Line, Next
    PROVE  Line'
<1> USE DEF Set, Goto, Jump, server, monitor, waking, demand, hist
<1>1. ASSUME NEW c \in Client, NEW delta \in 1..MaxDelta, Request(c, delta) PROVE Line'
  <2>1. /\ pc[c] = "idle"
        /\ ~Closing /\ asked[c] = 0 /\ SumFunction(asked) + delta <= Cardinality(Worker)
        /\ pc' = [pc EXCEPT ![c] = "wake_lock"]
        /\ wakee' = wakee /\ asleep' = asleep /\ my_state' = my_state /\ notified' = notified
    BY <1>1 DEF Request, WakeSome
  <2>2. \A b \in Actor : /\ Pend(b)' = Pend(b)
                          /\ \A i \in 1..Pend(b) : wakee'[b][i] = wakee[b][i]
    BY <2>1, Threads, Types, Popped DEF Pend, Popped, Types, PlaceTypes, DemandTypes,
       Actor, WakingPC, ClosingPC
  <2>3. \A v \in Worker : Parked(v) => Parked(v)'
    BY <2>1, Threads, Types DEF Parked, Types, PlaceTypes, DemandTypes, StateTypes,
       MonitorTypes, Actor
  <2> QED BY <2>1, <2>2, <2>3, LineKept
<1>2. ASSUME NEW c \in Client, Return(c) PROVE Line'
  <2>1. /\ pc[c] = "idle" /\ asked[c] > 0 /\ pc' = [pc EXCEPT ![c] = "idle"]
        /\ wakee' = wakee /\ asleep' = asleep /\ my_state' = my_state /\ notified' = notified
    BY <1>2 DEF Return
  <2>2. \A b \in Actor : /\ Pend(b)' = Pend(b)
                          /\ \A i \in 1..Pend(b) : wakee'[b][i] = wakee[b][i]
    BY <2>1, Threads, Types, Popped DEF Pend, Popped, Types, PlaceTypes, DemandTypes,
       Actor, WakingPC, ClosingPC
  <2>3. \A v \in Worker : Parked(v) => Parked(v)'
    BY <2>1, Threads, Types DEF Parked, Types, PlaceTypes, DemandTypes, StateTypes,
       MonitorTypes, Actor
  <2> QED BY <2>1, <2>2, <2>3, LineKept
<1>3. ASSUME NEW c \in Client, Close(c) PROVE Line'
  <2>1. /\ pc[c] = "idle"
        /\ \A d \in Client : pc[d] = "idle" /\ asked[d] = 0
        /\ pc' = [pc EXCEPT ![c] = "shutdown"]
        /\ wakee' = wakee /\ asleep' = asleep /\ my_state' = my_state /\ notified' = notified
    BY <1>3 DEF Close
  <2>2. \A b \in Actor : /\ Pend(b)' = Pend(b)
                          /\ \A i \in 1..Pend(b) : wakee'[b][i] = wakee[b][i]
    BY <2>1, Threads, Types, Popped DEF Pend, Popped, Types, PlaceTypes, DemandTypes,
       Actor, WakingPC, ClosingPC
  <2>3. \A v \in Worker : Parked(v) => Parked(v)'
    BY <2>1, Threads, Types DEF Parked, Types, PlaceTypes, DemandTypes, StateTypes,
       MonitorTypes, Actor
  <2> QED BY <2>1, <2>2, <2>3, LineKept
<1>4. ASSUME NEW c \in Client, NEW w \in Worker, StartShutdown(c, w) PROVE Line'
  <2>1. CASE my_state[w] = "init"
    <3>1. /\ pc[c] = "shutdown" /\ my_state[w] # "quit"
          /\ pc' = [pc EXCEPT ![c] = "shutdown"]
          /\ wakee' = [wakee EXCEPT ![c] = <<w>>]
          /\ my_state' = [my_state EXCEPT ![w] = "quit"]
          /\ asleep' = asleep /\ notified' = notified
      BY <1>4, <2>1 DEF StartShutdown, RemoveServerRef
    <3>2. \A b \in Actor : /\ Pend(b)' = Pend(b)
                            /\ \A i \in 1..Pend(b) : wakee'[b][i] = wakee[b][i]
      BY <3>1, Threads, Types, Popped DEF Pend, Popped, Types, PlaceTypes, DemandTypes,
         Actor, WakingPC, ClosingPC
    <3>3. \A v \in Worker : Parked(v) => Parked(v)'
      BY <3>1, Threads, Types DEF Parked, Types, PlaceTypes, DemandTypes, StateTypes,
         MonitorTypes, Actor
    <3> QED BY <3>1, <3>2, <3>3, LineKept
  <2>2. CASE ~(my_state[w] = "init")
    <3>1. /\ pc[c] = "shutdown" /\ my_state[w] # "quit"
          /\ pc' = [pc EXCEPT ![c] = "notify"] /\ wakee' = [wakee EXCEPT ![c] = <<w>>]
          /\ my_state' = [my_state EXCEPT ![w] = "quit"]
          /\ asleep' = asleep /\ notified' = notified
      BY <1>4, <2>2 DEF StartShutdown, RemoveServerRef
    <3>2. \A b \in Actor : /\ Pend(b)' = Pend(b)
                            /\ \A i \in 1..Pend(b) : wakee'[b][i] = wakee[b][i]
      BY <3>1, Threads, Types, Popped DEF Pend, Popped, Types, PlaceTypes, DemandTypes,
         Actor, WakingPC, ClosingPC
    <3>3. \A v \in Worker : Parked(v) => Parked(v)'
      BY <3>1, Threads, Types DEF Parked, Types, PlaceTypes, DemandTypes, StateTypes,
         MonitorTypes, Actor
    <3> QED BY <3>1, <3>2, <3>3, LineKept
  <2> QED BY <2>1, <2>2
<1>5. ASSUME NEW c \in Client, NotifyQuit(c) PROVE Line'
  <2>1. /\ pc[c] = "notify" /\ pc' = [pc EXCEPT ![c] = "signal_quit"]
        /\ notified' = [notified EXCEPT ![wakee[c][1]] = TRUE]
        /\ wakee' = wakee /\ asleep' = asleep /\ my_state' = my_state
    BY <1>5, QuitNotified
  <2>2. my_state[wakee[c][1]] = "quit"
    BY <2>1, Telling DEF Telling
  <2>3. \A b \in Actor : /\ Pend(b)' = Pend(b)
                          /\ \A i \in 1..Pend(b) : wakee'[b][i] = wakee[b][i]
    BY <2>1, <2>2, Threads, Types, Popped DEF Pend, Popped, Types, PlaceTypes,
       DemandTypes, Actor, WakingPC, ClosingPC
  <2>4. \A v \in Worker : Parked(v) => Parked(v)'
    BY <2>1, <2>2, Threads, Types DEF Parked, Types, PlaceTypes, DemandTypes,
       StateTypes, MonitorTypes, Actor
  <2> QED BY <2>1, <2>3, <2>4, LineKept
<1>6. ASSUME NEW c \in Client, SignalQuit(c) PROVE Line'
  <2>1. CASE back[c] = "normal"
    <3>1. /\ pc[c] = "signal_quit" /\ pc' = [pc EXCEPT ![c] = "release_handle"]
          /\ wakee' = wakee /\ asleep' = asleep /\ my_state' = my_state /\ notified' = notified
      BY <1>6, <2>1 DEF SignalQuit
    <3>2. \A b \in Actor : /\ Pend(b)' = Pend(b)
                            /\ \A i \in 1..Pend(b) : wakee'[b][i] = wakee[b][i]
      BY <3>1, Threads, Types, Popped DEF Pend, Popped, Types, PlaceTypes, DemandTypes,
         Actor, WakingPC, ClosingPC
    <3>3. \A v \in Worker : Parked(v) => Parked(v)'
      BY <3>1, Threads, Types DEF Parked, Types, PlaceTypes, DemandTypes, StateTypes,
         MonitorTypes, Actor
    <3> QED BY <3>1, <3>2, <3>3, LineKept
  <2>2. CASE ~(back[c] = "normal")
    <3>1. /\ pc[c] = "signal_quit" /\ pc' = [pc EXCEPT ![c] = "shutdown"]
          /\ wakee' = wakee /\ asleep' = asleep /\ my_state' = my_state /\ notified' = notified
      BY <1>6, <2>2 DEF SignalQuit
    <3>2. \A b \in Actor : /\ Pend(b)' = Pend(b)
                            /\ \A i \in 1..Pend(b) : wakee'[b][i] = wakee[b][i]
      BY <3>1, Threads, Types, Popped DEF Pend, Popped, Types, PlaceTypes, DemandTypes,
         Actor, WakingPC, ClosingPC
    <3>3. \A v \in Worker : Parked(v) => Parked(v)'
      BY <3>1, Threads, Types DEF Parked, Types, PlaceTypes, DemandTypes, StateTypes,
         MonitorTypes, Actor
    <3> QED BY <3>1, <3>2, <3>3, LineKept
  <2> QED BY <2>1, <2>2
<1>7. ASSUME NEW c \in Client, ReleaseHandle(c) PROVE Line'
  <2>1. /\ pc[c] = "release_handle" /\ pc' = [pc EXCEPT ![c] = "shutdown"]
        /\ wakee' = wakee /\ asleep' = asleep /\ my_state' = my_state /\ notified' = notified
    BY <1>7 DEF ReleaseHandle
  <2>2. \A b \in Actor : /\ Pend(b)' = Pend(b)
                          /\ \A i \in 1..Pend(b) : wakee'[b][i] = wakee[b][i]
    BY <2>1, Threads, Types, Popped DEF Pend, Popped, Types, PlaceTypes, DemandTypes,
       Actor, WakingPC, ClosingPC
  <2>3. \A v \in Worker : Parked(v) => Parked(v)'
    BY <2>1, Threads, Types DEF Parked, Types, PlaceTypes, DemandTypes, StateTypes,
       MonitorTypes, Actor
  <2> QED BY <2>1, <2>2, <2>3, LineKept
<1>8. ASSUME NEW c \in Client, Closed(c) PROVE Line'
  <2>1. /\ pc[c] = "shutdown"
        /\ \A w \in Worker : my_state[w] = "quit"
        /\ pc' = [pc EXCEPT ![c] = "closed"]
        /\ wakee' = wakee /\ asleep' = asleep /\ my_state' = my_state /\ notified' = notified
    BY <1>8 DEF Closed, RemoveServerRef
  <2>2. \A b \in Actor : /\ Pend(b)' = Pend(b)
                          /\ \A i \in 1..Pend(b) : wakee'[b][i] = wakee[b][i]
    BY <2>1, Threads, Types, Popped DEF Pend, Popped, Types, PlaceTypes, DemandTypes,
       Actor, WakingPC, ClosingPC
  <2>3. \A v \in Worker : Parked(v) => Parked(v)'
    BY <2>1, Threads, Types DEF Parked, Types, PlaceTypes, DemandTypes, StateTypes,
       MonitorTypes, Actor
  <2> QED BY <2>1, <2>2, <2>3, LineKept
<1>9. ASSUME NEW a \in Actor, WakeLock(a) PROVE Line'
  <2>1. /\ pc[a] = "wake_lock" /\ mutex = NULL /\ pc' = [pc EXCEPT ![a] = "wake_loop"]
        /\ wakee' = wakee /\ asleep' = asleep /\ my_state' = my_state /\ notified' = notified
    BY <1>9 DEF WakeLock
  <2>2. wakee[a] = <<>>
    BY <2>1, Popped DEF Popped, ClosingPC, WakingPC
  <2>3. Len(wakee[a]) = 0
    BY <2>2
  <2>4. \A b \in Actor : /\ Pend(b)' = Pend(b)
                          /\ \A i \in 1..Pend(b) : wakee'[b][i] = wakee[b][i]
    BY <2>1, <2>2, <2>3, Threads, Types, Popped DEF Pend, Popped, Types, PlaceTypes,
       DemandTypes, Actor, WakingPC, ClosingPC
  <2>5. \A v \in Worker : Parked(v) => Parked(v)'
    BY <2>1, <2>2, <2>3, Threads, Types DEF Parked, Types, PlaceTypes, DemandTypes,
       StateTypes, MonitorTypes, Actor
  <2> QED BY <2>1, <2>4, <2>5, LineKept
<1>10. ASSUME NEW a \in Actor, PopForDemand(a) PROVE Line'
  <2>1. /\ pc[a] = "wake_loop"
        /\ additional[a] > 0 /\ additional[a] + my_slack > 0 /\ asleep # <<>>
        /\ pc' = [pc EXCEPT ![a] = "wake_loop"]
        /\ wakee' = [wakee EXCEPT ![a] = Append(wakee[a], Head(asleep))]
        /\ asleep' = Tail(asleep) /\ my_state' = my_state /\ notified' = notified
    BY <1>10 DEF PopForDemand, CanPop, Pop
  <2>2. Once' /\ \A v \in Worker : InLine(v)' => InLine(v)
    BY <1>10, <2>1, HeadMoves DEF PopForDemand
  <2>3. \A v \in Worker : Parked(v) => Parked(v)'
    BY <2>1, Threads, Types DEF Parked, Types, PlaceTypes
  <2> QED BY <2>2, <2>3 DEF Line
<1>11. ASSUME NEW a \in Actor, PopForSlack(a) PROVE Line'
  <2>1. /\ pc[a] = "wake_loop" /\ additional[a] = 0 /\ my_slack > 0 /\ asleep # <<>>
        /\ pc' = [pc EXCEPT ![a] = "wake_loop"]
        /\ wakee' = [wakee EXCEPT ![a] = Append(wakee[a], Head(asleep))]
        /\ asleep' = Tail(asleep) /\ my_state' = my_state /\ notified' = notified
    BY <1>11 DEF PopForSlack, CanPop, Pop
  <2>2. Once' /\ \A v \in Worker : InLine(v)' => InLine(v)
    BY <1>11, <2>1, HeadMoves DEF PopForSlack
  <2>3. \A v \in Worker : Parked(v) => Parked(v)'
    BY <2>1, Threads, Types DEF Parked, Types, PlaceTypes
  <2> QED BY <2>2, <2>3 DEF Line
<1>12. ASSUME NEW a \in Actor, WakeUnlock(a) PROVE Line'
  <2>1. /\ pc[a] = "wake_loop" /\ pc' = [pc EXCEPT ![a] = "wake_each"]
        /\ wakee' = wakee /\ asleep' = asleep /\ my_state' = my_state /\ notified' = notified
    BY <1>12 DEF WakeUnlock, CanPop
  <2>2. \A b \in Actor : /\ Pend(b)' = Pend(b)
                          /\ \A i \in 1..Pend(b) : wakee'[b][i] = wakee[b][i]
    BY <2>1, Threads, Types, Popped DEF Pend, Popped, Types, PlaceTypes, DemandTypes,
       Actor, WakingPC, ClosingPC
  <2>3. \A v \in Worker : Parked(v) => Parked(v)'
    BY <2>1, Threads, Types DEF Parked, Types, PlaceTypes, DemandTypes, StateTypes,
       MonitorTypes, Actor
  <2> QED BY <2>1, <2>2, <2>3, LineKept
<1>13. ASSUME NEW a \in Actor, WakeEach(a) PROVE Line'
  <2>1. CASE my_state[Wakee(a)] = "init"
    <3>1. /\ pc[a] = "wake_each" /\ wakee[a] # <<>>
          /\ pc' = [pc EXCEPT ![a] = "launch"]
          /\ my_state' = [my_state EXCEPT ![Wakee(a)] = "starting"]
          /\ wakee' = wakee /\ asleep' = asleep /\ notified' = notified
      BY <1>13, <2>1 DEF WakeEach
    <3>2. Wakee(a) \in Worker
      BY <3>1, Types, ToWake
    <3>3. \A b \in Actor : /\ Pend(b)' = Pend(b)
                            /\ \A i \in 1..Pend(b) : wakee'[b][i] = wakee[b][i]
      BY <3>1, <2>1, <3>2, Threads, Types, Popped DEF Pend, Popped, Types, PlaceTypes,
         DemandTypes, Actor, WakingPC, ClosingPC
    <3>4. \A v \in Worker : Parked(v) => Parked(v)'
      BY <3>1, <2>1, <3>2, Threads, Types DEF Parked, Types, PlaceTypes, DemandTypes,
         StateTypes, MonitorTypes, Actor
    <3> QED BY <3>1, <3>3, <3>4, LineKept
  <2>2. CASE ~(my_state[Wakee(a)] = "init")
    <3>1. /\ pc[a] = "wake_each" /\ wakee[a] # <<>>
          /\ pc' = [pc EXCEPT ![a] = "signal"]
          /\ notified' = [notified EXCEPT ![Wakee(a)] = TRUE]
          /\ wakee' = wakee /\ asleep' = asleep /\ my_state' = my_state
      BY <1>13, <2>2, SleeperNotified
    <3>2. Wakee(a) \in Worker
      BY <3>1, ToWake
    <3>3. Pend(a)' = Len(wakee[a]) - 1 /\ \A b \in Actor : b # a => Pend(b)' = Pend(b)
      BY <3>1, Types DEF Pend, Types, PlaceTypes
    <3>4. Once' /\ \A v \in Worker : InLine(v)' => InLine(v) /\ v # Wakee(a)
      BY <3>1, <3>3, LastLeaves
    <3>5. \A v \in Worker : v # Wakee(a) /\ Parked(v) => Parked(v)'
      BY <3>1, <3>2, Threads, Types DEF Parked, Types, PlaceTypes, MonitorTypes
    <3> QED BY <3>4, <3>5 DEF Line
  <2> QED BY <2>1, <2>2
<1>14. ASSUME NEW a \in Actor, SignalWakee(a) PROVE Line'
  <2>1. /\ pc[a] = "signal" /\ pc' = [pc EXCEPT ![a] = "wake_each"]
        /\ wakee' = [wakee EXCEPT ![a] = Front(wakee[a])]
        /\ asleep' = asleep /\ my_state' = my_state /\ notified' = notified
    BY <1>14 DEF SignalWakee, Waked
  <2>2. wakee[a] \in Seq(Worker) /\ wakee[a] # <<>> /\ wakee'[a] = Front(wakee[a])
    BY <2>1, Popped, Types DEF Popped, Types, DemandTypes
  <2>3. /\ Wakee(a) \in Worker /\ Len(wakee[a]) \in Nat /\ Len(wakee'[a]) = Len(wakee[a]) - 1
        /\ \A i \in 1..Len(wakee[a]) - 1 : wakee'[a][i] = wakee[a][i]
    BY <2>2, Types, ToWake, Fronts
  <2>4. \A b \in Actor : /\ Pend(b)' = Pend(b)
                          /\ \A i \in 1..Pend(b) : wakee'[b][i] = wakee[b][i]
    BY <2>1, <2>2, <2>3, Threads, Types, Popped DEF Pend, Popped, Types, PlaceTypes,
       DemandTypes, Actor, WakingPC, ClosingPC
  <2>5. \A v \in Worker : Parked(v) => Parked(v)'
    BY <2>1, <2>2, <2>3, Threads, Types DEF Parked, Types, PlaceTypes, DemandTypes,
       StateTypes, MonitorTypes, Actor
  <2> QED BY <2>1, <2>4, <2>5, LineKept
<1>15. ASSUME NEW a \in Actor, Launch(a) PROVE Line'
  <2>1. /\ pc[a] = "launch" /\ pc' = [pc EXCEPT ![a] = "launched", ![Wakee(a)] = "run"]
        /\ wakee' = wakee /\ asleep' = asleep /\ my_state' = my_state /\ notified' = notified
    BY <1>15 DEF Launch
  <2>2. Wakee(a) \in Worker /\ pc[Wakee(a)] = "none" /\ Wakee(a) # a
    BY <1>15, NotYet
  <2>3. wakee[a] # <<>>
    BY <2>1, Popped DEF Popped
  <2>4. Pend(a)' = Len(wakee[a]) - 1 /\ \A b \in Actor : b # a => Pend(b)' = Pend(b)
    BY <2>1, <2>2, Threads, Types DEF Pend, Types, PlaceTypes
  <2>5. Once' /\ \A v \in Worker : InLine(v)' => InLine(v) /\ v # Wakee(a)
    BY <2>1, <2>3, <2>4, LastLeaves
  <2>6. \A v \in Worker : v # Wakee(a) /\ Parked(v) => Parked(v)'
    BY <2>1, <2>2, Threads, Types DEF Parked, Types, PlaceTypes
  <2> QED BY <2>5, <2>6 DEF Line
<1>16. ASSUME NEW a \in Actor, Launched(a) PROVE Line'
  <2>1. CASE my_state[Wakee(a)] = "starting"
    <3>1. /\ pc[a] = "launched" /\ pc' = [pc EXCEPT ![a] = "wake_each"]
          /\ wakee' = [wakee EXCEPT ![a] = Front(wakee[a])]
          /\ my_state' = [my_state EXCEPT ![Wakee(a)] = "normal"]
          /\ asleep' = asleep /\ notified' = notified
      BY <1>16, <2>1 DEF Launched, Waked
    <3>2. wakee[a] \in Seq(Worker) /\ wakee[a] # <<>> /\ wakee'[a] = Front(wakee[a])
      BY <3>1, Popped, Types DEF Popped, Types, DemandTypes
    <3>3. /\ Wakee(a) \in Worker /\ Len(wakee[a]) \in Nat /\ Len(wakee'[a]) = Len(wakee[a]) - 1
          /\ \A i \in 1..Len(wakee[a]) - 1 : wakee'[a][i] = wakee[a][i]
      BY <3>2, Types, ToWake, Fronts
    <3>4. \A b \in Actor : /\ Pend(b)' = Pend(b)
                            /\ \A i \in 1..Pend(b) : wakee'[b][i] = wakee[b][i]
      BY <3>1, <2>1, <3>2, <3>3, Threads, Types, Popped DEF Pend, Popped, Types,
         PlaceTypes, DemandTypes, Actor, WakingPC, ClosingPC
    <3>5. \A v \in Worker : Parked(v) => Parked(v)'
      BY <3>1, <2>1, <3>2, <3>3, Threads, Types DEF Parked, Types, PlaceTypes,
         DemandTypes, StateTypes, MonitorTypes, Actor
    <3> QED BY <3>1, <3>4, <3>5, LineKept
  <2>2. CASE ~(my_state[Wakee(a)] = "starting")
    <3>1. /\ pc[a] = "launched" /\ pc' = [pc EXCEPT ![a] = "wake_each"]
          /\ wakee' = [wakee EXCEPT ![a] = Front(wakee[a])]
          /\ asleep' = asleep /\ my_state' = my_state /\ notified' = notified
      BY <1>16, <2>2 DEF Launched, Waked
    <3>2. wakee[a] \in Seq(Worker) /\ wakee[a] # <<>> /\ wakee'[a] = Front(wakee[a])
      BY <3>1, Popped, Types DEF Popped, Types, DemandTypes
    <3>3. /\ Wakee(a) \in Worker /\ Len(wakee[a]) \in Nat /\ Len(wakee'[a]) = Len(wakee[a]) - 1
          /\ \A i \in 1..Len(wakee[a]) - 1 : wakee'[a][i] = wakee[a][i]
      BY <3>2, Types, ToWake, Fronts
    <3>4. \A b \in Actor : /\ Pend(b)' = Pend(b)
                            /\ \A i \in 1..Pend(b) : wakee'[b][i] = wakee[b][i]
      BY <3>1, <2>2, <3>2, <3>3, Threads, Types, Popped DEF Pend, Popped, Types,
         PlaceTypes, DemandTypes, Actor, WakingPC, ClosingPC
    <3>5. \A v \in Worker : Parked(v) => Parked(v)'
      BY <3>1, <2>2, <3>2, <3>3, Threads, Types DEF Parked, Types, PlaceTypes,
         DemandTypes, StateTypes, MonitorTypes, Actor
    <3> QED BY <3>1, <3>4, <3>5, LineKept
  <2> QED BY <2>1, <2>2
<1>17. ASSUME NEW a \in Actor, WakeDone(a) PROVE Line'
  <2>1. /\ pc[a] = "wake_each" /\ wakee[a] = <<>> /\ pc' = [pc EXCEPT ![a] = back[a]]
        /\ wakee' = wakee /\ asleep' = asleep /\ my_state' = my_state /\ notified' = notified
    BY <1>17 DEF WakeDone
  <2>2. \A b \in Actor : /\ Pend(b)' = Pend(b)
                          /\ \A i \in 1..Pend(b) : wakee'[b][i] = wakee[b][i]
    BY <2>1, Threads, Types, Popped, Returns DEF Pend, Popped, Types, PlaceTypes,
       DemandTypes, Actor, Returns, WakingPC, ClosingPC
  <2>3. \A v \in Worker : Parked(v) => Parked(v)'
    BY <2>1, Threads, Types, Returns DEF Parked, Types, PlaceTypes, DemandTypes,
       StateTypes, MonitorTypes, Actor, Returns, WakingPC
  <2> QED BY <2>1, <2>2, <2>3, LineKept
<1>18. ASSUME NEW w \in Worker, Start(w) PROVE Line'
  <2>1. CASE asleep = <<>>
    <3>1. /\ pc[w] = "run" /\ pc' = [pc EXCEPT ![w] = "loop"]
          /\ wakee' = wakee /\ asleep' = asleep /\ my_state' = my_state /\ notified' = notified
      BY <1>18, <2>1 DEF Start, ChainReaction, WakeSome
    <3>2. \A b \in Actor : /\ Pend(b)' = Pend(b)
                            /\ \A i \in 1..Pend(b) : wakee'[b][i] = wakee[b][i]
      BY <3>1, Threads, Types, Popped DEF Pend, Popped, Types, PlaceTypes, DemandTypes,
         Actor, WakingPC, ClosingPC
    <3>3. \A v \in Worker : Parked(v) => Parked(v)'
      BY <3>1, Threads, Types DEF Parked, Types, PlaceTypes, DemandTypes, StateTypes,
         MonitorTypes, Actor
    <3> QED BY <3>1, <3>2, <3>3, LineKept
  <2>2. CASE ~(asleep = <<>>)
    <3>1. /\ pc[w] = "run" /\ pc' = [pc EXCEPT ![w] = "wake_lock"]
          /\ wakee' = wakee /\ asleep' = asleep /\ my_state' = my_state /\ notified' = notified
      BY <1>18, <2>2 DEF Start, ChainReaction, WakeSome
    <3>2. \A b \in Actor : /\ Pend(b)' = Pend(b)
                            /\ \A i \in 1..Pend(b) : wakee'[b][i] = wakee[b][i]
      BY <3>1, Threads, Types, Popped DEF Pend, Popped, Types, PlaceTypes, DemandTypes,
         Actor, WakingPC, ClosingPC
    <3>3. \A v \in Worker : Parked(v) => Parked(v)'
      BY <3>1, Threads, Types DEF Parked, Types, PlaceTypes, DemandTypes, StateTypes,
         MonitorTypes, Actor
    <3> QED BY <3>1, <3>2, <3>3, LineKept
  <2> QED BY <2>1, <2>2
<1>19. ASSUME NEW w \in Worker, Idle(w) PROVE Line'
  <2>1. /\ pc[w] = "loop" /\ my_slack < 0 /\ my_state[w] # "quit"
        /\ pc' = [pc EXCEPT ![w] = "prepare"]
        /\ wakee' = wakee /\ asleep' = asleep /\ my_state' = my_state /\ notified' = notified
    BY <1>19 DEF Idle
  <2>2. \A b \in Actor : /\ Pend(b)' = Pend(b)
                          /\ \A i \in 1..Pend(b) : wakee'[b][i] = wakee[b][i]
    BY <2>1, Threads, Types, Popped DEF Pend, Popped, Types, PlaceTypes, DemandTypes,
       Actor, WakingPC, ClosingPC
  <2>3. \A v \in Worker : Parked(v) => Parked(v)'
    BY <2>1, Threads, Types DEF Parked, Types, PlaceTypes, DemandTypes, StateTypes,
       MonitorTypes, Actor
  <2> QED BY <2>1, <2>2, <2>3, LineKept
<1>20. ASSUME NEW w \in Worker, PrepareWait(w) PROVE Line'
  <2>1. /\ pc[w] = "prepare"
        /\ spurious[w] => sema[w] = 1
        /\ pc' = [pc EXCEPT ![w] = "check"]
        /\ notified' = [notified EXCEPT ![w] = FALSE]
        /\ wakee' = wakee /\ asleep' = asleep /\ my_state' = my_state
    BY <1>20 DEF PrepareWait
  <2>2. \A b \in Actor : /\ Pend(b)' = Pend(b)
                          /\ \A i \in 1..Pend(b) : wakee'[b][i] = wakee[b][i]
    BY <2>1, Threads, Types, Popped DEF Pend, Popped, Types, PlaceTypes, DemandTypes,
       Actor, WakingPC, ClosingPC
  <2>3. \A v \in Worker : Parked(v) => Parked(v)'
    BY <2>1, Threads, Types DEF Parked, Types, PlaceTypes, DemandTypes, StateTypes,
       MonitorTypes, Actor
  <2> QED BY <2>1, <2>2, <2>3, LineKept
<1>21. ASSUME NEW w \in Worker, Check(w) PROVE Line'
  <2>1. /\ pc[w] = "check"
        /\ pc' = [pc EXCEPT ![w] = IF my_state[w] = "quit" THEN "cancel" ELSE "try_insert"]
        /\ wakee' = wakee /\ asleep' = asleep /\ my_state' = my_state /\ notified' = notified
    BY <1>21 DEF Check
  <2>2. \A b \in Actor : /\ Pend(b)' = Pend(b)
                          /\ \A i \in 1..Pend(b) : wakee'[b][i] = wakee[b][i]
    BY <2>1, Threads, Types, Popped DEF Pend, Popped, Types, PlaceTypes, DemandTypes,
       Actor, WakingPC, ClosingPC
  <2>3. \A v \in Worker : Parked(v) => Parked(v)'
    BY <2>1, Threads, Types DEF Parked, Types, PlaceTypes, DemandTypes, StateTypes,
       MonitorTypes, Actor
  <2> QED BY <2>1, <2>2, <2>3, LineKept
<1>22. ASSUME NEW w \in Worker, TryInsert(w) PROVE Line'
  <2>1. CASE mutex = NULL
    <3>1. /\ pc[w] = "try_insert" /\ pc' = [pc EXCEPT ![w] = "insert"]
          /\ wakee' = wakee /\ asleep' = asleep /\ my_state' = my_state /\ notified' = notified
      BY <1>22, <2>1 DEF TryInsert
    <3>2. \A b \in Actor : /\ Pend(b)' = Pend(b)
                            /\ \A i \in 1..Pend(b) : wakee'[b][i] = wakee[b][i]
      BY <3>1, Threads, Types, Popped DEF Pend, Popped, Types, PlaceTypes, DemandTypes,
         Actor, WakingPC, ClosingPC
    <3>3. \A v \in Worker : Parked(v) => Parked(v)'
      BY <3>1, Threads, Types DEF Parked, Types, PlaceTypes, DemandTypes, StateTypes,
         MonitorTypes, Actor
    <3> QED BY <3>1, <3>2, <3>3, LineKept
  <2>2. CASE ~(mutex = NULL)
    <3>1. /\ pc[w] = "try_insert" /\ pc' = [pc EXCEPT ![w] = "cancel"]
          /\ wakee' = wakee /\ asleep' = asleep /\ my_state' = my_state /\ notified' = notified
      BY <1>22, <2>2 DEF TryInsert
    <3>2. \A b \in Actor : /\ Pend(b)' = Pend(b)
                            /\ \A i \in 1..Pend(b) : wakee'[b][i] = wakee[b][i]
      BY <3>1, Threads, Types, Popped DEF Pend, Popped, Types, PlaceTypes, DemandTypes,
         Actor, WakingPC, ClosingPC
    <3>3. \A v \in Worker : Parked(v) => Parked(v)'
      BY <3>1, Threads, Types DEF Parked, Types, PlaceTypes, DemandTypes, StateTypes,
         MonitorTypes, Actor
    <3> QED BY <3>1, <3>2, <3>3, LineKept
  <2> QED BY <2>1, <2>2
<1>23. ASSUME NEW w \in Worker, Insert(w) PROVE Line'
  <2>1. CASE k[w] <= 0
    <3>1. /\ pc[w] = "insert" /\ pc' = [pc EXCEPT ![w] = "commit"]
          /\ asleep' = <<w>> \o asleep
          /\ wakee' = wakee /\ my_state' = my_state /\ notified' = notified
      BY <1>23, <2>1 DEF Insert
    <3>2. ~InLine(w)
      BY <3>1, Line DEF Line, Parked
    <3>3. \A b \in Actor : Pend(b)' = Pend(b)
      BY <3>1, Threads, Types DEF Pend, Types, PlaceTypes
    <3>4. Once' /\ \A v \in Worker : InLine(v)' => v = w \/ InLine(v)
      BY <3>1, <3>2, <3>3, Joins
    <3>5. pc'[w] = "commit" /\ \A v \in Worker : v # w => pc'[v] = pc[v]
      BY <3>1, Threads, Types DEF Types, PlaceTypes
    <3>6. Parked(w)'
      BY <3>1, <3>5, Fresh DEF Fresh, Parked
    <3>7. \A v \in Worker : v # w /\ Parked(v) => Parked(v)'
      BY <3>1, <3>5 DEF Parked
    <3> QED BY <3>4, <3>6, <3>7 DEF Line
  <2>2. CASE ~(k[w] <= 0)
    <3>1. /\ pc[w] = "insert" /\ pc' = [pc EXCEPT ![w] = "cancel"]
          /\ wakee' = wakee /\ asleep' = asleep /\ my_state' = my_state /\ notified' = notified
      BY <1>23, <2>2 DEF Insert
    <3>2. \A b \in Actor : /\ Pend(b)' = Pend(b)
                            /\ \A i \in 1..Pend(b) : wakee'[b][i] = wakee[b][i]
      BY <3>1, Threads, Types, Popped DEF Pend, Popped, Types, PlaceTypes, DemandTypes,
         Actor, WakingPC, ClosingPC
    <3>3. \A v \in Worker : Parked(v) => Parked(v)'
      BY <3>1, Threads, Types DEF Parked, Types, PlaceTypes, DemandTypes, StateTypes,
         MonitorTypes, Actor
    <3> QED BY <3>1, <3>2, <3>3, LineKept
  <2> QED BY <2>1, <2>2
<1>24. ASSUME NEW w \in Worker, CancelWait(w) PROVE Line'
  <2>1. /\ pc[w] = "cancel" /\ pc' = [pc EXCEPT ![w] = "loop"]
        /\ wakee' = wakee /\ asleep' = asleep /\ my_state' = my_state /\ notified' = notified
    BY <1>24 DEF CancelWait, Cancel
  <2>2. \A b \in Actor : /\ Pend(b)' = Pend(b)
                          /\ \A i \in 1..Pend(b) : wakee'[b][i] = wakee[b][i]
    BY <2>1, Threads, Types, Popped DEF Pend, Popped, Types, PlaceTypes, DemandTypes,
       Actor, WakingPC, ClosingPC
  <2>3. \A v \in Worker : Parked(v) => Parked(v)'
    BY <2>1, Threads, Types DEF Parked, Types, PlaceTypes, DemandTypes, StateTypes,
       MonitorTypes, Actor
  <2> QED BY <2>1, <2>2, <2>3, LineKept
<1>25. ASSUME NEW w \in Worker, CommitWait(w) PROVE Line'
  <2>1. /\ pc[w] = "commit"
        /\ pc' = [pc EXCEPT ![w] = IF notified[w] THEN "late" ELSE "sleep"]
        /\ wakee' = wakee /\ asleep' = asleep /\ my_state' = my_state /\ notified' = notified
    BY <1>25 DEF CommitWait
  <2>2. \A b \in Actor : /\ Pend(b)' = Pend(b)
                          /\ \A i \in 1..Pend(b) : wakee'[b][i] = wakee[b][i]
    BY <2>1, Threads, Types, Popped DEF Pend, Popped, Types, PlaceTypes, DemandTypes,
       Actor, WakingPC, ClosingPC
  <2>3. \A v \in Worker : Parked(v) => Parked(v)'
    BY <2>1, Threads, Types DEF Parked, Types, PlaceTypes, DemandTypes, StateTypes,
       MonitorTypes, Actor
  <2> QED BY <2>1, <2>2, <2>3, LineKept
<1>26. ASSUME NEW w \in Worker, Late(w) PROVE Line'
  <2>1. /\ pc[w] = "late" /\ pc' = [pc EXCEPT ![w] = "woken"]
        /\ wakee' = wakee /\ asleep' = asleep /\ my_state' = my_state /\ notified' = notified
    BY <1>26 DEF Late, Cancel
  <2>2. \A b \in Actor : /\ Pend(b)' = Pend(b)
                          /\ \A i \in 1..Pend(b) : wakee'[b][i] = wakee[b][i]
    BY <2>1, Threads, Types, Popped DEF Pend, Popped, Types, PlaceTypes, DemandTypes,
       Actor, WakingPC, ClosingPC
  <2>3. \A v \in Worker : Parked(v) => Parked(v)'
    BY <2>1, Threads, Types DEF Parked, Types, PlaceTypes, DemandTypes, StateTypes,
       MonitorTypes, Actor
  <2> QED BY <2>1, <2>2, <2>3, LineKept
<1>27. ASSUME NEW w \in Worker, Sleep(w) PROVE Line'
  <2>1. /\ pc[w] = "sleep" /\ sema[w] = 1 /\ pc' = [pc EXCEPT ![w] = "woken"]
        /\ wakee' = wakee /\ asleep' = asleep /\ my_state' = my_state /\ notified' = notified
    BY <1>27 DEF Sleep
  <2>2. notified[w]
    BY <2>1, Monitors DEF Monitors, MonitorOK, Inside, WaitPC
  <2>3. \A b \in Actor : /\ Pend(b)' = Pend(b)
                          /\ \A i \in 1..Pend(b) : wakee'[b][i] = wakee[b][i]
    BY <2>1, <2>2, Threads, Types, Popped DEF Pend, Popped, Types, PlaceTypes,
       DemandTypes, Actor, WakingPC, ClosingPC
  <2>4. \A v \in Worker : Parked(v) => Parked(v)'
    BY <2>1, <2>2, Threads, Types DEF Parked, Types, PlaceTypes, DemandTypes,
       StateTypes, MonitorTypes, Actor
  <2> QED BY <2>1, <2>3, <2>4, LineKept
<1>28. ASSUME NEW w \in Worker, Woken(w) PROVE Line'
  <2>1. CASE asleep = <<>>
    <3>1. /\ pc[w] = "woken" /\ pc' = [pc EXCEPT ![w] = "loop"]
          /\ wakee' = wakee /\ asleep' = asleep /\ my_state' = my_state /\ notified' = notified
      BY <1>28, <2>1 DEF Woken, ChainReaction, WakeSome
    <3>2. \A b \in Actor : /\ Pend(b)' = Pend(b)
                            /\ \A i \in 1..Pend(b) : wakee'[b][i] = wakee[b][i]
      BY <3>1, Threads, Types, Popped DEF Pend, Popped, Types, PlaceTypes, DemandTypes,
         Actor, WakingPC, ClosingPC
    <3>3. \A v \in Worker : Parked(v) => Parked(v)'
      BY <3>1, Threads, Types DEF Parked, Types, PlaceTypes, DemandTypes, StateTypes,
         MonitorTypes, Actor
    <3> QED BY <3>1, <3>2, <3>3, LineKept
  <2>2. CASE ~(asleep = <<>>)
    <3>1. /\ pc[w] = "woken" /\ pc' = [pc EXCEPT ![w] = "wake_lock"]
          /\ wakee' = wakee /\ asleep' = asleep /\ my_state' = my_state /\ notified' = notified
      BY <1>28, <2>2 DEF Woken, ChainReaction, WakeSome
    <3>2. \A b \in Actor : /\ Pend(b)' = Pend(b)
                            /\ \A i \in 1..Pend(b) : wakee'[b][i] = wakee[b][i]
      BY <3>1, Threads, Types, Popped DEF Pend, Popped, Types, PlaceTypes, DemandTypes,
         Actor, WakingPC, ClosingPC
    <3>3. \A v \in Worker : Parked(v) => Parked(v)'
      BY <3>1, Threads, Types DEF Parked, Types, PlaceTypes, DemandTypes, StateTypes,
         MonitorTypes, Actor
    <3> QED BY <3>1, <3>2, <3>3, LineKept
  <2> QED BY <2>1, <2>2
<1>29. ASSUME NEW w \in Worker, Quit(w) PROVE Line'
  <2>1. /\ pc[w] = "loop" /\ my_state[w] = "quit" /\ pc' = [pc EXCEPT ![w] = "quit"]
        /\ wakee' = wakee /\ asleep' = asleep /\ my_state' = my_state /\ notified' = notified
    BY <1>29 DEF Quit
  <2>2. \A b \in Actor : /\ Pend(b)' = Pend(b)
                          /\ \A i \in 1..Pend(b) : wakee'[b][i] = wakee[b][i]
    BY <2>1, Threads, Types, Popped DEF Pend, Popped, Types, PlaceTypes, DemandTypes,
       Actor, WakingPC, ClosingPC
  <2>3. \A v \in Worker : Parked(v) => Parked(v)'
    BY <2>1, Threads, Types DEF Parked, Types, PlaceTypes, DemandTypes, StateTypes,
       MonitorTypes, Actor
  <2> QED BY <2>1, <2>2, <2>3, LineKept
<1>30. ASSUME NEW w \in Worker, End(w) PROVE Line'
  <2>1. /\ pc[w] = "quit" /\ pc' = [pc EXCEPT ![w] = "end"]
        /\ wakee' = wakee /\ asleep' = asleep /\ my_state' = my_state /\ notified' = notified
    BY <1>30 DEF End, RemoveServerRef
  <2>2. \A b \in Actor : /\ Pend(b)' = Pend(b)
                          /\ \A i \in 1..Pend(b) : wakee'[b][i] = wakee[b][i]
    BY <2>1, Threads, Types, Popped DEF Pend, Popped, Types, PlaceTypes, DemandTypes,
       Actor, WakingPC, ClosingPC
  <2>3. \A v \in Worker : Parked(v) => Parked(v)'
    BY <2>1, Threads, Types DEF Parked, Types, PlaceTypes, DemandTypes, StateTypes,
       MonitorTypes, Actor
  <2> QED BY <2>1, <2>2, <2>3, LineKept
<1> QED BY <1>1, <1>2, <1>3, <1>4, <1>5, <1>6, <1>7, <1>8, <1>9, <1>10, <1>11, <1>12,
   <1>13, <1>14, <1>15, <1>16, <1>17, <1>18, <1>19, <1>20, <1>21, <1>22, <1>23, <1>24,
   <1>25, <1>26, <1>27, <1>28, <1>29, <1>30, Next DEF Next, ShutDown, Waking, Run

\* Who keeps the chain reaction going.
LEMMA ChainBy == ASSUME NEW a \in Actor, Strong(a)' PROVE Chain'
  BY DEF Chain
LEMMA ChainKept ==
    ASSUME Chain, Closing => Closing', asleep' # <<>> => asleep # <<>>,
           my_slack' > (IF Inserting' # {} THEN 1 ELSE 0) => my_slack > (IF Inserting # {} THEN 1 ELSE 0),
           \A a \in Actor : Strong(a) => Strong(a)'
    PROVE  Chain'
  BY DEF Chain
LEMMA Closes == ASSUME Closing' PROVE Chain'
  BY DEF Chain
LEMMA NoneInserts ==
    ASSUME Assumptions, Types, Locked, mutex = NULL \/ \E a \in Actor : mutex = a /\ pc[a] # "insert"
    PROVE  Inserting = {}
  BY Threads DEF Inserting, Locked

\* While there is slack and somebody sleeps, somebody will look at the list again.
LEMMA ChainStep ==
    ASSUME Assumptions, Types, Popped, Handles, Returns, Locked, Quitting, SlackRead, Monitors, Line, Chain, Next
    PROVE  Chain'
<1> USE DEF Set, Goto, Jump, server, monitor, waking, demand, hist
<1>1. ASSUME NEW c \in Client, NEW delta \in 1..MaxDelta, Request(c, delta) PROVE Chain'
  <2>1. /\ pc[c] = "idle"
        /\ ~Closing /\ asked[c] = 0 /\ SumFunction(asked) + delta <= Cardinality(Worker)
        /\ pc' = [pc EXCEPT ![c] = "wake_lock"]
        /\ wakee' = wakee /\ asleep' = asleep /\ my_slack' = my_slack /\ notified' = notified
    BY <1>1 DEF Request, WakeSome
  <2>2. c \in Actor /\ Strong(c)'
    BY <2>1, Threads, Types DEF Strong, Types, PlaceTypes
  <2> QED BY <2>2, ChainBy
<1>2. ASSUME NEW c \in Client, Return(c) PROVE Chain'
  <2>1. /\ pc[c] = "idle" /\ asked[c] > 0 /\ pc' = [pc EXCEPT ![c] = "idle"]
        /\ my_slack' = my_slack - asked[c]
        /\ wakee' = wakee /\ asleep' = asleep /\ notified' = notified
    BY <1>2 DEF Return
  <2>2. Closing => Closing'
    BY <2>1, Threads, Types DEF Closing, Types, PlaceTypes, Actor
  <2>3. Inserting' = Inserting
    BY <2>1, Threads, Types DEF Inserting, Types, PlaceTypes, Actor
  <2>4. \A b \in Actor : Strong(b) => Strong(b)'
    BY <2>1, Threads, Types DEF Strong, Types, PlaceTypes, DemandTypes, MonitorTypes, Actor
  <2> QED BY <2>1, <2>2, <2>3, <2>4, ChainKept, Types DEF Types, ServerTypes, DemandTypes
<1>3. ASSUME NEW c \in Client, Close(c) PROVE Chain'
  <2>1. /\ pc[c] = "idle"
        /\ \A d \in Client : pc[d] = "idle" /\ asked[d] = 0
        /\ pc' = [pc EXCEPT ![c] = "shutdown"]
        /\ wakee' = wakee /\ asleep' = asleep /\ my_slack' = my_slack /\ notified' = notified
    BY <1>3 DEF Close
  <2>2. Closing'
    BY <2>1, Threads, Types DEF Closing, Types, PlaceTypes, Actor
  <2> QED BY <2>2, Closes
<1>4. ASSUME NEW c \in Client, NEW w \in Worker, StartShutdown(c, w) PROVE Chain'
  <2>1. CASE my_state[w] = "init"
    <3>1. /\ pc[c] = "shutdown" /\ my_state[w] # "quit"
          /\ pc' = [pc EXCEPT ![c] = "shutdown"]
          /\ wakee' = [wakee EXCEPT ![c] = <<w>>]
          /\ asleep' = asleep /\ my_slack' = my_slack /\ notified' = notified
      BY <1>4, <2>1 DEF StartShutdown, RemoveServerRef
    <3>2. Closing'
      BY <3>1, Threads, Types DEF Closing, Types, PlaceTypes, Actor
    <3> QED BY <3>2, Closes
  <2>2. CASE ~(my_state[w] = "init")
    <3>1. /\ pc[c] = "shutdown" /\ my_state[w] # "quit"
          /\ pc' = [pc EXCEPT ![c] = "notify"] /\ wakee' = [wakee EXCEPT ![c] = <<w>>]
          /\ asleep' = asleep /\ my_slack' = my_slack /\ notified' = notified
      BY <1>4, <2>2 DEF StartShutdown, RemoveServerRef
    <3>2. Closing'
      BY <3>1, Threads, Types DEF Closing, Types, PlaceTypes, Actor
    <3> QED BY <3>2, Closes
  <2> QED BY <2>1, <2>2
<1>5. ASSUME NEW c \in Client, NotifyQuit(c) PROVE Chain'
  <2>1. /\ pc[c] = "notify" /\ pc' = [pc EXCEPT ![c] = "signal_quit"]
        /\ notified' = [notified EXCEPT ![wakee[c][1]] = TRUE]
        /\ wakee' = wakee /\ asleep' = asleep /\ my_slack' = my_slack
    BY <1>5, QuitNotified
  <2>2. Closing'
    BY <2>1, Threads, Types DEF Closing, Types, PlaceTypes, Actor
  <2> QED BY <2>2, Closes
<1>6. ASSUME NEW c \in Client, SignalQuit(c) PROVE Chain'
  <2>1. CASE back[c] = "normal"
    <3>1. /\ pc[c] = "signal_quit" /\ pc' = [pc EXCEPT ![c] = "release_handle"]
          /\ wakee' = wakee /\ asleep' = asleep /\ my_slack' = my_slack /\ notified' = notified
      BY <1>6, <2>1 DEF SignalQuit
    <3>2. Closing'
      BY <3>1, Threads, Types DEF Closing, Types, PlaceTypes, Actor
    <3> QED BY <3>2, Closes
  <2>2. CASE ~(back[c] = "normal")
    <3>1. /\ pc[c] = "signal_quit" /\ pc' = [pc EXCEPT ![c] = "shutdown"]
          /\ wakee' = wakee /\ asleep' = asleep /\ my_slack' = my_slack /\ notified' = notified
      BY <1>6, <2>2 DEF SignalQuit
    <3>2. Closing'
      BY <3>1, Threads, Types DEF Closing, Types, PlaceTypes, Actor
    <3> QED BY <3>2, Closes
  <2> QED BY <2>1, <2>2
<1>7. ASSUME NEW c \in Client, ReleaseHandle(c) PROVE Chain'
  <2>1. /\ pc[c] = "release_handle" /\ pc' = [pc EXCEPT ![c] = "shutdown"]
        /\ wakee' = wakee /\ asleep' = asleep /\ my_slack' = my_slack /\ notified' = notified
    BY <1>7 DEF ReleaseHandle
  <2>2. Closing'
    BY <2>1, Threads, Types DEF Closing, Types, PlaceTypes, Actor
  <2> QED BY <2>2, Closes
<1>8. ASSUME NEW c \in Client, Closed(c) PROVE Chain'
  <2>1. /\ pc[c] = "shutdown"
        /\ \A w \in Worker : my_state[w] = "quit"
        /\ pc' = [pc EXCEPT ![c] = "closed"]
        /\ wakee' = wakee /\ asleep' = asleep /\ my_slack' = my_slack /\ notified' = notified
    BY <1>8 DEF Closed, RemoveServerRef
  <2>2. Closing'
    BY <2>1, Threads, Types DEF Closing, Types, PlaceTypes, Actor
  <2> QED BY <2>2, Closes
<1>9. ASSUME NEW a \in Actor, WakeLock(a) PROVE Chain'
  <2>1. /\ pc[a] = "wake_lock" /\ mutex = NULL /\ pc' = [pc EXCEPT ![a] = "wake_loop"]
        /\ wakee' = wakee /\ asleep' = asleep /\ my_slack' = my_slack /\ notified' = notified
    BY <1>9 DEF WakeLock
  <2>2. a \in Actor /\ Strong(a)'
    BY <2>1, Threads, Types DEF Strong, Types, PlaceTypes
  <2> QED BY <2>2, ChainBy
<1>10. ASSUME NEW a \in Actor, PopForDemand(a) PROVE Chain'
  <2>1. /\ pc[a] = "wake_loop"
        /\ additional[a] > 0 /\ additional[a] + my_slack > 0 /\ asleep # <<>>
        /\ pc' = [pc EXCEPT ![a] = "wake_loop"]
        /\ wakee' = [wakee EXCEPT ![a] = Append(wakee[a], Head(asleep))]
        /\ asleep' = Tail(asleep) /\ my_slack' = my_slack /\ notified' = notified
    BY <1>10 DEF PopForDemand, CanPop, Pop
  <2>2. a \in Actor /\ Strong(a)'
    BY <2>1, Threads, Types DEF Strong, Types, PlaceTypes
  <2> QED BY <2>2, ChainBy
<1>11. ASSUME NEW a \in Actor, PopForSlack(a) PROVE Chain'
  <2>1. /\ pc[a] = "wake_loop" /\ additional[a] = 0 /\ my_slack > 0 /\ asleep # <<>>
        /\ pc' = [pc EXCEPT ![a] = "wake_loop"]
        /\ wakee' = [wakee EXCEPT ![a] = Append(wakee[a], Head(asleep))]
        /\ asleep' = Tail(asleep) /\ my_slack' = my_slack - 1 /\ notified' = notified
    BY <1>11 DEF PopForSlack, CanPop, Pop
  <2>2. a \in Actor /\ Strong(a)'
    BY <2>1, Threads, Types DEF Strong, Types, PlaceTypes
  <2> QED BY <2>2, ChainBy
<1>12. ASSUME NEW a \in Actor, WakeUnlock(a) PROVE Chain'
  <2>1. /\ pc[a] = "wake_loop" /\ pc' = [pc EXCEPT ![a] = "wake_each"]
        /\ my_slack' = my_slack + additional[a]
        /\ wakee' = wakee /\ asleep' = asleep /\ notified' = notified
    BY <1>12 DEF WakeUnlock, CanPop
  <2>2. ~(CanPop(a) /\ additional[a] + my_slack > 0)
    BY <1>12 DEF WakeUnlock
  <2>3. SUFFICES ASSUME asleep' # <<>>, my_slack' > (IF Inserting' # {} THEN 1 ELSE 0) PROVE Chain'
    BY DEF Chain
  <2>4. my_slack + additional[a] > 0 /\ additional[a] \in Nat /\ my_slack \in Int /\ Len(wakee[a]) \in Nat
    BY <2>1, <2>3, Types DEF Types, ServerTypes, DemandTypes
  <2>5. wakee[a] # <<>>
    BY <2>1, <2>2, <2>3, <2>4 DEF CanPop
  <2>6. Strong(a)'
    BY <2>1, <2>5, Types DEF Strong, Types, PlaceTypes
  <2> QED BY <2>6, ChainBy
<1>13. ASSUME NEW a \in Actor, WakeEach(a) PROVE Chain'
  <2>1. CASE my_state[Wakee(a)] = "init"
    <3>1. /\ pc[a] = "wake_each" /\ wakee[a] # <<>>
          /\ pc' = [pc EXCEPT ![a] = "launch"]
          /\ wakee' = wakee /\ asleep' = asleep /\ my_slack' = my_slack /\ notified' = notified
      BY <1>13, <2>1 DEF WakeEach
    <3>2. a \in Actor /\ Strong(a)'
      BY <3>1, Threads, Types DEF Strong, Types, PlaceTypes
    <3> QED BY <3>2, ChainBy
  <2>2. CASE ~(my_state[Wakee(a)] = "init")
    <3>1. /\ pc[a] = "wake_each" /\ wakee[a] # <<>>
          /\ pc' = [pc EXCEPT ![a] = "signal"]
          /\ notified' = [notified EXCEPT ![Wakee(a)] = TRUE]
          /\ wakee' = wakee /\ asleep' = asleep /\ my_slack' = my_slack
      BY <1>13, <2>2, SleeperNotified
    <3>2. Wakee(a) \in Worker /\ InLine(Wakee(a)) /\ Parked(Wakee(a)) /\ Wakee(a) \in Actor
      BY <3>1, Threads, WakeeInLine, Line DEF Line
    <3>3. CASE Len(wakee[a]) > 1
      <4>1. Strong(a)'
        BY <3>1, <3>3, Types DEF Strong, Types, PlaceTypes
      <4> QED BY <4>1, ChainBy
    <3>4. CASE Closing
      <4>1. Closing'
        BY <3>1, <3>4, Threads, Types DEF Closing, Types, PlaceTypes, Actor
      <4> QED BY <4>1, Closes
    <3>5. CASE ~Closing /\ pc[Wakee(a)] \in {"commit", "sleep"}
      <4>1. pc'[Wakee(a)] = pc[Wakee(a)] /\ notified'[Wakee(a)] = TRUE
        BY <3>1, <3>2, <3>5, Types DEF Types, PlaceTypes, MonitorTypes
      <4>2. PICK v \in Worker : v = Wakee(a)
        BY <3>2
      <4>3. v \in Actor /\ Strong(v)'
        BY <3>5, <4>1, <4>2, Threads DEF Strong
      <4> QED BY <4>3, ChainBy
    <3>6. CASE ~Closing /\ pc[Wakee(a)] = "none"
      <4>1. my_state[Wakee(a)] = "starting"
        BY <2>2, <3>2, <3>6, Quitting, Handles, Types DEF Quitting, Handles, HandleOK,
           Types, StateTypes
      <4>2. PICK b \in Actor : Launcher(b, Wakee(a))
        BY <3>2, <4>1, Handles DEF Handles, HandleOK
      <4>3. pc[b] = "launch"
        BY <3>2, <3>6, <4>2, Handles DEF Handles, HandleOK
      <4>4. Strong(b)'
        BY <3>1, <4>3, Types DEF Strong, Types, PlaceTypes
      <4> QED BY <4>4, ChainBy
    <3>7. ~Closing => pc[Wakee(a)] \in {"none", "commit", "sleep"}
      BY <3>2, Quitting DEF Quitting, Parked
    <3> QED BY <3>3, <3>4, <3>5, <3>6, <3>7
  <2> QED BY <2>1, <2>2
<1>14. ASSUME NEW a \in Actor, SignalWakee(a) PROVE Chain'
  <2>1. /\ pc[a] = "signal" /\ pc' = [pc EXCEPT ![a] = "wake_each"]
        /\ wakee' = [wakee EXCEPT ![a] = Front(wakee[a])]
        /\ asleep' = asleep /\ my_slack' = my_slack /\ notified' = notified
    BY <1>14 DEF SignalWakee, Waked
  <2>2. wakee[a] \in Seq(Worker) /\ wakee[a] # <<>> /\ wakee'[a] = Front(wakee[a])
    BY <2>1, Popped, Types DEF Popped, Types, DemandTypes
  <2>3. Len(wakee[a]) > 1 => wakee'[a] # <<>>
    BY <2>2, Fronts
  <2>4. Closing => Closing'
    BY <2>1, Threads, Types DEF Closing, Types, PlaceTypes, Actor
  <2>5. Inserting' = Inserting
    BY <2>1, Threads, Types DEF Inserting, Types, PlaceTypes, Actor
  <2>6. \A b \in Actor : Strong(b) => Strong(b)'
    BY <2>1, <2>2, <2>3, Threads, Types DEF Strong, Types, PlaceTypes, DemandTypes,
       MonitorTypes, Actor
  <2> QED BY <2>1, <2>4, <2>5, <2>6, ChainKept
<1>15. ASSUME NEW a \in Actor, Launch(a) PROVE Chain'
  <2>1. /\ pc[a] = "launch" /\ pc' = [pc EXCEPT ![a] = "launched", ![Wakee(a)] = "run"]
        /\ wakee' = wakee /\ asleep' = asleep /\ my_slack' = my_slack /\ notified' = notified
    BY <1>15 DEF Launch
  <2>2. Wakee(a) \in Worker /\ Wakee(a) # a
    BY <1>15, NotYet
  <2>3. PICK v \in Worker : v = Wakee(a)
    BY <2>2
  <2>4. v \in Actor /\ Strong(v)'
    BY <2>1, <2>2, <2>3, Threads, Types DEF Strong, Types, PlaceTypes
  <2> QED BY <2>4, ChainBy
<1>16. ASSUME NEW a \in Actor, Launched(a) PROVE Chain'
  <2>1. CASE my_state[Wakee(a)] = "starting"
    <3>1. /\ pc[a] = "launched" /\ pc' = [pc EXCEPT ![a] = "wake_each"]
          /\ wakee' = [wakee EXCEPT ![a] = Front(wakee[a])]
          /\ asleep' = asleep /\ my_slack' = my_slack /\ notified' = notified
      BY <1>16, <2>1 DEF Launched, Waked
    <3>2. wakee[a] \in Seq(Worker) /\ wakee[a] # <<>> /\ wakee'[a] = Front(wakee[a])
      BY <3>1, Popped, Types DEF Popped, Types, DemandTypes
    <3>3. Len(wakee[a]) > 1 => wakee'[a] # <<>>
      BY <3>2, Fronts
    <3>4. Closing => Closing'
      BY <3>1, Threads, Types DEF Closing, Types, PlaceTypes, Actor
    <3>5. Inserting' = Inserting
      BY <3>1, Threads, Types DEF Inserting, Types, PlaceTypes, Actor
    <3>6. \A b \in Actor : Strong(b) => Strong(b)'
      BY <3>1, <3>2, <3>3, Threads, Types DEF Strong, Types, PlaceTypes, DemandTypes,
         MonitorTypes, Actor
    <3> QED BY <3>1, <3>4, <3>5, <3>6, ChainKept
  <2>2. CASE ~(my_state[Wakee(a)] = "starting")
    <3>1. /\ pc[a] = "launched" /\ pc' = [pc EXCEPT ![a] = "wake_each"]
          /\ wakee' = [wakee EXCEPT ![a] = Front(wakee[a])]
          /\ asleep' = asleep /\ my_slack' = my_slack /\ notified' = notified
      BY <1>16, <2>2 DEF Launched, Waked
    <3>2. wakee[a] \in Seq(Worker) /\ wakee[a] # <<>> /\ wakee'[a] = Front(wakee[a])
      BY <3>1, Popped, Types DEF Popped, Types, DemandTypes
    <3>3. Len(wakee[a]) > 1 => wakee'[a] # <<>>
      BY <3>2, Fronts
    <3>4. Closing => Closing'
      BY <3>1, Threads, Types DEF Closing, Types, PlaceTypes, Actor
    <3>5. Inserting' = Inserting
      BY <3>1, Threads, Types DEF Inserting, Types, PlaceTypes, Actor
    <3>6. \A b \in Actor : Strong(b) => Strong(b)'
      BY <3>1, <3>2, <3>3, Threads, Types DEF Strong, Types, PlaceTypes, DemandTypes,
         MonitorTypes, Actor
    <3> QED BY <3>1, <3>4, <3>5, <3>6, ChainKept
  <2> QED BY <2>1, <2>2
<1>17. ASSUME NEW a \in Actor, WakeDone(a) PROVE Chain'
  <2>1. /\ pc[a] = "wake_each" /\ wakee[a] = <<>> /\ pc' = [pc EXCEPT ![a] = back[a]]
        /\ wakee' = wakee /\ asleep' = asleep /\ my_slack' = my_slack /\ notified' = notified
    BY <1>17 DEF WakeDone
  <2>2. Closing => Closing'
    BY <2>1, Threads, Types, Returns DEF Closing, Types, PlaceTypes, Actor, Returns,
       WakingPC
  <2>3. Inserting' = Inserting
    BY <2>1, Threads, Types, Returns DEF Inserting, Types, PlaceTypes, Actor, Returns,
       WakingPC
  <2>4. \A b \in Actor : Strong(b) => Strong(b)'
    BY <2>1, Threads, Types, Returns DEF Strong, Types, PlaceTypes, DemandTypes,
       MonitorTypes, Actor, Returns, WakingPC
  <2> QED BY <2>1, <2>2, <2>3, <2>4, ChainKept
<1>18. ASSUME NEW w \in Worker, Start(w) PROVE Chain'
  <2>1. CASE asleep = <<>>
    BY <1>18, <2>1 DEF Chain, Start, ChainReaction, WakeSome
  <2>2. CASE ~(asleep = <<>>)
    <3>1. /\ pc[w] = "run" /\ pc' = [pc EXCEPT ![w] = "wake_lock"]
          /\ wakee' = wakee /\ asleep' = asleep /\ my_slack' = my_slack /\ notified' = notified
      BY <1>18, <2>2 DEF Start, ChainReaction, WakeSome
    <3>2. w \in Actor /\ Strong(w)'
      BY <3>1, Threads, Types DEF Strong, Types, PlaceTypes
    <3> QED BY <3>2, ChainBy
  <2> QED BY <2>1, <2>2
<1>19. ASSUME NEW w \in Worker, Idle(w) PROVE Chain'
  <2>1. /\ pc[w] = "loop" /\ my_slack < 0 /\ my_state[w] # "quit"
        /\ pc' = [pc EXCEPT ![w] = "prepare"]
        /\ wakee' = wakee /\ asleep' = asleep /\ my_slack' = my_slack /\ notified' = notified
    BY <1>19 DEF Idle
  <2>2. Closing => Closing'
    BY <2>1, Threads, Types DEF Closing, Types, PlaceTypes, Actor
  <2>3. Inserting' = Inserting
    BY <2>1, Threads, Types DEF Inserting, Types, PlaceTypes, Actor
  <2>4. \A b \in Actor : Strong(b) => Strong(b)'
    BY <2>1, Threads, Types DEF Strong, Types, PlaceTypes, DemandTypes, MonitorTypes, Actor
  <2> QED BY <2>1, <2>2, <2>3, <2>4, ChainKept
<1>20. ASSUME NEW w \in Worker, PrepareWait(w) PROVE Chain'
  <2>1. /\ pc[w] = "prepare"
        /\ spurious[w] => sema[w] = 1
        /\ pc' = [pc EXCEPT ![w] = "check"]
        /\ notified' = [notified EXCEPT ![w] = FALSE]
        /\ wakee' = wakee /\ asleep' = asleep /\ my_slack' = my_slack
    BY <1>20 DEF PrepareWait
  <2>2. Closing => Closing'
    BY <2>1, Threads, Types DEF Closing, Types, PlaceTypes, Actor
  <2>3. Inserting' = Inserting
    BY <2>1, Threads, Types DEF Inserting, Types, PlaceTypes, Actor
  <2>4. \A b \in Actor : Strong(b) => Strong(b)'
    BY <2>1, Threads, Types DEF Strong, Types, PlaceTypes, DemandTypes, MonitorTypes, Actor
  <2> QED BY <2>1, <2>2, <2>3, <2>4, ChainKept
<1>21. ASSUME NEW w \in Worker, Check(w) PROVE Chain'
  <2>1. /\ pc[w] = "check"
        /\ pc' = [pc EXCEPT ![w] = IF my_state[w] = "quit" THEN "cancel" ELSE "try_insert"]
        /\ wakee' = wakee /\ asleep' = asleep /\ my_slack' = my_slack /\ notified' = notified
    BY <1>21 DEF Check
  <2>2. Closing => Closing'
    BY <2>1, Threads, Types DEF Closing, Types, PlaceTypes, Actor
  <2>3. Inserting' = Inserting
    BY <2>1, Threads, Types DEF Inserting, Types, PlaceTypes, Actor
  <2>4. \A b \in Actor : Strong(b) => Strong(b)'
    BY <2>1, Threads, Types DEF Strong, Types, PlaceTypes, DemandTypes, MonitorTypes, Actor
  <2> QED BY <2>1, <2>2, <2>3, <2>4, ChainKept
<1>22. ASSUME NEW w \in Worker, TryInsert(w) PROVE Chain'
  <2>1. CASE mutex = NULL
    <3>1. /\ pc[w] = "try_insert" /\ pc' = [pc EXCEPT ![w] = "insert"]
          /\ my_slack' = my_slack + 1
          /\ wakee' = wakee /\ asleep' = asleep /\ notified' = notified
      BY <1>22, <2>1 DEF TryInsert
    <3>2. Inserting = {} /\ w \in Inserting'
      BY <3>1, <2>1, NoneInserts, Threads, Types DEF Inserting, Types, PlaceTypes
    <3>3. Closing => Closing'
      BY <3>1, Threads, Types DEF Closing, Types, PlaceTypes, Actor
    <3>4. my_slack' > (IF Inserting' # {} THEN 1 ELSE 0) => my_slack > (IF Inserting # {} THEN 1 ELSE 0)
      BY <3>1, <3>2, Types DEF Types, ServerTypes
    <3>5. \A b \in Actor : Strong(b) => Strong(b)'
      BY <3>1, <3>2, Threads, Types DEF Strong, Types, PlaceTypes, DemandTypes,
         MonitorTypes, Actor
    <3> QED BY <3>1, <3>3, <3>4, <3>5, ChainKept
  <2>2. CASE ~(mutex = NULL)
    <3>1. /\ pc[w] = "try_insert" /\ pc' = [pc EXCEPT ![w] = "cancel"]
          /\ wakee' = wakee /\ asleep' = asleep /\ my_slack' = my_slack /\ notified' = notified
      BY <1>22, <2>2 DEF TryInsert
    <3>2. Closing => Closing'
      BY <3>1, Threads, Types DEF Closing, Types, PlaceTypes, Actor
    <3>3. Inserting' = Inserting
      BY <3>1, Threads, Types DEF Inserting, Types, PlaceTypes, Actor
    <3>4. \A b \in Actor : Strong(b) => Strong(b)'
      BY <3>1, Threads, Types DEF Strong, Types, PlaceTypes, DemandTypes, MonitorTypes,
         Actor
    <3> QED BY <3>1, <3>2, <3>3, <3>4, ChainKept
  <2> QED BY <2>1, <2>2
<1>23. ASSUME NEW w \in Worker, Insert(w) PROVE Chain'
  <2>1. CASE k[w] <= 0
    <3>1. /\ pc[w] = "insert" /\ pc' = [pc EXCEPT ![w] = "commit"]
          /\ asleep' = <<w>> \o asleep
          /\ wakee' = wakee /\ my_slack' = my_slack /\ notified' = notified
      BY <1>23, <2>1 DEF Insert
    <3>2. Closing => Closing'
      BY <3>1, Threads, Types DEF Closing, Types, PlaceTypes, Actor
    <3>3. ~Closing => my_slack' <= 0
      BY <2>1, <3>1, SlackRead, Types DEF SlackRead, Types, ServerTypes
    <3>4. my_slack' \in Int
      BY <3>1, Types DEF Types, ServerTypes
    <3> QED BY <3>2, <3>3, <3>4 DEF Chain
  <2>2. CASE ~(k[w] <= 0)
    <3>1. /\ pc[w] = "insert" /\ pc' = [pc EXCEPT ![w] = "cancel"]
          /\ my_slack' = my_slack - 1
          /\ wakee' = wakee /\ asleep' = asleep /\ notified' = notified
      BY <1>23, <2>2 DEF Insert
    <3>2. w \in Inserting
      BY <3>1 DEF Inserting
    <3>3. Closing => Closing'
      BY <3>1, Threads, Types DEF Closing, Types, PlaceTypes, Actor
    <3>4. my_slack' > (IF Inserting' # {} THEN 1 ELSE 0) => my_slack > (IF Inserting # {} THEN 1 ELSE 0)
      BY <3>1, <3>2, Types DEF Types, ServerTypes
    <3>5. \A b \in Actor : Strong(b) => Strong(b)'
      BY <3>1, <3>2, Threads, Types DEF Strong, Types, PlaceTypes, DemandTypes,
         MonitorTypes, Actor
    <3> QED BY <3>1, <3>3, <3>4, <3>5, ChainKept
  <2> QED BY <2>1, <2>2
<1>24. ASSUME NEW w \in Worker, CancelWait(w) PROVE Chain'
  <2>1. /\ pc[w] = "cancel" /\ pc' = [pc EXCEPT ![w] = "loop"]
        /\ wakee' = wakee /\ asleep' = asleep /\ my_slack' = my_slack /\ notified' = notified
    BY <1>24 DEF CancelWait, Cancel
  <2>2. Closing => Closing'
    BY <2>1, Threads, Types DEF Closing, Types, PlaceTypes, Actor
  <2>3. Inserting' = Inserting
    BY <2>1, Threads, Types DEF Inserting, Types, PlaceTypes, Actor
  <2>4. \A b \in Actor : Strong(b) => Strong(b)'
    BY <2>1, Threads, Types DEF Strong, Types, PlaceTypes, DemandTypes, MonitorTypes, Actor
  <2> QED BY <2>1, <2>2, <2>3, <2>4, ChainKept
<1>25. ASSUME NEW w \in Worker, CommitWait(w) PROVE Chain'
  <2>1. /\ pc[w] = "commit"
        /\ pc' = [pc EXCEPT ![w] = IF notified[w] THEN "late" ELSE "sleep"]
        /\ wakee' = wakee /\ asleep' = asleep /\ my_slack' = my_slack /\ notified' = notified
    BY <1>25 DEF CommitWait
  <2>2. Closing => Closing'
    BY <2>1, Threads, Types DEF Closing, Types, PlaceTypes, Actor
  <2>3. Inserting' = Inserting
    BY <2>1, Threads, Types DEF Inserting, Types, PlaceTypes, Actor
  <2>4. \A b \in Actor : Strong(b) => Strong(b)'
    BY <2>1, Threads, Types DEF Strong, Types, PlaceTypes, DemandTypes, MonitorTypes, Actor
  <2> QED BY <2>1, <2>2, <2>3, <2>4, ChainKept
<1>26. ASSUME NEW w \in Worker, Late(w) PROVE Chain'
  <2>1. /\ pc[w] = "late" /\ pc' = [pc EXCEPT ![w] = "woken"]
        /\ wakee' = wakee /\ asleep' = asleep /\ my_slack' = my_slack /\ notified' = notified
    BY <1>26 DEF Late, Cancel
  <2>2. w \in Actor /\ Strong(w)'
    BY <2>1, Threads, Types DEF Strong, Types, PlaceTypes
  <2> QED BY <2>2, ChainBy
<1>27. ASSUME NEW w \in Worker, Sleep(w) PROVE Chain'
  <2>1. /\ pc[w] = "sleep" /\ sema[w] = 1 /\ pc' = [pc EXCEPT ![w] = "woken"]
        /\ wakee' = wakee /\ asleep' = asleep /\ my_slack' = my_slack /\ notified' = notified
    BY <1>27 DEF Sleep
  <2>2. w \in Actor /\ Strong(w)'
    BY <2>1, Threads, Types DEF Strong, Types, PlaceTypes
  <2> QED BY <2>2, ChainBy
<1>28. ASSUME NEW w \in Worker, Woken(w) PROVE Chain'
  <2>1. CASE asleep = <<>>
    BY <1>28, <2>1 DEF Chain, Woken, ChainReaction, WakeSome
  <2>2. CASE ~(asleep = <<>>)
    <3>1. /\ pc[w] = "woken" /\ pc' = [pc EXCEPT ![w] = "wake_lock"]
          /\ wakee' = wakee /\ asleep' = asleep /\ my_slack' = my_slack /\ notified' = notified
      BY <1>28, <2>2 DEF Woken, ChainReaction, WakeSome
    <3>2. w \in Actor /\ Strong(w)'
      BY <3>1, Threads, Types DEF Strong, Types, PlaceTypes
    <3> QED BY <3>2, ChainBy
  <2> QED BY <2>1, <2>2
<1>29. ASSUME NEW w \in Worker, Quit(w) PROVE Chain'
  <2>1. /\ pc[w] = "loop" /\ my_state[w] = "quit" /\ pc' = [pc EXCEPT ![w] = "quit"]
        /\ my_slack' = my_slack + 1
        /\ wakee' = wakee /\ asleep' = asleep /\ notified' = notified
    BY <1>29 DEF Quit
  <2>2. Closing
    BY <2>1, Quitting DEF Quitting
  <2>3. Closing'
    BY <2>1, <2>2, Threads, Types DEF Closing, Types, PlaceTypes, Actor
  <2> QED BY <2>3, Closes
<1>30. ASSUME NEW w \in Worker, End(w) PROVE Chain'
  <2>1. /\ pc[w] = "quit" /\ pc' = [pc EXCEPT ![w] = "end"]
        /\ wakee' = wakee /\ asleep' = asleep /\ my_slack' = my_slack /\ notified' = notified
    BY <1>30 DEF End, RemoveServerRef
  <2>2. Closing
    BY <2>1, Quitting DEF Quitting
  <2>3. Closing'
    BY <2>1, <2>2, Threads, Types DEF Closing, Types, PlaceTypes, Actor
  <2> QED BY <2>3, Closes
<1> QED BY <1>1, <1>2, <1>3, <1>4, <1>5, <1>6, <1>7, <1>8, <1>9, <1>10, <1>11, <1>12,
   <1>13, <1>14, <1>15, <1>16, <1>17, <1>18, <1>19, <1>20, <1>21, <1>22, <1>23, <1>24,
   <1>25, <1>26, <1>27, <1>28, <1>29, <1>30, Next DEF Next, ShutDown, Waking, Run

\* Nobody has been notified, and nobody serves the market yet.
LEMMA InitExtra == ASSUME Assumptions, Init PROVE Extra
<1>1. /\ Worker \subseteq Actor /\ Client \subseteq Actor /\ Worker \cap Client = {}
      /\ Cardinality(Worker) \in Nat
  BY Threads
<1>2. /\ my_slack = 0 /\ \A a \in Actor : pc[a] = IF a \in Client THEN "idle" ELSE "none"
      /\ \A w \in Worker : /\ my_state[w] = "init" /\ in_wait[w] = FALSE /\ spurious[w] = FALSE
                           /\ sema[w] = 0 /\ notified[w] = FALSE
  BY DEF Init
<1>3. \A w \in Worker : pc[w] = "none"
  BY <1>1, <1>2
<1>4. Monitors /\ Fresh
  BY <1>2, <1>3 DEF Monitors, MonitorOK, Fresh, Inside, WaitPC
<1>5. \A a \in Actor : Pend(a) = 0
  BY <1>2 DEF Pend
<1>6. Once
  <2>1. \A i, j \in 1..Len(asleep) : asleep[i] = asleep[j] => i = j
    BY <1>1 DEF Init, SetToSeqs
  <2> QED BY <1>5, <2>1 DEF Once
<1>7. \A w \in Worker : Parked(w)
  BY <1>2, <1>3 DEF Parked
<1>8. Chain
  BY <1>2 DEF Chain
<1> QED BY <1>4, <1>6, <1>7, <1>8 DEF Extra, Line

\* Every step keeps what is added.
LEMMA ExtraStep == ASSUME Assumptions, AtomicNotify, Base, Extra, Next PROVE Extra'
<1>1. /\ Types /\ Handles /\ SlackRead /\ Returns /\ Popped /\ Locked /\ Telling /\ Quitting
  BY DEF Base, Shape
<1>2. Monitors /\ Fresh /\ Line /\ Chain
  BY DEF Extra
<1>3. Monitors' /\ Fresh' /\ Line' /\ Chain'
  BY <1>1, <1>2, MonitorsStep, FreshStep, LineStep, ChainStep
<1> QED BY <1>3 DEF Extra

\* So does a step that changes nothing.
LEMMA ExtraStutter == ASSUME Extra, UNCHANGED vars PROVE Extra'
<1> USE DEF vars, server, monitor, waking, demand, hist
<1>1. Monitors' /\ Fresh'
  BY DEF Extra, Monitors, MonitorOK, Inside, Fresh
<1>2. \A b \in Actor : Pend(b)' = Pend(b)
  BY DEF Pend
<1>3. Once' /\ \A w \in Worker : (InLine(w)' <=> InLine(w)) /\ (Parked(w)' <=> Parked(w))
  BY <1>2 DEF Extra, Line, Once, InLine, Parked
<1>4. Inserting' = Inserting
  BY DEF Inserting
<1>5. Chain'
  BY <1>4 DEF Extra, Chain, Closing, Strong
<1> QED BY <1>1, <1>3, <1>5 DEF Extra, Line

\* With notifications in a single step: the monitors are true, who stands in line
\* sleeps, and the chain reaction goes on while there is slack.
THEOREM ChainInvariance == ASSUME Assumptions, AtomicNotify PROVE Spec => [](Base /\ Extra)
<1>1. Init => Base /\ Extra
  BY InitBase, InitExtra
<1>2. Base /\ Extra /\ [Next]_vars => (Base /\ Extra)'
  BY BaseStep, ExtraStep, BaseStutter, ExtraStutter
<1> QED BY <1>1, <1>2, PTL DEF Spec

\* Who keeps the chain reaction going will look at the list again.
LEMMA ChainFollows == ASSUME Assumptions, Base, Extra PROVE NobodyOversleeps
<1>1. SUFFICES ASSUME mutex = NULL, ~Closing, asleep # <<>>, my_slack > 0
               PROVE  \E a \in Actor : OnTheWay(a)
  BY DEF NobodyOversleeps
<1>2. Types /\ Locked /\ Monitors /\ Chain
  BY DEF Base, Shape, Extra
<1>3. Inserting = {}
  BY <1>1, <1>2, NoneInserts
<1>4. PICK a \in Actor : Strong(a)
  BY <1>1, <1>2, <1>3 DEF Chain
<1>5. CASE a \in Worker /\ pc[a] = "sleep" /\ notified[a]
  <2>1. Inside(a) /\ MonitorOK(a)
    BY <1>2, <1>5 DEF Monitors, Inside, WaitPC
  <2>2. sema[a] = 1
    BY <1>5, <2>1, Zenon DEF MonitorOK
  <2> QED BY <1>5, <2>2 DEF OnTheWay
<1>6. CASE ~(a \in Worker /\ pc[a] = "sleep" /\ notified[a])
  <2>1. wakee[a] \in Seq(Worker)
    BY <1>2 DEF Types, DemandTypes
  <2>2. Len(wakee[a]) > 1 => wakee[a] # <<>>
    BY <2>1
  <2> QED BY <1>4, <1>6, <2>2 DEF Strong, OnTheWay
<1> QED BY <1>5, <1>6

\* "The invariant that holds for sleeping workers", for any number of workers and
\* of threads that ask for them: while there is slack and somebody sleeps on the
\* list, a thread is at wake_some, or waken and going to it.
THEOREM NobodySleepsOver == ASSUME Assumptions, AtomicNotify PROVE Spec => []NobodyOversleeps
<1>1. Base /\ Extra => NobodyOversleeps
  BY ChainFollows
<1> QED BY ChainInvariance, <1>1, PTL
\* The list holds each worker at most once, so that it is no longer than they are.
LEMMA ListIsShort ==
  ASSUME Assumptions, Types, Once
  PROVE  IsInjective(asleep) /\ Range(asleep) \subseteq Worker /\ Len(asleep) <= Cardinality(Worker)
<1>1. PICK n \in Nat : n = Len(asleep) /\ asleep \in [1..n -> Worker] /\ DOMAIN asleep = 1..n
  BY LenProperties DEF Types, ServerTypes
<1>2. IsInjective(asleep)
  BY <1>1 DEF Once, IsInjective
<1>3. asleep \in Injection(1..n, Worker) /\ IsFiniteSet(Worker)
  BY <1>1, <1>2 DEF Injection, Assumptions
<1>4. Cardinality(1..n) <= Cardinality(Worker)
  BY <1>3, FS_Injection
<1>5. Cardinality(1..n) = n
  BY FS_Interval
<1>6. Range(asleep) \subseteq Worker
  BY <1>1 DEF Range
<1> QED BY <1>1, <1>2, <1>4, <1>5, <1>6

\* The slack and the references stay within what the number of workers allows.
LEMMA Bounded == ASSUME Assumptions, Base, Once PROVE TypeOK
<1>1. Types /\ AtHome /\ InHand /\ Owed /\ Alone /\ Quitting /\ Balance /\ Refs
  BY DEF Base, Shape
<1>2. /\ IsFiniteSet(Worker) /\ IsFiniteSet(Client) /\ IsFiniteSet(Actor)
      /\ Client \subseteq Actor /\ Worker \subseteq Actor /\ Actor \ Client \subseteq Worker
  BY Threads, FS_Union DEF Assumptions, Actor
<1>3. PICK n \in Nat, i \in Nat, l \in Nat, q \in Nat, u \in Int, e \in Nat, m \in Int :
          /\ n = Cardinality(Worker) /\ i = Cardinality(Inserting) /\ l = Cardinality(Left)
          /\ q = SumFunction(asked) /\ u = SumFunction(additional) /\ e = Len(asleep)
          /\ m = my_slack
  <2>1. Cardinality(Worker) \in Nat /\ Cardinality(Inserting) \in Nat /\ Cardinality(Left) \in Nat
    BY <1>2, FS_Subset, FS_CardinalityType DEF Inserting, Left
  <2>2. DOMAIN asked = Client /\ DOMAIN additional = Actor
        /\ (\A c \in Client : asked[c] \in Nat) /\ \A a \in Actor : additional[a] \in Nat
    BY <1>1 DEF Types, DemandTypes
  <2>3. SumFunction(asked) \in Nat /\ SumFunction(additional) \in Nat
    BY <1>2, <2>2, SumBound
  <2>4. Len(asleep) \in Nat /\ my_slack \in Int
    BY <1>1, LenProperties DEF Types, ServerTypes
  <2> QED BY <2>1, <2>3, <2>4
<1>4. m + u + n = q + e + i + l /\ q <= n
  BY <1>1, <1>3 DEF Balance
<1>5. /\ IsInjective(asleep) /\ Range(asleep) \subseteq Worker /\ e <= n
  BY <1>1, <1>3, ListIsShort
<1>6. u <= q /\ 0 <= u
  <2>1. /\ DOMAIN asked = Client /\ DOMAIN additional = Actor
        /\ \A c \in Client : asked[c] \in Nat /\ additional[c] \in Nat /\ additional[c] <= asked[c]
        /\ \A a \in Actor : additional[a] \in Nat
        /\ \A a \in Actor \ Client : additional[a] = 0
    BY <1>1, <1>2 DEF Types, DemandTypes, Owed, InHand
  <2>2. SumFunction(additional) <= SumFunction(asked)
    BY <1>2, <2>1, SumAtMost
  <2>3. SumFunction(additional) \in Nat
    BY <1>2, <2>1, SumBound
  <2> QED BY <1>3, <2>2, <2>3
<1>7. i <= n /\ (l = 0 \/ (q = 0 /\ i + l <= n))
  <2>1. i <= n
    BY <1>2, <1>3, FS_Subset DEF Inserting
  <2>2. CASE Left = {}
    BY <1>3, <2>1, <2>2, FS_EmptySet
  <2>3. ASSUME Left # {} PROVE q = 0 /\ i + l <= n
    <3>1. Closing
      BY <1>1, <2>3 DEF Left, Quitting
    <3>2. \A c \in Client : asked[c] = 0
      BY <1>1, <3>1, ClosingIs DEF Alone
    <3>3. SumFunction(asked) = 0
      BY <1>1, <1>2, <3>2, SumZero DEF Types, DemandTypes
    <3>4. /\ IsFiniteSet(Inserting) /\ IsFiniteSet(Left) /\ Inserting \cap Left = {}
          /\ Inserting \cup Left \in SUBSET Worker
      BY <1>2, FS_Subset DEF Inserting, Left
    <3>5. /\ Cardinality(Inserting \cup Left) =
                 Cardinality(Inserting) + Cardinality(Left) - Cardinality(Inserting \cap Left)
          /\ Cardinality(Inserting \cap Left) = 0
      BY <3>4, FS_Union, FS_EmptySet
    <3>6. Cardinality(Inserting \cup Left) <= Cardinality(Worker)
      BY <1>2, <3>4, FS_Subset
    <3> QED BY <1>3, <3>3, <3>5, <3>6
  <2> QED BY <2>1, <2>2, <2>3
<1>8. m \in -n..2 * n
  BY <1>4, <1>5, <1>6, <1>7
<1>9. my_ref_count \in 0..n + 1
  <2>1. Cardinality(Counted) \in Nat /\ Cardinality(Counted) <= n
    BY <1>2, <1>3, FS_Subset, FS_CardinalityType DEF Counted
  <2>2. my_ref_count = Cardinality(Counted) + (IF Shut THEN 0 ELSE 1)
    BY <1>1 DEF Refs
  <2> QED BY <2>1, <2>2
<1>10. \A w \in Worker : my_state[w] \in {"init", "starting", "normal", "quit"} /\ sema[w] \in {0, 1}
  BY <1>1 DEF Types, StateTypes, MonitorTypes
<1> QED BY <1>3, <1>5, <1>8, <1>9, <1>10 DEF TypeOK

\* The counters of the server stay in their ranges and no worker stands twice on
\* the list, for any number of workers and of threads that ask for them.
THEOREM TypeInvariance == ASSUME Assumptions, AtomicNotify PROVE Spec => []TypeOK
<1>1. Base /\ Extra => TypeOK
  BY Bounded DEF Extra, Line
<1> QED BY ChainInvariance, <1>1, PTL
=============================================================================
