----------------------- MODULE SynchronizationProofs -----------------------
(***************************************************************************)
(* What the run of MCSynchronization checks of a component is an instance  *)
(* of what is proved of the component for all constants: here each theorem *)
(* is brought to the specification of the run, in which a behaviour        *)
(* exercises one component.                                                *)
(***************************************************************************)
EXTENDS MCSynchronization, TLAPS

all == <<subject, pc, calls, seen, at, prev, next,
         ofMutex, ofContexts, ofServer, ofMarket, ofDemand, ofLock>>

\* The subject never changes, and only its component takes steps.
LEMMA OneSubject ==
    ASSUME [Next]_all
    PROVE  /\ subject' = subject
           /\ subject = "demand" => Demand!Next \/ UNCHANGED Demand!vars
           /\ subject = "server" => Server!Next \/ UNCHANGED Server!vars
           /\ subject = "chain" => Chain!Next \/ UNCHANGED Chain!vars
           /\ subject = "lock" => Lock!Next \/ UNCHANGED Lock!vars
<1>1. CASE Next
  BY <1>1 DEF Next
<1>2. CASE UNCHANGED all
  <2>1. UNCHANGED Demand!vars
    BY <1>2 DEF all, ofDemand, Demand!vars, Demand!arena, Demand!demand, Demand!work
  <2>2. UNCHANGED Server!vars
    BY <1>2 DEF all, ofServer, Server!vars, Server!server, Server!monitor, Server!waking,
           Server!demand, Server!hist
  <2>3. UNCHANGED Chain!vars
    BY <1>2 DEF all, ofServer, Chain!vars, Chain!server, Chain!monitor, Chain!waking,
           Chain!demand, Chain!hist
  <2>4. UNCHANGED Lock!vars
    BY <1>2 DEF all, ofLock, Lock!vars, Lock!words, Lock!nodes
  <2>5. subject' = subject
    BY <1>2 DEF all
  <2> QED BY <2>1, <2>2, <2>3, <2>4, <2>5
<1> QED BY <1>1, <1>2

(***************************************************************************)
(* The demand of an arena                                                  *)
(***************************************************************************)
DemandInv == subject = "demand" => Demand!IInv

\* The arena without workers has one client in the instance of the run.
LEMMA DemandOneClient == Demand!OneClient
<1>1. ASSUME NEW a \in {[workers |-> 1, clients |-> {c1, c2}],
                        [workers |-> 2, clients |-> {c1, c2}],
                        [workers |-> 0, clients |-> {c1}]},
             a.workers = 0
      PROVE  a.clients = {c1}
  <2>1. CASE a = [workers |-> 1, clients |-> {c1, c2}]
    BY <1>1, <2>1
  <2>2. CASE a = [workers |-> 2, clients |-> {c1, c2}]
    BY <1>1, <2>2
  <2>3. CASE a = [workers |-> 0, clients |-> {c1}]
    BY <2>3
  <2> QED BY <2>1, <2>2, <2>3
<1> QED BY <1>1 DEF Demand!OneClient

LEMMA DemandInvariance == Spec => []DemandInv
<1>1. Init => DemandInv
  <2> SUFFICES ASSUME Init, subject = "demand" PROVE Demand!IInv
    BY DEF DemandInv
  <2>1. Demand!Init
    BY DEF Init
  <2> QED BY <2>1, DemandAssumptions, DemandOneClient, Demand!InitInv
<1>2. DemandInv /\ [Next]_all => DemandInv'
  <2> SUFFICES ASSUME DemandInv, [Next]_all, subject' = "demand" PROVE Demand!IInv'
    BY DEF DemandInv
  <2>1. subject = "demand"
    BY OneSubject
  <2>2. Demand!IInv
    BY <2>1 DEF DemandInv
  <2>3. CASE Demand!Next
    BY <2>2, <2>3, DemandAssumptions, Demand!InvStep
  <2>4. CASE UNCHANGED Demand!vars
    BY <2>2, <2>4, Demand!InvStutter
  <2> QED BY <2>1, <2>3, <2>4, OneSubject
<1> QED BY <1>1, <1>2, PTL DEF Spec, all

\* The market is asked for as many workers as the arenas of the run need.
THEOREM DemandIsBalanced == Spec => []DemandBalanced
<1>1. DemandInv => DemandBalanced
  BY DEF DemandInv, DemandBalanced, Demand!IInv, Demand!Books, Demand!Pending,
         Demand!DemandBalanced
<1> QED BY <1>1, DemandInvariance, PTL

\* No task enqueued in an arena of the run misses its wakeup.
THEOREM NoWakeupIsMissed == Spec => []NoMissedWakeup
<1>1. DemandInv => NoMissedWakeup
  BY DemandAssumptions, Demand!NobodyWaits DEF DemandInv, NoMissedWakeup
<1> QED BY <1>1, DemandInvariance, PTL

(***************************************************************************)
(* The server of worker threads, with two clients and with three workers   *)
(***************************************************************************)
ServerInv == subject = "server" => Server!Base /\ Server!Extra
ChainInv == subject = "chain" => Chain!Base /\ Chain!Extra

\* In both instances of the run a notification is a single step.
LEMMA ServerInvariance == Spec => []ServerInv
<1>1. Init => ServerInv
  <2> SUFFICES ASSUME Init, subject = "server" PROVE Server!Base /\ Server!Extra
    BY DEF ServerInv
  <2>1. Server!Init
    BY DEF Init
  <2> QED BY <2>1, ServerAssumptions, Server!InitBase, Server!InitExtra
<1>2. ServerInv /\ [Next]_all => ServerInv'
  <2> SUFFICES ASSUME ServerInv, [Next]_all, subject' = "server" PROVE (Server!Base /\ Server!Extra)'
    BY DEF ServerInv
  <2>1. subject = "server" /\ (Server!Next \/ UNCHANGED Server!vars)
    BY OneSubject
  <2>2. Server!Base /\ Server!Extra
    BY <2>1 DEF ServerInv
  <2>3. CASE Server!Next
    BY <2>2, <2>3, ServerAssumptions, Server!BaseStep, Server!ExtraStep
  <2>4. CASE UNCHANGED Server!vars
    BY <2>2, <2>4, Server!BaseStutter, Server!ExtraStutter
  <2> QED BY <2>1, <2>3, <2>4
<1> QED BY <1>1, <1>2, PTL DEF Spec, all

\* The same of the instance in which a chain reaction launches a worker.
LEMMA ChainInvariance == Spec => []ChainInv
<1>1. Init => ChainInv
  <2> SUFFICES ASSUME Init, subject = "chain" PROVE Chain!Base /\ Chain!Extra
    BY DEF ChainInv
  <2>1. Chain!Init
    BY DEF Init
  <2> QED BY <2>1, ChainAssumptions, Chain!InitBase, Chain!InitExtra
<1>2. ChainInv /\ [Next]_all => ChainInv'
  <2> SUFFICES ASSUME ChainInv, [Next]_all, subject' = "chain" PROVE (Chain!Base /\ Chain!Extra)'
    BY DEF ChainInv
  <2>1. subject = "chain" /\ (Chain!Next \/ UNCHANGED Chain!vars)
    BY OneSubject
  <2>2. Chain!Base /\ Chain!Extra
    BY <2>1 DEF ChainInv
  <2>3. CASE Chain!Next
    BY <2>2, <2>3, ChainAssumptions, Chain!BaseStep, Chain!ExtraStep
  <2>4. CASE UNCHANGED Chain!vars
    BY <2>2, <2>4, Chain!BaseStutter, Chain!ExtraStutter
  <2> QED BY <2>1, <2>3, <2>4
<1> QED BY <1>1, <1>2, PTL DEF Spec, all

\* No unit of slack is lost or made up in the servers of the run, each goes when
\* all threads have left and been joined or released, and counters stay in range.
THEOREM SlackIsExact == Spec => []SlackExact
<1>1. ServerInv /\ ChainInv => SlackExact
  <2>1. ASSUME ServerInv, subject = "server"
        PROVE  Server!SlackExact /\ Server!ClosedCleanly /\ Server!TypeOK
    BY <2>1, ServerAssumptions, Server!SlackFollows, Server!CloseFollows, Server!Bounded
       DEF ServerInv, Server!Extra, Server!Line
  <2>2. ASSUME ChainInv, subject = "chain"
        PROVE  Chain!SlackExact /\ Chain!ClosedCleanly /\ Chain!TypeOK
    BY <2>2, ChainAssumptions, Chain!SlackFollows, Chain!CloseFollows, Chain!Bounded
       DEF ChainInv, Chain!Extra, Chain!Line
  <2> QED BY <2>1, <2>2 DEF SlackExact
<1> QED BY <1>1, ServerInvariance, ChainInvariance, PTL

\* While there is slack and somebody sleeps in a server of the run, a thread is on
\* its way to the list.
THEOREM NobodySleepsOver == Spec => []NobodyOversleeps
<1>1. ServerInv /\ ChainInv => NobodyOversleeps
  <2>1. ASSUME ServerInv, subject = "server" PROVE Server!NobodyOversleeps
    BY <2>1, ServerAssumptions, Server!ChainFollows DEF ServerInv
  <2>2. ASSUME ChainInv, subject = "chain" PROVE Chain!NobodyOversleeps
    BY <2>2, ChainAssumptions, Chain!ChainFollows DEF ChainInv
  <2> QED BY <2>1, <2>2 DEF NobodyOversleeps
<1> QED BY <1>1, ServerInvariance, ChainInvariance, PTL

(***************************************************************************)
(* The reader_writer_lock                                                  *)
(***************************************************************************)
LockInv == subject = "lock" => Lock!Inv /\ Lock!Live

LEMMA LockInvariance == Spec => []LockInv
<1>1. Init => LockInv
  <2> SUFFICES ASSUME Init, subject = "lock" PROVE Lock!Inv /\ Lock!Live
    BY DEF LockInv
  <2>1. Lock!Init
    BY DEF Init
  <2> QED BY <2>1, LockAssumptions, Lock!InitInv, Lock!InitLive
<1>2. LockInv /\ [Next]_all => LockInv'
  <2> SUFFICES ASSUME LockInv, [Next]_all, subject' = "lock" PROVE (Lock!Inv /\ Lock!Live)'
    BY DEF LockInv
  <2>1. subject = "lock" /\ [Lock!Next]_(Lock!vars)
    BY OneSubject
  <2>2. Lock!Inv /\ Lock!Live
    BY <2>1 DEF LockInv
  <2> QED BY <2>1, <2>2, LockAssumptions, Lock!StepInv, Lock!StepLive
<1> QED BY <1>1, <1>2, PTL DEF Spec, all

\* The writer of the lock of the run is alone and preferred, its nodes are there
\* when they are touched, and somebody can always go on.
THEOREM LockIsSound == Spec => []LockSound
<1>1. LockInv => LockSound
  BY LockAssumptions, Lock!ExclusionFollows, Lock!PreferenceFollows, Lock!NodesFollow,
     Lock!DeadlockFree DEF LockInv, LockSound
<1> QED BY <1>1, LockInvariance, PTL
=============================================================================
