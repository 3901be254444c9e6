--------------------------- MODULE Service_proofs ---------------------------
(***************************************************************************)
(* Theorems about Service: the server in the service is the PipeServer of   *)
(* its own module, and the one way in which a handler loses its state.      *)
(***************************************************************************)
EXTENDS Service, PipeServer_proofs

LEMMA ServiceStep == ServiceNext => [Next]_vars
<1> USE ServiceAssumption
<1>1. SignalStop \/ MainStop => Next
  BY DEF SignalStop, MainStop, Next, Stop
<1>2. Signal \/ SignalServer \/ MainLoop \/ MainShutdown \/ MainReturn => UNCHANGED vars
  BY DEF Signal, SignalServer, MainLoop, MainShutdown, MainReturn
<1>3. (\E s \in Callers : Throw(s)) => Next
  BY DEF Throw, Next, Stop
<1>4. Server => Next
  BY DEF Server, Next
<1> QED
  BY <1>1, <1>2, <1>3, <1>4 DEF ServiceNext

\* Whatever main and the signal handler do, the server in the service does what a server
\* called from two threads may do: all that holds of PipeServer holds of it.
THEOREM ServiceRunsServer == ServiceSpec => Spec
<1>1. ServiceInit => Init
  BY DEF ServiceInit
<1>2. [ServiceNext]_allVars => [Next]_vars
  BY ServiceStep DEF allVars
<1> QED
  BY <1>1, <1>2, PTL DEF ServiceSpec, Spec

\* Types of the server's state in the service.
THEOREM ServiceTypes == ServiceSpec => []TypeOK
BY ServiceRunsServer, TypeCorrect

\* The service works on each connection from one place only.
THEOREM ServiceTokens ==
  ASSUME ~Reuse
  PROVE  ServiceSpec => []OneToken
BY ServiceRunsServer, TokensAreUnique

\* And once Ctrl+C has cleared running_, its threads only go on to their ends.
THEOREM ServiceWindsDown == ServiceSpec => WindsDown
BY ServiceRunsServer, StopsWindDown

\* A Stop of the service that has returned after finding it running leaves no client, read
\* or thread, be it main's or the signal handler's, and whatever the other is doing.
THEOREM ServiceStopsDisconnectAll == ServiceSpec => []StopDisconnectsAll
BY ServiceRunsServer, StopsDisconnectAll

-----------------------------------------------------------------------------
(* How a handler loses its RuntimeState *)

\* Someone has cleared running_; and a Stop of the handler that threw had main's beside it.
Blame ==
  /\ ~running => \E s \in Callers : caller[s] \notin {"outside", "flag", "skipped"}
  /\ caller["signal"] = "threw" => caller["main"] \notin {"outside", "skipped"}

\* main drops the RuntimeState after its own Stop.
Dropped == ~gState => caller["main"] \in {"returned", "skipped"}

SInv == TypeOK /\ StopOrder /\ Joined /\ Blame /\ Dropped

LEMMA StepBlame ==
  ASSUME TypeOK, StopOrder, Blame, [Next]_vars
  PROVE  Blame'
<1>1. CASE UNCHANGED <<running, caller>>
  BY <1>1 DEF Blame
<1>2. ASSUME NEW s \in Callers, Stop(s) PROVE Blame'
  BY <1>2, ServiceAssumption
  DEF TypeOK, StopOrder, Blame, Stop, Stopping, StopCheck, StopFlag, StopPort,
      StopJoinAcceptor, StopJoinWorkers, StopClose, StopThrows, Proceed
<1> QED
  BY <1>1, <1>2
  DEF Next, vars, Acceptor, AcceptorCreate, AcceptorCheck, AcceptorPush, AcceptorRead,
      ClientConnects, ConnectFails, CompleteRead, Worker, WorkerLoop, Dequeue, WorkerWoken,
      Dispatch, Respond, Reset, Restart

LEMMA StepDropped ==
  ASSUME TypeOK, Dropped, [ServiceNext]_allVars
  PROVE  Dropped'
<1>1. CASE MainShutdown
  BY <1>1 DEF MainShutdown, Dropped, vars
<1>2. CASE ~MainShutdown
  <2>1. gState' = gState
    BY <1>2
    DEF allVars, serviceVars, ServiceNext, Signal, SignalServer, SignalStop, MainLoop, MainStop,
        MainReturn, Throw, Server
  <2>2. ASSUME caller["main"] \in {"returned", "skipped"} PROVE caller'["main"] = caller["main"]
    <3>1. CASE UNCHANGED caller
      BY <3>1
    <3>2. ASSUME NEW s \in Callers, Stop(s) PROVE caller'["main"] = caller["main"]
      BY <2>2, <3>2, ServiceAssumption
      DEF TypeOK, Stop, Stopping, StopCheck, StopFlag, StopPort, StopJoinAcceptor,
          StopJoinWorkers, StopClose, StopThrows, Proceed
    <3>3. CASE UNCHANGED vars
      BY <3>1, <3>3 DEF vars
    <3>4. CASE Next
      BY <3>1, <3>2, <3>4
      DEF Next, Acceptor, AcceptorCreate, AcceptorCheck, AcceptorPush, AcceptorRead,
          ClientConnects, ConnectFails, CompleteRead, Worker, WorkerLoop, Dequeue, WorkerWoken,
          Dispatch, Respond, Reset, Restart
    <3> QED
      BY <3>3, <3>4, ServiceStep DEF allVars
  <2> QED
    BY <2>1, <2>2 DEF Dropped
<1> QED
  BY <1>1, <1>2

\* main takes the RuntimeState away from a handler at work in one case only, with any number
\* of workers and clients: main's Stop has found the handler's Stop before it, and has not
\* waited for the threads that this one still joins.
THEOREM StatesAreLostBehindStop == ServiceSpec => []StateLostOnlyBehindStop
<1>1. ServiceInit => SInv
  <2>1. ServiceInit => TypeOK /\ Init /\ gState
    BY InitTypes DEF ServiceInit
  <2>2. Init => StopOrder /\ Joined /\ Blame
    BY ServiceAssumption DEF Init, StopOrder, Joined, Blame
  <2> QED
    BY <2>1, <2>2 DEF SInv, Dropped
<1>2. SInv /\ [ServiceNext]_allVars => SInv'
  <2> SUFFICES ASSUME SInv, [ServiceNext]_allVars PROVE SInv'
    OBVIOUS
  <2>1. [Next]_vars
    BY ServiceStep DEF allVars
  <2> QED
    BY <2>1, StepTypes, StepStopOrder, StepJoined, StepBlame, StepDropped DEF SInv
<1>3. SInv => StateLostOnlyBehindStop
  <2> SUFFICES ASSUME SInv, NEW w \in Workers, worker[w].at = "handle", ~gState
               PROVE  /\ caller["main"] = "skipped"
                      /\ caller["signal"] \in {"port", "joinAcceptor", "joinWorkers"}
    BY DEF StateLostOnlyBehindStop
  <2>1. \A s \in Callers : caller[s] \notin {"close", "returned"}
    BY DEF SInv, Joined
  <2>2. caller["main"] = "skipped"
    BY <2>1, ServiceAssumption DEF SInv, Dropped
  <2>3. ~running
    BY <2>2, ServiceAssumption DEF SInv, StopOrder
  <2>4. caller["signal"] \notin {"outside", "flag", "skipped", "threw"}
    BY <2>2, <2>3, ServiceAssumption DEF SInv, Blame
  <2> QED
    BY <2>1, <2>2, <2>4, ServiceAssumption DEF SInv, TypeOK
<1> QED
  BY <1>1, <1>2, <1>3, PTL DEF ServiceSpec

=============================================================================
