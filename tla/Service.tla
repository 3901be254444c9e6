------------------------------ MODULE Service ------------------------------
(***************************************************************************)
(* The service process (runtime/service/main.cpp): main and the signal     *)
(* handler around the pipe server, whose workers call handle_message, which *)
(* calls the RuntimeState that g_runtime_state points to.                  *)
(*                                                                         *)
(* The states are those after "Service ready!". Windows runs a SIGINT       *)
(* handler on a thread of its own, and only for the first SIGINT. main     *)
(* does not wait for it: both may be in Stop.                              *)
(***************************************************************************)
EXTENDS PipeServer

ASSUME ServiceAssumption == Callers = {"main", "signal"}

VARIABLES
  gRunning,   \* g_running
  handler,    \* signal_handler: not called, g_running cleared, in Stop, no server to stop
  gState,     \* g_runtime_state # nullptr, and runtime_state has not been shut down
  mainAt      \* the next step of main, or how the process has ended

serviceVars == <<gRunning, handler, gState, mainAt>>
allVars == <<vars, serviceVars>>

ServiceInit ==
  Init /\ gRunning = TRUE /\ handler = "none" /\ gState = TRUE /\ mainAt = "loop"

Alive == mainAt \notin {"exited", "aborted"}

Signal ==
  /\ handler = "none"
  /\ gRunning' = FALSE
  /\ handler' = "raised"
  /\ UNCHANGED <<vars, gState, mainAt>>

\* g_server is not null until main's own Stop has returned.
SignalServer ==
  /\ handler = "raised"
  /\ handler' = IF mainAt \in {"loop", "stop"} THEN "stop" ELSE "done"
  /\ UNCHANGED <<vars, gRunning, gState, mainAt>>

SignalStop ==
  /\ handler = "stop"
  /\ StopCheck("signal") \/ Stopping("signal")
  /\ UNCHANGED serviceVars

\* main sleeps for a second, and looks at g_running.
MainLoop ==
  /\ mainAt = "loop"
  /\ ~gRunning
  /\ mainAt' = "stop"
  /\ UNCHANGED <<vars, gRunning, handler, gState>>

MainStop ==
  /\ mainAt = "stop"
  /\ StopCheck("main") \/ Stopping("main")
  /\ UNCHANGED serviceVars

\* g_server is cleared, then runtime_state.Shutdown(), and g_runtime_state is cleared.
MainShutdown ==
  /\ mainAt = "stop" /\ caller["main"] \in {"returned", "skipped"}
  /\ gState' = FALSE
  /\ mainAt' = "return"
  /\ UNCHANGED <<vars, gRunning, handler>>

\* The destructor of server calls Stop, which returns at once, and destroys the std::threads:
\* std::terminate, if no Stop has joined them yet.
MainReturn ==
  /\ mainAt = "return"
  /\ mainAt' = IF \E s \in Callers : caller[s] \in {"close", "returned"}
               THEN "exited" ELSE "aborted"
  /\ UNCHANGED <<vars, gRunning, handler, gState>>

\* An exception that leaves main, or a signal handler: std::terminate.
Throw(s) ==
  /\ StopThrows(s)
  /\ mainAt' = "aborted"
  /\ UNCHANGED <<gRunning, handler, gState>>

\* The threads of the server, and its clients
Server ==
  /\ \/ Acceptor \/ ClientConnects \/ ConnectFails
     \/ \E c \in Conns : CompleteRead(c)
     \/ \E w \in Workers : Worker(w)
  /\ UNCHANGED serviceVars

ServiceNext ==
  /\ Alive
  /\ \/ Signal \/ SignalServer \/ SignalStop
     \/ MainLoop \/ MainStop \/ MainShutdown \/ MainReturn
     \/ \E s \in Callers : Throw(s)
     \/ Server

ServiceSpec == ServiceInit /\ [][ServiceNext]_allVars

\* The threads run, as in PipeServer's FairSpec, and clients keep connecting. Whether main
\* goes on, and so ends the process, is left open.
BusyServiceSpec ==
  /\ ServiceSpec
  /\ WF_allVars(Alive /\ Acceptor /\ UNCHANGED serviceVars)
  /\ \A w \in Workers : WF_allVars(Alive /\ Worker(w) /\ UNCHANGED serviceVars)
  /\ WF_allVars(Alive /\ ClientConnects /\ UNCHANGED serviceVars)
  /\ WF_allVars(Alive /\ SignalStop) /\ WF_allVars(Alive /\ MainStop)

-----------------------------------------------------------------------------
(* Properties *)

\* The end of every Stop that has found the server running, if clients keep connecting: all
\* its threads come to their ends, from the middle of any request and at the limit of pipe
\* instances, and the Stop with them; or the process has ended under it.
StopEnds == \A s \in Callers : caller[s] = "flag" ~> caller[s] = "returned" \/ ~Alive

\* A handler at work has a RuntimeState: main drops it only when no worker is, or will
\* be, in handle_message.
HandlersHaveState == \A w \in Workers : worker[w].at = "handle" => gState

\* When it does not, there is one reason: the signal handler is in Stop, waiting for the
\* threads, and main's own Stop has returned before it has joined them.
StateLostOnlyBehindStop ==
  (\E w \in Workers : worker[w].at = "handle" /\ ~gState) =>
    /\ caller["main"] = "skipped"
    /\ caller["signal"] \in {"port", "joinAcceptor", "joinWorkers"}

=============================================================================
