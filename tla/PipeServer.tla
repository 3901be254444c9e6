----------------------------- MODULE PipeServer -----------------------------
(***************************************************************************)
(* NamedPipeServerImpl (runtime/service/named_pipe_server_win32.cpp): one  *)
(* acceptor thread, a pool of workers on one I/O completion port, and Stop *)
(* on whatever thread calls it.                                            *)
(*                                                                         *)
(* A connection is the address of a ClientConnection. clients_ and, while  *)
(* they run, the acceptor and StartRead hold shared_ptrs to it; the port's *)
(* completion key and the workers hold the bare address. An address whose  *)
(* owners are gone is released: the heap may hand it out again, and what   *)
(* is read through it is arbitrary.                                        *)
(*                                                                         *)
(* What a client sends is abstracted to the outcome of a read: the bytes   *)
(* asked for, bad ones (fewer, or a length over BUFFER_SIZE), or no byte   *)
(* at all (a closed pipe; also a message of length 0).                     *)
(***************************************************************************)
EXTENDS Naturals, FiniteSets, Sequences

CONSTANTS
  Workers,       \* the worker threads
  Callers,       \* threads that call Stop
  Conns,         \* addresses of ClientConnection objects
  MaxClients,    \* MAX_CLIENTS: pipe instances the system allows
  MaxConnects,   \* bound on the connections made while the server is running
  Reuse,         \* TRUE: the heap hands out the address of a connection that a worker has
                 \*   released and still goes on with; FALSE: other released ones only
  None           \* no connection

ASSUME ServerAssumption ==
  /\ None \notin Conns
  /\ MaxClients \in Nat \ {0} /\ MaxConnects \in Nat /\ Reuse \in BOOLEAN
  /\ IsFiniteSet(Conns) /\ IsFiniteSet(Workers)

VARIABLES
  running,     \* running_
  portOpen,    \* completion_port_ # NULL
  clients,     \* clients_
  conn,        \* per address: active, reading ("length" or "body"), ported
  pending,     \* connections with a read in progress
  queue,       \* completion packets: connection and outcome
  acceptor,    \* the acceptor thread: its next step and its `client`
  worker,      \* per worker: next step, completion_key, outcome
  caller,      \* per caller of Stop: next step
  connects,    \* connections made so far
  leaked       \* pipe instances that nothing will close

connVars == <<clients, conn, pending, queue, leaked>>
vars == <<running, portOpen, connVars, acceptor, worker, caller, connects>>

Outcomes == {"data", "bad", "nothing"}

Init ==
  /\ running = TRUE
  /\ portOpen = TRUE
  /\ clients = {} /\ pending = {} /\ queue = <<>> /\ leaked = 0
  /\ conn = [c \in Conns |-> [active |-> FALSE, reading |-> "length", ported |-> FALSE]]
  /\ acceptor = [at |-> "create", client |-> None]
  /\ worker = [w \in Workers |-> [at |-> "loop", client |-> None, outcome |-> "nothing"]]
  /\ caller = [s \in Callers |-> "outside"]
  /\ connects = 0

\* Addresses that a new ClientConnection may get.
Available(c) ==
  /\ c \notin clients /\ acceptor.client # c
  /\ Reuse \/ \A w \in Workers : worker[w].client # c

\* Pipe instances that exist: one per connection, the one the acceptor is about to
\* hand to a connection, and the leaked ones.
Instances ==
  Cardinality(clients) + leaked
    + (IF acceptor.at \in {"connect", "check", "push"} THEN 1 ELSE 0)

-----------------------------------------------------------------------------
(* HandleDisconnect and StartRead, called by the acceptor and the workers. *)

\* Erases the connection, which releases it unless someone else shares it, and
\* then closes the handle it reads from it: of a released object, whatever the
\* memory holds by then.
HandleDisconnect(c, shared) ==
  IF ~conn[c].active
  THEN UNCHANGED <<clients, conn, leaked>>
  ELSE /\ conn' = [conn EXCEPT ![c].active = FALSE]
       /\ clients' = clients \ {c}
       /\ leaked' \in IF shared \/ acceptor.client = c THEN {leaked} ELSE {leaked, leaked + 1}

\* The caller holds a shared_ptr. ReadFile fails when the client has gone.
StartRead(c) ==
  IF ~conn[c].active
  THEN UNCHANGED <<clients, conn, pending, leaked>>
  ELSE \/ pending' = pending \cup {c} /\ UNCHANGED <<clients, conn, leaked>>
       \/ HandleDisconnect(c, TRUE) /\ UNCHANGED pending

-----------------------------------------------------------------------------
(* AcceptorThreadProc *)

\* Mutated form: running_ is not read again before the next pipe is made.
AcceptorCreateAlways ==
  /\ acceptor.at = "create"
  /\ acceptor' = [acceptor EXCEPT !.at = IF Instances < MaxClients THEN "connect" ELSE "create"]
  /\ UNCHANGED <<running, portOpen, connVars, worker, caller, connects>>

\* CreateNamedPipe fails when MAX_CLIENTS instances exist; the thread sleeps and
\* tries again.
AcceptorCreate ==
  /\ acceptor.at = "create"
  /\ acceptor' = [acceptor EXCEPT !.at =
                    IF ~running THEN "ended"
                    ELSE IF Instances < MaxClients THEN "connect" ELSE "create"]
  /\ UNCHANGED <<running, portOpen, connVars, worker, caller, connects>>

\* ConnectNamedPipe, or the event it sets. The wait has no timeout, and Stop does not end it.
ClientConnects ==
  /\ acceptor.at = "connect"
  /\ running => connects < MaxConnects
  /\ connects' = IF running THEN connects + 1 ELSE connects
  /\ acceptor' = [acceptor EXCEPT !.at = "check"]
  /\ UNCHANGED <<running, portOpen, connVars, worker, caller>>

\* Neither pending nor connected: a client that went away at once, or a failed wait. The
\* pipe instance is closed.
ConnectFails ==
  /\ acceptor.at = "connect"
  /\ acceptor' = [acceptor EXCEPT !.at = "create"]
  /\ UNCHANGED <<running, portOpen, connVars, worker, caller, connects>>

\* A new ClientConnection, bound to the completion port; completion_port_ may have
\* become NULL since running_ was read, and then to a port nobody waits on.
AcceptorCheck ==
  /\ acceptor.at = "check"
  /\ IF ~running
     THEN acceptor' = [acceptor EXCEPT !.at = "create"] /\ UNCHANGED conn
     ELSE \E c \in {d \in Conns : Available(d)}, bound \in BOOLEAN :
            /\ bound => portOpen
            /\ acceptor' = [at |-> "push", client |-> c]
            /\ conn' = [conn EXCEPT ![c] = [active |-> TRUE, reading |-> "length",
                                            ported |-> bound]]
  /\ UNCHANGED <<running, portOpen, clients, pending, queue, leaked, worker, caller, connects>>

AcceptorPush ==
  /\ acceptor.at = "push"
  /\ clients' = clients \cup {acceptor.client}
  /\ acceptor' = [acceptor EXCEPT !.at = "read"]
  /\ UNCHANGED <<running, portOpen, conn, pending, queue, leaked, worker, caller, connects>>

AcceptorRead ==
  /\ acceptor.at = "read"
  /\ StartRead(acceptor.client)
  /\ acceptor' = [at |-> "create", client |-> None]
  /\ UNCHANGED <<running, portOpen, queue, worker, caller, connects>>

Acceptor == AcceptorCreate \/ AcceptorCheck \/ AcceptorPush \/ AcceptorRead

-----------------------------------------------------------------------------
(* A client sends, or goes away: the read completes.                       *)

CompleteRead(c) ==
  /\ c \in pending
  /\ pending' = pending \ {c}
  /\ IF conn[c].ported /\ portOpen
     THEN \E o \in Outcomes : queue' = Append(queue, [client |-> c, outcome |-> o])
     ELSE UNCHANGED queue
  /\ UNCHANGED <<running, portOpen, clients, conn, leaked, acceptor, worker, caller, connects>>

-----------------------------------------------------------------------------
(* WorkerThreadProc *)

Move(w, step) == worker' = [worker EXCEPT ![w].at = step]

Leave(w, step) ==
  worker' = [worker EXCEPT ![w] = [at |-> step, client |-> None, outcome |-> "nothing"]]

WorkerLoop(w) ==
  /\ worker[w].at = "loop"
  /\ Move(w, IF running THEN "wait" ELSE "ended")
  /\ UNCHANGED <<running, portOpen, connVars, acceptor, caller, connects>>

\* GetQueuedCompletionStatus returns a packet, or fails once the port is closed.
Dequeue(w) ==
  /\ worker[w].at = "wait"
  /\ portOpen /\ queue # <<>>
  /\ worker' = [worker EXCEPT ![w] = [at |-> "dispatch", client |-> Head(queue).client,
                                      outcome |-> Head(queue).outcome]]
  /\ queue' = Tail(queue)
  /\ UNCHANGED <<running, portOpen, clients, conn, pending, leaked, acceptor, caller, connects>>

\* Mutated form: no test of completion_key for NULL, nor of running_ before it.
WokenWithoutKey(w) ==
  /\ worker[w].at = "wait"
  /\ ~portOpen
  /\ Move(w, "dispatch")
  /\ UNCHANGED <<running, portOpen, connVars, acceptor, caller, connects>>

WorkerWoken(w) ==
  /\ worker[w].at = "wait"
  /\ ~portOpen
  /\ Leave(w, "ended")
  /\ UNCHANGED <<running, portOpen, connVars, acceptor, caller, connects>>

\* HandleReadCompletion up to the message handler.
Dispatch(w) ==
  LET c == worker[w].client
      o == worker[w].outcome
  IN
  /\ worker[w].at = "dispatch"
  /\ \/ ~running /\ Leave(w, "ended") /\ UNCHANGED <<clients, conn, leaked>>
     \/ /\ running
        /\ o # "nothing" /\ ~conn[c].active
        /\ Leave(w, "loop")
        /\ UNCHANGED <<clients, conn, leaked>>
     \/ /\ running
        /\ o = "nothing" \/ (conn[c].active /\ o = "bad")
        /\ HandleDisconnect(c, FALSE)
        /\ Leave(w, "loop")
     \/ /\ running /\ o = "data" /\ conn[c].active /\ conn[c].reading = "length"
        /\ conn' = [conn EXCEPT ![c].reading = "body"]
        /\ Move(w, "restart")
        /\ UNCHANGED <<clients, leaked>>
     \/ /\ running /\ o = "data" /\ conn[c].active /\ conn[c].reading = "body"
        /\ Move(w, "handle")
        /\ UNCHANGED <<clients, conn, leaked>>
  /\ UNCHANGED <<running, portOpen, pending, queue, acceptor, caller, connects>>

\* Mutated form: the next read is started before the response is written.
ReadBeforeResponse(w) ==
  /\ worker[w].at = "handle"
  /\ pending' = pending \cup {worker[w].client}
  /\ Move(w, "reset")
  /\ UNCHANGED <<running, portOpen, clients, conn, queue, leaked, acceptor, caller, connects>>

\* message_handler_ returns; SendResponse writes, or finds the client gone.
Respond(w) ==
  /\ worker[w].at = "handle"
  /\ \/ UNCHANGED <<clients, conn, leaked>>
     \/ HandleDisconnect(worker[w].client, FALSE)
  /\ Move(w, "reset")
  /\ UNCHANGED <<running, portOpen, pending, queue, acceptor, caller, connects>>

\* Written through the bare address also when SendResponse has released it.
Reset(w) ==
  /\ worker[w].at = "reset"
  /\ conn' = [conn EXCEPT ![worker[w].client].reading = "length"]
  /\ Move(w, "restart")
  /\ UNCHANGED <<running, portOpen, clients, pending, queue, leaked, acceptor, caller, connects>>

\* FindClient by address, then StartRead.
Restart(w) ==
  /\ worker[w].at = "restart"
  /\ IF worker[w].client \in clients
     THEN StartRead(worker[w].client)
     ELSE UNCHANGED <<clients, conn, pending, leaked>>
  /\ Leave(w, "loop")
  /\ UNCHANGED <<running, portOpen, queue, acceptor, caller, connects>>

Worker(w) ==
  \/ WorkerLoop(w) \/ Dequeue(w) \/ WorkerWoken(w)
  \/ Dispatch(w) \/ Respond(w) \/ Reset(w) \/ Restart(w)

-----------------------------------------------------------------------------
(* Stop *)

Proceed(s, step) == caller' = [caller EXCEPT ![s] = step]

\* A Stop that finds running_ cleared returns at once, however far the other has come.
StopCheck(s) ==
  /\ caller[s] = "outside"
  /\ Proceed(s, IF running THEN "flag" ELSE "skipped")
  /\ UNCHANGED <<running, portOpen, connVars, acceptor, worker, connects>>

StopFlag(s) ==
  /\ caller[s] = "flag"
  /\ running' = FALSE
  /\ Proceed(s, "port")
  /\ UNCHANGED <<portOpen, connVars, acceptor, worker, connects>>

\* Mutated form: the completion port stays open.
StopKeepsPort(s) ==
  /\ caller[s] = "port"
  /\ Proceed(s, "joinAcceptor")
  /\ UNCHANGED <<running, portOpen, connVars, acceptor, worker, connects>>

StopPort(s) ==
  /\ caller[s] = "port"
  /\ portOpen' = FALSE
  /\ queue' = <<>>
  /\ Proceed(s, "joinAcceptor")
  /\ UNCHANGED <<running, clients, conn, pending, leaked, acceptor, worker, connects>>

\* Mutated form: the acceptor is detached, not joined.
StopDetachAcceptor(s) ==
  /\ caller[s] = "joinAcceptor"
  /\ Proceed(s, "joinWorkers")
  /\ UNCHANGED <<running, portOpen, connVars, acceptor, worker, connects>>

StopJoinAcceptor(s) ==
  /\ caller[s] = "joinAcceptor"
  /\ acceptor.at = "ended"
  /\ Proceed(s, "joinWorkers")
  /\ UNCHANGED <<running, portOpen, connVars, acceptor, worker, connects>>

\* Mutated form: the workers are detached.
StopDetachWorkers(s) ==
  /\ caller[s] = "joinWorkers"
  /\ Proceed(s, "close")
  /\ UNCHANGED <<running, portOpen, connVars, acceptor, worker, connects>>

StopJoinWorkers(s) ==
  /\ caller[s] = "joinWorkers"
  /\ \A w \in Workers : worker[w].at = "ended"
  /\ Proceed(s, "close")
  /\ UNCHANGED <<running, portOpen, connVars, acceptor, worker, connects>>

StopClose(s) ==
  /\ caller[s] = "close"
  /\ clients' = {}
  /\ pending' = {}
  /\ Proceed(s, "returned")
  /\ UNCHANGED <<running, portOpen, conn, queue, leaked, acceptor, worker, connects>>

Stopping(s) ==
  \/ StopFlag(s) \/ StopPort(s) \/ StopJoinAcceptor(s)
  \/ StopJoinWorkers(s) \/ StopClose(s)

\* Two Stops that have both passed the test join the same std::threads. That is undefined:
\* both may get through, or the later one throws.
StopThrows(s) ==
  /\ \/ caller[s] = "joinAcceptor" /\ acceptor.at = "ended"
     \/ caller[s] = "joinWorkers" /\ \E w \in Workers : worker[w].at = "ended"
  /\ \E r \in Callers \ {s} :
       caller[r] \in {"joinAcceptor", "joinWorkers", "close", "returned"}
  /\ Proceed(s, "threw")
  /\ UNCHANGED <<running, portOpen, connVars, acceptor, worker, connects>>

Stop(s) == StopCheck(s) \/ Stopping(s) \/ StopThrows(s)

-----------------------------------------------------------------------------
Next ==
  \/ Acceptor \/ ClientConnects \/ ConnectFails
  \/ \E c \in Conns : CompleteRead(c)
  \/ \E w \in Workers : Worker(w)
  \/ \E s \in Callers : Stop(s)

Spec == Init /\ [][Next]_vars

\* The threads run. Respond is among the workers' steps: WriteFile waits for a client that
\* does not read its response, so this also says that clients do. It does not say that
\* clients come.
FairSpec ==
  /\ Spec
  /\ WF_vars(Acceptor)
  /\ \A w \in Workers : WF_vars(Worker(w))
  /\ \A s \in Callers : WF_vars(Stopping(s))

-----------------------------------------------------------------------------
(* Properties *)

\* What each variable holds. A woken worker or an idle acceptor holds no connection, a busy one holds one.
TypeOK ==
  /\ running \in BOOLEAN /\ portOpen \in BOOLEAN
  /\ clients \subseteq Conns /\ pending \subseteq Conns
  /\ conn \in [Conns -> [active : BOOLEAN, reading : {"length", "body"}, ported : BOOLEAN]]
  /\ queue \in Seq([client : Conns, outcome : Outcomes])
  /\ acceptor \in [at : {"create", "connect", "check", "ended"}, client : {None}]
                  \cup [at : {"push", "read"}, client : Conns]
  /\ worker \in [Workers ->
        [at : {"loop", "wait", "ended"}, client : {None}, outcome : {"nothing"}]
          \cup [at : {"dispatch", "handle", "reset", "restart"}, client : Conns,
                outcome : Outcomes]]
  /\ caller \in [Callers -> {"outside", "flag", "port", "joinAcceptor", "joinWorkers", "close",
                             "returned", "skipped", "threw"}]
  /\ connects \in 0..MaxConnects
  /\ leaked \in Nat

\* What may go on to read or write through a connection: the read in progress, a
\* packet on the port, a worker, the acceptor before its first StartRead.
Tokens(c) ==
  {<<"read", c>> : x \in pending \cap {c}}
    \cup {<<"packet", k>> : k \in {j \in DOMAIN queue : queue[j].client = c}}
    \cup {<<"worker", w>> : w \in {v \in Workers : worker[v].client = c}}
    \cup {<<"acceptor", c>> : x \in {acceptor.client} \cap {c}}

\* Several workers take packets off one port, ClientConnection has no lock, and its
\* read_buffer, reading_length and write_buffer are shared by whoever works on it.
\* It is safe only because there is one token per connection: a read is started
\* once the last one is dealt with and its response is written. Requests of a
\* client are then answered one at a time, in order. And until Stop no connection
\* is forgotten: a client in the list has its token.
OneToken ==
  \A c \in Conns :
    /\ \A t, u \in Tokens(c) : t = u
    /\ (running /\ c \in clients /\ conn[c].ported) => Tokens(c) # {}

\* "Stop server and disconnect all clients": when a Stop that has found the server running
\* has returned, no connection is left, no read is in progress and no thread of the server
\* will touch one, whatever another Stop, the clients and the threads did meanwhile.
StopDisconnectsAll ==
  (\E s \in Callers : caller[s] = "returned") =>
    /\ clients = {} /\ pending = {}
    /\ acceptor.at = "ended"
    /\ \A w \in Workers : worker[w].at = "ended"

\* How many steps a thread of the server takes at most once running_ is FALSE.
StepsLeft ==
  [ended |-> 0, loop |-> 1, dispatch |-> 1, wait |-> 2, restart |-> 2, reset |-> 3,
   handle |-> 4, create |-> 1, check |-> 2, read |-> 2, connect |-> 3, push |-> 3]

\* Once Stop has cleared running_, no thread of the server begins anything new: wherever it
\* is, with whatever packets are on the port, each of its steps brings it nearer to its end,
\* and no step of another thread takes it back. Stop waits for finitely many steps, none of
\* them its own.
WindsDown ==
  [][~running =>
       /\ ~running'
       /\ \A w \in Workers :
            worker'[w] # worker[w] => StepsLeft[worker'[w].at] < StepsLeft[worker[w].at]
       /\ acceptor' # acceptor => StepsLeft[acceptor'.at] < StepsLeft[acceptor.at]]_vars

\* Stop comes to an end: the threads it joins leave their loops.
StopReturns == \A s \in Callers : caller[s] = "flag" ~> caller[s] = "returned"

\* "Proper error handling and cleanup": the pipe instance of a client that went
\* away is closed, and counts no longer against MAX_CLIENTS.
InstancesClosed == leaked = 0

=============================================================================
