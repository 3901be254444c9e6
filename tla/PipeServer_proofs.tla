-------------------------- MODULE PipeServer_proofs --------------------------
(***************************************************************************)
(* Theorems about PipeServer, for any number of workers, connections, pipe *)
(* instances and callers of Stop.                                          *)
(***************************************************************************)
EXTENDS PipeServer, SequenceTheorems, TLAPS

LEMMA PacketTypes ==
  ASSUME TypeOK, NEW k \in DOMAIN queue
  PROVE  queue[k] \in [client : Conns, outcome : Outcomes]
<1> DEFINE Packets == [client : Conns, outcome : Outcomes]
<1>1. queue \in Seq(Packets)
  BY DEF TypeOK
<1> HIDE DEF Packets
<1>2. k \in 1..Len(queue)
  BY <1>1, LenProperties
<1>3. queue[k] \in Packets
  BY <1>1, <1>2, ElementOfSeq
<1> QED
  BY <1>3 DEF Packets

-----------------------------------------------------------------------------
(* Types *)

LEMMA InitTypes == Init => TypeOK
BY ServerAssumption, EmptySeq DEF Init, TypeOK

\* What both do to the types of the variables that they change.
LEMMA DisconnectTypes ==
  ASSUME TypeOK, NEW c \in Conns, NEW shared, HandleDisconnect(c, shared)
  PROVE  /\ clients' \subseteq Conns /\ leaked' \in Nat
         /\ conn' \in [Conns -> [active : BOOLEAN, reading : {"length", "body"}, ported : BOOLEAN]]
<1>1. CASE ~conn[c].active
  BY <1>1 DEF TypeOK, HandleDisconnect
<1>2. CASE conn[c].active
  <2>1. /\ clients' = clients \ {c} /\ leaked' \in {leaked, leaked + 1}
        /\ conn' = [conn EXCEPT ![c] = [@ EXCEPT !.active = FALSE]]
    BY <1>2 DEF HandleDisconnect
  <2>2. conn[c] \in [active : BOOLEAN, reading : {"length", "body"}, ported : BOOLEAN]
    BY DEF TypeOK
  <2>3. [conn[c] EXCEPT !.active = FALSE]
          \in [active : BOOLEAN, reading : {"length", "body"}, ported : BOOLEAN]
    BY <2>2
  <2> QED
    BY <2>1, <2>3 DEF TypeOK
<1> QED
  BY <1>1, <1>2

LEMMA ReadTypes ==
  ASSUME TypeOK, NEW c \in Conns, StartRead(c)
  PROVE  /\ clients' \subseteq Conns /\ pending' \subseteq Conns /\ leaked' \in Nat
         /\ conn' \in [Conns -> [active : BOOLEAN, reading : {"length", "body"}, ported : BOOLEAN]]
<1>1. CASE HandleDisconnect(c, TRUE) /\ UNCHANGED pending
  BY <1>1, DisconnectTypes DEF TypeOK
<1>2. CASE ~HandleDisconnect(c, TRUE)
  BY <1>2 DEF TypeOK, StartRead
<1> QED
  BY <1>1, <1>2 DEF StartRead, TypeOK

LEMMA AcceptorTypes == TypeOK /\ (Acceptor \/ ClientConnects \/ ConnectFails) => TypeOK'
<1> SUFFICES ASSUME TypeOK, Acceptor \/ ClientConnects \/ ConnectFails PROVE TypeOK'
  OBVIOUS
<1> USE ServerAssumption DEF connVars
<1>1. CASE AcceptorCreate
  BY <1>1 DEF TypeOK, AcceptorCreate
<1>2. CASE ClientConnects \/ ConnectFails
  BY <1>2 DEF TypeOK, ClientConnects, ConnectFails
<1>3. CASE AcceptorCheck
  <2>1. CASE ~running
    <3>1. acceptor'.at = "create" /\ acceptor' = [at |-> "create", client |-> None]
      BY <1>3, <2>1 DEF TypeOK, AcceptorCheck
    <3> QED
      BY <1>3, <2>1, <3>1 DEF TypeOK, AcceptorCheck
  <2>2. CASE running
    <3>1. PICK c \in Conns, bound \in BOOLEAN :
            /\ acceptor' = [at |-> "push", client |-> c]
            /\ conn' = [conn EXCEPT ![c] = [active |-> TRUE, reading |-> "length",
                                            ported |-> bound]]
      BY <1>3, <2>2 DEF AcceptorCheck
    <3> QED
      BY <1>3, <3>1 DEF TypeOK, AcceptorCheck
  <2> QED
    BY <2>1, <2>2
<1>4. CASE AcceptorPush
  BY <1>4 DEF TypeOK, AcceptorPush
<1>5. CASE AcceptorRead
  <2>1. acceptor.client \in Conns
    BY <1>5 DEF TypeOK, AcceptorRead
  <2> QED
    BY <1>5, <2>1, ReadTypes DEF TypeOK, AcceptorRead
<1> QED
  BY <1>1, <1>2, <1>3, <1>4, <1>5 DEF Acceptor

LEMMA CompletionTypes == ASSUME TypeOK, NEW c \in Conns, CompleteRead(c) PROVE TypeOK'
<1>1. \A o \in Outcomes : Append(queue, [client |-> c, outcome |-> o])
                            \in Seq([client : Conns, outcome : Outcomes])
  BY AppendProperties DEF TypeOK
<1>2. queue' \in Seq([client : Conns, outcome : Outcomes])
  <2>1. queue' = queue \/ \E o \in Outcomes : queue' = Append(queue, [client |-> c, outcome |-> o])
    BY DEF CompleteRead
  <2> QED
    BY <1>1, <2>1 DEF TypeOK
<1> QED
  BY <1>2 DEF TypeOK, CompleteRead

LEMMA WorkerTypes == ASSUME TypeOK, NEW w \in Workers, Worker(w) PROVE TypeOK'
<1> USE DEF connVars, Move, Leave
<1>1. CASE WorkerLoop(w)
  BY <1>1 DEF TypeOK, WorkerLoop
<1>2. CASE Dequeue(w)
  <2>1. /\ Head(queue) \in [client : Conns, outcome : Outcomes]
        /\ Tail(queue) \in Seq([client : Conns, outcome : Outcomes])
    BY <1>2, HeadTailProperties DEF TypeOK, Dequeue
  <2> QED
    BY <1>2, <2>1 DEF TypeOK, Dequeue
<1>3. CASE WorkerWoken(w)
  BY <1>3 DEF TypeOK, WorkerWoken
<1>4. ASSUME worker[w].at \in {"dispatch", "handle", "reset", "restart"}
      PROVE  worker[w].client \in Conns
  BY <1>4 DEF TypeOK
<1>5. CASE Dispatch(w)
  <2>1. /\ clients' \subseteq Conns /\ leaked' \in Nat
        /\ conn' \in [Conns -> [active : BOOLEAN, reading : {"length", "body"}, ported : BOOLEAN]]
    <3> DEFINE c == worker[w].client
    <3>1. c \in Conns
      BY <1>4, <1>5 DEF Dispatch
    <3>2. CASE UNCHANGED <<clients, conn, leaked>>
      BY <3>2 DEF TypeOK
    <3>3. CASE HandleDisconnect(c, FALSE)
      BY <3>1, <3>3, DisconnectTypes
    <3>4. CASE conn' = [conn EXCEPT ![c].reading = "body"] /\ UNCHANGED <<clients, leaked>>
      <4>1. [conn[c] EXCEPT !.reading = "body"]
              \in [active : BOOLEAN, reading : {"length", "body"}, ported : BOOLEAN]
        BY <3>1 DEF TypeOK
      <4> QED
        BY <3>4, <4>1 DEF TypeOK
    <3> QED
      BY <1>5, <3>2, <3>3, <3>4 DEF Dispatch
  <2>2. worker' \in [Workers ->
          [at : {"loop", "wait", "ended"}, client : {None}, outcome : {"nothing"}]
            \cup [at : {"dispatch", "handle", "reset", "restart"}, client : Conns,
                  outcome : Outcomes]]
    <3>1. /\ worker[w].at = "dispatch"
          /\ \E step \in {"ended", "loop"} : Leave(w, step)
               \/ Move(w, "restart") \/ Move(w, "handle")
      BY <1>5 DEF Dispatch
    <3> QED
      BY <3>1 DEF TypeOK
  <2> QED
    BY <1>5, <2>1, <2>2 DEF TypeOK, Dispatch
<1>6. CASE Respond(w)
  BY <1>4, <1>6, DisconnectTypes DEF TypeOK, Respond
<1>7. CASE Reset(w)
  BY <1>4, <1>7 DEF TypeOK, Reset
<1>8. CASE Restart(w)
  <2>1. /\ clients' \subseteq Conns /\ pending' \subseteq Conns /\ leaked' \in Nat
        /\ conn' \in [Conns -> [active : BOOLEAN, reading : {"length", "body"}, ported : BOOLEAN]]
    BY <1>4, <1>8, ReadTypes DEF TypeOK, Restart
  <2> QED
    BY <1>8, <2>1 DEF TypeOK, Restart
<1> QED
  BY <1>1, <1>2, <1>3, <1>5, <1>6, <1>7, <1>8 DEF Worker

LEMMA StopTypes == ASSUME TypeOK, NEW s \in Callers, Stop(s) PROVE TypeOK'
BY EmptySeq
DEF TypeOK, Stop, Stopping, StopCheck, StopFlag, StopPort, StopJoinAcceptor, StopJoinWorkers,
    StopClose, StopThrows, Proceed, connVars

LEMMA StepTypes == TypeOK /\ [Next]_vars => TypeOK'
<1>1. TypeOK /\ UNCHANGED vars => TypeOK'
  BY DEF TypeOK, vars, connVars
<1> QED
  BY <1>1, AcceptorTypes, CompletionTypes, WorkerTypes, StopTypes DEF Next

\* Types of the state, for any number of threads: whoever works on a connection holds
\* one, and an idle worker or acceptor holds none.
THEOREM TypeCorrect == Spec => []TypeOK
BY InitTypes, StepTypes, PTL DEF Spec

-----------------------------------------------------------------------------
(* One token per connection *)

\* A Stop that has passed its test has cleared running_, and only that closes the port.
StopOrder ==
  /\ \A s \in Callers : caller[s] \notin {"outside", "flag"} => ~running
  /\ running => portOpen

\* While the server is running, whatever is read from and whatever is on the port has its
\* connection in the list: what the heap may hand out is with a worker at most.
Backed ==
  running =>
    /\ pending \subseteq clients
    /\ \A k \in DOMAIN queue : queue[k].client \in clients
    /\ acceptor.at = "read" => acceptor.client \in clients

\* A connection in the list, or about to be, has not been disconnected.
Listed ==
  /\ \A c \in clients : conn[c].active
  /\ acceptor.at = "push" => conn[acceptor.client].active

\* No connection is in two places.
Unique ==
  /\ \A c \in pending :
       /\ acceptor.client # c
       /\ \A k \in DOMAIN queue : queue[k].client # c
       /\ \A w \in Workers : worker[w].client # c
  /\ \A k \in DOMAIN queue :
       /\ acceptor.client # queue[k].client
       /\ \A w \in Workers : worker[w].client # queue[k].client
       /\ \A l \in DOMAIN queue : queue[k].client = queue[l].client => k = l
  /\ \A w \in Workers : worker[w].client # None =>
       /\ acceptor.client # worker[w].client
       /\ \A v \in Workers : worker[v].client = worker[w].client => v = w

\* A connection of a running server is in one place.
Present ==
  running => \A c \in clients : conn[c].ported =>
    \/ c \in pending \/ acceptor.client = c
    \/ \E k \in DOMAIN queue : queue[k].client = c
    \/ \E w \in Workers : worker[w].client = c

IInv == TypeOK /\ StopOrder /\ Backed /\ Listed /\ Unique /\ Present

LEMMA InitInv == Init => IInv
BY InitTypes, ServerAssumption DEF Init, IInv, StopOrder, Backed, Listed, Unique, Present

LEMMA StepStopOrder == TypeOK /\ StopOrder /\ [Next]_vars => StopOrder'
<1> SUFFICES ASSUME TypeOK, StopOrder, [Next]_vars PROVE StopOrder'
  OBVIOUS
<1>1. CASE UNCHANGED <<running, portOpen, caller>>
  BY <1>1 DEF StopOrder
<1>2. ASSUME NEW s \in Callers, Stop(s) PROVE StopOrder'
  BY <1>2
  DEF TypeOK, StopOrder, Stop, Stopping, StopCheck, StopFlag, StopPort, StopJoinAcceptor,
      StopJoinWorkers, StopClose, StopThrows, Proceed
<1> QED
  BY <1>1, <1>2
  DEF Next, vars, Acceptor, AcceptorCreate, AcceptorCheck, AcceptorPush, AcceptorRead,
      ClientConnects, ConnectFails, CompleteRead, Worker, WorkerLoop, Dequeue, WorkerWoken,
      Dispatch, Respond, Reset, Restart

Tokenless == Backed /\ Listed /\ Unique /\ Present

\* How the two that workers and acceptor call change the list and the reads.
LEMMA DisconnectUnlists ==
  ASSUME IInv, NEW c \in Conns, NEW shared, HandleDisconnect(c, shared)
  PROVE  /\ clients' = clients \ {c}
         /\ \A d \in Conns : conn'[d].ported = conn[d].ported
         /\ \A d \in Conns \ {c} : conn'[d] = conn[d]
BY DEF HandleDisconnect, IInv, TypeOK, Listed

LEMMA ReadOrUnlist ==
  ASSUME IInv, NEW c \in Conns, StartRead(c)
  PROVE  /\ \/ pending' = pending \cup {c} /\ clients' = clients
            \/ pending' = pending /\ clients' = clients \ {c}
         /\ \A d \in Conns : conn'[d].ported = conn[d].ported
         /\ \A d \in Conns \ {c} : conn'[d] = conn[d]
         /\ c \in clients' => conn'[c] = conn[c]
<1>1. CASE ~conn[c].active
  BY <1>1 DEF StartRead, IInv, Listed
<1>2. CASE conn[c].active /\ pending' = pending \cup {c} /\ UNCHANGED <<clients, conn, leaked>>
  BY <1>2
<1>3. CASE HandleDisconnect(c, TRUE) /\ UNCHANGED pending
  BY <1>3, DisconnectUnlists
<1> QED
  BY <1>1, <1>2, <1>3 DEF StartRead

LEMMA AcceptorTokens ==
  ASSUME IInv, ~Reuse, Acceptor \/ ClientConnects \/ ConnectFails
  PROVE  Tokenless'
<1> USE DEF Tokenless, connVars
<1>1. CASE AcceptorCreate \/ ClientConnects \/ ConnectFails
  <2>1. UNCHANGED <<running, clients, conn, pending, queue, worker>>
        /\ acceptor'.client = acceptor.client /\ acceptor'.at \notin {"push", "read"}
    BY <1>1 DEF AcceptorCreate, ClientConnects, ConnectFails, IInv, TypeOK
  <2> QED
    BY <2>1 DEF IInv, Backed, Listed, Unique, Present
<1>2. CASE AcceptorCheck
  <2>1. CASE ~running
    <3>1. UNCHANGED <<running, clients, conn, pending, queue, worker>>
          /\ acceptor'.client = acceptor.client /\ acceptor'.at \notin {"push", "read"}
      BY <1>2, <2>1 DEF AcceptorCheck, IInv, TypeOK
    <3> QED
      BY <3>1 DEF IInv, Backed, Listed, Unique, Present
  <2>2. CASE running
    <3>1. PICK c \in Conns, bound \in BOOLEAN :
            /\ Available(c)
            /\ acceptor' = [at |-> "push", client |-> c]
            /\ conn' = [conn EXCEPT ![c] = [active |-> TRUE, reading |-> "length",
                                            ported |-> bound]]
      BY <1>2, <2>2 DEF AcceptorCheck
    <3>2. UNCHANGED <<running, clients, pending, queue, worker>>
      BY <1>2 DEF AcceptorCheck
    <3>3. acceptor.client = None
      BY <1>2 DEF AcceptorCheck, IInv, TypeOK
    <3>4. c \notin clients /\ conn'[c].active /\ (\A d \in Conns \ {c} : conn'[d] = conn[d])
      BY <3>1 DEF Available, IInv, TypeOK
    <3>5. Backed'
      BY <3>1, <3>2 DEF IInv, Backed
    <3>9. /\ c \notin pending /\ \A k \in DOMAIN queue : queue[k].client # c
          /\ \A w \in Workers : worker[w].client # c
      BY <2>2, <3>1, <3>4 DEF Available, IInv, Backed
    <3>6. Listed'
      BY <3>1, <3>2, <3>4 DEF IInv, Listed, TypeOK
    <3>7. Unique'
      BY <3>1, <3>2, <3>9, ServerAssumption DEF IInv, Unique
    <3>8. Present'
      BY <3>1, <3>2, <3>3, <3>4, ServerAssumption DEF IInv, Present, TypeOK
    <3> QED
      BY <3>5, <3>6, <3>7, <3>8
  <2> QED
    BY <2>1, <2>2
<1>3. CASE AcceptorPush
  <2>1. /\ UNCHANGED <<running, conn, pending, queue, worker>>
        /\ acceptor.at = "push" /\ acceptor'.at = "read" /\ acceptor'.client = acceptor.client
        /\ clients' = clients \cup {acceptor.client} /\ acceptor.client \in Conns
    BY <1>3 DEF AcceptorPush, IInv, TypeOK
  <2> QED
    BY <2>1 DEF IInv, Backed, Listed, Unique, Present
<1>4. CASE AcceptorRead
  <2> DEFINE c == acceptor.client
  <2>1. /\ UNCHANGED <<running, queue, worker>>
        /\ acceptor' = [at |-> "create", client |-> None]
        /\ c \in Conns /\ StartRead(c)
    BY <1>4 DEF AcceptorRead, IInv, TypeOK
  <2>2. (running => c \in clients) /\ c # None
    BY <1>4, <2>1, ServerAssumption DEF AcceptorRead, IInv, Backed
  <2> HIDE DEF c
  <2>3. /\ \/ pending' = pending \cup {c} /\ clients' = clients
           \/ pending' = pending /\ clients' = clients \ {c}
        /\ \A d \in Conns : conn'[d].ported = conn[d].ported
        /\ \A d \in Conns \ {c} : conn'[d] = conn[d]
        /\ c \in clients' => conn'[c] = conn[c]
    BY <2>1, ReadOrUnlist
  <2>4. Backed'
    <3>1. c \notin pending /\ \A k \in DOMAIN queue : queue[k].client # c
      BY <2>1 DEF IInv, Unique, c
    <3> QED
      BY <2>1, <2>2, <2>3, <3>1 DEF IInv, Backed
  <2>5. Listed'
    BY <2>1, <2>3 DEF IInv, Listed, TypeOK
  <2>6. Unique'
    <3>1. \A k \in DOMAIN queue : queue[k].client \in Conns
      BY PacketTypes DEF IInv
    <3> QED
      BY <2>1, <2>2, <2>3, <3>1, ServerAssumption DEF IInv, Unique, TypeOK, c
  <2>7. Present'
    BY <2>1, <2>3 DEF IInv, Present, TypeOK, c
  <2> QED
    BY <2>4, <2>5, <2>6, <2>7
<1> QED
  BY <1>1, <1>2, <1>3, <1>4 DEF Acceptor

LEMMA CompletionTokens ==
  ASSUME IInv, NEW c \in Conns, CompleteRead(c)
  PROVE  Tokenless'
<1>1. /\ c \in pending /\ pending' = pending \ {c}
      /\ UNCHANGED <<running, clients, conn, acceptor, worker>>
  BY DEF CompleteRead
<1>2. CASE queue' = queue /\ ~(conn[c].ported /\ portOpen)
  BY <1>1, <1>2 DEF Tokenless, IInv, StopOrder, Backed, Listed, Unique, Present
<1>3. ASSUME NEW o \in Outcomes, queue' = Append(queue, [client |-> c, outcome |-> o])
      PROVE  Tokenless'
  <2>1. /\ Len(queue) \in Nat /\ DOMAIN queue = 1..Len(queue)
        /\ DOMAIN queue' = 1..(Len(queue) + 1) /\ queue'[Len(queue) + 1].client = c
        /\ \A k \in 1..Len(queue) : queue'[k] = queue[k]
    BY <1>3, AppendProperties DEF IInv, TypeOK
  <2>2. acceptor.client # c /\ (\A k \in DOMAIN queue : queue[k].client # c)
        /\ (\A w \in Workers : worker[w].client # c)
    BY <1>1 DEF IInv, Backed, Unique
  <2>3. Backed'
    BY <1>1, <2>1, <2>2 DEF IInv, Backed
  <2>4. Listed'
    BY <1>1 DEF IInv, Listed
  <2>5. Unique'
    BY <1>1, <2>1, <2>2 DEF IInv, Unique
  <2>6. Present'
    BY <1>1, <2>1 DEF IInv, Present
  <2> QED
    BY <2>3, <2>4, <2>5, <2>6 DEF Tokenless
<1> QED
  BY <1>2, <1>3 DEF CompleteRead

LEMMA WorkerTokens ==
  ASSUME IInv, NEW w \in Workers, Worker(w)
  PROVE  Tokenless'
<1> DEFINE c == worker[w].client
<1> USE DEF Tokenless, connVars, Move, Leave
<1>1. CASE WorkerLoop(w) \/ WorkerWoken(w)
  <2>1. /\ UNCHANGED <<running, clients, conn, pending, queue, acceptor>>
        /\ \A v \in Workers : worker'[v].client = worker[v].client
    BY <1>1 DEF WorkerLoop, WorkerWoken, IInv, TypeOK
  <2> QED
    BY <2>1 DEF IInv, Backed, Listed, Unique, Present
<1>2. CASE Dequeue(w)
  <2>1. /\ worker[w].client = None
        /\ UNCHANGED <<running, clients, conn, pending, acceptor>>
        /\ worker'[w].client = queue[1].client
        /\ \A v \in Workers \ {w} : worker'[v] = worker[v]
    BY <1>2 DEF Dequeue, IInv, TypeOK
  <2>2. /\ Len(queue) \in Nat \ {0} /\ DOMAIN queue = 1..Len(queue)
        /\ DOMAIN queue' = 1..(Len(queue) - 1)
        /\ \A k \in 1..(Len(queue) - 1) : queue'[k] = queue[k + 1]
        /\ queue[1].client \in Conns
    <3>1. queue \in Seq([client : Conns, outcome : Outcomes]) /\ queue # <<>>
            /\ queue' = Tail(queue)
      BY <1>2 DEF Dequeue, IInv, TypeOK
    <3>2. Len(queue) \in Nat \ {0} /\ DOMAIN queue = 1..Len(queue)
      BY <3>1, LenProperties, EmptySeq
    <3>3. /\ DOMAIN queue' = 1..(Len(queue) - 1)
          /\ \A k \in 1..(Len(queue) - 1) : queue'[k] = queue[k + 1]
      BY <3>1, <3>2, HeadTailProperties, LenProperties
    <3>4. 1 \in DOMAIN queue
      BY <3>2
    <3> QED
      BY <3>2, <3>3, <3>4, PacketTypes DEF IInv
  <2>3. \A k \in DOMAIN queue' : k + 1 \in DOMAIN queue /\ k + 1 # 1 /\ queue'[k] = queue[k + 1]
    BY <2>2
  <2>4. 1 \in DOMAIN queue
    BY <2>2
  <2>5. Backed'
    BY <2>1, <2>3, <2>4 DEF IInv, Backed
  <2>6. Listed'
    BY <2>1 DEF IInv, Listed
  <2>7. Unique'
    <3>1. /\ \A k \in DOMAIN queue : k # 1 => queue[k].client # queue[1].client
          /\ acceptor.client # queue[1].client
          /\ \A v \in Workers : worker[v].client # queue[1].client
      BY <2>4 DEF IInv, Unique
    <3>2. \A k, l \in DOMAIN queue' : k + 1 = l + 1 => k = l
      BY <2>2
    <3>3. \A k \in DOMAIN queue' :
            /\ acceptor'.client # queue'[k].client
            /\ \A v \in Workers : worker'[v].client # queue'[k].client
            /\ \A l \in DOMAIN queue' : queue'[k].client = queue'[l].client => k = l
      BY <2>1, <2>3, <3>1, <3>2 DEF IInv, Unique
    <3>4. \A d \in pending' :
            /\ acceptor'.client # d
            /\ \A k \in DOMAIN queue' : queue'[k].client # d
            /\ \A v \in Workers : worker'[v].client # d
      BY <2>1, <2>3, <2>4 DEF IInv, Unique
    <3>5. \A u \in Workers : worker'[u].client # None =>
            /\ acceptor'.client # worker'[u].client
            /\ \A v \in Workers : worker'[v].client = worker'[u].client => v = u
      BY <2>1, <3>1 DEF IInv, Unique
    <3> QED
      BY <3>3, <3>4, <3>5 DEF Unique
  <2>8. Present'
    <3>1. ASSUME NEW d \in clients, NEW k \in DOMAIN queue, queue[k].client = d
          PROVE  (\E l \in DOMAIN queue' : queue'[l].client = d)
                   \/ (\E v \in Workers : worker'[v].client = d)
      <4>1. CASE k = 1
        BY <2>1, <3>1, <4>1
      <4>2. CASE k # 1
        <5>1. k - 1 \in DOMAIN queue' /\ queue'[k - 1] = queue[k]
          BY <2>2, <4>2
        <5> QED
          BY <3>1, <5>1
      <4> QED
        BY <4>1, <4>2
    <3>2. ASSUME NEW d \in clients, NEW v \in Workers, worker[v].client = d
          PROVE  worker'[v].client = d
      BY <2>1, <3>2, ServerAssumption DEF IInv, TypeOK
    <3> QED
      BY <2>1, <3>1, <3>2 DEF IInv, Present
  <2> QED
    BY <2>5, <2>6, <2>7, <2>8
<1>3. ASSUME worker[w].at \in {"dispatch", "handle", "reset", "restart"}
      PROVE  /\ c \in Conns /\ c # None /\ c \notin pending /\ acceptor.client # c
             /\ \A k \in DOMAIN queue : queue[k].client # c
             /\ \A v \in Workers \ {w} : worker[v].client # c
  BY <1>3, ServerAssumption DEF IInv, TypeOK, Backed, Unique
\* The worker keeps its connection, which may be disconnected.
<1>4. ASSUME worker[w].at \in {"dispatch", "handle", "reset", "restart"},
             UNCHANGED <<running, pending, queue, acceptor>>,
             clients' \in {clients, clients \ {c}},
             \A v \in Workers : worker'[v].client = worker[v].client,
             \A d \in Conns : conn'[d].ported = conn[d].ported,
             \A d \in Conns : d \in clients' \/ d # c => conn'[d].active = conn[d].active
      PROVE  Tokenless'
  <2>1. Listed'
    BY <1>3, <1>4 DEF IInv, TypeOK, Listed
  <2>2. Backed' /\ Unique'
    BY <1>3, <1>4 DEF IInv, Backed, Unique
  <2>3. Present'
    <3> SUFFICES ASSUME running', NEW d \in clients', conn'[d].ported
                 PROVE  \/ d \in pending' \/ acceptor'.client = d
                        \/ \E k \in DOMAIN queue' : queue'[k].client = d
                        \/ \E v \in Workers : worker'[v].client = d
      BY DEF Present
    <3>1. running /\ d \in clients /\ conn[d].ported
      BY <1>4 DEF IInv, TypeOK
    <3>2. \/ d \in pending \/ acceptor.client = d
          \/ \E k \in DOMAIN queue : queue[k].client = d
          \/ \E v \in Workers : worker[v].client = d
      BY <3>1 DEF IInv, Present
    <3> QED
      BY <1>4, <3>2
  <2> QED
    BY <2>1, <2>2, <2>3
\* It leaves it, disconnected or with a read.
<1>5. ASSUME worker[w].at \in {"dispatch", "handle", "reset", "restart"},
             UNCHANGED <<running, queue, acceptor>>,
             worker' = [worker EXCEPT ![w] = [at |-> worker'[w].at, client |-> None,
                                              outcome |-> "nothing"]],
             \/ pending' = pending \cup {c} /\ clients' = clients /\ c \in clients
             \/ pending' = pending /\ clients' = clients \ {c}
             \/ pending' = pending /\ clients' = clients /\ ~running,
             \A d \in Conns : conn'[d].ported = conn[d].ported,
             \A d \in Conns : d \in clients' \/ d # c => conn'[d].active = conn[d].active
      PROVE  Tokenless'
  <2>1. worker'[w].client = None /\ (\A v \in Workers \ {w} : worker'[v] = worker[v])
    BY <1>5 DEF IInv, TypeOK
  <2>2. Listed'
    BY <1>3, <1>5 DEF IInv, TypeOK, Listed
  <2>3. Backed'
    BY <1>3, <1>5, <2>1, ServerAssumption DEF IInv, Backed
  <2>4. Unique'
    <3>1. \A k \in DOMAIN queue : queue[k].client # None
      BY PacketTypes, ServerAssumption DEF IInv
    <3> QED
      BY <1>3, <1>5, <2>1, <3>1, ServerAssumption DEF IInv, TypeOK, Unique
  <2>5. Present'
    <3> SUFFICES ASSUME running', NEW d \in clients', conn'[d].ported
                 PROVE  \/ d \in pending' \/ acceptor'.client = d
                        \/ \E k \in DOMAIN queue' : queue'[k].client = d
                        \/ \E v \in Workers : worker'[v].client = d
      BY DEF Present
    <3>1. running /\ d \in clients /\ conn[d].ported /\ (d = c => d \in pending')
      BY <1>5 DEF IInv, TypeOK
    <3>2. \/ d \in pending \/ acceptor.client = d
          \/ \E k \in DOMAIN queue : queue[k].client = d
          \/ \E v \in Workers : worker[v].client = d
      BY <3>1 DEF IInv, Present
    <3> QED
      BY <1>5, <2>1, <3>1, <3>2
  <2> QED
    BY <2>2, <2>3, <2>4, <2>5
<1>6. CASE Dispatch(w)
  <2>1. /\ worker[w].at = "dispatch" /\ UNCHANGED <<running, pending, queue, acceptor>>
    BY <1>6 DEF Dispatch
  <2>2. CASE ~running /\ Leave(w, "ended") /\ UNCHANGED <<clients, conn, leaked>>
    BY <1>5, <2>1, <2>2 DEF IInv, TypeOK
  <2>3. CASE ~conn[c].active /\ Leave(w, "loop") /\ UNCHANGED <<clients, conn, leaked>>
    <3>1. clients = clients \ {c}
      BY <2>3 DEF IInv, Listed
    <3> QED
      BY <1>5, <2>1, <2>3, <3>1 DEF IInv, TypeOK
  <2>4. CASE HandleDisconnect(c, FALSE) /\ Leave(w, "loop")
    BY <1>3, <1>5, <2>1, <2>4, DisconnectUnlists DEF IInv, TypeOK
  <2>5. CASE /\ conn' = [conn EXCEPT ![c].reading = "body"]
             /\ Move(w, "restart") /\ UNCHANGED <<clients, leaked>>
    BY <1>3, <1>4, <2>1, <2>5 DEF IInv, TypeOK
  <2>6. CASE Move(w, "handle") /\ UNCHANGED <<clients, conn, leaked>>
    BY <1>4, <2>1, <2>6 DEF IInv, TypeOK
  <2> QED
    BY <1>6, <2>2, <2>3, <2>4, <2>5, <2>6 DEF Dispatch
<1>7. CASE Respond(w)
  <2>1. /\ worker[w].at = "handle" /\ UNCHANGED <<running, pending, queue, acceptor>>
        /\ \A v \in Workers : worker'[v].client = worker[v].client
        /\ UNCHANGED <<clients, conn, leaked>> \/ HandleDisconnect(c, FALSE)
    BY <1>7 DEF Respond, IInv, TypeOK
  <2> QED
    BY <1>3, <1>4, <2>1, DisconnectUnlists
<1>8. CASE Reset(w)
  <2>1. /\ worker[w].at = "reset"
        /\ UNCHANGED <<running, clients, pending, queue, acceptor>>
        /\ \A v \in Workers : worker'[v].client = worker[v].client
        /\ \A d \in Conns : conn'[d].ported = conn[d].ported /\ conn'[d].active = conn[d].active
    BY <1>8 DEF Reset, IInv, TypeOK
  <2> QED
    BY <1>4, <2>1
<1>9. CASE Restart(w)
  <2>1. /\ worker[w].at = "restart" /\ UNCHANGED <<running, queue, acceptor>>
        /\ Leave(w, "loop")
    BY <1>9 DEF Restart
  <2>2. CASE c \in clients
    <3>1. StartRead(c)
      BY <1>9, <2>2 DEF Restart
    <3> QED
      BY <1>3, <1>5, <2>1, <2>2, <3>1, ReadOrUnlist DEF IInv, TypeOK
  <2>3. CASE c \notin clients
    <3>1. UNCHANGED <<clients, conn, pending, leaked>> /\ clients = clients \ {c}
      BY <1>9, <2>3 DEF Restart
    <3> QED
      BY <1>5, <2>1, <3>1 DEF IInv, TypeOK
  <2> QED
    BY <2>2, <2>3
<1> QED
  BY <1>1, <1>2, <1>6, <1>7, <1>8, <1>9 DEF Worker

LEMMA StopTokens ==
  ASSUME IInv, NEW s \in Callers, Stop(s)
  PROVE  Tokenless'
<1> USE DEF Tokenless, connVars, IInv, StopOrder, Backed, Listed, Unique, Present
<1>1. CASE StopCheck(s) \/ StopJoinAcceptor(s) \/ StopJoinWorkers(s) \/ StopThrows(s)
  BY <1>1 DEF StopCheck, StopJoinAcceptor, StopJoinWorkers, StopThrows
<1>2. CASE StopFlag(s)
  BY <1>2 DEF StopFlag
<1>3. CASE StopPort(s)
  BY <1>3 DEF StopPort
<1>4. CASE StopClose(s)
  BY <1>4 DEF StopClose
<1> QED
  BY <1>1, <1>2, <1>3, <1>4 DEF Stop, Stopping

\* The server works on each connection from one place only, and a running one forgets
\* none: for any number of workers, connections and callers of Stop, when the heap does
\* not hand out the address of a connection that SendResponse has just released, before
\* its worker is done with that address.
THEOREM TokensAreUnique ==
  ASSUME ~Reuse
  PROVE  Spec => []OneToken
<1>1. IInv /\ [Next]_vars => IInv'
  <2> SUFFICES ASSUME IInv, [Next]_vars PROVE IInv'
    OBVIOUS
  <2>1. Tokenless'
    <3>1. CASE UNCHANGED vars
      BY <3>1 DEF vars, connVars, IInv, Tokenless, Backed, Listed, Unique, Present
    <3> QED
      BY <3>1, AcceptorTokens, CompletionTokens, WorkerTokens, StopTokens DEF Next
  <2> QED
    BY <2>1, StepTypes, StepStopOrder DEF IInv, Tokenless
<1>2. IInv => OneToken
  <2> SUFFICES ASSUME IInv, NEW c \in Conns
               PROVE  /\ \A t, u \in Tokens(c) : t = u
                      /\ (running /\ c \in clients /\ conn[c].ported) => Tokens(c) # {}
    BY DEF OneToken
  <2>1. \A t \in Tokens(c) :
          \/ t = <<"read", c>> /\ c \in pending
          \/ t = <<"acceptor", c>> /\ acceptor.client = c
          \/ \E k \in DOMAIN queue : t = <<"packet", k>> /\ queue[k].client = c
          \/ \E w \in Workers : t = <<"worker", w>> /\ worker[w].client = c
    BY DEF Tokens
  <2>2. c # None
    BY ServerAssumption
  <2>3. \A t, u \in Tokens(c) : t = u
    BY <2>1, <2>2 DEF IInv, Unique
  <2>4. /\ c \in pending => <<"read", c>> \in Tokens(c)
        /\ acceptor.client = c => <<"acceptor", c>> \in Tokens(c)
        /\ \A k \in DOMAIN queue : queue[k].client = c => <<"packet", k>> \in Tokens(c)
        /\ \A w \in Workers : worker[w].client = c => <<"worker", w>> \in Tokens(c)
    BY DEF Tokens
  <2> QED
    BY <2>3, <2>4 DEF IInv, Present
<1> QED
  BY InitInv, <1>1, <1>2, PTL DEF Spec

-----------------------------------------------------------------------------
(* How Stop comes to an end *)

\* The threads of the server leave their loops after running_ is cleared.
LEMMA WorkerAdvances ==
  ASSUME TypeOK, ~running, NEW w \in Workers, Worker(w)
  PROVE  /\ \A v \in Workers \ {w} : worker'[v] = worker[v]
         /\ StepsLeft[worker'[w].at] < StepsLeft[worker[w].at]
         /\ UNCHANGED <<running, acceptor>>
<1> USE DEF StepsLeft, Move, Leave
<1>1. CASE WorkerLoop(w)
  BY <1>1 DEF TypeOK, WorkerLoop
<1>2. CASE Dequeue(w)
  BY <1>2 DEF TypeOK, Dequeue
<1>3. CASE WorkerWoken(w)
  BY <1>3 DEF TypeOK, WorkerWoken
<1>4. CASE Dispatch(w)
  <2>1. worker[w].at = "dispatch" /\ Leave(w, "ended") /\ UNCHANGED <<running, acceptor>>
    BY <1>4 DEF Dispatch
  <2> QED
    BY <2>1 DEF TypeOK
<1>5. CASE Respond(w)
  BY <1>5 DEF TypeOK, Respond
<1>6. CASE Reset(w)
  BY <1>6 DEF TypeOK, Reset
<1>7. CASE Restart(w)
  BY <1>7 DEF TypeOK, Restart
<1> QED
  BY <1>1, <1>2, <1>3, <1>4, <1>5, <1>6, <1>7 DEF Worker

LEMMA AcceptorAdvances ==
  ASSUME TypeOK, ~running, Acceptor \/ ClientConnects \/ ConnectFails
  PROVE  /\ StepsLeft[acceptor'.at] < StepsLeft[acceptor.at]
         /\ UNCHANGED <<running, worker>>
<1> USE DEF StepsLeft
<1>1. CASE AcceptorCreate
  BY <1>1 DEF TypeOK, AcceptorCreate
<1>2. CASE AcceptorCheck
  BY <1>2 DEF TypeOK, AcceptorCheck
<1>3. CASE AcceptorPush
  BY <1>3 DEF TypeOK, AcceptorPush
<1>4. CASE AcceptorRead
  BY <1>4 DEF TypeOK, AcceptorRead
<1>5. CASE ClientConnects \/ ConnectFails
  BY <1>5 DEF TypeOK, ClientConnects, ConnectFails
<1> QED
  BY <1>1, <1>2, <1>3, <1>4, <1>5 DEF Acceptor

\* What a Stop waits for, for any number of workers, connections and packets on the port:
\* four steps of a thread at most, of which a worker's own message handler is one and the
\* acceptor's next client another. It is the part of StopReturns that needs no fairness.
THEOREM StopsWindDown == Spec => WindsDown
<1> DEFINE Advances ==
      /\ ~running'
      /\ \A w \in Workers :
           worker'[w] # worker[w] => StepsLeft[worker'[w].at] < StepsLeft[worker[w].at]
      /\ acceptor' # acceptor => StepsLeft[acceptor'.at] < StepsLeft[acceptor.at]
<1>1. TypeOK /\ [Next]_vars => [~running => Advances]_vars
  <2> SUFFICES ASSUME TypeOK, Next, ~running PROVE Advances
    OBVIOUS
  <2>1. CASE Acceptor \/ ClientConnects \/ ConnectFails
    BY <2>1, AcceptorAdvances
  <2>2. CASE \E c \in Conns : CompleteRead(c)
    BY <2>2 DEF CompleteRead
  <2>3. ASSUME NEW w \in Workers, Worker(w) PROVE Advances
    BY <2>3, WorkerAdvances
  <2>4. ASSUME NEW s \in Callers, Stop(s) PROVE Advances
    BY <2>4
    DEF Stop, StopCheck, Stopping, StopFlag, StopPort, StopJoinAcceptor, StopJoinWorkers,
        StopClose, StopThrows
  <2> QED
    BY <2>1, <2>2, <2>3, <2>4 DEF Next
<1> QED
  BY TypeCorrect, <1>1, PTL DEF Spec, WindsDown

-----------------------------------------------------------------------------
(* What a Stop that has returned leaves *)

\* How far each Stop has got, and what it has waited for. A joined thread does nothing more.
Joined ==
  \A s \in Callers :
    /\ caller[s] \in {"joinWorkers", "close", "returned"} => acceptor.at = "ended"
    /\ caller[s] \in {"close", "returned"} => \A w \in Workers : worker[w].at = "ended"
    /\ caller[s] = "returned" => clients = {} /\ pending = {}

LEMMA StepJoined ==
  ASSUME TypeOK, Joined, [Next]_vars
  PROVE  Joined'
<1>1. CASE Acceptor \/ ClientConnects \/ ConnectFails
  <2>1. acceptor.at # "ended" /\ UNCHANGED <<caller, worker>>
    BY <1>1
    DEF Acceptor, AcceptorCreate, AcceptorCheck, AcceptorPush, AcceptorRead, ClientConnects,
        ConnectFails
  <2> QED
    BY <2>1 DEF Joined
<1>2. ASSUME NEW w \in Workers, Worker(w) PROVE Joined'
  <2>1. worker[w].at # "ended" /\ UNCHANGED <<caller, acceptor>>
    BY <1>2
    DEF Worker, WorkerLoop, Dequeue, WorkerWoken, Dispatch, Respond, Reset, Restart
  <2> QED
    BY <2>1 DEF Joined
<1>3. ASSUME NEW c \in Conns, CompleteRead(c) PROVE Joined'
  BY <1>3 DEF CompleteRead, Joined
<1>4. ASSUME NEW s \in Callers, Stop(s) PROVE Joined'
  BY <1>4
  DEF TypeOK, Joined, Stop, Stopping, StopCheck, StopFlag, StopPort, StopJoinAcceptor,
      StopJoinWorkers, StopClose, StopThrows, Proceed, connVars
<1>5. CASE UNCHANGED vars
  BY <1>5 DEF vars, connVars, Joined
<1> QED
  BY <1>1, <1>2, <1>3, <1>4, <1>5 DEF Next

\* "Stop server and disconnect all clients", however many threads call it and however their
\* steps mix with those of the workers, the acceptor and the clients: a Stop that has found
\* the server running, and has returned, leaves no client, no read and no thread.
THEOREM StopsDisconnectAll == Spec => []StopDisconnectsAll
<1>1. Init => Joined
  BY DEF Init, Joined
<1>2. TypeOK /\ Joined /\ [Next]_vars => Joined'
  BY StepJoined
<1>3. Joined => StopDisconnectsAll
  BY DEF Joined, StopDisconnectsAll
<1> QED
  BY <1>1, <1>2, <1>3, TypeCorrect, PTL DEF Spec

=============================================================================
