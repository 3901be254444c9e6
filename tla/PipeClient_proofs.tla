------------------------- MODULE PipeClient_proofs -------------------------
(***************************************************************************)
(* What TLAPS proves about PipeClient: its types for every number of       *)
(* threads, and, for one thread, that an answer is the call's own.         *)
(***************************************************************************)
EXTENDS PipeClient, SequenceTheorems, TLAPS

USE ClientAssumption

-----------------------------------------------------------------------------
LEMMA InitTyped == Init => TypeOK
  <1> SUFFICES ASSUME Init PROVE TypeOK
    OBVIOUS
  <1>1. requests \in [Connections -> Seq(Requests)]
    BY EmptySeq DEF Init
  <1>2. stream \in [Connections -> Seq(Units)]
    BY EmptySeq DEF Init
  <1>3. connects \in 0..MaxConnects /\ calls \in 0..MaxCalls /\ call \in [Threads -> 0..MaxCalls]
    BY DEF Init
  <1>4. result \in [Threads -> Results] /\ alive \in [Connections -> BOOLEAN]
    BY DEF Init, Results
  <1>5. at \in [Threads -> {"idle"}]
    BY DEF Init
  <1> QED BY <1>1, <1>2, <1>3, <1>4, <1>5 DEF Init, TypeOK

\* What the next read meets is a unit, and what it leaves is a sequence of units.
LEMMA ReadTyped ==
  ASSUME TypeOK, Readable
  PROVE  /\ handle \in Connections
         /\ First \in Units
         /\ Others \in Seq(Units)
         /\ BodyBegun \in Seq(Units)
  <1>1. handle \in Connections /\ stream[handle] \in Seq(Units) /\ stream[handle] # <<>>
    BY DEF TypeOK, Readable
  <1>2. First \in Units /\ Others \in Seq(Units)
    BY <1>1, HeadTailProperties DEF First, Others
  <1>3. [First EXCEPT !.part = "rest"] \in Units
    BY <1>2 DEF Units
  <1>4. <<[First EXCEPT !.part = "rest"]>> \in Seq(Units)
    BY <1>3
  <1>5. BodyBegun \in Seq(Units)
    BY <1>2, <1>4, ConcatProperties DEF BodyBegun
  <1> QED BY <1>1, <1>2, <1>5

\* A response is a sequence of two units.
LEMMA ResponseTyped ==
  ASSUME TypeOK, NEW c \in Connections, Respond(c)
  PROVE  stream' \in [Connections -> Seq(Units)]
  <1>1. Head(requests[c]) \in Requests
    BY HeadTailProperties DEF TypeOK, Respond, NextRequest
  <1>2. PICK size \in Sizes, success \in BOOLEAN :
          stream' = [stream EXCEPT ![c] = @ \o
            << [part |-> "length", of |-> Head(requests[c]).of, size |-> size,
                success |-> success],
               [part |-> "body", of |-> Head(requests[c]).of, size |-> size,
                success |-> success] >>]
    BY DEF Respond
  <1> DEFINE u(part) == [part |-> part, of |-> Head(requests[c]).of, size |-> size,
                         success |-> success]
  <1>3. u("length") \in Units /\ u("body") \in Units
    BY <1>1 DEF Units, Requests
  <1>4. << u("length"), u("body") >> \in Seq(Units)
    BY <1>3
  <1>5. stream[c] \o << u("length"), u("body") >> \in Seq(Units)
    BY <1>4, ConcatProperties DEF TypeOK
  <1> QED BY <1>2, <1>5 DEF TypeOK

LEMMA NextTyped == TypeOK /\ [Next]_vars => TypeOK'
  <1> SUFFICES ASSUME TypeOK, [Next]_vars PROVE TypeOK'
    OBVIOUS
  <1> USE DEF callVars, connectionVars, pipeVars
  <1>1. ASSUME NEW t \in Threads, Call(t) PROVE TypeOK'
    BY <1>1 DEF Call, TypeOK
  <1>2. ASSUME NEW t \in Threads, EnsureConnected(t) PROVE TypeOK'
    BY <1>2 DEF EnsureConnected, Goto, TypeOK
  <1>3. ASSUME NEW t \in Threads, OpenPipe(t) PROVE TypeOK'
    <2>1. connects' \in 0..MaxConnects /\ handle' \in Connections
      BY <1>3 DEF OpenPipe, TypeOK, Connections
    <2>2. handle' # None
      <3>1. handle' \in Nat
        BY <2>1 DEF Connections
      <3> QED BY <3>1
    <2>3. alive' \in [Connections -> BOOLEAN]
      BY <1>3 DEF OpenPipe, TypeOK
    <2> QED BY <1>3, <2>1, <2>2, <2>3 DEF OpenPipe, Goto, TypeOK
  <1>4. ASSUME NEW t \in Threads, ConnectFails(t) PROVE TypeOK'
    BY <1>4 DEF ConnectFails, End, TypeOK, Results
  <1>5. ASSUME NEW t \in Threads, SetMode(t) PROVE TypeOK'
    <2>1. CASE handle # None /\ connected' = TRUE /\ Goto(t, "send")
      BY <1>5, <2>1 DEF SetMode, Goto, TypeOK
    <2>2. CASE connected' = connected /\ End(t, Raised)
      BY <1>5, <2>2 DEF SetMode, End, TypeOK, Results
    <2> QED BY <1>5, <2>1, <2>2 DEF SetMode
  <1>6. ASSUME NEW t \in Threads, EndWithoutRequest(t) PROVE TypeOK'
    <2>1. \E r \in {Raised, call[t]} : End(t, r)
      BY <1>6 DEF EndWithoutRequest
    <2> QED BY <1>6, <2>1 DEF EndWithoutRequest, End, TypeOK, Results
  <1>7. ASSUME NEW t \in Threads, Send(t) PROVE TypeOK'
    <2>1. handle \in Connections /\ call[t] \in 1..MaxCalls
      BY <1>7 DEF Send, TypeOK
    <2>2. PICK size \in Sizes :
            requests' = [requests EXCEPT ![handle] = Append(@, [of |-> call[t], size |-> size])]
      BY <1>7 DEF Send
    <2>3. [of |-> call[t], size |-> size] \in Requests
      BY <2>1 DEF Requests
    <2>4. Append(requests[handle], [of |-> call[t], size |-> size]) \in Seq(Requests)
      BY <2>1, <2>3, AppendProperties DEF TypeOK
    <2>5. requests' \in [Connections -> Seq(Requests)]
      BY <2>1, <2>2, <2>4 DEF TypeOK
    <2> QED BY <1>7, <2>5 DEF Send, Goto, TypeOK, Receiving
  <1>8. ASSUME NEW t \in Threads, SendFails(t) PROVE TypeOK'
    BY <1>8 DEF SendFails, End, TypeOK, Results
  <1>9. ASSUME NEW t \in Threads, ReadLength(t) PROVE TypeOK'
    BY <1>9, ReadTyped DEF ReadLength, LeaveAs, Goto, End, TypeOK, Results, Receiving
  <1>10. ASSUME NEW t \in Threads, MisreadLength(t) PROVE TypeOK'
    BY <1>10, ReadTyped DEF MisreadLength, LeaveAs, End, TypeOK, Results
  <1>11. ASSUME NEW t \in Threads, MisreadRest(t) PROVE TypeOK'
    BY <1>11, ReadTyped DEF MisreadRest, LeaveAs, Goto, End, TypeOK, Results, Receiving
  <1>12. ASSUME NEW t \in Threads, ReadBody(t) PROVE TypeOK'
    BY <1>12, ReadTyped DEF ReadBody, ParseResponse, LeaveAs, End, TypeOK, Results, Units
  <1>13. ASSUME NEW t \in Threads, MisreadBody(t) PROVE TypeOK'
    BY <1>13, ReadTyped DEF MisreadBody, LeaveAs, End, TypeOK, Results
  <1>14. ASSUME NEW t \in Threads, ReadFails(t) PROVE TypeOK'
    BY <1>14 DEF ReadFails, End, TypeOK, Results
  <1>15. ASSUME NEW t \in Threads, Interrupt(t) PROVE TypeOK'
    BY <1>15 DEF Interrupt, End, TypeOK, Results
  <1>16. ASSUME NEW t \in Threads, Disconnect(t) PROVE TypeOK'
    BY <1>16 DEF Disconnect, TypeOK
  <1>17. ASSUME NEW c \in Connections, RejectOversized(c) PROVE TypeOK'
    BY <1>17 DEF RejectOversized, TypeOK
  <1>18. ASSUME NEW c \in Connections, Respond(c) PROVE TypeOK'
    <2>1. Tail(requests[c]) \in Seq(Requests)
      BY <1>18, HeadTailProperties DEF Respond, NextRequest, TypeOK
    <2>2. requests' \in [Connections -> Seq(Requests)]
      BY <1>18, <2>1 DEF Respond, TypeOK
    <2>3. stream' \in [Connections -> Seq(Units)]
      BY <1>18, ResponseTyped
    <2> QED BY <1>18, <2>2, <2>3 DEF Respond, TypeOK
  <1>19. ASSUME NEW c \in Connections, CloseConnection(c) PROVE TypeOK'
    BY <1>19 DEF CloseConnection, TypeOK
  <1>20. CASE UNCHANGED vars
    BY <1>20 DEF vars, TypeOK
  <1> QED BY <1>1, <1>2, <1>3, <1>4, <1>5, <1>6, <1>7, <1>8, <1>9, <1>10, <1>11, <1>12,
             <1>13, <1>14, <1>15, <1>16, <1>17, <1>18, <1>19, <1>20
             DEF Next, Proceed, Serve

\* Types, and that a client that takes itself for connected has a handle, for every
\* number of threads that share it.
THEOREM TypeCorrect == Spec => []TypeOK
  BY InitTyped, NextTyped, PTL DEF Spec

-----------------------------------------------------------------------------
(* One thread *)

\* What a client has written and not read yet, on a connection where every exchange
\* was completed: nothing outside of a call's exchange; within it the request, or the
\* response, or the body of the response, of that call.
Exchange(t, step, unread, unanswered) ==
  \/ step \notin Receiving /\ unread = <<>> /\ unanswered = <<>>
  \/ /\ step = "readLength"
     /\ unread = <<>>
     /\ Len(unanswered) = 1 /\ unanswered[1].of = t
  \/ /\ step = "readLength"
     /\ Len(unread) = 2 /\ unread[1].part = "length"
     /\ unread[2].part = "body" /\ unread[2].of = t
     /\ unanswered = <<>>
  \/ /\ step = "readBody"
     /\ Len(unread) = 1 /\ unread[1].part = "body" /\ unread[1].of = t
     /\ unanswered = <<>>

InExchange(t) ==
  handle # None /\ ~cut => Exchange(call[t], at[t], stream[handle], requests[handle])

\* Connections that are yet to be opened are empty.
Unopened ==
  /\ handle # None => handle <= connects
  /\ \A c \in Connections : c > connects => requests[c] = <<>> /\ stream[c] = <<>> /\ ~alive[c]

Sequential == TypeOK /\ Unopened /\ \A t \in Threads : InExchange(t)

OneThread == \A s, t \in Threads : s = t

LEMMA InitSequential == Init => Sequential
  BY InitTyped DEF Init, Sequential, Unopened, InExchange, Connections

LEMMA UnopenedKept == Sequential /\ [Next]_vars => Unopened'
  <1> SUFFICES ASSUME Sequential, [Next]_vars PROVE Unopened'
    OBVIOUS
  <1> USE DEF callVars, connectionVars, pipeVars
  <1>0. /\ connects \in 0..MaxConnects
        /\ handle \in Connections \cup {None}
        /\ requests \in [Connections -> Seq(Requests)]
        /\ stream \in [Connections -> Seq(Units)]
        /\ alive \in [Connections -> BOOLEAN]
    BY DEF Sequential, TypeOK
  <1>1. ASSUME NEW t \in Threads, OpenPipe(t) PROVE Unopened'
    BY <1>0, <1>1 DEF OpenPipe, Sequential, Unopened, Connections
  <1>2. ASSUME NEW t \in Threads, Send(t) PROVE Unopened'
    BY <1>0, <1>2 DEF Send, Sequential, Unopened, Connections
  <1>3. ASSUME NEW t \in Threads,
               ReadLength(t) \/ MisreadLength(t) \/ MisreadRest(t) \/ ReadBody(t) \/ MisreadBody(t)
        PROVE Unopened'
    <2>1. /\ Readable
          /\ \E s : LeaveAs(s)
          /\ UNCHANGED <<handle, connects, alive, requests>>
      BY <1>3 DEF ReadLength, MisreadLength, MisreadRest, ReadBody, MisreadBody
    <2> QED BY <1>0, <2>1 DEF Readable, LeaveAs, Sequential, Unopened, Connections
  <1>4. ASSUME NEW t \in Threads, Disconnect(t) PROVE Unopened'
    BY <1>0, <1>4 DEF Disconnect, Sequential, Unopened
  <1>5. ASSUME NEW c \in Connections, RejectOversized(c) \/ CloseConnection(c) PROVE Unopened'
    BY <1>0, <1>5 DEF RejectOversized, CloseConnection, Sequential, Unopened
  <1>6. ASSUME NEW c \in Connections, Respond(c) PROVE Unopened'
    BY <1>0, <1>6 DEF Respond, NextRequest, Sequential, Unopened, Connections
  <1>7. CASE UNCHANGED <<handle, connects, alive, requests, stream>>
    BY <1>7 DEF Sequential, Unopened
  <1>8. \/ \E t \in Threads : OpenPipe(t) \/ Send(t) \/ Disconnect(t)
        \/ \E t \in Threads :
             ReadLength(t) \/ MisreadLength(t) \/ MisreadRest(t) \/ ReadBody(t) \/ MisreadBody(t)
        \/ \E c \in Connections : RejectOversized(c) \/ CloseConnection(c) \/ Respond(c)
        \/ UNCHANGED <<handle, connects, alive, requests, stream>>
    BY DEF Next, Proceed, Serve, vars, Call, EnsureConnected, ConnectFails, SetMode,
           EndWithoutRequest, SendFails, ReadFails, Interrupt
  <1> QED BY <1>1, <1>2, <1>3, <1>4, <1>5, <1>6, <1>7, <1>8

\* What is left of a sequence of one or two elements.
LEMMA TailOfOne ==
  ASSUME NEW S, NEW s \in Seq(S), Len(s) = 1
  PROVE  Tail(s) = <<>>
  <1>1. s # <<>>
    BY EmptySeq
  <1>2. Tail(s) \in Seq(S) /\ Len(Tail(s)) = 0
    BY <1>1, HeadTailProperties
  <1> QED BY <1>2, EmptySeq

LEMMA TailOfTwo ==
  ASSUME NEW S, NEW s \in Seq(S), Len(s) = 2
  PROVE  Len(Tail(s)) = 1 /\ Tail(s)[1] = s[2]
  <1>1. s # <<>>
    BY EmptySeq
  <1>2. Len(Tail(s)) = 1 /\ \A i \in 1 .. Len(Tail(s)) : Tail(s)[i] = s[i + 1]
    BY <1>1, HeadTailProperties
  <1> QED BY <1>2

\* With one thread, the exchange of the next state follows from the thread's own step.
LEMMA ExchangeKept ==
  ASSUME OneThread, Sequential, [Next]_vars, NEW u \in Threads
  PROVE  InExchange(u)'
  <1> USE DEF callVars, connectionVars, pipeVars, OneThread
  <1>0. /\ connects \in 0..MaxConnects
        /\ handle \in Connections \cup {None}
        /\ requests \in [Connections -> Seq(Requests)]
        /\ stream \in [Connections -> Seq(Units)]
        /\ at \in [Threads -> {"idle", "ensure", "connect", "setMode", "send"} \cup Receiving]
        /\ call \in [Threads -> 0..MaxCalls]
        /\ InExchange(u)
        /\ Unopened
    BY DEF Sequential, TypeOK
  <1>1. ASSUME NEW t \in Threads, Call(t) PROVE InExchange(u)'
    BY <1>0, <1>1 DEF Call, InExchange, Exchange, Receiving
  <1>2. ASSUME NEW t \in Threads,
               EnsureConnected(t) \/ ConnectFails(t) \/ SetMode(t) \/ EndWithoutRequest(t)
                 \/ SendFails(t)
        PROVE InExchange(u)'
    <2>1. /\ at[t] \notin Receiving /\ at'[t] \notin Receiving
          /\ UNCHANGED <<handle, cut, call, requests, stream>>
      BY <1>0, <1>2 DEF EnsureConnected, ConnectFails, SetMode, EndWithoutRequest, SendFails,
                        Goto, End, Receiving
    <2> QED BY <1>0, <2>1 DEF InExchange, Exchange, Receiving
  <1>3. ASSUME NEW t \in Threads, OpenPipe(t) PROVE InExchange(u)'
    <2>1. handle' \in Connections /\ handle' > connects
      BY <1>0, <1>3 DEF OpenPipe, Connections
    <2>2. requests'[handle'] = <<>> /\ stream'[handle'] = <<>>
      BY <1>0, <1>3, <2>1 DEF OpenPipe, Unopened
    <2>3. at'[u] \notin Receiving
      BY <1>0, <1>3 DEF OpenPipe, Goto, Receiving
    <2> QED BY <2>2, <2>3 DEF InExchange, Exchange
  <1>4. ASSUME NEW t \in Threads, Send(t) PROVE InExchange(u)'
    <2>1. handle \in Connections /\ handle' = handle /\ cut' = cut /\ u = t
      BY <1>0, <1>4 DEF Send
    <2>2. PICK size \in Sizes :
            requests' = [requests EXCEPT ![handle] = Append(@, [of |-> call[t], size |-> size])]
      BY <1>4 DEF Send
    <2>3. CASE ~cut
      <3>1. requests[handle] = <<>> /\ stream[handle] = <<>>
        BY <1>0, <1>4, <2>1, <2>3 DEF Send, InExchange, Exchange, Receiving
      <3>2. requests'[handle] = <<[of |-> call[t], size |-> size]>>
        BY <1>0, <2>1, <2>2, <3>1
      <3>3. stream'[handle] = <<>> /\ at'[t] = "readLength" /\ call' = call
        BY <1>0, <1>4, <3>1 DEF Send, Goto
      <3>4. Len(requests'[handle]) = 1 /\ requests'[handle][1].of = call'[t]
        BY <3>2, <3>3
      <3> QED BY <2>1, <3>3, <3>4 DEF InExchange, Exchange
    <2> QED BY <2>1, <2>3 DEF InExchange
  <1>5. ASSUME NEW t \in Threads, ReadLength(t) PROVE InExchange(u)'
    <2>1. /\ handle # None /\ handle \in Connections /\ handle' = handle
          /\ u = t /\ stream[handle] # <<>>
      BY <1>0, <1>5 DEF ReadLength, Readable
    <2>2. CASE ~cut'
      <3>1. ~cut /\ at'[t] = "readBody" /\ call' = call
        BY <1>0, <1>5, <2>2 DEF ReadLength, Goto, End
      <3>2. /\ Len(stream[handle]) = 2
            /\ stream[handle][2].part = "body" /\ stream[handle][2].of = call[t]
            /\ requests[handle] = <<>>
        BY <1>0, <1>5, <2>1, <3>1 DEF ReadLength, InExchange, Exchange, Receiving
      <3>3. stream'[handle] = Tail(stream[handle]) /\ requests' = requests
        BY <1>0, <1>5, <2>1 DEF ReadLength, LeaveAs, Others
      <3>4. Len(Tail(stream[handle])) = 1 /\ Tail(stream[handle])[1] = stream[handle][2]
        BY <1>0, <2>1, <3>2, TailOfTwo
      <3> QED BY <2>1, <3>1, <3>2, <3>3, <3>4 DEF InExchange, Exchange
    <2> QED BY <2>2 DEF InExchange
  <1>6. ASSUME NEW t \in Threads, ReadBody(t) PROVE InExchange(u)'
    <2>1. /\ handle # None /\ handle \in Connections /\ handle' = handle
          /\ u = t /\ stream[handle] # <<>>
      BY <1>0, <1>6 DEF ReadBody, Readable
    <2>2. CASE ~cut'
      <3>1. ~cut /\ at'[t] \notin Receiving
        BY <1>0, <1>6, <2>2 DEF ReadBody, End, Receiving
      <3>2. Len(stream[handle]) = 1 /\ requests[handle] = <<>>
        BY <1>0, <1>6, <2>1, <3>1 DEF ReadBody, InExchange, Exchange, Receiving
      <3>3. stream'[handle] = Tail(stream[handle]) /\ requests' = requests
        BY <1>0, <1>6, <2>1 DEF ReadBody, LeaveAs, Others
      <3>4. Tail(stream[handle]) = <<>>
        BY <1>0, <2>1, <3>2, TailOfOne
      <3> QED BY <2>1, <3>1, <3>2, <3>3, <3>4 DEF InExchange, Exchange
    <2> QED BY <2>2 DEF InExchange
  <1>7. ASSUME NEW t \in Threads,
               MisreadLength(t) \/ MisreadRest(t) \/ MisreadBody(t) \/ ReadFails(t) \/ Interrupt(t)
        PROVE InExchange(u)'
    BY <1>7 DEF MisreadLength, MisreadRest, MisreadBody, ReadFails, Interrupt, InExchange
  <1>8. ASSUME NEW t \in Threads, Disconnect(t) PROVE InExchange(u)'
    BY <1>8 DEF Disconnect, InExchange
  <1>9. ASSUME NEW c \in Connections, RejectOversized(c) \/ CloseConnection(c)
        PROVE InExchange(u)'
    BY <1>0, <1>9 DEF RejectOversized, CloseConnection, InExchange
  <1>10. ASSUME NEW c \in Connections, Respond(c) PROVE InExchange(u)'
    <2>1. UNCHANGED <<handle, cut, at, call>>
      BY <1>10 DEF Respond
    <2>2. CASE handle # c
      BY <1>0, <1>10, <2>1, <2>2 DEF Respond, InExchange
    <2>3. CASE handle = c /\ handle # None /\ ~cut
      <3>1. requests[c] # <<>>
        BY <1>10 DEF Respond, NextRequest
      <3>2. /\ at[u] = "readLength" /\ stream[c] = <<>>
            /\ Len(requests[c]) = 1 /\ requests[c][1].of = call[u]
        BY <1>0, <2>3, <3>1 DEF InExchange, Exchange
      <3>3. PICK size \in Sizes, success \in BOOLEAN :
              stream' = [stream EXCEPT ![c] = @ \o
                << [part |-> "length", of |-> Head(requests[c]).of, size |-> size,
                    success |-> success],
                   [part |-> "body", of |-> Head(requests[c]).of, size |-> size,
                    success |-> success] >>]
        BY <1>10 DEF Respond
      <3>4. Head(requests[c]).of = call[u]
        BY <1>0, <3>1, <3>2
      <3>5. stream'[c] = << [part |-> "length", of |-> call[u], size |-> size,
                             success |-> success],
                            [part |-> "body", of |-> call[u], size |-> size,
                             success |-> success] >>
        BY <1>0, <3>2, <3>3, <3>4
      <3>6. /\ Len(stream'[c]) = 2 /\ stream'[c][1].part = "length"
            /\ stream'[c][2].part = "body" /\ stream'[c][2].of = call[u]
        BY <3>5
      <3>7. requests'[c] = Tail(requests[c])
        BY <1>0, <1>10 DEF Respond
      <3>8. requests'[c] = <<>>
        BY <1>0, <3>2, <3>7, TailOfOne
      <3> QED BY <2>1, <2>3, <3>2, <3>6, <3>8 DEF InExchange, Exchange
    <2>4. CASE cut \/ handle = None
      BY <2>1, <2>4 DEF InExchange
    <2> QED BY <2>2, <2>3, <2>4
  <1>11. CASE UNCHANGED vars
    BY <1>0, <1>11 DEF vars, InExchange
  <1> QED BY <1>1, <1>2, <1>3, <1>4, <1>5, <1>6, <1>7, <1>8, <1>9, <1>10, <1>11
             DEF Next, Proceed, Serve

\* With one thread, a step that ends a call with values, after its request was sent on a
\* connection in step, ends it with those of the response to that request.
LEMMA StepAnswersOwn ==
  ASSUME OneThread, Sequential, [Next]_vars, NEW t \in Threads,
         at[t] \in Receiving, at'[t] = "idle", result'[t] # Raised, ~cut
  PROVE  result'[t] = call[t]
  <1> USE DEF callVars, connectionVars, pipeVars, OneThread
  <1>1. ReadBody(t) \/ MisreadRest(t) \/ MisreadBody(t)
    BY DEF Next, Proceed, Serve, vars, Call, EnsureConnected, OpenPipe, ConnectFails, SetMode,
           EndWithoutRequest, Send, SendFails, ReadLength, MisreadLength, ReadFails, Interrupt,
           Disconnect, RejectOversized, Respond, CloseConnection, Goto, End, Receiving,
           Sequential, TypeOK
  <1>2. handle # None /\ stream[handle] # <<>> /\ handle \in Connections
    BY <1>1 DEF ReadBody, MisreadRest, MisreadBody, Readable, Sequential, TypeOK
  <1>3. First = stream[handle][1]
    BY <1>2 DEF First, Sequential, TypeOK
  <1>4. at[t] = "readLength" => First.part = "length"
    BY <1>2, <1>3 DEF Sequential, InExchange, Exchange, Receiving
  <1>5. at[t] = "readBody" => First.part = "body" /\ First.of = call[t]
    BY <1>2, <1>3 DEF Sequential, InExchange, Exchange, Receiving
  <1>6. ReadBody(t)
    BY <1>1, <1>4, <1>5 DEF MisreadRest, MisreadBody
  <1> QED BY <1>5, <1>6 DEF ReadBody, ParseResponse, End, Sequential, TypeOK

\* A client that one thread uses gets the answers to its own requests, over any number
\* of calls, errors and connections, as long as it gives up a connection on which a
\* response was left unread.
THEOREM AnswersAreOwn ==
  ASSUME OneThread
  PROVE  Spec => AnswerIsOwn
  <1>1. Sequential /\ [Next]_vars => Sequential'
    BY NextTyped, UnopenedKept, ExchangeKept DEF Sequential
  <1>2. Sequential /\ [Next]_vars =>
          [\A t \in Threads :
             (at[t] \in Receiving /\ at'[t] = "idle" /\ result'[t] # Raised)
               => result'[t] = call[t] \/ cut]_vars
    BY StepAnswersOwn
  <1> QED BY InitSequential, <1>1, <1>2, PTL DEF Spec, AnswerIsOwn

\* A client that one thread uses and the service never wait for each other, with errors,
\* oversized messages and closed connections, and any number of them.
THEOREM NoMutualWait ==
  ASSUME OneThread
  PROVE  Spec => []NeverBothWait
  <1>1. Sequential /\ [Next]_vars => Sequential'
    BY NextTyped, UnopenedKept, ExchangeKept DEF Sequential
  <1>2. Sequential => NeverBothWait
    <2> SUFFICES ASSUME Sequential, NEW t \in Threads, at[t] \in Receiving, ~cut,
                        handle # None, alive[handle], stream[handle] = <<>>
                 PROVE  requests[handle] # <<>> /\ ~Writing(handle)
      BY DEF NeverBothWait, Readable, NextRequest
    <2>1. Len(requests[handle]) = 1
      BY DEF Sequential, InExchange, Exchange, Receiving
    <2>2. requests[handle] # <<>>
      <3> DEFINE unanswered == requests[handle]
      <3>1. Len(unanswered) = 1
        BY <2>1
      <3> HIDE DEF unanswered
      <3>2. unanswered # <<>>
        BY <3>1, Len(<<>>) = 0
      <3> QED BY <3>2 DEF unanswered
    <2>3. ~Writing(handle)
      BY DEF Writing
    <2> QED BY <2>2, <2>3
  <1> QED BY InitSequential, <1>1, <1>2, PTL DEF Spec

=============================================================================
