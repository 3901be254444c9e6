----------------------------- MODULE PipeClient -----------------------------
(***************************************************************************)
(* RuntimeClient and NamedPipeClient (sdk/python/coreml_win), used by one   *)
(* or several threads, against the service's side of their pipe.           *)
(*                                                                         *)
(* A request is the number of the call that made it (the uuid of           *)
(* create_*_request). A message is its length and its body: what the pipe  *)
(* holds for the client is a sequence of these two, and of the rests of    *)
(* bodies that were begun as something else. Sizes matter to two checks    *)
(* only: BUFFER_SIZE for requests, 10 MB for responses.                    *)
(***************************************************************************)
EXTENDS Naturals, Sequences

CONSTANTS
  Threads,       \* threads that share a RuntimeClient
  MaxCalls,      \* bound on calls
  MaxConnects,   \* bound on connections
  None,
  Raised,        \* a call ended with an exception
  NoValues       \* a call returned what an empty response stands for

ASSUME ClientAssumption ==
  /\ MaxCalls \in Nat /\ MaxConnects \in Nat
  /\ {None, Raised, NoValues} \cap Nat = {} /\ Raised # NoValues

VARIABLES
  connected,   \* _connected
  handle,      \* pipe_handle: the connection it stands for
  at,          \* per thread: the next step of its call
  call,        \* per thread: the number of its last call
  result,      \* per thread: what that call ended with
  calls,       \* how many calls were made
  connects,    \* how many connections were opened
  cut,         \* on pipe_handle's connection a call ended between WriteFile and the end
               \*   of its ReadFiles, or took a part of a response for another
  alive,       \* per connection: both ends are open
  requests,    \* per connection: what the service has not read
  stream       \* per connection: what the client has not read

callVars == <<at, call, result, calls>>
connectionVars == <<connected, handle, connects, cut>>
pipeVars == <<alive, requests, stream>>
vars == <<callVars, connectionVars, pipeVars>>

Sizes == {"accepted", "tooLarge"}
Connections == 1..MaxConnects
Requests == [of : 1..MaxCalls, size : Sizes]
Units == [part : {"length", "body", "rest"}, of : 1..MaxCalls, size : Sizes, success : BOOLEAN]

\* How a call ends; a number is the response to the request of that call.
Results == {Raised, NoValues} \cup (1..MaxCalls)

\* Steps of send_message after WriteFile has returned.
Receiving == {"readLength", "readBody"}

Init ==
  /\ connected = FALSE /\ handle = None /\ connects = 0 /\ cut = FALSE
  /\ at = [t \in Threads |-> "idle"]
  /\ call = [t \in Threads |-> 0]
  /\ result = [t \in Threads |-> Raised]
  /\ calls = 0
  /\ alive = [c \in Connections |-> FALSE]
  /\ requests = [c \in Connections |-> <<>>]
  /\ stream = [c \in Connections |-> <<>>]

-----------------------------------------------------------------------------
(* Calls of RuntimeClient *)

Goto(t, step) ==
  /\ at' = [at EXCEPT ![t] = step]
  /\ UNCHANGED <<call, result, calls>>

End(t, r) ==
  /\ at' = [at EXCEPT ![t] = "idle"]
  /\ result' = [result EXCEPT ![t] = r]
  /\ UNCHANGED <<call, calls>>

\* health, register_model, unregister_model, predict, list_models, get_model_info and
\* get_capabilities; connect is a call that ends before it sends.
Call(t) ==
  /\ at[t] = "idle"
  /\ calls < MaxCalls
  /\ calls' = calls + 1
  /\ call' = [call EXCEPT ![t] = calls']
  /\ at' = [at EXCEPT ![t] = "ensure"]
  /\ UNCHANGED <<result, connectionVars, pipeVars>>

\* _ensure_connected goes by _connected, not by the state of the pipe.
EnsureConnected(t) ==
  /\ at[t] = "ensure"
  /\ Goto(t, IF connected THEN "send" ELSE "connect")
  /\ UNCHANGED <<connectionVars, pipeVars>>

\* WaitNamedPipe and CreateFile; an earlier handle is closed as it is overwritten.
OpenPipe(t) ==
  /\ at[t] = "connect"
  /\ connects < MaxConnects
  /\ connects' = connects + 1
  /\ handle' = connects'
  /\ cut' = FALSE
  /\ alive' = [c \in Connections |-> c = connects' \/ (alive[c] /\ c # handle)]
  /\ Goto(t, "setMode")
  /\ UNCHANGED <<connected, requests, stream>>

\* No service, no free pipe instance within timeout_ms, or another client took it.
ConnectFails(t) ==
  /\ at[t] = "connect"
  /\ End(t, Raised)
  /\ UNCHANGED <<connectionVars, pipeVars>>

\* SetNamedPipeHandleState. If it raises, pipe_handle stays and _connected is FALSE.
SetMode(t) ==
  /\ at[t] = "setMode"
  /\ \/ /\ handle # None
        /\ connected' = TRUE
        /\ Goto(t, "send")
     \/ /\ handle # None => ~alive[handle]
        /\ connected' = connected
        /\ End(t, Raised)
  /\ UNCHANGED <<handle, connects, cut, pipeVars>>

\* The call raises before it sends, for its arguments or for the lack of generated
\* protobuf code, or has nothing to send: get_model_info and get_capabilities.
EndWithoutRequest(t) ==
  /\ at[t] = "send"
  /\ \E r \in {Raised, call[t]} : End(t, r)
  /\ UNCHANGED <<connectionVars, pipeVars>>

-----------------------------------------------------------------------------
(* NamedPipeClient.send_message *)

\* The length and the request in one WriteFile. The client checks no limit.
Send(t) ==
  /\ at[t] = "send"
  /\ handle # None
  /\ alive[handle]
  /\ \E size \in Sizes :
       requests' = [requests EXCEPT ![handle] = Append(@, [of |-> call[t], size |-> size])]
  /\ Goto(t, "readLength")
  /\ UNCHANGED <<connectionVars, alive, stream>>

SendFails(t) ==
  /\ at[t] = "send"
  /\ handle # None => ~alive[handle]
  /\ End(t, Raised)
  /\ UNCHANGED <<connectionVars, pipeVars>>

\* The pipe has something to read; its first unit, and what is left after it.
Readable == handle # None /\ stream[handle] # <<>>
First == Head(stream[handle])
LeaveAs(s) == stream' = [stream EXCEPT ![handle] = s]
Others == Tail(stream[handle])
BodyBegun == <<[First EXCEPT !.part = "rest"]>> \o Others

\* ReadFile of four bytes where a response begins. One of more than 10 MB makes
\* the call raise, and its body stays in the pipe.
ReadLength(t) ==
  /\ at[t] = "readLength"
  /\ Readable /\ First.part = "length"
  /\ LeaveAs(Others)
  /\ \/ First.size = "accepted" /\ Goto(t, "readBody") /\ cut' = cut
     \/ First.size = "tooLarge" /\ End(t, Raised) /\ cut' = TRUE
  /\ UNCHANGED <<connected, handle, connects, alive, requests>>

\* ReadFile of four bytes where a body begins: the tag and the text of the request id
\* (or, without one, of the status) are as a length over 10 MB.
MisreadLength(t) ==
  /\ at[t] = "readLength"
  /\ Readable /\ First.part = "body"
  /\ LeaveAs(BodyBegun)
  /\ End(t, Raised)
  /\ cut' = TRUE
  /\ UNCHANGED <<connected, handle, connects, alive, requests>>

\* Four bytes from the middle of a body may be any length, also zero: an empty response
\* is a successful one without values.
MisreadRest(t) ==
  /\ at[t] = "readLength"
  /\ Readable /\ First.part = "rest"
  /\ LeaveAs(BodyBegun) \/ LeaveAs(Others)
  /\ Goto(t, "readBody") \/ \E r \in {Raised, NoValues} : End(t, r)
  /\ cut' = TRUE
  /\ UNCHANGED <<connected, handle, connects, alive, requests>>

\* A status other than CMW_SUCCESS raises. That the request_id is this call's is not
\* looked at.
ParseResponse(body) == IF body.success THEN body.of ELSE Raised

\* ReadFile of the body, and what the call makes of it.
ReadBody(t) ==
  /\ at[t] = "readBody"
  /\ Readable /\ First.part = "body"
  /\ LeaveAs(Others)
  /\ End(t, ParseResponse(First))
  /\ UNCHANGED <<connectionVars, alive, requests>>

\* Bytes that are no response raise a DecodeError or are taken for one.
MisreadBody(t) ==
  /\ at[t] = "readBody"
  /\ Readable /\ First.part # "body"
  /\ LeaveAs(Others)
  /\ \E r \in {Raised, NoValues} : End(t, r)
  /\ cut' = TRUE
  /\ UNCHANGED <<connected, handle, connects, alive, requests>>

\* The handle is gone, or the pipe has nothing to read and the service has closed it.
ReadFails(t) ==
  /\ at[t] \in Receiving
  /\ ~Readable
  /\ handle # None => ~alive[handle]
  /\ End(t, Raised)
  /\ cut' = TRUE
  /\ UNCHANGED <<connected, handle, connects, pipeVars>>

\* A KeyboardInterrupt before the response has been read.
Interrupt(t) ==
  /\ at[t] \in Receiving
  /\ End(t, Raised)
  /\ cut' = TRUE
  /\ UNCHANGED <<connected, handle, connects, pipeVars>>

\* Mutated form: the pipe is closed and _connected forgotten.
DisconnectPipeOnly(t) ==
  /\ at[t] = "idle"
  /\ connected
  /\ alive' = [c \in Connections |-> alive[c] /\ c # handle]
  /\ handle' = None
  /\ UNCHANGED <<callVars, connected, connects, cut, requests, stream>>

\* disconnect does nothing unless _connected, which no error resets.
Disconnect(t) ==
  /\ at[t] = "idle"
  /\ connected
  /\ alive' = [c \in Connections |-> alive[c] /\ c # handle]
  /\ connected' = FALSE /\ handle' = None
  /\ UNCHANGED <<callVars, connects, cut, requests, stream>>

\* The steps of a call that has begun.
Proceed(t) ==
  \/ EnsureConnected(t) \/ OpenPipe(t) \/ ConnectFails(t) \/ SetMode(t)
  \/ EndWithoutRequest(t) \/ Send(t) \/ SendFails(t)
  \/ ReadLength(t) \/ MisreadLength(t) \/ MisreadRest(t) \/ ReadBody(t)
  \/ MisreadBody(t) \/ ReadFails(t)

-----------------------------------------------------------------------------
(* The service's side: one request of a connection at a time *)

\* WriteFile of a response that the client does not read keeps the worker.
Writing(c) == \E i \in DOMAIN stream[c] : stream[c][i].size = "tooLarge"

NextRequest(c) == alive[c] /\ requests[c] # <<>> /\ ~Writing(c)

\* Mutated form: an oversized request is dropped, the connection kept.
DropOversized(c) ==
  /\ NextRequest(c)
  /\ Head(requests[c]).size = "tooLarge"
  /\ requests' = [requests EXCEPT ![c] = Tail(@)]
  /\ UNCHANGED <<callVars, connectionVars, alive, stream>>

\* A length over BUFFER_SIZE ends the connection without an answer.
RejectOversized(c) ==
  /\ NextRequest(c)
  /\ Head(requests[c]).size = "tooLarge"
  /\ alive' = [alive EXCEPT ![c] = FALSE]
  /\ UNCHANGED <<callVars, connectionVars, requests, stream>>

\* Mutated form: reading_length is not reset after the response, and the message in
\* the buffer may be processed again.
RespondAgain(c) ==
  /\ NextRequest(c)
  /\ Head(requests[c]).size = "accepted"
  /\ \E size \in Sizes, success \in BOOLEAN, again \in BOOLEAN :
       LET unit(part) == [part |-> part, of |-> Head(requests[c]).of, size |-> size,
                          success |-> success]
       IN stream' = [stream EXCEPT ![c] = @ \o <<unit("length"), unit("body")>>
                       \o (IF again THEN <<unit("length"), unit("body")>> ELSE <<>>)]
  /\ requests' = [requests EXCEPT ![c] = Tail(@)]
  /\ UNCHANGED <<callVars, connectionVars, alive>>

\* message_handler_ and SendResponse.
Respond(c) ==
  /\ NextRequest(c)
  /\ Head(requests[c]).size = "accepted"
  /\ \E size \in Sizes, success \in BOOLEAN :
       LET unit(part) == [part |-> part, of |-> Head(requests[c]).of, size |-> size,
                          success |-> success]
       IN stream' = [stream EXCEPT ![c] = @ \o <<unit("length"), unit("body")>>]
  /\ requests' = [requests EXCEPT ![c] = Tail(@)]
  /\ UNCHANGED <<callVars, connectionVars, alive>>

\* The service ends, or closes the connection: what it has written can still be read.
CloseConnection(c) ==
  /\ alive[c]
  /\ alive' = [alive EXCEPT ![c] = FALSE]
  /\ UNCHANGED <<callVars, connectionVars, requests, stream>>

Serve(c) == RejectOversized(c) \/ Respond(c)

-----------------------------------------------------------------------------
Next ==
  \/ \E t \in Threads : Call(t) \/ Proceed(t) \/ Interrupt(t) \/ Disconnect(t)
  \/ \E c \in Connections : Serve(c) \/ CloseConnection(c)

Spec == Init /\ [][Next]_vars

\* Threads that are in a call go on, and a worker of the service takes what a
\* connection holds. Nothing is asked of new calls, of disconnect or of failures.
FairSpec ==
  /\ Spec
  /\ \A t \in Threads : WF_vars(Proceed(t))
  /\ \A c \in Connections : WF_vars(Serve(c))

-----------------------------------------------------------------------------
(* Properties *)

\* What each variable holds. A client that takes itself for connected has a handle.
TypeOK ==
  /\ connected \in BOOLEAN /\ handle \in Connections \cup {None}
  /\ connected => handle # None
  /\ connects \in 0..MaxConnects /\ calls \in 0..MaxCalls /\ cut \in BOOLEAN
  /\ at \in [Threads -> {"idle", "ensure", "connect", "setMode", "send"} \cup Receiving]
  /\ call \in [Threads -> 0..MaxCalls] /\ \A t \in Threads : at[t] # "idle" => call[t] # 0
  /\ result \in [Threads -> Results]
  /\ alive \in [Connections -> BOOLEAN]
  /\ requests \in [Connections -> Seq(Requests)]
  /\ stream \in [Connections -> Seq(Units)]

\* A call that returns values returns those of the response to its own request. No id
\* is compared: it rests on every exchange of the connection having been completed,
\* whatever errors, oversized requests and closed connections came in between.
AnswerIsOwn ==
  [][\A t \in Threads :
       (at[t] \in Receiving /\ at'[t] = "idle" /\ result'[t] # Raised)
         => result'[t] = call[t] \/ cut]_vars

\* While a call waits in ReadFile, which has no timeout, the pipe holds something for it to
\* read, or a request for the service, or the service has closed it: the client and the
\* service never wait for each other. Nor does a response that nobody reads keep the worker
\* from the request the call waits for.
NeverBothWait ==
  \A t \in Threads :
    (at[t] \in Receiving /\ ~cut /\ handle # None /\ alive[handle])
      => Readable \/ NextRequest(handle)

\* Every call ends, though ReadFile has no timeout: the service answers or closes. The
\* exception is a connection on which a response was left unread.
CallsEnd == \A t \in Threads : at[t] # "idle" ~> (at[t] = "idle" \/ cut)

=============================================================================
